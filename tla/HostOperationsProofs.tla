----------------------- MODULE HostOperationsProofs -----------------------
(***************************************************************************)
(* Proofs about HostOperations, for any number of requests, storage paths  *)
(* and operations asked for.                                               *)
(*                                                                         *)
(* HostInv is inductive.  Each property of a host at rest is followed back *)
(* to the operations still under way: a path that is detached is one some  *)
(* operation owes (PathsOwed), a host that is disabled is one some enter   *)
(* holds (HostOwed).  For PathsMatch one has to know that a change of the  *)
(* paths nothing crossed is alone (Alone), so that what it has unplugged   *)
(* stays unplugged until the setting is written (Unplugged).               *)
(***************************************************************************)
EXTENDS HostOperations, TLAPS

(* The stages an operation goes through, by its kind.                      *)
Staged(me) ==
  /\ me.ask.kind = "enter" =>
       me.at \in {"idle", "disable", "evacuate", "rollback", "record"} \union Ended
  /\ me.ask.kind = "exit" => me.at \in {"idle", "enable", "record"} \union Ended
  /\ me.ask.kind = "multipath" =>
       me.at \in {"idle", "host", "paths", "unplug", "config", "replug", "record"} \union Ended
  /\ me.ask.kind = "repair" => me.at \in {"idle", "path", "plug", "record"} \union Ended
  /\ me.todo \subseteq me.held
  /\ me.at = "config" => me.todo = {}

StagesOK == \A o \in Op : Staged(op[o])

(* The enters that closed the host, and what they have done to it.         *)
ClosedOK ==
  /\ closed # {} => ~host.open
  /\ \A o \in closed :
       /\ op[o].ask.kind = "enter" /\ op[o].at # "idle"
       /\ op[o].ask.evacuate /\ op[o].at \in {"record", "reported"} => ~host.guests

HostOwed ==
  ~host.open =>
    stuck \/ \E o \in closed : op[o].at \in {"evacuate", "rollback", "record", "reported"}

Owes(me, p) ==
  /\ me.ask.kind = "multipath"
  /\ \/ me.at \in {"unplug", "config"} /\ p \in me.held \ me.todo
     \/ me.at = "replug" /\ p \in me.todo

PathsOwed == \A p \in Path \ host.attached : p \in dropped \/ \E o \in Op : Owes(op[o], p)

Alone == \A o \in PathChanges : ~op[o].crossed => PathChanges = {o}

(* The stages of a multipathing change up to the write of the setting.     *)
Before == {"host", "paths", "unplug", "config"}

Unplugged ==
  \A o \in Op : op[o].ask.kind = "multipath" /\ op[o].at \in Before /\ ~op[o].crossed =>
    /\ \A call \in late : call.do # "plug"
    /\ op[o].at \in {"unplug", "config"} =>
         (op[o].held \ op[o].todo) \intersect host.attached = {}

HostInv ==
  /\ TypeOK /\ StagesOK /\ ClosedOK /\ HostOwed /\ PathsOwed
  /\ Alone /\ Unplugged /\ PathsMatch

-----------------------------------------------------------------------------
LEMMA IdleOK == Idle \in OpType /\ Staged(Idle) /\ Idle.at = "idle" /\ Idle.ask \in Ask
<1>1. (CHOOSE a \in Asked : TRUE) \in Ask
  BY AskAssumption
<1> QED BY <1>1 DEF Idle, OpType, Staged

(* What the answer to a call of a multipathing change makes of it.         *)
LEMMA MultipathOn ==
  ASSUME NEW me \in OpType, me.ask.kind = "multipath", Staged(me), me.at \in Waiting \ {"paths"},
         NEW p, NEW ok \in BOOLEAN
  PROVE  LET now == Multipath(me, p, ok) IN
         /\ now \in OpType /\ Staged(now)
         /\ now.ask = me.ask /\ now.held = me.held /\ now.crossed = me.crossed
         /\ now.at \in Waiting \union Ended
         /\ me.at \in {"host", "unplug", "config", "replug", "record"}
         /\ me.at = "host" => now.at \in {"paths", "failed"}
         /\ me.at = "unplug" /\ ok => now.at \in {"unplug", "config"} /\ now.todo = me.todo \ {p}
         /\ me.at = "unplug" /\ ~ok => now.at = "failed"
         /\ me.at = "config" =>
              now.todo = me.held /\ now.at \in {"replug", "record", "failed"}
              /\ (me.held # {} => now.at = "replug")
         /\ me.at = "replug" =>
              now.todo = me.todo \ {p} /\ now.at \in {"replug", "record", "failed"}
              /\ (now.todo # {} => now.at = "replug")
         /\ me.at = "record" => now.at \in Ended
<1>1. me.at \in {"host", "unplug", "config", "replug", "record"}
  BY DEF Staged, Waiting, Ended
<1>2. me.todo \subseteq me.held /\ me.todo \subseteq Path /\ me.held \subseteq Path
  BY DEF Staged, OpType
<1>3. CASE me.at = "config"
  BY <1>2, <1>3 DEF Multipath, Replugging, Staged, OpType, Waiting, Ended
<1>4. CASE me.at = "replug"
  BY <1>2, <1>4 DEF Multipath, Replugging, Staged, OpType, Waiting, Ended
<1>5. CASE me.at = "unplug"
  BY <1>2, <1>5 DEF Multipath, Unplugging, Staged, OpType, Waiting, Ended
<1>6. CASE me.at = "host"
  BY <1>2, <1>6 DEF Multipath, Staged, OpType, Waiting, Ended
<1>7. CASE me.at = "record"
  BY <1>2, <1>7 DEF Multipath, Staged, OpType, Waiting, Ended
<1> QED BY <1>1, <1>3, <1>4, <1>5, <1>6, <1>7

(* What an operation is after a call of it was answered or not.            *)
LEMMA GoesOn ==
  ASSUME TypeOK, NEW o \in Op, Staged(op[o]), op[o].at \in Waiting \ {"paths"},
         NEW p \in At(o), NEW ok \in BOOLEAN
  PROVE  /\ p \in Path
         /\ Goes(o, p, ok) \in OpType
         /\ Staged(Goes(o, p, ok))
         /\ Goes(o, p, ok).ask = op[o].ask
         /\ Goes(o, p, ok).held = op[o].held
         /\ Goes(o, p, ok).crossed = op[o].crossed
         /\ Goes(o, p, ok).at \in Waiting \union Ended
<1> DEFINE me == op[o]
<1>1. me \in OpType /\ me.ask \in Ask /\ me.ask.kind \in Kind
  BY DEF TypeOK, OpType, Ask
<1>2. p \in Path /\ (me.at \in {"unplug", "replug"} => p \in me.todo)
  BY <1>1 DEF At, OpType, Ask
<1>3. CASE me.ask.kind = "enter"
  <2>1. Goes(o, p, ok) = Enter(me, ok)
    BY <1>3 DEF Goes
  <2>2. me.at \in {"disable", "evacuate", "rollback", "record"}
    BY <1>3 DEF Staged, Waiting, Ended
  <2> QED BY <1>1, <1>2, <1>3, <2>1, <2>2 DEF Enter, Staged, OpType, Waiting, Ended
<1>4. CASE me.ask.kind = "exit"
  <2>1. Goes(o, p, ok) = Exit(me, ok)
    BY <1>4 DEF Goes
  <2>2. me.at \in {"enable", "record"}
    BY <1>4 DEF Staged, Waiting, Ended
  <2> QED BY <1>1, <1>2, <1>4, <2>1, <2>2 DEF Exit, Staged, OpType, Waiting, Ended
<1>5. CASE me.ask.kind = "multipath"
  <2>1. Goes(o, p, ok) = Multipath(me, p, ok)
    BY <1>5 DEF Goes
  <2> QED BY <1>1, <1>2, <1>5, <2>1, MultipathOn
<1>6. CASE me.ask.kind = "repair"
  <2>1. Goes(o, p, ok) = Repair(me, p, ok)
    BY <1>6 DEF Goes
  <2>2. me.at \in {"path", "plug", "record"}
    BY <1>6 DEF Staged, Waiting, Ended
  <2> QED BY <1>1, <1>2, <1>6, <2>1, <2>2 DEF Repair, Staged, OpType, Waiting, Ended
<1> QED BY <1>1, <1>3, <1>4, <1>5, <1>6 DEF Kind

(* The stages an enter goes through.                                       *)
LEMMA EnterGoes ==
  ASSUME TypeOK, NEW o \in Op, Staged(op[o]), op[o].at \in Waiting \ {"paths"},
         NEW p \in At(o), NEW ok \in BOOLEAN, op[o].ask.kind = "enter"
  PROVE  /\ op[o].at \in {"disable", "evacuate", "rollback", "record"}
         /\ Goes(o, p, ok).at =
              IF op[o].at = "evacuate" THEN IF ok THEN "record" ELSE "rollback"
              ELSE IF op[o].at = "rollback" \/ ~ok THEN "failed"
              ELSE IF op[o].at = "record" THEN "reported"
              ELSE IF op[o].ask.evacuate THEN "evacuate" ELSE "record"
<1>1. op[o].at \in {"disable", "evacuate", "rollback", "record"}
  BY DEF Staged, Waiting, Ended
<1>2. Goes(o, p, ok) = Enter(op[o], ok) /\ op[o] \in OpType
  BY DEF Goes, TypeOK
<1>3. CASE op[o].at = "disable"
  BY <1>2, <1>3 DEF Enter, OpType
<1>4. CASE op[o].at = "evacuate"
  BY <1>2, <1>4 DEF Enter, OpType
<1>5. CASE op[o].at = "rollback"
  BY <1>2, <1>5 DEF Enter, OpType
<1>6. CASE op[o].at = "record"
  BY <1>2, <1>6 DEF Enter, OpType
<1> QED BY <1>1, <1>3, <1>4, <1>5, <1>6


(* The stages a change of the multipathing goes through.                   *)
LEMMA MultipathGoes ==
  ASSUME TypeOK, NEW o \in Op, Staged(op[o]), op[o].at \in Waiting \ {"paths"},
         NEW p \in At(o), NEW ok \in BOOLEAN, op[o].ask.kind = "multipath"
  PROVE  LET me == op[o] now == Goes(o, p, ok) IN
         /\ me.at \in {"host", "unplug", "config", "replug", "record"}
         /\ me.at = "host" => now.at \in {"paths", "failed"}
         /\ me.at = "unplug" /\ ok = TRUE => now.at \in {"unplug", "config"} /\ now.todo = me.todo \ {p}
         /\ me.at = "unplug" /\ ok = FALSE => now.at = "failed"
         /\ me.at = "config" =>
              now.todo = me.held /\ now.at \in {"replug", "record", "failed"}
              /\ (me.held # {} => now.at = "replug")
         /\ me.at = "replug" =>
              now.todo = me.todo \ {p} /\ now.at \in {"replug", "record", "failed"}
              /\ (now.todo # {} => now.at = "replug")
         /\ me.at = "record" => now.at \in Ended
<1>1. Goes(o, p, ok) = Multipath(op[o], p, ok) /\ op[o] \in OpType
  BY DEF Goes, TypeOK
<1> QED BY <1>1, MultipathOn

-----------------------------------------------------------------------------
(* What a call does to the host, field by field.                           *)
LEMMA EffectFields ==
  ASSUME host \in HostType, NEW call \in Call
  PROVE  LET then == Effect(call) IN
         /\ then \in HostType
         /\ then.open = IF call.do = "disable" THEN FALSE ELSE IF call.do = "enable" THEN TRUE ELSE host.open
         /\ then.guests = IF call.do = "evacuate" THEN FALSE ELSE host.guests
         /\ then.attached = IF call.do = "unplug" THEN host.attached \ {call.path}
                            ELSE IF call.do = "plug" THEN host.attached \union {call.path}
                            ELSE host.attached
         /\ then.multi = IF call.do = "config" THEN call.on ELSE host.multi
         /\ \A p \in Path : then.under[p] =
              IF call.do = "plug" /\ p = call.path /\ p \notin host.attached
              THEN host.multi ELSE host.under[p]
<1>1. call.do \in {"disable", "evacuate", "enable", "unplug", "plug", "config", "read"} /\ call.path \in Path
      /\ call.on \in BOOLEAN
  BY DEF Call
<1>2. CASE call.do \in {"disable", "evacuate", "enable"}
  BY <1>1, <1>2 DEF Effect, HostType
<1>3. CASE call.do \in {"unplug", "config", "read"}
  BY <1>1, <1>3 DEF Effect, HostType
<1>4. CASE call.do = "plug"
  BY <1>1, <1>4 DEF Effect, HostType
<1> QED BY <1>1, <1>2, <1>3, <1>4

(* The call an operation awaits.                                           *)
LEMMA AwaitedCall ==
  ASSUME TypeOK, NEW o \in Op, op[o].at \in Waiting \ {"paths"}, NEW p \in Path
  PROVE  LET call == Awaited(o, p) IN
         /\ call \in Call /\ call.path = p /\ call.on = op[o].ask.on
         /\ call.do = "disable"  <=> op[o].at = "disable"
         /\ call.do = "evacuate" <=> op[o].at = "evacuate"
         /\ call.do = "enable"   <=> op[o].at \in {"enable", "rollback"}
         /\ call.do = "unplug"   <=> op[o].at = "unplug"
         /\ call.do = "plug"     <=> op[o].at \in {"plug", "replug"}
         /\ call.do = "config"   <=> op[o].at = "config"
<1>1. op[o].ask.on \in BOOLEAN
  BY DEF TypeOK, OpType, Ask
<1>2. CASE op[o].at \in {"rollback", "replug"}
  BY <1>1, <1>2 DEF Awaited, Call
<1>3. CASE op[o].at \in {"host", "path", "record"}
  BY <1>1, <1>3 DEF Awaited, Call
<1>4. CASE op[o].at \in {"disable", "evacuate", "enable", "unplug", "plug", "config"}
  BY <1>1, <1>4 DEF Awaited, Call
<1> QED BY <1>2, <1>3, <1>4 DEF Waiting

(* An operation goes on and leaves the others where they are.              *)
LEMMA OthersStay ==
  ASSUME HostInv, NEW o \in Op, op[o].at \in Waiting \ {"paths"}, NEW p \in At(o),
         NEW ok \in BOOLEAN, op' = [op EXCEPT ![o] = Goes(o, p, ok)]
  PROVE  /\ op' \in [Op -> OpType] /\ StagesOK' /\ Alone'
         /\ op'[o] = Goes(o, p, ok) /\ \A q \in Op \ {o} : op'[q] = op[q]
         /\ op'[o].ask = op[o].ask /\ op'[o].held = op[o].held /\ op'[o].crossed = op[o].crossed
         /\ op'[o].at \in Waiting \union Ended
<1>1. TypeOK /\ Staged(op[o])
  BY DEF HostInv, StagesOK
<1>2. /\ Goes(o, p, ok) \in OpType /\ Staged(Goes(o, p, ok))
      /\ Goes(o, p, ok).ask = op[o].ask /\ Goes(o, p, ok).held = op[o].held
      /\ Goes(o, p, ok).crossed = op[o].crossed
      /\ Goes(o, p, ok).at \in Waiting \union Ended
  BY <1>1, GoesOn
<1>3. op'[o] = Goes(o, p, ok) /\ \A q \in Op \ {o} : op'[q] = op[q]
  BY <1>1 DEF TypeOK
<1>4. op' \in [Op -> OpType]
  BY <1>1, <1>2 DEF TypeOK
<1>5. StagesOK'
  <2>1. \A q \in Op : Staged(op'[q])
    BY <1>2, <1>3 DEF HostInv, StagesOK
  <2> QED BY <2>1 DEF StagesOK, Staged
<1>6. \A q \in PathChanges' : q \in PathChanges /\ op'[q].crossed = op[q].crossed
  BY <1>2, <1>3 DEF PathChanges, InFlight, Ended, Waiting
<1>7. Alone'
  BY <1>6 DEF HostInv, Alone
<1> QED BY <1>2, <1>3, <1>4, <1>5, <1>7

(* The initial state satisfies the invariant.                              *)
LEMMA HostInit == Init => HostInv
<1> SUFFICES ASSUME Init PROVE HostInv
  OBVIOUS
<1>1. \A o \in Op : op[o] = Idle
  BY DEF Init
<1>2. /\ host.open /\ host.attached = Path /\ host.multi = FALSE /\ \A p \in Path : host.under[p] = FALSE
      /\ late = {} /\ closed = {}
  BY DEF Init
<1>3. TypeOK
  BY IdleOK DEF Init, TypeOK, HostType
<1>4. StagesOK /\ ClosedOK /\ HostOwed /\ PathsOwed
  BY <1>1, <1>2, IdleOK DEF StagesOK, ClosedOK, HostOwed, PathsOwed
<1>5. Alone /\ Unplugged /\ PathsMatch
  BY <1>1, <1>2, IdleOK DEF Alone, PathChanges, InFlight, Waiting, Unplugged, Before, PathsMatch
<1> QED BY <1>3, <1>4, <1>5 DEF HostInv

-----------------------------------------------------------------------------
(* An answered call keeps the invariant.                                   *)
LEMMA AnswerKeeps ==
  ASSUME HostInv, NEW o \in Op, Answer(o)
  PROVE  HostInv'
<1>1. PICK p \in At(o) :
        /\ op[o].at \in Waiting \ {"paths"}
        /\ host' = Effect(Awaited(o, p))
        /\ op' = [op EXCEPT ![o] = Goes(o, p, TRUE)]
        /\ closed' = CASE Awaited(o, p).do = "enable"  -> {}
                       [] Awaited(o, p).do = "disable" -> closed \union {o}
                       [] OTHER                        -> closed
        /\ dropped' = IF Awaited(o, p).do = "plug" THEN dropped \ {p} ELSE dropped
        /\ Mend(Awaited(o, p), IF op[o].crossed THEN Path ELSE Path \ op[o].held)
        /\ late' = late
  BY DEF Answer
<1> DEFINE call == Awaited(o, p)
<1>2. TypeOK /\ host \in HostType /\ Staged(op[o]) /\ op[o] \in OpType
  BY DEF HostInv, StagesOK, TypeOK
<1>3. p \in Path
  BY <1>1, <1>2, GoesOn
<1>4. /\ call \in Call /\ call.path = p /\ call.on = op[o].ask.on
      /\ call.do = "disable"  <=> op[o].at = "disable"
      /\ call.do = "evacuate" <=> op[o].at = "evacuate"
      /\ call.do = "enable"   <=> op[o].at \in {"enable", "rollback"}
      /\ call.do = "unplug"   <=> op[o].at = "unplug"
      /\ call.do = "plug"     <=> op[o].at \in {"plug", "replug"}
      /\ call.do = "config"   <=> op[o].at = "config"
  BY <1>1, <1>2, <1>3, AwaitedCall
<1>5. /\ host' \in HostType
      /\ host'.open = IF op[o].at = "disable" THEN FALSE
                      ELSE IF op[o].at \in {"enable", "rollback"} THEN TRUE ELSE host.open
      /\ host'.guests = IF op[o].at = "evacuate" THEN FALSE ELSE host.guests
      /\ host'.attached = IF op[o].at = "unplug" THEN host.attached \ {p}
                          ELSE IF op[o].at \in {"plug", "replug"} THEN host.attached \union {p}
                          ELSE host.attached
      /\ host'.multi = IF op[o].at = "config" THEN op[o].ask.on ELSE host.multi
      /\ \A q \in Path : host'.under[q] =
           IF op[o].at \in {"plug", "replug"} /\ q = p /\ q \notin host.attached
           THEN host.multi ELSE host.under[q]
  <2> HIDE DEF call
  <2>1. host' = Effect(call)
    BY <1>1 DEF call
  <2> QED BY <1>2, <1>4, <2>1, EffectFields
<1>6. /\ op' \in [Op -> OpType] /\ StagesOK' /\ Alone'
      /\ op'[o] = Goes(o, p, TRUE) /\ \A q \in Op \ {o} : op'[q] = op[q]
      /\ op'[o].ask = op[o].ask /\ op'[o].held = op[o].held /\ op'[o].crossed = op[o].crossed
      /\ op'[o].at \in Waiting \union Ended
  BY <1>1, OthersStay
<1>7. closed' = IF op[o].at \in {"enable", "rollback"} THEN {}
                ELSE IF op[o].at = "disable" THEN closed \union {o} ELSE closed
  BY <1>1, <1>4
<1>8. /\ mixed' = IF op[o].at = "config" THEN IF op[o].crossed THEN Path ELSE Path \ op[o].held
                  ELSE IF op[o].at \in {"plug", "replug"} /\ p \notin host.attached THEN mixed \ {p}
                  ELSE mixed
      /\ stuck' = (stuck /\ op[o].at \notin {"enable", "rollback"})
  BY <1>1, <1>4 DEF Mend
<1>9. dropped' = IF op[o].at \in {"plug", "replug"} THEN dropped \ {p} ELSE dropped
  BY <1>1, <1>4
<1>10. late' = late
  BY <1>1
<1> HIDE DEF call
<1>11. TypeOK'
  <2>1. closed' \subseteq Op /\ dropped' \subseteq Path /\ mixed' \subseteq Path /\ late' \subseteq Call
    BY <1>2, <1>7, <1>8, <1>9, <1>10 DEF TypeOK
  <2>2. stuck' \in BOOLEAN
    BY <1>8
  <2> QED BY <1>5, <1>6, <2>1, <2>2 DEF TypeOK
(* An enter that was answered, and the stage it goes to.                   *)
<1>12. op[o].ask.kind = "enter" =>
         /\ op[o].at \in {"disable", "evacuate", "rollback", "record"}
         /\ op'[o].at = IF op[o].at = "evacuate" THEN "record"
                        ELSE IF op[o].at = "rollback" THEN "failed"
                        ELSE IF op[o].at = "record" THEN "reported"
                        ELSE IF op[o].ask.evacuate THEN "evacuate" ELSE "record"
  BY <1>1, <1>2, <1>6, EnterGoes
<1>13. op[o].at \in {"disable", "evacuate", "rollback"} => op[o].ask.kind = "enter"
  BY <1>1, <1>2 DEF Staged, Ended, OpType, Ask, Kind
<1>14. ClosedOK'
  <2>1. closed' # {} => ~host'.open
    BY <1>5, <1>7 DEF HostInv, ClosedOK
  <2>2. ASSUME NEW q \in closed'
        PROVE  /\ op'[q].ask.kind = "enter" /\ op'[q].at # "idle"
               /\ op'[q].ask.evacuate /\ op'[q].at \in {"record", "reported"} => ~host'.guests
    <3>1. CASE q = o
      <4>1. op[o].ask.kind = "enter"
        BY <3>1, <1>7, <1>13, <2>2 DEF HostInv, ClosedOK
      <4>2. op[o].at = "record" /\ op[o].ask.evacuate => ~host.guests
        BY <3>1, <1>7, <2>2 DEF HostInv, ClosedOK
      <4> QED BY <3>1, <4>1, <4>2, <1>5, <1>6, <1>12 DEF Waiting, Ended
    <3>2. CASE q # o
      <4>1. q \in closed /\ q \in Op
        BY <3>2, <1>2, <1>7, <2>2 DEF TypeOK
      <4> QED BY <3>2, <4>1, <1>5, <1>6 DEF HostInv, ClosedOK
    <3> QED BY <3>1, <3>2
  <2> QED BY <2>1, <2>2 DEF ClosedOK
<1>15. HostOwed'
  <2> SUFFICES ASSUME ~host'.open
               PROVE  stuck' \/ \E q \in closed' : op'[q].at \in {"evacuate", "rollback", "record", "reported"}
    BY DEF HostOwed
  <2>1. CASE op[o].at = "disable"
    BY <2>1, <1>7, <1>12, <1>13
  <2>2. CASE op[o].at # "disable"
    <3>1. ~host.open /\ op[o].at \notin {"enable", "rollback"}
      BY <2>2, <1>5
    <3>2. CASE stuck
      BY <3>1, <3>2, <1>8
    <3>3. CASE ~stuck
      <4>1. PICK q \in closed : op[q].at \in {"evacuate", "rollback", "record", "reported"}
        BY <3>1, <3>3 DEF HostInv, HostOwed
      <4>2. q \in closed' /\ q \in Op
        BY <3>1, <1>2, <1>7, <2>2 DEF TypeOK
      <4>3. CASE q = o
        <5>1. op[o].ask.kind = "enter"
          BY <4>1, <4>3 DEF HostInv, ClosedOK
        <5> QED BY <5>1, <4>1, <4>2, <4>3, <1>12, <3>1, <2>2
      <4>4. CASE q # o
        BY <4>1, <4>2, <4>4, <1>6
      <4> QED BY <4>3, <4>4
    <3> QED BY <3>2, <3>3
  <2> QED BY <2>1, <2>2
<1>16. p \in Path /\ (op[o].at \in {"unplug", "replug"} => p \in op[o].todo)
  BY <1>2, <1>3, <1>1 DEF At
<1>17. op[o].ask.kind = "multipath" =>
         LET me == op[o] now == op'[o] IN
         /\ me.at \in {"host", "unplug", "config", "replug", "record"}
         /\ me.at = "host" => now.at \in {"paths", "failed"}
         /\ me.at = "unplug" => now.at \in {"unplug", "config"} /\ now.todo = me.todo \ {p}
         /\ me.at = "config" =>
              now.todo = me.held /\ now.at \in {"replug", "record", "failed"}
              /\ (me.held # {} => now.at = "replug")
         /\ me.at = "replug" =>
              now.todo = me.todo \ {p} /\ now.at \in {"replug", "record", "failed"}
              /\ (now.todo # {} => now.at = "replug")
         /\ me.at = "record" => now.at \in Ended
  <2> DEFINE now == Goes(o, p, TRUE)
  <2>1. op[o].ask.kind = "multipath" =>
         LET me == op[o] IN
         /\ me.at \in {"host", "unplug", "config", "replug", "record"}
         /\ me.at = "host" => now.at \in {"paths", "failed"}
         /\ me.at = "unplug" => now.at \in {"unplug", "config"} /\ now.todo = me.todo \ {p}
         /\ me.at = "config" =>
              now.todo = me.held /\ now.at \in {"replug", "record", "failed"}
              /\ (me.held # {} => now.at = "replug")
         /\ me.at = "replug" =>
              now.todo = me.todo \ {p} /\ now.at \in {"replug", "record", "failed"}
              /\ (now.todo # {} => now.at = "replug")
         /\ me.at = "record" => now.at \in Ended
    BY <1>1, <1>2, MultipathGoes
  <2> QED BY <1>6, <2>1
<1>18. /\ op[o].todo \subseteq op[o].held
       /\ op[o].at = "config" => op[o].todo = {}
       /\ op[o].at \in {"unplug", "config", "replug"} => op[o].ask.kind = "multipath"
  BY <1>1, <1>2 DEF Staged, Ended, OpType, Ask, Kind
<1>19. PathsOwed'
  <2> SUFFICES ASSUME NEW x \in Path \ host'.attached, x \notin dropped'
               PROVE  \E q \in Op : Owes(op'[q], x)
    BY DEF PathsOwed, Owes
  <2>1. CASE x \notin host.attached
    <3>1. x \notin dropped
      BY <1>5, <1>9
    <3>2. PICK q \in Op : Owes(op[q], x)
      BY <2>1, <3>1 DEF HostInv, PathsOwed
    <3>3. CASE q # o
      BY <3>2, <3>3, <1>6 DEF Owes
    <3>4. CASE q = o
      <4>1. op[o].ask.kind = "multipath"
        BY <3>2, <3>4 DEF Owes
      <4>2. CASE op[o].at = "unplug"
        BY <3>2, <3>4, <4>1, <4>2, <1>6, <1>17 DEF Owes
      <4>3. CASE op[o].at = "config"
        BY <3>2, <3>4, <4>1, <4>3, <1>6, <1>17 DEF Owes
      <4>4. CASE op[o].at = "replug"
        BY <3>2, <3>4, <4>1, <4>4, <1>5, <1>6, <1>17 DEF Owes
      <4> QED BY <3>2, <3>4, <4>2, <4>3, <4>4 DEF Owes
    <3> QED BY <3>3, <3>4
  <2>2. CASE x \in host.attached
    <3>1. op[o].at = "unplug" /\ x = p
      BY <2>2, <1>5
    <3> QED BY <3>1, <1>6, <1>16, <1>17, <1>18 DEF Owes
  <2> QED BY <2>1, <2>2
<1>20. Unplugged'
  <2> SUFFICES ASSUME NEW q \in Op, op'[q].ask.kind = "multipath", op'[q].at \in Before, ~op'[q].crossed
               PROVE  /\ \A c \in late' : c.do # "plug"
                      /\ op'[q].at \in {"unplug", "config"} =>
                           (op'[q].held \ op'[q].todo) \intersect host'.attached = {}
    BY DEF Unplugged
  <2>1. op[q].ask.kind = "multipath" /\ op[q].at \in Before /\ ~op[q].crossed
    <3>1. CASE q # o
      BY <3>1, <1>6
    <3>2. CASE q = o
      <4>1. op[o].ask.kind = "multipath" /\ ~op[o].crossed
        BY <3>2, <1>6
      <4>2. op[o].at \notin {"config", "replug", "record"}
        BY <3>2, <4>1, <1>17 DEF Before, Ended
      <4> QED BY <3>2, <4>1, <4>2, <1>17 DEF Before
    <3> QED BY <3>1, <3>2
  <2>2. \A c \in late : c.do # "plug"
    BY <2>1 DEF HostInv, Unplugged
  <2>3. PathChanges = {q}
    BY <2>1 DEF HostInv, Alone, PathChanges, InFlight, Before, Waiting
  <2>4. ASSUME op'[q].at \in {"unplug", "config"}
        PROVE  (op'[q].held \ op'[q].todo) \intersect host'.attached = {}
    <3>1. CASE q = o
      <4>1. op[o].at = "unplug" /\ op'[o].todo = op[o].todo \ {p}
        BY <2>1, <2>4, <3>1, <1>17 DEF Before
      <4>2. (op[o].held \ op[o].todo) \intersect host.attached = {}
        BY <2>1, <3>1, <4>1 DEF HostInv, Unplugged
      <4> QED BY <3>1, <4>1, <4>2, <1>5, <1>6
    <3>2. CASE q # o
      <4>1. op[o].at \notin {"plug", "replug"}
        <5>1. o \notin PathChanges
          BY <2>3, <3>2
        <5>2. op[o].ask.kind \in {"enter", "exit"}
          BY <5>1, <1>1, <1>2 DEF PathChanges, InFlight, OpType, Ask, Kind
        <5> QED BY <5>2, <1>2 DEF Staged, Ended
      <4>2. (op[q].held \ op[q].todo) \intersect host.attached = {}
        BY <2>1, <2>4, <3>2, <1>6 DEF HostInv, Unplugged
      <4> QED BY <3>2, <4>1, <4>2, <1>5, <1>6
    <3> QED BY <3>1, <3>2
  <2> QED BY <2>2, <2>4, <1>10
<1>21. PathsMatch'
  <2> SUFFICES ASSUME NEW x \in host'.attached, host'.under[x] # host'.multi
               PROVE  x \in mixed'
    BY DEF PathsMatch
  <2>0. x \in Path
    BY <1>5 DEF HostType
  <2>1. CASE op[o].at = "config"
    <3>1. x \in host.attached
      BY <2>1, <1>5
    <3>2. CASE op[o].crossed
      BY <2>0, <2>1, <3>2, <1>8
    <3>3. CASE ~op[o].crossed
      <4>1. (op[o].held \ op[o].todo) \intersect host.attached = {} /\ op[o].todo = {}
        BY <2>1, <3>3, <1>18 DEF HostInv, Unplugged, Before
      <4> QED BY <2>0, <2>1, <3>1, <3>3, <4>1, <1>8
    <3> QED BY <3>2, <3>3
  <2>2. CASE op[o].at # "config"
    <3>1. host'.multi = host.multi
      BY <2>2, <1>5
    <3>2. CASE x \notin host.attached
      BY <2>0, <2>2, <3>1, <3>2, <1>5
    <3>3. CASE x \in host.attached
      <4>1. x \in mixed
        BY <2>0, <3>1, <3>3, <1>5 DEF HostInv, PathsMatch
      <4> QED BY <2>2, <3>3, <4>1, <1>8
    <3> QED BY <3>2, <3>3
  <2> QED BY <2>1, <2>2
<1> QED BY <1>6, <1>11, <1>14, <1>15, <1>19, <1>20, <1>21 DEF HostInv

(* A call that failed, late or for good, keeps the invariant.              *)
LEMMA FailureKeeps ==
  ASSUME HostInv, NEW o \in Op, op[o].at \in Waiting \ {"paths"}, NEW p \in At(o),
         op' = [op EXCEPT ![o] = Goes(o, p, FALSE)], Blame(o, p), host' = host,
         late' \in {late, late \union {Awaited(o, p)}}
  PROVE  HostInv'
<1>1. TypeOK /\ Staged(op[o]) /\ op[o] \in OpType
  BY DEF HostInv, StagesOK, TypeOK
<1>2. p \in Path /\ (op[o].at \in {"unplug", "replug"} => p \in op[o].todo)
  BY <1>1, GoesOn DEF At
<1>3. Awaited(o, p) \in Call /\ (Awaited(o, p).do = "plug" <=> op[o].at \in {"plug", "replug"})
  BY <1>1, <1>2, AwaitedCall
<1>4. /\ op' \in [Op -> OpType] /\ StagesOK' /\ Alone'
      /\ op'[o] = Goes(o, p, FALSE) /\ \A q \in Op \ {o} : op'[q] = op[q]
      /\ op'[o].ask = op[o].ask /\ op'[o].held = op[o].held /\ op'[o].crossed = op[o].crossed
      /\ op'[o].at \in Waiting \union Ended
  BY OthersStay
<1>5. /\ stuck' = (stuck \/ op[o].at = "rollback" \/ <<op[o].at, op[o].ask.kind>> = <<"record", "enter">>)
      /\ dropped' = dropped \union
           CASE op[o].at = "unplug" -> op[o].held \ op[o].todo
             [] op[o].at = "replug" -> {p}
             [] OTHER               -> {}
      /\ closed' = closed /\ mixed' = mixed
  BY DEF Blame
<1>6. /\ dropped \subseteq dropped'
      /\ op[o].at = "unplug" => op[o].held \ op[o].todo \subseteq dropped'
      /\ op[o].at = "replug" => p \in dropped'
      /\ dropped' \subseteq Path
  <2>1. op[o].held \subseteq Path /\ dropped \subseteq Path
    BY <1>1 DEF TypeOK, OpType
  <2> QED BY <1>2, <1>5, <2>1
<1>7. TypeOK'
  <2>1. stuck' \in BOOLEAN
    BY <1>5
  <2>2. late' \subseteq Call
    BY <1>1, <1>3 DEF TypeOK
  <2> QED BY <1>1, <1>4, <1>5, <1>6, <2>1, <2>2 DEF TypeOK
<1>8. op[o].ask.kind = "enter" =>
        /\ op[o].at \in {"disable", "evacuate", "rollback", "record"}
        /\ op'[o].at = IF op[o].at = "evacuate" THEN "rollback" ELSE "failed"
  BY <1>1, <1>4, EnterGoes
<1>9. ClosedOK'
  <2>1. closed' # {} => ~host'.open
    BY <1>5 DEF HostInv, ClosedOK
  <2>2. ASSUME NEW q \in closed'
        PROVE  /\ op'[q].ask.kind = "enter" /\ op'[q].at # "idle"
               /\ op'[q].ask.evacuate /\ op'[q].at \in {"record", "reported"} => ~host'.guests
    <3>1. q \in Op /\ op[q].ask.kind = "enter"
      BY <1>1, <1>5 DEF TypeOK, HostInv, ClosedOK
    <3>2. CASE q = o
      BY <3>1, <3>2, <1>4, <1>8
    <3>3. CASE q # o
      BY <3>1, <3>3, <1>4, <1>5 DEF HostInv, ClosedOK
    <3> QED BY <3>2, <3>3
  <2> QED BY <2>1, <2>2 DEF ClosedOK
<1>10. HostOwed'
  <2> SUFFICES ASSUME ~host.open, ~stuck'
               PROVE  \E q \in closed : op'[q].at \in {"evacuate", "rollback", "record", "reported"}
    BY <1>5 DEF HostOwed
  <2>1. ~stuck /\ op[o].at # "rollback" /\ ~(op[o].at = "record" /\ op[o].ask.kind = "enter")
    BY <1>5
  <2>2. PICK q \in closed : op[q].at \in {"evacuate", "rollback", "record", "reported"}
    BY <2>1 DEF HostInv, HostOwed
  <2>3. q \in Op /\ op[q].ask.kind = "enter"
    BY <1>1 DEF TypeOK, HostInv, ClosedOK
  <2>4. CASE q = o
    BY <2>1, <2>2, <2>3, <2>4, <1>8
  <2>5. CASE q # o
    BY <2>2, <2>3, <2>5, <1>4
  <2> QED BY <2>4, <2>5
<1>11. op[o].ask.kind = "multipath" =>
         LET me == op[o] now == op'[o] IN
         /\ me.at \in {"host", "unplug", "config", "replug", "record"}
         /\ me.at = "host" => now.at \in {"paths", "failed"}
         /\ me.at = "unplug" => now.at = "failed"
         /\ me.at = "config" =>
              now.todo = me.held /\ now.at \in {"replug", "record", "failed"}
              /\ (me.held # {} => now.at = "replug")
         /\ me.at = "replug" =>
              now.todo = me.todo \ {p} /\ now.at \in {"replug", "record", "failed"}
              /\ (now.todo # {} => now.at = "replug")
         /\ me.at = "record" => now.at \in Ended
  <2> DEFINE now == Goes(o, p, FALSE)
  <2>1. op[o].ask.kind = "multipath" =>
         LET me == op[o] IN
         /\ me.at \in {"host", "unplug", "config", "replug", "record"}
         /\ me.at = "host" => now.at \in {"paths", "failed"}
         /\ me.at = "unplug" => now.at = "failed"
         /\ me.at = "config" =>
              now.todo = me.held /\ now.at \in {"replug", "record", "failed"}
              /\ (me.held # {} => now.at = "replug")
         /\ me.at = "replug" =>
              now.todo = me.todo \ {p} /\ now.at \in {"replug", "record", "failed"}
              /\ (now.todo # {} => now.at = "replug")
         /\ me.at = "record" => now.at \in Ended
    BY <1>1, MultipathGoes
  <2> QED BY <1>4, <2>1
<1>12. PathsOwed'
  <2> SUFFICES ASSUME NEW x \in Path \ host.attached, x \notin dropped'
               PROVE  \E q \in Op : Owes(op'[q], x)
    BY DEF PathsOwed, Owes
  <2>1. PICK q \in Op : Owes(op[q], x)
    BY <1>6 DEF HostInv, PathsOwed
  <2>2. CASE q # o
    BY <2>1, <2>2, <1>4 DEF Owes
  <2>3. CASE q = o
    <3>1. op[o].ask.kind = "multipath"
      BY <2>1, <2>3 DEF Owes
    <3>2. CASE op[o].at = "unplug"
      BY <2>1, <2>3, <3>2, <1>6 DEF Owes
    <3>3. CASE op[o].at = "config"
      BY <2>1, <2>3, <3>1, <3>3, <1>4, <1>11 DEF Owes
    <3>4. CASE op[o].at = "replug"
      BY <2>1, <2>3, <3>1, <3>4, <1>4, <1>6, <1>11 DEF Owes
    <3> QED BY <2>1, <2>3, <3>2, <3>3, <3>4 DEF Owes
  <2> QED BY <2>2, <2>3
<1>13. Unplugged'
  <2> SUFFICES ASSUME NEW q \in Op, op'[q].ask.kind = "multipath", op'[q].at \in Before, ~op'[q].crossed
               PROVE  /\ \A c \in late' : c.do # "plug"
                      /\ op'[q].at \in {"unplug", "config"} =>
                           (op'[q].held \ op'[q].todo) \intersect host.attached = {}
    BY DEF Unplugged
  <2>1. op[q].ask.kind = "multipath" /\ op[q].at \in Before /\ ~op[q].crossed
        /\ (q = o => op'[q].at = "paths" /\ op[o].at = "host")
    <3>1. CASE q # o
      BY <3>1, <1>4
    <3>2. CASE q = o
      <4>1. op[o].ask.kind = "multipath" /\ ~op[o].crossed
        BY <3>2, <1>4
      <4> QED BY <3>2, <4>1, <1>11 DEF Before, Ended
    <3> QED BY <3>1, <3>2
  <2>2. \A c \in late : c.do # "plug"
    BY <2>1 DEF HostInv, Unplugged
  <2>3. PathChanges = {q}
    BY <2>1 DEF HostInv, Alone, PathChanges, InFlight, Before, Waiting
  <2>4. op[o].at \notin {"plug", "replug"}
    <3>1. CASE q = o
      BY <2>1, <3>1
    <3>2. CASE q # o
      <4>1. o \notin PathChanges
        BY <2>3, <3>2
      <4>2. op[o].ask.kind \in {"enter", "exit"}
        BY <4>1, <1>1 DEF PathChanges, InFlight, OpType, Ask, Kind
      <4> QED BY <4>2, <1>1 DEF Staged, Ended
    <3> QED BY <3>1, <3>2
  <2>5. \A c \in late' : c.do # "plug"
    BY <2>2, <2>4, <1>3
  <2>6. op'[q].at \in {"unplug", "config"} =>
          (op'[q].held \ op'[q].todo) \intersect host.attached = {}
    BY <2>1, <1>4 DEF HostInv, Unplugged
  <2> QED BY <2>5, <2>6
<1>14. PathsMatch'
  BY <1>5 DEF HostInv, PathsMatch
<1> QED BY <1>4, <1>7, <1>9, <1>10, <1>12, <1>13, <1>14 DEF HostInv

(* A refused call keeps the invariant.                                     *)
LEMMA RefuseKeeps ==
  ASSUME HostInv, NEW o \in Op, Refuse(o)
  PROVE  HostInv'
<1>1. PICK p \in At(o) :
        /\ op[o].at \in Waiting \ {"paths"}
        /\ op' = [op EXCEPT ![o] = Goes(o, p, FALSE)]
        /\ Blame(o, p) /\ host' = host /\ late' = late
  BY DEF Refuse
<1> QED BY <1>1, FailureKeeps

(* A call that is not answered in time keeps the invariant.                *)
LEMMA TimeOutKeeps ==
  ASSUME HostInv, NEW o \in Op, TimeOut(o)
  PROVE  HostInv'
<1>1. PICK p \in At(o) :
        /\ op[o].at \in Waiting \ {"paths"}
        /\ late' = late \union {Awaited(o, p)}
        /\ op' = [op EXCEPT ![o] = Goes(o, p, FALSE)]
        /\ Blame(o, p) /\ host' = host
  BY DEF TimeOut
<1> QED BY <1>1, FailureKeeps

(* Reading the paths of the host keeps the invariant.                      *)
LEMMA ReadPathsKeeps ==
  ASSUME HostInv, NEW o \in Op, NEW unread \in SUBSET Path, ReadPaths(o, unread)
  PROVE  HostInv'
<1> DEFINE seen == host.attached \ unread
           at   == IF seen = {} THEN "config" ELSE "unplug"
<1>1. TypeOK /\ Staged(op[o]) /\ op[o] \in OpType /\ seen \subseteq Path
  BY DEF HostInv, StagesOK, TypeOK, HostType
<1>2. op[o].at = "paths" /\ op[o].ask.kind = "multipath"
  BY <1>1 DEF ReadPaths, Staged, Ended, OpType, Ask, Kind
<1>3. /\ host' = host /\ late' = late /\ closed' = closed
      /\ stuck' = stuck /\ dropped' = dropped /\ mixed' = mixed
      /\ op' = [op EXCEPT ![o] = Unplugging([op[o] EXCEPT !.todo = seen, !.held = seen])]
  BY DEF ReadPaths
<1>4. /\ op'[o] = Unplugging([op[o] EXCEPT !.todo = seen, !.held = seen])
      /\ \A q \in Op \ {o} : op'[q] = op[q]
      /\ DOMAIN op' = Op /\ op' = [q \in Op |-> op'[q]]
  BY <1>1, <1>3 DEF TypeOK
<1>5. /\ op'[o] \in OpType
      /\ op'[o].at = at /\ op'[o].todo = seen /\ op'[o].held = seen
      /\ op'[o].ask = op[o].ask /\ op'[o].crossed = op[o].crossed
  BY <1>1, <1>4 DEF Unplugging, OpType, Waiting
<1>6. at \in {"unplug", "config"} /\ (at = "config" => seen = {})
  OBVIOUS
<1> HIDE DEF seen, at
<1>7. op' \in [Op -> OpType]
  BY <1>1, <1>4, <1>5 DEF TypeOK
<1>8. TypeOK'
  BY <1>1, <1>3, <1>7 DEF TypeOK
<1>9. Staged(op'[o])
  BY <1>2, <1>5, <1>6 DEF Staged
<1>10. StagesOK'
  <2>1. \A q \in Op : Staged(op'[q])
    BY <1>4, <1>9 DEF HostInv, StagesOK
  <2> QED BY <2>1 DEF StagesOK, Staged
<1>11. ClosedOK' /\ HostOwed'
  <2>1. o \notin closed
    BY <1>2 DEF HostInv, ClosedOK
  <2>2. \A q \in closed : op'[q] = op[q]
    BY <2>1, <1>1, <1>4 DEF TypeOK
  <2> QED BY <2>2, <1>3 DEF HostInv, ClosedOK, HostOwed
<1>12. PathsOwed'
  <2> SUFFICES ASSUME NEW x \in Path \ host.attached, x \notin dropped
               PROVE  \E q \in Op : Owes(op'[q], x)
    BY <1>3 DEF PathsOwed, Owes
  <2>1. PICK q \in Op : Owes(op[q], x)
    BY DEF HostInv, PathsOwed
  <2>2. q # o
    BY <2>1, <1>2 DEF Owes
  <2> QED BY <2>1, <2>2, <1>4
<1>13. Alone'
  <2>1. \A q \in PathChanges' : q \in PathChanges /\ op'[q].crossed = op[q].crossed
    BY <1>2, <1>4, <1>5 DEF PathChanges, InFlight, Waiting
  <2> QED BY <2>1 DEF HostInv, Alone
<1>14. Unplugged'
  <2> SUFFICES ASSUME NEW q \in Op, op'[q].ask.kind = "multipath", op'[q].at \in Before, ~op'[q].crossed
               PROVE  /\ \A c \in late : c.do # "plug"
                      /\ op'[q].at \in {"unplug", "config"} =>
                           (op'[q].held \ op'[q].todo) \intersect host.attached = {}
    BY <1>3 DEF Unplugged
  <2>1. CASE q = o
    BY <2>1, <1>2, <1>5 DEF HostInv, Unplugged, Before
  <2>2. CASE q # o
    BY <2>2, <1>4 DEF HostInv, Unplugged
  <2> QED BY <2>1, <2>2
<1>15. PathsMatch'
  BY <1>3 DEF HostInv, PathsMatch
<1> QED BY <1>8, <1>10, <1>11, <1>12, <1>13, <1>14, <1>15 DEF HostInv

(* A request that is received keeps the invariant.                         *)
LEMMA BeginKeeps ==
  ASSUME HostInv, NEW o \in Op, NEW ask \in Asked, Begin(o, ask)
  PROVE  HostInv'
<1> DEFINE others == IF ask.kind \in {"multipath", "repair"} THEN PathChanges ELSE {}
           new    == [Idle EXCEPT !.ask = ask, !.at = First(ask.kind),
                                  !.crossed = (others # {} \/ late # {})]
<1>1. TypeOK /\ StagesOK /\ op[o].at = "idle"
  BY DEF HostInv, Begin
<1>2. /\ host' = host /\ late' = late /\ closed' = closed
      /\ stuck' = stuck /\ dropped' = dropped /\ mixed' = mixed
      /\ op' = [q \in Op |-> IF q = o THEN new ELSE [op[q] EXCEPT !.crossed = (@ \/ q \in others)]]
  BY DEF Begin
<1>3. ask \in Ask /\ ask.kind \in Kind
  BY AskAssumption DEF Ask
<1>4. /\ First(ask.kind) \in {"disable", "enable", "host", "path"}
      /\ ask.kind = "enter" => First(ask.kind) = "disable"
      /\ ask.kind = "exit" => First(ask.kind) = "enable"
      /\ ask.kind = "multipath" => First(ask.kind) = "host"
      /\ ask.kind = "repair" => First(ask.kind) = "path"
  <2>1. CASE ask.kind = "enter"
    BY <2>1 DEF First
  <2>2. CASE ask.kind = "exit"
    BY <2>2 DEF First
  <2>3. CASE ask.kind = "multipath"
    BY <2>3 DEF First
  <2>4. CASE ask.kind = "repair"
    BY <2>4 DEF First
  <2> QED BY <2>1, <2>2, <2>3, <2>4, <1>3 DEF Kind
<1>5. op'[o] = new /\ \A q \in Op \ {o} : op'[q] = [op[q] EXCEPT !.crossed = (@ \/ q \in others)]
  BY <1>2
<1>6. /\ op'[o] \in OpType /\ op'[o].ask = ask /\ op'[o].at = First(ask.kind)
      /\ op'[o].todo = {} /\ op'[o].held = {}
      /\ op'[o].crossed = (others # {} \/ late # {})
  BY <1>3, <1>4, <1>5, IdleOK DEF Idle, OpType, Waiting
<1>7. \A q \in Op \ {o} :
        /\ op'[q] \in OpType /\ op'[q].ask = op[q].ask /\ op'[q].at = op[q].at
        /\ op'[q].todo = op[q].todo /\ op'[q].held = op[q].held
        /\ op'[q].crossed = (op[q].crossed \/ q \in others)
  <2> TAKE q \in Op \ {o}
  <2> DEFINE crossed == op[q].crossed \/ q \in others
  <2>1. op[q] \in OpType
    BY <1>1 DEF TypeOK
  <2>2. crossed \in BOOLEAN
    BY <2>1 DEF OpType
  <2>3. op'[q] = [op[q] EXCEPT !.crossed = crossed]
    BY <1>5
  <2> HIDE DEF crossed
  <2>4. /\ op'[q] \in OpType /\ op'[q].ask = op[q].ask /\ op'[q].at = op[q].at
        /\ op'[q].todo = op[q].todo /\ op'[q].held = op[q].held /\ op'[q].crossed = crossed
    BY <2>1, <2>2, <2>3 DEF OpType
  <2> QED BY <2>4 DEF crossed
<1> HIDE DEF new
<1>8. op' \in [Op -> OpType]
  <2>1. \A q \in Op : op'[q] \in OpType
    BY <1>6, <1>7
  <2>2. op' = [q \in Op |-> op'[q]]
    BY <1>2
  <2> QED BY <2>1, <2>2
<1>9. TypeOK'
  BY <1>1, <1>2, <1>8 DEF TypeOK
<1>10. StagesOK'
  <2>1. Staged(op'[o])
    BY <1>4, <1>6 DEF Staged
  <2>2. \A q \in Op \ {o} : Staged(op'[q])
    BY <1>1, <1>7 DEF StagesOK, Staged
  <2>3. \A q \in Op : Staged(op'[q])
    BY <2>1, <2>2
  <2> QED BY <2>3 DEF StagesOK, Staged
<1>11. ClosedOK' /\ HostOwed'
  <2>1. o \notin closed /\ closed \subseteq Op
    BY <1>1 DEF HostInv, ClosedOK, TypeOK
  <2>2. \A q \in closed : op'[q].at = op[q].at /\ op'[q].ask = op[q].ask
    BY <2>1, <1>7
  <2>3. ClosedOK'
    BY <2>2, <1>2 DEF HostInv, ClosedOK
  <2>4. HostOwed'
    BY <2>2, <1>2 DEF HostInv, HostOwed
  <2> QED BY <2>3, <2>4
<1>12. PathsOwed'
  <2> SUFFICES ASSUME NEW x \in Path \ host.attached, x \notin dropped
               PROVE  \E q \in Op : Owes(op'[q], x)
    BY <1>2 DEF PathsOwed, Owes
  <2>1. PICK q \in Op : Owes(op[q], x)
    BY DEF HostInv, PathsOwed
  <2>2. q # o
    BY <2>1, <1>1 DEF Owes
  <2> QED BY <2>1, <2>2, <1>7 DEF Owes
<1>13. \A q \in Op \ {o} : q \in PathChanges' <=> q \in PathChanges
  BY <1>7 DEF PathChanges, InFlight
<1>14. o \in PathChanges' => ask.kind \in {"multipath", "repair"}
  BY <1>6 DEF PathChanges
<1>15. o \notin PathChanges
  BY <1>1 DEF PathChanges, InFlight, Waiting
<1>16. Alone'
  <2> SUFFICES ASSUME NEW q \in PathChanges', ~op'[q].crossed
               PROVE  PathChanges' = {q}
    BY DEF Alone
  <2>0. PathChanges' \subseteq Op
    BY DEF PathChanges, InFlight
  <2>1. CASE q = o
    <3>1. PathChanges = {}
      BY <2>1, <1>6, <1>14
    <3> QED BY <2>0, <2>1, <3>1, <1>13
  <2>2. CASE q # o
    <3>1. q \in PathChanges /\ ~op[q].crossed /\ q \notin others
      BY <2>0, <2>2, <1>7, <1>13
    <3>2. PathChanges = {q}
      BY <3>1 DEF HostInv, Alone
    <3>3. o \notin PathChanges'
      BY <3>1, <1>14
    <3> QED BY <2>0, <3>2, <3>3, <1>13
  <2> QED BY <2>1, <2>2
<1>17. Unplugged'
  <2> SUFFICES ASSUME NEW q \in Op, op'[q].ask.kind = "multipath", op'[q].at \in Before, ~op'[q].crossed
               PROVE  /\ \A c \in late : c.do # "plug"
                      /\ op'[q].at \in {"unplug", "config"} =>
                           (op'[q].held \ op'[q].todo) \intersect host.attached = {}
    BY <1>2 DEF Unplugged
  <2>1. CASE q = o
    BY <2>1, <1>6
  <2>2. CASE q # o
    BY <2>2, <1>7 DEF HostInv, Unplugged
  <2> QED BY <2>1, <2>2
<1>18. PathsMatch'
  BY <1>2 DEF HostInv, PathsMatch
<1> QED BY <1>9, <1>10, <1>11, <1>12, <1>16, <1>17, <1>18 DEF HostInv

(* A call that takes effect late keeps the invariant.                      *)
LEMMA ArriveKeeps ==
  ASSUME HostInv, NEW call \in late, Arrive(call)
  PROVE  HostInv'
<1>1. /\ late' = late \ {call} /\ op' = op /\ host' = Effect(call)
      /\ closed' = IF call.do = "enable" THEN {} ELSE closed
      /\ dropped' = CASE call.do = "plug"   -> dropped \ {call.path}
                      [] call.do = "unplug" -> dropped \union {call.path}
                      [] OTHER              -> dropped
      /\ IF call.do = "disable" THEN stuck' = TRUE /\ mixed' = mixed ELSE Mend(call, Path)
  BY DEF Arrive
<1>2. TypeOK /\ host \in HostType /\ call \in Call
  BY DEF HostInv, TypeOK
<1>3. call.path \in Path
  BY <1>2 DEF Call
<1>4. /\ host' \in HostType
      /\ host'.open = IF call.do = "disable" THEN FALSE ELSE IF call.do = "enable" THEN TRUE ELSE host.open
      /\ host'.guests = IF call.do = "evacuate" THEN FALSE ELSE host.guests
      /\ host'.attached = IF call.do = "unplug" THEN host.attached \ {call.path}
                          ELSE IF call.do = "plug" THEN host.attached \union {call.path}
                          ELSE host.attached
      /\ host'.multi = IF call.do = "config" THEN call.on ELSE host.multi
      /\ \A p \in Path : host'.under[p] =
           IF call.do = "plug" /\ p = call.path /\ p \notin host.attached
           THEN host.multi ELSE host.under[p]
  BY <1>1, <1>2, EffectFields
<1>5. /\ dropped' \subseteq Path
      /\ \A x \in dropped : x \in dropped' \/ (call.do = "plug" /\ x = call.path)
      /\ call.do = "unplug" => call.path \in dropped'
  <2>1. CASE call.do = "plug"
    BY <2>1, <1>1, <1>2 DEF TypeOK
  <2>2. CASE call.do = "unplug"
    BY <2>2, <1>1, <1>2, <1>3 DEF TypeOK
  <2>3. CASE call.do \notin {"plug", "unplug"}
    BY <2>3, <1>1, <1>2 DEF TypeOK
  <2> QED BY <2>1, <2>2, <2>3
<1>6. /\ stuck' \in BOOLEAN /\ mixed' \subseteq Path
      /\ call.do = "disable" => stuck'
      /\ call.do # "enable" /\ stuck => stuck'
      /\ call.do = "config" => mixed' = Path
      /\ \A x \in mixed : x \in mixed' \/ (call.do = "plug" /\ x = call.path /\ x \notin host.attached)
  <2>1. CASE call.do = "disable"
    BY <2>1, <1>1, <1>2 DEF TypeOK
  <2>2. CASE call.do # "disable"
    <3>0. stuck' = (stuck /\ call.do # "enable")
      BY <2>2, <1>1 DEF Mend
    <3>1. CASE call.do = "config"
      BY <2>2, <3>0, <3>1, <1>1, <1>2 DEF TypeOK, Mend
    <3>2. CASE call.do = "plug" /\ call.path \notin host.attached
      BY <2>2, <3>0, <3>2, <1>1, <1>2 DEF TypeOK, Mend
    <3>3. CASE call.do # "config" /\ ~(call.do = "plug" /\ call.path \notin host.attached)
      BY <2>2, <3>0, <3>3, <1>1, <1>2 DEF TypeOK, Mend
    <3> QED BY <3>1, <3>2, <3>3
  <2> QED BY <2>1, <2>2
<1>7. TypeOK'
  BY <1>1, <1>2, <1>4, <1>5, <1>6 DEF TypeOK
<1>8. StagesOK' /\ Alone'
  BY <1>1 DEF HostInv, StagesOK, Staged, Alone, PathChanges, InFlight
<1>9. ClosedOK'
  BY <1>1, <1>4 DEF HostInv, ClosedOK
<1>10. HostOwed'
  BY <1>1, <1>4, <1>6 DEF HostInv, HostOwed
<1>11. PathsOwed'
  <2> SUFFICES ASSUME NEW x \in Path \ host'.attached, x \notin dropped'
               PROVE  \E q \in Op : Owes(op[q], x)
    BY <1>1 DEF PathsOwed, Owes
  <2>1. x \notin host.attached /\ x \notin dropped
    BY <1>4, <1>5
  <2> QED BY <2>1 DEF HostInv, PathsOwed
<1>12. Unplugged'
  <2> SUFFICES ASSUME NEW q \in Op, op[q].ask.kind = "multipath", op[q].at \in Before, ~op[q].crossed
               PROVE  /\ \A c \in late' : c.do # "plug"
                      /\ op[q].at \in {"unplug", "config"} =>
                           (op[q].held \ op[q].todo) \intersect host'.attached = {}
    BY <1>1 DEF Unplugged
  <2>1. call.do # "plug" /\ \A c \in late : c.do # "plug"
    BY DEF HostInv, Unplugged
  <2>2. host'.attached \subseteq host.attached
    BY <2>1, <1>4
  <2> QED BY <2>1, <2>2, <1>1 DEF HostInv, Unplugged
<1>13. PathsMatch'
  <2> SUFFICES ASSUME NEW x \in host'.attached, host'.under[x] # host'.multi
               PROVE  x \in mixed'
    BY DEF PathsMatch
  <2>0. x \in Path
    BY <1>4 DEF HostType
  <2>1. CASE call.do = "config"
    BY <2>0, <2>1, <1>6
  <2>2. CASE call.do # "config"
    <3>1. x \in host.attached
      BY <2>0, <2>2, <1>4
    <3>2. x \in mixed
      BY <2>0, <2>2, <3>1, <1>4 DEF HostInv, PathsMatch
    <3> QED BY <3>1, <3>2, <1>6
  <2> QED BY <2>1, <2>2
<1> QED BY <1>7, <1>8, <1>9, <1>10, <1>11, <1>12, <1>13 DEF HostInv

(* A call that XAPI gives up keeps the invariant.                          *)
LEMMA GiveUpKeeps ==
  ASSUME HostInv, NEW call \in late, GiveUp(call)
  PROVE  HostInv'
<1>1. /\ late' \subseteq late /\ host' = host /\ op' = op /\ closed' = closed
      /\ stuck' = stuck /\ dropped' = dropped /\ mixed' = mixed
  BY DEF GiveUp
<1>2. TypeOK' /\ Unplugged'
  BY <1>1 DEF HostInv, TypeOK, Unplugged
<1> QED BY <1>1, <1>2 DEF HostInv, StagesOK, Staged, ClosedOK, HostOwed, PathsOwed, Owes,
              Alone, PathChanges, InFlight, PathsMatch

(* A machine that is started on an enabled host keeps the invariant.       *)
LEMMA PlaceKeeps ==
  ASSUME HostInv, Place
  PROVE  HostInv'
<1>1. /\ host.open /\ host' = [host EXCEPT !.guests = TRUE]
      /\ late' = late /\ op' = op /\ closed' = closed
      /\ stuck' = stuck /\ dropped' = dropped /\ mixed' = mixed
  BY DEF Place
<1>2. host \in HostType
  BY DEF HostInv, TypeOK
<1>3. /\ host' \in HostType /\ host'.open = host.open /\ host'.attached = host.attached
      /\ host'.multi = host.multi /\ host'.under = host.under
  BY <1>1, <1>2 DEF HostType
<1>4. closed = {}
  BY <1>1 DEF HostInv, ClosedOK
<1>5. TypeOK' /\ ClosedOK'
  BY <1>1, <1>3, <1>4 DEF HostInv, TypeOK, ClosedOK
<1> QED BY <1>1, <1>3, <1>5 DEF HostInv, StagesOK, Staged, HostOwed, PathsOwed, Owes,
              Alone, PathChanges, InFlight, Unplugged, PathsMatch

(* A crash keeps the invariant.                                            *)
LEMMA CrashKeeps ==
  ASSUME HostInv, Crash
  PROVE  HostInv'
<1>1. /\ host' = host /\ late' = late /\ closed' = closed /\ mixed' = mixed
      /\ stuck' = (stuck \/ \E o \in InFlight : op[o].ask.kind = "enter")
      /\ dropped' = dropped \union UNION {op[o].held : o \in InFlight}
      /\ op' = [o \in Op |-> IF o \in InFlight THEN [op[o] EXCEPT !.at = "failed"] ELSE op[o]]
  BY DEF Crash
<1>2. TypeOK /\ StagesOK /\ InFlight \subseteq Op
  BY DEF HostInv, InFlight
<1>3. \A o \in Op :
        /\ op'[o] \in OpType /\ op'[o].ask = op[o].ask
        /\ op'[o].todo = op[o].todo /\ op'[o].held = op[o].held
        /\ o \in InFlight => op'[o].at = "failed"
        /\ o \notin InFlight => op'[o] = op[o] /\ op[o].at \notin Waiting
  <2> TAKE o \in Op
  <2>1. op[o] \in OpType
    BY <1>2 DEF TypeOK
  <2> QED BY <2>1, <1>1 DEF OpType, Ended, InFlight
<1>4. TypeOK'
  <2>1. op' \in [Op -> OpType]
    BY <1>1, <1>3
  <2>2. dropped' \subseteq Path
    BY <1>1, <1>2 DEF TypeOK, OpType
  <2> QED BY <1>1, <1>2, <2>1, <2>2 DEF TypeOK
<1>5. StagesOK'
  <2>1. \A o \in Op : Staged(op'[o])
    <3> TAKE o \in Op
    <3>1. Staged(op[o])
      BY <1>2 DEF StagesOK
    <3>2. CASE o \in InFlight
      BY <3>1, <3>2, <1>3 DEF Staged, Ended
    <3>3. CASE o \notin InFlight
      BY <3>1, <3>3, <1>3
    <3> QED BY <3>2, <3>3
  <2> QED BY <2>1 DEF StagesOK, Staged
<1>6. closed \subseteq Op
  BY <1>2 DEF TypeOK
<1>7. ClosedOK'
  BY <1>1, <1>3, <1>6 DEF HostInv, ClosedOK
<1>8. HostOwed'
  <2> SUFFICES ASSUME ~host.open, ~stuck'
               PROVE  \E q \in closed : op'[q].at \in {"evacuate", "rollback", "record", "reported"}
    BY <1>1 DEF HostOwed
  <2>1. PICK q \in closed : op[q].at \in {"evacuate", "rollback", "record", "reported"}
    BY <1>1 DEF HostInv, HostOwed
  <2>2. op[q].ask.kind = "enter"
    BY DEF HostInv, ClosedOK
  <2>3. q \notin InFlight
    BY <2>2, <1>1
  <2> QED BY <2>1, <2>3, <1>3, <1>6
<1>9. PathsOwed'
  <2> SUFFICES ASSUME NEW x \in Path \ host.attached
               PROVE  x \in dropped'
    BY <1>1 DEF PathsOwed
  <2>1. CASE x \in dropped
    BY <2>1, <1>1
  <2>2. CASE x \notin dropped
    <3>1. PICK q \in Op : Owes(op[q], x)
      BY <2>2 DEF HostInv, PathsOwed
    <3>2. q \in InFlight
      BY <3>1 DEF Owes, InFlight, Waiting
    <3>3. x \in op[q].held
      BY <3>1, <1>2 DEF Owes, StagesOK, Staged
    <3> QED BY <3>2, <3>3, <1>1
  <2> QED BY <2>1, <2>2
<1>10. \A o \in Op : op'[o].at \notin Waiting
  BY <1>3 DEF Waiting
<1>11. Alone' /\ Unplugged'
  BY <1>10 DEF Alone, PathChanges, InFlight, Unplugged, Before, Waiting
<1>12. PathsMatch'
  BY <1>1 DEF HostInv, PathsMatch
<1> QED BY <1>4, <1>5, <1>7, <1>8, <1>9, <1>11, <1>12 DEF HostInv

(* Every step keeps the invariant.                                         *)
LEMMA HostStep == HostInv /\ [Next]_vars => HostInv'
<1> SUFFICES ASSUME HostInv, [Next]_vars PROVE HostInv'
  OBVIOUS
<1>1. CASE \E o \in Op, ask \in Asked : Begin(o, ask)
  BY <1>1, BeginKeeps
<1>2. ASSUME NEW o \in Op, Answer(o) \/ Refuse(o) \/ TimeOut(o)
      PROVE  HostInv'
  BY <1>2, AnswerKeeps, RefuseKeeps, TimeOutKeeps
<1>3. CASE \E o \in Op, unread \in SUBSET Path : ReadPaths(o, unread)
  BY <1>3, ReadPathsKeeps
<1>4. ASSUME NEW call \in late, Arrive(call) \/ GiveUp(call)
      PROVE  HostInv'
  BY <1>4, ArriveKeeps, GiveUpKeeps
<1>5. CASE Place
  BY <1>5, PlaceKeeps
<1>6. CASE Crash
  BY <1>6, CrashKeeps
<1>7. CASE UNCHANGED vars
  BY <1>7 DEF vars, HostInv, TypeOK, StagesOK, Staged, ClosedOK, HostOwed, PathsOwed, Owes,
        Alone, PathChanges, InFlight, Unplugged, PathsMatch
<1> QED BY <1>1, <1>2, <1>3, <1>4, <1>5, <1>6, <1>7 DEF Next

(* The inductive invariant of the operations on a host: what they have     *)
(* disabled or detached, an operation under way is bound to restore, or    *)
(* one of the named causes lies behind it.                                 *)
THEOREM HostInvariant == Spec => []HostInv
<1> QED BY HostInit, HostStep, PTL DEF Spec

-----------------------------------------------------------------------------
(* The variables keep their types.                                         *)
THEOREM HostTyped == Spec => []TypeOK
<1>1. HostInv => TypeOK
  BY DEF HostInv
<1> QED BY <1>1, HostInvariant, PTL

(* enterHostMaintenance() answers only for a host that is disabled, and    *)
(* emptied if it was to be, and stays so until the host is enabled.        *)
THEOREM MaintenanceIsHeld == Spec => []MaintenanceHeld
<1>1. HostInv => MaintenanceHeld
  BY DEF HostInv, ClosedOK, MaintenanceHeld
<1> QED BY <1>1, HostInvariant, PTL

(* An enter that failed has enabled the host again, but for an error of    *)
(* its rollback or last read, a late disable or a crash.                   *)
THEOREM HostComesBack == Spec => []HostBack
<1>1. HostInv => HostBack
  <2> SUFFICES ASSUME HostInv, AtRest, ~host.open, ~stuck
               PROVE  \E o \in closed : op[o].at = "reported"
    BY DEF HostBack
  <2>1. PICK o \in closed : op[o].at \in {"evacuate", "rollback", "record", "reported"}
    BY DEF HostInv, HostOwed
  <2>2. o \in Op
    BY DEF HostInv, TypeOK
  <2> QED BY <2>1, <2>2 DEF AtRest, InFlight, Waiting
<1> QED BY <1>1, HostInvariant, PTL

(* When the operations are over a detached path is one that could not be   *)
(* plugged, was unplugged late, or before an unplug that failed or a crash.*)
THEOREM PathsComeBack == Spec => []PathsBack
<1>1. HostInv => PathsBack
  <2> SUFFICES ASSUME HostInv, AtRest, NEW x \in Path \ host.attached
               PROVE  x \in dropped
    BY DEF PathsBack
  <2>1. ASSUME NEW o \in Op PROVE ~Owes(op[o], x)
    BY DEF Owes, AtRest, InFlight, Waiting
  <2> QED BY <2>1 DEF HostInv, PathsOwed
<1> QED BY <1>1, HostInvariant, PTL

(* setHostMultipathing() leaves no attached path under another setting     *)
(* than the host's, but for those in mixed.                                *)
THEOREM PathsAgree == Spec => []PathsMatch
<1>1. HostInv => PathsMatch
  BY DEF HostInv
<1> QED BY <1>1, HostInvariant, PTL
=============================================================================
