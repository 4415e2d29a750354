-------------------------- MODULE HostOperations --------------------------
(***************************************************************************)
(* The operations of server/services/xenapi.js that take a host through    *)
(* several XAPI calls: maintenance entered and left (enterHostMaintenance, *)
(* exitHostMaintenance), storage multipathing (setHostMultipathing) and    *)
(* the repair of a storage path (repairSR).  The routes of                 *)
(* server/routes/hosts.js and storage.js start one for every request, and  *)
(* nothing keeps two of them apart.                                        *)
(*                                                                         *)
(* Every call is awaited.  It is answered, refused, or not answered within *)
(* the 30 seconds of config.xen.requestTimeout: XAPI then still carries it *)
(* out or gives it up, at any later time, while the operation has taken    *)
(* its error path.                                                         *)
(*                                                                         *)
(* One host is modelled, with the storage paths (PBDs) it has.  Reads that *)
(* follow each other without a choice between them are one call.           *)
(***************************************************************************)
EXTENDS Naturals

CONSTANTS
  Op,    \* requests, each sent once
  Path,  \* the PBDs of the host
  Asked  \* bound: the operations asked for, a set of Ask

(* path: the path a repair is about.  on: the multipathing asked for.      *)
(* evacuate: whether a host that is entered is to be emptied.              *)
Kind == {"enter", "exit", "multipath", "repair"}
Ask  == [kind : Kind, path : Path, on : BOOLEAN, evacuate : BOOLEAN]

ASSUME AskAssumption == Asked # {} /\ Asked \subseteq Ask

VARIABLES
  host,    \* what XAPI has
  op,      \* the operations
  late,    \* calls that were not answered in time and are not settled
  closed,  \* history: enters that disabled the host, nobody enabling it since
  stuck,   \* history: the host was left disabled by an error
  dropped, \* history: paths left detached by an error
  mixed    \* history: paths that may have kept an earlier multipathing

vars == <<host, op, late, closed, stuck, dropped, mixed>>

-----------------------------------------------------------------------------
(* open: enabled.  guests: a VM runs on it.  multi: its multipathing       *)
(* setting.  under: the setting each path was plugged under.               *)
HostType == [open : BOOLEAN, guests : BOOLEAN, attached : SUBSET Path,
             multi : BOOLEAN, under : [Path -> BOOLEAN]]

Waiting == {"disable", "evacuate", "rollback", "enable", "host", "paths",
            "unplug", "config", "replug", "path", "plug", "record"}
Ended   == {"reported", "failed"}

(* todo: paths still to be unplugged or plugged.  held: attachedPbdRefs.   *)
(* failed: the error that the finally block will let through.              *)
(* crossed: history, another change of the paths was under way.            *)
OpType == [ask : Ask, at : {"idle"} \union Waiting \union Ended,
           todo : SUBSET Path, held : SUBSET Path,
           failed : BOOLEAN, crossed : BOOLEAN]

Call == [do : {"disable", "evacuate", "enable", "unplug", "plug", "config", "read"},
         path : Path, on : BOOLEAN]

InFlight    == {o \in Op : op[o].at \in Waiting}
PathChanges == {o \in InFlight : op[o].ask.kind \in {"multipath", "repair"}}

(* What a call does to the host.  Plugging or unplugging twice is once.    *)
Effect(call) ==
  CASE call.do = "disable"  -> [host EXCEPT !.open = FALSE]
    [] call.do = "enable"   -> [host EXCEPT !.open = TRUE]
    [] call.do = "evacuate" -> [host EXCEPT !.guests = FALSE]
    [] call.do = "unplug"   -> [host EXCEPT !.attached = @ \ {call.path}]
    [] call.do = "plug"     ->
         [host EXCEPT !.attached = @ \union {call.path},
                      !.under[call.path] =
                        IF call.path \in host.attached THEN @ ELSE host.multi]
    [] call.do = "config"   -> [host EXCEPT !.multi = call.on]
    [] call.do = "read"     -> host

(* The call an operation awaits, p being the path its loop has come to.    *)
Awaited(o, p) ==
  LET a == op[o].ask IN
  [do   |-> CASE op[o].at = "rollback" -> "enable"
              [] op[o].at = "replug"   -> "plug"
              [] op[o].at \in {"host", "paths", "path", "record"} -> "read"
              [] OTHER -> op[o].at,
   path |-> p, on |-> a.on]

(* The paths a call may be for: those its loop has left, or the one asked. *)
At(o) == IF op[o].at \in {"unplug", "replug"} THEN op[o].todo ELSE {op[o].ask.path}

First(kind) ==
  CASE kind = "enter" -> "disable" [] kind = "exit" -> "enable"
    [] kind = "multipath" -> "host" [] kind = "repair" -> "path"

-----------------------------------------------------------------------------
(* Mutant: an evacuation that fails is taken for one that succeeded.       *)
EnterSilently(me, ok) ==
  [me EXCEPT !.at =
     IF me.at = "evacuate" THEN "record"
     ELSE IF ~ok THEN "failed"
     ELSE IF me.at = "disable" /\ me.ask.evacuate THEN "evacuate"
     ELSE IF me.at = "disable" THEN "record" ELSE "reported"]

(* Mutant: an evacuation that fails leaves the host disabled.              *)
EnterForGood(me, ok) ==
  [me EXCEPT !.at =
     IF ~ok THEN "failed"
     ELSE IF me.at = "disable" /\ me.ask.evacuate THEN "evacuate"
     ELSE IF me.at = "record" THEN "reported" ELSE "record"]

(* The operations, after what they await was answered (ok) or not.         *)
(* enterHostMaintenance() enables a host again that cannot be emptied.     *)
Enter(me, ok) ==
  [me EXCEPT !.at =
     IF me.at = "evacuate" THEN IF ok THEN "record" ELSE "rollback"
     ELSE IF me.at = "rollback" \/ ~ok THEN "failed"
     ELSE IF me.at = "record" THEN "reported"
     ELSE IF me.ask.evacuate THEN "evacuate" ELSE "record"]

(* exitHostMaintenance().                                                  *)
Exit(me, ok) ==
  [me EXCEPT !.at = IF ~ok THEN "failed" ELSE IF me.at = "enable" THEN "record" ELSE "reported"]

(* The loops over the paths in todo, and what follows them.  The error of  *)
(* a write that failed is thrown when every path was plugged again.        *)
Unplugging(me) == [me EXCEPT !.at = IF me.todo = {} THEN "config" ELSE "unplug"]
Replugging(me) ==
  [me EXCEPT !.at = IF me.todo # {} THEN "replug"
                    ELSE IF me.failed THEN "failed" ELSE "record"]

(* Mutant: the paths are plugged again only when the setting was written.  *)
MultipathPlain(me, p, ok) ==
  IF me.at = "replug" THEN Replugging([me EXCEPT !.todo = @ \ {p}])
  ELSE IF ~ok THEN [me EXCEPT !.at = "failed"]
  ELSE CASE me.at = "host"   -> [me EXCEPT !.at = "paths"]
         [] me.at = "unplug" -> Unplugging([me EXCEPT !.todo = @ \ {p}])
         [] me.at = "config" -> Replugging([me EXCEPT !.todo = me.held])
         [] me.at = "record" -> [me EXCEPT !.at = "reported"]

(* setHostMultipathing(): a write that fails goes on to plug the paths,    *)
(* and a path that cannot be plugged is passed over.                       *)
Multipath(me, p, ok) ==
  IF me.at = "config" THEN Replugging([me EXCEPT !.todo = me.held, !.failed = ~ok])
  ELSE IF me.at = "replug" THEN Replugging([me EXCEPT !.todo = @ \ {p}])
  ELSE IF ~ok THEN [me EXCEPT !.at = "failed"]
  ELSE CASE me.at = "host"   -> [me EXCEPT !.at = "paths"]
         [] me.at = "unplug" -> Unplugging([me EXCEPT !.todo = @ \ {p}])
         [] me.at = "record" -> [me EXCEPT !.at = "reported"]

(* repairSR().                                                             *)
Repair(me, p, ok) ==
  [me EXCEPT !.at =
     IF ~ok THEN "failed"
     ELSE CASE me.at = "path"   -> IF p \in host.attached THEN "record" ELSE "plug"
            [] me.at = "plug"   -> "record"
            [] me.at = "record" -> "reported"]

Goes(o, p, ok) ==
  CASE op[o].ask.kind = "enter"     -> Enter(op[o], ok)
    [] op[o].ask.kind = "exit"      -> Exit(op[o], ok)
    [] op[o].ask.kind = "multipath" -> Multipath(op[o], p, ok)
    [] op[o].ask.kind = "repair"    -> Repair(op[o], p, ok)

(* What the error of an operation leaves behind.                           *)
Blame(o, p) ==
  /\ stuck' = (stuck \/ op[o].at = "rollback" \/ <<op[o].at, op[o].ask.kind>> = <<"record", "enter">>)
  /\ dropped' = dropped \union
       CASE op[o].at = "unplug" -> op[o].held \ op[o].todo
         [] op[o].at = "replug" -> {p}
         [] OTHER               -> {}
  /\ UNCHANGED <<closed, mixed>>

(* What a call that takes effect changes of that, the setting being        *)
(* written while the paths in astray may be attached.                      *)
Mend(call, astray) ==
  /\ mixed' = CASE call.do = "config" -> astray
                [] call.do = "plug" /\ call.path \notin host.attached -> mixed \ {call.path}
                [] OTHER -> mixed
  /\ stuck' = (stuck /\ call.do # "enable")

-----------------------------------------------------------------------------
Idle == [ask |-> CHOOSE a \in Asked : TRUE, at |-> "idle", todo |-> {}, held |-> {},
         failed |-> FALSE, crossed |-> FALSE]

Init ==
  /\ host = [open |-> TRUE, guests |-> TRUE, attached |-> Path, multi |-> FALSE,
             under |-> [p \in Path |-> FALSE]]
  /\ op = [o \in Op |-> Idle]
  /\ late = {}
  /\ closed = {} /\ stuck = FALSE /\ dropped = {} /\ mixed = {}

(* A route receives a request that the gate of ensureMutationAllowed()     *)
(* lets through.                                                           *)
Begin(o, ask) ==
  LET paths  == ask.kind \in {"multipath", "repair"}
      others == IF paths THEN PathChanges ELSE {} IN
  /\ op[o].at = "idle"
  /\ op' = [q \in Op |->
       IF q = o THEN [Idle EXCEPT !.ask = ask, !.at = First(ask.kind),
                                  !.crossed = (others # {} \/ late # {})]
       ELSE [op[q] EXCEPT !.crossed = (@ \/ q \in others)]]
  /\ UNCHANGED <<host, late, closed, stuck, dropped, mixed>>

Answer(o) == \E p \in At(o) :
  LET call == Awaited(o, p) IN
  /\ op[o].at \in Waiting \ {"paths"}
  /\ host' = Effect(call)
  /\ op' = [op EXCEPT ![o] = Goes(o, p, TRUE)]
  /\ closed' = CASE call.do = "enable"  -> {}
                 [] call.do = "disable" -> closed \union {o}
                 [] OTHER               -> closed
  /\ dropped' = IF call.do = "plug" THEN dropped \ {p} ELSE dropped
  /\ Mend(call, IF op[o].crossed THEN Path ELSE Path \ op[o].held)
  /\ UNCHANGED late

(* Mutant: the setting is written while the paths are attached.            *)
ReadPathsPlugged(o, unread) ==
  /\ op[o].at = "paths"
  /\ op' = [op EXCEPT ![o] = [@ EXCEPT !.at = "config", !.held = host.attached \ unread]]
  /\ UNCHANGED <<host, late, closed, stuck, dropped, mixed>>

(* The records of the PBDs are read at once, and one that cannot be read   *)
(* is passed over.                                                         *)
ReadPaths(o, unread) ==
  LET seen == host.attached \ unread IN
  /\ op[o].at = "paths"
  /\ op' = [op EXCEPT ![o] = Unplugging([@ EXCEPT !.todo = seen, !.held = seen])]
  /\ UNCHANGED <<host, late, closed, stuck, dropped, mixed>>

Refuse(o) == \E p \in At(o) :
  /\ op[o].at \in Waiting \ {"paths"}
  /\ op' = [op EXCEPT ![o] = Goes(o, p, FALSE)]
  /\ Blame(o, p)
  /\ UNCHANGED <<host, late>>

(* The call is not answered in time.                                       *)
TimeOut(o) == \E p \in At(o) :
  /\ op[o].at \in Waiting \ {"paths"}
  /\ Awaited(o, p).do # "read"
  /\ late' = late \union {Awaited(o, p)}
  /\ op' = [op EXCEPT ![o] = Goes(o, p, FALSE)]
  /\ Blame(o, p)
  /\ UNCHANGED host

(* XAPI carries out a call nobody waits for any more, or gives it up.      *)
Arrive(call) ==
  /\ call \in late /\ late' = late \ {call}
  /\ host' = Effect(call)
  /\ closed' = IF call.do = "enable" THEN {} ELSE closed
  /\ dropped' = CASE call.do = "plug"   -> dropped \ {call.path}
                  [] call.do = "unplug" -> dropped \union {call.path}
                  [] OTHER              -> dropped
  /\ IF call.do = "disable" THEN stuck' = TRUE /\ mixed' = mixed ELSE Mend(call, Path)
  /\ UNCHANGED op

GiveUp(call) ==
  /\ call \in late /\ late' = late \ {call}
  /\ UNCHANGED <<host, op, closed, stuck, dropped, mixed>>

(* XAPI starts a machine on the host, which must be enabled.               *)
Place ==
  /\ host.open /\ ~host.guests
  /\ host' = [host EXCEPT !.guests = TRUE]
  /\ UNCHANGED <<op, late, closed, stuck, dropped, mixed>>

(* The process dies and starts again; nothing resumes an operation.        *)
Crash ==
  /\ InFlight # {}
  /\ op' = [o \in Op |-> IF o \in InFlight THEN [op[o] EXCEPT !.at = "failed"] ELSE op[o]]
  /\ stuck' = (stuck \/ \E o \in InFlight : op[o].ask.kind = "enter")
  /\ dropped' = dropped \union UNION {op[o].held : o \in InFlight}
  /\ UNCHANGED <<host, late, closed, mixed>>

Next ==
  \/ \E o \in Op, ask \in Asked : Begin(o, ask)
  \/ \E o \in Op : Answer(o) \/ Refuse(o) \/ TimeOut(o)
  \/ \E o \in Op, unread \in SUBSET Path : ReadPaths(o, unread)
  \/ \E call \in late : Arrive(call) \/ GiveUp(call)
  \/ Place
  \/ Crash

Spec == Init /\ [][Next]_vars

-----------------------------------------------------------------------------
(* Types of the variables.                                                 *)
TypeOK ==
  /\ host \in HostType
  /\ op \in [Op -> OpType]
  /\ late \subseteq Call
  /\ closed \subseteq Op /\ stuck \in BOOLEAN
  /\ dropped \subseteq Path /\ mixed \subseteq Path

(* A host that an operator was told is in maintenance takes no machine,    *)
(* and has none when it was to be evacuated, until an exit or the rollback *)
(* of another enter enables it.                                            *)
MaintenanceHeld ==
  \A o \in closed :
    op[o].ask.kind = "enter" /\ op[o].at = "reported" =>
      ~host.open /\ (op[o].ask.evacuate => ~host.guests)

AtRest == InFlight = {} /\ late = {}

(* A host is not left out of service by an enter that failed, unless its   *)
(* rollback or its last read failed, its disable came late or it crashed.  *)
HostBack ==
  AtRest /\ ~host.open => stuck \/ \E o \in closed : op[o].at = "reported"

(* Every path is attached again once the operations are over, except one   *)
(* that could not be plugged, or was unplugged late, or before an unplug   *)
(* that failed or a crash.                                                 *)
PathsBack == AtRest => Path \ host.attached \subseteq dropped

(* An attached path works under the setting the host has, unless another   *)
(* change of the paths crossed the one that wrote it, it was written late, *)
(* or the path's record could not be read.                                 *)
PathsMatch == \A p \in host.attached : host.under[p] # host.multi => p \in mixed
=============================================================================
