----------------------- MODULE ManagedTargetsProofs -----------------------
(***************************************************************************)
(* Proofs about ManagedTargets, for any number of requests in progress, of *)
(* XenAPI objects and of retries.                                          *)
(*                                                                         *)
(* TargetInv is inductive.  That a connection served is open needs what    *)
(* the logins under way may count on (LoginOwn): nobody else has their     *)
(* object.  That nothing leaks needs to know where every open session is   *)
(* (SessionsHeld), and that a login which would replace a live connection  *)
(* has been crossed (Uncrossed).                                           *)
(***************************************************************************)
EXTENDS ManagedTargets, TLAPS

TasksOK ==
  \A k \in Task :
    /\ task[k].pc = "idle" => task[k].api = None
    /\ task[k].pc \in {"probing", "login"} => task[k].api \in Conn
    /\ task[k].pc = "leaving" => task[k].then # "none"

DownClear ==
  /\ proc = "down" => live = None /\ \A k \in Task : task[k].pc = "idle"
  /\ proc # "stopping" => closing = None

(* The object of a login is nobody else's.                                 *)
LoginOwn ==
  \A k \in Task : task[k].pc = "login" =>
    /\ task[k].api # closing
    /\ \A j \in Task \ {k} : task[j].api # task[k].api

(* Nothing is live while a task is connecting, unless checks crossed.      *)
Uncrossed == live # None => crossed \/ \A k \in Task : ~InConnect(k)

(* Where the sessions are that the server has not ended.                   *)
SessionsHeld ==
  \A c \in Conn : conn[c] # "closed" =>
    \/ crossed \/ c = live \/ c = closing
    \/ \E k \in Task : task[k].pc = "leaving" /\ task[k].api = c
    \/ proc = "down" /\ late

StopLate == proc = "stopping" /\ live # None => late

(* The timer meets a row that is gone only if it went during its check.    *)
TimerPulled ==
  row.there # "yes" /\ task["timer"].pc \in {"probing", "leaving"} => pulled

(* The row and the tasks count no more failures than there were.           *)
Counted ==
  /\ row.there # "yes" => row.retry = 0
  /\ row.state = "Offline" /\ row.retry > 0 => row.retry > Threshold
  /\ ~crossed =>
       /\ row.retry <= fails
       /\ \A k \in Task : InConnect(k) => task[k].seen.retry <= fails

TargetInv ==
  /\ TypeOK /\ TasksOK /\ DownClear /\ ServedOpen /\ LoginOwn
  /\ Uncrossed /\ SessionsHeld /\ StopLate
  /\ DisabledLeft /\ HealthyIsLive /\ Counted
  /\ StopsAsked /\ TimerPulled

-----------------------------------------------------------------------------
(* What the parts of an operation have in common: the task begins or goes  *)
(* on, and a session it was logging out or in is closed.                   *)
Starts(k) ==
  /\ proc # "down"
  /\ conn' = [c \in Conn |-> IF task[k].pc \in {"leaving", "login"} /\ c = task[k].api
                            THEN "closed" ELSE conn[c]]

(* The row as a request has written it, or as it was.                      *)
RowLike(r) ==
  /\ r \in Row /\ r.retry = row.retry /\ r.state \in {row.state, "Maintenance"}
  /\ r.there = "yes" \/ r = row

LEMMA MoreOf ==
  ASSUME NEW n \in Count
  PROVE  /\ More(n) \in Count /\ More(n) > 0
         /\ \A m \in Count : m <= n => More(m) <= More(n)
BY ThresholdAssumption DEF More, Count

LEMMA Boot0 == "boot" \in Task /\ "timer" \in Task
BY DEF Task

LEMMA Types ==
  Idle \in Doing /\ NotSeen \in Seen /\ Idle.pc = "idle" /\ Idle.api = None
  /\ Absent("gone") \in Row /\ Absent("no") \in Row
BY ThresholdAssumption DEF Idle, Doing, NotSeen, Seen, Absent, Row, State, Count

LEMMA SeenOfRow ==
  ASSUME NEW r \in Row
  PROVE  SeenOf(r) \in Seen /\ SeenOf(r).retry = r.retry
BY DEF SeenOf, Row, Seen

LEMMA NewIsSpare ==
  ASSUME TypeOK, Spare # {}
  PROVE  /\ New \in Conn /\ New # live /\ New # closing
         /\ \A k \in Task : task[k].api # New
<1>1. New \in Spare
  BY DEF New
<1> QED BY <1>1 DEF Spare

(* The sessions when a task goes on.                                       *)
LEMMA StartsSessions ==
  ASSUME TargetInv, NEW k \in Task, Starts(k)
  PROVE  /\ conn' \in [Conn -> {"closed", "open"}]
         /\ live # None => live \in Conn /\ conn'[live] # "closed"
         /\ \A c \in Conn : conn'[c] # "closed" =>
              \/ crossed \/ c = live \/ c = closing
              \/ \E j \in Task \ {k} : task[j].pc = "leaving" /\ task[j].api = c
<1>1. TypeOK /\ ServedOpen /\ SessionsHeld /\ proc # "down"
  BY DEF TargetInv, Starts
<1>2. \A c \in Conn : conn'[c] = IF task[k].pc \in {"leaving", "login"} /\ c = task[k].api
                                THEN "closed" ELSE conn[c]
  BY DEF Starts
<1>3. conn' \in [Conn -> {"closed", "open"}]
  BY <1>1 DEF Starts, TypeOK
<1>4. live # None => live \in Conn /\ conn'[live] # "closed"
  BY <1>1, <1>2 DEF TypeOK, ServedOpen
<1>5. ASSUME NEW c \in Conn, conn'[c] # "closed"
      PROVE  \/ crossed \/ c = live \/ c = closing
             \/ \E j \in Task \ {k} : task[j].pc = "leaving" /\ task[j].api = c
  <2>1. conn[c] # "closed" /\ ~(task[k].pc = "leaving" /\ task[k].api = c)
    BY <1>2, <1>5
  <2> QED BY <1>1, <2>1 DEF SessionsHeld
<1> QED BY <1>3, <1>4, <1>5

(* A task that reports keeps the invariant.                                *)
LEMMA ReportKeeps ==
  ASSUME TargetInv, NEW k \in Task, Starts(k), NEW r, RowLike(r),
         NEW state \in State, NEW retry \in Count, NEW good \in BOOLEAN,
         Report(k, r, state, retry, good),
         UNCHANGED <<proc, live, closing, late, up, pulled>>,
         stained' \in BOOLEAN, state = "Healthy" /\ live = None => stained',
         good => retry = 0,
         ~good => \E s \in Count : retry = More(s) /\ (~crossed => s <= fails),
         state = "Offline" => retry > Threshold,
         r.there = "yes" /\ ~r.enabled /\ live # None => late
  PROVE  TargetInv'
<1>1. TypeOK /\ TasksOK /\ DownClear /\ ServedOpen /\ LoginOwn /\ Uncrossed /\ StopLate
      /\ Counted /\ StopsAsked /\ TimerPulled /\ proc # "down"
  BY DEF TargetInv, Starts
<1>2. /\ row' = IF r.there = "yes" THEN [r EXCEPT !.state = state, !.retry = retry] ELSE r
      /\ task' = [task EXCEPT ![k] = Idle]
      /\ crossed' = (crossed \/ \E j \in Task \ {k} : InConnect(j))
      /\ fails' = IF good \/ crossed' THEN 0 ELSE More(fails)
      /\ proc' = proc /\ live' = live /\ closing' = closing /\ late' = late
      /\ up' = up /\ pulled' = pulled
  BY DEF Report
<1>3. task'[k] = Idle /\ (\A j \in Task \ {k} : task'[j] = task[j]) /\ task' \in [Task -> Doing]
      /\ task'[k].pc = "idle" /\ task'[k].api = None
  BY <1>1, <1>2, Types DEF TypeOK
<1>4. /\ row' \in Row /\ row'.there = r.there
      /\ r.there = "yes" => row'.state = state /\ row'.retry = retry /\ row'.enabled = r.enabled
      /\ r.there # "yes" => row' = row /\ r = row
  BY <1>2 DEF RowLike, Row
<1>5. /\ conn' \in [Conn -> {"closed", "open"}]
      /\ live # None => live \in Conn /\ conn'[live] # "closed"
      /\ \A c \in Conn : conn'[c] # "closed" =>
           \/ crossed \/ c = live \/ c = closing
           \/ \E j \in Task \ {k} : task[j].pc = "leaving" /\ task[j].api = c
  BY StartsSessions
<1>6. crossed' \in BOOLEAN /\ fails' \in Count
  <2>1. 0 \in Count /\ More(fails) \in Count
    BY <1>1, MoreOf, ThresholdAssumption DEF TypeOK, Count
  <2> QED BY <1>1, <1>2, <2>1 DEF TypeOK
<1>7. TypeOK'
  BY <1>1, <1>2, <1>3, <1>4, <1>5, <1>6 DEF TypeOK
<1>8. TasksOK' /\ DownClear'
  BY <1>1, <1>2, <1>3 DEF TasksOK, DownClear
<1>9. ServedOpen' /\ LoginOwn'
  <2>1. ServedOpen'
    BY <1>1, <1>2, <1>3, <1>5 DEF ServedOpen
  <2>2. LoginOwn'
    <3> SUFFICES ASSUME NEW j \in Task, task'[j].pc = "login"
                 PROVE  task'[j].api # closing /\ \A i \in Task \ {j} : task'[i].api # task'[j].api
      BY <1>2 DEF LoginOwn
    <3>1. j # k /\ task[j].pc = "login" /\ task'[j] = task[j]
      BY <1>3
    <3>2. task[j].api \in Conn /\ task[j].api # None
      BY <1>1, <3>1, ConnAssumption DEF TasksOK
    <3> QED BY <1>1, <1>3, <3>1, <3>2 DEF LoginOwn
  <2> QED BY <2>1, <2>2
<1>10. \A j \in Task : InConnect(j)' => InConnect(j) /\ j # k
  BY <1>3 DEF InConnect
<1>11. ~crossed' => ~crossed /\ \A j \in Task : ~InConnect(j)'
  BY <1>2, <1>10
<1>12. Uncrossed'
  BY <1>11 DEF Uncrossed
<1>13. SessionsHeld' /\ StopLate'
  <2>1. StopLate'
    BY <1>1, <1>2 DEF StopLate
  <2>2. SessionsHeld'
    BY <1>2, <1>3, <1>5 DEF SessionsHeld
  <2> QED BY <2>1, <2>2
<1>14. DisabledLeft'
  BY <1>2, <1>4 DEF DisabledLeft
<1>15. HealthyIsLive'
  BY <1>2, <1>4 DEF HealthyIsLive
<1>16. Counted'
  <2>1. row'.there # "yes" => row'.retry = 0
    BY <1>1, <1>4 DEF Counted
  <2>2. row'.state = "Offline" /\ row'.retry > 0 => row'.retry > Threshold
    BY <1>1, <1>4 DEF Counted
  <2>3. ASSUME ~crossed'
        PROVE  row'.retry <= fails' /\ \A j \in Task : InConnect(j)' => task'[j].seen.retry <= fails'
    <3>1. row'.retry <= fails'
      <4>1. fails' \in Nat /\ fails' >= 0
        BY <1>6, ThresholdAssumption DEF Count
      <4>2. CASE r.there # "yes"
        BY <1>1, <1>4, <4>1, <4>2 DEF Counted
      <4>3. CASE r.there = "yes" /\ good
        BY <1>4, <4>1, <4>3
      <4>4. CASE r.there = "yes" /\ ~good
        <5>1. PICK s \in Count : retry = More(s) /\ s <= fails
          BY <1>11, <2>3, <4>4
        <5>2. fails' = More(fails) /\ fails \in Count
          BY <1>1, <1>2, <2>3, <4>4 DEF TypeOK
        <5> QED BY <1>4, <4>4, <5>1, <5>2, MoreOf
      <4> QED BY <4>2, <4>3, <4>4
    <3> QED BY <3>1, <2>3, <1>11
  <2> QED BY <2>1, <2>2, <2>3 DEF Counted
<1>17. StopsAsked' /\ TimerPulled'
  <2>1. StopsAsked'
    BY <1>1, <1>2 DEF StopsAsked
  <2>2. TimerPulled'
    BY <1>1, <1>2, <1>3, <1>4, Boot0 DEF TimerPulled
  <2> QED BY <2>1, <2>2
<1> QED BY <1>7, <1>8, <1>9, <1>12, <1>13, <1>14, <1>15, <1>16, <1>17 DEF TargetInv

(* A task that disconnects keeps the invariant.                            *)
LEMMA LeaveKeeps ==
  ASSUME TargetInv, NEW k \in Task, Starts(k), NEW r, RowLike(r),
         NEW then \in {"maintain", "reconnect", "admit"}, Leave(k, r, then),
         UNCHANGED <<proc, closing, up, pulled>>,
         r.there = "yes" \/ task[k].pc = "probing"
  PROVE  TargetInv'
<1> DEFINE seen == IF then = "admit" THEN SeenOf(r) ELSE NotSeen
           now  == [pc |-> "leaving", api |-> live, then |-> then, seen |-> seen]
<1>1. TypeOK /\ TasksOK /\ DownClear /\ ServedOpen /\ LoginOwn /\ Uncrossed
      /\ Counted /\ StopsAsked /\ TimerPulled /\ proc # "down" /\ r \in Row
  BY DEF TargetInv, Starts, RowLike
<1>2. /\ task' = [task EXCEPT ![k] = now]
      /\ live' = None /\ row' = r /\ late' = FALSE /\ crossed' = crossed
      /\ stained' = stained /\ fails' = fails
      /\ proc' = proc /\ closing' = closing /\ up' = up /\ pulled' = pulled
  BY DEF Leave
<1>3. seen \in Seen /\ (then = "admit" => seen.retry = row.retry) /\ (then # "admit" => seen.retry = 0)
  BY <1>1, SeenOfRow, Types DEF RowLike, NotSeen
<1> HIDE DEF seen
<1>4. now \in Doing /\ now.pc = "leaving" /\ now.api = live /\ now.then = then /\ now.seen = seen
  BY <1>1, <1>3 DEF Doing, TypeOK
<1> HIDE DEF now
<1>5. task'[k] = now /\ (\A j \in Task \ {k} : task'[j] = task[j]) /\ task' \in [Task -> Doing]
  BY <1>1, <1>2, <1>4 DEF TypeOK
<1>6. /\ conn' \in [Conn -> {"closed", "open"}]
      /\ \A c \in Conn : conn'[c] # "closed" =>
           \/ crossed \/ c = live \/ c = closing
           \/ \E j \in Task \ {k} : task[j].pc = "leaving" /\ task[j].api = c
  BY StartsSessions
<1>7. TypeOK'
  BY <1>1, <1>2, <1>5, <1>6 DEF TypeOK
<1>8. TasksOK' /\ DownClear'
  <2>1. TasksOK'
    BY <1>1, <1>4, <1>5 DEF TasksOK
  <2>2. DownClear'
    BY <1>1, <1>2 DEF DownClear
  <2> QED BY <2>1, <2>2
<1>9. ServedOpen' /\ Uncrossed' /\ StopLate' /\ DisabledLeft'
  BY <1>2 DEF ServedOpen, Uncrossed, StopLate, DisabledLeft
<1>10. LoginOwn'
  <2> SUFFICES ASSUME NEW j \in Task, task'[j].pc = "login"
               PROVE  task'[j].api # closing /\ \A i \in Task \ {j} : task'[i].api # task'[j].api
    BY <1>2 DEF LoginOwn
  <2>1. j # k /\ task[j].pc = "login" /\ task'[j] = task[j]
    BY <1>4, <1>5
  <2>2. task[j].api # live
    BY <1>1, <2>1, ConnAssumption DEF TasksOK, ServedOpen
  <2> QED BY <1>1, <1>4, <1>5, <2>1, <2>2 DEF LoginOwn
<1>11. SessionsHeld'
  BY <1>2, <1>4, <1>5, <1>6 DEF SessionsHeld
<1>12. HealthyIsLive'
  BY <1>4, <1>5 DEF HealthyIsLive
<1>13. Counted'
  <2>1. row'.there # "yes" => row'.retry = 0
    BY <1>1, <1>2 DEF Counted, RowLike
  <2>2. row'.state = "Offline" /\ row'.retry > 0 => row'.retry > Threshold
    BY <1>1, <1>2 DEF Counted, RowLike
  <2>3. ASSUME ~crossed
        PROVE  row'.retry <= fails /\ \A j \in Task : InConnect(j)' => task'[j].seen.retry <= fails
    <3>1. row'.retry <= fails /\ row.retry <= fails /\ 0 <= fails
      BY <1>1, <1>2, <2>3, ThresholdAssumption DEF Counted, RowLike, TypeOK, Count
    <3>2. now.seen.retry <= fails
      BY <1>3, <1>4, <3>1
    <3>3. \A j \in Task \ {k} : InConnect(j)' => InConnect(j)
      BY <1>5 DEF InConnect
    <3> QED BY <1>1, <1>5, <2>3, <3>1, <3>2, <3>3 DEF Counted
  <2> QED BY <1>2, <2>1, <2>2, <2>3 DEF Counted
<1>14. StopsAsked' /\ TimerPulled'
  <2>1. StopsAsked'
    BY <1>1, <1>2 DEF StopsAsked
  <2>2. TimerPulled'
    BY <1>1, <1>2, <1>5, Boot0 DEF TimerPulled, RowLike
  <2> QED BY <2>1, <2>2
<1> QED BY <1>7, <1>8, <1>9, <1>10, <1>11, <1>12, <1>13, <1>14 DEF TargetInv

(* A task that is let through to the login keeps the invariant.            *)
LEMMA AdmitKeeps ==
  ASSUME TargetInv, NEW k \in Task, Starts(k), NEW r, RowLike(r),
         NEW seen \in Seen, ~crossed => seen.retry <= fails, Admit(k, r, seen),
         UNCHANGED <<proc, live, closing, up, pulled>>,
         live # None => crossed,
         r.there = "yes" /\ ~r.enabled /\ live # None => late
  PROVE  TargetInv'
<1>1. TypeOK /\ TasksOK /\ DownClear /\ ServedOpen /\ LoginOwn /\ Uncrossed /\ StopLate
      /\ Counted /\ StopsAsked /\ TimerPulled /\ proc # "down" /\ r \in Row
  BY DEF TargetInv, Starts, RowLike
<1>2. ASSUME NEW state \in Refused, Report(k, r, state, More(seen.retry), FALSE),
             stained' = FALSE, late' = late
      PROVE  TargetInv'
  <2>1. seen.retry \in Count /\ More(seen.retry) \in Count
    BY MoreOf DEF Seen
  <2>2. state \in State /\ state \notin {"Healthy", "Offline"}
    BY DEF State, Refused
  <2> QED BY <1>2, <2>1, <2>2, ReportKeeps
<1>3. ASSUME Spare # {}, row' = r, UNCHANGED history,
             task' = [task EXCEPT ![k] = [pc |-> "login", api |-> New, then |-> "none",
                                          seen |-> [NotSeen EXCEPT !.retry = seen.retry]]]
      PROVE  TargetInv'
  <2> DEFINE kept == [NotSeen EXCEPT !.retry = seen.retry]
             now  == [pc |-> "login", api |-> New, then |-> "none", seen |-> kept]
  <2>0. kept \in Seen /\ kept.retry = seen.retry
    BY DEF Seen, NotSeen
  <2> HIDE DEF kept
  <2>1. /\ Spare # {} /\ task' = [task EXCEPT ![k] = now] /\ row' = r
        /\ crossed' = crossed /\ late' = late /\ stained' = stained /\ fails' = fails
        /\ proc' = proc /\ live' = live /\ closing' = closing /\ up' = up /\ pulled' = pulled
    BY <1>3 DEF history, kept
  <2>2. /\ New \in Conn /\ New # live /\ New # closing
        /\ \A j \in Task : task[j].api # New
    BY <1>1, <2>1, NewIsSpare
  <2>3. now \in Doing /\ now.pc = "login" /\ now.api = New /\ now.seen.retry = seen.retry
    BY <2>0, <2>2 DEF Doing
  <2> HIDE DEF now
  <2>4. task'[k] = now /\ (\A j \in Task \ {k} : task'[j] = task[j]) /\ task' \in [Task -> Doing]
    BY <1>1, <2>1, <2>3 DEF TypeOK
  <2>5. /\ conn' \in [Conn -> {"closed", "open"}]
        /\ live # None => live \in Conn /\ conn'[live] # "closed"
        /\ \A c \in Conn : conn'[c] # "closed" =>
             \/ crossed \/ c = live \/ c = closing
             \/ \E j \in Task \ {k} : task[j].pc = "leaving" /\ task[j].api = c
    BY StartsSessions
  <2>6. TypeOK'
    BY <1>1, <2>1, <2>4, <2>5 DEF TypeOK
  <2>7. TasksOK' /\ DownClear'
    <3>1. TasksOK'
      BY <1>1, <2>2, <2>3, <2>4 DEF TasksOK
    <3>2. DownClear'
      BY <1>1, <2>1 DEF DownClear
    <3> QED BY <3>1, <3>2
  <2>8. ServedOpen'
    BY <1>1, <2>1, <2>2, <2>3, <2>4, <2>5 DEF ServedOpen
  <2>9. LoginOwn'
    <3> SUFFICES ASSUME NEW j \in Task, task'[j].pc = "login"
                 PROVE  task'[j].api # closing /\ \A i \in Task \ {j} : task'[i].api # task'[j].api
      BY <2>1 DEF LoginOwn
    <3>1. CASE j = k
      BY <2>2, <2>3, <2>4, <3>1
    <3>2. CASE j # k
      BY <1>1, <2>2, <2>3, <2>4, <3>2 DEF LoginOwn
    <3> QED BY <3>1, <3>2
  <2>10. Uncrossed' /\ StopLate' /\ DisabledLeft'
    BY <1>1, <2>1 DEF Uncrossed, StopLate, DisabledLeft
  <2>11. SessionsHeld'
    BY <2>1, <2>4, <2>5 DEF SessionsHeld
  <2>12. HealthyIsLive'
    BY <2>3, <2>4 DEF HealthyIsLive
  <2>13. Counted'
    <3>1. row'.there # "yes" => row'.retry = 0
      BY <1>1, <2>1 DEF Counted, RowLike
    <3>2. row'.state = "Offline" /\ row'.retry > 0 => row'.retry > Threshold
      BY <1>1, <2>1 DEF Counted, RowLike
    <3>3. ASSUME ~crossed
          PROVE  row'.retry <= fails /\ \A j \in Task : InConnect(j)' => task'[j].seen.retry <= fails
      <4>1. row'.retry <= fails
        BY <1>1, <2>1, <3>3 DEF Counted, RowLike
      <4>2. \A j \in Task \ {k} : InConnect(j)' => InConnect(j)
        BY <2>4 DEF InConnect
      <4> QED BY <1>1, <2>3, <2>4, <3>3, <4>1, <4>2 DEF Counted
    <3> QED BY <2>1, <3>1, <3>2, <3>3 DEF Counted
  <2>14. StopsAsked' /\ TimerPulled'
    <3>1. StopsAsked'
      BY <1>1, <2>1 DEF StopsAsked
    <3>2. TimerPulled'
      BY <1>1, <2>1, <2>3, <2>4, Boot0 DEF TimerPulled, RowLike
    <3> QED BY <3>1, <3>2
  <2> QED BY <2>6, <2>7, <2>8, <2>9, <2>10, <2>11, <2>12, <2>13, <2>14 DEF TargetInv
<1> QED BY <1>2, <1>3 DEF Admit

(* A stop of the process, the task of k ending if it was not idle, keeps   *)
(* the invariant.                                                          *)
LEMMA ShutdownKeeps ==
  ASSUME TargetInv, NEW k \in Task, Starts(k), task[k].pc # "login", Shutdown, proc = "up",
         task' \in {task, [task EXCEPT ![k] = Idle]},
         task' = task => conn' = conn,
         row' = row, UNCHANGED history, up' = up, pulled' = TRUE
  PROVE  TargetInv'
<1>1. TypeOK /\ TasksOK /\ DownClear /\ ServedOpen /\ LoginOwn /\ Uncrossed /\ StopLate
      /\ SessionsHeld /\ Counted /\ StopsAsked /\ TimerPulled /\ closing = None
  BY DEF TargetInv, DownClear
<1>2. /\ proc' = "stopping" /\ closing' = live /\ live' = None
      /\ row' = row /\ up' = up /\ pulled' = TRUE
      /\ crossed' = crossed /\ late' = late /\ stained' = stained /\ fails' = fails
  BY DEF Shutdown, history
<1>3. /\ task' \in [Task -> Doing] /\ \A j \in Task \ {k} : task'[j] = task[j]
      /\ task'[k] = task[k] \/ (task'[k].pc = "idle" /\ task'[k].api = None)
  BY <1>1, Types DEF TypeOK
<1>4. /\ conn' \in [Conn -> {"closed", "open"}]
      /\ \A c \in Conn : conn'[c] # "closed" =>
           \/ crossed \/ c = live
           \/ \E j \in Task : task'[j].pc = "leaving" /\ task'[j].api = c
  <2>1. CASE task' = task
    <3>1. conn' = conn
      BY <2>1
    <3>2. ASSUME NEW c \in Conn, conn[c] # "closed"
          PROVE  \/ crossed \/ c = live
                 \/ \E j \in Task : task[j].pc = "leaving" /\ task[j].api = c
      BY <1>1, <3>2, ConnAssumption DEF SessionsHeld
    <3> QED BY <1>1, <2>1, <3>1, <3>2 DEF TypeOK
  <2>2. CASE task' # task
    <3>1. /\ conn' \in [Conn -> {"closed", "open"}]
          /\ \A c \in Conn : conn'[c] # "closed" =>
               \/ crossed \/ c = live \/ c = closing
               \/ \E j \in Task \ {k} : task[j].pc = "leaving" /\ task[j].api = c
      BY StartsSessions
    <3> QED BY <1>1, <1>3, <3>1, ConnAssumption
  <2> QED BY <2>1, <2>2
<1>5. TypeOK'
  BY <1>1, <1>2, <1>3, <1>4 DEF TypeOK
<1>6. TasksOK' /\ DownClear'
  BY <1>1, <1>2, <1>3 DEF TasksOK, DownClear
<1>7. ServedOpen' /\ Uncrossed' /\ StopLate' /\ DisabledLeft' /\ HealthyIsLive' /\ StopsAsked' /\ TimerPulled'
  BY <1>2 DEF ServedOpen, Uncrossed, StopLate, DisabledLeft, HealthyIsLive, StopsAsked, TimerPulled
<1>8. LoginOwn'
  <2> SUFFICES ASSUME NEW j \in Task, task'[j].pc = "login"
               PROVE  task'[j].api # live /\ \A i \in Task \ {j} : task'[i].api # task'[j].api
    BY <1>2 DEF LoginOwn
  <2>1. task[j].pc = "login" /\ task'[j] = task[j]
    BY <1>3
  <2>2. task[j].api \in Conn /\ task[j].api # None /\ task[j].api # live
    BY <1>1, <2>1, ConnAssumption DEF TasksOK, ServedOpen
  <2> QED BY <1>1, <1>3, <2>1, <2>2 DEF LoginOwn
<1>9. SessionsHeld'
  BY <1>2, <1>4 DEF SessionsHeld
<1>10. Counted'
  <2>1. \A j \in Task : InConnect(j)' => InConnect(j) /\ task'[j] = task[j]
    BY <1>3 DEF InConnect
  <2> QED BY <1>1, <1>2, <2>1 DEF Counted
<1> QED BY <1>5, <1>6, <1>7, <1>8, <1>9, <1>10 DEF TargetInv

(* A task that is rejected keeps the invariant.                            *)
LEMMA RejectKeeps ==
  ASSUME TargetInv, NEW k \in Task, Starts(k), NEW r, RowLike(r), r.there # "yes",
         task[k].pc \in {"idle", "leaving"}, Reject(k, r), UNCHANGED <<up, pulled>>,
         k = "timer" => task[k].pc = "leaving"
  PROVE  TargetInv'
<1>1. TypeOK /\ TasksOK /\ DownClear /\ ServedOpen /\ LoginOwn /\ Uncrossed /\ StopLate
      /\ SessionsHeld /\ DisabledLeft /\ HealthyIsLive
      /\ Counted /\ StopsAsked /\ TimerPulled /\ proc # "down" /\ r = row
  BY DEF TargetInv, Starts, RowLike
<1>2. task' = [task EXCEPT ![k] = Idle] /\ row' = row /\ up' = up /\ pulled' = pulled
      /\ UNCHANGED history
      /\ crossed' = crossed /\ late' = late /\ stained' = stained /\ fails' = fails
  BY <1>1 DEF Reject, history
<1>3. CASE k = "timer" /\ proc = "up"
  <2>1. Shutdown /\ pulled = TRUE
    BY <1>1, <1>3 DEF Reject, TimerPulled, TypeOK
  <2>2. CASE task' = task
    <3>1. task[k].pc = "idle"
      BY <1>1, <1>2, <2>2, Types DEF TypeOK
    <3> QED BY <1>3, <3>1
  <2>3. CASE task' # task
    BY <1>1, <1>2, <1>3, <2>1, <2>3, ShutdownKeeps
  <2> QED BY <2>2, <2>3
<1>4. CASE ~(k = "timer" /\ proc = "up")
  <2>1. proc' = proc /\ closing' = closing /\ live' = live
    BY <1>4 DEF Reject
  <2>2. task'[k] = Idle /\ (\A j \in Task \ {k} : task'[j] = task[j]) /\ task' \in [Task -> Doing]
        /\ task'[k].pc = "idle" /\ task'[k].api = None
    BY <1>1, <1>2, Types DEF TypeOK
  <2>3. /\ conn' \in [Conn -> {"closed", "open"}]
        /\ live # None => live \in Conn /\ conn'[live] # "closed"
        /\ \A c \in Conn : conn'[c] # "closed" =>
             \/ crossed \/ c = live \/ c = closing
             \/ \E j \in Task \ {k} : task[j].pc = "leaving" /\ task[j].api = c
    BY StartsSessions
  <2>4. TypeOK'
    BY <1>1, <1>2, <2>1, <2>2, <2>3 DEF TypeOK
  <2>5. TasksOK' /\ DownClear'
    BY <1>1, <2>1, <2>2 DEF TasksOK, DownClear
  <2>6. ServedOpen'
    BY <1>1, <2>1, <2>2, <2>3 DEF ServedOpen
  <2>7. LoginOwn'
    <3> SUFFICES ASSUME NEW j \in Task, task'[j].pc = "login"
                 PROVE  task'[j].api # closing /\ \A i \in Task \ {j} : task'[i].api # task'[j].api
      BY <2>1 DEF LoginOwn
    <3>1. j # k /\ task[j].pc = "login" /\ task'[j] = task[j]
      BY <2>2
    <3>2. task[j].api \in Conn /\ task[j].api # None
      BY <1>1, <3>1, ConnAssumption DEF TasksOK
    <3> QED BY <1>1, <2>2, <3>1, <3>2 DEF LoginOwn
  <2>8. \A j \in Task : InConnect(j)' => InConnect(j) /\ task'[j] = task[j]
    BY <2>2 DEF InConnect
  <2>9. Uncrossed' /\ StopLate' /\ DisabledLeft' /\ StopsAsked'
    BY <1>1, <1>2, <2>1, <2>8 DEF Uncrossed, StopLate, DisabledLeft, StopsAsked
  <2>10. SessionsHeld'
    BY <1>2, <2>1, <2>2, <2>3 DEF SessionsHeld
  <2>11. HealthyIsLive'
    BY <1>1, <1>2 DEF HealthyIsLive
  <2>12. Counted'
    BY <1>1, <1>2, <2>8 DEF Counted
  <2>13. TimerPulled'
    BY <1>1, <1>2, <2>2, Boot0 DEF TimerPulled
  <2> QED BY <2>4, <2>5, <2>6, <2>7, <2>9, <2>10, <2>11, <2>12, <2>13 DEF TargetInv
<1> QED BY <1>3, <1>4

-----------------------------------------------------------------------------
(* connect() keeps the invariant, up to what it first awaits.              *)
LEMMA ConnectKeeps ==
  ASSUME TargetInv, NEW k \in Task, Starts(k), NEW r, RowLike(r), NEW force \in BOOLEAN,
         Connect(k, r, force), UNCHANGED <<up, pulled>>,
         task[k].pc \in {"idle", "leaving"},
         r.there # "yes" => task[k].pc = "leaving"
  PROVE  TargetInv'
<1>1. TypeOK /\ Counted /\ r \in Row
  BY DEF TargetInv, RowLike
<1>2. CASE r.there # "yes"
  <2>1. Reject(k, r)
    BY <1>2 DEF Connect
  <2> QED BY <1>2, <2>1, RejectKeeps
<1>3. CASE r.there = "yes" /\ ~r.enabled
  <2>1. Leave(k, r, "maintain") /\ UNCHANGED <<proc, closing>>
    BY <1>3 DEF Connect
  <2> QED BY <1>3, <2>1, LeaveKeeps
<1>4. CASE r.there = "yes" /\ r.enabled /\ live # None /\ ~force
  <2>1. /\ Report(k, r, "Healthy", 0, TRUE) /\ stained' = FALSE
        /\ UNCHANGED <<live, late, proc, closing>>
    BY <1>4 DEF Connect
  <2>2. "Healthy" \in State /\ 0 \in Count
    BY ThresholdAssumption DEF State, Count
  <2> QED BY <1>4, <2>1, <2>2, ReportKeeps
<1>5. CASE r.there = "yes" /\ r.enabled /\ live # None /\ force
  <2>1. Leave(k, r, "admit") /\ UNCHANGED <<proc, closing>>
    BY <1>5 DEF Connect
  <2> QED BY <1>5, <2>1, LeaveKeeps
<1>6. CASE r.there = "yes" /\ r.enabled /\ live = None
  <2>1. Admit(k, r, SeenOf(r)) /\ UNCHANGED <<live, proc, closing>>
    BY <1>6 DEF Connect
  <2>2. SeenOf(r) \in Seen /\ (~crossed => SeenOf(r).retry <= fails)
    BY <1>1, SeenOfRow DEF Counted, RowLike
  <2> QED BY <1>6, <2>1, <2>2, AdmitKeeps
<1> QED BY <1>2, <1>3, <1>4, <1>5, <1>6

(* check() keeps the invariant, up to what it first awaits.                *)
LEMMA CheckKeeps ==
  ASSUME TargetInv, NEW k \in Task, proc # "down", conn' = conn, task[k].pc = "idle",
         NEW r, RowLike(r), r.there = "yes", Check(k, r), UNCHANGED <<up, pulled>>
  PROVE  TargetInv'
<1>1. TypeOK /\ TasksOK /\ DownClear /\ ServedOpen /\ LoginOwn /\ Uncrossed /\ StopLate
      /\ SessionsHeld /\ Counted /\ StopsAsked /\ TimerPulled /\ r \in Row
  BY DEF TargetInv, RowLike
<1>2. Starts(k)
  BY <1>1 DEF Starts, TypeOK
<1>3. CASE ~r.enabled \/ live = None
  <2>1. Connect(k, r, FALSE)
    BY <1>3 DEF Check
  <2> QED BY <1>2, <2>1, ConnectKeeps
<1>4. CASE r.enabled /\ live # None
  <2> DEFINE now == [pc |-> "probing", api |-> live, then |-> "none", seen |-> NotSeen]
  <2>1. /\ task' = [task EXCEPT ![k] = now] /\ row' = r
        /\ live' = live /\ proc' = proc /\ closing' = closing /\ up' = up /\ pulled' = pulled
        /\ crossed' = crossed /\ late' = late /\ stained' = stained /\ fails' = fails
    BY <1>4 DEF Check, history
  <2>2. now \in Doing /\ now.pc = "probing" /\ now.api = live
    BY <1>1, Types DEF TypeOK, Doing
  <2> HIDE DEF now
  <2>3. task'[k] = now /\ (\A j \in Task \ {k} : task'[j] = task[j]) /\ task' \in [Task -> Doing]
    BY <1>1, <2>1, <2>2 DEF TypeOK
  <2>4. TypeOK'
    BY <1>1, <2>1, <2>3 DEF TypeOK
  <2>5. TasksOK' /\ DownClear'
    <3>1. TasksOK'
      BY <1>1, <1>4, <2>2, <2>3 DEF TasksOK, TypeOK
    <3>2. DownClear'
      BY <1>1, <2>1 DEF DownClear
    <3> QED BY <3>1, <3>2
  <2>6. ServedOpen'
    BY <1>1, <2>1, <2>2, <2>3 DEF ServedOpen
  <2>7. LoginOwn'
    <3> SUFFICES ASSUME NEW j \in Task, task'[j].pc = "login"
                 PROVE  task'[j].api # closing /\ \A i \in Task \ {j} : task'[i].api # task'[j].api
      BY <2>1 DEF LoginOwn
    <3>1. j # k /\ task[j].pc = "login" /\ task'[j] = task[j]
      BY <2>2, <2>3
    <3>2. task[j].api # live
      BY <1>1, <1>4, <3>1 DEF ServedOpen
    <3> QED BY <1>1, <2>2, <2>3, <3>1, <3>2 DEF LoginOwn
  <2>8. \A j \in Task : InConnect(j)' => InConnect(j) /\ task'[j] = task[j]
    BY <2>2, <2>3 DEF InConnect
  <2>9. Uncrossed' /\ StopLate' /\ DisabledLeft' /\ StopsAsked' /\ HealthyIsLive' /\ TimerPulled'
    BY <1>1, <1>4, <2>1, <2>8
       DEF Uncrossed, StopLate, DisabledLeft, StopsAsked, HealthyIsLive, TimerPulled
  <2>10. SessionsHeld'
    BY <1>1, <2>1, <2>2, <2>3 DEF SessionsHeld
  <2>11. Counted'
    BY <1>1, <2>1, <2>8 DEF Counted, RowLike
  <2> QED BY <2>4, <2>5, <2>6, <2>7, <2>9, <2>10, <2>11 DEF TargetInv
<1> QED BY <1>3, <1>4

-----------------------------------------------------------------------------
(* The initial state satisfies the invariant.                              *)
LEMMA TargetInit == Init => TargetInv
<1> SUFFICES ASSUME Init PROVE TargetInv
  OBVIOUS
<1>1. /\ proc = "down" /\ row = Absent("no") /\ live = None /\ closing = None
      /\ conn = [c \in Conn |-> "closed"] /\ task = [k \in Task |-> Idle] /\ up = TRUE
      /\ crossed = FALSE /\ late = FALSE /\ stained = FALSE /\ fails = 0 /\ pulled = FALSE
  BY DEF Init
<1>2. row.there = "no" /\ row.retry = 0
  BY <1>1 DEF Absent
<1>3. \A k \in Task : task[k] = Idle /\ task[k].pc = "idle" /\ task[k].api = None
  BY <1>1, Types
<1>4. TypeOK
  <2>1. row \in Row /\ task \in [Task -> Doing]
    BY <1>1, Types
  <2>2. conn \in [Conn -> {"closed", "open"}] /\ fails \in Count
    BY <1>1, ThresholdAssumption DEF Count
  <2> QED BY <1>1, <2>1, <2>2 DEF TypeOK
<1>5. TasksOK /\ DownClear /\ ServedOpen /\ LoginOwn /\ Uncrossed /\ SessionsHeld /\ StopLate
  BY <1>1, <1>3 DEF TasksOK, DownClear, ServedOpen, LoginOwn, Uncrossed, SessionsHeld, StopLate
<1>6. DisabledLeft /\ HealthyIsLive /\ StopsAsked /\ TimerPulled
  BY <1>1, <1>2, <1>3, Boot0 DEF DisabledLeft, HealthyIsLive, StopsAsked, TimerPulled
<1>7. Counted
  BY <1>1, <1>2, <1>3 DEF Counted, InConnect
<1> QED BY <1>4, <1>5, <1>6, <1>7 DEF TargetInv

(* The start of the server keeps the invariant.                            *)
LEMMA BootKeeps ==
  ASSUME TargetInv, Boot
  PROVE  TargetInv'
<1>1. TypeOK /\ TasksOK /\ Counted /\ proc = "down" /\ live = None /\ closing = None
      /\ \A k \in Task : task[k].pc = "idle" /\ task[k].api = None
  BY DEF TargetInv, DownClear, TasksOK, Boot
<1>2. /\ proc' = "up" /\ pulled' = FALSE /\ live' = None /\ closing' = None /\ up' = up
      /\ conn' = [c \in Conn |-> "closed"]
      /\ crossed' = (crossed /\ row.retry > 0) /\ late' = FALSE /\ stained' = stained
  BY <1>1 DEF Boot
<1>3. crossed' \in BOOLEAN /\ (~crossed' => row.retry <= fails) /\ row.retry \in Count
  BY <1>1, <1>2, ThresholdAssumption DEF Counted, TypeOK, Count, Row
<1>4. ServedOpen' /\ Uncrossed' /\ SessionsHeld' /\ StopLate' /\ DisabledLeft' /\ StopsAsked'
  BY <1>2 DEF ServedOpen, Uncrossed, SessionsHeld, StopLate, DisabledLeft, StopsAsked
<1>5. DownClear'
  BY <1>2 DEF DownClear
<1>6. CASE row.there = "yes" /\ row.enabled /\ row.fit
  <2> DEFINE now == [pc |-> "login", api |-> New, then |-> "none", seen |-> SeenOf(row)]
  <2>1. /\ Spare # {} /\ task' = [task EXCEPT !["boot"] = now] /\ row' = row /\ fails' = fails
    BY <1>6 DEF Boot
  <2>2. New \in Conn /\ SeenOf(row) \in Seen /\ SeenOf(row).retry = row.retry
    BY <1>1, <2>1, NewIsSpare, SeenOfRow DEF TypeOK
  <2>3. now \in Doing /\ now.pc = "login" /\ now.api = New /\ now.seen = SeenOf(row)
    BY <2>2 DEF Doing
  <2> HIDE DEF now
  <2>4. /\ task'["boot"] = now /\ (\A j \in Task \ {"boot"} : task'[j] = task[j])
        /\ task' \in [Task -> Doing]
    BY <1>1, <2>1, <2>3, Boot0 DEF TypeOK
  <2>5. TypeOK'
    BY <1>1, <1>2, <1>3, <2>1, <2>4 DEF TypeOK
  <2>6. TasksOK'
    BY <1>1, <2>2, <2>3, <2>4 DEF TasksOK
  <2>7. LoginOwn'
    BY <1>1, <1>2, <2>2, <2>3, <2>4, ConnAssumption DEF LoginOwn
  <2>8. HealthyIsLive'
    BY <2>3, <2>4, Boot0 DEF HealthyIsLive
  <2>9. TimerPulled'
    BY <1>6, <2>1 DEF TimerPulled
  <2>10. Counted'
    <3>1. \A j \in Task : InConnect(j)' => task'[j].seen.retry = row.retry
      BY <1>1, <2>2, <2>3, <2>4 DEF InConnect
    <3> QED BY <1>1, <1>3, <2>1, <3>1 DEF Counted
  <2> QED BY <1>4, <1>5, <2>5, <2>6, <2>7, <2>8, <2>9, <2>10 DEF TargetInv
<1>7. CASE row.there = "yes" /\ row.enabled /\ ~row.fit
  <2>0. PICK state \in Refused : row' = [row EXCEPT !.state = state, !.retry = More(row.retry)]
    BY <1>7 DEF Boot
  <2>1. /\ row' = [row EXCEPT !.state = state, !.retry = More(row.retry)]
        /\ fails' = More(fails) /\ task' = task
    BY <1>7, <2>0 DEF Boot
  <2>2. More(row.retry) \in Count /\ More(fails) \in Count
    BY <1>1, <1>3, MoreOf DEF TypeOK
  <2>3. /\ row' \in Row /\ row'.there = "yes" /\ row'.state \in Refused
        /\ row'.retry = More(row.retry) /\ row'.state \notin {"Healthy", "Offline"}
    BY <1>1, <1>7, <2>1, <2>2 DEF TypeOK, Row, State, Refused
  <2>4. TypeOK'
    BY <1>1, <1>2, <1>3, <2>1, <2>2, <2>3 DEF TypeOK
  <2>5. TasksOK' /\ LoginOwn' /\ HealthyIsLive' /\ TimerPulled'
    BY <1>1, <2>1, <2>3 DEF TasksOK, LoginOwn, HealthyIsLive, TimerPulled
  <2>6. Counted'
    <3>1. ~crossed' => row'.retry <= fails'
      BY <1>1, <1>3, <2>1, <2>3, MoreOf DEF TypeOK
    <3> QED BY <1>1, <2>1, <2>3, <3>1 DEF Counted, InConnect
  <2> QED BY <1>4, <1>5, <2>4, <2>5, <2>6 DEF TargetInv
<1>8. CASE ~(row.there = "yes" /\ row.enabled)
  <2>1. row' = row /\ task' = task /\ fails' = fails
    BY <1>8 DEF Boot
  <2>2. TypeOK'
    BY <1>1, <1>2, <1>3, <2>1 DEF TypeOK
  <2>3. TasksOK' /\ LoginOwn' /\ HealthyIsLive' /\ TimerPulled'
    BY <1>1, <1>8, <2>1, Boot0 DEF TasksOK, LoginOwn, HealthyIsLive, TimerPulled
  <2>4. Counted'
    BY <1>1, <1>3, <2>1 DEF Counted, InConnect
  <2> QED BY <1>4, <1>5, <2>2, <2>3, <2>4 DEF TargetInv
<1> QED BY <1>6, <1>7, <1>8

LEMMA RowItself ==
  ASSUME TypeOK
  PROVE  RowLike(row)
BY DEF RowLike, TypeOK

(* The timer's check keeps the invariant.                                  *)
LEMMA TickKeeps ==
  ASSUME TargetInv, Tick
  PROVE  TargetInv'
<1>1. TypeOK /\ RowLike(row)
  BY RowItself DEF TargetInv
<1>2. /\ proc = "up" /\ task["timer"].pc = "idle" /\ row.there = "yes"
      /\ Check("timer", row) /\ conn' = conn /\ UNCHANGED <<up, pulled>>
  BY DEF Tick
<1> QED BY <1>1, <1>2, Boot0, CheckKeeps

(* A request keeps the invariant.                                          *)
LEMMA RequestKeeps ==
  ASSUME TargetInv, NEW k \in Request,
         CheckNow(k) \/ Enable(k) \/ Disable(k) \/ \E enabled \in BOOLEAN : Register(k, enabled)
  PROVE  TargetInv'
<1>1. TypeOK /\ Counted /\ row \in Row /\ k \in Task
  BY DEF TargetInv, TypeOK, Task
<1>2. proc # "down" /\ task[k].pc = "idle" /\ conn' = conn /\ UNCHANGED <<up, pulled>>
  BY DEF CheckNow, Enable, Disable, Register, Asked
<1>3. Starts(k)
  BY <1>1, <1>2 DEF Starts, TypeOK
<1>4. CASE CheckNow(k)
  <2>1. row.there = "yes" /\ Check(k, row) /\ RowLike(row)
    BY <1>1, <1>4, RowItself DEF CheckNow
  <2> QED BY <1>1, <1>2, <2>1, CheckKeeps
<1>5. CASE Enable(k)
  <2> DEFINE r == [row EXCEPT !.enabled = TRUE]
  <2>1. row.there = "yes" /\ Connect(k, r, TRUE)
    BY <1>5 DEF Enable
  <2>2. RowLike(r) /\ r.there = "yes"
    BY <1>1, <2>1 DEF RowLike, Row
  <2> HIDE DEF r
  <2> QED BY <1>1, <1>2, <1>3, <2>1, <2>2, ConnectKeeps
<1>6. CASE Disable(k)
  <2> DEFINE r == [row EXCEPT !.enabled = FALSE, !.state = "Maintenance"]
  <2>1. row.there = "yes" /\ Leave(k, r, "maintain") /\ UNCHANGED <<proc, closing>>
    BY <1>6 DEF Disable
  <2>2. RowLike(r) /\ r.there = "yes"
    BY <1>1, <2>1 DEF RowLike, Row, State
  <2> HIDE DEF r
  <2> QED BY <1>1, <1>2, <1>3, <2>1, <2>2, LeaveKeeps
<1>7. ASSUME NEW enabled \in BOOLEAN, Register(k, enabled)
      PROVE  TargetInv'
  <2> DEFINE r == [row EXCEPT !.there = "yes", !.enabled = enabled]
  <2>1. Check(k, r)
    BY <1>7 DEF Register
  <2>2. RowLike(r) /\ r.there = "yes"
    BY <1>1 DEF RowLike, Row
  <2> HIDE DEF r
  <2> QED BY <1>1, <1>2, <2>1, <2>2, CheckKeeps
<1> QED BY <1>4, <1>5, <1>6, <1>7

-----------------------------------------------------------------------------
(* A login that was answered keeps the invariant.                          *)
LEMMA LoginOkKeeps ==
  ASSUME TargetInv, NEW k \in Task, proc # "down", LoginOk(k)
  PROVE  TargetInv'
<1>1. TypeOK /\ TasksOK /\ DownClear /\ ServedOpen /\ LoginOwn /\ Uncrossed /\ StopLate
      /\ SessionsHeld /\ Counted /\ StopsAsked /\ TimerPulled /\ row \in Row
  BY DEF TargetInv, TypeOK
<1>2. /\ task[k].pc = "login" /\ conn' = [conn EXCEPT ![task[k].api] = "open"]
      /\ live' = task[k].api /\ stained' = FALSE
      /\ row' = IF row.there = "yes" THEN [row EXCEPT !.state = "Healthy", !.retry = 0] ELSE row
      /\ task' = [task EXCEPT ![k] = Idle]
      /\ crossed' = (crossed \/ \E j \in Task \ {k} : InConnect(j))
      /\ fails' = 0
      /\ late' = ~(proc = "up" /\ row.there = "yes" /\ row.enabled)
      /\ proc' = proc /\ closing' = closing /\ up' = up /\ pulled' = pulled
  BY DEF LoginOk, Report
<1>3. task[k].api \in Conn /\ task[k].api # None /\ task[k].api # live /\ task[k].api # closing
      /\ \A j \in Task \ {k} : task[j].api # task[k].api
  BY <1>1, <1>2, ConnAssumption DEF TasksOK, ServedOpen, LoginOwn
<1>4. task'[k] = Idle /\ (\A j \in Task \ {k} : task'[j] = task[j]) /\ task' \in [Task -> Doing]
      /\ task'[k].pc = "idle" /\ task'[k].api = None
  BY <1>1, <1>2, Types DEF TypeOK
<1>5. /\ conn' \in [Conn -> {"closed", "open"}] /\ conn'[task[k].api] = "open"
      /\ \A c \in Conn \ {task[k].api} : conn'[c] = conn[c]
  BY <1>1, <1>2, <1>3 DEF TypeOK
<1>6. /\ row' \in Row /\ row'.there = row.there /\ row'.enabled = row.enabled
      /\ row'.retry = 0 /\ (row'.state = "Offline" => row' = row)
  <2>1. 0 \in Count
    BY ThresholdAssumption DEF Count
  <2>2. CASE row.there = "yes"
    BY <1>1, <1>2, <2>1, <2>2 DEF Row, State
  <2>3. CASE row.there # "yes"
    BY <1>1, <1>2, <2>3 DEF Counted
  <2> QED BY <2>2, <2>3
<1>7. TypeOK'
  <2>1. fails' \in Count
    BY <1>2, ThresholdAssumption DEF Count
  <2>2. crossed' \in BOOLEAN /\ late' \in BOOLEAN
    BY <1>2
  <2> QED BY <1>1, <1>2, <1>3, <1>4, <1>5, <1>6, <2>1, <2>2 DEF TypeOK
<1>8. TasksOK' /\ DownClear'
  <2>1. TasksOK'
    BY <1>1, <1>4 DEF TasksOK
  <2>2. DownClear'
    BY <1>1, <1>2 DEF DownClear
  <2> QED BY <2>1, <2>2
<1>9. ServedOpen'
  BY <1>2, <1>3, <1>4, <1>5 DEF ServedOpen
<1>10. LoginOwn'
  <2> SUFFICES ASSUME NEW j \in Task, task'[j].pc = "login"
               PROVE  task'[j].api # closing /\ \A i \in Task \ {j} : task'[i].api # task'[j].api
    BY <1>2 DEF LoginOwn
  <2>1. j # k /\ task[j].pc = "login" /\ task'[j] = task[j]
    BY <1>4
  <2>2. task[j].api \in Conn /\ task[j].api # None
    BY <1>1, <2>1, ConnAssumption DEF TasksOK
  <2> QED BY <1>1, <1>4, <2>1, <2>2 DEF LoginOwn
<1>11. ~crossed' => ~crossed /\ live = None /\ \A j \in Task : ~InConnect(j)'
  <2>1. \A j \in Task : InConnect(j)' => InConnect(j) /\ j # k
    BY <1>4 DEF InConnect
  <2>2. InConnect(k)
    BY <1>2 DEF InConnect
  <2> QED BY <1>1, <1>2, <2>1, <2>2 DEF Uncrossed
<1>12. Uncrossed' /\ StopLate' /\ DisabledLeft' /\ HealthyIsLive'
  BY <1>2, <1>3, <1>6, <1>11 DEF Uncrossed, StopLate, DisabledLeft, HealthyIsLive
<1>13. SessionsHeld'
  <2> SUFFICES ASSUME NEW c \in Conn, conn'[c] # "closed", ~crossed', c # live', c # closing
               PROVE  \E j \in Task : task'[j].pc = "leaving" /\ task'[j].api = c
    BY <1>2 DEF SessionsHeld
  <2>1. conn[c] # "closed" /\ c # live /\ ~crossed
    BY <1>2, <1>5, <1>11, ConnAssumption
  <2>2. PICK j \in Task : task[j].pc = "leaving" /\ task[j].api = c
    BY <1>1, <2>1 DEF SessionsHeld
  <2> QED BY <1>2, <1>4, <2>2
<1>14. Counted'
  BY <1>2, <1>6, <1>11 DEF Counted
<1>15. StopsAsked' /\ TimerPulled'
  <2>1. StopsAsked'
    BY <1>1, <1>2 DEF StopsAsked
  <2>2. TimerPulled'
    BY <1>1, <1>2, <1>4, <1>6, Boot0 DEF TimerPulled
  <2> QED BY <2>1, <2>2
<1> QED BY <1>7, <1>8, <1>9, <1>10, <1>12, <1>13, <1>14, <1>15 DEF TargetInv

(* A task that goes on keeps the invariant.                                *)
LEMMA ProceedKeeps ==
  ASSUME TargetInv, NEW k \in Task, Proceed(k)
  PROVE  TargetInv'
<1>1. TypeOK /\ TasksOK /\ DisabledLeft /\ Uncrossed /\ Counted /\ RowLike(row)
      /\ proc # "down" /\ task[k] \in Doing /\ conn = [c \in Conn |-> conn[c]]
  BY RowItself DEF TargetInv, Proceed, TypeOK
<1>2. row.there = "yes" /\ ~row.enabled /\ live # None => late
  BY <1>1 DEF DisabledLeft
<1>3. /\ {"Healthy", "Maintenance", "Degraded", "Offline"} \subseteq State
      /\ 0 \in Count
  BY ThresholdAssumption DEF State, Count
<1>4. CASE ProbeOk(k)
  <2>1. /\ task[k].pc = "probing" /\ Report(k, row, "Healthy", 0, TRUE)
        /\ stained' = (live # task[k].api)
        /\ UNCHANGED <<proc, live, conn, closing, up, late, pulled>>
    BY <1>4 DEF ProbeOk
  <2>2. Starts(k)
    BY <1>1, <2>1 DEF Starts
  <2>3. stained' \in BOOLEAN /\ (live = None => stained')
    BY <1>1, <2>1, ConnAssumption DEF TasksOK
  <2> QED BY <1>1, <1>2, <1>3, <2>1, <2>2, <2>3, ReportKeeps
<1>5. CASE ProbeFails(k)
  <2>1. /\ task[k].pc = "probing" /\ Leave(k, row, "reconnect")
        /\ UNCHANGED <<proc, conn, closing, up, pulled>>
    BY <1>5 DEF ProbeFails
  <2>2. Starts(k)
    BY <1>1, <2>1 DEF Starts
  <2> QED BY <1>1, <2>1, <2>2, LeaveKeeps
<1>6. CASE Left(k)
  <2>1. /\ task[k].pc = "leaving" /\ UNCHANGED <<up, pulled>>
        /\ conn' = [c \in Conn |-> IF c = task[k].api THEN "closed" ELSE conn[c]]
    BY <1>6 DEF Left
  <2>2. Starts(k)
    BY <1>1, <2>1 DEF Starts
  <2>3. CASE task[k].then = "maintain"
    <3>1. /\ Report(k, row, "Maintenance", 0, TRUE) /\ stained' = FALSE
          /\ UNCHANGED <<live, late, proc, closing>>
      BY <1>6, <2>3 DEF Left
    <3> QED BY <1>1, <1>2, <1>3, <2>1, <2>2, <3>1, ReportKeeps
  <2>4. CASE task[k].then = "reconnect"
    <3>1. Connect(k, row, TRUE)
      BY <1>6, <2>4 DEF Left
    <3> QED BY <1>1, <2>1, <2>2, <3>1, ConnectKeeps
  <2>5. CASE task[k].then = "admit"
    <3>1. Admit(k, row, task[k].seen) /\ UNCHANGED <<live, proc, closing>>
      BY <1>6, <2>5 DEF Left
    <3>2. InConnect(k) /\ task[k].seen \in Seen
      BY <1>1, <2>1, <2>5 DEF InConnect, Doing
    <3>3. (live # None => crossed) /\ (~crossed => task[k].seen.retry <= fails)
      BY <1>1, <3>2 DEF Uncrossed, Counted
    <3> QED BY <1>1, <1>2, <2>1, <2>2, <3>1, <3>2, <3>3, AdmitKeeps
  <2>6. CASE task[k].then = "none"
    BY <1>1, <2>1, <2>6 DEF TasksOK
  <2> QED BY <1>1, <2>3, <2>4, <2>5, <2>6 DEF Doing
<1>7. CASE LoginOk(k)
  BY <1>1, <1>7, LoginOkKeeps
<1>8. CASE LoginFails(k)
  <2> DEFINE retry == More(task[k].seen.retry)
             state == IF retry <= Threshold THEN "Degraded" ELSE "Offline"
  <2>1. /\ task[k].pc = "login" /\ Report(k, row, state, retry, FALSE) /\ stained' = FALSE
        /\ conn' = [conn EXCEPT ![task[k].api] = "closed"]
        /\ UNCHANGED <<proc, live, closing, up, late, pulled>>
    BY <1>8 DEF LoginFails
  <2>2. Starts(k)
    <3>1. conn' = [c \in Conn |-> IF c = task[k].api THEN "closed" ELSE conn[c]]
      BY <1>1, <2>1
    <3> QED BY <1>1, <2>1, <3>1 DEF Starts
  <2>3. InConnect(k) /\ task[k].seen.retry \in Count
    BY <1>1, <2>1 DEF InConnect, Doing, Seen
  <2>4. retry \in Count /\ \E s \in Count : retry = More(s) /\ (~crossed => s <= fails)
    BY <1>1, <2>3, MoreOf DEF Counted
  <2>5. state \in State /\ (state = "Offline" => retry > Threshold) /\ state # "Healthy"
    BY <2>4, ThresholdAssumption DEF State, Count
  <2> HIDE DEF retry, state
  <2> QED BY <1>1, <1>2, <2>1, <2>2, <2>4, <2>5, ReportKeeps
<1> QED BY <1>4, <1>5, <1>6, <1>7, <1>8 DEF Proceed

(* What befalls the row and the process keeps the invariant.               *)
LEMMA EventsKeep ==
  ASSUME TargetInv, Edit \/ Remove \/ Flip \/ UNCHANGED vars
  PROVE  TargetInv'
<1>1. TypeOK /\ TasksOK /\ DownClear /\ ServedOpen /\ LoginOwn /\ Uncrossed /\ StopLate
      /\ SessionsHeld /\ DisabledLeft /\ HealthyIsLive
      /\ Counted /\ StopsAsked /\ TimerPulled /\ row \in Row
  BY DEF TargetInv, TypeOK
<1>2. /\ proc' = proc /\ live' = live /\ conn' = conn /\ task' = task /\ closing' = closing
      /\ crossed' = crossed /\ late' = late /\ stained' = stained /\ fails' = fails
  BY DEF Edit, Remove, Flip, vars, history
<1>3. TasksOK' /\ DownClear' /\ ServedOpen' /\ LoginOwn' /\ Uncrossed' /\ StopLate' /\ SessionsHeld'
  BY <1>1, <1>2 DEF TasksOK, DownClear, ServedOpen, LoginOwn, Uncrossed, InConnect, StopLate, SessionsHeld
<1>4. CASE Remove
  <2>1. /\ row.there = "yes" /\ row' = Absent("gone") /\ up' = up
        /\ pulled' = (pulled \/ \E k \in Task : task[k].pc \in {"probing", "leaving"})
    BY <1>4 DEF Remove
  <2>2. row' \in Row /\ row'.there = "gone" /\ row'.retry = 0
    BY <2>1, Types DEF Absent
  <2>3. TypeOK'
    BY <1>1, <1>2, <2>1, <2>2 DEF TypeOK
  <2>4. DisabledLeft' /\ HealthyIsLive' /\ StopsAsked' /\ TimerPulled'
    BY <1>1, <1>2, <2>1, <2>2, Boot0 DEF DisabledLeft, HealthyIsLive, StopsAsked, TimerPulled
  <2>5. Counted'
    BY <1>1, <1>2, <2>2, ThresholdAssumption DEF Counted, InConnect, TypeOK, Count
  <2> QED BY <1>3, <2>3, <2>4, <2>5 DEF TargetInv
<1>5. CASE Edit \/ Flip \/ UNCHANGED vars
  <2>1. /\ pulled' = pulled /\ up' \in BOOLEAN /\ row' \in Row
        /\ row'.there = row.there /\ row'.enabled = row.enabled /\ row'.state = row.state
        /\ row'.retry = row.retry
    BY <1>1, <1>5 DEF Edit, Flip, vars, Row, TypeOK
  <2>2. TypeOK'
    BY <1>1, <1>2, <2>1 DEF TypeOK
  <2>3. DisabledLeft' /\ HealthyIsLive' /\ StopsAsked' /\ TimerPulled'
    BY <1>1, <1>2, <2>1 DEF DisabledLeft, HealthyIsLive, StopsAsked, TimerPulled
  <2>4. Counted'
    BY <1>1, <1>2, <2>1 DEF Counted, InConnect
  <2> QED BY <1>3, <2>2, <2>3, <2>4 DEF TargetInv
<1> QED BY <1>4, <1>5

(* A stop of the process that was asked keeps the invariant.               *)
LEMMA StopKeeps ==
  ASSUME TargetInv, Stop
  PROVE  TargetInv'
<1>1. /\ TypeOK /\ TasksOK /\ DownClear /\ ServedOpen /\ LoginOwn /\ SessionsHeld /\ Counted
      /\ proc = "up" /\ closing = None
      /\ proc' = "stopping" /\ closing' = live /\ live' = None
      /\ row' = row /\ up' = up /\ pulled' = TRUE /\ conn' = conn /\ task' = task
      /\ crossed' = crossed /\ late' = late /\ stained' = stained /\ fails' = fails
  BY DEF TargetInv, DownClear, Stop, Shutdown, history
<1>2. TypeOK'
  BY <1>1 DEF TypeOK
<1>3. TasksOK' /\ DownClear' /\ Counted'
  BY <1>1 DEF TasksOK, DownClear, Counted, InConnect
<1>4. ServedOpen' /\ Uncrossed' /\ StopLate' /\ DisabledLeft' /\ HealthyIsLive' /\ StopsAsked' /\ TimerPulled'
  BY <1>1 DEF ServedOpen, Uncrossed, StopLate, DisabledLeft, HealthyIsLive, StopsAsked, TimerPulled
<1>5. LoginOwn'
  BY <1>1, ConnAssumption DEF LoginOwn, TasksOK, ServedOpen
<1>6. SessionsHeld'
  BY <1>1, ConnAssumption DEF SessionsHeld
<1> QED BY <1>2, <1>3, <1>4, <1>5, <1>6 DEF TargetInv

(* The end of the process keeps the invariant.                             *)
LEMMA EndKeeps ==
  ASSUME TargetInv, Exit \/ Crash
  PROVE  TargetInv'
<1>1. TypeOK /\ SessionsHeld /\ StopLate /\ Counted
  BY DEF TargetInv
<1>2. /\ proc' = "down" /\ live' = None /\ closing' = None /\ task' = [k \in Task |-> Idle]
      /\ row' = row /\ up' = up /\ pulled' = pulled
      /\ crossed' = crossed /\ late' = late /\ stained' = stained /\ fails' = fails
  BY DEF Exit, Crash, history
<1>3. \A k \in Task : task'[k].pc = "idle" /\ task'[k].api = None
  BY <1>2, Types
<1>4. conn' \in [Conn -> {"closed", "open"}]
  BY <1>1 DEF Exit, Crash, TypeOK
<1>5. TypeOK'
  <2>1. task' \in [Task -> Doing]
    BY <1>2, Types
  <2> QED BY <1>1, <1>2, <1>4, <2>1 DEF TypeOK
<1>6. TasksOK' /\ DownClear' /\ LoginOwn'
  BY <1>2, <1>3 DEF TasksOK, DownClear, LoginOwn
<1>7. ServedOpen' /\ Uncrossed' /\ StopLate' /\ DisabledLeft' /\ HealthyIsLive' /\ StopsAsked'
  BY <1>2 DEF ServedOpen, Uncrossed, StopLate, DisabledLeft, HealthyIsLive, StopsAsked
<1>8. TimerPulled' /\ Counted'
  <2>1. TimerPulled'
    BY <1>3, Boot0 DEF TimerPulled
  <2>2. Counted'
    BY <1>1, <1>2, <1>3 DEF Counted, InConnect
  <2> QED BY <2>1, <2>2
<1>9. SessionsHeld'
  <2> SUFFICES ASSUME NEW c \in Conn, conn'[c] # "closed"
               PROVE  crossed \/ late
    BY <1>2 DEF SessionsHeld
  <2>1. CASE Exit
    <3>1. /\ proc = "stopping" /\ conn[c] # "closed" /\ c # closing
          /\ \A k \in Task : ~(task[k].pc = "leaving" /\ task[k].api = c)
      BY <2>1 DEF Exit
    <3> QED BY <1>1, <3>1, ConnAssumption DEF SessionsHeld, StopLate
  <2>2. CASE Crash
    BY <2>2 DEF Crash
  <2> QED BY <2>1, <2>2
<1> QED BY <1>5, <1>6, <1>7, <1>8, <1>9 DEF TargetInv

(* Every step keeps the invariant.                                         *)
LEMMA TargetStep == TargetInv /\ [Next]_vars => TargetInv'
<1> SUFFICES ASSUME TargetInv, [Next]_vars PROVE TargetInv'
  OBVIOUS
<1>1. CASE Boot
  BY <1>1, BootKeeps
<1>2. CASE Tick
  BY <1>2, TickKeeps
<1>3. ASSUME NEW k \in Request,
             \/ CheckNow(k) \/ Enable(k) \/ Disable(k)
             \/ \E enabled \in BOOLEAN : Register(k, enabled)
      PROVE  TargetInv'
  BY <1>3, RequestKeeps
<1>4. ASSUME NEW k \in Task, Proceed(k)
      PROVE  TargetInv'
  BY <1>4, ProceedKeeps
<1>5. CASE Edit \/ Remove \/ Flip \/ UNCHANGED vars
  BY <1>5, EventsKeep
<1>6. CASE Stop
  BY <1>6, StopKeeps
<1>7. CASE Exit \/ Crash
  BY <1>7, EndKeeps
<1> QED BY <1>1, <1>2, <1>3, <1>4, <1>5, <1>6, <1>7 DEF Next

(* The inductive invariant of a managed target: where its sessions are,    *)
(* whom each belongs to, and how its row is ahead of or behind them.       *)
THEOREM TargetInvariant == Spec => []TargetInv
<1> QED BY TargetInit, TargetStep, PTL DEF Spec

-----------------------------------------------------------------------------
(* The variables keep their types.                                         *)
THEOREM TargetTyped == Spec => []TypeOK
<1>1. TargetInv => TypeOK
  BY DEF TargetInv
<1> QED BY <1>1, TargetInvariant, PTL

(* A connection in liveConnections has a session that nothing has ended    *)
(* and no task is logging in or out.                                       *)
THEOREM ServedIsOpen == Spec => []ServedOpen
<1>1. TargetInv => ServedOpen
  BY DEF TargetInv
<1> QED BY <1>1, TargetInvariant, PTL

(* disable() leaves no connection behind, but for a login that came back   *)
(* after it.                                                               *)
THEOREM DisabledIsLeft == Spec => []DisabledLeft
<1>1. TargetInv => DisabledLeft
  BY DEF TargetInv
<1> QED BY <1>1, TargetInvariant, PTL

(* A target that is Healthy in the table has a connection, is getting one, *)
(* or was probed while its connection was dropped.                         *)
THEOREM HealthyHasConnection == Spec => []HealthyIsLive
<1>1. TargetInv => HealthyIsLive
  BY DEF TargetInv
<1> QED BY <1>1, TargetInvariant, PTL

(* For the errors of a login, a hard failure state takes more failures in  *)
(* a row than DEGRADED_RETRY_THRESHOLD, for every threshold, unless checks *)
(* crossed.                                                                *)
THEOREM DegradedComesFirst == Spec => []DegradedFirst
<1>1. TargetInv => DegradedFirst
  <2> SUFFICES ASSUME TargetInv, row.there = "yes", row.state = "Offline", row.retry > 0, ~crossed
               PROVE  fails > Threshold
    BY DEF DegradedFirst
  <2>1. row.retry > Threshold /\ row.retry <= fails /\ row.retry \in Count /\ fails \in Count
    BY DEF TargetInv, Counted, TypeOK, Row
  <2> QED BY <2>1, ThresholdAssumption DEF Count
<1> QED BY <1>1, TargetInvariant, PTL

(* connect() and disconnect() lose no session, unless checks crossed or    *)
(* the process stopped while it was connecting.                            *)
THEOREM NoSessionLeaks == Spec => []NothingLeaked
<1>1. TargetInv => NothingLeaked
  <2> SUFFICES ASSUME TargetInv, NEW c \in Spare, conn[c] # "closed"
               PROVE  crossed \/ (proc = "down" /\ late)
    BY DEF NothingLeaked
  <2>1. c \in Conn /\ c # live /\ c # closing /\ \A k \in Task : task[k].api # c
    BY DEF Spare
  <2> QED BY <2>1 DEF TargetInv, SessionsHeld
<1> QED BY <1>1, TargetInvariant, PTL

(* The timer's check ends the process only for a target removed during it. *)
THEOREM StopIsAsked == Spec => []StopsAsked
<1>1. TargetInv => StopsAsked
  BY DEF TargetInv
<1> QED BY <1>1, TargetInvariant, PTL
=============================================================================
