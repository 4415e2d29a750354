--------------------------- MODULE ManagedTargets ---------------------------
(***************************************************************************)
(* A managed target: the XAPI connection that the control plane keeps for  *)
(* everybody, server/services/managed-targets.js, with its row in          *)
(* managed_targets and the requests of server/routes/managed-targets.js.   *)
(*                                                                         *)
(* Checks of a target are made by the one that start() makes, by the timer *)
(* and by requests.  Each is a chain of awaited XAPI calls, nothing keeps  *)
(* two of them apart, and what one has read of the row, or taken from the  *)
(* map of live connections, may be out of date when its call returns.      *)
(*                                                                         *)
(* One target is modelled: targets share nothing but the timer, which      *)
(* waits for the checks of all.                                            *)
(***************************************************************************)
EXTENDS Naturals, FiniteSets

CONSTANTS
  Request,  \* requests that may be in progress at the same time
  Conn,     \* XenAPI objects
  None,     \* no connection
  Threshold \* DEGRADED_RETRY_THRESHOLD

VARIABLES
  proc,    \* the server process
  row,     \* the row of managed_targets, with the fitness of its connection
  live,    \* liveConnections: the entry of the target
  conn,    \* what became of the session of each object
  task,    \* the checks in progress
  closing, \* what stop() is logging out
  up,      \* environment: the target answers and takes the credential
  crossed, \* history: a status was written while another task was connecting
  late,    \* history: the last connection was registered after the target was
           \* disabled or removed, or the process told to stop
  stained, \* history: Healthy was written for a connection no longer live
  fails,   \* history: failures since a success, up to Threshold + 1, while
           \* no checks crossed
  pulled   \* history: a stop was asked, or the target removed during a check

history == <<crossed, late, stained, fails>>
vars == <<proc, row, live, conn, task, closing, up, history, pulled>>

ASSUME ConnAssumption == None \notin Conn
ASSUME RequestAssumption == Request \intersect {"boot", "timer"} = {}
ASSUME ThresholdAssumption == Threshold \in Nat

-----------------------------------------------------------------------------
Task  == Request \union {"boot", "timer"}
State == {"Healthy", "Degraded", "Maintenance", "Offline", "Unusable"}
Count == 0..Threshold + 1

(* Offline stands for the four states that stateFromError() tells apart.   *)
(* Unusable is Authentication Failed with a code of canUseTarget() as its  *)
(* error: the credential is missing or not shared.  fit says that the      *)
(* connection and its credential pass canUseTarget().                      *)
Row   == [there : {"no", "yes", "gone"}, enabled : BOOLEAN, state : State,
          retry : Count, fit : BOOLEAN]
Seen  == [retry : Count, fit : BOOLEAN]
Doing == [pc : {"idle", "probing", "leaving", "login"}, api : Conn \union {None},
          then : {"none", "maintain", "reconnect", "admit"}, seen : Seen]

NotSeen == [retry |-> 0, fit |-> TRUE]

Idle == [pc |-> "idle", api |-> None, then |-> "none",
         seen |-> NotSeen]

More(n) == IF n > Threshold THEN n ELSE n + 1

(* The row before it is inserted, with its defaults, and when it is gone.  *)
Absent(there) == [there |-> there, enabled |-> TRUE, state |-> "Offline",
                  retry |-> 0, fit |-> TRUE]

SeenOf(r) == [retry |-> r.retry, fit |-> r.fit]

InConnect(k) ==
  \/ task[k].pc = "login"
  \/ task[k].pc = "leaving" /\ task[k].then # "maintain"

(* Objects nobody refers to, and the one that is made next: an object is   *)
(* used again when it is forgotten.                                        *)
Spare == Conn \ ({live, closing} \union {task[k].api : k \in Task})
New   == CHOOSE c \in Spare : TRUE

-----------------------------------------------------------------------------
Init ==
  /\ proc = "down"
  /\ row = Absent("no")
  /\ live = None /\ closing = None
  /\ conn = [c \in Conn |-> "closed"]
  /\ task = [k \in Task |-> Idle]
  /\ up = TRUE
  /\ crossed = FALSE /\ late = FALSE /\ stained = FALSE /\ fails = 0
  /\ pulled = FALSE

-----------------------------------------------------------------------------
(* Parts of the operations.  r is the row as it is when the part begins.   *)

(* updateStatus() writes nothing when the row is gone.  The task ends.     *)
Report(k, r, state, retry, good) ==
  /\ row' = IF r.there = "yes" THEN [r EXCEPT !.state = state, !.retry = retry] ELSE r
  /\ task' = [task EXCEPT ![k] = Idle]
  /\ crossed' = (crossed \/ \E j \in Task \ {k} : InConnect(j))
  /\ fails' = IF good \/ crossed' THEN 0 ELSE More(fails)

(* Mutant: the entry is removed when the logout has returned.              *)
LeaveAfter(k, r, then) ==
  /\ task' = [task EXCEPT ![k] = [pc |-> "leaving", api |-> live, then |-> then,
                     seen |-> IF then = "admit" THEN SeenOf(r) ELSE NotSeen]]
  /\ row' = r
  /\ UNCHANGED <<live, history>>

(* disconnect(): the entry is removed, and logout() is awaited.            *)
Leave(k, r, then) ==
  /\ task' = [task EXCEPT ![k] = [pc |-> "leaving", api |-> live, then |-> then,
                     seen |-> IF then = "admit" THEN SeenOf(r) ELSE NotSeen]]
  /\ live' = None
  /\ row' = r
  /\ late' = FALSE
  /\ UNCHANGED <<crossed, stained, fails>>

(* What canUseTarget() refuses is reported at once, as Maintenance when it *)
(* is the connection that is not shared.                                   *)
Refused == {"Maintenance", "Unusable"}

(* connect() from canUseTarget() to the call of login(), the connection    *)
(* being as it was read and its credential as it now is: when one of them  *)
(* was edited in between, the target may pass or not.                      *)
Admit(k, r, seen) ==
  \/ /\ seen.fit \/ r.fit
     /\ Spare # {}
     /\ task' = [task EXCEPT ![k] = [pc |-> "login", api |-> New, then |-> "none",
                                     seen |-> [NotSeen EXCEPT !.retry = seen.retry]]]
     /\ row' = r
     /\ UNCHANGED history
  \/ /\ ~(seen.fit /\ r.fit)
     /\ \E state \in Refused : Report(k, r, state, More(seen.retry), FALSE)
     /\ stained' = FALSE
     /\ UNCHANGED late

(* stop(): what is live is taken from the map and logged out.              *)
Shutdown ==
  /\ proc' = "stopping"
  /\ closing' = live
  /\ live' = None

(* An error of the timer's check is nobody's: the process shuts down.      *)
(* start() catches it, and a request or a workflow reports it.             *)
Reject(k, r) ==
  /\ task' = [task EXCEPT ![k] = Idle]
  /\ row' = r
  /\ IF k = "timer" /\ proc = "up" THEN Shutdown
     ELSE UNCHANGED <<proc, closing, live>>
  /\ UNCHANGED history

(* Mutant: a connection that is kept is taken for one that answers.        *)
ConnectKept(k, r, force) ==
  CASE r.there # "yes" -> Reject(k, r)
    [] r.there = "yes" /\ ~r.enabled ->
         Leave(k, r, "maintain") /\ UNCHANGED <<proc, closing>>
    [] r.there = "yes" /\ r.enabled /\ ~force ->
         /\ Report(k, r, "Healthy", 0, TRUE)
         /\ stained' = FALSE
         /\ UNCHANGED <<live, late, proc, closing>>
    [] OTHER -> Leave(k, r, "admit") /\ UNCHANGED <<proc, closing>>

(* Mutant: the connection that is replaced is not logged out.              *)
ConnectOver(k, r, force) ==
  CASE r.there # "yes" -> Reject(k, r)
    [] r.there = "yes" /\ ~r.enabled ->
         Leave(k, r, "maintain") /\ UNCHANGED <<proc, closing>>
    [] OTHER -> Admit(k, r, SeenOf(r)) /\ UNCHANGED <<live, proc, closing>>

(* connect(), up to what it first awaits.                                  *)
Connect(k, r, force) ==
  CASE r.there # "yes" -> Reject(k, r)
    [] r.there = "yes" /\ ~r.enabled ->
         Leave(k, r, "maintain") /\ UNCHANGED <<proc, closing>>
    [] r.there = "yes" /\ r.enabled /\ live # None /\ ~force ->
         /\ Report(k, r, "Healthy", 0, TRUE)
         /\ stained' = FALSE
         /\ UNCHANGED <<live, late, proc, closing>>
    [] r.there = "yes" /\ r.enabled /\ live # None /\ force ->
         Leave(k, r, "admit") /\ UNCHANGED <<proc, closing>>
    [] OTHER -> Admit(k, r, SeenOf(r)) /\ UNCHANGED <<live, proc, closing>>

(* Mutant: a target that is disabled is left as it is.                     *)
CheckEnabled(k, r) ==
  IF ~r.enabled \/ live = None
  THEN IF r.enabled THEN Connect(k, r, FALSE)
       ELSE row' = r /\ UNCHANGED <<task, live, proc, closing, history>>
  ELSE /\ task' = [task EXCEPT ![k] = [pc |-> "probing", api |-> live,
                                       then |-> "none", seen |-> NotSeen]]
       /\ row' = r
       /\ UNCHANGED <<live, proc, closing, history>>

(* check(), up to what it first awaits.                                    *)
Check(k, r) ==
  IF ~r.enabled \/ live = None THEN Connect(k, r, FALSE)
  ELSE /\ task' = [task EXCEPT ![k] = [pc |-> "probing", api |-> live,
                                       then |-> "none", seen |-> NotSeen]]
       /\ row' = r
       /\ UNCHANGED <<live, proc, closing, history>>

-----------------------------------------------------------------------------
(* Checks begin.                                                           *)

(* The server starts: start() checks the target when it is enabled.        *)
Boot ==
  /\ proc = "down"
  /\ proc' = "up" /\ pulled' = FALSE
  /\ UNCHANGED <<live, closing, up>>
  /\ conn' = [c \in Conn |-> "closed"]
  /\ crossed' = (crossed /\ row.retry > 0) /\ late' = FALSE /\ stained' = stained
  /\ IF row.there = "yes" /\ row.enabled /\ row.fit
     THEN /\ Spare # {}
          /\ task' = [task EXCEPT !["boot"] = [pc |-> "login", api |-> New,
                                       then |-> "none", seen |-> SeenOf(row)]]
          /\ UNCHANGED <<row, fails>>
     ELSE IF row.there = "yes" /\ row.enabled
     THEN /\ \E state \in Refused :
               row' = [row EXCEPT !.state = state, !.retry = More(@)]
          /\ fails' = More(fails)
          /\ UNCHANGED task
     ELSE UNCHANGED <<row, task, fails>>

(* Mutant: the timer goes over the targets it knew when it was set.        *)
TickKnown ==
  /\ proc = "up"
  /\ task["timer"].pc = "idle"
  /\ row.there # "no" /\ row.enabled
  /\ Check("timer", row)
  /\ UNCHANGED <<conn, up, pulled>>

(* Mutant: a target in maintenance is left alone by the timer.             *)
TickSkips ==
  /\ proc = "up"
  /\ task["timer"].pc = "idle"
  /\ row.there = "yes" /\ row.enabled /\ row.state # "Maintenance"
  /\ Check("timer", row)
  /\ UNCHANGED <<conn, up, pulled>>

(* The timer has fired, a minute after its last checks ended.              *)
Tick ==
  /\ proc = "up"
  /\ task["timer"].pc = "idle"
  /\ row.there = "yes" /\ row.enabled
  /\ Check("timer", row)
  /\ UNCHANGED <<conn, up, pulled>>

Asked(k) == proc \in {"up", "stopping"} /\ task[k].pc = "idle"

(* POST /api/managed-targets: the row is written, then checked.            *)
Register(k, enabled) ==
  /\ Asked(k)
  /\ row.there # "gone"
  /\ Check(k, [row EXCEPT !.there = "yes", !.enabled = enabled])
  /\ UNCHANGED <<conn, up, pulled>>

(* POST /api/managed-targets/:id/check, the public API, and a workflow.    *)
CheckNow(k) ==
  /\ Asked(k)
  /\ row.there = "yes"
  /\ Check(k, row)
  /\ UNCHANGED <<conn, up, pulled>>

(* PUT /api/managed-targets/:id.                                           *)
Enable(k) ==
  /\ Asked(k)
  /\ row.there = "yes"
  /\ Connect(k, [row EXCEPT !.enabled = TRUE], TRUE)
  /\ UNCHANGED <<conn, up, pulled>>

Disable(k) ==
  /\ Asked(k)
  /\ row.there = "yes"
  /\ Leave(k, [row EXCEPT !.enabled = FALSE, !.state = "Maintenance"], "maintain")
  /\ UNCHANGED <<proc, closing, conn, up, pulled>>

-----------------------------------------------------------------------------
(* Checks go on.                                                           *)

(* The probe was answered: Healthy is written, whatever happened since.    *)
ProbeOk(k) ==
  /\ task[k].pc = "probing"
  /\ Report(k, row, "Healthy", 0, TRUE)
  /\ stained' = (live # task[k].api)
  /\ UNCHANGED <<proc, live, conn, closing, up, late, pulled>>

(* It failed, as it may for many reasons: what is live by now is           *)
(* disconnected, then connected anew.                                      *)
ProbeFails(k) ==
  /\ task[k].pc = "probing"
  /\ Leave(k, row, "reconnect")
  /\ UNCHANGED <<proc, conn, closing, up, pulled>>

(* The logout returned; an error of it is ignored.                         *)
Left(k) ==
  /\ task[k].pc = "leaving"
  /\ conn' = [c \in Conn |-> IF c = task[k].api THEN "closed" ELSE conn[c]]
  /\ CASE task[k].then = "maintain" ->
            /\ Report(k, row, "Maintenance", 0, TRUE)
            /\ stained' = FALSE
            /\ UNCHANGED <<live, late, proc, closing>>
       [] task[k].then = "reconnect" -> Connect(k, row, TRUE)
       [] task[k].then = "admit" ->
            Admit(k, row, task[k].seen) /\ UNCHANGED <<live, proc, closing>>
  /\ UNCHANGED <<up, pulled>>

(* The connection is registered, in place of one registered meanwhile.     *)
LoginOk(k) ==
  /\ task[k].pc = "login"
  /\ up
  /\ conn' = [conn EXCEPT ![task[k].api] = "open"]
  /\ live' = task[k].api
  /\ Report(k, row, "Healthy", 0, TRUE)
  /\ stained' = FALSE
  /\ late' = ~(proc = "up" /\ row.there = "yes" /\ row.enabled)
  /\ UNCHANGED <<proc, closing, up, pulled>>

(* The failures are counted from the row as connect() had read it.         *)
LoginFails(k) ==
  /\ task[k].pc = "login"
  /\ ~up
  /\ LET retry == More(task[k].seen.retry)
     IN Report(k, row, IF retry <= Threshold THEN "Degraded" ELSE "Offline",
               retry, FALSE)
  /\ stained' = FALSE
  /\ conn' = [conn EXCEPT ![task[k].api] = "closed"]
  /\ UNCHANGED <<proc, live, closing, up, late, pulled>>

Proceed(k) ==
  /\ proc # "down"
  /\ ProbeOk(k) \/ ProbeFails(k) \/ Left(k) \/ LoginOk(k) \/ LoginFails(k)

-----------------------------------------------------------------------------
(* The target's connection or credential is edited, or the credential is   *)
(* deleted; the connection is deleted, which takes the row along.          *)
Edit ==
  /\ proc # "down" /\ row.there # "gone"
  /\ row' = [row EXCEPT !.fit = ~@]
  /\ UNCHANGED <<proc, live, conn, task, closing, up, history, pulled>>

Remove ==
  /\ proc # "down" /\ row.there = "yes"
  /\ row' = Absent("gone")
  /\ pulled' = (pulled \/ \E k \in Task : task[k].pc \in {"probing", "leaving"})
  /\ UNCHANGED <<proc, live, conn, task, closing, up, history>>

(* The process is told to stop: SIGTERM or SIGINT.                         *)
Stop ==
  /\ proc = "up"
  /\ Shutdown
  /\ pulled' = TRUE
  /\ UNCHANGED <<row, conn, task, up, history>>

(* stop() is done, and so are the requests the server waits for.  A logout *)
(* that is under way has been sent.                                        *)
Exit ==
  /\ proc = "stopping"
  /\ \A k \in Request : task[k].pc = "idle"
  /\ proc' = "down"
  /\ live' = None /\ closing' = None
  /\ task' = [k \in Task |-> Idle]
  /\ conn' = [c \in Conn |->
       IF c = closing \/ \E k \in Task : task[k].pc = "leaving" /\ task[k].api = c
       THEN "closed" ELSE conn[c]]
  /\ UNCHANGED <<row, up, history, pulled>>

(* The process dies, and leaves its sessions to the target's timeout.      *)
Crash ==
  /\ proc # "down"
  /\ proc' = "down"
  /\ live' = None /\ closing' = None
  /\ conn' = [c \in Conn |-> "closed"]
  /\ task' = [k \in Task |-> Idle]
  /\ UNCHANGED <<row, up, history, pulled>>

(* The target stops or starts taking logins.                               *)
Flip ==
  /\ up' = ~up
  /\ UNCHANGED <<proc, row, live, conn, task, closing, history, pulled>>

Next ==
  \/ Boot \/ Tick
  \/ \E k \in Request :
       \/ CheckNow(k) \/ Enable(k) \/ Disable(k)
       \/ \E enabled \in BOOLEAN : Register(k, enabled)
  \/ \E k \in Task : Proceed(k)
  \/ Edit \/ Remove \/ Stop \/ Exit \/ Crash
  \/ Flip

Spec == Init /\ [][Next]_vars

(* XAPI calls are answered or end with the request timeout, and the timer  *)
(* fires a minute after the checks it made have ended.                     *)
FairSpec == Spec /\ WF_vars(Tick) /\ \A k \in Task : WF_vars(Proceed(k))

-----------------------------------------------------------------------------
(* Properties.                                                             *)

(* Types of the variables.                                                 *)
TypeOK ==
  /\ proc \in {"down", "up", "stopping"}
  /\ row \in Row
  /\ live \in Conn \union {None} /\ closing \in Conn \union {None}
  /\ conn \in [Conn -> {"closed", "open"}]
  /\ task \in [Task -> Doing]
  /\ up \in BOOLEAN /\ crossed \in BOOLEAN /\ late \in BOOLEAN
  /\ stained \in BOOLEAN /\ pulled \in BOOLEAN /\ fails \in Count

(* What requests are served with has a session that the server has neither *)
(* ended nor is ending: disconnect() takes it from the map before it waits.*)
ServedOpen ==
  live # None =>
    /\ conn[live] # "closed" /\ closing # live
    /\ \A k \in Task : task[k].api = live => task[k].pc = "probing"

(* A target that is disabled has no connection, unless a login begun       *)
(* before it was disabled came back after: nothing removes that one.       *)
DisabledLeft ==
  row.there = "yes" /\ ~row.enabled /\ live # None => late

(* An enabled target is reported Healthy without a connection only while   *)
(* one is being made, or when a probe was answered after its connection    *)
(* had been dropped.                                                       *)
HealthyIsLive ==
  proc = "up" /\ row.there = "yes" /\ row.enabled /\ row.state = "Healthy" /\ live = None
  => stained \/ \E k \in Task : task[k].pc \in {"leaving", "login"}

(* The errors of a login leave a target Degraded at first: it is given one *)
(* of the hard failure states for them only after more failures in a row   *)
(* than DEGRADED_RETRY_THRESHOLD, unless checks crossed.  A target that    *)
(* canUseTarget() refuses is not Degraded first (Refused).                 *)
DegradedFirst ==
  row.there = "yes" /\ row.state = "Offline" /\ row.retry > 0 /\ ~crossed
  => fails > Threshold

(* Every session is ended by the server or is still in somebody's hands,   *)
(* unless checks crossed; when the process has stopped, also unless it was *)
(* connecting at the time.                                                 *)
NothingLeaked ==
  \A c \in Spare : conn[c] # "closed" => crossed \/ (proc = "down" /\ late)

(* The process does not stop by itself, unless a target is removed while   *)
(* it is being checked.                                                    *)
StopsAsked ==
  proc = "stopping" => pulled

(* A target that can be reached and stays enabled is Healthy and has a     *)
(* working connection again and again, whatever happened before.           *)
MonitorRecovers ==
  <>[](/\ proc = "up" /\ up
       /\ row.there = "yes" /\ row.enabled /\ row.fit)
  => []<>(row.state = "Healthy" /\ live # None)
=============================================================================
