------------------------- MODULE RemediationTickets -------------------------
(***************************************************************************)
(* Operator-worked remediation tickets (server/services/remediation-tasks  *)
(* .js), which are stored as workflow rows, share the queue with the jobs  *)
(* of WorkflowEngine, and are deleted by server/services/retention.js.     *)
(*                                                                         *)
(* A ticket is a row of type remediation.task: the engine status the       *)
(* queue acts on, and a result that holds the ticket as it was last saved. *)
(* What the operator sees is the result, or the input when it is empty.    *)
(* The registered handler does nothing and returns an empty result, so an  *)
(* execution of a ticket settles in the microtasks after the poll, before  *)
(* any request: one action.  (A crash in between leaves a running row with *)
(* its result intact, as Restart finds an in_progress one.)                *)
(***************************************************************************)
EXTENDS Naturals, FiniteSets

CONSTANTS
  Ticket,       \* ticket ids
  Scope,        \* recurrence windows of templates of mode "once"
  NoScope,      \* no template, or a template of mode "manual"
  ListLimit,    \* the LIMIT of list() (500 in the code)
  EditBound,    \* bound: operator updates per ticket
  RestartBound  \* bound: restarts of the process

VARIABLES
  row,      \* the workflows table, restricted to tickets
  saved,    \* history: the ticket as an operator last saved it
  hit,      \* history: tickets a restart requeued since they were saved
  reopened, \* history: tickets closed without success and then reopened
  restarts  \* history: restarts so far

vars == <<row, saved, hit, reopened, restarts>>

Closed    == {"success", "warning", "failure", "cancelled"}
Open      == {"pending", "queued", "in_progress"}
Blocking  == {"pending", "queued", "in_progress", "success", "warning"}
Engine    == {"absent", "pending", "retrying", "running", "completed",
              "failed", "cancelled", "purged"}
Purgeable == {"completed", "failed", "cancelled"}

(* A ticket's content: its status, and which of its successive edits.      *)
Content == [status : Open \union Closed, edits : Nat]
NewTask == [status |-> "pending", edits |-> 0]
Empty   == [status |-> "none", edits |-> 0]

(* old: finished_at is before the retention cutoff.  born: created_at.     *)
RowType == [engine : Engine, result : Content \union {Empty}, old : BOOLEAN,
            scope : Scope \union {NoScope}, born : Nat]

ASSUME TicketAssumption == IsFiniteSet(Ticket)
ASSUME LimitAssumption == ListLimit \in Nat \ {0} /\ EditBound \in Nat /\ RestartBound \in Nat

Exists(t) == row[t].engine \notin {"absent", "purged"}
View(t)   == IF row[t].result = Empty THEN NewTask ELSE row[t].result

(* Mutant: a warning stays open.                                           *)
EngineStatusOpenWarning(status) ==
  CASE status = "in_progress" -> "running"
    [] status = "success"     -> "completed"
    [] status = "failure"     -> "failed"
    [] status = "cancelled"   -> "cancelled"
    [] OTHER                  -> "pending"

EngineStatusFor(status) ==
  CASE status = "in_progress"           -> "running"
    [] status \in {"success", "warning"} -> "completed"
    [] status = "failure"               -> "failed"
    [] status = "cancelled"             -> "cancelled"
    [] OTHER                            -> "pending"

Listed ==
  {t \in Ticket : Exists(t) /\ Cardinality({u \in Ticket : Exists(u) /\ row[u].born > row[t].born})
                                 < ListLimit}

(* Mutant: finished tickets do not block their recurrence.                 *)
RecurrenceOpenConflict(scope) ==
  /\ scope # NoScope
  /\ \E t \in Listed : row[t].scope = scope /\ View(t).status \in Open

(* findRecurringConflict() for a template of mode "once".                  *)
RecurrenceConflict(scope) ==
  /\ scope # NoScope
  /\ \E t \in Listed : row[t].scope = scope /\ View(t).status \in Blocking

-----------------------------------------------------------------------------
Init ==
  /\ row = [t \in Ticket |-> [engine |-> "absent", result |-> Empty, old |-> FALSE,
                              scope |-> NoScope, born |-> 0]]
  /\ saved = [t \in Ticket |-> NewTask]
  /\ hit = {} /\ reopened = {}
  /\ restarts = 0

(* POST /api/tasks/remediation: create() and setState() of the engine.     *)
Create(t, scope) ==
  /\ row[t].engine = "absent"
  /\ ~RecurrenceConflict(scope)
  /\ row' = [row EXCEPT ![t] =
       [engine |-> "pending", result |-> NewTask, old |-> FALSE, scope |-> scope,
        born |-> Cardinality({u \in Ticket : row[u].engine # "absent"})]]
  /\ UNCHANGED <<saved, hit, reopened, restarts>>

(* PUT /api/tasks/remediation/:ref: any status may follow any other.  The  *)
(* edit is merged into the ticket as it is shown at this moment.           *)
Update(t, status) ==
  LET next == [status |-> status, edits |-> View(t).edits + 1] IN
  /\ Exists(t)
  /\ View(t).edits < EditBound
  /\ row' = [row EXCEPT ![t].engine = EngineStatusFor(status), ![t].result = next,
                        ![t].old = IF status \in Closed THEN FALSE ELSE @]
  /\ saved' = [saved EXCEPT ![t] = next]
  /\ hit' = hit \ {t}
  /\ reopened' = (IF View(t).status \notin Blocking /\ status \in Blocking
                   THEN reopened \union {t} ELSE reopened)
  /\ UNCHANGED restarts

(* processDue() or POST /api/workflows/:id/approve executes a due ticket:  *)
(* it is completed with the empty result of its handler.                   *)
Execute(t) ==
  /\ row[t].engine \in {"pending", "retrying"}
  /\ row' = [row EXCEPT ![t].engine = "completed", ![t].result = Empty, ![t].old = FALSE]
  /\ UNCHANGED <<saved, hit, reopened, restarts>>

(* POST /api/workflows/:id/cancel knows nothing of tickets.                *)
CancelWorkflow(t) ==
  /\ row[t].engine \in {"pending", "retrying", "running"}
  /\ row' = [row EXCEPT ![t].engine = "cancelled", ![t].old = FALSE]
  /\ UNCHANGED <<saved, hit, reopened, restarts>>

(* start() of the engine in the next process.                              *)
Restart ==
  LET running == {t \in Ticket : row[t].engine = "running"} IN
  /\ restarts < RestartBound
  /\ restarts' = restarts + 1
  /\ row' = [t \in Ticket |-> IF t \in running THEN [row[t] EXCEPT !.engine = "retrying"]
                                               ELSE row[t]]
  /\ hit' = hit \union running
  /\ UNCHANGED <<saved, reopened>>

(* The retention period of a finished row passes.                          *)
Age(t) ==
  /\ row[t].engine \in Purgeable /\ ~row[t].old
  /\ row' = [row EXCEPT ![t].old = TRUE]
  /\ UNCHANGED <<saved, hit, reopened, restarts>>

(* Mutant: the sweep looks at finished_at only, which an update that       *)
(* reopens a ticket does not clear.                                        *)
SweepByAge ==
  LET expired == {t \in Ticket : Exists(t) /\ row[t].old} IN
  /\ expired # {}
  /\ row' = [t \in Ticket |-> IF t \in expired THEN [row[t] EXCEPT !.engine = "purged"]
                                               ELSE row[t]]
  /\ UNCHANGED <<saved, hit, reopened, restarts>>

(* The remediation-tasks domain of a retention sweep, one transaction.     *)
Sweep ==
  LET expired == {t \in Ticket : row[t].engine \in Purgeable /\ row[t].old} IN
  /\ expired # {}
  /\ row' = [t \in Ticket |-> IF t \in expired THEN [row[t] EXCEPT !.engine = "purged"]
                                               ELSE row[t]]
  /\ UNCHANGED <<saved, hit, reopened, restarts>>

Next ==
  \/ \E t \in Ticket :
       \/ \E scope \in Scope \union {NoScope} : Create(t, scope)
       \/ \E status \in Open \union Closed : Update(t, status)
       \/ Execute(t) \/ CancelWorkflow(t) \/ Age(t)
  \/ Restart
  \/ Sweep

Spec == Init /\ [][Next]_vars

-----------------------------------------------------------------------------
(* Types of the variables.                                                 *)
TypeOK ==
  /\ row \in [Ticket -> RowType]
  /\ saved \in [Ticket -> Content]
  /\ hit \subseteq Ticket /\ reopened \subseteq Ticket
  /\ restarts \in Nat

(* The queue never touches a ticket an operator has closed, nor one in     *)
(* progress that no restart requeued: it is shown as it was last saved.    *)
WorkShown ==
  \A t \in Ticket :
    /\ Exists(t)
    /\ saved[t].status \in Closed \/ (saved[t].status = "in_progress" /\ t \notin hit)
    => View(t) = saved[t]

(* Retention never deletes a ticket that is shown in progress, unless its  *)
(* row was cancelled through the workflow API.                             *)
OpenWorkKept ==
  [][\A t \in Ticket :
       /\ Exists(t) /\ row'[t].engine = "purged"
       /\ View(t).status = "in_progress"
       => row[t].engine = "cancelled"]_vars

(* A "once" template leaves one blocking ticket per window, as long as no  *)
(* more tickets were made than list() returns, deleted ones included: of   *)
(* two such tickets one was closed without success and reopened; the queue *)
(* never brings a closed one back.                                         *)
OncePerScope ==
  Cardinality({t \in Ticket : row[t].engine # "absent"}) <= ListLimit =>
    \A t, u \in Ticket :
      /\ t # u /\ Exists(t) /\ Exists(u)
      /\ row[t].scope = row[u].scope /\ row[t].scope # NoScope
      /\ View(t).status \in Blocking /\ View(u).status \in Blocking
      => t \in reopened \/ u \in reopened

=============================================================================
