-------------------------- MODULE RetentionProofs --------------------------
(***************************************************************************)
(* Proofs about the two stores that retention deletes from while others    *)
(* write them: the tickets of RemediationTickets, and the samples and      *)
(* roll-ups of MetricsHistory; for any tickets, requests, measurements,    *)
(* retention periods and bounds.                                           *)
(*                                                                         *)
(* Tickets.  WorkShown is not inductive: it says what is shown, and the    *)
(* step that could break it is the queue's.  WorkInv adds where such a     *)
(* ticket stands in the queue, which is what keeps the queue away from it. *)
(*                                                                         *)
(* Metrics.  Effects says what any step may do to the captures, the cursor *)
(* and the tables; each invariant is then kept by the few cases of it.     *)
(* ClockInv bounds the age of a capture, OfferInv says why the cursor      *)
(* leaves no gap, and ViewsInv why the sums of the two tables stay equal.  *)
(***************************************************************************)
EXTENDS RemediationTickets, MetricsHistory, FiniteSetTheorems, WellFoundedInduction, TLAPS

(* Closed work is terminal for the queue, work in progress that no restart *)
(* requeued is running (or was cancelled), and both keep their result;     *)
(* what is shown in progress has no outcome of its own.                    *)
WorkInv ==
  \A t \in Ticket :
    /\ row[t].engine = "absent" => saved[t] = NewTask
    /\ Exists(t) /\ saved[t].status \in Closed
         => row[t].engine \in Purgeable /\ row[t].result = saved[t]
    /\ Exists(t) /\ saved[t].status = "in_progress" /\ t \notin hit
         => row[t].engine \in {"running", "cancelled"} /\ row[t].result = saved[t]
    /\ row[t].result.status = "in_progress"
         => row[t].engine \in {"running", "retrying", "cancelled", "purged"}

(* Every engine status written for a ticket is one of the engine's.        *)
LEMMA EngineStatusTyped ==
  ASSUME NEW status \in Open \union Closed
  PROVE  /\ EngineStatusFor(status) \in Engine \ {"absent", "purged"}
         /\ status \in Closed => EngineStatusFor(status) \in Purgeable
         /\ status = "in_progress" => EngineStatusFor(status) = "running"
  BY DEF EngineStatusFor, Open, Closed, Engine, Purgeable

(* A ticket as it is shown has a content's type.                           *)
LEMMA ViewTyped ==
  ASSUME TypeOK, NEW t \in Ticket
  PROVE  View(t) \in Content
  BY DEF TypeOK, RowType, View, Content, NewTask, Open, Closed

(* One step keeps the types.                                               *)
LEMMA TypedStep == TypeOK /\ [Next]_vars => TypeOK'
<1> SUFFICES ASSUME TypeOK, [Next]_vars PROVE TypeOK'
  OBVIOUS
<1>1. ASSUME NEW t \in Ticket, NEW scope \in Scope \union {NoScope}, Create(t, scope)
      PROVE  TypeOK'
  <2> DEFINE n == Cardinality({u \in Ticket : row[u].engine # "absent"})
  <2>1. IsFiniteSet({u \in Ticket : row[u].engine # "absent"})
    BY TicketAssumption, FS_Subset
  <2>2. n \in Nat
    BY <2>1, FS_CardinalityType
  <2>3. row' \in [Ticket -> RowType]
    BY <1>1, <2>2 DEF Create, TypeOK, RowType, Engine, NewTask, Content, Open
  <2> QED
    BY <1>1, <2>3 DEF Create, TypeOK
<1>2. ASSUME NEW t \in Ticket, NEW status \in Open \union Closed, Update(t, status)
      PROVE  TypeOK'
  <2> DEFINE next == [status |-> status, edits |-> View(t).edits + 1]
  <2>1. next \in Content
    BY ViewTyped DEF Content
  <2>2. row' \in [Ticket -> RowType]
    <3>1. EngineStatusFor(status) \in Engine
      BY EngineStatusTyped
    <3>2. ASSUME NEW u \in Ticket PROVE row'[u] \in RowType
      BY <1>2, <2>1, <3>1 DEF Update, TypeOK, RowType
    <3>3. row' = [u \in Ticket |-> row'[u]]
      BY <1>2 DEF Update, TypeOK
    <3> QED
      BY <3>2, <3>3
  <2>3. saved' \in [Ticket -> Content]
    BY <1>2, <2>1 DEF Update, TypeOK
  <2> QED
    BY <1>2, <2>2, <2>3 DEF Update, TypeOK
<1>3. ASSUME NEW t \in Ticket, Execute(t) \/ CancelWorkflow(t) \/ Age(t) PROVE TypeOK'
  <2>1. row' \in [Ticket -> RowType]
    <3>1. ASSUME NEW u \in Ticket PROVE row'[u] \in RowType
      <4>1. CASE Execute(t)
        <5>1. row'[u] = IF u = t THEN [row[t] EXCEPT !.engine = "completed", !.result = Empty,
                                                     !.old = FALSE] ELSE row[u]
          BY <4>1 DEF Execute, TypeOK
        <5> QED
          BY <5>1 DEF TypeOK, RowType, Engine
      <4>2. CASE CancelWorkflow(t)
        BY <4>2 DEF CancelWorkflow, TypeOK, RowType, Engine
      <4>3. CASE Age(t)
        BY <4>3 DEF Age, TypeOK, RowType
      <4> QED
        BY <1>3, <4>1, <4>2, <4>3
    <3>2. row' = [u \in Ticket |-> row'[u]]
      BY <1>3 DEF Execute, CancelWorkflow, Age, TypeOK
    <3> QED
      BY <3>1, <3>2
  <2> QED
    BY <1>3, <2>1 DEF Execute, CancelWorkflow, Age, TypeOK
<1>4. CASE Restart
  <2>1. row' \in [Ticket -> RowType]
    BY <1>4 DEF Restart, TypeOK, RowType, Engine
  <2> QED
    BY <1>4, <2>1 DEF Restart, TypeOK
<1>5. CASE Sweep
  <2>1. row' \in [Ticket -> RowType]
    BY <1>5 DEF Sweep, TypeOK, RowType, Engine
  <2> QED
    BY <1>5, <2>1 DEF Sweep, TypeOK
<1>6. CASE UNCHANGED vars
  BY <1>6 DEF TypeOK, vars
<1> QED
  BY <1>1, <1>2, <1>3, <1>4, <1>5, <1>6 DEF Next

(* The rows, the history and the restart counter always have their types.  *)
THEOREM TicketsTyped == Spec => []TypeOK
<1>1. Init => TypeOK
  BY DEF Init, TypeOK, RowType, Engine, Content, NewTask, Open
<1> QED
  BY <1>1, TypedStep, PTL DEF Spec

(* One step keeps WorkInv.                                                 *)
LEMMA WorkStep == TypeOK /\ WorkInv /\ [Next]_vars => WorkInv'
<1> SUFFICES ASSUME TypeOK, WorkInv, [Next]_vars PROVE WorkInv'
  OBVIOUS
<1> USE DEF Exists, Purgeable
<1>1. ASSUME NEW t \in Ticket, NEW scope \in Scope \union {NoScope}, Create(t, scope)
      PROVE  WorkInv'
  BY <1>1 DEF Create, WorkInv, TypeOK, RowType, NewTask, Closed
<1>2. ASSUME NEW t \in Ticket, NEW status \in Open \union Closed, Update(t, status)
      PROVE  WorkInv'
  <2> DEFINE next == [status |-> status, edits |-> View(t).edits + 1]
  <2>1. /\ row'[t].engine = EngineStatusFor(status)
        /\ row'[t].result = next /\ saved'[t] = next
    BY <1>2 DEF Update, TypeOK, RowType
  <2>2. \A u \in Ticket \ {t} : row'[u] = row[u] /\ saved'[u] = saved[u]
    BY <1>2 DEF Update, TypeOK
  <2>3. hit' = hit \ {t}
    BY <1>2 DEF Update
  <2>4. EngineStatusFor(status) # "absent"
    BY EngineStatusTyped
  <2> QED
    BY <2>1, <2>2, <2>3, <2>4, EngineStatusTyped DEF WorkInv
<1>3. ASSUME NEW t \in Ticket, Execute(t) PROVE WorkInv'
  BY <1>3 DEF Execute, WorkInv, TypeOK, RowType, Empty
<1>4. ASSUME NEW t \in Ticket, CancelWorkflow(t) PROVE WorkInv'
  BY <1>4 DEF CancelWorkflow, WorkInv, TypeOK, RowType
<1>5. ASSUME NEW t \in Ticket, Age(t) PROVE WorkInv'
  BY <1>5 DEF Age, WorkInv, TypeOK, RowType
<1>6. CASE Restart
  BY <1>6 DEF Restart, WorkInv, TypeOK, RowType
<1>7. CASE Sweep
  BY <1>7 DEF Sweep, WorkInv, TypeOK, RowType
<1>8. CASE UNCHANGED vars
  BY <1>8 DEF WorkInv, vars
<1> QED
  BY <1>1, <1>2, <1>3, <1>4, <1>5, <1>6, <1>7, <1>8 DEF Next

(* WorkInv holds when the tables are empty.                                *)
LEMMA WorkInit == Init => WorkInv
  BY DEF Init, WorkInv, Exists, NewTask, Empty

(* The queue and retention leave closed tickets, and tickets in progress   *)
(* that no restart requeued, as their operator saved them.                 *)
THEOREM WorkIsShown == Spec => []WorkShown
<1>1. TypeOK /\ WorkInv => WorkShown
  <2> SUFFICES ASSUME TypeOK, WorkInv, NEW t \in Ticket, Exists(t),
                      saved[t].status \in Closed
                        \/ (saved[t].status = "in_progress" /\ t \notin hit)
               PROVE  View(t) = saved[t]
    BY DEF WorkShown
  <2>1. row[t].result = saved[t]
    BY DEF WorkInv
  <2>2. saved[t].status # "none"
    BY DEF TypeOK, Content, Open, Closed
  <2> QED
    BY <2>1, <2>2 DEF View, Empty
<1> QED
  BY <1>1, WorkInit, TicketsTyped, WorkStep, PTL DEF Spec

(* Retention deletes a ticket shown in progress only if the workflow API   *)
(* cancelled it.                                                           *)
THEOREM WorkIsKept == Spec => OpenWorkKept
<1> DEFINE Kept == \A t \in Ticket :
                     /\ Exists(t) /\ row'[t].engine = "purged"
                     /\ View(t).status = "in_progress"
                     => row[t].engine = "cancelled"
<1>1. TypeOK /\ WorkInv /\ [Next]_vars => Kept
  <2> SUFFICES ASSUME TypeOK, WorkInv, [Next]_vars, NEW t \in Ticket,
                      Exists(t), row'[t].engine = "purged", View(t).status = "in_progress"
               PROVE  row[t].engine = "cancelled"
    OBVIOUS
  <2>1. row[t].engine \in {"running", "retrying", "cancelled", "purged"}
    BY DEF WorkInv, View, NewTask
  <2>2. row[t].engine # "purged"
    BY DEF Exists
  <2>3. Sweep
    <3>1. ASSUME NEW u \in Ticket, NEW scope \in Scope \union {NoScope}, Create(u, scope)
          PROVE  FALSE
      BY <3>1, <2>2 DEF Create, TypeOK, RowType
    <3>2. ASSUME NEW u \in Ticket, NEW status \in Open \union Closed, Update(u, status)
          PROVE  FALSE
      <4>1. u = t => row'[t].engine = EngineStatusFor(status)
        BY <3>2 DEF Update, TypeOK, RowType
      <4>2. u # t => row'[t] = row[t]
        BY <3>2 DEF Update, TypeOK
      <4> QED
        BY <4>1, <4>2, <2>2, EngineStatusTyped
    <3>3. ASSUME NEW u \in Ticket, Execute(u) \/ CancelWorkflow(u) \/ Age(u) PROVE FALSE
      BY <3>3, <2>2 DEF Execute, CancelWorkflow, Age, TypeOK, RowType
    <3>4. ~Restart
      BY <2>2 DEF Restart, TypeOK, RowType
    <3>5. ~(UNCHANGED vars)
      BY <2>2 DEF vars
    <3> QED
      BY <3>1, <3>2, <3>3, <3>4, <3>5 DEF Next
  <2>4. row[t].engine \in Purgeable
    BY <2>2, <2>3 DEF Sweep, TypeOK, RowType
  <2> QED
    BY <2>1, <2>4 DEF Purgeable
<1>2. Spec => []WorkInv
  BY WorkInit, TicketsTyped, WorkStep, PTL DEF Spec
<1>3. Spec => [][Kept]_vars
  BY <1>1, <1>2, TicketsTyped, PTL DEF Spec
<1> QED
  BY <1>3, Zenon DEF OpenWorkKept

-----------------------------------------------------------------------------
(* One blocking ticket per window.  What keeps it besides the check of     *)
(* Create is that the queue has no ticket shown closed without success:    *)
(* executing one would show it as pending again.                           *)
Made == {t \in Ticket : row[t].engine # "absent"}

Blocks(t) == Exists(t) /\ View(t).status \in Blocking

OnceInv ==
  /\ \A t \in Ticket : row[t].result.status \in {"failure", "cancelled"}
                        => row[t].engine \in Purgeable \union {"purged"}
  /\ OncePerScope

(* As long as no more were made than it returns, list() returns all.       *)
LEMMA AllListed ==
  ASSUME TypeOK, NEW t \in Ticket, Exists(t), Cardinality(Made) <= ListLimit
  PROVE  t \in Listed
<1> DEFINE later == {u \in Ticket : Exists(u) /\ row[u].born > row[t].born}
<1>1. IsFiniteSet(Made) /\ t \in Made
  BY TicketAssumption, FS_Subset DEF Made, Exists
<1>2. IsFiniteSet(Made \ {t}) /\ Cardinality(Made \ {t}) = Cardinality(Made) - 1
      /\ Cardinality(Made) \in Nat
  BY <1>1, FS_RemoveElement, FS_CardinalityType
<1>3. later \subseteq Made \ {t}
  <2>1. row[t].born \in Nat
    BY DEF TypeOK, RowType
  <2> QED BY <2>1 DEF Made, Exists
<1>4. Cardinality(later) <= Cardinality(Made \ {t}) /\ Cardinality(later) \in Nat
  BY <1>2, <1>3, FS_Subset, FS_CardinalityType
<1>5. Cardinality(later) < ListLimit
  BY <1>2, <1>4, LimitAssumption
<1> QED BY <1>5 DEF Listed

(* Every step keeps OnceInv.                                               *)
LEMMA OnceStep == TypeOK /\ OnceInv /\ [Next]_vars => OnceInv'
<1> SUFFICES ASSUME TypeOK, OnceInv, [Next]_vars PROVE OnceInv'
  OBVIOUS
<1>0. row \in [Ticket -> RowType]
  BY DEF TypeOK
(* A step that makes no ticket, and lets none block that did not, except   *)
(* by reopening it, keeps tickets apart.                                   *)
<1>a. ASSUME Made' = Made, reopened \subseteq reopened',
             \A t \in Ticket : row'[t].scope = row[t].scope
                              /\ (Blocks(t)' => Blocks(t) \/ t \in reopened')
      PROVE  OncePerScope'
  BY <1>a DEF OnceInv, OncePerScope, Made, Blocks
<1>1. ASSUME NEW t \in Ticket, NEW scope \in Scope \union {NoScope}, Create(t, scope)
      PROVE  OnceInv'
  <2>1. /\ row'[t].engine = "pending" /\ row'[t].result = NewTask /\ row'[t].scope = scope
        /\ \A u \in Ticket \ {t} : row'[u] = row[u]
        /\ row[t].engine = "absent" /\ reopened' = reopened
    BY <1>1, <1>0 DEF Create
  <2>2. ASSUME Cardinality(Made') <= ListLimit PROVE Cardinality(Made) <= ListLimit
    <3>1. Made \subseteq Made' /\ IsFiniteSet(Made')
      BY <2>1, TicketAssumption, FS_Subset DEF Made
    <3>2. Cardinality(Made) <= Cardinality(Made')
      BY <3>1, FS_Subset
    <3>3. Cardinality(Made) \in Nat /\ Cardinality(Made') \in Nat
      BY <3>1, FS_Subset, FS_CardinalityType
    <3> QED BY <2>2, <3>2, <3>3, LimitAssumption
  <2>3. ASSUME Cardinality(Made') <= ListLimit, scope # NoScope,
               NEW u \in Ticket \ {t}, Blocks(u), row[u].scope = scope
        PROVE  FALSE
    BY <1>1, <2>2, <2>3, AllListed DEF Create, RecurrenceConflict, Blocks
  <2>4. \A u \in Ticket \ {t} : Blocks(u)' <=> Blocks(u)
    BY <2>1 DEF Blocks, Exists, View
  <2>5. ASSUME Cardinality(Made') <= ListLimit, NEW u \in Ticket, NEW v \in Ticket, u # v,
               Blocks(u)', Blocks(v)', row'[u].scope = row'[v].scope, row'[u].scope # NoScope
        PROVE  u \in reopened' \/ v \in reopened'
    <3>1. CASE u # t /\ v # t
      BY <2>1, <2>2, <2>4, <2>5, <3>1 DEF OnceInv, OncePerScope, Made, Blocks
    <3>2. CASE u = t \/ v = t
      BY <2>1, <2>3, <2>4, <2>5, <3>2
    <3> QED BY <3>1, <3>2
  <2>6. OncePerScope'
    BY <2>5 DEF OncePerScope, Made, Blocks
  <2>7. \A u \in Ticket : row'[u].result.status \in {"failure", "cancelled"}
                          => row'[u].engine \in Purgeable \union {"purged"}
    BY <2>1 DEF OnceInv, NewTask
  <2> QED BY <2>6, <2>7 DEF OnceInv
<1>2. ASSUME NEW t \in Ticket, NEW status \in Open \union Closed, Update(t, status)
      PROVE  OnceInv'
  <2>1. /\ row'[t].engine = EngineStatusFor(status) /\ row'[t].scope = row[t].scope
        /\ row'[t].result.status = status /\ Exists(t)
        /\ \A u \in Ticket \ {t} : row'[u] = row[u]
        /\ reopened \subseteq reopened'
    BY <1>2, <1>0 DEF Update, RowType
  <2>2. row'[t].engine \notin {"absent", "purged"}
    BY <2>1, EngineStatusTyped
  <2>3. View(t)'.status = status
    BY <2>1 DEF View, Empty, Open, Closed
  <2>4. Made' = Made
    BY <2>1, <2>2 DEF Made, Exists
  <2>5. Blocks(t)' => Blocks(t) \/ t \in reopened'
    BY <1>2, <2>1, <2>3 DEF Update, Blocks
  <2>6. \A u \in Ticket \ {t} : Blocks(u)' <=> Blocks(u)
    BY <2>1 DEF Blocks, Exists, View
  <2>7. OncePerScope'
    BY <1>a, <2>1, <2>4, <2>5, <2>6
  <2>8. status \in {"failure", "cancelled"} => row'[t].engine \in Purgeable
    BY <2>1, EngineStatusTyped DEF Closed
  <2> QED BY <2>1, <2>7, <2>8 DEF OnceInv
<1>3. ASSUME NEW t \in Ticket, Execute(t) PROVE OnceInv'
  <2>1. /\ row[t].engine \in {"pending", "retrying"} /\ row'[t].engine = "completed"
        /\ row'[t].result = Empty /\ row'[t].scope = row[t].scope
        /\ \A u \in Ticket \ {t} : row'[u] = row[u]
        /\ reopened' = reopened
    BY <1>3, <1>0 DEF Execute, RowType
  <2>2. row[t].result \in Content \union {Empty}
    BY <1>0 DEF RowType
  <2>3. Blocks(t)
    BY <2>1, <2>2 DEF OnceInv, Blocks, Exists, View, Content, Open, Closed, Blocking, NewTask,
       Purgeable
  <2>4. Made' = Made
    BY <2>1 DEF Made
  <2>5. \A u \in Ticket \ {t} : Blocks(u)' <=> Blocks(u)
    BY <2>1 DEF Blocks, Exists, View
  <2>6. OncePerScope'
    BY <1>a, <2>1, <2>3, <2>4, <2>5
  <2> QED BY <2>1, <2>6 DEF OnceInv, Empty
(* The other steps change engine statuses only.                            *)
<1>4. ASSUME reopened' = reopened,
             \A t \in Ticket : /\ row'[t].result = row[t].result /\ row'[t].scope = row[t].scope
                               /\ row[t].engine = "absent" <=> row'[t].engine = "absent"
                               /\ row[t].engine = "purged" => row'[t].engine = "purged"
                               /\ row[t].engine \in Purgeable =>
                                    row'[t].engine \in Purgeable \union {"purged"}
      PROVE  OnceInv'
  <2>1. Made' = Made
    BY <1>4 DEF Made
  <2>2. \A t \in Ticket : Blocks(t)' => Blocks(t)
    BY <1>4 DEF Blocks, Exists, View
  <2>3. OncePerScope'
    BY <1>a, <1>4, <2>1, <2>2
  <2> QED BY <1>4, <2>3 DEF OnceInv
<1>5. ASSUME NEW t \in Ticket, CancelWorkflow(t) \/ Age(t) PROVE OnceInv'
  BY <1>4, <1>5, <1>0 DEF CancelWorkflow, Age, RowType, Purgeable
<1>6. CASE Restart
  BY <1>4, <1>6, <1>0 DEF Restart, RowType, Purgeable
<1>7. CASE Sweep
  BY <1>4, <1>7, <1>0 DEF Sweep, RowType, Purgeable
<1>8. CASE UNCHANGED vars
  BY <1>4, <1>8 DEF vars
<1> QED BY <1>1, <1>2, <1>3, <1>5, <1>6, <1>7, <1>8 DEF Next

(* A template of mode "once" leaves one blocking ticket in a window, for   *)
(* any tickets and any limit of list() not yet reached.                    *)
THEOREM OncePerWindow == Spec => []OncePerScope
<1>1. Init => OnceInv
  BY DEF Init, OnceInv, OncePerScope, Exists, Empty
<1>2. OnceInv => OncePerScope
  BY DEF OnceInv
<1> QED BY <1>1, <1>2, OnceStep, TicketsTyped, PTL DEF Spec

-----------------------------------------------------------------------------
(* What a step does to a capture: nothing, ends it, or takes it past one   *)
(* await, or on to the next target of its pass.                            *)
Moves(t) ==
  \/ task'[t] \in {task[t], Idle}
  \/ /\ clock' = clock
     /\ \/ \E left \in 0..LiveBound : task'[t] = Started(left, cursor')
        \/ /\ task[t].at = "inventory"
           /\ task'[t] = [task[t] EXCEPT !.at = "rrd"]
        \/ /\ task[t].at = "rrd"
           /\ \E latest \in {0, clock} :
                /\ latest # 0 => task[t].from <= clock
                /\ task'[t] = [task[t] EXCEPT !.at = "metrics", !.latest = latest]

(* What a step does to the cursor.                                         *)
Follows(t) ==
  /\ task[t].at = "metrics" /\ task[t].latest > 0 /\ clock' = clock
  /\ cursor' = task[t].latest
  /\ offered' = offered \union (task[t].from..task[t].latest)

(* What a step does to the tables.                                         *)
Stores ==
  /\ clock' = clock
  /\ \E t \in Task, v \in Value : task[t].at = "metrics" /\ Insert(t, v)

Deletes ==
  \E table \in Table, keep \in Keep : Purge(table, keep)

Passes ==
  /\ clock' = clock + 1 /\ clock < Stale + MaxTime
  /\ \A t \in Capturing : clock < task[t].now + Patience
  /\ UNCHANGED task

Effects ==
  /\ task' \in [Task -> TaskType] /\ \A t \in Task : Moves(t)
  /\ UNCHANGED <<cursor, offered>> \/ \E t \in Task : Follows(t)
  /\ UNCHANGED <<raw, rollup, stored, swept>> \/ Stores \/ Deletes
  /\ UNCHANGED clock \/ Passes
  /\ Deletes => UNCHANGED <<clock, stored>>

(* A capture that begins is one.                                           *)
LEMMA StartedTyped ==
  ASSUME MetricsTypeOK, NEW left \in 0..LiveBound, NEW at \in Nat
  PROVE  Started(left, at) \in TaskType
  BY TimeAssumption DEF MetricsTypeOK, Started, TaskType, Time

(* The end of a capture, of a request or in a pass.                        *)
LEMMA EndMoves ==
  ASSUME MetricsTypeOK, NEW t \in Task, NEW ok \in BOOLEAN, Ends(t, ok),
         cursor' \in Nat, clock' = clock
  PROVE  task' \in [Task -> TaskType] /\ \A u \in Task : Moves(u)
<1>1. CASE t \in Pass /\ task[t].left > 0
  <2> DEFINE left == task[t].left - 1
  <2>1. left \in 0..LiveBound
    BY <1>1, TimeAssumption DEF MetricsTypeOK, TaskType
  <2>2. Started(left, cursor') \in TaskType
    BY <2>1, StartedTyped
  <2>3. task' = [task EXCEPT ![t] = Started(left, cursor')]
    BY <1>1 DEF Ends
  <2> HIDE DEF left
  <2> QED BY <2>1, <2>2, <2>3 DEF MetricsTypeOK, Moves
<1>2. CASE ~(t \in Pass /\ task[t].left > 0)
  <2>1. task' = [task EXCEPT ![t] = Idle]
    BY <1>2 DEF Ends
  <2>2. Idle \in TaskType
    BY TimeAssumption DEF Idle, TaskType
  <2> QED BY <2>1, <2>2 DEF MetricsTypeOK, Moves
<1> QED BY <1>1, <1>2

(* Every step has only these effects.                                      *)
LEMMA StepEffects == MetricsTypeOK /\ [MetricsNext]_metricsVars => Effects
<1> SUFFICES ASSUME MetricsTypeOK, [MetricsNext]_metricsVars PROVE Effects
  OBVIOUS
<1> USE DEF store, collector
<1>n. cursor \in Nat /\ clock \in Nat /\ task \in [Task -> TaskType]
  BY TimeAssumption DEF MetricsTypeOK, Time
<1>i. Idle \in TaskType
  BY TimeAssumption DEF Idle, TaskType
<1>u. ASSUME task' = task PROVE task' \in [Task -> TaskType] /\ \A t \in Task : Moves(t)
  BY <1>u, <1>n DEF Moves
<1>1. ASSUME NEW r \in Request, NEW force \in BOOLEAN, Ask(r, force) PROVE Effects
  <2>1. /\ task' = [task EXCEPT ![r] = Started(0, cursor')] /\ r \in Task
        /\ UNCHANGED <<clock, raw, rollup, cursor, stored, swept, offered>>
    BY <1>1 DEF Ask, Task
  <2>2. Started(0, cursor') \in TaskType /\ 0 \in 0..LiveBound
    BY <2>1, <1>n, StartedTyped, TimeAssumption
  <2> QED BY <2>1, <2>2, <1>n DEF Effects, Moves
<1>2. ASSUME FireBusy PROVE Effects
  BY <1>2, <1>u DEF FireBusy, Effects
<1>3. ASSUME NEW s \in Pass, NEW live \in 0..LiveBound, Fire(s, live) PROVE Effects
  <2>1. UNCHANGED <<clock, raw, rollup, cursor, stored, swept, offered>>
    BY <1>3 DEF Fire
  <2>2. CASE live = 0
    BY <1>3, <2>1, <2>2, <1>u DEF Fire, Effects
  <2>3. CASE live # 0
    <3>1. task' = [task EXCEPT ![s] = Started(live - 1, cursor')] /\ s \in Task
      BY <1>3, <2>1, <2>3 DEF Fire, Task
    <3>2. live - 1 \in 0..LiveBound
      BY <2>3, TimeAssumption
    <3>3. Started(live - 1, cursor') \in TaskType
      BY <2>1, <3>2, <1>n, StartedTyped
    <3> QED BY <2>1, <3>1, <3>2, <3>3, <1>n DEF Effects, Moves
  <2> QED BY <2>2, <2>3
<1>4. ASSUME NEW t \in Task, Inventory(t) PROVE Effects
  <2>1. /\ task' = [task EXCEPT ![t] = [task[t] EXCEPT !.at = "rrd"]]
        /\ task[t].at = "inventory"
        /\ UNCHANGED <<clock, raw, rollup, cursor, stored, swept, offered>>
    BY <1>4, <1>n DEF Inventory
  <2>2. [task[t] EXCEPT !.at = "rrd"] \in TaskType
    BY <1>n DEF TaskType
  <2> QED BY <2>1, <2>2, <1>n DEF Effects, Moves
<1>5. ASSUME NEW t \in Task, InventoryFails(t) PROVE Effects
  <2>1. UNCHANGED <<clock, raw, rollup, cursor, stored, swept, offered>> /\ Ends(t, FALSE)
    BY <1>5 DEF InventoryFails
  <2> QED BY <2>1, <1>n, EndMoves DEF Effects
<1>6. ASSUME NEW t \in Task, NEW ok \in BOOLEAN, Updates(t, ok) PROVE Effects
  <2> DEFINE latest == IF ok /\ task[t].from <= clock THEN clock ELSE 0
             moved  == [task[t] EXCEPT !.at = "metrics", !.latest = latest]
  <2>1. /\ task' = [task EXCEPT ![t] = moved] /\ task[t].at = "rrd"
        /\ UNCHANGED <<clock, raw, rollup, cursor, stored, swept, offered>>
    BY <1>6, <1>n DEF Updates
  <2>2. moved \in TaskType /\ latest \in {0, clock} /\ (latest # 0 => task[t].from <= clock)
    BY <1>n DEF TaskType
  <2>3. Moves(t)
    BY <2>1, <2>2, <1>n DEF Moves
  <2> HIDE DEF moved, latest
  <2> QED BY <2>1, <2>2, <2>3, <1>n DEF Effects, Moves
<1>7. ASSUME NEW t \in Task, NEW v \in Value, Store(t, v) PROVE Effects
  <2>1. /\ task[t].at = "metrics" /\ Insert(t, v) /\ Advances(t) /\ Ends(t, TRUE)
        /\ clock' = clock
    BY <1>7 DEF Store
  <2>2. UNCHANGED <<cursor, offered>> \/ Follows(t)
    BY <2>1 DEF Advances, Follows
  <2>3. cursor' \in Nat
    BY <2>2, <1>n DEF Follows, TaskType
  <2>4. task' \in [Task -> TaskType] /\ \A u \in Task : Moves(u)
    BY <2>1, <2>3, EndMoves
  <2>5. Stores
    BY <2>1 DEF Stores
  <2>6. ~Deletes \/ UNCHANGED <<clock, stored>>
    BY <2>1 DEF Deletes, Purge
  <2> QED BY <2>1, <2>2, <2>4, <2>5, <2>6 DEF Effects
<1>8. ASSUME NEW t \in Task, CrashStoring(t) PROVE Effects
  <2>1. /\ task[t].at = "metrics" /\ (\E v \in Value : Insert(t, v))
        /\ UNCHANGED <<cursor, offered, clock>> /\ task' = [u \in Task |-> Idle]
    BY <1>8 DEF CrashStoring, Boot
  <2>2. Stores
    BY <2>1 DEF Stores
  <2>3. ~Deletes \/ UNCHANGED <<clock, stored>>
    BY <2>1 DEF Deletes, Purge
  <2> QED BY <2>1, <2>2, <2>3, <1>i DEF Effects, Moves
<1>9. ASSUME Crash PROVE Effects
  BY <1>9, <1>i DEF Crash, Boot, Effects, Moves
<1>10. ASSUME Stop PROVE Effects
  BY <1>10, <1>u DEF Stop, Effects
<1>11. ASSUME NEW on \in BOOLEAN, Configure(on) PROVE Effects
  BY <1>11, <1>u DEF Configure, Effects
<1>12. ASSUME NEW table \in Table, NEW keep \in Keep, Purge(table, keep) PROVE Effects
  <2>1. UNCHANGED <<clock, cursor, stored, offered, task>>
    BY <1>12 DEF Purge
  <2>2. Deletes
    BY <1>12 DEF Deletes
  <2> QED BY <2>1, <2>2, <1>u DEF Effects
<1>13. ASSUME Tick PROVE Effects
  <2>1. UNCHANGED <<raw, rollup, cursor, stored, swept, offered, task>> /\ Passes
    BY <1>13 DEF Tick, Passes
  <2>2. ~Deletes
    BY <2>1, <1>n DEF Deletes, Purge, Passes
  <2> QED BY <2>1, <2>2, <1>u DEF Effects
<1>14. CASE UNCHANGED metricsVars
  BY <1>14, <1>u DEF metricsVars, Effects
<1> QED
  BY <1>1, <1>2, <1>3, <1>4, <1>5, <1>6, <1>7, <1>8, <1>9, <1>10, <1>11, <1>12, <1>13, <1>14
  DEF MetricsNext, Proceed, Timer

(* Captures are no older than their calls may take, and neither the cursor *)
(* nor a sweep is ahead of the clock.                                      *)
ClockInv ==
  /\ cursor <= clock /\ swept <= clock
  /\ \A t \in Capturing :
       /\ task[t].now \in Time
       /\ task[t].now <= clock /\ clock <= task[t].now + Patience
       /\ task[t].latest # 0 => /\ task[t].from <= task[t].latest
                                /\ task[t].now <= task[t].latest
                                /\ task[t].latest <= clock

(* One step leaves no capture older than its calls may take.               *)
LEMMA ClockStep == MetricsTypeOK /\ ClockInv /\ [MetricsNext]_metricsVars => ClockInv'
<1> SUFFICES ASSUME MetricsTypeOK, ClockInv, Effects PROVE ClockInv'
  BY StepEffects
<1>n. /\ cursor \in Nat /\ clock \in Time /\ clock \in Nat /\ swept \in Nat
      /\ task \in [Task -> TaskType] /\ Patience \in Nat
  BY TimeAssumption DEF MetricsTypeOK, Time
<1>c. clock' \in {clock, clock + 1}
  BY DEF Effects, Passes
<1>1. cursor' <= clock'
  <2>1. CASE UNCHANGED cursor
    BY <2>1, <1>n, <1>c DEF ClockInv
  <2>2. ASSUME NEW t \in Task, Follows(t) PROVE cursor' <= clock'
    BY <2>2, <1>n DEF Follows, ClockInv, Capturing, TaskType
  <2> QED BY <2>1, <2>2 DEF Effects
<1>2. swept' <= clock'
  <2>1. CASE Deletes
    BY <2>1, <1>n, TimeAssumption DEF Deletes, Purge, ClockInv, Larger
  <2>2. CASE ~Deletes
    BY <2>2, <1>n, <1>c DEF Effects, Stores, Insert, ClockInv
  <2> QED BY <2>1, <2>2
<1>3. ASSUME NEW t \in Task, task'[t].at # "idle"
      PROVE  /\ task'[t].now \in Time
             /\ task'[t].now <= clock' /\ clock' <= task'[t].now + Patience
             /\ task'[t].latest # 0 => /\ task'[t].from <= task'[t].latest
                                       /\ task'[t].now <= task'[t].latest
                                       /\ task'[t].latest <= clock'
  <2> DEFINE Fresh(c) == /\ c.now \in Time
                         /\ c.now <= clock' /\ clock' <= c.now + Patience
                         /\ c.latest # 0 => /\ c.from <= c.latest
                                            /\ c.now <= c.latest /\ c.latest <= clock'
  <2>1. CASE task'[t] = task[t]
    <3>1. t \in Capturing
      BY <1>3, <2>1 DEF Capturing
    <3>2. CASE clock' = clock
      BY <2>1, <3>1, <3>2, <1>n DEF ClockInv
    <3>3. CASE Passes
      <4>1. task[t].now \in Nat /\ task[t].latest \in Nat /\ task[t].from \in Nat
        BY <1>n DEF TaskType
      <4> QED BY <2>1, <3>1, <3>3, <4>1, <1>n DEF ClockInv, Passes
    <3> QED BY <3>2, <3>3 DEF Effects
  <2>2. CASE task'[t] = Idle
    BY <1>3, <2>2 DEF Idle
  <2>3. ASSUME clock' = clock, NEW left \in 0..LiveBound, task'[t] = Started(left, cursor')
        PROVE  Fresh(task'[t])
    BY <2>3, <1>n DEF Started
  <2>4. ASSUME clock' = clock, task[t].at = "inventory",
               task'[t] = [task[t] EXCEPT !.at = "rrd"]
        PROVE  Fresh(task'[t])
    BY <2>4, <1>n DEF ClockInv, Capturing, TaskType
  <2>5. ASSUME clock' = clock, task[t].at = "rrd", NEW latest \in {0, clock},
               latest # 0 => task[t].from <= clock,
               task'[t] = [task[t] EXCEPT !.at = "metrics", !.latest = latest]
        PROVE  Fresh(task'[t])
    BY <2>5, <1>n DEF ClockInv, Capturing, TaskType
  <2>6. Moves(t)
    BY DEF Effects
  <2> QED BY <2>1, <2>2, <2>3, <2>4, <2>5, <2>6 DEF Moves
<1> QED BY <1>1, <1>2, <1>3 DEF ClockInv, Capturing

(* An earlier instant is in no later bucket, and a bucket begins no later  *)
(* than the instants in it.                                                *)
LEMMA Hourly ==
  /\ \A a, b \in Nat : a <= b => toHourlyBucket(a) <= toHourlyBucket(b)
  /\ \A a \in Nat : toHourlyBucket(a) \in Nat /\ toHourlyBucket(a) * Hour <= a
  /\ \A a \in Time : toHourlyBucket(a) \in Bucket
<1>1. \A a, b \in Nat, h \in Nat \ {0} : a <= b => a \div h <= b \div h
  OBVIOUS
<1>2. \A a \in Nat, h \in Nat \ {0} : a \div h \in Nat /\ (a \div h) * h <= a
  OBVIOUS
<1>3. Hour \in Nat \ {0}
  BY TimeAssumption
<1>4. \A a \in Nat : toHourlyBucket(a) \in Nat /\ toHourlyBucket(a) * Hour <= a
  BY <1>2, <1>3 DEF toHourlyBucket
<1>5. \A a, b \in Nat : a <= b => toHourlyBucket(a) <= toHourlyBucket(b)
  BY <1>1, <1>3 DEF toHourlyBucket
<1>6. ASSUME NEW a \in Time PROVE toHourlyBucket(a) \in Bucket
  <2>1. a \in Nat /\ Stale + MaxTime \in Nat /\ a <= Stale + MaxTime
    BY TimeAssumption DEF Time
  <2>2. a \div Hour \in Nat /\ (Stale + MaxTime) \div Hour \in Nat
        /\ a \div Hour <= (Stale + MaxTime) \div Hour
    BY <2>1, <1>1, <1>2, <1>3
  <2> QED BY <2>2 DEF toHourlyBucket, Bucket
<1> QED BY <1>4, <1>5, <1>6

(* A roll-up stays one when a value is added.                              *)
LEMMA UpsertTyped ==
  ASSUME NEW r \in Rollup, NEW v \in Value
  PROVE  Upsert(r, v) \in Rollup
<1>1. v \in Nat
  BY TimeAssumption
<1>2. /\ r.count \in Nat /\ r.total \in Nat /\ r.min \in Nat /\ r.max \in Nat
  BY DEF Rollup
<1> QED BY <1>1, <1>2 DEF Upsert, Rollup, Smaller, Larger

(* A store of a capture keeps the types of the tables.                     *)
LEMMA InsertTyped ==
  ASSUME MetricsTypeOK, ClockInv, NEW t \in Task, NEW v \in Value,
         task[t].at = "metrics", Insert(t, v)
  PROVE  /\ raw' \subseteq Sample /\ rollup' \in [Bucket -> Rollup]
         /\ stored' \in Nat /\ swept' \in Nat
<1>1. task[t].now \in Time /\ v \in Nat /\ stored \in Nat
  BY TimeAssumption DEF ClockInv, Capturing, MetricsTypeOK
<1>2. raw' \subseteq Sample /\ stored' \in Nat /\ swept' \in Nat
  BY <1>1 DEF Insert, MetricsTypeOK, Sample
<1>3. toHourlyBucket(task[t].now) \in Bucket
  BY <1>1, Hourly
<1>4. Upsert(rollup[toHourlyBucket(task[t].now)], v) \in Rollup
  BY <1>3, UpsertTyped DEF MetricsTypeOK
<1> QED BY <1>2, <1>3, <1>4 DEF Insert, MetricsTypeOK

(* A sweep keeps the types of the tables.                                  *)
LEMMA PurgeTyped ==
  ASSUME MetricsTypeOK, Deletes
  PROVE  /\ raw' \subseteq Sample /\ rollup' \in [Bucket -> Rollup]
         /\ stored' \in Nat /\ swept' \in Nat
<1>1. NoRollup \in Rollup
  BY DEF NoRollup, Rollup
<1>2. PICK table \in Table, keep \in Keep : Purge(table, keep)
  BY DEF Deletes
<1>3. clock \in Nat /\ keep \in Nat /\ clock > keep
  BY <1>2, TimeAssumption DEF Purge, MetricsTypeOK, Time
<1>4. swept' \in Nat /\ stored' \in Nat
  BY <1>2, <1>3 DEF Purge, MetricsTypeOK, Larger
<1>5. raw' \subseteq Sample /\ rollup' \in [Bucket -> Rollup]
  BY <1>1, <1>2 DEF Purge, MetricsTypeOK
<1> QED BY <1>4, <1>5

(* What a step does to the collector keeps its types.                      *)
LEMMA CollectorTyped ==
  ASSUME MetricsTypeOK, [MetricsNext]_metricsVars
  PROVE  /\ enabled' \in BOOLEAN /\ booted' \in BOOLEAN /\ inFlight' \in BOOLEAN
         /\ armed' \in Nat
<1> USE DEF MetricsTypeOK, collector
<1>e. ASSUME NEW t \in Task, NEW ok \in BOOLEAN, Ends(t, ok)
      PROVE  /\ enabled' \in BOOLEAN /\ booted' \in BOOLEAN /\ inFlight' \in BOOLEAN
             /\ armed' \in Nat
  <2>1. inFlight' \in BOOLEAN /\ enabled' \in BOOLEAN /\ booted' \in BOOLEAN
    BY <1>e, Zenon DEF Ends
  <2>2. armed' \in {armed, Scheduled(armed)}
    BY <1>e, Zenon DEF Ends
  <2> QED BY <2>1, <2>2 DEF Scheduled
<1>1. CASE \E r \in Request, force \in BOOLEAN : Ask(r, force)
  BY <1>1 DEF Ask
<1>2. CASE Timer
  <2>1. UNCHANGED <<enabled, booted>> /\ inFlight' \in {TRUE, inFlight}
    BY <1>2 DEF Timer, FireBusy, Fire
  <2>2. armed' \in {armed - 1, Scheduled(armed - 1)} /\ armed > 0
    BY <1>2 DEF Timer, FireBusy, Fire
  <2>3. armed' \in Nat
    BY <2>2 DEF Scheduled
  <2> QED BY <2>1, <2>3, Zenon
<1>3. ASSUME NEW t \in Task, Proceed(t)
      PROVE  /\ enabled' \in BOOLEAN /\ booted' \in BOOLEAN /\ inFlight' \in BOOLEAN
             /\ armed' \in Nat
  <2>1. \/ UNCHANGED collector
        \/ \E ok \in BOOLEAN : Ends(t, ok)
    BY <1>3 DEF Proceed, Inventory, InventoryFails, Updates, Store
  <2> QED BY <2>1, <1>e
<1>4. CASE (\E t \in Task : CrashStoring(t)) \/ Crash
  <2>1. /\ UNCHANGED enabled /\ booted' = TRUE /\ inFlight' = FALSE
        /\ armed' = IF enabled THEN 1 ELSE 0
    BY <1>4 DEF CrashStoring, Crash, Boot
  <2> QED BY <2>1
<1>5. CASE Stop
  BY <1>5 DEF Stop
<1>6. CASE \E on \in BOOLEAN : Configure(on)
  BY <1>6 DEF Configure, Scheduled
<1>7. CASE (\E table \in Table, keep \in Keep : Purge(table, keep)) \/ Tick
  BY <1>7 DEF Purge, Tick
<1>8. CASE UNCHANGED metricsVars
  BY <1>8 DEF metricsVars
<1> QED BY <1>1, <1>2, <1>3, <1>4, <1>5, <1>6, <1>7, <1>8 DEF MetricsNext

(* One step keeps the types.                                               *)
LEMMA MetricsTypedStep ==
  MetricsTypeOK /\ ClockInv /\ [MetricsNext]_metricsVars => MetricsTypeOK'
<1> SUFFICES ASSUME MetricsTypeOK, ClockInv, [MetricsNext]_metricsVars PROVE MetricsTypeOK'
  OBVIOUS
<1>1. Effects
  BY StepEffects
<1>2. clock' \in Time /\ task' \in [Task -> TaskType]
  BY <1>1, TimeAssumption DEF Effects, Passes, MetricsTypeOK, Time
<1>3. /\ raw' \subseteq Sample /\ rollup' \in [Bucket -> Rollup]
      /\ stored' \in Nat /\ swept' \in Nat
  <2>1. CASE Stores
    BY <2>1, InsertTyped DEF Stores
  <2>2. CASE Deletes
    BY <2>2, PurgeTyped
  <2>3. CASE UNCHANGED <<raw, rollup, stored, swept>>
    BY <2>3 DEF MetricsTypeOK
  <2> QED BY <1>1, <2>1, <2>2, <2>3 DEF Effects
<1>4. cursor' \in Nat /\ offered' \subseteq Nat
  <2>1. ASSUME NEW t \in Task, Follows(t) PROVE cursor' \in Nat /\ offered' \subseteq Nat
    <3>1. task[t].latest \in Nat /\ task[t].from \in Nat
      BY DEF MetricsTypeOK, TaskType
    <3>2. task[t].from..task[t].latest \subseteq Nat
      BY <3>1
    <3> QED BY <2>1, <3>1, <3>2 DEF Follows, MetricsTypeOK
  <2> QED BY <1>1, <2>1 DEF Effects, MetricsTypeOK
<1> QED BY <1>2, <1>3, <1>4, CollectorTyped DEF MetricsTypeOK

(* The tables, the cursor, the captures and the collector always have      *)
(* their types, whatever crosses or fails.                                 *)
THEOREM MetricsTyped == MetricsSpec => [](MetricsTypeOK /\ ClockInv)
<1>1. MetricsInit => MetricsTypeOK /\ ClockInv
  <2> SUFFICES ASSUME MetricsInit PROVE MetricsTypeOK /\ ClockInv
    OBVIOUS
  <2>1. Idle \in TaskType /\ NoRollup \in Rollup /\ Stale \in Time
    BY TimeAssumption DEF Idle, TaskType, NoRollup, Rollup, Time
  <2>2. Capturing = {}
    BY DEF MetricsInit, Capturing, Idle
  <2>3. ClockInv
    BY <2>2, TimeAssumption DEF MetricsInit, ClockInv
  <2>4. /\ enabled \in BOOLEAN /\ booted \in BOOLEAN /\ inFlight \in BOOLEAN
        /\ armed \in Nat
    BY DEF MetricsInit
  <2>5. /\ clock \in Time /\ raw \subseteq Sample /\ rollup \in [Bucket -> Rollup]
        /\ cursor \in Nat /\ stored \in Nat /\ task \in [Task -> TaskType]
        /\ swept \in Nat /\ offered \subseteq Nat
    BY <2>1 DEF MetricsInit
  <2> QED BY <2>3, <2>4, <2>5 DEF MetricsTypeOK
<1> QED BY <1>1, ClockStep, MetricsTypedStep, PTL DEF MetricsSpec

-----------------------------------------------------------------------------
(* The timer of a collector that is on and idle is set once, and that of   *)
(* one that is off or stopped is not.                                      *)
THEOREM TimerIsSet == MetricsSpec => []TimerSet
<1>1. MetricsInit => TimerSet
  BY DEF MetricsInit, TimerSet
<1>2. MetricsTypeOK /\ TimerSet /\ [MetricsNext]_metricsVars => TimerSet'
  <2> SUFFICES ASSUME MetricsTypeOK, TimerSet, [MetricsNext]_metricsVars PROVE TimerSet'
    OBVIOUS
  <2> USE DEF TimerSet, collector
  <2>t. armed \in Nat /\ booted \in BOOLEAN /\ enabled \in BOOLEAN /\ inFlight \in BOOLEAN
    BY DEF MetricsTypeOK
  <2>1. CASE \E r \in Request, force \in BOOLEAN : Ask(r, force)
    BY <2>1 DEF Ask
  <2>2. CASE FireBusy
    BY <2>2, <2>t DEF FireBusy, Scheduled
  <2>3. ASSUME NEW s \in Pass, NEW live \in 0..LiveBound, Fire(s, live) PROVE TimerSet'
    BY <2>3, <2>t DEF Fire, Scheduled
  <2>4. ASSUME NEW t \in Task, Proceed(t) PROVE TimerSet'
    <3>1. \/ UNCHANGED collector
          \/ \E ok \in BOOLEAN : Ends(t, ok)
      BY <2>4 DEF Proceed, Inventory, InventoryFails, Updates, Store
    <3>2. ASSUME NEW ok \in BOOLEAN, Ends(t, ok) PROVE TimerSet'
      BY <3>2, <2>t DEF Ends, Scheduled
    <3> QED BY <3>1, <3>2
  <2>5. CASE (\E t \in Task : CrashStoring(t)) \/ Crash
    BY <2>5, <2>t DEF CrashStoring, Crash, Boot
  <2>6. CASE Stop
    BY <2>6 DEF Stop
  <2>7. ASSUME NEW on \in BOOLEAN, Configure(on) PROVE TimerSet'
    BY <2>7, <2>t DEF Configure, Scheduled
  <2>8. CASE (\E table \in Table, keep \in Keep : Purge(table, keep)) \/ Tick
    BY <2>8 DEF Purge, Tick
  <2>9. CASE UNCHANGED metricsVars
    BY <2>9 DEF metricsVars
  <2> QED BY <2>1, <2>2, <2>3, <2>4, <2>5, <2>6, <2>7, <2>8, <2>9 DEF MetricsNext, Timer
<1> QED BY <1>1, <1>2, MetricsTyped, PTL DEF MetricsSpec

-----------------------------------------------------------------------------
(* CursorBacked is not inductive: a capture that ends moves the cursor,    *)
(* and what it was given must join what others were.  OfferInv says that   *)
(* there never is a gap, because what a capture is going to be given       *)
(* begins next to a row already given, or, when there is none, at the      *)
(* window before its start; and no two captures under way are further      *)
(* apart than that window.                                                 *)
Joins(c) ==
  IF offered = {} THEN c.from = c.now - Stale
  ELSE \E at \in offered : c.from <= at + 1 /\ at <= c.now

OfferInv ==
  /\ cursor = 0 <=> offered = {}
  /\ cursor # 0 => cursor \in offered
  /\ \A at \in offered : at <= clock
  /\ \A a, b \in offered : a..b \subseteq offered
  /\ \A t \in Capturing : Joins(task[t])

(* Rows that are joined to others leave no gap.                            *)
LEMMA NoGap ==
  ASSUME NEW S \in SUBSET Nat, \A a, b \in S : a..b \subseteq S,
         NEW from \in Nat, NEW to \in Nat, from <= to,
         S = {} \/ \E at \in S : from <= at + 1 /\ at <= to
  PROVE  \A a, b \in S \union (from..to) : a..b \subseteq S \union (from..to)
<1> SUFFICES ASSUME NEW a \in S \union (from..to), NEW b \in S \union (from..to),
                    NEW c \in a..b, c \notin from..to
             PROVE  c \in S
  OBVIOUS
<1>0. a \in Nat /\ b \in Nat /\ c \in Nat /\ a <= c /\ c <= b
  OBVIOUS
<1>1. CASE c < from
  <2>1. a \in S
    BY <1>0, <1>1
  <2>2. PICK at \in S : from <= at + 1
    BY <2>1
  <2>3. c \in a..at
    BY <1>0, <1>1, <2>2
  <2> QED BY <2>1, <2>2, <2>3
<1>2. CASE to < c
  <2>1. b \in S
    BY <1>0, <1>2
  <2>2. PICK at \in S : at <= to
    BY <2>1
  <2>3. c \in at..b
    BY <1>0, <1>2, <2>2
  <2> QED BY <2>1, <2>2, <2>3
<1> QED BY <1>0, <1>1, <1>2

(* One step leaves no gap.                                                 *)
LEMMA OfferStep ==
  MetricsTypeOK /\ ClockInv /\ OfferInv /\ [MetricsNext]_metricsVars => OfferInv'
<1> SUFFICES ASSUME MetricsTypeOK, ClockInv, OfferInv, Effects PROVE OfferInv'
  BY StepEffects
<1>n. /\ cursor \in Nat /\ clock \in Nat /\ clock >= Stale /\ offered \subseteq Nat
      /\ task \in [Task -> TaskType] /\ Patience \in Nat /\ Stale \in Nat /\ Patience < Stale
  BY TimeAssumption DEF MetricsTypeOK, Time
<1>c. clock' \in Nat /\ clock <= clock'
  BY <1>n DEF Effects, Passes
(* What the cursor does.                                                   *)
<1>1. ASSUME NEW t \in Task, Follows(t)
      PROVE  /\ cursor' # 0 /\ cursor' \in offered' /\ offered \subseteq offered'
             /\ task[t].from \in Nat /\ task[t].latest \in Nat
             /\ task[t].from..task[t].latest \subseteq offered'
             /\ task[t].from <= task[t].latest
             /\ task[t].now <= task[t].latest /\ task[t].latest <= clock
             /\ Joins(task[t]) /\ t \in Capturing
             /\ offered' = offered \union (task[t].from..task[t].latest)
             /\ task[t].now \in Nat /\ clock <= task[t].now + Patience
             /\ clock' = clock /\ offered' # {}
  <2>1. t \in Capturing /\ task[t].latest # 0
    BY <1>1, <1>n DEF Follows, Capturing, TaskType
  <2>2. task[t].from \in Nat /\ task[t].latest \in Nat /\ task[t].now \in Nat
    BY <1>n DEF TaskType
  <2>3. /\ task[t].from <= task[t].latest
        /\ task[t].now <= task[t].latest /\ task[t].latest <= clock
        /\ clock <= task[t].now + Patience
    BY <2>1 DEF ClockInv
  <2>4. cursor' \in task[t].from..task[t].latest /\ cursor' # 0
    BY <1>1, <2>1, <2>2, <2>3 DEF Follows
  <2>5. offered' = offered \union (task[t].from..task[t].latest) /\ clock' = clock
    BY <1>1 DEF Follows
  <2>6. Joins(task[t])
    BY <2>1 DEF OfferInv
  <2> QED BY <2>1, <2>2, <2>3, <2>4, <2>5, <2>6
<1>2. (cursor' = 0 <=> offered' = {}) /\ (cursor' # 0 => cursor' \in offered')
  BY <1>1 DEF Effects, OfferInv
<1>3. \A at \in offered' : at <= clock'
  <2>1. ASSUME NEW t \in Task, Follows(t), NEW at \in offered' PROVE at <= clock'
    <3>1. at \in offered \/ at \in task[t].from..task[t].latest
      BY <2>1, <1>1
    <3>2. task[t].latest <= clock /\ clock' = clock /\ task[t].from \in Nat /\ task[t].latest \in Nat
      BY <2>1, <1>1
    <3>3. at \in offered => at <= clock
      BY DEF OfferInv
    <3> QED BY <3>1, <3>2, <3>3, <1>n
  <2>2. ASSUME offered' = offered, NEW at \in offered' PROVE at <= clock'
    BY <2>2, <1>n, <1>c DEF OfferInv
  <2> QED BY <2>1, <2>2 DEF Effects
<1>4. \A a, b \in offered' : a..b \subseteq offered'
  <2>1. ASSUME NEW t \in Task, Follows(t) PROVE \A a, b \in offered' : a..b \subseteq offered'
    <3>1. offered = {} \/ \E at \in offered : task[t].from <= at + 1 /\ at <= task[t].latest
      BY <1>n, <2>1, <1>1 DEF Joins
    <3>2. offered \in SUBSET Nat /\ \A a, b \in offered : a..b \subseteq offered
      BY <1>n DEF OfferInv
    <3>3. /\ task[t].from \in Nat /\ task[t].latest \in Nat /\ task[t].from <= task[t].latest
          /\ offered' = offered \union (task[t].from..task[t].latest)
      BY <2>1, <1>1
    <3> QED BY <3>1, <3>2, <3>3, NoGap
  <2> QED BY <2>1 DEF Effects, OfferInv
(* A capture that has begun keeps its place.                               *)
<1>5. ASSUME NEW t \in Capturing, NEW c, c.from = task[t].from, c.now = task[t].now
      PROVE  Joins(c)'
  <2>1. Joins(task[t]) /\ task[t].now \in Nat /\ task[t].from \in Nat
        /\ clock <= task[t].now + Patience /\ task[t].now <= clock
    BY <1>n DEF OfferInv, ClockInv, Capturing, TaskType
  <2>2. CASE offered' = offered
    BY <1>5, <2>1, <2>2 DEF Joins
  <2>3. CASE offered # {}
    <3>1. offered \subseteq offered'
      BY <1>1 DEF Effects
    <3> QED BY <1>5, <2>1, <2>3, <3>1 DEF Joins
  <2>4. ASSUME NEW u \in Task, Follows(u), offered = {} PROVE Joins(c)'
    <3> DEFINE at == Larger(task[u].from, task[t].from)
    <3>1. /\ task[u].from = task[u].now - Stale /\ task[t].from = task[t].now - Stale
      BY <2>1, <2>4, <1>1 DEF Joins
    <3>2. task[u].now <= clock
      BY <2>4, <1>1, <1>n
    <3>3. /\ task[u].from <= at /\ at <= task[u].latest
          /\ task[t].from <= at + 1 /\ at <= task[t].now /\ at \in Nat
      <4>1. /\ task[u].from \in Nat /\ task[u].now \in Nat /\ task[u].latest \in Nat
            /\ task[u].from <= task[u].latest /\ task[u].now <= task[u].latest
            /\ clock <= task[u].now + Patience
        BY <2>4, <1>1
      <4>2. task[t].from <= task[u].latest /\ task[u].from <= task[t].now
        BY <4>1, <2>1, <1>n, <3>1, <3>2
      <4>3. task[t].from <= task[t].now
        BY <2>1, <1>n, <3>1
      <4> QED BY <4>1, <4>2, <4>3, <2>1 DEF Larger
    <3>4. at \in offered'
      BY <2>4, <1>1, <3>3
    <3>5. offered' # {} /\ \E b \in offered' : c.from <= b + 1 /\ b <= c.now
      BY <3>3, <3>4, <1>5
    <3> QED BY <3>5 DEF Joins
  <2> QED BY <2>2, <2>3, <2>4 DEF Effects
(* A capture that begins finds its place at the cursor.                    *)
<1>6. ASSUME NEW left \in 0..LiveBound, NEW c, c = Started(left, cursor'), clock' = clock
      PROVE  Joins(c)'
  <2>1. cursor' \in Nat
    BY <1>1, <1>n DEF Effects, Follows, TaskType
  <2>2. CASE cursor' = 0
    BY <2>2, <1>2, <1>6, <2>1 DEF Started, Joins
  <2>3. CASE cursor' # 0
    <3>1. cursor' \in offered' /\ cursor' <= clock
      BY <2>3, <1>2, <1>3, <1>6
    <3> QED BY <2>1, <2>3, <3>1, <1>6 DEF Started, Joins
  <2> QED BY <2>2, <2>3
<1>7. ASSUME NEW t \in Task, task'[t].at # "idle" PROVE Joins(task[t])'
  <2>1. CASE task'[t] = task[t]
    <3>1. t \in Capturing
      BY <1>7, <2>1 DEF Capturing
    <3> QED BY <2>1, <3>1, <1>5
  <2>2. CASE task'[t] = Idle
    BY <1>7, <2>2 DEF Idle
  <2>3. ASSUME clock' = clock, NEW left \in 0..LiveBound, task'[t] = Started(left, cursor')
        PROVE  Joins(task[t])'
    BY <2>3, <1>6
  <2>4. ASSUME task[t].at = "inventory", task'[t] = [task[t] EXCEPT !.at = "rrd"]
        PROVE  Joins(task[t])'
    <3>1. /\ t \in Capturing /\ task'[t].from = task[t].from /\ task'[t].now = task[t].now
      BY <2>4, <1>n DEF Capturing, TaskType
    <3> QED BY <3>1, <1>5
  <2>5. ASSUME task[t].at = "rrd", NEW latest \in {0, clock},
               task'[t] = [task[t] EXCEPT !.at = "metrics", !.latest = latest]
        PROVE  Joins(task[t])'
    <3>1. /\ t \in Capturing /\ task'[t].from = task[t].from /\ task'[t].now = task[t].now
      BY <2>5, <1>n DEF Capturing, TaskType
    <3> QED BY <3>1, <1>5
  <2>6. Moves(t)
    BY DEF Effects
  <2> QED BY <2>1, <2>2, <2>3, <2>4, <2>5, <2>6 DEF Moves
<1> QED BY <1>2, <1>3, <1>4, <1>7 DEF OfferInv, Capturing

(* Once it is set, the cursor passes over no RRD row, however captures     *)
(* cross, move it back, fail and are cut short.                            *)
THEOREM CursorSkipsNothing == MetricsSpec => []CursorBacked
<1>1. MetricsInit => OfferInv
  BY DEF MetricsInit, OfferInv, Capturing, Idle
<1>2. OfferInv => CursorBacked
  BY DEF OfferInv, CursorBacked
<1> QED BY <1>1, <1>2, OfferStep, MetricsTyped, PTL DEF MetricsSpec

-----------------------------------------------------------------------------
(* Of some finite sets one has none of the others in it.                   *)
LEMMA Smallest ==
  ASSUME NEW U, NEW B, B \subseteq FiniteSubsetsOf(U), B # {}
  PROVE  \E s \in B : \A t \in B : t \subseteq s => t = s
<1>1. IsWellFoundedOn(StrictSubsetOrdering(U), FiniteSubsetsOf(U))
  BY FS_StrictSubsetOrderingWellFounded
<1>2. PICK s \in B : \A t \in B : <<t, s>> \notin StrictSubsetOrdering(U)
  BY <1>1, WFMin
<1> QED BY <1>2 DEF StrictSubsetOrdering, FiniteSubsetsOf

(* The member a sum takes out first.                                       *)
First(s) == CHOOSE x \in s : TRUE

LEMMA FirstIn == ASSUME NEW s, s # {} PROVE First(s) \in s
  BY DEF First

(* f adds up the values of every subset of S.                              *)
Sums(f, S) ==
  f = [s \in SUBSET S |-> IF s = {} THEN 0 ELSE First(s).value + f[s \ {First(s)}]]

SumOver(S) == CHOOSE f : Sums(f, S)

(* The total is what the function that adds up gives all the rows.         *)
LEMMA TotalUnfolded == ASSUME NEW S PROVE TotalOf(S) = SumOver(S)[S]
  BY DEF TotalOf, MapThenSumSet, MapThenFoldSet, SumOver, Sums, First

(* What such a function gives a set.                                       *)
LEMMA SumsAt ==
  ASSUME NEW f, NEW S, Sums(f, S), NEW s, s \subseteq S
  PROVE  f[s] = IF s = {} THEN 0 ELSE First(s).value + f[s \ {First(s)}]
<1> DEFINE F(t) == IF t = {} THEN 0 ELSE First(t).value + f[t \ {First(t)}]
<1>1. f = [t \in SUBSET S |-> F(t)]
  BY DEF Sums
<1>2. s \in SUBSET S
  OBVIOUS
<1>3. f[s] = F(s)
  <2> HIDE DEF F
  <2> QED BY <1>1, <1>2
<1> QED BY <1>3

(* Two functions that add up add up alike.                                 *)
LEMMA SumsAlike ==
  ASSUME NEW S, NEW T, NEW f, NEW g, Sums(f, S), Sums(g, T),
         NEW V, IsFiniteSet(V), V \subseteq S, V \subseteq T
  PROVE  f[V] = g[V]
<1> DEFINE B == {s \in FiniteSubsetsOf(V) : f[s] # g[s]}
<1>1. SUFFICES ASSUME B # {} PROVE FALSE
  BY DEF FiniteSubsetsOf
<1>2. PICK s \in B : \A t \in B : t \subseteq s => t = s
  <2>1. B \subseteq FiniteSubsetsOf(V)
    OBVIOUS
  <2> HIDE DEF B
  <2> QED BY <1>1, <2>1, Smallest
<1>3. s \in SUBSET S /\ s \in SUBSET T /\ s \subseteq V /\ IsFiniteSet(s)
  BY DEF FiniteSubsetsOf
<1>4. s # {}
  <2>1. f[s] # g[s]
    OBVIOUS
  <2> QED BY <1>3, <2>1, SumsAt
<1>5. First(s) \in s
  BY <1>4, FirstIn
<1> DEFINE rest == s \ {First(s)}
<1>6. f[s] = First(s).value + f[rest] /\ g[s] = First(s).value + g[rest]
  BY <1>3, <1>4, SumsAt
<1>7. rest \in FiniteSubsetsOf(V) /\ rest # s /\ rest \subseteq s
  BY <1>3, <1>5, FS_Subset DEF FiniteSubsetsOf
<1>8. f[rest] = g[rest]
  BY <1>2, <1>7
<1> QED BY <1>2, <1>6, <1>8

(* Every finite set is added up.                                           *)
LEMMA SumsExist == ASSUME NEW S, IsFiniteSet(S) PROVE Sums(SumOver(S), S)
<1> SUFFICES \E f : Sums(f, S)
  BY DEF SumOver
<1> DEFINE B == {s \in FiniteSubsetsOf(S) : ~\E f : Sums(f, s)}
<1>1. SUFFICES ASSUME B # {} PROVE FALSE
  BY DEF FiniteSubsetsOf
<1>2. PICK s \in B : \A t \in B : t \subseteq s => t = s
  <2>1. B \subseteq FiniteSubsetsOf(S)
    OBVIOUS
  <2> HIDE DEF B
  <2> QED BY <1>1, <2>1, Smallest
<1>3. s \subseteq S /\ IsFiniteSet(s)
  BY DEF FiniteSubsetsOf
<1>4. ASSUME NEW t, t \subseteq s, t # s PROVE Sums(SumOver(t), t)
  <2>1. t \in FiniteSubsetsOf(S)
    BY <1>3, <1>4, FS_Subset DEF FiniteSubsetsOf
  <2> QED BY <1>2, <1>4, <2>1 DEF SumOver
<1> DEFINE Rest(t) == t \ {First(t)}
           f == [t \in SUBSET s |->
                   IF t = {} THEN 0 ELSE First(t).value + SumOver(Rest(t))[Rest(t)]]
<1>5. ASSUME NEW t, t \subseteq s, t # s PROVE f[t] = SumOver(t)[t]
  <2>1. Sums(SumOver(t), t) /\ t \in SUBSET s
    BY <1>4, <1>5
  <2>2. SumOver(t)[t] = IF t = {} THEN 0 ELSE First(t).value + SumOver(t)[Rest(t)]
    BY <2>1, SumsAt
  <2>3. CASE t = {}
    BY <2>1, <2>2, <2>3
  <2>4. CASE t # {}
    <3>1. First(t) \in t
      BY <2>4, FirstIn
    <3>2. /\ Rest(t) \subseteq t /\ Rest(t) \subseteq s /\ Rest(t) # s
          /\ IsFiniteSet(Rest(t))
      BY <1>3, <2>1, <3>1, FS_Subset
    <3>3. Sums(SumOver(Rest(t)), Rest(t))
      BY <1>4, <3>2
    <3>4. SumOver(t)[Rest(t)] = SumOver(Rest(t))[Rest(t)]
      <4> DEFINE r == Rest(t)
      <4>1. Sums(SumOver(r), r) /\ IsFiniteSet(r) /\ r \subseteq t
        BY <3>2, <3>3
      <4> HIDE DEF r
      <4>2. SumOver(t)[r] = SumOver(r)[r]
        BY <2>1, <4>1, SumsAlike
      <4> QED BY <4>2 DEF r
    <3> QED BY <2>1, <2>2, <2>4, <3>4
  <2> QED BY <2>3, <2>4
<1>6. ASSUME NEW t \in SUBSET s, t # {} PROVE SumOver(Rest(t))[Rest(t)] = f[Rest(t)]
  <2>1. First(t) \in t
    BY <1>6, FirstIn
  <2>2. Rest(t) \subseteq s /\ Rest(t) # s
    BY <1>6, <2>1
  <2> HIDE DEF f, Rest
  <2> QED BY <1>5, <2>2
<1>7. \A t \in SUBSET s : f[t] = IF t = {} THEN 0 ELSE First(t).value + f[Rest(t)]
  BY <1>6
<1>8. f = [t \in SUBSET s |-> f[t]]
  OBVIOUS
<1>9. Sums(f, s)
  <2> HIDE DEF f
  <2> QED BY <1>7, <1>8 DEF Sums
<1> QED BY <1>2, <1>9

(* The total of no rows is 0, and that of others is found by taking out    *)
(* one after the other.                                                    *)
LEMMA TotalTaken ==
  /\ TotalOf({}) = 0
  /\ \A S : IsFiniteSet(S) /\ S # {} => 
       \E x \in S : TotalOf(S) = x.value + TotalOf(S \ {x})
<1>1. TotalOf({}) = 0
  <2>1. Sums(SumOver({}), {})
    BY FS_EmptySet, SumsExist
  <2> QED BY <2>1, SumsAt, TotalUnfolded
<1>2. ASSUME NEW S, IsFiniteSet(S), S # {}
      PROVE  \E x \in S : TotalOf(S) = x.value + TotalOf(S \ {x})
  <2> DEFINE rest == S \ {First(S)}
  <2>1. First(S) \in S
    BY <1>2, FirstIn
  <2>2. IsFiniteSet(rest) /\ rest \subseteq S
    BY <1>2, FS_Subset
  <2>3. Sums(SumOver(S), S) /\ Sums(SumOver(rest), rest)
    BY <1>2, <2>2, SumsExist
  <2>4. SumOver(S)[S] = First(S).value + SumOver(S)[rest]
    BY <1>2, <2>3, SumsAt
  <2>5. SumOver(S)[rest] = SumOver(rest)[rest]
    BY <2>2, <2>3, SumsAlike
  <2>6. TotalOf(S) = First(S).value + TotalOf(rest)
    BY <2>4, <2>5, TotalUnfolded
  <2> QED BY <2>1, <2>6
<1> QED BY <1>1, <1>2

(* It makes no difference which row is taken out first.                    *)
LEMMA TotalOfRows ==
  ASSUME NEW S \in FiniteSubsetsOf(Sample)
  PROVE  TotalOf(S) \in Nat /\ \A x \in S : TotalOf(S) = x.value + TotalOf(S \ {x})
<1> DEFINE Good(s) == TotalOf(s) \in Nat /\ \A x \in s : TotalOf(s) = x.value + TotalOf(s \ {x})
           B == {s \in FiniteSubsetsOf(Sample) : ~Good(s)}
<1>1. SUFFICES ASSUME B # {} PROVE FALSE
  OBVIOUS
<1>2. PICK s \in B : \A t \in B : t \subseteq s => t = s
  <2>1. B \subseteq FiniteSubsetsOf(Sample)
    OBVIOUS
  <2> HIDE DEF B
  <2> QED BY <1>1, <2>1, Smallest
<1>3. s \subseteq Sample /\ IsFiniteSet(s)
  BY DEF FiniteSubsetsOf
<1>4. ASSUME NEW x \in s PROVE Good(s \ {x}) /\ x.value \in Nat
  <2>1. s \ {x} \in FiniteSubsetsOf(Sample)
    BY <1>3, FS_Subset DEF FiniteSubsetsOf
  <2>2. x.value \in Nat
    BY <1>3, TimeAssumption DEF Sample
  <2>3. s \ {x} # s
    OBVIOUS
  <2>4. s \ {x} \notin B
    BY <1>2, <2>3
  <2> QED BY <2>1, <2>2, <2>4
<1>5. s # {}
  <2>1. ~Good(s)
    OBVIOUS
  <2> QED BY <2>1, TotalTaken
<1>6. PICK y \in s : TotalOf(s) = y.value + TotalOf(s \ {y})
  BY <1>3, <1>5, TotalTaken
<1>7. TotalOf(s) \in Nat
  BY <1>4, <1>6
<1>8. ASSUME NEW x \in s, x # y PROVE TotalOf(s) = x.value + TotalOf(s \ {x})
  <2>1. TotalOf(s \ {y}) = x.value + TotalOf((s \ {y}) \ {x})
    BY <1>4, <1>8
  <2>2. TotalOf(s \ {x}) = y.value + TotalOf((s \ {x}) \ {y})
    BY <1>4, <1>8
  <2>3. (s \ {y}) \ {x} = (s \ {x}) \ {y}
    OBVIOUS
  <2> DEFINE n == TotalOf((s \ {x}) \ {y})
  <2>4. x.value \in Nat /\ y.value \in Nat /\ TotalOf(s \ {x}) \in Nat /\ TotalOf(s \ {y}) \in Nat
    BY <1>4
  <2>5. n \in Nat
    <3>1. (s \ {x}) \ {y} \in FiniteSubsetsOf(Sample) /\ (s \ {x}) \ {y} # s
      BY <1>3, FS_Subset DEF FiniteSubsetsOf
    <3>2. (s \ {x}) \ {y} \notin B
      BY <1>2, <3>1
    <3> QED BY <3>1, <3>2
  <2>6. TotalOf(s \ {y}) = x.value + n /\ TotalOf(s \ {x}) = y.value + n
    BY <2>1, <2>2, <2>3
  <2> HIDE DEF n
  <2> QED BY <1>6, <2>4, <2>5, <2>6
<1>9. Good(s)
  BY <1>6, <1>7, <1>8
<1> QED BY <1>9

-----------------------------------------------------------------------------
(* What a roll-up tells of rows.                                           *)
Tells(r, rows) ==
  /\ r.count = Cardinality(rows)
  /\ \A s \in rows :
       /\ r.min <= s.value /\ s.value <= r.max
       /\ (\A o \in rows : o.id <= s.id) => r.last = s.value
  /\ rows # {} => {r.min, r.max} \subseteq {s.value : s \in rows}
  /\ r.total = TotalOf(rows)

(* A roll-up that tells of rows tells, with the value of a later one, of   *)
(* that one too.                                                           *)
LEMMA UpsertTells ==
  ASSUME NEW rows \in FiniteSubsetsOf(Sample), NEW r \in Rollup, NEW x \in Sample,
         \A s \in rows : s.id < x.id, Tells(r, rows)
  PROVE  Tells(Upsert(r, x.value), rows \union {x})
<1> DEFINE new == Upsert(r, x.value)
           all == rows \union {x}
<1> SUFFICES Tells(new, all)
  OBVIOUS
<1>t. /\ rows \subseteq Sample /\ IsFiniteSet(rows) /\ x.value \in Nat /\ x.id \in Nat
      /\ \A s \in rows : s.value \in Nat /\ s.id \in Nat
      /\ r.count \in Nat /\ r.total \in Nat /\ r.min \in Nat /\ r.max \in Nat
  BY TimeAssumption DEF FiniteSubsetsOf, Sample, Rollup
<1>x. x \notin rows
  BY <1>t
<1>1. /\ IsFiniteSet(all) /\ Cardinality(all) = Cardinality(rows) + 1
      /\ all \in FiniteSubsetsOf(Sample)
  BY <1>t, <1>x, FS_AddElement DEF FiniteSubsetsOf
<1>2. TotalOf(all) = TotalOf(rows) + x.value
  <2>1. all \ {x} = rows /\ x \in all
    BY <1>x
  <2>2. TotalOf(all) = x.value + TotalOf(all \ {x})
    BY <1>1, <2>1, TotalOfRows
  <2>3. TotalOf(rows) \in Nat
    BY TotalOfRows
  <2> QED BY <1>t, <2>1, <2>2, <2>3
<1>3. r.count = 0 <=> rows = {}
  BY <1>t, FS_EmptySet DEF Tells
<1>4. new.last = x.value
  BY DEF Upsert
<1>5. ASSUME NEW s \in all, \A o \in all : o.id <= s.id PROVE new.last = s.value
  <2>1. x.id <= s.id
    BY <1>5
  <2>2. s = x
    BY <2>1, <1>t
  <2> QED BY <1>4, <2>2
<1>6. CASE rows = {}
  <2>1. all = {x} /\ r.count = 0
    BY <1>3, <1>6
  <2>2. new.count = 1 /\ new.total = x.value /\ new.min = x.value /\ new.max = x.value
    BY <2>1 DEF Upsert
  <2>3. TotalOf(rows) = 0 /\ Cardinality(rows) = 0
    BY <1>6, TotalTaken, FS_EmptySet
  <2>4. new.count = Cardinality(all) /\ new.total = TotalOf(all)
    BY <1>t, <1>1, <1>2, <2>2, <2>3
  <2>5. /\ \A s \in all : new.min <= s.value /\ s.value <= new.max
        /\ {new.min, new.max} \subseteq {s.value : s \in all}
    BY <1>t, <2>1, <2>2
  <2> HIDE DEF new, all
  <2> QED BY <1>5, <2>4, <2>5 DEF Tells
<1>7. CASE rows # {}
  <2>1. /\ new.count = r.count + 1 /\ new.total = r.total + x.value
        /\ new.min = Smaller(r.min, x.value) /\ new.max = Larger(r.max, x.value)
    BY <1>3, <1>7 DEF Upsert
  <2>2. new.count = Cardinality(all) /\ new.total = TotalOf(all)
    BY <2>1, <1>1, <1>2 DEF Tells
  <2>3. ASSUME NEW s \in all PROVE new.min <= s.value /\ s.value <= new.max
    <3>1. s \in rows => r.min <= s.value /\ s.value <= r.max
      BY DEF Tells
    <3> QED BY <1>t, <2>1, <3>1 DEF Smaller, Larger
  <2>4. {new.min, new.max} \subseteq {s.value : s \in all}
    <3>1. PICK lo \in rows, hi \in rows : r.min = lo.value /\ r.max = hi.value
      BY <1>7 DEF Tells
    <3>2. new.min \in {lo.value, x.value} /\ new.max \in {hi.value, x.value}
      BY <2>1, <3>1 DEF Smaller, Larger
    <3> QED BY <3>2
  <2> HIDE DEF new, all
  <2> QED BY <1>5, <2>2, <2>3, <2>4 DEF Tells
<1> QED BY <1>6, <1>7

(* ViewsAgree needs to know that the rows are finitely many, and that the  *)
(* next one is the latest of all.                                          *)
ViewsInv ==
  /\ IsFiniteSet(raw)
  /\ \A s \in raw : s.id <= stored
  /\ \A b \in Bucket : b * Hour >= swept => Tells(rollup[b], RowsOf(b))

(* A capture is stored in both tables.                                     *)
LEMMA InsertAgrees ==
  ASSUME MetricsTypeOK, ClockInv, ViewsInv, NEW t \in Task, NEW v \in Value,
         task[t].at = "metrics", Insert(t, v)
  PROVE  ViewsInv'
<1> DEFINE sample == [id |-> stored + 1, ts |-> task[t].now, value |-> v]
           at     == toHourlyBucket(task[t].now)
<1>1. /\ raw' = raw \union {sample} /\ stored' = stored + 1 /\ swept' = swept
      /\ rollup' = [rollup EXCEPT ![at] = Upsert(@, v)]
  BY DEF Insert
<1>2. /\ sample \in Sample /\ raw \subseteq Sample /\ stored \in Nat
      /\ sample.id = stored + 1 /\ sample.ts = task[t].now /\ sample.value = v
      /\ task[t].now \in Time
  BY DEF MetricsTypeOK, ClockInv, Capturing, Sample
<1>3. at \in Bucket /\ rollup \in [Bucket -> Rollup]
  BY <1>2, Hourly DEF MetricsTypeOK
<1> HIDE DEF sample, at
<1>4. IsFiniteSet(raw')
  BY <1>1, FS_AddElement DEF ViewsInv
<1>5. \A s \in raw' : s.id <= stored'
  BY <1>1, <1>2 DEF ViewsInv, Sample
<1>6. ASSUME NEW b \in Bucket, b * Hour >= swept' PROVE Tells(rollup'[b], RowsOf(b)')
  <2>1. Tells(rollup[b], RowsOf(b))
    BY <1>1, <1>6 DEF ViewsInv
  <2>2. CASE b # at
    <3>1. RowsOf(b)' = RowsOf(b)
      BY <1>1, <1>2, <2>2 DEF RowsOf, at
    <3>2. rollup'[b] = rollup[b]
      BY <1>1, <1>3, <2>2
    <3> QED BY <2>1, <3>1, <3>2
  <2>3. CASE b = at
    <3>1. RowsOf(b)' = RowsOf(b) \union {sample}
      BY <1>1, <1>2, <2>3 DEF RowsOf, at
    <3>2. rollup'[b] = Upsert(rollup[b], sample.value) /\ rollup[b] \in Rollup
      BY <1>1, <1>2, <1>3, <2>3
    <3>3. RowsOf(b) \in FiniteSubsetsOf(Sample)
      <4>1. RowsOf(b) \subseteq raw
        BY DEF RowsOf
      <4> QED BY <4>1, <1>2, FS_Subset DEF ViewsInv, FiniteSubsetsOf
    <3>4. \A s \in RowsOf(b) : s.id < sample.id
      BY <1>2 DEF RowsOf, ViewsInv, Sample
    <3> QED BY <1>2, <2>1, <3>1, <3>2, <3>3, <3>4, UpsertTells
  <2> QED BY <2>2, <2>3
<1> QED BY <1>4, <1>5, <1>6 DEF ViewsInv

(* A sweep leaves the hours it does not claim as they are.                 *)
LEMMA PurgeAgrees ==
  ASSUME MetricsTypeOK, ViewsInv, Deletes
  PROVE  ViewsInv'
<1>1. PICK table \in Table, keep \in Keep : Purge(table, keep)
  BY DEF Deletes
<1> DEFINE cutoff == clock - keep
<1>2. cutoff \in Nat /\ swept \in Nat /\ Hour \in Nat
  BY <1>1, TimeAssumption DEF Purge, MetricsTypeOK, Time
<1>3. /\ raw' = IF table = "samples" THEN {s \in raw : s.ts >= cutoff} ELSE raw
      /\ rollup' = IF table = "samples" THEN rollup
                   ELSE [b \in Bucket |-> IF b * Hour < cutoff THEN NoRollup ELSE rollup[b]]
      /\ swept' = Larger(swept, cutoff) /\ stored' = stored
  BY <1>1 DEF Purge
<1> HIDE DEF cutoff
<1>4. IsFiniteSet(raw') /\ \A s \in raw' : s.id <= stored'
  BY <1>3, FS_Subset DEF ViewsInv
<1>5. ASSUME NEW b \in Bucket, b * Hour >= swept' PROVE Tells(rollup'[b], RowsOf(b)')
  <2>1. b \in Nat /\ b * Hour \in Nat
    BY <1>2 DEF Bucket
  <2>2. b * Hour >= swept /\ b * Hour >= cutoff
    BY <1>2, <1>3, <1>5, <2>1 DEF Larger
  <2>3. rollup'[b] = rollup[b]
    BY <1>2, <1>3, <2>1, <2>2
  <2>4. ASSUME NEW s \in RowsOf(b) PROVE s \in raw'
    <3>1. s \in raw /\ s.ts \in Nat /\ toHourlyBucket(s.ts) = b
      BY TimeAssumption DEF RowsOf, MetricsTypeOK, Sample, Time
    <3>2. b * Hour <= s.ts
      BY <3>1, Hourly
    <3>3. s.ts >= cutoff
      BY <1>2, <2>1, <2>2, <3>1, <3>2
    <3> QED BY <1>3, <3>1, <3>3
  <2>5. RowsOf(b)' = RowsOf(b)
    BY <1>3, <2>4 DEF RowsOf
  <2> QED BY <2>2, <2>3, <2>5 DEF ViewsInv
<1> QED BY <1>4, <1>5 DEF ViewsInv

(* The long ranges of a chart tell of an hour what the short ones tell of  *)
(* it, until a sweep has deleted from that hour, for every number of       *)
(* captures that cross, stores that are cut short, and every retention;    *)
(* the last value they tell is that of the latest sample unless one whose  *)
(* capture began before it was stored after it.                            *)
THEOREM ViewsAlwaysAgree == MetricsSpec => []ViewsAgree
<1>1. MetricsInit => ViewsInv
  <2> SUFFICES ASSUME MetricsInit PROVE ViewsInv
    OBVIOUS
  <2>1. IsFiniteSet(raw)
    BY FS_EmptySet DEF MetricsInit
  <2>2. ASSUME NEW b \in Bucket PROVE Tells(rollup[b], RowsOf(b))
    <3>1. RowsOf(b) = {} /\ rollup[b] = NoRollup
      BY DEF MetricsInit, RowsOf
    <3> QED BY <3>1, TotalTaken, FS_EmptySet DEF Tells, NoRollup
  <2> QED BY <2>1, <2>2 DEF ViewsInv, MetricsInit
<1>2. MetricsTypeOK /\ ClockInv /\ ViewsInv /\ [MetricsNext]_metricsVars => ViewsInv'
  <2> SUFFICES ASSUME MetricsTypeOK, ClockInv, ViewsInv, Effects PROVE ViewsInv'
    BY StepEffects
  <2>1. CASE UNCHANGED <<raw, rollup, stored, swept>>
    BY <2>1 DEF ViewsInv, RowsOf
  <2>2. CASE Stores
    BY <2>2, InsertAgrees DEF Stores
  <2>3. CASE Deletes
    BY <2>3, PurgeAgrees
  <2> QED BY <2>1, <2>2, <2>3 DEF Effects
<1>3. MetricsTypeOK /\ ViewsInv => ViewsAgree
  <2> SUFFICES ASSUME MetricsTypeOK, ViewsInv, NEW b \in Bucket, b * Hour >= swept,
                      NEW s \in RowsOf(b), ~Overtaken(s, RowsOf(b))
               PROVE  rollup[b].last = s.value
    BY DEF ViewsInv, ViewsAgree, Tells
  <2>1. \A o \in RowsOf(b) : o.id \in Nat
    BY DEF RowsOf, MetricsTypeOK, Sample
  <2>2. \A o \in RowsOf(b) : o.id <= s.id
    BY <2>1 DEF Overtaken
  <2> QED BY <2>2 DEF ViewsInv, Tells
<1> QED BY <1>1, <1>2, <1>3, MetricsTyped, PTL DEF MetricsSpec
=============================================================================
