---------------------------- MODULE JobLifecycle ----------------------------
(***************************************************************************)
(* What the workflow queue promises for one job, whatever the clock, the   *)
(* handlers and the process do: it is queued, claimed by one execution at  *)
(* a time, put back, paused for approval, and finally done, for good.      *)
(* WorkflowEngine is shown to implement it.                                *)
(*                                                                         *)
(* A job cancelled while an execution is in flight stays claimed here: the *)
(* code does not stop that execution, whose end may still put the job back *)
(* in the queue.                                                           *)
(***************************************************************************)
EXTENDS Naturals

CONSTANT Job

VARIABLES
  phase, \* absent, queued, claimed, paused or done, per job
  tries  \* executions that claimed the job so far

vars == <<phase, tries>>

Phase == {"absent", "queued", "claimed", "paused", "done"}

Init ==
  /\ phase = [w \in Job |-> "absent"]
  /\ tries = [w \in Job |-> 0]

Move(w, from, to) ==
  /\ phase[w] = from
  /\ phase' = [phase EXCEPT ![w] = to]

Submit(w)   == Move(w, "absent", "queued") /\ UNCHANGED tries
Claim(w)    == Move(w, "queued", "claimed") /\ tries' = [tries EXCEPT ![w] = @ + 1]
Requeue(w)  == Move(w, "claimed", "queued") /\ UNCHANGED tries
Pause(w)    == Move(w, "claimed", "paused") /\ UNCHANGED tries
Resume(w)   == Move(w, "paused", "queued") /\ UNCHANGED tries
Finish(w)   == Move(w, "claimed", "done") /\ UNCHANGED tries
Withdraw(w) == \E from \in {"queued", "paused"} : Move(w, from, "done") /\ UNCHANGED tries

(* A crash takes every claim with it: the job is queued again, or done if  *)
(* it had been cancelled.                                                  *)
Crash ==
  /\ \A w \in Job :
       IF phase[w] = "claimed" THEN phase'[w] \in {"queued", "done"}
                               ELSE phase'[w] = phase[w]
  /\ phase' \in [Job -> Phase]
  /\ UNCHANGED tries

Next ==
  \/ \E w \in Job : \/ Submit(w) \/ Claim(w) \/ Requeue(w) \/ Pause(w)
                    \/ Resume(w) \/ Finish(w) \/ Withdraw(w)
  \/ Crash

Spec == Init /\ [][Next]_vars
=============================================================================
