-------------------------- MODULE MCWorkflowEngine --------------------------
(* TLC instances of WorkflowEngine: the requests of each run.              *)
EXTENDS WorkflowEngine

Req(type, lock, max, timed, later) ==
  [type |-> type, lock |-> lock, key |-> NoKey, max |-> max,
   timed |-> timed, later |-> later]

(* Three jobs, each created at most once: a timed one outside what the     *)
(* engine expects, whose handler may ask for approval and work on, under a *)
(* lock; one that needs that lock; and one that needs none.                *)
LingerRequests ==
  {[Req("change", "pool", 1, TRUE, FALSE) EXCEPT !.key = "once"],
   [Req("deploy", "pool", 1, FALSE, FALSE) EXCEPT !.key = "once"],
   [Req("deploy", NoLock, 1, FALSE, FALSE) EXCEPT !.key = "other"]}

(* A job that may pause under the lock another one needs, a timed and      *)
(* compensated one, and a scheduled one that carries an idempotency key.   *)
DrainRequests ==
  {Req("change", "pool", 1, FALSE, FALSE), Req("deploy", "pool", 2, TRUE, FALSE),
   [Req("deploy", "pool", 1, FALSE, TRUE) EXCEPT !.key = "once"]}
=============================================================================
