-------------------------- MODULE RequestLifecycle --------------------------
(***************************************************************************)
(* What the self-service catalog promises for a request, whoever reviews   *)
(* it, whatever becomes of its entry and whenever the process dies: it is  *)
(* decided once, by one of policy, review and hook; an approval names it   *)
(* with the next number; an approved request is deployed once; what is     *)
(* shown active had a machine built for it; only the machine of an active  *)
(* request is destroyed, and the request is reclaimed only after that.     *)
(* CatalogRequests is shown to implement it.                               *)
(*                                                                         *)
(* Quotas, chains of approvals, deliveries, leases, versions of the entry  *)
(* and handlers that a crash ends do not show here.                        *)
(***************************************************************************)
EXTENDS Naturals

CONSTANT Request

VARIABLES
  phase,   \* per request
  decider, \* who decided it
  number,  \* the number its name is made with, or 0
  given,   \* the last number given
  machine  \* none, live or destroyed, per request

vars == <<phase, decider, number, given, machine>>

Init ==
  /\ phase = [r \in Request |-> "absent"]
  /\ decider = [r \in Request |-> "none"]
  /\ number = [r \in Request |-> 0] /\ given = 0
  /\ machine = [r \in Request |-> "none"]

Move(r, from, to) ==
  /\ phase[r] = from
  /\ phase' = [phase EXCEPT ![r] = to]

Ask(r) == Move(r, "absent", "waiting") /\ UNCHANGED <<decider, number, given, machine>>

DecidedBy(r, who) == decider' = [decider EXCEPT ![r] = who] /\ UNCHANGED machine

Grant(r, who) ==
  /\ Move(r, IF who = "policy" THEN "absent" ELSE "waiting", "approved")
  /\ number' = [number EXCEPT ![r] = given + 1] /\ given' = given + 1
  /\ DecidedBy(r, who)

Refuse(r, who) ==
  /\ Move(r, "waiting", "refused")
  /\ UNCHANGED <<number, given>>
  /\ DecidedBy(r, who)

Deploy(r)  == Move(r, "approved", "building") /\ UNCHANGED <<decider, number, given, machine>>
Fail(r)    == Move(r, "building", "failed") /\ UNCHANGED <<decider, number, given, machine>>

Deliver(r) ==
  /\ machine[r] = "live" /\ Move(r, "building", "active")
  /\ UNCHANGED <<decider, number, given, machine>>

Reclaim(r) ==
  /\ machine[r] = "destroyed" /\ Move(r, "active", "reclaimed")
  /\ UNCHANGED <<decider, number, given, machine>>

Machine(r, during, from, to) ==
  /\ phase[r] = during /\ machine[r] = from
  /\ machine' = [machine EXCEPT ![r] = to]
  /\ UNCHANGED <<phase, decider, number, given>>

Build(r)   == Machine(r, "building", "none", "live")
Destroy(r) == Machine(r, "active", "live", "destroyed")

Next ==
  \E r \in Request :
    \/ Ask(r) \/ Deploy(r) \/ Fail(r) \/ Deliver(r) \/ Reclaim(r) \/ Build(r) \/ Destroy(r)
    \/ \E who \in {"policy", "review", "hook"} : Grant(r, who)
    \/ \E who \in {"review", "hook"} : Refuse(r, who)

Spec == Init /\ [][Next]_vars
=============================================================================
