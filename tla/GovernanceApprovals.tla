------------------------ MODULE GovernanceApprovals ------------------------
(***************************************************************************)
(* The approval queue of server/services/governance.js: operators request  *)
(* an approval for one scope (action key, entity type and entity), admins  *)
(* decide it, and a gated mutation consumes it (middleware/governance.js). *)
(*                                                                         *)
(* The queue is one settings value: every operation reads it, normalises   *)
(* all its records (an active one past its expiry becomes expired), keeps  *)
(* the newest MaxApprovals and writes it back in one synchronous stretch.  *)
(* Requests are numbered in the order they are made, so that a record is   *)
(* still kept while fewer than MaxApprovals newer ones exist.              *)
(*                                                                         *)
(* The approval window (isWithinApprovalWindow) only refuses decisions and *)
(* is left out: a refused decision changes nothing but what List does.     *)
(***************************************************************************)
EXTENDS Naturals

CONSTANTS
  Person,        \* operators; those who decide hold an admin session
  System,        \* the name recorded when a session carries none
  None,          \* an empty field
  Scope,         \* what an approval can be for
  Gated,         \* scopes of a domain that has an approver group
  Member,        \* members of that group
  MaxApprovals,  \* MAX_APPROVALS (250 in the code)
  RequestBound,  \* bound: requests made
  DecisionBound, \* bound: settled decisions per request
  Policies       \* bound: the settings of the policy switches tried

ASSUME ApprovalAssumption ==
  /\ System \in Person /\ None \notin Person \union Scope
  /\ Gated \subseteq Scope /\ Member \subseteq Person
  /\ Policies \subseteq SUBSET {"separate", "twoPerson", "group"}
  /\ MaxApprovals \in Nat \ {0} /\ RequestBound \in Nat /\ DecisionBound \in Nat

VARIABLES
  record,   \* request number -> the approval record
  made,     \* requests made so far
  lapsed,   \* requests whose expiresAt has passed
  policy,   \* the policy switches that are on
  settled,  \* history: decisions that approved or rejected a request
  grants,   \* history: those that approved it, the policy being then as in under
  uses,     \* history: mutations a request let through
  under

vars == <<record, made, lapsed, policy, settled, grants, uses, under>>

Id     == 1..RequestBound
Active == {"pending", "awaiting_second_approval", "approved"}
Status == Active \union {"rejected", "used", "expired"}

(* requireApproverDifferentFromRequester, requireTwoPersonApproval and     *)
(* requireDomainApproverGroup.                                             *)
Switch == {"separate", "twoPerson", "group"}

Approval == [status : Status, by : Person, scope : Scope \union {None},
             first : Person \union {None}, decider : Person \union {None}]

(* What stands in the place of a request not made yet.                     *)
Blank == [status |-> "expired", by |-> System, scope |-> None, first |-> None, decider |-> None]

Kept(i) == i <= made /\ made < i + MaxApprovals

(* Mutant: expired approvals stay active.                                  *)
NormalNever(records) == records

(* normalizeApproval() of the records, as of now.                          *)
Normal(records) ==
  [i \in Id |-> IF i \in lapsed /\ records[i].status \in Active
                  THEN [records[i] EXCEPT !.status = "expired"] ELSE records[i]]

(* The gates an approving decision passes.                                 *)
MayApprove(i, person) ==
  /\ ~("separate" \in policy /\ record[i].by # System /\ record[i].by = person)
  /\ ~("group" \in policy /\ record[i].scope \in Gated /\ person \notin Member \ {System})

-----------------------------------------------------------------------------
Init ==
  /\ record = [i \in Id |-> Blank]
  /\ made = 0 /\ lapsed = {}
  /\ policy = {}
  /\ settled = [i \in Id |-> 0] /\ grants = [i \in Id |-> 0] /\ uses = [i \in Id |-> 0]
  /\ under = [i \in Id |-> {}]

history == <<settled, grants, uses, under>>

(* requestApproval(): a new record at the head of the queue.               *)
Request(person, scope) ==
  /\ made < RequestBound
  /\ made' = made + 1
  /\ record' = [Normal(record) EXCEPT ![made + 1] =
       [status |-> "pending", by |-> person, scope |-> scope,
        first |-> None, decider |-> None]]
  /\ UNCHANGED <<lapsed, policy, history>>

(* listApprovals(), which every refused operation runs as well.            *)
List ==
  /\ record' = Normal(record)
  /\ UNCHANGED <<made, lapsed, policy, history>>

(* A request passes its expiresAt.                                         *)
Lapse(i) ==
  /\ Kept(i) /\ i \notin lapsed
  /\ lapsed' = lapsed \union {i}
  /\ UNCHANGED <<record, made, policy, history>>

(* decideApproval(), a decision that settles a request, whatever its       *)
(* status was: an expired one that is approved stays expired.              *)
Settle(i, person, status, shown) ==
  /\ settled[i] < DecisionBound
  /\ record' = Normal([shown EXCEPT ![i].status = status, ![i].decider = person])
  /\ settled' = [settled EXCEPT ![i] = @ + 1]
  /\ UNCHANGED <<made, lapsed, policy, uses>>

Reject(i, person) ==
  /\ Kept(i)
  /\ Settle(i, person, "rejected", Normal(record))
  /\ UNCHANGED <<grants, under>>

(* Two-person approval: the first approval of a pending request is staged. *)
ApproveFirst(i, person) ==
  LET shown == Normal(record) IN
  /\ Kept(i) /\ MayApprove(i, person)
  /\ "twoPerson" \in policy /\ shown[i].status = "pending"
  /\ record' = [shown EXCEPT ![i].status = "awaiting_second_approval", ![i].first = person]
  /\ UNCHANGED <<made, lapsed, policy, history>>

(* Mutant: the first approver may give the second approval too.            *)
ApproveTwice(i, person) ==
  LET shown == Normal(record) IN
  /\ Kept(i) /\ MayApprove(i, person)
  /\ ~("twoPerson" \in policy /\ shown[i].status = "pending")
  /\ Settle(i, person, "approved", shown)
  /\ grants' = [grants EXCEPT ![i] = @ + 1]
  /\ under' = [under EXCEPT ![i] = policy]

ApproveFinal(i, person) ==
  LET shown == Normal(record) IN
  /\ Kept(i) /\ MayApprove(i, person)
  /\ "twoPerson" \in policy =>
       /\ shown[i].status # "pending"
       /\ ~(shown[i].status = "awaiting_second_approval" /\ shown[i].first = person)
  /\ Settle(i, person, "approved", shown)
  /\ grants' = [grants EXCEPT ![i] = @ + 1]
  /\ under' = [under EXCEPT ![i] = policy]

(* Mutant: the ticket stays approved when it is used.                      *)
UseKept(i, scope) ==
  LET shown == Normal(record) IN
  /\ Kept(i)
  /\ shown[i].status = "approved" /\ shown[i].scope = scope
  /\ record' = shown
  /\ uses' = [uses EXCEPT ![i] = @ + 1]
  /\ UNCHANGED <<made, lapsed, policy, settled, grants, under>>

(* consumeApproval() of a gated mutation, which then goes ahead.           *)
Use(i, scope) ==
  LET shown == Normal(record) IN
  /\ Kept(i)
  /\ shown[i].status = "approved" /\ shown[i].scope = scope
  /\ record' = [shown EXCEPT ![i].status = "used"]
  /\ uses' = [uses EXCEPT ![i] = @ + 1]
  /\ UNCHANGED <<made, lapsed, policy, settled, grants, under>>

(* PUT /api/governance/policy.                                             *)
UpdatePolicy(switches) ==
  /\ policy' = switches
  /\ UNCHANGED <<record, made, lapsed, history>>

Next ==
  \/ \E person \in Person, scope \in Scope : Request(person, scope)
  \/ \E i \in Id, person \in Person :
       Reject(i, person) \/ ApproveFirst(i, person) \/ ApproveFinal(i, person)
  \/ \E i \in Id, scope \in Scope : Use(i, scope)
  \/ \E i \in Id : Lapse(i)
  \/ \E switches \in Policies : UpdatePolicy(switches)
  \/ List

Spec == Init /\ [][Next]_vars

-----------------------------------------------------------------------------
(* Types of the variables.                                                 *)
TypeOK ==
  /\ record \in [Id -> Approval]
  /\ made \in 0..RequestBound /\ lapsed \subseteq Id
  /\ policy \subseteq Switch
  /\ settled \in [Id -> Nat] /\ grants \in [Id -> Nat] /\ uses \in [Id -> Nat]
  /\ under \in [Id -> SUBSET Switch]

(* An approval lets through at most one mutation per approving decision,   *)
(* across rejections, re-decisions and expiry.                             *)
UsePerGrant == \A i \in Id : uses[i] <= grants[i]

(* Nothing goes through on an approval past its expiry, when it was        *)
(* approved, or approved again, after it.                                  *)
NoLapsedUse == [][\A i \in lapsed : uses'[i] = uses[i]]_vars

(* Whoever approved a request that is or was good for a mutation met the   *)
(* policy in force then: not its requester, a member of its domain group.  *)
RightApprover ==
  \A i \in Id : record[i].status \in {"approved", "used"} =>
    /\ "separate" \in under[i] /\ record[i].by # System => record[i].decider # record[i].by
    /\ "group" \in under[i] /\ record[i].scope \in Gated => record[i].decider \in Member

(* A request settled once, by an approval under the two-person policy, has *)
(* two distinct approvers.                                                 *)
TwoApprovers ==
  \A i \in Id :
    /\ record[i].status \in {"approved", "used"}
    /\ settled[i] = 1 /\ "twoPerson" \in under[i]
    => record[i].first \notin {None, record[i].decider}

(* An approval is good for one mutation.                                   *)
SingleUse == \A i \in Id : uses[i] <= 1
=============================================================================
