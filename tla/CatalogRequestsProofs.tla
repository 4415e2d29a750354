----------------------- MODULE CatalogRequestsProofs -----------------------
(***************************************************************************)
(* Proofs about CatalogRequests, for any requests, people, policies and    *)
(* bounds.  Each part of the invariant below is kept by every step in      *)
(* states that satisfy TypeOK and, where it says so, the parts before it.  *)
(***************************************************************************)
EXTENDS CatalogRequests, FiniteSetTheorems, TLAPS

(* What the hook worker holds is still what the table says of it.          *)
WorkerAgrees ==
  /\ \A b, c \in batch : b.id = c.id => b = c
  /\ \A b \in batch : hook[b.id].status = "pending"
  /\ \A r \in at : hook[r].status = "processing"

(* A request has a settler just when a decision ended its wait, and a name *)
(* of the past of the sequence; before it is submitted it has no hook.     *)
Settled(r) ==
  /\ settler[r] = "none" <=> row[r].status \in {"absent", "pending"}
  /\ row[r].status = "absent" => hook[r].status = "none"
  /\ hook[r].status = "complete" <=> settler[r] = "hook"

NumberPast(r) == row[r].number < next

(* A chain of steps and a hook never share a request, and a chain under    *)
(* way has one approver for every step it has completed.                   *)
Chained(r) ==
  /\ IsFiniteSet(row[r].approvers)
  /\ hook[r].status # "none" => row[r].left = 0 /\ row[r].approvers = {}
  /\ row[r].status = "absent" => row[r].left = 0 /\ row[r].approvers = {}
  /\ row[r].status = "pending" =>
       \/ row[r].left = 0 /\ row[r].approvers = {}
       \/ row[r].left > 0 /\ Cardinality(row[r].approvers) + row[r].left = Steps
  /\ row[r].approvers # {} /\ row[r].status \in {"approved", "deploying"} \union Deployed =>
       Cardinality(row[r].approvers) = Steps

(* An attempt that waits has deliveries left.                              *)
Tried(r) ==
  /\ hook[r].status = "pending" => hook[r].tries < MaxAttempts + restarts
  /\ hook[r].tries <= MaxAttempts + restarts

(* What runs for a request says where its row is, a deployment has begun   *)
(* only past the approval, and a pool that answered destroyed the machine. *)
Deploying(r) ==
  /\ work[r] = "deploying" => row[r].status = "deploying"
  /\ work[r] \in {"destroying", "destroyed"} => row[r].status \in {"complete", "expired"}
  /\ row[r].status \in {"absent", "pending", "approved"} => begun[r] = 0
  /\ begun[r] <= 1
  /\ row[r].status = "deploying" => work[r] = "deploying" \/ r \in lost
  /\ work[r] = "destroyed" => vm[r] = "destroyed"
  /\ row[r].status = "reclaimed" => vm[r] = "destroyed"
  /\ row[r].status \in {"complete", "expired"} => vm[r] = "live" \/ work[r] = "destroyed" \/ r \in lost

(* What is or can be published was validated as it stands, unless an edit  *)
(* was cut off or the library item changed; and so is what a request waits *)
(* for, unless an edit came.                                               *)
Vouched == ~torn /\ ~loose /\ (published \/ tested = "validated") => sound

Waiting(r) == row[r].status \in {"pending", "approved"}

Awaited(r) == Waiting(r) => sound \/ torn \/ loose \/ r \in drifted

-----------------------------------------------------------------------------
(* Steps that leave the requests and their hooks alone, and steps of the   *)
(* hook worker that leave the requests alone.                              *)
Quiet ==
  \/ Poll \/ Publish \/ (\E verdict \in Verdict : Validate(verdict))
  \/ EditSource \/ \E m \in Policy, p \in Pattern : EditEntry(m, p) \/ TearEntry(m, p)
  \/ \E r \in Request : XenBuilds(r) \/ Decommission(r) \/ XenDestroys(r) \/ DestroyFails(r)

Hooking == Restart \/ (\E b \in batch : Claim(b)) \/ \E r \in Request : NoAnswer(r)

(* Quiet steps leave requests, hooks and their history alone.              *)
LEMMA QuietEffect == Quiet => UNCHANGED <<row, next, hook, settler, restarts>>
  BY DEF Quiet, Poll, Publish, Validate, EditEntry, TearEntry, EditSource, Rewrite, Drift,
         XenBuilds, Decommission, XenDestroys, DestroyFails

(* Steps of the hook worker other than an answer leave the requests alone. *)
LEMMA HookingEffect == Hooking => UNCHANGED <<row, next, settler>>
  BY DEF Hooking, Restart, Claim, NoAnswer, Finish

(* What a step that sets the status of one request leaves of its row.      *)
StatusOnly(r, status) ==
  /\ row' \in [Request -> Row]
  /\ \A q \in Request \ {r} : row'[q] = row[q]
  /\ row'[r].status = status /\ row'[r].by = row[r].by
  /\ row'[r].number = row[r].number /\ row'[r].pattern = row[r].pattern
  /\ row'[r].left = row[r].left /\ row'[r].approvers = row[r].approvers

(* Setting the status of a request touches nothing else of any row.        *)
LEMMA StatusEffect ==
  ASSUME TypeOK, NEW r \in Request, NEW status \in Status,
         row' = [row EXCEPT ![r].status = status]
  PROVE  StatusOnly(r, status)
  BY DEF TypeOK, Row, StatusOnly

(* What an approval leaves, whoever decided it.                            *)
Approved(r, who, approvers) ==
  /\ row[r].status = "pending"
  /\ row' \in [Request -> Row] /\ next' = next + 1
  /\ \A q \in Request \ {r} : row'[q] = row[q]
  /\ row'[r].status = "approved" /\ row'[r].by = row[r].by
  /\ row'[r].number = next /\ row'[r].pattern = pattern
  /\ row'[r].left = 0 /\ row'[r].approvers = approvers
  /\ settler' \in [Request -> {"none", "policy", "review", "hook"}]
  /\ settler'[r] = who /\ \A q \in Request \ {r} : settler'[q] = settler[q]

(* Approve() leaves what Approved says.                                    *)
LEMMA ApproveEffect ==
  ASSUME TypeOK, NEW r \in Request, NEW who \in {"review", "hook"},
       NEW approvers \in SUBSET Admin,
         Approve(r, who, approvers)
  PROVE  Approved(r, who, approvers)
<1>1. row[r] \in Row /\ next \in Nat /\ pattern \in Pattern /\ "approved" \in Status
  BY DEF TypeOK, Status, Counted
<1>2. row' = [row EXCEPT ![r] = [row[r] EXCEPT !.status = "approved", !.pattern = pattern,
                                               !.number = next, !.left = 0,
                                               !.approvers = approvers]]
  BY DEF Approve, TypeOK
<1>3. [row[r] EXCEPT !.status = "approved", !.pattern = pattern, !.number = next,
                !.left = 0, !.approvers = approvers] \in Row
  BY <1>1 DEF Row
<1> QED BY <1>1, <1>2, <1>3 DEF TypeOK, Row, Approve, Approved

(* What a review leaves when steps of the chain remain.                    *)
Stepped(r, admin) ==
  /\ row[r].left > 1 /\ UNCHANGED <<next, settler>>
  /\ row' \in [Request -> Row]
  /\ \A q \in Request \ {r} : row'[q] = row[q]
  /\ row'[r].status = "pending" /\ row'[r].by = row[r].by
  /\ row'[r].number = row[r].number /\ row'[r].pattern = row[r].pattern
  /\ row'[r].left = row[r].left - 1 /\ row'[r].approvers = row[r].approvers \union {admin}

ReviewLeaves(r, admin) ==
  /\ row[r].status = "pending" /\ row[r].left \in Nat
  /\ row[r].left > 0 => admin \notin row[r].approvers
  /\ UNCHANGED <<mode, pattern, published, tested, torn, loose, sound, drifted, hook,
                 batch, at, work, vm, begun, lost, restarts>>
  /\ \/ row[r].left = 0 /\ Approved(r, "review", {})
     \/ row[r].left = 1 /\ Approved(r, "review", row[r].approvers \union {admin})
     \/ Stepped(r, admin)

(* Review() approves a request without a chain, completes its last step,   *)
(* or one of the others.                                                   *)
LEMMA ReviewEffect ==
  ASSUME TypeOK, NEW r \in Request, NEW admin \in Admin, Review(r, admin)
  PROVE  ReviewLeaves(r, admin)
<1> USE DEF ReviewLeaves
<1>1. /\ row[r].status = "pending" /\ row[r] \in Row /\ row[r].left \in Nat
      /\ row[r].left > 0 => admin \notin row[r].approvers
      /\ UNCHANGED <<mode, pattern, published, tested, torn, loose, sound, drifted, hook,
                 batch, at, work, vm, begun, lost, restarts>>
  BY DEF TypeOK, Row, Review, entry, worker, machine
<1>2. CASE row[r].left = 0
  <2>1. Approve(r, "review", {})
    BY <1>2 DEF Review
  <2> QED BY <1>1, <1>2, <2>1, ApproveEffect
<1>3. CASE row[r].left = 1
  <2>1. Approve(r, "review", row[r].approvers \union {admin})
    BY <1>3 DEF Review
  <2>2. row[r].approvers \union {admin} \in SUBSET Admin
    BY <1>1 DEF Row
  <2> QED BY <1>1, <1>3, <2>1, <2>2, ApproveEffect
<1>4. CASE row[r].left > 1
  <2> DEFINE approvers == row[r].approvers \union {admin}
  <2>1. /\ row' = [row EXCEPT ![r].left = row[r].left - 1, ![r].approvers = approvers]
        /\ UNCHANGED <<next, settler>>
    BY <1>1, <1>4 DEF Review
  <2>2. approvers \in SUBSET Admin /\ row[r].left - 1 \in Nat
    BY <1>1, <1>4 DEF Row
  <2> HIDE DEF approvers
  <2>4. [row[r] EXCEPT !.left = row[r].left - 1, !.approvers = approvers] \in Row
    BY <1>1, <2>2 DEF Row
  <2>5. row' = [row EXCEPT ![r] = [row[r] EXCEPT !.left = row[r].left - 1,
       !.approvers = approvers]]
    BY <2>1 DEF TypeOK
  <2>3. row' \in [Request -> Row] /\ (\A q \in Request \ {r} : row'[q] = row[q])
        /\ row'[r] = [row[r] EXCEPT !.left = row[r].left - 1, !.approvers = approvers]
    BY <2>4, <2>5 DEF TypeOK
  <2> QED BY <1>1, <1>4, <2>1, <2>3 DEF Row, Stepped, approvers
<1> QED BY <1>1, <1>2, <1>3, <1>4

HookDecides(r) ==
  /\ row[r].status = "pending"
  /\ hook' \in [Request -> Hook]
  /\ hook'[r].status = "complete" /\ hook'[r].tries = hook[r].tries
  /\ \A q \in Request \ {r} : hook'[q] = hook[q]
  /\ settler' \in [Request -> {"none", "policy", "review", "hook"}]
  /\ settler'[r] = "hook" /\ \A q \in Request \ {r} : settler'[q] = settler[q]

HookLate(r) ==
  /\ hook' \in [Request -> Hook]
  /\ hook'[r].status = "cancelled" /\ hook'[r].tries = hook[r].tries
  /\ \A q \in Request \ {r} : hook'[q] = hook[q]
  /\ UNCHANGED <<row, next, settler>>

AnswerLeaves(r) ==
  /\ r \in at /\ at' = {}
  /\ UNCHANGED <<mode, pattern, published, tested, torn, loose, sound, drifted, batch,
                 work, vm, begun, lost, restarts>>
  /\ \/ HookDecides(r) /\ Approved(r, "hook", row[r].approvers)
     \/ HookDecides(r) /\ StatusOnly(r, "rejected") /\ UNCHANGED next
     \/ HookLate(r)

(* Answer() approves, rejects, or comes too late.                          *)
LEMMA AnswerEffect ==
  ASSUME TypeOK, NEW r \in Request, NEW decision \in {"approved", "rejected"}, Answer(r,
       decision)
  PROVE  AnswerLeaves(r)
<1> USE DEF AnswerLeaves, HookDecides, HookLate
<1>h. ASSUME NEW status \in {"complete", "cancelled"}, Finish(r, status)
      PROVE  /\ hook' \in [Request -> Hook]
             /\ hook'[r].status = status /\ hook'[r].tries = hook[r].tries
             /\ \A q \in Request \ {r} : hook'[q] = hook[q]
  BY <1>h DEF TypeOK, Hook, Finish
<1>1. /\ r \in at /\ at' = {}
      /\ UNCHANGED <<mode, pattern, published, tested, torn, loose, sound, drifted, batch,
                 work, vm, begun, lost, restarts>>
  BY DEF Answer, Finish, entry, machine
<1>2. CASE Finish(r, "complete") /\ Approve(r, "hook", row[r].approvers)
  <2>1. row[r].approvers \in SUBSET Admin
    BY DEF TypeOK, Row
  <2> QED BY <1>h, <1>1, <1>2, <2>1, ApproveEffect DEF Approved
<1>3. CASE Finish(r, "complete") /\ Decide(r, "hook", "rejected")
  <2>1. StatusOnly(r, "rejected") /\ row[r].status = "pending"
    BY <1>3, StatusEffect DEF Decide, Status
  <2> QED BY <1>h, <1>1, <1>3, <2>1 DEF Decide, TypeOK
<1>4. CASE Finish(r, "cancelled") /\ UNCHANGED <<row, next, settler>>
  BY <1>h, <1>1, <1>4
<1> QED BY <1>2, <1>3, <1>4 DEF Answer

(* The initial states are typed.                                           *)
LEMMA TypeInit == Init => TypeOK
<1> SUFFICES ASSUME Init PROVE TypeOK
  OBVIOUS
<1>1. row \in [Request -> Row] /\ hook \in [Request -> Hook]
  BY CatalogAssumption DEF Init, Row, Hook, Status
<1> QED BY <1>1, CatalogAssumption DEF Init, TypeOK

(* Every step keeps the types.                                             *)
LEMMA TypeStep ==
  ASSUME TypeOK, [Next]_vars
  PROVE  TypeOK'
<1> USE CatalogAssumption DEF TypeOK, worker, machine, entry
<1>1. ASSUME NEW r \in Request, NEW user \in User, NEW passes \in BOOLEAN, Submit(r, user,
       passes)
      PROVE  TypeOK'
  <2>1. row' \in [Request -> Row] /\ hook' \in [Request -> Hook]
    BY <1>1 DEF Submit, AutoApproves, Row, Hook, Status, Counted
  <2> QED BY <1>1, <2>1 DEF Submit, AutoApproves
<1>2. ASSUME NEW r \in Request, NEW admin \in Admin, Review(r, admin)
      PROVE  TypeOK'
  <2>1. ReviewLeaves(r, admin)
    BY <1>2, ReviewEffect
  <2>2. CASE row[r].left = 0 /\ Approved(r, "review", {})
    BY <2>1, <2>2 DEF ReviewLeaves, Approved
  <2>3. CASE row[r].left = 1 /\ Approved(r, "review", row[r].approvers \union {admin})
    BY <2>1, <2>3 DEF ReviewLeaves, Approved
  <2>4. CASE Stepped(r, admin)
    BY <2>1, <2>4 DEF ReviewLeaves, Stepped
  <2> QED BY <2>1, <2>2, <2>3, <2>4 DEF ReviewLeaves
<1>3. ASSUME NEW r \in Request, NEW status \in {"rejected", "cancelled"}, Refuse(r, status)
      PROVE  TypeOK'
  <2>1. StatusOnly(r, status)
    BY <1>3, StatusEffect DEF Refuse, Decide, Status, Counted, Deployed
  <2> QED BY <1>3, <2>1 DEF Refuse, Decide, StatusOnly
<1>4. ASSUME NEW r \in Request, NEW decision \in {"approved", "rejected"}, Answer(r, decision)
      PROVE  TypeOK'
  <2>1. AnswerLeaves(r)
    BY <1>4, AnswerEffect
  <2> QED BY <2>1 DEF AnswerLeaves, HookDecides, HookLate, Approved, StatusOnly
<1>5. ASSUME NEW r \in Request, NoAnswer(r)
      PROVE  TypeOK'
  BY <1>5 DEF NoAnswer, Finish, Hook
<1>6. ASSUME Poll
      PROVE  TypeOK'
  <2>1. ASSUME NEW b \in batch'
        PROVE  b \in [id : Request, pending : BOOLEAN, webhook : BOOLEAN]
    <3>1. PICK q \in Request :
            b = [id |-> q, pending |-> row[q].status = "pending", webhook |-> mode = "webhook"]
      BY <1>6, <2>1 DEF Poll
    <3> QED BY <3>1
  <2> QED BY <1>6, <2>1 DEF Poll
<1>7. ASSUME NEW b \in batch, Claim(b)
      PROVE  TypeOK'
  BY <1>7 DEF Claim, Hook
<1>8. ASSUME NEW r \in Request, Deploy(r)
      PROVE  TypeOK'
  <2>1. StatusOnly(r, "deploying")
    BY <1>8, StatusEffect DEF Deploy, Status, Counted, Deployed
  <2> QED BY <1>8, <2>1 DEF Deploy, StatusOnly
<1>9. CASE \E r \in Request : XenBuilds(r)
  BY <1>9 DEF XenBuilds
<1>10. ASSUME NEW r \in Request, NEW status \in {"complete", "failed"}, DeployEnd(r, status)
      PROVE  TypeOK'
  <2>1. StatusOnly(r, status)
    BY <1>10, StatusEffect DEF DeployEnd, Status, Counted, Deployed
  <2> QED BY <1>10, <2>1 DEF DeployEnd, StatusOnly
<1>11. ASSUME NEW due \in SUBSET Request, ExpireLeases(due)
      PROVE  TypeOK'
  <2>1. \A r \in Request : [row[r] EXCEPT !.status = "expired"] \in Row
    BY DEF Row, Status, Deployed
  <2>2. row' \in [Request -> Row]
    BY <1>11, <2>1 DEF ExpireLeases
  <2> QED BY <1>11, <2>2 DEF ExpireLeases
<1>12. CASE \E r \in Request : Decommission(r)
  BY <1>12 DEF Decommission
<1>13. CASE \E r \in Request : XenDestroys(r)
  BY <1>13 DEF XenDestroys
<1>14. ASSUME NEW r \in Request, Reclaim(r)
      PROVE  TypeOK'
  <2>1. StatusOnly(r, "reclaimed")
    BY <1>14, StatusEffect DEF Reclaim, Status, Counted, Deployed
  <2> QED BY <1>14, <2>1 DEF Reclaim, StatusOnly
<1>15. CASE \E r \in Request : DestroyFails(r)
  BY <1>15 DEF DestroyFails
<1>16. CASE EditSource \/ \E m \in Policy, p \in Pattern : EditEntry(m, p) \/ TearEntry(m, p)
  BY <1>16 DEF EditEntry, TearEntry, EditSource, Rewrite, Drift
<1>17. CASE Publish \/ \E verdict \in Verdict : Validate(verdict)
  BY <1>17 DEF Publish, Validate
<1>18. CASE Restart
  BY <1>18 DEF Restart, Hook
<1>19. CASE UNCHANGED vars
  BY <1>19 DEF vars, entry, worker, machine
<1> HIDE DEF TypeOK, worker, machine, entry
<1> QED BY <1>1, <1>2, <1>3, <1>4, <1>5, <1>6, <1>7, <1>8, <1>9, <1>10, <1>11, <1>12, <1>13,
       <1>14, <1>15, <1>16, <1>17, <1>18, <1>19 DEF Next, Worker

(* Types of the variables, for any catalog.                                *)
THEOREM CatalogTyped == Spec => []TypeOK
  BY TypeInit, TypeStep, PTL DEF Spec

(* Deployments and decommissionings keep to the row they were begun for.   *)
LEMMA DeployingStep ==
  ASSUME TypeOK, NEW q \in Request, Deploying(q), [Next]_vars
  PROVE  Deploying(q)'
<1> USE CatalogAssumption DEF Deploying, Counted, Deployed, worker, machine, entry
<1>0. /\ settler \in [Request -> {"none", "policy", "review", "hook"}]
      /\ work \in [Request -> {"none", "deploying", "destroying", "destroyed"}]
      /\ vm \in [Request -> {"none", "live", "destroyed"}]
      /\ hook \in [Request -> Hook] /\ row \in [Request -> Row] /\ begun \in [Request -> Nat]
      /\ at \subseteq Request /\ (\A b \in batch : b.id \in Request)
      /\ next \in Nat /\ restarts \in Nat
  BY DEF TypeOK
<1>t. \A r \in Request : /\ row[r].number \in Nat /\ row[r].left \in Nat /\ hook[r].tries \in Nat
  BY <1>0 DEF Row, Hook
<1> USE <1>0, <1>t
<1>1. ASSUME NEW r \in Request, NEW user \in User, NEW passes \in BOOLEAN, Submit(r, user,
       passes)
      PROVE  Deploying(q)'
  BY <1>1 DEF Submit, AutoApproves
<1>2. ASSUME NEW r \in Request, NEW admin \in Admin, Review(r, admin)
      PROVE  Deploying(q)'
  <2>1. ReviewLeaves(r, admin)
    BY <1>2, ReviewEffect
  <2>2. CASE row[r].left = 0 /\ Approved(r, "review", {})
    BY <2>1, <2>2 DEF ReviewLeaves, Approved
  <2>3. CASE row[r].left = 1 /\ Approved(r, "review", row[r].approvers \union {admin})
    BY <2>1, <2>3 DEF ReviewLeaves, Approved
  <2>4. CASE Stepped(r, admin)
    BY <2>1, <2>4 DEF ReviewLeaves, Stepped
  <2> QED BY <2>1, <2>2, <2>3, <2>4 DEF ReviewLeaves
<1>3. ASSUME NEW r \in Request, NEW status \in {"rejected", "cancelled"}, Refuse(r, status)
      PROVE  Deploying(q)'
  <2>1. StatusOnly(r, status)
    BY <1>3, StatusEffect DEF Refuse, Decide, Status, Counted, Deployed
  <2> QED BY <1>3, <2>1 DEF Refuse, Decide, StatusOnly
<1>4. ASSUME NEW r \in Request, NEW decision \in {"approved", "rejected"}, Answer(r, decision)
      PROVE  Deploying(q)'
  <2>1. AnswerLeaves(r)
    BY <1>4, AnswerEffect
  <2>2. CASE HookDecides(r) /\ Approved(r, "hook", row[r].approvers)
    BY <2>1, <2>2 DEF AnswerLeaves, HookDecides, Approved
  <2>3. CASE HookDecides(r) /\ StatusOnly(r, "rejected") /\ UNCHANGED next
    BY <2>1, <2>3 DEF AnswerLeaves, HookDecides, StatusOnly
  <2>4. CASE HookLate(r)
    BY <2>1, <2>4 DEF AnswerLeaves, HookLate
  <2> QED BY <2>1, <2>2, <2>3, <2>4 DEF AnswerLeaves
<1>5. CASE \E r \in Request : NoAnswer(r)
  BY <1>5 DEF NoAnswer, Finish
<1>6. CASE Poll
  BY <1>6 DEF Poll
<1>7. CASE \E b \in batch : Claim(b)
  BY <1>7 DEF Claim
<1>8. ASSUME NEW r \in Request, Deploy(r)
      PROVE  Deploying(q)'
  <2>1. StatusOnly(r, "deploying")
    BY <1>8, StatusEffect DEF Deploy, Status, Counted, Deployed
  <2> QED BY <1>8, <2>1 DEF Deploy, StatusOnly
<1>9. CASE \E r \in Request : XenBuilds(r)
  BY <1>9 DEF XenBuilds
<1>10. ASSUME NEW r \in Request, NEW status \in {"complete", "failed"}, DeployEnd(r, status)
      PROVE  Deploying(q)'
  <2>1. StatusOnly(r, status)
    BY <1>10, StatusEffect DEF DeployEnd, Status, Counted, Deployed
  <2> QED BY <1>10, <2>1 DEF DeployEnd, StatusOnly
<1>11. CASE \E due \in SUBSET Request : ExpireLeases(due)
  BY <1>11 DEF ExpireLeases
<1>12. CASE \E r \in Request : Decommission(r)
  BY <1>12 DEF Decommission
<1>13. CASE \E r \in Request : XenDestroys(r)
  BY <1>13 DEF XenDestroys
<1>14. ASSUME NEW r \in Request, Reclaim(r)
      PROVE  Deploying(q)'
  <2>1. StatusOnly(r, "reclaimed")
    BY <1>14, StatusEffect DEF Reclaim, Status, Counted, Deployed
  <2> QED BY <1>14, <2>1 DEF Reclaim, StatusOnly
<1>15. CASE \E r \in Request : DestroyFails(r)
  BY <1>15 DEF DestroyFails
<1>16. CASE EditSource \/ \E m \in Policy, p \in Pattern : EditEntry(m, p) \/ TearEntry(m, p)
  BY <1>16 DEF EditEntry, TearEntry, EditSource, Rewrite, Drift
<1>17. CASE Publish \/ \E verdict \in Verdict : Validate(verdict)
  BY <1>17 DEF Publish, Validate
<1>18. CASE Restart
  BY <1>18 DEF Restart
<1>19. CASE UNCHANGED vars
  BY <1>19 DEF vars, entry, worker, machine
<1> HIDE DEF Deploying, Counted, Deployed, worker, machine, entry
<1> QED BY <1>1, <1>2, <1>3, <1>4, <1>5, <1>6, <1>7, <1>8, <1>9, <1>10, <1>11, <1>12, <1>13,
       <1>14, <1>15, <1>16, <1>17, <1>18, <1>19 DEF Next, Worker

(* Every step keeps settler, status and hook of a request in agreement.    *)
LEMMA SettledStep ==
  ASSUME TypeOK, NEW q \in Request, WorkerAgrees, Deploying(q), Settled(q), [Next]_vars
  PROVE  Settled(q)'
<1> USE CatalogAssumption DEF WorkerAgrees, Deploying, Settled, Counted, Deployed, worker,
       machine, entry
<1>0. /\ settler \in [Request -> {"none", "policy", "review", "hook"}]
      /\ work \in [Request -> {"none", "deploying", "destroying", "destroyed"}]
      /\ vm \in [Request -> {"none", "live", "destroyed"}]
      /\ hook \in [Request -> Hook] /\ row \in [Request -> Row] /\ begun \in [Request -> Nat]
      /\ at \subseteq Request /\ (\A b \in batch : b.id \in Request)
      /\ next \in Nat /\ restarts \in Nat
  BY DEF TypeOK
<1>t. \A r \in Request : /\ row[r].number \in Nat /\ row[r].left \in Nat /\ hook[r].tries \in Nat
  BY <1>0 DEF Row, Hook
<1> USE <1>0, <1>t
<1>1. ASSUME NEW r \in Request, NEW user \in User, NEW passes \in BOOLEAN, Submit(r, user,
       passes)
      PROVE  Settled(q)'
  BY <1>1 DEF Submit, AutoApproves
<1>2. ASSUME NEW r \in Request, NEW admin \in Admin, Review(r, admin)
      PROVE  Settled(q)'
  <2>1. ReviewLeaves(r, admin)
    BY <1>2, ReviewEffect
  <2>2. CASE row[r].left = 0 /\ Approved(r, "review", {})
    BY <2>1, <2>2 DEF ReviewLeaves, Approved
  <2>3. CASE row[r].left = 1 /\ Approved(r, "review", row[r].approvers \union {admin})
    BY <2>1, <2>3 DEF ReviewLeaves, Approved
  <2>4. CASE Stepped(r, admin)
    BY <2>1, <2>4 DEF ReviewLeaves, Stepped
  <2> QED BY <2>1, <2>2, <2>3, <2>4 DEF ReviewLeaves
<1>3. ASSUME NEW r \in Request, NEW status \in {"rejected", "cancelled"}, Refuse(r, status)
      PROVE  Settled(q)'
  <2>1. StatusOnly(r, status)
    BY <1>3, StatusEffect DEF Refuse, Decide, Status, Counted, Deployed
  <2> QED BY <1>3, <2>1 DEF Refuse, Decide, StatusOnly
<1>4. ASSUME NEW r \in Request, NEW decision \in {"approved", "rejected"}, Answer(r, decision)
      PROVE  Settled(q)'
  <2>1. AnswerLeaves(r)
    BY <1>4, AnswerEffect
  <2>2. CASE HookDecides(r) /\ Approved(r, "hook", row[r].approvers)
    BY <2>1, <2>2 DEF AnswerLeaves, HookDecides, Approved
  <2>3. CASE HookDecides(r) /\ StatusOnly(r, "rejected") /\ UNCHANGED next
    BY <2>1, <2>3 DEF AnswerLeaves, HookDecides, StatusOnly
  <2>4. CASE HookLate(r)
    BY <2>1, <2>4 DEF AnswerLeaves, HookLate
  <2> QED BY <2>1, <2>2, <2>3, <2>4 DEF AnswerLeaves
<1>5. CASE \E r \in Request : NoAnswer(r)
  BY <1>5 DEF NoAnswer, Finish
<1>6. CASE \E b \in batch : Claim(b)
  BY <1>6 DEF Claim
<1>7. ASSUME NEW r \in Request, Deploy(r)
      PROVE  Settled(q)'
  <2>1. StatusOnly(r, "deploying")
    BY <1>7, StatusEffect DEF Deploy, Status, Counted, Deployed
  <2> QED BY <1>7, <2>1 DEF Deploy, StatusOnly
<1>8. ASSUME NEW r \in Request, NEW status \in {"complete", "failed"}, DeployEnd(r, status)
      PROVE  Settled(q)'
  <2>1. StatusOnly(r, status)
    BY <1>8, StatusEffect DEF DeployEnd, Status, Counted, Deployed
  <2> QED BY <1>8, <2>1 DEF DeployEnd, StatusOnly
<1>9. CASE \E due \in SUBSET Request : ExpireLeases(due)
  BY <1>9 DEF ExpireLeases
<1>10. ASSUME NEW r \in Request, Reclaim(r)
      PROVE  Settled(q)'
  <2>1. StatusOnly(r, "reclaimed")
    BY <1>10, StatusEffect DEF Reclaim, Status, Counted, Deployed
  <2> QED BY <1>10, <2>1 DEF Reclaim, StatusOnly
<1>11. CASE Restart
  BY <1>11 DEF Restart
<1>12. CASE Quiet
  BY <1>12, QuietEffect
<1>13. CASE UNCHANGED vars
  BY <1>13 DEF vars, entry, worker, machine
<1> HIDE DEF WorkerAgrees, Deploying, Settled, Counted, Deployed, worker, machine, entry
<1> QED BY <1>1, <1>2, <1>3, <1>4, <1>5, <1>6, <1>7, <1>8, <1>9, <1>10, <1>11, <1>12, <1>13
       DEF Next, Worker, Quiet

(* A decision, once made, stands.                                          *)
Kept(q) ==
  settler[q] # "none" => /\ settler'[q] = settler[q] /\ row'[q].number = row[q].number
                         /\ row'[q].pattern = row[q].pattern

(* No step undoes a decision.                                              *)
LEMMA DecidedStep ==
  ASSUME TypeOK, NEW q \in Request, Settled(q), [Next]_vars
  PROVE  Kept(q)
<1> USE CatalogAssumption DEF Kept, Settled, Counted, Deployed, worker, machine, entry
<1>0. /\ settler \in [Request -> {"none", "policy", "review", "hook"}]
      /\ work \in [Request -> {"none", "deploying", "destroying", "destroyed"}]
      /\ vm \in [Request -> {"none", "live", "destroyed"}]
      /\ hook \in [Request -> Hook] /\ row \in [Request -> Row] /\ begun \in [Request -> Nat]
      /\ at \subseteq Request /\ (\A b \in batch : b.id \in Request)
      /\ next \in Nat /\ restarts \in Nat
  BY DEF TypeOK
<1>t. \A r \in Request : /\ row[r].number \in Nat /\ row[r].left \in Nat /\ hook[r].tries \in Nat
  BY <1>0 DEF Row, Hook
<1> USE <1>0, <1>t
<1>1. ASSUME NEW r \in Request, NEW user \in User, NEW passes \in BOOLEAN, Submit(r, user,
       passes)
      PROVE  Kept(q)
  BY <1>1 DEF Submit, AutoApproves
<1>2. ASSUME NEW r \in Request, NEW admin \in Admin, Review(r, admin)
      PROVE  Kept(q)
  <2>1. ReviewLeaves(r, admin)
    BY <1>2, ReviewEffect
  <2>2. CASE row[r].left = 0 /\ Approved(r, "review", {})
    BY <2>1, <2>2 DEF ReviewLeaves, Approved
  <2>3. CASE row[r].left = 1 /\ Approved(r, "review", row[r].approvers \union {admin})
    BY <2>1, <2>3 DEF ReviewLeaves, Approved
  <2>4. CASE Stepped(r, admin)
    BY <2>1, <2>4 DEF ReviewLeaves, Stepped
  <2> QED BY <2>1, <2>2, <2>3, <2>4 DEF ReviewLeaves
<1>3. ASSUME NEW r \in Request, NEW status \in {"rejected", "cancelled"}, Refuse(r, status)
      PROVE  Kept(q)
  <2>1. StatusOnly(r, status)
    BY <1>3, StatusEffect DEF Refuse, Decide, Status, Counted, Deployed
  <2> QED BY <1>3, <2>1 DEF Refuse, Decide, StatusOnly
<1>4. ASSUME NEW r \in Request, NEW decision \in {"approved", "rejected"}, Answer(r, decision)
      PROVE  Kept(q)
  <2>1. AnswerLeaves(r)
    BY <1>4, AnswerEffect
  <2>2. CASE HookDecides(r) /\ Approved(r, "hook", row[r].approvers)
    BY <2>1, <2>2 DEF AnswerLeaves, HookDecides, Approved
  <2>3. CASE HookDecides(r) /\ StatusOnly(r, "rejected") /\ UNCHANGED next
    BY <2>1, <2>3 DEF AnswerLeaves, HookDecides, StatusOnly
  <2>4. CASE HookLate(r)
    BY <2>1, <2>4 DEF AnswerLeaves, HookLate
  <2> QED BY <2>1, <2>2, <2>3, <2>4 DEF AnswerLeaves
<1>5. ASSUME NEW r \in Request, Deploy(r)
      PROVE  Kept(q)
  <2>1. StatusOnly(r, "deploying")
    BY <1>5, StatusEffect DEF Deploy, Status, Counted, Deployed
  <2> QED BY <1>5, <2>1 DEF Deploy, StatusOnly
<1>6. ASSUME NEW r \in Request, NEW status \in {"complete", "failed"}, DeployEnd(r, status)
      PROVE  Kept(q)
  <2>1. StatusOnly(r, status)
    BY <1>6, StatusEffect DEF DeployEnd, Status, Counted, Deployed
  <2> QED BY <1>6, <2>1 DEF DeployEnd, StatusOnly
<1>7. CASE \E due \in SUBSET Request : ExpireLeases(due)
  BY <1>7 DEF ExpireLeases
<1>8. ASSUME NEW r \in Request, Reclaim(r)
      PROVE  Kept(q)
  <2>1. StatusOnly(r, "reclaimed")
    BY <1>8, StatusEffect DEF Reclaim, Status, Counted, Deployed
  <2> QED BY <1>8, <2>1 DEF Reclaim, StatusOnly
<1>9. CASE Quiet \/ Hooking
  BY <1>9, QuietEffect, HookingEffect
<1>10. CASE UNCHANGED vars
  BY <1>10 DEF vars, entry, worker, machine
<1> HIDE DEF Kept, Settled, Counted, Deployed, worker, machine, entry
<1> QED BY <1>1, <1>2, <1>3, <1>4, <1>5, <1>6, <1>7, <1>8, <1>9, <1>10
       DEF Next, Worker, Quiet, Hooking

(* Every step keeps given names behind the sequence.                       *)
LEMMA NameStep ==
  ASSUME TypeOK, NEW q \in Request, NumberPast(q), [Next]_vars
  PROVE  NumberPast(q)'
<1> USE CatalogAssumption DEF NumberPast, Counted, Deployed, worker, machine, entry
<1>0. /\ settler \in [Request -> {"none", "policy", "review", "hook"}]
      /\ work \in [Request -> {"none", "deploying", "destroying", "destroyed"}]
      /\ vm \in [Request -> {"none", "live", "destroyed"}]
      /\ hook \in [Request -> Hook] /\ row \in [Request -> Row] /\ begun \in [Request -> Nat]
      /\ at \subseteq Request /\ (\A b \in batch : b.id \in Request)
      /\ next \in Nat /\ restarts \in Nat
  BY DEF TypeOK
<1>t. \A r \in Request : /\ row[r].number \in Nat /\ row[r].left \in Nat /\ hook[r].tries \in Nat
  BY <1>0 DEF Row, Hook
<1> USE <1>0, <1>t
<1>1. ASSUME NEW r \in Request, NEW user \in User, NEW passes \in BOOLEAN, Submit(r, user,
       passes)
      PROVE  NumberPast(q)'
  BY <1>1 DEF Submit, AutoApproves
<1>2. ASSUME NEW r \in Request, NEW admin \in Admin, Review(r, admin)
      PROVE  NumberPast(q)'
  <2>1. ReviewLeaves(r, admin)
    BY <1>2, ReviewEffect
  <2>2. CASE row[r].left = 0 /\ Approved(r, "review", {})
    BY <2>1, <2>2 DEF ReviewLeaves, Approved
  <2>3. CASE row[r].left = 1 /\ Approved(r, "review", row[r].approvers \union {admin})
    BY <2>1, <2>3 DEF ReviewLeaves, Approved
  <2>4. CASE Stepped(r, admin)
    BY <2>1, <2>4 DEF ReviewLeaves, Stepped
  <2> QED BY <2>1, <2>2, <2>3, <2>4 DEF ReviewLeaves
<1>3. ASSUME NEW r \in Request, NEW status \in {"rejected", "cancelled"}, Refuse(r, status)
      PROVE  NumberPast(q)'
  <2>1. StatusOnly(r, status)
    BY <1>3, StatusEffect DEF Refuse, Decide, Status, Counted, Deployed
  <2> QED BY <1>3, <2>1 DEF Refuse, Decide, StatusOnly
<1>4. ASSUME NEW r \in Request, NEW decision \in {"approved", "rejected"}, Answer(r, decision)
      PROVE  NumberPast(q)'
  <2>1. AnswerLeaves(r)
    BY <1>4, AnswerEffect
  <2>2. CASE HookDecides(r) /\ Approved(r, "hook", row[r].approvers)
    BY <2>1, <2>2 DEF AnswerLeaves, HookDecides, Approved
  <2>3. CASE HookDecides(r) /\ StatusOnly(r, "rejected") /\ UNCHANGED next
    BY <2>1, <2>3 DEF AnswerLeaves, HookDecides, StatusOnly
  <2>4. CASE HookLate(r)
    BY <2>1, <2>4 DEF AnswerLeaves, HookLate
  <2> QED BY <2>1, <2>2, <2>3, <2>4 DEF AnswerLeaves
<1>5. ASSUME NEW r \in Request, Deploy(r)
      PROVE  NumberPast(q)'
  <2>1. StatusOnly(r, "deploying")
    BY <1>5, StatusEffect DEF Deploy, Status, Counted, Deployed
  <2> QED BY <1>5, <2>1 DEF Deploy, StatusOnly
<1>6. ASSUME NEW r \in Request, NEW status \in {"complete", "failed"}, DeployEnd(r, status)
      PROVE  NumberPast(q)'
  <2>1. StatusOnly(r, status)
    BY <1>6, StatusEffect DEF DeployEnd, Status, Counted, Deployed
  <2> QED BY <1>6, <2>1 DEF DeployEnd, StatusOnly
<1>7. CASE \E due \in SUBSET Request : ExpireLeases(due)
  BY <1>7 DEF ExpireLeases
<1>8. ASSUME NEW r \in Request, Reclaim(r)
      PROVE  NumberPast(q)'
  <2>1. StatusOnly(r, "reclaimed")
    BY <1>8, StatusEffect DEF Reclaim, Status, Counted, Deployed
  <2> QED BY <1>8, <2>1 DEF Reclaim, StatusOnly
<1>9. CASE Quiet \/ Hooking
  BY <1>9, QuietEffect, HookingEffect
<1>10. CASE UNCHANGED vars
  BY <1>10 DEF vars, entry, worker, machine
<1> HIDE DEF NumberPast, Counted, Deployed, worker, machine, entry
<1> QED BY <1>1, <1>2, <1>3, <1>4, <1>5, <1>6, <1>7, <1>8, <1>9, <1>10
       DEF Next, Worker, Quiet, Hooking

(* Every step keeps the count of an attempt within its budget.             *)
LEMMA TriedStep ==
  ASSUME TypeOK, NEW q \in Request, WorkerAgrees, Tried(q), [Next]_vars
  PROVE  Tried(q)'
<1> USE CatalogAssumption DEF WorkerAgrees, Tried, Counted, Deployed, worker, machine, entry
<1>0. /\ settler \in [Request -> {"none", "policy", "review", "hook"}]
      /\ work \in [Request -> {"none", "deploying", "destroying", "destroyed"}]
      /\ vm \in [Request -> {"none", "live", "destroyed"}]
      /\ hook \in [Request -> Hook] /\ row \in [Request -> Row] /\ begun \in [Request -> Nat]
      /\ at \subseteq Request /\ (\A b \in batch : b.id \in Request)
      /\ next \in Nat /\ restarts \in Nat
  BY DEF TypeOK
<1>t. \A r \in Request : /\ row[r].number \in Nat /\ row[r].left \in Nat /\ hook[r].tries \in Nat
  BY <1>0 DEF Row, Hook
<1> USE <1>0, <1>t
<1>1. ASSUME NEW r \in Request, NEW user \in User, NEW passes \in BOOLEAN, Submit(r, user,
       passes)
      PROVE  Tried(q)'
  BY <1>1 DEF Submit, AutoApproves
<1>2. ASSUME NEW r \in Request, NEW admin \in Admin, Review(r, admin)
      PROVE  Tried(q)'
  <2>1. ReviewLeaves(r, admin)
    BY <1>2, ReviewEffect
  <2>2. CASE row[r].left = 0 /\ Approved(r, "review", {})
    BY <2>1, <2>2 DEF ReviewLeaves, Approved
  <2>3. CASE row[r].left = 1 /\ Approved(r, "review", row[r].approvers \union {admin})
    BY <2>1, <2>3 DEF ReviewLeaves, Approved
  <2>4. CASE Stepped(r, admin)
    BY <2>1, <2>4 DEF ReviewLeaves, Stepped
  <2> QED BY <2>1, <2>2, <2>3, <2>4 DEF ReviewLeaves
<1>3. ASSUME NEW r \in Request, NEW status \in {"rejected", "cancelled"}, Refuse(r, status)
      PROVE  Tried(q)'
  <2>1. StatusOnly(r, status)
    BY <1>3, StatusEffect DEF Refuse, Decide, Status, Counted, Deployed
  <2> QED BY <1>3, <2>1 DEF Refuse, Decide, StatusOnly
<1>4. ASSUME NEW r \in Request, NEW decision \in {"approved", "rejected"}, Answer(r, decision)
      PROVE  Tried(q)'
  <2>1. AnswerLeaves(r)
    BY <1>4, AnswerEffect
  <2>2. CASE HookDecides(r) /\ Approved(r, "hook", row[r].approvers)
    BY <2>1, <2>2 DEF AnswerLeaves, HookDecides, Approved
  <2>3. CASE HookDecides(r) /\ StatusOnly(r, "rejected") /\ UNCHANGED next
    BY <2>1, <2>3 DEF AnswerLeaves, HookDecides, StatusOnly
  <2>4. CASE HookLate(r)
    BY <2>1, <2>4 DEF AnswerLeaves, HookLate
  <2> QED BY <2>1, <2>2, <2>3, <2>4 DEF AnswerLeaves
<1>5. CASE \E r \in Request : NoAnswer(r)
  BY <1>5 DEF NoAnswer, Finish
<1>6. CASE \E b \in batch : Claim(b)
  BY <1>6 DEF Claim
<1>7. ASSUME NEW r \in Request, Deploy(r)
      PROVE  Tried(q)'
  <2>1. StatusOnly(r, "deploying")
    BY <1>7, StatusEffect DEF Deploy, Status, Counted, Deployed
  <2> QED BY <1>7, <2>1 DEF Deploy, StatusOnly
<1>8. ASSUME NEW r \in Request, NEW status \in {"complete", "failed"}, DeployEnd(r, status)
      PROVE  Tried(q)'
  <2>1. StatusOnly(r, status)
    BY <1>8, StatusEffect DEF DeployEnd, Status, Counted, Deployed
  <2> QED BY <1>8, <2>1 DEF DeployEnd, StatusOnly
<1>9. CASE \E due \in SUBSET Request : ExpireLeases(due)
  BY <1>9 DEF ExpireLeases
<1>10. ASSUME NEW r \in Request, Reclaim(r)
      PROVE  Tried(q)'
  <2>1. StatusOnly(r, "reclaimed")
    BY <1>10, StatusEffect DEF Reclaim, Status, Counted, Deployed
  <2> QED BY <1>10, <2>1 DEF Reclaim, StatusOnly
<1>11. CASE Restart
  BY <1>11 DEF Restart
<1>12. CASE Quiet
  BY <1>12, QuietEffect
<1>13. CASE UNCHANGED vars
  BY <1>13 DEF vars, entry, worker, machine
<1> HIDE DEF WorkerAgrees, Tried, Counted, Deployed, worker, machine, entry
<1> QED BY <1>1, <1>2, <1>3, <1>4, <1>5, <1>6, <1>7, <1>8, <1>9, <1>10, <1>11, <1>12, <1>13
       DEF Next, Worker, Quiet

(* A new member adds one to a finite set.                                  *)
LEMMA OneMore ==
  ASSUME NEW S, NEW x, IsFiniteSet(S), x \notin S
  PROVE  /\ IsFiniteSet(S \union {x}) /\ Cardinality(S) \in Nat
         /\ Cardinality(S \union {x}) = Cardinality(S) + 1
  BY FS_AddElement, FS_CardinalityType

(* Every step keeps chains counted.                                        *)
LEMMA ChainedStep ==
  ASSUME TypeOK, NEW q \in Request, WorkerAgrees, Deploying(q), Settled(q), Chained(q),
       [Next]_vars
  PROVE  Chained(q)'
<1> USE CatalogAssumption DEF WorkerAgrees, Deploying, Settled, Chained, Counted, Deployed,
       worker, machine, entry
<1>0. /\ settler \in [Request -> {"none", "policy", "review", "hook"}]
      /\ work \in [Request -> {"none", "deploying", "destroying", "destroyed"}]
      /\ vm \in [Request -> {"none", "live", "destroyed"}]
      /\ hook \in [Request -> Hook] /\ row \in [Request -> Row] /\ begun \in [Request -> Nat]
      /\ at \subseteq Request /\ (\A b \in batch : b.id \in Request)
      /\ next \in Nat /\ restarts \in Nat
  BY DEF TypeOK
<1>t. \A r \in Request : /\ row[r].number \in Nat /\ row[r].left \in Nat /\ hook[r].tries \in Nat
  BY <1>0 DEF Row, Hook
<1> USE <1>0, <1>t
<1>1. ASSUME NEW r \in Request, NEW user \in User, NEW passes \in BOOLEAN, Submit(r, user,
       passes)
      PROVE  Chained(q)'
  <2>1. row'[q].approvers = row[q].approvers \/ (q = r /\ row'[q].approvers = {})
    BY <1>1 DEF Submit
  <2>2. IsFiniteSet({}) /\ Cardinality({}) = 0
    BY FS_EmptySet
  <2> QED BY <1>1, <2>1, <2>2 DEF Submit, AutoApproves
<1>2. ASSUME NEW r \in Request, NEW admin \in Admin, Review(r, admin)
      PROVE  Chained(q)'
  <2>1. ReviewLeaves(r, admin)
    BY <1>2, ReviewEffect
  <2>2. CASE q # r
    BY <2>1, <2>2 DEF ReviewLeaves, Approved, Stepped
  <2>3. CASE q = r /\ row[r].left = 0 /\ Approved(r, "review", {})
    BY <2>1, <2>3, FS_EmptySet DEF ReviewLeaves, Approved
  <2>4. CASE q = r /\ row[r].left = 1 /\ Approved(r, "review", row[r].approvers \union {admin})
    <3>1. IsFiniteSet(row[r].approvers) /\ admin \notin row[r].approvers
      BY <2>1, <2>4 DEF ReviewLeaves
    <3>2. Cardinality(row[r].approvers) + 1 = Steps /\ hook[r].status = "none"
      BY <2>1, <2>4 DEF ReviewLeaves, Approved
    <3> DEFINE more == row[r].approvers \union {admin}
    <3>3. /\ IsFiniteSet(more) /\ Cardinality(row[r].approvers) \in Nat
          /\ Cardinality(more) = Cardinality(row[r].approvers) + 1
      BY <3>1, OneMore
    <3>4. /\ row'[r].left = 0 /\ row'[r].status = "approved"
          /\ row'[r].approvers = more
      BY <2>1, <2>4 DEF ReviewLeaves, Approved
    <3> HIDE DEF more
    <3>5. IsFiniteSet(row'[r].approvers) /\ Cardinality(row'[r].approvers) = Steps
      BY ONLY <3>2, <3>3, <3>4
    <3>6. hook'[r].status = "none"
      BY <2>1, <3>2 DEF ReviewLeaves
    <3> QED BY <2>4, <3>4, <3>5, <3>6
  <2>5. CASE q = r /\ Stepped(r, admin)
    <3>1. IsFiniteSet(row[r].approvers) /\ admin \notin row[r].approvers
      BY <2>1, <2>5 DEF ReviewLeaves, Stepped
    <3>2. Cardinality(row[r].approvers) + row[r].left = Steps /\ hook[r].status = "none"
      BY <2>1, <2>5 DEF ReviewLeaves, Stepped
    <3> DEFINE more == row[r].approvers \union {admin}
    <3>3. /\ IsFiniteSet(more) /\ Cardinality(row[r].approvers) \in Nat
          /\ Cardinality(more) = Cardinality(row[r].approvers) + 1
      BY <3>1, OneMore
    <3>4. /\ row'[r].left = row[r].left - 1 /\ row[r].left > 1 /\ row[r].left \in Nat
          /\ row'[r].approvers = more
      BY <2>1, <2>5 DEF ReviewLeaves, Stepped
    <3> HIDE DEF more
    <3>5. \A c, l \in Nat : c + l = Steps /\ l > 1 => l - 1 > 0 /\ (c + 1) + (l - 1) = Steps
      BY CatalogAssumption
    <3>6. /\ row[r].left - 1 > 0 /\ Cardinality(more) + (row[r].left - 1) = Steps
      BY ONLY <3>2, <3>3, <3>4, <3>5
    <3>7. /\ row'[r].left > 0 /\ IsFiniteSet(row'[r].approvers)
          /\ Cardinality(row'[r].approvers) + row'[r].left = Steps
      BY <3>3, <3>4, <3>6, Zenon
    <3> QED BY <2>1, <2>5, <3>2, <3>7 DEF ReviewLeaves, Stepped
  <2> QED BY <2>1, <2>2, <2>3, <2>4, <2>5 DEF ReviewLeaves
<1>3. ASSUME NEW r \in Request, NEW status \in {"rejected", "cancelled"}, Refuse(r, status)
      PROVE  Chained(q)'
  <2>1. StatusOnly(r, status)
    BY <1>3, StatusEffect DEF Refuse, Decide, Status, Counted, Deployed
  <2> QED BY <1>3, <2>1 DEF Refuse, Decide, StatusOnly
<1>4. ASSUME NEW r \in Request, NEW decision \in {"approved", "rejected"}, Answer(r, decision)
      PROVE  Chained(q)'
  <2>1. AnswerLeaves(r)
    BY <1>4, AnswerEffect
  <2>2. CASE HookDecides(r) /\ Approved(r, "hook", row[r].approvers)
    BY <2>1, <2>2 DEF AnswerLeaves, HookDecides, Approved
  <2>3. CASE HookDecides(r) /\ StatusOnly(r, "rejected") /\ UNCHANGED next
    BY <2>1, <2>3 DEF AnswerLeaves, HookDecides, StatusOnly
  <2>4. CASE HookLate(r)
    BY <2>1, <2>4 DEF AnswerLeaves, HookLate
  <2> QED BY <2>1, <2>2, <2>3, <2>4 DEF AnswerLeaves
<1>5. CASE \E r \in Request : NoAnswer(r)
  BY <1>5 DEF NoAnswer, Finish
<1>6. CASE \E b \in batch : Claim(b)
  BY <1>6 DEF Claim
<1>7. ASSUME NEW r \in Request, Deploy(r)
      PROVE  Chained(q)'
  <2>1. StatusOnly(r, "deploying")
    BY <1>7, StatusEffect DEF Deploy, Status, Counted, Deployed
  <2> QED BY <1>7, <2>1 DEF Deploy, StatusOnly
<1>8. ASSUME NEW r \in Request, NEW status \in {"complete", "failed"}, DeployEnd(r, status)
      PROVE  Chained(q)'
  <2>1. StatusOnly(r, status)
    BY <1>8, StatusEffect DEF DeployEnd, Status, Counted, Deployed
  <2> QED BY <1>8, <2>1 DEF DeployEnd, StatusOnly
<1>9. CASE \E due \in SUBSET Request : ExpireLeases(due)
  BY <1>9 DEF ExpireLeases
<1>10. ASSUME NEW r \in Request, Reclaim(r)
      PROVE  Chained(q)'
  <2>1. StatusOnly(r, "reclaimed")
    BY <1>10, StatusEffect DEF Reclaim, Status, Counted, Deployed
  <2> QED BY <1>10, <2>1 DEF Reclaim, StatusOnly
<1>11. CASE Restart
  BY <1>11 DEF Restart
<1>12. CASE Quiet
  BY <1>12, QuietEffect
<1>13. CASE UNCHANGED vars
  BY <1>13 DEF vars, entry, worker, machine
<1> HIDE DEF WorkerAgrees, Deploying, Settled, Chained, Counted, Deployed, worker, machine,
       entry
<1> QED BY <1>1, <1>2, <1>3, <1>4, <1>5, <1>6, <1>7, <1>8, <1>9, <1>10, <1>11, <1>12, <1>13
       DEF Next, Worker, Quiet

(* Every step keeps what the hook worker holds in agreement with the       *)
(* table.                                                                  *)
LEMMA WorkerStep ==
  ASSUME TypeOK, \A r \in Request : Settled(r), WorkerAgrees, [Next]_vars
  PROVE  WorkerAgrees'
<1> USE CatalogAssumption DEF Settled, WorkerAgrees, Counted, Deployed, worker, machine, entry
<1>0. /\ settler \in [Request -> {"none", "policy", "review", "hook"}]
      /\ work \in [Request -> {"none", "deploying", "destroying", "destroyed"}]
      /\ vm \in [Request -> {"none", "live", "destroyed"}]
      /\ hook \in [Request -> Hook] /\ row \in [Request -> Row] /\ begun \in [Request -> Nat]
      /\ at \subseteq Request /\ (\A b \in batch : b.id \in Request)
      /\ next \in Nat /\ restarts \in Nat
  BY DEF TypeOK
<1>t. \A r \in Request : /\ row[r].number \in Nat /\ row[r].left \in Nat /\ hook[r].tries \in Nat
  BY <1>0 DEF Row, Hook
<1> USE <1>0, <1>t
<1>1. ASSUME NEW r \in Request, NEW user \in User, NEW passes \in BOOLEAN, Submit(r, user,
       passes)
      PROVE  WorkerAgrees'
  BY <1>1 DEF Submit, AutoApproves
<1>2. ASSUME NEW r \in Request, NEW admin \in Admin, Review(r, admin)
      PROVE  WorkerAgrees'
  <2>1. ReviewLeaves(r, admin)
    BY <1>2, ReviewEffect
  <2>2. CASE row[r].left = 0 /\ Approved(r, "review", {})
    BY <2>1, <2>2 DEF ReviewLeaves, Approved
  <2>3. CASE row[r].left = 1 /\ Approved(r, "review", row[r].approvers \union {admin})
    BY <2>1, <2>3 DEF ReviewLeaves, Approved
  <2>4. CASE Stepped(r, admin)
    BY <2>1, <2>4 DEF ReviewLeaves, Stepped
  <2> QED BY <2>1, <2>2, <2>3, <2>4 DEF ReviewLeaves
<1>3. ASSUME NEW r \in Request, NEW status \in {"rejected", "cancelled"}, Refuse(r, status)
      PROVE  WorkerAgrees'
  <2>1. StatusOnly(r, status)
    BY <1>3, StatusEffect DEF Refuse, Decide, Status, Counted, Deployed
  <2> QED BY <1>3, <2>1 DEF Refuse, Decide, StatusOnly
<1>4. ASSUME NEW r \in Request, NEW decision \in {"approved", "rejected"}, Answer(r, decision)
      PROVE  WorkerAgrees'
  <2>1. AnswerLeaves(r)
    BY <1>4, AnswerEffect
  <2>2. CASE HookDecides(r) /\ Approved(r, "hook", row[r].approvers)
    BY <2>1, <2>2 DEF AnswerLeaves, HookDecides, Approved
  <2>3. CASE HookDecides(r) /\ StatusOnly(r, "rejected") /\ UNCHANGED next
    BY <2>1, <2>3 DEF AnswerLeaves, HookDecides, StatusOnly
  <2>4. CASE HookLate(r)
    BY <2>1, <2>4 DEF AnswerLeaves, HookLate
  <2> QED BY <2>1, <2>2, <2>3, <2>4 DEF AnswerLeaves
<1>5. CASE \E r \in Request : NoAnswer(r)
  BY <1>5 DEF NoAnswer, Finish
<1>6. CASE Poll
  BY <1>6 DEF Poll
<1>7. CASE \E b \in batch : Claim(b)
  BY <1>7 DEF Claim
<1>8. ASSUME NEW r \in Request, Deploy(r)
      PROVE  WorkerAgrees'
  <2>1. StatusOnly(r, "deploying")
    BY <1>8, StatusEffect DEF Deploy, Status, Counted, Deployed
  <2> QED BY <1>8, <2>1 DEF Deploy, StatusOnly
<1>9. CASE \E r \in Request : XenBuilds(r)
  BY <1>9 DEF XenBuilds
<1>10. ASSUME NEW r \in Request, NEW status \in {"complete", "failed"}, DeployEnd(r, status)
      PROVE  WorkerAgrees'
  <2>1. StatusOnly(r, status)
    BY <1>10, StatusEffect DEF DeployEnd, Status, Counted, Deployed
  <2> QED BY <1>10, <2>1 DEF DeployEnd, StatusOnly
<1>11. CASE \E due \in SUBSET Request : ExpireLeases(due)
  BY <1>11 DEF ExpireLeases
<1>12. CASE \E r \in Request : Decommission(r)
  BY <1>12 DEF Decommission
<1>13. CASE \E r \in Request : XenDestroys(r)
  BY <1>13 DEF XenDestroys
<1>14. ASSUME NEW r \in Request, Reclaim(r)
      PROVE  WorkerAgrees'
  <2>1. StatusOnly(r, "reclaimed")
    BY <1>14, StatusEffect DEF Reclaim, Status, Counted, Deployed
  <2> QED BY <1>14, <2>1 DEF Reclaim, StatusOnly
<1>15. CASE \E r \in Request : DestroyFails(r)
  BY <1>15 DEF DestroyFails
<1>16. CASE EditSource \/ \E m \in Policy, p \in Pattern : EditEntry(m, p) \/ TearEntry(m, p)
  BY <1>16 DEF EditEntry, TearEntry, EditSource, Rewrite, Drift
<1>17. CASE Publish \/ \E verdict \in Verdict : Validate(verdict)
  BY <1>17 DEF Publish, Validate
<1>18. CASE Restart
  BY <1>18 DEF Restart
<1>19. CASE UNCHANGED vars
  BY <1>19 DEF vars, entry, worker, machine
<1> HIDE DEF Settled, WorkerAgrees, Counted, Deployed, worker, machine, entry
<1> QED BY <1>1, <1>2, <1>3, <1>4, <1>5, <1>6, <1>7, <1>8, <1>9, <1>10, <1>11, <1>12, <1>13,
       <1>14, <1>15, <1>16, <1>17, <1>18, <1>19 DEF Next, Worker

(* Two requests do not share a number of the sequence.                     *)
Distinct(p, q) == p # q /\ row[p].number # 0 => row[p].number # row[q].number

(* Every step keeps names distinct.                                        *)
LEMMA DistinctStep ==
  ASSUME TypeOK, NEW p \in Request, NEW q \in Request, NumberPast(p), NumberPast(q), Distinct(p,
       q), [Next]_vars
  PROVE  Distinct(p, q)'
<1> USE CatalogAssumption DEF NumberPast, NumberPast, Distinct, Counted, Deployed, worker,
       machine, entry
<1>0. /\ settler \in [Request -> {"none", "policy", "review", "hook"}]
      /\ work \in [Request -> {"none", "deploying", "destroying", "destroyed"}]
      /\ vm \in [Request -> {"none", "live", "destroyed"}]
      /\ hook \in [Request -> Hook] /\ row \in [Request -> Row] /\ begun \in [Request -> Nat]
      /\ at \subseteq Request /\ (\A b \in batch : b.id \in Request)
      /\ next \in Nat /\ restarts \in Nat
  BY DEF TypeOK
<1>t. \A r \in Request : /\ row[r].number \in Nat /\ row[r].left \in Nat /\ hook[r].tries \in Nat
  BY <1>0 DEF Row, Hook
<1> USE <1>0, <1>t
<1>1. ASSUME NEW r \in Request, NEW user \in User, NEW passes \in BOOLEAN, Submit(r, user,
       passes)
      PROVE  Distinct(p, q)'
  BY <1>1 DEF Submit, AutoApproves
<1>2. ASSUME NEW r \in Request, NEW admin \in Admin, Review(r, admin)
      PROVE  Distinct(p, q)'
  <2>1. ReviewLeaves(r, admin)
    BY <1>2, ReviewEffect
  <2>2. CASE row[r].left = 0 /\ Approved(r, "review", {})
    BY <2>1, <2>2 DEF ReviewLeaves, Approved
  <2>3. CASE row[r].left = 1 /\ Approved(r, "review", row[r].approvers \union {admin})
    BY <2>1, <2>3 DEF ReviewLeaves, Approved
  <2>4. CASE Stepped(r, admin)
    BY <2>1, <2>4 DEF ReviewLeaves, Stepped
  <2> QED BY <2>1, <2>2, <2>3, <2>4 DEF ReviewLeaves
<1>3. ASSUME NEW r \in Request, NEW status \in {"rejected", "cancelled"}, Refuse(r, status)
      PROVE  Distinct(p, q)'
  <2>1. StatusOnly(r, status)
    BY <1>3, StatusEffect DEF Refuse, Decide, Status, Counted, Deployed
  <2> QED BY <1>3, <2>1 DEF Refuse, Decide, StatusOnly
<1>4. ASSUME NEW r \in Request, NEW decision \in {"approved", "rejected"}, Answer(r, decision)
      PROVE  Distinct(p, q)'
  <2>1. AnswerLeaves(r)
    BY <1>4, AnswerEffect
  <2>2. CASE HookDecides(r) /\ Approved(r, "hook", row[r].approvers)
    BY <2>1, <2>2 DEF AnswerLeaves, HookDecides, Approved
  <2>3. CASE HookDecides(r) /\ StatusOnly(r, "rejected") /\ UNCHANGED next
    BY <2>1, <2>3 DEF AnswerLeaves, HookDecides, StatusOnly
  <2>4. CASE HookLate(r)
    BY <2>1, <2>4 DEF AnswerLeaves, HookLate
  <2> QED BY <2>1, <2>2, <2>3, <2>4 DEF AnswerLeaves
<1>5. ASSUME NEW r \in Request, Deploy(r)
      PROVE  Distinct(p, q)'
  <2>1. StatusOnly(r, "deploying")
    BY <1>5, StatusEffect DEF Deploy, Status, Counted, Deployed
  <2> QED BY <1>5, <2>1 DEF Deploy, StatusOnly
<1>6. ASSUME NEW r \in Request, NEW status \in {"complete", "failed"}, DeployEnd(r, status)
      PROVE  Distinct(p, q)'
  <2>1. StatusOnly(r, status)
    BY <1>6, StatusEffect DEF DeployEnd, Status, Counted, Deployed
  <2> QED BY <1>6, <2>1 DEF DeployEnd, StatusOnly
<1>7. CASE \E due \in SUBSET Request : ExpireLeases(due)
  BY <1>7 DEF ExpireLeases
<1>8. ASSUME NEW r \in Request, Reclaim(r)
      PROVE  Distinct(p, q)'
  <2>1. StatusOnly(r, "reclaimed")
    BY <1>8, StatusEffect DEF Reclaim, Status, Counted, Deployed
  <2> QED BY <1>8, <2>1 DEF Reclaim, StatusOnly
<1>9. CASE Quiet \/ Hooking
  BY <1>9, QuietEffect, HookingEffect
<1>10. CASE UNCHANGED vars
  BY <1>10 DEF vars, entry, worker, machine
<1> HIDE DEF NumberPast, NumberPast, Distinct, Counted, Deployed, worker, machine, entry
<1> QED BY <1>1, <1>2, <1>3, <1>4, <1>5, <1>6, <1>7, <1>8, <1>9, <1>10
       DEF Next, Worker, Quiet, Hooking

(* A request starts to count against the quota of a user with their        *)
(* submission of it only, which finds room.                                *)
Counting(q, u) == row[q].by = u /\ row[q].status \in Counted
CountsLate(q, u) ==
  Counting(q, u)' => \/ Counting(q, u)
                     \/ ActiveOf(u) < MaxActive /\ \A p \in Request \ {q} : row'[p] = row[p]

(* Every step respects CountsLate.                                         *)
LEMMA CountingStep ==
  ASSUME TypeOK, NEW q \in Request, NEW u \in User, [Next]_vars
  PROVE  CountsLate(q, u)
<1> USE CatalogAssumption DEF CountsLate, Counting, Counted, worker, machine, entry
<1>0. /\ settler \in [Request -> {"none", "policy", "review", "hook"}]
      /\ work \in [Request -> {"none", "deploying", "destroying", "destroyed"}]
      /\ vm \in [Request -> {"none", "live", "destroyed"}]
      /\ hook \in [Request -> Hook] /\ row \in [Request -> Row] /\ begun \in [Request -> Nat]
      /\ at \subseteq Request /\ (\A b \in batch : b.id \in Request)
      /\ next \in Nat /\ restarts \in Nat
  BY DEF TypeOK
<1>t. \A r \in Request : /\ row[r].number \in Nat /\ row[r].left \in Nat /\ hook[r].tries \in Nat
  BY <1>0 DEF Row, Hook
<1> USE <1>0, <1>t
<1>1. ASSUME NEW r \in Request, NEW user \in User, NEW passes \in BOOLEAN, Submit(r, user,
       passes)
      PROVE  CountsLate(q, u)
  BY <1>1 DEF Submit, AutoApproves, HasQuota
<1>2. ASSUME NEW r \in Request, NEW admin \in Admin, Review(r, admin)
      PROVE  CountsLate(q, u)
  <2>1. ReviewLeaves(r, admin)
    BY <1>2, ReviewEffect
  <2>2. CASE row[r].left = 0 /\ Approved(r, "review", {})
    BY <2>1, <2>2 DEF ReviewLeaves, Approved
  <2>3. CASE row[r].left = 1 /\ Approved(r, "review", row[r].approvers \union {admin})
    BY <2>1, <2>3 DEF ReviewLeaves, Approved
  <2>4. CASE Stepped(r, admin)
    BY <2>1, <2>4 DEF ReviewLeaves, Stepped
  <2> QED BY <2>1, <2>2, <2>3, <2>4 DEF ReviewLeaves
<1>3. ASSUME NEW r \in Request, NEW status \in {"rejected", "cancelled"}, Refuse(r, status)
      PROVE  CountsLate(q, u)
  <2>1. StatusOnly(r, status)
    BY <1>3, StatusEffect DEF Refuse, Decide, Status, Counted, Deployed
  <2> QED BY <1>3, <2>1 DEF Refuse, Decide, StatusOnly
<1>4. ASSUME NEW r \in Request, NEW decision \in {"approved", "rejected"}, Answer(r, decision)
      PROVE  CountsLate(q, u)
  <2>1. AnswerLeaves(r)
    BY <1>4, AnswerEffect
  <2>2. CASE HookDecides(r) /\ Approved(r, "hook", row[r].approvers)
    BY <2>1, <2>2 DEF AnswerLeaves, HookDecides, Approved
  <2>3. CASE HookDecides(r) /\ StatusOnly(r, "rejected") /\ UNCHANGED next
    BY <2>1, <2>3 DEF AnswerLeaves, HookDecides, StatusOnly
  <2>4. CASE HookLate(r)
    BY <2>1, <2>4 DEF AnswerLeaves, HookLate
  <2> QED BY <2>1, <2>2, <2>3, <2>4 DEF AnswerLeaves
<1>5. ASSUME NEW r \in Request, Deploy(r)
      PROVE  CountsLate(q, u)
  <2>1. StatusOnly(r, "deploying")
    BY <1>5, StatusEffect DEF Deploy, Status, Counted, Deployed
  <2> QED BY <1>5, <2>1 DEF Deploy, StatusOnly
<1>6. ASSUME NEW r \in Request, NEW status \in {"complete", "failed"}, DeployEnd(r, status)
      PROVE  CountsLate(q, u)
  <2>1. StatusOnly(r, status)
    BY <1>6, StatusEffect DEF DeployEnd, Status, Counted, Deployed
  <2> QED BY <1>6, <2>1 DEF DeployEnd, StatusOnly
<1>7. CASE \E due \in SUBSET Request : ExpireLeases(due)
  BY <1>7 DEF ExpireLeases
<1>8. ASSUME NEW r \in Request, Reclaim(r)
      PROVE  CountsLate(q, u)
  <2>1. StatusOnly(r, "reclaimed")
    BY <1>8, StatusEffect DEF Reclaim, Status, Counted, Deployed
  <2> QED BY <1>8, <2>1 DEF Reclaim, StatusOnly
<1>9. CASE Quiet \/ Hooking
  BY <1>9, QuietEffect, HookingEffect
<1>10. CASE UNCHANGED vars
  BY <1>10 DEF vars, entry, worker, machine
<1> HIDE DEF CountsLate, Counting, Counted, worker, machine, entry
<1> QED BY <1>1, <1>2, <1>3, <1>4, <1>5, <1>6, <1>7, <1>8, <1>9, <1>10
       DEF Next, Worker, Quiet, Hooking

(* Every step keeps the quota of every subscriber.                         *)
LEMMA QuotaStep ==
  ASSUME TypeOK, QuotaHeld, [Next]_vars
  PROVE  QuotaHeld'
<1> SUFFICES ASSUME NEW u \in User PROVE ActiveOf(u)' <= MaxActive
  BY DEF QuotaHeld
<1> DEFINE S == {r \in Request : Counting(r, u)}
           T == {r \in Request : Counting(r, u)'}
<1>1. ActiveOf(u) = Cardinality(S) /\ ActiveOf(u)' = Cardinality(T) /\ ActiveOf(u) <= MaxActive
  BY DEF ActiveOf, Counting, QuotaHeld
<1>2. IsFiniteSet(S) /\ IsFiniteSet(T) /\ IsFiniteSet(Request)
  BY CatalogAssumption, FS_Subset
<1>3. Cardinality(S) \in Nat /\ Cardinality(T) \in Nat /\ MaxActive \in Nat
  BY <1>2, FS_CardinalityType, CatalogAssumption
<1>4. CASE T \subseteq S
  BY <1>1, <1>2, <1>3, <1>4, FS_Subset
<1>5. CASE ~(T \subseteq S)
  <2>1. PICK q \in T : q \notin S
    BY <1>5
  <2>2. CountsLate(q, u)
    BY <2>1, CountingStep
  <2>3. ActiveOf(u) < MaxActive /\ \A p \in Request \ {q} : row'[p] = row[p]
    BY <2>1, <2>2 DEF CountsLate
  <2>4. T \subseteq S \union {q}
    BY <2>3 DEF Counting
  <2>5. IsFiniteSet(S \union {q}) /\ Cardinality(S \union {q}) = Cardinality(S) + 1
    BY <1>2, <2>1, OneMore
  <2>6. Cardinality(T) <= Cardinality(S \union {q})
    BY <2>4, <2>5, FS_Subset
  <2> QED BY <1>1, <1>3, <2>3, <2>5, <2>6
<1> QED BY <1>4, <1>5

-----------------------------------------------------------------------------
(* Steps that change the entry.                                            *)
Editing ==
  \/ Publish \/ (\E verdict \in Verdict : Validate(verdict))
  \/ EditSource \/ \E m \in Policy, p \in Pattern : EditEntry(m, p) \/ TearEntry(m, p)

(* Every step that is not one of those leaves the entry alone, and no      *)
(* request but a submitted one begins to wait.                             *)
LEMMA EntryEffect ==
  ASSUME TypeOK, [Next]_vars, ~Editing
  PROVE  /\ UNCHANGED entry
         /\ \A q \in Request : Waiting(q)' => Waiting(q) \/ published
<1> USE DEF TypeOK, Waiting
<1>1. CASE \E r \in Request, user \in User, passes \in BOOLEAN : Submit(r, user, passes)
  BY <1>1 DEF Submit
<1>2. ASSUME NEW r \in Request, NEW admin \in Admin, Review(r, admin)
      PROVE  UNCHANGED entry /\ \A q \in Request : Waiting(q)' => Waiting(q)
  <2>1. ReviewLeaves(r, admin)
    BY <1>2, ReviewEffect
  <2> QED BY <2>1 DEF ReviewLeaves, Approved, Stepped, entry
<1>3. CASE \E r \in Request, status \in {"rejected", "cancelled"} : Refuse(r, status)
  BY <1>3 DEF Refuse, Decide
<1>4. ASSUME NEW r \in Request, NEW decision \in {"approved", "rejected"}, Answer(r, decision)
      PROVE  UNCHANGED entry /\ \A q \in Request : Waiting(q)' => Waiting(q)
  <2>1. AnswerLeaves(r)
    BY <1>4, AnswerEffect
  <2> QED BY <2>1 DEF AnswerLeaves, HookDecides, HookLate, Approved, StatusOnly, entry
<1>5. CASE \E r \in Request : NoAnswer(r)
  BY <1>5 DEF NoAnswer, Finish
<1>6. CASE Poll \/ \E b \in batch : Claim(b)
  BY <1>6 DEF Poll, Claim
<1>7. ASSUME NEW r \in Request, NEW status \in Status \ {"pending", "approved"},
             row' = [row EXCEPT ![r].status = status]
      PROVE  \A q \in Request : Waiting(q)' => Waiting(q)
  BY <1>7, StatusEffect DEF StatusOnly
<1>8. CASE \E due \in SUBSET Request : ExpireLeases(due)
  BY <1>8 DEF ExpireLeases
<1>9. CASE \E r \in Request : XenBuilds(r) \/ Decommission(r) \/ XenDestroys(r) \/ DestroyFails(r)
  BY <1>9 DEF XenBuilds, Decommission, XenDestroys, DestroyFails
<1>10. CASE Restart
  BY <1>10 DEF Restart
<1>11. CASE UNCHANGED vars
  BY <1>11 DEF vars
<1>12. ASSUME NEW r \in Request, Deploy(r) \/ Reclaim(r)
                                \/ \E status \in {"complete", "failed"} : DeployEnd(r, status)
      PROVE  UNCHANGED entry /\ \A q \in Request : Waiting(q)' => Waiting(q)
  BY <1>7, <1>12 DEF Deploy, Reclaim, DeployEnd, Status, Counted, Deployed
<1> HIDE DEF TypeOK, Waiting
<1> QED BY <1>1, <1>2, <1>3, <1>4, <1>5, <1>6, <1>12, <1>8, <1>9, <1>10, <1>11
        DEF Next, Worker, Editing

(* Only a deployment that begins counts as one, and only of a request that *)
(* waits for it.                                                           *)
LEMMA BegunEffect ==
  ASSUME TypeOK, Next, NEW r \in Request, begun'[r] # begun[r]
  PROVE  Waiting(r)
<1>1. \A q \in Request : Deploy(q) => \A p \in Request : begun'[p] # begun[p] => Waiting(p)
  BY DEF Deploy, TypeOK, Waiting
<1>2. CASE \E q \in Request : Deploy(q)
  BY <1>1, <1>2
<1>3. CASE UNCHANGED begun
  BY <1>3
<1>4. ASSUME ~\E q \in Request : Deploy(q) PROVE UNCHANGED begun
  BY <1>4 DEF Next, Worker, Submit, Review, Refuse, Answer, NoAnswer, Finish, Poll, Claim,
       XenBuilds, DeployEnd, Decommission, XenDestroys, Reclaim, DestroyFails, ExpireLeases,
       EditEntry, TearEntry, EditSource, Rewrite, Drift, Validate, Publish, Restart, machine
<1> QED BY <1>2, <1>3, <1>4

(* Nothing but a cut off edit publishes what was not validated.            *)
LEMMA VouchedStep ==
  ASSUME TypeOK, Vouched, [Next]_vars
  PROVE  Vouched'
<1>1. CASE Editing
  BY <1>1 DEF Editing, Publish, Validate, EditEntry, TearEntry, EditSource, Rewrite, Drift, Vouched,
     TypeOK
<1>2. CASE ~Editing
  BY <1>2, EntryEffect DEF Vouched, entry
<1> QED BY <1>1, <1>2

(* Every step keeps what is said of waiting requests.                      *)
LEMMA AwaitedStep ==
  ASSUME TypeOK, NEW q \in Request, Vouched, Awaited(q), [Next]_vars
  PROVE  Awaited(q)'
<1>1. CASE Publish
  BY <1>1 DEF Publish, Awaited, Waiting
<1>4. CASE \E verdict \in Verdict : Validate(verdict)
  BY <1>4 DEF Validate, Awaited, Waiting, TypeOK
<1>2. CASE EditSource \/ \E m \in Policy, p \in Pattern : EditEntry(m, p) \/ TearEntry(m, p)
  BY <1>2 DEF EditEntry, TearEntry, EditSource, Rewrite, Drift, Awaited, Waiting
<1>3. CASE ~Editing
  BY <1>3, EntryEffect DEF Vouched, Awaited, entry
<1> QED BY <1>1, <1>2, <1>3, <1>4 DEF Editing

-----------------------------------------------------------------------------
(* The inductive invariant, request by request.                            *)
RequestInv(r) ==
  Settled(r) /\ NumberPast(r) /\ Chained(r) /\ Tried(r) /\ Deploying(r) /\ Awaited(r)

CatalogInv ==
  /\ TypeOK /\ QuotaHeld /\ WorkerAgrees /\ Vouched
  /\ \A r \in Request : RequestInv(r)
  /\ \A p, q \in Request : Distinct(p, q)

(* The initial states satisfy the invariant.                               *)
LEMMA CatalogInit == Init => CatalogInv
<1> SUFFICES ASSUME Init PROVE CatalogInv
  OBVIOUS
<1>1. TypeOK /\ WorkerAgrees /\ Vouched /\ \A p, q \in Request : Distinct(p, q)
  BY TypeInit DEF Init, WorkerAgrees, Vouched, Distinct
<1>2. ASSUME NEW r \in Request PROVE RequestInv(r)
  <2>1. Settled(r) /\ NumberPast(r) /\ Deploying(r) /\ Awaited(r)
    BY DEF Init, Settled, NumberPast, Deploying, Awaited, Waiting
  <2>2. Chained(r)
    BY FS_EmptySet DEF Init, Chained, Deployed
  <2>3. Tried(r)
    BY CatalogAssumption DEF Init, Tried
  <2> QED BY <2>1, <2>2, <2>3 DEF RequestInv
<1>3. ASSUME NEW u \in User PROVE ActiveOf(u) <= MaxActive
  <2>1. {r \in Request : row[r].by = u /\ row[r].status \in Counted} = {}
    BY DEF Init, Counted
  <2> QED BY <2>1, FS_EmptySet, CatalogAssumption DEF ActiveOf
<1> QED BY <1>1, <1>2, <1>3 DEF CatalogInv, QuotaHeld

(* The invariant is inductive.                                             *)
LEMMA CatalogStep == CatalogInv /\ [Next]_vars => CatalogInv'
<1> SUFFICES ASSUME CatalogInv, [Next]_vars PROVE CatalogInv'
  OBVIOUS
<1>1. TypeOK' /\ QuotaHeld'
  BY TypeStep, QuotaStep DEF CatalogInv
<1>2. \A r \in Request : Settled(r)
  BY DEF CatalogInv, RequestInv
<1>3. WorkerAgrees' /\ Vouched'
  BY <1>2, WorkerStep, VouchedStep DEF CatalogInv
<1>4. ASSUME NEW q \in Request PROVE RequestInv(q)'
  <2>1. /\ TypeOK /\ WorkerAgrees /\ Vouched
        /\ Settled(q) /\ NumberPast(q) /\ Chained(q) /\ Tried(q) /\ Deploying(q) /\ Awaited(q)
    BY DEF CatalogInv, RequestInv
  <2>2. Settled(q)'
    BY <2>1, SettledStep
  <2>3. NumberPast(q)'
    BY <2>1, NameStep
  <2>4. Chained(q)'
    BY <2>1, ChainedStep
  <2>5. Tried(q)'
    BY <2>1, TriedStep
  <2>6. Deploying(q)'
    BY <2>1, DeployingStep
  <2>7. Awaited(q)'
    BY <2>1, AwaitedStep
  <2> QED BY <2>2, <2>3, <2>4, <2>5, <2>6, <2>7 DEF RequestInv
<1>5. ASSUME NEW p \in Request, NEW q \in Request PROVE Distinct(p, q)'
  <2>1. TypeOK /\ NumberPast(p) /\ NumberPast(q) /\ Distinct(p, q)
    BY DEF CatalogInv, RequestInv
  <2> QED BY <2>1, DistinctStep
<1> QED BY <1>1, <1>3, <1>4, <1>5 DEF CatalogInv

(* The inductive invariant holds throughout, for any catalog.              *)
THEOREM CatalogInvariant == Spec => []CatalogInv
  BY CatalogInit, CatalogStep, PTL DEF Spec

(* A subscriber never has more than MaxActive requests under way, for any  *)
(* catalog: ActiveOf() counts what POST /:slug/requests admits.            *)
THEOREM QuotaIsHeld == Spec => []QuotaHeld
<1>1. CatalogInv => QuotaHeld
  BY DEF CatalogInv
<1> QED BY <1>1, CatalogInvariant, PTL

(* The sequence never gives one number to two requests, whoever approves,  *)
(* so that names of one pattern differ.                                    *)
THEOREM NumbersAreDistinct == Spec => []NumbersDistinct
<1>1. CatalogInv => NumbersDistinct
  BY DEF CatalogInv, Distinct, NumbersDistinct
<1> QED BY <1>1, CatalogInvariant, PTL

(* An approved chain has as many distinct approvers as steps: no hook and  *)
(* no change of the policy gets a request around reviewRequest().          *)
THEOREM ChainsAreSeparated == Spec => []ChainSeparated
<1>1. CatalogInv => ChainSeparated
  BY DEF CatalogInv, RequestInv, Chained, ChainSeparated
<1> QED BY <1>1, CatalogInvariant, PTL

(* An attempt of the hook worker is complete just when it decided.         *)
THEOREM HooksAgree == Spec => []HookAgrees
<1>1. CatalogInv => HookAgrees
  BY DEF CatalogInv, RequestInv, Settled, HookAgrees
<1> QED BY <1>1, CatalogInvariant, PTL

(* A hook is delivered at most MaxAttempts times and once per crash more.  *)
THEOREM AttemptsAreBounded == Spec => []AttemptsBounded
<1>1. CatalogInv => AttemptsBounded
  BY DEF CatalogInv, RequestInv, Tried, AttemptsBounded
<1> QED BY <1>1, CatalogInvariant, PTL

(* However many administrators press deploy, a request is deployed once.   *)
THEOREM DeploymentsBeginOnce == Spec => []DeployedOnce
<1>1. CatalogInv => DeployedOnce
  BY DEF CatalogInv, RequestInv, Deploying, DeployedOnce
<1> QED BY <1>1, CatalogInvariant, PTL

(* Outside crashes, a deploying row has its deployment in flight.          *)
THEOREM DeploymentsAreRunning == Spec => []DeployingRuns
<1>1. CatalogInv => DeployingRuns
  BY DEF CatalogInv, RequestInv, Deploying, DeployingRuns
<1> QED BY <1>1, CatalogInvariant, PTL

(* Outside crashes, the row says what became of the machine.               *)
THEOREM DeploymentsAreSound == Spec => []RowMatchesMachine
<1>1. CatalogInv => RowMatchesMachine
  BY DEF CatalogInv, RequestInv, Deploying, RowMatchesMachine
<1> QED BY <1>1, CatalogInvariant, PTL

(* No step changes a decision or the name it gave.                         *)
THEOREM DecisionsStand == Spec => DecidedOnce
<1>1. CatalogInv /\ [Next]_vars =>
        [\A r \in Request :
           settler[r] # "none" => /\ settler'[r] = settler[r]
                                  /\ row'[r].number = row[r].number
                                  /\ row'[r].pattern = row[r].pattern]_vars
  <2> SUFFICES ASSUME CatalogInv, [Next]_vars, NEW r \in Request PROVE Kept(r)
    BY DEF Kept
  <2>1. TypeOK /\ Settled(r)
    BY DEF CatalogInv, RequestInv
  <2> QED BY <2>1, DecidedStep
<1> QED BY <1>1, CatalogInvariant, PTL DEF Spec, DecidedOnce

(* Nothing is deployed that was not validated as it stands, except to a    *)
(* request that waited through an edit, after an edit was cut off, or from *)
(* a library item that was changed since.                                  *)
THEOREM DeploymentsAreChecked == Spec => DeployedChecked
<1>1. CatalogInv /\ [Next]_vars =>
        [\A r \in Request : begun'[r] # begun[r] => sound \/ torn \/ loose \/ r \in drifted]_vars
  <2> SUFFICES ASSUME CatalogInv, Next, NEW r \in Request, begun'[r] # begun[r]
               PROVE  sound \/ torn \/ loose \/ r \in drifted
    OBVIOUS
  <2>1. Waiting(r)
    BY BegunEffect DEF CatalogInv
  <2> QED BY <2>1 DEF CatalogInv, RequestInv, Awaited
<1> QED BY <1>1, CatalogInvariant, PTL DEF Spec, DeployedChecked

-----------------------------------------------------------------------------
(* The refinement of RequestLifecycle: what a step changes of where a      *)
(* request stands there, which is nothing of all but one.                  *)
Same(q) ==
  /\ settler'[q] = settler[q] /\ row'[q].number = row[q].number /\ vm'[q] = vm[q]

Stays(q) == PhaseOf(q)' = PhaseOf(q) /\ Same(q)

Goes(r, from, to) == PhaseOf(r) = from /\ PhaseOf(r)' = to

Proceeds(r) ==
  /\ UNCHANGED next /\ Same(r)
  /\ \/ Goes(r, "absent", "waiting") \/ Goes(r, "approved", "building")
     \/ Goes(r, "building", "failed")
     \/ vm[r] = "live" /\ Goes(r, "building", "active")
     \/ vm[r] = "destroyed" /\ Goes(r, "active", "reclaimed")

Granted(r) ==
  /\ next' = next + 1 /\ row'[r].number = next /\ vm'[r] = vm[r]
  /\ \/ settler'[r] = "policy" /\ Goes(r, "absent", "approved")
     \/ settler'[r] \in {"review", "hook"} /\ Goes(r, "waiting", "approved")

Refused(r) ==
  /\ UNCHANGED next /\ row'[r].number = row[r].number /\ vm'[r] = vm[r]
  /\ settler'[r] \in {"review", "hook"} /\ Goes(r, "waiting", "refused")

Machined(r) ==
  /\ UNCHANGED next /\ PhaseOf(r)' = PhaseOf(r)
  /\ settler'[r] = settler[r] /\ row'[r].number = row[r].number
  /\ \/ PhaseOf(r) = "building" /\ vm[r] = "none" /\ vm'[r] = "live"
     \/ PhaseOf(r) = "active" /\ vm[r] = "live" /\ vm'[r] = "destroyed"

OneMoves(r) ==
  /\ Proceeds(r) \/ Granted(r) \/ Refused(r) \/ Machined(r)
  /\ \A q \in Request \ {r} : Stays(q)

NoneMoves == UNCHANGED next /\ \A q \in Request : Stays(q)

(* A request whose row keeps its status is where it was.                   *)
LEMMA StatusPhase ==
  ASSUME NEW q \in Request, row'[q].status = row[q].status
  PROVE  PhaseOf(q)' = PhaseOf(q)
  BY DEF PhaseOf

(* Every status but absent has its place in the life cycle.                *)
LEMMA PhaseStatus ==
  ASSUME NEW q \in Request, row[q].status \in Status
  PROVE  /\ row[q].status \in {"absent", "approved", "failed", "reclaimed"}
              => PhaseOf(q) = row[q].status
         /\ row[q].status = "pending" => PhaseOf(q) = "waiting"
         /\ row[q].status \in {"rejected", "cancelled"} => PhaseOf(q) = "refused"
         /\ row[q].status = "deploying" => PhaseOf(q) = "building"
         /\ row[q].status \in {"complete", "expired"} => PhaseOf(q) = "active"
  BY DEF PhaseOf

(* A request that was not submitted has no number.                         *)
Blank == \A r \in Request : row[r].status = "absent" => row[r].number = 0

(* Every step moves one request, or none: a lease that expires, an edit, a *)
(* delivery without a decision and a crash move none.                      *)
LEMMA RequestMoves ==
  ASSUME CatalogInv, Blank, [Next]_vars
  PROVE  NoneMoves \/ \E r \in Request : OneMoves(r)
<1> DEFINE Goal == NoneMoves \/ \E r \in Request : OneMoves(r)
<1> SUFFICES Goal
  OBVIOUS
<1> USE DEF entry, worker, machine
<1>0. TypeOK /\ TypeOK'
  BY TypeStep DEF CatalogInv
<1>t. /\ row \in [Request -> Row] /\ row' \in [Request -> Row]
      /\ settler \in [Request -> {"none", "policy", "review", "hook"}]
      /\ vm \in [Request -> {"none", "live", "destroyed"}] /\ next \in Nat
  BY <1>0 DEF TypeOK
<1>s. \A q \in Request : row[q].status \in Status /\ row'[q].status \in Status
  BY <1>t DEF Row
<1>p. \A q \in Request :
        /\ row'[q].status \in {"absent", "approved", "failed", "reclaimed"}
             => PhaseOf(q)' = row'[q].status
        /\ row'[q].status = "pending" => PhaseOf(q)' = "waiting"
        /\ row'[q].status \in {"rejected", "cancelled"} => PhaseOf(q)' = "refused"
        /\ row'[q].status = "deploying" => PhaseOf(q)' = "building"
        /\ row'[q].status \in {"complete", "expired"} => PhaseOf(q)' = "active"
  BY DEF PhaseOf
<1>d. \A q \in Request : Deploying(q)
  BY DEF CatalogInv, RequestInv
(* The row of r gets a status, and nobody decides.                         *)
<1>g. ASSUME NEW r \in Request, NEW status, StatusOnly(r, status), UNCHANGED <<settler, vm, next>>,
             \/ row[r].status = "approved" /\ status = "deploying"
             \/ row[r].status = "deploying" /\ status = "failed"
             \/ row[r].status = "deploying" /\ status = "complete" /\ vm[r] = "live"
             \/ row[r].status \in {"complete", "expired"} /\ status = "reclaimed"
                /\ vm[r] = "destroyed"
      PROVE  Goal
  <2>1. \A q \in Request \ {r} : Stays(q)
    BY <1>g, StatusPhase DEF StatusOnly, Stays, Same
  <2>2. Same(r) /\ row'[r].status = status
    BY <1>g DEF StatusOnly, Same
  <2>3. Proceeds(r)
    BY <1>g, <1>p, <1>s, <2>2, PhaseStatus DEF Proceeds, Goes
  <2> QED BY <2>1, <2>3 DEF OneMoves
(* No row changes, and no machine.                                         *)
<1>u. ASSUME UNCHANGED <<row, settler, vm, next>> PROVE Goal
  BY <1>u, StatusPhase DEF NoneMoves, Stays, Same
<1>a. ASSUME NEW r \in Request, NEW who \in {"review", "hook"}, NEW approvers,
             Approved(r, who, approvers), UNCHANGED vm
      PROVE  Goal
  <2>1. \A q \in Request \ {r} : Stays(q)
    BY <1>a, StatusPhase DEF Approved, Stays, Same
  <2>2. Granted(r)
    BY <1>a, <1>p, <1>s, PhaseStatus DEF Approved, Granted, Goes
  <2> QED BY <2>1, <2>2 DEF OneMoves
<1>r. ASSUME NEW r \in Request, NEW who \in {"review", "hook"},
             NEW status \in {"rejected", "cancelled"},
             row[r].status = "pending", StatusOnly(r, status), UNCHANGED <<vm, next>>,
             settler'[r] = who, \A q \in Request \ {r} : settler'[q] = settler[q]
      PROVE  Goal
  <2>1. \A q \in Request \ {r} : Stays(q)
    BY <1>r, StatusPhase DEF StatusOnly, Stays, Same
  <2>2. Refused(r)
    BY <1>r, <1>p, <1>s, PhaseStatus DEF StatusOnly, Refused, Goes
  <2> QED BY <2>1, <2>2 DEF OneMoves
<1>1. ASSUME NEW r \in Request, NEW user \in User, NEW passes \in BOOLEAN,
             Submit(r, user, passes)
      PROVE  Goal
  <2>1. \A q \in Request \ {r} : row'[q] = row[q] /\ settler'[q] = settler[q]
    BY <1>1, <1>t DEF Submit
  <2>2. \A q \in Request \ {r} : Stays(q)
    BY <1>1, <2>1, StatusPhase DEF Submit, Stays, Same
  <2>3. row[r].status = "absent" /\ PhaseOf(r) = "absent" /\ vm' = vm
    BY <1>1, <1>s, PhaseStatus DEF Submit
  <2>4. CASE AutoApproves(passes)
    <3>1. /\ row'[r].status = "approved" /\ row'[r].number = next
          /\ next' = next + 1 /\ settler'[r] = "policy"
      BY <1>1, <1>t, <2>4 DEF Submit
    <3>2. Granted(r)
      BY <2>3, <3>1, <1>p DEF Granted, Goes
    <3> QED BY <2>2, <3>2 DEF OneMoves
  <2>5. CASE ~AutoApproves(passes)
    <3>1. settler[r] = "none" /\ row[r].number = 0
      BY <2>3 DEF CatalogInv, RequestInv, Settled, Blank
    <3>2. /\ row'[r].status = "pending" /\ row'[r].number = 0
          /\ next' = next /\ settler'[r] = "none"
      BY <1>1, <1>t, <2>5 DEF Submit
    <3>3. Proceeds(r)
      BY <2>3, <3>1, <3>2, <1>p DEF Proceeds, Same, Goes
    <3> QED BY <2>2, <3>3 DEF OneMoves
  <2> QED BY <2>4, <2>5
<1>2. ASSUME NEW r \in Request, NEW admin \in Admin, Review(r, admin) PROVE Goal
  <2>1. ReviewLeaves(r, admin)
    BY <1>0, <1>2, ReviewEffect
  <2>2. CASE \E approvers : Approved(r, "review", approvers)
    BY <2>1, <2>2, <1>a DEF ReviewLeaves
  <2>3. CASE Stepped(r, admin)
    <3>1. /\ \A q \in Request : row'[q].status = row[q].status /\ row'[q].number = row[q].number
          /\ UNCHANGED <<next, settler, vm>>
      BY <2>1, <2>3 DEF ReviewLeaves, Stepped
    <3> QED BY <3>1, StatusPhase DEF NoneMoves, Stays, Same
  <2> QED BY <2>1, <2>2, <2>3 DEF ReviewLeaves
<1>3. ASSUME NEW r \in Request, NEW status \in {"rejected", "cancelled"}, Refuse(r, status)
      PROVE  Goal
  <2>1. StatusOnly(r, status) /\ row[r].status = "pending" /\ UNCHANGED <<vm, next>>
    BY <1>0, <1>3, StatusEffect DEF Refuse, Decide, Status, Counted, Deployed
  <2>2. settler'[r] = "review" /\ \A q \in Request \ {r} : settler'[q] = settler[q]
    BY <1>3, <1>t DEF Refuse, Decide
  <2> QED BY <2>1, <2>2, <1>r
<1>4. ASSUME NEW r \in Request, NEW decision \in {"approved", "rejected"}, Answer(r, decision)
      PROVE  Goal
  <2>1. AnswerLeaves(r)
    BY <1>0, <1>4, AnswerEffect
  <2>2. CASE HookDecides(r) /\ Approved(r, "hook", row[r].approvers)
    BY <2>1, <2>2, <1>a DEF AnswerLeaves
  <2>3. CASE HookDecides(r) /\ StatusOnly(r, "rejected") /\ UNCHANGED next
    BY <2>1, <2>3, <1>r DEF AnswerLeaves, HookDecides
  <2>4. CASE HookLate(r)
    BY <2>1, <2>4, <1>u DEF AnswerLeaves, HookLate
  <2> QED BY <2>1, <2>2, <2>3, <2>4 DEF AnswerLeaves
<1>5. ASSUME NEW r \in Request, Deploy(r) PROVE Goal
  <2>1. StatusOnly(r, "deploying")
    BY <1>0, <1>5, StatusEffect DEF Deploy, Status, Counted
  <2> QED BY <1>5, <1>g, <2>1 DEF Deploy
<1>6. ASSUME NEW r \in Request, NEW status \in {"complete", "failed"}, DeployEnd(r, status)
      PROVE  Goal
  <2>1. StatusOnly(r, status)
    BY <1>0, <1>6, StatusEffect DEF DeployEnd, Status, Deployed
  <2>2. row[r].status = "deploying"
    BY <1>6, <1>d DEF DeployEnd, Deploying
  <2> QED BY <1>6, <1>g, <2>1, <2>2 DEF DeployEnd
<1>7. ASSUME NEW r \in Request, Reclaim(r) PROVE Goal
  <2>1. StatusOnly(r, "reclaimed")
    BY <1>0, <1>7, StatusEffect DEF Reclaim, Status, Deployed
  <2>2. row[r].status \in {"complete", "expired"} /\ vm[r] = "destroyed"
    BY <1>7, <1>d DEF Reclaim, Deploying
  <2> QED BY <1>7, <1>g, <2>1, <2>2 DEF Reclaim
<1>8. ASSUME NEW r \in Request, XenBuilds(r) \/ XenDestroys(r) PROVE Goal
  <2>1. UNCHANGED <<row, settler, next>> /\ \A q \in Request \ {r} : vm'[q] = vm[q]
    BY <1>8, <1>t DEF XenBuilds, XenDestroys
  <2>2. \A q \in Request : PhaseOf(q)' = PhaseOf(q)
    BY <2>1, StatusPhase
  <2>3. \/ row[r].status = "deploying" /\ vm[r] = "none" /\ vm'[r] = "live"
        \/ row[r].status \in {"complete", "expired"} /\ vm[r] = "live" /\ vm'[r] = "destroyed"
    BY <1>8, <1>d, <1>t DEF XenBuilds, XenDestroys, Deploying
  <2>4. Machined(r)
    BY <2>1, <2>2, <2>3, <1>s, PhaseStatus DEF Machined
  <2> QED BY <2>1, <2>2, <2>4 DEF OneMoves, Stays, Same
<1>9. ASSUME NEW due \in SUBSET Request, ExpireLeases(due) PROVE Goal
  <2>1. UNCHANGED <<settler, vm, next>> /\ \A q \in Request : row'[q].number = row[q].number
    BY <1>9, <1>t DEF ExpireLeases, Row
  <2>2. ASSUME NEW q \in Request PROVE PhaseOf(q)' = PhaseOf(q)
    <3>1. CASE q \in due
      <4>1. row[q].status = "complete" /\ row'[q].status = "expired"
        BY <1>9, <1>t, <3>1 DEF ExpireLeases, Row
      <4> QED BY <4>1, <1>p, <1>s, PhaseStatus
    <3>2. CASE q \notin due
      BY <1>9, <3>2, StatusPhase DEF ExpireLeases
    <3> QED BY <3>1, <3>2
  <2> QED BY <2>1, <2>2 DEF NoneMoves, Stays, Same
<1>10. CASE \/ Poll \/ Publish \/ Restart \/ (\E verdict \in Verdict : Validate(verdict))
            \/ (EditSource \/ \E m \in Policy, p \in Pattern : EditEntry(m, p) \/ TearEntry(m, p))
            \/ (\E b \in batch : Claim(b))
            \/ \E r \in Request : NoAnswer(r) \/ Decommission(r) \/ DestroyFails(r)
  BY <1>10, <1>u DEF Poll, Publish, Restart, Validate, EditEntry, TearEntry, EditSource, Rewrite,
     Drift, Claim,
     NoAnswer, Finish, Decommission, DestroyFails
<1>11. CASE UNCHANGED vars
  BY <1>11, <1>u DEF vars
<1> HIDE DEF Goal, entry, worker, machine
<1>12. CASE Worker
  BY <1>4, <1>10, <1>12 DEF Worker
<1>13. CASE Next /\ ~Worker
  BY <1>1, <1>2, <1>3, <1>5, <1>6, <1>7, <1>8, <1>9, <1>10, <1>13 DEF Next
<1> QED BY <1>11, <1>12, <1>13

(* A move of one request is a step of the life cycle.                      *)
LEMMA MovesMap ==
  ASSUME TypeOK, TypeOK', NoneMoves \/ \E r \in Request : OneMoves(r)
  PROVE  [Lifecycle!Next]_(Lifecycle!vars)
<1> DEFINE phase == [r \in Request |-> PhaseOf(r)]
           number  == [r \in Request |-> row[r].number]
<1>t. /\ settler \in [Request -> {"none", "policy", "review", "hook"}] /\ next \in Nat
      /\ settler' \in [Request -> {"none", "policy", "review", "hook"}] /\ next' \in Nat
      /\ vm \in [Request -> {"none", "live", "destroyed"}]
      /\ vm' \in [Request -> {"none", "live", "destroyed"}]
  BY DEF TypeOK
<1>1. CASE NoneMoves
  <2>1. phase' = phase /\ number' = number /\ UNCHANGED <<settler, next, vm>>
    BY <1>1, <1>t DEF NoneMoves, Stays, Same
  <2> QED BY <2>1 DEF Lifecycle!vars, PhaseOf
<1>2. ASSUME NEW r \in Request, OneMoves(r) PROVE Lifecycle!Next
  <2>1. /\ phase' = [phase EXCEPT ![r] = PhaseOf(r)'] /\ phase[r] = PhaseOf(r)
        /\ number' = [number EXCEPT ![r] = row'[r].number]
        /\ settler' = [settler EXCEPT ![r] = settler'[r]]
        /\ vm' = [vm EXCEPT ![r] = vm'[r]]
    BY <1>2, <1>t DEF OneMoves, Stays, Same
  <2>2. ASSUME NEW from, NEW to, Goes(r, from, to) PROVE Lifecycle!Move(r, from, to)
    BY <2>1, <2>2 DEF Goes, Lifecycle!Move, PhaseOf
  <2>3. row'[r].number = row[r].number => number' = number
    BY <2>1
  <2>4. (settler'[r] = settler[r] => settler' = settler) /\ (vm'[r] = vm[r] => vm' = vm)
    BY <2>1, <1>t
  <2>5. CASE Proceeds(r)
    <3>1. number' = number /\ UNCHANGED <<settler, next, vm>>
      BY <2>3, <2>4, <2>5 DEF Proceeds, Same
    <3>2. \/ Lifecycle!Ask(r) \/ Lifecycle!Deploy(r) \/ Lifecycle!Fail(r)
          \/ Lifecycle!Deliver(r) \/ Lifecycle!Reclaim(r)
      BY <2>2, <2>5, <3>1 DEF Proceeds, Lifecycle!Ask, Lifecycle!Deploy, Lifecycle!Fail,
         Lifecycle!Deliver, Lifecycle!Reclaim
    <3> QED BY <3>2 DEF Lifecycle!Next
  <2>6. CASE Granted(r)
    <3>0. PICK who \in {"policy", "review", "hook"} : who = settler'[r]
      BY <2>6 DEF Granted
    <3>1. /\ UNCHANGED vm
          /\ Goes(r, IF who = "policy" THEN "absent" ELSE "waiting", "approved")
      BY <2>4, <2>6, <3>0 DEF Granted
    <3>2. number' = [number EXCEPT ![r] = (next - 1) + 1] /\ next' - 1 = (next - 1) + 1
      BY <2>1, <2>6, <1>t DEF Granted
    <3>3. Lifecycle!DecidedBy(r, who)
      BY <2>1, <3>0, <3>1 DEF Lifecycle!DecidedBy
    <3>4. Lifecycle!Grant(r, who)
      BY <2>2, <3>1, <3>2, <3>3 DEF Lifecycle!Grant
    <3> QED BY <3>4 DEF Lifecycle!Next
  <2>7. CASE Refused(r)
    <3>0. PICK who \in {"review", "hook"} : who = settler'[r]
      BY <2>7 DEF Refused
    <3>1. UNCHANGED <<vm, next>> /\ number' = number
      BY <2>3, <2>4, <2>7 DEF Refused
    <3>2. Lifecycle!Refuse(r, who)
      BY <2>1, <2>2, <2>7, <3>0, <3>1 DEF Refused, Lifecycle!Refuse, Lifecycle!DecidedBy
    <3> QED BY <3>2 DEF Lifecycle!Next
  <2>8. CASE Machined(r)
    <3>1. phase' = phase /\ number' = number /\ UNCHANGED <<settler, next>>
      BY <2>1, <2>3, <2>4, <2>8 DEF Machined
    <3>2. Lifecycle!Build(r) \/ Lifecycle!Destroy(r)
      BY <2>1, <2>8, <3>1 DEF Machined, Lifecycle!Build, Lifecycle!Destroy, Lifecycle!Machine,
         PhaseOf
    <3> QED BY <3>2 DEF Lifecycle!Next
  <2> QED BY <1>2, <2>5, <2>6, <2>7, <2>8 DEF OneMoves
<1> QED BY <1>1, <1>2

(* The catalog implements the life cycle it promises, for any requests,    *)
(* people, policies and crashes: a request is decided once, is given a     *)
(* number nobody else has, is deployed once, and is reclaimed only when    *)
(* its machine was destroyed.                                                  *)
THEOREM CatalogImplements == Spec => ImplementsRequest
<1>1. Init => Lifecycle!Init /\ Blank
  BY DEF Init, Blank, Lifecycle!Init, PhaseOf
<1>2. CatalogInv /\ Blank /\ [Next]_vars => [Lifecycle!Next]_(Lifecycle!vars) /\ Blank'
  <2> SUFFICES ASSUME CatalogInv, Blank, [Next]_vars
               PROVE  [Lifecycle!Next]_(Lifecycle!vars) /\ Blank'
    OBVIOUS
  <2>1. TypeOK /\ TypeOK'
    BY TypeStep DEF CatalogInv
  <2>2. NoneMoves \/ \E r \in Request : OneMoves(r)
    BY RequestMoves
  <2>3. ASSUME NEW q \in Request, row'[q].status = "absent" PROVE row'[q].number = 0
    <3>1. PhaseOf(q)' = "absent"
      BY <2>3 DEF PhaseOf
    <3>2. PhaseOf(q) = "absent" /\ row'[q].number = row[q].number
      BY <2>2, <3>1 DEF NoneMoves, OneMoves, Stays, Same, Proceeds, Granted, Refused, Machined, Goes
    <3>3. row[q].status = "absent"
      BY <3>2 DEF PhaseOf
    <3> QED BY <3>2, <3>3 DEF Blank
  <2> QED BY <2>1, <2>2, <2>3, MovesMap DEF Blank
<1> QED BY <1>1, <1>2, CatalogInvariant, PTL DEF Spec, ImplementsRequest, Lifecycle!Spec
=============================================================================
