--------------------- MODULE GovernanceApprovalsProofs ---------------------
(***************************************************************************)
(* Proofs about GovernanceApprovals, for any persons, policies and limits. *)
(*                                                                         *)
(* QueueInv is inductive.  Its conjuncts beyond the properties say why an  *)
(* approved request is always one grant ahead of its uses (Funded), why a  *)
(* request is expired only when it lapsed (Expired), and how a request     *)
(* that no decision has settled yet can look (Unsettled).                  *)
(***************************************************************************)
EXTENDS GovernanceApprovals, TLAPS

Funded    == \A i \in Id : record[i].status = "approved" => uses[i] < grants[i]
Expired   == \A i \in Id : i <= made /\ record[i].status = "expired" => i \in lapsed
Unmade    == \A i \in Id : i > made => settled[i] = 0
Staged    == \A i \in Id : record[i].status = "awaiting_second_approval" => record[i].first # None
Unsettled == \A i \in Id : settled[i] = 0 =>
               record[i].status \in {"pending", "awaiting_second_approval", "expired"}

QueueInv == /\ TypeOK /\ UsePerGrant /\ Funded /\ Expired /\ Unmade /\ Staged /\ Unsettled
            /\ RightApprover /\ TwoApprovers

(* Normalising the queue changes the status of a lapsed active request to  *)
(* expired, and nothing else.                                              *)
LEMMA NormalKeeps ==
  ASSUME NEW records \in [Id -> Approval], NEW i \in Id
  PROVE  /\ Normal(records) \in [Id -> Approval]
         /\ Normal(records)[i].by = records[i].by
         /\ Normal(records)[i].scope = records[i].scope
         /\ Normal(records)[i].first = records[i].first
         /\ Normal(records)[i].decider = records[i].decider
         /\ \/ Normal(records)[i].status = records[i].status
            \/ i \in lapsed /\ Normal(records)[i].status = "expired"
         /\ Normal(records)[i].status \in Active => i \notin lapsed
<1>1. ASSUME NEW j \in Id
      PROVE  /\ Normal(records)[j] \in Approval
             /\ Normal(records)[j].by = records[j].by
             /\ Normal(records)[j].scope = records[j].scope
             /\ Normal(records)[j].first = records[j].first
             /\ Normal(records)[j].decider = records[j].decider
             /\ \/ Normal(records)[j].status = records[j].status
                \/ j \in lapsed /\ Normal(records)[j].status = "expired"
             /\ Normal(records)[j].status \in Active => j \notin lapsed
  <2>1. records[j] \in Approval
    OBVIOUS
  <2>2. CASE j \in lapsed /\ records[j].status \in Active
    <3>1. Normal(records)[j] = [records[j] EXCEPT !.status = "expired"]
      BY <2>2 DEF Normal
    <3> QED BY <2>1, <2>2, <3>1 DEF Approval, Status, Active
  <2>3. CASE ~(j \in lapsed /\ records[j].status \in Active)
    <3>1. Normal(records)[j] = records[j]
      BY <2>3 DEF Normal
    <3> QED BY <2>1, <2>3, <3>1
  <2> QED BY <2>2, <2>3
<1>2. Normal(records) \in [Id -> Approval]
  <2>1. Normal(records) = [j \in Id |-> Normal(records)[j]]
    BY DEF Normal
  <2> QED BY <1>1, <2>1
<1> QED BY <1>1, <1>2

LEMMA QueueInit == Init => QueueInv
<1> SUFFICES ASSUME Init PROVE QueueInv
  OBVIOUS
<1> USE ApprovalAssumption
<1>1. record \in [Id -> Approval] /\ \A i \in Id : record[i].status = "expired"
  BY DEF Init, Blank, Approval, Status, Active
<1>2. TypeOK
  BY <1>1 DEF Init, TypeOK, Switch
<1>3. \A i \in Id : i \in Nat /\ i > 0
  BY DEF Id
<1> QED BY <1>1, <1>2, <1>3 DEF Init, QueueInv, UsePerGrant, Funded, Expired, Unmade, Staged,
               Unsettled, RightApprover, TwoApprovers

(* QueueInv request by request: what a step has to keep for each of them.  *)
RequestInv(i) ==
  LET r == record[i] IN
  /\ uses[i] <= grants[i]
  /\ r.status = "approved" => uses[i] < grants[i]
  /\ i <= made /\ r.status = "expired" => i \in lapsed
  /\ i > made => settled[i] = 0
  /\ r.status = "awaiting_second_approval" => r.first # None
  /\ settled[i] = 0 => r.status \in {"pending", "awaiting_second_approval", "expired"}
  /\ r.status \in {"approved", "used"} =>
       /\ "separate" \in under[i] /\ r.by # System => r.decider # r.by
       /\ "group" \in under[i] /\ r.scope \in Gated => r.decider \in Member
       /\ settled[i] = 1 /\ "twoPerson" \in under[i] => r.first \notin {None, r.decider}

LEMMA QueueInvByRequest == QueueInv <=> TypeOK /\ \A i \in Id : RequestInv(i)
  BY DEF QueueInv, UsePerGrant, Funded, Expired, Unmade, Staged, Unsettled, RightApprover,
         TwoApprovers, RequestInv

(* A request whose record is at most normalised, by a step that leaves its *)
(* history alone, keeps its invariant.                                     *)
LEMMA NormalisedKeeps ==
  ASSUME TypeOK, TypeOK', NEW u \in Id, RequestInv(u), record'[u] = Normal(record)[u],
         made' >= made, made' >= u => made >= u, lapsed \subseteq lapsed',
         settled'[u] = settled[u], grants'[u] = grants[u], uses'[u] = uses[u],
         under'[u] = under[u]
  PROVE  RequestInv(u)'
<1> DEFINE r == record[u]
           n == Normal(record)[u]
<1>1. /\ n.by = r.by /\ n.scope = r.scope /\ n.first = r.first /\ n.decider = r.decider
      /\ n.status = r.status \/ (u \in lapsed /\ n.status = "expired")
  BY NormalKeeps DEF TypeOK
<1>2. u \in Nat /\ made \in Nat /\ made' \in Nat
  BY DEF Id, TypeOK
<1> QED BY <1>1, <1>2 DEF RequestInv

(* What a settling decision leaves in the queue.                           *)
SettledRow(i, person, status) ==
  /\ record' \in [Id -> Approval]
  /\ \A u \in Id \ {i} : record'[u] = Normal(record)[u]
  /\ record'[i].by = record[i].by /\ record'[i].scope = record[i].scope
  /\ record'[i].first = record[i].first /\ record'[i].decider = person
  /\ record'[i].status = status \/ (i \in lapsed /\ record'[i].status = "expired")
  /\ record'[i].status \in Active => i \notin lapsed
  /\ settled' = [settled EXCEPT ![i] = settled[i] + 1]
  /\ UNCHANGED <<made, lapsed, policy, uses>>

LEMMA SettleEffect ==
  ASSUME TypeOK, NEW i \in Id, NEW person \in Person, NEW status \in {"approved", "rejected"},
         Settle(i, person, status, Normal(record))
  PROVE  SettledRow(i, person, status)
<1> DEFINE shown == Normal(record)
           done  == [shown[i] EXCEPT !.status = status, !.decider = person]
           rows  == [shown EXCEPT ![i] = done]
<1>1. /\ record \in [Id -> Approval] /\ shown \in [Id -> Approval]
      /\ shown[i].by = record[i].by /\ shown[i].scope = record[i].scope
      /\ shown[i].first = record[i].first
  BY NormalKeeps DEF TypeOK
<1>2. shown[i] \in Approval
  BY <1>1
<1>3. /\ done \in Approval /\ done.by = record[i].by /\ done.scope = record[i].scope
      /\ done.first = record[i].first /\ done.decider = person /\ done.status = status
  <2> HIDE DEF shown
  <2> QED BY <1>1, <1>2 DEF Approval, Status, Active
<1>4. rows \in [Id -> Approval] /\ rows[i] = done /\ \A u \in Id \ {i} : rows[u] = shown[u]
  BY <1>1, <1>3
<1>5. record' = Normal(rows)
  <2>1. record' = Normal([shown EXCEPT ![i].status = status, ![i].decider = person])
    BY DEF Settle
  <2>2. [shown EXCEPT ![i].status = status, ![i].decider = person] = rows
    <3> HIDE DEF shown
    <3> QED BY <1>1
  <2> QED BY <2>1, <2>2
<1>6. ASSUME NEW u \in Id \ {i} PROVE record'[u] = shown[u]
  <2>1. rows[u] = shown[u]
    BY <1>4
  <2>2. shown[u].status \in Active => u \notin lapsed
    BY <1>1, NormalKeeps
  <2> QED BY <1>5, <2>1, <2>2 DEF Normal
<1>7. /\ record' \in [Id -> Approval] /\ record'[i].by = done.by
      /\ record'[i].scope = done.scope /\ record'[i].first = done.first
      /\ record'[i].decider = done.decider
      /\ record'[i].status = done.status \/ (i \in lapsed /\ record'[i].status = "expired")
      /\ record'[i].status \in Active => i \notin lapsed
  <2> HIDE DEF rows, done
  <2> QED BY <1>4, <1>5, NormalKeeps
<1> QED BY <1>3, <1>6, <1>7 DEF Settle, SettledRow

(* Every step keeps the types and the invariant of every request.          *)
LEMMA QueueStep == QueueInv /\ [Next]_vars => QueueInv'
<1> SUFFICES ASSUME TypeOK, \A i \in Id : RequestInv(i), [Next]_vars
             PROVE  TypeOK' /\ \A i \in Id : RequestInv(i)'
  <2>1. QueueInv' <=> (TypeOK /\ \A i \in Id : RequestInv(i))'
    BY QueueInvByRequest, PTL
  <2> QED BY <2>1, QueueInvByRequest
<1> USE ApprovalAssumption
<1>0. /\ Normal(record) \in [Id -> Approval]
      /\ \A i \in Id : Normal(record)[i] \in Approval
      /\ Id \subseteq Nat \ {0} /\ made \in Nat
  <2>1. record \in [Id -> Approval]
    BY DEF TypeOK
  <2>2. Normal(record) \in [Id -> Approval]
    <3>1. CASE Id = {}
      BY <3>1 DEF Normal
    <3>2. CASE Id # {}
      BY <2>1, <3>2, NormalKeeps
    <3> QED BY <3>1, <3>2
  <2> QED BY <2>2 DEF TypeOK, Id
<1>1. ASSUME NEW person \in Person, NEW scope \in Scope, Request(person, scope)
      PROVE  TypeOK' /\ \A i \in Id : RequestInv(i)'
  <2> DEFINE new == [status |-> "pending", by |-> person, scope |-> scope,
                     first |-> None, decider |-> None]
  <2>1. new \in Approval /\ made + 1 \in Id
    BY <1>1, <1>0 DEF Approval, Status, Active, Request, Id, TypeOK
  <2>2. /\ made' = made + 1 /\ record' = [Normal(record) EXCEPT ![made + 1] = new]
        /\ lapsed' = lapsed /\ policy' = policy /\ settled' = settled /\ grants' = grants
        /\ uses' = uses /\ under' = under /\ made < RequestBound
    BY <1>1 DEF Request, history
  <2>3. record' \in [Id -> Approval]
    BY <2>1, <2>2, <1>0
  <2>4. TypeOK'
    BY <2>2, <2>3, <1>0 DEF TypeOK
  <2>5. ASSUME NEW u \in Id PROVE RequestInv(u)'
    <3>1. CASE u = made + 1
      <4>1. record'[u] = new
        BY <3>1, <2>1, <2>2, <1>0
      <4>2. settled[u] = 0 /\ uses[u] <= grants[u]
        BY <3>1, <1>0 DEF RequestInv
      <4> QED BY <3>1, <4>1, <4>2, <2>2, <1>0 DEF RequestInv
    <3>2. CASE u # made + 1
      <4>1. record'[u] = Normal(record)[u]
        BY <3>2, <2>1, <2>2, <1>0
      <4> QED BY <3>2, <4>1, <2>2, <2>4, <1>0, NormalisedKeeps
    <3> QED BY <3>1, <3>2
  <2> QED BY <2>4, <2>5
<1>2. CASE List
  <2>1. TypeOK'
    BY <1>2, <1>0 DEF List, TypeOK, history
  <2> QED BY <1>2, <2>1, <1>0, NormalisedKeeps DEF List, history
<1>3. ASSUME NEW i \in Id, Lapse(i) PROVE TypeOK' /\ \A u \in Id : RequestInv(u)'
  BY <1>3, <1>0 DEF Lapse, TypeOK, RequestInv, history
<1>4. ASSUME NEW switches \in Policies, UpdatePolicy(switches)
      PROVE  TypeOK' /\ \A u \in Id : RequestInv(u)'
  BY <1>4, <1>0 DEF UpdatePolicy, TypeOK, RequestInv, history, Switch
<1>5. ASSUME NEW i \in Id, NEW person \in Person, ApproveFirst(i, person)
      PROVE  TypeOK' /\ \A u \in Id : RequestInv(u)'
  <2> DEFINE shown == Normal(record)
             staged == [shown[i] EXCEPT !.status = "awaiting_second_approval", !.first = person]
  <2>1. /\ record' = [shown EXCEPT ![i] = staged] /\ shown[i].status = "pending"
        /\ UNCHANGED <<made, lapsed, policy, settled, grants, uses, under>>
    <3> HIDE DEF shown
    <3>1. record' = [shown EXCEPT ![i].status = "awaiting_second_approval", ![i].first = person]
      BY <1>5 DEF ApproveFirst, shown
    <3>2. shown \in [Id -> Approval]
      BY <1>0 DEF shown
    <3>3. /\ shown[i].status = "pending"
          /\ UNCHANGED <<made, lapsed, policy, settled, grants, uses, under>>
      BY <1>5 DEF ApproveFirst, history, shown
    <3> QED BY <3>1, <3>2, <3>3
  <2>2. staged \in Approval
    <3>1. shown[i] \in Approval /\ person \in Person
      BY <1>0
    <3> HIDE DEF shown
    <3> QED BY <3>1 DEF Approval, Status, Active
  <2>3. TypeOK'
    BY <2>1, <2>2, <1>0 DEF TypeOK
  <2>4. ASSUME NEW u \in Id PROVE RequestInv(u)'
    <3>1. CASE u = i
      <4>1. record'[u] = staged
        BY <3>1, <2>1, <1>0
      <4>2. staged.status = "awaiting_second_approval" /\ staged.first # None
        BY <1>0 DEF Approval
      <4> QED BY <4>1, <4>2, <2>1 DEF RequestInv
    <3>2. CASE u # i
      <4>1. record'[u] = Normal(record)[u]
        BY <3>2, <2>1, <1>0
      <4> QED BY <4>1, <2>1, <2>3, <1>0, NormalisedKeeps
    <3> QED BY <3>1, <3>2
  <2> QED BY <2>3, <2>4
<1>6. ASSUME NEW i \in Id, NEW scope \in Scope, Use(i, scope)
      PROVE  TypeOK' /\ \A u \in Id : RequestInv(u)'
  <2> DEFINE shown == Normal(record)
             used == [shown[i] EXCEPT !.status = "used"]
  <2>1. /\ record' = [shown EXCEPT ![i] = used] /\ shown[i].status = "approved"
        /\ uses' = [uses EXCEPT ![i] = uses[i] + 1]
        /\ UNCHANGED <<made, lapsed, policy, settled, grants, under>>
    BY <1>6 DEF Use
  <2>2. used \in Approval
    BY <1>0 DEF Approval, Status, Active
  <2>3. TypeOK'
    BY <2>1, <2>2, <1>0 DEF TypeOK
  <2>4. ASSUME NEW u \in Id PROVE RequestInv(u)'
    <3>1. CASE u = i
      <4>1. /\ record'[u] = used /\ uses'[u] = uses[u] + 1
            /\ uses[u] \in Nat /\ grants[u] \in Nat
        BY <3>1, <2>1, <1>0 DEF TypeOK
      <4>2. /\ record[i].status = "approved" /\ used.by = record[i].by
            /\ used.scope = record[i].scope /\ used.first = record[i].first
            /\ used.decider = record[i].decider /\ used.status = "used"
        <5>1. record \in [Id -> Approval]
          BY DEF TypeOK
        <5>2. /\ shown[i].by = record[i].by /\ shown[i].scope = record[i].scope
              /\ shown[i].first = record[i].first /\ shown[i].decider = record[i].decider
              /\ shown[i].status = record[i].status \/ shown[i].status = "expired"
          BY <5>1, NormalKeeps
        <5>3. shown[i] \in Approval
          BY <1>0
        <5> HIDE DEF shown
        <5> QED BY <5>2, <5>3, <2>1 DEF Approval
      <4> QED BY <3>1, <4>1, <4>2, <2>1, <1>0 DEF RequestInv
    <3>2. CASE u # i
      <4>1. record'[u] = Normal(record)[u] /\ uses'[u] = uses[u]
        BY <3>2, <2>1, <1>0 DEF TypeOK
      <4> QED BY <4>1, <2>1, <2>3, <1>0, NormalisedKeeps
    <3> QED BY <3>1, <3>2
  <2> QED BY <2>3, <2>4
<1>7. ASSUME NEW i \in Id, NEW person \in Person, Reject(i, person)
      PROVE  TypeOK' /\ \A u \in Id : RequestInv(u)'
  <2>1. Normal(record)[i].status # "none"
    BY <1>0 DEF Approval, Status, Active
  <2>2. /\ Settle(i, person, "rejected", Normal(record)) /\ i <= made
        /\ grants' = grants /\ under' = under
    BY <1>7 DEF Reject, Kept
  <2>3. SettledRow(i, person, "rejected")
    BY <2>2, SettleEffect
  <2>4. TypeOK'
    BY <2>2, <2>3, <1>0 DEF SettledRow, TypeOK
  <2>5. ASSUME NEW u \in Id PROVE RequestInv(u)'
    <3>1. CASE u = i
      BY <3>1, <2>2, <2>3, <1>0 DEF SettledRow, RequestInv, TypeOK
    <3>2. CASE u # i
      BY <3>2, <2>2, <2>3, <2>4, <1>0, NormalisedKeeps DEF SettledRow
    <3> QED BY <3>1, <3>2
  <2> QED BY <2>4, <2>5
<1>8. ASSUME NEW i \in Id, NEW person \in Person, ApproveFinal(i, person)
      PROVE  TypeOK' /\ \A u \in Id : RequestInv(u)'
  <2>1. /\ Settle(i, person, "approved", Normal(record)) /\ i <= made
        /\ grants' = [grants EXCEPT ![i] = grants[i] + 1]
        /\ under' = [under EXCEPT ![i] = policy]
    BY <1>8 DEF ApproveFinal, Kept
  <2>2. SettledRow(i, person, "approved")
    BY <2>1, SettleEffect
  <2>3. TypeOK'
    BY <2>1, <2>2, <1>0 DEF SettledRow, TypeOK
  <2>4. /\ "separate" \in policy /\ record[i].by # System => person # record[i].by
        /\ "group" \in policy /\ record[i].scope \in Gated => person \in Member
    BY <1>8 DEF ApproveFinal, MayApprove
  <2>5. settled[i] = 0 /\ "twoPerson" \in policy /\ i \notin lapsed
        => record[i].first \notin {None, person}
    <3> SUFFICES ASSUME settled[i] = 0, "twoPerson" \in policy, i \notin lapsed
                 PROVE  record[i].first \notin {None, person}
      OBVIOUS
    <3>1. /\ Normal(record)[i].status = record[i].status
          /\ Normal(record)[i].first = record[i].first
      BY NormalKeeps DEF TypeOK
    <3>2. /\ record[i].status # "pending"
          /\ ~(record[i].status = "awaiting_second_approval" /\ record[i].first = person)
      BY <1>8, <3>1 DEF ApproveFinal
    <3> QED BY <3>2, <2>1 DEF RequestInv
  <2>6. ASSUME NEW u \in Id PROVE RequestInv(u)'
    <3>1. CASE u = i
      <4>1. /\ uses'[u] = uses[u] /\ grants'[u] = grants[u] + 1 /\ settled'[u] = settled[u] + 1
            /\ under'[u] = policy /\ made' = made /\ lapsed' = lapsed
            /\ uses[u] \in Nat /\ grants[u] \in Nat /\ settled[u] \in Nat
        BY <3>1, <2>1, <2>2 DEF SettledRow, TypeOK
      <4>2. /\ record'[u].by = record[i].by /\ record'[u].scope = record[i].scope
            /\ record'[u].first = record[i].first /\ record'[u].decider = person
            /\ \/ record'[u].status = "approved" /\ i \notin lapsed
               \/ record'[u].status = "expired" /\ i \in lapsed
        BY <3>1, <2>2 DEF SettledRow, Active
      <4>3. uses[u] <= grants[u]
        BY DEF RequestInv
      <4>4. u <= made /\ u \in Nat /\ made \in Nat
        BY <3>1, <2>1, <1>0
      <4> QED BY <3>1, <4>1, <4>2, <4>3, <4>4, <2>4, <2>5 DEF RequestInv
    <3>2. CASE u # i
      <4>1. /\ grants'[u] = grants[u] /\ under'[u] = under[u] /\ settled'[u] = settled[u]
            /\ uses' = uses /\ made' = made /\ lapsed' = lapsed
            /\ record'[u] = Normal(record)[u]
        BY <3>2, <2>1, <2>2 DEF TypeOK, SettledRow
      <4>2. made' >= made /\ (made' >= u => made >= u)
        BY <4>1, <1>0
      <4> QED BY <4>1, <4>2, <2>3, NormalisedKeeps
    <3> QED BY <3>1, <3>2
  <2> QED BY <2>3, <2>6
<1>9. CASE UNCHANGED vars
  BY <1>9 DEF vars, TypeOK, RequestInv
<1> QED BY <1>1, <1>2, <1>3, <1>4, <1>5, <1>6, <1>7, <1>8, <1>9 DEF Next

(* The initial states and every step, for the theorems below.              *)
LEMMA QueueInvariant == Spec => []QueueInv
  BY QueueInit, QueueStep, PTL DEF Spec

(* Every record of the queue, and every history variable, keeps its type.  *)
THEOREM QueueTyped == Spec => []TypeOK
<1>1. QueueInv => TypeOK
  BY DEF QueueInv
<1> QED BY <1>1, QueueInvariant, PTL

(* One use per approving decision.                                         *)
THEOREM UsesAreGranted == Spec => []UsePerGrant
<1>1. QueueInv => UsePerGrant
  BY DEF QueueInv
<1> QED BY <1>1, QueueInvariant, PTL

(* Approvers meet the policy in force when they approve.                   *)
THEOREM ApproversAreRight == Spec => []RightApprover
<1>1. QueueInv => RightApprover
  BY DEF QueueInv
<1> QED BY <1>1, QueueInvariant, PTL

(* Two-person approval takes two persons.                                  *)
THEOREM ApproversAreTwo == Spec => []TwoApprovers
<1>1. QueueInv => TwoApprovers
  BY DEF QueueInv
<1> QED BY <1>1, QueueInvariant, PTL

(* Nothing goes through on an approval past its expiry: consumeApproval()  *)
(* sees the normalised record, which is approved only before it.           *)
THEOREM LapsedIsUseless == Spec => NoLapsedUse
<1>1. QueueInv /\ [Next]_vars => [\A i \in lapsed : uses'[i] = uses[i]]_vars
  <2> SUFFICES ASSUME TypeOK, [Next]_vars, NEW j \in lapsed
               PROVE  uses'[j] = uses[j]
    BY DEF QueueInv
  <2>1. ASSUME NEW i \in Id, NEW scope \in Scope, Use(i, scope) PROVE uses'[j] = uses[j]
    <3>1. i \notin lapsed
      BY <2>1, NormalKeeps DEF Use, TypeOK, Active
    <3> QED BY <2>1, <3>1 DEF Use, TypeOK
  <2>2. CASE UNCHANGED uses
    BY <2>2
  <2> QED BY <2>1, <2>2 DEF Next, vars, history, Request, List, Lapse, UpdatePolicy, Reject,
             ApproveFirst, ApproveFinal, Settle
<1> QED BY <1>1, QueueInvariant, PTL DEF Spec, NoLapsedUse
=============================================================================
