------------------------- MODULE DeploymentsProofs -------------------------
(***************************************************************************)
(* Proofs about Deployments, for any number of deployments, plans,         *)
(* approvals and limits.                                                   *)
(*                                                                         *)
(* DeployInv is inductive.  A quota is held because a run that has been    *)
(* let through and whose count nobody made stale has room for one more     *)
(* machine (Room); for a compose spec the engine's own sum is what         *)
(* guarantees it, as it is never less than the count (SumOK).              *)
(***************************************************************************)
EXTENDS Deployments, FiniteSetTheorems, SequenceTheorems, TLAPS

(* The phases of a plan before its machine is made, and after.             *)
Before == {"idle", "planning", "gating", "cloning"}
Making == {"reading", "building", "cleaning", "finishing", "recording"}

RunOK(r) ==
  /\ run[r].at <= Len(run[r].req.plans)
  /\ run[r].phase = "gating" => run[r].todo # <<>>
  /\ run[r].phase \in {"planning", "finishing"} => Many(r)
  /\ run[r].phase = "recording" => run[r].req.kind = "template"
  /\ run[r].phase \in {"idle", "planning"} => run[r].at = 1 /\ ~run[r].loaded

(* What the steps say of the plans, up to the one the run has come to.     *)
StepOK(r, k) ==
  /\ k < run[r].at => run[r].step[k] = "success"
  /\ k > run[r].at =>
       run[r].step[k] = IF run[r].phase = "ended" /\ k <= Len(run[r].req.plans)
                        THEN "skipped" ELSE "pending"
  /\ k = run[r].at =>
       IF run[r].phase = "ended"
       THEN \/ run[r].step[k] = "failure"
            \/ run[r].step[k] = "success" /\ k = Len(run[r].req.plans)
       ELSE IF run[r].phase = "refused" THEN run[r].step[k] \in {"failure", "pending"}
       ELSE run[r].step[k] = "pending"

RowOK(r) ==
  row[r] # "none" =>
    /\ run[r].phase = "ended"
    /\ IF Many(r)
       THEN row[r] = IF run[r].step[run[r].at] = "success" THEN "success"
                     ELSE IF run[r].at > 1 THEN "warning" ELSE "failure"
       ELSE run[r].req.kind = "template" /\ run[r].step[run[r].at] = "success"

(* The machine of each plan, by what the run says of it.                   *)
MachineOK(r, k) ==
  LET m == <<r, k>> IN
  /\ k > run[r].at => machine[m] = "none"
  /\ k = run[r].at =>
       /\ run[r].phase \in Before => machine[m] = "none"
       /\ run[r].phase \in Making => machine[m] \in {"loose", "pooled"}
       /\ run[r].phase = "reading" => machine[m] = "loose"
       /\ run[r].phase \in {"finishing", "recording"} /\ (Placed(r) \/ Plan(r).start)
          => machine[m] = "pooled"
  /\ run[r].phase \in Before \union Making => cause[m] = "none"
  /\ run[r].phase \in {"refused", "crashed"} /\ machine[m] \in {"loose", "pooled"}
     => cause[m] # "none"
  /\ run[r].step[k] = "success" /\ run[r].phase # "crashed" =>
       /\ machine[m] # "none" /\ cause[m] = "none"
       /\ run[r].req.project => m \in assigned
  /\ run[r].step[k] = "failure" /\ machine[m] \in {"loose", "pooled"} => cause[m] # "none"
  /\ m \in assigned => run[r].step[k] = "success"

(* The gates left: the engine's comes first, a catalog plan's last is the  *)
(* pool's, and a compose plan has none of the pool's.                      *)
TodoOK(r) ==
  run[r].phase = "gating" =>
    LET todo == run[r].todo IN
    /\ \A i \in 1..Len(todo) : todo[i] = "engine" => i = 1 /\ Many(r)
    /\ run[r].req.kind = "catalog" => todo[Len(todo)] = "pool"
    /\ run[r].req.kind = "compose" => \A i \in 1..Len(todo) : todo[i] # "pool"

(* The approval of a big machine is spent before the machine is made.      *)
PaidOK(r) ==
  /\ run[r].phase \in Making \union {"gating", "cloning"}
  /\ run[r].phase = "gating" => \A i \in 1..Len(run[r].todo) : run[r].todo[i] # "project"
  /\ run[r].req.project /\ Plan(r).big /\ ~run[r].req.admin
  => \E a \in Approval : spent[a] = Here(r)

Bought(r, k) ==
  /\ machine[<<r, k>>] # "none"
  /\ run[r].req.project /\ run[r].req.plans[k].big /\ ~run[r].req.admin
  => \E a \in Approval : spent[a] = <<r, k>>

Sound(r) ==
  /\ RunOK(r) /\ RowOK(r) /\ TodoOK(r) /\ PaidOK(r)
  /\ \A k \in Step : StepOK(r, k) /\ MachineOK(r, k) /\ Bought(r, k)

Struct == TypeOK /\ \A r \in Run : Sound(r)

(* The gates of scope s are behind the run, and its plan's machine is not  *)
(* yet counted there.                                                      *)
Through(r, s) ==
  /\ run[r].phase \in Making \union {"gating", "cloning"}
  /\ s \in Counted(run[r].req, Plan(r))
  /\ run[r].phase = "gating" =>
       \A i \in 1..Len(run[r].todo) : ScopeOf(run[r].todo[i]) # s
  /\ Here(r) \notin Members(s)

Room ==
  \A r \in Run, s \in Scope \ raced :
    Through(r, s) /\ s \notin blind[r] /\ Limit[s] > 0 => Count(s) + 1 <= Limit[s]

SumOK ==
  \A r \in Run :
    /\ run[r].req.kind = "compose" /\ run[r].req.named
    /\ run[r].phase \in Making \union {"gating", "cloning"}
    /\ run[r].loaded /\ "pool" \notin blind[r]
    => Count("pool") + (IF Through(r, "pool") THEN 1 ELSE 0) <= run[r].seen

Numbers   == Room /\ SumOK /\ QuotaHeld
DeployInv == Struct /\ Numbers

-----------------------------------------------------------------------------
(* Concatenations of short tuples.                                         *)
LEMMA ConcatOneOne ==
  ASSUME NEW S, NEW a \in S, NEW b \in S
  PROVE  <<a>> \o <<b>> = <<a, b>>
<1>1. /\ <<a>> \in Seq(S) /\ <<b>> \in Seq(S) /\ <<a, b>> \in Seq(S)
      /\ Len(<<a>>) = 1 /\ Len(<<b>>) = 1
  OBVIOUS
<1>2. <<a>> \o <<b>> \in Seq(S) /\ Len(<<a>> \o <<b>>) = 2
  BY <1>1, ConcatProperties
<1>3. \A i \in 1..2 : (<<a>> \o <<b>>)[i] = <<a, b>>[i]
  BY <1>1, ConcatProperties
<1> QED BY <1>1, <1>2, <1>3, SeqEqual

LEMMA ConcatTwoOne ==
  ASSUME NEW S, NEW a \in S, NEW b \in S, NEW c \in S
  PROVE  <<a, b>> \o <<c>> = <<a, b, c>>
<1>1. /\ <<a, b>> \in Seq(S) /\ <<c>> \in Seq(S) /\ <<a, b, c>> \in Seq(S)
      /\ Len(<<a, b>>) = 2 /\ Len(<<c>>) = 1
  OBVIOUS
<1>2. <<a, b>> \o <<c>> \in Seq(S) /\ Len(<<a, b>> \o <<c>>) = 3
  BY <1>1, ConcatProperties
<1>3. \A i \in 1..3 : (<<a, b>> \o <<c>>)[i] = <<a, b, c>>[i]
  BY <1>1, ConcatProperties
<1> QED BY <1>1, <1>2, <1>3, SeqEqual

LEMMA ConcatOneTwo ==
  ASSUME NEW S, NEW a \in S, NEW b \in S, NEW c \in S
  PROVE  <<a>> \o <<b, c>> = <<a, b, c>>
<1>1. /\ <<a>> \in Seq(S) /\ <<b, c>> \in Seq(S) /\ <<a, b, c>> \in Seq(S)
      /\ Len(<<a>>) = 1 /\ Len(<<b, c>>) = 2
  OBVIOUS
<1>2. <<a>> \o <<b, c>> \in Seq(S) /\ Len(<<a>> \o <<b, c>>) = 3
  BY <1>1, ConcatProperties
<1>3. \A i \in 1..3 : (<<a>> \o <<b, c>>)[i] = <<a, b, c>>[i]
  BY <1>1, ConcatProperties
<1> QED BY <1>1, <1>2, <1>3, SeqEqual

(* The gates of a plan, one after the other.                               *)
LEMMA GatesTuple ==
  ASSUME NEW q \in Request, NEW plan \in PlanType
  PROVE  \/ /\ q.kind = "compose"
            /\ \/ q.project /\ GatesOf(q, plan) \in {<<"engine", "fabric", "project">>, <<"fabric", "project">>}
               \/ ~q.project /\ GatesOf(q, plan) \in {<<"engine", "fabric">>, <<"fabric">>}
         \/ q.kind = "catalog" /\ ~q.project
            /\ GatesOf(q, plan) \in {<<"engine", "fabric", "pool">>, <<"fabric", "pool">>}
         \/ q.kind = "template" /\ ~q.project
            /\ GatesOf(q, plan) \in {<<"fabric", "pool">>, <<"fabric">>}
         \/ /\ q.kind = "create"
            /\ \/ q.project /\ GatesOf(q, plan) = <<"project">>
               \/ ~q.project /\ GatesOf(q, plan) = <<>>
<1>1. /\ q.kind \in Kind /\ q.project \in BOOLEAN /\ plan.pinned \in BOOLEAN
      /\ q.kind \in {"catalog", "template"} => ~q.project
  BY RequestAssumption DEF RequestType, PlanType
<1> DEFINE engine  == IF plan.pinned THEN <<"engine">> ELSE <<>>
           pool    == IF plan.pinned THEN <<"pool">> ELSE <<>>
           project == IF q.project THEN <<"project">> ELSE <<>>
<1>0. "engine" \in Gate /\ "fabric" \in Gate /\ "pool" \in Gate /\ "project" \in Gate
  BY DEF Gate
<1>2. /\ <<"engine">> \o <<"fabric">> = <<"engine", "fabric">>
      /\ <<"fabric">> \o <<"project">> = <<"fabric", "project">>
      /\ <<"fabric">> \o <<"pool">> = <<"fabric", "pool">>
  BY <1>0, ConcatOneOne
<1>3. <<"engine", "fabric">> \o <<"project">> = <<"engine", "fabric", "project">>
  BY <1>0, ConcatTwoOne
<1>4. <<"engine">> \o <<"fabric", "pool">> = <<"engine", "fabric", "pool">>
  BY <1>0, ConcatOneTwo
<1>5. CASE q.kind = "compose"
  <2>1. GatesOf(q, plan) = (engine \o <<"fabric">>) \o project
    BY <1>5 DEF GatesOf
  <2>2. engine \o <<"fabric">> \in {<<"engine", "fabric">>, <<"fabric">>}
    <3>1. CASE plan.pinned
      BY <1>2, <3>1
    <3>2. CASE ~plan.pinned
      <4>1. engine = <<>> /\ <<>> \o <<"fabric">> = <<"fabric">>
        BY <3>2
      <4> QED BY <4>1
    <3> QED BY <3>1, <3>2
  <2>3. CASE q.project
    BY <1>2, <1>3, <1>5, <2>1, <2>2, <2>3
  <2>4. CASE ~q.project
    <3>1. /\ <<"engine", "fabric">> \o <<>> = <<"engine", "fabric">>
          /\ <<"fabric">> \o <<>> = <<"fabric">>
      OBVIOUS
    <3> QED BY <1>5, <2>1, <2>2, <2>4, <3>1
  <2> QED BY <2>3, <2>4
<1>6. CASE q.kind = "catalog"
  <2>1. GatesOf(q, plan) = engine \o <<"fabric", "pool">>
    BY <1>6 DEF GatesOf
  <2>2. CASE plan.pinned
    BY <1>1, <1>4, <1>6, <2>1, <2>2
  <2>3. CASE ~plan.pinned
    <3>1. engine = <<>> /\ <<>> \o <<"fabric", "pool">> = <<"fabric", "pool">>
      BY <2>3
    <3> HIDE DEF engine
    <3> QED BY <1>1, <1>6, <2>1, <3>1
  <2> QED BY <2>2, <2>3
<1>7. CASE q.kind = "template"
  <2>1. GatesOf(q, plan) = <<"fabric">> \o pool
    BY <1>7 DEF GatesOf
  <2>2. CASE plan.pinned
    BY <1>1, <1>2, <1>7, <2>1, <2>2
  <2>3. CASE ~plan.pinned
    <3>1. pool = <<>> /\ <<"fabric">> \o <<>> = <<"fabric">>
      BY <2>3
    <3> HIDE DEF pool
    <3> QED BY <1>1, <1>7, <2>1, <3>1
  <2> QED BY <2>2, <2>3
<1>8. CASE q.kind = "create"
  <2>1. GatesOf(q, plan) = project
    BY <1>8 DEF GatesOf
  <2> QED BY <1>8, <2>1
<1> QED BY <1>1, <1>5, <1>6, <1>7, <1>8 DEF Kind

LEMMA GatesList ==
  ASSUME NEW q \in Request, NEW plan \in PlanType, NEW g, g = GatesOf(q, plan)
  PROVE  /\ g \in Seq(Gate)
         /\ q.kind = "catalog" => g # <<>> /\ g[Len(g)] = "pool"
         /\ q.kind = "compose" => \A i \in 1..Len(g) : g[i] # "pool"
         /\ \A i \in 1..Len(g) : g[i] = "engine" => i = 1 /\ q.kind \in {"compose", "catalog"}
         /\ q.project => \E i \in 1..Len(g) : g[i] = "project"
<1> USE DEF Gate
<1>1. CASE q.kind = "compose" /\ g = <<"engine", "fabric", "project">>
  BY <1>1
<1>2. CASE q.kind = "compose" /\ g = <<"fabric", "project">>
  BY <1>2
<1>3. CASE q.kind = "compose" /\ ~q.project /\ g = <<"engine", "fabric">>
  BY <1>3
<1>4. CASE q.kind \in {"compose", "template"} /\ ~q.project /\ g = <<"fabric">>
  BY <1>4
<1>5. CASE q.kind = "catalog" /\ ~q.project /\ g = <<"engine", "fabric", "pool">>
  BY <1>5
<1>6. CASE q.kind \in {"catalog", "template"} /\ ~q.project /\ g = <<"fabric", "pool">>
  BY <1>6
<1>7. CASE q.kind = "create" /\ q.project /\ g = <<"project">>
  BY <1>7
<1>8. CASE q.kind = "create" /\ ~q.project /\ g = <<>>
  BY <1>8
<1>9. \/ q.kind = "compose" /\ g = <<"engine", "fabric", "project">>
      \/ q.kind = "compose" /\ g = <<"fabric", "project">>
      \/ q.kind = "compose" /\ ~q.project /\ g = <<"engine", "fabric">>
      \/ q.kind \in {"compose", "template"} /\ ~q.project /\ g = <<"fabric">>
      \/ q.kind = "catalog" /\ ~q.project /\ g = <<"engine", "fabric", "pool">>
      \/ q.kind \in {"catalog", "template"} /\ ~q.project /\ g = <<"fabric", "pool">>
      \/ q.kind = "create" /\ q.project /\ g = <<"project">>
      \/ q.kind = "create" /\ ~q.project /\ g = <<>>
  BY GatesTuple
<1> QED BY <1>1, <1>2, <1>3, <1>4, <1>5, <1>6, <1>7, <1>8, <1>9

-----------------------------------------------------------------------------
RunType == [phase : Phase, req : Request, at : Step, todo : Seq(Gate),
            loaded : BOOLEAN, seen : Nat, step : [Step -> Status]]

LEMMA Types ==
  ASSUME TypeOK
  PROVE  /\ run \in [Run -> RunType]
         /\ machine \in [Machine -> {"none", "loose", "pooled", "gone"}]
         /\ assigned \subseteq Machine
         /\ row \in [Run -> {"none", "pending", "success", "warning", "failure"}]
         /\ spent \in [Approval -> Machine \union {None}]
         /\ blind \in [Run -> SUBSET Scope] /\ raced \subseteq Scope
         /\ cause \in [Machine -> Cause]
BY DEF TypeOK, RunType

LEMMA RequestFacts ==
  ASSUME NEW q \in Request
  PROVE  /\ q.kind \in Kind /\ q.project \in BOOLEAN /\ q.approval \in Approval \union {None}
         /\ q.plans \in Seq(PlanType) /\ Len(q.plans) \in Step
         /\ q.kind \in {"template", "create"} => Len(q.plans) = 1
         /\ q.kind \in {"catalog", "template"} => ~q.project
         /\ \A k \in 1..Len(q.plans) : q.plans[k] \in PlanType
<1>1. q \in RequestType
  BY RequestAssumption
<1> QED BY <1>1, RequestAssumption DEF RequestType

LEMMA StepFacts ==
  /\ MaxPlans \in Nat /\ MaxPlans >= 1 /\ 1 \in Step /\ Step \subseteq Nat
  /\ \A k \in Step : 1 <= k
BY RequestAssumption DEF Step

LEMMA RunFacts ==
  ASSUME Struct, NEW r \in Run
  PROVE  /\ run[r] \in RunType /\ Sound(r) /\ run[r].req \in Request
         /\ run[r].at \in Step /\ run[r].at \in 1..Len(run[r].req.plans)
         /\ Plan(r) \in PlanType /\ Here(r) \in Machine
         /\ ~Many(r) => run[r].at = 1 /\ Len(run[r].req.plans) = 1
<1>1. TypeOK /\ Sound(r) /\ RunOK(r)
  BY DEF Struct, Sound
<1>2. run[r] \in RunType
  BY <1>1, Types
<1>3. run[r].req \in Request /\ run[r].at \in Step
  BY <1>2 DEF RunType
<1>4. run[r].at \in 1..Len(run[r].req.plans)
  <2>1. Len(run[r].req.plans) \in Step
    BY <1>3, RequestFacts
  <2>2. run[r].at <= Len(run[r].req.plans)
    BY <1>1 DEF RunOK
  <2>3. run[r].at \in Nat /\ Len(run[r].req.plans) \in Nat /\ 1 <= run[r].at
    BY <1>3, <2>1, StepFacts
  <2> QED BY <2>2, <2>3
<1>5. Plan(r) \in PlanType /\ Here(r) \in Machine
  BY <1>3, <1>4, RequestFacts DEF Plan, Here, Machine
<1>6. ~Many(r) => run[r].at = 1 /\ Len(run[r].req.plans) = 1
  <2> SUFFICES ASSUME ~Many(r) PROVE run[r].at = 1 /\ Len(run[r].req.plans) = 1
    OBVIOUS
  <2>1. run[r].req.kind \in {"template", "create"}
    BY <1>3, RequestFacts DEF Many, Kind
  <2>2. Len(run[r].req.plans) = 1
    BY <1>3, <2>1, RequestFacts
  <2> QED BY <1>4, <2>2
<1> QED BY <1>1, <1>2, <1>3, <1>4, <1>5, <1>6

(* A step of one run leaves the others sound.                              *)
LEMMA OtherSound ==
  ASSUME Struct, NEW q \in Run, run'[q] = run[q], row'[q] = row[q],
         \A k \in Step : /\ machine'[<<q, k>>] = machine[<<q, k>>]
                         /\ cause'[<<q, k>>] = cause[<<q, k>>]
                         /\ <<q, k>> \in assigned' <=> <<q, k>> \in assigned,
         \A a \in Approval : spent[a] # None => spent'[a] = spent[a]
  PROVE  Sound(q)'
<1>1. Sound(q) /\ Here(q) \in Machine
  BY RunFacts
<1>2. (RunOK(q) /\ RowOK(q) /\ TodoOK(q))'
  BY <1>1 DEF Sound, RunOK, RowOK, TodoOK, Many
<1>3. \A m \in Machine, a \in Approval : spent[a] = m => spent'[a] = m
  BY ApprovalAssumption
<1>4. PaidOK(q)'
  BY <1>1, <1>3 DEF Sound, PaidOK, Plan, Here
<1>5. ASSUME NEW k \in Step
      PROVE  (StepOK(q, k) /\ MachineOK(q, k) /\ Bought(q, k))'
  <2>1. StepOK(q, k) /\ MachineOK(q, k) /\ Bought(q, k) /\ <<q, k>> \in Machine
    BY <1>1 DEF Sound, Machine
  <2>2. StepOK(q, k)'
    BY <2>1 DEF StepOK
  <2>3. MachineOK(q, k)'
    BY <2>1 DEF MachineOK, Placed, Plan
  <2>4. Bought(q, k)'
    BY <1>3, <2>1 DEF Bought
  <2> QED BY <2>2, <2>3, <2>4
<1> QED BY <1>2, <1>4, <1>5 DEF Sound

LEMMA RoleSets ==
  /\ Making \subseteq Phase /\ Before \subseteq Phase
  /\ Making \intersect Before = {}
BY DEF Making, Before, Phase

(* A plan that fails leaves the runs sound, when what it leaves behind has *)
(* a cause.                                                                *)
LEMMA FailSound ==
  ASSUME Struct, NEW r \in Run, run[r].phase \in (Making \union {"gating", "cloning"}) \ {"recording"},
         StepFails(r), TypeOK',
         \A m \in Machine \ {Here(r)} : machine'[m] = machine[m] /\ cause'[m] = cause[m],
         machine'[Here(r)] \in {"loose", "pooled"} => cause'[Here(r)] # "none",
         machine[Here(r)] = "none" /\ machine'[Here(r)] # "none" => run[r].phase = "cloning",
         assigned' = assigned, spent' = spent
  PROVE  Struct'
<1> DEFINE at == run[r].at n == Len(run[r].req.plans)
           ph == IF Many(r) THEN "ended" ELSE "refused"
           step == [k \in Step |-> IF k = at THEN "failure"
                                  ELSE IF k > at /\ k <= n /\ Many(r) THEN "skipped" ELSE run[r].step[k]]
<1>1. /\ run[r] \in RunType /\ Sound(r) /\ at \in Step /\ at \in 1..n
      /\ Here(r) = <<r, at>> /\ Here(r) \in Machine
      /\ ~Many(r) => at = 1 /\ n = 1
  BY RunFacts DEF Here
<1>2. /\ TypeOK /\ run \in [Run -> RunType]
      /\ row \in [Run -> {"none", "pending", "success", "warning", "failure"}]
  BY Types DEF Struct
<1>3. /\ run'[r] = [run[r] EXCEPT !.phase = ph, !.step = step]
      /\ row'[r] = IF Many(r) THEN IF at > 1 THEN "warning" ELSE "failure" ELSE row[r]
      /\ \A q \in Run \ {r} : run'[q] = run[q] /\ row'[q] = row[q]
  <2>1. CASE Many(r)
    <3>1. step = [k \in Step |-> IF k = at THEN "failure"
                               ELSE IF k > at /\ k <= n THEN "skipped" ELSE run[r].step[k]]
      BY <2>1
    <3>2. /\ run' = [run EXCEPT ![r].phase = "ended", ![r].step = step]
          /\ row' = [row EXCEPT ![r] = IF at > 1 THEN "warning" ELSE "failure"]
      BY <2>1, <3>1 DEF StepFails
    <3> HIDE DEF step
    <3> QED BY <1>2, <2>1, <3>2
  <2>2. CASE ~Many(r)
    <3>1. [run[r].step EXCEPT ![at] = "failure"] = step
      BY <1>1, <2>2 DEF RunType
    <3> QED BY <1>2, <2>2, <3>1 DEF StepFails
  <2> QED BY <2>1, <2>2
<1>4. /\ run'[r].phase = ph /\ run'[r].step = step /\ run'[r].at = at
      /\ run'[r].req = run[r].req
  BY <1>1, <1>3 DEF RunType
<1>5. ASSUME NEW q \in Run \ {r} PROVE Sound(q)'
  <2>1. \A k \in Step : <<q, k>> \in Machine \ {Here(r)}
    BY <1>1 DEF Machine
  <2> QED BY <1>3, <2>1, OtherSound
<1>6. Many(r)' = Many(r)
  BY <1>4 DEF Many
<1>7. RunOK(r)' /\ TodoOK(r)' /\ PaidOK(r)'
  BY <1>1, <1>4, <1>6 DEF Sound, RunOK, TodoOK, PaidOK, Making
<1>8. run[r].phase # "ended" /\ run[r].phase # "refused" /\ run[r].phase # "crashed"
  BY DEF Making
<1>9. RowOK(r)'
  <2>1. row[r] = "none"
    BY <1>1, <1>8 DEF Sound, RowOK
  <2>2. step[at] = "failure"
    BY <1>1
  <2> QED BY <1>3, <1>4, <1>6, <2>1, <2>2 DEF RowOK
<1> HIDE DEF ph, step
<1>10. /\ ph \in {"ended", "refused"} /\ (ph = "ended" <=> Many(r))
       /\ \A k \in Step : step[k] = IF k = at THEN "failure"
              ELSE IF k > at /\ k <= n /\ Many(r) THEN "skipped" ELSE run[r].step[k]
  BY DEF ph, step
<1>11. ASSUME NEW k \in Step
       PROVE  (StepOK(r, k) /\ MachineOK(r, k) /\ Bought(r, k))'
  <2>1. StepOK(r, k) /\ MachineOK(r, k) /\ Bought(r, k) /\ <<r, k>> \in Machine /\ 1 <= k
    BY <1>1, StepFacts DEF Sound, Machine
  <2>2. k # at => <<r, k>> # Here(r)
    BY <1>1
  <2>3. /\ k < at => run[r].step[k] = "success"
        /\ k > at => run[r].step[k] = "pending" /\ machine[<<r, k>>] = "none"
    BY <1>8, <2>1 DEF StepOK, MachineOK
  <2>4. StepOK(r, k)'
    BY <1>1, <1>4, <1>10, <2>1, <2>3, StepFacts DEF StepOK
  <2>5. MachineOK(r, k)'
    <3>1. CASE k = at
      <4>1. <<r, k>> \notin assigned
        BY <1>8, <2>1, <3>1 DEF StepOK, MachineOK
      <4> QED BY <1>1, <1>4, <1>10, <3>1, <4>1 DEF MachineOK, Before, Making
    <3>2. CASE k < at
      <4>1. Many(r)
        BY <1>1, <2>1, <3>2, StepFacts
      <4>2. /\ machine'[<<r, k>>] = machine[<<r, k>>] /\ cause'[<<r, k>>] = cause[<<r, k>>]
        BY <2>1, <2>2, <3>2, StepFacts
      <4>3. machine[<<r, k>>] # "none" /\ cause[<<r, k>>] = "none"
            /\ (run[r].req.project => <<r, k>> \in assigned)
        BY <1>8, <2>1, <2>3, <3>2 DEF MachineOK
      <4>4. step[k] = "success" /\ k # at /\ ~(k > at)
        BY <1>1, <1>10, <2>3, <3>2, StepFacts
      <4> QED BY <1>4, <1>10, <4>1, <4>2, <4>3, <4>4 DEF MachineOK, Before, Making
    <3>3. CASE k > at
      <4>1. machine'[<<r, k>>] = "none"
        BY <2>1, <2>2, <2>3, <3>3, StepFacts, <1>1
      <4>2. <<r, k>> \notin assigned
        BY <2>1, <2>3, <3>3 DEF MachineOK
      <4>3. step[k] \in {"skipped", "pending"} /\ k # at
        BY <1>1, <1>10, <2>3, <3>3, StepFacts
      <4> QED BY <1>4, <1>10, <4>1, <4>2, <4>3 DEF MachineOK, Before, Making
    <3> QED BY <1>1, <2>1, <3>1, <3>2, <3>3, StepFacts
  <2>6. Bought(r, k)'
    <3>1. CASE k # at
      <4>1. machine'[<<r, k>>] = machine[<<r, k>>]
        BY <2>1, <2>2, <3>1
      <4> QED BY <1>4, <2>1, <4>1 DEF Bought
    <3>2. CASE k = at
      <4>1. CASE machine[<<r, k>>] # "none"
        BY <1>4, <2>1, <4>1 DEF Bought
      <4>2. CASE machine[<<r, k>>] = "none" /\ machine'[<<r, k>>] # "none"
        <5>1. run[r].phase = "cloning"
          BY <1>1, <3>2, <4>2
        <5>2. run[r].req.project /\ Plan(r).big /\ ~run[r].req.admin => \E a \in Approval : spent[a] = Here(r)
          BY <1>1, <5>1 DEF Sound, PaidOK
        <5> QED BY <1>1, <1>4, <3>2, <5>2 DEF Bought, Plan
      <4> QED BY <4>1, <4>2 DEF Bought
    <3> QED BY <3>1, <3>2
  <2> QED BY <2>4, <2>5, <2>6
<1>12. Sound(r)'
  BY <1>7, <1>9, <1>11 DEF Sound
<1> QED BY <1>5, <1>12 DEF Struct

(* The run goes on to another phase of the same plan, with its machine.    *)
LEMMA PhaseSound ==
  ASSUME Struct, NEW r \in Run, NEW phase \in Making, TypeOK',
         run' = [run EXCEPT ![r].phase = phase],
         run[r].phase \in Making \union {"cloning"},
         phase = "finishing" => Many(r),
         phase = "recording" => run[r].req.kind = "template",
         \A m \in Machine \ {Here(r)} : machine'[m] = machine[m],
         machine'[Here(r)] \in {"loose", "pooled"},
         machine[Here(r)] = "none" => run[r].phase = "cloning",
         phase = "reading" => machine'[Here(r)] = "loose",
         phase \in {"finishing", "recording"} /\ (Placed(r) \/ Plan(r).start)
           => machine'[Here(r)] = "pooled",
         cause' = cause, assigned' = assigned, spent' = spent, row' = row
  PROVE  Struct'
<1>1. /\ run[r] \in RunType /\ Sound(r) /\ run[r].at \in Step /\ run[r].at \in 1..Len(run[r].req.plans)
      /\ Here(r) = <<r, run[r].at>> /\ Here(r) \in Machine
  BY RunFacts DEF Here
<1>2. TypeOK /\ run \in [Run -> RunType]
  BY Types DEF Struct
<1>3. /\ run'[r] = [run[r] EXCEPT !.phase = phase]
      /\ \A q \in Run \ {r} : run'[q] = run[q]
  BY <1>2
<1>4. /\ run'[r].phase = phase /\ run'[r].step = run[r].step /\ run'[r].at = run[r].at
      /\ run'[r].req = run[r].req
  BY <1>1, <1>3 DEF RunType
<1>5. ASSUME NEW q \in Run \ {r} PROVE Sound(q)'
  <2>1. \A k \in Step : <<q, k>> \in Machine \ {Here(r)}
    BY <1>1 DEF Machine
  <2> QED BY <1>3, <2>1, OtherSound
<1>6. Many(r)' = Many(r) /\ Placed(r)' = Placed(r) /\ Plan(r)' = Plan(r) /\ Here(r)' = Here(r)
  BY <1>4 DEF Many, Placed, Plan, Here
<1>7. RunOK(r)' /\ TodoOK(r)' /\ RowOK(r)'
  BY <1>1, <1>4, <1>6 DEF Sound, RunOK, TodoOK, RowOK, Making
<1>8. run[r].req.project /\ Plan(r).big /\ ~run[r].req.admin => \E a \in Approval : spent[a] = Here(r)
  <2>1. run[r].phase # "gating"
    BY DEF Making
  <2> QED BY <1>1, <2>1 DEF Sound, PaidOK
<1>9. PaidOK(r)'
  BY <1>4, <1>6, <1>8 DEF PaidOK
<1>10. ASSUME NEW k \in Step
       PROVE  (StepOK(r, k) /\ MachineOK(r, k) /\ Bought(r, k))'
  <2>1. StepOK(r, k) /\ MachineOK(r, k) /\ Bought(r, k) /\ <<r, k>> \in Machine
    BY <1>1 DEF Sound, Machine
  <2>2. StepOK(r, k)'
    BY <1>4, <2>1 DEF StepOK, Making
  <2>3. MachineOK(r, k)'
    <3>1. CASE k = run[r].at
      <4>1. run[r].step[k] = "pending"
        BY <2>1, <3>1 DEF StepOK, Making
      <4> QED BY <1>1, <1>4, <1>6, <2>1, <3>1, <4>1 DEF MachineOK, Before, Making
    <3>2. CASE k # run[r].at
      <4>1. machine'[<<r, k>>] = machine[<<r, k>>]
        BY <1>1, <2>1, <3>2
      <4> QED BY <1>4, <2>1, <3>2, <4>1 DEF MachineOK, Before, Making
    <3> QED BY <3>1, <3>2
  <2>4. Bought(r, k)'
    <3>1. CASE k = run[r].at
      BY <1>1, <1>4, <1>8, <3>1 DEF Bought, Plan
    <3>2. CASE k # run[r].at
      <4>1. machine'[<<r, k>>] = machine[<<r, k>>]
        BY <1>1, <2>1, <3>2
      <4> QED BY <1>4, <2>1, <4>1 DEF Bought
    <3> QED BY <3>1, <3>2
  <2> QED BY <2>2, <2>3, <2>4
<1>11. Sound(r)'
  BY <1>7, <1>9, <1>10 DEF Sound
<1> QED BY <1>5, <1>11 DEF Struct

-----------------------------------------------------------------------------
(* What a plan is entered with.                                            *)
LEMMA EnteredFacts ==
  ASSUME NEW q \in Request, NEW k \in 1..Len(q.plans)
  PROVE  LET e == Entered(q, k) gates == GatesOf(q, q.plans[k]) IN
         /\ e.todo = gates /\ gates \in Seq(Gate)
         /\ e.phase = IF gates = <<>> THEN "cloning" ELSE "gating"
         /\ e.phase = "gating" =>
              /\ gates # <<>>
              /\ \A i \in 1..Len(gates) : gates[i] = "engine" => i = 1 /\ q.kind \in {"compose", "catalog"}
              /\ q.kind = "catalog" => gates[Len(gates)] = "pool"
              /\ q.kind = "compose" => \A i \in 1..Len(gates) : gates[i] # "pool"
         /\ e.phase = "cloning" => ~q.project /\ Counted(q, q.plans[k]) = {}
         /\ q.project => \E i \in 1..Len(gates) : gates[i] = "project"
         /\ \A s \in Counted(q, q.plans[k]) : \E i \in 1..Len(gates) : ScopeOf(gates[i]) = s
<1>1. q.plans[k] \in PlanType
  BY RequestFacts
<1> DEFINE gates == GatesOf(q, q.plans[k])
<1>2. /\ Entered(q, k).todo = gates
      /\ Entered(q, k).phase = IF gates = <<>> THEN "cloning" ELSE "gating"
  BY DEF Entered
<1>3. \A s \in Counted(q, q.plans[k]) : \E i \in 1..Len(gates) : ScopeOf(gates[i]) = s
  BY DEF Counted
<1>4. /\ gates \in Seq(Gate)
      /\ q.kind = "catalog" => gates # <<>> /\ gates[Len(gates)] = "pool"
      /\ q.kind = "compose" => \A i \in 1..Len(gates) : gates[i] # "pool"
      /\ \A i \in 1..Len(gates) : gates[i] = "engine" => i = 1 /\ q.kind \in {"compose", "catalog"}
      /\ q.project => \E i \in 1..Len(gates) : gates[i] = "project"
  BY <1>1, GatesList
<1> HIDE DEF gates
<1>5. gates = <<>> => ~(\E i \in 1..Len(gates) : gates[i] = "project")
  OBVIOUS
<1>6. gates = <<>> => Counted(q, q.plans[k]) = {}
  BY <1>3
<1>7. gates = GatesOf(q, q.plans[k])
  BY DEF gates
<1> QED BY <1>2, <1>3, <1>4, <1>5, <1>6, <1>7

(* A run that enters a plan is sound.                                      *)
LEMMA EnterSound ==
  ASSUME NEW r \in Run, NEW q \in Request, NEW at \in 1..Len(q.plans),
         run'[r].req = q, run'[r].at = at,
         run'[r].phase = Entered(q, at).phase, run'[r].todo = Entered(q, at).todo,
         row'[r] = "none",
         \A k \in Step :
           /\ run'[r].step[k] = IF k < at THEN "success" ELSE "pending"
           /\ cause'[<<r, k>>] = "none"
           /\ k >= at => machine'[<<r, k>>] = "none" /\ <<r, k>> \notin assigned'
           /\ k < at => machine'[<<r, k>>] # "none" /\ (q.project => <<r, k>> \in assigned')
           /\ k < at => Bought(r, k)'
  PROVE  Sound(r)'
<1>1. at \in Nat /\ at <= Len(q.plans) /\ Len(q.plans) \in Nat
  BY RequestFacts, StepFacts
<1> DEFINE gates == GatesOf(q, q.plans[at])
<1>2. /\ run'[r].todo = gates /\ gates \in Seq(Gate)
      /\ run'[r].phase = IF gates = <<>> THEN "cloning" ELSE "gating"
      /\ run'[r].phase = "gating" =>
           /\ gates # <<>>
           /\ \A i \in 1..Len(gates) : gates[i] = "engine" => i = 1 /\ q.kind \in {"compose", "catalog"}
           /\ q.kind = "catalog" => gates[Len(gates)] = "pool"
           /\ q.kind = "compose" => \A i \in 1..Len(gates) : gates[i] # "pool"
      /\ run'[r].phase = "cloning" => ~q.project
      /\ q.project => \E i \in 1..Len(gates) : gates[i] = "project"
  BY EnteredFacts
<1> HIDE DEF gates
<1>3. RunOK(r)' /\ RowOK(r)'
  BY <1>1, <1>2 DEF RunOK, RowOK
<1>4. TodoOK(r)'
  BY <1>2 DEF TodoOK, Many
<1>5. PaidOK(r)'
  BY <1>2 DEF PaidOK, Making
<1>6. ASSUME NEW k \in Step
      PROVE  (StepOK(r, k) /\ MachineOK(r, k) /\ Bought(r, k))'
  <2>1. k \in Nat /\ (k < at \/ k >= at)
    BY <1>1, StepFacts
  <2>5. run'[r].phase \in {"gating", "cloning"} /\ run'[r].at = at
    BY <1>2
  <2>6. run'[r].step[k] = IF k < at THEN "success" ELSE "pending"
    OBVIOUS
  <2>2. StepOK(r, k)'
    <3>1. k = at \/ k > at => ~(k < at)
      BY <1>1, <2>1
    <3> QED BY <2>5, <2>6, <3>1 DEF StepOK
  <2>3. MachineOK(r, k)'
    BY <1>1, <1>2, <2>1 DEF MachineOK, Making, Before
  <2>4. Bought(r, k)'
    BY <2>1 DEF Bought
  <2> QED BY <2>2, <2>3, <2>4
<1> QED BY <1>3, <1>4, <1>5, <1>6 DEF Sound

(* A run that has not begun a plan, and has made nothing.                  *)
LEMMA Untouched ==
  ASSUME Struct, NEW r \in Run, run[r].phase \in {"idle", "planning"}
  PROVE  /\ run[r].at = 1 /\ row[r] = "none" /\ ~run[r].loaded
         /\ \A k \in Step :
              /\ run[r].step[k] = "pending" /\ cause[<<r, k>>] = "none"
              /\ machine[<<r, k>>] = "none" /\ <<r, k>> \notin assigned
<1>1. Sound(r)
  BY DEF Struct
<1>2. run[r].at = 1 /\ row[r] = "none" /\ ~run[r].loaded
  BY <1>1 DEF Sound, RunOK, RowOK
<1>3. ASSUME NEW k \in Step
      PROVE  /\ run[r].step[k] = "pending" /\ cause[<<r, k>>] = "none"
             /\ machine[<<r, k>>] = "none" /\ <<r, k>> \notin assigned
  <2>1. StepOK(r, k) /\ MachineOK(r, k) /\ (k = 1 \/ k > 1)
    BY <1>1, StepFacts DEF Sound
  <2>2. run[r].step[k] = "pending"
    BY <1>2, <2>1 DEF StepOK
  <2> QED BY <1>2, <2>1, <2>2 DEF MachineOK, Before
<1> QED BY <1>2, <1>3

(* A request that is received leaves the runs sound.                       *)
LEMMA BeginSound ==
  ASSUME Struct, NEW r \in Run, NEW q \in Request, Begin(r, q)
  PROVE  Struct'
<1> DEFINE many == q.kind \in {"compose", "catalog"}
           ph   == IF many THEN "planning" ELSE Entered(q, 1).phase
           todo == IF many THEN <<>> ELSE Entered(q, 1).todo
<1>1. /\ run[r].phase = "idle"
      /\ run' = [run EXCEPT ![r].req = q, ![r].phase = ph, ![r].todo = todo]
      /\ machine' = machine /\ assigned' = assigned /\ row' = row /\ spent' = spent
      /\ blind' = blind /\ raced' = raced /\ cause' = cause
  BY DEF Begin
<1>2. TypeOK /\ run \in [Run -> RunType] /\ run[r] \in RunType
  BY Types DEF Struct
<1>3. 1 \in 1..Len(q.plans) /\ Len(q.plans) >= 1
  BY RequestFacts, StepFacts
<1>4. ph \in Phase /\ todo \in Seq(Gate)
  <2>1. Entered(q, 1).phase \in Phase /\ Entered(q, 1).todo \in Seq(Gate)
    <3>1. Entered(q, 1).phase \in {"cloning", "gating"} /\ Entered(q, 1).todo \in Seq(Gate)
      BY <1>3, EnteredFacts
    <3> QED BY <3>1 DEF Phase
  <2>2. "planning" \in Phase /\ <<>> \in Seq(Gate)
    BY DEF Phase
  <2> QED BY <2>1, <2>2
<1>5. ph = IF many THEN "planning" ELSE Entered(q, 1).phase
  OBVIOUS
<1>6. todo = IF many THEN <<>> ELSE Entered(q, 1).todo
  OBVIOUS
<1> HIDE DEF ph, todo
<1>7. /\ run'[r] = [run[r] EXCEPT !.req = q, !.phase = ph, !.todo = todo]
      /\ \A p \in Run \ {r} : run'[p] = run[p]
  BY <1>1, <1>2
<1>8. /\ run'[r] \in RunType /\ run'[r].req = q /\ run'[r].phase = ph /\ run'[r].todo = todo
      /\ run'[r].at = run[r].at /\ run'[r].step = run[r].step /\ run'[r].loaded = run[r].loaded
  BY <1>2, <1>4, <1>7 DEF RunType
<1>9. TypeOK'
  <2>1. run' \in [Run -> RunType]
    BY <1>1, <1>2, <1>7, <1>8
  <2> QED BY <1>1, <1>2, <2>1 DEF TypeOK, RunType
<1>10. ASSUME NEW p \in Run \ {r} PROVE Sound(p)'
  BY <1>1, <1>7, OtherSound
<1>11. /\ run[r].at = 1 /\ row[r] = "none" /\ ~run[r].loaded
       /\ \A k \in Step :
            /\ run[r].step[k] = "pending" /\ cause[<<r, k>>] = "none"
            /\ machine[<<r, k>>] = "none" /\ <<r, k>> \notin assigned
  BY <1>1, Untouched
<1>12. Sound(r)'
  <2>1. CASE many
    <3>1. run'[r].phase = "planning" /\ Many(r)'
      BY <1>5, <1>8, <2>1 DEF Many
    <3>2. RunOK(r)' /\ RowOK(r)' /\ TodoOK(r)' /\ PaidOK(r)'
      BY <1>1, <1>3, <1>8, <1>11, <3>1 DEF RunOK, RowOK, TodoOK, PaidOK, Making
    <3>3. ASSUME NEW k \in Step
          PROVE  (StepOK(r, k) /\ MachineOK(r, k) /\ Bought(r, k))'
      BY <1>1, <1>8, <1>11, <3>1, StepFacts DEF StepOK, MachineOK, Bought, Before, Making
    <3> QED BY <3>2, <3>3 DEF Sound
  <2>2. CASE ~many
    <3>1. run'[r].phase = Entered(q, 1).phase /\ run'[r].todo = Entered(q, 1).todo /\ run'[r].at = 1
      BY <1>5, <1>6, <1>8, <1>11, <2>2
    <3>2. ASSUME NEW k \in Step
          PROVE  /\ run'[r].step[k] = IF k < 1 THEN "success" ELSE "pending"
                 /\ cause'[<<r, k>>] = "none" /\ machine'[<<r, k>>] = "none"
                 /\ <<r, k>> \notin assigned' /\ ~(k < 1)
      BY <1>1, <1>8, <1>11, StepFacts
    <3>3. run'[r].req = q /\ row'[r] = "none"
      BY <1>1, <1>8, <1>11
    <3> HIDE DEF many
    <3> QED BY <1>3, <3>1, <3>2, <3>3, EnterSound
  <2> QED BY <2>1, <2>2
<1> QED BY <1>9, <1>10, <1>12 DEF Struct

(* A resolved or refused compose spec leaves the runs sound.               *)
LEMMA PlanSound ==
  ASSUME Struct, NEW r \in Run, NEW ok \in BOOLEAN, PlanCompose(r, ok)
  PROVE  Struct'
<1> DEFINE q    == run[r].req
           ph   == IF ok THEN Entered(q, 1).phase ELSE "refused"
           todo == IF ok THEN Entered(q, 1).todo ELSE <<>>
<1>1. /\ run[r].phase = "planning"
      /\ run' = [run EXCEPT ![r].phase = ph, ![r].todo = todo]
      /\ machine' = machine /\ assigned' = assigned /\ row' = row /\ spent' = spent
      /\ blind' = blind /\ raced' = raced /\ cause' = cause
  BY DEF PlanCompose
<1>2. TypeOK /\ run \in [Run -> RunType] /\ run[r] \in RunType /\ q \in Request
  BY Types, RunFacts DEF Struct
<1>3. 1 \in 1..Len(q.plans) /\ Len(q.plans) >= 1
  BY <1>2, RequestFacts, StepFacts
<1>4. ph \in Phase /\ todo \in Seq(Gate)
  <2>1. Entered(q, 1).phase \in Phase /\ Entered(q, 1).todo \in Seq(Gate)
    <3>1. Entered(q, 1).phase \in {"cloning", "gating"} /\ Entered(q, 1).todo \in Seq(Gate)
      BY <1>2, <1>3, EnteredFacts
    <3> QED BY <3>1 DEF Phase
  <2>2. "refused" \in Phase /\ <<>> \in Seq(Gate)
    BY DEF Phase
  <2> QED BY <2>1, <2>2
<1>5. ph = IF ok THEN Entered(q, 1).phase ELSE "refused"
  OBVIOUS
<1>6. todo = IF ok THEN Entered(q, 1).todo ELSE <<>>
  OBVIOUS
<1> HIDE DEF ph, todo
<1>7. /\ run'[r] = [run[r] EXCEPT !.phase = ph, !.todo = todo]
      /\ \A p \in Run \ {r} : run'[p] = run[p]
  BY <1>1, <1>2
<1>8. /\ run'[r] \in RunType /\ run'[r].req = q /\ run'[r].phase = ph /\ run'[r].todo = todo
      /\ run'[r].at = run[r].at /\ run'[r].step = run[r].step /\ run'[r].loaded = run[r].loaded
  BY <1>2, <1>4, <1>7 DEF RunType
<1>9. TypeOK'
  <2>1. run' \in [Run -> RunType]
    BY <1>1, <1>2, <1>7, <1>8
  <2> QED BY <1>1, <1>2, <2>1 DEF TypeOK, RunType
<1>10. ASSUME NEW p \in Run \ {r} PROVE Sound(p)'
  BY <1>1, <1>7, OtherSound
<1>11. /\ run[r].at = 1 /\ row[r] = "none" /\ ~run[r].loaded
       /\ \A k \in Step :
            /\ run[r].step[k] = "pending" /\ cause[<<r, k>>] = "none"
            /\ machine[<<r, k>>] = "none" /\ <<r, k>> \notin assigned
  BY <1>1, Untouched
<1>12. Sound(r)'
  <2>1. CASE ~ok
    <3>1. run'[r].phase = "refused"
      BY <1>5, <1>8, <2>1
    <3>2. RunOK(r)' /\ RowOK(r)' /\ TodoOK(r)' /\ PaidOK(r)'
      BY <1>1, <1>3, <1>8, <1>11, <3>1 DEF RunOK, RowOK, TodoOK, PaidOK, Making
    <3>3. ASSUME NEW k \in Step
          PROVE  (StepOK(r, k) /\ MachineOK(r, k) /\ Bought(r, k))'
      BY <1>1, <1>8, <1>11, <3>1, StepFacts DEF StepOK, MachineOK, Bought, Before, Making
    <3> QED BY <3>2, <3>3 DEF Sound
  <2>2. CASE ok
    <3>1. run'[r].phase = Entered(q, 1).phase /\ run'[r].todo = Entered(q, 1).todo /\ run'[r].at = 1
      BY <1>5, <1>6, <1>8, <1>11, <2>2
    <3>2. \A k \in Step : ~(k < 1)
      BY StepFacts
    <3> HIDE DEF q
    <3> QED BY <1>1, <1>2, <1>3, <1>8, <1>11, <3>1, <3>2, EnterSound
  <2> QED BY <2>1, <2>2
<1> QED BY <1>9, <1>10, <1>12 DEF Struct

-----------------------------------------------------------------------------
LEMMA MembersFinite ==
  /\ \A s : Members(s) \subseteq Machine /\ IsFiniteSet(Members(s)) /\ Count(s) \in Nat
  /\ \A s : Members(s)' \subseteq Machine /\ IsFiniteSet(Members(s)') /\ Count(s)' \in Nat
<1>1. IsFiniteSet(Step)
  BY StepFacts, FS_Interval DEF Step
<1>2. IsFiniteSet(Machine)
  BY <1>1, RunAssumption, FS_Product DEF Machine
<1>3. \A s : Members(s) \subseteq Machine /\ Members(s)' \subseteq Machine
  BY DEF Members, Alive
<1>4. \A s : IsFiniteSet(Members(s)) /\ IsFiniteSet(Members(s)')
  BY <1>2, <1>3, FS_Subset
<1> QED BY <1>3, <1>4, FS_CardinalityType DEF Count

(* The gates behind the first.                                             *)
LEMMA RestFacts ==
  ASSUME NEW todo \in Seq(Gate), todo # <<>>
  PROVE  /\ Head(todo) = todo[1] /\ Head(todo) \in Gate /\ Tail(todo) \in Seq(Gate)
         /\ Len(todo) \in Nat /\ Len(todo) >= 1 /\ Len(Tail(todo)) = Len(todo) - 1
         /\ \A i \in 1..Len(Tail(todo)) : i + 1 \in 1..Len(todo) /\ Tail(todo)[i] = todo[i + 1]
         /\ \A i \in 1..Len(todo) : i # 1 => i - 1 \in 1..Len(Tail(todo)) /\ todo[i] = Tail(todo)[i - 1]
         /\ Tail(todo) = <<>> <=> Len(todo) = 1
<1>1. Len(todo) \in Nat /\ Len(todo) >= 1
  OBVIOUS
<1>2. Tail(todo) \in Seq(Gate) /\ Len(Tail(todo)) = Len(todo) - 1
  OBVIOUS
<1>3. Head(todo) = todo[1] /\ Head(todo) \in Gate
  OBVIOUS
<1>4. \A i \in 1..Len(Tail(todo)) : i + 1 \in 1..Len(todo) /\ Tail(todo)[i] = todo[i + 1]
  BY <1>1, <1>2
<1>5. ASSUME NEW i \in 1..Len(todo), i # 1
      PROVE  i - 1 \in 1..Len(Tail(todo)) /\ todo[i] = Tail(todo)[i - 1]
  <2>1. i - 1 \in 1..Len(Tail(todo)) /\ (i - 1) + 1 = i
    BY <1>1, <1>2, <1>5
  <2> QED BY <1>4, <2>1
<1>6. Tail(todo) = <<>> <=> Len(todo) = 1
  <2>1. ASSUME NEW t \in Seq(Gate)
        PROVE  t = <<>> <=> Len(t) = 0
    BY EmptySeq
  <2>2. Len(Tail(todo)) = 0 <=> Len(todo) = 1
    BY <1>1, <1>2
  <2> QED BY <1>2, <2>1, <2>2
<1> QED BY <1>1, <1>2, <1>3, <1>4, <1>5, <1>6

(* What passing a gate changes.                                            *)
LEMMA PassFacts ==
  ASSUME Struct, NEW r \in Run, PassGate(r),
         NEW gate, gate = Head(run[r].todo), NEW rest, rest = Tail(run[r].todo)
  PROVE  /\ run[r].phase = "gating" /\ run[r].todo \in Seq(Gate) /\ run[r].todo # <<>>
         /\ gate = run[r].todo[1] /\ gate \in Gate /\ rest \in Seq(Gate)
         /\ Usage(r, gate) \in Nat /\ Approved(r, gate)
         /\ Compares(run[r].req, Plan(r), gate) => Fits(ScopeOf(gate), Usage(r, gate))
         /\ \A q \in Run \ {r} : run'[q] = run[q]
         /\ run'[r] \in RunType
         /\ run'[r].req = run[r].req /\ run'[r].at = run[r].at /\ run'[r].step = run[r].step
         /\ run'[r].todo = rest /\ run'[r].phase = IF rest = <<>> THEN "cloning" ELSE "gating"
         /\ run'[r].loaded = (run[r].loaded \/ gate = "engine")
         /\ run'[r].seen = IF gate = "engine" /\ Compares(run[r].req, Plan(r), gate)
                           THEN Usage(r, gate) + 1 ELSE run[r].seen
         /\ run' \in [Run -> RunType]
<1>1. /\ run[r] \in RunType /\ Sound(r) /\ TypeOK /\ run \in [Run -> RunType]
  BY RunFacts, Types DEF Struct
<1>2. run[r].phase = "gating"
  BY DEF PassGate
<1>3. run[r].todo \in Seq(Gate) /\ run[r].todo # <<>>
  BY <1>1, <1>2 DEF RunType, Sound, RunOK
<1>4. gate = run[r].todo[1] /\ gate \in Gate /\ rest \in Seq(Gate)
  BY <1>3, RestFacts
<1>5. Usage(r, gate) \in Nat
  BY <1>1, MembersFinite DEF Usage, RunType
<1> DEFINE usage == Usage(r, gate)
           sees == Compares(run[r].req, Plan(r), gate)
           ph == IF rest = <<>> THEN "cloning" ELSE "gating"
           ld == run[r].loaded \/ gate = "engine"
           sn == IF gate = "engine" /\ sees THEN usage + 1 ELSE run[r].seen
<1>6. /\ (sees => Fits(ScopeOf(gate), usage)) /\ Approved(r, gate)
      /\ run' = [run EXCEPT ![r].todo = rest, ![r].phase = ph,
                   ![r].loaded = @ \/ gate = "engine",
                   ![r].seen = IF gate = "engine" /\ sees THEN usage + 1 ELSE @]
  BY DEF PassGate, Admits
<1>7. ph \in Phase /\ ld \in BOOLEAN /\ sn \in Nat
  BY <1>1, <1>5 DEF Phase, RunType
<1>8. run'[r] = [run[r] EXCEPT !.todo = rest, !.phase = ph, !.loaded = ld, !.seen = sn]
  BY <1>1, <1>6
<1>9. \A q \in Run \ {r} : run'[q] = run[q]
  BY <1>1, <1>6
<1>13. ph = IF rest = <<>> THEN "cloning" ELSE "gating"
  OBVIOUS
<1>14. /\ ld = (run[r].loaded \/ gate = "engine")
       /\ sn = IF gate = "engine" /\ sees THEN usage + 1 ELSE run[r].seen
  OBVIOUS
<1> HIDE DEF ph, ld, sn, usage, sees
<1>10. /\ run'[r] \in RunType /\ run'[r].todo = rest /\ run'[r].phase = ph
       /\ run'[r].loaded = ld /\ run'[r].seen = sn
       /\ run'[r].req = run[r].req /\ run'[r].at = run[r].at /\ run'[r].step = run[r].step
  BY <1>1, <1>4, <1>7, <1>8 DEF RunType
<1>11. DOMAIN run' = Run
  BY <1>1, <1>6
<1>12. run' \in [Run -> RunType]
  <2>1. run' = [q \in Run |-> run'[q]]
    BY <1>1, <1>6
  <2>2. \A q \in Run : run'[q] \in RunType
    BY <1>1, <1>9, <1>10
  <2> QED BY <2>1, <2>2
<1> QED BY <1>2, <1>3, <1>4, <1>5, <1>6, <1>9, <1>10, <1>12, <1>13, <1>14 DEF usage, sees

(* A gate that is passed leaves the runs sound; a big machine's approval   *)
(* was unused, so no other machine loses its own.                          *)
LEMMA PassSound ==
  ASSUME Struct, NEW r \in Run, PassGate(r)
  PROVE  Struct'
<1> DEFINE gate == Head(run[r].todo) rest == Tail(run[r].todo) ap == run[r].req.approval
<1>1. /\ run[r].phase = "gating" /\ run[r].todo \in Seq(Gate) /\ run[r].todo # <<>>
      /\ gate = run[r].todo[1] /\ gate \in Gate /\ rest \in Seq(Gate)
      /\ Approved(r, gate)
      /\ \A q \in Run \ {r} : run'[q] = run[q]
      /\ run'[r].req = run[r].req /\ run'[r].at = run[r].at /\ run'[r].step = run[r].step
      /\ run'[r].todo = rest /\ run'[r].phase = IF rest = <<>> THEN "cloning" ELSE "gating"
      /\ run' \in [Run -> RunType]
  BY PassFacts
<1>2. /\ machine' = machine /\ assigned' = assigned /\ row' = row /\ raced' = raced /\ cause' = cause
      /\ spent' = IF NeedsApproval(r, gate) THEN [spent EXCEPT ![ap] = Here(r)] ELSE spent
      /\ \/ blind' = blind
         \/ blind' = [blind EXCEPT ![r] = @ \ {ScopeOf(gate)}]
  BY DEF PassGate
<1>3. /\ TypeOK /\ Sound(r) /\ Here(r) \in Machine /\ run[r].at \in Step
      /\ run[r].req \in Request /\ Here(r) = <<r, run[r].at>>
      /\ spent \in [Approval -> Machine \union {None}] /\ blind \in [Run -> SUBSET Scope]
  BY RunFacts, Types DEF Struct, Here
<1>4. NeedsApproval(r, gate) => ap \in Approval /\ spent[ap] = None
  BY <1>1, <1>3, RequestFacts DEF Approved
<1>5. /\ \A a \in Approval : spent[a] # None => spent'[a] = spent[a]
      /\ NeedsApproval(r, gate) => spent'[ap] = Here(r)
      /\ spent' \in [Approval -> Machine \union {None}]
  BY <1>2, <1>3, <1>4
<1>6. /\ Len(run[r].todo) \in Nat /\ Len(run[r].todo) >= 1 /\ Len(rest) = Len(run[r].todo) - 1
      /\ \A i \in 1..Len(rest) : i + 1 \in 1..Len(run[r].todo) /\ rest[i] = run[r].todo[i + 1]
      /\ \A i \in 1..Len(run[r].todo) : i # 1 => i - 1 \in 1..Len(rest) /\ run[r].todo[i] = rest[i - 1]
      /\ rest = <<>> <=> Len(run[r].todo) = 1
  BY <1>1, RestFacts
<1> HIDE DEF gate, rest, ap
<1>7. TypeOK'
  <2>1. blind' \in [Run -> SUBSET Scope]
    BY <1>2, <1>3
  <2> QED BY <1>1, <1>2, <1>3, <1>5, <2>1 DEF TypeOK, RunType
<1>8. ASSUME NEW q \in Run \ {r} PROVE Sound(q)'
  BY <1>1, <1>2, <1>5, OtherSound
<1>9. /\ Many(r)' = Many(r) /\ Plan(r)' = Plan(r) /\ Here(r)' = Here(r) /\ Placed(r)' = Placed(r)
      /\ run'[r].phase \in {"gating", "cloning"}
  BY <1>1 DEF Many, Plan, Here, Placed
<1>10. RunOK(r)' /\ RowOK(r)'
  BY <1>1, <1>2, <1>3, <1>9 DEF Sound, RunOK, RowOK
<1>11. TodoOK(r)'
  <2> SUFFICES ASSUME run'[r].phase = "gating"
               PROVE  /\ \A i \in 1..Len(rest) : rest[i] = "engine" => i = 1 /\ Many(r)
                      /\ run[r].req.kind = "catalog" => rest[Len(rest)] = "pool"
                      /\ run[r].req.kind = "compose" => \A i \in 1..Len(rest) : rest[i] # "pool"
    BY <1>1, <1>9 DEF TodoOK
  <2>1. TodoOK(r) /\ rest # <<>> /\ Len(rest) \in 1..Len(rest)
    BY <1>1, <1>3, <1>6 DEF Sound
  <2>2. \A i \in 1..Len(rest) : rest[i] # "engine"
    BY <1>1, <1>6, <2>1 DEF TodoOK
  <2>3. rest[Len(rest)] = run[r].todo[Len(run[r].todo)]
    BY <1>6, <2>1
  <2>4. run[r].req.kind = "catalog" => run[r].todo[Len(run[r].todo)] = "pool"
    BY <1>1, <2>1 DEF TodoOK
  <2>5. run[r].req.kind = "compose" => \A i \in 1..Len(rest) : rest[i] # "pool"
    BY <1>1, <1>6, <2>1 DEF TodoOK
  <2> QED BY <2>2, <2>3, <2>4, <2>5
<1>12. PaidOK(r)'
  <2> SUFFICES ASSUME run'[r].phase = "gating" => \A i \in 1..Len(rest) : rest[i] # "project",
                      run[r].req.project, Plan(r).big, ~run[r].req.admin
               PROVE  \E a \in Approval : spent'[a] = Here(r)
    BY <1>1, <1>9 DEF PaidOK
  <2>1. \A i \in 1..Len(rest) : rest[i] # "project"
    <3>1. CASE rest = <<>>
      BY <1>6, <3>1
    <3>2. CASE rest # <<>>
      BY <1>1, <3>2
    <3> QED BY <3>1, <3>2
  <2>2. CASE gate = "project"
    BY <1>4, <1>5, <2>2 DEF NeedsApproval
  <2>3. CASE gate # "project"
    <3>1. ASSUME NEW i \in 1..Len(run[r].todo) PROVE run[r].todo[i] # "project"
      <4>1. CASE i = 1
        BY <1>1, <2>3, <4>1
      <4>2. CASE i # 1
        BY <1>6, <2>1, <4>2
      <4> QED BY <4>1, <4>2
    <3>2. \E a \in Approval : spent[a] = Here(r)
      BY <1>1, <1>3, <3>1 DEF Sound, PaidOK
    <3> QED BY <1>3, <1>5, <3>2, ApprovalAssumption
  <2> QED BY <2>2, <2>3
<1>13. ASSUME NEW k \in Step
       PROVE  (StepOK(r, k) /\ MachineOK(r, k) /\ Bought(r, k))'
  <2>1. StepOK(r, k) /\ MachineOK(r, k) /\ Bought(r, k) /\ <<r, k>> \in Machine
    BY <1>3 DEF Sound, Machine
  <2>2. StepOK(r, k)'
    BY <1>1, <1>9, <2>1 DEF StepOK
  <2>3. MachineOK(r, k)'
    BY <1>1, <1>2, <1>9, <2>1 DEF MachineOK, Before, Making
  <2>5. \A a \in Approval : spent[a] = <<r, k>> => spent'[a] = <<r, k>>
    BY <1>5, <2>1, ApprovalAssumption
  <2>4. Bought(r, k)'
    BY <1>1, <1>2, <2>1, <2>5 DEF Bought
  <2> QED BY <2>2, <2>3, <2>4
<1>14. Sound(r)'
  BY <1>10, <1>11, <1>12, <1>13 DEF Sound
<1> QED BY <1>7, <1>8, <1>14 DEF Struct

(* A plan that is done leaves the runs sound, when its machine has been    *)
(* assigned to the project of the request.                                 *)
LEMMA DoneSound ==
  ASSUME Struct, NEW r \in Run, run[r].phase \in Making, StepDone(r),
         machine' = machine, cause' = cause, spent' = spent,
         assigned' = IF run[r].req.project THEN assigned \union {Here(r)} ELSE assigned,
         blind' \in [Run -> SUBSET Scope], raced' \subseteq Scope
  PROVE  Struct'
<1> DEFINE q == run[r].req at == run[r].at n == Len(q.plans)
           step == [run[r].step EXCEPT ![at] = "success"]
<1>1. /\ run[r] \in RunType /\ Sound(r) /\ q \in Request /\ at \in Step /\ at \in 1..n /\ n \in Nat
      /\ Here(r) = <<r, at>> /\ Here(r) \in Machine
      /\ n \in Step /\ at \in Nat /\ run[r].step \in [Step -> Status]
  BY RunFacts, RequestFacts, StepFacts DEF Here, RunType
<1>2. /\ TypeOK /\ run \in [Run -> RunType]
      /\ row \in [Run -> {"none", "pending", "success", "warning", "failure"}]
  BY Types DEF Struct
<1>3. /\ step \in [Step -> Status]
      /\ \A k \in Step : step[k] = IF k = at THEN "success" ELSE run[r].step[k]
  BY <1>1 DEF Status
<1>4. ASSUME NEW k \in Step
      PROVE  /\ StepOK(r, k) /\ MachineOK(r, k) /\ Bought(r, k) /\ <<r, k>> \in Machine
             /\ cause[<<r, k>>] = "none" /\ k \in Nat
             /\ k < at => run[r].step[k] = "success"
             /\ k > at => run[r].step[k] = "pending" /\ machine[<<r, k>>] = "none" /\ <<r, k>> \notin assigned
             /\ k = at => machine[<<r, k>>] \in {"loose", "pooled"}
             /\ k < at => machine[<<r, k>>] # "none" /\ (q.project => <<r, k>> \in assigned)
  <2>1. StepOK(r, k) /\ MachineOK(r, k) /\ Bought(r, k) /\ <<r, k>> \in Machine /\ k \in Nat
    BY <1>1, StepFacts DEF Sound, Machine
  <2>2. run[r].phase \notin {"ended", "refused", "crashed"}
    BY DEF Making
  <2>3. /\ k < at => run[r].step[k] = "success"
        /\ k > at => run[r].step[k] = "pending"
    BY <2>1, <2>2 DEF StepOK
  <2> QED BY <2>1, <2>2, <2>3 DEF MachineOK
<1>9. at \in Nat /\ n \in Nat /\ 1 <= at /\ at <= n /\ n <= MaxPlans /\ MaxPlans \in Nat
  <2>1. 1 <= at /\ at <= n
    BY <1>1
  <2>2. n <= MaxPlans
    BY <1>1, StepFacts DEF Step
  <2> QED BY <1>1, <2>1, <2>2, StepFacts
<1>10. \A k \in Step : k \in Nat
  BY StepFacts
<1>5. assigned' \subseteq Machine /\ assigned \subseteq assigned'
      /\ assigned' \subseteq assigned \union {Here(r)}
      /\ (q.project => Here(r) \in assigned')
  BY <1>1, <1>2 DEF TypeOK
<1>6. row[r] = "none"
  BY <1>1 DEF Sound, RowOK, Making
<1>7. CASE at = n
  <2>1. /\ run' = [run EXCEPT ![r].phase = "ended", ![r].step = step]
        /\ \E status \in Completed(q.kind) : row' = [row EXCEPT ![r] = status]
    BY <1>7 DEF StepDone
  <2>10. PICK status \in Completed(q.kind) : row' = [row EXCEPT ![r] = status]
    BY <2>1
  <2>11. /\ status \in {"none", "pending", "success", "warning", "failure"}
         /\ IF Many(r) THEN status = "success" ELSE status = "none" \/ q.kind = "template"
    <3>1. q.kind \in Kind
      BY <1>1, RequestFacts
    <3> QED BY <3>1 DEF Completed, Many, Kind
  <2> HIDE DEF step
  <2>2. /\ run'[r] = [run[r] EXCEPT !.phase = "ended", !.step = step]
        /\ \A p \in Run \ {r} : run'[p] = run[p] /\ row'[p] = row[p]
        /\ row'[r] = status
        /\ row' \in [Run -> {"none", "pending", "success", "warning", "failure"}]
    BY <1>2, <2>1, <2>10, <2>11
  <2>3. /\ run'[r].phase = "ended" /\ run'[r].step = step /\ run'[r].at = at /\ run'[r].req = q
        /\ run'[r] \in RunType
    BY <1>1, <1>3, <2>2 DEF RunType, Phase
  <2>4. TypeOK'
    <3>1. run' \in [Run -> RunType]
      BY <1>2, <2>1, <2>2, <2>3
    <3> QED BY <1>2, <1>5, <2>2, <3>1 DEF TypeOK, RunType
  <2>5. ASSUME NEW p \in Run \ {r} PROVE Sound(p)'
    <3>1. \A k \in Step : <<p, k>> # Here(r)
      BY <1>1
    <3> QED BY <1>5, <2>2, <3>1, OtherSound
  <2>6. RunOK(r)' /\ RowOK(r)' /\ TodoOK(r)' /\ PaidOK(r)'
    <3>1. Many(r)' = Many(r) /\ step[at] = "success"
      BY <1>1, <1>3, <2>3 DEF Many
    <3> QED BY <1>1, <2>2, <2>3, <2>11, <3>1 DEF RunOK, RowOK, TodoOK, PaidOK, Making
  <2>7. ASSUME NEW k \in Step
        PROVE  (StepOK(r, k) /\ MachineOK(r, k) /\ Bought(r, k))'
    <3>0. k \in Nat /\ at \in Nat
      BY <1>9, <1>10
    <3>1. step[k] = IF k > at THEN "pending" ELSE "success"
      <4>1. CASE k > at
        BY <1>3, <1>4, <3>0, <4>1
      <4>2. CASE k = at
        BY <1>3, <3>0, <4>2
      <4>3. CASE k < at
        BY <1>3, <1>4, <3>0, <4>3
      <4> QED BY <3>0, <4>1, <4>2, <4>3
    <3>2. StepOK(r, k)'
      <4>1. run'[r].step[k] = step[k] /\ run'[r].at = n /\ Len(run'[r].req.plans) = n
        BY <1>7, <2>3
      <4>2. k = n => ~(k > at)
        BY <1>7, <3>0
      <4>3. k > n => ~(k <= n)
        BY <1>7, <3>0
      <4>4. k < n => ~(k > at)
        BY <1>7, <3>0
      <4> HIDE DEF n, at, q
      <4> QED BY <1>7, <2>3, <3>1, <4>1, <4>2, <4>3, <4>4 DEF StepOK
    <3>3. <<r, k>> \in assigned' => ~(k > at)
      BY <1>1, <1>4, <1>5
    <3>4. q.project /\ ~(k > at) => <<r, k>> \in assigned'
      BY <1>1, <1>4, <1>5
    <3>5. ~(k > at) => machine[<<r, k>>] # "none"
      BY <1>1, <1>4
    <3>6. MachineOK(r, k)'
      BY <1>4, <2>3, <3>1, <3>3, <3>4, <3>5 DEF MachineOK, Before, Making
    <3>7. Bought(r, k)'
      BY <1>4, <2>3 DEF Bought
    <3> QED BY <3>2, <3>6, <3>7
  <2>8. Sound(r)'
    BY <2>6, <2>7 DEF Sound
  <2> QED BY <2>4, <2>5, <2>8 DEF Struct
<1>8. CASE at # n
  <2> DEFINE next == at + 1 ph == Entered(q, next).phase todo == Entered(q, next).todo
  <2>1. /\ run' = [run EXCEPT ![r].at = next, ![r].step = step, ![r].phase = ph, ![r].todo = todo]
        /\ row' = row
    BY <1>8 DEF StepDone
  <2>2. next \in 1..n /\ next \in Step
    BY <1>8, <1>9 DEF Step
  <2>3. ph \in Phase /\ todo \in Seq(Gate)
    <3>1. ph \in {"cloning", "gating"} /\ todo \in Seq(Gate)
      BY <1>1, <2>2, EnteredFacts
    <3> QED BY <3>1 DEF Phase
  <2>10. ph = Entered(q, next).phase /\ todo = Entered(q, next).todo
    OBVIOUS
  <2> HIDE DEF step, ph, todo, next
  <2>4. /\ run'[r] = [run[r] EXCEPT !.at = next, !.step = step, !.phase = ph, !.todo = todo]
        /\ \A p \in Run \ {r} : run'[p] = run[p]
    BY <1>2, <2>1
  <2>5. /\ run'[r].phase = ph /\ run'[r].todo = todo /\ run'[r].step = step
        /\ run'[r].at = next /\ run'[r].req = q /\ run'[r] \in RunType
    BY <1>1, <1>3, <2>2, <2>3, <2>4 DEF RunType
  <2>6. TypeOK'
    <3>1. run' \in [Run -> RunType]
      BY <1>2, <2>1, <2>4, <2>5
    <3> QED BY <1>2, <1>5, <2>1, <3>1 DEF TypeOK, RunType
  <2>7. ASSUME NEW p \in Run \ {r} PROVE Sound(p)'
    <3>1. \A k \in Step : <<p, k>> # Here(r)
      BY <1>1
    <3> QED BY <1>5, <2>1, <2>4, <3>1, OtherSound
  <2>8. ASSUME NEW k \in Step
        PROVE  /\ run'[r].step[k] = IF k < next THEN "success" ELSE "pending"
               /\ cause'[<<r, k>>] = "none"
               /\ k >= next => machine'[<<r, k>>] = "none" /\ <<r, k>> \notin assigned'
               /\ k < next => machine'[<<r, k>>] # "none" /\ (q.project => <<r, k>> \in assigned')
               /\ k < next => Bought(r, k)'
    <3>1. at \in Nat /\ (k < next <=> k <= at) /\ (k >= next <=> k > at)
      BY <1>9, <1>10 DEF next
    <3>6. k \in Nat
      BY <1>10
    <3>2. run'[r].step[k] = IF k < next THEN "success" ELSE "pending"
      <4>1. CASE k > at
        <5>1. k # at /\ ~(k < next)
          BY <3>1, <3>6, <4>1
        <5>2. step[k] = run[r].step[k]
          BY <1>3, <5>1
        <5>3. run[r].step[k] = "pending"
          BY <1>4, <4>1
        <5> QED BY <2>5, <5>1, <5>2, <5>3
      <4>2. CASE k = at
        BY <1>3, <2>5, <3>1, <4>2
      <4>3. CASE k < at
        <5>1. k # at /\ k < next
          BY <3>1, <3>6, <4>3
        <5>2. step[k] = run[r].step[k]
          BY <1>3, <5>1
        <5>3. run[r].step[k] = "success"
          BY <1>4, <4>3
        <5> QED BY <2>5, <5>1, <5>2, <5>3
      <4> QED BY <3>1, <3>6, <4>1, <4>2, <4>3
    <3>3. k >= next => machine'[<<r, k>>] = "none" /\ <<r, k>> \notin assigned'
      BY <1>1, <1>4, <1>5, <3>1
    <3>4. k < next => machine'[<<r, k>>] # "none" /\ (q.project => <<r, k>> \in assigned')
      BY <1>1, <1>4, <1>5, <3>1
    <3>5. Bought(r, k)'
      BY <1>4, <2>5 DEF Bought
    <3> QED BY <1>4, <3>2, <3>3, <3>4, <3>5
  <2>9. Sound(r)'
    <3>1. row'[r] = "none" /\ run'[r].req = q /\ run'[r].at = next
          /\ run'[r].phase = Entered(q, next).phase /\ run'[r].todo = Entered(q, next).todo
      BY <1>6, <2>1, <2>5, <2>10
    <3> HIDE DEF q, at, n
    <3>2. q \in Request /\ next \in 1..Len(q.plans)
      BY <1>1, <2>2 DEF n
    <3> QED BY <2>8, <3>1, <3>2, EnterSound
  <2> QED BY <2>6, <2>7, <2>9 DEF Struct
<1> QED BY <1>7, <1>8

-----------------------------------------------------------------------------
LEMMA InitStruct == Init => Struct
<1> SUFFICES ASSUME Init PROVE Struct
  OBVIOUS
<1> DEFINE first == CHOOSE q \in Request : TRUE
<1>1. first \in Request
  BY RequestAssumption
<1>2. run = [r \in Run |-> [phase |-> "idle", req |-> first,
                           at |-> 1, todo |-> <<>>, loaded |-> FALSE, seen |-> 0,
                           step |-> [k \in Step |-> "pending"]]]
  BY DEF Init
<1> HIDE DEF first
<1>3. TypeOK
  <2>1. "idle" \in Phase /\ "pending" \in Status /\ "none" \in Cause /\ <<>> \in Seq(Gate)
    BY DEF Phase, Status, Cause
  <2>2. run \in [Run -> RunType]
    BY <1>1, <1>2, <2>1, StepFacts DEF RunType
  <2> QED BY <2>1, <2>2 DEF Init, TypeOK, RunType
<1>4. ASSUME NEW r \in Run PROVE Sound(r)
  <2>1. /\ run[r].phase = "idle" /\ run[r].at = 1 /\ ~run[r].loaded /\ run[r].req = first
        /\ \A k \in Step : run[r].step[k] = "pending"
    BY <1>2
  <2>2. /\ row[r] = "none"
        /\ \A k \in Step : machine[<<r, k>>] = "none" /\ cause[<<r, k>>] = "none" /\ <<r, k>> \notin assigned
    BY DEF Init, Machine
  <2>3. 1 <= Len(first.plans)
    BY <1>1, RequestFacts, StepFacts
  <2>4. RunOK(r) /\ RowOK(r) /\ TodoOK(r) /\ PaidOK(r)
    BY <2>1, <2>2, <2>3 DEF RunOK, RowOK, TodoOK, PaidOK, Making
  <2>5. ASSUME NEW k \in Step PROVE StepOK(r, k) /\ MachineOK(r, k) /\ Bought(r, k)
    BY <2>1, <2>2, StepFacts DEF StepOK, MachineOK, Bought, Before, Making
  <2> QED BY <2>4, <2>5 DEF Sound
<1> QED BY <1>3, <1>4 DEF Struct

(* A call that fails, or a gate: what is typed after it.                   *)
LEMMA FailTyped ==
  ASSUME Struct, NEW r \in Run, StepFails(r),
         machine' \in [Machine -> {"none", "loose", "pooled", "gone"}],
         cause' \in [Machine -> Cause],
         assigned' = assigned, spent' = spent, blind' = blind, raced' = raced
  PROVE  TypeOK'
<1> DEFINE at == run[r].at n == Len(run[r].req.plans)
           skip == [k \in Step |-> IF k = at THEN "failure"
                                  ELSE IF k > at /\ k <= n THEN "skipped" ELSE run[r].step[k]]
           step == IF Many(r) THEN skip ELSE [run[r].step EXCEPT ![at] = "failure"]
           ph == IF Many(r) THEN "ended" ELSE "refused"
<1>1. run[r] \in RunType /\ run[r].step \in [Step -> Status] /\ run \in [Run -> RunType] /\ TypeOK
  BY RunFacts, Types DEF RunType, Struct
<1>2. ph \in Phase /\ step \in [Step -> Status]
  BY <1>1 DEF Phase, Status
<1>3. run' = [run EXCEPT ![r].phase = ph, ![r].step = step]
  BY DEF StepFails
<1>4. row' \in [Run -> {"none", "pending", "success", "warning", "failure"}]
  <2>1. row \in [Run -> {"none", "pending", "success", "warning", "failure"}]
    BY <1>1 DEF TypeOK
  <2> QED BY <2>1 DEF StepFails
<1> HIDE DEF step, ph
<1>5. run' \in [Run -> RunType]
  BY <1>1, <1>2, <1>3 DEF RunType
<1> QED BY <1>1, <1>4, <1>5 DEF TypeOK, RunType

(* The deletion of a machine nobody works on leaves the runs sound.        *)
LEMMA DeleteSound ==
  ASSUME Struct, NEW m \in Machine, Delete(m)
  PROVE  Struct'
<1>1. /\ m \in Alive /\ \A r \in InFlight : Here(r) # m
      /\ machine' = [machine EXCEPT ![m] = "gone"]
      /\ run' = run /\ assigned' = assigned /\ row' = row /\ spent' = spent /\ blind' = blind
      /\ raced' = raced /\ cause' = cause
  BY DEF Delete
<1>2. TypeOK /\ machine \in [Machine -> {"none", "loose", "pooled", "gone"}]
  BY DEF Struct, TypeOK
<1>3. TypeOK'
  BY <1>1, <1>2 DEF TypeOK
<1>4. machine[m] \in {"loose", "pooled"}
  BY <1>1 DEF Alive
<1>5. ASSUME NEW r \in Run PROVE Sound(r)'
  <2>1. Sound(r) /\ run[r].at \in Step /\ Here(r) = <<r, run[r].at>>
    BY RunFacts DEF Here
  <2>2. (RunOK(r) /\ RowOK(r) /\ TodoOK(r) /\ PaidOK(r))'
    BY <1>1, <2>1 DEF Sound, RunOK, RowOK, TodoOK, PaidOK, Many, Plan, Here
  <2>3. ASSUME NEW k \in Step PROVE (StepOK(r, k) /\ MachineOK(r, k) /\ Bought(r, k))'
    <3>1. StepOK(r, k) /\ MachineOK(r, k) /\ Bought(r, k) /\ <<r, k>> \in Machine
      BY <2>1 DEF Sound, Machine
    <3>2. StepOK(r, k)'
      BY <1>1, <3>1 DEF StepOK
    <3>3. Placed(r)' = Placed(r) /\ Plan(r)' = Plan(r)
      BY <1>1 DEF Placed, Plan
    <3>4. CASE <<r, k>> # m
      <4>1. machine'[<<r, k>>] = machine[<<r, k>>]
        BY <1>1, <1>2, <3>4
      <4> QED BY <1>1, <3>1, <3>2, <3>3, <4>1 DEF MachineOK, Bought
    <3>5. CASE <<r, k>> = m
      <4>1. machine'[<<r, k>>] = "gone" /\ machine[<<r, k>>] \in {"loose", "pooled"}
        BY <1>1, <1>2, <1>4, <3>5
      <4>2. k = run[r].at => run[r].phase \notin Making
        BY <1>1, <2>1, <3>5 DEF InFlight, Making
      <4>3. MachineOK(r, k)'
        BY <1>1, <3>1, <3>3, <4>1, <4>2 DEF MachineOK, Before, Making
      <4> QED BY <1>1, <3>1, <3>2, <4>1, <4>3 DEF Bought
    <3> QED BY <3>4, <3>5
  <2> QED BY <2>2, <2>3 DEF Sound
<1> QED BY <1>3, <1>5 DEF Struct

(* A judgement of a template's machine touches its row alone.              *)
LEMMA ReviewSound ==
  ASSUME Struct, NEW r \in Run, NEW status \in {"pending", "success", "warning", "failure"},
         Review(r, status)
  PROVE  Struct'
<1>1. /\ run[r].req.kind = "template" /\ row[r] # "none"
      /\ row' = [row EXCEPT ![r] = status]
      /\ run' = run /\ machine' = machine /\ assigned' = assigned /\ spent' = spent
      /\ blind' = blind /\ raced' = raced /\ cause' = cause
  BY DEF Review
<1>2. TypeOK /\ row \in [Run -> {"none", "pending", "success", "warning", "failure"}]
  BY Types DEF Struct
<1>3. TypeOK'
  BY <1>1, <1>2 DEF TypeOK
<1>4. ASSUME NEW q \in Run \ {r} PROVE Sound(q)'
  BY <1>1, <1>2, OtherSound
<1>5. Sound(r)'
  <2>1. Sound(r) /\ ~Many(r)
    BY <1>1, RunFacts DEF Many
  <2>2. RowOK(r)'
    BY <1>1, <2>1 DEF Sound, RowOK, Many
  <2>3. (RunOK(r) /\ TodoOK(r) /\ PaidOK(r))'
    BY <1>1, <2>1 DEF Sound, RunOK, TodoOK, PaidOK, Many, Plan, Here
  <2>4. ASSUME NEW k \in Step PROVE (StepOK(r, k) /\ MachineOK(r, k) /\ Bought(r, k))'
    <3>1. StepOK(r, k) /\ MachineOK(r, k) /\ Bought(r, k)
      BY <2>1 DEF Sound
    <3>2. StepOK(r, k)'
      BY <1>1, <3>1 DEF StepOK
    <3>3. MachineOK(r, k)'
      BY <1>1, <3>1 DEF MachineOK, Placed, Plan
    <3>4. Bought(r, k)'
      BY <1>1, <3>1 DEF Bought
    <3> QED BY <3>2, <3>3, <3>4
  <2> QED BY <2>2, <2>3, <2>4 DEF Sound
<1> QED BY <1>3, <1>4, <1>5 DEF Struct

(* A crash leaves the runs sound.                                          *)
LEMMA CrashSound ==
  ASSUME Struct, Crash
  PROVE  Struct'
<1>1. /\ run' = [r \in Run |-> IF r \in InFlight THEN [run[r] EXCEPT !.phase = "crashed"] ELSE run[r]]
      /\ cause' = [m \in Machine |-> IF m[1] \in InFlight /\ m \in Alive THEN "crash" ELSE cause[m]]
      /\ machine' = machine /\ assigned' = assigned /\ row' = row /\ spent' = spent
      /\ blind' = blind /\ raced' = raced
  BY DEF Crash
<1>2. TypeOK /\ run \in [Run -> RunType] /\ cause \in [Machine -> Cause]
  BY Types DEF Struct
<1>3. TypeOK'
  <2>1. run' \in [Run -> RunType]
    BY <1>1, <1>2 DEF RunType, Phase
  <2>2. cause' \in [Machine -> Cause]
    BY <1>1, <1>2 DEF Cause
  <2> QED BY <1>1, <1>2, <2>1, <2>2 DEF TypeOK, RunType
<1>4. ASSUME NEW r \in Run \ InFlight PROVE Sound(r)'
  <2>1. ASSUME NEW k \in Step PROVE cause'[<<r, k>>] = cause[<<r, k>>]
    <3>1. <<r, k>> \in Machine /\ <<r, k>>[1] = r
      BY DEF Machine
    <3> QED BY <1>1, <3>1
  <2> QED BY <1>1, <2>1, OtherSound
<1>5. ASSUME NEW r \in Run, r \in InFlight PROVE Sound(r)'
  <2>1. /\ run[r] \in RunType /\ Sound(r) /\ run[r].phase \notin {"idle", "ended", "refused", "crashed"}
    BY <1>5, RunFacts DEF InFlight
  <2>2. /\ run'[r].phase = "crashed" /\ run'[r].at = run[r].at /\ run'[r].step = run[r].step
        /\ run'[r].req = run[r].req
    BY <1>1, <1>5, <2>1 DEF RunType
  <2>3. (RunOK(r) /\ RowOK(r) /\ TodoOK(r) /\ PaidOK(r))'
    BY <1>1, <2>1, <2>2 DEF Sound, RunOK, RowOK, TodoOK, PaidOK, Making
  <2>4. ASSUME NEW k \in Step PROVE (StepOK(r, k) /\ MachineOK(r, k) /\ Bought(r, k))'
    <3>1. StepOK(r, k) /\ MachineOK(r, k) /\ Bought(r, k) /\ <<r, k>> \in Machine /\ <<r, k>>[1] = r
      BY <2>1 DEF Sound, Machine
    <3>2. StepOK(r, k)'
      BY <2>1, <2>2, <3>1 DEF StepOK
    <3>3. machine[<<r, k>>] \in {"loose", "pooled"} => cause'[<<r, k>>] # "none"
      BY <1>1, <1>5, <3>1 DEF Alive
    <3>4. run[r].step[k] # "failure"
      BY <2>1, <3>1, StepFacts DEF StepOK, RunType
    <3>5. MachineOK(r, k)'
      BY <1>1, <2>1, <2>2, <3>1, <3>3, <3>4 DEF MachineOK, Before, Making
    <3>6. Bought(r, k)'
      BY <1>1, <2>2, <3>1 DEF Bought
    <3> QED BY <3>2, <3>5, <3>6
  <2> QED BY <2>3, <2>4 DEF Sound
<1> QED BY <1>3, <1>4, <1>5 DEF Struct

(* The run goes on to another phase: what is typed after it.               *)
LEMMA PhaseTyped ==
  ASSUME Struct, NEW r \in Run, NEW phase \in Making,
         run' = [run EXCEPT ![r].phase = phase],
         machine' \in [Machine -> {"none", "loose", "pooled", "gone"}],
         cause' = cause, assigned' = assigned, spent' = spent, row' = row,
         blind' \in [Run -> SUBSET Scope], raced' \subseteq Scope
  PROVE  TypeOK'
<1>1. TypeOK /\ run \in [Run -> RunType] /\ phase \in Phase
  BY Types, RoleSets DEF Struct
<1>2. run' \in [Run -> RunType]
  BY <1>1 DEF RunType
<1> QED BY <1>1, <1>2 DEF TypeOK, RunType

(* A machine that joins scopes: what is typed after it.                    *)
LEMMA JoinTyped ==
  ASSUME Struct, NEW r \in Run, NEW J \in SUBSET Scope, Joins(r, J)
  PROVE  blind' \in [Run -> SUBSET Scope] /\ raced' \subseteq Scope
<1>1. blind \in [Run -> SUBSET Scope] /\ raced \subseteq Scope
  BY Types DEF Struct
<1>2. /\ raced' = raced \union {s \in J : s \notin Counted(run[r].req, Plan(r)) \/ s \in blind[r]}
      /\ blind' = [q \in Run |->
           IF q = r THEN blind[q] \union (J \ Counted(run[r].req, Plan(r)))
           ELSE blind[q] \union J]
  BY DEF Joins
<1> QED BY <1>1, <1>2

LEMMA FinishedSound ==
  ASSUME Struct, NEW r \in Run, run[r].phase \in Making, Finished(r)
  PROVE  Struct'
<1>1. StepDone(r) /\ machine' = machine /\ cause' = cause /\ spent' = spent
  BY DEF Finished
<1>2. assigned' = IF run[r].req.project THEN assigned \union {Here(r)} ELSE assigned
  BY DEF Finished
<1>3. blind' \in [Run -> SUBSET Scope] /\ raced' \subseteq Scope
  <2>1. CASE run[r].req.project
    <3>1. Joins(r, {"project"}) /\ {"project"} \in SUBSET Scope
      BY <2>1 DEF Finished, Scope
    <3> QED BY <3>1, JoinTyped
  <2>2. CASE ~run[r].req.project
    BY <2>2, Types DEF Finished, Struct
  <2> QED BY <2>1, <2>2
<1> QED BY <1>1, <1>2, <1>3, DoneSound

(* The steps of a deployment leave the runs sound.                         *)
LEMMA DeploySound ==
  ASSUME Struct, NEW r \in Run, Deploy(r)
  PROVE  Struct'
<1> DEFINE here == Here(r)
<1>1. /\ run[r] \in RunType /\ Sound(r) /\ here \in Machine /\ TypeOK
      /\ here = <<r, run[r].at>> /\ run[r].at \in Step
      /\ machine \in [Machine -> {"none", "loose", "pooled", "gone"}]
      /\ cause \in [Machine -> Cause]
      /\ blind \in [Run -> SUBSET Scope] /\ raced \subseteq Scope
      /\ run \in [Run -> RunType]
  BY RunFacts, Types DEF Struct, Here
<1>2. /\ run[r].phase \in Making => machine[here] \in {"loose", "pooled"}
      /\ run[r].phase = "reading" => machine[here] = "loose"
      /\ run[r].phase = "cloning" => machine[here] = "none"
      /\ run[r].phase = "finishing" => Many(r)
      /\ run[r].phase \in Making \union {"cloning", "gating"} => cause[here] = "none"
  BY <1>1 DEF Sound, MachineOK, RunOK, Before, Making
<1> HIDE DEF here
<1>3. ASSUME NEW ok \in BOOLEAN, PlanCompose(r, ok) PROVE Struct'
  BY <1>3, PlanSound
<1>4. ASSUME NEW ok \in BOOLEAN, Clean(r, ok) PROVE Struct'
  <2>1. /\ run[r].phase = "cleaning" /\ StepFails(r)
        /\ machine' = IF ok THEN [machine EXCEPT ![here] = "gone"] ELSE machine
        /\ cause' = IF ok THEN cause ELSE [cause EXCEPT ![here] = "cleanup"]
        /\ assigned' = assigned /\ spent' = spent /\ blind' = blind /\ raced' = raced
    BY <1>4 DEF Clean, here
  <2>2. /\ machine' \in [Machine -> {"none", "loose", "pooled", "gone"}]
        /\ cause' \in [Machine -> Cause]
    BY <1>1, <2>1 DEF Cause
  <2>3. /\ \A m \in Machine \ {here} : machine'[m] = machine[m] /\ cause'[m] = cause[m]
        /\ machine'[here] \in {"loose", "pooled"} => cause'[here] # "none"
        /\ machine[here] # "none" /\ run[r].phase \in Making
    BY <1>1, <1>2, <2>1 DEF Making
  <2>4. TypeOK'
    BY <2>1, <2>2, FailTyped
  <2> QED BY <2>1, <2>3, <2>4, FailSound DEF here
<1>5. ASSUME PassGate(r) PROVE Struct'
  BY <1>5, PassSound
<1>6. ASSUME RefuseGate(r) PROVE Struct'
  <2>1. /\ run[r].phase = "gating" /\ StepFails(r)
        /\ machine' = machine /\ cause' = cause
        /\ assigned' = assigned /\ spent' = spent /\ blind' = blind /\ raced' = raced
    BY <1>6 DEF RefuseGate
  <2>2. machine[here] = "none"
    BY <1>1, <2>1 DEF Sound, MachineOK, Before
  <2>3. TypeOK'
    BY <1>1, <2>1, FailTyped
  <2> QED BY <2>1, <2>2, <2>3, FailSound DEF here
<1>7. ASSUME CloneOk(r) PROVE Struct'
  <2> DEFINE ph == IF Provisioned(r) THEN "reading" ELSE "building"
  <2>1. /\ run[r].phase = "cloning" /\ run' = [run EXCEPT ![r].phase = ph]
        /\ machine' = [machine EXCEPT ![here] = "loose"]
        /\ assigned' = assigned /\ spent' = spent /\ blind' = blind /\ raced' = raced
        /\ row' = row /\ cause' = cause
    BY <1>7 DEF CloneOk, here
  <2>2. ph \in {"reading", "building"}
    OBVIOUS
  <2> HIDE DEF ph
  <2>3. /\ machine' \in [Machine -> {"none", "loose", "pooled", "gone"}]
        /\ machine'[here] = "loose" /\ \A m \in Machine \ {here} : machine'[m] = machine[m]
    BY <1>1, <2>1
  <2>4. ph \in Making
    BY <2>2 DEF Making
  <2>5. TypeOK'
    BY <1>1, <2>1, <2>3, <2>4, PhaseTyped
  <2> QED BY <2>1, <2>2, <2>3, <2>4, <2>5, PhaseSound DEF here
<1>8. ASSUME NEW lost \in BOOLEAN, CloneFails(r, lost) PROVE Struct'
  <2>1. /\ run[r].phase = "cloning" /\ StepFails(r)
        /\ machine' = [machine EXCEPT ![here] = IF lost THEN "loose" ELSE "none"]
        /\ cause' = [cause EXCEPT ![here] = IF lost THEN "lost" ELSE "none"]
        /\ assigned' = assigned /\ spent' = spent /\ blind' = blind /\ raced' = raced
    BY <1>8 DEF CloneFails, here
  <2>2. /\ machine' \in [Machine -> {"none", "loose", "pooled", "gone"}]
        /\ cause' \in [Machine -> Cause]
    BY <1>1, <2>1 DEF Cause
  <2>3. /\ \A m \in Machine \ {here} : machine'[m] = machine[m] /\ cause'[m] = cause[m]
        /\ machine'[here] \in {"loose", "pooled"} => cause'[here] # "none"
    BY <1>1, <2>1
  <2>4. TypeOK'
    BY <2>1, <2>2, FailTyped
  <2> QED BY <2>1, <2>3, <2>4, FailSound DEF here
<1>9. ASSUME ReadOk(r) PROVE Struct'
  <2>1. /\ run[r].phase = "reading" /\ run' = [run EXCEPT ![r].phase = "building"]
        /\ machine' = machine
        /\ assigned' = assigned /\ spent' = spent /\ blind' = blind /\ raced' = raced
        /\ row' = row /\ cause' = cause
    BY <1>9 DEF ReadOk
  <2>2. "building" \in Making /\ "reading" \in Making
    BY DEF Making
  <2>3. TypeOK'
    BY <1>1, <2>1, <2>2, PhaseTyped
  <2>4. machine[here] = "loose"
    BY <1>2, <2>1
  <2> QED BY <2>1, <2>2, <2>3, <2>4, PhaseSound DEF here
<1>10. ASSUME ReadFails(r) PROVE Struct'
  <2>1. /\ run[r].phase = "reading" /\ StepFails(r) /\ machine' = machine
        /\ cause' = [cause EXCEPT ![here] = "unread"]
        /\ assigned' = assigned /\ spent' = spent /\ blind' = blind /\ raced' = raced
    BY <1>10 DEF ReadFails, here
  <2>2. cause' \in [Machine -> Cause] /\ cause'[here] = "unread"
        /\ \A m \in Machine \ {here} : cause'[m] = cause[m]
    BY <1>1, <2>1 DEF Cause
  <2>3. TypeOK'
    BY <1>1, <2>1, <2>2, FailTyped
  <2>4. machine[here] = "loose" /\ run[r].phase \in Making
    BY <1>2, <2>1 DEF Making
  <2> QED BY <2>1, <2>2, <2>3, <2>4, FailSound DEF here
<1>11. ASSUME Place(r) PROVE Struct'
  <2>1. /\ run[r].phase = "building" /\ machine[here] = "loose"
        /\ machine' = [machine EXCEPT ![here] = "pooled"] /\ Joins(r, {"pool", "fabric"})
        /\ run' = run /\ assigned' = assigned /\ spent' = spent /\ row' = row /\ cause' = cause
    BY <1>11 DEF Place, here
  <2>2. run' = [run EXCEPT ![r].phase = "building"]
    <3>1. [run[r] EXCEPT !.phase = "building"] = run[r]
      BY <1>1, <2>1 DEF RunType
    <3> QED BY <1>1, <2>1, <3>1
  <2>3. /\ machine' \in [Machine -> {"none", "loose", "pooled", "gone"}]
        /\ machine'[here] = "pooled" /\ \A m \in Machine \ {here} : machine'[m] = machine[m]
    BY <1>1, <2>1
  <2>4. "building" \in Making
    BY DEF Making
  <2>5. TypeOK'
    <3>1. {"pool", "fabric"} \in SUBSET Scope
      BY DEF Scope
    <3>2. blind' \in [Run -> SUBSET Scope] /\ raced' \subseteq Scope
      BY <2>1, <3>1, JoinTyped
    <3> QED BY <2>1, <2>2, <2>3, <2>4, <3>2, PhaseTyped
  <2> QED BY <2>1, <2>2, <2>3, <2>4, <2>5, PhaseSound DEF here
<1>12. ASSUME Built(r) PROVE Struct'
  <2>1. /\ run[r].phase = "building" /\ run[r].phase \in Making
        /\ Placed(r) \/ Plan(r).start => machine[here] = "pooled"
    BY <1>12 DEF Built, here, Making
  <2>2. CASE Many(r) /\ Plan(r).mode = "operating-system"
    <3>1. /\ run' = [run EXCEPT ![r].phase = "finishing"] /\ machine' = machine
          /\ assigned' = assigned /\ spent' = spent /\ blind' = blind /\ raced' = raced
          /\ row' = row /\ cause' = cause
      BY <1>12, <2>2 DEF Built
    <3>2. "finishing" \in Making
      BY DEF Making
    <3>3. TypeOK'
      BY <1>1, <3>1, <3>2, PhaseTyped
    <3> QED BY <1>2, <2>1, <2>2, <3>1, <3>2, <3>3, PhaseSound DEF here
  <2>3. CASE ~(Many(r) /\ Plan(r).mode = "operating-system") /\ run[r].req.kind = "template"
    <3>1. /\ run' = [run EXCEPT ![r].phase = "recording"] /\ machine' = machine
          /\ assigned' = assigned /\ spent' = spent /\ blind' = blind /\ raced' = raced
          /\ row' = row /\ cause' = cause
      BY <1>12, <2>3 DEF Built
    <3>2. "recording" \in Making
      BY DEF Making
    <3>3. TypeOK'
      BY <1>1, <3>1, <3>2, PhaseTyped
    <3> QED BY <1>2, <2>1, <2>3, <3>1, <3>2, <3>3, PhaseSound DEF here
  <2>4. CASE ~(Many(r) /\ Plan(r).mode = "operating-system") /\ run[r].req.kind # "template"
    <3>1. Finished(r)
      BY <1>12, <2>4 DEF Built
    <3> QED BY <2>1, <3>1, FinishedSound
  <2> QED BY <2>2, <2>3, <2>4
<1>13. ASSUME BuildFails(r) PROVE Struct'
  <2>1. /\ run[r].phase = "building" /\ run[r].phase \in Making
        /\ machine' = machine /\ assigned' = assigned /\ spent' = spent
        /\ blind' = blind /\ raced' = raced
    BY <1>13 DEF BuildFails, Making
  <2>2. CASE run[r].req.kind = "template"
    <3>1. StepFails(r) /\ cause' = [cause EXCEPT ![here] = "unguarded"]
      BY <1>13, <2>2 DEF BuildFails, here
    <3>2. cause' \in [Machine -> Cause] /\ cause'[here] = "unguarded"
          /\ \A m \in Machine \ {here} : cause'[m] = cause[m]
      BY <1>1, <3>1 DEF Cause
    <3>3. TypeOK'
      BY <1>1, <2>1, <3>1, <3>2, FailTyped
    <3>4. run[r].phase # "recording" /\ machine[here] # "none"
      BY <1>2, <2>1
    <3> QED BY <2>1, <3>1, <3>2, <3>3, <3>4, FailSound DEF here
  <2>3. CASE run[r].req.kind # "template"
    <3>1. run' = [run EXCEPT ![r].phase = "cleaning"] /\ row' = row /\ cause' = cause
      BY <1>13, <2>3 DEF BuildFails
    <3>2. "cleaning" \in Making
      BY DEF Making
    <3>3. TypeOK'
      BY <1>1, <2>1, <3>1, <3>2, PhaseTyped
    <3> QED BY <1>2, <2>1, <3>1, <3>2, <3>3, PhaseSound DEF here
  <2> QED BY <2>2, <2>3
<1>14. ASSUME Finish(r) PROVE Struct'
  <2>1. run[r].phase \in Making /\ Finished(r)
    BY <1>14 DEF Finish, Making
  <2> QED BY <2>1, FinishedSound
<1>15. ASSUME FinishFails(r) PROVE Struct'
  <2>1. /\ run[r].phase \in {"finishing", "building"} /\ StepFails(r) /\ machine' = machine
        /\ cause' = [cause EXCEPT ![here] = "late"]
        /\ assigned' = assigned /\ spent' = spent /\ blind' = blind /\ raced' = raced
    BY <1>15 DEF FinishFails, here
  <2>2. cause' \in [Machine -> Cause] /\ cause'[here] = "late"
        /\ \A m \in Machine \ {here} : cause'[m] = cause[m]
    BY <1>1, <2>1 DEF Cause
  <2>3. TypeOK'
    BY <1>1, <2>1, <2>2, FailTyped
  <2>4. machine[here] # "none" /\ run[r].phase \in Making /\ run[r].phase # "recording"
    BY <1>2, <2>1 DEF Making
  <2> QED BY <2>1, <2>2, <2>3, <2>4, FailSound DEF here
<1>16. ASSUME Record(r) PROVE Struct'
  <2>1. run[r].phase \in Making /\ Finished(r)
    BY <1>16 DEF Record, Making
  <2> QED BY <2>1, FinishedSound
<1> QED BY <1>3, <1>4, <1>5, <1>6, <1>7, <1>8, <1>9, <1>10, <1>11, <1>12, <1>13, <1>14,
           <1>15, <1>16 DEF Deploy

LEMMA NextSound ==
  ASSUME Struct, [Next]_vars
  PROVE  Struct'
<1>1. ASSUME NEW r \in Run, Deploy(r) PROVE Struct'
  BY <1>1, DeploySound
<1>2. ASSUME NEW r \in Run, NEW q \in Request, Begin(r, q) PROVE Struct'
  BY <1>2, BeginSound
<1>3. ASSUME NEW m \in Machine, Delete(m) PROVE Struct'
  BY <1>3, DeleteSound
<1>4. ASSUME Crash PROVE Struct'
  BY <1>4, CrashSound
<1>5. ASSUME UNCHANGED vars PROVE Struct'
  <2>1. /\ run' = run /\ machine' = machine /\ assigned' = assigned /\ row' = row /\ spent' = spent
        /\ blind' = blind /\ raced' = raced /\ cause' = cause
    BY <1>5 DEF vars
  <2>2. TypeOK'
    BY <2>1 DEF TypeOK, Struct
  <2>3. ASSUME NEW r \in Run PROVE Sound(r)'
    BY <2>1, OtherSound
  <2> QED BY <2>2, <2>3 DEF Struct
<1>6. ASSUME NEW r \in Run, NEW status \in {"pending", "success", "warning", "failure"},
             Review(r, status)
      PROVE  Struct'
  BY <1>6, ReviewSound
<1> QED BY <1>1, <1>2, <1>3, <1>4, <1>5, <1>6 DEF Next

-----------------------------------------------------------------------------
(* The numbers.                                                            *)

(* The run's sum is in force, and no machine has joined the pool since.    *)
Sums(r) ==
  /\ run[r].req.kind = "compose" /\ run[r].req.named
  /\ run[r].phase \in Making \union {"gating", "cloning"}
  /\ run[r].loaded /\ "pool" \notin blind[r]

LEMMA SumFacts ==
  ASSUME SumOK, NEW r \in Run, Sums(r)
  PROVE  Count("pool") + (IF Through(r, "pool") THEN 1 ELSE 0) <= run[r].seen
BY DEF SumOK, Sums

LEMMA Smaller ==
  ASSUME NEW s, Members(s)' \subseteq Members(s)
  PROVE  Count(s)' <= Count(s)
BY MembersFinite, FS_Subset DEF Count

LEMMA OneMore ==
  ASSUME NEW S, NEW T, NEW x, IsFiniteSet(S), x \notin S, T = S \union {x}
  PROVE  Cardinality(T) = Cardinality(S) + 1
<1>1. Cardinality(S \union {x}) = Cardinality(S) + 1
  BY FS_AddElement
<1> QED BY <1>1

(* Machines leave, and no run gains room: the numbers hold on.             *)
LEMMA CountStay ==
  ASSUME Struct, Struct', Numbers, raced' = raced,
         \A s \in Scope : Members(s)' \subseteq Members(s),
         \A r \in Run, s \in Scope :
           Through(r, s)' /\ s \notin blind'[r] => Through(r, s) /\ s \notin blind[r],
         \A r \in Run : Sums(r)' => Sums(r) /\ run'[r].seen = run[r].seen
  PROVE  Numbers'
<1>1. \A s \in Scope : Count(s)' <= Count(s) /\ Count(s) \in Nat /\ Count(s)' \in Nat /\ Limit[s] \in Nat
  BY Smaller, MembersFinite, LimitAssumption
<1>2. QuotaHeld'
  BY <1>1 DEF QuotaHeld, Numbers
<1>3. Room'
  BY <1>1 DEF Room, Numbers
<1>4. ASSUME NEW r \in Run, Sums(r)'
      PROVE  Count("pool")' + (IF Through(r, "pool")' THEN 1 ELSE 0) <= run'[r].seen
  <2>1. "pool" \in Scope /\ "pool" \notin blind'[r]
    BY <1>4 DEF Scope, Sums
  <2>2. Through(r, "pool")' => Through(r, "pool")
    BY <2>1
  <2>3. run'[r].seen = run[r].seen /\ run[r].seen \in Nat
    BY <1>4, RunFacts DEF RunType
  <2>4. Count("pool") + (IF Through(r, "pool") THEN 1 ELSE 0) <= run[r].seen
    BY <1>4, SumFacts DEF Numbers
  <2>5. Count("pool")' <= Count("pool") /\ Count("pool") \in Nat /\ Count("pool")' \in Nat
    BY <1>1, <2>1
  <2>6. CASE Through(r, "pool")
    BY <2>3, <2>4, <2>5, <2>6
  <2>7. CASE ~Through(r, "pool")
    BY <2>2, <2>3, <2>4, <2>5, <2>7
  <2> QED BY <2>6, <2>7
<1>5. SumOK'
  BY <1>4 DEF SumOK, Sums
<1> QED BY <1>2, <1>3, <1>5 DEF Numbers

(* The same when one run moves.                                            *)
LEMMA Quiet ==
  ASSUME Struct, Struct', Numbers, NEW r \in Run, raced' = raced, blind' = blind,
         \A q \in Run \ {r} : run'[q] = run[q],
         \A s \in Scope : /\ Members(s)' \subseteq Members(s)
                          /\ Members(s) \ {Here(r)} \subseteq Members(s)',
         \A s \in Scope : Through(r, s)' => Through(r, s),
         Sums(r)' => Sums(r) /\ run'[r].seen = run[r].seen
  PROVE  Numbers'
<1>1. ASSUME NEW q \in Run \ {r}
      PROVE  /\ \A s \in Scope : Through(q, s)' => Through(q, s)
             /\ Sums(q)' => Sums(q)
  <2>1. Here(q) # Here(r) /\ Here(q)' = Here(q) /\ Plan(q)' = Plan(q)
    BY <1>1 DEF Here, Plan
  <2>2. \A s \in Scope : Here(q) \in Members(s) => Here(q) \in Members(s)'
    BY <2>1
  <2> QED BY <1>1, <2>1, <2>2 DEF Through, Sums
<1>2. \A q \in Run, s \in Scope : Through(q, s)' => Through(q, s)
  BY <1>1
<1>3. \A q \in Run : Sums(q)' => Sums(q) /\ run'[q].seen = run[q].seen
  BY <1>1
<1> QED BY <1>2, <1>3, CountStay

(* A machine joins some scopes: a run that it might crowd out loses its    *)
(* count, and the run that made it used the room it had.                   *)
LEMMA JoinNumbers ==
  ASSUME Struct, Struct', Numbers, NEW r \in Run, NEW J \in SUBSET Scope,
         run[r].phase \in Making, Joins(r, J),
         \A q \in Run \ {r} : run'[q] = run[q],
         \A s \in J : Members(s)' = Members(s) \union {Here(r)} /\ Here(r) \notin Members(s),
         \A s \in Scope \ J : Members(s)' = Members(s),
         \A s \in J : ~Through(r, s)',
         \A s \in Scope \ J : Through(r, s)' => Through(r, s),
         Sums(r)' => /\ run[r].req.kind = "compose" /\ run[r].req.named /\ run[r].loaded
                     /\ run'[r].seen = run[r].seen
  PROVE  Numbers'
<1> DEFINE counted == Counted(run[r].req, Plan(r))
<1>1. /\ raced' = raced \union {s \in J : s \notin counted \/ s \in blind[r]}
      /\ \A q \in Run : blind'[q] = IF q = r THEN blind[q] \union (J \ counted) ELSE blind[q] \union J
  BY DEF Joins
<1> HIDE DEF counted
<1>2. \A s \in Scope : Count(s) \in Nat /\ Count(s)' \in Nat /\ Limit[s] \in Nat
  BY MembersFinite, LimitAssumption
<1>3. \A s \in Scope \ J : Count(s)' = Count(s)
  BY DEF Count
<1>4. ASSUME NEW s \in J PROVE Count(s)' = Count(s) + 1
  <2>1. IsFiniteSet(Members(s)) /\ Here(r) \notin Members(s) /\ Members(s)' = Members(s) \union {Here(r)}
    BY MembersFinite
  <2> QED BY <2>1, OneMore DEF Count
<1>5. ASSUME NEW s \in J, s \notin raced'
      PROVE  s \in Scope \ raced /\ s \notin blind[r] /\ s \in counted /\ Through(r, s)
  <2>1. s \in counted /\ s \notin blind[r] /\ s \notin raced
    BY <1>1, <1>5
  <2>2. run[r].phase # "gating"
    BY DEF Making
  <2> QED BY <2>1, <2>2 DEF Through, counted
<1>6. \A q \in Run \ {r} : /\ \A s \in Scope \ J : Through(q, s)' => Through(q, s)
                            /\ Here(q)' = Here(q)
  BY DEF Through, Here, Plan
<1>7. QuotaHeld'
  <2> SUFFICES ASSUME NEW s \in Scope \ raced', Limit[s] > 0 PROVE Count(s)' <= Limit[s]
    BY DEF QuotaHeld
  <2>1. CASE s \in J
    <3>1. Count(s) + 1 <= Limit[s]
      BY <1>5, <2>1 DEF Numbers, Room
    <3> QED BY <1>4, <2>1, <3>1
  <2>2. CASE s \notin J
    <3>1. s \notin raced
      BY <1>1
    <3> QED BY <1>3, <2>2, <3>1 DEF Numbers, QuotaHeld
  <2> QED BY <2>1, <2>2
<1>8. Room'
  <2> SUFFICES ASSUME NEW q \in Run, NEW s \in Scope \ raced', Through(q, s)', s \notin blind'[q],
                      Limit[s] > 0
               PROVE  Count(s)' + 1 <= Limit[s]
    BY DEF Room
  <2>1. s \notin raced /\ s \notin blind[q]
    BY <1>1
  <2>2. s \notin J
    BY <1>1
  <2>3. Through(q, s)
    BY <1>6, <2>2
  <2>4. Count(s) + 1 <= Limit[s]
    BY <2>1, <2>3 DEF Numbers, Room
  <2> QED BY <1>3, <2>2, <2>4
<1>9. ASSUME NEW q \in Run, Sums(q)'
      PROVE  Count("pool")' + (IF Through(q, "pool")' THEN 1 ELSE 0) <= run'[q].seen
  <2>1. "pool" \in Scope /\ "pool" \notin blind'[q]
    BY <1>9 DEF Scope, Sums
  <2>2. "pool" \notin blind[q]
    BY <1>1, <2>1
  <2>3. Sums(q) /\ run'[q].seen = run[q].seen /\ run[q].seen \in Nat
    <3>1. run[q].seen \in Nat
      BY RunFacts DEF RunType
    <3>2. CASE q = r
      BY <1>9, <2>2, <3>1, <3>2 DEF Sums
    <3>3. CASE q # r
      BY <1>9, <2>2, <3>1, <3>3 DEF Sums
    <3> QED BY <3>2, <3>3
  <2>4. Count("pool") + (IF Through(q, "pool") THEN 1 ELSE 0) <= run[q].seen
    BY <2>3, SumFacts DEF Numbers
  <2>5. Count("pool") \in Nat /\ Count("pool")' \in Nat
    BY <1>2, <2>1
  <2>6. CASE "pool" \in J
    <3>1. q = r /\ "pool" \in counted
      BY <1>1, <2>1, <2>6
    <3>2. Through(r, "pool") /\ ~Through(r, "pool")'
      <4>1. run[r].phase # "gating"
        BY DEF Making
      <4> QED BY <2>6, <3>1, <4>1 DEF Through, counted
    <3>3. Count("pool")' = Count("pool") + 1
      BY <1>4, <2>6
    <3> QED BY <2>3, <2>4, <2>5, <3>1, <3>2, <3>3
  <2>7. CASE "pool" \notin J
    <3>1. Count("pool")' = Count("pool") /\ (Through(q, "pool")' => Through(q, "pool"))
      BY <1>3, <1>6, <2>1, <2>7
    <3>2. CASE Through(q, "pool")
      BY <2>3, <2>4, <2>5, <3>1, <3>2
    <3>3. CASE ~Through(q, "pool")
      BY <2>3, <2>4, <2>5, <3>1, <3>3
    <3> QED BY <3>2, <3>3
  <2> QED BY <2>6, <2>7
<1>10. SumOK'
  BY <1>9 DEF SumOK, Sums
<1> QED BY <1>7, <1>8, <1>10 DEF Numbers

(* A plan whose pool is not known is not counted in it, or only by the     *)
(* catalog's last gate.                                                    *)
LEMMA Unseen ==
  ASSUME NEW q \in Request, NEW plan \in PlanType, ~q.named, plan.pinned \/ q.kind = "compose"
  PROVE  "pool" \notin Counted(q, plan)
<1> DEFINE gates == GatesOf(q, plan)
<1>1. q.kind = "compose" => \A i \in 1..Len(gates) : gates[i] # "pool"
  BY GatesList
<1>2. gates = GatesOf(q, plan)
  OBVIOUS
<1> HIDE DEF gates
<1>3. ASSUME NEW i \in 1..Len(gates), ScopeOf(gates[i]) = "pool" PROVE ~Compares(q, plan, gates[i])
  <2>1. gates[i] = "engine" \/ gates[i] = "pool"
    BY <1>3 DEF ScopeOf
  <2> QED BY <1>1, <2>1 DEF Compares
<1> QED BY <1>2, <1>3 DEF Counted

(* A gate that is passed: its count is fresh, or the engine's sum is not   *)
(* less than it.                                                           *)
LEMMA PassNumbers ==
  ASSUME Struct, Struct', Numbers, NEW r \in Run, PassGate(r)
  PROVE  Numbers'
<1> DEFINE gate == Head(run[r].todo) rest == Tail(run[r].todo) usage == Usage(r, gate)
           scope == ScopeOf(gate) sees == Compares(run[r].req, Plan(r), gate)
<1>1. /\ run[r].phase = "gating" /\ run[r].todo \in Seq(Gate) /\ run[r].todo # <<>>
      /\ gate = run[r].todo[1] /\ gate \in Gate
      /\ usage \in Nat /\ (sees => Fits(scope, usage))
      /\ \A q \in Run \ {r} : run'[q] = run[q]
      /\ run'[r].req = run[r].req /\ run'[r].at = run[r].at
      /\ run'[r].todo = rest /\ run'[r].phase = IF rest = <<>> THEN "cloning" ELSE "gating"
      /\ run'[r].loaded = (run[r].loaded \/ gate = "engine")
      /\ run'[r].seen = IF gate = "engine" /\ sees THEN usage + 1 ELSE run[r].seen
  BY PassFacts
<1>2. /\ machine' = machine /\ assigned' = assigned /\ raced' = raced
      /\ blind' = IF ~sees \/ (gate = "engine" /\ run[r].loaded) THEN blind
                  ELSE [blind EXCEPT ![r] = @ \ {scope}]
  BY DEF PassGate
<1>3. /\ Sound(r) /\ run[r] \in RunType /\ blind \in [Run -> SUBSET Scope] /\ run[r].req \in Request
      /\ Plan(r) \in PlanType
  BY RunFacts, Types DEF Struct
<1>4. \A s : Members(s)' = Members(s) /\ Count(s)' = Count(s)
  BY <1>2 DEF Members, Alive, Count
<1>5. /\ Len(run[r].todo) \in Nat /\ Len(run[r].todo) >= 1 /\ Len(rest) = Len(run[r].todo) - 1
      /\ \A i \in 1..Len(run[r].todo) : i # 1 => i - 1 \in 1..Len(rest) /\ run[r].todo[i] = rest[i - 1]
      /\ rest = <<>> <=> Len(run[r].todo) = 1
  BY <1>1, RestFacts
<1>6. usage = IF gate = "engine" /\ run[r].loaded THEN run[r].seen ELSE Count(scope)
  BY DEF Usage
<1>7. scope = IF gate = "engine" THEN "pool" ELSE gate
  BY DEF ScopeOf
<1>8. \A s \in Scope : Count(s) \in Nat /\ Limit[s] \in Nat
  BY MembersFinite, LimitAssumption
<1>9. Fits(scope, usage) = (Limit[scope] > 0 => usage + 1 <= Limit[scope])
  BY DEF Fits
<1>21. /\ \A t \in Scope : t # scope /\ t \notin blind'[r] => t \notin blind[r]
       /\ \A q \in Run \ {r} : blind'[q] = blind[q]
       /\ gate = "engine" /\ run[r].loaded => blind'[r] = blind[r]
  BY <1>2, <1>3
<1>22. scope = ScopeOf(run[r].todo[1]) /\ scope \in Scope
  BY <1>1, <1>7 DEF Gate, Scope
<1>23. sees <=> (gate = "engine" => run[r].req.named) /\ (gate = "pool" => run[r].req.named \/ ~Plan(r).pinned)
  BY DEF Compares
<1> HIDE DEF gate, rest, usage, scope, sees
<1>10. Plan(r)' = Plan(r) /\ Here(r)' = Here(r) /\ run'[r].phase \in {"gating", "cloning"}
  BY <1>1 DEF Plan, Here
<1>11. ASSUME NEW t \in Scope, Through(r, t)'
       PROVE  \A i \in 1..Len(rest) : ScopeOf(rest[i]) # t
  <2>1. CASE rest = <<>>
    BY <1>5, <2>1
  <2>2. CASE rest # <<>>
    <3>1. run'[r].phase = "gating"
      BY <1>1, <2>2
    <3> QED BY <1>1, <1>11, <3>1 DEF Through
  <2> QED BY <2>1, <2>2
<1>12. ASSUME NEW t \in Scope, Through(r, t)', t # scope
       PROVE  Through(r, t)
  <2>1. ASSUME NEW i \in 1..Len(run[r].todo) PROVE ScopeOf(run[r].todo[i]) # t
    <3>1. CASE i = 1
      BY <1>12, <1>22, <3>1
    <3>2. CASE i # 1
      BY <1>5, <1>11, <1>12, <3>2
    <3> QED BY <3>1, <3>2
  <2>2. t \in Counted(run[r].req, Plan(r)) /\ Here(r) \notin Members(t)
    BY <1>1, <1>4, <1>10, <1>12 DEF Through
  <2> QED BY <1>1, <2>1, <2>2 DEF Through
<1>13. ASSUME NEW q \in Run \ {r}
       PROVE  /\ \A t \in Scope : Through(q, t)' => Through(q, t)
              /\ Sums(q)' => Sums(q)
  <2>1. Here(q)' = Here(q) /\ Plan(q)' = Plan(q) /\ run'[q] = run[q] /\ blind'[q] = blind[q]
    BY <1>1, <1>21 DEF Here, Plan
  <2> QED BY <1>4, <2>1 DEF Through, Sums
<1>14. QuotaHeld'
  BY <1>2, <1>4 DEF Numbers, QuotaHeld
<1>15. ASSUME gate = "engine", run[r].req.kind = "catalog"
       PROVE  ~Through(r, "pool")'
  <2>1. TodoOK(r)
    BY <1>3 DEF Sound
  <2>2. run[r].todo[Len(run[r].todo)] = "pool"
    BY <1>1, <1>15, <2>1 DEF TodoOK
  <2>3. Len(run[r].todo) # 1
    BY <1>1, <1>15, <2>2
  <2>4. Len(run[r].todo) - 1 \in 1..Len(rest) /\ rest[Len(run[r].todo) - 1] = "pool"
    <3>1. Len(run[r].todo) \in 1..Len(run[r].todo)
      BY <1>5
    <3> QED BY <1>5, <2>2, <2>3, <3>1
  <2>5. ScopeOf("pool") = "pool" /\ "pool" \in Scope
    BY DEF ScopeOf, Scope
  <2> QED BY <1>11, <2>4, <2>5
<1>16. gate = "engine" => run[r].req.kind \in {"compose", "catalog"}
  <2>1. TodoOK(r) /\ 1 \in 1..Len(run[r].todo)
    BY <1>3, <1>5 DEF Sound
  <2> QED BY <1>1, <2>1 DEF TodoOK, Many
<1>24. ASSUME NEW t \in Scope, t = scope, Through(r, t)' PROVE sees
  <2> SUFFICES ASSUME ~sees PROVE FALSE
    OBVIOUS
  <2>1. ~run[r].req.named /\ t = "pool" /\ (gate = "engine" \/ Plan(r).pinned)
    BY <1>7, <1>23, <1>24
  <2>2. gate # "engine" \/ run[r].req.kind = "compose"
    BY <1>15, <1>16, <1>24, <2>1
  <2>3. "pool" \notin Counted(run[r].req, Plan(r))
    BY <1>3, <2>1, <2>2, Unseen
  <2> QED BY <1>1, <1>10, <1>24, <2>1, <2>3 DEF Through
<1>17. Room'
  <2> SUFFICES ASSUME NEW q \in Run, NEW t \in Scope \ raced', Through(q, t)', t \notin blind'[q],
                      Limit[t] > 0
               PROVE  Count(t) + 1 <= Limit[t]
    BY <1>4 DEF Room
  <2>1. CASE q # r
    BY <1>2, <1>13, <1>21, <2>1 DEF Numbers, Room
  <2>2. CASE q = r /\ t # scope
    BY <1>2, <1>12, <1>21, <2>2 DEF Numbers, Room
  <2>3. CASE q = r /\ t = scope
    <3>1. sees /\ usage + 1 <= Limit[t]
      BY <1>1, <1>9, <1>24, <2>3
    <3>2. CASE ~(gate = "engine" /\ run[r].loaded)
      BY <1>6, <2>3, <3>1, <3>2
    <3>3. CASE gate = "engine" /\ run[r].loaded
      <4>1. scope = "pool" /\ usage = run[r].seen /\ "pool" \notin blind[r]
        BY <1>6, <1>7, <1>21, <2>3, <3>3
      <4>2. run[r].req.kind = "compose"
        BY <1>15, <1>16, <2>3, <3>3, <4>1
      <4>3. Sums(r)
        BY <1>1, <1>23, <3>1, <3>3, <4>1, <4>2 DEF Sums
      <4>4. Count("pool") + (IF Through(r, "pool") THEN 1 ELSE 0) <= run[r].seen
        BY <4>3, SumFacts DEF Numbers
      <4>5. Count(t) <= usage
        <5>1. Count("pool") \in Nat /\ run[r].seen \in Nat
          BY <1>3, <1>8, <1>22, <4>1 DEF RunType
        <5> QED BY <2>3, <4>1, <4>4, <5>1
      <4> QED BY <1>1, <1>8, <3>1, <4>5
    <3> QED BY <3>2, <3>3
  <2> QED BY <2>1, <2>2, <2>3
<1>18. ASSUME NEW q \in Run, Sums(q)'
       PROVE  Count("pool") + (IF Through(q, "pool")' THEN 1 ELSE 0) <= run'[q].seen
  <2>0. "pool" \in Scope
    BY DEF Scope
  <2>1. Count("pool") \in Nat /\ run[q].seen \in Nat /\ run[r].seen \in Nat
    BY <1>8, <2>0, RunFacts DEF RunType
  <2>2. CASE q # r
    <3>1. Sums(q) /\ run'[q].seen = run[q].seen /\ (Through(q, "pool")' => Through(q, "pool"))
      BY <1>1, <1>13, <1>18, <2>0, <2>2
    <3>2. Count("pool") + (IF Through(q, "pool") THEN 1 ELSE 0) <= run[q].seen
      BY <3>1, SumFacts DEF Numbers
    <3> QED BY <2>1, <3>1, <3>2
  <2>3. CASE q = r /\ gate = "engine"
    <3>1. /\ run'[r].seen = usage + 1 /\ run[r].req.kind = "compose" /\ run[r].req.named
          /\ scope = "pool"
      BY <1>1, <1>7, <1>18, <1>23, <2>3 DEF Sums
    <3>2. Count("pool") <= usage
      <4>1. CASE run[r].loaded
        <5>1. Sums(r)
          BY <1>1, <1>18, <1>21, <2>3, <3>1, <4>1 DEF Sums
        <5>2. Count("pool") + (IF Through(r, "pool") THEN 1 ELSE 0) <= run[r].seen
          BY <5>1, SumFacts DEF Numbers
        <5>3. usage = run[r].seen
          BY <1>6, <2>3, <4>1
        <5> QED BY <2>1, <5>2, <5>3
      <4>2. CASE ~run[r].loaded
        BY <1>6, <2>1, <3>1, <4>2
      <4> QED BY <4>1, <4>2
    <3> QED BY <1>1, <2>1, <2>3, <3>1, <3>2
  <2>4. CASE q = r /\ gate # "engine"
    <3>1. /\ run[r].req.kind = "compose" /\ run[r].req.named
          /\ run[r].loaded /\ run'[r].seen = run[r].seen
      BY <1>1, <1>18, <2>4 DEF Sums
    <3>2. scope # "pool"
      <4>1. TodoOK(r) /\ 1 \in 1..Len(run[r].todo)
        BY <1>3, <1>5 DEF Sound
      <4>2. gate # "pool"
        BY <1>1, <3>1, <4>1 DEF TodoOK
      <4> QED BY <1>7, <2>4, <4>2
    <3>3. "pool" \notin blind[r]
      BY <1>18, <1>21, <2>0, <2>4, <3>2 DEF Sums
    <3>4. Sums(r)
      BY <1>1, <3>1, <3>3 DEF Sums
    <3>5. Count("pool") + (IF Through(r, "pool") THEN 1 ELSE 0) <= run[r].seen
      BY <3>4, SumFacts DEF Numbers
    <3>6. Through(r, "pool")' => Through(r, "pool")
      BY <1>12, <2>0, <3>2
    <3> QED BY <2>1, <2>4, <3>1, <3>5, <3>6
  <2> QED BY <2>2, <2>3, <2>4
<1>19. SumOK'
  BY <1>4, <1>18 DEF SumOK, Sums
<1> QED BY <1>14, <1>17, <1>19 DEF Numbers

(* A run that enters a plan has all of the plan's gates before it.         *)
LEMMA EnteredAway ==
  ASSUME NEW r \in Run, NEW q \in Request, NEW at \in 1..Len(q.plans),
         run'[r].req = q, run'[r].at = at,
         run'[r].phase = Entered(q, at).phase, run'[r].todo = Entered(q, at).todo
  PROVE  \A s \in Scope : ~Through(r, s)'
<1> DEFINE gates == GatesOf(q, q.plans[at])
<1>4. /\ run'[r].todo = gates
      /\ run'[r].phase = IF gates = <<>> THEN "cloning" ELSE "gating"
  BY EnteredFacts
<1>5. run'[r].phase = "cloning" => Counted(q, q.plans[at]) = {}
  BY EnteredFacts
<1>6. \A s \in Counted(q, q.plans[at]) : \E i \in 1..Len(gates) : ScopeOf(gates[i]) = s
  BY DEF Counted
<1> DEFINE counted == Counted(q, q.plans[at])
<1>1. /\ run'[r].todo = gates
      /\ run'[r].phase = IF gates = <<>> THEN "cloning" ELSE "gating"
      /\ run'[r].phase = "cloning" => counted = {}
      /\ \A s \in counted : \E i \in 1..Len(gates) : ScopeOf(gates[i]) = s
  BY <1>4, <1>5, <1>6
<1>2. Counted(run[r].req, Plan(r))' = counted
  BY DEF Plan
<1> HIDE DEF gates, counted
<1> QED BY <1>1, <1>2 DEF Through

(* A failed step, whatever becomes of the machine: the run is over.        *)
LEMMA FailNumbers ==
  ASSUME Struct, Struct', Numbers, NEW r \in Run, StepFails(r), raced' = raced, blind' = blind,
         \A s \in Scope : /\ Members(s)' \subseteq Members(s)
                          /\ Members(s) \ {Here(r)} \subseteq Members(s)'
  PROVE  Numbers'
<1>1. run \in [Run -> RunType] /\ run[r] \in RunType
  BY Types DEF Struct
<1>2. /\ \A q \in Run \ {r} : run'[q] = run[q]
      /\ run'[r].phase \in {"ended", "refused"}
  BY <1>1 DEF StepFails, RunType
<1>3. (\A s \in Scope : ~Through(r, s)') /\ ~Sums(r)'
  BY <1>2 DEF Through, Sums, Making
<1> QED BY <1>2, <1>3, Quiet

(* A run that goes on with its plan, its machine in no other scope.        *)
LEMMA PhaseNumbers ==
  ASSUME Struct, Struct', Numbers, NEW r \in Run, NEW phase \in Making,
         run' = [run EXCEPT ![r].phase = phase],
         run[r].phase \in Making \union {"cloning"},
         raced' = raced, blind' = blind,
         \A s \in Scope : Members(s)' = Members(s)
  PROVE  Numbers'
<1>1. run \in [Run -> RunType] /\ run[r] \in RunType
  BY Types DEF Struct
<1>2. /\ \A q \in Run \ {r} : run'[q] = run[q]
      /\ run'[r].phase = phase /\ run'[r].req = run[r].req /\ run'[r].at = run[r].at
      /\ run'[r].loaded = run[r].loaded /\ run'[r].seen = run[r].seen
  BY <1>1 DEF RunType
<1>3. Plan(r)' = Plan(r) /\ Here(r)' = Here(r) /\ run[r].phase # "gating"
  BY <1>2 DEF Plan, Here, Making
<1>4. \A s \in Scope : Through(r, s)' => Through(r, s)
  BY <1>2, <1>3 DEF Through
<1>5. Sums(r)' => Sums(r) /\ run'[r].seen = run[r].seen
  BY <1>2 DEF Sums
<1> QED BY <1>2, <1>4, <1>5, Quiet

(* What Finished(r) does to the runs.                                      *)
LEMMA DoneFacts ==
  ASSUME Struct, NEW r \in Run, run[r].phase \in Making, StepDone(r)
  PROVE  /\ \A q \in Run \ {r} : run'[q] = run[q]
         /\ run'[r].req = run[r].req /\ run'[r].loaded = run[r].loaded /\ run'[r].seen = run[r].seen
         /\ \A s \in Scope : ~Through(r, s)'
<1> DEFINE q == run[r].req at == run[r].at n == Len(q.plans)
           step == [run[r].step EXCEPT ![at] = "success"]
<1>1. /\ run \in [Run -> RunType] /\ run[r] \in RunType /\ q \in Request
      /\ at \in Nat /\ at \in 1..n /\ n \in Nat
  BY RunFacts, RequestFacts, StepFacts, Types DEF Struct
<1>2. CASE at = n
  <2>1. run' = [run EXCEPT ![r].phase = "ended", ![r].step = step]
    BY <1>2 DEF StepDone
  <2> HIDE DEF step
  <2>2. /\ \A p \in Run \ {r} : run'[p] = run[p]
        /\ run'[r].req = run[r].req /\ run'[r].loaded = run[r].loaded /\ run'[r].seen = run[r].seen
        /\ run'[r].phase = "ended"
    BY <1>1, <2>1 DEF RunType
  <2>3. \A s \in Scope : ~Through(r, s)'
    BY <2>2 DEF Through, Making
  <2> QED BY <2>2, <2>3
<1>3. CASE at # n
  <2> DEFINE next == at + 1 ph == Entered(q, next).phase todo == Entered(q, next).todo
  <2>1. run' = [run EXCEPT ![r].at = next, ![r].step = step, ![r].phase = ph, ![r].todo = todo]
    BY <1>3 DEF StepDone
  <2>2. next \in 1..n
    BY <1>1, <1>3
  <2>3. ph = Entered(q, next).phase /\ todo = Entered(q, next).todo
    OBVIOUS
  <2> HIDE DEF step, ph, todo, next
  <2>4. /\ \A p \in Run \ {r} : run'[p] = run[p]
        /\ run'[r].req = run[r].req /\ run'[r].loaded = run[r].loaded /\ run'[r].seen = run[r].seen
        /\ run'[r].at = next /\ run'[r].phase = ph /\ run'[r].todo = todo
    BY <1>1, <2>1 DEF RunType
  <2>5. run'[r].req = q /\ run'[r].phase = Entered(q, next).phase /\ run'[r].todo = Entered(q, next).todo
    BY <2>3, <2>4
  <2>6. q \in Request /\ next \in 1..Len(q.plans)
    BY <1>1, <2>2
  <2> HIDE DEF q, at, n
  <2>7. \A s \in Scope : ~Through(r, s)'
    BY <2>4, <2>5, <2>6, EnteredAway
  <2> QED BY <2>4, <2>7
<1> QED BY <1>2, <1>3

LEMMA FinishedNumbers ==
  ASSUME Struct, Struct', Numbers, NEW r \in Run, run[r].phase \in Making, Finished(r)
  PROVE  Numbers'
<1> DEFINE here == Here(r)
<1>1. /\ \A q \in Run \ {r} : run'[q] = run[q]
      /\ run'[r].req = run[r].req /\ run'[r].loaded = run[r].loaded /\ run'[r].seen = run[r].seen
      /\ \A s \in Scope : ~Through(r, s)'
      /\ machine' = machine
  BY DoneFacts DEF Finished
<1>2. CASE run[r].req.project
  <2>1. assigned' = assigned \union {here} /\ Joins(r, {"project"})
    BY <1>2 DEF Finished
  <2>2. /\ here \in Machine /\ machine[here] \in {"loose", "pooled"} /\ here \notin assigned
    <3>1. /\ here = <<r, run[r].at>> /\ here \in Machine /\ Sound(r) /\ run[r].at \in Step
      BY RunFacts DEF Here
    <3>2. StepOK(r, run[r].at) /\ MachineOK(r, run[r].at)
      BY <3>1 DEF Sound
    <3>3. run[r].step[run[r].at] = "pending"
      BY <3>2 DEF StepOK, Making
    <3> QED BY <3>1, <3>2, <3>3 DEF MachineOK
  <2> HIDE DEF here
  <2>3. here \in Alive /\ Alive' = Alive
    BY <1>1, <2>2 DEF Alive
  <2>4. Members("project")' = Members("project") \union {here} /\ here \notin Members("project")
    BY <2>1, <2>2, <2>3 DEF Members
  <2>5. \A s \in Scope \ {"project"} : Members(s)' = Members(s)
    BY <1>1 DEF Members
  <2>6. Sums(r)' => /\ run[r].req.kind = "compose" /\ run[r].req.named /\ run[r].loaded
                    /\ run'[r].seen = run[r].seen
    BY <1>1 DEF Sums
  <2>7. {"project"} \in SUBSET Scope
    BY DEF Scope
  <2> QED BY <1>1, <2>1, <2>4, <2>5, <2>6, <2>7, JoinNumbers DEF here
<1>3. CASE ~run[r].req.project
  <2>1. assigned' = assigned /\ blind' = blind /\ raced' = raced
    BY <1>3 DEF Finished
  <2>2. \A s \in Scope : Members(s)' = Members(s)
    BY <1>1, <2>1 DEF Members, Alive
  <2>3. Sums(r)' => Sums(r) /\ run'[r].seen = run[r].seen
    BY <1>1, <2>1 DEF Sums
  <2> QED BY <1>1, <2>1, <2>2, <2>3, Quiet
<1> QED BY <1>2, <1>3

(* The steps of a deployment keep the numbers.                             *)
LEMMA DeployNumbers ==
  ASSUME Struct, Struct', Numbers, NEW r \in Run, Deploy(r)
  PROVE  Numbers'
<1> DEFINE here == Here(r)
<1>1. /\ run[r] \in RunType /\ Sound(r) /\ here \in Machine
      /\ here = <<r, run[r].at>> /\ run[r].at \in Step
      /\ machine \in [Machine -> {"none", "loose", "pooled", "gone"}]
      /\ run \in [Run -> RunType]
  BY RunFacts, Types DEF Struct, Here
<1>2. /\ run[r].phase = "cloning" => machine[here] = "none" /\ here \notin assigned
  <2>1. StepOK(r, run[r].at) /\ MachineOK(r, run[r].at)
    BY <1>1 DEF Sound
  <2>2. run[r].phase = "cloning" => run[r].step[run[r].at] = "pending"
    BY <2>1 DEF StepOK
  <2> QED BY <1>1, <2>1, <2>2 DEF MachineOK, Before
<1> HIDE DEF here
<1>20. \A s \in Scope : machine' = machine /\ assigned' = assigned => Members(s)' = Members(s)
  BY DEF Members, Alive
<1>21. ASSUME machine' = machine, assigned' = assigned
       PROVE  \A s \in Scope : /\ Members(s)' \subseteq Members(s)
                               /\ Members(s) \ {here} \subseteq Members(s)'
  BY <1>20, <1>21
<1>22. "finishing" \in Making /\ "recording" \in Making /\ "cleaning" \in Making
       /\ "building" \in Making /\ "reading" \in Making
  BY DEF Making
<1>3. ASSUME NEW ok \in BOOLEAN, PlanCompose(r, ok) PROVE Numbers'
  <2> DEFINE q  == run[r].req
             ph == IF ok THEN Entered(q, 1).phase ELSE "refused"
             todo == IF ok THEN Entered(q, 1).todo ELSE <<>>
  <2>1. /\ run[r].phase = "planning" /\ run' = [run EXCEPT ![r].phase = ph, ![r].todo = todo]
        /\ machine' = machine /\ assigned' = assigned /\ blind' = blind /\ raced' = raced
    BY <1>3 DEF PlanCompose
  <2>2. ph = (IF ok THEN Entered(q, 1).phase ELSE "refused")
        /\ todo = (IF ok THEN Entered(q, 1).todo ELSE <<>>)
    OBVIOUS
  <2> HIDE DEF ph, todo
  <2>3. /\ \A p \in Run \ {r} : run'[p] = run[p]
        /\ run'[r].phase = ph /\ run'[r].todo = todo /\ run'[r].req = q /\ run'[r].at = run[r].at
        /\ run'[r].loaded = run[r].loaded
    BY <1>1, <2>1 DEF RunType
  <2>4. run[r].at = 1 /\ ~run[r].loaded
    BY <2>1, Untouched
  <2>5. q \in Request /\ 1 \in 1..Len(q.plans)
    <3>1. q \in Request
      BY RunFacts
    <3> QED BY <3>1, RequestFacts, StepFacts
  <2>6. \A s \in Scope : ~Through(r, s)'
    <3>1. CASE ok
      <4>1. run'[r].phase = Entered(q, 1).phase /\ run'[r].todo = Entered(q, 1).todo
            /\ run'[r].req = q /\ run'[r].at = 1
        BY <2>2, <2>3, <2>4, <3>1
      <4> HIDE DEF q
      <4> QED BY <2>5, <4>1, EnteredAway
    <3>2. CASE ~ok
      <4>1. run'[r].phase = "refused"
        BY <2>2, <2>3, <3>2
      <4> QED BY <4>1 DEF Through, Making
    <3> QED BY <3>1, <3>2
  <2>7. ~Sums(r)'
    BY <2>3, <2>4 DEF Sums
  <2> QED BY <1>21, <2>1, <2>3, <2>6, <2>7, Quiet DEF here
<1>4. ASSUME NEW ok \in BOOLEAN, Clean(r, ok) PROVE Numbers'
  <2>1. /\ StepFails(r) /\ machine' = IF ok THEN [machine EXCEPT ![here] = "gone"] ELSE machine
        /\ assigned' = assigned /\ blind' = blind /\ raced' = raced
    BY <1>4 DEF Clean, here
  <2>2. \A m \in Machine : m # here => machine'[m] = machine[m]
    BY <1>1, <2>1
  <2>3. machine'[here] \in {"loose", "pooled"} => machine' = machine
    BY <1>1, <2>1
  <2>4. \A s \in Scope : /\ Members(s)' \subseteq Members(s)
                         /\ Members(s) \ {here} \subseteq Members(s)'
    <3>1. CASE machine' = machine
      BY <1>21, <2>1, <3>1
    <3>2. CASE machine' # machine
      <4>1. Alive' = Alive \ {here}
        BY <1>1, <2>1, <2>2, <2>3, <3>2 DEF Alive
      <4>2. {m \in Machine : machine'[m] = "pooled"} = {m \in Machine : machine[m] = "pooled"} \ {here}
        BY <1>1, <2>2, <2>3, <3>2
      <4> QED BY <2>1, <4>1, <4>2 DEF Members
    <3> QED BY <3>1, <3>2
  <2> QED BY <2>1, <2>4, FailNumbers DEF here
<1>5. ASSUME PassGate(r) PROVE Numbers'
  BY <1>5, PassNumbers
<1>6. ASSUME RefuseGate(r) PROVE Numbers'
  <2>1. /\ StepFails(r) /\ machine' = machine /\ assigned' = assigned /\ blind' = blind /\ raced' = raced
    BY <1>6 DEF RefuseGate
  <2> QED BY <1>21, <2>1, FailNumbers DEF here
<1>7. ASSUME NEW v \in {"loose", "none"}, run[r].phase = "cloning",
             machine' = [machine EXCEPT ![here] = v], assigned' = assigned
      PROVE  \A s \in Scope : Members(s)' = Members(s)
  <2>1. /\ \A m \in Machine : m # here => machine'[m] = machine[m]
        /\ machine'[here] # "pooled" /\ machine[here] # "pooled" /\ here \notin assigned
    BY <1>1, <1>2, <1>7
  <2>2. {m \in Machine : machine'[m] = "pooled"} = {m \in Machine : machine[m] = "pooled"}
    BY <2>1
  <2>3. (assigned \intersect Alive)' = assigned \intersect Alive
    BY <1>7, <2>1 DEF Alive
  <2> QED BY <2>2, <2>3 DEF Members
<1>8. ASSUME CloneOk(r) PROVE Numbers'
  <2> DEFINE ph == IF Provisioned(r) THEN "reading" ELSE "building"
  <2>1. /\ run[r].phase = "cloning" /\ run' = [run EXCEPT ![r].phase = ph]
        /\ machine' = [machine EXCEPT ![here] = "loose"]
        /\ assigned' = assigned /\ blind' = blind /\ raced' = raced
    BY <1>8 DEF CloneOk, here
  <2>2. ph \in Making
    BY <1>22
  <2> HIDE DEF ph
  <2>3. \A s \in Scope : Members(s)' = Members(s)
    BY <1>7, <2>1
  <2> QED BY <2>1, <2>2, <2>3, PhaseNumbers
<1>9. ASSUME NEW lost \in BOOLEAN, CloneFails(r, lost) PROVE Numbers'
  <2> DEFINE v == IF lost THEN "loose" ELSE "none"
  <2>1. /\ run[r].phase = "cloning" /\ StepFails(r)
        /\ machine' = [machine EXCEPT ![here] = v]
        /\ assigned' = assigned /\ blind' = blind /\ raced' = raced
    BY <1>9 DEF CloneFails, here
  <2>2. v \in {"loose", "none"}
    OBVIOUS
  <2> HIDE DEF v
  <2>3. \A s \in Scope : Members(s)' = Members(s)
    BY <1>7, <2>1, <2>2
  <2> QED BY <2>1, <2>3, FailNumbers
<1>10. ASSUME ReadOk(r) PROVE Numbers'
  <2>1. /\ run[r].phase = "reading" /\ run' = [run EXCEPT ![r].phase = "building"]
        /\ machine' = machine /\ assigned' = assigned /\ blind' = blind /\ raced' = raced
    BY <1>10 DEF ReadOk
  <2> QED BY <1>20, <1>22, <2>1, PhaseNumbers
<1>11. ASSUME ReadFails(r) PROVE Numbers'
  <2>1. /\ StepFails(r) /\ machine' = machine /\ assigned' = assigned /\ blind' = blind /\ raced' = raced
    BY <1>11 DEF ReadFails
  <2> QED BY <1>21, <2>1, FailNumbers DEF here
<1>12. ASSUME Place(r) PROVE Numbers'
  <2>1. /\ run[r].phase = "building" /\ machine[here] = "loose"
        /\ machine' = [machine EXCEPT ![here] = "pooled"] /\ Joins(r, {"pool", "fabric"})
        /\ run' = run /\ assigned' = assigned
    BY <1>12 DEF Place, here
  <2>2. machine'[here] = "pooled" /\ \A m \in Machine : m # here => machine'[m] = machine[m]
    BY <1>1, <2>1
  <2>3. Alive' = Alive
    BY <1>1, <2>1, <2>2 DEF Alive
  <2>4. \A s \in {"pool", "fabric"} : Members(s)' = Members(s) \union {here} /\ here \notin Members(s)
    BY <1>1, <2>1, <2>2 DEF Members
  <2>5. \A s \in Scope \ {"pool", "fabric"} : Members(s)' = Members(s)
    <3>1. Scope \ {"pool", "fabric"} = {"project"}
      BY DEF Scope
    <3> QED BY <2>1, <2>3, <3>1 DEF Members
  <2>6. Plan(r)' = Plan(r) /\ Here(r)' = Here(r)
    BY <2>1 DEF Plan, Here
  <2>7. \A s \in {"pool", "fabric"} : ~Through(r, s)'
    BY <2>4, <2>6 DEF Through, here
  <2>8. \A s \in Scope \ {"pool", "fabric"} : Through(r, s)' => Through(r, s)
    BY <2>1, <2>5, <2>6 DEF Through
  <2>9. Sums(r)' => /\ run[r].req.kind = "compose" /\ run[r].req.named /\ run[r].loaded
                    /\ run'[r].seen = run[r].seen
    BY <2>1 DEF Sums
  <2>10. {"pool", "fabric"} \in SUBSET Scope
    BY DEF Scope
  <2> QED BY <1>22, <2>1, <2>4, <2>5, <2>7, <2>8, <2>9, <2>10, JoinNumbers DEF here
<1>13. ASSUME Built(r) PROVE Numbers'
  <2>1. run[r].phase = "building"
    BY <1>13 DEF Built
  <2>2. CASE Many(r) /\ Plan(r).mode = "operating-system"
    <3>1. /\ run' = [run EXCEPT ![r].phase = "finishing"] /\ machine' = machine
          /\ assigned' = assigned /\ blind' = blind /\ raced' = raced
      BY <1>13, <2>2 DEF Built
    <3> QED BY <1>20, <1>22, <2>1, <3>1, PhaseNumbers
  <2>3. CASE ~(Many(r) /\ Plan(r).mode = "operating-system") /\ run[r].req.kind = "template"
    <3>1. /\ run' = [run EXCEPT ![r].phase = "recording"] /\ machine' = machine
          /\ assigned' = assigned /\ blind' = blind /\ raced' = raced
      BY <1>13, <2>3 DEF Built
    <3> QED BY <1>20, <1>22, <2>1, <3>1, PhaseNumbers
  <2>4. CASE ~(Many(r) /\ Plan(r).mode = "operating-system") /\ run[r].req.kind # "template"
    <3>1. Finished(r)
      BY <1>13, <2>4 DEF Built
    <3> QED BY <1>22, <2>1, <3>1, FinishedNumbers
  <2> QED BY <2>2, <2>3, <2>4
<1>14. ASSUME BuildFails(r) PROVE Numbers'
  <2>1. /\ run[r].phase = "building" /\ machine' = machine /\ assigned' = assigned
        /\ blind' = blind /\ raced' = raced
    BY <1>14 DEF BuildFails
  <2>2. CASE run[r].req.kind = "template"
    <3>1. StepFails(r)
      BY <1>14, <2>2 DEF BuildFails
    <3> QED BY <1>21, <2>1, <3>1, FailNumbers DEF here
  <2>3. CASE run[r].req.kind # "template"
    <3>1. run' = [run EXCEPT ![r].phase = "cleaning"]
      BY <1>14, <2>3 DEF BuildFails
    <3> QED BY <1>20, <1>22, <2>1, <3>1, PhaseNumbers
  <2> QED BY <2>2, <2>3
<1>15. ASSUME Finish(r) PROVE Numbers'
  <2>1. run[r].phase \in Making /\ Finished(r)
    BY <1>15, <1>22 DEF Finish
  <2> QED BY <2>1, FinishedNumbers
<1>16. ASSUME FinishFails(r) PROVE Numbers'
  <2>1. /\ StepFails(r) /\ machine' = machine /\ assigned' = assigned /\ blind' = blind /\ raced' = raced
    BY <1>16 DEF FinishFails
  <2> QED BY <1>21, <2>1, FailNumbers DEF here
<1>17. ASSUME Record(r) PROVE Numbers'
  <2>1. run[r].phase \in Making /\ Finished(r)
    BY <1>17, <1>22 DEF Record
  <2> QED BY <2>1, FinishedNumbers
<1> QED BY <1>3, <1>4, <1>5, <1>6, <1>8, <1>9, <1>10, <1>11, <1>12, <1>13, <1>14,
           <1>15, <1>16, <1>17 DEF Deploy

LEMMA BeginNumbers ==
  ASSUME Struct, Struct', Numbers, NEW r \in Run, NEW q \in Request, Begin(r, q)
  PROVE  Numbers'
<1> DEFINE many == q.kind \in {"compose", "catalog"}
           ph   == IF many THEN "planning" ELSE Entered(q, 1).phase
           todo == IF many THEN <<>> ELSE Entered(q, 1).todo
<1>1. /\ run[r].phase = "idle"
      /\ run' = [run EXCEPT ![r].req = q, ![r].phase = ph, ![r].todo = todo]
      /\ machine' = machine /\ assigned' = assigned /\ blind' = blind /\ raced' = raced
  BY DEF Begin
<1>2. ph = (IF many THEN "planning" ELSE Entered(q, 1).phase)
      /\ todo = (IF many THEN <<>> ELSE Entered(q, 1).todo)
  OBVIOUS
<1>3. run \in [Run -> RunType] /\ run[r] \in RunType
  BY Types DEF Struct
<1> HIDE DEF ph, todo
<1>4. /\ \A p \in Run \ {r} : run'[p] = run[p]
      /\ run'[r].phase = ph /\ run'[r].todo = todo /\ run'[r].req = q /\ run'[r].at = run[r].at
      /\ run'[r].loaded = run[r].loaded
  BY <1>1, <1>3 DEF RunType
<1>5. run[r].at = 1 /\ ~run[r].loaded
  BY <1>1, Untouched
<1>6. 1 \in 1..Len(q.plans)
  BY RequestFacts, StepFacts
<1>7. \A s \in Scope : ~Through(r, s)'
  <2>1. CASE ~many
    <3>1. run'[r].phase = Entered(q, 1).phase /\ run'[r].todo = Entered(q, 1).todo
          /\ run'[r].req = q /\ run'[r].at = 1
      BY <1>2, <1>4, <1>5, <2>1
    <3> HIDE DEF many
    <3> QED BY <1>6, <3>1, EnteredAway
  <2>2. CASE many
    <3>1. run'[r].phase = "planning"
      BY <1>2, <1>4, <2>2
    <3> QED BY <3>1 DEF Through, Making
  <2> QED BY <2>1, <2>2
<1>8. ~Sums(r)'
  BY <1>4, <1>5 DEF Sums
<1>9. \A s \in Scope : Members(s)' = Members(s)
  BY <1>1 DEF Members, Alive
<1> QED BY <1>1, <1>4, <1>7, <1>8, <1>9, Quiet

LEMMA DeleteNumbers ==
  ASSUME Struct, Struct', Numbers, NEW m \in Machine, Delete(m)
  PROVE  Numbers'
<1>1. /\ m \in Alive /\ \A r \in InFlight : Here(r) # m
      /\ machine' = [machine EXCEPT ![m] = "gone"]
      /\ run' = run /\ assigned' = assigned /\ blind' = blind /\ raced' = raced
  BY DEF Delete
<1>2. machine \in [Machine -> {"none", "loose", "pooled", "gone"}]
  BY Types DEF Struct
<1>3. machine'[m] = "gone" /\ \A x \in Machine : x # m => machine'[x] = machine[x]
  BY <1>1, <1>2
<1>4. Alive' = Alive \ {m}
  BY <1>3 DEF Alive
<1>5. {x \in Machine : machine'[x] = "pooled"} = {x \in Machine : machine[x] = "pooled"} \ {m}
  BY <1>3
<1>6. \A s \in Scope : Members(s)' = Members(s) \ {m}
  BY <1>1, <1>4, <1>5 DEF Members
<1>7. ASSUME NEW r \in Run, NEW s \in Scope, Through(r, s)' PROVE Through(r, s)
  <2>1. Here(r)' = Here(r) /\ Plan(r)' = Plan(r) /\ run'[r] = run[r]
    BY <1>1 DEF Here, Plan
  <2>2. Here(r) # m
    <3>1. r \in InFlight
      BY <1>7, <2>1 DEF InFlight, Through, Making
    <3> QED BY <1>1, <3>1
  <2> QED BY <1>6, <1>7, <2>1, <2>2 DEF Through
<1>8. \A r \in Run : Sums(r)' => Sums(r) /\ run'[r].seen = run[r].seen
  BY <1>1 DEF Sums
<1> QED BY <1>1, <1>6, <1>7, <1>8, CountStay

LEMMA CrashNumbers ==
  ASSUME Struct, Struct', Numbers, Crash
  PROVE  Numbers'
<1>1. /\ run' = [r \in Run |-> IF r \in InFlight THEN [run[r] EXCEPT !.phase = "crashed"] ELSE run[r]]
      /\ machine' = machine /\ assigned' = assigned /\ blind' = blind /\ raced' = raced
  BY DEF Crash
<1>2. run \in [Run -> RunType]
  BY Types DEF Struct
<1>3. ASSUME NEW r \in Run PROVE run'[r].phase \notin Making \union {"gating", "cloning"}
  <2>1. CASE r \in InFlight
    <3>1. run'[r].phase = "crashed"
      BY <1>1, <1>2, <2>1 DEF RunType
    <3> QED BY <3>1 DEF Making
  <2>2. CASE r \notin InFlight
    BY <1>1, <2>2 DEF InFlight, Making
  <2> QED BY <2>1, <2>2
<1>4. \A r \in Run : (\A s \in Scope : ~Through(r, s)') /\ ~Sums(r)'
  BY <1>3 DEF Through, Sums
<1>5. \A s \in Scope : Members(s)' = Members(s)
  BY <1>1 DEF Members, Alive
<1> QED BY <1>1, <1>4, <1>5, CountStay

LEMMA StayNumbers ==
  ASSUME Struct, Struct', Numbers, UNCHANGED <<run, machine, assigned, blind, raced>>
  PROVE  Numbers'
<1>1. /\ run' = run /\ machine' = machine /\ assigned' = assigned /\ blind' = blind /\ raced' = raced
  OBVIOUS
<1>2. \A s \in Scope : Members(s)' = Members(s)
  BY <1>1 DEF Members, Alive
<1>3. \A r \in Run, s \in Scope : Through(r, s)' => Through(r, s)
  BY <1>1, <1>2 DEF Through, Here, Plan
<1>4. \A r \in Run : Sums(r)' => Sums(r) /\ run'[r].seen = run[r].seen
  BY <1>1 DEF Sums
<1> QED BY <1>1, <1>2, <1>3, <1>4, CountStay

LEMMA InitNumbers == Init => Numbers
<1> SUFFICES ASSUME Init PROVE Numbers
  OBVIOUS
<1>1. ASSUME NEW s \in Scope PROVE Members(s) = {}
  BY DEF Init, Members, Alive
<1>2. \A s \in Scope : Count(s) = 0
  BY <1>1, FS_EmptySet DEF Count
<1>3. QuotaHeld
  BY <1>2, LimitAssumption DEF QuotaHeld
<1>4. \A r \in Run : run[r].phase = "idle"
  BY DEF Init
<1>5. Room /\ SumOK
  BY <1>4 DEF Room, SumOK, Through, Making
<1> QED BY <1>3, <1>5 DEF Numbers

-----------------------------------------------------------------------------
(* DeployInv is inductive: deployments of any number, interleaved with     *)
(* each other, with deletions and with crashes, keep it.                   *)
THEOREM DeployInvariant == Spec => []DeployInv
<1>1. Init => DeployInv
  BY InitStruct, InitNumbers DEF DeployInv
<1>2. DeployInv /\ [Next]_vars => DeployInv'
  <2> SUFFICES ASSUME DeployInv, [Next]_vars PROVE DeployInv'
    OBVIOUS
  <2>1. Struct /\ Numbers
    BY DEF DeployInv
  <2>2. Struct'
    BY <2>1, NextSound
  <2>3. ASSUME NEW r \in Run, Deploy(r) PROVE Numbers'
    BY <2>1, <2>2, <2>3, DeployNumbers
  <2>4. ASSUME NEW r \in Run, NEW q \in Request, Begin(r, q) PROVE Numbers'
    BY <2>1, <2>2, <2>4, BeginNumbers
  <2>5. ASSUME NEW m \in Machine, Delete(m) PROVE Numbers'
    BY <2>1, <2>2, <2>5, DeleteNumbers
  <2>6. ASSUME Crash PROVE Numbers'
    BY <2>1, <2>2, <2>6, CrashNumbers
  <2>7. ASSUME UNCHANGED vars PROVE Numbers'
    BY <2>1, <2>2, <2>7, StayNumbers DEF vars
  <2>8. ASSUME NEW r \in Run, NEW status \in {"pending", "success", "warning", "failure"},
               Review(r, status)
        PROVE  Numbers'
    BY <2>1, <2>2, <2>8, StayNumbers DEF Review
  <2>9. Numbers'
    BY <2>3, <2>4, <2>5, <2>6, <2>7, <2>8 DEF Next
  <2> QED BY <2>2, <2>9 DEF DeployInv
<1> QED BY <1>1, <1>2, PTL DEF Spec

(* The variables keep their types.                                         *)
THEOREM DeployTyped == Spec => []TypeOK
<1>1. DeployInv => TypeOK
  BY DEF DeployInv, Struct
<1> QED BY <1>1, DeployInvariant, PTL

(* A quota of machines is exceeded only by one that joined its scope       *)
(* unchecked, its plan naming no host or its host's record no pool, or on  *)
(* a count older than another machine's arrival, for any number of         *)
(* deployments, plans and machines: the gates, the engine's sums and the   *)
(* clean-ups of deployment-engine.js do not.                               *)
THEOREM QuotaIsHeld == Spec => []QuotaHeld
<1>1. DeployInv => QuotaHeld
  BY DEF DeployInv, Numbers
<1> QED BY <1>1, DeployInvariant, PTL

(* Every machine that a deployment made and that still exists is being     *)
(* worked on, was reported as a success, or was left by a failure that the *)
(* code does not clean up after.                                           *)
THEOREM EveryMachineAccounted == Spec => []Accounted
<1>1. DeployInv => Accounted
  <2> SUFFICES ASSUME Struct, NEW r \in Run, NEW k \in Step, <<r, k>> \in Alive
               PROVE  \/ r \in InFlight /\ k <= run[r].at
                      \/ run[r].phase = "ended" /\ run[r].step[k] = "success"
                      \/ cause[<<r, k>>] # "none"
    <3>1. \A m \in Alive : m = <<m[1], m[2]>> /\ m[1] \in Run /\ m[2] \in Step
      BY DEF Alive, Machine
    <3> QED BY <3>1 DEF Accounted, DeployInv
  <2>1. /\ run[r] \in RunType /\ Sound(r) /\ run[r].at \in Nat /\ k \in Nat
        /\ machine[<<r, k>>] \in {"loose", "pooled"}
    BY RunFacts, StepFacts DEF Alive
  <2>2. StepOK(r, k) /\ MachineOK(r, k)
    BY <2>1 DEF Sound
  <2>3. k <= run[r].at
    BY <2>1, <2>2 DEF MachineOK
  <2>4. CASE r \in InFlight
    BY <2>3, <2>4
  <2>5. CASE run[r].phase = "idle"
    <3>1. machine[<<r, k>>] = "none"
      BY <2>5, Untouched
    <3> QED BY <2>1, <3>1
  <2>6. CASE run[r].phase \in {"refused", "crashed"}
    BY <2>1, <2>2, <2>6 DEF MachineOK
  <2>7. CASE run[r].phase = "ended"
    <3>1. run[r].step[k] \in {"success", "failure"}
      BY <2>1, <2>2, <2>3, <2>7 DEF StepOK
    <3> QED BY <2>1, <2>2, <2>7, <3>1 DEF MachineOK
  <2> QED BY <2>4, <2>5, <2>6, <2>7 DEF InFlight
<1> QED BY <1>1, DeployInvariant, PTL

(* A row of deployment_runs tells the truth about the machine of each plan *)
(* of its spec.                                                            *)
THEOREM RowIsTrue == Spec => []RowTrue
<1>1. DeployInv => RowTrue
  <2> SUFFICES ASSUME Struct, NEW r \in Run, row[r] # "none", NEW k \in 1..Len(run[r].req.plans)
               PROVE  LET m == <<r, k>>
                      IN CASE run[r].step[k] = "success" ->
                                machine[m] \in {"loose", "pooled", "gone"} /\ cause[m] = "none"
                                /\ (run[r].req.project => m \in assigned)
                           [] run[r].step[k] = "failure" ->
                                m \notin assigned /\ (m \in Alive => cause[m] # "none")
                           [] run[r].step[k] = "skipped" -> machine[m] = "none"
                           [] OTHER -> FALSE
    BY DEF RowTrue, DeployInv
  <2>1. k \in Step
    <3>1. Len(run[r].req.plans) \in Step
      BY RunFacts, RequestFacts
    <3> QED BY <3>1, StepFacts DEF Step
  <2>2. /\ Sound(r) /\ run[r].at \in Nat /\ k \in Nat /\ <<r, k>> \in Machine
        /\ machine[<<r, k>>] \in {"none", "loose", "pooled", "gone"}
    BY <2>1, RunFacts, StepFacts, Types DEF Struct, Machine
  <2>3. StepOK(r, k) /\ MachineOK(r, k) /\ run[r].phase = "ended"
    BY <2>1, <2>2 DEF Sound, RowOK
  <2>4. run[r].step[k] \in {"success", "failure", "skipped"}
    BY <2>2, <2>3 DEF StepOK
  <2>5. CASE run[r].step[k] = "success"
    BY <2>2, <2>3, <2>5 DEF MachineOK
  <2>6. CASE run[r].step[k] = "failure"
    BY <2>2, <2>3, <2>6 DEF MachineOK, Alive
  <2>7. CASE run[r].step[k] = "skipped"
    BY <2>2, <2>3, <2>7 DEF MachineOK, StepOK
  <2> QED BY <2>4, <2>5, <2>6, <2>7
<1> QED BY <1>1, DeployInvariant, PTL

(* Each big machine of a project used up an approval of its own, but those *)
(* an admin's session asked for, which need none.                          *)
THEOREM ApprovalForEach == Spec => []ApprovalEach
<1>1. DeployInv => ApprovalEach
  BY DEF DeployInv, Struct, Sound, Bought, ApprovalEach
<1> QED BY <1>1, DeployInvariant, PTL

(* StopsAtFailure of one deployment.                                       *)
StopsHere(r) ==
  LET n    == Len(run[r].req.plans)
      good == {k \in 1..n : run[r].step[k] = "success"}
  IN /\ \A k \in good : \A j \in 1..k : j \in good
     /\ IF Many(r)
        THEN row[r] = IF good = 1..n THEN "success"
                      ELSE IF good = {} THEN "failure" ELSE "warning"
        ELSE run[r].req.kind = "template" /\ good = 1..n

(* A run stops at its first failure; the row of a spec says how far it     *)
(* came, and the row of a template is there only for a machine that is     *)
(* complete, whatever it is judged to be.                                  *)
THEOREM StopsAtFirstFailure == Spec => []StopsAtFailure
<1>1. DeployInv => StopsAtFailure
  <2> SUFFICES ASSUME Struct, NEW r \in Run, row[r] # "none" PROVE StopsHere(r)
    BY DEF StopsAtFailure, StopsHere, DeployInv
  <2> SUFFICES ASSUME NEW n, n = Len(run[r].req.plans),
                      NEW good, good = {k \in 1..n : run[r].step[k] = "success"}
               PROVE  /\ \A k \in good : \A j \in 1..k : j \in good
                      /\ IF Many(r)
                         THEN row[r] = IF good = 1..n THEN "success"
                                       ELSE IF good = {} THEN "failure" ELSE "warning"
                         ELSE run[r].req.kind = "template" /\ good = 1..n
    BY Zenon DEF StopsHere
  <2>1. /\ Sound(r) /\ run[r].at \in 1..n /\ n \in Nat /\ n \in Step /\ run[r].at \in Step
    BY RunFacts, RequestFacts, StepFacts
  <2> DEFINE at == run[r].at
  <2>2. /\ run[r].phase = "ended" /\ at \in Nat
        /\ IF Many(r)
           THEN row[r] = IF run[r].step[at] = "success" THEN "success"
                         ELSE IF at > 1 THEN "warning" ELSE "failure"
           ELSE run[r].req.kind = "template" /\ run[r].step[at] = "success"
    BY <2>1 DEF Sound, RowOK
  <2>3. ASSUME NEW k \in 1..n
        PROVE  /\ k \in Nat
               /\ k < at => run[r].step[k] = "success"
               /\ k > at => run[r].step[k] = "skipped"
               /\ k = at => run[r].step[k] = "failure" \/ (run[r].step[k] = "success" /\ k = n)
    <3>1. k \in Step
      BY <2>1, StepFacts DEF Step
    <3>2. StepOK(r, k)
      BY <2>1, <3>1 DEF Sound
    <3>3. k <= n /\ k \in Nat
      BY <2>1
    <3>4. k <= Len(run[r].req.plans)
      BY <3>3
    <3>5. k < at => run[r].step[k] = "success"
      BY <3>2 DEF StepOK
    <3>6. k > at => run[r].step[k] = "skipped"
      BY <2>2, <3>2, <3>4 DEF StepOK
    <3>7. k = at => run[r].step[k] = "failure" \/ (run[r].step[k] = "success" /\ k = n)
      BY <2>2, <3>2 DEF StepOK
    <3> QED BY <3>3, <3>5, <3>6, <3>7
  <2> HIDE DEF at
  <2>4. at \in 1..n
    BY <2>1 DEF at
  <2>5. CASE run[r].step[at] = "success"
    <3>1. at = n
      BY <2>3, <2>4, <2>5
    <3>2. good = 1..n
      BY <2>1, <2>2, <2>3, <2>5, <3>1
    <3> QED BY <2>1, <2>2, <2>5, <3>2
  <2>6. CASE run[r].step[at] # "success"
    <3>1. \A k \in 1..n : k \in good <=> k < at
      BY <2>2, <2>3, <2>6
    <3>2. \A k \in good : k \in 1..n
      OBVIOUS
    <3>3. \A k \in good : \A j \in 1..k : j \in good
      BY <2>1, <2>2, <2>4, <3>1, <3>2
    <3>4. good # 1..n
      BY <2>2, <2>4, <3>1
    <3>5. good = {} <=> ~(at > 1)
      BY <2>1, <2>2, <2>4, <3>1, <3>2
    <3> QED BY <2>2, <2>6, <3>3, <3>4, <3>5
  <2> QED BY <2>5, <2>6
<1> QED BY <1>1, DeployInvariant, PTL
=============================================================================
