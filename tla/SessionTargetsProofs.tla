----------------------- MODULE SessionTargetsProofs -----------------------
(***************************************************************************)
(* Proofs about SessionTargets, for any targets, servers, session          *)
(* references, roles, number of elevations and requests in flight.         *)
(*                                                                         *)
(* SessionInv is inductive.  OwnSession is needed for ServedAlive: a       *)
(* detached target's session is no other target's because each session is  *)
(* owned by one target.  That an object carries the reference of the       *)
(* server it calls rests on LiveIsStored: rehydration then leaves the      *)
(* reference of an object that exists as it is.  EndedIssued says that a session the server is     *)
(* about to hand out has not been logged out, and CoherentSeen that what a *)
(* request may still write back is as coherent as the row.  RoleInv says   *)
(* of each row, stored or held by a request, that its role is one the      *)
(* account covers or its elevation has one to go back to (RowOK).          *)
(***************************************************************************)
EXTENDS SessionTargets, TLAPS

EndedIssued == \A r \in ended : owner[r] # None

CoherentSeen == \A c \in Client : Coherent(seen[c])

Served == ~overlapped => \A k \in Attached(stored) : stored.ref[k] \notin ended

RowOK(record) ==
  /\ record.glass # 0 => prior[record.glass] # None
  /\ record.glass = 0 => record.role \in Allowed \/ renewed

RoleInv ==
  /\ RowOK(stored) /\ \A c \in Client : RowOK(seen[c])
  /\ \A c \in reverting : seen[c].glass # 0
  /\ \A e \in Elevation : prior[e] = None \/ prior[e] \in Allowed \/ renewed
  /\ \A e \in stood : prior[e] # None
  /\ ~overlapped => stored.glass \notin stood

SessionInv ==
  /\ TypeOK /\ OwnSession /\ EndedIssued /\ Served /\ LiveIsStored
  /\ ActiveAttached /\ CoherentSeen /\ RoleInv

LEMMA Elevations == Elevation \subseteq Nat /\ 0 \notin Elevation /\ 0..ElevationBound = Elevation \union {0}
BY RoleAssumption DEF Elevation

LEMMA EmptyRow ==
  /\ Empty \in Record /\ Empty.active = None /\ Empty.glass = 0
  /\ \A k \in Target : Empty.ref[k] = None
  /\ Coherent(Empty) /\ RowOK(Empty)
  BY RoleAssumption DEF Empty, Record, Coherent, Attached, Role, RowOK

(* An elevation that ends leaves the targets of a row as they are, and a   *)
(* role it can go back to.                                                 *)
LEMMA RevertedRow ==
  ASSUME TypeOK, RoleInv, NEW record \in Record, RowOK(record), record.glass # 0
  PROVE  /\ Reverted(record) \in Record /\ RowOK(Reverted(record))
         /\ Reverted(record).ref = record.ref /\ Reverted(record).active = record.active
         /\ Reverted(record).glass = 0
<1>1. record.glass \in Elevation
  BY Elevations DEF Record
<1>2. prior[record.glass] \in Role /\ (prior[record.glass] \in Allowed \/ renewed)
  BY <1>1 DEF TypeOK, RoleInv, RowOK
<1> QED BY <1>2, Elevations DEF Reverted, Record, RowOK

(* So does the look at it that every request takes.                        *)
LEMMA CurrentRow ==
  ASSUME TypeOK, RoleInv, NEW record \in Record, RowOK(record)
  PROVE  /\ Current(record) \in Record /\ RowOK(Current(record))
         /\ Current(record).ref = record.ref /\ Current(record).active = record.active
         /\ Current(record).glass \in {0, record.glass}
BY RevertedRow DEF Current, Lapsed

LEMMA HeldRow ==
  ASSUME TypeOK, RoleInv, NEW c \in Client
  PROVE  /\ Held(c) \in Record /\ RowOK(Held(c))
         /\ Held(c).ref = seen[c].ref /\ Held(c).active = seen[c].active
         /\ Held(c).glass \in {0, seen[c].glass}
<1>1. seen[c] \in Record /\ RowOK(seen[c]) /\ (c \in reverting => seen[c].glass # 0)
  BY DEF TypeOK, RoleInv
<1> QED BY <1>1, RevertedRow DEF Held

(* Rows with the same targets are as coherent.                             *)
LEMMA CoherentSame ==
  ASSUME NEW one, NEW other, one.ref = other.ref, one.active = other.active, Coherent(one)
  PROVE  Coherent(other)
BY DEF Coherent, Attached

(* A step after which no elevation is begun or ended before its time.      *)
LEMMA RoleKept ==
  ASSUME SessionInv, UNCHANGED elevation, stored' \in Record, RowOK(stored'),
         ~overlapped' => ~overlapped /\ stored'.glass \in {0, stored.glass},
         \A c \in Client : seen'[c] \in {Empty, seen[c], stored},
         reverting' \subseteq Client, \A c \in reverting' : seen'[c].glass # 0
  PROVE  RoleInv'
<1>1. \A c \in Client : RowOK(seen'[c])
  BY EmptyRow DEF SessionInv, RoleInv
<1>2. UNCHANGED <<prior, lapsed, renewed, stood>>
  BY DEF elevation
<1>3. 0 \notin stood
  BY Elevations DEF SessionInv, TypeOK
<1> QED BY <1>1, <1>2, <1>3 DEF SessionInv, RoleInv, RowOK

(* Rehydration leaves every stored target with an object that carries its  *)
(* reference, and the others as they were.                                 *)
LEMMA RehydratedKeys ==
  ASSUME TypeOK, NEW record \in Record
  PROVE  /\ Rehydrated(record) \in [Target -> Ref \union {None}]
         /\ Dialled(record) \in [Target -> Server \union {None}]
         /\ \A k \in Target :
              /\ Rehydrated(record)[k] = IF record.ref[k] = None THEN live[k] ELSE record.ref[k]
              /\ Dialled(record)[k] = IF record.ref[k] # None /\ live[k] = None
                                      THEN server[record.ref[k]] ELSE dials[k]
<1>1. \A k \in Target : record.ref[k] \in Ref \union {None}
  BY DEF Record
<1> QED BY <1>1 DEF Rehydrated, Dialled, TypeOK

(* What a step without a login makes of an object: it goes, stays, or is   *)
(* rehydrated from the row.                                                *)
ObjectKept(k) ==
  \/ live'[k] = None
  \/ live'[k] = live[k] /\ dials'[k] = dials[k]
  \/ /\ present /\ stored.ref[k] # None /\ live'[k] = stored.ref[k]
     /\ dials'[k] = IF live[k] = None THEN server[stored.ref[k]] ELSE dials[k]

LEMMA RehydrateKeeps ==
  ASSUME TypeOK, present, Rehydrate(stored)
  PROVE  /\ live' \in [Target -> Ref \union {None}] /\ dials' \in [Target -> Server \union {None}]
         /\ \A k \in Target : ObjectKept(k)
<1>1. stored \in Record
  BY DEF TypeOK
<1> QED BY <1>1, RehydratedKeys DEF Rehydrate, ObjectKept

(* persistSessionTargets() picks an attached target, or none if there is   *)
(* none.                                                                   *)
LEMMA ResolvedKey ==
  ASSUME NEW ref, NEW key, NEW a \in Resolved(ref, key)
  PROVE  /\ a \in Target \union {None}
         /\ a = None \/ ref[a] # None
         /\ a = None /\ None \notin Target => \A k \in Target : ref[k] = None
  BY DEF Resolved

-----------------------------------------------------------------------------
(* The end of a request leaves the others in flight.                       *)
LEMMA FinishLeaves ==
  ASSUME TypeOK, NEW c \in Client, Finish(c)
  PROVE  /\ seen' \in [Client -> Record] /\ doing' \in [Client -> Target \union {"idle", "other"}]
         /\ \A d \in Client : seen'[d] \in {Empty, seen[d]}
         /\ CoherentSeen => CoherentSeen'
         /\ reverting' \subseteq Client
         /\ (\A d \in reverting : seen[d].glass # 0) => \A d \in reverting' : seen'[d].glass # 0
<1>1. /\ seen' \in [Client -> Record] /\ doing' \in [Client -> Target \union {"idle", "other"}]
      /\ \A d \in Client : seen'[d] \in {Empty, seen[d]}
      /\ reverting' = reverting \ {c} /\ \A d \in Client \ {c} : seen'[d] = seen[d]
  BY EmptyRow DEF TypeOK, Finish
<1>2. CoherentSeen' <=> \A d \in Client : Coherent(seen'[d])
  BY DEF CoherentSeen, Coherent, Attached
<1> QED BY <1>1, <1>2, EmptyRow DEF CoherentSeen, TypeOK

(* The initial state satisfies the invariant.                              *)
LEMMA SessionInit == Init => SessionInv
<1> SUFFICES ASSUME Init PROVE SessionInv
  OBVIOUS
<1>1. TypeOK
  BY EmptyRow, RoleAssumption DEF Init, TypeOK, Record, Elevation
<1>2. \A k \in Target : stored.ref[k] = None /\ live[k] = None
                        /\ \A c \in Client : seen[c].ref[k] = None
  BY EmptyRow DEF Init
<1>3. ActiveAttached
  BY EmptyRow DEF Init, ActiveAttached
<1>4. CoherentSeen
  BY EmptyRow DEF Init, CoherentSeen
<1>5. RoleInv
  BY EmptyRow DEF Init, RoleInv
<1> QED BY <1>1, <1>2, <1>3, <1>4, <1>5 DEF SessionInv, OwnSession, OwnKey, OwnServer,
                                          Matching, EndedIssued, Served,
                                          LiveIsStored, Init, Attached

-----------------------------------------------------------------------------
(* A successful connect keeps the invariant: the reference is new, so it   *)
(* was not logged out, and it is owned by the target it is stored for.     *)
LEMMA ConnectOkKeeps ==
  ASSUME SessionInv, NEW c \in Client, NEW r \in Ref, NEW at \in Server,
         ConnectOk(c, r, at)
  PROVE  SessionInv'
<1> DEFINE k == doing[c]
           held == Current(Held(c))
           record == [held EXCEPT !.ref[k] = r, !.active = k]
<1>0. TypeOK /\ RoleInv /\ k \in Target /\ r # None /\ k # None /\ seen[c] \in Record
  BY SessionAssumption DEF SessionInv, ConnectOk, TypeOK
<1>a. /\ held \in Record /\ RowOK(held) /\ held.ref = seen[c].ref
      /\ held.glass \in {0, seen[c].glass}
  BY <1>0, HeldRow, CurrentRow
<1>2. /\ stored' = record /\ present' = TRUE /\ live' = Rehydrated(record)
      /\ dials' = [Dialled(record) EXCEPT ![k] = at] /\ server' = [server EXCEPT ![r] = at]
      /\ owner' = [owner EXCEPT ![r] = k] /\ ended' = ended /\ owner[r] = None
      /\ overlapped' = (overlapped \/ ~present \/ stored # seen[c])
      /\ UNCHANGED elevation
  BY DEF ConnectOk, Save
<1> HIDE DEF held
<1>1. record \in Record /\ record.glass = held.glass /\ record.role = held.role
      /\ record.active = k
  BY <1>0, <1>a DEF Record
<1>3. \A j \in Target : record.ref[j] = IF j = k THEN r ELSE seen[c].ref[j]
  BY <1>0, <1>a DEF Record
<1>4. /\ live' \in [Target -> Ref \union {None}] /\ dials' \in [Target -> Server \union {None}]
      /\ \A j \in Target :
           /\ live'[j] = IF record.ref[j] = None THEN live[j] ELSE record.ref[j]
           /\ dials'[j] = IF j = k THEN at ELSE IF record.ref[j] # None /\ live[j] = None
                                              THEN server[record.ref[j]] ELSE dials[j]
  BY <1>0, <1>1, <1>2, RehydratedKeys
<1>5. /\ seen' \in [Client -> Record] /\ doing' \in [Client -> Target \union {"idle", "other"}]
      /\ \A d \in Client, j \in Target :
           seen'[d].ref[j] \in {None, seen[d].ref[j]}
      /\ CoherentSeen'
      /\ \A d \in Client : seen'[d] \in {Empty, seen[d]}
      /\ reverting' \subseteq Client /\ \A d \in reverting' : seen'[d].glass # 0
  BY <1>0, FinishLeaves, EmptyRow DEF ConnectOk, SessionInv, RoleInv
<1>6. TypeOK'
  BY <1>0, <1>1, <1>2, <1>4, <1>5 DEF TypeOK, elevation
<1>7. \A s \in Ref : owner[s] # None => owner'[s] = owner[s] /\ server'[s] = server[s] /\ s # r
  BY <1>2, <1>0 DEF TypeOK
<1>8. \A j \in Target : /\ stored.ref[j] \in Ref \union {None} /\ live[j] \in Ref \union {None}
                        /\ \A d \in Client : seen[d].ref[j] \in Ref \union {None}
  BY <1>0 DEF TypeOK, Record
<1>9. owner'[r] = k /\ server'[r] = at /\ k \in Target /\ \A j \in Target : j # None
  BY <1>0, <1>2, SessionAssumption DEF TypeOK
<1> HIDE DEF record, k
<1>10. OwnKey'
  <2>1. ASSUME NEW j \in Target PROVE stored'.ref[j] # None => owner'[stored'.ref[j]] = j
    BY <1>2, <1>3, <1>7, <1>8, <1>9 DEF SessionInv, OwnSession, OwnKey
  <2>2. ASSUME NEW j \in Target PROVE live'[j] # None => owner'[live'[j]] = j
    BY <1>2, <1>3, <1>4, <1>7, <1>8, <1>9 DEF SessionInv, OwnSession, OwnKey
  <2>3. ASSUME NEW j \in Target, NEW d \in Client
        PROVE seen'[d].ref[j] # None => owner'[seen'[d].ref[j]] = j
    BY <1>5, <1>7, <1>8, <1>9 DEF SessionInv, OwnSession, OwnKey
  <2> QED BY <2>1, <2>2, <2>3 DEF OwnKey
<1>17. OwnServer'
  <2> SUFFICES ASSUME NEW j \in Target, live'[j] # None
               PROVE  \E s \in Ref : owner'[s] = j /\ server'[s] = dials'[j]
    BY DEF OwnServer
  <2>1. CASE j = k
    BY <1>4, <1>9, <2>1
  <2>2. CASE j # k /\ live[j] # None
    <3>1. PICK s \in Ref : owner[s] = j /\ server[s] = dials[j]
      BY <2>2 DEF SessionInv, OwnSession, OwnServer
    <3> QED BY <1>4, <1>7, <1>9, <2>2, <3>1
  <2>3. CASE j # k /\ live[j] = None
    <3>1. record.ref[j] # None /\ record.ref[j] = seen[c].ref[j] /\ seen[c].ref[j] \in Ref
      BY <1>3, <1>4, <1>8, <2>3
    <3>2. owner[seen[c].ref[j]] = j
      BY <3>1 DEF SessionInv, OwnSession, OwnKey
    <3> QED BY <1>4, <1>7, <1>9, <2>3, <3>1, <3>2
  <2> QED BY <2>1, <2>2, <2>3
<1>18. ASSUME ~overlapped' PROVE Matching'
  <2>1. present /\ ~overlapped /\ stored = seen[c] /\ LiveIsStored /\ Matching /\ OwnKey
    BY <1>2, <1>18 DEF SessionInv, OwnSession
  <2> SUFFICES ASSUME NEW j \in Target, live'[j] # None PROVE server'[live'[j]] = dials'[j]
    BY DEF Matching
  <2>2. CASE j = k
    BY <1>0, <1>3, <1>4, <1>9, <2>2
  <2>3. CASE j # k
    <3>1. live[j] \in {None, stored.ref[j]} /\ record.ref[j] = stored.ref[j]
      BY <1>3, <2>1, <2>3 DEF LiveIsStored
    <3>2. live'[j] = stored.ref[j] /\ stored.ref[j] \in Ref /\ owner[stored.ref[j]] = j
      BY <1>4, <1>8, <2>1, <3>1 DEF OwnKey
    <3>3. server'[live'[j]] = server[stored.ref[j]]
      BY <1>7, <1>9, <3>2
    <3>4. live[j] # None => server[live[j]] = dials[j]
      BY <2>1 DEF Matching
    <3> QED BY <1>4, <2>3, <3>1, <3>2, <3>3, <3>4
  <2> QED BY <2>2, <2>3
<1>11. EndedIssued'
  BY <1>0, <1>2, <1>7 DEF SessionInv, EndedIssued, TypeOK
<1>12. r \notin ended
  BY <1>2 DEF SessionInv, EndedIssued
<1>13. Served'
  BY <1>2, <1>3, <1>12 DEF SessionInv, Served, Attached
<1>14. LiveIsStored'
  <2>1. ASSUME ~overlapped', NEW j \in Target, record.ref[j] = None PROVE live'[j] = None
    <3>1. present /\ ~overlapped /\ stored = seen[c]
      BY <1>2, <2>1
    <3>2. stored.ref[j] = None
      BY <1>0, <1>3, <2>1, <3>1
    <3> QED BY <1>4, <2>1, <3>1, <3>2 DEF SessionInv, LiveIsStored
  <2> QED BY <1>2, <1>4, <2>1 DEF LiveIsStored
<1>15. ActiveAttached'
  <2>1. record.active = k
    BY <1>1
  <2>2. k \in Attached(record)
    BY <1>0, <1>3 DEF Attached
  <2> QED BY <1>2, <2>1, <2>2 DEF ActiveAttached, Coherent, Attached
<1>16. RoleInv'
  <2>1. RowOK(record)
    BY <1>1, <1>a DEF RowOK
  <2>2. ~overlapped' => ~overlapped /\ record.glass \in {0, stored.glass}
    BY <1>1, <1>2, <1>a
  <2> QED BY <1>1, <1>2, <1>5, <2>1, <2>2, RoleKept
<1> QED BY <1>5, <1>6, <1>10, <1>11, <1>13, <1>14, <1>15, <1>16, <1>17, <1>18
    DEF SessionInv, OwnSession

-----------------------------------------------------------------------------
(* Every other step moves references about without making new ones.        *)
LEMMA OwnKept ==
  ASSUME SessionInv, UNCHANGED issued, overlapped => overlapped',
         \A k \in Target : /\ ObjectKept(k)
                          /\ \/ stored'.ref[k] \in {None, stored.ref[k]}
                             \/ \E c \in Client : stored'.ref[k] = seen[c].ref[k]
                          /\ \A c \in Client :
                               seen'[c].ref[k] \in {None, seen[c].ref[k], stored.ref[k]}
  PROVE  OwnSession'
<1>1. ASSUME NEW k \in Target
      PROVE  /\ stored.ref[k] # None => owner[stored.ref[k]] = k
             /\ live[k] # None => owner[live[k]] = k
             /\ \A c \in Client : seen[c].ref[k] # None => owner[seen[c].ref[k]] = k
             /\ stored.ref[k] \in Ref \union {None}
  BY DEF SessionInv, OwnSession, OwnKey, TypeOK, Record
<1>2. UNCHANGED <<owner, server>>
  BY DEF issued
<1>3. OwnKey'
  BY <1>1, <1>2 DEF OwnKey, ObjectKept
<1>4. ASSUME NEW k \in Target, live'[k] # None
      PROVE  \E r \in Ref : owner'[r] = k /\ server'[r] = dials'[k]
  <2>1. CASE live[k] # None /\ dials'[k] = dials[k]
    BY <1>2, <2>1 DEF SessionInv, OwnSession, OwnServer
  <2>2. CASE live[k] = None \/ dials'[k] # dials[k]
    BY <1>1, <1>2, <1>4, <2>2 DEF ObjectKept
  <2> QED BY <2>1, <2>2
<1>5. ASSUME ~overlapped', NEW k \in Target, live'[k] # None
      PROVE  server'[live'[k]] = dials'[k]
  <2>1. ~overlapped /\ (live[k] # None => server[live[k]] = dials[k])
    BY <1>5 DEF SessionInv, OwnSession, Matching
  <2>2. present => live[k] \in {None, stored.ref[k]}
    BY <2>1 DEF SessionInv, LiveIsStored
  <2> QED BY <1>2, <1>5, <2>1, <2>2 DEF ObjectKept
<1> QED BY <1>3, <1>4, <1>5 DEF OwnSession, OwnServer, Matching

(* A step that leaves the targets of the row, the references and the       *)
(* logouts alone.                                                          *)
LEMMA StoredKeeps ==
  ASSUME SessionInv, UNCHANGED <<present, ended, issued, overlapped>>,
         stored' \in Record, stored'.ref = stored.ref, stored'.active = stored.active,
         live' \in [Target -> Ref \union {None}], dials' \in [Target -> Server \union {None}],
         \A k \in Target : ObjectKept(k),
         seen' \in [Client -> Record], doing' \in [Client -> Target \union {"idle", "other"}],
         \A c \in Client : seen'[c] \in {Empty, seen[c], stored},
         reverting' \subseteq Client, RoleInv',
         prior' \in [Elevation -> Role \union {None}], lapsed' \in 0..ElevationBound,
         renewed' \in BOOLEAN, stood' \subseteq Elevation
  PROVE  SessionInv'
<1>1. TypeOK'
  BY DEF SessionInv, TypeOK, issued
<1>2. OwnSession'
  BY EmptyRow, OwnKept
<1>3. EndedIssued' /\ Served' /\ LiveIsStored' /\ ActiveAttached'
  BY DEF SessionInv, EndedIssued, Served, LiveIsStored, ActiveAttached, Coherent, Attached,
         ObjectKept, issued
<1>4. \A c \in Client : Coherent(seen'[c])
  BY EmptyRow DEF SessionInv, CoherentSeen, ActiveAttached
<1>5. CoherentSeen'
  BY <1>4 DEF CoherentSeen, Coherent, Attached
<1> QED BY <1>1, <1>2, <1>3, <1>5 DEF SessionInv

(* The same when the requests in flight and the elevations stay as well.   *)
LEMMA PromptKeeps ==
  ASSUME SessionInv, Prompt, NEW record, stored' = record, record \in Record,
         record.ref = stored.ref, record.active = stored.active, RoleInv',
         prior' \in [Elevation -> Role \union {None}], lapsed' \in 0..ElevationBound,
         renewed' \in BOOLEAN, stood' \subseteq Elevation
  PROVE  SessionInv'
<1>1. /\ live' \in [Target -> Ref \union {None}] /\ dials' \in [Target -> Server \union {None}]
      /\ \A k \in Target : ObjectKept(k)
  BY RehydrateKeeps DEF SessionInv, Prompt
<1> QED BY <1>1, StoredKeeps DEF Prompt, SessionInv, TypeOK

(* A request that writes back what it read: if the row had changed         *)
(* meanwhile, the overlap is on record.                                    *)
LEMMA SaveKeeps ==
  ASSUME SessionInv, NEW c \in Client, Save(c, Held(c)), Finish(c),
         UNCHANGED <<live, dials, ended, issued, elevation>>
  PROVE  SessionInv'
<1>0. TypeOK /\ RoleInv
  BY DEF SessionInv
<1>1. /\ stored' = Held(c) /\ present' = TRUE
      /\ overlapped' = (overlapped \/ ~present \/ stored # seen[c])
  BY DEF Save
<1>2. /\ seen' \in [Client -> Record] /\ doing' \in [Client -> Target \union {"idle", "other"}]
      /\ \A d \in Client, k \in Target :
           seen'[d].ref[k] \in {None, seen[d].ref[k]}
      /\ CoherentSeen'
      /\ \A d \in Client : seen'[d] \in {Empty, seen[d]}
      /\ reverting' \subseteq Client /\ \A d \in reverting' : seen'[d].glass # 0
  BY FinishLeaves, EmptyRow DEF SessionInv, RoleInv
<1>3. /\ stored' \in Record /\ RowOK(stored')
      /\ stored'.ref = seen[c].ref /\ stored'.active = seen[c].active
      /\ stored'.glass \in {0, seen[c].glass}
  BY <1>0, <1>1, HeldRow
<1>4. TypeOK'
  BY <1>1, <1>2, <1>3 DEF SessionInv, TypeOK, elevation, issued
<1>5. OwnSession'
  BY <1>1, <1>2, <1>3, OwnKept DEF ObjectKept
<1>6. EndedIssued'
  BY DEF SessionInv, EndedIssued, issued
<1>7. Served' /\ LiveIsStored'
  BY <1>1, <1>3 DEF SessionInv, Served, LiveIsStored, Attached
<1>8. ActiveAttached'
  BY <1>3 DEF SessionInv, CoherentSeen, ActiveAttached, Coherent, Attached
<1>9. RoleInv'
  <2>1. ~overlapped' => ~overlapped /\ stored'.glass \in {0, stored.glass}
    BY <1>1, <1>3
  <2> QED BY <1>2, <1>3, <2>1, RoleKept
<1> QED BY <1>2, <1>4, <1>5, <1>6, <1>7, <1>8, <1>9 DEF SessionInv

(* A request that begins to wait.                                          *)
LEMMA BeginKeeps ==
  ASSUME SessionInv, NEW c \in Client, NEW what \in Target \union {"other"}, Begin(c, what),
         UNCHANGED <<live, dials>> \/ Rehydrate(stored),
         UNCHANGED <<present, stored, ended, issued, overlapped, elevation>>
  PROVE  SessionInv'
<1>0. TypeOK /\ RoleInv /\ stored \in Record
  BY DEF SessionInv, TypeOK
<1>1. /\ live' \in [Target -> Ref \union {None}] /\ dials' \in [Target -> Server \union {None}]
      /\ \A k \in Target : ObjectKept(k)
  BY <1>0, RehydrateKeeps DEF TypeOK, Begin, ObjectKept
<1>2. /\ seen' \in [Client -> Record] /\ doing' \in [Client -> Target \union {"idle", "other"}]
      /\ \A d \in Client : seen'[d] = IF d = c THEN stored ELSE seen[d]
      /\ reverting' = IF Lapsed(stored) THEN reverting \union {c} ELSE reverting \ {c}
  BY <1>0 DEF Begin, TypeOK
<1>3. reverting' \subseteq Client
  BY <1>0, <1>2 DEF TypeOK
<1>4. \A d \in reverting' : seen'[d].glass # 0
  BY <1>0, <1>2, <1>3 DEF RoleInv, Lapsed
<1>5. RoleInv'
  <2>1. RowOK(stored')
    BY <1>0 DEF RoleInv
  <2> QED BY <1>0, <1>2, <1>3, <1>4, <2>1, RoleKept
<1> QED BY <1>0, <1>1, <1>2, <1>3, <1>5, StoredKeeps DEF TypeOK, elevation

(* Detaching a target logs out a session that no other target is stored    *)
(* with.                                                                   *)
LEMMA DetachKeeps ==
  ASSUME SessionInv, NEW k \in Target, Detach(k)
  PROVE  SessionInv'
<1> DEFINE ref == [stored.ref EXCEPT ![k] = None]
           now == Current(stored)
<1>0. TypeOK /\ RoleInv /\ stored \in Record /\ k \in Attached(stored) /\ None \notin Target
  BY SessionAssumption DEF SessionInv, Detach, TypeOK
<1>1. PICK a \in Resolved(ref, IF stored.active = k THEN None ELSE stored.active) :
        stored' = [now EXCEPT !.ref = ref, !.active = a]
  BY DEF Detach
<1>2. /\ ended' \subseteq ended \union {stored.ref[k]}
      /\ live' = [Rehydrated(stored) EXCEPT ![k] = None]
      /\ dials' = [Dialled(stored) EXCEPT ![k] = None]
      /\ present /\ UNCHANGED <<present, issued, doing, seen, reverting, overlapped, elevation>>
  BY DEF Detach, Discard, LoggedOut
<1>a. now \in Record /\ RowOK(now) /\ now.glass \in {0, stored.glass}
  BY <1>0, CurrentRow DEF RoleInv
<1> HIDE DEF now
<1>5. a \in Target \union {None}
  BY <1>1, ResolvedKey
<1>b. ref \in [Target -> Ref \union {None}]
  BY <1>0 DEF Record
<1>6. /\ stored' \in Record /\ stored'.ref = ref /\ stored'.active = a
      /\ stored'.glass = now.glass /\ stored'.role = now.role
  BY <1>a, <1>b, <1>1, <1>5 DEF Record
<1>3. \A j \in Target : stored'.ref[j] = IF j = k THEN None ELSE stored.ref[j]
  BY <1>0, <1>6 DEF Record
<1>4. /\ live' \in [Target -> Ref \union {None}] /\ dials' \in [Target -> Server \union {None}]
      /\ \A j \in Target : live'[j] = IF j = k THEN None
                                       ELSE IF stored.ref[j] = None THEN live[j] ELSE stored.ref[j]
      /\ \A j \in Target : ObjectKept(j)
  BY <1>0, <1>2, RehydratedKeys DEF ObjectKept
<1>7. stored.ref[k] \in Ref /\ owner[stored.ref[k]] = k
  BY <1>0 DEF Record, Attached, SessionInv, OwnSession, OwnKey
<1>8. TypeOK'
  BY <1>0, <1>2, <1>4, <1>6, <1>7 DEF TypeOK, elevation, issued
<1>9. OwnSession'
  BY <1>2, <1>3, <1>4, OwnKept
<1>10. EndedIssued'
  BY <1>0, <1>2, <1>7 DEF SessionInv, EndedIssued, issued
<1>11. Served'
  BY <1>2, <1>3, <1>7 DEF SessionInv, Served, OwnSession, OwnKey, Attached
<1>12. LiveIsStored'
  BY <1>2, <1>3, <1>4 DEF SessionInv, LiveIsStored
<1>13. ActiveAttached'
  <2>1. \A j \in Target : stored'.ref[j] = ref[j]
    BY <1>6
  <2>2. /\ a = None \/ ref[a] # None
        /\ a = None => \A j \in Target : ref[j] = None
    BY <1>0, <1>1 DEF Resolved
  <2> HIDE DEF ref
  <2>3. IF Attached(stored') = {} THEN a = None ELSE a \in Attached(stored')
    BY <1>5, <2>1, <2>2 DEF Attached
  <2>4. Coherent(stored')
    BY <1>6, <2>3 DEF Coherent
  <2> QED BY <2>4 DEF ActiveAttached, Coherent, Attached
<1>14. CoherentSeen'
  BY <1>2 DEF SessionInv, CoherentSeen, Coherent, Attached
<1>15. RoleInv'
  <2>1. RowOK(stored')
    BY <1>6, <1>a DEF RowOK
  <2>2. stored'.glass \in {0, stored.glass}
    BY <1>6, <1>a
  <2> QED BY <1>0, <1>2, <1>6, <2>1, <2>2, RoleKept DEF TypeOK, RoleInv
<1> QED BY <1>8, <1>9, <1>10, <1>11, <1>12, <1>13, <1>14, <1>15 DEF SessionInv

(* A row that goes, with its objects or without them.                      *)
LEMMA GoneKeeps ==
  ASSUME SessionInv, Logout \/ Drop
  PROVE  SessionInv'
<1>1. /\ present' = FALSE /\ stored' = Empty
      /\ UNCHANGED <<issued, doing, seen, reverting, overlapped, elevation>>
      /\ UNCHANGED <<live, dials>> \/ (live' = Empty.ref /\ dials' = Empty.ref)
      /\ ended \subseteq ended'
      /\ \A r \in ended' \ ended : r # None /\ \E k \in Target : r = live[k]
  <2>1. \A k \in Target : LoggedOut(live[k], dials[k]) \subseteq {live[k]}
    BY DEF LoggedOut
  <2>2. CASE Logout
    BY <2>1, <2>2 DEF Logout
  <2>3. CASE Drop
    <3>1. present' = FALSE /\ stored' = Empty /\ ended' = ended /\ UNCHANGED <<live, dials>>
          /\ UNCHANGED <<issued, doing, seen, reverting, overlapped, elevation>>
      BY <2>3 DEF Drop
    <3>2. ended' \ ended = {}
      BY <3>1
    <3> QED BY <3>1, <3>2
  <2> QED BY <2>2, <2>3
<1>2. /\ Empty.ref \in [Target -> Ref \union {None}]
      /\ Empty.ref \in [Target -> Server \union {None}]
      /\ \A k \in Target : ObjectKept(k)
  BY <1>1, EmptyRow DEF Record, ObjectKept, Empty
<1>3. ended' \subseteq Ref
  BY <1>1 DEF SessionInv, TypeOK
<1>4. /\ live' \in [Target -> Ref \union {None}] /\ dials' \in [Target -> Server \union {None}]
      /\ present' \in BOOLEAN /\ stored' \in Record
  BY <1>1, <1>2, EmptyRow DEF SessionInv, TypeOK
<1>5. TypeOK'
  BY <1>1, <1>3, <1>4 DEF SessionInv, TypeOK, elevation, issued
<1>6. OwnSession'
  BY <1>1, <1>2, EmptyRow, OwnKept
<1>7. EndedIssued'
  BY <1>1, SessionAssumption DEF SessionInv, EndedIssued, OwnSession, OwnKey, issued
<1>8. Served' /\ LiveIsStored'
  BY <1>1, EmptyRow DEF Served, LiveIsStored, Attached
<1>9. ActiveAttached' /\ CoherentSeen'
  BY <1>1, EmptyRow DEF SessionInv, ActiveAttached, CoherentSeen, Coherent, Attached
<1>10. RoleInv'
  BY <1>1, <1>4, EmptyRow, RoleKept DEF SessionInv, RoleInv, TypeOK
<1> QED BY <1>5, <1>6, <1>7, <1>8, <1>9, <1>10 DEF SessionInv

(* A switch to a target the session has, or to a managed one.              *)
LEMMA SwitchKeeps ==
  ASSUME SessionInv, NEW a \in Attached(stored) \union Managed,
         Prompt, stored' = [Current(stored) EXCEPT !.active = a], UNCHANGED elevation
  PROVE  SessionInv'
<1> DEFINE now == Current(stored)
<1>0. /\ TypeOK /\ RoleInv /\ stored \in Record
      /\ now \in Record /\ RowOK(now) /\ now.ref = stored.ref
      /\ now.glass \in {0, stored.glass}
  BY CurrentRow DEF SessionInv, TypeOK, RoleInv
<1>p. /\ Rehydrate(stored) /\ present
      /\ UNCHANGED <<present, ended, issued, doing, seen, reverting, overlapped>>
  BY DEF Prompt
<1> HIDE DEF now
<1>1. /\ stored' \in Record /\ stored'.active = a /\ stored'.ref = stored.ref
      /\ stored'.glass = now.glass /\ stored'.role = now.role
  BY <1>0 DEF now, Record, Attached
<1>2. /\ live' \in [Target -> Ref \union {None}] /\ dials' \in [Target -> Server \union {None}]
      /\ \A k \in Target : ObjectKept(k)
  BY <1>0, <1>p, RehydrateKeeps
<1>3. TypeOK'
  BY <1>0, <1>1, <1>2, <1>p DEF TypeOK, elevation, issued
<1>4. OwnSession'
  BY <1>1, <1>2, <1>p, OwnKept
<1>5. EndedIssued' /\ Served' /\ LiveIsStored'
  BY <1>1, <1>2, <1>p DEF SessionInv, EndedIssued, Served, LiveIsStored, Attached,
                            ObjectKept, issued
<1>6. ActiveAttached'
  BY <1>1 DEF ActiveAttached, Coherent, Attached
<1>7. CoherentSeen'
  BY <1>p DEF SessionInv, CoherentSeen, Coherent, Attached
<1>8. RoleInv'
  <2>1. RowOK(stored')
    BY <1>0, <1>1 DEF RowOK
  <2>2. stored'.glass \in {0, stored.glass}
    BY <1>0, <1>1
  <2> QED BY <1>0, <1>1, <1>p, <2>1, <2>2, RoleKept DEF TypeOK, RoleInv
<1> QED BY <1>3, <1>4, <1>5, <1>6, <1>7, <1>8 DEF SessionInv

-----------------------------------------------------------------------------
(* The role and the elevation.                                             *)

(* A request that looks at the elevation, and may switch the role to one   *)
(* the account covers.                                                     *)
LEMMA RoleSwitchKeeps ==
  ASSUME SessionInv, Prompt, UNCHANGED elevation,
         \/ stored' = Current(stored)
         \/ \E role \in Allowed : stored' = [Current(stored) EXCEPT !.role = role]
  PROVE  SessionInv'
<1> DEFINE now == Current(stored)
<1>0. /\ TypeOK /\ RoleInv
      /\ now \in Record /\ RowOK(now) /\ now.ref = stored.ref /\ now.active = stored.active
      /\ now.glass \in {0, stored.glass}
  BY CurrentRow DEF SessionInv, TypeOK, RoleInv
<1>a. PICK role \in Allowed : stored' = now \/ stored' = [now EXCEPT !.role = role]
  BY RoleAssumption
<1> HIDE DEF now
<1>1. /\ stored' \in Record /\ stored'.ref = stored.ref /\ stored'.active = stored.active
      /\ stored'.glass = now.glass /\ (stored'.role = now.role \/ stored'.role \in Allowed)
  BY <1>0, <1>a DEF Record, Role
<1>2. RowOK(stored')
  BY <1>0, <1>1 DEF RowOK
<1>3. RoleInv'
  BY <1>0, <1>1, <1>2, RoleKept DEF Prompt, TypeOK, RoleInv
<1> QED BY <1>0, <1>1, <1>3, PromptKeeps DEF TypeOK, elevation

(* An elevation begins: the role to go back to is the one of a row without *)
(* elevation, unless it is begun during another.                           *)
LEMMA ElevateKeeps ==
  ASSUME SessionInv, NEW e \in Elevation, Elevate(e)
  PROVE  SessionInv'
<1> DEFINE now == Current(stored)
<1>0. /\ TypeOK /\ RoleInv /\ prior[e] = None /\ e # 0
      /\ now \in Record /\ RowOK(now) /\ now.ref = stored.ref /\ now.active = stored.active
  BY CurrentRow, Elevations DEF SessionInv, TypeOK, RoleInv, Elevate
<1>1. /\ Prompt /\ stored' = [now EXCEPT !.role = Admin, !.glass = e]
      /\ prior' = [prior EXCEPT ![e] = now.role]
      /\ renewed' = (renewed \/ now.glass # 0) /\ UNCHANGED <<lapsed, stood>>
      /\ UNCHANGED <<seen, reverting, overlapped>>
  BY DEF Elevate, Prompt
<1> HIDE DEF now
<1>2. /\ stored' \in Record /\ stored'.ref = stored.ref /\ stored'.active = stored.active
      /\ stored'.glass = e
  BY <1>0, <1>1, Elevations DEF Record, Role
<1>3. /\ now.role \in Role /\ now.role # None
      /\ prior' \in [Elevation -> Role \union {None}]
      /\ \A d \in Elevation : prior'[d] = IF d = e THEN now.role ELSE prior[d]
  BY <1>0, <1>1, RoleAssumption DEF TypeOK, Record, Role
<1>4. ~renewed' => ~renewed /\ now.role \in Allowed
  BY <1>0, <1>1 DEF RowOK
<1>5. RowOK(stored)'
  BY <1>0, <1>2, <1>3 DEF RowOK
<1>6. ASSUME NEW c \in Client PROVE RowOK(seen[c])'
  <2>1. seen[c] \in Record /\ RowOK(seen[c]) /\ seen'[c] = seen[c]
    BY <1>0, <1>1 DEF TypeOK, RoleInv
  <2>2. seen[c].glass # 0 => seen[c].glass \in Elevation
    BY <2>1, Elevations DEF Record
  <2> QED BY <1>1, <1>3, <1>4, <2>1, <2>2 DEF RowOK
<1>7. e \notin stood /\ stood \subseteq Elevation
  BY <1>0 DEF RoleInv, TypeOK
<1>8. RoleInv'
  BY <1>0, <1>1, <1>2, <1>3, <1>4, <1>5, <1>6, <1>7 DEF RoleInv
<1> QED BY <1>0, <1>1, <1>2, <1>3, <1>8, PromptKeeps DEF TypeOK

(* An elevation that is ended before its time is not the row's any more.   *)
LEMMA StandDownKeeps ==
  ASSUME SessionInv, StandDown
  PROVE  SessionInv'
<1>0. TypeOK /\ RoleInv /\ stored \in Record /\ RowOK(stored) /\ stored.glass # 0
  BY CurrentRow DEF SessionInv, TypeOK, RoleInv, StandDown
<1>1. /\ Prompt /\ stored' = Reverted(stored) /\ stood' = stood \union {stored.glass}
      /\ UNCHANGED <<prior, lapsed, renewed, seen, reverting, overlapped>>
  BY DEF StandDown, Prompt
<1>2. /\ stored' \in Record /\ stored'.ref = stored.ref /\ stored'.active = stored.active
      /\ stored'.glass = 0 /\ RowOK(stored')
  BY <1>0, <1>1, RevertedRow
<1>3. stored.glass \in Elevation /\ prior[stored.glass] # None
  BY <1>0, Elevations DEF Record, RowOK
<1>4. stood' \subseteq Elevation /\ 0 \notin stood'
  BY <1>0, <1>1, <1>3, Elevations DEF TypeOK
<1>5. RoleInv'
  BY <1>0, <1>1, <1>2, <1>3, <1>4 DEF RoleInv, RowOK
<1> QED BY <1>0, <1>1, <1>2, <1>4, <1>5, PromptKeeps DEF TypeOK

LEMMA LapseKeeps ==
  ASSUME SessionInv, Lapse
  PROVE  SessionInv'
<1>1. /\ UNCHANGED <<present, stored, live, dials, ended, issued, doing, seen, reverting,
                     overlapped, prior, renewed, stood>>
      /\ lapsed' \in 0..ElevationBound
  BY RoleAssumption DEF Lapse, SessionInv, TypeOK
<1>2. RoleInv'
  BY <1>1 DEF SessionInv, RoleInv, RowOK
<1> QED BY <1>1, <1>2, StoredKeeps DEF SessionInv, TypeOK, ObjectKept

-----------------------------------------------------------------------------
(* Every step keeps the invariant.                                         *)
LEMMA SessionStep == SessionInv /\ [Next]_vars => SessionInv'
<1> SUFFICES ASSUME SessionInv, [Next]_vars PROVE SessionInv'
  OBVIOUS
<1>1. ASSUME NEW c \in Client, NEW k \in Target, Connect(c, k) PROVE SessionInv'
  BY <1>1, BeginKeeps DEF Connect
<1>2. ASSUME NEW c \in Client, NEW r \in Ref, NEW at \in Server, ConnectOk(c, r, at)
      PROVE  SessionInv'
  BY <1>2, ConnectOkKeeps
<1>3. ASSUME NEW c \in Client, ConnectFail(c) PROVE SessionInv'
  <2>1. CASE c \in reverting
    BY <1>3, <2>1, SaveKeeps DEF ConnectFail
  <2>2. CASE c \notin reverting
    <3>1. /\ Finish(c) /\ UNCHANGED <<present, stored, live, dials, ended, issued, overlapped, elevation>>
      BY <1>3, <2>2 DEF ConnectFail
    <3>2. /\ seen' \in [Client -> Record]
          /\ doing' \in [Client -> Target \union {"idle", "other"}]
          /\ \A d \in Client : seen'[d] \in {Empty, seen[d]}
          /\ reverting' \subseteq Client /\ \A d \in reverting' : seen'[d].glass # 0
      BY <3>1, FinishLeaves DEF SessionInv, RoleInv
    <3>3. RoleInv'
      BY <3>1, <3>2, RoleKept DEF SessionInv, RoleInv, TypeOK
    <3> QED BY <3>1, <3>2, <3>3, StoredKeeps DEF SessionInv, TypeOK, ObjectKept, elevation
  <2> QED BY <2>1, <2>2
<1>4. ASSUME NEW c \in Client, SlowBegin(c) PROVE SessionInv'
  BY <1>4, BeginKeeps DEF SlowBegin
<1>5. ASSUME NEW c \in Client, SlowEnd(c) PROVE SessionInv'
  BY <1>5, SaveKeeps DEF SlowEnd
<1>6. ASSUME NEW k \in Target, Activate(k) PROVE SessionInv'
  BY <1>6, SwitchKeeps DEF Activate
<1>7. ASSUME NEW m \in Managed, ActivateManaged(m) PROVE SessionInv'
  BY <1>7, SwitchKeeps DEF ActivateManaged
<1>8. ASSUME NEW k \in Target, Detach(k) PROVE SessionInv'
  BY <1>8, DetachKeeps
<1>9. CASE Logout \/ Drop
  BY <1>9, GoneKeeps
<1>10. CASE Request
  BY <1>10, RoleSwitchKeeps DEF Request
<1>11. ASSUME NEW role \in Allowed, SwitchRole(role) PROVE SessionInv'
  BY <1>11, RoleSwitchKeeps DEF SwitchRole
<1>12. ASSUME NEW e \in Elevation, Elevate(e) PROVE SessionInv'
  BY <1>12, ElevateKeeps
<1>13. CASE StandDown
  BY <1>13, StandDownKeeps
<1>14. CASE Lapse
  BY <1>14, LapseKeeps
<1>15. CASE Restart
  <2>1. /\ UNCHANGED <<present, stored, ended, issued, overlapped, elevation>>
        /\ reverting' = {} /\ live' \in [Target -> Ref \union {None}]
        /\ dials' \in [Target -> Server \union {None}] /\ \A k \in Target : live'[k] = None
        /\ seen' \in [Client -> Record] /\ \A c \in Client : seen'[c] = Empty
        /\ doing' \in [Client -> Target \union {"idle", "other"}]
    BY <1>15, EmptyRow DEF Restart, Record, Empty
  <2>2. RoleInv'
    BY <2>1, RoleKept DEF SessionInv, RoleInv, TypeOK
  <2> QED BY <2>1, <2>2, StoredKeeps DEF SessionInv, TypeOK, ObjectKept, elevation
<1>16. CASE UNCHANGED vars
  <2>1. /\ UNCHANGED <<present, stored, live, dials, ended, issued, doing, seen, reverting, overlapped>>
        /\ UNCHANGED elevation
    BY <1>16 DEF vars
  <2>2. RoleInv'
    BY <2>1, RoleKept DEF SessionInv, RoleInv, TypeOK
  <2> QED BY <2>1, <2>2, StoredKeeps DEF SessionInv, TypeOK, ObjectKept, elevation
<1> QED BY <1>1, <1>2, <1>3, <1>4, <1>5, <1>6, <1>7, <1>8, <1>9, <1>10, <1>11, <1>12,
           <1>13, <1>14, <1>15, <1>16 DEF Next

THEOREM SessionInvariant == Spec => []SessionInv
  BY SessionInit, SessionStep, PTL DEF Spec

(* Every variable keeps its type.                                          *)
THEOREM SessionTyped == Spec => []TypeOK
<1>1. SessionInv => TypeOK
  BY DEF SessionInv
<1> QED BY <1>1, SessionInvariant, PTL

(* No XAPI session is used for another target than the one it was opened   *)
(* for, an object calls a server its key was connected to, and until a     *)
(* request writes over a newer row its reference is from that server.      *)
THEOREM SessionsAreOwn == Spec => []OwnSession
<1>1. SessionInv => OwnSession
  BY DEF SessionInv
<1> QED BY <1>1, SessionInvariant, PTL

(* Until a request writes over a newer row, a target the row holds serves  *)
(* with a session that still exists.                                       *)
THEOREM SessionsServe == Spec => []ServedAlive
<1>1. SessionInv => ServedAlive
  BY SessionAssumption DEF SessionInv, Served, ServedAlive, Route, Attached
<1> QED BY <1>1, SessionInvariant, PTL

(* Until a request writes over a newer row, the registry holds nothing but *)
(* the references the row stores.                                          *)
THEOREM SessionsAgree == Spec => []LiveIsStored
<1>1. SessionInv => LiveIsStored
  BY DEF SessionInv
<1> QED BY <1>1, SessionInvariant, PTL

(* The active target of a session is one it has.                           *)
THEOREM SessionsAreCoherent == Spec => []ActiveAttached
<1>1. SessionInv => ActiveAttached
  BY DEF SessionInv
<1> QED BY <1>1, SessionInvariant, PTL

(* An elevation gives way to a role the account covers when it lapses or   *)
(* is ended, unless it was begun during another, and one that was ended    *)
(* stays so until a request writes over a newer row.                       *)
THEOREM ElevationsEnd == Spec => []ElevationEnds
<1>1. SessionInv => ElevationEnds
  <2> SUFFICES ASSUME SessionInv PROVE ElevationEnds
    OBVIOUS
  <2>1. RowOK(Current(stored))
    BY CurrentRow DEF SessionInv, TypeOK, RoleInv
  <2> QED BY <2>1 DEF SessionInv, RoleInv, RowOK, ElevationEnds
<1> QED BY <1>1, SessionInvariant, PTL
=============================================================================
