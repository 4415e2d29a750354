-------------------------- MODULE SessionTargets --------------------------
(***************************************************************************)
(* The XenServer targets of one control-plane session (one sid): the row   *)
(* of security.db, the registry of live XenAPI objects in                  *)
(* server/services/xenapi.js, and the requests of routes/auth.js that      *)
(* change both; with them the session's role and its break-glass           *)
(* elevation (routes and services governance.js), which are in the row.    *)
(*                                                                         *)
(* A request loads the row when it starts and, if it changed it, writes it *)
(* back whole when its response ends (express-session, resave: false, over *)
(* a synchronous store).  A handler that never awaits is one step.  One    *)
(* that awaits holds what it read: xen-login does, and so does any slow    *)
(* request that changed some other field.  Every request begins with       *)
(* requestContextMiddleware, which ends an elevation that has lapsed.      *)
(*                                                                         *)
(* A key is that of a saved connection, of a host target, or made of host, *)
(* user and port.  The server a login goes to is the request's: a key may  *)
(* be connected to several in turn.  A row keeps the server with each      *)
(* reference; an object keeps the one it was made for.                     *)
(*                                                                         *)
(* The order of the stored list only decides which target stands in when   *)
(* the one asked for is not there; here it may be any of them.             *)
(***************************************************************************)
EXTENDS Naturals, FiniteSets

CONSTANTS
  Target,   \* target keys an operator can connect to
  Server,   \* XenServers they can be connected to
  Managed,  \* keys of managed targets, connected by the server itself
  Ref,      \* XenServer session references; each login hands out a new one
  Client,   \* requests of this session that can be in flight at a time
  None,
  Allowed,  \* the roles of a session that its account covers (hasRole)
  Own,      \* the account's own role, with which a session begins
  Admin,    \* the role an elevation gives
  ElevationBound, \* bound: elevations
  Extent    \* bound: pairs of how many logins and elevations go together

ASSUME SessionAssumption ==
  /\ Target \intersect Managed = {}
  /\ None \notin Target \union Managed \union Ref \union Server
  /\ {"idle", "other"} \intersect Target = {}

ASSUME RoleAssumption ==
  /\ Own \in Allowed /\ None \notin Allowed \union {Admin}
  /\ ElevationBound \in Nat

VARIABLES
  present,    \* the session has a row
  stored,     \* what the row says, see Record
  live,       \* target -> sessionRef of its XenAPI object in the registry
  dials,      \* target -> the server that object calls
  ended,      \* session references that were logged out
  owner,      \* session reference -> the target whose login it is from
  server,     \* session reference -> the server that issued it
  doing,      \* request -> the target it connects to, "other" or "idle"
  seen,       \* request -> the row as it loaded it
  reverting,  \* requests that found the elevation of their row lapsed
  prior,      \* elevation -> its priorRole; None: not begun
  lapsed,     \* the elevations up to this one are past their expiresAt
  overlapped, \* history: a request wrote over a row changed since it was read
  renewed,    \* history: an elevation was begun during another
  stood       \* history: elevations ended before their time

elevation == <<prior, lapsed, renewed, stood>>
issued    == <<owner, server>>
vars == <<present, stored, live, dials, ended, issued, doing, seen, reverting, overlapped,
          elevation>>

Role      == Allowed \union {Admin}
Elevation == 1..ElevationBound

(* ref: target -> sessionRef.  active: the active key.  glass: the active  *)
(* elevation, 0 for none.                                                  *)
Record == [ref : [Target -> Ref \union {None}], active : Target \union Managed \union {None},
           role : Role, glass : 0..ElevationBound]
Empty  == [ref |-> [k \in Target |-> None], active |-> None, role |-> Own, glass |-> 0]

(* listSessionTargets().                                                   *)
Attached(record) == {k \in Target : record.ref[k] # None}

(* Mutant: the active key is kept, attached or not.                        *)
ResolvedAsAsked(ref, key) == {key}

(* persistSessionTargets(): the target asked for, else the first one.      *)
Resolved(ref, key) ==
  LET attached == {k \in Target : ref[k] # None} IN
    IF key \in attached THEN {key} ELSE IF attached = {} THEN {None} ELSE attached

(* Mutant: existing is looked up without a key: any object of the session. *)
RehydratedShared(record) ==
  [k \in Target |-> IF record.ref[k] = None THEN live[k]
                    ELSE CHOOSE r \in Ref : \E j \in Attached(record) : r = record.ref[j]]

(* rehydrateConnections(): every stored target has an object, and it       *)
(* carries the stored reference.                                           *)
Rehydrated(record) ==
  [k \in Target |-> IF record.ref[k] = None THEN live[k] ELSE record.ref[k]]

(* The servers the objects then call: one that exists keeps its own.       *)
Dialled(record) ==
  [k \in Target |-> IF record.ref[k] # None /\ live[k] = None
                    THEN server[record.ref[k]] ELSE dials[k]]

Rehydrate(record) == live' = Rehydrated(record) /\ dials' = Dialled(record)

(* api.logout(): only the server that issued the reference ends it.        *)
LoggedOut(r, at) == IF server[r] = at THEN {r} ELSE {}

(* Bound: there may be m logins and n elevations more.                     *)
Within(m, n) ==
  \E x \in Extent :
    /\ Cardinality({r \in Ref : owner[r] # None}) + m <= x[1]
    /\ Cardinality({e \in Elevation : prior[e] # None}) + n <= x[2]

(* The elevation of a session ends: the role is the one it had.            *)
Reverted(record) == [record EXCEPT !.role = prior[record.glass], !.glass = 0]

Lapsed(record) == record.glass # 0 /\ record.glass <= lapsed

(* getBreakGlassState(), run at the beginning of every request.            *)
Current(record) == IF Lapsed(record) THEN Reverted(record) ELSE record

(* The session as request c holds it in memory.                            *)
Held(c) == IF c \in reverting THEN Reverted(seen[c]) ELSE seen[c]

(* resolveTargetForRequest(): the targets that may serve a request naming  *)
(* asked (None: no target is named); none of them is 409.                  *)
Route(asked) ==
  LET key == IF asked = None THEN stored.active ELSE asked
  IN IF key \in Attached(stored) THEN {key}
     ELSE IF Attached(stored) # {} THEN Attached(stored)
     ELSE {key} \intersect Managed

-----------------------------------------------------------------------------
(* A sign-in leaves a session without targets.                             *)
Init ==
  /\ present = TRUE /\ stored = Empty
  /\ live = Empty.ref /\ dials = Empty.ref /\ ended = {}
  /\ owner = [r \in Ref |-> None] /\ server = [r \in Ref |-> None]
  /\ doing = [c \in Client |-> "idle"] /\ seen = [c \in Client |-> Empty]
  /\ reverting = {}
  /\ prior = [e \in Elevation |-> None] /\ lapsed = 0
  /\ overlapped = FALSE /\ renewed = FALSE /\ stood = {}

(* The end of request c's response: the row becomes what c made of what it *)
(* had read, and exists again if it was deleted meanwhile.                 *)
Save(c, record) ==
  /\ stored' = record /\ present' = TRUE
  /\ overlapped' = (overlapped \/ ~present \/ stored # seen[c])

Begin(c, what) ==
  /\ present /\ doing[c] = "idle"
  /\ doing' = [doing EXCEPT ![c] = what]
  /\ seen' = [seen EXCEPT ![c] = stored]
  /\ reverting' = IF Lapsed(stored) THEN reverting \union {c} ELSE reverting \ {c}

Finish(c) ==
  /\ doing' = [doing EXCEPT ![c] = "idle"]
  /\ seen' = [seen EXCEPT ![c] = Empty]
  /\ reverting' = reverting \ {c}

(* POST /xen-login up to its await.                                        *)
Connect(c, k) ==
  /\ Begin(c, k)
  /\ UNCHANGED <<present, stored, live, dials, ended, issued, overlapped, elevation>>

(* XenServer s opens a session: the target is upserted and becomes active, *)
(* its new object is registered, and the status payload rehydrates the     *)
(* others and looks at the elevation again.                                *)
ConnectOk(c, r, s) ==
  /\ doing[c] \in Target /\ owner[r] = None /\ Within(1, 0)
  /\ LET record == [Current(Held(c)) EXCEPT !.ref[doing[c]] = r, !.active = doing[c]] IN
       /\ Save(c, record)
       /\ live' = Rehydrated(record)
       /\ dials' = [Dialled(record) EXCEPT ![doing[c]] = s]
  /\ owner' = [owner EXCEPT ![r] = doing[c]]
  /\ server' = [server EXCEPT ![r] = s]
  /\ Finish(c)
  /\ UNCHANGED <<ended, elevation>>

(* XenServer refuses the login; nothing is saved but a lapsed elevation.   *)
ConnectFail(c) ==
  /\ doing[c] \in Target
  /\ IF c \in reverting THEN Save(c, Held(c)) ELSE UNCHANGED <<present, stored, overlapped>>
  /\ Finish(c)
  /\ UNCHANGED <<live, dials, ended, issued, elevation>>

(* A request that awaits and has changed another field of the row.         *)
SlowBegin(c) ==
  /\ Begin(c, "other")
  /\ Rehydrate(stored)
  /\ UNCHANGED <<present, stored, ended, issued, overlapped, elevation>>

SlowEnd(c) ==
  /\ doing[c] = "other"
  /\ Save(c, Held(c)) /\ Finish(c)
  /\ UNCHANGED <<live, dials, ended, issued, elevation>>

(* A request that does not wait: requireAuth rehydrates its targets.       *)
Prompt ==
  /\ present
  /\ Rehydrate(stored)
  /\ UNCHANGED <<present, ended, issued, doing, seen, reverting, overlapped>>

Request == Prompt /\ stored' = Current(stored) /\ UNCHANGED elevation

(* POST /targets/activate for an attached target.                          *)
Activate(k) ==
  /\ k \in Attached(stored)
  /\ Prompt /\ stored' = [Current(stored) EXCEPT !.active = k]
  /\ UNCHANGED elevation

(* The same for a healthy managed target.                                  *)
ActivateManaged(m) ==
  /\ Prompt /\ stored' = [Current(stored) EXCEPT !.active = m]
  /\ UNCHANGED elevation

(* PUT /api/governance/role: any role the account covers.                  *)
SwitchRole(role) ==
  /\ Prompt /\ stored' = [Current(stored) EXCEPT !.role = role]
  /\ UNCHANGED elevation

(* POST /api/governance/break-glass/activate, elevated already or not.     *)
Elevate(e) ==
  LET now == Current(stored) IN
  /\ prior[e] = None /\ (\A d \in 1..(e - 1) : prior[d] # None) /\ Within(0, 1)
  /\ Prompt /\ stored' = [now EXCEPT !.role = Admin, !.glass = e]
  /\ prior' = [prior EXCEPT ![e] = now.role]
  /\ renewed' = (renewed \/ now.glass # 0)
  /\ UNCHANGED <<lapsed, stood>>

(* Mutant: only the elevation is ended, and the role stays.                *)
StandDownOnly ==
  /\ Current(stored).glass # 0
  /\ Prompt /\ stored' = [Current(stored) EXCEPT !.glass = 0]
  /\ stood' = stood \union {stored.glass}
  /\ UNCHANGED <<prior, lapsed, renewed>>

(* POST /api/governance/break-glass/deactivate.                            *)
StandDown ==
  /\ Current(stored).glass # 0
  /\ Prompt /\ stored' = Reverted(stored)
  /\ stood' = stood \union {stored.glass}
  /\ UNCHANGED <<prior, lapsed, renewed>>

(* The thirty minutes of the next elevation are over.                      *)
Lapse ==
  /\ lapsed < ElevationBound /\ prior[lapsed + 1] # None
  /\ lapsed' = lapsed + 1
  /\ UNCHANGED <<present, stored, live, dials, ended, issued, doing, seen, reverting,
                 overlapped, prior, renewed, stood>>

(* The object of a stored target is rehydrated, logged out and dropped.    *)
Discard(k) ==
  /\ ended' = ended \union LoggedOut(stored.ref[k], Dialled(stored)[k])
  /\ live' = [Rehydrated(stored) EXCEPT ![k] = None]
  /\ dials' = [Dialled(stored) EXCEPT ![k] = None]

(* Mutant: the list is filtered but not persisted.                         *)
DetachForgotten(k) ==
  /\ present /\ k \in Attached(stored)
  /\ Discard(k)
  /\ UNCHANGED <<present, stored, issued, doing, seen, reverting, overlapped, elevation>>

(* DELETE /targets/:targetKey: requireAuth rehydrates, the target leaves   *)
(* the list, and its object goes.                                          *)
Detach(k) ==
  /\ present /\ k \in Attached(stored)
  /\ LET ref == [stored.ref EXCEPT ![k] = None] IN
       \E a \in Resolved(ref, IF stored.active = k THEN None ELSE stored.active) :
         stored' = [Current(stored) EXCEPT !.ref = ref, !.active = a]
  /\ Discard(k)
  /\ UNCHANGED <<present, issued, doing, seen, reverting, overlapped, elevation>>

(* POST /logout: every object of the session is logged out, the row goes.  *)
Logout ==
  /\ present
  /\ ended' = ended \union UNION {LoggedOut(live[k], dials[k]) : k \in {j \in Target : live[j] # None}}
  /\ live' = Empty.ref /\ dials' = Empty.ref /\ present' = FALSE /\ stored' = Empty
  /\ UNCHANGED <<issued, doing, seen, reverting, overlapped, elevation>>

(* The row expires, its account is revoked or its password changed: only   *)
(* the row goes.                                                           *)
Drop ==
  /\ present
  /\ present' = FALSE /\ stored' = Empty
  /\ UNCHANGED <<live, dials, ended, issued, doing, seen, reverting, overlapped, elevation>>

(* The process restarts: the row survives it.                              *)
Restart ==
  /\ live' = Empty.ref /\ dials' = Empty.ref
  /\ doing' = [c \in Client |-> "idle"] /\ seen' = [c \in Client |-> Empty]
  /\ reverting' = {}
  /\ UNCHANGED <<present, stored, ended, issued, overlapped, elevation>>

Next ==
  \/ \E c \in Client, k \in Target : Connect(c, k)
  \/ \E c \in Client, r \in Ref, s \in Server : ConnectOk(c, r, s)
  \/ \E c \in Client : ConnectFail(c) \/ SlowBegin(c) \/ SlowEnd(c)
  \/ Request
  \/ \E k \in Target : Activate(k) \/ Detach(k)
  \/ \E m \in Managed : ActivateManaged(m)
  \/ \E role \in Allowed : SwitchRole(role)
  \/ \E e \in Elevation : Elevate(e)
  \/ StandDown \/ Lapse
  \/ Logout \/ Drop \/ Restart

Spec == Init /\ [][Next]_vars

-----------------------------------------------------------------------------
TypeOK ==
  /\ present \in BOOLEAN /\ overlapped \in BOOLEAN
  /\ stored \in Record /\ seen \in [Client -> Record]
  /\ live \in [Target -> Ref \union {None}] /\ dials \in [Target -> Server \union {None}]
  /\ ended \subseteq Ref
  /\ owner \in [Ref -> Target \union {None}] /\ server \in [Ref -> Server \union {None}]
  /\ doing \in [Client -> Target \union {"idle", "other"}]
  /\ reverting \subseteq Client
  /\ prior \in [Elevation -> Role \union {None}] /\ lapsed \in 0..ElevationBound
  /\ renewed \in BOOLEAN /\ stood \subseteq Elevation

(* No reference is stored or held for a key that is not from a login with  *)
(* that key, whatever rows are written over each other, removed or         *)
(* rehydrated.                                                             *)
OwnKey ==
  \A k \in Target :
    /\ stored.ref[k] # None => owner[stored.ref[k]] = k
    /\ live[k] # None => owner[live[k]] = k
    /\ \A c \in Client : seen[c].ref[k] # None => owner[seen[c].ref[k]] = k

(* An object calls a server that its key was connected to.                 *)
OwnServer ==
  \A k \in Target :
    live[k] # None => \E r \in Ref : owner[r] = k /\ server[r] = dials[k]

(* An object carries the reference of the server it calls.                 *)
Matching == \A k \in Target : live[k] # None => server[live[k]] = dials[k]

(* One target's session is never used for another, and until a request     *)
(* writes over a row that had changed since it was read, one server's is   *)
(* never sent to another.  Then rehydration may put the older reference    *)
(* into the object of a newer login, which calls another server if the key *)
(* was connected to two: crossing stays between servers of one key.        *)
OwnSession == OwnKey /\ OwnServer /\ (~overlapped => Matching)

(* Whatever target a request asks for, a stored one that serves it has a   *)
(* session that was not logged out, unless a request once wrote over a row *)
(* that had changed since it was read.                                     *)
ServedAlive ==
  ~overlapped => \A asked \in Target \union Managed \union {None} :
    \A k \in Route(asked) \ Managed : stored.ref[k] \notin ended

(* The registry, which the metrics collector walks without looking at any  *)
(* session, holds only targets the session still has, at the reference the *)
(* session has, under the same condition.                                  *)
LiveIsStored ==
  present /\ ~overlapped => \A k \in Target : live[k] \in {None, stored.ref[k]}

(* The active target of a row is one it holds, or a managed one; a row     *)
(* with targets has an active one.                                         *)
Coherent(record) ==
  record.active \notin Managed =>
    IF Attached(record) = {} THEN record.active = None
    ELSE record.active \in Attached(record)

(* No interleaving leaves the session pointing at a target it no longer    *)
(* has, or at none while it has some.                                      *)
ActiveAttached == Coherent(stored)

(* An elevation ends.  When none is in force the role is one that the      *)
(* account covers, whatever the requests that carried it in their row      *)
(* wrote back, unless one was begun during another, whose priorRole is     *)
(* then admin.  One ended before its time does not come back, unless a     *)
(* request wrote over a row that had changed since it was read.            *)
ElevationEnds ==
  /\ Current(stored).glass = 0 /\ ~renewed => Current(stored).role \in Allowed
  /\ ~overlapped => stored.glass \notin stood
=============================================================================
