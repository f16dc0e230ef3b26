---------------------------- MODULE SessionManager ----------------------------
(***************************************************************************)
(* The clients of one storage scope: a SessionManager per tab              *)
(* (src/session/manager.ts), the persisted key and session they share, and *)
(* the server that rotates refresh tokens.                                 *)
(*                                                                         *)
(* A member of Calls is a slot in which its tab runs one public method at  *)
(* a time: key, session, refresh, clearSession or clearInstallation.  A    *)
(* step ends where the code awaits the store, the server or an adapter.    *)
(* The mutation lease is the section that module MutationLease implements; *)
(* MayLapse lets it expire under a call that still runs (a suspended tab,  *)
(* or a memory store, which has no heartbeat).                             *)
(*                                                                         *)
(* A session is a record of the grant it came from and the key it is bound *)
(* to; its tokens, expiry and generation identify the grant and are not    *)
(* modelled apart, except for age, the expiry of the stored session.       *)
(***************************************************************************)
EXTENDS FiniteSets, Naturals

CONSTANTS
  Tabs, Calls,
  TabOf,        \* the tab of each call
  Keys,         \* installation keys, reused once nothing refers to them
  Grants,       \* grants (a token pair each), reused likewise
  Kinds,        \* the methods the instance exercises
  None,         \* undefined
  Corrupt,      \* a stored record that fails validation
  Dead,         \* the owner of a lease whose tab is gone
  MayLapse,     \* a lease may expire while its call still runs
  Repeat        \* a slot whose call has settled may be used again

ASSUME TabAssumption == TabOf \in [Calls -> Tabs]
ASSUME DistinctAssumption ==
  /\ None \notin Keys \cup Grants \cup Calls
  /\ Corrupt \notin Keys \cup Grants \cup Calls \cup {None}
  /\ {None, Corrupt} \cap [grant : Grants, key : Keys] = {}
  /\ Dead \notin Calls \cup {None}
  /\ Keys \cap Calls = {}
ASSUME KindAssumption ==
  Kinds \subseteq {"key", "session", "refresh", "clearSession", "clearInstallation"}

VARIABLES
  storedKey, storedSession,     \* the store: installations, sessions
  age,                          \* of storedSession, see Ages
  holder,                       \* the call that holds the mutation lease
  keyPromise, sessionPromise,   \* per tab: settled key, pending call or None
  pc, kind, awaits,             \* per call; awaits: whose promise it awaits
  key, cur, got, obs,           \* per call: key, loaded, granted, observed
  todo,                         \* per call: deletes of a Promise.all to come
  dead,                         \* server: grants whose refresh token is void
  excused                       \* history: void for a reason the client
                                \* cannot see (lost reply, crash, revocation)

store   == <<storedKey, storedSession, age>>
memory  == <<keyPromise, sessionPromise>>
locals  == <<kind, awaits, key, cur, got, obs, todo>>
server  == <<dead, excused>>
vars    == <<store, holder, memory, pc, locals, server>>

Session == [grant : Grants, key : Keys]
\* 0: valid; 1: access token within refreshLeeway; 2: expired; 3: refresh
\* token expired too.
Ages == 0..3

Rest == {"idle", "done"}
UnderLease ==
  {"loadKey", "purge", "generate", "saveKey", "loadSession", "dropStale",
   "prove", "refreshing", "granted", "saveSession", "dropStepUp", "dropDead",
   "challenge", "exchange", "clearing", "returning", "throwing"}
PCs == Rest \cup {"joined", "waiting"} \cup UnderLease

tab(op) == TabOf[op]

Init ==
  /\ storedKey \in {None, Corrupt}
  /\ storedSession \in {None, Corrupt}
  /\ age = 0
  /\ holder = None
  /\ keyPromise = [t \in Tabs |-> None]
  /\ sessionPromise = [t \in Tabs |-> None]
  /\ pc = [c \in Calls |-> "idle"]
  /\ kind = [c \in Calls |-> None]
  /\ awaits = [c \in Calls |-> None]
  /\ key = [c \in Calls |-> None]
  /\ cur = [c \in Calls |-> None]
  /\ got = [c \in Calls |-> None]
  /\ obs = [c \in Calls |-> None]
  /\ todo = [c \in Calls |-> {}]
  /\ dead = {}
  /\ excused = {}

-----------------------------------------------------------------------------
(* Names nothing refers to stand for the fresh keys and grants.            *)

References ==
  {storedSession} \cup {cur[c] : c \in Calls} \cup {got[c] : c \in Calls}
                  \cup {obs[c] : c \in Calls}

FreshKey(k) ==
  /\ k \notin {storedKey} \cup {keyPromise[t] : t \in Tabs} \cup {key[c] : c \in Calls}
  /\ \A s \in References \cap Session : s.key # k

FreshGrant(g) == \A s \in References \cap Session : s.grant # g

\* Mutant: a session that is not validated against the key.
ValidSession_AnyKey(s, k) == s \in Session

\* isValidStoredSession: well formed and bound to this installation key.
ValidSession(s, k) == s \in Session /\ s.key = k

-----------------------------------------------------------------------------
(* The lease.                                                              *)

\* The call moves on to state.
Goto(op, state) == pc' = [pc EXCEPT ![op] = state]

\* lease.renew(), then state; a lost lease fails the call.
RenewThen(op, state) ==
  IF holder \in {None, op}
  THEN holder' = op /\ Goto(op, state)
  ELSE UNCHANGED holder /\ Goto(op, "throwing")

\* What clearSession and clearInstallation delete.
Cleared == [clearSession |-> {"session"}, clearInstallation |-> {"key", "session"}]

\* Mutant: the operation starts whoever holds the lease.
LeaseFree_Always == TRUE

\* tryAcquireMutationLease succeeds.
LeaseFree == holder = None

Acquire(op) ==
  /\ pc[op] = "waiting"
  /\ LeaseFree
  /\ holder' = op
  /\ IF kind[op] \in DOMAIN Cleared
     THEN /\ Goto(op, "clearing")
          /\ todo' = [todo EXCEPT ![op] = Cleared[kind[op]]]
     ELSE Goto(op, "loadKey") /\ UNCHANGED todo
  /\ UNCHANGED <<store, memory, kind, awaits, key, cur, got, obs, server>>

\* The record of a crashed or closed tab expires.
DeadLeaseExpires ==
  /\ holder = Dead
  /\ holder' = None
  /\ UNCHANGED <<store, memory, pc, locals, server>>

\* The lease of a running call expires: no heartbeat reached the store in time.
Lapse ==
  /\ MayLapse
  /\ holder \in Calls
  /\ holder' = None
  /\ UNCHANGED <<store, memory, pc, locals, server>>

\* A late heartbeat takes the free lease again.
HeartbeatRetakes(op) ==
  /\ MayLapse
  /\ pc[op] \in UnderLease
  /\ holder = None
  /\ holder' = op
  /\ UNCHANGED <<store, memory, pc, locals, server>>

-----------------------------------------------------------------------------
(* The public methods, up to their wait for the lease.                     *)

\* existing = promise; return existing.  Otherwise the call becomes it.
Begin(op, k, promise) ==
  /\ pc[op] = "idle"
  /\ kind' = [kind EXCEPT ![op] = k]
  /\ IF promise \in Calls
     THEN Goto(op, "joined") /\ awaits' = [awaits EXCEPT ![op] = promise]
     ELSE Goto(op, "waiting") /\ UNCHANGED awaits

\* key(): a settled key is returned at once, which is no step.
StartKey(op) ==
  /\ keyPromise[tab(op)] \notin Keys
  /\ Begin(op, "key", keyPromise[tab(op)])
  /\ keyPromise' = IF keyPromise[tab(op)] = None
                   THEN [keyPromise EXCEPT ![tab(op)] = op] ELSE keyPromise
  /\ UNCHANGED <<store, holder, sessionPromise, key, cur, got, obs, todo, server>>

StartSession(op) ==
  /\ Begin(op, "session", sessionPromise[tab(op)])
  /\ sessionPromise' = IF sessionPromise[tab(op)] = None
                       THEN [sessionPromise EXCEPT ![tab(op)] = op] ELSE sessionPromise
  /\ UNCHANGED <<store, holder, keyPromise, key, cur, got, obs, todo, server>>

\* refresh(): observed is read before the lease is asked for.
StartRefresh(op) ==
  /\ Begin(op, "refresh", None)
  /\ obs' = [obs EXCEPT ![op] = storedSession]
  /\ UNCHANGED <<store, holder, memory, key, cur, got, todo, server>>

StartClear(op) ==
  /\ \E k \in DOMAIN Cleared \cap Kinds : Begin(op, k, None)
  /\ UNCHANGED <<store, holder, memory, key, cur, got, obs, todo, server>>

Start(op) ==
  \/ "key" \in Kinds /\ StartKey(op)
  \/ "session" \in Kinds /\ StartSession(op)
  \/ "refresh" \in Kinds /\ StartRefresh(op)
  \/ StartClear(op)

-----------------------------------------------------------------------------
(* loadOrCreateKeyUnderLease                                               *)

\* Mutant: the key that was found or made is not remembered.
SetKeyPromise_Never(op, k) == UNCHANGED keyPromise

SetKeyPromise(op, k) == keyPromise' = [keyPromise EXCEPT ![tab(op)] = k]

\* isValidStoredKey: a well-formed record with the thumbprint of its own JWK.
ValidKey(record) == record \in Keys

\* The key is there: key() is done, the others go on to the session.
HaveKey(op) ==
  Goto(op, IF kind[op] = "key" THEN "returning" ELSE "loadSession")

RestoreKey(op) ==
  /\ pc[op] = "loadKey"
  /\ ValidKey(storedKey)
  /\ SetKeyPromise(op, storedKey)
  /\ key' = [key EXCEPT ![op] = storedKey]
  /\ HaveKey(op)
  /\ UNCHANGED <<store, holder, sessionPromise, kind, awaits, cur, got, obs, todo, server>>

\* No key, or an invalid one: both records are deleted before another is made.
MissKey(op) ==
  /\ pc[op] = "loadKey"
  /\ ~ValidKey(storedKey)
  /\ SetKeyPromise(op, None)
  /\ IF storedKey # None
     THEN /\ RenewThen(op, "purge")
          /\ todo' = [todo EXCEPT ![op] = {"key", "session"}]
     ELSE Goto(op, "generate") /\ UNCHANGED <<holder, todo>>
  /\ UNCHANGED <<store, sessionPromise, kind, awaits, key, cur, got, obs, server>>

GenerateKey(op) ==
  /\ pc[op] = "generate"
  /\ \E k \in Keys : FreshKey(k) /\ key' = [key EXCEPT ![op] = k]
  /\ RenewThen(op, "saveKey")
  /\ UNCHANGED <<store, memory, kind, awaits, cur, got, obs, todo, server>>

SaveKey(op) ==
  /\ pc[op] = "saveKey"
  /\ storedKey' = key[op]
  /\ SetKeyPromise(op, key[op])
  /\ HaveKey(op)
  /\ UNCHANGED <<storedSession, age, holder, sessionPromise, locals, server>>

-----------------------------------------------------------------------------
(* loadOrCreateSessionUnderLease and refreshUnderLease                     *)

\* Mutant: refresh() works on the session it observed before the lease.
Loaded_Observed(op) == IF kind[op] = "refresh" THEN obs[op] ELSE storedSession

\* The session is read again under the lease.
Loaded(op) == storedSession

\* The stored session is returned as it is: it has long enough to live, or,
\* for refresh(), it is not the one observed before the lease.
Adoptable(op) ==
  CASE kind[op] = "session" -> age = 0
    [] kind[op] = "refresh" -> storedSession # obs[op] /\ age < 2

LoadSession(op) ==
  /\ pc[op] = "loadSession"
  /\ IF ValidSession(Loaded(op), key[op]) /\ age < 3
     THEN /\ cur' = [cur EXCEPT ![op] = Loaded(op)]
          /\ Goto(op, IF Adoptable(op) THEN "returning" ELSE "prove")
          /\ UNCHANGED holder
     ELSE /\ UNCHANGED cur
          /\ IF storedSession = None
             THEN Goto(op, "challenge") /\ UNCHANGED holder
             ELSE RenewThen(op, "dropStale")
  /\ UNCHANGED <<store, memory, kind, awaits, key, got, obs, todo, server>>

\* store.clearSession(), then state.
DeleteSession(op, from, state) ==
  /\ pc[op] = from
  /\ storedSession' = None
  /\ age' = 0
  /\ Goto(op, state)
  /\ UNCHANGED <<storedKey, holder, memory, locals, server>>

DropStale(op) == DeleteSession(op, "dropStale", "challenge")

-----------------------------------------------------------------------------
(* performRefreshUnderLease and refreshStoredSessionUnderLease             *)

\* sendDPoPJSON proves with key(): the settled key of the tab.  The server
\* takes a proof only from the key the refresh token is bound to.
SendRefresh(op) ==
  /\ pc[op] = "prove"
  /\ keyPromise[tab(op)] \in Keys
  /\ Goto(op, IF keyPromise[tab(op)] = cur[op].key THEN "refreshing" ELSE "throwing")
  /\ UNCHANGED <<store, holder, memory, locals, server>>

\* The server rotates: the submitted token is consumed, the reply is out.
Rotate(op) ==
  /\ pc[op] = "refreshing"
  /\ cur[op].grant \notin dead
  /\ \E g \in Grants :
       /\ FreshGrant(g)
       /\ got' = [got EXCEPT ![op] = [grant |-> g, key |-> cur[op].key]]
       /\ dead' = (dead \ {g}) \cup {cur[op].grant}
       /\ excused' = excused \ {g}
  /\ Goto(op, "granted")
  /\ UNCHANGED <<store, holder, memory, kind, awaits, key, cur, obs, todo>>

\* Identity or attestation must be renewed: the session is dropped and a
\* fresh challenge follows.
RefuseStepUp(op) ==
  /\ pc[op] = "refreshing"
  /\ cur[op].grant \notin dead
  /\ RenewThen(op, "dropStepUp")
  /\ UNCHANGED <<store, memory, locals, server>>

DropStepUp(op) == DeleteSession(op, "dropStepUp", "challenge")

\* refresh_token_reused, session_revoked, ...: the session is dropped and the
\* error rethrown.
RefuseDead(op) ==
  /\ pc[op] = "refreshing"
  /\ cur[op].grant \in dead
  /\ RenewThen(op, "dropDead")
  /\ UNCHANGED <<store, memory, locals, server>>

DropDead(op) == DeleteSession(op, "dropDead", "throwing")

-----------------------------------------------------------------------------
(* establishUnderLease and persistGrantUnderLease                          *)

\* Identity token and session challenge.
Challenge(op) ==
  /\ pc[op] = "challenge"
  /\ keyPromise[tab(op)] \in Keys
  /\ Goto(op, "exchange")
  /\ UNCHANGED <<store, holder, memory, locals, server>>

\* Evidence and exchange: the grant is bound to the key that proved.
Exchange(op) ==
  /\ pc[op] = "exchange"
  /\ keyPromise[tab(op)] \in Keys
  /\ \E g \in Grants :
       /\ FreshGrant(g)
       /\ got' = [got EXCEPT ![op] = [grant |-> g, key |-> keyPromise[tab(op)]]]
       /\ dead' = dead \ {g}
       /\ excused' = excused \ {g}
  /\ Goto(op, "granted")
  /\ UNCHANGED <<store, holder, memory, kind, awaits, key, cur, obs, todo>>

\* Mutant: a grant is taken whatever key it is bound to.
BoundTo_Any(grant, k) == TRUE

\* grant.installation.dpop_jkt is the thumbprint of the loaded key.
BoundTo(grant, k) == grant.key = k

PersistGrant(op) ==
  /\ pc[op] = "granted"
  /\ IF BoundTo(got[op], key[op])
     THEN RenewThen(op, "saveSession")
     ELSE Goto(op, "throwing") /\ UNCHANGED holder
  /\ UNCHANGED <<store, memory, locals, server>>

\* Mutant: a session is stored only where there is none.
SaveSession_Forgotten(op) ==
  /\ pc[op] = "saveSession"
  /\ storedSession' = IF storedSession = None THEN got[op] ELSE storedSession
  /\ age' = 0
  /\ cur' = [cur EXCEPT ![op] = got[op]]
  /\ Goto(op, "returning")
  /\ UNCHANGED <<storedKey, holder, memory, kind, awaits, key, got, obs, todo, server>>

SaveSession(op) ==
  /\ pc[op] = "saveSession"
  /\ storedSession' = got[op]
  /\ age' = 0
  /\ cur' = [cur EXCEPT ![op] = got[op]]
  /\ Goto(op, "returning")
  /\ UNCHANGED <<storedKey, holder, memory, kind, awaits, key, got, obs, todo, server>>

-----------------------------------------------------------------------------
(* clearSession, clearInstallation, and the purge of an invalid key        *)

\* One transaction of the Promise.all commits; they commit in either order.
DeleteRecord(op, record) ==
  /\ pc[op] \in {"clearing", "purge"}
  /\ record \in todo[op]
  /\ todo' = [todo EXCEPT ![op] = @ \ {record}]
  /\ IF record = "key"
     THEN storedKey' = None /\ UNCHANGED <<storedSession, age>>
     ELSE storedSession' = None /\ age' = 0 /\ UNCHANGED storedKey
  /\ UNCHANGED <<holder, memory, pc, kind, awaits, key, cur, got, obs, server>>

AllDeleted(op) ==
  /\ pc[op] \in {"clearing", "purge"}
  /\ todo[op] = {}
  /\ IF pc[op] = "purge"
     THEN Goto(op, "generate") /\ UNCHANGED memory
     ELSE /\ Goto(op, "returning")
          /\ sessionPromise' = [sessionPromise EXCEPT ![tab(op)] = None]
          /\ IF kind[op] = "clearInstallation"
             THEN SetKeyPromise(op, None) ELSE UNCHANGED keyPromise
  /\ UNCHANGED <<store, holder, locals, server>>

-----------------------------------------------------------------------------
(* Failures and the end of a call.                                         *)

\* The rotation of these calls is lost: its grant was not stored.
Lost(calls) ==
  {cur[c].grant : c \in {d \in calls :
     pc[d] \in {"granted", "saveSession"} /\ cur[d] # None}} \cap dead

\* The store, the network, the server or an adapter fails the current await.
Throw(op) ==
  /\ pc[op] \in UnderLease \ {"returning", "throwing"}
  /\ Goto(op, "throwing")
  /\ todo' = [todo EXCEPT ![op] = {}]
  /\ excused' = excused \cup Lost({op})
  /\ UNCHANGED <<store, holder, memory, kind, awaits, key, cur, got, obs, dead>>

\* These calls are over: their promises are settled, their locals gone.
Finish(calls) ==
  /\ pc' = [c \in Calls |-> IF c \notin calls THEN pc[c]
                            ELSE IF Repeat THEN "idle" ELSE "done"]
  /\ kind' = [c \in Calls |-> IF c \in calls THEN None ELSE kind[c]]
  /\ awaits' = [c \in Calls |-> IF c \in calls THEN None ELSE awaits[c]]
  /\ key' = [c \in Calls |-> IF c \in calls THEN None ELSE key[c]]
  /\ cur' = [c \in Calls |-> IF c \in calls THEN None ELSE cur[c]]
  /\ got' = [c \in Calls |-> IF c \in calls THEN None ELSE got[c]]
  /\ obs' = [c \in Calls |-> IF c \in calls THEN None ELSE obs[c]]
  /\ todo' = [c \in Calls |-> IF c \in calls THEN {} ELSE todo[c]]

\* Mutant: joiners are not woken.
Joined_Nobody(op) == {}

Joined(op) == {c \in Calls : pc[c] = "joined" /\ awaits[c] = op}

Forget(promise, op) ==
  IF promise[tab(op)] = op THEN [promise EXCEPT ![tab(op)] = None] ELSE promise

\* The call returns what it loaded or was granted: the last renew() succeeds.
Succeeds(op) == pc[op] = "returning" /\ holder \in {None, op}

\* Last renew(), release, and the return to the caller and to those who
\* joined the promise.
Settle(op) ==
  /\ pc[op] \in {"returning", "throwing"}
  /\ holder' = IF holder = op THEN None ELSE holder
  /\ keyPromise' = Forget(keyPromise, op)
  /\ sessionPromise' = Forget(sessionPromise, op)
  /\ Finish({op} \cup Joined(op))
  /\ UNCHANGED <<store, server>>

CallsOf(t) == {c \in Calls : TabOf[c] = t}

\* The tab is closed, reloaded or crashes: its lease stays until it expires.
Crash(t) ==
  /\ \E c \in CallsOf(t) : pc[c] \notin Rest
  /\ holder' = IF holder \in CallsOf(t) THEN Dead ELSE holder
  /\ keyPromise' = [keyPromise EXCEPT ![t] = None]
  /\ sessionPromise' = [sessionPromise EXCEPT ![t] = None]
  /\ Finish({c \in CallsOf(t) : pc[c] \notin Rest})
  /\ excused' = excused \cup Lost(CallsOf(t))
  /\ UNCHANGED <<store, dead>>

-----------------------------------------------------------------------------
(* The environment.                                                        *)

\* Time takes the stored session to its next age.
GrowOld ==
  /\ storedSession \in Session
  /\ age < 3
  /\ age' = age + 1
  /\ UNCHANGED <<storedKey, storedSession, holder, memory, pc, locals, server>>

\* The server revokes the stored session, its component or its family.
Revoke ==
  /\ storedSession \in Session
  /\ storedSession.grant \notin dead
  /\ dead' = dead \cup {storedSession.grant}
  /\ excused' = excused \cup {storedSession.grant}
  /\ UNCHANGED <<store, holder, memory, pc, locals>>

-----------------------------------------------------------------------------

Step(op) ==
  \/ Acquire(op) \/ HeartbeatRetakes(op)
  \/ RestoreKey(op) \/ MissKey(op) \/ GenerateKey(op) \/ SaveKey(op)
  \/ LoadSession(op) \/ DropStale(op)
  \/ SendRefresh(op) \/ Rotate(op)
  \/ RefuseStepUp(op) \/ DropStepUp(op) \/ RefuseDead(op) \/ DropDead(op)
  \/ Challenge(op) \/ Exchange(op) \/ PersistGrant(op) \/ SaveSession(op)
  \/ \E record \in {"key", "session"} : DeleteRecord(op, record)
  \/ AllDeleted(op) \/ Settle(op)

Next ==
  \/ \E op \in Calls : Start(op) \/ Step(op) \/ Throw(op)
  \/ \E t \in Tabs : Crash(t)
  \/ DeadLeaseExpires \/ Lapse \/ GrowOld \/ Revoke

Spec == Init /\ [][Next]_vars

\* Requests, replies, transactions and adapters settle, an expired lease is
\* noticed; nothing makes a caller call, a step fail or the server revoke.
Fairness ==
  /\ \A op \in Calls : WF_vars(Step(op))
  /\ WF_vars(DeadLeaseExpires)

FairSpec == Spec /\ Fairness

-----------------------------------------------------------------------------
(* Properties.                                                             *)

\* Every variable has its type.
TypeOK ==
  /\ storedKey \in Keys \cup {None, Corrupt}
  /\ storedSession \in Session \cup {None, Corrupt}
  /\ age \in Ages
  /\ holder \in Calls \cup {None, Dead}
  /\ keyPromise \in [Tabs -> Keys \cup Calls \cup {None}]
  /\ sessionPromise \in [Tabs -> Calls \cup {None}]
  /\ pc \in [Calls -> PCs]
  /\ kind \in [Calls -> Kinds \cup {None}]
  /\ awaits \in [Calls -> Calls \cup {None}]
  /\ key \in [Calls -> Keys \cup {None}]
  /\ cur \in [Calls -> Session \cup {None}]
  /\ got \in [Calls -> Session \cup {None}]
  /\ obs \in [Calls -> Session \cup {None, Corrupt}]
  /\ todo \in [Calls -> SUBSET {"key", "session"}]
  /\ \A c \in Calls :
       /\ pc[c] = "waiting" => kind[c] \in Kinds
       /\ pc[c] \in {"prove", "refreshing"} => cur[c] \in Session
       /\ pc[c] \in {"granted", "saveSession"} => got[c] \in Session
  /\ dead \subseteq Grants
  /\ excused \subseteq Grants

\* First use is never overwritten: a key is saved only where there is none,
\* and a session only over nothing or over the one it was rotated from
\* (docs/architecture.md: a losing tab does not overwrite first-use state).
FirstUseKept ==
  [][\A op \in Calls :
       /\ SaveKey(op) => storedKey = None
       /\ SaveSession(op) => storedKey = key[op] /\ storedSession \in {None, cur[op]}]_vars

\* The refresh token in flight is the one the store holds, so no tab submits
\* one that another tab has already rotated or dropped.
SubmittedTokenIsStored ==
  \A op \in Calls : pc[op] = "refreshing" => storedSession = cur[op]

\* A tab submits no refresh token that a rotation has consumed whose outcome
\* another call has stored or is about to store (docs/architecture.md: nor submits a stale refresh token).
NoConsumedToken ==
  \A op \in Calls : pc[op] = "refreshing" => cur[op].grant \notin dead \ excused

\* The stored refresh token is live unless its rotation is being saved, or a
\* reply, a tab or the session itself was lost at the server.
StoredTokenLives ==
  storedSession \in Session /\ storedSession.grant \in dead \ excused =>
    \E op \in Calls : pc[op] \in {"granted", "saveSession"} /\ cur[op] = storedSession

\* session() and refresh() return the session that is stored, bound to the
\* stored key, with which the tab will sign its next proof.
ReturnsCommittedSession ==
  [][\A op \in Calls :
       Settle(op) /\ Succeeds(op) /\ kind[op] \in {"session", "refresh"} =>
         /\ cur[op] = storedSession
         /\ cur[op].key = storedKey
         /\ keyPromise[tab(op)] = storedKey]_vars

\* A call under the lease that signs a proof finds the tab's key settled: it
\* never waits, in key(), for the lease it holds itself.
NoSelfWait ==
  \A op \in Calls :
    pc[op] \in {"prove", "refreshing", "challenge", "exchange"} => keyPromise[tab(op)] = key[op]

\* Whatever lapses, the session a call is about to return is bound to the key
\* that this call loaded under the lease.
BoundToLoadedKey ==
  \A op \in Calls :
    pc[op] = "returning" /\ kind[op] \in {"session", "refresh"} => cur[op].key = key[op]

\* A joined promise belongs to a call that is still on its way.
PromisesPend ==
  /\ \A t \in Tabs : \A promise \in {keyPromise[t], sessionPromise[t]} :
       promise \in Calls => pc[promise] \notin Rest
  /\ \A c \in Calls : pc[c] = "joined" => pc[awaits[c]] \in {"waiting"} \cup UnderLease

\* The lease is held exactly by the call that runs under it.
SoleHolder ==
  /\ \A op \in Calls : pc[op] \in UnderLease => holder = op
  /\ holder \in Calls => pc[holder] \in UnderLease

\* What the call under the lease knows of the store and of its tab's memory.
KnowsKey(op) ==
  key[op] \in Keys /\ storedKey = key[op] /\ keyPromise[tab(op)] = key[op]

KnowsStore(op) ==
  /\ pc[op] \in {"loadKey", "purge", "generate", "saveKey"} =>
       kind[op] \in {"key", "session", "refresh"}
  /\ pc[op] = "purge" /\ "key" \notin todo[op] => storedKey = None
  /\ pc[op] \in {"generate", "saveKey"} => storedKey = None
  /\ pc[op] = "saveKey" => key[op] \in Keys
  /\ pc[op] \in {"loadSession", "dropStale", "prove", "refreshing", "granted",
                 "saveSession", "dropStepUp", "challenge", "exchange"} =>
       kind[op] \in {"session", "refresh"} /\ KnowsKey(op)
  /\ pc[op] \in {"challenge", "exchange"} => storedSession = None
  /\ pc[op] \in {"prove", "refreshing"} =>
       cur[op] = storedSession /\ storedSession \in Session /\ storedSession.key = key[op]
  /\ pc[op] \in {"granted", "saveSession"} =>
       /\ got[op] \in Session
       /\ got[op].key = key[op]
       /\ got[op].grant \notin dead
       /\ storedSession \in {None, cur[op]}
       /\ storedSession \in Session => storedSession.grant # got[op].grant
  /\ pc[op] = "clearing" => kind[op] \in {"clearSession", "clearInstallation"}
  /\ pc[op] = "returning" /\ kind[op] \in {"session", "refresh"} =>
       /\ KnowsKey(op)
       /\ cur[op] = storedSession /\ storedSession \in Session
       /\ storedSession.key = key[op]

\* The inductive invariant behind the safety properties above.
ManagerInv ==
  /\ TypeOK
  /\ SoleHolder
  /\ \A op \in Calls : KnowsStore(op)
  /\ StoredTokenLives

\* Abstractly, the calls take turns in the section that the lease promises.
Stage(op) ==
  IF pc[op] \in UnderLease THEN "inside" ELSE IF pc[op] = "done" THEN "after" ELSE "before"

Section == INSTANCE SingleFlight
  WITH Ops <- Calls, Reusable <- Repeat, stage <- [c \in Calls |-> Stage(c)]

\* A call works on the shared records only in its turn, once, and none after its end.
SectionSpec == Section!Spec

\* Every call settles, whoever else crashes, fails or revokes meanwhile.
EveryCallSettles == \A c \in Calls : pc[c] \notin Rest ~> pc[c] \in Rest

=============================================================================
