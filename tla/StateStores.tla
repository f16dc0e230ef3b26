------------------------------ MODULE StateStores ------------------------------
(* The stores under the session manager: an IndexedDB database shared by all tabs, *)
(* the connection each tab opens once and keeps (storage/indexeddb.ts), and the     *)
(* choice between that database and the memory of the tab (storage/adaptive.ts),    *)
(* which the first failure makes for good, whichever calls are running.             *)
(*                                                                                  *)
(* A call is session(), refresh() (both "grant") or clearInstallation ("clear") of  *)
(* session/manager.ts, reduced to its sequence of store operations.  A session is   *)
(* known by the key it is bound to.  A lease expires only when nobody renews it:    *)
(* what a lapse does is the subject of MutationLease and SessionManager.            *)
EXTENDS Integers, FiniteSets

CONSTANTS Tabs, Calls, TabOf,
          KindsOf,   \* what each call may be, "grant" or "clear"
          ModesOf,   \* what persistence.mode each tab may have
          NKeys,     \* bound on the keys alive at one time
          None

ASSUME StoresAssumption ==
    /\ TabOf \in [Calls -> Tabs]
    /\ KindsOf \in [Calls -> SUBSET {"grant", "clear"}]
    /\ ModesOf \in [Tabs -> SUBSET {"required", "allow-memory", "memory"}]
    /\ NKeys \in Nat \ {0}
    /\ None \notin Calls \cup (1 .. NKeys)

Database == "database"
ASSUME DatabaseAssumption == Database \notin Tabs

VARIABLES data,     \* what the database and each tab's memory hold
          handle,   \* databasePromise of each tab
          mode,     \* persistence.mode
          kind,     \* what each call is
          primary,  \* whether the tab still has its primary store
          cached,   \* keyPromise of each tab, once settled
          pc, key,  \* where a call is; the key it has loaded or made
          got,      \* the key its session is bound to
          todo,     \* records it has yet to delete
          moved     \* history: whether the tab has lost its primary store during the call, or
                    \* during another one beside which it waited or started

vars == <<data, handle, mode, kind, primary, cached, pc, key, got, todo, moved>>

Keys == 1 .. NKeys
Stores == {Database} \cup Tabs
Empty == [key |-> None, session |-> None, lease |-> None]
Inside == {"key", "renewKey", "putKey", "load", "renewDrop", "drop", "network", "renewSession",
           "putSession", "renewClear", "clear", "confirm"}
Releasing == {"release", "releaseFailed"}
Ended == {"done", "failed"}

Init ==
    /\ data = [s \in Stores |-> Empty]
    /\ handle = [t \in Tabs |-> "none"]
    /\ mode \in [Tabs -> {"required", "allow-memory", "memory"}]
    /\ \A t \in Tabs : mode[t] \in ModesOf[t]
    /\ kind \in [Calls -> {"grant", "clear"}]
    /\ \A c \in Calls : kind[c] \in KindsOf[c]
    /\ primary \in [Tabs -> BOOLEAN]
    /\ \A t \in Tabs : mode[t] = "memory" => ~primary[t]
    /\ cached = [t \in Tabs |-> None]
    /\ pc = [c \in Calls |-> "idle"]
    /\ key = [c \in Calls |-> None]
    /\ got = [c \in Calls |-> None]
    /\ todo = [c \in Calls |-> {}]
    /\ moved = [c \in Calls |-> "no"]

------------------------------------------------------------------------------
(* One store operation.                                                      *)

\* The promise of the connection is kept, rejected or not.
AfterFailure(h) == IF h = "none" THEN {"open", "rejected"} ELSE {h}

\* What a fallback of tab t does to its calls: those that hold a lease are interrupted, and
\* the others run beside them.
Holding(c) == pc[c] \in Inside \cup Releasing
Beside(t, f) == \E d \in Calls : TabOf[d] = t /\ Holding(d) /\ f[d] = "interrupted"
Interrupted(t) ==
    LET held == [c \in Calls |-> IF TabOf[c] = t /\ Holding(c) THEN "interrupted" ELSE moved[c]]
    IN  [c \in Calls |-> IF TabOf[c] = t /\ pc[c] = "asking" /\ Beside(t, held) THEN "beside" ELSE held[c]]

ServedBy_AnyMode(t, s) ==
    \/ /\ primary[t] /\ s = Database /\ handle[t] \in {"none", "open"}
       /\ handle' = [handle EXCEPT ![t] = "open"]
       /\ UNCHANGED <<primary, moved>>
    \/ /\ primary[t] /\ s = t
       /\ primary' = [primary EXCEPT ![t] = FALSE]
       /\ handle' \in {[handle EXCEPT ![t] = h] : h \in AfterFailure(handle[t])}
       /\ moved' = Interrupted(t)
    \/ /\ ~primary[t] /\ s = t
       /\ UNCHANGED <<handle, primary, moved>>

\* The operation of tab t reaches store s.  Any failure of the primary store, a
\* connection that cannot be opened or has been closed included, moves the tab to its
\* memory if the mode allows it, and the operation is done there.
ServedBy(t, s) ==
    \/ /\ primary[t] /\ s = Database /\ handle[t] \in {"none", "open"}
       /\ handle' = [handle EXCEPT ![t] = "open"]
       /\ UNCHANGED <<primary, moved>>
    \/ /\ primary[t] /\ s = t /\ mode[t] = "allow-memory"
       /\ primary' = [primary EXCEPT ![t] = FALSE]
       /\ handle' \in {[handle EXCEPT ![t] = h] : h \in AfterFailure(handle[t])}
       /\ moved' = Interrupted(t)
    \/ /\ ~primary[t] /\ s = t /\ mode[t] # "required"
       /\ UNCHANGED <<handle, primary, moved>>

\* The operation rejects: only where persistence is required.
Rejects(t) ==
    /\ mode[t] = "required"
    /\ handle' \in {[handle EXCEPT ![t] = h] : h \in AfterFailure(handle[t])}
    /\ UNCHANGED <<primary, moved>>

Goto(c, where) == pc' = [pc EXCEPT ![c] = where]
Owns(c, s) == data[s].lease \in {None, c}
Put(s, field, v) == data' = [data EXCEPT ![s][field] = v]
Referenced == {data[s].key : s \in Stores} \cup {data[s].session : s \in Stores}
              \cup {key[c] : c \in Calls} \cup {cached[t] : t \in Tabs}
\* A generated key is one that nothing refers to, the least: with NKeys referred to, none is made.
FreshKey(k) == k \notin Referenced /\ \A j \in 1 .. k - 1 : j \in Referenced

------------------------------------------------------------------------------
(* Calls.                                                                    *)

Start(c) ==
    /\ pc[c] = "idle"
    /\ Goto(c, "asking")
    /\ moved' = [moved EXCEPT ![c] = IF Beside(TabOf[c], moved) THEN "beside" ELSE @]
    /\ UNCHANGED <<data, handle, mode, kind, primary, cached, key, got, todo>>

\* The loop of withMutationLease.
Ask(c) ==
    /\ pc[c] = "asking"
    /\ \E s \in Stores :
          /\ ServedBy(TabOf[c], s)
          /\ IF Owns(c, s)
             THEN /\ Put(s, "lease", c)
                  /\ Goto(c, IF kind[c] = "grant" THEN "key" ELSE "renewClear")
             ELSE UNCHANGED <<data, pc>>
    /\ UNCHANGED <<mode, kind, cached, key, got, todo>>

Throw_ReleaseSwallowed(c) ==
    /\ Rejects(TabOf[c])
    /\ \/ pc[c] \in Inside \ {"network", "confirm"} /\ Goto(c, "releaseFailed")
       \/ pc[c] \in {"asking", "releaseFailed"} /\ Goto(c, "failed")
       \/ pc[c] = "confirm" /\ Goto(c, "release")
       \/ pc[c] = "release" /\ Goto(c, "done")
    /\ UNCHANGED <<data, mode, kind, cached, key, got, todo>>

\* Every other operation that rejects ends the call.
Throw(c) ==
    /\ Rejects(TabOf[c])
    /\ \/ pc[c] \in Inside \ {"network"} /\ Goto(c, "releaseFailed")
       \/ pc[c] \in {"asking"} \cup Releasing /\ Goto(c, "failed")
    /\ UNCHANGED <<data, mode, kind, cached, key, got, todo>>

\* await lease.renew(), then what comes next.
After(where) == CASE where = "renewKey" -> "putKey"
                  [] where = "renewDrop" -> "drop"
                  [] where = "renewSession" -> "putSession"
                  [] where = "renewClear" -> "clear"
                  [] where = "confirm" -> "release"

Renew(c) ==
    /\ pc[c] \in {"renewKey", "renewDrop", "renewSession", "renewClear", "confirm"}
    /\ \E s \in Stores :
          /\ ServedBy(TabOf[c], s)
          /\ IF Owns(c, s) THEN Put(s, "lease", c) /\ Goto(c, After(pc[c]))
                           ELSE UNCHANGED data /\ Goto(c, "releaseFailed")
    /\ todo' = [todo EXCEPT ![c] = IF pc[c] = "renewClear" THEN {"key", "session"} ELSE @]
    /\ UNCHANGED <<mode, kind, cached, key, got>>

\* The heartbeat, whose failure is swallowed but moves the tab to memory as well.
Heartbeat(c) ==
    /\ pc[c] \in Inside /\ primary[TabOf[c]]
    /\ \E s \in Stores :
          /\ ServedBy(TabOf[c], s)
          /\ IF Owns(c, s) THEN Put(s, "lease", c) ELSE UNCHANGED data
    /\ UNCHANGED <<mode, kind, cached, pc, key, got, todo>>

LoadKey(c) ==
    /\ pc[c] = "key"
    /\ \E s \in Stores :
          /\ ServedBy(TabOf[c], s)
          /\ IF data[s].key # None
             THEN /\ key' = [key EXCEPT ![c] = data[s].key]
                  /\ cached' = [cached EXCEPT ![TabOf[c]] = data[s].key]
                  /\ Goto(c, "load")
             ELSE /\ \E k \in Keys : FreshKey(k) /\ key' = [key EXCEPT ![c] = k]
                  /\ cached' = [cached EXCEPT ![TabOf[c]] = None]
                  /\ Goto(c, "renewKey")
    /\ UNCHANGED <<data, mode, kind, got, todo>>

SaveKey(c) ==
    /\ pc[c] = "putKey"
    /\ \E s \in Stores : ServedBy(TabOf[c], s) /\ Put(s, "key", key[c])
    /\ cached' = [cached EXCEPT ![TabOf[c]] = key[c]]
    /\ Goto(c, "load")
    /\ UNCHANGED <<mode, kind, key, got, todo>>

Accepts_AnyKey(c, session) == session # None

\* isValidStoredSession, of a session that has not expired.
Accepts(c, session) == session # None /\ session = key[c]

\* A session bound to the key is returned as it is, replaced or, expired, dropped; any
\* other is dropped.
LoadSession(c) ==
    /\ pc[c] = "load"
    /\ \E s \in Stores :
          /\ ServedBy(TabOf[c], s)
          /\ \/ /\ Accepts(c, data[s].session) /\ Goto(c, "confirm")
                /\ got' = [got EXCEPT ![c] = data[s].session]
             \/ data[s].session \in {None, key[c]} /\ Goto(c, "network") /\ UNCHANGED got
             \/ data[s].session # None /\ Goto(c, "renewDrop") /\ UNCHANGED got
    /\ UNCHANGED <<data, mode, kind, cached, key, todo>>

DropSession(c) ==
    /\ pc[c] = "drop"
    /\ \E s \in Stores : ServedBy(TabOf[c], s) /\ Put(s, "session", None)
    /\ Goto(c, "network")
    /\ UNCHANGED <<mode, kind, cached, key, got, todo>>

\* The grant is bound to the key that proof() used, the tab's, and must be bound to the call's.
Granted(c) ==
    /\ pc[c] = "network" /\ cached[TabOf[c]] # None
    /\ Goto(c, IF cached[TabOf[c]] = key[c] THEN "renewSession" ELSE "releaseFailed")
    /\ UNCHANGED <<data, handle, mode, kind, primary, cached, key, got, todo, moved>>

NotGranted(c) ==
    /\ pc[c] = "network"
    /\ Goto(c, "releaseFailed")
    /\ UNCHANGED <<data, handle, mode, kind, primary, cached, key, got, todo, moved>>

\* proof() finds no key promise: key() waits for a lease of its own, and holds it for a moment.
WaitsForKey(c) == pc[c] = "network" /\ cached[TabOf[c]] = None

NestedKey(c) ==
    /\ WaitsForKey(c)
    /\ \E s \in Stores :
          /\ ServedBy(TabOf[c], s)
          /\ data[s].lease = None
          /\ \E k \in Keys :
                /\ IF data[s].key # None THEN k = data[s].key ELSE FreshKey(k)
                /\ Put(s, "key", k) /\ cached' = [cached EXCEPT ![TabOf[c]] = k]
    /\ UNCHANGED <<mode, kind, pc, key, got, todo>>

SaveSession(c) ==
    /\ pc[c] = "putSession"
    /\ \E s \in Stores : ServedBy(TabOf[c], s) /\ Put(s, "session", key[c])
    /\ got' = [got EXCEPT ![c] = key[c]]
    /\ Goto(c, "confirm")
    /\ UNCHANGED <<mode, kind, cached, key, todo>>

\* clearInstallation: two deletes in either order, then the promises.
ClearRecord(c) ==
    /\ pc[c] = "clear"
    /\ \E f \in todo[c], s \in Stores :
          /\ ServedBy(TabOf[c], s) /\ Put(s, f, None)
          /\ todo' = [todo EXCEPT ![c] = @ \ {f}]
    /\ IF Cardinality(todo[c]) = 1
       THEN cached' = [cached EXCEPT ![TabOf[c]] = None] /\ Goto(c, "confirm")
       ELSE UNCHANGED <<cached, pc>>
    /\ UNCHANGED <<mode, kind, key, got>>

Release(c) ==
    /\ pc[c] \in Releasing
    /\ \E s \in Stores :
          /\ ServedBy(TabOf[c], s)
          /\ Put(s, "lease", IF data[s].lease = c THEN None ELSE data[s].lease)
    /\ Goto(c, IF pc[c] = "release" THEN "done" ELSE "failed")
    /\ UNCHANGED <<mode, kind, cached, key, got, todo>>

------------------------------------------------------------------------------
(* Time, other pages, restarts.                                              *)

\* The heartbeat keeps a lease of the database.  One in memory has none: it is taken to
\* outlast its call, but not one that waits for that very lease.
Renewed(s) ==
    \E c \in Calls : /\ data[s].lease = c /\ Holding(c)
                     /\ (s = Database) = primary[TabOf[c]]
                     /\ s = Database \/ ~WaitsForKey(c)

Expire_OfEnded(s) ==
    /\ data[s].lease # None /\ pc[data[s].lease] \in Ended
    /\ s # Database
    /\ Put(s, "lease", None)
    /\ UNCHANGED <<handle, mode, kind, primary, cached, pc, key, got, todo, moved>>

\* Nobody renews the lease any more: its call has ended, or its tab has moved to memory.
Expire(s) ==
    /\ data[s].lease # None /\ ~Renewed(s)
    /\ Put(s, "lease", None)
    /\ UNCHANGED <<handle, mode, kind, primary, cached, pc, key, got, todo, moved>>

\* Another page deletes the database: onversionchange closes every connection first.
DeleteDatabase ==
    /\ \E t \in Tabs : handle[t] = "open"
    /\ data' = [data EXCEPT ![Database] = Empty]
    /\ handle' = [t \in Tabs |-> IF handle[t] = "open" THEN "closed" ELSE handle[t]]
    /\ UNCHANGED <<mode, kind, primary, cached, pc, key, got, todo, moved>>

\* The page is reloaded: its calls end, and it begins with its primary store again.
Reload(t) ==
    /\ \E c \in Calls : TabOf[c] = t /\ pc[c] # "idle"
    /\ handle[t] # "none" \/ cached[t] # None \/ data[t] # Empty
    /\ data' = [data EXCEPT ![t] = Empty]
    /\ handle' = [handle EXCEPT ![t] = "none"]
    /\ primary' = [primary EXCEPT ![t] = mode[t] # "memory"]
    /\ cached' = [cached EXCEPT ![t] = None]
    /\ pc' = [c \in Calls |-> IF TabOf[c] = t /\ pc[c] # "idle" THEN "failed" ELSE pc[c]]
    /\ UNCHANGED <<mode, kind, key, got, todo, moved>>

Progress(c) ==
    \/ Ask(c) \/ Renew(c) \/ LoadKey(c) \/ SaveKey(c) \/ LoadSession(c) \/ DropSession(c)
    \/ Granted(c) \/ NestedKey(c) \/ SaveSession(c) \/ ClearRecord(c) \/ Release(c)

Next ==
    \/ \E c \in Calls : Start(c) \/ Progress(c) \/ Throw(c) \/ Heartbeat(c) \/ NotGranted(c)
    \/ \E s \in Stores : Expire(s)
    \/ \E t \in Tabs : Reload(t)
    \/ DeleteDatabase

\* A store request settles, and fails only if it must; an answer arrives; a lease that nobody
\* renews expires.
Usable(t) == primary[t] /\ handle[t] \in {"none", "open"}
Fairness ==
    /\ \A c \in Calls : WF_vars(Progress(c) /\ (Usable(TabOf[c]) => primary' = primary))
    /\ WF_vars(\E c \in Calls : ~Usable(TabOf[c]) /\ Throw(c))
    /\ WF_vars(\E s \in Stores : Expire(s))

Spec == Init /\ [][Next]_vars /\ Fairness

------------------------------------------------------------------------------
(* Properties.                                                               *)

TypeOK ==
    /\ data \in [Stores -> [key : Keys \cup {None}, session : Keys \cup {None}, lease : Calls \cup {None}]]
    /\ handle \in [Tabs -> {"none", "open", "closed", "rejected"}]
    /\ mode \in [Tabs -> {"required", "allow-memory", "memory"}]
    /\ kind \in [Calls -> {"grant", "clear"}]
    /\ primary \in [Tabs -> BOOLEAN]
    /\ cached \in [Tabs -> Keys \cup {None}]
    /\ pc \in [Calls -> Inside \cup Releasing \cup Ended \cup {"idle", "asking"}]
    /\ key \in [Calls -> Keys \cup {None}]
    /\ got \in [Calls -> Keys \cup {None}]
    /\ todo \in [Calls -> SUBSET {"key", "session"}]
    /\ moved \in [Calls -> {"no", "beside", "interrupted"}]

\* A tab that still has its primary store keeps nothing in memory, so that what
\* persistenceKind reports is true of everything the tab has stored.
KindIsTrue == \A t \in Tabs : data[t] # Empty => ~primary[t] /\ mode[t] # "required"

\* A call that holds a lease of the database has had its tab's connection opened.
Opened ==
    \A c \in Calls : Holding(c) /\ primary[TabOf[c]] => handle[TabOf[c]] \in {"open", "closed"}

\* No call beside which another lost its primary store is counted as untouched by it.
Untouched ==
    \A c \in Calls :
       /\ pc[c] = "idle" => moved[c] = "no"
       /\ pc[c] = "asking" => moved[c] # "interrupted"
       /\ pc[c] = "asking" \/ Holding(c) =>
          \A d \in Calls : TabOf[d] = TabOf[c] /\ Holding(d) /\ moved[d] = "interrupted" => moved[c] # "no"

\* A call is at its own kind of work, and one past loading its key has one.
GrantWork == {"key", "renewKey", "putKey", "load", "renewDrop", "drop", "network", "renewSession", "putSession"}
HasWork ==
    \A c \in Calls :
       /\ pc[c] \in GrantWork => kind[c] = "grant"
       /\ pc[c] \in {"renewClear", "clear"} => kind[c] = "clear"
       /\ pc[c] \in GrantWork \ {"key"} => key[c] # None

\* A call that still reaches the store in which it took its lease owns it, as does one that began
\* in memory beside an interrupted one, but for the wait in which its own lease may expire.
Home(c) == IF primary[TabOf[c]] THEN Database ELSE TabOf[c]
Undisturbed(c) == IF primary[TabOf[c]] THEN handle[TabOf[c]] = "open" ELSE moved[c] = "no"
Keeps(c) ==
    /\ Holding(c)
    /\ \/ Undisturbed(c)
       \/ ~primary[TabOf[c]] /\ moved[c] = "beside" /\ pc[c] \notin {"network", "renewSession", "releaseFailed"}
LeaseKept == \A c \in Calls : Keeps(c) => data[Home(c)].lease = c

\* A call nothing has disturbed works on the key its store and its tab have, and ends with a
\* session bound to it in that store.
PairKept ==
    \A c \in Calls : Holding(c) /\ Undisturbed(c) =>
       /\ pc[c] \in GrantWork \ {"key", "renewKey", "putKey"} =>
             data[Home(c)].key = key[c] /\ cached[TabOf[c]] = key[c]
       /\ pc[c] \in {"confirm", "release"} /\ kind[c] = "grant" =>
             data[Home(c)].key = got[c] /\ data[Home(c)].session = got[c] /\ cached[TabOf[c]] = got[c]

\* Whatever fails, a call that nothing has disturbed owns the store it works in, and works there on
\* the key its tab proves with; and no tab has records where its persistenceKind denies them.
StoresInv == TypeOK /\ KindIsTrue /\ Opened /\ Untouched /\ HasWork /\ LeaseKept /\ PairKept

\* The session a call returns is bound to the key the tab proves with, unless the tab lost its
\* primary store while the call held the lease, or the call waited or began while such a one, which
\* holds the database's lease and not the memory's, was still at work.  A fallback breaks no
\* other: what it leaves behind in database and memory never yields a mismatched pair later.
BoundReturn ==
    [][\A c \in Calls : pc[c] = "release" /\ pc'[c] = "done" /\ kind[c] = "grant"
          => moved'[c] # "no" \/ cached[TabOf[c]] = got[c]]_vars

\* Where persistence is required a call that succeeds has left its session in the database,
\* whatever has failed, been closed or been deleted in the meantime.
RequiredPersists ==
    [][\A c \in Calls :
          pc[c] = "release" /\ pc'[c] = "done" /\ kind[c] = "grant" /\ mode[TabOf[c]] = "required"
          => data[Database].session = got[c] /\ data[Database].key = got[c]]_vars

\* Every call settles, although a tab that moves to memory leaves its lease in the database
\* behind, and a closed or refused connection is never replaced.
EveryCallSettles == \A c \in Calls : []<>(pc[c] \in Ended \cup {"idle"})
=============================================================================
