------------------------ MODULE SessionManager_proofs ------------------------
(* Theorems of SessionManager, for every set of tabs, calls, keys and       *)
(* grants: those that assume ~MayLapse where no lease lapses (see           *)
(* MutationLease!Exclusive for when that is so), the others always.         *)
EXTENDS SessionManager, TLAPS

USE TabAssumption, DistinctAssumption, KindAssumption

\* The two clearing methods and what they delete.
LEMMA ClearedKinds ==
  /\ DOMAIN Cleared = {"clearSession", "clearInstallation"}
  /\ \A k \in DOMAIN Cleared : Cleared[k] \in SUBSET {"key", "session"}
  BY DEF Cleared

\* Which places are under the lease, and which are rest.
LEMMA States ==
  /\ UnderLease \subseteq PCs
  /\ Rest \cap UnderLease = {}
  /\ "waiting" \in PCs \ UnderLease /\ "joined" \in PCs \ UnderLease
  /\ "idle" \in PCs \ UnderLease /\ "done" \in PCs \ UnderLease
  BY DEF PCs, Rest, UnderLease

\* Calls that end, and those that joined them, are at rest; the others stay as they are.
LEMMA FinishType ==
  ASSUME TypeOK, NEW calls, Finish(calls)
  PROVE  /\ pc' \in [Calls -> PCs]
         /\ kind' \in [Calls -> Kinds \cup {None}]
         /\ awaits' \in [Calls -> Calls \cup {None}]
         /\ key' \in [Calls -> Keys \cup {None}]
         /\ cur' \in [Calls -> Session \cup {None}]
         /\ got' \in [Calls -> Session \cup {None}]
         /\ obs' \in [Calls -> Session \cup {None, Corrupt}]
         /\ todo' \in [Calls -> SUBSET {"key", "session"}]
         /\ \A c \in Calls :
              \/ pc'[c] \in Rest
              \/ pc'[c] = pc[c] /\ kind'[c] = kind[c] /\ cur'[c] = cur[c] /\ got'[c] = got[c]
  BY States DEF TypeOK, Finish, Rest

\* No call, no key and no session: the types hold.
LEMMA InitType == Init => TypeOK
  BY States DEF Init, TypeOK, Ages, Rest

\* A renewal moves its own call alone, on or to the failure.
LEMMA RenewType ==
  ASSUME TypeOK, NEW op \in Calls, NEW state \in PCs, RenewThen(op, state)
  PROVE  /\ holder' \in Calls \cup {None, Dead}
         /\ pc' \in [Calls -> PCs]
         /\ \A c \in Calls : c # op => pc'[c] = pc[c]
         /\ pc'[op] \in {state, "throwing"}
  BY States DEF TypeOK, RenewThen, Goto, UnderLease

\* A call that starts keeps the types.
LEMMA StartType == ASSUME TypeOK, NEW op \in Calls, Start(op) PROVE TypeOK'
<1> USE States DEF TypeOK, Begin, Goto, store, server, memory, tab
<1>1. CASE "key" \in Kinds /\ StartKey(op)
  BY <1>1 DEF StartKey
<1>2. CASE "session" \in Kinds /\ StartSession(op)
  BY <1>2 DEF StartSession
<1>3. CASE "refresh" \in Kinds /\ StartRefresh(op)
  BY <1>3 DEF StartRefresh
<1>4. CASE StartClear(op)
  BY <1>4, ClearedKinds DEF StartClear
<1> QED BY <1>1, <1>2, <1>3, <1>4 DEF Start

\* Every step of a call keeps the types.
LEMMA StepType == ASSUME TypeOK, NEW op \in Calls, Step(op) PROVE TypeOK'
<1> USE DEF TypeOK, Goto, store, server, memory, locals, tab, SetKeyPromise
<1>1. CASE Acquire(op)
  BY <1>1, ClearedKinds, States DEF Acquire, UnderLease
<1>2. CASE HeartbeatRetakes(op)
  BY <1>2 DEF HeartbeatRetakes
<1>3. CASE RestoreKey(op)
  BY <1>3, States DEF RestoreKey, ValidKey, HaveKey, UnderLease
<1>4. CASE MissKey(op)
  <2>1. "purge" \in PCs /\ "generate" \in PCs
    BY DEF PCs, UnderLease
  <2> QED BY <1>4, <2>1, RenewType DEF MissKey, ValidKey
<1>5. CASE GenerateKey(op)
  BY <1>5, RenewType DEF GenerateKey, PCs, UnderLease
<1>6. CASE SaveKey(op)
  BY <1>6, States DEF SaveKey, HaveKey, UnderLease
<1>7. CASE LoadSession(op)
  <2>1. {"returning", "prove", "challenge", "dropStale"} \subseteq PCs
    BY DEF PCs, UnderLease
  <2> QED BY <1>7, <2>1, RenewType DEF LoadSession, Loaded, ValidSession
<1>8. CASE DropStale(op) \/ DropStepUp(op) \/ DropDead(op)
  BY <1>8, States DEF DropStale, DropStepUp, DropDead, DeleteSession, UnderLease, Ages
<1>9. CASE SendRefresh(op)
  BY <1>9, States DEF SendRefresh, UnderLease
<1>10. CASE Rotate(op)
  <2>1. cur[op] \in Session
    BY <1>10 DEF Rotate
  <2>2. PICK g \in Grants :
          /\ got' = [got EXCEPT ![op] = [grant |-> g, key |-> cur[op].key]]
          /\ dead' = (dead \ {g}) \cup {cur[op].grant}
          /\ excused' = excused \ {g}
    BY <1>10 DEF Rotate
  <2>3. [grant |-> g, key |-> cur[op].key] \in Session /\ cur[op].grant \in Grants
    BY <2>1 DEF Session
  <2> QED BY <1>10, <2>2, <2>3, States DEF Rotate, UnderLease
<1>11. CASE RefuseStepUp(op) \/ RefuseDead(op)
  BY <1>11, RenewType DEF RefuseStepUp, RefuseDead, PCs, UnderLease
<1>12. CASE Challenge(op)
  BY <1>12, States DEF Challenge, UnderLease
<1>13. CASE Exchange(op)
  BY <1>13, States DEF Exchange, UnderLease, Session
<1>14. CASE PersistGrant(op)
  <2>1. {"saveSession", "throwing"} \subseteq PCs
    BY DEF PCs, UnderLease
  <2> QED BY <1>14, <2>1, RenewType DEF PersistGrant
<1>15. CASE SaveSession(op)
  BY <1>15, States DEF SaveSession, UnderLease, Ages
<1>16. CASE \E record \in {"key", "session"} : DeleteRecord(op, record)
  BY <1>16 DEF DeleteRecord, Ages
<1>17. CASE AllDeleted(op)
  BY <1>17, States DEF AllDeleted, UnderLease
<1>18. CASE Settle(op)
  BY <1>18, FinishType DEF Settle, Forget, Rest
<1> QED
  BY <1>1, <1>2, <1>3, <1>4, <1>5, <1>6, <1>7, <1>8, <1>9, <1>10, <1>11, <1>12,
     <1>13, <1>14, <1>15, <1>16, <1>17, <1>18 DEF Step

\* Every step keeps the types.
LEMMA NextType == TypeOK /\ [Next]_vars => TypeOK'
<1> SUFFICES ASSUME TypeOK, [Next]_vars PROVE TypeOK'
  OBVIOUS
<1> USE DEF store, server, memory, locals
<1>1. ASSUME NEW op \in Calls, Throw(op) PROVE TypeOK'
  <2>1. Lost({op}) \subseteq Grants
    BY DEF TypeOK, Lost
  <2> QED BY <1>1, <2>1, States DEF TypeOK, Throw, Goto, UnderLease
<1>2. ASSUME NEW t \in Tabs, Crash(t) PROVE TypeOK'
  <2>1. Lost(CallsOf(t)) \subseteq Grants
    BY DEF TypeOK, Lost
  <2> QED BY <1>2, <2>1, FinishType DEF TypeOK, Crash, Rest
<1>3. CASE DeadLeaseExpires \/ Lapse
  BY <1>3 DEF DeadLeaseExpires, Lapse, TypeOK
<1>4. CASE GrowOld
  BY <1>4 DEF GrowOld, TypeOK, Ages
<1>5. CASE Revoke
  BY <1>5 DEF Revoke, TypeOK, Session
<1>6. CASE UNCHANGED vars
  BY <1>6 DEF vars, TypeOK
<1> QED BY <1>1, <1>2, <1>3, <1>4, <1>5, <1>6, StartType, StepType DEF Next

(* The variables keep their types, lapse or not.                            *)
THEOREM TypeCorrect == Spec => []TypeOK
  BY InitType, NextType, PTL DEF Spec

(* The inductive invariant.                                                 *)
LEMMA InitManager == Init => ManagerInv
  BY InitType, States DEF Init, ManagerInv, SoleHolder, KnowsStore, StoredTokenLives,
     Session, UnderLease

\* A call under the lease holds it and is the only one there.
LEMMA Alone ==
  ASSUME ManagerInv, NEW op \in Calls, pc[op] \in UnderLease
  PROVE  holder = op /\ \A o \in Calls : o # op => pc[o] \notin UnderLease
  BY DEF ManagerInv, SoleHolder

(* A step of the call under the lease.                                      *)
LEMMA StepKnows ==
  ASSUME ManagerInv, ~MayLapse, NEW op \in Calls, Step(op)
  PROVE  SoleHolder' /\ \A o \in Calls : KnowsStore(o)'
<1>t. TypeOK
  BY DEF ManagerInv
<1>k. KnowsStore(op)
  BY DEF ManagerInv
<1>a. pc[op] \in UnderLease => holder = op /\ \A o \in Calls : o # op => pc[o] \notin UnderLease
  BY Alone
<1>h. holder = None => \A o \in Calls : pc[o] \notin UnderLease
  BY DEF ManagerInv, SoleHolder
<1> DEFINE Kept == /\ SoleHolder'
                   /\ \A o \in Calls : o # op => KnowsStore(o)'
                   /\ KnowsStore(op)'
<1> USE DEF Goto, store, server, memory, locals, tab, SetKeyPromise
<1>1. CASE Acquire(op)
  <2>1. SoleHolder' /\ \A o \in Calls : o # op => pc'[o] \notin UnderLease
    BY <1>1, <1>t, <1>a, <1>h DEF TypeOK, SoleHolder, UnderLease, Acquire, LeaseFree
  <2>2. \A o \in Calls : o # op => KnowsStore(o)'
    BY <2>1 DEF KnowsStore, UnderLease
  <2>3. KnowsStore(op)'
    <3>1. kind'[op] = kind[op] /\ kind[op] \in Kinds
      BY <1>1, <1>t DEF TypeOK, Acquire
    <3>2. \/ pc'[op] = "clearing" /\ kind[op] \in {"clearSession", "clearInstallation"}
          \/ pc'[op] = "loadKey" /\ kind[op] \in {"key", "session", "refresh"}
      BY <1>1, <1>t, <3>1, ClearedKinds DEF TypeOK, Acquire
    <3> QED BY <3>1, <3>2 DEF KnowsStore
  <2> QED BY <2>1, <2>2, <2>3
<1>2. CASE RestoreKey(op)
  <2>1. SoleHolder' /\ \A o \in Calls : o # op => pc'[o] \notin UnderLease
    BY <1>2, <1>t, <1>a, <1>h DEF TypeOK, SoleHolder, UnderLease, RestoreKey, ValidKey, HaveKey
  <2>2. \A o \in Calls : o # op => KnowsStore(o)'
    BY <2>1 DEF KnowsStore, UnderLease
  <2>3. KnowsStore(op)'
    BY <1>2, <1>t, <1>k, <1>a DEF TypeOK, KnowsStore, KnowsKey, UnderLease, RestoreKey, ValidKey, HaveKey
  <2> QED BY <2>1, <2>2, <2>3
<1>3. CASE MissKey(op)
  <2>1. SoleHolder' /\ \A o \in Calls : o # op => pc'[o] \notin UnderLease
    BY <1>3, <1>t, <1>a, <1>h DEF TypeOK, SoleHolder, UnderLease, MissKey, ValidKey, RenewThen
  <2>2. \A o \in Calls : o # op => KnowsStore(o)'
    BY <2>1 DEF KnowsStore, UnderLease
  <2>3. KnowsStore(op)'
    BY <1>3, <1>t, <1>k, <1>a DEF TypeOK, KnowsStore, KnowsKey, UnderLease, MissKey, ValidKey, RenewThen
  <2> QED BY <2>1, <2>2, <2>3
<1>4. CASE GenerateKey(op)
  <2>1. SoleHolder' /\ \A o \in Calls : o # op => pc'[o] \notin UnderLease
    BY <1>4, <1>t, <1>a, <1>h DEF TypeOK, SoleHolder, UnderLease, GenerateKey, RenewThen
  <2>2. \A o \in Calls : o # op => KnowsStore(o)'
    BY <2>1 DEF KnowsStore, UnderLease
  <2>3. KnowsStore(op)'
    BY <1>4, <1>t, <1>k, <1>a DEF TypeOK, KnowsStore, KnowsKey, UnderLease, GenerateKey, RenewThen
  <2> QED BY <2>1, <2>2, <2>3
<1>5. CASE SaveKey(op)
  <2>1. SoleHolder' /\ \A o \in Calls : o # op => pc'[o] \notin UnderLease
    BY <1>5, <1>t, <1>a, <1>h DEF TypeOK, SoleHolder, UnderLease, SaveKey, HaveKey
  <2>2. \A o \in Calls : o # op => KnowsStore(o)'
    BY <2>1 DEF KnowsStore, UnderLease
  <2>3. KnowsStore(op)'
    BY <1>5, <1>t, <1>k, <1>a DEF TypeOK, KnowsStore, KnowsKey, UnderLease, SaveKey, HaveKey
  <2> QED BY <2>1, <2>2, <2>3
<1>6. CASE LoadSession(op)
  <2>1. SoleHolder' /\ \A o \in Calls : o # op => pc'[o] \notin UnderLease
    BY <1>6, <1>t, <1>a, <1>h DEF TypeOK, SoleHolder, UnderLease, LoadSession, Loaded, ValidSession, RenewThen
  <2>2. \A o \in Calls : o # op => KnowsStore(o)'
    BY <2>1 DEF KnowsStore, UnderLease
  <2>3. KnowsStore(op)'
    BY <1>6, <1>t, <1>k, <1>a DEF TypeOK, KnowsStore, KnowsKey, UnderLease, LoadSession, Loaded, ValidSession, RenewThen
  <2> QED BY <2>1, <2>2, <2>3
<1>7. CASE DropStale(op)
  <2>1. SoleHolder' /\ \A o \in Calls : o # op => pc'[o] \notin UnderLease
    BY <1>7, <1>t, <1>a, <1>h DEF TypeOK, SoleHolder, UnderLease, DropStale, DeleteSession
  <2>2. \A o \in Calls : o # op => KnowsStore(o)'
    BY <2>1 DEF KnowsStore, UnderLease
  <2>3. KnowsStore(op)'
    BY <1>7, <1>t, <1>k, <1>a DEF TypeOK, KnowsStore, KnowsKey, UnderLease, DropStale, DeleteSession
  <2> QED BY <2>1, <2>2, <2>3
<1>8. CASE SendRefresh(op)
  <2>1. SoleHolder' /\ \A o \in Calls : o # op => pc'[o] \notin UnderLease
    BY <1>8, <1>t, <1>a, <1>h DEF TypeOK, SoleHolder, UnderLease, SendRefresh
  <2>2. \A o \in Calls : o # op => KnowsStore(o)'
    BY <2>1 DEF KnowsStore, UnderLease
  <2>3. KnowsStore(op)'
    BY <1>8, <1>t, <1>k, <1>a DEF TypeOK, KnowsStore, KnowsKey, UnderLease, SendRefresh
  <2> QED BY <2>1, <2>2, <2>3
<1>9. CASE Rotate(op)
  <2>1. SoleHolder' /\ \A o \in Calls : o # op => pc'[o] \notin UnderLease
    BY <1>9, <1>t, <1>a, <1>h DEF TypeOK, SoleHolder, UnderLease, Rotate, FreshGrant, References
  <2>2. \A o \in Calls : o # op => KnowsStore(o)'
    BY <2>1 DEF KnowsStore, UnderLease
  <2>3. KnowsStore(op)'
    <3>1. cur[op] = storedSession /\ storedSession \in Session
            /\ storedSession.key = key[op] /\ KnowsKey(op)
            /\ kind[op] \in {"session", "refresh"}
      BY <1>9, <1>k DEF Rotate, KnowsStore
    <3>2. PICK g \in Grants :
            /\ FreshGrant(g)
            /\ got' = [got EXCEPT ![op] = [grant |-> g, key |-> cur[op].key]]
            /\ dead' = (dead \ {g}) \cup {cur[op].grant}
      BY <1>9 DEF Rotate
    <3>3. storedSession.grant # g
      BY <3>1, <3>2 DEF FreshGrant, References
    <3>4. got'[op] = [grant |-> g, key |-> key[op]] /\ got'[op] \in Session
      BY <1>t, <3>1, <3>2 DEF TypeOK, Session, KnowsKey
    <3>5. pc' = [pc EXCEPT ![op] = "granted"] /\ UNCHANGED <<storedKey, storedSession, keyPromise, kind, key, cur, todo>>
      BY <1>9 DEF Rotate
    <3> QED BY <1>t, <3>1, <3>2, <3>3, <3>4, <3>5 DEF TypeOK, KnowsStore, KnowsKey
  <2> QED BY <2>1, <2>2, <2>3
<1>10. CASE RefuseStepUp(op)
  <2>1. SoleHolder' /\ \A o \in Calls : o # op => pc'[o] \notin UnderLease
    BY <1>10, <1>t, <1>a, <1>h DEF TypeOK, SoleHolder, UnderLease, RefuseStepUp, RenewThen
  <2>2. \A o \in Calls : o # op => KnowsStore(o)'
    BY <2>1 DEF KnowsStore, UnderLease
  <2>3. KnowsStore(op)'
    BY <1>10, <1>t, <1>k, <1>a DEF TypeOK, KnowsStore, KnowsKey, UnderLease, RefuseStepUp, RenewThen
  <2> QED BY <2>1, <2>2, <2>3
<1>11. CASE DropStepUp(op)
  <2>1. SoleHolder' /\ \A o \in Calls : o # op => pc'[o] \notin UnderLease
    BY <1>11, <1>t, <1>a, <1>h DEF TypeOK, SoleHolder, UnderLease, DropStepUp, DeleteSession
  <2>2. \A o \in Calls : o # op => KnowsStore(o)'
    BY <2>1 DEF KnowsStore, UnderLease
  <2>3. KnowsStore(op)'
    BY <1>11, <1>t, <1>k, <1>a DEF TypeOK, KnowsStore, KnowsKey, UnderLease, DropStepUp, DeleteSession
  <2> QED BY <2>1, <2>2, <2>3
<1>12. CASE RefuseDead(op)
  <2>1. SoleHolder' /\ \A o \in Calls : o # op => pc'[o] \notin UnderLease
    BY <1>12, <1>t, <1>a, <1>h DEF TypeOK, SoleHolder, UnderLease, RefuseDead, RenewThen
  <2>2. \A o \in Calls : o # op => KnowsStore(o)'
    BY <2>1 DEF KnowsStore, UnderLease
  <2>3. KnowsStore(op)'
    BY <1>12, <1>t, <1>k, <1>a DEF TypeOK, KnowsStore, KnowsKey, UnderLease, RefuseDead, RenewThen
  <2> QED BY <2>1, <2>2, <2>3
<1>13. CASE DropDead(op)
  <2>1. SoleHolder' /\ \A o \in Calls : o # op => pc'[o] \notin UnderLease
    BY <1>13, <1>t, <1>a, <1>h DEF TypeOK, SoleHolder, UnderLease, DropDead, DeleteSession
  <2>2. \A o \in Calls : o # op => KnowsStore(o)'
    BY <2>1 DEF KnowsStore, UnderLease
  <2>3. KnowsStore(op)'
    BY <1>13, <1>t, <1>k, <1>a DEF TypeOK, KnowsStore, KnowsKey, UnderLease, DropDead, DeleteSession
  <2> QED BY <2>1, <2>2, <2>3
<1>14. CASE Challenge(op)
  <2>1. SoleHolder' /\ \A o \in Calls : o # op => pc'[o] \notin UnderLease
    BY <1>14, <1>t, <1>a, <1>h DEF TypeOK, SoleHolder, UnderLease, Challenge
  <2>2. \A o \in Calls : o # op => KnowsStore(o)'
    BY <2>1 DEF KnowsStore, UnderLease
  <2>3. KnowsStore(op)'
    BY <1>14, <1>t, <1>k, <1>a DEF TypeOK, KnowsStore, KnowsKey, UnderLease, Challenge
  <2> QED BY <2>1, <2>2, <2>3
<1>15. CASE Exchange(op)
  <2>1. SoleHolder' /\ \A o \in Calls : o # op => pc'[o] \notin UnderLease
    BY <1>15, <1>t, <1>a, <1>h DEF TypeOK, SoleHolder, UnderLease, Exchange, FreshGrant, References
  <2>2. \A o \in Calls : o # op => KnowsStore(o)'
    BY <2>1 DEF KnowsStore, UnderLease
  <2>3. KnowsStore(op)'
    <3>1. storedSession = None /\ KnowsKey(op) /\ kind[op] \in {"session", "refresh"}
      BY <1>15, <1>k DEF Exchange, KnowsStore
    <3>2. PICK g \in Grants :
            /\ got' = [got EXCEPT ![op] = [grant |-> g, key |-> keyPromise[tab(op)]]]
            /\ dead' = dead \ {g}
      BY <1>15 DEF Exchange
    <3>3. got'[op] = [grant |-> g, key |-> key[op]] /\ got'[op] \in Session
      BY <1>t, <3>1, <3>2 DEF TypeOK, Session, KnowsKey
    <3>4. pc' = [pc EXCEPT ![op] = "granted"] /\ UNCHANGED <<storedKey, storedSession, keyPromise, kind, key, cur, todo>>
      BY <1>15 DEF Exchange
    <3> QED BY <1>t, <3>1, <3>2, <3>3, <3>4 DEF TypeOK, KnowsStore, KnowsKey, Session
  <2> QED BY <2>1, <2>2, <2>3
<1>16. CASE PersistGrant(op)
  <2>1. SoleHolder' /\ \A o \in Calls : o # op => pc'[o] \notin UnderLease
    BY <1>16, <1>t, <1>a, <1>h DEF TypeOK, SoleHolder, UnderLease, PersistGrant, BoundTo, RenewThen
  <2>2. \A o \in Calls : o # op => KnowsStore(o)'
    BY <2>1 DEF KnowsStore, UnderLease
  <2>3. KnowsStore(op)'
    BY <1>16, <1>t, <1>k, <1>a DEF TypeOK, KnowsStore, KnowsKey, UnderLease, PersistGrant, BoundTo, RenewThen
  <2> QED BY <2>1, <2>2, <2>3
<1>17. CASE SaveSession(op)
  <2>1. SoleHolder' /\ \A o \in Calls : o # op => pc'[o] \notin UnderLease
    BY <1>17, <1>t, <1>a, <1>h DEF TypeOK, SoleHolder, UnderLease, SaveSession
  <2>2. \A o \in Calls : o # op => KnowsStore(o)'
    BY <2>1 DEF KnowsStore, UnderLease
  <2>3. KnowsStore(op)'
    BY <1>17, <1>t, <1>k, <1>a DEF TypeOK, KnowsStore, KnowsKey, UnderLease, SaveSession
  <2> QED BY <2>1, <2>2, <2>3
<1>18. CASE \E record \in {"key", "session"} : DeleteRecord(op, record)
  <2>1. SoleHolder' /\ \A o \in Calls : o # op => pc'[o] \notin UnderLease
    BY <1>18, <1>t, <1>a, <1>h DEF TypeOK, SoleHolder, UnderLease, DeleteRecord
  <2>2. \A o \in Calls : o # op => KnowsStore(o)'
    BY <2>1 DEF KnowsStore, UnderLease
  <2>3. KnowsStore(op)'
    BY <1>18, <1>t, <1>k, <1>a DEF TypeOK, KnowsStore, KnowsKey, UnderLease, DeleteRecord
  <2> QED BY <2>1, <2>2, <2>3
<1>19. CASE AllDeleted(op)
  <2>1. SoleHolder' /\ \A o \in Calls : o # op => pc'[o] \notin UnderLease
    BY <1>19, <1>t, <1>a, <1>h DEF TypeOK, SoleHolder, UnderLease, AllDeleted
  <2>2. \A o \in Calls : o # op => KnowsStore(o)'
    BY <2>1 DEF KnowsStore, UnderLease
  <2>3. KnowsStore(op)'
    BY <1>19, <1>t, <1>k, <1>a DEF TypeOK, KnowsStore, KnowsKey, UnderLease, AllDeleted
  <2> QED BY <2>1, <2>2, <2>3
<1>20. CASE Settle(op)
  <2>1. pc'[op] \in Rest /\ \A o \in Calls : pc'[o] \in {pc[o]} \cup Rest
    BY <1>20, <1>t DEF TypeOK, Settle, Finish, Rest
  <2>2. \A o \in Calls : pc'[o] \notin UnderLease
    BY <1>20, <1>a, <2>1, States DEF Settle, UnderLease
  <2>3. holder' = None
    BY <1>20, <1>a DEF Settle, UnderLease
  <2> QED BY <2>2, <2>3 DEF SoleHolder, KnowsStore, UnderLease
<1>21. CASE HeartbeatRetakes(op)
  BY <1>21 DEF HeartbeatRetakes
<1> QED
  BY <1>1, <1>2, <1>3, <1>4, <1>5, <1>6, <1>7, <1>8, <1>9, <1>10, <1>11, <1>12, <1>13, <1>14, <1>15, <1>16, <1>17, <1>18, <1>19, <1>20, <1>21 DEF Step

(* A step of the environment, of another call, or a failure.                *)
LEMMA OtherKnows ==
  ASSUME ManagerInv, ~MayLapse, [Next]_vars, \A op \in Calls : ~Step(op)
  PROVE  SoleHolder' /\ \A o \in Calls : KnowsStore(o)'
<1>t. TypeOK
  BY DEF ManagerInv
<1>k. SoleHolder /\ \A o \in Calls : KnowsStore(o)
  BY DEF ManagerInv
<1> USE DEF store, server, memory, locals, tab
<1>1. ASSUME NEW op \in Calls, Start(op) PROVE SoleHolder' /\ \A o \in Calls : KnowsStore(o)'
  <2>1. /\ pc[op] = "idle" /\ pc'[op] \in {"waiting", "joined"}
        /\ \A o \in Calls : o # op => pc'[o] = pc[o] /\ kind'[o] = kind[o]
        /\ UNCHANGED <<store, holder, key, cur, got, todo, dead>>
    BY <1>1, <1>t DEF TypeOK, Start, StartKey, StartSession, StartRefresh, StartClear, Begin, Goto
  <2>2. \A t \in Tabs : keyPromise[t] \in Keys => keyPromise'[t] = keyPromise[t]
    BY <1>1, <1>t DEF TypeOK, Start, StartKey, StartSession, StartRefresh, StartClear
  <2>3. SoleHolder'
    BY <1>t, <1>k, <2>1, States DEF TypeOK, SoleHolder, UnderLease
  <2>4. ASSUME NEW o \in Calls PROVE KnowsStore(o)'
    <3>1. CASE o = op
      BY <2>1, <3>1 DEF KnowsStore
    <3>2. CASE o # op
      <4>1. KnowsKey(o) => KnowsKey(o)'
        BY <2>1, <2>2 DEF KnowsKey
      <4> QED BY <1>k, <2>1, <3>2, <4>1 DEF KnowsStore
    <3> QED BY <3>1, <3>2
  <2> QED BY <2>3, <2>4
<1>2. ASSUME NEW op \in Calls, Throw(op) PROVE SoleHolder' /\ \A o \in Calls : KnowsStore(o)'
  <2>1. SoleHolder' /\ \A o \in Calls : o # op => pc'[o] \notin UnderLease
    BY <1>2, <1>t, <1>k, Alone DEF TypeOK, Throw, Goto, SoleHolder, UnderLease
  <2>2. pc'[op] = "throwing"
    BY <1>2, <1>t DEF TypeOK, Throw, Goto
  <2> QED BY <2>1, <2>2 DEF KnowsStore, UnderLease
<1>3. ASSUME NEW t \in Tabs, Crash(t) PROVE SoleHolder' /\ \A o \in Calls : KnowsStore(o)'
  <2>1. \A o \in Calls : TabOf[o] = t => pc'[o] \in Rest
    BY <1>3, <1>t DEF Crash, Finish, CallsOf, Rest
  <2>2. \A o \in Calls : TabOf[o] # t =>
          /\ pc'[o] = pc[o] /\ kind'[o] = kind[o] /\ key'[o] = key[o] /\ cur'[o] = cur[o]
          /\ got'[o] = got[o] /\ todo'[o] = todo[o] /\ keyPromise'[TabOf[o]] = keyPromise[TabOf[o]]
    BY <1>3, <1>t DEF TypeOK, Crash, Finish, CallsOf
  <2>3. UNCHANGED <<store, dead>> /\ holder' = IF holder \in CallsOf(t) THEN Dead ELSE holder
    BY <1>3 DEF Crash
  <2>4. SoleHolder'
    BY <1>t, <1>k, <2>1, <2>2, <2>3, States DEF TypeOK, SoleHolder, CallsOf
  <2>5. ASSUME NEW o \in Calls PROVE KnowsStore(o)'
    <3>1. CASE TabOf[o] = t
      BY <2>1, <3>1 DEF KnowsStore, Rest
    <3>2. CASE TabOf[o] # t
      <4>1. KnowsKey(o) => KnowsKey(o)'
        BY <2>2, <2>3, <3>2 DEF KnowsKey
      <4> QED BY <1>k, <2>2, <2>3, <3>2, <4>1 DEF KnowsStore
    <3> QED BY <3>1, <3>2
  <2> QED BY <2>4, <2>5
<1>4. CASE DeadLeaseExpires
  BY <1>4, <1>k DEF DeadLeaseExpires, SoleHolder, KnowsStore, KnowsKey
<1>5. CASE Lapse
  BY <1>5 DEF Lapse
<1>6. CASE GrowOld
  BY <1>6, <1>k DEF GrowOld, SoleHolder, KnowsStore, KnowsKey
<1>7. CASE Revoke
  BY <1>7, <1>k DEF Revoke, SoleHolder, KnowsStore, KnowsKey
<1>8. CASE UNCHANGED vars
  BY <1>8, <1>k DEF vars, SoleHolder, KnowsStore, KnowsKey
<1> QED BY <1>1, <1>2, <1>3, <1>4, <1>5, <1>6, <1>7, <1>8 DEF Next

(* The stored token dies only while its successor is on its way, or for a   *)
(* reason outside the client.                                               *)
LEMMA NextTokenLives ==
  ASSUME ManagerInv, ~MayLapse, [Next]_vars
  PROVE  StoredTokenLives'
<1> DEFINE Saving(o) == pc[o] \in {"granted", "saveSession"} /\ cur[o] = storedSession
           Void == storedSession \in Session /\ storedSession.grant \in dead \ excused
<1>t. TypeOK
  BY DEF ManagerInv
<1>l. Void => \E o \in Calls : Saving(o)
  BY DEF ManagerInv, StoredTokenLives
<1>k. \A o \in Calls : KnowsStore(o)
  BY DEF ManagerInv
<1>s. SUFFICES ASSUME Void' PROVE (\E o \in Calls : Saving(o))'
  BY DEF StoredTokenLives
<1> USE DEF Goto, store, server, memory, locals
<1>1. ASSUME NEW op \in Calls, Rotate(op) PROVE Saving(op)'
  BY <1>1, <1>t, <1>k DEF TypeOK, Rotate, KnowsStore
<1>2. ASSUME NEW op \in Calls, Exchange(op) PROVE FALSE
  BY <1>2, <1>s, <1>k DEF Exchange, KnowsStore, Session
<1>3. ASSUME NEW op \in Calls, SaveSession(op) PROVE FALSE
  BY <1>3, <1>s, <1>k DEF SaveSession, KnowsStore
<1>4. ASSUME NEW op \in Calls,
             \/ DropStale(op) \/ DropStepUp(op) \/ DropDead(op)
             \/ DeleteRecord(op, "session")
      PROVE  FALSE
  BY <1>4, <1>s DEF DropStale, DropStepUp, DropDead, DeleteSession, DeleteRecord, Session
<1>5. ASSUME NEW op \in Calls, PersistGrant(op) PROVE (\E o \in Calls : Saving(o))'
  <2>1. pc'[op] = "saveSession"
    BY <1>5, <1>t, <1>k, Alone DEF TypeOK, PersistGrant, BoundTo, RenewThen, KnowsStore, UnderLease
  <2>2. pc[op] = "granted" /\ \A o \in Calls : o # op => pc[o] \notin UnderLease
    BY <1>5, Alone DEF PersistGrant, UnderLease
  <2>3. UNCHANGED <<storedSession, dead, excused, cur>>
    BY <1>5 DEF PersistGrant
  <2> QED BY <1>l, <1>s, <2>1, <2>2, <2>3 DEF UnderLease
<1>6. ASSUME NEW op \in Calls, Throw(op) PROVE FALSE
  <2>1. \A o \in Calls : o # op => pc[o] \notin UnderLease
    BY <1>6, Alone DEF Throw
  <2>2. UNCHANGED <<storedSession, dead>> /\ excused' = excused \cup Lost({op})
    BY <1>6 DEF Throw
  <2>3. Saving(op)
    BY <1>l, <1>s, <2>1, <2>2 DEF UnderLease
  <2>4. storedSession.grant \in Lost({op})
    BY <1>s, <2>2, <2>3 DEF Lost, Session
  <2> QED BY <1>s, <2>2, <2>4
<1>7. ASSUME NEW t \in Tabs, Crash(t) PROVE (\E o \in Calls : Saving(o))'
  <2>1. UNCHANGED <<storedSession, dead>> /\ excused' = excused \cup Lost(CallsOf(t))
    BY <1>7 DEF Crash
  <2>2. PICK o \in Calls : Saving(o)
    BY <1>l, <1>s, <2>1
  <2>3. CASE TabOf[o] = t
    <3>1. storedSession.grant \in Lost(CallsOf(t))
      BY <1>s, <2>1, <2>2, <2>3 DEF Lost, CallsOf, Session
    <3> QED BY <1>s, <2>1, <3>1
  <2>4. CASE TabOf[o] # t
    <3>1. pc'[o] = pc[o] /\ cur'[o] = cur[o]
      BY <1>7, <1>t, <2>4 DEF TypeOK, Crash, Finish, CallsOf
    <3> QED BY <2>1, <2>2, <3>1
  <2> QED BY <2>3, <2>4
<1>8. CASE Revoke
  BY <1>8, <1>s DEF Revoke
<1>9. ASSUME NEW op \in Calls, Settle(op) PROVE FALSE
  <2>1. \A o \in Calls : ~Saving(o)
    BY <1>9, Alone DEF Settle, UnderLease
  <2>2. UNCHANGED <<storedSession, dead, excused>>
    BY <1>9 DEF Settle
  <2> QED BY <1>l, <1>s, <2>1, <2>2
<1>10. ASSUME NEW op \in Calls, Start(op) PROVE (\E o \in Calls : Saving(o))'
  <2>1. /\ \A o \in Calls : pc[o] # "idle" => pc'[o] = pc[o]
        /\ UNCHANGED <<storedSession, dead, excused, cur>>
    BY <1>10, <1>t DEF TypeOK, Start, StartKey, StartSession, StartRefresh, StartClear, Begin
  <2> QED BY <1>l, <1>s, <2>1
<1>11. ASSUME NEW op \in Calls, Acquire(op) PROVE (\E o \in Calls : Saving(o))'
  <2>1. /\ \A o \in Calls : pc[o] # "waiting" => pc'[o] = pc[o]
        /\ UNCHANGED <<storedSession, dead, excused, cur>>
    BY <1>11, <1>t DEF TypeOK, Acquire
  <2> QED BY <1>l, <1>s, <2>1
<1>12. ASSUME NEW op \in Calls,
              \/ RestoreKey(op) \/ MissKey(op) \/ GenerateKey(op) \/ SaveKey(op)
              \/ LoadSession(op) \/ SendRefresh(op) \/ RefuseStepUp(op) \/ RefuseDead(op)
              \/ Challenge(op) \/ DeleteRecord(op, "key") \/ AllDeleted(op)
       PROVE  FALSE
  <2>1. pc[op] \in UnderLease \ {"granted", "saveSession"}
    BY <1>12 DEF RestoreKey, ValidKey, MissKey, GenerateKey, SaveKey, LoadSession, SendRefresh,
       RefuseStepUp, RefuseDead, Challenge, DeleteRecord, AllDeleted, UnderLease
  <2>2. UNCHANGED <<storedSession, dead, excused>>
    BY <1>12 DEF RestoreKey, ValidKey, MissKey, GenerateKey, SaveKey, LoadSession, SendRefresh,
       RefuseStepUp, RefuseDead, Challenge, DeleteRecord, AllDeleted
  <2>3. \A o \in Calls : ~Saving(o)
    BY <2>1, Alone DEF UnderLease
  <2> QED BY <1>l, <1>s, <2>2, <2>3
<1>13. ASSUME NEW op \in Calls, HeartbeatRetakes(op) PROVE FALSE
  BY <1>13 DEF HeartbeatRetakes
<1>14. CASE DeadLeaseExpires \/ Lapse \/ GrowOld \/ UNCHANGED vars
  BY <1>14, <1>l, <1>s DEF DeadLeaseExpires, Lapse, GrowOld, vars
<1> QED
  BY <1>1, <1>2, <1>3, <1>4, <1>5, <1>6, <1>7, <1>8, <1>9, <1>10, <1>11, <1>12, <1>13,
     <1>14 DEF Next, Step

\* The invariant is inductive where leases do not lapse.
LEMMA NextManager == ManagerInv /\ ~MayLapse /\ [Next]_vars => ManagerInv'
<1> SUFFICES ASSUME ManagerInv, ~MayLapse, [Next]_vars PROVE ManagerInv'
  OBVIOUS
<1>1. TypeOK'
  BY NextType DEF ManagerInv
<1>2. SoleHolder' /\ \A o \in Calls : KnowsStore(o)'
  <2>1. CASE \E op \in Calls : Step(op)
    BY <2>1, StepKnows
  <2>2. CASE \A op \in Calls : ~Step(op)
    BY <2>2, OtherKnows
  <2> QED BY <2>1, <2>2
<1> QED BY <1>1, <1>2, NextTokenLives DEF ManagerInv

(* While no lease lapses, the call under the lease knows the store.         *)
THEOREM ManagerInvariant == ASSUME ~MayLapse PROVE Spec => []ManagerInv
  BY InitManager, NextManager, PTL DEF Spec

(* A refresh token in flight is the one the store holds.                    *)
THEOREM SubmitsStoredToken == ASSUME ~MayLapse PROVE Spec => []SubmittedTokenIsStored
<1>1. ManagerInv => SubmittedTokenIsStored
  BY DEF ManagerInv, KnowsStore, SubmittedTokenIsStored
<1> QED BY <1>1, ManagerInvariant, PTL

(* The stored refresh token is dead only for a reason outside the client.   *)
THEOREM StoredTokenSurvives == ASSUME ~MayLapse PROVE Spec => []StoredTokenLives
<1>1. ManagerInv => StoredTokenLives
  BY DEF ManagerInv
<1> QED BY <1>1, ManagerInvariant, PTL

(* No call waits, while it signs, for the lease it holds.                   *)
THEOREM NeverSelfWaits == ASSUME ~MayLapse PROVE Spec => []NoSelfWait
<1>1. ManagerInv => NoSelfWait
  BY DEF ManagerInv, KnowsStore, KnowsKey, NoSelfWait
<1> QED BY <1>1, ManagerInvariant, PTL

(* No save overwrites a key, nor a session but the one it replaces.         *)
THEOREM FirstUseIsKept == ASSUME ~MayLapse PROVE Spec => FirstUseKept
<1>1. ManagerInv => \A op \in Calls :
        /\ SaveKey(op) => storedKey = None
        /\ SaveSession(op) => storedKey = key[op] /\ storedSession \in {None, cur[op]}
  BY DEF ManagerInv, KnowsStore, KnowsKey, SaveKey, SaveSession
<1> QED BY <1>1, ManagerInvariant, PTL DEF FirstUseKept

(* A returned session is stored, and bound to the key the tab signs with.   *)
THEOREM ReturnedIsCommitted == ASSUME ~MayLapse PROVE Spec => ReturnsCommittedSession
<1>1. ManagerInv => \A op \in Calls :
        Settle(op) /\ Succeeds(op) /\ kind[op] \in {"session", "refresh"} =>
          /\ cur[op] = storedSession
          /\ cur[op].key = storedKey
          /\ keyPromise[tab(op)] = storedKey
  BY DEF ManagerInv, KnowsStore, KnowsKey, Succeeds
<1> QED BY <1>1, ManagerInvariant, PTL DEF ReturnsCommittedSession

-----------------------------------------------------------------------------
(* The calls take turns.                                                    *)

\* A step under the lease but the last stays under it.
LEMMA StaysInside ==
  ASSUME TypeOK, NEW op \in Calls, Step(op) \/ Throw(op), ~Acquire(op), ~Settle(op)
  PROVE  /\ pc[op] \in UnderLease
         /\ pc' = pc \/ \E state \in UnderLease : pc' = [pc EXCEPT ![op] = state]
<1> USE DEF TypeOK, UnderLease, Goto, RenewThen
<1>1. CASE HeartbeatRetakes(op)
  BY <1>1 DEF HeartbeatRetakes
<1>2. CASE RestoreKey(op) \/ SaveKey(op)
  BY <1>2 DEF RestoreKey, SaveKey, HaveKey
<1>3. CASE MissKey(op) \/ GenerateKey(op)
  BY <1>3 DEF MissKey, GenerateKey
<1>4. CASE LoadSession(op)
  BY <1>4 DEF LoadSession
<1>5. CASE DropStale(op) \/ DropStepUp(op) \/ DropDead(op)
  BY <1>5 DEF DropStale, DropStepUp, DropDead, DeleteSession
<1>6. CASE SendRefresh(op) \/ Rotate(op)
  BY <1>6 DEF SendRefresh, Rotate
<1>7. CASE RefuseStepUp(op) \/ RefuseDead(op)
  BY <1>7 DEF RefuseStepUp, RefuseDead
<1>8. CASE Challenge(op) \/ Exchange(op)
  BY <1>8 DEF Challenge, Exchange
<1>9. CASE PersistGrant(op) \/ SaveSession(op)
  BY <1>9 DEF PersistGrant, SaveSession
<1>10. CASE \E record \in {"key", "session"} : DeleteRecord(op, record)
  BY <1>10 DEF DeleteRecord
<1>11. CASE AllDeleted(op)
  BY <1>11 DEF AllDeleted
<1>12. CASE Throw(op)
  BY <1>12 DEF Throw
<1> QED BY <1>1, <1>2, <1>3, <1>4, <1>5, <1>6, <1>7, <1>8, <1>9, <1>10, <1>11, <1>12 DEF Step

\* Calls that are over have left the section, or never enter it.
LEMMA FinishEnds ==
  ASSUME TypeOK, NEW calls \in SUBSET Calls, Finish(calls), \A c \in calls : pc[c] # "done"
  PROVE  Section!End(calls)
  BY States DEF TypeOK, Finish, Section!End, Stage, Rest

\* The section is empty at first.
LEMMA InitSection == Init => Section!Init
  BY States DEF Init, Section!Init, Stage

\* A step enters the section when it is empty, ends calls, or is not seen.
LEMMA NextSection ==
  ASSUME ManagerInv, ~MayLapse, [Next]_vars
  PROVE  [Section!Next]_(Section!vars)
<1> DEFINE stage == [c \in Calls |-> Stage(c)]
<1>t. TypeOK
  BY DEF ManagerInv
<1>1. ASSUME NEW op \in Calls, Acquire(op) PROVE Section!Enter(op)
  <2>1. \A c \in Calls : pc[c] \notin UnderLease
    BY <1>1, DistinctAssumption DEF Acquire, LeaseFree, ManagerInv, SoleHolder
  <2>2. \E state \in UnderLease : pc' = [pc EXCEPT ![op] = state]
    BY <1>1 DEF Acquire, Goto, UnderLease
  <2>3. stage' = [stage EXCEPT ![op] = "inside"]
    BY <2>2, <1>t DEF Stage, TypeOK
  <2>4. stage[op] = "before" /\ \A c \in Calls : stage[c] # "inside"
    BY <1>1, <2>1 DEF Stage, Acquire
  <2> QED BY <2>3, <2>4 DEF Section!Enter
<1>2. ASSUME NEW op \in Calls, Settle(op) PROVE Section!End({op} \cup Joined(op))
  <2>1. \A c \in {op} \cup Joined(op) : pc[c] # "done"
    BY <1>2 DEF Settle, Joined
  <2>2. Finish({op} \cup Joined(op)) /\ {op} \cup Joined(op) \in SUBSET Calls
    BY <1>2 DEF Settle, Joined
  <2> QED BY <1>t, <2>1, <2>2, FinishEnds
<1>3. ASSUME NEW t \in Tabs, Crash(t) PROVE \E calls \in SUBSET Calls : Section!End(calls)
  <2> DEFINE calls == {c \in CallsOf(t) : pc[c] \notin Rest}
  <2>1. Finish(calls) /\ calls \in SUBSET Calls /\ \A c \in calls : pc[c] # "done"
    BY <1>3 DEF Crash, CallsOf, Rest
  <2> HIDE DEF calls
  <2> QED BY <1>t, <2>1, FinishEnds
<1>4. ASSUME NEW op \in Calls, Step(op) \/ Throw(op), ~Acquire(op), ~Settle(op) PROVE UNCHANGED stage
  <2>1. /\ pc[op] \in UnderLease
        /\ pc' = pc \/ \E state \in UnderLease : pc' = [pc EXCEPT ![op] = state]
    BY <1>t, <1>4, StaysInside
  <2> QED BY <1>t, <2>1 DEF Stage, TypeOK
<1>5. ASSUME NEW op \in Calls, Start(op) PROVE UNCHANGED stage
  <2>1. pc[op] = "idle" /\ \E state \in {"joined", "waiting"} : pc' = [pc EXCEPT ![op] = state]
    BY <1>5 DEF Start, StartKey, StartSession, StartRefresh, StartClear, Begin, Goto
  <2> QED BY <1>t, <2>1, States DEF Stage, TypeOK
<1>6. ASSUME DeadLeaseExpires \/ Lapse \/ GrowOld \/ Revoke \/ UNCHANGED vars PROVE UNCHANGED stage
  <2>1. pc' = pc
    BY <1>6 DEF DeadLeaseExpires, Lapse, GrowOld, Revoke, vars
  <2> QED BY <2>1 DEF Stage
<1>7. UNCHANGED stage => [Section!Next]_(Section!vars)
  BY DEF Section!vars
<1>8. CASE \E op \in Calls : Start(op) \/ Step(op) \/ Throw(op)
  <2>1. PICK op \in Calls : Start(op) \/ Step(op) \/ Throw(op)
    BY <1>8
  <2>2. CASE Acquire(op)
    BY <2>2, <1>1 DEF Section!Next
  <2>3. CASE Settle(op)
    <3>1. {op} \cup Joined(op) \in SUBSET Calls
      BY DEF Joined
    <3> QED BY <2>3, <3>1, <1>2 DEF Section!Next
  <2>4. CASE ~Acquire(op) /\ ~Settle(op)
    BY <2>1, <2>4, <1>4, <1>5, <1>7
  <2> QED BY <2>2, <2>3, <2>4
<1>9. CASE \E t \in Tabs : Crash(t)
  BY <1>9, <1>3 DEF Section!Next
<1> QED BY <1>6, <1>7, <1>8, <1>9 DEF Next

(* The manager is what the lease was made for: its calls are operations of  *)
(* the section that MutationLease implements (LeaseImplementsSection).      *)
THEOREM ManagerTakesTurns == ASSUME ~MayLapse PROVE Spec => SectionSpec
<1>1. ManagerInv /\ ~MayLapse /\ [Next]_vars => [Section!Next]_(Section!vars)
  BY NextSection
<1> QED BY <1>1, InitSection, ManagerInvariant, PTL DEF Spec, SectionSpec, Section!Spec

-----------------------------------------------------------------------------
(* What no lapse of the lease can break.                                    *)

\* The key a call has loaded is compared with every session it takes or is
\* granted; what the call does without a session is another kind of call.
Compares(op) ==
  /\ pc[op] = "clearing" => kind[op] \notin {"session", "refresh"}
  /\ pc[op] = "saveSession" => got[op].key = key[op]
  /\ pc[op] = "returning" /\ kind[op] \in {"session", "refresh"} => cur[op].key = key[op]

\* The end of calls keeps that the others compare keys before they return.
LEMMA FinishCompares ==
  ASSUME TypeOK, \A o \in Calls : Compares(o), NEW calls, Finish(calls)
  PROVE  \A o \in Calls : Compares(o)'
<1> SUFFICES ASSUME NEW o \in Calls PROVE Compares(o)'
  OBVIOUS
<1>1. CASE o \in calls
  BY <1>1 DEF Finish, Compares, Rest
<1>2. CASE o \notin calls
  BY <1>2 DEF Finish, Compares
<1> QED BY <1>1, <1>2

(* A step of op touches nothing that Compares says of another call.         *)
LEMMA StepCompares ==
  ASSUME TypeOK, \A o \in Calls : Compares(o), NEW op \in Calls, Start(op) \/ Step(op) \/ Throw(op)
  PROVE  \A o \in Calls : Compares(o)'
<1> DEFINE Frame == \A o \in Calls : o # op =>
             /\ pc'[o] = pc[o] /\ kind'[o] = kind[o] /\ got'[o] = got[o]
             /\ key'[o] = key[o] /\ cur'[o] = cur[o]
<1>f. SUFFICES ASSUME ~Settle(op) PROVE Frame /\ Compares(op)'
  <2>1. CASE Settle(op)
    BY <2>1, FinishCompares DEF Settle
  <2>2. CASE ~Settle(op)
    <3>1. Frame /\ Compares(op)'
      BY <2>2, <1>f
    <3>2. \A o \in Calls : o # op => Compares(o)'
      BY <3>1 DEF Compares
    <3> QED BY <3>1, <3>2
  <2> QED BY <2>1, <2>2
<1>c. Compares(op)
  OBVIOUS
<1> HIDE DEF Frame
<1> USE DEF TypeOK, Goto, store, server, memory, locals, tab, SetKeyPromise
<1>1. CASE Start(op)
  <2>1. pc'[op] \in {"waiting", "joined"}
    BY <1>1 DEF Start, StartKey, StartSession, StartRefresh, StartClear, Begin
  <2>2. Frame
    BY <1>1 DEF Start, StartKey, StartSession, StartRefresh, StartClear, Begin, Frame
  <2> QED BY <2>1, <2>2 DEF Compares
<1>2. CASE Acquire(op)
  BY <1>2, ClearedKinds DEF Acquire, Compares, Frame
<1>3. CASE HeartbeatRetakes(op)
  BY <1>3, <1>c DEF HeartbeatRetakes, Compares, Frame
<1>4. CASE RestoreKey(op)
  BY <1>4 DEF RestoreKey, HaveKey, Compares, Frame
<1>5. CASE MissKey(op)
  BY <1>5 DEF MissKey, RenewThen, Compares, Frame
<1>6. CASE GenerateKey(op)
  BY <1>6 DEF GenerateKey, RenewThen, Compares, Frame
<1>7. CASE SaveKey(op)
  BY <1>7 DEF SaveKey, HaveKey, Compares, Frame
<1>8. CASE LoadSession(op)
  BY <1>8 DEF LoadSession, Loaded, ValidSession, RenewThen, Compares, Frame
<1>9. CASE DropStale(op) \/ DropStepUp(op) \/ DropDead(op)
  BY <1>9 DEF DropStale, DropStepUp, DropDead, DeleteSession, Compares, Frame
<1>10. CASE SendRefresh(op)
  BY <1>10 DEF SendRefresh, Compares, Frame
<1>11. CASE Rotate(op)
  BY <1>11 DEF Rotate, Compares, Frame
<1>12. CASE RefuseStepUp(op) \/ RefuseDead(op)
  BY <1>12 DEF RefuseStepUp, RefuseDead, RenewThen, Compares, Frame
<1>13. CASE Challenge(op)
  BY <1>13 DEF Challenge, Compares, Frame
<1>14. CASE Exchange(op)
  BY <1>14 DEF Exchange, Compares, Frame
<1>15. CASE PersistGrant(op)
  BY <1>15 DEF PersistGrant, BoundTo, RenewThen, Compares, Frame
<1>16. CASE SaveSession(op)
  BY <1>16, <1>c DEF SaveSession, Compares, Frame
<1>17. CASE \E record \in {"key", "session"} : DeleteRecord(op, record)
  BY <1>17, <1>c DEF DeleteRecord, Compares, Frame
<1>18. CASE AllDeleted(op)
  BY <1>18, <1>c DEF AllDeleted, Compares, Frame
<1>19. CASE Throw(op)
  BY <1>19 DEF Throw, Compares, Frame
<1> QED
  BY <1>f, <1>1, <1>2, <1>3, <1>4, <1>5, <1>6, <1>7, <1>8, <1>9, <1>10, <1>11, <1>12,
     <1>13, <1>14, <1>15, <1>16, <1>17, <1>18, <1>19 DEF Step

(* Lapse or not, whatever tabs are suspended or stores are without a        *)
(* heartbeat: a returned session is bound to the key its call loaded.       *)
THEOREM ReturnedIsBound == Spec => []BoundToLoadedKey
<1> DEFINE Inv == TypeOK /\ \A o \in Calls : Compares(o)
<1>1. Init => Inv
  BY InitType DEF Init, Compares
<1>2. Inv /\ [Next]_vars => Inv'
  <2> SUFFICES ASSUME Inv, [Next]_vars PROVE \A o \in Calls : Compares(o)'
    BY NextType
  <2>1. ASSUME NEW op \in Calls, Start(op) \/ Step(op) \/ Throw(op)
        PROVE  \A o \in Calls : Compares(o)'
    BY <2>1, StepCompares
  <2>2. ASSUME NEW t \in Tabs, Crash(t) PROVE \A o \in Calls : Compares(o)'
    BY <2>2, FinishCompares DEF Crash
  <2>3. CASE DeadLeaseExpires \/ Lapse \/ GrowOld \/ Revoke \/ UNCHANGED vars
    BY <2>3 DEF DeadLeaseExpires, Lapse, GrowOld, Revoke, vars, locals, Compares
  <2> QED BY <2>1, <2>2, <2>3 DEF Next
<1>3. Inv => BoundToLoadedKey
  BY DEF Compares, BoundToLoadedKey
<1> QED BY <1>1, <1>2, <1>3, PTL DEF Spec

\* A promise of a tab is that of a call of this tab under way; so is the one a
\* call has joined.
Under == {"waiting"} \cup UnderLease
Pends(op, t) == TabOf[op] = t /\ pc[op] \in Under

PendInv ==
  /\ \A t \in Tabs, op \in Calls :
       op \in {keyPromise[t], sessionPromise[t]} => Pends(op, t)
  /\ \A c \in Calls : pc[c] = "joined" => awaits[c] \in Calls /\ Pends(awaits[c], TabOf[c])

\* A step in which op stays under way and no promise is taken up.
Carries(op) ==
  /\ pc[op] \in Under /\ pc'[op] \in Under
  /\ \A o \in Calls : o # op => pc'[o] = pc[o]
  /\ UNCHANGED awaits
  /\ \A t \in Tabs :
       /\ keyPromise'[t] = keyPromise[t] \/ keyPromise'[t] \notin Calls
       /\ sessionPromise'[t] = sessionPromise[t] \/ sessionPromise'[t] \notin Calls

\* A step that carries the promises along keeps that they are pending.
LEMMA CarriesPends ==
  ASSUME PendInv, NEW op \in Calls, Carries(op)
  PROVE  PendInv'
<1>1. \A o \in Calls, t \in Tabs : Pends(o, t) => Pends(o, t)'
  BY DEF Carries, Pends
<1>2. \A c \in Calls : pc'[c] = "joined" => pc[c] = "joined"
  BY States DEF Carries, Under, UnderLease
<1> QED BY <1>1, <1>2, TabAssumption DEF Carries, PendInv

\* Every step of a call but its last one carries the promises along.
LEMMA StepCarries ==
  ASSUME TypeOK, NEW op \in Calls, Step(op) \/ Throw(op), ~Settle(op)
  PROVE  Carries(op)
<1>u. Under = {"waiting"} \cup UnderLease
  BY DEF Under
<1>n. None \notin Calls /\ Keys \cap Calls = {}
  BY DistinctAssumption
<1> USE <1>u, <1>n DEF TypeOK, Goto, UnderLease, Carries, store, server, memory, locals, tab, SetKeyPromise
<1>1. CASE Acquire(op)
  BY <1>1 DEF Acquire
<1>2. CASE HeartbeatRetakes(op)
  BY <1>2 DEF HeartbeatRetakes
<1>3. CASE RestoreKey(op)
  BY <1>3 DEF RestoreKey, ValidKey, HaveKey
<1>4. CASE MissKey(op)
  BY <1>4 DEF MissKey, RenewThen
<1>5. CASE GenerateKey(op)
  BY <1>5 DEF GenerateKey, RenewThen
<1>6. CASE SaveKey(op)
  BY <1>6 DEF SaveKey, HaveKey
<1>7. CASE LoadSession(op)
  BY <1>7 DEF LoadSession, RenewThen
<1>8. CASE DropStale(op) \/ DropStepUp(op) \/ DropDead(op)
  BY <1>8 DEF DropStale, DropStepUp, DropDead, DeleteSession
<1>9. CASE SendRefresh(op)
  BY <1>9 DEF SendRefresh
<1>10. CASE Rotate(op)
  BY <1>10 DEF Rotate
<1>11. CASE RefuseStepUp(op) \/ RefuseDead(op)
  BY <1>11 DEF RefuseStepUp, RefuseDead, RenewThen
<1>12. CASE Challenge(op)
  BY <1>12 DEF Challenge
<1>13. CASE Exchange(op)
  BY <1>13 DEF Exchange
<1>14. CASE PersistGrant(op)
  BY <1>14 DEF PersistGrant, RenewThen
<1>15. CASE SaveSession(op)
  BY <1>15 DEF SaveSession
<1>16. CASE \E record \in {"key", "session"} : DeleteRecord(op, record)
  BY <1>16 DEF DeleteRecord
<1>17. CASE AllDeleted(op)
  BY <1>17 DEF AllDeleted
<1>18. CASE Throw(op)
  BY <1>18 DEF Throw
<1> QED
  BY <1>1, <1>2, <1>3, <1>4, <1>5, <1>6, <1>7, <1>8, <1>9, <1>10, <1>11, <1>12,
     <1>13, <1>14, <1>15, <1>16, <1>17, <1>18 DEF Step

(* A call that starts is under way, or has joined one that is.              *)
LEMMA StartPends ==
  ASSUME TypeOK, PendInv, NEW op \in Calls, Start(op)
  PROVE  PendInv'
<1>n. None \notin Calls /\ Keys \cap Calls = {}
  BY DistinctAssumption
<1>u. "waiting" \in Under /\ "idle" \notin Under /\ "joined" \notin Under
  BY DEF Under, UnderLease
<1>1. /\ pc[op] = "idle"
      /\ \A o \in Calls : o # op => pc'[o] = pc[o] /\ awaits'[o] = awaits[o]
  BY DEF TypeOK, Start, StartKey, StartSession, StartRefresh, StartClear, Begin, Goto
<1>2. \/ pc'[op] = "waiting"
      \/ /\ pc'[op] = "joined"
         /\ awaits'[op] \in {keyPromise[tab(op)], sessionPromise[tab(op)]} \cap Calls
  BY <1>n DEF TypeOK, Start, StartKey, StartSession, StartRefresh, StartClear, Begin, Goto
<1>3. \A t \in Tabs : \A o \in Calls :
        o \in {keyPromise'[t], sessionPromise'[t]} =>
          \/ o \in {keyPromise[t], sessionPromise[t]}
          \/ o = op /\ t = tab(op) /\ pc'[op] = "waiting"
  BY <1>n DEF TypeOK, Start, StartKey, StartSession, StartRefresh, StartClear, Begin, Goto, memory, tab
<1>4. \A o \in Calls, t \in Tabs : Pends(o, t) => o # op /\ Pends(o, t)'
  BY <1>1, <1>u DEF Pends
<1>5. ASSUME NEW t \in Tabs, NEW o \in Calls, o \in {keyPromise'[t], sessionPromise'[t]}
      PROVE  Pends(o, t)'
  BY <1>3, <1>4, <1>5, <1>u DEF PendInv, Pends, tab
<1>6. ASSUME NEW c \in Calls, pc'[c] = "joined"
      PROVE  (awaits[c] \in Calls /\ Pends(awaits[c], TabOf[c]))'
  <2>1. CASE c = op
    BY <1>2, <1>4, <1>6, <2>1, TabAssumption DEF PendInv, tab
  <2>2. CASE c # op
    BY <1>1, <1>4, <1>6, <2>2, TabAssumption DEF PendInv
  <2> QED BY <2>1, <2>2
<1> QED BY <1>5, <1>6 DEF PendInv

(* Calls end together with the promises they are and those who joined them. *)
LEMMA FinishPends ==
  ASSUME TypeOK, PendInv, NEW calls \in SUBSET Calls, Finish(calls),
         \A c \in Calls : pc[c] = "joined" /\ awaits[c] \in calls => c \in calls,
         \A t \in Tabs, o \in Calls : o \in {keyPromise'[t], sessionPromise'[t]} =>
           o \in {keyPromise[t], sessionPromise[t]} /\ o \notin calls
  PROVE  PendInv'
<1>1. \A c \in Calls : c \notin calls => pc'[c] = pc[c] /\ awaits'[c] = awaits[c]
  BY DEF Finish
<1>2. \A c \in Calls : c \in calls => pc'[c] \in Rest
  BY DEF Finish, Rest
<1>3. \A o \in Calls, t \in Tabs : o \notin calls /\ Pends(o, t) => Pends(o, t)'
  BY <1>1 DEF Pends
<1>4. ASSUME NEW c \in Calls, pc'[c] = "joined"
      PROVE  (awaits[c] \in Calls /\ Pends(awaits[c], TabOf[c]))'
  <2>1. c \notin calls
    BY <1>2, <1>4 DEF Rest
  <2> QED BY <1>1, <1>3, <1>4, <2>1, TabAssumption DEF PendInv
<1> QED BY <1>3, <1>4 DEF PendInv

(* No call waits for a promise that will not settle: a joined call has      *)
(* joined one that is still under way, whatever lapses, throws or crashes.  *)
THEOREM JoinedPromisesPend == Spec => []PromisesPend
<1> DEFINE Inv == TypeOK /\ PendInv
<1>n. None \notin Calls /\ Keys \cap Calls = {}
  BY DistinctAssumption
<1>1. Init => Inv
  BY InitType, <1>n DEF Init, PendInv
<1>2. Inv /\ [Next]_vars => Inv'
  <2> SUFFICES ASSUME Inv, [Next]_vars PROVE PendInv'
    BY NextType
  <2>1. ASSUME NEW op \in Calls, Start(op) PROVE PendInv'
    BY <2>1, StartPends
  <2>2. ASSUME NEW op \in Calls, Step(op) \/ Throw(op), ~Settle(op) PROVE PendInv'
    BY <2>2, StepCarries, CarriesPends
  <2>3. ASSUME NEW op \in Calls, Settle(op) PROVE PendInv'
    <3>1. /\ pc[op] \in {"returning", "throwing"}
          /\ Finish({op} \cup Joined(op))
          /\ keyPromise' = Forget(keyPromise, op)
          /\ sessionPromise' = Forget(sessionPromise, op)
      BY <2>3 DEF Settle
    <3>2. \A c \in Calls : pc[c] = "joined" =>
            c # op /\ awaits[c] # c /\ pc[awaits[c]] # "joined"
      BY <3>1 DEF PendInv, Pends, Under, UnderLease
    <3>3. \A c \in Calls : pc[c] = "joined" /\ awaits[c] \in {op} \cup Joined(op) => c \in Joined(op)
      BY <3>2 DEF Joined
    <3>4. ASSUME NEW t \in Tabs, NEW o \in Calls, o \in {keyPromise'[t], sessionPromise'[t]}
          PROVE  o \in {keyPromise[t], sessionPromise[t]} /\ o \notin {op} \cup Joined(op)
      <4>1. o \in {keyPromise[t], sessionPromise[t]}
        BY <3>1, <3>4, <1>n DEF TypeOK, Forget, tab
      <4>2. TabOf[o] = t /\ pc[o] # "joined"
        BY <4>1 DEF PendInv, Pends, Under, UnderLease
      <4>3. o # op
        BY <3>1, <3>4, <4>2, <1>n DEF TypeOK, Forget, tab
      <4> QED BY <4>1, <4>2, <4>3 DEF Joined
    <3>5. {op} \cup Joined(op) \in SUBSET Calls
      BY DEF Joined
    <3> QED BY <3>1, <3>3, <3>4, <3>5, FinishPends
  <2>4. ASSUME NEW t \in Tabs, Crash(t) PROVE PendInv'
    <3> DEFINE ended == {c \in CallsOf(t) : pc[c] \notin Rest}
    <3>1. /\ Finish(ended)
          /\ keyPromise' = [keyPromise EXCEPT ![t] = None]
          /\ sessionPromise' = [sessionPromise EXCEPT ![t] = None]
      BY <2>4 DEF Crash
    <3>2. \A c \in Calls : pc[c] = "joined" /\ awaits[c] \in ended => c \in ended
      BY DEF PendInv, Pends, CallsOf, Rest
    <3>3. \A u \in Tabs, o \in Calls : o \in {keyPromise'[u], sessionPromise'[u]} =>
            o \in {keyPromise[u], sessionPromise[u]} /\ o \notin ended
      BY <3>1, <1>n DEF TypeOK, PendInv, Pends, CallsOf
    <3>4. ended \in SUBSET Calls
      BY DEF CallsOf
    <3> QED BY <3>1, <3>2, <3>3, <3>4, FinishPends
  <2>5. CASE DeadLeaseExpires \/ Lapse \/ GrowOld \/ Revoke \/ UNCHANGED vars
    BY <2>5 DEF DeadLeaseExpires, Lapse, GrowOld, Revoke, vars, memory, locals, PendInv, Pends
  <2> QED BY <2>1, <2>2, <2>3, <2>4, <2>5 DEF Next
<1>3. Inv => PromisesPend
  <2> SUFFICES ASSUME Inv PROVE PromisesPend
    OBVIOUS
  <2>1. \A t \in Tabs : \A promise \in {keyPromise[t], sessionPromise[t]} :
          promise \in Calls => pc[promise] \notin Rest
    BY DEF PendInv, Pends, Under, UnderLease, Rest
  <2>2. \A c \in Calls : pc[c] = "joined" => pc[awaits[c]] \in {"waiting"} \cup UnderLease
    BY DEF PendInv, Pends, Under
  <2> QED BY <2>1, <2>2 DEF PromisesPend
<1> QED BY <1>1, <1>2, <1>3, PTL DEF Spec

=============================================================================
