------------------------- MODULE MutationLease_proofs -------------------------
(* Theorems of MutationLease, for every set of calls and every timing.      *)
EXTENDS MutationLease, TLAPS

USE OwnerAssumption, TimeAssumption, FlagAssumption

(* Remaining time is cut off at zero.                                      *)
LEMMA Max0Bounds ==
  ASSUME NEW n \in Int
  PROVE  /\ Max0(n) \in Nat
         /\ Max0(n) >= n
         /\ \A m \in Nat : n <= m => Max0(n) <= m
  BY DEF Max0

(* Every reachable state is well typed, whatever the timing.                *)
LEMMA InitType == Init => TypeOK
  BY DEF Init, TypeOK, PCs, Inside, Asking, Ended

(* Every step keeps the types.                                              *)
LEMMA NextType == TypeOK /\ [Next]_vars => TypeOK'
<1> SUFFICES ASSUME TypeOK, [Next]_vars PROVE TypeOK'
  OBVIOUS
<1> USE DEF TypeOK
<1>1. ASSUME NEW op \in Ops, Acquisition(op) PROVE TypeOK'
  <2>1. CASE Call(op) \/ Poll(op)
    BY <2>1 DEF Call, Poll, Request, PCs, Asking
  <2>2. CASE Acquire(op)
    BY <2>2 DEF Acquire, WriteLease, PCs, Inside
  <2>3. CASE Busy(op) \/ RejectAcquire(op)
    BY <2>3 DEF Busy, RejectAcquire, PCs, Ended
  <2> QED BY <1>1, <2>1, <2>2, <2>3 DEF Acquisition
<1>2. ASSUME NEW op \in Ops, Operation(op) PROVE TypeOK'
  <2>1. CASE BeginMutation(op) \/ BeginCompletion(op)
    BY <2>1 DEF BeginMutation, BeginCompletion, Request, PCs, Asking
  <2>2. CASE Renew(op)
    BY <2>2 DEF Renew, WriteLease, StopHeartbeat, PCs, Inside
  <2>3. CASE LoseLease(op) \/ Throw(op)
    BY <2>3 DEF LoseLease, Throw, StopHeartbeat, PCs
  <2>4. CASE Mutate(op)
    BY <2>4 DEF Mutate, PCs, Inside
  <2> QED BY <1>2, <2>1, <2>2, <2>3, <2>4 DEF Operation
<1>3. ASSUME NEW op \in Ops, Heartbeat(op) PROVE TypeOK'
  <2>1. CASE BeatFires(op)
    BY <2>1 DEF BeatFires
  <2>2. CASE BeatRenews(op)
    BY <2>2 DEF BeatRenews, WriteLease, Reschedule
  <2>3. CASE BeatFails(op)
    BY <2>3 DEF BeatFails, Reschedule
  <2> QED BY <1>3, <2>1, <2>2, <2>3 DEF Heartbeat
<1>4. ASSUME NEW op \in Ops, Ending(op) \/ Crash(op) PROVE TypeOK'
  BY <1>4 DEF Ending, BeginRelease, Release, RejectRelease, Crash, PCs, Ended
<1>5. CASE Tick
  BY <1>5, Max0Bounds DEF Tick
<1>6. CASE UNCHANGED vars
  BY <1>6 DEF vars
<1> QED BY <1>1, <1>2, <1>3, <1>4, <1>5, <1>6 DEF Next

(* The variables keep their types (withMutationLease, tryAcquire).          *)
THEOREM TypeCorrect == Spec => []TypeOK
  BY InitType, NextType, PTL DEF Spec

(* The heartbeat's slack is inductive when the timing is Timely.            *)
LEMMA InitLease == Init => LeaseInv
  BY InitType DEF Init, LeaseInv, BoundedDelays, HeartbeatSlack, Inside, Asking

(* Only its owner can be granted the lease while a call is inside.          *)
LEMMA InsideBlocksOthers ==
  ASSUME LeaseInv, NEW o \in Ops, pc[o] \in Inside, NEW op \in Ops, Timely
  PROVE  Grantable(op) <=> op = o
  BY DEF LeaseInv, TypeOK, BoundedDelays, HeartbeatSlack, Grantable, Timely

(* Every step keeps the slack between the lease and its heartbeat.          *)
LEMMA NextLease == Timely /\ LeaseInv /\ [Next]_vars => LeaseInv'
<1> SUFFICES ASSUME Timely, LeaseInv, [Next]_vars PROVE LeaseInv'
  OBVIOUS
<1>t. TypeOK /\ TypeOK'
  BY NextType DEF LeaseInv
<1>s. SUFFICES (BoundedDelays /\ HeartbeatSlack)'
  BY <1>t DEF LeaseInv
<1> USE <1>t DEF BoundedDelays, HeartbeatSlack, Timely
<1>1. ASSUME NEW op \in Ops, Call(op) \/ Poll(op) \/ Busy(op) \/ RejectAcquire(op)
      PROVE  (BoundedDelays /\ HeartbeatSlack)'
  BY <1>1 DEF LeaseInv, TypeOK, Call, Poll, Busy, RejectAcquire, Request, Inside, Asking
<1>2. ASSUME NEW op \in Ops, Acquire(op)
      PROVE  (BoundedDelays /\ HeartbeatSlack)'
  <2>1. \A o \in Ops : pc[o] \notin Inside
    BY <1>2, InsideBlocksOthers DEF Acquire, Inside
  <2> QED BY <1>2, <2>1 DEF LeaseInv, TypeOK, Acquire, WriteLease, Inside, Asking
<1>3. ASSUME NEW op \in Ops, BeginMutation(op) \/ BeginCompletion(op)
      PROVE  (BoundedDelays /\ HeartbeatSlack)'
  BY <1>3 DEF LeaseInv, TypeOK, BeginMutation, BeginCompletion, Request, Inside, Asking
<1>4. ASSUME NEW op \in Ops, Renew(op)
      PROVE  (BoundedDelays /\ HeartbeatSlack)'
  <2>1. \A o \in Ops : pc[o] \in Inside => o = op
    BY <1>4, InsideBlocksOthers DEF Renew
  <2> QED BY <1>4, <2>1 DEF LeaseInv, TypeOK, Renew, WriteLease, StopHeartbeat, Inside, Asking
<1>5. ASSUME NEW op \in Ops, LoseLease(op) \/ Throw(op) \/ Mutate(op)
      PROVE  (BoundedDelays /\ HeartbeatSlack)'
  BY <1>5 DEF LeaseInv, TypeOK, LoseLease, Throw, Mutate, StopHeartbeat, Inside, Asking
<1>6. ASSUME NEW op \in Ops, BeatFires(op)
      PROVE  (BoundedDelays /\ HeartbeatSlack)'
  BY <1>6 DEF LeaseInv, TypeOK, BeatFires
<1>7. ASSUME NEW op \in Ops, BeatRenews(op)
      PROVE  (BoundedDelays /\ HeartbeatSlack)'
  <2>1. \A o \in Ops : pc[o] \in Inside => o = op
    BY <1>7, InsideBlocksOthers DEF BeatRenews
  <2> QED BY <1>7, <2>1 DEF LeaseInv, TypeOK, BeatRenews, WriteLease, Reschedule
<1>8. ASSUME NEW op \in Ops, BeatFails(op)
      PROVE  (BoundedDelays /\ HeartbeatSlack)'
  <2>1. pc[op] \notin Inside
    BY <1>8, InsideBlocksOthers DEF BeatFails
  <2> QED BY <1>8, <2>1 DEF LeaseInv, TypeOK, BeatFails, Reschedule
<1>9. ASSUME NEW op \in Ops, Ending(op)
      PROVE  (BoundedDelays /\ HeartbeatSlack)'
  BY <1>9 DEF LeaseInv, TypeOK, Ending, BeginRelease, Release, RejectRelease, Inside, Asking
<1>10. ASSUME NEW op \in Ops, Crash(op)
       PROVE  (BoundedDelays /\ HeartbeatSlack)'
  BY <1>10 DEF LeaseInv, TypeOK, Crash, Inside, Asking
<1>11. CASE Tick
  BY <1>11, Max0Bounds DEF LeaseInv, TypeOK, Tick, OnTime, Max0
<1>12. CASE UNCHANGED vars
  BY <1>12 DEF LeaseInv, vars
<1> QED BY <1>1, <1>2, <1>3, <1>4, <1>5, <1>6, <1>7, <1>8, <1>9, <1>10, <1>11, <1>12
        DEF Next, Acquisition, Operation, Heartbeat

(* The inductive invariant holds of every behaviour under Timely timing.    *)
THEOREM LeaseInvariant == ASSUME Timely PROVE Spec => []LeaseInv
  BY InitLease, NextLease, PTL DEF Spec

(* No two operations run at once over the shared key and session.           *)
THEOREM Exclusive == ASSUME Timely PROVE Spec => []MutualExclusion
<1>1. LeaseInv => MutualExclusion
  BY DEF LeaseInv, HeartbeatSlack, MutualExclusion
<1> QED BY <1>1, LeaseInvariant, PTL

(* A write that follows lease.renew() commits under the writer's lease.     *)
THEOREM WritesHoldTheLease == ASSUME Timely PROVE Spec => WriteHoldsLease
<1>1. LeaseInv => \A op \in Ops : Mutate(op) => owner = op /\ ttl > 0
  BY DEF LeaseInv, TypeOK, HeartbeatSlack, BoundedDelays, Mutate, Inside, Timely
<1> QED BY <1>1, LeaseInvariant, PTL DEF WriteHoldsLease

(* The heartbeat of a settled call never comes back, however the tab is     *)
(* suspended, and its record is gone unless the release itself failed.      *)
LEMMA NextQuiet == ~MayReject /\ QuietInv /\ [Next]_vars => QuietInv'
<1> SUFFICES ASSUME ~MayReject, QuietInv, [Next]_vars PROVE QuietInv'
  OBVIOUS
<1>t. TypeOK /\ TypeOK'
  BY NextType DEF QuietInv
<1> USE <1>t DEF QuietInv, TypeOK, Inside
<1>1. ASSUME NEW op \in Ops, Acquisition(op) PROVE QuietInv'
  BY <1>1 DEF Acquisition, Call, Acquire, Busy, Poll, RejectAcquire, Request, WriteLease
<1>2. ASSUME NEW op \in Ops, Operation(op) PROVE QuietInv'
  <2>1. CASE Renew(op)
    BY <2>1 DEF Renew, WriteLease, StopHeartbeat
  <2>2. CASE LoseLease(op) \/ Throw(op)
    BY <2>2 DEF LoseLease, Throw, StopHeartbeat
  <2>3. CASE BeginMutation(op) \/ BeginCompletion(op) \/ Mutate(op)
    BY <2>3 DEF BeginMutation, BeginCompletion, Mutate, Request
  <2> QED BY <1>2, <2>1, <2>2, <2>3 DEF Operation
<1>3. ASSUME NEW op \in Ops, Heartbeat(op) PROVE QuietInv'
  BY <1>3 DEF Heartbeat, BeatFires, BeatRenews, BeatFails, WriteLease, Reschedule
<1>4. ASSUME NEW op \in Ops, Ending(op) PROVE QuietInv'
  BY <1>4, OwnerAssumption DEF Ending, BeginRelease, Release, RejectRelease
<1>5. ASSUME NEW op \in Ops, Crash(op) PROVE QuietInv'
  BY <1>5 DEF Crash, Ended
<1>6. CASE Tick
  BY <1>6 DEF Tick
<1>7. CASE UNCHANGED vars
  BY <1>7 DEF vars
<1> QED BY <1>1, <1>2, <1>3, <1>4, <1>5, <1>6, <1>7 DEF Next

(* A call that has settled has neither a record nor a heartbeat left, unless *)
(* a store request rejects (the finally of withMutationLease).               *)
THEOREM NothingLeftBehind == ASSUME ~MayReject PROVE Spec => []ReleasedForGood
<1>1. Init => QuietInv
  BY InitType, OwnerAssumption DEF Init, QuietInv
<1>2. QuietInv => ReleasedForGood
  BY DEF QuietInv, TypeOK, ReleasedForGood, Inside
<1> QED BY <1>1, <1>2, NextQuiet, PTL DEF Spec

(* The lease implements the abstract section: every step of the code enters *)
(* it alone, ends a call inside or before it, or is invisible.              *)
LEMMA InitSection == Init => Section!Init
  BY DEF Init, Section!Init, Stage, Inside

(* Every step of the lease is one of the section, or invisible in it.       *)
LEMMA NextSection ==
  ASSUME Timely, LeaseInv, [Next]_vars
  PROVE  [Section!Next]_(Section!vars)
<1> DEFINE stage == [o \in Ops |-> Stage(o)]
<1>t. TypeOK
  BY DEF LeaseInv
<1> USE <1>t DEF TypeOK, Inside, Section!Next, Section!vars, Stage
<1>1. ASSUME NEW op \in Ops, Acquire(op) PROVE Section!Enter(op)
  <2>1. \A o \in Ops : pc[o] \notin Inside
    BY <1>1, InsideBlocksOthers DEF Acquire
  <2>2. stage' = [stage EXCEPT ![op] = "inside"]
    BY <1>1 DEF Acquire
  <2> QED BY <1>1, <2>1, <2>2 DEF Acquire, Section!Enter
<1>2. ASSUME NEW op \in Ops, RejectAcquire(op) PROVE Section!End({op})
  BY <1>2 DEF RejectAcquire, Section!End
<1>3. ASSUME NEW op \in Ops, Crash(op) PROVE UNCHANGED stage \/ Section!End({op})
  <2>1. CASE pc[op] \in Inside \cup {"acquiring", "waiting"}
    BY <1>3, <2>1 DEF Crash, Ended, Section!End
  <2>2. CASE pc[op] \in {"stopping", "releasing"}
    BY <1>3, <2>2 DEF Crash, Ended
  <2> QED BY <1>3, <2>1, <2>2 DEF Crash, Ended, PCs, Asking
<1>4. ASSUME NEW op \in Ops, Call(op) \/ Busy(op) \/ Poll(op)
      PROVE  UNCHANGED stage
  BY <1>4 DEF Call, Busy, Poll, Request
<1>5. ASSUME NEW op \in Ops, Operation(op)
      PROVE  UNCHANGED stage \/ Section!End({op})
  <2>1. CASE BeginMutation(op) \/ BeginCompletion(op) \/ Mutate(op)
    BY <2>1 DEF BeginMutation, BeginCompletion, Mutate, Request
  <2>2. CASE Renew(op)
    BY <2>2 DEF Renew, Section!End
  <2>3. CASE LoseLease(op) \/ Throw(op)
    BY <2>3 DEF LoseLease, Throw, Section!End
  <2> QED BY <1>5, <2>1, <2>2, <2>3 DEF Operation
<1>6. ASSUME NEW op \in Ops, Heartbeat(op) PROVE UNCHANGED stage
  BY <1>6 DEF Heartbeat, BeatFires, BeatRenews, BeatFails
<1>7. ASSUME NEW op \in Ops, Ending(op) PROVE UNCHANGED stage
  BY <1>7 DEF Ending, BeginRelease, Release, RejectRelease
<1>8. CASE Tick \/ UNCHANGED vars
  BY <1>8 DEF Tick, vars
<1> QED
  BY <1>1, <1>2, <1>3, <1>4, <1>5, <1>6, <1>7, <1>8 DEF Next, Acquisition

(* The calls of withMutationLease are those of a section that holds one.    *)
THEOREM LeaseImplementsSection == ASSUME Timely PROVE Spec => SectionSpec
<1>1. Timely /\ LeaseInv /\ [Next]_vars => [Section!Next]_(Section!vars)
  BY NextSection
<1> QED BY <1>1, InitSection, LeaseInvariant, PTL DEF Spec, SectionSpec, Section!Spec

=============================================================================
