---------------------------- MODULE MutationLease ----------------------------
(***************************************************************************)
(* The renewable mutation lease of src/session/manager.ts                  *)
(* (withMutationLease) over the lease record of a StateStore               *)
(* (tryAcquireMutationLease, releaseMutationLease).  Every operation that  *)
(* reads or writes the persisted key and session runs under it.            *)
(*                                                                         *)
(* One member of Ops is one call of withMutationLease, with its own random *)
(* owner; calls of one tab and of several tabs are alike here.  Time is    *)
(* relative: ttl is what is left of the record's expiresAt, ask what is    *)
(* left of the expiresAt an outstanding request carries (it is computed    *)
(* from Date.now() before the transaction runs), and Tick lets one unit    *)
(* pass for all of them.                                                   *)
(***************************************************************************)
EXTENDS Integers

CONSTANTS
  Ops,          \* calls of withMutationLease
  NoOwner,      \* the scope has no lease record
  Duration,     \* mutationLeaseMilliseconds
  Period,       \* mutationLeaseRenewalMilliseconds
  Latency,      \* how long a store request, and how late a timer, may be
  SharedLease,  \* store.supportsSharedLease: only then is there a heartbeat
  MayPause,     \* the tab may be suspended: Latency does not bound anything
  MayReject     \* a store request may reject

ASSUME OwnerAssumption == NoOwner \notin Ops
ASSUME TimeAssumption ==
  /\ Duration \in Nat /\ Period \in Nat /\ Latency \in Nat
  /\ Period > 0 /\ Latency > 0
ASSUME FlagAssumption ==
  SharedLease \in BOOLEAN /\ MayPause \in BOOLEAN /\ MayReject \in BOOLEAN

VARIABLES
  owner,      \* owner of the lease record, or NoOwner
  ttl,        \* what is left of its validity; 0 when it has expired
  pc,         \* where each call stands
  ask,        \* validity asked by the call's outstanding request
  beat,       \* the heartbeat: "off", "timer" set, or request "asking"
  beatTime,   \* time to the timer, or validity asked by the request
  overtaken   \* history: another call acquired while this one was inside

vars == <<owner, ttl, pc, ask, beat, beatTime, overtaken>>

Max0(n) == IF n > 0 THEN n ELSE 0

\* The call's operation has been entered and has not settled yet.
Inside == {"running", "renewing", "mutating", "completing"}
\* The call has a tryAcquireMutationLease request of its own outstanding.
Asking == {"acquiring", "renewing", "completing"}
Ended  == {"settled", "crashed"}
PCs == {"idle", "waiting", "stopping", "releasing"} \cup Inside \cup Asking \cup Ended

Init ==
  /\ owner = NoOwner
  /\ ttl = 0
  /\ pc = [o \in Ops |-> "idle"]
  /\ ask = [o \in Ops |-> 0]
  /\ beat = [o \in Ops |-> "off"]
  /\ beatTime = [o \in Ops |-> 0]
  /\ overtaken = [o \in Ops |-> FALSE]

-----------------------------------------------------------------------------
(* The lease record.                                                       *)

\* Mutants: the owner, or the expiry, of the record is not looked at.
Grantable_ToAny(op) == TRUE
Grantable_NeverExpired(op) == owner = NoOwner \/ owner = op

\* The test of tryAcquireMutationLease: no record, an expired one, or ours.
Grantable(op) == owner = NoOwner \/ ttl = 0 \/ owner = op

\* store.put({ owner, expiresAt }): whoever is still inside is overtaken.
WriteLease(op, validity) ==
  /\ owner' = op
  /\ ttl' = validity
  /\ overtaken' = IF owner = op THEN overtaken
                  ELSE [o \in Ops |-> overtaken[o] \/ (o # op /\ pc[o] \in Inside)]

\* tryAcquireMutationLease(owner, Date.now() + Duration) is issued.
Request(op, state) ==
  /\ pc' = [pc EXCEPT ![op] = state]
  /\ ask' = [ask EXCEPT ![op] = Duration]

-----------------------------------------------------------------------------
(* The acquisition loop.                                                   *)

Call(op) ==
  /\ pc[op] = "idle"
  /\ Request(op, "acquiring")
  /\ UNCHANGED <<owner, ttl, beat, beatTime, overtaken>>

\* Mutant: the heartbeat is not started.
Acquire_NoHeartbeat(op) ==
  /\ pc[op] = "acquiring"
  /\ Grantable(op)
  /\ WriteLease(op, ask[op])
  /\ pc' = [pc EXCEPT ![op] = "running"]
  /\ UNCHANGED <<ask, beat, beatTime>>

\* The request is granted: the operation starts, and with it the heartbeat.
Acquire(op) ==
  /\ pc[op] = "acquiring"
  /\ Grantable(op)
  /\ WriteLease(op, ask[op])
  /\ pc' = [pc EXCEPT ![op] = "running"]
  /\ beat' = IF SharedLease THEN [beat EXCEPT ![op] = "timer"] ELSE beat
  /\ beatTime' = IF SharedLease THEN [beatTime EXCEPT ![op] = Period] ELSE beatTime
  /\ UNCHANGED ask

Busy(op) ==
  /\ pc[op] = "acquiring"
  /\ ~Grantable(op)
  /\ pc' = [pc EXCEPT ![op] = "waiting"]
  /\ UNCHANGED <<owner, ttl, ask, beat, beatTime, overtaken>>

\* delay(75) is over.
Poll(op) ==
  /\ pc[op] = "waiting"
  /\ Request(op, "acquiring")
  /\ UNCHANGED <<owner, ttl, beat, beatTime, overtaken>>

\* A rejected acquisition request ends the call.
RejectAcquire(op) ==
  /\ MayReject
  /\ pc[op] = "acquiring"
  /\ pc' = [pc EXCEPT ![op] = "settled"]
  /\ UNCHANGED <<owner, ttl, ask, beat, beatTime, overtaken>>

-----------------------------------------------------------------------------
(* The operation.                                                          *)

\* The operation is about to mutate the store: lease.renew().
BeginMutation(op) ==
  /\ pc[op] = "running"
  /\ Request(op, "renewing")
  /\ UNCHANGED <<owner, ttl, beat, beatTime, overtaken>>

\* The operation has returned: the last renew().
BeginCompletion(op) ==
  /\ pc[op] = "running"
  /\ Request(op, "completing")
  /\ UNCHANGED <<owner, ttl, beat, beatTime, overtaken>>

\* stopped = true and clearTimeout: a timer is gone, a request is awaited.
StopHeartbeat(op) ==
  /\ beat' = IF beat[op] = "timer" THEN [beat EXCEPT ![op] = "off"] ELSE beat
  /\ UNCHANGED beatTime

Renew(op) ==
  /\ pc[op] \in {"renewing", "completing"}
  /\ Grantable(op)
  /\ WriteLease(op, ask[op])
  /\ \/ /\ pc[op] = "renewing"
        /\ pc' = [pc EXCEPT ![op] = "mutating"]
        /\ UNCHANGED <<beat, beatTime>>
     \/ /\ pc[op] = "completing"
        /\ pc' = [pc EXCEPT ![op] = "stopping"]
        /\ StopHeartbeat(op)
  /\ UNCHANGED ask

\* The renewal finds another owner, or rejects: the operation fails.
LoseLease(op) ==
  /\ pc[op] \in {"renewing", "completing"}
  /\ ~Grantable(op) \/ MayReject
  /\ pc' = [pc EXCEPT ![op] = "stopping"]
  /\ StopHeartbeat(op)
  /\ UNCHANGED <<owner, ttl, ask, overtaken>>

\* The write that follows lease.renew() commits, in a transaction of its own.
Mutate(op) ==
  /\ pc[op] = "mutating"
  /\ pc' = [pc EXCEPT ![op] = "running"]
  /\ UNCHANGED <<owner, ttl, ask, beat, beatTime, overtaken>>

\* The operation throws: a network, server, adapter or storage failure.
Throw(op) ==
  /\ pc[op] \in {"running", "mutating"}
  /\ pc[op] = "mutating" => MayReject
  /\ pc' = [pc EXCEPT ![op] = "stopping"]
  /\ StopHeartbeat(op)
  /\ UNCHANGED <<owner, ttl, ask, overtaken>>

-----------------------------------------------------------------------------
(* The heartbeat.                                                          *)

\* The timer's callback runs, late by at most Latency, and asks to renew.
BeatFires(op) ==
  /\ beat[op] = "timer"
  /\ beatTime[op] <= 0
  /\ beat' = [beat EXCEPT ![op] = "asking"]
  /\ beatTime' = [beatTime EXCEPT ![op] = Duration]
  /\ UNCHANGED <<owner, ttl, pc, ask, overtaken>>

\* Mutant: every other beat is missed.
Reschedule_Late(op) ==
  /\ beat' = [beat EXCEPT ![op] = IF pc[op] \in Inside THEN "timer" ELSE "off"]
  /\ beatTime' = [beatTime EXCEPT ![op] = 2 * Period]

\* renewal settles: scheduleRenewal() sets the next timer unless stopped.
Reschedule(op) ==
  IF pc[op] \in Inside
  THEN /\ beat' = [beat EXCEPT ![op] = "timer"]
       /\ beatTime' = [beatTime EXCEPT ![op] = Period]
  ELSE /\ beat' = [beat EXCEPT ![op] = "off"]
       /\ UNCHANGED beatTime

BeatRenews(op) ==
  /\ beat[op] = "asking"
  /\ Grantable(op)
  /\ WriteLease(op, beatTime[op])
  /\ Reschedule(op)
  /\ UNCHANGED <<pc, ask>>

\* renew().catch(() => {}): a lost lease or a rejection goes unnoticed.
BeatFails(op) ==
  /\ beat[op] = "asking"
  /\ ~Grantable(op) \/ MayReject
  /\ Reschedule(op)
  /\ UNCHANGED <<owner, ttl, pc, ask, overtaken>>

-----------------------------------------------------------------------------
(* The end of the call.                                                    *)

\* Mutant: a heartbeat request in flight is not awaited.
BeginRelease_AtOnce(op) ==
  /\ pc[op] = "stopping"
  /\ pc' = [pc EXCEPT ![op] = "releasing"]
  /\ UNCHANGED <<owner, ttl, ask, beat, beatTime, overtaken>>

\* The in-flight heartbeat request, if any, has been awaited.
BeginRelease(op) ==
  /\ pc[op] = "stopping"
  /\ beat[op] = "off"
  /\ pc' = [pc EXCEPT ![op] = "releasing"]
  /\ UNCHANGED <<owner, ttl, ask, beat, beatTime, overtaken>>

\* Mutant: the record is deleted whoever owns it.
Release_Any(op) ==
  /\ pc[op] = "releasing"
  /\ owner' = NoOwner
  /\ ttl' = 0
  /\ pc' = [pc EXCEPT ![op] = "settled"]
  /\ UNCHANGED <<ask, beat, beatTime, overtaken>>

\* releaseMutationLease deletes the record only if it is still ours.
Release(op) ==
  /\ pc[op] = "releasing"
  /\ IF owner = op THEN owner' = NoOwner /\ ttl' = 0 ELSE UNCHANGED <<owner, ttl>>
  /\ pc' = [pc EXCEPT ![op] = "settled"]
  /\ UNCHANGED <<ask, beat, beatTime, overtaken>>

\* releaseFailure: the call ends and the record stays until it expires.
RejectRelease(op) ==
  /\ MayReject
  /\ pc[op] = "releasing"
  /\ pc' = [pc EXCEPT ![op] = "settled"]
  /\ UNCHANGED <<owner, ttl, ask, beat, beatTime, overtaken>>

\* The tab is closed or crashes.  A request that still commits afterwards is
\* one that committed just before.
Crash(op) ==
  /\ pc[op] \notin Ended \cup {"idle"}
  /\ pc' = [pc EXCEPT ![op] = "crashed"]
  /\ beat' = [beat EXCEPT ![op] = "off"]
  /\ UNCHANGED <<owner, ttl, ask, beatTime, overtaken>>

-----------------------------------------------------------------------------
(* Time.                                                                   *)

\* No request has been outstanding, and no timer overdue, for Latency.
OnTime ==
  \A o \in Ops :
    /\ pc[o] \in Asking => ask[o] > Duration - Latency
    /\ beat[o] = "asking" => beatTime[o] > Duration - Latency
    /\ beat[o] = "timer" => beatTime[o] > -Latency

Tick ==
  /\ MayPause \/ OnTime
  /\ ttl' = Max0(ttl - 1)
  /\ ask' = [o \in Ops |-> IF pc[o] \in Asking THEN Max0(ask[o] - 1) ELSE 0]
  /\ beatTime' = [o \in Ops |->
       CASE beat[o] = "asking" -> Max0(beatTime[o] - 1)
         [] beat[o] = "timer"  -> IF beatTime[o] > -Latency THEN beatTime[o] - 1
                                  ELSE beatTime[o]
         [] OTHER -> 0]
  /\ UNCHANGED <<owner, pc, beat, overtaken>>

-----------------------------------------------------------------------------

Acquisition(op) == Call(op) \/ Acquire(op) \/ Busy(op) \/ Poll(op) \/ RejectAcquire(op)
Operation(op)   == \/ BeginMutation(op) \/ BeginCompletion(op) \/ Renew(op)
                   \/ LoseLease(op) \/ Mutate(op) \/ Throw(op)
Heartbeat(op)   == BeatFires(op) \/ BeatRenews(op) \/ BeatFails(op)
Ending(op)      == BeginRelease(op) \/ Release(op) \/ RejectRelease(op)

Next ==
  \/ \E op \in Ops : Acquisition(op) \/ Operation(op) \/ Heartbeat(op) \/ Ending(op) \/ Crash(op)
  \/ Tick

Spec == Init /\ [][Next]_vars

\* Requests settle, timers fire, time passes; an operation, straight-line
\* code over bounded requests, does not mutate for ever.
Fairness ==
  /\ WF_vars(Tick)
  /\ \A op \in Ops :
       /\ WF_vars(Acquire(op) \/ Busy(op) \/ Poll(op))
       /\ WF_vars(Renew(op) \/ LoseLease(op) \/ Mutate(op))
       /\ SF_vars(BeginCompletion(op))
       /\ WF_vars(Heartbeat(op))
       /\ WF_vars(BeginRelease(op) \/ Release(op))

FairSpec == Spec /\ Fairness

-----------------------------------------------------------------------------
(* Properties.                                                             *)

\* Every variable has its type.
TypeOK ==
  /\ owner \in Ops \cup {NoOwner}
  /\ ttl \in 0..Duration
  /\ pc \in [Ops -> PCs]
  /\ ask \in [Ops -> 0..Duration]
  /\ beat \in [Ops -> {"off", "timer", "asking"}]
  /\ beatTime \in [Ops -> (-Latency)..(Duration + Period)]
  /\ \A o \in Ops : beat[o] = "asking" => beatTime[o] \in 0..Duration
  /\ overtaken \in [Ops -> BOOLEAN]

\* withMutationLease runs one operation at a time over the shared state: what
\* docs/architecture.md calls single-flight and the losing tab relies on.
MutualExclusion ==
  \A o1, o2 \in Ops : pc[o1] \in Inside /\ pc[o2] \in Inside => o1 = o2

\* A write that follows lease.renew() commits while its call still holds an
\* unexpired lease, although renewal and write are two transactions.
WriteHoldsLease ==
  [][\A op \in Ops : Mutate(op) => owner = op /\ ttl > 0]_vars

\* Once another call has taken the lease over, no renew() of this call
\* succeeds: its loss is reported (manager.ts, the error thrown by renew).
LostLeaseIsDetected ==
  [][\A op \in Ops : Renew(op) => ~overtaken[op]]_vars

\* A call that has settled leaves no record and no heartbeat behind: a late
\* heartbeat never takes the lease again after the release.
ReleasedForGood ==
  \A op \in Ops : pc[op] = "settled" => owner # op /\ beat[op] = "off"

\* Every call settles, or its tab crashes, although other tabs crash or hang
\* on while holding the lease.
EveryCallSettles ==
  \A op \in Ops : pc[op] = "acquiring" ~> pc[op] \in Ended

\* The heartbeat's slack: a call inside its operation owns the record, and
\* what is left of it outlasts the heartbeat that will renew it.
HeartbeatSlack ==
  \A op \in Ops :
    pc[op] \in Inside =>
      /\ owner = op
      /\ beat[op] \in {"timer", "asking"}
      /\ beat[op] = "timer"  => ttl > beatTime[op] + 2 * Latency
      /\ beat[op] = "asking" => ttl > beatTime[op] - (Duration - Latency)

\* An outstanding request was issued no longer than Latency ago, and a timer
\* is overdue by no more than Latency.
BoundedDelays ==
  \A op \in Ops :
    /\ pc[op] \in Asking => ask[op] >= Duration - Latency
    /\ beat[op] = "asking" => beatTime[op] >= Duration - Latency
    /\ beat[op] = "timer" => beatTime[op] >= -Latency /\ beatTime[op] <= Period

\* The timing under which the lease excludes: the tabs keep running, their
\* store answers, and the heartbeat fits: late by Latency, asked Latency ago
\* and taking Latency to commit it still finds the lease unexpired.
Timely ==
  /\ SharedLease /\ ~MayPause /\ ~MayReject
  /\ Duration > Period + 3 * Latency

\* The inductive invariant behind MutualExclusion and WriteHoldsLease.
LeaseInv == TypeOK /\ BoundedDelays /\ HeartbeatSlack

\* The inductive invariant behind ReleasedForGood: the record names a call that
\* has not settled, and only a call yet to release has a heartbeat.
QuietInv ==
  /\ TypeOK
  /\ \A op \in Ops :
       /\ owner = op => pc[op] \in Inside \cup {"stopping", "releasing", "crashed"}
       /\ beat[op] # "off" => pc[op] \in Inside \cup {"stopping"}

\* Abstractly, calls enter and leave a section that holds one at a time.
Stage(op) ==
  IF pc[op] \in Inside THEN "inside"
  ELSE IF pc[op] \in {"idle", "acquiring", "waiting"} THEN "before" ELSE "after"

Section == INSTANCE SingleFlight WITH Reusable <- FALSE, stage <- [o \in Ops |-> Stage(o)]

\* The lease implements the section: each operation runs at most once, alone.
SectionSpec == Section!Spec

=============================================================================
