---------------------------- MODULE SessionRequest ----------------------------
(* The requests of the session manager under its lease (session/manager.ts): clock   *)
(* correction from Date headers, the one retry for a nonce or a clock, what a stored  *)
(* session does to the clock, and whether the session returned is still good.         *)
(*                                                                                    *)
(* One client makes one call after another; SessionManager models how calls meet.     *)
(* Times are differences to the gateway's clock, so that nothing grows as it passes:  *)
(* an instant is how far it lies ahead, and the client's now() is off by              *)
(* offset - skew.  A unit is the coarsest of the code's roundings (seconds).          *)
EXTENDS Integers

CONSTANTS Latency,     \* bound on each way of a request
          Threshold,   \* 1000 ms: a smaller correction is no change
          Limit,       \* 86 400 000 ms: a larger discrepancy is ignored
          Window,      \* clock skew the gateway tolerates
          Leeway,      \* refreshLeewayMilliseconds
          Lifetime,    \* expires_in of a grant
          Grace,       \* lifetime of a challenge
          Skews,       \* how far the gateway's clock may be ahead of the local one
          MaxDisturbances,  \* bound on what goes wrong around the client
          NonceFirst,  \* the gateway asks for its nonce before it judges the clock
          None

ASSUME RequestAssumption ==
    /\ Latency \in Nat \ {0} /\ Threshold \in Nat /\ Limit \in Nat
    /\ Window \in Nat /\ Window >= Threshold + 2 * Latency
    /\ Leeway \in Nat /\ Leeway >= Latency
    /\ Lifetime \in Nat /\ Grace \in Nat /\ Grace > 2 * Latency
    /\ Skews \subseteq Int
    /\ \A s \in Skews : s \in -(Limit - Latency) .. Limit - Latency
    /\ MaxDisturbances \in Nat
    /\ NonceFirst \in BOOLEAN
    /\ None \notin Int

VARIABLES skew,       \* the gateway's clock minus the local one
          offset,     \* clockOffsetMilliseconds
          nonce,      \* what the client holds: none, old, current
          stored,     \* the stored session, or None
          pc,
          requests,   \* requests left: challenge and exchange, or only the last one
          attempt,
          started,    \* startedAt, a reading of the local clock
          age,        \* how long the current way has taken
          proof,      \* iat and nonce of the proof under way
          answer,     \* the gateway's answer under way
          excused,    \* history: what has happened to this request's clock
          disturbances

call == <<pc, requests, attempt, started, age, proof, answer, excused>>
vars == <<skew, offset, nonce, stored, call, disturbances>>

Sessions == [offset : Int, seen : Int, left : Int, steady : BOOLEAN]
Proofs == [iat : Int, nonce : {"none", "old", "current"}]
Answers == [kind : {"ok", "nonce", "clock", "stepUp", "dead", "other"},
            date : Int \cup {None}, nonce : BOOLEAN]

\* now() minus the gateway's clock.
Error == offset - skew
Abs(n) == IF n < 0 THEN -n ELSE n

Init ==
    /\ skew \in Skews
    /\ offset = 0 /\ nonce = "none" /\ stored = None
    /\ pc = "idle" /\ requests = 0 /\ attempt = 0 /\ started = 0 /\ age = 0
    /\ proof = None /\ answer = None
    /\ excused = FALSE
    /\ disturbances = 0

Quiet == UNCHANGED <<skew, disturbances>>
Disturbs == disturbances < MaxDisturbances /\ disturbances' = disturbances + 1

------------------------------------------------------------------------------
(* A call: what is stored decides what is asked for.                         *)

Establish == pc' = "sending" /\ requests' = 2
NewAttempt(n) == attempt' = n /\ started' = -skew /\ age' = 0
NewRequest == NewAttempt(0) /\ excused' = FALSE

\* A valid session sets the clock as it was when the session was stored.
Restored_Not == UNCHANGED offset
Restored == offset' = stored.offset
Fresh(leeway) == stored.seen > offset' - skew + leeway

\* session() with its leeway; refresh() without, when the session is another than it had seen.
ReturnStored(leeway) ==
    /\ pc = "idle" /\ stored # None
    /\ Restored
    /\ Fresh(leeway)
    /\ pc' = "returned"
    /\ UNCHANGED <<nonce, stored, requests, attempt, started, age, proof, answer, excused>> /\ Quiet

\* session() with a stale session, refresh() with any.
BeginRefresh ==
    /\ pc = "idle" /\ stored # None
    /\ Restored
    /\ pc' = "sending" /\ requests' = 1
    /\ NewRequest
    /\ UNCHANGED <<nonce, stored, proof, answer>> /\ Quiet

\* Nothing is stored, or what is stored can no longer be refreshed.
BeginEstablish ==
    /\ pc = "idle"
    /\ \/ stored = None /\ UNCHANGED offset
       \/ stored # None /\ Restored /\ ~Fresh(0)
    /\ stored' = None
    /\ Establish /\ NewRequest
    /\ UNCHANGED <<nonce, proof, answer>> /\ Quiet

Finish ==
    /\ pc \in {"returned", "failed"}
    /\ pc' = "idle"
    /\ requests' = 0 /\ attempt' = 0 /\ started' = 0 /\ age' = 0 /\ excused' = FALSE
    /\ UNCHANGED <<offset, nonce, stored, proof, answer>> /\ Quiet

------------------------------------------------------------------------------
(* sendDPoPJSON.                                                             *)

Send ==
    /\ pc = "sending"
    /\ proof' = [iat |-> Error, nonce |-> nonce]
    /\ pc' = "sent" /\ age' = 0
    /\ UNCHANGED <<offset, nonce, stored, requests, attempt, started, answer, excused>> /\ Quiet

ClockRefused == Abs(proof.iat) > Window
NonceRefused == proof.nonce # "current"
Verdict == IF NonceRefused /\ (NonceFirst \/ ~ClockRefused) THEN "nonce"
           ELSE IF ClockRefused THEN "clock" ELSE "ok"

Reply(kind, date, header) ==
    /\ pc = "sent"
    /\ answer' = [kind |-> kind, date |-> date, nonce |-> header]
    /\ pc' = "answered" /\ age' = 0 /\ proof' = None
    /\ UNCHANGED <<skew, offset, nonce, stored, requests, attempt, started, excused>>

\* The gateway's own answer has a date; a demand for a nonce brings it, a success may.
Answer ==
    /\ pc = "sent"
    /\ \/ Reply(Verdict, 0, Verdict = "nonce")
       \/ Verdict = "ok" /\ Reply("ok", 0, TRUE)
    /\ Quiet
\* Another error, or an intermediary that drops the date, brings its own or adds a nonce.
AnswerOtherwise ==
    /\ pc = "sent"
    /\ \/ \E kind \in {"stepUp", "dead", "other"}, date \in {0, Limit, 2 * Limit, None} : Reply(kind, date, FALSE)
       \/ Reply(Verdict, None, Verdict = "nonce")
       \/ Verdict = "clock" /\ Reply("clock", 0, TRUE)
    /\ Disturbs

Observed == answer.date - (started - skew) \div 2
Observes == answer.date # None /\ Abs(Observed) <= Limit
ClockChanged == Observes /\ Abs(Observed - offset) > Threshold
ObserveServerDate_OnSuccess == offset' = IF Observes /\ answer.kind = "ok" THEN Observed ELSE offset
ObserveServerDate == offset' = IF Observes THEN Observed ELSE offset

\* The stored session after an answer: what performRefreshUnderLease drops.
Dropped == IF requests = 1 /\ stored # None /\ answer.kind \in {"stepUp", "dead"} THEN None ELSE stored

RetryNonce_Forgets ==
    /\ pc = "answered" /\ answer.kind = "nonce" /\ attempt = 0 /\ answer.nonce
    /\ ObserveServerDate
    /\ pc' = "sending" /\ NewAttempt(1)
    /\ excused' = (excused \/ ~Observes)
    /\ UNCHANGED <<nonce, stored, requests, proof>> /\ answer' = None /\ Quiet
RetryNonce ==
    /\ pc = "answered" /\ answer.kind = "nonce" /\ attempt = 0 /\ answer.nonce
    /\ ObserveServerDate
    /\ nonce' = "current"
    /\ pc' = "sending" /\ NewAttempt(1)
    /\ excused' = (excused \/ ~Observes)
    /\ UNCHANGED <<stored, requests, proof>> /\ answer' = None /\ Quiet

RetryClock ==
    /\ pc = "answered" /\ answer.kind = "clock" /\ attempt = 0 /\ ~answer.nonce /\ ClockChanged
    /\ ObserveServerDate
    /\ pc' = "sending" /\ NewAttempt(1)
    /\ UNCHANGED <<nonce, stored, requests, proof, excused>> /\ answer' = None /\ Quiet

Refused ==
    /\ pc = "answered" /\ answer.kind # "ok"
    /\ ~(answer.kind = "nonce" /\ attempt = 0 /\ answer.nonce)
    /\ ~(answer.kind = "clock" /\ attempt = 0 /\ ~answer.nonce /\ ClockChanged)

\* refreshStoredSessionUnderLease: a step-up starts over, any other error is thrown.
StepUp ==
    /\ Refused /\ answer.kind = "stepUp" /\ requests = 1 /\ stored # None
    /\ ObserveServerDate
    /\ stored' = Dropped
    /\ Establish /\ NewRequest
    /\ UNCHANGED <<nonce, proof>> /\ answer' = None /\ Quiet

ThrowRefused ==
    /\ Refused /\ ~(answer.kind = "stepUp" /\ requests = 1 /\ stored # None)
    /\ ObserveServerDate
    /\ stored' = Dropped
    /\ pc' = "failed"
    /\ UNCHANGED <<nonce, requests, attempt, started, age, proof, excused>> /\ answer' = None /\ Quiet

Received == ObserveServerDate /\ nonce' = IF answer.nonce THEN "current" ELSE nonce

\* The challenge must not have expired by the corrected clock.
ChallengeLive == Grace - age > offset' - skew

AcceptChallenge ==
    /\ pc = "answered" /\ answer.kind = "ok" /\ requests = 2
    /\ Received
    /\ ChallengeLive
    /\ pc' = "sending" /\ requests' = 1 /\ NewRequest
    /\ UNCHANGED <<stored, proof>> /\ answer' = None /\ Quiet

RejectChallenge ==
    /\ pc = "answered" /\ answer.kind = "ok" /\ requests = 2
    /\ Received
    /\ ~ChallengeLive
    /\ pc' = "failed"
    /\ excused' = (excused \/ ~Observes)
    /\ UNCHANGED <<stored, requests, attempt, started, age, proof>> /\ answer' = None /\ Quiet

\* persistGrantUnderLease: expiry by the client's clock, kept with the offset it used.
PersistGrant ==
    /\ pc = "answered" /\ answer.kind = "ok" /\ requests = 1
    /\ Received
    /\ stored' = [offset |-> offset', seen |-> offset' - skew + Lifetime, left |-> Lifetime - age,
                  steady |-> TRUE]
    /\ pc' = "returned"
    /\ UNCHANGED <<requests, attempt, started, age, proof, excused>> /\ answer' = None /\ Quiet

\* The request or the answer is lost, an adapter fails, the answer makes no sense.
Fail ==
    /\ pc \in {"sending", "sent", "answered"}
    /\ pc' = "failed" /\ proof' = None /\ answer' = None
    /\ Disturbs
    /\ UNCHANGED <<skew, offset, nonce, stored, requests, attempt, started, age, excused>>

------------------------------------------------------------------------------
(* Time, and what else happens.                                              *)

\* Nothing tells instants further back from these.
Back(n, floor) == IF n > floor THEN n - 1 ELSE n

Requesting == {"sending", "sent", "answered"}

Tick ==
    /\ pc \in Requesting => age < Latency
    /\ age' = IF pc \in Requesting THEN age + 1 ELSE age
    /\ started' = IF pc \in Requesting THEN started - 1 ELSE started
    /\ proof' = IF pc = "sent" THEN [proof EXCEPT !.iat = @ - 1] ELSE proof
    /\ answer' = IF pc = "answered" /\ answer.date # None THEN [answer EXCEPT !.date = @ - 1] ELSE answer
    /\ stored' = IF stored = None THEN None
                 ELSE [stored EXCEPT !.seen = Back(@, -2 * Limit), !.left = Back(@, -Latency)]
    /\ UNCHANGED <<skew, offset, nonce, pc, requests, attempt, excused, disturbances>>

\* Somebody sets the local clock.
SetClock ==
    /\ Disturbs
    /\ skew' \in Skews \ {skew}
    /\ stored' = IF stored = None THEN None ELSE [stored EXCEPT !.steady = FALSE]
    /\ excused' = (pc # "idle")
    /\ UNCHANGED <<offset, nonce, pc, requests, attempt, started, age, proof, answer>>

\* The gateway rotates its nonce, or the late answer of another request brings an old one.
NonceGoesOld ==
    /\ Disturbs
    /\ nonce = "current"
    /\ nonce' = "old"
    /\ UNCHANGED <<skew, offset, stored, call>>

\* Another tab stores a session, with the offset it has learned, or none.
OtherTabStores ==
    /\ pc = "idle"
    /\ \E o \in {0, skew} :
          stored' = [offset |-> o, seen |-> o - skew + Lifetime, left |-> Lifetime, steady |-> TRUE]
    /\ stored' # stored
    /\ UNCHANGED <<offset, nonce, call>> /\ Quiet

Proceed ==
    \/ ReturnStored(Leeway) \/ ReturnStored(0) \/ BeginRefresh \/ BeginEstablish \/ Finish
    \/ Send \/ RetryNonce \/ RetryClock \/ StepUp \/ ThrowRefused
    \/ AcceptChallenge \/ RejectChallenge \/ PersistGrant

Next == Proceed \/ Answer \/ AnswerOtherwise \/ Fail \/ Tick \/ SetClock \/ NonceGoesOld \/ OtherTabStores

\* The application calls again and again, and answers arrive.
Fairness == WF_vars(Proceed) /\ WF_vars(Answer)

Spec == Init /\ [][Next]_vars /\ Fairness

------------------------------------------------------------------------------
(* Properties.                                                               *)

TypeOK ==
    /\ skew \in Skews /\ offset \in -Limit .. Limit
    /\ nonce \in {"none", "old", "current"}
    /\ stored \in Sessions \cup {None}
    /\ pc \in {"idle", "sending", "sent", "answered", "returned", "failed"}
    /\ requests \in 0 .. 2 /\ attempt \in 0 .. 1
    /\ started \in Int /\ age \in 0 .. Latency
    /\ proof \in Proofs \cup {None} /\ answer \in Answers \cup {None}
    /\ excused \in BOOLEAN
    /\ disturbances \in 0 .. MaxDisturbances

\* No request is refused for the client's clock in the end, and no challenge taken for
\* expired, unless an answer had no date, a foreign nonce came with it, or the clock was set
\* while the request ran: whatever offset a stored session has brought back.
ClockSettles ==
    [][/\ ThrowRefused /\ answer.kind = "clock" =>
            excused \/ (attempt = 0 /\ (answer.nonce \/ answer.date = None))
       /\ RejectChallenge => excused']_vars

\* A session that session() returns without a request has not expired at the gateway, and one
\* that refresh() adopts at most by the latency, although the client's clock may be wrong: the
\* expiry and the clock it is compared with are wrong by the same.  Only a local clock that was
\* set in between spoils it.
ReturnedIsLive ==
    [][/\ ReturnStored(Leeway) /\ stored.steady => stored.left > 0
       /\ ReturnStored(0) /\ stored.steady => stored.left + Latency > 0]_vars

\* A client that goes on calling gets its session.
GetsSession == []<>(pc = "returned")
=============================================================================
