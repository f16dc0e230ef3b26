------------------------ MODULE SessionRequest_proofs ------------------------
(* Theorems of SessionRequest, for every latency, threshold, window, lifetime and   *)
(* set of local clocks its assumption allows, and however much goes wrong.          *)
EXTENDS SessionRequest, TLAPS

\* The assumption without the skews, about which it is cited where they matter.
LEMMA Numbers ==
    /\ Latency \in Nat /\ Threshold \in Nat /\ Limit \in Nat
    /\ Window \in Nat /\ Window >= Threshold + 2 * Latency
    /\ Leeway \in Nat /\ Leeway >= Latency
    /\ Lifetime \in Nat /\ Grace \in Nat /\ Grace > 2 * Latency
    /\ MaxDisturbances \in Nat
    /\ None \notin Int
  BY RequestAssumption

USE Numbers

\* The types in parts, each of which a step is shown to keep by itself.
Counters ==
    /\ requests \in 0 .. 2 /\ attempt \in 0 .. 1
    /\ started \in Int /\ age \in 0 .. Latency
Bounds == skew \in Skews /\ offset \in -Limit .. Limit /\ disturbances \in 0 .. MaxDisturbances
Holdings ==
    /\ nonce \in {"none", "old", "current"} /\ stored \in Sessions \cup {None}
    /\ pc \in {"idle", "sending", "sent", "answered", "returned", "failed"}
    /\ proof \in Proofs \cup {None} /\ answer \in Answers \cup {None}
    /\ excused \in BOOLEAN

\* The types, in three parts.
LEMMA TypeParts == TypeOK <=> Counters /\ Bounds /\ Holdings
  BY DEF TypeOK, Counters, Bounds, Holdings
\* The same of the next state.
LEMMA NextTypeParts == TypeOK' <=> Counters' /\ Bounds' /\ Holdings'
  BY DEF TypeOK, Counters, Bounds, Holdings

\* How long ago, by the local clock, the current attempt started.
Elapsed == -skew - started

\* What a stored session promises by the client's clock outlasts the gateway's by at most
\* the time the grant was under way.
StoredInv ==
    stored # None =>
        /\ stored.offset \in -Limit .. Limit
        /\ stored.left >= -Latency
        /\ stored.steady => stored.seen - (stored.offset - skew) <= stored.left + Latency

\* What a call under way has in hand.
PhaseInv ==
    /\ pc = "sent" => proof \in Proofs
    /\ pc = "answered" =>
          /\ answer \in Answers
          /\ answer.kind \in {"ok", "nonce", "clock"} => answer.date \in {-age, None}

\* The clock as the attempt under way has found it, unless somebody has set it: a second
\* attempt has it right, and only a wrong one is refused.
ClockInv ==
    ~excused =>
        /\ pc = "sending" => Elapsed = age
        /\ pc = "sent" => Elapsed \in age .. age + Latency /\ proof.iat = Error - age
        /\ pc = "answered" => /\ Elapsed \in age .. age + 2 * Latency
                              /\ answer.kind = "clock" => attempt = 0 /\ Abs(Error) > Window - Latency
        /\ pc \in Requesting /\ attempt = 1 => Abs(Error) <= Latency

RequestInv == TypeOK /\ StoredInv /\ PhaseInv /\ ClockInv

------------------------------------------------------------------------------
(* The clock that an answer teaches.                                         *)

\* What rounding half of a round trip loses.
LEMMA Halves ==
    ASSUME NEW n \in Int
    PROVE  n \div 2 \in Int /\ 2 * (n \div 2) <= n /\ n <= 2 * (n \div 2) + 1
  OBVIOUS

\* The gateway's clock is within its bounds.
LEMMA SkewBounds == ASSUME TypeOK PROVE skew \in -(Limit - Latency) .. Limit - Latency /\ skew \in Int
  BY RequestAssumption DEF TypeOK

\* The gateway's own date is off by no more than one way of the request.
LEMMA GoodDate ==
    ASSUME TypeOK, answer.date = -age, Elapsed \in age .. age + 2 * Latency
    PROVE  /\ Observed \in Int /\ Observed - skew \in -Latency .. Latency
           /\ Observes
<1> DEFINE n == started - skew
           h == n \div 2
<1>1. skew \in Int /\ started \in Int /\ age \in 0 .. Latency /\ n \in Int
  BY SkewBounds DEF TypeOK
<1>2. h \in Int /\ 2 * h <= n /\ n <= 2 * h + 1
  BY <1>1, Halves
<1>3. n = -2 * skew - Elapsed
  BY <1>1 DEF Elapsed
<1>4. Observed = -age - h
  BY DEF Observed
<1> HIDE DEF n, h
<1>5. Observed \in Int /\ Observed - skew \in -Latency .. Latency
  BY <1>1, <1>2, <1>3, <1>4 DEF Elapsed
<1>6. Observed \in -Limit .. Limit
  BY <1>1, <1>5, SkewBounds
<1>7. answer.date # None
  BY <1>1
<1> QED BY <1>5, <1>6, <1>7 DEF Observes, Abs

\* An offset that is observed is within its bounds.
LEMMA OffsetBounds ==
    ASSUME TypeOK, PhaseInv, pc = "answered", ObserveServerDate
    PROVE  offset' \in -Limit .. Limit
<1>1. CASE Observes
  <2>1. answer.date \in Int /\ started - skew \in Int
    BY <1>1, SkewBounds DEF Observes, PhaseInv, Answers, TypeOK
  <2>2. Observed \in Int
    BY <2>1, Halves DEF Observed
  <2> QED BY <1>1, <2>2 DEF ObserveServerDate, Observes, Abs
<1>2. CASE ~Observes
  BY <1>2 DEF ObserveServerDate, TypeOK
<1> QED BY <1>1, <1>2

\* What the clock is after the gateway's own answer, unless it was without a date.
LEMMA LearnsClock ==
    ASSUME RequestInv, pc = "answered", answer.kind \in {"ok", "nonce", "clock"}, ~excused,
           Observes, ObserveServerDate
    PROVE  offset' - skew \in -Latency .. Latency /\ Observed - skew \in -Latency .. Latency
<1>1. answer.date = -age /\ Elapsed \in age .. age + 2 * Latency
  BY DEF RequestInv, PhaseInv, ClockInv, Observes
<1> QED BY <1>1, GoodDate DEF RequestInv, ObserveServerDate

------------------------------------------------------------------------------
(* The invariant.                                                            *)

\* The invariant holds in the beginning.
LEMMA InitRequest == Init => RequestInv
<1>1. Init => TypeOK
  <2>1. Init => Counters
    BY DEF Init, Counters
  <2>2. Init => Bounds
    BY DEF Init, Bounds
  <2>3. Init => Holdings
    BY DEF Init, Holdings
  <2> QED BY <2>1, <2>2, <2>3, TypeParts
<1>2. Init => StoredInv /\ PhaseInv /\ ClockInv
  BY DEF Init, StoredInv, PhaseInv, ClockInv, Requesting
<1> QED BY <1>1, <1>2 DEF RequestInv

\* A request or a new attempt starts its measurements over.
LEMMA FreshAttempt ==
    ASSUME TypeOK, NEW n \in 0 .. 1, NewAttempt(n), UNCHANGED skew
    PROVE  attempt' \in 0 .. 1 /\ started' \in Int /\ age' \in 0 .. Latency /\ Elapsed' = age'
  BY SkewBounds DEF NewAttempt, Elapsed

\* A call that begins, returns the stored session, or ends keeps it.
LEMMA BeginsCall ==
    ASSUME RequestInv,
           \/ ReturnStored(Leeway) \/ ReturnStored(0) \/ BeginRefresh \/ BeginEstablish \/ Finish
    PROVE  RequestInv'
<1> USE DEF RequestInv
<1>1. Restored /\ stored # None => offset' \in -Limit .. Limit
  BY DEF Restored, StoredInv
<1>2. CASE ReturnStored(Leeway) \/ ReturnStored(0)
  BY <1>1, <1>2 DEF ReturnStored, Quiet, TypeOK, StoredInv, PhaseInv, ClockInv, Requesting
<1>3. CASE BeginRefresh
  <2>1. attempt' \in 0 .. 1 /\ started' \in Int /\ age' \in 0 .. Latency /\ Elapsed' = age' /\ attempt' = 0
    BY <1>3, FreshAttempt DEF BeginRefresh, NewRequest, NewAttempt, Quiet
  <2>2. pc' = "sending" /\ requests' = 1 /\ excused' = FALSE /\ offset' \in -Limit .. Limit
    BY <1>1, <1>3 DEF BeginRefresh, NewRequest
  <2>3. UNCHANGED <<nonce, stored, proof, answer, skew, disturbances>>
    BY <1>3 DEF BeginRefresh, Quiet
  <2>4. TypeOK'
    <3>1. Counters'
      BY <2>1, <2>2 DEF Counters
    <3>2. Bounds'
      BY <2>2, <2>3, TypeParts DEF Bounds
    <3>3. Holdings'
      BY <2>2, <2>3, TypeParts DEF Holdings
    <3> QED BY <3>1, <3>2, <3>3, NextTypeParts
  <2>5. StoredInv' /\ PhaseInv' /\ ClockInv'
    BY <2>1, <2>2, <2>3 DEF StoredInv, PhaseInv, ClockInv
  <2> QED BY <2>4, <2>5
<1>4. CASE BeginEstablish
  <2>1. attempt' \in 0 .. 1 /\ started' \in Int /\ age' \in 0 .. Latency /\ Elapsed' = age' /\ attempt' = 0
    BY <1>4, FreshAttempt DEF BeginEstablish, NewRequest, NewAttempt, Quiet
  <2>2. pc' = "sending" /\ requests' = 2 /\ excused' = FALSE /\ stored' = None
    BY <1>4 DEF BeginEstablish, Establish, NewRequest
  <2>3. offset' \in -Limit .. Limit
    BY <1>1, <1>4 DEF BeginEstablish, TypeOK
  <2>4. UNCHANGED <<nonce, proof, answer, skew, disturbances>>
    BY <1>4 DEF BeginEstablish, Quiet
  <2>5. TypeOK'
    <3>1. Counters'
      BY <2>1, <2>2 DEF Counters
    <3>2. Bounds'
      BY <2>3, <2>4, TypeParts DEF Bounds
    <3>3. Holdings'
      BY <2>2, <2>4, TypeParts DEF Holdings
    <3> QED BY <3>1, <3>2, <3>3, NextTypeParts
  <2>6. StoredInv' /\ PhaseInv' /\ ClockInv'
    BY <2>1, <2>2, <2>4 DEF StoredInv, PhaseInv, ClockInv
  <2> QED BY <2>5, <2>6
<1>5. CASE Finish
  <2>1. TypeOK'
    <3>1. Counters'
      BY <1>5 DEF Finish, Counters
    <3>2. Bounds' /\ Holdings'
      BY <1>5, TypeParts DEF Finish, Quiet, Bounds, Holdings
    <3> QED BY <3>1, <3>2, NextTypeParts
  <2>2. StoredInv' /\ PhaseInv' /\ ClockInv'
    BY <1>5 DEF Finish, Quiet, StoredInv, PhaseInv, ClockInv, Requesting
  <2> QED BY <2>1, <2>2
<1> QED BY <1>2, <1>3, <1>4, <1>5

\* Sending does.
LEMMA SendsRequest == ASSUME RequestInv, Send PROVE RequestInv'
<1> USE DEF RequestInv, Send, Quiet
<1>1. Error \in Int
  BY SkewBounds DEF Error, TypeOK
<1>2. TypeOK'
  BY <1>1 DEF TypeOK, Proofs
<1>3. StoredInv' /\ PhaseInv'
  BY <1>1 DEF TypeOK, StoredInv, PhaseInv, Proofs
<1>4. ClockInv'
  BY <1>1 DEF TypeOK, ClockInv, Elapsed, Error, Abs, Requesting
<1> QED BY <1>2, <1>3, <1>4

\* The gateway judges the proof by its own clock.
LEMMA AnswersRequest == ASSUME RequestInv, Answer \/ AnswerOtherwise PROVE RequestInv'
<1> USE DEF RequestInv
<1>1. PICK kind \in {"ok", "nonce", "clock", "stepUp", "dead", "other"}, date \in Int \cup {None}, header \in BOOLEAN :
        /\ Reply(kind, date, header)
        /\ kind \in {"ok", "nonce", "clock"} => kind = Verdict /\ date \in {0, None}
  <2>1. Verdict \in {"ok", "nonce", "clock"}
    BY DEF Verdict
  <2>2. CASE Answer
    <3>1. PICK header \in BOOLEAN : Reply(Verdict, 0, header)
      BY <2>2 DEF Answer
    <3> QED BY <2>1, <3>1
  <2>3. CASE AnswerOtherwise
    <3>1. CASE \E kind \in {"stepUp", "dead", "other"}, date \in {0, Limit, 2 * Limit, None} : Reply(kind, date, FALSE)
      <4>1. PICK kind \in {"stepUp", "dead", "other"}, date \in {0, Limit, 2 * Limit, None} : Reply(kind, date, FALSE)
        BY <3>1
      <4>2. date \in Int \cup {None}
        OBVIOUS
      <4> QED BY <4>1, <4>2
    <3>2. CASE Reply(Verdict, None, Verdict = "nonce")
      BY <2>1, <3>2
    <3>3. CASE Verdict = "clock" /\ Reply("clock", 0, TRUE)
      <4>1. "clock" \in {"ok", "nonce", "clock", "stepUp", "dead", "other"} /\ 0 \in Int \cup {None} /\ TRUE \in BOOLEAN
        OBVIOUS
      <4> QED BY <3>3, <4>1
    <3> QED BY <2>3, <3>1, <3>2, <3>3 DEF AnswerOtherwise
  <2> QED BY <2>2, <2>3
<1>2. disturbances' \in 0 .. MaxDisturbances
  <2>1. CASE Answer
    BY <2>1 DEF Answer, Quiet, TypeOK
  <2>2. CASE AnswerOtherwise
    BY <2>2 DEF AnswerOtherwise, Disturbs, TypeOK
  <2> QED BY <2>1, <2>2
<1>3. /\ pc = "sent" /\ pc' = "answered" /\ age' = 0 /\ proof' = None
      /\ answer' = [kind |-> kind, date |-> date, nonce |-> header]
      /\ UNCHANGED <<skew, offset, nonce, stored, requests, attempt, started, excused>>
  BY <1>1 DEF Reply
<1>4. answer' \in Answers
  BY <1>3 DEF Answers
<1>5. TypeOK' /\ StoredInv' /\ PhaseInv'
  BY <1>1, <1>2, <1>3, <1>4 DEF TypeOK, StoredInv, PhaseInv
<1>6. ClockInv'
  <2> SUFFICES ASSUME ~excused PROVE ClockInv'
    BY <1>3 DEF ClockInv
  <2>1. Elapsed \in age .. age + Latency /\ proof.iat = Error - age /\ age \in 0 .. Latency
    BY <1>3 DEF ClockInv, TypeOK
  <2>2. Error \in Int /\ Elapsed \in Int /\ Error' = Error /\ Elapsed' = Elapsed
    BY <1>3, SkewBounds DEF TypeOK, Error, Elapsed
  <2>3. Elapsed' \in age' .. age' + 2 * Latency
    BY <1>3, <2>1, <2>2
  <2>4. attempt = 1 => Abs(Error) <= Latency
    BY <1>3 DEF ClockInv, Requesting
  <2>5. kind = "clock" => Abs(Error - age) > Window
    BY <1>1, <2>1 DEF Verdict, ClockRefused
  <2>6. kind = "clock" => attempt = 0 /\ Abs(Error) > Window - Latency
    BY <2>1, <2>2, <2>4, <2>5 DEF Abs, TypeOK
  <2> QED BY <1>3, <2>2, <2>3, <2>4, <2>6 DEF ClockInv, Requesting
<1> QED BY <1>5, <1>6

\* The one retry, with a nonce or with the corrected clock.
LEMMA Retries == ASSUME RequestInv, RetryNonce \/ RetryClock PROVE RequestInv'
<1> USE DEF RequestInv
<1>1. /\ pc = "answered" /\ pc' = "sending" /\ answer.kind \in {"nonce", "clock"}
      /\ ObserveServerDate /\ NewAttempt(1) /\ attempt' = 1
      /\ nonce' \in {nonce, "current"} /\ answer' = None
      /\ UNCHANGED <<stored, requests, proof, skew, disturbances>>
      /\ excused' \in BOOLEAN
      /\ ~excused' => ~excused /\ Observes
  BY DEF RetryNonce, RetryClock, NewAttempt, Quiet, ClockChanged, TypeOK
<1>2. offset' \in -Limit .. Limit
  BY <1>1, OffsetBounds
<1>3. started' \in Int /\ age' \in 0 .. Latency /\ Elapsed' = age'
  BY <1>1, FreshAttempt
<1>4. ~excused' => Abs(Error)' <= Latency
  <2> SUFFICES ASSUME ~excused' PROVE Abs(Error)' <= Latency
    OBVIOUS
  <2>1. offset' - skew \in -Latency .. Latency
    BY <1>1, LearnsClock
  <2> QED BY <1>1, <2>1 DEF Error, Abs
<1>5. TypeOK'
  BY <1>1, <1>2, <1>3 DEF TypeOK
<1> QED BY <1>1, <1>3, <1>4, <1>5 DEF StoredInv, PhaseInv, ClockInv

\* An answer that ends the request does.
LEMMA EndsRequest ==
    ASSUME RequestInv, StepUp \/ ThrowRefused \/ AcceptChallenge \/ RejectChallenge
    PROVE  RequestInv'
<1> USE DEF RequestInv
<1>1. /\ pc = "answered" /\ ObserveServerDate /\ answer' = None
      /\ nonce' \in {nonce, "current"}
      /\ UNCHANGED <<proof, skew, disturbances>>
  BY DEF StepUp, ThrowRefused, AcceptChallenge, RejectChallenge, Refused, Received, Quiet
<1>2. offset' \in -Limit .. Limit
  BY <1>1, OffsetBounds
<1>3. stored' \in {stored, None}
  BY DEF StepUp, ThrowRefused, AcceptChallenge, RejectChallenge, Dropped
<1>4. stored' \in Sessions \cup {None} /\ StoredInv'
  BY <1>1, <1>3 DEF TypeOK, StoredInv
<1>5. CASE StepUp \/ AcceptChallenge
  <2>1. pc' = "sending" /\ requests' \in 1 .. 2 /\ excused' = FALSE /\ attempt' = 0 /\ NewAttempt(0)
    BY <1>5 DEF StepUp, AcceptChallenge, Establish, NewRequest, NewAttempt
  <2>2. started' \in Int /\ age' \in 0 .. Latency /\ Elapsed' = age'
    BY <1>1, <2>1, FreshAttempt
  <2>3. TypeOK'
    <3>1. Counters'
      BY <2>1, <2>2 DEF Counters
    <3>2. Bounds'
      BY <1>1, <1>2, TypeParts DEF Bounds
    <3>3. Holdings'
      BY <1>1, <1>4, <2>1, TypeParts DEF Holdings
    <3> QED BY <3>1, <3>2, <3>3, NextTypeParts
  <2>4. PhaseInv' /\ ClockInv'
    BY <1>1, <2>1, <2>2 DEF PhaseInv, ClockInv
  <2> QED BY <1>4, <2>3, <2>4
<1>6. CASE ThrowRefused \/ RejectChallenge
  <2>1. pc' = "failed" /\ UNCHANGED <<requests, attempt, started, age>> /\ excused' \in BOOLEAN
    BY <1>6 DEF ThrowRefused, RejectChallenge, TypeOK
  <2> QED BY <1>1, <1>2, <1>4, <2>1 DEF TypeOK, PhaseInv, ClockInv, Requesting
<1> QED BY <1>5, <1>6

\* A record accepted within Latency of its issue is off by no more than Latency.
LEMMA UnderWay ==
    ASSUME NEW a \in 0 .. Latency, NEW o \in Int, NEW s \in Int,
           NEW off \in Int, NEW seen \in Int, NEW left \in Int,
           off = o, seen = o - s + Lifetime, left = Lifetime - a
    PROVE  left >= -Latency /\ seen - (off - s) <= left + Latency
  OBVIOUS

\* A grant is stored with what is left of it, whatever the answer said of the time.
LEMMA PersistsGrant == ASSUME RequestInv, PersistGrant PROVE RequestInv'
<1> USE DEF RequestInv
<1>1. /\ pc = "answered" /\ pc' = "returned" /\ ObserveServerDate /\ answer' = None
      /\ nonce' \in {nonce, "current"}
      /\ stored' = [offset |-> offset', seen |-> offset' - skew + Lifetime, left |-> Lifetime - age,
                    steady |-> TRUE]
      /\ UNCHANGED <<proof, skew, disturbances, requests, attempt, started, age, excused>>
  BY DEF PersistGrant, Received, Quiet
<1>2. offset' \in -Limit .. Limit
  BY <1>1, OffsetBounds
<1>3. skew \in Int /\ age \in 0 .. Latency /\ offset' \in Int
  BY <1>2, SkewBounds DEF TypeOK
<1>4. stored' \in Sessions
  BY <1>1, <1>3 DEF Sessions
<1>5. StoredInv'
  <2>1. /\ stored'.left = Lifetime - age /\ stored'.offset = offset'
        /\ stored'.seen = offset' - skew + Lifetime
    BY <1>1
  <2>2. stored'.offset \in Int /\ stored'.seen \in Int /\ stored'.left \in Int
    BY <1>4, <2>1 DEF Sessions
  <2>3. stored'.left >= -Latency /\ stored'.seen - (stored'.offset - skew) <= stored'.left + Latency
    <3> HIDE DEF RequestInv
    <3> QED BY <1>3, <2>1, <2>2, UnderWay
  <2> QED BY <1>1, <1>2, <2>1, <2>3 DEF StoredInv
<1> QED BY <1>1, <1>2, <1>4, <1>5 DEF TypeOK, PhaseInv, ClockInv, Requesting

\* A lost request or a rotated nonce does.
LEMMA FailsOrGrowsOld == ASSUME RequestInv, Fail \/ NonceGoesOld PROVE RequestInv'
<1> USE DEF RequestInv
<1>1. CASE Fail
  BY <1>1 DEF Fail, Disturbs, TypeOK, StoredInv, PhaseInv, ClockInv, Requesting
<1>2. CASE NonceGoesOld
  BY <1>2 DEF NonceGoesOld, Disturbs, call, TypeOK, StoredInv, PhaseInv, ClockInv, Requesting, Elapsed, Error
<1> QED BY <1>1, <1>2

\* Every instant comes nearer by one, and those further back than anything tells apart stay.
LEMMA Ticks == ASSUME RequestInv, Tick PROVE RequestInv'
<1> USE DEF RequestInv
<1>u. UNCHANGED <<skew, offset, nonce, pc, requests, attempt, excused, disturbances>>
  BY DEF Tick
<1>t. skew \in Int /\ offset \in Int /\ started \in Int /\ age \in 0 .. Latency
  BY SkewBounds DEF TypeOK
<1>1. age' \in 0 .. Latency /\ started' \in Int
  BY <1>t DEF Tick
<1>2. stored' \in Sessions \cup {None} /\ StoredInv'
  <2>1. CASE stored = None
    BY <2>1 DEF Tick, StoredInv
  <2>2. CASE stored # None
    <3>1. /\ stored \in Sessions
          /\ stored' = [stored EXCEPT !.seen = Back(@, -2 * Limit), !.left = Back(@, -Latency)]
      BY <2>2 DEF Tick, TypeOK
    <3>2. stored.seen \in Int /\ stored.left \in Int /\ stored.offset \in Int /\ stored.steady \in BOOLEAN
      BY <3>1 DEF Sessions
    <3>3. Back(stored.seen, -2 * Limit) \in Int /\ Back(stored.left, -Latency) \in Int
      BY <3>2 DEF Back
    <3>4. /\ stored'.offset = stored.offset /\ stored'.steady = stored.steady
          /\ stored'.seen = Back(stored.seen, -2 * Limit) /\ stored'.left = Back(stored.left, -Latency)
      BY <3>1 DEF Sessions
    <3>5. stored' \in Sessions
      BY <3>1, <3>2, <3>3 DEF Sessions
    <3>6. stored.offset \in -Limit .. Limit /\ stored.left >= -Latency
      BY <2>2 DEF StoredInv
    <3>7. stored'.left >= -Latency
      BY <3>2, <3>4, <3>6 DEF Back
    <3>8. ASSUME stored'.steady
          PROVE  stored'.seen - (stored'.offset - skew) <= stored'.left + Latency
      <4>1. stored.seen - (stored.offset - skew) <= stored.left + Latency
        BY <2>2, <3>4, <3>8 DEF StoredInv
      <4>2. CASE stored.seen > -2 * Limit
        BY <1>t, <3>2, <3>4, <3>6, <4>1, <4>2 DEF Back
      <4>3. CASE stored.seen <= -2 * Limit
        <5>1. stored'.seen - (stored'.offset - skew) <= 0
          BY <1>t, <3>2, <3>4, <3>6, <4>3, SkewBounds DEF Back
        <5>2. stored'.left + Latency >= 0
          BY <3>3, <3>4, <3>7
        <5>3. stored'.seen \in Int /\ stored'.offset \in Int /\ stored'.left \in Int
          BY <3>2, <3>3, <3>4
        <5> QED BY <1>t, <5>1, <5>2, <5>3
      <4> QED BY <3>2, <4>2, <4>3
    <3> QED BY <1>u, <3>4, <3>5, <3>6, <3>7, <3>8 DEF StoredInv
  <2> QED BY <2>1, <2>2
<1>3. pc = "sent" => proof' \in Proofs /\ proof'.iat = proof.iat - 1 /\ proof.iat \in Int
  BY DEF Tick, PhaseInv, Proofs
<1>4. pc # "sent" => proof' = proof
  BY DEF Tick
<1>5. pc = "answered" => answer' \in Answers /\ answer'.kind = answer.kind
  BY DEF Tick, PhaseInv, Answers
<1>6. pc # "answered" => answer' = answer
  BY DEF Tick
<1>7. pc = "answered" /\ answer.kind \in {"ok", "nonce", "clock"} => answer'.date \in {-age', None}
  BY <1>t DEF Tick, PhaseInv, Answers, Requesting
<1>8. TypeOK'
  BY <1>u, <1>1, <1>2, <1>3, <1>4, <1>5, <1>6 DEF TypeOK
<1>9. PhaseInv'
  BY <1>u, <1>3, <1>5, <1>7 DEF PhaseInv
<1>10. pc \in Requesting => age' = age + 1 /\ Elapsed' = Elapsed + 1 /\ Elapsed \in Int
  BY <1>u, <1>t DEF Tick, Elapsed
<1>11. Error' = Error /\ Error \in Int
  BY <1>u, <1>t DEF Error
<1>12. ClockInv'
  BY <1>u, <1>t, <1>3, <1>5, <1>10, <1>11 DEF ClockInv, Requesting
<1> QED BY <1>2, <1>8, <1>9, <1>12

\* A clock set by hand does.
LEMMA ClockIsSet == ASSUME RequestInv, SetClock PROVE RequestInv'
<1> USE DEF RequestInv
<1>1. /\ skew' \in Skews /\ excused' = (pc # "idle") /\ disturbances' \in 0 .. MaxDisturbances
      /\ UNCHANGED <<offset, nonce, pc, requests, attempt, started, age, proof, answer>>
  BY DEF SetClock, Disturbs, TypeOK
<1>2. stored' \in Sessions \cup {None} /\ StoredInv'
  <2>1. CASE stored = None
    BY <2>1 DEF SetClock, StoredInv
  <2>2. CASE stored # None
    BY <2>2 DEF SetClock, StoredInv, TypeOK, Sessions
  <2> QED BY <2>1, <2>2
<1> QED BY <1>1, <1>2 DEF TypeOK, PhaseInv, ClockInv, Requesting

\* Another tab that stores a session does.
LEMMA AnotherTabStores == ASSUME RequestInv, OtherTabStores PROVE RequestInv'
<1> USE DEF RequestInv
<1>1. /\ pc = "idle"
      /\ UNCHANGED <<offset, nonce, call, skew, disturbances>>
  BY DEF OtherTabStores, Quiet
<1>2. PICK o \in {0, skew} :
        stored' = [offset |-> o, seen |-> o - skew + Lifetime, left |-> Lifetime, steady |-> TRUE]
  BY DEF OtherTabStores
<1>3. o \in -Limit .. Limit /\ skew \in Int
  BY SkewBounds
<1>4. stored' \in Sessions /\ StoredInv'
  BY <1>1, <1>2, <1>3 DEF Sessions, StoredInv
<1> QED BY <1>1, <1>4 DEF TypeOK, PhaseInv, ClockInv, call, Requesting

\* The invariant is inductive.
LEMMA NextRequest == RequestInv /\ [Next]_vars => RequestInv'
<1> SUFFICES ASSUME RequestInv, [Next]_vars PROVE RequestInv'
  OBVIOUS
<1>1. CASE UNCHANGED vars
  BY <1>1 DEF vars, call, RequestInv, TypeOK, StoredInv, PhaseInv, ClockInv, Elapsed, Error, Requesting
<1> QED
  BY <1>1, BeginsCall, SendsRequest, AnswersRequest, Retries, EndsRequest, PersistsGrant,
     FailsOrGrowsOld, Ticks, ClockIsSet, AnotherTabStores DEF Next, Proceed

(* What a request, its answer and the stored session say of the client's clock, at every   *)
(* moment of every call.                                                                   *)
THEOREM RequestInvariant == Spec => []RequestInv
  BY InitRequest, NextRequest, PTL DEF Spec

(* A session that is returned without a request has not expired, although the clock that   *)
(* judges it may be wrong.                                                                 *)
THEOREM ReturnedLives == Spec => ReturnedIsLive
<1>1. ASSUME RequestInv
      PROVE  /\ ReturnStored(Leeway) /\ stored.steady => stored.left > 0
             /\ ReturnStored(0) /\ stored.steady => stored.left + Latency > 0
  <2>1. ASSUME NEW leeway \in Nat, ReturnStored(leeway), stored.steady
        PROVE  stored.left + Latency > leeway /\ stored.left \in Int
    <3>1. stored # None /\ stored.seen > stored.offset - skew + leeway
      BY <2>1 DEF ReturnStored, Restored, Fresh
    <3>2. stored.seen \in Int /\ stored.offset \in Int /\ stored.left \in Int /\ skew \in Int
      BY <1>1, <3>1, SkewBounds DEF RequestInv, TypeOK, Sessions
    <3>3. stored.seen - (stored.offset - skew) <= stored.left + Latency
      BY <1>1, <2>1, <3>1 DEF RequestInv, StoredInv
    <3> QED BY <3>1, <3>2, <3>3
  <2> QED BY <2>1
<1> QED BY <1>1, RequestInvariant, PTL DEF ReturnedIsLive

(* The clock is put right by the first answer with a date: nothing is refused for it in the *)
(* end, and no challenge taken for expired.                                                 *)
THEOREM ClockIsSettled == Spec => ClockSettles
<1>1. ASSUME RequestInv, ThrowRefused, answer.kind = "clock"
      PROVE  excused \/ (attempt = 0 /\ (answer.nonce \/ answer.date = None))
  <2> SUFFICES ASSUME ~excused PROVE attempt = 0 /\ (answer.nonce \/ answer.date = None)
    OBVIOUS
  <2>1. /\ pc = "answered" /\ answer.date \in {-age, None}
        /\ Elapsed \in age .. age + 2 * Latency
        /\ attempt = 0 /\ Abs(Error) > Window - Latency
    BY <1>1 DEF ThrowRefused, Refused, RequestInv, PhaseInv, ClockInv
  <2>2. CASE answer.date = -age
    <3>1. Observed \in Int /\ Observed - skew \in -Latency .. Latency /\ Observes
      BY <1>1, <2>1, <2>2, GoodDate DEF RequestInv
    <3>2. skew \in Int /\ offset \in Int
      BY <1>1, SkewBounds DEF RequestInv, TypeOK
    <3>3. Abs(Observed - offset) > Threshold
      BY <2>1, <3>1, <3>2 DEF Abs, Error
    <3>4. ClockChanged
      BY <3>1, <3>3 DEF ClockChanged
    <3> QED BY <1>1, <2>1, <3>4 DEF ThrowRefused, Refused
  <2> QED BY <2>1, <2>2
<1>2. ASSUME RequestInv, RejectChallenge PROVE excused'
  <2>1. /\ pc = "answered" /\ answer.kind = "ok" /\ ObserveServerDate /\ ~ChallengeLive
        /\ excused' = (excused \/ ~Observes)
    BY <1>2 DEF RejectChallenge, Received
  <2>2. CASE ~excused /\ Observes
    <3>1. offset' - skew \in -Latency .. Latency
      BY <1>2, <2>1, <2>2, LearnsClock
    <3>2. age \in 0 .. Latency
      BY <1>2 DEF RequestInv, TypeOK
    <3> QED BY <2>1, <3>1, <3>2 DEF ChallengeLive
  <2> QED BY <2>1, <2>2 DEF RequestInv, TypeOK
<1> QED BY <1>1, <1>2, RequestInvariant, PTL DEF ClockSettles

=============================================================================
