------------------------ MODULE ProtectedFetch_proofs ------------------------
(***************************************************************************)
(* Proofs about ProtectedFetch, for any number of requests, tokens and     *)
(* nonces: a call is dispatched at most once, its retries are bounded and  *)
(* carry a fresh token, and only a revoked installation is cleared.        *)
(***************************************************************************)
EXTENDS ProtectedFetch, TLAPS

USE TokenAssumption, NonceAssumption, ReplyAssumption

-----------------------------------------------------------------------------
(* Types.                                                                  *)

\* An unused slot has its types.
LEMMA InitType == Init => TypeOK
<1> SUFFICES ASSUME Init PROVE TypeOK
  OBVIOUS
<1>1. pc \in [Requests -> PCs] /\ \A r \in Requests : pc[r] # "judging"
  BY DEF Init, PCs
<1>2. replayable \in [Requests -> BOOLEAN] /\ kind \in [Requests -> Kinds]
  BY DEF Init, Kinds
<1>3. nonceRetried \in [Requests -> BOOLEAN] /\ sessionRetried \in [Requests -> BOOLEAN]
  BY DEF Init
<1>4. /\ issued \in 0..MaxTokens /\ expired \in 0..MaxTokens /\ cleared \in 0..MaxTokens
      /\ attempt \in [Requests -> 0..3]
  BY DEF Init
<1> QED BY <1>1, <1>2, <1>3, <1>4 DEF Init, TypeOK

\* The types of what belongs to one call.
CallTypes ==
  /\ pc \in [Requests -> PCs]
  /\ kind \in [Requests -> Kinds]
  /\ replayable \in [Requests -> BOOLEAN]
  /\ attempt \in [Requests -> 0..3]
  /\ nonceRetried \in [Requests -> BOOLEAN]
  /\ sessionRetried \in [Requests -> BOOLEAN]
  /\ token \in [Requests -> Tokens \cup {None}]
  /\ proof \in [Requests -> Nonces \cup {None}]
  /\ rejected \in [Requests -> Tokens \cup {None}]
  /\ observed \in [Requests -> Tokens \cup {None}]
  /\ reply \in [Requests -> Replies \cup {None}]
  /\ \A r \in Requests : pc[r] = "judging" => reply[r] # None
  /\ sends \in [Requests -> Nat]
  /\ executed \in [Requests -> Nat]

\* The types of what the calls share.
SharedTypes ==
  /\ stored \in Tokens \cup {None}
  /\ nonce \in Nonces \cup {None}
  /\ issued \in 0..MaxTokens /\ expired \in 0..MaxTokens /\ cleared \in 0..MaxTokens
  /\ want \in Nonces \cup {None}
  /\ revoked \in BOOLEAN

\* The types of the calls and of what they share.
LEMMA Types == TypeOK <=> CallTypes /\ SharedTypes
  BY DEF TypeOK, CallTypes, SharedTypes

\* A call that ends leaves an empty slot.
LEMMA EndType ==
  ASSUME CallTypes, NEW r \in Requests, End(r)
  PROVE  CallTypes'
  BY DEF CallTypes, End, Goto, PCs, Kinds

\* An answer belongs to the request that was sent, and to no other.
LEMMA AnswerType ==
  ASSUME CallTypes, NEW r \in Requests, pc[r] = "sent",
         NEW answer \in Answers, NEW header \in Headers, Answer(r, answer, header)
  PROVE  /\ reply' \in [Requests -> Replies \cup {None}]
         /\ proof' \in [Requests -> Nonces \cup {None}]
         /\ reply'[r] = [answer |-> answer, header |-> header]
         /\ \A q \in Requests \ {r} : reply'[q] = reply[q]
  BY DEF CallTypes, Answer, Replies

\* A new session has a new token.
LEMMA SessionType ==
  ASSUME SharedTypes, NewSession
  PROVE  /\ stored' \in Tokens
         /\ issued' \in 0..MaxTokens
         /\ stored' = issued'
         /\ issued' = issued + 1
  BY DEF SharedTypes, NewSession, Tokens

\* A recorded nonce is one, or the old one stays.
LEMMA NonceType ==
  ASSUME SharedTypes, MayRecordNonce
  PROVE  nonce' \in Nonces \cup {None}
  BY DEF SharedTypes, MayRecordNonce, RecordNonce, Usable

\* An attempt (session, signature, transmission, answer) keeps the types.
LEMMA AttemptType ==
  ASSUME TypeOK, NEW r \in Requests, Attempt(r)
  PROVE  TypeOK'
<1>t. CallTypes /\ SharedTypes
  BY Types
<1>s. SUFFICES CallTypes' /\ SharedTypes'
  BY DEF TypeOK, CallTypes, SharedTypes
<1> USE <1>t DEF client, input, retries, request, gateway, history
<1>1. CASE Start(r)
  BY <1>1 DEF Start, Goto, CallTypes, SharedTypes, PCs
<1>2. CASE TakeSession(r)
  BY <1>2 DEF TakeSession, Goto, CallTypes, SharedTypes, PCs
<1>3. CASE RenewSession(r)
  BY <1>3, SessionType, NonceType DEF RenewSession, Goto, CallTypes, SharedTypes, PCs
<1>4. CASE Authorize(r)
  BY <1>4 DEF Authorize, Goto, CallTypes, SharedTypes, PCs
<1>5. CASE Fail(r)
  BY <1>5, EndType DEF Fail, SharedTypes
<1>6. CASE GiveUp(r)
  BY <1>6, EndType, NonceType DEF GiveUp, SharedTypes
<1>7. CASE Receive(r)
  <2>1. SharedTypes'
    BY <1>7 DEF Receive, RecordNonce, Usable, SharedTypes
  <2>2. CASE reply[r].answer \in {"noContent", "ok", "plain"} /\ ~Confirmed(r)
    BY <1>7, <2>1, <2>2, EndType DEF Receive
  <2>3. CASE ~(reply[r].answer \in {"noContent", "ok", "plain"} /\ ~Confirmed(r))
    BY <1>7, <2>1, <2>3 DEF Receive, Goto, CallTypes, PCs
  <2> QED BY <2>2, <2>3
<1>8. CASE Clear(r)
  BY <1>8, EndType DEF Clear, SharedTypes
<1> QED BY <1>1, <1>2, <1>3, <1>4, <1>5, <1>6, <1>7, <1>8 DEF Attempt

\* Going round the loop changes the position of one call.
LEMMA AgainType ==
  ASSUME CallTypes, NEW r \in Requests, attempt[r] < 3, Again(r)
  PROVE  /\ attempt' \in [Requests -> 0..3]
         /\ token' \in [Requests -> Tokens \cup {None}]
         /\ pc' \in [Requests -> PCs]
         /\ pc'[r] \in {"session", "exhausted"}
         /\ \A q \in Requests \ {r} : pc'[q] = pc[q]
  BY DEF CallTypes, Again, Goto, PCs

\* What follows a refusal keeps the types; the budget bounds the attempts.
LEMMA RetryType ==
  ASSUME TypeOK, Budget, NEW r \in Requests, Retry(r)
  PROVE  TypeOK'
<1>t. CallTypes /\ SharedTypes
  BY Types
<1>b. attempt[r] < 3
  BY DEF Budget, TypeOK
<1>s. SUFFICES CallTypes' /\ SharedTypes'
  BY DEF TypeOK, CallTypes, SharedTypes
<1> USE <1>t DEF client, input, retries, request, gateway, history
<1>1. CASE ProveAgain(r)
  <2>1. SharedTypes'
    BY <1>1 DEF ProveAgain, NonceDemanded, Usable, SharedTypes
  <2>2. CASE replayable[r]
    BY <1>1, <1>b, <2>1, <2>2, AgainType DEF ProveAgain, CallTypes
  <2>3. CASE ~replayable[r]
    BY <1>1, <2>1, <2>3, EndType DEF ProveAgain
  <2> QED BY <2>2, <2>3
<1>2. CASE RefreshThenAgain(r)
  <2>1. CASE replayable[r]
    BY <1>2, <2>1 DEF RefreshThenAgain, Goto, CallTypes, SharedTypes, PCs
  <2>2. CASE ~replayable[r]
    BY <1>2, <2>2, EndType DEF RefreshThenAgain, SharedTypes
  <2> QED BY <2>1, <2>2
<1>3. CASE ReturnProblem(r)
  BY <1>3, EndType DEF ReturnProblem, SharedTypes
<1>4. CASE Observe(r)
  BY <1>4 DEF Observe, Goto, CallTypes, SharedTypes, PCs
<1>5. CASE Refresh(r)
  <2>1. SharedTypes'
    BY <1>5, SessionType, NonceType DEF Refresh, SharedTypes
  <2>2. CallTypes'
    BY <1>5, <1>b, AgainType DEF Refresh, CallTypes
  <2> QED BY <2>1, <2>2
<1> QED BY <1>1, <1>2, <1>3, <1>4, <1>5 DEF Retry

\* Whatever the gateway does keeps the types.
LEMMA GatewayType ==
  ASSUME TypeOK, NEW r \in Requests, Gateway(r)
  PROVE  TypeOK'
<1>t. CallTypes /\ SharedTypes
  BY Types
<1>s. SUFFICES CallTypes' /\ SharedTypes'
  BY DEF TypeOK, CallTypes, SharedTypes
<1> USE <1>t DEF client, input, retries, request, gateway, history
<1>1. CASE Refuse(r)
  <2>1. \E answer \in Answers, header \in Headers : Answer(r, answer, header)
    BY <1>1 DEF Refuse, Answers, Headers, SharedTypes
  <2> QED BY <1>1, <2>1, AnswerType DEF Refuse, CallTypes, SharedTypes
<1>2. CASE Execute(r)
  <2>1. \E answer \in Answers, header \in Headers : Answer(r, answer, header)
    BY <1>2 DEF Execute, Answers, Headers, SharedTypes
  <2>2. revoked' \in BOOLEAN
    BY <1>2 DEF Execute
  <2>3. executed' \in [Requests -> Nat]
    BY <1>2 DEF Execute, CallTypes
  <2>4. /\ reply' \in [Requests -> Replies \cup {None}]
        /\ proof' \in [Requests -> Nonces \cup {None}]
        /\ \A q \in Requests \ {r} : reply'[q] = reply[q]
    BY <1>2, <2>1, AnswerType DEF Execute
  <2>5. pc[r] = "sent" /\ UNCHANGED <<pc, input, retries, token, rejected, observed, sends>>
    BY <1>2 DEF Execute
  <2>6. CallTypes'
    BY <2>3, <2>4, <2>5 DEF CallTypes
  <2> QED BY <1>2, <2>2, <2>6 DEF Execute, SharedTypes
<1> QED BY <1>1, <1>2 DEF Gateway

\* What happens around the calls leaves them alone.
LEMMA AroundType ==
  ASSUME TypeOK, Expire \/ RotateNonce \/ ReplacedElsewhere
  PROVE  TypeOK'
<1> USE DEF client, input, retries, request, gateway, history
<1>1. CASE Expire
  BY <1>1 DEF Expire, TypeOK
<1>2. CASE RotateNonce
  BY <1>2 DEF RotateNonce, TypeOK
<1>3. CASE ReplacedElsewhere
  <2>1. CallTypes'
    BY <1>3, Types DEF ReplacedElsewhere, CallTypes
  <2>2. SharedTypes'
    BY <1>3, SessionType, Types DEF ReplacedElsewhere, SharedTypes
  <2> QED BY <2>1, <2>2 DEF TypeOK, CallTypes, SharedTypes
<1> QED BY <1>1, <1>2, <1>3

-----------------------------------------------------------------------------
(* A step of one call leaves the locals of every other call alone.         *)

Step(r) == Attempt(r) \/ Retry(r) \/ Gateway(r)
Around == Expire \/ RotateNonce \/ ReplacedElsewhere \/ UNCHANGED vars

Same(q) ==
  /\ pc'[q] = pc[q] /\ kind'[q] = kind[q] /\ replayable'[q] = replayable[q]
  /\ attempt'[q] = attempt[q]
  /\ nonceRetried'[q] = nonceRetried[q] /\ sessionRetried'[q] = sessionRetried[q]
  /\ token'[q] = token[q] /\ proof'[q] = proof[q]
  /\ rejected'[q] = rejected[q] /\ observed'[q] = observed[q] /\ reply'[q] = reply[q]
  /\ sends'[q] = sends[q] /\ executed'[q] = executed[q]

\* A call that has returned is back where it began.
Fresh(r) ==
  /\ pc[r] = "idle" /\ replayable[r] /\ attempt[r] = 0
  /\ ~nonceRetried[r] /\ ~sessionRetried[r]
  /\ token[r] = None /\ rejected[r] = None /\ observed[r] = None /\ reply[r] = None
  /\ sends[r] = 0 /\ executed[r] = 0

\* A call that ends leaves a slot as unused, and the others alone.
LEMMA EndIsFresh ==
  ASSUME CallTypes, NEW r \in Requests, End(r)
  PROVE  Fresh(r)' /\ \A q \in Requests \ {r} : Same(q)
  BY DEF CallTypes, End, Goto, Fresh, Same

\* A call's step leaves every other call alone.
LEMMA OthersKept ==
  ASSUME TypeOK, NEW r \in Requests, Step(r), NEW q \in Requests \ {r}
  PROVE  Same(q)
<1>t. CallTypes
  BY Types
<1> USE <1>t DEF CallTypes, Same, client, input, retries, request, gateway, history
<1>1. CASE Start(r) \/ TakeSession(r) \/ RenewSession(r) \/ Authorize(r)
  BY <1>1 DEF Start, TakeSession, RenewSession, Authorize, Goto
<1>2. CASE Fail(r) \/ GiveUp(r) \/ ReturnProblem(r) \/ Clear(r)
  BY <1>2, EndIsFresh DEF Fail, GiveUp, ReturnProblem, Clear
<1>3. CASE Receive(r)
  <2>1. CASE reply[r].answer \in {"noContent", "ok", "plain"} /\ ~Confirmed(r)
    BY <1>3, <2>1, EndIsFresh DEF Receive
  <2>2. CASE ~(reply[r].answer \in {"noContent", "ok", "plain"} /\ ~Confirmed(r))
    BY <1>3, <2>2 DEF Receive, Goto
  <2> QED BY <2>1, <2>2
<1>4. CASE ProveAgain(r)
  BY <1>4, EndIsFresh DEF ProveAgain, Again, Goto
<1>5. CASE RefreshThenAgain(r)
  BY <1>5, EndIsFresh DEF RefreshThenAgain, Goto
<1>6. CASE Observe(r) \/ Refresh(r)
  BY <1>6 DEF Observe, Refresh, Again, Goto
<1>7. CASE Refuse(r)
  BY <1>7 DEF Refuse, Answer
<1>8. CASE Execute(r)
  BY <1>8 DEF Execute, Answer
<1> QED
  BY <1>1, <1>2, <1>3, <1>4, <1>5, <1>6, <1>7, <1>8 DEF Step, Attempt, Retry, Gateway

\* What happens around the calls leaves them all alone.
LEMMA AroundKeeps ==
  ASSUME Around, NEW q \in Requests
  PROVE  Same(q)
  BY DEF Around, Expire, RotateNonce, ReplacedElsewhere, Same, vars, client, input, retries,
         request, gateway, history

-----------------------------------------------------------------------------
(* The loop's budget.                                                      *)

\* Every step of a call keeps the budget of attempts.
LEMMA NextBudget ==
  ASSUME TypeOK, Budget, NEW r \in Requests, Step(r)
  PROVE  Budget'
<1>t. CallTypes
  BY Types
<1>s. SUFFICES
        /\ pc'[r] # "exhausted"
        /\ attempt'[r] = (IF nonceRetried'[r] THEN 1 ELSE 0)
                          + (IF sessionRetried'[r] THEN 1 ELSE 0)
        /\ pc'[r] \in {"observing", "refreshing"} => ~sessionRetried'[r]
  BY OthersKept DEF Budget, Same
<1>e. ASSUME End(r) PROVE Budget'
  BY <1>e, <1>t, EndIsFresh DEF Budget, Fresh, Same
<1> USE <1>t DEF CallTypes, Budget, client, input, retries, request, gateway, history
<1>1. CASE Start(r) \/ TakeSession(r) \/ RenewSession(r) \/ Authorize(r)
  BY <1>1 DEF Start, TakeSession, RenewSession, Authorize, Goto
<1>2. CASE Fail(r) \/ GiveUp(r) \/ ReturnProblem(r) \/ Clear(r)
  BY <1>2, <1>e DEF Fail, GiveUp, ReturnProblem, Clear
<1>3. CASE Receive(r)
  <2>1. CASE End(r)
    BY <2>1, <1>e
  <2>2. CASE ~End(r)
    BY <1>3, <2>2 DEF Receive, Goto
  <2> QED BY <2>1, <2>2
<1>4. CASE ProveAgain(r)
  <2>1. CASE End(r)
    BY <2>1, <1>e
  <2>2. CASE ~End(r)
    BY <1>4, <2>2 DEF ProveAgain, NonceDemanded, Again, Goto
  <2> QED BY <2>1, <2>2
<1>5. CASE RefreshThenAgain(r)
  <2>1. CASE End(r)
    BY <2>1, <1>e
  <2>2. CASE ~End(r)
    BY <1>5, <2>2 DEF RefreshThenAgain, SessionExpired, Goto
  <2> QED BY <2>1, <2>2
<1>6. CASE Observe(r) \/ Refresh(r)
  BY <1>6 DEF Observe, Refresh, Again, Goto
<1>7. CASE Gateway(r)
  BY <1>7 DEF Gateway, Refuse, Execute
<1> QED
  BY <1>1, <1>2, <1>3, <1>4, <1>5, <1>6, <1>7 DEF Step, Attempt, Retry

-----------------------------------------------------------------------------
(* What is sent again was not dispatched.                                  *)

\* Every step keeps that what may be sent again was not dispatched.
LEMMA NextDispatched ==
  ASSUME TypeOK, NotYetDispatched, NEW r \in Requests, Step(r)
  PROVE  NotYetDispatched'
<1>t. CallTypes
  BY Types
<1> DEFINE Undispatched(q) ==
      /\ executed[q] <= 1
      /\ pc[q] \in {"idle", "session", "authorizing", "observing", "refreshing"}
           => executed[q] = 0
      /\ pc[q] = "sent" /\ reply[q] = None => executed[q] = 0
      /\ reply[q] # None /\ reply[q].answer \in {"nonce", "expired"} => executed[q] = 0
<1>a. \A q \in Requests : Undispatched(q)
  BY DEF NotYetDispatched
<1>s. SUFFICES Undispatched(r)'
  <2>1. \A q \in Requests \ {r} : Undispatched(q)'
    BY <1>a, OthersKept DEF Same
  <2> QED BY <2>1 DEF NotYetDispatched
<1>e. ASSUME End(r) PROVE Undispatched(r)'
  BY <1>e, <1>t, EndIsFresh DEF Fresh
<1> USE <1>t, <1>a DEF CallTypes, client, input, retries, request, gateway, history
<1>1. CASE Start(r) \/ TakeSession(r) \/ RenewSession(r) \/ Authorize(r)
  BY <1>1 DEF Start, TakeSession, RenewSession, Authorize, Goto
<1>2. CASE Fail(r) \/ GiveUp(r) \/ ReturnProblem(r) \/ Clear(r)
  BY <1>2, <1>e DEF Fail, GiveUp, ReturnProblem, Clear
<1>3. CASE Receive(r)
  <2>1. CASE End(r)
    BY <2>1, <1>e
  <2>2. CASE ~End(r)
    BY <1>3, <2>2 DEF Receive, Goto
  <2> QED BY <2>1, <2>2
<1>4. CASE ProveAgain(r)
  <2>1. CASE End(r)
    BY <2>1, <1>e
  <2>2. CASE ~End(r)
    BY <1>4, <2>2 DEF ProveAgain, NonceDemanded, Again, Goto
  <2> QED BY <2>1, <2>2
<1>5. CASE RefreshThenAgain(r)
  <2>1. CASE End(r)
    BY <2>1, <1>e
  <2>2. CASE ~End(r)
    BY <1>5, <2>2 DEF RefreshThenAgain, SessionExpired, Goto
  <2> QED BY <2>1, <2>2
<1>6. CASE Observe(r) \/ Refresh(r)
  BY <1>6 DEF Observe, Refresh, Again, Goto
<1>7. CASE Refuse(r)
  BY <1>7 DEF Refuse
<1>8. CASE Execute(r)
  <2>1. /\ reply'[r] # None
        /\ reply'[r].answer \in {"noContent", "ok", "plain", "problem"}
    <3>1. PICK answer \in {"noContent", "ok", "plain", "problem"}, header \in Headers :
                 Answer(r, answer, header)
      BY <1>8, Types DEF Execute, Headers, SharedTypes
    <3>2. reply'[r] = [answer |-> answer, header |-> header]
      BY <3>1 DEF Answer
    <3>3. reply'[r] \in Replies
      BY <3>1, <3>2 DEF Answers, Replies
    <3> QED BY <3>1, <3>2, <3>3
  <2>2. executed'[r] = 1 /\ pc'[r] = "sent"
    BY <1>8 DEF Execute
  <2> QED BY <2>1, <2>2
<1> QED
  BY <1>1, <1>2, <1>3, <1>4, <1>5, <1>6, <1>7, <1>8 DEF Step, Attempt, Retry, Gateway

-----------------------------------------------------------------------------
(* A body that cannot be sent again.                                       *)

\* Every step keeps that a body which cannot be replayed was not sent.
LEMMA NextSent ==
  ASSUME TypeOK, NotYetSent, NEW r \in Requests, Step(r)
  PROVE  NotYetSent'
<1>t. CallTypes
  BY Types
<1> DEFINE Unsent(q) ==
      /\ pc[q] = "idle" => sends[q] = 0
      /\ ~replayable[q] =>
           /\ sends[q] <= 1
           /\ pc[q] \in {"session", "authorizing"} => sends[q] = 0
           /\ pc[q] \notin {"observing", "refreshing"}
<1>a. \A q \in Requests : Unsent(q)
  BY DEF NotYetSent
<1>s. SUFFICES Unsent(r)'
  <2>1. \A q \in Requests \ {r} : Unsent(q)'
    BY <1>a, OthersKept DEF Same
  <2> QED BY <2>1 DEF NotYetSent
<1>e. ASSUME End(r) PROVE Unsent(r)'
  BY <1>e, <1>t, EndIsFresh DEF Fresh
<1> USE <1>t, <1>a DEF CallTypes, client, input, retries, request, gateway, history
<1>1. CASE Start(r) \/ TakeSession(r) \/ RenewSession(r) \/ Authorize(r)
  BY <1>1 DEF Start, TakeSession, RenewSession, Authorize, Goto
<1>2. CASE Fail(r) \/ GiveUp(r) \/ ReturnProblem(r) \/ Clear(r)
  BY <1>2, <1>e DEF Fail, GiveUp, ReturnProblem, Clear
<1>3. CASE Receive(r) \/ ProveAgain(r) \/ RefreshThenAgain(r)
  <2>1. CASE End(r)
    BY <2>1, <1>e
  <2>2. CASE ~End(r)
    BY <1>3, <2>2 DEF Receive, ProveAgain, RefreshThenAgain, Again, Goto
  <2> QED BY <2>1, <2>2
<1>4. CASE Observe(r) \/ Refresh(r)
  BY <1>4 DEF Observe, Refresh, Again, Goto
<1>5. CASE Gateway(r)
  BY <1>5 DEF Gateway, Refuse, Execute
<1> QED
  BY <1>1, <1>2, <1>3, <1>4, <1>5 DEF Step, Attempt, Retry

-----------------------------------------------------------------------------
(* The refused token.                                                      *)

\* The session stays, goes, or is replaced by one with a new token.
SessionMoves ==
  \/ stored' \in {stored, None} /\ issued' = issued
  \/ stored' = issued + 1 /\ issued' = issued + 1

\* A call leaves the stored session, drops it or replaces it by a newer one.
LEMMA StepMovesSession ==
  ASSUME NEW r \in Requests, Step(r)
  PROVE  SessionMoves
<1> USE DEF SessionMoves, client, gateway
<1>1. CASE Attempt(r)
  BY <1>1 DEF Attempt, Start, TakeSession, RenewSession, NewSession, Authorize, Fail, GiveUp,
              Receive, Clear
<1>2. CASE Retry(r)
  BY <1>2 DEF Retry, ProveAgain, RefreshThenAgain, ReturnProblem, Observe, Refresh, NewSession
<1>3. CASE Gateway(r)
  BY <1>3 DEF Gateway, Refuse, Execute
<1> QED BY <1>1, <1>2, <1>3 DEF Step

\* So does everybody else.
LEMMA AroundMovesSession == Around => SessionMoves
  BY DEF Around, Expire, RotateNonce, ReplacedElsewhere, NewSession, SessionMoves, vars, client,
         gateway

\* What RefusedIsGone says of one call.
Refused(r) ==
  /\ token[r] # None => token[r] <= issued
  /\ rejected[r] # None => rejected[r] <= issued
  /\ pc[r] \in {"authorizing", "sent", "judging"} => token[r] # None
  /\ pc[r] \in {"observing", "refreshing"} => rejected[r] # None
  /\ pc[r] = "refreshing" /\ observed[r] # rejected[r] => stored # rejected[r]
  /\ sessionRetried[r] => rejected[r] # None /\ stored # rejected[r] /\ token[r] # rejected[r]

\* A call that does not move itself is not disturbed when the session does.
LEMMA RefusedKept ==
  ASSUME TypeOK, NEW q \in Requests, Refused(q), Same(q), SessionMoves
  PROVE  Refused(q)'
<1> USE DEF TypeOK, Same, Refused, Tokens
<1>1. CASE stored' = stored /\ issued' = issued
  BY <1>1
<1>2. CASE stored' = None /\ issued' = issued
  BY <1>2
<1>3. CASE stored' = issued + 1 /\ issued' = issued + 1
  BY <1>3
<1> QED BY <1>1, <1>2, <1>3 DEF SessionMoves

\* The stored session is one that was issued.
LEMMA StoredKept ==
  ASSUME TypeOK, stored # None => stored <= issued, SessionMoves
  PROVE  stored' # None => stored' <= issued'
  BY DEF TypeOK, SessionMoves, Tokens

\* Every step keeps that a refused token is neither stored nor used again.
LEMMA NextRefused ==
  ASSUME TypeOK, Budget, RefusedIsGone, NEW r \in Requests, Step(r)
  PROVE  RefusedIsGone'
<1>t. CallTypes /\ SharedTypes
  BY Types
<1>a. (\A q \in Requests : Refused(q)) /\ (stored # None => stored <= issued)
  BY DEF RefusedIsGone, Refused
<1>m. SessionMoves
  BY StepMovesSession
<1>s. SUFFICES Refused(r)'
  <2>1. \A q \in Requests \ {r} : Refused(q)'
    BY <1>a, <1>m, OthersKept, RefusedKept
  <2>2. stored' # None => stored' <= issued'
    BY <1>a, <1>m, StoredKept
  <2> QED BY <2>1, <2>2 DEF RefusedIsGone, Refused
<1>e. ASSUME End(r) PROVE Refused(r)'
  BY <1>e, <1>t, EndIsFresh DEF Fresh, Refused
<1> USE <1>t, <1>a DEF CallTypes, SharedTypes, Refused, Tokens, client, input, retries, request,
                       gateway, history
<1>1. CASE Start(r) \/ TakeSession(r) \/ Authorize(r)
  BY <1>1 DEF Start, TakeSession, Authorize, Goto
<1>2. CASE RenewSession(r)
  BY <1>2 DEF RenewSession, NewSession, Goto
<1>3. CASE Fail(r) \/ GiveUp(r) \/ ReturnProblem(r) \/ Clear(r)
  BY <1>3, <1>e DEF Fail, GiveUp, ReturnProblem, Clear
<1>4. CASE Receive(r)
  <2>1. CASE End(r)
    BY <2>1, <1>e
  <2>2. CASE ~End(r)
    BY <1>4, <2>2 DEF Receive, Goto
  <2> QED BY <2>1, <2>2
<1>5. CASE ProveAgain(r)
  <2>1. CASE End(r)
    BY <2>1, <1>e
  <2>2. CASE ~End(r)
    BY <1>5, <2>2 DEF ProveAgain, Again, Goto
  <2> QED BY <2>1, <2>2
<1>6. CASE RefreshThenAgain(r)
  <2>1. CASE End(r)
    BY <2>1, <1>e
  <2>2. CASE ~End(r)
    <3>1. ~sessionRetried[r] /\ ~sessionRetried'[r]
      BY <1>6, <2>2 DEF RefreshThenAgain, SessionExpired
    <3> QED BY <1>6, <2>2, <3>1 DEF RefreshThenAgain, Goto
  <2> QED BY <2>1, <2>2
<1>7. CASE Observe(r)
  BY <1>7 DEF Observe, Goto, Budget
<1>8. CASE Refresh(r)
  <2>1. stored' # rejected[r]
    <3>1. CASE Adoptable(r) /\ UNCHANGED <<client, issued>>
      BY <1>8, <3>1 DEF Adoptable, Refresh
    <3>2. CASE NewSession
      BY <1>8, <3>2 DEF NewSession, Refresh
    <3> QED BY <1>8, <3>1, <3>2 DEF Refresh
  <2> QED BY <1>8, <1>m, <2>1 DEF Refresh, Again, Goto, SessionMoves
<1>9. CASE Gateway(r)
  BY <1>9 DEF Gateway, Refuse, Execute
<1> QED
  BY <1>1, <1>2, <1>3, <1>4, <1>5, <1>6, <1>7, <1>8, <1>9 DEF Step, Attempt, Retry

-----------------------------------------------------------------------------
(* One confirmed revocation at a time.                                     *)

\* A call comes to confirm a revocation only by its being carried out, and
\* only the clearing ends the revocation.
LEMMA StepConfirms ==
  ASSUME TypeOK, NEW r \in Requests, Step(r)
  PROVE  \/ /\ Confirming(r)' => Confirming(r)
            /\ revoked' = revoked
         \/ ~revoked /\ (Confirming(r)' => revoked')
         \/ Confirming(r) /\ ~Confirming(r)'
<1>t. CallTypes
  BY Types
<1>e. ASSUME End(r) PROVE ~Confirming(r)'
  BY <1>e, <1>t, EndIsFresh DEF Fresh, Confirming
<1> USE <1>t DEF CallTypes, Confirming, client, input, retries, request, gateway, history
<1>1. CASE Start(r) \/ TakeSession(r) \/ RenewSession(r) \/ Authorize(r)
  BY <1>1 DEF Start, TakeSession, RenewSession, Authorize, Goto
<1>2. CASE Fail(r) \/ GiveUp(r) \/ ReturnProblem(r)
  BY <1>2, <1>e DEF Fail, GiveUp, ReturnProblem
<1>3. CASE Receive(r)
  <2>1. CASE End(r)
    BY <1>3, <2>1, <1>e DEF Receive
  <2>2. CASE ~End(r)
    BY <1>3, <2>2 DEF Receive, Confirmed, Goto
  <2> QED BY <2>1, <2>2
<1>4. CASE ProveAgain(r)
  <2>1. CASE End(r)
    BY <1>4, <2>1, <1>e DEF ProveAgain
  <2>2. CASE ~End(r)
    BY <1>4, <2>2 DEF ProveAgain, Again, Goto
  <2> QED BY <2>1, <2>2
<1>5. CASE RefreshThenAgain(r)
  <2>1. CASE End(r)
    BY <1>5, <2>1, <1>e DEF RefreshThenAgain
  <2>2. CASE ~End(r)
    BY <1>5, <2>2 DEF RefreshThenAgain, Goto
  <2> QED BY <2>1, <2>2
<1>6. CASE Observe(r) \/ Refresh(r)
  BY <1>6 DEF Observe, Refresh, Again, Goto
<1>7. CASE Clear(r)
  BY <1>7, <1>e DEF Clear
<1>8. CASE Refuse(r)
  <2>1. PICK answer \in {"ok", "plain", "problem", "nonce", "expired"}, header \in Headers :
               Answer(r, answer, header)
    BY <1>8, Types DEF Refuse, Headers, SharedTypes
  <2>2. reply'[r].answer # "noContent"
    BY <2>1 DEF Answer
  <2> QED BY <1>8, <2>2 DEF Refuse
<1>9. CASE Execute(r)
  <2>1. CASE kind[r] = "revoke"
    BY <1>9, <2>1 DEF Execute, RevokedFor
  <2>2. CASE kind[r] # "revoke"
    <3>1. PICK answer \in {"ok", "plain", "problem"}, header \in Headers :
                 Answer(r, answer, header)
      BY <1>9, <2>2, Types DEF Execute, Headers, SharedTypes
    <3>2. reply'[r].answer # "noContent" /\ pc'[r] = "sent"
      BY <1>9, <3>1 DEF Answer, Execute
    <3> QED BY <1>9, <3>2 DEF Execute, RevokedFor
  <2> QED BY <2>1, <2>2
<1> QED
  BY <1>1, <1>2, <1>3, <1>4, <1>5, <1>6, <1>7, <1>8, <1>9 DEF Step, Attempt, Retry, Gateway

\* Every step keeps that at most one call is about to clear.
LEMMA NextConfirms ==
  ASSUME TypeOK, OneConfirms, NEW r \in Requests, Step(r)
  PROVE  OneConfirms'
<1>1. \A q \in Requests \ {r} : Confirming(q)' <=> Confirming(q)
  BY OthersKept DEF Same, Confirming
<1>2. /\ \A q \in Requests : Confirming(q) => revoked
      /\ \A q1, q2 \in Requests : Confirming(q1) /\ Confirming(q2) => q1 = q2
  BY DEF OneConfirms
<1>3. /\ \A q \in Requests : Confirming(q)' => revoked'
      /\ \A q1, q2 \in Requests : Confirming(q1)' /\ Confirming(q2)' => q1 = q2
  BY <1>1, <1>2, StepConfirms
<1> QED BY <1>3 DEF OneConfirms

-----------------------------------------------------------------------------
(* The theorems.                                                           *)

\* The invariant holds in the beginning.
LEMMA InitFetch == Init => FetchInv
<1> SUFFICES ASSUME Init PROVE FetchInv
  OBVIOUS
<1> USE DEF Init
<1>1. TypeOK
  BY InitType
<1>2. Budget /\ NotYetDispatched /\ NotYetSent
  BY DEF Budget, NotYetDispatched, NotYetSent
<1>3. RefusedIsGone /\ OneConfirms
  BY DEF RefusedIsGone, OneConfirms, Confirming
<1> QED BY <1>1, <1>2, <1>3 DEF FetchInv

\* The invariant is inductive.
LEMMA NextFetch == FetchInv /\ [Next]_vars => FetchInv'
<1> SUFFICES ASSUME FetchInv, [Next]_vars PROVE FetchInv'
  OBVIOUS
<1> USE DEF FetchInv
<1>1. ASSUME NEW r \in Requests, Step(r) PROVE FetchInv'
  <2>1. TypeOK'
    BY <1>1, AttemptType, RetryType, GatewayType DEF Step
  <2> QED
    BY <1>1, <2>1, NextBudget, NextDispatched, NextSent, NextRefused, NextConfirms
<1>2. ASSUME Around PROVE FetchInv'
  <2>1. TypeOK'
    <3>1. CASE UNCHANGED vars
      BY <3>1 DEF vars, client, input, retries, request, gateway, history, TypeOK
    <3> QED BY <1>2, <3>1, AroundType DEF Around
  <2>2. Budget' /\ NotYetDispatched' /\ NotYetSent'
    BY <1>2, AroundKeeps DEF Same, Budget, NotYetDispatched, NotYetSent
  <2>3. RefusedIsGone'
    <3>1. \A q \in Requests : Refused(q)'
      BY <1>2, AroundKeeps, AroundMovesSession, RefusedKept DEF RefusedIsGone, Refused
    <3>2. stored' # None => stored' <= issued'
      BY <1>2, AroundMovesSession, StoredKept DEF RefusedIsGone
    <3> QED BY <3>1, <3>2 DEF RefusedIsGone, Refused
  <2>4. OneConfirms'
    <3>1. revoked' = revoked
      BY <1>2 DEF Around, Expire, RotateNonce, ReplacedElsewhere, vars, gateway
    <3>2. \A q \in Requests : Confirming(q)' <=> Confirming(q)
      BY <1>2, AroundKeeps DEF Same, Confirming
    <3> QED BY <3>1, <3>2 DEF OneConfirms
  <2> QED BY <2>1, <2>2, <2>3, <2>4
<1> QED BY <1>1, <1>2 DEF Next, Step, Around

(* The invariant holds of every reachable state (client.ts, fetch and      *)
(* sendControl with the manager's session() and refresh()).                *)
THEOREM FetchInvariant == Spec => []FetchInv
  BY InitFetch, NextFetch, PTL DEF Spec

(* The gateway dispatches a call at most once, however often its nonce or  *)
(* its session is refused and whatever becomes of the answers.             *)
THEOREM DispatchedOnce == Spec => []AtMostOneDispatch
<1>1. FetchInv => AtMostOneDispatch
  BY DEF FetchInv, NotYetDispatched, AtMostOneDispatch
<1> QED BY <1>1, FetchInvariant, PTL

(* A request whose body cannot be sent again is sent once.                 *)
THEOREM SentOnce == Spec => []NonReplayableSentOnce
<1>1. FetchInv => NonReplayableSentOnce
  BY DEF FetchInv, NotYetSent, NonReplayableSentOnce
<1> QED BY <1>1, FetchInvariant, PTL

(* The three attempts of the loop are enough: it never falls through.      *)
THEOREM ThreeAttemptsSuffice == Spec => []NeverExhausted
<1>1. FetchInv => NeverExhausted
  BY DEF FetchInv, Budget, NeverExhausted
<1> QED BY <1>1, FetchInvariant, PTL

(* A retry after session_expired never carries the token refused, though   *)
(* other requests and other tabs replace the session meanwhile.            *)
THEOREM RetryIsFresh == Spec => []RetriesWithFreshToken
<1>1. FetchInv => RetriesWithFreshToken
  BY DEF FetchInv, RefusedIsGone, RetriesWithFreshToken
<1> QED BY <1>1, FetchInvariant, PTL

(* The installation is cleared only when the gateway has revoked it.       *)
THEOREM ClearedWhenRevoked == Spec => ClearsOnlyRevoked
<1>1. FetchInv => [\A r \in Requests : Clear(r) => revoked]_vars
  BY DEF FetchInv, OneConfirms, Confirming, Clear
<1> QED BY <1>1, FetchInvariant, PTL DEF ClearsOnlyRevoked

=============================================================================
