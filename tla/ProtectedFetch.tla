---------------------------- MODULE ProtectedFetch ----------------------------
(***************************************************************************)
(* The authenticated requests of one client (src/client/client.ts): fetch, *)
(* which frameworks call, and sendControl, which quota, diagnostics,       *)
(* provisioning and revocation call.  They share the session and the DPoP  *)
(* nonce, and answer to one gateway.                                       *)
(*                                                                         *)
(* A member of Requests is a slot in which one call of fetch or of          *)
(* sendControl runs at a time.  The                                        *)
(* session manager is taken for what module SessionManager shows of it:    *)
(* session() and refresh() work under the lease, so each is one step here, *)
(* and another tab, or a refresh() whose caller has given up, may replace  *)
(* the stored session at any other.  Access tokens are numbered in the     *)
(* order they are issued, and expire in that order.                        *)
(***************************************************************************)
EXTENDS Naturals

CONSTANTS
  Requests,
  MaxTokens,    \* bound: access tokens issued
  Nonces,       \* DPoP nonces the gateway hands out
  None,         \* undefined, or a header that is absent
  Unusable      \* a DPoP-Nonce header that recordNonce refuses

ASSUME TokenAssumption == MaxTokens \in Nat /\ None \notin Nat
ASSUME NonceAssumption ==
  /\ None \notin Nonces
  /\ Unusable \notin Nonces \cup {None}

VARIABLES
  stored,         \* access token of the stored session
  nonce,          \* SessionManager.nonce
  pc, kind,       \* "revoke", or "fetch" and the other control requests
  replayable,     \* isReplayableInput; what sendControl sends always is
  attempt, nonceRetried, sessionRetried,
  token, proof,   \* access token and nonce of the current attempt
  rejected,       \* the token session_expired was answered to
  observed,       \* the session refresh() read before it took the lease
  reply,          \* the answer on its way to the client, or being read
  issued,         \* gateway: the last access token issued
  expired,        \* gateway: tokens up to this one have expired
  want,           \* gateway: the nonce it demands and announces, or None
  revoked,        \* gateway: it has revoked the installation stored here
  cleared,        \* tokens up to this one are of installations cleared here
  sends, executed \* history: requests sent, requests dispatched upstream

client  == <<stored, nonce>>
input   == <<kind, replayable>>
retries == <<attempt, nonceRetried, sessionRetried>>
request == <<token, proof, rejected, observed>>
gateway == <<issued, expired, want, revoked, cleared>>
history == <<sends, executed>>
vars == <<client, pc, input, retries, request, reply, gateway, history>>

Tokens == 1..MaxTokens
Kinds == {"fetch", "revoke"}
PCs == {"idle", "session", "authorizing", "sent", "judging", "observing",
        "refreshing", "clearing", "exhausted"}
\* "noContent" is 204, "ok" another 2xx; "plain" is an error that is no problem
\* document; "problem" is any problem but the two that are retried.
Answers == {"noContent", "ok", "plain", "problem", "nonce", "expired"}
Headers == Nonces \cup {None, Unusable}
Replies == [answer : Answers, header : Headers]

\* A reply is told from no reply.
ASSUME ReplyAssumption == None \notin Replies

Init ==
  /\ stored = None
  /\ nonce = None
  /\ pc = [r \in Requests |-> "idle"]
  /\ kind = [r \in Requests |-> "fetch"]
  /\ replayable = [r \in Requests |-> TRUE]
  /\ attempt = [r \in Requests |-> 0]
  /\ nonceRetried = [r \in Requests |-> FALSE]
  /\ sessionRetried = [r \in Requests |-> FALSE]
  /\ token = [r \in Requests |-> None]
  /\ proof = [r \in Requests |-> None]
  /\ rejected = [r \in Requests |-> None]
  /\ observed = [r \in Requests |-> None]
  /\ reply = [r \in Requests |-> None]
  /\ issued = 0
  /\ expired = 0
  /\ want \in Nonces \cup {None}
  /\ revoked = FALSE
  /\ cleared = 0
  /\ sends = [r \in Requests |-> 0]
  /\ executed = [r \in Requests |-> 0]

Goto(r, state) == pc' = [pc EXCEPT ![r] = state]

\* The call returns or throws, and its locals are gone.
End(r) ==
  /\ Goto(r, "idle")
  /\ kind' = [kind EXCEPT ![r] = "fetch"]
  /\ replayable' = [replayable EXCEPT ![r] = TRUE]
  /\ attempt' = [attempt EXCEPT ![r] = 0]
  /\ nonceRetried' = [nonceRetried EXCEPT ![r] = FALSE]
  /\ sessionRetried' = [sessionRetried EXCEPT ![r] = FALSE]
  /\ token' = [token EXCEPT ![r] = None]
  /\ proof' = [proof EXCEPT ![r] = None]
  /\ rejected' = [rejected EXCEPT ![r] = None]
  /\ observed' = [observed EXCEPT ![r] = None]
  /\ reply' = [reply EXCEPT ![r] = None]
  /\ sends' = [sends EXCEPT ![r] = 0]
  /\ executed' = [executed EXCEPT ![r] = 0]

-----------------------------------------------------------------------------
(* The session manager.                                                    *)

\* A new session replaces the stored one.
NewSession ==
  /\ issued < MaxTokens
  /\ issued' = issued + 1
  /\ stored' = issued + 1

\* Mutant: any header that is there is remembered.
Usable_Present(header) == header # None

\* recordNonce: what the pattern refuses is not remembered.
Usable(header) == header \in Nonces

RecordNonce(header) == nonce' = IF Usable(header) THEN header ELSE nonce

\* sendDPoPJSON on the way may bring the gateway's nonce.
MayRecordNonce == nonce' = nonce \/ RecordNonce(want)

-----------------------------------------------------------------------------
(* One attempt.                                                            *)

\* fetch, or sendControl, whose bodies can always be sent again.
Start(r) ==
  /\ pc[r] = "idle"
  /\ \E k \in Kinds, b \in BOOLEAN :
       /\ k # "fetch" => b
       /\ kind' = [kind EXCEPT ![r] = k]
       /\ replayable' = [replayable EXCEPT ![r] = b]
  /\ Goto(r, "session")
  /\ UNCHANGED <<client, retries, request, reply, gateway, history>>

\* session() returns the stored session.
TakeSession(r) ==
  /\ pc[r] = "session"
  /\ stored # None
  /\ token' = [token EXCEPT ![r] = stored]
  /\ Goto(r, "authorizing")
  /\ UNCHANGED <<client, input, retries, proof, rejected, observed, reply, gateway, history>>

\* session() establishes one, or renews the one that is about to expire.
RenewSession(r) ==
  /\ pc[r] = "session"
  /\ ~revoked
  /\ NewSession
  /\ MayRecordNonce
  /\ token' = [token EXCEPT ![r] = stored']
  /\ Goto(r, "authorizing")
  /\ UNCHANGED <<input, retries, proof, rejected, observed, reply, expired, want, revoked,
                 cleared, history>>

\* The session may have been replaced since.  The proof takes the nonce known
\* now; then fetch(outbound).
Authorize(r) ==
  /\ pc[r] = "authorizing"
  /\ proof' = [proof EXCEPT ![r] = nonce]
  /\ sends' = [sends EXCEPT ![r] = @ + 1]
  /\ Goto(r, "sent")
  /\ UNCHANGED <<client, input, retries, token, rejected, observed, reply, gateway, executed>>

\* Mutant: an ambiguous failure is retried.
Fail_Retries(r) ==
  /\ pc[r] = "sent"
  /\ attempt[r] < 2
  /\ attempt' = [attempt EXCEPT ![r] = @ + 1]
  /\ Goto(r, "session")
  /\ reply' = [reply EXCEPT ![r] = None]
  /\ UNCHANGED <<client, input, nonceRetried, sessionRetried, request, gateway, history>>

\* fetch rejects, before or after the gateway has seen the request: a lost
\* connection, a timeout or the caller's abort; or the answer comes from another
\* origin, or after a redirect.
Fail(r) ==
  /\ pc[r] = "sent"
  /\ End(r)
  /\ UNCHANGED <<client, gateway>>

\* session(), proof(), refresh() or clearInstallation() fails, or the caller
\* aborts while waiting for it.  What has been done by then stays: a refused or
\* invalid session is dropped, a nonce recorded.
GiveUp(r) ==
  /\ pc[r] \in {"session", "authorizing", "refreshing", "clearing"}
  /\ stored' \in {stored, None}
  /\ IF pc[r] \in {"session", "refreshing"} THEN MayRecordNonce ELSE UNCHANGED nonce
  /\ End(r)
  /\ UNCHANGED gateway

-----------------------------------------------------------------------------
(* The gateway.                                                            *)

\* The answer; the proof is spent.
Answer(r, answer, header) ==
  /\ reply' = [reply EXCEPT ![r] = [answer |-> answer, header |-> header]]
  /\ proof' = [proof EXCEPT ![r] = None]

Live(t) == t > expired
RevokedFor(t) == revoked \/ t <= cleared

\* Refused before dispatch, or answered by an intermediary, which may also
\* spoil the header; 204 is the gateway's own.
Refuse(r) ==
  /\ pc[r] = "sent"
  /\ reply[r] = None
  /\ \/ /\ want \notin {None, proof[r]}
        /\ \E header \in {want, Unusable} : Answer(r, "nonce", header)
     \/ /\ ~Live(token[r])
        /\ ~RevokedFor(token[r])
        /\ \E header \in {None, want} : Answer(r, "expired", header)
     \/ \E answer \in {"ok", "plain", "problem"} : Answer(r, answer, None)
  /\ UNCHANGED <<client, pc, input, retries, token, rejected, observed, gateway, history>>

\* Dispatched upstream or, for a control request, carried out.
Execute(r) ==
  /\ pc[r] = "sent"
  /\ reply[r] = None
  /\ want \in {None, proof[r]}
  /\ Live(token[r])
  /\ ~RevokedFor(token[r])
  /\ executed' = [executed EXCEPT ![r] = @ + 1]
  /\ revoked' = (kind[r] = "revoke")
  /\ \/ \E header \in {None, want} :
          Answer(r, IF kind[r] = "revoke" THEN "noContent" ELSE "ok", header)
     \/ kind[r] # "revoke" /\ \E answer \in {"plain", "problem"} : Answer(r, answer, None)
  /\ UNCHANGED <<client, pc, input, retries, token, rejected, observed, issued, expired, want,
                 cleared, sends>>

\* Tokens expire at the gateway, by its own clock.
Expire ==
  /\ expired < issued
  /\ expired' = expired + 1
  /\ UNCHANGED <<client, pc, input, retries, request, reply, issued, want, revoked, cleared,
                 history>>

\* The gateway demands another nonce.
RotateNonce ==
  /\ want' \in Nonces \ {want}
  /\ UNCHANGED <<client, pc, input, retries, request, reply, issued, expired, revoked, cleared,
                 history>>

\* Another tab, or a refresh() whose caller has aborted, replaces the session.
ReplacedElsewhere ==
  /\ ~revoked
  /\ NewSession
  /\ UNCHANGED <<nonce, pc, input, retries, request, reply, expired, want, revoked, cleared,
                 history>>

-----------------------------------------------------------------------------
(* The answer.                                                             *)

\* Mutant: any success confirms a revocation.
Confirmed_AnyOK(r) == kind[r] = "revoke" /\ reply[r].answer \in {"noContent", "ok"}

\* expectNoContent: 204 confirms a revocation.
Confirmed(r) == kind[r] = "revoke" /\ reply[r].answer = "noContent"

\* A success may bring a nonce; a problem document has yet to be read.
Receive(r) ==
  /\ pc[r] = "sent"
  /\ reply[r] # None
  /\ IF reply[r].answer \in {"noContent", "ok"}
     THEN RecordNonce(reply[r].header) ELSE UNCHANGED nonce
  /\ IF reply[r].answer \in {"noContent", "ok", "plain"} /\ ~Confirmed(r)
     THEN End(r)
     ELSE /\ Goto(r, IF Confirmed(r) THEN "clearing" ELSE "judging")
          /\ reply' = IF Confirmed(r) THEN [reply EXCEPT ![r] = None] ELSE reply
          /\ UNCHANGED <<input, retries, request, history>>
  /\ UNCHANGED <<stored, gateway>>

\* continue: the loop allows three attempts.
Again(r) ==
  /\ attempt' = [attempt EXCEPT ![r] = @ + 1]
  /\ token' = [token EXCEPT ![r] = None]
  /\ Goto(r, IF attempt[r] < 2 THEN "session" ELSE "exhausted")

NonceDemanded(r) ==
  ~nonceRetried[r] /\ reply[r].answer = "nonce" /\ Usable(reply[r].header)

SessionExpired(r) ==
  ~sessionRetried[r] /\ reply[r].answer = "expired" /\ reply[r].header = None

\* A fresh proof will carry the nonce, which is remembered even where the body
\* cannot be sent again.
ProveAgain(r) ==
  /\ pc[r] = "judging"
  /\ NonceDemanded(r)
  /\ nonce' = reply[r].header
  /\ IF replayable[r]
     THEN /\ Again(r)
          /\ nonceRetried' = [nonceRetried EXCEPT ![r] = TRUE]
          /\ reply' = [reply EXCEPT ![r] = None]
          /\ UNCHANGED <<input, sessionRetried, proof, rejected, observed, history>>
     ELSE End(r)
  /\ UNCHANGED <<stored, gateway>>

\* sessions.refresh(), where the body can be sent again.
RefreshThenAgain(r) ==
  /\ pc[r] = "judging"
  /\ SessionExpired(r)
  /\ IF replayable[r]
     THEN /\ Goto(r, "observing")
          /\ rejected' = [rejected EXCEPT ![r] = token[r]]
          /\ token' = [token EXCEPT ![r] = None]
          /\ reply' = [reply EXCEPT ![r] = None]
          /\ UNCHANGED <<input, retries, proof, observed, history>>
     ELSE End(r)
  /\ UNCHANGED <<client, gateway>>

\* Any other problem is returned by fetch and thrown by sendControl.
ReturnProblem(r) ==
  /\ pc[r] = "judging"
  /\ ~NonceDemanded(r)
  /\ ~SessionExpired(r)
  /\ End(r)
  /\ UNCHANGED <<client, gateway>>

\* refresh() reads the stored session, then asks for the lease.
Observe(r) ==
  /\ pc[r] = "observing"
  /\ observed' = [observed EXCEPT ![r] = stored]
  /\ Goto(r, "refreshing")
  /\ UNCHANGED <<client, input, retries, token, proof, rejected, reply, gateway, history>>

\* Mutant: any session that is still there is adopted.
Adoptable_Any(r) == stored # None

\* persistedSessionChanged: the session is not the observed one.
Adoptable(r) == stored \notin {None, observed[r]}

\* refreshUnderLease: the session is adopted, or a new one replaces it: it is
\* the observed one, or it has expired by the client's clock too.
Refresh(r) ==
  /\ pc[r] = "refreshing"
  /\ \/ Adoptable(r) /\ UNCHANGED <<client, issued>>
     \/ ~revoked /\ NewSession /\ MayRecordNonce
  /\ observed' = [observed EXCEPT ![r] = None]
  /\ sessionRetried' = [sessionRetried EXCEPT ![r] = TRUE]
  /\ Again(r)
  /\ UNCHANGED <<input, nonceRetried, proof, rejected, reply, expired, want, revoked, cleared, history>>

\* clearInstallation, after a confirmed revocation: the next session will be
\* bound to a new key.
Clear(r) ==
  /\ pc[r] = "clearing"
  /\ stored' = None
  /\ nonce' = None
  /\ revoked' = FALSE
  /\ cleared' = issued
  /\ End(r)
  /\ UNCHANGED <<issued, expired, want>>

-----------------------------------------------------------------------------

Attempt(r) ==
  \/ Start(r) \/ TakeSession(r) \/ RenewSession(r) \/ Authorize(r)
  \/ Fail(r) \/ GiveUp(r) \/ Receive(r) \/ Clear(r)

Retry(r) ==
  \/ ProveAgain(r) \/ RefreshThenAgain(r) \/ ReturnProblem(r)
  \/ Observe(r) \/ Refresh(r)

Gateway(r) == Refuse(r) \/ Execute(r)

Next ==
  \/ \E r \in Requests : Attempt(r) \/ Retry(r) \/ Gateway(r)
  \/ Expire \/ RotateNonce \/ ReplacedElsewhere

Spec == Init /\ [][Next]_vars

-----------------------------------------------------------------------------
(* Properties.                                                             *)

\* Every variable has its type.
TypeOK ==
  /\ stored \in Tokens \cup {None}
  /\ nonce \in Nonces \cup {None}
  /\ pc \in [Requests -> PCs]
  /\ kind \in [Requests -> Kinds]
  /\ replayable \in [Requests -> BOOLEAN]
  /\ attempt \in [Requests -> 0..3]
  /\ nonceRetried \in [Requests -> BOOLEAN]
  /\ sessionRetried \in [Requests -> BOOLEAN]
  /\ token \in [Requests -> Tokens \cup {None}]
  /\ proof \in [Requests -> Nonces \cup {None}]
  /\ rejected \in [Requests -> Tokens \cup {None}]
  /\ observed \in [Requests -> Tokens \cup {None}]
  /\ reply \in [Requests -> Replies \cup {None}]
  /\ \A r \in Requests : pc[r] = "judging" => reply[r] # None
  /\ issued \in 0..MaxTokens /\ expired \in 0..MaxTokens /\ cleared \in 0..MaxTokens
  /\ want \in Nonces \cup {None}
  /\ revoked \in BOOLEAN
  /\ sends \in [Requests -> Nat]
  /\ executed \in [Requests -> Nat]

\* A call is dispatched upstream at most once: it is sent again only after an
\* answer that the gateway gives before dispatch (docs/architecture.md: no
\* request is retried for upstream timeouts or ambiguous dispatch failures).
AtMostOneDispatch == \A r \in Requests : executed[r] <= 1

\* A body that cannot be sent again is sent once at most.
NonReplayableSentOnce == \A r \in Requests : ~replayable[r] => sends[r] <= 1

\* One nonce retry and one session retry leave the third attempt to end the
\* call: the error after the loop is never thrown.
NeverExhausted == \A r \in Requests : pc[r] # "exhausted"

\* After session_expired the request is never sent with the token that was
\* refused, whoever has replaced the session meanwhile.
RetriesWithFreshToken ==
  \A r \in Requests : pc[r] = "sent" /\ sessionRetried[r] => token[r] # rejected[r]

\* The local installation is cleared only when the gateway has revoked it
\* (test/client.test.ts: only after server confirmation), also when two
\* revocations and their answers overlap.
ClearsOnlyRevoked == [][\A r \in Requests : Clear(r) => revoked]_vars

\* docs/architecture.md: a DPoP nonce is accepted only from a canonical,
\* correlated Problem response; what Receive takes it from is a success.
NonceOnlyFromProblem == [][\A r \in Requests : Receive(r) => nonce' = nonce]_vars

-----------------------------------------------------------------------------
(* The inductive invariant behind the safety properties, in parts.         *)

\* The loop has gone round once for each kind of retry made.
Budget ==
  \A r \in Requests :
    /\ pc[r] # "exhausted"
    /\ attempt[r] = (IF nonceRetried[r] THEN 1 ELSE 0) + (IF sessionRetried[r] THEN 1 ELSE 0)
    /\ pc[r] \in {"observing", "refreshing"} => ~sessionRetried[r]

\* What is going to be sent, again or for the first time, was not dispatched.
NotYetDispatched ==
  \A r \in Requests :
    /\ executed[r] <= 1
    /\ pc[r] \in {"idle", "session", "authorizing", "observing", "refreshing"} => executed[r] = 0
    /\ pc[r] = "sent" /\ reply[r] = None => executed[r] = 0
    /\ reply[r] # None /\ reply[r].answer \in {"nonce", "expired"} => executed[r] = 0

\* A body that cannot be sent again never gets as far as a second attempt.
NotYetSent ==
  \A r \in Requests :
    /\ pc[r] = "idle" => sends[r] = 0
    /\ ~replayable[r] =>
         /\ sends[r] <= 1
         /\ pc[r] \in {"session", "authorizing"} => sends[r] = 0
         /\ pc[r] \notin {"observing", "refreshing"}

\* From the refresh on, the refused token is neither stored nor used again.
RefusedIsGone ==
  /\ stored # None => stored <= issued
  /\ \A r \in Requests :
       /\ token[r] # None => token[r] <= issued
       /\ rejected[r] # None => rejected[r] <= issued
       /\ pc[r] \in {"authorizing", "sent", "judging"} => token[r] # None
       /\ pc[r] \in {"observing", "refreshing"} => rejected[r] # None
       /\ pc[r] = "refreshing" /\ observed[r] # rejected[r] => stored # rejected[r]
       /\ sessionRetried[r] =>
            rejected[r] # None /\ stored # rejected[r] /\ token[r] # rejected[r]

\* A revocation has been carried out and its call has not cleared yet.
Confirming(r) ==
  \/ pc[r] = "clearing"
  \/ reply[r] # None /\ reply[r].answer = "noContent"

\* The gateway confirms one revocation of an installation.
OneConfirms ==
  /\ \A r \in Requests : Confirming(r) => revoked
  /\ \A r1, r2 \in Requests : Confirming(r1) /\ Confirming(r2) => r1 = r2

FetchInv ==
  TypeOK /\ Budget /\ NotYetDispatched /\ NotYetSent /\ RefusedIsGone /\ OneConfirms

=============================================================================
