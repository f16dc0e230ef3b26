---------------------------- MODULE ProblemDocuments ----------------------------
(* A refused request: the answer is read as a problem document, and what the  *)
(* SDK does next follows from its code alone (src/errors.ts and its callers): *)
(* prove again, renew the session, drop the session, or hand the answer out.  *)
(* An intermediary's 401, or a document that contradicts itself, must lead to *)
(* none of these.                                                             *)
EXTENDS Integers, Sequences, FiniteSets

CONSTANTS Flaws     \* how many members of the answer deviate
ASSUME FlawsAssumption == Flaws \in Nat

VARIABLES
  answer,       \* the refusal and its document
  attempt,      \* "first" or "again": the retry of that kind is still free or spent
  flaws,        \* deviations made
  reaction      \* what the SDK does, or "none_yet"

problemVars == <<answer, attempt, flaws, reaction>>

-----------------------------------------------------------------------------
\* serverCodePolicies: the status and whether a retry is of use, of the codes the
\* SDK acts on and of one code of each other kind.
SessionEnding ==
  {"identity_reauthentication_required", "attestation_required", "attestation_stale",
   "attestation_step_up_required", "refresh_token_reused", "session_revoked",
   "installation_revoked", "installation_family_revoked", "component_revoked",
   "component_key_replaced", "component_delegation_expired", "component_parent_trust_expired"}

Codes == SessionEnding \cup
  {"dpop_nonce_required", "session_expired", "dpop_invalid", "quota_exceeded",
   "upstream_timeout", "operation_indeterminate"}

Policy(code) ==
  [status |-> CASE code \in {"installation_revoked", "installation_family_revoked",
                             "component_revoked"}  -> 403
                [] code = "quota_exceeded"          -> 429
                [] code = "operation_indeterminate" -> 503
                [] code = "upstream_timeout"        -> 504
                [] OTHER                            -> 401,
   retryable |-> code \in {"dpop_nonce_required", "session_expired", "quota_exceeded",
                           "operation_indeterminate"}]

\* The answer the gateway gives with a code. "of <code>" stands for the URLs and
\* the title that belong to it; optional members are absent or well formed.
Canonical(code, nonce) ==
  [contentType |-> "problem", body |-> "object", requestHeader |-> "r1", nonce |-> nonce,
   status |-> Policy(code).status,
   code |-> code, type |-> code, documentation |-> code, title |-> code,
   bodyStatus |-> Policy(code).status, retryable |-> Policy(code).retryable,
   detail |-> 1, request |-> "r1", optional |-> "well_formed",
   operation |-> IF code = "operation_indeterminate" THEN "arq" ELSE "absent"]

\* What may differ: an intermediary answers, or the document is damaged.
AnswerValues ==
  [contentType |-> {"problem", "json"}, body |-> {"object", "not_read"},
   requestHeader |-> {"absent", "r1", "r2"}, nonce |-> {"absent", "usable", "malformed"},
   status |-> {401, 403, 503}, code |-> Codes \cup {"unknown"},
   type |-> Codes, documentation |-> Codes, title |-> Codes,
   bodyStatus |-> {401, 403, 503}, retryable |-> BOOLEAN, detail |-> {0, 1, 2048, 2049},
   request |-> {"r1", "r2", "bad"}, optional |-> {"well_formed", "bad"},
   operation |-> {"absent", "arq", "bad"}]

\* The requests that react: the application's fetch, a control request, a session
\* request, and the session request that carries a refresh token.
Requests == {"fetch", "control", "session", "refresh"}

-----------------------------------------------------------------------------
\* isProblemDocument; the body has passed readBoundedJSON and is an object.
IsProblemDocument(a) ==
  /\ a.code \in Codes
  /\ a.type = a.code /\ a.documentation = a.code /\ a.title = a.code
  /\ a.bodyStatus = a.status /\ a.bodyStatus = Policy(a.code).status
  /\ a.retryable = Policy(a.code).retryable
  /\ a.detail \in 1 .. 2048
  /\ a.request = a.requestHeader /\ a.request # "bad"
  /\ a.optional = "well_formed"
  /\ IF a.code = "operation_indeterminate" THEN a.operation = "arq" ELSE a.operation = "absent"

\* The request ID of the header is not asked for.
CodeOfBody(a) ==
  IF a.contentType = "problem" /\ a.body = "object" /\ IsProblemDocument([a EXCEPT !.requestHeader = a.request])
  THEN a.code ELSE "protocol_response_invalid"

\* errorFromResponse: the code of the error it makes.
ErrorCode(a) ==
  IF a.contentType = "problem" /\ a.requestHeader # "absent" /\ a.body = "object" /\ IsProblemDocument(a)
  THEN a.code ELSE "protocol_response_invalid"

\* recordNonce: the nonce is taken if it is one.
RecordsNonce(a) == a.nonce = "usable"

\* fetch and sendControl.
FetchReaction(a) ==
  CASE attempt = "first" /\ ErrorCode(a) = "dpop_nonce_required" /\ RecordsNonce(a) -> "prove_again"
    [] attempt = "first" /\ ErrorCode(a) = "session_expired" /\ a.nonce = "absent"  -> "renew"
    [] OTHER -> "hand_out"

\* sendDPoPJSON; clockChanged is what observeServerDate returned.
SessionReaction(a, clockChanged) ==
  CASE attempt = "first" /\ ErrorCode(a) = "dpop_nonce_required" /\ RecordsNonce(a) -> "prove_again"
    [] attempt = "first" /\ ErrorCode(a) = "dpop_invalid" /\ a.nonce = "absent" /\ clockChanged -> "prove_later"
    [] OTHER -> "hand_out"

\* performRefreshUnderLease: the catch around sendDPoPJSON.
RefreshReaction(a, clockChanged) ==
  IF SessionReaction(a, clockChanged) = "hand_out" /\ ErrorCode(a) \in SessionEnding
  THEN "drop_session" ELSE SessionReaction(a, clockChanged)

-----------------------------------------------------------------------------
problemInit ==
  /\ \E code \in Codes, nonce \in {"absent", "usable"} : answer = Canonical(code, nonce)
  /\ attempt \in {"first", "again"} /\ flaws = 0 /\ reaction = "none_yet"

Deform ==
  /\ reaction = "none_yet" /\ flaws < Flaws
  /\ \E member \in DOMAIN AnswerValues : \E value \in AnswerValues[member] :
       answer' = [answer EXCEPT ![member] = value]
  /\ flaws' = flaws + 1
  /\ UNCHANGED <<attempt, reaction>>

React ==
  /\ reaction = "none_yet"
  /\ \E request \in Requests, clockChanged \in BOOLEAN :
       reaction' = CASE request \in {"fetch", "control"} -> FetchReaction(answer)
                     [] request = "session"              -> SessionReaction(answer, clockChanged)
                     [] request = "refresh"              -> RefreshReaction(answer, clockChanged)
  /\ UNCHANGED <<answer, attempt, flaws>>

problemNext == Deform \/ React

problemSpec == problemInit /\ [][problemNext]_problemVars

-----------------------------------------------------------------------------
\* The SDK proves again, renews or drops the session only on an answer that is in
\* every member what the gateway sends with that code, with its request ID in
\* header and body, and a refusal of the credentials; what it retries the policy
\* calls retryable (or a proof refused while the clock was wrong), what it drops
\* the session for the policy does not; and no reaction is repeated.
ActsOnCanonicalRefusal ==
  reaction \in {"prove_again", "prove_later", "renew", "drop_session"} =>
    /\ \E code \in Codes :
         answer = [Canonical(code, answer.nonce) EXCEPT
                     !.detail = answer.detail, !.request = answer.request, !.requestHeader = answer.request]
    /\ answer.status \in {401, 403}
    /\ answer.retryable <=> reaction \in {"prove_again", "renew"}
    /\ attempt = "again" => reaction = "drop_session"
=============================================================================
