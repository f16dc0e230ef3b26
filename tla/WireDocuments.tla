----------------------------- MODULE WireDocuments -----------------------------
(* The documents a session is made of: the grant the gateway sends, the       *)
(* checks of its parser (src/session/wire.ts) and of the manager before it is *)
(* stored, and those of the next call on what it finds in the store. The two  *)
(* sets of checks are written apart and must agree: a session that is stored  *)
(* and then taken for corrupt is lost, with a refresh token already rotated.  *)
(*                                                                            *)
(* A grant is a record of fields; a string is a class of strings, a length or *)
(* a lifetime its number. "absent" stands for a member that is missing.       *)
EXTENDS Integers, Sequences, FiniteSets

CONSTANTS
  Deviations,     \* how many fields of a document differ from a base document
  MaxFeatures     \* features a component may be granted (256)

ASSUME DocumentsAssumption == Deviations \in Nat /\ MaxFeatures \in Nat \ {0}

VARIABLES
  stage,          \* "wire", "parsed", "refused", "stored", "kept" or "dropped"
  doc,            \* the grant
  skew,           \* Date header against Date.now(), in milliseconds
  offset,         \* clockOffsetMilliseconds
  stored,         \* the session record of the store, or NoSession
  keyRecord,      \* the key record of the store
  caller,         \* history: the next call's platform, key, and the key's soundness
  changed         \* deviations made

grantVars == <<stage, doc, skew, offset, stored, keyRecord, caller, changed>>

-----------------------------------------------------------------------------
\* The upper limits: characters of the tokens, seconds of their lives, milliseconds.
MaximumAccess == 16384
MaximumRefresh == 2048
MaximumLifetime == 3600
MaximumRefreshLifetime == 31536000
MaximumSkew == 86400000

\* The fields of a grant and what a gateway may put into them.
FieldValues ==
  [members |-> {"known", "unknown"}, tokenType |-> {"DPoP", "Bearer"},
   access |-> {63, 64, MaximumAccess, MaximumAccess + 1},
   refresh |-> {31, 32, MaximumRefresh, MaximumRefresh + 1},
   expiresIn |-> {59, 60, MaximumLifetime, MaximumLifetime + 1},
   refreshExpiresIn |-> {299, 300, MaximumRefreshLifetime, MaximumRefreshLifetime + 1},
   id |-> {"ins", "bad"}, platform |-> {"web", "node", "bad"},
   jkt |-> {"own", "other", "bad"}, status |-> {"active", "revoked", "bad"},
   family |-> {"absent", "active", "revoked", "bad"},
   component |-> {"absent", "active", "revoked", "bad"},
   definition |-> {"known", "bad"}, componentPlatform |-> {"web", "node"},
   componentJkt |-> {"own", "other"}, isRoot |-> BOOLEAN,
   features |-> {<<>>, <<"f">>, <<"f", "g">>, <<"f", "f">>, <<"f", "g", "h">>},
   provider |-> {"known", "bad"}, level |-> {"known", "bad"}, source |-> {"absent", "direct", "delegated", "bad"},
   parent |-> {"absent", "cmp", "bad"}, parentProvider |-> {"absent", "known", "bad"},
   delegation |-> {"absent", "dlg", "bad"},
   \* ISO dates as numbers; -1 is not a date.
   verifiedAt |-> {-1, 1, 2}, trustExpiresAt |-> {-1, 1, 2}]

PlainGrant ==
  [members |-> "known", tokenType |-> "DPoP", access |-> 64, refresh |-> 32,
   expiresIn |-> 60, refreshExpiresIn |-> 300,
   id |-> "ins", platform |-> "web", jkt |-> "own", status |-> "active",
   family |-> "absent", component |-> "absent", definition |-> "known",
   componentPlatform |-> "web", componentJkt |-> "own", isRoot |-> TRUE, features |-> <<"f">>,
   provider |-> "known", level |-> "known", source |-> "absent", parent |-> "absent", parentProvider |-> "absent",
   delegation |-> "absent", verifiedAt |-> 1, trustExpiresAt |-> 2]

RootGrant == [PlainGrant EXCEPT !.family = "active", !.component = "active", !.source = "direct"]

DelegatedGrant ==
  [RootGrant EXCEPT !.isRoot = FALSE, !.source = "delegated",
                    !.parent = "cmp", !.parentProvider = "known", !.delegation = "dlg"]

\* The key record generateInstallationKey creates: its private half cannot be
\* exported, its JWK has the four public members only.
GeneratedKey ==
  [extractable |-> FALSE, usages |-> "sign_and_verify", curve |-> "P-256",
   jwk |-> "public", thumbprint |-> "of_its_jwk"]

KeyValues ==
  [extractable |-> BOOLEAN, usages |-> {"sign_and_verify", "other"}, curve |-> {"P-256", "other"},
   jwk |-> {"public", "with_more_members"}, thumbprint |-> {"of_its_jwk", "other"}]

NoSession == [members |-> "none"]

-----------------------------------------------------------------------------
(* parseSessionGrant                                                          *)
ParsesTokens(d) ==
  /\ d.members = "known" /\ d.tokenType = "DPoP"
  /\ d.access \in 64 .. MaximumAccess /\ d.refresh \in 32 .. MaximumRefresh
  /\ d.expiresIn \in 60 .. MaximumLifetime /\ d.refreshExpiresIn \in 300 .. MaximumRefreshLifetime

ParsesInstallation(d) ==
  d.id = "ins" /\ d.platform # "bad" /\ d.jkt # "bad" /\ d.status \in {"active", "revoked"}

ParsesFamily(d) == d.family \in {"active", "revoked"}

\* A component repeats the platform and the key of its installation.
ParsesComponent(d) ==
  /\ d.definition = "known" /\ d.component \in {"active", "revoked"}
  /\ d.componentPlatform = d.platform /\ d.componentJkt = d.jkt
  /\ Len(d.features) \in 1 .. MaxFeatures
  /\ \A i, j \in DOMAIN d.features : d.features[i] = d.features[j] => i = j

ParsesTrust(d) ==
  /\ d.provider = "known" /\ d.level = "known"
  /\ d.verifiedAt # -1 /\ d.trustExpiresAt # -1 /\ d.verifiedAt < d.trustExpiresAt
  /\ "bad" \notin {d.source, d.parent, d.parentProvider, d.delegation}

\* validateTrustProvenance: a root is not delegated, every other component is,
\* with its parent, the parent's provider and the delegation named.
ParsesProvenance(d) ==
  LET links == {d.parent, d.parentProvider, d.delegation}
  IN  IF d.isRoot THEN d.source = "direct" /\ links = {"absent"}
                  ELSE d.source = "delegated" /\ "absent" \notin links

ParsesGrant(d) ==
  /\ ParsesTokens(d) /\ ParsesInstallation(d)
  /\ d.family # "absent" => ParsesFamily(d)
  /\ d.component # "absent" => ParsesComponent(d) /\ ParsesProvenance(d)
  /\ (d.family = "absent") <=> (d.component = "absent")
  /\ ParsesTrust(d)

\* The status of the family is not looked at.
BoundToInstallation(d) ==
  /\ d.jkt = "own" /\ d.platform = "web" /\ d.status = "active"
  /\ d.component # "absent" =>
       d.componentJkt = "own" /\ d.componentPlatform = "web" /\ d.component = "active"

\* persistGrantUnderLease: the grant is for this client, its key and platform.
BoundToClient(d) ==
  /\ d.jkt = "own" /\ d.platform = "web" /\ d.status = "active"
  /\ d.component # "absent" =>
       /\ d.componentJkt = "own" /\ d.componentPlatform = "web"
       /\ d.component = "active" /\ d.family = "active"

\* The record it stores. Its expiry times, sums of safe integers, always are.
StoredSession(d) ==
  [members |-> "session", access |-> d.access, refresh |-> d.refresh,
   jkt |-> d.jkt, platform |-> d.platform, status |-> d.status,
   family |-> d.family, component |-> d.component,
   componentJkt |-> d.componentJkt, componentPlatform |-> d.componentPlatform,
   provider |-> d.provider, generation |-> 1, offset |-> offset]

\* isValidStoredKey
IsValidStoredKey(k) ==
  /\ ~k.extractable /\ k.usages = "sign_and_verify" /\ k.curve = "P-256"
  /\ k.jwk = "public" /\ k.thumbprint = "of_its_jwk"

\* isValidStoredSession, for a client with a key and a platform.  That its times are safe
\* integers and its features an array is left out: the features are those of the parsed
\* grant, and the times are sums of safe integers.
IsValidStoredSession(s, thumbprint, platform) ==
  /\ s.access >= 64 /\ s.refresh >= 32
  /\ s.generation >= 1 /\ s.offset \in -MaximumSkew .. MaximumSkew
  /\ s.jkt = thumbprint /\ s.platform = platform /\ s.status = "active" /\ s.provider = "known"
  /\ (s.family = "absent") <=> (s.component = "absent")
  /\ s.family # "absent" =>
       /\ s.family = "active" /\ s.component = "active"
       /\ s.componentJkt = thumbprint /\ s.componentPlatform = platform

-----------------------------------------------------------------------------
grantInit ==
  /\ stage = "wire" /\ doc \in {PlainGrant, RootGrant, DelegatedGrant}
  /\ skew \in {0, MaximumSkew, -MaximumSkew, MaximumSkew + 1, -MaximumSkew - 1}
  /\ offset = 0 /\ stored = NoSession /\ keyRecord = GeneratedKey
  /\ caller = [jkt |-> "own", platform |-> "web", sound |-> TRUE] /\ changed = 0

\* The gateway, or what stands before it, sends a document that differs.
Deviate ==
  /\ stage = "wire" /\ changed < Deviations
  /\ \E field \in DOMAIN FieldValues : \E value \in FieldValues[field] :
       doc' = [doc EXCEPT ![field] = value]
  /\ changed' = changed + 1
  /\ UNCHANGED <<stage, skew, offset, stored, keyRecord, caller>>

\* sendDPoPJSON takes the offset from the Date header, then parseSessionGrant.
ReceiveGrant ==
  /\ stage = "wire"
  /\ offset' = IF skew \in -MaximumSkew .. MaximumSkew THEN skew ELSE offset
  /\ stage' = IF ParsesGrant(doc) THEN "parsed" ELSE "refused"
  /\ UNCHANGED <<doc, skew, stored, keyRecord, caller, changed>>

PersistGrant ==
  /\ stage = "parsed"
  /\ IF BoundToClient(doc)
     THEN stage' = "stored" /\ stored' = StoredSession(doc)
     ELSE stage' = "refused" /\ UNCHANGED stored
  /\ UNCHANGED <<doc, skew, offset, keyRecord, caller, changed>>

\* Whatever else writes to the store, or an older release that did.
DamageKey ==
  /\ stage = "stored" /\ keyRecord = GeneratedKey
  /\ \E field \in DOMAIN KeyValues : \E value \in KeyValues[field] :
       keyRecord' = [keyRecord EXCEPT ![field] = value]
  /\ UNCHANGED <<stage, doc, skew, offset, stored, caller, changed>>

\* The next call, of this client or of one on the same store that was configured
\* for another platform or whose key has replaced the first: a corrupt key is
\* deleted with the session, a session that is not valid for the key is deleted.
NextCall ==
  /\ stage = "stored"
  /\ \E thumbprint \in {"own", "other"}, platform \in {"web", "node"} :
       /\ caller' = [jkt |-> thumbprint, platform |-> platform, sound |-> keyRecord = GeneratedKey]
       /\ IF IsValidStoredKey(keyRecord) /\ IsValidStoredSession(stored, thumbprint, platform)
          THEN stage' = "kept" /\ UNCHANGED stored
          ELSE stage' = "dropped" /\ stored' = NoSession
  /\ UNCHANGED <<doc, skew, offset, keyRecord, changed>>

grantNext == Deviate \/ ReceiveGrant \/ PersistGrant \/ DamageKey \/ NextCall

grantSpec == grantInit /\ [][grantNext]_grantVars

-----------------------------------------------------------------------------
\* Whatever grant was accepted and stored, under whatever clock offset, the next
\* call of the same client finds a session it takes for valid, and no other
\* client does: not one of another platform, not one with another key, not one
\* whose key record could be exported or is not the key it is named after.
StoredIsKept ==
  stage \in {"kept", "dropped"} =>
    (stage = "kept" <=> caller = [jkt |-> "own", platform |-> "web", sound |-> TRUE])
=============================================================================
