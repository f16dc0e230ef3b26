-------------------------- MODULE ReleaseReconcile --------------------------
(***************************************************************************)
(* scripts/reconcile-github-release.py: several runs create, complete,     *)
(* publish and verify one GitHub release.  Each run is a process that asks *)
(* GitHub one question or makes one change at a time, so whatever it has   *)
(* looked up may be stale when it acts on it: other runs, people who edit  *)
(* the draft, a moved tag and an administrator act in between, and a run   *)
(* may break off at any point, an upload half done.                        *)
(*                                                                         *)
(* GitHub itself is external: one release per tag, found by its tag also   *)
(* while it is a draft; "gh release upload" without --clobber refuses a    *)
(* name that exists; a release published while immutable releases are      *)
(* enforced changes no more and carries an attestation of its commit.      *)
(***************************************************************************)
EXTENDS Naturals, FiniteSets

CONSTANTS Runs,       \* attempts of the release workflow
          Flaky,      \* the runs that may break off
          Fixed,      \* names of the assets every run brings, byte for byte
          Packages,   \* the npm packages with an adoption record
          Stray,      \* a name no run declares
          None,
          MaxWrites   \* bound: steps of people other than the runs

(* A run names its adoption record after the package and itself, so the    *)
(* records of several runs live side by side (ADOPTION_PATTERN).           *)
Records == Packages \X Runs
Names == Fixed \cup Records \cup {Stray}
Own(r) == Fixed \cup (Packages \X {r})

ASSUME NamesAssumption ==
    /\ Fixed # {}
    /\ Fixed \cap Records = {}
    /\ Stray \notin Fixed \cup Records
    /\ None \notin Names \cup Runs

ASSUME BoundAssumption == MaxWrites \in Nat

(* The bytes under a name: of the run that names it, another record that   *)
(* is bound to this release and attested, or anything else.                *)
Bytes == {"absent", "partial", "exact", "valid", "other"}
Commits == {"promoted", "other"}
Releases == [draft : BOOLEAN, immutable : BOOLEAN, titled : BOOLEAN,
             commit : Commits \cup {None}, assets : [Names -> Bytes]]

ASSUME NoneAssumption == None \notin Releases

PCs == {"prepare", "start", "find", "tag", "create", "refind", "adopt",
        "existing", "upload", "uploading", "relook", "recheck", "retag",
        "readopt", "publish", "finalLook", "finalAdopt", "finalAssets",
        "attest", "verified", "failed"}

VARIABLES release,    \* the release at GitHub, or None
          tag,        \* the commit the remote tag identifies
          enforced,   \* immutable releases are enforced
          pc, prepares, policy, draft, seen, todo, sending,
                      \* per run; seen and draft are its latest lookup
          writes,     \* steps of other people so far
          fresh,      \* history: nobody else has acted since its latest lookup
                      \* (or since it began)
          published   \* history: who made the release public

remote == <<release, tag, enforced>>
vars == <<release, tag, enforced, pc, prepares, policy, draft, seen, todo,
          sending, writes, fresh, published>>

Present == IF release = None THEN {}
           ELSE {n \in Names : release.assets[n] # "absent"}

Init ==
    /\ release = None /\ tag = "promoted" /\ enforced = TRUE
    /\ pc \in [Runs -> {"prepare", "start"}]
    /\ prepares = [r \in Runs |-> pc[r] = "prepare"]
    /\ policy \in [Runs -> {"live", "current"}]
    /\ draft = [r \in Runs |-> FALSE]
    /\ seen = [r \in Runs |-> {}] /\ todo = [r \in Runs |-> {}]
    /\ sending = [r \in Runs |-> None]
    /\ writes = 0
    /\ fresh = [r \in Runs |-> FALSE] /\ published = "no"

-----------------------------------------------------------------------------
(* What a run accepts.                                                     *)

(* require_immutable_policy_current: the evidence of a run that has some   *)
(* is looked at again before every change; a run without read the setting  *)
(* once, when it began.                                                    *)
PolicyHolds(r) == policy[r] # "expired"

(* validate_release: the title, and each asset declared and uploaded.      *)
Listed(r) ==
    /\ release # None /\ release.titled
    /\ \A n \in Present : n \in Own(r) \cup Records
                       /\ release.assets[n] # "partial"

(* validate_release_state: a published release must be immutable.          *)
StateValid == /\ release # None /\ release.titled
              /\ release.draft = ~release.immutable

(* Every fixed asset, and for each package some run's record.              *)
Covers(r, names) ==
    /\ Fixed \subseteq names
    /\ \A p \in Packages : \E q \in Runs : <<p, q>> \in names

Complete(r) == Listed(r) /\ Covers(r, Present)
Final_AnyState(r) == release # None /\ ~release.draft /\ Complete(r)

Final(r) == StateValid /\ ~release.draft /\ Complete(r)

(* verify_release_attestation: GitHub attests the commit and the assets.   *)
Attested == release # None /\ release.commit = "promoted"

(* verify_adoption_asset and verify_remote_asset download what is there.   *)
RecordGood(n) == release # None /\ release.assets[n] \in {"exact", "valid"}
SameBytes(n) == release # None /\ release.assets[n] = "exact"

Goto(r, place) == pc' = [pc EXCEPT ![r] = place]

See(r, place, work) ==
    /\ Goto(r, place)
    /\ seen' = [seen EXCEPT ![r] = Present]
    /\ draft' = [draft EXCEPT ![r] = release.draft]
    /\ todo' = [todo EXCEPT ![r] = work]
    /\ fresh' = [fresh EXCEPT ![r] = TRUE]

(* The release with other bytes under a name, and with another title.      *)
With(n, b) == [release EXCEPT !.assets[n] = b]
Retitled == [release EXCEPT !.titled = ~@]

(* Whoever changes something makes every other run's picture stale.        *)
Stales(who) == fresh' = [r \in Runs |-> fresh[r] /\ r = who]

locals == <<draft, seen, todo, sending>>

-----------------------------------------------------------------------------
(* prepare_release, and the first part of reconcile: immutability is       *)
(* proved before anything else, then the release is found or created.      *)

MayBegin(r) == IF pc[r] = "prepare" \/ policy[r] = "live"
                 THEN enforced ELSE PolicyHolds(r)

Begin(r) ==
    /\ pc[r] \in {"prepare", "start"} /\ MayBegin(r)
    /\ Goto(r, "find")
    /\ fresh' = [fresh EXCEPT ![r] = TRUE]
    /\ UNCHANGED <<remote, prepares, policy, locals, writes, published>>

FindNothing(r) ==
    /\ pc[r] = "find" /\ release = None
    /\ Goto(r, "tag")
    /\ UNCHANGED <<remote, prepares, policy, locals, writes, fresh, published>>

CheckTag_FirstOnly(r) ==
    /\ \/ pc[r] = "tag" /\ tag = "promoted" /\ Goto(r, "create") /\ UNCHANGED todo
       \/ /\ pc[r] = "retag" /\ Goto(r, "readopt")
          /\ todo' = [todo EXCEPT ![r] = seen[r] \cap Records]
    /\ UNCHANGED <<remote, prepares, policy, draft, seen, sending, writes,
                   fresh, published>>

CheckTag(r) ==
    /\ pc[r] \in {"tag", "retag"} /\ tag = "promoted"
    /\ \/ pc[r] = "tag" /\ Goto(r, "create") /\ UNCHANGED todo
       \/ /\ pc[r] = "retag" /\ Goto(r, "readopt")
          /\ todo' = [todo EXCEPT ![r] = seen[r] \cap Records]
    /\ UNCHANGED <<remote, prepares, policy, draft, seen, sending, writes,
                   fresh, published>>

MayCreate(r) == release = None /\ (prepares[r] \/ PolicyHolds(r))

Create(r) ==
    /\ pc[r] = "create" /\ MayCreate(r)
    /\ release' = [draft |-> TRUE, immutable |-> FALSE, titled |-> TRUE,
                   commit |-> None, assets |-> [n \in Names |-> "absent"]]
    /\ Goto(r, "refind") /\ Stales(r)
    /\ UNCHANGED <<tag, enforced, prepares, policy, locals, writes, published>>

(* prepare_release only looks; the same run comes back to reconcile.       *)
MayFind(r) == /\ StateValid
              /\ IF prepares[r] THEN Present \subseteq Own(r) \cup Records
                                ELSE Listed(r)

Prepared(r) ==
    /\ pc[r] \in {"find", "refind"} /\ prepares[r] /\ MayFind(r)
    /\ prepares' = [prepares EXCEPT ![r] = FALSE]
    /\ Goto(r, "start")
    /\ UNCHANGED <<remote, policy, locals, writes, fresh, published>>

Find(r) ==
    /\ pc[r] \in {"find", "refind"} /\ ~prepares[r] /\ MayFind(r)
    /\ See(r, "adopt", Present \cap Records)
    /\ UNCHANGED <<remote, prepares, policy, sending, writes, published>>

-----------------------------------------------------------------------------
(* The loops over assets: one download each, in any order.                 *)

CheckRecord(r) ==
    /\ pc[r] \in {"adopt", "readopt", "finalAdopt"}
    /\ \E n \in todo[r] : /\ RecordGood(n)
                          /\ todo' = [todo EXCEPT ![r] = @ \ {n}]
    /\ UNCHANGED <<remote, pc, prepares, policy, draft, seen, sending, writes,
                   fresh, published>>

CheckBytes(r) ==
    /\ pc[r] \in {"existing", "recheck", "finalAssets"}
    /\ \E n \in todo[r] : /\ SameBytes(n)
                          /\ todo' = [todo EXCEPT ![r] = @ \ {n}]
    /\ UNCHANGED <<remote, pc, prepares, policy, draft, seen, sending, writes,
                   fresh, published>>

(* A loop that has nothing left goes on to what follows it.                *)
After(r) ==
    CASE pc[r] = "adopt"       -> <<"existing", Own(r) \cap seen[r]>>
      [] pc[r] = "existing"    -> <<"upload", Own(r) \ seen[r]>>
      [] pc[r] = "upload"      -> <<"relook", {}>>
      [] pc[r] = "recheck"     -> <<IF draft[r] THEN "retag" ELSE "finalLook", {}>>
      [] pc[r] = "readopt"     -> <<"publish", {}>>
      [] pc[r] = "finalAdopt"  -> <<"finalAssets", Own(r) \cap seen[r]>>
      [] pc[r] = "finalAssets" -> <<"attest", {}>>

Loops == {"adopt", "existing", "upload", "recheck", "readopt", "finalAdopt",
          "finalAssets"}

LoopEnds(r) ==
    /\ pc[r] \in Loops /\ todo[r] = {}
    /\ Goto(r, After(r)[1])
    /\ todo' = [todo EXCEPT ![r] = After(r)[2]]
    /\ UNCHANGED <<remote, prepares, policy, draft, seen, sending, writes,
                   fresh, published>>

(* A published release needs no record of this run where it holds another  *)
(* run's record of the same package.                                       *)
Served_OwnRecord(r, n) == n \in seen[r]

Served(r, n) == n \in Records /\ \E q \in Runs : <<n[1], q>> \in seen[r]

SkipServed(r) ==
    /\ pc[r] = "upload" /\ ~draft[r]
    /\ \E n \in todo[r] : /\ Served(r, n)
                          /\ todo' = [todo EXCEPT ![r] = @ \ {n}]
    /\ UNCHANGED <<remote, pc, prepares, policy, draft, seen, sending, writes,
                   fresh, published>>

(* The asset is there, unfinished, from the moment the upload starts.      *)
Accepts(n) == release # None /\ ~release.immutable
           /\ release.assets[n] = "absent"

BeginUpload(r) ==
    /\ pc[r] = "upload" /\ draft[r] /\ PolicyHolds(r)
    /\ \E n \in todo[r] :
         /\ Accepts(n)
         /\ release' = With(n, "partial")
         /\ sending' = [sending EXCEPT ![r] = n]
    /\ Goto(r, "uploading") /\ Stales(r)
    /\ UNCHANGED <<tag, enforced, prepares, policy, draft, seen, todo, writes,
                   published>>

Receiving(r) == release # None /\ ~release.immutable
             /\ release.assets[sending[r]] = "partial"

EndUpload(r) ==
    /\ pc[r] = "uploading" /\ Receiving(r)
    /\ release' = With(sending[r], "exact")
    /\ todo' = [todo EXCEPT ![r] = @ \ {sending[r]}]
    /\ sending' = [sending EXCEPT ![r] = None]
    /\ Goto(r, "upload") /\ Stales(r)
    /\ UNCHANGED <<tag, enforced, prepares, policy, draft, seen, writes,
                   published>>

Relook(r) ==
    /\ pc[r] = "relook" /\ Complete(r)
    /\ See(r, "recheck", Own(r) \cap Present)
    /\ UNCHANGED <<remote, prepares, policy, sending, writes, published>>

-----------------------------------------------------------------------------
(* The irreversible step, and what is looked at after it.                  *)

Public == [release EXCEPT !.draft = FALSE, !.immutable = enforced,
                          !.commit = tag]

MayPublish(r) == release # None /\ PolicyHolds(r)

Publish(r) ==
    /\ pc[r] = "publish" /\ MayPublish(r)
    /\ IF release.draft
         THEN /\ release' = Public /\ Stales(r)
              /\ published' = IF fresh[r] THEN "knowingly" ELSE "raced"
         ELSE UNCHANGED <<release, fresh, published>>
    /\ Goto(r, "finalLook")
    /\ UNCHANGED <<tag, enforced, prepares, policy, locals, writes>>

FinalLook_TrustsRecords(r) ==
    /\ pc[r] = "finalLook" /\ Final(r)
    /\ See(r, "finalAssets", Own(r) \cap Present)
    /\ UNCHANGED <<remote, prepares, policy, sending, writes, published>>

FinalLook(r) ==
    /\ pc[r] = "finalLook" /\ Final(r)
    /\ See(r, "finalAdopt", Present \cap Records)
    /\ UNCHANGED <<remote, prepares, policy, sending, writes, published>>

Attest(r) ==
    /\ pc[r] = "attest" /\ Attested
    /\ Goto(r, "verified")
    /\ UNCHANGED <<remote, prepares, policy, locals, writes, fresh, published>>

-----------------------------------------------------------------------------
Progress(r) ==
    \/ Begin(r) \/ FindNothing(r) \/ CheckTag(r) \/ Create(r) \/ Prepared(r)
    \/ Find(r) \/ CheckRecord(r) \/ CheckBytes(r) \/ LoopEnds(r)
    \/ SkipServed(r) \/ BeginUpload(r) \/ EndUpload(r) \/ Relook(r)
    \/ Publish(r) \/ FinalLook(r) \/ Attest(r)

Fails(r) ==
    /\ Goto(r, "failed")
    /\ sending' = [sending EXCEPT ![r] = None]
    /\ UNCHANGED <<remote, prepares, policy, draft, seen, todo, writes, fresh,
                   published>>

(* What makes a check or a call of the run raise where it stands.          *)
Refused(r) ==
    \/ pc[r] \in {"prepare", "start"} /\ ~MayBegin(r)
    \/ pc[r] \in {"tag", "retag"} /\ tag # "promoted"
    \/ pc[r] = "create" /\ ~MayCreate(r)
    \/ pc[r] = "find" /\ release # None /\ ~MayFind(r)
    \/ pc[r] = "refind" /\ ~MayFind(r)
    \/ /\ pc[r] \in {"adopt", "readopt", "finalAdopt"}
       /\ \E n \in todo[r] : ~RecordGood(n)
    \/ /\ pc[r] \in {"existing", "recheck", "finalAssets"}
       /\ \E n \in todo[r] : ~SameBytes(n)
    \/ /\ pc[r] = "upload"
       /\ \E n \in todo[r] : IF draft[r] THEN ~(PolicyHolds(r) /\ Accepts(n))
                                         ELSE ~Served(r, n)
    \/ pc[r] = "uploading" /\ ~Receiving(r)
    \/ pc[r] = "relook" /\ ~Complete(r)
    \/ pc[r] = "publish" /\ ~MayPublish(r)
    \/ pc[r] = "finalLook" /\ ~Final(r)
    \/ pc[r] = "attest" /\ ~Attested

Reject(r) == Refused(r) /\ Fails(r)

(* A command that fails or times out, or a workflow that is cancelled.     *)
BreakOff(r) == r \in Flaky /\ pc[r] \notin {"verified", "failed"} /\ Fails(r)

-----------------------------------------------------------------------------
(* Everyone else: people with access to the draft, the tag or the settings *)
(* of the repository, and the clock of the policy evidence.                *)

Outside == /\ writes < MaxWrites /\ writes' = writes + 1
           /\ UNCHANGED <<pc, prepares, policy, locals>>

EditRelease ==
    /\ Outside /\ release # None /\ ~release.immutable
    /\ \/ /\ \E n \in Names, b \in Bytes :
               release' = With(n, b)
          /\ UNCHANGED published
       \/ /\ release' = Retitled
          /\ UNCHANGED published
       \/ release' = None /\ published' = "no"
       \/ release.draft /\ release' = Public /\ published' = "raced"
    /\ Stales(None)
    /\ UNCHANGED <<tag, enforced>>

MoveTag ==
    /\ Outside /\ tag' \in Commits \ {tag}
    /\ release # None => ~release.immutable
    /\ Stales(None)
    /\ UNCHANGED <<release, enforced, published>>

ChangeSetting ==
    /\ Outside /\ enforced' = ~enforced /\ Stales(None)
    /\ UNCHANGED <<release, tag, published>>

PolicyExpires(r) ==
    /\ policy[r] = "current"
    /\ policy' = [policy EXCEPT ![r] = "expired"]
    /\ UNCHANGED <<remote, pc, prepares, locals, writes, fresh, published>>

Next ==
    \/ \E r \in Runs : Progress(r) \/ Reject(r) \/ BreakOff(r) \/ PolicyExpires(r)
    \/ EditRelease \/ MoveTag \/ ChangeSetting

(* Every command a run starts has a time limit, so a run that does not     *)
(* break off takes its next step or is refused.                            *)
Spec == Init /\ [][Next]_vars
             /\ \A r \in Runs : WF_vars(Progress(r) \/ Reject(r))

-----------------------------------------------------------------------------
TypeOK ==
    /\ release \in Releases \cup {None} /\ tag \in Commits
    /\ enforced \in BOOLEAN
    /\ pc \in [Runs -> PCs] /\ prepares \in [Runs -> BOOLEAN]
    /\ policy \in [Runs -> {"live", "current", "expired"}]
    /\ draft \in [Runs -> BOOLEAN]
    /\ seen \in [Runs -> SUBSET Names] /\ todo \in [Runs -> SUBSET Names]
    /\ sending \in [Runs -> Names \cup {None}]
    /\ writes \in 0..MaxWrites
    /\ fresh \in [Runs -> BOOLEAN]
    /\ published \in {"no", "knowingly", "raced"}

(* From its last lookup on a run looks at something that changes no more.  *)
Closing == {"finalAdopt", "finalAssets", "attest", "verified"}

Frozen(r) ==
    /\ Final(r) /\ seen[r] = Present
    /\ \A n \in Present \cap Records :
         \/ pc[r] = "finalAdopt" /\ n \in todo[r]
         \/ RecordGood(n)
    /\ \A n \in Present \cap Own(r) :
         \/ pc[r] = "finalAdopt"
         \/ pc[r] = "finalAssets" /\ n \in todo[r]
         \/ SameBytes(n)
    /\ pc[r] = "verified" => Attested

(* Every asset that is there is verified, but the one r is sending.        *)
VerifiedSoFar(r) ==
    \A n \in Present \ {sending[r]} :
        IF n \in Own(r) THEN SameBytes(n) ELSE RecordGood(n)

(* Before that, while nobody else has acted, it knows what it has verified *)
(* of the assets it has seen.                                              *)
Known(r) ==
    /\ pc[r] \in {"adopt", "existing"} =>
         seen[r] = Present /\ Present \subseteq Own(r) \cup Records
    /\ pc[r] \in {"adopt", "existing"} =>
         \A n \in Present \cap Records :
            (pc[r] = "adopt" /\ n \in todo[r]) \/ RecordGood(n)
    /\ pc[r] = "existing" =>
         \A n \in Present \cap Own(r) : n \in todo[r] \/ SameBytes(n)
    /\ pc[r] \in {"upload", "uploading"} => VerifiedSoFar(r)
    /\ pc[r] \in {"recheck", "retag", "readopt", "publish"} =>
         /\ Complete(r) /\ seen[r] = Present
         /\ \A n \in Present \cap Own(r) :
              (pc[r] = "recheck" /\ n \in todo[r]) \/ SameBytes(n)
    /\ pc[r] \in {"readopt", "publish"} =>
         /\ tag = "promoted"
         /\ \A n \in Present \cap Records :
              (pc[r] = "readopt" /\ n \in todo[r]) \/ RecordGood(n)

(* The release everybody wants: the promoted commit, every fixed asset     *)
(* byte for byte, a record for each package, and nothing unverified.       *)
Right ==
    /\ release # None /\ ~release.draft /\ release.titled
    /\ release.commit = "promoted"
    /\ Present \subseteq Fixed \cup Records
    /\ \A n \in Fixed : release.assets[n] = "exact"
    /\ \A n \in Present \cap Records : RecordGood(n)
    /\ \A p \in Packages : \E q \in Runs : <<p, q>> \in Present

(* The state is well typed; what a run checks after its last lookup is all *)
(* of the release and still as it was when it was checked; what it checked *)
(* before holds until someone else acts.                                   *)
ReleaseInv ==
    /\ TypeOK
    /\ \A r \in Runs :
         /\ pc[r] \in Closing => Frozen(r)
         /\ fresh[r] => Known(r)
         /\ pc[r] # "uploading" => sending[r] = None
    /\ published = "knowingly" =>
         release # None /\ ~release.draft /\ (release.immutable => Right)

(* A run that reports "Verified immutable GitHub release" is right, and    *)
(* stays right, whoever else edited the draft, moved the tag, published it *)
(* or switched immutability off while the run was at work.                 *)
VerifiedIsRight ==
    \A r \in Runs : pc[r] = "verified" => Right /\ release.immutable

(* Nobody can publish exactly what he verified, as GitHub has no compare-  *)
(* and-finalize; but a run publishes a wrong release only if someone else  *)
(* acted after its second lookup.                                          *)
PublishesWhatItVerified ==
    published = "knowingly" /\ release.immutable => Right

(* "A mismatched partial release must fail without uploading otherwise-    *)
(* missing assets": unless someone else has acted since it looked, a run   *)
(* that uploads has verified every asset that is there.                    *)
UploadsToVerifiedDraft ==
    \A r \in Runs : pc[r] \in {"upload", "uploading"} /\ fresh[r] =>
        VerifiedSoFar(r)

(* A broken run is made good by a later one: a run nobody disturbs, that   *)
(* does not break off itself and whose evidence lasts, verifies the        *)
(* release, whatever earlier runs have left of it, except an upload cut    *)
(* short, which has to be removed by hand.                                 *)
Debris == \E n \in Present : /\ release.assets[n] = "partial"
                             /\ \A r \in Runs : sending[r] # n

Disturbed(r) == ~fresh[r] /\ pc[r] \notin {"prepare", "start"}

ResumesAfterFailure ==
    \A r \in Runs \ Flaky :
        pc[r] = "find" ~>
            \/ pc[r] = "verified"
            \/ Disturbed(r) \/ policy[r] = "expired" \/ writes > 0 \/ Debris
=============================================================================
