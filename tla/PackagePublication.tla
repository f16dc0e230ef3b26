-------------------------- MODULE PackagePublication --------------------------
(* The publication of one version of the package set: packing and checking the archives *)
(* (verify-pack, verify-release-artifact), the preflight of the registry and npm publish *)
(* (check-registry-state), and the verification of what the registry then serves with   *)
(* the records of it (verify-published, npm-release-evidence).                          *)
(*                                                                                      *)
(* The jobs run in this order in a workflow run; a broken run is attempted again, its   *)
(* failed job and what follows or all of it, or replaced by a fresh run.  One attempt   *)
(* runs at a time.  The registry, the workflow that calls the scripts and whoever else  *)
(* publishes are external.  A record of provenance is reduced to who published: the     *)
(* coordinates of an attempt of this workflow at this commit, or Foreign.               *)
EXTENDS Integers, FiniteSets

CONSTANTS N,          \* packages of the set, published in the order 1 .. N
          Bytes,      \* archives a build may give
          Malformed,  \* of these, the ones inspectTarball refuses
          Unusable,   \* and the ones no consumer can import
          Builds,     \* what one build may give for the packages
          NRuns, NAttempts,  \* bounds on the runs and the attempts of each
          NDocs,      \* bound on the changes of npm's answers: none changes after one has changed so often
          Foreign, None

ASSUME PublicationAssumption ==
    /\ N \in Nat \ {0} /\ NRuns \in Nat \ {0} /\ NAttempts \in Nat \ {0} /\ NDocs \in Nat
    /\ Malformed \subseteq Bytes /\ Unusable \subseteq Bytes
    /\ Builds \subseteq [1 .. N -> Bytes]
    /\ None \notin Bytes
    /\ Foreign \notin [run : Nat, attempt : Nat] /\ None \notin [run : Nat, attempt : Nat]
    /\ None \notin [bytes : Bytes, by : [run : Nat, attempt : Nat] \cup {Foreign}]

VARIABLES now,       \* the coordinates of the attempt that runs
          pc, i,     \* the script it is in, and the package that script's loop is at
          status,    \* whether the attempt runs, or how it ended
          build,     \* the bytes the current build gives for each package
          archive,   \* .artifacts: the archive of each package
          evidence,  \* package-evidence.json: the bytes its digests stand for
          state,     \* publish_state: whether the preflight found the version missing
          producer,  \* the attempt whose npm job exported that state
          registry,  \* the version of each package: its bytes and its publisher
          visible,   \* what a reader is served: "hidden", "bare" (no provenance) or "full"
          doc,       \* how often each of npm's answers about it has changed
          read,      \* the answers verify-published has retained of each package
          records,   \* history: the adoption records written
          fixed      \* history: the fixed evidence written

vars == <<now, pc, i, status, build, archive, evidence, state, producer, registry, visible, doc, read,
          records, fixed>>
local == <<now, build, archive, evidence>>
outside == <<registry, visible, doc>>
history == <<records, fixed>>

Packages == 1 .. N
Coordinates == [run : 1 .. NRuns, attempt : 1 .. NAttempts]
VerifyJob == {"pack", "smoke", "check"}
NpmJob == {"preflight", "publish", "export"}
EvidenceJob == {"look", "view", "tarball", "origin", "consumer", "record"}
Scripts == VerifyJob \cup NpmJob \cup EvidenceJob
NothingMissing == [p \in Packages |-> FALSE]

\* The raw answers that are retained as fixed assets: the version document, npm view, the
\* attestations, and npm audit signatures on a tree that has the package installed.
Outputs == {"version", "view", "attestations", "audit"}
Unread == [p \in Packages |-> [o \in Outputs |-> None]]

Init ==
    /\ now = [run |-> 1, attempt |-> 1]
    /\ pc = "pack" /\ i = 1 /\ status = "running"
    /\ build \in Builds
    /\ archive = [p \in Packages |-> None]
    /\ evidence = [p \in Packages |-> None]
    /\ state = NothingMissing
    /\ producer = None
    /\ registry = [p \in Packages |-> None]
    /\ visible = [p \in Packages |-> "hidden"]
    /\ doc = [p \in Packages |-> [o \in Outputs |-> 0]]
    /\ read = Unread
    /\ records = {} /\ fixed = {}

------------------------------------------------------------------------------
(* Control: loops over the package set, and the ways an attempt ends.        *)

At(script) == status = "running" /\ pc = script
Goto(script) == pc' = script /\ i' = 1 /\ status' = status
Step(script) == pc' = script /\ UNCHANGED <<i, status>>
Again(script, after) == IF i < N THEN pc' = script /\ i' = i + 1 /\ status' = status ELSE Goto(after)
End(how) == status' = how /\ UNCHANGED <<pc, i>>
Refuse == End("refused")

------------------------------------------------------------------------------
(* verify-pack and verify-release-artifact.                                  *)

Inspected(b) == b \notin Malformed
Smoke(set) == \A p \in Packages : set[p] \notin Unusable

\* The archive of an earlier pack is removed before this one is made; the evidence of the
\* earlier pack stays until the whole set is packed and a consumer has imported it.
Pack ==
    /\ At("pack")
    /\ IF Inspected(build[i])
       THEN /\ archive' = [archive EXCEPT ![i] = build[i]]
            /\ Again("pack", "smoke")
       ELSE Refuse /\ archive' = [archive EXCEPT ![i] = None]
    /\ UNCHANGED <<now, build, evidence, state, producer, outside, read, history>>

\* SHA256SUMS and package-evidence.json.
PackEvidence ==
    /\ At("smoke")
    /\ IF Smoke(archive)
       THEN evidence' = archive /\ Goto("check")
       ELSE Refuse /\ evidence' = evidence
    /\ UNCHANGED <<now, build, archive, state, producer, outside, read, history>>

CheckArtifact_AnyDigest ==
    /\ At("check")
    /\ IF /\ archive[i] # None /\ evidence[i] # None /\ Inspected(archive[i])
          /\ i = N => Smoke(archive)
       THEN Again("check", "preflight") ELSE Refuse
    /\ UNCHANGED <<local, state, producer, outside, read, history>>

\* Every archive has the digests of the evidence and passes the inspection again; after
\* the last one a consumer imports the set.
CheckArtifact ==
    /\ At("check")
    /\ IF /\ archive[i] # None /\ archive[i] = evidence[i] /\ Inspected(archive[i])
          /\ i = N => Smoke(archive)
       THEN Again("check", "preflight") ELSE Refuse
    /\ UNCHANGED <<local, state, producer, outside, read, history>>

------------------------------------------------------------------------------
(* check-registry-state and npm publish.                                     *)

Preflight_OneByOne ==
    /\ At("preflight")
    /\ IF visible[i] = "hidden"
       THEN state' = [state EXCEPT ![i] = TRUE] /\ Goto("publish")
       ELSE IF registry[i].bytes = archive[i]
       THEN state' = [state EXCEPT ![i] = FALSE] /\ Again("preflight", "publish")
       ELSE state' = state /\ Refuse
    /\ UNCHANGED <<local, producer, outside, read, history>>

\* A version that is served must have the reviewed integrity and bytes; who published it
\* is not asked here.
Preflight ==
    /\ At("preflight")
    /\ IF visible[i] = "hidden"
       THEN state' = [state EXCEPT ![i] = TRUE] /\ Again("preflight", "publish")
       ELSE IF registry[i].bytes = evidence[i] /\ registry[i].bytes = archive[i]
       THEN state' = [state EXCEPT ![i] = FALSE] /\ Again("preflight", "publish")
       ELSE state' = state /\ Refuse
    /\ UNCHANGED <<local, producer, outside, read, history>>

Versions(p, by) == [registry EXCEPT ![p] = [bytes |-> archive[p], by |-> by]]

\* npm publish takes effect, and reports it or not.
NpmPublish ==
    /\ At("publish") /\ state[i] /\ registry[i] = None
    /\ registry' = Versions(i, now)
    /\ \/ Again("publish", "export")
       \/ End("broken")
    /\ UNCHANGED <<local, state, producer, visible, doc, read, history>>

SkipPublish ==
    /\ At("publish") /\ ~state[i]
    /\ Again("publish", "export")
    /\ UNCHANGED <<local, state, producer, outside, read, history>>

\* The outputs of the job outlive the attempt.
Export ==
    /\ At("export")
    /\ producer' = now
    /\ Goto("look")
    /\ UNCHANGED <<local, state, outside, read, history>>

------------------------------------------------------------------------------
(* verify-published.                                                         *)

NormalizedState_AnyAttempt == state

\* What another attempt published is adopted, not published, by this one.
NormalizedState == [p \in Packages |-> state[p] /\ producer = now]

Retain(o) == read' = [read EXCEPT ![i][o] = doc[i][o]]

\* Until the version and its provenance are visible the script asks again.
Look ==
    /\ At("look")
    /\ visible[i] # "hidden"
    /\ IF registry[i].bytes # evidence[i] THEN Refuse /\ read' = read
       ELSE /\ visible[i] = "full"
            /\ Retain("version")
            /\ Step("view")
    /\ UNCHANGED <<local, state, producer, outside, history>>

ReadView ==
    /\ At("view")
    /\ Retain("view")
    /\ Step("tarball")
    /\ UNCHANGED <<local, state, producer, outside, history>>

CompareTarball ==
    /\ At("tarball")
    /\ IF registry[i].bytes = archive[i] THEN Step("origin") ELSE Refuse
    /\ UNCHANGED <<local, state, producer, outside, read, history>>

\* The statement and its certificate name this repository, workflow, commit and event.
Bound(p) == registry[p].by # Foreign

CurrentOrigin(p) == NormalizedState[p] => registry[p].by = now

\* The attestations; then the served archive is inspected.
CheckOrigin ==
    /\ At("origin")
    /\ IF Bound(i) /\ CurrentOrigin(i) /\ Inspected(registry[i].bytes)
       THEN Step("consumer") /\ Retain("attestations")
       ELSE Refuse /\ read' = read
    /\ UNCHANGED <<local, state, producer, outside, history>>

\* A consumer with nothing but the registry installs the version, imports it and has npm
\* audit the signatures.
VerifyConsumer ==
    /\ At("consumer")
    /\ IF registry[i].bytes \notin Unusable
       THEN Again("look", "record") /\ Retain("audit")
       ELSE Refuse /\ read' = read
    /\ UNCHANGED <<local, state, producer, outside, history>>

Mode_Exported(p) == IF state[p] THEN "published" ELSE "adopted_existing"
Mode(p) == IF NormalizedState[p] THEN "published" ELSE "adopted_existing"

\* Its digest of the manifest is that of the attempt's own fixed assets and is left out.
AdoptionRecord(p) == [package |-> p, bytes |-> evidence[p], provenance |-> registry[p].by,
                      adoption |-> now, mode |-> Mode(p)]

\* The retained answers, and the registry manifest and post-publish evidence that hold
\* their digests.  The evidence always says "published".
Manifest == [p \in Packages |-> [bytes |-> evidence[p], provenance |-> registry[p].by,
                                 mode |-> "published", retained |-> read[p]]]

Record ==
    /\ At("record")
    /\ records' = records \cup {AdoptionRecord(p) : p \in Packages}
    /\ fixed' = fixed \cup {[at |-> now, manifest |-> Manifest]}
    /\ End("done")
    /\ UNCHANGED <<local, state, producer, outside, read>>

------------------------------------------------------------------------------
(* Failures, attempts, and the registry.                                     *)

\* What a script that is cut off may leave of the archive or the evidence it writes: the
\* old one, none, or part of the new one, which passes no inspection.
CutOff ==
    /\ IF pc = "pack" THEN \E b \in Malformed \cup {None, archive[i]} : archive' = [archive EXCEPT ![i] = b]
                      ELSE archive' = archive
    /\ IF pc = "smoke" THEN evidence' \in {evidence, [p \in Packages |-> None]} ELSE evidence' = evidence

\* A runner dies, the registry answers with an error or not in time, npm reports a
\* conflict: the job fails.
BreakOff ==
    /\ status = "running"
    /\ End("broken")
    /\ CutOff
    /\ UNCHANGED <<now, build, state, producer, outside, read, history>>

Start(script) ==
    /\ pc' = script /\ i' = 1 /\ status' = "running"
    /\ read' = Unread
    /\ UNCHANGED <<archive, evidence, outside, history>>

MayAttempt == status # "running" /\ now.attempt < NAttempts
NextAttempt == now' = [now EXCEPT !.attempt = now.attempt + 1]

\* Jobs are run again from the one that failed, the last one also when what it does after
\* the records failed: earlier ones keep their outputs.  The
\* check of the artifact is a command of its own that takes what .artifacts holds.
RerunFailed ==
    /\ MayAttempt /\ NextAttempt
    /\ \/ pc \in VerifyJob /\ (\E script \in {"pack", "check"} : Start(script)) /\ state' = state
       \/ pc \in NpmJob /\ Start("preflight") /\ state' = NothingMissing
       \/ pc \in EvidenceJob /\ Start("look") /\ state' = state
    /\ UNCHANGED <<build, producer>>

\* Everything is built again.
Afresh ==
    /\ build' \in Builds
    /\ state' = NothingMissing
    /\ producer' = None
    /\ Start("pack")

RerunAll == MayAttempt /\ NextAttempt /\ Afresh

\* A fresh run.
Dispatch ==
    /\ status # "running" /\ now.run < NRuns
    /\ now' = [run |-> now.run + 1, attempt |-> 1]
    /\ Afresh

\* Someone else publishes the version.
PublishedElsewhere(p) ==
    /\ registry[p] = None
    /\ \E b \in Bytes : registry' = [registry EXCEPT ![p] = [bytes |-> b, by |-> Foreign]]
    /\ UNCHANGED <<now, pc, i, status, build, archive, evidence, state, producer, visible, doc, read, history>>

\* A version becomes visible, later its provenance; what has none stays bare.
Propagate(p) ==
    /\ registry[p] # None
    /\ \/ visible[p] = "hidden" /\ visible' = [visible EXCEPT ![p] = "bare"]
       \/ visible[p] = "bare" /\ visible' = [visible EXCEPT ![p] = "full"]
    /\ UNCHANGED <<now, pc, i, status, build, archive, evidence, state, producer, registry, doc, read, history>>

\* A tag moves or the version is deprecated, an attestation is added, a package installed
\* beside this one is signed anew: one of npm's answers about the version changes.
DocumentChanges(p) ==
    /\ visible[p] # "hidden"
    /\ \A q \in Packages, o \in Outputs : doc[q][o] < NDocs
    /\ \E o \in Outputs : doc' = [doc EXCEPT ![p][o] = @ + 1]
    /\ UNCHANGED <<now, pc, i, status, build, archive, evidence, state, producer, registry, visible, read, history>>

Next ==
    \/ Pack \/ PackEvidence \/ CheckArtifact
    \/ Preflight \/ NpmPublish \/ SkipPublish \/ Export
    \/ Look \/ ReadView \/ CompareTarball \/ CheckOrigin \/ VerifyConsumer \/ Record
    \/ BreakOff \/ RerunFailed \/ RerunAll \/ Dispatch
    \/ \E p \in Packages : PublishedElsewhere(p) \/ Propagate(p) \/ DocumentChanges(p)

Spec == Init /\ [][Next]_vars

------------------------------------------------------------------------------
(* Properties.                                                               *)

Registered(b, by) == [bytes |-> b, by |-> by]
TypeOK ==
    /\ now \in Coordinates
    /\ pc \in Scripts /\ i \in Packages
    /\ status \in {"running", "done", "refused", "broken"}
    /\ build \in Builds
    /\ archive \in [Packages -> Bytes \cup {None}]
    /\ evidence \in [Packages -> Bytes \cup {None}]
    /\ state \in [Packages -> BOOLEAN]
    /\ producer \in Coordinates \cup {None}
    /\ registry \in [Packages -> [bytes : Bytes, by : Coordinates \cup {Foreign}] \cup {None}]
    /\ visible \in [Packages -> {"hidden", "bare", "full"}]
    /\ doc \in [Packages -> [Outputs -> 0 .. NDocs]]
    /\ read \in [Packages -> [Outputs -> 0 .. NDocs \cup {None}]]

\* As far as the check has come, the evidence vouches for the archives.
Handoff ==
    /\ pc = "pack" => \A p \in 1 .. i - 1 : archive[p] # None /\ Inspected(archive[p])
    /\ pc = "smoke" => \A p \in Packages : archive[p] # None /\ Inspected(archive[p])
    /\ \A p \in Packages : evidence[p] # None =>
          Inspected(evidence[p]) /\ (\A q \in Packages : evidence[q] # None) /\ Smoke(evidence)
    /\ pc = "check" => \A p \in 1 .. i - 1 : archive[p] = evidence[p] /\ archive[p] # None
    /\ pc \notin VerifyJob => \A p \in Packages : archive[p] = evidence[p] /\ archive[p] # None

Later(c, d) == c.run > d.run \/ (c.run = d.run /\ c.attempt > d.attempt)

\* A version this workflow published passed every check of the archive; one the present
\* attempt published is one its preflight found missing and its outputs say it published.
OwnVersions ==
    \A p \in Packages : registry[p] # None /\ registry[p].by # Foreign =>
        /\ registry[p].bytes \notin Malformed \cup Unusable
        /\ registry[p].by = now \/ Later(now, registry[p].by)
        /\ registry[p].by = now =>
              /\ pc \in (NpmJob \cup EvidenceJob) \ {"preflight"}
              /\ state[p]
              /\ (pc \in EvidenceJob => producer = now)

\* What is handed to npm is the set that was packed, inspected, imported by a consumer and
\* digested, whichever script was broken off and started again, and publish_state agrees
\* with the registry.
PubInv == TypeOK /\ Handoff /\ OwnVersions

\* An adoption record tells the truth about the registry: those bytes, that publisher,
\* which is an attempt of this workflow; and it says "published" if and only if that is
\* the attempt that wrote the record, though the registry is slow, jobs are run again
\* without the npm job, and a publication may be reported as a failure
\* (npm-release-evidence.mjs buildAdoptionRecord, docs/releasing.md).
RecordsTrue ==
    \A r \in records :
        /\ registry[r.package] = Registered(r.bytes, r.provenance)
        /\ r.provenance # Foreign
        /\ (r.mode = "published") <=> (r.provenance = r.adoption)

\* After the archives have been checked an attempt is refused only for what others did
\* or what was built differently: a version of other bytes or of a stranger.  What an
\* earlier attempt published and left is never a cause (verify-published.mjs 89-92, 155-159).
RefusesOnlyForCause ==
    status = "refused" /\ pc \notin VerifyJob =>
        \E p \in Packages : registry[p] # None /\ (registry[p].bytes # archive[p] \/ registry[p].by = Foreign)

\* No package is published into a set that cannot be completed: every other version the
\* registry has is the reviewed archive, unless the registry did not show it yet when the
\* preflight asked (check-registry-state.mjs 26-60 before the first npm publish).
PreflightsWholeSet ==
    [][\A p \in Packages : registry[p] = None /\ registry'[p] # None /\ registry'[p].by # Foreign =>
          \A q \in Packages : registry[q] # None /\ registry[q].bytes # archive[q] => state[q]]_vars

Facts(entry) == <<entry.bytes, entry.provenance, entry.mode>>

\* What the fixed assets of two attempts, or two runs, say of a package themselves is the
\* same, whether they published or adopted it, and fits every adoption record; they may
\* differ in the answers they retain (verify-published.mjs 223-236).
FixedFactsStable ==
    /\ \A f, g \in fixed, p \in Packages : Facts(f.manifest[p]) = Facts(g.manifest[p])
    /\ \A f \in fixed, r \in records :
          /\ f.manifest[r.package].bytes = r.bytes
          /\ f.manifest[r.package].provenance = r.provenance

\* "This keeps every fixed asset byte-stable across a valid retry" (docs/releasing.md
\* 486-487): any two attempts that succeed write the same fixed assets.  They retain what
\* npm answers them (verify-published.mjs 191-203).
FixedAssetsByteStable == \A f, g \in fixed : f.manifest = g.manifest

=============================================================================
