----------------------- MODULE ReleaseReconcile_proofs -----------------------
(***************************************************************************)
(* Proofs about ReleaseReconcile, for any number of runs, assets, packages *)
(* and steps of other people: a run that reports a verified release is     *)
(* right, it publishes nothing wrong unless someone acted in between, and  *)
(* it uploads only to a draft it has verified.                             *)
(***************************************************************************)
EXTENDS ReleaseReconcile, TLAPS

USE NamesAssumption, BoundAssumption, NoneAssumption

\* A step of one run, of its policy evidence included.
RunStep(r) == Progress(r) \/ Reject(r) \/ BreakOff(r) \/ PolicyExpires(r)
OutsideStep == EditRelease \/ MoveTag \/ ChangeSetting

\* Every step is of one run or of others.
LEMMA Steps == Next <=> (\E r \in Runs : RunStep(r)) \/ OutsideStep
  BY DEF Next, RunStep, OutsideStep

-----------------------------------------------------------------------------
(* Types.                                                                  *)

\* A run that has not begun has its types.
LEMMA InitType == Init => TypeOK
<1> SUFFICES ASSUME Init PROVE TypeOK
  OBVIOUS
<1>1. pc \in [Runs -> PCs]
  BY DEF Init, PCs
<1>2. policy \in [Runs -> {"live", "current", "expired"}] /\ tag \in Commits
  BY DEF Init, Commits
<1>3. writes \in 0..MaxWrites
  BY DEF Init
<1> QED BY <1>1, <1>2, <1>3 DEF Init, TypeOK

\* What publishing, retitling or an upload makes of a release is a release.
LEMMA ReleaseTypes ==
  ASSUME release \in Releases, tag \in Commits, enforced \in BOOLEAN
  PROVE  /\ Public \in Releases
         /\ Retitled \in Releases
         /\ \A n, b : b \in Bytes => With(n, b) \in Releases
  BY DEF Releases, Public, With, Retitled

\* What a run takes from a lookup has its types.
LEMMA LookType ==
  ASSUME TypeOK, NEW r \in Runs, NEW place \in PCs, NEW work \in SUBSET Names,
         release # None, See(r, place, work)
  PROVE  /\ pc' \in [Runs -> PCs] /\ draft' \in [Runs -> BOOLEAN]
         /\ seen' \in [Runs -> SUBSET Names] /\ todo' \in [Runs -> SUBSET Names]
         /\ fresh' \in [Runs -> BOOLEAN]
  BY DEF TypeOK, See, Goto, Present, Releases

\* Each loop over assets is followed by a step and its assets.
LEMMA AfterType ==
  ASSUME NEW r \in Runs, pc[r] \in Loops
  PROVE  After(r)[1] \in PCs /\ After(r)[2] \in SUBSET Names
  BY DEF Loops, After, PCs, Own, Names, Records

\* A run's step keeps the types.
LEMMA ProgressType ==
  ASSUME TypeOK, NEW r \in Runs, Progress(r)
  PROVE  TypeOK'
<1>r. Present \subseteq Names /\ Own(r) \subseteq Names /\ Records \subseteq Names
  BY DEF Present, Own, Names, Records
<1>1. CASE Begin(r)
  BY <1>1 DEF Begin, TypeOK, Goto, remote, locals, PCs
<1>2. CASE FindNothing(r)
  BY <1>2 DEF FindNothing, TypeOK, Goto, remote, locals, PCs
<1>3. CASE CheckTag(r)
  BY <1>3, <1>r DEF CheckTag, TypeOK, Goto, remote, PCs
<1>4. CASE Create(r)
  <2>1. release' \in Releases
    BY <1>4 DEF Create, Releases, Bytes
  <2> QED BY <1>4, <2>1 DEF Create, TypeOK, Goto, Stales, locals, PCs
<1>5. CASE Prepared(r)
  BY <1>5 DEF Prepared, TypeOK, Goto, remote, locals, PCs
<1>6. CASE Find(r)
  <2>1. release # None /\ See(r, "adopt", Present \cap Records)
    BY <1>6 DEF Find, MayFind, StateValid
  <2>2. "adopt" \in PCs /\ Present \cap Records \in SUBSET Names
    BY <1>r DEF PCs
  <2> QED BY <1>6, <2>1, <2>2, LookType DEF Find, TypeOK, remote
<1>7. CASE CheckRecord(r)
  BY <1>7 DEF CheckRecord, TypeOK, remote
<1>8. CASE CheckBytes(r)
  BY <1>8 DEF CheckBytes, TypeOK, remote
<1>9. CASE LoopEnds(r)
  BY <1>9, AfterType DEF LoopEnds, TypeOK, Goto, remote
<1>10. CASE SkipServed(r)
  BY <1>10 DEF SkipServed, TypeOK, remote
<1>11. CASE BeginUpload(r)
  <2>1. PICK n \in todo[r] : Accepts(n) /\ release' = With(n, "partial")
                             /\ sending' = [sending EXCEPT ![r] = n]
    BY <1>11 DEF BeginUpload
  <2>2. release \in Releases /\ "partial" \in Bytes /\ n \in Names
    BY <2>1 DEF TypeOK, Accepts, Bytes
  <2>3. release' \in Releases
    BY <2>1, <2>2, ReleaseTypes DEF TypeOK
  <2> QED BY <1>11, <2>1, <2>2, <2>3 DEF BeginUpload, TypeOK, Goto, Stales, PCs
<1>12. CASE EndUpload(r)
  <2>1. release' \in Releases
    BY <1>12, ReleaseTypes DEF EndUpload, TypeOK, Receiving, Bytes
  <2> QED BY <1>12, <2>1 DEF EndUpload, TypeOK, Goto, Stales, PCs
<1>13. CASE Relook(r)
  <2>1. release # None /\ See(r, "recheck", Own(r) \cap Present)
    BY <1>13 DEF Relook, Complete, Listed
  <2>2. "recheck" \in PCs /\ Own(r) \cap Present \in SUBSET Names
    BY <1>r DEF PCs
  <2> QED BY <1>13, <2>1, <2>2, LookType DEF Relook, TypeOK, remote
<1>14. CASE Publish(r)
  <2>1. release' \in Releases
    BY <1>14, ReleaseTypes DEF Publish, MayPublish, TypeOK
  <2>2. fresh' \in [Runs -> BOOLEAN] /\ published' \in {"no", "knowingly", "raced"}
    <3>1. CASE ~release.draft
      BY <1>14, <3>1 DEF Publish, TypeOK
    <3>2. CASE release.draft
      <4>1. published' \in {"knowingly", "raced"} /\ Stales(r)
        BY <1>14, <3>2 DEF Publish
      <4> QED BY <4>1 DEF TypeOK, Stales
    <3> QED BY <3>1, <3>2
  <2>3. pc' \in [Runs -> PCs]
    BY <1>14 DEF Publish, TypeOK, Goto, PCs
  <2> QED BY <1>14, <2>1, <2>2, <2>3 DEF Publish, TypeOK, locals
<1>15. CASE FinalLook(r)
  <2>1. release # None /\ See(r, "finalAdopt", Present \cap Records)
    BY <1>15 DEF FinalLook, Final, StateValid
  <2>2. "finalAdopt" \in PCs /\ Present \cap Records \in SUBSET Names
    BY <1>r DEF PCs
  <2> QED BY <1>15, <2>1, <2>2, LookType DEF FinalLook, TypeOK, remote
<1>16. CASE Attest(r)
  BY <1>16 DEF Attest, TypeOK, Goto, remote, locals, PCs
<1> QED BY <1>1, <1>2, <1>3, <1>4, <1>5, <1>6, <1>7, <1>8, <1>9, <1>10, <1>11,
           <1>12, <1>13, <1>14, <1>15, <1>16 DEF Progress

\* What others do keeps the types.
LEMMA OutsideType ==
  ASSUME TypeOK, OutsideStep
  PROVE  TypeOK'
<1>1. writes' \in 0..MaxWrites
  BY DEF OutsideStep, EditRelease, MoveTag, ChangeSetting, Outside, TypeOK
<1>2. fresh' \in [Runs -> BOOLEAN]
  BY DEF OutsideStep, EditRelease, MoveTag, ChangeSetting, Stales, TypeOK
<1>3. CASE EditRelease
  <2>1. release' \in Releases \cup {None}
    <3>1. release \in Releases
      BY <1>3 DEF EditRelease, TypeOK
    <3> HIDE DEF Releases
    <3>2. \/ \E n, b : b \in Bytes /\ release' = With(n, b)
          \/ release' = Retitled
          \/ release' = None
          \/ release' = Public
      BY <1>3 DEF EditRelease
    <3>3. CASE \E n, b : b \in Bytes /\ release' = With(n, b)
      BY <3>1, <3>3, ReleaseTypes DEF TypeOK
    <3>4. CASE release' = Retitled
      BY <3>1, <3>4, ReleaseTypes DEF TypeOK
    <3>5. CASE release' = Public
      BY <3>1, <3>5, ReleaseTypes DEF TypeOK
    <3> QED BY <3>2, <3>3, <3>4, <3>5
  <2>2. published' \in {"no", "knowingly", "raced"}
    BY <1>3 DEF EditRelease, TypeOK
  <2> QED BY <1>3, <1>1, <1>2, <2>1, <2>2 DEF EditRelease, Outside, TypeOK, locals
<1>4. CASE MoveTag
  BY <1>4, <1>1, <1>2 DEF MoveTag, Outside, TypeOK, locals
<1>5. CASE ChangeSetting
  BY <1>5, <1>1, <1>2 DEF ChangeSetting, Outside, TypeOK, locals
<1> QED BY <1>3, <1>4, <1>5 DEF OutsideStep

\* Every step keeps the types.
LEMMA TypeStep == TypeOK /\ [Next]_vars => TypeOK'
<1> SUFFICES ASSUME TypeOK, [Next]_vars PROVE TypeOK'
  OBVIOUS
<1>1. CASE UNCHANGED vars
  BY <1>1 DEF vars, TypeOK
<1>2. ASSUME NEW r \in Runs, RunStep(r) PROVE TypeOK'
  <2>1. CASE Reject(r) \/ BreakOff(r)
    BY <2>1 DEF Reject, BreakOff, Fails, TypeOK, Goto, remote, PCs
  <2>2. CASE PolicyExpires(r)
    BY <2>2 DEF PolicyExpires, TypeOK, remote, locals
  <2> QED BY <1>2, <2>1, <2>2, ProgressType DEF RunStep
<1> QED BY <1>1, <1>2, Steps, OutsideType

-----------------------------------------------------------------------------
(* Who changes what.                                                       *)

\* What the invariant says of one run, and of the publication.
RunInv(r) == /\ pc[r] \in Closing => Frozen(r)
             /\ fresh[r] => Known(r)
             /\ pc[r] # "uploading" => sending[r] = None
PublishedInv == published = "knowingly" =>
    release # None /\ ~release.draft /\ (release.immutable => Right)

\* The invariant, run by run.
LEMMA Parts == ReleaseInv <=> TypeOK /\ (\A r \in Runs : RunInv(r)) /\ PublishedInv
  BY DEF ReleaseInv, RunInv, PublishedInv

\* A run leaves the others where they are, and what it changes they know of.
LEMMA Apart ==
  ASSUME TypeOK, NEW q \in Runs, NEW r \in Runs, q # r, RunStep(q)
  PROVE  /\ pc'[r] = pc[r] /\ seen'[r] = seen[r] /\ todo'[r] = todo[r]
         /\ sending'[r] = sending[r]
         /\ fresh'[r] => fresh[r] /\ release' = release /\ tag' = tag
<1>1. CASE Reject(q) \/ BreakOff(q) \/ PolicyExpires(q)
  BY <1>1 DEF Reject, BreakOff, PolicyExpires, Fails, Goto, TypeOK, remote, locals
<1>2. CASE Begin(q) \/ FindNothing(q) \/ CheckTag(q) \/ Create(q) \/ Prepared(q)
  BY <1>2 DEF Begin, FindNothing, CheckTag, Create, Prepared, Goto, Stales, TypeOK,
              remote, locals
<1>3. CASE Find(q) \/ Relook(q) \/ FinalLook(q)
  BY <1>3 DEF Find, Relook, FinalLook, See, Goto, TypeOK, remote
<1>4. CASE CheckRecord(q) \/ CheckBytes(q) \/ SkipServed(q)
  BY <1>4 DEF CheckRecord, CheckBytes, SkipServed, TypeOK, remote
<1>5. CASE LoopEnds(q)
  BY <1>5 DEF LoopEnds, Goto, TypeOK, remote
<1>6. CASE BeginUpload(q) \/ EndUpload(q)
  BY <1>6 DEF BeginUpload, EndUpload, Goto, Stales, TypeOK
<1>7. CASE Publish(q) \/ Attest(q)
  BY <1>7 DEF Publish, Attest, Goto, Stales, TypeOK, remote, locals
<1> QED BY <1>1, <1>2, <1>3, <1>4, <1>5, <1>6, <1>7 DEF RunStep, Progress

\* People leave the runs where they are, and every run's picture is stale.
LEMMA Outsiders ==
  ASSUME TypeOK, NEW r \in Runs, OutsideStep
  PROVE  /\ pc'[r] = pc[r] /\ seen'[r] = seen[r] /\ todo'[r] = todo[r]
         /\ sending'[r] = sending[r] /\ ~fresh'[r]
  BY DEF OutsideStep, EditRelease, MoveTag, ChangeSetting, Outside, Stales, TypeOK, locals

\* A published immutable release changes no more.
LEMMA Unmoved ==
  ASSUME TypeOK, release # None, ~release.draft, release.immutable, [Next]_vars
  PROVE  release' = release
<1>1. CASE UNCHANGED vars
  BY <1>1 DEF vars
<1>2. CASE OutsideStep
  BY <1>2 DEF OutsideStep, EditRelease, MoveTag, ChangeSetting
<1>3. ASSUME NEW q \in Runs, RunStep(q) PROVE release' = release
  <2>1. CASE Reject(q) \/ BreakOff(q) \/ PolicyExpires(q)
    BY <2>1 DEF Reject, BreakOff, PolicyExpires, Fails, remote
  <2>2. CASE Begin(q) \/ FindNothing(q) \/ CheckTag(q) \/ Create(q) \/ Prepared(q)
    BY <2>2 DEF Begin, FindNothing, CheckTag, Create, MayCreate, Prepared, remote
  <2>3. CASE Find(q) \/ Relook(q) \/ FinalLook(q) \/ LoopEnds(q)
    BY <2>3 DEF Find, Relook, FinalLook, LoopEnds, remote
  <2>4. CASE CheckRecord(q) \/ CheckBytes(q) \/ SkipServed(q)
    BY <2>4 DEF CheckRecord, CheckBytes, SkipServed, remote
  <2>5. CASE BeginUpload(q) \/ EndUpload(q)
    BY <2>5 DEF BeginUpload, EndUpload, Accepts, Receiving
  <2>6. CASE Publish(q) \/ Attest(q)
    BY <2>6 DEF Publish, Attest, remote
  <2> QED BY <1>3, <2>1, <2>2, <2>3, <2>4, <2>5, <2>6 DEF RunStep, Progress
<1> QED BY <1>1, <1>2, <1>3, Steps

\* A release that a run takes for final is published and immutable.
LEMMA FinalIsImmutable ==
  ASSUME TypeOK, NEW r \in Runs, Final(r)
  PROVE  release # None /\ ~release.draft /\ release.immutable
  BY DEF Final, StateValid, TypeOK, Releases

\* What a run knows stays true while what it speaks of stays as it is.
LEMMA FrozenKept ==
  ASSUME NEW r \in Runs, Frozen(r), release' = release, pc'[r] = pc[r],
         seen'[r] = seen[r], todo'[r] = todo[r]
  PROVE  Frozen(r)'
  BY DEF Frozen, Final, StateValid, Complete, Listed, Covers, Present, RecordGood,
         SameBytes, Attested

\* What a run knows stays true while neither the release nor the run changes.
LEMMA KnownKept ==
  ASSUME NEW r \in Runs, Known(r), release' = release, tag' = tag, pc'[r] = pc[r],
         seen'[r] = seen[r], todo'[r] = todo[r], sending'[r] = sending[r]
  PROVE  Known(r)'
  BY DEF Known, VerifiedSoFar, Complete, Listed, Covers, Present, RecordGood, SameBytes

-----------------------------------------------------------------------------
(* What a run knows after its own steps.                                   *)

\* Everything that speaks of the release alone is unchanged with it.
LEMMA SameRelease ==
  ASSUME release' = release
  PROVE  /\ Present' = Present /\ Attested' = Attested
         /\ \A n : RecordGood(n)' = RecordGood(n) /\ SameBytes(n)' = SameBytes(n)
         /\ \A r : Complete(r)' = Complete(r) /\ Final(r)' = Final(r)
  BY DEF Present, Attested, RecordGood, SameBytes, Complete, Final, StateValid, Listed,
         Covers

\* A run's own step keeps what it has verified of a published release.
LEMMA FrozenOwnStep ==
  ASSUME TypeOK, NEW r \in Runs, Progress(r), pc[r] \in Closing => Frozen(r),
         pc'[r] \in Closing
  PROVE  Frozen(r)'
<1>1. CASE FinalLook(r)
  <2>1. release' = release /\ pc'[r] = "finalAdopt" /\ seen'[r] = Present
        /\ todo'[r] = Present \cap Records /\ Final(r)
    BY <1>1 DEF FinalLook, See, Goto, TypeOK, remote
  <2> QED BY <2>1, SameRelease DEF Frozen
<1>2. CASE CheckRecord(r)
  <2>1. PICK n \in todo[r] : RecordGood(n) /\ todo' = [todo EXCEPT ![r] = @ \ {n}]
    BY <1>2 DEF CheckRecord
  <2>2. release' = release /\ pc'[r] = pc[r] /\ seen'[r] = seen[r]
        /\ todo'[r] = todo[r] \ {n} /\ Frozen(r) /\ pc[r] = "finalAdopt"
    BY <1>2, <2>1 DEF CheckRecord, TypeOK, remote, Closing
  <2> QED BY <2>1, <2>2, SameRelease DEF Frozen
<1>3. CASE CheckBytes(r)
  <2>1. PICK n \in todo[r] : SameBytes(n) /\ todo' = [todo EXCEPT ![r] = @ \ {n}]
    BY <1>3 DEF CheckBytes
  <2>2. release' = release /\ pc'[r] = pc[r] /\ seen'[r] = seen[r]
        /\ todo'[r] = todo[r] \ {n} /\ Frozen(r) /\ pc[r] = "finalAssets"
    BY <1>3, <2>1 DEF CheckBytes, TypeOK, remote, Closing
  <2> QED BY <2>1, <2>2, SameRelease DEF Frozen
<1>4. CASE LoopEnds(r)
  <2>1. release' = release /\ seen'[r] = seen[r] /\ pc'[r] = After(r)[1]
        /\ todo'[r] = After(r)[2] /\ todo[r] = {} /\ pc[r] \in Loops
    BY <1>4 DEF LoopEnds, Goto, TypeOK, remote
  <2>2. \/ pc[r] = "finalAdopt" /\ pc'[r] = "finalAssets" /\ todo'[r] = Own(r) \cap seen[r]
        \/ pc[r] = "finalAssets" /\ pc'[r] = "attest"
    BY <2>1 DEF After, Loops, Closing
  <2> QED BY <2>1, <2>2, SameRelease DEF Frozen, Closing
<1>5. CASE Attest(r)
  <2>1. release' = release /\ seen'[r] = seen[r] /\ pc[r] = "attest"
        /\ pc'[r] = "verified" /\ Attested
    BY <1>5 DEF Attest, Goto, TypeOK, remote, locals
  <2> QED BY <2>1, SameRelease DEF Frozen, Closing
<1>6. CASE Begin(r) \/ FindNothing(r) \/ CheckTag(r) \/ Create(r) \/ Prepared(r)
  BY <1>6 DEF Begin, FindNothing, CheckTag, Create, Prepared, Goto, TypeOK, Closing
<1>7. CASE Find(r) \/ Relook(r)
  BY <1>7 DEF Find, Relook, See, Goto, TypeOK, Closing
<1>8. CASE SkipServed(r) \/ BeginUpload(r) \/ EndUpload(r) \/ Publish(r)
  BY <1>8 DEF SkipServed, BeginUpload, EndUpload, Publish, Goto, TypeOK, Closing
<1> QED BY <1>1, <1>2, <1>3, <1>4, <1>5, <1>6, <1>7, <1>8 DEF Progress

\* With changes the bytes under one name and nothing else.
LEMMA WithBytes ==
  ASSUME release \in Releases, NEW n \in Names, NEW b \in Bytes, release' = With(n, b)
  PROVE  /\ \A m \in Names : release'.assets[m] = IF m = n THEN b ELSE release.assets[m]
         /\ release'.draft = release.draft /\ release'.immutable = release.immutable
         /\ release' # None
<1>1. release' \in Releases
  BY ReleaseTypes DEF Releases, With, Bytes
<1> QED BY <1>1 DEF Releases, With

\* A run's own step keeps what it has verified of a draft nobody else has touched.
LEMMA KnownOwnStep ==
  ASSUME TypeOK, NEW r \in Runs, Progress(r), RunInv(r), fresh'[r]
  PROVE  Known(r)'
<1>p. Present \subseteq Names /\ (pc[r] # "uploading" => sending[r] = None)
  BY DEF Present, RunInv
<1>1. CASE Begin(r) \/ FindNothing(r) \/ Create(r) \/ Prepared(r) \/ Publish(r) \/ Attest(r)
  <2>1. pc'[r] \in {"find", "tag", "refind", "start", "finalLook", "verified"}
    BY <1>1 DEF Begin, FindNothing, Create, Prepared, Publish, Attest, Goto, TypeOK
  <2> QED BY <2>1 DEF Known
<1>2. CASE CheckTag(r)
  <2>1. release' = release /\ seen'[r] = seen[r] /\ fresh[r] /\ tag' = "promoted"
    BY <1>2 DEF CheckTag, TypeOK, remote
  <2>2. CASE pc[r] = "tag"
    <3>1. pc'[r] = "create"
      BY <1>2, <2>2 DEF CheckTag, Goto, TypeOK
    <3> QED BY <3>1 DEF Known
  <2>3. CASE pc[r] = "retag"
    <3>1. pc'[r] = "readopt" /\ todo'[r] = seen[r] \cap Records
      BY <1>2, <2>3 DEF CheckTag, Goto, TypeOK
    <3> QED BY <2>1, <2>3, <3>1, SameRelease DEF Known, RunInv
  <2> QED BY <1>2, <2>2, <2>3 DEF CheckTag
<1>3. CASE Find(r)
  <2>1. release' = release /\ pc'[r] = "adopt" /\ seen'[r] = Present
        /\ todo'[r] = Present \cap Records /\ Present \subseteq Own(r) \cup Records
    BY <1>3 DEF Find, MayFind, Listed, See, Goto, TypeOK, remote
  <2> QED BY <2>1, SameRelease DEF Known
<1>4. CASE CheckRecord(r)
  <2>1. PICK n \in todo[r] : RecordGood(n) /\ todo' = [todo EXCEPT ![r] = @ \ {n}]
    BY <1>4 DEF CheckRecord
  <2>2. /\ release' = release /\ tag' = tag /\ pc'[r] = pc[r] /\ seen'[r] = seen[r]
        /\ todo'[r] = todo[r] \ {n} /\ fresh[r]
        /\ pc[r] \in {"adopt", "readopt", "finalAdopt"}
    BY <1>4, <2>1 DEF CheckRecord, TypeOK, remote
  <2> QED BY <2>1, <2>2, SameRelease DEF Known, RunInv
<1>5. CASE CheckBytes(r)
  <2>1. PICK n \in todo[r] : SameBytes(n) /\ todo' = [todo EXCEPT ![r] = @ \ {n}]
    BY <1>5 DEF CheckBytes
  <2>2. /\ release' = release /\ tag' = tag /\ pc'[r] = pc[r] /\ seen'[r] = seen[r]
        /\ todo'[r] = todo[r] \ {n} /\ fresh[r]
        /\ pc[r] \in {"existing", "recheck", "finalAssets"}
    BY <1>5, <2>1 DEF CheckBytes, TypeOK, remote
  <2> QED BY <2>1, <2>2, SameRelease DEF Known, RunInv
<1>6. CASE LoopEnds(r)
  <2>1. /\ release' = release /\ tag' = tag /\ seen'[r] = seen[r]
        /\ sending'[r] = sending[r] /\ fresh[r] /\ todo[r] = {} /\ pc[r] \in Loops
        /\ pc'[r] = After(r)[1] /\ todo'[r] = After(r)[2]
    BY <1>6 DEF LoopEnds, Goto, TypeOK, remote
  <2>2. \/ pc[r] = "adopt" /\ pc'[r] = "existing" /\ todo'[r] = Own(r) \cap seen[r]
        \/ pc[r] = "existing" /\ pc'[r] = "upload"
        \/ pc[r] = "recheck" /\ pc'[r] = "retag"
        \/ pc[r] = "readopt" /\ pc'[r] = "publish"
        \/ pc'[r] \in {"relook", "finalLook", "finalAssets", "attest"}
    BY <2>1 DEF After, Loops
  <2>3. CASE pc[r] = "existing" /\ pc'[r] = "upload"
    <3>1. \A n \in Present : IF n \in Own(r) THEN SameBytes(n) ELSE RecordGood(n)
      BY <2>1, <2>3 DEF Known, RunInv
    <3>2. VerifiedSoFar(r)'
      BY <3>1, <2>1, SameRelease DEF VerifiedSoFar
    <3> QED BY <2>3, <3>2 DEF Known
  <2> QED BY <2>1, <2>2, <2>3, SameRelease DEF Known, RunInv
<1>7. CASE SkipServed(r)
  <2>1. /\ release' = release /\ pc'[r] = "upload" /\ pc[r] = "upload" /\ fresh[r]
        /\ sending'[r] = sending[r]
    BY <1>7 DEF SkipServed, TypeOK, remote
  <2> QED BY <2>1, SameRelease DEF Known, RunInv, VerifiedSoFar
<1>8. CASE BeginUpload(r)
  <2>1. PICK n \in todo[r] : /\ Accepts(n) /\ release' = With(n, "partial")
                             /\ sending' = [sending EXCEPT ![r] = n]
    BY <1>8 DEF BeginUpload
  <2>2. /\ release \in Releases /\ "partial" \in Bytes /\ n \in Names
        /\ sending'[r] = n /\ pc'[r] = "uploading" /\ pc[r] = "upload" /\ fresh[r]
        /\ release # None
    BY <1>8, <2>1 DEF BeginUpload, Accepts, Stales, Goto, TypeOK, Bytes
  <2>3. /\ \A m \in Names \ {n} : release'.assets[m] = release.assets[m]
        /\ release' # None
    BY <2>1, <2>2, WithBytes
  <2>4. \A m \in Present : IF m \in Own(r) THEN SameBytes(m) ELSE RecordGood(m)
    BY <1>p, <2>2 DEF Known, RunInv, VerifiedSoFar
  <2>5. Present' \ {n} \subseteq Present
    BY <2>2, <2>3 DEF Present
  <2>6. \A m \in Present' \ {n} :
           IF m \in Own(r) THEN SameBytes(m)' ELSE RecordGood(m)'
    BY <1>p, <2>2, <2>3, <2>4, <2>5 DEF SameBytes, RecordGood
  <2> QED BY <2>2, <2>6 DEF Known, VerifiedSoFar
<1>9. CASE EndUpload(r)
  <2>1. /\ release \in Releases /\ release # None /\ sending[r] \in Names \cup {None}
        /\ release' = With(sending[r], "exact") /\ "exact" \in Bytes
        /\ sending'[r] = None /\ pc'[r] = "upload" /\ pc[r] = "uploading" /\ fresh[r]
    BY <1>9 DEF EndUpload, Receiving, Stales, Goto, TypeOK, Bytes
  <2>2. VerifiedSoFar(r)
    BY <2>1 DEF Known, RunInv
  <2>3. /\ \A m \in Names : release'.assets[m] = IF m = sending[r] THEN "exact"
                                                ELSE release.assets[m]
        /\ release' # None
    <3>1. CASE sending[r] \in Names
      BY <2>1, <3>1, WithBytes
    <3>2. CASE sending[r] = None
      BY <2>1, <3>2 DEF With, Releases
    <3> QED BY <2>1, <3>1, <3>2
  <2>4. \A m \in Present' : IF m \in Own(r) THEN SameBytes(m)' ELSE RecordGood(m)'
    BY <2>1, <2>2, <2>3 DEF VerifiedSoFar, Present, SameBytes, RecordGood
  <2> QED BY <2>1, <2>4 DEF Known, VerifiedSoFar
<1>10. CASE Relook(r)
  <2>1. release' = release /\ pc'[r] = "recheck" /\ seen'[r] = Present
        /\ todo'[r] = Own(r) \cap Present /\ Complete(r)
    BY <1>10 DEF Relook, See, Goto, TypeOK, remote
  <2> QED BY <2>1, SameRelease DEF Known
<1>11. CASE FinalLook(r)
  <2>1. pc'[r] = "finalAdopt"
    BY <1>11 DEF FinalLook, See, Goto, TypeOK
  <2> QED BY <2>1 DEF Known
<1> QED BY <1>1, <1>2, <1>3, <1>4, <1>5, <1>6, <1>7, <1>8, <1>9, <1>10, <1>11
           DEF Progress

-----------------------------------------------------------------------------
(* The invariant.                                                          *)

\* Only a run that uploads has an upload under way.
LEMMA SendingOwnStep ==
  ASSUME TypeOK, NEW r \in Runs, RunStep(r), pc[r] # "uploading" => sending[r] = None,
         pc'[r] # "uploading"
  PROVE  sending'[r] = None
<1>1. CASE Reject(r) \/ BreakOff(r) \/ PolicyExpires(r)
  BY <1>1 DEF Reject, BreakOff, PolicyExpires, Fails, TypeOK, locals
<1>2. CASE Begin(r) \/ FindNothing(r) \/ CheckTag(r) \/ Create(r) \/ Prepared(r)
  BY <1>2 DEF Begin, FindNothing, CheckTag, Create, Prepared, locals
<1>3. CASE Find(r) \/ Relook(r) \/ FinalLook(r) \/ LoopEnds(r)
  BY <1>3 DEF Find, Relook, FinalLook, LoopEnds, Loops
<1>4. CASE CheckRecord(r) \/ CheckBytes(r) \/ SkipServed(r)
  BY <1>4 DEF CheckRecord, CheckBytes, SkipServed
<1>5. CASE BeginUpload(r) \/ EndUpload(r)
  BY <1>5 DEF BeginUpload, EndUpload, Goto, TypeOK
<1>6. CASE Publish(r) \/ Attest(r)
  BY <1>6 DEF Publish, Attest, locals
<1> QED BY <1>1, <1>2, <1>3, <1>4, <1>5, <1>6 DEF RunStep, Progress

\* A run's own step keeps its invariant.
LEMMA OwnStep ==
  ASSUME TypeOK, NEW r \in Runs, RunStep(r), RunInv(r), [Next]_vars
  PROVE  RunInv(r)'
<1>1. pc'[r] # "uploading" => sending'[r] = None
  BY SendingOwnStep DEF RunInv
<1>2. CASE Progress(r)
  BY <1>1, <1>2, FrozenOwnStep, KnownOwnStep DEF RunInv
<1>3. CASE Reject(r) \/ BreakOff(r)
  <2>1. pc'[r] = "failed"
    BY <1>3 DEF Reject, BreakOff, Fails, Goto, TypeOK
  <2> QED BY <1>1, <2>1 DEF RunInv, Closing, Known
<1>4. CASE PolicyExpires(r)
  <2>1. /\ release' = release /\ tag' = tag /\ pc'[r] = pc[r] /\ seen'[r] = seen[r]
        /\ todo'[r] = todo[r] /\ sending'[r] = sending[r] /\ fresh'[r] = fresh[r]
    BY <1>4 DEF PolicyExpires, remote, locals
  <2> QED BY <1>1, <2>1, FrozenKept, KnownKept DEF RunInv
<1> QED BY <1>2, <1>3, <1>4 DEF RunStep

\* A step of another run, or of others, keeps it too.
LEMMA OthersStep ==
  ASSUME TypeOK, NEW r \in Runs, RunInv(r), [Next]_vars,
         OutsideStep \/ \E q \in Runs \ {r} : RunStep(q)
  PROVE  RunInv(r)'
<1>1. /\ pc'[r] = pc[r] /\ seen'[r] = seen[r] /\ todo'[r] = todo[r]
      /\ sending'[r] = sending[r]
      /\ fresh'[r] => fresh[r] /\ release' = release /\ tag' = tag
  BY Apart, Outsiders
<1>2. ASSUME pc[r] \in Closing PROVE Frozen(r)'
  <2>1. Frozen(r)
    BY <1>2 DEF RunInv
  <2>2. release # None /\ ~release.draft /\ release.immutable
    BY <2>1, FinalIsImmutable DEF Frozen
  <2>3. release' = release
    BY <2>2, Unmoved
  <2> QED BY <1>1, <2>1, <2>3, FrozenKept
<1>3. ASSUME fresh'[r] PROVE Known(r)'
  BY <1>1, <1>3, KnownKept DEF RunInv
<1> QED BY <1>1, <1>2, <1>3 DEF RunInv

\* A run that publishes what it knows publishes the right release.
LEMMA PublishesRight ==
  ASSUME TypeOK, NEW r \in Runs, Publish(r), fresh[r], release.draft, RunInv(r)
  PROVE  release' # None /\ ~release'.draft /\ Right'
<1>1. /\ release \in Releases /\ release # None /\ release' = Public /\ pc[r] = "publish"
      /\ enforced \in BOOLEAN /\ tag \in Commits
  BY DEF Publish, MayPublish, TypeOK
<1>2. release' \in Releases
  BY <1>1, ReleaseTypes
<1>3. /\ release' # None /\ ~release'.draft /\ release'.titled = release.titled
      /\ release'.commit = tag /\ release'.assets = release.assets
  BY <1>1, <1>2 DEF Public, Releases
<1>4. /\ Complete(r) /\ tag = "promoted"
      /\ \A n \in Present \cap Own(r) : SameBytes(n)
      /\ \A n \in Present \cap Records : RecordGood(n)
  BY <1>1 DEF RunInv, Known
<1>5. Present' = Present
  BY <1>1, <1>3 DEF Present
<1>6. /\ release.titled /\ Present \subseteq Own(r) \cup Records /\ Fixed \subseteq Present
      /\ \A p \in Packages : \E q \in Runs : <<p, q>> \in Present
  BY <1>4 DEF Complete, Listed, Covers
<1>7. Own(r) \subseteq Fixed \cup Records
  BY DEF Own, Records
<1>8. \A n \in Fixed : release'.assets[n] = "exact"
  BY <1>3, <1>4, <1>6 DEF Own, SameBytes
<1>9. \A n \in Present \cap Records : RecordGood(n)'
  BY <1>1, <1>3, <1>4 DEF RecordGood
<1> QED BY <1>3, <1>4, <1>5, <1>6, <1>7, <1>8, <1>9 DEF Right

\* A right release is right while it does not change.
LEMMA RightKept == ASSUME release' = release, Right PROVE Right'
  BY SameRelease DEF Right

\* Only a run that publishes makes a release known to be right.
LEMMA PublishedStep ==
  ASSUME TypeOK, \A r \in Runs : RunInv(r), PublishedInv, [Next]_vars,
         published' = "knowingly"
  PROVE  release' # None /\ ~release'.draft /\ (release'.immutable => Right')
<1>1. CASE release' = release /\ published' = published
  BY <1>1, RightKept DEF PublishedInv
<1>2. CASE UNCHANGED vars
  BY <1>1, <1>2 DEF vars
<1>3. CASE OutsideStep
  <2>1. published = "knowingly"
    BY <1>3 DEF OutsideStep, EditRelease, MoveTag, ChangeSetting
  <2>2. release # None /\ ~release.draft /\ release \in Releases
    BY <2>1 DEF PublishedInv, TypeOK
  <2>3. CASE MoveTag \/ ChangeSetting
    BY <1>1, <2>3 DEF MoveTag, ChangeSetting
  <2>4. CASE EditRelease
    <3>1. \/ \E n \in Names, b \in Bytes : release' = With(n, b)
          \/ release' = Retitled
      BY <2>2, <2>4 DEF EditRelease
    <3>2. release' \in Releases
      BY <2>2, <3>1, ReleaseTypes DEF TypeOK
    <3>3. release'.draft = release.draft /\ release'.immutable = release.immutable
      BY <2>2, <3>1 DEF Releases, With, Retitled
    <3>4. ~release.immutable
      BY <2>4 DEF EditRelease
    <3> QED BY <2>2, <3>2, <3>3, <3>4
  <2> QED BY <1>3, <2>3, <2>4 DEF OutsideStep
<1>4. ASSUME NEW q \in Runs, RunStep(q)
      PROVE  release' # None /\ ~release'.draft /\ (release'.immutable => Right')
  <2>1. CASE Reject(q) \/ BreakOff(q) \/ PolicyExpires(q)
    BY <1>1, <2>1 DEF Reject, BreakOff, PolicyExpires, Fails, remote
  <2>2. CASE Begin(q) \/ FindNothing(q) \/ CheckTag(q) \/ Prepared(q)
    BY <1>1, <2>2 DEF Begin, FindNothing, CheckTag, Prepared, remote
  <2>3. CASE Create(q)
    BY <2>3 DEF Create, MayCreate, PublishedInv
  <2>4. CASE Find(q) \/ Relook(q) \/ FinalLook(q) \/ LoopEnds(q)
    BY <1>1, <2>4 DEF Find, Relook, FinalLook, LoopEnds, remote
  <2>5. CASE CheckRecord(q) \/ CheckBytes(q) \/ SkipServed(q) \/ Attest(q)
    BY <1>1, <2>5 DEF CheckRecord, CheckBytes, SkipServed, Attest, remote
  <2>6. CASE BeginUpload(q) \/ EndUpload(q)
    <3>1. \E n, b : b \in Bytes /\ release' = With(n, b)
      BY <2>6 DEF BeginUpload, EndUpload, Bytes
    <3>2. /\ published = "knowingly" /\ release # None /\ ~release.immutable
          /\ release \in Releases
      BY <2>6 DEF BeginUpload, EndUpload, Accepts, Receiving, TypeOK
    <3>3. release' \in Releases
      BY <3>1, <3>2, ReleaseTypes DEF TypeOK
    <3>4. release'.draft = release.draft /\ release'.immutable = release.immutable
      BY <3>1, <3>2 DEF Releases, With
    <3> QED BY <3>2, <3>3, <3>4 DEF PublishedInv
  <2>7. CASE Publish(q)
    <3>1. CASE ~release.draft
      BY <1>1, <2>7, <3>1 DEF Publish
    <3>2. CASE release.draft
      <4>1. fresh[q]
        BY <2>7, <3>2 DEF Publish
      <4> QED BY <2>7, <3>2, <4>1, PublishesRight
    <3> QED BY <3>1, <3>2
  <2> QED BY <1>4, <2>1, <2>2, <2>3, <2>4, <2>5, <2>6, <2>7 DEF RunStep, Progress
<1> QED BY <1>2, <1>3, <1>4, Steps

\* The invariant holds in the beginning.
LEMMA InvInit == Init => ReleaseInv
<1> SUFFICES ASSUME Init PROVE ReleaseInv
  OBVIOUS
<1>1. ASSUME NEW r \in Runs PROVE RunInv(r)
  <2>1. pc[r] \in {"prepare", "start"} /\ sending[r] = None /\ ~fresh[r]
    BY DEF Init
  <2> QED BY <2>1 DEF RunInv, Closing
<1>2. PublishedInv
  BY DEF Init, PublishedInv
<1> QED BY <1>1, <1>2, InitType, Parts

\* The invariant is inductive.
LEMMA InvStep == ReleaseInv /\ [Next]_vars => ReleaseInv'
<1> SUFFICES ASSUME ReleaseInv, [Next]_vars PROVE ReleaseInv'
  OBVIOUS
<1>1. TypeOK /\ (\A r \in Runs : RunInv(r)) /\ PublishedInv
  BY Parts
<1>2. TypeOK'
  BY <1>1, TypeStep
<1>3. PublishedInv'
  BY <1>1, PublishedStep DEF PublishedInv
<1>4. ASSUME NEW r \in Runs PROVE RunInv(r)'
  <2>1. CASE UNCHANGED vars
    BY <1>1, <2>1, FrozenKept, KnownKept DEF RunInv, vars
  <2>2. CASE RunStep(r)
    BY <1>1, <2>2, OwnStep
  <2>3. CASE OutsideStep \/ \E q \in Runs \ {r} : RunStep(q)
    BY <1>1, <2>3, OthersStep
  <2> QED BY <2>1, <2>2, <2>3, Steps
<1>5. (\A r \in Runs : RunInv(r))'
  BY <1>4
<1> QED BY <1>2, <1>3, <1>5 DEF ReleaseInv, RunInv, PublishedInv

-----------------------------------------------------------------------------
(* The theorems.                                                           *)

(* What reconcile() has checked of the release holds for as long as it     *)
(* relies on it: until someone else acts, and for good after its last look *)
(* at a published release.                                                 *)
THEOREM ReleaseInvariant == Spec => []ReleaseInv
<1>1. Init => ReleaseInv
  BY InvInit
<1>2. ReleaseInv /\ [Next]_vars => ReleaseInv'
  BY InvStep
<1> QED BY <1>1, <1>2, PTL DEF Spec

(* "Verified immutable GitHub release" is true when main() prints it, and  *)
(* stays true.                                                             *)
THEOREM VerifiedMeansRight == Spec => []VerifiedIsRight
<1>1. ReleaseInv => VerifiedIsRight
  <2> SUFFICES ASSUME ReleaseInv, NEW r \in Runs, pc[r] = "verified"
               PROVE  Right /\ release.immutable
    BY DEF VerifiedIsRight
  <2>1. Frozen(r) /\ TypeOK
    BY DEF ReleaseInv, Closing
  <2>2. Final(r) /\ Attested
    BY <2>1 DEF Frozen
  <2>3. release # None /\ ~release.draft /\ release.immutable
    BY <2>1, <2>2, FinalIsImmutable
  <2>4. release.titled /\ Present \subseteq Own(r) \cup Records /\ Fixed \subseteq Present
        /\ \A p \in Packages : \E q \in Runs : <<p, q>> \in Present
    BY <2>2 DEF Final, Complete, Listed, Covers
  <2>5. /\ \A n \in Present \cap Records : RecordGood(n)
        /\ \A n \in Present \cap Own(r) : SameBytes(n)
    BY <2>1 DEF Frozen
  <2>6. Own(r) \subseteq Fixed \cup Records /\ Fixed \subseteq Own(r)
    BY DEF Own, Records
  <2> QED BY <2>2, <2>3, <2>4, <2>5, <2>6 DEF Right, Attested, SameBytes
<1> QED BY <1>1, ReleaseInvariant, PTL

(* reconcile() publishes a wrong release only if someone else has acted    *)
(* after its second lookup.                                                *)
THEOREM PublishedKnowingly == Spec => []PublishesWhatItVerified
<1>1. ReleaseInv => PublishesWhatItVerified
  BY DEF ReleaseInv, PublishesWhatItVerified
<1> QED BY <1>1, ReleaseInvariant, PTL

(* reconcile() uploads nothing next to an asset it has not verified.       *)
THEOREM UploadsAreGuarded == Spec => []UploadsToVerifiedDraft
<1>1. ReleaseInv => UploadsToVerifiedDraft
  BY DEF ReleaseInv, UploadsToVerifiedDraft, Known
<1> QED BY <1>1, ReleaseInvariant, PTL
=============================================================================
