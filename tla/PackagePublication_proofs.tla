----------------------- MODULE PackagePublication_proofs -----------------------
(******************************************************************************)
(* Proofs about PackagePublication, for any set of packages, any builds and    *)
(* any number of runs and attempts: what is handed to npm has passed every     *)
(* check, the records tell the truth about the registry, an attempt is refused *)
(* only for what others did, nothing is published into a set that cannot be    *)
(* completed, and what the fixed assets state does not depend on the attempt.  *)
(******************************************************************************)
EXTENDS PackagePublication, TLAPS

USE PublicationAssumption

Outsiders(p) == PublishedElsewhere(p) \/ Propagate(p) \/ DocumentChanges(p)

\* A step of the attempt that runs, within its scripts.
ScriptStep == \/ Pack \/ PackEvidence \/ CheckArtifact
              \/ Preflight \/ NpmPublish \/ SkipPublish \/ Export
              \/ Look \/ ReadView \/ CompareTarball \/ CheckOrigin \/ VerifyConsumer \/ Record

NewAttempt == RerunFailed \/ RerunAll \/ Dispatch

\* Every step is one of the scripts, a failing job, a new attempt, or of others.
LEMMA Steps == Next <=> ScriptStep \/ BreakOff \/ NewAttempt \/ \E p \in Packages : Outsiders(p)
  BY DEF Next, ScriptStep, NewAttempt, Outsiders

------------------------------------------------------------------------------
(* Types.                                                                     *)

Versioned == [bytes : Bytes, by : Coordinates \cup {Foreign}]

\* What the definitions of the constants give.
LEMMA ConstantTypes == /\ 1 \in Packages /\ N \in Packages /\ \A n \in Packages : n < N => n + 1 \in Packages
                       /\ None \notin Versioned /\ None \notin Coordinates /\ Foreign \notin Coordinates
                       /\ Coordinates \subseteq [run : Nat, attempt : Nat]
<1>1. Coordinates \subseteq [run : Nat, attempt : Nat]
  BY DEF Coordinates
<1>2. 1 \in Packages /\ N \in Packages /\ \A n \in Packages : n < N => n + 1 \in Packages
  BY DEF Packages
<1> QED BY <1>1, <1>2 DEF Versioned

\* The first attempt has its types.
LEMMA InitType == Init => TypeOK
<1> SUFFICES ASSUME Init PROVE TypeOK
  OBVIOUS
<1>1. now \in Coordinates /\ i \in Packages
  BY DEF Init, Coordinates, Packages
<1>2. pc \in Scripts /\ status \in {"running", "done", "refused", "broken"}
  BY DEF Init, Scripts, VerifyJob
<1> QED BY <1>1, <1>2 DEF Init, TypeOK, NothingMissing, Unread

\* The control state of the attempt after a step of its scripts.
LEMMA ControlType ==
  ASSUME TypeOK, NEW script \in Scripts, NEW after \in Scripts, NEW how \in {"done", "refused", "broken"},
         Again(script, after) \/ Goto(after) \/ Step(script) \/ End(how)
  PROVE  pc' \in Scripts /\ i' \in Packages /\ status' \in {"running", "done", "refused", "broken"}
  BY ConstantTypes DEF TypeOK, Again, Goto, Step, End

Answers == [Packages -> [Outputs -> 0 .. NDocs \cup {None}]]

\* Retaining an answer of the package at hand keeps the types.
LEMMA RetainType ==
  ASSUME TypeOK, NEW o \in Outputs, Retain(o)
  PROVE  read' \in Answers
<1>1. i \in Packages /\ read[i] \in [Outputs -> 0 .. NDocs \cup {None}] /\ doc[i][o] \in 0 .. NDocs
  BY DEF TypeOK
<1>2. [read[i] EXCEPT ![o] = doc[i][o]] \in [Outputs -> 0 .. NDocs \cup {None}]
  BY <1>1
<1>3. read' = [read EXCEPT ![i] = [read[i] EXCEPT ![o] = doc[i][o]]]
  BY DEF Retain
<1> QED BY <1>2, <1>3 DEF TypeOK, Answers

\* A step of a script keeps the types.
LEMMA ScriptType ==
  ASSUME TypeOK, Handoff, ScriptStep
  PROVE  TypeOK'
<1>s. VerifyJob \cup NpmJob \cup EvidenceJob \subseteq Scripts
  BY DEF Scripts
<1>c. pc' \in Scripts /\ i' \in Packages /\ status' \in {"running", "done", "refused", "broken"}
  <2>1. \E script, after \in Scripts, how \in {"done", "refused", "broken"} :
           Again(script, after) \/ Goto(after) \/ Step(script) \/ End(how)
    BY <1>s DEF ScriptStep, Pack, PackEvidence, CheckArtifact, Preflight, NpmPublish, SkipPublish, Export, Look, ReadView,
       CompareTarball, CheckOrigin, VerifyConsumer, Record, Refuse, VerifyJob, NpmJob, EvidenceJob
  <2> QED BY <2>1, ControlType
<1>1. i \in Packages
  BY DEF TypeOK
<1>2. CASE Pack
  <2>1. archive' \in [Packages -> Bytes \cup {None}]
    <3>1. build[i] \in Bytes
      BY <1>1 DEF TypeOK, Packages
    <3> QED BY <1>2, <3>1 DEF Pack, TypeOK
  <2> QED BY <1>2, <1>c, <2>1 DEF Pack, TypeOK, outside
<1>3. CASE PackEvidence
  BY <1>3, <1>c DEF PackEvidence, TypeOK, outside
<1>4. CASE Preflight
  <2>1. state' \in [Packages -> BOOLEAN]
    BY <1>4 DEF Preflight, TypeOK
  <2> QED BY <1>4, <1>c, <2>1 DEF Preflight, TypeOK, outside, local
<1>5. CASE NpmPublish
  <2>1. pc = "publish"
    BY <1>5 DEF NpmPublish, At
  <2>2. archive[i] \in Bytes /\ now \in Coordinates
    BY <1>1, <2>1 DEF TypeOK, Handoff, VerifyJob
  <2>3. registry' \in [Packages -> [bytes : Bytes, by : Coordinates \cup {Foreign}] \cup {None}]
    BY <1>5, <2>2 DEF NpmPublish, TypeOK, Versions
  <2> QED BY <1>5, <1>c, <2>3 DEF NpmPublish, TypeOK, local
<1>6. CASE Look \/ ReadView \/ CheckOrigin \/ VerifyConsumer
  <2>1. UNCHANGED read \/ \E o \in Outputs : Retain(o)
    BY <1>6 DEF Look, ReadView, CheckOrigin, VerifyConsumer, Outputs
  <2>2. read' \in Answers
    BY <2>1, RetainType DEF TypeOK, Answers
  <2> QED BY <1>6, <1>c, <2>2 DEF Look, ReadView, CheckOrigin, VerifyConsumer, TypeOK, Answers, outside, local
<1>7. CASE CheckArtifact \/ SkipPublish \/ CompareTarball \/ Record
  BY <1>7, <1>c DEF CheckArtifact, SkipPublish, CompareTarball, Record, TypeOK, outside, local
<1>8. CASE Export
  BY <1>8, <1>c DEF Export, TypeOK, outside, local
<1> QED BY <1>2, <1>3, <1>4, <1>5, <1>6, <1>7, <1>8 DEF ScriptStep

\* So does a job that is broken off.
LEMMA BreakType ==
  ASSUME TypeOK, BreakOff
  PROVE  TypeOK'
<1>1. archive' \in [Packages -> Bytes \cup {None}]
  <2>1. archive \in [Packages -> Bytes \cup {None}] /\ archive[i] \in Bytes \cup {None}
    BY DEF TypeOK
  <2>2. archive' = archive \/ \E b \in Bytes \cup {None} : archive' = [archive EXCEPT ![i] = b]
    BY <2>1 DEF BreakOff, CutOff
  <2> QED BY <2>1, <2>2
<1>2. evidence' \in [Packages -> Bytes \cup {None}]
  BY DEF BreakOff, CutOff, TypeOK
<1> QED BY <1>1, <1>2 DEF BreakOff, End, TypeOK, outside

\* So does a new attempt or run.
LEMMA AttemptType ==
  ASSUME TypeOK, NewAttempt
  PROVE  TypeOK'
<1>1. now' \in Coordinates
  <2>1. \/ now.attempt < NAttempts /\ now' = [now EXCEPT !.attempt = now.attempt + 1]
        \/ now.run < NRuns /\ now' = [run |-> now.run + 1, attempt |-> 1]
    BY DEF NewAttempt, RerunFailed, RerunAll, Dispatch, MayAttempt, NextAttempt
  <2>2. now \in [run : 1 .. NRuns, attempt : 1 .. NAttempts]
    BY DEF TypeOK, Coordinates
  <2> QED BY <2>1, <2>2 DEF Coordinates
<1>2. \E script \in {"pack", "check", "preflight", "look"} : Start(script)
  BY DEF NewAttempt, RerunFailed, RerunAll, Dispatch, Afresh
<1>3. /\ pc' \in Scripts /\ i' \in Packages /\ status' = "running"
      /\ read' = Unread /\ UNCHANGED <<archive, evidence, outside>>
  BY <1>2, ConstantTypes DEF Start, Scripts, VerifyJob, NpmJob, EvidenceJob
<1>4. state' \in [Packages -> BOOLEAN] /\ producer' \in Coordinates \cup {None} /\ build' \in Builds
  BY DEF NewAttempt, RerunFailed, RerunAll, Dispatch, Afresh, NothingMissing, TypeOK
<1> QED BY <1>1, <1>3, <1>4 DEF TypeOK, outside, Unread

\* So do the registry, strangers and changing documents.
LEMMA OutsideType ==
  ASSUME TypeOK, NEW p \in Packages, Outsiders(p)
  PROVE  TypeOK'
<1>1. CASE PublishedElsewhere(p)
  BY <1>1 DEF PublishedElsewhere, TypeOK
<1>2. CASE Propagate(p)
  BY <1>2 DEF Propagate, TypeOK
<1>3. CASE DocumentChanges(p)
  <2>1. PICK o \in Outputs : doc' = [doc EXCEPT ![p] = [doc[p] EXCEPT ![o] = doc[p][o] + 1]]
    BY <1>3 DEF DocumentChanges
  <2>2. doc[p] \in [Outputs -> 0 .. NDocs] /\ doc[p][o] < NDocs
    BY <1>3 DEF DocumentChanges, TypeOK
  <2>3. doc[p][o] + 1 \in 0 .. NDocs
    BY <2>2
  <2>4. [doc[p] EXCEPT ![o] = doc[p][o] + 1] \in [Outputs -> 0 .. NDocs]
    BY <2>2, <2>3
  <2>5. doc' \in [Packages -> [Outputs -> 0 .. NDocs]]
    BY <2>1, <2>4 DEF TypeOK
  <2> QED BY <1>3, <2>5 DEF DocumentChanges, TypeOK
<1> QED BY <1>1, <1>2, <1>3 DEF Outsiders

\* Every step keeps the types.
LEMMA StepType ==
  ASSUME TypeOK, Handoff, [Next]_vars
  PROVE  TypeOK'
<1>1. CASE UNCHANGED vars
  BY <1>1 DEF vars, TypeOK
<1> QED BY <1>1, Steps, ScriptType, BreakType, AttemptType, OutsideType

------------------------------------------------------------------------------
(* What is handed from script to script.                                      *)

\* The scripts that come after the artifact has been checked.
Downstream == \/ Preflight \/ NpmPublish \/ SkipPublish \/ Export
              \/ Look \/ ReadView \/ CompareTarball \/ CheckOrigin \/ VerifyConsumer \/ Record

\* The jobs after verification leave the artifact as it is.
LEMMA DownstreamKeeps ==
  ASSUME Downstream
  PROVE  /\ pc \notin VerifyJob /\ pc' \notin VerifyJob
         /\ UNCHANGED <<now, build, archive, evidence>>
         /\ status = "running"
  BY DEF Downstream, Preflight, NpmPublish, SkipPublish, Export, Look, ReadView, CompareTarball, CheckOrigin,
     VerifyConsumer, Record, At, Again, Goto, Step, Refuse, End, VerifyJob, local

\* The evidence vouches for the whole set, or for nothing.
EvidenceSound ==
    \A p \in Packages : evidence[p] # None =>
        Inspected(evidence[p]) /\ (\A q \in Packages : evidence[q] # None) /\ Smoke(evidence)

\* Nothing has been handed on in the beginning.
LEMMA InitHandoff == Init => Handoff
<1> SUFFICES ASSUME Init PROVE Handoff
  OBVIOUS
<1>1. pc = "pack" /\ i = 1 /\ \A p \in Packages : evidence[p] = None
  BY DEF Init
<1> QED BY <1>1 DEF Handoff, VerifyJob

\* Every step keeps what one script hands to the next.
LEMMA StepHandoff ==
  ASSUME TypeOK, Handoff, [Next]_vars
  PROVE  Handoff'
<1>t. /\ i \in Packages /\ archive \in [Packages -> Bytes \cup {None}] /\ evidence \in [Packages -> Bytes \cup {None}]
      /\ build[i] \in Bytes
      /\ \A p \in Packages : p \in Nat
  BY DEF TypeOK, Packages
<1>e. EvidenceSound
  BY DEF Handoff, EvidenceSound
<1>1. CASE Pack
  <2>1. pc = "pack" /\ UNCHANGED evidence
    BY <1>1 DEF Pack, At
  <2>2. CASE ~Inspected(build[i])
    <3>1. pc' = "pack" /\ i' = i /\ archive' = [archive EXCEPT ![i] = None]
      BY <1>1, <2>1, <2>2 DEF Pack, Refuse, End
    <3>2. \A p \in 1 .. i - 1 : archive'[p] = archive[p]
      BY <1>t, <3>1 DEF Packages
    <3> QED BY <1>e, <2>1, <3>1, <3>2 DEF Handoff, EvidenceSound, VerifyJob, Inspected, Smoke
  <2>3. CASE Inspected(build[i])
    <3>1. archive' = [archive EXCEPT ![i] = build[i]] /\ Again("pack", "smoke")
      BY <1>1, <2>3 DEF Pack
    <3>2. \A p \in 1 .. i : archive'[p] # None /\ Inspected(archive'[p])
      BY <1>t, <2>1, <2>3, <3>1 DEF Handoff, Packages
    <3>3. CASE i < N
      <4>1. pc' = "pack" /\ i' = i + 1
        BY <3>1, <3>3 DEF Again
      <4>2. \A p \in 1 .. i' - 1 : p \in 1 .. i
        BY <1>t, <4>1 DEF Packages
      <4> QED BY <1>e, <2>1, <3>2, <4>1, <4>2 DEF Handoff, EvidenceSound, VerifyJob, Inspected, Smoke
    <3>4. CASE ~(i < N)
      <4>1. pc' = "smoke" /\ \A p \in Packages : p \in 1 .. i
        BY <1>t, <3>1, <3>4 DEF Again, Goto, Packages
      <4> QED BY <1>e, <2>1, <3>2, <4>1 DEF Handoff, EvidenceSound, VerifyJob, Inspected, Smoke
    <3> QED BY <3>3, <3>4
  <2> QED BY <2>2, <2>3
<1>2. CASE PackEvidence
  <2>1. pc = "smoke" /\ UNCHANGED archive
    BY <1>2 DEF PackEvidence, At
  <2>2. \/ evidence' = archive /\ Smoke(archive) /\ pc' = "check" /\ i' = 1
        \/ evidence' = evidence /\ pc' = pc /\ i' = i
    BY <1>2 DEF PackEvidence, Goto, Refuse, End
  <2>3. CASE evidence' = archive /\ Smoke(archive) /\ pc' = "check" /\ i' = 1
    BY <2>1, <2>3 DEF Handoff, VerifyJob, Inspected, Smoke
  <2>4. CASE evidence' = evidence /\ pc' = pc /\ i' = i
    BY <2>1, <2>4 DEF Handoff, VerifyJob, Inspected, Smoke
  <2> QED BY <2>2, <2>3, <2>4
<1>3. CASE CheckArtifact
  <2>1. pc = "check" /\ UNCHANGED <<archive, evidence>>
    BY <1>3 DEF CheckArtifact, At, local
  <2>2. \/ Again("check", "preflight") /\ archive[i] # None /\ archive[i] = evidence[i]
        \/ pc' = pc /\ i' = i
    BY <1>3 DEF CheckArtifact, Refuse, End
  <2>3. CASE Again("check", "preflight") /\ archive[i] # None /\ archive[i] = evidence[i]
    <3>1. \A p \in 1 .. i : archive[p] = evidence[p] /\ archive[p] # None
      BY <1>t, <2>1, <2>3 DEF Handoff, Packages
    <3>2. CASE i < N
      <4>1. pc' = "check" /\ i' = i + 1
        BY <2>3, <3>2 DEF Again
      <4>2. \A p \in 1 .. i' - 1 : p \in 1 .. i
        BY <1>t, <4>1 DEF Packages
      <4> QED BY <1>e, <2>1, <3>1, <4>1, <4>2 DEF Handoff, EvidenceSound, VerifyJob, Inspected, Smoke
    <3>3. CASE ~(i < N)
      <4>1. pc' = "preflight" /\ \A p \in Packages : p \in 1 .. i
        BY <1>t, <2>3, <3>3 DEF Again, Goto, Packages
      <4> QED BY <1>e, <2>1, <3>1, <4>1 DEF Handoff, EvidenceSound, VerifyJob, Inspected, Smoke
    <3> QED BY <3>2, <3>3
  <2>4. CASE pc' = pc /\ i' = i
    BY <2>1, <2>4 DEF Handoff, VerifyJob, Inspected, Smoke
  <2> QED BY <2>2, <2>3, <2>4
<1>4. CASE Downstream
  BY <1>4, DownstreamKeeps DEF Handoff, VerifyJob, Inspected, Smoke
<1>5. CASE BreakOff
  <2>1. pc' = pc /\ i' = i
    BY <1>5 DEF BreakOff, End
  <2>2. CASE pc = "pack"
    <3>1. UNCHANGED evidence /\ \E b \in Malformed \cup {None, archive[i]} : archive' = [archive EXCEPT ![i] = b]
      BY <1>5, <2>2 DEF BreakOff, CutOff
    <3>2. \A p \in 1 .. i - 1 : archive'[p] = archive[p]
      BY <1>t, <3>1 DEF Packages
    <3> QED BY <1>e, <2>1, <2>2, <3>1, <3>2 DEF Handoff, EvidenceSound, VerifyJob, Inspected, Smoke
  <2>3. CASE pc = "smoke"
    <3>1. UNCHANGED archive /\ (evidence' = evidence \/ \A p \in Packages : evidence'[p] = None)
      BY <1>5, <2>3 DEF BreakOff, CutOff
    <3> QED BY <1>e, <2>1, <2>3, <3>1 DEF Handoff, EvidenceSound, VerifyJob, Inspected, Smoke
  <2>4. CASE pc \notin {"pack", "smoke"}
    <3>1. UNCHANGED <<archive, evidence>>
      BY <1>5, <2>4 DEF BreakOff, CutOff
    <3> QED BY <2>1, <3>1 DEF Handoff, VerifyJob, Inspected, Smoke
  <2> QED BY <2>2, <2>3, <2>4
<1>6. CASE NewAttempt
  <2>1. UNCHANGED <<archive, evidence>> /\ i' = 1 /\ pc' # "smoke"
    BY <1>6 DEF NewAttempt, RerunFailed, RerunAll, Dispatch, Afresh, Start
  <2>2. pc' \in VerifyJob \/ pc \notin VerifyJob
    BY <1>6 DEF NewAttempt, RerunFailed, RerunAll, Dispatch, Afresh, Start, VerifyJob, NpmJob, EvidenceJob
  <2> QED BY <2>1, <2>2 DEF Handoff, VerifyJob, Inspected, Smoke
<1>7. ASSUME NEW p \in Packages, Outsiders(p) PROVE Handoff'
  <2>1. UNCHANGED <<archive, evidence, pc, i>>
    BY <1>7 DEF Outsiders, PublishedElsewhere, Propagate, DocumentChanges
  <2> QED BY <2>1 DEF Handoff, Inspected, Smoke
<1>8. CASE UNCHANGED vars
  BY <1>8 DEF vars, Handoff, Inspected, Smoke
<1> QED BY <1>1, <1>2, <1>3, <1>4, <1>5, <1>6, <1>7, <1>8, Steps DEF ScriptStep, Downstream

------------------------------------------------------------------------------
(* The registry.                                                              *)

\* A version, once there, stays; a new one is the attempt's own or a stranger's.
LEMMA RegistryMoves ==
  ASSUME TypeOK, [Next]_vars, NEW p \in Packages
  PROVE  /\ registry[p] # None => registry'[p] = registry[p]
         /\ registry'[p] # registry[p] =>
               \/ NpmPublish /\ p = i /\ registry'[p] = [bytes |-> archive[p], by |-> now]
               \/ registry'[p].by = Foreign
  <1>1. CASE NpmPublish
    BY <1>1 DEF NpmPublish, Versions, TypeOK
  <1>2. ASSUME NEW q \in Packages, Outsiders(q)
        PROVE  UNCHANGED registry
               \/ (registry[q] = None /\ \E b \in Bytes : registry' = [registry EXCEPT ![q] = [bytes |-> b, by |-> Foreign]])
    BY <1>2 DEF Outsiders, PublishedElsewhere, Propagate, DocumentChanges
  <1>3. CASE (ScriptStep /\ ~NpmPublish) \/ BreakOff \/ NewAttempt
    BY <1>3 DEF ScriptStep, Pack, PackEvidence, CheckArtifact, Preflight, SkipPublish, Export, Look, ReadView,
       CompareTarball, CheckOrigin, VerifyConsumer, Record, BreakOff, NewAttempt, RerunFailed, RerunAll, Dispatch, Afresh,
       Start, outside
  <1>4. ASSUME NEW q \in Packages, Outsiders(q)
        PROVE  /\ registry[p] # None => registry'[p] = registry[p]
               /\ registry'[p] # registry[p] => registry'[p].by = Foreign
    BY <1>2, <1>4 DEF TypeOK
  <1> QED BY <1>1, <1>3, <1>4, Steps DEF vars

\* What has been handed to npm, and is nobody else's, has passed every check.
LEMMA HandedOver ==
  ASSUME TypeOK, Handoff, pc \notin VerifyJob, NEW p \in Packages
  PROVE  archive[p] \notin Malformed \cup Unusable /\ archive[p] = evidence[p] /\ archive[p] # None
  BY DEF Handoff, Inspected, Smoke

\* A new attempt is later than every attempt there has been.
LEMMA NewCoordinates ==
  ASSUME TypeOK, NewAttempt
  PROVE  Later(now', now) /\ \A c \in Coordinates : c = now \/ Later(now, c) => Later(now', c) /\ c # now'
<1>1. /\ now \in [run : Nat, attempt : Nat]
      /\ \A c \in Coordinates : c \in [run : Nat, attempt : Nat]
  BY ConstantTypes DEF TypeOK
<1>2. \/ now'.run = now.run /\ now'.attempt = now.attempt + 1
      \/ now'.run = now.run + 1 /\ now'.attempt = 1
  BY <1>1 DEF NewAttempt, RerunFailed, RerunAll, Dispatch, NextAttempt
<1> QED BY <1>1, <1>2 DEF Later

\* No version of the first attempt exists in the beginning.
LEMMA InitOwn == Init => OwnVersions
  BY DEF Init, OwnVersions

\* The scripts that move within the npm and evidence jobs and publish nothing.
LEMMA StepOwn ==
  ASSUME TypeOK, Handoff, OwnVersions, [Next]_vars
  PROVE  OwnVersions'
<1> SUFFICES ASSUME NEW p \in Packages, registry'[p] # None, registry'[p].by # Foreign
             PROVE  /\ registry'[p].bytes \notin Malformed \cup Unusable
                    /\ registry'[p].by = now' \/ Later(now', registry'[p].by)
                    /\ registry'[p].by = now' =>
                          /\ pc' \in (NpmJob \cup EvidenceJob) \ {"preflight"}
                          /\ state'[p]
                          /\ (pc' \in EvidenceJob => producer' = now')
  BY DEF OwnVersions
<1>t. i \in Packages /\ now \in Coordinates /\ state \in [Packages -> BOOLEAN]
  BY DEF TypeOK
<1>1. CASE registry'[p] # registry[p]
  <2>0. NpmPublish /\ p = i /\ registry'[p] = [bytes |-> archive[p], by |-> now]
    BY <1>1, RegistryMoves
  <2>1. NpmPublish /\ p = i /\ registry'[p].bytes = archive[p] /\ registry'[p].by = now
    BY <2>0
  <2>2. pc = "publish" /\ pc' \in {"publish", "export"} /\ state[p] /\ UNCHANGED <<now, state>>
    BY <2>1 DEF NpmPublish, At, Again, Goto, End, local
  <2>3. archive[p] \notin Malformed \cup Unusable
    BY <2>2, HandedOver DEF VerifyJob
  <2> QED BY <2>1, <2>2, <2>3 DEF NpmJob, EvidenceJob
<1>2. CASE registry'[p] = registry[p]
  <2>0. /\ registry[p].bytes \notin Malformed \cup Unusable
        /\ registry[p].by = now \/ Later(now, registry[p].by)
        /\ registry[p].by = now =>
              /\ pc \in (NpmJob \cup EvidenceJob) \ {"preflight"}
              /\ state[p]
              /\ (pc \in EvidenceJob => producer = now)
        /\ registry[p].by \in Coordinates
    BY <1>2 DEF OwnVersions, TypeOK
  <2>1. CASE NewAttempt
    BY <1>2, <2>0, <2>1, NewCoordinates
  <2>2. CASE Downstream
    <3>1. now' = now
      BY <2>2, DownstreamKeeps
    <3>2. CASE registry[p].by # now
      BY <1>2, <2>0, <3>1, <3>2
    <3>3. CASE registry[p].by = now
      <4>1. pc \in (NpmJob \cup EvidenceJob) \ {"preflight"} /\ state[p] /\ (pc \in EvidenceJob => producer = now)
        BY <2>0, <3>3
      <4>2. pc' \in (NpmJob \cup EvidenceJob) \ {"preflight"}
        BY <2>2, <4>1 DEF Downstream, Preflight, NpmPublish, SkipPublish, Export, Look, ReadView, CompareTarball,
           CheckOrigin, VerifyConsumer, Record, At, Again, Goto, Step, Refuse, End, NpmJob, EvidenceJob
      <4>3. state' = state
        BY <2>2, <4>1 DEF Downstream, Preflight, NpmPublish, SkipPublish, Export, Look, ReadView, CompareTarball,
           CheckOrigin, VerifyConsumer, Record, At
      <4>4. pc' \in EvidenceJob => producer' = now
        BY <2>2, <4>1 DEF Downstream, Preflight, NpmPublish, SkipPublish, Export, Look, ReadView, CompareTarball,
           CheckOrigin, VerifyConsumer, Record, At, Again, Goto, Step, Refuse, End, NpmJob, EvidenceJob
      <4> QED BY <1>2, <2>0, <3>1, <4>1, <4>2, <4>3, <4>4
    <3> QED BY <3>2, <3>3
  <2>3. CASE Pack \/ PackEvidence \/ CheckArtifact
    <3>1. pc \in VerifyJob /\ now' = now
      BY <2>3 DEF Pack, PackEvidence, CheckArtifact, At, VerifyJob, local
    <3>2. registry[p].by # now
      BY <2>0, <3>1 DEF VerifyJob, NpmJob, EvidenceJob
    <3> QED BY <1>2, <2>0, <3>1, <3>2
  <2>4. CASE BreakOff \/ \E q \in Packages : Outsiders(q)
    <3>1. UNCHANGED <<now, pc, state, producer>>
      BY <2>4 DEF BreakOff, End, Outsiders, PublishedElsewhere, Propagate, DocumentChanges
    <3> QED BY <1>2, <2>0, <3>1
  <2>5. CASE UNCHANGED vars
    BY <1>2, <2>0, <2>5 DEF vars
  <2> QED BY <2>1, <2>2, <2>3, <2>4, <2>5, Steps DEF ScriptStep, Downstream
<1> QED BY <1>1, <1>2

\* The invariant of the publication holds in the beginning.
LEMMA InitPub == Init => PubInv
  BY InitType, InitHandoff, InitOwn DEF PubInv

\* It is inductive.
LEMMA StepPub == PubInv /\ [Next]_vars => PubInv'
  BY StepType, StepHandoff, StepOwn DEF PubInv

\* What is handed to npm was packed, inspected, imported and digested, and publish_state
\* agrees with the registry, for any number of attempts broken off anywhere.
THEOREM PublicationInvariant == Spec => []PubInv
<1> QED BY InitPub, StepPub, PTL DEF Spec

------------------------------------------------------------------------------
(* What the preflight has asked, what the attempt has published and verified. *)

Served == \A p \in Packages : visible[p] # "hidden" => registry[p] # None

\* The exported state stems from this attempt or from an earlier one.
Exported == producer = None \/ producer = now \/ Later(now, producer)

\* What the preflight did not find missing is the reviewed archive.
Asked ==
    \A p \in Packages :
        /\ (pc = "preflight" /\ p < i) \/ pc \in {"publish", "export"}
        /\ ~state[p]
        => registry[p] # None /\ registry[p].bytes = archive[p]

\* What it found missing, this attempt has published.
Done(p) == \/ pc = "publish" /\ p < i
           \/ pc = "export"
           \/ pc \in EvidenceJob /\ producer = now
DidPublish == \A p \in Packages : Done(p) /\ state[p] => registry[p] # None /\ registry[p].by = now

\* What verify-published has found of a package.
Compared(p) == registry[p] # None /\ registry[p].bytes = evidence[p]
Verified(p) == Compared(p) /\ Bound(p) /\ CurrentOrigin(p)
Findings ==
    \A p \in Packages :
        /\ \/ pc \in EvidenceJob /\ p < i
           \/ pc = "record" \/ (pc = "consumer" /\ p = i)
           => Verified(p)
        /\ pc \in {"tarball", "origin", "view"} /\ p = i => Compared(p)

JobInv == Served /\ Exported /\ Asked /\ DidPublish /\ Findings

\* No job has found anything in the beginning.
LEMMA InitJob == Init => JobInv
<1> SUFFICES ASSUME Init PROVE JobInv
  OBVIOUS
<1>1. pc = "pack" /\ producer = None /\ \A p \in Packages : visible[p] = "hidden"
  BY DEF Init
<1> QED BY <1>1 DEF JobInv, Served, Exported, Asked, DidPublish, Done, Findings, EvidenceJob

\* Steps that leave the attempt's own variables alone, whatever appears in the registry.
LEMMA RegistryJob ==
  ASSUME TypeOK, JobInv, [Next]_vars,
         UNCHANGED <<now, pc, i, state, producer>>,
         \/ UNCHANGED <<archive, evidence>>
         \/ pc \in VerifyJob
  PROVE  Exported' /\ Asked' /\ DidPublish' /\ Findings'
<1>1. \A p \in Packages : registry[p] # None => registry'[p] = registry[p]
  BY RegistryMoves
<1>2. Exported'
  BY DEF JobInv, Exported, Later
<1>3. Asked'
  BY <1>1 DEF JobInv, Asked, VerifyJob
<1>4. DidPublish'
  BY <1>1 DEF JobInv, DidPublish, Done
<1>5. Findings'
  <2> SUFFICES ASSUME NEW p \in Packages, Compared(p), UNCHANGED evidence
               PROVE  Compared(p)' /\ (Verified(p) => Verified(p)')
    BY DEF JobInv, Findings, VerifyJob, EvidenceJob, Verified
  <2>1. registry[p] # None /\ registry'[p] = registry[p]
    BY <1>1 DEF Compared
  <2> QED BY <2>1 DEF Compared, Verified, Bound, CurrentOrigin, NormalizedState
<1> QED BY <1>2, <1>3, <1>4, <1>5

\* Every step keeps that what is visible is in the registry.
LEMMA StepServed ==
  ASSUME TypeOK, JobInv, [Next]_vars
  PROVE  Served'
<1> SUFFICES ASSUME NEW p \in Packages, visible'[p] # "hidden" PROVE registry'[p] # None
  BY DEF Served
<1>1. CASE visible'[p] = visible[p]
  BY <1>1, RegistryMoves DEF JobInv, Served
<1>2. CASE visible'[p] # visible[p]
  <2>1. ASSUME NEW q \in Packages, Outsiders(q) PROVE registry'[p] # None
    BY <1>2, <2>1 DEF Outsiders, PublishedElsewhere, Propagate, DocumentChanges, TypeOK
  <2>2. ASSUME ScriptStep \/ BreakOff \/ NewAttempt PROVE UNCHANGED visible
    BY <2>2 DEF ScriptStep, Pack, PackEvidence, CheckArtifact, Preflight, NpmPublish, SkipPublish, Export, Look, ReadView,
       CompareTarball, CheckOrigin, VerifyConsumer, Record, BreakOff, NewAttempt, RerunFailed, RerunAll, Dispatch, Afresh,
       Start, outside, local
  <2> QED BY <1>2, <2>1, <2>2, Steps DEF vars
<1> QED BY <1>1, <1>2

\* Every step keeps what each job has found.
LEMMA StepJob ==
  ASSUME PubInv, JobInv, [Next]_vars
  PROVE  JobInv'
<1>t. /\ TypeOK /\ Handoff /\ OwnVersions /\ i \in Packages /\ state \in [Packages -> BOOLEAN]
      /\ now \in Coordinates /\ \A p \in Packages : p \in Nat
  BY DEF PubInv, TypeOK, Packages
<1>r. \A p \in Packages : registry[p] # None => registry'[p] = registry[p]
  BY <1>t, RegistryMoves
<1>s. Served'
  BY <1>t, StepServed
<1>h. pc \notin VerifyJob => \A p \in Packages : archive[p] = evidence[p]
  BY <1>t DEF Handoff
<1> SUFFICES Exported' /\ Asked' /\ DidPublish' /\ Findings'
  BY <1>s DEF JobInv
<1>1. CASE Pack \/ PackEvidence
  <2>1. pc' \in VerifyJob /\ UNCHANGED <<now, producer>>
    BY <1>1 DEF Pack, PackEvidence, At, Again, Goto, Refuse, End, VerifyJob
  <2> QED BY <2>1 DEF JobInv, Exported, Asked, DidPublish, Done, Findings, VerifyJob, EvidenceJob, Later
<1>2. CASE CheckArtifact
  <2>1. UNCHANGED <<now, producer>> /\ (pc' = "check" \/ (pc' = "preflight" /\ i' = 1))
    BY <1>2 DEF CheckArtifact, At, Again, Goto, Refuse, End, local
  <2> QED BY <2>1 DEF JobInv, Exported, Asked, DidPublish, Done, Findings, VerifyJob, EvidenceJob, Later, Packages
<1>3. CASE Preflight
  <2>1. pc = "preflight" /\ UNCHANGED <<now, producer, archive, evidence, registry>>
    BY <1>3 DEF Preflight, At, local, outside
  <2>2. \/ /\ Again("preflight", "publish") /\ state' = [state EXCEPT ![i] = TRUE]
        \/ /\ Again("preflight", "publish") /\ state' = [state EXCEPT ![i] = FALSE]
           /\ registry[i] # None /\ registry[i].bytes = archive[i]
        \/ pc' = pc /\ i' = i /\ state' = state
    BY <1>3, <1>t DEF Preflight, Refuse, End, JobInv, Served
  <2>3. CASE pc' = pc /\ i' = i /\ state' = state
    BY <1>t, <2>1, <2>3, RegistryJob
  <2>4. CASE ~(pc' = pc /\ i' = i /\ state' = state)
    <3>1. \A p \in Packages : (p < i \/ p = i) /\ ~state'[p] => registry[p] # None /\ registry[p].bytes = archive[p]
      <4> SUFFICES ASSUME NEW p \in Packages, p < i \/ p = i, ~state'[p]
                   PROVE  registry[p] # None /\ registry[p].bytes = archive[p]
        OBVIOUS
      <4>1. CASE p = i
        <5>1. state' # [state EXCEPT ![i] = TRUE]
          BY <1>t, <4>1
        <5> QED BY <2>2, <2>4, <4>1, <5>1
      <4>2. CASE p # i
        <5>1. state'[p] = state[p] /\ p < i
          BY <1>t, <2>2, <2>4, <4>2
        <5> QED BY <2>1, <5>1 DEF JobInv, Asked
      <4> QED BY <4>1, <4>2
    <3>2. CASE i < N
      <4>1. pc' = "preflight" /\ i' = i + 1
        BY <2>2, <2>4, <3>2 DEF Again
      <4>2. \A p \in Packages : p < i + 1 => p < i \/ p = i
        BY <1>t
      <4> QED BY <2>1, <3>1, <4>1, <4>2 DEF JobInv, Exported, Asked, DidPublish, Done, Findings, EvidenceJob, Later
    <3>3. CASE ~(i < N)
      <4>1. pc' = "publish" /\ i' = 1
        BY <2>2, <2>4, <3>3 DEF Again, Goto
      <4>2. \A p \in Packages : (p < i \/ p = i) /\ ~(p < 1)
        BY <1>t, <3>3 DEF Packages
      <4> QED BY <2>1, <3>1, <4>1, <4>2 DEF JobInv, Exported, Asked, DidPublish, Done, Findings, EvidenceJob, Later
    <3> QED BY <3>2, <3>3
  <2> QED BY <2>3, <2>4
<1>4. CASE NpmPublish \/ SkipPublish
  <2>1. pc = "publish" /\ UNCHANGED <<now, producer, archive, evidence, state>>
        /\ (Again("publish", "export") \/ (pc' = pc /\ i' = i))
    BY <1>4 DEF NpmPublish, SkipPublish, At, End, local
  <2>2. state[i] /\ Again("publish", "export") => registry'[i] # None /\ registry'[i].by = now
    <3>1. CASE NpmPublish
      <4>1. registry'[i] = [bytes |-> archive[i], by |-> now]
        BY <1>t, <3>1 DEF NpmPublish, Versions, TypeOK
      <4>2. archive[i] \in Bytes
        BY <1>t, <2>1 DEF Handoff, TypeOK, VerifyJob
      <4> QED BY <1>t, <4>1, <4>2, ConstantTypes DEF Versioned
    <3>2. CASE SkipPublish
      BY <3>2 DEF SkipPublish
    <3> QED BY <1>4, <3>1, <3>2
  <2>3. CASE pc' = pc /\ i' = i
    BY <1>t, <2>1, <2>3, RegistryJob
  <2>4. CASE Again("publish", "export")
    <3>1. \A p \in Packages : (p < i \/ p = i) /\ state[p] => registry'[p] # None /\ registry'[p].by = now
      BY <1>t, <1>r, <2>1, <2>2, <2>4 DEF JobInv, DidPublish, Done
    <3>2. \A p \in Packages : ~state[p] => registry'[p] # None /\ registry'[p].bytes = archive[p]
      BY <1>r, <2>1 DEF JobInv, Asked
    <3>3. CASE i < N
      <4>1. pc' = "publish" /\ i' = i + 1
        BY <2>4, <3>3 DEF Again
      <4>2. \A p \in Packages : p < i + 1 => p < i \/ p = i
        BY <1>t
      <4> QED BY <2>1, <3>1, <3>2, <4>1, <4>2 DEF JobInv, Exported, Asked, DidPublish, Done, Findings, EvidenceJob, Later
    <3>4. CASE ~(i < N)
      <4>1. pc' = "export" /\ i' = 1
        BY <2>4, <3>4 DEF Again, Goto
      <4>2. \A p \in Packages : p < i \/ p = i
        BY <1>t, <3>4 DEF Packages
      <4> QED BY <2>1, <3>1, <3>2, <4>1, <4>2 DEF JobInv, Exported, Asked, DidPublish, Done, Findings, EvidenceJob, Later
    <3> QED BY <3>3, <3>4
  <2> QED BY <2>1, <2>3, <2>4
<1>5. CASE Export
  <2>1. pc = "export" /\ pc' = "look" /\ i' = 1 /\ producer' = now /\ UNCHANGED <<now, state, registry, archive, evidence>>
    BY <1>5 DEF Export, At, Goto, local, outside
  <2>2. \A p \in Packages : ~(p < 1)
    BY <1>t DEF Packages
  <2> QED BY <2>1, <2>2 DEF JobInv, Exported, Asked, DidPublish, Done, Findings, EvidenceJob
<1>6. CASE Look \/ ReadView \/ CompareTarball \/ CheckOrigin \/ VerifyConsumer
  <2>1. /\ pc \in EvidenceJob \ {"record"} /\ pc' \in EvidenceJob
        /\ UNCHANGED <<now, producer, archive, evidence, state, registry>>
    BY <1>6 DEF Look, ReadView, CompareTarball, CheckOrigin, VerifyConsumer, At, Again, Goto, Step, Refuse, End,
       local, outside, EvidenceJob
  <2>2. Exported' /\ Asked' /\ DidPublish'
    BY <2>1 DEF JobInv, Exported, Asked, DidPublish, Done, EvidenceJob, Later
  <2>3. \A p \in Packages : (Compared(p)' <=> Compared(p)) /\ (Verified(p)' <=> Verified(p))
    BY <2>1 DEF Compared, Verified, Bound, CurrentOrigin, NormalizedState
  <2>4. Findings'
    <3>1. CASE VerifyConsumer /\ registry[i].bytes \notin Unusable
      <4>1. pc = "consumer" /\ Again("look", "record")
        BY <3>1 DEF VerifyConsumer, At
      <4>2. \A p \in Packages : p < i \/ p = i => Verified(p)
        BY <4>1 DEF JobInv, Findings, EvidenceJob
      <4>3. CASE i < N
        <5>1. pc' = "look" /\ i' = i + 1
          BY <4>1, <4>3 DEF Again
        <5>2. \A p \in Packages : p < i + 1 => p < i \/ p = i
          BY <1>t
        <5> QED BY <2>3, <4>2, <5>1, <5>2 DEF Findings
      <4>4. CASE ~(i < N)
        <5>1. pc' = "record" /\ i' = 1
          BY <4>1, <4>4 DEF Again, Goto
        <5>2. \A p \in Packages : p < i \/ p = i
          BY <1>t, <4>4 DEF Packages
        <5> QED BY <2>3, <4>2, <5>1, <5>2 DEF Findings
      <4> QED BY <4>3, <4>4
    <3>2. CASE ~(VerifyConsumer /\ registry[i].bytes \notin Unusable)
      <4>1. /\ i' = i
            /\ pc' = "consumer" => pc = "consumer" \/ (pc = "origin" /\ Bound(i) /\ CurrentOrigin(i))
            /\ pc' \in {"tarball", "origin", "view"} => pc \in {"tarball", "origin", "view"} \/ (Look /\ registry[i].bytes = evidence[i])
            /\ pc' # "record"
        BY <1>6, <3>2 DEF Look, ReadView, CompareTarball, CheckOrigin, VerifyConsumer, At, Step, Refuse, End
      <4>2. pc' \in {"tarball", "origin", "view"} => Compared(i)
        <5>1. CASE Look /\ registry[i].bytes = evidence[i]
          BY <1>t, <5>1 DEF Look, JobInv, Served, Compared
        <5>2. CASE pc \in {"tarball", "origin", "view"}
          BY <1>t, <5>2 DEF JobInv, Findings
        <5> QED BY <4>1, <5>1, <5>2
      <4>3. pc' = "consumer" => Verified(i)
        BY <1>t, <4>1 DEF JobInv, Findings, Verified
      <4> QED BY <2>1, <2>3, <4>1, <4>2, <4>3 DEF JobInv, Findings
    <3> QED BY <3>1, <3>2
  <2> QED BY <2>2, <2>4
<1>7. CASE Record \/ BreakOff
  <2>1. /\ UNCHANGED <<now, pc, i, state, producer>>
        /\ UNCHANGED <<archive, evidence>> \/ pc \in VerifyJob
    BY <1>7 DEF Record, BreakOff, CutOff, End, local, VerifyJob
  <2> QED BY <1>t, <2>1, RegistryJob
<1>8. CASE NewAttempt
  <2>1. \A c \in Coordinates : c = now \/ Later(now, c) => Later(now', c) /\ c # now'
    BY <1>8, <1>t, NewCoordinates
  <2>2. producer' \in {producer, None} /\ i' = 1 /\ pc' \in {"pack", "check", "preflight", "look"}
    BY <1>8 DEF NewAttempt, RerunFailed, RerunAll, Dispatch, Afresh, Start
  <2>3. producer' = None \/ (producer' \in Coordinates /\ Later(now', producer') /\ producer' # now')
    BY <1>t, <2>1, <2>2 DEF JobInv, Exported, TypeOK
  <2>4. Exported'
    BY <2>3 DEF Exported
  <2>5. producer' # now'
    BY <2>3, <1>8, <1>t, AttemptType, ConstantTypes DEF TypeOK
  <2>6. \A p \in Packages : ~(p < 1)
    BY <1>t DEF Packages
  <2> QED BY <2>2, <2>4, <2>5, <2>6 DEF Asked, DidPublish, Done, Findings
<1>9. CASE (\E q \in Packages : Outsiders(q)) \/ UNCHANGED vars
  <2>1. UNCHANGED <<now, pc, i, state, producer, archive, evidence>>
    BY <1>9 DEF Outsiders, PublishedElsewhere, Propagate, DocumentChanges, vars
  <2> QED BY <1>t, <2>1, RegistryJob
<1> QED BY <1>1, <1>2, <1>3, <1>4, <1>5, <1>6, <1>7, <1>8, <1>9, Steps DEF ScriptStep

\* Both invariants always hold.
LEMMA JobInvariant == Spec => [](PubInv /\ JobInv)
<1>1. Init => PubInv /\ JobInv
  BY InitPub, InitJob
<1>2. PubInv /\ JobInv /\ [Next]_vars => (PubInv /\ JobInv)'
  BY StepPub, StepJob
<1> QED BY <1>1, <1>2, PTL DEF Spec

\* Before any version of its own is published the attempt has asked about every package.
THEOREM AsksFirst == Spec => PreflightsWholeSet
<1>1. PubInv /\ JobInv /\ [Next]_vars =>
        \A p \in Packages : registry[p] = None /\ registry'[p] # None /\ registry'[p].by # Foreign =>
           \A q \in Packages : registry[q] # None /\ registry[q].bytes # archive[q] => state[q]
  <2> SUFFICES ASSUME PubInv, JobInv, [Next]_vars,
                      NEW p \in Packages, registry[p] = None, registry'[p] # None, registry'[p].by # Foreign,
                      NEW q \in Packages, registry[q].bytes # archive[q]
               PROVE  state[q]
    OBVIOUS
  <2>1. NpmPublish
    BY RegistryMoves DEF PubInv
  <2> QED BY <2>1 DEF NpmPublish, At, JobInv, Asked
<1> QED BY <1>1, JobInvariant, PTL DEF Spec, PreflightsWholeSet

------------------------------------------------------------------------------
(* What has been written of the registry stays true of it.                    *)

Recorded == \A r \in records : r.package \in Packages /\ registry[r.package] # None

Retained(m, p) == [bytes |-> registry[p].bytes, provenance |-> registry[p].by, mode |-> "published",
                   retained |-> m[p].retained]
FixedTrue == \A f \in fixed : \A p \in Packages : registry[p] # None /\ f.manifest[p] = Retained(f.manifest, p)

History == Recorded /\ RecordsTrue /\ FixedTrue

\* No record has been written in the beginning.
LEMMA InitHistory == Init => History
  BY DEF Init, History, Recorded, RecordsTrue, FixedTrue

\* Every step keeps the written records true.
LEMMA StepHistory ==
  ASSUME PubInv, JobInv, History, [Next]_vars
  PROVE  History'
<1>r. \A p \in Packages : registry[p] # None => registry'[p] = registry[p]
  BY RegistryMoves DEF PubInv
<1>1. CASE UNCHANGED <<records, fixed>>
  <2>1. Recorded' /\ RecordsTrue'
    BY <1>1, <1>r DEF History, Recorded, RecordsTrue, Registered
  <2>2. FixedTrue'
    <3> SUFFICES ASSUME NEW f \in fixed, NEW p \in Packages
                 PROVE  registry'[p] # None /\ f.manifest[p] = Retained(f.manifest, p)'
      BY <1>1 DEF FixedTrue
    <3>1. registry[p] # None /\ f.manifest[p] = Retained(f.manifest, p)
      BY DEF History, FixedTrue
    <3>2. registry'[p] = registry[p]
      BY <1>r, <3>1
    <3> QED BY <3>1, <3>2 DEF Retained
  <2> QED BY <2>1, <2>2 DEF History
<1>2. CASE Record
  <2>1. pc = "record" /\ UNCHANGED <<registry, now>>
    BY <1>2 DEF Record, At, local, outside
  <2>2. ASSUME NEW p \in Packages
        PROVE  /\ registry[p] # None /\ registry[p] = Registered(evidence[p], registry[p].by)
               /\ registry[p].by # Foreign
               /\ NormalizedState[p] <=> registry[p].by = now
    <3>1. Verified(p)
      BY <2>1 DEF JobInv, Findings
    <3>2. registry[p] # None /\ registry[p].bytes = evidence[p] /\ registry[p].by # Foreign
      BY <3>1 DEF Verified, Compared, Bound
    <3>3. registry[p] = Registered(evidence[p], registry[p].by)
      BY <3>2 DEF PubInv, TypeOK, Registered
    <3>4. NormalizedState[p] => registry[p].by = now
      BY <3>1 DEF Verified, CurrentOrigin
    <3>5. registry[p].by = now => NormalizedState[p]
      <4> SUFFICES ASSUME registry[p].by = now PROVE state[p] /\ producer = now
        BY DEF NormalizedState
      <4> QED BY <2>1, <3>2 DEF PubInv, OwnVersions, EvidenceJob
    <3> QED BY <3>2, <3>3, <3>4, <3>5
  <2>3. ASSUME NEW r \in records'
        PROVE  /\ r.package \in Packages /\ registry[r.package] # None
               /\ registry[r.package] = Registered(r.bytes, r.provenance)
               /\ r.provenance # Foreign
               /\ (r.mode = "published") <=> (r.provenance = r.adoption)
    <3>1. CASE r \in records
      BY <3>1 DEF History, Recorded, RecordsTrue
    <3>2. CASE r \notin records
      <4>1. PICK p \in Packages : r = AdoptionRecord(p)
        BY <1>2, <3>2 DEF Record
      <4>2. /\ r.package = p /\ r.bytes = evidence[p] /\ r.provenance = registry[p].by /\ r.adoption = now
            /\ r.mode = IF NormalizedState[p] THEN "published" ELSE "adopted_existing"
        BY <4>1 DEF AdoptionRecord, Mode
      <4>3. r.mode = "published" <=> NormalizedState[p]
        BY <4>2
      <4> QED BY <2>2, <4>2, <4>3
    <3> QED BY <3>1, <3>2
  <2>4. ASSUME NEW f \in fixed', NEW p \in Packages
        PROVE  registry[p] # None /\ f.manifest[p] = Retained(f.manifest, p)
    <3>1. CASE f \in fixed
      BY <3>1 DEF History, FixedTrue
    <3>2. CASE f \notin fixed
      <4>1. f = [at |-> now, manifest |-> Manifest]
        BY <1>2, <3>2 DEF Record
      <4>2. f.manifest[p] = [bytes |-> evidence[p], provenance |-> registry[p].by, mode |-> "published", retained |-> read[p]]
        BY <4>1 DEF Manifest
      <4>3. registry[p] # None /\ registry[p].bytes = evidence[p]
        BY <2>1 DEF JobInv, Findings, Verified, Compared
      <4> QED BY <4>2, <4>3 DEF Retained
    <3> QED BY <3>1, <3>2
  <2>5. Recorded' /\ RecordsTrue'
    BY <2>1, <2>3 DEF Recorded, RecordsTrue
  <2>6. FixedTrue'
    BY <2>1, <2>4 DEF FixedTrue, Retained
  <2> QED BY <2>5, <2>6 DEF History
<1>3. ~Record => UNCHANGED <<records, fixed>>
  BY DEF Next, Pack, PackEvidence, CheckArtifact, Preflight, NpmPublish, SkipPublish, Export, Look, ReadView,
     CompareTarball, CheckOrigin, VerifyConsumer, BreakOff, RerunFailed, RerunAll, Dispatch, Afresh, Start,
     PublishedElsewhere, Propagate, DocumentChanges, history, vars
<1> QED BY <1>1, <1>2, <1>3

\* The written records are always true.
LEMMA HistoryInvariant == Spec => []History
<1>1. Init => History
  BY InitHistory
<1>2. PubInv /\ JobInv /\ History /\ [Next]_vars => History'
  BY StepHistory
<1> QED BY <1>1, <1>2, JobInvariant, PTL DEF Spec

\* The adoption records are true of the registry.
THEOREM TrueRecords == Spec => []RecordsTrue
<1>1. History => RecordsTrue
  BY DEF History
<1> QED BY <1>1, HistoryInvariant, PTL

\* What the fixed assets state is the same in every attempt and fits every adoption record.
THEOREM StableFacts == Spec => []FixedFactsStable
<1>1. History => FixedFactsStable
  <2> SUFFICES ASSUME History PROVE FixedFactsStable
    OBVIOUS
  <2>1. ASSUME NEW f \in fixed, NEW p \in Packages
        PROVE  Facts(f.manifest[p]) = <<registry[p].bytes, registry[p].by, "published">>
    <3>1. f.manifest[p] = Retained(f.manifest, p)
      BY DEF History, FixedTrue
    <3>2. /\ f.manifest[p].bytes = registry[p].bytes /\ f.manifest[p].provenance = registry[p].by
          /\ f.manifest[p].mode = "published"
      BY <3>1 DEF Retained
    <3> QED BY <3>2 DEF Facts
  <2>2. ASSUME NEW f \in fixed, NEW r \in records
        PROVE  f.manifest[r.package].bytes = r.bytes /\ f.manifest[r.package].provenance = r.provenance
    <3>1. f.manifest[r.package] = Retained(f.manifest, r.package)
      BY DEF History, FixedTrue, Recorded
    <3>2. registry[r.package] = Registered(r.bytes, r.provenance)
      BY DEF History, RecordsTrue
    <3>3. registry[r.package].bytes = r.bytes /\ registry[r.package].by = r.provenance
      BY <3>2 DEF Registered
    <3> QED BY <3>1, <3>3 DEF Retained
  <2> QED BY <2>1, <2>2 DEF FixedFactsStable
<1> QED BY <1>1, HistoryInvariant, PTL

------------------------------------------------------------------------------
(* The causes of a refusal.                                                   *)

Cause == \E p \in Packages : registry[p] # None /\ (registry[p].bytes # archive[p] \/ registry[p].by = Foreign)

\* A step that refuses an attempt has a cause.
LEMMA StepRefusal ==
  ASSUME PubInv, JobInv, RefusesOnlyForCause, [Next]_vars
  PROVE  RefusesOnlyForCause'
<1> SUFFICES ASSUME status' = "refused", pc' \notin VerifyJob PROVE Cause'
  BY DEF RefusesOnlyForCause, Cause
<1>t. i \in Packages /\ now \in Coordinates
  BY DEF PubInv, TypeOK
<1>r. \A p \in Packages : registry[p] # None => registry'[p] = registry[p]
  BY RegistryMoves DEF PubInv
<1>1. CASE status = "refused"
  <2>1. UNCHANGED <<pc, archive>>
    BY <1>1 DEF Next, Pack, PackEvidence, CheckArtifact, Preflight, NpmPublish, SkipPublish, Export, Look, ReadView,
       CompareTarball, CheckOrigin, VerifyConsumer, Record, BreakOff, RerunFailed, RerunAll, Dispatch, Afresh, Start, At,
       PublishedElsewhere, Propagate, DocumentChanges, vars
  <2>2. PICK p \in Packages : registry[p] # None /\ (registry[p].bytes # archive[p] \/ registry[p].by = Foreign)
    BY <1>1, <2>1 DEF RefusesOnlyForCause
  <2> QED BY <2>1, <2>2, <1>r DEF Cause
<1>2. CASE status # "refused"
  <2>1. /\ Preflight \/ Look \/ CompareTarball \/ CheckOrigin \/ VerifyConsumer
        /\ pc \notin VerifyJob /\ UNCHANGED <<registry, archive>>
    BY <1>2 DEF Next, Pack, PackEvidence, CheckArtifact, Preflight, NpmPublish, SkipPublish, Export, Look, ReadView,
       CompareTarball, CheckOrigin, VerifyConsumer, Record, BreakOff, RerunFailed, RerunAll, Dispatch, Afresh, Start, At,
       PublishedElsewhere, Propagate, DocumentChanges, vars, Again, Goto, Step, Refuse, End, VerifyJob, local, outside
  <2>2. SUFFICES registry[i] # None /\ (registry[i].bytes # archive[i] \/ registry[i].by = Foreign)
    BY <1>t, <2>1 DEF Cause
  <2>3. archive[i] = evidence[i]
    BY <1>t, <2>1 DEF PubInv, Handoff
  <2>4. registry[i] # None /\ registry[i].bytes \in Malformed \cup Unusable => registry[i].by = Foreign
    BY <1>t DEF PubInv, OwnVersions
  <2>5. CASE Preflight
    BY <1>2, <1>t, <2>3, <2>5 DEF Preflight, Again, Goto, Refuse, End, At, JobInv, Served
  <2>6. CASE Look
    BY <1>2, <1>t, <2>3, <2>6 DEF Look, Step, Refuse, End, At, JobInv, Served
  <2>7. CASE CompareTarball
    BY <1>2, <1>t, <2>7 DEF CompareTarball, Step, Refuse, End, At, JobInv, Findings, Compared
  <2>8. CASE CheckOrigin
    <3>1. pc = "origin" /\ ~(Bound(i) /\ CurrentOrigin(i) /\ Inspected(registry[i].bytes)) /\ registry[i] # None
      BY <1>2, <1>t, <2>8 DEF CheckOrigin, Step, At, JobInv, Findings, Compared
    <3>2. CurrentOrigin(i)
      <4> SUFFICES ASSUME state[i], producer = now PROVE registry[i].by = now
        BY <1>t DEF CurrentOrigin, NormalizedState
      <4> QED BY <1>t, <3>1 DEF JobInv, DidPublish, Done, EvidenceJob
    <3> QED BY <2>4, <3>1, <3>2 DEF Bound, Inspected
  <2>9. CASE VerifyConsumer
    <3>1. pc = "consumer" /\ registry[i].bytes \in Unusable
      BY <1>2, <2>9 DEF VerifyConsumer, Again, Goto, At
    <3>2. registry[i] # None
      BY <1>t, <3>1 DEF JobInv, Findings, Verified, Compared
    <3> QED BY <2>4, <3>1, <3>2
  <2> QED BY <2>1, <2>5, <2>6, <2>7, <2>8, <2>9
<1> QED BY <1>1, <1>2

\* An attempt that got past the check of the archives is refused only for what others did.
THEOREM CausedRefusals == Spec => []RefusesOnlyForCause
<1>1. Init => RefusesOnlyForCause
  BY DEF Init, RefusesOnlyForCause
<1>2. PubInv /\ JobInv /\ RefusesOnlyForCause /\ [Next]_vars => RefusesOnlyForCause'
  BY StepRefusal
<1> QED BY <1>1, <1>2, JobInvariant, PTL DEF Spec

==============================================================================
