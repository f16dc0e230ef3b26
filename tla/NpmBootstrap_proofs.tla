-------------------------- MODULE NpmBootstrap_proofs --------------------------
(******************************************************************************)
(* Proofs about NpmBootstrap, for any number of runs, packages, polls and      *)
(* changes of the checkout: how often the checkout must have changed for       *)
(* anything but the reviewed archives to be published, that completed.json is  *)
(* right, whose latest tag is removed, and that a run which nothing disturbs   *)
(* does not fail.                                                              *)
(******************************************************************************)
EXTENDS NpmBootstrap, TLAPS

USE BootstrapAssumption

PCs == Active \cup Ended \cup {"idle"}

\* Steps that move r on and change nothing else.
Checking(r) == \/ CheckHead(r) \/ CheckClean(r) \/ CheckBytes(r) \/ CheckHeadAgain(r)
               \/ AssertSource(r) \/ OpenOutput(r) \/ Pack(r)
Looking(r) == \/ InspectLocal(r) \/ Skip(r) \/ Recover(r) \/ PollSucceeds(r) \/ Close(r)
Moving(r) == Checking(r) \/ Looking(r) \/ Reject(r)

RunStep(r) == Begin(r) \/ Step(r) \/ BreakOff(r)

------------------------------------------------------------------------------
(* Types.                                                                     *)

\* A run that has not begun has its types.
LEMMA InitType == Init => TypeOK
<1> SUFFICES ASSUME Init PROVE TypeOK
  OBVIOUS
<1>1. out \in [Files -> Contents]
  BY DEF Init, Contents
<1>2. reg \in [Packages -> Holdings]
  BY DEF Init, Holdings
<1>3. pc \in [Runs -> PCs] /\ at \in [Runs -> Files \ {Stray}]
  BY DEF Init, PCs, Files, Stray
<1>4. license \in [Runs -> Licenses] /\ view \in [Runs -> [Packages -> States]]
  BY DEF Init, Licenses, States
<1>5. \A r \in Runs : pc[r] = "idle"
  BY DEF Init
<1> QED BY <1>1, <1>2, <1>3, <1>4, <1>5 DEF Init, TypeOK, PCs, Waiting, Publishing

\* Where a step of a run that moves by Goto leaves pc and at.
LEMMA GotoType ==
  ASSUME TypeOK, NEW r \in Runs, NEW where \in PCs, NEW n \in Files \ {Stray}, Goto(r, where, n)
  PROVE  /\ pc' \in [Runs -> PCs] /\ at' \in [Runs -> Files \ {Stray}]
         /\ pc'[r] = where /\ at'[r] = n
         /\ \A q \in Runs : q # r => pc'[q] = pc[q] /\ at'[q] = at[q]
  BY DEF TypeOK, Goto, PCs

\* Within the phases that loop over the packages, at is a package.
LEMMA PackageType ==
  ASSUME TypeOK, NEW r \in Runs,
         pc[r] \in {"pack", "local", "survey", "act", "preflight", "removing", "closing"} \cup Waiting
  PROVE  at[r] \in Packages
  BY DEF TypeOK

\* Which files there are, and which comes after which.
LEMMA FileType == /\ \A n \in Packages : n \in Files \ {Stray} /\ (n < NPackages => n + 1 \in Packages)
                  /\ 1 \in Packages
                  /\ Inspection \in Files \ {Stray} /\ Completed \in Files \ {Stray}
                  /\ \A n \in Files \ {Stray} : n < NPackages => n + 1 \in Packages
  BY DEF Packages, Files, Stray, Inspection, Completed

\* A step from one step of the script to the next keeps the types.
LEMMA MovingType ==
  ASSUME TypeOK, NEW r \in Runs, Moving(r)
  PROVE  TypeOK'
<1> DEFINE Looping == {"pack", "local", "survey", "act", "preflight", "removing", "closing"} \cup Waiting
<1>1. \E where \in PCs, n \in Files \ {Stray} :
         /\ Goto(r, where, n)
         /\ where \in Looping => n \in Packages
         /\ where \in Publishing => round[r] = 2
  <2>1. CASE Checking(r)
    BY <2>1, PackageType, FileType DEF Checking, CheckHead, CheckClean, CheckBytes, CheckHeadAgain, AssertSource,
       OpenOutput, Pack, Proceed, PCs, Active, Verifying, Building, Writing, Publishing, Waiting, TypeOK
  <2>2. CASE Looking(r)
    <3>1. at[r] \in Packages /\ round[r] = 2
      BY <2>2, PackageType DEF Looking, InspectLocal, Skip, Recover, PollSucceeds, Close, TypeOK, Waiting, Publishing
    <3> QED BY <2>2, <3>1, FileType DEF Looking, InspectLocal, Skip, Recover, PollSucceeds, Close, NextPackage, NextAct,
         Proceed, PCs, Active, Verifying, Building, Writing, Publishing, Waiting
  <2>3. CASE Reject(r)
    BY <2>3, FileType DEF Reject, Proceed, PCs, Ended, Waiting, Publishing
  <2> QED BY <2>1, <2>2, <2>3 DEF Moving
<1>2. UNCHANGED <<world, mode, round, license, view, tries, calm, aware>>
  BY DEF Moving, Checking, CheckHead, CheckClean, CheckBytes, CheckHeadAgain, AssertSource, OpenOutput, Pack,
     Looking, InspectLocal, Skip, Recover, PollSucceeds, Close, Reject, Proceed
<1>3. PICK where \in PCs, n \in Files \ {Stray} :
         /\ Goto(r, where, n)
         /\ where \in Looping => n \in Packages
         /\ where \in Publishing => round[r] = 2
  BY <1>1
<1>4. pc' \in [Runs -> PCs] /\ at' \in [Runs -> Files \ {Stray}]
  BY <1>3, GotoType
<1>5. \A q \in Runs : /\ pc'[q] \in Looping => at'[q] \in Packages
                      /\ pc'[q] \in Publishing => round[q] = 2
  BY <1>3, GotoType DEF TypeOK
<1> QED BY <1>2, <1>4, <1>5 DEF TypeOK, world, PCs

\* After a file is in order the loop goes to the next package, or to the inspection, or ends.
LEMMA WrittenType ==
  ASSUME TypeOK, NEW r \in Runs, pc[r] \in Writing, Written(r)
  PROVE  /\ pc' \in [Runs -> PCs] /\ at' \in [Runs -> Files \ {Stray}] /\ round' \in [Runs -> 1 .. 2]
         /\ \A q \in Runs : q # r => pc'[q] = pc[q] /\ at'[q] = at[q] /\ round'[q] = round[q]
         /\ pc'[r] \in {"pack", "comparing", "head", "done"}
         /\ pc'[r] = "pack" => at'[r] \in Packages
<1>1. at[r] \in Files \ {Stray}
  BY DEF TypeOK
<1>2. at[r] < NPackages => at[r] + 1 \in Packages /\ at[r] + 1 \in Files \ {Stray}
  BY <1>1, FileType
<1>3. \/ Goto(r, "pack", at[r] + 1) /\ at[r] < NPackages /\ round' = round
      \/ Goto(r, "comparing", Inspection) /\ round' = round
      \/ Goto(r, "head", 1) /\ round' = [round EXCEPT ![r] = 2]
      \/ Goto(r, "done", 1) /\ round' = round
  BY DEF Written
<1>4. {"pack", "comparing", "head", "done"} \subseteq PCs
  BY DEF PCs, Active, Verifying, Building, Writing, Ended
<1>5. round \in [Runs -> 1 .. 2]
  BY DEF TypeOK
<1> QED BY <1>2, <1>3, <1>4, <1>5, FileType, GotoType DEF Goto

\* The steps that also change what the runs share, or a run's other variables.
LEMMA ActingType ==
  ASSUME TypeOK, NEW r \in Runs,
         Begin(r) \/ ReadLicense(r) \/ Survey(r) \/ Publish(r) \/ PublishFails(r) \/ Preflight(r)
         \/ RemoveLatest(r) \/ PollAgain(r) \/ GiveUp(r) \/ BreakOff(r) \/ Compare(r) \/ Create(r)
  PROVE  TypeOK'
<1>f. /\ pc \in [Runs -> PCs] /\ at \in [Runs -> Files \ {Stray}] /\ 1 \in Packages
      /\ \A n \in Packages : n \in Files \ {Stray} /\ (n < NPackages => n + 1 \in Packages)
  BY FileType DEF TypeOK, PCs
<1>1. CASE Begin(r)
  BY <1>1, <1>f DEF Begin, Goto, TypeOK, world, PCs, Active, Verifying, Publishing, Waiting, Undisturbed
<1>2. CASE ReadLicense(r)
  BY <1>2, <1>f DEF ReadLicense, Goto, TypeOK, world, PCs, Active, Building, Publishing, Waiting, OnDisk, Licenses
<1>3. CASE Survey(r)
  <2>1. at[r] \in Packages /\ round[r] = 2 /\ View(r, at[r]) \in States
    BY <1>3 DEF Survey, TypeOK, Publishing, View, States
  <2>2. view' \in [Runs -> [Packages -> States]]
    BY <1>3, <2>1 DEF Survey, TypeOK
  <2>3. /\ pc' \in [Runs -> PCs] /\ at' \in [Runs -> Files \ {Stray}]
        /\ pc'[r] \in {"survey", "act"} /\ at'[r] \in Packages
        /\ \A q \in Runs : q # r => pc'[q] = pc[q] /\ at'[q] = at[q]
    BY <1>3, <1>f, <2>1 DEF Survey, NextPackage, Goto, PCs, Active, Publishing
  <2> QED BY <1>3, <2>1, <2>2, <2>3 DEF Survey, TypeOK, world, PCs, Waiting
<1>4. CASE Publish(r)
  <2>1. at[r] \in Packages /\ round[r] = 2
    BY <1>4 DEF Publish, TypeOK, Publishing
  <2>2. \A latest \in BOOLEAN : Accepted(at[r], latest) \in [Packages -> Holdings]
    <3> SUFFICES ASSUME NEW latest \in BOOLEAN, reg[at[r]].bytes = "absent", out[at[r]] \in Licenses
                 PROVE  [reg EXCEPT ![at[r]].bytes = out[at[r]], ![at[r]].latest = reg[at[r]].latest \/ latest]
                           \in [Packages -> Holdings]
      BY DEF Accepted, TypeOK
    <3>1. reg[at[r]] \in Holdings /\ (reg[at[r]].latest \/ latest) \in BOOLEAN
      BY <2>1 DEF TypeOK, Holdings
    <3>2. [[reg[at[r]] EXCEPT !.bytes = out[at[r]]] EXCEPT !.latest = reg[at[r]].latest \/ latest] \in Holdings
      BY <3>1 DEF Holdings
    <3> QED BY <2>1, <3>1, <3>2 DEF TypeOK
  <2>3. reg' \in [Packages -> Holdings]
    BY <1>4, <2>2 DEF Publish
  <2> QED BY <1>4, <1>f, <2>1, <2>3 DEF Publish, Goto, TypeOK, PCs, Active, Publishing, Waiting
<1>5. CASE PublishFails(r)
  BY <1>5, <1>f DEF PublishFails, Goto, TypeOK, world, PCs, Active, Publishing, Waiting
<1>6. CASE Preflight(r)
  <2>1. at[r] \in Packages /\ round[r] = 2
    BY <1>6 DEF Preflight, TypeOK, Publishing
  <2>2. /\ pc' \in [Runs -> PCs] /\ at' \in [Runs -> Files \ {Stray}]
        /\ pc'[r] \in {"act", "closing", "removing"} /\ at'[r] \in Packages
        /\ \A q \in Runs : q # r => pc'[q] = pc[q] /\ at'[q] = at[q]
    BY <1>6, <1>f, <2>1 DEF Preflight, NextAct, Goto, PCs, Active, Publishing
  <2>3. aware' \in [Runs -> BOOLEAN]
    BY <1>6 DEF Preflight, TypeOK
  <2> QED BY <1>6, <2>1, <2>2, <2>3 DEF Preflight, TypeOK, world, PCs, Waiting
<1>7. CASE RemoveLatest(r)
  <2>1. at[r] \in Packages /\ round[r] = 2
    BY <1>7 DEF RemoveLatest, TypeOK, Publishing
  <2>2. reg' \in [Packages -> Holdings]
    <3>1. reg \in [Packages -> Holdings] /\ reg[at[r]] \in Holdings
      BY <2>1 DEF TypeOK
    <3>2. [reg[at[r]] EXCEPT !.latest = FALSE] \in Holdings
      BY <3>1 DEF Holdings
    <3>3. UNCHANGED reg \/ reg' = [reg EXCEPT ![at[r]] = [reg[at[r]] EXCEPT !.latest = FALSE]]
      BY <1>7 DEF RemoveLatest
    <3> QED BY <3>1, <3>2, <3>3
  <2>3. /\ pc' \in [Runs -> PCs] /\ at' \in [Runs -> Files \ {Stray}]
        /\ pc'[r] = "gone" /\ at'[r] \in Packages
        /\ \A q \in Runs : q # r => pc'[q] = pc[q] /\ at'[q] = at[q]
    BY <1>7, <1>f, <2>1 DEF RemoveLatest, Goto, PCs, Active, Publishing, Waiting
  <2>4. tries' \in [Runs -> 1 .. MaxAttempts]
    BY <1>7 DEF RemoveLatest, TypeOK
  <2>5. calm' = calm \/ calm' = [calm EXCEPT ![r] = FALSE]
    BY <1>7 DEF RemoveLatest
  <2>6. calm' \in [Runs -> BOOLEAN]
    BY <2>5 DEF TypeOK
  <2> QED BY <1>7, <2>1, <2>2, <2>3, <2>4, <2>6 DEF RemoveLatest, TypeOK, PCs, Waiting
<1>8. CASE PollAgain(r)
  BY <1>8 DEF PollAgain, TypeOK, world
<1>9. CASE GiveUp(r)
  BY <1>9, <1>f DEF GiveUp, Goto, TypeOK, world, PCs, Ended, Publishing, Waiting
<1>10. CASE BreakOff(r)
  <2>1. out' \in [Files -> Contents] /\ calm' \in [Runs -> BOOLEAN]
    BY <1>10 DEF BreakOff, TypeOK, Contents
  <2> QED BY <1>10, <1>f, <2>1 DEF BreakOff, Goto, TypeOK, PCs, Ended, Publishing, Waiting
<1>11. CASE Compare(r)
  <2>1. CASE Goto(r, "creating", at[r]) /\ UNCHANGED round
    BY <1>11, <1>f, <2>1 DEF Compare, Goto, TypeOK, world, PCs, Active, Writing, Publishing, Waiting
  <2>2. CASE Written(r)
    BY <1>11, <1>f, <2>2, WrittenType DEF Compare, TypeOK, world, PCs, Writing, Publishing, Waiting
  <2> QED BY <1>11, <2>1, <2>2 DEF Compare
<1>12. CASE Create(r)
  <2>1. out' \in [Files -> Contents] /\ calm' \in [Runs -> BOOLEAN] /\ Written(r)
    BY <1>12 DEF Create, TypeOK, Contents
  <2> QED BY <1>12, <1>f, <2>1, WrittenType DEF Create, TypeOK, PCs, Writing, Publishing, Waiting
<1> QED BY <1>1, <1>2, <1>3, <1>4, <1>5, <1>6, <1>7, <1>8, <1>9, <1>10, <1>11, <1>12

\* Whoever edits the checkout, releases a package or looks after the registry keeps the types.
LEMMA OthersType ==
  ASSUME TypeOK, Others
  PROVE  TypeOK'
<1>1. CASE ChangeTree
  BY <1>1 DEF ChangeTree, TypeOK, locals
<1>2. ASSUME NEW p \in Packages, Catchup(p) PROVE TypeOK'
  BY <1>2 DEF Catchup, TypeOK, locals
<1>3. ASSUME NEW p \in Packages, Release(p) PROVE TypeOK'
  <2>1. reg' = [reg EXCEPT ![p] = [reg[p] EXCEPT !.latest = TRUE, !.foreign = TRUE]]
    BY <1>3 DEF Release
  <2>2. reg[p] \in Holdings
    BY DEF TypeOK
  <2>3. [reg[p] EXCEPT !.latest = TRUE, !.foreign = TRUE] \in Holdings
    BY <2>2 DEF Holdings
  <2>4. reg' \in [Packages -> Holdings]
    BY <2>1, <2>3 DEF TypeOK
  <2>5. calm' \in [Runs -> BOOLEAN] /\ aware' \in [Runs -> BOOLEAN]
    BY <1>3 DEF Release
  <2> QED BY <1>3, <2>4, <2>5 DEF Release, TypeOK, locals
<1> QED BY <1>1, <1>2, <1>3 DEF Others

\* Every step is one of these.
LEMMA Steps ==
  ASSUME Next
  PROVE  Others \/ \E r \in Runs :
           \/ Moving(r)
           \/ Begin(r) \/ ReadLicense(r) \/ Survey(r) \/ Publish(r) \/ PublishFails(r) \/ Preflight(r)
           \/ RemoveLatest(r) \/ PollAgain(r) \/ GiveUp(r) \/ BreakOff(r) \/ Compare(r) \/ Create(r)
  BY DEF Next, Step, Moving, Checking, Looking

\* Every step keeps the types.
LEMMA StepType ==
  ASSUME TypeOK, [Next]_vars
  PROVE  TypeOK'
<1>1. CASE UNCHANGED vars
  BY <1>1 DEF vars, world, locals, TypeOK
<1> QED BY <1>1, Steps, MovingType, ActingType, OthersType

\* The variables have their types, an index into the packages is one, and no run publishes
\* before its second check of the checkout.
THEOREM TypeCorrect == Spec => []TypeOK
<1>1. TypeOK /\ [Next]_vars => TypeOK'
  BY StepType
<1> QED BY InitType, <1>1, PTL DEF Spec

------------------------------------------------------------------------------
(* What a step does to each of the variables the runs share.                  *)

\* What others do changes nothing a run knows.
LEMMA OthersLeaveRuns == Others => UNCHANGED locals
  BY DEF Others, ChangeTree, Catchup, Release

\* A step of one run leaves pc, at and license of the others alone, and of world at most
\* out or reg.
LEMMA OneRunMoves ==
  ASSUME TypeOK, NEW r \in Runs, RunStep(r), NEW q \in Runs, q # r
  PROVE  pc'[q] = pc[q] /\ at'[q] = at[q] /\ license'[q] = license[q] /\ round'[q] = round[q]
         /\ view'[q] = view[q] /\ mode'[q] = mode[q]
<1>1. CASE Moving(r)
  BY <1>1 DEF Moving, Checking, CheckHead, CheckClean, CheckBytes, CheckHeadAgain, AssertSource, OpenOutput, Pack,
     Looking, InspectLocal, Skip, Recover, PollSucceeds, Close, NextAct, NextPackage, Reject, Proceed, Goto, TypeOK
<1>2. CASE \/ Begin(r) \/ ReadLicense(r) \/ Survey(r) \/ Publish(r) \/ PublishFails(r) \/ Preflight(r)
           \/ RemoveLatest(r) \/ PollAgain(r) \/ GiveUp(r) \/ BreakOff(r)
  BY <1>2 DEF Begin, ReadLicense, Survey, Publish, PublishFails, Preflight, RemoveLatest, PollAgain, GiveUp,
     BreakOff, NextAct, NextPackage, Goto, TypeOK, world
<1>3. CASE Compare(r) \/ Create(r)
  <2>1. pc[r] \in Writing /\ ((Goto(r, "creating", at[r]) /\ UNCHANGED round) \/ Written(r))
        /\ UNCHANGED <<license, view, mode>>
    BY <1>3 DEF Compare, Create, Writing
  <2>2. CASE Written(r)
    BY <2>1, <2>2, WrittenType
  <2> QED BY <2>1, <2>2 DEF Goto, TypeOK
<1> QED BY <1>1, <1>2, <1>3 DEF RunStep, Step, Moving, Checking, Looking

\* A package keeps the bytes it was given, and a tag comes with them or with a release.
LEMMA RegistryMoves ==
  ASSUME TypeOK, [Next]_vars, NEW p \in Packages
  PROVE  /\ reg[p].bytes # "absent" =>
               /\ reg'[p].bytes = reg[p].bytes
               /\ reg'[p].latest => reg[p].latest \/ reg'[p].foreign
         /\ reg'[p].bytes # reg[p].bytes => reg'[p].bytes = out[p] /\ out[p] \in Licenses
         /\ reg[p].foreign => reg'[p].foreign
<1>1. CASE UNCHANGED reg
  BY <1>1
<1>2. ASSUME NEW q \in Packages, Release(q) PROVE reg' = [reg EXCEPT ![q].latest = TRUE, ![q].foreign = TRUE]
  BY <1>2 DEF Release
<1>3. ASSUME NEW r \in Runs, RemoveLatest(r)
      PROVE  UNCHANGED reg \/ (at[r] \in Packages /\ reg' = [reg EXCEPT ![at[r]].latest = FALSE])
  BY <1>3 DEF RemoveLatest, TypeOK
<1>4. ASSUME NEW r \in Runs, Publish(r)
      PROVE  \/ UNCHANGED reg
             \/ /\ reg[at[r]].bytes = "absent" /\ out[at[r]] \in Licenses
                /\ \E latest \in BOOLEAN : reg' = [reg EXCEPT ![at[r]].bytes = out[at[r]], ![at[r]].latest = reg[at[r]].latest \/ latest]
  BY <1>4 DEF Publish, Accepted
<1>5. \/ UNCHANGED reg
      \/ \E q \in Packages : Release(q)
      \/ \E r \in Runs : RemoveLatest(r) \/ Publish(r)
  <2>1. CASE Others
    BY <2>1 DEF Others, ChangeTree, Catchup
  <2>2. ASSUME NEW r \in Runs, Moving(r) \/ Begin(r) \/ ReadLicense(r) \/ Survey(r) \/ PublishFails(r) \/ Preflight(r)
                \/ PollAgain(r) \/ GiveUp(r) \/ BreakOff(r) \/ Compare(r) \/ Create(r)
        PROVE  UNCHANGED reg
    BY <2>2 DEF Moving, Checking, CheckHead, CheckClean, CheckBytes, CheckHeadAgain, AssertSource, OpenOutput, Pack,
       Looking, InspectLocal, Skip, Recover, PollSucceeds, Close, Reject, Proceed, Begin, ReadLicense, Survey,
       PublishFails, Preflight, PollAgain, GiveUp, BreakOff, Compare, Create, world
  <2> QED BY <2>1, <2>2, Steps DEF vars, world
<1>6. reg \in [Packages -> Holdings] /\ \A q \in Packages : reg[q].bytes \in Licenses \cup {"absent"}
  BY DEF TypeOK, Holdings
<1>7. ASSUME NEW q \in Packages, Release(q) PROVE reg'[p].bytes = reg[p].bytes /\ (reg[p].foreign => reg'[p].foreign)
                                                  /\ (reg'[p].latest => reg[p].latest \/ reg'[p].foreign)
  <2>1. reg[p] \in Holdings /\ reg' = [reg EXCEPT ![q] = [[reg[q] EXCEPT !.latest = TRUE] EXCEPT !.foreign = TRUE]]
    BY <1>2, <1>6, <1>7
  <2>2. reg'[p] = reg[p] \/ reg'[p] = [[reg[p] EXCEPT !.latest = TRUE] EXCEPT !.foreign = TRUE]
    BY <1>6, <2>1
  <2> QED BY <2>1, <2>2 DEF Holdings
<1>8. ASSUME NEW r \in Runs, RemoveLatest(r)
      PROVE reg'[p].bytes = reg[p].bytes /\ reg[p].foreign = reg'[p].foreign /\ (reg'[p].latest => reg[p].latest)
  <2>1. CASE at[r] \in Packages /\ reg' = [reg EXCEPT ![at[r]].latest = FALSE]
    <3>1. reg[p] \in Holdings /\ reg' = [reg EXCEPT ![at[r]] = [reg[at[r]] EXCEPT !.latest = FALSE]]
      BY <1>6, <2>1
    <3>2. reg'[p] = reg[p] \/ reg'[p] = [reg[p] EXCEPT !.latest = FALSE]
      BY <1>6, <2>1, <3>1
    <3> QED BY <3>1, <3>2 DEF Holdings
  <2> QED BY <1>3, <1>8, <2>1
<1>9. ASSUME NEW r \in Runs, Publish(r), ~ UNCHANGED reg
      PROVE  /\ p # at[r] => reg'[p] = reg[p]
             /\ p = at[r] => reg[p].bytes = "absent" /\ reg'[p].bytes = out[p] /\ out[p] \in Licenses
             /\ reg[p].foreign => reg'[p].foreign
  <2>1. PICK latest \in BOOLEAN :
           reg' = [reg EXCEPT ![at[r]] = [[reg[at[r]] EXCEPT !.bytes = out[at[r]]] EXCEPT !.latest = reg[at[r]].latest \/ latest]]
    BY <1>4, <1>9
  <2>2. reg[at[r]].bytes = "absent" /\ out[at[r]] \in Licenses
    BY <1>4, <1>9
  <2>3. CASE p = at[r]
    <3>1. reg[p] \in Holdings
          /\ reg'[p] = [[reg[p] EXCEPT !.bytes = out[p]] EXCEPT !.latest = reg[p].latest \/ latest]
      BY <1>6, <2>1, <2>3
    <3> QED BY <2>2, <2>3, <3>1 DEF Holdings
  <2>4. CASE p # at[r]
    BY <1>6, <2>1, <2>4
  <2> QED BY <2>3, <2>4
<1> QED BY <1>1, <1>5, <1>7, <1>8, <1>9

\* The registry shows of a package what it showed, or what it holds.
LEMMA ShownMoves ==
  ASSUME TypeOK, [Next]_vars, NEW p \in Packages
  PROVE  shown'[p] = shown[p] \/ (shown'[p] = reg[p] /\ UNCHANGED reg)
<1>1. ASSUME NEW r \in Runs, Moving(r) \/ Begin(r) \/ ReadLicense(r) \/ Survey(r) \/ Publish(r) \/ PublishFails(r)
              \/ Preflight(r) \/ RemoveLatest(r) \/ PollAgain(r) \/ GiveUp(r) \/ BreakOff(r) \/ Compare(r) \/ Create(r)
      PROVE  UNCHANGED shown
  BY <1>1 DEF Moving, Checking, CheckHead, CheckClean, CheckBytes, CheckHeadAgain, AssertSource, OpenOutput, Pack,
     Looking, InspectLocal, Skip, Recover, PollSucceeds, Close, Reject, Proceed, Begin, ReadLicense, Survey, Publish,
     PublishFails, Preflight, RemoveLatest, PollAgain, GiveUp, BreakOff, Compare, Create, world
<1>2. ASSUME NEW q \in Packages, Catchup(q) PROVE shown'[p] = shown[p] \/ (shown'[p] = reg[p] /\ UNCHANGED reg)
  <2>1. shown \in [Packages -> Holdings] /\ shown' = [shown EXCEPT ![q] = reg[q]] /\ UNCHANGED reg
    BY <1>2 DEF Catchup, TypeOK
  <2> QED BY <2>1
<1>3. CASE Others
  BY <1>2, <1>3 DEF Others, ChangeTree, Release
<1> QED BY <1>1, <1>3, Steps DEF vars, world

\* A file is written once: by a run that has come to it, or in part by one that breaks off.
LEMMA OutputMoves ==
  ASSUME TypeOK, [Next]_vars, NEW f \in Files, out'[f] # out[f]
  PROVE  /\ out[f] = "absent"
         /\ \E r \in Runs : /\ pc[r] = "creating" /\ at[r] = f
                            /\ \/ Create(r) /\ out'[f] = license[r]
                               \/ BreakOff(r) /\ out'[f] = "partial"
<1>1. ASSUME NEW r \in Runs, Moving(r) \/ Begin(r) \/ ReadLicense(r) \/ Survey(r) \/ Publish(r) \/ PublishFails(r)
              \/ Preflight(r) \/ RemoveLatest(r) \/ PollAgain(r) \/ GiveUp(r) \/ Compare(r)
      PROVE  UNCHANGED out
  BY <1>1 DEF Moving, Checking, CheckHead, CheckClean, CheckBytes, CheckHeadAgain, AssertSource, OpenOutput, Pack,
     Looking, InspectLocal, Skip, Recover, PollSucceeds, Close, Reject, Proceed, Begin, ReadLicense, Survey, Publish,
     PublishFails, Preflight, RemoveLatest, PollAgain, GiveUp, Compare, world
<1>2. CASE Others
  BY <1>2 DEF Others, ChangeTree, Catchup, Release
<1>3. PICK r \in Runs : Create(r) \/ BreakOff(r)
  BY <1>1, <1>2, Steps DEF vars, world
<1> QED BY <1>3 DEF Create, BreakOff, TypeOK

\* A step is one of a given run, or leaves that run where it is.
LEMMA RunOrNot ==
  ASSUME TypeOK, [Next]_vars, NEW r \in Runs
  PROVE  \/ RunStep(r)
         \/ pc'[r] = pc[r] /\ at'[r] = at[r] /\ license'[r] = license[r] /\ round'[r] = round[r]
            /\ view'[r] = view[r] /\ mode'[r] = mode[r]
<1>1. ASSUME NEW q \in Runs, RunStep(q), q # r
      PROVE  pc'[r] = pc[r] /\ at'[r] = at[r] /\ license'[r] = license[r] /\ round'[r] = round[r]
             /\ view'[r] = view[r] /\ mode'[r] = mode[r]
  BY <1>1, OneRunMoves
<1> QED BY <1>1, OthersLeaveRuns DEF Next, RunStep, vars, locals

------------------------------------------------------------------------------
(* The final pass over the registry, and completed.json.                      *)

\* A run counts a package as closed because it did before, or because it has just found it verified.
LEMMA ClosingMoves ==
  ASSUME TypeOK, [Next]_vars, NEW r \in Runs, NEW p \in Packages, Closing(r, p)'
  PROVE  /\ license'[r] = license[r]
         /\ Closing(r, p) \/ (pc[r] = "closing" /\ at[r] = p /\ View(r, p) = "verified")
<1>1. CASE ~RunStep(r)
  BY <1>1, RunOrNot DEF Closing
<1>2. CASE Close(r)
  <2>1. UNCHANGED license /\ at[r] \in Packages
    BY <1>2, PackageType DEF Close
  <2> QED BY <1>2, <2>1 DEF Close, Closing, Goto, TypeOK, Writing, Packages, Completed
<1>3. CASE Compare(r) \/ Create(r)
  <2>1. /\ pc[r] \in Writing /\ UNCHANGED license
        /\ (Goto(r, "creating", at[r]) \/ Written(r))
    BY <1>3 DEF Compare, Create, Writing
  <2>2. CASE Written(r)
    BY <2>1, <2>2 DEF Written, Closing, Goto, TypeOK, Writing, Completed, Inspection
  <2>3. CASE Goto(r, "creating", at[r])
    BY <2>1, <2>3 DEF Closing, Goto, TypeOK, Writing
  <2> QED BY <2>1, <2>2, <2>3
<1>4. CASE Checking(r)
  BY <1>4, PackageType DEF Checking, CheckHead, CheckClean, CheckBytes, CheckHeadAgain, AssertSource, OpenOutput, Pack, Proceed,
     Goto, Closing, TypeOK, Writing, Packages, Completed, locals
<1>5. CASE Looking(r) /\ ~Close(r)
  BY <1>5 DEF Looking, InspectLocal, Skip, Recover, PollSucceeds, NextAct, NextPackage, Proceed,
     Goto, Closing, TypeOK, Writing, Packages, Completed, locals
<1>6. CASE Reject(r) \/ BreakOff(r) \/ GiveUp(r) \/ Begin(r) \/ PublishFails(r) \/ Publish(r) \/ RemoveLatest(r)
           \/ ReadLicense(r)
  BY <1>6 DEF Reject, BreakOff, GiveUp, Begin, PublishFails, Publish, RemoveLatest, ReadLicense, Proceed, Goto, Closing,
     TypeOK, Writing
<1>7. CASE Survey(r) \/ Preflight(r) \/ PollAgain(r)
  BY <1>7 DEF Survey, Preflight, PollAgain, NextAct, NextPackage, Goto, Closing, TypeOK, Writing, Packages, Waiting
<1> QED BY <1>1, <1>2, <1>3, <1>4, <1>5, <1>6, <1>7 DEF RunStep, Step, Checking, Looking

\* A run removes an alias only after its last look showed that it may, and has looked at nothing since.
LEMMA RemovingMoves ==
  ASSUME TypeOK, [Next]_vars, NEW r \in Runs, pc'[r] = "removing"
  PROVE  /\ at'[r] = at[r]
         /\ \/ pc[r] = "removing" /\ (aware'[r] => aware[r])
            \/ Preflight(r) /\ View(r, at[r]) = "recoverable"
<1>1. CASE RunStep(r)
  <2>1. CASE Preflight(r)
    BY <1>1, <2>1 DEF Preflight, NextAct, Goto, TypeOK
  <2>2. CASE Moving(r)
    BY <2>2 DEF Moving, Checking, CheckHead, CheckClean, CheckBytes, CheckHeadAgain, AssertSource, OpenOutput, Pack,
       Looking, InspectLocal, Skip, Recover, PollSucceeds, Close, Reject, Proceed, NextAct, NextPackage, Goto, TypeOK
  <2>3. CASE Compare(r) \/ Create(r)
    <3>1. pc[r] \in Writing /\ (Goto(r, "creating", at[r]) \/ Written(r))
      BY <2>3 DEF Compare, Create, Writing
    <3> QED BY <3>1, WrittenType DEF Goto, TypeOK
  <2>4. CASE \/ Begin(r) \/ ReadLicense(r) \/ Survey(r) \/ Publish(r) \/ PublishFails(r)
             \/ RemoveLatest(r) \/ PollAgain(r) \/ GiveUp(r) \/ BreakOff(r)
    BY <2>4 DEF Begin, ReadLicense, Survey, Publish, PublishFails, RemoveLatest, PollAgain, GiveUp,
       BreakOff, NextPackage, Goto, TypeOK, Waiting
  <2> QED BY <1>1, <2>1, <2>2, <2>3, <2>4 DEF RunStep, Step, Moving, Checking, Looking
<1>2. CASE ~RunStep(r)
  <2>1. pc'[r] = pc[r] /\ at'[r] = at[r]
    BY <1>2, RunOrNot
  <2>2. aware'[r] => aware[r]
    <3>1. ASSUME NEW q \in Runs, Preflight(q) PROVE aware'[r] => aware[r]
      BY <1>2, <3>1 DEF Preflight, RunStep, Step, TypeOK
    <3>2. ASSUME NEW q \in Runs, Moving(q) \/ Begin(q) \/ ReadLicense(q) \/ Survey(q) \/ Publish(q) \/ PublishFails(q)
                \/ RemoveLatest(q) \/ PollAgain(q) \/ GiveUp(q) \/ BreakOff(q) \/ Compare(q) \/ Create(q)
          PROVE  UNCHANGED aware
      BY <3>2 DEF Moving, Checking, CheckHead, CheckClean, CheckBytes, CheckHeadAgain, AssertSource, OpenOutput, Pack,
         Looking, InspectLocal, Skip, Recover, PollSucceeds, Close, Reject, Proceed, Begin, ReadLicense, Survey, Publish,
         PublishFails, RemoveLatest, PollAgain, GiveUp, BreakOff, Compare, Create
    <3>3. ASSUME Others PROVE aware'[r] => aware[r]
      BY <3>3 DEF Others, ChangeTree, Catchup, Release
    <3> QED BY <3>1, <3>2, <3>3, Steps DEF vars
  <2> QED BY <2>1, <2>2
<1> QED BY <1>1, <1>2

\* No run puts a foreign version into the registry.
LEMMA OnlyReleasesAreForeign ==
  ASSUME TypeOK, NEW r \in Runs, RunStep(r), NEW p \in Packages
  PROVE  reg'[p].foreign = reg[p].foreign
<1>1. reg \in [Packages -> Holdings]
  BY DEF TypeOK
<1>2. ASSUME Publish(r), ~UNCHANGED reg PROVE reg'[p].foreign = reg[p].foreign
  <2>1. PICK latest \in BOOLEAN :
           reg' = [reg EXCEPT ![at[r]] = [[reg[at[r]] EXCEPT !.bytes = out[at[r]]] EXCEPT !.latest = reg[at[r]].latest \/ latest]]
    BY <1>2 DEF Publish, Accepted
  <2>2. \/ reg'[p] = reg[p]
        \/ reg'[p] = [[reg[p] EXCEPT !.bytes = out[p]] EXCEPT !.latest = reg[p].latest \/ latest]
    BY <1>1, <2>1
  <2> QED BY <1>1, <2>2 DEF Holdings
<1>3. ASSUME RemoveLatest(r), ~UNCHANGED reg PROVE reg'[p].foreign = reg[p].foreign
  <2>1. reg' = [reg EXCEPT ![at[r]] = [reg[at[r]] EXCEPT !.latest = FALSE]]
    BY <1>3 DEF RemoveLatest
  <2>2. reg'[p] = reg[p] \/ reg'[p] = [reg[p] EXCEPT !.latest = FALSE]
    BY <1>1, <2>1
  <2> QED BY <1>1, <2>2 DEF Holdings
<1>4. Publish(r) \/ RemoveLatest(r) \/ UNCHANGED reg
  BY DEF RunStep, Step, CheckHead, CheckClean, CheckBytes, CheckHeadAgain, AssertSource, OpenOutput, Pack,
     InspectLocal, Skip, Recover, PollSucceeds, Close, Reject, Proceed, Begin, ReadLicense, Survey,
     PublishFails, Preflight, PollAgain, GiveUp, BreakOff, Compare, Create, world
<1> QED BY <1>2, <1>3, <1>4

\* Nothing is closed in the beginning.
LEMMA InitClosure == Init => Closure /\ CompletedIsRight
<1> SUFFICES ASSUME Init PROVE Closure /\ CompletedIsRight
  OBVIOUS
<1>1. \A p \in Packages : shown[p].bytes = "absent" /\ ~shown[p].foreign
  BY DEF Init
<1>2. \A r \in Runs : pc[r] = "idle"
  BY DEF Init
<1>3. out[Completed] = "absent"
  BY DEF Init, Completed, Files, Stray
<1> QED BY <1>1, <1>2, <1>3 DEF Closure, CompletedIsRight, Closing, Writing, Licenses

\* Every step keeps what closed packages and a completed record promise.
LEMMA StepClosure ==
  ASSUME TypeOK, Closure, CompletedIsRight, [Next]_vars
  PROVE  Closure' /\ CompletedIsRight'
<1>t. TypeOK' /\ reg \in [Packages -> Holdings] /\ shown \in [Packages -> Holdings] /\ license \in [Runs -> Licenses]
      /\ license' \in [Runs -> Licenses] /\ reg' \in [Packages -> Holdings]
  BY StepType DEF TypeOK
\* What is closed stays closed.
<1>1. ASSUME NEW p \in Packages, NEW l \in Licenses, Closed(p, l) PROVE Closed(p, l)'
  BY <1>1, RegistryMoves DEF Closed, Licenses
<1>2. ASSUME NEW p \in Packages
      PROVE  /\ shown'[p].bytes \in {"absent", reg'[p].bytes}
             /\ shown'[p].foreign => reg'[p].foreign
             /\ shown'[p].bytes # "absent" /\ ~shown'[p].latest /\ ~shown'[p].foreign
                    => (reg'[p].latest => reg'[p].foreign)
  <2>1. CASE shown'[p] = shown[p]
    BY <2>1, RegistryMoves DEF Closure
  <2>2. CASE shown'[p] = reg[p] /\ UNCHANGED reg
    BY <2>2
  <2> QED BY <2>1, <2>2, ShownMoves
<1>3. ASSUME NEW r \in Runs, NEW p \in Packages, Closing(r, p)' PROVE Closed(p, license[r])' 
  <2>1. license'[r] = license[r] /\ license[r] \in Licenses
    BY <1>3, <1>t, ClosingMoves
  <2>2. Closed(p, license[r])
    <3>1. CASE Closing(r, p)
      BY <3>1 DEF Closure
    <3>2. CASE View(r, p) = "verified"
      <4>1. shown[p].bytes = license[r] /\ license[r] # "absent" /\ ~shown[p].latest /\ ~shown[p].foreign
        BY <3>2, <2>1, <1>t DEF View, Licenses, Holdings
      <4> QED BY <4>1 DEF Closure, Closed
    <3> QED BY <1>3, <3>1, <3>2, ClosingMoves
  <2> QED BY <1>1, <2>1, <2>2 DEF Closed
<1>4. ASSUME NEW r \in Runs, pc'[r] = "removing", aware'[r] PROVE ~reg'[at'[r]].foreign
  <2>1. at'[r] = at[r] /\ at[r] \in Packages
    BY <1>4, <1>t, RemovingMoves DEF TypeOK
  <2>2. CASE Preflight(r) /\ View(r, at[r]) = "recoverable"
    <3>1. aware'[r] => shown[at[r]] = reg[at[r]]
      <4>1. aware \in [Runs -> BOOLEAN] /\ ~(NextAct(r) /\ UNCHANGED aware)
        BY <1>4 DEF TypeOK, NextAct, Goto
      <4>2. aware' = [aware EXCEPT ![r] = shown[at[r]] = reg[at[r]]]
        BY <2>2, <4>1, Zenon DEF Preflight
      <4> QED BY <4>1, <4>2
    <3>2. shown[at[r]] = reg[at[r]] /\ reg' = reg
      <4>1. reg' = reg
        BY <2>2 DEF Preflight, world
      <4> QED BY <1>4, <3>1, <4>1
    <3>3. ~shown[at[r]].foreign
      BY <2>2 DEF View
    <3> QED BY <2>1, <3>2, <3>3
  <2>3. CASE pc[r] = "removing" /\ aware[r]
    <3>1. ~reg[at[r]].foreign
      BY <2>3 DEF Closure
    <3>2. ASSUME NEW p \in Packages, Release(p) PROVE FALSE
      BY <1>4, <3>2 DEF Release
    <3>3. reg'[at[r]].foreign = reg[at[r]].foreign
      <4>1. ASSUME NEW q \in Runs, RunStep(q) PROVE reg'[at[r]].foreign = reg[at[r]].foreign
        BY <2>1, <1>t, <4>1, OnlyReleasesAreForeign
      <4>2. CASE Others
        BY <3>2, <4>2 DEF Others, ChangeTree, Catchup
      <4> QED BY <4>1, <4>2 DEF Next, RunStep, vars, world
    <3> QED BY <2>1, <3>1, <3>3
  <2> QED BY <1>4, <2>2, <2>3, RemovingMoves
<1>5. Closure'
  BY <1>2, <1>3, <1>4 DEF Closure
<1>6. CompletedIsRight'
  <2> SUFFICES ASSUME out'[Completed] \in Licenses, NEW p \in Packages
               PROVE  Closed(p, out[Completed])'
    BY DEF CompletedIsRight, Closed
  <2>1. CASE out'[Completed] = out[Completed]
    BY <2>1, <1>1 DEF CompletedIsRight, Closed
  <2>2. CASE out'[Completed] # out[Completed]
    <3>1. PICK r \in Runs : pc[r] = "creating" /\ at[r] = Completed /\ out'[Completed] = license[r]
      BY <2>2, OutputMoves, FileType DEF Licenses
    <3>2. Closed(p, license[r])
      BY <3>1 DEF Closure, Closing, Writing
    <3> QED BY <3>1, <3>2, <1>1, <1>t DEF Closed
  <2> QED BY <2>1, <2>2
<1> QED BY <1>5, <1>6


\* completed.json is right about what the registry holds, whoever else ran meanwhile.
THEOREM CompletedRight == Spec => []CompletedIsRight
<1>1. Init => TypeOK /\ Closure /\ CompletedIsRight
  BY InitType, InitClosure
<1>2. TypeOK /\ Closure /\ CompletedIsRight /\ [Next]_vars => (TypeOK /\ Closure /\ CompletedIsRight)'
  BY StepType, StepClosure
<1> QED BY <1>1, <1>2, PTL DEF Spec

\* Nobody's latest tag is removed on the strength of a look that showed it.
THEOREM AliasOnly == Spec => RemovesOnlyAlias
<1>1. Init => TypeOK /\ Closure /\ CompletedIsRight
  BY InitType, InitClosure
<1>2. TypeOK /\ Closure /\ CompletedIsRight /\ [Next]_vars => (TypeOK /\ Closure /\ CompletedIsRight)'
  BY StepType, StepClosure
<1>3. Closure /\ [Next]_vars =>
        [\A r \in Runs, p \in Packages :
            /\ pc[r] = "removing" /\ at[r] = p /\ pc'[r] = "gone"
            /\ reg[p].foreign /\ ~reg'[p].latest
            => ~aware[r]]_vars
  BY DEF Closure
<1> QED BY <1>1, <1>2, <1>3, PTL DEF Spec, RemovesOnlyAlias

------------------------------------------------------------------------------
(* The output directory and the checkout.                                     *)

\* What has been written whole is not written again.
LEMMA WrittenStays ==
  ASSUME TypeOK, [Next]_vars, NEW f \in Files, out[f] \in Licenses
  PROVE  out'[f] = out[f]
  BY OutputMoves DEF Licenses

\* No run relies on a file in the beginning.
LEMMA InitArchives == Init => Archives
<1> SUFFICES ASSUME Init PROVE Archives
  OBVIOUS
<1>1. out[Stray] \notin Licenses
  BY DEF Init, Stray, Files, Licenses
<1>2. \A r \in Runs : pc[r] = "idle" /\ round[r] = 1 /\ license[r] = "reviewed"
  BY DEF Init
<1> QED BY <1>1, <1>2 DEF Archives, ArchivesOf, Writing, Publishing, Waiting

\* A run whose place has not changed keeps what it has written.
LEMMA SameArchives ==
  ASSUME TypeOK, [Next]_vars, NEW r \in Runs, ArchivesOf(r),
         pc'[r] = pc[r], at'[r] = at[r], license'[r] = license[r], round'[r] = round[r]
  PROVE  ArchivesOf(r)'
<1>1. \A p \in Packages : out[p] \in Licenses => out'[p] = out[p]
  BY WrittenStays, FileType
<1>2. license[r] \in Licenses
  BY DEF TypeOK
<1> QED BY <1>1, <1>2 DEF ArchivesOf

\* A run that has just written, or compared, a file can rely on it too.
LEMMA WrittenArchives ==
  ASSUME TypeOK, [Next]_vars, NEW r \in Runs, ArchivesOf(r), pc[r] \in Writing, Written(r), UNCHANGED license,
         out'[at[r]] = license[r]
  PROVE  ArchivesOf(r)'
<1>1. \A p \in Packages : out[p] \in Licenses => out'[p] = out[p]
  BY WrittenStays, FileType
<1>2. license[r] \in Licenses /\ round[r] \in 1 .. 2 /\ at[r] \in Files \ {Stray}
  BY DEF TypeOK
<1>3. \A p \in Packages : p < at[r] \/ p = at[r] => out'[p] \in Licenses
  BY <1>1, <1>2 DEF ArchivesOf
<1>f. /\ pc \in [Runs -> PCs] /\ at \in [Runs -> Files \ {Stray}]
      /\ at[r] # Completed => round[r] = 1
  BY DEF TypeOK, PCs, ArchivesOf
<1>4. CASE at[r] < NPackages
  <2>1. round[r] = 1
    BY <1>2, <1>4, <1>f DEF Completed, Files
  <2>2. pc'[r] = "pack" /\ at'[r] = at[r] + 1 /\ round'[r] = round[r]
    BY <1>4, <1>2, <1>f DEF Written, Goto, Files, Inspection
  <2> QED BY <1>2, <1>3, <1>4, <2>1, <2>2 DEF ArchivesOf, Packages, Files, Building, Writing, Publishing, Waiting
<1>5. CASE at[r] = NPackages
  <2>1. round[r] = 1
    BY <1>2, <1>5, <1>f DEF Completed, Files
  <2>2. pc'[r] = "comparing" /\ at'[r] = Inspection /\ round'[r] = round[r]
    BY <1>2, <1>5, <1>f DEF Written, Goto, Files, Inspection
  <2> QED BY <1>2, <1>3, <1>5, <2>1, <2>2 DEF ArchivesOf, Packages, Files, Building, Writing, Publishing, Waiting, Inspection, Completed
<1>6. CASE at[r] = Inspection
  <2>1. \A p \in Packages : out'[p] \in Licenses
    BY <1>3, <1>6 DEF Packages, Inspection
  <2>2. pc'[r] \in {"head", "done"}
    BY <1>6 DEF Written, Goto, TypeOK, Inspection
  <2> QED BY <2>1, <2>2 DEF ArchivesOf, Building, Writing, Publishing, Waiting
<1>7. CASE at[r] = Completed
  <2>1. pc'[r] = "done" /\ round'[r] = round[r]
    BY <1>7 DEF Written, Goto, TypeOK, Inspection, Completed
  <2> QED BY <1>1, <2>1 DEF ArchivesOf, Building, Writing, Publishing, Waiting
<1> QED BY <1>2, <1>4, <1>5, <1>6, <1>7 DEF Files, Stray, Inspection, Completed

\* A run's own step keeps what it relies on.
LEMMA RunArchives ==
  ASSUME TypeOK, [Next]_vars, NEW r \in Runs, ArchivesOf(r), RunStep(r)
  PROVE  ArchivesOf(r)'
<1>1. \A p \in Packages : out[p] \in Licenses => out'[p] = out[p]
  BY WrittenStays, FileType
<1>2. license[r] \in Licenses /\ round[r] \in 1 .. 2 /\ at[r] \in Files \ {Stray}
  BY DEF TypeOK
<1>3. CASE Checking(r)
  <2>1. UNCHANGED <<round, license>>
    BY <1>3 DEF Checking, CheckHead, CheckClean, CheckBytes, CheckHeadAgain, AssertSource, OpenOutput, Pack, Proceed
  <2>2. CASE Pack(r)
    <3>1. pc[r] = "pack" /\ pc'[r] = "comparing" /\ at'[r] = at[r] /\ at[r] \in Packages
      BY <2>2, PackageType DEF Pack, Proceed, Goto, TypeOK
    <3> QED BY <1>1, <1>2, <2>1, <3>1 DEF ArchivesOf, Building, Writing, Publishing, Waiting, Packages, Completed
  <2>3. CASE ~Pack(r)
    <3>1. /\ pc'[r] \in Verifying \cup {"source", "output", "license", "relicense"}
          /\ pc'[r] \in Building => round[r] = 1
      BY <1>2, <1>3, <2>3 DEF Checking, CheckHead, CheckClean, CheckBytes, CheckHeadAgain, AssertSource, OpenOutput, Proceed,
         Goto, TypeOK, Verifying, Building, ArchivesOf
    <3> QED BY <1>1, <1>2, <2>1, <3>1 DEF ArchivesOf, Verifying, Building, Writing, Publishing, Waiting
  <2> QED BY <2>2, <2>3
<1>4. CASE Looking(r) \/ Survey(r) \/ Publish(r) \/ PublishFails(r) \/ Preflight(r) \/ RemoveLatest(r)
  <2>0. pc[r] \in Publishing \ {"relicense"} /\ UNCHANGED <<round, license>>
    BY <1>4 DEF Looking, InspectLocal, Skip, Recover, PollSucceeds, Close, Survey, Publish, PublishFails, Preflight,
       RemoveLatest, Proceed, Publishing, Waiting
  <2>1. at[r] \in Packages /\ round[r] = 2 /\ UNCHANGED <<round, license>>
    BY <2>0 DEF TypeOK, Publishing
  <2>2. \A p \in Packages : out'[p] = out[p]
    BY <1>1, <2>1 DEF ArchivesOf
  <2>3. CASE InspectLocal(r)
    <3>1. pc[r] = "local" /\ out[at[r]] = license[r]
          /\ IF at[r] < NPackages THEN pc'[r] = "local" /\ at'[r] = at[r] + 1 ELSE pc'[r] = "survey"
      <4>1. pc[r] = "local" /\ out[at[r]] = license[r] /\ pc \in [Runs -> PCs] /\ at \in [Runs -> Files \ {Stray}]
        BY <2>3 DEF InspectLocal, TypeOK, PCs
      <4> QED BY <2>3, <4>1 DEF InspectLocal, NextPackage, Goto
    <3> QED BY <1>1, <1>2, <2>1, <2>2, <3>1 DEF ArchivesOf, Packages, Building, Writing, Publishing, Waiting
  <2>4. CASE ~InspectLocal(r)
    <3>1. pc[r] \in Publishing \ {"relicense", "local"}
          /\ (pc'[r] \in Publishing \ {"relicense", "local"} \/ (pc'[r] = "comparing" /\ at'[r] = Completed))
      BY <1>4, <2>1, <2>4 DEF Looking, Skip, Recover, PollSucceeds, Close, Survey, Publish, PublishFails, Preflight,
         RemoveLatest, Proceed, NextPackage, NextAct, Goto, TypeOK, Publishing, Waiting
    <3> QED BY <1>1, <1>2, <2>1, <2>2, <3>1 DEF ArchivesOf, Packages, Building, Writing, Publishing, Waiting
  <2> QED BY <2>3, <2>4
<1>5. CASE Reject(r) \/ BreakOff(r) \/ GiveUp(r)
  <2>1. pc'[r] = "failed" /\ round'[r] = round[r]
    BY <1>5 DEF Reject, BreakOff, GiveUp, Proceed, Goto, TypeOK
  <2> QED BY <1>1, <2>1 DEF ArchivesOf, Building, Writing, Publishing, Waiting
<1>6. CASE Begin(r)
  <2>1. pc'[r] = "head" /\ round'[r] = round[r]
    BY <1>6 DEF Begin, Goto, TypeOK
  <2> QED BY <1>1, <2>1 DEF ArchivesOf, Building, Writing, Publishing, Waiting
<1>7. CASE ReadLicense(r)
  <2>1. pc'[r] \in {"pack", "local"} /\ at'[r] = 1 /\ round'[r] = round[r] /\ (pc'[r] = "pack" => round[r] = 1)
    BY <1>7 DEF ReadLicense, Goto, TypeOK, ArchivesOf, Building
  <2> QED BY <1>1, <2>1 DEF ArchivesOf, Packages, Building, Writing, Publishing, Waiting
<1>8. CASE PollAgain(r)
  BY <1>8, SameArchives DEF PollAgain
<1>9. CASE Compare(r)
  <2>1. UNCHANGED license /\ pc[r] = "comparing" /\ pc[r] \in Writing /\ UNCHANGED out
    BY <1>9 DEF Compare, Writing, world
  <2>2. CASE Goto(r, "creating", at[r]) /\ UNCHANGED round
    <3>1. pc'[r] = "creating" /\ at'[r] = at[r] /\ round'[r] = round[r]
      BY <2>2 DEF Goto, TypeOK
    <3> QED BY <1>2, <2>1, <3>1 DEF ArchivesOf, Building, Writing, Publishing, Waiting
  <2>3. CASE out[at[r]] = license[r] /\ Written(r)
    BY <2>1, <2>3, WrittenArchives
  <2> QED BY <1>9, <2>2, <2>3 DEF Compare
<1>10. CASE Create(r)
  <2>1. UNCHANGED license /\ pc[r] \in Writing /\ out'[at[r]] = license[r] /\ Written(r)
    BY <1>10 DEF Create, Writing, TypeOK
  <2> QED BY <2>1, WrittenArchives
<1> QED BY <1>3, <1>4, <1>5, <1>6, <1>7, <1>8, <1>9, <1>10 DEF RunStep, Step, Checking, Looking

\* Every step keeps what every run relies on.
LEMMA StepArchives ==
  ASSUME TypeOK, Archives, [Next]_vars
  PROVE  Archives'
<1>1. ASSUME NEW r \in Runs PROVE ArchivesOf(r)'
  BY RunArchives, SameArchives, RunOrNot DEF Archives
<1>2. out'[Stray] \notin Licenses
  <2>1. ASSUME out'[Stray] # out[Stray] PROVE FALSE
    BY <2>1, OutputMoves DEF Files, Stray, TypeOK
  <2> QED BY <2>1 DEF Archives
<1> QED BY <1>1, <1>2 DEF Archives

\* The checkout changes by itself, once at a time, and is counted.
LEMMA TreeMoves ==
  ASSUME TypeOK, [Next]_vars
  PROVE  \/ UNCHANGED <<tree, changes>>
         \/ /\ changes' = changes + 1 /\ tree' \in {"reviewed", "edited", "moved"} /\ tree' # tree
            /\ UNCHANGED <<out, reg, locals>>
<1>1. ASSUME NEW r \in Runs, RunStep(r) PROVE UNCHANGED <<tree, changes>>
  BY <1>1 DEF RunStep, Step, CheckHead, CheckClean, CheckBytes, CheckHeadAgain, AssertSource, OpenOutput, Pack,
     InspectLocal, Skip, Recover, PollSucceeds, Close, Reject, Proceed, Begin, ReadLicense, Survey, Publish,
     PublishFails, Preflight, RemoveLatest, PollAgain, GiveUp, BreakOff, Compare, Create, world
<1>2. CASE Others
  BY <1>2 DEF Others, ChangeTree, Catchup, Release
<1> QED BY <1>1, <1>2 DEF Next, RunStep, vars, world

\* That the checkout has been changed stays true, even if it is changed back.
LEMMA AwayStays ==
  ASSUME TypeOK, [Next]_vars, Away(1)
  PROVE  Away(1)'
<1>1. changes \in Nat
  BY DEF TypeOK
<1> QED BY <1>1, TreeMoves DEF Away

\* The parts of Drift that speak of one run.
DriftOf(r) ==
    /\ PastFirstCheck(r) /\ tree # "reviewed" => changes >= 1
    /\ license[r] = "other" => Away(1)
    /\ PastSecondCheck(r) /\ (\E p \in Packages : out[p] = "other") =>
          changes >= 2 /\ (tree # "reviewed" => changes >= 3)
    /\ /\ pc[r] \in Publishing \ {"relicense"} \/ (pc[r] \in Writing /\ round[r] = 2)
       /\ license[r] = "other" /\ \E p \in Packages : out[p] = "other"
       => changes >= 3

DriftOfFiles == \A f \in Files : out[f] = "other" => Away(1)
DriftOfRegistry == \A p \in Packages : reg[p].bytes = "other" => changes >= 3

\* The parts of the invariant: what runs have read, what is written, what is published.
LEMMA DriftParts == Drift <=> (\A r \in Runs : DriftOf(r)) /\ DriftOfFiles /\ DriftOfRegistry
  BY DEF Drift, DriftOf, DriftOfFiles, DriftOfRegistry

\* Nothing has been read, written or published in the beginning.
LEMMA InitDrift == Init => Drift
<1> SUFFICES ASSUME Init PROVE Drift
  OBVIOUS
<1>1. \A r \in Runs : pc[r] = "idle" /\ round[r] = 1 /\ license[r] = "reviewed"
  BY DEF Init
<1>2. \A p \in Packages : reg[p].bytes = "absent"
  BY DEF Init
<1>3. \A f \in Files : out[f] # "other"
  BY DEF Init
<1>4. \A r \in Runs : DriftOf(r)
  <2> SUFFICES ASSUME NEW r \in Runs PROVE DriftOf(r)
    OBVIOUS
  <2>1. ~PastFirstCheck(r) /\ ~PastSecondCheck(r)
    BY <1>1 DEF PastFirstCheck, PastSecondCheck, Building, Writing
  <2> QED BY <1>1, <2>1 DEF DriftOf
<1> QED BY <1>2, <1>3, <1>4, DriftParts DEF DriftOfFiles, DriftOfRegistry

\* Where a step of r leads, as far as the checks of the checkout go.
LEMMA CheckMoves ==
  ASSUME TypeOK, Archives, [Next]_vars, NEW r \in Runs, RunStep(r)
  PROVE  /\ PastFirstCheck(r)' => PastFirstCheck(r) \/ tree = "reviewed"
         /\ PastSecondCheck(r)' => round[r] = 2 /\ (PastSecondCheck(r) \/ tree = "reviewed")
         /\ license'[r] = license[r] \/ (pc[r] \in {"license", "relicense"} /\ license'[r] = OnDisk)
         /\ pc'[r] \in Publishing \ {"relicense"} \/ (pc'[r] \in Writing /\ round'[r] = 2) =>
               \/ UNCHANGED license /\ (pc[r] \in Publishing \ {"relicense"} \/ (pc[r] \in Writing /\ round[r] = 2))
               \/ pc[r] = "relicense"
<1>t. /\ pc \in [Runs -> PCs] /\ at \in [Runs -> Files \ {Stray}] /\ round \in [Runs -> 1 .. 2]
      /\ license \in [Runs -> Licenses]
      /\ pc[r] \in Publishing => round[r] = 2
      /\ pc[r] \in {"idle"} \cup Building => round[r] = 1
  BY DEF TypeOK, PCs, Archives, ArchivesOf
<1>1. CASE Checking(r)
  BY <1>1, <1>t DEF Checking, CheckHead, CheckClean, CheckBytes, CheckHeadAgain, AssertSource, OpenOutput, Pack, Proceed, Goto,
     PastFirstCheck, PastSecondCheck, Verifying, Building, Writing, Publishing, Waiting
<1>2. CASE Looking(r) \/ Survey(r) \/ Publish(r) \/ PublishFails(r) \/ Preflight(r) \/ RemoveLatest(r)
  <2>1. pc[r] \in Publishing \ {"relicense"} /\ UNCHANGED <<round, license>>
    BY <1>2 DEF Looking, InspectLocal, Skip, Recover, PollSucceeds, Close, Survey, Publish, PublishFails, Preflight,
       RemoveLatest, Proceed, Publishing, Waiting
  <2> QED BY <1>t, <2>1 DEF PastFirstCheck, PastSecondCheck
<1>3. CASE Reject(r) \/ BreakOff(r) \/ GiveUp(r) \/ Begin(r)
  <2>1. pc'[r] \in {"failed", "head"} /\ UNCHANGED <<round, license>>
    BY <1>3, <1>t DEF Reject, BreakOff, GiveUp, Begin, Proceed, Goto
  <2> QED BY <1>t, <2>1 DEF PastFirstCheck, PastSecondCheck, Building, Writing, Publishing, Waiting
<1>4. CASE ReadLicense(r)
  BY <1>4, <1>t DEF ReadLicense, Goto, PastFirstCheck, PastSecondCheck, Building, Writing, Publishing, Waiting
<1>5. CASE PollAgain(r)
  BY <1>5 DEF PollAgain, PastFirstCheck, PastSecondCheck
<1>6. CASE Compare(r) \/ Create(r)
  <2>1. pc[r] \in Writing /\ UNCHANGED license /\ (Written(r) \/ (Goto(r, "creating", at[r]) /\ UNCHANGED round))
    BY <1>6 DEF Compare, Create, Writing
  <2>2. CASE Goto(r, "creating", at[r]) /\ UNCHANGED round
    BY <1>t, <2>1, <2>2 DEF Goto, PastFirstCheck, PastSecondCheck, Writing, Publishing, Waiting
  <2>3. CASE Written(r)
    <3>1. /\ pc'[r] \in {"pack", "comparing", "head", "done"}
          /\ pc'[r] \in {"pack", "comparing"} => round'[r] = round[r]
      BY <1>t, <2>3 DEF Written, Goto
    <3>2. PastFirstCheck(r)
      BY <2>1 DEF PastFirstCheck
    <3> QED BY <1>t, <2>1, <3>1, <3>2 DEF PastFirstCheck, PastSecondCheck, Building, Writing, Publishing, Waiting
  <2> QED BY <2>1, <2>2, <2>3
<1> QED BY <1>1, <1>2, <1>3, <1>4, <1>5, <1>6 DEF RunStep, Step, Checking, Looking

\* Once a run is past its first round the archives are all there.
LEMMA ArchivesStay ==
  ASSUME TypeOK, Archives, [Next]_vars, NEW r \in Runs, round[r] = 2, NEW p \in Packages
  PROVE  out'[p] = out[p]
<1>1. out[p] \in Licenses
  BY DEF Archives, ArchivesOf
<1> QED BY <1>1, WrittenStays, FileType

\* The bytes of a package in the registry come from a run that publishes it.
LEMMA OnlyPublishingGivesBytes ==
  ASSUME TypeOK, [Next]_vars, NEW p \in Packages, reg'[p].bytes # reg[p].bytes
  PROVE  \E r \in Runs : Publish(r)
<1> SUFFICES ASSUME \A r \in Runs : ~Publish(r) PROVE FALSE
  OBVIOUS
<1>1. reg \in [Packages -> Holdings]
  BY DEF TypeOK
<1>2. ASSUME NEW r \in Runs, RunStep(r) PROVE FALSE
  <2>1. UNCHANGED reg \/ reg' = [reg EXCEPT ![at[r]] = [reg[at[r]] EXCEPT !.latest = FALSE]]
    BY <1>2 DEF RunStep, Step, CheckHead, CheckClean, CheckBytes, CheckHeadAgain, AssertSource, OpenOutput, Pack,
       InspectLocal, Skip, Recover, PollSucceeds, Close, Reject, Proceed, Begin, ReadLicense, Survey,
       PublishFails, Preflight, RemoveLatest, PollAgain, GiveUp, BreakOff, Compare, Create, world
  <2>2. reg'[p] = reg[p] \/ reg'[p] = [reg[p] EXCEPT !.latest = FALSE]
    BY <1>1, <2>1
  <2> QED BY <1>1, <2>2 DEF Holdings
<1>3. ASSUME NEW q \in Packages, Release(q) PROVE FALSE
  <2>1. reg' = [reg EXCEPT ![q] = [[reg[q] EXCEPT !.latest = TRUE] EXCEPT !.foreign = TRUE]]
    BY <1>3 DEF Release
  <2>2. reg'[p] = reg[p] \/ reg'[p] = [[reg[p] EXCEPT !.latest = TRUE] EXCEPT !.foreign = TRUE]
    BY <1>1, <2>1
  <2> QED BY <1>1, <2>2 DEF Holdings
<1> QED BY <1>2, <1>3 DEF Next, RunStep, Others, ChangeTree, Catchup, vars, world

\* Every step keeps the count of changes that what was read, written or published demands.
LEMMA StepDrift ==
  ASSUME TypeOK, Archives, Drift, [Next]_vars
  PROVE  Drift'
<1>t. /\ changes \in Nat /\ license \in [Runs -> Licenses] /\ Archives'
      /\ tree \in {"reviewed", "edited", "moved"} /\ TypeOK'
  BY StepArchives, StepType DEF TypeOK
<1>d. (\A r \in Runs : DriftOf(r)) /\ DriftOfFiles /\ DriftOfRegistry
  BY DriftParts
<1>1. CASE ~UNCHANGED <<tree, changes>>
  <2>1. changes' = changes + 1 /\ UNCHANGED <<out, reg, locals>> /\ tree' # tree
    BY <1>1, TreeMoves
  <2>2. Away(1) => Away(1)'
    BY AwayStays
  <2>3. ASSUME NEW r \in Runs PROVE DriftOf(r)'
    BY <1>t, <1>d, <2>1, <2>2 DEF DriftOf, PastFirstCheck, PastSecondCheck, locals
  <2>4. DriftOfFiles'
    BY <1>d, <2>1, <2>2 DEF DriftOfFiles
  <2>5. DriftOfRegistry'
    BY <1>t, <1>d, <2>1 DEF DriftOfRegistry
  <2> QED BY <2>3, <2>4, <2>5, DriftParts DEF Drift, DriftOf, DriftOfFiles, DriftOfRegistry
<1>2. CASE UNCHANGED <<tree, changes>>
  <2>a. Away(1) <=> Away(1)'
    BY <1>2 DEF Away
  <2>1. ASSUME NEW r \in Runs PROVE DriftOf(r)'
    <3>1. PastFirstCheck(r)' /\ tree' # "reviewed" => changes' >= 1
      <4>1. PastFirstCheck(r)' => PastFirstCheck(r) \/ tree = "reviewed"
        BY CheckMoves, RunOrNot DEF PastFirstCheck
      <4> QED BY <1>2, <1>d, <4>1 DEF DriftOf
    <3>2. license'[r] = "other" => Away(1)'
      <4>1. CASE license'[r] = license[r]
        BY <1>d, <2>a, <4>1 DEF DriftOf
      <4>2. CASE license'[r] # license[r]
        <5>1. pc[r] \in {"license", "relicense"} /\ license'[r] = OnDisk
          BY <4>2, CheckMoves, RunOrNot
        <5>2. PastFirstCheck(r)
          <6>1. pc[r] = "relicense" => round[r] = 2
            BY DEF TypeOK, Publishing
          <6> QED BY <5>1, <6>1 DEF PastFirstCheck, Building
        <5> QED BY <1>t, <1>d, <2>a, <5>1, <5>2 DEF DriftOf, Away, OnDisk
      <4> QED BY <4>1, <4>2
    <3>3. PastSecondCheck(r)' /\ (\E p \in Packages : out'[p] = "other") =>
            changes' >= 2 /\ (tree' # "reviewed" => changes' >= 3)
      <4> SUFFICES ASSUME PastSecondCheck(r)', NEW p \in Packages, out'[p] = "other"
                   PROVE  changes >= 2 /\ (tree # "reviewed" => changes >= 3)
        BY <1>2
      <4>1. round[r] = 2 /\ (PastSecondCheck(r) \/ tree = "reviewed")
        BY CheckMoves, RunOrNot DEF PastSecondCheck
      <4>2. out[p] = "other"
        BY <4>1, ArchivesStay
      <4>3. Away(1)
        BY <1>d, <4>2, FileType DEF DriftOfFiles
      <4> QED BY <1>t, <1>d, <4>1, <4>2, <4>3 DEF DriftOf, Away
    <3>4. (pc'[r] \in Publishing \ {"relicense"} \/ (pc'[r] \in Writing /\ round'[r] = 2))
          /\ license'[r] = "other" /\ (\E p \in Packages : out'[p] = "other") => changes' >= 3
      <4> SUFFICES ASSUME pc'[r] \in Publishing \ {"relicense"} \/ (pc'[r] \in Writing /\ round'[r] = 2),
                          license'[r] = "other", NEW p \in Packages, out'[p] = "other"
                   PROVE  changes >= 3
        BY <1>2
      <4>0. round'[r] = 2 /\ PastSecondCheck(r)'
        BY <1>t DEF TypeOK, PastSecondCheck
      <4>1. CASE license'[r] = license[r] /\ (pc[r] \in Publishing \ {"relicense"} \/ (pc[r] \in Writing /\ round[r] = 2))
        <5>1. round[r] = 2
          BY <4>1 DEF TypeOK
        <5>2. out[p] = "other"
          BY <5>1, ArchivesStay
        <5> QED BY <1>d, <4>1, <5>2 DEF DriftOf
      <4>2. CASE pc[r] = "relicense" /\ RunStep(r)
        <5>1. round[r] = 2 /\ PastSecondCheck(r)
          BY <4>2 DEF TypeOK, PastSecondCheck, Publishing
        <5>2. out[p] = "other"
          BY <5>1, ArchivesStay
        <5>3. tree # "reviewed"
          <6>1. license'[r] = OnDisk
            BY <4>2 DEF RunStep, Step, CheckHead, CheckClean, CheckBytes, CheckHeadAgain, AssertSource, OpenOutput, Pack,
               InspectLocal, Skip, Recover, PollSucceeds, Close, Reject, Proceed, Begin, ReadLicense, Survey, Publish,
               PublishFails, Preflight, RemoveLatest, PollAgain, GiveUp, BreakOff, Compare, Create, Goto, TypeOK, Waiting, Writing, Publishing
          <6> QED BY <6>1 DEF OnDisk
        <5> QED BY <1>d, <5>1, <5>2, <5>3 DEF DriftOf
      <4>3. CASE ~RunStep(r)
        <5>1. license'[r] = license[r] /\ pc'[r] = pc[r] /\ round'[r] = round[r]
          BY <4>3, RunOrNot
        <5>2. out[p] = "other"
          BY <5>1, <4>0, ArchivesStay
        <5> QED BY <1>d, <5>1, <5>2 DEF DriftOf
      <4> QED BY <4>1, <4>2, <4>3, CheckMoves
    <3> QED BY <3>1, <3>2, <3>3, <3>4 DEF DriftOf
  <2>2. DriftOfFiles'
    <3> SUFFICES ASSUME NEW f \in Files, out'[f] = "other" PROVE Away(1)
      BY <2>a DEF DriftOfFiles
    <3>1. CASE out[f] = out'[f]
      BY <1>d, <3>1 DEF DriftOfFiles
    <3>2. CASE out[f] # out'[f]
      <4>1. PICK r \in Runs : out'[f] = license[r]
        BY <3>2, OutputMoves
      <4> QED BY <1>d, <4>1 DEF DriftOf
    <3> QED BY <3>1, <3>2
  <2>3. DriftOfRegistry'
    <3> SUFFICES ASSUME NEW p \in Packages, reg'[p].bytes = "other" PROVE changes >= 3
      BY <1>2 DEF DriftOfRegistry
    <3>1. CASE reg'[p].bytes = reg[p].bytes
      BY <1>d, <3>1 DEF DriftOfRegistry
    <3>2. CASE reg'[p].bytes # reg[p].bytes
      <4>1. out[p] = "other"
        BY <3>2, RegistryMoves
      <4>2. PICK r \in Runs : Publish(r)
        BY <3>2, OnlyPublishingGivesBytes
      <4>3. license[r] = out[p]
        BY <4>2 DEF Publish, Archives, ArchivesOf, Publishing
      <4> QED BY <1>d, <4>1, <4>2, <4>3 DEF DriftOf, Publish, Publishing
    <3> QED BY <3>1, <3>2
  <2> QED BY <2>1, <2>2, <2>3 DEF Drift, DriftOf, DriftOfFiles, DriftOfRegistry
<1> QED BY <1>1, <1>2

------------------------------------------------------------------------------
(* Runs that nothing disturbs.                                                *)

\* What an undisturbed run needs of the checkout, the directory, the registry and the others.
Clear ==
    /\ tree = "reviewed"
    /\ \A f \in Files : out[f] \in {"absent", "reviewed"}
    /\ \A p \in Packages : ~reg[p].foreign /\ reg[p].bytes # "other"
    /\ \A q \in Runs : pc[q] \in Active => license[q] = "reviewed"

\* The invariant, run by run.
LEMMA CalmParts == Calm <=> \A r \in Runs : calm[r] => Clear /\ CalmOf(r)
  BY DEF Calm, Clear

\* A run that stays calm was calm or has just begun, and nothing has come in its way.
LEMMA CalmMoves ==
  ASSUME TypeOK, [Next]_vars, NEW r \in Runs, calm'[r]
  PROVE  /\ calm[r] \/ (Begin(r) /\ Undisturbed)
         /\ UNCHANGED <<tree, changes>> /\ \A p \in Packages : ~Release(p)
         /\ \A f \in Files : out'[f] = out[f] \/ \E q \in Runs : Create(q) /\ at[q] = f /\ out'[f] = license[q]
         /\ \A q \in Runs : Create(q) /\ q # r /\ pc[r] = "creating" => at[q] # at[r]
         /\ ~BreakOff(r) /\ ~PublishFails(r)
<1>t. calm \in [Runs -> BOOLEAN]
  BY DEF TypeOK
<1>1. ASSUME NEW q \in Runs, Begin(q) PROVE calm[r] \/ (Begin(r) /\ Undisturbed)
  <2>1. calm' = [calm EXCEPT ![q] = Undisturbed]
    BY <1>1 DEF Begin
  <2>2. CASE q = r
    BY <1>t, <1>1, <2>1, <2>2
  <2>3. CASE q # r
    BY <1>t, <2>1, <2>3
  <2> QED BY <2>2, <2>3
<1>2. ASSUME NEW q \in Runs, Create(q) PROVE calm[r] /\ (q # r /\ pc[r] = "creating" => at[q] # at[r])
  BY <1>2 DEF Create
<1>3. ASSUME NEW q \in Runs, BreakOff(q) PROVE calm[r] /\ q # r /\ UNCHANGED out
  BY <1>t, <1>3 DEF BreakOff
<1>4. ASSUME NEW q \in Runs, PublishFails(q) PROVE calm[r] /\ q # r
  BY <1>t, <1>4 DEF PublishFails
<1>5. ASSUME NEW q \in Runs, RemoveLatest(q) PROVE calm[r]
  <2>1. calm' = calm \/ calm' = [calm EXCEPT ![q] = FALSE]
    BY <1>5 DEF RemoveLatest
  <2> QED BY <1>t, <2>1
<1>6. ASSUME NEW q \in Runs, GiveUp(q) PROVE calm[r]
  <2> DEFINE stale == shown[at[q]] = reg[at[q]] /\ View(q, at[q]) \notin Awaited(q)
  <2>1. calm' = [calm EXCEPT ![q] = calm[q] /\ stale]
    BY <1>6 DEF GiveUp
  <2> HIDE DEF stale
  <2>2. CASE q = r
    BY <1>t, <2>1, <2>2
  <2>3. CASE q # r
    BY <1>t, <2>1, <2>3
  <2> QED BY <2>2, <2>3
<1>7. ASSUME NEW q \in Runs, Moving(q) \/ ReadLicense(q) \/ Survey(q) \/ Publish(q) \/ Preflight(q) \/ PollAgain(q) \/ Compare(q)
      PROVE  UNCHANGED calm
  BY <1>7 DEF Moving, Checking, CheckHead, CheckClean, CheckBytes, CheckHeadAgain, AssertSource, OpenOutput, Pack,
     Looking, InspectLocal, Skip, Recover, PollSucceeds, Close, Reject, Proceed, ReadLicense, Survey, Publish,
     Preflight, PollAgain, Compare
<1>8. ASSUME Others PROVE calm[r]
  BY <1>8 DEF Others, ChangeTree, Catchup, Release
<1>9. calm[r] \/ (Begin(r) /\ Undisturbed)
  BY <1>1, <1>2, <1>3, <1>4, <1>5, <1>6, <1>7, <1>8, Steps DEF vars
<1>10. ~ChangeTree /\ \A p \in Packages : ~Release(p)
  BY DEF ChangeTree, Release
<1>11. UNCHANGED <<tree, changes>>
  <2>1. ASSUME NEW q \in Runs, RunStep(q) PROVE UNCHANGED <<tree, changes>>
    BY <2>1 DEF RunStep, Step, CheckHead, CheckClean, CheckBytes, CheckHeadAgain, AssertSource, OpenOutput, Pack,
       InspectLocal, Skip, Recover, PollSucceeds, Close, Reject, Proceed, Begin, ReadLicense, Survey, Publish,
       PublishFails, Preflight, RemoveLatest, PollAgain, GiveUp, BreakOff, Compare, Create, world
  <2> QED BY <1>10, <2>1 DEF Next, RunStep, Others, Catchup, vars, world
<1>12. ASSUME NEW f \in Files, out'[f] # out[f] PROVE \E q \in Runs : Create(q) /\ at[q] = f /\ out'[f] = license[q]
  BY <1>3, <1>12, OutputMoves
<1> QED BY <1>2, <1>3, <1>4, <1>9, <1>10, <1>11, <1>12

\* A run becomes active, or reads LICENSE, only in a few steps.
LEMMA LicenseMoves ==
  ASSUME TypeOK, Archives, [Next]_vars, NEW q \in Runs, pc'[q] \in Active
  PROVE  \/ license'[q] = license[q] /\ (pc[q] \in Active \/ license[q] = "reviewed")
         \/ license'[q] = OnDisk
<1>1. CASE ~RunStep(q)
  BY <1>1, RunOrNot
<1>2. CASE Begin(q)
  BY <1>2 DEF Begin, Archives, ArchivesOf
<1>3. CASE Step(q) /\ ~ReadLicense(q)
  <2>1. UNCHANGED license
    BY <1>3 DEF Step, CheckHead, CheckClean, CheckBytes, CheckHeadAgain, AssertSource, OpenOutput, Pack,
       InspectLocal, Skip, Recover, PollSucceeds, Close, Reject, Proceed, Survey, Publish,
       PublishFails, Preflight, RemoveLatest, PollAgain, GiveUp, Compare, Create
  <2>2. pc[q] \in Active \/ Reject(q)
    BY <1>3 DEF Step, CheckHead, CheckClean, CheckBytes, CheckHeadAgain, AssertSource, OpenOutput, Pack,
       InspectLocal, Skip, Recover, PollSucceeds, Close, Survey, Publish, PublishFails, Preflight, RemoveLatest,
       PollAgain, GiveUp, Compare, Create, Active, Verifying, Building, Writing, Publishing, Waiting
  <2>3. Reject(q) => pc'[q] = "failed"
    BY DEF Reject, Proceed, Goto, TypeOK
  <2> QED BY <2>1, <2>2, <2>3 DEF Active, Verifying, Building, Writing, Publishing, Waiting
<1>4. CASE ReadLicense(q)
  BY <1>4 DEF ReadLicense, TypeOK
<1>5. CASE BreakOff(q)
  BY <1>5 DEF BreakOff, Goto, TypeOK
<1> QED BY <1>1, <1>2, <1>3, <1>4, <1>5 DEF RunStep

\* While a run is undisturbed, checkout, files and registry hold nothing but what was reviewed.
LEMMA ClearStays ==
  ASSUME TypeOK, Archives, [Next]_vars, Clear, NEW r \in Runs, calm'[r]
  PROVE  Clear'
<1>1. tree' = "reviewed"
  BY CalmMoves DEF Clear
<1>2. \A f \in Files : out'[f] \in {"absent", "reviewed"}
  <2> SUFFICES ASSUME NEW f \in Files, out'[f] # out[f] PROVE out'[f] = "reviewed"
    BY DEF Clear
  <2>1. PICK q \in Runs : Create(q) /\ out'[f] = license[q]
    BY CalmMoves
  <2> QED BY <2>1 DEF Create, Clear, Active, Writing
<1>3. ASSUME NEW p \in Packages PROVE ~reg'[p].foreign /\ reg'[p].bytes # "other"
  <2>1. reg'[p].bytes # "other"
    BY RegistryMoves, FileType DEF Clear
  <2>2. reg'[p].foreign = reg[p].foreign
    <3>1. ASSUME NEW q \in Runs, RunStep(q) PROVE reg'[p].foreign = reg[p].foreign
      BY <3>1, OnlyReleasesAreForeign
    <3>2. CASE Others
      <4>1. \A q \in Packages : ~Release(q)
        BY CalmMoves
      <4> QED BY <3>2, <4>1 DEF Others, ChangeTree, Catchup
    <3> QED BY <3>1, <3>2 DEF Next, RunStep, vars, world
  <2> QED BY <2>1, <2>2 DEF Clear
<1>4. \A q \in Runs : pc'[q] \in Active => license'[q] = "reviewed"
  BY LicenseMoves DEF Clear, OnDisk
<1> QED BY <1>1, <1>2, <1>3, <1>4 DEF Clear

\* What the registry has shown of a package, it goes on showing.
LEMMA ShownStays ==
  ASSUME TypeOK, Closure, [Next]_vars, Clear, NEW p \in Packages, shown[p].bytes # "absent"
  PROVE  /\ shown'[p].bytes # "absent" /\ reg[p].bytes # "absent"
         /\ ~shown[p].latest => ~shown'[p].latest
<1>1. reg[p].bytes # "absent"
  BY DEF Closure
<1>2. ~shown[p].latest => ~reg[p].latest
  BY DEF Closure, Clear
<1> QED BY <1>1, <1>2, ShownMoves

\* An undisturbed run sees each package missing, or as it should be.
LEMMA ClearView ==
  ASSUME TypeOK, Closure, Clear, NEW r \in Runs, pc[r] \in Active, NEW p \in Packages
  PROVE  /\ shown[p].bytes = "absent" => View(r, p) = "absent"
         /\ shown[p].bytes # "absent" => View(r, p) = IF shown[p].latest THEN "recoverable" ELSE "verified"
<1>1. license[r] = "reviewed" /\ ~shown[p].foreign /\ shown[p].bytes # "other"
  BY DEF Clear, Closure
<1>2. shown[p].bytes \in {"absent", "reviewed", "other"}
  BY DEF TypeOK, Holdings, Licenses
<1> QED BY <1>1, <1>2 DEF View

\* The step of another run leaves an undisturbed run as calm as it was.
LEMMA SameCalm ==
  ASSUME TypeOK, Archives, Closure, Clear, [Next]_vars, NEW r \in Runs, calm'[r], CalmOf(r), ~RunStep(r)
  PROVE  CalmOf(r)'
<1>1. pc'[r] = pc[r] /\ at'[r] = at[r] /\ view'[r] = view[r] /\ at[r] \in Files \ {Stray}
  BY RunOrNot DEF TypeOK
<1>2. pc[r] \in {"preflight", "removing", "gone", "created"} => at[r] \in Packages
  BY PackageType DEF Waiting
<1>3. pc'[r] = "creating" => out'[at[r]] = "absent"
  <2> SUFFICES ASSUME pc[r] = "creating", out'[at[r]] # out[at[r]] PROVE FALSE
    BY <1>1 DEF CalmOf
  <2>1. PICK q \in Runs : Create(q) /\ at[q] = at[r]
    BY <1>1, CalmMoves
  <2>2. q # r
    BY <2>1 DEF RunStep, Step
  <2> QED BY <2>1, <2>2, CalmMoves
<1>4. pc'[r] = "created" => reg'[at[r]].bytes # "absent"
  BY <1>1, <1>2, RegistryMoves DEF CalmOf
<1>5. pc'[r] = "gone" => ~reg'[at[r]].latest
  <2> SUFFICES ASSUME pc[r] = "gone" PROVE ~reg'[at[r]].latest
    BY <1>1
  <2>1. reg[at[r]].bytes # "absent" /\ ~reg[at[r]].latest
    BY <1>2, ShownStays DEF CalmOf
  <2>2. ~reg'[at[r]].foreign
    BY <1>2, ClearStays DEF Clear
  <2> QED BY <1>2, <2>1, <2>2, RegistryMoves
<1>6. pc'[r] \in {"preflight", "removing", "gone"} => shown'[at[r]].bytes # "absent"
  BY <1>1, <1>2, ShownStays DEF CalmOf
<1>7. ASSUME NEW p \in Packages
      PROVE  /\ shown[p].bytes # "absent" => shown'[p].bytes # "absent"
             /\ shown[p].bytes # "absent" /\ ~shown[p].latest => ~shown'[p].latest
  BY ShownStays
<1> QED BY <1>1, <1>3, <1>4, <1>5, <1>6, <1>7 DEF CalmOf, Settled

\* An undisturbed run is not refused.
LEMMA NotRefused ==
  ASSUME TypeOK, Archives, Closure, Clear, NEW r \in Runs, CalmOf(r)
  PROVE  ~Reject(r)
<1> SUFFICES ASSUME Refuses(r) PROVE FALSE
  BY DEF Reject
<1>1. pc[r] \in Active
  BY DEF Refuses, Active, Verifying, Building, Writing, Publishing, Waiting
<1>2. license[r] = "reviewed" /\ OnDisk = "reviewed" /\ tree = "reviewed" /\ at[r] \in Files \ {Stray}
  BY <1>1 DEF Clear, OnDisk, TypeOK
<1>3. out[Stray] = "absent"
  <2>1. out[Stray] \in {"absent", "reviewed"}
    BY DEF Clear, Files, Stray
  <2> QED BY <2>1 DEF Archives, Licenses
<1>4. out[at[r]] \in {"absent", "reviewed"}
  BY <1>2 DEF Clear
<1>5. CASE pc[r] \in {"local", "survey", "preflight", "closing"}
  <2>1. at[r] \in Packages
    BY <1>5, PackageType
  <2>2. CASE pc[r] = "local"
    <3>1. out[at[r]] \in Licenses
      BY <2>1, <2>2 DEF TypeOK, Publishing, Archives, ArchivesOf
    <3> QED BY <1>2, <1>4, <2>2, <3>1 DEF Refuses, Licenses
  <2>3. CASE pc[r] = "survey"
    <3>1. View(r, at[r]) # "refused"
      BY <1>1, <2>1, ClearView
    <3> QED BY <2>3, <3>1 DEF Refuses
  <2>4. CASE pc[r] = "preflight"
    <3>1. View(r, at[r]) \in {"verified", "recoverable"}
      BY <1>1, <2>1, <2>4, ClearView DEF CalmOf
    <3> QED BY <2>4, <3>1 DEF Refuses
  <2>5. CASE pc[r] = "closing"
    <3>1. View(r, at[r]) = "verified"
      BY <1>1, <2>1, <2>5, ClearView DEF CalmOf, Settled
    <3> QED BY <2>5, <3>1 DEF Refuses
  <2> QED BY <1>5, <2>2, <2>3, <2>4, <2>5
<1>6. CASE pc[r] = "creating"
  BY <1>6 DEF Refuses, CalmOf
<1>7. CASE pc[r] \notin {"local", "survey", "preflight", "closing", "creating"}
  BY <1>2, <1>3, <1>4, <1>7 DEF Refuses
<1> QED BY <1>5, <1>6, <1>7

\* Nor does it run out of polls: what it waits for shows, or has not yet been passed on.
LEMMA NotGivenUp ==
  ASSUME TypeOK, Closure, Clear, NEW r \in Runs, calm'[r], CalmOf(r)
  PROVE  ~GiveUp(r)
<1> SUFFICES ASSUME GiveUp(r) PROVE FALSE
  OBVIOUS
<1>1. pc[r] \in Waiting /\ pc[r] \in Active /\ at[r] \in Packages
  BY PackageType DEF GiveUp, Active, Publishing
<1> DEFINE stale == shown[at[r]] = reg[at[r]] /\ View(r, at[r]) \notin Awaited(r)
<1>2. stale
  <2>1. calm' = [calm EXCEPT ![r] = calm[r] /\ stale] /\ calm \in [Runs -> BOOLEAN]
    BY DEF GiveUp, TypeOK
  <2> HIDE DEF stale
  <2> QED BY <2>1
<1>3. CASE pc[r] = "created"
  <2>1. View(r, at[r]) \in {"verified", "recoverable"}
    BY <1>1, <1>2, <1>3, ClearView DEF CalmOf
  <2> QED BY <1>2, <1>3, <2>1 DEF Awaited
<1>4. CASE pc[r] = "gone"
  <2>1. View(r, at[r]) = "verified"
    BY <1>1, <1>2, <1>4, ClearView DEF CalmOf
  <2> QED BY <1>2, <1>4, <2>1 DEF Awaited
<1> QED BY <1>1, <1>3, <1>4 DEF Waiting

\* Phases of which CalmOf says nothing.
LEMMA PlainCalm ==
  ASSUME NEW r \in Runs, pc'[r] \in Verifying \cup Building \cup {"idle", "done", "comparing", "relicense", "local"}
  PROVE  CalmOf(r)'
  BY DEF CalmOf, Verifying, Building, Waiting

\* An undisturbed run's own step leaves it where it can go on.
LEMMA OwnCalm ==
  ASSUME TypeOK, Archives, Closure, Clear, [Next]_vars, NEW r \in Runs, calm'[r], CalmOf(r), RunStep(r)
  PROVE  CalmOf(r)'
<1>t. /\ pc \in [Runs -> PCs] /\ at \in [Runs -> Files \ {Stray}]
      /\ reg \in [Packages -> Holdings] /\ shown \in [Packages -> Holdings]
  BY DEF TypeOK, PCs
<1>s. ASSUME NEW p \in Packages
      PROVE  /\ shown[p].bytes # "absent" => shown'[p].bytes # "absent"
             /\ shown[p].bytes # "absent" /\ ~shown[p].latest => ~shown'[p].latest
  BY ShownStays
<1>1. CASE Checking(r) \/ Begin(r) \/ ReadLicense(r)
  <2>1. pc'[r] \in Verifying \cup Building \cup {"comparing", "relicense", "local"}
    BY <1>1, <1>t DEF Checking, CheckHead, CheckClean, CheckBytes, CheckHeadAgain, AssertSource, OpenOutput, Pack,
       Begin, ReadLicense, Proceed, Goto, Verifying, Building
  <2> QED BY <2>1, PlainCalm
<1>2. CASE Compare(r) \/ Create(r)
  <2>1. CASE Written(r)
    <3>1. pc[r] \in Writing
      BY <1>2 DEF Compare, Create, Writing
    <3>2. pc'[r] \in {"pack", "comparing", "head", "done"}
      BY <2>1, <3>1, WrittenType
    <3> QED BY <3>2, PlainCalm DEF Verifying, Building
  <2>2. CASE ~Written(r)
    <3>1. pc'[r] = "creating" /\ at'[r] = at[r] /\ out'[at[r]] = "absent"
      BY <1>2, <1>t, <2>2 DEF Compare, Create, Goto, world
    <3> QED BY <3>1 DEF CalmOf, Waiting
  <2> QED BY <2>1, <2>2
<1>3. CASE Reject(r) \/ GiveUp(r) \/ BreakOff(r) \/ PublishFails(r)
  BY <1>3, NotRefused, NotGivenUp, CalmMoves
<1>4. CASE InspectLocal(r)
  <2>1. pc'[r] = "local" \/ (pc'[r] = "survey" /\ at'[r] = 1)
    BY <1>4, <1>t DEF InspectLocal, NextPackage, Goto
  <2> QED BY <2>1 DEF CalmOf, Packages, Waiting
<1>p. ASSUME ~(Checking(r) \/ Begin(r) \/ ReadLicense(r) \/ Compare(r) \/ Create(r) \/ Reject(r) \/ GiveUp(r) \/ BreakOff(r)
              \/ PublishFails(r) \/ InspectLocal(r))
      PROVE  /\ pc[r] \in {"survey", "act", "preflight", "removing", "closing"} \cup Waiting
             /\ pc[r] \in Active /\ at[r] \in Packages
             /\ UNCHANGED out
  <2>1. pc[r] \in {"survey", "act", "preflight", "removing", "closing"} \cup Waiting /\ UNCHANGED out
    BY <1>p DEF RunStep, Step, Checking, Skip, Recover, PollSucceeds, Close, Survey, Publish, Preflight, RemoveLatest, PollAgain,
       Proceed, world
  <2> QED BY <2>1, PackageType DEF Active, Publishing, Waiting
\* Passing on to the next package when the one at hand has settled.
<1>n. ASSUME NextAct(r), UNCHANGED <<shown, view>>, pc[r] \in {"act", "preflight"} \cup Waiting, at[r] \in Packages, Settled(at[r])
      PROVE  CalmOf(r)'
  <2>1. IF at[r] < NPackages THEN pc'[r] = "act" /\ at'[r] = at[r] + 1 ELSE pc'[r] = "closing" /\ at'[r] = 1
    BY <1>n, <1>t DEF NextAct, Goto
  <2>2. \A p \in Packages : p < at[r] => Settled(p)
    BY <1>n DEF CalmOf, Settled
  <2>3. \A p \in Packages : view[r][p] # "absent" =>
           shown[p].bytes # "absent" /\ (view[r][p] = "verified" => ~shown[p].latest)
    BY <1>n DEF CalmOf, Settled
  <2>4. CASE at[r] < NPackages
    <3>1. pc'[r] = "act" /\ at'[r] = at[r] + 1
      BY <2>1, <2>4
    <3>2. \A p \in Packages : p < at[r] + 1 => Settled(p)
      BY <1>n, <2>2 DEF Packages
    <3> QED BY <1>n, <2>3, <3>1, <3>2 DEF CalmOf, Settled, Waiting
  <2>5. CASE ~(at[r] < NPackages)
    <3>1. pc'[r] = "closing"
      BY <2>1, <2>5
    <3>2. \A p \in Packages : Settled(p)
      BY <1>n, <2>2, <2>5 DEF Packages
    <3> QED BY <1>n, <3>1, <3>2 DEF CalmOf, Settled, Waiting
  <2> QED BY <2>4, <2>5
<1>5. CASE Skip(r)
  <2>1. pc[r] = "act" /\ view[r][at[r]] = "verified" /\ NextAct(r) /\ UNCHANGED <<shown, view>> /\ at[r] \in Packages
    BY <1>5, PackageType DEF Skip, world
  <2> QED BY <1>n, <2>1 DEF CalmOf, Settled
<1>6. CASE Recover(r)
  <2>1. /\ pc[r] = "act" /\ view[r][at[r]] = "recoverable" /\ at[r] \in Packages
        /\ pc'[r] = "preflight" /\ at'[r] = at[r] /\ UNCHANGED <<shown, view>>
    BY <1>6, <1>t, PackageType DEF Recover, Proceed, Goto, world
  <2> QED BY <2>1 DEF CalmOf, Settled, Waiting
<1>7. CASE Survey(r)
  <2>1. /\ pc[r] = "survey" /\ at[r] \in Packages /\ pc[r] \in Active /\ UNCHANGED shown
        /\ view' = [view EXCEPT ![r][at[r]] = View(r, at[r])]
        /\ IF at[r] < NPackages THEN pc'[r] = "survey" /\ at'[r] = at[r] + 1 ELSE pc'[r] = "act" /\ at'[r] = 1
    <3>1. pc[r] = "survey" /\ at[r] \in Packages
      BY <1>7, PackageType DEF Survey
    <3> QED BY <1>7, <1>t, <3>1 DEF Survey, NextPackage, Goto, Active, Publishing, world
  <2>2. /\ view'[r][at[r]] = View(r, at[r])
        /\ \A p \in Packages : p # at[r] => view'[r][p] = view[r][p]
    BY <2>1 DEF TypeOK
  <2>3. View(r, at[r]) # "absent" => shown[at[r]].bytes # "absent" /\ (View(r, at[r]) = "verified" => ~shown[at[r]].latest)
    BY <2>1, ClearView
  <2>4. \A p \in Packages : p < at[r] \/ p = at[r] =>
           (view'[r][p] # "absent" => shown[p].bytes # "absent" /\ (view'[r][p] = "verified" => ~shown[p].latest))
    BY <2>1, <2>2, <2>3 DEF CalmOf, Packages
  <2>5. CASE at[r] < NPackages
    <3>1. pc'[r] = "survey" /\ at'[r] = at[r] + 1
      BY <2>1, <2>5
    <3>2. \A p \in Packages : p < at[r] + 1 => p < at[r] \/ p = at[r]
      BY <2>1 DEF Packages
    <3> QED BY <2>1, <2>4, <3>1, <3>2 DEF CalmOf, Waiting
  <2>6. CASE ~(at[r] < NPackages)
    <3>1. pc'[r] = "act" /\ at'[r] = 1
      BY <2>1, <2>6
    <3>2. \A p \in Packages : (p < at[r] \/ p = at[r]) /\ ~(p < 1)
      BY <2>1, <2>6 DEF Packages
    <3> QED BY <2>1, <2>4, <3>1, <3>2 DEF CalmOf, Waiting
  <2> QED BY <2>5, <2>6
<1>8. CASE Publish(r)
  <2>1. /\ pc[r] = "act" /\ at[r] \in Packages /\ pc'[r] = "created" /\ at'[r] = at[r]
        /\ UNCHANGED <<shown, view>>
    BY <1>8, <1>t, PackageType DEF Publish, Goto
  <2>2. reg'[at[r]].bytes # "absent"
    <3>1. out[at[r]] \in Licenses
      BY <2>1 DEF TypeOK, Publishing, Archives, ArchivesOf
    <3>2. CASE reg[at[r]].bytes # "absent"
      BY <2>1, <3>2, RegistryMoves
    <3>3. CASE reg[at[r]].bytes = "absent"
      <4>1. PICK latest \in BOOLEAN :
              reg' = [reg EXCEPT ![at[r]] = [[reg[at[r]] EXCEPT !.bytes = out[at[r]]] EXCEPT !.latest = reg[at[r]].latest \/ latest]]
        BY <1>8, <3>1, <3>3 DEF Publish, Accepted
      <4>2. reg[at[r]] \in Holdings
            /\ reg'[at[r]] = [[reg[at[r]] EXCEPT !.bytes = out[at[r]]] EXCEPT !.latest = reg[at[r]].latest \/ latest]
        BY <1>t, <2>1, <4>1
      <4> QED BY <3>1, <4>2 DEF Holdings, Licenses
    <3> QED BY <3>2, <3>3
  <2> QED BY <2>1, <2>2 DEF CalmOf, Settled, Waiting
<1>9. CASE Preflight(r)
  <2>1. pc[r] = "preflight" /\ at[r] \in Packages /\ pc[r] \in Active /\ UNCHANGED <<shown, view>>
    BY <1>9, PackageType DEF Preflight, Active, Publishing, world
  <2>2. CASE View(r, at[r]) = "verified" /\ NextAct(r)
    <3>1. Settled(at[r])
      BY <2>1, <2>2, ClearView DEF Settled
    <3> QED BY <1>n, <2>1, <2>2, <3>1
  <2>3. CASE Goto(r, "removing", at[r])
    <3>1. pc'[r] = "removing" /\ at'[r] = at[r]
      BY <1>t, <2>3 DEF Goto
    <3> QED BY <2>1, <3>1 DEF CalmOf, Settled, Waiting
  <2> QED BY <1>9, <2>2, <2>3 DEF Preflight
<1>10. CASE RemoveLatest(r)
  <2>1. /\ pc[r] = "removing" /\ at[r] \in Packages /\ pc'[r] = "gone" /\ at'[r] = at[r]
        /\ UNCHANGED <<shown, view>>
    BY <1>10, <1>t, PackageType DEF RemoveLatest, Goto
  <2>2. reg' = [reg EXCEPT ![at[r]] = [reg[at[r]] EXCEPT !.latest = FALSE]]
    <3>1. calm \in [Runs -> BOOLEAN]
      BY DEF TypeOK
    <3> QED BY <1>10, <3>1 DEF RemoveLatest
  <2>3. ~reg'[at[r]].latest
    BY <1>t, <2>1, <2>2 DEF Holdings
  <2> QED BY <2>1, <2>3 DEF CalmOf, Settled, Waiting
<1>11. CASE PollSucceeds(r)
  <2>1. pc[r] \in Waiting /\ at[r] \in Packages /\ pc[r] \in Active /\ UNCHANGED <<shown, view>>
    BY <1>11, PackageType DEF PollSucceeds, Active, Publishing, world
  <2>2. CASE View(r, at[r]) = "recoverable"
    <3>1. pc'[r] = "preflight" /\ at'[r] = at[r]
      BY <1>11, <1>t, <2>2 DEF PollSucceeds, Goto
    <3>2. shown[at[r]].bytes # "absent"
      BY <2>1, <2>2, ClearView
    <3> QED BY <2>1, <3>1, <3>2 DEF CalmOf, Settled, Waiting
  <2>3. CASE View(r, at[r]) # "recoverable"
    <3>1. NextAct(r) /\ View(r, at[r]) = "verified"
      BY <1>11, <2>3 DEF PollSucceeds, Awaited
    <3>2. Settled(at[r])
      BY <2>1, <3>1, ClearView DEF Settled
    <3> QED BY <1>n, <2>1, <3>1, <3>2
  <2> QED BY <2>2, <2>3
<1>12. CASE PollAgain(r)
  <2>1. UNCHANGED <<pc, at, view, shown, reg, out>> /\ pc[r] \in Waiting
    BY <1>12 DEF PollAgain, world
  <2> QED BY <2>1 DEF CalmOf, Settled, Waiting
<1>13. CASE Close(r)
  <2>1. pc[r] = "closing" /\ UNCHANGED shown /\ pc'[r] \in {"closing", "comparing"}
    BY <1>13, <1>t DEF Close, Goto, world
  <2> QED BY <2>1 DEF CalmOf, Settled, Waiting
<1> QED BY <1>1, <1>2, <1>3, <1>4, <1>5, <1>6, <1>7, <1>8, <1>9, <1>10, <1>11, <1>12, <1>13
       DEF RunStep, Step, Checking

\* A run that has not begun is in no difficulty.
LEMMA InitCalm == Init => Calm
  BY DEF Init, Calm

\* Every step keeps what an undisturbed run finds.
LEMMA StepCalm ==
  ASSUME TypeOK, Archives, Closure, Calm, [Next]_vars
  PROVE  Calm'
<1> SUFFICES ASSUME NEW r \in Runs, calm'[r] PROVE Clear' /\ CalmOf(r)'
  BY DEF Calm, Clear
<1>1. CASE calm[r]
  <2>1. Clear /\ CalmOf(r)
    BY <1>1, CalmParts
  <2> QED BY <2>1, ClearStays, OwnCalm, SameCalm
<1>2. CASE Begin(r) /\ Undisturbed
  <2>1. Clear
    BY <1>2 DEF Undisturbed, Clear
  <2>2. pc'[r] = "head"
    BY <1>2 DEF Begin, Goto, TypeOK
  <2> QED BY <2>1, <2>2, ClearStays, PlainCalm DEF Verifying
<1> QED BY <1>1, <1>2, CalmMoves

------------------------------------------------------------------------------
(* The invariant, and what follows from it.                                   *)

\* The invariant holds in the beginning.
LEMMA InitBoot == Init => BootInv
  BY InitType, InitDrift, InitArchives, InitClosure, InitCalm DEF BootInv

\* The invariant is inductive, with what the completed record says.
LEMMA StepBoot == BootInv /\ CompletedIsRight /\ [Next]_vars => BootInv' /\ CompletedIsRight'
  BY StepType, StepDrift, StepArchives, StepClosure, StepCalm DEF BootInv

\* The inductive invariant: what was read, written, published and shown, and how often the
\* checkout must have changed for it.
THEOREM BootInvariant == Spec => []BootInv
<1>1. Init => BootInv /\ CompletedIsRight
  BY InitBoot, InitClosure
<1>2. (BootInv /\ CompletedIsRight) /\ [Next]_vars => (BootInv /\ CompletedIsRight)'
  BY StepBoot
<1> QED BY <1>1, <1>2, PTL DEF Spec

\* Nothing but the reviewed archives is published unless the checkout changes three times.
THEOREM ReviewedPublished == Spec => []PublishedIsReviewed
<1>1. BootInv => PublishedIsReviewed
  BY DEF BootInv, Drift, PublishedIsReviewed
<1> QED BY BootInvariant, <1>1, PTL

\* An undisturbed run never fails, whatever earlier runs have left behind.
THEOREM Resumes == Spec => []ResumesAfterFailure
<1>1. BootInv => ResumesAfterFailure
  BY DEF BootInv, Calm, CalmOf, ResumesAfterFailure
<1> QED BY BootInvariant, <1>1, PTL

==============================================================================
