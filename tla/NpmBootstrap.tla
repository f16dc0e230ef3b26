------------------------------ MODULE NpmBootstrap ------------------------------
(* scripts/npm-namespace-bootstrap.mjs: runs of the script that builds one inert *)
(* archive for each of a fixed list of packages, publishes it once and writes    *)
(* down that the registry holds exactly these.                                   *)
(*                                                                               *)
(* The checkout may change while a run works (tree), runs may share their output *)
(* directory (out), break off at any point and be run again, and what the        *)
(* registry shows (shown) may lag behind what it holds (reg).  Archives and      *)
(* records are told apart by the LICENSE they were made from: everything else in *)
(* them is part of the program.                                                  *)
EXTENDS Integers

CONSTANTS Runs,         \* runs of the script
          NPackages,    \* the length of BOOTSTRAP_PACKAGES
          MaxAttempts,  \* REGISTRY_VERIFY_ATTEMPTS
          MaxChanges    \* bound on changes of the checkout

ASSUME BootstrapAssumption ==
    /\ NPackages \in Nat \ {0}
    /\ MaxAttempts \in Nat \ {0}
    /\ MaxChanges \in Nat

VARIABLES tree,     \* the checkout: reviewed, edited, or moved to another commit
          changes,  \* how often it has changed
          out,      \* the output directory
          reg,      \* what the registry holds of each package
          shown,    \* and what it shows of it
          pc, at,   \* where each run is, and at which package or file
          mode,     \* --dry-run or --publish
          round,    \* which of the two checks of the checkout it is in or past
          license,  \* the LICENSE it has read last
          view,     \* what its survey of the registry has shown
          tries,    \* polls of the current wait
          calm,     \* history: nothing has disturbed the run
          aware     \* history: its last look showed the registry as it still is

world == <<tree, changes, out, reg, shown>>
locals == <<pc, at, mode, round, license, view, tries>>
vars == <<world, locals, calm, aware>>

Packages == 1 .. NPackages
Inspection == NPackages + 1      \* inspection.json
Completed == NPackages + 2       \* completed.json
Stray == 0                       \* an entry of any other name
Files == 0 .. NPackages + 2

Licenses == {"reviewed", "other"}
Contents == Licenses \cup {"absent", "partial"}
Holdings == [bytes : Licenses \cup {"absent"}, latest : BOOLEAN, foreign : BOOLEAN]
States == {"absent", "verified", "recoverable", "refused"}
Verifying == {"head", "clean", "bytes", "again"}
Building == {"source", "output", "license", "pack"}
Writing == {"comparing", "creating"}
Waiting == {"created", "gone"}
Publishing == {"relicense", "local", "survey", "act", "preflight", "removing", "closing"} \cup Waiting
Active == Verifying \cup Building \cup Writing \cup Publishing
Ended == {"done", "failed"}

\* The bytes of LICENSE in the checkout.
OnDisk == IF tree = "reviewed" THEN "reviewed" ELSE "other"

Init ==
    /\ tree \in {"reviewed", "edited", "moved"}
    /\ changes = 0
    /\ \E entry \in {"absent", "partial"} :
          out = [f \in Files |-> IF f = Stray THEN entry ELSE "absent"]
    /\ reg = [p \in Packages |-> [bytes |-> "absent", latest |-> FALSE, foreign |-> FALSE]]
    /\ shown = reg
    /\ pc = [r \in Runs |-> "idle"]
    /\ at = [r \in Runs |-> 1]
    /\ mode \in [Runs -> {"dry-run", "publish"}]
    /\ round = [r \in Runs |-> 1]
    /\ license = [r \in Runs |-> "reviewed"]
    /\ view = [r \in Runs |-> [p \in Packages |-> "absent"]]
    /\ tries = [r \in Runs |-> 1]
    /\ calm = [r \in Runs |-> FALSE]
    /\ aware = [r \in Runs |-> FALSE]

Goto(r, where, n) ==
    /\ pc' = [pc EXCEPT ![r] = where]
    /\ at' = [at EXCEPT ![r] = n]

\* A step of r that changes nothing but where r is.
Proceed(r, where, n) ==
    /\ Goto(r, where, n)
    /\ UNCHANGED <<world, mode, round, license, view, tries, calm, aware>>

\* A loop over the packages goes on at the next one, or leaves for `then`.
NextPackage(r, then) ==
    IF at[r] < NPackages THEN Goto(r, pc[r], at[r] + 1) ELSE Goto(r, then, 1)

------------------------------------------------------------------------------
(* The reviewed checkout and the archives made from it.                      *)

\* History: a run that begins now has everything it needs.
Undisturbed == /\ tree = "reviewed"
               /\ \A f \in Files : out[f] \in {"absent", "reviewed"}
               /\ \A p \in Packages : ~reg[p].foreign /\ reg[p].bytes # "other"
               /\ \A r \in Runs : pc[r] \in Active => license[r] = "reviewed"

Begin(r) ==
    /\ pc[r] = "idle"
    /\ Goto(r, "head", 1)
    /\ calm' = [calm EXCEPT ![r] = Undisturbed]
    /\ UNCHANGED <<world, mode, round, license, view, tries, aware>>

CheckHead(r) == pc[r] = "head" /\ tree # "moved" /\ Proceed(r, "clean", 1)
CheckClean(r) == pc[r] = "clean" /\ tree # "edited" /\ Proceed(r, "bytes", 1)
CheckBytes(r) == pc[r] = "bytes" /\ tree = "reviewed" /\ Proceed(r, "again", 1)
CheckHeadAgain(r) ==
    /\ pc[r] = "again" /\ tree # "moved"
    /\ Proceed(r, IF round[r] = 1 THEN "source" ELSE "relicense", 1)

AssertSource(r) == pc[r] = "source" /\ tree = "reviewed" /\ Proceed(r, "output", 1)

\* The directory is made if need be; only files of the names it writes may be there.  That
\* is asked again once the archives are built, when no other file can have come.
OpenOutput(r) == pc[r] = "output" /\ out[Stray] = "absent" /\ Proceed(r, "license", 1)

\* LICENSE is read once to build and once more to publish.
ReadLicense(r) ==
    /\ pc[r] \in {"license", "relicense"}
    /\ license' = [license EXCEPT ![r] = OnDisk]
    /\ Goto(r, IF pc[r] = "license" THEN "pack" ELSE "local", 1)
    /\ UNCHANGED <<world, mode, round, view, tries, calm, aware>>

\* The archive gets a copy of LICENSE as it is now, and is inspected for the one read.
Pack(r) == pc[r] = "pack" /\ OnDisk = license[r] /\ Proceed(r, "comparing", at[r])

Written_UncheckedAgain(r) ==
    CASE at[r] < NPackages -> Goto(r, "pack", at[r] + 1) /\ UNCHANGED round
      [] at[r] = NPackages -> Goto(r, "comparing", Inspection) /\ UNCHANGED round
      [] at[r] = Inspection /\ mode[r] = "publish" ->
             Goto(r, "relicense", 1) /\ round' = [round EXCEPT ![r] = 2]
      [] OTHER -> Goto(r, "done", 1) /\ UNCHANGED round

Written(r) ==
    CASE at[r] < NPackages -> Goto(r, "pack", at[r] + 1) /\ UNCHANGED round
      [] at[r] = NPackages -> Goto(r, "comparing", Inspection) /\ UNCHANGED round
      [] at[r] = Inspection /\ mode[r] = "publish" ->
             Goto(r, "head", 1) /\ round' = [round EXCEPT ![r] = 2]
      [] OTHER -> Goto(r, "done", 1) /\ UNCHANGED round

Compare(r) ==
    /\ pc[r] = "comparing"
    /\ \/ out[at[r]] = "absent" /\ Goto(r, "creating", at[r]) /\ UNCHANGED round
       \/ out[at[r]] = license[r] /\ Written(r)
    /\ UNCHANGED <<world, mode, license, view, tries, calm, aware>>

Create(r) ==
    /\ pc[r] = "creating" /\ out[at[r]] = "absent"
    /\ out' = [out EXCEPT ![at[r]] = license[r]]
    /\ Written(r)
    /\ calm' = [q \in Runs |-> calm[q] /\ (q = r \/ pc[q] # "creating" \/ at[q] # at[r])]
    /\ UNCHANGED <<tree, changes, reg, shown, mode, license, view, tries, aware>>

InspectLocal(r) ==
    /\ pc[r] = "local" /\ out[at[r]] = license[r]
    /\ NextPackage(r, "survey")
    /\ UNCHANGED <<world, mode, round, license, view, tries, calm, aware>>

------------------------------------------------------------------------------
(* The registry.                                                             *)

View_AnyTags(r, p) ==
    IF shown[p].foreign THEN "refused"
    ELSE IF shown[p].bytes = "absent" THEN "absent"
    ELSE IF shown[p].bytes # license[r] THEN "refused" ELSE "verified"
View_AnyVersions(r, p) ==
    IF shown[p].bytes = "absent" THEN "absent"
    ELSE IF shown[p].bytes # license[r] THEN "refused"
    ELSE IF shown[p].latest THEN "recoverable" ELSE "verified"

\* inspectRegistryState: refused stands for whatever makes it throw.
View(r, p) ==
    IF shown[p].foreign THEN "refused"
    ELSE IF shown[p].bytes = "absent" THEN "absent"
    ELSE IF shown[p].bytes # license[r] THEN "refused"
    ELSE IF shown[p].latest THEN "recoverable" ELSE "verified"

\* Every package is looked at before the first is touched.
Survey(r) ==
    /\ pc[r] = "survey" /\ View(r, at[r]) # "refused"
    /\ view' = [view EXCEPT ![r][at[r]] = View(r, at[r])]
    /\ NextPackage(r, "act")
    /\ UNCHANGED <<world, mode, round, license, tries, calm, aware>>

NextAct(r) == IF at[r] < NPackages THEN Goto(r, "act", at[r] + 1) ELSE Goto(r, "closing", 1)

Skip(r) ==
    /\ pc[r] = "act" /\ view[r][at[r]] = "verified"
    /\ NextAct(r)
    /\ UNCHANGED <<world, mode, round, license, view, tries, calm, aware>>

Recover(r) == pc[r] = "act" /\ view[r][at[r]] = "recoverable" /\ Proceed(r, "preflight", at[r])

\* The registry takes a version once, and may add the latest tag of its own accord.
Accepted(p, latest) ==
    IF reg[p].bytes # "absent" \/ out[p] \notin Licenses THEN reg
    ELSE [reg EXCEPT ![p].bytes = out[p],
                     ![p].latest = reg[p].latest \/ latest]

\* npm publish: whether it reports success or failure, what counts is what appears.
Publish(r) ==
    /\ pc[r] = "act" /\ view[r][at[r]] = "absent"
    /\ \E latest \in BOOLEAN : reg' = Accepted(at[r], latest)
    /\ Goto(r, "created", at[r])
    /\ tries' = [tries EXCEPT ![r] = 1]
    /\ UNCHANGED <<tree, changes, out, shown, mode, round, license, view, calm, aware>>

PublishFails(r) ==
    /\ pc[r] = "act" /\ view[r][at[r]] = "absent"
    /\ Goto(r, "created", at[r])
    /\ tries' = [tries EXCEPT ![r] = 1]
    /\ calm' = [calm EXCEPT ![r] = FALSE]
    /\ UNCHANGED <<world, mode, round, license, view, aware>>

Preflight(r) ==
    /\ pc[r] = "preflight"
    /\ \/ View(r, at[r]) = "verified" /\ NextAct(r) /\ UNCHANGED aware
       \/ /\ View(r, at[r]) = "recoverable"
          /\ Goto(r, "removing", at[r])
          /\ aware' = [aware EXCEPT ![r] = shown[at[r]] = reg[at[r]]]
    /\ UNCHANGED <<world, mode, round, license, view, tries, calm>>

\* npm dist-tag rm latest, which may fail with or without effect.
RemoveLatest(r) ==
    /\ pc[r] = "removing"
    /\ \/ reg' = [reg EXCEPT ![at[r]].latest = FALSE] /\ UNCHANGED calm
       \/ UNCHANGED reg /\ calm' = [calm EXCEPT ![r] = FALSE]
    /\ Goto(r, "gone", at[r])
    /\ tries' = [tries EXCEPT ![r] = 1]
    /\ UNCHANGED <<tree, changes, out, shown, mode, round, license, view, aware>>

Awaited(r) == IF pc[r] = "created" THEN {"verified", "recoverable"} ELSE {"verified"}

PollSucceeds(r) ==
    /\ pc[r] \in Waiting /\ View(r, at[r]) \in Awaited(r)
    /\ IF View(r, at[r]) = "recoverable" THEN Goto(r, "preflight", at[r]) ELSE NextAct(r)
    /\ UNCHANGED <<world, mode, round, license, view, tries, calm, aware>>

\* The state is not there yet, or the request fails: either uses up an attempt.
PollAgain(r) ==
    /\ pc[r] \in Waiting /\ tries[r] < MaxAttempts
    /\ tries' = [tries EXCEPT ![r] = @ + 1]
    /\ UNCHANGED <<world, pc, at, mode, round, license, view, calm, aware>>

GiveUp(r) ==
    /\ pc[r] \in Waiting /\ tries[r] = MaxAttempts
    /\ Goto(r, "failed", 1)
    /\ calm' = [calm EXCEPT ![r] = @ /\ shown[at[r]] = reg[at[r]] /\ View(r, at[r]) \notin Awaited(r)]
    /\ UNCHANGED <<world, mode, round, license, view, tries, aware>>

\* The final pass over all packages, before completed.json is written.
Close(r) ==
    /\ pc[r] = "closing" /\ View(r, at[r]) = "verified"
    /\ IF at[r] < NPackages THEN Goto(r, "closing", at[r] + 1) ELSE Goto(r, "comparing", Completed)
    /\ UNCHANGED <<world, mode, round, license, view, tries, calm, aware>>

------------------------------------------------------------------------------
(* Errors, and everybody else.                                               *)

Refuses_Alias(r) ==
    \/ pc[r] \in {"head", "again"} /\ tree = "moved"
    \/ pc[r] = "clean" /\ tree = "edited"
    \/ pc[r] \in {"bytes", "source"} /\ tree # "reviewed"
    \/ pc[r] = "output" /\ out[Stray] # "absent"
    \/ pc[r] = "pack" /\ OnDisk # license[r]
    \/ pc[r] = "comparing" /\ out[at[r]] \notin {"absent", license[r]}
    \/ pc[r] = "creating" /\ out[at[r]] # "absent"
    \/ pc[r] = "local" /\ out[at[r]] # license[r]
    \/ pc[r] = "survey" /\ View(r, at[r]) \in {"refused", "recoverable"}
    \/ pc[r] = "preflight" /\ View(r, at[r]) \notin {"verified", "recoverable"}
    \/ pc[r] = "closing" /\ View(r, at[r]) # "verified"

\* What makes the step at pc throw for good.
Refuses(r) ==
    \/ pc[r] \in {"head", "again"} /\ tree = "moved"
    \/ pc[r] = "clean" /\ tree = "edited"
    \/ pc[r] \in {"bytes", "source"} /\ tree # "reviewed"
    \/ pc[r] = "output" /\ out[Stray] # "absent"
    \/ pc[r] = "pack" /\ OnDisk # license[r]
    \/ pc[r] = "comparing" /\ out[at[r]] \notin {"absent", license[r]}
    \/ pc[r] = "creating" /\ out[at[r]] # "absent"
    \/ pc[r] = "local" /\ out[at[r]] # license[r]
    \/ pc[r] = "survey" /\ View(r, at[r]) = "refused"
    \/ pc[r] = "preflight" /\ View(r, at[r]) \notin {"verified", "recoverable"}
    \/ pc[r] = "closing" /\ View(r, at[r]) # "verified"

Reject(r) == Refuses(r) /\ Proceed(r, "failed", 1)

\* A token in the environment, no terminal, a request or a command that fails, a
\* process killed: while it writes a file, it may leave part of it.
BreakOff(r) ==
    /\ pc[r] \in Active
    /\ Goto(r, "failed", 1)
    /\ \/ UNCHANGED out /\ calm' = [calm EXCEPT ![r] = FALSE]
       \/ /\ pc[r] = "creating" /\ out[at[r]] = "absent"
          /\ out' = [out EXCEPT ![at[r]] = "partial"]
          /\ calm' = [q \in Runs |-> FALSE]
    /\ UNCHANGED <<tree, changes, reg, shown, mode, round, license, view, tries, aware>>

Catchup(p) ==
    /\ shown[p] # reg[p]
    /\ shown' = [shown EXCEPT ![p] = reg[p]]
    /\ UNCHANGED <<tree, changes, out, reg, locals, calm, aware>>

ChangeTree ==
    /\ changes < MaxChanges
    /\ tree' \in {"reviewed", "edited", "moved"} \ {tree}
    /\ changes' = changes + 1
    /\ calm' = [r \in Runs |-> FALSE]
    /\ UNCHANGED <<out, reg, shown, locals, aware>>

\* Somebody publishes a release of the package, which takes the latest tag.
Release(p) ==
    /\ ~reg[p].foreign
    /\ reg' = [reg EXCEPT ![p].latest = TRUE, ![p].foreign = TRUE]
    /\ calm' = [r \in Runs |-> FALSE]
    /\ aware' = [r \in Runs |-> FALSE]
    /\ UNCHANGED <<tree, changes, out, shown, locals>>

Step(r) ==
    \/ CheckHead(r) \/ CheckClean(r) \/ CheckBytes(r) \/ CheckHeadAgain(r) \/ AssertSource(r)
    \/ OpenOutput(r) \/ ReadLicense(r) \/ Pack(r) \/ Compare(r) \/ Create(r) \/ InspectLocal(r)
    \/ Survey(r) \/ Skip(r) \/ Recover(r) \/ Publish(r) \/ PublishFails(r)
    \/ Preflight(r) \/ RemoveLatest(r) \/ PollSucceeds(r) \/ PollAgain(r) \/ GiveUp(r)
    \/ Close(r) \/ Reject(r)

Others == ChangeTree \/ \E p \in Packages : Catchup(p) \/ Release(p)

Next == Others \/ \E r \in Runs : Begin(r) \/ Step(r) \/ BreakOff(r)

Spec == Init /\ [][Next]_vars

------------------------------------------------------------------------------
(* Properties.                                                               *)

TypeOK ==
    /\ tree \in {"reviewed", "edited", "moved"}
    /\ changes \in Nat
    /\ out \in [Files -> Contents]
    /\ reg \in [Packages -> Holdings]
    /\ shown \in [Packages -> Holdings]
    /\ pc \in [Runs -> Active \cup Ended \cup {"idle"}]
    /\ at \in [Runs -> Files \ {Stray}]
    /\ mode \in [Runs -> {"dry-run", "publish"}]
    /\ round \in [Runs -> 1 .. 2]
    /\ license \in [Runs -> Licenses]
    /\ view \in [Runs -> [Packages -> States]]
    /\ tries \in [Runs -> 1 .. MaxAttempts]
    /\ calm \in [Runs -> BOOLEAN]
    /\ aware \in [Runs -> BOOLEAN]
    /\ \A r \in Runs :
          /\ pc[r] \in {"pack", "local", "survey", "act", "preflight", "removing", "closing"} \cup Waiting
                => at[r] \in Packages
          /\ pc[r] \in Publishing => round[r] = 2

\* The checkout has changed so often at least, and once more if it is as reviewed again.
Away(n) == changes >= n /\ (tree = "reviewed" => changes > n)

PastFirstCheck(r) == round[r] = 2 \/ pc[r] \in {"again"} \cup Building \cup Writing
PastSecondCheck(r) ==
    /\ round[r] = 2
    /\ pc[r] \in {"again"} \cup Publishing \cup Writing
Closed(p, l) == reg[p].bytes = l /\ (reg[p].latest => reg[p].foreign)
Closing(r, p) == (pc[r] = "closing" /\ p < at[r]) \/ (pc[r] \in Writing /\ at[r] = Completed)

\* How often the checkout must have changed for what has been read, written and published.
Drift ==
    /\ \A r \in Runs :
          /\ PastFirstCheck(r) /\ tree # "reviewed" => changes >= 1
          /\ license[r] = "other" => Away(1)
          /\ PastSecondCheck(r) /\ (\E p \in Packages : out[p] = "other") =>
                changes >= 2 /\ (tree # "reviewed" => changes >= 3)
          /\ /\ pc[r] \in Publishing \ {"relicense"} \/ (pc[r] \in Writing /\ round[r] = 2)
             /\ license[r] = "other" /\ \E p \in Packages : out[p] = "other"
             => changes >= 3
    /\ \A f \in Files : out[f] = "other" => Away(1)
    /\ \A p \in Packages : reg[p].bytes = "other" => changes >= 3

ArchivesOf(r) ==
    /\ pc[r] \in {"idle"} \cup Building => round[r] = 1
    /\ pc[r] = "idle" => license[r] = "reviewed"
    /\ pc[r] \in Writing => (round[r] = 1 <=> at[r] # Completed)
    /\ \A p \in Packages :
          /\ \/ pc[r] \in {"pack"} \cup Writing /\ p < at[r]
             \/ round[r] = 2
             => out[p] \in Licenses
          /\ \/ pc[r] = "local" /\ p < at[r]
             \/ pc[r] \in Publishing \ {"relicense", "local"}
             => out[p] = license[r]

\* What a run has written and inspected stays.
Archives == out[Stray] \notin Licenses /\ \A r \in Runs : ArchivesOf(r)

\* The registry shows an older state at worst, and what a run has found closed is closed.
Closure ==
    /\ \A p \in Packages :
          /\ shown[p].bytes \in {"absent", reg[p].bytes}
          /\ shown[p].foreign => reg[p].foreign
          /\ shown[p].bytes # "absent" /\ ~shown[p].latest /\ ~shown[p].foreign
                => (reg[p].latest => reg[p].foreign)
    /\ \A r \in Runs, p \in Packages : Closing(r, p) => Closed(p, license[r])
    /\ \A r \in Runs : pc[r] = "removing" /\ aware[r] => ~reg[at[r]].foreign

\* What a package shows to a run that has found it so.
Settled(p) == shown[p].bytes # "absent" /\ ~shown[p].latest

CalmOf(r) ==
    /\ pc[r] # "failed"
    /\ pc[r] = "creating" => out[at[r]] = "absent"
    /\ pc[r] = "created" => reg[at[r]].bytes # "absent"
    /\ pc[r] = "gone" => ~reg[at[r]].latest
    /\ pc[r] \in {"preflight", "removing", "gone"} => shown[at[r]].bytes # "absent"
    /\ \A p \in Packages :
          /\ /\ \/ pc[r] = "survey" /\ p < at[r]
                \/ pc[r] = "act" \/ (pc[r] \in {"preflight", "removing"} \cup Waiting /\ p # at[r])
             /\ view[r][p] # "absent"
             => shown[p].bytes # "absent" /\ (view[r][p] = "verified" => ~shown[p].latest)
          /\ \/ pc[r] \in {"act", "preflight", "removing"} \cup Waiting /\ p < at[r]
             \/ pc[r] = "closing"
             => Settled(p)

\* Of a run that is not disturbed: what it needs is there, and what it has done shows.
Calm ==
    \A r \in Runs : calm[r] =>
        /\ tree = "reviewed"
        /\ \A f \in Files : out[f] \in {"absent", "reviewed"}
        /\ \A p \in Packages : ~reg[p].foreign /\ reg[p].bytes # "other"
        /\ \A q \in Runs : pc[q] \in Active => license[q] = "reviewed"
        /\ CalmOf(r)

BootInv == TypeOK /\ Drift /\ Archives /\ Closure /\ Calm

\* The LICENSE is read again after each check of the checkout, so a change that is undone
\* in time goes unnoticed.  Even so an archive with another LICENSE reaches the registry
\* only if the checkout changes three times at the right moments: before the archives are
\* built, back before the second check, and once more before the last read.
PublishedIsReviewed == (\E p \in Packages : reg[p].bytes = "other") => changes >= 3

\* completed.json says what the registry holds, for every package: the bytes it was made
\* from, and no latest tag but one that somebody else has given to a release.
CompletedIsRight ==
    out[Completed] \in Licenses =>
        \A p \in Packages : /\ reg[p].bytes = out[Completed]
                            /\ reg[p].latest => reg[p].foreign

\* The latest tag of somebody's release is removed only if the release came after the last
\* look at the package, or the registry showed an older state.
RemovesOnlyAlias ==
    [][\A r \in Runs, p \in Packages :
          /\ pc[r] = "removing" /\ at[r] = p /\ pc'[r] = "gone"
          /\ reg[p].foreign /\ ~reg'[p].latest
          => ~aware[r]]_vars

\* A run that nothing disturbs does not fail, whatever earlier or overlapping runs have done
\* to the registry and the output directory and wherever they broke off: published packages,
\* an unexpected latest tag, archives without a record.  Only two runs that create one file
\* at the same moment, and a file cut short, are in its way.
ResumesAfterFailure == \A r \in Runs : calm[r] => pc[r] # "failed"
=============================================================================
