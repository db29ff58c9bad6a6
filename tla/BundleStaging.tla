---------------------------- MODULE BundleStaging ----------------------------
(* The commands that prepare a project, in the order of their steps: `run` and  *)
(* `start` (resolve, supervisor, compile, materialize, check, complete, publish),*)
(* `build` (the same without the check), `build --builder container` (whose     *)
(* binaries come from a container), and `validate`, which builds only what is   *)
(* declared, reads registry artifacts from the published release, and           *)
(* publishes nothing. Between commands the operator edits the project.          *)
(*                                                                              *)
(* Publishing is one step here; ReleaseBuild has the file system under it and   *)
(* the commands that run at once. A step that needs Cargo, the registry or the  *)
(* container may fail; a command that fails leaves the published release alone. *)
EXTENDS BundlePlan

CONSTANTS
  Projects,       \* the projects a run of the model starts from
  Edits(_),       \* the projects one edit can turn a project into
  MaxEdits,
  MaxCommands

ASSUME BoundAssumption == MaxEdits \in Nat /\ MaxCommands \in Nat
ASSUME ProjectAssumption == Projects \subseteq Project

VARIABLES
  project,   \* the working tree
  job,       \* the command being given
  bin,       \* the bin/ entries of .phoxal/release, none before the first
  verdicts,  \* what validate and the last run said of this very project
  edits, commands

vars == <<project, job, bin, verdicts, edits, commands>>

Nothing == <<>>   \* the function with no bin/ entry
Kind == {"validate", "run", "build", "container"}
NoVerdicts == [validate |-> "none", sure |-> FALSE, current |-> FALSE, run |-> "none"]

Job(kind, step) ==
  [kind |-> kind, step |-> step, packages |-> {}, files |-> Nothing,
   artifacts |-> Nothing, candidate |-> Nothing]
Idle == Job("validate", "idle")

Participants == IF job.kind = "validate" THEN DeclaredParticipants(project)
                                         ELSE SourceParticipants(project)
AtStep(step) == job.step = step
At(step, kinds) == job.step = step /\ job.kind \in kinds
GoTo(step) == job' = [job EXCEPT !.step = step]

\* A command ends; run and validate leave their verdict with the operator.
End(verdict) ==
  /\ job' = Idle
  /\ verdicts' = IF job.kind = "run" THEN [verdicts EXCEPT !.run = verdict] ELSE verdicts
  /\ UNCHANGED <<project, bin, edits, commands>>

------------------------------------------------------------------------------

Init ==
  /\ project \in Projects
  /\ job = Idle /\ bin = Nothing /\ verdicts = NoVerdicts
  /\ edits = 0 /\ commands = 0

Edit ==
  /\ AtStep("idle") /\ edits < MaxEdits
  /\ project' \in (Edits(project) \cap Project) \ {project}
  /\ verdicts' = NoVerdicts
  /\ edits' = edits + 1
  /\ UNCHANGED <<job, bin, commands>>

Begin(kind) ==
  /\ AtStep("idle") /\ commands < MaxCommands
  /\ job' = Job(kind, "resolve")
  /\ commands' = commands + 1
  /\ UNCHANGED <<project, bin, verdicts, edits>>

Resolve ==
  /\ AtStep("resolve") /\ Resolves(project)
  /\ GoTo(CASE job.kind = "validate" -> "compile"
            [] job.kind = "container" -> "contain"
            [] OTHER -> "supply")
  /\ UNCHANGED <<project, bin, verdicts, edits, commands>>

\* Both commands refuse an unresolvable project, so it settles no verdict.
RefuseResolution ==
  AtStep("resolve") /\ ~Resolves(project) /\ End("none")

\* The container compiles the selected crates into the persistent target and
\* installs the selected packages, before staging looks at anything.
Contain ==
  /\ AtStep("contain")
  /\ \E files \in Linkings(project, ContainerCrates(project)) :
       job' = [job EXCEPT !.step = "supply", !.files = files,
                          !.packages = ContainerPackages(project)]
  /\ UNCHANGED <<project, bin, verdicts, edits, commands>>

\* The container's output is authoritative: what it lacks is a hard error.
SupplySupervisor ==
  /\ AtStep("supply")
  /\ GoTo(IF job.kind = "container" /\ <<"supervisor">> \notin job.packages
          THEN "incomplete" ELSE "compile")
  /\ UNCHANGED <<project, bin, verdicts, edits, commands>>

Compile ==
  /\ At("compile", {"validate", "run", "build"})
  /\ \E files \in Linkings(project, {q.crate : q \in Participants}) :
       job' = [job EXCEPT !.step = IF job.kind = "validate" THEN "check" ELSE "materialize",
                          !.artifacts = Artifacts(project, Participants, files)]
  /\ UNCHANGED <<project, bin, verdicts, edits, commands>>

\* No Cargo runs: the files the container left are found by name.
LocatePrebuilt ==
  /\ At("compile", {"container"})
  /\ IF \A q \in Participants : BinName(project, q.crate) \in DOMAIN job.files
     THEN job' = [job EXCEPT !.step = "materialize",
                             !.artifacts = Artifacts(project, Participants, job.files)]
     ELSE GoTo("incomplete")
  /\ UNCHANGED <<project, bin, verdicts, edits, commands>>

\* Entries placed into a bin/ directory, over those of the same name.
Placed(b, entries) ==
  [e \in DOMAIN b \cup DOMAIN entries |-> IF e \in DOMAIN entries THEN entries[e] ELSE b[e]]

\* Officials and registry drivers enter the candidate: an override by its built
\* artifact, the others from the container, or by cargo install under the name of
\* the package and renamed once the batch is done.
Package(ref) == IF ref \in Official THEN <<"service", ref>> ELSE <<"component", ref>>
ContainerLacks ==
  job.kind = "container" /\ \E r \in PlatformRefs(project) : Package(r) \notin job.packages
Store ==
  Placed([r \in PlatformRefs(project) |-> RegistryBinary(project, r)],
         [o \in Overridden(project) |-> job.artifacts[o]])

Materialize ==
  /\ AtStep("materialize")
  /\ IF ContainerLacks
     THEN GoTo("incomplete")
     ELSE job' = [job EXCEPT !.step = IF job.kind = "run" THEN "check" ELSE "complete",
                             !.candidate = Store]
  /\ UNCHANGED <<project, bin, verdicts, edits, commands>>

RunChecks ==
  GraphChecks(project, PlatformRefs(project), job.candidate, Participants, job.artifacts)
CheckSource ==
  /\ At("check", {"run"}) /\ RunChecks /\ GoTo("complete")
  /\ UNCHANGED <<project, bin, verdicts, edits, commands>>
RefuseSource == At("check", {"run"}) /\ ~RunChecks /\ End("refused")

\* The robot's own binaries, under the id each is launched by: a driver under
\* its component type, which all its instances share.
Entry(q) == IF q.kind = "driver" THEN q.crate ELSE q.name
Staged == {q \in Participants : q.kind # "official"}
CompleteBin ==
  /\ AtStep("complete")
  /\ job' = [job EXCEPT !.step = "publish",
       !.candidate = Placed(job.candidate,
                       [e \in {Entry(q) : q \in Staged} |->
                          LET q == CHOOSE q \in Staged : Entry(q) = e
                          IN  job.artifacts[q.name]])]
  /\ UNCHANGED <<project, bin, verdicts, edits, commands>>

PublishRelease ==
  /\ AtStep("publish") /\ Verified(project, job.candidate)
  /\ bin' = job.candidate
  /\ GoTo("published")
  /\ UNCHANGED <<project, verdicts, edits, commands>>

RefuseCandidate ==
  AtStep("publish") /\ ~Verified(project, job.candidate) /\ End("refused")

\* The command reports the release it published.
Report == AtStep("published") /\ End("accepted")

\* validate: what it judged is sure if every registry artifact could be read and
\* it built every crate a run would build, and current if what it read is what
\* a run would install.
DeclaredChecks ==
  GraphChecks(project, StagedRefs(project, bin), bin, Participants, job.artifacts)
CheckDeclared ==
  /\ At("check", {"validate"})
  /\ verdicts' = [verdicts EXCEPT
       !.validate = IF DeclaredChecks THEN "accepted" ELSE "refused",
       !.sure = UncheckedRefs(project, bin) = {} /\ Overridden(project) \subseteq project.declared,
       !.current = \A r \in StagedRefs(project, bin) : bin[r] = RegistryBinary(project, r)]
  /\ job' = Idle
  /\ UNCHANGED <<project, bin, edits, commands>>

\* Cargo, the registry or the container fails, or the container turns out to be
\* incomplete: nothing is published, and nothing is said of the project.
Fail ==
  /\ job.step \in {"contain", "supply", "compile", "materialize", "incomplete"}
  /\ End("none")

Next ==
  \/ Edit
  \/ \E kind \in Kind : Begin(kind)
  \/ Resolve \/ RefuseResolution \/ Contain \/ SupplySupervisor
  \/ Compile \/ LocatePrebuilt
  \/ Materialize \/ CheckSource \/ RefuseSource \/ CompleteBin
  \/ PublishRelease \/ RefuseCandidate \/ Report
  \/ CheckDeclared \/ Fail

Spec == Init /\ [][Next]_vars

------------------------------------------------------------------------------
(* Properties                                                                   *)

\* What resolution selected for a bin/ entry: the crate, or the registry's.
Selected(n) == IF project.tree[n] = "crate" THEN CrateBinary(project, n)
                                            ELSE RegistryBinary(project, n)

\* Every runtime a published robot launches finds in bin/ the binary of the very
\* source resolution selected for it, of the project's train: whatever crates
\* override officials, share a driver between instances, or share a Cargo
\* binary name and with it one file.
LaunchesItsSources ==
  AtStep("published") =>
    \A n \in RobotBinaries(project) : n \in DOMAIN bin /\ bin[n] = Selected(n)

\* What the container is told to install and compile is all that staging then
\* looks for: a build that resolved never ends for an incomplete container.
ContainerSuffices == job.step # "incomplete"

\* `validate` and `run` judge a project alike: what a run accepted, validate
\* refuses only on the word of a binary that is not the one a run installs, and
\* what validate accepted having judged everything, no run refuses.
VerdictsAgree ==
  /\ verdicts.validate = "refused" /\ verdicts.run = "accepted" => ~verdicts.current
  /\ verdicts.validate = "accepted" /\ verdicts.sure /\ verdicts.current
       => verdicts.run # "refused"

================================================================================
