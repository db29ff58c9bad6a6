------------------------- MODULE BundleStagingProofs -------------------------
(***************************************************************************)
(* Theorems about BundleStaging, for any catalogue, project, edit and      *)
(* number of commands: a published robot launches the sources that were    *)
(* selected for it, the container is told of everything that staging looks *)
(* for, and `validate` and `run` judge a project alike.                    *)
(*                                                                         *)
(* The first half is about the operators of BundlePlan alone.  It defines  *)
(* what it is for a project to be sound, from the project and not from     *)
(* what a command happened to link or to read, and shows that every check  *)
(* a command makes accepts a sound project and no other.                   *)
(***************************************************************************)
EXTENDS BundleStaging, TLAPS

(***************************************************************************)
(* Resolved projects.                                                      *)
(***************************************************************************)
Resolved == {p \in Project : Resolves(p)}

\* What the fields of a project are.
LEMMA Fields ==
  ASSUME NEW p \in Project
  PROVE  /\ p.declared \subseteq Service /\ p.mounted \subseteq Instance
         /\ p.driven \subseteq p.mounted /\ p.train \in Train
BY DEF Project

\* The names of the catalogue, the project and the components are apart.
LEMMA Names ==
  /\ Official \cap User = {} /\ Service \cap Type = {} /\ Official \cap Instance = {}
  /\ Brain \notin Service /\ Brain \notin Type /\ Brain \notin Instance
  /\ Official \subseteq Service /\ User \subseteq Service
  /\ \A i \in Instance : TypeOf[i] \in Type
BY IdsApart, TypesAndLines DEF Service

\* Where a driver comes from.
LEMMA Drivers ==
  ASSUME NEW p \in Resolved
  PROVE  /\ LocalDrivers(p) = {i \in p.driven : p.tree[TypeOf[i]] = "crate"}
         /\ RegistryDrivers(p) = {i \in p.driven : p.tree[TypeOf[i]] # "crate"}
<1>1. p \in Project  BY DEF Resolved
<1>2. \A i \in p.driven : i \in p.mounted /\ TypeOf[i] \in Type  BY <1>1, Fields, Names
<1>3. /\ LocalDrivers(p) = {i \in p.mounted : Driver(p, i) = "crate"}
      /\ RegistryDrivers(p) = {i \in p.mounted : Driver(p, i) = "registry"}
  BY DEF LocalDrivers, RegistryDrivers, From, Plan
<1>. QED  BY <1>2, <1>3 DEF Driver, ComponentCrates

\* Where a service comes from.
LEMMA Services ==
  ASSUME NEW p
  PROVE  /\ From("crate", Plan(p).platform) = Overridden(p)
         /\ ServiceRefs(p) = Official \ Overridden(p)
         /\ Plan(p).user = UserServices(p)
<1>. DEFINE f == [o \in Official |-> IF o \in Overridden(p) THEN "crate" ELSE "registry"]
<1>1. Plan(p).platform = f /\ Plan(p).user = UserServices(p)  BY DEF Plan
<1>2. DOMAIN f = Official /\ Overridden(p) \subseteq Official  BY DEF Overridden
<1>3. {o \in Official : f[o] = "crate"} = Overridden(p)  BY <1>2
<1>4. {o \in Official : f[o] = "registry"} = Official \ Overridden(p)  OBVIOUS
<1>. HIDE DEF f
<1>. QED  BY <1>1, <1>2, <1>3, <1>4 DEF From, ServiceRefs

\* The participants of a project.
LEMMA ParticipantCases ==
  ASSUME NEW p \in Resolved, NEW q
  PROVE  q \in SourceParticipants(p) <=>
           \/ q = Participant(Brain, "brain", Brain)
           \/ \E i \in p.driven :
                p.tree[TypeOf[i]] = "crate" /\ q = Participant(i, "driver", TypeOf[i])
           \/ \E o \in Overridden(p) : q = Participant(o, "official", o)
           \/ \E u \in UserServices(p) : q = Participant(u, "user", u)
BY Drivers, Services DEF SourceParticipants, BrainParticipant, DriverParticipants

\* The fields of a participant.
LEMMA ParticipantFields ==
  ASSUME NEW n, NEW k, NEW c
  PROVE  /\ Participant(n, k, c).name = n /\ Participant(n, k, c).kind = k
         /\ Participant(n, k, c).crate = c
BY DEF Participant

\* The participant of a crate, by kind.
LEMMA ParticipantOf ==
  ASSUME NEW p \in Resolved, NEW q \in SourceParticipants(p)
  PROVE  /\ q = Participant(q.name, q.kind, q.crate)
         /\ p.tree[q.crate] = "crate" /\ q.crate \in Source
         /\ \/ q.kind = "brain" /\ q.name = Brain /\ q.crate = Brain
            \/ q.kind = "driver" /\ q.name \in p.driven /\ q.crate = TypeOf[q.name]
            \/ q.kind = "official" /\ q.name \in Overridden(p) /\ q.crate = q.name
            \/ q.kind = "user" /\ q.name \in UserServices(p) /\ q.crate = q.name
<1>1. p \in Project /\ p.tree[Brain] = "crate"  BY DEF Resolved, Resolves, LockedProject
<1>2. CASE q = Participant(Brain, "brain", Brain)
  BY <1>1, <1>2, ParticipantFields DEF Source
<1>3. CASE \E i \in p.driven :
             p.tree[TypeOf[i]] = "crate" /\ q = Participant(i, "driver", TypeOf[i])
  BY <1>1, <1>3, ParticipantFields, Fields, Names DEF Source
<1>4. CASE \E o \in Overridden(p) : q = Participant(o, "official", o)
  BY <1>4, ParticipantFields, Names DEF Source, Overridden
<1>5. CASE \E u \in UserServices(p) : q = Participant(u, "user", u)
  BY <1>5, ParticipantFields, Names DEF Source, UserServices
<1>. QED  BY <1>2, <1>3, <1>4, <1>5, ParticipantCases

\* No two participants have one name.
LEMMA NamesApart ==
  ASSUME NEW p \in Resolved, NEW q \in SourceParticipants(p), NEW r \in SourceParticipants(p),
         q.name = r.name
  PROVE  q = r
<1>1. p \in Project /\ p.mounted \cap p.declared = {}
  BY DEF Resolved, Resolves, LaunchIdsApart
<1>2. /\ p.driven \subseteq Instance /\ p.driven \cap p.declared = {}
      /\ UserServices(p) \subseteq User \cap p.declared /\ Overridden(p) \subseteq Official
  BY <1>1, Fields DEF UserServices, Overridden
<1>3. q.kind = r.kind /\ q.crate = r.crate  BY <1>2, ParticipantOf, Names
<1>. QED  BY <1>3, ParticipantOf

\* validate builds no other participants, and all of them if it is sure.
LEMMA DeclaredAreSource ==
  ASSUME NEW p \in Resolved
  PROVE  /\ DeclaredParticipants(p) \subseteq SourceParticipants(p)
         /\ Overridden(p) \subseteq p.declared => DeclaredParticipants(p) = SourceParticipants(p)
<1>1. p.declared \subseteq Service /\ p \in Project  BY Fields DEF Resolved
<1>2. {s \in p.declared : p.tree[s] = "crate"} = (Overridden(p) \cap p.declared) \cup UserServices(p)
  BY <1>1 DEF Overridden, UserServices, Service
<1>. DEFINE kind(s) == IF s \in Official THEN "official" ELSE "user"
            D == (Overridden(p) \cap p.declared) \cup UserServices(p)
<1>3. DeclaredParticipants(p) =
        {BrainParticipant} \cup DriverParticipants(p) \cup {Participant(s, kind(s), s) : s \in D}
  BY <1>2 DEF DeclaredParticipants
<1>4. /\ \A s \in Overridden(p) : kind(s) = "official"
      /\ \A s \in UserServices(p) : kind(s) = "user"
  BY Names DEF Overridden, UserServices
<1>. HIDE DEF kind
<1>. QED  BY <1>3, <1>4, Services DEF SourceParticipants

(***************************************************************************)
(* Binaries.                                                               *)
(***************************************************************************)
\* The fields of a binary.
LEMMA BinaryFields ==
  ASSUME NEW p, NEW n
  PROVE  /\ CrateBinary(p, n).of = n /\ CrateBinary(p, n).says = p.says[n]
         /\ CrateBinary(p, n).train = p.train
         /\ RegistryBinary(p, n).of = n /\ RegistryBinary(p, n).says = "itself"
         /\ RegistryBinary(p, n).train = p.train
BY DEF CrateBinary, RegistryBinary, Binary

Crates(S) == {q.crate : q \in S}

\* What is retained for a participant is the file under its crate's name.
LEMMA ArtifactOf ==
  ASSUME NEW p \in Resolved, NEW S \in SUBSET SourceParticipants(p), NEW f, NEW q \in S
  PROVE  /\ q.name \in DOMAIN Artifacts(p, S, f)
         /\ Artifacts(p, S, f)[q.name] = CrateBinary(p, f[BinName(p, q.crate)])
<1>. DEFINE r == CHOOSE r \in S : r.name = q.name
<1>1. r \in S /\ r.name = q.name  OBVIOUS
<1>2. r = q  BY <1>1, NamesApart
<1>3. q.name \in {s.name : s \in S}  OBVIOUS
<1>4. Artifacts(p, S, f)[q.name] = CrateBinary(p, f[BinName(p, r.crate)])
  BY <1>3 DEF Artifacts
<1>. QED  BY <1>2, <1>3, <1>4 DEF Artifacts

\* Every crate has a file, and every file is of a crate of that name.
LEMMA LinkedFile ==
  ASSUME NEW p, NEW C, NEW f \in Linkings(p, C), NEW c \in C
  PROVE  /\ BinName(p, c) \in DOMAIN f /\ f[BinName(p, c)] \in C
         /\ BinName(p, f[BinName(p, c)]) = BinName(p, c)
BY DEF Linkings

(***************************************************************************)
(* Sound projects.                                                         *)
(***************************************************************************)
\* No two crates share a file, and every binary passes its check.
Sound(p) ==
  /\ \A q, r \in SourceParticipants(p) :
       BinName(p, q.crate) = BinName(p, r.crate) => q.crate = r.crate
  /\ \A q \in SourceParticipants(p) : ParticipantChecks(p, CrateBinary(p, q.crate), q)
  /\ \A r \in PlatformRefs(p) : RefChecks(p, RegistryBinary(p, r), r)

\* In a sound project a crate's file is its own.
LEMMA SoundLinks ==
  ASSUME NEW p \in Resolved, Sound(p), NEW S \in SUBSET SourceParticipants(p),
         NEW f \in Linkings(p, Crates(S)), NEW q \in S
  PROVE  f[BinName(p, q.crate)] = q.crate
<1>1. q.crate \in Crates(S)  BY DEF Crates
<1>2. PICK r \in S : f[BinName(p, q.crate)] = r.crate  BY <1>1, LinkedFile DEF Crates
<1>3. BinName(p, r.crate) = BinName(p, q.crate)  BY <1>1, <1>2, LinkedFile
<1>. QED  BY <1>2, <1>3 DEF Sound

\* A sound project passes the checks of any command.
LEMMA SoundPasses ==
  ASSUME NEW p \in Resolved, Sound(p), NEW S \in SUBSET SourceParticipants(p),
         NEW f \in Linkings(p, Crates(S)), NEW refs \in SUBSET PlatformRefs(p), NEW b,
         \A r \in refs : r \in DOMAIN b /\ b[r] = RegistryBinary(p, r)
  PROVE  GraphChecks(p, refs, b, S, Artifacts(p, S, f))
<1>1. \A q \in S : Artifacts(p, S, f)[q.name] = CrateBinary(p, q.crate)
  BY ArtifactOf, SoundLinks
<1>2. \A q \in S : ParticipantChecks(p, Artifacts(p, S, f)[q.name], q)  BY <1>1 DEF Sound
<1>3. \A r \in refs : r \in DOMAIN b /\ RefChecks(p, b[r], r)  BY DEF Sound
<1>. QED  BY <1>2, <1>3 DEF GraphChecks

\* What validate could judge if the release held every registry artifact.
JudgedRefs(p) == (ServiceRefs(p) \cap p.declared) \cup DriverRefs(p)

\* An official that nothing configures passes as the registry has it.
LEMMA UnconfiguredPasses ==
  ASSUME NEW p \in Resolved, NEW r \in ServiceRefs(p) \ p.declared
  PROVE  RefChecks(p, RegistryBinary(p, r), r)
<1>1. p \in Project /\ r \in Official  BY Services DEF Resolved
<1>2. \A i \in RegistryDrivers(p) : TypeOf[i] # r  BY <1>1, Drivers, Fields, Names
<1>3. Identified(RegistryBinary(p, r), r) /\ Readable(RegistryBinary(p, r), p.train)
  BY BinaryFields DEF Identified, Declares, Readable
<1>. QED  BY <1>2, <1>3 DEF RefChecks, ServiceConfigFits

\* A project that passes the checks over all its participants is sound.
LEMMA PassesSound ==
  ASSUME NEW p \in Resolved, NEW f \in Linkings(p, Crates(SourceParticipants(p))), NEW refs, NEW b,
         GraphChecks(p, refs, b, SourceParticipants(p), Artifacts(p, SourceParticipants(p), f)),
         JudgedRefs(p) \subseteq refs, \A r \in JudgedRefs(p) : b[r] = RegistryBinary(p, r)
  PROVE  Sound(p)
<1>. DEFINE S == SourceParticipants(p)
<1>1. \A q \in S : ParticipantChecks(p, CrateBinary(p, f[BinName(p, q.crate)]), q)
  BY ArtifactOf DEF GraphChecks
<1>2. \A q \in S : f[BinName(p, q.crate)] = q.crate
  BY <1>1, BinaryFields DEF ParticipantChecks, Identified, Declares
<1>3. \A q, r \in S : BinName(p, q.crate) = BinName(p, r.crate) => q.crate = r.crate
  BY <1>2
<1>4. \A q \in S : ParticipantChecks(p, CrateBinary(p, q.crate), q)
  BY <1>1, <1>2
<1>5. ASSUME NEW r \in PlatformRefs(p) PROVE RefChecks(p, RegistryBinary(p, r), r)
  <2>1. CASE r \in JudgedRefs(p)  BY <2>1 DEF GraphChecks
  <2>2. CASE r \notin JudgedRefs(p)
    BY <1>5, <2>2, UnconfiguredPasses DEF JudgedRefs, PlatformRefs
  <2>. QED  BY <2>1, <2>2
<1>. QED  BY <1>3, <1>4, <1>5 DEF Sound

(***************************************************************************)
(* The inductive invariant.                                                *)
(***************************************************************************)
Record(kind, step, packages, files, artifacts, candidate) ==
  [kind |-> kind, step |-> step, packages |-> packages, files |-> files,
   artifacts |-> artifacts, candidate |-> candidate]
JobShape ==
  job = Record(job.kind, job.step, job.packages, job.files, job.artifacts, job.candidate)

\* The steps at which a command has resolved, has compiled, has its candidate.
Completed == {"publish", "published"}
Stored == {"check", "complete"} \cup Completed
Steps == {"idle", "resolve", "contain", "supply", "compile", "materialize"} \cup Stored

TypeOK ==
  /\ project \in Project
  /\ JobShape /\ job.kind \in Kind /\ job.step \in Steps
  /\ verdicts \in [validate : {"none", "accepted", "refused"}, sure : BOOLEAN,
                   current : BOOLEAN, run : {"none", "accepted", "refused"}]
  /\ edits \in Nat /\ commands \in Nat

\* Which commands get to a step.
KindOK ==
  /\ job.step = "contain" => job.kind = "container"
  /\ job.step \in {"supply", "materialize", "complete"} \cup Completed => job.kind # "validate"
  /\ job.step = "check" => job.kind \in {"validate", "run"}

\* A command past its resolution works on a project that resolves.
ResolvedOK == job.step \notin {"idle", "resolve"} => Resolves(project)

\* What the container left is what it was told to leave.
ContainerOK ==
  job.kind = "container" =>
    /\ job.step \in {"supply", "compile", "materialize"} =>
         job.packages = ContainerPackages(project)
    /\ job.step \in {"supply", "compile"} =>
         job.files \in Linkings(project, Crates(SourceParticipants(project)))

\* What is retained for each participant is a file that was linked for all.
LinkedOK ==
  job.step \in {"materialize"} \cup Stored =>
    \E f \in Linkings(project, Crates(Participants)) :
      job.artifacts = Artifacts(project, Participants, f)

\* What is in the candidate, before and after the robot's own binaries enter.
Own == [e \in {Entry(q) : q \in Staged} |->
          LET q == CHOOSE q \in Staged : Entry(q) = e IN job.artifacts[q.name]]
CandidateOK ==
  /\ job.step \in {"check", "complete"} /\ job.kind # "validate" => job.candidate = Store
  /\ job.step \in Completed => job.candidate = Placed(Store, Own)
  /\ job.step = "published" => bin = job.candidate /\ Verified(project, bin)

\* A run past its check runs a sound project.
CheckedOK == job.kind = "run" /\ job.step \in {"complete"} \cup Completed => Sound(project)

\* What was said of this project says whether it is sound.
VerdictsOK ==
  /\ verdicts.run = "accepted" => Sound(project)
  /\ verdicts.run = "refused" => ~Sound(project)
  /\ verdicts.validate = "refused" /\ verdicts.current => ~Sound(project)
  /\ verdicts.validate = "accepted" /\ verdicts.sure /\ verdicts.current => Sound(project)

IInv ==
  /\ TypeOK /\ KindOK /\ ResolvedOK /\ ContainerOK /\ LinkedOK
  /\ CandidateOK /\ CheckedOK /\ VerdictsOK

(***************************************************************************)
(* What a step does to the record of the command.                          *)
(***************************************************************************)
\* A step of a command that goes on: everything but what it sets is as it was.
Same(files, packages, artifacts, candidate) ==
  /\ job'.kind = job.kind /\ project' = project /\ JobShape'
  /\ files => job'.files = job.files
  /\ packages => job'.packages = job.packages
  /\ artifacts => job'.artifacts = job.artifacts
  /\ candidate => job'.candidate = job.candidate

\* The fields of a record.
LEMMA RecordFields ==
  ASSUME NEW k, NEW s, NEW p, NEW f, NEW a, NEW c
  PROVE  LET r == Record(k, s, p, f, a, c) IN
         /\ r.kind = k /\ r.step = s /\ r.packages = p
         /\ r.files = f /\ r.artifacts = a /\ r.candidate = c
BY DEF Record

\* A step that replaces the record of the command.
LEMMA RecordEffect ==
  ASSUME NEW k, NEW s, NEW p, NEW f, NEW a, NEW c, job' = Record(k, s, p, f, a, c)
  PROVE  /\ job'.kind = k /\ job'.step = s /\ job'.packages = p
         /\ job'.files = f /\ job'.artifacts = a /\ job'.candidate = c /\ JobShape'
BY RecordFields DEF JobShape

\* A command that only takes a step.
LEMMA GoToEffect ==
  ASSUME JobShape, NEW step, GoTo(step), project' = project
  PROVE  Same(TRUE, TRUE, TRUE, TRUE) /\ job'.step = step
<1>1. job' = Record(job.kind, step, job.packages, job.files, job.artifacts, job.candidate)
  BY DEF GoTo, JobShape, Record
<1>. QED  BY <1>1, RecordFields DEF Same, JobShape

\* A command that ends, or the place of one that has not begun.
LEMMA IdleFields ==
  ASSUME NEW k, NEW s
  PROVE  LET r == Job(k, s) IN
         /\ r.kind = k /\ r.step = s
         /\ r = Record(r.kind, r.step, r.packages, r.files, r.artifacts, r.candidate)
BY DEF Job, Record

\* Between commands there is nothing to say of the command.
LEMMA IdleKeeps ==
  ASSUME IInv, job' = Idle, UNCHANGED <<project, edits, commands>>, VerdictsOK',
         verdicts' \in [validate : {"none", "accepted", "refused"}, sure : BOOLEAN,
                        current : BOOLEAN, run : {"none", "accepted", "refused"}]
  PROVE  IInv'
<1>1. job'.kind = "validate" /\ job'.step = "idle" /\ JobShape'
  BY IdleFields DEF Idle, JobShape
<1>. QED
  BY <1>1 DEF IInv, TypeOK, Kind, Steps, KindOK, ResolvedOK, ContainerOK, LinkedOK, CandidateOK,
     CheckedOK, Stored, Completed

\* A command ends with a verdict that a run may give.
LEMMA EndKeeps ==
  ASSUME IInv, NEW verdict \in {"none", "accepted", "refused"}, End(verdict),
         job.kind = "run" /\ verdict = "accepted" => Sound(project),
         job.kind = "run" /\ verdict = "refused" => ~Sound(project)
  PROVE  IInv'
<1>1. verdicts' \in [validate : {"none", "accepted", "refused"}, sure : BOOLEAN,
                     current : BOOLEAN, run : {"none", "accepted", "refused"}]
  BY DEF End, IInv, TypeOK
<1>2. VerdictsOK'
  <2>1. CASE job.kind = "run" BY <2>1 DEF End, IInv, TypeOK, VerdictsOK
  <2>2. CASE job.kind # "run" BY <2>2 DEF End, IInv, TypeOK, VerdictsOK
  <2>. QED  BY <2>1, <2>2
<1>. QED  BY <1>1, <1>2, IdleKeeps DEF End

\* The verdicts stand while a command is at work.
LEMMA AtWorkKeeps ==
  ASSUME IInv, UNCHANGED <<project, verdicts, edits, commands>>, JobShape', job'.kind = job.kind,
         job'.step \in Steps, KindOK', ResolvedOK', ContainerOK', LinkedOK', CandidateOK', CheckedOK'
  PROVE  IInv'
BY DEF IInv, TypeOK, VerdictsOK

(***************************************************************************)
(* The steps of a command.                                                 *)
(***************************************************************************)
\* Edit keeps the invariant.
LEMMA EditKeeps == ASSUME IInv, Edit PROVE IInv'
<1>1. project' \in Project /\ job' = job /\ job.step = "idle" /\ edits' \in Nat
  BY DEF Edit, AtStep, IInv, TypeOK
<1>2. VerdictsOK'  BY DEF Edit, NoVerdicts, VerdictsOK
<1>3. verdicts' \in [validate : {"none", "accepted", "refused"}, sure : BOOLEAN,
                     current : BOOLEAN, run : {"none", "accepted", "refused"}]
  BY DEF Edit, NoVerdicts
<1>. QED
  BY <1>1, <1>2, <1>3 DEF Edit, IInv, TypeOK, JobShape, KindOK, ResolvedOK, ContainerOK, LinkedOK,
     CandidateOK, CheckedOK, Stored, Completed

\* Begin keeps the invariant.
LEMMA BeginKeeps == ASSUME IInv, NEW kind \in Kind, Begin(kind) PROVE IInv'
<1>1. job'.kind = kind /\ job'.step = "resolve" /\ JobShape'
  BY IdleFields DEF Begin, JobShape
<1>2. VerdictsOK' /\ commands' \in Nat  BY DEF Begin, IInv, TypeOK, VerdictsOK
<1>. QED
  BY <1>1, <1>2 DEF Begin, IInv, TypeOK, Steps, KindOK, ResolvedOK, ContainerOK, LinkedOK,
     CandidateOK, CheckedOK, Stored, Completed

\* Resolve keeps the invariant.
LEMMA ResolveKeeps == ASSUME IInv, Resolve PROVE IInv'
<1>. DEFINE to == CASE job.kind = "validate" -> "compile"
                    [] job.kind = "container" -> "contain"
                    [] OTHER -> "supply"
<1>1. /\ Same(TRUE, TRUE, TRUE, TRUE) /\ job'.step = to
      /\ UNCHANGED <<project, bin, verdicts, edits, commands>> /\ Resolves(project)
  BY GoToEffect DEF Resolve, IInv, TypeOK
<1>2. /\ to \in {"compile", "contain", "supply"}
      /\ to = "contain" => job.kind = "container"
      /\ to = "supply" => job.kind \notin {"validate", "container"}
      /\ to = "compile" => job.kind = "validate"
  OBVIOUS
<1>. HIDE DEF to
<1>. USE <1>1, <1>2 DEF Same
<1>3. KindOK' /\ ResolvedOK' /\ ContainerOK'
  BY DEF KindOK, ResolvedOK, ContainerOK, Completed
<1>4. LinkedOK' /\ CandidateOK' /\ CheckedOK'
  BY DEF LinkedOK, CandidateOK, CheckedOK, Stored, Completed
<1>5. job'.step \in Steps  BY DEF Steps
<1>. QED  BY <1>3, <1>4, <1>5, AtWorkKeeps

\* Contain keeps the invariant.
LEMMA ContainKeeps == ASSUME IInv, Contain PROVE IInv'
<1>1. PICK files \in Linkings(project, ContainerCrates(project)) :
        job' = [job EXCEPT !.step = "supply", !.files = files,
                           !.packages = ContainerPackages(project)]
  BY DEF Contain
<1>2. job' = Record(job.kind, "supply", ContainerPackages(project), files, job.artifacts,
                    job.candidate)
  BY <1>1 DEF IInv, TypeOK, JobShape, Record
<1>3. /\ job'.kind = job.kind /\ job'.step = "supply" /\ job'.files = files
      /\ job'.packages = ContainerPackages(project) /\ JobShape'
  BY <1>2, RecordEffect
<1>4. /\ UNCHANGED <<project, bin, verdicts, edits, commands>> /\ Resolves(project)
      /\ job.kind = "container"
  BY DEF Contain, AtStep, IInv, ResolvedOK, KindOK
<1>5. files \in Linkings(project, Crates(SourceParticipants(project)))
  BY DEF ContainerCrates, Crates
<1>. USE <1>3, <1>4
<1>6. KindOK' /\ ResolvedOK' /\ ContainerOK'
  BY <1>5 DEF KindOK, ResolvedOK, ContainerOK, Completed
<1>7. LinkedOK' /\ CandidateOK' /\ CheckedOK'
  BY DEF LinkedOK, CandidateOK, CheckedOK, Stored, Completed
<1>8. job'.step \in Steps  BY DEF Steps
<1>. QED  BY <1>6, <1>7, <1>8, AtWorkKeeps

\* The supervisor is among the packages of the container.
LEMMA SupervisorPackaged ==
  ASSUME NEW p
  PROVE  <<"supervisor">> \in ContainerPackages(p)
BY DEF ContainerPackages

\* SupplySupervisor keeps the invariant.
LEMMA SupplySupervisorKeeps == ASSUME IInv, SupplySupervisor PROVE IInv'
<1>0. job.kind = "container" => <<"supervisor">> \in job.packages
  BY SupervisorPackaged DEF SupplySupervisor, AtStep, IInv, ContainerOK
<1>1. /\ Same(TRUE, TRUE, TRUE, TRUE) /\ job'.step = "compile"
      /\ UNCHANGED <<project, bin, verdicts, edits, commands>> /\ job.step = "supply"
  BY <1>0, GoToEffect DEF SupplySupervisor, AtStep, IInv, TypeOK
<1>. USE <1>1 DEF Same
<1>3. KindOK' /\ ResolvedOK' /\ ContainerOK'
  BY DEF IInv, KindOK, ResolvedOK, ContainerOK, Completed
<1>4. LinkedOK' /\ CandidateOK' /\ CheckedOK'
  BY DEF LinkedOK, CandidateOK, CheckedOK, Stored, Completed
<1>5. job'.step \in Steps  BY DEF Steps
<1>. QED  BY <1>3, <1>4, <1>5, AtWorkKeeps

\* The artifacts of files that were linked for the participants of a command.
LEMMA CompiledKeeps ==
  ASSUME IInv, job.step = "compile", UNCHANGED <<project, bin, verdicts, edits, commands>>,
         NEW f \in Linkings(project, Crates(Participants)),
         job' = [job EXCEPT !.step = IF job.kind = "validate" THEN "check" ELSE "materialize",
                            !.artifacts = Artifacts(project, Participants, f)]
  PROVE  IInv'
<1>. DEFINE to == IF job.kind = "validate" THEN "check" ELSE "materialize"
            a == Artifacts(project, Participants, f)
<1>1. job' = Record(job.kind, to, job.packages, job.files, a, job.candidate)
  BY DEF IInv, TypeOK, JobShape, Record
<1>2. /\ to \in {"check", "materialize"}
      /\ to = "check" <=> job.kind = "validate"
  OBVIOUS
<1>. HIDE DEF to, a
<1>3. /\ job'.kind = job.kind /\ job'.step = to /\ job'.packages = job.packages
      /\ job'.artifacts = a /\ JobShape'
  BY <1>1, RecordEffect
<1>. USE <1>2, <1>3
<1>4. KindOK' /\ ResolvedOK' /\ ContainerOK'
  BY DEF IInv, KindOK, ResolvedOK, ContainerOK, Completed
<1>5. LinkedOK'
  <2>1. Participants' = Participants  BY DEF Participants
  <2>. QED  BY <2>1 DEF LinkedOK, a
<1>6. CandidateOK' /\ CheckedOK'
  BY DEF CandidateOK, CheckedOK, Completed
<1>7. job'.step \in Steps  BY DEF Steps, Stored
<1>. QED  BY <1>4, <1>5, <1>6, <1>7, AtWorkKeeps

\* Compile keeps the invariant.
LEMMA CompileKeeps == ASSUME IInv, Compile PROVE IInv'
BY CompiledKeeps DEF Compile, At, Crates

\* The container has compiled the crate of every participant.
LEMMA LocatePrebuiltKeeps == ASSUME IInv, LocatePrebuilt PROVE IInv'
<1>1. /\ job.kind = "container" /\ job.step = "compile"
      /\ job.files \in Linkings(project, Crates(SourceParticipants(project)))
      /\ Participants = SourceParticipants(project)
  BY DEF LocatePrebuilt, At, IInv, ContainerOK, Participants
<1>2. \A q \in Participants : BinName(project, q.crate) \in DOMAIN job.files
  BY <1>1, LinkedFile DEF Crates
<1>. QED  BY <1>1, <1>2, CompiledKeeps DEF LocatePrebuilt

\* The container has installed every package that staging looks for.
LEMMA PackagesSuffice ==
  ASSUME NEW p \in Resolved, NEW r \in PlatformRefs(p)
  PROVE  Package(r) \in ContainerPackages(p)
<1>1. CASE r \in ServiceRefs(p)
  <2>1. r \in Official \ Overridden(p)  BY <1>1, Services
  <2>. QED  BY <2>1 DEF Package, ContainerPackages
<1>2. CASE r \in DriverRefs(p)
  <2>1. r \in Type  BY <1>2, Drivers, Fields, Names DEF DriverRefs, Resolved
  <2>2. r \notin Official  BY <2>1, Names
  <2>. QED  BY <1>2, <2>2 DEF Package, ContainerPackages
<1>. QED  BY <1>1, <1>2 DEF PlatformRefs

\* The candidate and what it is made of change with the command's record only.
LEMMA SameCandidate ==
  ASSUME project' = project, job'.kind = job.kind, job'.artifacts = job.artifacts
  PROVE  Participants' = Participants /\ Store' = Store /\ Own' = Own /\ Staged' = Staged
<1>1. Participants' = Participants  BY DEF Participants
<1>2. Staged' = Staged  BY <1>1 DEF Staged
<1>. QED  BY <1>1, <1>2 DEF Store, Own, Entry

\* Materialize keeps the invariant.
LEMMA MaterializeKeeps == ASSUME IInv, Materialize PROVE IInv'
<1>1. /\ job.step = "materialize" /\ job.kind # "validate" /\ project \in Resolved
      /\ UNCHANGED <<project, bin, verdicts, edits, commands>>
  BY DEF Materialize, AtStep, IInv, TypeOK, KindOK, ResolvedOK, Resolved
<1>2. ~ContainerLacks
  BY <1>1, PackagesSuffice DEF IInv, ContainerOK, ContainerLacks
<1>. DEFINE to == IF job.kind = "run" THEN "check" ELSE "complete"
            c == Store
<1>3. job' = [job EXCEPT !.step = to, !.candidate = c]  BY <1>2 DEF Materialize
<1>4. /\ to \in {"check", "complete"}
      /\ to = "check" => job.kind = "run"
      /\ to = "complete" => job.kind # "run"
  OBVIOUS
<1>. HIDE DEF to, c
<1>5. job' = Record(job.kind, to, job.packages, job.files, job.artifacts, c)
  BY <1>3 DEF IInv, TypeOK, JobShape, Record
<1>6. /\ job'.kind = job.kind /\ job'.step = to /\ job'.artifacts = job.artifacts
      /\ job'.candidate = c /\ JobShape'
  BY <1>5, RecordEffect
<1>. USE <1>1, <1>4, <1>6
<1>7. KindOK' /\ ResolvedOK' /\ ContainerOK'
  BY DEF IInv, KindOK, ResolvedOK, ContainerOK, Completed
<1>8. LinkedOK' /\ CandidateOK' /\ CheckedOK'
  BY SameCandidate DEF c, IInv, LinkedOK, CandidateOK, CheckedOK, Completed, Stored
<1>9. job'.step \in Steps  BY DEF Steps, Stored
<1>. QED  BY <1>7, <1>8, <1>9, AtWorkKeeps

(***************************************************************************)
(* What the candidate holds.                                               *)
(***************************************************************************)
\* The officials and the registry drivers.
LEMMA StoreHolds ==
  ASSUME NEW p \in Resolved, p = project
  PROVE  /\ DOMAIN Store = Overridden(p) \cup PlatformRefs(p)
         /\ \A o \in Overridden(p) : Store[o] = job.artifacts[o]
         /\ \A r \in PlatformRefs(p) : Store[r] = RegistryBinary(p, r) /\ p.tree[r] # "crate"
<1>. DEFINE f == [o \in Overridden(p) |-> job.artifacts[o]]
            g == [r \in PlatformRefs(p) |-> RegistryBinary(p, r)]
<1>1. Store = Placed(g, f)  BY DEF Store
<1>2. /\ DOMAIN f = Overridden(p) /\ DOMAIN g = PlatformRefs(p)
      /\ \A o \in Overridden(p) : f[o] = job.artifacts[o]
      /\ \A r \in PlatformRefs(p) : g[r] = RegistryBinary(p, r)
  OBVIOUS
<1>3. \A r \in PlatformRefs(p) : p.tree[r] # "crate"
  <2>1. \A r \in ServiceRefs(p) : p.tree[r] # "crate"  BY Services DEF Overridden
  <2>2. \A r \in DriverRefs(p) : p.tree[r] # "crate"  BY Drivers DEF DriverRefs
  <2>. QED  BY <2>1, <2>2 DEF PlatformRefs
<1>4. \A r \in PlatformRefs(p) : r \notin Overridden(p)  BY <1>3 DEF Overridden
<1>. HIDE DEF f, g
<1>. QED  BY <1>1, <1>2, <1>3, <1>4 DEF Placed

\* The robot's own binaries enter under their crates' names.
LEMMA EntryOf ==
  ASSUME NEW p \in Resolved, p = project, Participants = SourceParticipants(p), NEW q \in Staged
  PROVE  q \in SourceParticipants(p) /\ Entry(q) = q.crate
BY ParticipantOf DEF Staged, Entry

\* The whole candidate: under each name the file of its crate, or the registry's.
LEMMA CandidateHolds ==
  ASSUME NEW p \in Resolved, p = project, Participants = SourceParticipants(p),
         NEW f, job.artifacts = Artifacts(p, SourceParticipants(p), f),
         NEW n \in DOMAIN Placed(Store, Own)
  PROVE  Placed(Store, Own)[n] = IF p.tree[n] = "crate" THEN CrateBinary(p, f[BinName(p, n)])
                                                    ELSE RegistryBinary(p, n)
<1>1. DOMAIN Own = {Entry(q) : q \in Staged}  BY DEF Own
<1>2. CASE n \in DOMAIN Own
  <2>. DEFINE q == CHOOSE q \in Staged : Entry(q) = n
  <2>1. q \in Staged /\ Entry(q) = n  BY <1>1, <1>2
  <2>2. Own[n] = job.artifacts[q.name]  BY <1>1, <1>2 DEF Own
  <2>. HIDE DEF q
  <2>3. q \in SourceParticipants(p) /\ q.crate = n  BY <2>1, EntryOf
  <2>4. Own[n] = CrateBinary(p, f[BinName(p, n)])  BY <2>2, <2>3, ArtifactOf
  <2>5. p.tree[n] = "crate"  BY <2>3, ParticipantOf
  <2>. QED  BY <1>2, <2>4, <2>5 DEF Placed
<1>3. CASE n \notin DOMAIN Own
  <2>1. n \in DOMAIN Store /\ Placed(Store, Own)[n] = Store[n]  BY <1>3 DEF Placed
  <2>2. CASE n \in Overridden(p)
    <3>1. Participant(n, "official", n) \in SourceParticipants(p)  BY <2>2, ParticipantCases
    <3>2. job.artifacts[n] = CrateBinary(p, f[BinName(p, n)])
      BY <3>1, ParticipantFields, ArtifactOf
    <3>. QED  BY <2>1, <2>2, <3>2, StoreHolds DEF Overridden
  <2>3. CASE n \in PlatformRefs(p)  BY <2>1, <2>3, StoreHolds
  <2>. QED  BY <2>1, <2>2, <2>3, StoreHolds
<1>. QED  BY <1>2, <1>3

\* The candidate holds every binary that the robot launches.
LEMMA CandidateComplete ==
  ASSUME NEW p \in Resolved, p = project, Participants = SourceParticipants(p)
  PROVE  RobotBinaries(p) \subseteq DOMAIN Placed(Store, Own)
<1>1. DOMAIN Placed(Store, Own) = {Entry(q) : q \in Staged} \cup Overridden(p) \cup PlatformRefs(p)
  BY StoreHolds DEF Placed, Own
<1>2. \A q \in SourceParticipants(p) : q.kind # "official" => q.crate \in DOMAIN Placed(Store, Own)
  BY <1>1, EntryOf DEF Staged
<1>3. Brain \in DOMAIN Placed(Store, Own)
  <2>1. Participant(Brain, "brain", Brain) \in SourceParticipants(p)  BY ParticipantCases
  <2>. QED  BY <1>2, <2>1, ParticipantFields
<1>4. Official \subseteq DOMAIN Placed(Store, Own)
  BY <1>1, Services DEF PlatformRefs
<1>5. UserServices(p) \subseteq DOMAIN Placed(Store, Own)
  <2>1. ASSUME NEW u \in UserServices(p) PROVE u \in DOMAIN Placed(Store, Own)
    <3>1. Participant(u, "user", u) \in SourceParticipants(p)  BY ParticipantCases
    <3>. QED  BY <1>2, <3>1, ParticipantFields
  <2>. QED  BY <2>1
<1>6. p.declared \subseteq DOMAIN Placed(Store, Own)
  BY <1>4, <1>5 DEF Resolved, Resolves, DeclaredExist
<1>7. ASSUME NEW i \in p.driven PROVE TypeOf[i] \in DOMAIN Placed(Store, Own)
  <2>1. CASE p.tree[TypeOf[i]] = "crate"
    <3>1. Participant(i, "driver", TypeOf[i]) \in SourceParticipants(p)
      BY <2>1, ParticipantCases
    <3>. QED  BY <1>2, <3>1, ParticipantFields
  <2>2. CASE p.tree[TypeOf[i]] # "crate"
    BY <1>1, <2>2, Drivers DEF PlatformRefs, DriverRefs
  <2>. QED  BY <2>1, <2>2
<1>. QED  BY <1>3, <1>4, <1>6, <1>7 DEF RobotBinaries

\* The candidate of a sound project passes the last look.
LEMMA SoundVerified ==
  ASSUME NEW p \in Resolved, p = project, Sound(p), Participants = SourceParticipants(p),
         NEW f \in Linkings(p, Crates(SourceParticipants(p))),
         job.artifacts = Artifacts(p, SourceParticipants(p), f)
  PROVE  Verified(p, Placed(Store, Own))
<1>. DEFINE b == Placed(Store, Own)
<1>1. ASSUME NEW n \in RobotBinaries(p)
      PROVE  n \in DOMAIN b /\ Readable(b[n], p.train) /\ Declares(b[n], n)
  <2>1. n \in DOMAIN b  BY <1>1, CandidateComplete
  <2>2. CASE p.tree[n] # "crate"
    BY <2>1, <2>2, CandidateHolds, BinaryFields DEF Readable, Declares
  <2>3. CASE p.tree[n] = "crate"
    <3>1. PICK q \in SourceParticipants(p) : q.crate = n
      <4>1. CASE n = Brain  BY <4>1, ParticipantCases, ParticipantFields
      <4>2. CASE n \in Official
        <5>1. n \in Overridden(p)  BY <2>3, <4>2 DEF Overridden
        <5>. QED  BY <5>1, ParticipantCases, ParticipantFields
      <4>3. CASE n \in UserServices(p)  BY <4>3, ParticipantCases, ParticipantFields
      <4>4. ASSUME NEW i \in p.driven, n = TypeOf[i]
            PROVE  \E q \in SourceParticipants(p) : q.crate = n
        <5>1. Participant(i, "driver", TypeOf[i]) \in SourceParticipants(p)
          BY <2>3, <4>4, ParticipantCases
        <5>. QED  BY <4>4, <5>1, ParticipantFields
      <4>5. p.declared \subseteq Official \cup UserServices(p)
        BY DEF Resolved, Resolves, DeclaredExist
      <4>. QED  BY <1>1, <4>1, <4>2, <4>3, <4>4, <4>5 DEF RobotBinaries
    <3>2. b[n] = CrateBinary(p, n)  BY <2>1, <2>3, <3>1, CandidateHolds, SoundLinks
    <3>3. Identified(CrateBinary(p, n), n)  BY <3>1 DEF Sound, ParticipantChecks
    <3>. QED  BY <2>1, <3>2, <3>3, BinaryFields DEF Identified, Readable
  <2>. QED  BY <2>2, <2>3
<1>. QED  BY <1>1 DEF Verified

(***************************************************************************)
(* The steps of a command from its check on.                               *)
(***************************************************************************)
\* What a step finds at or after the check of a command that stages.
LEMMA AtCandidate ==
  ASSUME IInv, job.step \in Stored, job.kind # "validate"
  PROVE  /\ project \in Resolved /\ Participants = SourceParticipants(project)
         /\ \E f \in Linkings(project, Crates(SourceParticipants(project))) :
              job.artifacts = Artifacts(project, SourceParticipants(project), f)
<1>1. project \in Resolved  BY DEF IInv, TypeOK, ResolvedOK, Resolved, Stored, Completed
<1>2. Participants = SourceParticipants(project)  BY DEF Participants
<1>. QED  BY <1>1, <1>2 DEF IInv, LinkedOK

\* The check of a run accepts the sound projects.
LEMMA RunChecksSound ==
  ASSUME IInv, job.step = "check", job.kind = "run"
  PROVE  RunChecks <=> Sound(project)
<1>. DEFINE p == project
            S == SourceParticipants(p)
<1>1. p \in Resolved /\ Participants = S  BY AtCandidate DEF Stored
<1>2. PICK f \in Linkings(p, Crates(S)) : job.artifacts = Artifacts(p, S, f)
  BY AtCandidate DEF Stored
<1>3. job.candidate = Store  BY DEF IInv, CandidateOK
<1>4. \A r \in PlatformRefs(p) :
        r \in DOMAIN job.candidate /\ job.candidate[r] = RegistryBinary(p, r)
  BY <1>1, <1>3, StoreHolds
<1>5. JudgedRefs(p) \subseteq PlatformRefs(p)  BY DEF JudgedRefs, PlatformRefs
<1>6. RunChecks <=> GraphChecks(p, PlatformRefs(p), job.candidate, S, Artifacts(p, S, f))
  BY <1>1, <1>2 DEF RunChecks
<1>. HIDE DEF p, S
<1>7. Sound(p) => RunChecks  BY <1>1, <1>2, <1>4, <1>6, SoundPasses DEF S
<1>8. RunChecks => Sound(p)  BY <1>1, <1>2, <1>4, <1>5, <1>6, PassesSound DEF S
<1>. QED  BY <1>7, <1>8 DEF p

\* A step after the check that leaves the record but for its place.
LEMMA CheckSourceKeeps == ASSUME IInv, CheckSource PROVE IInv'
<1>1. /\ Same(TRUE, TRUE, TRUE, TRUE) /\ job'.step = "complete"
      /\ UNCHANGED <<project, bin, verdicts, edits, commands>>
      /\ job.step = "check" /\ job.kind = "run" /\ Sound(project)
  BY GoToEffect, RunChecksSound DEF CheckSource, At, IInv, TypeOK
<1>. USE <1>1 DEF Same
<1>2. KindOK' /\ ResolvedOK' /\ ContainerOK'
  BY DEF IInv, KindOK, ResolvedOK, ContainerOK, Completed
<1>3. LinkedOK' /\ CandidateOK' /\ CheckedOK'
  BY SameCandidate DEF IInv, LinkedOK, CandidateOK, CheckedOK, Completed, Stored
<1>4. job'.step \in Steps  BY DEF Steps, Stored
<1>. QED  BY <1>2, <1>3, <1>4, AtWorkKeeps

\* RefuseSource keeps the invariant.
LEMMA RefuseSourceKeeps == ASSUME IInv, RefuseSource PROVE IInv'
BY RunChecksSound, EndKeeps DEF RefuseSource, At

\* CompleteBin keeps the invariant.
LEMMA CompleteBinKeeps == ASSUME IInv, CompleteBin PROVE IInv'
<1>1. /\ job.step = "complete" /\ job.kind # "validate" /\ job.candidate = Store
      /\ UNCHANGED <<project, bin, verdicts, edits, commands>>
  BY DEF CompleteBin, AtStep, IInv, KindOK, CandidateOK
<1>. DEFINE c == Placed(Store, Own)
<1>2. job' = [job EXCEPT !.step = "publish", !.candidate = c]
  BY <1>1 DEF CompleteBin, Own
<1>. HIDE DEF c
<1>3. job' = Record(job.kind, "publish", job.packages, job.files, job.artifacts, c)
  BY <1>2 DEF IInv, TypeOK, JobShape, Record
<1>4. /\ job'.kind = job.kind /\ job'.step = "publish" /\ job'.artifacts = job.artifacts
      /\ job'.candidate = c /\ JobShape'
  BY <1>3, RecordEffect
<1>. USE <1>1, <1>4
<1>5. KindOK' /\ ResolvedOK' /\ ContainerOK'
  BY DEF IInv, KindOK, ResolvedOK, ContainerOK, Completed
<1>6. LinkedOK' /\ CandidateOK' /\ CheckedOK'
  BY SameCandidate DEF c, IInv, LinkedOK, CandidateOK, CheckedOK, Completed, Stored
<1>7. job'.step \in Steps  BY DEF Steps, Stored, Completed
<1>. QED  BY <1>5, <1>6, <1>7, AtWorkKeeps

\* PublishRelease keeps the invariant.
LEMMA PublishReleaseKeeps == ASSUME IInv, PublishRelease PROVE IInv'
<1>1. /\ Same(TRUE, TRUE, TRUE, TRUE) /\ job'.step = "published"
      /\ UNCHANGED <<project, verdicts, edits, commands>> /\ bin' = job.candidate
      /\ job.step = "publish" /\ Verified(project, job.candidate)
  BY GoToEffect DEF PublishRelease, AtStep, IInv, TypeOK
<1>. USE <1>1 DEF Same
<1>2. KindOK' /\ ResolvedOK' /\ ContainerOK'
  BY DEF IInv, KindOK, ResolvedOK, ContainerOK, Completed
<1>3. LinkedOK' /\ CandidateOK' /\ CheckedOK'
  BY SameCandidate DEF IInv, LinkedOK, CandidateOK, CheckedOK, Completed, Stored
<1>4. job'.step \in Steps  BY DEF Steps, Stored, Completed
<1>. QED  BY <1>2, <1>3, <1>4, AtWorkKeeps

\* A run past its check is not refused its candidate.
LEMMA RefuseCandidateKeeps == ASSUME IInv, RefuseCandidate PROVE IInv'
<1>1. job.step = "publish" /\ job.kind # "validate" /\ job.candidate = Placed(Store, Own)
  BY DEF RefuseCandidate, AtStep, IInv, KindOK, CandidateOK, Completed
<1>2. job.kind = "run" => ~Sound(project)
  BY <1>1, AtCandidate, SoundVerified DEF RefuseCandidate, Stored, Completed
<1>. QED  BY <1>2, EndKeeps DEF RefuseCandidate

\* Report keeps the invariant.
LEMMA ReportKeeps == ASSUME IInv, Report PROVE IInv'
BY EndKeeps DEF Report, AtStep, IInv, CheckedOK, Completed

\* The check of validate accepts and refuses, as far as it is sure, what a run's does.
LEMMA DeclaredChecksSound ==
  ASSUME IInv, job.step = "check", job.kind = "validate",
         \A r \in StagedRefs(project, bin) : bin[r] = RegistryBinary(project, r)
  PROVE  /\ Sound(project) => DeclaredChecks
         /\ DeclaredChecks /\ UncheckedRefs(project, bin) = {}
              /\ Overridden(project) \subseteq project.declared => Sound(project)
<1>. DEFINE p == project
            S == DeclaredParticipants(p)
            refs == StagedRefs(p, bin)
<1>1. p \in Resolved  BY DEF IInv, TypeOK, ResolvedOK, Resolved
<1>2. Participants = S  BY DEF Participants
<1>3. PICK f \in Linkings(p, Crates(S)) : job.artifacts = Artifacts(p, S, f)
  BY <1>2 DEF IInv, LinkedOK, Stored
<1>4. DeclaredChecks <=> GraphChecks(p, refs, bin, S, Artifacts(p, S, f))
  BY <1>2, <1>3 DEF DeclaredChecks
<1>5. refs \subseteq PlatformRefs(p) /\ \A r \in refs : r \in DOMAIN bin
  BY DEF StagedRefs, PlatformRefs
<1>6. UncheckedRefs(p, bin) = {} => JudgedRefs(p) \subseteq refs /\ refs \subseteq JudgedRefs(p)
  BY DEF UncheckedRefs, JudgedRefs, StagedRefs
<1>7. S \subseteq SourceParticipants(p)  BY <1>1, DeclaredAreSource
<1>8. Overridden(p) \subseteq p.declared => S = SourceParticipants(p)
  BY <1>1, DeclaredAreSource
<1>9. \A r \in refs : bin[r] = RegistryBinary(p, r)  OBVIOUS
<1>. HIDE DEF p, S, refs
<1>10. Sound(p) => DeclaredChecks
  BY <1>1, <1>3, <1>4, <1>5, <1>7, <1>9, SoundPasses
<1>11. ASSUME DeclaredChecks, UncheckedRefs(p, bin) = {}, Overridden(p) \subseteq p.declared
       PROVE  Sound(p)
  BY <1>1, <1>3, <1>4, <1>6, <1>8, <1>9, <1>11, PassesSound
<1>. QED  BY <1>10, <1>11 DEF p

\* CheckDeclared keeps the invariant.
LEMMA CheckDeclaredKeeps == ASSUME IInv, CheckDeclared PROVE IInv'
<1>. DEFINE verdict == IF DeclaredChecks THEN "accepted" ELSE "refused"
            sure == UncheckedRefs(project, bin) = {} /\ Overridden(project) \subseteq project.declared
            current == \A r \in StagedRefs(project, bin) : bin[r] = RegistryBinary(project, r)
<1>1. job.step = "check" /\ job.kind = "validate"  BY DEF CheckDeclared, At
<1>2. /\ verdict \in {"accepted", "refused"}
      /\ verdict = "refused" /\ current => ~Sound(project)
      /\ verdict = "accepted" /\ sure /\ current => Sound(project)
  BY <1>1, DeclaredChecksSound
<1>3. verdicts' = [verdicts EXCEPT !.validate = verdict, !.sure = sure, !.current = current]
  BY DEF CheckDeclared
<1>. DEFINE yes == sure \in BOOLEAN /\ current \in BOOLEAN
<1>4. yes  OBVIOUS
<1>. HIDE DEF verdict, sure, current
<1>5. /\ verdicts'.validate = verdict /\ verdicts'.sure = sure /\ verdicts'.current = current
      /\ verdicts'.run = verdicts.run
      /\ verdicts' \in [validate : {"none", "accepted", "refused"}, sure : BOOLEAN,
                        current : BOOLEAN, run : {"none", "accepted", "refused"}]
  BY <1>2, <1>3, <1>4 DEF IInv, TypeOK
<1>6. VerdictsOK'  BY <1>2, <1>5 DEF CheckDeclared, IInv, VerdictsOK
<1>. QED  BY <1>5, <1>6, IdleKeeps DEF CheckDeclared

\* A project that does not resolve is not judged.
LEMMA RefuseResolutionKeeps == ASSUME IInv, RefuseResolution PROVE IInv'
BY EndKeeps DEF RefuseResolution

\* Fail keeps the invariant.
LEMMA FailKeeps == ASSUME IInv, Fail PROVE IInv'
BY EndKeeps DEF Fail

(***************************************************************************)
(* The theorems.                                                           *)
(***************************************************************************)
\* The initial states.
LEMMA InitOK == Init => IInv
<1>. SUFFICES ASSUME Init PROVE IInv
  OBVIOUS
<1>1. job.kind = "validate" /\ job.step = "idle" /\ JobShape
  BY IdleFields DEF Init, Idle, JobShape
<1>2. VerdictsOK  BY DEF Init, NoVerdicts, VerdictsOK
<1>3. project \in Project  BY ProjectAssumption DEF Init
<1>. QED
  BY <1>1, <1>2, <1>3 DEF Init, NoVerdicts, IInv, TypeOK, Kind, Steps, KindOK, ResolvedOK,
     ContainerOK, LinkedOK, CandidateOK, CheckedOK, Stored, Completed

\* Every step keeps the invariant.
LEMMA StepOK == IInv /\ [Next]_vars => IInv'
<1>. SUFFICES ASSUME IInv, [Next]_vars PROVE IInv'
  OBVIOUS
<1>1. CASE UNCHANGED vars
  <2>1. Participants' = Participants /\ Store' = Store /\ Own' = Own
    BY <1>1, SameCandidate DEF vars
  <2>2. TypeOK' /\ KindOK' /\ ResolvedOK' /\ ContainerOK' /\ CheckedOK' /\ VerdictsOK'
    BY <1>1 DEF vars, IInv, TypeOK, JobShape, KindOK, ResolvedOK, ContainerOK, CheckedOK,
       VerdictsOK
  <2>3. LinkedOK' /\ CandidateOK'
    BY <1>1, <2>1 DEF vars, IInv, LinkedOK, CandidateOK
  <2>. QED  BY <2>2, <2>3 DEF IInv
<1>2. CASE Next
  BY <1>2, EditKeeps, BeginKeeps, ResolveKeeps, ContainKeeps, SupplySupervisorKeeps, CompileKeeps,
     LocatePrebuiltKeeps, MaterializeKeeps, CheckSourceKeeps, RefuseSourceKeeps, CompleteBinKeeps,
     PublishReleaseKeeps, RefuseCandidateKeeps, ReportKeeps, CheckDeclaredKeeps, FailKeeps,
     RefuseResolutionKeeps DEF Next
<1>. QED  BY <1>1, <1>2

(***************************************************************************)
(* The inductive invariant: what a command has linked, fetched and         *)
(* collected by each step is what resolution selected, and a verdict of    *)
(* `run`, or one of `validate` that is sure and current, says whether the  *)
(* project is sound.                                                       *)
(***************************************************************************)
THEOREM Invariant == Spec => []IInv
BY InitOK, StepOK, PTL DEF Spec

(***************************************************************************)
(* Type correctness of BundleStaging.                                      *)
(***************************************************************************)
THEOREM TypeCorrect == Spec => []TypeOK
<1>1. IInv => TypeOK  BY DEF IInv
<1>. QED  BY <1>1, Invariant, PTL

(***************************************************************************)
(* Every runtime of a published robot finds in bin/ the binary of the      *)
(* source selected for it: stage/participants.rs, stage/manifest.rs and    *)
(* resolve/project.rs together, although crates may share a file.          *)
(***************************************************************************)
THEOREM LaunchesSources == Spec => []LaunchesItsSources
<1>1. IInv => LaunchesItsSources
  <2>. SUFFICES ASSUME IInv, AtStep("published"), NEW n \in RobotBinaries(project)
                PROVE  n \in DOMAIN bin /\ bin[n] = Selected(n)
    BY DEF LaunchesItsSources
  <2>1. /\ job.step = "published" /\ job.kind # "validate"
        /\ bin = Placed(Store, Own) /\ Verified(project, bin)
    BY DEF AtStep, IInv, KindOK, CandidateOK, Completed
  <2>2. n \in DOMAIN bin /\ bin[n].of = n  BY <2>1 DEF Verified, Declares
  <2>3. project \in Resolved /\ Participants = SourceParticipants(project)
    BY <2>1, AtCandidate DEF Stored, Completed
  <2>4. PICK f : job.artifacts = Artifacts(project, SourceParticipants(project), f)
    BY <2>1, AtCandidate DEF Stored, Completed
  <2>5. bin[n] = IF project.tree[n] = "crate" THEN CrateBinary(project, f[BinName(project, n)])
                                              ELSE RegistryBinary(project, n)
    BY <2>1, <2>2, <2>3, <2>4, CandidateHolds
  <2>. QED  BY <2>2, <2>5, BinaryFields DEF Selected
<1>. QED  BY <1>1, Invariant, PTL

(***************************************************************************)
(* A container build never ends for want of a package or a crate: what     *)
(* build/container.rs asks the container for is all that build/stage look  *)
(* for afterwards.                                                         *)
(***************************************************************************)
THEOREM ContainerIsEnough == Spec => []ContainerSuffices
<1>1. IInv => ContainerSuffices
  BY DEF IInv, TypeOK, Steps, Stored, Completed, ContainerSuffices
<1>. QED  BY <1>1, Invariant, PTL

(***************************************************************************)
(* validate and run judge a project alike: validation/use_case.rs reads    *)
(* the published release and builds what is declared, run/prepare.rs       *)
(* installs and builds everything, and a verdict that is sure and current  *)
(* agrees with the other.                                                  *)
(***************************************************************************)
THEOREM JudgedAlike == Spec => []VerdictsAgree
<1>1. IInv => VerdictsAgree  BY DEF IInv, VerdictsOK, VerdictsAgree
<1>. QED  BY <1>1, Invariant, PTL
=============================================================================
