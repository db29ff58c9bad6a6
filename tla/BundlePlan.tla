------------------------------ MODULE BundlePlan ------------------------------
(* What a robot project resolves to and what its bundle holds, as operators     *)
(* over one project: the plan of crates/project/src/resolve, the participants   *)
(* and references of validation/, the names and contents of the files that      *)
(* Cargo and the container leave, and the checks of validation/graph.rs and     *)
(* stage/manifest.rs. BundleStaging puts them in the order of the commands.     *)
(*                                                                              *)
(* A project is a record:                                                       *)
(*   locked    Cargo.toml and a committed, fitting Cargo.lock are there         *)
(*   train     the framework version Cargo.lock selects                         *)
(*   tree      what the sources of each id are: "absent", "assets" (a component *)
(*             without a crate), "crate", or "malformed" (any shape that        *)
(*             discovery refuses)                                               *)
(*   declared  the keys of `services:`                                          *)
(*   mounted   the keys of `robot.components:`, driven those with a `driver:`   *)
(*   shared    the crates whose one binary target is called `main`, the others  *)
(*             being called by their id                                         *)
(*   says      what the compiled crate claims to be: "itself", "another" id,    *)
(*             another "kind", or, the brain only, "config" of its own          *)
(*   fits      for each service and instance, the trains whose schema and       *)
(*             connection kind accept what robot.yaml authored for it           *)
EXTENDS Naturals, FiniteSets

CONSTANTS
  Official,   \* the services of the catalogue
  User,       \* services only a project can have
  Type,       \* component types
  Instance,   \* component instance ids
  TypeOf,     \* [Instance -> Type]
  Train,      \* framework versions
  Line        \* [Train -> Nat], the compatibility line of a version

Brain == "brain"
Service == Official \cup User
Source == {Brain} \cup Service \cup Type

\* The compiled bundle names a binary by a service id or by a component type, and
\* launches services and instances by their ids: the model keeps these apart
\* where nothing in the code refuses them otherwise.
ASSUME IdsApart ==
  /\ Official \cap User = {} /\ Service \cap Type = {} /\ Official \cap Instance = {}
  /\ Brain \notin Service \cup Type \cup Instance
ASSUME TypesAndLines == TypeOf \in [Instance -> Type] /\ Line \in [Train -> Nat]

Project ==
  {p \in [locked : BOOLEAN, train : Train,
          tree : [Source -> {"absent", "assets", "crate", "malformed"}],
          declared : SUBSET Service, mounted : SUBSET Instance, driven : SUBSET Instance,
          shared : SUBSET Source,
          says : [Source -> {"itself", "another", "kind", "config"}],
          fits : [Service \cup Instance -> SUBSET Train]] :
     p.driven \subseteq p.mounted}

------------------------------------------------------------------------------
(* Resolution                                                                   *)

\* Source overrides of officials, and the project's own declared services.
Overridden(p) == {o \in Official : p.tree[o] = "crate"}
UserServices(p) == {u \in User \cap p.declared : p.tree[u] = "crate"}

ComponentCrates(p) == {t \in Type : p.tree[t] = "crate"}

\* ResolvedComponent: where the driver of an instance comes from, if it has one.
Driver(p, i) == IF i \notin p.driven THEN "none"
                ELSE IF TypeOf[i] \in ComponentCrates(p) THEN "crate" ELSE "registry"

LaunchIdsApart(p) == p.mounted \cap p.declared = {}

LockedProject(p) ==
  /\ p.locked
  /\ p.tree[Brain] = "crate"
  /\ \A s \in Service : p.tree[s] # "malformed"

ComponentsResolve(p) ==
  /\ \A t \in Type : p.tree[t] # "malformed"
  /\ \A i \in p.driven : p.tree[TypeOf[i]] # "assets"

\* An official owes no crate: its entry only configures it.
DeclaredExist(p) == p.declared \subseteq Official \cup UserServices(p)

Resolves(p) ==
  LaunchIdsApart(p) /\ LockedProject(p) /\ ComponentsResolve(p) /\ DeclaredExist(p)

\* What resolution hands to the commands: where each official service comes from,
\* the services of the project, and the driver of each component.
Plan(p) ==
  [platform   |-> [o \in Official |-> IF o \in Overridden(p) THEN "crate" ELSE "registry"],
   user       |-> UserServices(p),
   components |-> [i \in p.mounted |-> Driver(p, i)]]

From(source, resolved) == {n \in DOMAIN resolved : resolved[n] = source}
LocalDrivers(p) == From("crate", Plan(p).components)
RegistryDrivers(p) == From("registry", Plan(p).components)

------------------------------------------------------------------------------
(* Participants built from source, and references to registry artifacts         *)

Participant(name, kind, crate) == [name |-> name, kind |-> kind, crate |-> crate]
BrainParticipant == Participant(Brain, "brain", Brain)
DriverParticipants(p) == {Participant(i, "driver", TypeOf[i]) : i \in LocalDrivers(p)}

SourceParticipants(p) ==
  {BrainParticipant} \cup DriverParticipants(p)
  \cup {Participant(o, "official", o) : o \in From("crate", Plan(p).platform)}
  \cup {Participant(u, "user", u) : u \in Plan(p).user}

\* Mutant: the project's own drivers are left to the build.
DeclaredServices(p) ==
  {BrainParticipant}
  \cup {Participant(s, IF s \in Official THEN "official" ELSE "user", s) :
          s \in {s \in p.declared : p.tree[s] = "crate"}}

\* validate builds a services/ crate only if robot.yaml mentions it.
DeclaredParticipants(p) ==
  {BrainParticipant} \cup DriverParticipants(p)
  \cup {Participant(s, IF s \in Official THEN "official" ELSE "user", s) :
          s \in {s \in p.declared : p.tree[s] = "crate"}}

ServiceRefs(p) == From("registry", Plan(p).platform)
DriverRefs(p) == {TypeOf[i] : i \in RegistryDrivers(p)}
PlatformRefs(p) == ServiceRefs(p) \cup DriverRefs(p)

\* The bin/ entries a compiled robot launches.
RobotBinaries(p) == {Brain} \cup p.declared \cup Official \cup {TypeOf[i] : i \in p.driven}

------------------------------------------------------------------------------
(* Binaries                                                                     *)

Binary(from, of, says, train) == [from |-> from, of |-> of, says |-> says, train |-> train]
RegistryBinary(p, n) == Binary("registry", n, "itself", p.train)
CrateBinary(p, c) == Binary("crate", c, p.says[c], p.train)

\* Cargo links every selected crate to a file called by its binary target; two
\* crates with one target name share the file, and the last one linked stays.
BinName(p, crate) == IF crate \in p.shared THEN "main" ELSE crate
Linkings(p, crates) ==
  {f \in [{BinName(p, c) : c \in crates} -> crates] :
     \A n \in DOMAIN f : BinName(p, f[n]) = n}

\* The executable retained for each participant, by participant name.
Artifacts(p, participants, files) ==
  [n \in {q.name : q \in participants} |->
     LET crate == (CHOOSE q \in participants : q.name = n).crate
     IN  CrateBinary(p, files[BinName(p, crate)])]

\* Mutant: the drivers of registry components are forgotten.
CataloguePackages(p) ==
  {<<"service", o>> : o \in Official \ Overridden(p)} \cup {<<"supervisor">>}

\* The packages a container installs, and the crates it compiles.
ContainerPackages(p) ==
  {<<"service", o>> : o \in Official \ Overridden(p)}
  \cup {<<"component", t>> : t \in DriverRefs(p)} \cup {<<"supervisor">>}
ContainerCrates(p) == {q.crate : q \in SourceParticipants(p)}

------------------------------------------------------------------------------
(* The checks                                                                   *)

Readable(b, train) == Line[b.train] = Line[train]
Declares(b, id) == b.of = id /\ b.says # "another"
Identified(b, id) == Declares(b, id) /\ b.says # "kind"
TakesNoConfig(b) == b.says # "config"
Accepts(p, b, owner) == b.train \in p.fits[owner]

ServiceConfigFits(p, b, service) == service \in p.declared => Accepts(p, b, service)

\* One registry artifact: read for the project, identified, its configuration
\* judged once for a service and once per instance for a driver.
RefChecks(p, b, ref) ==
  /\ Readable(b, p.train) /\ Identified(b, ref)
  /\ ref \in Official => ServiceConfigFits(p, b, ref)
  /\ \A i \in RegistryDrivers(p) : TypeOf[i] = ref => Accepts(p, b, i)

ParticipantChecks(p, b, q) ==
  /\ Readable(b, p.train) /\ Identified(b, q.crate)
  /\ CASE q.kind = "brain" -> TakesNoConfig(b)
       [] q.kind = "driver" -> Accepts(p, b, q.name)
       [] OTHER -> ServiceConfigFits(p, b, q.name)

\* run_check_with_context over references read from bin and built artifacts.
GraphChecks(p, refs, bin, participants, artifacts) ==
  /\ \A r \in refs : r \in DOMAIN bin /\ RefChecks(p, bin[r], r)
  /\ \A q \in participants : ParticipantChecks(p, artifacts[q.name], q)

\* Mutant: the binary is looked for and not looked at.
VerifiedByName(p, bin) == RobotBinaries(p) \subseteq DOMAIN bin

\* The last look before a candidate is published: every launched binary is
\* there, on the project's line, and declares the id it is launched under.
Verified(p, bin) ==
  \A n \in RobotBinaries(p) :
     n \in DOMAIN bin /\ Readable(bin[n], p.train) /\ Declares(bin[n], n)

\* validate reads what the published release happens to hold: the references
\* it can judge, and of those the ones another train's binary answers for.
StagedRefs(p, bin) ==
  {r \in (ServiceRefs(p) \cap p.declared) \cup DriverRefs(p) :
     r \in DOMAIN bin /\ Readable(bin[r], p.train) /\ Identified(bin[r], r)}
UncheckedRefs(p, bin) ==
  ((ServiceRefs(p) \cap p.declared) \cup DriverRefs(p)) \ StagedRefs(p, bin)

================================================================================
