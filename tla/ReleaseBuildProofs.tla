------------------------ MODULE ReleaseBuildProofs ------------------------
(***************************************************************************)
(* Theorems about ReleaseBuild, for any number of commands, edits and      *)
(* failures of the file system: what is published is whole and of one      *)
(* snapshot, a failure keeps the release before, what is left behind never *)
(* blocks a publication, and a device accepts a whole archive only.        *)
(*                                                                         *)
(* The inductive invariant says, for each command, what it has by the      *)
(* point it is at: the lock, the snapshot, the halves of its release, the  *)
(* live release it found, its archive.                                     *)
(***************************************************************************)
EXTENDS ReleaseBuild, TLAPS

(***************************************************************************)
(* Types.                                                                  *)
(***************************************************************************)
\* The points at which a command has a complete release, or goes on without.
Built == {"pull", "copy", "clear", "aside", "swap", "drop", "archive", "packing", "attest",
          "attesting", "cleanup"}

\* Those after its release is compiled from code, and from documents.
Compiled   == Built \cup {"officials", "check", "bin", "finalize"}
Documented == Compiled \cup {"requirements", "image", "engine", "supervisor", "candidate",
                           "compile"}

\* Those after its snapshot is taken; a builder that takes none passes "resolve".
Copied == Documented \cup {"resolve", "upload", "remote"}

\* Those at which it holds the build lock.
Locked == Copied \cup {"connect", "snapshot"}

Shipping == {"temp", "locate", "send", "sending", "vouch", "install"}
Points == Locked \cup Shipping \cup {"idle", "probe", "lock", "done", "failed", "killed"}

Content  == Releases \cup {Absent, Torn}

Command ==
  [pc : Points, kind : Kinds, snapshot : [Halves -> Version], made : Releases,
   found : Releases \cup {Absent}, hadPrevious : BOOLEAN, swapped : BOOLEAN,
   sent : Content, digest : Content]

FileTypes ==
  /\ tree \in [Halves -> Nat]
  /\ disk \in [Names -> Content]
  /\ output \in [Places -> [archive : Content, sidecar : Content]]
  /\ installed \in Content
  /\ edits \in Nat /\ faults \in Nat

CommandTypes ==
  /\ lock \in Job \cup {NoJob}
  /\ job \in [Job -> Command]

TypeOK == FileTypes /\ CommandTypes

(***************************************************************************)
(* The inductive invariant.                                                *)
(***************************************************************************)
\* The build lock is held from the point it is taken to the end of the build.
LockOK(j) == job[j].pc \in Locked <=> lock = j

\* Which commands get to a point.
KindOK(j) ==
  /\ job[j].pc = "snapshot" => Frozen(j)
  /\ job[j].pc \in {"connect", "upload", "remote", "pull", "cleanup"} => OverSsh(j)
  /\ job[j].pc \in {"requirements", "image", "engine"} => job[j].kind = "container"
  /\ job[j].pc \in {"resolve", "supervisor", "candidate", "compile", "officials", "check", "bin",
                    "finalize"} => job[j].kind \in {"local", "container", "run"}
  /\ job[j].pc = "copy" => job[j].kind \in {"container", "ssh"}
  /\ job[j].pc \in {"clear", "aside", "swap", "drop"} => job[j].kind \notin {"deploy", "ship"}
  /\ job[j].pc \in {"archive", "packing", "attest", "attesting"} =>
       job[j].kind \notin {"run", "ship"}
  /\ job[j].pc \in Shipping \cup {"probe"} => job[j].kind \in {"deploy", "ship"}
  /\ job[j].pc = "lock" => job[j].kind # "ship"
  /\ job[j].pc \in {"done", "failed", "killed"} => job[j].kind = "run"

SnapshotOK(j) ==
  Frozen(j) /\ job[j].pc \in Copied => \A h \in Halves : job[j].snapshot[h] # None

\* What it made so far; a builder on a snapshot made it from that snapshot.
Pairs(j, half) == Frozen(j) => job[j].made[half] = job[j].snapshot[half]

MadeOK(j) ==
  /\ job[j].pc \in Documented => job[j].made.documents # None /\ Pairs(j, "documents")
  /\ job[j].pc \in Compiled => job[j].made.code # None /\ Pairs(j, "code")
  /\ job[j].pc \in Built => Whole(job[j].made)
  /\ job[j].kind = "deploy" /\ job[j].pc \in Shipping => Whole(job[j].made)

\* Until its release is live, the one it found is live or aside; from then on
\* its own is.
Publishing == {"drop", "archive", "packing", "attest", "attesting", "cleanup"}

LiveOK(j) ==
  /\ job[j].pc \in Locked /\ ~job[j].swapped =>
       IF job[j].pc = "swap" /\ job[j].hadPrevious
       THEN disk[Aside(j)] = job[j].found ELSE disk["release"] = job[j].found
  /\ job[j].pc \in Locked /\ job[j].swapped =>
       job[j].pc \in Publishing /\ disk["release"] = job[j].made
  /\ job[j].pc \in Publishing /\ job[j].kind # "deploy" => job[j].swapped
  /\ job[j].pc \in {"probe", "lock"} => ~job[j].swapped

\* The name to set a release aside under is cleared.
ClearedOK(j) == job[j].pc = "aside" /\ faults = 0 => disk[Aside(j)] = Absent

WholeRelease == {r \in Releases : Whole(r)}

\* A part of a release is only under a name that is being cleared, or was.
DiskOK ==
  /\ disk["release"] # Torn
  /\ \A n \in Names : disk[n] \notin {Absent, Torn} => Whole(disk[n])

OutputOK ==
  \A p \in Places : output[p].archive \in WholeRelease \cup {Absent, Torn}

\* What a command sends is the archive of its place, whole or torn; the archive
\* of a deploy from source is its own.
SentOK(j) ==
  /\ job[j].pc \in {"send", "sending", "vouch", "install"} =>
       output[Place(j)].archive \in WholeRelease \cup {Torn}
  /\ job[j].pc \in {"sending", "vouch", "install"} => job[j].sent \in WholeRelease \cup {Torn}
  /\ job[j].kind = "deploy" /\ job[j].pc \in Shipping \cup {"attest", "attesting", "cleanup"} =>
       output[j].archive = job[j].made
  /\ job[j].kind = "deploy" /\ job[j].pc \in {"sending", "vouch", "install"} =>
       job[j].sent \in {job[j].made, Torn}

InstalledOK == installed # Absent => installed # Torn /\ Whole(installed)

CommandOK(j) ==
  /\ LockOK(j) /\ KindOK(j) /\ SnapshotOK(j) /\ MadeOK(j)
  /\ LiveOK(j) /\ ClearedOK(j) /\ SentOK(j)

IInv ==
  /\ TypeOK
  /\ \A j \in Job : CommandOK(j)
  /\ DiskOK /\ OutputOK /\ InstalledOK

(***************************************************************************)
(* What a step does to the records of the commands.                        *)
(***************************************************************************)
Others(j) == \A k \in Job \ {j} : job'[k] = job[k]

\* A command goes on, with a release it has made more of.
Moved(j, to, r) ==
  /\ job'[j].pc = to /\ job'[j].made = r
  /\ job'[j].kind = job[j].kind /\ job'[j].snapshot = job[j].snapshot
  /\ job'[j].found = job[j].found /\ job'[j].hadPrevious = job[j].hadPrevious
  /\ job'[j].swapped = job[j].swapped
  /\ job'[j].sent = job[j].sent /\ job'[j].digest = job[j].digest
  /\ lock' = lock

Finished(j) ==
  /\ job'[j].pc \in {"done", "failed", "killed"} /\ job'[j].kind = "run"
  /\ lock' = IF lock = j THEN NoJob ELSE lock

\* What a step that makes something does.
Made(j, from, to, r) ==
  /\ job[j].pc = from /\ Others(j)
  /\ Moved(j, to, r) \/ Finished(j)
  /\ UNCHANGED <<tree, disk, output, installed, edits, faults>>

\* What is in a command's record.
LEMMA Fields ==
  ASSUME TypeOK, NEW j \in Job
  PROVE  /\ job[j].pc \in Points /\ job[j].kind \in Kinds
         /\ job[j].snapshot \in [Halves -> Version]
         /\ job[j].made \in Releases /\ job[j].found \in Releases \cup {Absent}
         /\ job[j].hadPrevious \in BOOLEAN /\ job[j].swapped \in BOOLEAN
         /\ job[j].sent \in Content /\ job[j].digest \in Content
         /\ job[j].made = [documents |-> job[j].made.documents, code |-> job[j].made.code,
                           officials |-> job[j].made.officials,
                           supervisor |-> job[j].made.supervisor]
         /\ \A half \in Halves : job[j].snapshot[half] \in Version /\ tree[half] \in Nat
<1>1. job[j] \in Command  BY DEF TypeOK, CommandTypes
<1>2. job[j].made \in Releases  BY <1>1 DEF Command
<1>. QED  BY <1>1, <1>2 DEF Command, Releases, TypeOK, FileTypes

\* The names a step may use.
LEMMA Nouns ==
  /\ Nothing \in Releases
  /\ Built \subseteq Compiled /\ Compiled \subseteq Documented /\ Documented \subseteq Copied
  /\ Copied \subseteq Locked /\ Locked \subseteq Points /\ Shipping \subseteq Points
  /\ "idle" \in Points /\ "probe" \in Points /\ "lock" \in Points
  /\ {"done", "failed", "killed"} \subseteq Points
BY DEF Nothing, Release, Releases, Version, Built, Compiled, Documented, Copied, Locked, Points,
       Shipping

\* A record of a command replaced by another.
LEMMA OneCommand ==
  ASSUME TypeOK, NEW j \in Job, NEW c \in Command, lock' \in Job \cup {NoJob},
         job' = [job EXCEPT ![j] = c]
  PROVE  CommandTypes'
BY DEF TypeOK, CommandTypes

\* A command that ends.
LEMMA EndEffect ==
  ASSUME TypeOK, NEW j \in Job, NEW pc \in {"done", "failed", "killed"}, End(j, pc)
  PROVE  Others(j) /\ Finished(j) /\ CommandTypes' /\ job'[j].pc = pc
<1>. DEFINE b == Begun("run")
             n == [h \in Halves |-> None]
             s == job[j].swapped
<1>1. b = [pc |-> "lock", kind |-> "run", snapshot |-> n, made |-> Nothing, found |-> Absent,
           hadPrevious |-> FALSE, swapped |-> FALSE, sent |-> Absent, digest |-> Absent]
  BY DEF Begun
<1>2. n \in [Halves -> Version] /\ s \in BOOLEAN  BY Fields DEF Version
<1>3. Over(j, pc) = [b EXCEPT !.pc = pc, !.swapped = s]  BY DEF Over
<1>. HIDE DEF b, n, s
<1>5. "lock" \in Points /\ "run" \in Kinds /\ Nothing \in Releases /\ Absent \in Content
  BY Nouns DEF Kinds, Content
<1>6. b \in Command /\ b.kind = "run"  BY <1>1, <1>2, <1>5 DEF Command
<1>7. Over(j, pc) \in Command /\ Over(j, pc).pc = pc /\ Over(j, pc).kind = "run"
  BY <1>2, <1>3, <1>6, Nouns DEF Command
<1>4. job' = [job EXCEPT ![j] = Over(j, pc)] /\ lock' = IF lock = j THEN NoJob ELSE lock
  BY DEF End, Unlock
<1>. QED  BY <1>4, <1>7 DEF TypeOK, CommandTypes, Others, Finished

\* A command that goes on.
LEMMA MoveEffect ==
  ASSUME TypeOK, NEW j \in Job, NEW to \in Points, NEW r \in Releases,
         job' = [job EXCEPT ![j].pc = to, ![j].made = r], lock' = lock
  PROVE  Others(j) /\ Moved(j, to, r) /\ CommandTypes'
<1>. DEFINE c == [job[j] EXCEPT !.pc = to, !.made = r]
<1>1. c \in Command  BY DEF TypeOK, CommandTypes, Command
<1>2. Others(j)  BY DEF TypeOK, CommandTypes, Others
<1>3. Moved(j, to, r)  BY DEF TypeOK, CommandTypes, Command, Moved
<1>4. job' = [job EXCEPT ![j] = c] /\ lock' \in Job \cup {NoJob}  BY DEF TypeOK, CommandTypes
<1>. HIDE DEF c
<1>. QED  BY <1>1, <1>2, <1>3, <1>4, OneCommand

\* A step that only moves on.
LEMMA GotoEffect ==
  ASSUME TypeOK, NEW j \in Job, NEW to \in Points, Goto(j, to)
  PROVE  Others(j) /\ Moved(j, to, job[j].made) /\ CommandTypes'
<1>1. job' = [job EXCEPT ![j].pc = to] /\ lock' = lock  BY DEF Goto, Set
<1>. DEFINE c == [job[j] EXCEPT !.pc = to]
<1>2. c \in Command  BY DEF TypeOK, CommandTypes, Command
<1>3. Others(j)  BY <1>1 DEF TypeOK, CommandTypes, Others
<1>4. Moved(j, to, job[j].made)  BY <1>1 DEF TypeOK, CommandTypes, Command, Moved
<1>5. job' = [job EXCEPT ![j] = c] /\ lock' \in Job \cup {NoJob}
  BY <1>1 DEF TypeOK, CommandTypes
<1>. HIDE DEF c
<1>. QED  BY <1>2, <1>3, <1>4, <1>5, OneCommand

\* A step that makes something goes on with it, or ends the command.
LEMMA MakesEffect ==
  ASSUME TypeOK, NEW j \in Job, NEW from, NEW to \in Points, NEW r \in Releases,
         Makes(j, from, to, r)
  PROVE  Made(j, from, to, r) /\ TypeOK'
<1>1. CASE job' = [job EXCEPT ![j].pc = to, ![j].made = r] /\ UNCHANGED lock
  BY <1>1, MoveEffect DEF Makes, Made, TypeOK, FileTypes
<1>2. CASE Fail(j)
  BY <1>2, EndEffect DEF Fail, Makes, Made, TypeOK, FileTypes
<1>. QED  BY <1>1, <1>2 DEF Makes

\* A step that passes goes on with what there is, or ends the command.
LEMMA PassesEffect ==
  ASSUME TypeOK, NEW j \in Job, NEW from, NEW to \in Points, Passes(j, from, to)
  PROVE  Made(j, from, to, job[j].made) /\ TypeOK'
BY Fields, MakesEffect DEF Passes

(***************************************************************************)
(* The other commands.                                                     *)
(***************************************************************************)
\* What a step of one command must leave alone for the others: the lock, the
\* release while they hold it, and the archive they send.
Archives(j) ==
  \A p \in Places : \/ output'[p].archive = output[p].archive
                    \/ p = Place(j) /\ output'[p].archive \in WholeRelease \cup {Torn}

Frame(j) ==
  /\ Others(j)
  /\ \A k \in Job \ {j} : lock' = k <=> lock = k
  /\ disk' = disk \/ lock = j
  /\ faults' = 0 => faults = 0
  /\ Archives(j)

\* A step that writes no output.
LEMMA SameArchives == ASSUME NEW j, output' = output PROVE Archives(j)
BY DEF Archives

\* What a framed step leaves alone keeps every other command as it was.
LEMMA OthersKeep ==
  ASSUME IInv, NEW j \in Job, Frame(j), NEW k \in Job \ {j}
  PROVE  CommandOK(k)'
<1>. USE DEF IInv, CommandOK, Frame, Archives
<1>1. job'[k] = job[k]  BY DEF Others
<1>2. LockOK(k)'  BY <1>1 DEF LockOK
<1>3. KindOK(k)'  BY <1>1 DEF KindOK, Frozen, OverSsh
<1>4. SnapshotOK(k)'  BY <1>1 DEF SnapshotOK, Frozen
<1>5. MadeOK(k)'  BY <1>1 DEF MadeOK, Pairs, Frozen, Whole
<1>6. job[k].pc \in Locked => disk' = disk  BY DEF LockOK
<1>7. LiveOK(k)'
  <2>1. CASE job[k].pc \in Locked  BY <1>1, <1>6, <2>1 DEF LiveOK, Aside, Frozen
  <2>2. CASE job[k].pc \notin Locked
    BY <1>1, <2>2, Nouns DEF LiveOK, Publishing, Locked, Copied, Documented, Compiled, Built
  <2>. QED  BY <2>1, <2>2
<1>8. ClearedOK(k)'
  <2>1. "aside" \in Locked  BY DEF Locked, Copied, Documented, Compiled, Built
  <2>. QED  BY <1>1, <1>6, <2>1 DEF ClearedOK, Aside, Frozen
<1>9. SentOK(k)'
  <2>1. Place(k)' = Place(k) /\ Place(k) \in Places  BY <1>1 DEF Place, Places
  <2>2. output'[Place(k)].archive = output[Place(k)].archive
          \/ output'[Place(k)].archive \in WholeRelease \cup {Torn}
    BY <2>1
  <2>3. job[k].kind = "deploy" => output'[k].archive = output[k].archive
    BY NameAssumption DEF Place, Places
  <2>. QED  BY <1>1, <2>1, <2>2, <2>3 DEF SentOK
<1>. QED  BY <1>2, <1>3, <1>4, <1>5, <1>7, <1>8, <1>9

\* A command that ends leaves nothing to say about it.
LEMMA EndKeeps ==
  ASSUME IInv, NEW j \in Job, Finished(j)
  PROVE  CommandOK(j)'
<1>1. job'[j].pc \notin Locked \cup Shipping \cup {"snapshot", "probe", "lock"}
  BY DEF Finished, Locked, Copied, Documented, Compiled, Built, Shipping
<1>2. LockOK(j)'  BY <1>1, NameAssumption DEF Finished, LockOK
<1>3. KindOK(j)'
  BY DEF Finished, KindOK, Shipping
<1>4. SnapshotOK(j)' /\ MadeOK(j)' /\ ClearedOK(j)'
  BY <1>1 DEF Finished, SnapshotOK, MadeOK, ClearedOK, Locked, Copied, Documented, Compiled, Built
<1>5. LiveOK(j)'
  BY <1>1 DEF Finished, LiveOK, Publishing, Locked, Copied, Documented, Compiled, Built
<1>6. SentOK(j)'
  BY <1>1 DEF Finished, SentOK, Shipping
<1>. QED  BY <1>2, <1>3, <1>4, <1>5, <1>6 DEF CommandOK

(***************************************************************************)
(* The steps that make something, or pass.                                 *)
(***************************************************************************)
\* A step that makes something keeps everything but its own command, which is left to show.
LEMMA MakingKeeps ==
  ASSUME IInv, NEW j \in Job, NEW from, NEW to \in Points, NEW r, Made(j, from, to, r),
         Moved(j, to, r) => CommandOK(j)'
  PROVE  /\ \A k \in Job : CommandOK(k)'
         /\ DiskOK' /\ OutputOK' /\ InstalledOK'
<1>1. ASSUME NEW k \in Job \ {j} PROVE CommandOK(k)'
  <2>. Frame(j)  BY NameAssumption, SameArchives DEF Made, Moved, Finished, Frame
  <2>. QED  BY <1>1, OthersKeep
<1>2. CommandOK(j)'  BY EndKeeps DEF Made
<1>3. DiskOK' /\ OutputOK' /\ InstalledOK'  BY DEF IInv, Made, DiskOK, OutputOK, InstalledOK
<1>. QED  BY <1>1, <1>2, <1>3

\* Probe keeps the invariant.
LEMMA ProbeKeeps == ASSUME IInv, NEW j \in Job, Probe(j) PROVE IInv'
<1>. DEFINE to == IF job[j].kind = "deploy" THEN "lock" ELSE "temp"
             r == job[j].made
<1>1. r \in Releases  BY Fields DEF IInv
<1>2. to \in Points  BY DEF Points, Locked, Copied, Documented, Compiled, Built, Shipping
<1>3. Made(j, "probe", to, r) /\ TypeOK'
  BY <1>2, PassesEffect DEF Probe, IInv
<1>4. ASSUME Moved(j, to, r) PROVE CommandOK(j)'
  <2>. USE <1>3, <1>4 DEF IInv, CommandOK, Made, Moved
  <2>1. LockOK(j)'  BY DEF LockOK, Locked, Copied, Documented, Compiled, Built, Shipping
  <2>2. KindOK(j)'  BY DEF KindOK, Frozen, OverSsh, Shipping, Kinds
  <2>3. SnapshotOK(j)'
    BY DEF SnapshotOK, KindOK, Frozen, OverSsh, Locked, Copied, Documented, Compiled, Built,
       Shipping
  <2>4. MadeOK(j)'
    BY DEF MadeOK, Pairs, SnapshotOK, KindOK, Whole, Frozen, OverSsh, Halves, Locked, Copied,
       Documented, Compiled, Built, Shipping
  <2>5. LiveOK(j)'
    BY DEF LiveOK, KindOK, Publishing, Aside, Frozen, OverSsh, Locked, Copied, Documented,
       Compiled, Built, Shipping
  <2>6. ClearedOK(j)'  BY DEF ClearedOK
  <2>7. SentOK(j)'  BY DEF SentOK, KindOK, OverSsh, Place, Shipping
  <2>. QED  BY <2>1, <2>2, <2>3, <2>4, <2>5, <2>6, <2>7
<1>. HIDE DEF to, r
<1>. QED  BY <1>2, <1>3, <1>4, MakingKeeps DEF IInv

\* Connect keeps the invariant.
LEMMA ConnectKeeps == ASSUME IInv, NEW j \in Job, Connect(j) PROVE IInv'
<1>. DEFINE to == "snapshot"
             r == job[j].made
<1>1. r \in Releases  BY Fields DEF IInv
<1>2. to \in Points  BY DEF Points, Locked, Copied, Documented, Compiled, Built, Shipping
<1>3. Made(j, "connect", to, r) /\ TypeOK'
  BY <1>2, PassesEffect DEF Connect, IInv
<1>4. ASSUME Moved(j, to, r) PROVE CommandOK(j)'
  <2>. USE <1>3, <1>4 DEF IInv, CommandOK, Made, Moved
  <2>1. LockOK(j)'  BY DEF LockOK, Locked, Copied, Documented, Compiled, Built, Shipping
  <2>2. KindOK(j)'  BY DEF KindOK, Frozen, OverSsh, Shipping, Kinds
  <2>3. SnapshotOK(j)'
    BY DEF SnapshotOK, KindOK, Frozen, OverSsh, Locked, Copied, Documented, Compiled, Built,
       Shipping
  <2>4. MadeOK(j)'
    BY DEF MadeOK, Pairs, SnapshotOK, KindOK, Whole, Frozen, OverSsh, Halves, Locked, Copied,
       Documented, Compiled, Built, Shipping
  <2>5. LiveOK(j)'
    BY DEF LiveOK, KindOK, Publishing, Aside, Frozen, OverSsh, Locked, Copied, Documented,
       Compiled, Built, Shipping
  <2>6. ClearedOK(j)'  BY DEF ClearedOK
  <2>7. SentOK(j)'  BY DEF SentOK, KindOK, OverSsh, Place, Shipping
  <2>. QED  BY <2>1, <2>2, <2>3, <2>4, <2>5, <2>6, <2>7
<1>. HIDE DEF to, r
<1>. QED  BY <1>2, <1>3, <1>4, MakingKeeps DEF IInv

\* Resolve keeps the invariant.
LEMMA ResolveKeeps == ASSUME IInv, NEW j \in Job, Resolve(j) PROVE IInv'
<1>. DEFINE to == IF job[j].kind = "container" THEN "requirements" ELSE "supervisor"
             r == Release(Source(j, "documents"), None, FALSE, FALSE)
<1>1. r \in Releases /\ r = [documents |-> r.documents, code |-> r.code, officials |-> r.officials,
                             supervisor |-> r.supervisor]
  BY Fields DEF IInv, Release, Releases, Source, Version, Halves
<1>2. to \in Points  BY DEF Points, Locked, Copied, Documented, Compiled, Built, Shipping
<1>3. Made(j, "resolve", to, r) /\ TypeOK'
  BY <1>1, <1>2, MakesEffect DEF Resolve, IInv
<1>4. ASSUME Moved(j, to, r) PROVE CommandOK(j)'
  <2>. USE <1>3, <1>4 DEF IInv, CommandOK, Made, Moved
  <2>1. LockOK(j)'  BY DEF LockOK, Locked, Copied, Documented, Compiled, Built, Shipping
  <2>2. KindOK(j)'  BY DEF KindOK, Frozen, OverSsh, Shipping, Kinds
  <2>3. SnapshotOK(j)'
    BY DEF SnapshotOK, KindOK, Frozen, OverSsh, Locked, Copied, Documented, Compiled, Built,
       Shipping
  <2>4. MadeOK(j)'
    <3>1. r.documents = Source(j, "documents")  BY DEF Release
    <3>2. Source(j, "documents") # None
      BY Fields, NameAssumption DEF Source, SnapshotOK, Halves, Copied, Documented, Version
    <3>3. Frozen(j) => Source(j, "documents") = job[j].snapshot["documents"]  BY DEF Source
    <3>. HIDE DEF r
    <3>. QED
      BY <3>1, <3>2, <3>3 DEF MadeOK, KindOK, Pairs, Frozen, Documented, Compiled, Built, Shipping
  <2>5. LiveOK(j)'
    BY DEF LiveOK, KindOK, Publishing, Aside, Frozen, OverSsh, Locked, Copied, Documented,
       Compiled, Built, Shipping
  <2>6. ClearedOK(j)'  BY DEF ClearedOK
  <2>7. SentOK(j)'  BY DEF SentOK, KindOK, OverSsh, Place, Shipping
  <2>. QED  BY <2>1, <2>2, <2>3, <2>4, <2>5, <2>6, <2>7
<1>. HIDE DEF to, r
<1>. QED  BY <1>2, <1>3, <1>4, MakingKeeps DEF IInv

\* ReadRequirements keeps the invariant.
LEMMA ReadRequirementsKeeps == ASSUME IInv, NEW j \in Job, ReadRequirements(j) PROVE IInv'
<1>. DEFINE to == "image"
             r == job[j].made
<1>1. r \in Releases  BY Fields DEF IInv
<1>2. to \in Points  BY DEF Points, Locked, Copied, Documented, Compiled, Built, Shipping
<1>3. Made(j, "requirements", to, r) /\ TypeOK'
  BY <1>2, PassesEffect DEF ReadRequirements, IInv
<1>4. ASSUME Moved(j, to, r) PROVE CommandOK(j)'
  <2>. USE <1>3, <1>4 DEF IInv, CommandOK, Made, Moved
  <2>1. LockOK(j)'  BY DEF LockOK, Locked, Copied, Documented, Compiled, Built, Shipping
  <2>2. KindOK(j)'  BY DEF KindOK, Frozen, OverSsh, Shipping, Kinds
  <2>3. SnapshotOK(j)'
    BY DEF SnapshotOK, KindOK, Frozen, OverSsh, Locked, Copied, Documented, Compiled, Built,
       Shipping
  <2>4. MadeOK(j)'
    BY DEF MadeOK, Pairs, SnapshotOK, KindOK, Whole, Frozen, OverSsh, Halves, Locked, Copied,
       Documented, Compiled, Built, Shipping
  <2>5. LiveOK(j)'
    BY DEF LiveOK, KindOK, Publishing, Aside, Frozen, OverSsh, Locked, Copied, Documented,
       Compiled, Built, Shipping
  <2>6. ClearedOK(j)'  BY DEF ClearedOK
  <2>7. SentOK(j)'  BY DEF SentOK, KindOK, OverSsh, Place, Shipping
  <2>. QED  BY <2>1, <2>2, <2>3, <2>4, <2>5, <2>6, <2>7
<1>. HIDE DEF to, r
<1>. QED  BY <1>2, <1>3, <1>4, MakingKeeps DEF IInv

\* PrepareImage keeps the invariant.
LEMMA PrepareImageKeeps == ASSUME IInv, NEW j \in Job, PrepareImage(j) PROVE IInv'
<1>. DEFINE to == "engine"
             r == job[j].made
<1>1. r \in Releases  BY Fields DEF IInv
<1>2. to \in Points  BY DEF Points, Locked, Copied, Documented, Compiled, Built, Shipping
<1>3. Made(j, "image", to, r) /\ TypeOK'
  BY <1>2, PassesEffect DEF PrepareImage, IInv
<1>4. ASSUME Moved(j, to, r) PROVE CommandOK(j)'
  <2>. USE <1>3, <1>4 DEF IInv, CommandOK, Made, Moved
  <2>1. LockOK(j)'  BY DEF LockOK, Locked, Copied, Documented, Compiled, Built, Shipping
  <2>2. KindOK(j)'  BY DEF KindOK, Frozen, OverSsh, Shipping, Kinds
  <2>3. SnapshotOK(j)'
    BY DEF SnapshotOK, KindOK, Frozen, OverSsh, Locked, Copied, Documented, Compiled, Built,
       Shipping
  <2>4. MadeOK(j)'
    BY DEF MadeOK, Pairs, SnapshotOK, KindOK, Whole, Frozen, OverSsh, Halves, Locked, Copied,
       Documented, Compiled, Built, Shipping
  <2>5. LiveOK(j)'
    BY DEF LiveOK, KindOK, Publishing, Aside, Frozen, OverSsh, Locked, Copied, Documented,
       Compiled, Built, Shipping
  <2>6. ClearedOK(j)'  BY DEF ClearedOK
  <2>7. SentOK(j)'  BY DEF SentOK, KindOK, OverSsh, Place, Shipping
  <2>. QED  BY <2>1, <2>2, <2>3, <2>4, <2>5, <2>6, <2>7
<1>. HIDE DEF to, r
<1>. QED  BY <1>2, <1>3, <1>4, MakingKeeps DEF IInv

\* RunEngine keeps the invariant.
LEMMA RunEngineKeeps == ASSUME IInv, NEW j \in Job, RunEngine(j) PROVE IInv'
<1>. DEFINE to == "supervisor"
             r == job[j].made
<1>1. r \in Releases  BY Fields DEF IInv
<1>2. to \in Points  BY DEF Points, Locked, Copied, Documented, Compiled, Built, Shipping
<1>3. Made(j, "engine", to, r) /\ TypeOK'
  BY <1>2, PassesEffect DEF RunEngine, IInv
<1>4. ASSUME Moved(j, to, r) PROVE CommandOK(j)'
  <2>. USE <1>3, <1>4 DEF IInv, CommandOK, Made, Moved
  <2>1. LockOK(j)'  BY DEF LockOK, Locked, Copied, Documented, Compiled, Built, Shipping
  <2>2. KindOK(j)'  BY DEF KindOK, Frozen, OverSsh, Shipping, Kinds
  <2>3. SnapshotOK(j)'
    BY DEF SnapshotOK, KindOK, Frozen, OverSsh, Locked, Copied, Documented, Compiled, Built,
       Shipping
  <2>4. MadeOK(j)'
    BY DEF MadeOK, Pairs, SnapshotOK, KindOK, Whole, Frozen, OverSsh, Halves, Locked, Copied,
       Documented, Compiled, Built, Shipping
  <2>5. LiveOK(j)'
    BY DEF LiveOK, KindOK, Publishing, Aside, Frozen, OverSsh, Locked, Copied, Documented,
       Compiled, Built, Shipping
  <2>6. ClearedOK(j)'  BY DEF ClearedOK
  <2>7. SentOK(j)'  BY DEF SentOK, KindOK, OverSsh, Place, Shipping
  <2>. QED  BY <2>1, <2>2, <2>3, <2>4, <2>5, <2>6, <2>7
<1>. HIDE DEF to, r
<1>. QED  BY <1>2, <1>3, <1>4, MakingKeeps DEF IInv

\* Upload keeps the invariant.
LEMMA UploadKeeps == ASSUME IInv, NEW j \in Job, Upload(j) PROVE IInv'
<1>. DEFINE to == "remote"
             r == job[j].made
<1>1. r \in Releases  BY Fields DEF IInv
<1>2. to \in Points  BY DEF Points, Locked, Copied, Documented, Compiled, Built, Shipping
<1>3. Made(j, "upload", to, r) /\ TypeOK'
  BY <1>2, PassesEffect DEF Upload, IInv
<1>4. ASSUME Moved(j, to, r) PROVE CommandOK(j)'
  <2>. USE <1>3, <1>4 DEF IInv, CommandOK, Made, Moved
  <2>1. LockOK(j)'  BY DEF LockOK, Locked, Copied, Documented, Compiled, Built, Shipping
  <2>2. KindOK(j)'  BY DEF KindOK, Frozen, OverSsh, Shipping, Kinds
  <2>3. SnapshotOK(j)'
    BY DEF SnapshotOK, KindOK, Frozen, OverSsh, Locked, Copied, Documented, Compiled, Built,
       Shipping
  <2>4. MadeOK(j)'
    BY DEF MadeOK, Pairs, SnapshotOK, KindOK, Whole, Frozen, OverSsh, Halves, Locked, Copied,
       Documented, Compiled, Built, Shipping
  <2>5. LiveOK(j)'
    BY DEF LiveOK, KindOK, Publishing, Aside, Frozen, OverSsh, Locked, Copied, Documented,
       Compiled, Built, Shipping
  <2>6. ClearedOK(j)'  BY DEF ClearedOK
  <2>7. SentOK(j)'  BY DEF SentOK, KindOK, OverSsh, Place, Shipping
  <2>. QED  BY <2>1, <2>2, <2>3, <2>4, <2>5, <2>6, <2>7
<1>. HIDE DEF to, r
<1>. QED  BY <1>2, <1>3, <1>4, MakingKeeps DEF IInv

\* BuildRemotely keeps the invariant.
LEMMA BuildRemotelyKeeps == ASSUME IInv, NEW j \in Job, BuildRemotely(j) PROVE IInv'
<1>. DEFINE to == "pull"
             r == Release(job[j].snapshot["documents"], job[j].snapshot["code"], TRUE, TRUE)
<1>1. r \in Releases /\ r = [documents |-> r.documents, code |-> r.code, officials |-> r.officials,
                             supervisor |-> r.supervisor]
  BY Fields DEF IInv, Release, Releases, Source, Version, Halves
<1>2. to \in Points  BY DEF Points, Locked, Copied, Documented, Compiled, Built, Shipping
<1>3. Made(j, "remote", to, r) /\ TypeOK'
  BY <1>1, <1>2, MakesEffect DEF BuildRemotely, IInv
<1>4. ASSUME Moved(j, to, r) PROVE CommandOK(j)'
  <2>. USE <1>3, <1>4 DEF IInv, CommandOK, Made, Moved
  <2>1. LockOK(j)'  BY DEF LockOK, Locked, Copied, Documented, Compiled, Built, Shipping
  <2>2. KindOK(j)'  BY DEF KindOK, Frozen, OverSsh, Shipping, Kinds
  <2>3. SnapshotOK(j)'
    BY DEF SnapshotOK, KindOK, Frozen, OverSsh, Locked, Copied, Documented, Compiled, Built,
       Shipping
  <2>4. MadeOK(j)'
    BY Fields, NameAssumption DEF MadeOK, Pairs, SnapshotOK, KindOK, Whole, Frozen, OverSsh,
       Halves, Locked, Copied, Documented, Compiled, Built, Shipping, Source, Release, Version
  <2>5. LiveOK(j)'
    BY DEF LiveOK, KindOK, Publishing, Aside, Frozen, OverSsh, Locked, Copied, Documented,
       Compiled, Built, Shipping
  <2>6. ClearedOK(j)'  BY DEF ClearedOK
  <2>7. SentOK(j)'  BY DEF SentOK, KindOK, OverSsh, Place, Shipping
  <2>. QED  BY <2>1, <2>2, <2>3, <2>4, <2>5, <2>6, <2>7
<1>. HIDE DEF to, r
<1>. QED  BY <1>2, <1>3, <1>4, MakingKeeps DEF IInv

\* PullAndValidate keeps the invariant.
LEMMA PullAndValidateKeeps == ASSUME IInv, NEW j \in Job, PullAndValidate(j) PROVE IInv'
<1>. DEFINE to == IF job[j].kind = "deploy" THEN "archive" ELSE "copy"
             r == job[j].made
<1>1. r \in Releases  BY Fields DEF IInv
<1>2. to \in Points  BY DEF Points, Locked, Copied, Documented, Compiled, Built, Shipping
<1>3. Made(j, "pull", to, r) /\ TypeOK'
  BY <1>2, PassesEffect DEF PullAndValidate, IInv
<1>4. ASSUME Moved(j, to, r) PROVE CommandOK(j)'
  <2>. USE <1>3, <1>4 DEF IInv, CommandOK, Made, Moved
  <2>1. LockOK(j)'  BY DEF LockOK, Locked, Copied, Documented, Compiled, Built, Shipping
  <2>2. KindOK(j)'  BY DEF KindOK, Frozen, OverSsh, Shipping, Kinds
  <2>3. SnapshotOK(j)'
    BY DEF SnapshotOK, KindOK, Frozen, OverSsh, Locked, Copied, Documented, Compiled, Built,
       Shipping
  <2>4. MadeOK(j)'
    BY DEF MadeOK, Pairs, SnapshotOK, KindOK, Whole, Frozen, OverSsh, Halves, Locked, Copied,
       Documented, Compiled, Built, Shipping
  <2>5. LiveOK(j)'
    BY DEF LiveOK, KindOK, Publishing, Aside, Frozen, OverSsh, Locked, Copied, Documented,
       Compiled, Built, Shipping
  <2>6. ClearedOK(j)'  BY DEF ClearedOK
  <2>7. SentOK(j)'  BY DEF SentOK, KindOK, OverSsh, Place, Shipping
  <2>. QED  BY <2>1, <2>2, <2>3, <2>4, <2>5, <2>6, <2>7
<1>. HIDE DEF to, r
<1>. QED  BY <1>2, <1>3, <1>4, MakingKeeps DEF IInv

\* MaterializeSupervisor keeps the invariant.
LEMMA MaterializeSupervisorKeeps == ASSUME IInv, NEW j \in Job, MaterializeSupervisor(j) PROVE IInv'
<1>. DEFINE to == "candidate"
             r == job[j].made
<1>1. r \in Releases  BY Fields DEF IInv
<1>2. to \in Points  BY DEF Points, Locked, Copied, Documented, Compiled, Built, Shipping
<1>3. Made(j, "supervisor", to, r) /\ TypeOK'
  BY <1>2, PassesEffect DEF MaterializeSupervisor, IInv
<1>4. ASSUME Moved(j, to, r) PROVE CommandOK(j)'
  <2>. USE <1>3, <1>4 DEF IInv, CommandOK, Made, Moved
  <2>1. LockOK(j)'  BY DEF LockOK, Locked, Copied, Documented, Compiled, Built, Shipping
  <2>2. KindOK(j)'  BY DEF KindOK, Frozen, OverSsh, Shipping, Kinds
  <2>3. SnapshotOK(j)'
    BY DEF SnapshotOK, KindOK, Frozen, OverSsh, Locked, Copied, Documented, Compiled, Built,
       Shipping
  <2>4. MadeOK(j)'
    BY DEF MadeOK, Pairs, SnapshotOK, KindOK, Whole, Frozen, OverSsh, Halves, Locked, Copied,
       Documented, Compiled, Built, Shipping
  <2>5. LiveOK(j)'
    BY DEF LiveOK, KindOK, Publishing, Aside, Frozen, OverSsh, Locked, Copied, Documented,
       Compiled, Built, Shipping
  <2>6. ClearedOK(j)'  BY DEF ClearedOK
  <2>7. SentOK(j)'  BY DEF SentOK, KindOK, OverSsh, Place, Shipping
  <2>. QED  BY <2>1, <2>2, <2>3, <2>4, <2>5, <2>6, <2>7
<1>. HIDE DEF to, r
<1>. QED  BY <1>2, <1>3, <1>4, MakingKeeps DEF IInv

\* BeginLayout keeps the invariant.
LEMMA BeginLayoutKeeps == ASSUME IInv, NEW j \in Job, BeginLayout(j) PROVE IInv'
<1>. DEFINE to == "compile"
             r == job[j].made
<1>1. r \in Releases  BY Fields DEF IInv
<1>2. to \in Points  BY DEF Points, Locked, Copied, Documented, Compiled, Built, Shipping
<1>3. Made(j, "candidate", to, r) /\ TypeOK'
  BY <1>2, PassesEffect DEF BeginLayout, IInv
<1>4. ASSUME Moved(j, to, r) PROVE CommandOK(j)'
  <2>. USE <1>3, <1>4 DEF IInv, CommandOK, Made, Moved
  <2>1. LockOK(j)'  BY DEF LockOK, Locked, Copied, Documented, Compiled, Built, Shipping
  <2>2. KindOK(j)'  BY DEF KindOK, Frozen, OverSsh, Shipping, Kinds
  <2>3. SnapshotOK(j)'
    BY DEF SnapshotOK, KindOK, Frozen, OverSsh, Locked, Copied, Documented, Compiled, Built,
       Shipping
  <2>4. MadeOK(j)'
    BY DEF MadeOK, Pairs, SnapshotOK, KindOK, Whole, Frozen, OverSsh, Halves, Locked, Copied,
       Documented, Compiled, Built, Shipping
  <2>5. LiveOK(j)'
    BY DEF LiveOK, KindOK, Publishing, Aside, Frozen, OverSsh, Locked, Copied, Documented,
       Compiled, Built, Shipping
  <2>6. ClearedOK(j)'  BY DEF ClearedOK
  <2>7. SentOK(j)'  BY DEF SentOK, KindOK, OverSsh, Place, Shipping
  <2>. QED  BY <2>1, <2>2, <2>3, <2>4, <2>5, <2>6, <2>7
<1>. HIDE DEF to, r
<1>. QED  BY <1>2, <1>3, <1>4, MakingKeeps DEF IInv

\* CompileSource keeps the invariant.
LEMMA CompileSourceKeeps == ASSUME IInv, NEW j \in Job, CompileSource(j) PROVE IInv'
<1>. DEFINE to == "officials"
             r == Release(job[j].made.documents, Source(j, "code"), FALSE, FALSE)
<1>1. r \in Releases /\ r = [documents |-> r.documents, code |-> r.code, officials |-> r.officials,
                             supervisor |-> r.supervisor]
  BY Fields DEF IInv, Release, Releases, Source, Version, Halves
<1>2. to \in Points  BY DEF Points, Locked, Copied, Documented, Compiled, Built, Shipping
<1>3. Made(j, "compile", to, r) /\ TypeOK'
  BY <1>1, <1>2, MakesEffect DEF CompileSource, IInv
<1>4. ASSUME Moved(j, to, r) PROVE CommandOK(j)'
  <2>. USE <1>3, <1>4 DEF IInv, CommandOK, Made, Moved
  <2>1. LockOK(j)'  BY DEF LockOK, Locked, Copied, Documented, Compiled, Built, Shipping
  <2>2. KindOK(j)'  BY DEF KindOK, Frozen, OverSsh, Shipping, Kinds
  <2>3. SnapshotOK(j)'
    BY DEF SnapshotOK, KindOK, Frozen, OverSsh, Locked, Copied, Documented, Compiled, Built,
       Shipping
  <2>4. MadeOK(j)'
    <3>1. r.code = Source(j, "code")  BY DEF Release
    <3>2. Source(j, "code") # None
      BY Fields, NameAssumption DEF Source, SnapshotOK, Halves, Copied, Documented, Version
    <3>3. Frozen(j) => Source(j, "code") = job[j].snapshot["code"]  BY DEF Source
    <3>4. r.documents = job[j].made.documents  BY DEF Release
    <3>. HIDE DEF r
    <3>. QED
      BY <3>1, <3>2, <3>3, <3>4 DEF MadeOK, Pairs, Frozen, Documented, Compiled, Built, Shipping
  <2>5. LiveOK(j)'
    BY DEF LiveOK, KindOK, Publishing, Aside, Frozen, OverSsh, Locked, Copied, Documented,
       Compiled, Built, Shipping
  <2>6. ClearedOK(j)'  BY DEF ClearedOK
  <2>7. SentOK(j)'  BY DEF SentOK, KindOK, OverSsh, Place, Shipping
  <2>. QED  BY <2>1, <2>2, <2>3, <2>4, <2>5, <2>6, <2>7
<1>. HIDE DEF to, r
<1>. QED  BY <1>2, <1>3, <1>4, MakingKeeps DEF IInv

\* MaterializeOfficials keeps the invariant.
LEMMA MaterializeOfficialsKeeps == ASSUME IInv, NEW j \in Job, MaterializeOfficials(j) PROVE IInv'
<1>. DEFINE to == IF job[j].kind = "run" THEN "check" ELSE "bin"
             r == Release(job[j].made.documents, job[j].made.code, TRUE, FALSE)
<1>1. r \in Releases /\ r = [documents |-> r.documents, code |-> r.code, officials |-> r.officials,
                             supervisor |-> r.supervisor]
  BY Fields DEF IInv, Release, Releases, Source, Version, Halves
<1>2. to \in Points  BY DEF Points, Locked, Copied, Documented, Compiled, Built, Shipping
<1>3. Made(j, "officials", to, r) /\ TypeOK'
  BY <1>1, <1>2, MakesEffect DEF MaterializeOfficials, IInv
<1>4. ASSUME Moved(j, to, r) PROVE CommandOK(j)'
  <2>. USE <1>3, <1>4 DEF IInv, CommandOK, Made, Moved
  <2>1. LockOK(j)'  BY DEF LockOK, Locked, Copied, Documented, Compiled, Built, Shipping
  <2>2. KindOK(j)'  BY DEF KindOK, Frozen, OverSsh, Shipping, Kinds
  <2>3. SnapshotOK(j)'
    BY DEF SnapshotOK, KindOK, Frozen, OverSsh, Locked, Copied, Documented, Compiled, Built,
       Shipping
  <2>4. MadeOK(j)'
    BY Fields, NameAssumption DEF MadeOK, Pairs, SnapshotOK, KindOK, Whole, Frozen, OverSsh,
       Halves, Locked, Copied, Documented, Compiled, Built, Shipping, Source, Release, Version
  <2>5. LiveOK(j)'
    BY DEF LiveOK, KindOK, Publishing, Aside, Frozen, OverSsh, Locked, Copied, Documented,
       Compiled, Built, Shipping
  <2>6. ClearedOK(j)'  BY DEF ClearedOK
  <2>7. SentOK(j)'  BY DEF SentOK, KindOK, OverSsh, Place, Shipping
  <2>. QED  BY <2>1, <2>2, <2>3, <2>4, <2>5, <2>6, <2>7
<1>. HIDE DEF to, r
<1>. QED  BY <1>2, <1>3, <1>4, MakingKeeps DEF IInv

\* CheckSource keeps the invariant.
LEMMA CheckSourceKeeps == ASSUME IInv, NEW j \in Job, CheckSource(j) PROVE IInv'
<1>. DEFINE to == "bin"
             r == job[j].made
<1>1. r \in Releases  BY Fields DEF IInv
<1>2. to \in Points  BY DEF Points, Locked, Copied, Documented, Compiled, Built, Shipping
<1>3. Made(j, "check", to, r) /\ TypeOK'
  BY <1>2, PassesEffect DEF CheckSource, IInv
<1>4. ASSUME Moved(j, to, r) PROVE CommandOK(j)'
  <2>. USE <1>3, <1>4 DEF IInv, CommandOK, Made, Moved
  <2>1. LockOK(j)'  BY DEF LockOK, Locked, Copied, Documented, Compiled, Built, Shipping
  <2>2. KindOK(j)'  BY DEF KindOK, Frozen, OverSsh, Shipping, Kinds
  <2>3. SnapshotOK(j)'
    BY DEF SnapshotOK, KindOK, Frozen, OverSsh, Locked, Copied, Documented, Compiled, Built,
       Shipping
  <2>4. MadeOK(j)'
    BY DEF MadeOK, Pairs, SnapshotOK, KindOK, Whole, Frozen, OverSsh, Halves, Locked, Copied,
       Documented, Compiled, Built, Shipping
  <2>5. LiveOK(j)'
    BY DEF LiveOK, KindOK, Publishing, Aside, Frozen, OverSsh, Locked, Copied, Documented,
       Compiled, Built, Shipping
  <2>6. ClearedOK(j)'  BY DEF ClearedOK
  <2>7. SentOK(j)'  BY DEF SentOK, KindOK, OverSsh, Place, Shipping
  <2>. QED  BY <2>1, <2>2, <2>3, <2>4, <2>5, <2>6, <2>7
<1>. HIDE DEF to, r
<1>. QED  BY <1>2, <1>3, <1>4, MakingKeeps DEF IInv

\* CompleteBin keeps the invariant.
LEMMA CompleteBinKeeps == ASSUME IInv, NEW j \in Job, CompleteBin(j) PROVE IInv'
<1>. DEFINE to == "finalize"
             r == job[j].made
<1>1. r \in Releases  BY Fields DEF IInv
<1>2. to \in Points  BY DEF Points, Locked, Copied, Documented, Compiled, Built, Shipping
<1>3. Made(j, "bin", to, r) /\ TypeOK'
  BY <1>2, PassesEffect DEF CompleteBin, IInv
<1>4. ASSUME Moved(j, to, r) PROVE CommandOK(j)'
  <2>. USE <1>3, <1>4 DEF IInv, CommandOK, Made, Moved
  <2>1. LockOK(j)'  BY DEF LockOK, Locked, Copied, Documented, Compiled, Built, Shipping
  <2>2. KindOK(j)'  BY DEF KindOK, Frozen, OverSsh, Shipping, Kinds
  <2>3. SnapshotOK(j)'
    BY DEF SnapshotOK, KindOK, Frozen, OverSsh, Locked, Copied, Documented, Compiled, Built,
       Shipping
  <2>4. MadeOK(j)'
    BY DEF MadeOK, Pairs, SnapshotOK, KindOK, Whole, Frozen, OverSsh, Halves, Locked, Copied,
       Documented, Compiled, Built, Shipping
  <2>5. LiveOK(j)'
    BY DEF LiveOK, KindOK, Publishing, Aside, Frozen, OverSsh, Locked, Copied, Documented,
       Compiled, Built, Shipping
  <2>6. ClearedOK(j)'  BY DEF ClearedOK
  <2>7. SentOK(j)'  BY DEF SentOK, KindOK, OverSsh, Place, Shipping
  <2>. QED  BY <2>1, <2>2, <2>3, <2>4, <2>5, <2>6, <2>7
<1>. HIDE DEF to, r
<1>. QED  BY <1>2, <1>3, <1>4, MakingKeeps DEF IInv

\* Finalize keeps the invariant.
LEMMA FinalizeKeeps == ASSUME IInv, NEW j \in Job, Finalize(j) PROVE IInv'
<1>. DEFINE to == IF Frozen(j) THEN "copy" ELSE "clear"
             r == Release(job[j].made.documents, job[j].made.code, TRUE, TRUE)
<1>1. r \in Releases /\ r = [documents |-> r.documents, code |-> r.code, officials |-> r.officials,
                             supervisor |-> r.supervisor]
  BY Fields DEF IInv, Release, Releases, Source, Version, Halves
<1>2. to \in Points  BY DEF Points, Locked, Copied, Documented, Compiled, Built, Shipping
<1>3. Made(j, "finalize", to, r) /\ TypeOK'
  BY <1>1, <1>2, MakesEffect DEF Finalize, IInv
<1>4. ASSUME Moved(j, to, r) PROVE CommandOK(j)'
  <2>. USE <1>3, <1>4 DEF IInv, CommandOK, Made, Moved
  <2>1. LockOK(j)'  BY DEF LockOK, Locked, Copied, Documented, Compiled, Built, Shipping
  <2>2. KindOK(j)'  BY DEF KindOK, Frozen, OverSsh, Shipping, Kinds
  <2>3. SnapshotOK(j)'
    BY DEF SnapshotOK, KindOK, Frozen, OverSsh, Locked, Copied, Documented, Compiled, Built,
       Shipping
  <2>4. MadeOK(j)'
    BY Fields, NameAssumption DEF MadeOK, Pairs, SnapshotOK, KindOK, Whole, Frozen, OverSsh,
       Halves, Locked, Copied, Documented, Compiled, Built, Shipping, Source, Release, Version
  <2>5. LiveOK(j)'
    BY DEF LiveOK, KindOK, Publishing, Aside, Frozen, OverSsh, Locked, Copied, Documented,
       Compiled, Built, Shipping
  <2>6. ClearedOK(j)'  BY DEF ClearedOK
  <2>7. SentOK(j)'  BY DEF SentOK, KindOK, OverSsh, Place, Shipping
  <2>. QED  BY <2>1, <2>2, <2>3, <2>4, <2>5, <2>6, <2>7
<1>. HIDE DEF to, r
<1>. QED  BY <1>2, <1>3, <1>4, MakingKeeps DEF IInv

\* CopyCandidate keeps the invariant.
LEMMA CopyCandidateKeeps == ASSUME IInv, NEW j \in Job, CopyCandidate(j) PROVE IInv'
<1>. DEFINE to == "clear"
             r == job[j].made
<1>1. r \in Releases  BY Fields DEF IInv
<1>2. to \in Points  BY DEF Points, Locked, Copied, Documented, Compiled, Built, Shipping
<1>3. Made(j, "copy", to, r) /\ TypeOK'
  BY <1>2, PassesEffect DEF CopyCandidate, IInv
<1>4. ASSUME Moved(j, to, r) PROVE CommandOK(j)'
  <2>. USE <1>3, <1>4 DEF IInv, CommandOK, Made, Moved
  <2>1. LockOK(j)'  BY DEF LockOK, Locked, Copied, Documented, Compiled, Built, Shipping
  <2>2. KindOK(j)'  BY DEF KindOK, Frozen, OverSsh, Shipping, Kinds
  <2>3. SnapshotOK(j)'
    BY DEF SnapshotOK, KindOK, Frozen, OverSsh, Locked, Copied, Documented, Compiled, Built,
       Shipping
  <2>4. MadeOK(j)'
    BY DEF MadeOK, Pairs, SnapshotOK, KindOK, Whole, Frozen, OverSsh, Halves, Locked, Copied,
       Documented, Compiled, Built, Shipping
  <2>5. LiveOK(j)'
    BY DEF LiveOK, KindOK, Publishing, Aside, Frozen, OverSsh, Locked, Copied, Documented,
       Compiled, Built, Shipping
  <2>6. ClearedOK(j)'  BY DEF ClearedOK
  <2>7. SentOK(j)'  BY DEF SentOK, KindOK, OverSsh, Place, Shipping
  <2>. QED  BY <2>1, <2>2, <2>3, <2>4, <2>5, <2>6, <2>7
<1>. HIDE DEF to, r
<1>. QED  BY <1>2, <1>3, <1>4, MakingKeeps DEF IInv

\* CreateRemoteTemp keeps the invariant.
LEMMA CreateRemoteTempKeeps == ASSUME IInv, NEW j \in Job, CreateRemoteTemp(j) PROVE IInv'
<1>. DEFINE to == "locate"
             r == job[j].made
<1>1. r \in Releases  BY Fields DEF IInv
<1>2. to \in Points  BY DEF Points, Locked, Copied, Documented, Compiled, Built, Shipping
<1>3. Made(j, "temp", to, r) /\ TypeOK'
  BY <1>2, PassesEffect DEF CreateRemoteTemp, IInv
<1>4. ASSUME Moved(j, to, r) PROVE CommandOK(j)'
  <2>. USE <1>3, <1>4 DEF IInv, CommandOK, Made, Moved
  <2>1. LockOK(j)'  BY DEF LockOK, Locked, Copied, Documented, Compiled, Built, Shipping
  <2>2. KindOK(j)'  BY DEF KindOK, Frozen, OverSsh, Shipping, Kinds
  <2>3. SnapshotOK(j)'
    BY DEF SnapshotOK, KindOK, Frozen, OverSsh, Locked, Copied, Documented, Compiled, Built,
       Shipping
  <2>4. MadeOK(j)'
    BY DEF MadeOK, Pairs, SnapshotOK, KindOK, Whole, Frozen, OverSsh, Halves, Locked, Copied,
       Documented, Compiled, Built, Shipping
  <2>5. LiveOK(j)'
    BY DEF LiveOK, KindOK, Publishing, Aside, Frozen, OverSsh, Locked, Copied, Documented,
       Compiled, Built, Shipping
  <2>6. ClearedOK(j)'  BY DEF ClearedOK
  <2>7. SentOK(j)'  BY DEF SentOK, KindOK, OverSsh, Place, Shipping
  <2>. QED  BY <2>1, <2>2, <2>3, <2>4, <2>5, <2>6, <2>7
<1>. HIDE DEF to, r
<1>. QED  BY <1>2, <1>3, <1>4, MakingKeeps DEF IInv

(***************************************************************************)
(* The other steps.                                                        *)
(***************************************************************************)
\* Other fields that a step sets beside the point.
LEMMA WasUpdates ==
  ASSUME TypeOK, NEW j \in Job, NEW to \in Points, NEW b \in BOOLEAN,
         lock' \in Job \cup {NoJob},
         job' = [job EXCEPT ![j].pc = to, ![j].hadPrevious = b]
  PROVE  CommandTypes'
<1>. DEFINE c == [job[j] EXCEPT !.pc = to, !.hadPrevious = b]
<1>1. c \in Command  BY DEF TypeOK, CommandTypes, Command
<1>2. job' = [job EXCEPT ![j] = c]  BY DEF TypeOK, CommandTypes
<1>. HIDE DEF c
<1>. QED  BY <1>1, <1>2, OneCommand

\* The release is live.
LEMMA SwapUpdates ==
  ASSUME TypeOK, NEW j \in Job, NEW to \in Points, NEW b \in BOOLEAN,
         lock' \in Job \cup {NoJob},
         job' = [job EXCEPT ![j].pc = to, ![j].swapped = b]
  PROVE  CommandTypes'
<1>. DEFINE c == [job[j] EXCEPT !.pc = to, !.swapped = b]
<1>1. c \in Command  BY DEF TypeOK, CommandTypes, Command
<1>2. job' = [job EXCEPT ![j] = c]  BY DEF TypeOK, CommandTypes
<1>. HIDE DEF c
<1>. QED  BY <1>1, <1>2, OneCommand

\* A half of the snapshot.
LEMMA CopyUpdates ==
  ASSUME TypeOK, NEW j \in Job, NEW to \in Points, NEW s \in [Halves -> Version],
         lock' \in Job \cup {NoJob},
         job' = [job EXCEPT ![j].snapshot = s, ![j].pc = to]
  PROVE  CommandTypes'
<1>. DEFINE c == [job[j] EXCEPT !.snapshot = s, !.pc = to]
<1>1. c \in Command  BY DEF TypeOK, CommandTypes, Command
<1>2. job' = [job EXCEPT ![j] = c]  BY DEF TypeOK, CommandTypes
<1>. HIDE DEF c
<1>. QED  BY <1>1, <1>2, OneCommand

\* What is read of the archive.
LEMMA SentUpdates ==
  ASSUME TypeOK, NEW j \in Job, NEW to \in Points, NEW f \in Content, lock' \in Job \cup {NoJob},
         job' = [job EXCEPT ![j].pc = to, ![j].sent = f]
  PROVE  CommandTypes'
<1>. DEFINE c == [job[j] EXCEPT !.pc = to, !.sent = f]
<1>1. c \in Command  BY DEF TypeOK, CommandTypes, Command
<1>2. job' = [job EXCEPT ![j] = c]  BY DEF TypeOK, CommandTypes
<1>. HIDE DEF c
<1>. QED  BY <1>1, <1>2, OneCommand

\* What is read of the sidecar.
LEMMA DigestUpdates ==
  ASSUME TypeOK, NEW j \in Job, NEW to \in Points, NEW f \in Content, lock' \in Job \cup {NoJob},
         job' = [job EXCEPT ![j].pc = to, ![j].digest = f]
  PROVE  CommandTypes'
<1>. DEFINE c == [job[j] EXCEPT !.pc = to, !.digest = f]
<1>1. c \in Command  BY DEF TypeOK, CommandTypes, Command
<1>2. job' = [job EXCEPT ![j] = c]  BY DEF TypeOK, CommandTypes
<1>. HIDE DEF c
<1>. QED  BY <1>1, <1>2, OneCommand

\* A framed step that keeps its own command and the files keeps the invariant.
LEMMA StepKeeps ==
  ASSUME IInv, NEW j \in Job, Frame(j), TypeOK', CommandOK(j)', DiskOK', OutputOK', InstalledOK'
  PROVE  IInv'
<1>1. ASSUME NEW k \in Job \ {j} PROVE CommandOK(k)'  BY <1>1, OthersKeep
<1>. QED  BY <1>1 DEF IInv

\* A failure, a kill or the end of a command that changes nothing else.
LEMMA QuietEndKeeps ==
  ASSUME IInv, NEW j \in Job, NEW pc \in {"done", "failed", "killed"}, End(j, pc),
         UNCHANGED <<tree, disk, output, installed, edits>>, faults' \in Nat,
         faults' = 0 => faults = 0
  PROVE  IInv'
<1>1. Others(j) /\ Finished(j) /\ CommandTypes'  BY EndEffect DEF IInv
<1>2. Frame(j)  BY <1>1, NameAssumption, SameArchives DEF Frame, Finished
<1>3. TypeOK'  BY <1>1 DEF IInv, TypeOK, FileTypes
<1>4. DiskOK' /\ OutputOK' /\ InstalledOK'  BY DEF IInv, DiskOK, OutputOK, InstalledOK
<1>. QED  BY <1>1, <1>2, <1>3, <1>4, EndKeeps, StepKeeps

\* A fault is counted.
LEMMA Faults ==
  ASSUME IInv, Fault
  PROVE  faults' \in Nat /\ faults' # 0
BY DEF IInv, TypeOK, FileTypes, Fault

\* Edit keeps the invariant.
LEMMA EditKeeps == ASSUME IInv, NEW h \in Halves, Edit(h) PROVE IInv'
<1>. USE DEF IInv, Edit
<1>1. TypeOK'
  <2>1. tree' \in [Halves -> Nat] /\ edits' \in Nat  BY DEF TypeOK, FileTypes
  <2>. QED  BY <2>1 DEF TypeOK, FileTypes, CommandTypes
<1>2. ASSUME NEW k \in Job PROVE CommandOK(k)'
  BY DEF CommandOK, LockOK, KindOK, SnapshotOK, MadeOK, LiveOK, ClearedOK, SentOK, Pairs, Frozen,
         OverSsh, Aside, Place
<1>3. DiskOK' /\ OutputOK' /\ InstalledOK'  BY DEF DiskOK, OutputOK, InstalledOK
<1>. QED  BY <1>1, <1>2, <1>3

\* Begin keeps the invariant.
LEMMA BeginKeeps == ASSUME IInv, NEW j \in Job, Begin(j) PROVE IInv'
<1>1. PICK kind \in Kinds : job' = [job EXCEPT ![j] = Begun(kind)]  BY DEF Begin
<1>. DEFINE b == Begun(kind)
            n == [h \in Halves |-> None]
            to == CASE kind \in {"deploy", "ship"} -> "probe" [] OTHER -> "lock"
<1>2. b = [pc |-> to, kind |-> kind, snapshot |-> n, made |-> Nothing, found |-> Absent,
           hadPrevious |-> FALSE, swapped |-> FALSE, sent |-> Absent, digest |-> Absent]
  BY DEF Begun
<1>3. n \in [Halves -> Version]  BY DEF Version
<1>4. to \in Points /\ to \in {"probe", "lock"}
      /\ (to = "probe" => kind \in {"deploy", "ship"}) /\ (to = "lock" => kind # "ship")
  BY DEF Points
<1>. HIDE DEF b, n, to
<1>5. Nothing \in Releases /\ Absent \in Content  BY Nouns DEF Content
<1>6. b \in Command /\ b.kind = kind /\ b.pc = to /\ b.swapped = FALSE
  BY <1>2, <1>3, <1>4, <1>5 DEF Command
<1>7. job' = [job EXCEPT ![j] = b]  BY <1>1 DEF b
<1>8. Others(j) /\ CommandTypes' /\ job'[j] = b
  BY <1>6, <1>7 DEF IInv, TypeOK, CommandTypes, Others, Begin
<1>9. Frame(j)  BY <1>8, SameArchives DEF Frame, Begin
<1>10. TypeOK'  BY <1>8 DEF IInv, TypeOK, FileTypes, Begin
<1>11. DiskOK' /\ OutputOK' /\ InstalledOK'  BY DEF IInv, DiskOK, OutputOK, InstalledOK, Begin
<1>12. CommandOK(j)'
  <2>. USE <1>4, <1>6, <1>8
  <2>1. lock # j /\ lock' = lock
    BY DEF IInv, CommandOK, LockOK, Begin, Locked, Copied, Documented, Compiled, Built
  <2>2. job'[j].pc \notin Locked \cup Shipping
    BY DEF Locked, Copied, Documented, Compiled, Built, Shipping
  <2>3. LockOK(j)'  BY <2>1, <2>2 DEF LockOK
  <2>4. KindOK(j)'  BY DEF KindOK, Shipping
  <2>5. SnapshotOK(j)' /\ MadeOK(j)' /\ ClearedOK(j)' /\ LiveOK(j)'
    BY <2>2 DEF SnapshotOK, MadeOK, ClearedOK, LiveOK, Publishing, Locked, Copied, Documented,
                Compiled, Built
  <2>6. SentOK(j)'  BY <2>2 DEF SentOK, Shipping
  <2>. QED  BY <2>3, <2>4, <2>5, <2>6 DEF CommandOK
<1>. QED  BY <1>9, <1>10, <1>11, <1>12, StepKeeps

\* AcquireLock keeps the invariant.
LEMMA AcquireLockKeeps == ASSUME IInv, NEW j \in Job, AcquireLock(j) PROVE IInv'
<1>1. CASE Fail(j)  BY <1>1, QuietEndKeeps DEF AcquireLock, Fail, IInv, TypeOK, FileTypes
<1>. DEFINE to == CASE job[j].kind = "container" -> "snapshot"
                    [] OverSsh(j)               -> "connect"
                    [] OTHER                    -> "resolve"
<1>2. CASE /\ lock = NoJob /\ lock' = j
           /\ job' = [job EXCEPT ![j].found = disk["release"], ![j].pc = to]
  <2>. USE <1>2
  <2>1. to \in {"snapshot", "connect", "resolve"} /\ to \in Points
        /\ (to = "snapshot" => Frozen(j)) /\ (to = "connect" => OverSsh(j))
        /\ (to = "resolve" => job[j].kind \notin {"container", "ssh", "deploy"})
    BY DEF Frozen, OverSsh, Points, Locked, Copied
  <2>. HIDE DEF to
  <2>2. disk["release"] \in Releases \cup {Absent}
    BY DEF IInv, TypeOK, FileTypes, Names, Content, DiskOK
  <2>3. CommandTypes'
    <3>. DEFINE c == [job[j] EXCEPT !.found = disk["release"], !.pc = to]
    <3>1. job[j] \in Command  BY DEF IInv, TypeOK, CommandTypes
    <3>2. c \in Command  BY <2>1, <2>2, <3>1 DEF Command
    <3>3. job' = [job EXCEPT ![j] = c]  BY DEF IInv, TypeOK, CommandTypes
    <3>. HIDE DEF c
    <3>. QED  BY <3>2, <3>3 DEF IInv, TypeOK, CommandTypes
  <2>4. Others(j)  BY DEF IInv, TypeOK, CommandTypes, Others
  <2>5. /\ job'[j].pc = to /\ job'[j].found = disk["release"] /\ job'[j].kind = job[j].kind
        /\ job'[j].swapped = job[j].swapped /\ job'[j].snapshot = job[j].snapshot
    BY DEF IInv, TypeOK, CommandTypes, Command
  <2>6. Frame(j)  BY <2>4, NameAssumption, SameArchives DEF Frame, AcquireLock
  <2>7. TypeOK' /\ DiskOK' /\ OutputOK' /\ InstalledOK'
    BY <2>3 DEF IInv, TypeOK, FileTypes, DiskOK, OutputOK, InstalledOK, AcquireLock
  <2>8. CommandOK(j)'
    <3>. USE <2>1, <2>5 DEF IInv, CommandOK, AcquireLock
    <3>1. LockOK(j)'  BY DEF LockOK, Locked, Copied
    <3>2. KindOK(j)'  BY Fields DEF KindOK, Frozen, OverSsh, Shipping, Kinds
    <3>3. SnapshotOK(j)'  BY DEF SnapshotOK, Frozen, Copied, Documented, Compiled, Built
    <3>4. MadeOK(j)' /\ ClearedOK(j)'
      BY DEF MadeOK, ClearedOK, Documented, Compiled, Built, Shipping
    <3>5. LiveOK(j)'  BY DEF LiveOK, Publishing
    <3>6. SentOK(j)'  BY DEF SentOK, Shipping
    <3>. QED  BY <3>1, <3>2, <3>3, <3>4, <3>5, <3>6
  <2>. QED  BY <2>6, <2>7, <2>8, StepKeeps
<1>. QED  BY <1>1, <1>2 DEF AcquireLock

\* SnapshotSource keeps the invariant.
LEMMA SnapshotSourceKeeps == ASSUME IInv, NEW j \in Job, SnapshotSource(j) PROVE IInv'
<1>1. CASE Fail(j)  BY <1>1, QuietEndKeeps DEF SnapshotSource, Fail, IInv, TypeOK, FileTypes
<1>2. ASSUME NEW h \in Halves, job[j].snapshot[h] = None, UNCHANGED lock,
             job' = [job EXCEPT ![j].snapshot[h] = tree[h],
                                ![j].pc = IF \A o \in Halves \ {h} : job[j].snapshot[o] # None
                                          THEN IF OverSsh(j) THEN "upload" ELSE "resolve"
                                          ELSE "snapshot"]
      PROVE  IInv'
  <2>. DEFINE full == \A o \in Halves \ {h} : job[j].snapshot[o] # None
              to == IF full THEN IF OverSsh(j) THEN "upload" ELSE "resolve" ELSE "snapshot"
              copy == [job[j].snapshot EXCEPT ![h] = tree[h]]
  <2>. USE <1>2
  <2>1. to \in {"upload", "resolve", "snapshot"} /\ to \in Points /\ (to # "snapshot" => full)
        /\ (to = "upload" => OverSsh(j)) /\ (to = "resolve" => ~OverSsh(j))
    BY DEF Points, Locked, Copied
  <2>2. copy \in [Halves -> Version] /\ copy[h] # None
        /\ \A o \in Halves \ {h} : copy[o] = job[j].snapshot[o]
    BY Fields, NameAssumption DEF IInv, Version
  <2>3. job' = [job EXCEPT ![j].snapshot = copy, ![j].pc = to]
    BY DEF IInv, TypeOK, CommandTypes, Command
  <2>4. full => \A o \in Halves : copy[o] # None  BY <2>2
  <2>. HIDE <1>2 DEF to, copy, full
  <2>5. CommandTypes' /\ Others(j)
    <3>1. CommandTypes'
      BY <1>2, <2>1, <2>2, <2>3, CopyUpdates DEF IInv, TypeOK, CommandTypes
    <3>2. Others(j)  BY <2>3 DEF IInv, TypeOK, CommandTypes, Others
    <3>. QED  BY <3>1, <3>2
  <2>6. /\ job'[j].pc = to /\ job'[j].snapshot = copy /\ job'[j].kind = job[j].kind
        /\ job'[j].found = job[j].found /\ job'[j].swapped = job[j].swapped
    BY <2>3 DEF IInv, TypeOK, CommandTypes, Command
  <2>7. Frame(j)  BY <1>2, <2>5, SameArchives DEF Frame, SnapshotSource
  <2>8. TypeOK' /\ DiskOK' /\ OutputOK' /\ InstalledOK'
    BY <2>5 DEF IInv, TypeOK, FileTypes, DiskOK, OutputOK, InstalledOK, SnapshotSource
  <2>9. CommandOK(j)'
    <3>. USE <2>1, <2>4, <2>6 DEF IInv, CommandOK, SnapshotSource
    <3>1. LockOK(j)'  BY <1>2 DEF LockOK, Locked, Copied
    <3>2. KindOK(j)'  BY Fields DEF KindOK, Frozen, OverSsh, Shipping, Kinds
    <3>3. SnapshotOK(j)'  BY DEF SnapshotOK, Frozen, Copied, Documented, Compiled, Built
    <3>4. MadeOK(j)' /\ ClearedOK(j)'
      BY DEF MadeOK, ClearedOK, Documented, Compiled, Built, Shipping
    <3>5. LiveOK(j)'  BY DEF LiveOK, Publishing, Locked, Copied
    <3>6. SentOK(j)'  BY DEF SentOK, Shipping
    <3>. QED  BY <3>1, <3>2, <3>3, <3>4, <3>5, <3>6
  <2>. QED  BY <2>7, <2>8, <2>9, StepKeeps
<1>. QED  BY <1>1, <1>2 DEF SnapshotSource

\* A step that goes on as it is, with what it does to the files.
LEMMA GoingOnKeeps ==
  ASSUME IInv, NEW j \in Job, NEW to \in Points, Goto(j, to), FileTypes',
         disk' = disk \/ lock = j,
         faults' = 0 => faults = 0,
         Archives(j),
         Moved(j, to, job[j].made) => CommandOK(j)', DiskOK', OutputOK', InstalledOK'
  PROVE  IInv'
<1>1. Others(j) /\ Moved(j, to, job[j].made) /\ CommandTypes'  BY GotoEffect DEF IInv
<1>2. Frame(j)  BY <1>1, SameArchives DEF Frame, Moved
<1>. QED  BY <1>1, <1>2, StepKeeps DEF TypeOK

\* The names a publication works on.
LEMMA Asides ==
  ASSUME NEW j
  PROVE  Aside(j) \in Names /\ Aside(j) # "release" /\ "release" \in Names
BY DEF Aside, Names

\* RemovePart keeps the invariant: no other command looks at the name that the
\* holder of the lock is clearing.
LEMMA RemovePartKeeps == ASSUME IInv, NEW j \in Job, RemovePart(j) PROVE IInv'
<1>. USE DEF RemovePart
<1>1. lock = j
  BY DEF IInv, CommandOK, LockOK, Locked, Copied, Documented, Compiled, Built
<1>2. /\ disk' \in [Names -> Content] /\ disk'["release"] = disk["release"]
      /\ \A n \in Names : disk'[n] \in {disk[n], Torn}
  BY Asides DEF IInv, TypeOK, FileTypes, Content
<1>3. TypeOK'  BY <1>2 DEF IInv, TypeOK, FileTypes, CommandTypes
<1>4. DiskOK' /\ OutputOK' /\ InstalledOK'
  BY <1>2, Asides DEF IInv, DiskOK, OutputOK, InstalledOK
<1>5. Others(j) /\ Frame(j)  BY <1>1, SameArchives DEF Others, Frame
<1>6. CommandOK(j)'
  <2>. USE DEF IInv, CommandOK
  <2>1. LockOK(j)' /\ KindOK(j)' /\ SnapshotOK(j)' /\ MadeOK(j)'
    BY DEF LockOK, KindOK, SnapshotOK, MadeOK, Pairs, Frozen, OverSsh, Whole
  <2>2. LiveOK(j)'  BY <1>2 DEF LiveOK
  <2>3. ClearedOK(j)'  BY DEF ClearedOK
  <2>4. SentOK(j)'  BY DEF SentOK, Place
  <2>. QED  BY <2>1, <2>2, <2>3, <2>4
<1>. QED  BY <1>3, <1>4, <1>5, <1>6, StepKeeps

\* ClearPrevious keeps the invariant.
LEMMA ClearPreviousKeeps == ASSUME IInv, NEW j \in Job, ClearPrevious(j) PROVE IInv'
<1>. USE DEF ClearPrevious
<1>1. lock = j /\ "aside" \in Points
  BY DEF IInv, CommandOK, LockOK, Points, Locked, Copied, Documented, Compiled, Built
<1>2. CASE Fail(j) /\ Fault /\ disk' = disk
  BY <1>2, Faults, QuietEndKeeps DEF Fail
<1>3. ASSUME Goto(j, "aside"), disk' \in {disk, [disk EXCEPT ![Aside(j)] = Absent]},
             faults' \in Nat, faults' = 0 => faults = 0 /\ disk'[Aside(j)] = Absent
      PROVE  IInv'
  <2>. USE <1>3
  <2>1. disk' \in [Names -> Content]
    BY Asides DEF IInv, TypeOK, FileTypes, Content
  <2>2. FileTypes'  BY <2>1 DEF IInv, TypeOK, FileTypes
  <2>3. disk'["release"] = disk["release"] /\ (faults' = 0 => disk'[Aside(j)] = Absent)
        /\ \A n \in Names : disk'[n] \in {disk[n], Absent}
    BY Asides, Faults DEF IInv, TypeOK, FileTypes
  <2>4. DiskOK' /\ OutputOK' /\ InstalledOK'
    BY <2>3, Asides DEF IInv, DiskOK, OutputOK, InstalledOK
  <2>5. ASSUME Moved(j, "aside", job[j].made) PROVE CommandOK(j)'
    <3>. USE <2>3, <2>5 DEF IInv, CommandOK, Moved
    <3>1. LockOK(j)'  BY <1>1 DEF LockOK, Locked, Copied, Documented, Compiled, Built
    <3>2. KindOK(j)'  BY DEF KindOK, Frozen, OverSsh, Shipping
    <3>3. SnapshotOK(j)'  BY DEF SnapshotOK, Frozen, Copied, Documented, Compiled, Built
    <3>4. MadeOK(j)'
      BY DEF MadeOK, KindOK, Pairs, Frozen, Whole, Documented, Compiled, Built, Shipping
    <3>5. LiveOK(j)'
      BY DEF LiveOK, Publishing, Locked, Copied, Documented, Compiled, Built
    <3>6. ClearedOK(j)'  BY DEF ClearedOK, Aside, Frozen
    <3>7. SentOK(j)'  BY DEF SentOK, Shipping
    <3>. QED  BY <3>1, <3>2, <3>3, <3>4, <3>5, <3>6, <3>7
  <2>. QED  BY <1>1, <2>1, <2>2, <2>4, <2>5, SameArchives, GoingOnKeeps
<1>4. CASE faults' = faults /\ disk' = [disk EXCEPT ![Aside(j)] = Absent] /\ Goto(j, "aside")
  <2>1. faults \in Nat /\ disk'[Aside(j)] = Absent  BY <1>4, Asides DEF IInv, TypeOK, FileTypes
  <2>. QED  BY <1>3, <1>4, <2>1
<1>5. CASE Fault /\ disk' = disk /\ Goto(j, "aside")
  <2>1. faults' \in Nat /\ faults' # 0  BY <1>5, Faults
  <2>. QED  BY <1>3, <1>5, <2>1
<1>. QED  BY <1>2, <1>4, <1>5

\* SetAside keeps the invariant.
LEMMA SetAsideKeeps == ASSUME IInv, NEW j \in Job, SetAside(j) PROVE IInv'
<1>. USE DEF SetAside
<1>1. lock = j /\ "swap" \in Points
  BY DEF IInv, CommandOK, LockOK, Points, Locked, Copied, Documented, Compiled, Built
<1>2. CASE Fail(j) /\ disk' = disk /\ (Fault \/ faults' = faults)
  BY <1>2, Faults, QuietEndKeeps DEF Fail, IInv, TypeOK, FileTypes
<1>3. ASSUME NEW was \in BOOLEAN,
             job' = [job EXCEPT ![j].pc = "swap", ![j].hadPrevious = was],
             lock' = lock, faults' = faults,
             IF was THEN disk' = [disk EXCEPT ![Aside(j)] = disk["release"], !["release"] = Absent]
             ELSE disk' = disk
      PROVE  IInv'
  <2>. USE <1>3
  <2>1. CommandTypes'  BY <1>1, WasUpdates DEF IInv, TypeOK, CommandTypes
  <2>2. Others(j)  BY DEF IInv, TypeOK, CommandTypes, Others
  <2>3. /\ job'[j].pc = "swap" /\ job'[j].hadPrevious = was /\ job'[j].kind = job[j].kind
        /\ job'[j].snapshot = job[j].snapshot /\ job'[j].made = job[j].made
        /\ job'[j].found = job[j].found /\ job'[j].swapped = job[j].swapped
    BY DEF IInv, TypeOK, CommandTypes, Command
  <2>4. /\ disk' \in [Names -> Content]
        /\ was => disk'["release"] = Absent /\ disk'[Aside(j)] = disk["release"]
        /\ ~was => disk'["release"] = disk["release"]
        /\ \A n \in Names : disk'[n] \in {disk[n], disk["release"], Absent}
    BY Asides DEF IInv, TypeOK, FileTypes, Content
  <2>5. Frame(j)  BY <1>1, <2>2, SameArchives DEF Frame
  <2>6. TypeOK'  BY <2>1, <2>4 DEF IInv, TypeOK, FileTypes
  <2>7. DiskOK' /\ OutputOK' /\ InstalledOK'
    BY <2>4, Asides, NameAssumption DEF IInv, DiskOK, OutputOK, InstalledOK
  <2>8. CommandOK(j)'
    <3>. USE <2>3 DEF IInv, CommandOK
    <3>1. LockOK(j)'  BY <1>1 DEF LockOK, Locked, Copied, Documented, Compiled, Built
    <3>2. KindOK(j)'  BY DEF KindOK, Frozen, OverSsh, Shipping
    <3>3. SnapshotOK(j)'  BY DEF SnapshotOK, Frozen, Copied, Documented, Compiled, Built
    <3>4. MadeOK(j)'
      BY DEF MadeOK, KindOK, Pairs, Frozen, Whole, Documented, Compiled, Built, Shipping
    <3>5. LiveOK(j)'
      BY <2>4 DEF LiveOK, Aside, Frozen, Publishing, Locked, Copied, Documented, Compiled, Built
    <3>6. ClearedOK(j)'  BY DEF ClearedOK
    <3>7. SentOK(j)'  BY DEF SentOK, Shipping
    <3>. QED  BY <3>1, <3>2, <3>3, <3>4, <3>5, <3>6, <3>7
  <2>. QED  BY <2>5, <2>6, <2>7, <2>8, StepKeeps
<1>. QED  BY <1>2, <1>3

\* SwapIn keeps the invariant.
LEMMA SwapInKeeps == ASSUME IInv, NEW j \in Job, SwapIn(j) PROVE IInv'
<1>. USE DEF SwapIn
<1>1. lock = j /\ "drop" \in Points
  BY DEF IInv, CommandOK, LockOK, Points, Locked, Copied, Documented, Compiled, Built
<1>2. CASE Fail(j) /\ faults' \in Nat /\ (faults' = 0 => faults = 0)
           /\ \/ disk' = disk
              \/ /\ job[j].hadPrevious
                 /\ disk' = [disk EXCEPT !["release"] = disk[Aside(j)], ![Aside(j)] = Absent]
  <2>. USE <1>2
  <2>1. Others(j) /\ Finished(j) /\ CommandTypes'  BY EndEffect DEF IInv, Fail
  <2>2. Frame(j)  BY <1>1, <2>1, NameAssumption, SameArchives DEF Frame, Finished
  <2>3. /\ disk' \in [Names -> Content]
        /\ \A n \in Names : disk'[n] \in {disk[n], disk[Aside(j)], Absent}
        /\ disk'["release"] \in {disk["release"], disk[Aside(j)]}
        /\ disk'["release"] # disk["release"] => job[j].hadPrevious
    BY Asides DEF IInv, TypeOK, FileTypes, Content
  <2>4. TypeOK'  BY <2>1, <2>3 DEF IInv, TypeOK, FileTypes
  <2>5. job[j].hadPrevious => disk[Aside(j)] # Torn
    <3>1. job[j].hadPrevious => disk[Aside(j)] = job[j].found
      BY <1>1 DEF IInv, CommandOK, LockOK, LiveOK, Publishing
    <3>2. job[j].found # Torn  BY Fields, NameAssumption DEF IInv
    <3>. QED  BY <3>1, <3>2
  <2>6. DiskOK' /\ OutputOK' /\ InstalledOK'
    BY <2>3, <2>5, Asides DEF IInv, DiskOK, OutputOK, InstalledOK
  <2>. QED  BY <2>1, <2>2, <2>4, <2>6, EndKeeps, StepKeeps
<1>3. CASE /\ disk' = [disk EXCEPT !["release"] = job[j].made]
           /\ job' = [job EXCEPT ![j].pc = "drop", ![j].swapped = TRUE]
           /\ UNCHANGED <<lock, faults>>
  <2>. USE <1>3
  <2>1. CommandTypes'  BY <1>1, SwapUpdates DEF IInv, TypeOK, CommandTypes
  <2>2. Others(j)  BY DEF IInv, TypeOK, CommandTypes, Others
  <2>3. /\ job'[j].pc = "drop" /\ job'[j].kind = job[j].kind
        /\ job'[j].snapshot = job[j].snapshot /\ job'[j].made = job[j].made
        /\ job'[j].found = job[j].found /\ job'[j].swapped = TRUE
    BY DEF IInv, TypeOK, CommandTypes, Command
  <2>4. /\ disk' \in [Names -> Content]
        /\ disk'["release"] = job[j].made
        /\ \A n \in Names : disk'[n] \in {disk[n], job[j].made}
    BY Asides, Fields DEF IInv, TypeOK, FileTypes, Content
  <2>5. Frame(j)  BY <1>1, <2>2, SameArchives DEF Frame
  <2>6. TypeOK'  BY <2>1, <2>4 DEF IInv, TypeOK, FileTypes
  <2>7. Whole(job[j].made) /\ job[j].made # Torn
    BY Fields, NameAssumption DEF IInv, CommandOK, MadeOK, Built
  <2>8. DiskOK' /\ OutputOK' /\ InstalledOK'
    BY <2>4, <2>7 DEF IInv, DiskOK, OutputOK, InstalledOK
  <2>9. CommandOK(j)'
    <3>. USE <2>3 DEF IInv, CommandOK
    <3>1. LockOK(j)'  BY <1>1 DEF LockOK, Locked, Copied, Documented, Compiled, Built
    <3>2. KindOK(j)'  BY DEF KindOK, Frozen, OverSsh, Shipping
    <3>3. SnapshotOK(j)'  BY DEF SnapshotOK, Frozen, Copied, Documented, Compiled, Built
    <3>4. MadeOK(j)'
      BY DEF MadeOK, KindOK, Pairs, Frozen, Whole, Documented, Compiled, Built, Shipping
    <3>5. LiveOK(j)'  BY <2>4 DEF LiveOK, Publishing
    <3>6. ClearedOK(j)'  BY DEF ClearedOK
    <3>7. SentOK(j)'  BY DEF SentOK, Shipping
    <3>. QED  BY <3>1, <3>2, <3>3, <3>4, <3>5, <3>6, <3>7
  <2>. QED  BY <2>5, <2>6, <2>8, <2>9, StepKeeps
<1>4. (Fault \/ (faults + 2 <= MaxFaults /\ faults' = faults + 2)) =>
        faults' \in Nat /\ faults' # 0
  BY Faults DEF IInv, TypeOK, FileTypes
<1>. QED  BY <1>2, <1>3, <1>4

\* DropPrevious keeps the invariant.
LEMMA DropPreviousKeeps == ASSUME IInv, NEW j \in Job, DropPrevious(j) PROVE IInv'
<1>. USE DEF DropPrevious
<1>1. /\ lock = j /\ AfterPublish(j) \in {"done", "archive"} /\ "archive" \in Points
      /\ (AfterPublish(j) = "archive" => job[j].kind # "run")
  BY DEF IInv, CommandOK, LockOK, AfterPublish, Points, Locked, Copied, Documented, Compiled, Built
<1>2. /\ disk' = disk \/ disk' = [disk EXCEPT ![Aside(j)] = Absent]
      /\ faults' \in Nat /\ (faults' = 0 => faults = 0)
  BY Faults DEF IInv, TypeOK, FileTypes
<1>3. /\ disk' \in [Names -> Content] /\ disk'["release"] = disk["release"]
      /\ \A n \in Names : disk'[n] \in {disk[n], Absent}
  BY <1>2, Asides DEF IInv, TypeOK, FileTypes, Content
<1>4. FileTypes'  BY <1>2, <1>3 DEF IInv, TypeOK, FileTypes
<1>5. DiskOK' /\ OutputOK' /\ InstalledOK'
  BY <1>3, Asides DEF IInv, DiskOK, OutputOK, InstalledOK
<1>6. ASSUME NEW pc \in {"done", "failed"}, End(j, pc) PROVE IInv'
  <2>1. Others(j) /\ Finished(j) /\ CommandTypes'  BY <1>6, EndEffect DEF IInv
  <2>2. Frame(j)  BY <1>1, <1>2, <2>1, NameAssumption, SameArchives DEF Frame, Finished
  <2>. QED  BY <1>4, <1>5, <2>1, <2>2, EndKeeps, StepKeeps DEF TypeOK
<1>7. ASSUME Goto(j, "archive"), job[j].kind # "run" PROVE IInv'
  <2>1. ASSUME Moved(j, "archive", job[j].made) PROVE CommandOK(j)'
    <3>. USE <1>3, <1>7, <2>1 DEF IInv, CommandOK, Moved
    <3>1. LockOK(j)'  BY <1>1 DEF LockOK, Locked, Copied, Documented, Compiled, Built
    <3>2. KindOK(j)'  BY DEF KindOK, Frozen, OverSsh, Shipping
    <3>3. SnapshotOK(j)'  BY DEF SnapshotOK, Frozen, Copied, Documented, Compiled, Built
    <3>4. MadeOK(j)'
      BY DEF MadeOK, KindOK, Pairs, Frozen, Whole, Documented, Compiled, Built, Shipping
    <3>5. LiveOK(j)'  BY DEF LiveOK, KindOK, Publishing, Locked, Copied, Documented, Compiled, Built
    <3>6. ClearedOK(j)'  BY DEF ClearedOK
    <3>7. SentOK(j)'  BY DEF SentOK, Shipping
    <3>. QED  BY <3>1, <3>2, <3>3, <3>4, <3>5, <3>6, <3>7
  <2>. QED  BY <1>1, <1>2, <1>4, <1>5, <1>7, <2>1, SameArchives, GoingOnKeeps
<1>8. Continue(j, AfterPublish(j)) => End(j, "done") \/ (Goto(j, "archive") /\ job[j].kind # "run")
  BY <1>1 DEF Continue
<1>. QED  BY <1>6, <1>7, <1>8 DEF Fail

(***************************************************************************)
(* The archive and its sidecar.                                            *)
(***************************************************************************)
LEMMA PlaceOf ==
  ASSUME NEW j \in Job
  PROVE  Place(j) \in Places /\ (job[j].kind = "deploy" => Place(j) = j)
BY DEF Place, Places

\* Writing one of the two files, or a part of it.
LEMMA WritingKeeps ==
  ASSUME IInv, NEW j \in Job, NEW file \in {"archive", "sidecar"}, NEW content \in Content,
         file = "archive" => content \in WholeRelease \cup {Torn},
         output' = [output EXCEPT ![Place(j)][file] = content],
         UNCHANGED <<tree, disk, installed, edits>>, faults' \in Nat, faults' = 0 => faults = 0
  PROVE  /\ FileTypes' /\ DiskOK' /\ InstalledOK' /\ OutputOK'
         /\ output'[Place(j)][file] = content
         /\ file = "sidecar" => output'[Place(j)].archive = output[Place(j)].archive
         /\ Archives(j)
<1>1. /\ output' \in [Places -> [archive : Content, sidecar : Content]]
      /\ \A p \in Places \ {Place(j)} : output'[p] = output[p]
      /\ output'[Place(j)][file] = content
      /\ file = "sidecar" => output'[Place(j)].archive = output[Place(j)].archive
  BY PlaceOf DEF IInv, TypeOK, FileTypes
<1>2. FileTypes'  BY <1>1 DEF IInv, TypeOK, FileTypes
<1>3. DiskOK' /\ InstalledOK'  BY DEF IInv, DiskOK, InstalledOK
<1>4. Archives(j)  BY <1>1 DEF Archives
<1>5. OutputOK'  BY <1>4 DEF IInv, OutputOK, Archives
<1>. QED  BY <1>1, <1>2, <1>3, <1>4, <1>5

\* The end of a command after that.
LEMMA WritingEndKeeps ==
  ASSUME IInv, NEW j \in Job, NEW pc \in {"done", "failed"}, End(j, pc),
         FileTypes', DiskOK', InstalledOK', OutputOK', disk' = disk, faults' = 0 => faults = 0,
         Archives(j)
  PROVE  IInv'
<1>1. Others(j) /\ Finished(j) /\ CommandTypes'  BY EndEffect DEF IInv
<1>2. Frame(j)  BY <1>1, NameAssumption, SameArchives DEF Frame, Finished
<1>. QED  BY <1>1, <1>2, EndKeeps, StepKeeps DEF TypeOK

\* What a build packs is whole; a build over ssh packs what it made.
LEMMA ArchivedIsWhole ==
  ASSUME IInv, NEW j \in Job, job[j].pc = "packing"
  PROVE  /\ Archived(j) \in WholeRelease
         /\ job[j].kind = "deploy" => Archived(j) = job[j].made
<1>1. Whole(job[j].made) /\ job[j].made \in Releases
  BY Fields DEF IInv, CommandOK, MadeOK, Built
<1>2. ~OverSsh(j) => disk["release"] = job[j].made
  BY DEF IInv, CommandOK, LiveOK, Publishing, OverSsh, Locked, Copied, Documented, Compiled, Built
<1>. QED  BY <1>1, <1>2 DEF Archived, OverSsh, WholeRelease

\* OpenArchive keeps the invariant.
LEMMA OpenArchiveKeeps == ASSUME IInv, NEW j \in Job, OpenArchive(j) PROVE IInv'
<1>. USE DEF OpenArchive, Writing
<1>1. job[j].pc = "archive" /\ "packing" \in Points /\ Torn \in Content
  BY DEF Points, Locked, Copied, Documented, Compiled, Built, Content
<1>2. UNCHANGED <<tree, disk, installed, edits>> /\ faults' \in Nat /\ (faults' = 0 => faults = 0)
  BY Faults DEF IInv, TypeOK, FileTypes
<1>3. CASE Fail(j) /\ output' = output
  BY <1>2, <1>3, QuietEndKeeps DEF Fail
<1>4. CASE output' = [output EXCEPT ![Place(j)]["archive"] = Torn]
  <2>1. /\ FileTypes' /\ DiskOK' /\ InstalledOK' /\ OutputOK'
        /\ "archive" = "sidecar" => output'[Place(j)].archive = output[Place(j)].archive
        /\ Archives(j)
    BY <1>1, <1>2, <1>4, WritingKeeps
  <2>2. CASE Fail(j)  BY <1>2, <2>1, <2>2, WritingEndKeeps DEF Fail
  <2>3. CASE Goto(j, "packing")
    <3>. SUFFICES ASSUME Moved(j, "packing", job[j].made) PROVE CommandOK(j)'
      BY <1>1, <1>2, <2>1, <2>3, GoingOnKeeps
    <3>. USE <1>1, <1>2 DEF IInv, CommandOK, Moved
    <3>1. LockOK(j)'  BY DEF LockOK, Locked, Copied, Documented, Compiled, Built, Shipping
    <3>2. KindOK(j)'  BY DEF KindOK, Frozen, OverSsh, Shipping
    <3>3. SnapshotOK(j)'  BY DEF SnapshotOK, Frozen, Copied, Documented, Compiled, Built, Shipping
    <3>4. MadeOK(j)'
      BY DEF MadeOK, KindOK, Pairs, Frozen, Whole, Documented, Compiled, Built, Shipping
    <3>5. LiveOK(j)'
      BY DEF LiveOK, KindOK, Publishing, Aside, Frozen, Locked, Copied, Documented, Compiled,
             Built, Shipping
    <3>6. ClearedOK(j)'  BY DEF ClearedOK
    <3>7. SentOK(j)'  BY <2>1, PlaceOf DEF SentOK, Shipping
    <3>. QED  BY <3>1, <3>2, <3>3, <3>4, <3>5, <3>6, <3>7
  <2>. QED  BY <1>4, <2>2, <2>3
<1>. QED  BY <1>3, <1>4

\* WriteArchive keeps the invariant.
LEMMA WriteArchiveKeeps == ASSUME IInv, NEW j \in Job, WriteArchive(j) PROVE IInv'
<1>. USE DEF WriteArchive
<1>1. job[j].pc = "packing" /\ "attest" \in Points /\ Archived(j) \in WholeRelease
      /\ Archived(j) \in Content
  BY ArchivedIsWhole DEF Points, Locked, Copied, Documented, Compiled, Built, WholeRelease, Content
<1>2. UNCHANGED <<tree, disk, installed, edits>> /\ faults' \in Nat /\ (faults' = 0 => faults = 0)
  BY DEF IInv, TypeOK, FileTypes
<1>3. /\ FileTypes' /\ DiskOK' /\ InstalledOK' /\ OutputOK'
      /\ output'[Place(j)].archive = Archived(j)
      /\ Archives(j)
  BY <1>1, <1>2, WritingKeeps
<1>4. ASSUME Moved(j, "attest", job[j].made) PROVE CommandOK(j)'
  <2>. USE <1>1, <1>2, <1>4 DEF IInv, CommandOK, Moved
  <2>1. LockOK(j)'  BY DEF LockOK, Locked, Copied, Documented, Compiled, Built, Shipping
  <2>2. KindOK(j)'  BY DEF KindOK, Frozen, OverSsh, Shipping
  <2>3. SnapshotOK(j)'  BY DEF SnapshotOK, Frozen, Copied, Documented, Compiled, Built, Shipping
  <2>4. MadeOK(j)'
      BY DEF MadeOK, KindOK, Pairs, Frozen, Whole, Documented, Compiled, Built, Shipping
  <2>5. LiveOK(j)'
      BY DEF LiveOK, KindOK, Publishing, Aside, Frozen, Locked, Copied, Documented, Compiled,
             Built, Shipping
  <2>6. ClearedOK(j)'  BY DEF ClearedOK
  <2>7. SentOK(j)'  BY <1>3, PlaceOf, ArchivedIsWhole DEF SentOK, Shipping
  <2>. QED  BY <2>1, <2>2, <2>3, <2>4, <2>5, <2>6, <2>7
<1>. QED  BY <1>1, <1>2, <1>3, <1>4, GoingOnKeeps

\* OpenSidecar keeps the invariant.
LEMMA OpenSidecarKeeps == ASSUME IInv, NEW j \in Job, OpenSidecar(j) PROVE IInv'
<1>. USE DEF OpenSidecar, Writing
<1>1. job[j].pc = "attest" /\ "attesting" \in Points /\ Torn \in Content
  BY DEF Points, Locked, Copied, Documented, Compiled, Built, Content
<1>2. UNCHANGED <<tree, disk, installed, edits>> /\ faults' \in Nat /\ (faults' = 0 => faults = 0)
  BY Faults DEF IInv, TypeOK, FileTypes
<1>3. CASE Fail(j) /\ output' = output
  BY <1>2, <1>3, QuietEndKeeps DEF Fail
<1>4. CASE output' = [output EXCEPT ![Place(j)]["sidecar"] = Torn]
  <2>1. /\ FileTypes' /\ DiskOK' /\ InstalledOK' /\ OutputOK'
        /\ "sidecar" = "sidecar" => output'[Place(j)].archive = output[Place(j)].archive
        /\ Archives(j)
    BY <1>1, <1>2, <1>4, WritingKeeps
  <2>2. CASE Fail(j)  BY <1>2, <2>1, <2>2, WritingEndKeeps DEF Fail
  <2>3. CASE Goto(j, "attesting")
    <3>. SUFFICES ASSUME Moved(j, "attesting", job[j].made) PROVE CommandOK(j)'
      BY <1>1, <1>2, <2>1, <2>3, GoingOnKeeps
    <3>. USE <1>1, <1>2 DEF IInv, CommandOK, Moved
    <3>1. LockOK(j)'  BY DEF LockOK, Locked, Copied, Documented, Compiled, Built, Shipping
    <3>2. KindOK(j)'  BY DEF KindOK, Frozen, OverSsh, Shipping
    <3>3. SnapshotOK(j)'  BY DEF SnapshotOK, Frozen, Copied, Documented, Compiled, Built, Shipping
    <3>4. MadeOK(j)'
      BY DEF MadeOK, KindOK, Pairs, Frozen, Whole, Documented, Compiled, Built, Shipping
    <3>5. LiveOK(j)'
      BY DEF LiveOK, KindOK, Publishing, Aside, Frozen, Locked, Copied, Documented, Compiled,
             Built, Shipping
    <3>6. ClearedOK(j)'  BY DEF ClearedOK
    <3>7. SentOK(j)'  BY <2>1, PlaceOf DEF SentOK, Shipping
    <3>. QED  BY <3>1, <3>2, <3>3, <3>4, <3>5, <3>6, <3>7
  <2>. QED  BY <1>4, <2>2, <2>3
<1>. QED  BY <1>3, <1>4

\* WriteSidecar keeps the invariant.
LEMMA WriteSidecarKeeps == ASSUME IInv, NEW j \in Job, WriteSidecar(j) PROVE IInv'
<1>. USE DEF WriteSidecar
<1>1. job[j].pc = "attesting" /\ "cleanup" \in Points /\ output[Place(j)].archive \in Content
  BY PlaceOf DEF Points, Locked, Copied, Documented, Compiled, Built, IInv, TypeOK, FileTypes
<1>2. UNCHANGED <<tree, disk, installed, edits>> /\ faults' \in Nat /\ (faults' = 0 => faults = 0)
  BY DEF IInv, TypeOK, FileTypes
<1>3. /\ FileTypes' /\ DiskOK' /\ InstalledOK' /\ OutputOK'
      /\ output'[Place(j)].archive = output[Place(j)].archive
      /\ Archives(j)
  BY <1>1, <1>2, WritingKeeps
<1>4. CASE End(j, "done")  BY <1>2, <1>3, <1>4, WritingEndKeeps
<1>5. CASE Goto(j, "cleanup") /\ OverSsh(j)
  <2>. SUFFICES ASSUME Moved(j, "cleanup", job[j].made) PROVE CommandOK(j)'
    BY <1>1, <1>2, <1>3, <1>5, GoingOnKeeps
  <2>. USE <1>1, <1>2, <1>5 DEF IInv, CommandOK, Moved
  <2>1. LockOK(j)'  BY DEF LockOK, Locked, Copied, Documented, Compiled, Built, Shipping
  <2>2. KindOK(j)'  BY DEF KindOK, Frozen, OverSsh, Shipping
  <2>3. SnapshotOK(j)'  BY DEF SnapshotOK, Frozen, Copied, Documented, Compiled, Built, Shipping
  <2>4. MadeOK(j)'
      BY DEF MadeOK, KindOK, Pairs, Frozen, Whole, Documented, Compiled, Built, Shipping
  <2>5. LiveOK(j)'
      BY DEF LiveOK, KindOK, Publishing, Aside, Frozen, Locked, Copied, Documented, Compiled,
             Built, Shipping
  <2>6. ClearedOK(j)'  BY DEF ClearedOK
  <2>7. SentOK(j)'  BY <1>3, PlaceOf DEF SentOK, Shipping
  <2>. QED  BY <2>1, <2>2, <2>3, <2>4, <2>5, <2>6, <2>7
<1>. QED  BY <1>4, <1>5 DEF Continue

\* CleanupBuild keeps the invariant.
LEMMA CleanupBuildKeeps == ASSUME IInv, NEW j \in Job, CleanupBuild(j) PROVE IInv'
<1>. USE DEF CleanupBuild
<1>1. faults' \in Nat /\ (faults' = 0 => faults = 0) /\ "temp" \in Points
  BY DEF IInv, TypeOK, FileTypes, Points, Shipping
<1>2. CASE End(j, "done") \/ Fail(j)  BY <1>1, <1>2, QuietEndKeeps DEF Fail
<1>3. CASE job[j].kind = "deploy" /\ Set(j, "pc", "temp") /\ Unlock(j)
  <2>. USE <1>3
  <2>1. lock = j /\ lock' = NoJob
    BY DEF IInv, CommandOK, LockOK, Unlock, Locked, Copied, Documented, Compiled, Built
  <2>2. job' = [job EXCEPT ![j].pc = "temp"]  BY DEF Set
  <2>3. job' \in [Job -> Command]
    BY <1>1, <2>2 DEF IInv, TypeOK, CommandTypes, Command
  <2>4. Others(j)  BY <2>2 DEF IInv, TypeOK, CommandTypes, Others
  <2>5. /\ job'[j].pc = "temp" /\ job'[j].kind = "deploy"
        /\ job'[j].snapshot = job[j].snapshot /\ job'[j].made = job[j].made
    BY <2>2 DEF IInv, TypeOK, CommandTypes, Command
  <2>6. Frame(j)  BY <2>1, <2>4, NameAssumption, SameArchives DEF Frame
  <2>7. TypeOK' /\ DiskOK' /\ OutputOK' /\ InstalledOK'
    BY <2>1, <2>3 DEF IInv, TypeOK, FileTypes, CommandTypes, DiskOK, OutputOK, InstalledOK
  <2>8. CommandOK(j)'
    <3>. USE <2>1, <2>5 DEF IInv, CommandOK
    <3>1. LockOK(j)'  BY NameAssumption DEF LockOK, Locked, Copied, Documented, Compiled, Built
    <3>2. KindOK(j)'  BY DEF KindOK, Shipping
    <3>3. SnapshotOK(j)'  BY DEF SnapshotOK, Copied, Documented, Compiled, Built
    <3>4. MadeOK(j)'  BY DEF MadeOK, Whole, Documented, Compiled, Built
    <3>5. LiveOK(j)' /\ ClearedOK(j)'
      BY DEF LiveOK, ClearedOK, Publishing, Locked, Copied, Documented, Compiled, Built
    <3>6. SentOK(j)'  BY DEF SentOK, Shipping
    <3>. QED  BY <3>1, <3>2, <3>3, <3>4, <3>5, <3>6
  <2>. QED  BY <2>6, <2>7, <2>8, StepKeeps
<1>. QED  BY <1>2, <1>3

(***************************************************************************)
(* Sending an archive, without the lock.                                   *)
(***************************************************************************)
\* A step of a command that ships.
LEMMA ShippingKeeps ==
  ASSUME IInv, NEW j \in Job, job[j].pc \in Shipping, Others(j), CommandTypes',
         UNCHANGED <<tree, disk, output, installed, edits, faults, lock>>,
         job'[j].pc \in Shipping, job'[j].kind = job[j].kind, job'[j].made = job[j].made,
         SentOK(j)'
  PROVE  IInv'
<1>1. Frame(j)  BY SameArchives DEF Frame
<1>2. TypeOK' /\ DiskOK' /\ OutputOK' /\ InstalledOK'
  BY DEF IInv, TypeOK, FileTypes, DiskOK, OutputOK, InstalledOK
<1>3. CommandOK(j)'
  <2>. USE DEF IInv, CommandOK
  <2>1. LockOK(j)'  BY DEF LockOK, Shipping, Locked, Copied, Documented, Compiled, Built
  <2>2. KindOK(j)'  BY DEF KindOK, Shipping
  <2>3. SnapshotOK(j)'  BY DEF SnapshotOK, Shipping, Copied, Documented, Compiled, Built
  <2>4. MadeOK(j)'  BY DEF MadeOK, Whole, Shipping, Documented, Compiled, Built
  <2>5. LiveOK(j)' /\ ClearedOK(j)'
    BY DEF LiveOK, ClearedOK, Shipping, Publishing, Locked, Copied, Documented, Compiled, Built
  <2>. QED  BY <2>1, <2>2, <2>3, <2>4, <2>5
<1>. QED  BY <1>1, <1>2, <1>3, StepKeeps

\* LocateArchive keeps the invariant.
LEMMA LocateArchiveKeeps == ASSUME IInv, NEW j \in Job, LocateArchive(j) PROVE IInv'
<1>. USE DEF LocateArchive
<1>1. CASE Fail(j)  BY <1>1, QuietEndKeeps DEF Fail, IInv, TypeOK, FileTypes
<1>2. CASE output[Place(j)].archive # Absent /\ Goto(j, "send")
  <2>1. Others(j) /\ Moved(j, "send", job[j].made) /\ CommandTypes'
    BY <1>2, GotoEffect DEF IInv, Points, Shipping
  <2>2. output[Place(j)].archive \in WholeRelease \cup {Torn}
    BY <1>2, PlaceOf DEF IInv, OutputOK
  <2>3. SentOK(j)'  BY <2>1, <2>2 DEF IInv, CommandOK, SentOK, Moved, Place, Shipping
  <2>. QED  BY <2>1, <2>3, ShippingKeeps DEF Moved, Shipping
<1>. QED  BY <1>1, <1>2

\* StartSending keeps the invariant.
LEMMA StartSendingKeeps == ASSUME IInv, NEW j \in Job, StartSending(j) PROVE IInv'
<1>. USE DEF StartSending
<1>. DEFINE a == output[Place(j)].archive
<1>1. a \in Content /\ a \in WholeRelease \cup {Torn}
      /\ (job[j].kind = "deploy" => a = job[j].made)
  BY PlaceOf DEF IInv, CommandOK, SentOK, TypeOK, FileTypes, Shipping
<1>. HIDE DEF a
<1>2. job' = [job EXCEPT ![j].pc = "sending", ![j].sent = a]  BY DEF a
<1>0. "sending" \in Points /\ lock' \in Job \cup {NoJob}
  BY DEF IInv, TypeOK, CommandTypes, Points, Shipping
<1>3. CommandTypes'  BY <1>0, <1>1, <1>2, SentUpdates DEF IInv
<1>4. Others(j)  BY <1>2 DEF IInv, TypeOK, CommandTypes, Others
<1>5. /\ job'[j].pc = "sending" /\ job'[j].sent = a /\ job'[j].kind = job[j].kind
      /\ job'[j].made = job[j].made
  BY <1>2 DEF IInv, TypeOK, CommandTypes, Command
<1>6. SentOK(j)'  BY <1>1, <1>5 DEF a, IInv, CommandOK, SentOK, Place, Shipping
<1>. QED  BY <1>3, <1>4, <1>5, <1>6, ShippingKeeps DEF Shipping

\* FinishSending keeps the invariant.
LEMMA FinishSendingKeeps == ASSUME IInv, NEW j \in Job, FinishSending(j) PROVE IInv'
<1>. USE DEF FinishSending
<1>. DEFINE a == IF output[Place(j)].archive = job[j].sent THEN job[j].sent ELSE Torn
<1>0. CASE Fail(j)  BY <1>0, QuietEndKeeps DEF Fail, IInv, TypeOK, FileTypes
<1>7. CASE job' = [job EXCEPT ![j].pc = "vouch", ![j].sent = a] /\ UNCHANGED lock
  <2>1. a \in Content /\ a \in {job[j].sent, Torn}  BY Fields DEF IInv, Content
  <2>. HIDE DEF a
  <2>2. job' = [job EXCEPT ![j].pc = "vouch", ![j].sent = a]  BY <1>7
  <2>3. CommandTypes'
    BY <1>7, <2>1, <2>2, SentUpdates DEF IInv, TypeOK, CommandTypes, Points, Shipping
  <2>4. Others(j)  BY <2>2 DEF IInv, TypeOK, CommandTypes, Others
  <2>5. /\ job'[j].pc = "vouch" /\ job'[j].sent = a /\ job'[j].kind = job[j].kind
        /\ job'[j].made = job[j].made
    BY <2>2 DEF IInv, TypeOK, CommandTypes, Command
  <2>6. SentOK(j)'  BY <2>1, <2>5 DEF IInv, CommandOK, SentOK, Place, Shipping
  <2>. QED  BY <1>7, <2>3, <2>4, <2>5, <2>6, ShippingKeeps DEF Shipping
<1>. QED  BY <1>0, <1>7

\* SendSidecar keeps the invariant.
LEMMA SendSidecarKeeps == ASSUME IInv, NEW j \in Job, SendSidecar(j) PROVE IInv'
<1>. USE DEF SendSidecar
<1>. DEFINE d == output[Place(j)].sidecar
<1>0. CASE Fail(j)  BY <1>0, QuietEndKeeps DEF Fail, IInv, TypeOK, FileTypes
<1>7. CASE job' = [job EXCEPT ![j].pc = "install", ![j].digest = d] /\ UNCHANGED lock
  <2>1. d \in Content  BY PlaceOf DEF IInv, TypeOK, FileTypes
  <2>. HIDE DEF d
  <2>2. job' = [job EXCEPT ![j].pc = "install", ![j].digest = d]  BY <1>7
  <2>3. CommandTypes'
    BY <1>7, <2>1, <2>2, DigestUpdates DEF IInv, TypeOK, CommandTypes, Points, Shipping
  <2>4. Others(j)  BY <2>2 DEF IInv, TypeOK, CommandTypes, Others
  <2>5. /\ job'[j].pc = "install" /\ job'[j].sent = job[j].sent /\ job'[j].kind = job[j].kind
        /\ job'[j].made = job[j].made
    BY <2>2 DEF IInv, TypeOK, CommandTypes, Command
  <2>6. SentOK(j)'  BY <2>5 DEF IInv, CommandOK, SentOK, Place, Shipping
  <2>. QED  BY <1>7, <2>3, <2>4, <2>5, <2>6, ShippingKeeps DEF Shipping
<1>. QED  BY <1>0, <1>7

\* InstallRemotely keeps the invariant.
LEMMA InstallRemotelyKeeps == ASSUME IInv, NEW j \in Job, InstallRemotely(j) PROVE IInv'
<1>. USE DEF InstallRemotely
<1>1. CASE Fail(j) /\ UNCHANGED installed
  BY <1>1, QuietEndKeeps DEF Fail, IInv, TypeOK, FileTypes
<1>2. ASSUME Verified(j), installed' = job[j].sent, NEW pc \in {"done", "failed"}, End(j, pc)
      PROVE  IInv'
  <2>. USE <1>2
  <2>1. Others(j) /\ Finished(j) /\ CommandTypes'  BY EndEffect DEF IInv
  <2>2. Frame(j)  BY <2>1, NameAssumption, SameArchives DEF Frame, Finished
  <2>3. TypeOK'  BY <2>1, Fields DEF IInv, TypeOK, FileTypes
  <2>4. installed' \in WholeRelease /\ installed' # Torn
    BY DEF IInv, CommandOK, SentOK, Verified
  <2>5. DiskOK' /\ OutputOK' /\ InstalledOK'
    BY <2>4 DEF IInv, DiskOK, OutputOK, InstalledOK, WholeRelease
  <2>. QED  BY <2>1, <2>2, <2>3, <2>5, EndKeeps, StepKeeps
<1>. QED  BY <1>1, <1>2

\* Kill keeps the invariant.
LEMMA KillKeeps == ASSUME IInv, NEW j \in Job, Kill(j) PROVE IInv'
BY QuietEndKeeps DEF Kill, IInv, TypeOK, FileTypes

(***************************************************************************)
(* The invariant.                                                          *)
(***************************************************************************)
\* The initial states.
LEMMA InitOK == Init => IInv
<1>. SUFFICES ASSUME Init PROVE IInv
  OBVIOUS
<1>. USE DEF Init
<1>. DEFINE b == [Begun("run") EXCEPT !.pc = "idle"]
            c == Begun("run")
            n == [h \in Halves |-> None]
<1>1. c = [pc |-> "lock", kind |-> "run", snapshot |-> n, made |-> Nothing, found |-> Absent,
           hadPrevious |-> FALSE, swapped |-> FALSE, sent |-> Absent, digest |-> Absent]
  BY DEF Begun
<1>2. n \in [Halves -> Version]  BY DEF Version
<1>3. b = [c EXCEPT !.pc = "idle"] /\ \A j \in Job : job[j] = b  OBVIOUS
<1>4. job = [j \in Job |-> b]  OBVIOUS
<1>. HIDE DEF b, c, n
<1>5. "lock" \in Points /\ "idle" \in Points /\ "run" \in Kinds /\ Nothing \in Releases
      /\ Absent \in Content
  BY Nouns DEF Kinds, Content
<1>6. c \in Command /\ c.kind = "run" /\ c.swapped = FALSE  BY <1>1, <1>2, <1>5 DEF Command
<1>7. b \in Command /\ b.pc = "idle" /\ b.kind = "run"  BY <1>3, <1>5, <1>6 DEF Command
<1>8. CommandTypes  BY <1>4, <1>7 DEF CommandTypes
<1>9. FileTypes  BY DEF FileTypes, Content
<1>10. DiskOK /\ OutputOK /\ InstalledOK  BY NameAssumption DEF Names, DiskOK, OutputOK, InstalledOK
<1>11. ASSUME NEW j \in Job PROVE CommandOK(j)
  <2>1. job[j].pc = "idle" /\ job[j].kind = "run" /\ lock # j  BY <1>3, <1>7, NameAssumption
  <2>. QED  BY <2>1 DEF CommandOK, LockOK, KindOK, SnapshotOK, MadeOK, LiveOK, ClearedOK, SentOK,
       Publishing, Shipping, Locked, Copied, Documented, Compiled, Built
<1>. QED  BY <1>8, <1>9, <1>10, <1>11 DEF IInv, TypeOK

\* Every step keeps the invariant.
LEMMA StepOK == IInv /\ [Next]_vars => IInv'
<1>. SUFFICES ASSUME IInv, [Next]_vars PROVE IInv'
  OBVIOUS
<1>1. CASE UNCHANGED vars
  BY <1>1 DEF vars, IInv, TypeOK, FileTypes, CommandTypes, CommandOK, LockOK, KindOK, SnapshotOK,
     MadeOK, Pairs, LiveOK, ClearedOK, SentOK, DiskOK, OutputOK, InstalledOK, Frozen, OverSsh,
     Aside, Place, Whole
<1>2. ASSUME NEW h \in Halves, Edit(h) PROVE IInv'
  BY <1>2, EditKeeps
<1>3. ASSUME NEW j \in Job, Prepare(j) PROVE IInv'
  BY <1>3, BeginKeeps, ProbeKeeps, AcquireLockKeeps, ConnectKeeps, SnapshotSourceKeeps,
     ResolveKeeps,
     ReadRequirementsKeeps, PrepareImageKeeps, RunEngineKeeps, UploadKeeps, BuildRemotelyKeeps,
     PullAndValidateKeeps DEF Prepare
<1>4. ASSUME NEW j \in Job, Stage(j) PROVE IInv'
  BY <1>4, MaterializeSupervisorKeeps, BeginLayoutKeeps, CompileSourceKeeps,
     MaterializeOfficialsKeeps, CheckSourceKeeps, CompleteBinKeeps, FinalizeKeeps DEF Stage
<1>5. ASSUME NEW j \in Job, Publish(j) PROVE IInv'
  BY <1>5, CopyCandidateKeeps, RemovePartKeeps, ClearPreviousKeeps, SetAsideKeeps, SwapInKeeps,
     DropPreviousKeeps
  DEF Publish
<1>6. ASSUME NEW j \in Job, Attest(j) PROVE IInv'
  BY <1>6, OpenArchiveKeeps, WriteArchiveKeeps, OpenSidecarKeeps, WriteSidecarKeeps,
     CleanupBuildKeeps DEF Attest
<1>7. ASSUME NEW j \in Job, Ship(j) PROVE IInv'
  BY <1>7, CreateRemoteTempKeeps, LocateArchiveKeeps, StartSendingKeeps, FinishSendingKeeps,
     SendSidecarKeeps, InstallRemotelyKeeps DEF Ship
<1>8. ASSUME NEW j \in Job, Kill(j) PROVE IInv'
  BY <1>8, KillKeeps
<1>. QED  BY <1>1, <1>2, <1>3, <1>4, <1>5, <1>6, <1>7, <1>8 DEF Next, Ended

(***************************************************************************)
(* The inductive invariant: a command at a point has what the steps before *)
(* that point gave it, whatever the other commands, the operator and the   *)
(* kills did meanwhile.                                                    *)
(***************************************************************************)
THEOREM Invariant == Spec => []IInv
BY InitOK, StepOK, PTL DEF Spec

(***************************************************************************)
(* What is live is whole, what is aside is whole until its removal begins, *)
(* and what a builder made of a snapshot pairs the two halves of that      *)
(* snapshot: stage/publish.rs and the three builders, for any number of    *)
(* commands, edits and failures, removals that are cut short included.     *)
(***************************************************************************)
THEOREM PublishedWhole == Spec => []PublishedIsWhole
<1>1. IInv => PublishedIsWhole
  <2>. SUFFICES ASSUME IInv PROVE PublishedIsWhole
    OBVIOUS
  <2>1. ASSUME NEW j \in Job, Frozen(j), job[j].swapped, lock = j, NEW half \in Halves
        PROVE  disk["release"][half] = job[j].snapshot[half]
    <3>. USE <2>1 DEF IInv, CommandOK
    <3>1. job[j].pc \in Publishing /\ disk["release"] = job[j].made  BY DEF LockOK, LiveOK
    <3>2. Pairs(j, "documents") /\ Pairs(j, "code")
      BY <3>1 DEF MadeOK, Publishing, Documented, Compiled, Built
    <3>. QED  BY <3>1, <3>2 DEF Pairs, Halves
  <2>. QED  BY <2>1 DEF IInv, DiskOK, PublishedIsWhole
<1>. QED  BY <1>1, Invariant, PTL

(***************************************************************************)
(* What a killed command left aside blocks no later publication.           *)
(***************************************************************************)
THEOREM LeftoversHarmless == Spec => []LeftoversNeverBlock
<1>1. IInv => LeftoversNeverBlock
  BY DEF IInv, CommandOK, ClearedOK, LeftoversNeverBlock
<1>. QED  BY <1>1, Invariant, PTL

(***************************************************************************)
(* A device accepts a whole release only, and from a deploy of the source  *)
(* the one that deploy built, although an archive may be rewritten while   *)
(* it is sent.                                                             *)
(***************************************************************************)
THEOREM AcceptedWhole == Spec => []AcceptedIsWhole
<1>1. IInv => AcceptedIsWhole
  <2>. SUFFICES ASSUME IInv PROVE AcceptedIsWhole
    OBVIOUS
  <2>1. ASSUME NEW j \in Job, job[j].kind = "deploy", job[j].pc = "install", Verified(j)
        PROVE  job[j].sent = job[j].made
    BY <2>1 DEF IInv, CommandOK, SentOK, Verified
  <2>. QED  BY <2>1 DEF IInv, InstalledOK, AcceptedIsWhole
<1>. QED  BY <1>1, Invariant, PTL

(***************************************************************************)
(* What a failing step does: nothing, except at the swap.                  *)
(***************************************************************************)
FailsQuietly(j) ==
  /\ Others(j)
  /\ job'[j].pc = "failed" => disk' = disk /\ job[j].pc # "swap"

\* A step of one command, which ends it or sets fields of its record.
LEMMA OneRecord ==
  ASSUME IInv, NEW j \in Job, NEW r, job' = [job EXCEPT ![j] = r]
  PROVE  Others(j) /\ job'[j] = r
BY DEF IInv, TypeOK, CommandTypes, Others

\* A step that makes something, or fails.
LEMMA MakesFails ==
  ASSUME IInv, NEW j \in Job, NEW from, from # "swap", NEW to, NEW r, Makes(j, from, to, r)
  PROVE  FailsQuietly(j)
<1>1. \E c : job' = [job EXCEPT ![j] = c]  BY DEF Makes, Fail, End
<1>. QED  BY <1>1, OneRecord DEF Makes, FailsQuietly

\* A step of the preparation.
LEMMA PrepareFails == ASSUME IInv, NEW j \in Job, Prepare(j) PROVE FailsQuietly(j)
<1>1. CASE Begin(j)
  <2>1. \E c : job' = [job EXCEPT ![j] = c]  BY <1>1 DEF Begin
  <2>. QED  BY <1>1, <2>1, OneRecord DEF Begin, FailsQuietly
<1>2. CASE AcquireLock(j)
  <2>1. \E c : job' = [job EXCEPT ![j] = c]  BY <1>2 DEF AcquireLock, Fail, End
  <2>. QED  BY <1>2, <2>1, OneRecord DEF AcquireLock, FailsQuietly
<1>3. CASE SnapshotSource(j)
  <2>1. \E c : job' = [job EXCEPT ![j] = c]  BY <1>3 DEF SnapshotSource, Fail, End
  <2>. QED  BY <1>3, <2>1, OneRecord DEF SnapshotSource, FailsQuietly
<1>4. CASE Probe(j) \/ Connect(j) \/ ReadRequirements(j) \/ PrepareImage(j) \/ RunEngine(j)
           \/ Upload(j) \/ PullAndValidate(j)
  BY <1>4, MakesFails DEF Probe, Connect, ReadRequirements, PrepareImage, RunEngine, Upload,
     PullAndValidate, Passes
<1>5. CASE Resolve(j) \/ BuildRemotely(j)
  BY <1>5, MakesFails DEF Resolve, BuildRemotely
<1>. QED  BY <1>1, <1>2, <1>3, <1>4, <1>5 DEF Prepare

\* A step of the staging.
LEMMA StageFails == ASSUME IInv, NEW j \in Job, Stage(j) PROVE FailsQuietly(j)
<1>1. CASE MaterializeSupervisor(j) \/ BeginLayout(j) \/ CheckSource(j) \/ CompleteBin(j)
  BY <1>1, MakesFails DEF MaterializeSupervisor, BeginLayout, CheckSource, CompleteBin, Passes
<1>2. CASE CompileSource(j) \/ MaterializeOfficials(j) \/ Finalize(j)
  BY <1>2, MakesFails DEF CompileSource, MaterializeOfficials, Finalize
<1>. QED  BY <1>1, <1>2 DEF Stage

\* A step that goes on does not fail.
LEMMA GoesOn ==
  ASSUME IInv, NEW j \in Job, NEW to \in Points, to # "failed", Goto(j, to) \/ Continue(j, to)
  PROVE  Others(j) /\ job'[j].pc # "failed"
<1>1. CASE Goto(j, to)  BY <1>1, GotoEffect DEF IInv, Moved
<1>2. CASE to = "done" /\ End(j, to)  BY <1>2, EndEffect DEF IInv
<1>. QED  BY <1>1, <1>2 DEF Continue

\* A command that fails touches no other.
LEMMA Fails == ASSUME IInv, NEW j \in Job, Fail(j) PROVE Others(j)
BY EndEffect DEF Fail, IInv

\* A step of the publication, but for the swap.
LEMMA PublishFails ==
  ASSUME IInv, NEW j \in Job, Publish(j), ~SwapIn(j)
  PROVE  FailsQuietly(j)
<1>0. {"aside", "swap", "archive", "done"} \subseteq Points
  BY DEF Points, Locked, Copied, Documented, Compiled, Built
<1>1. CASE CopyCandidate(j)  BY <1>1, MakesFails DEF CopyCandidate, Passes
<1>2. CASE ClearPrevious(j)
  BY <1>0, <1>2, GoesOn, Fails DEF ClearPrevious, FailsQuietly
<1>3. CASE SetAside(j)
  <2>1. CASE Fail(j) /\ UNCHANGED disk  BY <1>3, <2>1, Fails DEF SetAside, FailsQuietly
  <2>2. CASE \E was \in BOOLEAN : job' = [job EXCEPT ![j].pc = "swap", ![j].hadPrevious = was]
    <3>. PICK was \in BOOLEAN : job' = [job EXCEPT ![j].pc = "swap", ![j].hadPrevious = was]
      BY <2>2
    <3>1. Others(j)  BY DEF IInv, TypeOK, CommandTypes, Others
    <3>2. job'[j].pc = "swap"  BY DEF IInv, TypeOK, CommandTypes, Command
    <3>. QED  BY <3>1, <3>2 DEF FailsQuietly
  <2>. QED  BY <1>3, <2>1, <2>2 DEF SetAside
<1>4. CASE DropPrevious(j)
  <2>1. AfterPublish(j) \in Points /\ AfterPublish(j) # "failed"  BY <1>0 DEF AfterPublish
  <2>2. CASE Continue(j, AfterPublish(j))  BY <2>1, <2>2, GoesOn DEF FailsQuietly
  <2>3. CASE Fail(j) /\ UNCHANGED disk
    BY <1>4, <2>3, Fails DEF DropPrevious, FailsQuietly
  <2>. QED  BY <1>4, <2>2, <2>3 DEF DropPrevious
<1>5. CASE RemovePart(j)  BY <1>5 DEF RemovePart, FailsQuietly, Others
<1>. QED  BY <1>1, <1>2, <1>3, <1>4, <1>5 DEF Publish

\* A step that leaves .phoxal alone.
LEMMA AwayFails ==
  ASSUME IInv, NEW j \in Job, NEW c, job' = [job EXCEPT ![j] = c], disk' = disk,
         job[j].pc # "swap"
  PROVE  FailsQuietly(j)
BY OneRecord DEF FailsQuietly

\* A step that writes the output.
LEMMA AttestFails == ASSUME IInv, NEW j \in Job, Attest(j) PROVE FailsQuietly(j)
<1>1. \E c : job' = [job EXCEPT ![j] = c]
  BY DEF Attest, OpenArchive, WriteArchive, OpenSidecar, WriteSidecar, CleanupBuild, Writing, Goto,
     Set, Continue, Fail, End
<1>2. disk' = disk /\ job[j].pc # "swap"
  BY DEF Attest, OpenArchive, WriteArchive, OpenSidecar, WriteSidecar, CleanupBuild, Writing
<1>. QED  BY <1>1, <1>2, AwayFails

\* A step of a deploy.
LEMMA ShipFails == ASSUME IInv, NEW j \in Job, Ship(j) PROVE FailsQuietly(j)
<1>1. CASE CreateRemoteTemp(j)  BY <1>1, MakesFails DEF CreateRemoteTemp, Passes
<1>2. CASE LocateArchive(j) \/ StartSending(j) \/ FinishSending(j) \/ SendSidecar(j)
           \/ InstallRemotely(j)
  <2>1. \E c : job' = [job EXCEPT ![j] = c]
    BY <1>2 DEF LocateArchive, StartSending, FinishSending, SendSidecar, InstallRemotely, Goto, Set,
       Fail, End
  <2>2. disk' = disk /\ job[j].pc # "swap"
    BY <1>2 DEF LocateArchive, StartSending, FinishSending, SendSidecar, InstallRemotely
  <2>. QED  BY <2>1, <2>2, AwayFails
<1>. QED  BY <1>1, <1>2 DEF Ship

\* A swap that fails moves the old release back, or leaves it aside.
LEMMA SwapFails ==
  ASSUME IInv, NEW j \in Job, SwapIn(j)
  PROVE  /\ Others(j)
         /\ job'[j].pc = "failed" /\ lock = j /\ ~job[j].swapped =>
              \/ disk'["release"] = job[j].found
              \/ faults' > faults + 1 /\ disk'[Aside(j)] = job[j].found
<1>1. /\ disk \in [Names -> Content] /\ faults \in Nat /\ Aside(j) \in Names
      /\ "release" \in Names /\ Aside(j) # "release"
  BY Asides DEF IInv, TypeOK, FileTypes
<1>2. lock = j /\ ~job[j].swapped =>
        IF job[j].hadPrevious THEN disk[Aside(j)] = job[j].found ELSE disk["release"] = job[j].found
  BY DEF SwapIn, IInv, CommandOK, LockOK, LiveOK
<1>3. CASE job' = [job EXCEPT ![j].pc = "drop", ![j].swapped = TRUE]
  <2>1. Others(j)  BY <1>3 DEF IInv, TypeOK, CommandTypes, Others
  <2>2. job'[j].pc = "drop"  BY <1>3 DEF IInv, TypeOK, CommandTypes, Command
  <2>. QED  BY <2>1, <2>2
<1>4. CASE Fail(j) /\ disk' = IF job[j].hadPrevious
                             THEN [disk EXCEPT !["release"] = disk[Aside(j)], ![Aside(j)] = Absent]
                             ELSE disk
  BY <1>1, <1>2, <1>4, Fails
<1>5. CASE job[j].hadPrevious /\ faults' = faults + 2 /\ Fail(j) /\ disk' = disk
  BY <1>1, <1>2, <1>5, Fails
<1>. QED  BY <1>3, <1>4, <1>5 DEF SwapIn

\* A command that is killed does not fail.
LEMMA KillFails == ASSUME IInv, NEW j \in Job, Kill(j) PROVE FailsQuietly(j)
BY EndEffect DEF Kill, IInv, FailsQuietly

\* A release that was found is live until the swap.
LEMMA FoundIsLive ==
  ASSUME IInv, NEW j \in Job, lock = j, ~job[j].swapped, job[j].pc # "swap"
  PROVE  disk["release"] = job[j].found
BY DEF IInv, CommandOK, LockOK, LiveOK

(***************************************************************************)
(* "A failure anywhere leaves the previous live release untouched", for    *)
(* every step that can fail.                                               *)
(***************************************************************************)
THEOREM FailuresKeepTheRelease == Spec => FailureKeepsTheRelease
<1>. DEFINE Kept(j) == \/ disk'["release"] = job[j].found
                       \/ faults' > faults + 1 /\ disk'[Aside(j)] = job[j].found
            Keeps == \A j \in Job :
              job[j].pc # "failed" /\ job'[j].pc = "failed" /\ lock = j /\ ~job[j].swapped => Kept(j)
<1>1. IInv /\ [Next]_vars => [Keeps]_vars
  <2>. SUFFICES ASSUME IInv, Next, NEW j \in Job, job[j].pc # "failed", job'[j].pc = "failed",
                       lock = j, ~job[j].swapped
                PROVE  Kept(j)
    OBVIOUS
  <2>. HIDE DEF Kept
  <2>1. ASSUME NEW k \in Job, FailsQuietly(k) PROVE Kept(j)
    BY <2>1, FoundIsLive DEF Kept, FailsQuietly, Others
  <2>2. ASSUME NEW k \in Job, SwapIn(k) PROVE Kept(j)
    BY <2>2, SwapFails DEF Kept, Others
  <2>3. ASSUME NEW h \in Halves, Edit(h) PROVE Kept(j)
    BY <2>3 DEF Edit
  <2>4. ASSUME NEW k \in Job,
               Prepare(k) \/ Stage(k) \/ Publish(k) \/ Attest(k) \/ Ship(k) \/ Kill(k)
        PROVE  Kept(j)
    BY <2>1, <2>2, <2>4, PrepareFails, StageFails, PublishFails, AttestFails, ShipFails, KillFails
  <2>5. ASSUME Ended PROVE Kept(j)
    BY <2>5 DEF Ended, vars
  <2>. QED  BY <2>3, <2>4, <2>5 DEF Next
<1>. QED  BY <1>1, Invariant, PTL DEF Spec, FailureKeepsTheRelease
=============================================================================
