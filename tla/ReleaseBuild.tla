------------------------------ MODULE ReleaseBuild ------------------------------
(***************************************************************************)
(* How a deployment release comes to .phoxal/release, to build.phoxal and  *)
(* to a device: `phoxal build` with its three builders, the preparation of *)
(* `run` and `start`, and `deploy` from source or of an archive.           *)
(* crates/project/src/build/use_case.rs, run/prepare.rs, stage/publish.rs, *)
(* bundle/archive.rs and cli/src/application/{build,deployment}.rs.        *)
(*                                                                         *)
(* The commands of one project exclude each other by the build lock, but   *)
(* not the operator who edits the tree, not `deploy --build`, which takes  *)
(* no lock, and not a kill, which frees the lock anywhere.                 *)
(*                                                                         *)
(* A release is reduced to the version of the documents its manifest was   *)
(* compiled from, the version of the code its binaries were compiled from, *)
(* and whether the official binaries and the supervisor are in it; which   *)
(* binaries those are is the subject of BundlePlan.  A digest is the       *)
(* release it was computed from.  Candidates have fresh names and nobody   *)
(* reads them, so a candidate is a field of its job, and one that a kill   *)
(* leaves behind is not recorded.  All builds are for one target.          *)
(*                                                                         *)
(* A recursive removal is not one step: a failure or a kill within it      *)
(* leaves a part of the release, and an empty directory counts as absent,  *)
(* since a rename replaces it.                                             *)
(***************************************************************************)
EXTENDS Naturals

CONSTANTS
    Job,        \* the commands, one process each
    NoJob,      \* the lock is free
    None,       \* no document or code yet
    Absent,     \* a name that does not exist
    Torn,       \* a file half written or mixed, a directory partly removed
    MaxEdits,   \* bound: edits of the tree
    MaxFaults   \* bound: renames, removals and writes that fail

Version  == Nat \cup {None}
Releases == [documents : Version, code : Version, officials : BOOLEAN, supervisor : BOOLEAN]

ASSUME BoundAssumption == MaxEdits \in Nat /\ MaxFaults \in Nat
ASSUME NameAssumption ==
    /\ NoJob \notin Job /\ "default" \notin Job
    /\ None \notin Nat
    /\ Absent # Torn
    /\ Torn \notin Releases

VARIABLES
    tree,       \* [Halves -> version], what the operator edits
    disk,       \* [Names -> the release under that name of .phoxal, or a part of one]
    lock,       \* the job that holds the build lock
    output,     \* [Places -> an archive and its digest sidecar]
    job,        \* [Job -> what the command is doing]
    installed,  \* what the device accepted last
    edits, faults

vars == <<tree, disk, lock, output, job, installed, edits, faults>>

Halves == {"documents", "code"}
Names == {"release", ".release.previous", ".target-previous"}
Kinds == {"local", "container", "ssh", "run", "deploy", "ship"}

\* The default output of the builds, and the temporary output of each deploy.
Places == {"default"} \union Job
Place(j) == IF job[j].kind = "deploy" THEN j ELSE "default"

Release(documents, code, officials, supervisor) ==
    [documents |-> documents, code |-> code, officials |-> officials, supervisor |-> supervisor]
Nothing == Release(None, None, FALSE, FALSE)

\* validate_release and validate_runtime_bundle: both halves, complete.
Whole(r) == r.documents # None /\ r.code # None /\ r.officials /\ r.supervisor

\* Builders that work on a frozen snapshot of the tree.
Frozen(j) == job[j].kind \in {"container", "ssh", "deploy"}
OverSsh(j) == job[j].kind \in {"ssh", "deploy"}

\* publish_runtime_layout and publish_staged_root set the old release aside
\* under different names.
Aside(j) == IF Frozen(j) THEN ".target-previous" ELSE ".release.previous"

Begun(kind) ==
    [pc |-> CASE kind \in {"deploy", "ship"} -> "probe" [] OTHER -> "lock",
     kind |-> kind, snapshot |-> [h \in Halves |-> None], made |-> Nothing,
     found |-> Absent, hadPrevious |-> FALSE, swapped |-> FALSE, sent |-> Absent, digest |-> Absent]

Set(j, field, value) == job' = [job EXCEPT ![j][field] = value]
Goto(j, pc) == Set(j, "pc", pc) /\ UNCHANGED lock

\* A command that ends frees the lock it holds; what it knew ends with it.
Over(j, pc) == [Begun("run") EXCEPT !.pc = pc, !.swapped = job[j].swapped]
Unlock(j) == lock' = IF lock = j THEN NoJob ELSE lock
End(j, pc) ==
    /\ job' = [job EXCEPT ![j] = Over(j, pc)]
    /\ Unlock(j)
Fail(j) == End(j, "failed")

\* One of the renames, removals and writes of the project directory fails.
Fault ==
    /\ faults < MaxFaults
    /\ faults' = faults + 1

\* A step that adds to the job's release, or fails and ends the command.
Makes(j, from, to, r) ==
    /\ job[j].pc = from
    /\ \/ /\ job' = [job EXCEPT ![j].pc = to, ![j].made = r]
          /\ UNCHANGED lock
       \/ Fail(j)
    /\ UNCHANGED <<tree, disk, output, installed, edits, faults>>

Passes(j, from, to) == Makes(j, from, to, job[j].made)

Init ==
    /\ tree = [h \in Halves |-> 0]
    /\ disk = [n \in Names |-> Absent]
    /\ lock = NoJob
    /\ output = [p \in Places |-> [archive |-> Absent, sidecar |-> Absent]]
    /\ job = [j \in Job |-> [Begun("run") EXCEPT !.pc = "idle"]]
    /\ installed = Absent
    /\ edits = 0
    /\ faults = 0

\* The operator saves a document or a source file.
Edit(h) ==
    /\ edits < MaxEdits
    /\ edits' = edits + 1
    /\ tree' = [tree EXCEPT ![h] = edits + 1]
    /\ UNCHANGED <<disk, lock, output, job, installed, faults>>

Begin(j) ==
    /\ job[j].pc = "idle"
    /\ \E kind \in Kinds : job' = [job EXCEPT ![j] = Begun(kind)]
    /\ UNCHANGED <<tree, disk, lock, output, installed, edits, faults>>

\* require_remote_installer, before anything is locked or built.
Probe(j) == Passes(j, "probe", IF job[j].kind = "deploy" THEN "lock" ELSE "temp")

\* ProjectLock::acquire does not wait.  The operations that publish then refuse
\* while an execution is live, which is part of SessionLifecycle.
AcquireLock(j) ==
    /\ job[j].pc = "lock"
    /\ \/ /\ lock = NoJob
          /\ lock' = j
          /\ job' = [job EXCEPT ![j].found = disk["release"],
                                ![j].pc = CASE job[j].kind = "container" -> "snapshot"
                                            [] OverSsh(j)               -> "connect"
                                            [] OTHER                    -> "resolve"]
       \/ Fail(j)
    /\ UNCHANGED <<tree, disk, output, installed, edits, faults>>

\* build_ssh: the remote phoxal, its target and its temporary directory.
Connect(j) == Passes(j, "connect", "snapshot")

\* snapshot_source copies file by file while the operator may go on editing;
\* a submodule or a link out of the project is refused.
SnapshotSource(j) ==
    /\ job[j].pc = "snapshot"
    /\ \/ /\ \E h \in Halves :
               /\ job[j].snapshot[h] = None
               /\ job' = [job EXCEPT ![j].snapshot[h] = tree[h],
                                     ![j].pc = IF \A o \in Halves \ {h} : job[j].snapshot[o] # None
                                               THEN IF OverSsh(j) THEN "upload" ELSE "resolve"
                                               ELSE "snapshot"]
          /\ UNCHANGED lock
       \/ Fail(j)
    /\ UNCHANGED <<tree, disk, output, installed, edits, faults>>

\* The tree that a job compiles a half from.
Source(j, h) == IF Frozen(j) THEN job[j].snapshot[h] ELSE tree[h]

\* resolve_staging: the documents are compiled, once.  A container build refuses
\* a snapshot without Cargo.lock first.
Resolve(j) ==
    Makes(j, "resolve", IF job[j].kind = "container" THEN "requirements" ELSE "supervisor",
          Release(Source(j, "documents"), None, FALSE, FALSE))

\* compile_in_container: the requirements of the selected packages, the builder
\* image, and the engine that compiles the snapshot and installs the officials.
ReadRequirements(j) == Passes(j, "requirements", "image")
PrepareImage(j) == Passes(j, "image", "engine")
RunEngine(j) == Passes(j, "engine", "supervisor")

\* refresh_staging_resolved, against a candidate that nobody executes from.
MaterializeSupervisor(j) == Passes(j, "supervisor", "candidate")
BeginLayout(j) == Passes(j, "candidate", "compile")

\* Mutant of CompileSource: a container build stages what the tree holds by now.
CompileLiveSource(j) ==
    Makes(j, "compile", "officials",
          Release(job[j].made.documents, tree["code"], FALSE, FALSE))

\* build_selected_source_artifacts: cargo in the live tree, or the binaries that
\* the engine compiled from the snapshot.
CompileSource(j) ==
    Makes(j, "compile", "officials",
          Release(job[j].made.documents, Source(j, "code"), FALSE, FALSE))

MaterializeOfficials(j) ==
    Makes(j, "officials", IF job[j].kind = "run" THEN "check" ELSE "bin",
          Release(job[j].made.documents, job[j].made.code, TRUE, FALSE))

\* Only run and start check the source graph; the builds validate what is staged.
CheckSource(j) == Passes(j, "check", "bin")

\* stage_complete_bin_store and write_manifest_document.
CompleteBin(j) == Passes(j, "bin", "finalize")

\* finalize_release packages the supervisor into the candidate.  A container
\* build publishes it inside its snapshot, which it copies from next.
Finalize(j) ==
    Makes(j, "finalize", IF Frozen(j) THEN "copy" ELSE "clear",
          Release(job[j].made.documents, job[j].made.code, TRUE, TRUE))

\* upload_source_payload.
Upload(j) == Passes(j, "upload", "remote")

\* The remote phoxal runs the local pipeline on the uploaded snapshot.
BuildRemotely(j) ==
    Makes(j, "remote", "pull",
          Release(job[j].snapshot["documents"], job[j].snapshot["code"], TRUE, TRUE))

\* The archive is copied back, extracted and validated; deploy does not publish.
PullAndValidate(j) == Passes(j, "pull", IF job[j].kind = "deploy" THEN "archive" ELSE "copy")

\* publish_staged_root copies what was staged outside into a candidate.
CopyCandidate(j) == Passes(j, "copy", "clear")

\* remove_dir_all deletes file by file what is aside, before the swap and after it.
RemovePart(j) ==
    /\ job[j].pc \in {"clear", "drop"}
    /\ disk[Aside(j)] \notin {Absent, Torn}
    /\ disk' = [disk EXCEPT ![Aside(j)] = Torn]
    /\ UNCHANGED <<tree, lock, output, job, installed, edits, faults>>

\* Mutant of ClearPrevious: both publishers clear the name of the first.
ClearReleasePrevious(j) ==
    /\ job[j].pc = "clear"
    /\ disk' = [disk EXCEPT ![".release.previous"] = Absent]
    /\ Goto(j, "aside")
    /\ UNCHANGED <<tree, output, installed, edits, faults>>

\* What an earlier command left aside goes first: a failure, which leaves it or a
\* part of it, ends publish_runtime_layout, and publish_staged_root passes it over.
ClearPrevious(j) ==
    /\ job[j].pc = "clear"
    /\ \/ /\ disk' = [disk EXCEPT ![Aside(j)] = Absent]
          /\ Goto(j, "aside")
          /\ UNCHANGED faults
       \/ /\ disk[Aside(j)] # Absent
          /\ Fault
          /\ IF Frozen(j) THEN Goto(j, "aside") ELSE Fail(j)
          /\ UNCHANGED disk
    /\ UNCHANGED <<tree, output, installed, edits>>

\* The live release is renamed away; a rename does not replace a directory that
\* holds anything.
SetAside(j) ==
    /\ job[j].pc = "aside"
    /\ \/ /\ disk["release"] = Absent
          /\ job' = [job EXCEPT ![j].pc = "swap", ![j].hadPrevious = FALSE]
          /\ UNCHANGED <<disk, lock, faults>>
       \/ /\ disk["release"] # Absent
          /\ disk[Aside(j)] = Absent
          /\ disk' = [disk EXCEPT ![Aside(j)] = disk["release"], !["release"] = Absent]
          /\ job' = [job EXCEPT ![j].pc = "swap", ![j].hadPrevious = TRUE]
          /\ UNCHANGED <<lock, faults>>
       \/ /\ disk["release"] # Absent
          /\ disk[Aside(j)] = Absent
          /\ Fault
          /\ Fail(j)
          /\ UNCHANGED disk
       \/ /\ disk["release"] # Absent
          /\ disk[Aside(j)] # Absent
          /\ Fail(j)
          /\ UNCHANGED <<disk, faults>>
    /\ UNCHANGED <<tree, output, installed, edits>>

\* Mutant of SwapIn: the old release is not moved back.
SwapInOrLeave(j) ==
    /\ job[j].pc = "swap"
    /\ \/ /\ disk' = [disk EXCEPT !["release"] = job[j].made]
          /\ job' = [job EXCEPT ![j].pc = "drop", ![j].swapped = TRUE]
          /\ UNCHANGED <<lock, faults>>
       \/ Fault /\ Fail(j) /\ UNCHANGED disk
    /\ UNCHANGED <<tree, output, installed, edits>>

\* The candidate takes the name.  If it cannot, the old release is moved back,
\* and whether that worked is not looked at.
SwapIn(j) ==
    /\ job[j].pc = "swap"
    /\ \/ /\ disk' = [disk EXCEPT !["release"] = job[j].made]
          /\ job' = [job EXCEPT ![j].pc = "drop", ![j].swapped = TRUE]
          /\ UNCHANGED <<lock, faults>>
       \/ /\ Fault
          /\ Fail(j)
          /\ disk' = IF job[j].hadPrevious
                     THEN [disk EXCEPT !["release"] = disk[Aside(j)], ![Aside(j)] = Absent]
                     ELSE disk
       \/ /\ job[j].hadPrevious
          /\ faults + 2 <= MaxFaults
          /\ faults' = faults + 2
          /\ Fail(j)
          /\ UNCHANGED disk
    /\ UNCHANGED <<tree, output, installed, edits>>

AfterPublish(j) == IF job[j].kind = "run" THEN "done" ELSE "archive"
Continue(j, pc) == IF pc = "done" THEN End(j, pc) ELSE Goto(j, pc)

\* What is aside is removed: a failure of publish_runtime_layout here, which leaves
\* it or a part of it, fails the command although its release is live.
DropPrevious(j) ==
    /\ job[j].pc = "drop"
    /\ \/ /\ disk' = [disk EXCEPT ![Aside(j)] = Absent]
          /\ Continue(j, AfterPublish(j))
          /\ UNCHANGED faults
       \/ /\ disk[Aside(j)] # Absent
          /\ Fault
          /\ IF Frozen(j) THEN Continue(j, AfterPublish(j)) ELSE Fail(j)
          /\ UNCHANGED disk
    /\ UNCHANGED <<tree, output, installed, edits>>

\* write_build_archive packs the published root; build_ssh copies what it pulled.
Archived(j) == IF OverSsh(j) THEN job[j].made ELSE disk["release"]

\* fs::write truncates the file and writes it, and then the same for the sidecar.
Writing(j, file, from, to, content) ==
    /\ job[j].pc = from
    /\ \/ /\ output' = [output EXCEPT ![Place(j)][file] = content]
          /\ \/ Goto(j, to) /\ UNCHANGED faults
             \/ Fault /\ Fail(j)
       \/ Fault /\ Fail(j) /\ UNCHANGED output
    /\ UNCHANGED <<tree, disk, installed, edits>>

OpenArchive(j) == Writing(j, "archive", "archive", "packing", Torn)
WriteArchive(j) ==
    /\ job[j].pc = "packing"
    /\ output' = [output EXCEPT ![Place(j)]["archive"] = Archived(j)]
    /\ Goto(j, "attest")
    /\ UNCHANGED <<tree, disk, installed, edits, faults>>
OpenSidecar(j) == Writing(j, "sidecar", "attest", "attesting", Torn)

\* The digest is of what the archive holds.
WriteSidecar(j) ==
    /\ job[j].pc = "attesting"
    /\ output' = [output EXCEPT ![Place(j)]["sidecar"] = output[Place(j)]["archive"]]
    /\ Continue(j, IF OverSsh(j) THEN "cleanup" ELSE "done")
    /\ UNCHANGED <<tree, disk, installed, edits, faults>>

\* cleanup_remote_temp, whose failure fails a build that is complete; a deploy
\* gives up the lock and sends what it built.
CleanupBuild(j) ==
    /\ job[j].pc = "cleanup"
    /\ \/ /\ job[j].kind = "deploy"
          /\ Set(j, "pc", "temp")
          /\ Unlock(j)
       \/ job[j].kind = "ssh" /\ End(j, "done")
       \/ Fail(j)
    /\ UNCHANGED <<tree, disk, output, installed, edits, faults>>

\* deploy_archive: a remote temporary; then the archive and its sidecar must be
\* files.
CreateRemoteTemp(j) == Passes(j, "temp", "locate")
LocateArchive(j) ==
    /\ job[j].pc = "locate"
    /\ \/ /\ output[Place(j)].archive # Absent
          /\ output[Place(j)].sidecar # Absent
          /\ Goto(j, "send")
       \/ Fail(j)
    /\ UNCHANGED <<tree, disk, output, installed, edits, faults>>

\* scp reads the archive while another command may rewrite it.
StartSending(j) ==
    /\ job[j].pc = "send"
    /\ job' = [job EXCEPT ![j].pc = "sending", ![j].sent = output[Place(j)].archive]
    /\ UNCHANGED <<tree, disk, lock, output, installed, edits, faults>>

FinishSending(j) ==
    /\ job[j].pc = "sending"
    /\ \/ /\ job' = [job EXCEPT ![j].pc = "vouch",
                                ![j].sent = IF output[Place(j)].archive = job[j].sent
                                            THEN job[j].sent ELSE Torn]
          /\ UNCHANGED lock
       \/ Fail(j)
    /\ UNCHANGED <<tree, disk, output, installed, edits, faults>>

SendSidecar(j) ==
    /\ job[j].pc = "vouch"
    /\ \/ /\ job' = [job EXCEPT ![j].pc = "install", ![j].digest = output[Place(j)].sidecar]
          /\ UNCHANGED lock
       \/ Fail(j)
    /\ UNCHANGED <<tree, disk, output, installed, edits, faults>>

\* Mutant of Verified: a digest that arrived is enough.
VouchedFor(j) == job[j].digest # Torn

\* verify_against_digest_sidecar, on the device.
Verified(j) == job[j].digest # Torn /\ job[j].digest = job[j].sent

\* The remote installer refuses a copy its digest does not vouch for; what it
\* does with one it accepts is the subject of Installation.
InstallRemotely(j) ==
    /\ job[j].pc = "install"
    /\ \/ /\ Verified(j)
          /\ installed' = job[j].sent
          /\ \E pc \in {"done", "failed"} : End(j, pc)
       \/ Fail(j) /\ UNCHANGED installed
    /\ UNCHANGED <<tree, disk, output, edits, faults>>

Kill(j) ==
    /\ job[j].pc \notin {"idle", "done", "failed", "killed"}
    /\ End(j, "killed")
    /\ UNCHANGED <<tree, disk, output, installed, edits, faults>>

Prepare(j) ==
    \/ Begin(j) \/ Probe(j) \/ AcquireLock(j) \/ Connect(j) \/ SnapshotSource(j) \/ Resolve(j)
    \/ ReadRequirements(j) \/ PrepareImage(j) \/ RunEngine(j) \/ Upload(j) \/ BuildRemotely(j)
    \/ PullAndValidate(j)
Stage(j) ==
    \/ MaterializeSupervisor(j) \/ BeginLayout(j) \/ CompileSource(j) \/ MaterializeOfficials(j)
    \/ CheckSource(j) \/ CompleteBin(j) \/ Finalize(j)
Publish(j) ==
    \/ CopyCandidate(j) \/ RemovePart(j) \/ ClearPrevious(j) \/ SetAside(j) \/ SwapIn(j)
    \/ DropPrevious(j)
Attest(j) ==
    OpenArchive(j) \/ WriteArchive(j) \/ OpenSidecar(j) \/ WriteSidecar(j) \/ CleanupBuild(j)
Ship(j) ==
    \/ CreateRemoteTemp(j) \/ LocateArchive(j) \/ StartSending(j) \/ FinishSending(j)
    \/ SendSidecar(j) \/ InstallRemotely(j)

\* Everything has ended; without it TLC would report the end as a deadlock.
Ended ==
    /\ \A j \in Job : job[j].pc \in {"done", "failed", "killed"}
    /\ UNCHANGED vars

Next ==
    \/ \E h \in Halves : Edit(h)
    \/ \E j \in Job : Prepare(j) \/ Stage(j) \/ Publish(j) \/ Attest(j) \/ Ship(j) \/ Kill(j)
    \/ Ended

Spec == Init /\ [][Next]_vars

(***************************************************************************)
(* "A published release always has both halves": whatever was killed or    *)
(* failed before, the live release is complete, never a half-removed one   *)
(* that was moved back, and one that a builder made from a snapshot pairs  *)
(* the documents and the code of that snapshot, however the operator edits *)
(* the tree meanwhile.  A release that is aside is complete until its      *)
(* removal begins; a removal that is cut short leaves a part of it.        *)
(***************************************************************************)
PublishedIsWhole ==
    /\ disk["release"] # Torn
    /\ \A n \in Names : disk[n] \notin {Absent, Torn} => Whole(disk[n])
    /\ \A j \in Job :
         Frozen(j) /\ job[j].swapped /\ lock = j =>
             \A h \in Halves : disk["release"][h] = job[j].snapshot[h]

(***************************************************************************)
(* "A failure anywhere leaves the previous live release untouched": a      *)
(* command that fails before its release is live leaves the one it found,  *)
(* in place, or aside if moving it back failed as well.                    *)
(***************************************************************************)
FailureKeepsTheRelease ==
    [][\A j \in Job :
         job[j].pc # "failed" /\ job'[j].pc = "failed" /\ lock = j /\ ~job[j].swapped =>
             \/ disk'["release"] = job[j].found
             \/ faults' > faults + 1 /\ disk'[Aside(j)] = job[j].found]_vars

(***************************************************************************)
(* What an earlier command left behind never blocks a publication: the     *)
(* name that the live release is set aside under is free by then, unless   *)
(* the file system refused a removal.                                      *)
(***************************************************************************)
LeftoversNeverBlock ==
    \A j \in Job :
        job[j].pc = "aside" /\ disk["release"] # Absent /\ faults = 0 => disk[Aside(j)] = Absent

(***************************************************************************)
(* A device only accepts a whole release, although a deploy of an archive  *)
(* takes no lock and reads the two files while a build may rewrite them,   *)
(* and a build may be killed between them; and what it accepted from a     *)
(* deploy of the source is the build of that deploy.                       *)
(***************************************************************************)
AcceptedIsWhole ==
    /\ installed # Absent => installed # Torn /\ Whole(installed)
    /\ \A j \in Job :
         job[j].kind = "deploy" /\ job[j].pc = "install" /\ Verified(j) =>
             job[j].sent = job[j].made

=================================================================================
