------------------------------ MODULE PackageCache ------------------------------
(***************************************************************************)
(* The verified package cache of crates/project/src/registry_package.rs:   *)
(* the directory .phoxal/cache/registry/<package>/<version> of one package,*)
(* shared by the commands of one project without any lock (a validate, a   *)
(* resolution, a build of another terminal).                               *)
(*                                                                         *)
(* The directory holds archives named by their checksum and extraction     *)
(* roots named by the same checksum.  An archive is "good" when its bytes  *)
(* have the checksum of its name.  Downloads and extractions go to private *)
(* temporaries that no reader looks at and reach their names by a rename,  *)
(* so a command that is killed leaves at most such a temporary, and the    *)
(* model keeps no record of it.  The archive limits (sizes, entries, paths)*)
(* are part of what makes an extraction fail.                              *)
(*                                                                         *)
(* The registry is external: its index and its download are two documents  *)
(* that a republication changes one after the other.  Before the first     *)
(* command the directory may hold anything the tests put there: archives   *)
(* that are obsolete, damaged or of another package, and extraction roots  *)
(* that are incomplete.  A root without the marker of its checksum and a   *)
(* manifest of the identity asked for is "partial".                        *)
(***************************************************************************)
EXTENDS FiniteSets, Naturals

CONSTANTS
    Command,      \* the commands that use the package, one process each
    Checksum,     \* checksums
    Misnamed,     \* checksums of archives whose manifest names another package
    Binless,      \* checksums of archives without exactly one driver binary
    MaxChanges,   \* bound: documents the registry republishes
    MaxUnpruned   \* bound: archives whose removal fails

ASSUME ChecksumAssumption == Checksum # {} /\ Misnamed \subseteq Checksum /\ Binless \subseteq Checksum
ASSUME BoundAssumption == MaxChanges \in Nat /\ MaxUnpruned \in Nat

VARIABLES
    index,        \* the checksum that the index of the registry answers
    served,       \* the checksum of the bytes that the download answers
    archive,      \* [Checksum -> what <sum>.crate is]
    root,         \* [Checksum -> what <sum>.root is]
    job,          \* [Command -> where it is, how it was asked, what it resolved]
    answered,     \* history: the checksums the index ever answered
    populated,    \* history: a command fetched the package online
    planted,      \* history: archives of another package there before the first command
    changes, unpruned

vars == <<index, served, archive, root, job, answered, populated, planted, changes, unpruned>>

Steps == {"idle", "index", "entry", "download", "prune", "list", "verify",
          "identity", "fetched", "identified", "root", "extract", "extracted", "publish",
          "source", "done", "failed", "killed"}

Uses == {"manifest", "component"}
Jobs == [pc : Steps, use : Uses, sum : Checksum, todo : SUBSET Checksum]

\* A fetch has answered, online or offline, and its VerifiedPackage is being used.
Resolved(c) ==
    job[c].pc \in {"fetched", "identified", "root", "extract", "extracted", "publish", "source",
                  "done"}

Advance(c, pc, s, todo) ==
    job' = [job EXCEPT ![c] = [pc |-> pc, use |-> job[c].use, sum |-> s, todo |-> todo]]
Goto(c, pc) == job' = [job EXCEPT ![c].pc = pc]

\* What a command knew ends with it.
NoJob(pc) ==
    [pc |-> pc, use |-> "manifest", sum |-> CHOOSE s \in Checksum : TRUE, todo |-> {}]
End(c, pc) == job' = [job EXCEPT ![c] = NoJob(pc)]
Fail(c) == End(c, "failed")

\* The bytes have the checksum that their file is named by.
ChecksumMatches(s) == archive[s] = "good"

\* The manifest in the archive names the package and the version asked for.
HasIdentity(s) == s \notin Misnamed

\* A temporary beside the archive, synced and renamed to its name.
WriteAtomic(s) == archive' = [archive EXCEPT ![s] = "good"]

\* fs::read_dir of the package directory, reduced to its checksum-named archives.
ArchivesPresent == {s \in Checksum : archive[s] # "absent"}

Init ==
    /\ index \in Checksum
    /\ served = index
    /\ archive \in [Checksum -> {"absent", "good", "bad"}]
    /\ root \in [Checksum -> {"absent", "partial"}]
    /\ planted = {s \in Misnamed : archive[s] = "good"}
    /\ job = [c \in Command |-> NoJob("idle")]
    /\ answered = {}
    /\ populated = FALSE
    /\ changes = 0
    /\ unpruned = 0

\* A command asks for the package, with or without --offline.
Begin(c) ==
    /\ job[c].pc = "idle"
    /\ \E use \in Uses, offline \in BOOLEAN :
         job' = [job EXCEPT ![c] = [pc |-> IF offline THEN "list" ELSE "index", use |-> use,
                                    sum |-> job[c].sum, todo |-> {}]]
    /\ UNCHANGED <<index, served, archive, root, answered, populated, planted, changes, unpruned>>

\* The configuration and the index are read; either request may fail.
AskIndex(c) ==
    /\ job[c].pc = "index"
    /\ \/ /\ Advance(c, "entry", index, {})
          /\ answered' = answered \union {index}
       \/ /\ Fail(c)
          /\ UNCHANGED answered
    /\ UNCHANGED <<index, served, archive, root, populated, planted, changes, unpruned>>

\* The janitor lists the directory; when it cannot, it removes nothing.
List(c, s) ==
    \/ /\ Advance(c, "prune", s, ArchivesPresent \ {s})
       /\ UNCHANGED unpruned
    \/ /\ unpruned < MaxUnpruned
       /\ unpruned' = unpruned + 1
       /\ Advance(c, "prune", s, {})

\* An archive of the answered checksum that still has it is used as it is: its
\* bytes are verified, whose they are is not.
CheckEntry(c) ==
    /\ job[c].pc = "entry"
    /\ \/ ChecksumMatches(job[c].sum) /\ List(c, job[c].sum)
       \/ ~ChecksumMatches(job[c].sum) /\ Goto(c, "download") /\ UNCHANGED unpruned
    /\ UNCHANGED <<index, served, archive, root, answered, populated, planted, changes>>

\* The bytes are verified in memory, then renamed to their name: they must have
\* the checksum of the index and the identity that was asked for.
Download(c) ==
    /\ job[c].pc = "download"
    /\ \/ /\ served = job[c].sum
          /\ HasIdentity(served)
          /\ WriteAtomic(served)
          /\ List(c, served)
       \/ /\ Fail(c)
          /\ UNCHANGED <<archive, unpruned>>
    /\ UNCHANGED <<index, served, root, answered, populated, planted, changes>>

\* Mutant of PruneNext: the janitor does not spare the current checksum.
PruneEverything(c) ==
    /\ job[c].pc = "prune"
    /\ \E s \in job[c].todo \union {job[c].sum} :
         /\ Advance(c, IF s = job[c].sum THEN "fetched" ELSE "prune", job[c].sum, job[c].todo \ {s})
         /\ archive' = [archive EXCEPT ![s] = "absent"]
    /\ populated' = (populated \/ job'[c].pc = "fetched")
    /\ UNCHANGED <<index, served, root, answered, planted, changes, unpruned>>

\* prune_obsolete_checksum_archives: every other archive that was listed goes,
\* one removal at a time, and a removal that fails is passed over.
PruneNext(c) ==
    /\ job[c].pc = "prune"
    /\ \/ \E s \in job[c].todo :
            /\ Advance(c, "prune", job[c].sum, job[c].todo \ {s})
            /\ \/ /\ archive' = [archive EXCEPT ![s] = "absent"]
                  /\ UNCHANGED unpruned
               \/ /\ unpruned < MaxUnpruned
                  /\ unpruned' = unpruned + 1
                  /\ UNCHANGED archive
            /\ UNCHANGED populated
       \/ /\ job[c].todo = {}
          /\ Goto(c, "fetched")
          /\ populated' = TRUE
          /\ UNCHANGED <<archive, unpruned>>
    /\ UNCHANGED <<index, served, root, answered, planted, changes>>

\* offline_cached_package: exactly one checksum-named archive...
ListOffline(c) ==
    /\ job[c].pc = "list"
    /\ \/ \E s \in Checksum :
            /\ ArchivesPresent = {s}
            /\ Advance(c, "verify", s, {})
       \/ /\ Cardinality(ArchivesPresent) # 1
          /\ Fail(c)
    /\ UNCHANGED <<index, served, archive, root, answered, populated, planted, changes, unpruned>>

\* ...whose bytes have the checksum of their name...
VerifyOffline(c) ==
    /\ job[c].pc = "verify"
    /\ Goto(c, IF ChecksumMatches(job[c].sum) THEN "identity" ELSE "failed")
    /\ UNCHANGED <<index, served, archive, root, answered, populated, planted, changes, unpruned>>

\* manifest() verifies the identity on every reading.
ManifestReadable(s) == archive[s] # "absent" /\ HasIdentity(s)

\* ...and, read once more, the identity that was asked for.
IdentifyOffline(c) ==
    /\ job[c].pc = "identity"
    /\ Goto(c, IF ManifestReadable(job[c].sum) THEN "identified" ELSE "failed")
    /\ UNCHANGED <<index, served, archive, root, answered, populated, planted, changes, unpruned>>

\* The archive is read again: for the build requirements of a container, and for
\* the one driver binary a registry component must declare.
ReadManifest(c) ==
    /\ job[c].pc \in {"fetched", "identified"}
    /\ \/ /\ ManifestReadable(job[c].sum)
          /\ job[c].use = "manifest"
          /\ Goto(c, "done")
       \/ /\ ManifestReadable(job[c].sum)
          /\ job[c].use = "component"
          /\ Goto(c, IF job[c].sum \in Binless THEN "failed" ELSE "root")
       \/ /\ ~ManifestReadable(job[c].sum)
          /\ Fail(c)
    /\ UNCHANGED <<index, served, archive, root, answered, populated, planted, changes, unpruned>>

\* Mutant of ExtractionIsComplete: a directory of the name is taken for it.
ExtractionExists(s) == root[s] # "absent"

\* The marker of the checksum is there, which an extraction writes last, and a
\* manifest of the identity.
ExtractionIsComplete(s) == root[s] = "complete"

\* extracted_root: a complete extraction is used as it is.
CheckRoot(c) ==
    /\ job[c].pc = "root"
    /\ Goto(c, IF ExtractionIsComplete(job[c].sum) THEN "source" ELSE "extract")
    /\ UNCHANGED <<index, served, archive, root, answered, populated, planted, changes, unpruned>>

\* The archive is opened again and extracted beside the final name, and what was
\* extracted must have the identity; a failure drops the temporary directory.
Extract(c) ==
    /\ job[c].pc = "extract"
    /\ \/ /\ ManifestReadable(job[c].sum)
          /\ Goto(c, "extracted")
       \/ Fail(c)
    /\ UNCHANGED <<index, served, archive, root, answered, populated, planted, changes, unpruned>>

\* A concurrent extraction may have finished; an incomplete root of another time
\* is reported and never replaced.
RecheckRoot(c) ==
    /\ job[c].pc = "extracted"
    /\ Goto(c, CASE ExtractionIsComplete(job[c].sum) -> "source"
                 [] root[job[c].sum] = "partial"     -> "failed"
                 [] OTHER                            -> "publish")
    /\ UNCHANGED <<index, served, archive, root, answered, populated, planted, changes, unpruned>>

\* The rename refuses a directory that is there by now; a complete one is as good.
PublishRoot(c) ==
    /\ job[c].pc = "publish"
    /\ \/ /\ root[job[c].sum] = "absent"
          /\ root' = [root EXCEPT ![job[c].sum] = "complete"]
          /\ Goto(c, "source")
       \/ /\ root[job[c].sum] # "absent"
          /\ Goto(c, IF ExtractionIsComplete(job[c].sum) THEN "source" ELSE "failed")
          /\ UNCHANGED root
    /\ UNCHANGED <<index, served, archive, answered, populated, planted, changes, unpruned>>

\* require_component_driver_source: the archive holds the declared source, or not.
RequireSource(c) ==
    /\ job[c].pc = "source"
    /\ \/ Goto(c, "done")
       \/ Fail(c)
    /\ UNCHANGED <<index, served, archive, root, answered, populated, planted, changes, unpruned>>

Kill(c) ==
    /\ job[c].pc \notin {"idle", "done", "failed", "killed"}
    /\ End(c, "killed")
    /\ UNCHANGED <<index, served, archive, root, answered, populated, planted, changes, unpruned>>

\* External: the registry republishes its index or its download.
Republish ==
    /\ changes < MaxChanges
    /\ changes' = changes + 1
    /\ \E s \in Checksum :
         \/ index' = s /\ UNCHANGED served
         \/ served' = s /\ UNCHANGED index
    /\ UNCHANGED <<archive, root, job, answered, populated, planted, unpruned>>

CommandStep(c) ==
    \/ Begin(c) \/ AskIndex(c) \/ CheckEntry(c) \/ Download(c) \/ PruneNext(c)
    \/ ListOffline(c) \/ VerifyOffline(c) \/ IdentifyOffline(c) \/ ReadManifest(c)
    \/ CheckRoot(c) \/ Extract(c) \/ RecheckRoot(c) \/ PublishRoot(c) \/ RequireSource(c)
    \/ Kill(c)

\* Everything has ended; without it TLC would report the end as a deadlock.
Ended ==
    /\ \A c \in Command : job[c].pc \in {"done", "failed", "killed"}
    /\ UNCHANGED vars

Next == Republish \/ Ended \/ \E c \in Command : CommandStep(c)

Spec == Init /\ [][Next]_vars

TypeOK ==
    /\ index \in Checksum /\ served \in Checksum
    /\ archive \in [Checksum -> {"absent", "good", "bad"}]
    /\ root \in [Checksum -> {"absent", "partial", "complete"}]
    /\ job \in [Command -> Jobs]
    /\ answered \subseteq Checksum
    /\ populated \in BOOLEAN
    /\ planted \subseteq Misnamed
    /\ changes \in 0..MaxChanges
    /\ unpruned \in 0..MaxUnpruned

(***************************************************************************)
(* What a command reads under a checksum it resolved is what the checksum  *)
(* promises, whatever other commands download, prune or extract meanwhile: *)
(* the archive behind a VerifiedPackage has the bytes of its name for as   *)
(* long as it is there.  It is of another package only when an online fetch*)
(* found one in the directory, which asks no identity of it, and then      *)
(* nothing is read from it.  No command writes such an archive, and a root *)
(* that was handed out is a complete extraction and stays one.             *)
(***************************************************************************)
ResolvedIsVerified ==
    /\ \A c \in Command : Resolved(c) =>
         /\ archive[job[c].sum] # "bad"
         /\ ~HasIdentity(job[c].sum) => job[c].pc = "fetched"
         /\ job[c].pc = "source" \/ (job[c].pc = "done" /\ job[c].use = "component")
              => root[job[c].sum] = "complete"
    /\ \A s \in Misnamed :
         archive[s] = "good" => s \in planted

(***************************************************************************)
(* "rerun the same phoxal command without --offline once to populate it"   *)
(* is true: after one online fetch the offline entry is unambiguous and    *)
(* verified, also when commands overlap or are killed, as long as the index*)
(* answered one checksum only and every removal of the janitor worked.     *)
(***************************************************************************)
OfflineAfterOnline ==
    populated /\ unpruned = 0 =>
        \A s \in Checksum : answered = {s} =>
            ArchivesPresent = {s} /\ archive[s] = "good"

=================================================================================
