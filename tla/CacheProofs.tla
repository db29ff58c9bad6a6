------------------------------ MODULE CacheProofs ------------------------------
(***************************************************************************)
(* Proofs about the two caches of the command line: the packages of the    *)
(* registry that a project keeps (PackageCache), and the rows of the       *)
(* supervisor's log that an attachment keeps (LogFeed).  Neither part uses *)
(* the other.                                                              *)
(***************************************************************************)
EXTENDS PackageCache, LogFeed, TLAPS, WellFoundedInduction

(***************************************************************************)
(* The package cache, for every set of commands, checksums and packages    *)
(* and every bound.  What is proved needs four facts besides the           *)
(* properties themselves: no command writes an archive of another identity,*)
(* a command that has read a manifest resolved an archive of its own       *)
(* identity, one between its listing and its answer holds a verified       *)
(* archive, and the janitor still owes the removal of every other archive. *)
(***************************************************************************)
\* An archive of another identity was there before the first command: a download
\* of one is refused before it is written.
MisnamedPlanted == \A s \in Misnamed : archive[s] = "good" => s \in planted

\* A command that verified an archive keeps a verified one, or none.
VerifiedArchive ==
    \A c \in Command : job[c].pc \in {"prune", "identity"} \/ Resolved(c) =>
        archive[job[c].sum] # "bad"

\* Only an online fetch that has not read its manifest yet has what is not of the
\* identity that was asked for.
ResolvedIdentity ==
    \A c \in Command : Resolved(c) /\ job[c].pc # "fetched" => job[c].sum \notin Misnamed

\* A root that was handed out is a complete extraction.
HandedOutRoot ==
    \A c \in Command :
        job[c].pc = "source" \/ (job[c].pc = "done" /\ job[c].use = "component")
            => root[job[c].sum] = "complete"

\* An online fetch works with a checksum that the index answered and never
\* lists its own archive for removal.
OwnArchiveSpared ==
    \A c \in Command :
        job[c].pc \in {"entry", "download", "prune"} =>
            job[c].sum \in answered /\ job[c].sum \notin job[c].todo

\* An online fetch has an answer of the index.
AnsweredFirst == populated => answered # {}

\* While the index gave one answer, a janitor at work is all that keeps other
\* archives in the directory.
JanitorOwes ==
    unpruned = 0 => \A s \in Checksum : answered = {s} =>
        \A c \in Command : job[c].pc = "prune" =>
            archive[s] = "good" /\ ArchivesPresent \subseteq {s} \union job[c].todo

IInv ==
    /\ TypeOK
    /\ MisnamedPlanted
    /\ VerifiedArchive
    /\ ResolvedIdentity
    /\ HandedOutRoot
    /\ OwnArchiveSpared
    /\ AnsweredFirst
    /\ JanitorOwes
    /\ OfflineAfterOnline


\* The three ways a command moves on keep its record well typed.
LEMMA JobMoves ==
    ASSUME job \in [Command -> Jobs], NEW c \in Command, NEW pc \in Steps
    PROVE  /\ Goto(c, pc) => job' \in [Command -> Jobs]
           /\ End(c, pc) => job' \in [Command -> Jobs]
           /\ \A s \in Checksum, todo \in SUBSET Checksum :
                 Advance(c, pc, s, todo) => job' \in [Command -> Jobs]
<1>1. NoJob(pc) \in Jobs
    BY ChecksumAssumption DEF NoJob, Jobs, Uses
<1>2. Goto(c, pc) => job' \in [Command -> Jobs]
    BY DEF Goto, Jobs
<1>3. End(c, pc) => job' \in [Command -> Jobs]
    BY <1>1 DEF End
<1>4. ASSUME NEW s \in Checksum, NEW todo \in SUBSET Checksum, Advance(c, pc, s, todo)
      PROVE  job' \in [Command -> Jobs]
    BY <1>4 DEF Advance, Jobs
<1> QED
    BY <1>2, <1>3, <1>4

\* No command has begun, and what the cache holds is of the sets of the type.
LEMMA TypeOKInitially == Init => TypeOK
<1> SUFFICES ASSUME Init PROVE TypeOK
    OBVIOUS
<1>1. NoJob("idle") \in Jobs
    BY ChecksumAssumption DEF NoJob, Jobs, Uses, Steps
<1>2. job \in [Command -> Jobs]
    BY <1>1 DEF Init
<1>3. root \in [Checksum -> {"absent", "partial", "complete"}]
    BY DEF Init
<1>4. archive \in [Checksum -> {"absent", "good", "bad"}]
    BY DEF Init
<1>5. index \in Checksum /\ served \in Checksum
    BY DEF Init
<1>6. answered \subseteq Checksum /\ populated \in BOOLEAN
    BY DEF Init
<1>7. changes \in 0..MaxChanges /\ unpruned \in 0..MaxUnpruned
    BY BoundAssumption DEF Init
<1>8. planted \subseteq Misnamed
    BY DEF Init
<1> QED
    BY <1>2, <1>3, <1>4, <1>5, <1>6, <1>7, <1>8 DEF TypeOK

\* No step of a command, of the registry or of a kill leaves those sets.
LEMMA TypeOKPreserved == TypeOK /\ [Next]_vars => TypeOK'
<1> SUFFICES ASSUME TypeOK, [Next]_vars PROVE TypeOK'
    OBVIOUS
<1>s. ArchivesPresent \in SUBSET Checksum
    BY DEF ArchivesPresent
<1>w. /\ job \in [Command -> Jobs]
      /\ \A c \in Command : job[c].pc \in Steps /\ job[c].sum \in Checksum /\ job[c].todo \in SUBSET Checksum
      /\ index \in Checksum /\ served \in Checksum
    BY DEF TypeOK, Jobs
<1>k. {"idle", "index", "entry", "download", "prune", "list", "verify", "identity", "fetched",
       "identified", "root", "extract", "extracted", "publish", "source", "done", "failed", "killed"} = Steps
    BY DEF Steps
<1>Begin. ASSUME NEW c \in Command, Begin(c) PROVE TypeOK'
    BY <1>Begin DEF Begin, TypeOK, Jobs, Steps, Uses
<1>AskIndex. ASSUME NEW c \in Command, AskIndex(c) PROVE TypeOK'
  <2>1. job' \in [Command -> Jobs]
    <3>1. CASE Advance(c, "entry", index, {})
      BY <3>1, <1>k, <1>w, JobMoves
    <3>2. CASE End(c, "failed")
      BY <3>2, <1>k, <1>w, JobMoves
    <3> QED
      BY <1>AskIndex, <3>1, <3>2 DEF AskIndex, Fail
  <2> QED
    BY <1>AskIndex, <2>1 DEF AskIndex, TypeOK
<1>List. ASSUME NEW c \in Command, NEW s \in Checksum, List(c, s)
         PROVE  job' \in [Command -> Jobs] /\ unpruned' \in 0..MaxUnpruned
  <2>1. /\ ArchivesPresent \ {s} \in SUBSET Checksum /\ {} \in SUBSET Checksum
        /\ unpruned \in 0..MaxUnpruned
    BY <1>s DEF TypeOK
  <2>2. CASE Advance(c, "prune", s, ArchivesPresent \ {s}) /\ UNCHANGED unpruned
    BY <2>1, <2>2, <1>w, <1>k, JobMoves
  <2>3. CASE unpruned < MaxUnpruned /\ unpruned' = unpruned + 1 /\ Advance(c, "prune", s, {})
    <3>1. job' \in [Command -> Jobs]
      BY <2>1, <2>3, <1>w, <1>k, JobMoves
    <3> QED
      BY <2>1, <2>3, <3>1, BoundAssumption
  <2> QED
    BY <1>List, <2>2, <2>3 DEF List
<1>CheckEntry. ASSUME NEW c \in Command, CheckEntry(c) PROVE TypeOK'
  <2>1. job' \in [Command -> Jobs] /\ unpruned' \in 0..MaxUnpruned
    <3>1. CASE List(c, job[c].sum)
      BY <3>1, <1>List, <1>w
    <3>2. CASE Goto(c, "download") /\ UNCHANGED unpruned
      BY <3>2, <1>w, <1>k, JobMoves DEF TypeOK
    <3> QED
      BY <1>CheckEntry, <3>1, <3>2 DEF CheckEntry
  <2>2. UNCHANGED <<index, served, archive, root, answered, populated, planted, changes>>
    BY <1>CheckEntry DEF CheckEntry
  <2> QED
    BY <2>1, <2>2 DEF TypeOK
<1>Download. ASSUME NEW c \in Command, Download(c) PROVE TypeOK'
  <2>1. job' \in [Command -> Jobs] /\ unpruned' \in 0..MaxUnpruned
    <3>1. CASE List(c, served)
      BY <3>1, <1>List, <1>w
    <3>2. CASE Fail(c) /\ UNCHANGED unpruned
      BY <3>2, <1>w, <1>k, JobMoves DEF Fail, TypeOK
    <3> QED
      BY <1>Download, <3>1, <3>2 DEF Download
  <2>2. archive' \in [Checksum -> {"absent", "good", "bad"}]
    BY <1>Download DEF Download, WriteAtomic, TypeOK
  <2>3. UNCHANGED <<index, served, root, answered, populated, planted, changes>>
    BY <1>Download DEF Download
  <2> QED
    BY <2>1, <2>2, <2>3 DEF TypeOK
<1>PruneNext. ASSUME NEW c \in Command, PruneNext(c) PROVE TypeOK'
  <2>w. job[c].sum \in Checksum /\ \A s \in job[c].todo : s \in Checksum /\ job[c].todo \ {s} \in SUBSET Checksum
    BY <1>w
  <2>1. job' \in [Command -> Jobs]
    <3>1. ASSUME NEW s \in job[c].todo, Advance(c, "prune", job[c].sum, job[c].todo \ {s})
          PROVE  job' \in [Command -> Jobs]
      BY <3>1, <2>w, <1>w, <1>k, JobMoves
    <3>2. ASSUME Goto(c, "fetched") PROVE job' \in [Command -> Jobs]
      BY <3>2, <1>w, <1>k, JobMoves
    <3> QED
      BY <1>PruneNext, <3>1, <3>2 DEF PruneNext
  <2>2. archive' \in [Checksum -> {"absent", "good", "bad"}]
    BY <1>PruneNext DEF PruneNext, TypeOK
  <2>3. unpruned' \in 0..MaxUnpruned
    <3>1. unpruned' = unpruned \/ (unpruned < MaxUnpruned /\ unpruned' = unpruned + 1)
      BY <1>PruneNext DEF PruneNext
    <3>2. unpruned \in 0..MaxUnpruned
      BY DEF TypeOK
    <3> QED
      BY <3>1, <3>2, BoundAssumption
  <2>5. populated' \in BOOLEAN
    BY <1>PruneNext, Zenon DEF PruneNext, TypeOK
  <2>4. UNCHANGED <<index, served, root, answered, planted, changes>>
    BY <1>PruneNext DEF PruneNext
  <2> QED
    BY <2>1, <2>2, <2>3, <2>4, <2>5 DEF TypeOK
<1>ListOffline. ASSUME NEW c \in Command, ListOffline(c) PROVE TypeOK'
  <2>1. job' \in [Command -> Jobs]
    BY <1>ListOffline, <1>s, <1>k, <1>w, JobMoves DEF ListOffline, Fail
  <2> QED
    BY <1>ListOffline, <2>1 DEF ListOffline, TypeOK
<1>VerifyOffline. ASSUME NEW c \in Command, VerifyOffline(c) PROVE TypeOK'
  <2>1. job' \in [Command -> Jobs]
    BY <1>VerifyOffline, <1>s, <1>k, <1>w, JobMoves DEF VerifyOffline, Fail, ChecksumMatches, HasIdentity, WriteAtomic
  <2> QED
    BY <1>VerifyOffline, <2>1 DEF VerifyOffline, TypeOK
<1>IdentifyOffline. ASSUME NEW c \in Command, IdentifyOffline(c) PROVE TypeOK'
  <2>1. job' \in [Command -> Jobs]
    BY <1>IdentifyOffline, <1>s, <1>k, <1>w, JobMoves DEF IdentifyOffline, ManifestReadable
  <2> QED
    BY <1>IdentifyOffline, <2>1 DEF IdentifyOffline, TypeOK
<1>ReadManifest. ASSUME NEW c \in Command, ReadManifest(c) PROVE TypeOK'
  <2>1. job' \in [Command -> Jobs]
    BY <1>ReadManifest, <1>s, <1>k, <1>w, JobMoves DEF ReadManifest, Fail
  <2> QED
    BY <1>ReadManifest, <2>1 DEF ReadManifest, TypeOK
<1>CheckRoot. ASSUME NEW c \in Command, CheckRoot(c) PROVE TypeOK'
  <2>1. job' \in [Command -> Jobs]
    BY <1>CheckRoot, <1>s, <1>k, <1>w, JobMoves DEF CheckRoot, Fail
  <2> QED
    BY <1>CheckRoot, <2>1 DEF CheckRoot, TypeOK
<1>Extract. ASSUME NEW c \in Command, Extract(c) PROVE TypeOK'
  <2>1. job' \in [Command -> Jobs]
    BY <1>Extract, <1>s, <1>k, <1>w, JobMoves DEF Extract, Fail
  <2> QED
    BY <1>Extract, <2>1 DEF Extract, TypeOK
<1>RecheckRoot. ASSUME NEW c \in Command, RecheckRoot(c) PROVE TypeOK'
  <2>1. job' \in [Command -> Jobs]
    BY <1>RecheckRoot, <1>s, <1>k, <1>w, JobMoves DEF RecheckRoot, Fail
  <2> QED
    BY <1>RecheckRoot, <2>1 DEF RecheckRoot, TypeOK
<1>PublishRoot. ASSUME NEW c \in Command, PublishRoot(c) PROVE TypeOK'
  <2>1. job' \in [Command -> Jobs]
    BY <1>PublishRoot, <1>s, <1>k, <1>w, JobMoves DEF PublishRoot, Fail
  <2> QED
    BY <1>PublishRoot, <2>1 DEF PublishRoot, TypeOK
<1>RequireSource. ASSUME NEW c \in Command, RequireSource(c) PROVE TypeOK'
  <2>1. job' \in [Command -> Jobs]
    BY <1>RequireSource, <1>s, <1>k, <1>w, JobMoves DEF RequireSource, Fail
  <2> QED
    BY <1>RequireSource, <2>1 DEF RequireSource, TypeOK
<1>Kill. ASSUME NEW c \in Command, Kill(c) PROVE TypeOK'
  <2>1. job' \in [Command -> Jobs]
    BY <1>Kill, <1>s, <1>k, <1>w, JobMoves DEF Kill, Fail
  <2> QED
    BY <1>Kill, <2>1 DEF Kill, TypeOK
<1>Republish. CASE Republish
    BY <1>Republish, BoundAssumption DEF Republish, TypeOK
<1>stutter. CASE UNCHANGED vars
    BY <1>stutter DEF vars, TypeOK
<1> QED
    BY <1>Begin, <1>AskIndex, <1>CheckEntry, <1>Download, <1>PruneNext, <1>ListOffline, <1>VerifyOffline, <1>IdentifyOffline, <1>ReadManifest, <1>CheckRoot, <1>Extract, <1>RecheckRoot, <1>PublishRoot, <1>RequireSource, <1>Kill,
       <1>Republish, <1>stutter DEF Next, CommandStep, Ended

\* Init: nothing is resolved and nothing was answered.
LEMMA IInvInitially == Init => IInv
<1> SUFFICES ASSUME Init PROVE IInv
    OBVIOUS
<1>1. TypeOK
    BY TypeOKInitially
<1>2. \A c \in Command : job[c].pc = "idle"
    BY DEF Init, NoJob
<1>3. MisnamedPlanted /\ ~populated
    BY ChecksumAssumption DEF Init, MisnamedPlanted
<1>4. VerifiedArchive /\ ResolvedIdentity /\ HandedOutRoot
    BY <1>2 DEF VerifiedArchive, ResolvedIdentity, HandedOutRoot, Resolved
<1>5. OwnArchiveSpared /\ JanitorOwes
    BY <1>2 DEF OwnArchiveSpared, JanitorOwes
<1> QED
    BY <1>1, <1>3, <1>4, <1>5 DEF IInv, OfflineAfterOnline, AnsweredFirst

\* No step puts an archive of another identity into the cache.
LEMMA MisnamedPlantedPreserved == IInv /\ [Next]_vars => MisnamedPlanted'
<1> SUFFICES ASSUME IInv, [Next]_vars PROVE MisnamedPlanted'
    OBVIOUS
<1> USE DEF Goto, Advance, End, Fail, NoJob, ChecksumMatches, HasIdentity, WriteAtomic, MisnamedPlanted, ManifestReadable, List
<1>Begin. ASSUME NEW c \in Command, Begin(c) PROVE MisnamedPlanted'
    BY <1>Begin DEF Begin, IInv, TypeOK, Jobs
<1>AskIndex. ASSUME NEW c \in Command, AskIndex(c) PROVE MisnamedPlanted'
    BY <1>AskIndex DEF AskIndex, IInv, TypeOK, Jobs
<1>CheckEntry. ASSUME NEW c \in Command, CheckEntry(c) PROVE MisnamedPlanted'
    BY <1>CheckEntry DEF CheckEntry, IInv, TypeOK, Jobs
<1>Download. ASSUME NEW c \in Command, Download(c) PROVE MisnamedPlanted'
    BY <1>Download, ChecksumAssumption DEF Download, IInv, TypeOK, Jobs
<1>PruneNext. ASSUME NEW c \in Command, PruneNext(c) PROVE MisnamedPlanted'
    BY <1>PruneNext, ChecksumAssumption DEF PruneNext, IInv, TypeOK, Jobs
<1>ListOffline. ASSUME NEW c \in Command, ListOffline(c) PROVE MisnamedPlanted'
    BY <1>ListOffline DEF ListOffline, IInv, TypeOK, Jobs
<1>VerifyOffline. ASSUME NEW c \in Command, VerifyOffline(c) PROVE MisnamedPlanted'
    BY <1>VerifyOffline DEF VerifyOffline, IInv, TypeOK, Jobs
<1>IdentifyOffline. ASSUME NEW c \in Command, IdentifyOffline(c) PROVE MisnamedPlanted'
    BY <1>IdentifyOffline DEF IdentifyOffline, IInv, TypeOK, Jobs
<1>ReadManifest. ASSUME NEW c \in Command, ReadManifest(c) PROVE MisnamedPlanted'
    BY <1>ReadManifest DEF ReadManifest, IInv, TypeOK, Jobs
<1>CheckRoot. ASSUME NEW c \in Command, CheckRoot(c) PROVE MisnamedPlanted'
    BY <1>CheckRoot DEF CheckRoot, IInv, TypeOK, Jobs
<1>Extract. ASSUME NEW c \in Command, Extract(c) PROVE MisnamedPlanted'
    BY <1>Extract DEF Extract, IInv, TypeOK, Jobs
<1>RecheckRoot. ASSUME NEW c \in Command, RecheckRoot(c) PROVE MisnamedPlanted'
    BY <1>RecheckRoot DEF RecheckRoot, IInv, TypeOK, Jobs
<1>PublishRoot. ASSUME NEW c \in Command, PublishRoot(c) PROVE MisnamedPlanted'
    BY <1>PublishRoot DEF PublishRoot, IInv, TypeOK, Jobs
<1>RequireSource. ASSUME NEW c \in Command, RequireSource(c) PROVE MisnamedPlanted'
    BY <1>RequireSource DEF RequireSource, IInv, TypeOK, Jobs
<1>Kill. ASSUME NEW c \in Command, Kill(c) PROVE MisnamedPlanted'
    BY <1>Kill DEF Kill, IInv, TypeOK, Jobs
<1>stutter. CASE Republish \/ UNCHANGED vars
    BY <1>stutter DEF Republish, vars, IInv
<1> QED
    BY <1>Begin, <1>AskIndex, <1>CheckEntry, <1>Download, <1>PruneNext, <1>ListOffline, <1>VerifyOffline, <1>IdentifyOffline, <1>ReadManifest, <1>CheckRoot, <1>Extract, <1>RecheckRoot, <1>PublishRoot, <1>RequireSource, <1>Kill,
       <1>stutter DEF Next, CommandStep, Ended

\* No step leaves a command past its verification with an archive that is bad.
LEMMA VerifiedArchivePreserved == IInv /\ [Next]_vars => VerifiedArchive'
<1> SUFFICES ASSUME IInv, [Next]_vars PROVE VerifiedArchive'
    OBVIOUS
<1> USE DEF Goto, Advance, End, Fail, NoJob, ChecksumMatches, HasIdentity, WriteAtomic, ManifestReadable, List, Resolved, VerifiedArchive
<1>Begin. ASSUME NEW c \in Command, Begin(c) PROVE VerifiedArchive'
    BY <1>Begin DEF Begin, IInv, TypeOK, Jobs
<1>AskIndex. ASSUME NEW c \in Command, AskIndex(c) PROVE VerifiedArchive'
    BY <1>AskIndex DEF AskIndex, IInv, TypeOK, Jobs
<1>CheckEntry. ASSUME NEW c \in Command, CheckEntry(c) PROVE VerifiedArchive'
    BY <1>CheckEntry DEF CheckEntry, IInv, TypeOK, Jobs
<1>Download. ASSUME NEW c \in Command, Download(c) PROVE VerifiedArchive'
    BY <1>Download DEF Download, IInv, TypeOK, Jobs
<1>PruneNext. ASSUME NEW c \in Command, PruneNext(c) PROVE VerifiedArchive'
    BY <1>PruneNext DEF PruneNext, IInv, TypeOK, Jobs
<1>ListOffline. ASSUME NEW c \in Command, ListOffline(c) PROVE VerifiedArchive'
    BY <1>ListOffline DEF ListOffline, IInv, TypeOK, Jobs
<1>VerifyOffline. ASSUME NEW c \in Command, VerifyOffline(c) PROVE VerifiedArchive'
    BY <1>VerifyOffline DEF VerifyOffline, IInv, TypeOK, Jobs
<1>IdentifyOffline. ASSUME NEW c \in Command, IdentifyOffline(c) PROVE VerifiedArchive'
    BY <1>IdentifyOffline DEF IdentifyOffline, IInv, TypeOK, Jobs
<1>ReadManifest. ASSUME NEW c \in Command, ReadManifest(c) PROVE VerifiedArchive'
    BY <1>ReadManifest DEF ReadManifest, IInv, TypeOK, Jobs
<1>CheckRoot. ASSUME NEW c \in Command, CheckRoot(c) PROVE VerifiedArchive'
    BY <1>CheckRoot DEF CheckRoot, IInv, TypeOK, Jobs
<1>Extract. ASSUME NEW c \in Command, Extract(c) PROVE VerifiedArchive'
    BY <1>Extract DEF Extract, IInv, TypeOK, Jobs
<1>RecheckRoot. ASSUME NEW c \in Command, RecheckRoot(c) PROVE VerifiedArchive'
    BY <1>RecheckRoot DEF RecheckRoot, IInv, TypeOK, Jobs
<1>PublishRoot. ASSUME NEW c \in Command, PublishRoot(c) PROVE VerifiedArchive'
    BY <1>PublishRoot DEF PublishRoot, IInv, TypeOK, Jobs
<1>RequireSource. ASSUME NEW c \in Command, RequireSource(c) PROVE VerifiedArchive'
    BY <1>RequireSource DEF RequireSource, IInv, TypeOK, Jobs
<1>Kill. ASSUME NEW c \in Command, Kill(c) PROVE VerifiedArchive'
    BY <1>Kill DEF Kill, IInv, TypeOK, Jobs
<1>stutter. CASE Republish \/ UNCHANGED vars
    BY <1>stutter DEF Republish, vars, IInv
<1> QED
    BY <1>Begin, <1>AskIndex, <1>CheckEntry, <1>Download, <1>PruneNext, <1>ListOffline, <1>VerifyOffline, <1>IdentifyOffline, <1>ReadManifest, <1>CheckRoot, <1>Extract, <1>RecheckRoot, <1>PublishRoot, <1>RequireSource, <1>Kill,
       <1>stutter DEF Next, CommandStep, Ended

\* No step resolves what has another identity.
LEMMA ResolvedIdentityPreserved == IInv /\ [Next]_vars => ResolvedIdentity'
<1> SUFFICES ASSUME IInv, [Next]_vars PROVE ResolvedIdentity'
    OBVIOUS
<1> USE DEF Goto, Advance, End, Fail, NoJob, ChecksumMatches, HasIdentity, WriteAtomic, MisnamedPlanted, ManifestReadable, List, Resolved, ResolvedIdentity
<1>Begin. ASSUME NEW c \in Command, Begin(c) PROVE ResolvedIdentity'
    BY <1>Begin DEF Begin, IInv, TypeOK, Jobs
<1>AskIndex. ASSUME NEW c \in Command, AskIndex(c) PROVE ResolvedIdentity'
    BY <1>AskIndex DEF AskIndex, IInv, TypeOK, Jobs
<1>CheckEntry. ASSUME NEW c \in Command, CheckEntry(c) PROVE ResolvedIdentity'
    BY <1>CheckEntry DEF CheckEntry, IInv, TypeOK, Jobs
<1>Download. ASSUME NEW c \in Command, Download(c) PROVE ResolvedIdentity'
    BY <1>Download DEF Download, IInv, TypeOK, Jobs
<1>PruneNext. ASSUME NEW c \in Command, PruneNext(c) PROVE ResolvedIdentity'
    BY <1>PruneNext DEF PruneNext, IInv, TypeOK, Jobs
<1>ListOffline. ASSUME NEW c \in Command, ListOffline(c) PROVE ResolvedIdentity'
    BY <1>ListOffline DEF ListOffline, IInv, TypeOK, Jobs
<1>VerifyOffline. ASSUME NEW c \in Command, VerifyOffline(c) PROVE ResolvedIdentity'
    BY <1>VerifyOffline DEF VerifyOffline, IInv, TypeOK, Jobs
<1>IdentifyOffline. ASSUME NEW c \in Command, IdentifyOffline(c) PROVE ResolvedIdentity'
    BY <1>IdentifyOffline DEF IdentifyOffline, IInv, TypeOK, Jobs
<1>ReadManifest. ASSUME NEW c \in Command, ReadManifest(c) PROVE ResolvedIdentity'
  <2>1. \A d \in Command : job'[d].sum = job[d].sum \/ job'[d].pc = "failed"
    BY <1>ReadManifest DEF ReadManifest, IInv, TypeOK, Jobs
  <2>2. ASSUME NEW d \in Command, d # c PROVE job'[d] = job[d]
    BY <1>ReadManifest, <2>2 DEF ReadManifest, IInv, TypeOK
  <2>3. job'[c].pc # "failed" => job[c].sum \notin Misnamed
    BY <1>ReadManifest DEF ReadManifest, IInv, TypeOK, Jobs
  <2> QED
    BY <2>1, <2>2, <2>3 DEF IInv
<1>CheckRoot. ASSUME NEW c \in Command, CheckRoot(c) PROVE ResolvedIdentity'
    BY <1>CheckRoot DEF CheckRoot, IInv, TypeOK, Jobs
<1>Extract. ASSUME NEW c \in Command, Extract(c) PROVE ResolvedIdentity'
    BY <1>Extract DEF Extract, IInv, TypeOK, Jobs
<1>RecheckRoot. ASSUME NEW c \in Command, RecheckRoot(c) PROVE ResolvedIdentity'
    BY <1>RecheckRoot DEF RecheckRoot, IInv, TypeOK, Jobs
<1>PublishRoot. ASSUME NEW c \in Command, PublishRoot(c) PROVE ResolvedIdentity'
    BY <1>PublishRoot DEF PublishRoot, IInv, TypeOK, Jobs
<1>RequireSource. ASSUME NEW c \in Command, RequireSource(c) PROVE ResolvedIdentity'
    BY <1>RequireSource DEF RequireSource, IInv, TypeOK, Jobs
<1>Kill. ASSUME NEW c \in Command, Kill(c) PROVE ResolvedIdentity'
    BY <1>Kill DEF Kill, IInv, TypeOK, Jobs
<1>stutter. CASE Republish \/ UNCHANGED vars
    BY <1>stutter DEF Republish, vars, IInv
<1> QED
    BY <1>Begin, <1>AskIndex, <1>CheckEntry, <1>Download, <1>PruneNext, <1>ListOffline, <1>VerifyOffline, <1>IdentifyOffline, <1>ReadManifest, <1>CheckRoot, <1>Extract, <1>RecheckRoot, <1>PublishRoot, <1>RequireSource, <1>Kill,
       <1>stutter DEF Next, CommandStep, Ended

\* No step hands out a root that is incomplete, or damages one.
LEMMA HandedOutRootPreserved == IInv /\ [Next]_vars => HandedOutRoot'
<1> SUFFICES ASSUME IInv, [Next]_vars PROVE HandedOutRoot'
    OBVIOUS
<1> USE DEF Goto, Advance, End, Fail, NoJob, ChecksumMatches, HasIdentity, WriteAtomic, ManifestReadable, List, ExtractionIsComplete, HandedOutRoot
<1>Begin. ASSUME NEW c \in Command, Begin(c) PROVE HandedOutRoot'
    BY <1>Begin DEF Begin, IInv, TypeOK, Jobs
<1>AskIndex. ASSUME NEW c \in Command, AskIndex(c) PROVE HandedOutRoot'
    BY <1>AskIndex DEF AskIndex, IInv, TypeOK, Jobs
<1>CheckEntry. ASSUME NEW c \in Command, CheckEntry(c) PROVE HandedOutRoot'
    BY <1>CheckEntry DEF CheckEntry, IInv, TypeOK, Jobs
<1>Download. ASSUME NEW c \in Command, Download(c) PROVE HandedOutRoot'
    BY <1>Download DEF Download, IInv, TypeOK, Jobs
<1>PruneNext. ASSUME NEW c \in Command, PruneNext(c) PROVE HandedOutRoot'
    BY <1>PruneNext DEF PruneNext, IInv, TypeOK, Jobs
<1>ListOffline. ASSUME NEW c \in Command, ListOffline(c) PROVE HandedOutRoot'
    BY <1>ListOffline DEF ListOffline, IInv, TypeOK, Jobs
<1>VerifyOffline. ASSUME NEW c \in Command, VerifyOffline(c) PROVE HandedOutRoot'
    BY <1>VerifyOffline DEF VerifyOffline, IInv, TypeOK, Jobs
<1>IdentifyOffline. ASSUME NEW c \in Command, IdentifyOffline(c) PROVE HandedOutRoot'
    BY <1>IdentifyOffline DEF IdentifyOffline, IInv, TypeOK, Jobs
<1>ReadManifest. ASSUME NEW c \in Command, ReadManifest(c) PROVE HandedOutRoot'
    BY <1>ReadManifest DEF ReadManifest, IInv, TypeOK, Jobs
<1>CheckRoot. ASSUME NEW c \in Command, CheckRoot(c) PROVE HandedOutRoot'
    BY <1>CheckRoot DEF CheckRoot, IInv, TypeOK, Jobs
<1>Extract. ASSUME NEW c \in Command, Extract(c) PROVE HandedOutRoot'
    BY <1>Extract DEF Extract, IInv, TypeOK, Jobs
<1>RecheckRoot. ASSUME NEW c \in Command, RecheckRoot(c) PROVE HandedOutRoot'
    BY <1>RecheckRoot DEF RecheckRoot, IInv, TypeOK, Jobs
<1>PublishRoot. ASSUME NEW c \in Command, PublishRoot(c) PROVE HandedOutRoot'
    BY <1>PublishRoot DEF PublishRoot, IInv, TypeOK, Jobs
<1>RequireSource. ASSUME NEW c \in Command, RequireSource(c) PROVE HandedOutRoot'
    BY <1>RequireSource DEF RequireSource, IInv, TypeOK, Jobs
<1>Kill. ASSUME NEW c \in Command, Kill(c) PROVE HandedOutRoot'
    BY <1>Kill DEF Kill, IInv, TypeOK, Jobs
<1>stutter. CASE Republish \/ UNCHANGED vars
    BY <1>stutter DEF Republish, vars, IInv
<1> QED
    BY <1>Begin, <1>AskIndex, <1>CheckEntry, <1>Download, <1>PruneNext, <1>ListOffline, <1>VerifyOffline, <1>IdentifyOffline, <1>ReadManifest, <1>CheckRoot, <1>Extract, <1>RecheckRoot, <1>PublishRoot, <1>RequireSource, <1>Kill,
       <1>stutter DEF Next, CommandStep, Ended

\* No step lists the archive of a fetch for its own removal.
LEMMA OwnArchiveSparedPreserved == IInv /\ [Next]_vars => OwnArchiveSpared'
<1> SUFFICES ASSUME IInv, [Next]_vars PROVE OwnArchiveSpared'
    OBVIOUS
<1> USE DEF Goto, Advance, End, Fail, NoJob, ChecksumMatches, HasIdentity, WriteAtomic, ManifestReadable, List, ArchivesPresent, OwnArchiveSpared
<1>Begin. ASSUME NEW c \in Command, Begin(c) PROVE OwnArchiveSpared'
    BY <1>Begin DEF Begin, IInv, TypeOK, Jobs
<1>AskIndex. ASSUME NEW c \in Command, AskIndex(c) PROVE OwnArchiveSpared'
    BY <1>AskIndex DEF AskIndex, IInv, TypeOK, Jobs
<1>CheckEntry. ASSUME NEW c \in Command, CheckEntry(c) PROVE OwnArchiveSpared'
    BY <1>CheckEntry DEF CheckEntry, IInv, TypeOK, Jobs
<1>Download. ASSUME NEW c \in Command, Download(c) PROVE OwnArchiveSpared'
    BY <1>Download DEF Download, IInv, TypeOK, Jobs
<1>PruneNext. ASSUME NEW c \in Command, PruneNext(c) PROVE OwnArchiveSpared'
    BY <1>PruneNext DEF PruneNext, IInv, TypeOK, Jobs
<1>ListOffline. ASSUME NEW c \in Command, ListOffline(c) PROVE OwnArchiveSpared'
    BY <1>ListOffline DEF ListOffline, IInv, TypeOK, Jobs
<1>VerifyOffline. ASSUME NEW c \in Command, VerifyOffline(c) PROVE OwnArchiveSpared'
    BY <1>VerifyOffline DEF VerifyOffline, IInv, TypeOK, Jobs
<1>IdentifyOffline. ASSUME NEW c \in Command, IdentifyOffline(c) PROVE OwnArchiveSpared'
    BY <1>IdentifyOffline DEF IdentifyOffline, IInv, TypeOK, Jobs
<1>ReadManifest. ASSUME NEW c \in Command, ReadManifest(c) PROVE OwnArchiveSpared'
    BY <1>ReadManifest DEF ReadManifest, IInv, TypeOK, Jobs
<1>CheckRoot. ASSUME NEW c \in Command, CheckRoot(c) PROVE OwnArchiveSpared'
    BY <1>CheckRoot DEF CheckRoot, IInv, TypeOK, Jobs
<1>Extract. ASSUME NEW c \in Command, Extract(c) PROVE OwnArchiveSpared'
    BY <1>Extract DEF Extract, IInv, TypeOK, Jobs
<1>RecheckRoot. ASSUME NEW c \in Command, RecheckRoot(c) PROVE OwnArchiveSpared'
    BY <1>RecheckRoot DEF RecheckRoot, IInv, TypeOK, Jobs
<1>PublishRoot. ASSUME NEW c \in Command, PublishRoot(c) PROVE OwnArchiveSpared'
    BY <1>PublishRoot DEF PublishRoot, IInv, TypeOK, Jobs
<1>RequireSource. ASSUME NEW c \in Command, RequireSource(c) PROVE OwnArchiveSpared'
    BY <1>RequireSource DEF RequireSource, IInv, TypeOK, Jobs
<1>Kill. ASSUME NEW c \in Command, Kill(c) PROVE OwnArchiveSpared'
    BY <1>Kill DEF Kill, IInv, TypeOK, Jobs
<1>stutter. CASE Republish \/ UNCHANGED vars
    BY <1>stutter DEF Republish, vars, IInv
<1> QED
    BY <1>Begin, <1>AskIndex, <1>CheckEntry, <1>Download, <1>PruneNext, <1>ListOffline, <1>VerifyOffline, <1>IdentifyOffline, <1>ReadManifest, <1>CheckRoot, <1>Extract, <1>RecheckRoot, <1>PublishRoot, <1>RequireSource, <1>Kill,
       <1>stutter DEF Next, CommandStep, Ended

\* No step ends an online fetch that the index did not answer.
LEMMA AnsweredFirstPreserved == IInv /\ [Next]_vars => AnsweredFirst'
<1> SUFFICES ASSUME IInv, [Next]_vars PROVE AnsweredFirst'
    OBVIOUS
<1> USE DEF Goto, Advance, End, Fail, NoJob, ChecksumMatches, HasIdentity, WriteAtomic, ManifestReadable, List, OwnArchiveSpared, AnsweredFirst
<1>Begin. ASSUME NEW c \in Command, Begin(c) PROVE AnsweredFirst'
    BY <1>Begin DEF Begin, IInv, TypeOK, Jobs
<1>AskIndex. ASSUME NEW c \in Command, AskIndex(c) PROVE AnsweredFirst'
    BY <1>AskIndex DEF AskIndex, IInv, TypeOK, Jobs
<1>CheckEntry. ASSUME NEW c \in Command, CheckEntry(c) PROVE AnsweredFirst'
    BY <1>CheckEntry DEF CheckEntry, IInv, TypeOK, Jobs
<1>Download. ASSUME NEW c \in Command, Download(c) PROVE AnsweredFirst'
    BY <1>Download DEF Download, IInv, TypeOK, Jobs
<1>PruneNext. ASSUME NEW c \in Command, PruneNext(c) PROVE AnsweredFirst'
    BY <1>PruneNext DEF PruneNext, IInv, TypeOK, Jobs
<1>ListOffline. ASSUME NEW c \in Command, ListOffline(c) PROVE AnsweredFirst'
    BY <1>ListOffline DEF ListOffline, IInv, TypeOK, Jobs
<1>VerifyOffline. ASSUME NEW c \in Command, VerifyOffline(c) PROVE AnsweredFirst'
    BY <1>VerifyOffline DEF VerifyOffline, IInv, TypeOK, Jobs
<1>IdentifyOffline. ASSUME NEW c \in Command, IdentifyOffline(c) PROVE AnsweredFirst'
    BY <1>IdentifyOffline DEF IdentifyOffline, IInv, TypeOK, Jobs
<1>ReadManifest. ASSUME NEW c \in Command, ReadManifest(c) PROVE AnsweredFirst'
    BY <1>ReadManifest DEF ReadManifest, IInv, TypeOK, Jobs
<1>CheckRoot. ASSUME NEW c \in Command, CheckRoot(c) PROVE AnsweredFirst'
    BY <1>CheckRoot DEF CheckRoot, IInv, TypeOK, Jobs
<1>Extract. ASSUME NEW c \in Command, Extract(c) PROVE AnsweredFirst'
    BY <1>Extract DEF Extract, IInv, TypeOK, Jobs
<1>RecheckRoot. ASSUME NEW c \in Command, RecheckRoot(c) PROVE AnsweredFirst'
    BY <1>RecheckRoot DEF RecheckRoot, IInv, TypeOK, Jobs
<1>PublishRoot. ASSUME NEW c \in Command, PublishRoot(c) PROVE AnsweredFirst'
    BY <1>PublishRoot DEF PublishRoot, IInv, TypeOK, Jobs
<1>RequireSource. ASSUME NEW c \in Command, RequireSource(c) PROVE AnsweredFirst'
    BY <1>RequireSource DEF RequireSource, IInv, TypeOK, Jobs
<1>Kill. ASSUME NEW c \in Command, Kill(c) PROVE AnsweredFirst'
    BY <1>Kill DEF Kill, IInv, TypeOK, Jobs
<1>stutter. CASE Republish \/ UNCHANGED vars
    BY <1>stutter DEF Republish, vars, IInv
<1> QED
    BY <1>Begin, <1>AskIndex, <1>CheckEntry, <1>Download, <1>PruneNext, <1>ListOffline, <1>VerifyOffline, <1>IdentifyOffline, <1>ReadManifest, <1>CheckRoot, <1>Extract, <1>RecheckRoot, <1>PublishRoot, <1>RequireSource, <1>Kill,
       <1>stutter DEF Next, CommandStep, Ended

\* No step leaves another archive that the janitor at work does not have listed.
LEMMA JanitorOwesPreserved == IInv /\ [Next]_vars => JanitorOwes'
<1> SUFFICES ASSUME IInv, [Next]_vars PROVE JanitorOwes'
    OBVIOUS
<1> USE DEF Goto, Advance, End, Fail, NoJob, ChecksumMatches, HasIdentity, WriteAtomic, ManifestReadable, List, ArchivesPresent, OwnArchiveSpared, OfflineAfterOnline, JanitorOwes
<1>Begin. ASSUME NEW c \in Command, Begin(c) PROVE JanitorOwes'
    BY <1>Begin DEF Begin, IInv, TypeOK, Jobs
<1>AskIndex. ASSUME NEW c \in Command, AskIndex(c) PROVE JanitorOwes'
    BY <1>AskIndex DEF AskIndex, IInv, TypeOK, Jobs
<1>CheckEntry. ASSUME NEW c \in Command, CheckEntry(c) PROVE JanitorOwes'
    BY <1>CheckEntry DEF CheckEntry, IInv, TypeOK, Jobs
<1>Download. ASSUME NEW c \in Command, Download(c) PROVE JanitorOwes'
    BY <1>Download DEF Download, IInv, TypeOK, Jobs
<1>PruneNext. ASSUME NEW c \in Command, PruneNext(c) PROVE JanitorOwes'
    BY <1>PruneNext DEF PruneNext, IInv, TypeOK, Jobs
<1>ListOffline. ASSUME NEW c \in Command, ListOffline(c) PROVE JanitorOwes'
    BY <1>ListOffline DEF ListOffline, IInv, TypeOK, Jobs
<1>VerifyOffline. ASSUME NEW c \in Command, VerifyOffline(c) PROVE JanitorOwes'
    BY <1>VerifyOffline DEF VerifyOffline, IInv, TypeOK, Jobs
<1>IdentifyOffline. ASSUME NEW c \in Command, IdentifyOffline(c) PROVE JanitorOwes'
    BY <1>IdentifyOffline DEF IdentifyOffline, IInv, TypeOK, Jobs
<1>ReadManifest. ASSUME NEW c \in Command, ReadManifest(c) PROVE JanitorOwes'
    BY <1>ReadManifest DEF ReadManifest, IInv, TypeOK, Jobs
<1>CheckRoot. ASSUME NEW c \in Command, CheckRoot(c) PROVE JanitorOwes'
    BY <1>CheckRoot DEF CheckRoot, IInv, TypeOK, Jobs
<1>Extract. ASSUME NEW c \in Command, Extract(c) PROVE JanitorOwes'
    BY <1>Extract DEF Extract, IInv, TypeOK, Jobs
<1>RecheckRoot. ASSUME NEW c \in Command, RecheckRoot(c) PROVE JanitorOwes'
    BY <1>RecheckRoot DEF RecheckRoot, IInv, TypeOK, Jobs
<1>PublishRoot. ASSUME NEW c \in Command, PublishRoot(c) PROVE JanitorOwes'
    BY <1>PublishRoot DEF PublishRoot, IInv, TypeOK, Jobs
<1>RequireSource. ASSUME NEW c \in Command, RequireSource(c) PROVE JanitorOwes'
    BY <1>RequireSource DEF RequireSource, IInv, TypeOK, Jobs
<1>Kill. ASSUME NEW c \in Command, Kill(c) PROVE JanitorOwes'
    BY <1>Kill DEF Kill, IInv, TypeOK, Jobs
<1>stutter. CASE Republish \/ UNCHANGED vars
    BY <1>stutter DEF Republish, vars, IInv
<1> QED
    BY <1>Begin, <1>AskIndex, <1>CheckEntry, <1>Download, <1>PruneNext, <1>ListOffline, <1>VerifyOffline, <1>IdentifyOffline, <1>ReadManifest, <1>CheckRoot, <1>Extract, <1>RecheckRoot, <1>PublishRoot, <1>RequireSource, <1>Kill,
       <1>stutter DEF Next, CommandStep, Ended

\* No step leaves an offline entry ambiguous or unverified after an online fetch.
LEMMA OfflineAfterOnlinePreserved == IInv /\ [Next]_vars => OfflineAfterOnline'
<1> SUFFICES ASSUME IInv, [Next]_vars PROVE OfflineAfterOnline'
    OBVIOUS
<1> USE DEF Goto, Advance, End, Fail, NoJob, ChecksumMatches, HasIdentity, WriteAtomic, ManifestReadable, List, ArchivesPresent, OwnArchiveSpared, AnsweredFirst, JanitorOwes, OfflineAfterOnline
<1>Begin. ASSUME NEW c \in Command, Begin(c) PROVE OfflineAfterOnline'
    BY <1>Begin DEF Begin, IInv, TypeOK, Jobs
<1>AskIndex. ASSUME NEW c \in Command, AskIndex(c) PROVE OfflineAfterOnline'
    BY <1>AskIndex DEF AskIndex, IInv, TypeOK, Jobs
<1>CheckEntry. ASSUME NEW c \in Command, CheckEntry(c) PROVE OfflineAfterOnline'
    BY <1>CheckEntry DEF CheckEntry, IInv, TypeOK, Jobs
<1>Download. ASSUME NEW c \in Command, Download(c) PROVE OfflineAfterOnline'
    BY <1>Download DEF Download, IInv, TypeOK, Jobs
<1>PruneNext. ASSUME NEW c \in Command, PruneNext(c) PROVE OfflineAfterOnline'
  <2>1. ASSUME NEW s \in job[c].todo, archive' = [archive EXCEPT ![s] = "absent"],
               UNCHANGED <<unpruned, populated, answered>>
        PROVE  OfflineAfterOnline'
    BY <2>1, <1>PruneNext DEF PruneNext, IInv, TypeOK, Jobs
  <2>2. ASSUME unpruned' = unpruned + 1 PROVE OfflineAfterOnline'
    <3>1. unpruned' # 0
      BY <2>2, BoundAssumption DEF IInv, TypeOK
    <3> QED
      BY <3>1
  <2>3. ASSUME job[c].todo = {}, UNCHANGED <<archive, unpruned, answered>>
        PROVE  OfflineAfterOnline'
    BY <2>3, <1>PruneNext DEF PruneNext, IInv, TypeOK, Jobs
  <2> QED
    BY <1>PruneNext, <2>1, <2>2, <2>3 DEF PruneNext
<1>ListOffline. ASSUME NEW c \in Command, ListOffline(c) PROVE OfflineAfterOnline'
    BY <1>ListOffline DEF ListOffline, IInv, TypeOK, Jobs
<1>VerifyOffline. ASSUME NEW c \in Command, VerifyOffline(c) PROVE OfflineAfterOnline'
    BY <1>VerifyOffline DEF VerifyOffline, IInv, TypeOK, Jobs
<1>IdentifyOffline. ASSUME NEW c \in Command, IdentifyOffline(c) PROVE OfflineAfterOnline'
    BY <1>IdentifyOffline DEF IdentifyOffline, IInv, TypeOK, Jobs
<1>ReadManifest. ASSUME NEW c \in Command, ReadManifest(c) PROVE OfflineAfterOnline'
    BY <1>ReadManifest DEF ReadManifest, IInv, TypeOK, Jobs
<1>CheckRoot. ASSUME NEW c \in Command, CheckRoot(c) PROVE OfflineAfterOnline'
    BY <1>CheckRoot DEF CheckRoot, IInv, TypeOK, Jobs
<1>Extract. ASSUME NEW c \in Command, Extract(c) PROVE OfflineAfterOnline'
    BY <1>Extract DEF Extract, IInv, TypeOK, Jobs
<1>RecheckRoot. ASSUME NEW c \in Command, RecheckRoot(c) PROVE OfflineAfterOnline'
    BY <1>RecheckRoot DEF RecheckRoot, IInv, TypeOK, Jobs
<1>PublishRoot. ASSUME NEW c \in Command, PublishRoot(c) PROVE OfflineAfterOnline'
    BY <1>PublishRoot DEF PublishRoot, IInv, TypeOK, Jobs
<1>RequireSource. ASSUME NEW c \in Command, RequireSource(c) PROVE OfflineAfterOnline'
    BY <1>RequireSource DEF RequireSource, IInv, TypeOK, Jobs
<1>Kill. ASSUME NEW c \in Command, Kill(c) PROVE OfflineAfterOnline'
    BY <1>Kill DEF Kill, IInv, TypeOK, Jobs
<1>stutter. CASE Republish \/ UNCHANGED vars
  <2>1. UNCHANGED <<archive, answered, populated, unpruned>>
    BY <1>stutter DEF Republish, vars
  <2> QED
    BY <2>1 DEF IInv
<1> QED
    BY <1>Begin, <1>AskIndex, <1>CheckEntry, <1>Download, <1>PruneNext, <1>ListOffline, <1>VerifyOffline, <1>IdentifyOffline, <1>ReadManifest, <1>CheckRoot, <1>Extract, <1>RecheckRoot, <1>PublishRoot, <1>RequireSource, <1>Kill,
       <1>stutter DEF Next, CommandStep, Ended

\* No step breaks the inductive invariant.
LEMMA IInvPreserved == IInv /\ [Next]_vars => IInv'
    BY TypeOKPreserved, MisnamedPlantedPreserved, VerifiedArchivePreserved, ResolvedIdentityPreserved,
       HandedOutRootPreserved, OwnArchiveSparedPreserved, AnsweredFirstPreserved,
       JanitorOwesPreserved, OfflineAfterOnlinePreserved
    DEF IInv

(***************************************************************************)
(* Every document of the cache stays in the sets the code gives it.        *)
(***************************************************************************)
THEOREM TypeCorrect == Spec => []TypeOK
<1>1. IInv => TypeOK
    BY DEF IInv
<1> QED
    BY IInvInitially, IInvPreserved, <1>1, PTL DEF Spec

(***************************************************************************)
(* What a command resolved is what its checksum promises, whatever any     *)
(* number of other commands download, prune and extract (registry_package: *)
(* fetch_registry_package, extracted_root).                                *)
(***************************************************************************)
THEOREM ResolvedVerified == Spec => []ResolvedIsVerified
<1>1. IInv => ResolvedIsVerified
    BY DEF IInv, MisnamedPlanted, VerifiedArchive, ResolvedIdentity, HandedOutRoot, ResolvedIsVerified, Resolved, HasIdentity, TypeOK, Jobs
<1> QED
    BY IInvInitially, IInvPreserved, <1>1, PTL DEF Spec

(***************************************************************************)
(* One online fetch populates the cache for every offline one              *)
(* (prune_obsolete_checksum_archives against offline_cached_package).      *)
(***************************************************************************)
THEOREM OfflinePopulated == Spec => []OfflineAfterOnline
<1>1. IInv => OfflineAfterOnline
    BY DEF IInv
<1> QED
    BY IInvInitially, IInvPreserved, <1>1, PTL DEF Spec

(***************************************************************************)
(* The log, for every capacity, page size and length of the history.  A    *)
(* replay is a recursive function of what was held back.  That the         *)
(* function exists, and that each of its values continues the cursor, is   *)
(* an induction on numbers: the library proves that < is well founded on   *)
(* Nat, so a set of numbers that is not empty has a least element.         *)
(***************************************************************************)

\* A non-empty set of numbers has a least one: the induction of this module.
LEMMA LeastNumber ==
  ASSUME NEW T \in SUBSET Nat, T # {}
  PROVE  \E n \in T : \A m \in T : n <= m
<1> DEFINE R == OpToRel(<, Nat)
<1>1. IsWellFoundedOn(R, Nat) BY NatLessThanWellFounded
<1>2. \A x, y \in Nat : x < y => <<x, y>> \in R BY DEF OpToRel
<1> HIDE DEF R
<1>3. PICK n \in T : \A m \in T : ~ (<<m, n>> \in R) BY <1>1, WFMin
<1>4. ASSUME NEW m \in T PROVE n <= m
  <2>1. m \in Nat /\ n \in Nat OBVIOUS
  <2>2. ~ (m < n) BY <1>2, <1>3, <2>1
  <2> QED BY <2>1, <2>2
<1> QED BY <1>4

\* A set of numbers with 0 and with the successor of each of its elements below
\* a bound holds every number up to the bound.
LEMMA UpTo ==
  ASSUME NEW T, NEW N \in Nat, 0 \in T,
         \A k \in 0 .. N - 1 : k \in T => k + 1 \in T
  PROVE  0 .. N \subseteq T
<1>1. SUFFICES ASSUME 0 .. N \ T # {} PROVE FALSE OBVIOUS
<1> DEFINE S == 0 .. N \ T
<1>0. S \in SUBSET Nat /\ S # {} BY <1>1
<1>2. PICK n \in S : \A m \in S : n <= m BY <1>0, LeastNumber
<1>3. n # 0 /\ n - 1 \in 0 .. N - 1 /\ n - 1 \in 0 .. N BY <1>2
<1>4. n - 1 \in T BY <1>2, <1>3
<1>5. (n - 1) + 1 \in T BY <1>3, <1>4
<1>6. (n - 1) + 1 = n BY <1>2
<1> QED BY <1>2, <1>5, <1>6

Start(cursor) == [cursor |-> cursor, items |-> <<>>, hole |-> FALSE]

\* Replay has an accumulator for every prefix of what is held back.
LEMMA ReplayAfter ==
  ASSUME NEW cursor, NEW buffer \in Seq(Nat)
  PROVE  \E after : /\ after[0] = Start(cursor)
                    /\ \A k \in 1 .. Len(buffer) : after[k] = ReplayOne(after[k - 1], buffer[k])
                    /\ Replay(cursor, buffer) = after[Len(buffer)]
<1> DEFINE N == Len(buffer)
           Is(f, n) == f = [k \in 0 .. n |-> IF k = 0 THEN Start(cursor)
                                             ELSE ReplayOne(f[k - 1], buffer[k])]
           T == {n \in Nat : \E f : Is(f, n)}
<1>1. N \in Nat OBVIOUS
<1>2. 0 \in T
  <2>1. Is([k \in 0 .. 0 |-> Start(cursor)], 0) OBVIOUS
  <2> QED BY <2>1
<1>3. ASSUME NEW n \in 0 .. N - 1, n \in T PROVE n + 1 \in T
  <2>1. PICK f : Is(f, n) BY <1>3
  <2> DEFINE g == [k \in 0 .. n + 1 |-> IF k = n + 1 THEN ReplayOne(f[n], buffer[k]) ELSE f[k]]
  <2>2. ASSUME NEW k \in 0 .. n + 1
        PROVE  g[k] = IF k = 0 THEN Start(cursor) ELSE ReplayOne(g[k - 1], buffer[k])
    <3>1. CASE k = 0 BY <2>1, <3>1
    <3>2. CASE k = n + 1 BY <3>2
    <3>3. CASE k \in 1 .. n
      <4>1. g[k] = f[k] /\ g[k - 1] = f[k - 1] BY <3>3
      <4>2. f[k] = ReplayOne(f[k - 1], buffer[k]) BY <2>1, <3>3
      <4> QED BY <4>1, <4>2, <3>3
    <3> QED BY <3>1, <3>2, <3>3
  <2>3. Is(g, n + 1)
    <3> DEFINE h == [k \in 0 .. n + 1 |-> IF k = 0 THEN Start(cursor)
                                             ELSE ReplayOne(g[k - 1], buffer[k])]
    <3>1. \A k \in 0 .. n + 1 : g[k] = h[k] BY <2>2
    <3> QED BY <3>1
  <2>4. n + 1 \in Nat BY <1>3
  <2> HIDE DEF g
  <2> QED BY <2>3, <2>4
<1>4. N \in T
  <2> HIDE DEF T
  <2>1. 0 .. N \subseteq T BY <1>1, <1>2, <1>3, UpTo
  <2> QED BY <1>1, <2>1
<1> DEFINE after == CHOOSE f : Is(f, N)
<1>5. Is(after, N) BY <1>4
<1>6. Replay(cursor, buffer) = after[N] BY DEF Replay, Start
<1> HIDE DEF after
<1>7. after[0] = Start(cursor) BY <1>1, <1>5
<1>8. ASSUME NEW k \in 1 .. N PROVE after[k] = ReplayOne(after[k - 1], buffer[k])
  BY <1>5
<1> QED BY <1>6, <1>7, <1>8

\* What a replay has come to: the items it let through continue its cursor.
Continues(acc, cursor) ==
  /\ acc \in [cursor : Nat, items : Seq(Nat), hole : BOOLEAN]
  /\ acc.cursor = cursor + Len(acc.items)
  /\ \A i \in 1 .. Len(acc.items) : acc.items[i] = cursor + i

\* One more item continues the cursor, is dropped as old, or is the hole.
LEMMA ReplayOneContinues ==
  ASSUME NEW cursor \in Nat, NEW acc, Continues(acc, cursor), NEW n \in Nat
  PROVE  Continues(ReplayOne(acc, n), cursor)
<1>1. CASE acc.hole \/ n <= acc.cursor BY <1>1 DEF ReplayOne
<1>2. CASE ~ (acc.hole \/ n <= acc.cursor) /\ n = acc.cursor + 1
  <2> DEFINE items == Append(acc.items, n)
             next == [acc EXCEPT !.cursor = n, !.items = items]
  <2>1. ReplayOne(acc, n) = next BY <1>2 DEF ReplayOne
  <2>2. /\ acc.cursor \in Nat /\ acc.items \in Seq(Nat) /\ acc.hole \in BOOLEAN
        /\ acc.cursor = cursor + Len(acc.items)
        /\ \A i \in 1 .. Len(acc.items) : acc.items[i] = cursor + i
    BY DEF Continues
  <2>3. items \in Seq(Nat) /\ Len(items) = Len(acc.items) + 1 BY <2>2
  <2>4. n = cursor + Len(items) BY <1>2, <2>2, <2>3
  <2>5. \A i \in 1 .. Len(items) : items[i] = cursor + i BY <2>2, <2>3, <2>4
  <2> HIDE DEF items
  <2>6. acc \in [cursor : Nat, items : Seq(Nat), hole : BOOLEAN] BY DEF Continues
  <2>7. next \in [cursor : Nat, items : Seq(Nat), hole : BOOLEAN] BY <2>3, <2>6
  <2>8. next.cursor = n /\ next.items = items BY <2>6
  <2> HIDE DEF next
  <2> QED BY <2>1, <2>4, <2>5, <2>7, <2>8 DEF Continues
<1>3. CASE ~ (acc.hole \/ n <= acc.cursor) /\ n # acc.cursor + 1
  <2> DEFINE next == [acc EXCEPT !.hole = TRUE]
  <2>1. ReplayOne(acc, n) = next BY <1>3 DEF ReplayOne
  <2>2. acc \in [cursor : Nat, items : Seq(Nat), hole : BOOLEAN] BY DEF Continues
  <2>3. next \in [cursor : Nat, items : Seq(Nat), hole : BOOLEAN] BY <2>2
  <2>4. next.cursor = acc.cursor /\ next.items = acc.items BY <2>2
  <2> HIDE DEF next
  <2> QED BY <2>1, <2>3, <2>4 DEF Continues
<1> QED BY <1>1, <1>2, <1>3

\* A replay continues the cursor it started from, item by item.
LEMMA ReplayContinues ==
  ASSUME NEW cursor \in Nat, NEW buffer \in Seq(Nat)
  PROVE  Continues(Replay(cursor, buffer), cursor)
<1> DEFINE N == Len(buffer)
<1>1. PICK after : /\ after[0] = Start(cursor)
                   /\ \A k \in 1 .. N : after[k] = ReplayOne(after[k - 1], buffer[k])
                   /\ Replay(cursor, buffer) = after[N]
  BY ReplayAfter
<1> DEFINE T == {k \in 0 .. N : Continues(after[k], cursor)}
<1>2. N \in Nat OBVIOUS
<1>3. 0 \in T
  <2>1. Continues(Start(cursor), cursor) BY DEF Continues, Start
  <2> QED BY <1>1, <1>2, <2>1
<1>4. ASSUME NEW k \in 0 .. N - 1, k \in T PROVE k + 1 \in T
  <2>1. k + 1 \in 1 .. N /\ (k + 1) - 1 = k BY <1>2
  <2>2. after[k + 1] = ReplayOne(after[k], buffer[k + 1]) BY <1>1, <2>1
  <2>3. buffer[k + 1] \in Nat BY <2>1
  <2>4. Continues(after[k + 1], cursor) BY <1>4, <2>2, <2>3, ReplayOneContinues
  <2> QED BY <1>2, <2>1, <2>4
<1>5. N \in T
  <2> HIDE DEF T
  <2>1. 0 .. N \subseteq T BY <1>2, <1>3, <1>4, UpTo
  <2> QED BY <1>2, <2>1
<1> QED BY <1>1, <1>5

\* Rows that are an unbroken stretch of the history up to a cursor.
IsStretch(rows, cursor) ==
  /\ rows \in Seq(Int)
  /\ \A i \in 1 .. Len(rows) : rows[i] = cursor - Len(rows) + i

\* A stretch is a piece of the count.
LEMMA StretchIsCounting ==
  ASSUME NEW rows, NEW cursor \in Nat, IsStretch(rows, cursor)
  PROVE  rows = Counting(cursor - Len(rows) + 1, cursor)
<1> DEFINE n == Len(rows)
           other == Counting(cursor - n + 1, cursor)
<1>1. n \in Nat /\ rows \in Seq(Int) /\ DOMAIN rows = 1 .. n BY DEF IsStretch
<1>2. cursor - (cursor - n + 1) + 1 = n BY <1>1
<1>3. other = [i \in 1 .. n |-> cursor - n + 1 + i - 1] BY <1>2 DEF Counting
<1>4. \A i \in 1 .. n : rows[i] = other[i] BY <1>1, <1>3 DEF IsStretch
<1>5. rows = [i \in 1 .. n |-> rows[i]] BY <1>1
<1>6. other = [i \in 1 .. n |-> other[i]] BY <1>3
<1> HIDE DEF n, other
<1> QED BY <1>4, <1>5, <1>6 DEF other, n

\* A page that counts from the first record is a stretch.
LEMMA CountingIsStretch ==
  ASSUME NEW cursor \in Nat
  PROVE  IsStretch(Counting(1, cursor), cursor)
<1>1. Counting(1, cursor) = [i \in 1 .. cursor |-> i]
  <2>1. cursor - 1 + 1 = cursor OBVIOUS
  <2>2. \A i \in 1 .. cursor : 1 + i - 1 = i OBVIOUS
  <2> QED BY <2>1, <2>2 DEF Counting
<1> DEFINE c == [i \in 1 .. cursor |-> i]
<1>2. c \in Seq(Int) /\ Len(c) = cursor OBVIOUS
<1>3. \A i \in 1 .. cursor : c[i] = cursor - cursor + i OBVIOUS
<1> HIDE DEF c
<1> QED BY <1>1, <1>2, <1>3 DEF IsStretch, c

\* The newest rows of a stretch are one.
LEMMA NewestIsStretch ==
  ASSUME NEW rows, NEW cursor \in Nat, NEW m \in Nat, IsStretch(rows, cursor)
  PROVE  IsStretch(Newest(rows, m), cursor)
<1> DEFINE n == Len(rows)
           cut == SubSeq(rows, n - m + 1, n)
<1>1. rows \in Seq(Int) /\ n \in Nat /\ \A i \in 1 .. n : rows[i] = cursor - n + i
  BY DEF IsStretch
<1>2. CASE n <= m BY <1>2 DEF Newest
<1>3. CASE n > m
  <2>1. n - m + 1 \in 1 .. n + 1 BY <1>1, <1>3
  <2>2. cut \in Seq(Int) /\ Len(cut) = m BY <1>1, <1>3, <2>1
  <2>3. \A i \in 1 .. m : cut[i] = rows[n - m + i] BY <1>1, <1>3, <2>1
  <2>4. \A i \in 1 .. m : n - m + i \in 1 .. n BY <1>1, <1>3
  <2>5. \A i \in 1 .. m : cut[i] = cursor - n + (n - m + i) BY <1>1, <2>3, <2>4
  <2>6. \A i \in 1 .. m : cursor - n + (n - m + i) = cursor - m + i BY <1>1
  <2>7. Newest(rows, m) = cut BY <1>1, <1>3 DEF Newest
  <2>8. \A i \in 1 .. m : cut[i] = cursor - m + i BY <2>5, <2>6
  <2> HIDE DEF cut
  <2>9. IsStretch(cut, cursor) BY <2>2, <2>8 DEF IsStretch
  <2> QED BY <2>7, <2>9
<1> QED BY <1>1, <1>2, <1>3

\* The record that comes next makes a longer stretch.
LEMMA AppendIsStretch ==
  ASSUME NEW rows, NEW cursor \in Nat, IsStretch(rows, cursor)
  PROVE  IsStretch(Append(rows, cursor + 1), cursor + 1)
BY DEF IsStretch

\* What a replay let through makes a longer stretch.
LEMMA JoinIsStretch ==
  ASSUME NEW rows, NEW cursor \in Nat, IsStretch(rows, cursor),
         NEW acc, Continues(acc, cursor)
  PROVE  IsStretch(rows \o acc.items, acc.cursor)
<1> DEFINE n == Len(rows)
           k == Len(acc.items)
           all == rows \o acc.items
<1>1. /\ rows \in Seq(Int) /\ n \in Nat
      /\ \A i \in 1 .. n : rows[i] = cursor - n + i
  BY DEF IsStretch
<1>2. /\ acc.items \in Seq(Int) /\ k \in Nat /\ acc.cursor = cursor + k
      /\ \A i \in 1 .. k : acc.items[i] = cursor + i
  BY DEF Continues
<1>3. all \in Seq(Int) /\ Len(all) = n + k BY <1>1, <1>2
<1>4. ASSUME NEW i \in 1 .. n + k PROVE all[i] = acc.cursor - (n + k) + i
  <2>1. CASE i \in 1 .. n
    <3>1. all[i] = rows[i] BY <1>1, <1>2, <2>1
    <3> QED BY <1>1, <1>2, <2>1, <3>1
  <2>2. CASE i \notin 1 .. n
    <3>1. i - n \in 1 .. k BY <1>1, <1>2, <2>2
    <3>2. all[i] = acc.items[i - n] BY <1>1, <1>2, <2>2
    <3> QED BY <1>1, <1>2, <3>1, <3>2
  <2> QED BY <2>1, <2>2
<1> HIDE DEF all
<1> QED BY <1>3, <1>4 DEF IsStretch, all

\* What the feed relies on: its queues hold records, a page is the newest
\* records up to its cursor, and the store holds a stretch that ends at the
\* cursor it installed.
LogTypes ==
  /\ collected \in Nat
  /\ transit \in Seq(Nat) /\ queue \in Seq(Nat)
  /\ rec \in [cursor : Nat \cup {None}, buffer : Seq(Nat), querying : BOOLEAN]
  /\ store \in [rows : Seq(Int), revision : Nat, pending : BOOLEAN]

PageIsNewest ==
  page.cursor \in Nat /\ page.records = Newest(Counting(1, page.cursor), Page)

StoreIsStretch ==
  IF rec.cursor = None THEN store.rows = <<>> ELSE IsStretch(store.rows, rec.cursor)

LogInvariant == LogTypes /\ PageIsNewest /\ StoreIsStretch

\* A store whose rows are kept, whatever was announced of it.
LEMMA LogUnchanged ==
  ASSUME LogInvariant,
         UNCHANGED <<page, rec>>,
         collected' \in Nat, transit' \in Seq(Nat), queue' \in Seq(Nat),
         store' \in [rows : Seq(Int), revision : Nat, pending : BOOLEAN],
         store'.rows = store.rows
  PROVE  LogInvariant'
BY DEF LogInvariant, LogTypes, PageIsNewest, StoreIsStretch, IsStretch

\* The feed starts with nothing installed.
LEMMA LogInitial ==
  ASSUME LogInit PROVE LogInvariant
<1>1. LogTypes BY FeedAssumption DEF LogInit, LogTypes, NewReconciler
<1>2. PageIsNewest
  <2>1. Counting(1, 0) = <<>>
    <3>1. IsStretch(Counting(1, 0), 0) BY CountingIsStretch
    <3>2. Counting(1, 0) = [i \in 1 .. 0 |-> 1 + i - 1] BY DEF Counting
    <3> QED BY <3>2
  <2>2. Newest(<<>>, Page) = <<>> BY FeedAssumption DEF Newest
  <2> QED BY <2>1, <2>2 DEF LogInit, PageIsNewest
<1>3. StoreIsStretch BY DEF LogInit, StoreIsStretch, NewReconciler
<1> QED BY <1>1, <1>2, <1>3 DEF LogInvariant

\* The bus collects, delivers and loses records; the store does not see it.
LEMMA BusSteps ==
  ASSUME LogInvariant, Collect \/ Deliver \/ Lose PROVE LogInvariant'
<1>1. CASE Collect
  <2>1. collected' \in Nat /\ transit' \in Seq(Nat)
    BY <1>1 DEF Collect, LogInvariant, LogTypes
  <2> QED BY <1>1, <2>1, LogUnchanged DEF Collect, LogInvariant, LogTypes, task
<1>2. CASE Deliver
  <2>1. transit' \in Seq(Nat) /\ queue' \in Seq(Nat)
    BY <1>2 DEF Deliver, LogInvariant, LogTypes
  <2> QED BY <1>2, <2>1, LogUnchanged DEF Deliver, LogInvariant, LogTypes, task
<1>3. CASE Lose
  <2>1. transit' \in Seq(Nat) BY <1>3 DEF Lose, LogInvariant, LogTypes
  <2> QED BY <1>3, <2>1, LogUnchanged DEF Lose, LogInvariant, LogTypes, task
<1> QED BY <1>1, <1>2, <1>3

\* The supervisor answers with its newest records.
LEMMA AnswerStep ==
  ASSUME LogInvariant, Answer PROVE LogInvariant'
<1>1. LogTypes' BY DEF Answer, LogInvariant, LogTypes, bus
<1>2. PageIsNewest'
  <2>1. page' = [cursor |-> collected, records |-> Newest(Counting(1, collected), Page)]
    BY DEF Answer
  <2> QED BY <2>1 DEF PageIsNewest, LogInvariant, LogTypes
<1>3. StoreIsStretch' BY DEF Answer, LogInvariant, StoreIsStretch, IsStretch
<1> QED BY <1>1, <1>2, <1>3 DEF LogInvariant

\* A query begins; what is installed stays.
LEMMA AskStep ==
  ASSUME LogInvariant, Ask PROVE LogInvariant'
<1> DEFINE type == [cursor : Nat \cup {None}, buffer : Seq(Nat), querying : BOOLEAN]
<1>1. rec \in type BY DEF LogInvariant, LogTypes
<1>2. rec' = [rec EXCEPT !.querying = TRUE] BY DEF Ask, BeginQuery
<1>3. rec' \in type /\ rec'.cursor = rec.cursor BY <1>1, <1>2
<1>4. LogTypes' BY <1>3 DEF Ask, LogInvariant, LogTypes, bus
<1>5. PageIsNewest' BY DEF Ask, LogInvariant, PageIsNewest
<1>6. StoreIsStretch' BY <1>3 DEF Ask, LogInvariant, StoreIsStretch, IsStretch
<1> QED BY <1>4, <1>5, <1>6 DEF LogInvariant

\* A store whose rows become the stretch of the cursor that is installed.
LEMMA LogInstalled ==
  ASSUME LogInvariant, UNCHANGED <<collected, transit, page>>, queue' \in Seq(Nat),
         NEW cursor \in Nat, NEW rows, IsStretch(rows, cursor),
         rec' \in [cursor : {cursor}, buffer : Seq(Nat), querying : BOOLEAN],
         store' \in [rows : {rows}, revision : Nat, pending : BOOLEAN]
  PROVE  LogInvariant'
<1>1. LogTypes' BY DEF LogInvariant, LogTypes, IsStretch
<1>2. PageIsNewest' BY DEF LogInvariant, PageIsNewest
<1>3. rec'.cursor = cursor /\ store'.rows = rows OBVIOUS
<1>4. StoreIsStretch' BY <1>3, BufferAssumption DEF StoreIsStretch
<1> QED BY <1>1, <1>2, <1>4 DEF LogInvariant

\* A query is due again: what was installed stays as it is.
LEMMA LogRequeried ==
  ASSUME LogInvariant, UNCHANGED <<collected, transit, page>>, Requery,
         rec' \in [cursor : {rec.cursor}, buffer : Seq(Nat), querying : BOOLEAN]
  PROVE  LogInvariant'
<1>1. queue' \in Seq(Nat) /\ store' = store BY DEF Requery
<1>2. rec'.cursor = rec.cursor OBVIOUS
<1>3. LogTypes' BY <1>1 DEF LogInvariant, LogTypes
<1>4. PageIsNewest' BY DEF LogInvariant, PageIsNewest
<1>5. StoreIsStretch' BY <1>1, <1>2 DEF LogInvariant, StoreIsStretch
<1> QED BY <1>3, <1>4, <1>5 DEF LogInvariant

\* A record of the bus is appended or not, or a query is due again.
LEMMA FollowRecordStep ==
  ASSUME LogInvariant, FollowRecord PROVE LogInvariant'
<1> DEFINE n == Head(queue)
           o == Follow(rec, n)
           held == IF Len(rec.buffer) = BufferCapacity THEN Tail(rec.buffer) ELSE rec.buffer
<1>1. /\ rec \in [cursor : Nat \cup {None}, buffer : Seq(Nat), querying : BOOLEAN]
      /\ rec.cursor \in Nat \cup {None} /\ rec.buffer \in Seq(Nat) /\ rec.querying \in BOOLEAN
      /\ store \in [rows : Seq(Int), revision : Nat, pending : BOOLEAN]
      /\ store.revision \in Nat
  BY DEF LogInvariant, LogTypes
<1>2. queue \in Seq(Nat) /\ queue # <<>> /\ n \in Nat /\ Tail(queue) \in Seq(Nat)
  BY DEF FollowRecord, LogInvariant, LogTypes
<1>3. UNCHANGED <<collected, transit, page>> BY DEF FollowRecord
<1> HIDE DEF n
<1>4. CASE rec.querying
  <2>1. Append(held, n) \in Seq(Nat)
    <3>1. held \in Seq(Nat)
      <4>1. ASSUME Len(rec.buffer) = BufferCapacity PROVE Tail(rec.buffer) \in Seq(Nat)
        <5>1. rec.buffer # <<>> BY <4>1, BufferAssumption
        <5> QED BY <1>1, <5>1
      <4> QED BY <1>1, <4>1
    <3> QED BY <1>2, <3>1
  <2>2. o.outcome = "buffered" /\ o.r = [rec EXCEPT !.buffer = Append(held, n)]
    BY <1>4 DEF Follow, Hold
  <2> HIDE DEF held, o
  <2>3. rec' = [rec EXCEPT !.buffer = Append(held, n)] BY <2>2 DEF FollowRecord, n, o
  <2>4. rec' \in [cursor : {rec.cursor}, buffer : Seq(Nat), querying : BOOLEAN]
    BY <1>1, <2>1, <2>3
  <2>5. store' = store /\ queue' = Tail(queue)
    BY <2>2 DEF FollowRecord, Announce, n, o
  <2>6. LogTypes' BY <1>1, <1>2, <1>3, <2>4, <2>5 DEF LogInvariant, LogTypes
  <2>7. PageIsNewest' BY <1>3 DEF LogInvariant, PageIsNewest
  <2>8. StoreIsStretch' BY <2>4, <2>5 DEF LogInvariant, StoreIsStretch
  <2> QED BY <2>6, <2>7, <2>8 DEF LogInvariant
<1>5. CASE ~ rec.querying /\ rec.cursor # None /\ n = rec.cursor + 1
  <2> DEFINE rows == Newest(Append(store.rows, n), LogCapacity)
  <2>1. o.outcome = "append" /\ o.r = [rec EXCEPT !.cursor = n] BY <1>5 DEF Follow
  <2> HIDE DEF o
  <2>2. rec' = [rec EXCEPT !.cursor = n] BY <2>1 DEF FollowRecord, n, o
  <2>3. rec' \in [cursor : {n}, buffer : Seq(Nat), querying : BOOLEAN] BY <1>1, <2>2
  <2>4. store' = Record(store, n) /\ queue' = Tail(queue)
    BY <2>1 DEF FollowRecord, Announce, n, o
  <2>5. store' \in [rows : {rows}, revision : Nat, pending : BOOLEAN]
    BY <1>1, <2>4 DEF Record
  <2>6. IsStretch(store.rows, rec.cursor) BY <1>5 DEF LogInvariant, StoreIsStretch
  <2>7. rec.cursor \in Nat BY <1>1, <1>5
  <2>8. IsStretch(Append(store.rows, n), n) BY <1>5, <2>6, <2>7, AppendIsStretch
  <2>9. IsStretch(rows, n) BY <1>2, <2>8, NewestIsStretch, FeedAssumption
  <2> HIDE DEF rows
  <2> QED BY <1>2, <1>3, <2>3, <2>4, <2>5, <2>9, LogInstalled
<1>6. CASE ~ rec.querying /\ ~ (rec.cursor # None /\ n = rec.cursor + 1)
  <2> DEFINE buffer == IF rec.cursor = None THEN rec.buffer ELSE <<>>
  <2>1. buffer \in Seq(Nat) BY <1>1
  <2>2. o.outcome = "requery" /\ o.r = [[rec EXCEPT !.querying = TRUE] EXCEPT !.buffer = buffer]
    BY <1>1, <1>6 DEF Follow, BeginQuery
  <2> HIDE DEF o, buffer
  <2>3. rec' = [[rec EXCEPT !.querying = TRUE] EXCEPT !.buffer = buffer]
    BY <2>2 DEF FollowRecord, n, o
  <2>4. rec' \in [cursor : {rec.cursor}, buffer : Seq(Nat), querying : BOOLEAN]
    BY <1>1, <2>1, <2>3
  <2>5. Requery BY <2>2 DEF FollowRecord, n, o
  <2> QED BY <1>3, <2>4, <2>5, LogRequeried
<1> QED BY <1>4, <1>5, <1>6

\* A page and the replay after it replace the rows, or a query is due again.
LEMMA InstallPageStep ==
  ASSUME LogInvariant, InstallPage PROVE LogInvariant'
<1> DEFINE replay == Replay(page.cursor, rec.buffer)
           o == Install(rec, page.cursor)
           rows == page.records \o replay.items
           snapshot == InstallSnapshot(store, rows)
<1>1. /\ rec \in [cursor : Nat \cup {None}, buffer : Seq(Nat), querying : BOOLEAN]
      /\ rec.buffer \in Seq(Nat)
      /\ store \in [rows : Seq(Int), revision : Nat, pending : BOOLEAN]
      /\ store.revision \in Nat /\ queue \in Seq(Nat)
  BY DEF LogInvariant, LogTypes
<1>2. page.cursor \in Nat /\ page.records = Newest(Counting(1, page.cursor), Page)
  BY DEF LogInvariant, PageIsNewest
<1>3. UNCHANGED <<collected, transit, page>> BY DEF InstallPage
<1>4. Continues(replay, page.cursor) BY <1>1, <1>2, ReplayContinues
<1>5. replay.cursor \in Nat /\ replay.items \in Seq(Nat) BY <1>4 DEF Continues
<1>6. IsStretch(rows, replay.cursor)
  <2>1. IsStretch(page.records, page.cursor)
    BY <1>2, CountingIsStretch, NewestIsStretch, FeedAssumption
  <2> HIDE DEF replay
  <2> QED BY <1>2, <1>4, <2>1, JoinIsStretch
<1>7. IsStretch(Newest(rows, LogCapacity), replay.cursor)
  <2> HIDE DEF rows, replay
  <2> QED BY <1>5, <1>6, NewestIsStretch, FeedAssumption
<1>8. o = IF replay.hole
          THEN [outcome |-> "requery", replay |-> <<>>,
                r |-> [BeginQuery(rec) EXCEPT !.buffer = <<>>]]
          ELSE [outcome |-> "installed", replay |-> replay.items,
                r |-> [cursor |-> replay.cursor, buffer |-> <<>>, querying |-> FALSE]]
  BY DEF Install
<1>9. /\ rec' = o.r
      /\ IF o.outcome = "requery" THEN Requery
         ELSE Announce(InstallSnapshot(store, page.records \o o.replay)) /\ queue' = queue
  BY DEF InstallPage
<1> HIDE DEF replay, o
<1>10. CASE replay.hole
  <2>1. rec' = [[rec EXCEPT !.querying = TRUE] EXCEPT !.buffer = <<>>] /\ Requery
    BY <1>8, <1>9, <1>10 DEF BeginQuery
  <2> DEFINE asking == [rec EXCEPT !.querying = TRUE]
  <2>2. asking \in [cursor : {rec.cursor}, buffer : Seq(Nat), querying : BOOLEAN] BY <1>1
  <2>3. rec' = [asking EXCEPT !.buffer = <<>>] BY <2>1
  <2> HIDE DEF asking
  <2>4. \A b \in Seq(Nat) :
          [asking EXCEPT !.buffer = b] \in
            [cursor : {rec.cursor}, buffer : Seq(Nat), querying : BOOLEAN]
    BY <2>2
  <2>5. <<>> \in Seq(Nat) OBVIOUS
  <2>6. rec' \in [cursor : {rec.cursor}, buffer : Seq(Nat), querying : BOOLEAN]
    BY <2>3, <2>4, <2>5
  <2> QED BY <1>3, <2>1, <2>6, LogRequeried
<1>11. CASE ~ replay.hole
  <2>1. rec' = [cursor |-> replay.cursor, buffer |-> <<>>, querying |-> FALSE]
    BY <1>8, <1>9, <1>11
  <2>2. rec' \in [cursor : {replay.cursor}, buffer : Seq(Nat), querying : BOOLEAN] BY <2>1
  <2>3. store' = snapshot /\ queue' = queue BY <1>8, <1>9, <1>11 DEF Announce
  <2>4. CASE rows = store.rows
    <3>1. store' = store BY <2>3, <2>4 DEF InstallSnapshot
    <3>2. store' \in [rows : {rows}, revision : Nat, pending : BOOLEAN] BY <1>1, <2>4, <3>1
    <3> HIDE DEF rows, snapshot
    <3> QED BY <1>1, <1>3, <1>5, <1>6, <2>2, <2>3, <3>2, LogInstalled
  <2>5. CASE rows # store.rows
    <3>1. Len(rows) \in Nat
      <4> HIDE DEF rows
      <4>1. rows \in Seq(Int) BY <1>6 DEF IsStretch
      <4> QED BY <4>1
    <3>2. store' = [rows |-> Newest(rows, LogCapacity),
                    revision |-> store.revision + Len(rows) + 1, pending |-> TRUE]
      BY <2>3, <2>5 DEF InstallSnapshot
    <3> HIDE DEF rows, snapshot
    <3>3. store' \in [rows : {Newest(rows, LogCapacity)}, revision : Nat, pending : BOOLEAN]
      BY <1>1, <3>1, <3>2
    <3> QED BY <1>1, <1>3, <1>5, <1>7, <2>2, <2>3, <3>3, LogInstalled
  <2> QED BY <2>4, <2>5
<1> QED BY <1>10, <1>11

\* A reader takes the announcement, not the rows.
LEMMA ReadStoreStep ==
  ASSUME LogInvariant, NEW q, ReadStore(q) PROVE LogInvariant'
<1>1. /\ store \in [rows : Seq(Int), revision : Nat, pending : BOOLEAN]
      /\ collected \in Nat /\ transit \in Seq(Nat) /\ queue \in Seq(Nat)
  BY DEF LogInvariant, LogTypes
<1>2. store' = [store EXCEPT !.pending = FALSE] BY DEF ReadStore
<1>3. /\ store' \in [rows : Seq(Int), revision : Nat, pending : BOOLEAN]
      /\ store'.rows = store.rows
  BY <1>1, <1>2
<1>4. UNCHANGED <<collected, transit, queue, page, rec>> BY DEF ReadStore, bus, task
<1> QED BY <1>1, <1>3, <1>4, LogUnchanged

\* The other steps change nothing the invariant speaks of.
LEMMA OtherLogSteps ==
  ASSUME LogInvariant, UNCHANGED <<collected, transit, queue, page, rec, store>>
  PROVE  LogInvariant'
BY LogUnchanged DEF LogInvariant, LogTypes

\* Every step of the log keeps its invariant.
LEMMA LogStep ==
  ASSUME LogInvariant, [LogNext]_logVars PROVE LogInvariant'
<1>1. CASE Collect \/ Deliver \/ Lose BY <1>1, BusSteps
<1>2. CASE Answer BY <1>2, AnswerStep
<1>3. CASE Ask BY <1>3, AskStep
<1>4. CASE InstallPage BY <1>4, InstallPageStep
<1>5. CASE FollowRecord BY <1>5, FollowRecordStep
<1>6. CASE Send BY <1>6, OtherLogSteps DEF Send, bus
<1>7. CASE Retry \/ FeedFails BY <1>7, OtherLogSteps DEF Retry, FeedFails, bus
<1>8. CASE \E q \in reads : ReadStore(q) BY <1>8, ReadStoreStep
<1>9. CASE Dashboard BY <1>9, OtherLogSteps DEF Dashboard, PushChanged, PushReply, Drain, bus, task
<1>10. CASE Operator
  <2>1. UNCHANGED <<bus, task, store>>
    BY <1>10 DEF Operator, ChangeFilter, Pause, Resume, Jump, Tap
  <2> QED BY <2>1, OtherLogSteps DEF bus, task
<1>11. CASE UNCHANGED logVars BY <1>11, OtherLogSteps DEF logVars, bus, task
<1> QED
  BY <1>1, <1>2, <1>3, <1>4, <1>5, <1>6, <1>7, <1>8, <1>9, <1>10, <1>11 DEF LogNext, FeedStep

\* Whatever the bus loses or delivers late, the store of the log holds an
\* unbroken stretch of the supervisor's history that ends at the cursor that is
\* installed (reconcile.rs, attach/feeds/logs.rs, attach/state/logs.rs).
THEOREM StoreKeepsNoHole == LogSpec => []StoreHasNoHole
<1>1. ASSUME LogInvariant PROVE StoreHasNoHole
  <2>1. StoreIsStretch BY <1>1 DEF LogInvariant
  <2>2. rec.cursor \in Nat \cup {None} BY <1>1 DEF LogInvariant, LogTypes
  <2>3. CASE rec.cursor = None BY <2>1, <2>3 DEF StoreIsStretch, StoreHasNoHole
  <2>4. CASE rec.cursor # None
    BY <2>1, <2>2, <2>4, StretchIsCounting DEF StoreIsStretch, StoreHasNoHole
  <2> QED BY <2>3, <2>4
<1>2. LogInit => LogInvariant BY LogInitial
<1>3. LogInvariant /\ [LogNext]_logVars => LogInvariant' BY LogStep
<1> QED BY <1>1, <1>2, <1>3, PTL DEF LogSpec
=============================================================================
