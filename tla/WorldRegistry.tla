--------------------------- MODULE WorldRegistry ---------------------------
(***************************************************************************)
(* Simulation worlds as they are found on disk and in the process table:   *)
(* the registration and the lease of a live world, its durable checkpoint, *)
(* its terminal summary, the native process group its host owns            *)
(* (crates/host/src/world/).  Every CLI process may probe a world, recover *)
(* one whose host was lost, and prune old evidence, with no other          *)
(* coordination than the lease's lock.                                     *)
(*                                                                         *)
(* The host itself is another program and external: it persists its        *)
(* checkpoint, registers under a held lease, and when it ends publishes    *)
(* its summary and removes its registration; it may also be lost at any    *)
(* moment.                                                                 *)
(*                                                                         *)
(* Abstractions: a world registers once, so the identity of its files is   *)
(* the world; a pid names the host or another process, which the birth     *)
(* check tells apart; a summary is who wrote it; documents always parse.   *)
(***************************************************************************)
EXTENDS Naturals, Sequences, SequencesExt, FiniteSets

CONSTANTS
  World,        \* world instances
  Client,       \* CLI processes
  None,
  Serving,      \* worlds that may run already
  Retained,     \* worlds that have ended, with their evidence
  Retention,    \* DEFAULT_TERMINAL_SESSION_LIMIT
  MaxLosses,    \* bound: hosts that are lost
  PidsReused    \* whether the pid of a lost native process is used again

ASSUME WorldAssumption ==
  /\ None \notin World \cup Client 
  /\ None \notin {"host", "hostlost", "live", "stale", "missing"}
  /\ Serving \cup Retained \subseteq World /\ Serving \cap Retained = {}
  /\ MaxLosses \in Nat /\ Retention \in Nat /\ PidsReused \in BOOLEAN
  /\ "host" \notin Client

VARIABLES
  registration, \* worlds whose <instance>.json exists
  leaseFile,    \* worlds whose <instance>.lease exists
  lock,         \* who holds the lock of a lease
  evidence,     \* worlds whose evidence directory exists
  checkpoint,   \* worlds with a checkpoint that names the native process
  summary,      \* who wrote the terminal summary
  ended,        \* the worlds with a summary, in the order of ended_at
  host,         \* the host process: none, booting, persisted, serving, stopping,
                \* exiting, gone
  native,       \* what the checkpointed native process group names now: none,
                \* ours, leaderless, gone, foreign
  wronged,      \* history: worlds for which a foreign group was signalled
  pruned,       \* history: worlds whose evidence was pruned
  losses,       \* hosts lost so far
  pc, goal, then, found, signal,  \* a client's probe or recovery
  victims       \* the evidence a client is about to prune

files     == <<registration, leaseFile, evidence, checkpoint, summary, ended>>
processes == <<host, native>>
history   == <<wronged, pruned, losses>>
probing   == <<goal, then, found, signal>>
worldVars == <<files, lock, processes, history, pc, probing, victims>>

HostAlive(w) == host[w] \notin {"none", "gone"}
HostRuns(w) == host[w] \in {"booting", "persisted", "serving", "stopping"}

\* The worlds that serve at the start, if any.
WorldInit ==
  \E serving \in {{}, Serving} :
  /\ registration = serving /\ leaseFile = serving
  /\ evidence = serving \cup Retained /\ checkpoint = serving \cup Retained
  /\ summary = [w \in World |-> IF w \in Retained THEN "host" ELSE None]
  /\ ended \in SetToSeqs(Retained)
  /\ lock = [w \in World |-> IF w \in serving THEN "host" ELSE None]
  /\ host = [w \in World |-> IF w \in serving THEN "serving"
                            ELSE IF w \in Retained THEN "gone" ELSE "none"]
  /\ native = [w \in World |-> IF w \in serving THEN "ours"
                              ELSE IF w \in Retained THEN "gone" ELSE "none"]
  /\ wronged = {} /\ pruned = {} /\ losses = 0
  /\ pc = [c \in Client |-> "idle"]
  /\ goal = [c \in Client |-> None] /\ then = [c \in Client |-> None]
  /\ found = [c \in Client |-> None] /\ signal = [c \in Client |-> None]
  /\ victims = [c \in Client |-> {}]

(***************************************************************************)
(* The host and its native process group (external).                       *)
(***************************************************************************)
\* It persists its checkpoint before it registers.
HostPersists(w) ==
  /\ host[w] = "booting"
  /\ host' = [host EXCEPT ![w] = "persisted"]
  /\ native' = [native EXCEPT ![w] = "ours"]
  /\ evidence' = evidence \cup {w}
  /\ checkpoint' = checkpoint \cup {w}
  /\ UNCHANGED <<registration, leaseFile, summary, ended, lock, history, pc, probing, victims>>

HostRegisters(w) ==
  /\ host[w] = "persisted"
  /\ host' = [host EXCEPT ![w] = "serving"]
  /\ registration' = registration \cup {w}
  /\ leaseFile' = leaseFile \cup {w}
  /\ lock' = [lock EXCEPT ![w] = "host"]
  /\ UNCHANGED <<evidence, checkpoint, summary, ended, native, history, pc, probing, victims>>

Summarise(w, writer) ==
  /\ summary' = [summary EXCEPT ![w] = writer]
  /\ ended' = Append(ended, w)

\* An orderly end: the native group first, then the summary ...
HostSummarises(w) ==
  /\ host[w] = "stopping" /\ w \in evidence /\ summary[w] = None
  /\ native' = [native EXCEPT ![w] = "gone"]
  /\ Summarise(w, "host")
  /\ UNCHANGED <<registration, leaseFile, evidence, checkpoint, lock, host, history, pc, probing, victims>>

\* ... then the registration, and with the process the lease.
HostUnregisters(w) ==
  /\ host[w] = "stopping" /\ (summary[w] # None \/ w \notin evidence)
  /\ registration' = registration \ {w}
  /\ leaseFile' = leaseFile \ {w}
  /\ lock' = [lock EXCEPT ![w] = None]
  /\ host' = [host EXCEPT ![w] = "exiting"]
  /\ UNCHANGED <<evidence, checkpoint, summary, ended, native, history, pc, probing, victims>>

\* The kernel closes a dying process's files, and with them the lock of the
\* lease, before the process leaves the process table.
HostLost(w) ==
  /\ HostRuns(w) /\ losses < MaxLosses
  /\ losses' = losses + 1
  /\ host' = [host EXCEPT ![w] = "exiting"]
  /\ lock' = [lock EXCEPT ![w] = IF @ = "host" THEN None ELSE @]
  /\ UNCHANGED <<files, native, wronged, pruned, pc, probing, victims>>

HostReaped(w) ==
  /\ host[w] = "exiting"
  /\ host' = [host EXCEPT ![w] = "gone"]
  /\ UNCHANGED <<files, lock, native, history, pc, probing, victims>>

\* What an adapter process that outlives its host still writes.
LateSummary(w) ==
  /\ host[w] \in {"exiting", "gone"} /\ w \in evidence
  /\ summary[w] = None
  /\ Summarise(w, "host")
  /\ UNCHANGED <<registration, leaseFile, evidence, checkpoint, lock, processes, history, pc, probing, victims>>

\* The group of an orphan: its leader may end before the others, and once it
\* is empty its number may name another group.  A reuse in the instant
\* between a validation and its signal is left out.
NativeChanges(w) ==
  /\ \/ /\ native[w] = "ours" /\ ~HostRuns(w)
        /\ \E next \in {"leaderless", "gone"} : native' = [native EXCEPT ![w] = next]
     \/ /\ native[w] \in {"leaderless", "foreign"}
        /\ native' = [native EXCEPT ![w] = "gone"]
     \/ /\ PidsReused /\ native[w] = "gone" /\ ~HostRuns(w)
        /\ ~\E c \in Client : pc[c] = "signal" /\ goal[c] = w
        /\ native' = [native EXCEPT ![w] = "foreign"]
  /\ UNCHANGED <<files, lock, host, history, pc, probing, victims>>

(***************************************************************************)
(* WorldRegistry::probe.                                                   *)
(***************************************************************************)
\* flock, which never waits.
LockIfFree(w, c) == IF lock[w] = None THEN c ELSE lock[w]

\* read_summary and read_checkpoint; a world without evidence has neither.
ReadSummary(w) == summary[w]
HasCheckpoint(w) == w \in checkpoint

Released(c) == [w \in World |-> IF lock[w] = c THEN None ELSE lock[w]]

\* `?`: the call returns its error and drops the files it holds.
Fail(c) ==
  /\ pc' = [pc EXCEPT ![c] = "failing"]
  /\ lock' = Released(c)

Return(c, result) ==
  /\ pc' = [pc EXCEPT ![c] = then[c]]
  /\ found' = [found EXCEPT ![c] = result]

OpenRegistration(c) ==
  /\ pc[c] = "probe"
  /\ IF goal[c] \in registration
     THEN pc' = [pc EXCEPT ![c] = "lease"] /\ UNCHANGED found
     ELSE Return(c, "missing")
  /\ UNCHANGED <<files, lock, processes, history, goal, then, signal, victims>>

TryLease(c) ==
  /\ pc[c] = "lease"
  /\ IF goal[c] \in leaseFile
     THEN /\ pc' = [pc EXCEPT ![c] = "judge"]
          /\ lock' = [lock EXCEPT ![goal[c]] = LockIfFree(goal[c], c)]
     ELSE Fail(c)
  /\ UNCHANGED <<files, processes, history, probing, victims>>

\* Mutant: an unlocked lease alone makes a world stale.
JudgeByLease(c) ==
  /\ pc[c] = "judge"
  /\ LET acquired == lock[goal[c]] = c
     IN  /\ Return(c, IF acquired THEN "stale" ELSE "live")
         /\ lock' = IF then[c] = "recover" THEN lock ELSE Released(c)
  /\ UNCHANGED <<files, processes, history, goal, then, signal, victims>>

\* Only a recovery keeps the lease of a stale world beyond the probe.
Judge(c) ==
  /\ pc[c] = "judge"
  /\ LET acquired == lock[goal[c]] = c
         matches  == HostAlive(goal[c])
     IN  IF acquired = matches
         THEN Fail(c) /\ UNCHANGED found
         ELSE /\ Return(c, IF acquired THEN "stale" ELSE "live")
              /\ lock' = IF then[c] = "recover" THEN lock ELSE Released(c)
  /\ UNCHANGED <<files, processes, history, goal, then, signal, victims>>

(***************************************************************************)
(* recover_host_loss.  The lease stays locked until the end.               *)
(***************************************************************************)
Recover(c) ==
  LET w == goal[c] IN
  /\ pc[c] = "recover"
  /\ \/ /\ found[c] = "missing"
        /\ found' = [found EXCEPT ![c] = ReadSummary(w)]
        /\ pc' = [pc EXCEPT ![c] = "recovered"]
        /\ UNCHANGED lock
     \/ /\ found[c] = "live"
        /\ found' = [found EXCEPT ![c] = None]
        /\ pc' = [pc EXCEPT ![c] = "recovered"]
        /\ UNCHANGED lock
     \/ /\ found[c] = "stale" /\ ReadSummary(w) # None
        /\ found' = [found EXCEPT ![c] = ReadSummary(w)]
        /\ pc' = [pc EXCEPT ![c] = "unregister"]
        /\ UNCHANGED lock
     \/ /\ found[c] = "stale" /\ ReadSummary(w) = None /\ HasCheckpoint(w)
        /\ pc' = [pc EXCEPT ![c] = "grace"]
        /\ UNCHANGED <<lock, found>>
     \/ /\ found[c] = "stale" /\ ReadSummary(w) = None /\ ~HasCheckpoint(w)
        /\ Fail(c) /\ UNCHANGED found
  /\ UNCHANGED <<files, processes, history, goal, then, signal, victims>>

GroupAlive(w) == native[w] \in {"ours", "leaderless", "foreign"}

\* What the process table says of the group's leader: its birth, its program and
\* its group are the checkpoint's.
LeaderObserved(w) == native[w] = "ours"

Grace(c) ==
  /\ pc[c] = "grace"
  /\ pc' = [pc EXCEPT ![c] = IF GroupAlive(goal[c]) THEN "validate" ELSE "reread"]
  /\ signal' = [signal EXCEPT ![c] = "term"]
  /\ UNCHANGED <<files, lock, processes, history, goal, then, found, victims>>

\* The leader must be there, and be the one that was recorded.
Validate(c) ==
  /\ pc[c] = "validate"
  /\ IF LeaderObserved(goal[c])
     THEN pc' = [pc EXCEPT ![c] = "signal"] /\ UNCHANGED lock
     ELSE Fail(c)
  /\ UNCHANGED <<files, processes, history, probing, victims>>

\* A group may ignore SIGTERM; SIGKILL may find it in uninterruptible sleep.
Signal(c) ==
  LET w == goal[c] IN
  /\ pc[c] = "signal"
  /\ pc' = [pc EXCEPT ![c] = "await"]
  /\ wronged' = IF native[w] = "foreign" THEN wronged \cup {w} ELSE wronged
  /\ \E next \in {native[w], "gone"} : native' = [native EXCEPT ![w] = next]
  /\ UNCHANGED <<files, lock, host, pruned, losses, probing, victims>>

\* Mutant: the group is validated once, before SIGTERM.
AwaitWithoutRevalidation(c) ==
  /\ pc[c] = "await"
  /\ \/ /\ ~GroupAlive(goal[c])
        /\ pc' = [pc EXCEPT ![c] = "reread"]
        /\ UNCHANGED <<lock, signal>>
     \/ /\ GroupAlive(goal[c]) /\ signal[c] = "term"
        /\ pc' = [pc EXCEPT ![c] = "signal"]
        /\ signal' = [signal EXCEPT ![c] = "kill"]
        /\ UNCHANGED lock
     \/ /\ GroupAlive(goal[c]) /\ signal[c] = "kill"
        /\ Fail(c) /\ UNCHANGED signal
  /\ UNCHANGED <<files, processes, history, goal, then, found, victims>>

Await(c) ==
  /\ pc[c] = "await"
  /\ \/ /\ ~GroupAlive(goal[c])
        /\ pc' = [pc EXCEPT ![c] = "reread"]
        /\ UNCHANGED <<lock, signal>>
     \/ /\ GroupAlive(goal[c]) /\ signal[c] = "term"
        /\ pc' = [pc EXCEPT ![c] = "validate"]
        /\ signal' = [signal EXCEPT ![c] = "kill"]
        /\ UNCHANGED lock
     \/ /\ GroupAlive(goal[c]) /\ signal[c] = "kill"
        /\ Fail(c) /\ UNCHANGED signal
  /\ UNCHANGED <<files, processes, history, goal, then, found, victims>>

Reread(c) ==
  /\ pc[c] = "reread"
  /\ IF ReadSummary(goal[c]) # None
     THEN /\ found' = [found EXCEPT ![c] = ReadSummary(goal[c])]
          /\ pc' = [pc EXCEPT ![c] = "unregister"]
     ELSE /\ pc' = [pc EXCEPT ![c] = "publish"]
          /\ UNCHANGED found
  /\ UNCHANGED <<files, lock, processes, history, goal, then, signal, victims>>

\* Mutant: the summary is renamed into place over another one.
PublishOver(c) ==
  LET w == goal[c] IN
  /\ pc[c] = "publish"
  /\ IF w \in evidence
     THEN /\ Summarise(w, "hostlost")
          /\ found' = [found EXCEPT ![c] = "hostlost"]
          /\ pc' = [pc EXCEPT ![c] = "unregister"]
          /\ UNCHANGED lock
     ELSE Fail(c) /\ UNCHANGED <<summary, ended, found>>
  /\ UNCHANGED <<registration, leaseFile, evidence, checkpoint, processes, history, goal, then, signal, victims>>

\* The members and the logs that the summary indexes are read first; without the
\* directory of the world there are none.
IndexReadable(w) == w \in evidence

\* A hard link from a temporary file, which fails if the name exists; then
\* the summary that is there is the one returned.
PublishRecovered(c) ==
  LET w == goal[c] IN
  /\ pc[c] = "publish"
  /\ \/ /\ IndexReadable(w) /\ summary[w] = None
        /\ Summarise(w, "hostlost")
        /\ found' = [found EXCEPT ![c] = "hostlost"]
        /\ pc' = [pc EXCEPT ![c] = "unregister"]
        /\ UNCHANGED lock
     \/ /\ IndexReadable(w) /\ summary[w] # None
        /\ found' = [found EXCEPT ![c] = summary[w]]
        /\ pc' = [pc EXCEPT ![c] = "unregister"]
        /\ UNCHANGED <<lock, summary, ended>>
     \/ /\ ~IndexReadable(w)
        /\ Fail(c) /\ UNCHANGED <<summary, ended, found>>
  /\ UNCHANGED <<registration, leaseFile, evidence, checkpoint, processes, history, goal, then, signal, victims>>

\* remove_exact, one file after the other.
Unregister(c) ==
  /\ pc[c] = "unregister"
  /\ IF goal[c] \in registration
     THEN /\ registration' = registration \ {goal[c]}
          /\ pc' = [pc EXCEPT ![c] = "unlease"]
          /\ UNCHANGED lock
     ELSE Fail(c) /\ UNCHANGED registration
  /\ UNCHANGED <<leaseFile, evidence, checkpoint, summary, ended, processes, history, probing, victims>>

Unlease(c) ==
  /\ pc[c] = "unlease"
  /\ IF goal[c] \in leaseFile
     THEN /\ leaseFile' = leaseFile \ {goal[c]}
          /\ pc' = [pc EXCEPT ![c] = "recovered"]
          /\ lock' = Released(c)
     ELSE Fail(c) /\ UNCHANGED leaseFile
  /\ UNCHANGED <<registration, evidence, checkpoint, summary, ended, processes, history, probing, victims>>

(***************************************************************************)
(* WorldEvidence::prune, given the worlds the caller found live.           *)
(***************************************************************************)
\* The sessions whose evidence holds a summary.
Candidates(live) == {w \in evidence \ live : summary[w] # None}

EndedBefore(v, w) ==
  \E i, j \in 1..Len(ended) : i < j /\ ended[i] = v /\ ended[j] = w

\* All but the Retention that ended last.
Oldest(candidates) ==
  {w \in candidates :
     Cardinality({v \in candidates : EndedBefore(w, v)}) >= Retention}

Prune(c, live, next) ==
  LET oldest == Oldest(Candidates(live)) IN
  /\ victims' = [victims EXCEPT ![c] = oldest]
  /\ then' = [then EXCEPT ![c] = next]
  /\ pc' = [pc EXCEPT ![c] = IF oldest = {} THEN next ELSE "pruning"]

\* In the order they ended; a directory another prune has removed already is
\* an error.
PruneOne(c) ==
  /\ pc[c] = "pruning"
  /\ \E w \in victims[c] :
       /\ \A v \in victims[c] \ {w} : EndedBefore(w, v)
       /\ \/ /\ w \in evidence
             /\ evidence' = evidence \ {w}
             /\ checkpoint' = checkpoint \ {w}
             /\ summary' = [summary EXCEPT ![w] = None]
             /\ pruned' = pruned \cup {w}
             /\ victims' = [victims EXCEPT ![c] = @ \ {w}]
             /\ pc' = [pc EXCEPT ![c] = IF victims[c] = {w} THEN then[c] ELSE @]
             /\ UNCHANGED lock
          \/ /\ w \notin evidence
             /\ Fail(c)
             /\ victims' = [victims EXCEPT ![c] = {}]
             /\ UNCHANGED <<evidence, checkpoint, summary, pruned>>
  /\ UNCHANGED <<registration, leaseFile, ended, processes, wronged, losses, probing>>

RegistryStep(c) ==
  \/ OpenRegistration(c) \/ TryLease(c) \/ Judge(c)
  \/ Recover(c) \/ Grace(c) \/ Validate(c) \/ Signal(c) \/ Await(c)
  \/ Reread(c) \/ PublishRecovered(c) \/ Unregister(c) \/ Unlease(c)
  \/ PruneOne(c)
=============================================================================
