----------------------------- MODULE RunCommand -----------------------------
(***************************************************************************)
(* A command that drives an execution.  One that launches it goes through  *)
(* the startup, and when that hands the terminal over, the session behind  *)
(* the dashboard; one that attaches drives the session at once             *)
(* (cli/src/application/lifecycle.rs run_command, start_command,           *)
(* attach_command, and the end of connect_fresh_execution in               *)
(* simulation/connect.rs).                                                 *)
(*                                                                         *)
(* Abstraction: the application starts when the presenter has ended; what  *)
(* the startup knew is forgotten then, the session starts its own watches. *)
(***************************************************************************)
EXTENDS SessionDrive, Startup

runVars == <<driveVars, startupVars>>

\* What the startup knew, forgotten.
NoLaunch == [mode |-> "Native", drives |-> TRUE, off |-> FALSE, asked |-> {}, selected |-> {}]
AllSpent == [snapshots |-> MaxSnapshots, traces |-> MaxTraces]

\* attach_command: an execution that answers is driven without a startup.
AttachInit ==
  /\ DriveInit /\ Own(FALSE)
  /\ step = "driving" /\ launch = NoLaunch
  /\ checklist = <<>> /\ closed = TRUE /\ presenting = "ended"
  /\ routed = "dashboard" /\ diagnostics = <<>>
  /\ cancelled = FALSE
  /\ snapshot = NoSnapshot /\ news = FALSE /\ facts = {}
  /\ report = "nothing" /\ terminal = "dashboard"
  /\ scribbled = FALSE /\ earned = FALSE /\ spent = AllSpent

RunInit == (LaunchedInit /\ StartupInit) \/ AttachInit

\* drive_launched_session.
EnterDashboard ==
  /\ step = "handed-over" /\ terminal = "dashboard" /\ presenting = "ended"
  /\ step' = "driving" /\ launch' = NoLaunch
  /\ checklist' = <<>> /\ diagnostics' = <<>>
  /\ cancelled' = FALSE
  /\ snapshot' = NoSnapshot /\ news' = FALSE /\ facts' = {}
  /\ spent' = AllSpent
  /\ UNCHANGED <<driveVars, closed, presenting, routed, report, terminal, scribbled,
                 earned>>

\* The command has returned without a dashboard.
ReturnedEarly == step = "over" /\ UNCHANGED runVars

RunNext ==
  \/ StartupNext /\ UNCHANGED driveVars
  \/ EnterDashboard
  \/ step = "driving" /\ DriveNext /\ UNCHANGED startupVars
  \/ ReturnedEarly

RunSpec == RunInit /\ [][RunNext]_runVars
=============================================================================
