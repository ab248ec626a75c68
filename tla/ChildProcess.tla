---------------------------- MODULE ChildProcess ----------------------------
(***************************************************************************)
(* One call of child_process::output, through which the manager runs every *)
(* external command: the CLI, PowerShell, the installer scripts, the       *)
(* queries of macOS.  The command may start descendants that outlive it,   *)
(* hold its output open and fork while they are being killed.  On Unix     *)
(* they form a process group, on Windows a job object.                     *)
(*                                                                         *)
(* Time is counted in the sleeps of the loops (10 ms each); what happens   *)
(* between two of them takes no time.  A descendant that leaves the group  *)
(* (setsid) is not one of Procs.                                           *)
(***************************************************************************)
EXTENDS Naturals

CONSTANTS
  Procs,      \* numbers of the processes the command may consist of
  Leader,     \* the one the manager spawns
  Stubborn,   \* descendants the manager may not signal (another user's)
  Deadline,   \* the timeout of the call, in sleeps
  Grace,      \* the two seconds of reap and finish, in sleeps
  Races       \* assumption: how many scans may be misled by a fork in flight

ASSUME ChildAssumption ==
  /\ Leader \in Procs
  /\ Stubborn \subseteq Procs \ {Leader}
  /\ Deadline \in Nat /\ Grace \in Nat
  /\ Races \in {0, 1}

VARIABLES
  windows,    \* the platform
  proc,       \* the processes
  over,       \* the output has exceeded 16 MiB
  pc,         \* the place of the calling thread
  reply,      \* what output will answer
  dropping,   \* finish runs in Tree's drop, its error ignored
  scans,      \* empty_scans
  finished,   \* Tree.finished
  waited,     \* sleeps since reap or finish began
  elapsed,    \* sleeps since the call began
  races       \* scans misled so far

vars == <<windows, proc, over, pc, reply, dropping, scans, finished, waited,
          elapsed, races>>

\* A process in flight is being created by a fork that has not yet returned:
\* neither a signal to the group nor a scan sees it.  A dying one has been
\* killed and has not ended, a zombie has ended and is not reaped.
States == {"none", "suspended", "flight", "live", "dying", "zombie", "gone"}

Places == {"idle", "attach", "poll", "terminate", "reap", "finish", "scan",
           "nap", "read", "drop", "answered"}

In(states) == {p \in Procs : proc[p] \in states}
Executing == In({"live", "dying"})
InFlight == In({"flight"})
Quiet == Executing = {} /\ InFlight = {}

Init ==
  /\ windows \in BOOLEAN
  /\ proc = [p \in Procs |-> "none"]
  /\ over = FALSE
  /\ pc = "idle" /\ reply = "none" /\ dropping = FALSE
  /\ scans = 0 /\ finished = FALSE
  /\ waited = 0 /\ elapsed = 0 /\ races = 0

Goto(from, to) == pc = from /\ pc' = to

-----------------------------------------------------------------------------
(* The command and its descendants.                                        *)

Becomes(p, states, state) ==
  /\ proc[p] \in states
  /\ proc' = [proc EXCEPT ![p] = state]
  /\ UNCHANGED <<windows, over, pc, reply, dropping, scans, finished, waited,
                 elapsed, races>>

\* A descendant of a process the manager may not signal is one as well.  The
\* job object takes a new process in before it can be seen without it.
Fork(p, q) ==
  /\ proc[p] = "live"
  /\ p \in Stubborn => q \in Stubborn
  /\ Becomes(q, {"none"}, IF windows THEN "live" ELSE "flight")

Land(p) == Becomes(p, {"flight"}, "live")
End(p) == Becomes(p, {"live", "dying"}, "zombie")

Emit(p) ==
  /\ proc[p] = "live"
  /\ over' = TRUE
  /\ UNCHANGED <<windows, proc, pc, reply, dropping, scans, finished, waited,
                 elapsed, races>>

-----------------------------------------------------------------------------
(* The calling thread: starting the command.                               *)

Spawn ==
  /\ Goto("idle", "attach")
  /\ proc' = [proc EXCEPT ![Leader] = IF windows THEN "suspended" ELSE "live"]
  /\ UNCHANGED <<windows, over, reply, dropping, scans, finished, waited,
                 elapsed, races>>

\* No capture directory, no file in it, or no such program.
SpawnFails ==
  /\ Goto("idle", "answered")
  /\ reply' = "error"
  /\ UNCHANGED <<windows, proc, over, dropping, scans, finished, waited,
                 elapsed, races>>

Attach ==
  /\ Goto("attach", "poll")
  /\ proc' = IF windows THEN [proc EXCEPT ![Leader] = "live"] ELSE proc
  /\ UNCHANGED <<windows, over, reply, dropping, scans, finished, waited,
                 elapsed, races>>

\* The job object cannot be set up: the command never runs.
AttachFails ==
  /\ windows
  /\ Goto("attach", "reap")
  /\ proc' = [proc EXCEPT ![Leader] = "dying"]
  /\ reply' = "error"
  /\ UNCHANGED <<windows, over, dropping, scans, finished, waited, elapsed,
                 races>>

-----------------------------------------------------------------------------
(* Waiting for it: the exit is looked at first, then the size, then the    *)
(* deadline.                                                               *)

Sleep ==
  /\ waited' = waited + 1 /\ elapsed' = elapsed + 1
  /\ UNCHANGED <<windows, proc, over, reply, dropping, scans, finished, races>>

Exited == proc[Leader] = "zombie"

Collect ==
  /\ Goto("poll", "finish")
  /\ Exited
  /\ proc' = [proc EXCEPT ![Leader] = "gone"]
  /\ waited' = 0
  /\ UNCHANGED <<windows, over, reply, dropping, scans, finished, elapsed,
                 races>>

GiveUp(answer) ==
  /\ Goto("poll", "terminate")
  /\ ~Exited
  /\ reply' = answer
  /\ UNCHANGED <<windows, proc, over, dropping, scans, finished, waited,
                 elapsed, races>>

TooLarge == over /\ GiveUp("toolarge")
Late == ~over /\ elapsed >= Deadline /\ GiveUp("timeout")

PollAgain ==
  /\ pc = "poll"
  /\ ~Exited /\ ~over /\ elapsed < Deadline
  /\ elapsed' = elapsed + 1
  /\ UNCHANGED <<windows, proc, over, pc, reply, dropping, scans, finished,
                 waited, races>>

-----------------------------------------------------------------------------
(* Ending it: Tree::terminate, reap and Tree::finish.                      *)

\* Bug: only the process the manager spawned is killed.
KilledLeader ==
  [p \in Procs |-> IF p = Leader /\ proc[p] = "live" THEN "dying" ELSE proc[p]]

\* killpg reaches the members it may signal; terminating a job reaches all.
Killed ==
  [p \in Procs |->
     IF proc[p] = "live" /\ (windows \/ p \notin Stubborn) THEN "dying"
     ELSE proc[p]]

\* Nobody is left, or somebody can be signalled; zombies count on Linux and
\* not on Darwin, where terminate looks for itself.
Killable ==
  \/ windows
  \/ Executing = {}
  \/ In({"live", "dying", "zombie"}) \ Stubborn # {}

Unkillable == windows \/ (Executing # {} /\ Executing \subseteq Stubborn)

Terminate ==
  /\ Goto("terminate", "reap")
  /\ Killable
  /\ proc' = Killed
  /\ waited' = 0
  /\ UNCHANGED <<windows, over, reply, dropping, scans, finished, elapsed,
                 races>>

TerminateFails ==
  /\ Goto("terminate", "drop")
  /\ Unkillable
  /\ reply' = "error"
  /\ UNCHANGED <<windows, proc, over, dropping, scans, finished, waited,
                 elapsed, races>>

Reap ==
  /\ Goto("reap", "drop")
  /\ Exited
  /\ proc' = [proc EXCEPT ![Leader] = "gone"]
  /\ UNCHANGED <<windows, over, reply, dropping, scans, finished, waited,
                 elapsed, races>>

\* Bug: reap waits without a deadline.
ReapForEver ==
  /\ pc = "reap" /\ UNCHANGED pc
  /\ ~Exited
  /\ Sleep

\* Bug: the deadline is looked at after the sleep.
ReapOnceMore ==
  /\ pc = "reap" /\ UNCHANGED pc
  /\ ~Exited /\ waited <= Grace
  /\ Sleep

ReapAgain ==
  /\ pc = "reap" /\ UNCHANGED pc
  /\ ~Exited /\ waited < Grace
  /\ Sleep

ReapLate ==
  /\ Goto("reap", "drop")
  /\ ~Exited /\ waited >= Grace
  /\ reply' = "error"
  /\ UNCHANGED <<windows, proc, over, dropping, scans, finished, waited,
                 elapsed, races>>

\* The end of what was started could not be confirmed.  In Tree's drop nobody
\* learns of it.
Unconfirmed ==
  /\ pc' = IF dropping THEN "answered" ELSE "drop"
  /\ reply' = IF dropping THEN reply ELSE "error"
  /\ UNCHANGED <<windows, proc, over, dropping, finished, waited, elapsed>>

Kill ==
  /\ Goto("finish", "scan")
  /\ Killable
  /\ proc' = Killed
  /\ UNCHANGED <<windows, over, reply, dropping, scans, finished, waited,
                 elapsed, races>>

KillFails ==
  /\ pc = "finish"
  /\ Unkillable
  /\ Unconfirmed
  /\ UNCHANGED <<scans, races>>

EmptyScans == IF Executing = {} THEN scans + 1 ELSE 0

\* Bug: the first scan that finds nobody is believed.
EnoughAtOnce == Executing = {}

\* A job counts its processes exactly; a scan of the group is believed the
\* second time in a row it finds nobody.
Enough == IF windows THEN Executing = {} ELSE EmptyScans >= 2

\* The scan finds nobody although a fork is in flight.
Misled == ~windows /\ Executing = {} /\ InFlight # {}

Scan ==
  /\ pc = "scan"
  /\ Misled => races < Races
  /\ races' = IF Misled THEN races + 1 ELSE races
  /\ scans' = EmptyScans

Confirm ==
  /\ Scan
  /\ Enough
  /\ finished' = TRUE
  /\ pc' = IF dropping THEN "answered" ELSE "read"
  /\ UNCHANGED <<windows, proc, over, reply, dropping, waited, elapsed>>

ScanLate == Scan /\ ~Enough /\ waited >= Grace /\ Unconfirmed

ScanAgain ==
  /\ Scan
  /\ ~Enough /\ waited < Grace
  /\ pc' = "nap"
  /\ UNCHANGED <<windows, proc, over, reply, dropping, finished, waited,
                 elapsed>>

\* QueryInformationJobObject fails.
QueryFails ==
  /\ windows /\ pc = "scan"
  /\ Unconfirmed
  /\ UNCHANGED <<scans, races>>

\* The group is killed once more before the next scan, a job is not.  No fork
\* takes as long as a sleep.
Wake ==
  /\ Goto("nap", IF windows THEN "scan" ELSE "finish")
  /\ InFlight = {}
  /\ Sleep

-----------------------------------------------------------------------------
(* Answering.                                                              *)

Read ==
  /\ Goto("read", "answered")
  /\ reply' \in {IF over THEN "toolarge" ELSE "ok", "error"}
  /\ UNCHANGED <<windows, proc, over, dropping, scans, finished, waited,
                 elapsed, races>>

\* Unix: Tree's drop runs finish, a second time if it has failed before.
DropTree ==
  /\ ~windows
  /\ Goto("drop", "finish")
  /\ dropping' = TRUE /\ scans' = 0 /\ waited' = 0
  /\ UNCHANGED <<windows, proc, over, reply, finished, elapsed, races>>

\* Windows: the handle closes, and the job kills what is left in it.
CloseJob ==
  /\ windows
  /\ Goto("drop", "answered")
  /\ proc' = Killed
  /\ UNCHANGED <<windows, over, reply, dropping, scans, finished, waited,
                 elapsed, races>>

Caller ==
  \/ Attach \/ AttachFails
  \/ Collect \/ TooLarge \/ Late \/ PollAgain
  \/ Terminate \/ TerminateFails \/ Reap \/ ReapAgain \/ ReapLate
  \/ Kill \/ KillFails \/ Confirm \/ ScanLate \/ ScanAgain \/ QueryFails \/ Wake
  \/ Read \/ DropTree \/ CloseJob

Command ==
  \/ \E p, q \in Procs : Fork(p, q)
  \/ \E p \in Procs : Land(p) \/ End(p) \/ Emit(p)

\* A call that has been answered has no further steps.
Answered == pc = "answered" /\ UNCHANGED vars

Next == Spawn \/ SpawnFails \/ Caller \/ Command \/ Answered

\* The thread runs and a fork returns; no process has to end.
Fairness ==
  /\ WF_vars(Caller)
  /\ \A p \in Procs : WF_vars(Land(p))

Spec == Init /\ [][Next]_vars /\ Fairness

-----------------------------------------------------------------------------
(* Properties.                                                             *)

TypeOK ==
  /\ windows \in BOOLEAN
  /\ proc \in [Procs -> States]
  /\ over \in BOOLEAN
  /\ pc \in Places
  /\ reply \in {"none", "ok", "timeout", "toolarge", "error"}
  /\ dropping \in BOOLEAN
  /\ scans \in 0..2
  /\ finished \in BOOLEAN
  /\ waited \in 0..Grace
  /\ elapsed \in Nat
  /\ races \in 0..Races

\* A call is answered within its timeout, two seconds for collecting what it
\* killed and two for confirming that the rest has ended, whatever the command
\* and its descendants do (docs/status-lifecycle.md:20).
AnswersInTime == elapsed <= Deadline + 2 * Grace

Promised == INSTANCE BoundedCall WITH
  stage <- CASE pc = "idle" -> "idle"
             [] pc = "answered" -> "answered"
             [] OTHER -> "running",
  reply <- IF pc = "answered" THEN reply ELSE "none",
  confirmed <- pc = "answered" /\ finished,
  alive <- ~Quiet

\* The call implements BoundedCall: it is always answered, and an answer "ok",
\* or a confirmed end, leaves no descendant running (child_process.rs:205: a
\* kill can race a fork in flight).
LeavesNothing == Promised!Spec
=============================================================================
