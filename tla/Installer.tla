----------------------------- MODULE Installer -----------------------------
(***************************************************************************)
(* One installation as its worker runs it (run_install): the macOS         *)
(* installer with its six steps and the progress it writes to status.json  *)
(* for the page, the Windows installation, whose script reports on its own,*)
(* and the guard both share, which closes the desktop application before   *)
(* the workspace is activated and opens it again.  Meanwhile the user      *)
(* opens and closes the application; any call may fail and the manager may *)
(* die, after which the installation is asked for again.                   *)
(*                                                                         *)
(* A download is one step with one outcome; manifests, assets, digests and *)
(* versions are what their checks say of them.                             *)
(***************************************************************************)
EXTENDS Naturals

CONSTANTS
  MaxAttempts,  \* bound: installations asked for
  MaxFaults     \* bound: files that cannot be written or removed

ASSUME InstallerAssumption == MaxAttempts \in Nat /\ MaxFaults \in Nat

VARIABLES
  windows,   \* the platform
  pc,        \* the place of the worker
  attempt,   \* installations asked for
  steps,     \* the progress in memory
  current,   \* current_step, 0 before the first
  shown,     \* status.json
  result,    \* result.json
  bundle,    \* the application in /Applications
  app,       \* the running application
  selected,  \* the active profile
  guard,     \* SetupDesktopGuard
  closed,    \* the guard has seen the application end
  user,      \* what the user last did to the application since it was closed
  outcome,   \* what run_install returns
  launch,    \* how the launch went
  faults,    \* files that could not be written or removed
  lost       \* the files of this attempt are not those it meant to leave

vars == <<windows, pc, attempt, steps, current, shown, result, bundle, app,
          selected, guard, closed, user, outcome, launch, faults, lost>>

files == <<steps, current, shown, result>>
desktop == <<bundle, app, selected, guard, closed, user>>
counts == <<windows, attempt, faults>>

NoFile == <<>>
Steps == 1..6
StepStates == {"pending", "running", "completed", "skipped", "failed"}
NoSteps == [i \in Steps |-> "pending"]

\* The active profile: none, that of the workspace that is being set up, or
\* another.  A running application is named by the profile it started with.
Profiles == {"none", "mine", "other"}

Row(at, step, state, to) == [at |-> at, step |-> step, state |-> state, to |-> to]

\* The calls of set_step: where, which step, its state, and what follows.
Marks == {
  Row("check",      1, "running",   "look"),
  Row("kept",       1, "completed", "kept2"),
  Row("kept2",     2, "skipped",   "kept3"),
  Row("kept3",     3, "skipped",   "kept4"),
  Row("kept4",     4, "skipped",   "profile"),
  Row("missing",    1, "completed", "manifest"),
  Row("listing",    2, "running",   "list"),
  Row("listed",     2, "completed", "select"),
  Row("selected",   2, "completed", "package"),
  Row("fetching",   3, "running",   "fetch"),
  Row("fetched",    3, "completed", "install"),
  Row("install",    4, "running",   "copy"),
  Row("installed",  4, "completed", "profile"),
  Row("profile",    5, "running",   "decide"),
  Row("configured", 5, "completed", "last"),
  Row("last",       6, "running",   "verify"),
  Row("launched",   6, "completed", "complete")}

\* Calls that only succeed or fail: the version of macOS, the two requests,
\* the downloads, the selection of the package, the installed bundle.
Calls == {
  <<"accept", "kept">>, <<"manifest", "listing">>, <<"list", "listed">>,
  <<"select", "selected">>, <<"package", "fetching">>, <<"fetch", "fetched">>,
  <<"capture", "installed">>}

Places ==
  {"idle", "prepare", "clear", "create", "look", "copy", "decide", "stop",
   "quit", "initialize", "finalize", "script", "verify", "launch", "complete",
   "release", "drop", "fail", "skip", "report", "result", "done"}
    \union {m.at : m \in Marks} \union {c[1] : c \in Calls}

Init ==
  /\ windows \in BOOLEAN
  /\ pc = "idle" /\ attempt = 0
  /\ steps = NoSteps /\ current = 0 /\ shown = NoFile /\ result = "absent"
  /\ bundle \in {"absent", "whole"}
  /\ selected \in Profiles
  /\ app \in {"closed"} \union (IF bundle = "whole" THEN {selected} ELSE {})
  /\ guard = "none" /\ closed = FALSE /\ user = "none"
  /\ outcome = "none" /\ launch = "none"
  /\ faults = 0 /\ lost = FALSE

Goto(from, to) == pc = from /\ pc' = to
Running == app \in Profiles \union {"quitting"}
Active == pc \notin {"idle", "done"}

-----------------------------------------------------------------------------
(* The files.  A write that fails leaves the old file or, where only its   *)
(* permissions could not be set, the new one.                              *)

Fault == faults < MaxFaults /\ faults' = faults + 1

\* The progress is saved and the worker goes on, or it is not and fails.
Persist(to, otherwise) ==
  \/ shown' = steps' /\ pc' = to /\ lost' = FALSE /\ UNCHANGED faults
  \/ shown' \in {shown, steps'} /\ pc' = otherwise /\ lost' = TRUE /\ Fault

SetStep(i, state, to, otherwise) ==
  /\ steps' = [steps EXCEPT ![i] = state]
  /\ current' = i
  /\ Persist(to, otherwise)

\* complete_pending.
CompletePending(to, otherwise) ==
  /\ steps' = [i \in Steps |->
                 IF steps[i] = "pending" THEN "skipped" ELSE steps[i]]
  /\ Persist(to, otherwise)

-----------------------------------------------------------------------------
(* The attempt.                                                            *)

Begin ==
  /\ ~Active
  /\ attempt < MaxAttempts
  /\ attempt' = attempt + 1
  /\ pc' = "prepare"
  /\ guard' = "none" /\ closed' = FALSE /\ user' = "none"
  /\ outcome' = "none" /\ launch' = "none"
  /\ lost' = FALSE
  /\ steps' = NoSteps /\ current' = 0
  /\ UNCHANGED <<windows, shown, result, bundle, app, selected, faults>>

\* The directories and, on macOS, the native script.  What the last attempt
\* left is not removed when they cannot be created.
Prepare ==
  /\ Goto("prepare", IF windows THEN "decide" ELSE "clear")
  /\ UNCHANGED <<counts, files, desktop, outcome, launch, lost>>

PrepareFails ==
  /\ Goto("prepare", "done")
  /\ outcome' = "error" /\ lost' = TRUE
  /\ Fault
  /\ UNCHANGED <<windows, attempt, files, desktop, launch>>

\* The old files are removed, an error is ignored.
Clear ==
  /\ Goto("clear", IF windows THEN "script" ELSE "create")
  /\ \/ shown' = NoFile /\ result' = "absent" /\ UNCHANGED faults
     \/ shown' \in {shown, NoFile} /\ result' \in {result, "absent"} /\ Fault
  /\ UNCHANGED <<windows, attempt, steps, current, desktop, outcome, launch,
                 lost>>

\* MacosInstaller::new.  Its error is returned as it is: no result is written.
Create ==
  /\ pc = "create"
  /\ steps' = NoSteps /\ current' = 0
  /\ Persist("check", "done")
  /\ outcome' = IF pc' = "done" THEN "error" ELSE "none"
  /\ UNCHANGED <<windows, attempt, result, desktop, launch>>

Mark ==
  /\ \E m \in Marks : pc = m.at /\ SetStep(m.step, m.state, m.to, "drop")
  /\ UNCHANGED <<windows, attempt, result, desktop, outcome, launch>>

Call ==
  /\ \E c \in Calls : pc = c[1] /\ pc' \in {c[2], "drop"}
  /\ UNCHANGED <<counts, files, desktop, outcome, launch, lost>>

\* ensure_desktop_app: a directory of that name is an installed application.
Look ==
  /\ Goto("look", IF bundle = "absent" THEN "missing" ELSE "accept")
  /\ UNCHANGED <<counts, files, desktop, outcome, launch, lost>>

\* The native script verifies the digest before it copies; the copy, or what
\* follows it, may fail, or it is killed after twenty minutes.
Copy ==
  /\ pc = "copy"
  /\ \/ bundle' = "whole" /\ pc' \in {"capture", "drop"}
     \/ bundle' = "partial" /\ pc' = "drop"
     \/ bundle' = bundle /\ pc' = "drop"
  /\ UNCHANGED <<counts, files, app, selected, guard, closed, user, outcome,
                 launch, lost>>

-----------------------------------------------------------------------------
(* The workspace and the desktop application.                              *)

\* The workspace is activated only where no profile is active.
Decide ==
  /\ pc = "decide"
  /\ pc' \in {IF selected = "none" THEN "stop" ELSE "initialize", "drop"}
  /\ guard' = IF pc' = "initialize" THEN "idle" ELSE "none"
  /\ UNCHANGED <<counts, files, bundle, app, selected, closed, user, outcome,
                 launch, lost>>

\* stop_for_workspace_switch.  The guard exists only once the application is
\* gone: one that cannot be asked or is still there 15 s later fails the
\* attempt without it, and may end after that.
AskQuit ==
  /\ pc = "stop"
  /\ \/ ~Running /\ pc' = "initialize" /\ guard' = "armed" /\ app' = app
     \/ Running /\ pc' = "quit" /\ app' = "quitting" /\ guard' = guard
     \/ /\ pc' = "drop" /\ guard' = guard
        /\ app' \in {app} \union (IF Running THEN {"quitting"} ELSE {})
  /\ UNCHANGED <<counts, files, bundle, selected, closed, user, outcome,
                 launch, lost>>

Quit ==
  /\ pc = "quit"
  /\ \/ /\ ~Running
        /\ pc' = "initialize" /\ guard' = "running"
        /\ closed' = TRUE /\ user' = "none"
     \/ pc' = "drop" /\ UNCHANGED <<guard, closed, user>>
  /\ UNCHANGED <<counts, files, bundle, app, selected, outcome, launch, lost>>

Initialize ==
  /\ pc = "initialize"
  /\ pc' \in {"finalize", "drop"}
  /\ UNCHANGED <<counts, files, desktop, outcome, launch, lost>>

\* finalize_workspace_setup: activate, and check; the check that fails leaves
\* the profile active.
Finalize ==
  /\ pc = "finalize"
  /\ \/ /\ guard # "idle" => selected' = "mine"
        /\ guard = "idle" => selected' = selected
        /\ pc' \in {IF windows THEN "clear" ELSE "configured", "drop"}
     \/ selected' = selected /\ pc' = "drop"
  /\ UNCHANGED <<counts, files, bundle, app, guard, closed, user, outcome,
                 launch, lost>>

\* The Windows script installs the application, or finds it installed, and
\* writes its result; it may fail, with a result or without.
Script ==
  /\ pc = "script"
  /\ \/ bundle' = "whole" /\ result' = "ok" /\ pc' = "verify"
     \/ /\ bundle' \in {bundle, "whole"} /\ result' \in {"failed", result}
        /\ pc' = "drop"
  /\ UNCHANGED <<counts, steps, current, shown, app, selected, guard, closed,
                 user, outcome, launch, lost>>

\* The credentials are checked once more; only an active workspace is launched.
\* The two homes that are compared are both ~/.codex (credential.rs:176, 403).
Verify ==
  /\ pc = "verify"
  /\ pc' \in {IF selected = "mine" THEN "launch"
              ELSE IF windows THEN "release" ELSE "launched", "drop"}
  /\ launch' = IF selected # "mine" /\ pc' # "drop" THEN "unasked" ELSE launch
  /\ UNCHANGED <<counts, files, desktop, outcome, lost>>

\* An application that runs is shown, not started again.
Opened == IF Running THEN app ELSE selected

\* SetupDesktopGuard::launch: the guard is given up whatever the launch does.
Launch ==
  /\ Goto("launch", IF windows THEN "release" ELSE "launched")
  /\ guard' = "none"
  /\ \/ launch' = "activated" /\ app' = Opened
     \/ launch' = "warning" /\ app' = app
  /\ UNCHANGED <<counts, files, bundle, selected, closed, user, outcome, lost>>

-----------------------------------------------------------------------------
(* The end of the attempt.                                                 *)

\* Bug: the guard does not open the application when it is dropped.
ReleaseSilently(from, to) ==
  /\ Goto(from, to)
  /\ guard' = "none"
  /\ UNCHANGED <<app, launch>>
  /\ UNCHANGED <<counts, files, bundle, selected, closed, user, outcome, lost>>

\* The guard is dropped: what it closed is opened again, an error is logged.
Release(from, to) ==
  /\ Goto(from, to)
  /\ guard' = "none"
  /\ \/ guard = "running" /\ app' = Opened /\ launch' = launch
     \/ guard = "running" /\ app' = app /\ launch' = "warning"
     \/ guard # "running" /\ UNCHANGED <<app, launch>>
  /\ UNCHANGED <<counts, files, bundle, selected, closed, user, outcome, lost>>

Complete ==
  /\ pc = "complete"
  /\ CompletePending("release", "drop")
  /\ UNCHANGED <<windows, attempt, current, result, desktop, outcome, launch>>

\* Bug: the failure is shown on the step that comes next.
FailNextStep ==
  /\ pc = "fail"
  /\ SetStep(current + 1, "failed", "skip", "skip")
  /\ UNCHANGED <<windows, attempt, result, desktop, outcome, launch>>

\* Bug: a failure leaves the step as it was.
FailNoStep ==
  /\ Goto("fail", "skip")
  /\ UNCHANGED <<counts, files, desktop, outcome, launch, lost>>

\* fail_progress: the last step that was marked fails (there is one, Create is
\* followed by the first), those that were not are skipped; neither error
\* stops it.
FailCurrent ==
  /\ pc = "fail"
  /\ SetStep(current, "failed", "skip", "skip")
  /\ UNCHANGED <<windows, attempt, result, desktop, outcome, launch>>

SkipPending ==
  /\ pc = "skip"
  /\ CompletePending("report", "report")
  /\ UNCHANGED <<windows, attempt, current, result, desktop, outcome, launch>>

\* result.json says how the attempt ended; an installation whose result cannot
\* be written has failed.
WriteResult(from, ok) ==
  /\ Goto(from, "done")
  /\ \/ /\ result' = IF ok THEN "ok" ELSE "failed"
        /\ outcome' = IF ok THEN "ok" ELSE "error"
        /\ UNCHANGED <<faults, lost>>
     \/ /\ result' \in {result, IF ok THEN "ok" ELSE "failed"}
        /\ outcome' = "error"
        /\ lost' = TRUE
        /\ Fault
  /\ UNCHANGED <<windows, attempt, steps, current, shown, desktop, launch>>

\* Windows: the script has written the result.
Return(from, value) ==
  /\ Goto(from, "done")
  /\ outcome' = value
  /\ UNCHANGED <<counts, files, desktop, launch, lost>>

Conclude ==
  \/ Release("drop", "fail") \/ Release("release", "result")
  \/ ~windows /\ (FailCurrent \/ SkipPending)
  \/ ~windows /\ (WriteResult("report", FALSE) \/ WriteResult("result", TRUE))
  \/ windows /\ (Return("fail", "error") \/ Return("result", "ok"))

Crash ==
  /\ Active
  /\ pc' = "idle"
  /\ guard' = "none" /\ closed' = FALSE
  /\ \/ pc = "copy" /\ bundle' = "partial"
     \/ bundle' = bundle
  /\ UNCHANGED <<counts, files, app, selected, user, outcome, launch, lost>>

-----------------------------------------------------------------------------
(* The user and the application.                                           *)

Acts(state, did) ==
  /\ app' = state /\ user' = did
  /\ UNCHANGED <<counts, files, pc, bundle, selected, guard, closed, outcome,
                 launch, lost>>

UserOpens == app = "closed" /\ bundle = "whole" /\ Acts(selected, "opened")
UserCloses == app \in Profiles /\ Acts("closed", "closed")

\* An application asked to quit does, or its user keeps it; Windows kills it.
Quits == app = "quitting" /\ Acts("closed", user)
StaysOpen == ~windows /\ app = "quitting" /\ Acts(selected, user)

Work ==
  \/ Begin \/ Prepare \/ PrepareFails \/ Clear \/ Create \/ Mark \/ Call
  \/ Look \/ Copy \/ Decide \/ AskQuit \/ Quit \/ Initialize \/ Finalize
  \/ Script \/ Verify \/ Launch \/ Complete \/ Conclude

Next == Work \/ Crash \/ UserOpens \/ UserCloses \/ Quits \/ StaysOpen

Spec == Init /\ [][Next]_vars

-----------------------------------------------------------------------------
(* Properties.                                                             *)

\* Every variable holds a value of its type.
TypeOK ==
  /\ windows \in BOOLEAN /\ pc \in Places /\ attempt \in 0..MaxAttempts
  /\ steps \in [Steps -> StepStates] /\ current \in 0..6
  /\ shown \in [Steps -> StepStates] \union {NoFile}
  /\ result \in {"absent", "failed", "ok"}
  /\ bundle \in {"absent", "partial", "whole"}
  /\ app \in Profiles \union {"closed", "quitting"}
  /\ selected \in Profiles
  /\ guard \in {"none", "idle", "armed", "running"}
  /\ closed \in BOOLEAN /\ user \in {"none", "opened", "closed"}
  /\ outcome \in {"none", "ok", "error"}
  /\ launch \in {"none", "activated", "warning", "unasked"}
  /\ faults \in 0..MaxFaults /\ lost \in BOOLEAN

\* The page is not left with a step that runs for ever, nor with a failed
\* installation in which nothing failed: when the macOS installer has ended
\* and could write its files, status.json has every step in a final state, one
\* of them failed exactly when the installation failed, as in result.json.  A
\* success is never announced over files that say otherwise.  (fail_progress
\* and set_step, macos.rs:411, 435.)
OutcomeShown ==
  pc = "done" /\ ~windows =>
    /\ outcome = "ok" => ~lost
    /\ ~lost =>
         /\ shown = steps
         /\ \A i \in Steps : shown[i] \in {"completed", "skipped", "failed"}
         /\ outcome = "ok" <=> \A i \in Steps : shown[i] # "failed"
         /\ result = IF outcome = "ok" THEN "ok" ELSE "failed"

\* Whatever becomes of an installation, the application its guard closed is
\* open again at its end, unless the user closed it or macOS refused to open
\* it; and an activated workspace is the one the application runs, unless the
\* user opened it between the stop and the activation.  (SetupDesktopGuard,
\* setup.rs:563.)
ApplicationComesBack ==
  pc = "done" =>
    /\ closed /\ launch # "warning" /\ user # "closed" => Running
    /\ closed /\ launch = "activated" /\ user = "none" => app = "mine"

=============================================================================
