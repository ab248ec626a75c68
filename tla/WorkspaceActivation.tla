------------------------ MODULE WorkspaceActivation ------------------------
(***************************************************************************)
(* Opening a Codex workspace on Windows: codex_workspace_activation.rs,    *)
(* user_environment.rs, the desktop part of desktop.rs and the management  *)
(* operations of main.rs that use them (activate, launch, restart,         *)
(* restore-external-home).                                                 *)
(*                                                                         *)
(* The desktop application learns its home from the user's CODEX_HOME, and *)
(* from the value that the shell which starts it was last told.  So four   *)
(* pieces of state have to move together: the registry value, the value    *)
(* the shell knows, the active workspace of the catalog, and the process   *)
(* that runs.  Meanwhile the user may open or close the application at any *)
(* moment, readers may look between two commits, every call may fail and   *)
(* the manager may die.  Operations are serial (SetupLifecycle) and the    *)
(* workspaces have a profile (AuthProfiles, EveryWorkspaceHasProfile).     *)
(***************************************************************************)
EXTENDS Naturals

CONSTANTS
  Workspaces,   \* registered workspaces
  Default,      \* the one in the home the application uses on its own
  Unset,        \* CODEX_HOME has no value
  Legacy,       \* a home a former version of the manager left in CODEX_HOME
  Nothing,      \* no desktop application runs
  Kinds,        \* the operations clients ask for
  MaxFaults,    \* bound: failing calls
  MaxCrashes    \* bound: deaths of the manager

AllKinds == {"switch", "launch", "restart", "restore"}

ASSUME ActivationAssumption ==
  /\ Default \in Workspaces
  /\ Unset \notin Workspaces /\ Legacy \notin Workspaces
  /\ Nothing \notin Workspaces
  /\ Unset # Legacy /\ Legacy # Nothing
  /\ Kinds \subseteq AllKinds
  /\ MaxFaults \in Nat /\ MaxCrashes \in Nat

VARIABLES
  env,          \* HKCU\Environment\CODEX_HOME
  announced,    \* the value the shell starts applications with
  active,       \* the catalog's active workspace
  desktop,      \* the home of the running desktop application
  op,           \* the operation that runs
  faults, crashes

vars == <<env, announced, active, desktop, op, faults, crashes>>

Values == Workspaces \union {Unset, Legacy}
Homes == Workspaces \union {Legacy}

\* default_codex_home stands for an unset variable.
HomeOf(value) == IF value = Unset THEN Default ELSE value

Points == {"idle", "stop", "read", "project", "unproject", "activate",
           "unactivate", "notify", "backenv", "backactive", "renotify",
           "reopen", "check", "restore", "audit", "tell", "ok", "failed"}

Operation ==
  [kind: AllKinds, pc: Points, target: Workspaces, previous: Workspaces,
   prevEnv: Values, wasRunning: BOOLEAN,
   before: [env: Values, active: Workspaces]]

NoOp == [kind |-> "launch", pc |-> "idle", target |-> Default,
         previous |-> Default, prevEnv |-> Unset, wasRunning |-> FALSE,
         before |-> [env |-> Unset, active |-> Default]]

\* state_access::write is held from the first write to the end of the commit,
\* and again around the rollback.
Locked == op.pc \in {"unproject", "activate", "unactivate", "backactive",
                     "audit"}

Init ==
  /\ env \in {Unset, Default, Legacy}
  /\ announced = env
  /\ active = Default
  /\ desktop = Nothing
  /\ op = NoOp
  /\ faults = 0 /\ crashes = 0

At(point) == op.pc = point
Goto(point) == op' = [op EXCEPT !.pc = point]

Fails ==
  /\ faults < MaxFaults
  /\ faults' = faults + 1
  /\ UNCHANGED crashes

Works == UNCHANGED <<faults, crashes>>

\* A call that changes nothing here, and one that fails before it does.
Skip(from, next) ==
  /\ At(from)
  /\ Goto(next)
  /\ UNCHANGED <<env, announced, active, desktop>>
  /\ Works

Break(from, next) ==
  /\ At(from)
  /\ Goto(next)
  /\ UNCHANGED <<env, announced, active, desktop>>
  /\ Fails

-----------------------------------------------------------------------------
(* The requests.                                                           *)

Begin(kind, w, first) ==
  /\ kind \in Kinds
  /\ At("idle")
  /\ op' = [NoOp EXCEPT !.kind = kind, !.pc = first, !.target = w,
                        !.previous = active,
                        !.before = [env |-> env, active |-> active]]
  /\ UNCHANGED <<env, announced, active, desktop>>
  /\ Works

BeginSwitch == \E w \in Workspaces : Begin("switch", w, "stop")
BeginLaunch == Begin("launch", active, "check")
BeginRestart == Begin("restart", active, "stop")

\* A registered home is the projection in use, and is not restored.
BeginRestore ==
  /\ env \notin Workspaces
  /\ Begin("restore", active, "restore")

End ==
  /\ op.pc \in {"ok", "failed"}
  /\ op' = NoOp
  /\ UNCHANGED <<env, announced, active, desktop>>
  /\ Works

-----------------------------------------------------------------------------
(* The desktop application.                                                *)

\* A switch reads the environment next, a restart starts the application.
Stop ==
  /\ At("stop")
  /\ desktop' = Nothing
  /\ op' = [op EXCEPT !.pc = IF op.kind = "switch" THEN "read" ELSE "check",
                      !.wasRunning = desktop # Nothing]
  /\ UNCHANGED <<env, announced, active>>
  /\ Works

StopFails == Break("stop", "failed")

\* LAUNCH_SCRIPT is satisfied with any process it finds; a new one takes the
\* home the shell knows.
Started == IF desktop = Nothing THEN HomeOf(announced) ELSE desktop

\* launch_workspace, for the active workspace or, after a failed switch, for
\* the previous one.  It refuses when the projection is another home.
Wanted == IF At("reopen") THEN op.previous ELSE active
Wants == At("check") \/ (At("reopen") /\ op.wasRunning)

Start ==
  /\ Wants
  /\ HomeOf(env) = Wanted
  /\ desktop' = Started
  /\ Goto(IF At("reopen") THEN "failed" ELSE "ok")
  /\ UNCHANGED <<env, announced, active>>
  /\ Works

StartRefused ==
  /\ Wants
  /\ HomeOf(env) # Wanted
  /\ Goto("failed")
  /\ UNCHANGED <<env, announced, active, desktop>>
  /\ Works

\* No process within ten seconds; it may appear later, or it did appear.
StartFails ==
  /\ Wants
  /\ HomeOf(env) = Wanted
  /\ desktop' \in {desktop, Started}
  /\ Goto("failed")
  /\ UNCHANGED <<env, announced, active>>
  /\ Fails

NothingToReopen == ~op.wasRunning /\ Skip("reopen", "failed")

UserOpens ==
  /\ desktop = Nothing
  /\ desktop' = HomeOf(announced)
  /\ UNCHANGED <<env, announced, active, op>>
  /\ Works

UserCloses ==
  /\ desktop # Nothing
  /\ desktop' = Nothing
  /\ UNCHANGED <<env, announced, active, op>>
  /\ Works

-----------------------------------------------------------------------------
(* The commit of a switch, under the data lock.                            *)

\* Bug: a switch insists on a projection that agrees with the catalog, as a
\* launch does.
ReadEnvStrict ==
  /\ At("read")
  /\ op' = [op EXCEPT !.pc = IF HomeOf(env) = active THEN "project"
                             ELSE "failed", !.prevEnv = env]
  /\ UNCHANGED <<env, announced, active, desktop>>
  /\ Works

\* An error here returns at once: the application stays closed.
ReadEnv ==
  /\ At("read")
  /\ op' = [op EXCEPT !.pc = "project", !.prevEnv = env]
  /\ UNCHANGED <<env, announced, active, desktop>>
  /\ Works

ReadEnvFails == Break("read", "failed")

\* set_codex_home(value), from one point to the next.
SetEnv(from, value, next) ==
  /\ At(from)
  /\ env' = value
  /\ Goto(next)
  /\ UNCHANGED <<announced, active, desktop>>
  /\ Works

\* Not written, or written and not read back.
SetEnvFails(from, value, next) ==
  /\ At(from)
  /\ env' \in {env, value}
  /\ Goto(next)
  /\ UNCHANGED <<announced, active, desktop>>
  /\ Fails

\* codex_workspace::activate(w), from one point to the next.
SetActive(from, w, next) ==
  /\ At(from)
  /\ active' = w
  /\ Goto(next)
  /\ UNCHANGED <<env, announced, desktop>>
  /\ Works

\* notify_environment_change, from one point to the next.
Announce(from, next) ==
  /\ At(from)
  /\ announced' = env
  /\ Goto(next)
  /\ UNCHANGED <<env, active, desktop>>
  /\ Works

\* Some window did not answer: the shell may have, or not.
AnnounceFails(from, next) ==
  /\ At(from)
  /\ announced' \in {announced, env}
  /\ Goto(next)
  /\ UNCHANGED <<env, active, desktop>>
  /\ Fails

Project == SetEnv("project", op.target, "activate")
ProjectFails == SetEnvFails("project", op.target, "unproject")
Unproject == SetEnv("unproject", op.prevEnv, "reopen")
UnprojectFails == SetEnvFails("unproject", op.prevEnv, "reopen")

Activate == SetActive("activate", op.target, "notify")

\* Bug: the error of the catalog leaves the environment as it is.
ActivateFailsBare == Break("activate", "reopen")

ActivateFails == Break("activate", "unactivate")

Unactivate == SetEnv("unactivate", op.prevEnv, "reopen")
UnactivateFails == SetEnvFails("unactivate", op.prevEnv, "reopen")

-----------------------------------------------------------------------------
(* The announcement of a switch, and its rollback under the lock again.    *)

Notify == Announce("notify", "ok")

\* Bug: a failed broadcast is logged and ignored.
NotifyFailsIgnored == AnnounceFails("notify", "ok")

NotifyFails == AnnounceFails("notify", "backenv")

\* Bug: the rollback after a failed broadcast restores the catalog alone.
BackEnvForgotten == Skip("backenv", "backactive")

BackEnv == SetEnv("backenv", op.prevEnv, "backactive")

BackEnvFails == SetEnvFails("backenv", op.prevEnv, "backactive")
BackActive == SetActive("backactive", op.previous, "renotify")
BackActiveFails == Break("backactive", "renotify")

\* Bug: the shell is not told of the rollback.
RenotifyForgotten == Skip("renotify", "reopen")

Renotify == Announce("renotify", "reopen")

RenotifyFails == AnnounceFails("renotify", "reopen")

-----------------------------------------------------------------------------
(* restore_legacy_global_codex_home: the value before the former version   *)
(* was unset, and the metadata records that it is back.                    *)

Restore ==
  \/ env = Legacy /\ SetEnv("restore", Unset, "audit")
  \/ env # Legacy /\ Skip("restore", "tell")
RestoreFails == env = Legacy /\ SetEnvFails("restore", Unset, "failed")
Audit == Skip("audit", "tell")
AuditFails == Break("audit", "failed")
Tell == Announce("tell", "ok")
TellFails == AnnounceFails("tell", "failed")

-----------------------------------------------------------------------------
\* Nothing at the next start compares the environment with the catalog.
Crash ==
  /\ ~At("idle")
  /\ crashes < MaxCrashes
  /\ crashes' = crashes + 1
  /\ op' = NoOp
  /\ UNCHANGED <<env, announced, active, desktop, faults>>

Request == BeginSwitch \/ BeginLaunch \/ BeginRestart \/ BeginRestore

Commit == Project \/ Activate \/ Notify
Rollback == Unproject \/ Unactivate \/ BackEnv \/ BackActive \/ Renotify
Restoration == Restore \/ Audit \/ Tell
Failure == ProjectFails \/ UnprojectFails \/ ActivateFails
           \/ UnactivateFails \/ NotifyFails \/ BackEnvFails
           \/ BackActiveFails \/ RenotifyFails \/ RestoreFails
           \/ AuditFails \/ TellFails \/ StopFails \/ ReadEnvFails
           \/ StartFails

Manager == End \/ Stop \/ Start \/ StartRefused \/ NothingToReopen \/ ReadEnv
           \/ Commit \/ Rollback \/ Restoration \/ Failure

Next == Request \/ Manager \/ UserOpens \/ UserCloses \/ Crash

Spec == Init /\ [][Next]_vars

\* Each call of an operation returns: the PowerShell scripts and the broadcast
\* have deadlines, and no other operation runs.
FairSpec == Spec /\ WF_vars(Manager)

-----------------------------------------------------------------------------
TypeOK ==
  /\ env \in Values /\ announced \in Values
  /\ active \in Workspaces
  /\ desktop \in Homes \union {Nothing}
  /\ op \in Operation
  /\ faults \in 0..MaxFaults /\ crashes \in 0..MaxCrashes

\* At most one call has failed, and the manager has not died.
OneFailure == faults <= 1 /\ crashes = 0

\* A switch that answers an error has put CODEX_HOME and the active workspace
\* back as it found them, whichever one call failed, also after a death of the
\* manager (docs/codex-home-ownership-and-launch.md:51).
FailedSwitchRestores ==
  faults <= 1 /\ op.kind = "switch" /\ At("failed") =>
    env = op.before.env /\ active = op.before.active

\* Whoever reads under the data lock sees the home of the active workspace
\* projected, also while a switch waits for the broadcast or is rolled back
\* (credential_state_value); only a value older than the manager is exempt.
ReadersSeeOneWorkspace ==
  OneFailure /\ ~Locked /\ env # Legacy => HomeOf(env) = active

\* When the manager starts the desktop application, after a switch, for a
\* restart or to put it back after a failed switch, the application uses the
\* home of the active workspace, although launch_workspace checks only the
\* registry; unless the shell still holds the value older than the manager.
ManagerStartsActive ==
  [][ /\ OneFailure' /\ announced # Legacy
      /\ desktop = Nothing /\ (Start \/ StartFails)
      => desktop' \in {Nothing, active} ]_vars

\* A switch that answers success leaves the registry, the shell and the
\* catalog with the same workspace, whatever was left behind by failures and
\* deaths before it (switch).
SwitchEstablishes ==
  op.kind = "switch" /\ At("ok") =>
    env = op.target /\ announced = op.target /\ active = op.target

\* However the environment and the catalog came apart, a switch asked for once
\* nothing fails any more succeeds: the user is never locked out.
SwitchSucceeds ==
  (op.kind = "switch" /\ At("stop") /\ faults = MaxFaults
     /\ crashes = MaxCrashes)
  ~> (op.kind = "switch" /\ At("ok"))
=============================================================================
