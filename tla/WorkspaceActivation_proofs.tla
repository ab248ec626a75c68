--------------------- MODULE WorkspaceActivation_proofs ---------------------
(***************************************************************************)
(* Theorems of WorkspaceActivation, for any number of workspaces, failing  *)
(* calls and deaths: its types, what a switch that answers success has     *)
(* established, what one that fails puts back, what readers see meanwhile, *)
(* and which home the application gets.                                    *)
(***************************************************************************)
EXTENDS WorkspaceActivation, TLAPS

\* The place an operation has reached says what it has done.
Stage ==
  /\ op.pc \in {"activate", "notify"} => env = op.target
  /\ op.pc = "notify" => active = op.target
  /\ op.pc \in {"restore", "audit", "tell"} => op.kind = "restore"
  /\ op.pc = "check" => op.kind \in {"launch", "restart"}
  /\ op.pc = "stop" => op.kind \in {"switch", "restart"}

ActivationInv == TypeOK /\ Stage /\ SwitchEstablishes

-----------------------------------------------------------------------------
(* Operations.                                                             *)

LEMMA NoOpTyped == NoOp \in Operation /\ NoOp.pc = "idle"
BY ActivationAssumption DEF NoOp, Operation, AllKinds, Points, Values

\* An operation that moves on stays what it is.
LEMMA Moves ==
  ASSUME op \in Operation, NEW point \in Points, Goto(point)
  PROVE  /\ op' \in Operation
         /\ op'.pc = point
         /\ op'.kind = op.kind /\ op'.target = op.target
BY DEF Operation, Goto

\* A call that works or fails keeps the counters within their bounds.
LEMMA Counted ==
  ASSUME faults \in 0..MaxFaults, crashes \in 0..MaxCrashes, Works \/ Fails
  PROVE  faults' \in 0..MaxFaults /\ crashes' \in 0..MaxCrashes
BY ActivationAssumption DEF Works, Fails

LEMMA HomesTyped == \A value \in Values : HomeOf(value) \in Homes
BY ActivationAssumption DEF HomeOf, Homes, Values

LEMMA TypesGiven ==
  ASSUME TypeOK
  PROVE  /\ env \in Values /\ announced \in Values /\ active \in Workspaces
         /\ desktop \in Homes \union {Nothing} /\ op \in Operation
         /\ op.prevEnv \in Values /\ op.target \in Workspaces
         /\ op.previous \in Workspaces /\ op.target \in Values
         /\ Started \in Homes \union {Nothing} /\ Unset \in Values
         /\ faults \in 0..MaxFaults /\ crashes \in 0..MaxCrashes
BY HomesTyped DEF TypeOK, Operation, Values, Started

\* What a step must show when it moves the operation to another place.
LEMMA Arrives ==
  ASSUME ActivationInv, NEW point \in Points \ {"stop"}, Goto(point), Works \/ Fails,
         env' \in Values, announced' \in Values, active' \in Workspaces,
         desktop' \in Homes \union {Nothing},
         point \in {"activate", "notify"} => env' = op.target,
         point = "notify" => active' = op.target,
         point \in {"restore", "audit", "tell"} => op.kind = "restore",
         point = "check" => op.kind \in {"launch", "restart"},
         point = "ok" /\ op.kind = "switch" =>
           env' = op.target /\ announced' = op.target /\ active' = op.target
  PROVE  ActivationInv'
<1>1. TypeOK'
  BY Moves, Counted, TypesGiven DEF ActivationInv, TypeOK
<1>2. Stage' /\ SwitchEstablishes'
  BY Moves, TypesGiven DEF ActivationInv, Stage, SwitchEstablishes, At
<1> QED
  BY <1>1, <1>2 DEF ActivationInv

-----------------------------------------------------------------------------
LEMMA InitEstablishes == Init => ActivationInv
BY ActivationAssumption, NoOpTyped
   DEF Init, ActivationInv, TypeOK, Stage, SwitchEstablishes, Values, Homes,
       At

\* A request starts an operation of its own kind at its first point.
LEMMA BeginPreserves ==
  ASSUME ActivationInv, NEW kind \in AllKinds, NEW w \in Workspaces,
         NEW first \in {"stop", "check", "restore"}, Begin(kind, w, first),
         first = "check" => kind = "launch",
         first = "stop" => kind \in {"switch", "restart"},
         first = "restore" => kind = "restore"
  PROVE  ActivationInv'
<1>1. /\ op' \in Operation
      /\ op'.pc = first /\ op'.kind = kind
  BY NoOpTyped, TypesGiven
     DEF ActivationInv, Begin, Operation, Points
<1>2. TypeOK'
  BY <1>1, Counted, TypesGiven DEF ActivationInv, Begin, TypeOK
<1>3. Stage' /\ SwitchEstablishes'
  BY <1>1 DEF Stage, SwitchEstablishes, At
<1> QED
  BY <1>2, <1>3 DEF ActivationInv

LEMMA RequestPreserves == ActivationInv /\ Request => ActivationInv'
<1> SUFFICES ASSUME ActivationInv, Request PROVE ActivationInv'
  OBVIOUS
<1>1. CASE BeginSwitch
  BY <1>1, BeginPreserves DEF BeginSwitch, AllKinds
<1>2. CASE BeginLaunch
  BY <1>2, BeginPreserves, TypesGiven DEF BeginLaunch, AllKinds, ActivationInv
<1>3. CASE BeginRestart
  BY <1>3, BeginPreserves, TypesGiven DEF BeginRestart, AllKinds, ActivationInv
<1>4. CASE BeginRestore
  BY <1>4, BeginPreserves, TypesGiven DEF BeginRestore, AllKinds, ActivationInv
<1> QED
  BY <1>1, <1>2, <1>3, <1>4 DEF Request

\* An operation that ends, or dies, leaves none behind.
LEMMA EndPreserves == ActivationInv /\ (End \/ Crash) => ActivationInv'
<1> SUFFICES ASSUME ActivationInv, End \/ Crash PROVE ActivationInv'
  OBVIOUS
<1>1. op' = NoOp /\ UNCHANGED <<env, announced, active, desktop>>
  BY DEF End, Crash
<1>2. faults' \in 0..MaxFaults /\ crashes' \in 0..MaxCrashes
  BY Counted, TypesGiven, ActivationAssumption DEF ActivationInv, End, Crash
<1>3. TypeOK'
  BY <1>1, <1>2, NoOpTyped, TypesGiven DEF ActivationInv, TypeOK
<1>4. Stage' /\ SwitchEstablishes'
  BY <1>1, NoOpTyped DEF Stage, SwitchEstablishes, At
<1> QED
  BY <1>3, <1>4 DEF ActivationInv

\* The user's actions change the desktop application alone.
LEMMA UserPreserves ==
  ActivationInv /\ (UserOpens \/ UserCloses) => ActivationInv'
<1> SUFFICES ASSUME ActivationInv, UserOpens \/ UserCloses
             PROVE  ActivationInv'
  OBVIOUS
<1>1. desktop' \in Homes \union {Nothing}
  BY HomesTyped, TypesGiven DEF ActivationInv, UserOpens, UserCloses
<1>2. UNCHANGED <<env, announced, active, op>> /\ Works
  BY DEF UserOpens, UserCloses
<1> QED
  BY <1>1, <1>2, Counted, TypesGiven
     DEF ActivationInv, TypeOK, Stage, SwitchEstablishes, At

\* The calls that start and stop the application.
LEMMA DesktopPreserves ==
  ASSUME ActivationInv,
         Stop \/ StopFails \/ Start \/ StartRefused \/ StartFails
           \/ NothingToReopen
  PROVE  ActivationInv'
<1> USE TypesGiven DEF ActivationInv
<1>1. CASE Stop
  <2>1. /\ op' \in Operation /\ op'.kind = op.kind
        /\ op'.pc = IF op.kind = "switch" THEN "read" ELSE "check"
    BY <1>1 DEF Stop, Operation, Points
  <2>2. TypeOK'
    BY <1>1, <2>1, Counted DEF Stop, TypeOK
  <2>3. op.kind \in {"switch", "restart"}
    BY <1>1 DEF Stop, Stage, At
  <2>4. Stage' /\ SwitchEstablishes'
    BY <2>1, <2>3 DEF Stage, SwitchEstablishes, At
  <2> QED
    BY <2>2, <2>4
<1>2. CASE StopFails
  BY <1>2, Arrives DEF StopFails, Break, Points
<1>3. CASE Start
  BY <1>3, Arrives DEF Start, Points, Wants, At, Stage
<1>4. CASE StartRefused
  BY <1>4, Arrives DEF StartRefused, Points
<1>5. CASE StartFails
  BY <1>5, Arrives DEF StartFails, Points
<1>6. CASE NothingToReopen
  BY <1>6, Arrives DEF NothingToReopen, Skip, Points
<1> QED
  BY <1>1, <1>2, <1>3, <1>4, <1>5, <1>6

\* The commit of a switch, its rollbacks, and the restoration.
LEMMA CommitPreserves ==
  ASSUME ActivationInv, ReadEnv \/ ReadEnvFails \/ Commit \/ Rollback
  PROVE  ActivationInv'
<1> USE TypesGiven DEF ActivationInv
<1>1. CASE ReadEnv
  <2>1. /\ op' \in Operation /\ op'.pc = "project"
    BY <1>1 DEF ReadEnv, Operation, Points
  <2>2. TypeOK'
    BY <1>1, <2>1, Counted DEF ReadEnv, TypeOK
  <2>3. Stage' /\ SwitchEstablishes'
    BY <2>1 DEF Stage, SwitchEstablishes, At
  <2> QED
    BY <2>2, <2>3
<1>2. CASE ReadEnvFails
  BY <1>2, Arrives DEF ReadEnvFails, Break, Points
<1>3. CASE Project
  BY <1>3, Arrives DEF Project, SetEnv, Points
<1>4. CASE Activate
  BY <1>4, Arrives DEF Activate, SetActive, Points, Stage, At
<1>5. CASE Notify
  BY <1>5, Arrives DEF Notify, Announce, Points, Stage, At
<1>6. CASE Unproject \/ Unactivate \/ BackEnv
  BY <1>6, Arrives DEF Unproject, Unactivate, BackEnv, SetEnv, Points
<1>7. CASE BackActive
  BY <1>7, Arrives DEF BackActive, SetActive, Points
<1>8. CASE Renotify
  BY <1>8, Arrives DEF Renotify, Announce, Points
<1> QED
  BY <1>1, <1>2, <1>3, <1>4, <1>5, <1>6, <1>7, <1>8 DEF Commit, Rollback

LEMMA RestorationPreserves ==
  ASSUME ActivationInv, Restoration
  PROVE  ActivationInv'
<1> USE TypesGiven DEF ActivationInv
<1>1. CASE Restore
  BY <1>1, Arrives DEF Restore, SetEnv, Skip, Points, Stage, At
<1>2. CASE Audit
  BY <1>2, Arrives DEF Audit, Skip, Points, Stage, At
<1>3. CASE Tell
  BY <1>3, Arrives DEF Tell, Announce, Points, Stage, At
<1> QED
  BY <1>1, <1>2, <1>3 DEF Restoration

\* A failing call never leads to an answer of success, to the activation or to
\* the broadcast.
LEMMA FailurePreserves ==
  ASSUME ActivationInv, Failure
  PROVE  ActivationInv'
<1> USE TypesGiven DEF ActivationInv
<1>1. CASE ProjectFails \/ UnprojectFails \/ UnactivateFails \/ BackEnvFails
           \/ RestoreFails
  BY <1>1, Arrives
     DEF ProjectFails, UnprojectFails, UnactivateFails, BackEnvFails,
         RestoreFails, SetEnvFails, Points
<1>2. CASE ActivateFails \/ BackActiveFails \/ AuditFails
  BY <1>2, Arrives DEF ActivateFails, BackActiveFails, AuditFails, Break, Points
<1>3. CASE NotifyFails \/ RenotifyFails \/ TellFails
  BY <1>3, Arrives
     DEF NotifyFails, RenotifyFails, TellFails, AnnounceFails, Points
<1>4. CASE StopFails \/ StartFails
  BY <1>4, DesktopPreserves
<1>5. CASE ReadEnvFails
  BY <1>5, CommitPreserves
<1> QED
  BY <1>1, <1>2, <1>3, <1>4, <1>5 DEF Failure

-----------------------------------------------------------------------------
LEMMA ActivationStep == ActivationInv /\ [Next]_vars => ActivationInv'
<1> SUFFICES ASSUME ActivationInv, [Next]_vars PROVE ActivationInv'
  OBVIOUS
<1>1. CASE Request
  BY <1>1, RequestPreserves
<1>2. CASE Manager
  BY <1>2, EndPreserves, DesktopPreserves, CommitPreserves,
     RestorationPreserves, FailurePreserves
     DEF Manager
<1>3. CASE UserOpens \/ UserCloses
  BY <1>3, UserPreserves
<1>4. CASE Crash
  BY <1>4, EndPreserves
<1>5. CASE UNCHANGED vars
  BY <1>5
     DEF vars, ActivationInv, TypeOK, Stage, SwitchEstablishes, At
<1> QED
  BY <1>1, <1>2, <1>3, <1>4, <1>5 DEF Next

LEMMA ActivationInductive == Spec => []ActivationInv
BY InitEstablishes, ActivationStep, PTL DEF Spec

\* Every variable keeps its type (the state of WorkspaceActivation).
THEOREM TypeCorrect == Spec => []TypeOK
<1>1. ActivationInv => TypeOK
  BY DEF ActivationInv
<1> QED
  BY <1>1, ActivationInductive, PTL

\* A switch that answers success leaves the registry, the shell and the catalog
\* with its target, however many calls failed and managers died before
\* (codex_workspace_activation.rs, switch).
THEOREM SuccessEstablishes == Spec => []SwitchEstablishes
<1>1. ActivationInv => SwitchEstablishes
  BY DEF ActivationInv
<1> QED
  BY <1>1, ActivationInductive, PTL

-----------------------------------------------------------------------------
(* One failing call: what a switch has still to put back.                   *)

\* What a request remembers.
LEMMA RequestStarts ==
  ASSUME Request
  PROVE  /\ op.pc = "idle"
         /\ op'.pc \in {"stop", "check", "restore"}
         /\ op'.pc = "restore" => op'.kind = "restore"
         /\ op'.pc = "check" => op'.kind = "launch"
         /\ op'.pc = "stop" => op'.kind \in {"switch", "restart"}
         /\ op'.previous = active
         /\ op'.before = [env |-> env, active |-> active]
         /\ UNCHANGED <<env, announced, active, desktop, faults, crashes>>
<1>1. ASSUME NEW kind, NEW w, NEW first, Begin(kind, w, first)
      PROVE  /\ op.pc = "idle" /\ op'.pc = first /\ op'.kind = kind
             /\ op'.previous = active
             /\ op'.before = [env |-> env, active |-> active]
             /\ UNCHANGED <<env, announced, active, desktop, faults, crashes>>
  BY <1>1 DEF Begin, NoOp, At, Works
<1>2. CASE BeginSwitch
  BY <1>1, <1>2 DEF BeginSwitch
<1>3. CASE BeginLaunch
  BY <1>1, <1>3 DEF BeginLaunch
<1>4. CASE BeginRestart
  BY <1>1, <1>4 DEF BeginRestart
<1>5. CASE BeginRestore
  BY <1>1, <1>5 DEF BeginRestore
<1> QED
  BY <1>2, <1>3, <1>4, <1>5 DEF Request

\* The rollback runs after a failed call only.
RollbackPoints == {"unproject", "unactivate", "backenv", "backactive",
                   "renotify"}
CommitPoints == {"read", "project", "activate", "notify"}

\* Only a switch commits or rolls back.
Failed ==
  /\ op.pc \in RollbackPoints => faults >= 1
  /\ op.pc \in RollbackPoints \union CommitPoints \union {"reopen"} =>
       op.kind = "switch"

\* What a switch has found is remembered, or still there.
Restoring ==
  op.kind = "switch" =>
    /\ op.previous = op.before.active
    /\ op.pc \in {"stop", "read", "project"} => env = op.before.env
    /\ op.pc \in {"stop", "read", "project", "activate", "unproject",
                  "unactivate"} =>
         active = op.before.active
    /\ op.pc \in (CommitPoints \ {"read"}) \union RollbackPoints =>
         op.prevEnv = op.before.env
    /\ faults <= 1 =>
         /\ op.pc \in {"backactive", "renotify", "reopen", "failed"} =>
              env = op.before.env
         /\ op.pc \in {"renotify", "reopen", "failed"} =>
              active = op.before.active

\* The workspace a value of CODEX_HOME stands for; a value older than the
\* manager is there before any workspace but the default one is used.
Agreed(value, w) == w = IF value \in {Unset, Legacy} THEN Default ELSE value

\* The registry and the catalog agree, or the rollback will make them.
Together ==
  OneFailure =>
    /\ op.pc \notin {"unproject", "activate", "unactivate", "backactive"} =>
         Agreed(env, active)
    /\ op.kind = "switch" => Agreed(op.before.env, op.before.active)

\* So do the registry and the shell.
Told ==
  OneFailure =>
    /\ op.pc \notin {"activate", "notify"} \union RollbackPoints =>
         announced \in {env, Legacy}
    /\ op.pc \in {"activate", "notify", "unproject", "unactivate"} =>
         announced \in {op.prevEnv, Legacy}

LEMMA FailedStep ==
  ASSUME ActivationInv, Failed, [Next]_vars
  PROVE  Failed'
<1> USE ActivationAssumption DEF Operation, At, Goto, Works, Stage,
        ActivationInv, Failed, RollbackPoints, CommitPoints
<1>t. /\ op \in Operation /\ faults \in Nat /\ crashes \in Nat
      /\ env \in Values /\ active \in Workspaces
  BY DEF ActivationInv, TypeOK
<1>1. CASE Request
  BY <1>1, <1>t, RequestStarts
<1>2. CASE Stop
  BY <1>2, <1>t DEF Stop
<1>3. CASE StopFails
  BY <1>3, <1>t DEF StopFails, Break, Fails
<1>4. CASE Start
  BY <1>4, <1>t DEF Start, Wants, Wanted
<1>5. CASE StartRefused
  BY <1>5, <1>t DEF StartRefused, Wants, Wanted
<1>6. CASE StartFails
  BY <1>6, <1>t DEF StartFails, Wants, Wanted, Fails
<1>7. CASE NothingToReopen
  BY <1>7, <1>t DEF NothingToReopen, Skip
<1>8. CASE ReadEnv
  BY <1>8, <1>t DEF ReadEnv
<1>9. CASE ReadEnvFails
  BY <1>9, <1>t DEF ReadEnvFails, Break, Fails
<1>10. CASE Project
  BY <1>10, <1>t DEF Project, SetEnv
<1>11. CASE ProjectFails
  BY <1>11, <1>t DEF ProjectFails, SetEnvFails, Fails
<1>12. CASE Unproject
  BY <1>12, <1>t DEF Unproject, SetEnv
<1>13. CASE UnprojectFails
  BY <1>13, <1>t DEF UnprojectFails, SetEnvFails, Fails
<1>14. CASE Activate
  BY <1>14, <1>t DEF Activate, SetActive
<1>15. CASE ActivateFails
  BY <1>15, <1>t DEF ActivateFails, Break, Fails
<1>16. CASE Unactivate
  BY <1>16, <1>t DEF Unactivate, SetEnv
<1>17. CASE UnactivateFails
  BY <1>17, <1>t DEF UnactivateFails, SetEnvFails, Fails
<1>18. CASE Notify
  BY <1>18, <1>t DEF Notify, Announce
<1>19. CASE NotifyFails
  BY <1>19, <1>t DEF NotifyFails, AnnounceFails, Fails
<1>20. CASE BackEnv
  BY <1>20, <1>t DEF BackEnv, SetEnv
<1>21. CASE BackEnvFails
  BY <1>21, <1>t DEF BackEnvFails, SetEnvFails, Fails
<1>22. CASE BackActive
  BY <1>22, <1>t DEF BackActive, SetActive
<1>23. CASE BackActiveFails
  BY <1>23, <1>t DEF BackActiveFails, Break, Fails
<1>24. CASE Renotify
  BY <1>24, <1>t DEF Renotify, Announce
<1>25. CASE RenotifyFails
  BY <1>25, <1>t DEF RenotifyFails, AnnounceFails, Fails
<1>26. CASE Restore
  BY <1>26, <1>t DEF Restore, SetEnv, Skip
<1>27. CASE RestoreFails
  BY <1>27, <1>t DEF RestoreFails, SetEnvFails, Fails
<1>28. CASE Audit
  BY <1>28, <1>t DEF Audit, Skip
<1>29. CASE AuditFails
  BY <1>29, <1>t DEF AuditFails, Break, Fails
<1>30. CASE Tell
  BY <1>30, <1>t DEF Tell, Announce
<1>31. CASE TellFails
  BY <1>31, <1>t DEF TellFails, AnnounceFails, Fails
<1>32. CASE End
  BY <1>32, <1>t, NoOpTyped DEF End, NoOp
<1>33. CASE UserOpens \/ UserCloses
  BY <1>33, <1>t DEF UserOpens, UserCloses
<1>34. CASE Crash
  BY <1>34, <1>t, NoOpTyped DEF Crash, NoOp
<1>35. CASE UNCHANGED vars
  BY <1>35, <1>t DEF vars
<1> QED
  BY <1>1, <1>2, <1>3, <1>4, <1>5, <1>6, <1>7, <1>8, <1>9, <1>10, <1>11,
     <1>12, <1>13, <1>14, <1>15, <1>16, <1>17, <1>18, <1>19, <1>20, <1>21,
     <1>22, <1>23, <1>24, <1>25, <1>26, <1>27, <1>28, <1>29, <1>30, <1>31,
     <1>32, <1>33, <1>34, <1>35
     DEF Next, Manager, Commit, Rollback, Restoration, Failure

LEMMA RestoringStep ==
  ASSUME ActivationInv, Failed, Restoring, [Next]_vars
  PROVE  Restoring'
<1> USE ActivationAssumption DEF Operation, At, Goto, Works, Stage,
        ActivationInv, Failed, Restoring, RollbackPoints, CommitPoints
<1>t. /\ op \in Operation /\ faults \in Nat /\ crashes \in Nat
      /\ env \in Values /\ active \in Workspaces
  BY DEF ActivationInv, TypeOK
<1>1. CASE Request
  BY <1>1, <1>t, RequestStarts
<1>2. CASE Stop
  BY <1>2, <1>t DEF Stop
<1>3. CASE StopFails
  BY <1>3, <1>t DEF StopFails, Break, Fails
<1>4. CASE Start
  BY <1>4, <1>t DEF Start, Wants, Wanted
<1>5. CASE StartRefused
  BY <1>5, <1>t DEF StartRefused, Wants, Wanted
<1>6. CASE StartFails
  BY <1>6, <1>t DEF StartFails, Wants, Wanted, Fails
<1>7. CASE NothingToReopen
  BY <1>7, <1>t DEF NothingToReopen, Skip
<1>8. CASE ReadEnv
  BY <1>8, <1>t DEF ReadEnv
<1>9. CASE ReadEnvFails
  BY <1>9, <1>t DEF ReadEnvFails, Break, Fails
<1>10. CASE Project
  BY <1>10, <1>t DEF Project, SetEnv
<1>11. CASE ProjectFails
  BY <1>11, <1>t DEF ProjectFails, SetEnvFails, Fails
<1>12. CASE Unproject
  BY <1>12, <1>t DEF Unproject, SetEnv
<1>13. CASE UnprojectFails
  BY <1>13, <1>t DEF UnprojectFails, SetEnvFails, Fails
<1>14. CASE Activate
  BY <1>14, <1>t DEF Activate, SetActive
<1>15. CASE ActivateFails
  BY <1>15, <1>t DEF ActivateFails, Break, Fails
<1>16. CASE Unactivate
  BY <1>16, <1>t DEF Unactivate, SetEnv
<1>17. CASE UnactivateFails
  BY <1>17, <1>t DEF UnactivateFails, SetEnvFails, Fails
<1>18. CASE Notify
  BY <1>18, <1>t DEF Notify, Announce
<1>19. CASE NotifyFails
  BY <1>19, <1>t DEF NotifyFails, AnnounceFails, Fails
<1>20. CASE BackEnv
  BY <1>20, <1>t DEF BackEnv, SetEnv
<1>21. CASE BackEnvFails
  BY <1>21, <1>t DEF BackEnvFails, SetEnvFails, Fails
<1>22. CASE BackActive
  BY <1>22, <1>t DEF BackActive, SetActive
<1>23. CASE BackActiveFails
  BY <1>23, <1>t DEF BackActiveFails, Break, Fails
<1>24. CASE Renotify
  BY <1>24, <1>t DEF Renotify, Announce
<1>25. CASE RenotifyFails
  BY <1>25, <1>t DEF RenotifyFails, AnnounceFails, Fails
<1>26. CASE Restore
  BY <1>26, <1>t DEF Restore, SetEnv, Skip
<1>27. CASE RestoreFails
  BY <1>27, <1>t DEF RestoreFails, SetEnvFails, Fails
<1>28. CASE Audit
  BY <1>28, <1>t DEF Audit, Skip
<1>29. CASE AuditFails
  BY <1>29, <1>t DEF AuditFails, Break, Fails
<1>30. CASE Tell
  BY <1>30, <1>t DEF Tell, Announce
<1>31. CASE TellFails
  BY <1>31, <1>t DEF TellFails, AnnounceFails, Fails
<1>32. CASE End
  BY <1>32, <1>t, NoOpTyped DEF End, NoOp
<1>33. CASE UserOpens \/ UserCloses
  BY <1>33, <1>t DEF UserOpens, UserCloses
<1>34. CASE Crash
  BY <1>34, <1>t, NoOpTyped DEF Crash, NoOp
<1>35. CASE UNCHANGED vars
  BY <1>35, <1>t DEF vars
<1> QED
  BY <1>1, <1>2, <1>3, <1>4, <1>5, <1>6, <1>7, <1>8, <1>9, <1>10, <1>11,
     <1>12, <1>13, <1>14, <1>15, <1>16, <1>17, <1>18, <1>19, <1>20, <1>21,
     <1>22, <1>23, <1>24, <1>25, <1>26, <1>27, <1>28, <1>29, <1>30, <1>31,
     <1>32, <1>33, <1>34, <1>35
     DEF Next, Manager, Commit, Rollback, Restoration, Failure

LEMMA TogetherStep ==
  ASSUME ActivationInv, Failed, Restoring, Together, [Next]_vars
  PROVE  Together'
<1> USE ActivationAssumption DEF Operation, At, Goto, Works, Stage,
        ActivationInv, Failed, Restoring, Together, Agreed, OneFailure,
        RollbackPoints, CommitPoints, Values
<1>t. /\ op \in Operation /\ faults \in Nat /\ crashes \in Nat
      /\ env \in Values /\ active \in Workspaces
  BY DEF ActivationInv, TypeOK
<1>1. CASE Request
  BY <1>1, <1>t, RequestStarts
<1>2. CASE Stop
  BY <1>2, <1>t DEF Stop
<1>3. CASE StopFails
  BY <1>3, <1>t DEF StopFails, Break, Fails
<1>4. CASE Start
  BY <1>4, <1>t DEF Start, Wants, Wanted
<1>5. CASE StartRefused
  BY <1>5, <1>t DEF StartRefused, Wants, Wanted
<1>6. CASE StartFails
  BY <1>6, <1>t DEF StartFails, Wants, Wanted, Fails
<1>7. CASE NothingToReopen
  BY <1>7, <1>t DEF NothingToReopen, Skip
<1>8. CASE ReadEnv
  BY <1>8, <1>t DEF ReadEnv
<1>9. CASE ReadEnvFails
  BY <1>9, <1>t DEF ReadEnvFails, Break, Fails
<1>10. CASE Project
  BY <1>10, <1>t DEF Project, SetEnv
<1>11. CASE ProjectFails
  BY <1>11, <1>t DEF ProjectFails, SetEnvFails, Fails
<1>12. CASE Unproject
  BY <1>12, <1>t DEF Unproject, SetEnv
<1>13. CASE UnprojectFails
  BY <1>13, <1>t DEF UnprojectFails, SetEnvFails, Fails
<1>14. CASE Activate
  BY <1>14, <1>t DEF Activate, SetActive
<1>15. CASE ActivateFails
  BY <1>15, <1>t DEF ActivateFails, Break, Fails
<1>16. CASE Unactivate
  BY <1>16, <1>t DEF Unactivate, SetEnv
<1>17. CASE UnactivateFails
  BY <1>17, <1>t DEF UnactivateFails, SetEnvFails, Fails
<1>18. CASE Notify
  BY <1>18, <1>t DEF Notify, Announce
<1>19. CASE NotifyFails
  BY <1>19, <1>t DEF NotifyFails, AnnounceFails, Fails
<1>20. CASE BackEnv
  BY <1>20, <1>t DEF BackEnv, SetEnv
<1>21. CASE BackEnvFails
  BY <1>21, <1>t DEF BackEnvFails, SetEnvFails, Fails
<1>22. CASE BackActive
  BY <1>22, <1>t DEF BackActive, SetActive
<1>23. CASE BackActiveFails
  BY <1>23, <1>t DEF BackActiveFails, Break, Fails
<1>24. CASE Renotify
  BY <1>24, <1>t DEF Renotify, Announce
<1>25. CASE RenotifyFails
  BY <1>25, <1>t DEF RenotifyFails, AnnounceFails, Fails
<1>26. CASE Restore
  BY <1>26, <1>t DEF Restore, SetEnv, Skip
<1>27. CASE RestoreFails
  BY <1>27, <1>t DEF RestoreFails, SetEnvFails, Fails
<1>28. CASE Audit
  BY <1>28, <1>t DEF Audit, Skip
<1>29. CASE AuditFails
  BY <1>29, <1>t DEF AuditFails, Break, Fails
<1>30. CASE Tell
  BY <1>30, <1>t DEF Tell, Announce
<1>31. CASE TellFails
  BY <1>31, <1>t DEF TellFails, AnnounceFails, Fails
<1>32. CASE End
  BY <1>32, <1>t, NoOpTyped DEF End, NoOp
<1>33. CASE UserOpens \/ UserCloses
  BY <1>33, <1>t DEF UserOpens, UserCloses
<1>34. CASE Crash
  BY <1>34, <1>t, NoOpTyped DEF Crash, NoOp
<1>35. CASE UNCHANGED vars
  BY <1>35, <1>t DEF vars
<1> QED
  BY <1>1, <1>2, <1>3, <1>4, <1>5, <1>6, <1>7, <1>8, <1>9, <1>10, <1>11,
     <1>12, <1>13, <1>14, <1>15, <1>16, <1>17, <1>18, <1>19, <1>20, <1>21,
     <1>22, <1>23, <1>24, <1>25, <1>26, <1>27, <1>28, <1>29, <1>30, <1>31,
     <1>32, <1>33, <1>34, <1>35
     DEF Next, Manager, Commit, Rollback, Restoration, Failure

LEMMA ToldStep ==
  ASSUME ActivationInv, Failed, Restoring, Told, [Next]_vars
  PROVE  Told'
<1> USE ActivationAssumption DEF Operation, At, Goto, Works, Stage,
        ActivationInv, Failed, Restoring, Told, OneFailure, RollbackPoints,
        CommitPoints, Values
<1>t. /\ op \in Operation /\ faults \in Nat /\ crashes \in Nat
      /\ env \in Values /\ active \in Workspaces
  BY DEF ActivationInv, TypeOK
<1>1. CASE Request
  BY <1>1, <1>t, RequestStarts
<1>2. CASE Stop
  BY <1>2, <1>t DEF Stop
<1>3. CASE StopFails
  BY <1>3, <1>t DEF StopFails, Break, Fails
<1>4. CASE Start
  BY <1>4, <1>t DEF Start, Wants, Wanted
<1>5. CASE StartRefused
  BY <1>5, <1>t DEF StartRefused, Wants, Wanted
<1>6. CASE StartFails
  BY <1>6, <1>t DEF StartFails, Wants, Wanted, Fails
<1>7. CASE NothingToReopen
  BY <1>7, <1>t DEF NothingToReopen, Skip
<1>8. CASE ReadEnv
  BY <1>8, <1>t DEF ReadEnv
<1>9. CASE ReadEnvFails
  BY <1>9, <1>t DEF ReadEnvFails, Break, Fails
<1>10. CASE Project
  BY <1>10, <1>t DEF Project, SetEnv
<1>11. CASE ProjectFails
  BY <1>11, <1>t DEF ProjectFails, SetEnvFails, Fails
<1>12. CASE Unproject
  BY <1>12, <1>t DEF Unproject, SetEnv
<1>13. CASE UnprojectFails
  BY <1>13, <1>t DEF UnprojectFails, SetEnvFails, Fails
<1>14. CASE Activate
  BY <1>14, <1>t DEF Activate, SetActive
<1>15. CASE ActivateFails
  BY <1>15, <1>t DEF ActivateFails, Break, Fails
<1>16. CASE Unactivate
  BY <1>16, <1>t DEF Unactivate, SetEnv
<1>17. CASE UnactivateFails
  BY <1>17, <1>t DEF UnactivateFails, SetEnvFails, Fails
<1>18. CASE Notify
  BY <1>18, <1>t DEF Notify, Announce
<1>19. CASE NotifyFails
  BY <1>19, <1>t DEF NotifyFails, AnnounceFails, Fails
<1>20. CASE BackEnv
  BY <1>20, <1>t DEF BackEnv, SetEnv
<1>21. CASE BackEnvFails
  BY <1>21, <1>t DEF BackEnvFails, SetEnvFails, Fails
<1>22. CASE BackActive
  BY <1>22, <1>t DEF BackActive, SetActive
<1>23. CASE BackActiveFails
  BY <1>23, <1>t DEF BackActiveFails, Break, Fails
<1>24. CASE Renotify
  BY <1>24, <1>t DEF Renotify, Announce
<1>25. CASE RenotifyFails
  BY <1>25, <1>t DEF RenotifyFails, AnnounceFails, Fails
<1>26. CASE Restore
  BY <1>26, <1>t DEF Restore, SetEnv, Skip
<1>27. CASE RestoreFails
  BY <1>27, <1>t DEF RestoreFails, SetEnvFails, Fails
<1>28. CASE Audit
  BY <1>28, <1>t DEF Audit, Skip
<1>29. CASE AuditFails
  BY <1>29, <1>t DEF AuditFails, Break, Fails
<1>30. CASE Tell
  BY <1>30, <1>t DEF Tell, Announce
<1>31. CASE TellFails
  BY <1>31, <1>t DEF TellFails, AnnounceFails, Fails
<1>32. CASE End
  BY <1>32, <1>t, NoOpTyped DEF End, NoOp
<1>33. CASE UserOpens \/ UserCloses
  BY <1>33, <1>t DEF UserOpens, UserCloses
<1>34. CASE Crash
  BY <1>34, <1>t, NoOpTyped DEF Crash, NoOp
<1>35. CASE UNCHANGED vars
  BY <1>35, <1>t DEF vars
<1> QED
  BY <1>1, <1>2, <1>3, <1>4, <1>5, <1>6, <1>7, <1>8, <1>9, <1>10, <1>11,
     <1>12, <1>13, <1>14, <1>15, <1>16, <1>17, <1>18, <1>19, <1>20, <1>21,
     <1>22, <1>23, <1>24, <1>25, <1>26, <1>27, <1>28, <1>29, <1>30, <1>31,
     <1>32, <1>33, <1>34, <1>35
     DEF Next, Manager, Commit, Rollback, Restoration, Failure

Undoing == ActivationInv /\ Failed /\ Restoring /\ Together /\ Told

LEMMA UndoingInductive == Spec => []Undoing
<1>1. Init => Undoing
  <2> SUFFICES ASSUME Init PROVE Undoing
    OBVIOUS
  <2>1. op.pc = "idle" /\ op.kind = "launch"
    BY DEF Init, NoOp
  <2>2. Agreed(env, active) /\ announced = env
    BY ActivationAssumption DEF Init, Agreed
  <2> QED
    BY <2>1, <2>2, InitEstablishes
       DEF Undoing, Failed, Restoring, Together, Told, RollbackPoints, CommitPoints
<1>2. Undoing /\ [Next]_vars => Undoing'
  BY ActivationStep, FailedStep, RestoringStep, TogetherStep, ToldStep DEF Undoing
<1> QED
  BY <1>1, <1>2, PTL DEF Spec

\* A switch that fails has put registry and catalog back, whichever one call
\* failed and however many managers died before it.
THEOREM FailureRestores == Spec => []FailedSwitchRestores
<1>1. Undoing => FailedSwitchRestores
  BY DEF Undoing, Restoring, FailedSwitchRestores, At
<1> QED
  BY <1>1, UndoingInductive, PTL

\* As long as one call has failed at most, whoever reads under the data lock
\* sees the home of the active workspace projected.
THEOREM OneWorkspaceSeen == Spec => []ReadersSeeOneWorkspace
<1>1. Undoing => ReadersSeeOneWorkspace
  BY DEF Undoing, Together, Agreed, ReadersSeeOneWorkspace, Locked, HomeOf
<1> QED
  BY <1>1, UndoingInductive, PTL

\* The application the manager starts uses the home of the active workspace,
\* though it takes it from the shell.
THEOREM StartsActive == Spec => ManagerStartsActive
<1>1. Undoing /\ [Next]_vars =>
        [/\ OneFailure' /\ announced # Legacy
         /\ desktop = Nothing /\ (Start \/ StartFails)
         => desktop' \in {Nothing, active}]_vars
  <2> SUFFICES ASSUME Undoing, OneFailure', announced # Legacy,
                      desktop = Nothing, Start \/ StartFails
               PROVE  desktop' \in {Nothing, active}
    OBVIOUS
  <2>1. OneFailure
    BY DEF Start, StartFails, Works, Fails, OneFailure, Undoing, ActivationInv,
           TypeOK
  <2>2. op.pc \in {"check", "reopen"} /\ desktop' \in {desktop, HomeOf(announced)}
    BY DEF Start, StartFails, Started, Wants, At
  <2>3. announced = env /\ Agreed(env, active)
    BY <2>1, <2>2 DEF Undoing, Told, Together, RollbackPoints
  <2> QED
    BY <2>2, <2>3 DEF Agreed, HomeOf
<1> QED
  BY <1>1, UndoingInductive, PTL DEF ManagerStartsActive, Spec
=============================================================================
