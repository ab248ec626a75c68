------------------------ MODULE AuthProfiles_proofs ------------------------
(***************************************************************************)
(* Theorems of AuthProfiles, for any channels and workspaces, anything an  *)
(* earlier version may have left, and any number of logins, keys, failing  *)
(* writes and deaths: its types and what AuthCrash checks.  The invariants *)
(* of AuthFaults hold for one failing write and no death only: they follow *)
(* from a second inductive invariant, of the states that OneFault admits.  *)
(***************************************************************************)
EXTENDS AuthProfiles, TLAPS

\* Where the operations are, besides ApplyPoints and UndoPoints.
InitPoints == {"import", "migrate", "capture", "snapshot", "save", "reconcile",
               "bootstrap"}
InstallPoints == {"issue", "archive", "know", "finalize", "adopt"}
ReauthorizePoints == {"rearchive", "resync", "resave", "refresh"}

\* Each kind of operation goes its own way, for a profile it can have.
Placed ==
  /\ op.pc \in InitPoints => op.kind \in {"prepare", "install"}
  /\ op.pc \in InstallPoints => op.kind = "install"
  /\ op.pc \in ReauthorizePoints => op.kind = "reauthorize"
  /\ op.pc = "select" => op.kind = "switch"
  /\ op.pc \in {"register", "clean"} => op.kind = "create"
  /\ op.pc = "undocatalog" => op.kind \in {"switch", "create"}
  /\ op.pc \in ApplyPoints \union UndoPoints => op.kind # "prepare"
  /\ op.kind \in {"install", "reauthorize"} => op.profile \in Channels
  /\ op.kind \in {"switch", "create"} => op.profile \in Profiles
  /\ op.kind \in {"create", "reauthorize"} => ~op.checkpoint

-----------------------------------------------------------------------------
(* Types.                                                                  *)

LEMMA Fields ==
  ASSUME op \in Operation
  PROVE  /\ op.kind \in AllKinds /\ op.pc \in Points /\ op.ws \in Workspaces
         /\ op.profile \in Profiles \union {NoProfile}
         /\ op.current \in Profiles \union {NoProfile}
         /\ op.checkpoint \in BOOLEAN /\ op.wasRunning \in BOOLEAN
         /\ op.target \in Login /\ op.saved \in Home
         /\ op.savedMeta \in Metadata /\ op.auto \in BOOLEAN
         /\ op.key \in Login /\ op.todo \in SUBSET Workspaces
         /\ op.before.home \in Home /\ op.before.meta \in Metadata
         /\ op.before.choice \in Profiles \union {NoProfile, Absent}
BY DEF Operation

LEMMA Moved ==
  ASSUME op \in Operation, NEW from, NEW to \in Points, Goto(from, to)
  PROVE  op' \in Operation
BY DEF Operation, Goto

LEMMA Noted ==
  ASSUME op \in Operation, NEW to \in Points, NEW login \in Login,
         NEW flag \in BOOLEAN, NEW savedMeta \in Metadata,
         \/ op' = [op EXCEPT !.pc = to, !.target = login]
         \/ op' = [op EXCEPT !.pc = to, !.checkpoint = flag]
         \/ op' = [op EXCEPT !.pc = to, !.auto = flag, !.savedMeta = savedMeta]
         \/ op' = [op EXCEPT !.pc = to, !.auto = flag, !.savedMeta = savedMeta,
                             !.key = login]
  PROVE  op' \in Operation
BY DEF Operation

LEMMA Logins ==
  /\ NoLogin \in Login
  /\ EmptyHome \in Home
  /\ \A n \in Nat : ChatGPT(n) \in Login
  /\ \A c \in Channels, n \in Nat : Key(c, n) \in Login
  /\ \A h \in Home : h.auth \in Login /\ h.config \in Configs
  /\ \A m \in Metadata : m.active \in Profiles \union {NoProfile} /\ m.known \subseteq Profiles
BY DEF NoLogin, EmptyHome, ChatGPT, Key, Login, Home, Configs, Profiles,
     Metadata

LEMMA Started ==
  ASSUME TypeOK, NEW kind \in AllKinds, NEW pc \in Points, NEW ws \in Workspaces,
         NEW profile \in Profiles \union {NoProfile}
  PROVE  Start(kind, pc, ws, profile) \in Operation
<1>1. NoOp \in Operation
  BY AuthAssumption, Logins DEF NoOp, Operation, AllKinds, Points, Metadata
<1>2. /\ home[ws] \in Home /\ catalog[ws] \in Profiles \union {NoProfile, Absent}
      /\ meta \in Metadata
  BY DEF TypeOK
<1>q. QED
  BY <1>1, <1>2 DEF Start, Operation

LEMMA ApplyTyped ==
  ASSUME TypeOK, Placed, Apply
  PROVE  TypeOK'
<1> USE AuthAssumption, Fields, Logins DEF TypeOK, files, upgrade, outside
<1>1. CASE LoadTarget
  <2>1. op' \in Operation
    <3>1. CASE Goto("load", AfterError)
      BY <3>1, Moved DEF AfterError, Points
    <3>2. CASE ~Goto("load", AfterError)
      <4>1. op.profile \in meta.known
        BY <1>1, <3>2 DEF LoadTarget
      <4>2. archive[op.profile] \in Login /\ home[op.ws] \in Home
        BY <4>1
      <4> DEFINE current == IF op.kind = "install" THEN meta.active ELSE op.current
      <4>3. current \in Profiles \union {NoProfile}
        OBVIOUS
      <4>4. op' = [op EXCEPT !.pc = "checkpoint", !.target = archive[op.profile],
                             !.saved = home[op.ws], !.savedMeta = meta,
                             !.current = current]
        BY <1>1, <3>2 DEF LoadTarget
      <4> HIDE DEF current
      <4>q. QED
        BY <4>2, <4>3, <4>4 DEF Operation, Points, ApplyPoints
    <3>q. QED
      BY <3>1, <3>2
  <2>q. QED
    BY <1>1, <2>1 DEF LoadTarget, Goto
<1>2. CASE Checkpoint
  <2>1. op' \in Operation
    BY <1>2, Moved DEF Checkpoint, Points, ApplyPoints, UndoPoints
  <2>q. QED
    BY <1>2, <2>1 DEF Checkpoint, Goto
<1>3. CASE CheckpointFails
  <2>1. op' \in Operation
    BY <1>3, Moved DEF CheckpointFails, Points, ApplyPoints, UndoPoints, Fails
  <2>q. QED
    BY <1>3, <2>1 DEF CheckpointFails, Fails
<1>4. CASE KeepConfig
  <2>1. op' \in Operation
    BY <1>4, Moved DEF KeepConfig, Points, ApplyPoints, UndoPoints
  <2>q. QED
    BY <1>4, <2>1 DEF KeepConfig, Captured, Configs
<1>5. CASE WriteAuth
  <2>1. op' \in Operation
    BY <1>5, Moved DEF WriteAuth, Points, ApplyPoints, UndoPoints
  <2>q. QED
    BY <1>5, <2>1 DEF WriteAuth, Home, Goto
<1>6. CASE WriteConfig
  <2>1. op' \in Operation
    BY <1>6, Moved DEF WriteConfig, Points, ApplyPoints, UndoPoints
  <2>q. QED
    BY <1>6, <2>1 DEF WriteConfig, Home, Configs, Goto
<1>7. CASE MarkOwner
  <2>1. op' \in Operation
    BY <1>7, Moved DEF MarkOwner, Points, ApplyPoints, UndoPoints
  <2>q. QED
    BY <1>7, <2>1 DEF MarkOwner
<1>8. CASE CommitMeta
  <2>1. op' \in Operation
    BY <1>8, Moved DEF CommitMeta, Points, ApplyPoints, UndoPoints, AfterApply
  <2>q. QED
    BY <1>8, <2>1 DEF CommitMeta, MetaWith, Metadata, Profiles
<1>9. CASE ApplyFails
  <2>1. op' \in Operation
    BY <1>9, Moved DEF ApplyFails, Points, ApplyPoints, UndoPoints, Fails
  <2>q. QED
    BY <1>9, <2>1 DEF ApplyFails, Fails
<1>10. CASE UndoAuth
  <2>1. op' \in Operation
    BY <1>10, Moved DEF UndoAuth, Points, ApplyPoints, UndoPoints
  <2>q. QED
    BY <1>10, <2>1 DEF UndoAuth, Home
<1>11. CASE UndoConfig
  <2>1. op' \in Operation
    BY <1>11, Moved DEF UndoConfig, Points, ApplyPoints, UndoPoints
  <2>q. QED
    BY <1>11, <2>1 DEF UndoConfig, Home
<1>12. CASE UndoMeta
  <2>1. op' \in Operation
    BY <1>12, Moved DEF UndoMeta, Points, ApplyPoints, UndoPoints, AfterError
  <2>q. QED
    BY <1>12, <2>1 DEF UndoMeta
<1>13. CASE UndoFails
  <2>1. op' \in Operation
    BY <1>13, Moved DEF UndoFails, Points, ApplyPoints, UndoPoints, Fails,
         AfterError
  <2>q. QED
    BY <1>13, <2>1 DEF UndoFails, Fails
<1>q. QED
  BY <1>1, <1>2, <1>3, <1>4, <1>5, <1>6, <1>7, <1>8, <1>9, <1>10, <1>11, <1>12,
       <1>13 DEF Apply

LEMMA SwitchingTyped ==
  ASSUME TypeOK, Placed, Switching
  PROVE  TypeOK'
<1> USE AuthAssumption, Fields, Logins DEF TypeOK, files, upgrade, outside
<1>1. CASE Select
  <2>1. op' \in Operation
    BY <1>1, Moved DEF Select, Points, ApplyPoints, UndoPoints
  <2>q. QED
    BY <1>1, <2>1 DEF Select, Profiles
<1>2. CASE SelectFails
  <2>1. op' \in Operation
    BY <1>2, Moved DEF SelectFails, Points, ApplyPoints, UndoPoints, Fails
  <2>q. QED
    BY <1>2, <2>1 DEF SelectFails, Fails
<1>3. CASE UndoCatalog
  <2>1. op' \in Operation
    BY <1>3, Moved DEF UndoCatalog, Points, ApplyPoints, UndoPoints
  <2>q. QED
    BY <1>3, <2>1 DEF UndoCatalog
<1>4. CASE RemoveHome
  <2>1. op' \in Operation
    BY <1>4, Moved DEF RemoveHome, Points, ApplyPoints, UndoPoints
  <2>q. QED
    BY <1>4, <2>1 DEF RemoveHome
<1>5. CASE UndoCatalogFails
  <2>1. op' \in Operation
    BY <1>5, Moved DEF UndoCatalogFails, Points, ApplyPoints, UndoPoints, Fails
  <2>q. QED
    BY <1>5, <2>1 DEF UndoCatalogFails, Fails
<1>q. QED
  BY <1>1, <1>2, <1>3, <1>4, <1>5 DEF Switching

LEMMA ReauthorizingTyped ==
  ASSUME TypeOK, Placed, Reauthorizing
  PROVE  TypeOK'
<1> USE AuthAssumption, Fields, Logins DEF TypeOK, files, upgrade, outside
<1>1. CASE Rearchive
  <2>1. op' \in Operation
    BY <1>1, Moved DEF Rearchive, Points, ApplyPoints, UndoPoints
  <2>q. QED
    BY <1>1, <2>1 DEF Rearchive
<1>2. CASE Resync
  <2>1. op' \in Operation
    BY <1>2, Moved DEF Resync, Points, ApplyPoints, UndoPoints
  <2>q. QED
    BY <1>2, <2>1 DEF Resync, Home
<1>3. CASE Resave
  <2>1. op' \in Operation
    BY <1>3 DEF Resave, ResaveFor, Registered, Operation, Points
  <2>q. QED
    BY <1>3, <2>1 DEF Resave, ResaveFor
<1>4. CASE Refresh
  <2>1. op' \in Operation
    <3>1. CASE Goto("refresh", "ok")
      BY <3>1, Moved DEF Points
    <3>2. CASE ~Goto("refresh", "ok")
      <4>1. PICK w \in op.todo :
              op' = [op EXCEPT !.pc = "load", !.ws = w, !.todo = @ \ {w}]
        BY <1>4, <3>2 DEF Refresh
      <4>q. QED
        BY <4>1 DEF Operation, Points, ApplyPoints
    <3>q. QED
      BY <3>1, <3>2
  <2>q. QED
    BY <1>4, <2>1 DEF Refresh, Goto
<1>5. CASE ReauthorizeFails
  <2>1. op' \in Operation
    BY <1>5, Moved DEF ReauthorizeFails, Points, ApplyPoints, UndoPoints, Fails
  <2>q. QED
    BY <1>5, <2>1 DEF ReauthorizeFails, Fails
<1>q. QED
  BY <1>1, <1>2, <1>3, <1>4, <1>5 DEF Reauthorizing

LEMMA InitializingTyped ==
  ASSUME TypeOK, Placed, Initializing
  PROVE  TypeOK'
<1> USE AuthAssumption, Fields, Logins DEF TypeOK, files, upgrade, outside
<1>1. CASE Import
  <2>1. op' \in Operation
    BY <1>1, Moved DEF Import, Points, ApplyPoints, UndoPoints
  <2>q. QED
    <3>1. store' = [place |-> "old", imported |-> TRUE] /\ initialized' \in BOOLEAN
      BY <1>1 DEF Import
    <3>2. store' \in [place: {"none", "old", "legacy", "current"}, imported: BOOLEAN]
      BY <3>1
    <3>3. faults' \in Nat
      BY <1>1 DEF Import
    <3>q. QED
      BY <1>1, <2>1, <3>1, <3>2, <3>3 DEF Import
<1>2. CASE MigrateKey
  <2>1. op' \in Operation
    BY <1>2, SMT DEF MigrateKey
  <2>q. QED
    BY <1>2, <2>1 DEF MigrateKey, NotArchived, PreviousHome, OldKey
<1>3. CASE SaveVersion
  <2>1. op' \in Operation
    BY <1>3, Moved DEF SaveVersion, Points, ApplyPoints, UndoPoints,
         FromBootstrap
  <2>q. QED
    BY <1>3, <2>1 DEF SaveVersion
<1>4. CASE Capture
  <2>1. op' \in Operation
    BY <1>4, Noted DEF Capture, Original, Points, ApplyPoints, UndoPoints
  <2>q. QED
    BY <1>4, <2>1 DEF Capture, Original
<1>5. CASE Snapshot
  <2>1. op' \in Operation
    BY <1>5, Moved DEF Snapshot, Points, ApplyPoints, UndoPoints
  <2>q. QED
    BY <1>5, <2>1 DEF Snapshot, Captured, Configs
<1>6. CASE SaveProfiles
  <2>1. op' \in Operation
    BY <1>6, Moved DEF SaveProfiles, Points, ApplyPoints, UndoPoints
  <2>q. QED
    BY <1>6, <2>1 DEF SaveProfiles, Metadata, Profiles
<1>7. CASE Reconcile
  <2>1. op' \in Operation
    BY <1>7, Moved DEF Reconcile, Points, ApplyPoints, UndoPoints
  <2>q. QED
    BY <1>7, <2>1 DEF Reconcile, Metadata, Shown, Profiles
<1>8. CASE Bootstrap
  <2>1. op' \in Operation
    BY <1>8, Moved DEF Bootstrap, Points, ApplyPoints, UndoPoints
  <2>q. QED
    <3>1. \A w \in Workspaces : Catalogued[w] \in Profiles \union {NoProfile, Absent}
      BY DEF Catalogued, Imported, Profiles
    <3>2. catalog' \in [Workspaces -> Profiles \union {NoProfile, Absent}]
      BY <1>8, <3>1 DEF Bootstrap, Catalogued
    <3>q. QED
      BY <1>8, <2>1, <3>2 DEF Bootstrap, Goto
<1>9. CASE InitializeFails
  <2>1. op' \in Operation
    BY <1>9, Moved DEF InitializeFails, Points, ApplyPoints, UndoPoints, Fails
  <2>q. QED
    <3>1. initialized' \in BOOLEAN
      BY <1>9 DEF InitializeFails
    <3>2. faults' \in Nat /\ UNCHANGED files
      BY <1>9 DEF InitializeFails, Fails
    <3>q. QED
      BY <1>9, <2>1, <3>1, <3>2 DEF InitializeFails
<1>q. QED
  BY <1>1, <1>2, <1>3, <1>4, <1>5, <1>6, <1>7, <1>8, <1>9 DEF Initializing

LEMMA InstallingTyped ==
  ASSUME TypeOK, Placed, Installing
  PROVE  TypeOK'
<1> USE AuthAssumption, Fields, Logins DEF TypeOK, files, upgrade, outside
<1>1. CASE Issue
  <2>1. op' \in Operation
    <3> DEFINE auto == meta.active = NoProfile
    <3>1. op.profile \in Channels
      BY <1>1 DEF Issue, Placed, InstallPoints
    <3>2. Key(op.profile, keys + 1) \in Login
      BY <3>1
    <3>3. \/ op' = [op EXCEPT !.pc = "know", !.auto = auto, !.savedMeta = meta]
          \/ op' = [op EXCEPT !.pc = "archive", !.auto = auto, !.savedMeta = meta,
                              !.key = Key(op.profile, keys + 1)]
      BY <1>1, Zenon DEF Issue
    <3>4. auto \in BOOLEAN
      OBVIOUS
    <3> HIDE DEF auto
    <3>q. QED
      <4>1. CASE op' = [op EXCEPT !.pc = "know", !.auto = auto, !.savedMeta = meta]
        BY <4>1, <3>4 DEF Operation, Points
      <4>2. CASE op' = [op EXCEPT !.pc = "archive", !.auto = auto, !.savedMeta = meta,
                                  !.key = Key(op.profile, keys + 1)]
        BY <4>2, <3>2, <3>4 DEF Operation, Points
      <4>q. QED
        BY <3>3, <4>1, <4>2
  <2>q. QED
    BY <1>1, <2>1 DEF Issue
<1>2. CASE IssueFails
  <2>1. op' \in Operation
    BY <1>2, Moved DEF IssueFails, Points, ApplyPoints, UndoPoints
  <2>q. QED
    BY <1>2, <2>1 DEF IssueFails
<1>3. CASE ArchiveKey
  <2>1. op' \in Operation
    BY <1>3, Moved DEF ArchiveKey, Points, ApplyPoints, UndoPoints
  <2>q. QED
    BY <1>3, <2>1 DEF ArchiveKey
<1>4. CASE Know
  <2>1. op' \in Operation
    BY <1>4, Moved DEF Know, Points, ApplyPoints, UndoPoints
  <2>q. QED
    <3>1. op.profile \in Profiles
      BY <1>4 DEF Know, Goto, Placed, InstallPoints, Profiles
    <3>q. QED
      BY <1>4, <2>1, <3>1 DEF Know, Metadata
<1>5. CASE Finalize
  <2>1. op' \in Operation
    BY <1>5, Noted DEF Finalize, Points, ApplyPoints, UndoPoints
  <2>q. QED
    BY <1>5, <2>1 DEF Finalize
<1>6. CASE Adopt
  <2>1. op' \in Operation
    BY <1>6, Moved DEF Adopt, Points, ApplyPoints, UndoPoints
  <2>q. QED
    BY <1>6, <2>1 DEF Adopt
<1>7. CASE InstallFails
  <2>1. op' \in Operation
    BY <1>7, Moved DEF InstallFails, Points, ApplyPoints, UndoPoints, Fails
  <2>q. QED
    BY <1>7, <2>1 DEF InstallFails, Fails
<1>q. QED
  BY <1>1, <1>2, <1>3, <1>4, <1>5, <1>6, <1>7 DEF Installing
LEMMA RequestTyped ==
  ASSUME TypeOK, Placed, Request
  PROVE  TypeOK' /\ Placed'
<1> USE AuthAssumption DEF TypeOK, files, upgrade, outside, AllKinds
<1>1. CASE BeginPrepare
  <2>1. FirstStep \in Points /\ FirstStep \in InitPoints
    BY DEF FirstStep, FromBootstrap, Points, InitPoints
  <2>2. op' = Start("prepare", FirstStep, Default, NoProfile)
    BY <1>1 DEF BeginPrepare
  <2>3. op' \in Operation
    BY <2>1, <2>2, Started
  <2>4. op'.kind = "prepare" /\ op'.pc = FirstStep /\ ~op'.checkpoint
    BY <2>2 DEF Start, NoOp
  <2>5. Placed'
    BY <2>1, <2>4 DEF Placed, InitPoints, InstallPoints, ReauthorizePoints,
         ApplyPoints, UndoPoints
  <2>q. QED
    BY <1>1, <2>3, <2>5 DEF BeginPrepare
<1>2. ASSUME NEW c \in Channels, BeginInstall(c) PROVE TypeOK' /\ Placed'
  <2>1. FirstStep \in Points /\ FirstStep \in InitPoints
    BY DEF FirstStep, FromBootstrap, Points, InitPoints
  <2>2. op' = Start("install", FirstStep, Default, c)
    BY <1>2 DEF BeginInstall
  <2>3. op' \in Operation
    BY <2>1, <2>2, Started DEF Profiles
  <2>4. op'.kind = "install" /\ op'.pc = FirstStep /\ op'.profile = c
    BY <2>2 DEF Start, NoOp
  <2>5. Placed'
    BY <2>1, <2>4 DEF Placed, InitPoints, InstallPoints, ReauthorizePoints,
         ApplyPoints, UndoPoints
  <2>q. QED
    BY <1>2, <2>3, <2>5 DEF BeginInstall
<1>3. ASSUME NEW w \in Workspaces, NEW p \in Profiles, BeginSwitch(w, p)
      PROVE  TypeOK' /\ Placed'
  <2> DEFINE start == Start("switch", "select", w, p)
             running == active = w /\ desktop # NoWorkspace
  <2>1. start \in Operation
    BY Started DEF Points
  <2>2. op' = [start EXCEPT !.current = catalog[w], !.checkpoint = (active = w),
                            !.wasRunning = running]
    BY <1>3 DEF BeginSwitch, SwitchFrom
  <2>3. catalog[w] \in Profiles \union {NoProfile} /\ running \in BOOLEAN
    BY <1>3 DEF BeginSwitch, Registered
  <2>4. start.kind = "switch" /\ start.pc = "select" /\ start.profile = p
    BY DEF Start, NoOp
  <2> HIDE DEF start, running
  <2>5. op' \in Operation
    BY <2>1, <2>2, <2>3 DEF Operation
  <2>6. op'.kind = "switch" /\ op'.pc = "select" /\ op'.profile = p
    BY <2>1, <2>2, <2>4 DEF Operation
  <2>7. Placed'
    BY <2>6 DEF Placed, InitPoints, InstallPoints, ReauthorizePoints,
         ApplyPoints, UndoPoints
  <2>q. QED
    BY <1>3, <2>5, <2>7 DEF BeginSwitch, SwitchFrom, StopDesktopIf
<1>4. ASSUME NEW w \in Workspaces, NEW p \in Profiles, BeginCreate(w, p)
      PROVE  TypeOK' /\ Placed'
  <2>1. op' = Start("create", "register", w, p)
    BY <1>4 DEF BeginCreate
  <2>2. op' \in Operation
    BY <2>1, Started DEF Points
  <2>3. op'.kind = "create" /\ op'.pc = "register" /\ op'.profile = p /\ ~op'.checkpoint
    BY <2>1 DEF Start, NoOp
  <2>4. Placed'
    BY <2>3 DEF Placed, InitPoints, InstallPoints, ReauthorizePoints,
         ApplyPoints, UndoPoints
  <2>q. QED
    BY <1>4, <2>2, <2>4 DEF BeginCreate
<1>5. ASSUME NEW c \in Channels, BeginReauthorize(c) PROVE TypeOK' /\ Placed'
  <2> DEFINE start == Start("reauthorize", "rearchive", Default, c)
             running == catalog[active] = c /\ desktop # NoWorkspace
  <2>1. start \in Operation
    BY Started DEF Points, Profiles
  <2>2. op' = [start EXCEPT !.key = Key(c, keys + 1), !.wasRunning = running]
    BY <1>5 DEF BeginReauthorize
  <2>3. Key(c, keys + 1) \in Login /\ running \in BOOLEAN
    BY Logins
  <2>4. start.kind = "reauthorize" /\ start.pc = "rearchive" /\ start.profile = c
        /\ ~start.checkpoint
    BY DEF Start, NoOp
  <2> HIDE DEF start, running
  <2>5. op' \in Operation
    BY <2>1, <2>2, <2>3 DEF Operation
  <2>6. op'.kind = "reauthorize" /\ op'.pc = "rearchive" /\ op'.profile = c
        /\ ~op'.checkpoint
    BY <2>1, <2>2, <2>4 DEF Operation
  <2>7. Placed'
    BY <2>6 DEF Placed, InitPoints, InstallPoints, ReauthorizePoints,
         ApplyPoints, UndoPoints
  <2>q. QED
    BY <1>5, <2>5, <2>7 DEF BeginReauthorize, StopDesktopIf
<1>6. ASSUME Launch \/ \E w \in Workspaces : Activate(w)
      PROVE  TypeOK' /\ Placed'
  BY <1>6 DEF Launch, Activate, Placed
<1>q. QED
  BY <1>1, <1>2, <1>3, <1>4, <1>5, <1>6 DEF Request

LEMMA ApplyPlaced ==
  ASSUME op \in Operation, Placed, Apply
  PROVE  Placed'
<1> USE Fields DEF Placed, Goto, Fails, InitPoints, InstallPoints,
      ReauthorizePoints, ApplyPoints, UndoPoints
<1>1. CASE LoadTarget
  <2>1. /\ op'.kind = op.kind /\ op'.profile = op.profile
        /\ op'.checkpoint = op.checkpoint
        /\ (op'.pc = "undocatalog" => op.kind \in {"switch", "create"}) /\ op.pc = "load"
        /\ op'.pc \in {"checkpoint", "undocatalog", "failed"}
    BY <1>1 DEF LoadTarget, Operation, AfterError
  <2>q. QED
    BY <2>1, <1>1
<1>2. CASE Checkpoint
  <2>1. /\ op'.kind = op.kind /\ op'.profile = op.profile
        /\ op'.checkpoint = op.checkpoint
        /\ op.pc = "checkpoint"
        /\ op'.pc \in {"auth", "keep", "undoauth"}
    BY <1>2 DEF Checkpoint, Operation
  <2>q. QED
    BY <2>1, <1>2
<1>3. CASE CheckpointFails
  BY <1>3 DEF CheckpointFails
<1>4. CASE KeepConfig
  BY <1>4 DEF KeepConfig
<1>5. CASE WriteAuth
  BY <1>5 DEF WriteAuth
<1>6. CASE WriteConfig
  BY <1>6 DEF WriteConfig
<1>7. CASE MarkOwner
  BY <1>7 DEF MarkOwner
<1>8. CASE CommitMeta
  BY <1>8 DEF CommitMeta, AfterApply, AllKinds
<1>9. CASE ApplyFails
  BY <1>9 DEF ApplyFails
<1>10. CASE UndoAuth
  BY <1>10 DEF UndoAuth
<1>11. CASE UndoConfig
  BY <1>11 DEF UndoConfig
<1>12. CASE UndoMeta
  BY <1>12 DEF UndoMeta, AfterError
<1>13. CASE UndoFails
  BY <1>13 DEF UndoFails, AfterError
<1>q. QED
  BY <1>1, <1>2, <1>3, <1>4, <1>5, <1>6, <1>7, <1>8, <1>9, <1>10, <1>11, <1>12,
       <1>13 DEF Apply

LEMMA SwitchingPlaced ==
  ASSUME op \in Operation, Placed, Switching
  PROVE  Placed'
<1> USE Fields DEF Placed, Goto, Fails, InitPoints, InstallPoints,
      ReauthorizePoints, ApplyPoints, UndoPoints
<1>1. CASE Select
  <2>1. /\ op'.kind = op.kind /\ op'.profile = op.profile
        /\ op'.checkpoint = op.checkpoint
        /\ op.pc \in {"select", "register"}
        /\ op'.pc \in {"load", "failed"}
    BY <1>1 DEF Select, Operation
  <2>q. QED
    BY <2>1, <1>1
<1>2. CASE SelectFails
  BY <1>2 DEF SelectFails
<1>3. CASE UndoCatalog
  BY <1>3 DEF UndoCatalog
<1>4. CASE RemoveHome
  BY <1>4 DEF RemoveHome
<1>5. CASE UndoCatalogFails
  BY <1>5 DEF UndoCatalogFails
<1>q. QED
  BY <1>1, <1>2, <1>3, <1>4, <1>5 DEF Switching

LEMMA ReauthorizingPlaced ==
  ASSUME op \in Operation, Placed, Reauthorizing
  PROVE  Placed'
<1> USE Fields DEF Placed, Goto, Fails, InitPoints, InstallPoints,
      ReauthorizePoints, ApplyPoints, UndoPoints
<1>1. CASE Rearchive
  BY <1>1 DEF Rearchive
<1>2. CASE Resync
  BY <1>2 DEF Resync
<1>3. CASE Resave
  BY <1>3 DEF Resave, ResaveFor
<1>4. CASE Refresh
  <2>1. /\ op'.kind = op.kind /\ op'.profile = op.profile
        /\ op'.checkpoint = op.checkpoint
        /\ op.pc = "refresh"
        /\ op'.pc \in {"ok", "load"}
    BY <1>4 DEF Refresh, Operation
  <2>q. QED
    BY <2>1, <1>4
<1>5. CASE ReauthorizeFails
  BY <1>5 DEF ReauthorizeFails
<1>q. QED
  BY <1>1, <1>2, <1>3, <1>4, <1>5 DEF Reauthorizing

LEMMA InitializingPlaced ==
  ASSUME op \in Operation, Placed, Initializing
  PROVE  Placed'
<1> USE Fields DEF Placed, Goto, Fails, InitPoints, InstallPoints,
      ReauthorizePoints, ApplyPoints, UndoPoints
<1>1. CASE Import
  <2>1. /\ op'.kind = op.kind /\ op'.profile = op.profile
        /\ op'.checkpoint = op.checkpoint
        /\ op.pc = "import"
        /\ op'.pc \in {"migrate", "failed"}
    BY <1>1 DEF Import, Operation
  <2>q. QED
    BY <2>1, <1>1
<1>2. CASE MigrateKey
  BY <1>2 DEF MigrateKey
<1>3. CASE SaveVersion
  BY <1>3 DEF SaveVersion, FromBootstrap
<1>4. CASE Capture
  BY <1>4 DEF Capture
<1>5. CASE Snapshot
  BY <1>5 DEF Snapshot
<1>6. CASE SaveProfiles
  BY <1>6 DEF SaveProfiles
<1>7. CASE Reconcile
  BY <1>7 DEF Reconcile
<1>8. CASE Bootstrap
  BY <1>8 DEF Bootstrap
<1>9. CASE InitializeFails
  BY <1>9 DEF InitializeFails
<1>q. QED
  BY <1>1, <1>2, <1>3, <1>4, <1>5, <1>6, <1>7, <1>8, <1>9 DEF Initializing

LEMMA InstallingPlaced ==
  ASSUME op \in Operation, Placed, Installing
  PROVE  Placed'
<1> USE Fields DEF Placed, Goto, Fails, InitPoints, InstallPoints,
      ReauthorizePoints, ApplyPoints, UndoPoints
<1>1. CASE Issue
  <2>1. /\ op'.kind = op.kind /\ op'.profile = op.profile
        /\ op'.checkpoint = op.checkpoint
        /\ op.pc = "issue"
        /\ op'.pc \in {"know", "archive"}
    BY <1>1 DEF Issue, Operation
  <2>q. QED
    BY <2>1, <1>1
<1>2. CASE IssueFails
  BY <1>2 DEF IssueFails
<1>3. CASE ArchiveKey
  BY <1>3 DEF ArchiveKey
<1>4. CASE Know
  BY <1>4 DEF Know
<1>5. CASE Finalize
  BY <1>5 DEF Finalize
<1>6. CASE Adopt
  BY <1>6 DEF Adopt
<1>7. CASE InstallFails
  BY <1>7 DEF InstallFails
<1>q. QED
  BY <1>1, <1>2, <1>3, <1>4, <1>5, <1>6, <1>7 DEF Installing

LEMMA OtherTyped ==
  ASSUME TypeOK, Placed, Finish \/ DesktopLogin \/ Crash \/ UNCHANGED vars
  PROVE  TypeOK' /\ Placed'
<1> USE AuthAssumption, Fields, Logins DEF TypeOK, files, upgrade, outside
<1>1. NoOp \in Operation /\ NoOp.pc = "idle" /\ NoOp.kind = "prepare"
  BY DEF NoOp, Operation, AllKinds, Points, Metadata
<1>2. CASE Finish
  BY <1>1, <1>2 DEF Finish, Placed, InitPoints, InstallPoints,
       ReauthorizePoints,
                    ApplyPoints, UndoPoints
<1>3. CASE DesktopLogin
  BY <1>3 DEF DesktopLogin, Placed, Home
<1>4. CASE Crash
  <2>1. op' = NoOp /\ initialized' = FALSE /\ crashes' \in Nat
    BY <1>4 DEF Crash
  <2>3. setup' \in {"pending", "running", "succeeded", "failed"}
    <3>1. setup' = IF setup = "running" THEN "failed" ELSE setup
      BY <1>4 DEF Crash
    <3>q. QED
      BY <3>1
  <2>2. Placed'
    BY <1>1, <2>1 DEF Placed, InitPoints, InstallPoints, ReauthorizePoints,
                      ApplyPoints, UndoPoints
  <2>q. QED
    BY <1>1, <1>4, <2>1, <2>2, <2>3 DEF Crash
<1>5. CASE UNCHANGED vars
  BY <1>5 DEF vars, Placed
<1>q. QED
  BY <1>2, <1>3, <1>4, <1>5

LEMMA InitTyped == Init => TypeOK /\ Placed
<1> SUFFICES ASSUME Init PROVE TypeOK /\ Placed
  OBVIOUS
<1> USE AuthAssumption, Logins DEF Init
<1>1. NoOp \in Operation /\ NoOp.pc = "idle" /\ NoOp.kind = "prepare"
  BY DEF NoOp, Operation, AllKinds, Points, Metadata
<1>2. Placed
  BY <1>1 DEF Placed, InitPoints, InstallPoints, ReauthorizePoints, ApplyPoints,
              UndoPoints
<1>3. \A login \in Login : HomeOf(login) \in Home
  BY DEF HomeOf, Home, Configs
<1>4. \A c \in Channels : OldKey(c) \in Login
  BY DEF OldKey
<1>5. CASE Fresh
  <2>1. PICK login \in {NoLogin, ChatGPT(1)} :
          /\ home = [w \in Workspaces |->
                       IF w = Default THEN [auth |-> login, config |-> "own"]
                       ELSE EmptyHome]
          /\ logins = login.n
    BY <1>5 DEF Fresh
  <2>2. login \in Login /\ login.n \in Nat
    BY <2>1 DEF Login
  <2>3. [auth |-> login, config |-> "own"] \in Home
    BY <2>2 DEF Home, Configs
  <2>4. home \in [Workspaces -> Home] /\ logins \in Nat
    BY <2>1, <2>2, <2>3
  <2>5. store \in [place: {"none", "old", "legacy", "current"}, imported: BOOLEAN]
    BY <1>5 DEF Fresh
  <2>6. meta \in Metadata
    BY <1>5 DEF Fresh, Metadata
  <2>q. QED
    BY <1>1, <1>2, <1>5, <2>4, <2>5, <2>6 DEF TypeOK, Fresh, Configs
<1>6. CASE Upgraded
  <2>1. PICK channels \in (SUBSET Channels) \ {{}} :
          \E archived \in SUBSET channels,
             live \in {NoLogin, ChatGPT(1)} \union {OldKey(c) : c \in Channels} :
            LeftBehind(channels, archived, live)
    BY <1>6 DEF Upgraded
  <2> PICK archived \in SUBSET channels,
           live \in {NoLogin, ChatGPT(1)} \union {OldKey(c) : c \in Channels} :
        LeftBehind(channels, archived, live)
    BY <2>1
  <2> USE DEF LeftBehind
  <2>2. live \in Login
    BY <1>4
  <2>3. home \in [Workspaces -> Home]
    BY <1>3, <1>4, <2>2
  <2>4. archive \in [Profiles -> Login] /\ logins \in Nat
    BY <1>4
  <2>5. meta \in Metadata
    BY DEF Metadata, Profiles
  <2>6. store \in [place: {"none", "old", "legacy", "current"}, imported: BOOLEAN]
    BY DEF AllOrigins
  <2>7. old \in [Channels -> Workspaces \union {NoWorkspace}]
    OBVIOUS
  <2>8. kept \in Configs /\ setup \in {"pending", "running", "succeeded", "failed"}
    BY DEF Configs
  <2>q. QED
    BY <1>1, <1>2, <2>3, <2>4, <2>5, <2>6, <2>7, <2>8 DEF TypeOK
<1>q. QED
  BY <1>5, <1>6

\* The part of the invariant that the rest takes for granted.
Base == TypeOK /\ Placed

LEMMA BaseStep ==
  ASSUME Base, [Next]_vars
  PROVE  Base'
<1> USE DEF Base
<1>1. CASE Request
  BY <1>1, RequestTyped
<1>2. CASE Apply
  BY <1>2, ApplyTyped, ApplyPlaced DEF TypeOK
<1>3. CASE Switching
  BY <1>3, SwitchingTyped, SwitchingPlaced DEF TypeOK
<1>4. CASE Reauthorizing
  BY <1>4, ReauthorizingTyped, ReauthorizingPlaced DEF TypeOK
<1>5. CASE Initializing
  BY <1>5, InitializingTyped, InitializingPlaced DEF TypeOK
<1>6. CASE Installing
  BY <1>6, InstallingTyped, InstallingPlaced DEF TypeOK
<1>7. CASE Finish \/ DesktopLogin \/ Crash \/ UNCHANGED vars
  BY <1>7, OtherTyped
<1>q. QED
  BY <1>1, <1>2, <1>3, <1>4, <1>5, <1>6, <1>7 DEF Next, Step

\* The types of every variable, for any channels, workspaces and bounds.
THEOREM Typed == Spec => []TypeOK
<1>1. Init => Base
  BY InitTyped DEF Base
<1>q. QED
  BY <1>1, BaseStep, PTL DEF Spec, Base

-----------------------------------------------------------------------------
(* What a request starts.                                                  *)

LEMMA Starts ==
  /\ BeginPrepare =>
       /\ op'.kind = "prepare" /\ op'.pc = FirstStep /\ op'.ws = Default
       /\ ~op'.auto /\ ~op'.wasRunning /\ ~op'.checkpoint
       /\ op'.before.home = home[Default] /\ op'.before.meta = meta
  /\ \A c \in Channels : BeginInstall(c) =>
       /\ op'.kind = "install" /\ op'.pc = FirstStep /\ op'.ws = Default
       /\ op'.profile = c /\ ~op'.auto /\ ~op'.wasRunning /\ ~op'.checkpoint
  /\ \A w \in Workspaces, p \in Profiles : BeginSwitch(w, p) =>
       /\ op'.kind = "switch" /\ op'.pc = "select" /\ op'.ws = w
       /\ op'.profile = p /\ op'.current = catalog[w]
       /\ op'.checkpoint = (active = w)
       /\ op'.before.home = home[w] /\ op'.before.choice = catalog[w]
  /\ \A w \in Workspaces, p \in Profiles : BeginCreate(w, p) =>
       /\ op'.kind = "create" /\ op'.pc = "register" /\ op'.ws = w
       /\ op'.profile = p /\ ~op'.checkpoint
  /\ \A c \in Channels : BeginReauthorize(c) =>
       /\ op'.kind = "reauthorize" /\ op'.pc = "rearchive" /\ op'.profile = c
       /\ op'.key = Key(c, keys + 1) /\ op'.todo = {} /\ ~op'.checkpoint
<1> USE DEF Start, NoOp
<1>1. BeginPrepare =>
        /\ op'.kind = "prepare" /\ op'.pc = FirstStep /\ op'.ws = Default
        /\ ~op'.auto /\ ~op'.wasRunning /\ ~op'.checkpoint
        /\ op'.before.home = home[Default] /\ op'.before.meta = meta
  BY DEF BeginPrepare
<1>2. ASSUME NEW c \in Channels, BeginInstall(c)
      PROVE  /\ op'.kind = "install" /\ op'.pc = FirstStep /\ op'.ws = Default
             /\ op'.profile = c /\ ~op'.auto /\ ~op'.wasRunning /\ ~op'.checkpoint
  BY <1>2 DEF BeginInstall
<1>3. ASSUME NEW w \in Workspaces, NEW p \in Profiles, BeginSwitch(w, p)
      PROVE  /\ op'.kind = "switch" /\ op'.pc = "select" /\ op'.ws = w
             /\ op'.profile = p /\ op'.current = catalog[w]
             /\ op'.checkpoint = (active = w)
             /\ op'.before.home = home[w] /\ op'.before.choice = catalog[w]
  BY <1>3 DEF BeginSwitch, SwitchFrom
<1>4. ASSUME NEW w \in Workspaces, NEW p \in Profiles, BeginCreate(w, p)
      PROVE  /\ op'.kind = "create" /\ op'.pc = "register" /\ op'.ws = w
             /\ op'.profile = p /\ ~op'.checkpoint
  BY <1>4 DEF BeginCreate
<1>5. ASSUME NEW c \in Channels, BeginReauthorize(c)
      PROVE  /\ op'.kind = "reauthorize" /\ op'.pc = "rearchive" /\ op'.profile = c
             /\ op'.key = Key(c, keys + 1) /\ op'.todo = {} /\ ~op'.checkpoint
  BY <1>5 DEF BeginReauthorize
<1>q. QED
  BY <1>1, <1>2, <1>3, <1>4, <1>5

-----------------------------------------------------------------------------
(* What the steps with alternatives do.                                    *)

LEMMA Loading ==
  ASSUME op \in Operation, LoadTarget
  PROVE  /\ op.pc = "load" /\ op'.kind = op.kind /\ op'.ws = op.ws
         /\ op'.profile = op.profile /\ op'.checkpoint = op.checkpoint
         /\ op'.before = op.before /\ op'.todo = op.todo /\ op'.key = op.key
         /\ op'.auto = op.auto /\ op'.wasRunning = op.wasRunning
         /\ op.kind # "install" => op'.current = op.current
         /\ \/ op'.pc = AfterError
            \/ /\ op'.pc = "checkpoint" /\ op'.target = archive[op.profile]
               /\ op'.savedMeta = meta
         /\ UNCHANGED <<files, outside, faults>>
<1>1. CASE Goto("load", AfterError)
  BY <1>1 DEF LoadTarget, Goto, Operation
<1>2. CASE ~Goto("load", AfterError)
  <2> DEFINE current == IF op.kind = "install" THEN meta.active ELSE op.current
  <2>1. /\ op.pc = "load" /\ UNCHANGED <<files, outside, faults>>
        /\ op' = [op EXCEPT !.pc = "checkpoint", !.target = archive[op.profile],
                            !.saved = home[op.ws], !.savedMeta = meta,
                            !.current = current]
    BY <1>2 DEF LoadTarget
  <2>2. op.kind # "install" => current = op.current
    OBVIOUS
  <2> HIDE DEF current
  <2>q. QED
    BY <2>1, <2>2 DEF Operation
<1>q. QED
  BY <1>1, <1>2

LEMMA Checkpointing ==
  ASSUME op \in Operation, Checkpoint
  PROVE  /\ op.pc = "checkpoint" /\ op' = [op EXCEPT !.pc = op'.pc]
         /\ \/ op'.pc = "undoauth" /\ UNCHANGED archive
            \/ op'.pc = "auth" /\ ~Archivable /\ UNCHANGED archive
            \/ /\ op'.pc \in {"auth", "keep"}
               /\ Archivable /\ Fits(home[op.ws].auth)
               /\ archive' = IF home[op.ws].auth = NoLogin THEN archive
                             ELSE [archive EXCEPT ![op.current] = home[op.ws].auth]
         /\ UNCHANGED <<kept, home, catalog, active, meta, upgrade, outside, faults>>
<1> DEFINE login == home[op.ws].auth
<1>1. /\ op.pc = "checkpoint"
      /\ \/ ~Archivable /\ Goto("checkpoint", "auth") /\ UNCHANGED archive
         \/ /\ Archivable /\ Fits(login)
            /\ archive' = IF login = NoLogin THEN archive
                          ELSE [archive EXCEPT ![op.current] = login]
            /\ Goto("checkpoint", IF op.current = Personal THEN "keep" ELSE "auth")
         \/ Archivable /\ ~Fits(login) /\ Goto("checkpoint", "undoauth") /\ UNCHANGED archive
      /\ UNCHANGED <<kept, home, catalog, active, meta, upgrade, outside, faults>>
  BY DEF Checkpoint
<1> HIDE DEF login
<1>2. \A to : Goto("checkpoint", to) => op'.pc = to /\ op' = [op EXCEPT !.pc = op'.pc]
  BY DEF Goto, Operation
<1>q. QED
  BY <1>1, <1>2 DEF login

LEMMA Refreshing ==
  ASSUME op \in Operation, Refresh
  PROVE  /\ op.pc = "refresh" /\ op'.kind = op.kind /\ op'.profile = op.profile
         /\ op'.checkpoint = op.checkpoint /\ op'.key = op.key
         /\ op'.before = op.before /\ op'.auto = op.auto
         /\ op'.wasRunning = op.wasRunning /\ op'.current = op.current
         /\ \/ op'.pc = "ok" /\ op.todo = {} /\ op'.todo = {}
            \/ /\ op'.pc = "load" /\ op'.ws \in op.todo
               /\ op'.todo = op.todo \ {op'.ws}
         /\ UNCHANGED <<files, outside, faults>>
<1>1. CASE op.todo = {} /\ Goto("refresh", "ok")
  BY <1>1 DEF Refresh, Goto, Operation
<1>2. ASSUME NEW w \in op.todo,
             op' = [op EXCEPT !.pc = "load", !.ws = w, !.todo = @ \ {w}]
      PROVE  /\ op'.pc = "load" /\ op'.kind = op.kind /\ op'.profile = op.profile
             /\ op'.checkpoint = op.checkpoint /\ op'.key = op.key
             /\ op'.before = op.before /\ op'.auto = op.auto
             /\ op'.wasRunning = op.wasRunning /\ op'.current = op.current
             /\ op'.ws \in op.todo /\ op'.todo = op.todo \ {op'.ws}
  BY <1>2 DEF Operation
<1>q. QED
  BY <1>1, <1>2 DEF Refresh

LEMMA Importing ==
  ASSUME op \in Operation, initialized \in BOOLEAN, Import
  PROVE  /\ op.pc = "import" /\ op'.pc \in {"migrate", "failed"}
         /\ store'.place = "old" /\ store'.imported
         /\ initialized' => initialized
         /\ op'.pc = "failed" => ~initialized' /\ faults' = faults + 1
         /\ op'.pc = "migrate" => faults' = faults
         /\ op'.kind = op.kind /\ op'.profile = op.profile /\ op'.ws = op.ws
         /\ op'.auto = op.auto /\ op'.wasRunning = op.wasRunning
         /\ op'.key = op.key /\ op'.before = op.before
         /\ op'.current = op.current /\ op'.checkpoint = op.checkpoint
         /\ UNCHANGED <<archive, kept, home, catalog, active, meta, old, desktop,
                        setup, logins, keys, crashes>>
<1>1. CASE Goto("import", "migrate") /\ UNCHANGED <<initialized, faults>>
  BY <1>1 DEF Import, Goto, Operation
<1>2. CASE Goto("import", "failed") /\ ~initialized' /\ faults' = faults + 1
  BY <1>2 DEF Import, Goto, Operation
<1>q. QED
  BY <1>1, <1>2 DEF Import

LEMMA Reconciling ==
  ASSUME op \in Operation, meta \in Metadata, Reconcile
  PROVE  /\ op.pc = "reconcile" /\ op' = [op EXCEPT !.pc = "bootstrap"]
         /\ meta'.known = meta.known
         /\ meta'.active = meta.active \/ meta'.active \in Profiles
         /\ UNCHANGED <<archive, kept, home, catalog, active, upgrade, outside,
                        faults>>
BY DEF Reconcile, Goto, Metadata, Shown, Profiles

LEMMA Issuing ==
  ASSUME op \in Operation, Issue
  PROVE  /\ op.pc = "issue" /\ op'.kind = op.kind /\ op'.profile = op.profile
         /\ op'.ws = op.ws /\ op'.checkpoint = op.checkpoint
         /\ op'.wasRunning = op.wasRunning /\ op'.savedMeta = meta
         /\ op'.auto <=> meta.active = NoProfile
         /\ \/ op'.pc = "know" /\ HasKey(archive[op.profile])
            \/ op'.pc = "archive" /\ op'.key = Key(op.profile, keys + 1)
         /\ desktop' \in {desktop, NoWorkspace}
         /\ UNCHANGED <<files, initialized, setup, logins, crashes, faults>>
<1> DEFINE auto == meta.active = NoProfile
<1>1. /\ op.pc = "issue"
      /\ \/ /\ op' = [op EXCEPT !.pc = "know", !.auto = auto, !.savedMeta = meta]
            /\ HasKey(archive[op.profile])
         \/ op' = [op EXCEPT !.pc = "archive", !.auto = auto, !.savedMeta = meta,
                             !.key = Key(op.profile, keys + 1)]
      /\ UNCHANGED <<files, initialized, setup, logins, crashes, faults>>
  BY DEF Issue
<1>2. desktop' \in {desktop, NoWorkspace}
  BY DEF Issue
<1>3. auto \in BOOLEAN
  OBVIOUS
<1>4. op'.auto = auto
  BY <1>1 DEF Operation
<1>5. op'.auto <=> meta.active = NoProfile
  BY <1>4
<1> HIDE DEF auto
<1>6. CASE /\ op' = [op EXCEPT !.pc = "know", !.auto = auto, !.savedMeta = meta]
           /\ HasKey(archive[op.profile])
  BY <1>1, <1>2, <1>5, <1>6 DEF Operation
<1>7. CASE op' = [op EXCEPT !.pc = "archive", !.auto = auto, !.savedMeta = meta,
                            !.key = Key(op.profile, keys + 1)]
  BY <1>1, <1>2, <1>5, <1>7 DEF Operation
<1>q. QED
  BY <1>1, <1>6, <1>7

-----------------------------------------------------------------------------
(* The inductive invariant.                                                *)

\* No operation, or one that has nothing left to write.
Between == {"idle", "ok", "failed"}
Writing == ApplyPoints \ {"load"}

\* Operations other than an initialization work on initialized data, which has
\* the ChatGPT profile; what they save to restore knows the same profiles.
Ready ==
  /\ op.pc \notin InitPoints \union Between => initialized
  /\ initialized \/ op.pc \in {"reconcile", "bootstrap"} => Personal \in meta.known
  /\ op.pc \in {"archive", "know"} \union Writing \union UndoPoints =>
       op.savedMeta.known = meta.known

\* A switch of the active workspace: until the archive has it, the login is in
\* the home, where nothing changes it.
ReplacedLogin ==
  op.kind = "switch" /\ op.checkpoint
    /\ op.before.choice = Personal /\ op.before.home.auth # NoLogin

Handed ==
  ReplacedLogin =>
    /\ op.pc \in {"select", "load", "checkpoint"} =>
         /\ op.current = Personal
         /\ home[op.ws] = op.before.home /\ desktop = NoWorkspace
    /\ op.pc \in (Writing \ {"checkpoint"}) \union {"ok"} =>
         archive[Personal] = op.before.home.auth

\* A re-authorization: the new key is in the archive, then in the homes that
\* are no longer to do.
Spreading ==
  op.kind = "reauthorize" =>
    /\ op.pc \in {"resync", "resave", "refresh", "ok"} \union ApplyPoints =>
         archive[op.profile] = op.key
    /\ op.pc \in Writing => op.target = op.key
    /\ op.pc \in {"config", "owner", "meta"} => home[op.ws].auth = op.key
    /\ op.pc \in {"refresh", "ok"} \union ApplyPoints =>
         \A w \in Registered :
           \/ catalog[w] # op.profile
           \/ w \in op.todo \/ (op.pc \in ApplyPoints /\ w = op.ws)
           \/ home[w].auth = op.key
    /\ op.pc = "ok" => op.todo = {}
    /\ op.pc \in {"refresh"} \union ApplyPoints =>
         \A w \in op.todo : catalog[w] = op.profile
    /\ op.pc \in ApplyPoints => catalog[op.ws] = op.profile

\* Every registered workspace but the default one has a profile; so has the
\* default one once an installation has succeeded, or the metadata names one.
Chosen ==
  /\ \A w \in Workspaces : w # Default => catalog[w] # NoProfile
  /\ op.kind = "switch" => op.current # NoProfile
  /\ initialized => catalog[Default] # Absent
  /\ op.kind = "create" => op.ws # Default
  /\ setup = "succeeded" =>
       \/ catalog[Default] \in Profiles
       \/ ~initialized /\ meta.active # NoProfile
  /\ setup = "running" =>
       /\ op.kind = "install" /\ op.pc \notin InitPoints \union {"idle"}
       /\ \/ op.pc = "issue" /\ meta.active # NoProfile
          \/ op.pc \in {"archive", "know", "finalize"} /\ ~op.auto
          \/ op.pc = "ok"
          => catalog[Default] \in Profiles
  /\ op.pc \in InstallPoints => setup = "running"
  /\ op.kind = "install" /\ op.pc \in ApplyPoints => setup = "running"

\* Before the first initialization has saved its metadata nothing runs that
\* could change a login.
Untouched ==
  /\ store.place = "none" => Personal \notin meta.known
  /\ store.place # "current" \/ Personal \notin meta.known =>
       /\ desktop = NoWorkspace /\ ~initialized
       /\ op.pc \in (InitPoints \ {"reconcile", "bootstrap"}) \union {"idle", "failed"}
       /\ ~op.auto /\ ~op.wasRunning

\* The steps of the initialization follow the version of the data; one that has
\* succeeded leaves nothing for the next but to compare.
Course ==
  /\ op.pc = "import" => store.place = "legacy"
  /\ op.pc = "migrate" => store.place = "old"
  /\ op.pc \in InitPoints \ {"import", "migrate"} => store.place \notin {"legacy", "old"}
  /\ op.pc \in InitPoints \ {"reconcile", "bootstrap"} => ~initialized
  /\ op.pc = "save" => kept # "none"
  /\ initialized => FirstStep = "reconcile"
  /\ op.pc \in {"reconcile", "bootstrap"} \/ (op.pc = "ok" /\ op.kind = "prepare")
       => FirstStep = "reconcile"

\* Unless metadata was imported, the archive of a channel has its key or none,
\* and has it once the data has been migrated; until then its home has it.
Migrated ==
  ~store.imported =>
    /\ \A c \in Channels : archive[c] = NoLogin \/ archive[c].owner = c
    /\ store.place \in {"none", "current"} =>
         \A c \in meta.known \intersect Channels : archive[c].owner = c
    /\ store.place = "old" =>
         \A c \in NotArchived : home[PreviousHome(c)].auth = OldKey(c)
    /\ op.pc = "archive" \/ op.kind = "reauthorize" => op.key.owner = op.profile
    /\ op.pc = "know" => archive[op.profile].owner = op.profile

\* The initialization found a ChatGPT login and no profile for it: the home has
\* it until the archive has.
FirstLogin ==
  /\ op.kind = "prepare" /\ op.before.home.auth.owner = Personal
  /\ Personal \notin op.before.meta.known

Captures ==
  ~store.imported /\ FirstLogin =>
    /\ op.pc \in {"import", "migrate", "capture"} =>
         home[Default] = op.before.home /\ meta = op.before.meta
    /\ op.pc \in {"snapshot", "save", "reconcile", "bootstrap", "ok"} =>
         archive[Personal] = op.before.home.auth

\* The reconciled metadata names what the files show.
Told ==
  /\ op.pc = "bootstrap" \/ (op.pc = "ok" /\ op.kind = "prepare")
  /\ desktop = NoWorkspace /\ Shown # {}
  => meta.active \in Shown

\* The catalog has followed it.
InStep ==
  op.pc = "ok" /\ op.kind = "prepare" =>
    /\ \A w \in Workspaces : ~Imported(w)
    /\ meta.active # NoProfile => catalog[Default] = meta.active

\* While nothing has failed the metadata and the catalog name one profile for
\* the default workspace, but for the writes that bring the second after the
\* first.
Switched ==
  /\ op.kind = "switch" /\ op.ws = Default
  /\ op.pc \in {"undocatalog"} \union ApplyPoints \union UndoPoints

Agreeing ==
  faults = 0 =>
    /\ meta.active = NoProfile => catalog[Default] \in {Absent, NoProfile}
    /\ op.pc \in {"archive", "know"} \union Writing \union UndoPoints =>
         op.savedMeta = meta
    /\ initialized /\ op.pc \notin {"bootstrap", "adopt"} /\ ~Switched =>
         meta.active = catalog[Default]
    /\ Switched \/ (op.kind = "switch" /\ op.ws = Default /\ op.pc = "select") =>
         op.current = meta.active
    /\ Switched /\ op.pc \in ApplyPoints => catalog[Default] = op.profile
    /\ op.pc = "adopt" => meta.active = op.profile
    /\ op.kind = "install" => op.ws = Default

-----------------------------------------------------------------------------
(* Every step keeps it.                                                    *)

LEMMA ReadyStep ==
  ASSUME Base, Ready, [Next]_vars
  PROVE  Ready'
<1> USE DEF Base, Operation, Placed, Ready, Goto, Fails, files, upgrade,
        outside, InitPoints, InstallPoints, ReauthorizePoints, ApplyPoints,
        UndoPoints, Writing, Between
<1>t. op \in Operation /\ meta \in Metadata /\ initialized \in BOOLEAN
  BY DEF Base, TypeOK
<1>1. CASE BeginPrepare
  BY <1>1, Starts, <1>t DEF BeginPrepare, FirstStep, FromBootstrap,
       PersonalReady, Idle
<1>2. ASSUME NEW c \in Channels, BeginInstall(c) PROVE Ready'
  BY <1>2, Starts, <1>t DEF BeginInstall, FirstStep, FromBootstrap,
       PersonalReady, Idle
<1>3. ASSUME NEW w \in Workspaces, NEW p \in Profiles, BeginSwitch(w, p)
      PROVE  Ready'
  BY <1>3, Starts, <1>t DEF BeginSwitch, SwitchFrom, GateOpen, StopDesktopIf,
       Registered, Idle
<1>4. ASSUME NEW w \in Workspaces, NEW p \in Profiles, BeginCreate(w, p)
      PROVE  Ready'
  BY <1>4, Starts, <1>t DEF BeginCreate, GateOpen, Registered, Idle
<1>5. ASSUME NEW c \in Channels, BeginReauthorize(c) PROVE Ready'
  BY <1>5, Starts, <1>t DEF BeginReauthorize, GateOpen, StopDesktopIf, Idle
<1>6. ASSUME NEW w \in Workspaces, Activate(w) PROVE Ready'
  BY <1>6, <1>t DEF Activate, GateOpen, Idle
<1>7. CASE Launch
  BY <1>7, <1>t DEF Launch, GateOpen, Idle
<1>8. CASE LoadTarget
  BY <1>8, <1>t, Loading DEF AfterError
<1>9. CASE Checkpoint
  BY <1>9, <1>t, Checkpointing
<1>10. CASE CheckpointFails
  BY <1>10, <1>t DEF CheckpointFails
<1>11. CASE KeepConfig
  BY <1>11, <1>t DEF KeepConfig
<1>12. CASE WriteAuth
  BY <1>12, <1>t DEF WriteAuth
<1>13. CASE WriteConfig
  BY <1>13, <1>t DEF WriteConfig
<1>14. CASE MarkOwner
  BY <1>14, <1>t DEF MarkOwner
<1>15. CASE CommitMeta
  BY <1>15, <1>t DEF CommitMeta, MetaWith, AfterApply
<1>16. CASE ApplyFails
  BY <1>16, <1>t DEF ApplyFails
<1>17. CASE UndoAuth
  BY <1>17, <1>t DEF UndoAuth
<1>18. CASE UndoConfig
  BY <1>18, <1>t DEF UndoConfig
<1>19. CASE UndoMeta
  BY <1>19, <1>t DEF UndoMeta, AfterError
<1>20. CASE UndoFails
  BY <1>20, <1>t DEF UndoFails, AfterError
<1>21. CASE Switching
  BY <1>21, <1>t DEF Switching, Select, SelectFails, UndoCatalog, RemoveHome,
       UndoCatalogFails
<1>22. CASE Reauthorizing
  BY <1>22, <1>t, Refreshing DEF Reauthorizing, Rearchive, Resync, Resave,
       ResaveFor, ReauthorizeFails
<1>23. CASE Import
  BY <1>23, <1>t, Importing
<1>24. CASE MigrateKey
  BY <1>24, <1>t DEF MigrateKey
<1>25. CASE SaveVersion
  BY <1>25, <1>t DEF SaveVersion, FromBootstrap, PersonalReady
<1>26. CASE Capture
  BY <1>26, <1>t DEF Capture
<1>27. CASE Snapshot
  BY <1>27, <1>t DEF Snapshot
<1>28. CASE SaveProfiles
  BY <1>28, <1>t DEF SaveProfiles
<1>29. CASE Reconcile
  BY <1>29, <1>t, Reconciling
<1>30. CASE Bootstrap
  BY <1>30, <1>t DEF Bootstrap
<1>31. CASE InitializeFails
  BY <1>31, <1>t DEF InitializeFails
<1>32. CASE Issue
  BY <1>32, <1>t, Issuing
<1>33. CASE IssueFails
  BY <1>33, <1>t DEF IssueFails
<1>34. CASE ArchiveKey
  BY <1>34, <1>t DEF ArchiveKey
<1>35. CASE Know
  BY <1>35, <1>t DEF Know
<1>36. CASE Finalize
  BY <1>36, <1>t DEF Finalize
<1>37. CASE Adopt
  BY <1>37, <1>t DEF Adopt
<1>38. CASE InstallFails
  BY <1>38, <1>t DEF InstallFails
<1>39. CASE Finish
  BY <1>39, <1>t DEF Finish, NoOp
<1>40. CASE DesktopLogin
  BY <1>40, <1>t DEF DesktopLogin
<1>41. CASE Crash
  BY <1>41, <1>t DEF Crash, NoOp
<1>42. CASE UNCHANGED vars
  BY <1>42, <1>t DEF vars
<1>q. QED
  BY <1>1, <1>2, <1>3, <1>4, <1>5, <1>6, <1>7, <1>8, <1>9, <1>10, <1>11, <1>12,
       <1>13, <1>14, <1>15, <1>16, <1>17, <1>18, <1>19, <1>20, <1>21, <1>22,
       <1>23, <1>24, <1>25, <1>26, <1>27, <1>28, <1>29, <1>30, <1>31, <1>32,
       <1>33, <1>34, <1>35, <1>36, <1>37, <1>38, <1>39, <1>40, <1>41, <1>42
     DEF Next, Step, Request, Apply, Switching, Reauthorizing, Initializing, Installing

LEMMA HandedStep ==
  ASSUME Base, Ready, Handed, [Next]_vars
  PROVE  Handed'
<1> USE AuthAssumption DEF Base, Operation, Placed, Handed, ReplacedLogin,
        Goto, Fails, files, upgrade, outside, InitPoints, InstallPoints,
        ReauthorizePoints, ApplyPoints, UndoPoints, Writing, Between
<1>t. /\ op \in Operation /\ meta \in Metadata /\ initialized \in BOOLEAN
      /\ archive \in [Profiles -> Login] /\ home \in [Workspaces -> Home]
  BY DEF Base, TypeOK
<1>1. CASE BeginPrepare
  BY <1>1, Starts, <1>t DEF BeginPrepare, FirstStep, FromBootstrap,
       PersonalReady, Idle
<1>2. ASSUME NEW c \in Channels, BeginInstall(c) PROVE Handed'
  BY <1>2, Starts, <1>t DEF BeginInstall, FirstStep, FromBootstrap,
       PersonalReady, Idle
<1>3. ASSUME NEW w \in Workspaces, NEW p \in Profiles, BeginSwitch(w, p)
      PROVE  Handed'
  BY <1>3, Starts, <1>t DEF BeginSwitch, SwitchFrom, GateOpen, StopDesktopIf,
       Registered, Idle
<1>4. ASSUME NEW w \in Workspaces, NEW p \in Profiles, BeginCreate(w, p)
      PROVE  Handed'
  BY <1>4, Starts, <1>t DEF BeginCreate, GateOpen, Registered, Idle
<1>5. ASSUME NEW c \in Channels, BeginReauthorize(c) PROVE Handed'
  BY <1>5, Starts, <1>t DEF BeginReauthorize, GateOpen, StopDesktopIf, Idle
<1>6. ASSUME NEW w \in Workspaces, Activate(w) PROVE Handed'
  BY <1>6, <1>t DEF Activate, GateOpen, Idle
<1>7. CASE Launch
  BY <1>7, <1>t DEF Launch, GateOpen, Idle
<1>8. CASE LoadTarget
  BY <1>8, <1>t, Loading DEF AfterError
<1>9. CASE Checkpoint
  BY <1>9, <1>t, Checkpointing DEF Archivable, Ready, Profiles
<1>10. CASE CheckpointFails
  BY <1>10, <1>t DEF CheckpointFails
<1>11. CASE KeepConfig
  BY <1>11, <1>t DEF KeepConfig
<1>12. CASE WriteAuth
  BY <1>12, <1>t DEF WriteAuth
<1>13. CASE WriteConfig
  BY <1>13, <1>t DEF WriteConfig
<1>14. CASE MarkOwner
  BY <1>14, <1>t DEF MarkOwner
<1>15. CASE CommitMeta
  BY <1>15, <1>t DEF CommitMeta, MetaWith, AfterApply
<1>16. CASE ApplyFails
  BY <1>16, <1>t DEF ApplyFails
<1>17. CASE UndoAuth
  BY <1>17, <1>t DEF UndoAuth
<1>18. CASE UndoConfig
  BY <1>18, <1>t DEF UndoConfig
<1>19. CASE UndoMeta
  BY <1>19, <1>t DEF UndoMeta, AfterError
<1>20. CASE UndoFails
  BY <1>20, <1>t DEF UndoFails, AfterError
<1>21. CASE Switching
  BY <1>21, <1>t DEF Switching, Select, SelectFails, UndoCatalog, RemoveHome,
       UndoCatalogFails
<1>22. CASE Reauthorizing
  BY <1>22, <1>t, Refreshing DEF Reauthorizing, Rearchive, Resync, Resave,
       ResaveFor, ReauthorizeFails
<1>23. CASE Import
  BY <1>23, <1>t, Importing
<1>24. CASE MigrateKey
  BY <1>24, <1>t DEF MigrateKey
<1>25. CASE SaveVersion
  BY <1>25, <1>t DEF SaveVersion, FromBootstrap, PersonalReady
<1>26. CASE Capture
  BY <1>26, <1>t DEF Capture
<1>27. CASE Snapshot
  BY <1>27, <1>t DEF Snapshot
<1>28. CASE SaveProfiles
  BY <1>28, <1>t DEF SaveProfiles
<1>29. CASE Reconcile
  BY <1>29, <1>t, Reconciling
<1>30. CASE Bootstrap
  BY <1>30, <1>t DEF Bootstrap
<1>31. CASE InitializeFails
  BY <1>31, <1>t DEF InitializeFails
<1>32. CASE Issue
  BY <1>32, <1>t, Issuing
<1>33. CASE IssueFails
  BY <1>33, <1>t DEF IssueFails
<1>34. CASE ArchiveKey
  BY <1>34, <1>t DEF ArchiveKey
<1>35. CASE Know
  BY <1>35, <1>t DEF Know
<1>36. CASE Finalize
  BY <1>36, <1>t DEF Finalize
<1>37. CASE Adopt
  BY <1>37, <1>t DEF Adopt
<1>38. CASE InstallFails
  BY <1>38, <1>t DEF InstallFails
<1>39. CASE Finish
  BY <1>39, <1>t DEF Finish, NoOp
<1>40. CASE DesktopLogin
  BY <1>40, <1>t DEF DesktopLogin
<1>41. CASE Crash
  BY <1>41, <1>t DEF Crash, NoOp
<1>42. CASE UNCHANGED vars
  BY <1>42, <1>t DEF vars
<1>q. QED
  BY <1>1, <1>2, <1>3, <1>4, <1>5, <1>6, <1>7, <1>8, <1>9, <1>10, <1>11, <1>12,
       <1>13, <1>14, <1>15, <1>16, <1>17, <1>18, <1>19, <1>20, <1>21, <1>22,
       <1>23, <1>24, <1>25, <1>26, <1>27, <1>28, <1>29, <1>30, <1>31, <1>32,
       <1>33, <1>34, <1>35, <1>36, <1>37, <1>38, <1>39, <1>40, <1>41, <1>42
     DEF Next, Step, Request, Apply, Switching, Reauthorizing, Initializing, Installing

LEMMA SpreadingStep ==
  ASSUME Base, Spreading, [Next]_vars
  PROVE  Spreading'
<1> USE AuthAssumption DEF Base, Operation, Placed, Spreading, Registered,
        Goto, Fails, files, upgrade, outside, InitPoints, InstallPoints,
        ReauthorizePoints, ApplyPoints, UndoPoints, Writing, Between
<1>t. /\ op \in Operation /\ meta \in Metadata /\ initialized \in BOOLEAN
      /\ archive \in [Profiles -> Login]
      /\ home \in [Workspaces -> Home]
  BY DEF Base, TypeOK
<1>1. CASE BeginPrepare
  BY <1>1, Starts, <1>t DEF BeginPrepare, FirstStep, FromBootstrap,
       PersonalReady, Idle
<1>2. ASSUME NEW c \in Channels, BeginInstall(c) PROVE Spreading'
  BY <1>2, Starts, <1>t DEF BeginInstall, FirstStep, FromBootstrap,
       PersonalReady, Idle
<1>3. ASSUME NEW w \in Workspaces, NEW p \in Profiles, BeginSwitch(w, p)
      PROVE  Spreading'
  BY <1>3, Starts, <1>t DEF BeginSwitch, SwitchFrom, GateOpen, StopDesktopIf,
       Registered, Idle
<1>4. ASSUME NEW w \in Workspaces, NEW p \in Profiles, BeginCreate(w, p)
      PROVE  Spreading'
  BY <1>4, Starts, <1>t DEF BeginCreate, GateOpen, Registered, Idle
<1>5. ASSUME NEW c \in Channels, BeginReauthorize(c) PROVE Spreading'
  BY <1>5, Starts, <1>t DEF BeginReauthorize, GateOpen, StopDesktopIf, Idle
<1>6. ASSUME NEW w \in Workspaces, Activate(w) PROVE Spreading'
  BY <1>6, <1>t DEF Activate, GateOpen, Idle
<1>7. CASE Launch
  BY <1>7, <1>t DEF Launch, GateOpen, Idle
<1>8. CASE LoadTarget
  BY <1>8, <1>t, Loading DEF AfterError
<1>9. CASE Checkpoint
  BY <1>9, <1>t, Checkpointing DEF Archivable
<1>10. CASE CheckpointFails
  BY <1>10, <1>t DEF CheckpointFails
<1>11. CASE KeepConfig
  BY <1>11, <1>t DEF KeepConfig
<1>12. CASE WriteAuth
  BY <1>12, <1>t DEF WriteAuth
<1>13. CASE WriteConfig
  BY <1>13, <1>t DEF WriteConfig
<1>14. CASE MarkOwner
  BY <1>14, <1>t DEF MarkOwner
<1>15. CASE CommitMeta
  BY <1>15, <1>t DEF CommitMeta, MetaWith, AfterApply
<1>16. CASE ApplyFails
  BY <1>16, <1>t DEF ApplyFails
<1>17. CASE UndoAuth
  BY <1>17, <1>t DEF UndoAuth
<1>18. CASE UndoConfig
  BY <1>18, <1>t DEF UndoConfig
<1>19. CASE UndoMeta
  BY <1>19, <1>t DEF UndoMeta, AfterError
<1>20. CASE UndoFails
  BY <1>20, <1>t DEF UndoFails, AfterError
<1>21. CASE Switching
  BY <1>21, <1>t DEF Switching, Select, SelectFails, UndoCatalog, RemoveHome,
       UndoCatalogFails
<1>22. CASE Rearchive
  BY <1>22, <1>t DEF Rearchive, Profiles
<1>23. CASE Resync
  BY <1>23, <1>t DEF Resync
<1>24. CASE Resave
  BY <1>24, <1>t DEF Resave, ResaveFor
<1>25. CASE Refresh
  BY <1>25, <1>t, Refreshing
<1>26. CASE ReauthorizeFails
  BY <1>26, <1>t DEF ReauthorizeFails
<1>27. CASE Import
  BY <1>27, <1>t, Importing
<1>28. CASE MigrateKey
  BY <1>28, <1>t DEF MigrateKey
<1>29. CASE SaveVersion
  BY <1>29, <1>t DEF SaveVersion, FromBootstrap, PersonalReady
<1>30. CASE Capture
  BY <1>30, <1>t DEF Capture
<1>31. CASE Snapshot
  BY <1>31, <1>t DEF Snapshot
<1>32. CASE SaveProfiles
  BY <1>32, <1>t DEF SaveProfiles
<1>33. CASE Reconcile
  BY <1>33, <1>t, Reconciling
<1>34. CASE Bootstrap
  BY <1>34, <1>t DEF Bootstrap
<1>35. CASE InitializeFails
  BY <1>35, <1>t DEF InitializeFails
<1>36. CASE Issue
  BY <1>36, <1>t, Issuing
<1>37. CASE IssueFails
  BY <1>37, <1>t DEF IssueFails
<1>38. CASE ArchiveKey
  BY <1>38, <1>t DEF ArchiveKey
<1>39. CASE Know
  BY <1>39, <1>t DEF Know
<1>40. CASE Finalize
  BY <1>40, <1>t DEF Finalize
<1>41. CASE Adopt
  BY <1>41, <1>t DEF Adopt
<1>42. CASE InstallFails
  BY <1>42, <1>t DEF InstallFails
<1>43. CASE Finish
  BY <1>43, <1>t DEF Finish, NoOp
<1>44. CASE DesktopLogin
  <2>1. \A w \in Workspaces : w # desktop => home'[w] = home[w]
    BY <1>44, <1>t DEF DesktopLogin
  <2>2. op.kind = "reauthorize" => catalog[desktop] # op.profile
    BY <1>44 DEF DesktopLogin
  <2>q. QED
    BY <1>44, <1>t, <2>1, <2>2 DEF DesktopLogin
<1>45. CASE Crash
  BY <1>45, <1>t DEF Crash, NoOp
<1>46. CASE UNCHANGED vars
  BY <1>46, <1>t DEF vars
<1>q. QED
  BY <1>1, <1>2, <1>3, <1>4, <1>5, <1>6, <1>7, <1>8, <1>9, <1>10, <1>11, <1>12,
       <1>13, <1>14, <1>15, <1>16, <1>17, <1>18, <1>19, <1>20, <1>21, <1>22,
       <1>23, <1>24, <1>25, <1>26, <1>27, <1>28, <1>29, <1>30, <1>31, <1>32,
       <1>33, <1>34, <1>35, <1>36, <1>37, <1>38, <1>39, <1>40, <1>41, <1>42,
       <1>43, <1>44, <1>45, <1>46
     DEF Next, Step, Request, Apply, Switching, Reauthorizing, Initializing, Installing

LEMMA ChosenStep ==
  ASSUME Base, Ready, Chosen, [Next]_vars
  PROVE  Chosen'
<1> USE AuthAssumption DEF Base, Operation, Placed, Chosen, Ready, Goto, Fails,
        files, upgrade, outside, InitPoints, InstallPoints, ReauthorizePoints,
        ApplyPoints, UndoPoints, Writing, Between
<1>t. /\ op \in Operation /\ meta \in Metadata /\ initialized \in BOOLEAN
      /\ catalog \in [Workspaces -> Profiles \union {NoProfile, Absent}]
  BY DEF Base, TypeOK
<1>1. CASE BeginPrepare
  BY <1>1, Starts, <1>t DEF BeginPrepare, FirstStep, FromBootstrap,
       PersonalReady, Idle
<1>2. ASSUME NEW c \in Channels, BeginInstall(c) PROVE Chosen'
  BY <1>2, Starts, <1>t DEF BeginInstall, FirstStep, FromBootstrap,
       PersonalReady, Idle
<1>3. ASSUME NEW w \in Workspaces, NEW p \in Profiles, BeginSwitch(w, p)
      PROVE  Chosen'
  <2>1. catalog[w] # NoProfile /\ initialized /\ setup = "succeeded"
        /\ catalog[Default] \in Profiles
    BY <1>3, <1>t DEF BeginSwitch, SwitchFrom, GateOpen, Registered, Idle
  <2>2. op'.kind = "switch" /\ op'.pc = "select" /\ op'.current = catalog[w]
    BY <1>3, Starts
  <2>3. UNCHANGED <<files, initialized, setup>>
    BY <1>3 DEF BeginSwitch, SwitchFrom
  <2> HIDE <1>3
  <2>q. QED
    BY <2>1, <2>2, <2>3, <1>t
<1>4. ASSUME NEW w \in Workspaces, NEW p \in Profiles, BeginCreate(w, p)
      PROVE  Chosen'
  BY <1>4, Starts, <1>t DEF BeginCreate, GateOpen, Registered, Idle
<1>5. ASSUME NEW c \in Channels, BeginReauthorize(c) PROVE Chosen'
  BY <1>5, Starts, <1>t DEF BeginReauthorize, GateOpen, StopDesktopIf, Idle
<1>6. ASSUME NEW w \in Workspaces, Activate(w) PROVE Chosen'
  BY <1>6, <1>t DEF Activate, GateOpen, Idle
<1>7. CASE Launch
  BY <1>7, <1>t DEF Launch, GateOpen, Idle
<1>8. CASE Apply
  BY <1>8, <1>t, Loading, Checkpointing DEF Apply, CheckpointFails, KeepConfig,
       WriteAuth, WriteConfig, MarkOwner, CommitMeta, MetaWith, AfterApply,
       ApplyFails, UndoAuth, UndoConfig, UndoMeta, AfterError, UndoFails
<1>9. CASE Switching
  BY <1>9, <1>t DEF Switching, Select, SelectFails, UndoCatalog, RemoveHome,
       UndoCatalogFails
<1>10. CASE Reauthorizing
  BY <1>10, <1>t, Refreshing DEF Reauthorizing, Rearchive, Resync, Resave,
       ResaveFor, ReauthorizeFails
<1>11. CASE Import
  BY <1>11, <1>t, Importing
<1>12. CASE MigrateKey
  BY <1>12, <1>t DEF MigrateKey
<1>13. CASE SaveVersion
  BY <1>13, <1>t DEF SaveVersion, FromBootstrap, PersonalReady
<1>14. CASE Capture
  BY <1>14, <1>t DEF Capture
<1>15. CASE Snapshot
  BY <1>15, <1>t DEF Snapshot
<1>16. CASE SaveProfiles
  BY <1>16, <1>t DEF SaveProfiles, Profiles
<1>17. CASE Reconcile
  BY <1>17, <1>t, Reconciling
<1>18. CASE Bootstrap
  <2>1. \A w \in Workspaces : w # Default => Catalogued[w] # NoProfile
    BY <1>t DEF Catalogued, Imported, Profiles
  <2>2. /\ Catalogued[Default] # Absent
        /\ meta.active # NoProfile \/ catalog[Default] \in Profiles =>
             Catalogued[Default] \in Profiles
    BY <1>t DEF Catalogued, Metadata
  <2>3. op'.kind = op.kind /\ op'.ws = op.ws /\ op'.current = op.current
        /\ op'.pc = IF op.kind = "install" THEN "issue" ELSE "ok"
    BY <1>18, <1>t DEF Bootstrap
  <2>q. QED
    BY <1>18, <1>t, <2>1, <2>2, <2>3 DEF Bootstrap
<1>19. CASE InitializeFails
  BY <1>19, <1>t DEF InitializeFails
<1>20. CASE Issue
  BY <1>20, <1>t, Issuing
<1>21. CASE IssueFails
  BY <1>21, <1>t DEF IssueFails
<1>22. CASE ArchiveKey
  BY <1>22, <1>t DEF ArchiveKey
<1>23. CASE Know
  BY <1>23, <1>t DEF Know
<1>24. CASE Finalize
  BY <1>24, <1>t DEF Finalize
<1>25. CASE Adopt
  BY <1>25, <1>t DEF Adopt, Profiles
<1>26. CASE InstallFails
  BY <1>26, <1>t DEF InstallFails
<1>27. CASE Finish
  BY <1>27, <1>t DEF Finish, NoOp
<1>28. CASE DesktopLogin
  BY <1>28, <1>t DEF DesktopLogin
<1>29. CASE Crash
  BY <1>29, <1>t DEF Crash, NoOp
<1>30. CASE UNCHANGED vars
  BY <1>30, <1>t DEF vars
<1>q. QED
  BY <1>1, <1>2, <1>3, <1>4, <1>5, <1>6, <1>7, <1>8, <1>9, <1>10, <1>11, <1>12,
       <1>13, <1>14, <1>15, <1>16, <1>17, <1>18, <1>19, <1>20, <1>21, <1>22,
       <1>23, <1>24, <1>25, <1>26, <1>27, <1>28, <1>29, <1>30
     DEF Next, Step, Request, Apply, Switching, Reauthorizing, Initializing, Installing

LEMMA UntouchedStep ==
  ASSUME Base, Ready, Course, Untouched, [Next]_vars
  PROVE  Untouched'
<1> USE DEF Base, Operation, Placed, Untouched, Ready, Goto, Fails, files,
        upgrade, outside, InitPoints, InstallPoints, ReauthorizePoints,
        ApplyPoints, UndoPoints, Writing, Between
<1>t. /\ op \in Operation /\ meta \in Metadata
      /\ initialized \in BOOLEAN /\ store \in [place: {"none", "old", "legacy", "current"}, imported: BOOLEAN]
  BY DEF Base, TypeOK
<1>1. CASE BeginPrepare
  BY <1>1, Starts, <1>t DEF BeginPrepare, FirstStep, FromBootstrap,
       PersonalReady, Idle
<1>2. ASSUME NEW c \in Channels, BeginInstall(c) PROVE Untouched'
  BY <1>2, Starts, <1>t DEF BeginInstall, FirstStep, FromBootstrap,
       PersonalReady, Idle
<1>3. ASSUME NEW w \in Workspaces, NEW p \in Profiles, BeginSwitch(w, p)
      PROVE  Untouched'
  BY <1>3, Starts, <1>t DEF BeginSwitch, SwitchFrom, GateOpen, StopDesktopIf,
       Registered, Idle
<1>4. ASSUME NEW w \in Workspaces, NEW p \in Profiles, BeginCreate(w, p)
      PROVE  Untouched'
  BY <1>4, Starts, <1>t DEF BeginCreate, GateOpen, Registered, Idle
<1>5. ASSUME NEW c \in Channels, BeginReauthorize(c) PROVE Untouched'
  BY <1>5, Starts, <1>t DEF BeginReauthorize, GateOpen, StopDesktopIf, Idle
<1>6. ASSUME NEW w \in Workspaces, Activate(w) PROVE Untouched'
  BY <1>6, <1>t DEF Activate, GateOpen, Idle
<1>7. CASE Launch
  BY <1>7, <1>t DEF Launch, GateOpen, Idle
<1>8. CASE LoadTarget
  BY <1>8, <1>t, Loading DEF AfterError
<1>9. CASE Checkpoint
  BY <1>9, <1>t, Checkpointing
<1>10. CASE CheckpointFails
  BY <1>10, <1>t DEF CheckpointFails
<1>11. CASE KeepConfig
  BY <1>11, <1>t DEF KeepConfig
<1>12. CASE WriteAuth
  BY <1>12, <1>t DEF WriteAuth
<1>13. CASE WriteConfig
  BY <1>13, <1>t DEF WriteConfig
<1>14. CASE MarkOwner
  BY <1>14, <1>t DEF MarkOwner
<1>15. CASE CommitMeta
  BY <1>15, <1>t DEF CommitMeta, MetaWith, AfterApply
<1>16. CASE ApplyFails
  BY <1>16, <1>t DEF ApplyFails
<1>17. CASE UndoAuth
  BY <1>17, <1>t DEF UndoAuth
<1>18. CASE UndoConfig
  BY <1>18, <1>t DEF UndoConfig
<1>19. CASE UndoMeta
  BY <1>19, <1>t DEF UndoMeta, AfterError
<1>20. CASE UndoFails
  BY <1>20, <1>t DEF UndoFails, AfterError
<1>21. CASE Switching
  BY <1>21, <1>t DEF Switching, Select, SelectFails, UndoCatalog, RemoveHome,
       UndoCatalogFails
<1>22. CASE Reauthorizing
  BY <1>22, <1>t, Refreshing DEF Reauthorizing, Rearchive, Resync, Resave,
       ResaveFor, ReauthorizeFails
<1>23. CASE Import
  BY <1>23, <1>t, Importing DEF Course
<1>24. CASE MigrateKey
  BY <1>24, <1>t DEF MigrateKey
<1>25. CASE SaveVersion
  BY <1>25, <1>t DEF SaveVersion, FromBootstrap, PersonalReady
<1>26. CASE Capture
  BY <1>26, <1>t DEF Capture
<1>27. CASE Snapshot
  BY <1>27, <1>t DEF Snapshot
<1>28. CASE SaveProfiles
  BY <1>28, <1>t DEF SaveProfiles
<1>29. CASE Reconcile
  BY <1>29, <1>t, Reconciling
<1>30. CASE Bootstrap
  BY <1>30, <1>t DEF Bootstrap
<1>31. CASE InitializeFails
  BY <1>31, <1>t DEF InitializeFails
<1>32. CASE Issue
  BY <1>32, <1>t, Issuing
<1>33. CASE IssueFails
  BY <1>33, <1>t DEF IssueFails
<1>34. CASE ArchiveKey
  BY <1>34, <1>t DEF ArchiveKey
<1>35. CASE Know
  BY <1>35, <1>t DEF Know
<1>36. CASE Finalize
  BY <1>36, <1>t DEF Finalize
<1>37. CASE Adopt
  BY <1>37, <1>t DEF Adopt
<1>38. CASE InstallFails
  BY <1>38, <1>t DEF InstallFails
<1>39. CASE Finish
  BY <1>39, <1>t DEF Finish, NoOp
<1>40. CASE DesktopLogin
  BY <1>40, <1>t DEF DesktopLogin
<1>41. CASE Crash
  BY <1>41, <1>t DEF Crash, NoOp
<1>42. CASE UNCHANGED vars
  BY <1>42, <1>t DEF vars
<1>q. QED
  BY <1>1, <1>2, <1>3, <1>4, <1>5, <1>6, <1>7, <1>8, <1>9, <1>10, <1>11, <1>12,
       <1>13, <1>14, <1>15, <1>16, <1>17, <1>18, <1>19, <1>20, <1>21, <1>22,
       <1>23, <1>24, <1>25, <1>26, <1>27, <1>28, <1>29, <1>30, <1>31, <1>32,
       <1>33, <1>34, <1>35, <1>36, <1>37, <1>38, <1>39, <1>40, <1>41, <1>42
     DEF Next, Step, Request, Apply, Switching, Reauthorizing, Initializing, Installing

LEMMA CourseStep ==
  ASSUME Base, Ready, Untouched, Course, [Next]_vars
  PROVE  Course'
<1> USE DEF Base, Operation, Placed, Untouched, Ready, Course, FirstStep,
        FromBootstrap, PersonalReady, Goto, Fails, files, upgrade, outside,
        InitPoints, InstallPoints, ReauthorizePoints, ApplyPoints, UndoPoints,
        Writing, Between
<1>t. /\ op \in Operation /\ meta \in Metadata /\ kept \in Configs /\ initialized \in BOOLEAN
      /\ initialized \in BOOLEAN /\ store \in [place: {"none", "old", "legacy", "current"}, imported: BOOLEAN]
  BY DEF Base, TypeOK
<1>1. CASE BeginPrepare
  BY <1>1, Starts, <1>t DEF BeginPrepare, FirstStep, FromBootstrap,
       PersonalReady, Idle
<1>2. ASSUME NEW c \in Channels, BeginInstall(c) PROVE Course'
  BY <1>2, Starts, <1>t DEF BeginInstall, FirstStep, FromBootstrap,
       PersonalReady, Idle
<1>3. ASSUME NEW w \in Workspaces, NEW p \in Profiles, BeginSwitch(w, p)
      PROVE  Course'
  BY <1>3, Starts, <1>t DEF BeginSwitch, SwitchFrom, GateOpen, StopDesktopIf,
       Registered, Idle
<1>4. ASSUME NEW w \in Workspaces, NEW p \in Profiles, BeginCreate(w, p)
      PROVE  Course'
  BY <1>4, Starts, <1>t DEF BeginCreate, GateOpen, Registered, Idle
<1>5. ASSUME NEW c \in Channels, BeginReauthorize(c) PROVE Course'
  BY <1>5, Starts, <1>t DEF BeginReauthorize, GateOpen, StopDesktopIf, Idle
<1>6. ASSUME NEW w \in Workspaces, Activate(w) PROVE Course'
  BY <1>6, <1>t DEF Activate, GateOpen, Idle
<1>7. CASE Launch
  BY <1>7, <1>t DEF Launch, GateOpen, Idle
<1>8. CASE LoadTarget
  BY <1>8, <1>t, Loading DEF AfterError
<1>9. CASE Checkpoint
  BY <1>9, <1>t, Checkpointing
<1>10. CASE CheckpointFails
  BY <1>10, <1>t DEF CheckpointFails
<1>11. CASE KeepConfig
  BY <1>11, <1>t DEF KeepConfig, Captured
<1>12. CASE WriteAuth
  BY <1>12, <1>t DEF WriteAuth
<1>13. CASE WriteConfig
  BY <1>13, <1>t DEF WriteConfig
<1>14. CASE MarkOwner
  BY <1>14, <1>t DEF MarkOwner
<1>15. CASE CommitMeta
  BY <1>15, <1>t DEF CommitMeta, MetaWith, AfterApply
<1>16. CASE ApplyFails
  BY <1>16, <1>t DEF ApplyFails
<1>17. CASE UndoAuth
  BY <1>17, <1>t DEF UndoAuth
<1>18. CASE UndoConfig
  BY <1>18, <1>t DEF UndoConfig
<1>19. CASE UndoMeta
  BY <1>19, <1>t DEF UndoMeta, AfterError
<1>20. CASE UndoFails
  BY <1>20, <1>t DEF UndoFails, AfterError
<1>21. CASE Switching
  BY <1>21, <1>t DEF Switching, Select, SelectFails, UndoCatalog, RemoveHome,
       UndoCatalogFails
<1>22. CASE Reauthorizing
  BY <1>22, <1>t, Refreshing DEF Reauthorizing, Rearchive, Resync, Resave,
       ResaveFor, ReauthorizeFails
<1>23. CASE Import
  BY <1>23, <1>t, Importing
<1>24. CASE MigrateKey
  BY <1>24, <1>t DEF MigrateKey
<1>25. CASE SaveVersion
  BY <1>25, <1>t DEF SaveVersion, FromBootstrap, PersonalReady
<1>26. CASE Capture
  BY <1>26, <1>t DEF Capture
<1>27. CASE Snapshot
  BY <1>27, <1>t DEF Snapshot, Captured
<1>28. CASE SaveProfiles
  BY <1>28, <1>t DEF SaveProfiles
<1>29. CASE Reconcile
  BY <1>29, <1>t, Reconciling
<1>30. CASE Bootstrap
  BY <1>30, <1>t DEF Bootstrap
<1>31. CASE InitializeFails
  BY <1>31, <1>t DEF InitializeFails
<1>32. CASE Issue
  BY <1>32, <1>t, Issuing
<1>33. CASE IssueFails
  BY <1>33, <1>t DEF IssueFails
<1>34. CASE ArchiveKey
  BY <1>34, <1>t DEF ArchiveKey
<1>35. CASE Know
  BY <1>35, <1>t DEF Know
<1>36. CASE Finalize
  BY <1>36, <1>t DEF Finalize
<1>37. CASE Adopt
  BY <1>37, <1>t DEF Adopt
<1>38. CASE InstallFails
  BY <1>38, <1>t DEF InstallFails
<1>39. CASE Finish
  BY <1>39, <1>t DEF Finish, NoOp
<1>40. CASE DesktopLogin
  BY <1>40, <1>t DEF DesktopLogin
<1>41. CASE Crash
  BY <1>41, <1>t DEF Crash, NoOp
<1>42. CASE UNCHANGED vars
  BY <1>42, <1>t DEF vars
<1>q. QED
  BY <1>1, <1>2, <1>3, <1>4, <1>5, <1>6, <1>7, <1>8, <1>9, <1>10, <1>11, <1>12,
       <1>13, <1>14, <1>15, <1>16, <1>17, <1>18, <1>19, <1>20, <1>21, <1>22,
       <1>23, <1>24, <1>25, <1>26, <1>27, <1>28, <1>29, <1>30, <1>31, <1>32,
       <1>33, <1>34, <1>35, <1>36, <1>37, <1>38, <1>39, <1>40, <1>41, <1>42
     DEF Next, Step, Request, Apply, Switching, Reauthorizing, Initializing, Installing

LEMMA MigratedStep ==
  ASSUME Base, Ready, Untouched, Course, Migrated, [Next]_vars
  PROVE  Migrated'
<1> USE AuthAssumption DEF Base, Operation, Placed, Untouched, Ready, Course,
        Migrated, NotArchived, PreviousHome, OldKey, Key, NoLogin, HasKey,
        Profiles, FirstStep, FromBootstrap, PersonalReady, Goto, Fails, files,
        upgrade, outside, InitPoints, InstallPoints, ReauthorizePoints,
        ApplyPoints, UndoPoints, Writing, Between
<1>t. /\ op \in Operation /\ meta \in Metadata
      /\ archive \in [Profiles -> Login] /\ home \in [Workspaces -> Home]
      /\ initialized \in BOOLEAN /\ store \in [place: {"none", "old", "legacy", "current"}, imported: BOOLEAN]
  BY DEF Base, TypeOK
<1>1. CASE BeginPrepare
  BY <1>1, Starts, <1>t DEF BeginPrepare, FirstStep, FromBootstrap,
       PersonalReady, Idle
<1>2. ASSUME NEW c \in Channels, BeginInstall(c) PROVE Migrated'
  BY <1>2, Starts, <1>t DEF BeginInstall, FirstStep, FromBootstrap,
       PersonalReady, Idle
<1>3. ASSUME NEW w \in Workspaces, NEW p \in Profiles, BeginSwitch(w, p)
      PROVE  Migrated'
  BY <1>3, Starts, <1>t DEF BeginSwitch, SwitchFrom, GateOpen, StopDesktopIf,
       Registered, Idle
<1>4. ASSUME NEW w \in Workspaces, NEW p \in Profiles, BeginCreate(w, p)
      PROVE  Migrated'
  BY <1>4, Starts, <1>t DEF BeginCreate, GateOpen, Registered, Idle
<1>5. ASSUME NEW c \in Channels, BeginReauthorize(c) PROVE Migrated'
  <2>1. /\ op'.kind = "reauthorize" /\ op'.profile = c /\ op'.key = Key(c, keys + 1)
        /\ op'.pc = "rearchive"
    BY <1>5, Starts
  <2>2. initialized /\ UNCHANGED <<files, initialized>>
    BY <1>5 DEF BeginReauthorize, GateOpen
  <2>3. store.place \notin {"old", "legacy"}
    BY <2>2, <1>t
  <2>q. QED
    BY <2>1, <2>2, <2>3, <1>t
<1>6. ASSUME NEW w \in Workspaces, Activate(w) PROVE Migrated'
  BY <1>6, <1>t DEF Activate, GateOpen, Idle
<1>7. CASE Launch
  BY <1>7, <1>t DEF Launch, GateOpen, Idle
<1>8. CASE LoadTarget
  BY <1>8, <1>t, Loading DEF AfterError
<1>9. CASE Checkpoint
  BY <1>9, <1>t, Checkpointing DEF Archivable, Fits, Usable
<1>10. CASE CheckpointFails
  BY <1>10, <1>t DEF CheckpointFails
<1>11. CASE KeepConfig
  BY <1>11, <1>t DEF KeepConfig
<1>12. CASE WriteAuth
  BY <1>12, <1>t DEF WriteAuth
<1>13. CASE WriteConfig
  BY <1>13, <1>t DEF WriteConfig
<1>14. CASE MarkOwner
  BY <1>14, <1>t DEF MarkOwner
<1>15. CASE CommitMeta
  BY <1>15, <1>t DEF CommitMeta, MetaWith, AfterApply
<1>16. CASE ApplyFails
  BY <1>16, <1>t DEF ApplyFails
<1>17. CASE UndoAuth
  BY <1>17, <1>t DEF UndoAuth
<1>18. CASE UndoConfig
  BY <1>18, <1>t DEF UndoConfig
<1>19. CASE UndoMeta
  BY <1>19, <1>t DEF UndoMeta, AfterError
<1>20. CASE UndoFails
  BY <1>20, <1>t DEF UndoFails, AfterError
<1>21. CASE Switching
  BY <1>21, <1>t DEF Switching, Select, SelectFails, UndoCatalog, RemoveHome,
       UndoCatalogFails
<1>22. CASE Rearchive
  BY <1>22, <1>t DEF Rearchive
<1>23. CASE Resync
  BY <1>23, <1>t DEF Resync
<1>24. CASE Resave
  BY <1>24, <1>t DEF Resave, ResaveFor
<1>25. CASE Refresh
  BY <1>25, <1>t, Refreshing
<1>26. CASE ReauthorizeFails
  BY <1>26, <1>t DEF ReauthorizeFails
<1>27. CASE Import
  BY <1>27, <1>t, Importing
<1>28. CASE MigrateKey
  <2>1. PICK c \in NotArchived :
          \E login \in {OldKey(c), home[PreviousHome(c)].auth} \ {NoLogin} :
            archive' = [archive EXCEPT ![c] = login]
    BY <1>28 DEF MigrateKey
  <2>2. ~store.imported => archive' = [archive EXCEPT ![c] = OldKey(c)]
    BY <1>28, <2>1, <1>t DEF MigrateKey
  <2>3. /\ op.pc = "migrate" /\ store.place = "old"
        /\ UNCHANGED <<kept, home, catalog, active, meta, upgrade, op>>
    BY <1>28, <1>t DEF MigrateKey
  <2>q. QED
    BY <2>2, <2>3, <1>t
<1>29. CASE SaveVersion
  <2>1. /\ op.pc = "migrate" /\ store.place = "old" /\ op' = [op EXCEPT !.pc = FromBootstrap]
        /\ \A c \in NotArchived : home[PreviousHome(c)].auth = NoLogin
        /\ store' = [store EXCEPT !.place = "current"]
        /\ UNCHANGED <<archive, kept, home, catalog, active, meta, old>>
    BY <1>29, <1>t DEF SaveVersion
  <2>2. \A c \in Channels : OldKey(c) # NoLogin
    OBVIOUS
  <2>3. ~store.imported => NotArchived = {}
    <3> SUFFICES ASSUME ~store.imported, NEW c \in NotArchived PROVE FALSE
      OBVIOUS
    <3> HIDE DEF PreviousHome, OldKey, NoLogin
    <3>1. c \in Channels
      OBVIOUS
    <3>2. home[PreviousHome(c)].auth = OldKey(c)
      BY <2>1
    <3>q. QED
      BY <2>1, <2>2, <3>1, <3>2
  <2>4. ~store.imported => \A c \in meta.known \intersect Channels : archive[c].owner = c
    BY <2>3, <1>t
  <2>5. op'.kind = op.kind /\ op'.key = op.key /\ op'.profile = op.profile
        /\ op'.pc \in {"reconcile", "capture"}
    BY <2>1, <1>t
  <2>q. QED
    BY <2>1, <2>4, <2>5, <1>t
<1>30. CASE Capture
  BY <1>30, <1>t DEF Capture
<1>31. CASE Snapshot
  BY <1>31, <1>t DEF Snapshot
<1>32. CASE SaveProfiles
  BY <1>32, <1>t DEF SaveProfiles
<1>33. CASE Reconcile
  BY <1>33, <1>t, Reconciling
<1>34. CASE Bootstrap
  BY <1>34, <1>t DEF Bootstrap
<1>35. CASE InitializeFails
  BY <1>35, <1>t DEF InitializeFails
<1>36. CASE Issue
  BY <1>36, <1>t, Issuing
<1>37. CASE IssueFails
  BY <1>37, <1>t DEF IssueFails
<1>38. CASE ArchiveKey
  BY <1>38, <1>t DEF ArchiveKey
<1>39. CASE Know
  BY <1>39, <1>t DEF Know
<1>40. CASE Finalize
  BY <1>40, <1>t DEF Finalize
<1>41. CASE Adopt
  BY <1>41, <1>t DEF Adopt
<1>42. CASE InstallFails
  BY <1>42, <1>t DEF InstallFails
<1>43. CASE Finish
  BY <1>43, <1>t DEF Finish, NoOp
<1>44. CASE DesktopLogin
  BY <1>44, <1>t DEF DesktopLogin
<1>45. CASE Crash
  BY <1>45, <1>t DEF Crash, NoOp
<1>46. CASE UNCHANGED vars
  BY <1>46, <1>t DEF vars
<1>q. QED
  BY <1>1, <1>2, <1>3, <1>4, <1>5, <1>6, <1>7, <1>8, <1>9, <1>10, <1>11, <1>12,
       <1>13, <1>14, <1>15, <1>16, <1>17, <1>18, <1>19, <1>20, <1>21, <1>22,
       <1>23, <1>24, <1>25, <1>26, <1>27, <1>28, <1>29, <1>30, <1>31, <1>32,
       <1>33, <1>34, <1>35, <1>36, <1>37, <1>38, <1>39, <1>40, <1>41, <1>42,
       <1>43, <1>44, <1>45, <1>46
     DEF Next, Step, Request, Apply, Switching, Reauthorizing, Initializing, Installing

LEMMA CapturesStep ==
  ASSUME Base, Ready, Untouched, Course, Migrated, Captures, [Next]_vars
  PROVE  Captures'
<1> USE AuthAssumption DEF Base, Operation, Placed, Untouched, Course,
        Migrated, Captures, FirstLogin, FirstStep, FromBootstrap,
        PersonalReady, Goto, Fails, files, upgrade, outside, InitPoints,
        InstallPoints, ReauthorizePoints, ApplyPoints, UndoPoints, Writing,
        Between
<1>t. /\ op \in Operation /\ meta \in Metadata
      /\ archive \in [Profiles -> Login] /\ home \in [Workspaces -> Home]
      /\ initialized \in BOOLEAN /\ store \in [place: {"none", "old", "legacy", "current"}, imported: BOOLEAN]
  BY DEF Base, TypeOK
<1>1. CASE BeginPrepare
  BY <1>1, Starts, <1>t DEF BeginPrepare, FirstStep, FromBootstrap,
       PersonalReady, Idle
<1>2. ASSUME NEW c \in Channels, BeginInstall(c) PROVE Captures'
  BY <1>2, Starts, <1>t DEF BeginInstall, FirstStep, FromBootstrap,
       PersonalReady, Idle
<1>3. ASSUME NEW w \in Workspaces, NEW p \in Profiles, BeginSwitch(w, p)
      PROVE  Captures'
  BY <1>3, Starts, <1>t DEF BeginSwitch, SwitchFrom, GateOpen, StopDesktopIf,
       Registered, Idle
<1>4. ASSUME NEW w \in Workspaces, NEW p \in Profiles, BeginCreate(w, p)
      PROVE  Captures'
  BY <1>4, Starts, <1>t DEF BeginCreate, GateOpen, Registered, Idle
<1>5. ASSUME NEW c \in Channels, BeginReauthorize(c) PROVE Captures'
  BY <1>5, Starts, <1>t DEF BeginReauthorize, GateOpen, StopDesktopIf, Idle
<1>6. ASSUME NEW w \in Workspaces, Activate(w) PROVE Captures'
  BY <1>6, <1>t DEF Activate, GateOpen, Idle
<1>7. CASE Launch
  BY <1>7, <1>t DEF Launch, GateOpen, Idle
<1>8. CASE Apply
  BY <1>8, <1>t, Loading, Checkpointing DEF Apply, CheckpointFails, KeepConfig,
       WriteAuth, WriteConfig, MarkOwner, CommitMeta, MetaWith, AfterApply,
       ApplyFails, UndoAuth, UndoConfig, UndoMeta, AfterError, UndoFails
<1>9. CASE Switching
  BY <1>9, <1>t DEF Switching, Select, SelectFails, UndoCatalog, RemoveHome,
       UndoCatalogFails
<1>10. CASE Rearchive
  BY <1>10, <1>t DEF Rearchive
<1>11. CASE Resync
  BY <1>11, <1>t DEF Resync
<1>12. CASE Resave
  BY <1>12, <1>t DEF Resave, ResaveFor
<1>13. CASE Refresh
  BY <1>13, <1>t, Refreshing
<1>14. CASE ReauthorizeFails
  BY <1>14, <1>t DEF ReauthorizeFails
<1>15. CASE Import
  BY <1>15, <1>t, Importing
<1>16. CASE MigrateKey
  BY <1>16, <1>t DEF MigrateKey
<1>17. CASE SaveVersion
  BY <1>17, <1>t DEF SaveVersion, FromBootstrap, PersonalReady
<1>18. CASE Capture
  <2>1. /\ op.pc = "capture" /\ op' = [op EXCEPT !.pc = "snapshot", !.target = Original]
        /\ archive' = IF Original = NoLogin THEN archive
                      ELSE [archive EXCEPT ![Personal] = Original]
        /\ UNCHANGED <<kept, home, catalog, active, meta, upgrade, outside, faults>>
    BY <1>18 DEF Capture
  <2>2. op'.kind = op.kind /\ op'.before = op.before /\ op'.pc = "snapshot"
    BY <2>1, <1>t
  <2>3. ASSUME ~store.imported, FirstLogin
        PROVE  archive'[Personal] = op.before.home.auth
    <3> DEFINE live == home[Default].auth
    <3>1. live = op.before.home.auth /\ Personal \notin meta.known /\ live.owner = Personal
      BY <2>1, <2>3
    <3>2. \A c \in meta.known \intersect Channels : archive[c].owner = c
      BY <2>1, <2>3, <1>t
    <3>3. Original = live
      BY <3>1, <3>2 DEF Original, Profiles
    <3>4. live # NoLogin
      BY <3>1 DEF NoLogin, Profiles
    <3>q. QED
      BY <2>1, <3>1, <3>3, <3>4, <1>t DEF Profiles
  <2>q. QED
    BY <2>1, <2>2, <2>3, <1>t
<1>19. CASE Snapshot
  BY <1>19, <1>t DEF Snapshot
<1>20. CASE SaveProfiles
  BY <1>20, <1>t DEF SaveProfiles
<1>21. CASE Reconcile
  BY <1>21, <1>t, Reconciling
<1>22. CASE Bootstrap
  BY <1>22, <1>t DEF Bootstrap
<1>23. CASE InitializeFails
  BY <1>23, <1>t DEF InitializeFails
<1>24. CASE Installing
  BY <1>24, <1>t, Issuing DEF Installing, IssueFails, ArchiveKey, Know,
       Finalize, Adopt, InstallFails
<1>25. CASE Finish
  BY <1>25, <1>t DEF Finish, NoOp
<1>26. CASE DesktopLogin
  BY <1>26, <1>t DEF DesktopLogin
<1>27. CASE Crash
  BY <1>27, <1>t DEF Crash, NoOp
<1>28. CASE UNCHANGED vars
  BY <1>28, <1>t DEF vars
<1>q. QED
  BY <1>1, <1>2, <1>3, <1>4, <1>5, <1>6, <1>7, <1>8, <1>9, <1>10, <1>11, <1>12,
       <1>13, <1>14, <1>15, <1>16, <1>17, <1>18, <1>19, <1>20, <1>21, <1>22,
       <1>23, <1>24, <1>25, <1>26, <1>27, <1>28
     DEF Next, Step, Request, Apply, Switching, Reauthorizing, Initializing, Installing

LEMMA ToldStep ==
  ASSUME Base, Told, [Next]_vars
  PROVE  Told'
<1> USE AuthAssumption DEF Base, Operation, Placed, Told, Goto, Fails, files,
        upgrade, outside, InitPoints, InstallPoints, ReauthorizePoints,
        ApplyPoints, UndoPoints, Writing, Between
<1>t. /\ op \in Operation /\ meta \in Metadata
      /\ archive \in [Profiles -> Login] /\ home \in [Workspaces -> Home]
      /\ initialized \in BOOLEAN /\ store \in [place: {"none", "old", "legacy", "current"}, imported: BOOLEAN]
  BY DEF Base, TypeOK
<1>1. CASE BeginPrepare
  BY <1>1, Starts, <1>t DEF BeginPrepare, FirstStep, FromBootstrap,
       PersonalReady, Idle
<1>2. ASSUME NEW c \in Channels, BeginInstall(c) PROVE Told'
  BY <1>2, Starts, <1>t DEF BeginInstall, FirstStep, FromBootstrap,
       PersonalReady, Idle
<1>3. ASSUME NEW w \in Workspaces, NEW p \in Profiles, BeginSwitch(w, p)
      PROVE  Told'
  BY <1>3, Starts, <1>t DEF BeginSwitch, SwitchFrom, GateOpen, StopDesktopIf,
       Registered, Idle
<1>4. ASSUME NEW w \in Workspaces, NEW p \in Profiles, BeginCreate(w, p)
      PROVE  Told'
  BY <1>4, Starts, <1>t DEF BeginCreate, GateOpen, Registered, Idle
<1>5. ASSUME NEW c \in Channels, BeginReauthorize(c) PROVE Told'
  BY <1>5, Starts, <1>t DEF BeginReauthorize, GateOpen, StopDesktopIf, Idle
<1>6. ASSUME NEW w \in Workspaces, Activate(w) PROVE Told'
  BY <1>6, <1>t DEF Activate, GateOpen, Idle
<1>7. CASE Launch
  BY <1>7, <1>t DEF Launch, GateOpen, Idle
<1>8. CASE Apply
  BY <1>8, <1>t, Loading, Checkpointing DEF Apply, CheckpointFails, KeepConfig,
       WriteAuth, WriteConfig, MarkOwner, CommitMeta, MetaWith, AfterApply,
       ApplyFails, UndoAuth, UndoConfig, UndoMeta, AfterError, UndoFails
<1>9. CASE Switching
  BY <1>9, <1>t DEF Switching, Select, SelectFails, UndoCatalog, RemoveHome,
       UndoCatalogFails
<1>10. CASE Reauthorizing
  BY <1>10, <1>t, Refreshing DEF Reauthorizing, Rearchive, Resync, Resave,
       ResaveFor, ReauthorizeFails
<1>11. CASE Import
  BY <1>11, <1>t, Importing
<1>12. CASE MigrateKey
  BY <1>12, <1>t DEF MigrateKey
<1>13. CASE SaveVersion
  BY <1>13, <1>t DEF SaveVersion, FromBootstrap, PersonalReady
<1>14. CASE Capture
  BY <1>14, <1>t DEF Capture
<1>15. CASE Snapshot
  BY <1>15, <1>t DEF Snapshot
<1>16. CASE SaveProfiles
  BY <1>16, <1>t DEF SaveProfiles
<1>17. CASE Reconcile
  <2>1. /\ op.pc = "reconcile" /\ op'.pc = "bootstrap"
        /\ UNCHANGED <<archive, home, desktop>>
    BY <1>17, <1>t DEF Reconcile
  <2>2. \/ Shown = {} /\ meta' = meta
        \/ \E p \in Shown : meta' = [meta EXCEPT !.active = p]
    BY <1>17 DEF Reconcile
  <2>3. meta'.known = meta.known /\ (Shown # {} => meta'.active \in Shown)
    BY <2>2, <1>t DEF Metadata
  <2>4. Shown' = Shown
    BY <2>1, <2>3 DEF Shown
  <2>q. QED
    BY <2>1, <2>3, <2>4
<1>18. CASE Bootstrap
  <2>1. /\ op.pc = "bootstrap" /\ op'.kind = op.kind
        /\ UNCHANGED <<archive, home, meta, desktop>>
    BY <1>18, <1>t DEF Bootstrap
  <2>2. Shown' = Shown
    BY <2>1 DEF Shown
  <2>q. QED
    BY <2>1, <2>2
<1>19. CASE InitializeFails
  BY <1>19, <1>t DEF InitializeFails
<1>20. CASE Installing
  BY <1>20, <1>t, Issuing DEF Installing, IssueFails, ArchiveKey, Know,
       Finalize, Adopt, InstallFails
<1>21. CASE Finish
  BY <1>21, <1>t DEF Finish, NoOp
<1>22. CASE DesktopLogin
  BY <1>22, <1>t DEF DesktopLogin
<1>23. CASE Crash
  BY <1>23, <1>t DEF Crash, NoOp
<1>24. CASE UNCHANGED vars
  BY <1>24, <1>t DEF vars, Shown
<1>q. QED
  BY <1>1, <1>2, <1>3, <1>4, <1>5, <1>6, <1>7, <1>8, <1>9, <1>10, <1>11, <1>12,
       <1>13, <1>14, <1>15, <1>16, <1>17, <1>18, <1>19, <1>20, <1>21, <1>22,
       <1>23, <1>24
     DEF Next, Step, Request, Apply, Switching, Reauthorizing, Initializing, Installing

LEMMA InStepStep ==
  ASSUME Base, InStep, [Next]_vars
  PROVE  InStep'
<1> USE AuthAssumption DEF Base, Operation, Placed, InStep, Imported, Goto,
        Fails, files, upgrade, outside, InitPoints, InstallPoints,
        ReauthorizePoints, ApplyPoints, UndoPoints, Writing, Between
<1>t. /\ op \in Operation /\ meta \in Metadata /\ initialized \in BOOLEAN
      /\ catalog \in [Workspaces -> Profiles \union {NoProfile, Absent}]
  BY DEF Base, TypeOK
<1>1. CASE BeginPrepare
  BY <1>1, Starts, <1>t DEF BeginPrepare, FirstStep, FromBootstrap,
       PersonalReady, Idle
<1>2. ASSUME NEW c \in Channels, BeginInstall(c) PROVE InStep'
  BY <1>2, Starts, <1>t DEF BeginInstall, FirstStep, FromBootstrap,
       PersonalReady, Idle
<1>3. ASSUME NEW w \in Workspaces, NEW p \in Profiles, BeginSwitch(w, p)
      PROVE  InStep'
  BY <1>3, Starts, <1>t DEF BeginSwitch, SwitchFrom, GateOpen, StopDesktopIf,
       Registered, Idle
<1>4. ASSUME NEW w \in Workspaces, NEW p \in Profiles, BeginCreate(w, p)
      PROVE  InStep'
  BY <1>4, Starts, <1>t DEF BeginCreate, GateOpen, Registered, Idle
<1>5. ASSUME NEW c \in Channels, BeginReauthorize(c) PROVE InStep'
  BY <1>5, Starts, <1>t DEF BeginReauthorize, GateOpen, StopDesktopIf, Idle
<1>6. ASSUME NEW w \in Workspaces, Activate(w) PROVE InStep'
  BY <1>6, <1>t DEF Activate, GateOpen, Idle
<1>7. CASE Launch
  BY <1>7, <1>t DEF Launch, GateOpen, Idle
<1>8. CASE Apply
  BY <1>8, <1>t, Loading, Checkpointing DEF Apply, CheckpointFails, KeepConfig,
       WriteAuth, WriteConfig, MarkOwner, CommitMeta, MetaWith, AfterApply,
       ApplyFails, UndoAuth, UndoConfig, UndoMeta, AfterError, UndoFails
<1>9. CASE Switching
  BY <1>9, <1>t DEF Switching, Select, SelectFails, UndoCatalog, RemoveHome,
       UndoCatalogFails
<1>10. CASE Reauthorizing
  BY <1>10, <1>t, Refreshing DEF Reauthorizing, Rearchive, Resync, Resave,
       ResaveFor, ReauthorizeFails
<1>11. CASE Import
  BY <1>11, <1>t, Importing
<1>12. CASE MigrateKey
  BY <1>12, <1>t DEF MigrateKey
<1>13. CASE SaveVersion
  BY <1>13, <1>t DEF SaveVersion, FromBootstrap, PersonalReady
<1>14. CASE Capture
  BY <1>14, <1>t DEF Capture
<1>15. CASE Snapshot
  BY <1>15, <1>t DEF Snapshot
<1>16. CASE SaveProfiles
  BY <1>16, <1>t DEF SaveProfiles
<1>17. CASE Reconcile
  BY <1>17, <1>t, Reconciling
<1>18. CASE Bootstrap
  <2>1. /\ op.pc = "bootstrap" /\ op'.kind = op.kind /\ catalog' = Catalogued
        /\ UNCHANGED <<meta, old>>
    BY <1>18, <1>t DEF Bootstrap
  <2>2. \A w \in Workspaces : ~Imported(w)'
    BY <2>1, <1>t DEF Imported, Catalogued, Profiles, Metadata
  <2>3. meta.active # NoProfile => Catalogued[Default] = meta.active
    BY DEF Catalogued
  <2>q. QED
    BY <2>1, <2>2, <2>3
<1>19. CASE InitializeFails
  BY <1>19, <1>t DEF InitializeFails
<1>20. CASE Installing
  BY <1>20, <1>t, Issuing DEF Installing, IssueFails, ArchiveKey, Know,
       Finalize, Adopt, InstallFails
<1>21. CASE Finish
  BY <1>21, <1>t DEF Finish, NoOp
<1>22. CASE DesktopLogin
  BY <1>22, <1>t DEF DesktopLogin
<1>23. CASE Crash
  BY <1>23, <1>t DEF Crash, NoOp
<1>24. CASE UNCHANGED vars
  BY <1>24, <1>t DEF vars
<1>q. QED
  BY <1>1, <1>2, <1>3, <1>4, <1>5, <1>6, <1>7, <1>8, <1>9, <1>10, <1>11, <1>12,
       <1>13, <1>14, <1>15, <1>16, <1>17, <1>18, <1>19, <1>20, <1>21, <1>22,
       <1>23, <1>24
     DEF Next, Step, Request, Apply, Switching, Reauthorizing, Initializing, Installing

LEMMA AgreeingStep ==
  ASSUME Base, Ready, Untouched, Course, Chosen, Spreading, Agreeing, [Next]_vars
  PROVE  Agreeing'
<1> USE AuthAssumption DEF Base, Operation, Placed, Ready, Agreeing, Switched,
        Goto, Fails, files, upgrade, outside, InitPoints, InstallPoints,
        ReauthorizePoints, ApplyPoints, UndoPoints, Writing, Between
<1>t. /\ op \in Operation /\ meta \in Metadata /\ faults \in Nat
      /\ initialized \in BOOLEAN
      /\ catalog \in [Workspaces -> Profiles \union {NoProfile, Absent}]
  BY DEF Base, TypeOK
<1>1. CASE BeginPrepare
  BY <1>1, Starts, <1>t DEF BeginPrepare, FirstStep, FromBootstrap,
       PersonalReady, Idle
<1>2. ASSUME NEW c \in Channels, BeginInstall(c) PROVE Agreeing'
  BY <1>2, Starts, <1>t DEF BeginInstall, FirstStep, FromBootstrap,
       PersonalReady, Idle
<1>3. ASSUME NEW w \in Workspaces, NEW p \in Profiles, BeginSwitch(w, p)
      PROVE  Agreeing'
  <2>1. /\ catalog[w] # NoProfile /\ initialized
    BY <1>3, <1>t DEF BeginSwitch, SwitchFrom, GateOpen, Registered, Chosen
  <2>2. /\ op'.kind = "switch" /\ op'.pc = "select" /\ op'.current = catalog[w]
        /\ op'.ws = w
    BY <1>3, Starts
  <2>3. op.pc = "idle" /\ UNCHANGED <<files, initialized, faults>>
    BY <1>3 DEF BeginSwitch, SwitchFrom, Idle
  <2>q. QED
    BY <2>1, <2>2, <2>3, <1>t
<1>4. ASSUME NEW w \in Workspaces, NEW p \in Profiles, BeginCreate(w, p)
      PROVE  Agreeing'
  BY <1>4, Starts, <1>t DEF BeginCreate, GateOpen, Registered, Idle
<1>5. ASSUME NEW c \in Channels, BeginReauthorize(c) PROVE Agreeing'
  BY <1>5, Starts, <1>t DEF BeginReauthorize, GateOpen, StopDesktopIf, Idle
<1>6. ASSUME NEW w \in Workspaces, Activate(w) PROVE Agreeing'
  BY <1>6, <1>t DEF Activate, GateOpen, Idle
<1>7. CASE Launch
  BY <1>7, <1>t DEF Launch, GateOpen, Idle
<1>8. CASE LoadTarget
  BY <1>8, <1>t, Loading DEF AfterError
<1>9. CASE Checkpoint
  BY <1>9, <1>t, Checkpointing
<1>10. CASE CheckpointFails
  BY <1>10, <1>t DEF CheckpointFails
<1>11. CASE KeepConfig
  BY <1>11, <1>t DEF KeepConfig
<1>12. CASE WriteAuth
  BY <1>12, <1>t DEF WriteAuth
<1>13. CASE WriteConfig
  BY <1>13, <1>t DEF WriteConfig
<1>14. CASE MarkOwner
  BY <1>14, <1>t DEF MarkOwner
<1>15. CASE CommitMeta
  <2>1. /\ op.pc = "meta" /\ op' = [op EXCEPT !.pc = AfterApply]
        /\ meta' = MetaWith(op.profile)
        /\ UNCHANGED <<catalog, initialized, faults>>
    BY <1>15 DEF CommitMeta
  <2>2. /\ op'.kind = op.kind /\ op'.ws = op.ws /\ op'.profile = op.profile
        /\ op'.pc = AfterApply /\ AfterApply \in {"refresh", "adopt", "ok"}
        /\ AfterApply = "adopt" <=> op.kind = "install"
        /\ op.kind = "reauthorize" => AfterApply = "refresh"
    BY <2>1, <1>t DEF AfterApply
  <2>3. meta'.active = IF op.ws = Default THEN op.profile ELSE meta.active
    BY <2>1, <1>t DEF MetaWith, Metadata
  <2>4. op.profile \in Profiles /\ op.profile # NoProfile
    BY <2>1, <1>t DEF Profiles, AllKinds
  <2>5. op.kind \in {"switch", "create", "install", "reauthorize"}
    BY <2>1, <1>t DEF AllKinds
  <2>6. op.kind = "create" => op.ws # Default
    BY DEF Chosen
  <2>7. op.kind = "reauthorize" => catalog[op.ws] = op.profile
    BY <2>1 DEF Spreading
  <2> HIDE DEF Placed, Base
  <2>q. QED
    BY <2>1, <2>2, <2>3, <2>4, <2>5, <2>6, <2>7, <1>t
<1>16. CASE ApplyFails
  BY <1>16, <1>t DEF ApplyFails
<1>17. CASE UndoAuth
  BY <1>17, <1>t DEF UndoAuth
<1>18. CASE UndoConfig
  BY <1>18, <1>t DEF UndoConfig
<1>19. CASE UndoMeta
  BY <1>19, <1>t DEF UndoMeta, AfterError
<1>20. CASE UndoFails
  BY <1>20, <1>t DEF UndoFails, AfterError
<1>21. CASE Select
  BY <1>21, <1>t DEF Select, Chosen
<1>22. CASE SelectFails
  BY <1>22, <1>t DEF SelectFails
<1>23. CASE UndoCatalog
  BY <1>23, <1>t DEF UndoCatalog, Chosen
<1>24. CASE RemoveHome
  BY <1>24, <1>t DEF RemoveHome
<1>25. CASE UndoCatalogFails
  BY <1>25, <1>t DEF UndoCatalogFails
<1>26. CASE Rearchive
  BY <1>26, <1>t DEF Rearchive
<1>27. CASE Resync
  BY <1>27, <1>t DEF Resync
<1>28. CASE Resave
  BY <1>28, <1>t DEF Resave, ResaveFor
<1>29. CASE Refresh
  BY <1>29, <1>t, Refreshing
<1>30. CASE ReauthorizeFails
  BY <1>30, <1>t DEF ReauthorizeFails
<1>31. CASE Import
  BY <1>31, <1>t, Importing DEF Course
<1>32. CASE MigrateKey
  BY <1>32, <1>t DEF MigrateKey
<1>33. CASE SaveVersion
  BY <1>33, <1>t DEF SaveVersion, FromBootstrap, PersonalReady
<1>34. CASE Capture
  BY <1>34, <1>t DEF Capture
<1>35. CASE Snapshot
  BY <1>35, <1>t DEF Snapshot
<1>36. CASE SaveProfiles
  BY <1>36, <1>t DEF SaveProfiles, Course, Profiles
<1>37. CASE Reconcile
  BY <1>37, <1>t, Reconciling
<1>38. CASE Bootstrap
  <2>1. /\ op.pc = "bootstrap" /\ op'.kind = op.kind /\ op'.ws = op.ws
        /\ op'.pc = IF op.kind = "install" THEN "issue" ELSE "ok"
        /\ op.kind \in {"prepare", "install"}
        /\ catalog'[Default] = IF meta.active = NoProfile /\ catalog[Default] # Absent
                               THEN catalog[Default] ELSE meta.active
        /\ UNCHANGED <<meta, faults>>
    BY <1>38, <1>t DEF Bootstrap, Catalogued
  <2>q. QED
    BY <2>1, <1>t
<1>39. CASE InitializeFails
  BY <1>39, <1>t DEF InitializeFails
<1>40. CASE Issue
  BY <1>40, <1>t, Issuing
<1>41. CASE IssueFails
  BY <1>41, <1>t DEF IssueFails
<1>42. CASE ArchiveKey
  BY <1>42, <1>t DEF ArchiveKey
<1>43. CASE Know
  BY <1>43, <1>t DEF Know
<1>44. CASE Finalize
  BY <1>44, <1>t DEF Finalize
<1>45. CASE Adopt
  BY <1>45, <1>t DEF Adopt
<1>46. CASE InstallFails
  BY <1>46, <1>t DEF InstallFails
<1>47. CASE Finish
  BY <1>47, <1>t DEF Finish, NoOp
<1>48. CASE DesktopLogin
  BY <1>48, <1>t DEF DesktopLogin
<1>49. CASE Crash
  BY <1>49, <1>t DEF Crash, NoOp
<1>50. CASE UNCHANGED vars
  BY <1>50, <1>t DEF vars
<1>q. QED
  BY <1>1, <1>2, <1>3, <1>4, <1>5, <1>6, <1>7, <1>8, <1>9, <1>10, <1>11, <1>12,
       <1>13, <1>14, <1>15, <1>16, <1>17, <1>18, <1>19, <1>20, <1>21, <1>22,
       <1>23, <1>24, <1>25, <1>26, <1>27, <1>28, <1>29, <1>30, <1>31, <1>32,
       <1>33, <1>34, <1>35, <1>36, <1>37, <1>38, <1>39, <1>40, <1>41, <1>42,
       <1>43, <1>44, <1>45, <1>46, <1>47, <1>48, <1>49, <1>50
     DEF Next, Step, Request, Apply, Switching, Reauthorizing, Initializing, Installing

Whole ==
  /\ Base /\ Ready /\ Handed /\ Spreading /\ Chosen /\ Untouched /\ Course
  /\ Migrated /\ Captures /\ Told /\ InStep /\ Agreeing

LEMMA WholeStep ==
  ASSUME Whole, [Next]_vars
  PROVE  Whole'
BY BaseStep, ReadyStep, HandedStep, SpreadingStep, ChosenStep, UntouchedStep,
   CourseStep, MigratedStep, CapturesStep, ToldStep, InStepStep, AgreeingStep
   DEF Whole

\* At the start nothing runs; what an earlier version left has every key in an
\* archive or in the home where the migration looks for it.
LEMMA InitWhole == Init => Whole
<1> SUFFICES ASSUME Init PROVE Whole
  OBVIOUS
<1>1. Base
  BY InitTyped DEF Base
<1>2. /\ op.pc = "idle" /\ op.kind = "prepare" /\ ~op.auto /\ ~op.wasRunning
      /\ op.before.home.auth = NoLogin
      /\ ~initialized /\ desktop = NoWorkspace /\ faults = 0
      /\ catalog = [w \in Workspaces |-> Absent]
  BY DEF Init, NoOp, EmptyHome
<1>3. \/ /\ store = [place |-> "none", imported |-> FALSE]
         /\ meta = [active |-> NoProfile, known |-> {}] /\ setup = "pending"
         /\ archive = [p \in Profiles |-> NoLogin]
      \/ /\ store.place \in {"old", "legacy"} /\ setup \in {"pending", "succeeded"}
         /\ setup = "succeeded" => meta.active # NoProfile
         /\ \A p \in Profiles : archive[p] = NoLogin \/ archive[p] = OldKey(p)
         /\ \A c \in NotArchived : home[PreviousHome(c)].auth = OldKey(c)
  <2>1. CASE Fresh
    BY <2>1 DEF Fresh
  <2>2. CASE Upgraded
    <3>1. PICK channels \in (SUBSET Channels) \ {{}} :
            \E archived \in SUBSET channels,
               live \in {NoLogin, ChatGPT(1)} \union {OldKey(c) : c \in Channels} :
              LeftBehind(channels, archived, live)
      BY <2>2 DEF Upgraded
    <3> PICK archived \in SUBSET channels,
             live \in {NoLogin, ChatGPT(1)} \union {OldKey(c) : c \in Channels} :
          LeftBehind(channels, archived, live)
      BY <3>1
    <3>2. /\ store.place \in {"old", "legacy"} /\ ~store.imported
          /\ setup \in {"pending", "succeeded"}
          /\ setup = "succeeded" => meta.active # NoProfile
          /\ archive = [p \in Profiles |->
                          IF p \in archived THEN OldKey(p) ELSE NoLogin]
          /\ meta.known \intersect Channels \subseteq channels
      <4>1. store.place \in {"old", "legacy"} /\ ~store.imported
        BY AuthAssumption DEF LeftBehind, AllOrigins
      <4>2. meta.known \in {channels, channels \union {Personal}}
        BY DEF LeftBehind
      <4>q. QED
        BY <4>1, <4>2, AuthAssumption DEF LeftBehind, Profiles
    <3>3. ASSUME NEW c \in NotArchived
          PROVE  home[PreviousHome(c)].auth = OldKey(c)
      <4>1. c \in channels /\ c \in Channels /\ archive[c] = NoLogin
        BY <3>2 DEF NotArchived
      <4>2. c \notin archived
        BY AuthAssumption, <3>2, <4>1 DEF OldKey, Key, NoLogin, Profiles
      <4>3. CASE old[c] = NoWorkspace
        <5>1. live = OldKey(c) /\ PreviousHome(c) = Default
          BY <4>1, <4>2, <4>3 DEF LeftBehind, PreviousHome
        <5>q. QED
          BY <5>1, AuthAssumption DEF LeftBehind, HomeOf
      <4>4. CASE old[c] # NoWorkspace
        <5>1. old[c] \in Workspaces \ {Default} /\ PreviousHome(c) = old[c]
          BY <3>2, <4>1, <4>4 DEF LeftBehind, PreviousHome
        <5> DEFINE d == CHOOSE e \in channels : old[e] = old[c]
        <5>2. d \in channels /\ old[d] = old[c]
          BY <4>1
        <5> HIDE DEF d
        <5>3. d = c
          BY <4>1, <4>4, <5>2 DEF LeftBehind
        <5>4. home[old[c]] = HomeOf(OldKey(d))
          BY <4>1, <5>1 DEF LeftBehind, d
        <5>q. QED
          BY <5>1, <5>3, <5>4 DEF HomeOf
      <4>q. QED
        BY <4>3, <4>4
    <3>q. QED
      BY <3>2, <3>3
  <2>q. QED
    BY <2>1, <2>2 DEF Init
<1> USE AuthAssumption, <1>2, <1>3 DEF InitPoints, InstallPoints,
      ReauthorizePoints, ApplyPoints, UndoPoints, Writing, Between
<1>4. Ready /\ Handed /\ Spreading /\ Told /\ InStep
  BY DEF Ready, Handed, ReplacedLogin, Spreading, Told, InStep
<1>5. Chosen
  BY DEF Chosen
<1>6. Untouched /\ Course
  BY DEF Untouched, Course
<1>7. Migrated
  <2>1. ASSUME NEW c \in Channels
        PROVE  archive[c] = NoLogin \/ archive[c].owner = c
    <3>1. archive[c] = NoLogin \/ archive[c] = OldKey(c)
      BY DEF Profiles
    <3>2. OldKey(c).owner = c
      BY DEF OldKey, Key
    <3>q. QED
      BY <3>1, <3>2
  <2>2. /\ store.place \in {"none", "current"} => meta.known = {}
        /\ store.place = "old" =>
             \A c \in NotArchived : home[PreviousHome(c)].auth = OldKey(c)
    OBVIOUS
  <2>q. QED
    BY <2>1, <2>2 DEF Migrated
<1>8. Captures
  BY DEF Captures, FirstLogin, NoLogin, Profiles
<1>9. Agreeing
  BY DEF Agreeing, Switched
<1>q. QED
  BY <1>1, <1>4, <1>5, <1>6, <1>7, <1>8, <1>9 DEF Whole

LEMMA Inductive == Spec => []Whole
<1>1. Init => Whole
  BY InitWhole
<1>2. Whole /\ [Next]_vars => Whole'
  BY WholeStep
<1>q. QED
  BY <1>1, <1>2, PTL DEF Spec

-----------------------------------------------------------------------------
(* The theorems.                                                           *)

\* A finished switch of the active workspace has archived the login it
\* replaced, before anything was written over it (credential.rs:1217), though
\* the operation may have been preceded by failures and deaths of any kind.
THEOREM LoginsArchived == Spec => []SwitchArchivesLogin
<1>1. Whole => SwitchArchivesLogin
  BY DEF Whole, Handed, ReplacedLogin, SwitchArchivesLogin
<1>q. QED
  BY <1>1, Inductive, PTL

\* A re-authorization that succeeds has reached the archive and every home of
\* its channel: those written and those still to do are all of them.
THEOREM KeysReachHomes == Spec => []KeysAgree
<1>1. Whole => KeysAgree
  BY DEF Whole, Base, TypeOK, Operation, Spreading, KeysAgree, ApplyPoints
<1>q. QED
  BY <1>1, Inductive, PTL

\* While the manager serves operations every registered workspace has a
\* profile, the default one from the installation on.
THEOREM ProfilesChosen == Spec => []EveryWorkspaceHasProfile
<1>1. Whole => EveryWorkspaceHasProfile
  BY AuthAssumption DEF Whole, Chosen, EveryWorkspaceHasProfile, Idle, GateOpen,
                        Registered, Profiles
<1>q. QED
  BY <1>1, Inductive, PTL

\* A finished initialization would find nothing to do, whatever files an
\* earlier version and earlier attempts have left.
THEOREM Idempotent == Spec => []PrepareIsIdempotent
<1>1. Whole => PrepareIsIdempotent
  BY DEF Whole, Course, Told, InStep, PrepareIsIdempotent
<1>q. QED
  BY <1>1, Inductive, PTL

\* A finished initialization has every known channel's key in its own archive
\* and the ChatGPT login it found in that of the profile it has created,
\* unless the metadata was imported (credential.rs:1051, 1441).
THEOREM LoginsSurviveUpgrades == Spec => []UpgradeKeepsLogins
<1>1. Whole => UpgradeKeepsLogins
  <2> SUFFICES ASSUME Whole, op.pc = "ok", op.kind = "prepare", ~store.imported
               PROVE  /\ \A c \in meta.known \intersect Channels : archive[c].owner = c
                      /\ FirstLogin => archive[Personal] = op.before.home.auth
    BY DEF UpgradeKeepsLogins, FirstLogin
  <2>1. store.place \in {"none", "current"}
    <3>1. store.place \in {"none", "old", "legacy", "current"}
      BY DEF Whole, Base, TypeOK
    <3>2. FirstStep = "reconcile"
      BY DEF Whole, Course
    <3>3. store.place # "legacy" /\ store.place # "old"
      BY <3>2 DEF FirstStep
    <3>q. QED
      BY <3>1, <3>3
  <2>q. QED
    BY <2>1 DEF Whole, Migrated, Captures
<1>q. QED
  BY <1>1, Inductive, PTL

\* As long as no write has failed, the metadata and the catalog name one
\* profile for the default workspace between operations, however often the
\* process has died.
THEOREM DefaultsAgree == Spec => []DefaultAgrees
<1>1. Whole => DefaultAgrees
  BY DEF Whole, Agreeing, Switched, DefaultAgrees, Idle, GateOpen, ApplyPoints,
         UndoPoints
<1>q. QED
  BY <1>1, Inductive, PTL

-----------------------------------------------------------------------------
(* One failing write.                                                      *)

\* One write has failed at most, nothing has died, and what the metadata was
\* imported from or a re-authorization left halfway is not in the way.
OneFault ==
  /\ faults <= 1 /\ crashes = 0
  /\ ~store.imported /\ "reauthorize" \notin Kinds

\* The home of op.ws is being written: it shows neither profile.
InWork == ApplyPoints \union UndoPoints \union {"undocatalog"}
Flux == {"config", "owner", "meta"} \union UndoPoints
Settled(w) == IF w = op.ws /\ op.pc \in Flux THEN op.saved ELSE home[w]

\* A home shows profile p and has the key of its channel.
Matches(h, p) == Shows(h, p) /\ (p \in Channels => h.auth = archive[p])

\* No re-authorization runs, and nothing is left of an operation that has ended.
Resting == op.kind # "reauthorize" /\ (Idle => op.kind = "prepare")

\* Only known profiles are selected; the key of another is on its way.
Known ==
  /\ \A w \in Workspaces : catalog[w] \in Profiles => catalog[w] \in meta.known
  /\ meta.active \in meta.known \union {NoProfile}
  /\ op.pc = "archive" => op.profile \notin meta.known
  /\ op.pc \in {"finalize", "adopt"} \union ApplyPoints => op.profile \in meta.known
  /\ store.place # "current" => \A w \in Workspaces : catalog[w] = Absent

\* The desktop application uses the active workspace's home, if any, and never
\* one that an operation writes.
Away ==
  /\ desktop \in {NoWorkspace, active}
  /\ catalog[active] = Absent =>
       desktop = NoWorkspace /\ ~initialized /\ ~op.auto /\ ~op.wasRunning
  /\ op.kind = "switch" /\ op.ws = active => desktop = NoWorkspace
  /\ op.kind = "create" => op.ws # active
  /\ op.kind = "install" =>
       /\ op.ws = Default
       /\ op.pc \in {"adopt"} \union ApplyPoints \union UndoPoints => op.auto
       /\ op.auto /\ op.pc \in (InstallPoints \ {"issue"}) \union ApplyPoints \union UndoPoints
            => desktop = NoWorkspace

\* What is saved to restore is what was there; the undo steps follow a failed
\* write, so that none of them fails.
Saved ==
  /\ op.pc \in {"archive", "know"} \union Writing \union UndoPoints => op.savedMeta = meta
  /\ op.pc \in {"checkpoint", "keep", "auth", "undometa"} => home[op.ws] = op.saved
  /\ op.pc = "undoconfig" => home[op.ws].auth = op.saved.auth
  /\ op.pc \in UndoPoints \union {"undocatalog", "clean"} => faults = 1

\* A switch or a creation, until it has succeeded.
Undone ==
  op.kind \in {"switch", "create"} /\ op.pc # "ok" =>
    /\ meta = op.before.meta /\ Settled(op.ws) = op.before.home
    /\ op.pc \notin InWork => catalog[op.ws] = op.before.choice

\* Where a switch and a creation begin.
Origin ==
  /\ op.kind = "switch" =>
       /\ op.current = op.before.choice /\ op.before.choice \in op.before.meta.known
       /\ Matches(op.before.home, op.before.choice)
  /\ op.kind = "create" =>
       /\ op.before.choice = Absent /\ op.before.home = EmptyHome
       /\ \A c \in Channels : old[c] # op.ws

\* What an installation finds when it activates its profile.
Vacant ==
  op.kind = "install" /\ op.auto =>
    /\ op.pc \in {"archive", "know", "finalize"} \union ApplyPoints \union UndoPoints =>
         meta.active = NoProfile
    /\ op.pc \in Writing => op.current = NoProfile

\* The profile on its way to the home, and how far it has come.
Applied ==
  /\ op.pc \in Writing =>
       /\ op.target.owner \in IF op.profile = Personal THEN {Personal, NoProfile}
                              ELSE {op.profile}
       /\ op.profile \in Channels => op.target = archive[op.profile]
  /\ op.pc \in {"config", "owner", "meta"} => home[op.ws].auth = op.target
  /\ op.pc \in {"owner", "meta"} =>
       home[op.ws].config = IF op.profile = Personal THEN "own" ELSE "managed"
  /\ op.pc \in InWork /\ op.kind # "install" => catalog[op.ws] = op.profile
  /\ op.pc = "adopt" => meta.active = op.profile /\ Matches(home[Default], op.profile)

\* The catalog tells the truth about every home but the one in work.
Matching ==
  \A w \in Workspaces :
    catalog[w] \in Profiles /\ ~(w = op.ws /\ op.pc \in InWork)
      => Matches(home[w], catalog[w])

\* The files of ~/.codex go together, and a key in it is that of a known
\* channel, in its archive or about to be migrated there.
Consistent(h) ==
  IF HasKey(h.auth)
  THEN /\ h.config = "managed" /\ h.auth.owner \in meta.known
       /\ \/ archive[h.auth.owner] = h.auth
          \/ /\ store.place \in {"old", "legacy"}
             /\ archive[h.auth.owner] = NoLogin /\ h.auth = OldKey(h.auth.owner)
  ELSE h.config = "own"

DefaultHome ==
  /\ Consistent(Settled(Default))
  /\ meta.active \in Channels => Settled(Default).auth # NoLogin
  /\ meta.active \in Profiles /\ (initialized \/ op.pc = "bootstrap")
       => Matches(Settled(Default), meta.active)
  /\ meta.active = NoProfile => catalog[Default] \in {Absent, NoProfile}

\* The homes of an earlier version, until they are imported.
LeftHomes ==
  \A c \in Channels :
    old[c] # NoWorkspace =>
      /\ c \in meta.known /\ old[c] # Default
      /\ \A d \in Channels : old[d] = old[c] => c = d
      /\ catalog[old[c]] = Absent =>
           /\ ~initialized /\ home[old[c]] = HomeOf(OldKey(c))
           /\ archive[c] \in {OldKey(c), NoLogin}

\* No key and no foreign choice of the provider reaches the ChatGPT profile.
Pure ==
  /\ archive[Personal].owner \in {Personal, NoProfile}
  /\ kept \in {"none", "own"}
  /\ op.pc = "keep" => op.kind = "switch" /\ op.current = Personal
  /\ op.pc = "snapshot" /\ op.target # NoLogin => home[Default].config = "own"

Sound ==
  /\ Resting /\ Known /\ Away /\ Saved /\ Undone /\ Origin /\ Vacant /\ Applied
  /\ Matching /\ DefaultHome /\ LeftHomes /\ Pure

\* The steps that are left: the undo steps do not fail, since a write has.
Sifted ==
  \/ BeginPrepare
  \/ \E c \in Channels : BeginInstall(c)
  \/ \E w \in Workspaces, p \in Profiles : BeginSwitch(w, p) \/ BeginCreate(w, p)
  \/ \E w \in Workspaces : Activate(w)
  \/ Launch
  \/ LoadTarget \/ Checkpoint \/ CheckpointFails \/ KeepConfig \/ WriteAuth
  \/ WriteConfig \/ MarkOwner \/ CommitMeta \/ ApplyFails
  \/ UndoAuth \/ UndoConfig \/ UndoMeta
  \/ Select \/ SelectFails \/ UndoCatalog \/ RemoveHome
  \/ MigrateKey \/ SaveVersion \/ Capture \/ Snapshot \/ SaveProfiles
  \/ Reconcile \/ Bootstrap \/ InitializeFails
  \/ Issue \/ IssueFails \/ ArchiveKey \/ Know \/ Finalize \/ Adopt \/ InstallFails
  \/ Finish \/ DesktopLogin \/ UNCHANGED vars

-----------------------------------------------------------------------------
(* What the steps do in such states.                                       *)

LEMMA Sorts ==
  ASSUME Whole
  PROVE  /\ op \in Operation /\ meta \in Metadata
         /\ archive \in [Profiles -> Login] /\ home \in [Workspaces -> Home]
         /\ catalog \in [Workspaces -> Profiles \union {NoProfile, Absent}]
         /\ active \in Workspaces /\ desktop \in Workspaces \union {NoWorkspace}
         /\ initialized \in BOOLEAN /\ faults \in Nat /\ crashes \in Nat
         /\ store \in [place: {"none", "old", "legacy", "current"}, imported: BOOLEAN]
         /\ old \in [Channels -> Workspaces \union {NoWorkspace}]
BY DEF Whole, Base, TypeOK

\* What OneFault asks for is true of a state if it is of the next.
LEMMA Earlier ==
  ASSUME Whole, [Next]_vars, OneFault'
  PROVE  OneFault
<1> DEFINE Counted == /\ faults' = faults \/ faults' = faults + 1
                      /\ crashes' = crashes \/ crashes' = crashes + 1
                      /\ store'.imported \/ store'.imported = store.imported
<1> USE DEF files, upgrade, outside, Fails
<1>t. /\ faults \in Nat /\ crashes \in Nat
      /\ store \in [place: {"none", "old", "legacy", "current"}, imported: BOOLEAN]
  BY Sorts
<1>1. Request => Counted
  BY DEF Request, BeginPrepare, BeginInstall, BeginReauthorize, BeginSwitch,
     SwitchFrom, BeginCreate, Activate, Launch
<1>2. Apply => Counted
  BY DEF Apply, LoadTarget, Checkpoint, CheckpointFails, KeepConfig,
     WriteAuth, WriteConfig, MarkOwner, CommitMeta, ApplyFails, UndoAuth,
     UndoConfig, UndoMeta, UndoFails
<1>3. (Switching \/ Reauthorizing) => Counted
  BY DEF Switching, Select, SelectFails, UndoCatalog, RemoveHome,
     UndoCatalogFails, Reauthorizing, Rearchive, Resync, Resave, ResaveFor,
     Refresh, ReauthorizeFails
<1>4. Initializing => Counted
  BY <1>t DEF Initializing, Import, MigrateKey, SaveVersion, Capture,
     Snapshot, SaveProfiles, Reconcile, Bootstrap, InitializeFails
<1>5. Installing => Counted
  BY DEF Installing, Issue, IssueFails, ArchiveKey, Know, Finalize, Adopt,
     InstallFails
<1>6. (Finish \/ DesktopLogin \/ Crash \/ UNCHANGED vars) => Counted
  BY DEF Finish, DesktopLogin, Crash, vars
<1>7. Counted
  BY <1>1, <1>2, <1>3, <1>4, <1>5, <1>6 DEF Next, Step
<1>q. QED
  BY <1>t, <1>7 DEF OneFault

\* The next step is none of an import, a death, a re-authorization or a failing
\* undo.
LEMMA Sifts ==
  ASSUME Whole, Sound, OneFault, OneFault', [Next]_vars
  PROVE  Sifted
<1> USE DEF OneFault, Sound, Goto
<1>t. /\ op \in Operation /\ faults \in Nat /\ crashes \in Nat
      /\ op.kind # "reauthorize"
      /\ op.pc \in UndoPoints \union {"undocatalog", "clean"} => faults = 1
      /\ op.pc \in ReauthorizePoints => op.kind = "reauthorize"
  BY Sorts DEF Resting, Saved, Whole, Base, Placed
<1>1. ~Import
  BY Importing, Sorts DEF Import
<1>2. ~Crash
  BY <1>t DEF Crash
<1>3. ~Reauthorizing
  <2>1. Reauthorizing => op.pc \in ReauthorizePoints
    BY DEF Reauthorizing, Rearchive, Resync, Resave, ResaveFor, Refresh,
       ReauthorizeFails, Fails, ReauthorizePoints
  <2>q. QED
    BY <1>t, <2>1
<1>4. \A c \in Channels : ~BeginReauthorize(c)
  BY DEF BeginReauthorize
<1>5. ~UndoFails /\ ~UndoCatalogFails
  BY <1>t DEF UndoFails, UndoCatalogFails, Fails, UndoPoints
<1>q. QED
  BY <1>1, <1>2, <1>3, <1>4, <1>5 DEF Sifted, Next, Request, Step, Apply,
     Switching, Initializing, Installing

\* The desktop application does not use a home that an operation writes.
LEMMA Unseen ==
  ASSUME Whole, Sound
  PROVE  op.pc \in InWork \union {"adopt"} \/ op.kind \in {"switch", "create"}
           => desktop # op.ws
<1> USE DEF Whole, Base, Placed, Sound, Resting, Away, InWork, ApplyPoints,
        UndoPoints, InstallPoints
<1>t. op.ws \in Workspaces /\ op.kind \in AllKinds /\ NoWorkspace \notin Workspaces
  BY AuthAssumption, Sorts DEF Operation
<1>1. CASE op.kind \in {"switch", "create"}
  BY <1>1, <1>t
<1>2. CASE op.kind \notin {"switch", "create"} /\ op.pc \in InWork \union {"adopt"}
  <2>1. op.kind = "install" /\ op.auto
    BY <1>2, <1>t DEF AllKinds
  <2>q. QED
    BY <1>2, <2>1, <1>t
<1>q. QED
  BY <1>1, <1>2

\* What requests start.
LEMMA Begun ==
  /\ \A w \in Workspaces, p \in Profiles : BeginSwitch(w, p) =>
       /\ op'.kind = "switch" /\ op'.pc = "select" /\ op'.ws = w
       /\ op'.profile = p /\ op'.current = catalog[w] /\ ~op'.auto
       /\ op'.before.home = home[w] /\ op'.before.choice = catalog[w]
       /\ op'.before.meta = meta
       /\ Idle /\ initialized /\ setup = "succeeded" /\ catalog[w] # Absent
       /\ desktop' = IF active = w THEN NoWorkspace ELSE desktop
       /\ UNCHANGED <<files, initialized, setup, logins, keys, crashes, faults>>
  /\ \A w \in Workspaces, p \in Profiles : BeginCreate(w, p) =>
       /\ op'.kind = "create" /\ op'.pc = "register" /\ op'.ws = w
       /\ op'.profile = p /\ ~op'.auto
       /\ op'.before.home = home[w] /\ op'.before.choice = catalog[w]
       /\ op'.before.meta = meta
       /\ Idle /\ initialized /\ catalog[w] = Absent /\ home[w] = EmptyHome
       /\ UNCHANGED <<files, outside, faults>>
<1> USE DEF Start, NoOp, GateOpen, Registered, StopDesktopIf
<1>1. ASSUME NEW w \in Workspaces, NEW p \in Profiles, BeginSwitch(w, p)
      PROVE  /\ op'.kind = "switch" /\ op'.pc = "select" /\ op'.ws = w
             /\ op'.profile = p /\ op'.current = catalog[w] /\ ~op'.auto
             /\ op'.before.home = home[w] /\ op'.before.choice = catalog[w]
             /\ op'.before.meta = meta
             /\ Idle /\ initialized /\ setup = "succeeded" /\ catalog[w] # Absent
             /\ desktop' = IF active = w THEN NoWorkspace ELSE desktop
             /\ UNCHANGED <<files, initialized, setup, logins, keys, crashes, faults>>
  BY <1>1 DEF BeginSwitch, SwitchFrom
<1>2. ASSUME NEW w \in Workspaces, NEW p \in Profiles, BeginCreate(w, p)
      PROVE  /\ op'.kind = "create" /\ op'.pc = "register" /\ op'.ws = w
             /\ op'.profile = p /\ ~op'.auto
             /\ op'.before.home = home[w] /\ op'.before.choice = catalog[w]
             /\ op'.before.meta = meta
             /\ Idle /\ initialized /\ catalog[w] = Absent /\ home[w] = EmptyHome
             /\ UNCHANGED <<files, outside, faults>>
  BY <1>2 DEF BeginCreate
<1>q. QED
  BY <1>1, <1>2

\* Once a channel is known its archive has its key, and the archive of the
\* ChatGPT profile has no key.
LEMMA Archived ==
  ASSUME Whole, Sound, OneFault
  PROVE  /\ \A c \in Channels : archive[c] = NoLogin \/ archive[c].owner = c
         /\ store.place \in {"none", "current"} =>
              \A c \in meta.known \intersect Channels : archive[c].owner = c
         /\ archive[Personal].owner \in {Personal, NoProfile}
         /\ initialized \/ op.pc \notin InitPoints \union Between
              => store.place \in {"none", "current"}
<1>1. store.place \in {"none", "old", "legacy", "current"}
  BY DEF Whole, Base, TypeOK
<1>2. op.pc \notin InitPoints \union Between => initialized
  BY DEF Whole, Ready
<1>3. initialized => store.place = "current"
  BY DEF Whole, Untouched
<1>q. QED
  BY <1>1, <1>2, <1>3 DEF Whole, Migrated, Sound, Pure, OneFault

\* The target can always be loaded.
LEMMA Loaded ==
  ASSUME Whole, Sound, OneFault, LoadTarget
  PROVE  /\ op.pc = "load" /\ op'.pc = "checkpoint" /\ op'.kind = op.kind
         /\ op'.ws = op.ws /\ op'.profile = op.profile
         /\ op'.checkpoint = op.checkpoint /\ op'.before = op.before
         /\ op'.auto = op.auto /\ op'.wasRunning = op.wasRunning
         /\ op'.target = archive[op.profile] /\ op'.saved = home[op.ws]
         /\ op'.savedMeta = meta
         /\ op'.current = IF op.kind = "install" THEN meta.active ELSE op.current
         /\ op'.target.owner \in IF op.profile = Personal THEN {Personal, NoProfile}
                                 ELSE {op.profile}
         /\ UNCHANGED <<files, outside, faults>>
<1> DEFINE p == op.profile
           valid == /\ p \in meta.known
                    /\ archive[p] = NoLogin => p = Personal
                    /\ archive[p] # NoLogin => Usable(archive[p], p)
           current == IF op.kind = "install" THEN meta.active ELSE op.current
<1>t. op \in Operation /\ meta \in Metadata /\ archive \in [Profiles -> Login]
  BY Sorts
<1>1. op.pc = "load" /\ p \in meta.known /\ p \in Profiles
  BY <1>t DEF LoadTarget, Sound, Known, ApplyPoints, Goto, Metadata
<1>2. store.place \in {"none", "current"}
  BY <1>1, Archived DEF InitPoints, Between
<1>3. p \in Channels => archive[p].owner = p
  BY <1>1, <1>2, Archived
<1>4. archive[p].owner \in IF p = Personal THEN {Personal, NoProfile} ELSE {p}
  BY <1>1, <1>3, Archived DEF Profiles
<1>5. valid
  BY <1>1, <1>3, AuthAssumption DEF Usable, HasKey, NoLogin, Profiles
<1>6. /\ op' = [op EXCEPT !.pc = "checkpoint", !.target = archive[p],
                          !.saved = home[op.ws], !.savedMeta = meta,
                          !.current = current]
      /\ UNCHANGED <<files, outside, faults>>
  BY <1>5 DEF LoadTarget
<1> HIDE DEF current, valid
<1>q. QED
  BY <1>1, <1>4, <1>6, <1>t DEF Operation, current

\* A checkpoint finds the login of the profile it is archived for.
LEMMA Checked ==
  ASSUME Whole, Sound, OneFault, Checkpoint
  PROVE  /\ op.pc = "checkpoint" /\ op' = [op EXCEPT !.pc = op'.pc]
         /\ op'.pc \in {"auth", "keep"}
         /\ op'.pc = "keep" => op.kind = "switch" /\ op.current = Personal
         /\ \A c \in Channels : archive'[c] = archive[c]
         /\ archive'[Personal].owner \in {Personal, NoProfile}
         /\ UNCHANGED <<kept, home, catalog, active, meta, upgrade, outside, faults>>
<1> DEFINE login == home[op.ws].auth
<1>t. op \in Operation /\ meta \in Metadata /\ archive \in [Profiles -> Login]
  BY Sorts
<1>1. op.pc = "checkpoint"
  BY DEF Checkpoint
<1>2. ASSUME Archivable
      PROVE  /\ op.kind = "switch" /\ op.current \in Profiles
             /\ Matches(home[op.ws], op.current)
  <2>1. op.current \in Profiles /\ op.checkpoint
    BY <1>2, <1>t DEF Archivable, Metadata
  <2>2. op.kind \notin {"prepare", "create", "reauthorize"}
    BY <1>1, <2>1 DEF Whole, Base, Placed, ApplyPoints, Sound, Resting
  <2>3. op.kind # "install"
    BY <1>1, <2>1, AuthAssumption DEF Sound, Away, Vacant, Writing, ApplyPoints
  <2>4. op.kind = "switch"
    BY <2>2, <2>3, <1>t DEF Operation, AllKinds
  <2>5. home[op.ws] = op.before.home
    BY <1>1, <2>4 DEF Sound, Undone, Settled, Flux, UndoPoints
  <2>q. QED
    BY <2>1, <2>4, <2>5 DEF Sound, Origin
<1>3. Archivable => Fits(login)
  BY <1>2, AuthAssumption DEF Matches, Shows, Fits, Usable, HasKey, NoLogin, Profiles
<1>4. \/ op'.pc = "auth" /\ ~Archivable /\ UNCHANGED archive
      \/ /\ op'.pc = IF op.current = Personal THEN "keep" ELSE "auth"
         /\ Archivable
         /\ archive' = IF login = NoLogin THEN archive
                       ELSE [archive EXCEPT ![op.current] = login]
  BY <1>3, <1>t DEF Checkpoint, Goto, Operation
<1>5. /\ op' = [op EXCEPT !.pc = op'.pc]
      /\ UNCHANGED <<kept, home, catalog, active, meta, upgrade, outside, faults>>
  BY Checkpointing, <1>t
<1> HIDE DEF login
<1>6. archive[Personal].owner \in {Personal, NoProfile}
  BY DEF Sound, Pure
<1>7. CASE UNCHANGED archive
  BY <1>1, <1>2, <1>4, <1>5, <1>6, <1>7
<1>8. CASE /\ op'.pc = IF op.current = Personal THEN "keep" ELSE "auth"
           /\ Archivable /\ archive' = [archive EXCEPT ![op.current] = login]
  <2>1. op.current \in Channels => archive[op.current] = login
    BY <1>2, <1>8 DEF Matches, login
  <2>2. op.current = Personal => login.owner \in {Personal, NoProfile}
    BY <1>2, <1>8 DEF Matches, Shows, login
  <2>q. QED
    BY <1>1, <1>2, <1>5, <1>6, <1>8, <2>1, <2>2, <1>t, AuthAssumption DEF Profiles
<1>q. QED
  BY <1>4, <1>7, <1>8

\* The metadata names the profile whose files are complete.
LEMMA Committed ==
  ASSUME Whole, Sound, OneFault, CommitMeta
  PROVE  /\ op.pc = "meta" /\ op' = [op EXCEPT !.pc = op'.pc]
         /\ op'.pc = IF op.kind = "install" THEN "adopt" ELSE "ok"
         /\ op.profile \in Profiles
         /\ meta'.known = meta.known
         /\ meta'.active = IF op.ws = Default THEN op.profile ELSE meta.active
         /\ Matches(home[op.ws], op.profile)
         /\ UNCHANGED <<archive, kept, home, catalog, active, upgrade, outside,
                        faults>>
<1>t. op \in Operation /\ meta \in Metadata
  BY Sorts
<1>1. op.pc = "meta" /\ op.kind # "reauthorize"
  BY DEF CommitMeta, Goto, Sound, Resting
<1>2. op.profile \in meta.known
  BY <1>1 DEF Sound, Known, ApplyPoints
<1>3. Matches(home[op.ws], op.profile)
  BY <1>1 DEF Sound, Applied, Writing, ApplyPoints, Matches, Shows
<1>q. QED
  BY <1>1, <1>2, <1>3, <1>t
     DEF CommitMeta, Goto, AfterApply, MetaWith, Metadata, Operation

\* The migration finds the key of an earlier version.
LEMMA Migrating ==
  ASSUME Whole, OneFault, MigrateKey
  PROVE  /\ op.pc = "migrate" /\ store.place = "old" /\ ~initialized
         /\ \E c \in meta.known \intersect Channels :
              archive[c] = NoLogin /\ archive' = [archive EXCEPT ![c] = OldKey(c)]
         /\ UNCHANGED <<kept, home, catalog, active, meta, upgrade, op, outside,
                        faults>>
<1>1. op.pc = "migrate" /\ store.place = "old" /\ ~initialized
  BY DEF MigrateKey, Whole, Course, InitPoints
<1>2. \A c \in NotArchived : home[PreviousHome(c)].auth = OldKey(c)
  BY <1>1 DEF Whole, Migrated, OneFault
<1>q. QED
  BY <1>1, <1>2 DEF MigrateKey, NotArchived

\* The new version is recorded when every known channel has its key.
LEMMA Versioned ==
  ASSUME Whole, OneFault, SaveVersion
  PROVE  /\ op.pc = "migrate" /\ ~initialized /\ store.place = "old"
         /\ op' = [op EXCEPT !.pc = op'.pc]
         /\ op'.pc \in {"capture", "reconcile"}
         /\ \A c \in meta.known \intersect Channels : archive[c] # NoLogin
         /\ store'.place = "current" /\ UNCHANGED old
         /\ UNCHANGED <<archive, kept, home, catalog, active, meta, outside, faults>>
<1>1. op.pc = "migrate" /\ store.place = "old" /\ ~initialized
  BY DEF SaveVersion, Goto, Whole, Course, InitPoints
<1>2. \A c \in NotArchived : home[PreviousHome(c)].auth = OldKey(c)
  BY <1>1 DEF Whole, Migrated, OneFault
<1>3. \A c \in Channels : OldKey(c) # NoLogin
  BY AuthAssumption DEF OldKey, Key, NoLogin, Profiles
<1>4. \A c \in meta.known \intersect Channels : archive[c] # NoLogin
  BY <1>2, <1>3 DEF SaveVersion, NotArchived
<1>q. QED
  BY <1>1, <1>4, Sorts DEF SaveVersion, Goto, FromBootstrap, Operation

\* What the catalog becomes.
LEMMA Booted ==
  ASSUME Whole, Bootstrap
  PROVE  /\ op.pc = "bootstrap" /\ op' = [op EXCEPT !.pc = op'.pc]
         /\ op'.pc \in {"issue", "ok"} /\ initialized'
         /\ catalog'[Default] = IF meta.active = NoProfile /\ catalog[Default] # Absent
                                THEN catalog[Default] ELSE meta.active
         /\ catalog'[Default] # Absent
         /\ \A w \in Workspaces \ {Default} :
              \/ catalog'[w] = catalog[w] /\ \A c \in meta.known \intersect Channels :
                                               old[c] = w => catalog[w] # Absent
              \/ /\ catalog[w] = Absent /\ catalog'[w] \in Channels
                 /\ old[catalog'[w]] = w
         /\ active' = IF catalog'[active] = Absent THEN Default ELSE active
         /\ UNCHANGED <<archive, kept, home, meta, upgrade, desktop, logins, keys,
                        crashes, faults>>
<1>t. op \in Operation /\ meta \in Metadata /\ active \in Workspaces
  BY Sorts
<1>1. catalog' = Catalogued /\ Catalogued \in [Workspaces -> {Catalogued[w] : w \in Workspaces}]
  BY DEF Bootstrap, Catalogued
<1>2. Catalogued[Default] = IF meta.active = NoProfile /\ catalog[Default] # Absent
                            THEN catalog[Default] ELSE meta.active
  BY AuthAssumption DEF Catalogued
<1>3. ASSUME NEW w \in Workspaces \ {Default}
      PROVE  \/ Catalogued[w] = catalog[w] /\ \A c \in meta.known \intersect Channels :
                                                old[c] = w => catalog[w] # Absent
             \/ /\ catalog[w] = Absent /\ Catalogued[w] \in Channels
                /\ old[Catalogued[w]] = w
  <2>1. CASE Imported(w)
    BY <2>1 DEF Catalogued, Imported
  <2>2. CASE ~Imported(w)
    BY <2>2 DEF Catalogued, Imported
  <2>q. QED
    BY <2>1, <2>2
<1>4. Catalogued[Default] # Absent
  BY <1>2, <1>t, AuthAssumption DEF Metadata
<1>q. QED
  BY <1>1, <1>2, <1>3, <1>4, <1>t DEF Bootstrap, Goto, Operation

\* The end of an operation.
LEMMA Finished ==
  ASSUME Finish
  PROVE  /\ op.pc \in {"ok", "failed"}
         /\ op'.pc = "idle" /\ op'.kind = "prepare" /\ op'.ws = Default
         /\ ~op'.auto /\ ~op'.wasRunning /\ ~op'.checkpoint
         /\ desktop' = desktop \/ (desktop' = active /\ (op.wasRunning \/ op.auto))
         /\ UNCHANGED <<files, initialized, logins, keys, crashes, faults>>
BY DEF Finish, NoOp

\* The reconciled metadata names the profile the files of ~/.codex are those of.
LEMMA Reconciled ==
  ASSUME Whole, Sound, OneFault, Reconcile
  PROVE  /\ op.pc = "reconcile" /\ op' = [op EXCEPT !.pc = "bootstrap"]
         /\ op'.pc = "bootstrap" /\ op'.kind = op.kind
         /\ meta'.known = meta.known
         /\ meta'.active = meta.active \/ meta'.active \in meta.known
         /\ meta'.active \in Profiles => Matches(home[Default], meta'.active)
         /\ UNCHANGED <<archive, kept, home, catalog, active, upgrade, outside,
                        faults>>
<1> DEFINE live == home[Default].auth
           owners == {c \in meta.known \intersect Channels :
                        HasKey(live) /\ archive[c] = live}
<1>t. /\ op \in Operation /\ meta \in Metadata /\ home[Default] \in Home
      /\ live \in Login
  BY Sorts, Logins, AuthAssumption
<1>1. op.pc = "reconcile" /\ op' = [op EXCEPT !.pc = "bootstrap"]
  BY DEF Reconcile, Goto
<1>2. /\ Consistent(home[Default])
      /\ meta.active \in Channels => live # NoLogin
  BY <1>1 DEF Sound, DefaultHome, Settled, Flux, UndoPoints
<1>3. Personal \in meta.known /\ meta.known \subseteq Profiles
  BY <1>1, <1>t DEF Whole, Ready, Metadata
<1>4. store.place \in {"none", "current"}
  <2>1. store.place \in {"none", "old", "legacy", "current"}
    BY DEF Whole, Base, TypeOK
  <2>q. QED
    BY <1>1, <2>1 DEF Whole, Course, InitPoints
<1>5. \A c \in meta.known \intersect Channels : archive[c].owner = c
  BY <1>4, Archived
<1>6. CASE HasKey(live)
  <2>1. /\ home[Default].config = "managed" /\ live.owner \in meta.known \intersect Channels
        /\ archive[live.owner] = live
    BY <1>2, <1>4, <1>6 DEF Consistent, HasKey
  <2>2. owners = {live.owner}
    BY <1>5, <1>6, <2>1
  <2>3. Shown = {live.owner}
    BY <2>1, <2>2, Zenon DEF Shown
  <2>4. meta' = [meta EXCEPT !.active = live.owner]
    BY <2>3 DEF Reconcile
  <2>5. Matches(home[Default], live.owner)
    BY <2>1, AuthAssumption DEF Matches, Shows
  <2>q. QED
    BY <1>1, <1>t, <2>1, <2>4, <2>5 DEF Reconcile, Metadata, Operation
<1>7. CASE ~HasKey(live)
  <2>1. home[Default].config = "own" /\ owners = {}
    BY <1>2, <1>7 DEF Consistent
  <2>2. live.owner \in {Personal, NoProfile}
    BY <1>7, <1>t DEF Login, HasKey, Profiles
  <2>3. Matches(home[Default], Personal)
    BY <2>1, <2>2, AuthAssumption DEF Matches, Shows
  <2>4. Shown = IF live # NoLogin THEN {Personal} ELSE {}
    BY <1>3, <2>1, Zenon DEF Shown
  <2>5. \/ meta' = [meta EXCEPT !.active = Personal]
        \/ live = NoLogin /\ meta' = meta
    BY <2>4 DEF Reconcile
  <2>6. meta'.active \in Profiles => meta'.active = Personal
    BY <1>2, <1>t, <2>5 DEF Metadata, Profiles
  <2>7. /\ meta'.known = meta.known
        /\ meta'.active = meta.active \/ meta'.active = Personal
    BY <1>t, <2>5 DEF Metadata
  <2>q. QED
    BY <1>1, <1>3, <1>t, <2>3, <2>6, <2>7 DEF Reconcile, Operation
<1>q. QED
  BY <1>6, <1>7

\* A key is issued for an unknown profile; the application is stopped if the
\* profile will be activated.
LEMMA Issued ==
  ASSUME Whole, Issue
  PROVE  /\ op.pc = "issue" /\ op'.kind = op.kind /\ op'.profile = op.profile
         /\ op'.ws = op.ws /\ op'.before = op.before /\ op'.wasRunning = op.wasRunning
         /\ op'.savedMeta = meta /\ op'.pc \in {"know", "archive"}
         /\ op'.auto <=> meta.active = NoProfile
         /\ op'.pc = "archive" => op.profile \notin meta.known
         /\ desktop' = IF meta.active = NoProfile THEN NoWorkspace ELSE desktop
         /\ UNCHANGED <<files, initialized, setup, logins, crashes, faults>>
<1> DEFINE auto == meta.active = NoProfile
<1>t. op \in Operation
  BY Sorts
<1>1. /\ op.pc = "issue" /\ desktop' = IF auto THEN NoWorkspace ELSE desktop
      /\ UNCHANGED <<files, initialized, setup, logins, crashes, faults>>
  BY DEF Issue
<1>2. \/ op' = [op EXCEPT !.pc = "know", !.auto = auto, !.savedMeta = meta]
      \/ /\ op.profile \notin meta.known
         /\ op' = [op EXCEPT !.pc = "archive", !.auto = auto, !.savedMeta = meta,
                             !.key = Key(op.profile, keys + 1)]
  BY DEF Issue
<1>3. op'.auto = auto
  BY <1>2, <1>t DEF Operation
<1>4. op'.auto <=> meta.active = NoProfile
  BY <1>3
<1> HIDE DEF auto
<1>5. CASE op' = [op EXCEPT !.pc = "know", !.auto = auto, !.savedMeta = meta]
  BY <1>1, <1>4, <1>5, <1>t DEF Operation, auto
<1>6. CASE /\ op.profile \notin meta.known
           /\ op' = [op EXCEPT !.pc = "archive", !.auto = auto, !.savedMeta = meta,
                               !.key = Key(op.profile, keys + 1)]
  BY <1>1, <1>4, <1>6, <1>t DEF Operation, auto
<1>q. QED
  BY <1>2, <1>5, <1>6

\* What keeps the default home as it was keeps what is said of it.
LEMMA SameHome ==
  ASSUME Whole, Sound, Settled(Default)' = Settled(Default),
         \A c \in meta.known \intersect Channels : archive'[c] = archive[c],
         UNCHANGED <<store, meta>>,
         catalog'[Default] = catalog[Default] \/ meta.active # NoProfile,
         initialized' \/ op'.pc = "bootstrap" => initialized \/ op.pc = "bootstrap"
  PROVE  DefaultHome'
<1>1. PICK h : h = Settled(Default) /\ h = Settled(Default)'
  OBVIOUS
<1>2. /\ Consistent(h)
      /\ meta.active \in Channels => h.auth # NoLogin
      /\ meta.active \in Profiles /\ (initialized \/ op.pc = "bootstrap")
           => Matches(h, meta.active)
      /\ meta.active = NoProfile => catalog[Default] \in {Absent, NoProfile}
      /\ meta.active \in meta.known \union {NoProfile}
  BY <1>1 DEF Sound, DefaultHome, Known
<1>3. Consistent(Settled(Default))'
  BY <1>1, <1>2 DEF Consistent, HasKey
<1>4. Matches(h, meta.active) => Matches(Settled(Default), meta.active)'
  BY <1>1, <1>2, AuthAssumption DEF Matches, Shows, Profiles
<1>q. QED
  BY <1>1, <1>2, <1>3, <1>4 DEF DefaultHome

-----------------------------------------------------------------------------
(* Every step keeps it.                                                    *)

LEMMA RestingStep ==
  ASSUME Whole, Sound, OneFault, OneFault', [Next]_vars
  PROVE  Resting'
<1> USE AuthAssumption DEF Resting, Idle, Operation, Placed, InitPoints,
        InstallPoints, Goto, Fails, files, upgrade, outside, ApplyPoints,
        UndoPoints
<1>t. /\ op \in Operation
  BY Sorts
<1>s. Sifted
  BY Sifts
<1>i. Resting /\ Placed
  BY DEF Sound, Whole, Base
<1>1. CASE BeginPrepare
  BY <1>1, <1>i, <1>t, Starts DEF BeginPrepare, FirstStep, FromBootstrap, Idle
<1>2. ASSUME NEW c \in Channels, BeginInstall(c) PROVE Resting'
  BY <1>2, <1>i, <1>t, Starts DEF BeginInstall, FirstStep, FromBootstrap, Idle
<1>3. ASSUME NEW w \in Workspaces, NEW p \in Profiles, BeginSwitch(w, p)
      PROVE  Resting'
  BY <1>3, <1>i, <1>t, Begun DEF Idle
<1>4. ASSUME NEW w \in Workspaces, NEW p \in Profiles, BeginCreate(w, p)
      PROVE  Resting'
  BY <1>4, <1>i, <1>t, Begun DEF Idle
<1>5. ASSUME NEW w \in Workspaces, Activate(w) PROVE Resting'
  BY <1>5, <1>i, <1>t DEF Activate, GateOpen, Registered, Idle
<1>6. CASE Launch
  BY <1>6, <1>i, <1>t DEF Launch, GateOpen, Idle
<1>7. CASE LoadTarget
  BY <1>7, <1>i, <1>t, Loaded
<1>8. CASE Checkpoint
  BY <1>8, <1>i, <1>t, Checked
<1>9. CASE CheckpointFails
  BY <1>9, <1>i, <1>t DEF CheckpointFails
<1>10. CASE KeepConfig
  BY <1>10, <1>i, <1>t DEF KeepConfig
<1>11. CASE WriteAuth
  BY <1>11, <1>i, <1>t DEF WriteAuth
<1>12. CASE WriteConfig
  BY <1>12, <1>i, <1>t DEF WriteConfig
<1>13. CASE MarkOwner
  BY <1>13, <1>i, <1>t DEF MarkOwner
<1>14. CASE CommitMeta
  BY <1>14, <1>i, <1>t, Committed
<1>15. CASE ApplyFails
  BY <1>15, <1>i, <1>t DEF ApplyFails
<1>16. CASE UndoAuth
  BY <1>16, <1>i, <1>t DEF UndoAuth
<1>17. CASE UndoConfig
  BY <1>17, <1>i, <1>t DEF UndoConfig
<1>18. CASE UndoMeta
  BY <1>18, <1>i, <1>t DEF UndoMeta, AfterError
<1>19. CASE Select
  BY <1>19, <1>i, <1>t DEF Select, Activatable
<1>20. CASE SelectFails
  BY <1>20, <1>i, <1>t DEF SelectFails
<1>21. CASE UndoCatalog
  BY <1>21, <1>i, <1>t DEF UndoCatalog
<1>22. CASE RemoveHome
  BY <1>22, <1>i, <1>t DEF RemoveHome
<1>23. CASE MigrateKey
  BY <1>23, <1>i, <1>t, Migrating
<1>24. CASE SaveVersion
  BY <1>24, <1>i, <1>t, Versioned
<1>25. CASE Capture
  BY <1>25, <1>i, <1>t DEF Capture
<1>26. CASE Snapshot
  BY <1>26, <1>i, <1>t DEF Snapshot
<1>27. CASE SaveProfiles
  BY <1>27, <1>i, <1>t DEF SaveProfiles
<1>28. CASE Reconcile
  BY <1>28, <1>i, <1>t, Reconciled
<1>29. CASE Bootstrap
  BY <1>29, <1>i, <1>t, Booted
<1>30. CASE InitializeFails
  BY <1>30, <1>i, <1>t DEF InitializeFails
<1>31. CASE Issue
  BY <1>31, <1>i, <1>t, Issued
<1>32. CASE IssueFails
  BY <1>32, <1>i, <1>t DEF IssueFails
<1>33. CASE ArchiveKey
  BY <1>33, <1>i, <1>t DEF ArchiveKey
<1>34. CASE Know
  BY <1>34, <1>i, <1>t DEF Know
<1>35. CASE Finalize
  BY <1>35, <1>i, <1>t DEF Finalize
<1>36. CASE Adopt
  BY <1>36, <1>i, <1>t DEF Adopt
<1>37. CASE InstallFails
  BY <1>37, <1>i, <1>t DEF InstallFails
<1>38. CASE Finish
  BY <1>38, <1>i, <1>t, Finished
<1>39. CASE DesktopLogin
  BY <1>39, <1>i, <1>t, Unseen DEF DesktopLogin
<1>40. CASE UNCHANGED vars
  BY <1>40, <1>i, <1>t DEF vars
<1>q. QED
  BY <1>s, <1>1, <1>2, <1>3, <1>4, <1>5, <1>6, <1>7, <1>8, <1>9, <1>10, <1>11,
     <1>12, <1>13, <1>14, <1>15, <1>16, <1>17, <1>18, <1>19, <1>20, <1>21,
     <1>22, <1>23, <1>24, <1>25, <1>26, <1>27, <1>28, <1>29, <1>30, <1>31,
     <1>32, <1>33, <1>34, <1>35, <1>36, <1>37, <1>38, <1>39, <1>40 DEF Sifted
LEMMA KnownStep ==
  ASSUME Whole, Sound, OneFault, OneFault', [Next]_vars
  PROVE  Known'
<1> USE AuthAssumption DEF Known, Operation, Placed, Metadata, Goto, Fails,
        files, upgrade, outside, InitPoints, InstallPoints, ApplyPoints
<1>t. /\ op \in Operation
      /\ meta \in Metadata
      /\ catalog \in [Workspaces -> Profiles \union {NoProfile, Absent}]
      /\ store \in [place: {"none", "old", "legacy", "current"}, imported: BOOLEAN]
  BY Sorts
<1>s. Sifted
  BY Sifts
<1>i. Known /\ Placed /\ Saved /\ Undone /\ Origin /\ Course /\ LeftHomes /\ Untouched /\ Ready
  BY DEF Sound, Whole, Base
<1>1. CASE BeginPrepare
  BY <1>1, <1>i, <1>t, Starts DEF BeginPrepare, FirstStep, FromBootstrap, Idle
<1>2. ASSUME NEW c \in Channels, BeginInstall(c) PROVE Known'
  BY <1>2, <1>i, <1>t, Starts DEF BeginInstall, FirstStep, FromBootstrap, Idle
<1>3. ASSUME NEW w \in Workspaces, NEW p \in Profiles, BeginSwitch(w, p)
      PROVE  Known'
  BY <1>3, <1>i, <1>t, Begun DEF Idle
<1>4. ASSUME NEW w \in Workspaces, NEW p \in Profiles, BeginCreate(w, p)
      PROVE  Known'
  BY <1>4, <1>i, <1>t, Begun DEF Idle
<1>5. ASSUME NEW w \in Workspaces, Activate(w) PROVE Known'
  BY <1>5, <1>i, <1>t DEF Activate, GateOpen, Registered, Idle
<1>6. CASE Launch
  BY <1>6, <1>i, <1>t DEF Launch, GateOpen, Idle
<1>7. CASE LoadTarget
  BY <1>7, <1>i, <1>t, Loaded
<1>8. CASE Checkpoint
  BY <1>8, <1>i, <1>t, Checked
<1>9. CASE CheckpointFails
  BY <1>9, <1>i, <1>t DEF CheckpointFails
<1>10. CASE KeepConfig
  BY <1>10, <1>i, <1>t DEF KeepConfig
<1>11. CASE WriteAuth
  BY <1>11, <1>i, <1>t DEF WriteAuth
<1>12. CASE WriteConfig
  BY <1>12, <1>i, <1>t DEF WriteConfig
<1>13. CASE MarkOwner
  BY <1>13, <1>i, <1>t DEF MarkOwner
<1>14. CASE CommitMeta
  BY <1>14, <1>i, <1>t, Committed
<1>15. CASE ApplyFails
  BY <1>15, <1>i, <1>t DEF ApplyFails
<1>16. CASE UndoAuth
  BY <1>16, <1>i, <1>t DEF UndoAuth
<1>17. CASE UndoConfig
  BY <1>17, <1>i, <1>t DEF UndoConfig
<1>18. CASE UndoMeta
  BY <1>18, <1>i, <1>t DEF UndoMeta, AfterError, Saved, UndoPoints
<1>19. CASE Select
  BY <1>19, <1>i, <1>t DEF Select, Activatable, Untouched
<1>20. CASE SelectFails
  BY <1>20, <1>i, <1>t DEF SelectFails
<1>21. CASE UndoCatalog
  <2>1. /\ op.pc = "undocatalog" /\ op.kind \in {"switch", "create"}
        /\ op' = [op EXCEPT !.pc = op'.pc] /\ op'.pc \in {"clean", "failed"}
        /\ catalog' = [catalog EXCEPT ![op.ws] =
                          IF op.kind = "create" THEN Absent ELSE op.current]
        /\ UNCHANGED <<meta, store>>
    BY <1>21, <1>i, <1>t DEF UndoCatalog
  <2>2. op.kind = "switch" => op.current \in meta.known
    BY <2>1, <1>i DEF Undone, Origin
  <2>3. store.place = "current"
    BY <2>1, <1>i DEF Untouched
  <2>q. QED
    BY <2>1, <2>2, <2>3, <1>i, <1>t
<1>22. CASE RemoveHome
  BY <1>22, <1>i, <1>t DEF RemoveHome
<1>23. CASE MigrateKey
  BY <1>23, <1>i, <1>t, Migrating
<1>24. CASE SaveVersion
  BY <1>24, <1>i, <1>t, Versioned
<1>25. CASE Capture
  BY <1>25, <1>i, <1>t DEF Capture
<1>26. CASE Snapshot
  BY <1>26, <1>i, <1>t DEF Snapshot
<1>27. CASE SaveProfiles
  BY <1>27, <1>i, <1>t DEF SaveProfiles
<1>28. CASE Reconcile
  BY <1>28, <1>i, <1>t, Reconciled
<1>29. CASE Bootstrap
  <2>1. store.place = "current"
    BY <1>29, <1>i DEF Bootstrap, Untouched
  <2>2. ASSUME NEW w \in Workspaces, catalog'[w] \in Profiles
        PROVE  catalog'[w] \in meta.known
    BY <2>2, <1>29, Booted, <1>i DEF LeftHomes, Profiles
  <2>q. QED
    BY <1>29, Booted, <2>1, <2>2, <1>i, <1>t
<1>30. CASE InitializeFails
  BY <1>30, <1>i, <1>t DEF InitializeFails
<1>31. CASE Issue
  BY <1>31, <1>i, <1>t, Issued DEF Profiles
<1>32. CASE IssueFails
  BY <1>32, <1>i, <1>t DEF IssueFails
<1>33. CASE ArchiveKey
  BY <1>33, <1>i, <1>t DEF ArchiveKey
<1>34. CASE Know
  BY <1>34, <1>i, <1>t DEF Know, Saved, Profiles
<1>35. CASE Finalize
  BY <1>35, <1>i, <1>t DEF Finalize
<1>36. CASE Adopt
  BY <1>36, <1>i, <1>t DEF Adopt, Untouched
<1>37. CASE InstallFails
  BY <1>37, <1>i, <1>t DEF InstallFails
<1>38. CASE Finish
  BY <1>38, <1>i, <1>t, Finished
<1>39. CASE DesktopLogin
  BY <1>39, <1>i, <1>t, Unseen DEF DesktopLogin
<1>40. CASE UNCHANGED vars
  BY <1>40, <1>i, <1>t DEF vars
<1>q. QED
  BY <1>s, <1>1, <1>2, <1>3, <1>4, <1>5, <1>6, <1>7, <1>8, <1>9, <1>10, <1>11,
     <1>12, <1>13, <1>14, <1>15, <1>16, <1>17, <1>18, <1>19, <1>20, <1>21,
     <1>22, <1>23, <1>24, <1>25, <1>26, <1>27, <1>28, <1>29, <1>30, <1>31,
     <1>32, <1>33, <1>34, <1>35, <1>36, <1>37, <1>38, <1>39, <1>40 DEF Sifted
LEMMA AwayStep ==
  ASSUME Whole, Sound, OneFault, OneFault', [Next]_vars
  PROVE  Away'
<1> USE AuthAssumption DEF Away, Operation, Placed, Goto, Fails, files,
        upgrade, outside, InitPoints, InstallPoints, ApplyPoints, UndoPoints,
        Between
<1>t. /\ op \in Operation
      /\ catalog \in [Workspaces -> Profiles \union {NoProfile, Absent}]
      /\ active \in Workspaces
      /\ desktop \in Workspaces \union {NoWorkspace}
      /\ initialized \in BOOLEAN
  BY Sorts
<1>s. Sifted
  BY Sifts
<1>i. Away /\ Placed /\ Resting /\ Ready /\ Undone /\ Origin
  BY DEF Sound, Whole, Base
<1>1. CASE BeginPrepare
  BY <1>1, <1>i, <1>t, Starts DEF BeginPrepare, FirstStep, FromBootstrap, Idle
<1>2. ASSUME NEW c \in Channels, BeginInstall(c) PROVE Away'
  BY <1>2, <1>i, <1>t, Starts DEF BeginInstall, FirstStep, FromBootstrap, Idle
<1>3. ASSUME NEW w \in Workspaces, NEW p \in Profiles, BeginSwitch(w, p)
      PROVE  Away'
  BY <1>3, <1>i, <1>t, Begun DEF Idle, Resting
<1>4. ASSUME NEW w \in Workspaces, NEW p \in Profiles, BeginCreate(w, p)
      PROVE  Away'
  BY <1>4, <1>i, <1>t, Begun DEF Idle, Resting
<1>5. ASSUME NEW w \in Workspaces, Activate(w) PROVE Away'
  BY <1>5, <1>i, <1>t DEF Activate, GateOpen, Registered, Idle, Resting
<1>6. CASE Launch
  BY <1>6, <1>i, <1>t DEF Launch, GateOpen, Idle, Resting
<1>7. CASE LoadTarget
  BY <1>7, <1>i, <1>t, Loaded
<1>8. CASE Checkpoint
  BY <1>8, <1>i, <1>t, Checked
<1>9. CASE CheckpointFails
  BY <1>9, <1>i, <1>t DEF CheckpointFails
<1>10. CASE KeepConfig
  BY <1>10, <1>i, <1>t DEF KeepConfig
<1>11. CASE WriteAuth
  BY <1>11, <1>i, <1>t DEF WriteAuth
<1>12. CASE WriteConfig
  BY <1>12, <1>i, <1>t DEF WriteConfig
<1>13. CASE MarkOwner
  BY <1>13, <1>i, <1>t DEF MarkOwner
<1>14. CASE CommitMeta
  BY <1>14, <1>i, <1>t, Committed
<1>15. CASE ApplyFails
  BY <1>15, <1>i, <1>t DEF ApplyFails
<1>16. CASE UndoAuth
  BY <1>16, <1>i, <1>t DEF UndoAuth
<1>17. CASE UndoConfig
  BY <1>17, <1>i, <1>t DEF UndoConfig
<1>18. CASE UndoMeta
  BY <1>18, <1>i, <1>t DEF UndoMeta, AfterError
<1>19. CASE Select
  BY <1>19, <1>i, <1>t DEF Select, Activatable, Ready, Profiles
<1>20. CASE SelectFails
  BY <1>20, <1>i, <1>t DEF SelectFails
<1>21. CASE UndoCatalog
  BY <1>21, <1>i, <1>t DEF UndoCatalog, Undone, Origin, Profiles
<1>22. CASE RemoveHome
  BY <1>22, <1>i, <1>t DEF RemoveHome
<1>23. CASE MigrateKey
  BY <1>23, <1>i, <1>t, Migrating
<1>24. CASE SaveVersion
  BY <1>24, <1>i, <1>t, Versioned
<1>25. CASE Capture
  BY <1>25, <1>i, <1>t DEF Capture
<1>26. CASE Snapshot
  BY <1>26, <1>i, <1>t DEF Snapshot
<1>27. CASE SaveProfiles
  BY <1>27, <1>i, <1>t DEF SaveProfiles
<1>28. CASE Reconcile
  BY <1>28, <1>i, <1>t, Reconciled
<1>29. CASE Bootstrap
  BY <1>29, <1>i, <1>t, Booted
<1>30. CASE InitializeFails
  BY <1>30, <1>i, <1>t DEF InitializeFails
<1>31. CASE Issue
  BY <1>31, <1>i, <1>t, Issued DEF Ready
<1>32. CASE IssueFails
  BY <1>32, <1>i, <1>t DEF IssueFails
<1>33. CASE ArchiveKey
  BY <1>33, <1>i, <1>t DEF ArchiveKey
<1>34. CASE Know
  BY <1>34, <1>i, <1>t DEF Know
<1>35. CASE Finalize
  BY <1>35, <1>i, <1>t DEF Finalize
<1>36. CASE Adopt
  BY <1>36, <1>i, <1>t DEF Adopt
<1>37. CASE InstallFails
  BY <1>37, <1>i, <1>t DEF InstallFails
<1>38. CASE Finish
  BY <1>38, <1>i, <1>t, Finished
<1>39. CASE DesktopLogin
  BY <1>39, <1>i, <1>t, Unseen DEF DesktopLogin
<1>40. CASE UNCHANGED vars
  BY <1>40, <1>i, <1>t DEF vars
<1>q. QED
  BY <1>s, <1>1, <1>2, <1>3, <1>4, <1>5, <1>6, <1>7, <1>8, <1>9, <1>10, <1>11,
     <1>12, <1>13, <1>14, <1>15, <1>16, <1>17, <1>18, <1>19, <1>20, <1>21,
     <1>22, <1>23, <1>24, <1>25, <1>26, <1>27, <1>28, <1>29, <1>30, <1>31,
     <1>32, <1>33, <1>34, <1>35, <1>36, <1>37, <1>38, <1>39, <1>40 DEF Sifted
LEMMA SavedStep ==
  ASSUME Whole, Sound, OneFault, OneFault', [Next]_vars
  PROVE  Saved'
<1> USE AuthAssumption DEF Saved, Operation, Placed, Goto, Fails, files,
        upgrade, outside, ApplyPoints, UndoPoints, Writing, OneFault
<1>t. /\ op \in Operation
      /\ meta \in Metadata
      /\ home \in [Workspaces -> Home]
      /\ faults \in Nat
  BY Sorts
<1>s. Sifted
  BY Sifts
<1>i. Saved /\ Placed /\ Resting
  BY DEF Sound, Whole, Base
<1>1. CASE BeginPrepare
  BY <1>1, <1>i, <1>t, Starts DEF BeginPrepare, FirstStep, FromBootstrap, Idle
<1>2. ASSUME NEW c \in Channels, BeginInstall(c) PROVE Saved'
  BY <1>2, <1>i, <1>t, Starts DEF BeginInstall, FirstStep, FromBootstrap, Idle
<1>3. ASSUME NEW w \in Workspaces, NEW p \in Profiles, BeginSwitch(w, p)
      PROVE  Saved'
  BY <1>3, <1>i, <1>t, Begun DEF Idle
<1>4. ASSUME NEW w \in Workspaces, NEW p \in Profiles, BeginCreate(w, p)
      PROVE  Saved'
  BY <1>4, <1>i, <1>t, Begun DEF Idle
<1>5. ASSUME NEW w \in Workspaces, Activate(w) PROVE Saved'
  BY <1>5, <1>i, <1>t DEF Activate, GateOpen, Registered, Idle
<1>6. CASE Launch
  BY <1>6, <1>i, <1>t DEF Launch, GateOpen, Idle
<1>7. CASE LoadTarget
  BY <1>7, <1>i, <1>t, Loaded
<1>8. CASE Checkpoint
  BY <1>8, <1>i, <1>t, Checked
<1>9. CASE CheckpointFails
  BY <1>9, <1>i, <1>t DEF CheckpointFails
<1>10. CASE KeepConfig
  BY <1>10, <1>i, <1>t DEF KeepConfig
<1>11. CASE WriteAuth
  BY <1>11, <1>i, <1>t DEF WriteAuth
<1>12. CASE WriteConfig
  BY <1>12, <1>i, <1>t DEF WriteConfig
<1>13. CASE MarkOwner
  BY <1>13, <1>i, <1>t DEF MarkOwner
<1>14. CASE CommitMeta
  BY <1>14, <1>i, <1>t, Committed
<1>15. CASE ApplyFails
  BY <1>15, <1>i, <1>t DEF ApplyFails
<1>16. CASE UndoAuth
  BY <1>16, <1>i, <1>t DEF UndoAuth
<1>17. CASE UndoConfig
  <2>1. home[op.ws] \in Home /\ op.saved \in Home
    BY <1>t
  <2>2. /\ op.pc = "undoconfig" /\ op' = [op EXCEPT !.pc = "undometa"]
        /\ home' = [home EXCEPT ![op.ws].config = op.saved.config]
        /\ UNCHANGED <<meta, faults>>
    BY <1>17 DEF UndoConfig
  <2>3. home'[op.ws] = op.saved
    BY <2>1, <2>2, <1>i, <1>t DEF Home
  <2>q. QED
    BY <2>2, <2>3, <1>i, <1>t
<1>18. CASE UndoMeta
  BY <1>18, <1>i, <1>t DEF UndoMeta, AfterError
<1>19. CASE Select
  BY <1>19, <1>i, <1>t DEF Select, Activatable
<1>20. CASE SelectFails
  BY <1>20, <1>i, <1>t DEF SelectFails
<1>21. CASE UndoCatalog
  BY <1>21, <1>i, <1>t DEF UndoCatalog
<1>22. CASE RemoveHome
  BY <1>22, <1>i, <1>t DEF RemoveHome
<1>23. CASE MigrateKey
  BY <1>23, <1>i, <1>t, Migrating
<1>24. CASE SaveVersion
  BY <1>24, <1>i, <1>t, Versioned
<1>25. CASE Capture
  BY <1>25, <1>i, <1>t DEF Capture
<1>26. CASE Snapshot
  BY <1>26, <1>i, <1>t DEF Snapshot
<1>27. CASE SaveProfiles
  BY <1>27, <1>i, <1>t DEF SaveProfiles
<1>28. CASE Reconcile
  BY <1>28, <1>i, <1>t, Reconciled
<1>29. CASE Bootstrap
  BY <1>29, <1>i, <1>t, Booted
<1>30. CASE InitializeFails
  BY <1>30, <1>i, <1>t DEF InitializeFails
<1>31. CASE Issue
  BY <1>31, <1>i, <1>t, Issued
<1>32. CASE IssueFails
  BY <1>32, <1>i, <1>t DEF IssueFails
<1>33. CASE ArchiveKey
  BY <1>33, <1>i, <1>t DEF ArchiveKey
<1>34. CASE Know
  BY <1>34, <1>i, <1>t DEF Know
<1>35. CASE Finalize
  BY <1>35, <1>i, <1>t DEF Finalize
<1>36. CASE Adopt
  BY <1>36, <1>i, <1>t DEF Adopt
<1>37. CASE InstallFails
  BY <1>37, <1>i, <1>t DEF InstallFails
<1>38. CASE Finish
  BY <1>38, <1>i, <1>t, Finished
<1>39. CASE DesktopLogin
  BY <1>39, <1>i, <1>t, Unseen DEF DesktopLogin, InWork
<1>40. CASE UNCHANGED vars
  BY <1>40, <1>i, <1>t DEF vars
<1>q. QED
  BY <1>s, <1>1, <1>2, <1>3, <1>4, <1>5, <1>6, <1>7, <1>8, <1>9, <1>10, <1>11,
     <1>12, <1>13, <1>14, <1>15, <1>16, <1>17, <1>18, <1>19, <1>20, <1>21,
     <1>22, <1>23, <1>24, <1>25, <1>26, <1>27, <1>28, <1>29, <1>30, <1>31,
     <1>32, <1>33, <1>34, <1>35, <1>36, <1>37, <1>38, <1>39, <1>40 DEF Sifted
LEMMA UndoneStep ==
  ASSUME Whole, Sound, OneFault, OneFault', [Next]_vars
  PROVE  Undone'
<1> USE AuthAssumption DEF Undone, Operation, Placed, Goto, Fails, files,
        upgrade, outside, InitPoints, InstallPoints, ApplyPoints, UndoPoints,
        Writing, InWork, Flux, Settled
<1>t. /\ op \in Operation
      /\ meta \in Metadata
      /\ home \in [Workspaces -> Home]
      /\ catalog \in [Workspaces -> Profiles \union {NoProfile, Absent}]
      /\ faults \in Nat
  BY Sorts
<1>s. Sifted
  BY Sifts
<1>i. Undone /\ Placed /\ Resting /\ Saved /\ Origin
  BY DEF Sound, Whole, Base
<1>1. CASE BeginPrepare
  BY <1>1, <1>i, <1>t, Starts DEF BeginPrepare, FirstStep, FromBootstrap, Idle
<1>2. ASSUME NEW c \in Channels, BeginInstall(c) PROVE Undone'
  BY <1>2, <1>i, <1>t, Starts DEF BeginInstall, FirstStep, FromBootstrap, Idle
<1>3. ASSUME NEW w \in Workspaces, NEW p \in Profiles, BeginSwitch(w, p)
      PROVE  Undone'
  BY <1>3, <1>i, <1>t, Begun DEF Idle
<1>4. ASSUME NEW w \in Workspaces, NEW p \in Profiles, BeginCreate(w, p)
      PROVE  Undone'
  BY <1>4, <1>i, <1>t, Begun DEF Idle
<1>5. ASSUME NEW w \in Workspaces, Activate(w) PROVE Undone'
  BY <1>5, <1>i, <1>t DEF Activate, GateOpen, Registered, Idle
<1>6. CASE Launch
  BY <1>6, <1>i, <1>t DEF Launch, GateOpen, Idle
<1>7. CASE LoadTarget
  BY <1>7, <1>i, <1>t, Loaded
<1>8. CASE Checkpoint
  BY <1>8, <1>i, <1>t, Checked
<1>9. CASE CheckpointFails
  BY <1>9, <1>i, <1>t DEF CheckpointFails, Saved
<1>10. CASE KeepConfig
  BY <1>10, <1>i, <1>t DEF KeepConfig
<1>11. CASE WriteAuth
  BY <1>11, <1>i, <1>t DEF WriteAuth, Saved
<1>12. CASE WriteConfig
  BY <1>12, <1>i, <1>t DEF WriteConfig
<1>13. CASE MarkOwner
  BY <1>13, <1>i, <1>t DEF MarkOwner
<1>14. CASE CommitMeta
  BY <1>14, <1>i, <1>t, Committed
<1>15. CASE ApplyFails
  BY <1>15, <1>i, <1>t DEF ApplyFails, Saved
<1>16. CASE UndoAuth
  BY <1>16, <1>i, <1>t DEF UndoAuth
<1>17. CASE UndoConfig
  BY <1>17, <1>i, <1>t DEF UndoConfig
<1>18. CASE UndoMeta
  BY <1>18, <1>i, <1>t DEF UndoMeta, AfterError, Saved
<1>19. CASE Select
  BY <1>19, <1>i, <1>t DEF Select, Activatable
<1>20. CASE SelectFails
  BY <1>20, <1>i, <1>t DEF SelectFails
<1>21. CASE UndoCatalog
  BY <1>21, <1>i, <1>t DEF UndoCatalog, Origin
<1>22. CASE RemoveHome
  BY <1>22, <1>i, <1>t DEF RemoveHome, Origin
<1>23. CASE MigrateKey
  BY <1>23, <1>i, <1>t, Migrating
<1>24. CASE SaveVersion
  BY <1>24, <1>i, <1>t, Versioned
<1>25. CASE Capture
  BY <1>25, <1>i, <1>t DEF Capture
<1>26. CASE Snapshot
  BY <1>26, <1>i, <1>t DEF Snapshot
<1>27. CASE SaveProfiles
  BY <1>27, <1>i, <1>t DEF SaveProfiles
<1>28. CASE Reconcile
  BY <1>28, <1>i, <1>t, Reconciled
<1>29. CASE Bootstrap
  BY <1>29, <1>i, <1>t, Booted
<1>30. CASE InitializeFails
  BY <1>30, <1>i, <1>t DEF InitializeFails
<1>31. CASE Issue
  BY <1>31, <1>i, <1>t, Issued
<1>32. CASE IssueFails
  BY <1>32, <1>i, <1>t DEF IssueFails
<1>33. CASE ArchiveKey
  BY <1>33, <1>i, <1>t DEF ArchiveKey
<1>34. CASE Know
  BY <1>34, <1>i, <1>t DEF Know
<1>35. CASE Finalize
  BY <1>35, <1>i, <1>t DEF Finalize
<1>36. CASE Adopt
  BY <1>36, <1>i, <1>t DEF Adopt
<1>37. CASE InstallFails
  BY <1>37, <1>i, <1>t DEF InstallFails
<1>38. CASE Finish
  BY <1>38, <1>i, <1>t, Finished
<1>39. CASE DesktopLogin
  BY <1>39, <1>i, <1>t, Unseen DEF DesktopLogin, InWork
<1>40. CASE UNCHANGED vars
  BY <1>40, <1>i, <1>t DEF vars
<1>q. QED
  BY <1>s, <1>1, <1>2, <1>3, <1>4, <1>5, <1>6, <1>7, <1>8, <1>9, <1>10, <1>11,
     <1>12, <1>13, <1>14, <1>15, <1>16, <1>17, <1>18, <1>19, <1>20, <1>21,
     <1>22, <1>23, <1>24, <1>25, <1>26, <1>27, <1>28, <1>29, <1>30, <1>31,
     <1>32, <1>33, <1>34, <1>35, <1>36, <1>37, <1>38, <1>39, <1>40 DEF Sifted
LEMMA OriginStep ==
  ASSUME Whole, Sound, OneFault, OneFault', [Next]_vars
  PROVE  Origin'
<1> USE AuthAssumption DEF Origin, Operation, Placed, Goto, Fails, files,
        upgrade, outside, InitPoints, InstallPoints, ApplyPoints, UndoPoints,
        Matches
<1>t. /\ op \in Operation
      /\ meta \in Metadata
      /\ archive \in [Profiles -> Login]
      /\ catalog \in [Workspaces -> Profiles \union {NoProfile, Absent}]
  BY Sorts
<1>s. Sifted
  BY Sifts
<1>i. Origin /\ Placed /\ Matching /\ Known /\ Chosen /\ LeftHomes
  BY DEF Sound, Whole, Base
<1>1. CASE BeginPrepare
  BY <1>1, <1>i, <1>t, Starts DEF BeginPrepare, FirstStep, FromBootstrap, Idle
<1>2. ASSUME NEW c \in Channels, BeginInstall(c) PROVE Origin'
  BY <1>2, <1>i, <1>t, Starts DEF BeginInstall, FirstStep, FromBootstrap, Idle
<1>3. ASSUME NEW w \in Workspaces, NEW p \in Profiles, BeginSwitch(w, p)
      PROVE  Origin'
  <2>1. /\ op'.kind = "switch" /\ op'.current = catalog[w]
        /\ op'.before.home = home[w] /\ op'.before.choice = catalog[w]
        /\ op'.before.meta = meta /\ UNCHANGED files
        /\ Idle /\ initialized /\ setup = "succeeded" /\ catalog[w] # Absent
    BY <1>3, Begun
  <2>2. catalog[w] \in Profiles
    BY <2>1, <1>i, <1>t DEF Chosen, Profiles
  <2>3. catalog[w] \in meta.known
    BY <2>2, <1>i DEF Known
  <2>4. Matches(home[w], catalog[w])
    BY <2>1, <2>2, <1>i DEF Matching, Idle, InWork
  <2>q. QED
    BY <2>1, <2>3, <2>4
<1>4. ASSUME NEW w \in Workspaces, NEW p \in Profiles, BeginCreate(w, p)
      PROVE  Origin'
  BY <1>4, <1>i, <1>t, Begun DEF Idle, LeftHomes
<1>5. ASSUME NEW w \in Workspaces, Activate(w) PROVE Origin'
  BY <1>5, <1>i, <1>t DEF Activate, GateOpen, Registered, Idle
<1>6. CASE Launch
  BY <1>6, <1>i, <1>t DEF Launch, GateOpen, Idle
<1>7. CASE LoadTarget
  BY <1>7, <1>i, <1>t, Loaded
<1>8. CASE Checkpoint
  BY <1>8, <1>i, <1>t, Checked
<1>9. CASE CheckpointFails
  BY <1>9, <1>i, <1>t DEF CheckpointFails
<1>10. CASE KeepConfig
  BY <1>10, <1>i, <1>t DEF KeepConfig
<1>11. CASE WriteAuth
  BY <1>11, <1>i, <1>t DEF WriteAuth
<1>12. CASE WriteConfig
  BY <1>12, <1>i, <1>t DEF WriteConfig
<1>13. CASE MarkOwner
  BY <1>13, <1>i, <1>t DEF MarkOwner
<1>14. CASE CommitMeta
  BY <1>14, <1>i, <1>t, Committed
<1>15. CASE ApplyFails
  BY <1>15, <1>i, <1>t DEF ApplyFails
<1>16. CASE UndoAuth
  BY <1>16, <1>i, <1>t DEF UndoAuth
<1>17. CASE UndoConfig
  BY <1>17, <1>i, <1>t DEF UndoConfig
<1>18. CASE UndoMeta
  BY <1>18, <1>i, <1>t DEF UndoMeta, AfterError
<1>19. CASE Select
  BY <1>19, <1>i, <1>t DEF Select, Activatable
<1>20. CASE SelectFails
  BY <1>20, <1>i, <1>t DEF SelectFails
<1>21. CASE UndoCatalog
  BY <1>21, <1>i, <1>t DEF UndoCatalog
<1>22. CASE RemoveHome
  BY <1>22, <1>i, <1>t DEF RemoveHome
<1>23. CASE MigrateKey
  BY <1>23, <1>i, <1>t, Migrating
<1>24. CASE SaveVersion
  BY <1>24, <1>i, <1>t, Versioned
<1>25. CASE Capture
  BY <1>25, <1>i, <1>t DEF Capture
<1>26. CASE Snapshot
  BY <1>26, <1>i, <1>t DEF Snapshot
<1>27. CASE SaveProfiles
  BY <1>27, <1>i, <1>t DEF SaveProfiles
<1>28. CASE Reconcile
  BY <1>28, <1>i, <1>t, Reconciled
<1>29. CASE Bootstrap
  BY <1>29, <1>i, <1>t, Booted
<1>30. CASE InitializeFails
  BY <1>30, <1>i, <1>t DEF InitializeFails
<1>31. CASE Issue
  BY <1>31, <1>i, <1>t, Issued
<1>32. CASE IssueFails
  BY <1>32, <1>i, <1>t DEF IssueFails
<1>33. CASE ArchiveKey
  BY <1>33, <1>i, <1>t DEF ArchiveKey
<1>34. CASE Know
  BY <1>34, <1>i, <1>t DEF Know
<1>35. CASE Finalize
  BY <1>35, <1>i, <1>t DEF Finalize
<1>36. CASE Adopt
  BY <1>36, <1>i, <1>t DEF Adopt
<1>37. CASE InstallFails
  BY <1>37, <1>i, <1>t DEF InstallFails
<1>38. CASE Finish
  BY <1>38, <1>i, <1>t, Finished
<1>39. CASE DesktopLogin
  BY <1>39, <1>i, <1>t, Unseen DEF DesktopLogin
<1>40. CASE UNCHANGED vars
  BY <1>40, <1>i, <1>t DEF vars
<1>q. QED
  BY <1>s, <1>1, <1>2, <1>3, <1>4, <1>5, <1>6, <1>7, <1>8, <1>9, <1>10, <1>11,
     <1>12, <1>13, <1>14, <1>15, <1>16, <1>17, <1>18, <1>19, <1>20, <1>21,
     <1>22, <1>23, <1>24, <1>25, <1>26, <1>27, <1>28, <1>29, <1>30, <1>31,
     <1>32, <1>33, <1>34, <1>35, <1>36, <1>37, <1>38, <1>39, <1>40 DEF Sifted
LEMMA VacantStep ==
  ASSUME Whole, Sound, OneFault, OneFault', [Next]_vars
  PROVE  Vacant'
<1> USE AuthAssumption DEF Vacant, Operation, Placed, Goto, Fails, files,
        upgrade, outside, InitPoints, InstallPoints, ApplyPoints, UndoPoints,
        Writing
<1>t. /\ op \in Operation
      /\ meta \in Metadata
  BY Sorts
<1>s. Sifted
  BY Sifts
<1>i. Vacant /\ Placed /\ Saved
  BY DEF Sound, Whole, Base
<1>1. CASE BeginPrepare
  BY <1>1, <1>i, <1>t, Starts DEF BeginPrepare, FirstStep, FromBootstrap, Idle
<1>2. ASSUME NEW c \in Channels, BeginInstall(c) PROVE Vacant'
  BY <1>2, <1>i, <1>t, Starts DEF BeginInstall, FirstStep, FromBootstrap, Idle
<1>3. ASSUME NEW w \in Workspaces, NEW p \in Profiles, BeginSwitch(w, p)
      PROVE  Vacant'
  BY <1>3, <1>i, <1>t, Begun DEF Idle
<1>4. ASSUME NEW w \in Workspaces, NEW p \in Profiles, BeginCreate(w, p)
      PROVE  Vacant'
  BY <1>4, <1>i, <1>t, Begun DEF Idle
<1>5. ASSUME NEW w \in Workspaces, Activate(w) PROVE Vacant'
  BY <1>5, <1>i, <1>t DEF Activate, GateOpen, Registered, Idle
<1>6. CASE Launch
  BY <1>6, <1>i, <1>t DEF Launch, GateOpen, Idle
<1>7. CASE LoadTarget
  BY <1>7, <1>i, <1>t, Loaded
<1>8. CASE Checkpoint
  BY <1>8, <1>i, <1>t, Checked
<1>9. CASE CheckpointFails
  BY <1>9, <1>i, <1>t DEF CheckpointFails
<1>10. CASE KeepConfig
  BY <1>10, <1>i, <1>t DEF KeepConfig
<1>11. CASE WriteAuth
  BY <1>11, <1>i, <1>t DEF WriteAuth
<1>12. CASE WriteConfig
  BY <1>12, <1>i, <1>t DEF WriteConfig
<1>13. CASE MarkOwner
  BY <1>13, <1>i, <1>t DEF MarkOwner
<1>14. CASE CommitMeta
  BY <1>14, <1>i, <1>t, Committed
<1>15. CASE ApplyFails
  BY <1>15, <1>i, <1>t DEF ApplyFails
<1>16. CASE UndoAuth
  BY <1>16, <1>i, <1>t DEF UndoAuth
<1>17. CASE UndoConfig
  BY <1>17, <1>i, <1>t DEF UndoConfig
<1>18. CASE UndoMeta
  BY <1>18, <1>i, <1>t DEF UndoMeta, AfterError
<1>19. CASE Select
  BY <1>19, <1>i, <1>t DEF Select, Activatable
<1>20. CASE SelectFails
  BY <1>20, <1>i, <1>t DEF SelectFails
<1>21. CASE UndoCatalog
  BY <1>21, <1>i, <1>t DEF UndoCatalog
<1>22. CASE RemoveHome
  BY <1>22, <1>i, <1>t DEF RemoveHome
<1>23. CASE MigrateKey
  BY <1>23, <1>i, <1>t, Migrating
<1>24. CASE SaveVersion
  BY <1>24, <1>i, <1>t, Versioned
<1>25. CASE Capture
  BY <1>25, <1>i, <1>t DEF Capture
<1>26. CASE Snapshot
  BY <1>26, <1>i, <1>t DEF Snapshot
<1>27. CASE SaveProfiles
  BY <1>27, <1>i, <1>t DEF SaveProfiles
<1>28. CASE Reconcile
  BY <1>28, <1>i, <1>t, Reconciled
<1>29. CASE Bootstrap
  BY <1>29, <1>i, <1>t, Booted
<1>30. CASE InitializeFails
  BY <1>30, <1>i, <1>t DEF InitializeFails
<1>31. CASE Issue
  BY <1>31, <1>i, <1>t, Issued
<1>32. CASE IssueFails
  BY <1>32, <1>i, <1>t DEF IssueFails
<1>33. CASE ArchiveKey
  BY <1>33, <1>i, <1>t DEF ArchiveKey
<1>34. CASE Know
  BY <1>34, <1>i, <1>t DEF Know, Saved
<1>35. CASE Finalize
  BY <1>35, <1>i, <1>t DEF Finalize
<1>36. CASE Adopt
  BY <1>36, <1>i, <1>t DEF Adopt
<1>37. CASE InstallFails
  BY <1>37, <1>i, <1>t DEF InstallFails
<1>38. CASE Finish
  BY <1>38, <1>i, <1>t, Finished
<1>39. CASE DesktopLogin
  BY <1>39, <1>i, <1>t, Unseen DEF DesktopLogin
<1>40. CASE UNCHANGED vars
  BY <1>40, <1>i, <1>t DEF vars
<1>q. QED
  BY <1>s, <1>1, <1>2, <1>3, <1>4, <1>5, <1>6, <1>7, <1>8, <1>9, <1>10, <1>11,
     <1>12, <1>13, <1>14, <1>15, <1>16, <1>17, <1>18, <1>19, <1>20, <1>21,
     <1>22, <1>23, <1>24, <1>25, <1>26, <1>27, <1>28, <1>29, <1>30, <1>31,
     <1>32, <1>33, <1>34, <1>35, <1>36, <1>37, <1>38, <1>39, <1>40 DEF Sifted
LEMMA AppliedStep ==
  ASSUME Whole, Sound, OneFault, OneFault', [Next]_vars
  PROVE  Applied'
<1> USE AuthAssumption DEF Applied, Operation, Placed, Goto, Fails, files,
        upgrade, outside, InitPoints, InstallPoints, ApplyPoints, UndoPoints,
        Writing, InWork, Matches
<1>t. /\ op \in Operation
      /\ meta \in Metadata
      /\ archive \in [Profiles -> Login]
      /\ home \in [Workspaces -> Home]
      /\ catalog \in [Workspaces -> Profiles \union {NoProfile, Absent}]
  BY Sorts
<1>s. Sifted
  BY Sifts
<1>i. Applied /\ Placed /\ Away /\ Ready /\ Course /\ Pure
  BY DEF Sound, Whole, Base
<1>1. CASE BeginPrepare
  BY <1>1, <1>i, <1>t, Starts DEF BeginPrepare, FirstStep, FromBootstrap, Idle
<1>2. ASSUME NEW c \in Channels, BeginInstall(c) PROVE Applied'
  BY <1>2, <1>i, <1>t, Starts DEF BeginInstall, FirstStep, FromBootstrap, Idle
<1>3. ASSUME NEW w \in Workspaces, NEW p \in Profiles, BeginSwitch(w, p)
      PROVE  Applied'
  BY <1>3, <1>i, <1>t, Begun DEF Idle
<1>4. ASSUME NEW w \in Workspaces, NEW p \in Profiles, BeginCreate(w, p)
      PROVE  Applied'
  BY <1>4, <1>i, <1>t, Begun DEF Idle
<1>5. ASSUME NEW w \in Workspaces, Activate(w) PROVE Applied'
  BY <1>5, <1>i, <1>t DEF Activate, GateOpen, Registered, Idle
<1>6. CASE Launch
  BY <1>6, <1>i, <1>t DEF Launch, GateOpen, Idle
<1>7. CASE LoadTarget
  BY <1>7, <1>i, <1>t, Loaded
<1>8. CASE Checkpoint
  BY <1>8, <1>i, <1>t, Checked
<1>9. CASE CheckpointFails
  BY <1>9, <1>i, <1>t DEF CheckpointFails
<1>10. CASE KeepConfig
  BY <1>10, <1>i, <1>t DEF KeepConfig
<1>11. CASE WriteAuth
  BY <1>11, <1>i, <1>t DEF WriteAuth
<1>12. CASE WriteConfig
  <2>1. op.pc = "config" /\ op' = [op EXCEPT !.pc = "owner"]
        /\ home' = [home EXCEPT ![op.ws].config =
                       IF op.profile = Personal THEN kept ELSE "managed"]
        /\ UNCHANGED <<archive, catalog, meta>>
    BY <1>12 DEF WriteConfig
  <2>2. FirstStep = "reconcile"
    BY <2>1, <1>i DEF Ready, Course, Between
  <2>3. kept = "own"
    BY <2>2, <1>i DEF FirstStep, FromBootstrap, PersonalReady, Pure
  <2>4. home'[op.ws].config = IF op.profile = Personal THEN "own" ELSE "managed"
    BY <2>1, <2>3, <1>t DEF Home
  <2>5. home'[op.ws].auth = home[op.ws].auth
    BY <2>1, <1>t DEF Home
  <2>q. QED
    BY <2>1, <2>4, <2>5, <1>i, <1>t
<1>13. CASE MarkOwner
  BY <1>13, <1>i, <1>t DEF MarkOwner
<1>14. CASE CommitMeta
  BY <1>14, <1>i, <1>t, Committed DEF Away
<1>15. CASE ApplyFails
  BY <1>15, <1>i, <1>t DEF ApplyFails
<1>16. CASE UndoAuth
  BY <1>16, <1>i, <1>t DEF UndoAuth
<1>17. CASE UndoConfig
  BY <1>17, <1>i, <1>t DEF UndoConfig
<1>18. CASE UndoMeta
  BY <1>18, <1>i, <1>t DEF UndoMeta, AfterError
<1>19. CASE Select
  BY <1>19, <1>i, <1>t DEF Select, Activatable
<1>20. CASE SelectFails
  BY <1>20, <1>i, <1>t DEF SelectFails
<1>21. CASE UndoCatalog
  BY <1>21, <1>i, <1>t DEF UndoCatalog
<1>22. CASE RemoveHome
  BY <1>22, <1>i, <1>t DEF RemoveHome
<1>23. CASE MigrateKey
  BY <1>23, <1>i, <1>t, Migrating
<1>24. CASE SaveVersion
  BY <1>24, <1>i, <1>t, Versioned
<1>25. CASE Capture
  BY <1>25, <1>i, <1>t DEF Capture
<1>26. CASE Snapshot
  BY <1>26, <1>i, <1>t DEF Snapshot
<1>27. CASE SaveProfiles
  BY <1>27, <1>i, <1>t DEF SaveProfiles
<1>28. CASE Reconcile
  BY <1>28, <1>i, <1>t, Reconciled
<1>29. CASE Bootstrap
  BY <1>29, <1>i, <1>t, Booted
<1>30. CASE InitializeFails
  BY <1>30, <1>i, <1>t DEF InitializeFails
<1>31. CASE Issue
  BY <1>31, <1>i, <1>t, Issued
<1>32. CASE IssueFails
  BY <1>32, <1>i, <1>t DEF IssueFails
<1>33. CASE ArchiveKey
  BY <1>33, <1>i, <1>t DEF ArchiveKey
<1>34. CASE Know
  BY <1>34, <1>i, <1>t DEF Know
<1>35. CASE Finalize
  BY <1>35, <1>i, <1>t DEF Finalize
<1>36. CASE Adopt
  BY <1>36, <1>i, <1>t DEF Adopt
<1>37. CASE InstallFails
  BY <1>37, <1>i, <1>t DEF InstallFails
<1>38. CASE Finish
  BY <1>38, <1>i, <1>t, Finished
<1>39. CASE DesktopLogin
  BY <1>39, <1>i, <1>t, Unseen DEF DesktopLogin, Away
<1>40. CASE UNCHANGED vars
  BY <1>40, <1>i, <1>t DEF vars
<1>q. QED
  BY <1>s, <1>1, <1>2, <1>3, <1>4, <1>5, <1>6, <1>7, <1>8, <1>9, <1>10, <1>11,
     <1>12, <1>13, <1>14, <1>15, <1>16, <1>17, <1>18, <1>19, <1>20, <1>21,
     <1>22, <1>23, <1>24, <1>25, <1>26, <1>27, <1>28, <1>29, <1>30, <1>31,
     <1>32, <1>33, <1>34, <1>35, <1>36, <1>37, <1>38, <1>39, <1>40 DEF Sifted
LEMMA MatchingStep ==
  ASSUME Whole, Sound, OneFault, OneFault', [Next]_vars
  PROVE  Matching'
<1> USE AuthAssumption DEF Matching, Operation, Placed, Goto, Fails, files,
        upgrade, outside, InitPoints, InstallPoints, ApplyPoints, UndoPoints,
        InWork, Matches
<1>t. /\ op \in Operation
      /\ meta \in Metadata
      /\ archive \in [Profiles -> Login]
      /\ home \in [Workspaces -> Home]
      /\ catalog \in [Workspaces -> Profiles \union {NoProfile, Absent}]
  BY Sorts
<1>s. Sifted
  BY Sifts
<1>i. Matching /\ Placed /\ Resting /\ Known /\ Away /\ Undone /\ Origin /\ Vacant /\ Applied /\ DefaultHome /\ LeftHomes /\ Untouched
  BY DEF Sound, Whole, Base
<1>1. CASE BeginPrepare
  BY <1>1, <1>i, <1>t, Starts DEF BeginPrepare, FirstStep, FromBootstrap, Idle
<1>2. ASSUME NEW c \in Channels, BeginInstall(c)
      PROVE  Matching'
  BY <1>2, <1>i, <1>t, Starts DEF BeginInstall, FirstStep, FromBootstrap, Idle
<1>3. ASSUME NEW w \in Workspaces, NEW p \in Profiles, BeginSwitch(w, p)
      PROVE  Matching'
  BY <1>3, <1>i, <1>t, Begun DEF Idle
<1>4. ASSUME NEW w \in Workspaces, NEW p \in Profiles, BeginCreate(w, p)
      PROVE  Matching'
  BY <1>4, <1>i, <1>t, Begun DEF Idle
<1>5. ASSUME NEW w \in Workspaces, Activate(w) PROVE Matching'
  BY <1>5, <1>i, <1>t DEF Activate, GateOpen, Registered, Idle
<1>6. CASE Launch
  BY <1>6, <1>i, <1>t DEF Launch, GateOpen, Idle
<1>7. CASE LoadTarget
  BY <1>7, <1>i, <1>t, Loaded
<1>8. CASE Checkpoint
  BY <1>8, <1>i, <1>t, Checked
<1>9. CASE CheckpointFails
  BY <1>9, <1>i, <1>t DEF CheckpointFails
<1>10. CASE KeepConfig
  BY <1>10, <1>i, <1>t DEF KeepConfig
<1>11. CASE WriteAuth
  BY <1>11, <1>i, <1>t DEF WriteAuth
<1>12. CASE WriteConfig
  BY <1>12, <1>i, <1>t DEF WriteConfig
<1>13. CASE MarkOwner
  BY <1>13, <1>i, <1>t DEF MarkOwner
<1>14. CASE CommitMeta
  <2>1. op.kind = "install" => catalog[op.ws] \notin Profiles
    BY <1>14, Committed, <1>i DEF Away, Vacant, DefaultHome, Profiles
  <2>2. op.kind # "install" => catalog[op.ws] = op.profile
    BY <1>14, Committed, <1>i DEF Applied
  <2>q. QED
    BY <1>14, Committed, <2>1, <2>2, <1>i, <1>t
<1>15. CASE ApplyFails
  BY <1>15, <1>i, <1>t DEF ApplyFails
<1>16. CASE UndoAuth
  BY <1>16, <1>i, <1>t DEF UndoAuth
<1>17. CASE UndoConfig
  BY <1>17, <1>i, <1>t DEF UndoConfig
<1>18. CASE UndoMeta
  <2>1. /\ op.pc = "undometa" /\ op' = [op EXCEPT !.pc = AfterError]
        /\ UNCHANGED <<home, catalog, archive>>
    BY <1>18 DEF UndoMeta
  <2>2. op.kind \in {"switch", "create", "install"}
    BY <2>1, <1>i, <1>t DEF Resting, AllKinds
  <2>3. op.kind = "install" => catalog[op.ws] \notin Profiles
    BY <2>1, <1>i DEF Away, Vacant, DefaultHome, Profiles
  <2>q. QED
    BY <2>1, <2>2, <2>3, <1>i, <1>t DEF AfterError
<1>19. CASE Select
  BY <1>19, <1>i, <1>t DEF Select, Activatable
<1>20. CASE SelectFails
  BY <1>20, <1>i, <1>t DEF SelectFails
<1>21. CASE UndoCatalog
  <2>1. /\ op.pc = "undocatalog" /\ op.kind \in {"switch", "create"}
        /\ op' = [op EXCEPT !.pc = op'.pc] /\ op'.pc \in {"clean", "failed"}
        /\ catalog' = [catalog EXCEPT ![op.ws] =
                          IF op.kind = "create" THEN Absent ELSE op.current]
        /\ UNCHANGED <<home, archive>>
    BY <1>21, <1>i, <1>t DEF UndoCatalog
  <2>2. home[op.ws] = op.before.home
    BY <2>1, <1>i DEF Undone, Settled, Flux
  <2>3. op.kind = "switch" => Matches(home[op.ws], op.current)
    BY <2>2, <1>i DEF Origin
  <2>q. QED
    BY <2>1, <2>3, <1>i, <1>t
<1>22. CASE RemoveHome
  BY <1>22, <1>i, <1>t DEF RemoveHome, Undone, Origin
<1>23. CASE MigrateKey
  BY <1>23, <1>i, <1>t, Migrating DEF Known
<1>24. CASE SaveVersion
  BY <1>24, <1>i, <1>t, Versioned
<1>25. CASE Capture
  BY <1>25, <1>i, <1>t DEF Capture
<1>26. CASE Snapshot
  BY <1>26, <1>i, <1>t DEF Snapshot
<1>27. CASE SaveProfiles
  BY <1>27, <1>i, <1>t DEF SaveProfiles
<1>28. CASE Reconcile
  BY <1>28, <1>i, <1>t, Reconciled
<1>29. CASE Bootstrap
  <2>1. /\ op.pc = "bootstrap" /\ op' = [op EXCEPT !.pc = op'.pc]
        /\ op'.pc \in {"issue", "ok"} /\ UNCHANGED <<home, archive>>
    BY <1>29, Booted
  <2>2. catalog'[Default] \in Profiles => Matches(home[Default], catalog'[Default])
    BY <1>29, <2>1, Booted, <1>i DEF DefaultHome, Settled, Flux
  <2>3. ASSUME NEW w \in Workspaces \ {Default}, catalog'[w] \in Profiles
        PROVE  Matches(home[w], catalog'[w])
    <3>1. CASE catalog'[w] = catalog[w]
      BY <2>1, <2>3, <3>1, <1>i
    <3>2. CASE catalog'[w] # catalog[w]
      <4> DEFINE c == catalog'[w]
      <4>1. catalog[w] = Absent /\ c \in Channels /\ old[c] = w
        BY <1>29, <2>3, <3>2, Booted
      <4>2. /\ home[w] = HomeOf(OldKey(c)) /\ archive[c] \in {OldKey(c), NoLogin}
            /\ c \in meta.known
        BY <4>1, <1>i, AuthAssumption DEF LeftHomes
      <4>3. archive[c].owner = c
        <5>1. store.place = "current"
          BY <2>1, <1>i DEF Untouched
        <5>q. QED
          BY <4>1, <4>2, <5>1, Archived
      <4>4. archive[c] = OldKey(c)
        BY <4>1, <4>2, <4>3, AuthAssumption DEF NoLogin, Profiles
      <4>5. /\ home[w].auth = archive[c] /\ home[w].config = "managed"
        BY <4>1, <4>2, <4>4 DEF HomeOf, HasKey, OldKey, Key
      <4>q. QED
        BY <4>1, <4>3, <4>5, AuthAssumption DEF Shows
    <3>q. QED
      BY <3>1, <3>2
  <2>q. QED
    BY <2>1, <2>2, <2>3, <1>i, <1>t
<1>30. CASE InitializeFails
  BY <1>30, <1>i, <1>t DEF InitializeFails
<1>31. CASE Issue
  BY <1>31, <1>i, <1>t, Issued
<1>32. CASE IssueFails
  BY <1>32, <1>i, <1>t DEF IssueFails
<1>33. CASE ArchiveKey
  BY <1>33, <1>i, <1>t DEF ArchiveKey, Known
<1>34. CASE Know
  BY <1>34, <1>i, <1>t DEF Know
<1>35. CASE Finalize
  BY <1>35, <1>i, <1>t DEF Finalize
<1>36. CASE Adopt
  BY <1>36, <1>i, <1>t DEF Adopt, Applied
<1>37. CASE InstallFails
  BY <1>37, <1>i, <1>t DEF InstallFails
<1>38. CASE Finish
  BY <1>38, <1>i, <1>t, Finished
<1>39. CASE DesktopLogin
  <2>1. /\ desktop \in Workspaces /\ catalog[desktop] = Personal
        /\ home' = [home EXCEPT ![desktop].auth = ChatGPT(logins + 1)]
        /\ UNCHANGED <<archive, catalog, op>>
    BY <1>39, Sorts DEF DesktopLogin
  <2>2. Matches(home[desktop], Personal)
    BY <2>1, Unseen, <1>i DEF Profiles
  <2>3. /\ home'[desktop].auth.owner = Personal
        /\ home'[desktop].config = home[desktop].config
    BY <2>1, <1>t DEF Home, ChatGPT
  <2>4. Shows(home'[desktop], Personal)
    BY <2>2, <2>3 DEF Shows
  <2>5. \A w \in Workspaces : w # desktop => home'[w] = home[w]
    BY <2>1, <1>t
  <2>q. QED
    BY <2>1, <2>4, <2>5, <1>i, <1>t
<1>40. CASE UNCHANGED vars
  BY <1>40, <1>i, <1>t DEF vars
<1>q. QED
  BY <1>s, <1>1, <1>2, <1>3, <1>4, <1>5, <1>6, <1>7, <1>8, <1>9, <1>10, <1>11,
     <1>12, <1>13, <1>14, <1>15, <1>16, <1>17, <1>18, <1>19, <1>20, <1>21,
     <1>22, <1>23, <1>24, <1>25, <1>26, <1>27, <1>28, <1>29, <1>30, <1>31,
     <1>32, <1>33, <1>34, <1>35, <1>36, <1>37, <1>38, <1>39, <1>40 DEF Sifted
LEMMA DefaultHomeStep ==
  ASSUME Whole, Sound, OneFault, OneFault', [Next]_vars
  PROVE  DefaultHome'
<1> USE AuthAssumption DEF DefaultHome, Operation, Placed, Goto, Fails, files,
        upgrade, outside, InitPoints, InstallPoints, ApplyPoints, UndoPoints,
        Settled, Flux, Consistent, Matches
<1>t. /\ op \in Operation
      /\ meta \in Metadata
      /\ archive \in [Profiles -> Login]
      /\ home \in [Workspaces -> Home]
      /\ catalog \in [Workspaces -> Profiles \union {NoProfile, Absent}]
      /\ initialized \in BOOLEAN
  BY Sorts
<1>s. Sifted
  BY Sifts
<1>i. DefaultHome /\ Placed /\ Resting /\ Known /\ Saved /\ Chosen /\ Matching /\ Undone /\ Origin /\ Applied /\ Course /\ Away /\ Vacant
  BY DEF Sound, Whole, Base
<1>1. CASE BeginPrepare
  BY <1>1, <1>i, <1>t, Starts DEF BeginPrepare, FirstStep, FromBootstrap, Idle
<1>2. ASSUME NEW c \in Channels, BeginInstall(c)
      PROVE  DefaultHome'
  BY <1>2, <1>i, <1>t, Starts DEF BeginInstall, FirstStep, FromBootstrap, Idle
<1>3. ASSUME NEW w \in Workspaces, NEW p \in Profiles, BeginSwitch(w, p)
      PROVE  DefaultHome'
  BY <1>3, <1>i, <1>t, Begun DEF Idle
<1>4. ASSUME NEW w \in Workspaces, NEW p \in Profiles, BeginCreate(w, p)
      PROVE  DefaultHome'
  BY <1>4, <1>i, <1>t, Begun DEF Idle
<1>5. ASSUME NEW w \in Workspaces, Activate(w)
      PROVE  DefaultHome'
  BY <1>5, <1>i, <1>t DEF Activate, GateOpen, Registered, Idle
<1>6. CASE Launch
  BY <1>6, <1>i, <1>t DEF Launch, GateOpen, Idle
<1>7. CASE LoadTarget
  BY <1>7, <1>i, <1>t, Loaded
<1>8. CASE Checkpoint
  <2>1. Settled(Default)' = Settled(Default)
    BY <1>8, Checked, <1>i, <1>t DEF Settled, Flux
  <2>q. QED
    BY <1>8, Checked, <2>1, <1>i, <1>t, SameHome
<1>9. CASE CheckpointFails
  <2>1. Settled(Default)' = Settled(Default)
    BY <1>9, <1>i, <1>t DEF CheckpointFails, Saved, Settled, Flux
  <2>q. QED
    BY <1>9, <2>1, <1>i, <1>t, SameHome DEF CheckpointFails, Saved
<1>10. CASE KeepConfig
  BY <1>10, <1>i, <1>t DEF KeepConfig
<1>11. CASE WriteAuth
  <2>1. Settled(Default)' = Settled(Default)
    BY <1>11, <1>i, <1>t DEF WriteAuth, Saved, Settled, Flux
  <2>q. QED
    BY <1>11, <2>1, <1>i, <1>t, SameHome DEF WriteAuth, Saved
<1>12. CASE WriteConfig
  BY <1>12, <1>i, <1>t DEF WriteConfig
<1>13. CASE MarkOwner
  BY <1>13, <1>i, <1>t DEF MarkOwner
<1>14. CASE CommitMeta
  <2>1. Settled(Default)' = home[Default]
    BY <1>14, Committed, <1>t
  <2>2. CASE op.ws = Default
    <3>1. /\ meta'.active = op.profile /\ op.profile \in Profiles
          /\ op.profile \in meta.known /\ meta'.known = meta.known
          /\ Matches(home[Default], op.profile)
          /\ UNCHANGED <<archive, home, catalog, store>>
      BY <1>14, Committed, <2>2, <1>i DEF Known
    <3>2. Consistent(home[Default])'
      BY <3>1, AuthAssumption DEF HasKey, Shows, Profiles
    <3>3. op.profile \in Channels => home[Default].auth # NoLogin
      BY <3>1, AuthAssumption DEF Shows, NoLogin, Profiles
    <3>q. QED
      BY <2>1, <3>1, <3>2, <3>3, AuthAssumption DEF Profiles
  <2>3. CASE op.ws # Default
    <3>1. Settled(Default) = home[Default]
      BY <2>3
    <3>q. QED
      BY <1>14, Committed, <2>1, <2>3, <3>1, <1>i
  <2>q. QED
    BY <2>2, <2>3
<1>15. CASE ApplyFails
  <2>1. Settled(Default)' = Settled(Default)
    BY <1>15, <1>i, <1>t DEF ApplyFails, Saved, Settled, Flux
  <2>q. QED
    BY <1>15, <2>1, <1>i, <1>t, SameHome DEF ApplyFails, Saved
<1>16. CASE UndoAuth
  BY <1>16, <1>i, <1>t DEF UndoAuth
<1>17. CASE UndoConfig
  BY <1>17, <1>i, <1>t DEF UndoConfig
<1>18. CASE UndoMeta
  <2>1. Settled(Default)' = Settled(Default)
    BY <1>18, <1>i, <1>t DEF UndoMeta, Saved, AfterError, Settled, Flux
  <2>q. QED
    BY <1>18, <2>1, <1>i, <1>t, SameHome DEF UndoMeta, Saved, AfterError
<1>19. CASE Select
  <2>1. /\ op.pc \in {"select", "register"} /\ op.kind \in {"switch", "create"}
        /\ catalog' = [catalog EXCEPT ![op.ws] = op.profile] \/ catalog' = catalog
        /\ op' = [op EXCEPT !.pc = op'.pc] /\ op'.pc \in {"load", "failed"}
        /\ UNCHANGED <<archive, home, meta, store, initialized>>
    BY <1>19, <1>i, <1>t DEF Select
  <2>2. Settled(Default)' = Settled(Default)
    BY <2>1, <1>t DEF Settled, Flux
  <2>3. op.ws = Default => meta.active # NoProfile
    <3>1. CASE op.kind = "create"
      BY <3>1, <1>i DEF Chosen
    <3>2. CASE op.kind = "switch"
      <4>1. catalog[op.ws] = op.before.choice /\ op.before.choice \in Profiles
        BY <2>1, <3>2, <1>i, <1>t DEF Undone, Origin, InWork, Metadata
      <4>q. QED
        BY <4>1, <1>i, AuthAssumption DEF Profiles
    <3>q. QED
      BY <2>1, <3>1, <3>2
  <2>4. catalog'[Default] = catalog[Default] \/ meta.active # NoProfile
    BY <2>1, <2>3, <1>t
  <2>q. QED
    BY <2>1, <2>2, <2>4, SameHome
<1>20. CASE SelectFails
  BY <1>20, <1>i, <1>t DEF SelectFails
<1>21. CASE UndoCatalog
  <2>1. /\ op.pc = "undocatalog" /\ op.kind \in {"switch", "create"}
        /\ catalog' = [catalog EXCEPT ![op.ws] =
                          IF op.kind = "create" THEN Absent ELSE op.current]
        /\ op' = [op EXCEPT !.pc = op'.pc] /\ op'.pc \in {"clean", "failed"}
        /\ UNCHANGED <<archive, home, meta, store, initialized>>
    BY <1>21, <1>i, <1>t DEF UndoCatalog
  <2>2. Settled(Default)' = Settled(Default)
    BY <2>1, <1>t DEF Settled, Flux
  <2>3. op.ws = Default => meta.active # NoProfile
    BY <2>1, <1>i, AuthAssumption DEF Applied, InWork, Profiles
  <2>4. catalog'[Default] = catalog[Default] \/ meta.active # NoProfile
    BY <2>1, <2>3, <1>t
  <2>q. QED
    BY <2>1, <2>2, <2>4, SameHome
<1>22. CASE RemoveHome
  <2>1. op.ws # Default
    BY <1>22, <1>i DEF RemoveHome, Chosen
  <2>2. Settled(Default)' = Settled(Default)
    BY <1>22, <2>1, <1>t DEF RemoveHome, Settled, Flux
  <2>q. QED
    BY <1>22, <2>2, SameHome DEF RemoveHome
<1>23. CASE MigrateKey
  <2>1. PICK c \in meta.known \intersect Channels :
          archive[c] = NoLogin /\ archive' = [archive EXCEPT ![c] = OldKey(c)]
    BY <1>23, Migrating
  <2>2. /\ op.pc = "migrate" /\ store.place = "old" /\ ~initialized
        /\ UNCHANGED <<home, catalog, meta, store, op, initialized>>
    BY <1>23, Migrating
  <2> DEFINE h == home[Default]
  <2>3. Settled(Default) = h /\ Settled(Default)' = h /\ h' = h
    BY <2>2 DEF Settled
  <2>4. ~HasKey(NoLogin)
    BY AuthAssumption DEF HasKey, NoLogin, Profiles
  <2>5. Consistent(h)'
    BY <2>1, <2>2, <2>3, <2>4, <1>i, <1>t DEF HasKey, Profiles
  <2>q. QED
    BY <2>2, <2>3, <2>5, <1>i
<1>24. CASE SaveVersion
  <2>1. Settled(Default) = home[Default] /\ Settled(Default)' = home[Default]
    BY <1>24, Versioned, <1>t
  <2>2. Consistent(Settled(Default))'
    BY <1>24, Versioned, <2>1, <1>i DEF HasKey
  <2>3. ~initialized' /\ op'.pc # "bootstrap" /\ UNCHANGED <<meta, catalog>>
    BY <1>24, Versioned
  <2>q. QED
    BY <2>1, <2>2, <2>3, <1>i
<1>25. CASE Capture
  <2>1. Settled(Default)' = Settled(Default)
    BY <1>25, <1>i, <1>t DEF Capture, Settled, Flux
  <2>q. QED
    BY <1>25, <2>1, <1>i, <1>t, SameHome DEF Capture
<1>26. CASE Snapshot
  BY <1>26, <1>i, <1>t DEF Snapshot
<1>27. CASE SaveProfiles
  <2>1. /\ op.pc = "save" /\ op' = [op EXCEPT !.pc = "reconcile"]
        /\ meta'.active \in {meta.active, Personal}
        /\ meta'.known = meta.known \union {Personal}
        /\ UNCHANGED <<archive, home, catalog, initialized>>
    BY <1>27, <1>t DEF SaveProfiles, Metadata
  <2>2. ~initialized /\ store.place \notin {"old", "legacy"}
    BY <2>1, <1>i DEF Course
  <2>3. Settled(Default) = home[Default] /\ Settled(Default)' = home[Default]
    BY <2>1, <1>t
  <2>4. Consistent(Settled(Default))'
    BY <2>1, <2>2, <2>3, <1>i
  <2>5. op'.pc = "reconcile"
    BY <2>1, <1>t
  <2>q. QED
    BY <2>1, <2>2, <2>3, <2>4, <2>5, <1>i, AuthAssumption DEF Profiles
<1>28. CASE Reconcile
  <2>1. Settled(Default) = home[Default] /\ Settled(Default)' = home[Default]
    BY <1>28, Reconciled, <1>t
  <2>2. Consistent(Settled(Default))'
    BY <1>28, Reconciled, <2>1, <1>i
  <2>3. meta'.active \in Channels => home[Default].auth # NoLogin
    BY <1>28, Reconciled, AuthAssumption DEF Shows, NoLogin, Profiles
  <2>4. meta'.active \in Profiles => Matches(home[Default], meta.active)'
    BY <1>28, Reconciled
  <2>5. meta'.active = NoProfile => catalog'[Default] \in {Absent, NoProfile}
    BY <1>28, Reconciled, <1>i, <1>t, AuthAssumption DEF Metadata
  <2>q. QED
    BY <1>28, Reconciled, <2>1, <2>2, <2>3, <2>4, <2>5
<1>29. CASE Bootstrap
  BY <1>29, <1>i, <1>t, Booted
<1>30. CASE InitializeFails
  BY <1>30, <1>i, <1>t DEF InitializeFails
<1>31. CASE Issue
  BY <1>31, <1>i, <1>t, Issued
<1>32. CASE IssueFails
  BY <1>32, <1>i, <1>t DEF IssueFails
<1>33. CASE ArchiveKey
  <2>1. \A c \in meta.known \intersect Channels : archive'[c] = archive[c]
    BY <1>33, <1>i, <1>t DEF ArchiveKey, Known
  <2>2. Settled(Default)' = Settled(Default)
    BY <1>33, <1>t DEF ArchiveKey, Settled, Flux
  <2>q. QED
    BY <1>33, <2>1, <2>2, SameHome DEF ArchiveKey
<1>34. CASE Know
  BY <1>34, <1>i, <1>t DEF Know, Saved, Writing, Metadata
<1>35. CASE Finalize
  BY <1>35, <1>i, <1>t DEF Finalize
<1>36. CASE Adopt
  <2>1. meta.active = op.profile /\ op.profile \in Channels
    BY <1>36, <1>i DEF Adopt, Applied
  <2>2. meta.active # NoProfile
    BY <2>1, AuthAssumption DEF Profiles
  <2>3. Settled(Default)' = Settled(Default)
    BY <1>36, <1>t DEF Adopt, Settled, Flux
  <2>q. QED
    BY <1>36, <2>2, <2>3, SameHome DEF Adopt
<1>37. CASE InstallFails
  BY <1>37, <1>i, <1>t DEF InstallFails
<1>38. CASE Finish
  BY <1>38, <1>i, <1>t, Finished
<1>39. CASE DesktopLogin
  <2>1. /\ desktop \in Workspaces /\ catalog[desktop] = Personal
        /\ home' = [home EXCEPT ![desktop].auth = ChatGPT(logins + 1)]
        /\ UNCHANGED <<archive, catalog, meta, store, op, initialized>>
    BY <1>39, Sorts DEF DesktopLogin
  <2>2. op.pc \in InWork => desktop # op.ws
    BY Unseen
  <2>3. CASE desktop # Default
    <3>1. Settled(Default)' = Settled(Default)
      BY <2>1, <2>3, <1>t
    <3>q. QED
      BY <2>1, <3>1, SameHome
  <2>4. CASE desktop = Default
    <3>1. Settled(Default) = home[Default] /\ Settled(Default)' = home'[Default]
      BY <2>1, <2>2, <2>4 DEF InWork
    <3>2. Matches(home[Default], Personal)
      BY <2>1, <2>2, <2>4, <1>i DEF Matching, Profiles
    <3>3. /\ home'[Default].config = "own" /\ home'[Default].auth.owner = Personal
          /\ home[Default].auth.owner \in {Personal, NoProfile}
      BY <2>1, <2>4, <3>2, <1>t DEF Home, ChatGPT, Shows
    <3>4. Consistent(home[Default])'
      BY <3>3, AuthAssumption DEF HasKey
    <3>5. home'[Default].auth # NoLogin
      BY <3>3, AuthAssumption DEF NoLogin, Profiles
    <3>6. meta.active \in Profiles /\ (initialized \/ op.pc = "bootstrap")
            => meta.active = Personal
      BY <3>1, <3>3, <1>i, AuthAssumption DEF Shows, Profiles
    <3>7. Matches(home[Default], Personal)'
      BY <3>3, AuthAssumption DEF Shows
    <3>q. QED
      BY <2>1, <3>1, <3>4, <3>5, <3>6, <3>7, <1>i, AuthAssumption DEF Profiles
  <2>q. QED
    BY <2>3, <2>4
<1>40. CASE UNCHANGED vars
  BY <1>40, <1>i, <1>t DEF vars
<1>q. QED
  BY <1>s, <1>1, <1>2, <1>3, <1>4, <1>5, <1>6, <1>7, <1>8, <1>9, <1>10, <1>11,
     <1>12, <1>13, <1>14, <1>15, <1>16, <1>17, <1>18, <1>19, <1>20, <1>21,
     <1>22, <1>23, <1>24, <1>25, <1>26, <1>27, <1>28, <1>29, <1>30, <1>31,
     <1>32, <1>33, <1>34, <1>35, <1>36, <1>37, <1>38, <1>39, <1>40 DEF Sifted
LEMMA LeftHomesStep ==
  ASSUME Whole, Sound, OneFault, OneFault', [Next]_vars
  PROVE  LeftHomes'
<1> USE AuthAssumption DEF LeftHomes, Operation, Placed, Goto, Fails, files,
        upgrade, outside, ApplyPoints, UndoPoints, InitPoints, Between
<1>t. /\ op \in Operation
      /\ meta \in Metadata
      /\ archive \in [Profiles -> Login]
      /\ home \in [Workspaces -> Home]
      /\ catalog \in [Workspaces -> Profiles \union {NoProfile, Absent}]
      /\ initialized \in BOOLEAN
  BY Sorts
<1>s. Sifted
  BY Sifts
<1>i. LeftHomes /\ Placed /\ Ready /\ Saved /\ Undone /\ Origin
  BY DEF Sound, Whole, Base
<1>1. CASE BeginPrepare
  BY <1>1, <1>i, <1>t, Starts DEF BeginPrepare, FirstStep, FromBootstrap, Idle
<1>2. ASSUME NEW c \in Channels, BeginInstall(c)
      PROVE  LeftHomes'
  BY <1>2, <1>i, <1>t, Starts DEF BeginInstall, FirstStep, FromBootstrap, Idle
<1>3. ASSUME NEW w \in Workspaces, NEW p \in Profiles, BeginSwitch(w, p)
      PROVE  LeftHomes'
  BY <1>3, <1>i, <1>t, Begun DEF Idle
<1>4. ASSUME NEW w \in Workspaces, NEW p \in Profiles, BeginCreate(w, p)
      PROVE  LeftHomes'
  BY <1>4, <1>i, <1>t, Begun DEF Idle
<1>5. ASSUME NEW w \in Workspaces, Activate(w) PROVE LeftHomes'
  BY <1>5, <1>i, <1>t DEF Activate, GateOpen, Registered, Idle
<1>6. CASE Launch
  BY <1>6, <1>i, <1>t DEF Launch, GateOpen, Idle
<1>7. CASE LoadTarget
  BY <1>7, <1>i, <1>t, Loaded
<1>8. CASE Checkpoint
  BY <1>8, <1>i, <1>t, Checked
<1>9. CASE CheckpointFails
  BY <1>9, <1>i, <1>t DEF CheckpointFails
<1>10. CASE KeepConfig
  BY <1>10, <1>i, <1>t DEF KeepConfig
<1>11. CASE WriteAuth
  BY <1>11, <1>i, <1>t DEF WriteAuth, Ready
<1>12. CASE WriteConfig
  BY <1>12, <1>i, <1>t DEF WriteConfig, Ready
<1>13. CASE MarkOwner
  BY <1>13, <1>i, <1>t DEF MarkOwner
<1>14. CASE CommitMeta
  BY <1>14, <1>i, <1>t, Committed
<1>15. CASE ApplyFails
  BY <1>15, <1>i, <1>t DEF ApplyFails
<1>16. CASE UndoAuth
  BY <1>16, <1>i, <1>t DEF UndoAuth, Ready
<1>17. CASE UndoConfig
  BY <1>17, <1>i, <1>t DEF UndoConfig, Ready
<1>18. CASE UndoMeta
  BY <1>18, <1>i, <1>t DEF UndoMeta, AfterError, Saved
<1>19. CASE Select
  <2>1. op.profile \in Profiles
    BY <1>19, <1>i DEF Select
  <2>2. \A w \in Workspaces : catalog'[w] = Absent => catalog[w] = Absent
    BY <1>19, <2>1, <1>t DEF Select
  <2>q. QED
    BY <1>19, <2>2, <1>i, Sorts DEF Select
<1>20. CASE SelectFails
  BY <1>20, <1>i, <1>t DEF SelectFails
<1>21. CASE UndoCatalog
  BY <1>21, <1>i, <1>t DEF UndoCatalog, Undone, Origin, InWork, Profiles
<1>22. CASE RemoveHome
  BY <1>22, <1>i, <1>t DEF RemoveHome, Ready
<1>23. CASE MigrateKey
  <2>1. PICK c \in meta.known \intersect Channels :
          archive[c] = NoLogin /\ archive' = [archive EXCEPT ![c] = OldKey(c)]
    BY <1>23, Migrating
  <2>2. UNCHANGED <<home, catalog, meta, old, initialized>>
    BY <1>23, Migrating
  <2>3. \A d \in Channels : archive'[d] \in {archive[d], OldKey(d)}
    BY <2>1, <1>t DEF Profiles
  <2>q. QED
    BY <2>2, <2>3, <1>i
<1>24. CASE SaveVersion
  BY <1>24, <1>i, <1>t, Versioned
<1>25. CASE Capture
  BY <1>25, <1>i, <1>t DEF Capture
<1>26. CASE Snapshot
  BY <1>26, <1>i, <1>t DEF Snapshot
<1>27. CASE SaveProfiles
  BY <1>27, <1>i, <1>t DEF SaveProfiles
<1>28. CASE Reconcile
  BY <1>28, <1>i, <1>t, Reconciled
<1>29. CASE Bootstrap
  <2>1. \A c \in Channels : old[c] # NoWorkspace =>
          catalog'[old[c]] # Absent
    BY <1>29, Booted, Sorts, <1>i DEF Profiles
  <2>q. QED
    BY <1>29, Booted, <2>1, <1>i
<1>30. CASE InitializeFails
  BY <1>30, <1>i, <1>t DEF InitializeFails
<1>31. CASE Issue
  BY <1>31, <1>i, <1>t, Issued
<1>32. CASE IssueFails
  BY <1>32, <1>i, <1>t DEF IssueFails
<1>33. CASE ArchiveKey
  BY <1>33, <1>i, <1>t DEF ArchiveKey, Ready
<1>34. CASE Know
  BY <1>34, <1>i, <1>t DEF Know, Saved, Writing, Metadata
<1>35. CASE Finalize
  BY <1>35, <1>i, <1>t DEF Finalize
<1>36. CASE Adopt
  BY <1>36, <1>i, <1>t DEF Adopt, Profiles
<1>37. CASE InstallFails
  BY <1>37, <1>i, <1>t DEF InstallFails
<1>38. CASE Finish
  BY <1>38, <1>i, <1>t, Finished
<1>39. CASE DesktopLogin
  <2>1. /\ desktop \in Workspaces /\ catalog[desktop] # Absent
        /\ home' = [home EXCEPT ![desktop].auth = ChatGPT(logins + 1)]
        /\ UNCHANGED <<archive, catalog, meta, old, initialized>>
    BY <1>39, Sorts DEF DesktopLogin, Profiles
  <2>2. \A w \in Workspaces : catalog[w] = Absent => home'[w] = home[w]
    BY <2>1, <1>t
  <2>q. QED
    BY <2>1, <2>2, <1>i, Sorts
<1>40. CASE UNCHANGED vars
  BY <1>40, <1>i, <1>t DEF vars
<1>q. QED
  BY <1>s, <1>1, <1>2, <1>3, <1>4, <1>5, <1>6, <1>7, <1>8, <1>9, <1>10, <1>11,
     <1>12, <1>13, <1>14, <1>15, <1>16, <1>17, <1>18, <1>19, <1>20, <1>21,
     <1>22, <1>23, <1>24, <1>25, <1>26, <1>27, <1>28, <1>29, <1>30, <1>31,
     <1>32, <1>33, <1>34, <1>35, <1>36, <1>37, <1>38, <1>39, <1>40 DEF Sifted
LEMMA PureStep ==
  ASSUME Whole, Sound, OneFault, OneFault', [Next]_vars
  PROVE  Pure'
<1> USE AuthAssumption DEF Pure, Operation, Placed, Goto, Fails, files,
        upgrade, outside, ApplyPoints, InitPoints, InstallPoints
<1>t. /\ op \in Operation
      /\ meta \in Metadata
      /\ archive \in [Profiles -> Login]
      /\ home \in [Workspaces -> Home]
  BY Sorts
<1>s. Sifted
  BY Sifts
<1>i. Pure /\ Placed /\ Undone /\ Origin /\ DefaultHome /\ Course
  BY DEF Sound, Whole, Base
<1>1. CASE BeginPrepare
  BY <1>1, <1>i, <1>t, Starts DEF BeginPrepare, FirstStep, FromBootstrap, Idle
<1>2. ASSUME NEW c \in Channels, BeginInstall(c) PROVE Pure'
  BY <1>2, <1>i, <1>t, Starts DEF BeginInstall, FirstStep, FromBootstrap, Idle
<1>3. ASSUME NEW w \in Workspaces, NEW p \in Profiles, BeginSwitch(w, p)
      PROVE  Pure'
  BY <1>3, <1>i, <1>t, Begun DEF Idle
<1>4. ASSUME NEW w \in Workspaces, NEW p \in Profiles, BeginCreate(w, p)
      PROVE  Pure'
  BY <1>4, <1>i, <1>t, Begun DEF Idle
<1>5. ASSUME NEW w \in Workspaces, Activate(w) PROVE Pure'
  BY <1>5, <1>i, <1>t DEF Activate, GateOpen, Registered, Idle
<1>6. CASE Launch
  BY <1>6, <1>i, <1>t DEF Launch, GateOpen, Idle
<1>7. CASE LoadTarget
  BY <1>7, <1>i, <1>t, Loaded
<1>8. CASE Checkpoint
  BY <1>8, <1>i, <1>t, Checked
<1>9. CASE CheckpointFails
  BY <1>9, <1>i, <1>t DEF CheckpointFails
<1>10. CASE KeepConfig
  <2>1. op.pc = "keep" /\ op.kind = "switch" /\ op.current = Personal
    BY <1>10, <1>i DEF KeepConfig
  <2>2. home[op.ws] = op.before.home /\ op.before.choice = Personal
    BY <2>1, <1>i DEF Undone, Origin, Settled, Flux, UndoPoints
  <2>3. home[op.ws].config = "own"
    BY <2>1, <2>2, <1>i DEF Origin, Matches, Shows
  <2>q. QED
    BY <1>10, <2>1, <2>3, <1>i, <1>t DEF KeepConfig, Captured
<1>11. CASE WriteAuth
  BY <1>11, <1>i, <1>t DEF WriteAuth
<1>12. CASE WriteConfig
  BY <1>12, <1>i, <1>t DEF WriteConfig
<1>13. CASE MarkOwner
  BY <1>13, <1>i, <1>t DEF MarkOwner
<1>14. CASE CommitMeta
  BY <1>14, <1>i, <1>t, Committed
<1>15. CASE ApplyFails
  BY <1>15, <1>i, <1>t DEF ApplyFails
<1>16. CASE UndoAuth
  BY <1>16, <1>i, <1>t DEF UndoAuth
<1>17. CASE UndoConfig
  BY <1>17, <1>i, <1>t DEF UndoConfig
<1>18. CASE UndoMeta
  BY <1>18, <1>i, <1>t DEF UndoMeta, AfterError
<1>19. CASE Select
  BY <1>19, <1>i, <1>t DEF Select, Activatable
<1>20. CASE SelectFails
  BY <1>20, <1>i, <1>t DEF SelectFails
<1>21. CASE UndoCatalog
  BY <1>21, <1>i, <1>t DEF UndoCatalog
<1>22. CASE RemoveHome
  BY <1>22, <1>i, <1>t DEF RemoveHome
<1>23. CASE MigrateKey
  <2>1. PICK c \in meta.known \intersect Channels :
          archive[c] = NoLogin /\ archive' = [archive EXCEPT ![c] = OldKey(c)]
    BY <1>23, Migrating
  <2>2. archive'[Personal] = archive[Personal]
    BY <2>1, <1>t, AuthAssumption DEF Profiles
  <2>q. QED
    BY <1>23, Migrating, <2>2, <1>i
<1>24. CASE SaveVersion
  BY <1>24, <1>i, <1>t, Versioned
<1>25. CASE Capture
  <2> DEFINE live == home[Default].auth
  <2>1. /\ op.pc = "capture" /\ op' = [op EXCEPT !.pc = "snapshot", !.target = Original]
        /\ archive' = IF Original = NoLogin THEN archive
                      ELSE [archive EXCEPT ![Personal] = Original]
        /\ UNCHANGED <<kept, home, catalog, meta, store>>
    BY <1>25 DEF Capture
  <2>2. store.place \notin {"old", "legacy"}
    BY <2>1, <1>i DEF Course
  <2>3. /\ HasKey(live) => /\ live.owner \in meta.known
                           /\ archive[live.owner] = live
        /\ ~HasKey(live) => home[Default].config = "own"
    BY <2>1, <2>2, <1>i DEF DefaultHome, Settled, Flux, UndoPoints, Consistent
  <2>4. Original # NoLogin => Original = live /\ ~HasKey(live)
    BY <2>3 DEF Original, HasKey
  <2>5. live \in Login /\ NoLogin \in Login
    BY <1>t, Logins
  <2>6. Original # NoLogin => /\ Original.owner \in {Personal, NoProfile}
                             /\ home[Default].config = "own"
    BY <2>3, <2>4, <2>5 DEF Login, HasKey, Profiles
  <2>7. op'.pc = "snapshot" /\ op'.target = Original
    BY <2>1, <1>t
  <2>8. archive'[Personal].owner \in {Personal, NoProfile}
    BY <2>1, <2>6, <1>i, <1>t DEF Profiles
  <2>q. QED
    BY <2>1, <2>6, <2>7, <2>8, <1>i
<1>26. CASE Snapshot
  BY <1>26, <1>i, <1>t DEF Snapshot, Captured
<1>27. CASE SaveProfiles
  BY <1>27, <1>i, <1>t DEF SaveProfiles
<1>28. CASE Reconcile
  BY <1>28, <1>i, <1>t, Reconciled
<1>29. CASE Bootstrap
  BY <1>29, <1>i, <1>t, Booted
<1>30. CASE InitializeFails
  BY <1>30, <1>i, <1>t DEF InitializeFails
<1>31. CASE Issue
  BY <1>31, <1>i, <1>t, Issued
<1>32. CASE IssueFails
  BY <1>32, <1>i, <1>t DEF IssueFails
<1>33. CASE ArchiveKey
  BY <1>33, <1>i, <1>t DEF ArchiveKey
<1>34. CASE Know
  BY <1>34, <1>i, <1>t DEF Know
<1>35. CASE Finalize
  BY <1>35, <1>i, <1>t DEF Finalize
<1>36. CASE Adopt
  BY <1>36, <1>i, <1>t DEF Adopt
<1>37. CASE InstallFails
  BY <1>37, <1>i, <1>t DEF InstallFails
<1>38. CASE Finish
  BY <1>38, <1>i, <1>t, Finished
<1>39. CASE DesktopLogin
  BY <1>39, <1>i, <1>t, Unseen DEF DesktopLogin
<1>40. CASE UNCHANGED vars
  BY <1>40, <1>i, <1>t DEF vars
<1>q. QED
  BY <1>s, <1>1, <1>2, <1>3, <1>4, <1>5, <1>6, <1>7, <1>8, <1>9, <1>10, <1>11,
     <1>12, <1>13, <1>14, <1>15, <1>16, <1>17, <1>18, <1>19, <1>20, <1>21,
     <1>22, <1>23, <1>24, <1>25, <1>26, <1>27, <1>28, <1>29, <1>30, <1>31,
     <1>32, <1>33, <1>34, <1>35, <1>36, <1>37, <1>38, <1>39, <1>40 DEF Sifted
LEMMA SoundStep ==
  ASSUME Whole, Sound, OneFault, OneFault', [Next]_vars
  PROVE  Sound'
BY RestingStep, KnownStep, AwayStep, SavedStep, UndoneStep, OriginStep,
   VacantStep, AppliedStep, MatchingStep, DefaultHomeStep, LeftHomesStep, PureStep
   DEF Sound

\* At the start the homes of an earlier version have the keys it issued.
LEMMA InitSound == Init => Sound
<1> SUFFICES ASSUME Init PROVE Sound
  OBVIOUS
<1>0. Whole
  BY InitWhole
<1>1. /\ op = NoOp /\ op.pc = "idle" /\ op.kind = "prepare"
      /\ active = Default /\ desktop = NoWorkspace /\ ~initialized
      /\ \A w \in Workspaces : catalog[w] = Absent
  BY DEF Init, NoOp
<1>2. /\ ~op.auto /\ ~op.wasRunning
  BY <1>1 DEF NoOp
<1> USE AuthAssumption, <1>1, <1>2 DEF InWork, Flux, ApplyPoints, UndoPoints,
        Writing, InstallPoints
<1>3. Resting /\ Away /\ Saved /\ Undone /\ Origin /\ Vacant /\ Applied /\ Matching
  BY DEF Resting, Idle, Away, Saved, Undone, Origin, Vacant, Applied, Matching,
     Profiles
<1>4. Settled(Default) = home[Default]
  BY DEF Settled
<1>5. ASSUME Fresh PROVE Known /\ DefaultHome /\ LeftHomes /\ Pure
  <2>1. /\ meta.active = NoProfile /\ old = [c \in Channels |-> NoWorkspace]
        /\ archive[Personal] = NoLogin /\ kept = "none"
    BY <1>5 DEF Fresh, Profiles
  <2>2. home[Default].config = "own" /\ home[Default].auth.owner \in {NoProfile, Personal}
    BY <1>5 DEF Fresh, NoLogin, ChatGPT
  <2>3. ~HasKey(home[Default].auth)
    BY <2>2 DEF HasKey, Profiles
  <2>q. QED
    BY <1>4, <2>1, <2>2, <2>3 DEF Known, DefaultHome, Consistent, LeftHomes, Pure,
       NoLogin, Profiles
<1>6. ASSUME Upgraded PROVE Known /\ DefaultHome /\ LeftHomes /\ Pure
  <2>1. PICK channels \in (SUBSET Channels) \ {{}} :
          \E archived \in SUBSET channels,
             live \in {NoLogin, ChatGPT(1)} \union {OldKey(c) : c \in Channels} :
            LeftBehind(channels, archived, live)
    BY <1>6 DEF Upgraded
  <2> PICK archived \in SUBSET channels,
           live \in {NoLogin, ChatGPT(1)} \union {OldKey(c) : c \in Channels} :
        LeftBehind(channels, archived, live)
    BY <2>1
  <2>2. /\ meta.active \in {NoProfile} \union channels
        /\ channels \subseteq meta.known /\ channels \subseteq Channels
        /\ meta.active # NoProfile => live # NoLogin
        /\ kept \in {"none", "own"} /\ store.place \in {"old", "legacy"}
        /\ HasKey(live) => live.owner \in channels
    BY DEF LeftBehind, AllOrigins
  <2>3. \A p \in Profiles : /\ archive[p] \in {NoLogin, OldKey(p)}
                            /\ p \notin Channels => archive[p] = NoLogin
    BY <2>2 DEF LeftBehind
  <2>4. home[Default] = HomeOf(live)
    BY DEF LeftBehind
  <2>5. \A c \in Channels : old[c] # NoWorkspace =>
          /\ c \in channels /\ old[c] \in Workspaces \ {Default}
          /\ \A d \in Channels : old[c] = old[d] => c = d
    BY DEF LeftBehind
  <2>6. ASSUME NEW c \in Channels, old[c] # NoWorkspace
        PROVE  home[old[c]] = HomeOf(OldKey(c))
    <3> DEFINE d == CHOOSE e \in channels : old[e] = old[c]
    <3>1. d \in channels /\ old[d] = old[c]
      BY <2>5, <2>6
    <3> HIDE DEF d
    <3>2. d = c
      BY <2>2, <2>5, <2>6, <3>1
    <3>3. home[old[c]] = HomeOf(OldKey(d))
      BY <2>5, <2>6 DEF LeftBehind, d
    <3>q. QED
      BY <3>2, <3>3
  <2>7. Known
    BY <2>2 DEF Known, Profiles
  <2>8. Consistent(home[Default])
    <3>1. CASE HasKey(live)
      <4>1. live = OldKey(live.owner) /\ live.owner \in Channels
        BY <3>1 DEF HasKey, NoLogin, ChatGPT, OldKey, Key, Profiles
      <4>q. QED
        BY <2>2, <2>3, <2>4, <3>1, <4>1 DEF Consistent, HomeOf, Profiles
    <3>2. CASE ~HasKey(live)
      BY <2>4, <3>2 DEF Consistent, HomeOf
    <3>q. QED
      BY <3>1, <3>2
  <2>9. DefaultHome
    BY <1>4, <2>2, <2>4, <2>8 DEF DefaultHome, HomeOf, Profiles
  <2>10. LeftHomes
    BY <2>2, <2>3, <2>5, <2>6 DEF LeftHomes, Profiles
  <2>11. Pure
    BY <2>2, <2>3 DEF Pure, NoLogin, Profiles
  <2>q. QED
    BY <2>7, <2>9, <2>10, <2>11
<1>q. QED
  BY <1>3, <1>5, <1>6 DEF Init, Sound

LEMMA OneFaultSound == Spec => [](OneFault => Sound)
<1>1. Init => Whole /\ (OneFault => Sound)
  BY InitWhole, InitSound
<1>2. Whole /\ (OneFault => Sound) /\ [Next]_vars => Whole' /\ (OneFault => Sound)'
  <2> SUFFICES ASSUME Whole, OneFault => Sound, [Next]_vars, OneFault'
               PROVE  Sound'
    BY WholeStep
  <2>1. OneFault /\ Sound
    BY Earlier
  <2>q. QED
    BY <2>1, SoundStep
<1>q. QED
  BY <1>1, <1>2, PTL DEF Spec

\* With one failing write no platform key reaches the archive of the ChatGPT
\* profile, and no login or foreign key that of a channel: a checkpoint always
\* finds what belongs to the profile it archives for (credential.rs:1217).
THEOREM PureWithOneFault == Spec => [](OneFault => ArchivesPure)
<1>1. Whole /\ OneFault /\ Sound => ArchivesPure
  BY Archived DEF ArchivesPure, Profiles, NoLogin
<1>q. QED
  BY <1>1, Inductive, OneFaultSound, PTL

\* With one failing write the catalog tells the truth about every home between
\* operations: the files of the home go back before the catalog does.
THEOREM AgreesWithOneFault == Spec => [](OneFault => HomesAgree)
<1>1. Whole /\ OneFault /\ Sound => HomesAgree
  BY AuthAssumption, Sorts
     DEF Sound, Matching, Matches, HomesAgree, Idle, InWork, ApplyPoints,
         UndoPoints, Registered
<1>q. QED
  BY <1>1, Inductive, OneFaultSound, PTL

\* A switch or a creation that fails at one write, whichever, leaves the home,
\* the catalog and the metadata as they were
\* (docs/codex-home-ownership-and-launch.md:42).
THEOREM OneFaultLeavesNoTrace == Spec => [](OneFault => FailedLeavesNoTrace)
<1>1. Whole /\ OneFault /\ Sound => FailedLeavesNoTrace
  BY DEF Sound, Undone, Settled, Flux, FailedLeavesNoTrace, InWork, ApplyPoints,
         UndoPoints
<1>q. QED
  BY <1>1, Inductive, OneFaultSound, PTL

=============================================================================
