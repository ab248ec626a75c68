---------------------------- MODULE AuthProfiles ----------------------------
(***************************************************************************)
(* Authentication profiles and the Codex workspaces that use them: the     *)
(* credential archive and its metadata (credential.rs), the workspace      *)
(* catalog (codex_workspace.rs), the auth.json and config.toml of every    *)
(* workspace's home, and the operations that move logins between them      *)
(* (main.rs: switch, create, re-authorize, activate, launch; setup.rs: the *)
(* profile part of an installation; state_access.rs: the initialization of *)
(* the local data, which also takes over what earlier versions left).      *)
(*                                                                         *)
(* Each of these operations writes several files, one after the other, and *)
(* any write may fail or be the last one of a dying process.  Operations   *)
(* are serial, as SetupLifecycle shows, so one record follows the one that *)
(* runs.  A failed write leaves the old file.  The ownership marker, the   *)
(* timestamps and the names are left out; so are the settings of           *)
(* config.toml other than the choice of the provider, a ChatGPT login kept *)
(* in the system's keyring and a CODEX_HOME that is not ~/.codex.          *)
(***************************************************************************)
EXTENDS Integers, FiniteSets

CONSTANTS
  Channels,     \* baijimu profiles, one for each platform workspace
  Personal,     \* the ChatGPT login profile
  NoProfile,    \* no profile selected
  Workspaces,   \* Codex workspaces, registered or not yet
  Default,      \* the workspace whose home is ~/.codex
  NoWorkspace,  \* no workspace
  Kinds,        \* the operations clients ask for, a subset of AllKinds
  Origins,      \* what the first start finds, a subset of AllOrigins
  MaxLogins,    \* bound: ChatGPT logins and refreshes
  MaxKeys,      \* bound: keys issued
  MaxFaults,    \* bound: failing writes
  MaxCrashes    \* bound: deaths of the process

AllKinds == {"prepare", "install", "switch", "create", "reauthorize"}

\* No local data, data of an earlier version, or data of a version that kept
\* its metadata elsewhere.
AllOrigins == {"fresh", "old", "legacy"}

Profiles == Channels \union {Personal}

Absent == "absent"    \* not in the catalog

ASSUME AuthAssumption ==
  /\ MaxLogins \in Nat /\ MaxKeys \in Nat
  /\ MaxFaults \in Nat /\ MaxCrashes \in Nat
  /\ Kinds \subseteq AllKinds /\ Origins \subseteq AllOrigins
  /\ Personal \notin Channels /\ NoProfile \notin Profiles
  /\ Channels # {}
  /\ Default \in Workspaces /\ NoWorkspace \notin Workspaces
  /\ Absent \notin Profiles \union {NoProfile}

VARIABLES
  archive,      \* the private credential of each profile
  kept,         \* the configuration archived with the Personal profile
  home,         \* auth.json and config.toml of each workspace's home
  catalog,      \* registered workspaces and the profile each one selected
  active,       \* the active workspace, in the same file
  meta,         \* credential metadata: known profiles, the active one
  store,        \* its place and version; TRUE: it was imported
  old,          \* the home an earlier version gave each channel
  desktop,      \* the workspace whose home the desktop application uses
  op,           \* the operation that runs
  initialized,  \* TRUE: the local data initialization has succeeded
  setup,        \* status of the installation
  logins, keys, faults, crashes

vars == <<archive, kept, home, catalog, active, meta, store, old, desktop, op,
          initialized, setup, logins, keys, faults, crashes>>

upgrade == <<store, old>>
files == <<archive, kept, home, catalog, active, meta, upgrade>>
outside == <<desktop, initialized, setup, logins, keys, crashes>>

-----------------------------------------------------------------------------
(* Logins: the content of an auth.json.                                    *)

Login == [owner: Profiles \union {NoProfile}, n: Nat]

NoLogin == [owner |-> NoProfile, n |-> 0]    \* no file
Key(c, n) == [owner |-> c, n |-> n]
ChatGPT(n) == [owner |-> Personal, n |-> n]

OldKey(c) == Key(c, 0)    \* issued by an earlier version
HasKey(login) == login.owner \in Channels

\* A key of a channel is a usable file for the Personal profile too.
Usable(login, p) ==
  /\ login # NoLogin
  /\ p \in Channels => HasKey(login)

\* config.toml selects the baijimu provider, or it does not, or there is none.
Configs == {"none", "own", "managed"}
Captured(config) == IF config = "managed" THEN "managed" ELSE "own"

Home == [auth: Login, config: Configs]
EmptyHome == [auth |-> NoLogin, config |-> "none"]

Metadata == [active: Profiles \union {NoProfile}, known: SUBSET Profiles]

Registered == {w \in Workspaces : catalog[w] # Absent}

-----------------------------------------------------------------------------
(* The running operation.                                                  *)

ApplyPoints == {"load", "checkpoint", "keep", "auth", "config", "owner",
                "meta"}
UndoPoints == {"undoauth", "undoconfig", "undometa"}
Points == ApplyPoints \union UndoPoints \union
  {"idle", "ok", "failed", "import", "migrate", "capture", "snapshot", "save",
   "reconcile", "bootstrap", "issue", "archive",
   "know", "finalize", "adopt", "select", "register", "undocatalog", "clean",
   "rearchive", "resync", "resave", "refresh"}

NoOp == [kind |-> "prepare", pc |-> "idle", ws |-> Default,
         profile |-> NoProfile, current |-> NoProfile, checkpoint |-> FALSE,
         wasRunning |-> FALSE, target |-> NoLogin, saved |-> EmptyHome,
         savedMeta |-> [active |-> NoProfile, known |-> {}], auto |-> FALSE,
         key |-> NoLogin, todo |-> {},
         before |-> [home |-> EmptyHome, choice |-> Absent,
                     meta |-> [active |-> NoProfile, known |-> {}]]]

Idle == op.pc = "idle"

\* ensure_default_workspace_ready.
GateOpen == setup = "succeeded" /\ initialized

\* No data of the manager: only ~/.codex, with a ChatGPT login or none.
Fresh ==
  /\ "fresh" \in Origins
  /\ store = [place |-> "none", imported |-> FALSE]
  /\ old = [c \in Channels |-> NoWorkspace]
  /\ archive = [p \in Profiles |-> NoLogin] /\ kept = "none"
  /\ \E login \in {NoLogin, ChatGPT(1)} :
       /\ home = [w \in Workspaces |->
                    IF w = Default THEN [auth |-> login, config |-> "own"]
                    ELSE EmptyHome]
       /\ logins = login.n
  /\ meta = [active |-> NoProfile, known |-> {}]
  /\ setup = "pending"

HomeOf(login) ==
  [auth |-> login, config |-> IF HasKey(login) THEN "managed" ELSE "own"]

\* Data of an earlier version: some channels, each with its key in an archive,
\* in a home of its own or in ~/.codex, where the user may have signed in since.
LeftBehind(channels, archived, live) ==
  /\ HasKey(live) => live.owner \in channels
  /\ store \in [place: Origins \ {"fresh"}, imported: {FALSE}]
  /\ old \in [Channels -> (Workspaces \ {Default}) \union {NoWorkspace}]
  /\ \A c, d \in Channels :
       old[c] # NoWorkspace => c \in channels /\ (old[c] = old[d] => c = d)
  /\ \A c \in channels :
       c \in archived \/ old[c] # NoWorkspace \/ live = OldKey(c)
  /\ archive = [p \in Profiles |->
                  IF p \in archived THEN OldKey(p) ELSE NoLogin]
  /\ home = [w \in Workspaces |->
               IF w = Default THEN HomeOf(live)
               ELSE IF \E c \in channels : old[c] = w
               THEN HomeOf(OldKey(CHOOSE c \in channels : old[c] = w))
               ELSE EmptyHome]
  /\ logins = IF live = ChatGPT(1) THEN 1 ELSE 0
  /\ meta \in [active: {NoProfile} \union channels,
               known: {channels, channels \union {Personal}}]
  /\ meta.active # NoProfile => live # NoLogin
  /\ kept \in {"none", "own"} /\ (kept = "own" => Personal \in meta.known)
  /\ setup \in {"pending", "succeeded"}
  /\ setup = "succeeded" => meta.active # NoProfile

Upgraded ==
  \E channels \in (SUBSET Channels) \ {{}} :
    \E archived \in SUBSET channels,
       live \in {NoLogin, ChatGPT(1)} \union {OldKey(c) : c \in Channels} :
      LeftBehind(channels, archived, live)

Init ==
  /\ Fresh \/ Upgraded
  /\ catalog = [w \in Workspaces |-> Absent]
  /\ active = Default
  /\ desktop = NoWorkspace
  /\ op = NoOp
  /\ initialized = FALSE
  /\ keys = 0 /\ faults = 0 /\ crashes = 0

Goto(from, to) == op.pc = from /\ op' = [op EXCEPT !.pc = to]

\* A write fails: the file is as before, the operation turns to its error path.
Fails(from, to) ==
  /\ faults < MaxFaults
  /\ faults' = faults + 1
  /\ Goto(from, to)
  /\ UNCHANGED files

-----------------------------------------------------------------------------
(* Requests.                                                               *)

Start(kind, pc, ws, profile) ==
  [NoOp EXCEPT !.kind = kind, !.pc = pc, !.ws = ws, !.profile = profile,
               !.before = [home |-> home[ws], choice |-> catalog[ws],
                           meta |-> meta]]

\* The desktop application is stopped before a file changes under it.
StopDesktopIf(condition) ==
  desktop' = IF condition THEN NoWorkspace ELSE desktop

\* Where the initialization of the local data begins: steps that would find
\* nothing to do are passed over.
PersonalReady == Personal \in meta.known /\ kept # "none"
FromBootstrap == IF PersonalReady THEN "reconcile" ELSE "capture"
FirstStep ==
  CASE store.place = "legacy" -> "import"
    [] store.place = "old" -> "migrate"
    [] OTHER -> FromBootstrap

\* prepare-local-state, and the start of an installation, which prepares
\* the local state first.
BeginPrepare ==
  /\ Idle /\ "prepare" \in Kinds
  /\ op' = Start("prepare", FirstStep, Default, NoProfile)
  /\ UNCHANGED <<files, outside, faults>>

BeginInstall(c) ==
  /\ Idle /\ "install" \in Kinds
  /\ op' = Start("install", FirstStep, Default, c)
  /\ UNCHANGED <<files, outside, faults>>

\* auth-channel: only the active workspace's desktop is stopped and only the
\* active workspace's login is archived, for the profile `current'.
SwitchFrom(w, p, current) ==
  /\ Idle /\ GateOpen /\ "switch" \in Kinds
  /\ op' = [Start("switch", "select", w, p) EXCEPT
              !.current = current, !.checkpoint = (active = w),
              !.wasRunning = (active = w /\ desktop # NoWorkspace)]
  /\ StopDesktopIf(active = w)
  /\ UNCHANGED <<files, initialized, setup, logins, keys, crashes, faults>>

\* Bug: the login is archived as the profile the workspace changes to.
BeginSwitchConfused(w, p) == w \in Registered /\ SwitchFrom(w, p, p)

\* Bug: the workspace need not be in the catalog.
BeginSwitchAnywhere(w, p) == SwitchFrom(w, p, catalog[w])

BeginSwitch(w, p) == w \in Registered /\ SwitchFrom(w, p, catalog[w])

BeginCreate(w, p) ==
  /\ Idle /\ GateOpen /\ "create" \in Kinds
  /\ w \notin Registered /\ home[w] = EmptyHome
  /\ op' = Start("create", "register", w, p)
  /\ UNCHANGED <<files, outside, faults>>

\* prepare_workspace_reauthorization issues the new key before anything is
\* stopped or locked.
BeginReauthorize(c) ==
  /\ Idle /\ GateOpen /\ "reauthorize" \in Kinds
  /\ c \in meta.known
  /\ keys < MaxKeys
  /\ keys' = keys + 1
  /\ op' = [Start("reauthorize", "rearchive", Default, c) EXCEPT
              !.key = Key(c, keys + 1),
              !.wasRunning = (catalog[active] = c /\ desktop # NoWorkspace)]
  /\ StopDesktopIf(catalog[active] = c)
  /\ UNCHANGED <<files, initialized, setup, logins, crashes, faults>>

\* workspaces/activate, as far as this module's files go.
Activate(w) ==
  /\ Idle /\ GateOpen
  /\ w \in Registered /\ catalog[w] # NoProfile
  /\ active' = w
  /\ desktop' = NoWorkspace
  /\ UNCHANGED <<archive, kept, home, catalog, meta, upgrade, op, initialized,
                 setup, logins, keys, crashes, faults>>

\* launch and restart, which may fail.
Launch ==
  /\ Idle /\ GateOpen
  /\ desktop' \in {active, NoWorkspace}
  /\ UNCHANGED <<files, op, initialized, setup, logins, keys, crashes, faults>>

\* The application refreshes its ChatGPT login or the user logs in, in a home
\* whose profile is the ChatGPT one.
DesktopLogin ==
  /\ desktop # NoWorkspace /\ catalog[desktop] = Personal
  /\ logins < MaxLogins
  /\ logins' = logins + 1
  /\ home' = [home EXCEPT ![desktop].auth = ChatGPT(logins + 1)]
  /\ UNCHANGED <<archive, kept, catalog, active, meta, upgrade, desktop,
                 op, initialized, setup, keys, crashes, faults>>

-----------------------------------------------------------------------------
(* apply_profile_to_home and activate_prepared_profile: op.profile is       *)
(* written to the home of op.ws.                                            *)

\* Where it returns to.
AfterApply ==
  CASE op.kind = "reauthorize" -> "refresh"
    [] op.kind = "install" -> "adopt"
    [] OTHER -> "ok"
AfterError == IF op.kind \in {"switch", "create"} THEN "undocatalog" ELSE "failed"

\* The archived login of the target is read, and the files to restore.
LoadTarget ==
  /\ op.pc = "load"
  /\ LET p == op.profile
         valid == /\ p \in meta.known
                  /\ archive[p] = NoLogin => p = Personal
                  /\ archive[p] # NoLogin => Usable(archive[p], p)
     IN \/ /\ valid
           /\ op' = [op EXCEPT !.pc = "checkpoint", !.target = archive[p],
                               !.saved = home[op.ws], !.savedMeta = meta,
                               !.current = IF op.kind = "install"
                                           THEN meta.active ELSE @]
        \/ ~valid /\ Goto("load", AfterError)
  /\ UNCHANGED <<files, outside, faults>>

\* checkpoint_profile_at_home: the home's login goes to the archive of the
\* profile it belongs to; a login that does not fit stops the operation.
Fits(login) ==
  IF op.current = Personal THEN login = NoLogin \/ Usable(login, Personal)
  ELSE /\ Usable(login, op.current)
       /\ archive[op.current] = login

Archivable == op.checkpoint /\ op.current \in meta.known

\* Bug: the login in the home is not archived.
CheckpointSkipped ==
  /\ Goto("checkpoint", "auth")
  /\ UNCHANGED <<files, outside, faults>>

Checkpoint ==
  /\ op.pc = "checkpoint"
  /\ LET login == home[op.ws].auth IN
     \/ /\ ~Archivable
        /\ Goto("checkpoint", "auth")
        /\ UNCHANGED archive
     \/ /\ Archivable /\ Fits(login)
        /\ archive' = IF login = NoLogin THEN archive
                      ELSE [archive EXCEPT ![op.current] = login]
        /\ Goto("checkpoint", IF op.current = Personal THEN "keep" ELSE "auth")
     \/ /\ Archivable /\ ~Fits(login)
        /\ Goto("checkpoint", "undoauth")
        /\ UNCHANGED archive
  /\ UNCHANGED <<kept, home, catalog, active, meta, upgrade, outside, faults>>

CheckpointFails ==
  /\ Archivable /\ home[op.ws].auth # NoLogin /\ Fits(home[op.ws].auth)
  /\ Fails("checkpoint", "undoauth")
  /\ UNCHANGED outside

\* The provider choice of the ChatGPT profile is archived with it.
KeepConfig ==
  /\ Goto("keep", "auth")
  /\ kept' = Captured(home[op.ws].config)
  /\ UNCHANGED <<archive, home, catalog, active, meta, upgrade, outside,
                 faults>>

WriteAuth ==
  /\ Goto("auth", "config")
  /\ home' = [home EXCEPT ![op.ws].auth = op.target]
  /\ UNCHANGED <<archive, kept, catalog, active, meta, upgrade, outside,
                 faults>>

\* Bug: the provider is only ever added.
WriteConfigOnlyManaged ==
  /\ Goto("config", "owner")
  /\ home' = [home EXCEPT ![op.ws].config =
                 IF op.profile = Personal THEN Captured(@) ELSE "managed"]
  /\ UNCHANGED <<archive, kept, catalog, active, meta, upgrade, outside,
                 faults>>

WriteConfig ==
  /\ Goto("config", "owner")
  /\ home' = [home EXCEPT ![op.ws].config =
                 IF op.profile = Personal THEN kept ELSE "managed"]
  /\ UNCHANGED <<archive, kept, catalog, active, meta, upgrade, outside,
                 faults>>

MarkOwner ==
  /\ Goto("owner", "meta")
  /\ UNCHANGED <<files, outside, faults>>

\* The home of the default workspace carries the active profile.
MetaWith(p) == [meta EXCEPT !.active = IF op.ws = Default THEN p ELSE @]

\* Bug: the active profile is not recorded.
CommitMetaUnchanged ==
  /\ Goto("meta", AfterApply)
  /\ UNCHANGED <<files, outside, faults>>

CommitMeta ==
  /\ Goto("meta", AfterApply)
  /\ meta' = MetaWith(op.profile)
  /\ UNCHANGED <<archive, kept, home, catalog, active, upgrade, outside,
                 faults>>

\* Any of these writes may fail; the snapshots are put back, in order, until
\* one cannot be.
ApplyFails ==
  /\ \E pc \in {"keep", "auth", "config", "owner", "meta"} :
       Fails(pc, "undoauth")
  /\ UNCHANGED outside

UndoAuth ==
  /\ Goto("undoauth", "undoconfig")
  /\ home' = [home EXCEPT ![op.ws].auth = op.saved.auth]
  /\ UNCHANGED <<archive, kept, catalog, active, meta, upgrade, outside,
                 faults>>

\* Bug: the configuration is not put back.
UndoNoConfig ==
  /\ Goto("undoconfig", "undometa")
  /\ UNCHANGED <<files, outside, faults>>

UndoConfig ==
  /\ Goto("undoconfig", "undometa")
  /\ home' = [home EXCEPT ![op.ws].config = op.saved.config]
  /\ UNCHANGED <<archive, kept, catalog, active, meta, upgrade, outside,
                 faults>>

UndoMeta ==
  /\ Goto("undometa", AfterError)
  /\ meta' = op.savedMeta
  /\ UNCHANGED <<archive, kept, home, catalog, active, upgrade, outside,
                 faults>>

UndoFails ==
  /\ \E pc \in UndoPoints : Fails(pc, AfterError)
  /\ UNCHANGED outside

Apply ==
  \/ LoadTarget \/ Checkpoint \/ CheckpointFails \/ KeepConfig \/ WriteAuth
  \/ WriteConfig \/ MarkOwner \/ CommitMeta \/ ApplyFails
  \/ UndoAuth \/ UndoConfig \/ UndoMeta \/ UndoFails

-----------------------------------------------------------------------------
(* switch_auth_profile and create: the catalog first.                      *)

\* prepare_profile_activation.
Activatable(p) == p \in meta.known /\ (p \in Channels => archive[p] # NoLogin)

Select ==
  /\ op.pc \in {"select", "register"}
  /\ \/ /\ Activatable(op.profile)
        /\ catalog' = [catalog EXCEPT ![op.ws] = op.profile]
        /\ Goto(op.pc, "load")
        /\ UNCHANGED faults
     \/ /\ ~Activatable(op.profile)
        /\ Goto(op.pc, "failed")
        /\ UNCHANGED <<catalog, faults>>
  /\ UNCHANGED <<archive, kept, home, active, meta, upgrade, outside>>

SelectFails ==
  /\ Activatable(op.profile)
  /\ \E pc \in {"select", "register"} : Fails(pc, "failed")
  /\ UNCHANGED outside

\* The previous choice, or no workspace at all, is put back.
UndoCatalog ==
  /\ Goto("undocatalog", IF op.kind = "create" THEN "clean" ELSE "failed")
  /\ catalog' = [catalog EXCEPT ![op.ws] =
                   IF op.kind = "create" THEN Absent ELSE op.current]
  /\ UNCHANGED <<archive, kept, home, active, meta, upgrade, outside, faults>>

RemoveHome ==
  /\ Goto("clean", "failed")
  /\ home' = [home EXCEPT ![op.ws] = EmptyHome]
  /\ UNCHANGED <<archive, kept, catalog, active, meta, upgrade, outside,
                 faults>>

UndoCatalogFails ==
  /\ \E pc \in {"undocatalog", "clean"} : Fails(pc, "failed")
  /\ UNCHANGED outside

Switching ==
  Select \/ SelectFails \/ UndoCatalog \/ RemoveHome \/ UndoCatalogFails

-----------------------------------------------------------------------------
(* commit_workspace_reauthorization and refresh_auth_profile.              *)

Rearchive ==
  /\ Goto("rearchive", IF meta.active = op.profile THEN "resync" ELSE "resave")
  /\ archive' = [archive EXCEPT ![op.profile] = op.key]
  /\ UNCHANGED <<kept, home, catalog, active, meta, upgrade, outside, faults>>

Resync ==
  /\ Goto("resync", "resave")
  /\ home' = [home EXCEPT ![Default].auth = op.key]
  /\ UNCHANGED <<archive, kept, catalog, active, meta, upgrade, outside,
                 faults>>

\* The metadata is saved; the workspaces to refresh are read.
ResaveFor(ws) ==
  /\ op.pc = "resave"
  /\ op' = [op EXCEPT !.pc = "refresh", !.todo = ws]
  /\ UNCHANGED <<files, outside, faults>>

\* Bug: only the active workspace gets the new key.
ResaveForActive == ResaveFor({active} \intersect
                             {w \in Registered : catalog[w] = op.profile})

Resave == ResaveFor({w \in Registered : catalog[w] = op.profile})

\* The next of these workspaces, in the order of the catalog, or none.
Refresh ==
  /\ op.pc = "refresh"
  /\ \/ op.todo = {} /\ Goto("refresh", "ok")
     \/ \E w \in op.todo :
          op' = [op EXCEPT !.pc = "load", !.ws = w, !.todo = @ \ {w}]
  /\ UNCHANGED <<files, outside, faults>>

ReauthorizeFails ==
  /\ \E pc \in {"rearchive", "resync", "resave"} : Fails(pc, "failed")
  /\ UNCHANGED outside

Reauthorizing == Rearchive \/ Resync \/ Resave \/ Refresh \/ ReauthorizeFails

-----------------------------------------------------------------------------
(* initialize_local_data.                                                  *)

\* import_legacy_metadata: the metadata is saved in its new place, which does
\* not keep the home of a profile (contract.rs:42).  The old file is removed
\* after that; when it cannot be, the next start finds the new one.
Import ==
  /\ op.pc = "import"
  /\ store' = [place |-> "old", imported |-> TRUE]
  /\ \/ Goto("import", "migrate") /\ UNCHANGED <<initialized, faults>>
     \/ /\ Goto("import", "failed")
        /\ initialized' = FALSE
        /\ faults < MaxFaults /\ faults' = faults + 1
  /\ UNCHANGED <<archive, kept, home, catalog, active, meta, old, desktop,
                 setup, logins, keys, crashes>>

\* migrate_profiles_to_shared_home: the key of a channel that has no archive
\* comes from the archive of an earlier version, if that has one, or else from
\* the home the metadata names.
PreviousHome(c) ==
  IF store.imported \/ old[c] = NoWorkspace THEN Default ELSE old[c]
NotArchived == {c \in meta.known \intersect Channels : archive[c] = NoLogin}

MigrateKey ==
  /\ op.pc = "migrate"
  /\ \E c \in NotArchived :
       \E login \in {OldKey(c), home[PreviousHome(c)].auth} \ {NoLogin} :
         archive' = [archive EXCEPT ![c] = login]
  /\ UNCHANGED <<kept, home, catalog, active, meta, upgrade, op, outside,
                 faults>>

\* Bug: the new version is recorded before the keys have been copied.
SaveVersionEarly ==
  /\ Goto("migrate", FromBootstrap)
  /\ store' = [store EXCEPT !.place = "current"]
  /\ UNCHANGED <<archive, kept, home, catalog, active, meta, old, outside,
                 faults>>

SaveVersion ==
  /\ Goto("migrate", FromBootstrap)
  /\ \A c \in NotArchived : home[PreviousHome(c)].auth = NoLogin
  /\ store' = [store EXCEPT !.place = "current"]
  /\ UNCHANGED <<archive, kept, home, catalog, active, meta, old, outside,
                 faults>>

\* capture_original_auth_profile: the login of ~/.codex becomes the ChatGPT
\* profile's, unless it is the key of a channel.
Original ==
  LET live == home[Default].auth IN
  IF Personal \in meta.known \/ \E c \in meta.known \intersect Channels :
                                  archive[c] = live
  THEN NoLogin ELSE live

Capture ==
  /\ op.pc = "capture"
  /\ op' = [op EXCEPT !.pc = "snapshot", !.target = Original]
  /\ archive' = IF Original = NoLogin THEN archive
                ELSE [archive EXCEPT ![Personal] = Original]
  /\ UNCHANGED <<kept, home, catalog, active, meta, upgrade, outside, faults>>

\* The configuration is archived with it; a ChatGPT profile without a login
\* (ensure_chatgpt_profile) gets that of a fresh Codex.
Snapshot ==
  /\ Goto("snapshot", "save")
  /\ kept' = IF op.target = NoLogin THEN "own"
             ELSE Captured(home[Default].config)
  /\ UNCHANGED <<archive, home, catalog, active, meta, upgrade, outside,
                 faults>>

\* bootstrap_profiles saves the metadata.
SaveProfiles ==
  /\ Goto("save", "reconcile")
  /\ meta' = [active |-> IF op.target = NoLogin THEN meta.active ELSE Personal,
              known |-> meta.known \union {Personal}]
  /\ store' = [store EXCEPT !.place = "current"]
  /\ UNCHANGED <<archive, kept, home, catalog, active, old, outside, faults>>

\* reconcile_active_profile_from_shared_home: which profile the files of the
\* default home show.
Shown ==
  LET live == home[Default].auth
      owners == {c \in meta.known \intersect Channels :
                   HasKey(live) /\ archive[c] = live}
  IN IF owners # {} /\ home[Default].config = "managed" THEN owners
     ELSE IF live # NoLogin /\ owners = {} THEN {Personal} \intersect meta.known
     ELSE {}

\* Bug: what the files show is not recorded.
ReconcileUnsaved ==
  /\ Goto("reconcile", "bootstrap")
  /\ UNCHANGED <<files, outside, faults>>

Reconcile ==
  /\ Goto("reconcile", "bootstrap")
  /\ \/ Shown = {} /\ UNCHANGED meta
     \/ \E p \in Shown : meta' = [meta EXCEPT !.active = p]
  /\ UNCHANGED <<archive, kept, home, catalog, active, upgrade, outside,
                 faults>>

\* bootstrap_default_workspace and import_legacy_workspaces: the default
\* workspace follows the metadata, and the homes of earlier versions, which are
\* found by the name of their profile, become workspaces of their own.
Imported(w) ==
  catalog[w] = Absent /\ \E c \in meta.known \intersect Channels : old[c] = w

Catalogued ==
  [w \in Workspaces |->
     IF w = Default
     THEN IF meta.active = NoProfile /\ catalog[w] # Absent THEN catalog[w]
          ELSE meta.active
     ELSE IF Imported(w) THEN CHOOSE c \in Channels : old[c] = w
     ELSE catalog[w]]

Bootstrap ==
  /\ Goto("bootstrap", IF op.kind = "install" THEN "issue" ELSE "ok")
  /\ catalog' = Catalogued
  /\ active' = IF Catalogued[active] = Absent THEN Default ELSE active
  /\ initialized' = TRUE
  /\ setup' = IF op.kind = "install" THEN "running" ELSE setup
  /\ UNCHANGED <<archive, kept, home, meta, upgrade, desktop, logins, keys,
                 crashes, faults>>

InitializeFails ==
  /\ \E pc \in {"import", "migrate", "capture", "snapshot", "save",
                "reconcile", "bootstrap"} : Fails(pc, "failed")
  /\ initialized' = FALSE
  /\ UNCHANGED <<desktop, setup, logins, keys, crashes>>

Initializing ==
  \/ Import \/ MigrateKey \/ SaveVersion \/ Capture \/ Snapshot
  \/ SaveProfiles \/ Reconcile \/ Bootstrap \/ InitializeFails

-----------------------------------------------------------------------------
(* The profile part of an installation: initialize_workspace_profile and    *)
(* finalize_workspace_setup.                                                *)

\* Outside the data lock: whether the profile will be activated, and its key,
\* issued unless the archive has one.
Issue ==
  /\ op.pc = "issue"
  /\ LET c == op.profile
         auto == meta.active = NoProfile IN
     \/ /\ HasKey(archive[c])
        /\ op' = [op EXCEPT !.pc = "know", !.auto = auto, !.savedMeta = meta]
        /\ UNCHANGED keys
     \/ /\ archive[c] = NoLogin /\ c \notin meta.known /\ keys < MaxKeys
        /\ keys' = keys + 1
        /\ op' = [op EXCEPT !.pc = "archive", !.auto = auto,
                            !.savedMeta = meta, !.key = Key(c, keys + 1)]
  /\ desktop' = IF meta.active = NoProfile THEN NoWorkspace ELSE desktop
  /\ UNCHANGED <<files, initialized, setup, logins, crashes, faults>>

\* The CLI does not authorize the workspace or cannot issue a key, or the key
\* of a known profile is missing: nothing has been written.
IssueFails ==
  /\ Goto("issue", "failed")
  /\ UNCHANGED <<files, outside, faults>>

ArchiveKey ==
  /\ Goto("archive", "know")
  /\ archive' = [archive EXCEPT ![op.profile] = op.key]
  /\ UNCHANGED <<kept, home, catalog, active, meta, upgrade, outside, faults>>

\* The metadata read before the key was issued is saved with the profile.
Know ==
  /\ Goto("know", "finalize")
  /\ meta' = [op.savedMeta EXCEPT !.known = @ \union {op.profile}]
  /\ UNCHANGED <<archive, kept, home, catalog, active, upgrade, outside,
                 faults>>

Finalize ==
  /\ op.pc = "finalize"
  /\ op' = [op EXCEPT !.pc = IF op.auto THEN "load" ELSE "ok",
                      !.checkpoint = op.auto]
  /\ UNCHANGED <<files, outside, faults>>

\* Bug: the profile is activated and the default workspace not told.
AdoptForgotten ==
  /\ Goto("adopt", "ok")
  /\ UNCHANGED <<files, outside, faults>>

\* update_default_auth_profile.
Adopt ==
  /\ Goto("adopt", "ok")
  /\ catalog' = [catalog EXCEPT ![Default] = op.profile]
  /\ UNCHANGED <<archive, kept, home, active, meta, upgrade, outside, faults>>

InstallFails ==
  /\ \E pc \in {"archive", "know", "adopt"} : Fails(pc, "failed")
  /\ UNCHANGED outside

Installing ==
  \/ Issue \/ IssueFails \/ ArchiveKey \/ Know \/ Finalize \/ Adopt
  \/ InstallFails

-----------------------------------------------------------------------------
(* The end of an operation.                                                *)

\* The rest of an installation may fail, or restart the desktop; a failed
\* operation restarts the desktop it stopped, if it can.
Finish ==
  /\ op.pc \in {"ok", "failed"}
  /\ op' = NoOp
  /\ desktop' \in
       IF (op.wasRunning /\ op.pc = "failed") \/ op.auto
       THEN {desktop, active} ELSE {desktop}
  /\ setup' \in IF setup # "running" THEN {setup}
                ELSE IF op.pc = "ok" THEN {"succeeded", "failed"} ELSE {"failed"}
  /\ UNCHANGED <<files, initialized, logins, keys, crashes, faults>>

\* The process dies and is started again; an interrupted installation is not
\* a finished one, and the local data is to be initialized anew.
Crash ==
  /\ crashes < MaxCrashes
  /\ crashes' = crashes + 1
  /\ op' = NoOp
  /\ initialized' = FALSE
  /\ setup' = IF setup = "running" THEN "failed" ELSE setup
  /\ UNCHANGED <<files, desktop, logins, keys, faults>>

Request ==
  \/ BeginPrepare
  \/ \E c \in Channels : BeginInstall(c) \/ BeginReauthorize(c)
  \/ \E w \in Workspaces, p \in Profiles : BeginSwitch(w, p) \/ BeginCreate(w, p)
  \/ \E w \in Workspaces : Activate(w)
  \/ Launch

Step ==
  \/ Apply \/ Switching \/ Reauthorizing
  \/ Initializing \/ Installing \/ Finish

Next == Request \/ Step \/ DesktopLogin \/ Crash

Spec == Init /\ [][Next]_vars

-----------------------------------------------------------------------------
(* Properties.                                                             *)

Operation ==
  [kind: AllKinds, pc: Points, ws: Workspaces, profile: Profiles \union {NoProfile},
   current: Profiles \union {NoProfile}, checkpoint: BOOLEAN,
   wasRunning: BOOLEAN, target: Login, saved: Home, savedMeta: Metadata,
   auto: BOOLEAN, key: Login, todo: SUBSET Workspaces,
   before: [home: Home, choice: Profiles \union {NoProfile, Absent},
            meta: Metadata]]

TypeOK ==
  /\ archive \in [Profiles -> Login]
  /\ kept \in Configs
  /\ home \in [Workspaces -> Home]
  /\ catalog \in [Workspaces -> Profiles \union {NoProfile, Absent}]
  /\ active \in Workspaces
  /\ meta \in Metadata
  /\ store \in [place: {"none", "old", "legacy", "current"}, imported: BOOLEAN]
  /\ old \in [Channels -> Workspaces \union {NoWorkspace}]
  /\ desktop \in Workspaces \union {NoWorkspace}
  /\ op \in Operation
  /\ initialized \in BOOLEAN
  /\ setup \in {"pending", "running", "succeeded", "failed"}
  /\ logins \in Nat /\ keys \in Nat /\ faults \in Nat /\ crashes \in Nat

\* The archive of the ChatGPT profile never receives a platform key, nor that
\* of a channel another channel's key or a login (credential.rs:1217 stops a
\* switch so that no backup is overwritten by what does not belong to it).
ArchivesPure == \A p \in Profiles : archive[p].owner \in {p, NoProfile}

\* The files of a home are those of profile p.
Shows(h, p) ==
  /\ h.auth.owner \in IF p = Personal THEN {p, NoProfile} ELSE {p}
  /\ h.config = IF p = Personal THEN "own" ELSE "managed"

\* Between operations the catalog tells the truth about every home.
HomesAgree ==
  Idle => \A w \in Registered :
            catalog[w] # NoProfile => Shows(home[w], catalog[w])

\* Between operations the credential metadata and the catalog name the same
\* profile for the default workspace, however often the process has died, as
\* long as every write succeeded: each initialization puts them together
\* (credential.rs:1494, codex_workspace.rs:243).
DefaultAgrees ==
  faults = 0 /\ Idle /\ GateOpen => meta.active = catalog[Default]

\* A switch or a creation that fails at one write leaves the files of the home,
\* the catalog and the metadata as they were
\* (docs/codex-home-ownership-and-launch.md:42).
FailedLeavesNoTrace ==
  op.pc = "failed" /\ op.kind \in {"switch", "create"} =>
    /\ home[op.ws] = op.before.home
    /\ catalog[op.ws] = op.before.choice
    /\ meta = op.before.meta

\* A finished switch of the active workspace has archived the login the
\* desktop may have refreshed there.
SwitchArchivesLogin ==
  op.pc = "ok" /\ op.kind = "switch" /\ op.checkpoint
    /\ op.before.choice = Personal /\ op.before.home.auth # NoLogin
  => archive[Personal] = op.before.home.auth

\* A finished initialization of the local data would find nothing to do if it
\* were repeated, whatever a dying process left (docs/status-lifecycle.md:5),
\* unless the desktop application changes the login meanwhile.
PrepareIsIdempotent ==
  op.pc = "ok" /\ op.kind = "prepare" /\ desktop = NoWorkspace =>
    /\ FirstStep = "reconcile" /\ \A w \in Workspaces : ~Imported(w)
    /\ Shown # {} => meta.active \in Shown
    /\ meta.active # NoProfile => catalog[Default] = meta.active

\* While the manager serves operations every registered workspace has a
\* profile: a switch of the active workspace can always be rolled back to the
\* previous one (activate refuses a workspace without one).
EveryWorkspaceHasProfile ==
  Idle /\ GateOpen => \A w \in Registered : catalog[w] # NoProfile

\* A re-authorization that succeeds has reached every home of its channel and
\* the archive: none keeps a key that was issued before
\* (docs/codex-home-ownership-and-launch.md:71).
KeysAgree ==
  op.pc = "ok" /\ op.kind = "reauthorize" =>
    /\ archive[op.profile] = op.key
    /\ \A w \in Registered :
         catalog[w] = op.profile => home[w].auth = op.key

\* No upgrade loses a login, wherever an earlier attempt has failed or died: a
\* finished initialization has the key of every known channel in its own
\* archive, and the login it found in ~/.codex in that of the ChatGPT profile
\* it has created (README.md:12).  Metadata imported from its former place is
\* excepted: README, section 5.
UpgradeKeepsLogins ==
  op.pc = "ok" /\ op.kind = "prepare" /\ ~store.imported =>
    /\ \A c \in meta.known \intersect Channels : archive[c].owner = c
    /\ op.before.home.auth.owner = Personal /\ Personal \notin op.before.meta.known
         => archive[Personal] = op.before.home.auth

\* The newest ChatGPT login is in the archive or in some home.
LoginKept ==
  Idle /\ logins > 0 =>
    \/ archive[Personal] = ChatGPT(logins)
    \/ \E w \in Workspaces : home[w].auth = ChatGPT(logins)
=============================================================================
