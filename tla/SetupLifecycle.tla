--------------------------- MODULE SetupLifecycle ---------------------------
(***************************************************************************)
(* The installation job of the Codex desktop manager: the operation        *)
(* reservation (state_access.rs), the setup manager and its status file    *)
(* (setup.rs), and the management requests that start, refuse or decide    *)
(* an installation (main.rs).                                              *)
(*                                                                         *)
(* Every HTTP connection has a thread of its own; an installation runs in  *)
(* a background thread (a worker) that outlives the request that started   *)
(* it.  The status lives twice: in memory under a mutex and in             *)
(* setup-status.json, which is all that a restarted process finds.  Saving *)
(* it is not one step: the memory is replaced, copied under the lock again,*)
(* written to a temporary file whose name is the same for every thread of  *)
(* the process, and renamed.                                               *)
(*                                                                         *)
(* Locks held only across one assignment are folded into the step.  The    *)
(* waits on the data lock, the schema number and the texts of a status are *)
(* left out.                                                               *)
(***************************************************************************)
EXTENDS Integers, FiniteSets

CONSTANTS
  Threads,      \* HTTP connection threads
  Main,         \* the main thread, which loads the status and then serves
  Nobody,       \* no holder of the operation reservation
  Workspaces,   \* workspace ids a request can name
  NoWorkspace,  \* a request or a status without a workspace
  Kinds,        \* the requests clients send, a subset of AllKinds
  Windows,      \* TRUE: Windows, where replacing a file removes it first
  DiskFaults,   \* TRUE: a file operation of a save may fail
  MaxRequests,  \* bound: requests received
  MaxCrashes,   \* bound: deaths of the process
  MaxUpgrades   \* bound: restarts under a newer connector

AllKinds == {"ensure", "initialize", "retry", "prepare", "restore", "manage"}

\* A request is numbered, and the installation it may start is its attempt.
Attempts == 1..MaxRequests
Procs == Threads \union Attempts \union {Main}

ASSUME SetupAssumption ==
  /\ MaxRequests \in Nat /\ MaxCrashes \in Nat /\ MaxUpgrades \in Nat
  /\ Kinds \subseteq AllKinds
  /\ Windows \in BOOLEAN /\ DiskFaults \in BOOLEAN
  /\ Threads \intersect Attempts = {}
  /\ Main \notin Threads \union Attempts
  /\ Nobody \notin Procs
  /\ NoWorkspace \notin Workspaces

VARIABLES
  pc,           \* where each thread and worker is
  req,          \* the request each connection thread serves
  job,          \* the status record each attempt will report
  mem,          \* SetupManager.state
  disk,         \* setup-status.json
  tmp,          \* setup-status.tmp-<pid>
  copy,         \* the bytes each saving thread has serialized
  reserved,     \* OPERATION: who holds the operation reservation
  initialized,  \* INITIALIZATION: outcome of the local data initialization
  ready,        \* workspaces whose credential is in the local store
  connector,    \* version of the running binary
  requests, crashes

vars == <<pc, req, job, mem, disk, tmp, copy, reserved, initialized, ready,
          connector, requests, crashes>>

-----------------------------------------------------------------------------
(* The status record and the decisions taken on it.                        *)

StatusNames == {"missing", "pending", "running", "succeeded", "failed",
                "interrupted", "needs_retry"}

Status == [status: StatusNames, ws: Workspaces \union {NoWorkspace},
           retries: Nat, attempt: {0} \union Attempts, version: Nat]

\* No status: no file, or no process to remember one.
Missing == [status |-> "missing", ws |-> NoWorkspace, retries |-> 0,
            attempt |-> 0, version |-> 0]

\* SetupStatus::default.
Pending(v) == [status |-> "pending", ws |-> NoWorkspace, retries |-> 0,
               attempt |-> 0, version |-> v]

Running(id, ws, retries, v) ==
  [status |-> "running", ws |-> ws, retries |-> retries, attempt |-> id,
   version |-> v]

Interrupted(s, retries) ==
  [status |-> "interrupted", ws |-> s.ws, retries |-> retries,
   attempt |-> s.attempt, version |-> s.version]

\* What a starting process of version v makes of the file it finds, given
\* what a running status becomes.
Recover(s, v, interrupted) ==
  CASE s.status = "missing" -> Pending(v)
    [] s.status = "running" -> interrupted
    [] s.status = "failed" /\ s.version # v -> [s EXCEPT !.status = "needs_retry"]
    [] OTHER -> s

\* Bug: an interruption is recorded without counting it.
RecoveredUncounted(s, v) == Recover(s, v, Interrupted(s, s.retries))

\* Bug: a running status is believed after a restart.
RecoveredAsIs(s, v) == Recover(s, v, s)

\* Bug: the retries are counted down instead of up.
RecoveredCountdown(s, v) == Recover(s, v, Interrupted(s, s.retries - 1))

\* recover_persisted_status.
Recovered(s, v) == Recover(s, v, Interrupted(s, s.retries + 1))

\* Bug: a failure is retried like an interruption.
StopsOnInterruptionsOnly(s, ws) == s.status = "interrupted" /\ s.retries > 1

\* The attempts ensure-ready does not repeat by itself.
Stopped(s, ws) ==
  \/ s.status = "failed" /\ s.ws = ws
  \/ s.status = "interrupted" /\ s.retries > 1

\* decide_setup_readiness, in the order of its returns.
Decision(s, ws, authorized, hasCredential) ==
  IF s.status = "running" THEN "initializing"
  ELSE IF s.status = "succeeded" /\ ws = NoWorkspace THEN "ready"
  ELSE IF ws = NoWorkspace \/ ~authorized THEN "needs_workspace"
  ELSE IF Stopped(s, ws) THEN "failed"
  ELSE IF s.status = "succeeded" /\ hasCredential THEN "ready"
  ELSE "start"

-----------------------------------------------------------------------------
(* Control points.                                                         *)

\* A connection thread at one of these holds an Operation.
Reserving == {"localinit", "prepare", "restore", "gate", "working",
              "elevate", "admit", "init", "store", "clone", "write", "remove",
              "rename", "spawn"}

Saving == {"clone", "write", "remove", "rename"}

ThreadPoints == Reserving \union {"idle", "local", "localbegin", "snapshot",
                                  "auth", "begin"}
WorkerPoints == Saving \union {"none", "installing", "report", "done",
                               "killed", "dead"}
MainPoints == Saving \union {"down", "serving"}

Request == [kind: AllKinds, ws: Workspaces \union {NoWorkspace},
            id: {0} \union Attempts, elevate: BOOLEAN, snap: Status]

NoRequest == [kind |-> "prepare", ws |-> NoWorkspace, id |-> 0,
              elevate |-> FALSE, snap |-> Missing]

Serving == pc[Main] = "serving"

Init ==
  /\ pc = [p \in Procs |-> IF p = Main THEN "down"
                           ELSE IF p \in Threads THEN "idle" ELSE "none"]
  /\ req = [t \in Threads |-> NoRequest]
  /\ job = [a \in Attempts |-> Missing]
  /\ mem = Missing
  /\ disk = Missing
  /\ tmp = Missing
  /\ copy = [p \in Procs |-> Missing]
  /\ reserved = Nobody
  /\ initialized = "pending"
  /\ ready = {}
  /\ connector = 1
  /\ requests = 0
  /\ crashes = 0

-----------------------------------------------------------------------------
(* The process.                                                            *)

\* start_server: SetupManager::load reads the file and saves what it changed
\* before the first connection is served.
Restart ==
  /\ pc[Main] = "down"
  /\ \E v \in {connector, connector + 1} :
       /\ v <= 1 + MaxUpgrades
       /\ connector' = v
       /\ mem' = Recovered(disk, v)
       /\ pc' = [p \in Procs |->
                   IF p = Main
                   THEN IF Recovered(disk, v) = disk THEN "serving" ELSE "clone"
                   ELSE IF pc[p] = "killed" THEN "dead" ELSE pc[p]]
  /\ tmp' = Missing    \* the name holds the new process id
  /\ UNCHANGED <<req, job, disk, copy, reserved, initialized, ready, requests,
                 crashes>>

\* The process is stopped, killed or dies at any step; its threads go with
\* it, and an attempt that was still installing is cut.
Crash ==
  /\ pc[Main] # "down"
  /\ crashes < MaxCrashes
  /\ crashes' = crashes + 1
  /\ pc' = [p \in Procs |->
              IF p = Main THEN "down"
              ELSE IF p \in Threads THEN "idle"
              ELSE IF pc[p] = "installing" THEN "killed"
              ELSE IF pc[p] \in Saving \union {"report"} THEN "done"
              ELSE pc[p]]
  /\ req' = [t \in Threads |-> NoRequest]
  /\ copy' = [p \in Procs |-> Missing]
  /\ mem' = Missing
  /\ reserved' = Nobody
  /\ initialized' = "pending"
  /\ job' = [a \in Attempts |-> Missing]
  /\ UNCHANGED <<disk, tmp, ready, connector, requests>>

-----------------------------------------------------------------------------
(* Requests.                                                               *)

Targets(kind) ==
  CASE kind = "ensure" -> Workspaces \union {NoWorkspace}
    [] kind \in {"initialize", "retry"} -> Workspaces
    [] OTHER -> {NoWorkspace}

\* handle_management: a POST reaches a thread.
Receive(t) ==
  /\ Serving
  /\ pc[t] = "idle"
  /\ requests < MaxRequests
  /\ requests' = requests + 1
  /\ \E kind \in Kinds, elevate \in BOOLEAN : \E ws \in Targets(kind) :
       /\ elevate => kind = "retry"
       /\ req' = [req EXCEPT ![t] = [kind |-> kind, ws |-> ws,
                                     id |-> requests + 1, elevate |-> elevate,
                                     snap |-> Missing]]
       /\ pc' = [pc EXCEPT ![t] = IF kind = "ensure" THEN "local" ELSE "begin"]
  /\ UNCHANGED <<job, mem, disk, tmp, copy, reserved, initialized, ready,
                 connector, crashes>>

Goto(t, from, to) == pc[t] = from /\ pc' = [pc EXCEPT ![t] = to]

\* The request is answered; an Operation it holds is dropped.
Answer(t) ==
  /\ pc' = [pc EXCEPT ![t] = "idle"]
  /\ req' = [req EXCEPT ![t] = NoRequest]
  /\ reserved' = IF reserved = t THEN Nobody ELSE reserved

\* The status, its file, and the counters.
status == <<mem, disk, tmp, copy, connector, requests, crashes>>

\* No operation of the connector takes a credential away; the local data
\* initialization may import one, a re-authorization may renew a lost one.
MayLearn == ready' \in {ready} \union {ready \union {w} : w \in Workspaces}

\* ensure_codex_ready looks at the local data under the read lock, which may
\* be refused.
CheckLocalData(t) ==
  /\ pc[t] = "local"
  /\ \/ /\ pc' = [pc EXCEPT ![t] = IF initialized = "ready" THEN "snapshot"
                                   ELSE "localbegin"]
        /\ UNCHANGED <<req, reserved>>
     \/ Answer(t)    \* STATE_COMMITTING, or the local data is damaged
  /\ UNCHANGED <<status, job, initialized, ready>>

\* Operation::begin, which never waits: where the thread goes once it holds
\* the reservation.
Reserved(t) ==
  CASE pc[t] = "localbegin" -> "localinit"
    [] req[t].kind = "manage" -> "gate"
    [] req[t].kind \in {"prepare", "restore"} -> req[t].kind
    [] req[t].elevate -> "elevate"
    [] OTHER -> "admit"

\* Bug: the reservation is taken without looking at its holder.
BeginUnchecked(t) ==
  /\ pc[t] \in {"begin", "localbegin"}
  /\ reserved' = t
  /\ pc' = [pc EXCEPT ![t] = Reserved(t)]
  /\ UNCHANGED <<status, req, job, initialized, ready>>

\* Bug: ensure-ready initializes the local data without a reservation.
BeginOnlyForCommands(t) ==
  /\ pc[t] \in {"begin", "localbegin"}
  /\ \/ /\ pc[t] = "localbegin" \/ reserved = Nobody
        /\ reserved' = IF pc[t] = "begin" THEN t ELSE reserved
        /\ pc' = [pc EXCEPT ![t] = Reserved(t)]
        /\ UNCHANGED req
     \/ pc[t] = "begin" /\ reserved # Nobody /\ Answer(t)
  /\ UNCHANGED <<status, job, initialized, ready>>

Begin(t) ==
  /\ pc[t] \in {"begin", "localbegin"}
  /\ \/ /\ reserved = Nobody
        /\ reserved' = t
        /\ pc' = [pc EXCEPT ![t] = Reserved(t)]
        /\ UNCHANGED req
     \/ reserved # Nobody /\ Answer(t)    \* OPERATION_IN_PROGRESS
  /\ UNCHANGED <<status, job, initialized, ready>>

\* initialize_local_data, as called by ensure-ready, by prepare-local-state
\* and by start.
InitializeLocalData(t) ==
  /\ pc[t] \in {"localinit", "prepare", "init"}
  /\ \/ /\ initialized' = "ready"
        /\ \/ /\ pc[t] = "localinit"
              /\ pc' = [pc EXCEPT ![t] = "snapshot"]
              /\ reserved' = Nobody
              /\ UNCHANGED req
           \/ pc[t] = "prepare" /\ Answer(t)
           \/ Goto(t, "init", "store") /\ UNCHANGED <<req, reserved>>
     \/ initialized' = "failed" /\ Answer(t)
  /\ MayLearn
  /\ UNCHANGED <<status, job>>

\* ensure_codex_ready takes its copy of the status before it asks the CLI.
Snapshot(t) ==
  /\ Goto(t, "snapshot", "auth")
  /\ req' = [req EXCEPT ![t].snap = mem]
  /\ UNCHANGED <<status, job, reserved, initialized, ready>>

\* The CLI has answered (or failed); the decision uses the copy of the status
\* and today's credentials.
Decide(t) ==
  /\ pc[t] = "auth"
  /\ \/ /\ \E authorized \in BOOLEAN :
             Decision(req[t].snap, req[t].ws, authorized, req[t].ws \in ready)
               = "start"
        /\ pc' = [pc EXCEPT ![t] = "begin"]
        /\ req' = [req EXCEPT ![t].snap = Missing]
        /\ UNCHANGED reserved
     \/ Answer(t)
  /\ UNCHANGED <<status, job, initialized, ready>>

\* An administrator retry is only for the failed Windows installation of the
\* same workspace, and only if its package can be recovered.
CheckElevation(t) ==
  /\ pc[t] = "elevate"
  /\ \/ /\ Windows
        /\ mem.ws = req[t].ws /\ mem.status \in {"failed", "interrupted"}
        /\ pc' = [pc EXCEPT ![t] = "admit"]
        /\ UNCHANGED <<req, reserved>>
     \/ Answer(t)
  /\ UNCHANGED <<status, job, initialized, ready>>

Forced(t) == req[t].kind = "retry"

AlreadyInstalled(t) ==
  /\ ~Forced(t)
  /\ mem.status = "succeeded" /\ mem.ws = req[t].ws
  /\ req[t].ws \in ready

NewJob(t) == Running(req[t].id, req[t].ws,
                     IF Forced(t) THEN 0 ELSE mem.retries, connector)

\* start_with_elevation after its elevation check: an early return (with the
\* running or the installed status, or an error for another workspace), or a
\* new attempt.
AdmitUnless(t, running) ==
  /\ pc[t] = "admit"
  /\ \/ /\ running \/ AlreadyInstalled(t)
        /\ Answer(t)
        /\ UNCHANGED job
     \/ /\ ~running /\ ~AlreadyInstalled(t)
        /\ pc' = [pc EXCEPT ![t] = "init"]
        /\ job' = [job EXCEPT ![req[t].id] = NewJob(t)]
        /\ UNCHANGED <<req, reserved>>
  /\ UNCHANGED <<status, initialized, ready>>

\* Bug: only an installation of the same workspace counts as running.
AdmitOtherWorkspace(t) ==
  AdmitUnless(t, mem.status = "running" /\ mem.ws = req[t].ws)

\* Bug: the early returns keep the reservation.
AdmitLeaking(t) ==
  \/ mem.status # "running" /\ AdmitUnless(t, FALSE)
  \/ /\ mem.status = "running" /\ pc[t] = "admit"
     /\ pc' = [pc EXCEPT ![t] = "idle"]
     /\ UNCHANGED <<status, req, job, reserved, initialized, ready>>

Admit(t) == AdmitUnless(t, mem.status = "running")

\* replace: the memory first.
StoreRunning(t) ==
  /\ Goto(t, "store", "clone")
  /\ mem' = job[req[t].id]
  /\ UNCHANGED <<req, job, disk, tmp, copy, reserved, initialized, ready,
                 connector, requests, crashes>>

\* thread::spawn: the reservation moves into the worker, the request is
\* answered.
Spawn(t) ==
  /\ pc[t] = "spawn"
  /\ pc' = [pc EXCEPT ![t] = "idle", ![req[t].id] = "installing"]
  /\ reserved' = req[t].id
  /\ req' = [req EXCEPT ![t] = NoRequest]
  /\ UNCHANGED <<status, job, initialized, ready>>

\* The other management operations of a POST, refused unless the setup has
\* succeeded and the local data is ready.
PassGate(t) ==
  /\ pc[t] = "gate"
  /\ \/ /\ mem.status = "succeeded" /\ initialized = "ready"
        /\ pc' = [pc EXCEPT ![t] = "working"]
        /\ UNCHANGED <<req, reserved>>
     \/ /\ ~(mem.status = "succeeded" /\ initialized = "ready")
        /\ Answer(t)
  /\ UNCHANGED <<status, job, initialized, ready>>

\* Such an operation ends; so does the restoration of CODEX_HOME, which asks
\* nothing of the setup.
EndWork(t) ==
  /\ pc[t] \in {"working", "restore"}
  /\ Answer(t)
  /\ MayLearn
  /\ UNCHANGED <<status, job, initialized>>

-----------------------------------------------------------------------------
(* The worker of attempt a.                                                *)

\* Bug: a failed installation ends without a status.
FinishSilently(a) ==
  /\ pc[a] = "installing"
  /\ \/ /\ job' = [job EXCEPT ![a].status = "succeeded"]
        /\ pc' = [pc EXCEPT ![a] = "report"]
     \/ /\ job' = [job EXCEPT ![a].status = "failed"]
        /\ pc' = [pc EXCEPT ![a] = "done"]
  /\ ready' = ready \union {job[a].ws}
  /\ reserved' = Nobody
  /\ UNCHANGED <<req, status, initialized>>

\* run_install returns; the operation is dropped before the outcome is
\* recorded.  A failed installation may have stored the credential.
FinishInstall(a) ==
  /\ pc[a] = "installing"
  /\ \E outcome \in {"succeeded", "failed"}, stored \in {{}, {job[a].ws}} :
       /\ outcome = "succeeded" => stored # {}
       /\ job' = [job EXCEPT ![a].status = outcome]
       /\ ready' = ready \union stored
  /\ pc' = [pc EXCEPT ![a] = "report"]
  /\ reserved' = Nobody
  /\ UNCHANGED <<req, status, initialized>>

\* replace(completed): the memory first.
Report(a) ==
  /\ Goto(a, "report", "clone")
  /\ mem' = job[a]
  /\ job' = [job EXCEPT ![a] = Missing]
  /\ UNCHANGED <<req, disk, tmp, copy, reserved, initialized, ready,
                 connector, requests, crashes>>

-----------------------------------------------------------------------------
(* persist and atomic_write_private, by any of the threads.                *)

Clone(p) ==
  /\ Goto(p, "clone", "write")
  /\ copy' = [copy EXCEPT ![p] = mem]
  /\ UNCHANGED <<req, job, mem, disk, tmp, reserved, initialized, ready,
                 connector, requests, crashes>>

WriteTemporary(p) ==
  /\ Goto(p, "write", IF Windows THEN "remove" ELSE "rename")
  /\ tmp' = copy[p]
  /\ UNCHANGED <<req, job, mem, disk, copy, reserved, initialized, ready,
                 connector, requests, crashes>>

RemoveOld(p) ==
  /\ Goto(p, "remove", "rename")
  /\ disk' = Missing
  /\ UNCHANGED <<req, job, mem, tmp, copy, reserved, initialized, ready,
                 connector, requests, crashes>>

AfterSave(p) ==
  IF p \in Threads THEN "spawn" ELSE IF p = Main THEN "serving" ELSE "done"

Rename(p) ==
  /\ tmp # Missing
  /\ Goto(p, "rename", AfterSave(p))
  /\ disk' = tmp
  /\ tmp' = Missing
  /\ copy' = [copy EXCEPT ![p] = Missing]
  /\ UNCHANGED <<req, job, mem, reserved, initialized, ready,
                 connector, requests, crashes>>

\* A file operation fails, or another thread has renamed the temporary file
\* away.  start returns the error; load and the worker ignore it.
SaveFails(p) ==
  /\ \/ DiskFaults /\ pc[p] \in {"write", "remove", "rename"}
     \/ pc[p] = "rename" /\ tmp = Missing
  /\ \/ p \in Threads /\ Answer(p)
     \/ /\ p \notin Threads
        /\ pc' = [pc EXCEPT ![p] = AfterSave(p)]
        /\ UNCHANGED <<req, reserved>>
  /\ copy' = [copy EXCEPT ![p] = Missing]
  /\ UNCHANGED <<job, mem, disk, tmp, initialized, ready, connector,
                 requests, crashes>>

-----------------------------------------------------------------------------

Save(p) ==
  Clone(p) \/ WriteTemporary(p) \/ RemoveOld(p) \/ Rename(p) \/ SaveFails(p)

Serve(t) ==
  \/ CheckLocalData(t) \/ Begin(t) \/ InitializeLocalData(t) \/ Snapshot(t)
  \/ Decide(t) \/ CheckElevation(t) \/ Admit(t) \/ StoreRunning(t) \/ Spawn(t)
  \/ PassGate(t) \/ EndWork(t)

Work(a) == FinishInstall(a) \/ Report(a)

Next ==
  \/ Restart
  \/ Crash
  \/ \E t \in Threads : Receive(t) \/ Serve(t)
  \/ \E a \in Attempts : Work(a)
  \/ \E p \in Procs : Save(p)

Spec == Init /\ [][Next]_vars

\* Threads of a live process keep running: every external wait inside them
\* has a deadline.  Nothing obliges a client to send a request, the process
\* to die, or anyone to restart it.
Fairness ==
  /\ \A t \in Threads : WF_vars(Serve(t))
  /\ \A a \in Attempts : WF_vars(Work(a))
  /\ \A p \in Procs : WF_vars(Save(p))

FairSpec == Spec /\ Fairness

-----------------------------------------------------------------------------
(* Properties.                                                             *)

ControlPoints(f) ==
  /\ f \in [Procs -> ThreadPoints \union WorkerPoints \union MainPoints]
  /\ f[Main] \in MainPoints
  /\ \A t \in Threads : f[t] \in ThreadPoints
  /\ \A a \in Attempts : f[a] \in WorkerPoints

TypeOK ==
  /\ ControlPoints(pc)
  /\ req \in [Threads -> Request]
  /\ job \in [Attempts -> Status]
  /\ mem \in Status /\ disk \in Status /\ tmp \in Status
  /\ copy \in [Procs -> Status]
  /\ reserved \in {Nobody} \union Threads \union Attempts
  /\ initialized \in {"pending", "ready", "failed"}
  /\ ready \subseteq Workspaces \union {NoWorkspace}
  /\ connector \in Nat /\ requests \in 0..MaxRequests /\ crashes \in Nat

\* Changing local state, or about to: whatever control point says so, not
\* the reservation itself.
Active(p) ==
  \/ p \in Threads /\ pc[p] \in Reserving
  \/ p \in Attempts /\ pc[p] = "installing"

\* Installations, local data initializations and the other management
\* operations exclude each other, whoever runs them (state_access.rs:29,
\* docs/status-lifecycle.md:11).
OneAtATime == \A p, q \in Procs : Active(p) /\ Active(q) => p = q

\* An installation whose outcome is not yet recorded.
Live(a) == pc[a] \in {"installing", "report"}

\* An installation whose outcome is not yet recorded is the one the status
\* shows as running, so there is only one, its record replaces nobody
\* else's, and no status says succeeded or failed while it works
\* (setup.rs:259, 300, 325, 346).
InstallerOwnsStatus ==
  \A a \in Attempts : Live(a) => mem.status = "running" /\ mem.attempt = a

\* What a management operation checked when it started stays true until it
\* ends: the setup has succeeded and the local data is initialized
\* (main.rs:713), although installers report and clients initialize
\* concurrently.
GateStable ==
  \A t \in Threads :
    pc[t] = "working" => mem.status = "succeeded" /\ initialized = "ready"

\* If every installation is started by ensure-ready, at most two are cut by
\* a dying process before the user has to decide: the count of interruptions
\* survives restarts, upgrades and the outcomes in between (main.rs:163,
\* setup.rs:378).
CrashLoopBounded ==
  Cardinality({a \in Attempts : pc[a] \in {"killed", "dead"}}) <= 2

\* A restarted process never shows an installation as running before it has
\* started one itself (setup.rs:372): only its own requests, or the worker
\* they left, stand behind a running status.
RunningIsOwn ==
  mem.status = "running" => pc[Main] = "serving" /\ pc[mem.attempt] # "dead"

\* The cut of an installation is on record: the process that starts next
\* calls it interrupted, so that it is verified again and never taken for
\* finished (setup.rs:371).
InterruptionRecorded ==
  [][ Restart /\ (\E a \in Attempts : pc[a] = "killed")
        => mem'.status = "interrupted" ]_vars

\* A running status has something behind it: the thread that is starting the
\* installation, or its worker (setup.rs:290 tells the user that the
\* installation is in progress).  It does not hold: README, section 5.
RunningHasInstaller ==
  mem.status = "running" =>
    \/ \E a \in Attempts : Live(a) /\ mem.attempt = a
    \/ \E t \in Threads : pc[t] \in Saving \union {"spawn"}

\* ensure-ready never starts again by itself the installation that has
\* failed for this workspace (main.rs:159): that takes the user's retry.
NoAutomaticRestart ==
  [][ \A t \in Threads :
        /\ pc[t] = "admit" /\ pc'[t] = "init"
        /\ req[t].kind = "ensure"
        => ~(mem.status = "failed" /\ mem.ws = req[t].ws) ]_vars

\* A reservation is given back however its operation goes.
ReservationReleased ==
  \A p \in Threads \union Attempts : reserved = p ~> reserved # p

\* The status of a live installation reaches its end, or dies with the
\* process.
InstallationEnds ==
  \A a \in Attempts :
    pc[a] = "installing" ~> \/ pc[Main] = "down"
                            \/ mem.status # "running"

\* The management operations seen from outside: serial, and each
\* installation launched once (state_access.rs:27, setup.rs:302).
Exclusive ==
  INSTANCE ExclusiveOperations
  WITH Requests <- Threads,
       Jobs <- Attempts,
       active <- {p \in Threads \union Attempts : Active(p)},
       launched <- {a \in Attempts : pc[a] # "none"}
SerialOperations == Exclusive!Spec
=============================================================================
