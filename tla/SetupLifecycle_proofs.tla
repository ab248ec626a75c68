----------------------- MODULE SetupLifecycle_proofs -----------------------
(***************************************************************************)
(* Proofs about SetupLifecycle, for any bounds: the types, the inductive   *)
(* invariant IInv with the safety properties, and the refinement of        *)
(* ExclusiveOperations, for any set of threads and workspaces; then what   *)
(* the recovery after a death promises to a single client.                 *)
(***************************************************************************)
EXTENDS SetupLifecycle, TLAPS, FiniteSetTheorems


\* The operators on status records return status records.
LEMMA StatusRecords ==
  /\ Missing \in Status
  /\ NoRequest \in Request
  /\ \A v \in Nat : Pending(v) \in Status
  /\ \A id \in Attempts, ws \in Workspaces \union {NoWorkspace}, n, v \in Nat :
       Running(id, ws, n, v) \in Status
  /\ \A s \in Status, v \in Nat : Recovered(s, v) \in Status
<1>1. /\ Missing \in Status
      /\ \A v \in Nat : Pending(v) \in Status
  BY DEF Missing, Status, StatusNames, Pending
<1>2. NoRequest \in Request
  BY <1>1 DEF NoRequest, Request, AllKinds
<1>3. \A id \in Attempts, ws \in Workspaces \union {NoWorkspace}, n, v \in Nat :
        Running(id, ws, n, v) \in Status
  BY DEF Running, Status, StatusNames
<1>4. ASSUME NEW s \in Status, NEW v \in Nat
      PROVE  Recovered(s, v) \in Status
  <2>1. Interrupted(s, s.retries + 1) \in Status
    BY DEF Interrupted, Status, StatusNames
  <2>2. [s EXCEPT !.status = "needs_retry"] \in Status
    BY DEF Status, StatusNames
  <2>3. QED
    BY <1>1, <2>1, <2>2 DEF Recovered, Recover
<1>5. QED
  BY <1>1, <1>2, <1>3, <1>4

\* The kinds of process are disjoint.
LEMMA Kinds3 ==
  /\ Threads \subseteq Procs /\ Attempts \subseteq Procs /\ Main \in Procs
  /\ \A t \in Threads : t # Main /\ t \notin Attempts /\ t # Nobody
  /\ \A a \in Attempts : a # Main /\ a \notin Threads /\ a # Nobody
BY SetupAssumption DEF Procs

\* One process moves to a control point of its own kind.
Moved(f, g, p, x) ==
  /\ ControlPoints(g) /\ g[p] = x
  /\ \A q \in Procs \ {p} : g[q] = f[q]

LEMMA Move ==
  ASSUME NEW f, NEW g, ControlPoints(f), NEW p \in Procs, NEW x,
         g = [f EXCEPT ![p] = x],
         p = Main => x \in MainPoints,
         p \in Threads => x \in ThreadPoints,
         p \in Attempts => x \in WorkerPoints
  PROVE  Moved(f, g, p, x)
BY Kinds3 DEF ControlPoints, Procs, Moved

LEMMA MoveThread ==
  ASSUME NEW f, NEW g, ControlPoints(f), NEW t \in Threads,
         NEW x \in ThreadPoints, g = [f EXCEPT ![t] = x]
  PROVE  Moved(f, g, t, x)
BY Kinds3, Move

LEMMA MoveWorker ==
  ASSUME NEW f, NEW g, ControlPoints(f), NEW a \in Attempts,
         NEW x \in WorkerPoints, g = [f EXCEPT ![a] = x]
  PROVE  Moved(f, g, a, x)
BY Kinds3, Move

-----------------------------------------------------------------------------
(* Types, and the numbering of requests.                                   *)

\* A request in service has a number of its own that no other request in
\* service has, and its worker has not been created yet.
Numbered ==
  /\ \A t \in Threads :
       pc[t] # "idle" => /\ req[t].id \in Attempts /\ req[t].id <= requests
                         /\ pc[req[t].id] = "none"
  /\ \A t, u \in Threads :
       pc[t] # "idle" /\ pc[u] # "idle" /\ t # u => req[t].id # req[u].id
  /\ \A a \in Attempts : a > requests => pc[a] = "none"

LEMMA InitTypes == Init => TypeOK /\ Numbered
<1> SUFFICES ASSUME Init PROVE TypeOK /\ Numbered
  OBVIOUS
<1>1. ControlPoints(pc)
  BY Kinds3
  DEF Init, ControlPoints, Procs, ThreadPoints, WorkerPoints, MainPoints
<1>2. TypeOK
  BY <1>1, SetupAssumption, StatusRecords DEF Init, TypeOK
<1>3. Numbered
  BY Kinds3 DEF Init, Numbered
<1>4. QED
  BY <1>2, <1>3

\* An answered request leaves its thread idle.
LEMMA AnswerTypes ==
  ASSUME TypeOK, Numbered, NEW t \in Threads, Answer(t),
         UNCHANGED <<status, job>>,
         initialized' \in {"pending", "ready", "failed"},
         ready' \subseteq Workspaces \union {NoWorkspace}
  PROVE  TypeOK' /\ Numbered'
<1>1. /\ ControlPoints(pc') /\ pc'[t] = "idle"
      /\ \A q \in Procs \ {t} : pc'[q] = pc[q]
  <2>1. "idle" \in ThreadPoints /\ ControlPoints(pc)
    BY DEF ThreadPoints, TypeOK
  <2>2. Moved(pc, pc', t, "idle")
    BY <2>1, MoveThread DEF Answer
  <2>3. QED
    BY <2>2 DEF Moved
<1>2. TypeOK'
  BY <1>1, StatusRecords DEF Answer, TypeOK, status
<1>3. \A u \in Threads \ {t} : req'[u] = req[u]
  BY DEF Answer, TypeOK
<1>4. requests' = requests
  BY DEF status
<1>5. Numbered'
  BY <1>1, <1>3, <1>4, Kinds3 DEF Numbered
<1>6. QED
  BY <1>2, <1>5

\* A request in service moves on.
LEMMA ForwardTypes ==
  ASSUME TypeOK, Numbered, NEW t \in Threads, pc[t] # "idle",
         NEW x \in ThreadPoints, pc' = [pc EXCEPT ![t] = x],
         req' \in [Threads -> Request],
         \A u \in Threads : req'[u].id = req[u].id,
         job' \in [Attempts -> Status],
         mem' \in Status, disk' \in Status, tmp' \in Status,
         copy' \in [Procs -> Status],
         reserved' \in {Nobody} \union Threads \union Attempts,
         initialized' \in {"pending", "ready", "failed"},
         ready' \subseteq Workspaces \union {NoWorkspace},
         UNCHANGED <<connector, requests, crashes>>
  PROVE  TypeOK' /\ Numbered'
<1>1. /\ ControlPoints(pc') /\ pc'[t] = x
      /\ \A q \in Procs \ {t} : pc'[q] = pc[q]
  <2>1. Moved(pc, pc', t, x)
    BY MoveThread DEF TypeOK
  <2>2. QED
    BY <2>1 DEF Moved
<1>2. TypeOK'
  BY <1>1 DEF TypeOK
<1>3. Numbered'
  BY <1>1, Kinds3 DEF Numbered, TypeOK
<1>4. QED
  BY <1>2, <1>3

LEMMA ServeTypes ==
  ASSUME TypeOK, Numbered, NEW t \in Threads, Serve(t)
  PROVE  TypeOK' /\ Numbered'
<1> USE StatusRecords DEF status
<1>0. /\ reserved \in {Nobody} \union Threads \union Attempts
      /\ initialized \in {"pending", "ready", "failed"}
      /\ req \in [Threads -> Request] /\ job \in [Attempts -> Status]
      /\ mem \in Status /\ disk \in Status /\ tmp \in Status
      /\ copy \in [Procs -> Status]
      /\ ready \subseteq Workspaces \union {NoWorkspace}
      /\ MayLearn => ready' \subseteq Workspaces \union {NoWorkspace}
  BY DEF TypeOK, MayLearn
<1> DEFINE Same == /\ UNCHANGED <<mem, disk, tmp, copy, connector, requests,
                                  crashes, job>>
                   /\ initialized' \in {"pending", "ready", "failed"}
                   /\ ready' \subseteq Workspaces \union {NoWorkspace}
           Step(x) == pc[t] # "idle" /\ pc' = [pc EXCEPT ![t] = x] /\ Same
<1>a. ASSUME Answer(t), Same
      PROVE  TypeOK' /\ Numbered'
  BY <1>a, AnswerTypes
<1>b. ASSUME NEW x \in ThreadPoints, Step(x), UNCHANGED req,
             reserved' \in {reserved, Nobody, t}
      PROVE  TypeOK' /\ Numbered'
  BY <1>b, <1>0, ForwardTypes
<1>1. CASE CheckLocalData(t)
  BY <1>1, <1>0, <1>a, <1>b DEF CheckLocalData, ThreadPoints
<1>2. CASE Begin(t)
  <2>1. Reserved(t) \in ThreadPoints
    BY DEF Reserved, ThreadPoints, Reserving
  <2>2. QED
    BY <1>2, <2>1, <1>0, <1>a, <1>b DEF Begin
<1>3. CASE InitializeLocalData(t)
  BY <1>3, <1>0, <1>a, <1>b
  DEF InitializeLocalData, Goto, ThreadPoints, Reserving
<1>4. CASE Snapshot(t)
  <2>1. /\ req' \in [Threads -> Request]
        /\ \A u \in Threads : req'[u].id = req[u].id
    BY <1>4, <1>0 DEF Snapshot, Request
  <2>2. QED
    BY <1>4, <2>1, <1>0, ForwardTypes DEF Snapshot, Goto, ThreadPoints
<1>5. CASE Decide(t)
  <2>1. /\ [req EXCEPT ![t].snap = Missing] \in [Threads -> Request]
        /\ \A u \in Threads :
             [req EXCEPT ![t].snap = Missing][u].id = req[u].id
    BY <1>0 DEF Request
  <2>2. QED
    BY <1>5, <2>1, <1>0, <1>a, ForwardTypes DEF Decide, ThreadPoints
<1>6. CASE CheckElevation(t)
  BY <1>6, <1>0, <1>a, <1>b DEF CheckElevation, ThreadPoints, Reserving
<1>7. CASE Admit(t)
  <2>1. CASE Answer(t) /\ UNCHANGED <<status, job, initialized, ready>>
    BY <2>1, <1>0, <1>a
  <2>2. CASE /\ pc[t] = "admit" /\ pc' = [pc EXCEPT ![t] = "init"]
             /\ job' = [job EXCEPT ![req[t].id] = NewJob(t)]
             /\ UNCHANGED <<req, reserved>>
             /\ UNCHANGED <<status, initialized, ready>>
    <3>1. req[t].id \in Attempts
      BY <2>2 DEF Numbered
    <3>2. NewJob(t) \in Status
      BY <3>1, <1>0 DEF NewJob, Forced, Request, Status, TypeOK
    <3>3. QED
      BY <2>2, <3>2, <1>0, ForwardTypes DEF ThreadPoints, Reserving
  <2>3. QED
    BY <1>7, <2>1, <2>2 DEF Admit, AdmitUnless
<1>8. CASE StoreRunning(t)
  <2>1. mem' \in Status
    BY <1>8, <1>0 DEF StoreRunning, Goto, Numbered
  <2>2. QED
    BY <1>8, <2>1, <1>0, ForwardTypes
    DEF StoreRunning, Goto, ThreadPoints, Reserving
<1>9. CASE Spawn(t)
  <2>1. req[t].id \in Attempts /\ req[t].id <= requests
    BY <1>9 DEF Spawn, Numbered
  <2>2. /\ ControlPoints(pc')
        /\ pc'[t] = "idle" /\ pc'[req[t].id] = "installing"
        /\ \A q \in Procs \ {t, req[t].id} : pc'[q] = pc[q]
    BY <1>9, <2>1, Kinds3
    DEF Spawn, TypeOK, ControlPoints, ThreadPoints, WorkerPoints
  <2>3. req' \in [Threads -> Request]
    BY <1>9, <1>0 DEF Spawn
  <2>4. TypeOK'
    BY <1>9, <2>1, <2>2, <2>3 DEF Spawn, TypeOK
  <2>5. Numbered'
    <3> DEFINE n == req[t].id
    <3>1. /\ \A u \in Threads \ {t} : req'[u] = req[u] /\ pc'[u] = pc[u]
          /\ \A a \in Attempts \ {n} : pc'[a] = pc[a]
          /\ pc'[t] = "idle" /\ pc[t] # "idle" /\ requests' = requests
      BY <1>9, <1>0, <2>1, <2>2, Kinds3 DEF Spawn
    <3>2. \A a \in Attempts : a > requests => pc'[a] = "none"
      BY <2>1, <3>1 DEF Numbered, TypeOK, Attempts
    <3>3. \A u \in Threads :
            pc'[u] # "idle" => /\ u # t /\ req'[u].id = req[u].id
                               /\ req[u].id \in Attempts \ {n}
                               /\ req[u].id <= requests
                               /\ pc'[req[u].id] = "none"
      BY <3>1 DEF Numbered
    <3>4. QED
      BY <3>1, <3>2, <3>3 DEF Numbered
  <2>6. QED
    BY <2>4, <2>5
<1>10. CASE PassGate(t)
  BY <1>10, <1>0, <1>a, <1>b DEF PassGate, ThreadPoints, Reserving
<1>11. CASE EndWork(t)
  BY <1>11, <1>0, <1>a DEF EndWork
<1>12. QED
  BY <1>1, <1>2, <1>3, <1>4, <1>5, <1>6, <1>7, <1>8, <1>9, <1>10, <1>11
  DEF Serve

LEMMA WorkTypes ==
  ASSUME TypeOK, Numbered, NEW a \in Attempts, Work(a)
  PROVE  TypeOK' /\ Numbered'
<1>1. pc' = [pc EXCEPT ![a] = IF pc[a] = "installing" THEN "report"
                              ELSE "clone"]
  BY DEF Work, FinishInstall, Report, Goto
<1>2. /\ ControlPoints(pc')
      /\ \A q \in Procs \ {a} : pc'[q] = pc[q]
  <2>1. "report" \in WorkerPoints /\ "clone" \in WorkerPoints
    BY DEF WorkerPoints, Saving
  <2>2. ControlPoints(pc)
    BY DEF TypeOK
  <2>3. PICK x \in WorkerPoints : pc' = [pc EXCEPT ![a] = x]
    BY <1>1, <2>1
  <2>4. Moved(pc, pc', a, x)
    BY <2>2, <2>3, MoveWorker
  <2>5. QED
    BY <2>4 DEF Moved
<1>3. /\ job' \in [Attempts -> Status] /\ mem' \in Status
      /\ ready' \subseteq Workspaces \union {NoWorkspace}
  <2>1. /\ \A o \in {"succeeded", "failed"} :
             [job EXCEPT ![a].status = o] \in [Attempts -> Status]
        /\ [job EXCEPT ![a] = Missing] \in [Attempts -> Status]
        /\ job[a] \in Status /\ job[a].ws \in Workspaces \union {NoWorkspace}
    BY StatusRecords DEF TypeOK, Status, StatusNames
  <2>2. CASE FinishInstall(a)
    <3>1. PICK o \in {"succeeded", "failed"}, w \in {{}, {job[a].ws}} :
            /\ job' = [job EXCEPT ![a].status = o]
            /\ ready' = ready \union w
      BY <2>2 DEF FinishInstall
    <3>2. w \subseteq Workspaces \union {NoWorkspace}
      BY <2>1
    <3>3. mem' = mem
      BY <2>2 DEF FinishInstall, status
    <3>4. QED
      BY <2>1, <3>1, <3>2, <3>3 DEF TypeOK
  <2>3. CASE Report(a)
    BY <2>1, <2>3 DEF Report, TypeOK
  <2>4. QED
    BY <2>2, <2>3 DEF Work
<1>4. /\ pc[a] # "none" /\ UNCHANGED <<req, requests>>
      /\ UNCHANGED <<disk, tmp, copy, initialized, connector, crashes>>
      /\ reserved' \in {reserved, Nobody}
  BY DEF Work, FinishInstall, Report, Goto, status
<1>5. TypeOK'
  BY <1>2, <1>3, <1>4 DEF TypeOK
<1>6. Numbered'
  BY <1>2, <1>4, Kinds3 DEF Numbered
<1>7. QED
  BY <1>5, <1>6

LEMMA SaveTypes ==
  ASSUME TypeOK, Numbered, NEW p \in Procs, Save(p)
  PROVE  TypeOK' /\ Numbered'
<1> USE StatusRecords
<1>1. CASE p \in Threads /\ SaveFails(p)
  <2>1. /\ Answer(p) /\ UNCHANGED <<job, initialized, mem, disk, tmp, ready,
                                    connector, requests, crashes>>
        /\ copy' = [copy EXCEPT ![p] = Missing]
    BY <1>1 DEF SaveFails
  <2>2. ControlPoints(pc') /\ Moved(pc, pc', p, "idle")
    <3>1. "idle" \in ThreadPoints /\ ControlPoints(pc)
      BY DEF ThreadPoints, TypeOK
    <3>2. Moved(pc, pc', p, "idle")
      BY <1>1, <2>1, <3>1, MoveThread DEF Answer
    <3>3. QED
      BY <3>2 DEF Moved
  <2>3. TypeOK'
    BY <1>1, <2>1, <2>2 DEF Answer, TypeOK
  <2>4. Numbered'
    <3>1. \A u \in Threads \ {p} : req'[u] = req[u]
      BY <2>1 DEF Answer, TypeOK
    <3>2. QED
      BY <1>1, <2>1, <2>2, <3>1, Kinds3 DEF Numbered, Moved
  <2>5. QED
    BY <2>3, <2>4
<1>2. CASE ~(p \in Threads /\ SaveFails(p))
  <2>1. /\ pc[p] \in Saving
        /\ pc' = [pc EXCEPT ![p] = pc'[p]]
        /\ pc'[p] \in Saving \union {AfterSave(p)}
        /\ UNCHANGED <<req, reserved, requests, initialized, job, ready,
                       connector, crashes, mem>>
    BY <1>2, Kinds3
    DEF Save, Clone, WriteTemporary, RemoveOld, Rename, SaveFails, Goto, TypeOK,
        ControlPoints, Saving
  <2>2. /\ disk' \in Status /\ tmp' \in Status /\ copy' \in [Procs -> Status]
    BY <1>2
    DEF Save, Clone, WriteTemporary, RemoveOld, Rename, SaveFails, TypeOK
  <2>3. /\ ControlPoints(pc')
        /\ \A q \in Procs \ {p} : pc'[q] = pc[q]
        /\ pc'[p] # "idle"
    <3>1. /\ p = Main => pc'[p] \in MainPoints
          /\ p \in Threads => pc'[p] \in ThreadPoints
          /\ p \in Attempts => pc'[p] \in WorkerPoints
          /\ pc'[p] # "idle"
      BY <2>1, Kinds3
      DEF AfterSave, ThreadPoints, WorkerPoints, MainPoints, Reserving, Saving
    <3>2. ControlPoints(pc)
      BY DEF TypeOK
    <3>3. Moved(pc, pc', p, pc'[p])
      BY <2>1, <3>1, <3>2, Move
    <3>4. QED
      BY <3>1, <3>3 DEF Moved
  <2>4. TypeOK'
    BY <2>1, <2>2, <2>3 DEF TypeOK
  <2>5. Numbered'
    BY <2>1, <2>3, Kinds3 DEF Numbered, Saving
  <2>6. QED
    BY <2>4, <2>5
<1>3. QED
  BY <1>1, <1>2

LEMMA ProcessTypes ==
  ASSUME TypeOK, Numbered, Restart \/ Crash
  PROVE  TypeOK' /\ Numbered'
<1> USE StatusRecords
<1>1. CASE Restart
  <2>1. PICK v \in {connector, connector + 1} :
          /\ connector' = v
          /\ mem' = Recovered(disk, v)
          /\ pc' = [p \in Procs |->
                      IF p = Main
                      THEN IF Recovered(disk, v) = disk THEN "serving"
                           ELSE "clone"
                      ELSE IF pc[p] = "killed" THEN "dead" ELSE pc[p]]
    BY <1>1 DEF Restart
  <2>2. mem' \in Status /\ connector' \in Nat
    BY <2>1 DEF TypeOK
  <2>3. /\ ControlPoints(pc')
        /\ \A t \in Threads : pc'[t] = pc[t]
        /\ \A a \in Attempts : pc[a] = "none" => pc'[a] = "none"
    BY <2>1, Kinds3
    DEF TypeOK, ControlPoints, ThreadPoints, Reserving, WorkerPoints,
        MainPoints, Saving
  <2>4. TypeOK'
    BY <1>1, <2>2, <2>3 DEF Restart, TypeOK
  <2>5. Numbered'
    BY <1>1, <2>3, Kinds3 DEF Restart, Numbered
  <2>6. QED
    BY <2>4, <2>5
<1>2. CASE Crash
  <2>1. /\ ControlPoints(pc')
        /\ \A t \in Threads : pc'[t] = "idle"
        /\ \A a \in Attempts : pc[a] = "none" => pc'[a] = "none"
    BY <1>2, Kinds3
    DEF Crash, TypeOK, ControlPoints, ThreadPoints, WorkerPoints, MainPoints,
        Saving
  <2>2. TypeOK'
    BY <1>2, <2>1 DEF Crash, TypeOK
  <2>3. Numbered'
    BY <1>2, <2>1, Kinds3 DEF Crash, Numbered
  <2>4. QED
    BY <2>2, <2>3
<1>3. QED
  BY <1>1, <1>2

LEMMA ReceiveTypes ==
  ASSUME TypeOK, Numbered, NEW t \in Threads, Receive(t)
  PROVE  TypeOK' /\ Numbered'
<1>1. /\ requests + 1 \in Attempts /\ requests' \in 0..MaxRequests
      /\ requests' = requests + 1
  BY SetupAssumption DEF Receive, Attempts, TypeOK
<1>2. /\ req' \in [Threads -> Request]
      /\ req'[t].id = requests + 1
      /\ \A u \in Threads \ {t} : req'[u] = req[u]
  <2>1. \A kind \in Kinds :
          /\ kind \in AllKinds
          /\ \A ws \in Targets(kind) : ws \in Workspaces \union {NoWorkspace}
    BY SetupAssumption DEF Targets
  <2>2. PICK kind \in AllKinds, elevate \in BOOLEAN,
             ws \in Workspaces \union {NoWorkspace} :
          req' = [req EXCEPT ![t] = [kind |-> kind, ws |-> ws,
                                     id |-> requests + 1, elevate |-> elevate,
                                     snap |-> Missing]]
    BY <2>1 DEF Receive
  <2>3. [kind |-> kind, ws |-> ws, id |-> requests + 1, elevate |-> elevate,
         snap |-> Missing] \in Request
    BY <1>1, <2>2, StatusRecords DEF Request
  <2>4. QED
    BY <2>2, <2>3 DEF TypeOK
<1>3. /\ ControlPoints(pc')
      /\ \A q \in Procs \ {t} : pc'[q] = pc[q]
  <2>1. PICK x \in {"local", "begin"} : pc' = [pc EXCEPT ![t] = x]
    BY DEF Receive
  <2>2. Moved(pc, pc', t, x)
    BY <2>1, MoveThread DEF ThreadPoints, TypeOK
  <2>3. QED
    BY <2>2 DEF Moved
<1>4. TypeOK'
  BY <1>1, <1>2, <1>3 DEF Receive, TypeOK
<1>5. Numbered'
  <2>1. pc[t] = "idle" /\ pc'[t] # "idle"
    BY <1>1, Kinds3 DEF Receive, TypeOK, ControlPoints
  <2>2. \A a \in Attempts : pc'[a] = pc[a]
    BY <1>3, Kinds3
  <2>3. \A a \in Attempts : a > requests' => a > requests
    BY <1>1 DEF Attempts, TypeOK
  <2>4. \A u \in Threads \ {t} :
          /\ pc'[u] = pc[u] /\ req'[u] = req[u]
          /\ pc[u] # "idle" => /\ req[u].id <= requests'
                               /\ req[u].id # requests + 1
    BY <1>1, <1>2, <1>3, Kinds3 DEF Numbered, Attempts, TypeOK
  <2>5. pc[requests + 1] = "none" /\ requests + 1 <= requests'
    BY <1>1 DEF Numbered, TypeOK
  <2>6. QED
    BY <1>1, <1>2, <2>1, <2>2, <2>3, <2>4, <2>5 DEF Numbered
<1>6. QED
  BY <1>4, <1>5

LEMMA NextTypes == TypeOK /\ Numbered /\ [Next]_vars => TypeOK' /\ Numbered'
<1>1. ASSUME TypeOK, Numbered, UNCHANGED vars PROVE TypeOK' /\ Numbered'
  BY <1>1 DEF TypeOK, Numbered, vars
<1>2. QED
  BY <1>1, ServeTypes, WorkTypes, SaveTypes, ProcessTypes, ReceiveTypes
  DEF Next

\* Every variable keeps its type: pc stays at the control points of its kind
\* of process, records stay records, counters stay within their bounds.
THEOREM TypeCorrect == Spec => []TypeOK
<1>1. Spec => [](TypeOK /\ Numbered)
  BY InitTypes, NextTypes, PTL DEF Spec
<1>2. QED
  BY <1>1, PTL


-----------------------------------------------------------------------------
(* The inductive invariant.  No property of SetupLifecycle is inductive on *)
(* its own: that the reservation excludes (state_access.rs:27) protects    *)
(* the status only because whoever touches the status holds it or still    *)
(* owns the running record, and because the threads die with the process.  *)

\* The reservation says who is active.
ReservationHeld ==
  /\ \A t \in Threads : pc[t] \in Reserving <=> reserved = t
  /\ \A a \in Attempts : pc[a] = "installing" <=> reserved = a

\* Before the process serves, nothing of it runs.
Quiet ==
  pc[Main] # "serving" =>
    /\ \A t \in Threads : pc[t] = "idle"
    /\ \A a \in Attempts : ~Live(a)
    /\ mem.status # "running"

\* The record of an attempt on its way into the status and back.
RecordInTransit ==
  /\ \A t \in Threads :
       pc[t] \in {"init", "store"} =>
         /\ mem.status # "running"
         /\ job[req[t].id].status = "running"
         /\ job[req[t].id].attempt = req[t].id
  /\ \A t \in Threads :
       pc[t] \in Saving \union {"spawn"} =>
         mem.status = "running" /\ mem.attempt = req[t].id
  /\ \A a \in Attempts :
       pc[a] = "report" => job[a].status \in {"succeeded", "failed"}

\* The running status names an attempt that no death of the process has cut.
RunningIsNotCut ==
  mem.status = "running" =>
    mem.attempt \in Attempts /\ pc[mem.attempt] \notin {"killed", "dead"}

Safe ==
  /\ ReservationHeld /\ Quiet /\ RecordInTransit /\ RunningIsNotCut
  /\ InstallerOwnsStatus /\ GateStable

IInv == TypeOK /\ Numbered /\ Safe

LEMMA InitSafe == Init => Safe
<1> SUFFICES ASSUME Init PROVE Safe
  OBVIOUS
<1>1. /\ \A t \in Threads : pc[t] = "idle"
      /\ \A a \in Attempts : pc[a] = "none"
      /\ reserved = Nobody /\ mem.status = "missing"
  BY Kinds3 DEF Init, Missing
<1>2. QED
  BY <1>1, Kinds3
  DEF Safe, ReservationHeld, Quiet, RecordInTransit, RunningIsNotCut,
      InstallerOwnsStatus, GateStable, Live, Reserving, Saving

-----------------------------------------------------------------------------
(* Steps of the connection threads.                                        *)

\* A thread of a serving process moves to x and leaves the status alone:
\* what x promises must be true, and what only the holder of the reservation
\* may change is changed by nobody else.
ThreadStep(t, x) ==
  /\ pc[Main] = "serving"
  /\ pc' = [pc EXCEPT ![t] = x] /\ x \in ThreadPoints
  /\ \A u \in Threads \ {t} : req'[u] = req[u]
  /\ x = "idle" \/ req'[t].id = req[t].id
  /\ mem' = mem
  /\ x \in Reserving => reserved \in {Nobody, t}
  /\ reserved' = IF x \in Reserving THEN t
                 ELSE IF reserved = t THEN Nobody ELSE reserved
  /\ UNCHANGED <<job, initialized>> \/ reserved = t
  /\ \A a \in Attempts : pc[a] = "report" => job'[a] = job[a]
  /\ x \in {"init", "store"} =>
       /\ mem.status # "running"
       /\ job'[req[t].id].status = "running"
       /\ job'[req[t].id].attempt = req[t].id
  /\ x \in Saving \union {"spawn"} =>
       mem.status = "running" /\ mem.attempt = req[t].id
  /\ x = "working" => mem.status = "succeeded" /\ initialized' = "ready"

LEMMA ThreadStepSafe ==
  ASSUME IInv, NEW t \in Threads, NEW x, ThreadStep(t, x)
  PROVE  Safe'
<1>1. /\ pc'[t] = x
      /\ \A q \in Procs \ {t} : pc'[q] = pc[q]
  <2>1. ControlPoints(pc)
    BY DEF IInv, TypeOK
  <2>2. Moved(pc, pc', t, x)
    BY <2>1, MoveThread DEF ThreadStep
  <2>3. QED
    BY <2>2 DEF Moved
<1>2. /\ pc'[Main] = "serving"
      /\ \A u \in Threads \ {t} : pc'[u] = pc[u] /\ req'[u] = req[u]
      /\ \A a \in Attempts : pc'[a] = pc[a]
  BY <1>1, Kinds3 DEF ThreadStep
<1>3. ReservationHeld'
  <2>1. \A u \in Threads \ {t} : reserved' = u <=> reserved = u
    BY Kinds3 DEF ThreadStep
  <2>2. \A a \in Attempts : reserved' = a <=> reserved = a
    BY Kinds3 DEF ThreadStep
  <2>3. x \in Reserving <=> reserved' = t
    BY Kinds3 DEF ThreadStep
  <2>4. QED
    BY <1>1, <1>2, <2>1, <2>2, <2>3 DEF IInv, Safe, ReservationHeld
<1>4. Quiet'
  BY <1>2 DEF Quiet
<1>5. \A u \in Threads \ {t} : pc[u] \in Reserving => UNCHANGED <<job, initialized>>
  BY DEF ThreadStep, IInv, Safe, ReservationHeld
<1>6. RecordInTransit'
  <2>1. ASSUME NEW u \in Threads, pc'[u] \in {"init", "store"}
        PROVE  /\ mem'.status # "running"
               /\ job'[req'[u].id].status = "running"
               /\ job'[req'[u].id].attempt = req'[u].id
    <3>1. CASE u = t
      BY <1>1, <2>1, <3>1 DEF ThreadStep
    <3>2. CASE u # t
      BY <1>2, <1>5, <2>1, <3>2
      DEF ThreadStep, IInv, Safe, RecordInTransit, Reserving
    <3>3. QED
      BY <3>1, <3>2
  <2>2. ASSUME NEW u \in Threads, pc'[u] \in Saving \union {"spawn"}
        PROVE  mem'.status = "running" /\ mem'.attempt = req'[u].id
    <3>1. CASE u = t
      BY <1>1, <2>2, <3>1 DEF ThreadStep, Saving
    <3>2. CASE u # t
      BY <1>2, <2>2, <3>2 DEF ThreadStep, IInv, Safe, RecordInTransit
    <3>3. QED
      BY <3>1, <3>2
  <2>3. \A a \in Attempts :
          pc'[a] = "report" => job'[a].status \in {"succeeded", "failed"}
    BY <1>2 DEF ThreadStep, IInv, Safe, RecordInTransit
  <2>4. QED
    BY <2>1, <2>2, <2>3 DEF RecordInTransit
<1>7. RunningIsNotCut'
  BY <1>2 DEF ThreadStep, IInv, Safe, RunningIsNotCut
<1>8. InstallerOwnsStatus'
  BY <1>2 DEF ThreadStep, IInv, Safe, InstallerOwnsStatus, Live
<1>9. GateStable'
  BY <1>1, <1>2, <1>5 DEF ThreadStep, IInv, Safe, GateStable, Reserving
<1>10. QED
  BY <1>3, <1>4, <1>6, <1>7, <1>8, <1>9 DEF Safe

\* The request is answered.
LEMMA AnswerSafe ==
  ASSUME IInv, NEW t \in Threads, pc[t] # "idle", Answer(t), mem' = mem,
         job' = job, initialized' = initialized \/ reserved = t
  PROVE  Safe'
<1>1. "idle" \in ThreadPoints /\ "idle" \notin Reserving \union Saving
  BY DEF ThreadPoints, Reserving, Saving
<1>2. pc[Main] = "serving"
  BY DEF IInv, Safe, Quiet
<1>3. \A u \in Threads \ {t} : req'[u] = req[u]
  BY DEF Answer, IInv, TypeOK
<1>4. ThreadStep(t, "idle")
  BY <1>1, <1>2, <1>3 DEF ThreadStep, Answer
<1>5. QED
  BY <1>4, ThreadStepSafe

\* The thread moves to a point that promises nothing about the status.
Plain == (Reserving \ (Saving \union {"init", "store", "spawn", "working"}))
           \union {"local", "localbegin", "snapshot", "auth", "begin"}

LEMMA PlainSafe ==
  ASSUME IInv, NEW t \in Threads, pc[t] # "idle", NEW x \in Plain,
         pc' = [pc EXCEPT ![t] = x], mem' = mem, job' = job,
         \A u \in Threads \ {t} : req'[u] = req[u],
         req'[t].id = req[t].id,
         x \in Reserving => reserved \in {Nobody, t},
         reserved' = IF x \in Reserving THEN t
                     ELSE IF reserved = t THEN Nobody ELSE reserved,
         initialized' = initialized \/ reserved = t
  PROVE  Safe'
<1>1. x \in ThreadPoints
      /\ x \notin Saving \union {"init", "store", "spawn", "working", "idle"}
  BY DEF Plain, ThreadPoints, Reserving, Saving
<1>2. pc[Main] = "serving"
  BY DEF IInv, Safe, Quiet
<1>3. ThreadStep(t, x)
  BY <1>1, <1>2 DEF ThreadStep
<1>4. QED
  BY <1>3, ThreadStepSafe

LEMMA RequestSafe ==
  ASSUME IInv, NEW t \in Threads,
         \/ CheckLocalData(t) \/ Begin(t) \/ InitializeLocalData(t)
         \/ Snapshot(t) \/ Decide(t) \/ CheckElevation(t)
         \/ PassGate(t) \/ EndWork(t)
  PROVE  Safe'
<1>0. /\ pc[t] \in Reserving <=> reserved = t
      /\ t # Nobody
      /\ req \in [Threads -> Request]
      /\ UNCHANGED status => mem' = mem
      /\ UNCHANGED req => \A u \in Threads : req'[u] = req[u]
      /\ pc[t] # "idle" => pc[Main] = "serving"
  BY Kinds3 DEF IInv, Safe, ReservationHeld, TypeOK, status, Quiet
<1>a. ASSUME Answer(t), pc[t] # "idle", UNCHANGED <<status, job>>,
             initialized' = initialized \/ pc[t] \in Reserving
      PROVE  Safe'
  BY <1>0, <1>a, AnswerSafe
<1>1. CASE CheckLocalData(t)
  <2>1. CASE Answer(t)
    BY <1>1, <1>a, <2>1 DEF CheckLocalData
  <2>2. CASE ~Answer(t)
    <3>1. PICK x \in {"snapshot", "localbegin"} : pc' = [pc EXCEPT ![t] = x]
      BY <1>1, <2>2 DEF CheckLocalData
    <3>2. x \in Plain /\ x \notin Reserving /\ pc[t] \notin Reserving
      BY <1>1, <3>1 DEF Plain, Reserving, Saving, CheckLocalData
    <3>3. QED
      BY <1>0, <1>1, <2>2, <3>1, <3>2, PlainSafe DEF CheckLocalData
  <2>3. QED
    BY <2>1, <2>2
<1>2. CASE Begin(t)
  <2>1. CASE reserved # Nobody
    BY <1>2, <1>a, <2>1 DEF Begin
  <2>2. CASE reserved = Nobody
    <3>1. Reserved(t) \in Plain /\ Reserved(t) \in Reserving
      BY DEF Plain, Reserving, Saving, Reserved
    <3>2. QED
      BY <1>0, <1>2, <2>2, <3>1, PlainSafe DEF Begin
  <2>3. QED
    BY <2>1, <2>2
<1>3. CASE InitializeLocalData(t)
  <2>1. pc[t] \in Reserving /\ reserved = t /\ pc[t] # "idle"
    BY <1>0, <1>3 DEF InitializeLocalData, Reserving
  <2>2. CASE Answer(t)
    BY <1>3, <1>a, <2>1, <2>2 DEF InitializeLocalData
  <2>3. CASE pc[t] = "localinit" /\ pc' = [pc EXCEPT ![t] = "snapshot"]
             /\ reserved' = Nobody /\ UNCHANGED req
    <3>1. "snapshot" \in Plain /\ "snapshot" \notin Reserving
      BY DEF Plain, Reserving, Saving
    <3>2. QED
      BY <1>0, <1>3, <2>1, <2>3, <3>1, PlainSafe DEF InitializeLocalData
  <2>4. CASE Goto(t, "init", "store") /\ UNCHANGED <<req, reserved>>
    <3>1. /\ "store" \in ThreadPoints /\ "store" \in Reserving
          /\ "store" \notin Saving \union {"spawn"}
      BY DEF ThreadPoints, Reserving, Saving
    <3>2. /\ mem.status # "running"
          /\ job[req[t].id].status = "running"
          /\ job[req[t].id].attempt = req[t].id
      BY <2>4 DEF Goto, IInv, Safe, RecordInTransit
    <3>3. ThreadStep(t, "store")
      BY <1>0, <1>3, <2>1, <2>4, <3>1, <3>2
      DEF ThreadStep, Goto, InitializeLocalData
    <3>4. QED
      BY <3>3, ThreadStepSafe
  <2>5. QED
    BY <1>3, <2>2, <2>3, <2>4 DEF InitializeLocalData
<1>4. CASE Snapshot(t)
  <2>1. /\ "auth" \in Plain /\ "auth" \notin Reserving
        /\ pc[t] = "snapshot" /\ pc[t] \notin Reserving
    BY <1>4 DEF Plain, Reserving, Saving, Snapshot, Goto
  <2>2. \A u \in Threads : req'[u].id = req[u].id /\ (u # t => req'[u] = req[u])
    BY <1>0, <1>4 DEF Snapshot, Request
  <2>3. QED
    BY <1>0, <1>4, <2>1, <2>2, PlainSafe DEF Snapshot, Goto
<1>5. CASE Decide(t)
  <2>1. CASE Answer(t)
    BY <1>5, <1>a, <2>1 DEF Decide
  <2>2. CASE ~Answer(t)
    <3>1. /\ "begin" \in Plain /\ "begin" \notin Reserving
          /\ pc[t] = "auth" /\ pc[t] \notin Reserving
      BY <1>5 DEF Plain, Reserving, Saving, Decide
    <3>2. \A u \in Threads : req'[u].id = req[u].id /\ (u # t => req'[u] = req[u])
      BY <1>0, <1>5, <2>2 DEF Decide, Request
    <3>3. QED
      BY <1>0, <1>5, <2>2, <3>1, <3>2, PlainSafe DEF Decide
  <2>3. QED
    BY <2>1, <2>2
<1>6. CASE CheckElevation(t)
  <2>1. CASE Answer(t)
    BY <1>6, <1>a, <2>1 DEF CheckElevation
  <2>2. CASE ~Answer(t)
    <3>1. /\ "admit" \in Plain /\ "admit" \in Reserving
          /\ pc[t] = "elevate" /\ pc[t] \in Reserving
      BY <1>6 DEF Plain, Reserving, Saving, CheckElevation
    <3>2. QED
      BY <1>0, <1>6, <2>2, <3>1, PlainSafe DEF CheckElevation
  <2>3. QED
    BY <2>1, <2>2
<1>7. CASE PassGate(t)
  <2>1. CASE Answer(t)
    BY <1>7, <1>a, <2>1 DEF PassGate
  <2>2. CASE ~Answer(t)
    <3>1. /\ "working" \in ThreadPoints /\ "working" \in Reserving
          /\ "working" \notin Saving \union {"spawn", "init", "store"}
          /\ pc[t] \in Reserving /\ pc[t] # "idle"
      BY <1>7 DEF ThreadPoints, Reserving, Saving, PassGate
    <3>2. ThreadStep(t, "working")
      BY <1>0, <1>7, <2>2, <3>1 DEF ThreadStep, PassGate
    <3>3. QED
      BY <3>2, ThreadStepSafe
  <2>3. QED
    BY <2>1, <2>2
<1>8. CASE EndWork(t)
  BY <1>8, <1>a DEF EndWork
<1>9. QED
  BY <1>1, <1>2, <1>3, <1>4, <1>5, <1>6, <1>7, <1>8

LEMMA AdmitSafe ==
  ASSUME IInv, NEW t \in Threads, Admit(t)
  PROVE  Safe'
<1>1. /\ pc[t] = "admit" /\ pc[t] \in Reserving /\ reserved = t
      /\ mem' = mem /\ initialized' = initialized
  BY DEF Admit, AdmitUnless, IInv, Safe, ReservationHeld, Reserving, status
<1>2. CASE Answer(t) /\ UNCHANGED job
  BY <1>1, <1>2, AnswerSafe
<1>3. CASE /\ mem.status # "running"
           /\ pc' = [pc EXCEPT ![t] = "init"]
           /\ job' = [job EXCEPT ![req[t].id] = NewJob(t)]
           /\ UNCHANGED <<req, reserved>>
  <2>1. /\ "init" \in ThreadPoints /\ "init" \in Reserving
        /\ "init" \notin Saving \union {"spawn"}
    BY DEF ThreadPoints, Reserving, Saving
  <2>2. req[t].id \in Attempts /\ pc[req[t].id] = "none"
    BY <1>1 DEF IInv, Numbered
  <2>3. job'[req[t].id].status = "running" /\ job'[req[t].id].attempt = req[t].id
    BY <1>3, <2>2 DEF NewJob, Running, IInv, TypeOK
  <2>4. \A a \in Attempts : pc[a] = "report" => job'[a] = job[a]
    BY <1>3, <2>2 DEF IInv, TypeOK
  <2>5. pc[Main] = "serving"
    BY <1>1 DEF IInv, Safe, Quiet
  <2>6. ThreadStep(t, "init")
    BY <1>1, <1>3, <2>1, <2>3, <2>4, <2>5 DEF ThreadStep
  <2>7. QED
    BY <2>6, ThreadStepSafe
<1>4. QED
  BY <1>2, <1>3 DEF Admit, AdmitUnless

\* Nobody else holds the reservation while a thread does.
LEMMA Alone ==
  ASSUME IInv, NEW t \in Threads, pc[t] \in Reserving
  PROVE  /\ pc[Main] = "serving" /\ reserved = t
         /\ \A u \in Threads \ {t} : pc[u] \notin Reserving
         /\ \A a \in Attempts : pc[a] # "installing"
BY Kinds3 DEF IInv, Safe, ReservationHeld, Quiet, Reserving

LEMMA StoreRunningSafe ==
  ASSUME IInv, NEW t \in Threads, StoreRunning(t)
  PROVE  Safe'
<1> DEFINE n == req[t].id
<1>1. /\ pc[t] = "store" /\ mem' = job[n]
      /\ UNCHANGED <<req, job, reserved, initialized>>
  BY DEF StoreRunning, Goto
<1>2. /\ mem.status # "running"
      /\ mem'.status = "running" /\ mem'.attempt = n
  BY <1>1 DEF IInv, Safe, RecordInTransit
<1>3. n \in Attempts /\ pc[n] = "none"
  BY <1>1 DEF IInv, Numbered
<1>4. /\ pc[Main] = "serving" /\ reserved = t
      /\ \A u \in Threads \ {t} : pc[u] \notin Reserving
      /\ \A a \in Attempts : ~Live(a)
  BY <1>1, <1>2, Alone DEF Reserving, IInv, Safe, InstallerOwnsStatus
<1>5. /\ pc'[t] = "clone" /\ "clone" \in Reserving \intersect Saving
      /\ \A q \in Procs \ {t} : pc'[q] = pc[q]
  BY Kinds3 DEF StoreRunning, Goto, IInv, TypeOK, ControlPoints, Reserving, Saving
<1>6. /\ pc'[Main] = "serving"
      /\ \A u \in Threads \ {t} : pc'[u] = pc[u] /\ pc'[u] \notin Reserving
      /\ \A a \in Attempts : pc'[a] = pc[a]
  BY <1>4, <1>5, Kinds3
<1>7. ReservationHeld' /\ Quiet'
  BY <1>1, <1>4, <1>5, <1>6, Kinds3
  DEF ReservationHeld, Quiet, IInv, Safe
<1>8. RecordInTransit'
  BY <1>1, <1>2, <1>4, <1>5, <1>6
  DEF RecordInTransit, Live, Reserving, Saving
<1>9. RunningIsNotCut' /\ InstallerOwnsStatus' /\ GateStable'
  BY <1>2, <1>3, <1>4, <1>5, <1>6
  DEF RunningIsNotCut, InstallerOwnsStatus, GateStable, Live, Reserving
<1>10. QED
  BY <1>7, <1>8, <1>9 DEF Safe

LEMMA SpawnSafe ==
  ASSUME IInv, NEW t \in Threads, Spawn(t)
  PROVE  Safe'
<1> DEFINE n == req[t].id
<1>1. /\ pc[t] = "spawn" /\ reserved' = n
      /\ UNCHANGED <<mem, job, initialized>>
  BY DEF Spawn, status
<1>2. n \in Attempts /\ pc[n] = "none"
  BY <1>1 DEF IInv, Numbered
<1>3. mem.status = "running" /\ mem.attempt = n
  BY <1>1 DEF IInv, Safe, RecordInTransit
<1>4. /\ pc[Main] = "serving" /\ reserved = t
      /\ \A u \in Threads \ {t} : pc[u] \notin Reserving
      /\ \A a \in Attempts : ~Live(a)
  BY <1>1, <1>2, <1>3, Alone DEF Reserving, IInv, Safe, InstallerOwnsStatus, Live
<1>5. /\ pc'[t] = "idle" /\ pc'[n] = "installing"
      /\ \A q \in Procs \ {t, n} : pc'[q] = pc[q]
  BY <1>2, Kinds3 DEF Spawn, IInv, TypeOK, ControlPoints
<1>6. /\ pc'[Main] = "serving"
      /\ \A u \in Threads : pc'[u] \notin Reserving
      /\ \A a \in Attempts \ {n} : pc'[a] = pc[a]
  BY <1>2, <1>4, <1>5, Kinds3 DEF Reserving
<1>7. ReservationHeld' /\ Quiet'
  BY <1>1, <1>2, <1>4, <1>5, <1>6, Kinds3 DEF ReservationHeld, Quiet, Live
<1>8. RecordInTransit'
  BY <1>1, <1>4, <1>5, <1>6 DEF RecordInTransit, Live, Reserving, Saving
<1>9. RunningIsNotCut' /\ InstallerOwnsStatus' /\ GateStable'
  BY <1>1, <1>2, <1>3, <1>4, <1>5, <1>6
  DEF RunningIsNotCut, InstallerOwnsStatus, GateStable, Live, Reserving
<1>10. QED
  BY <1>7, <1>8, <1>9 DEF Safe

-----------------------------------------------------------------------------
(* Steps of the workers, of the saves, of the process and of the clients.  *)

\* A live worker is alone with the running record.
LEMMA WorkerAlone ==
  ASSUME IInv, NEW a \in Attempts, Live(a)
  PROVE  /\ pc[Main] = "serving"
         /\ mem.status = "running" /\ mem.attempt = a
         /\ \A b \in Attempts \ {a} : ~Live(b)
         /\ \A t \in Threads :
              pc[t] \notin Saving \union {"init", "store", "spawn", "working"}
<1>1. /\ pc[Main] = "serving"
      /\ mem.status = "running" /\ mem.attempt = a
      /\ \A b \in Attempts \ {a} : ~Live(b)
  BY DEF IInv, Safe, Quiet, InstallerOwnsStatus
<1>2. ASSUME NEW t \in Threads,
             pc[t] \in Saving \union {"init", "store", "spawn", "working"}
      PROVE  FALSE
  <2>1. CASE pc[t] \in {"init", "store", "working"}
    BY <1>1, <2>1 DEF IInv, Safe, RecordInTransit, GateStable
  <2>2. CASE pc[t] \in Saving \union {"spawn"}
    <3>1. req[t].id = a /\ pc[t] # "idle"
      BY <1>1, <2>2 DEF IInv, Safe, RecordInTransit, Saving
    <3>2. QED
      BY <3>1 DEF IInv, Numbered, Live
  <2>3. QED
    BY <1>2, <2>1, <2>2
<1>3. QED
  BY <1>1, <1>2

LEMMA WorkSafe ==
  ASSUME IInv, NEW a \in Attempts, Work(a)
  PROVE  Safe'
<1>1. Live(a) /\ UNCHANGED <<req, initialized>>
  BY DEF Work, FinishInstall, Report, Goto, Live
<1>2. /\ pc[Main] = "serving"
      /\ mem.status = "running" /\ mem.attempt = a
      /\ \A b \in Attempts \ {a} : ~Live(b)
      /\ \A t \in Threads :
           pc[t] \notin Saving \union {"init", "store", "spawn", "working"}
  BY <1>1, WorkerAlone
<1>3. /\ pc'[a] = IF pc[a] = "installing" THEN "report" ELSE "clone"
      /\ \A q \in Procs \ {a} : pc'[q] = pc[q]
  BY Kinds3 DEF Work, FinishInstall, Report, Goto, IInv, TypeOK, ControlPoints
<1>4. /\ pc'[Main] = "serving"
      /\ \A t \in Threads : pc'[t] = pc[t]
      /\ \A b \in Attempts \ {a} : pc'[b] = pc[b]
  BY <1>2, <1>3, Kinds3
<1>5. ReservationHeld'
  <2>1. CASE FinishInstall(a)
    BY <1>3, <1>4, <2>1, Kinds3
    DEF FinishInstall, ReservationHeld, IInv, Safe
  <2>2. CASE Report(a)
    BY <1>3, <1>4, <2>2 DEF Report, Goto, ReservationHeld, IInv, Safe
  <2>3. QED
    BY <2>1, <2>2 DEF Work
<1>6. Quiet' /\ GateStable'
  BY <1>2, <1>4 DEF Quiet, GateStable
<1>7. CASE FinishInstall(a)
  <2>1. mem' = mem /\ job'[a].status \in {"succeeded", "failed"} /\ pc[a] = "installing"
    <3>1. PICK o \in {"succeeded", "failed"} : job' = [job EXCEPT ![a].status = o]
      BY <1>7 DEF FinishInstall
    <3>2. QED
      BY <1>7, <3>1 DEF FinishInstall, status, IInv, TypeOK, Status
  <2>2. RecordInTransit'
    BY <1>2, <1>3, <1>4, <2>1 DEF RecordInTransit, Live
  <2>3. RunningIsNotCut' /\ InstallerOwnsStatus'
    BY <1>2, <1>3, <1>4, <2>1 DEF RunningIsNotCut, InstallerOwnsStatus, Live
  <2>4. QED
    BY <1>5, <1>6, <2>2, <2>3 DEF Safe
<1>8. CASE Report(a)
  <2>1. mem'.status # "running" /\ pc'[a] = "clone"
    BY <1>3, <1>8 DEF Report, Goto, IInv, Safe, RecordInTransit
  <2>2. RecordInTransit'
    BY <1>2, <1>4, <2>1 DEF RecordInTransit, Live
  <2>3. RunningIsNotCut' /\ InstallerOwnsStatus'
    BY <1>2, <1>4, <2>1 DEF RunningIsNotCut, InstallerOwnsStatus, Live
  <2>4. QED
    BY <1>5, <1>6, <2>2, <2>3 DEF Safe
<1>9. QED
  BY <1>7, <1>8 DEF Work

\* A step of a save: p moves on, or a request is answered with the error.
LEMMA SaveMoves ==
  ASSUME IInv, NEW p \in Procs, Save(p)
  PROVE  /\ pc[p] \in Saving
         /\ UNCHANGED <<job, mem, initialized>>
         /\ \/ p \in Threads /\ Answer(p)
            \/ \E x \in Saving \union {AfterSave(p)} :
                 pc' = [pc EXCEPT ![p] = x] /\ UNCHANGED <<req, reserved>>
BY DEF Save, Clone, WriteTemporary, RemoveOld, Rename, SaveFails, Goto, Saving

LEMMA SaveSafe ==
  ASSUME IInv, NEW p \in Procs, Save(p)
  PROVE  Safe'
<1>1. /\ pc[p] \in Saving /\ pc[p] # "idle"
      /\ UNCHANGED <<job, mem, initialized>>
  BY SaveMoves DEF Saving
<1>2. CASE p \in Threads /\ Answer(p)
  BY <1>1, <1>2, AnswerSafe
<1>3. ASSUME NEW x \in Saving \union {AfterSave(p)},
             pc' = [pc EXCEPT ![p] = x], UNCHANGED <<req, reserved>>
      PROVE  Safe'
  <2>1. CASE p \in Threads
    <3>1. /\ x \in Saving \union {"spawn"} /\ x \in Reserving /\ x \in ThreadPoints
          /\ x \notin {"idle", "init", "store", "working"}
          /\ pc[p] \in Reserving
      BY <1>1, <1>3, <2>1 DEF AfterSave, Saving, Reserving, ThreadPoints
    <3>2. /\ reserved = p /\ pc[Main] = "serving"
          /\ mem.status = "running" /\ mem.attempt = req[p].id
      BY <1>1, <2>1, <3>1, Alone DEF IInv, Safe, RecordInTransit
    <3>3. ThreadStep(p, x)
      BY <1>1, <1>3, <3>1, <3>2 DEF ThreadStep
    <3>4. QED
      BY <2>1, <3>3, ThreadStepSafe
  <2>2. CASE p \notin Threads
    <3>1. /\ \A q \in Procs \ {p} : pc'[q] = pc[q]
          /\ pc'[p] = x
      BY <1>3 DEF IInv, TypeOK, ControlPoints
    <3>2. \A t \in Threads : pc'[t] = pc[t]
      BY <2>2, <3>1, Kinds3
    <3>3. /\ x \in Saving \union {"serving", "done"}
          /\ p \in Attempts => x \in Saving \union {"done"}
          /\ p = Main => pc[Main] # "serving"
      BY <1>1, <1>3, <2>2, Kinds3 DEF AfterSave, Saving
    <3>4. \A a \in Attempts :
            /\ pc'[a] = "installing" <=> pc[a] = "installing"
            /\ pc'[a] = "report" <=> pc[a] = "report"
            /\ pc'[a] \in {"killed", "dead"} => pc[a] \in {"killed", "dead"}
      BY <1>1, <3>1, <3>3, Kinds3 DEF Saving
    <3>5. pc'[Main] # "serving" => pc[Main] # "serving"
      BY <2>2, <3>1, <3>3, Kinds3 DEF Saving
    <3>6. ReservationHeld' /\ Quiet' /\ RecordInTransit'
      BY <1>1, <1>3, <3>2, <3>4, <3>5
      DEF IInv, Safe, ReservationHeld, Quiet, RecordInTransit, Live
    <3>7. RunningIsNotCut' /\ InstallerOwnsStatus' /\ GateStable'
      BY <1>1, <1>3, <3>2, <3>4
      DEF IInv, Safe, RunningIsNotCut, InstallerOwnsStatus, GateStable, Live
    <3>8. QED
      BY <3>6, <3>7 DEF Safe
  <2>3. QED
    BY <2>1, <2>2
<1>4. QED
  BY <1>2, <1>3, SaveMoves

LEMMA ReceiveSafe ==
  ASSUME IInv, NEW t \in Threads, Receive(t)
  PROVE  Safe'
<1>1. PICK x \in {"local", "begin"} : pc' = [pc EXCEPT ![t] = x]
  BY DEF Receive
<1>2. /\ x \in ThreadPoints /\ x \notin Reserving
      /\ x \notin Saving \union {"idle", "init", "store", "spawn", "working"}
  BY DEF ThreadPoints, Reserving, Saving
<1>3. /\ \A q \in Procs \ {t} : pc'[q] = pc[q]
      /\ pc'[t] = x /\ pc[t] = "idle" /\ pc[Main] = "serving"
      /\ UNCHANGED <<job, mem, reserved, initialized>>
  BY <1>1, Kinds3 DEF Receive, Serving, IInv, TypeOK, ControlPoints
<1>4. \A u \in Threads \ {t} : req'[u] = req[u] /\ pc'[u] = pc[u]
  BY <1>3, Kinds3 DEF Receive, IInv, TypeOK
<1>5. /\ pc'[Main] = "serving"
      /\ \A a \in Attempts : pc'[a] = pc[a]
  BY <1>3, Kinds3
<1>6. ReservationHeld'
  BY <1>2, <1>3, <1>4, <1>5 DEF IInv, Safe, ReservationHeld, Reserving
<1>7. Quiet' /\ RecordInTransit'
  BY <1>2, <1>3, <1>4, <1>5 DEF IInv, Safe, Quiet, RecordInTransit
<1>8. RunningIsNotCut' /\ InstallerOwnsStatus' /\ GateStable'
  BY <1>2, <1>3, <1>4, <1>5
  DEF IInv, Safe, RunningIsNotCut, InstallerOwnsStatus, GateStable, Live
<1>9. QED
  BY <1>6, <1>7, <1>8 DEF Safe

\* What a process makes of the file never says running.
LEMMA RecoveredNotRunning ==
  ASSUME NEW s \in Status, NEW v \in Nat
  PROVE  Recovered(s, v).status # "running"
BY DEF Recovered, Recover, Pending, Interrupted, Status, StatusNames

LEMMA RestartSafe ==
  ASSUME IInv, Restart
  PROVE  Safe'
<1>1. PICK v \in {connector, connector + 1} :
        /\ mem' = Recovered(disk, v)
        /\ pc' = [p \in Procs |->
                    IF p = Main
                    THEN IF Recovered(disk, v) = disk THEN "serving" ELSE "clone"
                    ELSE IF pc[p] = "killed" THEN "dead" ELSE pc[p]]
  BY DEF Restart
<1>2. mem'.status # "running"
  BY <1>1, RecoveredNotRunning DEF IInv, TypeOK
<1>3. /\ \A t \in Threads : pc[t] = "idle"
      /\ \A a \in Attempts : ~Live(a)
  BY DEF Restart, IInv, Safe, Quiet
<1>4. /\ \A t \in Threads : pc'[t] = "idle"
      /\ \A a \in Attempts : pc'[a] \notin {"installing", "report"}
      /\ reserved' = reserved
  BY <1>1, <1>3, Kinds3 DEF Restart, Live
<1>5. ReservationHeld' /\ Quiet' /\ RecordInTransit'
  BY <1>2, <1>3, <1>4
  DEF ReservationHeld, Quiet, RecordInTransit, Live, Reserving, Saving, IInv, Safe
<1>6. RunningIsNotCut' /\ InstallerOwnsStatus' /\ GateStable'
  BY <1>2, <1>4 DEF RunningIsNotCut, InstallerOwnsStatus, GateStable, Live
<1>7. QED
  BY <1>5, <1>6 DEF Safe

LEMMA CrashSafe ==
  ASSUME IInv, Crash
  PROVE  Safe'
<1>1. /\ \A t \in Threads : pc'[t] = "idle"
      /\ \A a \in Attempts : pc'[a] \notin {"installing", "report"}
      /\ reserved' = Nobody /\ mem'.status = "missing"
  BY Kinds3 DEF Crash, Missing
<1>2. ReservationHeld' /\ Quiet' /\ RecordInTransit'
  BY <1>1, Kinds3
  DEF ReservationHeld, Quiet, RecordInTransit, Live, Reserving, Saving
<1>3. RunningIsNotCut' /\ InstallerOwnsStatus' /\ GateStable'
  BY <1>1 DEF RunningIsNotCut, InstallerOwnsStatus, GateStable, Live
<1>4. QED
  BY <1>2, <1>3 DEF Safe

-----------------------------------------------------------------------------
(* The theorems.                                                           *)

LEMMA Invariance == Spec => []IInv
<1>1. Init => IInv
  BY InitTypes, InitSafe DEF IInv
<1>2. IInv /\ [Next]_vars => IInv'
  <2> SUFFICES ASSUME IInv, [Next]_vars PROVE IInv'
    OBVIOUS
  <2>1. TypeOK' /\ Numbered'
    BY NextTypes DEF IInv
  <2>2. CASE Restart \/ Crash
    BY <2>1, <2>2, RestartSafe, CrashSafe DEF IInv
  <2>3. ASSUME NEW t \in Threads, Receive(t) \/ Serve(t) PROVE IInv'
    BY <2>1, <2>3, ReceiveSafe, RequestSafe, AdmitSafe, StoreRunningSafe,
       SpawnSafe DEF Serve, IInv
  <2>4. ASSUME NEW a \in Attempts, Work(a) PROVE IInv'
    BY <2>1, <2>4, WorkSafe DEF IInv
  <2>5. ASSUME NEW p \in Procs, Save(p) PROVE IInv'
    BY <2>1, <2>5, SaveSafe DEF IInv
  <2>6. CASE UNCHANGED vars
    BY <2>1, <2>6
    DEF IInv, Safe, ReservationHeld, Quiet, RecordInTransit, RunningIsNotCut,
        InstallerOwnsStatus, GateStable, Live, vars
  <2>7. QED
    BY <2>2, <2>3, <2>4, <2>5, <2>6 DEF Next
<1>3. QED
  BY <1>1, <1>2, PTL DEF Spec

\* No two installations, local data initializations or management operations
\* overlap, whoever runs them (state_access.rs:27-46).
THEOREM Exclusion == Spec => []OneAtATime
<1>1. IInv => OneAtATime
  BY Kinds3 DEF IInv, Safe, ReservationHeld, OneAtATime, Active
<1>2. QED
  BY <1>1, Invariance, PTL

\* An installation that has not recorded its outcome owns the running status
\* until it does, also after it has dropped the reservation (setup.rs:306).
THEOREM StatusOwnership == Spec => []InstallerOwnsStatus
<1>1. IInv => InstallerOwnsStatus
  BY DEF IInv, Safe
<1>2. QED
  BY <1>1, Invariance, PTL

\* A management operation keeps what it checked at its start (main.rs:713).
THEOREM GateHolds == Spec => []GateStable
<1>1. IInv => GateStable
  BY DEF IInv, Safe
<1>2. QED
  BY <1>1, Invariance, PTL

\* No process shows as running an installation that a death of the process
\* has cut (setup.rs:372).
THEOREM NoGhostRunning == Spec => []RunningIsOwn
<1>1. IInv => RunningIsOwn
  BY DEF IInv, Safe, Quiet, RunningIsNotCut, RunningIsOwn
<1>2. QED
  BY <1>1, Invariance, PTL

-----------------------------------------------------------------------------
(* SetupLifecycle implements ExclusiveOperations.                          *)

ActiveSet == {p \in Threads \union Attempts : Active(p)}
LaunchedSet == {a \in Attempts : pc[a] # "none"}

Shape == ActiveSet = IF reserved = Nobody THEN {} ELSE {reserved}

LEMMA ActiveIsReserved == IInv => Shape
<1> SUFFICES ASSUME IInv PROVE Shape
  OBVIOUS
<1>1. \A p \in Threads \union Attempts : Active(p) <=> reserved = p
  BY Kinds3 DEF IInv, Safe, ReservationHeld, Active
<1>2. reserved = Nobody \/ reserved \in Threads \union Attempts
  BY DEF IInv, TypeOK
<1>3. QED
  BY <1>1, <1>2, Kinds3 DEF ActiveSet, Shape

\* How a step treats the reservation and the attempts that have been
\* launched.
Kept == reserved' = reserved /\ LaunchedSet' = LaunchedSet
Taken ==
  reserved = Nobody /\ reserved' \in Threads /\ LaunchedSet' = LaunchedSet
Freed == reserved' = Nobody /\ LaunchedSet' = LaunchedSet
Passed ==
  /\ reserved \in Threads
  /\ reserved' \in Attempts \ LaunchedSet
  /\ LaunchedSet' = LaunchedSet \union {reserved'}

LEMMA SameLaunched ==
  ASSUME \A a \in Attempts : pc'[a] = "none" <=> pc[a] = "none"
  PROVE  LaunchedSet' = LaunchedSet
BY DEF LaunchedSet

LEMMA ThreadKeepsLaunched ==
  ASSUME IInv, NEW t \in Threads, NEW x, pc' = [pc EXCEPT ![t] = x]
  PROVE  LaunchedSet' = LaunchedSet
<1>1. \A a \in Attempts : pc'[a] = pc[a]
  BY Kinds3 DEF IInv, TypeOK, ControlPoints
<1>2. QED
  BY <1>1, SameLaunched

LEMMA ServeReservation ==
  ASSUME IInv, NEW t \in Threads, Serve(t)
  PROVE  Kept \/ Taken \/ Freed \/ Passed
<1>1. CASE Spawn(t)
  <2> DEFINE n == req[t].id
  <2>1. n \in Attempts /\ pc[n] = "none" /\ reserved = t /\ reserved' = n
    BY <1>1 DEF Spawn, IInv, Numbered, Safe, ReservationHeld, Reserving
  <2>2. /\ pc'[n] = "installing"
        /\ \A a \in Attempts \ {n} : pc'[a] = pc[a]
    BY <1>1, <2>1, Kinds3 DEF Spawn, IInv, TypeOK, ControlPoints
  <2>3. QED
    BY <2>1, <2>2 DEF Passed, LaunchedSet
<1>2. CASE ~Spawn(t)
  <2>1. \E x : pc' = [pc EXCEPT ![t] = x]
    BY <1>2
    DEF Serve, CheckLocalData, Begin, InitializeLocalData, Snapshot, Decide,
        CheckElevation, Admit, AdmitUnless, StoreRunning, PassGate, EndWork,
        Goto, Answer
  <2>2. LaunchedSet' = LaunchedSet
    BY <2>1, ThreadKeepsLaunched
  <2>3. CASE Begin(t)
    BY <2>2, <2>3 DEF Begin, Answer, Taken, Kept, Freed
  <2>4. CASE ~Begin(t)
    <3>1. reserved' \in {reserved, Nobody}
      BY <1>2, <2>4
      DEF Serve, CheckLocalData, InitializeLocalData, Snapshot, Decide,
          CheckElevation, Admit, AdmitUnless, StoreRunning, PassGate, EndWork,
          Answer
    <3>2. QED
      BY <2>2, <3>1 DEF Kept, Freed
  <2>5. QED
    BY <2>3, <2>4
<1>3. QED
  BY <1>1, <1>2

LEMMA NextReservation ==
  ASSUME IInv, [Next]_vars
  PROVE  Kept \/ Taken \/ Freed \/ Passed
<1>1. CASE Restart
  <2>1. \A a \in Attempts : pc'[a] = "none" <=> pc[a] = "none"
    BY <1>1, Kinds3 DEF Restart
  <2>2. QED
    BY <1>1, <2>1, SameLaunched DEF Restart, Kept
<1>2. CASE Crash
  <2>1. \A a \in Attempts : pc'[a] = "none" <=> pc[a] = "none"
    BY <1>2, Kinds3 DEF Crash, Saving
  <2>2. QED
    BY <1>2, <2>1, SameLaunched DEF Crash, Freed
<1>3. ASSUME NEW t \in Threads, Receive(t) PROVE Kept
  <2>1. /\ \E x : pc' = [pc EXCEPT ![t] = x]
        /\ reserved' = reserved
    BY <1>3 DEF Receive
  <2>2. QED
    BY <2>1, ThreadKeepsLaunched DEF Kept
<1>4. ASSUME NEW a \in Attempts, Work(a) PROVE Kept \/ Freed
  <2>1. \A b \in Attempts : pc'[b] = "none" <=> pc[b] = "none"
    <3>1. /\ pc[a] # "none"
          /\ \E x \in {"report", "clone"} : pc' = [pc EXCEPT ![a] = x]
      BY <1>4 DEF Work, FinishInstall, Report, Goto
    <3>2. QED
      BY <3>1 DEF IInv, TypeOK, ControlPoints
  <2>2. reserved' \in {reserved, Nobody}
    BY <1>4 DEF Work, FinishInstall, Report
  <2>3. QED
    BY <2>1, <2>2, SameLaunched DEF Kept, Freed
<1>5. ASSUME NEW p \in Procs, Save(p) PROVE Kept \/ Freed
  <2>1. CASE p \in Threads /\ Answer(p)
    <3>1. /\ pc' = [pc EXCEPT ![p] = "idle"]
          /\ reserved' = reserved \/ reserved' = Nobody
      BY <2>1 DEF Answer
    <3>2. LaunchedSet' = LaunchedSet
      BY <2>1, <3>1, ThreadKeepsLaunched
    <3>3. QED
      BY <3>1, <3>2 DEF Kept, Freed
  <2>2. ASSUME NEW x \in Saving \union {AfterSave(p)},
               pc' = [pc EXCEPT ![p] = x], UNCHANGED <<req, reserved>>
        PROVE  Kept
    <3>1. \A a \in Attempts : pc'[a] = "none" <=> pc[a] = "none"
      <4>1. pc[p] # "none" /\ x # "none"
        BY <1>5, <2>2, SaveMoves DEF Saving, AfterSave
      <4>2. QED
        BY <2>2, <4>1 DEF IInv, TypeOK, ControlPoints
    <3>2. QED
      BY <2>2, <3>1, SameLaunched DEF Kept
  <2>3. QED
    BY <1>5, <2>1, <2>2, SaveMoves
<1>6. CASE UNCHANGED vars
  BY <1>6 DEF vars, Kept, LaunchedSet
<1>7. QED
  BY <1>1, <1>2, <1>3, <1>4, <1>5, <1>6, ServeReservation DEF Next

LEMMA StepMaps ==
  ASSUME IInv, Shape, Shape', [Next]_vars
  PROVE  [Exclusive!Next]_<<ActiveSet, LaunchedSet>>
<1>1. /\ ActiveSet = IF reserved = Nobody THEN {} ELSE {reserved}
      /\ ActiveSet' = IF reserved' = Nobody THEN {} ELSE {reserved'}
  BY DEF Shape
<1>2. reserved = Nobody \/ reserved \in Threads \union Attempts
  BY DEF IInv, TypeOK
<1>3. CASE Kept
  BY <1>1, <1>3 DEF Kept
<1>4. CASE Taken
  <2>1. ActiveSet = {} /\ ActiveSet' = {reserved'}
    BY <1>1, <1>4, Kinds3 DEF Taken
  <2>2. QED
    BY <1>4, <2>1 DEF Taken, Exclusive!Next, Exclusive!Begin, ActiveSet, LaunchedSet
<1>5. CASE Freed
  <2>1. CASE reserved = Nobody
    BY <1>1, <1>5, <2>1 DEF Freed
  <2>2. CASE reserved # Nobody
    <3>1. ActiveSet = {reserved} /\ ActiveSet' = {}
      BY <1>1, <1>5, <2>2 DEF Freed
    <3>2. QED
      BY <1>2, <1>5, <2>2, <3>1
      DEF Freed, Exclusive!Next, Exclusive!End, ActiveSet, LaunchedSet
  <2>3. QED
    BY <2>1, <2>2
<1>6. CASE Passed
  <2>1. ActiveSet = {reserved} /\ ActiveSet' = {reserved'}
    BY <1>1, <1>6, Kinds3 DEF Passed
  <2>2. QED
    BY <1>6, <2>1
    DEF Passed, Exclusive!Next, Exclusive!HandOver, ActiveSet, LaunchedSet
<1>7. QED
  BY <1>3, <1>4, <1>5, <1>6, NextReservation

\* Seen from outside, the operations of the connector are serial and each
\* installation is launched once (state_access.rs:27, setup.rs:302).
THEOREM Serial == Spec => SerialOperations
<1>1. Init => Exclusive!Init
  BY Kinds3
  DEF Init, Exclusive!Init, Active, Reserving
<1>2. IInv /\ Shape /\ Shape' /\ [Next]_vars
        => [Exclusive!Next]_<<ActiveSet, LaunchedSet>>
  BY StepMaps
<1>3. QED
  BY <1>1, <1>2, Invariance, ActiveIsReserved, PTL
  DEF Spec, SerialOperations, Exclusive!Spec, ActiveSet, LaunchedSet


-----------------------------------------------------------------------------
(* Deaths of the process, and a client that asks again.  What the count of *)
(* interruptions bounds is decided by who may write the file: the saves of *)
(* two threads share a temporary file, so the promises of the recovery are *)
(* those to a single client.                                               *)

\* One request at a time.
OneClient == \A t, u \in Threads : t = u

\* And it installs one workspace, by asking ensure-ready only.
Undisturbed ==
  /\ OneClient
  /\ \A v, w \in Workspaces : v = w
  /\ Kinds \intersect {"initialize", "retry"} = {}

\* The installations cut by a death of the process.
Cut == {a \in Attempts : pc[a] \in {"killed", "dead"}}

\* The interruptions a starting process will have counted.
Counted(s) == s.retries + (IF s.status = "running" THEN 1 ELSE 0)

\* A status that ensure-ready may follow by an installation.
Startable(s) ==
  s.status \notin {"running", "succeeded", "failed"} /\ s.retries <= 1

\* A record the manager can have written: a success has stored its
\* credential, and nothing is started after two interruptions.
Plausible(s) ==
  /\ s.status \notin {"missing", "pending"} => s.ws \in Workspaces
  /\ s.status = "missing" => s.retries = 0
  /\ s.status = "succeeded" => s.ws \in ready
  /\ s.retries <= 2
  /\ s.retries = 2 => s.status = "interrupted"

\* What request t asks, and for which workspace it starts.
Asks(t) ==
  /\ req[t].kind \notin {"initialize", "retry"} /\ ~req[t].elevate
  /\ pc[t] # "elevate"
  /\ pc[t] \in {"local", "localbegin", "localinit", "snapshot", "auth"} =>
       req[t].kind = "ensure"
  /\ pc[t] \in {"admit", "init", "store", "spawn"} \union Saving =>
       req[t].kind = "ensure"
  /\ pc[t] # "idle" /\ req[t].kind = "ensure"
       /\ pc[t] \notin {"local", "localbegin", "localinit", "snapshot",
                        "auth"} =>
       req[t].ws \in Workspaces

\* What it decided on still holds.
Judges(t) ==
  /\ Plausible(req[t].snap)
  /\ pc[t] = "auth" => req[t].snap = mem \/ req[t].snap.status = "running"
  /\ pc[t] = "begin" /\ req[t].kind = "ensure" => Startable(mem)
  /\ pc[t] \in {"admit", "init", "store"} => Startable(mem)

\* The record of the installation it starts, until the worker takes over.
Starts(t) ==
  /\ pc[t] \in {"init", "store"} => job[req[t].id].retries = mem.retries
  /\ pc[t] \in Saving \union {"spawn"} => job[req[t].id] = mem
  /\ pc[t] = "spawn" => disk = mem

Client(t) == Asks(t) /\ Judges(t) /\ Starts(t)

\* An installation has its running record in the file, and the report of one
\* that ended is not followed by another.
Worker(a) ==
  /\ Plausible(job[a])
  /\ pc[a] = "installing" => disk = mem /\ job[a] = mem
  /\ pc[a] = "report" =>
       disk = mem /\ job[a] = [mem EXCEPT !.status = job[a].status]
  /\ pc[a] \in Saving =>
       mem.status \in {"succeeded", "failed"} /\ pc[Main] = "serving"

\* Whatever is being saved is the status in memory.
Written ==
  \A p \in Procs :
    /\ pc[p] = "remove" => Windows
    /\ pc[p] = "write" => copy[p] = mem
    /\ pc[p] \in {"remove", "rename"} => tmp \in {mem, Missing}

\* An installation that was cut has left its running record.
Marked ==
  /\ pc[Main] # "down" => \A a \in Attempts : pc[a] # "killed"
  /\ pc[Main] = "down" =>
       \A a \in Attempts : pc[a] = "killed" => disk.status = "running"

\* The count covers every cut: in memory while the process lives, and for
\* its successor in the file, which is never away where a rename replaces it.
Tally ==
  ~Windows =>
    /\ pc[Main] # "down" =>
         Cardinality(Cut) <= mem.retries /\ mem.retries <= Counted(disk)
    /\ pc[Main] = "down" => Cardinality(Cut) <= Counted(disk)

Recovers ==
  /\ Plausible(mem) /\ Plausible(disk)
  /\ \A t \in Threads : Client(t)
  /\ \A a \in Attempts : Worker(a)
  /\ Written /\ Marked /\ Tally

\* The cut attempts are finitely many.
LEMMA CutCounts == IsFiniteSet(Cut) /\ Cardinality(Cut) \in Nat
<1>1. IsFiniteSet(Attempts)
  BY SetupAssumption, FS_Interval DEF Attempts
<1>2. IsFiniteSet(Cut)
  BY <1>1, FS_Subset DEF Cut
<1>3. QED
  BY <1>2, FS_CardinalityType

\* A record stays plausible when credentials are added.
LEMMA StillPlausible ==
  ASSUME NEW s, Plausible(s), ready \subseteq ready'
  PROVE  /\ s.status \notin {"missing", "pending"} => s.ws \in Workspaces
         /\ s.status = "missing" => s.retries = 0
         /\ s.status = "succeeded" => s.ws \in ready'
         /\ s.retries <= 2
         /\ s.retries = 2 => s.status = "interrupted"
BY DEF Plausible

\* What a starting process makes of a plausible file is plausible, is not
\* running, and has counted the interruption.
LEMMA RecoveredCounts ==
  ASSUME NEW s \in Status, Plausible(s), NEW v \in Nat
  PROVE  /\ Plausible(Recovered(s, v))
         /\ Recovered(s, v).retries = Counted(s)
         /\ s.status = "running" => Recovered(s, v).status = "interrupted"
<1>1. s.retries \in Nat
  BY DEF Status
<1>2. CASE s.status = "missing"
  BY <1>2 DEF Recovered, Recover, Pending, Plausible, Counted
<1>3. CASE s.status = "running"
  BY <1>1, <1>3 DEF Recovered, Recover, Interrupted, Plausible, Counted
<1>4. CASE s.status = "failed" /\ s.version # v
  BY <1>1, <1>4 DEF Recovered, Recover, Plausible, Counted, Status
<1>5. CASE /\ s.status \notin {"missing", "running"}
           /\ ~(s.status = "failed" /\ s.version # v)
  <2>1. Recovered(s, v) = s
    BY <1>5 DEF Recovered, Recover
  <2>2. QED
    BY <1>1, <1>5, <2>1 DEF Counted
<1>6. QED
  BY <1>2, <1>3, <1>4, <1>5

LEMMA InitRecovers == Init => Recovers
<1> SUFFICES ASSUME Init PROVE Recovers
  OBVIOUS
<1>1. /\ \A t \in Threads : pc[t] = "idle" /\ req[t] = NoRequest
      /\ \A a \in Attempts : pc[a] = "none" /\ job[a] = Missing
      /\ pc[Main] = "down" /\ mem = Missing /\ disk = Missing
      /\ \A p \in Procs : pc[p] \notin Saving
  BY Kinds3 DEF Init, Procs, Saving
<1>2. Plausible(Missing)
  BY DEF Plausible, Missing
<1>3. \A t \in Threads : Client(t)
  BY <1>1, <1>2 DEF Client, Asks, Judges, Starts, NoRequest, Saving
<1>4. \A a \in Attempts : Worker(a)
  BY <1>1, <1>2 DEF Worker, Saving
<1>5. Written
  BY <1>1 DEF Written, Saving
<1>6. Marked /\ Tally
  <2>1. Cut = {}
    BY <1>1 DEF Cut
  <2>2. Cardinality(Cut) = 0
    BY <2>1, FS_EmptySet
  <2>3. QED
    BY <1>1, <2>2 DEF Tally, Marked, Counted, Missing
<1>7. QED
  BY <1>1, <1>2, <1>3, <1>4, <1>5, <1>6 DEF Recovers

-----------------------------------------------------------------------------
(* Steps of the client.                                                    *)

\* The client moves to x and leaves the status and its file alone: what x
\* promises of the client is all there is to show.
LEMMA ClientMoves ==
  ASSUME IInv, Recovers, OneClient, NEW t \in Threads, NEW x \in ThreadPoints,
         x \notin Saving,
         pc' = [pc EXCEPT ![t] = x],
         UNCHANGED <<mem, disk, tmp>>,
         \A q \in Procs \ {t} : copy'[q] = copy[q],
         ready \subseteq ready',
         \A a \in Attempts : Plausible(job[a])',
         \A a \in Attempts : pc[a] # "none" => job'[a] = job[a],
         Client(t)'
  PROVE  Recovers'
<1>1. /\ pc'[t] = x
      /\ \A q \in Procs \ {t} : pc'[q] = pc[q]
  <2>1. Moved(pc, pc', t, x)
    BY MoveThread DEF IInv, TypeOK
  <2>2. QED
    BY <2>1 DEF Moved
<1>2. /\ pc'[Main] = pc[Main]
      /\ \A a \in Attempts : pc'[a] = pc[a]
  BY <1>1, Kinds3
<1>3. Plausible(mem)' /\ Plausible(disk)'
  BY StillPlausible DEF Recovers, Plausible
<1>4. \A u \in Threads : Client(u)'
  BY DEF OneClient
<1>5. ASSUME NEW a \in Attempts
      PROVE  Worker(a)'
  <2>1. /\ Worker(a) /\ pc'[a] = pc[a]
    BY <1>2, <1>5 DEF Recovers
  <2>2. Plausible(job[a])'
    BY <1>5
  <2>3. pc[a] \in {"installing", "report"} \union Saving => job'[a] = job[a]
    BY <1>5 DEF Saving
  <2>4. QED
    BY <1>2, <2>1, <2>2, <2>3 DEF Worker, Saving
<1>6. Written'
  BY <1>1 DEF Recovers, Written, Saving
<1>7. Marked' /\ Tally'
  <2>1. Cut' = Cut
    BY <1>2 DEF Cut
  <2>2. QED
    BY <1>2, <2>1 DEF Recovers, Marked, Tally, Counted
<1>8. QED
  BY <1>3, <1>4, <1>5, <1>6, <1>7 DEF Recovers

\* The request is answered.
LEMMA ClientAnswers ==
  ASSUME IInv, Recovers, OneClient, NEW t \in Threads, Answer(t),
         UNCHANGED <<mem, disk, tmp, job>>,
         \A q \in Procs \ {t} : copy'[q] = copy[q],
         ready \subseteq ready'
  PROVE  Recovers'
<1>1. /\ "idle" \in ThreadPoints /\ "idle" \notin Saving
      /\ \A a \in Attempts : Plausible(job[a])'
  <2>1. \A a \in Attempts : Plausible(job[a])
    BY DEF Recovers, Worker
  <2>2. QED
    BY <2>1, StillPlausible DEF ThreadPoints, Saving, Plausible
<1>2. /\ pc'[t] = "idle"
      /\ req'[t] = NoRequest
  BY Kinds3 DEF Answer, IInv, TypeOK, ControlPoints
<1>3. Client(t)'
  BY <1>2 DEF Client, Asks, Judges, Starts, NoRequest, Plausible, Missing,
              Saving
<1>4. QED
  BY <1>1, <1>3, ClientMoves DEF Answer

LEMMA CheckLocalDataRecovers ==
  ASSUME IInv, Recovers, OneClient, NEW t \in Threads, CheckLocalData(t)
  PROVE  Recovers'
<1>1. /\ UNCHANGED <<mem, disk, tmp, copy, job, ready>> /\ pc[t] = "local"
  BY DEF CheckLocalData, status
<1>2. CASE Answer(t)
  BY <1>1, <1>2, ClientAnswers
<1>3. CASE ~Answer(t)
  <2>1. PICK x \in {"snapshot", "localbegin"} :
          pc' = [pc EXCEPT ![t] = x] /\ req' = req
    BY <1>3 DEF CheckLocalData
  <2>2. x \in ThreadPoints /\ x \notin Saving /\ pc'[t] = x
    BY <2>1, Kinds3 DEF ThreadPoints, Saving, IInv, TypeOK, ControlPoints
  <2>3. Client(t)'
    BY <1>1, <2>1, <2>2
    DEF Recovers, Client, Asks, Judges, Starts, Plausible, Saving
  <2>4. \A a \in Attempts : Plausible(job[a])'
    BY <1>1 DEF Recovers, Worker, Plausible
  <2>5. QED
    BY <1>1, <2>1, <2>2, <2>3, <2>4, ClientMoves
<1>4. QED
  BY <1>2, <1>3

LEMMA BeginRecovers ==
  ASSUME IInv, Recovers, OneClient, NEW t \in Threads, Begin(t)
  PROVE  Recovers'
<1>1. /\ UNCHANGED <<mem, disk, tmp, copy, job, ready>>
      /\ pc[t] \in {"begin", "localbegin"}
  BY DEF Begin, status
<1>2. CASE Answer(t)
  BY <1>1, <1>2, ClientAnswers
<1>3. CASE pc' = [pc EXCEPT ![t] = Reserved(t)] /\ req' = req
  <2> DEFINE x == Reserved(t)
  <2>1. x \in ThreadPoints /\ x \notin Saving /\ pc'[t] = x
    BY <1>3, Kinds3
    DEF Reserved, ThreadPoints, Reserving, Saving, IInv, TypeOK, ControlPoints
  <2>2. Client(t) /\ req[t].kind \in AllKinds
    BY DEF Recovers, IInv, TypeOK, Request
  <2>3. \/ pc[t] = "localbegin" /\ x = "localinit"
        \/ req[t].kind \in {"manage", "prepare", "restore"}
             /\ x \in {"gate", "prepare", "restore"}
        \/ pc[t] = "begin" /\ req[t].kind = "ensure" /\ x = "admit"
    BY <1>1, <2>2 DEF Reserved, Client, Asks, AllKinds
  <2>4. Asks(t)'
    BY <1>3, <2>1, <2>2, <2>3 DEF Client, Asks, Saving
  <2>5. Judges(t)'
    BY <1>1, <1>3, <2>1, <2>2, <2>3 DEF Client, Judges, Plausible, Startable
  <2>6. Starts(t)'
    BY <2>1, <2>3 DEF Starts, Saving
  <2>7. \A a \in Attempts : Plausible(job[a])'
    BY <1>1 DEF Recovers, Worker, Plausible
  <2>8. QED
    BY <1>1, <1>3, <2>1, <2>4, <2>5, <2>6, <2>7, ClientMoves DEF Client
<1>4. QED
  BY <1>2, <1>3 DEF Begin

LEMMA InitializeRecovers ==
  ASSUME IInv, Recovers, OneClient, NEW t \in Threads, InitializeLocalData(t)
  PROVE  Recovers'
<1>1. /\ UNCHANGED <<mem, disk, tmp, copy, job>> /\ ready \subseteq ready'
      /\ pc[t] \in {"localinit", "prepare", "init"}
  BY DEF InitializeLocalData, MayLearn, status
<1>2. CASE Answer(t)
  BY <1>1, <1>2, ClientAnswers
<1>3. CASE ~Answer(t)
  <2>1. PICK x \in {"snapshot", "store"} :
          /\ pc' = [pc EXCEPT ![t] = x] /\ req' = req
          /\ x = "snapshot" => pc[t] = "localinit"
          /\ x = "store" => pc[t] = "init"
    BY <1>3 DEF InitializeLocalData, Goto
  <2>2. x \in ThreadPoints /\ x \notin Saving /\ pc'[t] = x
    BY <2>1, Kinds3
    DEF ThreadPoints, Reserving, Saving, IInv, TypeOK, ControlPoints
  <2>3. Client(t)
    BY DEF Recovers
  <2>4. Asks(t)'
    BY <2>1, <2>2, <2>3 DEF Client, Asks, Saving
  <2>5. Judges(t)'
    <3>1. Plausible(req[t].snap)'
      BY <1>1, <2>1, <2>3, StillPlausible DEF Client, Judges, Plausible
    <3>2. QED
      BY <1>1, <2>1, <2>2, <2>3, <3>1 DEF Client, Judges, Startable
  <2>6. Starts(t)'
    BY <1>1, <2>1, <2>2, <2>3 DEF Client, Starts, Saving
  <2>7. \A a \in Attempts : Plausible(job[a])'
    <3>1. \A a \in Attempts : Plausible(job[a])
      BY DEF Recovers, Worker
    <3>2. QED
      BY <1>1, <3>1, StillPlausible DEF Plausible
  <2>8. QED
    BY <1>1, <2>1, <2>2, <2>4, <2>5, <2>6, <2>7, ClientMoves DEF Client
<1>4. QED
  BY <1>2, <1>3

LEMMA SnapshotRecovers ==
  ASSUME IInv, Recovers, OneClient, NEW t \in Threads, Snapshot(t)
  PROVE  Recovers'
<1>1. /\ UNCHANGED <<mem, disk, tmp, copy, job, ready>>
      /\ pc[t] = "snapshot" /\ pc' = [pc EXCEPT ![t] = "auth"]
      /\ req' = [req EXCEPT ![t].snap = mem]
  BY DEF Snapshot, Goto, status
<1>2. "auth" \in ThreadPoints /\ "auth" \notin Saving /\ pc'[t] = "auth"
  BY <1>1, Kinds3 DEF ThreadPoints, Saving, IInv, TypeOK, ControlPoints
<1>3. /\ req'[t].snap = mem /\ req'[t].kind = req[t].kind
      /\ req'[t].elevate = req[t].elevate
  BY <1>1 DEF IInv, TypeOK, Request
<1>4. Client(t) /\ Plausible(mem)
  BY DEF Recovers
<1>5. Client(t)'
  BY <1>1, <1>2, <1>3, <1>4
  DEF Client, Asks, Judges, Starts, Plausible, Saving
<1>6. \A a \in Attempts : Plausible(job[a])'
  BY <1>1 DEF Recovers, Worker, Plausible
<1>7. QED
  BY <1>1, <1>2, <1>5, <1>6, ClientMoves

LEMMA DecideRecovers ==
  ASSUME IInv, Recovers, Undisturbed, NEW t \in Threads, Decide(t)
  PROVE  Recovers'
<1>1. /\ UNCHANGED <<mem, disk, tmp, copy, job, ready>> /\ pc[t] = "auth"
  BY DEF Decide, status
<1>2. CASE Answer(t)
  BY <1>1, <1>2, ClientAnswers DEF Undisturbed
<1>3. CASE ~Answer(t)
  <2>1. /\ pc' = [pc EXCEPT ![t] = "begin"]
        /\ req' = [req EXCEPT ![t].snap = Missing]
        /\ \E authorized \in BOOLEAN :
             Decision(req[t].snap, req[t].ws, authorized, req[t].ws \in ready)
               = "start"
    BY <1>3 DEF Decide
  <2>2. /\ "begin" \in ThreadPoints /\ "begin" \notin Saving
        /\ pc'[t] = "begin"
    BY <2>1, Kinds3 DEF ThreadPoints, Saving, IInv, TypeOK, ControlPoints
  <2>3. /\ req'[t].snap = Missing /\ req'[t].kind = req[t].kind
        /\ req'[t].elevate = req[t].elevate /\ req'[t].ws = req[t].ws
    BY <2>1 DEF IInv, TypeOK, Request
  <2>4. /\ Client(t) /\ req[t].ws \in Workspaces \union {NoWorkspace}
        /\ req[t].snap.retries \in Nat
    BY DEF Recovers, IInv, TypeOK, Request, Status
  <2> DEFINE s == req[t].snap
  <2>5. /\ req[t].ws \in Workspaces
        /\ s.status # "running" /\ ~Stopped(s, req[t].ws)
        /\ ~(s.status = "succeeded" /\ req[t].ws \in ready)
    BY <2>1, <2>4 DEF Decision
  <2>6. s.status \in {"succeeded", "failed"} => s.ws = req[t].ws
    BY <2>4, <2>5 DEF Client, Judges, Plausible, Undisturbed
  <2>7. Startable(s) /\ s = mem
    BY <1>1, <2>4, <2>5, <2>6
    DEF Client, Judges, Plausible, Startable, Stopped
  <2>8. Client(t)'
    BY <1>1, <2>2, <2>3, <2>4, <2>5, <2>7
    DEF Client, Asks, Judges, Starts, Plausible, Missing, Startable, Saving
  <2>9. \A a \in Attempts : Plausible(job[a])'
    BY <1>1 DEF Recovers, Worker, Plausible
  <2>10. QED
    BY <1>1, <2>1, <2>2, <2>8, <2>9, ClientMoves DEF Undisturbed
<1>4. QED
  BY <1>2, <1>3

LEMMA AdmitRecovers ==
  ASSUME IInv, Recovers, OneClient, NEW t \in Threads, Admit(t)
  PROVE  Recovers'
<1>1. /\ UNCHANGED <<mem, disk, tmp, copy, ready>> /\ pc[t] = "admit"
  BY DEF Admit, AdmitUnless, status
<1>2. CASE Answer(t) /\ job' = job
  BY <1>1, <1>2, ClientAnswers
<1>3. CASE /\ pc' = [pc EXCEPT ![t] = "init"] /\ req' = req
           /\ job' = [job EXCEPT ![req[t].id] = NewJob(t)]
  <2> DEFINE n == req[t].id
  <2>1. /\ "init" \in ThreadPoints /\ "init" \notin Saving
        /\ pc'[t] = "init"
    BY <1>3, Kinds3
    DEF ThreadPoints, Reserving, Saving, IInv, TypeOK, ControlPoints
  <2>2. n \in Attempts /\ pc[n] = "none" /\ job \in [Attempts -> Status]
    BY <1>1 DEF IInv, Numbered, TypeOK
  <2>3. /\ job'[n] = NewJob(t)
        /\ \A a \in Attempts \ {n} : job'[a] = job[a]
    BY <1>3, <2>2
  <2>4. /\ Client(t) /\ Startable(mem) /\ req[t].kind = "ensure"
        /\ req[t].ws \in Workspaces /\ mem.retries \in Nat
    BY <1>1 DEF Recovers, Client, Asks, Judges, IInv, TypeOK, Status
  <2>5. NewJob(t) = Running(n, req[t].ws, mem.retries, connector)
    BY <2>4 DEF NewJob, Forced
  <2>6. Client(t)'
    BY <1>1, <1>3, <2>1, <2>3, <2>4, <2>5
    DEF Client, Asks, Judges, Starts, Plausible, Startable, Running, Saving
  <2>7. ASSUME NEW a \in Attempts
        PROVE  Plausible(job[a])'
    <3>1. CASE a = n
      <4>1. job'[a] = Running(n, req[t].ws, mem.retries, connector)
        BY <2>3, <2>5, <3>1
      <4>2. QED
        BY <1>1, <2>4, <4>1 DEF Plausible, Running, Startable
    <3>2. CASE a # n
      <4>1. job'[a] = job[a] /\ Plausible(job[a])
        BY <2>3, <2>7, <3>2 DEF Recovers, Worker
      <4>2. QED
        BY <1>1, <4>1 DEF Plausible
    <3>3. QED
      BY <3>1, <3>2
  <2>8. QED
    BY <1>1, <1>3, <2>1, <2>2, <2>3, <2>6, <2>7, ClientMoves
<1>4. QED
  BY <1>2, <1>3 DEF Admit, AdmitUnless

LEMMA OtherRequestsRecover ==
  ASSUME IInv, Recovers, OneClient, NEW t \in Threads,
         CheckElevation(t) \/ PassGate(t) \/ EndWork(t)
  PROVE  Recovers'
<1>1. /\ UNCHANGED <<mem, disk, tmp, copy, job>> /\ ready \subseteq ready'
      /\ pc[t] \in {"elevate", "gate", "working", "restore"}
  BY DEF CheckElevation, PassGate, EndWork, MayLearn, status
<1>2. CASE Answer(t)
  BY <1>1, <1>2, ClientAnswers
<1>3. CASE ~Answer(t)
  <2>1. Client(t) /\ pc[t] # "elevate"
    BY DEF Recovers, Client, Asks
  <2>2. /\ pc' = [pc EXCEPT ![t] = "working"] /\ pc[t] = "gate"
        /\ UNCHANGED <<req, ready>>
    BY <1>3, <2>1 DEF CheckElevation, PassGate, EndWork
  <2>3. /\ "working" \in ThreadPoints /\ "working" \notin Saving
        /\ pc'[t] = "working"
    BY <2>2, Kinds3
    DEF ThreadPoints, Reserving, Saving, IInv, TypeOK, ControlPoints
  <2>4. Client(t)'
    BY <1>1, <2>1, <2>2, <2>3
    DEF Client, Asks, Judges, Starts, Plausible, Saving
  <2>5. \A a \in Attempts : Plausible(job[a])'
    BY <1>1, <2>2 DEF Recovers, Worker, Plausible
  <2>6. QED
    BY <1>1, <2>2, <2>3, <2>4, <2>5, ClientMoves
<1>4. QED
  BY <1>2, <1>3

LEMMA ReceiveRecovers ==
  ASSUME IInv, Recovers, Undisturbed, NEW t \in Threads, Receive(t)
  PROVE  Recovers'
<1>1. UNCHANGED <<mem, disk, tmp, copy, job, ready>>
  BY DEF Receive
<1>2. PICK kind \in Kinds, elevate \in BOOLEAN : \E ws \in Targets(kind) :
        /\ elevate => kind = "retry"
        /\ req' = [req EXCEPT ![t] = [kind |-> kind, ws |-> ws,
                                      id |-> requests + 1,
                                      elevate |-> elevate, snap |-> Missing]]
        /\ pc' = [pc EXCEPT ![t] = IF kind = "ensure" THEN "local"
                                   ELSE "begin"]
  BY DEF Receive
<1>3. kind \notin {"initialize", "retry"} /\ ~elevate
  BY <1>2 DEF Undisturbed
<1>4. /\ req'[t].kind = kind /\ req'[t].elevate = elevate
      /\ req'[t].snap = Missing
  BY <1>2 DEF IInv, TypeOK
<1> DEFINE x == IF kind = "ensure" THEN "local" ELSE "begin"
<1>5. /\ x \in ThreadPoints /\ x \notin Saving
      /\ pc' = [pc EXCEPT ![t] = x] /\ pc'[t] = x
  BY <1>2, Kinds3 DEF ThreadPoints, Saving, IInv, TypeOK, ControlPoints
<1>6. Client(t)'
  BY <1>3, <1>4, <1>5
  DEF Client, Asks, Judges, Starts, Plausible, Missing, Saving
<1>7. \A a \in Attempts : Plausible(job[a])'
  BY <1>1 DEF Recovers, Worker, Plausible
<1>8. QED
  BY <1>1, <1>5, <1>6, <1>7, ClientMoves DEF Undisturbed

\* While the client decides to start, no report is being saved.
LEMMA NobodySaves ==
  ASSUME IInv, Recovers, OneClient, NEW t \in Threads,
         pc[t] \in {"store", "spawn"}
  PROVE  /\ pc[Main] = "serving"
         /\ \A q \in Procs : pc[q] \notin Saving
         /\ \A a \in Attempts :
             pc[a] \notin Saving \union {"installing", "report"}
<1>1. pc[Main] = "serving"
  BY DEF IInv, Safe, Quiet
<1>2. \A u \in Threads : pc[u] \notin Saving
  BY DEF OneClient, Saving
<1>3. /\ pc[t] = "store" => Startable(mem)
      /\ pc[t] = "spawn" => mem.status = "running" /\ mem.attempt = req[t].id
                              /\ pc[req[t].id] = "none"
  BY DEF Recovers, Client, Judges, IInv, Safe, RecordInTransit, Numbered
<1>4. ASSUME NEW a \in Attempts
      PROVE  pc[a] \notin Saving \union {"installing", "report"}
  <2>1. pc[a] \in {"installing", "report"} =>
          mem.status = "running" /\ mem.attempt = a
    BY <1>4 DEF IInv, Safe, InstallerOwnsStatus, Live
  <2>2. pc[a] \in Saving => mem.status \in {"succeeded", "failed"}
    BY <1>4 DEF Recovers, Worker
  <2>3. QED
    BY <1>3, <2>1, <2>2 DEF Startable
<1>5. QED
  BY <1>1, <1>2, <1>4 DEF Procs, Saving

LEMMA StoreRunningRecovers ==
  ASSUME IInv, Recovers, OneClient, NEW t \in Threads, StoreRunning(t)
  PROVE  Recovers'
<1> DEFINE n == req[t].id
<1>1. /\ pc[t] = "store" /\ pc' = [pc EXCEPT ![t] = "clone"] /\ mem' = job[n]
      /\ UNCHANGED <<req, job, disk, tmp, copy, ready>>
  BY DEF StoreRunning, Goto
<1>2. /\ n \in Attempts /\ job[n].status = "running"
      /\ job[n].retries = mem.retries
  BY <1>1 DEF IInv, Numbered, Safe, RecordInTransit, Recovers, Client, Starts
<1>3. /\ pc[Main] = "serving"
      /\ \A q \in Procs : pc[q] \notin Saving
      /\ \A a \in Attempts :
             pc[a] \notin Saving \union {"installing", "report"}
  BY <1>1, NobodySaves
<1>4. /\ pc'[t] = "clone"
      /\ \A q \in Procs \ {t} : pc'[q] = pc[q]
      /\ pc'[Main] = "serving"
      /\ \A a \in Attempts : pc'[a] = pc[a]
  BY <1>1, <1>3, Kinds3 DEF IInv, TypeOK, ControlPoints
<1>5. Plausible(mem)' /\ Plausible(disk)'
  BY <1>1, <1>2 DEF Recovers, Worker, Plausible
<1>6. \A u \in Threads : Client(u)'
  <2>1. Client(t)'
    BY <1>1, <1>4 DEF Recovers, Client, Asks, Judges, Starts, Plausible, Saving
  <2>2. QED
    BY <2>1 DEF OneClient
<1>7. \A a \in Attempts : Worker(a)'
  BY <1>1, <1>3, <1>4 DEF Recovers, Worker, Plausible
<1>8. Written'
  BY <1>3, <1>4 DEF Written, Saving
<1>9. Marked' /\ Tally'
  <2>1. Cut' = Cut
    BY <1>4 DEF Cut
  <2>2. QED
    BY <1>1, <1>2, <1>3, <1>4, <2>1 DEF Recovers, Marked, Tally, Counted
<1>10. QED
  BY <1>5, <1>6, <1>7, <1>8, <1>9 DEF Recovers

LEMMA SpawnRecovers ==
  ASSUME IInv, Recovers, OneClient, NEW t \in Threads, Spawn(t)
  PROVE  Recovers'
<1> DEFINE n == req[t].id
<1>1. /\ pc[t] = "spawn"
      /\ pc' = [pc EXCEPT ![t] = "idle", ![n] = "installing"]
      /\ req' = [req EXCEPT ![t] = NoRequest]
      /\ UNCHANGED <<mem, job, disk, tmp, copy, ready>>
  BY DEF Spawn, status
<1>2. /\ n \in Attempts /\ pc[n] = "none"
      /\ job[n] = mem /\ disk = mem
  BY <1>1 DEF IInv, Numbered, Recovers, Client, Starts
<1>3. /\ pc[Main] = "serving"
      /\ \A q \in Procs : pc[q] \notin Saving
      /\ \A a \in Attempts :
             pc[a] \notin Saving \union {"installing", "report"}
  BY <1>1, NobodySaves
<1>4. /\ pc'[t] = "idle" /\ pc'[n] = "installing" /\ req'[t] = NoRequest
      /\ \A q \in Procs \ {t, n} : pc'[q] = pc[q]
  BY <1>1, <1>2, Kinds3 DEF IInv, TypeOK, ControlPoints
<1>5. /\ pc'[Main] = "serving"
      /\ \A a \in Attempts \ {n} : pc'[a] = pc[a]
      /\ \A q \in Procs : pc'[q] \notin Saving
  BY <1>2, <1>3, <1>4, Kinds3 DEF Saving
<1>6. Plausible(mem)' /\ Plausible(disk)'
  BY <1>1 DEF Recovers, Plausible
<1>7. \A u \in Threads : Client(u)'
  <2>1. Client(t)'
    BY <1>4 DEF Client, Asks, Judges, Starts, NoRequest, Plausible, Missing,
                Saving
  <2>2. QED
    BY <2>1 DEF OneClient
<1>8. ASSUME NEW a \in Attempts
      PROVE  Worker(a)'
  <2>1. Plausible(job[a])'
    BY <1>1, <1>8 DEF Recovers, Worker, Plausible
  <2>2. pc'[a] \notin Saving \union {"report"}
    BY <1>3, <1>4, <1>5, <1>8 DEF Saving
  <2>3. pc'[a] = "installing" => disk = mem /\ job[a] = mem
    BY <1>2, <1>3, <1>5, <1>8
  <2>4. QED
    BY <1>1, <2>1, <2>2, <2>3 DEF Worker
<1>9. Written'
  BY <1>5 DEF Written, Saving
<1>10. Marked' /\ Tally'
  <2>1. Cut' = Cut
    BY <1>2, <1>4, <1>5 DEF Cut
  <2>2. QED
    BY <1>1, <1>3, <1>4, <1>5, <2>1 DEF Recovers, Marked, Tally, Counted
<1>11. QED
  BY <1>6, <1>7, <1>8, <1>9, <1>10 DEF Recovers

-----------------------------------------------------------------------------
(* Steps of the worker, of a save and of the process.                      *)

LEMMA FinishRecovers ==
  ASSUME IInv, Recovers, OneClient, NEW a \in Attempts, FinishInstall(a)
  PROVE  Recovers'
<1>1. PICK o \in {"succeeded", "failed"}, stored \in {{}, {job[a].ws}} :
        /\ o = "succeeded" => stored # {}
        /\ job' = [job EXCEPT ![a].status = o]
        /\ ready' = ready \union stored
  BY DEF FinishInstall
<1>2. /\ pc[a] = "installing" /\ pc' = [pc EXCEPT ![a] = "report"]
      /\ UNCHANGED <<req, mem, disk, tmp, copy>>
  BY DEF FinishInstall, status
<1>3. Live(a) /\ job[a] \in Status
  BY <1>2 DEF Live, IInv, TypeOK
<1>4. mem.status = "running" /\ pc[Main] = "serving"
  BY <1>3, WorkerAlone
<1>5. Worker(a) /\ job[a] = mem /\ disk = mem
  BY <1>2 DEF Recovers, Worker
<1>6. /\ job'[a] = [job[a] EXCEPT !.status = o]
      /\ job'[a].status = o
      /\ \A b \in Attempts \ {a} : job'[b] = job[b]
  BY <1>1, <1>3 DEF IInv, TypeOK, Status
<1>7. /\ pc'[a] = "report" /\ pc'[Main] = "serving"
      /\ \A q \in Procs \ {a} : pc'[q] = pc[q]
      /\ \A t \in Threads : pc'[t] = pc[t]
      /\ \A b \in Attempts \ {a} : pc'[b] = pc[b]
  BY <1>2, <1>4, Kinds3 DEF IInv, TypeOK, ControlPoints
<1>8. Plausible(mem)' /\ Plausible(disk)'
  BY <1>1, <1>2 DEF Recovers, Plausible
<1>9. ASSUME NEW t \in Threads
      PROVE  Client(t)'
  <2>1. Client(t) /\ pc[t] \notin Saving \union {"init", "store", "spawn"}
    BY <1>3, WorkerAlone DEF Recovers
  <2>2. QED
    BY <1>1, <1>2, <1>7, <2>1
    DEF Client, Asks, Judges, Starts, Plausible, Startable
<1>10. Worker(a)'
  <2>1. Plausible(job[a])'
    BY <1>1, <1>3, <1>4, <1>5, <1>6 DEF Recovers, Plausible, Status
  <2>2. QED
    BY <1>2, <1>5, <1>6, <1>7, <2>1 DEF Worker, Saving
<1>11. \A b \in Attempts \ {a} : Worker(b)'
  BY <1>1, <1>2, <1>6, <1>7, <1>4 DEF Recovers, Worker, Plausible
<1>12. Written'
  BY <1>2, <1>7 DEF Recovers, Written
<1>13. Marked' /\ Tally'
  <2>1. Cut' = Cut
    BY <1>2, <1>7 DEF Cut
  <2>2. QED
    BY <1>2, <1>4, <1>7, <2>1 DEF Recovers, Marked, Tally, Counted
<1>14. QED
  BY <1>8, <1>9, <1>10, <1>11, <1>12, <1>13 DEF Recovers

LEMMA ReportRecovers ==
  ASSUME IInv, Recovers, OneClient, NEW a \in Attempts, Report(a)
  PROVE  Recovers'
<1>1. /\ pc[a] = "report" /\ pc' = [pc EXCEPT ![a] = "clone"]
      /\ mem' = job[a] /\ job' = [job EXCEPT ![a] = Missing]
      /\ UNCHANGED <<req, disk, tmp, copy, ready>>
  BY DEF Report, Goto
<1>2. Live(a)
  BY <1>1 DEF Live
<1>3. /\ pc[Main] = "serving" /\ mem.status = "running"
      /\ \A b \in Attempts \ {a} : ~Live(b)
      /\ \A t \in Threads :
           pc[t] \notin Saving \union {"init", "store", "spawn"}
  BY <1>2, WorkerAlone
<1>4. /\ disk = mem /\ job[a] = [mem EXCEPT !.status = job[a].status]
      /\ job[a].status \in {"succeeded", "failed"}
      /\ job[a].retries = mem.retries
  BY <1>1 DEF Recovers, Worker, IInv, TypeOK, Status, Safe, RecordInTransit
<1>5. /\ job'[a] = Missing
      /\ \A b \in Attempts \ {a} : job'[b] = job[b]
  BY <1>1 DEF IInv, TypeOK
<1>6. /\ pc'[a] = "clone" /\ pc'[Main] = "serving"
      /\ \A q \in Procs \ {a} : pc'[q] = pc[q]
      /\ \A t \in Threads : pc'[t] = pc[t]
      /\ \A b \in Attempts \ {a} : pc'[b] = pc[b]
  BY <1>1, <1>3, Kinds3 DEF IInv, TypeOK, ControlPoints
<1>7. \A b \in Attempts : pc[b] \notin Saving
  BY <1>3 DEF Recovers, Worker
<1>8. Plausible(mem)' /\ Plausible(disk)'
  BY <1>1 DEF Recovers, Worker, Plausible
<1>9. ASSUME NEW t \in Threads
      PROVE  Client(t)'
  BY <1>1, <1>3, <1>6
  DEF Recovers, Client, Asks, Judges, Starts, Plausible, Startable
<1>10. Worker(a)'
  BY <1>1, <1>4, <1>5, <1>6 DEF Worker, Plausible, Missing, Saving
<1>11. ASSUME NEW b \in Attempts \ {a}
       PROVE  Worker(b)'
  <2>1. pc'[b] = pc[b] /\ ~Live(b) /\ pc[b] \notin Saving
    BY <1>3, <1>6, <1>7, <1>11
  <2>2. job'[b] = job[b] /\ ready' = ready /\ Plausible(job[b])
    BY <1>1, <1>5, <1>11 DEF Recovers, Worker
  <2>3. QED
    BY <2>1, <2>2 DEF Worker, Live, Plausible
<1>12. Written'
  <2>1. \A q \in Procs : pc[q] \notin Saving
    BY <1>3, <1>7 DEF Procs, Saving
  <2>2. QED
    BY <1>6, <2>1 DEF Written, Saving
<1>13. Marked' /\ Tally'
  <2>1. Cut' = Cut
    BY <1>1, <1>6 DEF Cut
  <2>2. QED
    BY <1>1, <1>3, <1>4, <1>6, <2>1 DEF Recovers, Marked, Tally, Counted
<1>14. QED
  BY <1>8, <1>9, <1>10, <1>11, <1>12, <1>13 DEF Recovers

LEMMA SaveRecovers ==
  ASSUME IInv, Recovers, Undisturbed, NEW p \in Procs, Save(p)
  PROVE  Recovers'
<1>1. CASE p \in Threads /\ SaveFails(p)
  <2>1. /\ Answer(p) /\ UNCHANGED <<mem, disk, tmp, job, ready>>
        /\ \A q \in Procs \ {p} : copy'[q] = copy[q]
    BY <1>1 DEF SaveFails, IInv, TypeOK
  <2>2. QED
    BY <1>1, <2>1, ClientAnswers DEF Undisturbed
<1>2. CASE ~(p \in Threads /\ SaveFails(p))
  <2>1. /\ pc[p] \in Saving
        /\ UNCHANGED <<req, mem, job, ready>>
    BY <1>2
    DEF Save, Clone, WriteTemporary, RemoveOld, Rename, SaveFails, Goto, Saving
  <2> DEFINE Goes(x) == /\ x \in Saving \union {AfterSave(p)}
                        /\ pc' = [pc EXCEPT ![p] = x]
                        /\ x = "remove" => Windows
                        /\ x = "write" => copy'[p] = mem
                        /\ x \in {"remove", "rename"} => tmp' \in {mem, Missing}
                        /\ x = "spawn" => disk' = tmp /\ tmp # Missing
                                            /\ pc[p] = "rename"
  <2>2. PICK x : Goes(x)
    <3>1. CASE Clone(p)
      <4>1. Goes("write")
        BY <3>1 DEF Clone, Goto, Saving, IInv, TypeOK
      <4>2. QED
        BY <4>1
    <3>2. CASE WriteTemporary(p)
      <4>1. tmp' = mem
        BY <3>2 DEF WriteTemporary, Goto, Recovers, Written
      <4>2. Goes("remove") \/ Goes("rename")
        BY <3>2, <4>1 DEF WriteTemporary, Goto, Saving
      <4>3. QED
        BY <4>2
    <3>3. CASE RemoveOld(p)
      <4>1. Goes("rename")
        BY <3>3 DEF RemoveOld, Goto, Saving, Recovers, Written
      <4>2. QED
        BY <4>1
    <3>4. CASE Rename(p) \/ SaveFails(p)
      <4>1. /\ AfterSave(p) \in {"spawn", "serving", "done"}
            /\ AfterSave(p) = "spawn" => p \in Threads
        BY DEF AfterSave
      <4>2. Goes(AfterSave(p))
        BY <1>2, <3>4, <4>1 DEF Rename, SaveFails, Goto
      <4>3. QED
        BY <4>2
    <3>5. QED
      BY <3>1, <3>2, <3>3, <3>4 DEF Save
  <2>3. /\ pc'[p] = x
        /\ \A q \in Procs \ {p} : pc'[q] = pc[q]
        /\ \A q \in Procs \ {p} : copy'[q] = copy[q]
    BY <1>2, <2>2
    DEF Save, Clone, WriteTemporary, RemoveOld, Rename, SaveFails, IInv, TypeOK,
        ControlPoints
  <2>4. /\ disk' \in {disk, mem} \/ (disk' = Missing /\ Windows)
        /\ tmp' \in {tmp, mem, Missing}
    <3>1. /\ pc[p] = "remove" => Windows
          /\ pc[p] = "write" => copy[p] = mem
          /\ pc[p] = "rename" => tmp \in {mem, Missing}
      BY DEF Recovers, Written
    <3>2. QED
      BY <3>1
      DEF Save, Clone, WriteTemporary, RemoveOld, Rename, SaveFails, Goto
  <2>5. /\ p \in Threads => x \in Saving \union {"spawn"}
        /\ p \in Attempts => x \in Saving \union {"done"}
        /\ p = Main => x \in Saving \union {"serving"}
    BY <2>2, Kinds3 DEF AfterSave
  <2>6. /\ pc[Main] # "down" /\ pc'[Main] # "down"
        /\ pc[Main] = "serving" => pc'[Main] = "serving"
    <3>1. p \in Threads => pc[Main] = "serving"
      BY <2>1 DEF IInv, Safe, Quiet, Saving
    <3>2. p \in Attempts => pc[Main] = "serving"
      BY <2>1 DEF Recovers, Worker
    <3>3. QED
      BY <2>1, <2>3, <2>5, <3>1, <3>2, Kinds3 DEF Procs, Saving
  <2>7. Plausible(mem)' /\ Plausible(disk)'
    BY <2>1, <2>4 DEF Recovers, Plausible, Missing
  <2>8. /\ \A t \in Threads : pc[t] # "spawn"
        /\ \A a \in Attempts : ~Live(a)
    <3>1. ASSUME NEW t \in Threads, pc[t] = "spawn" PROVE FALSE
      BY <2>1, <3>1, NobodySaves DEF Undisturbed
    <3>2. ASSUME NEW a \in Attempts, Live(a) PROVE FALSE
      <4>1. /\ mem.status = "running" /\ pc[Main] = "serving"
            /\ \A t \in Threads : pc[t] \notin Saving
        BY <3>2, WorkerAlone
      <4>2. \A b \in Attempts : pc[b] \notin Saving
        BY <4>1 DEF Recovers, Worker
      <4>3. QED
        BY <2>1, <4>1, <4>2 DEF Procs, Saving
    <3>3. QED
      BY <3>1, <3>2
  <2>9. ASSUME NEW t \in Threads
        PROVE  Client(t)'
    <3>1. CASE t = p
      <4>1. x \in Saving \union {"spawn"} /\ pc[t] \in Saving
        BY <2>1, <2>5, <3>1
      <4>2. x = "spawn" => disk' = mem
        BY <2>2, <3>1 DEF Recovers, Written
      <4>3. Client(t) /\ pc'[t] = x
        BY <2>3, <2>9, <3>1 DEF Recovers
      <4>4. QED
        BY <2>1, <4>1, <4>2, <4>3
        DEF Client, Asks, Judges, Starts, Plausible, Saving
    <3>2. CASE t # p
      BY <2>1, <2>3, <2>8, <2>9, <3>2, Kinds3
      DEF Recovers, Client, Asks, Judges, Starts, Plausible
    <3>3. QED
      BY <3>1, <3>2
  <2>10. ASSUME NEW a \in Attempts
         PROVE  Worker(a)'
    <3>1. CASE a = p
      BY <2>1, <2>3, <2>5, <2>6, <2>10, <3>1
      DEF Recovers, Worker, Plausible, Saving
    <3>2. CASE a # p
      <4>1. a \in Procs \ {p}
        BY <2>10, <3>2, Kinds3
      <4>2. pc'[a] = pc[a] /\ ~Live(a)
        BY <2>3, <2>8, <2>10, <4>1
      <4>3. Worker(a)
        BY <2>10 DEF Recovers
      <4>4. Plausible(job[a])'
        BY <2>1, <4>3 DEF Worker, Plausible
      <4>5. QED
        BY <2>1, <2>6, <4>2, <4>3, <4>4 DEF Worker, Live
    <3>3. QED
      BY <3>1, <3>2
  <2>11. Written'
    <3>1. ASSUME NEW q \in Procs
          PROVE  /\ pc'[q] = "remove" => Windows
                 /\ pc'[q] = "write" => copy'[q] = mem
                 /\ pc'[q] \in {"remove", "rename"} => tmp' \in {mem, Missing}
      <4>1. CASE q = p
        BY <2>2, <2>3, <4>1
      <4>2. CASE q # p
        BY <2>3, <2>4, <3>1, <4>2 DEF Recovers, Written
      <4>3. QED
        BY <4>1, <4>2
    <3>2. QED
      BY <2>1, <3>1 DEF Written
  <2>12. Marked' /\ Tally'
    <3>1. \A a \in Attempts :
            /\ pc'[a] \in {"killed", "dead"} <=> pc[a] \in {"killed", "dead"}
            /\ pc'[a] = "killed" <=> pc[a] = "killed"
      BY <2>1, <2>3, <2>5, Kinds3 DEF Saving
    <3>2. Cut' = Cut
      BY <3>1 DEF Cut
    <3>3. ~Windows => mem.retries <= Counted(disk)'
      BY <2>1, <2>4, <2>6
      DEF Recovers, Tally, Counted, IInv, TypeOK, Status
    <3>4. QED
      BY <2>1, <2>6, <3>1, <3>2, <3>3 DEF Recovers, Marked, Tally
  <2>13. QED
    BY <2>7, <2>9, <2>10, <2>11, <2>12 DEF Recovers
<1>3. QED
  BY <1>1, <1>2

LEMMA RestartRecovers ==
  ASSUME IInv, Recovers, Restart
  PROVE  Recovers'
<1>1. PICK v \in {connector, connector + 1} :
        /\ mem' = Recovered(disk, v)
        /\ pc' = [p \in Procs |->
                    IF p = Main
                    THEN IF Recovered(disk, v) = disk THEN "serving" ELSE "clone"
                    ELSE IF pc[p] = "killed" THEN "dead" ELSE pc[p]]
  BY DEF Restart
<1>2. UNCHANGED <<req, job, disk, copy, ready>> /\ pc[Main] = "down"
  BY DEF Restart
<1>3. /\ Plausible(mem') /\ mem'.retries = Counted(disk)
  BY <1>1, RecoveredCounts DEF IInv, TypeOK, Recovers
<1>4. /\ \A t \in Threads : pc[t] = "idle" /\ pc'[t] = "idle"
      /\ \A a \in Attempts : pc[a] \notin {"installing", "report"} \union Saving
      /\ pc'[Main] \in {"clone", "serving"}
  <2>1. /\ \A t \in Threads : pc[t] = "idle"
        /\ \A a \in Attempts : ~Live(a)
    BY <1>2 DEF IInv, Safe, Quiet
  <2>2. \A a \in Attempts : pc[a] \notin Saving
    BY <1>2 DEF Recovers, Worker
  <2>3. QED
    BY <1>1, <2>1, <2>2, Kinds3 DEF Live
<1>5. \A a \in Attempts : pc'[a] = IF pc[a] = "killed" THEN "dead" ELSE pc[a]
  BY <1>1, Kinds3
<1>6. Plausible(mem)' /\ Plausible(disk)'
  BY <1>2, <1>3 DEF Recovers, Plausible
<1>7. \A t \in Threads : Client(t)'
  BY <1>2, <1>4 DEF Recovers, Client, Asks, Judges, Starts, Plausible, Saving
<1>8. ASSUME NEW a \in Attempts
      PROVE  Worker(a)'
  <2>1. pc'[a] \notin {"installing", "report"} \union Saving
    BY <1>4, <1>5, <1>8 DEF Saving
  <2>2. Plausible(job[a])'
    BY <1>2, <1>8 DEF Recovers, Worker, Plausible
  <2>3. QED
    BY <2>1, <2>2 DEF Worker
<1>9. Written'
  <2>1. \A p \in Procs : pc'[p] \notin {"write", "remove", "rename"}
    BY <1>4, <1>5 DEF Procs, Saving
  <2>2. QED
    BY <2>1 DEF Written
<1>10. Marked' /\ Tally'
  <2>1. Cut' = Cut
    BY <1>5 DEF Cut
  <2>2. \A a \in Attempts : pc'[a] # "killed"
    BY <1>5
  <2>3. ~Windows => Cardinality(Cut) <= Counted(disk)
    BY <1>2 DEF Recovers, Tally
  <2>4. Counted(disk) \in Nat /\ Counted(disk)' = Counted(disk)
    BY <1>2 DEF Counted, IInv, TypeOK, Status
  <2>5. QED
    BY <1>3, <1>4, <2>1, <2>2, <2>3, <2>4 DEF Marked, Tally
<1>11. QED
  BY <1>6, <1>7, <1>8, <1>9, <1>10 DEF Recovers

LEMMA CrashRecovers ==
  ASSUME IInv, Recovers, Crash
  PROVE  Recovers'
<1>1. /\ pc[Main] # "down" /\ pc'[Main] = "down"
      /\ \A t \in Threads : pc'[t] = "idle" /\ req'[t] = NoRequest
      /\ \A a \in Attempts :
           /\ pc'[a] = IF pc[a] = "installing" THEN "killed"
                       ELSE IF pc[a] \in Saving \union {"report"} THEN "done"
                       ELSE pc[a]
           /\ job'[a] = Missing
      /\ mem' = Missing /\ UNCHANGED <<disk, ready>>
  BY Kinds3 DEF Crash
<1>2. Plausible(Missing) /\ Plausible(Missing)'
  BY DEF Plausible, Missing
<1>3. Plausible(mem)' /\ Plausible(disk)'
  BY <1>1, <1>2 DEF Recovers, Plausible
<1>4. \A t \in Threads : Client(t)'
  BY <1>1, <1>2
  DEF Client, Asks, Judges, Starts, NoRequest, Plausible, Saving
<1>5. \A a \in Attempts : pc'[a] \notin {"installing", "report"} \union Saving
  BY <1>1 DEF Saving
<1>6. \A a \in Attempts : Worker(a)'
  BY <1>1, <1>2, <1>5 DEF Worker, Plausible
<1>7. Written'
  <2>1. \A p \in Procs : pc'[p] \notin Saving
    BY <1>1, <1>5 DEF Procs, Saving
  <2>2. QED
    BY <2>1 DEF Written, Saving
<1>8. Marked' /\ Tally'
  <2>1. /\ ~Windows => /\ Cardinality(Cut) <= mem.retries
                         /\ mem.retries <= Counted(disk)
        /\ \A a \in Attempts : pc[a] # "killed"
        /\ mem.retries \in Nat /\ Counted(disk)' = Counted(disk)
        /\ Counted(disk) \in Nat
    BY <1>1 DEF Recovers, Marked, Tally, IInv, TypeOK, Status, Counted
  <2>2. CASE \E a \in Attempts : pc[a] = "installing"
    <3>1. PICK a \in Attempts : pc[a] = "installing"
      BY <2>2
    <3>2. /\ mem.status = "running" /\ disk = mem
          /\ \A b \in Attempts \ {a} : pc[b] # "installing"
      BY <3>1, WorkerAlone DEF Live, Recovers, Worker
    <3>3. Cut' = Cut \union {a} /\ a \notin Cut
      BY <1>1, <3>1, <3>2 DEF Cut, Saving
    <3>4. Cardinality(Cut') = Cardinality(Cut) + 1
      BY <3>3, CutCounts, FS_AddElement
    <3>5. ~Windows => Cardinality(Cut') <= Counted(disk)
      BY <2>1, <3>2, <3>4, CutCounts DEF Counted
    <3>6. QED
      BY <1>1, <2>1, <3>2, <3>5 DEF Marked, Tally
  <2>3. CASE \A a \in Attempts : pc[a] # "installing"
    <3>1. /\ Cut' = Cut
          /\ \A a \in Attempts : pc'[a] # "killed"
      BY <1>1, <2>1, <2>3 DEF Cut, Saving
    <3>2. QED
      BY <1>1, <2>1, <3>1, CutCounts DEF Marked, Tally
  <2>4. QED
    BY <2>2, <2>3
<1>9. QED
  BY <1>3, <1>4, <1>6, <1>7, <1>8 DEF Recovers

\* The stutter.
LEMMA StutterRecovers == IInv /\ Recovers /\ UNCHANGED vars => Recovers'
BY DEF Recovers, Client, Asks, Judges, Starts, Worker, Written, Marked, Tally,
       Cut, Counted, Startable, Plausible, vars

LEMMA NextRecovers ==
  ASSUME IInv, Recovers, Undisturbed, [Next]_vars
  PROVE  Recovers'
<1>0. OneClient
  BY DEF Undisturbed
<1>1. CASE Restart \/ Crash
  BY <1>1, RestartRecovers, CrashRecovers
<1>2. ASSUME NEW t \in Threads, Receive(t) \/ Serve(t) PROVE Recovers'
  BY <1>0, <1>2, ReceiveRecovers, CheckLocalDataRecovers, BeginRecovers,
     InitializeRecovers, SnapshotRecovers, DecideRecovers, AdmitRecovers,
     OtherRequestsRecover, StoreRunningRecovers, SpawnRecovers
  DEF Serve
<1>3. ASSUME NEW a \in Attempts, Work(a) PROVE Recovers'
  BY <1>0, <1>3, FinishRecovers, ReportRecovers DEF Work
<1>4. ASSUME NEW p \in Procs, Save(p) PROVE Recovers'
  BY <1>4, SaveRecovers
<1>5. QED
  BY <1>1, <1>2, <1>3, <1>4, StutterRecovers DEF Next

LEMMA Recovery ==
  ASSUME Undisturbed
  PROVE  Spec => [](IInv /\ Recovers)
<1>1. Init => Recovers
  BY InitRecovers
<1>2. IInv /\ Recovers /\ [Next]_vars => Recovers'
  BY NextRecovers
<1>3. QED
  BY <1>1, <1>2, Invariance, PTL DEF Spec

\* At most two installations are cut before the user has to decide, for any
\* number of requests, of deaths and of upgrades, with the failing saves in
\* between (main.rs:163, setup.rs:378).
THEOREM CrashLoopEnds ==
  Undisturbed /\ ~Windows => (Spec => []CrashLoopBounded)
<1>1. ~Windows /\ IInv /\ Recovers => CrashLoopBounded
  <2> SUFFICES ASSUME ~Windows, IInv, Recovers PROVE Cardinality(Cut) <= 2
    BY DEF CrashLoopBounded, Cut
  <2>1. /\ mem.retries \in Nat /\ disk.retries \in Nat
        /\ mem.retries <= 2 /\ Counted(disk) <= 2
    BY DEF IInv, TypeOK, Status, Recovers, Plausible, Counted
  <2>2. QED
    BY <2>1, CutCounts DEF Recovers, Marked, Tally, Counted
<1>2. ASSUME Undisturbed, ~Windows PROVE Spec => []CrashLoopBounded
  <2>1. IInv /\ Recovers => CrashLoopBounded
    BY <1>1, <1>2
  <2>2. QED
    BY <1>2, <2>1, Recovery, PTL
<1>3. QED
  BY <1>2

\* The process that starts after an installation was cut calls it
\* interrupted (setup.rs:371).
THEOREM CutIsRecorded == Undisturbed => (Spec => InterruptionRecorded)
<1>1. IInv /\ Recovers /\ [Next]_vars =>
        [ Restart /\ (\E a \in Attempts : pc[a] = "killed")
            => mem'.status = "interrupted" ]_vars
  <2> SUFFICES ASSUME IInv, Recovers, Restart, NEW a \in Attempts,
                      pc[a] = "killed"
               PROVE  mem'.status = "interrupted"
    OBVIOUS
  <2>1. disk.status = "running"
    BY DEF Restart, Recovers, Marked
  <2>2. QED
    BY <2>1, RecoveredCounts DEF Restart, IInv, TypeOK, Recovers
<1>2. ASSUME Undisturbed PROVE Spec => InterruptionRecorded
  BY <1>1, <1>2, Recovery, PTL DEF Spec, InterruptionRecorded
<1>3. QED
  BY <1>2

-----------------------------------------------------------------------------
(* That a failure is not repeated needs less: a single client, whatever it *)
(* asks, for any workspaces and on any system.                             *)

\* What the client decided on still holds when it starts: only a report
\* changes the status meanwhile, and that follows a running status, which no
\* decision starts from.
Attentive(t) ==
  /\ pc[t] = "elevate" => req[t].elevate
  /\ req[t].elevate => req[t].kind = "retry"
  /\ pc[t] = "auth" => req[t].snap = mem \/ req[t].snap.status = "running"
  /\ pc[t] \in {"begin", "admit"} /\ req[t].kind = "ensure" =>
       /\ mem.status # "running"
       /\ ~(mem.status = "failed" /\ mem.ws = req[t].ws)

Attention == \A t \in Threads : Attentive(t)

LEMMA InitAttention == Init => Attention
BY Kinds3 DEF Init, Attention, Attentive, Procs, NoRequest

\* A step of the client.
LEMMA ServeAttention ==
  ASSUME IInv, Attention, OneClient, NEW t \in Threads, Receive(t) \/ Serve(t)
  PROVE  Attention'
<1> SUFFICES Attentive(t)'
  BY DEF Attention, OneClient
<1>0. /\ Attentive(t)
      /\ req \in [Threads -> Request] /\ ControlPoints(pc)
      /\ \A f, x : f = [pc EXCEPT ![t] = x] => f[t] = x
  BY Kinds3 DEF Attention, IInv, TypeOK, ControlPoints
<1>a. ASSUME Answer(t) PROVE Attentive(t)'
  BY <1>0, <1>a DEF Answer, Attentive, NoRequest
<1>1. CASE Receive(t)
  <2>1. PICK kind \in Kinds, elevate \in BOOLEAN : \E ws \in Targets(kind) :
          /\ elevate => kind = "retry"
          /\ req' = [req EXCEPT ![t] = [kind |-> kind, ws |-> ws,
                                        id |-> requests + 1,
                                        elevate |-> elevate, snap |-> Missing]]
          /\ pc' = [pc EXCEPT ![t] = IF kind = "ensure" THEN "local"
                                     ELSE "begin"]
    BY <1>1 DEF Receive
  <2>2. /\ req'[t].kind = kind /\ req'[t].elevate = elevate
        /\ pc'[t] = IF kind = "ensure" THEN "local" ELSE "begin"
    BY <1>0, <2>1
  <2>3. QED
    BY <2>1, <2>2 DEF Attentive
<1>2. CASE CheckLocalData(t)
  BY <1>0, <1>2, <1>a DEF CheckLocalData, Attentive
<1>3. CASE Begin(t)
  <2>1. CASE pc' = [pc EXCEPT ![t] = Reserved(t)] /\ req' = req /\ mem' = mem
    <3>1. pc'[t] = Reserved(t) /\ pc[t] \in {"begin", "localbegin"}
      BY <1>0, <1>3, <2>1 DEF Begin
    <3>2. QED
      BY <1>0, <2>1, <3>1 DEF Reserved, Attentive
  <2>2. QED
    BY <1>3, <1>a, <2>1 DEF Begin, status
<1>4. CASE InitializeLocalData(t)
  BY <1>0, <1>4, <1>a DEF InitializeLocalData, Goto, Attentive
<1>5. CASE Snapshot(t)
  <2>1. /\ pc'[t] = "auth" /\ mem' = mem
        /\ req'[t].snap = mem /\ req'[t].elevate = req[t].elevate
        /\ req'[t].kind = req[t].kind
    BY <1>0, <1>5 DEF Snapshot, Goto, Request, status
  <2>2. QED
    BY <1>0, <2>1 DEF Attentive
<1>6. CASE Decide(t)
  <2>1. CASE ~Answer(t)
    <3>1. /\ pc[t] = "auth" /\ pc'[t] = "begin" /\ mem' = mem
          /\ req'[t].elevate = req[t].elevate /\ req'[t].kind = req[t].kind
          /\ req'[t].ws = req[t].ws
      BY <1>0, <1>6, <2>1 DEF Decide, Request, status
    <3>2. /\ req[t].snap.status # "running"
          /\ ~Stopped(req[t].snap, req[t].ws)
      BY <1>6, <2>1 DEF Decide, Decision
    <3>3. QED
      BY <1>0, <3>1, <3>2 DEF Attentive, Stopped
  <2>2. QED
    BY <1>a, <2>1
<1>7. CASE CheckElevation(t)
  BY <1>0, <1>7, <1>a DEF CheckElevation, Attentive
<1>8. CASE Admit(t)
  BY <1>0, <1>8, <1>a DEF Admit, AdmitUnless, Attentive
<1>9. CASE StoreRunning(t)
  BY <1>0, <1>9 DEF StoreRunning, Goto, Attentive
<1>10. CASE Spawn(t)
  <2>1. /\ pc[t] = "spawn" /\ req[t].id \in Attempts
        /\ req' = [req EXCEPT ![t] = NoRequest]
    BY <1>10 DEF Spawn, IInv, Numbered
  <2>2. pc'[t] = "idle" /\ req'[t] = NoRequest
    BY <1>0, <1>10, <2>1, Kinds3 DEF Spawn, ControlPoints
  <2>3. QED
    BY <2>2 DEF Attentive, NoRequest
<1>11. CASE PassGate(t)
  BY <1>0, <1>11, <1>a DEF PassGate, Attentive
<1>12. CASE EndWork(t)
  BY <1>12, <1>a DEF EndWork
<1>13. QED
  BY <1>1, <1>2, <1>3, <1>4, <1>5, <1>6, <1>7, <1>8, <1>9, <1>10, <1>11, <1>12
  DEF Serve

\* A step of anybody else.
LEMMA OthersAttention ==
  ASSUME IInv, Attention, OneClient,
         \/ Restart \/ Crash
         \/ \E a \in Attempts : Work(a)
         \/ \E p \in Procs : Save(p)
  PROVE  Attention'
<1> SUFFICES ASSUME NEW t \in Threads PROVE Attentive(t)'
  BY DEF Attention
<1>0. Attentive(t)
  BY DEF Attention
<1>1. CASE Restart \/ Crash
  <2>1. pc'[t] = "idle" /\ (req' = req \/ req'[t] = NoRequest)
    BY <1>1, Kinds3 DEF Restart, Crash, IInv, Safe, Quiet
  <2>2. QED
    BY <1>0, <2>1 DEF Attentive, NoRequest
<1>2. ASSUME NEW a \in Attempts, Work(a) PROVE Attentive(t)'
  <2>1. Live(a) /\ req' = req /\ pc'[t] = pc[t]
    BY <1>2, Kinds3
    DEF Work, FinishInstall, Report, Goto, Live, IInv, TypeOK, ControlPoints
  <2>2. mem.status = "running"
    BY <2>1, WorkerAlone
  <2>3. QED
    BY <1>0, <2>1, <2>2 DEF Attentive
<1>3. ASSUME NEW p \in Procs, Save(p) PROVE Attentive(t)'
  <2>1. /\ pc[p] \in Saving /\ mem' = mem
        /\ \/ p \in Threads /\ Answer(p)
           \/ \E x \in Saving \union {AfterSave(p)} :
                pc' = [pc EXCEPT ![p] = x] /\ UNCHANGED <<req, reserved>>
    BY <1>3, SaveMoves
  <2>2. CASE p = t
    <3>1. /\ pc'[t] \in Saving \union {"spawn", "idle"}
          /\ req' = req \/ req'[t] = NoRequest
      BY <2>1, <2>2, Kinds3
      DEF Answer, AfterSave, IInv, TypeOK, ControlPoints
    <3>2. QED
      BY <1>0, <3>1 DEF Attentive, NoRequest, Saving
  <2>3. CASE p # t
    <3>1. pc'[t] = pc[t] /\ req'[t] = req[t]
      BY <2>1, <2>3, Kinds3 DEF OneClient, IInv, TypeOK, ControlPoints
    <3>2. QED
      BY <1>0, <2>1, <3>1 DEF Attentive
  <2>4. QED
    BY <2>2, <2>3
<1>4. QED
  BY <1>1, <1>2, <1>3

\* ensure-ready does not repeat the installation that has failed for its
\* workspace (main.rs:159), as long as nobody else asks meanwhile.
THEOREM FailureIsNotRepeated == OneClient => (Spec => NoAutomaticRestart)
<1>1. Init => Attention
  BY InitAttention
<1>2. ASSUME OneClient, IInv, Attention, [Next]_vars PROVE Attention'
  <2>1. CASE UNCHANGED vars
    BY <1>2, <2>1 DEF Attention, Attentive, vars
  <2>2. QED
    BY <1>2, <2>1, ServeAttention, OthersAttention DEF Next
<1>3. IInv /\ Attention /\ [Next]_vars =>
        [ \A t \in Threads :
            /\ pc[t] = "admit" /\ pc'[t] = "init"
            /\ req[t].kind = "ensure"
            => ~(mem.status = "failed" /\ mem.ws = req[t].ws) ]_vars
  BY DEF Attention, Attentive
<1>4. ASSUME OneClient PROVE Spec => NoAutomaticRestart
  <2>1. IInv /\ Attention /\ [Next]_vars => Attention'
    BY <1>2, <1>4
  <2>2. QED
    BY <1>1, <1>3, <2>1, Invariance, PTL DEF Spec, NoAutomaticRestart
<1>5. QED
  BY <1>4
=============================================================================
