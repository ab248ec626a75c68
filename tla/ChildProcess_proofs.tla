------------------------ MODULE ChildProcess_proofs ------------------------
(***************************************************************************)
(* Theorems of ChildProcess, for any number of processes, any of them      *)
(* beyond the manager's reach, and any timeouts: its types, the time a     *)
(* call may take, and that it implements the safety part of BoundedCall.   *)
(***************************************************************************)
EXTENDS ChildProcess, TLAPS

Ending == {"finish", "scan", "nap"}

\* The place the thread has reached says what it has done.
Stage ==
  /\ pc \in {"idle", "attach", "poll"} => waited = 0 /\ scans = 0
  /\ pc = "attach" => reply = "none"
  /\ pc = "idle" => reply = "none" /\ proc = [p \in Procs |-> "none"]
  /\ pc \in {"terminate", "reap", "drop"} \/ dropping => reply # "none"
  /\ pc = "nap" => waited < Grace
  /\ pc \notin {"read", "answered"} => scans <= 1
  /\ dropping => pc \in Ending \union {"answered"}

\* On Windows no process is ever in flight, and only the leader is suspended.
InTheJob == windows => InFlight = {}

\* What has been believed is true: the second of two scans in a row that find
\* nobody is not misled if the first was.
Believed ==
  /\ scans >= 1 /\ races = 0 => windows \/ Quiet
  /\ finished => Quiet /\ pc \in {"read", "answered"}
  /\ pc = "read" => finished
  /\ reply = "ok" => finished

\* The time each place may have taken.
Clock ==
  /\ pc \in {"idle", "attach"} => elapsed = 0
  /\ pc \in {"poll", "terminate"} => elapsed <= Deadline
  /\ pc = "reap" => elapsed <= Deadline + waited
  /\ pc \in Ending /\ ~dropping => elapsed <= Deadline + waited
  /\ pc \in {"drop", "read"} => elapsed <= Deadline + Grace
  /\ pc \in Ending /\ dropping => elapsed <= Deadline + Grace + waited
  /\ AnswersInTime

CallInv == TypeOK /\ Stage /\ InTheJob /\ Believed /\ Clock

-----------------------------------------------------------------------------
(* Processes.                                                              *)

LEMMA KilledTyped ==
  ASSUME proc \in [Procs -> States]
  PROVE  /\ Killed \in [Procs -> States]
         /\ \A p \in Procs : Killed[p] # proc[p] =>
              proc[p] = "live" /\ Killed[p] = "dying"
BY DEF Killed, States

\* Who is quiet stays quiet when nobody comes to life.
LEMMA StaysQuiet ==
  ASSUME proc \in [Procs -> States], proc' \in [Procs -> States],
         \A p \in Procs : proc'[p] = proc[p]
           \/ (proc[p] \in {"live", "dying"} /\ proc'[p] \in {"dying", "zombie"})
           \/ proc'[p] = "gone"
  PROVE  (Quiet => Quiet') /\ (InFlight = {} => InFlight' = {})
<1>1. InFlight' \subseteq InFlight
  BY DEF InFlight, In
<1>2. Executing' \subseteq Executing
  BY DEF Executing, In
<1> QED
  BY <1>1, <1>2 DEF Quiet

LEMMA InitCall == Init => CallInv
<1> SUFFICES ASSUME Init PROVE CallInv
  OBVIOUS
<1> USE ChildAssumption DEF Init
<1>1. TypeOK
  <2>1. proc \in [Procs -> States]
    BY DEF States
  <2>2. pc \in Places
    BY DEF Places
  <2>3. /\ windows \in BOOLEAN /\ over \in BOOLEAN /\ dropping \in BOOLEAN
        /\ finished \in BOOLEAN
    BY Zenon
  <2>4. /\ races \in 0..Races /\ scans \in 0..2 /\ waited \in 0..Grace
        /\ elapsed \in Nat
    BY SMT
  <2> HIDE DEF Init
  <2> QED
    BY <2>1, <2>2, <2>3, <2>4 DEF TypeOK, Init
<1>2. InTheJob
  BY DEF InTheJob, InFlight, In
<1>3. Stage /\ Believed /\ Clock
  BY DEF Stage, Believed, Clock, AnswersInTime, Ending
<1> QED
  BY <1>1, <1>2, <1>3 DEF CallInv

\* The steps of the command leave the thread where it is.
LEMMA CommandPreserves == CallInv /\ Command => CallInv'
<1> SUFFICES ASSUME CallInv, Command PROVE CallInv'
  OBVIOUS
<1>0. UNCHANGED <<windows, pc, reply, dropping, scans, finished, waited,
                  elapsed, races>>
  BY DEF Command, Fork, Land, End, Emit, Becomes
<1>1. proc' \in [Procs -> States] /\ over' \in BOOLEAN
  BY DEF Command, Fork, Land, End, Emit, Becomes, CallInv, TypeOK, States
<1>2. TypeOK' /\ Clock'
  BY <1>0, <1>1 DEF CallInv, TypeOK, Clock, AnswersInTime
<1>3. Stage'
  <2>1. pc = "idle" => proc' = proc
    BY DEF Command, Fork, Land, End, Emit, Becomes, CallInv, Stage
  <2> QED
    BY <1>0, <2>1 DEF CallInv, Stage
<1>4. (Quiet => Quiet') /\ InTheJob'
  BY <1>0, <1>1
     DEF Command, Fork, Land, End, Emit, Becomes, CallInv, TypeOK, InTheJob,
         Quiet, Executing, InFlight, In, States
<1>5. Believed'
  BY <1>0, <1>4 DEF CallInv, Believed
<1> QED
  BY <1>2, <1>3, <1>4, <1>5 DEF CallInv

-----------------------------------------------------------------------------
(* The calling thread.                                                     *)

\* Starting the command.
LEMMA StartPreserves ==
  ASSUME CallInv, Spawn \/ SpawnFails \/ Attach \/ AttachFails
  PROVE  CallInv'
<1> USE ChildAssumption
<1>1. CASE Spawn
  BY <1>1 DEF Spawn, Goto, CallInv, TypeOK, Stage, InTheJob, Believed, Clock,
              AnswersInTime, Ending, States, Places, InFlight, In
<1>2. CASE SpawnFails
  BY <1>2 DEF SpawnFails, Goto, CallInv, TypeOK, Stage, InTheJob, Believed,
              Clock, AnswersInTime, Ending, States, Places, InFlight, In
<1>3. CASE Attach
  BY <1>3 DEF Attach, Goto, CallInv, TypeOK, Stage, InTheJob, Believed, Clock,
              AnswersInTime, Ending, States, Places, InFlight, In
<1>4. CASE AttachFails
  BY <1>4 DEF AttachFails, Goto, CallInv, TypeOK, Stage, InTheJob, Believed,
              Clock, AnswersInTime, Ending, States, Places, InFlight, In
<1> QED
  BY <1>1, <1>2, <1>3, <1>4

\* Waiting for it.
LEMMA PollPreserves ==
  ASSUME CallInv, Collect \/ TooLarge \/ Late \/ PollAgain
  PROVE  CallInv'
<1> USE ChildAssumption
<1>1. CASE Collect
  <2>1. proc' \in [Procs -> States] /\ (InFlight = {} => InFlight' = {})
    BY <1>1, StaysQuiet DEF Collect, CallInv, TypeOK, States
  <2> QED
    BY <1>1, <2>1 DEF Collect, Goto, CallInv, TypeOK, Stage, InTheJob, Believed,
              Clock, AnswersInTime, Ending, Places
<1>2. CASE TooLarge \/ Late
  BY <1>2 DEF TooLarge, Late, GiveUp, Goto, CallInv, TypeOK, Stage, InTheJob,
              Believed, Clock, AnswersInTime, Ending, Places, InFlight, In
<1>3. CASE PollAgain
  BY <1>3 DEF PollAgain, CallInv, TypeOK, Stage, InTheJob, Believed, Clock,
              AnswersInTime, Ending, Places, InFlight, In
<1> QED
  BY <1>1, <1>2, <1>3

\* Killing it and collecting the leader.
LEMMA ReapPreserves ==
  ASSUME CallInv,
         Terminate \/ TerminateFails \/ Reap \/ ReapAgain \/ ReapLate
  PROVE  CallInv'
<1> USE ChildAssumption
<1>1. CASE Terminate
  <2>1. proc' \in [Procs -> States] /\ (InFlight = {} => InFlight' = {})
           /\ (Quiet => Quiet')
    BY <1>1, StaysQuiet, KilledTyped DEF Terminate, CallInv, TypeOK
  <2> QED
    BY <1>1, <2>1 DEF Terminate, Goto, CallInv, TypeOK, Stage, InTheJob,
              Believed, Clock, AnswersInTime, Ending, Places
<1>2. CASE TerminateFails
  BY <1>2 DEF TerminateFails, Goto, CallInv, TypeOK, Stage, InTheJob, Believed,
              Clock, AnswersInTime, Ending, Places, Quiet, Executing, InFlight, In
<1>3. CASE Reap
  <2>1. proc' \in [Procs -> States] /\ (InFlight = {} => InFlight' = {})
           /\ (Quiet => Quiet')
    BY <1>3, StaysQuiet DEF Reap, CallInv, TypeOK, States
  <2> QED
    BY <1>3, <2>1 DEF Reap, Goto, CallInv, TypeOK, Stage, InTheJob, Believed,
              Clock, AnswersInTime, Ending, Places
<1>4. CASE ReapAgain
  BY <1>4 DEF ReapAgain, Sleep, CallInv, TypeOK, Stage, InTheJob, Believed,
              Clock, AnswersInTime, Ending, Places, Quiet, Executing, InFlight, In
<1>5. CASE ReapLate
  BY <1>5 DEF ReapLate, Goto, CallInv, TypeOK, Stage, InTheJob, Believed,
              Clock, AnswersInTime, Ending, Places, Quiet, Executing, InFlight, In
<1> QED
  BY <1>1, <1>2, <1>3, <1>4, <1>5

\* An end that is not confirmed.
LEMMA UnconfirmedPreserves ==
  ASSUME CallInv, pc \in Ending, Unconfirmed,
         races' \in 0..Races, scans' \in 0..1,
         scans' >= 1 /\ races' = 0 => windows \/ Quiet
  PROVE  CallInv'
<1>1. TypeOK'
  BY DEF Unconfirmed, CallInv, TypeOK, Places
<1>2. Stage' /\ InTheJob'
  BY DEF Unconfirmed, CallInv, TypeOK, Stage, InTheJob, Ending, InFlight, In
<1>3. Believed'
  BY DEF Unconfirmed, CallInv, TypeOK, Believed, Ending, Quiet, Executing,
         InFlight, In
<1>4. Clock'
  BY ChildAssumption
     DEF Unconfirmed, CallInv, TypeOK, Clock, AnswersInTime, Ending
<1> QED
  BY <1>1, <1>2, <1>3, <1>4 DEF CallInv

\* A scan: what it counts, and that a second one is not misled.
LEMMA ScanCounts ==
  ASSUME CallInv, Scan
  PROVE  /\ pc \in Ending /\ scans \in 0..1 /\ ~finished
         /\ races' \in 0..Races /\ scans' \in 0..2
         /\ ~Enough => scans' \in 0..1
         /\ scans' >= 1 /\ races' = 0 => windows \/ Quiet
         /\ Enough => Quiet
<1>1. pc \in Ending /\ scans \in 0..1 /\ races \in 0..Races /\ ~finished
  BY DEF Scan, CallInv, TypeOK, Stage, Believed, Ending
<1>2. races' \in 0..Races /\ scans' \in 0..2
  BY <1>1, ChildAssumption DEF Scan, EmptyScans
<1>3. ~Enough => scans' \in 0..1
  BY <1>1 DEF Scan, EmptyScans, Enough
<1>4. scans' >= 1 /\ races' = 0 => windows \/ Quiet
  BY <1>1 DEF Scan, EmptyScans, Misled, Quiet
<1>5. Enough => Quiet
  <2>1. CASE windows
    BY <2>1 DEF Enough, Quiet, CallInv, InTheJob
  <2>2. CASE ~windows
    <3> SUFFICES ASSUME Enough PROVE Quiet
      OBVIOUS
    <3>1. Executing = {} /\ scans = 1
      BY <1>1, <2>2 DEF Enough, EmptyScans
    <3>2. CASE races = 0
      BY <2>2, <3>1, <3>2 DEF CallInv, Believed
    <3>3. CASE races # 0
      BY <1>1, <2>2, <3>1, <3>3, ChildAssumption DEF Scan, Misled, Quiet
    <3> QED
      BY <3>2, <3>3
  <2> QED
    BY <2>1, <2>2
<1> QED
  BY <1>1, <1>2, <1>3, <1>4, <1>5

\* Confirming the end of what was started.
LEMMA FinishPreserves ==
  ASSUME CallInv,
         Kill \/ KillFails \/ Confirm \/ ScanLate \/ ScanAgain \/ QueryFails
           \/ Wake
  PROVE  CallInv'
<1> USE ChildAssumption
<1>1. CASE Kill
  <2>1. proc' \in [Procs -> States] /\ (InFlight = {} => InFlight' = {})
           /\ (Quiet => Quiet')
    BY <1>1, StaysQuiet, KilledTyped DEF Kill, CallInv, TypeOK
  <2> QED
    BY <1>1, <2>1 DEF Kill, Goto, CallInv, TypeOK, Stage, InTheJob, Believed,
              Clock, AnswersInTime, Ending, Places
<1>2. CASE KillFails
  BY <1>2, UnconfirmedPreserves
     DEF KillFails, CallInv, TypeOK, Stage, Believed, Ending
<1>3. CASE Confirm
  <2>1. Quiet /\ races' \in 0..Races /\ scans' \in 0..2 /\ pc = "scan"
    BY <1>3, ScanCounts DEF Confirm, Scan
  <2>2. Quiet' /\ InTheJob'
    BY <1>3, <2>1
       DEF Confirm, CallInv, InTheJob, Quiet, Executing, InFlight, In
  <2>3. TypeOK' /\ Stage'
    BY <1>3, <2>1 DEF Confirm, CallInv, TypeOK, Stage, Ending, Places
  <2>4. Believed'
    BY <1>3, <2>1, <2>2 DEF Confirm, CallInv, Believed
  <2>5. Clock'
    BY <1>3, <2>1
       DEF Confirm, CallInv, TypeOK, Clock, AnswersInTime, Ending
  <2> QED
    BY <2>2, <2>3, <2>4, <2>5 DEF CallInv
<1>4. CASE ScanLate
  BY <1>4, ScanCounts, UnconfirmedPreserves DEF ScanLate
<1>5. CASE ScanAgain
  <2>1. /\ races' \in 0..Races /\ scans' \in 0..1 /\ pc = "scan"
        /\ scans' >= 1 /\ races' = 0 => windows \/ Quiet
    BY <1>5, ScanCounts DEF ScanAgain, Scan
  <2>2. UNCHANGED <<windows, proc, over, reply, dropping, finished, waited,
                    elapsed>> /\ pc' = "nap" /\ waited < Grace
    BY <1>5 DEF ScanAgain
  <2> QED
    BY <2>1, <2>2 DEF CallInv, TypeOK, Stage, InTheJob, Believed, Clock,
           AnswersInTime, Ending, Places, Quiet, Executing, InFlight, In
<1>6. CASE QueryFails
  BY <1>6, UnconfirmedPreserves
     DEF QueryFails, CallInv, TypeOK, Stage, Believed, Ending
<1>7. CASE Wake
  BY <1>7 DEF Wake, Sleep, Goto, CallInv, TypeOK, Stage, InTheJob, Believed,
              Clock, AnswersInTime, Ending, Places, Quiet, Executing, InFlight, In
<1> QED
  BY <1>1, <1>2, <1>3, <1>4, <1>5, <1>6, <1>7

\* Answering.
LEMMA AnswerPreserves ==
  ASSUME CallInv, Read \/ DropTree \/ CloseJob
  PROVE  CallInv'
<1> USE ChildAssumption
<1>1. CASE Read
  BY <1>1 DEF Read, Goto, CallInv, TypeOK, Stage, InTheJob, Believed, Clock,
              AnswersInTime, Ending, Places, Quiet, Executing, InFlight, In
<1>2. CASE DropTree
  BY <1>2 DEF DropTree, Goto, CallInv, TypeOK, Stage, InTheJob, Believed, Clock,
              AnswersInTime, Ending, Places, Quiet, Executing, InFlight, In
<1>3. CASE CloseJob
  <2>1. proc' \in [Procs -> States] /\ (InFlight = {} => InFlight' = {})
           /\ (Quiet => Quiet')
    BY <1>3, StaysQuiet, KilledTyped DEF CloseJob, CallInv, TypeOK
  <2> QED
    BY <1>3, <2>1 DEF CloseJob, Goto, CallInv, TypeOK, Stage, InTheJob,
              Believed, Clock, AnswersInTime, Ending, Places
<1> QED
  BY <1>1, <1>2, <1>3

LEMMA StepPreserves == CallInv /\ [Next]_vars => CallInv'
<1> SUFFICES ASSUME CallInv, [Next]_vars PROVE CallInv'
  OBVIOUS
<1>1. CASE UNCHANGED vars
  BY <1>1 DEF vars, CallInv, TypeOK, Stage, InTheJob, Believed, Clock,
              AnswersInTime, Quiet, Executing, InFlight, In
<1>2. CASE Command
  BY <1>2, CommandPreserves
<1> QED
  BY <1>1, <1>2, StartPreserves, PollPreserves, ReapPreserves, FinishPreserves,
     AnswerPreserves DEF Next, Caller, Answered

LEMMA CallHolds == Spec => []CallInv
BY InitCall, StepPreserves, PTL DEF Spec

-----------------------------------------------------------------------------
\* Every value keeps its type: a wait for a killed process, and one for the
\* rest of the group, never lasts longer than its two seconds.
THEOREM Typed == Spec => []TypeOK
<1>1. CallInv => TypeOK
  BY DEF CallInv
<1> QED
  BY <1>1, CallHolds, PTL

\* A call is answered within its timeout and twice two seconds, whatever the
\* processes it has started do.
THEOREM InTime == Spec => []AnswersInTime
<1>1. CallInv => AnswersInTime
  BY DEF CallInv, Clock
<1> QED
  BY <1>1, CallHolds, PTL
-----------------------------------------------------------------------------
(* ChildProcess implements the safety part of BoundedCall.                 *)

LEMMA InitPromised == Init => Promised!Init
BY DEF Init, Promised!Init, Quiet, Executing, InFlight, In

\* The steps of the command change what is alive, and after the answer can
\* only end it.
LEMMA CommandPromised ==
  CallInv /\ Command => [Promised!Next]_(Promised!vars)
<1> SUFFICES ASSUME CallInv, Command PROVE [Promised!Next]_(Promised!vars)
  OBVIOUS
<1>0. UNCHANGED <<pc, reply, finished>>
  BY DEF Command, Fork, Land, End, Emit, Becomes
<1>1. Quiet => Quiet'
  BY DEF Command, Fork, Land, End, Emit, Becomes, CallInv, TypeOK,
         Quiet, Executing, InFlight, In, States
<1>2. pc = "idle" => Quiet' = Quiet
  BY DEF Command, Fork, Land, End, Emit, Becomes, CallInv, Stage
<1> QED
  BY <1>0, <1>1, <1>2
     DEF Promised!Next, Promised!Work, Promised!Linger, Promised!vars

LEMMA CallerPromised ==
  ASSUME CallInv, Spawn \/ SpawnFails \/ Caller
  PROVE  [Promised!Next]_(Promised!vars)
<1>1. CASE Spawn
  BY <1>1, InitPromised
     DEF Spawn, Goto, CallInv, TypeOK, Stage, Believed, Promised!Next,
         Promised!Call
<1>2. CASE SpawnFails
  <2>1. Quiet' = Quiet /\ ~finished
    BY <1>2 DEF SpawnFails, Goto, CallInv, Believed, Quiet, Executing, InFlight,
                In
  <2> QED
    BY <1>2, <2>1
       DEF SpawnFails, Goto, CallInv, TypeOK, Stage, Promised!Next,
           Promised!Refuse
<1>3. CASE Caller /\ pc' # "answered"
  <2>1. pc \notin {"idle", "answered"} /\ pc' \notin {"idle", "answered"}
    BY <1>3
       DEF Caller, Attach, AttachFails, Collect, TooLarge, Late, GiveUp,
           PollAgain, Terminate, TerminateFails, Reap, ReapAgain, ReapLate,
           Kill, KillFails, Unconfirmed, Confirm, Scan, ScanLate, ScanAgain,
           QueryFails, Wake, Read, DropTree, CloseJob, Goto
  <2> QED
    BY <2>1 DEF Promised!Next, Promised!Work, CallInv, TypeOK
<1>4. CASE Caller /\ pc' = "answered"
  <2>1. CallInv'
    BY <1>4, StartPreserves, PollPreserves, ReapPreserves, FinishPreserves,
       AnswerPreserves DEF Caller
  <2>2. pc \notin {"idle", "answered"}
    BY <1>4
       DEF Caller, Attach, AttachFails, Collect, TooLarge, Late, GiveUp,
           PollAgain, Terminate, TerminateFails, Reap, ReapAgain, ReapLate,
           Kill, KillFails, Unconfirmed, Confirm, Scan, ScanLate, ScanAgain,
           QueryFails, Wake, Read, DropTree, CloseJob, Goto
  <2>3. reply' # "none"
    BY <1>4
       DEF CallInv, Stage, TypeOK, Caller, Attach, AttachFails, Collect,
           TooLarge, Late, GiveUp, PollAgain, Terminate, TerminateFails, Reap,
           ReapAgain, ReapLate, Kill, KillFails, Unconfirmed, Confirm, Scan,
           ScanLate, ScanAgain, QueryFails, Wake, Read, DropTree, CloseJob,
           Goto
  <2>4. Quiet' = Quiet
    <3>1. CASE CloseJob
      BY <3>1 DEF CloseJob, Killed, CallInv, TypeOK, Quiet, Executing,
                  InFlight, In, States
    <3>2. CASE UNCHANGED proc
      BY <3>2 DEF Quiet, Executing, InFlight, In
    <3> QED
      BY <1>4, <3>1, <3>2
         DEF Caller, Attach, AttachFails, Collect, TooLarge, Late, GiveUp,
             PollAgain, Terminate, TerminateFails, Reap, ReapAgain, ReapLate,
             Kill, KillFails, Unconfirmed, Confirm, ScanLate, ScanAgain,
             QueryFails, Wake, Read, DropTree, Goto
  <2>5. Promised!Answer
    BY <1>4, <2>1, <2>2, <2>3, <2>4
       DEF CallInv, Believed, TypeOK, Promised!Answer, Promised!Replies
  <2> QED
    BY <2>5 DEF Promised!Next
<1> QED
  BY <1>1, <1>2, <1>3, <1>4

LEMMA StepPromised == CallInv /\ [Next]_vars => [Promised!Next]_(Promised!vars)
<1> SUFFICES ASSUME CallInv, [Next]_vars
             PROVE  [Promised!Next]_(Promised!vars)
  OBVIOUS
<1>1. CASE UNCHANGED vars
  BY <1>1 DEF vars, Promised!vars, Quiet, Executing, InFlight, In
<1> QED
  BY <1>1, CommandPromised, CallerPromised DEF Next, Answered

\* Every step of a call is a step of BoundedCall: an answer "ok", and any
\* answer given after the end was confirmed, leaves nothing executing.
THEOREM NothingLeft == Spec => Promised!Safety
BY InitPromised, StepPromised, CallHolds, PTL DEF Spec, Promised!Safety
=============================================================================
