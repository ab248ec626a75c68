--------------------------- MODULE DaemonControl ---------------------------
(***************************************************************************)
(* Starting and stopping the manager: `start`, which the host runs and     *)
(* which becomes the server, `start --daemon`, which leaves one behind,    *)
(* and `stop`.  They share a port, the file with the management token and  *)
(* the file with the number of the server's process.  A server may die at  *)
(* any point; commands may overlap, or not (serial).                       *)
(*                                                                         *)
(* All commands use the same home directory and the same port, and no      *)
(* process number is used twice.  A token file that is missing, and one    *)
(* that is too short to be used, are both No token.                        *)
(***************************************************************************)
EXTENDS Naturals, FiniteSets

CONSTANTS
  Servers,    \* the numbers of the processes that may become servers
  Commands,   \* command line calls
  No,         \* no process, no token
  Old         \* a token of an earlier server

ASSUME DaemonAssumption == No \notin Servers /\ Old \notin Servers /\ No # Old

VARIABLES
  serial,     \* the commands do not overlap
  server,     \* how far each server has come
  port,       \* the process that listens
  tokenFile,  \* connector-token
  tok,        \* the token each server asks for
  pidFile,    \* connector.pid
  cmd,        \* the commands
  asked,      \* servers that have been asked to end
  steady      \* for each command, who has served ever since it began

vars == <<serial, server, port, tokenFile, tok, pidFile, cmd, asked, steady>>

Tokens == Servers \union {Old}
Kinds == {"start", "daemon", "stop"}

\* A server's place in start_server, and a command's in run and daemonize.
Stages == {"none", "bind", "load", "rename", "check", "record", "serving",
           "ended"}
Bound == {"load", "rename", "check", "record", "serving"}
Places == {"idle", "connect", "authorize", "reply", "spawn", "wait", "record",
           "existing", "terminate", "remove", "answered"}

Command ==
  [kind : Kinds \union {"none"}, pc : Places, pid : Servers \union {No},
   token : Tokens \union {No},
   answer : {"none", "ok", "absent", "error"}]

Fresh == [kind |-> "none", pc |-> "idle", pid |-> No, token |-> No,
          answer |-> "none"]

Init ==
  /\ serial \in BOOLEAN
  /\ server = [p \in Servers |-> "none"]
  /\ port = No
  /\ tokenFile \in {No, Old}
  /\ tok = [p \in Servers |-> No]
  /\ pidFile = No
  /\ cmd = [c \in Commands |-> Fresh]
  /\ asked = {}
  /\ steady = [c \in Commands |-> {}]

Alive(p) == server[p] \notin {"none", "ended"}
Serving == {p \in Servers : server[p] = "serving"}
Busy(c) == cmd[c].pc \notin {"idle", "answered"}

-----------------------------------------------------------------------------
(* A server: start_server.                                                 *)

Reach(p, stage) == server' = [server EXCEPT ![p] = stage]

\* Bug: a port in use is shared.
BindShared(p) ==
  /\ server[p] = "bind"
  /\ Reach(p, "load")
  /\ port' = p
  /\ UNCHANGED <<serial, tokenFile, tok, pidFile, cmd, asked, steady>>

Bind(p) ==
  /\ server[p] = "bind"
  /\ port = No
  /\ Reach(p, "load")
  /\ port' = p
  /\ UNCHANGED <<serial, tokenFile, tok, pidFile, cmd, asked, steady>>

\* Bug: the number is recorded before the port is taken.
BindRefusedLate(p) ==
  /\ server[p] = "bind"
  /\ port # No
  /\ Reach(p, "ended")
  /\ pidFile' = p
  /\ UNCHANGED <<serial, port, tokenFile, tok, cmd, asked, steady>>

BindRefused(p) ==
  /\ server[p] = "bind"
  /\ port # No
  /\ Reach(p, "ended")
  /\ UNCHANGED <<serial, port, tokenFile, tok, pidFile, cmd, asked, steady>>

\* Bug: what the file holds is not looked at.
LoadTokenUnread(p) ==
  /\ server[p] = "load"
  /\ tok' = [tok EXCEPT ![p] = tokenFile]
  /\ Reach(p, "record")
  /\ UNCHANGED <<serial, port, tokenFile, pidFile, cmd, asked, steady>>

LoadToken(p) ==
  /\ server[p] = "load"
  /\ tokenFile # No
  /\ tok' = [tok EXCEPT ![p] = tokenFile]
  /\ Reach(p, "record")
  /\ UNCHANGED <<serial, port, tokenFile, pidFile, cmd, asked, steady>>

\* A new token is written to a file of its own first.
GenerateToken(p) ==
  /\ server[p] = "load"
  /\ tokenFile = No
  /\ Reach(p, "rename")
  /\ UNCHANGED <<serial, port, tokenFile, tok, pidFile, cmd, asked, steady>>

RenameToken(p) ==
  /\ server[p] = "rename"
  /\ tokenFile' = p
  /\ Reach(p, "check")
  /\ UNCHANGED <<serial, port, tok, pidFile, cmd, asked, steady>>

\* What was written is read back; Dies covers the case that it differs.
CheckToken(p) ==
  /\ server[p] = "check"
  /\ tokenFile = p
  /\ tok' = [tok EXCEPT ![p] = p]
  /\ Reach(p, "record")
  /\ UNCHANGED <<serial, port, tokenFile, pidFile, cmd, asked, steady>>

RecordPid(p) ==
  /\ server[p] = "record"
  /\ pidFile' = p
  /\ Reach(p, "serving")
  /\ UNCHANGED <<serial, port, tokenFile, tok, cmd, asked, steady>>

\* It crashes, is ended, or a step of its start fails.
Dies(p) ==
  /\ Alive(p)
  /\ Reach(p, "ended")
  /\ port' = IF port = p THEN No ELSE port
  /\ steady' = [c \in Commands |-> steady[c] \ {p}]
  /\ UNCHANGED <<serial, tokenFile, tok, pidFile, cmd, asked>>

Serve(p) ==
  \/ Bind(p) \/ BindRefused(p)
  \/ LoadToken(p) \/ GenerateToken(p) \/ RenameToken(p) \/ CheckToken(p)
  \/ RecordPid(p) \/ Dies(p)

-----------------------------------------------------------------------------
(* Commands.                                                               *)

World == <<serial, server, port, tokenFile, tok, pidFile, asked>>

Goto(c, from, to) ==
  /\ cmd[c].pc = from
  /\ cmd' = [cmd EXCEPT ![c].pc = to]

Answer(c, from, answer) ==
  /\ cmd[c].pc = from
  /\ cmd' = [cmd EXCEPT ![c].pc = "answered", ![c].answer = answer]

Begin(c, kind, first) ==
  /\ cmd[c].pc = "idle"
  /\ serial => \A d \in Commands : ~Busy(d)
  /\ cmd' = [cmd EXCEPT ![c].pc = first, ![c].kind = kind]
  /\ steady' = [steady EXCEPT ![c] = Serving]
  /\ UNCHANGED World

BeginStart(c) == Begin(c, "start", "spawn")
BeginDaemon(c) == Begin(c, "daemon", "connect")
BeginStop(c) == Begin(c, "stop", "connect")

\* connector_health: connect, read the token, ask /healthz.
Connect(c) ==
  /\ cmd[c].pc = "connect"
  /\ port # No
  /\ cmd' = [cmd EXCEPT ![c].pc = "authorize", ![c].pid = port]
  /\ UNCHANGED <<World, steady>>

NotFound(c) ==
  /\ IF cmd[c].kind = "stop" THEN Answer(c, cmd[c].pc, "absent")
     ELSE Goto(c, cmd[c].pc, "spawn")
  /\ UNCHANGED <<World, steady>>

ConnectRefused(c) == cmd[c].pc = "connect" /\ port = No /\ NotFound(c)

Authorize(c) ==
  /\ cmd[c].pc = "authorize"
  /\ cmd' = [cmd EXCEPT ![c].pc = "reply", ![c].token = tokenFile]
  /\ UNCHANGED <<World, steady>>

Replies(c) ==
  /\ server[cmd[c].pid] = "serving"
  /\ cmd[c].token = tok[cmd[c].pid]

Healthy(c) ==
  /\ Goto(c, "reply", IF cmd[c].kind = "stop" THEN "terminate" ELSE "existing")
  /\ Replies(c)
  /\ UNCHANGED <<World, steady>>

\* It has ended, is still starting when the time is over, or wants another token.
Unhealthy(c) == cmd[c].pc = "reply" /\ ~Replies(c) /\ NotFound(c)

\* Another process becomes the server.
Spawn(c) ==
  /\ cmd[c].pc = "spawn"
  /\ \E p \in Servers :
       /\ server[p] = "none"
       /\ Reach(p, "bind")
       /\ cmd' = [cmd EXCEPT ![c].pc = "wait", ![c].pid = p]
  /\ UNCHANGED <<serial, port, tokenFile, tok, pidFile, asked, steady>>

SpawnFails(c) == Answer(c, "spawn", "error") /\ UNCHANGED <<World, steady>>

\* `start` is over when its process serves or has given up.
Settled(c) ==
  /\ cmd[c].kind = "start" /\ cmd[c].pc = "wait"
  /\ server[cmd[c].pid] \in {"serving", "ended"}
  /\ Answer(c, "wait", IF server[cmd[c].pid] = "serving" THEN "ok" ELSE "error")
  /\ UNCHANGED <<World, steady>>

\* wait_for_connector_health asks until the child answers.
ChildHealthy(c) ==
  /\ cmd[c].kind = "daemon"
  /\ Goto(c, "wait", "record")
  /\ port = cmd[c].pid
  /\ server[port] = "serving" /\ tokenFile = tok[port]
  /\ UNCHANGED <<World, steady>>

\* It asks for five seconds, and leaves the child alone.  Assumption: a child
\* takes less than that to reach for the port.
GiveUp(c) ==
  /\ cmd[c].kind = "daemon" /\ cmd[c].pc = "wait"
  /\ server[cmd[c].pid] # "bind"
  /\ Answer(c, "wait", "error")
  /\ UNCHANGED <<World, steady>>

\* The number of the server found, or of the child, is recorded.
RecordFound(c) ==
  /\ \E from \in {"existing", "record"} : Answer(c, from, "ok")
  /\ pidFile' = cmd[c].pid
  /\ UNCHANGED <<serial, server, port, tokenFile, tok, asked, steady>>

RecordFails(c) ==
  /\ \E from \in {"existing", "record"} : Answer(c, from, "error")
  /\ UNCHANGED <<World, steady>>

\* terminate_process does not wait for the end of the server.
Terminate(c) ==
  /\ Goto(c, "terminate", "remove")
  /\ Alive(cmd[c].pid)
  /\ asked' = asked \union {cmd[c].pid}
  /\ UNCHANGED <<serial, server, port, tokenFile, tok, pidFile, steady>>

TerminateFails(c) ==
  /\ Answer(c, "terminate", "error")
  /\ ~Alive(cmd[c].pid)
  /\ UNCHANGED <<World, steady>>

RemovePid(c) ==
  /\ Answer(c, "remove", "ok")
  /\ pidFile' = No
  /\ UNCHANGED <<serial, server, port, tokenFile, tok, asked, steady>>

Run(c) ==
  \/ BeginStart(c) \/ BeginDaemon(c) \/ BeginStop(c)
  \/ Connect(c) \/ ConnectRefused(c) \/ Authorize(c) \/ Healthy(c) \/ Unhealthy(c)
  \/ Spawn(c) \/ SpawnFails(c) \/ Settled(c)
  \/ ChildHealthy(c) \/ GiveUp(c) \/ RecordFound(c) \/ RecordFails(c)
  \/ Terminate(c) \/ TerminateFails(c) \/ RemovePid(c)

Next ==
  \/ \E p \in Servers : Serve(p)
  \/ \E c \in Commands : Run(c)

Spec == Init /\ [][Next]_vars

-----------------------------------------------------------------------------
(* Properties.                                                             *)

TypeOK ==
  /\ serial \in BOOLEAN
  /\ server \in [Servers -> Stages]
  /\ port \in Servers \union {No}
  /\ tokenFile \in Tokens \union {No}
  /\ tok \in [Servers -> Tokens \union {No}]
  /\ \A p \in Serving : tok[p] \in Tokens
  /\ pidFile \in Servers \union {No}
  /\ cmd \in [Commands -> Command]
  /\ asked \subseteq Servers
  /\ steady \in [Commands -> SUBSET Servers]

\* stop answers "healthy connector process not found" only if no server has
\* served all the time it was looking (cli.rs:36): a start that fails, or a
\* token that is written, never hides the one that serves.
StopFindsServer ==
  \A c \in Commands : cmd[c].answer = "absent" => steady[c] = {}

\* When commands do not overlap and all have been answered, a server that serves
\* and has not been asked to end is the one the pid file names, whatever starts
\* have failed or been given up (process_runtime.rs:49, main.rs:228).
PidFileNamesServer ==
  serial /\ (\A c \in Commands : ~Busy(c)) =>
    \A p \in Serving \ asked : pidFile = p
=============================================================================
