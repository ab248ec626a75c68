----------------------- MODULE DaemonControl_proofs -----------------------
(***************************************************************************)
(* Theorems of DaemonControl, for any number of servers and commands: its  *)
(* types, that stop finds the server that serves, and that the pid file    *)
(* names it when commands do not overlap.                                  *)
(***************************************************************************)
EXTENDS DaemonControl, TLAPS

\* The port is the lock: its owner is the one server past Bind.
Owned == \A p \in Servers : server[p] \in Bound <=> port = p

\* A server that has its token finds it in the file.
TokenAgrees ==
  \A p \in Servers : server[p] \in {"record", "serving"} =>
    tok[p] = tokenFile /\ tokenFile \in Tokens

Asking == {"authorize", "reply"}
Acting == {"existing", "record", "terminate", "remove"}

\* A command that asks talks to the server that has served all the while, and
\* has read the token of that server.
Looking ==
  \A c \in Commands :
    /\ cmd[c].pc \in Asking \union Acting \union {"wait"} => cmd[c].pid \in Servers
    /\ cmd[c].pc # "answered" => cmd[c].answer = "none"
    /\ steady[c] \subseteq Serving
    /\ cmd[c].pc \in Asking => steady[c] \subseteq {cmd[c].pid}
    /\ cmd[c].pc = "reply" /\ steady[c] # {} => cmd[c].token = tokenFile

ServerInv == TypeOK /\ Owned /\ TokenAgrees /\ Looking /\ StopFindsServer

\* Commands that do not overlap: one is busy, a process that has not reached for
\* the port is its child, and no other server listens than the one it acts on.
Alone ==
  serial =>
    /\ \A c, d \in Commands : Busy(c) /\ Busy(d) => c = d
    /\ \A p \in Servers : server[p] = "bind" =>
         \E c \in Commands : cmd[c].pc = "wait" /\ cmd[c].pid = p
    /\ \A c \in Commands : cmd[c].pc \in Acting => port \in {No, cmd[c].pid}
    /\ \A c \in Commands : cmd[c].pc = "remove" => cmd[c].pid \in asked

Named == serial => \A p \in Serving \ asked : pidFile = p

DaemonInv == ServerInv /\ Alone /\ Named

-----------------------------------------------------------------------------
LEMMA InitDaemon == Init => DaemonInv
<1> SUFFICES ASSUME Init PROVE DaemonInv
  OBVIOUS
<1> USE DaemonAssumption DEF Init
<1>1. Fresh \in Command /\ Fresh.pc = "idle" /\ Fresh.answer = "none"
  BY DEF Fresh, Command, Kinds, Places
<1>2. Serving = {}
  BY DEF Serving
<1>3. TypeOK
  BY <1>1, <1>2 DEF TypeOK, Stages, Tokens
<1>4. Owned /\ TokenAgrees
  BY DEF Owned, TokenAgrees, Bound
<1>5. Looking /\ StopFindsServer
  BY <1>1, <1>2 DEF Looking, StopFindsServer, Asking, Acting
<1>6. Alone /\ Named
  BY <1>1, <1>2 DEF Alone, Named, Busy, Acting
<1> QED
  BY <1>3, <1>4, <1>5, <1>6 DEF DaemonInv, ServerInv

-----------------------------------------------------------------------------
(* Servers.                                                                *)

\* What a server's step must show when the port, or the token file, or its own
\* token may change.
LEMMA ServerPreserves ==
  ASSUME ServerInv, NEW p \in Servers, Serve(p)
  PROVE  ServerInv'
<1> USE DaemonAssumption
<1>1. TypeOK'
  BY DEF ServerInv, TypeOK, Owned, TokenAgrees, Serve, Bind, BindRefused,
         LoadToken, GenerateToken, RenameToken, CheckToken, RecordPid, Dies,
         Reach, Alive, Stages, Bound, Tokens, Serving
<1>2. Owned'
  BY DEF ServerInv, TypeOK, Owned, Serve, Bind, BindRefused,
         LoadToken, GenerateToken, RenameToken, CheckToken, RecordPid, Dies,
         Reach, Alive, Stages, Bound
<1>3. TokenAgrees'
  BY DEF ServerInv, TypeOK, Owned, TokenAgrees, Serve, Bind, BindRefused,
         LoadToken, GenerateToken, RenameToken, CheckToken, RecordPid, Dies,
         Reach, Alive, Stages, Bound, Tokens
<1>4. cmd' = cmd
  BY DEF Serve, Bind, BindRefused, LoadToken, GenerateToken, RenameToken,
         CheckToken, RecordPid, Dies
<1>5. \A c \in Commands : steady'[c] \subseteq steady[c] /\ steady'[c] \subseteq Serving'
  <2>1. CASE Dies(p)
    BY <2>1 DEF Dies, Reach, ServerInv, TypeOK, Looking, Serving
  <2>2. CASE ~Dies(p)
    BY <2>2 DEF ServerInv, TypeOK, Looking, Serve, Bind, BindRefused,
         LoadToken, GenerateToken, RenameToken, CheckToken, RecordPid,
         Reach, Serving
  <2> QED
    BY <2>1, <2>2
<1>6. \A c \in Commands : steady'[c] # {} => tokenFile' = tokenFile
  <2> SUFFICES ASSUME tokenFile' # tokenFile,
                      NEW c \in Commands, NEW q \in steady'[c]
               PROVE  FALSE
    OBVIOUS
  <2>1. RenameToken(p)
    BY DEF Serve, Bind, BindRefused, LoadToken, GenerateToken, CheckToken,
           RecordPid, Dies
  <2>2. q \in Servers /\ server[q] = "serving"
    BY <1>5 DEF ServerInv, Looking, Serving
  <2> QED
    BY <2>1, <2>2 DEF RenameToken, ServerInv, Owned, Bound
<1>7. Looking'
  BY <1>4, <1>5, <1>6 DEF ServerInv, Looking
<1>8. StopFindsServer'
  BY <1>4, <1>5 DEF ServerInv, StopFindsServer
<1> QED
  BY <1>1, <1>2, <1>3, <1>7, <1>8 DEF ServerInv

LEMMA ServerAlone ==
  ASSUME DaemonInv, NEW p \in Servers, Serve(p)
  PROVE  Alone' /\ Named'
<1> USE DaemonAssumption DEF DaemonInv
<1>1. serial' = serial /\ cmd' = cmd /\ asked' = asked
  BY DEF Serve, Bind, BindRefused, LoadToken, GenerateToken, RenameToken,
         CheckToken, RecordPid, Dies
<1>2. \A q \in Servers : server'[q] = "bind" => server[q] = "bind"
  BY DEF Serve, Bind, BindRefused, LoadToken, GenerateToken, RenameToken,
         CheckToken, RecordPid, Dies, Reach, ServerInv, TypeOK
<1>3. port' \in {port, No} \/ Bind(p)
  BY DEF Serve, BindRefused, LoadToken, GenerateToken, RenameToken,
         CheckToken, RecordPid, Dies
<1>4. Alone'
  <2> SUFFICES ASSUME serial, NEW c \in Commands, cmd[c].pc \in Acting
               PROVE  port' \in {No, cmd[c].pid}
    BY <1>1, <1>2 DEF Alone, Busy
  <2>1. CASE Bind(p)
    <3>1. PICK d \in Commands : cmd[d].pc = "wait" /\ cmd[d].pid = p
      BY <2>1 DEF Bind, Alone
    <3>2. d = c
      BY <3>1 DEF Alone, Busy, Acting
    <3> QED
      BY <3>1, <3>2 DEF Acting
  <2> QED
    BY <1>3, <2>1 DEF Alone
<1>5. Named'
  <2>1. CASE RecordPid(p)
    <3>1. \A q \in Serving' : q = p
      BY <2>1 DEF RecordPid, Reach, ServerInv, TypeOK, Owned, Bound, Serving
    <3> QED
      BY <2>1, <3>1 DEF RecordPid, Named
  <2>2. CASE ~RecordPid(p)
    <3>1. pidFile' = pidFile /\ Serving' \subseteq Serving
      BY <2>2 DEF Serve, Bind, BindRefused, LoadToken, GenerateToken,
           RenameToken, CheckToken, Dies, Reach, ServerInv, TypeOK, Serving
    <3> QED
      BY <1>1, <3>1 DEF Named
  <2> QED
    BY <2>1, <2>2
<1> QED
  BY <1>4, <1>5

-----------------------------------------------------------------------------
(* Commands.                                                               *)

\* What a command's step that touches no server and no file must show.
LEMMA Steps ==
  ASSUME ServerInv, NEW c \in Commands, NEW r \in Command,
         UNCHANGED <<serial, server, port, tokenFile, tok>>,
         pidFile' \in Servers \union {No}, asked' \subseteq Servers,
         cmd' = [cmd EXCEPT ![c] = r],
         NEW S \in SUBSET Serving, steady' = [steady EXCEPT ![c] = S],
         r.pc \in Asking \union Acting \union {"wait"} => r.pid \in Servers,
         r.pc \in Asking => S \subseteq {r.pid},
         r.pc = "reply" /\ S # {} => r.token = tokenFile,
         r.pc # "answered" => r.answer = "none",
         r.answer = "absent" => S = {}
  PROVE  ServerInv'
<1>1. cmd'[c] = r /\ \A d \in Commands \ {c} : cmd'[d] = cmd[d]
  BY DEF ServerInv, TypeOK
<1>2. steady'[c] = S /\ \A d \in Commands \ {c} : steady'[d] = steady[d]
  BY DEF ServerInv, TypeOK
<1>3. Serving' = Serving /\ Serving \subseteq Servers
  BY DEF Serving
<1>4. TypeOK'
  BY <1>3 DEF ServerInv, TypeOK
<1>5. Owned' /\ TokenAgrees'
  BY DEF ServerInv, Owned, TokenAgrees
<1>6. Looking' /\ StopFindsServer'
  BY <1>1, <1>2, <1>3 DEF ServerInv, Looking, StopFindsServer
<1> QED
  BY <1>4, <1>5, <1>6 DEF ServerInv

LEMMA CommandTyped ==
  ASSUME ServerInv, NEW c \in Commands
  PROVE  /\ cmd[c] \in Command
         /\ steady[c] \in SUBSET Serving
         /\ steady = [steady EXCEPT ![c] = steady[c]]
         /\ pidFile \in Servers \union {No} /\ asked \subseteq Servers
         /\ port \in Servers \union {No} /\ tokenFile \in Tokens \union {No}
         /\ cmd[c].pc \in Asking \union Acting \union {"wait"} =>
              cmd[c].pid \in Servers
         /\ cmd[c].pc # "answered" => cmd[c].answer = "none"
BY DEF ServerInv, TypeOK, Looking

\* The place it goes to, and the answer it gives.
LEMMA GoesTo ==
  ASSUME ServerInv, NEW c \in Commands, NEW from \in Places \ {"idle", "answered"},
         NEW to \in Places \ Asking, Goto(c, from, to),
         to \in Acting \union {"wait"} => cmd[c].pid \in Servers,
         UNCHANGED <<serial, server, port, tokenFile, tok, steady>>,
         pidFile' \in Servers \union {No}, asked' \subseteq Servers
  PROVE  ServerInv'
<1> DEFINE r == [cmd[c] EXCEPT !.pc = to]
<1>1. /\ r \in Command /\ r.pc = to /\ r.pid = cmd[c].pid
      /\ r.answer = "none" /\ cmd' = [cmd EXCEPT ![c] = r]
  BY CommandTyped DEF Goto, Command
<1> HIDE DEF r
<1> QED
  BY <1>1, CommandTyped, Steps DEF Asking

LEMMA Answers ==
  ASSUME ServerInv, NEW c \in Commands,
         NEW from \in Places, NEW answer \in {"ok", "absent", "error"},
         Answer(c, from, answer),
         answer = "absent" => steady[c] = {},
         UNCHANGED <<serial, server, port, tokenFile, tok, steady>>,
         pidFile' \in Servers \union {No}, asked' \subseteq Servers
  PROVE  ServerInv'
<1> DEFINE r == [cmd[c] EXCEPT !.pc = "answered", !.answer = answer]
<1>1. /\ r \in Command /\ r.pc = "answered"
      /\ r.answer = answer /\ cmd' = [cmd EXCEPT ![c] = r]
  BY CommandTyped DEF Answer, Command, Places
<1> HIDE DEF r
<1> QED
  BY <1>1, CommandTyped, Steps DEF Asking, Acting

LEMMA BeginPreserves ==
  ASSUME ServerInv, NEW c \in Commands, NEW kind \in Kinds,
         NEW first \in {"spawn", "connect"}, Begin(c, kind, first)
  PROVE  ServerInv'
<1> DEFINE r == [cmd[c] EXCEPT !.pc = first, !.kind = kind]
<1>1. /\ r \in Command /\ r.pc = first /\ r.answer = "none"
      /\ cmd' = [cmd EXCEPT ![c] = r]
  BY CommandTyped DEF Begin, Command, Places
<1>2. UNCHANGED World /\ steady' = [steady EXCEPT ![c] = Serving]
  BY DEF Begin
<1> HIDE DEF r
<1> QED
  BY <1>1, <1>2, CommandTyped, Steps DEF World, Asking, Acting

\* Whom connect reaches is the one that serves, and what is read is its token.
LEMMA AskPreserves ==
  ASSUME ServerInv, NEW c \in Commands, Connect(c) \/ Authorize(c)
  PROVE  ServerInv'
<1>1. CASE Connect(c)
  <2> DEFINE r == [cmd[c] EXCEPT !.pc = "authorize", !.pid = port]
  <2>1. /\ r \in Command /\ r.pc = "authorize" /\ r.answer = "none"
        /\ r.pid = port /\ cmd' = [cmd EXCEPT ![c] = r]
    BY <1>1, CommandTyped DEF Connect, Command, Places
  <2>2. steady[c] \subseteq {port} /\ port \in Servers
    BY <1>1, CommandTyped DEF Connect, ServerInv, Owned, Serving, Bound
  <2>3. UNCHANGED World /\ UNCHANGED steady
    BY <1>1 DEF Connect
  <2> HIDE DEF r
  <2> QED
    BY <2>1, <2>2, <2>3, CommandTyped, Steps DEF World, Asking, Acting
<1>2. CASE Authorize(c)
  <2> DEFINE r == [cmd[c] EXCEPT !.pc = "reply", !.token = tokenFile]
  <2>1. /\ r \in Command /\ r.pc = "reply" /\ r.answer = "none"
        /\ r.pid = cmd[c].pid /\ r.token = tokenFile
        /\ cmd' = [cmd EXCEPT ![c] = r]
    BY <1>2, CommandTyped DEF Authorize, Command, Places
  <2>2. steady[c] \subseteq {cmd[c].pid} /\ cmd[c].pid \in Servers
    BY <1>2 DEF Authorize, ServerInv, Looking, Asking
  <2>3. UNCHANGED World /\ UNCHANGED steady
    BY <1>2 DEF Authorize
  <2> HIDE DEF r
  <2> QED
    BY <2>1, <2>2, <2>3, CommandTyped, Steps DEF World, Asking, Acting
<1> QED
  BY <1>1, <1>2

\* A command that finds nobody has not been served by anybody all the while.
LEMMA NotFoundPreserves ==
  ASSUME ServerInv, NEW c \in Commands, ConnectRefused(c) \/ Unhealthy(c)
  PROVE  ServerInv'
<1>1. steady[c] = {}
  <2>1. CASE ConnectRefused(c)
    BY <2>1, CommandTyped, DaemonAssumption
       DEF ConnectRefused, ServerInv, Owned, Bound, Serving
  <2>2. CASE Unhealthy(c)
    <3> SUFFICES ASSUME NEW p \in steady[c] PROVE FALSE
      OBVIOUS
    <3>1. /\ p = cmd[c].pid /\ p \in Servers /\ server[p] = "serving"
          /\ cmd[c].token = tokenFile
      BY <2>2, CommandTyped DEF Unhealthy, ServerInv, Looking, Asking, Serving
    <3>2. tok[p] = tokenFile
      BY <3>1 DEF ServerInv, TokenAgrees
    <3> QED
      BY <2>2, <3>1, <3>2 DEF Unhealthy, Replies
  <2> QED
    BY <2>1, <2>2
<1>2. /\ NotFound(c) /\ UNCHANGED World /\ UNCHANGED steady
      /\ cmd[c].pc \in {"connect", "reply"}
  BY DEF ConnectRefused, Unhealthy, NotFound
<1>3. CASE cmd[c].kind = "stop"
  BY <1>1, <1>2, <1>3, CommandTyped, Answers DEF NotFound, World, Places
<1>4. CASE cmd[c].kind # "stop"
  BY <1>1, <1>2, <1>4, CommandTyped, GoesTo
     DEF NotFound, World, Places, Acting, Asking
<1> QED
  BY <1>3, <1>4

\* The child a command starts has nothing of a server yet.
LEMMA SpawnPreserves ==
  ASSUME ServerInv, NEW c \in Commands, Spawn(c)
  PROVE  ServerInv'
<1>1. PICK p \in Servers : /\ server[p] = "none" /\ Reach(p, "bind")
                            /\ cmd' = [cmd EXCEPT ![c].pc = "wait", ![c].pid = p]
  BY DEF Spawn
<1> DEFINE r == [cmd[c] EXCEPT !.pc = "wait", !.pid = p]
<1>2. /\ r \in Command /\ r.pc = "wait" /\ r.answer = "none" /\ r.pid = p
      /\ cmd' = [cmd EXCEPT ![c] = r]
  BY <1>1, CommandTyped DEF Spawn, Command, Places
<1> HIDE DEF r
<1>3. UNCHANGED <<serial, port, tokenFile, tok, pidFile, asked, steady>>
  BY DEF Spawn
<1>4. server' = [server EXCEPT ![p] = "bind"]
  BY <1>1 DEF Reach
<1>5. Serving' = Serving
  BY <1>1, <1>4 DEF ServerInv, TypeOK, Serving
<1>6. TypeOK'
  BY <1>2, <1>3, <1>4, <1>5 DEF ServerInv, TypeOK, Stages
<1>7. Owned' /\ TokenAgrees'
  BY <1>1, <1>3, <1>4 DEF ServerInv, TypeOK, Owned, TokenAgrees, Bound
<1>8. cmd'[c] = r /\ \A d \in Commands \ {c} : cmd'[d] = cmd[d]
  BY <1>2 DEF ServerInv, TypeOK
<1>9. Looking' /\ StopFindsServer'
  BY <1>2, <1>3, <1>5, <1>8
     DEF ServerInv, Looking, StopFindsServer, Asking, Acting
<1> QED
  BY <1>6, <1>7, <1>9 DEF ServerInv

LEMMA RunPreserves ==
  ASSUME ServerInv, NEW c \in Commands, Run(c)
  PROVE  ServerInv'
<1> USE CommandTyped DEF Places, Asking, Acting
<1>1. CASE BeginStart(c) \/ BeginDaemon(c) \/ BeginStop(c)
  BY <1>1, BeginPreserves DEF BeginStart, BeginDaemon, BeginStop, Kinds
<1>2. CASE Healthy(c)
  <2> DEFINE to == IF cmd[c].kind = "stop" THEN "terminate" ELSE "existing"
  <2>1. Goto(c, "reply", to) /\ to \in {"terminate", "existing"}
    BY <1>2 DEF Healthy
  <2> HIDE DEF to
  <2>2. cmd[c].pid \in Servers /\ UNCHANGED World /\ UNCHANGED steady
    BY <1>2, <2>1 DEF Healthy, Goto
  <2>3. to \in Places \ Asking /\ "reply" \in Places \ {"idle", "answered"}
    BY <2>1
  <2> QED
    BY <2>1, <2>2, <2>3, GoesTo DEF World
<1>3. CASE SpawnFails(c)
  BY <1>3, Answers DEF SpawnFails, World
<1>4. CASE Settled(c)
  BY <1>4, Answers DEF Settled, World
<1>5. CASE ChildHealthy(c)
  BY <1>5, GoesTo DEF ChildHealthy, Goto, World
<1>6. CASE GiveUp(c)
  BY <1>6, Answers DEF GiveUp, World
<1>7. CASE RecordFound(c)
  <2>1. PICK from \in {"existing", "record"} : Answer(c, from, "ok")
    BY <1>7 DEF RecordFound
  <2>2. cmd[c].pid \in Servers
    BY <2>1 DEF Answer
  <2> QED
    BY <1>7, <2>1, <2>2, Answers DEF RecordFound
<1>8. CASE RecordFails(c)
  <2>1. PICK from \in {"existing", "record"} : Answer(c, from, "error")
    BY <1>8 DEF RecordFails
  <2> QED
    BY <1>8, <2>1, Answers DEF RecordFails, World
<1>9. CASE Terminate(c)
  BY <1>9, GoesTo DEF Terminate, Goto
<1>10. CASE TerminateFails(c)
  BY <1>10, Answers DEF TerminateFails, World
<1>11. CASE RemovePid(c)
  BY <1>11, Answers DEF RemovePid
<1> QED
  BY <1>1, <1>2, <1>3, <1>4, <1>5, <1>6, <1>7, <1>8, <1>9, <1>10, <1>11,
     AskPreserves, NotFoundPreserves, SpawnPreserves DEF Run

-----------------------------------------------------------------------------
(* Commands that do not overlap.                                           *)

\* What the step of a busy command must show that touches no server.
LEMMA StaysAlone ==
  ASSUME DaemonInv, NEW c \in Commands, Busy(c),
         UNCHANGED <<serial, server, port>>,
         \A d \in Commands \ {c} : cmd'[d] = cmd[d],
         \A p \in Servers : cmd[c].pc = "wait" /\ server[p] = "bind" =>
           cmd[c].pid # p,
         serial /\ cmd'[c].pc \in Acting => port \in {No, cmd'[c].pid},
         serial /\ cmd'[c].pc = "remove" => cmd'[c].pid \in asked',
         asked \subseteq asked'
  PROVE  Alone'
<1> SUFFICES ASSUME serial PROVE Alone'
  BY DEF Alone
<1>1. \A d, e \in Commands : Busy(d)' /\ Busy(e)' => d = e
  BY DEF DaemonInv, Alone, Busy
<1>2. \A p \in Servers : server[p] # "bind"
  BY DEF DaemonInv, Alone, Busy
<1>3. \A d \in Commands : cmd'[d].pc \in Acting => d = c
  BY DEF DaemonInv, Alone, Busy, Acting
<1> QED
  BY <1>1, <1>2, <1>3 DEF Alone, Acting

LEMMA RunAlone ==
  ASSUME DaemonInv, NEW c \in Commands, Run(c)
  PROVE  Alone'
<1> USE DEF DaemonInv
<1>1. CASE BeginStart(c) \/ BeginDaemon(c) \/ BeginStop(c)
  <2> SUFFICES ASSUME serial PROVE Alone'
    BY <1>1 DEF Alone, BeginStart, BeginDaemon, BeginStop, Begin, World
  <2>1. PICK first \in {"spawn", "connect"}, kind \in Kinds : Begin(c, kind, first)
    BY <1>1 DEF BeginStart, BeginDaemon, BeginStop, Kinds
  <2>2. (\A d \in Commands : ~Busy(d)) /\ UNCHANGED World
    BY <2>1 DEF Begin
  <2>3. \A p \in Servers : server[p] # "bind"
    BY <2>2 DEF Alone, Busy
  <2>4. /\ cmd'[c].pc = first
        /\ \A d \in Commands \ {c} : cmd'[d] = cmd[d]
    BY <2>1, CommandTyped DEF Begin, ServerInv, TypeOK, Command
  <2>5. \A d \in Commands : Busy(d)' => d = c
    BY <2>2, <2>4 DEF Busy
  <2>6. \A d \in Commands : cmd'[d].pc \notin Acting
    BY <2>2, <2>4 DEF Busy, Acting
  <2> QED
    BY <2>2, <2>3, <2>5, <2>6 DEF Alone, World, Acting
<1>2. CASE Spawn(c)
  <2> SUFFICES ASSUME serial PROVE Alone'
    BY <1>2 DEF Alone, Spawn
  <2>1. PICK p \in Servers :
          /\ server' = [server EXCEPT ![p] = "bind"]
          /\ cmd' = [cmd EXCEPT ![c].pc = "wait", ![c].pid = p]
    BY <1>2 DEF Spawn, Reach
  <2>2. /\ cmd'[c].pc = "wait" /\ cmd'[c].pid = p
        /\ \A d \in Commands \ {c} : cmd'[d] = cmd[d]
    BY <2>1, CommandTyped DEF ServerInv, TypeOK, Command
  <2>3. Busy(c) /\ cmd[c].pc = "spawn"
    BY <1>2 DEF Spawn, Busy
  <2>4. \A q \in Servers : server[q] # "bind"
    BY <2>3 DEF Alone, Busy
  <2>5. \A q \in Servers : server'[q] = "bind" => q = p
    BY <2>1, <2>4 DEF ServerInv, TypeOK
  <2>6. \A d \in Commands : Busy(d)' => d = c
    BY <2>2, <2>3 DEF Alone, Busy
  <2>7. \A d \in Commands : cmd'[d].pc \notin Acting
    BY <2>2, <2>6 DEF Busy, Acting
  <2> QED
    BY <2>2, <2>5, <2>6, <2>7 DEF Alone, Acting
<1>3. CASE ~(BeginStart(c) \/ BeginDaemon(c) \/ BeginStop(c)) /\ ~Spawn(c)
  <2>1. Busy(c) /\ UNCHANGED <<serial, server, port>> /\ asked \subseteq asked'
    BY <1>3 DEF Run, Connect, ConnectRefused, Authorize, Healthy, Unhealthy,
         NotFound, SpawnFails, Settled, ChildHealthy, GiveUp, RecordFound,
         RecordFails, Terminate, TerminateFails, RemovePid, Goto, Answer, Busy,
         World
  <2>2. \A d \in Commands \ {c} : cmd'[d] = cmd[d]
    BY <1>3 DEF Run, Connect, ConnectRefused, Authorize, Healthy, Unhealthy,
         NotFound, SpawnFails, Settled, ChildHealthy, GiveUp, RecordFound,
         RecordFails, Terminate, TerminateFails, RemovePid, Goto, Answer,
         ServerInv, TypeOK
  <2>3. \A p \in Servers : cmd[c].pc = "wait" /\ server[p] = "bind" =>
          cmd[c].pid # p
    BY <1>3 DEF Run, Connect, ConnectRefused, Authorize, Healthy, Unhealthy,
         NotFound, SpawnFails, Settled, ChildHealthy, GiveUp, RecordFound,
         RecordFails, Terminate, TerminateFails, RemovePid, Goto, Answer
  <2>4. serial /\ cmd'[c].pc \in Acting => port \in {No, cmd'[c].pid}
    <3>1. CASE Healthy(c)
      <4>1. port = cmd[c].pid
        BY <3>1, CommandTyped
           DEF Healthy, Goto, Replies, ServerInv, Owned, Asking, Bound
      <4>2. cmd'[c].pid = cmd[c].pid
        BY <3>1, CommandTyped DEF Healthy, Goto, ServerInv, TypeOK, Command
      <4> QED
        BY <4>1, <4>2
    <3>2. CASE ChildHealthy(c)
      BY <3>2, CommandTyped DEF ChildHealthy, Goto, ServerInv, TypeOK, Command
    <3>3. CASE Terminate(c)
      <4>1. cmd[c].pc \in Acting /\ cmd'[c].pid = cmd[c].pid
        BY <3>3, CommandTyped
           DEF Terminate, Goto, ServerInv, TypeOK, Command, Acting
      <4> QED
        BY <4>1 DEF Alone
    <3>4. CASE ~(Healthy(c) \/ ChildHealthy(c) \/ Terminate(c))
      <4> USE DEF ServerInv, TypeOK, Command, Acting
      <4>1. CASE Connect(c) \/ Authorize(c)
        BY <4>1, CommandTyped DEF Connect, Authorize
      <4>2. CASE NotFound(c)
        <5>1. CASE Answer(c, cmd[c].pc, "absent")
          BY <5>1, CommandTyped DEF Answer
        <5>2. CASE Goto(c, cmd[c].pc, "spawn")
          BY <5>2, CommandTyped DEF Goto
        <5> QED
          BY <4>2, <5>1, <5>2 DEF NotFound
      <4>3. CASE SpawnFails(c) \/ Settled(c) \/ GiveUp(c) \/ RecordFound(c)
                   \/ RecordFails(c) \/ TerminateFails(c) \/ RemovePid(c)
        <5>1. PICK from, answer : Answer(c, from, answer)
          BY <4>3 DEF SpawnFails, Settled, GiveUp, RecordFound, RecordFails,
                      TerminateFails, RemovePid
        <5>2. cmd'[c] = [cmd[c] EXCEPT !.pc = "answered", !.answer = answer]
          BY <5>1 DEF Answer
        <5> QED
          BY <5>2, CommandTyped
      <4> QED
        BY <1>3, <3>4, <4>1, <4>2, <4>3 DEF Run, ConnectRefused, Unhealthy
    <3> QED
      BY <3>1, <3>2, <3>3, <3>4
  <2>5. cmd'[c].pc = "remove" => cmd'[c].pid \in asked'
    <3>1. CASE Terminate(c)
      BY <3>1, CommandTyped DEF Terminate, Goto, ServerInv, TypeOK, Command
    <3>2. CASE ~Terminate(c)
      BY <1>3, <3>2, CommandTyped
         DEF Run, Connect, ConnectRefused, Authorize, Healthy, Unhealthy,
             NotFound, SpawnFails, Settled, ChildHealthy, GiveUp, RecordFound,
             RecordFails, TerminateFails, RemovePid, Goto, Answer, ServerInv,
             TypeOK, Command
    <3> QED
      BY <3>1, <3>2
  <2> QED
    BY <2>1, <2>2, <2>3, <2>4, <2>5, StaysAlone
<1> QED
  BY <1>1, <1>2, <1>3

\* The pid file changes when the one server there can be is recorded, or has
\* been asked to end.
LEMMA RunNamed ==
  ASSUME DaemonInv, NEW c \in Commands, Run(c)
  PROVE  Named'
<1> SUFFICES ASSUME serial PROVE Named'
  BY DEF Run, BeginStart, BeginDaemon, BeginStop, Begin, Connect,
         ConnectRefused, Authorize, Healthy, Unhealthy, NotFound, Spawn,
         SpawnFails, Settled, ChildHealthy, GiveUp, RecordFound, RecordFails,
         Terminate, TerminateFails, RemovePid, World, Named
<1> USE DEF DaemonInv
<1>1. Serving' = Serving /\ asked \subseteq asked'
  <2>1. CASE Spawn(c)
    BY <2>1 DEF Spawn, Reach, ServerInv, TypeOK, Serving
  <2>2. CASE ~Spawn(c)
    BY <2>2 DEF Run, BeginStart, BeginDaemon, BeginStop, Begin, Connect,
         ConnectRefused, Authorize, Healthy, Unhealthy, NotFound, SpawnFails,
         Settled, ChildHealthy, GiveUp, RecordFound, RecordFails, Terminate,
         TerminateFails, RemovePid, World, Serving
  <2> QED
    BY <2>1, <2>2
<1>2. \A p \in Serving : port = p
  BY DEF ServerInv, Owned, Serving, Bound
<1>3. CASE RecordFound(c) \/ RemovePid(c)
  <2>1. cmd[c].pc \in Acting
    BY <1>3 DEF RecordFound, RemovePid, Answer, Acting
  <2>2. port \in {No, cmd[c].pid}
    BY <2>1 DEF Alone
  <2>3. \A p \in Serving : p = cmd[c].pid
    BY <1>2, <2>2, DaemonAssumption DEF Serving
  <2>4. pidFile' = cmd[c].pid \/ cmd[c].pid \in asked
    BY <1>3 DEF RecordFound, RemovePid, Answer, Alone
  <2> QED
    BY <1>1, <2>3, <2>4 DEF Named
<1>4. CASE ~(RecordFound(c) \/ RemovePid(c))
  <2>1. pidFile' = pidFile
    BY <1>4 DEF Run, BeginStart, BeginDaemon, BeginStop, Begin, Connect,
         ConnectRefused, Authorize, Healthy, Unhealthy, NotFound, Spawn,
         SpawnFails, Settled, ChildHealthy, GiveUp, RecordFails, Terminate,
         TerminateFails, World
  <2> QED
    BY <1>1, <2>1 DEF Named
<1> QED
  BY <1>3, <1>4

-----------------------------------------------------------------------------
LEMMA NextPreserves == DaemonInv /\ [Next]_vars => DaemonInv'
<1> SUFFICES ASSUME DaemonInv, [Next]_vars PROVE DaemonInv'
  OBVIOUS
<1>1. CASE \E p \in Servers : Serve(p)
  BY <1>1, ServerPreserves, ServerAlone DEF DaemonInv
<1>2. CASE \E c \in Commands : Run(c)
  BY <1>2, RunPreserves, RunAlone, RunNamed DEF DaemonInv
<1>3. CASE UNCHANGED vars
  BY <1>3 DEF vars, DaemonInv, ServerInv, TypeOK, Owned, TokenAgrees, Looking,
              StopFindsServer, Alone, Named, Busy, Serving
<1> QED
  BY <1>1, <1>2, <1>3 DEF Next

LEMMA DaemonHolds == Spec => []DaemonInv
BY InitDaemon, NextPreserves, PTL DEF Spec

\* Every value keeps its type; a server that serves has a token.
THEOREM Typed == Spec => []TypeOK
<1>1. DaemonInv => TypeOK
  BY DEF DaemonInv, ServerInv
<1> QED
  BY <1>1, DaemonHolds, PTL

\* Whatever servers start, fail and die meanwhile, and however commands
\* overlap, stop never misses a server that serves all the time.
THEOREM StopFinds == Spec => []StopFindsServer
<1>1. DaemonInv => StopFindsServer
  BY DEF DaemonInv, ServerInv
<1> QED
  BY <1>1, DaemonHolds, PTL

\* When commands do not overlap the pid file names the server that serves.
THEOREM PidNamed == Spec => []PidFileNamesServer
<1>1. DaemonInv => PidFileNamesServer
  BY DEF DaemonInv, Named, PidFileNamesServer
<1> QED
  BY <1>1, DaemonHolds, PTL
=============================================================================
