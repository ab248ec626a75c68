----------------------- MODULE ManagementPage_proofs -----------------------
(***************************************************************************)
(* Proofs about ManagementPage, for any number of flows, clicks, lost      *)
(* calls and other clients.                                                *)
(***************************************************************************)
EXTENDS ManagementPage, TLAPS

\* What a flow that counts up to n monitors can be: its place goes with its
\* kind, a call that is answered with a status is not answered otherwise, and
\* only a monitor sleeps and polls.
Fits(r, n) ==
  /\ r \in FlowRecord
  /\ (r.kind = "none") <=> (r.at = "none")
  /\ r.kind = "monitor" => r.gen \in 1 .. n
  /\ r.at \in {"ensure", "poll", "start"} => r.reply # "done"
  /\ r.at \in {"sleep", "poll"} => r.kind = "monitor"

\* The page never forgets who has disabled its controls: that is inductive
\* together with what each flow can be, since a monitor may end in silence.
PageInv ==
  /\ TypeOK
  /\ \A f \in Flows : Fits(flow[f], generation)
  /\ ControlsHeld
  /\ OneMonitor

\* The variables other than the flows keep their types.
Typed ==
  /\ server' \in [status : Statuses, ready : BOOLEAN,
                  op : {"none", "install", "other"}]
  /\ shown' \in Statuses /\ busy' \in BOOLEAN /\ retry' \in Retries
  /\ clicks' \in Nat /\ faults' \in Nat /\ others' \in Nat

\* Flow f becomes r, and whoever disabled the controls is still there.
Becomes(f, r) ==
  /\ flow' = [flow EXCEPT ![f] = r]
  /\ \/ /\ generation' = generation
        /\ r.kind = "monitor" =>
             flow[f].kind = "monitor" /\ r.gen = flow[f].gen
     \/ /\ generation' = generation + 1
        /\ r.kind = "monitor" => r.gen = generation'
  /\ Fits(r, generation')
  /\ busy' /\ shown' # "running" =>
       \/ r.kind \notin {"none", "monitor"}
       \/ /\ busy /\ shown # "running"
          /\ flow[f].kind \in {"none", "monitor"}

LEMMA FlowStep ==
  ASSUME PageInv, Typed, NEW f \in Flows, NEW r, Becomes(f, r)
  PROVE  PageInv'
<1>1. /\ flow' \in [Flows -> FlowRecord]
      /\ flow'[f] = r
      /\ \A g \in Flows \ {f} : flow'[g] = flow[g]
      /\ generation \in Nat /\ generation' \in Nat /\ generation <= generation'
  BY DEF PageInv, TypeOK, Becomes, Fits
<1>2. \A g \in Flows : Fits(flow[g], generation)'
  <2>1. Fits(flow[f], generation)'
    BY <1>1 DEF Becomes, Fits
  <2>2. ASSUME NEW g \in Flows \ {f}
        PROVE  Fits(flow[g], generation)'
    <3>1. Fits(flow[g], generation) /\ flow'[g] = flow[g]
      BY <1>1, <2>2 DEF PageInv
    <3>2. QED
      BY <1>1, <3>1 DEF Fits, FlowRecord
  <2>3. QED
    BY <2>1, <2>2
<1>3. TypeOK'
  BY <1>1, <1>2 DEF Typed, TypeOK, Fits
<1>4. ControlsHeld'
  BY <1>1 DEF PageInv, ControlsHeld, Becomes
<1>5. OneMonitor'
  <2>1. \A g \in Flows : Fits(flow[g], generation)
    BY DEF PageInv
  <2>2. CASE generation' = generation
    BY <1>1, <2>2 DEF PageInv, OneMonitor, Becomes
  <2>3. CASE generation' = generation + 1
    <3>1. ASSUME NEW g \in Flows \ {f}, flow[g].kind = "monitor"
          PROVE  flow'[g].gen # generation'
      <4>1. flow[g].gen \in 1 .. generation
        BY <2>1, <3>1 DEF Fits
      <4>2. QED
        BY <1>1, <2>3, <3>1, <4>1
    <3>2. QED
      BY <1>1, <3>1 DEF OneMonitor
  <2>4. QED
    BY <2>2, <2>3 DEF Becomes
<1>6. QED
  BY <1>2, <1>3, <1>4, <1>5 DEF PageInv

LEMMA InitPage == Init => PageInv
<1> SUFFICES ASSUME Init PROVE PageInv
  OBVIOUS
<1>1. PICK f \in Flows :
        flow = [g \in Flows |->
                  IF g = f THEN [NoFlow EXCEPT !.kind = "reload",
                                               !.at = "reading"]
                           ELSE NoFlow]
  BY DEF Init
<1>2. /\ NoFlow \in FlowRecord
      /\ [NoFlow EXCEPT !.kind = "reload", !.at = "reading"] \in FlowRecord
  BY DEF NoFlow, FlowRecord, Kinds, Loads, Points, Statuses
<1>3. \A g \in Flows : Fits(flow[g], generation)
  BY <1>1, <1>2 DEF Fits, NoFlow
<1>4. TypeOK
  <2>1. flow \in [Flows -> FlowRecord]
    BY <1>1, <1>2
  <2>2. QED
    BY <1>3, <2>1 DEF Init, TypeOK, Fits, Statuses, Retries
<1>5. ControlsHeld
  BY <1>1 DEF ControlsHeld, NoFlow
<1>6. OneMonitor
  BY <1>1 DEF OneMonitor, NoFlow
<1>7. QED
  BY <1>3, <1>4, <1>5, <1>6 DEF PageInv

-----------------------------------------------------------------------------
(* The steps that make a flow what it becomes.                             *)

\* What a flow keeps when it asks, is answered or ends.
LEMMA FlowKeeps ==
  ASSUME PageInv, NEW f \in Flows
  PROVE  /\ Fits(flow[f], generation) /\ flow[f] \in FlowRecord
         /\ \A r : flow' = [flow EXCEPT ![f] = r] => flow'[f] = r
         /\ generation \in Nat
BY DEF PageInv, TypeOK

\* The flow asks its next call; its kind stays.
LEMMA Asks ==
  ASSUME PageInv, Typed, NEW f \in Flows, NEW point \in Points \ {"none"},
         Ask(f, point), flow[f].kind # "none", generation' = generation,
         point \in {"sleep", "poll"} => flow[f].kind = "monitor",
         busy' /\ shown' # "running" =>
           \/ flow[f].kind # "monitor"
           \/ busy /\ shown # "running"
  PROVE  PageInv'
<1> DEFINE r == [flow[f] EXCEPT !.at = point, !.reply = "none"]
<1>1. /\ Fits(flow[f], generation) /\ flow[f] \in FlowRecord
      /\ flow' = [flow EXCEPT ![f] = r]
  BY FlowKeeps DEF Ask
<1>2. /\ r \in FlowRecord /\ r.at = point /\ r.reply = "none"
      /\ r.kind = flow[f].kind /\ r.gen = flow[f].gen
  BY <1>1 DEF FlowRecord
<1>3. Fits(r, generation')
  BY <1>1, <1>2 DEF Fits
<1>4. Becomes(f, r)
  BY <1>1, <1>2, <1>3 DEF Becomes
<1>5. QED
  BY <1>4, FlowStep

\* The flow's call is answered; nothing is shown yet.
LEMMA Replies ==
  ASSUME PageInv, Typed, NEW f \in Flows,
         NEW answer \in Statuses \union {"done", "error"}, Reply(f, answer),
         flow[f].at \in {"ensure", "poll", "start"} => answer # "done",
         UNCHANGED page
  PROVE  PageInv'
<1> DEFINE r == [flow[f] EXCEPT !.reply = answer]
<1>1. /\ Fits(flow[f], generation) /\ flow[f] \in FlowRecord
      /\ flow' = [flow EXCEPT ![f] = r] /\ generation \in Nat
  BY FlowKeeps DEF Reply
<1>2. /\ r \in FlowRecord /\ r.at = flow[f].at /\ r.reply = answer
      /\ r.kind = flow[f].kind /\ r.gen = flow[f].gen
  BY <1>1 DEF FlowRecord
<1>3. Fits(r, generation)
  BY <1>1, <1>2 DEF Fits
<1>4. Becomes(f, r)
  BY <1>1, <1>2, <1>3 DEF Becomes, page
<1>5. QED
  BY <1>4, FlowStep

\* The flow becomes another one, which is no monitor.
LEMMA Turns ==
  ASSUME PageInv, Typed, NEW f \in Flows,
         NEW kind \in Kinds \ {"none", "monitor"},
         NEW point \in Points \ {"none", "sleep", "poll"},
         Become(f, kind, point), generation' = generation
  PROVE  PageInv'
<1> DEFINE r == [NoFlow EXCEPT !.kind = kind, !.at = point]
<1>1. /\ r \in FlowRecord /\ r.kind = kind /\ r.at = point
      /\ r.reply = "none"
  BY DEF NoFlow, FlowRecord, Statuses
<1>2. Becomes(f, r)
  BY <1>1 DEF Becomes, Become, Fits
<1>3. QED
  BY <1>2, FlowStep

\* The flow ends: the controls are released, an installation is shown, or it
\* was a monitor.
LEMMA Ends ==
  ASSUME PageInv, Typed, NEW f \in Flows, End(f), generation' = generation,
         busy' /\ shown' # "running" =>
           busy /\ shown # "running" /\ flow[f].kind = "monitor"
  PROVE  PageInv'
<1>1. /\ NoFlow \in FlowRecord /\ NoFlow.kind = "none" /\ NoFlow.at = "none"
      /\ NoFlow.reply = "none"
  BY DEF NoFlow, FlowRecord, Kinds, Points, Statuses
<1>2. Becomes(f, NoFlow)
  BY <1>1 DEF Becomes, End, Fits
<1>3. QED
  BY <1>2, FlowStep

\* The monitor that was given the number n.
LEMMA Numbered ==
  ASSUME NEW n \in Nat, NEW r,
         r = [NoFlow EXCEPT !.kind = "monitor", !.at = "sleep", !.gen = n]
  PROVE  r \in FlowRecord /\ r.kind = "monitor" /\ r.at = "sleep" /\ r.gen = n
<1>1. NoFlow \in FlowRecord
  BY DEF NoFlow, FlowRecord, Kinds, Points, Statuses
<1>2. "monitor" \in Kinds /\ "sleep" \in Points
  BY DEF Kinds, Points
<1>3. QED
  BY <1>1, <1>2 DEF FlowRecord

\* The flow goes on as the newest monitor, or ends.
LEMMA Follows ==
  ASSUME PageInv, Typed, NEW f \in Flows, NEW s, Monitor(f, s),
         shown' = s, busy' = (s = "running")
  PROVE  PageInv'
<1>1. generation \in Nat /\ generation' = generation + 1
  BY DEF PageInv, TypeOK, Monitor
<1>2. CASE s = "running"
  <2> DEFINE r == [NoFlow EXCEPT !.kind = "monitor", !.at = "sleep",
                                 !.gen = generation + 1]
  <2>1. /\ r \in FlowRecord /\ r.kind = "monitor" /\ r.at = "sleep"
        /\ r.gen = generation' /\ r.gen \in 1 .. generation'
    <3>1. generation + 1 \in Nat /\ generation' \in 1 .. generation'
      BY <1>1
    <3>2. QED
      BY <1>1, <3>1, Numbered
  <2>2. flow' = [flow EXCEPT ![f] = r]
    BY <1>2 DEF Monitor
  <2>3. Fits(r, generation')
    BY <2>1 DEF Fits
  <2>4. Becomes(f, r)
    BY <1>1, <1>2, <2>1, <2>2, <2>3 DEF Becomes
  <2>5. QED
    BY <2>4, FlowStep
<1>3. CASE s # "running"
  <2>1. /\ NoFlow \in FlowRecord /\ NoFlow.kind = "none"
        /\ NoFlow.at = "none" /\ NoFlow.reply = "none"
    BY DEF NoFlow, FlowRecord, Kinds, Points, Statuses
  <2>2. flow' = [flow EXCEPT ![f] = NoFlow]
    BY <1>3 DEF Monitor
  <2>3. Becomes(f, NoFlow)
    BY <1>1, <1>3, <2>1, <2>2 DEF Becomes, Fits
  <2>4. QED
    BY <2>3, FlowStep
<1>4. QED
  BY <1>2, <1>3

-----------------------------------------------------------------------------
(* The manager answers.                                                    *)

LEMMA ServeStep ==
  ASSUME PageInv, NEW f \in Flows, Serve(f) \/ Lost(f)
  PROVE  PageInv'
<1>0. /\ Fits(flow[f], generation) /\ flow[f] \in FlowRecord
      /\ server.status \in Statuses /\ server.ready \in BOOLEAN
      /\ server.op \in {"none", "install", "other"}
      /\ generation \in Nat
  BY FlowKeeps DEF PageInv, TypeOK
<1>t. /\ UNCHANGED <<page, bounds>> => Typed \/ server' # server
      /\ UNCHANGED <<server, page, clicks, others>> /\ faults' \in Nat => Typed
      /\ UNCHANGED <<page, bounds>>
           /\ server' \in [status : Statuses, ready : BOOLEAN,
                           op : {"none", "install", "other"}] => Typed
  BY DEF PageInv, TypeOK, Typed, page, bounds
<1>s. /\ server \in [status : Statuses, ready : BOOLEAN,
                     op : {"none", "install", "other"}]
      /\ \A o \in {"none", "install", "other"} :
           [server EXCEPT !.op = o] \in
             [status : Statuses, ready : BOOLEAN,
              op : {"none", "install", "other"}]
      /\ [server EXCEPT !.ready = TRUE] \in
             [status : Statuses, ready : BOOLEAN,
              op : {"none", "install", "other"}]
      /\ Install \in [status : Statuses, ready : BOOLEAN,
                      op : {"none", "install", "other"}]
      /\ [Install EXCEPT !.ready = TRUE] \in
             [status : Statuses, ready : BOOLEAN,
              op : {"none", "install", "other"}]
  BY DEF PageInv, TypeOK, Install, Statuses
<1>1. CASE ReadCredential(f)
  <2> DEFINE r == [flow[f] EXCEPT !.got = @ \union {"credential"},
                                  !.ready = server.ready,
                                  !.operating = server.op # "none"]
  <2>1. /\ r \in FlowRecord /\ r.at = flow[f].at /\ r.reply = flow[f].reply
        /\ r.kind = flow[f].kind /\ r.gen = flow[f].gen
    BY <1>0 DEF FlowRecord
  <2>2. flow' = [flow EXCEPT ![f] = r] /\ UNCHANGED <<server, page, bounds>>
    BY <1>1 DEF ReadCredential
  <2>3. Becomes(f, r)
    BY <1>0, <2>1, <2>2 DEF Becomes, Fits, page
  <2>4. QED
    BY <1>s, <1>t, <2>2, <2>3, FlowStep
<1>2. CASE ReadSetup(f)
  <2> DEFINE r == [flow[f] EXCEPT !.got = @ \union {"setup"},
                                  !.setup = server.status]
  <2>1. /\ r \in FlowRecord /\ r.at = flow[f].at /\ r.reply = flow[f].reply
        /\ r.kind = flow[f].kind /\ r.gen = flow[f].gen
    BY <1>0 DEF FlowRecord
  <2>2. flow' = [flow EXCEPT ![f] = r] /\ UNCHANGED <<server, page, bounds>>
    BY <1>2 DEF ReadSetup
  <2>3. Becomes(f, r)
    BY <1>0, <2>1, <2>2 DEF Becomes, Fits, page
  <2>4. QED
    BY <1>s, <1>t, <2>2, <2>3, FlowStep
<1>3. CASE ServePrepare(f)
  <2>1. CASE Reply(f, "error") /\ UNCHANGED server
    BY <1>3, <1>s, <1>t, <2>1, Replies DEF ServePrepare, bounds
  <2>2. CASE server.op = "none"
    <3> DEFINE r == [flow[f] EXCEPT !.reply = "done", !.ready = TRUE,
                                    !.operating = FALSE]
    <3>1. /\ r \in FlowRecord /\ r.at = flow[f].at /\ r.reply = "done"
          /\ r.kind = flow[f].kind /\ r.gen = flow[f].gen
      BY <1>0 DEF FlowRecord
    <3>2. /\ flow' = [flow EXCEPT ![f] = r] /\ UNCHANGED <<page, bounds>>
          /\ server' = [server EXCEPT !.ready = TRUE]
          /\ flow[f].at = "prepare"
      BY <1>3, <2>2 DEF ServePrepare, Waits
    <3>3. Becomes(f, r)
      BY <1>0, <3>1, <3>2 DEF Becomes, Fits, page
    <3>4. QED
      BY <1>s, <1>t, <3>2, <3>3, FlowStep
  <2>3. QED
    BY <1>3, <2>1, <2>2 DEF ServePrepare
<1>4. CASE ServeDiscover(f)
  BY <1>4, <1>s, <1>t, Replies DEF ServeDiscover, Waits
<1>5. CASE ServeEnsure(f)
  <2>1. PICK answer \in Statuses \union {"error"} : Reply(f, answer)
    BY <1>0, <1>5 DEF ServeEnsure, Statuses
  <2>2. Typed
    BY <1>5, <1>s, <1>t DEF ServeEnsure
  <2>3. answer # "done"
    BY <2>1 DEF Statuses
  <2>4. QED
    BY <1>5, <2>1, <2>2, <2>3, Replies DEF ServeEnsure
<1>6. CASE ServePoll(f)
  <2>1. server.status # "done"
    BY <1>0 DEF Statuses
  <2>2. QED
    BY <1>0, <1>6, <1>s, <1>t, <2>1, Replies DEF ServePoll
<1>7. CASE ServeStart(f)
  <2>1. PICK answer \in Statuses \union {"error"} : Reply(f, answer)
    BY <1>7 DEF ServeStart, Statuses
  <2>2. Typed
    BY <1>7, <1>s, <1>t DEF ServeStart
  <2>3. answer # "done"
    BY <2>1 DEF Statuses
  <2>4. QED
    BY <1>7, <2>1, <2>2, <2>3, Replies DEF ServeStart
<1>8. CASE BeginManage(f)
  <2>1. CASE Reply(f, "error") /\ UNCHANGED server
    BY <1>8, <1>s, <1>t, <2>1, Replies DEF BeginManage
  <2>2. CASE server' = [server EXCEPT !.op = "other"] /\ Ask(f, "managing")
    <3>1. flow[f].kind # "none"
      BY <1>0, <1>8 DEF BeginManage, Waits, Fits
    <3>2. Typed /\ UNCHANGED page
      BY <1>8, <1>s, <1>t, <2>2 DEF BeginManage
    <3>3. QED
      BY <2>2, <3>1, <3>2, Asks DEF Points, page
  <2>3. QED
    BY <1>8, <2>1, <2>2 DEF BeginManage
<1>9. CASE EndManage(f)
  <2>1. Typed /\ UNCHANGED page /\ flow[f].at = "managing"
    BY <1>9, <1>s, <1>t DEF EndManage, Waits
  <2>2. PICK answer \in {"done", "error"} : Reply(f, answer)
    BY <1>9 DEF EndManage
  <2>3. QED
    BY <2>1, <2>2, Replies
<1>10. CASE ServeLaunch(f)
  <2>1. Typed /\ UNCHANGED page /\ flow[f].at = "launch"
    BY <1>10, <1>s, <1>t DEF ServeLaunch, Waits
  <2>2. PICK answer \in {"done", "error"} : Reply(f, answer)
    BY <1>10 DEF ServeLaunch
  <2>3. QED
    BY <2>1, <2>2, Replies
<1>11. CASE Lost(f)
  <2>1. faults' \in Nat
    BY <1>11 DEF Lost, PageInv, TypeOK
  <2>2. Typed /\ UNCHANGED page
    BY <1>11, <1>t, <2>1 DEF Lost
  <2>3. QED
    BY <1>11, <2>2, Replies DEF Lost
<1>12. QED
  BY <1>1, <1>2, <1>3, <1>4, <1>5, <1>6, <1>7, <1>8, <1>9, <1>10, <1>11
  DEF Serve

-----------------------------------------------------------------------------
(* The flows go on, and the user clicks.                                   *)

LEMMA ContinueStep ==
  ASSUME PageInv, NEW f \in Flows, Continue(f)
  PROVE  PageInv'
<1>0. /\ Fits(flow[f], generation) /\ flow[f] \in FlowRecord
      /\ generation \in Nat /\ server' = server /\ UNCHANGED bounds
      /\ shown \in Statuses /\ busy \in BOOLEAN /\ retry \in Retries
  <2>1. server' = server /\ UNCHANGED bounds
    BY DEF Continue, LoadPrepare, LoadShow, LoadChecks, LoadFollows, LoadEnds,
      LoadFails, Ensured, ConfirmFails, Wake, Polled, PollFails, Started,
      StartFails, Managed, ManageFails, Launched
  <2>2. QED
    BY <2>1, FlowKeeps DEF PageInv, TypeOK
<1>t. ASSUME shown' \in Statuses, busy' \in BOOLEAN, retry' \in Retries
      PROVE  Typed
  BY <1>0, <1>t DEF PageInv, TypeOK, Typed, bounds
<1>k. /\ Loading(f) => flow[f].kind \in Kinds \ {"none", "monitor"}
      /\ flow[f].at \notin {"none", "sleep", "poll"} => flow[f].kind # "none"
      /\ \A status \in Statuses : Offered(status) \in Retries
      /\ Loading(f) => flow[f].kind \in Retries \union {"afterswitch"}
      /\ flow[f].at \in {"sleep", "poll"} => flow[f].kind = "monitor"
      /\ flow[f].at \in {"ensure", "poll", "start"} => flow[f].reply # "done"
      /\ flow[f].reply \in Statuses \union {"none", "done", "error"}
      /\ flow[f].setup \in Statuses
  <2>1. Loading(f) => flow[f].kind \in Kinds \ {"none", "monitor"}
    BY DEF Loading, Loads, Kinds
  <2>2. Loading(f) => flow[f].kind \in Retries \union {"afterswitch"}
    BY DEF Loading, Loads, Retries
  <2>3. \A status \in Statuses : Offered(status) \in Retries
    BY <1>0 DEF Offered, Retries
  <2>4. flow[f].at \notin {"none", "sleep", "poll"} => flow[f].kind # "none"
    BY <1>0 DEF Fits
  <2>5. QED
    BY <1>0, <2>1, <2>2, <2>3, <2>4 DEF Fits, FlowRecord
<1>1. CASE LoadPrepare(f)
  <2>1. Typed /\ UNCHANGED page
    BY <1>0, <1>1, <1>t DEF LoadPrepare, page
  <2>2. Loading(f) /\ Ask(f, "prepare")
    BY <1>1 DEF LoadPrepare, Read
  <2>3. QED
    BY <1>k, <2>1, <2>2, Asks DEF Points, page
<1>2. CASE LoadShow(f)
  <2>1. Typed /\ generation' = generation /\ Ask(f, "discover")
    BY <1>2, <1>k, <1>t DEF LoadShow, Render
  <2>2. busy' => shown' = "running"
    BY <1>2 DEF LoadShow, Render
  <2>3. flow[f].kind # "none"
    BY <1>2, <1>k DEF LoadShow, Read, Waits, Answered
  <2>4. QED
    BY <2>1, <2>2, <2>3, Asks DEF Points
<1>3. CASE LoadChecks(f)
  <2>1. Typed /\ generation' = generation /\ Ask(f, "ensure")
    BY <1>0, <1>3, <1>k, <1>t DEF LoadChecks
  <2>2. flow[f].kind = "reload"
    BY <1>3 DEF LoadChecks
  <2>3. QED
    BY <2>1, <2>2, Asks DEF Points
<1>4. CASE LoadFollows(f)
  <2>1. Typed /\ Monitor(f, shown) /\ shown' = shown
        /\ busy' = (shown = "running")
    BY <1>0, <1>4, <1>k, <1>t DEF LoadFollows, Render
  <2>2. QED
    BY <2>1, Follows
<1>5. CASE LoadEnds(f)
  <2>1. Typed /\ generation' = generation /\ End(f)
    BY <1>0, <1>5, <1>k, <1>t DEF LoadEnds, Retries
  <2>2. busy' => shown' = "running"
    BY <1>5 DEF LoadEnds
  <2>3. QED
    BY <2>1, <2>2, Ends
<1>6. CASE LoadFails(f)
  <2>1. Typed /\ generation' = generation /\ End(f)
    BY <1>0, <1>6, <1>k, <1>t DEF LoadFails, Retries
  <2>2. busy' => shown' = "running"
    BY <1>6 DEF LoadFails
  <2>3. QED
    BY <2>1, <2>2, Ends
<1>7. CASE Ensured(f)
  <2> DEFINE status == flow[f].reply
  <2>1. status \in Statuses /\ shown' = status /\ busy' = (status = "running")
    BY <1>7, <1>k DEF Ensured, Answered, Statuses
  <2>2. Typed
    <3>1. retry' \in {retry, "reload", Offered(status)}
      BY <1>7 DEF Ensured
    <3>2. retry' \in Retries
      BY <1>0, <1>k, <2>1, <3>1 DEF Retries
    <3>3. QED
      BY <1>t, <2>1, <3>2
  <2>3. CASE status = "running"
    BY <1>7, <2>1, <2>2, <2>3, Follows DEF Ensured
  <2>4. CASE status # "running"
    <3>1. End(f) /\ generation' = generation
      BY <1>7, <2>4 DEF Ensured
    <3>2. QED
      BY <2>1, <2>2, <2>4, <3>1, Ends
  <2>5. QED
    BY <2>3, <2>4
<1>8. CASE ConfirmFails(f)
  <2>1. Typed /\ generation' = generation /\ End(f)
    BY <1>0, <1>8, <1>t DEF ConfirmFails, Retries
  <2>2. busy' => shown' = "running"
    BY <1>8 DEF ConfirmFails
  <2>3. QED
    BY <2>1, <2>2, Ends
<1>9. CASE Wake(f)
  <2>1. Typed /\ UNCHANGED page
    BY <1>0, <1>9, <1>t DEF Wake, page
  <2>2. flow[f].kind = "monitor"
    BY <1>9, <1>k DEF Wake
  <2>3. CASE Ask(f, "poll")
    BY <2>1, <2>2, <2>3, Asks DEF Points, page
  <2>4. CASE End(f)
    BY <2>1, <2>2, <2>4, Ends DEF page
  <2>5. QED
    BY <1>9, <2>3, <2>4 DEF Wake
<1>10. CASE Polled(f)
  <2> DEFINE status == flow[f].reply
  <2>1. /\ status \in Statuses /\ shown' = status
        /\ flow[f].kind = "monitor" /\ generation' = generation
    BY <1>10, <1>k DEF Polled, Answered
  <2>2. CASE status = "succeeded"
    <3>1. Become(f, "quiet", "reading") /\ Typed
      BY <1>10, <1>t, <2>1, <2>2 DEF Polled, Occupy, Retries
    <3>2. QED
      BY <2>1, <3>1, Turns DEF Kinds, Loads, Points
  <2>3. CASE status # "succeeded"
    <3>1. busy' = (status = "running") /\ retry' = Offered(status)
      BY <1>10, <2>3 DEF Polled
    <3>2. Typed
      BY <1>k, <1>t, <2>1, <3>1
    <3>3. Ask(f, "sleep") \/ End(f)
      BY <1>10, <2>3 DEF Polled
    <3>4. CASE Ask(f, "sleep")
      BY <2>1, <3>1, <3>2, <3>4, Asks DEF Points
    <3>5. CASE End(f)
      BY <2>1, <3>1, <3>2, <3>5, Ends
    <3>6. QED
      BY <3>3, <3>4, <3>5
  <2>4. QED
    BY <2>2, <2>3
<1>11. CASE PollFails(f)
  <2>1. Typed /\ generation' = generation /\ End(f) /\ ~busy'
    BY <1>0, <1>11, <1>t DEF PollFails, Retries
  <2>2. QED
    BY <2>1, Ends
<1>12. CASE Started(f)
  <2> DEFINE status == flow[f].reply
  <2>1. status \in Statuses
    BY <1>12, <1>k DEF Started, Answered
  <2>2. /\ Monitor(f, status) /\ shown' = status
        /\ busy' = (status = "running") /\ retry' = Offered(status)
    BY <1>12 DEF Started, Render
  <2>3. Typed
    BY <1>k, <1>t, <2>1, <2>2
  <2>4. QED
    BY <2>2, <2>3, Follows
<1>13. CASE StartFails(f)
  <2>1. Typed /\ generation' = generation /\ End(f) /\ ~busy'
    BY <1>0, <1>13, <1>t DEF StartFails, Retries
  <2>2. QED
    BY <2>1, Ends
<1>14. CASE Managed(f)
  <2>1. /\ generation' = generation /\ UNCHANGED <<shown, retry>>
        /\ flow[f].at = "managing"
    BY <1>14 DEF Managed, Answered
  <2>2. CASE Ask(f, "launch") /\ busy' = busy
    <3>1. flow[f].kind \notin {"none", "monitor"} \/ flow[f].kind = "monitor"
      BY <1>k, <2>1
    <3>2. Typed
      BY <1>0, <1>t, <2>1, <2>2
    <3>3. QED
      BY <1>k, <2>1, <2>2, <3>2, Asks DEF Points
  <2>3. CASE End(f) /\ busy' = FALSE
    <3>1. Typed
      BY <1>0, <1>t, <2>1, <2>3
    <3>2. QED
      BY <2>1, <2>3, <3>1, Ends
  <2>4. QED
    BY <1>14, <2>2, <2>3 DEF Managed
<1>15. CASE ManageFails(f)
  <2>1. shown' = shown /\ generation' = generation
    BY <1>15 DEF ManageFails
  <2>2. CASE retry' = "manage" /\ busy' = FALSE /\ End(f)
    <3>1. Typed
      BY <1>0, <1>t, <2>1, <2>2 DEF Retries
    <3>2. QED
      BY <2>1, <2>2, <3>1, Ends
  <2>3. CASE Occupy /\ Become(f, "afterswitch", "reading")
    <3>1. Typed
      BY <1>0, <1>t, <2>1, <2>3 DEF Occupy, Retries
    <3>2. QED
      BY <2>1, <2>3, <3>1, Turns DEF Kinds, Loads, Points
  <2>4. QED
    BY <1>15, <2>2, <2>3 DEF ManageFails
<1>16. CASE Launched(f)
  <2>1. Typed /\ generation' = generation /\ End(f) /\ ~busy'
    BY <1>0, <1>16, <1>t DEF Launched, Retries
  <2>2. QED
    BY <2>1, Ends
<1>17. QED
  BY <1>1, <1>2, <1>3, <1>4, <1>5, <1>6, <1>7, <1>8, <1>9, <1>10, <1>11,
     <1>12, <1>13, <1>14, <1>15, <1>16
  DEF Continue

LEMMA ClicksStep ==
  ASSUME PageInv, NEW f \in Flows, Clicks(f)
  PROVE  PageInv'
<1>1. ASSUME NEW kind \in Kinds \ {"none", "monitor"},
             NEW point \in Points \ {"none", "sleep", "poll"},
             Click(f, kind, point)
      PROVE  PageInv'
  <2>1. Typed
    BY <1>1 DEF PageInv, TypeOK, Typed, Click, Occupy, Retries
  <2>2. Become(f, kind, point) /\ generation' = generation
    BY <1>1 DEF Click
  <2>3. QED
    BY <2>1, <2>2, Turns
<1>2. PICK kind \in Kinds \ {"none", "monitor"},
           point \in Points \ {"none", "sleep", "poll"} :
        Click(f, kind, point)
  BY DEF Clicks, Kinds, Loads, Points
<1>3. QED
  BY <1>1, <1>2

\* Installations end or begin elsewhere, or nothing happens: the page and its
\* flows stay.
LEMMA ElsewhereStep ==
  ASSUME PageInv, InstallEnds \/ OtherInstalls \/ UNCHANGED vars
  PROVE  PageInv'
<1>1. UNCHANGED <<flow, page>>
  BY DEF InstallEnds, OtherInstalls, vars
<1>2. TypeOK'
  <2>1. CASE InstallEnds
    <3>1. server' \in [status : Statuses, ready : BOOLEAN,
                      op : {"none", "install", "other"}]
      BY <2>1 DEF PageInv, TypeOK, InstallEnds, Statuses
    <3>2. UNCHANGED bounds
      BY <2>1 DEF InstallEnds
    <3>3. QED
      BY <1>1, <3>1, <3>2 DEF PageInv, TypeOK, page, bounds
  <2>2. CASE OtherInstalls
    <3>1. server' \in [status : Statuses, ready : BOOLEAN,
                      op : {"none", "install", "other"}]
      BY <2>2 DEF PageInv, TypeOK, OtherInstalls, Install, Statuses
    <3>2. clicks' \in Nat /\ faults' \in Nat /\ others' \in Nat
      BY <2>2 DEF PageInv, TypeOK, OtherInstalls
    <3>3. QED
      BY <1>1, <3>1, <3>2 DEF PageInv, TypeOK, page
  <2>3. CASE UNCHANGED vars
    BY <2>3 DEF PageInv, TypeOK, vars, page, bounds
  <2>4. QED
    BY <2>1, <2>2, <2>3
<1>3. QED
  BY <1>1, <1>2 DEF PageInv, Fits, ControlsHeld, OneMonitor, page

LEMMA PageInductive == PageInv /\ [Next]_vars => PageInv'
<1> SUFFICES ASSUME PageInv, [Next]_vars PROVE PageInv'
  OBVIOUS
<1>1. CASE \E f \in Flows : Serve(f) \/ Continue(f) \/ Clicks(f) \/ Lost(f)
  BY <1>1, ServeStep, ContinueStep, ClicksStep
<1>2. CASE InstallEnds \/ OtherInstalls \/ UNCHANGED vars
  BY <1>2, ElsewhereStep
<1>3. QED
  BY <1>1, <1>2 DEF Next

LEMMA PageAlways == Spec => []PageInv
<1>1. QED
  BY InitPage, PageInductive, PTL DEF Spec

-----------------------------------------------------------------------------

\* The page's variables keep their types: a flow has a call exactly while it
\* is under way, and a monitor a number that has been given out
\* (setupMonitorGeneration).
THEOREM TypeCorrect == Spec => []TypeOK
<1>1. PageInv => TypeOK
  BY DEF PageInv
<1>2. QED
  BY <1>1, PageAlways, PTL

\* However many flows overlap and whatever fails, disabled controls without
\* an installation on the page have a flow behind them that is no monitor
\* (setAccountBusy and the finally of every flow).
THEOREM ControlsNotForgotten == Spec => []ControlsHeld
<1>1. PageInv => ControlsHeld
  BY DEF PageInv
<1>2. QED
  BY <1>1, PageAlways, PTL

\* However many flows begin a monitor, one at most goes on polling
\* (monitorSetup, setupMonitorGeneration).
THEOREM OneFollows == Spec => []OneMonitor
<1>1. PageInv => OneMonitor
  BY DEF PageInv
<1>2. QED
  BY <1>1, PageAlways, PTL

=============================================================================
