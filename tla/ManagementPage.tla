--------------------------- MODULE ManagementPage ---------------------------
(***************************************************************************)
(* The management page, ui/app.js with ui/state.mjs: what it shows, whether *)
(* its controls accept a click, and the flows that are under way.           *)
(*                                                                         *)
(* A flow is an asynchronous function of the page; between two awaits it   *)
(* runs alone.  Flows overlap: the controls are released in the middle of  *)
(* a reload, and a monitor polls once a second.  A call is asked, handled  *)
(* by the manager at some moment and answered at a later one, so answers   *)
(* arrive in any order.  Another client may start an installation.         *)
(***************************************************************************)
EXTENDS Naturals, FiniteSets

CONSTANTS
  Flows,        \* bound: flows under way at the same time
  MaxClicks,    \* bound: clicks of the user
  MaxFaults,    \* bound: calls that fail on their way
  MaxOthers     \* bound: installations other clients start

ASSUME PageAssumption ==
  MaxClicks \in Nat /\ MaxFaults \in Nat /\ MaxOthers \in Nat

VARIABLES
  server,       \* what the manager knows (SetupLifecycle, much abstracted)
  flow,         \* the flows under way
  shown,        \* setupState.status
  busy,         \* accountBusy: the controls are disabled
  retry,        \* errorRetryAction
  generation,   \* setupMonitorGeneration
  clicks, faults, others

page == <<shown, busy, retry, generation>>
bounds == <<clicks, faults, others>>
vars == <<server, flow, page, bounds>>

Statuses == {"pending", "running", "succeeded", "failed"}

\* The reloads: after a click, after a failed poll, and those that start no
\* monitor: at the end of an installation and after a refused switch.
Loads == {"reload", "recheck", "quiet", "afterswitch"}
Kinds == Loads \union {"none", "monitor", "start", "confirm", "manage"}
Points == {"none", "reading", "prepare", "discover", "ensure", "sleep", "poll",
           "start", "manage", "managing", "launch"}
Calls == {"prepare", "discover", "ensure", "poll", "start", "manage",
          "managing", "launch"}
Retries == {"none", "reload", "recheck", "quiet", "start", "manage", "launch"}

NoFlow == [kind |-> "none", at |-> "none", gen |-> 0, got |-> {},
           operating |-> FALSE, ready |-> FALSE, setup |-> "pending",
           reply |-> "none"]

\* The page opens: loadState({ ensureReady: true }).
Init ==
  /\ \E status \in Statuses, ready \in BOOLEAN :
       server = [status |-> status, ready |-> ready,
                 op |-> IF status = "running" THEN "install" ELSE "none"]
  /\ \E f \in Flows :
       flow = [g \in Flows |->
                 IF g = f THEN [NoFlow EXCEPT !.kind = "reload", !.at = "reading"]
                          ELSE NoFlow]
  /\ shown = "pending"
  /\ busy = TRUE /\ retry = "none" /\ generation = 0
  /\ clicks = 0 /\ faults = 0 /\ others = 0

Free(f) == flow[f].kind = "none"
Quiet == \A f \in Flows : Free(f)

\* The flow goes on with another call, or ends.
Ask(f, point) == flow' = [flow EXCEPT ![f].at = point, ![f].reply = "none"]
End(f) == flow' = [flow EXCEPT ![f] = NoFlow]
Become(f, kind, point) ==
  flow' = [flow EXCEPT ![f] = [NoFlow EXCEPT !.kind = kind, !.at = point]]

\* An answer the flow can go on with.
Answered(f, point) ==
  flow[f].at = point /\ flow[f].reply \notin {"none", "error"}
Failed(f, point) == flow[f].at = point /\ flow[f].reply = "error"

-----------------------------------------------------------------------------
(* The manager. *)

Waits(f, point) == flow[f].at = point /\ flow[f].reply = "none"
Reply(f, answer) == flow' = [flow EXCEPT ![f].reply = answer]

ReadCredential(f) ==
  /\ Waits(f, "reading") /\ "credential" \notin flow[f].got
  /\ flow' = [flow EXCEPT ![f].got = @ \union {"credential"},
                          ![f].ready = server.ready,
                          ![f].operating = server.op # "none"]
  /\ UNCHANGED <<server, page, bounds>>

ReadSetup(f) ==
  /\ Waits(f, "reading") /\ "setup" \notin flow[f].got
  /\ flow' = [flow EXCEPT ![f].got = @ \union {"setup"},
                          ![f].setup = server.status]
  /\ UNCHANGED <<server, page, bounds>>

\* prepareLocalState, refused while another operation runs.
ServePrepare(f) ==
  /\ Waits(f, "prepare")
  /\ IF server.op # "none"
       THEN Reply(f, "error") /\ UNCHANGED server
       ELSE /\ server' = [server EXCEPT !.ready = TRUE]
            /\ flow' = [flow EXCEPT ![f].reply = "done", ![f].ready = TRUE,
                                    ![f].operating = FALSE]
  /\ UNCHANGED <<page, bounds>>

\* discoverWorkspaces, which warns of a failure of its own.
ServeDiscover(f) ==
  /\ Waits(f, "discover")
  /\ Reply(f, "done")
  /\ UNCHANGED <<server, page, bounds>>

Install == [server EXCEPT !.status = "running", !.op = "install"]

\* ensureCodexReady initializes the local data if that is left to do; then it
\* answers what it finds or starts an installation.  Another operation refuses
\* the first and the last.
ServeEnsure(f) ==
  /\ Waits(f, "ensure")
  /\ \/ /\ server.op = "none" \/ server.ready
        /\ server' = [server EXCEPT !.ready = TRUE]
        /\ Reply(f, server.status)
     \/ /\ server.op = "none" /\ server.status # "running"
        /\ server' = [Install EXCEPT !.ready = TRUE]
        /\ Reply(f, "running")
     \/ /\ server.op # "none" /\ (server.status # "running" \/ ~server.ready)
        /\ Reply(f, "error")
        /\ UNCHANGED server
  /\ UNCHANGED <<page, bounds>>

ServePoll(f) ==
  /\ Waits(f, "poll")
  /\ Reply(f, server.status)
  /\ UNCHANGED <<server, page, bounds>>

\* setupRetry and initializeWorkspace, which has nothing to do for a workspace
\* that is ready; a conflict or a refusal is an error.
ServeStart(f) ==
  /\ Waits(f, "start")
  /\ \/ server.op = "none" /\ server' = Install /\ Reply(f, "running")
     \/ /\ server.op = "none" /\ server.status = "succeeded"
        /\ Reply(f, "succeeded")
        /\ UNCHANGED server
     \/ Reply(f, "error") /\ UNCHANGED server
  /\ UNCHANGED <<page, bounds>>

\* A change of workspaces or profiles holds the reservation for a while.
BeginManage(f) ==
  /\ Waits(f, "manage")
  /\ \/ /\ server.op = "none"
        /\ server' = [server EXCEPT !.op = "other"]
        /\ Ask(f, "managing")
     \/ Reply(f, "error") /\ UNCHANGED server
  /\ UNCHANGED <<page, bounds>>

EndManage(f) ==
  /\ Waits(f, "managing")
  /\ server' = [server EXCEPT !.op = "none"]
  /\ Reply(f, "done") \/ Reply(f, "error")
  /\ UNCHANGED <<page, bounds>>

ServeLaunch(f) ==
  /\ Waits(f, "launch")
  /\ \E answer \in {"done", "error"} :
       (answer = "done" => server.op = "none") /\ Reply(f, answer)
  /\ UNCHANGED <<server, page, bounds>>

InstallEnds ==
  /\ server.status = "running"
  /\ \E status \in {"succeeded", "failed"} :
       server' = [server EXCEPT !.status = status, !.op = "none"]
  /\ UNCHANGED <<flow, page, bounds>>

OtherInstalls ==
  /\ others < MaxOthers /\ server.op = "none"
  /\ others' = others + 1
  /\ server' = Install
  /\ UNCHANGED <<flow, page, clicks, faults>>

\* A call is lost, or its answer is.
Lost(f) ==
  /\ flow[f].at \in (Calls \union {"reading"}) \ {"managing"}
  /\ flow[f].reply = "none" /\ faults < MaxFaults
  /\ faults' = faults + 1
  /\ Reply(f, "error")
  /\ UNCHANGED <<server, page, clicks, others>>

-----------------------------------------------------------------------------
(* What the page shows. *)

\* renderSetupState: the controls follow the status alone, and a failed
\* installation offers its retry.
Offered(status) == IF status = "failed" THEN "start" ELSE retry
Render(status) ==
  shown' = status /\ busy' = (status = "running") /\ retry' = Offered(status)

\* clearNotices and setAccountBusy(true), with which a flow begins.
Occupy == busy' = TRUE /\ retry' = "none"

\* Bug: the number is taken before it is counted up (setupMonitorGeneration++).
MonitorUnnumbered(f, status) ==
  /\ flow' = [flow EXCEPT ![f] =
                IF status = "running"
                THEN [NoFlow EXCEPT !.kind = "monitor", !.at = "sleep",
                                    !.gen = generation]
                ELSE NoFlow]
  /\ generation' = generation + 1

\* monitorSetup supersedes every older monitor; it ends at once unless an
\* installation is shown.
Monitor(f, status) ==
  /\ flow' = [flow EXCEPT ![f] =
                IF status = "running"
                THEN [NoFlow EXCEPT !.kind = "monitor", !.at = "sleep",
                                    !.gen = generation + 1]
                ELSE NoFlow]
  /\ generation' = generation + 1

-----------------------------------------------------------------------------
(* loadState and ensureCodexReady. *)

Loading(f) == flow[f].kind \in Loads
Read(f) ==
  Loading(f) /\ Waits(f, "reading") /\ flow[f].got = {"credential", "setup"}

\* The local data still has to be initialized.
LoadPrepare(f) ==
  /\ Read(f) /\ flow[f].kind = "reload" /\ ~flow[f].ready
  /\ Ask(f, "prepare")
  /\ UNCHANGED <<server, page, bounds>>

\* The local state is rendered, which may release the controls, before the
\* slow discovery.
LoadShow(f) ==
  /\ \/ Read(f) /\ (flow[f].kind = "reload" => flow[f].ready)
     \/ Answered(f, "prepare")
  /\ Render(flow[f].setup)
  /\ Ask(f, "discover")
  /\ UNCHANGED <<server, generation, bounds>>

\* The discovery is there, or has failed, which is a warning (app.js:833).
Discovered(f) ==
  Loading(f) /\ flow[f].at = "discover" /\ flow[f].reply # "none"

\* The credential that was read at the beginning is rendered once more; then
\* the readiness is checked,
LoadChecks(f) ==
  /\ Discovered(f)
  /\ flow[f].kind = "reload" /\ ~flow[f].operating
  /\ busy' = TRUE /\ retry' = Offered(shown)
  /\ Ask(f, "ensure")
  /\ UNCHANGED <<server, shown, generation, bounds>>

\* or an installation is followed,
LoadFollows(f) ==
  /\ Discovered(f)
  /\ flow[f].kind = "recheck" \/ (flow[f].kind = "reload" /\ flow[f].operating)
  /\ shown = "running"
  /\ Render(shown)
  /\ Monitor(f, shown)
  /\ UNCHANGED <<server, bounds>>

\* or nothing is left to do; after a refused switch its error is shown and
\* the controls are released whatever is going on.
LoadEnds(f) ==
  /\ Discovered(f)
  /\ ~(flow[f].kind = "reload" /\ ~flow[f].operating)
  /\ ~(flow[f].kind \in {"reload", "recheck"} /\ shown = "running")
  /\ IF flow[f].kind = "afterswitch"
       THEN busy' = FALSE /\ retry' = "manage"
       ELSE busy' = (shown = "running") /\ retry' = Offered(shown)
  /\ End(f)
  /\ UNCHANGED <<server, shown, generation, bounds>>

\* Bug: the controls stay disabled after a reload that failed.
LoadFailsBusy(f) ==
  /\ Loading(f)
  /\ \E point \in {"reading", "prepare", "ensure"} : Failed(f, point)
  /\ retry' = IF flow[f].kind = "afterswitch" THEN "manage" ELSE flow[f].kind
  /\ busy' = busy
  /\ End(f)
  /\ UNCHANGED <<server, shown, generation, bounds>>

\* The catch and the finally of loadState: the controls are released unless
\* the page shows an installation, whatever is known of it.
LoadFails(f) ==
  /\ Loading(f)
  /\ \E point \in {"reading", "prepare", "ensure"} : Failed(f, point)
  /\ IF flow[f].kind = "afterswitch"
       THEN retry' = "manage" /\ busy' = FALSE
       ELSE retry' = flow[f].kind /\ busy' = (busy /\ shown = "running")
  /\ End(f)
  /\ UNCHANGED <<server, shown, generation, bounds>>

\* The readiness is there; an installation under way is followed, and
\* without a workspace one has to be chosen.
Ensured(f) ==
  /\ Answered(f, "ensure")
  /\ LET status == flow[f].reply IN
       /\ shown' = status /\ busy' = (status = "running")
       /\ retry' \in IF status = "running" THEN {retry}
                      ELSE {"reload"} \union (IF status = "pending" THEN {}
                                              ELSE {Offered(status)})
       /\ IF status = "running" THEN Monitor(f, status)
                                ELSE End(f) /\ UNCHANGED generation
  /\ UNCHANGED <<server, bounds>>

\* The same call from the button that confirms a workspace.
ConfirmFails(f) ==
  /\ flow[f].kind = "confirm" /\ Failed(f, "ensure")
  /\ retry' = "none" /\ busy' = (shown = "running")
  /\ End(f)
  /\ UNCHANGED <<server, shown, generation, bounds>>

-----------------------------------------------------------------------------
(* monitorSetup. *)

\* A second is over.
Wake(f) ==
  /\ flow[f].at = "sleep"
  /\ IF flow[f].gen = generation THEN Ask(f, "poll") ELSE End(f)
  /\ UNCHANGED <<server, page, bounds>>

\* The status is shown even when a newer monitor has begun.
Polled(f) ==
  /\ Answered(f, "poll")
  /\ LET status == flow[f].reply IN
       /\ shown' = status
       /\ IF status = "succeeded"
            THEN Occupy /\ Become(f, "quiet", "reading")
            ELSE /\ busy' = (status = "running") /\ retry' = Offered(status)
                 /\ IF status = "running" /\ flow[f].gen = generation
                      THEN Ask(f, "sleep") ELSE End(f)
  /\ UNCHANGED <<server, generation, bounds>>

PollFails(f) ==
  /\ Failed(f, "poll")
  /\ busy' = FALSE /\ retry' = "recheck"
  /\ End(f)
  /\ UNCHANGED <<server, shown, generation, bounds>>

-----------------------------------------------------------------------------
(* retrySetup and initializeWorkspace; the changes of workspaces and        *)
(* profiles; launch after activation.                                       *)

Started(f) ==
  /\ Answered(f, "start")
  /\ Render(flow[f].reply)
  /\ Monitor(f, flow[f].reply)
  /\ UNCHANGED <<server, bounds>>

StartFails(f) ==
  /\ Failed(f, "start")
  /\ busy' = FALSE /\ retry' = "start"
  /\ End(f)
  /\ UNCHANGED <<server, shown, generation, bounds>>

\* The answer is shown; an activation goes on with the launch.
Managed(f) ==
  /\ Answered(f, "managing")
  /\ \/ Ask(f, "launch") /\ busy' = busy
     \/ End(f) /\ busy' = FALSE
  /\ UNCHANGED <<server, shown, retry, generation, bounds>>

\* A refused switch of the profile reloads before it shows its error.
ManageFails(f) ==
  /\ Failed(f, "manage") \/ Failed(f, "managing")
  /\ \/ retry' = "manage" /\ busy' = FALSE /\ End(f)
     \/ Occupy /\ Become(f, "afterswitch", "reading")
  /\ UNCHANGED <<server, shown, generation, bounds>>

Launched(f) ==
  /\ flow[f].at = "launch" /\ flow[f].reply # "none"
  /\ busy' = FALSE
  /\ IF flow[f].reply = "error" THEN retry' \in {"launch", "manage"}
                                 ELSE UNCHANGED retry
  /\ End(f)
  /\ UNCHANGED <<server, shown, generation, bounds>>

-----------------------------------------------------------------------------
(* The user. *)

Click(f, kind, point) ==
  /\ ~busy /\ Free(f) /\ clicks < MaxClicks
  /\ clicks' = clicks + 1
  /\ Become(f, kind, point)
  /\ Occupy
  /\ UNCHANGED <<server, shown, generation, faults, others>>

\* What each panel offers, and the button of the error notice.
Clicks(f) ==
  \/ Click(f, "reload", "reading")
  \/ shown \in {"failed", "succeeded"} /\ Click(f, "start", "start")
  \/ shown = "pending" /\ Click(f, "confirm", "ensure")
  \/ shown = "succeeded" /\ \E point \in {"manage", "launch"} : Click(f, "manage", point)
  \/ retry \in Loads /\ Click(f, retry, "reading")
  \/ retry = "start" /\ Click(f, "start", "start")
  \/ retry = "manage" /\ Click(f, "manage", "manage")
  \/ retry = "launch" /\ Click(f, "manage", "launch")

Serve(f) ==
  \/ ReadCredential(f) \/ ReadSetup(f) \/ ServePrepare(f) \/ ServeDiscover(f)
  \/ ServeEnsure(f) \/ ServePoll(f) \/ ServeStart(f) \/ BeginManage(f)
  \/ EndManage(f) \/ ServeLaunch(f)

Continue(f) ==
  \/ LoadPrepare(f) \/ LoadShow(f) \/ LoadChecks(f) \/ LoadFollows(f)
  \/ LoadEnds(f) \/ LoadFails(f) \/ Ensured(f) \/ ConfirmFails(f)
  \/ Wake(f) \/ Polled(f) \/ PollFails(f) \/ Started(f) \/ StartFails(f)
  \/ Managed(f) \/ ManageFails(f) \/ Launched(f)

Next ==
  \/ \E f \in Flows : Serve(f) \/ Continue(f) \/ Clicks(f) \/ Lost(f)
  \/ InstallEnds \/ OtherInstalls

Spec == Init /\ [][Next]_vars

\* Calls are answered or fail by their deadlines, installations end
\* (SetupLifecycle, InstallationEnds), and the page's event loop is fair.
\* Nobody has to click.
FairSpec ==
  /\ Spec
  /\ WF_vars(InstallEnds)
  /\ \A f \in Flows : WF_vars(Serve(f)) /\ WF_vars(Continue(f))

-----------------------------------------------------------------------------
(* Correctness. *)

FlowRecord == [kind : Kinds, at : Points, gen : Nat,
               got : SUBSET {"credential", "setup"},
               operating : BOOLEAN, ready : BOOLEAN, setup : Statuses,
               reply : Statuses \union {"none", "done", "error"}]

TypeOK ==
  /\ server \in [status : Statuses, ready : BOOLEAN,
                 op : {"none", "install", "other"}]
  /\ flow \in [Flows -> FlowRecord]
  /\ \A f \in Flows :
       /\ (flow[f].kind = "none") <=> (flow[f].at = "none")
       /\ flow[f].kind = "monitor" => flow[f].gen \in 1 .. generation
  /\ shown \in Statuses
  /\ busy \in BOOLEAN /\ retry \in Retries /\ generation \in Nat
  /\ clicks \in Nat /\ faults \in Nat /\ others \in Nat

\* Controls that a flow disabled come back: whatever fails, and however the
\* flows overlap, the page releases them or shows an installation, to which
\* its monitor belongs (setAccountBusy, the finally of every flow).
ControlsReturn ==
  (busy /\ shown # "running") ~> (~busy \/ shown = "running")

\* While no installation is shown, disabled controls have a flow behind them
\* that will release them, and not only a monitor, which may end in silence
\* because a newer one has superseded it (app.js: monitorSetup).
ControlsHeld ==
  busy /\ shown # "running" =>
    \E f \in Flows : flow[f].kind \notin {"none", "monitor"}

\* However the flows overlap, one monitor at most goes on polling
\* (setupMonitorGeneration).
OneMonitor ==
  \A f, g \in Flows :
    /\ flow[f].kind = "monitor" /\ flow[f].gen = generation
    /\ flow[g].kind = "monitor" /\ flow[g].gen = generation
    => f = g

\* A poll that fails makes the page offer a recheck instead of the progress it
\* cannot follow any more, and the offer can be taken as often as it fails:
\* no state with the offer has all controls disabled and nothing under way.
\* It does not hold: README, section 5.
RecheckOffered == Quiet /\ retry = "recheck" => ~busy

=============================================================================
