-------------------------- MODULE Installer_proofs --------------------------
(***************************************************************************)
(* Proofs about an installation: types, what its files say when it has     *)
(* ended, and that the application its guard closed comes back.            *)
(***************************************************************************)
EXTENDS Installer, TLAPS

-----------------------------------------------------------------------------
(* Types.                                                                  *)

LEMMA MarkTypes ==
  ASSUME NEW m \in Marks
  PROVE  m.step \in 1..6 /\ m.state \in StepStates /\ m.at \in Places
           /\ m.to \in Places
  BY SMT DEF Marks, Row, StepStates, Places, Calls

LEMMA CallTypes ==
  ASSUME NEW c \in Calls
  PROVE  c[1] \in Places /\ c[2] \in Places
  BY SMT DEF Calls, Places, Marks, Row

LEMMA PersistTypes ==
  ASSUME TypeOK, NEW to \in Places, NEW otherwise \in Places,
         Persist(to, otherwise), steps' \in [Steps -> StepStates]
  PROVE  /\ pc' \in Places /\ lost' \in BOOLEAN /\ faults' \in 0..MaxFaults
         /\ shown' \in [Steps -> StepStates] \union {NoFile}
  <1>1. CASE shown' = steps' /\ pc' = to /\ lost' = FALSE /\ UNCHANGED faults
    BY <1>1 DEF TypeOK
  <1>2. CASE /\ shown' \in {shown, steps'} /\ pc' = otherwise /\ lost' = TRUE
             /\ Fault
    <2>1. shown' \in [Steps -> StepStates] \union {NoFile}
      BY <1>2 DEF TypeOK
    <2>2. faults' \in 0..MaxFaults
      BY <1>2, InstallerAssumption DEF Fault, TypeOK
    <2> QED
      BY <1>2, <2>1, <2>2
  <1> QED
    BY <1>1, <1>2 DEF Persist

LEMMA SetStepTypes ==
  ASSUME TypeOK, NEW i \in 0..6, NEW state \in StepStates, NEW to \in Places,
         NEW otherwise \in Places, SetStep(i, state, to, otherwise),
         UNCHANGED <<windows, attempt, result, desktop, outcome, launch>>
  PROVE  TypeOK'
  <1>1. steps' \in [Steps -> StepStates]
    BY DEF SetStep, TypeOK, Steps
  <1>2. /\ pc' \in Places /\ lost' \in BOOLEAN /\ faults' \in 0..MaxFaults
        /\ shown' \in [Steps -> StepStates] \union {NoFile}
    BY <1>1, PersistTypes DEF SetStep
  <1> QED
    BY <1>1, <1>2 DEF TypeOK, SetStep, desktop

LEMMA CompleteTypes ==
  ASSUME TypeOK, NEW to \in Places, NEW otherwise \in Places,
         CompletePending(to, otherwise),
         UNCHANGED <<windows, attempt, current, result, desktop, outcome, launch>>
  PROVE  TypeOK'
  <1>1. steps' \in [Steps -> StepStates]
    BY DEF CompletePending, TypeOK, Steps, StepStates
  <1>2. /\ pc' \in Places /\ lost' \in BOOLEAN /\ faults' \in 0..MaxFaults
        /\ shown' \in [Steps -> StepStates] \union {NoFile}
    BY <1>1, PersistTypes DEF CompletePending
  <1> QED
    BY <1>1, <1>2 DEF TypeOK, desktop

LEMMA PlaceNames ==
  {"idle", "prepare", "clear", "create", "look", "copy", "decide", "stop",
   "quit", "initialize", "finalize", "script", "verify", "launch", "complete",
   "release", "drop", "fail", "skip", "report", "result", "done", "check",
   "kept", "kept2", "kept3", "kept4", "missing", "listing", "listed",
   "selected", "fetching", "fetched", "install", "installed", "profile",
   "configured", "last", "launched", "accept", "manifest", "list", "select",
   "package", "fetch", "capture"} = Places
  BY SMT DEF Places, Marks, Row, Calls

\* Every variable keeps its type, for any number of attempts and faults.
THEOREM Typed == Spec => []TypeOK
  <1>1. Init => TypeOK
    <2> SUFFICES ASSUME Init PROVE TypeOK
      OBVIOUS
    <2>1. steps \in [Steps -> StepStates] /\ current \in 0..6
      BY DEF Init, NoSteps, Steps, StepStates
    <2>2. app \in Profiles \union {"closed", "quitting"}
      BY DEF Init, Profiles
    <2>3. pc \in Places /\ attempt \in 0..MaxAttempts /\ faults \in 0..MaxFaults
      BY InstallerAssumption, PlaceNames DEF Init
    <2>4. closed \in BOOLEAN /\ lost \in BOOLEAN /\ windows \in BOOLEAN
      BY Zenon DEF Init
    <2>5. /\ shown \in {NoFile} /\ result = "absent" /\ selected \in Profiles
          /\ bundle \in {"absent", "whole"} /\ guard = "none" /\ user = "none"
          /\ outcome = "none" /\ launch = "none"
      BY Zenon DEF Init
    <2> QED
      BY <2>1, <2>2, <2>3, <2>4, <2>5 DEF TypeOK
  <1>2. TypeOK /\ [Next]_vars => TypeOK'
    <2> SUFFICES ASSUME TypeOK, [Next]_vars PROVE TypeOK'
      OBVIOUS
    <2> USE PlaceNames, InstallerAssumption
    <2>1. CASE Begin
      <3>1. steps' \in [Steps -> StepStates] /\ current' \in 0..6
        BY <2>1 DEF Begin, NoSteps, Steps, StepStates
      <3>2. attempt' \in 0..MaxAttempts
        BY <2>1 DEF Begin, TypeOK
      <3> QED
        BY <2>1, <3>1, <3>2 DEF Begin, TypeOK
    <2>2. CASE Prepare
      BY <2>2 DEF Prepare, TypeOK, Goto, counts, files, desktop
    <2>3. CASE PrepareFails
      BY <2>3 DEF PrepareFails, TypeOK, Goto, Fault, files, desktop
    <2>4. CASE Clear
      BY <2>4 DEF Clear, TypeOK, Goto, Fault, desktop
    <2>5. CASE Create
      <3>1. steps' \in [Steps -> StepStates] /\ current' \in 0..6
        BY <2>5 DEF Create, NoSteps, Steps, StepStates
      <3>2. /\ pc' \in Places /\ lost' \in BOOLEAN /\ faults' \in 0..MaxFaults
            /\ shown' \in [Steps -> StepStates] \union {NoFile}
        BY <2>5, <3>1, PersistTypes DEF Create
      <3> QED
        BY <2>5, <3>1, <3>2 DEF Create, TypeOK, desktop
    <2>6. CASE Mark
      <3> PICK m \in Marks : pc = m.at /\ SetStep(m.step, m.state, m.to, "drop")
        BY <2>6 DEF Mark
      <3> UNCHANGED <<windows, attempt, result, desktop, outcome, launch>>
        BY <2>6 DEF Mark
      <3> QED
        BY MarkTypes, SetStepTypes
    <2>7. CASE Call
      BY <2>7, CallTypes DEF Call, TypeOK, counts, files, desktop
    <2>8. CASE Look
      BY <2>8 DEF Look, TypeOK, Goto, counts, files, desktop
    <2>9. CASE Copy
      BY <2>9 DEF Copy, TypeOK, counts, files
    <2>10. CASE Decide
      BY <2>10 DEF Decide, TypeOK, counts, files
    <2>11. CASE AskQuit
      BY <2>11 DEF AskQuit, TypeOK, counts, files
    <2>12. CASE Quit
      <3>1. /\ pc' \in Places /\ guard' \in {"none", "idle", "armed", "running"}
            /\ user' \in {"none", "opened", "closed"}
        BY <2>12 DEF Quit, TypeOK
      <3>2. closed' \in BOOLEAN
        BY <2>12, Zenon DEF Quit, TypeOK
      <3> QED
        BY <2>12, <3>1, <3>2 DEF Quit, TypeOK, counts, files
    <2>13. CASE Initialize
      BY <2>13 DEF Initialize, TypeOK, counts, files, desktop
    <2>14. CASE Finalize
      BY <2>14 DEF Finalize, TypeOK, Profiles, counts, files
    <2>15. CASE Script
      BY <2>15 DEF Script, TypeOK, counts
    <2>16. CASE Verify
      BY <2>16 DEF Verify, TypeOK, counts, files, desktop
    <2>17. CASE Launch
      BY <2>17 DEF Launch, TypeOK, Goto, Opened, Running, counts, files
    <2>18. CASE Complete
      BY <2>18, CompleteTypes DEF Complete
    <2>19. ASSUME NEW from \in Places, NEW to \in Places, Release(from, to)
           PROVE  TypeOK'
      <3>1. app' \in Profiles \union {"closed", "quitting"}
        BY <2>19 DEF Release, TypeOK, Opened
      <3>2. launch' \in {"none", "activated", "warning", "unasked"}
        BY <2>19 DEF Release, TypeOK
      <3> QED
        BY <2>19, <3>1, <3>2 DEF Release, TypeOK, Goto, counts, files
    <2>20. CASE FailCurrent
      BY <2>20, SetStepTypes DEF FailCurrent, TypeOK, StepStates
    <2>21. CASE SkipPending
      BY <2>21, CompleteTypes DEF SkipPending
    <2>22. ASSUME NEW from \in Places, NEW ok \in BOOLEAN, WriteResult(from, ok)
           PROVE  TypeOK'
      <3>1. /\ result' \in {"absent", "failed", "ok"}
            /\ outcome' \in {"none", "ok", "error"}
        BY <2>22 DEF WriteResult, TypeOK
      <3>2. lost' \in BOOLEAN
        BY <2>22, Zenon DEF WriteResult, TypeOK
      <3>3. faults' \in 0..MaxFaults
        BY <2>22 DEF WriteResult, TypeOK, Fault
      <3> QED
        BY <2>22, <3>1, <3>2, <3>3 DEF WriteResult, TypeOK, Goto, desktop
    <2>23. ASSUME NEW from \in Places, NEW value \in {"ok", "error"},
                  Return(from, value)
           PROVE  TypeOK'
      BY <2>23 DEF Return, TypeOK, Goto, counts, files, desktop
    <2>24. CASE Crash
      <3>1. bundle' \in {"absent", "partial", "whole"}
        BY <2>24 DEF Crash, TypeOK
      <3> QED
        BY <2>24, <3>1 DEF Crash, TypeOK, counts, files
    <2>25. ASSUME NEW state, NEW did, Acts(state, did),
                  state \in Profiles \union {"closed", "quitting"},
                  did \in {"none", "opened", "closed"}
           PROVE  TypeOK'
      BY <2>25 DEF Acts, TypeOK, counts, files
    <2>26. CASE Conclude
      BY <2>19, <2>20, <2>21, <2>22, <2>23, <2>26 DEF Conclude
    <2>27. CASE UserOpens \/ UserCloses \/ Quits \/ StaysOpen
      BY <2>25, <2>27 DEF UserOpens, UserCloses, Quits, StaysOpen, TypeOK
    <2>28. CASE UNCHANGED vars
      BY <2>28 DEF vars, TypeOK
    <2> QED
      BY <2>1, <2>2, <2>3, <2>4, <2>5, <2>6, <2>7, <2>8, <2>9, <2>10, <2>11,
         <2>12, <2>13, <2>14, <2>15, <2>16, <2>17, <2>18, <2>24, <2>26, <2>27,
         <2>28
      DEF Next, Work
  <1> QED
    BY <1>1, <1>2, PTL DEF Spec

-----------------------------------------------------------------------------
(* The progress.  Until it fails the installer is at a place that tells    *)
(* which step was marked last: those before it are final, those after it   *)
(* pending, and all of it is in the file.                                  *)

Final == {"completed", "skipped"}

\* The places between two writes of the macOS installer, and those of them
\* where the last step that was marked is final.
Stepping ==
  {"check", "look", "accept", "kept", "kept2", "kept3", "kept4", "missing",
   "manifest", "listing", "list", "listed", "select", "selected", "package",
   "fetching", "fetch", "fetched", "install", "copy", "capture", "installed",
   "profile", "decide", "stop", "quit", "initialize", "finalize", "configured",
   "last", "verify", "launch", "launched", "complete", "release", "result"}

Between ==
  {"kept2", "kept3", "kept4", "manifest", "listing", "select", "selected",
   "package", "fetching", "install", "profile", "last", "complete", "release",
   "result"}

\* The number of the last step that was marked.
Marked(place) ==
  IF place = "check" THEN 0
  ELSE IF place \in {"look", "accept", "kept", "kept2", "missing", "manifest",
                     "listing"} THEN 1
  ELSE IF place \in {"kept3", "list", "listed", "select", "selected", "package",
                     "fetching"} THEN 2
  ELSE IF place \in {"kept4", "fetch", "fetched", "install"} THEN 3
  ELSE IF place \in {"copy", "capture", "installed", "profile"} THEN 4
  ELSE IF place \in {"decide", "stop", "quit", "initialize", "finalize",
                     "configured", "last"} THEN 5
  ELSE 6

Tidy ==
  \A i \in Steps :
    /\ i < current => steps[i] \in Final
    /\ i > current => steps[i] = "pending"
    /\ i = current => steps[i] \in Final \union {"running"}

Forward ==
  ~windows /\ pc \in Stepping =>
    /\ ~lost /\ shown = steps
    /\ current = Marked(pc)
    /\ Tidy
    /\ pc \in Between => steps[current] \in Final

Failing ==
  ~windows /\ pc \in {"drop", "fail"} =>
    /\ lost \/ shown = steps
    /\ current \in Steps
    /\ Tidy

Failed ==
  ~windows /\ pc = "skip" =>
    /\ lost \/ shown = steps
    /\ current \in Steps /\ steps[current] = "failed"
    /\ \A i \in Steps \ {current} : steps[i] \in Final \union {"pending"}

Reported ==
  ~windows /\ pc = "report" =>
    /\ lost \/ shown = steps
    /\ \A i \in Steps : steps[i] \in Final \union {"failed"}
    /\ \E i \in Steps : steps[i] = "failed"

Progress == Forward /\ Failing /\ Failed /\ Reported /\ OutcomeShown

LEMMA MarkRows ==
  ASSUME NEW m \in Marks
  PROVE  /\ m.at \in Stepping /\ m.to \in Stepping
         /\ m.step \in Steps
         /\ Marked(m.to) = m.step
         /\ m.state \in Final \union {"running"}
         /\ m.to \in Between => m.state \in Final
         /\ \/ Marked(m.at) = m.step
            \/ /\ Marked(m.at) = m.step - 1
               /\ Marked(m.at) > 0 => m.at \in Between
  <1>1. m.at \in Stepping /\ m.to \in Stepping
    BY SMT DEF Marks, Row, Stepping
  <1>2. /\ m.step \in Steps
        /\ m.state \in Final \union {"running"}
        /\ m.to \in Between => m.state \in Final
    BY SMT DEF Marks, Row, Steps, Final, Between
  <1>3. Marked(m.to) = m.step
    BY SMT DEF Marks, Row, Marked
  <1>4. \/ Marked(m.at) = m.step
        \/ /\ Marked(m.at) = m.step - 1
           /\ Marked(m.at) > 0 => m.at \in Between
    BY SMT DEF Marks, Row, Marked, Between
  <1> QED
    BY <1>1, <1>2, <1>3, <1>4

LEMMA CallRows ==
  ASSUME NEW c \in Calls
  PROVE  /\ c[1] \in Stepping /\ c[2] \in Stepping
         /\ Marked(c[1]) = Marked(c[2]) /\ Marked(c[1]) \in Steps
         /\ c[2] \in Between => c[1] \in Between
  BY SMT DEF Calls, Stepping, Marked, Between, Steps

\* Going on, or failing, with the files as they are.
LEMMA Moves ==
  ASSUME Progress, UNCHANGED <<windows, steps, current, shown, lost>>,
         pc \in Stepping,
         \/ /\ pc' \in Stepping
            /\ Marked(pc') = Marked(pc)
            /\ pc' \in Between => pc \in Between
         \/ pc' = "drop" /\ Marked(pc) \in Steps
  PROVE  Progress'
  <1>1. CASE windows
    BY <1>1 DEF Progress, Forward, Failing, Failed, Reported, OutcomeShown
  <1>2. CASE ~windows
    <2>1. /\ ~lost /\ shown = steps /\ current = Marked(pc) /\ Tidy
          /\ pc \in Between => steps[current] \in Final
      BY <1>2 DEF Progress, Forward
    <2>2. Tidy'
      BY <2>1 DEF Tidy
    <2>3. CASE /\ pc' \in Stepping
               /\ Marked(pc') = Marked(pc)
               /\ pc' \in Between => pc \in Between
      <3>1. pc' \notin {"drop", "fail", "skip", "report", "done"}
        BY <2>3 DEF Stepping
      <3> QED
        BY <2>1, <2>2, <2>3, <3>1
        DEF Progress, Forward, Failing, Failed, Reported, OutcomeShown
    <2>4. CASE pc' = "drop" /\ Marked(pc) \in Steps
      <3>1. pc' \notin Stepping \union {"skip", "report", "done"}
        BY <2>4 DEF Stepping
      <3> QED
        BY <2>1, <2>2, <2>4, <3>1
        DEF Progress, Forward, Failing, Failed, Reported, OutcomeShown
    <2> QED
      BY <2>3, <2>4
  <1> QED
    BY <1>1, <1>2

\* At places that are not the macOS installer's, and on Windows, there is
\* nothing to show.
LEMMA Elsewhere ==
  ASSUME \/ windows'
         \/ /\ pc' \notin Stepping
            /\ pc' \notin {"drop", "fail", "skip", "report", "done"}
         \/ pc' = "done" /\ outcome' # "ok" /\ lost'
  PROVE  Progress'
  BY DEF Progress, Forward, Failing, Failed, Reported, OutcomeShown, Stepping

LEMMA Undisturbed ==
  ASSUME Progress,
         UNCHANGED <<windows, pc, steps, current, shown, result, outcome, lost>>
  PROVE  Progress'
  BY DEF Progress, Forward, Failing, Failed, Reported, OutcomeShown, Tidy

LEMMA MarkProgress ==
  ASSUME TypeOK, Progress, Mark
  PROVE  Progress'
  <1>1. PICK m \in Marks : pc = m.at /\ SetStep(m.step, m.state, m.to, "drop")
    BY DEF Mark
  <1>2. windows' = windows
    BY DEF Mark
  <1>3. CASE windows
    BY <1>2, <1>3, Elsewhere
  <1>4. CASE ~windows
    <2>1. /\ ~lost /\ shown = steps /\ current = Marked(pc) /\ Tidy
          /\ pc \in Between => steps[current] \in Final
      BY <1>1, <1>4, MarkRows DEF Progress, Forward
    <2>2. steps' = [steps EXCEPT ![m.step] = m.state] /\ current' = m.step
      BY <1>1 DEF SetStep
    <2>3. Tidy'
      <3> SUFFICES ASSUME NEW i \in Steps
                   PROVE  /\ i < m.step => steps'[i] \in Final
                          /\ i > m.step => steps'[i] = "pending"
                          /\ i = m.step => steps'[i] \in Final \union {"running"}
        BY <2>2 DEF Tidy
      <3>1. m.step \in Steps /\ steps \in [Steps -> StepStates]
        BY MarkRows DEF TypeOK
      <3>2. CASE i = m.step
        BY <2>2, <3>1, <3>2, MarkRows DEF Steps
      <3>3. CASE i # m.step
        <4>1. steps'[i] = steps[i]
          BY <2>2, <3>1, <3>3
        <4>2. i > m.step => i > current
          BY <1>1, <2>1, <3>1, MarkRows DEF Steps
        <4>3. i < m.step => i < current \/ (i = current /\ pc \in Between)
          BY <1>1, <2>1, <3>1, MarkRows DEF Steps
        <4> QED
          BY <2>1, <3>3, <4>1, <4>2, <4>3 DEF Tidy
      <3> QED
        BY <3>2, <3>3
    <2>4. steps'[m.step] = m.state
      BY <2>2, MarkRows DEF TypeOK
    <2>5. CASE shown' = steps' /\ pc' = m.to /\ lost' = FALSE
      <3>1. /\ pc' \in Stepping
            /\ pc' \notin {"drop", "fail", "skip", "report", "done"}
        BY <2>5, MarkRows DEF Stepping
      <3>2. pc' \in Between => steps'[current'] \in Final
        BY <2>2, <2>4, <2>5, MarkRows
      <3> QED
        BY <2>2, <2>3, <2>5, <3>1, <3>2, MarkRows
        DEF Progress, Forward, Failing, Failed, Reported, OutcomeShown
    <2>6. CASE pc' = "drop" /\ lost' = TRUE
      BY <2>2, <2>3, <2>6, MarkRows
      DEF Progress, Forward, Failing, Failed, Reported, OutcomeShown, Stepping
    <2> QED
      BY <1>1, <2>5, <2>6 DEF SetStep, Persist
  <1> QED
    BY <1>3, <1>4

LEMMA CreateProgress ==
  ASSUME Progress, Create
  PROVE  Progress'
  <1>1. CASE shown' = steps' /\ pc' = "check" /\ lost' = FALSE
    <2>1. steps' = NoSteps /\ current' = 0
      BY DEF Create
    <2>2. Tidy' /\ current' = Marked("check")
      BY <2>1 DEF Tidy, NoSteps, Steps, Marked
    <2> QED
      BY <1>1, <2>1, <2>2
      DEF Progress, Forward, Failing, Failed, Reported, OutcomeShown, Between
  <1>2. CASE pc' = "done" /\ lost' = TRUE
    BY <1>2, Elsewhere DEF Create
  <1> QED
    BY <1>1, <1>2 DEF Create, Persist

LEMMA CompleteProgress ==
  ASSUME TypeOK, Progress, Complete
  PROVE  Progress'
  <1>1. windows' = windows /\ current' = current /\ pc = "complete"
    BY DEF Complete
  <1>2. CASE windows
    BY <1>1, <1>2, Elsewhere
  <1>3. CASE ~windows
    <2>1. /\ current = 6 /\ Tidy /\ steps[current] \in Final
      BY <1>1, <1>3 DEF Progress, Forward, Stepping, Between, Marked
    <2>2. \A i \in Steps : steps[i] \in Final
      BY <2>1 DEF Tidy, Steps
    <2>3. \A i \in Steps : steps'[i] = steps[i]
      BY <2>2 DEF Complete, CompletePending, Final
    <2>4. Tidy' /\ current' = 6 /\ steps'[current'] \in Final
      BY <1>1, <2>1, <2>2, <2>3 DEF Tidy, Steps
    <2>5. CASE shown' = steps' /\ pc' = "release" /\ lost' = FALSE
      BY <2>4, <2>5
      DEF Progress, Forward, Failing, Failed, Reported, OutcomeShown, Marked
    <2>6. CASE pc' = "drop" /\ lost' = TRUE
      BY <2>4, <2>6
      DEF Progress, Forward, Failing, Failed, Reported, OutcomeShown, Stepping,
          Steps
    <2> QED
      BY <2>5, <2>6 DEF Complete, CompletePending, Persist
  <1> QED
    BY <1>2, <1>3

LEMMA FailProgress ==
  ASSUME TypeOK, Progress, FailCurrent, ~windows
  PROVE  Progress'
  <1>1. pc = "fail" /\ SetStep(current, "failed", "skip", "skip")
    BY DEF FailCurrent
  <1>2. current \in Steps /\ Tidy
    BY <1>1 DEF Progress, Failing
  <1>3. /\ steps' = [steps EXCEPT ![current] = "failed"] /\ current' = current
        /\ pc' = "skip" /\ (shown' = steps' \/ lost' = TRUE)
    BY <1>1 DEF SetStep, Persist
  <1>4. steps'[current] = "failed"
    BY <1>2, <1>3 DEF TypeOK
  <1>5. \A i \in Steps \ {current} : steps'[i] \in Final \union {"pending"}
    <2> SUFFICES ASSUME NEW i \in Steps \ {current}
                 PROVE  steps'[i] \in Final \union {"pending"}
      OBVIOUS
    <2>1. steps'[i] = steps[i]
      BY <1>3 DEF TypeOK
    <2>2. i < current \/ i > current
      BY <1>2 DEF Steps
    <2> QED
      BY <1>2, <2>1, <2>2 DEF Tidy
  <1> QED
    BY <1>2, <1>3, <1>4, <1>5
    DEF Progress, Forward, Failing, Failed, Reported, OutcomeShown, Stepping

LEMMA SkipProgress ==
  ASSUME TypeOK, Progress, SkipPending, ~windows
  PROVE  Progress'
  <1>1. /\ pc = "skip" /\ pc' = "report" /\ (shown' = steps' \/ lost' = TRUE)
        /\ steps' = [i \in Steps |->
                        IF steps[i] = "pending" THEN "skipped" ELSE steps[i]]
    BY DEF SkipPending, CompletePending, Persist
  <1>2. /\ current \in Steps /\ steps[current] = "failed"
        /\ \A i \in Steps \ {current} : steps[i] \in Final \union {"pending"}
    BY <1>1 DEF Progress, Failed
  <1>3. steps'[current] = "failed"
    BY <1>1, <1>2
  <1>4. \A i \in Steps : steps'[i] \in Final \union {"failed"}
    BY <1>1, <1>2 DEF Final
  <1> QED
    BY <1>1, <1>2, <1>3, <1>4
    DEF Progress, Forward, Failing, Failed, Reported, OutcomeShown, Stepping

LEMMA ResultProgress ==
  ASSUME Progress, ~windows, WriteResult("report", FALSE) \/ WriteResult("result", TRUE)
  PROVE  Progress'
  <1>1. /\ pc' = "done" /\ windows' = windows
        /\ steps' = steps /\ shown' = shown
    BY DEF WriteResult, Goto
  <1>2. CASE outcome' = "error" /\ lost' = TRUE
    BY <1>1, <1>2, Elsewhere
  <1>3. CASE /\ WriteResult("report", FALSE)
             /\ result' = "failed" /\ outcome' = "error" /\ lost' = lost
    <2>1. /\ lost \/ shown = steps
          /\ \A i \in Steps : steps[i] \in Final \union {"failed"}
          /\ \E i \in Steps : steps[i] = "failed"
      BY <1>3 DEF WriteResult, Goto, Progress, Reported
    <2>2. OutcomeShown'
      BY <1>1, <1>3, <2>1 DEF OutcomeShown, Final
    <2> QED
      BY <1>1, <2>2
      DEF Progress, Forward, Failing, Failed, Reported, Stepping
  <1>4. CASE /\ WriteResult("result", TRUE)
             /\ result' = "ok" /\ outcome' = "ok" /\ lost' = lost
    <2>1. pc = "result"
      BY <1>4 DEF WriteResult, Goto
    <2>2. /\ ~lost /\ shown = steps /\ current = 6 /\ Tidy
          /\ steps[current] \in Final
      BY <2>1 DEF Progress, Forward, Stepping, Between, Marked
    <2>3. \A i \in Steps : steps[i] \in Final
      BY <2>2 DEF Tidy, Steps
    <2>4. OutcomeShown'
      BY <1>1, <1>4, <2>2, <2>3 DEF OutcomeShown, Final
    <2> QED
      BY <1>1, <2>4
      DEF Progress, Forward, Failing, Failed, Reported, Stepping
  <1> QED
    BY <1>2, <1>3, <1>4 DEF WriteResult

OnWindows == pc = "script" => windows

LEMMA ScriptOnWindows ==
  ASSUME OnWindows, [Next]_vars
  PROVE  OnWindows'
  <1>1. windows' = windows
    BY DEF Next, Work, Conclude, Begin, Prepare, PrepareFails, Clear, Create,
           Mark, Call, Look, Copy, Decide, AskQuit, Quit, Initialize, Finalize,
           Script, Verify, Launch, Complete, FailCurrent, SkipPending, Release,
           WriteResult, Return, Crash, UserOpens, UserCloses, Quits, StaysOpen,
           Acts, counts, vars
  <1>2. CASE Mark
    <2>1. PICK m \in Marks : SetStep(m.step, m.state, m.to, "drop")
      BY <1>2 DEF Mark
    <2> QED
      BY <2>1, MarkRows DEF SetStep, Persist, Stepping, OnWindows
  <1>3. CASE Call
    BY <1>3, CallRows DEF Call, Stepping, OnWindows
  <1>4. CASE pc' = pc
    BY <1>1, <1>4 DEF OnWindows
  <1>5. CASE /\ [Next]_vars /\ ~Mark /\ ~Call /\ ~Clear
             /\ pc' # pc
    <2>1. pc' # "script"
      BY <1>5
      DEF Next, Work, Conclude, Begin, Prepare, PrepareFails, Create, Look,
          Copy, Decide, AskQuit, Quit, Initialize, Finalize, Script, Verify,
          Launch, Complete, CompletePending, Persist, FailCurrent, SetStep,
          SkipPending, Release, WriteResult, Return, Goto, Crash, UserOpens,
          UserCloses, Quits, StaysOpen, Acts, vars
    <2> QED
      BY <2>1 DEF OnWindows
  <1>6. CASE Clear
    BY <1>1, <1>6 DEF Clear, Goto, OnWindows
  <1> QED
    BY <1>2, <1>3, <1>4, <1>5, <1>6

\* When the macOS installer has ended and could write its files, they say how:
\* every step is final, and one has failed exactly if the installation has.
THEOREM Shown == Spec => []OutcomeShown
  <1>1. Init => Progress /\ OnWindows
    BY DEF Init, Progress, Forward, Failing, Failed, Reported, OutcomeShown,
           Stepping, OnWindows
  <1>2. TypeOK /\ Progress /\ OnWindows /\ [Next]_vars => Progress'
    <2> SUFFICES ASSUME TypeOK, Progress, OnWindows, [Next]_vars
                 PROVE  Progress'
      OBVIOUS
    <2>1. CASE Begin \/ Prepare \/ PrepareFails
      BY <2>1, Elsewhere
      DEF Begin, Prepare, PrepareFails, Goto, Stepping, counts
    <2>2. CASE Clear
      BY <2>2, Elsewhere DEF Clear, Goto, Stepping
    <2>3. CASE Create
      BY <2>3, CreateProgress
    <2>4. CASE Mark
      BY <2>4, MarkProgress
    <2>5. CASE Call
      <3>1. PICK c \in Calls : pc = c[1] /\ pc' \in {c[2], "drop"}
        BY <2>5 DEF Call
      <3>2. UNCHANGED <<windows, steps, current, shown, lost>>
        BY <2>5 DEF Call, counts, files
      <3> QED
        BY <3>1, <3>2, CallRows, Moves
    <2>6. CASE Look \/ Copy \/ Decide \/ AskQuit \/ Quit \/ Initialize
      <3>1. UNCHANGED <<windows, steps, current, shown, lost>>
        BY <2>6
        DEF Look, Copy, Decide, AskQuit, Quit, Initialize, counts, files
      <3>2. /\ pc \in Stepping /\ Marked(pc) \in Steps
            /\ \/ pc' = "drop"
               \/ /\ pc' \in Stepping \ Between
                  /\ Marked(pc') = Marked(pc)
        BY <2>6
        DEF Look, Copy, Decide, AskQuit, Quit, Initialize, Goto, Stepping,
            Marked, Steps, Between
      <3> QED
        BY <3>1, <3>2, Moves
    <2>7. CASE Finalize \/ Verify \/ Launch
      <3>1. UNCHANGED <<windows, steps, current, shown, lost>>
        BY <2>7 DEF Finalize, Verify, Launch, counts, files
      <3>2. CASE windows
        BY <3>1, <3>2, Elsewhere
      <3>3. CASE ~windows
        <4>1. /\ pc \in Stepping /\ Marked(pc) \in Steps
              /\ \/ pc' = "drop"
                 \/ /\ pc' \in Stepping \ Between
                    /\ Marked(pc') = Marked(pc)
          BY <2>7, <3>3
          DEF Finalize, Verify, Launch, Goto, Stepping, Marked, Steps, Between
        <4> QED
          BY <3>1, <4>1, Moves
      <3> QED
        BY <3>2, <3>3
    <2>8. CASE Script
      <3>1. windows'
        BY <2>8 DEF Script, counts, OnWindows
      <3> QED
        BY <3>1, Elsewhere
    <2>9. CASE Complete
      BY <2>9, CompleteProgress
    <2>10. CASE Conclude
      <3>1. CASE windows
        <4>1. windows' = windows
          BY <2>10, <3>1 DEF Conclude, Release, Return, counts
        <4> QED
          BY <3>1, <4>1, Elsewhere
      <3>2. CASE ~windows
        <4>1. CASE Release("drop", "fail")
          BY <4>1
          DEF Release, Goto, counts, files, Progress, Forward, Failing, Failed,
              Reported, OutcomeShown, Stepping, Tidy
        <4>2. CASE Release("release", "result")
          <5>1. /\ UNCHANGED <<windows, steps, current, shown, lost>>
                /\ pc = "release" /\ pc' = "result"
            BY <4>2 DEF Release, Goto, counts, files
          <5> QED
            BY <5>1, Moves DEF Stepping, Marked, Between
        <4>3. CASE FailCurrent
          BY <3>2, <4>3, FailProgress
        <4>4. CASE SkipPending
          BY <3>2, <4>4, SkipProgress
        <4>5. CASE WriteResult("report", FALSE) \/ WriteResult("result", TRUE)
          BY <3>2, <4>5, ResultProgress
        <4> QED
          BY <2>10, <3>2, <4>1, <4>2, <4>3, <4>4, <4>5 DEF Conclude
      <3> QED
        BY <3>1, <3>2
    <2>11. CASE Crash
      BY <2>11, Elsewhere DEF Crash, Stepping
    <2>12. CASE UserOpens \/ UserCloses \/ Quits \/ StaysOpen
      BY <2>12, Undisturbed
      DEF UserOpens, UserCloses, Quits, StaysOpen, Acts, counts, files
    <2>13. CASE UNCHANGED vars
      BY <2>13, Undisturbed DEF vars
    <2> QED
      BY <2>1, <2>2, <2>3, <2>4, <2>5, <2>6, <2>7, <2>8, <2>9, <2>10, <2>11,
         <2>12, <2>13
      DEF Next, Work
  <1>3. OnWindows /\ [Next]_vars => OnWindows'
    BY ScriptOnWindows
  <1>4. Progress => OutcomeShown
    BY DEF Progress
  <1> QED
    BY <1>1, <1>2, <1>3, <1>4, Typed, PTL DEF Spec

-----------------------------------------------------------------------------
(* The application.  The guard is armed from the stop of the application   *)
(* to its launch or its drop, and meanwhile it owes the application.       *)

\* Before the application has been stopped.
Before ==
  \/ pc \in {"prepare", "create", "check", "look", "accept", "kept", "kept2",
             "kept3", "kept4", "missing", "manifest", "listing", "list",
             "listed", "select", "selected", "package", "fetching", "fetch",
             "fetched", "install", "copy", "capture", "installed", "profile",
             "decide", "stop", "quit"}
  \/ pc = "clear" /\ ~windows

\* From there to the launch.
Held ==
  \/ pc \in {"initialize", "finalize", "configured", "last", "script", "verify",
             "launch"}
  \/ pc = "clear" /\ windows

GivenUp == pc \in {"idle", "fail", "skip", "report", "result", "done"}

Owed ==
  closed =>
    /\ app # "quitting"
    /\ user = "opened" => Running
    /\ guard = "running" \/ launch = "warning" \/ user = "closed" \/ Running
    /\ user = "none" /\ guard = "running" => ~Running
    /\ launch = "activated" => guard = "none"
    /\ launch = "activated" /\ user = "none" => app = "mine"

Guarded ==
  /\ Before => ~closed /\ guard = "none" /\ launch = "none"
  /\ Held => launch = "none" /\ (closed => guard = "running")
  /\ GivenUp => guard = "none"
  /\ pc = "launch" => selected = "mine"
  /\ Owed

LEMMA GuardRows ==
  ASSUME NEW m \in Marks
  PROVE  /\ m.to \in {"look", "kept2", "kept3", "kept4", "manifest", "list",
                      "select", "package", "fetch", "install", "copy",
                      "profile", "decide"}
           => m.at \in {"check", "kept", "kept2", "kept3", "kept4", "missing",
                        "listing", "listed", "selected", "fetching", "fetched",
                        "install", "installed", "profile"}
         /\ m.to \in {"last", "verify"} => m.at \in {"configured", "last"}
         /\ m.to \in {"look", "kept2", "kept3", "kept4", "manifest", "list",
                      "select", "package", "fetch", "install", "copy",
                      "profile", "decide", "last", "verify", "complete"}
  BY SMT DEF Marks, Row

LEMMA Runs ==
  ASSUME TypeOK
  PROVE  Opened \in Profiles \union {"quitting"}
         /\ (Running => Opened = app) /\ (~Running => Opened = selected)
  BY DEF TypeOK, Opened, Running

\* Steps that touch neither the application nor what is known of it.
LEMMA Passing ==
  ASSUME Guarded, UNCHANGED <<windows, app, selected, guard, closed, user, launch>>,
         Before' => Before, Held' => Held, GivenUp' => GivenUp \/ Before,
         pc' = "launch" => pc = "launch"
  PROVE  Guarded'
  BY DEF Guarded, Owed, Running

LEMMA ReleaseGuarded ==
  ASSUME TypeOK, Guarded, NEW from, NEW to, Release(from, to),
         to \in {"fail", "result"}
  PROVE  Guarded'
  <1>1. /\ guard' = "none" /\ pc' = to
        /\ UNCHANGED <<windows, closed, user, selected>>
    BY DEF Release, Goto, counts
  <1>2. Owed'
    <2>1. CASE guard = "running" /\ app' = Opened /\ launch' = launch
      <3>1. closed => app # "quitting" /\ launch # "activated"
        BY <2>1 DEF Guarded, Owed
      <3>2. closed => app' \in Profiles
        BY <2>1, <3>1, Runs DEF Running, TypeOK
      <3> QED
        BY <1>1, <2>1, <3>1, <3>2 DEF Owed, Running, Profiles
    <2>2. CASE guard = "running" /\ app' = app /\ launch' = "warning"
      BY <1>1, <2>2 DEF Guarded, Owed, Running
    <2>3. CASE guard # "running" /\ UNCHANGED <<app, launch>>
      BY <1>1, <2>3 DEF Guarded, Owed, Running
    <2> QED
      BY <2>1, <2>2, <2>3 DEF Release
  <1> QED
    BY <1>1, <1>2 DEF Guarded, Before, Held, GivenUp

LEMMA LaunchGuarded ==
  ASSUME TypeOK, Guarded, Launch
  PROVE  Guarded'
  <1>1. /\ guard' = "none" /\ pc = "launch" /\ pc' \in {"release", "launched"}
        /\ UNCHANGED <<windows, closed, user, selected>>
    BY DEF Launch, Goto, counts
  <1>2. /\ closed => guard = "running"
        /\ selected = "mine"
    BY <1>1 DEF Guarded, Held
  <1>3. Owed'
    <2>1. CASE launch' = "activated" /\ app' = Opened
      <3>1. closed => app # "quitting" /\ (user = "none" => ~Running)
        BY <1>2 DEF Guarded, Owed
      <3>2. closed => app' \in Profiles /\ (user = "none" => app' = "mine")
        BY <1>2, <2>1, <3>1, Runs DEF Running, TypeOK
      <3> QED
        BY <1>1, <2>1, <3>1, <3>2 DEF Owed, Running, Profiles
    <2>2. CASE launch' = "warning" /\ app' = app
      BY <1>1, <2>2 DEF Guarded, Owed, Running
    <2> QED
      BY <2>1, <2>2 DEF Launch
  <1> QED
    BY <1>1, <1>3 DEF Guarded, Before, Held, GivenUp

LEMMA StopGuarded ==
  ASSUME TypeOK, Guarded, Decide \/ AskQuit \/ Quit
  PROVE  Guarded'
  <1>1. CASE Decide
    <2>1. ~closed /\ launch = "none"
      BY <1>1 DEF Decide, Guarded, Before
    <2> QED
      BY <1>1, <2>1
      DEF Decide, counts, Guarded, Owed, Before, Held, GivenUp
  <1>2. CASE AskQuit
    <2>1. ~closed /\ launch = "none" /\ guard = "none"
      BY <1>2 DEF AskQuit, Guarded, Before
    <2> QED
      BY <1>2, <2>1
      DEF AskQuit, counts, Guarded, Owed, Before, Held, GivenUp
  <1>3. CASE Quit
    <2>1. ~closed /\ launch = "none" /\ guard = "none"
      BY <1>3 DEF Quit, Guarded, Before
    <2>2. app' = app /\ launch' = launch /\ windows' = windows /\ pc = "quit"
      BY <1>3 DEF Quit, counts
    <2>3. CASE /\ ~Running /\ pc' = "initialize" /\ guard' = "running"
               /\ closed' = TRUE /\ user' = "none"
      BY <2>1, <2>2, <2>3
      DEF Guarded, Owed, Before, Held, GivenUp, Running
    <2>4. CASE pc' = "drop" /\ UNCHANGED <<guard, closed, user>>
      BY <2>1, <2>2, <2>4 DEF Guarded, Owed, Before, Held, GivenUp
    <2> QED
      BY <1>3, <2>3, <2>4 DEF Quit
  <1> QED
    BY <1>1, <1>2, <1>3

\* What the guard closed is open again when the installation has ended, unless
\* the user closed it or the launch failed, with the activated workspace unless
\* the user was faster.
THEOREM ComesBack == Spec => []ApplicationComesBack
  <1>1. Init => Guarded
    BY DEF Init, Guarded, Owed, Before, Held, GivenUp
  <1>2. TypeOK /\ Guarded /\ [Next]_vars => Guarded'
    <2> SUFFICES ASSUME TypeOK, Guarded, [Next]_vars PROVE Guarded'
      OBVIOUS
    <2>1. CASE Begin
      BY <2>1 DEF Begin, Guarded, Owed, Before, Held, GivenUp
    <2>2. CASE \/ Prepare \/ PrepareFails \/ Clear \/ Create \/ Look \/ Copy
               \/ Initialize \/ Script \/ Complete
      <3>1. UNCHANGED <<windows, app, selected, guard, closed, user, launch>>
        BY <2>2
        DEF Prepare, PrepareFails, Clear, Create, Look, Copy, Initialize,
            Script, Complete, counts, desktop
      <3>2. /\ Before' => Before
            /\ Held' => Held
            /\ GivenUp' => GivenUp \/ Before
            /\ pc' # "launch"
        BY <2>2, <3>1
        DEF Prepare, PrepareFails, Clear, Create, Look, Copy, Initialize,
            Script, Complete, CompletePending, Persist, Goto, Before, Held,
            GivenUp
      <3> QED
        BY <3>1, <3>2, Passing
    <2>3. CASE Mark
      <3>1. PICK m \in Marks : pc = m.at /\ SetStep(m.step, m.state, m.to, "drop")
        BY <2>3 DEF Mark
      <3>2. UNCHANGED <<windows, app, selected, guard, closed, user, launch>>
        BY <2>3 DEF Mark, desktop
      <3>3. pc' \in {m.to, "drop"}
        BY <3>1 DEF SetStep, Persist
      <3>4. /\ Before' => Before
            /\ Held' => Held
            /\ ~GivenUp' /\ pc' # "launch"
        BY <3>1, <3>2, <3>3, GuardRows DEF Before, Held, GivenUp
      <3> QED
        BY <3>2, <3>4, Passing
    <2>4. CASE Call
      <3>1. UNCHANGED <<windows, app, selected, guard, closed, user, launch>>
        BY <2>4 DEF Call, counts, desktop
      <3>2. /\ Before' => Before
            /\ ~Held' /\ ~GivenUp' /\ pc' # "launch"
        BY <2>4 DEF Call, Calls, Before, Held, GivenUp
      <3> QED
        BY <3>1, <3>2, Passing
    <2>5. CASE Decide \/ AskQuit \/ Quit
      BY <2>5, StopGuarded
    <2>6. CASE Finalize
      <3>1. /\ UNCHANGED <<windows, app, guard, closed, user, launch>>
            /\ pc = "finalize" /\ pc' \in {"clear", "configured", "drop"}
            /\ pc' = "clear" => windows
        BY <2>6 DEF Finalize, counts
      <3> QED
        BY <3>1 DEF Guarded, Owed, Running, Before, Held, GivenUp
    <2>7. CASE Verify
      <3>1. /\ UNCHANGED <<windows, app, selected, guard, closed, user>>
            /\ pc = "verify" /\ pc' \in {"launch", "release", "launched", "drop"}
            /\ pc' = "launch" => selected = "mine"
            /\ launch' = launch \/ launch' = "unasked"
            /\ pc' = "launch" => launch' = launch
        BY <2>7 DEF Verify, counts, desktop
      <3>2. launch = "none"
        BY <3>1 DEF Guarded, Held
      <3> QED
        BY <3>1, <3>2 DEF Guarded, Owed, Running, Before, Held, GivenUp
    <2>8. CASE Launch
      BY <2>8, LaunchGuarded
    <2>9. CASE Conclude
      <3>1. CASE Release("drop", "fail") \/ Release("release", "result")
        BY <3>1, ReleaseGuarded
      <3>2. CASE ~(Release("drop", "fail") \/ Release("release", "result"))
        <4>1. UNCHANGED <<windows, app, selected, guard, closed, user, launch>>
          BY <2>9, <3>2
          DEF Conclude, FailCurrent, SkipPending, WriteResult, Return, counts,
              desktop
        <4>2. GivenUp /\ ~Before' /\ ~Held' /\ pc' # "launch"
          BY <2>9, <3>2
          DEF Conclude, FailCurrent, SetStep, SkipPending, CompletePending,
              Persist, WriteResult, Return, Goto, GivenUp, Before, Held
        <4> QED
          BY <4>1, <4>2, Passing
      <3> QED
        BY <3>1, <3>2
    <2>10. CASE Crash
      BY <2>10 DEF Crash, Guarded, Owed, Before, Held, GivenUp
    <2>11. CASE UserOpens \/ UserCloses
      <3>1. /\ UNCHANGED <<windows, pc, selected, guard, closed, launch>>
            /\ \/ app' \in Profiles /\ user' = "opened"
               \/ app' = "closed" /\ user' = "closed"
        BY <2>11 DEF UserOpens, UserCloses, Acts, counts, TypeOK
      <3> QED
        BY <3>1 DEF Guarded, Owed, Running, Before, Held, GivenUp, Profiles
    <2>12. CASE Quits \/ StaysOpen
      <3>1. /\ UNCHANGED <<windows, pc, selected, guard, closed, launch>>
            /\ app = "quitting"
        BY <2>12 DEF Quits, StaysOpen, Acts, counts
      <3>2. ~closed
        BY <3>1 DEF Guarded, Owed
      <3> QED
        BY <3>1, <3>2 DEF Guarded, Owed, Before, Held, GivenUp
    <2>13. CASE UNCHANGED vars
      BY <2>13, Passing DEF vars, Before, Held, GivenUp
    <2> QED
      BY <2>1, <2>2, <2>3, <2>4, <2>5, <2>6, <2>7, <2>8, <2>9, <2>10, <2>11,
         <2>12, <2>13
      DEF Next, Work
  <1>3. Guarded => ApplicationComesBack
    BY DEF Guarded, Owed, GivenUp, ApplicationComesBack
  <1> QED
    BY <1>1, <1>2, <1>3, Typed, PTL DEF Spec
=============================================================================
