------------------------ MODULE ExclusiveOperations ------------------------
(***************************************************************************)
(* What the operation reservation promises (docs/status-lifecycle.md:11):  *)
(* installations, re-authorizations, switches, launches and local data     *)
(* initializations are serial.  An operation that finds another one is     *)
(* refused, so there is no queue.  Only a request begins an operation; it  *)
(* may hand it over to a background job, once per job; all of it ends with *)
(* the process, and a job that was cut is not resumed.                     *)
(***************************************************************************)
CONSTANTS Requests, Jobs

VARIABLES
  active,    \* the request or job that is changing local state, if any
  launched   \* the jobs that have been handed an operation

Init == active = {} /\ launched = {}

Begin(r) == active = {} /\ active' = {r} /\ UNCHANGED launched

HandOver(r, j) ==
  /\ active = {r}
  /\ j \notin launched
  /\ active' = {j}
  /\ launched' = launched \union {j}

End(p) == active = {p} /\ active' = {} /\ UNCHANGED launched

Next ==
  \/ \E r \in Requests : Begin(r) \/ \E j \in Jobs : HandOver(r, j)
  \/ \E p \in Requests \union Jobs : End(p)

Spec == Init /\ [][Next]_<<active, launched>>
=============================================================================
