---------------------------- MODULE BoundedCall ----------------------------
(***************************************************************************)
(* What child_process::output promises to those who call it                *)
(* (docs/status-lifecycle.md:20): every call is answered; while it runs,   *)
(* what it started may do anything; a call that is answered "ok", or whose *)
(* end was confirmed, leaves nothing running; nothing is started once it   *)
(* is answered.                                                            *)
(***************************************************************************)
VARIABLES
  stage,      \* idle, running or answered
  reply,      \* what the caller learns
  confirmed,  \* the end of everything it started was confirmed
  alive       \* something it started still executes

vars == <<stage, reply, confirmed, alive>>

Replies == {"ok", "timeout", "toolarge", "error"}

Init == stage = "idle" /\ reply = "none" /\ ~confirmed /\ ~alive

Call ==
  /\ stage = "idle" /\ stage' = "running"
  /\ alive' \in BOOLEAN
  /\ UNCHANGED <<reply, confirmed>>

\* Nothing could be started.
Refuse ==
  /\ stage = "idle" /\ stage' = "answered"
  /\ reply' = "error"
  /\ UNCHANGED <<confirmed, alive>>

Work ==
  /\ stage = "running"
  /\ alive' \in BOOLEAN
  /\ UNCHANGED <<stage, reply, confirmed>>

Answer ==
  /\ stage = "running" /\ stage' = "answered"
  /\ reply' \in Replies
  /\ confirmed' \in BOOLEAN
  /\ UNCHANGED alive
  /\ reply' = "ok" => confirmed'
  /\ confirmed' => ~alive

\* What could not be ended ends by itself.
Linger ==
  /\ stage = "answered"
  /\ alive /\ alive' = FALSE
  /\ UNCHANGED <<stage, reply, confirmed>>

Next == Call \/ Refuse \/ Work \/ Answer \/ Linger

Safety == Init /\ [][Next]_vars

Spec == Safety /\ WF_vars(Answer)
=============================================================================
