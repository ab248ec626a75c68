------------------------------- MODULE MCAuth -------------------------------
(***************************************************************************)
(* Small instances of AuthProfiles for TLC.                                *)
(***************************************************************************)
EXTENDS AuthProfiles, TLC

\* Channels are interchangeable, and so are the workspaces users create.
Interchangeable ==
  Permutations(Channels) \union Permutations(Workspaces \ {Default})
=============================================================================
