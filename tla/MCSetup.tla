------------------------------ MODULE MCSetup ------------------------------
(***************************************************************************)
(* Small instances of SetupLifecycle for TLC.                              *)
(***************************************************************************)
EXTENDS SetupLifecycle, TLC

\* Threads and workspaces are interchangeable; attempts are numbered.
Interchangeable == Permutations(Threads) \union Permutations(Workspaces)
=============================================================================
