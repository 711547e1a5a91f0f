------------------------------ MODULE MCFiles ------------------------------
(***************************************************************************)
(* Instance of Files for TLC: the processes, the credentials and the       *)
(* secrets are interchangeable.                                            *)
(***************************************************************************)
EXTENDS Files, TLC

Symmetry ==
  Permutations(Processes) \cup Permutations(Entries) \cup Permutations(Secrets)
=============================================================================
