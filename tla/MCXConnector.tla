---------------------------- MODULE MCXConnector ----------------------------
(* Small instances of XConnector for TLC. *)
EXTENDS XConnector, TLC

ProcSymmetry == Permutations(Procs)
Symmetry == ProcSymmetry \cup Permutations(Sessions)
=============================================================================
