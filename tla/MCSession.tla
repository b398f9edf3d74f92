------------------------------- MODULE MCSession -------------------------------
(* The session for TLC.  Nothing in it tells one page from another, so states *)
(* that differ only in their names are explored once.  Symmetry is used for   *)
(* the run of the invariants only.                                            *)
EXTENDS BackendSession, TLC

PageSymmetry == Permutations(Pages)

================================================================================
