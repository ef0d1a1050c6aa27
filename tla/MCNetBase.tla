----------------------------- MODULE MCNetBase -----------------------------
(* NetBase with symmetry for the runs that check safety. *)
EXTENDS NetBase, TLC

Symmetry == Permutations(Session) \cup Permutations(Fd) \cup Permutations(Workers)
=============================================================================
