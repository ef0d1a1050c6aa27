----------------------------- MODULE MCDispatch -----------------------------
(* Dispatch with symmetry for the runs that check safety. *)
EXTENDS Dispatch, TLC

Symmetry ==
  Permutations(Request \ Debug) \cup Permutations(Para) \cup Permutations(Workers)
    \cup Permutations(Bid \ Remote)
=============================================================================
