--------------------------- MODULE MCIdempotency ---------------------------
(* Idempotency with symmetry, for the runs that check safety only. *)
EXTENDS Idempotency, TLC

Symmetry ==
    Permutations(Requests) \cup Permutations(Keys)
      \cup Permutations(Bodies) \cup Permutations(Instances)
=============================================================================
