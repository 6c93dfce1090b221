------------------------------- MODULE MCStudy -------------------------------
(* Values of the constants for model checking module Study. *)
EXTENDS Study, TLC

CONSTANTS w1, w2, v1, v2, k1, k2

Option(retry, extra, kernel) == [retry |-> retry, supplemental |-> extra, kernel |-> kernel]
Full == {Option(TRUE, TRUE, k1)}
PlainOrFull == {Option(FALSE, FALSE, k1), Option(TRUE, TRUE, k2)}

Symmetry == Permutations(Workers) \cup Permutations(Replayers)
=============================================================================
