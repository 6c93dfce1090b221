------------------------------- MODULE Kernel -------------------------------
(* What the modules of the science kernel share. *)
CONSTANTS
    Families,   \* the generator families
    None        \* the absence of a file, a result, an answer
=============================================================================
