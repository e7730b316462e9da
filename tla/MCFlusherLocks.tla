--------------------------- MODULE MCFlusherLocks ---------------------------
(* Constants of FlusherLocks for TLC. *)
EXTENDS FlusherLocks, TLC

\* Pages of one kind are interchangeable, and so are contents.
LocksSymmetry ==
    Permutations(Hot) \cup Permutations(Pages \ Hot) \cup Permutations(Vals)
=============================================================================
