--------------------------- MODULE MCDiskReadShared ---------------------------
(* Two callers reading one device, with one-chunk blocks: both callbacks  *)
(* see every chunk, and a second call of each caller meets the chunks     *)
(* left over from the first.  The inductive invariant of the proofs is    *)
(* checked on the same instance.                                          *)
EXTENDS DiskReadSharedProofs, TLC

CONSTANTS c1, c2

MCCallers == {c1, c2}

\* The callers are interchangeable (safety runs only).
MCSymmetry == Permutations(MCCallers)
=============================================================================
