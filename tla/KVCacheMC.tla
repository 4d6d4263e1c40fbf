------------------------------- MODULE KVCacheMC -------------------------------
(* Two interchangeable sequences. *)
EXTENDS KVCache, TLC

CONSTANTS s1, s2

TwoSeqs == {s1, s2}
Symmetry == Permutations(TwoSeqs)

(* The rotation and the delta of a free cell are overwritten or reset by   *)
(* the decode that next uses the cell: they tell no states apart.          *)
View == <<pos, seqs, [i \in Cells |-> IF pos[i] >= 0 THEN <<delta[i], rot[i]>> ELSE <<>>],
          has_shift, head, used, n>>

(* Bound: positions are moved by a pending shift at most this far. *)
SmallDeltas == \A i \in UsedCells : delta[i] \in -1 .. 1

===============================================================================
