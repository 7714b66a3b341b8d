--------------------------- MODULE WithdrawalLog ----------------------------
(***************************************************************************)
(* What the finalized withdrawal trees promise to the L1 side: a log of   *)
(* sealed trees that only grows.  Each tree covers the next contiguous    *)
(* range of withdrawal leaves, starting at leaf 1, and carries the Merkle *)
(* root of that range padded with its last leaf.  A sealed tree is never  *)
(* changed.                                                               *)
(***************************************************************************)
EXTENDS Naturals, Sequences

CONSTANTS
    MaxLeaf     \* leaves 1..MaxLeaf can be withdrawn

VARIABLES
    sealed      \* sequence of [start, count, root], in leaf order

\* The ideal commutative hash of two children.
Hash(a, b) == {a, b}

\* The root over leaves start..start+count-1 below node lo at level h,
\* slots past the last leaf repeating it.
RECURSIVE Root(_, _, _, _)
Root(start, count, lo, h) ==
    IF h = 0 THEN (IF lo < start + count THEN lo ELSE start + count - 1)
    ELSE Hash(Root(start, count, lo, h - 1), Root(start, count, lo + 2^(h - 1), h - 1))

\* Levels of a tree of count leaves: one leaf is paired with itself.
Levels(count) == CHOOSE h \in 1..count : 2^h >= count /\ (h = 1 \/ 2^(h - 1) < count)

NextLeaf == IF sealed = <<>> THEN 1 ELSE sealed[Len(sealed)].start + sealed[Len(sealed)].count

Init == sealed = <<>>

\* Seal the next count leaves as one tree.
Seal ==
    \E count \in 1..(MaxLeaf - NextLeaf + 1) :
        sealed' = Append(sealed, [start |-> NextLeaf, count |-> count,
                                  root  |-> Root(NextLeaf, count, NextLeaf, Levels(count))])

Spec == Init /\ [][Seal]_sealed
=============================================================================
