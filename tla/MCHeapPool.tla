----------------------------- MODULE MCHeapPool -----------------------------
(***************************************************************************)
(* Small heaps for TLC.                                                    *)
(***************************************************************************)
EXTENDS HeapPool, TLC

Small == [max |-> 1, tier |-> 0]
FarLarge == [max |-> 2, tier |-> 1]

TwoTiers == {Small, FarLarge}

Interchangeable == Permutations(Token) \cup Permutations(Entry)
=============================================================================
