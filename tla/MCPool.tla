------------------------------- MODULE MCPool -------------------------------
(***************************************************************************)
(* Small pools for TLC.                                                    *)
(***************************************************************************)
EXTENDS Pool, TLC

CONSTANTS e1, e2, e3, g1, g2, t1, t2, t3

\* Entries of one tier.
Closed == [max |-> 0, tier |-> 0]
Small == [max |-> 1, tier |-> 0]
Large == [max |-> 2, tier |-> 0]

OnlyLarge == {Large}
SmallOrLarge == {Small, Large}
SwitchProfiles == {Closed, Large}

Interchangeable == Permutations(Token)
=============================================================================
