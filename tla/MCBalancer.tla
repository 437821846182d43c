----------------------------- MODULE MCBalancer -----------------------------
(* Instances of Balancer for TLC. *)
EXTENDS Balancer, TLC

CONSTANTS a1, a2, a3, d1, d2, g1, g2

InTier(t, k, m) == [target |-> t, tier |-> k, max |-> m, disabled |-> FALSE]
OutOfService(t, k) == [target |-> t, tier |-> k, max |-> 1, disabled |-> TRUE]

\* Two targets, in tiers of different limits, in service or not.
InService == [bucket |-> -1, targets |-> <<InTier(d1, 0, 1), InTier(d2, 1, 0)>>]
Closed == [bucket |-> -1, targets |-> <<OutOfService(d1, 0), OutOfService(d2, 1)>>]
OnAndOff == {InService, Closed}

\* One target whose addresses are sorted by latency, into one of two buckets.
ByLatency == [bucket : {2, 3}, targets : {<<InTier(d1, 0, 0)>>}]

AnySet == SUBSET Address
Steady == {Address}
Interchangeable == Permutations(Address)
=============================================================================
