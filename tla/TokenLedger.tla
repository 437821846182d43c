---------------------------- MODULE TokenLedger ----------------------------
(***************************************************************************)
(* What the pool of pkg/pool promises, with no queue, no cost and no load  *)
(* counter: a ledger of the tokens that are out.  The load on an entry is  *)
(* what the tokens add up to, and a token is issued only if the load then  *)
(* fits what the entry allows at that moment.  Tokens of discarded entries *)
(* stay valid, and an entry that is enrolled again starts from nothing.    *)
(***************************************************************************)
EXTENDS Integers, FiniteSets

CONSTANTS Entry, Gen, Token, NoMeta,
          Load          \* the loads a token can stand for

Meta == Entry \X Gen
EntryOf(m) == m[1]

VARIABLES
  capacity,   \* the load each entry allows
  enrolled,   \* the incarnations that can be picked
  tok         \* the incarnation and the load of each token that is out

ledgerVars == <<capacity, enrolled, tok>>

Released == [meta |-> NoMeta, load |-> 0]

\* The load on m, one element for each unit of each token.
Units(m) == UNION {{t} \X (1..tok[t].load) : t \in {u \in Token : tok[u].meta = m}}
Outstanding(m) == Cardinality(Units(m))

Init ==
  /\ capacity \in [Entry -> Int]
  /\ enrolled = {}
  /\ tok = [t \in Token |-> Released]

SetCapacity ==
  /\ capacity' \in [Entry -> Int]
  /\ UNCHANGED <<enrolled, tok>>

Enroll(m) ==
  /\ \A x \in enrolled : EntryOf(x) # EntryOf(m)
  /\ \A t \in Token : tok[t].meta # m
  /\ enrolled' = enrolled \cup {m}
  /\ UNCHANGED <<capacity, tok>>

Discard(m) ==
  /\ enrolled' = enrolled \ {m}
  /\ UNCHANGED <<capacity, tok>>

Issue(t, m, k) ==
  /\ tok[t].meta = NoMeta
  /\ m \in enrolled
  /\ k <= 0 \/ Outstanding(m) + k <= capacity[EntryOf(m)]
  /\ tok' = [tok EXCEPT ![t] = [meta |-> m, load |-> k]]
  /\ UNCHANGED <<capacity, enrolled>>

Return(t) ==
  /\ tok' = [tok EXCEPT ![t] = Released]
  /\ UNCHANGED <<capacity, enrolled>>

Next ==
  \/ SetCapacity
  \/ \E m \in Meta : Enroll(m) \/ Discard(m)
  \/ \E t \in Token : \/ \E m \in Meta, k \in Load : Issue(t, m, k)
                      \/ Return(t)

Spec == Init /\ [][Next]_ledgerVars
=============================================================================
