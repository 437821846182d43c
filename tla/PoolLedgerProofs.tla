-------------------------- MODULE PoolLedgerProofs --------------------------
(***************************************************************************)
(* Pool implements TokenLedger.  The queue, its order and the load counter *)
(* disappear; what is left is that a token is issued only when the units   *)
(* of all tokens that are out on the entry fit its MaxLoad().  The guard   *)
(* of the code reads the counter, so this rests on LoadAccounting.         *)
(***************************************************************************)
EXTENDS PoolProofs

Capacity == [e \in Entry |-> profile[e].max]

\* pickLocked chooses an entry that has room.
LEMMA ChosenHasRoom ==
  ASSUME NEW k, NEW failed, NEW m, PickChooses(k, failed, m)
  PROVE  HasRoom(m, k)
BY DEF PickChooses

\* A step that issues a token fits the ledger.
LEMMA IssueIsIssue ==
  ASSUME Core, NEW t \in Token, NEW m \in q, NEW k \in PickLoads \cup WaitLoads,
         NEW failed, Issue(t, k, m, failed), UNCHANGED profile
  PROVE  Ledger!Issue(t, m, k)
<1>1. k \in Nat
  BY LoadAssumption
<1>2. q' = q /\ tok[t].meta = NoMeta
      /\ tok' = [tok EXCEPT ![t] = [meta |-> m, load |-> k]]
  BY <1>1, IssueFacts DEF Core, QueueStep
<1>3. HasRoom(m, k)
  BY ChosenHasRoom DEF Issue
<1>4. m \in Meta /\ EntryOf(m) \in Entry
  BY DEF Core, TypeOK, Meta, EntryOf
<1>5. meta[m].load = Ledger!Outstanding(m)
  <2>1. Ledger!Units(m) = Units(m)
    BY DEF Units, Ledger!Units
  <2>2. Ledger!Cardinality(Units(m)) = Cardinality(Units(m))
    BY DEF Cardinality, Ledger!Cardinality
  <2> QED BY <2>1, <2>2 DEF Core, LoadAccounting, Outstanding, Ledger!Outstanding
<1>6. k <= 0 \/ Ledger!Outstanding(m) + k <= Capacity[Ledger!EntryOf(m)]
  BY <1>3, <1>4, <1>5 DEF HasRoom, Capacity, EntryOf, Ledger!EntryOf
<1> QED BY <1>2, <1>6 DEF Ledger!Issue, Capacity

\* A step that releases a token returns it, whatever happens to the queue.
LEMMA ReleaseIsReturn ==
  ASSUME Core, NEW t \in Token, NEW g, doRelease(t, g), UNCHANGED profile
  PROVE  Ledger!Return(t)
<1>1. q' = q /\ tok' = [tok EXCEPT ![t] = Released]
  BY ReleaseFacts DEF Core, QueueStep
<1> QED BY <1>1 DEF Ledger!Return, Released, Ledger!Released

LEMMA AddIsEnroll ==
  ASSUME Core, NEW e \in Entry, NEW m \in Meta, Add(e, m)
  PROVE  Ledger!Enroll(m)
<1>1. \A x \in q : EntryOf(x) # EntryOf(m)
  BY MetaAssumption DEF Core, TypeOK, RegistryInSync, Add
<1>2. q' = q \cup {m} /\ UNCHANGED <<profile, tok>> /\ \A t \in Token : tok[t].meta # m
  BY DEF Add, Heapify, tokenVars
<1> QED BY <1>1, <1>2 DEF Ledger!Enroll, EntryOf, Ledger!EntryOf

LEMMA NoPickStutters ==
  ASSUME NEW k, NEW failed, NoPick(k, failed), UNCHANGED <<profile, tok>>
  PROVE  UNCHANGED <<profile, q, tok>>
BY DEF NoPick, Heapify

\* Every step of the pool is a step of the ledger or leaves it alone.
LEMMA StepSimulation ==
  ASSUME Inv, Next
  PROVE  Ledger!Next \/ UNCHANGED <<profile, q, tok>>
<1> USE DEF Inv
<1>1. ASSUME NEW e \in Entry, NEW p \in Profile, Retune(e, p)
      PROVE  Ledger!Next
  <2>1. profile' \in [Entry -> [max : Int, tier : Int]] /\ UNCHANGED <<q, tok>>
    BY <1>1, ProfileAssumption DEF Core, TypeOK, Retune, tokenVars
  <2>2. Ledger!SetCapacity
    BY <2>1 DEF Ledger!SetCapacity
  <2> QED BY <2>2 DEF Ledger!Next
<1>2. ASSUME NEW e \in Entry, NEW m \in Meta, Add(e, m)
      PROVE  Ledger!Next
  BY <1>2, AddIsEnroll DEF Ledger!Next, Meta, Ledger!Meta
<1>3. ASSUME NEW e \in Entry, Remove(e)
      PROVE  Ledger!Next
  <2>1. canonical[e] \in Meta /\ q' = q \ {canonical[e]} /\ UNCHANGED <<profile, tok>>
    BY <1>3 DEF Core, TypeOK, Remove, Heapify, tokenVars
  <2>2. Ledger!Discard(canonical[e])
    BY <2>1 DEF Ledger!Discard
  <2> QED BY <2>1, <2>2 DEF Ledger!Next, Meta, Ledger!Meta
<1>4. CASE Rebalance
  BY <1>4 DEF Rebalance, Heapify, tokenVars
<1>5. ASSUME NEW k \in PickLoads, PickLoad(k)
      PROVE  Ledger!Next \/ UNCHANGED <<profile, q, tok>>
  <2>1. CASE \E t \in Token, m \in q, failed \in SUBSET q : Issue(t, k, m, failed)
    <3>1. PICK t \in Token, m \in q, failed \in SUBSET q : Issue(t, k, m, failed)
      BY <2>1
    <3>2. Ledger!Issue(t, m, k)
      BY <1>5, <3>1, IssueIsIssue DEF PickLoad
    <3>3. m \in Ledger!Meta
      BY DEF Core, TypeOK, Meta, Ledger!Meta
    <3> QED BY <3>2, <3>3 DEF Ledger!Next
  <2>2. CASE (\E failed \in SUBSET q : NoPick(k, failed)) /\ UNCHANGED tok
    BY <1>5, <2>2, NoPickStutters DEF PickLoad
  <2> QED BY <1>5, <2>1, <2>2 DEF PickLoad
<1>6. ASSUME NEW t \in Token, Release(t) \/ tokenFinalizer(t)
      PROVE  Ledger!Next
  <2>1. Ledger!Return(t)
    BY <1>6, ReleaseIsReturn DEF Release, tokenFinalizer
  <2> QED BY <2>1 DEF Ledger!Next
<1>7. ASSUME NEW t \in Token, Drop(t)
      PROVE  Ledger!Next \/ UNCHANGED <<profile, q, tok>>
  <2>1. UNCHANGED <<profile, q>> /\ (UNCHANGED tok \/ tok' = [tok EXCEPT ![t] = Released])
    BY <1>7 DEF Drop, poolVars
  <2>2. UNCHANGED tok \/ Ledger!Return(t)
    BY <2>1 DEF Ledger!Return, Released, Ledger!Released
  <2> QED BY <2>1, <2>2 DEF Ledger!Next
<1>8. ASSUME NEW w \in Waiter,
             (\E k \in WaitLoads : Wait(w, k)) \/ Cancel(w) \/ WaitStep(w)
      PROVE  Ledger!Next \/ UNCHANGED <<profile, q, tok>>
  <2>1. CASE TryPick(w)
    <3>1. CASE \E t \in Token, m \in q, failed \in SUBSET q : Issue(t, want[w], m, failed)
      <4>1. PICK t \in Token, m \in q, failed \in SUBSET q : Issue(t, want[w], m, failed)
        BY <3>1
      <4>2. want[w] \in WaitLoads /\ UNCHANGED profile
        BY <2>1 DEF CallsInStep, TryPick
      <4>3. Ledger!Issue(t, m, want[w])
        BY <4>1, <4>2, IssueIsIssue
      <4>4. m \in Ledger!Meta
        BY DEF Core, TypeOK, Meta, Ledger!Meta
      <4> QED BY <4>2, <4>3, <4>4 DEF Ledger!Next
    <3>2. CASE (\E failed \in SUBSET q : NoPick(want[w], failed)) /\ UNCHANGED tok
      BY <2>1, <3>2, NoPickStutters DEF TryPick
    <3> QED BY <2>1, <3>1, <3>2 DEF TryPick
  <2>2. CASE Abandon(w)
    <3>1. picked[w] \in Token
      BY <2>2 DEF Core, TypeOK, TokenOwnership, Abandon
    <3>2. Ledger!Return(picked[w])
      BY <2>2, <3>1, ReleaseIsReturn DEF Abandon
    <3> QED BY <3>1, <3>2 DEF Ledger!Next
  <2>3. CASE \/ \E k \in WaitLoads : Wait(w, k)
             \/ Cancel(w) \/ Deliver(w) \/ Close(w) \/ Return(w) \/ Forget(w)
    BY <2>3 DEF Wait, Cancel, Deliver, Close, Return, Forget, poolVars, tokenVars
  <2> QED BY <1>8, <2>1, <2>2, <2>3 DEF WaitStep
<1> QED BY <1>1, <1>2, <1>3, <1>4, <1>5, <1>6, <1>7, <1>8 DEF Next

\* The pool implements the ledger: a token is issued only when everything
\* that is out on the entry then fits the MaxLoad() it reports.
THEOREM PoolImplementsLedger == Spec => LedgerSpec
<1>1. Init => Ledger!Init
  <2>1. ASSUME Init PROVE Ledger!Init
    <3>1. \A e \in Entry : profile[e].max \in Int
      BY <2>1, ProfileAssumption DEF Init
    <3> QED BY <2>1, <3>1 DEF Init, Ledger!Init, Released, Ledger!Released
  <2> QED BY <2>1
<1>2. Inv /\ [Next]_vars => [Ledger!Next]_(Ledger!ledgerVars)
  <2>1. ASSUME UNCHANGED <<profile, q, tok>> PROVE UNCHANGED Ledger!ledgerVars
    BY <2>1 DEF Ledger!ledgerVars
  <2>2. ASSUME UNCHANGED vars PROVE UNCHANGED <<profile, q, tok>>
    BY <2>2 DEF vars, poolVars, tokenVars
  <2> QED BY <2>1, <2>2, StepSimulation
<1> QED BY <1>1, <1>2, Invariance, PTL DEF Spec, LedgerSpec, Ledger!Spec
=============================================================================
