--------------------------- MODULE PoolWakeProofs ---------------------------
(***************************************************************************)
(* No call of Wait sleeps through room that was freed, for every number of *)
(* entries, tokens and calls.  A step that frees room broadcasts, and then *)
(* no goroutine is parked; every other step leaves the entries, or some of *)
(* them, with the load they had or more.                                   *)
(***************************************************************************)
EXTENDS PoolProofs

NoRoomAppears(w) ==
  \A m \in Meta :
    m \in q' /\ HasRoom(m, want[w])' => m \in q /\ HasRoom(m, want[w])

\* A queue with fewer entries and no less load has no more room.
LEMMA LoadsGrow ==
  ASSUME TypeOK, profile' = profile, NEW w \in Waiter, want'[w] = want[w],
         q' \subseteq q,
         \A m \in q' : meta'[m].load \in Int /\ meta'[m].load >= meta[m].load
  PROVE  NoRoomAppears(w)
<1> SUFFICES ASSUME NEW m \in Meta, m \in q', HasRoom(m, want[w])'
             PROVE  m \in q /\ HasRoom(m, want[w])
  BY DEF NoRoomAppears
<1>1. m \in q /\ EntryOf(m) \in Entry
  BY DEF Meta, EntryOf
<1>2. /\ want[w] \in Nat /\ meta[m].load \in Int /\ meta'[m].load \in Int
      /\ profile[EntryOf(m)].max \in Int /\ meta'[m].load >= meta[m].load
  BY <1>1 DEF TypeOK
<1>3. want[w] <= 0 \/ meta'[m].load + want[w] <= profile[EntryOf(m)].max
  BY DEF HasRoom
<1> QED BY <1>1, <1>2, <1>3 DEF HasRoom

LEMMA QueueStepGrows ==
  ASSUME TypeOK, profile' = profile, NEW w \in Waiter, want'[w] = want[w],
         NEW S \in SUBSET q, NEW delta, QueueStep(S, delta),
         \A m \in S : delta[m] \in Nat
  PROVE  NoRoomAppears(w)
<1>1. /\ q' = S /\ q \in SUBSET Meta
      /\ \A m \in S : meta'[m].load = meta[m].load + delta[m]
      /\ \A m \in Meta : meta[m].load \in Int
  BY DEF QueueStep, TypeOK
<1>2. \A m \in q' : meta'[m].load \in Int /\ meta'[m].load >= meta[m].load
  BY <1>1
<1> QED BY <1>1, <1>2, LoadsGrow

\* A call that is parked before and after a release was not broadcast to: the
\* release has freed nothing.
LEMMA ReleaseGrows ==
  ASSUME TypeOK, profile' = profile, NEW w \in Waiter, want'[w] = want[w],
         goroutine'[w] = "cond",
         NEW t \in Token, NEW g, doRelease(t, g)
  PROVE  NoRoomAppears(w)
<1>1. Broadcast(g)[w] # "cond"
  BY DEF Broadcast
<1>2. UNCHANGED <<q, root, meta>>
  BY <1>1 DEF doRelease
<1>3. \A m \in q' : meta'[m].load \in Int /\ meta'[m].load >= meta[m].load
  BY <1>2 DEF TypeOK
<1> QED BY <1>2, <1>3, LoadsGrow

LEMMA PickGrows ==
  ASSUME TypeOK, profile' = profile, NEW w \in Waiter, want'[w] = want[w],
         NEW k \in Nat,
         \/ \E t \in Token, m \in q, failed \in SUBSET q : Issue(t, k, m, failed)
         \/ \E failed \in SUBSET q : NoPick(k, failed)
  PROVE  NoRoomAppears(w)
<1>1. ASSUME NEW t \in Token, NEW m \in q, NEW failed \in SUBSET q, Issue(t, k, m, failed)
      PROVE  NoRoomAppears(w)
  <2> DEFINE delta == [x \in Meta |-> IF x = m THEN k ELSE 0]
  <2>1. QueueStep(q, delta)
    BY <1>1, IssueFacts
  <2>2. \A x \in q : delta[x] \in Nat
    BY DEF TypeOK
  <2> HIDE DEF delta
  <2> QED BY <2>1, <2>2, QueueStepGrows
<1>2. ASSUME NEW failed \in SUBSET q, NoPick(k, failed)
      PROVE  NoRoomAppears(w)
  <2> DEFINE delta == [x \in Meta |-> 0]
  <2>1. QueueStep(q, delta)
    BY <1>2, NoPickFacts
  <2>2. \A x \in q : delta[x] \in Nat
    BY DEF TypeOK
  <2> HIDE DEF delta
  <2> QED BY <2>1, <2>2, QueueStepGrows
<1> QED BY <1>1, <1>2

LEMMA RemoveGrows ==
  ASSUME TypeOK, NEW w \in Waiter, NEW e \in Entry, Remove(e)
  PROVE  NoRoomAppears(w)
<1>1. /\ Heapify(meta, q \ {canonical[e]})
      /\ profile' = profile /\ want' = want
  BY DEF Remove, waitVars
<1>2. /\ meta \in [Meta -> Counters] /\ q \ {canonical[e]} \in SUBSET Meta
      /\ \A m \in Meta : meta[m].load \in Int
  BY DEF TypeOK, Counters
<1>3. /\ q' = q \ {canonical[e]}
      /\ \A m \in q' : meta'[m].load = meta[m].load
  BY <1>1, <1>2, HeapifyFacts
<1>4. \A m \in q' : meta'[m].load \in Int /\ meta'[m].load >= meta[m].load
  BY <1>2, <1>3
<1> QED BY <1>1, <1>3, <1>4, LoadsGrow

\* The steps of one call, seen by another one that is parked.
LEMMA WaitStepGrows ==
  ASSUME Inv, NEW w \in Waiter, goroutine[w] = "cond", goroutine'[w] = "cond",
         NEW v \in Waiter,
         (\E k \in WaitLoads : Wait(v, k)) \/ Cancel(v) \/ WaitStep(v)
  PROVE  NoRoomAppears(w)
<1>1. TypeOK /\ (goroutine[v] = "offer" => picked[v] \in Token)
  BY DEF Inv, Core, TypeOK, TokenOwnership
<1>2. profile' = profile
  BY DEF WaitStep, Wait, Cancel, TryPick, Deliver, Abandon, Close, Return, Forget, poolVars
<1>3. want'[w] = want[w]
  <2>1. CASE (\E k \in WaitLoads : Wait(v, k)) \/ Forget(v)
    <3>1. goroutine'[v] # "cond"
      BY <1>1, <2>1 DEF Wait, Forget, TypeOK
    <3>2. v # w
      BY <3>1
    <3> QED BY <1>1, <2>1, <3>2 DEF Wait, Forget, TypeOK
  <2>2. CASE ~((\E k \in WaitLoads : Wait(v, k)) \/ Forget(v))
    BY <2>2 DEF WaitStep, Cancel, TryPick, Deliver, Abandon, Close, Return
  <2> QED BY <2>1, <2>2
<1>4. CASE TryPick(v)
  <2>1. want[v] \in Nat
    BY <1>1 DEF TypeOK
  <2>2. \/ \E t \in Token, m \in q, failed \in SUBSET q : Issue(t, want[v], m, failed)
        \/ \E failed \in SUBSET q : NoPick(want[v], failed)
    BY <1>4 DEF TryPick
  <2> QED BY <1>1, <1>2, <1>3, <2>1, <2>2, PickGrows
<1>5. CASE Abandon(v)
  <2>1. picked[v] \in Token /\ doRelease(picked[v], [goroutine EXCEPT ![v] = "close"])
    BY <1>1, <1>5 DEF Abandon
  <2> QED BY <1>1, <1>2, <1>3, <2>1, ReleaseGrows
<1>6. CASE ~TryPick(v) /\ ~Abandon(v)
  <2>1. UNCHANGED <<q, meta>>
    BY <1>6 DEF WaitStep, Wait, Cancel, Deliver, Close, Return, Forget, poolVars
  <2>2. \A m \in q' : meta'[m].load \in Int /\ meta'[m].load >= meta[m].load
    BY <1>1, <2>1 DEF TypeOK
  <2> QED BY <1>1, <1>2, <1>3, <2>1, <2>2, LoadsGrow
<1> QED BY <1>4, <1>5, <1>6

LEMMA NextGrows ==
  ASSUME Inv, [Next]_vars, profile' = profile,
         NEW w \in Waiter, goroutine[w] = "cond", goroutine'[w] = "cond"
  PROVE  NoRoomAppears(w)
<1>1. TypeOK
  BY DEF Inv, Core
<1>b. \A g : Broadcast(g)[w] # "cond"
  BY DEF Broadcast
<1>2. ASSUME NEW e \in Entry, NEW p \in Profile, Retune(e, p) PROVE FALSE
  BY <1>1, <1>2 DEF Retune, TypeOK
<1>3. CASE (\E e \in Entry, m \in Meta : Add(e, m)) \/ Rebalance
  BY <1>3, <1>b DEF Add, Rebalance
<1>4. CASE \E e \in Entry : Remove(e)
  BY <1>1, <1>4, RemoveGrows
<1>5. ASSUME NEW k \in PickLoads, PickLoad(k) PROVE NoRoomAppears(w)
  <2>1. k \in Nat /\ want' = want
    BY <1>5, LoadAssumption DEF PickLoad, waitVars
  <2>2. \/ \E t \in Token, m \in q, failed \in SUBSET q : Issue(t, k, m, failed)
        \/ \E failed \in SUBSET q : NoPick(k, failed)
    BY <1>5 DEF PickLoad
  <2> QED BY <1>1, <2>1, <2>2, PickGrows
<1>6. ASSUME NEW t \in Token, Release(t) \/ tokenFinalizer(t) PROVE NoRoomAppears(w)
  <2>1. doRelease(t, goroutine) /\ want' = want
    BY <1>6 DEF Release, tokenFinalizer
  <2> QED BY <1>1, <2>1, ReleaseGrows
<1>7. CASE (\E t \in Token : Drop(t)) \/ UNCHANGED vars
  <2>1. UNCHANGED <<q, meta, want>>
    BY <1>7 DEF Drop, vars, poolVars, waitVars
  <2>2. \A m \in q' : meta'[m].load \in Int /\ meta'[m].load >= meta[m].load
    BY <1>1, <2>1 DEF TypeOK
  <2> QED BY <1>1, <2>1, <2>2, LoadsGrow
<1>8. CASE \E v \in Waiter : \/ \E k \in WaitLoads : Wait(v, k)
                            \/ Cancel(v) \/ WaitStep(v)
  BY <1>8, WaitStepGrows
<1> QED BY <1>2, <1>3, <1>4, <1>5, <1>6, <1>7, <1>8 DEF Next

\* A parked call of Wait is woken by every step of the pool that makes room
\* for it (pool.go:243, the broadcasts of Add, Rebalance and doRelease).
THEOREM NobodySleepsThroughRoom == Spec => NoSleepThroughFreedRoom
<1>1. ASSUME Inv, [Next]_vars, NEW w \in Waiter, NEW m \in Meta,
             goroutine[w] = "cond", goroutine'[w] = "cond", profile' = profile,
             m \in q', HasRoom(m, want[w])'
      PROVE  m \in q /\ HasRoom(m, want[w])
  BY <1>1, NextGrows DEF NoRoomAppears
<1>2. Inv /\ [Next]_vars =>
        [\A w \in Waiter, m \in Meta :
           /\ goroutine[w] = "cond" /\ goroutine'[w] = "cond"
           /\ profile' = profile
           /\ m \in q' /\ HasRoom(m, want[w])'
           => m \in q /\ HasRoom(m, want[w])]_vars
  BY <1>1
<1> QED BY <1>2, Invariance, PTL DEF Spec, NoSleepThroughFreedRoom
=============================================================================
