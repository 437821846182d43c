----------------------------- MODULE PoolProofs -----------------------------
(***************************************************************************)
(* Proofs about Pool, for every number of entries, tokens and waiters.     *)
(*                                                                         *)
(* The inductive invariant is the conjunction of the type invariant, of    *)
(* the agreement of map and queue, of the ownership of tokens and of the   *)
(* load accounting.  None is inductive alone: what Deliver hands over is a *)
(* token because an offering goroutine owns one; and a release takes away  *)
(* a load that was counted because only live tokens are owned.             *)
(***************************************************************************)
EXTENDS Pool, FiniteSetTheorems, TLAPS

Counters == [load : Int, mark : Nat, maxLoad : Int, tier : Int]
Tokens == [Token -> [meta : Meta \cup {NoMeta}, load : Nat]]

Core == TypeOK /\ RegistryInSync /\ TokenOwnership /\ LoadAccounting

\* Where the goroutine of a call is goes with what its caller has seen.
CallsInStep ==
  \A w \in Waiter :
    /\ caller[w] = "idle" <=> goroutine[w] = "none"
    /\ caller[w] = "select" /\ goroutine[w] \in {"close", "done"} => cancelled[w]
    /\ caller[w] = "token" => goroutine[w] \in {"close", "done"}
    /\ caller[w] \in {"error", "nothing"} => cancelled[w]
    /\ goroutine[w] # "none" => want[w] \in WaitLoads

Inv == Core /\ CallsInStep

\* Units, of any assignment of metadata and loads to tokens.
UnitsOf(a, m) == UNION {{t} \X (1..a[t].load) : t \in {u \in Token : a[u].meta = m}}

-----------------------------------------------------------------------------
(***************************************************************************)
(* Units                                                                   *)
(***************************************************************************)
\* A unit is a token together with a number up to its load.
LEMMA UnitsMembers ==
  ASSUME NEW a, NEW m
  PROVE  /\ UnitsOf(a, m) \subseteq Token \X Nat
         /\ \A t \in Token, i \in Nat :
              <<t, i>> \in UnitsOf(a, m) <=> a[t].meta = m /\ i \in 1..a[t].load
<1>1. ASSUME NEW u \in UnitsOf(a, m)
      PROVE  u \in Token \X Nat
  <2>1. PICK t \in Token : a[t].meta = m /\ u \in {t} \X (1..a[t].load)
    BY <1>1 DEF UnitsOf
  <2>2. 1..a[t].load \subseteq Nat
    OBVIOUS
  <2> QED BY <2>1, <2>2
<1>2. ASSUME NEW t \in Token, NEW i \in Nat
      PROVE  <<t, i>> \in UnitsOf(a, m) <=> a[t].meta = m /\ i \in 1..a[t].load
  BY DEF UnitsOf
<1> QED BY <1>1, <1>2

\* Sets of pairs over the same tokens with the same pairs are equal.
LEMMA PairsEqual ==
  ASSUME NEW A \in SUBSET (Token \X Nat), NEW B \in SUBSET (Token \X Nat),
         \A t \in Token, i \in Nat : <<t, i>> \in A <=> <<t, i>> \in B
  PROVE  A = B
<1>1. \A u \in Token \X Nat : u[1] \in Token /\ u[2] \in Nat /\ u = <<u[1], u[2]>>
  OBVIOUS
<1>2. \A u \in Token \X Nat : u \in A <=> u \in B
  BY <1>1
<1> QED BY <1>2

\* The load on an incarnation is finite: finitely many tokens of finite load.
LEMMA UnitsFinite ==
  ASSUME NEW a \in Tokens, NEW m
  PROVE  IsFiniteSet(UnitsOf(a, m))
<1> DEFINE U == {u \in Token : a[u].meta = m}
           f == [t \in U |-> {t} \X (1..a[t].load)]
           S == {{t} \X (1..a[t].load) : t \in U}
<1>1. IsFiniteSet(U)
  BY TokenAssumption, FS_Subset
<1>2. f \in Surjection(U, S)
  BY DEF Surjection
<1>3. IsFiniteSet(S)
  BY <1>1, <1>2, FS_Surjection
<1>4. ASSUME NEW t \in U PROVE IsFiniteSet({t} \X (1..a[t].load))
  <2>1. a[t].load \in Int
    BY DEF Tokens
  <2>2. \A n \in Int : IsFiniteSet(1..n)
    BY FS_Interval
  <2>3. IsFiniteSet({t})
    BY FS_Singleton
  <2> QED BY <2>1, <2>2, <2>3, FS_Product
<1>5. \A T \in S : IsFiniteSet(T)
  BY <1>4
<1> QED BY <1>3, <1>5, FS_UNION DEF UnitsOf

\* A token that is given load k on m adds k to the load on m, and nothing
\* to the load on any other incarnation.
LEMMA UnitsOfIssued ==
  ASSUME NEW a \in Tokens, NEW t \in Token, a[t].meta = NoMeta,
         NEW m \in Meta, NEW k \in Nat,
         NEW b \in Tokens, b[t] = [meta |-> m, load |-> k],
         \A u \in Token \ {t} : b[u] = a[u],
         NEW x \in Meta
  PROVE  Cardinality(UnitsOf(b, x)) =
           Cardinality(UnitsOf(a, x)) + (IF x = m THEN k ELSE 0)
<1>1. x # NoMeta /\ m # NoMeta
  BY MetaAssumption
<1>2. b[t].meta = m /\ b[t].load = k /\ \A u \in Token \ {t} : b[u] = a[u]
  OBVIOUS
<1>a. /\ UnitsOf(a, x) \in SUBSET (Token \X Nat)
      /\ \A u \in Token, i \in Nat :
           <<u, i>> \in UnitsOf(a, x) <=> a[u].meta = x /\ i \in 1..a[u].load
  BY UnitsMembers
<1>b. /\ UnitsOf(b, x) \in SUBSET (Token \X Nat)
      /\ \A u \in Token, i \in Nat :
           <<u, i>> \in UnitsOf(b, x) <=> b[u].meta = x /\ i \in 1..b[u].load
  BY UnitsMembers
<1>3. CASE x # m
  <2>1. \A u \in Token : a[u].meta = x <=> b[u].meta = x
    BY <1>1, <1>2, <1>3
  <2>2. \A u \in Token : a[u].meta = x => a[u].load = b[u].load
    BY <1>1, <1>2
  <2>3. \A u \in Token, i \in Nat : <<u, i>> \in UnitsOf(a, x) <=> <<u, i>> \in UnitsOf(b, x)
    BY <1>a, <1>b, <2>1, <2>2
  <2>4. UnitsOf(b, x) = UnitsOf(a, x)
    BY <1>a, <1>b, <2>3, PairsEqual
  <2> QED BY <2>4, <1>3, UnitsFinite, FS_CardinalityType
<1>4. CASE x = m
  <2> DEFINE N == {t} \X (1..k)
  <2>1. UnitsOf(b, x) = UnitsOf(a, x) \cup N
    <3>1. ASSUME NEW u \in Token, NEW i \in Nat
          PROVE  <<u, i>> \in UnitsOf(b, x) <=> <<u, i>> \in UnitsOf(a, x) \cup N
      <4>1. <<u, i>> \in N <=> u = t /\ i \in 1..k
        OBVIOUS
      <4>2. CASE u = t
        BY <1>1, <1>2, <1>4, <4>1, <4>2, <1>a, <1>b
      <4>3. CASE u # t
        BY <1>2, <4>1, <4>3, <1>a, <1>b
      <4> QED BY <4>2, <4>3
    <3>2. UnitsOf(a, x) \cup N \in SUBSET (Token \X Nat)
      BY <1>a
    <3>3. \A u \in Token, i \in Nat :
            <<u, i>> \in UnitsOf(b, x) <=> <<u, i>> \in UnitsOf(a, x) \cup N
      BY <3>1
    <3> HIDE DEF N
    <3> QED BY <3>3, <3>2, <1>b, PairsEqual
  <2>2. UnitsOf(a, x) \cap N = {}
    <3>1. \A i \in Nat : <<t, i>> \notin UnitsOf(a, x)
      BY <1>1, <1>4, <1>a
    <3> QED BY <3>1
  <2>3. IsFiniteSet(N) /\ Cardinality(N) = k
    <3>1. IsFiniteSet(1..k) /\ Cardinality(1..k) = k
      BY FS_Interval
    <3>2. IsFiniteSet({t}) /\ Cardinality({t}) = 1
      BY FS_Singleton
    <3> QED BY <3>1, <3>2, FS_Product
  <2>4. IsFiniteSet(UnitsOf(a, x)) /\ Cardinality(UnitsOf(a, x)) \in Nat
    BY UnitsFinite, FS_CardinalityType
  <2>5. Cardinality(UnitsOf(b, x)) = Cardinality(UnitsOf(a, x)) + k - Cardinality({})
    BY <2>1, <2>2, <2>3, <2>4, FS_Union
  <2> QED BY <2>4, <2>5, <1>4, FS_EmptySet
<1> QED BY <1>3, <1>4

\* Releasing a token takes its load away from its incarnation alone.
LEMMA UnitsOfReturned ==
  ASSUME NEW a \in Tokens, NEW t \in Token, a[t].meta \in Meta,
         NEW b \in Tokens, b[t] = Released,
         \A u \in Token \ {t} : b[u] = a[u],
         NEW x \in Meta
  PROVE  Cardinality(UnitsOf(b, x)) =
           Cardinality(UnitsOf(a, x)) - (IF x = a[t].meta THEN a[t].load ELSE 0)
<1> DEFINE m == a[t].meta
           k == a[t].load
<1>1. b[t].meta = NoMeta /\ k \in Nat /\ a[t] = [meta |-> m, load |-> k]
  BY DEF Tokens, Released
<1>2. \A u \in Token \ {t} : a[u] = b[u]
  OBVIOUS
<1>3. Cardinality(UnitsOf(a, x)) =
        Cardinality(UnitsOf(b, x)) + (IF x = m THEN k ELSE 0)
  BY <1>1, <1>2, UnitsOfIssued, MetaAssumption
<1>4. Cardinality(UnitsOf(b, x)) \in Nat
  BY <1>1, UnitsFinite, FS_CardinalityType
<1> QED BY <1>1, <1>3, <1>4

-----------------------------------------------------------------------------
(***************************************************************************)
(* The queue operations                                                    *)
(***************************************************************************)
\* Restoring the heap and ranking the marks leaves the loads alone.
LEMMA HeapifyFacts ==
  ASSUME NEW ms \in [Meta -> Counters], NEW S \in SUBSET Meta, Heapify(ms, S)
  PROVE  /\ q' = S
         /\ meta' \in [Meta -> Counters]
         /\ \A m \in S : meta'[m].load = ms[m].load
         /\ root' \in S \cup {NoMeta}
         /\ S # {} => root' \in S
<1>1. ASSUME NEW m \in Meta PROVE Rank(ms, S, m) \in Nat
  <2> DEFINE Lower == {x \in S : 0 < ms[x].mark /\ ms[x].mark < ms[m].mark}
  <2>1. IsFiniteSet(Lower)
    BY MetaAssumption, FS_Subset
  <2>2. Cardinality(Lower) \in Nat
    BY <2>1, FS_CardinalityType
  <2> QED BY <2>2 DEF Rank
<1>2. ASSUME NEW m \in Meta, NEW r \in Nat
      PROVE  [ms[m] EXCEPT !.mark = r] \in Counters
             /\ [ms[m] EXCEPT !.mark = r].load = ms[m].load
  BY DEF Counters
<1>3. Blank \in Counters
  BY DEF Blank, Counters
<1>4. Ranked(ms, S) \in [Meta -> Counters]
  BY <1>1, <1>2, <1>3 DEF Ranked
<1>5. \A m \in S : Ranked(ms, S)[m].load = ms[m].load
  BY <1>1, <1>2 DEF Ranked
<1>6. Roots(meta', S) \subseteq S \cup {NoMeta} /\ (S # {} => Roots(meta', S) \subseteq S)
  BY DEF Roots
<1> QED BY <1>4, <1>5, <1>6 DEF Heapify

\* Sampling and marking, too.
LEMMA TriedFacts ==
  ASSUME TypeOK, NEW S
  PROVE  /\ Tried(S) \in [Meta -> Counters]
         /\ \A m \in Meta : Tried(S)[m].load = meta[m].load
         /\ \A m \in Meta : Sampled(m) \in Counters /\ Sampled(m).load = meta[m].load
<1>1. NextMark \in Nat
  BY MetaAssumption, FS_CardinalityType DEF NextMark
<1>2. ASSUME NEW m \in Meta
      PROVE  Sampled(m) \in Counters /\ Sampled(m).load = meta[m].load
  <2>1. EntryOf(m) \in Entry
    BY DEF Meta, EntryOf
  <2>2. profile[EntryOf(m)].max \in Int /\ profile[EntryOf(m)].tier \in Int
    BY <2>1 DEF TypeOK
  <2>3. meta[m] \in Counters
    BY DEF TypeOK, Counters
  <2> QED BY <2>2, <2>3 DEF Sampled, Counters
<1>3. ASSUME NEW m \in Meta
      PROVE  /\ [Sampled(m) EXCEPT !.mark = NextMark] \in Counters
             /\ [Sampled(m) EXCEPT !.mark = NextMark].load = meta[m].load
  BY <1>1, <1>2 DEF Counters
<1>4. meta \in [Meta -> Counters]
  BY DEF TypeOK, Counters
<1>5. Tried(S) \in [Meta -> Counters]
  BY <1>3, <1>4 DEF Tried
<1>6. \A m \in Meta : Tried(S)[m].load = meta[m].load
  BY <1>3 DEF Tried
<1> QED BY <1>2, <1>5, <1>6

\* What a step does to the queue when it takes delta[m] from the load of m.
QueueStep(S, delta) ==
  /\ q' = S
  /\ meta' \in [Meta -> Counters]
  /\ \A m \in S : meta'[m].load = meta[m].load + delta[m]
  /\ root' \in S \cup {NoMeta}
  /\ S # {} => root' \in S

\* newToken charges the entry that was chosen.
LEMMA IssueFacts ==
  ASSUME TypeOK, NEW t \in Token, NEW k \in Nat, NEW m \in q, NEW failed,
         Issue(t, k, m, failed)
  PROVE  /\ QueueStep(q, [x \in Meta |-> IF x = m THEN k ELSE 0])
         /\ tok[t].meta = NoMeta
         /\ tok' = [tok EXCEPT ![t] = [meta |-> m, load |-> k]]
<1> DEFINE ms == Tried(failed \cup {m})
           cs == Charged(ms, m, k)
<1>1. ms \in [Meta -> Counters] /\ \A x \in Meta : ms[x].load = meta[x].load
  BY TriedFacts
<1>2. q \in SUBSET Meta /\ m \in Meta
  BY DEF TypeOK
<1>3. cs \in [Meta -> Counters]
      /\ \A x \in Meta : cs[x].load = ms[x].load + (IF x = m THEN k ELSE 0)
  <2> HIDE DEF ms
  <2> QED BY <1>1, <1>2 DEF Charged, Counters
<1>4. Heapify(cs, q)
  BY DEF Issue
<1> HIDE DEF ms, cs
<1>5. /\ q' = q
      /\ meta' \in [Meta -> Counters]
      /\ \A x \in q : meta'[x].load = cs[x].load
      /\ root' \in q \cup {NoMeta}
      /\ q # {} => root' \in q
  BY <1>2, <1>3, <1>4, HeapifyFacts
<1>6. \A x \in q : meta'[x].load = meta[x].load + (IF x = m THEN k ELSE 0)
  BY <1>1, <1>2, <1>3, <1>5
<1>7. QueueStep(q, [x \in Meta |-> IF x = m THEN k ELSE 0])
  BY <1>2, <1>5, <1>6 DEF QueueStep
<1> QED BY <1>7 DEF Issue, Live

\* A pick in vain charges nobody.
LEMMA NoPickFacts ==
  ASSUME TypeOK, NEW k, NEW failed, NoPick(k, failed)
  PROVE  QueueStep(q, [x \in Meta |-> 0])
<1>1. q \in SUBSET Meta /\ \A x \in Meta : meta[x].load \in Int
  BY DEF TypeOK
<1>2. Heapify(Tried(failed), q)
  BY DEF NoPick
<1>3. /\ Tried(failed) \in [Meta -> Counters]
      /\ \A x \in Meta : Tried(failed)[x].load = meta[x].load
  BY TriedFacts
<1>4. /\ q' = q
      /\ meta' \in [Meta -> Counters]
      /\ \A x \in q : meta'[x].load = Tried(failed)[x].load
      /\ root' \in q \cup {NoMeta}
      /\ q # {} => root' \in q
  BY <1>1, <1>2, <1>3, HeapifyFacts
<1> QED BY <1>1, <1>3, <1>4 DEF QueueStep

\* doRelease takes the load of the token off its entry, if that is enrolled.
LEMMA ReleaseFacts ==
  ASSUME TypeOK, RegistryInSync, NEW t \in Token, NEW g, doRelease(t, g)
  PROVE  /\ QueueStep(q, [x \in Meta |-> IF x = tok[t].meta THEN -tok[t].load ELSE 0])
         /\ tok' = [tok EXCEPT ![t] = Released]
         /\ goroutine' \in {g, Broadcast(g)}
<1> DEFINE m == tok[t].meta
           k == tok[t].load
           ms == [meta EXCEPT ![m] = [Sampled(m) EXCEPT !.load = @ - k]]
<1>1. /\ q \in SUBSET Meta
      /\ meta \in [Meta -> Counters]
      /\ \A x \in Meta : meta[x].load \in Int
      /\ k \in Nat
      /\ root \in q \cup {NoMeta}
  BY DEF TypeOK, Counters
<1>2. tok' = [tok EXCEPT ![t] = Released] /\ goroutine' \in {g, Broadcast(g)}
  BY DEF doRelease
<1>3. CASE k > 0 /\ m \in q
  <2>1. Heapify(ms, q)
    BY <1>3 DEF doRelease
  <2>2. Sampled(m) \in Counters /\ Sampled(m).load = meta[m].load
    BY <1>1, <1>3, TriedFacts
  <2>3. ms \in [Meta -> Counters]
        /\ \A x \in Meta : ms[x].load = meta[x].load + (IF x = m THEN -k ELSE 0)
    BY <1>1, <1>3, <2>2 DEF Counters
  <2> HIDE DEF ms
  <2>4. /\ q' = q
        /\ meta' \in [Meta -> Counters]
        /\ \A x \in q : meta'[x].load = ms[x].load
        /\ root' \in q \cup {NoMeta}
        /\ q # {} => root' \in q
    BY <1>1, <2>1, <2>3, HeapifyFacts
  <2> QED BY <1>1, <1>2, <2>3, <2>4 DEF QueueStep
<1>4. CASE ~(k > 0 /\ m \in q)
  <2>1. UNCHANGED <<q, root, meta>>
    BY <1>4 DEF doRelease
  <2>2. \A x \in q : x = m => k = 0
    BY <1>1, <1>4
  <2>3. q # {} => root \in q
    BY DEF RegistryInSync
  <2> QED BY <1>1, <1>2, <2>1, <2>2, <2>3 DEF QueueStep
<1> QED BY <1>3, <1>4

-----------------------------------------------------------------------------
(***************************************************************************)
(* The parts of the invariant that the steps on the queue preserve         *)
(***************************************************************************)
QueueType ==
  /\ q \in SUBSET Meta
  /\ root \in q \cup {NoMeta}
  /\ meta \in [Meta -> Counters]

\* The registry stays in step with a queue of the same entries.
LEMMA QueueKept ==
  ASSUME Core, NEW delta, QueueStep(q, delta), UNCHANGED canonical
  PROVE  QueueType' /\ RegistryInSync'
<1>1. q' = q /\ QueueType'
  BY DEF Core, TypeOK, QueueStep, QueueType
<1> QED BY <1>1 DEF Core, RegistryInSync, QueueStep

\* Loads that do not change stay accounted for while the tokens stay.
LEMMA AccountsKept ==
  ASSUME Core, NEW S \in SUBSET q, QueueStep(S, [x \in Meta |-> 0]), UNCHANGED tok
  PROVE  LoadAccounting'
<1>1. \A m \in Meta : Outstanding(m)' = Outstanding(m)
  BY DEF Outstanding, Units
<1>2. S \in SUBSET Meta /\ \A x \in Meta : meta[x].load \in Int
  BY DEF Core, TypeOK
<1>3. \A m \in S : meta'[m].load = meta[m].load
  BY <1>2 DEF QueueStep
<1> QED BY <1>1, <1>2, <1>3 DEF Core, LoadAccounting, QueueStep

\* Issuing a token adds to the counter what it adds to the units.
LEMMA AccountsIssue ==
  ASSUME Core, NEW t \in Token, NEW k \in Nat, NEW m \in q, NEW failed,
         Issue(t, k, m, failed)
  PROVE  tok' \in Tokens /\ LoadAccounting'
<1>1. tok \in Tokens /\ q \in SUBSET Meta /\ m \in Meta
      /\ \A x \in Meta : meta[x].load \in Int
  BY DEF Core, TypeOK, Tokens
<1>2. /\ QueueStep(q, [x \in Meta |-> IF x = m THEN k ELSE 0])
      /\ tok[t].meta = NoMeta
      /\ tok' = [tok EXCEPT ![t] = [meta |-> m, load |-> k]]
  BY IssueFacts DEF Core
<1>3. /\ tok' \in Tokens
      /\ tok'[t] = [meta |-> m, load |-> k]
      /\ \A u \in Token \ {t} : tok'[u] = tok[u]
  BY <1>1, <1>2 DEF Tokens
<1>4. ASSUME NEW x \in Meta
      PROVE  Cardinality(UnitsOf(tok', x)) =
               Cardinality(UnitsOf(tok, x)) + (IF x = m THEN k ELSE 0)
  <2>1. tok[t].meta = NoMeta /\ m \in Meta /\ tok \in Tokens
    BY <1>1, <1>2
  <2> QED BY <2>1, <1>3, UnitsOfIssued
<1>5. \A x \in Meta : /\ Outstanding(x) = Cardinality(UnitsOf(tok, x))
                     /\ Outstanding(x)' = Cardinality(UnitsOf(tok', x))
  BY DEF Outstanding, Units, UnitsOf
<1>6. ASSUME NEW x \in q PROVE meta'[x].load = Outstanding(x)'
  <2>1. x \in Meta /\ meta[x].load = Outstanding(x)
    BY <1>1 DEF Core, LoadAccounting
  <2>2. meta'[x].load = meta[x].load + (IF x = m THEN k ELSE 0)
    BY <1>2, <2>1 DEF QueueStep
  <2> QED BY <1>4, <1>5, <2>1, <2>2
<1>7. q' = q
  BY <1>2 DEF QueueStep
<1> QED BY <1>3, <1>6, <1>7 DEF LoadAccounting

\* Releasing a token takes from the counter what it takes from the units.
LEMMA AccountsRelease ==
  ASSUME Core, NEW t \in Token, Live(t), NEW g, doRelease(t, g)
  PROVE  tok' \in Tokens /\ LoadAccounting'
<1> DEFINE m == tok[t].meta
           k == tok[t].load
<1>1. /\ tok \in Tokens /\ q \in SUBSET Meta /\ m \in Meta /\ k \in Nat
      /\ \A x \in Meta : meta[x].load \in Int
  BY DEF Core, TypeOK, Tokens, Live
<1>2. /\ QueueStep(q, [x \in Meta |-> IF x = m THEN -k ELSE 0])
      /\ tok' = [tok EXCEPT ![t] = Released]
  BY ReleaseFacts DEF Core
<1>3. /\ tok' \in Tokens
      /\ tok'[t] = Released
      /\ \A u \in Token \ {t} : tok'[u] = tok[u]
  BY <1>1, <1>2 DEF Tokens, Released
<1>4. \A x \in Meta : Cardinality(UnitsOf(tok', x)) =
        Cardinality(UnitsOf(tok, x)) - (IF x = m THEN k ELSE 0)
  BY <1>1, <1>3, UnitsOfReturned
<1>5. \A x \in Meta : /\ Outstanding(x) = Cardinality(UnitsOf(tok, x))
                     /\ Outstanding(x)' = Cardinality(UnitsOf(tok', x))
  BY DEF Outstanding, Units, UnitsOf
<1>6. ASSUME NEW x \in q PROVE meta'[x].load = Outstanding(x)'
  <2>1. x \in Meta /\ meta[x].load = Outstanding(x)
    BY <1>1 DEF Core, LoadAccounting
  <2>2. meta'[x].load = meta[x].load + (IF x = m THEN -k ELSE 0)
    BY <1>2, <2>1 DEF QueueStep
  <2>3. meta[x].load \in Int
    BY <1>1, <2>1
  <2> QED BY <1>1, <1>4, <1>5, <2>1, <2>2, <2>3
<1>7. q' = q
  BY <1>2 DEF QueueStep
<1> QED BY <1>3, <1>6, <1>7 DEF LoadAccounting

-----------------------------------------------------------------------------
(***************************************************************************)
(* The steps of the goroutines                                             *)
(***************************************************************************)
WaitType ==
  /\ goroutine \in [Waiter -> {"none", "lock", "cond", "offer", "close", "done"}]
  /\ caller \in [Waiter -> {"idle", "select", "token", "error", "nothing"}]
  /\ cancelled \in [Waiter -> BOOLEAN]
  /\ want \in [Waiter -> Nat]
  /\ picked \in [Waiter -> Token \cup {NoToken}]

\* A wake-up moves no goroutine into or out of the select on its token.
LEMMA BroadcastFacts ==
  ASSUME NEW g \in [Waiter -> {"none", "lock", "cond", "offer", "close", "done"}]
  PROVE  /\ Broadcast(g) \in [Waiter -> {"none", "lock", "cond", "offer", "close", "done"}]
         /\ \A w \in Waiter : (Broadcast(g)[w] = "offer") <=> (g[w] = "offer")
BY DEF Broadcast

\* The goroutines stay where they are or are woken, and tokens stay owned.
OwnersKept ==
  /\ goroutine' \in {goroutine, Broadcast(goroutine)}
  /\ UNCHANGED <<caller, cancelled, want, picked>>

LEMMA OwnersKeptFacts ==
  ASSUME Core, OwnersKept
  PROVE  /\ WaitType'
         /\ \A w \in Waiter : (goroutine'[w] = "offer") <=> (picked'[w] # NoToken)
         /\ picked' = picked
<1>1. goroutine \in [Waiter -> {"none", "lock", "cond", "offer", "close", "done"}]
  BY DEF Core, TypeOK
<1>2. goroutine' \in [Waiter -> {"none", "lock", "cond", "offer", "close", "done"}]
      /\ \A w \in Waiter : (goroutine'[w] = "offer") <=> (goroutine[w] = "offer")
  BY <1>1, BroadcastFacts DEF OwnersKept
<1>3. WaitType'
  BY <1>2 DEF Core, TypeOK, WaitType, OwnersKept
<1> QED BY <1>2, <1>3 DEF Core, TokenOwnership, OwnersKept

-----------------------------------------------------------------------------
(***************************************************************************)
(* One lemma for each operation                                            *)
(***************************************************************************)
LEMMA InitCore == Init => Core
<1> SUFFICES ASSUME Init PROVE Core
  OBVIOUS
<1>1. TypeOK
  BY MetaAssumption, ProfileAssumption DEF Init, TypeOK, Blank, Released
<1>2. RegistryInSync /\ LoadAccounting
  BY DEF Init, RegistryInSync, LoadAccounting
<1>3. TokenOwnership
  BY TokenAssumption DEF Init, TokenOwnership, Live, Released
<1> QED BY <1>1, <1>2, <1>3 DEF Core

\* A step that leaves the queue, the tokens' metadata and loads alone leaves
\* them accounted for.
LEMMA QueueUntouched ==
  ASSUME Core, UNCHANGED <<canonical, q, root, meta, tok>>
  PROVE  QueueType' /\ RegistryInSync' /\ LoadAccounting'
<1>1. QueueType'
  BY DEF Core, TypeOK, QueueType, Counters
<1>2. RegistryInSync'
  BY DEF Core, RegistryInSync
<1>3. \A m \in Meta : Outstanding(m)' = Outstanding(m)
  BY DEF Outstanding, Units
<1>4. LoadAccounting'
  BY <1>3 DEF Core, TypeOK, LoadAccounting
<1> QED BY <1>1, <1>2, <1>4

\* The parts of TypeOK.
LEMMA TypeParts ==
  ASSUME QueueType', WaitType',
         profile' \in [Entry -> [max : Int, tier : Int]],
         canonical' \in [Entry -> Meta \cup {NoMeta}],
         tok' \in Tokens, client' \in SUBSET Token, garbage' \in SUBSET Token
  PROVE  TypeOK'
BY DEF QueueType, WaitType, Tokens, TypeOK, Counters

LEMMA RetuneInv ==
  ASSUME Core, NEW e \in Entry, NEW p \in Profile, Retune(e, p)
  PROVE  Core'
<1>1. QueueType' /\ RegistryInSync' /\ LoadAccounting'
  BY QueueUntouched DEF Retune, tokenVars
<1>2. TypeOK'
  BY <1>1, ProfileAssumption DEF Core, Retune, TypeOK, QueueType, Counters, tokenVars, waitVars
<1>3. TokenOwnership'
  BY DEF Core, Retune, TokenOwnership, Live, tokenVars, waitVars
<1> QED BY <1>1, <1>2, <1>3 DEF Core

LEMMA AddInv ==
  ASSUME Core, NEW e \in Entry, NEW m \in Meta, Add(e, m)
  PROVE  Core'
<1> DEFINE r == [load |-> 0, mark |-> 0, maxLoad |-> profile[e].max, tier |-> profile[e].tier]
           ms == [meta EXCEPT ![m] = r]
           S == q \cup {m}
<1>1. /\ S \in SUBSET Meta
      /\ meta \in [Meta -> Counters]
      /\ r \in Counters
      /\ tok \in Tokens
  BY DEF Core, TypeOK, Counters, Tokens
<1>2. ms \in [Meta -> Counters] /\ ms[m].load = 0
      /\ \A x \in Meta : x # m => ms[x] = meta[x]
  BY <1>1
<1>3. Heapify(ms, S)
  BY DEF Add
<1> HIDE DEF ms
<1>4. /\ q' = S
      /\ meta' \in [Meta -> Counters]
      /\ \A x \in S : meta'[x].load = ms[x].load
      /\ root' \in S
  BY <1>1, <1>2, <1>3, HeapifyFacts
<1>5. EntryOf(m) = e /\ canonical[e] = NoMeta /\ m \notin q
      /\ canonical' = [canonical EXCEPT ![e] = m]
      /\ \A t \in Token : tok[t].meta # m
  BY DEF Add
<1>6. RegistryInSync'
  <2>1. \A x \in q : EntryOf(x) \in Entry /\ EntryOf(x) # e
    BY <1>1, <1>5, MetaAssumption DEF Core, RegistryInSync, Meta, EntryOf
  <2>2. canonical \in [Entry -> Meta \cup {NoMeta}]
    BY DEF Core, TypeOK
  <2> QED BY <1>4, <1>5, <2>1, <2>2 DEF Core, RegistryInSync
<1>7. LoadAccounting'
  <2>1. \A x \in Meta : Outstanding(x)' = Outstanding(x)
    BY DEF Outstanding, Units, Add, tokenVars
  <2>2. Units(m) = {}
    BY <1>5 DEF Units
  <2>3. Outstanding(m) = 0
    BY <2>2, FS_EmptySet DEF Outstanding
  <2>4. ASSUME NEW x \in S PROVE meta'[x].load = Outstanding(x)'
    <3>1. CASE x = m
      BY <1>2, <1>4, <2>1, <2>3, <3>1
    <3>2. CASE x # m
      BY <1>1, <1>2, <1>4, <2>1, <3>2 DEF Core, LoadAccounting
    <3> QED BY <3>1, <3>2
  <2> QED BY <1>4, <2>4 DEF LoadAccounting
<1>8. OwnersKept
  BY DEF Add, OwnersKept
<1>9. TypeOK'
  <2>1. QueueType'
    BY <1>1, <1>4 DEF QueueType
  <2>2. WaitType'
    BY <1>8, OwnersKeptFacts
  <2>3. canonical' \in [Entry -> Meta \cup {NoMeta}]
    BY <1>5 DEF Core, TypeOK
  <2>4. /\ profile' \in [Entry -> [max : Int, tier : Int]]
        /\ tok' \in Tokens /\ client' \in SUBSET Token /\ garbage' \in SUBSET Token
    BY <1>1 DEF Core, TypeOK, Add, tokenVars
  <2> QED BY <2>1, <2>2, <2>3, <2>4, TypeParts
<1>10. TokenOwnership'
  <2>1. UNCHANGED <<tok, client, garbage, picked>>
    BY DEF Add, tokenVars
  <2>2. \A w \in Waiter : (goroutine'[w] = "offer") <=> (picked'[w] # NoToken)
    BY <1>8, OwnersKeptFacts
  <2> QED BY <2>1, <2>2 DEF Core, TokenOwnership, Live
<1> QED BY <1>6, <1>7, <1>9, <1>10 DEF Core

LEMMA RemoveInv ==
  ASSUME Core, NEW e \in Entry, Remove(e)
  PROVE  Core'
<1> DEFINE S == q \ {canonical[e]}
<1>1. S \in SUBSET Meta /\ meta \in [Meta -> Counters]
      /\ \A x \in Meta : meta[x].load \in Int
  BY DEF Core, TypeOK, Counters
<1>2. Heapify(meta, S)
  BY DEF Remove
<1>3. /\ q' = S
      /\ meta' \in [Meta -> Counters]
      /\ \A x \in S : meta'[x].load = meta[x].load
      /\ root' \in S \cup {NoMeta}
      /\ S # {} => root' \in S
  BY <1>1, <1>2, HeapifyFacts
<1>4. LoadAccounting'
  <2>1. QueueStep(S, [x \in Meta |-> 0])
    BY <1>1, <1>3 DEF QueueStep
  <2> QED BY <2>1, AccountsKept DEF Remove, tokenVars
<1>5. RegistryInSync'
  <2>1. \A x \in S : x \in q /\ canonical[EntryOf(x)] = x /\ EntryOf(x) \in Entry
    BY <1>1 DEF Core, RegistryInSync, Meta, EntryOf
  <2>2. canonical' = [canonical EXCEPT ![e] = NoMeta] /\ canonical \in [Entry -> Meta \cup {NoMeta}]
    BY DEF Core, TypeOK, Remove
  <2>3. \A x \in S : EntryOf(x) # e
    BY <2>1
  <2>4. \A d \in Entry : d # e /\ canonical[d] # NoMeta => canonical[d] # canonical[e]
    BY DEF Core, RegistryInSync, Remove
  <2>5. \A d \in Entry : canonical'[d] # NoMeta => canonical'[d] \in S /\ EntryOf(canonical'[d]) = d
    BY <2>2, <2>4 DEF Core, RegistryInSync
  <2>6. \A x \in S : canonical'[EntryOf(x)] = x
    BY <2>1, <2>2, <2>3
  <2> QED BY <1>3, <2>5, <2>6 DEF RegistryInSync
<1>6. TypeOK'
  <2>1. canonical' \in [Entry -> Meta \cup {NoMeta}]
    BY DEF Core, TypeOK, Remove
  <2> QED BY <1>1, <1>3, <2>1 DEF Core, TypeOK, Remove, Counters, tokenVars, waitVars
<1>7. TokenOwnership'
  BY DEF Core, Remove, TokenOwnership, Live, tokenVars, waitVars
<1> QED BY <1>4, <1>5, <1>6, <1>7 DEF Core

LEMMA RebalanceInv ==
  ASSUME Core, Rebalance
  PROVE  Core'
<1> DEFINE ms == [m \in Meta |-> Sampled(m)]
<1>1. q \in SUBSET Meta /\ \A x \in Meta : meta[x].load \in Int
  BY DEF Core, TypeOK
<1>2. ms \in [Meta -> Counters] /\ \A x \in Meta : ms[x].load = meta[x].load
  BY TriedFacts DEF Core
<1>3. Heapify(ms, q)
  BY DEF Rebalance
<1> HIDE DEF ms
<1>4. QueueStep(q, [x \in Meta |-> 0])
  BY <1>1, <1>2, <1>3, HeapifyFacts DEF QueueStep
<1>5. QueueType' /\ RegistryInSync'
  BY <1>4, QueueKept DEF Rebalance
<1>6. LoadAccounting'
  BY <1>4, AccountsKept DEF Rebalance, tokenVars
<1>7. OwnersKept
  BY DEF Rebalance, OwnersKept
<1>8. TypeOK'
  <2>1. WaitType'
    BY <1>7, OwnersKeptFacts
  <2>2. /\ profile' \in [Entry -> [max : Int, tier : Int]]
        /\ canonical' \in [Entry -> Meta \cup {NoMeta}]
        /\ tok' \in Tokens /\ client' \in SUBSET Token /\ garbage' \in SUBSET Token
    BY DEF Core, TypeOK, Rebalance, tokenVars, Tokens
  <2> QED BY <1>5, <2>1, <2>2, TypeParts
<1>9. TokenOwnership'
  <2>1. UNCHANGED <<tok, client, garbage, picked>>
    BY DEF Rebalance, tokenVars
  <2>2. \A w \in Waiter : (goroutine'[w] = "offer") <=> (picked'[w] # NoToken)
    BY <1>7, OwnersKeptFacts
  <2> QED BY <2>1, <2>2 DEF Core, TokenOwnership, Live
<1> QED BY <1>5, <1>6, <1>8, <1>9 DEF Core

LEMMA PickLoadInv ==
  ASSUME Core, NEW k \in PickLoads, PickLoad(k)
  PROVE  Core'
<1>1. k \in Nat
  BY LoadAssumption
<1>2. /\ profile' \in [Entry -> [max : Int, tier : Int]]
      /\ canonical' \in [Entry -> Meta \cup {NoMeta}]
      /\ garbage' \in SUBSET Token /\ WaitType'
  BY DEF Core, TypeOK, WaitType, PickLoad, waitVars
<1>3. CASE \E t \in Token, m \in q, failed \in SUBSET q :
             Issue(t, k, m, failed) /\ client' = client \cup {t}
  <2>1. PICK t \in Token, m \in q, failed \in SUBSET q :
          Issue(t, k, m, failed) /\ client' = client \cup {t}
    BY <1>3
  <2>2. /\ QueueStep(q, [x \in Meta |-> IF x = m THEN k ELSE 0])
        /\ tok[t].meta = NoMeta
        /\ tok' = [tok EXCEPT ![t] = [meta |-> m, load |-> k]]
    BY <1>1, <2>1, IssueFacts DEF Core
  <2>3. QueueType' /\ RegistryInSync'
    BY <2>2, QueueKept DEF PickLoad
  <2>4. tok' \in Tokens /\ LoadAccounting'
    BY <1>1, <2>1, AccountsIssue
  <2>5. TypeOK'
    BY <1>2, <2>1, <2>3, <2>4, TypeParts DEF Core, TypeOK
  <2>6. TokenOwnership'
    <3>1. tok'[t].meta # NoMeta /\ \A u \in Token \ {t} : tok'[u] = tok[u]
      BY <2>2, MetaAssumption DEF Core, TypeOK
    <3>2. UNCHANGED <<garbage, goroutine, picked>> /\ client' = client \cup {t}
      BY <2>1 DEF PickLoad, waitVars
    <3> QED BY <2>2, <3>1, <3>2 DEF Core, TokenOwnership, Live
  <2> QED BY <2>3, <2>4, <2>5, <2>6 DEF Core
<1>4. CASE (\E failed \in SUBSET q : NoPick(k, failed)) /\ UNCHANGED <<tok, client>>
  <2>1. QueueStep(q, [x \in Meta |-> 0])
    BY <1>4, NoPickFacts DEF Core
  <2>2. QueueType' /\ RegistryInSync'
    BY <2>1, QueueKept DEF PickLoad
  <2>3. LoadAccounting'
    BY <1>4, <2>1, AccountsKept
  <2>4. TypeOK'
    BY <1>2, <1>4, <2>2, TypeParts DEF Core, TypeOK, Tokens
  <2>5. TokenOwnership'
    BY <1>4 DEF Core, PickLoad, TokenOwnership, Live, waitVars
  <2> QED BY <2>2, <2>3, <2>4, <2>5 DEF Core
<1> QED BY <1>3, <1>4 DEF PickLoad

\* What Release and the finalizer share: the token leaves its only owner.
LEMMA ReleasedByOwner ==
  ASSUME Core, NEW t \in client \cup garbage, doRelease(t, goroutine),
         client' = client \ {t}, garbage' = garbage \ {t},
         UNCHANGED <<profile, canonical, caller, cancelled, want, picked>>
  PROVE  Core'
<1>1. t \in Token /\ Live(t)
  BY DEF Core, TypeOK, TokenOwnership
<1>2. /\ QueueStep(q, [x \in Meta |-> IF x = tok[t].meta THEN -tok[t].load ELSE 0])
      /\ tok' = [tok EXCEPT ![t] = Released]
      /\ goroutine' \in {goroutine, Broadcast(goroutine)}
  BY <1>1, ReleaseFacts DEF Core
<1>3. QueueType' /\ RegistryInSync'
  BY <1>2, QueueKept
<1>4. tok' \in Tokens /\ LoadAccounting'
  BY <1>1, AccountsRelease
<1>5. OwnersKept
  BY <1>2 DEF OwnersKept
<1>6. TypeOK'
  <2>1. WaitType'
    BY <1>5, OwnersKeptFacts
  <2>2. /\ profile' \in [Entry -> [max : Int, tier : Int]]
        /\ canonical' \in [Entry -> Meta \cup {NoMeta}]
        /\ client' \in SUBSET Token /\ garbage' \in SUBSET Token
    BY DEF Core, TypeOK
  <2> QED BY <1>3, <1>4, <2>1, <2>2, TypeParts
<1>7. TokenOwnership'
  <2>1. tok'[t].meta = NoMeta /\ \A u \in Token \ {t} : tok'[u] = tok[u]
    BY <1>1, <1>2 DEF Core, TypeOK, Released
  <2>2. \A w \in Waiter : picked[w] # t
    BY DEF Core, TokenOwnership
  <2>3. \A w \in Waiter : (goroutine'[w] = "offer") <=> (picked'[w] # NoToken)
    BY <1>5, OwnersKeptFacts
  <2> QED BY <2>1, <2>2, <2>3 DEF Core, TokenOwnership, Live
<1> QED BY <1>3, <1>4, <1>6, <1>7 DEF Core

LEMMA ReleaseInv ==
  ASSUME Core, NEW t \in Token, Release(t)
  PROVE  Core'
<1>1. t \in client /\ garbage' = garbage \ {t}
  BY DEF Core, TokenOwnership, Release
<1> QED BY <1>1, ReleasedByOwner DEF Release

LEMMA FinalizerInv ==
  ASSUME Core, NEW t \in Token, tokenFinalizer(t)
  PROVE  Core'
<1>1. t \in garbage /\ client' = client \ {t}
  BY DEF Core, TokenOwnership, tokenFinalizer
<1> QED BY <1>1, ReleasedByOwner DEF tokenFinalizer

\* A token of no load is forgotten for good: it counted for nothing.
LEMMA DropInv ==
  ASSUME Core, NEW t \in Token, Drop(t)
  PROVE  Core'
<1>1. /\ t \in client /\ client' = client \ {t} /\ Live(t)
      /\ UNCHANGED <<profile, canonical, q, root, meta>>
      /\ UNCHANGED <<goroutine, caller, cancelled, want, picked>>
  BY DEF Core, TokenOwnership, Drop, poolVars, waitVars
<1>2. CASE tok[t].load > 0
  <2>1. garbage' = garbage \cup {t} /\ tok' = tok
    BY <1>2 DEF Drop
  <2>2. QueueType' /\ RegistryInSync' /\ LoadAccounting'
    BY <1>1, <2>1, QueueUntouched
  <2>3. TypeOK'
    BY <1>1, <2>1 DEF Core, TypeOK
  <2>4. TokenOwnership'
    BY <1>1, <2>1 DEF Core, TokenOwnership, Live
  <2> QED BY <2>2, <2>3, <2>4 DEF Core
<1>3. CASE ~(tok[t].load > 0)
  <2>1. garbage' = garbage /\ tok' = [tok EXCEPT ![t] = Released]
    BY <1>3 DEF Drop
  <2>2. /\ tok \in Tokens /\ tok[t].meta \in Meta /\ tok[t].load = 0
        /\ q \in SUBSET Meta
    BY <1>1, <1>3 DEF Core, TypeOK, Tokens, Live
  <2>3. /\ tok' \in Tokens
        /\ tok'[t] = Released
        /\ \A u \in Token \ {t} : tok'[u] = tok[u]
    BY <2>1, <2>2 DEF Tokens, Released
  <2>4. ASSUME NEW x \in Meta PROVE Outstanding(x)' = Outstanding(x)
    <3>1. Cardinality(UnitsOf(tok', x)) =
            Cardinality(UnitsOf(tok, x)) - (IF x = tok[t].meta THEN tok[t].load ELSE 0)
      BY <2>2, <2>3, UnitsOfReturned
    <3>2. Cardinality(UnitsOf(tok, x)) \in Nat
      BY <2>2, UnitsFinite, FS_CardinalityType
    <3>3. Cardinality(UnitsOf(tok', x)) = Cardinality(UnitsOf(tok, x))
      BY <2>2, <3>1, <3>2
    <3> QED BY <3>3 DEF Outstanding, Units, UnitsOf
  <2>5. LoadAccounting'
    BY <1>1, <2>2, <2>4 DEF Core, LoadAccounting
  <2>6. RegistryInSync'
    BY <1>1 DEF Core, RegistryInSync
  <2>7. TypeOK'
    BY <1>1, <2>1, <2>3 DEF Core, TypeOK, Tokens
  <2>8. TokenOwnership'
    <3>1. tok'[t].meta = NoMeta
      BY <2>3 DEF Released
    <3> QED BY <1>1, <2>1, <2>3, <3>1 DEF Core, TokenOwnership, Live
  <2> QED BY <2>5, <2>6, <2>7, <2>8 DEF Core
<1> QED BY <1>2, <1>3

\* The steps of Wait that do not touch a token or the queue.
LEMMA QuietWaitInv ==
  ASSUME Core, CallsInStep, NEW w \in Waiter,
         \/ \E k \in WaitLoads : Wait(w, k)
         \/ Cancel(w) \/ Close(w) \/ Return(w) \/ Forget(w)
  PROVE  Core'
<1>1. UNCHANGED <<profile, canonical, q, root, meta, tok, client, garbage, picked>>
  BY DEF Wait, Cancel, Close, Return, Forget, poolVars, tokenVars
<1>2. QueueType' /\ RegistryInSync' /\ LoadAccounting'
  BY <1>1, QueueUntouched
<1>3. WaitType'
  <2>1. ASSUME NEW k \in WaitLoads, Wait(w, k) PROVE WaitType'
    BY <2>1, LoadAssumption DEF Core, TypeOK, WaitType, Wait
  <2>2. CASE Cancel(w)
    BY <2>2 DEF Core, TypeOK, WaitType, Cancel
  <2>3. CASE Close(w)
    BY <2>3 DEF Core, TypeOK, WaitType, Close
  <2>4. CASE Return(w)
    BY <2>4 DEF Core, TypeOK, WaitType, Return
  <2>5. CASE Forget(w)
    BY <2>5 DEF Core, TypeOK, WaitType, Forget
  <2> QED BY <2>1, <2>2, <2>3, <2>4, <2>5
<1>4. TypeOK'
  BY <1>1, <1>2, <1>3, TypeParts DEF Core, TypeOK, Tokens
<1>5. \A v \in Waiter : (goroutine'[v] = "offer") <=> (goroutine[v] = "offer")
  <2>0. \/ goroutine' = goroutine
        \/ goroutine[w] # "offer" /\ \E s \in {"lock", "done", "none"} :
              goroutine' = [goroutine EXCEPT ![w] = s]
    <3>1. caller[w] = "idle" => goroutine[w] # "offer"
      BY DEF CallsInStep
    <3> QED BY <3>1 DEF Wait, Cancel, Close, Return, Forget
  <2> QED BY <2>0 DEF Core, TypeOK
<1>6. TokenOwnership'
  BY <1>1, <1>5 DEF Core, TokenOwnership, Live
<1> QED BY <1>2, <1>4, <1>6 DEF Core

LEMMA TryPickInv ==
  ASSUME Core, NEW w \in Waiter, TryPick(w)
  PROVE  Core'
<1> DEFINE k == want[w]
<1>1. k \in Nat /\ goroutine[w] = "lock" /\ picked[w] = NoToken
  BY DEF Core, TypeOK, TokenOwnership, TryPick
<1>2. /\ profile' \in [Entry -> [max : Int, tier : Int]]
      /\ canonical' \in [Entry -> Meta \cup {NoMeta}]
      /\ client' \in SUBSET Token /\ garbage' \in SUBSET Token
      /\ UNCHANGED <<canonical, client, garbage, caller, cancelled, want>>
  BY DEF Core, TypeOK, TryPick
<1>3. CASE \E t \in Token, m \in q, failed \in SUBSET q :
             /\ Issue(t, k, m, failed)
             /\ picked' = [picked EXCEPT ![w] = t]
             /\ goroutine' = [goroutine EXCEPT ![w] = "offer"]
  <2>1. PICK t \in Token, m \in q, failed \in SUBSET q :
             /\ Issue(t, k, m, failed)
             /\ picked' = [picked EXCEPT ![w] = t]
             /\ goroutine' = [goroutine EXCEPT ![w] = "offer"]
    BY <1>3
  <2>2. /\ QueueStep(q, [x \in Meta |-> IF x = m THEN k ELSE 0])
        /\ tok[t].meta = NoMeta
        /\ tok' = [tok EXCEPT ![t] = [meta |-> m, load |-> k]]
    BY <1>1, <2>1, IssueFacts DEF Core
  <2>3. QueueType' /\ RegistryInSync'
    BY <1>2, <2>2, QueueKept
  <2>4. tok' \in Tokens /\ LoadAccounting'
    BY <1>1, <2>1, AccountsIssue
  <2>5. WaitType'
    BY <1>2, <2>1 DEF Core, TypeOK, WaitType
  <2>6. TypeOK'
    BY <1>2, <2>3, <2>4, <2>5, TypeParts
  <2>7. TokenOwnership'
    <3>1. tok'[t].meta # NoMeta /\ \A u \in Token \ {t} : tok'[u] = tok[u]
      BY <2>2, MetaAssumption DEF Core, TypeOK
    <3>2. /\ picked'[w] = t /\ \A v \in Waiter \ {w} : picked'[v] = picked[v]
          /\ goroutine'[w] = "offer" /\ \A v \in Waiter \ {w} : goroutine'[v] = goroutine[v]
      BY <2>1 DEF Core, TypeOK
    <3>3. t \notin client \cup garbage /\ \A v \in Waiter : picked[v] # t
      BY <2>2 DEF Core, TokenOwnership, Live
    <3>4. t # NoToken
      BY TokenAssumption
    <3>5. \A v \in Waiter : (goroutine'[v] = "offer") <=> (picked'[v] # NoToken)
      BY <3>2, <3>4 DEF Core, TokenOwnership
    <3>6. \A u, v \in Waiter : picked'[u] = picked'[v] => u = v \/ picked'[u] = NoToken
      BY <3>2, <3>3 DEF Core, TokenOwnership
    <3>7. \A u \in Token : tok'[u].meta # NoMeta <=>
            \/ u \in client \cup garbage
            \/ \E v \in Waiter : picked'[v] = u
      <4>1. ASSUME NEW u \in Token, u # t
            PROVE  (\E v \in Waiter : picked'[v] = u) <=> (\E v \in Waiter : picked[v] = u)
        BY <1>1, <3>2, <4>1, TokenAssumption
      <4> QED BY <3>1, <3>2, <4>1 DEF Core, TokenOwnership, Live
    <3>8. \A v \in Waiter : picked'[v] \notin client \cup garbage
      BY <3>2, <3>3 DEF Core, TokenOwnership
    <3> QED BY <1>2, <3>5, <3>6, <3>7, <3>8 DEF Core, TokenOwnership, Live
  <2> QED BY <2>3, <2>4, <2>6, <2>7 DEF Core
<1>4. CASE /\ \E failed \in SUBSET q : NoPick(k, failed)
           /\ goroutine' = [goroutine EXCEPT ![w] =
                              AfterMiss(w)]
           /\ UNCHANGED <<tok, picked>>
  <2>1. QueueStep(q, [x \in Meta |-> 0])
    BY <1>4, NoPickFacts DEF Core
  <2>2. QueueType' /\ RegistryInSync'
    BY <1>2, <2>1, QueueKept
  <2>3. LoadAccounting'
    BY <1>4, <2>1, AccountsKept
  <2>4. WaitType'
    BY <1>2, <1>4 DEF Core, TypeOK, WaitType, AfterMiss
  <2>5. TypeOK'
    BY <1>2, <1>4, <2>2, <2>4, TypeParts DEF Core, TypeOK, Tokens
  <2>6. \A v \in Waiter : (goroutine'[v] = "offer") <=> (goroutine[v] = "offer")
    BY <1>1, <1>4 DEF Core, TypeOK, AfterMiss
  <2>7. TokenOwnership'
    BY <1>2, <1>4, <2>6 DEF Core, TokenOwnership, Live
  <2> QED BY <2>2, <2>3, <2>5, <2>7 DEF Core
<1> QED BY <1>3, <1>4 DEF TryPick

LEMMA DeliverInv ==
  ASSUME Core, NEW w \in Waiter, Deliver(w)
  PROVE  Core'
<1>1. /\ UNCHANGED <<profile, canonical, q, root, meta, tok, garbage, cancelled, want>>
      /\ client' = client \cup {picked[w]}
      /\ picked' = [picked EXCEPT ![w] = NoToken]
      /\ goroutine' = [goroutine EXCEPT ![w] = "close"]
      /\ caller' = [caller EXCEPT ![w] = "token"]
  BY DEF Deliver, poolVars
<1>2. picked[w] \in Token
  BY DEF Core, TypeOK, TokenOwnership, Deliver
<1>3. QueueType' /\ RegistryInSync' /\ LoadAccounting'
  BY <1>1, QueueUntouched
<1>4. WaitType'
  BY <1>1 DEF Core, TypeOK, WaitType
<1>5. TypeOK'
  BY <1>1, <1>2, <1>3, <1>4, TypeParts DEF Core, TypeOK, Tokens
<1>6. TokenOwnership'
  <2>1. /\ picked'[w] = NoToken /\ \A v \in Waiter \ {w} : picked'[v] = picked[v]
        /\ goroutine'[w] # "offer" /\ \A v \in Waiter \ {w} : goroutine'[v] = goroutine[v]
    BY <1>1 DEF Core, TypeOK
  <2>2. \A v \in Waiter \ {w} : picked[v] # picked[w]
    BY <1>2, TokenAssumption DEF Core, TokenOwnership
  <2> QED BY <1>1, <1>2, <2>1, <2>2, TokenAssumption DEF Core, TypeOK, TokenOwnership, Live
<1> QED BY <1>3, <1>5, <1>6 DEF Core

LEMMA AbandonInv ==
  ASSUME Core, NEW w \in Waiter, Abandon(w)
  PROVE  Core'
<1> DEFINE t == picked[w]
           g == [goroutine EXCEPT ![w] = "close"]
<1>1. /\ doRelease(t, g)
      /\ picked' = [picked EXCEPT ![w] = NoToken]
      /\ UNCHANGED <<profile, canonical, client, garbage, caller, cancelled, want>>
  BY DEF Abandon
<1>2. t \in Token /\ Live(t) /\ t \notin client \cup garbage
  BY DEF Core, TypeOK, TokenOwnership, Abandon
<1>3. /\ QueueStep(q, [x \in Meta |-> IF x = tok[t].meta THEN -tok[t].load ELSE 0])
      /\ tok' = [tok EXCEPT ![t] = Released]
      /\ goroutine' \in {g, Broadcast(g)}
  BY <1>1, <1>2, ReleaseFacts DEF Core
<1>4. QueueType' /\ RegistryInSync'
  BY <1>1, <1>3, QueueKept
<1>5. tok' \in Tokens /\ LoadAccounting'
  BY <1>1, <1>2, AccountsRelease
<1>6. /\ goroutine' \in [Waiter -> {"none", "lock", "cond", "offer", "close", "done"}]
      /\ \A v \in Waiter : (goroutine'[v] = "offer") <=> (v # w /\ goroutine[v] = "offer")
  <2>1. /\ g \in [Waiter -> {"none", "lock", "cond", "offer", "close", "done"}]
        /\ \A v \in Waiter : (g[v] = "offer") <=> (v # w /\ goroutine[v] = "offer")
    BY DEF Core, TypeOK
  <2> HIDE DEF g
  <2> QED BY <1>3, <2>1, BroadcastFacts
<1>7. WaitType'
  BY <1>1, <1>6 DEF Core, TypeOK, WaitType
<1>8. TypeOK'
  BY <1>1, <1>4, <1>5, <1>7, TypeParts DEF Core, TypeOK
<1>9. TokenOwnership'
  <2>1. tok'[t].meta = NoMeta /\ \A u \in Token \ {t} : tok'[u] = tok[u]
    BY <1>2, <1>3 DEF Core, TypeOK, Released
  <2>2. picked'[w] = NoToken /\ \A v \in Waiter \ {w} : picked'[v] = picked[v]
    BY <1>1 DEF Core, TypeOK
  <2>3. \A v \in Waiter \ {w} : picked[v] # t
    BY <1>2, TokenAssumption DEF Core, TokenOwnership
  <2> QED BY <1>1, <1>2, <1>6, <2>1, <2>2, <2>3, TokenAssumption
          DEF Core, TypeOK, TokenOwnership, Live
<1> QED BY <1>4, <1>5, <1>8, <1>9 DEF Core

LEMMA StutterCore == Core /\ UNCHANGED vars => Core'
<1> SUFFICES ASSUME Core, UNCHANGED vars PROVE Core'
  OBVIOUS
<1>1. UNCHANGED <<profile, canonical, q, root, meta, tok, client, garbage,
                  goroutine, caller, cancelled, want, picked>>
  BY DEF vars, poolVars, tokenVars, waitVars
<1>2. RegistryInSync' /\ LoadAccounting'
  BY <1>1, QueueUntouched
<1>3. TypeOK' /\ TokenOwnership'
  BY <1>1 DEF Core, TypeOK, TokenOwnership, Live
<1> QED BY <1>2, <1>3 DEF Core

LEMMA NextCore == Core /\ CallsInStep /\ Next => Core'
<1> SUFFICES ASSUME Core, CallsInStep, Next PROVE Core'
  OBVIOUS
<1>1. ASSUME NEW e \in Entry, NEW p \in Profile, Retune(e, p) PROVE Core'
  BY <1>1, RetuneInv
<1>2. ASSUME NEW e \in Entry, NEW m \in Meta, Add(e, m) PROVE Core'
  BY <1>2, AddInv
<1>3. ASSUME NEW e \in Entry, Remove(e) PROVE Core'
  BY <1>3, RemoveInv
<1>4. CASE Rebalance
  BY <1>4, RebalanceInv
<1>5. ASSUME NEW k \in PickLoads, PickLoad(k) PROVE Core'
  BY <1>5, PickLoadInv
<1>6. ASSUME NEW t \in Token, Release(t) \/ Drop(t) \/ tokenFinalizer(t) PROVE Core'
  BY <1>6, ReleaseInv, DropInv, FinalizerInv
<1>7. ASSUME NEW w \in Waiter,
             (\E k \in WaitLoads : Wait(w, k)) \/ Cancel(w) \/ WaitStep(w)
      PROVE  Core'
  BY <1>7, QuietWaitInv, TryPickInv, DeliverInv, AbandonInv DEF WaitStep
<1> QED BY <1>1, <1>2, <1>3, <1>4, <1>5, <1>6, <1>7 DEF Next

-----------------------------------------------------------------------------
(***************************************************************************)
(* The calls of Wait                                                       *)
(***************************************************************************)
\* A step that moves no call, except by waking parked goroutines.
LEMMA CallsKept ==
  ASSUME TypeOK, CallsInStep, goroutine' \in {goroutine, Broadcast(goroutine)},
         UNCHANGED <<caller, cancelled, want>>
  PROVE  CallsInStep'
BY DEF TypeOK, CallsInStep, Broadcast

LEMMA CallsOfOne ==
  ASSUME Core, CallsInStep, NEW w \in Waiter,
         (\E k \in WaitLoads : Wait(w, k)) \/ Cancel(w) \/ WaitStep(w)
  PROVE  CallsInStep'
<1>1. ASSUME NEW k \in WaitLoads, Wait(w, k) PROVE CallsInStep'
  BY <1>1 DEF Core, TypeOK, CallsInStep, Wait
<1>2. CASE Cancel(w)
  BY <1>2 DEF Core, TypeOK, CallsInStep, Cancel
<1>3. CASE TryPick(w)
  <2>1. UNCHANGED <<caller, cancelled, want>> /\ goroutine[w] = "lock"
        /\ \E s \in {"offer", AfterMiss(w)} :
             goroutine' = [goroutine EXCEPT ![w] = s]
    BY <1>3 DEF TryPick
  <2> QED BY <2>1 DEF Core, TypeOK, CallsInStep, AfterMiss
<1>4. CASE Deliver(w)
  BY <1>4 DEF Core, TypeOK, CallsInStep, Deliver
<1>5. CASE Abandon(w)
  <2> DEFINE g == [goroutine EXCEPT ![w] = "close"]
  <2>1. /\ goroutine[w] = "offer" /\ cancelled[w] /\ UNCHANGED <<caller, cancelled, want>>
        /\ doRelease(picked[w], g)
    BY <1>5 DEF Abandon
  <2>2. goroutine' \in {g, Broadcast(g)}
    BY <2>1 DEF doRelease
  <2> QED BY <2>1, <2>2 DEF Core, TypeOK, CallsInStep, Broadcast
<1>6. CASE Close(w)
  BY <1>6 DEF Core, TypeOK, CallsInStep, Close
<1>7. CASE Return(w)
  BY <1>7 DEF Core, TypeOK, CallsInStep, Return
<1>8. CASE Forget(w)
  BY <1>8 DEF Core, TypeOK, CallsInStep, Forget
<1> QED BY <1>1, <1>2, <1>3, <1>4, <1>5, <1>6, <1>7, <1>8 DEF WaitStep

LEMMA NextCalls == Core /\ CallsInStep /\ Next => CallsInStep'
<1> SUFFICES ASSUME Core, CallsInStep, Next PROVE CallsInStep'
  OBVIOUS
<1>1. CASE \E w \in Waiter : \/ \E k \in WaitLoads : Wait(w, k)
                            \/ Cancel(w) \/ WaitStep(w)
  BY <1>1, CallsOfOne
<1>2. CASE ~\E w \in Waiter : \/ \E k \in WaitLoads : Wait(w, k)
                             \/ Cancel(w) \/ WaitStep(w)
  <2>1. goroutine' \in {goroutine, Broadcast(goroutine)} /\ UNCHANGED <<caller, cancelled, want>>
    BY <1>2 DEF Next, Retune, Add, Remove, Rebalance, PickLoad, Release, Drop,
                tokenFinalizer, doRelease, waitVars
  <2> QED BY <2>1, CallsKept DEF Core
<1> QED BY <1>1, <1>2

-----------------------------------------------------------------------------
(***************************************************************************)
(* The theorems                                                            *)
(***************************************************************************)
\* The inductive invariant.
THEOREM Invariance == Spec => []Inv
<1>1. Init => Inv
  <2>1. Init => CallsInStep
    BY DEF Init, CallsInStep
  <2> QED BY <2>1, InitCore DEF Inv
<1>2. Inv /\ [Next]_vars => Inv'
  <2>1. Inv /\ UNCHANGED vars => CallsInStep'
    BY DEF Inv, CallsInStep, vars, waitVars
  <2> QED BY <2>1, NextCore, NextCalls, StutterCore DEF Inv
<1> QED BY <1>1, <1>2, PTL DEF Spec

\* Every variable keeps its type, in particular the owner of a token is one.
THEOREM TypeCorrect == Spec => []TypeOK
<1>1. Inv => TypeOK
  BY DEF Inv, Core
<1> QED BY <1>1, Invariance, PTL

\* The canonical map and the queue always hold the same objects.
THEOREM RegistryStaysInSync == Spec => []RegistryInSync
<1>1. Inv => RegistryInSync
  BY DEF Inv, Core
<1> QED BY <1>1, Invariance, PTL

\* The load counter of an enrolled entry is what its tokens add up to.
THEOREM LoadIsAccounted == Spec => []LoadAccounting
<1>1. Inv => LoadAccounting
  BY DEF Inv, Core
<1> QED BY <1>1, Invariance, PTL

\* An unreleased token always has exactly one owner.
THEOREM TokensAreOwned == Spec => []TokenOwnership
<1>1. Inv => TokenOwnership
  BY DEF Inv, Core
<1> QED BY <1>1, Invariance, PTL

\* Wait gives (nil, nil) only to a call whose context is done.
THEOREM NilOnlyToCancelledCalls == Spec => []NilReturnOnlyWhenCancelled
<1>1. Inv => NilReturnOnlyWhenCancelled
  BY DEF Inv, CallsInStep, NilReturnOnlyWhenCancelled
<1> QED BY <1>1, Invariance, PTL
=============================================================================
