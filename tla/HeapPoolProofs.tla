--------------------------- MODULE HeapPoolProofs ---------------------------
(***************************************************************************)
(* Proofs about HeapPool, for every number of entries and so for heaps of  *)
(* every depth.                                                            *)
(*                                                                         *)
(* The loops of container/heap are functions over the rounds of the loop.  *)
(* That such a function exists, and that what a round preserves holds      *)
(* after all of them, follows from one fact: a set of natural numbers that *)
(* has 0 and with every number the next is Nat.                            *)
(*                                                                         *)
(* The parts, in order: loops and their courses; costLowerThan; the sifts  *)
(* of container/heap; the operations of the queue; the loop of pickLocked; *)
(* the inductive invariant HeapInv; PassesOverAtMostOne; and, over ranks   *)
(* in the place of marks, the refinement of Pool.                          *)
(***************************************************************************)
EXTENDS HeapPool, SequenceTheorems, FiniteSetTheorems, WellFoundedInduction, TLAPS

\* A set of natural numbers that is not empty has a least one.
LEMMA NatMinimum ==
  ASSUME NEW T \in SUBSET Nat, T # {}
  PROVE  \E x \in T : \A y \in T : x <= y
<1> DEFINE R == {ss \in Nat \X Nat : ss[1] < ss[2]}
<1>1. IsWellFoundedOn(R, Nat)
  BY NatLessThanWellFounded DEF OpToRel
<1>2. PICK x \in T : \A y \in T : ~(<<y, x>> \in R)
  <2> HIDE DEF R
  <2> QED BY <1>1, WFMin
<1>3. ASSUME NEW y \in T PROVE x <= y
  <2>1. ~(y < x)
    BY <1>2
  <2> QED BY <2>1
<1> QED BY <1>3

\* The fact that stands in for induction: what has 0 and every successor is Nat.
LEMMA AllNaturals ==
  ASSUME NEW T \in SUBSET Nat, 0 \in T, \A n \in T : n + 1 \in T
  PROVE  T = Nat
<1> SUFFICES ASSUME Nat \ T # {} PROVE FALSE
  OBVIOUS
<1>1. PICK x \in Nat \ T : \A y \in Nat \ T : x <= y
  BY NatMinimum
<1>2. x # 0 /\ x - 1 \in Nat /\ x - 1 \notin Nat \ T
  BY <1>1
<1> QED BY <1>2

\* A loop of n rounds, of which round k, F[<<k, y>>], takes the states y of
\* S[k - 1] to those of S[k], and its course from x.
IsLoop(n, U, S, x, F) ==
  /\ n \in Nat /\ S \in [0..n -> SUBSET U] /\ x \in S[0]
  /\ \A k \in 1..n : \A y \in S[k - 1] : F[<<k, y>>] \in S[k]

IsCourse(n, U, S, x, F, g) ==
  /\ g \in [0..n -> U] /\ g[0] = x
  /\ \A k \in 1..n : g[k] = F[<<k, g[k - 1]>>]
  /\ \A k \in 0..n : g[k] \in S[k]

\* A loop has a course, although what a recursive function computes cannot be
\* unfolded round by round: the numbers of rounds for which there is one are Nat.
LEMMA CourseExists ==
  \A n, U, S, x, F : IsLoop(n, U, S, x, F) => \E g : IsCourse(n, U, S, x, F, g)
<1> SUFFICES ASSUME NEW n, NEW U, NEW S, NEW x, NEW F, IsLoop(n, U, S, x, F)
             PROVE  \E g : IsCourse(n, U, S, x, F, g)
  OBVIOUS
<1>1. /\ n \in Nat /\ S \in [0..n -> SUBSET U] /\ x \in S[0]
      /\ \A k \in 1..n : \A y \in S[k - 1] : F[<<k, y>>] \in S[k]
  BY DEF IsLoop
<1> DEFINE Course(g, m) == /\ g \in [0..m -> U] /\ g[0] = x
                           /\ \A k \in 1..m : g[k] = F[<<k, g[k - 1]>>]
                           /\ \A k \in 0..m : g[k] \in S[k]
           Done == {m \in Nat : m <= n => \E g : Course(g, m)}
<1>2. 0 \in Done
  <2> DEFINE g == [k \in 0..0 |-> x]
  <2>1. Course(g, 0)
    BY <1>1
  <2> QED BY <2>1
<1>3. ASSUME NEW m \in Done PROVE m + 1 \in Done
  <2> SUFFICES ASSUME m + 1 <= n PROVE \E g : Course(g, m + 1)
    <3> HIDE DEF Course
    <3> QED OBVIOUS
  <2>1. m \in Nat /\ m <= n /\ \E g : Course(g, m)
    <3> HIDE DEF Course
    <3> QED BY <1>1
  <2>2. PICK g : Course(g, m)
    BY <2>1
  <2> DEFINE h == [k \in 0..(m + 1) |-> IF k = m + 1 THEN F[<<k, g[m]>>] ELSE g[k]]
  <2>3. h[0] = x /\ \A k \in 0..m : h[k] = g[k]
    BY <2>1, <2>2
  <2>4. h[m + 1] = F[<<m + 1, g[m]>>] /\ h[m + 1] \in S[m + 1]
    <3>1. g[m] \in S[m] /\ F[<<m + 1, g[m]>>] \in S[m + 1]
      BY <1>1, <2>1, <2>2
    <3> QED BY <2>1, <3>1
  <2>5. \A k \in 1..(m + 1) : h[k] = F[<<k, h[k - 1]>>]
    <3> SUFFICES ASSUME NEW k \in 1..(m + 1) PROVE h[k] = F[<<k, h[k - 1]>>]
      OBVIOUS
    <3>1. h[k - 1] = g[k - 1]
      BY <2>3
    <3>2. k # m + 1 => h[k] = g[k] /\ g[k] = F[<<k, g[k - 1]>>]
      BY <2>1, <2>3, <2>2
    <3>3. CASE k = m + 1
      <4>1. k - 1 = m
        BY <2>1, <3>3
      <4>2. h[m] = g[m]
        BY <2>1, <2>3
      <4> HIDE DEF h
      <4> QED BY <2>4, <3>3, <4>1, <4>2
    <3> QED BY <3>1, <3>2, <3>3
  <2>6. \A k \in 0..(m + 1) : h[k] \in S[k] /\ h[k] \in U
    BY <1>1, <2>1, <2>3, <2>4, <2>2
  <2>7. h \in [0..(m + 1) -> U]
    BY <2>6
  <2>8. Course(h, m + 1)
    <3> HIDE DEF h
    <3> QED BY <2>1, <2>3, <2>5, <2>6, <2>7, <2>2
  <2> QED BY <2>8
<1>4. Done = Nat
  <2>1. Done \in SUBSET Nat
    OBVIOUS
  <2> HIDE DEF Done
  <2> QED BY <1>2, <1>3, <2>1, AllNaturals
<1>5. \E g : Course(g, n)
  <2> HIDE DEF Course
  <2>1. n \in Done /\ n <= n
    <3> HIDE DEF Done
    <3> QED BY <1>4, <1>1
  <2> QED BY <2>1
<1> QED BY <1>5 DEF IsCourse

\* What the first state has and every round passes on, the last one has.
LEMMA AlongCourse ==
  ASSUME NEW n \in Nat, NEW c, NEW S, c[0] \in S[0],
         \A k \in 1..n : c[k - 1] \in S[k - 1] => c[k] \in S[k]
  PROVE  \A k \in 0..n : c[k] \in S[k]
<1> DEFINE Done == {k \in Nat : k <= n => c[k] \in S[k]}
<1>1. 0 \in Done
  OBVIOUS
<1>2. ASSUME NEW k \in Done PROVE k + 1 \in Done
  <2> SUFFICES ASSUME k + 1 <= n PROVE c[k + 1] \in S[k + 1]
    OBVIOUS
  <2>1. k + 1 \in 1..n /\ (k + 1) - 1 = k /\ c[k] \in S[k]
    OBVIOUS
  <2> QED BY <2>1
<1>3. Done = Nat
  <2>1. Done \in SUBSET Nat
    OBVIOUS
  <2> HIDE DEF Done
  <2> QED BY <1>1, <1>2, <2>1, AllNaturals
<1> QED BY <1>3

-----------------------------------------------------------------------------
(***************************************************************************)
(* The cost order                                                          *)
(***************************************************************************)
MetaData == [load : Int, mark : Int, maxLoad : Int, tier : Int]

Le(ms, a, b) == ~costLowerThan(ms, b, a)

\* entryMeta.costLowerThan (entry.go:90) is a strict weak order, which both the
\* heap and sort.Slice rely on.
THEOREM CostIsWeakOrder ==
  ASSUME NEW ms \in [Meta -> MetaData], NEW a \in Meta, NEW b \in Meta, NEW c \in Meta
  PROVE  /\ Le(ms, a, a)
         /\ costLowerThan(ms, a, b) => Le(ms, a, b)
         /\ Le(ms, a, b) /\ Le(ms, b, c) => Le(ms, a, c)
         /\ Le(ms, a, b) /\ costLowerThan(ms, b, c) => costLowerThan(ms, a, c)
         /\ costLowerThan(ms, a, b) /\ Le(ms, b, c) => costLowerThan(ms, a, c)
<1>1. \A m \in Meta : /\ ms[m].load \in Int /\ ms[m].mark \in Int
                      /\ ms[m].maxLoad \in Int /\ ms[m].tier \in Int
  BY DEF MetaData
<1> QED BY <1>1 DEF Le, costLowerThan

\* The order of two entries depends on nothing but them.
LEMMA CostIsLocal ==
  ASSUME NEW ms, NEW ns, NEW a, NEW b, ms[a] = ns[a], ms[b] = ns[b]
  PROVE  /\ costLowerThan(ms, a, b) = costLowerThan(ns, a, b)
         /\ Le(ms, a, b) = Le(ns, a, b)
BY DEF costLowerThan, Le

-----------------------------------------------------------------------------
(***************************************************************************)
(* The array                                                               *)
(***************************************************************************)
QueueType == [heap : Seq(Meta), index : [Meta -> Nat], meta : [Meta -> MetaData]]

\* The index of an entry and its place agree.
Placed(h) ==
  /\ \A i \in 1..Len(h.heap) : h.index[h.heap[i]] = i
  /\ \A m \in Meta : h.index[m] # 0 =>
       h.index[m] \in 1..Len(h.heap) /\ h.heap[h.index[m]] = m

\* What h may have become by moving entries among its first n places.
Moved(h, n) ==
  {g \in QueueType : /\ Placed(g)
                     /\ Len(g.heap) = Len(h.heap) /\ g.meta = h.meta
                     /\ \A m \in Meta : g.index[m] = 0 <=> h.index[m] = 0
                     /\ \A c \in 1..Len(h.heap) : c > n => g.heap[c] = h.heap[c]}

\* Entry a of h costs no more than entry b.
Below(h, a, b) == Le(h.meta, h.heap[a], h.heap[b])

\* The first n places below lo are in order.
Ordered(h, n, lo) == \A c \in 2..n : c \div 2 >= lo => Below(h, c \div 2, c)

\* They are, but for the entry at i, and around it.
Nearly(h, n, lo, i) ==
  \A c \in 2..n : /\ c \div 2 >= lo /\ c # i /\ c \div 2 # i => Below(h, c \div 2, c)
                  /\ c \div 2 = i /\ i \div 2 >= lo => Below(h, i \div 2, c)

\* The parts of a queue, with the length and the elements of its array.
LEMMA QueueFacts ==
  ASSUME NEW h \in QueueType
  PROVE  /\ h.heap \in Seq(Meta) /\ h.index \in [Meta -> Nat]
         /\ h.meta \in [Meta -> MetaData]
         /\ Len(h.heap) \in Nat /\ DOMAIN h.heap = 1..Len(h.heap)
         /\ \A i \in 1..Len(h.heap) : h.heap[i] \in Meta
<1>1. h.heap \in Seq(Meta) /\ h.index \in [Meta -> Nat] /\ h.meta \in [Meta -> MetaData]
  BY DEF QueueType
<1> QED BY <1>1, LenProperties, ElementOfSeq

\* A function on 1..n is a sequence of length n.
LEMMA FunctionIsSeq ==
  ASSUME NEW S, NEW n \in Nat, NEW f \in [1..n -> S]
  PROVE  f \in Seq(S) /\ Len(f) = n
<1>1. f \in Seq(S)
  BY SeqDef
<1>2. Len(f) \in Nat /\ 1..Len(f) = 1..n
  BY <1>1, LenProperties
<1> QED BY <1>1, <1>2

\* A queue is a rearrangement of itself.
LEMMA MovedRefl ==
  ASSUME NEW h \in QueueType, Placed(h), NEW n
  PROVE  h \in Moved(h, n)
BY DEF Moved

\* Rearranging within a shorter prefix, after a longer one, is within the longer.
LEMMA MovedTrans ==
  ASSUME NEW h, NEW n \in Nat, NEW m \in Nat, m <= n, NEW g \in Moved(h, n),
         Len(h.heap) \in Nat, NEW f \in Moved(g, m)
  PROVE  f \in Moved(h, n)
<1>1. Len(g.heap) = Len(h.heap)
  BY DEF Moved
<1> QED BY <1>1 DEF Moved

\* The parent of position c, and that c is one of the two children of its parent.
LEMMA HalfFacts ==
  ASSUME NEW c \in Nat, c >= 2
  PROVE  /\ c \div 2 \in Nat /\ c \div 2 >= 1 /\ c \div 2 < c
         /\ c = 2 * (c \div 2) \/ c = 2 * (c \div 2) + 1
OBVIOUS

\* Swap exchanges two entries and the places they remember, and no more.
LEMMA SwapFacts ==
  ASSUME NEW h \in QueueType, Placed(h), NEW n \in Nat, n <= Len(h.heap),
         NEW i \in 1..n, NEW j \in 1..n, i # j
  PROVE  /\ Swap(h, i, j) \in Moved(h, n)
         /\ \A c \in 1..Len(h.heap) :
              Swap(h, i, j).heap[c] = IF c = i THEN h.heap[j]
                                      ELSE IF c = j THEN h.heap[i] ELSE h.heap[c]
<1> DEFINE s == Swap(h, i, j)
           N == Len(h.heap)
           hp == [h.heap EXCEPT ![i] = h.heap[j], ![j] = h.heap[i]]
           ix == [h.index EXCEPT ![h.heap[j]] = i, ![h.heap[i]] = j]
<1>1. /\ h.heap \in Seq(Meta) /\ N \in Nat /\ DOMAIN h.heap = 1..N
      /\ h.index \in [Meta -> Nat] /\ h.meta \in [Meta -> MetaData]
      /\ \A c \in 1..N : h.heap[c] \in Meta
  BY QueueFacts
<1>2. i \in 1..N /\ j \in 1..N
  BY <1>1
<1>3. s = [h EXCEPT !.heap = hp, !.index = ix]
  BY DEF Swap
<1>4. hp \in Seq(Meta) /\ Len(hp) = N /\
      \A c \in 1..N : hp[c] = IF c = i THEN h.heap[j]
                              ELSE IF c = j THEN h.heap[i] ELSE h.heap[c]
  <2>1. h.heap \in [1..N -> Meta]
    BY <1>1
  <2>2. hp \in [1..N -> Meta]
    BY <1>1, <1>2, <2>1
  <2>3. \A c \in 1..N : hp[c] = IF c = i THEN h.heap[j]
                                ELSE IF c = j THEN h.heap[i] ELSE h.heap[c]
    BY <1>1, <1>2, <2>1
  <2> HIDE DEF hp
  <2>4. hp \in Seq(Meta) /\ Len(hp) = N
    BY <1>1, <2>2, FunctionIsSeq
  <2> QED BY <2>3, <2>4
<1>5. h.heap[i] # h.heap[j]
  BY <1>2 DEF Placed
<1>6. ix \in [Meta -> Nat] /\
      \A m \in Meta : ix[m] = IF m = h.heap[i] THEN j
                              ELSE IF m = h.heap[j] THEN i ELSE h.index[m]
  <2>1. /\ h.heap[i] \in Meta /\ h.heap[j] \in Meta /\ i \in Nat /\ j \in Nat
        /\ h.index \in [Meta -> Nat]
    BY <1>1, <1>2
  <2> QED BY <1>5, <2>1
<1> HIDE DEF hp, ix
<1>7. /\ s \in QueueType /\ s.heap = hp /\ s.index = ix /\ s.meta = h.meta
  BY <1>3, <1>4, <1>6 DEF QueueType
<1>8. Placed(s)
  <2>1. ASSUME NEW c \in 1..N PROVE ix[hp[c]] = c
    <3>1. h.index[h.heap[c]] = c /\ h.heap[c] \in Meta
      BY <1>1 DEF Placed
    <3>2. h.heap[c] = h.heap[i] => c = i
      BY <1>2, <3>1 DEF Placed
    <3>3. h.heap[c] = h.heap[j] => c = j
      BY <1>2, <3>1 DEF Placed
    <3> QED BY <1>1, <1>2, <1>4, <1>5, <1>6, <3>1, <3>2, <3>3
  <2>2. ASSUME NEW m \in Meta, ix[m] # 0 PROVE ix[m] \in 1..N /\ hp[ix[m]] = m
    <3>1. CASE m = h.heap[i]
      BY <1>1, <1>2, <1>4, <1>5, <1>6, <3>1
    <3>2. CASE m = h.heap[j]
      BY <1>1, <1>2, <1>4, <1>5, <1>6, <3>2
    <3>3. CASE m # h.heap[i] /\ m # h.heap[j]
      <4>1. ix[m] = h.index[m]
        BY <1>6, <3>3
      <4>2. h.index[m] \in 1..N /\ h.heap[h.index[m]] = m
        BY <2>2, <4>1 DEF Placed
      <4>3. h.index[m] # i /\ h.index[m] # j
        BY <3>3, <4>2
      <4> QED BY <1>4, <4>1, <4>2, <4>3
    <3> QED BY <3>1, <3>2, <3>3
  <2> QED BY <1>4, <1>7, <2>1, <2>2 DEF Placed
<1>9. \A m \in Meta : ix[m] = 0 <=> h.index[m] = 0
  <2>1. h.index[h.heap[i]] # 0 /\ h.index[h.heap[j]] # 0
    BY <1>2 DEF Placed
  <2> QED BY <1>2, <1>6, <2>1
<1>10. \A c \in 1..N : c > n => hp[c] = h.heap[c]
  BY <1>4
<1> QED BY <1>4, <1>7, <1>8, <1>9, <1>10 DEF Moved

-----------------------------------------------------------------------------
(***************************************************************************)
(* down and up                                                             *)
(***************************************************************************)
\* Where down is, having begun at i, with h in order below lo but around i.
DownState(h, n, lo, i) ==
  {s \in [queue : QueueType, at : Nat] :
     /\ s.queue \in Moved(h, n) /\ s.at \in i..n
     /\ s.at = i => s.queue = h
     /\ Nearly(s.queue, n, lo, s.at)
     /\ s.at # i => Below(s.queue, s.at \div 2, s.at)}

\* The loop of down has ended: no child costs less.
Sunk(s, n) == \A c \in 2..n : c \div 2 = s.at => Below(s.queue, s.at, c)

\* What heap.down and heap.up ask with Less, in terms of the order.
LEMMA BelowIsNotLess ==
  ASSUME NEW h, NEW a, NEW b
  PROVE  Below(h, a, b) = ~Less(h, b, a)
BY DEF Below, Le, Less

\* Along the array the cost is transitive and total, because costLowerThan is.
LEMMA BelowOrder ==
  ASSUME NEW h \in QueueType, NEW a \in 1..Len(h.heap), NEW b \in 1..Len(h.heap),
         NEW c \in 1..Len(h.heap)
  PROVE  /\ Below(h, a, b) /\ Below(h, b, c) => Below(h, a, c)
         /\ ~Below(h, b, a) => Below(h, a, b)
         /\ Below(h, a, a)
<1>1. /\ h.meta \in [Meta -> MetaData]
      /\ h.heap[a] \in Meta /\ h.heap[b] \in Meta /\ h.heap[c] \in Meta
  BY QueueFacts
<1> QED BY <1>1, CostIsWeakOrder DEF Below, Le

\* Places a and b of h are compared in g as places c and d.
LEMMA BelowMoved ==
  ASSUME NEW h, NEW g, g.meta = h.meta, NEW a, NEW b, NEW c, NEW d,
         g.heap[c] = h.heap[a], g.heap[d] = h.heap[b]
  PROVE  Below(g, c, d) = Below(h, a, b)
BY DEF Below

\* One round sinks the entry by a level, or finds that it may stay.
LEMMA DownRoundFacts ==
  ASSUME NEW h \in QueueType, Placed(h), NEW n \in 1..Len(h.heap), NEW i \in 1..n,
         NEW lo \in 1..i, NEW s \in DownState(h, n, lo, i)
  PROVE  /\ DownRound(s, n) \in DownState(h, n, lo, i)
         /\ Sunk(s, n) => DownRound(s, n) = s
         /\ Sunk(DownRound(s, n), n) \/ DownRound(s, n).at > s.at
<1> DEFINE q == s.queue
           a == s.at
           N == Len(h.heap)
           least == IF 2 * a + 1 <= n /\ Less(q, 2 * a + 1, 2 * a)
                    THEN 2 * a + 1 ELSE 2 * a
           t == Swap(q, a, least)
<1>1. /\ N \in Nat /\ n \in Nat /\ n <= N /\ i \in Nat /\ i >= 1 /\ lo \in Nat /\ lo >= 1
      /\ lo <= i
  BY QueueFacts
<1>2. /\ q \in QueueType /\ Placed(q) /\ Len(q.heap) = N /\ q \in Moved(h, n)
      /\ a \in Nat /\ a >= i /\ a <= n /\ a \in 1..N
      /\ a = i => q = h
      /\ s = [queue |-> q, at |-> a]
  BY <1>1 DEF DownState, Moved
<1>3. /\ Nearly(q, n, lo, a)
      /\ a # i => Below(q, a \div 2, a)
  BY DEF DownState
<1>4. DownRound(s, n) = IF 2 * a > n \/ ~Less(q, least, a) THEN s
                        ELSE [queue |-> t, at |-> least]
  BY DEF DownRound
<1>5. \A c \in 2..n : c \div 2 = a <=> (c = 2 * a \/ c = 2 * a + 1)
  BY <1>1, <1>2
<1>6. 2 * a <= n => /\ least \in 2..n /\ least \div 2 = a /\ least > a /\ least \in Nat
                    /\ least \in 1..N
  <2>1. least = 2 * a \/ (least = 2 * a + 1 /\ 2 * a + 1 <= n)
    OBVIOUS
  <2> HIDE DEF least, t, q
  <2>2. a \in Nat /\ a >= 1
    BY <1>1, <1>2
  <2> HIDE DEF a
  <2> QED BY <1>1, <2>1, <2>2
<1>7. 2 * a <= n => \A c \in 2..n : c \div 2 = a => Below(q, least, c)
  <2> SUFFICES ASSUME 2 * a <= n, NEW c \in 2..n, c \div 2 = a PROVE Below(q, least, c)
    OBVIOUS
  <2>1. CASE c = least
    BY <1>1, <1>2, <1>6, <2>1, BelowOrder
  <2>2. CASE c # least
    <3>1. CASE least = 2 * a + 1
      <4>1. c = 2 * a /\ Less(q, least, c)
        BY <1>2, <1>5, <2>2, <3>1
      <4>2. c \in 1..N
        BY <1>1
      <4>3. ~Below(q, c, least)
        BY <4>1, BelowIsNotLess
      <4> QED BY <1>2, <1>6, <4>2, <4>3, BelowOrder
    <3>2. CASE least = 2 * a
      <4>1. c = 2 * a + 1 /\ ~Less(q, c, least)
        BY <1>2, <1>5, <2>2, <3>2
      <4> QED BY <4>1, BelowIsNotLess
    <3> QED BY <3>1, <3>2
  <2> QED BY <2>1, <2>2
<1>12. Below(q, a, least) <=> ~Less(q, least, a)
  BY BelowIsNotLess
<1> HIDE DEF q, a, N, least, t
<1>8. CASE 2 * a > n \/ ~Less(q, least, a)
  <2>1. DownRound(s, n) = s
    BY <1>4, <1>8
  <2>2. \A c \in 2..n : c \div 2 = a => Below(q, a, c)
    <3> SUFFICES ASSUME NEW c \in 2..n, c \div 2 = a PROVE Below(q, a, c)
      OBVIOUS
    <3>1. 2 * a <= n
      BY <1>1, <1>2, <1>5
    <3>2. Below(q, a, least) /\ Below(q, least, c)
      BY <1>7, <1>8, <1>12, <1>1, <1>2, <3>1
    <3>3. c \in 1..N
      BY <1>1
    <3> QED BY <1>2, <1>6, <3>1, <3>2, <3>3, BelowOrder
  <2>3. Sunk(s, n)
    BY <2>2 DEF Sunk, q, a
  <2> QED BY <2>1, <2>3
<1>9. CASE ~(2 * a > n \/ ~Less(q, least, a))
  <2>1. /\ 2 * a <= n /\ ~Below(q, a, least)
        /\ DownRound(s, n) = [queue |-> t, at |-> least]
    BY <1>1, <1>2, <1>4, <1>9, <1>12
  <2>2. /\ least \in 2..n /\ least \div 2 = a /\ least > a /\ least \in 1..N
    BY <1>6, <2>1
  <2>3. ~Sunk(s, n)
    BY <2>1, <2>2 DEF Sunk, q, a
  <2>4. /\ t \in Moved(q, n)
        /\ \A c \in 1..N : t.heap[c] = IF c = a THEN q.heap[least]
                                       ELSE IF c = least THEN q.heap[a] ELSE q.heap[c]
    <3>1. n <= Len(q.heap) /\ a \in 1..n /\ least \in 1..n /\ a # least
      BY <1>1, <1>2, <2>2
    <3>2. q \in QueueType /\ Placed(q) /\ n \in Nat
      BY <1>1, <1>2
    <3>3. /\ Swap(q, a, least) \in Moved(q, n)
          /\ \A c \in 1..Len(q.heap) :
               Swap(q, a, least).heap[c] = IF c = a THEN q.heap[least]
                                           ELSE IF c = least THEN q.heap[a] ELSE q.heap[c]
      BY <3>1, <3>2, SwapFacts
    <3>4. t = Swap(q, a, least) /\ Len(q.heap) = N
      BY <1>2 DEF t
    <3> QED BY <3>3, <3>4
  <2>5. t \in QueueType /\ t.meta = q.meta
    BY <2>4 DEF Moved
  <2>6. t \in Moved(h, n)
    BY <1>1, <1>2, <2>4, MovedTrans DEF N
  <2>7. Below(t, a, least)
    <3>1. Below(q, least, a)
      BY <1>2, <2>1, <2>2, BelowOrder
    <3>2. t.heap[a] = q.heap[least] /\ t.heap[least] = q.heap[a]
      BY <1>2, <2>2, <2>4
    <3> QED BY <2>5, <3>1, <3>2, BelowMoved
  <2>8. Nearly(t, n, lo, least)
    <3> SUFFICES ASSUME NEW c \in 2..n
                 PROVE  /\ c \div 2 >= lo /\ c # least /\ c \div 2 # least
                             => Below(t, c \div 2, c)
                        /\ c \div 2 = least /\ least \div 2 >= lo
                             => Below(t, least \div 2, c)
      BY DEF Nearly
    <3> DEFINE p == c \div 2
    <3>1. /\ c \in 1..N /\ c \in Nat /\ p \in Nat /\ p \in 1..N /\ p < c
      BY <1>1, HalfFacts
    <3> HIDE DEF p
    <3>2. ASSUME p >= lo, c # least, p # least PROVE Below(t, p, c)
      <4>1. CASE p = a
        <5>1. Below(q, least, c)
          BY <1>7, <2>1, <4>1 DEF p
        <5>2. t.heap[p] = q.heap[least] /\ t.heap[c] = q.heap[c]
          BY <2>4, <3>1, <3>2, <4>1
        <5> QED BY <2>5, <5>1, <5>2, BelowMoved
      <4>2. CASE c = a
        <5>1. p = a \div 2 /\ Below(q, p, least)
          <6>1. p = a \div 2 /\ p >= lo
            BY <3>2, <4>2 DEF p
          <6> QED BY <1>3, <2>2, <6>1 DEF Nearly
        <5>2. t.heap[p] = q.heap[p] /\ t.heap[c] = q.heap[least]
          BY <2>4, <3>1, <3>2, <4>2
        <5> QED BY <2>5, <5>1, <5>2, BelowMoved
      <4>3. CASE p # a /\ c # a
        <5>1. Below(q, p, c)
          BY <1>3, <3>2, <4>3 DEF Nearly, p
        <5>2. t.heap[p] = q.heap[p] /\ t.heap[c] = q.heap[c]
          BY <2>4, <3>1, <3>2, <4>3
        <5> QED BY <2>5, <5>1, <5>2, BelowMoved
      <4> QED BY <4>1, <4>2, <4>3
    <3>3. ASSUME p = least PROVE Below(t, a, c)
      <4>1. a >= lo /\ c # a /\ p # a
        BY <1>1, <1>2, <2>2, <3>1, <3>3
      <4>2. Below(q, least, c)
        BY <1>1, <1>2, <1>3, <2>2, <3>3, <4>1 DEF Nearly, p
      <4>3. t.heap[a] = q.heap[least] /\ t.heap[c] = q.heap[c]
        BY <1>2, <2>4, <3>1, <3>3, <4>1
      <4> QED BY <2>5, <4>2, <4>3, BelowMoved
    <3> QED BY <2>2, <3>2, <3>3 DEF p
  <2> DEFINE d == [queue |-> t, at |-> least]
  <2>9. /\ d \in [queue : QueueType, at : Nat] /\ d.queue = t /\ d.at = least
        /\ d.at \in i..n /\ d.at # i
    BY <1>1, <1>2, <2>2, <2>5
  <2> HIDE DEF d
  <2>10. d \in DownState(h, n, lo, i)
    BY <2>2, <2>6, <2>7, <2>8, <2>9 DEF DownState
  <2> QED BY <2>1, <2>2, <2>3, <2>9, <2>10 DEF d, a
<1> QED BY <1>8, <1>9

\* The whole of down: the entry at i sinks to where no child costs less.
LEMMA DownFacts ==
  ASSUME NEW h \in QueueType, Placed(h), NEW n \in 1..Len(h.heap), NEW i \in 1..n,
         NEW lo \in 1..i, Nearly(h, n, lo, i)
  PROVE  down(h, i, n) \in DownState(h, n, lo, i) /\ Sunk(down(h, i, n), n)
<1> DEFINE x == [queue |-> h, at |-> i]
           U == DownState(h, n, lo, i)
           R(k) == {s \in U : Sunk(s, n) \/ s.at >= i + k}
           S == [k \in 0..n |-> R(k)]
           F == [ks \in (1..n) \X U |-> DownRound(ks[2], n)]
           after == CHOOSE g : g = [k \in 0..n |-> IF k = 0 THEN x ELSE DownRound(g[k - 1], n)]
<1>1. n \in Nat /\ i \in Nat /\ i >= 1 /\ i <= n /\ Len(h.heap) \in Nat
  BY QueueFacts
<1>2. x \in U
  <2>1. h \in Moved(h, n)
    BY MovedRefl
  <2> QED BY <1>1, <2>1 DEF DownState
<1> HIDE DEF x, U
<1>3. \A k \in 1..n : \A y \in U : y \in R(k - 1) => DownRound(y, n) \in R(k)
  <2> SUFFICES ASSUME NEW k \in 1..n, NEW y \in U, Sunk(y, n) \/ y.at >= i + (k - 1)
               PROVE  /\ DownRound(y, n) \in U
                      /\ Sunk(DownRound(y, n), n) \/ DownRound(y, n).at >= i + k
    OBVIOUS
  <2>1. /\ DownRound(y, n) \in U
        /\ Sunk(y, n) => DownRound(y, n) = y
        /\ Sunk(DownRound(y, n), n) \/ DownRound(y, n).at > y.at
    BY DownRoundFacts DEF U
  <2>2. y.at \in Nat /\ DownRound(y, n).at \in Nat
    BY <2>1 DEF U, DownState
  <2> QED BY <1>1, <2>1, <2>2
<1>4. S \in [0..n -> SUBSET U] /\ x \in S[0]
  <2>1. x.at = i
    BY DEF x
  <2> QED BY <1>1, <1>2, <2>1
<1>5. \A k \in 1..n : \A y \in S[k - 1] : y \in U /\ F[<<k, y>>] = DownRound(y, n)
                                          /\ F[<<k, y>>] \in S[k]
  <2> SUFFICES ASSUME NEW k \in 1..n, NEW y \in S[k - 1]
               PROVE  y \in U /\ F[<<k, y>>] = DownRound(y, n) /\ F[<<k, y>>] \in S[k]
    OBVIOUS
  <2>1. k - 1 \in 0..n /\ k \in 0..n
    BY <1>1
  <2>2. y \in R(k - 1) /\ y \in U
    BY <2>1
  <2>3. F[<<k, y>>] = DownRound(y, n)
    BY <2>2
  <2>4. DownRound(y, n) \in R(k)
    BY <1>3, <2>2
  <2> QED BY <2>1, <2>2, <2>3, <2>4
<1> HIDE DEF S, F, R
<1>6. \E g : g = [k \in 0..n |-> IF k = 0 THEN x ELSE DownRound(g[k - 1], n)]
  <2>1. IsLoop(n, U, S, x, F)
    BY <1>1, <1>4, <1>5 DEF IsLoop
  <2>4. PICK g : IsCourse(n, U, S, x, F, g)
    BY <2>1, CourseExists
  <2>5. /\ g \in [0..n -> U] /\ g[0] = x
        /\ \A k \in 1..n : g[k] = F[<<k, g[k - 1]>>]
        /\ \A k \in 0..n : g[k] \in S[k]
    BY <2>4 DEF IsCourse
  <2>2. \A k \in 0..n : g[k] = IF k = 0 THEN x ELSE DownRound(g[k - 1], n)
    <3> SUFFICES ASSUME NEW k \in 0..n, k # 0 PROVE g[k] = DownRound(g[k - 1], n)
      BY <2>5
    <3>1. k \in 1..n /\ k - 1 \in 0..n
      BY <1>1
    <3> QED BY <1>5, <2>5, <3>1
  <2>3. g = [k \in 0..n |-> IF k = 0 THEN x ELSE DownRound(g[k - 1], n)]
    BY <2>2, <2>5
  <2> QED BY <2>3
<1>7. after = [k \in 0..n |-> IF k = 0 THEN x ELSE DownRound(after[k - 1], n)]
  BY <1>6
<1>8. down(h, i, n) = after[n]
  BY DEF down, x
<1> HIDE DEF after
<1>9. \A k \in 0..n : after[k] \in S[k]
  <2>1. after[0] \in S[0]
    BY <1>1, <1>4, <1>7
  <2>2. \A k \in 1..n : after[k] = DownRound(after[k - 1], n)
    BY <1>7
  <2>3. \A k \in 1..n : after[k - 1] \in S[k - 1] => after[k] \in S[k]
    BY <1>5, <2>2
  <2> QED BY <1>1, <2>1, <2>3, AlongCourse
<1>10. after[n] \in R(n)
  BY <1>1, <1>9 DEF S
<1>11. after[n] \in U /\ (Sunk(after[n], n) \/ after[n].at >= i + n)
  BY <1>10 DEF R
<1>12. after[n].at \in i..n
  BY <1>11 DEF U, DownState
<1> QED BY <1>1, <1>8, <1>11, <1>12 DEF U

\* Where up is, having begun at j, with the first n places of h in order but
\* for the entry at j and its parent.
UpState(h, n, j) ==
  {s \in [queue : QueueType, at : Nat] :
     /\ s.queue \in Moved(h, n) /\ s.at \in 1..j
     /\ \A c \in 2..n : /\ c # s.at => Below(s.queue, c \div 2, c)
                        /\ c \div 2 = s.at /\ s.at # 1 => Below(s.queue, s.at \div 2, c)}

\* The loop of up has ended: the parent costs no more.
Risen(s) == s.at = 1 \/ Below(s.queue, s.at \div 2, s.at)

\* One round raises the entry by a level, or finds that it may stay.
LEMMA UpRoundFacts ==
  ASSUME NEW h \in QueueType, Placed(h), NEW n \in 1..Len(h.heap), NEW j \in 1..n,
         NEW s \in UpState(h, n, j)
  PROVE  /\ UpRound(s) \in UpState(h, n, j)
         /\ Risen(s) => UpRound(s) = s
         /\ Risen(UpRound(s)) \/ UpRound(s).at < s.at
<1> DEFINE q == s.queue
           a == s.at
           i == a \div 2
           N == Len(h.heap)
           t == Swap(q, i, a)
<1>1. N \in Nat /\ n \in Nat /\ n <= N /\ j \in Nat /\ j <= n
  BY QueueFacts
<1>2. /\ q \in QueueType /\ Placed(q) /\ Len(q.heap) = N /\ q \in Moved(h, n)
      /\ a \in Nat /\ a >= 1 /\ a <= j /\ a \in 1..N
      /\ \A c \in 2..n : /\ c # a => Below(q, c \div 2, c)
                         /\ c \div 2 = a /\ a # 1 => Below(q, i, c)
  BY <1>1 DEF UpState, Moved
<1>3. UpRound(s) = IF a = 1 \/ ~Less(q, a, i) THEN s ELSE [queue |-> t, at |-> i]
  BY DEF UpRound
<1>4. Below(q, i, a) <=> ~Less(q, a, i)
  BY BelowIsNotLess
<1>5. Risen(s) <=> (a = 1 \/ Below(q, i, a))
  BY DEF Risen
<1> HIDE DEF q, a, N, t, i
<1>6. CASE a = 1 \/ Below(q, i, a)
  BY <1>3, <1>4, <1>5, <1>6
<1>7. CASE ~(a = 1 \/ Below(q, i, a))
  <2>1. /\ a # 1 /\ ~Below(q, i, a) /\ ~Risen(s)
        /\ UpRound(s) = [queue |-> t, at |-> i]
    BY <1>3, <1>4, <1>5, <1>7
  <2>2. /\ i \in Nat /\ i >= 1 /\ i < a /\ i \in 1..N /\ i \in 1..n /\ a \in 1..n
        /\ a \in 2..n
    BY <1>1, <1>2, <2>1, HalfFacts DEF i
  <2>3. /\ t \in Moved(q, n)
        /\ \A c \in 1..N : t.heap[c] = IF c = i THEN q.heap[a]
                                       ELSE IF c = a THEN q.heap[i] ELSE q.heap[c]
    <3>1. n <= Len(q.heap) /\ i # a
      BY <1>1, <1>2, <2>2
    <3> QED BY <1>1, <1>2, <2>2, <3>1, SwapFacts DEF t
  <2>4. t \in QueueType /\ t.meta = q.meta
    BY <2>3 DEF Moved
  <2>5. t \in Moved(h, n)
    BY <1>1, <1>2, <2>3, MovedTrans DEF N
  <2>6. Below(q, a, i)
    BY <1>2, <2>1, <2>2, BelowOrder
  <2>7. ASSUME NEW c \in 2..n, c # i PROVE Below(t, c \div 2, c)
    <3> DEFINE p == c \div 2
    <3>1. /\ c \in 1..N /\ c \in Nat /\ p \in Nat /\ p \in 1..N /\ p < c
      BY <1>1, HalfFacts
    <3>2. /\ c # a => Below(q, p, c)
          /\ p = a => Below(q, i, c)
      BY <1>2, <2>1
    <3>3. c = a => p = i
      BY DEF i
    <3> HIDE DEF p
    <3>4. CASE c = a
      <4>1. t.heap[p] = q.heap[a] /\ t.heap[c] = q.heap[i]
        BY <2>2, <2>3, <3>1, <3>3, <3>4
      <4> QED BY <2>4, <2>6, <4>1, BelowMoved DEF p
    <3>5. CASE c # a /\ p = i
      <4>1. Below(q, a, c)
        BY <1>2, <2>2, <2>6, <3>1, <3>2, <3>5, BelowOrder
      <4>2. t.heap[p] = q.heap[a] /\ t.heap[c] = q.heap[c]
        BY <2>2, <2>3, <2>7, <3>1, <3>5
      <4> QED BY <2>4, <4>1, <4>2, BelowMoved DEF p
    <3>6. CASE c # a /\ p = a
      <4>1. t.heap[p] = q.heap[i] /\ t.heap[c] = q.heap[c]
        BY <2>2, <2>3, <2>7, <3>1, <3>6
      <4> QED BY <2>4, <3>2, <3>6, <4>1, BelowMoved DEF p
    <3>7. CASE c # a /\ p # i /\ p # a
      <4>1. t.heap[p] = q.heap[p] /\ t.heap[c] = q.heap[c]
        BY <2>3, <2>7, <3>1, <3>7
      <4> QED BY <2>4, <3>2, <3>7, <4>1, BelowMoved DEF p
    <3> QED BY <3>4, <3>5, <3>6, <3>7
  <2>8. ASSUME NEW c \in 2..n, c \div 2 = i, i # 1 PROVE Below(t, i \div 2, c)
    <3> DEFINE g == i \div 2
    <3>1. /\ c \in 1..N /\ c \in Nat /\ c # i
          /\ g \in Nat /\ g \in 1..N /\ g < i /\ i \in 2..n
      BY <1>1, <2>2, <2>8, HalfFacts
    <3>2. Below(q, g, i)
      BY <1>2, <2>2, <3>1
    <3>3. c # a => Below(q, i, c)
      BY <1>2, <2>8
    <3> HIDE DEF g
    <3>4. t.heap[g] = q.heap[g]
      BY <2>2, <2>3, <3>1
    <3>5. CASE c = a
      <4>1. t.heap[c] = q.heap[i]
        BY <1>2, <2>2, <2>3, <3>1, <3>5
      <4> QED BY <2>4, <3>2, <3>4, <4>1, BelowMoved DEF g
    <3>6. CASE c # a
      <4>1. Below(q, g, c)
        BY <1>2, <2>2, <3>1, <3>2, <3>3, <3>6, BelowOrder
      <4>2. t.heap[c] = q.heap[c]
        BY <2>3, <3>1, <3>6
      <4> QED BY <2>4, <3>4, <4>1, <4>2, BelowMoved DEF g
    <3> QED BY <3>5, <3>6
  <2> DEFINE d == [queue |-> t, at |-> i]
  <2>9. /\ d \in [queue : QueueType, at : Nat] /\ d.queue = t /\ d.at = i
        /\ d.at \in 1..j
    BY <1>1, <1>2, <2>2, <2>4
  <2> HIDE DEF d
  <2>10. d \in UpState(h, n, j)
    BY <2>5, <2>7, <2>8, <2>9 DEF UpState
  <2> QED BY <2>1, <2>2, <2>9, <2>10 DEF d, a
<1> QED BY <1>6, <1>7

\* The whole of up: the entry at j rises to where its parent costs no more.
LEMMA UpFacts ==
  ASSUME NEW h \in QueueType, Placed(h), NEW n \in 1..Len(h.heap), NEW j \in 1..n,
         [queue |-> h, at |-> j] \in UpState(h, n, j)
  PROVE  up(h, j) \in Moved(h, n) /\ Ordered(up(h, j), n, 1)
<1> DEFINE x == [queue |-> h, at |-> j]
           U == UpState(h, n, j)
           R(k) == {s \in U : Risen(s) \/ s.at <= j - k}
           S == [k \in 0..j |-> R(k)]
           F == [ks \in (1..j) \X U |-> UpRound(ks[2])]
           after == CHOOSE g : g = [k \in 0..j |-> IF k = 0 THEN x ELSE UpRound(g[k - 1])]
<1>1. n \in Nat /\ j \in Nat /\ j >= 1 /\ j <= n /\ Len(h.heap) \in Nat
  BY QueueFacts
<1>2. x \in U /\ x.at = j
  OBVIOUS
<1> HIDE DEF x, U
<1>3. \A k \in 1..j : \A y \in U : y \in R(k - 1) => UpRound(y) \in R(k)
  <2> SUFFICES ASSUME NEW k \in 1..j, NEW y \in U, Risen(y) \/ y.at <= j - (k - 1)
               PROVE  UpRound(y) \in U /\ (Risen(UpRound(y)) \/ UpRound(y).at <= j - k)
    OBVIOUS
  <2>1. /\ UpRound(y) \in U
        /\ Risen(y) => UpRound(y) = y
        /\ Risen(UpRound(y)) \/ UpRound(y).at < y.at
    BY UpRoundFacts DEF U
  <2>2. y.at \in Nat /\ UpRound(y).at \in Nat
    BY <2>1 DEF U, UpState
  <2> QED BY <1>1, <2>1, <2>2
<1>4. S \in [0..j -> SUBSET U] /\ x \in S[0]
  BY <1>1, <1>2
<1>5. \A k \in 1..j : \A y \in S[k - 1] : y \in U /\ F[<<k, y>>] = UpRound(y)
                                          /\ F[<<k, y>>] \in S[k]
  <2> SUFFICES ASSUME NEW k \in 1..j, NEW y \in S[k - 1]
               PROVE  y \in U /\ F[<<k, y>>] = UpRound(y) /\ F[<<k, y>>] \in S[k]
    OBVIOUS
  <2>1. k - 1 \in 0..j /\ k \in 0..j
    BY <1>1
  <2>2. y \in R(k - 1) /\ y \in U
    BY <2>1
  <2>3. F[<<k, y>>] = UpRound(y)
    BY <2>2
  <2>4. UpRound(y) \in R(k)
    BY <1>3, <2>2
  <2> QED BY <2>1, <2>2, <2>3, <2>4
<1> HIDE DEF S, F, R
<1>6. \E g : g = [k \in 0..j |-> IF k = 0 THEN x ELSE UpRound(g[k - 1])]
  <2>1. IsLoop(j, U, S, x, F)
    BY <1>1, <1>4, <1>5 DEF IsLoop
  <2>2. PICK g : IsCourse(j, U, S, x, F, g)
    BY <2>1, CourseExists
  <2>3. /\ g \in [0..j -> U] /\ g[0] = x
        /\ \A k \in 1..j : g[k] = F[<<k, g[k - 1]>>]
        /\ \A k \in 0..j : g[k] \in S[k]
    BY <2>2 DEF IsCourse
  <2>4. \A k \in 0..j : g[k] = IF k = 0 THEN x ELSE UpRound(g[k - 1])
    <3> SUFFICES ASSUME NEW k \in 0..j, k # 0 PROVE g[k] = UpRound(g[k - 1])
      BY <2>3
    <3>1. k \in 1..j /\ k - 1 \in 0..j
      BY <1>1
    <3> QED BY <1>5, <2>3, <3>1
  <2>5. g = [k \in 0..j |-> IF k = 0 THEN x ELSE UpRound(g[k - 1])]
    BY <2>3, <2>4
  <2> QED BY <2>5
<1>7. after = [k \in 0..j |-> IF k = 0 THEN x ELSE UpRound(after[k - 1])]
  BY <1>6
<1>8. up(h, j) = after[j].queue
  BY DEF up, x
<1> HIDE DEF after
<1>9. \A k \in 0..j : after[k] \in S[k]
  <2>1. after[0] \in S[0]
    BY <1>1, <1>4, <1>7
  <2>2. \A k \in 1..j : after[k] = UpRound(after[k - 1])
    BY <1>7
  <2>3. \A k \in 1..j : after[k - 1] \in S[k - 1] => after[k] \in S[k]
    BY <1>5, <2>2
  <2> QED BY <1>1, <2>1, <2>3, AlongCourse
<1>10. after[j] \in R(j)
  BY <1>1, <1>9 DEF S
<1>11. after[j] \in UpState(h, n, j) /\ (Risen(after[j]) \/ after[j].at <= j - j)
  BY <1>10 DEF R, U
<1>12. Risen(after[j])
  <2>1. after[j].at \in 1..j
    BY <1>11 DEF UpState
  <2> QED BY <1>1, <1>11, <2>1
<1> DEFINE z == after[j]
<1>13. /\ z.queue \in Moved(h, n) /\ z.at \in 1..j
       /\ \A c \in 2..n : c # z.at => Below(z.queue, c \div 2, c)
  BY <1>11 DEF UpState
<1>14. Ordered(z.queue, n, 1)
  <2> SUFFICES ASSUME NEW c \in 2..n PROVE Below(z.queue, c \div 2, c)
    BY DEF Ordered
  <2>1. CASE c = z.at
    <3>1. z.at # 1
      BY <2>1
    <3> QED BY <1>12, <2>1, <3>1 DEF Risen
  <2> QED BY <1>13, <2>1
<1> QED BY <1>8, <1>13, <1>14

-----------------------------------------------------------------------------
(***************************************************************************)
(* The operations of container/heap                                        *)
(***************************************************************************)
\* down, and up if nothing moved, put one entry in order whose cost changed.
LEMMA SiftFacts ==
  ASSUME NEW h \in QueueType, Placed(h), NEW n \in 1..Len(h.heap), NEW i \in 1..n,
         Nearly(h, n, 1, i)
  PROVE  Sift(h, i, n) \in Moved(h, n) /\ Ordered(Sift(h, i, n), n, 1)
<1> DEFINE d == down(h, i, n)
<1>1. n \in Nat /\ i \in Nat /\ i >= 1 /\ 1 \in 1..i
  BY QueueFacts
<1>2. d \in DownState(h, n, 1, i) /\ Sunk(d, n)
  BY <1>1, DownFacts
<1>3. Sift(h, i, n) = IF d.at # i THEN d.queue ELSE up(h, i)
  BY DEF Sift
<1> HIDE DEF d
<1>4. /\ d.queue \in Moved(h, n) /\ d.at \in i..n
      /\ d.at = i => d.queue = h
      /\ Nearly(d.queue, n, 1, d.at)
      /\ d.at # i => Below(d.queue, d.at \div 2, d.at)
      /\ \A c \in 2..n : c \div 2 = d.at => Below(d.queue, d.at, c)
  BY <1>2 DEF DownState, Sunk
<1>5. \A c \in 2..n : c # d.at => Below(d.queue, c \div 2, c)
  <2> SUFFICES ASSUME NEW c \in 2..n, c # d.at PROVE Below(d.queue, c \div 2, c)
    OBVIOUS
  <2>1. c \div 2 >= 1
    BY <1>1, HalfFacts
  <2> QED BY <1>4, <2>1 DEF Nearly
<1>6. CASE d.at # i
  <2>1. Ordered(d.queue, n, 1)
    BY <1>4, <1>5, <1>6 DEF Ordered
  <2> QED BY <1>3, <1>4, <1>6, <2>1
<1>7. CASE d.at = i
  <2> DEFINE x == [queue |-> h, at |-> i]
  <2>1. x \in [queue : QueueType, at : Nat] /\ x.queue = h /\ x.at = i
    BY <1>1
  <2>2. h \in Moved(h, n)
    BY MovedRefl
  <2>3. \A c \in 2..n : c \div 2 = i /\ i # 1 => Below(h, i \div 2, c)
    <3> SUFFICES ASSUME NEW c \in 2..n, c \div 2 = i, i # 1 PROVE Below(h, i \div 2, c)
      OBVIOUS
    <3>1. i \div 2 >= 1
      BY <1>1, HalfFacts
    <3> QED BY <3>1 DEF Nearly
  <2> HIDE DEF x
  <2>4. x \in UpState(h, n, i)
    BY <1>1, <1>4, <1>5, <1>7, <2>1, <2>2, <2>3 DEF UpState
  <2>5. up(h, i) \in Moved(h, n) /\ Ordered(up(h, i), n, 1)
    BY <2>4, UpFacts DEF x
  <2> QED BY <1>3, <1>7, <2>5
<1> QED BY <1>6, <1>7

\* A queue that is a heap whose entries know their places.
Shape(h) == h \in QueueType /\ Placed(h) /\ Ordered(h, Len(h.heap), 1)

\* A rearrangement that is in order is a heap of the same entries.
LEMMA ShapeOfMoved ==
  ASSUME NEW h \in QueueType, NEW g \in Moved(h, Len(h.heap)),
         Ordered(g, Len(h.heap), 1)
  PROVE  /\ Shape(g) /\ g.meta = h.meta /\ Len(g.heap) = Len(h.heap)
         /\ \A m \in Meta : g.index[m] = 0 <=> h.index[m] = 0
BY DEF Shape, Moved

\* Fix after the metadata of one entry of a heap changed.
LEMMA FixFacts ==
  ASSUME NEW h, Shape(h), NEW m \in Meta, h.index[m] # 0, NEW r \in MetaData,
         NEW g, g = Fix([h EXCEPT !.meta = [@ EXCEPT ![m] = r]], h.index[m])
  PROVE  /\ Shape(g) /\ g.meta = [h.meta EXCEPT ![m] = r] /\ Len(g.heap) = Len(h.heap)
         /\ \A x \in Meta : g.index[x] = 0 <=> h.index[x] = 0
<1> DEFINE f == [h EXCEPT !.meta = [@ EXCEPT ![m] = r]]
           n == Len(h.heap)
           i == h.index[m]
<1>1. /\ h \in QueueType /\ Placed(h) /\ Ordered(h, n, 1)
      /\ n \in Nat /\ h.meta \in [Meta -> MetaData]
      /\ \A c \in 1..n : h.heap[c] \in Meta
  BY QueueFacts DEF Shape
<1>2. i \in 1..n /\ h.heap[i] = m /\ \A c \in 1..n : c # i => h.heap[c] # m
  BY <1>1 DEF Placed
<1>3. /\ f \in QueueType /\ f.heap = h.heap /\ f.index = h.index
      /\ f.meta = [h.meta EXCEPT ![m] = r]
  BY <1>1 DEF QueueType
<1> HIDE DEF f, n, i
<1>4. Placed(f)
  BY <1>1, <1>3 DEF Placed
<1>5. \A c, d \in 1..n : c # i /\ d # i => Below(f, c, d) = Below(h, c, d)
  <2> SUFFICES ASSUME NEW c \in 1..n, NEW d \in 1..n, c # i, d # i
               PROVE  Below(f, c, d) = Below(h, c, d)
    OBVIOUS
  <2>1. f.meta[h.heap[c]] = h.meta[h.heap[c]] /\ f.meta[h.heap[d]] = h.meta[h.heap[d]]
    BY <1>1, <1>2, <1>3
  <2>2. Le(f.meta, h.heap[c], h.heap[d]) = Le(h.meta, h.heap[c], h.heap[d])
    BY <2>1, CostIsLocal
  <2> QED BY <1>3, <2>2 DEF Below
<1>6. Nearly(f, n, 1, i)
  <2> SUFFICES ASSUME NEW c \in 2..n
               PROVE  /\ c # i /\ c \div 2 # i => Below(f, c \div 2, c)
                      /\ c \div 2 = i /\ i \div 2 >= 1 => Below(f, i \div 2, c)
    BY DEF Nearly
  <2>1. /\ c \in 1..n /\ c \div 2 \in 1..n /\ c \div 2 >= 1 /\ c # c \div 2
        /\ Below(h, c \div 2, c)
    BY <1>1, HalfFacts DEF Ordered
  <2>2. ASSUME c # i, c \div 2 # i PROVE Below(f, c \div 2, c)
    BY <1>5, <2>1, <2>2
  <2>3. ASSUME c \div 2 = i, i \div 2 >= 1 PROVE Below(f, i \div 2, c)
    <3>1. i \in 2..n /\ i \div 2 \in 1..n /\ i \div 2 # i /\ c # i
      BY <1>1, <1>2, <2>1, <2>3, HalfFacts
    <3>2. Below(h, i \div 2, i)
      BY <1>1, <2>3, <3>1 DEF Ordered
    <3>3. Below(h, i \div 2, c)
      BY <1>1, <1>2, <2>1, <2>3, <3>1, <3>2, BelowOrder DEF n
    <3> QED BY <1>5, <2>1, <3>1, <3>3
  <2> QED BY <2>2, <2>3
<1>7. n \in 1..Len(f.heap) /\ Len(f.heap) = n
  BY <1>1, <1>2, <1>3 DEF n
<1>8. Sift(f, i, n) \in Moved(f, n) /\ Ordered(Sift(f, i, n), n, 1)
  BY <1>2, <1>3, <1>4, <1>6, <1>7, SiftFacts
<1>9. g = Sift(f, i, n)
  BY <1>3 DEF Fix, f, i, n
<1> QED BY <1>3, <1>7, <1>8, <1>9, ShapeOfMoved DEF n

\* Push of an entry that is not in the heap adds it and leaves a heap.
LEMMA PushFacts ==
  ASSUME NEW h, Shape(h), NEW m \in Meta, h.index[m] = 0
  PROVE  LET g == Push(h, m)
         IN /\ Shape(g) /\ g.meta = h.meta
            /\ \A x \in Meta : g.index[x] = 0 <=> h.index[x] = 0 /\ x # m
<1> DEFINE n == Len(h.heap) + 1
           f == [h EXCEPT !.heap = Append(@, m), !.index = [@ EXCEPT ![m] = n]]
<1>1. /\ h \in QueueType /\ Placed(h) /\ Ordered(h, Len(h.heap), 1)
      /\ Len(h.heap) \in Nat /\ h.heap \in Seq(Meta) /\ h.index \in [Meta -> Nat]
      /\ h.meta \in [Meta -> MetaData]
      /\ \A c \in 1..Len(h.heap) : h.heap[c] \in Meta
  BY QueueFacts DEF Shape
<1>2. n \in Nat /\ n >= 1 /\ Len(h.heap) = n - 1
  BY <1>1
<1>3. /\ f.heap \in Seq(Meta) /\ Len(f.heap) = n /\ f.heap[n] = m
      /\ \A c \in 1..(n - 1) : f.heap[c] = h.heap[c]
  BY <1>1, AppendProperties
<1>4. /\ f \in QueueType /\ f.index = [h.index EXCEPT ![m] = n] /\ f.meta = h.meta
  BY <1>1, <1>2, <1>3 DEF QueueType
<1>5. Push(h, m) = up(f, n)
  BY DEF Push
<1> HIDE DEF f, n
<1>6. Placed(f)
  <2>1. ASSUME NEW c \in 1..n PROVE f.index[f.heap[c]] = c
    <3>1. CASE c = n
      BY <1>1, <1>3, <1>4, <3>1
    <3>2. CASE c # n
      <4>1. c \in 1..(n - 1)
        BY <1>2, <3>2
      <4>2. h.index[h.heap[c]] = c /\ h.heap[c] \in Meta
        BY <1>1, <1>2, <4>1 DEF Placed
      <4>3. h.heap[c] # m
        BY <1>2, <4>1, <4>2
      <4>4. f.heap[c] = h.heap[c]
        BY <1>3, <4>1
      <4>5. f.index[h.heap[c]] = h.index[h.heap[c]]
        BY <1>1, <1>4, <4>2, <4>3
      <4> QED BY <4>2, <4>4, <4>5
    <3> QED BY <3>1, <3>2
  <2>2. ASSUME NEW x \in Meta, f.index[x] # 0
        PROVE  f.index[x] \in 1..n /\ f.heap[f.index[x]] = x
    <3>1. CASE x = m
      BY <1>1, <1>2, <1>3, <1>4, <3>1
    <3>2. CASE x # m
      <4>1. f.index[x] = h.index[x]
        BY <1>1, <1>4, <3>2
      <4>2. h.index[x] \in 1..(n - 1) /\ h.heap[h.index[x]] = x
        BY <1>1, <1>2, <2>2, <4>1 DEF Placed
      <4> QED BY <1>2, <1>3, <4>1, <4>2
    <3> QED BY <3>1, <3>2
  <2> QED BY <1>3, <2>1, <2>2 DEF Placed
<1> DEFINE x == [queue |-> f, at |-> n]
<1>7. x \in [queue : QueueType, at : Nat] /\ x.queue = f /\ x.at = n
  BY <1>2, <1>4
<1> HIDE DEF x
<1>8. x \in UpState(f, n, n)
  <2>1. ASSUME NEW c \in 2..n, c # n PROVE Below(f, c \div 2, c)
    <3>1. /\ c \in 2..(n - 1) /\ c \in 1..(n - 1) /\ c \div 2 \in 1..(n - 1)
          /\ c \div 2 >= 1
      BY <1>2, <2>1, HalfFacts
    <3>2. Below(h, c \div 2, c)
      BY <1>1, <1>2, <3>1 DEF Ordered
    <3>3. f.heap[c] = h.heap[c] /\ f.heap[c \div 2] = h.heap[c \div 2]
      BY <1>3, <3>1
    <3> QED BY <1>4, <3>2, <3>3, BelowMoved
  <2>2. \A c \in 2..n : c \div 2 # n
    BY <1>2
  <2>3. f \in Moved(f, n)
    BY <1>4, <1>6, MovedRefl
  <2> QED BY <1>2, <1>7, <2>1, <2>2, <2>3 DEF UpState
<1>9. up(f, n) \in Moved(f, n) /\ Ordered(up(f, n), n, 1)
  <2>1. n \in 1..Len(f.heap) /\ n \in 1..n
    BY <1>2, <1>3
  <2> QED BY <1>4, <1>6, <1>8, <2>1, UpFacts DEF x
<1>10. /\ Shape(up(f, n)) /\ up(f, n).meta = f.meta
       /\ \A y \in Meta : up(f, n).index[y] = 0 <=> f.index[y] = 0
  <2> DEFINE u == up(f, n)
  <2>1. u \in Moved(f, Len(f.heap)) /\ Ordered(u, Len(f.heap), 1) /\ f \in QueueType
    BY <1>3, <1>4, <1>9
  <2> HIDE DEF u
  <2>2. /\ Shape(u) /\ u.meta = f.meta
        /\ \A y \in Meta : u.index[y] = 0 <=> f.index[y] = 0
    BY <2>1, ShapeOfMoved
  <2> QED BY <2>2 DEF u
<1>11. \A y \in Meta : f.index[y] = 0 <=> h.index[y] = 0 /\ y # m
  BY <1>1, <1>2, <1>4
<1> QED BY <1>4, <1>5, <1>10, <1>11

\* Pop takes off the last place.
LEMMA PopFacts ==
  ASSUME NEW h \in QueueType, Placed(h), Len(h.heap) # 0,
         Ordered(h, Len(h.heap) - 1, 1)
  PROVE  LET g == Pop(h)
         IN /\ Shape(g) /\ g.meta = h.meta
            /\ \A x \in Meta : g.index[x] = 0 <=> h.index[x] = 0 \/ x = h.heap[Len(h.heap)]
<1> DEFINE n == Len(h.heap)
           last == h.heap[n]
           g == Pop(h)
<1>1. /\ n \in Nat /\ n >= 1 /\ h.heap \in Seq(Meta) /\ h.index \in [Meta -> Nat]
      /\ h.meta \in [Meta -> MetaData]
      /\ \A c \in 1..n : h.heap[c] \in Meta
  BY QueueFacts
<1>2. g = [h EXCEPT !.heap = SubSeq(@, 1, n - 1), !.index = [@ EXCEPT ![last] = 0]]
  BY DEF Pop, notInPQueue
<1>3. last \in Meta /\ h.index[last] = n
  BY <1>1 DEF Placed
<1>4. /\ SubSeq(h.heap, 1, n - 1) \in Seq(Meta)
      /\ Len(SubSeq(h.heap, 1, n - 1)) = n - 1
      /\ \A c \in 1..(n - 1) : SubSeq(h.heap, 1, n - 1)[c] = h.heap[c]
  <2>1. \A c \in 1..(n - 1) : h.heap[c] \in Meta
    BY <1>1
  <2>2. 1 \in Int /\ n - 1 \in Int /\ (n - 1) - 1 + 1 = n - 1
        /\ (IF 1 <= n - 1 THEN (n - 1) - 1 + 1 ELSE 0) = n - 1
    BY <1>1
  <2>3. /\ SubSeq(h.heap, 1, n - 1) \in Seq(Meta)
        /\ Len(SubSeq(h.heap, 1, n - 1)) = IF 1 <= n - 1 THEN (n - 1) - 1 + 1 ELSE 0
        /\ \A c \in 1..((n - 1) - 1 + 1) : SubSeq(h.heap, 1, n - 1)[c] = h.heap[1 + c - 1]
    BY <2>1, <2>2, SubSeqProperties
  <2>4. \A c \in 1..(n - 1) : 1 + c - 1 = c
    OBVIOUS
  <2> QED BY <2>2, <2>3, <2>4
<1>5. /\ g \in QueueType /\ g.meta = h.meta
      /\ g.heap = SubSeq(h.heap, 1, n - 1) /\ g.index = [h.index EXCEPT ![last] = 0]
  <2> DEFINE ix == [h.index EXCEPT ![last] = 0]
             hp == SubSeq(h.heap, 1, n - 1)
  <2>1. ix \in [Meta -> Nat] /\ hp \in Seq(Meta)
    BY <1>1, <1>4
  <2>2. g = [h EXCEPT !.heap = hp, !.index = ix]
    BY <1>2
  <2> HIDE DEF g, ix, hp
  <2>3. g \in QueueType /\ g.meta = h.meta /\ g.heap = hp /\ g.index = ix
    BY <2>1, <2>2 DEF QueueType
  <2> QED BY <2>3 DEF ix, hp
<1> HIDE DEF g, last, n
<1>6. \A x \in Meta : g.index[x] = IF x = last THEN 0 ELSE h.index[x]
  BY <1>1, <1>3, <1>5
<1>7. Placed(g)
  <2>1. ASSUME NEW c \in 1..(n - 1) PROVE g.index[g.heap[c]] = c
    <3>1. h.index[h.heap[c]] = c /\ h.heap[c] \in Meta /\ h.heap[c] # last
      BY <1>1, <1>3 DEF Placed, n
    <3> QED BY <1>4, <1>5, <1>6, <3>1
  <2>2. ASSUME NEW x \in Meta, g.index[x] # 0
        PROVE  g.index[x] \in 1..(n - 1) /\ g.heap[g.index[x]] = x
    <3>1. x # last /\ g.index[x] = h.index[x] /\ h.index[x] # 0
      BY <1>6, <2>2
    <3>2. h.index[x] \in 1..n /\ h.heap[h.index[x]] = x
      BY <3>1 DEF Placed, n
    <3>3. h.index[x] # n
      BY <3>1, <3>2 DEF last
    <3>4. h.index[x] \in 1..(n - 1)
      BY <1>1, <3>2, <3>3
    <3> QED BY <1>4, <1>5, <3>1, <3>2, <3>4
  <2> QED BY <1>4, <1>5, <2>1, <2>2 DEF Placed
<1>8. Ordered(g, n - 1, 1)
  <2> SUFFICES ASSUME NEW c \in 2..(n - 1) PROVE Below(g, c \div 2, c)
    BY DEF Ordered
  <2>1. c \in 1..(n - 1) /\ c \div 2 \in 1..(n - 1) /\ c \div 2 >= 1
    BY <1>1, HalfFacts
  <2>2. Below(h, c \div 2, c)
    BY <2>1 DEF Ordered, n
  <2>3. g.heap[c] = h.heap[c] /\ g.heap[c \div 2] = h.heap[c \div 2]
    BY <1>4, <1>5, <2>1
  <2>4. g.meta = h.meta
    BY <1>5
  <2> QED BY <2>2, <2>3, <2>4, BelowMoved
<1>9. Shape(g)
  BY <1>4, <1>5, <1>7, <1>8 DEF Shape
<1> QED BY <1>3, <1>5, <1>6, <1>9 DEF g, last, n

\* Remove of an entry, wherever it is, takes away that one and leaves a heap.
LEMMA RemoveFacts ==
  ASSUME NEW h, Shape(h), NEW m \in Meta, h.index[m] # 0
  PROVE  LET g == HeapRemove(h, h.index[m])
         IN /\ Shape(g) /\ g.meta = h.meta
            /\ \A x \in Meta : g.index[x] = 0 <=> h.index[x] = 0 \/ x = m
<1> DEFINE n == Len(h.heap)
           i == h.index[m]
<1>1. /\ h \in QueueType /\ Placed(h) /\ Ordered(h, n, 1)
      /\ n \in Nat /\ \A c \in 1..n : h.heap[c] \in Meta
  BY QueueFacts DEF Shape
<1>2. i \in 1..n /\ h.heap[i] = m /\ n # 0
  BY <1>1 DEF Placed
<1>3. Ordered(h, n - 1, 1)
  BY <1>1 DEF Ordered
<1>4. CASE i = n
  <2>1. HeapRemove(h, i) = Pop(h)
    BY <1>4 DEF HeapRemove
  <2> QED BY <1>1, <1>2, <1>3, <1>4, <2>1, PopFacts
<1>5. CASE i # n
  <2> DEFINE f == Swap(h, i, n)
             s == Sift(f, i, n - 1)
  <2>1. HeapRemove(h, i) = Pop(s)
    BY <1>5 DEF HeapRemove
  <2>2. n - 1 \in Nat /\ n - 1 >= 1 /\ i \in 1..(n - 1) /\ n \in 1..n /\ n <= n
    BY <1>1, <1>2, <1>5
  <2>3. /\ f \in Moved(h, n)
        /\ \A c \in 1..n : f.heap[c] = IF c = i THEN h.heap[n]
                                       ELSE IF c = n THEN h.heap[i] ELSE h.heap[c]
    <3>1. i \in 1..n /\ n \in Nat
      BY <1>1, <1>2
    <3> HIDE DEF i, s
    <3>2. /\ Swap(h, i, n) \in Moved(h, n)
          /\ \A c \in 1..n : Swap(h, i, n).heap[c] =
               IF c = i THEN h.heap[n] ELSE IF c = n THEN h.heap[i] ELSE h.heap[c]
      BY <1>1, <1>5, <2>2, <3>1, SwapFacts
    <3> QED BY <3>2
  <2> HIDE DEF n, i, f, s
  <2>4. /\ f \in QueueType /\ Placed(f) /\ Len(f.heap) = n /\ f.meta = h.meta
        /\ \A x \in Meta : f.index[x] = 0 <=> h.index[x] = 0
    BY <2>3 DEF Moved, n
  <2>5. \A c, d \in 1..(n - 1) : c # i /\ d # i => Below(f, c, d) = Below(h, c, d)
    <3> SUFFICES ASSUME NEW c \in 1..(n - 1), NEW d \in 1..(n - 1), c # i, d # i
                 PROVE  Below(f, c, d) = Below(h, c, d)
      OBVIOUS
    <3>1. f.heap[c] = h.heap[c] /\ f.heap[d] = h.heap[d]
      BY <1>1, <2>3
    <3>2. f.meta = h.meta
      BY <2>4
    <3> QED BY <3>1, <3>2, BelowMoved
  <2>6. Nearly(f, n - 1, 1, i)
    <3> SUFFICES ASSUME NEW c \in 2..(n - 1)
                 PROVE  /\ c # i /\ c \div 2 # i => Below(f, c \div 2, c)
                        /\ c \div 2 = i /\ i \div 2 >= 1 => Below(f, i \div 2, c)
      BY DEF Nearly
    <3>1. /\ c \in 1..(n - 1) /\ c \div 2 \in 1..(n - 1) /\ c \div 2 >= 1 /\ c # c \div 2
          /\ Below(h, c \div 2, c)
      BY <1>1, <1>3, HalfFacts DEF Ordered
    <3>2. ASSUME c # i, c \div 2 # i PROVE Below(f, c \div 2, c)
      BY <2>5, <3>1, <3>2
    <3>3. ASSUME c \div 2 = i, i \div 2 >= 1 PROVE Below(f, i \div 2, c)
      <4>1. i \in 2..(n - 1) /\ i \div 2 \in 1..(n - 1) /\ i \div 2 # i /\ c # i
        BY <1>1, <2>2, <3>1, <3>3, HalfFacts
      <4>2. Below(h, i \div 2, i)
        BY <1>3, <3>3, <4>1 DEF Ordered
      <4>3. i \div 2 \in 1..n /\ i \in 1..n /\ c \in 1..n
        BY <1>1, <3>1, <4>1
      <4>4. Below(h, i \div 2, c)
        BY <1>1, <3>1, <3>3, <4>2, <4>3, BelowOrder DEF n
      <4> QED BY <2>5, <3>1, <4>1, <4>4
    <3> QED BY <3>2, <3>3
  <2>7. s \in Moved(f, n - 1) /\ Ordered(s, n - 1, 1)
    <3>1. n - 1 \in 1..Len(f.heap)
      BY <1>1, <2>2, <2>4
    <3> QED BY <2>2, <2>4, <2>6, <3>1, SiftFacts DEF s
  <2>8. /\ s \in QueueType /\ Placed(s) /\ Len(s.heap) = n /\ s.meta = h.meta
        /\ \A x \in Meta : s.index[x] = 0 <=> h.index[x] = 0
        /\ s.heap[n] = m
    <3>1. f.heap[n] = m /\ n \in 1..n /\ n > n - 1
      BY <1>1, <1>2, <1>5, <2>2, <2>3
    <3> QED BY <2>4, <2>7, <3>1 DEF Moved
  <2>9. LET g == Pop(s)
        IN /\ Shape(g) /\ g.meta = s.meta
           /\ \A x \in Meta : g.index[x] = 0 <=> s.index[x] = 0 \/ x = s.heap[Len(s.heap)]
    BY <1>2, <2>7, <2>8, PopFacts DEF n
  <2> QED BY <2>1, <2>8, <2>9 DEF i
<1> QED BY <1>4, <1>5

\* Init brings any array of entries in order.
LEMMA HeapInitFacts ==
  ASSUME NEW h \in QueueType, Placed(h)
  PROVE  LET g == HeapInit(h)
         IN /\ Shape(g) /\ g.meta = h.meta
            /\ \A m \in Meta : g.index[m] = 0 <=> h.index[m] = 0
<1> DEFINE n == Len(h.heap)
           half == n \div 2
           U == Moved(h, n)
           Round(k, y) == down(y, half + 1 - k, n).queue
           R(k) == {y \in U : Ordered(y, n, half + 1 - k)}
           S == [k \in 0..half |-> R(k)]
           F == [ks \in (1..half) \X U |-> Round(ks[1], ks[2])]
           after == CHOOSE g : g = [k \in 0..half |-> IF k = 0 THEN h ELSE Round(k, g[k - 1])]
<1>1. n \in Nat /\ half \in Nat /\ half <= n /\ 2 * half <= n /\ n <= 2 * half + 1
  <2>1. n \in Nat
    BY QueueFacts
  <2> HIDE DEF n
  <2> QED BY <2>1
<1>2. HeapInit(h) = after[half]
  BY DEF HeapInit
<1> HIDE DEF half
<1>3. h \in R(0)
  <2>1. h \in U
    BY MovedRefl
  <2>2. \A c \in 2..n : ~(c \div 2 >= half + 1 - 0)
    BY <1>1
  <2> QED BY <2>1, <2>2 DEF Ordered
<1>4. ASSUME NEW k \in 1..half, NEW y \in U, y \in R(k - 1)
      PROVE  Round(k, y) \in R(k)
  <2> DEFINE i == half + 1 - k
             d == down(y, i, n)
  <2>1. i \in 1..n /\ i \in 1..i /\ i \in Nat /\ i + 1 = half + 1 - (k - 1)
    BY <1>1
  <2>2. y \in QueueType /\ Placed(y) /\ Len(y.heap) = n /\ Ordered(y, n, i + 1)
    BY <1>4, <2>1 DEF Moved
  <2>3. Nearly(y, n, i, i)
    <3> SUFFICES ASSUME NEW c \in 2..n
                 PROVE  /\ c \div 2 >= i /\ c \div 2 # i => Below(y, c \div 2, c)
                        /\ ~(i \div 2 >= i)
      BY DEF Nearly
    <3>1. c \div 2 \in Nat
      BY <1>1, HalfFacts
    <3>2. ~(i \div 2 >= i)
      BY <2>1
    <3>3. c \div 2 >= i /\ c \div 2 # i => c \div 2 >= i + 1
      BY <2>1, <3>1
    <3> QED BY <2>2, <3>2, <3>3 DEF Ordered
  <2> HIDE DEF i, d
  <2>4. d \in DownState(y, n, i, i) /\ Sunk(d, n)
    <3>1. n \in 1..Len(y.heap)
      BY <1>1, <2>1, <2>2
    <3> QED BY <2>1, <2>2, <2>3, <3>1, DownFacts DEF d
  <2>5. /\ d.queue \in Moved(y, n) /\ d.at \in i..n
        /\ Nearly(d.queue, n, i, d.at)
        /\ d.at # i => Below(d.queue, d.at \div 2, d.at)
        /\ \A c \in 2..n : c \div 2 = d.at => Below(d.queue, d.at, c)
    BY <2>4 DEF DownState, Sunk
  <2>6. Ordered(d.queue, n, i)
    <3> SUFFICES ASSUME NEW c \in 2..n, c \div 2 >= i PROVE Below(d.queue, c \div 2, c)
      BY DEF Ordered
    <3>1. CASE c = d.at
      <4>1. c # i
        BY <1>1, <2>1, HalfFacts
      <4> QED BY <2>5, <3>1, <4>1
    <3>2. CASE c \div 2 = d.at
      BY <2>5, <3>2
    <3>3. CASE c # d.at /\ c \div 2 # d.at
      BY <2>5, <3>3 DEF Nearly
    <3> QED BY <3>1, <3>2, <3>3
  <2>7. d.queue \in U
    BY <1>1, <1>4, <2>5, MovedTrans
  <2> QED BY <2>6, <2>7 DEF d, i
<1> HIDE DEF U, Round
<1>5. S \in [0..half -> SUBSET U] /\ h \in S[0]
  BY <1>1, <1>3
<1>6. \A k \in 1..half : \A y \in S[k - 1] : F[<<k, y>>] = Round(k, y) /\ F[<<k, y>>] \in S[k]
  <2> SUFFICES ASSUME NEW k \in 1..half, NEW y \in S[k - 1]
               PROVE  F[<<k, y>>] = Round(k, y) /\ F[<<k, y>>] \in S[k]
    OBVIOUS
  <2>1. k - 1 \in 0..half /\ k \in 0..half
    BY <1>1
  <2>2. y \in R(k - 1) /\ y \in U
    BY <2>1
  <2>3. F[<<k, y>>] = Round(k, y)
    BY <2>2
  <2>4. Round(k, y) \in R(k)
    BY <1>4, <2>2
  <2> QED BY <2>1, <2>3, <2>4
<1> HIDE DEF S, F, R
<1>7. \E g : g = [k \in 0..half |-> IF k = 0 THEN h ELSE Round(k, g[k - 1])]
  <2>1. IsLoop(half, U, S, h, F)
    BY <1>1, <1>5, <1>6 DEF IsLoop
  <2>2. PICK g : IsCourse(half, U, S, h, F, g)
    BY <2>1, CourseExists
  <2>3. /\ g \in [0..half -> U] /\ g[0] = h
        /\ \A k \in 1..half : g[k] = F[<<k, g[k - 1]>>]
        /\ \A k \in 0..half : g[k] \in S[k]
    BY <2>2 DEF IsCourse
  <2>4. \A k \in 0..half : g[k] = IF k = 0 THEN h ELSE Round(k, g[k - 1])
    <3> SUFFICES ASSUME NEW k \in 0..half, k # 0 PROVE g[k] = Round(k, g[k - 1])
      BY <2>3
    <3>1. k \in 1..half /\ k - 1 \in 0..half
      BY <1>1
    <3> QED BY <1>6, <2>3, <3>1
  <2>5. g = [k \in 0..half |-> IF k = 0 THEN h ELSE Round(k, g[k - 1])]
    BY <2>3, <2>4
  <2> QED BY <2>5
<1>8. after = [k \in 0..half |-> IF k = 0 THEN h ELSE Round(k, after[k - 1])]
  BY <1>7
<1> HIDE DEF after
<1>9. \A k \in 0..half : after[k] \in S[k]
  <2>1. after[0] \in S[0]
    BY <1>1, <1>5, <1>8
  <2>2. \A k \in 1..half : after[k] = Round(k, after[k - 1])
    <3> SUFFICES ASSUME NEW k \in 1..half PROVE after[k] = Round(k, after[k - 1])
      OBVIOUS
    <3>1. k \in 0..half /\ k # 0
      BY <1>1
    <3> QED BY <1>8, <3>1
  <2>3. \A k \in 1..half : after[k - 1] \in S[k - 1] => after[k] \in S[k]
    BY <1>6, <2>2
  <2> QED BY <1>1, <2>1, <2>3, AlongCourse
<1>10. after[half] \in R(half)
  BY <1>1, <1>9 DEF S
<1>11. after[half] \in Moved(h, n) /\ Ordered(after[half], n, 1)
  <2>1. half + 1 - half = 1
    BY <1>1
  <2> QED BY <1>10, <2>1 DEF R, U
<1> DEFINE z == after[half]
<1>12. z \in Moved(h, n) /\ Ordered(z, n, 1)
  BY <1>11
<1> HIDE DEF z
<1>13. /\ Shape(z) /\ z.meta = h.meta
       /\ \A m \in Meta : z.index[m] = 0 <=> h.index[m] = 0
  BY <1>12, ShapeOfMoved
<1> QED BY <1>2, <1>13 DEF z

-----------------------------------------------------------------------------
(***************************************************************************)
(* The operations of entryPQueue                                           *)
(***************************************************************************)
ProfileOK == profile \in [Entry -> Profile]

Room(ms, m, k) == k <= 0 \/ ms[m].load + k <= profile[EntryOf(m)].max

\* The metadata of m once update sampled it, charged or not.
Paid(ms, m, delta, mk) ==
  [load |-> ms[m].load + delta, mark |-> mk,
   maxLoad |-> profile[EntryOf(m)].max, tier |-> profile[EntryOf(m)].tier]

\* What an entry answers for MaxLoad() and Tier().
LEMMA ProfileFacts ==
  ASSUME ProfileOK, NEW m \in Meta
  PROVE  profile[EntryOf(m)].max \in Int /\ profile[EntryOf(m)].tier \in Int
<1>1. EntryOf(m) \in Entry
  BY DEF Meta, EntryOf
<1>2. profile[EntryOf(m)] \in [max : Int, tier : Int]
  BY <1>1, ProfileAssumption DEF ProfileOK
<1> QED BY <1>2

\* Metadata are equal when their four fields are.
LEMMA SameData ==
  ASSUME NEW r \in MetaData, NEW s \in MetaData,
         r.load = s.load, r.mark = s.mark, r.maxLoad = s.maxLoad, r.tier = s.tier
  PROVE  r = s
BY DEF MetaData

\* Sampling reads the limit and the tier and keeps load and mark.
LEMMA SampleFacts ==
  ASSUME ProfileOK, NEW m \in Meta, NEW r \in MetaData
  PROVE  /\ Sample(r, m) \in MetaData
         /\ Sample(r, m).load = r.load /\ Sample(r, m).mark = r.mark
         /\ Sample(r, m).maxLoad = profile[EntryOf(m)].max
         /\ Sample(r, m).tier = profile[EntryOf(m)].tier
<1> DEFINE x == profile[EntryOf(m)].max
           y == profile[EntryOf(m)].tier
<1>1. x \in Int /\ y \in Int
  BY ProfileFacts
<1>2. Sample(r, m) = [r EXCEPT !.maxLoad = x, !.tier = y]
  BY DEF Sample
<1> HIDE DEF x, y
<1>3. /\ Sample(r, m) \in MetaData
      /\ Sample(r, m).load = r.load /\ Sample(r, m).mark = r.mark
      /\ Sample(r, m).maxLoad = x /\ Sample(r, m).tier = y
  BY <1>1, <1>2 DEF MetaData
<1> QED BY <1>3 DEF x, y

\* The fields of the metadata after a successful update.
LEMMA PaidFacts ==
  ASSUME ProfileOK, NEW m \in Meta, NEW ms, ms[m].load \in Int,
         NEW delta \in Int, NEW mk \in Int
  PROVE  /\ Paid(ms, m, delta, mk) \in MetaData
         /\ Paid(ms, m, delta, mk).load = ms[m].load + delta
         /\ Paid(ms, m, delta, mk).mark = mk
         /\ Paid(ms, m, delta, mk).maxLoad = profile[EntryOf(m)].max
         /\ Paid(ms, m, delta, mk).tier = profile[EntryOf(m)].tier
BY ProfileFacts DEF Paid, MetaData

\* update charges an entry that has room, marks it in either case, and leaves a heap
\* of the same entries.
LEMMA UpdateFacts ==
  ASSUME ProfileOK, NEW h, Shape(h), NEW m \in Meta, h.index[m] # 0,
         NEW delta \in Int, NEW mk \in Int, NEW g, g = update(h, m, delta, mk)
  PROVE  LET paid == Paid(h.meta, m, IF Room(h.meta, m, delta) THEN delta ELSE 0, mk)
         IN /\ Shape(g) /\ Len(g.heap) = Len(h.heap)
            /\ g.meta = [h.meta EXCEPT ![m] = paid] /\ paid \in MetaData
            /\ \A x \in Meta : g.index[x] = 0 <=> h.index[x] = 0
<1> DEFINE paid == Paid(h.meta, m, IF Room(h.meta, m, delta) THEN delta ELSE 0, mk)
           load == h.meta[m].load + (IF Fits(h, m, delta) THEN delta ELSE 0)
           r == [Sample(h.meta[m], m) EXCEPT !.load = load, !.mark = mk]
<1>1. h.meta[m] \in MetaData
  BY QueueFacts DEF Shape
<1>2. Fits(h, m, delta) = Room(h.meta, m, delta)
  BY DEF Fits, Room
<1>3. r = paid
  <2> DEFINE a == Sample(h.meta[m], m)
             pay == IF Room(h.meta, m, delta) THEN delta ELSE 0
  <2>1. h.meta[m].load \in Int /\ pay \in Int
    BY <1>1 DEF MetaData
  <2>2. /\ a \in MetaData
        /\ a.maxLoad = profile[EntryOf(m)].max /\ a.tier = profile[EntryOf(m)].tier
    BY <1>1, SampleFacts
  <2>3. load = h.meta[m].load + pay /\ load \in Int
    BY <1>2, <2>1
  <2>4. r = [a EXCEPT !.load = load, !.mark = mk]
    OBVIOUS
  <2> HIDE DEF a, r, load
  <2>5. /\ r \in MetaData /\ r.load = load /\ r.mark = mk
        /\ r.maxLoad = profile[EntryOf(m)].max /\ r.tier = profile[EntryOf(m)].tier
    BY <2>2, <2>3, <2>4 DEF MetaData
  <2> HIDE DEF pay
  <2>6. /\ Paid(h.meta, m, pay, mk) \in MetaData
        /\ Paid(h.meta, m, pay, mk).load = h.meta[m].load + pay
        /\ Paid(h.meta, m, pay, mk).mark = mk
        /\ Paid(h.meta, m, pay, mk).maxLoad = profile[EntryOf(m)].max
        /\ Paid(h.meta, m, pay, mk).tier = profile[EntryOf(m)].tier
    BY <2>1, PaidFacts
  <2>7. r = Paid(h.meta, m, pay, mk)
    BY <2>3, <2>5, <2>6, SameData
  <2> QED BY <2>7 DEF pay
<1>4. paid \in MetaData
  <2>1. h.meta[m].load \in Int
    BY <1>1 DEF MetaData
  <2> QED BY <2>1, PaidFacts
<1>5. g = Fix([h EXCEPT !.meta = [@ EXCEPT ![m] = r]], h.index[m])
  BY DEF update
<1> HIDE DEF paid, r
<1>6. g = Fix([h EXCEPT !.meta = [@ EXCEPT ![m] = paid]], h.index[m])
  BY <1>3, <1>5
<1>7. /\ Shape(g) /\ g.meta = [h.meta EXCEPT ![m] = paid] /\ Len(g.heap) = Len(h.heap)
      /\ \A x \in Meta : g.index[x] = 0 <=> h.index[x] = 0
  BY <1>4, <1>6, FixFacts, SMTT(30)
<1> QED BY <1>4, <1>7 DEF paid

\* add enrols an entry with no load and no mark, sampled afresh.
LEMMA AddFacts ==
  ASSUME ProfileOK, NEW h, Shape(h), NEW m \in Meta, h.index[m] = 0
  PROVE  LET g == add(h, m)
             blank == [load |-> 0, mark |-> 0, maxLoad |-> profile[EntryOf(m)].max,
                       tier |-> profile[EntryOf(m)].tier]
         IN /\ Shape(g)
            /\ g.meta = [h.meta EXCEPT ![m] = blank] /\ blank \in MetaData
            /\ \A x \in Meta : g.index[x] = 0 <=> h.index[x] = 0 /\ x # m
<1> DEFINE blank == [load |-> 0, mark |-> 0, maxLoad |-> profile[EntryOf(m)].max,
                     tier |-> profile[EntryOf(m)].tier]
           f == [h EXCEPT !.meta = [@ EXCEPT ![m] = blank]]
<1>1. /\ h \in QueueType /\ Placed(h) /\ Ordered(h, Len(h.heap), 1)
      /\ h.meta \in [Meta -> MetaData] /\ Len(h.heap) \in Nat
      /\ \A c \in 1..Len(h.heap) : h.heap[c] \in Meta
  BY QueueFacts DEF Shape
<1>2. Sample(Blank, m) = blank /\ blank \in MetaData
  <2>1. Blank \in MetaData /\ Blank.load = 0 /\ Blank.mark = 0
    BY DEF Blank, MetaData
  <2>2. /\ Sample(Blank, m) \in MetaData
        /\ Sample(Blank, m).load = 0 /\ Sample(Blank, m).mark = 0
        /\ Sample(Blank, m).maxLoad = profile[EntryOf(m)].max
        /\ Sample(Blank, m).tier = profile[EntryOf(m)].tier
    BY <2>1, SampleFacts
  <2>3. /\ blank \in MetaData /\ blank.load = 0 /\ blank.mark = 0
        /\ blank.maxLoad = profile[EntryOf(m)].max
        /\ blank.tier = profile[EntryOf(m)].tier
    BY ProfileFacts DEF MetaData
  <2> QED BY <2>2, <2>3, SameData
<1>3. blank \in MetaData
  BY <1>2
<1> HIDE DEF blank
<1>4. add(h, m) = Push(f, m)
  BY <1>2 DEF add
<1>5. /\ f \in QueueType /\ f.heap = h.heap /\ f.index = h.index
      /\ f.meta = [h.meta EXCEPT ![m] = blank]
  BY <1>1, <1>3 DEF QueueType
<1> HIDE DEF f
<1>6. Placed(f)
  BY <1>1, <1>5 DEF Placed
<1>7. Ordered(f, Len(h.heap), 1)
  <2> SUFFICES ASSUME NEW c \in 2..Len(h.heap) PROVE Below(f, c \div 2, c)
    BY DEF Ordered
  <2> DEFINE p == c \div 2
  <2>1. c \in 1..Len(h.heap) /\ p \in 1..Len(h.heap) /\ p >= 1
    BY <1>1, HalfFacts
  <2>2. Below(h, p, c)
    BY <1>1, <2>1 DEF Ordered
  <2> HIDE DEF p
  <2>3. h.heap[c] # m /\ h.heap[p] # m
    BY <1>1, <2>1 DEF Placed
  <2>4. f.meta[h.heap[c]] = h.meta[h.heap[c]] /\ f.meta[h.heap[p]] = h.meta[h.heap[p]]
    BY <1>1, <1>5, <2>1, <2>3
  <2> DEFINE a == h.heap[p]
             b == h.heap[c]
             ms == f.meta
  <2>5. ms[a] = h.meta[a] /\ ms[b] = h.meta[b]
    BY <2>4
  <2>6. Le(h.meta, a, b)
    BY <2>2 DEF Below
  <2> HIDE DEF a, b, ms
  <2>7. Le(ms, a, b)
    BY <2>5, <2>6, CostIsLocal
  <2>8. Below(f, p, c)
    BY <1>5, <2>7 DEF Below, a, b, ms
  <2> QED BY <2>8 DEF p
<1>8. Shape(f) /\ f.index[m] = 0
  BY <1>5, <1>6, <1>7 DEF Shape
<1>9. LET g == Push(f, m)
      IN /\ Shape(g) /\ g.meta = f.meta
         /\ \A x \in Meta : g.index[x] = 0 <=> f.index[x] = 0 /\ x # m
  BY <1>8, PushFacts
<1> QED BY <1>3, <1>4, <1>5, <1>9 DEF blank

\* updateAll samples all that is in the queue and restores the heap.
LEMMA UpdateAllFacts ==
  ASSUME ProfileOK, NEW h, Shape(h)
  PROVE  LET g == updateAll(h)
         IN /\ Shape(g)
            /\ g.meta = [m \in Meta |-> IF h.index[m] = 0 THEN h.meta[m]
                                        ELSE Paid(h.meta, m, 0, h.meta[m].mark)]
            /\ \A x \in Meta : g.index[x] = 0 <=> h.index[x] = 0
<1> DEFINE ms == [m \in Meta |-> IF h.index[m] = 0 THEN h.meta[m]
                                 ELSE Paid(h.meta, m, 0, h.meta[m].mark)]
           f == [h EXCEPT !.meta = ms]
<1>1. /\ h \in QueueType /\ Placed(h) /\ h.meta \in [Meta -> MetaData]
  BY QueueFacts DEF Shape
<1>2. ASSUME NEW m \in Meta
      PROVE  /\ Sample(h.meta[m], m) = Paid(h.meta, m, 0, h.meta[m].mark)
             /\ Paid(h.meta, m, 0, h.meta[m].mark) \in MetaData
  <2>1. h.meta[m] \in MetaData
    BY <1>1
  <2>2. h.meta[m].load \in Int /\ h.meta[m].mark \in Int /\ 0 \in Int
        /\ h.meta[m].load + 0 = h.meta[m].load
    BY <2>1 DEF MetaData
  <2> DEFINE a == Sample(h.meta[m], m)
             b == Paid(h.meta, m, 0, h.meta[m].mark)
  <2>3. /\ a \in MetaData /\ a.load = h.meta[m].load /\ a.mark = h.meta[m].mark
        /\ a.maxLoad = profile[EntryOf(m)].max /\ a.tier = profile[EntryOf(m)].tier
    BY <2>1, SampleFacts
  <2>4. /\ b \in MetaData /\ b.load = h.meta[m].load + 0 /\ b.mark = h.meta[m].mark
        /\ b.maxLoad = profile[EntryOf(m)].max /\ b.tier = profile[EntryOf(m)].tier
    BY <2>2, PaidFacts
  <2> HIDE DEF a, b
  <2>5. a = b
    BY <2>2, <2>3, <2>4, SameData
  <2> QED BY <2>4, <2>5 DEF a, b
<1>3. updateAll(h) = HeapInit(f)
  <2>1. [m \in Meta |-> IF h.index[m] = notInPQueue THEN h.meta[m] ELSE Sample(h.meta[m], m)]
          = ms
    BY <1>2 DEF notInPQueue
  <2> HIDE DEF ms
  <2> QED BY <2>1 DEF updateAll
<1>4. ms \in [Meta -> MetaData]
  BY <1>1, <1>2
<1> HIDE DEF ms
<1>5. f \in QueueType /\ f.heap = h.heap /\ f.index = h.index /\ f.meta = ms
  BY <1>1, <1>4 DEF QueueType
<1> HIDE DEF f
<1>6. Placed(f)
  BY <1>1, <1>5 DEF Placed
<1>7. LET g == HeapInit(f)
      IN /\ Shape(g) /\ g.meta = f.meta
         /\ \A m \in Meta : g.index[m] = 0 <=> f.index[m] = 0
  BY <1>5, <1>6, HeapInitFacts
<1> QED BY <1>3, <1>5, <1>7 DEF ms

-----------------------------------------------------------------------------
(***************************************************************************)
(* pickLocked                                                              *)
(***************************************************************************)
\* The metadata once update was called in vain on the entries of T.
Marked(ms, T, mk) == [m \in Meta |-> IF m \in T THEN Paid(ms, m, 0, mk) ELSE ms[m]]

\* The first a entries of sorted.
First(sorted, a) == {sorted[b] : b \in 1..a}

\* The slow path got to s in i rounds, the first a of which found no room.
GotTo(h, sorted, k, mk, i, a, s) ==
  /\ \A b \in 1..a : ~Room(h.meta, sorted[b], k)
  /\ IF s.got = NoMeta
     THEN a = i /\ s.queue.meta = Marked(h.meta, First(sorted, a), mk)
     ELSE /\ a + 1 <= i /\ s.got = sorted[a + 1] /\ Room(h.meta, s.got, k)
          /\ s.queue.meta = [Marked(h.meta, First(sorted, a), mk)
                               EXCEPT ![s.got] = Paid(h.meta, s.got, k, mk)]

\* The entries in h are those in g.
SameEntries(h, g) == \A x \in Meta : g.index[x] = 0 <=> h.index[x] = 0

TurnState(h, sorted, k, mk, i) ==
  {s \in [queue : QueueType, got : Meta \cup {NoMeta}] :
     /\ Shape(s.queue) /\ SameEntries(h, s.queue)
     /\ \E a \in 0..i : GotTo(h, sorted, k, mk, i, a, s)}

\* Marking keeps the loads.
LEMMA MarkedFacts ==
  ASSUME ProfileOK, NEW ms \in [Meta -> MetaData], NEW T, NEW mk \in Int, NEW m \in Meta
  PROVE  /\ Marked(ms, T, mk) \in [Meta -> MetaData]
         /\ Marked(ms, T, mk)[m].load = ms[m].load
<1> DEFINE ns == Marked(ms, T, mk)
<1>1. \A x \in Meta : ms[x].load \in Int /\ ms[x].load + 0 = ms[x].load
  BY DEF MetaData
<1>2. \A x \in Meta : Paid(ms, x, 0, mk) \in MetaData /\ Paid(ms, x, 0, mk).load = ms[x].load
  BY <1>1, PaidFacts
<1>3. ns \in [Meta -> MetaData] /\ ns[m].load = ms[m].load
  BY <1>2 DEF Marked
<1> QED BY <1>3

\* One round of the slow path.
LEMMA TryOneFacts ==
  ASSUME ProfileOK, NEW h, Shape(h), NEW n \in Nat, NEW sorted \in [1..n -> Meta],
         \A b \in 1..n : h.index[sorted[b]] # 0,
         NEW k \in Nat, NEW mk \in Int, NEW i \in 1..n,
         NEW s \in TurnState(h, sorted, k, mk, i - 1)
  PROVE  TryOne(s, sorted[i], k, mk) \in TurnState(h, sorted, k, mk, i)
<1> DEFINE m == sorted[i]
           g == update(s.queue, m, k, mk)
           z == TryOne(s, m, k, mk)
<1>1. /\ m \in Meta /\ h.index[m] # 0 /\ h.meta \in [Meta -> MetaData]
      /\ s \in [queue : QueueType, got : Meta \cup {NoMeta}]
      /\ Shape(s.queue) /\ SameEntries(h, s.queue)
      /\ k \in Int /\ i - 1 + 1 = i /\ i - 1 \in Nat
  BY QueueFacts DEF TurnState, Shape
<1>2. PICK a \in 0..(i - 1) : GotTo(h, sorted, k, mk, i - 1, a, s)
  BY DEF TurnState
<1>3. CASE s.got # NoMeta
  <2>1. z = s
    BY <1>3 DEF TryOne
  <2>2. a \in 0..i /\ (a + 1 <= i - 1 => a + 1 <= i)
    BY <1>2
  <2>3. GotTo(h, sorted, k, mk, i, a, s)
    BY <1>2, <1>3, <2>2 DEF GotTo
  <2> QED BY <1>1, <2>1, <2>2, <2>3 DEF TurnState
<1>4. CASE s.got = NoMeta
  <2> DEFINE T == First(sorted, i - 1)
             ns == Marked(h.meta, T, mk)
             y == s.queue
  <2>1. /\ a = i - 1 /\ y.meta = ns /\ \A b \in 1..(i - 1) : ~Room(h.meta, sorted[b], k)
    BY <1>2, <1>4 DEF GotTo
  <2>2. y.index[m] # 0 /\ Shape(y)
    BY <1>1 DEF SameEntries
  <2> DEFINE pay == IF Room(y.meta, m, k) THEN k ELSE 0
  <2> HIDE DEF m, g, y, ns, T
  <2>3. /\ Shape(g) /\ SameEntries(y, g)
        /\ g.meta = [y.meta EXCEPT ![m] = Paid(y.meta, m, pay, mk)]
    <3>1. g = update(y, m, k, mk)
      BY DEF g, y
    <3> QED BY <1>1, <2>2, <3>1, UpdateFacts DEF SameEntries
  <2>4. /\ Room(ns, m, k) = Room(h.meta, m, k)
        /\ \A d, e : Paid(ns, m, d, e) = Paid(h.meta, m, d, e)
        /\ [ns EXCEPT ![m] = Paid(h.meta, m, 0, mk)] = Marked(h.meta, T \cup {m}, mk)
    <3> DEFINE ms == h.meta
    <3>1. ms \in [Meta -> MetaData] /\ m \in Meta
      BY <1>1
    <3> HIDE DEF ms
    <3>2. /\ Room(ns, m, k) = Room(ms, m, k)
          /\ \A d, e : Paid(ns, m, d, e) = Paid(ms, m, d, e)
      <4>1. ns[m].load = ms[m].load
        BY <3>1, MarkedFacts DEF ns, ms
      <4> QED BY <4>1 DEF Room, Paid
    <3>3. [Marked(ms, T, mk) EXCEPT ![m] = Paid(ms, m, 0, mk)] = Marked(ms, T \cup {m}, mk)
      BY <3>1 DEF Marked
    <3> QED BY <3>2, <3>3 DEF ns, ms
  <2>5. SameEntries(h, g)
    BY <1>1, <2>3 DEF SameEntries, y
  <2>6. T \cup {m} = First(sorted, i)
    <3>1. \A b : b \in 1..i <=> b \in 1..(i - 1) \/ b = i
      BY <1>1
    <3> QED BY <3>1 DEF First, m, T
  <2>7. z = [queue |-> g, got |-> IF Room(h.meta, m, k) THEN m ELSE NoMeta]
    BY <1>4, <2>1, <2>4 DEF TryOne, Fits, Room, g, m, y
  <2>8. g \in QueueType
    BY <2>3 DEF Shape
  <2>9. CASE Room(h.meta, m, k)
    <3>1. g.meta = [ns EXCEPT ![m] = Paid(h.meta, m, k, mk)]
      <4>1. pay = k /\ Paid(y.meta, m, k, mk) = Paid(h.meta, m, k, mk)
        BY <2>1, <2>4, <2>9
      <4> HIDE DEF pay
      <4> QED BY <2>1, <2>3, <4>1
    <3>2. z.got = m /\ z.queue = g /\ m # NoMeta /\ m = sorted[(i - 1) + 1]
          /\ (i - 1) + 1 <= i /\ i - 1 \in 0..i
      BY <1>1, <2>7, <2>9, MetaAssumption DEF m
    <3>3. GotTo(h, sorted, k, mk, i, i - 1, z)
      BY <2>1, <2>9, <3>1, <3>2 DEF GotTo, ns, T
    <3>4. z \in [queue : QueueType, got : Meta \cup {NoMeta}]
      BY <1>1, <2>7, <2>8
    <3> HIDE DEF z
    <3>5. z \in TurnState(h, sorted, k, mk, i)
      BY <2>3, <2>5, <3>2, <3>3, <3>4 DEF TurnState
    <3> QED BY <3>5 DEF z, m
  <2>10. CASE ~Room(h.meta, m, k)
    <3>1. g.meta = Marked(h.meta, First(sorted, i), mk)
      <4>1. pay = 0 /\ Paid(y.meta, m, 0, mk) = Paid(h.meta, m, 0, mk)
        BY <2>1, <2>4, <2>10
      <4> HIDE DEF pay
      <4> QED BY <2>1, <2>3, <2>4, <2>6, <4>1
    <3>2. z.got = NoMeta /\ z.queue = g /\ i \in 0..i
      BY <1>1, <2>7, <2>10
    <3>3. \A b \in 1..i : ~Room(h.meta, sorted[b], k)
      BY <1>1, <2>1, <2>10 DEF m
    <3>4. GotTo(h, sorted, k, mk, i, i, z)
      BY <3>1, <3>2, <3>3 DEF GotTo
    <3>5. z \in [queue : QueueType, got : Meta \cup {NoMeta}]
      BY <1>1, <2>7, <2>8
    <3> HIDE DEF z
    <3>6. z \in TurnState(h, sorted, k, mk, i)
      BY <2>3, <2>5, <3>2, <3>4, <3>5 DEF TurnState
    <3> QED BY <3>6 DEF z, m
  <2> QED BY <2>9, <2>10
<1> QED BY <1>3, <1>4

\* All the rounds of the slow path.
LEMMA TurnFacts ==
  ASSUME ProfileOK, NEW h, Shape(h), NEW n \in Nat, NEW sorted \in [1..n -> Meta],
         Len(sorted) = n, \A b \in 1..n : h.index[sorted[b]] # 0,
         NEW k \in Nat, NEW mk \in Int
  PROVE  TryInTurn(h, sorted, k, mk) \in TurnState(h, sorted, k, mk, n)
<1> DEFINE x == [queue |-> h, got |-> NoMeta]
           U == [queue : QueueType, got : Meta \cup {NoMeta}]
           R(i) == TurnState(h, sorted, k, mk, i)
           Round(i, y) == TryOne(y, sorted[i], k, mk)
           S == [i \in 0..n |-> R(i)]
           F == [iy \in (1..n) \X U |-> Round(iy[1], iy[2])]
           after == CHOOSE g : g = [i \in 0..n |-> IF i = 0 THEN x ELSE Round(i, g[i - 1])]
<1>1. TryInTurn(h, sorted, k, mk) = after[n]
  BY DEF TryInTurn
<1>2. x \in R(0)
  <2>1. /\ x \in U /\ x.queue = h /\ x.got = NoMeta /\ h.meta \in [Meta -> MetaData]
        /\ SameEntries(h, h)
    BY QueueFacts DEF Shape, SameEntries
  <2>2. h.meta = Marked(h.meta, First(sorted, 0), mk)
    <3>1. First(sorted, 0) = {}
      BY DEF First
    <3> QED BY <2>1, <3>1 DEF Marked
  <2>3. 0 \in 0..0 /\ \A b \in 1..0 : FALSE
    OBVIOUS
  <2> HIDE DEF x
  <2>4. GotTo(h, sorted, k, mk, 0, 0, x)
    BY <2>1, <2>2, <2>3 DEF GotTo
  <2> QED BY <2>1, <2>3, <2>4 DEF TurnState
<1>3. \A i \in 1..n : \A y \in R(i - 1) : Round(i, y) \in R(i)
  BY TryOneFacts
<1>4. \A i \in 0..n : R(i) \subseteq U
  BY DEF TurnState
<1> HIDE DEF x, U, R, Round
<1>5. S \in [0..n -> SUBSET U] /\ x \in S[0]
  BY <1>2, <1>4
<1>6. \A i \in 1..n : \A y \in S[i - 1] : F[<<i, y>>] = Round(i, y) /\ F[<<i, y>>] \in S[i]
  <2> SUFFICES ASSUME NEW i \in 1..n, NEW y \in S[i - 1]
               PROVE  F[<<i, y>>] = Round(i, y) /\ F[<<i, y>>] \in S[i]
    OBVIOUS
  <2>1. i - 1 \in 0..n /\ i \in 0..n
    OBVIOUS
  <2>2. y \in R(i - 1) /\ y \in U
    BY <1>4, <2>1
  <2>3. F[<<i, y>>] = Round(i, y)
    BY <2>2
  <2>4. Round(i, y) \in R(i)
    BY <1>3, <2>2
  <2> QED BY <2>1, <2>3, <2>4
<1> HIDE DEF S, F
<1>7. \E g : g = [i \in 0..n |-> IF i = 0 THEN x ELSE Round(i, g[i - 1])]
  <2>1. IsLoop(n, U, S, x, F)
    BY <1>5, <1>6 DEF IsLoop
  <2>2. PICK g : IsCourse(n, U, S, x, F, g)
    BY <2>1, CourseExists
  <2>3. /\ g \in [0..n -> U] /\ g[0] = x
        /\ \A i \in 1..n : g[i] = F[<<i, g[i - 1]>>]
        /\ \A i \in 0..n : g[i] \in S[i]
    BY <2>2 DEF IsCourse
  <2>4. \A i \in 0..n : g[i] = IF i = 0 THEN x ELSE Round(i, g[i - 1])
    <3> SUFFICES ASSUME NEW i \in 0..n, i # 0 PROVE g[i] = Round(i, g[i - 1])
      BY <2>3
    <3>1. i \in 1..n /\ i - 1 \in 0..n
      OBVIOUS
    <3> QED BY <1>6, <2>3, <3>1
  <2>5. g = [i \in 0..n |-> IF i = 0 THEN x ELSE Round(i, g[i - 1])]
    BY <2>3, <2>4
  <2> QED BY <2>5
<1>8. after = [i \in 0..n |-> IF i = 0 THEN x ELSE Round(i, after[i - 1])]
  BY <1>7
<1> HIDE DEF after
<1>9. \A i \in 0..n : after[i] \in S[i]
  <2>1. after[0] \in S[0]
    BY <1>5, <1>8
  <2>2. \A i \in 1..n : after[i] = Round(i, after[i - 1])
    <3> SUFFICES ASSUME NEW i \in 1..n PROVE after[i] = Round(i, after[i - 1])
      OBVIOUS
    <3>1. i \in 0..n /\ i # 0
      OBVIOUS
    <3> QED BY <1>8, <3>1
  <2>3. ASSUME NEW i \in 1..n, after[i - 1] \in S[i - 1] PROVE after[i] \in S[i]
    <3> DEFINE y == after[i - 1]
    <3>1. F[<<i, y>>] = Round(i, y) /\ F[<<i, y>>] \in S[i]
      BY <1>6, <2>3
    <3> QED BY <2>2, <3>1
  <2> QED BY <2>1, <2>3, AlongCourse
<1>10. after[n] \in R(n)
  BY <1>9 DEF S
<1> QED BY <1>1, <1>10 DEF R

\* The slow path on the queue first, in the order sorted, came to pick.
SlowPick(first, sorted, k, mk, pick) ==
  \E n \in Nat :
    /\ sorted \in [1..n -> Meta] /\ Len(first.heap) = n + 1
    /\ First(sorted, n) = {first.heap[c] : c \in 2..(n + 1)}
    /\ \A b, c \in 1..n : b < c => Le(first.meta, sorted[b], sorted[c])
    /\ Shape(pick.queue) /\ SameEntries(first, pick.queue)
    /\ \E a \in 0..n : GotTo(first, sorted, k, mk, n, a, pick)

\* What sort.Slice returns for q[1:]: the same entries, in the order of their cost.
LEMMA SortedFacts ==
  ASSUME NEW h, Shape(h), Len(h.heap) # 0, NEW sorted \in Sorted(h, Tail(h.heap))
  PROVE  LET n == Len(h.heap) - 1
         IN /\ n \in Nat /\ sorted \in [1..n -> Meta] /\ Len(sorted) = n
            /\ First(sorted, n) = {h.heap[c] : c \in 2..(n + 1)}
            /\ \A b \in 1..n : h.index[sorted[b]] # 0
            /\ \A b, c \in 1..n : b < c => Le(h.meta, sorted[b], sorted[c])
<1> DEFINE n == Len(h.heap) - 1
           s == Tail(h.heap)
<1>1. /\ h.heap \in Seq(Meta) /\ h.heap # <<>> /\ n \in Nat /\ Len(h.heap) = n + 1
      /\ Placed(h) /\ \A c \in 1..Len(h.heap) : h.heap[c] \in Meta
  BY QueueFacts, EmptySeq DEF Shape
<1>2. s \in Seq(Meta) /\ Len(s) = n /\ \A c \in 1..n : s[c] = h.heap[c + 1]
  BY <1>1, HeadTailProperties
<1> HIDE DEF n, s
<1>3. DOMAIN s = 1..n
  BY <1>2, LenProperties
<1>4. Elements(s) = {h.heap[c] : c \in 2..(n + 1)}
  <2>1. ASSUME NEW c \in 1..n PROVE c + 1 \in 2..(n + 1)
    BY <1>1
  <2>2. ASSUME NEW c \in 2..(n + 1) PROVE c - 1 \in 1..n /\ (c - 1) + 1 = c
    BY <1>1
  <2>3. \A c \in 2..(n + 1) : h.heap[c] \in Elements(s)
    <3> TAKE c \in 2..(n + 1)
    <3>1. c - 1 \in 1..n /\ (c - 1) + 1 = c
      BY <2>2
    <3>2. s[c - 1] = h.heap[c]
      BY <1>2, <3>1
    <3> QED BY <1>3, <3>1, <3>2 DEF Elements
  <2>4. \A c \in 1..n : s[c] \in {h.heap[d] : d \in 2..(n + 1)}
    BY <1>2, <2>1
  <2> QED BY <1>3, <2>3, <2>4 DEF Elements
<1>5. /\ sorted \in [1..n -> Elements(s)] /\ Elements(sorted) = Elements(s)
      /\ \A b, c \in DOMAIN sorted : b < c => ~costLowerThan(h.meta, sorted[c], sorted[b])
  BY <1>3 DEF Sorted, s
<1>6. sorted \in [1..n -> Meta] /\ Len(sorted) = n /\ DOMAIN sorted = 1..n
  <2>1. Elements(s) \subseteq Meta
    BY <1>1, <1>4
  <2> QED BY <1>1, <1>5, <2>1, FunctionIsSeq
<1>7. First(sorted, n) = {h.heap[c] : c \in 2..(n + 1)}
  BY <1>4, <1>5, <1>6 DEF First, Elements
<1>8. \A b \in 1..n : h.index[sorted[b]] # 0
  <2> TAKE b \in 1..n
  <2>1. PICK c \in 2..(n + 1) : sorted[b] = h.heap[c]
    BY <1>4, <1>5
  <2>2. c \in 1..Len(h.heap) /\ c # 0
    BY <1>1
  <2> QED BY <1>1, <2>1, <2>2 DEF Placed
<1>9. \A b, c \in 1..n : b < c => Le(h.meta, sorted[b], sorted[c])
  BY <1>5, <1>6 DEF Le
<1> QED BY <1>1, <1>6, <1>7, <1>8, <1>9 DEF n

\* pickLocked takes the first entry, or tries the others in turn.
LEMMA PickFacts ==
  ASSUME ProfileOK, Shape(Queue), heap # <<>>, NEW k \in Nat, NEW mk \in Int,
         NEW pick \in pickLocked(k, mk)
  PROVE  /\ Shape(pick.queue) /\ SameEntries(Queue, pick.queue)
         /\ pick.got \in Meta \cup {NoMeta} /\ heap[1] \in Meta /\ index[heap[1]] # 0
         /\ pick.got # NoMeta => index[pick.got] # 0
         /\ \/ /\ Room(meta, heap[1], k) /\ pick.got = heap[1]
               /\ pick.queue.meta = [meta EXCEPT ![heap[1]] = Paid(meta, heap[1], k, mk)]
            \/ /\ ~Room(meta, heap[1], k)
               /\ \E first, sorted :
                    /\ Shape(first) /\ SameEntries(Queue, first)
                    /\ Len(first.heap) = Len(heap)
                    /\ first.meta = Marked(meta, {heap[1]}, mk)
                    /\ SlowPick(first, sorted, k, mk, pick)
<1> DEFINE h == Queue
           top == heap[1]
           first == update(h, top, k, mk)
<1>1. h.heap = heap /\ h.index = index /\ h.meta = meta
  BY DEF Queue
<1> HIDE DEF h
<1>2. /\ h \in QueueType /\ Placed(h) /\ meta \in [Meta -> MetaData]
      /\ Len(heap) \in Nat /\ \A c \in 1..Len(heap) : heap[c] \in Meta
      /\ heap \in Seq(Meta) /\ k \in Int
  BY <1>1, QueueFacts DEF Shape, h
<1>3. Len(heap) # 0 /\ 1 \in 1..Len(heap)
  BY <1>2, EmptySeq
<1>4. top \in Meta /\ h.index[top] # 0
  <2>1. index[heap[1]] = 1
    BY <1>1, <1>2, <1>3 DEF Placed
  <2> QED BY <1>1, <1>2, <1>3, <2>1
<1> DEFINE pay == IF Room(meta, top, k) THEN k ELSE 0
<1> HIDE DEF top, first
<1>5. /\ Shape(first) /\ SameEntries(h, first) /\ Len(first.heap) = Len(heap)
      /\ first.meta = [meta EXCEPT ![top] = Paid(meta, top, pay, mk)]
  <2>1. Shape(h) /\ first = update(h, top, k, mk)
    BY DEF h, first
  <2>2. /\ Shape(first) /\ Len(first.heap) = Len(h.heap)
        /\ first.meta = [h.meta EXCEPT ![top] =
                          Paid(h.meta, top, IF Room(h.meta, top, k) THEN k ELSE 0, mk)]
        /\ \A x \in Meta : first.index[x] = 0 <=> h.index[x] = 0
    BY <1>2, <1>4, <2>1, UpdateFacts
  <2> QED BY <1>1, <2>2 DEF SameEntries
<1>6. Fits(h, top, k) = Room(meta, top, k)
  BY <1>1 DEF Fits, Room
<1>7. CASE Room(meta, top, k)
  <2>1. pick = [queue |-> first, got |-> top]
    BY <1>6, <1>7 DEF pickLocked, first, top, h
  <2>2. pick.queue = first /\ pick.got = top
    BY <2>1
  <2>3. first.meta = [meta EXCEPT ![top] = Paid(meta, top, k, mk)]
    BY <1>5, <1>7
  <2>4. index[top] # 0
    BY <1>1, <1>4
  <2> QED BY <1>4, <1>5, <1>7, <2>2, <2>3, <2>4 DEF top, h
<1>8. CASE ~Room(meta, top, k)
  <2>1. PICK sorted \in Sorted(first, Tail(first.heap)) :
          pick = TryInTurn(first, sorted, k, mk)
    BY <1>6, <1>8 DEF pickLocked, first, top, h
  <2> DEFINE n == Len(first.heap) - 1
  <2>2. /\ n \in Nat /\ sorted \in [1..n -> Meta] /\ Len(sorted) = n
        /\ First(sorted, n) = {first.heap[c] : c \in 2..(n + 1)}
        /\ \A b \in 1..n : first.index[sorted[b]] # 0
        /\ \A b, c \in 1..n : b < c => Le(first.meta, sorted[b], sorted[c])
    BY <1>3, <1>5, SortedFacts
  <2>3. Len(first.heap) = n + 1
    BY <1>2, <1>5
  <2> HIDE DEF n
  <2>4. pick \in TurnState(first, sorted, k, mk, n)
    BY <1>5, <2>1, <2>2, TurnFacts
  <2>5. /\ pick.got \in Meta \cup {NoMeta}
        /\ Shape(pick.queue) /\ SameEntries(first, pick.queue)
        /\ \E a \in 0..n : GotTo(first, sorted, k, mk, n, a, pick)
    BY <2>4 DEF TurnState
  <2>6. SlowPick(first, sorted, k, mk, pick)
    BY <2>2, <2>3, <2>5 DEF SlowPick
  <2>7. first.meta = Marked(meta, {top}, mk)
    <3>1. pay = 0
      BY <1>8
    <3> HIDE DEF pay
    <3> QED BY <1>2, <1>4, <1>5, <3>1 DEF Marked
  <2>8. SameEntries(h, pick.queue)
    BY <1>5, <2>5 DEF SameEntries
  <2>9. pick.got # NoMeta => index[pick.got] # 0
    <3> SUFFICES ASSUME pick.got # NoMeta PROVE index[pick.got] # 0
      OBVIOUS
    <3>1. PICK a \in 0..n : GotTo(first, sorted, k, mk, n, a, pick)
      BY <2>5
    <3>2. pick.got = sorted[a + 1] /\ a + 1 \in 1..n
      BY <2>2, <3>1 DEF GotTo
    <3> QED BY <1>1, <1>5, <2>2, <2>5, <3>2 DEF SameEntries
  <2>10. index[top] # 0
    BY <1>1, <1>4
  <2> QED BY <1>4, <1>5, <1>8, <2>5, <2>6, <2>7, <2>8, <2>9, <2>10 DEF top, h
<1> QED BY <1>7, <1>8

-----------------------------------------------------------------------------
(***************************************************************************)
(* The invariant                                                           *)
(***************************************************************************)
TokensOK ==
  /\ tok \in [Token -> [meta : Meta \cup {NoMeta}, load : Nat]]
  /\ client \subseteq Token
  /\ \A t \in Token : tok[t].meta = NoMeta <=> t \notin client

\* The entries of the queue are the canonical ones.
RegistryOK ==
  /\ canonical \in [Entry -> Meta \cup {NoMeta}]
  /\ \A e \in Entry : canonical[e] # NoMeta =>
       EntryOf(canonical[e]) = e /\ index[canonical[e]] # 0
  /\ \A m \in Meta : index[m] # 0 => canonical[EntryOf(m)] = m

\* No mark is above the counter.
MarksOK == mark \in Nat /\ \A m \in Meta : meta[m].mark \in 0..mark

HeapInv == ProfileOK /\ Shape(Queue) /\ TokensOK /\ RegistryOK /\ MarksOK

\* Metadata belong to an entry.
LEMMA EntryOfMeta == \A m \in Meta : EntryOf(m) \in Entry
BY DEF Meta, EntryOf

\* The fields of the queue are the variables.
LEMMA QueueFields ==
  /\ Queue.heap = heap /\ Queue.index = index /\ Queue.meta = meta
  /\ (Queue').heap = heap' /\ (Queue').index = index' /\ (Queue').meta = meta'
BY DEF Queue

\* What Becomes says of the queue.
LEMMA BecomesFacts ==
  ASSUME NEW h, h \in QueueType, Becomes(h)
  PROVE  Queue' = h
<1>1. h = [heap |-> h.heap, index |-> h.index, meta |-> h.meta]
  BY DEF QueueType
<1> QED BY <1>1 DEF Becomes, Queue

\* The marks after update marked some entries, or none.
LEMMA MarkedMarks ==
  ASSUME ProfileOK, NEW ms \in [Meta -> MetaData], NEW c \in Nat, NEW d \in Nat, c <= d,
         \A m \in Meta : ms[m].mark \in 0..c,
         NEW T, NEW mk \in 0..d
  PROVE  \A m \in Meta : Marked(ms, T, mk)[m].mark \in 0..d
<1> SUFFICES ASSUME NEW m \in Meta PROVE Marked(ms, T, mk)[m].mark \in 0..d
  OBVIOUS
<1>1. ms[m].mark \in 0..c /\ ms[m].load \in Int
  BY DEF MetaData
<1>2. Paid(ms, m, 0, mk).mark = mk
  BY DEF Paid
<1>3. Marked(ms, T, mk)[m] = IF m \in T THEN Paid(ms, m, 0, mk) ELSE ms[m]
  BY DEF Marked
<1> QED BY <1>1, <1>2, <1>3

\* What a pick does to the queue, whichever path it takes.
LEMMA PickQueue ==
  ASSUME HeapInv, heap # <<>>, NEW k \in Nat, NEW pick \in pickLocked(k, mark + 1)
  PROVE  /\ Shape(pick.queue) /\ SameEntries(Queue, pick.queue)
         /\ pick.got \in Meta \cup {NoMeta}
         /\ pick.got # NoMeta => index[pick.got] # 0
         /\ \A m \in Meta : pick.queue.meta[m].mark \in 0..(mark + 1)
<1> DEFINE mk == mark + 1
           top == heap[1]
<1>1. /\ ProfileOK /\ Shape(Queue) /\ mk \in Int /\ mk \in Nat /\ mark \in Nat
      /\ mark <= mk /\ mk \in 0..mk /\ \A m \in Meta : meta[m].mark \in 0..mark
  BY DEF HeapInv, MarksOK
<1>2. meta \in [Meta -> MetaData]
  BY <1>1, QueueFacts, QueueFields DEF Shape
<1> HIDE DEF mk
<1>3. pick \in pickLocked(k, mk)
  BY DEF mk
<1>4. /\ Shape(pick.queue) /\ SameEntries(Queue, pick.queue)
      /\ pick.got \in Meta \cup {NoMeta} /\ top \in Meta
      /\ pick.got # NoMeta => index[pick.got] # 0
      /\ \/ /\ Room(meta, top, k) /\ pick.got = top
            /\ pick.queue.meta = [meta EXCEPT ![top] = Paid(meta, top, k, mk)]
         \/ /\ ~Room(meta, top, k)
            /\ \E first, sorted :
                 /\ Shape(first) /\ SameEntries(Queue, first)
                 /\ Len(first.heap) = Len(heap)
                 /\ first.meta = Marked(meta, {top}, mk)
                 /\ SlowPick(first, sorted, k, mk, pick)
  BY <1>1, <1>3, PickFacts
<1> HIDE DEF top
<1>5. \A ms, x : Paid(ms, x, k, mk).mark = mk
  BY DEF Paid
<1>6. CASE pick.queue.meta = [meta EXCEPT ![top] = Paid(meta, top, k, mk)]
  <2> SUFFICES ASSUME NEW m \in Meta PROVE pick.queue.meta[m].mark \in 0..mk
    BY <1>4 DEF mk
  <2>1. meta[m].mark \in 0..mk
    BY <1>1
  <2> QED BY <1>1, <1>2, <1>4, <1>5, <1>6, <2>1
<1>7. ASSUME NEW first, NEW sorted,
             Shape(first), first.meta = Marked(meta, {top}, mk),
             SlowPick(first, sorted, k, mk, pick)
      PROVE  \A m \in Meta : pick.queue.meta[m].mark \in 0..mk
  <2> DEFINE fm == first.meta
  <2>1. fm \in [Meta -> MetaData] /\ \A m \in Meta : fm[m].mark \in 0..mk
    BY <1>1, <1>2, <1>7, MarkedMarks, QueueFacts DEF Shape
  <2>2. PICK n, a : GotTo(first, sorted, k, mk, n, a, pick)
    BY <1>7 DEF SlowPick
  <2> DEFINE T == First(sorted, a)
             ns == Marked(fm, T, mk)
  <2> HIDE DEF fm, T
  <2>3. \A m \in Meta : ns[m].mark \in 0..mk
    <3>1. mk <= mk
      BY <1>1
    <3> QED BY <1>1, <2>1, <3>1, MarkedMarks
  <2>4. DOMAIN ns = Meta
    BY DEF Marked
  <2>5. \/ pick.queue.meta = ns
        \/ pick.queue.meta = [ns EXCEPT ![pick.got] = Paid(fm, pick.got, k, mk)]
    BY <2>2 DEF GotTo, fm, T
  <2> HIDE DEF ns
  <2> TAKE m \in Meta
  <2>6. pick.queue.meta[m].mark \in {ns[m].mark, mk}
    <3> DEFINE paid == Paid(fm, pick.got, k, mk)
    <3>1. paid.mark = mk
      BY <1>5
    <3> HIDE DEF paid
    <3> QED BY <2>4, <2>5, <3>1 DEF paid
  <2> QED BY <1>1, <2>3, <2>6
<1> QED BY <1>4, <1>6, <1>7 DEF mk

\* The empty pool satisfies the invariant.
LEMMA HeapInvInit ==
  Init => HeapInv
<1> SUFFICES ASSUME Init PROVE HeapInv
  OBVIOUS
<1> USE DEF Init
<1>1. ProfileOK /\ TokensOK
  BY DEF ProfileOK, TokensOK, Released
<1>2. RegistryOK
  BY EntryOfMeta DEF RegistryOK, notInPQueue
<1>3. MarksOK
  BY DEF MarksOK, Blank
<1>4. Shape(Queue)
  <2>1. heap \in Seq(Meta) /\ Len(heap) = 0
    BY EmptySeq
  <2>2. index \in [Meta -> Nat] /\ meta \in [Meta -> MetaData]
    BY DEF notInPQueue, Blank, MetaData
  <2>3. Queue \in QueueType
    BY <2>1, <2>2 DEF Queue, QueueType
  <2>4. Placed(Queue) /\ Ordered(Queue, 0, 1)
    BY <2>1, QueueFields DEF Placed, Ordered, notInPQueue
  <2> QED BY <2>1, <2>3, <2>4, QueueFields DEF Shape
<1> QED BY <1>1, <1>2, <1>3, <1>4 DEF HeapInv

\* Every operation preserves the invariant.
LEMMA HeapInvNext ==
  HeapInv /\ [Next]_vars => HeapInv'
<1> SUFFICES ASSUME HeapInv, [Next]_vars PROVE HeapInv'
  OBVIOUS
<1>1. /\ ProfileOK /\ Shape(Queue) /\ TokensOK /\ RegistryOK /\ MarksOK
      /\ meta \in [Meta -> MetaData] /\ index \in [Meta -> Nat] /\ Queue \in QueueType
  BY QueueFacts, QueueFields DEF HeapInv, Shape
<1>2. UNCHANGED profile => ProfileOK'
  BY <1>1 DEF ProfileOK
<1>3. UNCHANGED <<tok, client>> => TokensOK'
  BY <1>1 DEF TokensOK
<1>4. ASSUME UNCHANGED canonical, SameEntries(Queue, Queue') PROVE RegistryOK'
  <2>1. \A m \in Meta : index'[m] = 0 <=> index[m] = 0
    BY <1>4, QueueFields DEF SameEntries
  <2> QED BY <1>1, <1>4, <2>1 DEF RegistryOK
<1>5. ASSUME NEW e \in Entry, NEW p \in Profile, Retune(e, p) PROVE HeapInv'
  <2>1. ProfileOK'
    BY <1>1, <1>5 DEF Retune, ProfileOK
  <2>2. UNCHANGED <<canonical, heap, index, meta, mark, tok, client>>
    BY <1>5 DEF Retune
  <2>3. Shape(Queue)' /\ RegistryOK' /\ MarksOK'
    BY <1>1, <2>2 DEF Queue, RegistryOK, MarksOK
  <2> QED BY <1>3, <2>1, <2>2, <2>3 DEF HeapInv
<1>6. ASSUME NEW e \in Entry, NEW m \in Meta, Add(e, m) PROVE HeapInv'
  <2> DEFINE g == add(Queue, m)
             blank == [load |-> 0, mark |-> 0, maxLoad |-> profile[EntryOf(m)].max,
                       tier |-> profile[EntryOf(m)].tier]
  <2>1. /\ canonical[e] = NoMeta /\ EntryOf(m) = e /\ Becomes(g)
        /\ canonical' = [canonical EXCEPT ![e] = m]
        /\ UNCHANGED <<profile, mark, tok, client>>
    BY <1>6 DEF Add
  <2>2. index[m] = 0
    BY <1>1, <2>1, MetaAssumption DEF RegistryOK
  <2>3. /\ Shape(g) /\ g.meta = [meta EXCEPT ![m] = blank] /\ blank.mark = 0
        /\ \A x \in Meta : g.index[x] = 0 <=> index[x] = 0 /\ x # m
    <3> DEFINE h == Queue
    <3>1. /\ ProfileOK /\ Shape(h) /\ h.index[m] = 0 /\ h.meta = meta
          /\ h.index = index /\ g = add(h, m)
      BY <1>1, <2>2, QueueFields
    <3> HIDE DEF h, g
    <3>2. /\ Shape(add(h, m)) /\ add(h, m).meta = [h.meta EXCEPT ![m] = blank]
          /\ \A x \in Meta : add(h, m).index[x] = 0 <=> h.index[x] = 0 /\ x # m
      BY <3>1, AddFacts
    <3> QED BY <3>1, <3>2
  <2> HIDE DEF g, blank
  <2>4. Queue' = g
    BY <2>1, <2>3, BecomesFacts DEF Shape
  <2>5. index' = g.index /\ meta' = g.meta
    BY <2>4, QueueFields
  <2>6. RegistryOK'
    <3>1. \A f \in Entry : canonical'[f] = IF f = e THEN m ELSE canonical[f]
      BY <1>1, <2>1 DEF RegistryOK
    <3>2. canonical' \in [Entry -> Meta \cup {NoMeta}]
      BY <1>1, <2>1 DEF RegistryOK
    <3>3. ASSUME NEW f \in Entry, canonical'[f] # NoMeta
          PROVE  EntryOf(canonical'[f]) = f /\ index'[canonical'[f]] # 0
      <4>1. canonical'[f] \in Meta
        BY <3>2, <3>3
      <4> QED BY <1>1, <2>1, <2>3, <2>5, <3>1, <3>3, <4>1 DEF RegistryOK
    <3>4. ASSUME NEW x \in Meta, index'[x] # 0 PROVE canonical'[EntryOf(x)] = x
      <4>1. x = m \/ index[x] # 0
        BY <2>3, <2>5, <3>4
      <4>2. x # m => canonical[EntryOf(x)] = x /\ EntryOf(x) # e
        BY <1>1, <2>1, <4>1, MetaAssumption DEF RegistryOK
      <4> QED BY <2>1, <3>1, <4>1, <4>2, EntryOfMeta
    <3> QED BY <3>2, <3>3, <3>4 DEF RegistryOK
  <2>7. MarksOK'
    BY <1>1, <2>1, <2>3, <2>5 DEF MarksOK
  <2> QED BY <1>2, <1>3, <2>1, <2>3, <2>4, <2>6, <2>7 DEF HeapInv
<1>7. ASSUME NEW e \in Entry, Remove(e) PROVE HeapInv'
  <2> DEFINE m == canonical[e]
             h == HeapRemove(Queue, index[m])
             g == [h EXCEPT !.meta = [@ EXCEPT ![m] = Blank]]
  <2>1. /\ m # NoMeta /\ Becomes(g) /\ canonical' = [canonical EXCEPT ![e] = NoMeta]
        /\ UNCHANGED <<profile, mark, tok, client>>
    BY <1>7 DEF Remove
  <2>2. m \in Meta /\ EntryOf(m) = e /\ index[m] # 0
    BY <1>1, <2>1 DEF RegistryOK
  <2>3. /\ Shape(h) /\ h.meta = meta
        /\ \A x \in Meta : h.index[x] = 0 <=> index[x] = 0 \/ x = m
    BY <1>1, <2>2, RemoveFacts, QueueFields
  <2>4. canonical \in [Entry -> Meta \cup {NoMeta}]
    BY <1>1 DEF RegistryOK
  <2> HIDE DEF m, h
  <2>5. /\ Shape(g) /\ g.index = h.index /\ g.meta = [meta EXCEPT ![m] = Blank]
    <3>1. /\ h \in QueueType /\ Placed(h) /\ Ordered(h, Len(h.heap), 1)
          /\ \A c \in 1..Len(h.heap) : h.heap[c] \in Meta /\ h.heap[c] # m
          /\ Len(h.heap) \in Nat
      <4>1. /\ h \in QueueType /\ Placed(h) /\ Ordered(h, Len(h.heap), 1)
            /\ Len(h.heap) \in Nat /\ \A c \in 1..Len(h.heap) : h.heap[c] \in Meta
        BY <2>3, QueueFacts DEF Shape
      <4>2. h.index[m] = 0
        BY <2>2, <2>3
      <4> QED BY <4>1, <4>2 DEF Placed
    <3>2. /\ g \in QueueType /\ g.heap = h.heap /\ g.index = h.index
          /\ g.meta = [meta EXCEPT ![m] = Blank]
      <4>1. Blank \in MetaData
        BY DEF Blank, MetaData
      <4> QED BY <1>1, <2>3, <3>1, <4>1 DEF QueueType
    <3> HIDE DEF g
    <3>3. Placed(g)
      BY <3>1, <3>2 DEF Placed
    <3>4. Ordered(g, Len(h.heap), 1)
      <4> SUFFICES ASSUME NEW c \in 2..Len(h.heap) PROVE Below(g, c \div 2, c)
        BY DEF Ordered
      <4> DEFINE p == c \div 2
                 a == h.heap[p]
                 b == h.heap[c]
                 ms == g.meta
      <4>1. c \in 1..Len(h.heap) /\ p \in 1..Len(h.heap) /\ p >= 1
        BY <3>1, HalfFacts
      <4>2. Below(h, p, c)
        BY <3>1, <4>1 DEF Ordered
      <4> HIDE DEF p
      <4>3. ms[a] = h.meta[a] /\ ms[b] = h.meta[b]
        BY <1>1, <2>3, <3>1, <3>2, <4>1
      <4>4. Le(h.meta, a, b)
        BY <4>2 DEF Below
      <4> HIDE DEF a, b, ms
      <4>5. Le(ms, a, b)
        BY <4>3, <4>4, CostIsLocal
      <4>6. Below(g, p, c)
        BY <3>2, <4>5 DEF Below, a, b, ms
      <4> QED BY <4>6 DEF p
    <3> QED BY <3>2, <3>3, <3>4 DEF Shape
  <2> HIDE DEF g
  <2>6. Queue' = g
    BY <2>1, <2>5, BecomesFacts DEF Shape
  <2>7. index' = h.index /\ meta' = g.meta
    BY <2>5, <2>6, QueueFields
  <2>8. RegistryOK'
    <3>1. canonical' \in [Entry -> Meta \cup {NoMeta}]
          /\ \A f \in Entry : canonical'[f] = IF f = e THEN NoMeta ELSE canonical[f]
      BY <2>1, <2>4
    <3>2. ASSUME NEW f \in Entry, canonical'[f] # NoMeta
          PROVE  EntryOf(canonical'[f]) = f /\ index'[canonical'[f]] # 0
      <4>1. f # e /\ canonical'[f] = canonical[f] /\ canonical[f] \in Meta
        BY <2>4, <3>1, <3>2
      <4>2. EntryOf(canonical[f]) = f /\ index[canonical[f]] # 0
        BY <1>1, <4>1, MetaAssumption DEF RegistryOK
      <4>3. canonical[f] # m
        BY <2>2, <4>1, <4>2
      <4> QED BY <2>3, <2>7, <4>1, <4>2, <4>3
    <3>3. ASSUME NEW x \in Meta, index'[x] # 0 PROVE canonical'[EntryOf(x)] = x
      <4>1. index[x] # 0 /\ x # m
        BY <2>3, <2>7, <3>3
      <4>2. canonical[EntryOf(x)] = x
        BY <1>1, <4>1 DEF RegistryOK
      <4>3. EntryOf(x) # e
        BY <4>1, <4>2 DEF m
      <4> QED BY <3>1, <4>2, <4>3, EntryOfMeta
    <3> QED BY <3>1, <3>2, <3>3 DEF RegistryOK
  <2>9. MarksOK'
    BY <1>1, <2>1, <2>5, <2>7 DEF MarksOK, Blank
  <2> QED BY <1>2, <1>3, <2>1, <2>5, <2>6, <2>8, <2>9 DEF HeapInv
<1>8. ASSUME Rebalance PROVE HeapInv'
  <2> DEFINE g == updateAll(Queue)
  <2>1. Becomes(g) /\ UNCHANGED <<profile, canonical, mark, tok, client>>
    BY <1>8 DEF Rebalance
  <2>2. /\ Shape(g) /\ \A x \in Meta : g.index[x] = 0 <=> (Queue).index[x] = 0
        /\ g.meta = [m \in Meta |-> IF index[m] = 0 THEN meta[m]
                                    ELSE Paid(meta, m, 0, meta[m].mark)]
    BY <1>1, UpdateAllFacts, QueueFields
  <2> HIDE DEF g
  <2>3. Queue' = g
    BY <2>1, <2>2, BecomesFacts DEF Shape
  <2>4. SameEntries(Queue, Queue')
    BY <2>2, <2>3 DEF SameEntries
  <2>5. MarksOK'
    <3>1. \A m \in Meta : g.meta[m].mark = meta[m].mark
      BY <2>2 DEF Paid
    <3>2. meta' = g.meta
      BY <2>3, QueueFields
    <3> QED BY <1>1, <2>1, <3>1, <3>2 DEF MarksOK
  <2> QED BY <1>2, <1>3, <1>4, <2>1, <2>2, <2>3, <2>4, <2>5 DEF HeapInv
<1>9. ASSUME NEW k \in PickLoads, PickLoad(k) PROVE HeapInv'
  <2>1. heap # <<>> /\ mark' = mark + 1 /\ UNCHANGED <<profile, canonical>> /\ k \in Nat
    BY <1>9, LoadAssumption DEF PickLoad
  <2>2. PICK pick \in pickLocked(k, mark + 1) :
          /\ Becomes(pick.queue)
          /\ IF pick.got = NoMeta THEN UNCHANGED <<tok, client>>
             ELSE \E t \in Token :
                    /\ tok[t] = Released
                    /\ tok' = [tok EXCEPT ![t] = [meta |-> pick.got, load |-> k]]
                    /\ client' = client \cup {t}
    BY <1>9 DEF PickLoad
  <2>3. /\ Shape(pick.queue) /\ SameEntries(Queue, pick.queue)
        /\ pick.got \in Meta \cup {NoMeta}
        /\ \A m \in Meta : pick.queue.meta[m].mark \in 0..(mark + 1)
    BY <2>1, PickQueue
  <2>4. Queue' = pick.queue
    BY <2>2, <2>3, BecomesFacts DEF Shape
  <2>5. MarksOK'
    BY <1>1, <2>1, <2>3, <2>4, QueueFields DEF MarksOK
  <2>6. TokensOK'
    <3>1. CASE pick.got = NoMeta
      BY <1>3, <2>2, <3>1
    <3>2. CASE pick.got # NoMeta
      <4>1. PICK t \in Token :
              /\ tok[t] = Released
              /\ tok' = [tok EXCEPT ![t] = [meta |-> pick.got, load |-> k]]
              /\ client' = client \cup {t}
        BY <2>2, <3>2
      <4> DEFINE r == [meta |-> pick.got, load |-> k]
      <4>2. r \in [meta : Meta \cup {NoMeta}, load : Nat] /\ r.meta # NoMeta
        BY <2>1, <2>3, <3>2
      <4> HIDE DEF r
      <4>3. tok' = [tok EXCEPT ![t] = r]
        BY <4>1 DEF r
      <4> QED BY <1>1, <4>1, <4>2, <4>3 DEF TokensOK
    <3> QED BY <3>1, <3>2
  <2> QED BY <1>2, <1>4, <2>1, <2>3, <2>4, <2>5, <2>6 DEF HeapInv
<1>10. ASSUME NEW t \in Token, Release(t) PROVE HeapInv'
  <2> DEFINE m == tok[t].meta
             k == tok[t].load
             g == update(Queue, m, -k, meta[m].mark)
  <2>1. /\ t \in client /\ client' = client \ {t}
        /\ tok' = [tok EXCEPT ![t] = Released]
        /\ IF k > 0 /\ index[m] # notInPQueue THEN Becomes(g)
           ELSE UNCHANGED <<heap, index, meta>>
        /\ UNCHANGED <<profile, canonical, mark>>
    BY <1>10 DEF Release
  <2>2. m \in Meta /\ k \in Nat
    BY <1>1, <2>1 DEF TokensOK
  <2>3. TokensOK'
    BY <1>1, <2>1 DEF TokensOK, Released
  <2> HIDE DEF m, k
  <2>4. CASE UNCHANGED <<heap, index, meta>>
    <3>1. Queue' = Queue /\ SameEntries(Queue, Queue')
      BY <2>4 DEF Queue, SameEntries
    <3> QED BY <1>1, <1>2, <1>4, <2>1, <2>3, <2>4, <3>1 DEF HeapInv, MarksOK
  <2>5. CASE index[m] # 0 /\ Becomes(g)
    <3> DEFINE mk == meta[m].mark
               paid == Paid(meta, m, IF Room(meta, m, -k) THEN -k ELSE 0, mk)
    <3>1. -k \in Int /\ mk \in Int
      BY <1>1, <2>2 DEF MarksOK
    <3> HIDE DEF mk
    <3>2. g = update(Queue, m, -k, mk)
      BY DEF mk
    <3> HIDE DEF g
    <3>3. /\ Shape(g) /\ g.meta = [meta EXCEPT ![m] = paid]
          /\ \A x \in Meta : g.index[x] = 0 <=> (Queue).index[x] = 0
      <4> DEFINE h == Queue
      <4>1. /\ ProfileOK /\ Shape(h) /\ h.index[m] # 0 /\ h.meta = meta
            /\ h.index = index /\ g = update(h, m, -k, mk)
        BY <1>1, <2>5, <3>2, QueueFields
      <4>2. paid = Paid(h.meta, m, IF Room(h.meta, m, -k) THEN -k ELSE 0, mk)
        BY <4>1
      <4> HIDE DEF h, paid
      <4>3. /\ Shape(g)
            /\ g.meta = [h.meta EXCEPT ![m] =
                           Paid(h.meta, m, IF Room(h.meta, m, -k) THEN -k ELSE 0, mk)]
            /\ \A x \in Meta : g.index[x] = 0 <=> h.index[x] = 0
        BY <2>2, <3>1, <4>1, UpdateFacts
      <4> QED BY <4>1, <4>2, <4>3 DEF h
    <3>4. Queue' = g /\ SameEntries(Queue, Queue')
      BY <2>5, <3>3, BecomesFacts DEF Shape, SameEntries
    <3>5. paid.mark = mk
      BY DEF Paid
    <3>6. meta' = g.meta
      BY <3>4, QueueFields
    <3> HIDE DEF paid
    <3>7. MarksOK'
      BY <1>1, <2>1, <3>3, <3>5, <3>6 DEF MarksOK, mk
    <3> QED BY <1>2, <1>4, <2>1, <2>3, <3>3, <3>4, <3>7 DEF HeapInv
  <2> QED BY <2>1, <2>4, <2>5 DEF notInPQueue
<1>11. CASE UNCHANGED vars
  BY <1>1, <1>11 DEF vars, HeapInv, Queue, ProfileOK, TokensOK, RegistryOK, MarksOK
<1> QED BY <1>5, <1>6, <1>7, <1>8, <1>9, <1>10, <1>11 DEF Next

\* The inductive invariant holds: a heap whose entries know their places, whose
\* marks are below the counter, and which has one object for an entry.
LEMMA HeapInvariant == Spec => []HeapInv
<1> QED BY HeapInvInit, HeapInvNext, PTL DEF Spec

\* The array stays a min-heap and every entry knows its place in it, through
\* every sequence of operations on the pool.
THEOREM HeapShapeHolds == Spec => []HeapShape
<1>1. HeapInv => HeapShape
  <2> SUFFICES ASSUME HeapInv PROVE HeapShape
    OBVIOUS
  <2>1. /\ Queue \in QueueType /\ Placed(Queue) /\ Ordered(Queue, Len(heap), 1)
        /\ DOMAIN heap = 1..Len(heap) /\ Len(heap) \in Nat
    BY QueueFacts, QueueFields DEF HeapInv, Shape
  <2>2. \A i \in DOMAIN heap : i > 1 => ~Less(Queue, i, i \div 2)
    <3> SUFFICES ASSUME NEW i \in 1..Len(heap), i > 1 PROVE ~Less(Queue, i, i \div 2)
      BY <2>1
    <3>1. i \in 2..Len(heap) /\ i \div 2 >= 1
      BY <2>1, HalfFacts
    <3>2. Below(Queue, i \div 2, i)
      BY <2>1, <3>1 DEF Ordered
    <3> QED BY <3>2 DEF Below, Le, Less
  <2> QED BY <2>1, <2>2, QueueFields DEF HeapShape, Placed, notInPQueue
<1> QED BY <1>1, HeapInvariant, PTL

-----------------------------------------------------------------------------
(***************************************************************************)
(* What a pick may pass over                                               *)
(***************************************************************************)
\* The first entry of a heap costs no more than any other.
LEMMA RootIsLeast ==
  ASSUME NEW h, Shape(h)
  PROVE  \A c \in 1..Len(h.heap) : Below(h, 1, c)
<1> DEFINE n == Len(h.heap)
           Bad == {c \in 1..n : ~Below(h, 1, c)}
<1>1. h \in QueueType /\ Ordered(h, n, 1) /\ n \in Nat
  BY QueueFacts DEF Shape
<1> SUFFICES ASSUME Bad # {} PROVE FALSE
  OBVIOUS
<1>2. PICK c \in Bad : \A d \in Bad : c <= d
  <2>1. Bad \in SUBSET Nat
    BY <1>1
  <2> HIDE DEF Bad
  <2> QED BY <2>1, NatMinimum
<1>3. c \in 1..n /\ 1 \in 1..n /\ ~Below(h, 1, c)
  BY <1>1, <1>2
<1>4. c # 1
  BY <1>1, <1>3, BelowOrder
<1>5. /\ c \in 2..n /\ c \div 2 \in 1..n /\ c \div 2 >= 1 /\ c \div 2 < c
  BY <1>1, <1>3, <1>4, HalfFacts
<1>6. Below(h, c \div 2, c)
  BY <1>1, <1>5 DEF Ordered
<1>7. Below(h, 1, c \div 2)
  BY <1>2, <1>3, <1>5
<1> QED BY <1>1, <1>3, <1>5, <1>6, <1>7, BelowOrder

\* The entries of the slow path are all but the two that were first, before
\* and after update.
LEMMA SlowEntries ==
  ASSUME NEW first, Shape(first), NEW sorted, NEW k, NEW mk, NEW pick,
         SlowPick(first, sorted, k, mk, pick), NEW x \in Meta, first.index[x] # 0,
         x # first.heap[1]
  PROVE  \A n \in Nat : Len(first.heap) = n + 1 =>
           (First(sorted, n) = {first.heap[c] : c \in 2..(n + 1)}
              => \E b \in 1..n : x = sorted[b])
<1> SUFFICES ASSUME NEW n \in Nat, Len(first.heap) = n + 1,
                    First(sorted, n) = {first.heap[c] : c \in 2..(n + 1)}
             PROVE  \E b \in 1..n : x = sorted[b]
  OBVIOUS
<1>1. first.index[x] \in 1..(n + 1) /\ first.heap[first.index[x]] = x
  BY DEF Shape, Placed
<1>2. first.index[x] \in 2..(n + 1)
  BY <1>1
<1>3. x \in First(sorted, n)
  BY <1>1, <1>2
<1> QED BY <1>3 DEF First

\* What is in the array is what has an index.
LEMMA ElementsFacts ==
  ASSUME NEW h, Shape(h)
  PROVE  /\ Elements(h.heap) = {m \in Meta : h.index[m] # 0}
         /\ h.heap = <<>> <=> Elements(h.heap) = {}
<1>1. /\ h.heap \in Seq(Meta) /\ DOMAIN h.heap = 1..Len(h.heap) /\ Len(h.heap) \in Nat
      /\ \A c \in 1..Len(h.heap) : h.heap[c] \in Meta
  BY QueueFacts DEF Shape
<1>2. \A c \in 1..Len(h.heap) : h.index[h.heap[c]] = c
  BY DEF Shape, Placed
<1>3. \A m \in Meta : h.index[m] # 0 =>
        h.index[m] \in 1..Len(h.heap) /\ h.heap[h.index[m]] = m
  BY DEF Shape, Placed
<1>4. Elements(h.heap) = {m \in Meta : h.index[m] # 0}
  BY <1>1, <1>2, <1>3 DEF Elements
<1>5. h.heap = <<>> <=> Elements(h.heap) = {}
  <2>1. h.heap # <<>> => 1 \in 1..Len(h.heap)
    BY <1>1, EmptySeq
  <2>2. h.heap = <<>> => DOMAIN h.heap = {}
    OBVIOUS
  <2> QED BY <1>1, <2>1, <2>2 DEF Elements
<1> QED BY <1>4, <1>5

\* The same of the present queue.
LEMMA ElementsOfQueue ==
  ASSUME Shape(Queue)
  PROVE  /\ Elements(heap) = {m \in Meta : index[m] # 0}
         /\ heap = <<>> <=> Elements(heap) = {}
BY ElementsFacts, QueueFields

\* An entry with room that costs less than what was picked, or any with room
\* when nothing was, is the one that was first when q[1:] was copied.
LEMMA OnlyOnePassedOver ==
  ASSUME HeapInv, heap # <<>>, NEW k \in Nat, NEW pick \in pickLocked(k, mark + 1)
  PROVE  \E y : \A x \in Elements(heap) :
           /\ Fits(Queue, x, k)
           /\ pick.got # NoMeta => costLowerThan(meta, x, pick.got)
           => x = y
<1> DEFINE mk == mark + 1
           top == heap[1]
<1>1. /\ ProfileOK /\ Shape(Queue) /\ mk \in Int
      /\ meta \in [Meta -> MetaData] /\ Len(heap) \in Nat
  BY QueueFacts, QueueFields DEF HeapInv, MarksOK, Shape
<1> HIDE DEF mk
<1>2. /\ Shape(pick.queue) /\ SameEntries(Queue, pick.queue)
      /\ pick.got \in Meta \cup {NoMeta} /\ top \in Meta
      /\ \/ /\ Room(meta, top, k) /\ pick.got = top
         \/ /\ ~Room(meta, top, k)
            /\ \E first, sorted :
                 /\ Shape(first) /\ SameEntries(Queue, first)
                 /\ Len(first.heap) = Len(heap)
                 /\ first.meta = Marked(meta, {top}, mk)
                 /\ SlowPick(first, sorted, k, mk, pick)
  <2>1. pick \in pickLocked(k, mk)
    BY DEF mk
  <2> QED BY <1>1, <2>1, PickFacts
<1>3. \A x \in Meta : Fits(Queue, x, k) = Room(meta, x, k)
  BY QueueFields DEF Fits, Room
<1>4. \A x \in Elements(heap) : x \in Meta /\ index[x] # 0
  BY <1>1, ElementsOfQueue
<1>5. CASE pick.got = top
  <2> SUFFICES ASSUME NEW x \in Elements(heap) PROVE ~costLowerThan(meta, x, top)
    BY <1>2, <1>5, MetaAssumption
  <2>1. index[x] \in 1..Len(heap) /\ heap[index[x]] = x
    BY <1>1, <1>4, QueueFields DEF Shape, Placed
  <2>2. Below(Queue, 1, index[x])
    BY <1>1, <2>1, RootIsLeast, QueueFields
  <2> QED BY <2>1, <2>2, QueueFields DEF Below, Le
<1>6. ASSUME ~Room(meta, top, k), NEW first, NEW sorted,
             Shape(first), SameEntries(Queue, first),
             first.meta = Marked(meta, {top}, mk),
             SlowPick(first, sorted, k, mk, pick),
             NEW x \in Elements(heap), Fits(Queue, x, k),
             pick.got # NoMeta => costLowerThan(meta, x, pick.got)
      PROVE  x = first.heap[1]
  <2> SUFFICES ASSUME x # first.heap[1] PROVE FALSE
    OBVIOUS
  <2>1. x \in Meta /\ first.index[x] # 0 /\ Room(meta, x, k) /\ x # top
    BY <1>3, <1>4, <1>6, QueueFields DEF SameEntries
  <2>2. PICK n \in Nat :
          /\ sorted \in [1..n -> Meta] /\ Len(first.heap) = n + 1
          /\ First(sorted, n) = {first.heap[c] : c \in 2..(n + 1)}
          /\ \A b, c \in 1..n : b < c => Le(first.meta, sorted[b], sorted[c])
          /\ \E a \in 0..n : GotTo(first, sorted, k, mk, n, a, pick)
    BY <1>6 DEF SlowPick
  <2>3. PICK b \in 1..n : x = sorted[b]
    BY <1>6, <2>1, <2>2, SlowEntries
  <2>4. PICK a \in 0..n : GotTo(first, sorted, k, mk, n, a, pick)
    BY <2>2
  <2>5. \A m \in Meta : Room(first.meta, m, k) = Room(meta, m, k)
    <3> TAKE m \in Meta
    <3>1. first.meta[m].load = meta[m].load
      BY <1>1, <1>6, MarkedFacts
    <3> QED BY <3>1 DEF Room
  <2>6. ~(b <= a)
    BY <2>1, <2>2, <2>3, <2>4, <2>5 DEF GotTo
  <2>7. pick.got # NoMeta
    BY <2>3, <2>4, <2>6 DEF GotTo
  <2>8. a + 1 \in 1..n /\ pick.got = sorted[a + 1] /\ Room(first.meta, pick.got, k)
    BY <2>4, <2>7 DEF GotTo
  <2>9. pick.got \in Meta /\ pick.got # top /\ Room(meta, pick.got, k)
    BY <1>2, <1>6, <2>5, <2>7, <2>8
  <2>10. costLowerThan(meta, x, pick.got)
    BY <1>6, <2>7
  <2>11. first.meta[x] = meta[x] /\ first.meta[pick.got] = meta[pick.got]
    BY <1>6, <2>1, <2>9 DEF Marked
  <2>12. costLowerThan(first.meta, x, pick.got)
    BY <2>10, <2>11, CostIsLocal
  <2>13. CASE b = a + 1
    <3>1. x = pick.got
      BY <2>3, <2>8, <2>13
    <3> QED BY <1>1, <2>1, <2>10, <3>1, CostIsWeakOrder DEF Le
  <2>14. CASE b # a + 1
    <3>1. a + 1 < b
      BY <2>6, <2>8, <2>14
    <3>2. Le(first.meta, pick.got, x)
      BY <2>2, <2>3, <2>8, <3>1
    <3> QED BY <2>12, <3>2 DEF Le
  <2> QED BY <2>13, <2>14
<1>7. CASE ~Room(meta, top, k)
  <2>1. PICK first, sorted : /\ Shape(first) /\ SameEntries(Queue, first)
                             /\ first.meta = Marked(meta, {top}, mk)
                             /\ SlowPick(first, sorted, k, mk, pick)
    BY <1>2, <1>7
  <2> WITNESS first.heap[1]
  <2> QED BY <1>6, <1>7, <2>1
<1> QED BY <1>2, <1>5, <1>7

\* A set all of whose members are equal has at most one.
LEMMA AtMostOne ==
  ASSUME NEW S, NEW y, \A x \in S : x = y
  PROVE  Cardinality(S) <= 1
<1>1. IsFiniteSet({y}) /\ Cardinality({y}) = 1
  BY FS_Singleton
<1>2. S \subseteq {y}
  OBVIOUS
<1> QED BY <1>1, <1>2, FS_Subset

\* A pick of pickLocked (pool.go:168) passes over at most one entry that has
\* room, whatever the number of entries.
THEOREM PassesOverAtMostOneHolds == Spec => PassesOverAtMostOne
<1> DEFINE Step ==
      \A k \in PickLoads : PickLoad(k) =>
        LET got == {m \in Meta : \E t \in Token : tok'[t].meta = m /\ tok[t] = Released}
        IN Cardinality({x \in Elements(heap) :
             /\ Fits(Queue, x, k)
             /\ \A m \in got : costLowerThan(meta, x, m)}) <= 1
<1>1. HeapInv /\ [Next]_vars => [Step]_vars
  <2> SUFFICES ASSUME HeapInv, NEW k \in PickLoads, PickLoad(k)
               PROVE  LET got == {m \in Meta : \E t \in Token : tok'[t].meta = m
                                                                /\ tok[t] = Released}
                      IN Cardinality({x \in Elements(heap) :
                           /\ Fits(Queue, x, k)
                           /\ \A m \in got : costLowerThan(meta, x, m)}) <= 1
    OBVIOUS
  <2> DEFINE got == {m \in Meta : \E t \in Token : tok'[t].meta = m /\ tok[t] = Released}
             S == {x \in Elements(heap) : /\ Fits(Queue, x, k)
                                          /\ \A m \in got : costLowerThan(meta, x, m)}
  <2>1. heap # <<>> /\ k \in Nat
    BY LoadAssumption DEF PickLoad
  <2>2. PICK pick \in pickLocked(k, mark + 1) :
          IF pick.got = NoMeta THEN UNCHANGED <<tok, client>>
          ELSE \E t \in Token :
                 /\ tok[t] = Released
                 /\ tok' = [tok EXCEPT ![t] = [meta |-> pick.got, load |-> k]]
    BY DEF PickLoad
  <2>3. pick.got # NoMeta => pick.got \in got
    <3>1. pick.got \in Meta \cup {NoMeta}
      BY <2>1, PickQueue
    <3>2. tok \in [Token -> [meta : Meta \cup {NoMeta}, load : Nat]]
      BY DEF HeapInv, TokensOK
    <3> QED BY <2>2, <3>1, <3>2
  <2>4. PICK y : \A x \in Elements(heap) :
                   /\ Fits(Queue, x, k)
                   /\ pick.got # NoMeta => costLowerThan(meta, x, pick.got)
                   => x = y
    BY <2>1, OnlyOnePassedOver
  <2>5. \A x \in S : x = y
    BY <2>3, <2>4
  <2> HIDE DEF S
  <2>6. Cardinality(S) <= 1
    BY <2>5, AtMostOne
  <2> QED BY <2>6 DEF S
<1> QED BY <1>1, HeapInvariant, PTL DEF Spec, PassesOverAtMostOne

-----------------------------------------------------------------------------
(***************************************************************************)
(* The queue implements the set of Pool                                    *)
(***************************************************************************)
\* The metadata as Pool has it: marks are their ranks.
Mapped == [m \in Meta |-> IF m \in Elements(heap)
                          THEN [meta[m] EXCEPT !.mark = RankOf(m)]
                          ELSE Blank]

MarkedData == {ms \in [Meta -> MetaData] : \A m \in Meta : ms[m].mark \in Nat}

\* On S the two compare alike: marks need not agree, but their order does.
SameOrder(ms, ns, S) ==
  \A m \in S : /\ ms[m].load = ns[m].load /\ ms[m].maxLoad = ns[m].maxLoad
               /\ ms[m].tier = ns[m].tier
               /\ ms[m].mark = 0 <=> ns[m].mark = 0
               /\ \A x \in S : ms[x].mark < ms[m].mark <=> ns[x].mark < ns[m].mark

\* The marks below that of m, and 0.
Earlier(ms, S, m) == {x \in S : 0 < ms[x].mark /\ ms[x].mark < ms[m].mark}

\* The instance of Pool counts as this module does.
LEMMA CardinalityOfPool == \A S : P!Cardinality(S) = Cardinality(S)
BY DEF P!Cardinality, Cardinality

\* The rank of a mark, as Pool computes it.
LEMMA RankDef ==
  \A ms, S, m : P!Rank(ms, S, m) = IF ms[m].mark = 0 THEN 0
                                   ELSE 1 + Cardinality(Earlier(ms, S, m))
<1> TAKE ms, S, m
<1> QED BY CardinalityOfPool DEF P!Rank, Earlier

\* Metadata in the same order compare in the same way, in either module.
LEMMA CostSame ==
  ASSUME NEW ms \in [Meta -> MetaData], NEW ns \in [Meta -> MetaData],
         NEW S \in SUBSET Meta, SameOrder(ms, ns, S), NEW a \in S, NEW b \in S
  PROVE  /\ costLowerThan(ms, a, b) = costLowerThan(ns, a, b)
         /\ P!costLowerThan(ms, a, b) = costLowerThan(ns, a, b)
<1>1. P!costLowerThan(ms, a, b) = costLowerThan(ms, a, b)
  BY DEF P!costLowerThan, P!Overloaded, costLowerThan
<1>2. /\ ms[a].load = ns[a].load /\ ms[a].maxLoad = ns[a].maxLoad /\ ms[a].tier = ns[a].tier
      /\ ms[b].load = ns[b].load /\ ms[b].maxLoad = ns[b].maxLoad /\ ms[b].tier = ns[b].tier
      /\ ms[a].mark < ms[b].mark <=> ns[a].mark < ns[b].mark
  BY DEF SameOrder
<1>3. costLowerThan(ms, a, b) = costLowerThan(ns, a, b)
  BY <1>2 DEF costLowerThan
<1> QED BY <1>1, <1>3

\* Metadata in the same order have the same ranks.
LEMMA RankSame ==
  ASSUME NEW ms \in MarkedData, NEW ns \in MarkedData, NEW S \in SUBSET Meta,
         SameOrder(ms, ns, S), NEW m \in S
  PROVE  P!Rank(ms, S, m) = P!Rank(ns, S, m)
<1>1. ms[m].mark = 0 <=> ns[m].mark = 0
  BY DEF SameOrder
<1>2. \A x \in S : ms[x].mark < ms[m].mark <=> ns[x].mark < ns[m].mark
  BY DEF SameOrder
<1>3. \A x \in S : 0 < ms[x].mark <=> 0 < ns[x].mark
  <2> TAKE x \in S
  <2>1. ms[x].mark \in Nat /\ ns[x].mark \in Nat
    BY DEF MarkedData
  <2>2. ms[x].mark = 0 <=> ns[x].mark = 0
    BY DEF SameOrder
  <2> QED BY <2>1, <2>2
<1>4. Earlier(ms, S, m) = Earlier(ns, S, m)
  BY <1>2, <1>3 DEF Earlier
<1> QED BY <1>1, <1>4, RankDef

\* Ranks order the entries as the marks do.
LEMMA RankOrder ==
  ASSUME NEW ms \in MarkedData, NEW S \in SUBSET Meta
  PROVE  /\ \A m \in S : P!Rank(ms, S, m) \in 0..Cardinality(Meta)
         /\ \A m \in S : P!Rank(ms, S, m) = 0 <=> ms[m].mark = 0
         /\ \A m, x \in S : P!Rank(ms, S, x) < P!Rank(ms, S, m) <=> ms[x].mark < ms[m].mark
<1>1. \A m \in Meta : ms[m].mark \in Nat
  BY DEF MarkedData
<1>2. IsFiniteSet(Meta) /\ IsFiniteSet(S) /\ Cardinality(Meta) \in Nat
  BY MetaAssumption, FS_Subset, FS_CardinalityType
<1>3. \A m \in S : /\ IsFiniteSet(Earlier(ms, S, m)) /\ Cardinality(Earlier(ms, S, m)) \in Nat
                   /\ 1 + Cardinality(Earlier(ms, S, m)) <= Cardinality(Meta)
  <2> TAKE m \in S
  <2> DEFINE B == Earlier(ms, S, m)
  <2>1. B \subseteq Meta /\ m \in Meta /\ m \notin B
    BY <1>1 DEF Earlier
  <2> HIDE DEF B
  <2>2. IsFiniteSet(B) /\ Cardinality(B) \in Nat
    BY <1>2, <2>1, FS_Subset, FS_CardinalityType
  <2>3. Cardinality(B \cup {m}) = Cardinality(B) + 1
    BY <2>1, <2>2, FS_AddElement
  <2>4. Cardinality(B \cup {m}) <= Cardinality(Meta)
    BY <1>2, <2>1, FS_Subset
  <2> QED BY <2>2, <2>3, <2>4 DEF B
<1>4. \A m \in S : /\ P!Rank(ms, S, m) \in 0..Cardinality(Meta)
                   /\ P!Rank(ms, S, m) = 0 <=> ms[m].mark = 0
  <2> TAKE m \in S
  <2> DEFINE c == Cardinality(Earlier(ms, S, m))
             r == P!Rank(ms, S, m)
  <2>1. r = IF ms[m].mark = 0 THEN 0 ELSE 1 + c
    BY RankDef
  <2>2. c \in Nat /\ 1 + c <= Cardinality(Meta)
    BY <1>3
  <2> HIDE DEF c, r
  <2>3. r \in 0..Cardinality(Meta) /\ (r = 0 <=> ms[m].mark = 0)
    BY <1>2, <2>1, <2>2
  <2> QED BY <2>3 DEF r
<1>5. ASSUME NEW m \in S, NEW x \in S, ms[x].mark < ms[m].mark
      PROVE  P!Rank(ms, S, x) < P!Rank(ms, S, m)
  <2> DEFINE Bx == Earlier(ms, S, x)
             Bm == Earlier(ms, S, m)
  <2>1. ms[m].mark # 0 /\ ms[x].mark \in Nat /\ ms[m].mark \in Nat
    BY <1>1, <1>5
  <2>2. P!Rank(ms, S, m) = 1 + Cardinality(Bm) /\ Cardinality(Bm) \in Nat
    BY <1>3, <2>1, RankDef
  <2>3. CASE ms[x].mark = 0
    <3>1. P!Rank(ms, S, x) = 0
      BY <2>3, RankDef
    <3> QED BY <2>2, <3>1
  <2>4. CASE ms[x].mark # 0
    <3>1. P!Rank(ms, S, x) = 1 + Cardinality(Bx) /\ Cardinality(Bx) \in Nat
      BY <1>3, <2>4, RankDef
    <3>2. Bx \cup {x} \subseteq Bm /\ x \notin Bx
      BY <1>1, <1>5, <2>1, <2>4 DEF Earlier
    <3>3. IsFiniteSet(Bm) /\ IsFiniteSet(Bx)
      BY <1>3
    <3> HIDE DEF Bx, Bm
    <3>4. Cardinality(Bx \cup {x}) = Cardinality(Bx) + 1
      BY <3>2, <3>3, FS_AddElement
    <3>5. Cardinality(Bx \cup {x}) <= Cardinality(Bm)
      BY <3>2, <3>3, FS_Subset
    <3> QED BY <2>2, <3>1, <3>4, <3>5
  <2> QED BY <2>3, <2>4
<1>6. ASSUME NEW m \in S, NEW x \in S, ~(ms[x].mark < ms[m].mark)
      PROVE  ~(P!Rank(ms, S, x) < P!Rank(ms, S, m))
  <2> DEFINE Bx == Earlier(ms, S, x)
             Bm == Earlier(ms, S, m)
  <2>1. ms[x].mark \in Nat /\ ms[m].mark \in Nat /\ ms[m].mark <= ms[x].mark
    BY <1>1, <1>6
  <2>2. CASE ms[m].mark = 0
    <3>1. P!Rank(ms, S, m) = 0 /\ P!Rank(ms, S, x) \in Nat
      BY <1>2, <1>4, <2>2
    <3> QED BY <3>1
  <2>3. CASE ms[m].mark # 0
    <3>1. /\ P!Rank(ms, S, m) = 1 + Cardinality(Bm) /\ Cardinality(Bm) \in Nat
          /\ P!Rank(ms, S, x) = 1 + Cardinality(Bx) /\ Cardinality(Bx) \in Nat
      BY <1>3, <2>1, <2>3, RankDef
    <3>2. Bm \subseteq Bx
      BY <1>1, <2>1 DEF Earlier
    <3>3. IsFiniteSet(Bx)
      BY <1>3
    <3> HIDE DEF Bx, Bm
    <3>4. Cardinality(Bm) <= Cardinality(Bx)
      BY <3>2, <3>3, FS_Subset
    <3> QED BY <3>1, <3>4
  <2> QED BY <2>2, <2>3
<1> QED BY <1>4, <1>5, <1>6

\* Ranks are in the order of the marks they stand for, and stay within their bound.
LEMMA RankedFacts ==
  ASSUME NEW ms \in MarkedData, NEW S \in SUBSET Meta,
         NEW g, g = P!Ranked(ms, S)
  PROVE  /\ g \in MarkedData
         /\ SameOrder(g, ms, S)
         /\ \A m \in S : g[m].mark \in 0..Cardinality(Meta)
<1>1. /\ \A m \in S : P!Rank(ms, S, m) \in 0..Cardinality(Meta)
      /\ \A m \in S : P!Rank(ms, S, m) = 0 <=> ms[m].mark = 0
      /\ \A m, x \in S : P!Rank(ms, S, x) < P!Rank(ms, S, m) <=> ms[x].mark < ms[m].mark
  BY RankOrder
<1>2. Cardinality(Meta) \in Nat
  BY MetaAssumption, FS_CardinalityType
<1>3. g = [m \in Meta |-> IF m \in S THEN [ms[m] EXCEPT !.mark = P!Rank(ms, S, m)] ELSE Blank]
  BY DEF P!Ranked, P!Meta, Meta, P!Blank, Blank
<1>4. ASSUME NEW m \in S
      PROVE  /\ g[m] \in MetaData /\ g[m].mark = P!Rank(ms, S, m)
             /\ g[m].load = ms[m].load /\ g[m].maxLoad = ms[m].maxLoad
             /\ g[m].tier = ms[m].tier
  <2> DEFINE r == P!Rank(ms, S, m)
             d == ms[m]
  <2>1. d \in MetaData /\ r \in Int
    BY <1>1, <1>2 DEF MarkedData
  <2>2. g[m] = [d EXCEPT !.mark = r]
    BY <1>3
  <2> HIDE DEF r, d
  <2>3. /\ g[m] \in MetaData /\ g[m].mark = r
        /\ g[m].load = d.load /\ g[m].maxLoad = d.maxLoad /\ g[m].tier = d.tier
    BY <2>1, <2>2 DEF MetaData
  <2> QED BY <2>3 DEF r, d
<1>5. g \in MarkedData
  <2>1. \A m \in Meta : g[m] \in MetaData /\ g[m].mark \in Nat
    <3> TAKE m \in Meta
    <3>1. CASE m \in S
      BY <1>1, <1>2, <1>4, <3>1
    <3>2. CASE m \notin S
      BY <1>3, <3>2 DEF Blank, MetaData
    <3> QED BY <3>1, <3>2
  <2> QED BY <1>3, <2>1 DEF MarkedData
<1>6. SameOrder(g, ms, S)
  BY <1>1, <1>4 DEF SameOrder
<1> QED BY <1>1, <1>4, <1>5, <1>6

\* Having the same order is transitive and symmetric.
LEMMA SameOrderTrans ==
  ASSUME NEW ms, NEW ns, NEW os, NEW S, SameOrder(ms, ns, S), SameOrder(ns, os, S)
  PROVE  SameOrder(ms, os, S) /\ SameOrder(ns, ms, S)
BY DEF SameOrder

\* Only the marks have to be in the same order.
LEMMA SameMarks ==
  ASSUME NEW g, NEW os, NEW S, SameOrder(g, os, S), NEW ms, NEW ns,
         \A x \in S : /\ ms[x].mark = g[x].mark /\ ns[x].mark = os[x].mark
                      /\ ms[x].load = ns[x].load /\ ms[x].maxLoad = ns[x].maxLoad
                      /\ ms[x].tier = ns[x].tier
  PROVE  SameOrder(ms, ns, S)
BY DEF SameOrder

\* The metadata and the entries of a heap whose marks are not negative.
LEMMA MarkedQueue ==
  ASSUME NEW h, Shape(h), \A m \in Meta : h.meta[m].mark \in Nat
  PROVE  h.meta \in MarkedData /\ Elements(h.heap) \in SUBSET Meta
<1>1. h.meta \in [Meta -> MetaData]
  BY QueueFacts DEF Shape
<1>2. Elements(h.heap) \in SUBSET Meta
  BY ElementsFacts
<1> QED BY <1>1, <1>2 DEF MarkedData

\* What the refinement mapping makes of the metadata has the order of the marks.
LEMMA MappedFacts ==
  ASSUME HeapInv
  PROVE  /\ meta \in MarkedData /\ Elements(heap) \in SUBSET Meta
         /\ Mapped = P!Ranked(meta, Elements(heap))
         /\ Mapped \in MarkedData /\ SameOrder(Mapped, meta, Elements(heap))
         /\ \A m \in Elements(heap) : Mapped[m].mark \in 0..Cardinality(Meta)
<1>1. meta \in MarkedData /\ Elements(heap) \in SUBSET Meta
  <2>1. \A m \in Meta : meta[m].mark \in Nat
    BY DEF HeapInv, MarksOK
  <2> QED BY <2>1, MarkedQueue, QueueFields DEF HeapInv
<1>2. Mapped = P!Ranked(meta, Elements(heap))
  BY CardinalityOfPool
     DEF Mapped, P!Ranked, P!Rank, RankOf, P!Meta, Meta, P!Blank, Blank
<1> QED BY <1>1, <1>2, RankedFacts

\* Metadata that compares like the new one has the same ranks.
LEMMA HeapifyFacts ==
  ASSUME HeapInv', NEW S, S = Elements(heap'), NEW ms \in MarkedData,
         SameOrder(ms, meta', S)
  PROVE  /\ Mapped' = P!Ranked(ms, S)
         /\ (IF heap' = <<>> THEN NoMeta ELSE heap'[1]) \in P!Roots(Mapped', S)
<1>1. /\ meta' \in MarkedData /\ S \in SUBSET Meta /\ Shape(Queue')
      /\ Mapped' = P!Ranked(meta', S)
      /\ Mapped' \in MarkedData /\ SameOrder(Mapped', meta', S)
  <2>1. Shape(Queue') /\ \A m \in Meta : meta'[m].mark \in Nat
    BY DEF HeapInv, MarksOK
  <2>2. meta' \in MarkedData /\ S \in SUBSET Meta
    BY <2>1, MarkedQueue, QueueFields
  <2>3. Mapped' = P!Ranked(meta', S)
    BY CardinalityOfPool
       DEF Mapped, P!Ranked, P!Rank, RankOf, P!Meta, Meta, P!Blank, Blank
  <2> QED BY <2>1, <2>2, <2>3, RankedFacts
<1>2. Mapped' = P!Ranked(ms, S)
  <2>1. \A m \in S : P!Rank(ms, S, m) = P!Rank(meta', S, m)
    BY <1>1, RankSame
  <2>2. ASSUME NEW m \in S
        PROVE  [ms[m] EXCEPT !.mark = P!Rank(ms, S, m)]
                 = [meta'[m] EXCEPT !.mark = P!Rank(meta', S, m)]
    <3> DEFINE r == P!Rank(ms, S, m)
               c == ms[m]
               d == meta'[m]
    <3>1. /\ c \in MetaData /\ d \in MetaData
          /\ c.load = d.load /\ c.maxLoad = d.maxLoad /\ c.tier = d.tier
      BY <1>1 DEF MarkedData, SameOrder
    <3> HIDE DEF r, c, d
    <3>2. [c EXCEPT !.mark = r] = [d EXCEPT !.mark = r]
      BY <3>1 DEF MetaData
    <3> QED BY <2>1, <3>2 DEF r, c, d
  <2> QED BY <1>1, <2>2 DEF P!Ranked, P!Meta, Meta
<1> DEFINE root == IF heap = <<>> THEN NoMeta ELSE heap[1]
<1>3. root' \in P!Roots(Mapped', S)
  <2>1. CASE heap' = <<>>
    <3>1. S = {} /\ root' = NoMeta
      BY <2>1 DEF Elements
    <3> QED BY <3>1 DEF P!Roots
  <2>2. CASE heap' # <<>>
    <3>1. /\ heap' \in Seq(Meta) /\ Len(heap') \in Nat
          /\ DOMAIN heap' = 1..Len(heap') /\ Len(heap') # 0
      BY <1>1, <2>2, QueueFacts, QueueFields, EmptySeq DEF Shape
    <3>2. heap'[1] \in S
      BY <3>1 DEF Elements
    <3>3. ASSUME NEW x \in S PROVE ~P!costLowerThan(Mapped', x, heap'[1])
      <4>1. PICK c \in 1..Len(heap') : x = heap'[c]
        BY <3>1 DEF Elements
      <4>2. Below(Queue', 1, c)
        BY <1>1, RootIsLeast, QueueFields
      <4>3. ~costLowerThan(meta', x, heap'[1])
        BY <4>1, <4>2, QueueFields DEF Below, Le
      <4> DEFINE y == heap'[1]
                 os == Mapped'
                 ns == meta'
      <4> HIDE DEF y, os, ns
      <4>4. /\ os \in [Meta -> MetaData] /\ ns \in [Meta -> MetaData]
            /\ S \in SUBSET Meta /\ SameOrder(os, ns, S) /\ y \in S
        BY <1>1, <3>2 DEF MarkedData, y, os, ns
      <4>5. P!costLowerThan(os, x, y) = costLowerThan(ns, x, y)
        BY <4>4, CostSame
      <4> QED BY <4>3, <4>5 DEF y, os, ns
    <3> QED BY <2>2, <3>2, <3>3 DEF P!Roots
  <2> QED BY <2>1, <2>2
<1> QED BY <1>2, <1>3

\* Pool's operators in terms of Mapped.
LEMMA PoolTerms ==
  /\ \A m, k : P!HasRoom(m, k) = (k <= 0 \/ Mapped[m].load + k <= profile[EntryOf(m)].max)
  /\ \A m : P!Sampled(m) = [Mapped[m] EXCEPT !.maxLoad = profile[EntryOf(m)].max,
                                             !.tier = profile[EntryOf(m)].tier]
  /\ \A T : P!Tried(T) =
       [m \in Meta |-> IF m \in T THEN [P!Sampled(m) EXCEPT !.mark = P!NextMark]
                                  ELSE Mapped[m]]
  /\ P!NextMark = 1 + Cardinality(Meta)
<1>1. \A m, k : P!HasRoom(m, k) = (k <= 0 \/ Mapped[m].load + k <= profile[EntryOf(m)].max)
  BY DEF P!HasRoom, P!EntryOf, EntryOf, Mapped
<1>2. \A m : P!Sampled(m) = [Mapped[m] EXCEPT !.maxLoad = profile[EntryOf(m)].max,
                                              !.tier = profile[EntryOf(m)].tier]
  BY DEF P!Sampled, P!EntryOf, EntryOf, Mapped
<1>3. \A T : P!Tried(T) =
        [m \in Meta |-> IF m \in T THEN [P!Sampled(m) EXCEPT !.mark = P!NextMark]
                                   ELSE Mapped[m]]
  BY DEF P!Tried, P!Meta, Meta, Mapped
<1>4. P!NextMark = 1 + Cardinality(Meta)
  BY CardinalityOfPool DEF P!NextMark, P!Meta, Meta
<1> QED BY <1>1, <1>2, <1>3, <1>4

\* A record of Pool sampled and given the mark mk.
LEMMA SampledFacts ==
  ASSUME HeapInv, NEW m \in Elements(heap), NEW r, r = P!Sampled(m)
  PROVE  /\ r \in MetaData /\ r.load = meta[m].load /\ r.mark = Mapped[m].mark
         /\ r.maxLoad = profile[EntryOf(m)].max /\ r.tier = profile[EntryOf(m)].tier
<1>1. /\ m \in Meta /\ Mapped \in MarkedData /\ Mapped[m].load = meta[m].load
  BY MappedFacts DEF SameOrder
<1> DEFINE d == Mapped[m]
           x == profile[EntryOf(m)].max
           y == profile[EntryOf(m)].tier
<1>2. d \in MetaData /\ x \in Int /\ y \in Int
  BY <1>1, ProfileFacts DEF MarkedData, HeapInv
<1>3. r = [d EXCEPT !.maxLoad = x, !.tier = y]
  BY PoolTerms
<1> HIDE DEF d, x, y
<1>4. /\ r \in MetaData /\ r.load = d.load /\ r.mark = d.mark
      /\ r.maxLoad = x /\ r.tier = y
  BY <1>2, <1>3 DEF MetaData
<1> QED BY <1>1, <1>4 DEF d, x, y

\* Calling update in vain on the entries of T: above all marks in one as in
\* the other, the new mark is NextMark there and the counter here.
LEMMA TriedOrder ==
  ASSUME HeapInv, NEW T \in SUBSET Elements(heap), NEW g, g = P!Tried(T)
  PROVE  /\ g \in MarkedData
         /\ SameOrder(g, Marked(meta, T, mark + 1), Elements(heap))
         /\ \A m \in T : g[m].mark = 1 + Cardinality(Meta)
<1> DEFINE S == Elements(heap)
           mk == mark + 1
           next == 1 + Cardinality(Meta)
           ns == Marked(meta, T, mk)
<1>1. /\ meta \in MarkedData /\ S \in SUBSET Meta /\ Mapped \in MarkedData
      /\ SameOrder(Mapped, meta, S) /\ \A m \in S : Mapped[m].mark \in 0..Cardinality(Meta)
  BY MappedFacts
<1>2. /\ next \in Nat /\ next # 0 /\ mk \in Nat /\ mk # 0 /\ mk \in Int
      /\ \A m \in Meta : meta[m].mark \in Nat /\ meta[m].mark < mk
      /\ \A m \in S : Mapped[m].mark \in Nat /\ Mapped[m].mark < next
  <2>1. Cardinality(Meta) \in Nat
    BY MetaAssumption, FS_CardinalityType
  <2>2. mark \in Nat /\ \A m \in Meta : meta[m].mark \in 0..mark
    BY DEF HeapInv, MarksOK
  <2> QED BY <1>1, <2>1, <2>2
<1>3. g = [m \in Meta |-> IF m \in T THEN [P!Sampled(m) EXCEPT !.mark = next] ELSE Mapped[m]]
  BY PoolTerms
<1> HIDE DEF next
<1>4. ASSUME NEW m \in T
      PROVE  /\ g[m] \in MetaData /\ g[m].load = meta[m].load /\ g[m].mark = next
             /\ g[m].maxLoad = profile[EntryOf(m)].max /\ g[m].tier = profile[EntryOf(m)].tier
  <2> DEFINE r == P!Sampled(m)
  <2>1. /\ r \in MetaData /\ r.load = meta[m].load
        /\ r.maxLoad = profile[EntryOf(m)].max /\ r.tier = profile[EntryOf(m)].tier
    BY SampledFacts
  <2>2. g[m] = [r EXCEPT !.mark = next]
    BY <1>1, <1>3
  <2> HIDE DEF r
  <2> QED BY <1>2, <2>1, <2>2 DEF MetaData
<1>5. \A m \in Meta \ T : g[m] = Mapped[m]
  BY <1>3
<1>6. g \in MarkedData
  <2>1. \A m \in Meta : g[m] \in MetaData /\ g[m].mark \in Nat
    BY <1>1, <1>2, <1>4, <1>5 DEF MarkedData
  <2> QED BY <1>3, <2>1 DEF MarkedData
<1>7. ASSUME NEW m \in T
      PROVE  /\ ns[m].load = meta[m].load /\ ns[m].mark = mk
             /\ ns[m].maxLoad = profile[EntryOf(m)].max /\ ns[m].tier = profile[EntryOf(m)].tier
  <2>1. m \in Meta /\ meta[m].load \in Int /\ 0 \in Int
    BY <1>1 DEF MarkedData, MetaData
  <2>2. /\ Paid(meta, m, 0, mk).load = meta[m].load + 0
        /\ Paid(meta, m, 0, mk).mark = mk
        /\ Paid(meta, m, 0, mk).maxLoad = profile[EntryOf(m)].max
        /\ Paid(meta, m, 0, mk).tier = profile[EntryOf(m)].tier
    BY DEF Paid
  <2>3. ns[m] = Paid(meta, m, 0, mk)
    BY <2>1 DEF Marked
  <2> QED BY <2>1, <2>2, <2>3
<1>8. \A m \in Meta \ T : ns[m] = meta[m]
  BY DEF Marked
<1> HIDE DEF ns, mk, S
<1>9. SameOrder(g, ns, S)
  <2>1. ASSUME NEW m \in S
        PROVE  /\ g[m].load = ns[m].load /\ g[m].maxLoad = ns[m].maxLoad
               /\ g[m].tier = ns[m].tier
               /\ g[m].mark = 0 <=> ns[m].mark = 0
    <3>1. CASE m \in T
      BY <1>2, <1>4, <1>7, <3>1
    <3>2. CASE m \notin T
      BY <1>1, <1>5, <1>8, <3>2 DEF SameOrder
    <3> QED BY <3>1, <3>2
  <2>2. ASSUME NEW m \in S, NEW x \in S
        PROVE  g[x].mark < g[m].mark <=> ns[x].mark < ns[m].mark
    <3>1. /\ g[x].mark = IF x \in T THEN next ELSE Mapped[x].mark
          /\ g[m].mark = IF m \in T THEN next ELSE Mapped[m].mark
          /\ ns[x].mark = IF x \in T THEN mk ELSE meta[x].mark
          /\ ns[m].mark = IF m \in T THEN mk ELSE meta[m].mark
      BY <1>1, <1>4, <1>5, <1>7, <1>8
    <3>2. /\ Mapped[x].mark \in Nat /\ Mapped[m].mark \in Nat
          /\ Mapped[x].mark < next /\ Mapped[m].mark < next
          /\ meta[x].mark \in Nat /\ meta[m].mark \in Nat
          /\ meta[x].mark < mk /\ meta[m].mark < mk
      BY <1>1, <1>2
    <3>3. Mapped[x].mark < Mapped[m].mark <=> meta[x].mark < meta[m].mark
      BY <1>1 DEF SameOrder
    <3> QED BY <1>2, <3>1, <3>2, <3>3
  <2> QED BY <2>1, <2>2 DEF SameOrder
<1> QED BY <1>4, <1>6, <1>9 DEF next, ns, mk, S

\* Marking two sets after one another is marking both.
LEMMA MarkedTwice ==
  ASSUME ProfileOK, NEW ms \in [Meta -> MetaData], NEW A, NEW B, NEW mk \in Int
  PROVE  Marked(Marked(ms, A, mk), B, mk) = Marked(ms, A \cup B, mk)
<1> DEFINE ns == Marked(ms, A, mk)
<1>1. ASSUME NEW m \in Meta PROVE ns[m].load = ms[m].load
  BY MarkedFacts
<1>2. ASSUME NEW m \in Meta PROVE Paid(ns, m, 0, mk) = Paid(ms, m, 0, mk)
  <2>1. ns[m].load = ms[m].load
    BY <1>1
  <2> HIDE DEF ns
  <2> QED BY <2>1 DEF Paid
<1>3. Marked(ns, B, mk) = Marked(ms, A \cup B, mk)
  <2>1. \A m \in Meta : ns[m] = IF m \in A THEN Paid(ms, m, 0, mk) ELSE ms[m]
    BY DEF Marked
  <2> HIDE DEF ns
  <2>2. \A m \in Meta :
          (IF m \in B THEN Paid(ns, m, 0, mk) ELSE ns[m])
            = IF m \in A \cup B THEN Paid(ms, m, 0, mk) ELSE ms[m]
    BY <1>2, <2>1
  <2> QED BY <2>2 DEF Marked
<1> QED BY <1>3

\* Pool's choice, with the queue of this module.
Chooses(k, failed, m) ==
  \/ m = heap[1] /\ P!HasRoom(heap[1], k) /\ failed = {}
  \/ /\ ~P!HasRoom(heap[1], k)
     /\ heap[1] \in failed
     /\ \E skipped \in P!Roots(P!Tried({heap[1]}), Elements(heap)) :
          /\ m \in Elements(heap) \ {skipped, heap[1]} /\ P!HasRoom(m, k)
          /\ failed \subseteq {heap[1]} \cup
               {x \in Elements(heap) \ {skipped, heap[1]} : ~P!HasRoom(x, k)}
          /\ \A x \in Elements(heap) \ {skipped, heap[1]} :
               P!costLowerThan(P!Tried({heap[1]}), x, m) => x \in failed
          /\ \A x \in failed \ {heap[1]} : ~P!costLowerThan(P!Tried({heap[1]}), m, x)

ReturnsNil(k, failed) ==
  /\ ~P!HasRoom(heap[1], k)
  /\ \E skipped \in P!Roots(P!Tried({heap[1]}), Elements(heap)) :
       /\ failed = {heap[1]} \cup (Elements(heap) \ {skipped})
       /\ \A x \in failed : ~P!HasRoom(x, k)

\* The choices of pickLocked over the array are those of Pool over its set.
LEMMA ChoiceTerms ==
  ASSUME heap # <<>>, Elements(heap) # {}, NEW k, NEW failed
  PROVE  /\ \A m : Chooses(k, failed, m) => P!PickChooses(k, failed, m)
         /\ ReturnsNil(k, failed) => P!PickReturnsNil(k, failed)
<1> DEFINE root == IF heap = <<>> THEN NoMeta ELSE heap[1]
<1>1. root = heap[1]
  OBVIOUS
<1>2. P!Skippable = P!Roots(P!Tried({heap[1]}), Elements(heap))
  <2>1. P!Skippable = P!Roots(P!Tried({root}), Elements(heap))
    BY DEF P!Skippable
  <2> QED BY <1>1, <2>1
<1>3. ASSUME NEW m, Chooses(k, failed, m) PROVE P!PickChooses(k, failed, m)
  BY <1>1, <1>2, <1>3 DEF Chooses, P!PickChooses
<1>4. ASSUME ReturnsNil(k, failed) PROVE P!PickReturnsNil(k, failed)
  BY <1>1, <1>2, <1>4 DEF ReturnsNil, P!PickReturnsNil
<1> QED BY <1>3, <1>4

\* What a pick is to Pool: the entries it tried in vain, and the metadata.
PickIs(k, pick, failed) ==
  LET mk == mark + 1
  IN IF pick.got = NoMeta
     THEN ReturnsNil(k, failed) /\ pick.queue.meta = Marked(meta, failed, mk)
     ELSE /\ Chooses(k, failed, pick.got) /\ pick.got \in Elements(heap) \ failed
          /\ pick.queue.meta = [Marked(meta, failed, mk)
                                  EXCEPT ![pick.got] = Paid(meta, pick.got, k, mk)]

\* The slow path: the first update fails, what is then first is left out, and the
\* others are tried in the order of the sort.
LEMMA SlowPickIs ==
  ASSUME HeapInv, heap # <<>>, NEW k \in Nat, NEW pick, ~Room(meta, heap[1], k),
         NEW first, NEW sorted, Shape(first), SameEntries(Queue, first),
         first.meta = Marked(meta, {heap[1]}, mark + 1),
         SlowPick(first, sorted, k, mark + 1, pick)
  PROVE  \E failed \in SUBSET Elements(heap) : PickIs(k, pick, failed)
<1> DEFINE S == Elements(heap)
           mk == mark + 1
           top == heap[1]
           y == first.heap[1]
           ts == P!Tried({top})
<1>1. /\ ProfileOK /\ Shape(Queue) /\ mk \in Int
      /\ meta \in [Meta -> MetaData] /\ S \in SUBSET Meta /\ S # {}
      /\ Len(heap) \in Nat /\ DOMAIN heap = 1..Len(heap) /\ Len(heap) # 0
  BY QueueFacts, QueueFields, ElementsOfQueue, EmptySeq DEF HeapInv, MarksOK, Shape
<1>2. top \in S
  BY <1>1 DEF Elements
<1>3. Elements(first.heap) = S
  <2>1. S = {m \in Meta : index[m] # 0}
    BY <1>1, ElementsOfQueue
  <2>2. Elements(first.heap) = {m \in Meta : first.index[m] # 0}
    BY ElementsFacts
  <2> QED BY <2>1, <2>2, QueueFields DEF SameEntries
<1>4. PICK n \in Nat :
        /\ sorted \in [1..n -> Meta] /\ Len(first.heap) = n + 1
        /\ First(sorted, n) = {first.heap[c] : c \in 2..(n + 1)}
        /\ \A b, c \in 1..n : b < c => Le(first.meta, sorted[b], sorted[c])
        /\ \E a \in 0..n : GotTo(first, sorted, k, mk, n, a, pick)
  BY DEF SlowPick
<1>5. PICK a \in 0..n : GotTo(first, sorted, k, mk, n, a, pick)
  BY <1>4
<1> HIDE DEF S, mk, top, y, ts
<1>6. /\ DOMAIN first.heap = 1..(n + 1) /\ Placed(first)
      /\ first.meta \in [Meta -> MetaData] /\ first.meta = Marked(meta, {top}, mk)
  BY <1>4, QueueFacts DEF Shape, top, mk
<1>7. S = {y} \cup First(sorted, n) /\ y \notin First(sorted, n)
  <2>1. S = {first.heap[c] : c \in 1..(n + 1)}
    BY <1>3, <1>6 DEF Elements
  <2>2. \A c : c \in 1..(n + 1) <=> c = 1 \/ c \in 2..(n + 1)
    OBVIOUS
  <2>3. \A c \in 2..(n + 1) : first.heap[c] # y
    <3> TAKE c \in 2..(n + 1)
    <3>1. c \in 1..Len(first.heap) /\ 1 \in 1..Len(first.heap) /\ c # 1
      BY <1>4
    <3> QED BY <1>6, <3>1 DEF Placed, y
  <2> QED BY <1>4, <2>1, <2>2, <2>3 DEF y
<1>8. \A b \in 1..n : sorted[b] \in S /\ sorted[b] # y
  BY <1>7 DEF First
<1>9. \A x \in S : x # y => \E b \in 1..n : x = sorted[b]
  BY <1>7 DEF First
<1>10. /\ ts \in [Meta -> MetaData]
       /\ SameOrder(ts, first.meta, S)
  BY <1>2, <1>6, TriedOrder DEF ts, S, mk, MarkedData
<1>11. \A x, z \in S : P!costLowerThan(ts, x, z) = costLowerThan(first.meta, x, z)
  <2> DEFINE fm == first.meta
  <2>1. fm \in [Meta -> MetaData] /\ SameOrder(ts, fm, S)
    BY <1>6, <1>10
  <2> HIDE DEF fm
  <2>2. \A x, z \in S : P!costLowerThan(ts, x, z) = costLowerThan(fm, x, z)
    BY <1>1, <1>10, <2>1, CostSame
  <2> QED BY <2>2 DEF fm
<1>12. y \in P!Roots(ts, S)
  <2>1. y \in S
    BY <1>7
  <2>2. \A x \in S : ~P!costLowerThan(ts, x, y)
    <3> TAKE x \in S
    <3>1. PICK c \in 1..Len(first.heap) : x = first.heap[c]
      BY <1>3, <1>4, <1>6 DEF Elements
    <3>2. Below(first, 1, c)
      BY RootIsLeast
    <3> QED BY <1>11, <2>1, <3>1, <3>2 DEF Below, Le, y
  <2> QED BY <1>1, <2>1, <2>2 DEF P!Roots
<1>13. \A m \in S : /\ P!HasRoom(m, k) = Room(meta, m, k)
                    /\ Room(first.meta, m, k) = Room(meta, m, k)
  <2> TAKE m \in S
  <2>1. m \in Meta /\ Mapped[m].load = meta[m].load
    BY <1>1, MappedFacts DEF SameOrder, S
  <2>2. first.meta[m].load = meta[m].load
    BY <1>1, <1>6, <2>1, MarkedFacts
  <2>3. P!HasRoom(m, k) = (k <= 0 \/ Mapped[m].load + k <= profile[EntryOf(m)].max)
    BY PoolTerms
  <2> QED BY <2>1, <2>2, <2>3 DEF Room
<1>14. ~P!HasRoom(top, k)
  BY <1>2, <1>13 DEF top
<1> DEFINE failed == {top} \cup First(sorted, a)
<1>15. failed \in SUBSET S
  BY <1>2, <1>8 DEF First
<1>16. \A x \in failed : ~Room(meta, x, k)
  <2>1. \A b \in 1..a : ~Room(first.meta, sorted[b], k)
    BY <1>5 DEF GotTo
  <2>2. \A b \in 1..a : sorted[b] \in S
    BY <1>8
  <2> QED BY <1>2, <1>13, <1>14, <2>1, <2>2 DEF First
<1>17. Marked(first.meta, First(sorted, a), mk) = Marked(meta, failed, mk)
  <2> DEFINE T == First(sorted, a)
             A == {top}
  <2>1. first.meta = Marked(meta, A, mk)
    BY <1>6
  <2> HIDE DEF T, A
  <2>2. Marked(Marked(meta, A, mk), T, mk) = Marked(meta, A \cup T, mk)
    BY <1>1, MarkedTwice
  <2> QED BY <2>1, <2>2 DEF T, A
<1>18. CASE pick.got = NoMeta
  <2>1. a = n /\ pick.queue.meta = Marked(meta, failed, mk)
    BY <1>5, <1>17, <1>18 DEF GotTo
  <2>2. failed = {top} \cup (S \ {y})
    BY <1>7, <2>1
  <2>3. ReturnsNil(k, failed)
    BY <1>12, <1>13, <1>14, <1>15, <1>16, <2>2 DEF ReturnsNil, top, S, ts
  <2> QED BY <1>15, <1>18, <2>1, <2>3 DEF PickIs, S, mk
<1>19. CASE pick.got # NoMeta
  <2> DEFINE m == pick.got
  <2>1. /\ a + 1 \in 1..n /\ m = sorted[a + 1] /\ Room(first.meta, m, k)
        /\ pick.queue.meta = [Marked(meta, failed, mk)
                                EXCEPT ![m] = Paid(first.meta, m, k, mk)]
    <3>1. /\ a + 1 <= n /\ m = sorted[a + 1] /\ Room(first.meta, m, k)
          /\ pick.queue.meta = [Marked(first.meta, First(sorted, a), mk)
                                  EXCEPT ![m] = Paid(first.meta, m, k, mk)]
      BY <1>5, <1>19 DEF GotTo
    <3> QED BY <1>17, <3>1
  <2>2. m \in S /\ m # y /\ Room(meta, m, k) /\ P!HasRoom(m, k) /\ m # top
    BY <1>8, <1>13, <1>14, <2>1
  <2>3. m \notin failed
    BY <1>16, <2>2
  <2>4. Paid(first.meta, m, k, mk) = Paid(meta, m, k, mk)
    <3>1. m \in Meta
      BY <1>1, <2>2
    <3> HIDE DEF m
    <3>2. first.meta[m].load = meta[m].load
      BY <1>1, <1>6, <3>1, MarkedFacts
    <3> QED BY <3>2 DEF Paid
  <2> HIDE DEF m
  <2>5. failed \subseteq {top} \cup {x \in S \ {y, top} : ~P!HasRoom(x, k)}
    <3>1. \A x \in First(sorted, a) : x \in S /\ x # y
      BY <1>8 DEF First
    <3> QED BY <1>13, <1>16, <3>1
  <2>6. ASSUME NEW x \in S \ {y, top}, P!costLowerThan(ts, x, m) PROVE x \in failed
    <3>1. PICK b \in 1..n : x = sorted[b]
      BY <1>9
    <3>2. costLowerThan(first.meta, x, m)
      BY <1>11, <2>2, <2>6
    <3>3. b # a + 1
      <4>1. m \in Meta /\ Le(first.meta, m, m)
        BY <1>1, <1>6, <2>2, CostIsWeakOrder
      <4> QED BY <2>1, <3>1, <3>2, <4>1 DEF Le
    <3>4. ~(a + 1 < b)
      BY <1>4, <2>1, <3>1, <3>2 DEF Le
    <3>5. b \in 1..a
      BY <2>1, <3>3, <3>4
    <3> QED BY <3>1, <3>5 DEF First
  <2>7. ASSUME NEW x \in failed \ {top} PROVE ~P!costLowerThan(ts, m, x)
    <3>1. PICK b \in 1..a : x = sorted[b]
      BY DEF First
    <3>2. b \in 1..n /\ b < a + 1
      BY <2>1
    <3>3. Le(first.meta, x, m)
      BY <1>4, <2>1, <3>1, <3>2
    <3> QED BY <1>8, <1>11, <2>2, <3>1, <3>2, <3>3 DEF Le
  <2>8. Chooses(k, failed, m)
    <3> HIDE DEF failed
    <3>1. top \in failed
      BY DEF failed
    <3> QED BY <1>12, <1>14, <2>2, <2>5, <2>6, <2>7, <3>1 DEF Chooses, top, S, ts
  <2> HIDE DEF failed
  <2> QED BY <1>15, <1>19, <2>1, <2>2, <2>3, <2>4, <2>8 DEF PickIs, S, mk, m
<1> QED BY <1>18, <1>19

\* A pick from the array tries in vain, and takes, what Pool allows it to.
LEMMA PickIsPools ==
  ASSUME HeapInv, heap # <<>>, NEW k \in Nat, NEW pick \in pickLocked(k, mark + 1)
  PROVE  \E failed \in SUBSET Elements(heap) : PickIs(k, pick, failed)
<1> DEFINE mk == mark + 1
           top == heap[1]
<1>1. ProfileOK /\ Shape(Queue) /\ mk \in Int /\ top \in Elements(heap)
  <2>1. ProfileOK /\ Shape(Queue) /\ mk \in Int
    BY DEF HeapInv, MarksOK
  <2>2. heap \in Seq(Meta) /\ 1 \in DOMAIN heap
    BY <2>1, QueueFacts, QueueFields, EmptySeq DEF Shape
  <2> QED BY <2>1, <2>2 DEF Elements
<1> HIDE DEF mk
<1>2. /\ pick.got \in Meta \cup {NoMeta} /\ top \in Meta
      /\ \/ /\ Room(meta, top, k) /\ pick.got = top
            /\ pick.queue.meta = [meta EXCEPT ![top] = Paid(meta, top, k, mk)]
         \/ /\ ~Room(meta, top, k)
            /\ \E first, sorted :
                 /\ Shape(first) /\ SameEntries(Queue, first)
                 /\ Len(first.heap) = Len(heap)
                 /\ first.meta = Marked(meta, {top}, mk)
                 /\ SlowPick(first, sorted, k, mk, pick)
  <2>1. pick \in pickLocked(k, mk)
    BY DEF mk
  <2> QED BY <1>1, <2>1, PickFacts
<1> HIDE DEF top
<1>3. CASE ~Room(meta, top, k)
  BY <1>2, <1>3, SlowPickIs DEF top, mk
<1>4. CASE Room(meta, top, k)
  <2>1. P!HasRoom(top, k)
    <3>1. Mapped[top].load = meta[top].load
      BY <1>1, MappedFacts DEF SameOrder
    <3> QED BY <1>4, <3>1, PoolTerms DEF Room
  <2>2. Chooses(k, {}, top)
    BY <2>1 DEF Chooses, top
  <2>3. Marked(meta, {}, mk) = meta
    <3>1. meta \in [Meta -> MetaData]
      BY <1>1, QueueFacts, QueueFields DEF Shape
    <3> QED BY <3>1 DEF Marked
  <2>4. PickIs(k, pick, {})
    BY <1>1, <1>2, <1>4, <2>2, <2>3, MetaAssumption DEF PickIs, mk
  <2> QED BY <2>4
<1> QED BY <1>3, <1>4

\* Without calls of Wait there is nobody to wake.
LEMMA NobodyWaits == P!Broadcast(<<>>) = <<>>
BY DEF P!Broadcast

\* Add of the array is Add of the set.
LEMMA AddIsPools ==
  ASSUME HeapInv, HeapInv', NEW e \in Entry, NEW m \in Meta, Add(e, m)
  PROVE  P!Add(e, m)
<1> DEFINE S == Elements(heap)
           new == [load |-> 0, mark |-> 0, maxLoad |-> profile[e].max, tier |-> profile[e].tier]
           ms == [Mapped EXCEPT ![m] = new]
<1>1. /\ canonical[e] = NoMeta /\ EntryOf(m) = e /\ \A t \in Token : tok[t].meta # m
      /\ canonical' = [canonical EXCEPT ![e] = m]
      /\ Becomes(add(Queue, m)) /\ UNCHANGED <<profile, mark, tok, client>>
  BY DEF Add
<1>2. /\ ProfileOK /\ Shape(Queue) /\ Shape(Queue') /\ index[m] = 0
  BY <1>1, MetaAssumption DEF HeapInv, RegistryOK
<1>3. /\ meta' = [meta EXCEPT ![m] = new] /\ new \in MetaData
      /\ \A x \in Meta : index'[x] = 0 <=> index[x] = 0 /\ x # m
  <2> DEFINE h == Queue
  <2>1. /\ Shape(h) /\ h.index[m] = 0 /\ h.meta = meta /\ h.index = index
        /\ meta' = add(h, m).meta /\ index' = add(h, m).index
    BY <1>1, <1>2, QueueFields DEF Becomes
  <2> HIDE DEF h
  <2> DEFINE blank == [load |-> 0, mark |-> 0, maxLoad |-> profile[EntryOf(m)].max,
                       tier |-> profile[EntryOf(m)].tier]
  <2>2. blank = new
    BY <1>1
  <2> HIDE DEF new
  <2>3. /\ add(h, m).meta = [h.meta EXCEPT ![m] = blank] /\ blank \in MetaData
        /\ \A x \in Meta : add(h, m).index[x] = 0 <=> h.index[x] = 0 /\ x # m
    BY <1>2, <2>1, AddFacts
  <2> HIDE DEF blank
  <2> QED BY <2>1, <2>2, <2>3
<1>4. new.mark = 0
  OBVIOUS
<1> HIDE DEF new
<1>5. /\ meta \in MarkedData /\ S \in SUBSET Meta
      /\ Mapped \in MarkedData /\ SameOrder(Mapped, meta, S)
  BY MappedFacts
<1>6. m \notin S /\ S \cup {m} = Elements(heap')
  <2>1. S = {x \in Meta : index[x] # 0}
    BY <1>2, ElementsOfQueue
  <2>2. Elements(heap') = {x \in Meta : index'[x] # 0}
    BY <1>2, ElementsFacts, QueueFields
  <2> QED BY <1>2, <1>3, <2>1, <2>2
<1>7. ms \in MarkedData
  BY <1>3, <1>4, <1>5 DEF MarkedData
<1>8. SameOrder(ms, meta', S \cup {m})
  <2>1. ms[m] = new /\ meta'[m] = new
    BY <1>3, <1>5 DEF MarkedData
  <2>2. \A x \in S : ms[x] = Mapped[x] /\ meta'[x] = meta[x]
    BY <1>3, <1>5, <1>6 DEF MarkedData
  <2>3. \A x \in S : Mapped[x].mark \in Nat /\ meta[x].mark \in Nat
    BY <1>5 DEF MarkedData
  <2> HIDE DEF ms
  <2>4. ASSUME NEW x \in S \cup {m}
        PROVE  /\ ms[x].load = meta'[x].load /\ ms[x].maxLoad = meta'[x].maxLoad
               /\ ms[x].tier = meta'[x].tier
               /\ ms[x].mark = 0 <=> meta'[x].mark = 0
    BY <1>5, <2>1, <2>2 DEF SameOrder
  <2>5. ASSUME NEW x \in S \cup {m}, NEW z \in S \cup {m}
        PROVE  ms[x].mark < ms[z].mark <=> meta'[x].mark < meta'[z].mark
    <3>1. CASE x \in S /\ z \in S
      BY <1>5, <2>2, <3>1 DEF SameOrder
    <3>2. CASE x = m /\ z \in S
      <4>1. Mapped[z].mark = 0 <=> meta[z].mark = 0
        BY <1>5, <3>2 DEF SameOrder
      <4> QED BY <1>4, <2>1, <2>2, <2>3, <3>2, <4>1
    <3>3. CASE z = m
      <4>1. ~(ms[x].mark < ms[z].mark) /\ ~(meta'[x].mark < meta'[z].mark)
        BY <1>4, <2>1, <2>2, <2>3, <3>3
      <4> QED BY <4>1
    <3> QED BY <3>1, <3>2, <3>3
  <2> QED BY <2>4, <2>5 DEF SameOrder
<1> HIDE DEF ms
<1>9. /\ Mapped' = P!Ranked(ms, S \cup {m})
      /\ (IF heap' = <<>> THEN NoMeta ELSE heap'[1]) \in P!Roots(Mapped', S \cup {m})
  BY <1>6, <1>7, <1>8, HeapifyFacts
<1> QED BY <1>1, <1>6, <1>9, NobodyWaits
        DEF P!Add, P!Heapify, P!EntryOf, EntryOf, P!tokenVars, ms, new, Mapped

\* Remove of the array is Remove of the set.
LEMMA RemoveIsPools ==
  ASSUME HeapInv, HeapInv', NEW e \in Entry, Remove(e)
  PROVE  P!Remove(e)
<1> DEFINE S == Elements(heap)
           m == canonical[e]
           h == HeapRemove(Queue, index[m])
<1>1. /\ m # NoMeta /\ canonical' = [canonical EXCEPT ![e] = NoMeta]
      /\ Becomes([h EXCEPT !.meta = [@ EXCEPT ![m] = Blank]])
      /\ UNCHANGED <<profile, mark, tok, client>>
  BY DEF Remove
<1>2. /\ Shape(Queue) /\ Shape(Queue') /\ m \in Meta /\ index[m] # 0
  BY <1>1 DEF HeapInv, RegistryOK
<1>3. /\ h \in QueueType /\ h.meta = meta
      /\ \A x \in Meta : h.index[x] = 0 <=> index[x] = 0 \/ x = m
  BY <1>2, RemoveFacts, QueueFields DEF Shape
<1> HIDE DEF m, h
<1>4. index' = h.index /\ meta' = [meta EXCEPT ![m] = Blank]
  BY <1>1, <1>3 DEF Becomes, QueueType
<1>5. /\ meta \in MarkedData /\ S \in SUBSET Meta
      /\ Mapped \in MarkedData /\ SameOrder(Mapped, meta, S)
  BY MappedFacts
<1>6. S \ {m} = Elements(heap')
  <2>1. S = {x \in Meta : index[x] # 0}
    BY <1>2, ElementsOfQueue
  <2>2. Elements(heap') = {x \in Meta : index'[x] # 0}
    BY <1>2, ElementsFacts, QueueFields
  <2> QED BY <1>2, <1>3, <1>4, <2>1, <2>2
<1>7. SameOrder(Mapped, meta', S \ {m})
  <2>1. \A x \in S \ {m} : meta'[x] = meta[x]
    BY <1>4, <1>5 DEF MarkedData
  <2> QED BY <1>5, <2>1 DEF SameOrder
<1>8. /\ Mapped' = P!Ranked(Mapped, S \ {m})
      /\ (IF heap' = <<>> THEN NoMeta ELSE heap'[1]) \in P!Roots(Mapped', S \ {m})
  BY <1>5, <1>6, <1>7, HeapifyFacts
<1> QED BY <1>1, <1>6, <1>8 DEF P!Remove, P!Heapify, P!tokenVars, P!waitVars, Mapped, m

\* Rebalance of the array is Rebalance of the set.
LEMMA RebalanceIsPools ==
  ASSUME HeapInv, HeapInv', Rebalance
  PROVE  P!Rebalance
<1> DEFINE S == Elements(heap)
           g == updateAll(Queue)
           ms == [m \in Meta |-> P!Sampled(m)]
<1>1. Becomes(g) /\ UNCHANGED <<profile, canonical, mark, tok, client>>
  BY DEF Rebalance
<1>2. /\ ProfileOK /\ Shape(Queue) /\ Shape(Queue')
  BY DEF HeapInv
<1>3. /\ \A x \in Meta : g.index[x] = 0 <=> (Queue).index[x] = 0
      /\ g.meta = [m \in Meta |-> IF index[m] = 0 THEN meta[m]
                                  ELSE Paid(meta, m, 0, meta[m].mark)]
  BY <1>2, UpdateAllFacts, QueueFields
<1> HIDE DEF g
<1>4. index' = g.index /\ meta' = g.meta
  BY <1>1 DEF Becomes
<1>5. /\ meta \in MarkedData /\ S \in SUBSET Meta
      /\ Mapped \in MarkedData /\ SameOrder(Mapped, meta, S)
  BY MappedFacts
<1>6. S = Elements(heap') /\ \A m \in S : index[m] # 0
  <2>1. S = {x \in Meta : index[x] # 0}
    BY <1>2, ElementsOfQueue
  <2>2. Elements(heap') = {x \in Meta : index'[x] # 0}
    BY <1>2, ElementsFacts, QueueFields
  <2> QED BY <1>2, <1>3, <1>4, <2>1, <2>2, QueueFields
<1>7. ASSUME NEW m \in Meta
      PROVE  ms[m] \in MetaData /\ ms[m].mark = Mapped[m].mark
  <2> DEFINE d == Mapped[m]
             x == profile[EntryOf(m)].max
             y == profile[EntryOf(m)].tier
  <2>1. d \in MetaData /\ x \in Int /\ y \in Int
    BY <1>2, <1>5, ProfileFacts DEF MarkedData
  <2>2. ms[m] = [d EXCEPT !.maxLoad = x, !.tier = y]
    BY PoolTerms
  <2> HIDE DEF d, x, y, ms
  <2>3. ms[m] \in MetaData /\ ms[m].mark = d.mark
    BY <2>1, <2>2 DEF MetaData
  <2> QED BY <2>3 DEF d
<1>8. ms \in MarkedData
  BY <1>5, <1>7 DEF MarkedData
<1>9. ASSUME NEW m \in S
      PROVE  /\ ms[m].load = meta'[m].load /\ ms[m].maxLoad = meta'[m].maxLoad
             /\ ms[m].tier = meta'[m].tier
             /\ ms[m].mark = Mapped[m].mark /\ meta'[m].mark = meta[m].mark
  <2> DEFINE r == P!Sampled(m)
  <2>1. /\ r.load = meta[m].load /\ r.mark = Mapped[m].mark
        /\ r.maxLoad = profile[EntryOf(m)].max /\ r.tier = profile[EntryOf(m)].tier
    BY SampledFacts
  <2>2. ms[m] = r
    BY <1>5
  <2>3. meta'[m] = Paid(meta, m, 0, meta[m].mark) /\ meta[m].load + 0 = meta[m].load
    BY <1>3, <1>4, <1>5, <1>6 DEF MarkedData, MetaData
  <2> HIDE DEF r, ms
  <2> QED BY <2>1, <2>2, <2>3 DEF Paid
<1> HIDE DEF ms
<1>10. SameOrder(ms, meta', S)
  BY <1>5, <1>9 DEF SameOrder
<1>11. /\ Mapped' = P!Ranked(ms, S)
      /\ (IF heap' = <<>> THEN NoMeta ELSE heap'[1]) \in P!Roots(Mapped', S)
  BY <1>6, <1>8, <1>10, HeapifyFacts
<1> QED BY <1>1, <1>6, <1>11, NobodyWaits
        DEF P!Rebalance, P!Heapify, P!tokenVars, P!Meta, Meta, ms, Mapped

\* A change of limit or tier is the same in both.
LEMMA RetuneIsPools ==
  ASSUME NEW e \in Entry, NEW p \in Profile, Retune(e, p)
  PROVE  P!Retune(e, p)
<1>1. /\ profile[e] # p /\ profile' = [profile EXCEPT ![e] = p]
      /\ UNCHANGED <<canonical, heap, index, meta, mark, tok, client>>
  BY DEF Retune
<1>2. Mapped' = Mapped /\ Elements(heap') = Elements(heap)
  BY <1>1 DEF Mapped, RankOf
<1> QED BY <1>1, <1>2 DEF P!Retune, P!tokenVars, P!waitVars, Mapped

\* Release of the array is Release of the set.
LEMMA ReleaseIsPools ==
  ASSUME HeapInv, HeapInv', NEW t \in Token, Release(t)
  PROVE  P!Release(t)
<1> DEFINE S == Elements(heap)
           m == tok[t].meta
           k == tok[t].load
           mk == meta[m].mark
           g == update(Queue, m, -k, mk)
           ms == [Mapped EXCEPT ![m] = [P!Sampled(m) EXCEPT !.load = @ - k]]
<1>1. /\ t \in client /\ client' = client \ {t} /\ tok' = [tok EXCEPT ![t] = Released]
      /\ IF k > 0 /\ index[m] # 0 THEN Becomes(g) ELSE UNCHANGED <<heap, index, meta>>
      /\ UNCHANGED <<profile, canonical, mark>>
  BY DEF Release, notInPQueue
<1>2. /\ ProfileOK /\ Shape(Queue) /\ Shape(Queue') /\ m \in Meta /\ k \in Nat
  BY <1>1 DEF HeapInv, TokensOK
<1>3. S = {x \in Meta : index[x] # 0}
  BY <1>2, ElementsOfQueue
<1>4. P!Released = Released
  BY DEF P!Released, Released
<1> HIDE DEF m, k
<1>5. CASE ~(k > 0 /\ m \in S)
  <2>1. UNCHANGED <<heap, index, meta>>
    BY <1>1, <1>2, <1>3, <1>5
  <2>2. Mapped' = Mapped /\ Elements(heap') = Elements(heap)
    BY <2>1 DEF Mapped, RankOf
  <2> QED BY <1>1, <1>4, <1>5, <2>1, <2>2
          DEF P!Release, P!doRelease, P!tokenVars, P!waitVars, Mapped, m, k
<1>6. CASE k > 0 /\ m \in S
  <2>1. /\ index[m] # 0 /\ Becomes(g) /\ -k \in Int /\ -k <= 0 /\ mk \in Int
    BY <1>1, <1>2, <1>3, <1>6 DEF HeapInv, MarksOK
  <2> HIDE DEF mk
  <2>2. /\ meta' = [meta EXCEPT ![m] = Paid(meta, m, -k, mk)]
        /\ \A x \in Meta : index'[x] = 0 <=> index[x] = 0
    <3> DEFINE h == Queue
    <3>1. /\ Shape(h) /\ h.index[m] # 0 /\ h.meta = meta /\ h.index = index
          /\ g = update(h, m, -k, mk) /\ Room(h.meta, m, -k)
      BY <1>2, <2>1, QueueFields DEF Room
    <3> HIDE DEF h, g
    <3>2. /\ g.meta = [h.meta EXCEPT ![m] =
                         Paid(h.meta, m, IF Room(h.meta, m, -k) THEN -k ELSE 0, mk)]
          /\ \A x \in Meta : g.index[x] = 0 <=> h.index[x] = 0
      BY <1>2, <2>1, <3>1, UpdateFacts
    <3> QED BY <2>1, <3>1, <3>2 DEF Becomes
  <2>3. S = Elements(heap')
    <3>1. Elements(heap') = {x \in Meta : index'[x] # 0}
      BY <1>2, ElementsFacts, QueueFields
    <3> QED BY <1>3, <2>2, <3>1
  <2>4. /\ meta \in MarkedData /\ S \in SUBSET Meta
        /\ Mapped \in MarkedData /\ SameOrder(Mapped, meta, S)
    BY MappedFacts
  <2>5. /\ ms[m] \in MetaData /\ ms[m].load = meta[m].load - k
        /\ ms[m].mark = Mapped[m].mark
        /\ ms[m].maxLoad = profile[EntryOf(m)].max
        /\ ms[m].tier = profile[EntryOf(m)].tier
    <3> DEFINE r == P!Sampled(m)
               c == r.load - k
    <3>1. /\ r \in MetaData /\ r.load = meta[m].load /\ r.mark = Mapped[m].mark
          /\ r.maxLoad = profile[EntryOf(m)].max /\ r.tier = profile[EntryOf(m)].tier
      BY <1>6, SampledFacts
    <3>2. r.load \in Int /\ c \in Int
      BY <1>2, <3>1 DEF MetaData
    <3>3. ms[m] = [r EXCEPT !.load = c]
      BY <1>2, <2>4 DEF MarkedData
    <3>4. c = meta[m].load - k
      BY <3>1
    <3> HIDE DEF r, c, ms
    <3>5. /\ ms[m] \in MetaData /\ ms[m].load = c /\ ms[m].mark = r.mark
          /\ ms[m].maxLoad = r.maxLoad /\ ms[m].tier = r.tier
      BY <3>1, <3>2, <3>3 DEF MetaData
    <3> QED BY <3>1, <3>4, <3>5
  <2>6. \A x \in Meta : x # m => ms[x] = Mapped[x] /\ meta'[x] = meta[x]
    BY <2>2, <2>4 DEF MarkedData
  <2>7. ms \in MarkedData
    <3>1. \A x \in Meta : ms[x] \in MetaData /\ ms[x].mark \in Nat
      BY <1>2, <2>4, <2>5, <2>6 DEF MarkedData
    <3>2. DOMAIN ms = Meta /\ ms = [x \in Meta |-> ms[x]]
      BY <2>4 DEF MarkedData
    <3> HIDE DEF ms
    <3> QED BY <3>1, <3>2 DEF MarkedData
  <2>8. /\ meta'[m].load = meta[m].load - k /\ meta'[m].mark = meta[m].mark
        /\ meta'[m].maxLoad = profile[EntryOf(m)].max
        /\ meta'[m].tier = profile[EntryOf(m)].tier
    <3>1. meta'[m] = Paid(meta, m, -k, mk)
      BY <1>2, <2>2, <2>4 DEF MarkedData
    <3>2. meta[m].load + (-k) = meta[m].load - k
      BY <1>2, <2>4 DEF MarkedData, MetaData
    <3> QED BY <3>1, <3>2 DEF Paid, mk
  <2> HIDE DEF ms
  <2>9. SameOrder(ms, meta', S)
    <3>1. \A x \in S : /\ ms[x].mark = Mapped[x].mark /\ meta'[x].mark = meta[x].mark
                       /\ ms[x].load = meta'[x].load /\ ms[x].maxLoad = meta'[x].maxLoad
                       /\ ms[x].tier = meta'[x].tier
      <4> TAKE x \in S
      <4>1. CASE x = m
        BY <2>5, <2>8, <4>1
      <4>2. CASE x # m
        BY <2>4, <2>6, <4>2 DEF SameOrder
      <4> QED BY <4>1, <4>2
    <3> QED BY <2>4, <3>1, SameMarks
  <2>10. /\ Mapped' = P!Ranked(ms, S)
         /\ (IF heap' = <<>> THEN NoMeta ELSE heap'[1]) \in P!Roots(Mapped', S)
    BY <2>3, <2>7, <2>9, HeapifyFacts
  <2> QED BY <1>1, <1>4, <1>6, <2>3, <2>10, NobodyWaits
          DEF P!Release, P!doRelease, P!Heapify, ms, Mapped, m, k
<1> QED BY <1>5, <1>6

\* What a successful pick makes of the metadata, there and here.
LEMMA ChargedOrder ==
  ASSUME HeapInv, NEW failed \in SUBSET Elements(heap), NEW m \in Elements(heap) \ failed,
         NEW k \in Nat, NEW ns,
         ns = [Marked(meta, failed, mark + 1) EXCEPT ![m] = Paid(meta, m, k, mark + 1)],
         NEW ms, ms = P!Charged(P!Tried(failed \cup {m}), m, k)
  PROVE  ms \in MarkedData /\ SameOrder(ms, ns, Elements(heap))
<1> DEFINE S == Elements(heap)
           T == failed \cup {m}
           g == P!Tried(T)
           mk == mark + 1
           os == Marked(meta, T, mk)
<1>1. T \in SUBSET S /\ m \in S
  OBVIOUS
<1>2. meta \in MarkedData /\ S \in SUBSET Meta
  BY MappedFacts
<1> HIDE DEF S, g
<1>3. g \in MarkedData /\ SameOrder(g, os, S)
  BY <1>1, TriedOrder DEF S, g
<1>4. ms = [g EXCEPT ![m].load = @ + k]
  BY DEF P!Charged, g
<1>5. m \in Meta /\ meta[m].load \in Int /\ meta[m].load + 0 = meta[m].load
  BY <1>1, <1>2 DEF MarkedData, MetaData
<1>6. /\ os[m].load = meta[m].load /\ os[m].mark = mk
      /\ os[m].maxLoad = profile[EntryOf(m)].max /\ os[m].tier = profile[EntryOf(m)].tier
  <2>1. os[m] = Paid(meta, m, 0, mk)
    BY <1>5 DEF Marked
  <2> QED BY <1>5, <2>1 DEF Paid
<1>7. /\ ns[m].load = meta[m].load + k /\ ns[m].mark = mk
      /\ ns[m].maxLoad = profile[EntryOf(m)].max /\ ns[m].tier = profile[EntryOf(m)].tier
  <2>1. ns[m] = Paid(meta, m, k, mk)
    BY <1>5 DEF Marked
  <2> QED BY <2>1 DEF Paid
<1>8. \A x \in Meta : x # m => ns[x] = os[x]
  BY DEF Marked
<1> HIDE DEF T, mk, os
<1>9. /\ ms[m] \in MetaData /\ ms[m].load = g[m].load + k /\ ms[m].mark = g[m].mark
      /\ ms[m].maxLoad = g[m].maxLoad /\ ms[m].tier = g[m].tier
  <2> DEFINE d == g[m]
             c == d.load + k
  <2>1. d \in MetaData /\ c \in Int
    BY <1>3, <1>5 DEF MarkedData, MetaData
  <2>2. ms[m] = [d EXCEPT !.load = c]
    BY <1>3, <1>4, <1>5 DEF MarkedData
  <2> HIDE DEF d, c
  <2>3. /\ ms[m] \in MetaData /\ ms[m].load = c /\ ms[m].mark = d.mark
        /\ ms[m].maxLoad = d.maxLoad /\ ms[m].tier = d.tier
    BY <2>1, <2>2 DEF MetaData
  <2> QED BY <2>3 DEF d, c
<1>10. \A x \in Meta : x # m => ms[x] = g[x]
  BY <1>3, <1>4 DEF MarkedData
<1>11. ms \in MarkedData
  <2>1. \A x \in Meta : ms[x] \in MetaData /\ ms[x].mark \in Nat
    BY <1>3, <1>5, <1>9, <1>10 DEF MarkedData
  <2>2. ms = [x \in Meta |-> ms[x]]
    BY <1>3, <1>4 DEF MarkedData
  <2> QED BY <2>1, <2>2 DEF MarkedData
<1>12. SameOrder(ms, ns, S)
  <2>1. \A x \in S : /\ ms[x].mark = g[x].mark /\ ns[x].mark = os[x].mark
                     /\ ms[x].load = ns[x].load /\ ms[x].maxLoad = ns[x].maxLoad
                     /\ ms[x].tier = ns[x].tier
    <3> TAKE x \in S
    <3>1. /\ g[x].load = os[x].load /\ g[x].maxLoad = os[x].maxLoad
          /\ g[x].tier = os[x].tier
      BY <1>3 DEF SameOrder
    <3>2. CASE x = m
      BY <1>6, <1>7, <1>9, <3>1, <3>2
    <3>3. CASE x # m
      BY <1>2, <1>8, <1>10, <3>1, <3>3
    <3> QED BY <3>2, <3>3
  <2> DEFINE y == ms
             z == ns
  <2>2. \A x \in S : /\ y[x].mark = g[x].mark /\ z[x].mark = os[x].mark
                     /\ y[x].load = z[x].load /\ y[x].maxLoad = z[x].maxLoad
                     /\ y[x].tier = z[x].tier
    BY <2>1
  <2>3. SameOrder(g, os, S)
    BY <1>3
  <2> HIDE DEF y, z
  <2>4. SameOrder(y, z, S)
    BY <2>2, <2>3, SameMarks
  <2> QED BY <2>4 DEF y, z
<1> QED BY <1>11, <1>12 DEF S

\* PickLoad of the array issues, or gives up, as that of the set may.
LEMMA PickLoadIsPools ==
  ASSUME HeapInv, HeapInv', NEW k \in PickLoads, PickLoad(k)
  PROVE  P!PickLoad(k)
<1> DEFINE S == Elements(heap)
           mk == mark + 1
<1>1. /\ heap # <<>> /\ mark' = mark + 1 /\ UNCHANGED <<profile, canonical>> /\ k \in Nat
  BY LoadAssumption DEF PickLoad
<1>2. PICK pick \in pickLocked(k, mark + 1) :
        /\ Becomes(pick.queue)
        /\ IF pick.got = NoMeta THEN UNCHANGED <<tok, client>>
           ELSE \E t \in Token :
                  /\ tok[t] = Released
                  /\ tok' = [tok EXCEPT ![t] = [meta |-> pick.got, load |-> k]]
                  /\ client' = client \cup {t}
  BY DEF PickLoad
<1>3. SameEntries(Queue, pick.queue) /\ pick.got \in Meta \cup {NoMeta}
  BY <1>1, PickQueue
<1>4. PICK failed \in SUBSET S : PickIs(k, pick, failed)
  BY <1>1, PickIsPools
<1>5. index' = pick.queue.index /\ meta' = pick.queue.meta
  BY <1>2 DEF Becomes
<1>6. S = Elements(heap') /\ S # {}
  <2>1. Shape(Queue) /\ Shape(Queue')
    BY DEF HeapInv
  <2>2. S = {x \in Meta : index[x] # 0} /\ S # {}
    BY <1>1, <2>1, ElementsOfQueue
  <2>3. Elements(heap') = {x \in Meta : index'[x] # 0}
    BY <2>1, ElementsFacts, QueueFields
  <2> QED BY <1>3, <1>5, <2>2, <2>3, QueueFields DEF SameEntries
<1>7. CASE pick.got = NoMeta
  <2> DEFINE ms == P!Tried(failed)
  <2>1. P!PickReturnsNil(k, failed) /\ meta' = Marked(meta, failed, mk)
    BY <1>1, <1>4, <1>5, <1>6, <1>7, ChoiceTerms DEF PickIs
  <2>2. ms \in MarkedData /\ SameOrder(ms, meta', S)
    BY <2>1, TriedOrder
  <2> HIDE DEF ms
  <2>3. /\ Mapped' = P!Ranked(ms, S)
        /\ (IF heap' = <<>> THEN NoMeta ELSE heap'[1]) \in P!Roots(Mapped', S)
    BY <1>6, <2>2, HeapifyFacts
  <2>4. P!NoPick(k, failed)
    BY <1>6, <2>1, <2>3 DEF P!NoPick, P!Heapify, Mapped, ms
  <2> QED BY <1>1, <1>2, <1>7, <2>4 DEF P!PickLoad, P!waitVars
<1>8. CASE pick.got # NoMeta
  <2> DEFINE m == pick.got
             T == failed \cup {m}
             ms == P!Charged(P!Tried(T), m, k)
  <2>1. /\ P!PickChooses(k, failed, m) /\ m \in S \ failed
        /\ meta' = [Marked(meta, failed, mk) EXCEPT ![m] = Paid(meta, m, k, mk)]
    BY <1>1, <1>4, <1>5, <1>6, <1>8, ChoiceTerms DEF PickIs
  <2>2. PICK t \in Token :
          /\ tok[t] = Released
          /\ tok' = [tok EXCEPT ![t] = [meta |-> m, load |-> k]]
          /\ client' = client \cup {t}
    BY <1>2, <1>8
  <2> HIDE DEF m
  <2>3. ms \in MarkedData /\ SameOrder(ms, meta', S)
    BY <1>1, <2>1, ChargedOrder
  <2> HIDE DEF ms
  <2>4. /\ Mapped' = P!Ranked(ms, S)
        /\ (IF heap' = <<>> THEN NoMeta ELSE heap'[1]) \in P!Roots(Mapped', S)
    BY <1>6, <2>3, HeapifyFacts
  <2>5. P!Issue(t, k, m, failed)
    BY <1>6, <2>1, <2>2, <2>4 DEF P!Issue, P!Live, P!Heapify, Released, Mapped, ms
  <2> QED BY <1>1, <2>1, <2>2, <2>5 DEF P!PickLoad, P!waitVars
<1> QED BY <1>7, <1>8

\* The empty array is the empty set.
LEMMA InitIsPools ==
  Init => P!Init
<1> SUFFICES ASSUME Init PROVE P!Init
  OBVIOUS
<1>1. /\ heap = <<>> /\ Elements(heap) = {}
  BY DEF Init, Elements
<1> QED BY <1>1 DEF Init, P!Init, P!Meta, Meta, P!Blank, Blank, P!Released, Released

\* Every step of the array is a step of Pool's set, or none of it.
THEOREM ImplementsPool == Spec => PoolSpec
<1>1. HeapInv /\ HeapInv' /\ [Next]_vars => [P!Next]_(P!vars)
  <2> SUFFICES ASSUME HeapInv, HeapInv', [Next]_vars PROVE [P!Next]_(P!vars)
    OBVIOUS
  <2>1. CASE UNCHANGED vars
    <3>1. Mapped' = Mapped
      BY <2>1 DEF vars, Mapped, RankOf
    <3> QED BY <2>1, <3>1 DEF vars, P!vars, P!poolVars, P!tokenVars, P!waitVars, Mapped
  <2>2. ASSUME NEW e \in Entry, NEW p \in Profile, Retune(e, p) PROVE P!Next
    BY <2>2, RetuneIsPools DEF P!Next
  <2>3. ASSUME NEW e \in Entry, NEW m \in Meta, Add(e, m) PROVE P!Next
    BY <2>3, AddIsPools DEF P!Next, P!Meta, Meta
  <2>4. ASSUME NEW e \in Entry, Remove(e) PROVE P!Next
    BY <2>4, RemoveIsPools DEF P!Next
  <2>5. ASSUME Rebalance PROVE P!Next
    BY <2>5, RebalanceIsPools DEF P!Next
  <2>6. ASSUME NEW k \in PickLoads, PickLoad(k) PROVE P!Next
    BY <2>6, PickLoadIsPools DEF P!Next
  <2>7. ASSUME NEW t \in Token, Release(t) PROVE P!Next
    BY <2>7, ReleaseIsPools DEF P!Next
  <2> QED BY <2>1, <2>2, <2>3, <2>4, <2>5, <2>6, <2>7 DEF Next
<1> QED BY <1>1, InitIsPools, HeapInvariant, PTL DEF Spec, PoolSpec, P!Spec

=============================================================================
