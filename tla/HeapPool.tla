------------------------------ MODULE HeapPool ------------------------------
(***************************************************************************)
(* The priority queue of pkg/pool as it is stored: an array kept in heap   *)
(* order by container/heap, the index each entryMeta keeps of its place in *)
(* it, and the mark counter.  The operations are those of Pool, called one *)
(* at a time and without Wait; each is the sequence of queue updates the   *)
(* code makes, computed on a record h of the queue's data.                 *)
(*                                                                         *)
(* Places are counted from 1 here, from 0 in the code.                     *)
(***************************************************************************)
EXTENDS Integers, FiniteSets, Sequences

CONSTANTS
  Entry, Gen, Token, Profile, PickLoads, NoMeta,   \* as in Pool
  MaxMark     \* bound: the picks made in a behaviour

ASSUME ProfileAssumption == Profile \subseteq [max : Int, tier : Int]
ASSUME LoadAssumption == PickLoads \subseteq Nat

Meta == Entry \X Gen
ASSUME MetaAssumption == IsFiniteSet(Meta) /\ NoMeta \notin Meta
EntryOf(m) == m[1]
notInPQueue == 0

VARIABLES
  profile,    \* what MaxLoad() and Tier() of each entry return now
  canonical,  \* p.mu.canonical
  heap,       \* p.mu.q, a sequence of Meta
  index,      \* entryMeta.index
  meta,       \* entryMeta.mu
  mark,       \* p.mu.mark
  tok, client

vars == <<profile, canonical, heap, index, meta, mark, tok, client>>

Blank == [load |-> 0, mark |-> 0, maxLoad |-> 0, tier |-> 0]
Released == [meta |-> NoMeta, load |-> 0]
Elements(s) == {s[i] : i \in DOMAIN s}

costLowerThan(ms, a, b) ==
  LET over(m) == ms[m].load >= ms[m].maxLoad
  IN IF over(a) # over(b) THEN over(b)
     ELSE \/ ms[a].tier < ms[b].tier
          \/ /\ ms[a].tier = ms[b].tier
             /\ \/ ms[a].load < ms[b].load
                \/ ms[a].load = ms[b].load /\ ms[a].mark < ms[b].mark

-----------------------------------------------------------------------------
(***************************************************************************)
(* heap.Interface, and container/heap on top of it                         *)
(***************************************************************************)
Less(h, i, j) == costLowerThan(h.meta, h.heap[i], h.heap[j])

\* Mutant of Swap: only one of the two learns its place.
SwapHalf(h, i, j) ==
  [h EXCEPT !.heap = [@ EXCEPT ![i] = h.heap[j], ![j] = h.heap[i]],
            !.index = [@ EXCEPT ![h.heap[j]] = i]]

Swap(h, i, j) ==
  [h EXCEPT !.heap = [@ EXCEPT ![i] = h.heap[j], ![j] = h.heap[i]],
            !.index = [@ EXCEPT ![h.heap[j]] = i, ![h.heap[i]] = j]]

\* One round of the loops of up and down, on the queue and the place they are
\* at; a round after the loop has ended changes nothing.
UpRound(s) ==
  LET i == s.at \div 2
  IN IF s.at = 1 \/ ~Less(s.queue, s.at, i) THEN s
     ELSE [queue |-> Swap(s.queue, i, s.at), at |-> i]

\* Among the first n elements only.
DownRound(s, n) ==
  LET i == s.at
      least == IF 2 * i + 1 <= n /\ Less(s.queue, 2 * i + 1, 2 * i)
               THEN 2 * i + 1 ELSE 2 * i
  IN IF 2 * i > n \/ ~Less(s.queue, least, i) THEN s
     ELSE [queue |-> Swap(s.queue, i, least), at |-> least]

up(h, j) ==
  LET after[k \in 0..j] == IF k = 0 THEN [queue |-> h, at |-> j] ELSE UpRound(after[k - 1])
  IN after[j].queue

down(h, i, n) ==
  LET after[k \in 0..n] == IF k = 0 THEN [queue |-> h, at |-> i]
                                   ELSE DownRound(after[k - 1], n)
  IN after[n]

\* down reports a move; only an element that stayed may have to go up.
Sift(h, i, n) ==
  LET moved == down(h, i, n)
  IN IF moved.at # i THEN moved.queue ELSE up(h, i)

Fix(h, i) == Sift(h, i, Len(h.heap))

Push(h, m) ==
  LET n == Len(h.heap) + 1
  IN up([h EXCEPT !.heap = Append(@, m), !.index = [@ EXCEPT ![m] = n]], n)

Pop(h) ==
  LET n == Len(h.heap)
  IN [h EXCEPT !.heap = SubSeq(@, 1, n - 1),
               !.index = [@ EXCEPT ![h.heap[n]] = notInPQueue]]

HeapRemove(h, i) ==
  LET n == Len(h.heap)
  IN Pop(IF i = n THEN h ELSE Sift(Swap(h, i, n), i, n - 1))

\* The places that have children, from the last to the first.
HeapInit(h) ==
  LET n == Len(h.heap)
      after[k \in 0..(n \div 2)] ==
        IF k = 0 THEN h ELSE down(after[k - 1], n \div 2 + 1 - k, n).queue
  IN after[n \div 2]

-----------------------------------------------------------------------------
(***************************************************************************)
(* entryPQueue                                                             *)
(***************************************************************************)
Sample(r, m) == [r EXCEPT !.maxLoad = profile[EntryOf(m)].max,
                          !.tier = profile[EntryOf(m)].tier]

add(h, m) ==
  Push([h EXCEPT !.meta = [@ EXCEPT ![m] = Sample(Blank, m)]], m)

\* The boolean result of update.
Fits(h, m, delta) ==
  delta <= 0 \/ h.meta[m].load + delta <= profile[EntryOf(m)].max

\* Mutant of update: no heap.Fix.
updateInPlace(h, m, delta, mk) ==
  LET load == h.meta[m].load + (IF Fits(h, m, delta) THEN delta ELSE 0)
      r == [Sample(h.meta[m], m) EXCEPT !.load = load, !.mark = mk]
  IN [h EXCEPT !.meta = [@ EXCEPT ![m] = r]]

update(h, m, delta, mk) ==
  LET load == h.meta[m].load + (IF Fits(h, m, delta) THEN delta ELSE 0)
      r == [Sample(h.meta[m], m) EXCEPT !.load = load, !.mark = mk]
  IN Fix([h EXCEPT !.meta = [@ EXCEPT ![m] = r]], h.index[m])

updateAll(h) ==
  HeapInit([h EXCEPT !.meta =
    [m \in Meta |-> IF h.index[m] = notInPQueue THEN @[m] ELSE Sample(@[m], m)]])

Queue == [heap |-> heap, index |-> index, meta |-> meta]
Becomes(h) == heap' = h.heap /\ index' = h.index /\ meta' = h.meta

-----------------------------------------------------------------------------
(***************************************************************************)
(* Pool                                                                    *)
(***************************************************************************)
\* What sort.Slice may make of s; it may leave equals in any order.
Sorted(h, s) ==
  {p \in [DOMAIN s -> Elements(s)] :
     /\ Elements(p) = Elements(s)
     /\ \A i, j \in DOMAIN p : i < j => ~costLowerThan(h.meta, p[j], p[i])}

\* The slow path's loop: the queue it leaves and the entry it found.
TryOne(s, m, k, mk) ==
  IF s.got # NoMeta THEN s
  ELSE [queue |-> update(s.queue, m, k, mk),
        got |-> IF Fits(s.queue, m, k) THEN m ELSE NoMeta]

TryInTurn(h, sorted, k, mk) ==
  LET after[i \in 0..Len(sorted)] ==
        IF i = 0 THEN [queue |-> h, got |-> NoMeta]
                 ELSE TryOne(after[i - 1], sorted[i], k, mk)
  IN after[Len(sorted)]

\* Mutant of pickLocked: no slow path.
pickLockedTopOnly(k, mk) ==
  {[queue |-> update(Queue, heap[1], k, mk),
    got |-> IF Fits(Queue, heap[1], k) THEN heap[1] ELSE NoMeta]}

\* What pickLocked may do; q[1:] is copied after the first update.
pickLocked(k, mk) ==
  LET top == heap[1]
      first == update(Queue, top, k, mk)
  IN IF Fits(Queue, top, k) THEN {[queue |-> first, got |-> top]}
     ELSE {TryInTurn(first, sorted, k, mk) :
             sorted \in Sorted(first, Tail(first.heap))}

Retune(e, p) ==
  /\ profile[e] # p
  /\ profile' = [profile EXCEPT ![e] = p]
  /\ UNCHANGED <<canonical, heap, index, meta, mark, tok, client>>

Add(e, m) ==
  /\ canonical[e] = NoMeta
  /\ EntryOf(m) = e
  /\ \A t \in Token : tok[t].meta # m
  /\ canonical' = [canonical EXCEPT ![e] = m]
  /\ Becomes(add(Queue, m))
  /\ UNCHANGED <<profile, mark, tok, client>>

Remove(e) ==
  /\ canonical[e] # NoMeta
  /\ canonical' = [canonical EXCEPT ![e] = NoMeta]
  /\ Becomes([HeapRemove(Queue, index[canonical[e]])
                EXCEPT !.meta = [@ EXCEPT ![canonical[e]] = Blank]])
  /\ UNCHANGED <<profile, mark, tok, client>>

Rebalance ==
  /\ Becomes(updateAll(Queue))
  /\ UNCHANGED <<profile, canonical, mark, tok, client>>

PickLoad(k) ==
  /\ heap # <<>> /\ mark < MaxMark
  /\ mark' = mark + 1
  /\ \E pick \in pickLocked(k, mark + 1) :
       /\ Becomes(pick.queue)
       /\ IF pick.got = NoMeta THEN UNCHANGED <<tok, client>>
          ELSE \E t \in Token :
                 /\ tok[t] = Released
                 /\ tok' = [tok EXCEPT ![t] = [meta |-> pick.got, load |-> k]]
                 /\ client' = client \cup {t}
  /\ UNCHANGED <<profile, canonical>>

Release(t) ==
  LET m == tok[t].meta
      k == tok[t].load
  IN /\ t \in client
     /\ client' = client \ {t}
     /\ tok' = [tok EXCEPT ![t] = Released]
     /\ IF k > 0 /\ index[m] # notInPQueue
        THEN Becomes(update(Queue, m, -k, meta[m].mark))
        ELSE UNCHANGED <<heap, index, meta>>
     /\ UNCHANGED <<profile, canonical, mark>>

Init ==
  /\ profile \in [Entry -> Profile]
  /\ canonical = [e \in Entry |-> NoMeta]
  /\ heap = <<>>
  /\ index = [m \in Meta |-> notInPQueue]
  /\ meta = [m \in Meta |-> Blank]
  /\ mark = 0
  /\ tok = [t \in Token |-> Released]
  /\ client = {}

Next ==
  \/ \E e \in Entry : \/ \E p \in Profile : Retune(e, p)
                      \/ \E m \in Meta : Add(e, m)
                      \/ Remove(e)
  \/ Rebalance
  \/ \E k \in PickLoads : PickLoad(k)
  \/ \E t \in Token : Release(t)

Spec == Init /\ [][Next]_vars

-----------------------------------------------------------------------------
\* The array is a heap, and every entryMeta knows its place in it: a stale
\* index would make update repair, and remove discard, another entry's place.
HeapShape ==
  /\ \A i \in DOMAIN heap : i > 1 => ~Less(Queue, i, i \div 2)
  /\ \A i \in DOMAIN heap : index[heap[i]] = i
  /\ \A m \in Meta : index[m] # notInPQueue =>
       index[m] \in DOMAIN heap /\ heap[index[m]] = m

\* The array implements the set of Pool, whose root is its first element,
\* and the counter the ranks that Pool compares.
RankOf(m) ==
  IF meta[m].mark = 0 THEN 0
  ELSE 1 + Cardinality({x \in Elements(heap) :
                          0 < meta[x].mark /\ meta[x].mark < meta[m].mark})

P == INSTANCE Pool WITH
       q <- Elements(heap),
       root <- IF heap = <<>> THEN NoMeta ELSE heap[1],
       meta <- [m \in Meta |-> IF m \in Elements(heap)
                               THEN [meta[m] EXCEPT !.mark = RankOf(m)]
                               ELSE Blank],
       Waiter <- {}, WaitLoads <- {}, NoToken <- NoMeta, garbage <- {},
       goroutine <- <<>>, caller <- <<>>, cancelled <- <<>>, want <- <<>>,
       picked <- <<>>

PoolSpec == P!Spec

\* The slow path leaves one entry out, and no more: a pick that comes back
\* with nothing, or with a costlier entry than it had to, passed over at most
\* one entry that had room for the load.
PassesOverAtMostOne ==
  [][\A k \in PickLoads : PickLoad(k) =>
       LET got == {m \in Meta : \E t \in Token : tok'[t].meta = m /\ tok[t] = Released}
       IN Cardinality({x \in Elements(heap) :
            /\ Fits(Queue, x, k)
            /\ \A m \in got : costLowerThan(meta, x, m)}) <= 1]_vars
=============================================================================
