-------------------------------- MODULE Pool --------------------------------
(***************************************************************************)
(* The load-limiting pool of pkg/pool: a priority queue of entries, tokens *)
(* that account for the load placed on an entry, a finalizer that takes    *)
(* back the tokens a caller forgot, and Wait, the blocking form of Pick.   *)
(*                                                                         *)
(* Every exported method holds p.mu from its first read to its last write, *)
(* so each is one action.  Wait is not: its goroutine and its caller meet  *)
(* on a channel, and their steps interleave with everything else.          *)
(*                                                                         *)
(* Two data abstractions.  The min-heap is the set q with its first        *)
(* element, root: container/heap promises only that root costs no more     *)
(* than any other element (HeapPool models the array).  A mark is its rank *)
(* among the marks in the queue: marks are only ever compared.             *)
(***************************************************************************)
EXTENDS Integers, FiniteSets

CONSTANTS
  Entry,      \* the user-provided values that can be enrolled
  Gen,        \* tells the successive *entryMeta of one Entry apart
  Token,      \* the token objects that exist at a time
  Waiter,     \* the concurrent calls of Wait
  Profile,    \* what MaxLoad() and Tier() may return: [max, tier] records
  PickLoads,  \* loads requested with PickLoad; 0 is Peek
  WaitLoads,  \* loads requested with Wait
  NoMeta, NoToken

Meta == Entry \X Gen                  \* the *entryMeta objects
EntryOf(m) == m[1]

ASSUME MetaAssumption ==
  IsFiniteSet(Meta) /\ NoMeta \notin Meta
ASSUME TokenAssumption ==
  IsFiniteSet(Token) /\ NoToken \notin Token
ASSUME LoadAssumption ==
  PickLoads \subseteq Nat /\ WaitLoads \subseteq Nat
ASSUME ProfileAssumption ==
  Profile \subseteq [max : Int, tier : Int]

VARIABLES
  profile,    \* what MaxLoad() and Tier() of each entry return now
  canonical,  \* p.mu.canonical: the entryMeta of each enrolled Entry
  q, root,    \* p.mu.q as a set, and p.mu.q[0]
  meta,       \* entryMeta.mu: load, mark and the maxLoad and tier snapshots
  tok,        \* Token.mu.entry and -Token.release; Released when entry is nil
  client,     \* the tokens the users of the pool can reach
  garbage,    \* unreachable unreleased tokens, whose finalizer has to run
  goroutine,  \* where the goroutine of each Wait call is
  caller,     \* where its caller is, or what it returned
  cancelled,  \* whether its context is done
  want,       \* the load it asks for
  picked      \* the token its goroutine holds

poolVars == <<profile, canonical, q, root, meta>>
tokenVars == <<tok, client, garbage>>
waitVars == <<goroutine, caller, cancelled, want, picked>>
vars == <<poolVars, tokenVars, waitVars>>

Blank == [load |-> 0, mark |-> 0, maxLoad |-> 0, tier |-> 0]
Released == [meta |-> NoMeta, load |-> 0]

Live(t) == tok[t].meta # NoMeta

-----------------------------------------------------------------------------
(***************************************************************************)
(* Cost order, heap and marks                                              *)
(***************************************************************************)
Overloaded(ms, m) == ms[m].load >= ms[m].maxLoad

costLowerThan(ms, a, b) ==
  IF Overloaded(ms, a) # Overloaded(ms, b) THEN Overloaded(ms, b)
  ELSE \/ ms[a].tier < ms[b].tier
       \/ /\ ms[a].tier = ms[b].tier
          /\ \/ ms[a].load < ms[b].load
             \/ ms[a].load = ms[b].load /\ ms[a].mark < ms[b].mark

\* What the first element of a heap of S may be.
Roots(ms, S) ==
  IF S = {} THEN {NoMeta}
  ELSE {m \in S : \A x \in S : ~costLowerThan(ms, x, m)}

\* Mutant of NextMark: the counter stands still.
NextMarkUnmoved == 0

\* The value of p.mu.mark++, above every mark in use; Ranked brings the marks
\* of the queue back to their ranks.  0 is the mark of an entry never tried.
NextMark == 1 + Cardinality(Meta)

Rank(ms, S, m) ==
  IF ms[m].mark = 0 THEN 0
  ELSE 1 + Cardinality({x \in S : 0 < ms[x].mark /\ ms[x].mark < ms[m].mark})

Ranked(ms, S) ==
  [m \in Meta |-> IF m \in S THEN [ms[m] EXCEPT !.mark = Rank(ms, S, m)]
                             ELSE Blank]

\* Mutant of Heapify: the first element stays first.
HeapifyLeavesRoot(ms, S) ==
  /\ q' = S
  /\ meta' = Ranked(ms, S)
  /\ IF root = NoMeta THEN root' \in Roots(meta', S) ELSE root' = root

\* The queue is now S, with the metadata ms, restored to a heap.
Heapify(ms, S) ==
  /\ q' = S
  /\ meta' = Ranked(ms, S)
  /\ root' \in Roots(meta', S)

\* The snapshots of MaxLoad() and Tier() taken by update and updateAll.
Sampled(m) == [meta[m] EXCEPT !.maxLoad = profile[EntryOf(m)].max,
                              !.tier = profile[EntryOf(m)].tier]

\* Mutant of Broadcast: wakes one waiter.
Signal(g) ==
  LET parked == {w \in Waiter : g[w] = "cond"}
  IN IF parked = {} THEN g
     ELSE [g EXCEPT ![CHOOSE w \in parked : TRUE] = "lock"]

Broadcast(g) == [w \in Waiter |-> IF g[w] = "cond" THEN "lock" ELSE g[w]]

-----------------------------------------------------------------------------
(***************************************************************************)
(* pickLocked                                                              *)
(***************************************************************************)
\* Mutant of HasRoom: one unit too many.
HasRoomForOneMore(m, k) == k <= 0 \/ meta[m].load + k <= profile[EntryOf(m)].max + 1

\* Mutant of HasRoom: one unit too few.
HasRoomStrictly(m, k) == k <= 0 \/ meta[m].load + k < profile[EntryOf(m)].max

HasRoom(m, k) == k <= 0 \/ meta[m].load + k <= profile[EntryOf(m)].max

\* The metadata once update was called with a fresh mark on the entries of S.
Tried(S) == [m \in Meta |-> IF m \in S THEN [Sampled(m) EXCEPT !.mark = NextMark]
                                       ELSE meta[m]]

\* The slow path leaves out the element that is first when it copies q[1:]:
\* the first update may already have moved another entry there.
Skippable == Roots(Tried({root}), q)

\* pickLocked calls update on the entries of failed, in vain, then on m.
PickChooses(k, failed, m) ==
  \/ m = root /\ HasRoom(root, k) /\ failed = {}
  \/ /\ ~HasRoom(root, k)
     /\ root \in failed
     /\ \E skipped \in Skippable :
          LET sorted == q \ {skipped, root}
              Before(x, y) == costLowerThan(Tried({root}), x, y)
          IN /\ m \in sorted /\ HasRoom(m, k)
             /\ failed \subseteq {root} \cup {x \in sorted : ~HasRoom(x, k)}
             /\ \A x \in sorted : Before(x, m) => x \in failed
             /\ \A x \in failed \ {root} : ~Before(m, x)

\* pickLocked returns nil after calling update on the entries of failed.
PickReturnsNil(k, failed) ==
  \/ q = {} /\ failed = {}
  \/ /\ q # {} /\ ~HasRoom(root, k)
     /\ \E skipped \in Skippable :
          /\ failed = {root} \cup (q \ {skipped})
          /\ \A x \in failed : ~HasRoom(x, k)

\* Mutant of Charged: counts tokens instead of load.
ChargedOne(ms, m, k) == [ms EXCEPT ![m].load = @ + (IF k > 0 THEN 1 ELSE 0)]

Charged(ms, m, k) == [ms EXCEPT ![m].load = @ + k]

\* Token t is made for entry m: newToken after a successful update.
Issue(t, k, m, failed) ==
  /\ ~Live(t)
  /\ q # {} /\ failed \subseteq q
  /\ PickChooses(k, failed, m)
  /\ tok' = [tok EXCEPT ![t] = [meta |-> m, load |-> k]]
  /\ Heapify(Charged(Tried(failed \cup {m}), m, k), q)

NoPick(k, failed) ==
  /\ failed \subseteq q
  /\ PickReturnsNil(k, failed)
  /\ Heapify(Tried(failed), q)

\* doRelease, with g the goroutines as the releasing step leaves them.
doRelease(t, g) ==
  LET m == tok[t].meta
      k == tok[t].load
  IN /\ tok' = [tok EXCEPT ![t] = Released]
     /\ IF k > 0 /\ m \in q
        THEN /\ Heapify([meta EXCEPT ![m] = [Sampled(m) EXCEPT !.load = @ - k]], q)
             /\ goroutine' = Broadcast(g)
        ELSE /\ UNCHANGED <<q, root, meta>>
             /\ goroutine' = g

-----------------------------------------------------------------------------
(***************************************************************************)
(* Operations of the users of the pool                                     *)
(***************************************************************************)
\* External: an entry changes its mind, without telling the pool.
Retune(e, p) ==
  /\ profile[e] # p
  /\ profile' = [profile EXCEPT ![e] = p]
  /\ UNCHANGED <<canonical, q, root, meta, tokenVars, waitVars>>

\* The metadata object is a new one: no token refers to it yet.
Add(e, m) ==
  /\ canonical[e] = NoMeta
  /\ EntryOf(m) = e /\ m \notin q
  /\ \A t \in Token : tok[t].meta # m
  /\ canonical' = [canonical EXCEPT ![e] = m]
  /\ Heapify([meta EXCEPT ![m] = [load |-> 0, mark |-> 0,
                                  maxLoad |-> profile[e].max,
                                  tier |-> profile[e].tier]], q \cup {m})
  /\ goroutine' = Broadcast(goroutine)
  /\ UNCHANGED <<profile, tokenVars, caller, cancelled, want, picked>>

\* Mutant of Remove: the entry stays in the canonical map.
RemoveFromQueueOnly(e) ==
  /\ canonical[e] \in q
  /\ Heapify(meta, q \ {canonical[e]})
  /\ UNCHANGED <<profile, canonical, tokenVars, waitVars>>

Remove(e) ==
  /\ canonical[e] # NoMeta
  /\ canonical' = [canonical EXCEPT ![e] = NoMeta]
  /\ Heapify(meta, q \ {canonical[e]})
  /\ UNCHANGED <<profile, tokenVars, waitVars>>

\* Mutant of Rebalance: no wake-up.
RebalanceSilently ==
  /\ Heapify([m \in Meta |-> Sampled(m)], q)
  /\ UNCHANGED <<profile, canonical, tokenVars, waitVars>>

Rebalance ==
  /\ Heapify([m \in Meta |-> Sampled(m)], q)
  /\ goroutine' = Broadcast(goroutine)
  /\ UNCHANGED <<profile, canonical, tokenVars, caller, cancelled, want, picked>>

PickLoad(k) ==
  /\ \/ \E t \in Token, m \in q, failed \in SUBSET q :
          /\ Issue(t, k, m, failed)
          /\ client' = client \cup {t}
     \/ /\ \E failed \in SUBSET q : NoPick(k, failed)
        /\ UNCHANGED <<tok, client>>
  /\ UNCHANGED <<profile, canonical, garbage, waitVars>>

\* The first Release of a token; the later ones find a nil entry and return.
Release(t) ==
  /\ t \in client
  /\ doRelease(t, goroutine)
  /\ client' = client \ {t}
  /\ UNCHANGED <<profile, canonical, garbage, caller, cancelled, want, picked>>

\* The last reference to an unreleased token goes away.  newToken sets a
\* finalizer only when the token has a load.
Drop(t) ==
  /\ t \in client
  /\ client' = client \ {t}
  /\ IF tok[t].load > 0
     THEN garbage' = garbage \cup {t} /\ UNCHANGED tok
     ELSE tok' = [tok EXCEPT ![t] = Released] /\ UNCHANGED garbage
  /\ UNCHANGED <<poolVars, waitVars>>

tokenFinalizer(t) ==
  /\ t \in garbage
  /\ doRelease(t, goroutine)
  /\ garbage' = garbage \ {t}
  /\ UNCHANGED <<profile, canonical, client, caller, cancelled, want, picked>>

-----------------------------------------------------------------------------
(***************************************************************************)
(* Wait.  goroutine: none, lock (about to pick), cond (parked), offer (in  *)
(* the select), close (about to close ch), done.  caller: idle, select, or *)
(* what it returned: a token, ctx.Err() or, from the closed channel, nil.  *)
(***************************************************************************)
Wait(w, k) ==
  /\ caller[w] = "idle"
  /\ caller' = [caller EXCEPT ![w] = "select"]
  /\ goroutine' = [goroutine EXCEPT ![w] = "lock"]
  /\ want' = [want EXCEPT ![w] = k]
  /\ UNCHANGED <<poolVars, tokenVars, cancelled, picked>>

Cancel(w) ==
  /\ caller[w] # "idle" /\ ~cancelled[w]
  /\ cancelled' = [cancelled EXCEPT ![w] = TRUE]
  /\ UNCHANGED <<poolVars, tokenVars, goroutine, caller, want, picked>>

\* Mutant of AfterMiss: one turn is enough.
AfterMissLeave(w) == "close"

\* After a pick in vain: leave the loop, or park.
AfterMiss(w) == IF cancelled[w] THEN "close" ELSE "cond"

\* A turn of the loop under the lock; p.mu is free again when it parks.
TryPick(w) ==
  /\ goroutine[w] = "lock"
  /\ \/ \E t \in Token, m \in q, failed \in SUBSET q :
          /\ Issue(t, want[w], m, failed)
          /\ picked' = [picked EXCEPT ![w] = t]
          /\ goroutine' = [goroutine EXCEPT ![w] = "offer"]
     \/ /\ \E failed \in SUBSET q : NoPick(want[w], failed)
        /\ goroutine' = [goroutine EXCEPT ![w] = AfterMiss(w)]
        /\ UNCHANGED <<tok, picked>>
  /\ UNCHANGED <<profile, canonical, client, garbage, caller, cancelled, want>>

\* ch <- picked meets picked := <-ch.
Deliver(w) ==
  /\ goroutine[w] = "offer" /\ caller[w] = "select"
  /\ client' = client \cup {picked[w]}
  /\ picked' = [picked EXCEPT ![w] = NoToken]
  /\ goroutine' = [goroutine EXCEPT ![w] = "close"]
  /\ caller' = [caller EXCEPT ![w] = "token"]
  /\ UNCHANGED <<poolVars, tok, garbage, cancelled, want>>

\* Mutant of Abandon: the token is forgotten.
AbandonToken(w) ==
  /\ goroutine[w] = "offer" /\ cancelled[w]
  /\ goroutine' = [goroutine EXCEPT ![w] = "close"]
  /\ picked' = [picked EXCEPT ![w] = NoToken]
  /\ UNCHANGED <<poolVars, tokenVars, caller, cancelled, want>>

\* <-ctx.Done() in the goroutine.
Abandon(w) ==
  /\ goroutine[w] = "offer" /\ cancelled[w]
  /\ doRelease(picked[w], [goroutine EXCEPT ![w] = "close"])
  /\ picked' = [picked EXCEPT ![w] = NoToken]
  /\ UNCHANGED <<profile, canonical, client, garbage, caller, cancelled, want>>

Close(w) ==
  /\ goroutine[w] = "close"
  /\ goroutine' = [goroutine EXCEPT ![w] = "done"]
  /\ UNCHANGED <<poolVars, tokenVars, caller, cancelled, want, picked>>

\* The caller's select: <-ctx.Done(), or a receive from the closed channel.
Return(w) ==
  /\ caller[w] = "select"
  /\ \/ cancelled[w] /\ caller' = [caller EXCEPT ![w] = "error"]
     \/ goroutine[w] = "done" /\ caller' = [caller EXCEPT ![w] = "nothing"]
  /\ UNCHANGED <<poolVars, tokenVars, goroutine, cancelled, want, picked>>

\* The call is over and its goroutine gone: w may stand for another call.
Forget(w) ==
  /\ caller[w] \in {"token", "error", "nothing"} /\ goroutine[w] = "done"
  /\ caller' = [caller EXCEPT ![w] = "idle"]
  /\ goroutine' = [goroutine EXCEPT ![w] = "none"]
  /\ cancelled' = [cancelled EXCEPT ![w] = FALSE]
  /\ want' = [want EXCEPT ![w] = 0]
  /\ UNCHANGED <<poolVars, tokenVars, picked>>

-----------------------------------------------------------------------------
Init ==
  /\ profile \in [Entry -> Profile]
  /\ canonical = [e \in Entry |-> NoMeta]
  /\ q = {} /\ root = NoMeta
  /\ meta = [m \in Meta |-> Blank]
  /\ tok = [t \in Token |-> Released]
  /\ client = {} /\ garbage = {}
  /\ goroutine = [w \in Waiter |-> "none"]
  /\ caller = [w \in Waiter |-> "idle"]
  /\ cancelled = [w \in Waiter |-> FALSE]
  /\ want = [w \in Waiter |-> 0]
  /\ picked = [w \in Waiter |-> NoToken]

WaitStep(w) ==
  \/ TryPick(w) \/ Deliver(w) \/ Abandon(w) \/ Close(w) \/ Return(w) \/ Forget(w)

Next ==
  \/ \E e \in Entry : \/ \E p \in Profile : Retune(e, p)
                      \/ \E m \in Meta : Add(e, m)
                      \/ Remove(e)
  \/ Rebalance
  \/ \E k \in PickLoads : PickLoad(k)
  \/ \E t \in Token : Release(t) \/ Drop(t) \/ tokenFinalizer(t)
  \/ \E w \in Waiter : \/ \E k \in WaitLoads : Wait(w, k)
                       \/ Cancel(w)
                       \/ WaitStep(w)

Spec == Init /\ [][Next]_vars

-----------------------------------------------------------------------------
(***************************************************************************)
(* Properties                                                              *)
(***************************************************************************)
Units(m) == UNION {{t} \X (1..tok[t].load) : t \in {u \in Token : tok[u].meta = m}}
Outstanding(m) == Cardinality(Units(m))

TypeOK ==
  /\ profile \in [Entry -> [max : Int, tier : Int]]
  /\ canonical \in [Entry -> Meta \cup {NoMeta}]
  /\ q \in SUBSET Meta
  /\ root \in q \cup {NoMeta}
  /\ meta \in [Meta -> [load : Int, mark : Nat, maxLoad : Int, tier : Int]]
  /\ tok \in [Token -> [meta : Meta \cup {NoMeta}, load : Nat]]
  /\ client \in SUBSET Token
  /\ garbage \in SUBSET Token
  /\ goroutine \in [Waiter -> {"none", "lock", "cond", "offer", "close", "done"}]
  /\ caller \in [Waiter -> {"idle", "select", "token", "error", "nothing"}]
  /\ cancelled \in [Waiter -> BOOLEAN]
  /\ want \in [Waiter -> Nat]
  /\ picked \in [Waiter -> Token \cup {NoToken}]

\* The canonical map and the queue hold the same objects, at most one for an
\* entry (Add, Remove): no entry is picked after Remove or enrolled twice.
RegistryInSync ==
  /\ \A e \in Entry : canonical[e] # NoMeta =>
       canonical[e] \in q /\ EntryOf(canonical[e]) = e
  /\ \A m \in q : canonical[EntryOf(m)] = m
  /\ q # {} => root \in q

\* The load counter of an enrolled entry is what its unreleased tokens add
\* up to, whichever of Release, the finalizer, an abandoned Wait and Remove
\* came first: update and doRelease neither leak nor free a load twice.
LoadAccounting == \A m \in q : meta[m].load = Outstanding(m)

\* Every unreleased token is with exactly one owner that can still release
\* it: a client, the finalizer queue, or the goroutine of one Wait call.
TokenOwnership ==
  /\ client \cap garbage = {}
  /\ \A w \in Waiter : (goroutine[w] = "offer") <=> (picked[w] # NoToken)
  /\ \A v, w \in Waiter : picked[v] = picked[w] => v = w \/ picked[v] = NoToken
  /\ \A t \in Token :
       Live(t) <=> \/ t \in client \cup garbage
                   \/ \E w \in Waiter : picked[w] = t
  /\ \A w \in Waiter : picked[w] \notin client \cup garbage

\* A call of Wait comes back with a token or with its context done: nobody
\* gets (nil, nil) from a channel closed for another reason.
NilReturnOnlyWhenCancelled ==
  \A w \in Waiter : caller[w] = "nothing" => cancelled[w]

\* Room for a parked Wait never appears unless its goroutine is woken, but
\* for an entry that changes MaxLoad() behind the pool's back: Add, Release
\* and the finalizer reach every waiter, whatever load it asks for.
NoSleepThroughFreedRoom ==
  [][\A w \in Waiter, m \in Meta :
       /\ goroutine[w] = "cond" /\ goroutine'[w] = "cond"
       /\ profile' = profile
       /\ m \in q' /\ HasRoom(m, want[w])'
       => m \in q /\ HasRoom(m, want[w])]_vars

\* The pool implements the ledger of tokens: above all, a token is issued
\* only when everything that is out on the entry then fits its MaxLoad().
Ledger == INSTANCE TokenLedger WITH
            capacity <- [e \in Entry |-> profile[e].max],
            enrolled <- q,
            Load <- PickLoads \cup WaitLoads

LedgerSpec == Ledger!Spec

-----------------------------------------------------------------------------
(***************************************************************************)
(* Liveness.  Runnable goroutines run, p.mu is granted in turn, a ticker   *)
(* calls Rebalance (frontend.go starts one for each pool), and the garbage *)
(* collector gets to every finalizer.  Nothing is assumed of the clients.  *)
(***************************************************************************)
Fairness ==
  /\ \A w \in Waiter : /\ SF_vars(TryPick(w))
                      /\ WF_vars(Deliver(w) \/ Abandon(w))
                      /\ WF_vars(Close(w))
                      /\ WF_vars(Return(w))
  /\ WF_vars(Rebalance)
  /\ \A t \in Token : WF_vars(tokenFinalizer(t))

FairSpec == Spec /\ Fairness

\* The clients return what they hold, from some time on nobody else asks for
\* a token, and entries neither change nor come and go, one of them large
\* enough for what w wants.
ClientsReturn == \A t \in Token : []<>(t \notin client)
DemandEnds == <>[][\A t \in Token : ~Live(t) /\ Live(t)' =>
                      \E w \in Waiter : picked[w] # picked'[w]]_vars
NoNewCalls == <>[][\A w \in Waiter : ~(caller[w] = "idle" /\ caller'[w] = "select")]_vars
SuitedFor(w) ==
  <>[](\E e \in Entry : canonical[e] # NoMeta /\ profile[e].max >= want[w])
EntriesSettle == <>[][profile' = profile /\ canonical' = canonical]_vars

\* Every Wait call comes back once some entry suits it: no wake-up is lost
\* for good, the entry that the slow path leaves out is found in a later
\* round, and waiters of different loads do not keep each other parked.
WaiterServed ==
  ClientsReturn /\ DemandEnds /\ NoNewCalls /\ EntriesSettle
    => \A w \in Waiter : SuitedFor(w) =>
         (caller[w] = "select" ~> caller[w] # "select")

\* The goroutine of a cancelled call ends and gives its token back, although
\* nothing wakes it when the context is done: the next Rebalance does.
\* (ClientsReturn because it may pick once more, and the model's tokens are
\* finitely many; for the same reason TryPick has strong fairness.)
AbandonedGoroutineExits ==
  ClientsReturn =>
    \A w \in Waiter : cancelled[w] ~> goroutine[w] \in {"none", "done"}
=============================================================================
