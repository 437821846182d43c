# iaido in TLA+

iaido is a sidecar TCP load balancer: it accepts connections on a local
address, chooses a backend for each from a pool, and copies bytes both ways
until the peers or its own maintenance end the connection. This directory holds
TLA+ models of its concurrent core, the TLC configurations that check them on
small instances, and TLAPS proofs of its safety properties.

Source lines are those of the Go files under `src/`. `PROJECT.json` lists the
components, the runs, the hazards, the mutants and, for every definition that
models code, the lines it models.

## 1. Inventory

### Components, their state and their operations

| component | files | state | operations |
|---|---|---|---|
| pool | `pkg/pool/pool.go`, `entry.go`, `token.go` | `canonical` map, queue, load/mark/maxLoad/tier of each `entryMeta`, tokens, condition variable | `Add`, `Remove`, `Rebalance`, `Pick`/`PickLoad`/`Peek`, `Wait`, `Token.Release`, the token finalizer |
| pool queue | `pkg/pool/p_queue.go` | heap array, `index` of each entry, mark counter | `add`, `remove`, `update`, `updateAll` over `container/heap` |
| balancer | `pkg/balancer` | configuration, `Backend` objects (limit, disabledUntil, tier; a latency that is only printed), a pool | `Configure`, `Rebalance`, `Disable`, `AssignTier`, `Pick`, `Wait`, `IsOverloaded` |
| TCP proxy | `pkg/frontend/tcp` | one token, three goroutines, `idleSince`, `promotableSince`, `forceDisconnectReason` | dial loop, `proxy`, maintenance ticks |
| copier | `pkg/copier` | deadlines of two sockets | `Copy`: copy, wake up, look at the context, go on |
| server loop | `pkg/loop` | context, latch, options | preflight, cancellable accept, one handler goroutine per connection |
| frontend | `pkg/frontend/frontend.go` | map from bind address to (balancer, cancel, listener), latch | `Ensure`, `Wait` |
| configuration | `pkg/config` | none (values) | decode, validate, resolve targets, bootstrap |
| command | `cmd/iaido` | live configuration, modification time | reload loop, signals, drain |
| diagnostics | `pkg/diagnostics` | none | prints YAML over HTTP |

### How they interact

The command's refresh loop calls `Frontend.Ensure` on each tick. `Ensure` makes
a balancer and a server loop for each new bind address, calls `Configure` on
every balancer, stops the loops whose address is gone, and starts a ticker that
calls `Rebalance`. `Configure` resolves the targets and adds to, removes from
and reconfigures the backends of the pool; `Rebalance` dials all of them and
assigns tiers. Both reach the backends through shared `Backend` objects, which
the pool in turn asks for `MaxLoad()` and `Tier()` while it holds its own lock.
The server loop calls `Pool.Wait` *before* it accepts, so a connection starts
with a token in its context; the proxy dials with it, releases it at the end,
and calls `Pool.Wait` again when the dial fails. The maintenance loop of each
proxy asks the pool whether its backend is overloaded and makes trial picks.

### What is hard, and what correctness means

* **Pool.** Tokens are released by clients, by a finalizer at any later time,
  or by the goroutine of an abandoned `Wait`, before or after the entry was
  removed and enrolled again. Correct: the load counter of an enrolled entry is
  what its tokens add up to, every token has one owner, no pick exceeds what
  `MaxLoad()` says at that moment, no wake-up is lost, every `Wait` that can be
  served is served, no goroutine is left behind.
* **Queue.** Each element knows its index; `heap.Fix` moves elements while
  `pickLocked` walks over them. Correct: heap order and indexes after every
  operation, and a pick finds an entry with room when there is one.
* **Balancer.** `Configure` spends its time in DNS lookups with `b.mu` held, and
  `Rebalance` in dials without it, on the same backends. Correct: the pool
  converges to what the resolver says, no address is enrolled twice at a time,
  retired backends drain, limits hold for each object, latency groups fit their
  bucket.
* **Proxy.** Two copiers, a maintenance loop, peers that half-close or break,
  the drain of the server. Correct: one token from dial to end, no copy stopped
  without cause, and the connection ends when it has to.
* **Copier.** `io.Copy` is interrupted again and again to look at the context.
  Correct: an interruption loses nothing, a cancelled copy ends, and what was
  sent before the end arrives.
* **Server loop, frontend, command.** Accepting while draining, a latch taken
  after the accept, an `Ensure` that gives up half-way, a bad file, a signal at
  any moment. Correct: no handler without a token, one open listener for an
  address and that one registered, nothing torn down that is still configured,
  the last good file is followed in the end, stopped loops go away, "drained"
  means that the handlers have returned, and nothing panics but for the causes
  that `NoFault` lists.

## 2. Modules

    TokenLedger      what a pool promises (abstract)
       ^ implemented by (TLC and TLAPS)
    Pool             the pool with Wait, the heap reduced to a set and its root
       ^ implemented by (TLC and TLAPS)
    HeapPool         the heap array, indexes and marks as stored
    Balancer         Backends, Configure and Rebalance over what Pool promises
    TcpProxy         one connection, over the answers of pool and balancer
    Copier           one direction of a connection, with its buffer
    ServerLoop       accept loops, latch and handlers, over the answers of Wait
       ^ extended by
    Frontend         Ensure, the reload loop, signals and the drain
    MCPool, MCHeapPool, MCBalancer, MCFrontend     small constants for TLC
    PoolProofs, PoolWakeProofs, PoolLedgerProofs, BalancerProofs,
    HeapPoolProofs, TcpProxyProofs, CopierProofs, FrontendProofs   theorems

### Pool

Every exported method of the pool holds `p.mu` from its first read to its last
write, so each is one action with the name of the method. `Wait` is not
atomic: its goroutine (`goroutine[w]`: lock, cond, offer, close, done) and its
caller (`caller[w]`: select, then what it returned) have an action for each
step between two blocking points, and interleave with everything else. `TryPick`
is one turn of the loop under the lock, parking included; `Deliver` the
rendezvous on the channel; `Abandon` the other branch of the goroutine's select;
`Close` the close of the channel; `Return` the two other ways for the caller
to come back. `Cancel` may come at any time. `Drop` takes away the last
reference to an unreleased token, and `tokenFinalizer` runs at any later time.

Abstractions:

* The heap is the set `q` with its first element `root`. `container/heap`
  promises only that `root` costs no more than any other, so `Heapify` picks
  any such element. `HeapPoolProofs` shows that the array is one of these.
* Marks are ranks among the marks in the queue, because marks are only compared.
* `pickLocked` updates entries one after another until one has room. The
  entries it updated in vain are the set `failed`, chosen by `Issue` and
  `NoPick` among those an order of the sort could give. The slow path leaves out
  what is first after the first update (`Skippable`), as the code does.
* `MaxLoad()` and `Tier()` of an entry are read once per pool operation
  (`profile`); `Retune` changes them between any two operations.
* Token objects are the finite set `Token`; a released token's name may be used
  again. The metadata objects of one entry are told apart by `Gen`; `Add` takes
  one that no token refers to, as a new object is.

### TokenLedger

The contract of the pool: tokens that are out, what each entry allows, and the
rule that a token is issued only if everything that is out on the entry then
fits. No queue, no cost, no counter. `Pool!LedgerSpec` is the refinement, with
`capacity` mapped to the present `MaxLoad()` and `enrolled` to `q`.

### HeapPool

The array, `index` and the mark counter, with `container/heap`'s `up`, `down`,
`Fix`, `Push`, `Remove` and `Init` written out, and each pool operation as the
sequence of queue updates it makes. A loop is a function over its rounds:
`UpRound` and `DownRound` are one turn of `up` and `down`, `TryOne` one of
`pickLocked`'s slow path. `sort.Slice` may leave equals in any order.
`PoolSpec` maps the array to `Pool`'s set and root. Operations are called one at
a time and without `Wait`, which adds nothing to what the queue goes through.

### Balancer

`configure` and `rebalance` are the local states of the two functions. The
actions are the steps between two releases of `backend.mu` or `p.mu`:
`Configure` (take `b.mu`, store the configuration), `Resolve` (one target),
`ConfigureBackend` (one address), `Add`, `Remove`, `Drain` (limit of a removed
object to zero), `Configured`; `Rebalance` (read the bucket), `All`, `Probe`,
`AssignTier`, `PoolRebalance`. A range over a Go map has no order, so any order
is possible, and so is any order of probes; `AssignTier` goes through the samples
in the order of their latencies, and `Group` is one turn of the loop of
`latencySamples.assign`. `Redirect` changes what the resolver answers at any time, `{}`
being a failed lookup. The pool is reduced to what TokenLedger promises: `Pick`
may take any backend with room, and re-samples those it tried in vain;
`Disconnect` releases. A token is first `reserved` for the accept loop, which
may keep it for as long as no client comes (`Accept`). Durations (dial timeout,
how long a backend stays disabled) are left to chance: `Reenable` happens at some
time.

### TcpProxy

One connection, from the token that the preflight reserved to the return of the
handler. `DialSucceeds`, `DialFails`, `WaitAgain` are the dial loop; `Wake`,
`Finish`, `Fail` the ways `io.Copy` returns to a copier; `Tick` one turn of
maintenance; `JoinCopiers` and `Return` the end of `proxy`. Time is counted in
wake periods, and `idleSince` and `promotableSince` are kept as ages that stop
growing at `Oldest`, beyond every limit they are compared with. Bytes are
reduced to whether any moved since the last wake-up. The trial pick is an answer
of the environment (`better`), and so is `IsOverloaded`.

### Copier

`io.Copy` takes units from the source (`Read`) and writes them one by one
(`Write`) before it reads again; `next..taken` is its buffer. It returns on a
deadline (`ReadTimeout`, `WriteTimeout`), at the end of the source or on an
error, and its buffer is dropped then. `Copy` looks at the context after a
time-out and starts over, since a write deadline is a time-out like that of a
read. Whether the receiver takes anything (`sink`) is up to the environment.

### ServerLoop

For each loop, where its goroutine is (`serve`): in the preflight, before it looks
at the context, in `Accept`, before it holds the latch, or gone. `Preflight` has
the answers of `Pool.Wait`, the empty one of a cancelled call included. The
gap between `Accept` and `Hold` is there, and so is the end of the goroutine on
any error of the listener (`AcceptFails`). A loop is an address together with what tells
its successive loops apart.

### Frontend

EXTENDS ServerLoop with the main goroutine: `Ensure` one frontend at a time
(`Unparsable`, `Existing`, `New`), `Launch` of a loop when its balancer is ready
(`Bound`, `BindFails`, `Unimplemented`), `Teardown`, and then `Tick`, `Stat`,
`Decode` or `Leave` and `Drained`. The calls into the balancer happen inside
`Existing` and `New`; that they take long is why `Launch` is an action of its own.
A ticker goroutine (`TickerStarts`) reads the loop variable `fe` when it is
scheduled, which may be after the next reload has begun: it then finds the
variable of the former call of `Ensure`, as that call left it. Of those all that matters is
whether one is left that will panic (`late`, `LateTickerStarts`).

The file changes at any time (`Write`); `DecodeConfig` says what
a file leaves in the live configuration: a clean one its frontends with
defaults, one with an unknown field or a wrong type what was decoded, without
validation, one without the key `frontends` the old ones, validated again, and one
that is no YAML the old contents. Two simplifications of `Validate`: an empty
address, which it replaces by `:0`, is not among the addresses, and an error in the
tiers of a frontend, which stops the validation of those behind it, is not among the
errors. (A dirty file leaves the same behind, and more.) `Drained` is the return of
`Frontend.Wait` and the exit of the program in one; a handler that takes the latch between the
two is not waited for either.

Of a balancer the module has what can make a handler panic: its
`MaintenanceTime` (`maintenance`) and whether it was given a UDP backend
(`datagram`), both set by `Configure` in `Existing` and `Launch`. A handler in `held`
dials until it is in `proxying`. `Proxy` is a dial that succeeds, with the type
assertion, the smear and the period of the maintenance ticker behind it; a dial
that fails, with the next `Wait`, changes nothing here unless that `Wait` returns neither
token nor error, which it may do when the context of the loop is done
(`DialFails`; the states in between are in TcpProxy). A handler returns from
`proxy`, or with the error of a `Wait` whose context is done (`MayReturn`). `Signal` cancels
the context; a second one, or the end of the grace period, kills.
Panics are states: `pc = "crashed"`. A `time.Duration` is a number up to `MaxDuration`
(20, in place of 2^63 - 1) either way, 1 being a nanosecond; what is longer than that
after an addition counts as having wrapped around.

## 3. Runs

| run | instance | shows |
|---|---|---|
| `pool_tokens` | 2 entries, 2 incarnations each, 2 tokens, loads 0..2, `MaxLoad()` switching between 0 and 2 | `TypeOK`, `RegistryInSync`, `LoadAccounting`, and the refinement `LedgerSpec` |
| `pool_wait` | 1 entry, 2 tokens, 2 calls of `Wait` for 1 or 2 units, a competing picker | `LoadAccounting`, `TokenOwnership`, `NilReturnOnlyWhenCancelled`, `NoSleepThroughFreedRoom`; liveness `WaiterServed`, `AbandonedGoroutineExits` |
| `pool_live` | 2 entries of one tier, `MaxLoad()` switching between 1 and 2, 2 tokens, calls of `Wait` for 2 units one after another | `WaiterServed` although the slow path of a pick may leave out the only entry that suits |
| `heap` | 3 entries, 2 tokens, 3 picks of 0 to 2 units | `HeapShape`, the refinement `PoolSpec`, `PassesOverAtMostOne` |
| `balancer_registry` | 1 address with 2 incarnations, 2 targets in tiers of different limits, in service or not, lookups that fail and are tolerated, 2 connections | `TypeOK`, `OneBackendPerAddress`; liveness `RegistryConverges`, `DrainedBackendsEmpty` |
| `balancer_latency` | 3 addresses, latencies 1, 3, 4, 5, buckets of 2 and of 3 | `LatencyGroupsFit` |
| `proxy` | idle after 2 wake periods, promoted after 1 | `TypeOK`, `OneTokenPerConnection`, `StoppedForCause`; liveness `ShedWhenOverloaded`, `PromotedWhenBetter`, `EndsWithItsPeers` |
| `copier` | a peer that sends up to 4 units | `TypeOK`, `LossOnlyWhenStalled`; liveness `CancelStops`, `EverythingArrives` |
| `frontend` | 3 addresses, two of which another program has, 3 loops, 1 client, 5 files | `TypeOK`, `HandlerHasToken`, `ListenersRegistered`, `DrainedMeansHeldEnded`, `SettingsApplied`, `CrashNeedsFault`, `StopsOnlyWhatIsGone`; liveness `ConfigurationFollowed`, `StoppedLoopsExit`, `DrainEnds` |
| `proxy_idle`, `copier_gap`, `frontend_bind` | small | a sentence of the repository that the code does not keep; see section 6 |

Deadlock is checked except in the runs of Copier and Frontend, where the copy
returns and the program exits.

### Why these bounds

* *Two tokens of up to two units* on entries of limit 2 cover a full entry, one
  unit of room, a load over a lowered limit, and a token that outlives its
  entry. The relation between tokens and counters is proved for any number.
* *Two incarnations of an entry* are what a removal and a new enrolment need
  while a token of the old one is out.
* *Two calls of `Wait`* of different loads are what a lost wake-up needs: one
  that is woken and cannot use the room, one that could and sleeps.
* *Three entries* are the smallest heap in which `down` chooses between
  children, `Remove` moves the last element into the middle, and the slow path
  has two entries to sort. `MaxMark` bounds the picks of a behaviour: three
  picks can mark every entry.
* *One address* named by two targets is what overlapping targets and a lost and
  regained address need; addresses do not influence each other in `Configure`
  except through the pool. `MaxConns` bounds the connections on one object.
* *Latencies 1, 3, 4, 5 with buckets of 2 and of 3* lie within a bucket, exactly
  one apart (1, 3, 5; 1, 4; and 3 from the zero at which the loop starts) and
  further, and give one, two and three groups, among them one (1, 3, 5 with a
  bucket of 3) that a chain of small gaps would wrongly keep together.
* *`IdleDuration` 2, `ForcePromotionAfter` 1*: both more than one period away
  from or next to the boundary; ages saturate above both.
* *Four units* make buffers of one to four, read in one piece or in several,
  and a time-out in the middle of a buffer.
* *Three loops*, two of them for the first address, are what an address needs that
  is taken away and comes back while its old goroutine is still in `Accept`. The
  files: one that has an address twice, and whose last settings, left to the
  defaults, must win; none; one with an address that does not parse before the
  first one; one that decodes only in part, with a UDP backend and the shortest
  maintenance time for the first address, an address in use without a ticker,
  and a UDP frontend; one without the key `frontends`. They bring up every fault of
  `NoFault`, so that `CrashNeedsFault` has each of its clauses to lean on,
  except for maintenance times that are not positive or wrap around. (Those, and a
  file that is no YAML or missing, which leaves the same frontends as the last,
  are in the proofs.) One client is enough for the gap between accept and latch; the
  number of handlers in the latch is arbitrary in the proof.

### Fairness

* Pool: weak fairness for the steps of runnable goroutines; strong fairness of
  `TryPick`, because `p.mu` is granted in turn and because the model's tokens
  are finitely many, so that the action may be disabled for want of a token
  object, which in Go cannot happen; weak fairness of `Rebalance`, which
  `frontend.go:103` calls from a ticker (a negative `rebalanceDuration` turns
  that ticker off, and these properties with it); weak fairness of the
  finalizers. Nothing is assumed of clients: that they return tokens, that demand
  ends and that entries settle are premises of the property.
* Balancer: `Ensure` calls `Configure` on every tick with errors tolerated;
  strong fairness of it and of `Rebalance` because each needs `b.mu` and is
  granted it in turn. A proxy whose backend is overloaded ends (that is
  `ShedWhenOverloaded` of TcpProxy), hence weak fairness of `Disconnect` on an
  overloaded backend only.
* Proxy: goroutines run and timers fire, however late. Peers may stay silent
  for ever. `proxy_idle` has the premise that wake-ups are in time, so that the
  counterexample does not rest on a late timer.

* Copier: the copy goes on (weak fairness of `Copy`), and what can be read is
  read before the deadline, which lies a second ahead when it is set (strong
  fairness of `Read` and `EndOfFile`: the deadline disables them only now and then).
* Frontend: the main goroutine and the accept loops run. Its select
  leaves in the end when the context is done, although the ticker is ready again
  and again (strong fairness of `Leave`: Go chooses among the ready cases at
  random). A loop goes on by itself, but no token and no client is
  assumed to come (`Proceeds`). Ticker goroutines may be as late as they like,
  and handlers may dial for ever: that handlers return is a premise of `DrainEnds`.

## 4. Proofs

All theorems hold for every value of the constants that satisfies the named
assumptions of the modules: finite sets of metadata, tokens and connections, null
values that are no members, loads and durations that are naturals, a
configuration that is a sequence of settings.

| module | theorem | states |
|---|---|---|
| `PoolProofs` | `Invariance`, `TypeCorrect`, `RegistryStaysInSync`, `LoadIsAccounted`, `TokensAreOwned`, `NilOnlyToCancelledCalls` | each safety invariant of the pool's runs |
| `PoolWakeProofs` | `NobodySleepsThroughRoom` | `Spec => NoSleepThroughFreedRoom` |
| `PoolLedgerProofs` | `PoolImplementsLedger` | `Spec => LedgerSpec` |
| `HeapPoolProofs` | `CostIsWeakOrder` | `costLowerThan` is a strict weak order |
| | `HeapShapeHolds` | `Spec => []HeapShape` |
| | `PassesOverAtMostOneHolds` | `Spec => PassesOverAtMostOne` |
| | `ImplementsPool` | `Spec => PoolSpec` |
| `BalancerProofs` | `TypeCorrect`, `OneBackendForAddress`, `LatencyGroups` | each safety invariant of the balancer's runs |
| `TcpProxyProofs` | `TypeCorrect`, `TokenIsReturned`, `StopsForCause` | the safety properties of the run `proxy` |
| `CopierProofs` | `TypeCorrect`, `LossNeedsStall` | the safety properties of the run `copier` |
| `FrontendProofs` | `TypeCorrect`, `HandlersHaveTokens`, `ListenersAreRegistered`, `DrainedAfterHandlers`, `SettingsAreApplied`, `CrashesNeedFaults`, `StopsOnlyGone` | the safety properties of the run `frontend` |

### The pool

The inductive invariant is `Inv == Core /\ CallsInStep`, with `Core` the
conjunction of `TypeOK`, `RegistryInSync`, `TokenOwnership` and
`LoadAccounting`. None of the four is inductive alone. A release keeps the
accounting because a token is with one owner, so its units are counted once and
taken away once; the owner's token is live because of `TokenOwnership`; the
metadata a new incarnation starts with is right because `Add` takes an object
no token refers to, and that needs the registry. `CallsInStep` relates where a
goroutine is to what its caller has seen; `NilReturnOnlyWhenCancelled` follows
from it: a goroutine that reached `close` while its caller still waits did so
because the context was done.

The load on an entry is the cardinality of the set of its units, one pair of a
token and a number for each unit, so that no sum, and no recursion, is needed:
`UnitsOfIssued` and `UnitsOfReturned` say how issuing and returning a token
change it. There is one lemma for each action (`AddInv`, `ReleaseInv`, ...), and
lemmas for what several actions share (`HeapifyFacts`, `IssueFacts`,
`AccountsRelease`). The refinement is a step simulation (`StepSimulation`) under
the invariant: `LoadAccounting` turns the counter that `pickLocked` compares
with `MaxLoad()` into the ledger's sum over the tokens that are out.

`NobodySleepsThroughRoom` needs no more than that invariant: a step that frees
room broadcasts, after which nobody is parked; for all others `NoRoomAppears`
follows from what the step does to the loads (`QueueStepGrows`).

### The queue

The inductive invariant `HeapInv` says that the queue has the shape of a heap
(`Shape`: types, indexes, order), that a token refers to metadata while a client
has it, that `canonical` and the queue have the same objects, and that no mark is
above the counter. The order alone is not inductive: a `Fix` with a stale
index would repair another entry's place, and `remove` would take that one out.

The loops are not followed by an induction over a recursive operator.
`AllNaturals` (a set of natural numbers that has 0 and with every number the
next is `Nat`, from the well-foundedness of `<`) is all that is needed:
`CourseExists` says that a loop whose rounds keep within given sets has a
course, and `AlongCourse` that what the rounds pass on, the end has. What the
rounds pass on is the usual argument about a binary heap. `Nearly(h, n, lo, i)`
is a heap but for the entry at `i`, whose parent costs no more than its
children; a round of `down` or `up` moves the place where this is so by a level,
and `Sunk` and `Risen` say when it is done. `n` rounds are enough because each
moves by a level or is done. So `Fix`, `Push`, `Remove` and `Init` leave a heap
of the same entries, for arrays of every length. (TLC's run has three entries: a
root and one level.)

`PassesOverAtMostOne` follows from what the slow path tries (`GotTo`: all that
came before in the order of the sort had no room): what can be passed over is
only what was first when `q[1:]` was copied.

The refinement `ImplementsPool` maps marks to ranks. The queue compares marks
and nothing else is done with them, which is what `SameOrder` is for: two
assignments of metadata with the same loads, limits and tiers, and marks in the
same order, are compared alike by `costLowerThan` and have the same ranks
(`CostSame`, `RankSame`). Each operation of the array gives the set of Pool
metadata in the same order as those Pool computes (`TriedOrder`,
`ChargedOrder`), and the first element of a heap is one of the cheapest, which
is all that `Heapify` promises (`HeapifyFacts`). `PickIsPools` has the two paths of
`pickLocked`: `failed` is what was tried before the one that had room, and its
members are, in the order of the sort, cheaper than those behind. With
`PoolImplementsLedger` this carries the rule of the ledger, that a token is issued
only for room that is there, down to the array, as far as picks, releases and
changes of the registry go.

### The balancer

`CanonicalMap` is the strengthening: the map of a running `Configure` has one
Backend for an address, contains what it is going to use, and contains
everything that is enrolled. The last is why the pool may be updated one
Backend at a time.

`LatencyGroupsFit` needs to know where the loop over the samples stands: every
latency that was assigned is at most every one that was not, those in the
present group are at least its first one (`start`) and less than a bucket
above it, and those in earlier groups are in lower tiers. The assumption is that
latencies are natural numbers. It holds while `Configure` changes the same
Backends, because the samples belong to the Rebalance that took them.

`TypeOK` is the part that `Configure` relies on, with `NumbersOK` for limits, loads
and tiers: a load stays a natural number because a connection that ends is one
that was counted.

### The proxy

`StoppedForCause` is about a step, and follows from what the context of the
errgroup means: `CancelledForCause`, that it is done only after maintenance or a
copier has failed or both copies are over, and `BeforeCopying`, that it is not
done while the handler still dials.

### The copier

`BufferInWrite`: something is in the buffer exactly in a write. So a time-out of a
read drops nothing, and a loss needs a write that could not go on.

### The frontend

`LoopInv` has two parts. `TokenInAccept`: in `Accept` and later there is a token,
and a loop that comes out of the preflight without one has a context that is done,
which it sees before it accepts. `LatchCounts`: the latch is the
cardinality of the handlers. `MainInv` follows the main goroutine: `Visited`,
that the addresses before position `i` are in `activeTargets`, gives
`StopsOnlyWhatIsGone`; `AppliedSoFar`, that of those frontends the last one for an
address has configured its balancer, gives `SettingsApplied`; `LaunchReady`, that no entry has the address that is
about to be bound, gives `ListenersRegistered`.

`CrashNeedsFault` has an invariant of its own, which holds as long as `NoFault` does:
`Unharmed`, that every balancer has a maintenance time that a proxy can work with
and none has a UDP backend, and that no ticker is left that will panic. `NextUnharmed` has one step for each way to
panic: a tear-down finds a listener, because an entry without one has an address that
was in use (`UnboundIsBusy`); a ticker that starts finds the period of a frontend
whose file has others with a ticker (`StartingHasTicker`), and one
that is overtaken by a reload leaves nothing behind for the same reason; a
handler that dials is under a context that is not done.

### Model-checked only

Liveness under fairness is TLC's: `WaiterServed`, `AbandonedGoroutineExits`,
`RegistryConverges`, `DrainedBackendsEmpty`, `ShedWhenOverloaded`,
`PromotedWhenBetter`, `EndsWithItsPeers`, `CancelStops`, `EverythingArrives`,
`ConfigurationFollowed`, `StoppedLoopsExit` and `DrainEnds`. So are the three
violations of section 6. All invariants, action properties and refinements
of the passing runs are theorems.

## 5. Mutants

Each property of each passing run comes with a mutated definition, defined just
before the one it replaces and described in its comment (a dropped broadcast, a
token that is forgotten, a swap that updates one index, a missing `cancel()`).
With it in place the run fails on that property.

## 6. Where code and words differ

With a run that shows it:

* `IdleConnectionPruned` (`tcp.go:79`): every empty wake-up stores the present
  time as the start of the idle time, so it never grows past a wake period.
* `NilMeansComplete` (`copier.go:71`): a receiver that takes nothing for a whole
  write deadline and then goes on gets a stream with a gap, and `Copy` returns
  nil.
* `EveryBindServed` (`frontend.go:124`): after a failed bind the entry stays in the
  map. The next `Ensure` takes it for running and returns no error, and the address
  is never bound; when the address leaves the configuration, its tear-down
  dereferences nil.

Seen while modelling, and in the models:

* A pick can return nil although an entry has room (`pool.go:185`): after the
  first update fails, `heap.Fix` may move another entry to the front, and the
  slow path copies `q[1:]`. `PassesOverAtMostOne` bounds the damage, and
  `WaiterServed` shows that a waiting call finds the entry later.
* A cancelled `Wait` may return `(nil, nil)` (`pool.go:262`). `HandlerHasToken` shows
  that no accept loop starts a handler from it. The dial loop of a proxy does not
  look (`tcp.go:46`): when a dial fails after the address was taken out of the
  configuration, or after a signal, it may dereference nil (line 42), and the whole program
  goes down (`handler = "panic"` in TcpProxy, `DialFails` in Frontend).
* A dial loop whose backends refuse every connection releases and picks, perhaps
  the same backend, for ever (`tcp.go:44`): such a handler keeps the latch, and
  only the grace period ends the drain.
* A UDP target passes validation as a backend of a TCP frontend; the first connection
  to it fails the type assertion (`tcp.go:55`), and the program goes down.
* Every reload stores the configured tier over the one assigned by latency
  (`balancer.go:119`).
* An address that one lookup misses comes back as a new `Backend` with no load,
  while old connections are still open (`balancer.go:101`): the limit holds for
  each object, not for the address.
* The ticker goroutine reads the loop variable when it is scheduled
  (`frontend.go:105`), so that it may run with the period of a later frontend, or
  panic on one that has none. After a SIGHUP that is the last frontend
  of the configuration before the present one, or, if that `Ensure` returned in the
  middle, the one at which it did.
* A reload whose file does not decode completely is reported as an error, but what
  was decoded is used, without validation and without defaults (`main.go:89`,
  `config.go:38`). A `maintenanceTime` that the file leaves out is then zero in the
  running balancer, and the next connection panics in `rand.Int63n` (`tcp.go:94`).
  The same goes for a negative one, which passes validation, and, in
  `NewTicker` (`tcp.go:95`), for one of a nanosecond, half of which is nothing, and for
  one so long that half of it and the smear wrap around. `CrashNeedsFault` counts
  these among the faults.
* A connection that was accepted but for which the latch is not held yet is cut
  by the end of the drain (`loop.go:90`).
* An error of `Accept` other than a time-out ends the loop of an address for good,
  while its entry stays (`loop.go:119`); `ConfigurationFollowed` has the premise
  that none occurs.
* When context and ticker are both ready, `Ensure` may run once more under a
  cancelled context (`main.go:154`). Lookups of names then fail, are
  tolerated, and empty the pool, so that the connections that the drain waits for
  are shed.

## 7. Not modelled

* Command line flags, bootstrap files, the start of the diagnostics server.
* Configuration of tiers, their defaults and checks, and durations: conversions
  of data without state.
* Diagnostics, YAML views, logging: output only. Test servers: not part of the program.
* How long anything takes: a lookup under `b.mu` blocks `Config()` for as long as
  the resolver likes, which the interleaving allows and no property bounds.
* Data races inside a pool operation: `MaxLoad()` and `Tier()` are read one after
  the other; the model reads them at one moment.
* Balancer, pool, accept loop and proxy in one state space: each module has the
  answers of its neighbours as choices, those that the neighbour's module shows
  to be possible (the answers of `Wait`, the overload of a backend, tokens within
  the limit).
* Two frontends of one configuration with the same address reconfigure one
  balancer in turn: Frontend has this for the maintenance time (`SettingsApplied`);
  Balancer has one configuration at a time.
* `idleDuration` and the period of a ticker stay what they were when the loop was
  launched; no property is about that.

## 8. Plan

Done: all of the program's stateful components, with the theorems above.

Left: the refinement of Ensure to a set of served addresses, which failed binds
and Accept errors break and which would have to be stated with them; and the proof
that a probe's result is kept for the Backend it was measured on.
