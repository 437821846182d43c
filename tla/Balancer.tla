------------------------------ MODULE Balancer ------------------------------
(***************************************************************************)
(* pkg/balancer: the Backend objects of one pool, Configure, which the     *)
(* refresh loop calls over and over to resolve the targets and bring the   *)
(* pool up to date, and Rebalance, which a ticker calls to probe the       *)
(* backends and sort them into tiers by latency.                           *)
(*                                                                         *)
(* Configure holds b.mu from start to end; Rebalance takes it only to read *)
(* the latency bucket.  Both wait for the network in the middle, and share *)
(* the Backend objects and the pool: one action is what happens under one  *)
(* holding of backend.mu or p.mu.                                          *)
(*                                                                         *)
(* The pool is abstracted to what Pool shows of it: the enrolled objects,  *)
(* their load, the maxLoad it last sampled, and tokens that are issued     *)
(* only within MaxLoad().                                                  *)
(***************************************************************************)
EXTENDS Integers, FiniteSets, Sequences

CONSTANTS
  Address,    \* network addresses
  Gen,        \* tells the successive *Backend of one address apart
  Target,     \* what Target.Resolve is called on
  Config,     \* BackendPools: [bucket, targets], the targets of all tiers in order
  Answers,    \* the sets of addresses a target may resolve to; {} is a failure
  Latency,    \* what a successful probe may measure
  Tolerate,   \* the values of tolerateErrors: the frontend passes TRUE
  Unlimited,  \* math.MaxInt64
  MaxConns,   \* bound on the load the model's clients put on a backend
  NoConfig

ASSUME ConfigAssumption ==
  /\ Config \subseteq [bucket : Int,
                       targets : Seq([target : Target, tier : Nat, max : Nat,
                                      disabled : BOOLEAN])]
  /\ NoConfig \notin Config
  /\ Answers \subseteq SUBSET Address
ASSUME NumbersAssumption ==
  Latency \subseteq Nat /\ Unlimited \in Nat /\ Tolerate \subseteq BOOLEAN

Backend == Address \X Gen             \* the *Backend objects
addr(b) == b[1]

VARIABLES
  dns,             \* what each target resolves to now
  cfg,             \* b.mu.cfg
  maxConnections, disabled, tier,   \* Backend.mu (and lastLatency, only shown)
  enrolled,        \* the objects in the pool
  load, maxLoad,   \* entryMeta.mu of each; load outlives the enrolment
  reserved,        \* whose token, if any, the accept loop holds for its next client
  configure,       \* the local state of Configure
  rebalance        \* the local state of Rebalance

backendVars == <<maxConnections, disabled, tier>>
poolVars == <<enrolled, load, maxLoad, reserved>>
vars == <<dns, cfg, backendVars, poolVars, configure, rebalance>>

MaxLoad(b) == IF disabled[b] THEN 0 ELSE maxConnections[b]

\* Pool.IsOverloaded, on the maxLoad that was sampled last.
IsOverloaded(b) == b \notin enrolled \/ load[b] > maxLoad[b]

\* The pool takes new samples of the entries of S.
SampledOn(S) == [b \in Backend |-> IF b \in S THEN MaxLoad(b) ELSE maxLoad[b]]

-----------------------------------------------------------------------------
(***************************************************************************)
(* Configure.  pc: idle (b.mu is free), target (about to resolve target    *)
(* number i), address (about to configure the addresses in todo), update   *)
(* (adding and removing), drain (an object was just removed).              *)
(***************************************************************************)
Idle == [pc |-> "idle", tolerate |-> TRUE, i |-> 0, todo |-> {},
         canonical |-> {}, inUse |-> {}]

\* Mutant of NextTarget: one target too many.
NextTargetPastEnd(c) ==
  IF c.i <= Len(cfg.targets) THEN [c EXCEPT !.pc = "target", !.i = @ + 1]
                             ELSE [c EXCEPT !.pc = "update"]

NextTarget(c) == IF c.i < Len(cfg.targets) THEN [c EXCEPT !.pc = "target", !.i = @ + 1]
                                           ELSE [c EXCEPT !.pc = "update"]

Configure(c, tolerate) ==
  /\ configure.pc = "idle"
  /\ cfg' = c
  /\ configure' = [Idle EXCEPT !.pc = IF c.targets = <<>> THEN "update" ELSE "target",
                               !.tolerate = tolerate, !.i = 1,
                               !.canonical = enrolled]
  /\ UNCHANGED <<dns, backendVars, poolVars, rebalance>>

\* Mutant of OnLookupError: nothing is tolerated.
OnLookupErrorReturn == Idle

OnLookupError == IF configure.tolerate THEN NextTarget(configure) ELSE Idle

\* Target.Resolve: the addresses of all its hosts, or an error.
Addresses(t) == dns[t]

Resolve ==
  /\ configure.pc = "target"
  /\ LET addrs == Addresses(cfg.targets[configure.i].target)
     IN configure' = IF addrs = {} THEN OnLookupError
                     ELSE [configure EXCEPT !.pc = "address", !.todo = addrs]
  /\ UNCHANGED <<dns, cfg, backendVars, poolVars, rebalance>>

LimitOf(t) == IF t.disabled THEN 0 ELSE IF t.max = 0 THEN Unlimited ELSE t.max

\* Objects that nobody refers to: what &Backend{} may return.
Unreferenced ==
  {b \in Backend : /\ b \notin enrolled \cup configure.canonical
                   /\ load[b] = 0
                   /\ b \notin rebalance.todo \cup DOMAIN rebalance.samples}

\* Mutant of Lookup: the map holds only what the pool held at the start.
LookupEnrolled(a) ==
  LET known == {b \in enrolled : addr(b) = a}
  IN IF known # {} THEN known ELSE {b \in Unreferenced : addr(b) = a}

\* canonicalBackends[key(addr)], or a new object.
Lookup(a) ==
  LET known == {b \in configure.canonical : addr(b) = a}
  IN IF known # {} THEN known ELSE {b \in Unreferenced : addr(b) = a}

ConfigureBackend(b) ==
  LET t == cfg.targets[configure.i]
      c == [configure EXCEPT !.todo = @ \ {addr(b)},
                             !.canonical = @ \cup {b}, !.inUse = @ \cup {b}]
  IN /\ configure.pc = "address" /\ addr(b) \in configure.todo
     /\ b \in Lookup(addr(b))
     /\ maxConnections' = [maxConnections EXCEPT ![b] = LimitOf(t)]
     /\ tier' = [tier EXCEPT ![b] = t.tier]
     /\ disabled' = [disabled EXCEPT ![b] = @ /\ b \in configure.canonical]
     /\ configure' = IF c.todo = {} THEN NextTarget(c) ELSE c
     /\ UNCHANGED <<dns, cfg, poolVars, rebalance>>

Add(b) ==
  /\ configure.pc = "update" /\ b \in configure.inUse \ enrolled
  /\ enrolled' = enrolled \cup {b}
  /\ maxLoad' = [maxLoad EXCEPT ![b] = MaxLoad(b)]
  /\ UNCHANGED <<dns, cfg, backendVars, load, reserved, configure, rebalance>>

Stale == {b \in configure.canonical \ configure.inUse : b \in enrolled}

Remove(b) ==
  /\ configure.pc = "update" /\ configure.inUse \subseteq enrolled
  /\ b \in Stale
  /\ enrolled' = enrolled \ {b}
  /\ configure' = [configure EXCEPT !.pc = "drain"]
  /\ UNCHANGED <<dns, cfg, backendVars, load, maxLoad, reserved, rebalance>>

Drain ==
  /\ configure.pc = "drain"
  /\ maxConnections' = [b \in Backend |->
                          IF b \in configure.canonical \ (configure.inUse \cup enrolled)
                          THEN 0 ELSE maxConnections[b]]
  /\ configure' = [configure EXCEPT !.pc = "update"]
  /\ UNCHANGED <<dns, cfg, disabled, tier, poolVars, rebalance>>

Configured ==
  /\ configure.pc = "update" /\ configure.inUse \subseteq enrolled /\ Stale = {}
  /\ configure' = Idle
  /\ UNCHANGED <<dns, cfg, backendVars, poolVars, rebalance>>

-----------------------------------------------------------------------------
(***************************************************************************)
(* Rebalance.  pc: idle, list (the bucket was read and b.mu released),     *)
(* probe (todo is left of what All() returned), assign (todo is left of    *)
(* the samples; start and tier are the loop's own, and assigned remembers  *)
(* the tiers it has given).                                                *)
(***************************************************************************)
Resting == [pc |-> "idle", bucket |-> 0, todo |-> {}, samples |-> <<>>,
            start |-> 0, tier |-> 0, assigned |-> <<>>]

Rebalance ==
  /\ rebalance.pc = "idle"
  /\ configure.pc = "idle" /\ cfg # NoConfig
  /\ rebalance' = [Resting EXCEPT !.bucket = cfg.bucket,
                                  !.pc = IF cfg.bucket > 0 THEN "list" ELSE "assign"]
  /\ UNCHANGED <<dns, cfg, backendVars, poolVars, configure>>

\* The loop over what is left to probe is over: the samples are next.
Probed(r) == IF r.todo = {} THEN [r EXCEPT !.pc = "assign", !.todo = DOMAIN r.samples]
                            ELSE r

All ==
  /\ rebalance.pc = "list"
  /\ rebalance' = Probed([rebalance EXCEPT !.pc = "probe", !.todo = enrolled])
  /\ UNCHANGED <<dns, cfg, backendVars, poolVars, configure>>

Disable(b) == disabled' = [disabled EXCEPT ![b] = TRUE]

Probe(b) ==
  /\ rebalance.pc = "probe" /\ b \in rebalance.todo
  /\ \/ \E l \in Latency :
          LET s == rebalance.samples
          IN rebalance' = Probed([rebalance EXCEPT !.todo = @ \ {b},
               !.samples = [x \in DOMAIN s \cup {b} |-> IF x = b THEN l ELSE s[x]]])
        /\ UNCHANGED disabled
     \/ /\ rebalance' = Probed([rebalance EXCEPT !.todo = @ \ {b}])
        /\ Disable(b)
  /\ UNCHANGED <<dns, cfg, maxConnections, tier, poolVars, configure>>

\* Mutant of Group: a group starts at the sample before, not at its first one.
GroupFromLast(r, l) ==
  IF l >= r.bucket + r.start THEN [r EXCEPT !.start = l, !.tier = @ + 1]
  ELSE [r EXCEPT !.start = l]

\* A latency too far from the first of its group starts the next one.
Group(r, l) ==
  IF l >= r.bucket + r.start THEN [r EXCEPT !.start = l, !.tier = @ + 1] ELSE r

\* latencySamples.assign goes through the samples in the order of latencies.
AssignTier(b) ==
  LET l == rebalance.samples[b]
      r == Group(rebalance, l)
  IN /\ rebalance.pc = "assign" /\ b \in rebalance.todo
     /\ \A x \in rebalance.todo : l <= rebalance.samples[x]
     /\ tier' = [tier EXCEPT ![b] = r.tier]
     /\ rebalance' = [r EXCEPT !.todo = @ \ {b},
          !.assigned = [x \in DOMAIN r.assigned \cup {b} |->
                          IF x = b THEN r.tier ELSE r.assigned[x]]]
     /\ UNCHANGED <<dns, cfg, maxConnections, disabled, poolVars, configure>>

\* Mutant of PoolRebalance: the pool keeps its old samples.
PoolRebalanceSkipped ==
  /\ rebalance.pc = "assign" /\ rebalance.todo = {}
  /\ rebalance' = Resting
  /\ UNCHANGED <<dns, cfg, backendVars, poolVars, configure>>

PoolRebalance ==
  /\ rebalance.pc = "assign" /\ rebalance.todo = {}
  /\ rebalance' = Resting
  /\ maxLoad' = SampledOn(enrolled)
  /\ UNCHANGED <<dns, cfg, backendVars, enrolled, load, reserved, configure>>

-----------------------------------------------------------------------------
(***************************************************************************)
(* The clients of the balancer, the clock and the resolver                 *)
(***************************************************************************)
\* Pick and Wait: what the pool may answer, having tried others in vain.  The
\* token is for the accept loop, which keeps it until a client comes, or for
\* a proxy whose dial failed.
Pick(b, tried) ==
  /\ b \in enrolled \ tried
  /\ load[b] < MaxConns /\ load[b] < MaxLoad(b)
  /\ \A x \in tried : x \in enrolled /\ load[x] >= MaxLoad(x)
  /\ load' = [load EXCEPT ![b] = @ + 1]
  /\ maxLoad' = SampledOn(tried \cup {b})
  /\ reserved' \in {reserved} \cup (IF reserved = {} THEN {{b}} ELSE {})
  /\ UNCHANGED <<dns, cfg, backendVars, enrolled, configure, rebalance>>

\* A client comes: the reserved token is a connection's now.
Accept ==
  /\ reserved # {}
  /\ reserved' = {}
  /\ UNCHANGED <<dns, cfg, backendVars, enrolled, load, maxLoad, configure, rebalance>>

Connections(b) == load[b] - Cardinality(reserved \cap {b})

\* A connection ends and its token is released.
Disconnect(b) ==
  /\ Connections(b) > 0
  /\ load' = [load EXCEPT ![b] = @ - 1]
  /\ maxLoad' = SampledOn({b} \cap enrolled)
  /\ UNCHANGED <<dns, cfg, backendVars, enrolled, reserved, configure, rebalance>>

\* disabledUntil has passed.
Reenable(b) ==
  /\ disabled[b]
  /\ disabled' = [disabled EXCEPT ![b] = FALSE]
  /\ UNCHANGED <<dns, cfg, maxConnections, tier, poolVars, configure, rebalance>>

\* External: the answers of the resolver for a target change.
Redirect(t, addrs) ==
  /\ dns[t] # addrs
  /\ dns' = [dns EXCEPT ![t] = addrs]
  /\ UNCHANGED <<cfg, backendVars, poolVars, configure, rebalance>>

-----------------------------------------------------------------------------
Init ==
  /\ dns \in [Target -> Answers]
  /\ cfg = NoConfig
  /\ maxConnections = [b \in Backend |-> 0]
  /\ disabled = [b \in Backend |-> FALSE]
  /\ tier = [b \in Backend |-> 0]
  /\ enrolled = {}
  /\ load = [b \in Backend |-> 0]
  /\ maxLoad = [b \in Backend |-> 0]
  /\ reserved = {}
  /\ configure = Idle
  /\ rebalance = Resting

ConfigureStep ==
  \/ Resolve \/ Drain \/ Configured
  \/ \E b \in Backend : ConfigureBackend(b) \/ Add(b) \/ Remove(b)

RebalanceStep ==
  \/ Rebalance \/ All \/ PoolRebalance
  \/ \E b \in Backend : Probe(b) \/ AssignTier(b)

Next ==
  \/ \E c \in Config, tolerate \in Tolerate : Configure(c, tolerate)
  \/ ConfigureStep
  \/ RebalanceStep
  \/ \E b \in Backend : \/ \E tried \in SUBSET enrolled : Pick(b, tried)
                        \/ Disconnect(b)
                        \/ Reenable(b)
  \/ Accept
  \/ \E t \in Target, addrs \in Answers : Redirect(t, addrs)

Spec == Init /\ [][Next]_vars

-----------------------------------------------------------------------------
(***************************************************************************)
(* Properties                                                              *)
(***************************************************************************)
TypeOK ==
  /\ dns \in [Target -> SUBSET Address]
  /\ cfg \in Config \cup {NoConfig}
  /\ maxConnections \in [Backend -> Nat]
  /\ disabled \in [Backend -> BOOLEAN]
  /\ tier \in [Backend -> Nat]
  /\ enrolled \in SUBSET Backend
  /\ load \in [Backend -> Nat]
  /\ maxLoad \in [Backend -> Nat]
  /\ reserved \in SUBSET Backend
  /\ configure \in [pc : {"idle", "target", "address", "update", "drain"},
                    tolerate : BOOLEAN, i : Nat, todo : SUBSET Address,
                    canonical : SUBSET Backend, inUse : SUBSET Backend]
  /\ rebalance.pc \in {"idle", "list", "probe", "assign"}
  /\ rebalance.bucket \in Int /\ rebalance.todo \subseteq Backend
  /\ \E S \in SUBSET Backend : rebalance.samples \in [S -> Latency]
  /\ rebalance.start \in Nat /\ rebalance.tier \in Nat
  /\ \E S \in SUBSET DOMAIN rebalance.samples : rebalance.assigned \in [S -> Nat]
  /\ (configure.pc = "idle") <=> (configure = Idle)
  /\ configure.pc \in {"target", "address"} => configure.i \in 1..Len(cfg.targets)

\* However targets overlap, and whatever the resolver answers from one reload
\* to the next, an address is enrolled once: a target that names an address
\* which another one has named gets the same Backend.  (This is not a limit on
\* the address.  After a lookup that fails, the Backend is removed with its
\* connections still open, balancer.go:129, and the one that is made when the
\* address is back, balancer.go:101, does not count them.)
OneBackendPerAddress ==
  \A b, c \in enrolled : addr(b) = addr(c) => b = c

\* config.go:86: the latencies within a tier that one Rebalance assigns are
\* no further apart than the bucket, and a slower backend is in no nearer tier.
LatencyGroupsFit ==
  \A b, c \in DOMAIN rebalance.assigned :
    LET d == rebalance.samples[c] - rebalance.samples[b]
    IN /\ d >= 0 => rebalance.assigned[b] <= rebalance.assigned[c]
       /\ rebalance.assigned[b] = rebalance.assigned[c] => d <= rebalance.bucket

-----------------------------------------------------------------------------
(***************************************************************************)
(* Liveness.  A ticker calls Ensure, and so Configure, another Rebalance;  *)
(* lookups and probes end; b.mu is granted in turn, hence the strong       *)
(* fairness of both; a proxy whose backend is overloaded gives up the      *)
(* connection (tcp.go:117); and disabledUntil passes.                      *)
(***************************************************************************)
Fairness ==
  /\ SF_vars(\E c \in Config : Configure(c, TRUE))
  /\ WF_vars(ConfigureStep)
  /\ SF_vars(Rebalance)
  /\ WF_vars(RebalanceStep)
  /\ \A b \in Backend : /\ WF_vars(Disconnect(b) /\ IsOverloaded(b))
                        /\ WF_vars(Reenable(b))

FairSpec == Spec /\ Fairness

Wanted == UNION {dns[cfg.targets[i].target] : i \in 1..Len(cfg.targets)}

\* Once the configuration and the resolver's answers have settled, the pool
\* comes to hold exactly the addresses they name, however reloads, failed
\* lookups and removals went before, and stays there.
RegistryConverges ==
  <>[][dns' = dns /\ cfg' = cfg]_vars =>
    <>[](cfg # NoConfig /\ {addr(b) : b \in enrolled} = Wanted)

\* A backend that stays out of service, because its target was disabled or
\* it was removed, loses all its connections: the pool learns of the new
\* limit in time and calls the entry overloaded.  The token that was reserved
\* before may wait for a client as long as none comes.
DrainedBackendsEmpty ==
  \A b \in Backend : <>[](maxConnections[b] = 0) => <>[](Connections(b) = 0)
=============================================================================
