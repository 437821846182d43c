--------------------------- MODULE BalancerProofs ---------------------------
(***************************************************************************)
(* Proofs about Balancer, for every number of addresses, targets and       *)
(* configurations.                                                         *)
(*                                                                         *)
(* That an address is enrolled once rests on the map that Configure works  *)
(* with: it begins as the contents of the pool, has one Backend for an     *)
(* address at all times, and all that is added to the pool comes from it.  *)
(*                                                                         *)
(* The tiers rest on where the loop over the samples stands: what it has   *)
(* assigned is no slower than what it has not, and the present group       *)
(* begins at its first sample.                                             *)
(***************************************************************************)
EXTENDS Balancer, FiniteSetTheorems, TLAPS

ConfigureState ==
  [pc : {"idle", "target", "address", "update", "drain"}, tolerate : BOOLEAN,
   i : Nat, todo : SUBSET Address, canonical : SUBSET Backend, inUse : SUBSET Backend]

\* The part of TypeOK that Configure relies on.
ConfigureTypeOK ==
  /\ dns \in [Target -> SUBSET Address]
  /\ cfg \in Config \cup {NoConfig}
  /\ enrolled \in SUBSET Backend
  /\ configure \in ConfigureState
  /\ configure.pc # "idle" => cfg \in Config
  /\ configure.pc = "idle" => configure = Idle
  /\ configure.pc \in {"target", "address"} => configure.i \in 1..Len(cfg.targets)

OnePerAddress(S) == \A b, c \in S : addr(b) = addr(c) => b = c

CanonicalMap ==
  /\ OnePerAddress(configure.canonical)
  /\ configure.inUse \subseteq configure.canonical
  /\ configure.pc # "idle" => enrolled \subseteq configure.canonical

Inv == ConfigureTypeOK /\ CanonicalMap /\ OneBackendPerAddress

-----------------------------------------------------------------------------
LEMMA IdleType ==
  /\ Idle \in ConfigureState /\ Idle.pc = "idle"
  /\ Idle.canonical = {} /\ Idle.inUse = {}
BY DEF Idle, ConfigureState

LEMMA InitInv == Init => Inv
<1> SUFFICES ASSUME Init PROVE Inv
  OBVIOUS
<1>1. configure.pc = "idle" /\ configure = Idle /\ enrolled = {}
  BY DEF Init, Idle
<1>2. ConfigureTypeOK
  BY <1>1, IdleType, ConfigAssumption DEF Init, ConfigureTypeOK
<1>3. CanonicalMap /\ OneBackendPerAddress
  BY <1>1, IdleType DEF CanonicalMap, OneBackendPerAddress, OnePerAddress
<1> QED BY <1>2, <1>3 DEF Inv

\* A configuration is a sequence of settings for targets.
LEMMA TargetsType ==
  ASSUME NEW c \in Config
  PROVE  /\ c.targets \in Seq([target : Target, tier : Nat, max : Nat, disabled : BOOLEAN])
         /\ Len(c.targets) \in Nat
         /\ \A i \in 1..Len(c.targets) : c.targets[i].target \in Target
<1> DEFINE S == [target : Target, tier : Nat, max : Nat, disabled : BOOLEAN]
<1>1. c.targets \in Seq(S)
  BY ConfigAssumption
<1>2. \A s \in S : s.target \in Target
  OBVIOUS
<1> HIDE DEF S
<1>3. Len(c.targets) \in Nat /\ \A i \in 1..Len(c.targets) : c.targets[i] \in S
  BY <1>1
<1> QED BY <1>1, <1>2, <1>3 DEF S

\* The next target is within the configuration, and the map is kept.
LEMMA NextTargetFacts ==
  ASSUME cfg \in Config, NEW c \in ConfigureState, c.i \in 1..Len(cfg.targets)
  PROVE  /\ NextTarget(c) \in ConfigureState
         /\ NextTarget(c).pc \in {"target", "update"}
         /\ NextTarget(c).pc = "target" => NextTarget(c).i \in 1..Len(cfg.targets)
         /\ NextTarget(c).canonical = c.canonical
         /\ NextTarget(c).inUse = c.inUse
<1>1. Len(cfg.targets) \in Nat
  BY TargetsType
<1>2. CASE c.i < Len(cfg.targets)
  <2>1. NextTarget(c) = [c EXCEPT !.pc = "target", !.i = @ + 1]
    BY <1>2 DEF NextTarget
  <2>2. c.i + 1 \in 1..Len(cfg.targets) /\ c.i + 1 \in Nat
    BY <1>1, <1>2
  <2> QED BY <2>1, <2>2 DEF ConfigureState
<1>3. CASE ~(c.i < Len(cfg.targets))
  <2>1. NextTarget(c) = [c EXCEPT !.pc = "update"]
    BY <1>3 DEF NextTarget
  <2> QED BY <2>1 DEF ConfigureState
<1> QED BY <1>2, <1>3

LEMMA ConfigureInv ==
  ASSUME Inv, NEW c \in Config, NEW tolerate \in Tolerate, Configure(c, tolerate)
  PROVE  Inv'
<1>1. /\ configure' = [Idle EXCEPT !.pc = IF c.targets = <<>> THEN "update" ELSE "target",
                                   !.tolerate = tolerate, !.i = 1, !.canonical = enrolled]
      /\ cfg' = c /\ UNCHANGED <<dns, enrolled>>
  BY DEF Configure, poolVars
<1>2. tolerate \in BOOLEAN /\ enrolled \in SUBSET Backend
  BY NumbersAssumption DEF Inv, ConfigureTypeOK
<1>3. /\ configure' \in ConfigureState
      /\ configure'.pc = (IF c.targets = <<>> THEN "update" ELSE "target")
      /\ configure'.i = 1 /\ configure'.canonical = enrolled /\ configure'.inUse = {}
  BY <1>1, <1>2 DEF Idle, ConfigureState
<1>4. c.targets # <<>> => 1 \in 1..Len(c.targets)
  BY TargetsType
<1>5. ConfigureTypeOK'
  BY <1>1, <1>3, <1>4 DEF Inv, ConfigureTypeOK
<1>6. CanonicalMap' /\ OneBackendPerAddress'
  BY <1>1, <1>3 DEF Inv, CanonicalMap, OneBackendPerAddress, OnePerAddress
<1> QED BY <1>5, <1>6 DEF Inv

LEMMA ResolveInv == Inv /\ Resolve => Inv'
<1> SUFFICES ASSUME Inv, Resolve PROVE Inv'
  OBVIOUS
<1> DEFINE addrs == Addresses(cfg.targets[configure.i].target)
<1>1. /\ configure.pc = "target" /\ UNCHANGED <<dns, cfg, enrolled>>
      /\ configure' = IF addrs = {} THEN OnLookupError
                      ELSE [configure EXCEPT !.pc = "address", !.todo = addrs]
  BY DEF Resolve, poolVars
<1>2. /\ cfg \in Config /\ configure \in ConfigureState
      /\ configure.i \in 1..Len(cfg.targets)
  BY <1>1 DEF Inv, ConfigureTypeOK
<1>3. addrs \in SUBSET Address
  BY <1>2, TargetsType DEF Inv, ConfigureTypeOK, Addresses
<1> HIDE DEF addrs
<1>4. CASE configure' = Idle
  <2>1. ConfigureTypeOK'
    BY <1>1, <1>4, IdleType DEF Inv, ConfigureTypeOK
  <2>2. CanonicalMap' /\ OneBackendPerAddress'
    BY <1>1, <1>4, IdleType
       DEF Inv, CanonicalMap, OneBackendPerAddress, OnePerAddress
  <2> QED BY <2>1, <2>2 DEF Inv
<1>5. CASE configure' # Idle
  <2>1. /\ configure' \in ConfigureState /\ configure'.pc # "idle"
        /\ configure'.pc \in {"target", "address"} => configure'.i \in 1..Len(cfg.targets)
        /\ configure'.canonical = configure.canonical
        /\ configure'.inUse = configure.inUse
    <3>1. CASE addrs = {}
      BY <1>1, <1>2, <1>5, <3>1, NextTargetFacts DEF OnLookupError
    <3>2. CASE addrs # {}
      BY <1>1, <1>2, <1>3, <3>2 DEF ConfigureState
    <3> QED BY <3>1, <3>2
  <2>2. ConfigureTypeOK'
    BY <1>1, <1>2, <2>1 DEF Inv, ConfigureTypeOK
  <2>3. CanonicalMap' /\ OneBackendPerAddress'
    BY <1>1, <2>1 DEF Inv, CanonicalMap, OneBackendPerAddress, OnePerAddress
  <2> QED BY <2>2, <2>3 DEF Inv
<1> QED BY <1>4, <1>5

LEMMA ConfigureBackendInv ==
  ASSUME Inv, NEW b \in Backend, ConfigureBackend(b)
  PROVE  Inv'
<1> DEFINE c == [configure EXCEPT !.todo = @ \ {addr(b)},
                                  !.canonical = @ \cup {b}, !.inUse = @ \cup {b}]
<1>1. /\ configure.pc = "address" /\ b \in Lookup(addr(b))
      /\ configure' \in {c, NextTarget(c)}
      /\ UNCHANGED <<dns, cfg, enrolled>>
  BY DEF ConfigureBackend, poolVars
<1>2. /\ cfg \in Config /\ configure \in ConfigureState
      /\ configure.i \in 1..Len(cfg.targets)
  BY <1>1 DEF Inv, ConfigureTypeOK
<1>3. /\ c \in ConfigureState /\ c.pc = "address" /\ c.i = configure.i
      /\ c.canonical = configure.canonical \cup {b}
      /\ c.inUse = configure.inUse \cup {b}
  BY <1>1, <1>2 DEF ConfigureState
<1> HIDE DEF c
<1>4. /\ configure' \in ConfigureState /\ configure'.pc # "idle"
      /\ configure'.pc \in {"target", "address"} => configure'.i \in 1..Len(cfg.targets)
      /\ configure'.canonical = configure.canonical \cup {b}
      /\ configure'.inUse = configure.inUse \cup {b}
  BY <1>1, <1>2, <1>3, NextTargetFacts
<1>5. \A x \in configure.canonical : addr(x) = addr(b) => x = b
  BY <1>1 DEF Lookup, Inv, CanonicalMap, OnePerAddress
<1>6. ConfigureTypeOK'
  BY <1>1, <1>2, <1>4 DEF Inv, ConfigureTypeOK
<1>7. CanonicalMap'
  BY <1>1, <1>4, <1>5 DEF Inv, CanonicalMap, OnePerAddress
<1>8. OneBackendPerAddress'
  BY <1>1 DEF Inv, OneBackendPerAddress
<1> QED BY <1>6, <1>7, <1>8 DEF Inv

\* What is enrolled after a step that keeps the map of Configure is part of it.
LEMMA MapKept ==
  ASSUME Inv, UNCHANGED <<dns, cfg>>,
         configure'.pc # "idle", configure.pc # "idle",
         configure' \in ConfigureState,
         configure'.pc \in {"target", "address"} => configure'.i \in 1..Len(cfg.targets),
         configure'.canonical = configure.canonical, configure'.inUse = configure.inUse,
         enrolled' \subseteq configure.canonical
  PROVE  Inv'
<1>1. ConfigureTypeOK'
  BY DEF Inv, ConfigureTypeOK, ConfigureState
<1>2. CanonicalMap' /\ OneBackendPerAddress'
  BY DEF Inv, CanonicalMap, OneBackendPerAddress, OnePerAddress
<1> QED BY <1>1, <1>2 DEF Inv

LEMMA UpdateInv ==
  ASSUME Inv, (\E b \in Backend : Add(b) \/ Remove(b)) \/ Drain \/ Configured
  PROVE  Inv'
<1> USE DEF poolVars
<1>1. configure \in ConfigureState /\ enrolled \in SUBSET Backend
  BY DEF Inv, ConfigureTypeOK
<1>2. ASSUME NEW b \in Backend, Add(b) PROVE Inv'
  <2>1. /\ configure.pc = "update" /\ UNCHANGED <<dns, cfg, configure>>
        /\ enrolled' = enrolled \cup {b} /\ b \in configure.inUse
    BY <1>2 DEF Add
  <2> QED BY <1>1, <2>1, MapKept DEF Inv, CanonicalMap
<1>3. ASSUME NEW b \in Backend, Remove(b) PROVE Inv'
  <2>1. /\ configure.pc = "update" /\ UNCHANGED <<dns, cfg>>
        /\ enrolled' \subseteq enrolled
        /\ configure' = [configure EXCEPT !.pc = "drain"]
    BY <1>3 DEF Remove
  <2>2. /\ configure' \in ConfigureState /\ configure'.pc = "drain"
        /\ configure'.canonical = configure.canonical /\ configure'.inUse = configure.inUse
    BY <1>1, <2>1 DEF ConfigureState
  <2> QED BY <2>1, <2>2, MapKept DEF Inv, CanonicalMap
<1>4. CASE Drain
  <2>1. /\ configure.pc = "drain" /\ UNCHANGED <<dns, cfg, enrolled>>
        /\ configure' = [configure EXCEPT !.pc = "update"]
    BY <1>4 DEF Drain
  <2>2. /\ configure' \in ConfigureState /\ configure'.pc = "update"
        /\ configure'.canonical = configure.canonical /\ configure'.inUse = configure.inUse
    BY <1>1, <2>1 DEF ConfigureState
  <2> QED BY <2>1, <2>2, MapKept DEF Inv, CanonicalMap
<1>5. CASE Configured
  <2>1. configure' = Idle /\ UNCHANGED <<dns, cfg, enrolled>>
    BY <1>5 DEF Configured
  <2>2. ConfigureTypeOK'
    BY <2>1, IdleType DEF Inv, ConfigureTypeOK
  <2>3. CanonicalMap' /\ OneBackendPerAddress'
    BY <2>1, IdleType DEF Inv, CanonicalMap, OneBackendPerAddress, OnePerAddress
  <2> QED BY <2>2, <2>3 DEF Inv
<1> QED BY <1>2, <1>3, <1>4, <1>5

\* The steps of everybody else leave Configure and the pool's list alone.
LEMMA OthersInv ==
  ASSUME Inv, UNCHANGED <<cfg, enrolled, configure>>,
         dns' \in [Target -> SUBSET Address]
  PROVE  Inv'
<1>1. ConfigureTypeOK'
  BY DEF Inv, ConfigureTypeOK
<1>2. CanonicalMap' /\ OneBackendPerAddress'
  BY DEF Inv, CanonicalMap, OneBackendPerAddress, OnePerAddress
<1> QED BY <1>1, <1>2 DEF Inv

LEMMA NextInv == Inv /\ [Next]_vars => Inv'
<1> SUFFICES ASSUME Inv, [Next]_vars PROVE Inv'
  OBVIOUS
<1> USE DEF poolVars, backendVars
<1>1. ASSUME NEW c \in Config, NEW tolerate \in Tolerate, Configure(c, tolerate)
      PROVE  Inv'
  BY <1>1, ConfigureInv
<1>2. CASE ConfigureStep
  <2>1. CASE Resolve
    BY <2>1, ResolveInv
  <2>2. CASE \E b \in Backend : ConfigureBackend(b)
    BY <2>2, ConfigureBackendInv
  <2>3. CASE (\E b \in Backend : Add(b) \/ Remove(b)) \/ Drain \/ Configured
    BY <2>3, UpdateInv
  <2> QED BY <1>2, <2>1, <2>2, <2>3 DEF ConfigureStep
<1>3. dns \in [Target -> SUBSET Address]
  BY DEF Inv, ConfigureTypeOK
<1>4. CASE RebalanceStep
  <2>1. UNCHANGED <<dns, cfg, enrolled, configure>>
    BY <1>4 DEF RebalanceStep, Rebalance, All, PoolRebalance, Probe, AssignTier
  <2> QED BY <1>3, <2>1, OthersInv
<1>5. ASSUME NEW b \in Backend,
             (\E tried \in SUBSET enrolled : Pick(b, tried)) \/ Disconnect(b) \/ Reenable(b)
      PROVE  Inv'
  <2>1. UNCHANGED <<dns, cfg, enrolled, configure>>
    BY <1>5 DEF Pick, Disconnect, Reenable
  <2> QED BY <1>3, <2>1, OthersInv
<1>6. CASE Accept \/ UNCHANGED vars
  <2>1. UNCHANGED <<dns, cfg, enrolled, configure>>
    BY <1>6 DEF Accept, vars
  <2> QED BY <1>3, <2>1, OthersInv
<1>7. ASSUME NEW t \in Target, NEW addrs \in Answers, Redirect(t, addrs)
      PROVE  Inv'
  <2>1. dns' = [dns EXCEPT ![t] = addrs] /\ UNCHANGED <<cfg, enrolled, configure>>
    BY <1>7 DEF Redirect
  <2>2. addrs \in SUBSET Address
    BY ConfigAssumption
  <2> QED BY <1>3, <2>1, <2>2, OthersInv
<1> QED BY <1>1, <1>2, <1>4, <1>5, <1>6, <1>7 DEF Next

\* However targets overlap, whatever the resolver answers, and wherever a
\* reload gives up, no two Backends that are enrolled at the same time have the
\* same address (balancer.go:99).  Backends that were removed may have it too,
\* and open connections.
THEOREM OneBackendForAddress == Spec => []OneBackendPerAddress
<1>1. Inv => OneBackendPerAddress
  BY DEF Inv
<1> QED BY <1>1, InitInv, NextInv, PTL DEF Spec

-----------------------------------------------------------------------------
(***************************************************************************)
(* The rest of the types: the numbers that Configure, Rebalance and the    *)
(* pool write into the Backends and read from each other.                  *)
(***************************************************************************)
Partial(R) == UNION {[S -> R] : S \in SUBSET Backend}

RebalanceState ==
  [pc : {"idle", "list", "probe", "assign"}, bucket : Int, todo : SUBSET Backend,
   samples : Partial(Latency), start : Nat, tier : Nat, assigned : Partial(Nat)]

NumbersOK ==
  /\ maxConnections \in [Backend -> Nat]
  /\ disabled \in [Backend -> BOOLEAN]
  /\ tier \in [Backend -> Nat]
  /\ load \in [Backend -> Nat]
  /\ maxLoad \in [Backend -> Nat]
  /\ reserved \in SUBSET Backend

(***************************************************************************)
(* Rebalance gives out tiers in the order of the latencies.  Up to where   *)
(* it is, each tier but the current one has only what was measured below   *)
(* start, the first latency of the current one, and the current one only   *)
(* what is within the bucket of start.                                     *)
(***************************************************************************)
Sorted ==
  LET samples == rebalance.samples
      assigned == rebalance.assigned
      todo == rebalance.todo
  IN /\ todo \subseteq DOMAIN samples /\ DOMAIN assigned = DOMAIN samples \ todo
     /\ DOMAIN samples # {} => rebalance.bucket > 0
     /\ \A x \in todo : /\ rebalance.start <= samples[x]
                        /\ \A b \in DOMAIN assigned : samples[b] <= samples[x]
     /\ \A b \in DOMAIN assigned :
          /\ assigned[b] <= rebalance.tier
          /\ assigned[b] = rebalance.tier =>
               /\ rebalance.start <= samples[b]
               /\ samples[b] < rebalance.start + rebalance.bucket
          /\ assigned[b] # rebalance.tier => samples[b] < rebalance.start

GroupInv ==
  /\ rebalance \in RebalanceState
  /\ rebalance.pc # "assign" =>
       rebalance.assigned = <<>> /\ rebalance.start = 0 /\ rebalance.tier = 0
  /\ rebalance.pc \in {"list", "probe"} => rebalance.bucket > 0
  /\ rebalance.pc = "assign" => Sorted
  /\ LatencyGroupsFit

LEMMA PartialType ==
  ASSUME NEW R
  PROVE  /\ <<>> \in Partial(R) /\ DOMAIN <<>> = {}
         /\ \A f \in Partial(R) : /\ DOMAIN f \subseteq Backend
                                  /\ f \in [DOMAIN f -> R]
                                  /\ \A x \in DOMAIN f : f[x] \in R
         /\ \A S \in SUBSET Backend : [S -> R] \subseteq Partial(R)
<1>1. DOMAIN <<>> = {}
  OBVIOUS
<1>2. <<>> \in [{} -> R]
  OBVIOUS
<1>3. \A S \in SUBSET Backend : [S -> R] \subseteq Partial(R)
  BY DEF Partial
<1>4. <<>> \in Partial(R)
  BY <1>2, <1>3
<1>5. \A f \in Partial(R) : \E S \in SUBSET Backend : f \in [S -> R]
  BY DEF Partial
<1> QED BY <1>1, <1>3, <1>4, <1>5

LEMMA RestingType ==
  /\ Resting \in RebalanceState /\ Resting.pc = "idle"
  /\ Resting.bucket = 0 /\ Resting.todo = {} /\ Resting.samples = <<>>
  /\ Resting.start = 0 /\ Resting.tier = 0 /\ Resting.assigned = <<>>
BY PartialType DEF Resting, RebalanceState

LEMMA InitGroup == Init => GroupInv
<1> SUFFICES ASSUME Init PROVE GroupInv
  OBVIOUS
<1>1. rebalance = Resting
  BY DEF Init
<1> QED BY <1>1, RestingType, PartialType DEF GroupInv, LatencyGroupsFit

LEMMA RebalanceGroup ==
  ASSUME Inv, GroupInv, Rebalance
  PROVE  GroupInv'
<1>1. cfg \in Config /\ cfg.bucket \in Int
  BY ConfigAssumption DEF Rebalance, Inv, ConfigureTypeOK
<1>2. /\ rebalance' \in RebalanceState
      /\ rebalance'.pc = (IF cfg.bucket > 0 THEN "list" ELSE "assign")
      /\ rebalance'.bucket = cfg.bucket /\ rebalance'.todo = {}
      /\ rebalance'.samples = <<>> /\ rebalance'.assigned = <<>>
      /\ rebalance'.start = 0 /\ rebalance'.tier = 0
  BY <1>1, PartialType DEF Rebalance, Resting, RebalanceState
<1> QED BY <1>1, <1>2, PartialType DEF GroupInv, Sorted, LatencyGroupsFit

\* The loop over what is to be probed goes on, or hands the samples over.
LEMMA ProbedGroup ==
  ASSUME NEW r \in RebalanceState, r.pc = "probe", r.bucket > 0,
         r.assigned = <<>>, r.start = 0, r.tier = 0,
         rebalance' = Probed(r)
  PROVE  GroupInv'
<1>1. /\ r.samples \in Partial(Latency) /\ DOMAIN r.samples \subseteq Backend
      /\ \A x \in DOMAIN r.samples : r.samples[x] \in Nat
  BY PartialType, NumbersAssumption DEF RebalanceState
<1>2. CASE r.todo = {}
  <2>1. rebalance' = [r EXCEPT !.pc = "assign", !.todo = DOMAIN r.samples]
    BY <1>2 DEF Probed
  <2>2. /\ rebalance' \in RebalanceState
        /\ rebalance'.pc = "assign" /\ rebalance'.todo = DOMAIN r.samples
        /\ rebalance'.samples = r.samples /\ rebalance'.assigned = <<>>
        /\ rebalance'.start = 0 /\ rebalance'.tier = 0
        /\ rebalance'.bucket = r.bucket
    BY <1>1, <2>1 DEF RebalanceState
  <2> QED BY <1>1, <2>2, PartialType DEF GroupInv, Sorted, LatencyGroupsFit
<1>3. CASE r.todo # {}
  <2>1. rebalance' = r
    BY <1>3 DEF Probed
  <2> QED BY <2>1, PartialType DEF GroupInv, LatencyGroupsFit
<1> QED BY <1>2, <1>3

LEMMA AllGroup ==
  ASSUME Inv, GroupInv, All
  PROVE  GroupInv'
<1> DEFINE r == [rebalance EXCEPT !.pc = "probe", !.todo = enrolled]
<1>1. /\ r \in RebalanceState /\ r.pc = "probe"
      /\ r.bucket = rebalance.bucket /\ r.assigned = rebalance.assigned
      /\ r.start = rebalance.start /\ r.tier = rebalance.tier
  BY DEF GroupInv, RebalanceState, Inv, ConfigureTypeOK
<1>2. rebalance.pc = "list" /\ rebalance' = Probed(r)
  BY DEF All
<1> HIDE DEF r
<1> QED BY <1>1, <1>2, ProbedGroup DEF GroupInv

LEMMA ProbeGroup ==
  ASSUME GroupInv, NEW b \in Backend, Probe(b)
  PROVE  GroupInv'
<1> DEFINE s == rebalance.samples
           left == [rebalance EXCEPT !.todo = @ \ {b}]
           sampled(l) == [rebalance EXCEPT !.todo = @ \ {b},
             !.samples = [x \in DOMAIN s \cup {b} |-> IF x = b THEN l ELSE s[x]]]
<1>1. /\ rebalance.pc = "probe" /\ rebalance \in RebalanceState
      /\ rebalance.bucket > 0 /\ rebalance.assigned = <<>>
      /\ rebalance.start = 0 /\ rebalance.tier = 0
  BY DEF Probe, GroupInv
<1>2. ASSUME NEW l \in Latency, rebalance' = Probed(sampled(l))
      PROVE  GroupInv'
  <2>1. /\ s \in Partial(Latency) /\ DOMAIN s \subseteq Backend
        /\ \A x \in DOMAIN s : s[x] \in Latency
    BY <1>1, PartialType DEF RebalanceState
  <2>2. [x \in DOMAIN s \cup {b} |-> IF x = b THEN l ELSE s[x]]
          \in [DOMAIN s \cup {b} -> Latency]
    BY <2>1
  <2>3. [x \in DOMAIN s \cup {b} |-> IF x = b THEN l ELSE s[x]] \in Partial(Latency)
    BY <2>1, <2>2, PartialType
  <2>4. /\ sampled(l) \in RebalanceState /\ sampled(l).pc = "probe"
        /\ sampled(l).bucket = rebalance.bucket
        /\ sampled(l).assigned = rebalance.assigned
        /\ sampled(l).start = 0 /\ sampled(l).tier = 0
    BY <1>1, <2>3 DEF RebalanceState
  <2> HIDE DEF sampled
  <2> QED BY <1>1, <1>2, <2>4, ProbedGroup
<1>3. CASE rebalance' = Probed(left)
  <2>1. /\ left \in RebalanceState /\ left.pc = "probe"
        /\ left.bucket = rebalance.bucket /\ left.assigned = rebalance.assigned
        /\ left.start = 0 /\ left.tier = 0
    BY <1>1 DEF RebalanceState
  <2> HIDE DEF left
  <2> QED BY <1>1, <1>3, <2>1, ProbedGroup
<1>4. (\E l \in Latency : rebalance' = Probed(sampled(l))) \/ rebalance' = Probed(left)
  BY DEF Probe
<1> QED BY <1>2, <1>3, <1>4

\* The next sample in the order of latencies joins the current tier, or is the
\* first of the next one.
LEMMA AssignGroup ==
  ASSUME GroupInv, NEW b \in Backend, AssignTier(b)
  PROVE  GroupInv'
<1> DEFINE s == rebalance.samples
           l == s[b]
           r == Group(rebalance, l)
           a == rebalance.assigned
           D == DOMAIN a \cup {b}
           given == [x \in D |-> IF x = b THEN r.tier ELSE a[x]]
<1>1. /\ rebalance \in RebalanceState /\ Sorted /\ LatencyGroupsFit
      /\ b \in rebalance.todo /\ \A x \in rebalance.todo : l <= s[x]
  BY DEF AssignTier, GroupInv
<1>2. /\ rebalance.bucket \in Int /\ rebalance.start \in Nat /\ rebalance.tier \in Nat
      /\ s \in Partial(Latency) /\ DOMAIN s \subseteq Backend
      /\ \A x \in DOMAIN s : s[x] \in Nat
      /\ a \in Partial(Nat) /\ DOMAIN a \subseteq Backend
      /\ \A x \in DOMAIN a : a[x] \in Nat
  BY <1>1, PartialType, NumbersAssumption DEF RebalanceState
<1>3. /\ b \in DOMAIN s /\ l \in Nat /\ rebalance.bucket > 0
      /\ rebalance.start <= l /\ \A x \in DOMAIN a : s[x] <= l
      /\ rebalance.todo \subseteq DOMAIN s /\ DOMAIN a = DOMAIN s \ rebalance.todo
  BY <1>1, <1>2 DEF Sorted
<1>4. /\ r \in RebalanceState
      /\ r.pc = "assign" /\ r.todo = rebalance.todo /\ r.samples = s /\ r.assigned = a
      /\ r.bucket = rebalance.bucket
      /\ r.start = (IF l >= rebalance.bucket + rebalance.start THEN l ELSE rebalance.start)
      /\ r.tier = (IF l >= rebalance.bucket + rebalance.start
                   THEN rebalance.tier + 1 ELSE rebalance.tier)
  <2>1. rebalance.pc = "assign"
    BY DEF AssignTier
  <2>2. CASE l >= rebalance.bucket + rebalance.start
    <3>1. r = [rebalance EXCEPT !.start = l, !.tier = @ + 1]
      BY <2>2 DEF Group
    <3>2. l \in Nat /\ rebalance.tier + 1 \in Nat
      BY <1>2, <1>3
    <3> HIDE DEF r, l
    <3> QED BY <1>1, <2>1, <2>2, <3>1, <3>2 DEF RebalanceState
  <2>3. CASE ~(l >= rebalance.bucket + rebalance.start)
    <3>1. r = rebalance
      BY <2>3 DEF Group
    <3> QED BY <1>1, <1>2, <2>1, <2>3, <3>1
  <2> QED BY <2>2, <2>3
<1>5. rebalance' = [r EXCEPT !.todo = @ \ {b},
        !.assigned = [x \in DOMAIN r.assigned \cup {b} |->
                        IF x = b THEN r.tier ELSE r.assigned[x]]]
  BY DEF AssignTier
<1> HIDE DEF r, s, a
<1>6. given \in [D -> Nat] /\ D \in SUBSET Backend
  BY <1>2, <1>4
<1>7. given \in Partial(Nat) /\ DOMAIN given = D
  BY <1>6, PartialType
<1>8. /\ rebalance' = [r EXCEPT !.todo = @ \ {b}, !.assigned = given]
      /\ \A x \in D : given[x] = IF x = b THEN r.tier ELSE a[x]
  BY <1>4, <1>5
<1> HIDE DEF given, D
<1>9. /\ rebalance' \in RebalanceState /\ rebalance'.pc = "assign"
      /\ rebalance'.todo = rebalance.todo \ {b} /\ rebalance'.samples = s
      /\ rebalance'.assigned = given /\ rebalance'.bucket = rebalance.bucket
      /\ rebalance'.start = r.start /\ rebalance'.tier = r.tier
  BY <1>4, <1>7, <1>8 DEF RebalanceState
<1>10. b \notin DOMAIN a /\ D = DOMAIN s \ (rebalance.todo \ {b})
  BY <1>1, <1>3 DEF D
<1>11. \A x \in DOMAIN a :
         /\ a[x] <= rebalance.tier
         /\ a[x] = rebalance.tier =>
              rebalance.start <= s[x] /\ s[x] < rebalance.start + rebalance.bucket
         /\ a[x] # rebalance.tier => s[x] < rebalance.start
  BY <1>1 DEF Sorted, s, a
<1>12. \A x \in DOMAIN a : given[x] = a[x] /\ x \in D
  BY <1>8, <1>10 DEF D
<1>13. given[b] = r.tier /\ b \in D
  BY <1>8 DEF D
<1>14. \A x \in D : x \in DOMAIN a \/ x = b
  BY DEF D
<1>15. \A x \in D :
         /\ given[x] <= r.tier
         /\ given[x] = r.tier => r.start <= s[x] /\ s[x] < r.start + rebalance.bucket
         /\ given[x] # r.tier => s[x] < r.start
  BY <1>2, <1>3, <1>4, <1>11, <1>12, <1>13, <1>14
<1>16. Sorted'
  <2>1. \A x \in rebalance.todo \ {b} : r.start <= s[x] /\ \A y \in D : s[y] <= s[x]
    <3> SUFFICES ASSUME NEW x \in rebalance.todo \ {b}
                 PROVE  r.start <= s[x] /\ \A y \in D : s[y] <= s[x]
      OBVIOUS
    <3>1. rebalance.start <= s[x] /\ \A y \in DOMAIN a : s[y] <= s[x]
      BY <1>1 DEF Sorted, s, a
    <3> QED BY <1>1, <1>4, <1>14, <3>1 DEF s
  <2>2. rebalance.todo \ {b} \subseteq DOMAIN s
    BY <1>3
  <2> QED BY <1>3, <1>7, <1>9, <1>10, <1>15, <2>1, <2>2 DEF Sorted
<1>17. LatencyGroupsFit'
  <2> SUFFICES ASSUME NEW x \in D, NEW y \in D
               PROVE  /\ s[y] - s[x] >= 0 => given[x] <= given[y]
                      /\ given[x] = given[y] => s[y] - s[x] <= rebalance.bucket
    BY <1>7, <1>9 DEF LatencyGroupsFit
  <2>1. CASE x \in DOMAIN a /\ y \in DOMAIN a
    BY <1>1, <1>12, <2>1 DEF LatencyGroupsFit, s, a
  <2>2. s[x] \in Nat /\ s[y] \in Nat /\ given[x] \in Nat /\ given[y] \in Nat
    BY <1>2, <1>3, <1>6, <1>10 DEF given
  <2>3. CASE y = b
    BY <1>2, <1>3, <1>4, <1>13, <1>14, <1>15, <2>2, <2>3
  <2>4. CASE x = b
    BY <1>2, <1>3, <1>4, <1>13, <1>14, <1>15, <2>2, <2>4
  <2> QED BY <1>14, <2>1, <2>3, <2>4
<1> QED BY <1>9, <1>16, <1>17 DEF GroupInv

LEMMA NextGroup ==
  ASSUME Inv, GroupInv, [Next]_vars
  PROVE  GroupInv'
<1>1. CASE RebalanceStep
  <2>1. CASE PoolRebalance
    <3>1. rebalance' = Resting
      BY <2>1 DEF PoolRebalance
    <3> QED BY <3>1, RestingType, PartialType DEF GroupInv, LatencyGroupsFit
  <2> QED BY <1>1, <2>1, RebalanceGroup, AllGroup, ProbeGroup, AssignGroup
          DEF RebalanceStep
<1>2. CASE UNCHANGED rebalance
  BY <1>2 DEF GroupInv, Sorted, LatencyGroupsFit
<1>3. RebalanceStep \/ UNCHANGED rebalance
  BY DEF Next, vars, poolVars, backendVars, ConfigureStep, Configure, Resolve, Drain,
         Configured, ConfigureBackend, Add, Remove, Pick, Disconnect, Reenable,
         Accept, Redirect
<1> QED BY <1>1, <1>2, <1>3

\* The latencies that one Rebalance puts in a tier are no further apart than
\* the bucket, and a slower backend is in no nearer tier (latency.go:29,
\* config.go:86), however many backends answer and in whatever order, and
\* whatever Configure does between the probes.
THEOREM LatencyGroups == Spec => []LatencyGroupsFit
<1>1. GroupInv => LatencyGroupsFit
  BY DEF GroupInv
<1> QED BY <1>1, InitInv, NextInv, InitGroup, NextGroup, PTL DEF Spec

-----------------------------------------------------------------------------
LEMMA MaxLoadType ==
  ASSUME NumbersOK
  PROVE  /\ \A b \in Backend : MaxLoad(b) \in Nat
         /\ \A S : SampledOn(S) \in [Backend -> Nat]
<1>1. \A b \in Backend : MaxLoad(b) \in Nat
  BY DEF NumbersOK, MaxLoad
<1>2. \A S : SampledOn(S) \in [Backend -> Nat]
  BY <1>1 DEF NumbersOK, SampledOn
<1> QED BY <1>1, <1>2

LEMMA InitNumbers == Init => NumbersOK
BY DEF Init, NumbersOK

LEMMA ConfigureNumbers ==
  ASSUME Inv, NumbersOK,
         ConfigureStep \/ \E c \in Config, tolerate \in Tolerate : Configure(c, tolerate)
  PROVE  NumbersOK'
<1> USE DEF NumbersOK, backendVars, poolVars
<1>1. ASSUME NEW b \in Backend, ConfigureBackend(b) PROVE NumbersOK'
  <2> DEFINE t == cfg.targets[configure.i]
             S == [target : Target, tier : Nat, max : Nat, disabled : BOOLEAN]
  <2>1. cfg \in Config /\ configure.i \in 1..Len(cfg.targets)
    BY <1>1 DEF ConfigureBackend, Inv, ConfigureTypeOK
  <2>2. t \in S
    <3>1. cfg.targets \in Seq(S)
      BY <2>1, TargetsType
    <3> HIDE DEF S
    <3> QED BY <2>1, <3>1
  <2>3. t.tier \in Nat /\ t.max \in Nat
    BY <2>2
  <2> HIDE DEF t
  <2>4. LimitOf(t) \in Nat
    BY <2>3, NumbersAssumption DEF LimitOf
  <2>5. /\ maxConnections' = [maxConnections EXCEPT ![b] = LimitOf(t)]
        /\ tier' = [tier EXCEPT ![b] = t.tier]
        /\ disabled' = [disabled EXCEPT ![b] = @ /\ b \in configure.canonical]
        /\ UNCHANGED poolVars
    BY <1>1 DEF ConfigureBackend, t
  <2> QED BY <2>3, <2>4, <2>5
<1>2. ASSUME NEW b \in Backend, Add(b) PROVE NumbersOK'
  BY <1>2, MaxLoadType DEF Add
<1>3. CASE Drain
  <2>1. /\ maxConnections' \in [Backend -> Nat]
        /\ UNCHANGED <<disabled, tier, load, maxLoad, reserved>>
    BY <1>3 DEF Drain
  <2> QED BY <2>1
<1>4. CASE \/ Resolve \/ Configured \/ \E b \in Backend : Remove(b)
           \/ \E c \in Config, tolerate \in Tolerate : Configure(c, tolerate)
  <2>1. UNCHANGED <<maxConnections, disabled, tier, load, maxLoad, reserved>>
    BY <1>4 DEF Resolve, Configured, Remove, Configure
  <2> QED BY <2>1
<1> QED BY <1>1, <1>2, <1>3, <1>4 DEF ConfigureStep

LEMMA RebalanceNumbers ==
  ASSUME GroupInv, NumbersOK, RebalanceStep
  PROVE  NumbersOK'
<1> USE DEF NumbersOK, backendVars, poolVars
<1>1. ASSUME NEW b \in Backend, AssignTier(b) PROVE NumbersOK'
  <2> DEFINE l == rebalance.samples[b]
             r == Group(rebalance, l)
  <2>1. /\ rebalance \in RebalanceState /\ b \in DOMAIN rebalance.samples
    BY <1>1 DEF AssignTier, GroupInv, Sorted
  <2>2. l \in Latency /\ rebalance.tier \in Nat
    BY <2>1, PartialType DEF RebalanceState
  <2>3. r.tier \in Nat
    BY <2>1, <2>2 DEF Group, RebalanceState
  <2>4. /\ tier' = [tier EXCEPT ![b] = r.tier]
        /\ UNCHANGED <<maxConnections, disabled, poolVars>>
    BY <1>1 DEF AssignTier
  <2> HIDE DEF r, l
  <2> QED BY <2>2, <2>3, <2>4
<1>2. CASE PoolRebalance
  BY <1>2, MaxLoadType DEF PoolRebalance
<1>3. ASSUME NEW b \in Backend, Probe(b) PROVE NumbersOK'
  <2>1. /\ disabled' \in {disabled, [disabled EXCEPT ![b] = TRUE]}
        /\ UNCHANGED <<maxConnections, tier, poolVars>>
    BY <1>3 DEF Probe, Disable
  <2> QED BY <2>1
<1>4. CASE Rebalance \/ All
  <2>1. UNCHANGED <<maxConnections, disabled, tier, load, maxLoad, reserved>>
    BY <1>4 DEF Rebalance, All
  <2> QED BY <2>1
<1> QED BY <1>1, <1>2, <1>3, <1>4 DEF RebalanceStep

\* A connection that ends is one that the load counts.
LEMMA ClientNumbers ==
  ASSUME Inv, NumbersOK, NEW b \in Backend,
         \/ \E tried \in SUBSET enrolled : Pick(b, tried)
         \/ Disconnect(b) \/ Reenable(b) \/ Accept
  PROVE  NumbersOK'
<1> USE DEF NumbersOK, backendVars
<1>1. ASSUME NEW tried \in SUBSET enrolled, Pick(b, tried) PROVE NumbersOK'
  <2>1. /\ load' = [load EXCEPT ![b] = @ + 1]
        /\ maxLoad' = SampledOn(tried \cup {b})
        /\ reserved' \in {reserved} \cup (IF reserved = {} THEN {{b}} ELSE {})
        /\ UNCHANGED backendVars
    BY <1>1 DEF Pick
  <2>2. reserved' \in SUBSET Backend
    BY <2>1
  <2>3. load' \in [Backend -> Nat]
    BY <2>1
  <2>4. maxLoad' \in [Backend -> Nat]
    BY <2>1, MaxLoadType
  <2> QED BY <2>1, <2>2, <2>3, <2>4
<1>2. CASE Disconnect(b)
  <2>1. /\ Connections(b) > 0 /\ load' = [load EXCEPT ![b] = @ - 1]
        /\ maxLoad' = SampledOn({b} \cap enrolled)
        /\ UNCHANGED <<backendVars, reserved>>
    BY <1>2 DEF Disconnect
  <2>2. Cardinality(reserved \cap {b}) \in Nat
    <3>1. CASE b \in reserved
      <4>1. reserved \cap {b} = {b}
        BY <3>1
      <4>2. Cardinality({b}) = 1
        BY FS_Singleton
      <4> QED BY <4>1, <4>2
    <3>2. CASE b \notin reserved
      <4>1. reserved \cap {b} = {}
        BY <3>2
      <4> QED BY <4>1, FS_EmptySet
    <3> QED BY <3>1, <3>2
  <2>3. load[b] - 1 \in Nat
    BY <2>1, <2>2 DEF Connections
  <2>4. maxLoad' \in [Backend -> Nat]
    BY <2>1, MaxLoadType
  <2> QED BY <2>1, <2>3, <2>4
<1>3. CASE Reenable(b)
  BY <1>3 DEF Reenable, poolVars
<1>4. CASE Accept
  BY <1>4 DEF Accept
<1> QED BY <1>1, <1>2, <1>3, <1>4

LEMMA NextNumbers ==
  ASSUME Inv, GroupInv, NumbersOK, [Next]_vars
  PROVE  NumbersOK'
<1>1. CASE Accept
  <2>1. UNCHANGED <<maxConnections, disabled, tier, load, maxLoad>>
        /\ reserved' = {}
    BY <1>1 DEF Accept, backendVars
  <2> QED BY <2>1 DEF NumbersOK
<1>2. CASE UNCHANGED vars \/ \E t \in Target, addrs \in Answers : Redirect(t, addrs)
  <2>1. UNCHANGED <<maxConnections, disabled, tier, load, maxLoad, reserved>>
    BY <1>2 DEF vars, Redirect, backendVars, poolVars
  <2> QED BY <2>1 DEF NumbersOK
<1> QED BY <1>1, <1>2, ConfigureNumbers, RebalanceNumbers, ClientNumbers DEF Next

\* The types of all that Configure, Rebalance and the clients work on.  A load
\* stays a natural number because a connection that ends is one that it counts;
\* a limit is a number whatever the target says (balancer.go:118).
THEOREM TypeCorrect == Spec => []TypeOK
<1>1. ASSUME Inv, GroupInv, NumbersOK PROVE TypeOK
  <2>1. rebalance \in RebalanceState
    BY <1>1 DEF GroupInv
  <2>2. \E S \in SUBSET Backend : rebalance.samples \in [S -> Latency]
    <3>1. rebalance.samples \in Partial(Latency)
      BY <2>1 DEF RebalanceState
    <3> QED BY <3>1 DEF Partial
  <2>3. \E S \in SUBSET DOMAIN rebalance.samples : rebalance.assigned \in [S -> Nat]
    <3>1. DOMAIN rebalance.assigned \in SUBSET DOMAIN rebalance.samples
      BY <1>1, PartialType DEF GroupInv, Sorted
    <3>2. rebalance.assigned \in Partial(Nat)
      BY <2>1 DEF RebalanceState
    <3> QED BY <3>1, <3>2, PartialType
  <2>4. /\ rebalance.pc \in {"idle", "list", "probe", "assign"}
        /\ rebalance.bucket \in Int /\ rebalance.todo \subseteq Backend
        /\ rebalance.start \in Nat /\ rebalance.tier \in Nat
    BY <2>1 DEF RebalanceState
  <2>5. (configure.pc = "idle") <=> (configure = Idle)
    BY <1>1, IdleType DEF Inv, ConfigureTypeOK
  <2> QED BY <1>1, <2>2, <2>3, <2>4, <2>5
          DEF TypeOK, NumbersOK, Inv, ConfigureTypeOK, ConfigureState
<1> QED BY <1>1, InitInv, NextInv, InitGroup, NextGroup, InitNumbers, NextNumbers, PTL
        DEF Spec
=============================================================================
