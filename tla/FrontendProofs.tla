--------------------------- MODULE FrontendProofs ---------------------------
(***************************************************************************)
(* Proofs about ServerLoop and Frontend, for every number of addresses,    *)
(* loops, connections and configuration files.                             *)
(*                                                                         *)
(* LoopInv is about the accept loops: a goroutine in Accept or later has a *)
(* token because it looks at the context between the preflight, which may  *)
(* answer no token when the context is done, and Accept; and the latch     *)
(* counts the handlers.  MainInv is about Ensure: what it has gone through *)
(* is in activeTargets and has its settings, and an entry without a        *)
(* listener is there only after a failed bind.  Unharmed is what holds for *)
(* as long as there is no fault; it needs MainInv at each step.            *)
(***************************************************************************)
EXTENDS Frontend, FiniteSetTheorems, TLAPS

TokenInAccept ==
  \A l \in Loop :
    /\ serve[l] \in {"accept", "hold"} => token[l]
    /\ serve[l] = "listen" /\ ~token[l] => Done(l)

LatchCounts == IsFiniteSet(held) /\ latch = Cardinality(held)

LoopInv == LoopTypeOK /\ TokenInAccept /\ LatchCounts

MainTypeOK ==
  /\ file \in File /\ seen \in BOOLEAN
  /\ cfg \in Seq(Setting)
  /\ pc \in {"ensure", "launch", "select", "stat", "decode", "wait"} \cup Ended
  /\ i \in Nat \ {0} /\ active \in SUBSET Bind
  /\ registered \in SUBSET Loop /\ starting \in SUBSET Loop /\ late \in BOOLEAN
  /\ maintenance \in [Loop -> Duration] /\ datagram \in SUBSET Loop
  /\ proxying \in SUBSET held

\* Ensure has taken the first i - 1 addresses into account.
Visited == \A k \in 1..Len(cfg) : k < i => cfg[k].bind \in active

\* Of the first n - 1 frontends, the last one for an address has its way.
Applied(n) ==
  \A k \in DOMAIN cfg : \A l \in registered :
    /\ k < n /\ bind(l) = cfg[k].bind
    /\ \A j \in DOMAIN cfg : k < j /\ j < n => cfg[j].bind # cfg[k].bind
    => maintenance[l] = cfg[k].maintenance

AppliedSoFar ==
  pc \in {"ensure", "launch"} \/ (pc = "select" /\ i > Len(cfg)) => Applied(i)

\* What a new balancer is made for.
LaunchReady ==
  pc = "launch" =>
    i <= Len(cfg) /\ fe.bind \in active /\ \A l \in registered : bind(l) # fe.bind

\* A goroutine that has not run yet was started for a frontend of this
\* configuration that has a ticker.
StartingHasTicker == starting # {} => \E k \in Reached : cfg[k].every > 0

UnboundIsBusy == \A l \in registered : listener[l] = "none" => bind(l) \in Busy

MainInv ==
  /\ MainTypeOK /\ Visited /\ AppliedSoFar /\ LaunchReady /\ StartingHasTicker
  /\ UnboundIsBusy /\ ListenersRegistered /\ DrainedMeansHeldEnded

Inv == LoopInv /\ MainInv

-----------------------------------------------------------------------------
(***************************************************************************)
(* The accept loops                                                        *)
(***************************************************************************)
LEMMA LoopInitInv == LoopInit => LoopInv
<1> SUFFICES ASSUME LoopInit PROVE LoopInv
  OBVIOUS
<1>1. LoopTypeOK
  BY DEF LoopInit, LoopTypeOK
<1>2. TokenInAccept
  BY DEF LoopInit, TokenInAccept
<1>3. LatchCounts
  BY FS_EmptySet DEF LoopInit, LatchCounts
<1> QED BY <1>1, <1>2, <1>3 DEF LoopInv

\* A handler more or less is one more or less in the latch.
LEMMA LatchStep ==
  ASSUME LatchCounts, NEW c
  PROVE  /\ c \notin held /\ held' = held \cup {c} /\ latch' = latch + 1 => LatchCounts'
         /\ c \in held /\ held' = held \ {c} /\ latch' = latch - 1 => LatchCounts'
BY FS_AddElement, FS_RemoveElement DEF LatchCounts

LEMMA LoopNextInv == LoopInv /\ LoopNext => LoopInv'
<1> SUFFICES ASSUME LoopInv, LoopNext PROVE LoopInv'
  OBVIOUS
<1> USE DEF LoopInv, contextVars, connVars
<1>1. ASSUME NEW l \in Loop, Preflight(l) \/ Listen(l) \/ AcceptTimeout(l) \/ AcceptFails(l)
      PROVE  LoopInv'
  <2>1. UNCHANGED <<signalled, stopped, owner, held, latch, listener>>
    BY <1>1 DEF Preflight, Listen, AcceptTimeout, AcceptFails
  <2>2. LatchCounts'
    BY <2>1 DEF LatchCounts
  <2>3. LoopTypeOK'
    BY <1>1, <2>1 DEF LoopTypeOK, Preflight, Listen, AcceptTimeout, AcceptFails, Exit
  <2>4. \A m \in Loop : Done(m)' <=> Done(m)
    BY <2>1 DEF Done
  <2>5. TokenInAccept'
    BY <1>1, <2>4
       DEF LoopTypeOK, TokenInAccept, Preflight, Listen, AcceptTimeout, AcceptFails, Exit
  <2> QED BY <2>2, <2>3, <2>5
<1>2. ASSUME NEW l \in Loop, NEW c \in Conn, Accept(l, c)
      PROVE  LoopInv'
  <2>1. LatchCounts'
    BY <1>2 DEF LatchCounts, Accept
  <2>2. LoopTypeOK'
    BY <1>2, LoopAssumption DEF LoopTypeOK, Accept
  <2>3. TokenInAccept'
    BY <1>2 DEF LoopTypeOK, TokenInAccept, Accept, Done
  <2> QED BY <2>1, <2>2, <2>3
<1>3. ASSUME NEW l \in Loop, NEW c \in Conn, Hold(l, c)
      PROVE  LoopInv'
  <2>1. LatchCounts'
    BY <1>3, LatchStep DEF Hold
  <2>2. LoopTypeOK'
    BY <1>3, LoopAssumption DEF LoopTypeOK, Hold
  <2>3. TokenInAccept'
    BY <1>3 DEF LoopTypeOK, TokenInAccept, Hold, Done
  <2> QED BY <2>1, <2>2, <2>3
<1>4. ASSUME NEW c \in Conn, HandlerReturns(c)
      PROVE  LoopInv'
  <2>1. LatchCounts'
    BY <1>4, LatchStep DEF HandlerReturns
  <2>2. held' = held \ {c} /\ c \in held /\ latch \in Nat
    BY <1>4 DEF HandlerReturns, LoopTypeOK
  <2>3. latch' \in Nat
    BY <2>1, FS_CardinalityType DEF LatchCounts
  <2>4. LoopTypeOK'
    BY <1>4, <2>2, <2>3 DEF LoopTypeOK, HandlerReturns
  <2>5. TokenInAccept'
    BY <1>4 DEF TokenInAccept, HandlerReturns, Done
  <2> QED BY <2>1, <2>4, <2>5
<1> QED BY <1>1, <1>2, <1>3, <1>4 DEF LoopNext

-----------------------------------------------------------------------------
(***************************************************************************)
(* The configuration                                                       *)
(***************************************************************************)
LEMMA DefaultsType ==
  DefaultEvery \in Duration /\ DefaultMaintenance \in Duration
BY DEF DefaultEvery, DefaultMaintenance, Duration, MaxDuration

\* Whatever the file holds, the settings keep their shape.
LEMMA DecodeConfigType ==
  ASSUME NEW f \in File, NEW old \in Seq(Setting)
  PROVE  DecodeConfig(f, old) \in Seq(Setting)
<1>1. f.frontends \in Seq(Setting)
  BY FileAssumption
<1>2. ASSUME NEW s \in Seq(Setting)
      PROVE  Validate(s) \in Seq(Setting)
  <2>1. \A x \in Setting : \A n, m \in Duration :
           [x EXCEPT !.every = n, !.maintenance = m] \in Setting
    BY DEF Setting
  <2>2. DOMAIN s = 1..Len(s) /\ Len(s) \in Nat /\ \A k \in 1..Len(s) : s[k] \in Setting
    BY <1>2
  <2>3. \A k \in 1..Len(s) :
          /\ OrDefault(s[k].every, DefaultEvery) \in Duration
          /\ OrDefault(s[k].maintenance, DefaultMaintenance) \in Duration
    BY <2>2, DefaultsType DEF Setting, OrDefault
  <2>4. \A k \in DOMAIN s : Validate(s)[k] \in Setting
    BY <2>1, <2>2, <2>3 DEF Validate
  <2>5. DOMAIN Validate(s) = 1..Len(s) /\ Validate(s) = [k \in 1..Len(s) |-> Validate(s)[k]]
    BY <2>2 DEF Validate
  <2> QED BY <2>2, <2>4, <2>5
<1> QED BY <1>1, <1>2 DEF DecodeConfig

\* The loop variable of Ensure is one of the settings, of a frontend that
\* Ensure has reached.
LEMMA FeType ==
  ASSUME MainTypeOK, Len(cfg) > 0
  PROVE  /\ \E k \in DOMAIN cfg : fe = cfg[k]
         /\ fe \in Setting
         /\ i <= Len(cfg) => fe = cfg[i]
BY DEF MainTypeOK, fe

LEMMA FeReached ==
  ASSUME MainTypeOK, Visited, Len(cfg) > 0
  PROVE  \E k \in Reached : fe = cfg[k]
<1> DEFINE m == IF i <= Len(cfg) THEN i ELSE Len(cfg)
<1>1. m \in DOMAIN cfg /\ fe = cfg[m]
  BY DEF MainTypeOK, fe
<1>2. \A j \in DOMAIN cfg : j < m => ParseTarget(cfg[j].bind)
  BY DEF MainTypeOK, Visited, ParseTarget
<1>3. m \in Reached
  BY <1>1, <1>2 DEF Reached
<1> QED BY <1>1, <1>3

-----------------------------------------------------------------------------
(***************************************************************************)
(* The main goroutine                                                      *)
(***************************************************************************)
LEMMA InitInv == Init => Inv
<1> SUFFICES ASSUME Init PROVE Inv
  OBVIOUS
<1>1. LoopInv
  BY LoopInitInv DEF Init
<1>2. MainTypeOK
  <2>1. file \in File /\ <<>> \in Seq(Setting) /\ cfg = DecodeConfig(file, <<>>)
    BY DEF Init
  <2>2. cfg \in Seq(Setting)
    BY <2>1, DecodeConfigType
  <2>3. maintenance \in [Loop -> Duration]
    BY DefaultsType DEF Init
  <2>4. file \in File /\ seen \in BOOLEAN /\ late \in BOOLEAN
    BY DEF Init
  <2>5. /\ pc \in {"ensure", "launch", "select", "stat", "decode", "wait"} \cup Ended
        /\ i \in Nat \ {0} /\ active \in SUBSET Bind
    BY DEF Init
  <2>6. /\ registered \in SUBSET Loop /\ starting \in SUBSET Loop
        /\ datagram \in SUBSET Loop /\ proxying \in SUBSET held
    BY DEF Init
  <2> QED BY <2>2, <2>3, <2>4, <2>5, <2>6 DEF MainTypeOK
<1>3. Visited /\ AppliedSoFar
  BY <1>2 DEF Init, MainTypeOK, Visited, AppliedSoFar, Applied
<1>4. LaunchReady /\ StartingHasTicker /\ UnboundIsBusy
  BY DEF Init, LaunchReady, StartingHasTicker, UnboundIsBusy
<1>5. ListenersRegistered /\ DrainedMeansHeldEnded
  BY DEF Init, LoopInit, ListenersRegistered, DrainedMeansHeldEnded
<1> QED BY <1>1, <1>2, <1>3, <1>4, <1>5 DEF Inv, MainInv

\* Applied(n + 1) after a step that leaves cfg alone.
OneMoreApplied(n) ==
  \A k \in DOMAIN cfg : \A l \in registered' :
    /\ k < n + 1 /\ bind(l) = cfg[k].bind
    /\ \A j \in DOMAIN cfg : k < j /\ j < n + 1 => cfg[j].bind # cfg[k].bind
    => maintenance'[l] = cfg[k].maintenance

\* One more frontend has configured its balancer, and no other.
LEMMA ConfiguredApplies ==
  ASSUME cfg \in Seq(Setting), i \in DOMAIN cfg, Applied(i), fe = cfg[i],
         UNCHANGED cfg, registered' \subseteq Loop,
         NEW S \in SUBSET registered', NEW fresh, Configure(S, fresh),
         \A l \in registered' : l \in S <=> bind(l) = fe.bind,
         registered' \ S \subseteq registered
  PROVE  OneMoreApplied(i)
<1> SUFFICES ASSUME NEW k \in DOMAIN cfg, NEW l \in registered',
                    k < i + 1, bind(l) = cfg[k].bind,
                    \A j \in DOMAIN cfg : k < j /\ j < i + 1 => cfg[j].bind # cfg[k].bind
             PROVE  maintenance'[l] = cfg[k].maintenance
  BY DEF OneMoreApplied
<1>1. /\ DOMAIN cfg = 1..Len(cfg) /\ Len(cfg) \in Nat
      /\ k \in Nat /\ i \in Nat /\ cfg[k] \in Setting /\ l \in Loop
  OBVIOUS
<1>3. CASE k = i
  <2>1. l \in S
    BY <1>3
  <2> QED BY <1>1, <1>3, <2>1 DEF Configure
<1>4. CASE k < i
  <2>1. cfg[i].bind # cfg[k].bind
    BY <1>1, <1>4
  <2>2. l \notin S /\ l \in registered
    BY <2>1
  <2>3. \A j \in DOMAIN cfg : k < j /\ j < i => cfg[j].bind # cfg[k].bind
    BY <1>1
  <2>4. maintenance[l] = cfg[k].maintenance
    BY <1>4, <2>2, <2>3 DEF Applied
  <2> QED BY <1>1, <2>2, <2>4 DEF Configure
<1> QED BY <1>1, <1>3, <1>4

\* Configure keeps the types.
LEMMA ConfigureType ==
  ASSUME MainTypeOK, fe \in Setting, NEW S \in SUBSET Loop, NEW fresh, Configure(S, fresh)
  PROVE  maintenance' \in [Loop -> Duration] /\ datagram' \in SUBSET Loop
BY DEF MainTypeOK, Configure, Setting

\* A step that leaves the loops, the list of them and the position in the
\* configuration alone.
LEMMA QuietInv ==
  ASSUME Inv,
         UNCHANGED <<stopped, listener, serve, token, owner, held, latch>>,
         UNCHANGED <<cfg, i, active, registered, late, maintenance, datagram>>,
         signalled' \in {signalled, TRUE}, starting' \subseteq starting,
         file' \in File, seen' \in BOOLEAN, proxying' \subseteq held,
         \/ pc' = pc
         \/ pc' \in {"stat", "decode", "wait", "crashed", "killed"}
         \/ pc' = "exited" /\ latch = 0
  PROVE  Inv'
<1> USE DEF Inv, MainInv
<1>1. LoopInv'
  BY DEF LoopInv, LoopTypeOK, TokenInAccept, LatchCounts, Done
<1>2. MainTypeOK'
  BY DEF MainTypeOK, Ended
<1>3. UNCHANGED <<fe, Reached>>
  BY DEF fe, Reached
<1>4. Visited' /\ AppliedSoFar' /\ LaunchReady' /\ StartingHasTicker' /\ UnboundIsBusy'
  BY <1>3 DEF Visited, AppliedSoFar, Applied, LaunchReady, StartingHasTicker, UnboundIsBusy
<1>5. ListenersRegistered'
  BY DEF ListenersRegistered
<1>6. latch = 0 => held = {}
  BY FS_EmptySet DEF LoopInv, LatchCounts
<1>7. DrainedMeansHeldEnded'
  BY <1>6 DEF DrainedMeansHeldEnded
<1> QED BY <1>1, <1>2, <1>4, <1>5, <1>7

\* The goroutines of the tickers and the handlers.
LEMMA GoroutineInv ==
  ASSUME Inv,
         \/ Unimplemented \/ LateTickerStarts
         \/ \E l \in Loop : TickerStarts(l)
         \/ \E c \in Conn : DialFails(c) \/ Proxy(c)
  PROVE  Inv'
<1>1. /\ UNCHANGED <<loopVars, fileVars, cfg, i, active, registered, late, balancerVars>>
      /\ starting' \subseteq starting
      /\ pc' \in {pc, "crashed"}
  BY DEF Unimplemented, LateTickerStarts, TickerStarts, DialFails, Proxy, tickerVars
<1>2. \A c \in Dialing : c \in held
  BY DEF Dialing
<1>3. proxying' \subseteq held
  BY <1>2 DEF Unimplemented, LateTickerStarts, TickerStarts, DialFails, Proxy,
              Inv, MainInv, MainTypeOK
<1>4. UNCHANGED <<signalled, stopped, listener, serve, token, owner, held, latch>>
  BY <1>1 DEF loopVars, contextVars, connVars
<1>5. UNCHANGED <<file, seen, maintenance, datagram>> /\ file \in File /\ seen \in BOOLEAN
  BY <1>1 DEF fileVars, balancerVars, Inv, MainInv, MainTypeOK
<1> QED BY <1>1, <1>3, <1>4, <1>5, QuietInv

\* The select of main, the signals and the file.
LEMMA SelectInv ==
  ASSUME Inv,
         \/ Tick \/ Leave \/ Drained \/ Signal \/ (\E f \in File : Write(f))
         \/ (Stat /\ pc' = "decode") \/ UNCHANGED vars
  PROVE  Inv'
<1> USE DEF Tick, Leave, Drained, Drainable, Signal, Write, Stat, EnsureAgain, vars
<1>1. /\ UNCHANGED <<stopped, listener, serve, token, owner, held, latch>>
      /\ signalled' \in {signalled, TRUE}
  BY DEF loopVars, contextVars, connVars
<1>2. UNCHANGED <<cfg, i, active, registered, starting, late, maintenance, datagram, proxying>>
  BY DEF mainVars, tickerVars, balancerVars
<1>3. file' \in File /\ seen' \in BOOLEAN /\ proxying' \subseteq held
  BY <1>2 DEF fileVars, Inv, MainInv, MainTypeOK
<1>4. \/ pc' = pc \/ pc' \in {"stat", "decode", "wait", "killed"}
      \/ pc' = "exited" /\ latch = 0
  BY DEF mainVars
<1> QED BY <1>1, <1>2, <1>3, <1>4, QuietInv

\* A new call of Ensure: nothing has been looked at yet.
LEMMA EnsureAgainInv ==
  ASSUME Inv, EnsureAgain, Stat \/ Decode
  PROVE  Inv'
<1> USE DEF Inv, MainInv
<1>1. /\ UNCHANGED <<loopVars, file, registered, maintenance, datagram, proxying>>
      /\ seen' \in BOOLEAN /\ cfg' \in {cfg, DecodeConfig(file, cfg)}
      /\ pc' = "ensure" /\ i' = 1 /\ active' = {} /\ starting' = {} /\ late' \in BOOLEAN
  BY DEF Stat, Decode, EnsureAgain, fileVars, balancerVars, MainTypeOK
<1>2. UNCHANGED <<listener, held>>
  BY <1>1 DEF loopVars, connVars
<1>3. cfg' \in Seq(Setting)
  BY <1>1, DecodeConfigType DEF MainTypeOK
<1>4. LoopInv'
  BY <1>1 DEF LoopInv, LoopTypeOK, TokenInAccept, LatchCounts, Done,
              loopVars, contextVars, connVars
<1>5. MainTypeOK'
  BY <1>1, <1>2, <1>3 DEF MainTypeOK
<1>6. Visited' /\ AppliedSoFar' /\ LaunchReady' /\ StartingHasTicker'
  BY <1>1, <1>3 DEF Visited, AppliedSoFar, Applied, LaunchReady, StartingHasTicker
<1>7. UnboundIsBusy' /\ ListenersRegistered' /\ DrainedMeansHeldEnded'
  BY <1>1, <1>2 DEF UnboundIsBusy, ListenersRegistered, DrainedMeansHeldEnded
<1> QED BY <1>4, <1>5, <1>6, <1>7

LEMMA EnsureInv == Inv /\ Ensure => Inv'
<1> SUFFICES ASSUME Inv, Ensure PROVE Inv'
  OBVIOUS
<1> USE DEF Inv, MainInv
<1>1. /\ pc = "ensure" /\ i <= Len(cfg)
      /\ UNCHANGED <<loopVars, fileVars, cfg, registered, starting, late, proxying>>
  BY DEF Ensure, tickerVars
<1>2. cfg \in Seq(Setting) /\ Len(cfg) \in Nat /\ i \in Nat \ {0} /\ Len(cfg) > 0
  BY <1>1 DEF MainTypeOK
<1>3. fe = cfg[i] /\ fe \in Setting
  BY <1>2, <1>1, FeType
<1>4. LoopInv'
  BY <1>1 DEF LoopInv, LoopTypeOK, TokenInAccept, LatchCounts, Done,
              loopVars, contextVars, connVars
<1>5. pc' \in {"ensure", "launch", "select"} /\ UNCHANGED <<listener, held>>
  BY <1>1 DEF Ensure, Unparsable, Existing, New, Continue, loopVars, connVars
<1>6. Reached' = Reached
  BY <1>1 DEF Reached
<1>7. /\ ListenersRegistered' /\ StartingHasTicker' /\ UnboundIsBusy'
      /\ DrainedMeansHeldEnded'
  BY <1>1, <1>5, <1>6 DEF ListenersRegistered, StartingHasTicker, UnboundIsBusy,
                          DrainedMeansHeldEnded
<1>8. CASE Unparsable
  <2>1. pc' = "select" /\ UNCHANGED <<i, active, maintenance, datagram>>
    BY <1>8 DEF Unparsable, balancerVars
  <2> QED BY <1>1, <1>2, <1>4, <1>5, <1>7, <2>1
          DEF MainTypeOK, Visited, AppliedSoFar, LaunchReady, fileVars
<1>9. CASE Existing
  <2> DEFINE S == {l \in registered : bind(l) = fe.bind}
  <2>1. /\ i' = i + 1 /\ pc' = "ensure" /\ active' = active \cup {cfg[i].bind}
        /\ Configure(S, {})
    BY <1>3, <1>9 DEF Existing, Continue
  <2>2. fe.bind \in Bind /\ S \in SUBSET Loop
    BY <1>9 DEF Existing, ParseTarget, MainTypeOK
  <2>3. /\ S \in SUBSET registered' /\ registered' \ S \subseteq registered
        /\ \A l \in registered' : l \in S <=> bind(l) = fe.bind
    BY <1>1
  <2> HIDE DEF S
  <2>4. maintenance' \in [Loop -> Duration] /\ datagram' \in SUBSET Loop
    BY <1>3, <2>1, <2>2, ConfigureType
  <2>5. MainTypeOK'
    BY <1>1, <1>3, <1>2, <1>5, <2>1, <2>2, <2>4 DEF MainTypeOK, fileVars
  <2>6. Visited' /\ LaunchReady'
    BY <1>1, <1>2, <2>1 DEF Visited, LaunchReady
  <2>7. AppliedSoFar'
    <3>1. Applied(i) /\ i \in DOMAIN cfg /\ UNCHANGED cfg /\ registered' \subseteq Loop
      BY <1>1, <1>2 DEF AppliedSoFar, MainTypeOK
    <3>2. OneMoreApplied(i)
      BY <1>2, <1>3, <2>1, <2>3, <3>1, ConfiguredApplies
    <3> QED BY <2>1, <3>1, <3>2 DEF AppliedSoFar, Applied, OneMoreApplied
  <2> QED BY <1>4, <1>7, <2>5, <2>6, <2>7
<1>10. CASE New
  <2>1. /\ pc' = "launch" /\ active' = active \cup {fe.bind}
        /\ UNCHANGED <<i, maintenance, datagram>>
    BY <1>10 DEF New, balancerVars
  <2>2. fe.bind \in Bind /\ \A l \in registered : bind(l) # fe.bind
    BY <1>10 DEF New, ParseTarget, Known
  <2>3. MainTypeOK'
    BY <1>1, <1>5, <2>1, <2>2 DEF MainTypeOK, fileVars
  <2>4. Visited' /\ AppliedSoFar'
    BY <1>1, <2>1 DEF Visited, AppliedSoFar, Applied
  <2>5. fe' = fe
    BY <1>1, <2>1 DEF fe
  <2>6. LaunchReady'
    BY <1>1, <2>1, <2>2, <2>5 DEF LaunchReady
  <2> QED BY <1>4, <1>7, <2>3, <2>4, <2>6
<1> QED BY <1>8, <1>9, <1>10 DEF Ensure

\* What Launch does to the loops, and to the list of them.
LEMMA LaunchLoopInv ==
  ASSUME Inv, NEW l \in Loop, Launch(l)
  PROVE  LoopInv'
<1>1. /\ l \notin registered /\ serve[l] \in {"off", "exited"}
      /\ stopped' = stopped \ {l} /\ UNCHANGED <<signalled, token, connVars>>
  BY DEF Launch, Unused
<1>2. /\ serve' = serve \/ serve' = [serve EXCEPT ![l] = "preflight"]
      /\ \E x \in {"open", "none"} : listener' = [listener EXCEPT ![l] = x]
  BY DEF Launch, Bound, BindFails
<1>3. LoopTypeOK'
  BY <1>1, <1>2 DEF Inv, LoopInv, LoopTypeOK, connVars
<1>4. LatchCounts'
  BY <1>1 DEF Inv, LoopInv, LatchCounts, connVars
<1>5. TokenInAccept'
  BY <1>1, <1>2 DEF Inv, LoopInv, LoopTypeOK, TokenInAccept, Done
<1> QED BY <1>3, <1>4, <1>5 DEF LoopInv

LEMMA LaunchInv ==
  ASSUME Inv, NEW l \in Loop, Launch(l)
  PROVE  Inv'
<1> USE DEF Inv, MainInv
<1>1. LoopInv'
  BY LaunchLoopInv
<1>2. /\ pc = "launch" /\ bind(l) = fe.bind /\ Unused(l)
      /\ registered' = registered \cup {l}
      /\ starting' = (IF fe.every > 0 THEN starting \cup {l} ELSE starting)
      /\ UNCHANGED <<file, seen, cfg, active, late, proxying, held>>
      /\ Configure({l}, {l})
  BY DEF Launch, fileVars, connVars
<1>3. i <= Len(cfg) /\ fe.bind \in active /\ \A m \in registered : bind(m) # fe.bind
  BY <1>2 DEF LaunchReady
<1>4. cfg \in Seq(Setting) /\ Len(cfg) \in Nat /\ i \in Nat \ {0} /\ Len(cfg) > 0
  BY <1>3 DEF MainTypeOK
<1>5. fe = cfg[i] /\ fe \in Setting /\ i \in DOMAIN cfg
  BY <1>3, <1>4, FeType
<1>6. listener \in [Loop -> {"none", "open", "closed"}] /\ l \notin registered
  BY <1>2 DEF LoopInv, LoopTypeOK, Unused
<1>7. \A m, n \in registered' : bind(m) = bind(n) => m = n
  BY <1>2, <1>3 DEF ListenersRegistered
<1>8. StartingHasTicker'
  <2>1. Reached' = Reached
    BY <1>2 DEF Reached
  <2>2. \E k \in Reached : fe = cfg[k]
    BY <1>4, FeReached
  <2> QED BY <1>2, <2>1, <2>2 DEF StartingHasTicker
<1>9. maintenance' \in [Loop -> Duration] /\ datagram' \in SUBSET Loop
  BY <1>2, <1>5, ConfigureType
<1>10. CASE Bound(l)
  <2>1. /\ pc' = "ensure" /\ i' = i + 1
        /\ listener' = [listener EXCEPT ![l] = "open"]
    BY <1>10 DEF Bound, Continue
  <2>2. MainTypeOK'
    BY <1>2, <1>9, <2>1 DEF MainTypeOK
  <2>3. Visited'
    BY <1>2, <1>3, <1>4, <1>5, <2>1 DEF Visited
  <2>4. LaunchReady' /\ DrainedMeansHeldEnded'
    BY <2>1 DEF LaunchReady, DrainedMeansHeldEnded
  <2>5. UnboundIsBusy'
    BY <1>2, <1>6, <2>1 DEF UnboundIsBusy, MainTypeOK
  <2>6. ListenersRegistered'
    BY <1>2, <1>6, <1>7, <2>1 DEF ListenersRegistered
  <2>7. AppliedSoFar'
    <3>1. /\ {l} \in SUBSET registered' /\ registered' \ {l} \subseteq registered
          /\ \A m \in registered' : m \in {l} <=> bind(m) = fe.bind
      BY <1>2, <1>3
    <3>2. Applied(i) /\ UNCHANGED cfg /\ registered' \subseteq Loop
      BY <1>2 DEF AppliedSoFar, MainTypeOK
    <3>3. OneMoreApplied(i)
      BY <1>2, <1>4, <1>5, <3>1, <3>2, ConfiguredApplies
    <3> QED BY <2>1, <3>2, <3>3 DEF AppliedSoFar, Applied, OneMoreApplied
  <2> QED BY <1>1, <1>8, <2>2, <2>3, <2>4, <2>5, <2>6, <2>7
<1>11. CASE BindFails(l)
  <2>1. /\ pc' = "select" /\ i' = i /\ bind(l) \in Busy
        /\ listener' = [listener EXCEPT ![l] = "none"]
    BY <1>2, <1>11 DEF BindFails
  <2>2. MainTypeOK'
    BY <1>2, <1>9, <2>1 DEF MainTypeOK
  <2>3. Visited' /\ LaunchReady' /\ DrainedMeansHeldEnded' /\ AppliedSoFar'
    BY <1>2, <1>3, <1>4, <2>1 DEF AppliedSoFar, Visited, LaunchReady, DrainedMeansHeldEnded
  <2>4. UnboundIsBusy'
    BY <1>2, <1>6, <2>1 DEF UnboundIsBusy, MainTypeOK
  <2>5. ListenersRegistered'
    BY <1>2, <1>6, <1>7, <2>1 DEF ListenersRegistered
  <2> QED BY <1>1, <1>8, <2>2, <2>3, <2>4, <2>5
<1> QED BY <1>10, <1>11 DEF Launch

\* What Ensure has gone through is all that the configuration lists.
LEMMA TeardownSpares ==
  ASSUME Inv, Teardown
  PROVE  BindsOf(cfg) \subseteq active
<1>1. cfg \in Seq(Setting) /\ i \in Nat /\ i > Len(cfg)
  BY DEF Inv, MainInv, MainTypeOK, Teardown
<1>2. \A k \in 1..Len(cfg) : cfg[k].bind \in active
  BY <1>1 DEF Inv, MainInv, Visited
<1> QED BY <1>1, <1>2 DEF BindsOf

LEMMA TeardownInv == Inv /\ Teardown => Inv'
<1> SUFFICES ASSUME Inv, Teardown PROVE Inv'
  OBVIOUS
<1> USE DEF Inv, MainInv
<1>1. /\ pc = "ensure"
      /\ UNCHANGED <<signalled, serve, token, owner, held, latch, file, seen>>
      /\ UNCHANGED <<cfg, i, active, starting, late, maintenance, datagram, proxying>>
  BY DEF Teardown, connVars, fileVars, tickerVars, balancerVars
<1>2. /\ listener \in [Loop -> {"none", "open", "closed"}]
      /\ stopped \in SUBSET Loop /\ registered \in SUBSET Loop
  BY DEF LoopInv, LoopTypeOK, MainTypeOK
<1>3. CASE \E l \in Gone : listener[l] = "none"
  <2>1. pc' = "crashed" /\ UNCHANGED <<stopped, listener, registered>>
    BY <1>3 DEF Teardown
  <2> QED BY <1>1, <2>1, QuietInv DEF MainTypeOK
<1>4. CASE ~\E l \in Gone : listener[l] = "none"
  <2>1. /\ stopped' = stopped \cup Gone /\ registered' = registered \ Gone
        /\ listener' = [l \in Loop |-> IF l \in Gone THEN "closed" ELSE listener[l]]
        /\ pc' = "select"
    BY <1>4 DEF Teardown, Stop
  <2>2. Gone \in SUBSET Loop
    BY <1>2 DEF Gone
  <2>3. LoopTypeOK' /\ LatchCounts'
    BY <1>1, <1>2, <2>1, <2>2 DEF LoopInv, LoopTypeOK, LatchCounts
  <2>4. TokenInAccept'
    BY <1>1, <2>1 DEF LoopInv, TokenInAccept, Done
  <2>5. MainTypeOK'
    BY <1>1, <2>1 DEF MainTypeOK
  <2>6. Reached' = Reached
    BY <1>1 DEF Reached
  <2>7. /\ Visited' /\ AppliedSoFar' /\ LaunchReady' /\ StartingHasTicker'
        /\ DrainedMeansHeldEnded'
    BY <1>1, <2>1, <2>6 DEF Visited, AppliedSoFar, Applied, LaunchReady,
                            StartingHasTicker, DrainedMeansHeldEnded
  <2>8. UnboundIsBusy' /\ ListenersRegistered'
    BY <1>1, <1>2, <2>1 DEF UnboundIsBusy, ListenersRegistered
  <2> QED BY <2>3, <2>4, <2>5, <2>7, <2>8 DEF LoopInv
<1> QED BY <1>3, <1>4

LEMMA ServeInv == Inv /\ Serve(LoopNext) => Inv'
<1> SUFFICES ASSUME Inv, Serve(LoopNext) PROVE Inv'
  OBVIOUS
<1> USE DEF Inv, MainInv
<1>1. LoopNext /\ Running
  BY DEF Serve
<1>2. /\ UNCHANGED <<file, seen, cfg, pc, i, active, registered>>
      /\ UNCHANGED <<starting, late, maintenance, datagram>>
      /\ proxying' \in SUBSET held'
  BY DEF Serve, fileVars, mainVars, tickerVars, balancerVars
<1>3. listener' = listener
  BY <1>1 DEF LoopNext, Preflight, Listen, AcceptTimeout, AcceptFails, Accept, Hold,
              HandlerReturns, Exit
<1>4. UNCHANGED <<fe, Reached>>
  BY <1>2 DEF fe, Reached
<1>5. LoopInv'
  BY <1>1, LoopNextInv
<1>6. MainTypeOK' /\ Visited' /\ AppliedSoFar' /\ LaunchReady' /\ StartingHasTicker'
  BY <1>2, <1>4 DEF MainTypeOK, Visited, AppliedSoFar, Applied, LaunchReady,
                    StartingHasTicker
<1>7. UnboundIsBusy' /\ ListenersRegistered' /\ DrainedMeansHeldEnded'
  BY <1>1, <1>2, <1>3 DEF UnboundIsBusy, ListenersRegistered, DrainedMeansHeldEnded,
                          Running, Ended
<1> QED BY <1>5, <1>6, <1>7

\* One case for each kind of step.
LEMMA NextCases ==
  ASSUME [Next]_vars
  PROVE  \/ Ensure \/ (\E l \in Loop : Launch(l)) \/ Teardown \/ Serve(LoopNext)
         \/ EnsureAgain /\ (Stat \/ Decode)
         \/ Unimplemented \/ LateTickerStarts \/ (\E l \in Loop : TickerStarts(l))
         \/ (\E c \in Conn : DialFails(c) \/ Proxy(c))
         \/ Tick \/ Leave \/ Drained \/ Signal \/ (\E f \in File : Write(f))
         \/ (Stat /\ pc' = "decode") \/ UNCHANGED vars
<1>1. Stat => EnsureAgain \/ pc' = "decode"
  BY DEF Stat
<1>2. Decode => EnsureAgain
  BY DEF Decode
<1> QED BY <1>1, <1>2 DEF Next, Main

LEMMA NextInv == Inv /\ [Next]_vars => Inv'
BY NextCases, EnsureInv, LaunchInv, TeardownInv, ServeInv, EnsureAgainInv, GoroutineInv,
   SelectInv

\* Whatever the files, the binds and the clients do, both parts of the
\* invariant hold: they need each other only through Unused and Drained.
THEOREM Invariance == Spec => []Inv
BY InitInv, NextInv, PTL DEF Spec

\* Type correctness of the main goroutine and of all accept loops.
THEOREM TypeCorrect == Spec => []TypeOK
<1>1. Inv => TypeOK
  BY DEF Inv, LoopInv, MainInv, MainTypeOK, TypeOK
<1> QED BY <1>1, Invariance, PTL

\* No handler starts without a token, although the preflight of a cancelled
\* loop may return neither a token nor an error (tcp.go:39, loop.go:112).
THEOREM HandlersHaveTokens == Spec => []HandlerHasToken
<1>1. Inv => HandlerHasToken
  BY DEF Inv, LoopInv, TokenInAccept, HandlerHasToken
<1> QED BY <1>1, Invariance, PTL

\* An open listener is always that of the one entry for its address, after
\* any sequence of reloads, failed binds and tear-downs (frontend.go:99).
THEOREM ListenersAreRegistered == Spec => []ListenersRegistered
<1>1. Inv => ListenersRegistered
  BY DEF Inv, MainInv
<1> QED BY <1>1, Invariance, PTL

\* The program reports a drain only when all handlers have returned
\* (main.go:165), for any number of connections and loops.
THEOREM DrainedAfterHandlers == Spec => []DrainedMeansHeldEnded
<1>1. Inv => DrainedMeansHeldEnded
  BY DEF Inv, MainInv
<1> QED BY <1>1, Invariance, PTL

\* However many frontends share an address, and whatever was configured before,
\* a complete Ensure leaves each balancer with the maintenance time of the last
\* frontend that has its address (frontend.go:142).
THEOREM SettingsAreApplied == Spec => []SettingsApplied
<1>1. Inv => SettingsApplied
  <2> SUFFICES ASSUME Inv, pc = "select", i > Len(cfg),
                      NEW k \in DOMAIN cfg, NEW l \in registered, bind(l) = cfg[k].bind,
                      \A j \in DOMAIN cfg : j > k => cfg[j].bind # cfg[k].bind
               PROVE  maintenance[l] = cfg[k].maintenance
    BY DEF SettingsApplied
  <2>1. cfg \in Seq(Setting) /\ i \in Nat /\ Applied(i)
    BY DEF Inv, MainInv, MainTypeOK, AppliedSoFar
  <2>2. DOMAIN cfg = 1..Len(cfg) /\ Len(cfg) \in Nat
    BY <2>1
  <2>3. k < i /\ \A j \in DOMAIN cfg : k < j /\ j < i => cfg[j].bind # cfg[k].bind
    BY <2>1, <2>2
  <2> QED BY <2>1, <2>3 DEF Applied
<1> QED BY <1>1, Invariance, PTL

\* An address that is in the configuration is never torn down: an Ensure that
\* gets as far as the tear-down has marked all of them (frontend.go:148).
THEOREM StopsOnlyGone == Spec => StopsOnlyWhatIsGone
<1>1. ASSUME Inv, [Next]_vars
      PROVE  \A l \in registered \ registered' : bind(l) \notin BindsOf(cfg)
  <2>1. CASE Teardown
    <3>1. \A l \in registered \ registered' : bind(l) \notin active
      BY <2>1 DEF Teardown, Gone
    <3> QED BY <1>1, <2>1, <3>1, TeardownSpares
  <2>2. CASE ~Teardown
    <3>1. registered \subseteq registered'
      BY <1>1, <2>2 DEF Next, Main, Ensure, Launch, Tick, Stat, Decode, Leave, Drained,
                        Signal, TickerStarts, LateTickerStarts, Unimplemented, DialFails,
                        Proxy, Write, Serve, vars
    <3> QED BY <3>1
  <2> QED BY <2>1, <2>2
<1>2. Inv /\ [Next]_vars =>
        [\A l \in registered \ registered' : bind(l) \notin BindsOf(cfg)]_vars
  BY <1>1
<1> QED BY <1>2, Invariance, PTL DEF Spec, StopsOnlyWhatIsGone

-----------------------------------------------------------------------------
(***************************************************************************)
(* Crashes                                                                 *)
(***************************************************************************)
\* A maintenance time that neither rand.Int63n nor NewTicker panics on.
Maintainable(n) == n > 0 /\ \A smear \in Smears(n) : Ticks(n, smear)

\* What a history without a fault leaves behind: nothing that a goroutine of
\* an earlier configuration, or an old handler, could panic on.
Unharmed ==
  /\ pc # "crashed" /\ ~late /\ datagram = {}
  /\ \A l \in Loop : Maintainable(maintenance[l])

LEMMA InitUnharmed == Init => Unharmed
<1>1. Maintainable(DefaultMaintenance)
  BY DEF Maintainable, DefaultMaintenance, Smears, Ticks, MaxDuration
<1> QED BY <1>1 DEF Init, Unharmed

\* Without a fault, what Ensure takes from the frontend it is at is harmless.
LEMMA FeHarmless ==
  ASSUME Inv, NoFault, Len(cfg) > 0
  PROVE  /\ fe \in Setting
         /\ ParseTarget(fe.bind) => fe.proto = "tcp" /\ fe.backends = "tcp"
                                    /\ Maintainable(fe.maintenance)
         /\ starting # {} => fe.every > 0
<1>1. \E k \in Reached : fe = cfg[k]
  BY FeReached DEF Inv, MainInv
<1>2. fe \in Setting
  BY FeType DEF Inv, MainInv
<1> QED BY <1>1, <1>2 DEF Inv, MainInv, StartingHasTicker, NoFault, Supported, Maintainable

\* A goroutine that has not run yet comes from a frontend of cfg.
LEMMA StartingNeedsFrontend ==
  ASSUME Inv, starting # {}
  PROVE  Len(cfg) > 0
BY DEF Inv, MainInv, MainTypeOK, StartingHasTicker, Reached

LEMMA ConfigureUnharmed ==
  ASSUME Unharmed, Maintainable(fe.maintenance), fe.backends = "tcp",
         NEW S, NEW fresh, Configure(S, fresh), pc' # "crashed", UNCHANGED late
  PROVE  Unharmed'
BY DEF Unharmed, Configure

LEMMA NextUnharmed == Inv /\ NoFault /\ Unharmed /\ [Next]_vars => Unharmed'
<1> SUFFICES ASSUME Inv, NoFault, Unharmed, [Next]_vars PROVE Unharmed'
  OBVIOUS
<1>1. CASE Ensure
  <2>1. Len(cfg) > 0 /\ pc' # "crashed" /\ UNCHANGED late
    BY <1>1 DEF Ensure, Unparsable, Existing, New, Continue, tickerVars,
                Inv, MainInv, MainTypeOK
  <2>2. CASE Existing
    BY <2>1, <2>2, FeHarmless, ConfigureUnharmed DEF Existing
  <2>3. CASE ~Existing
    BY <1>1, <2>1, <2>3 DEF Ensure, Unparsable, New, balancerVars, Unharmed
  <2> QED BY <2>2, <2>3
<1>2. CASE \E l \in Loop : Launch(l)
  <2>1. PICK l \in Loop : Launch(l)
    BY <1>2
  <2>2. i <= Len(cfg) /\ ParseTarget(fe.bind) /\ i \in Nat \ {0} /\ Len(cfg) \in Nat
    BY <2>1 DEF Launch, Inv, MainInv, MainTypeOK, LaunchReady, ParseTarget
  <2>3. pc' # "crashed" /\ UNCHANGED late /\ Configure({l}, {l})
    BY <2>1 DEF Launch, Bound, BindFails, Continue
  <2> QED BY <2>2, <2>3, FeHarmless, ConfigureUnharmed
<1>3. CASE Teardown
  <2>1. \A l \in Gone : listener[l] # "none"
    BY DEF Gone, NoFault, Inv, MainInv, UnboundIsBusy
  <2> QED BY <1>3, <2>1 DEF Teardown, tickerVars, balancerVars, Unharmed
<1>4. CASE Unimplemented
  <2>1. /\ i <= Len(cfg) /\ ParseTarget(fe.bind) /\ i \in Nat \ {0} /\ Len(cfg) \in Nat
        /\ fe.proto = "udp"
    BY <1>4 DEF Unimplemented, Inv, MainInv, MainTypeOK, LaunchReady, ParseTarget
  <2> QED BY <2>1, FeHarmless
<1>5. CASE EnsureAgain /\ (Stat \/ Decode)
  <2>1. starting # {} => ~(fe.every <= 0)
    BY StartingNeedsFrontend, FeHarmless DEF Setting, Duration
  <2>2. ~late' /\ UNCHANGED <<maintenance, datagram>> /\ pc' # "crashed"
    BY <1>5, <2>1 DEF EnsureAgain, Stat, Decode, balancerVars, Unharmed
  <2> QED BY <2>2 DEF Unharmed
<1>6. CASE LateTickerStarts \/ \E l \in Loop : TickerStarts(l)
  <2>1. ~LateTickerStarts
    BY DEF LateTickerStarts, Unharmed
  <2>2. PICK l \in Loop : TickerStarts(l)
    BY <1>6, <2>1
  <2>3. fe.every > 0
    BY <2>2, StartingNeedsFrontend, FeHarmless DEF TickerStarts
  <2> QED BY <2>2, <2>3 DEF TickerStarts, balancerVars, Unharmed
<1>7. CASE \E c \in Conn : DialFails(c) \/ Proxy(c)
  <2>1. PICK c \in Conn : DialFails(c) \/ Proxy(c)
    BY <1>7
  <2>2. ~DialFails(c)
    BY DEF DialFails, NoFault
  <2>3. c \in held /\ owner[c] \in Loop
    BY <2>1 DEF DialFails, Proxy, Dialing, Inv, LoopInv, LoopTypeOK
  <2>4. Maintainable(maintenance[owner[c]]) /\ owner[c] \notin datagram
    BY <2>3 DEF Unharmed
  <2>5. maintenance[owner[c]] \in Int
    BY <2>3 DEF Inv, MainInv, MainTypeOK, Duration
  <2>6. Smears(maintenance[owner[c]]) # {}
    BY <2>4, <2>5 DEF Maintainable, Smears
  <2>7. pc' = pc /\ UNCHANGED <<late, maintenance, datagram>>
    BY <2>1, <2>2, <2>4, <2>6 DEF Proxy, Maintainable, tickerVars, balancerVars
  <2> QED BY <2>7 DEF Unharmed
<1>8. CASE Serve(LoopNext)
  BY <1>8 DEF Serve, mainVars, tickerVars, balancerVars, Unharmed
<1>9. CASE \/ Tick \/ Leave \/ Drained \/ Signal \/ (\E f \in File : Write(f))
           \/ (Stat /\ pc' = "decode") \/ UNCHANGED vars
  <2>1. UNCHANGED <<late, maintenance, datagram>> /\ pc' # "crashed"
    BY <1>9 DEF Tick, Leave, Drained, Signal, Write, Stat, EnsureAgain, vars, mainVars,
                tickerVars, balancerVars, Unharmed
  <2> QED BY <2>1 DEF Unharmed
<1> QED BY <1>1, <1>2, <1>3, <1>4, <1>5, <1>6, <1>7, <1>8, <1>9, NextCases

\* As long as none of the faults comes up that NoFault rules out, the program
\* does not panic, whatever files, tear-downs, late goroutines, dials, clients
\* and signals come in whatever order.  Those faults are: a setting that is not
\* supported (frontend.go:140, tcp.go:55, 94 and 95), frontends with and without
\* a ticker in one file (frontend.go:105), a failed bind (frontend.go:151), and
\* a context that is done while a handler dials (tcp.go:42 and 46).
THEOREM CrashesNeedFaults == Spec => CrashNeedsFault
<1>1. Unharmed => pc # "crashed"
  BY DEF Unharmed
<1> QED BY <1>1, InitUnharmed, NextUnharmed, Invariance, PTL DEF Spec, CrashNeedsFault
=============================================================================
