------------------------------- MODULE Frontend -------------------------------
(***************************************************************************)
(* The main goroutine of cmd/iaido, and Frontend.Ensure of pkg/frontend,   *)
(* which it calls on each tick: it reads the configuration file again when *)
(* its time has changed, starts a server loop for each new address and     *)
(* stops the loops of those that are gone; after a signal it waits for the *)
(* connections to end.                                                     *)
(*                                                                         *)
(* DecodeConfig decodes a file into the live Config: one with an error of  *)
(* type or an unknown field (dirty) leaves there what could be decoded,    *)
(* not validated; one without the key frontends (silent) or that is no     *)
(* YAML (unreadable) leaves the old ones, validated again or not.          *)
(***************************************************************************)
EXTENDS ServerLoop, Sequences

CONSTANTS
  File,      \* [kind, frontends]
  Free, Busy \* the addresses that can be bound, and those that another program
             \* may have taken; an address can be both, at times

\* The range of a time.Duration, cut down: 1 is the shortest one.
MaxDuration == 20
Duration == -MaxDuration..MaxDuration

\* Config.Frontends.  ParseTarget does not understand the bind "unparsable";
\* every is the RebalanceDuration and maintenance the MaintenanceTime, 0 when
\* the file has none; backends is "udp" when one of the targets is.
Setting == [bind : Bind \cup {"unparsable"}, proto : {"tcp", "udp"},
            backends : {"tcp", "udp"}, every : Duration, maintenance : Duration]

Kind == {"clean", "dirty", "silent", "unreadable", "missing"}

ASSUME BindAssumption == Bind = Free \cup Busy /\ "unparsable" \notin Bind
ASSUME FileAssumption ==
  File \subseteq [kind : Kind, frontends : Seq(Setting)]

VARIABLES
  file,        \* what the file is now
  seen,        \* mTime is its time
  cfg,         \* cfg.Frontends
  pc,          \* ensure, launch (a new balancer is ready), select, stat, decode,
               \* wait (in fe.Wait), or how it ended: exited, crashed, killed
  i, active,   \* in Ensure: the position in cfg.Frontends, and activeTargets
  registered,  \* the loops in f.mu.loops
  starting,    \* the loops launched by this call of Ensure, or the last one,
               \* whose ticker goroutine has not run yet
  late,        \* one of an earlier call has not either, and finds a period there
               \* that is not positive
  maintenance, \* of each balancer: its MaintenanceTime, once it is configured
  datagram,    \* the balancers that have been given a backend for UDP
  proxying     \* the connections whose handler has a backend, in proxy

mainVars == <<cfg, pc, i, active>>
fileVars == <<file, seen>>
tickerVars == <<starting, late>>
balancerVars == <<maintenance, datagram>>
vars == <<loopVars, fileVars, mainVars, registered, tickerVars, balancerVars, proxying>>

Ended == {"exited", "crashed", "killed"}
Running == pc \notin Ended
BindsOf(frontends) == {frontends[k].bind : k \in DOMAIN frontends}

\* The loop variable of a call of Ensure, which the ticker goroutines of the
\* loops that it launches share with it.
fe == cfg[IF i <= Len(cfg) THEN i ELSE Len(cfg)]

ParseTarget(b) == b \in Bind

DefaultEvery == 2
DefaultMaintenance == 6
OrDefault(n, default) == IF n = 0 THEN default ELSE n

\* Config.Validate stops at the first error; what it has set until then stays.
Validate(frontends) ==
  [k \in DOMAIN frontends |->
     IF \A j \in 1..k : ParseTarget(frontends[j].bind)
     THEN [frontends[k] EXCEPT !.every = OrDefault(@, DefaultEvery),
                               !.maintenance = OrDefault(@, DefaultMaintenance)]
     ELSE frontends[k]]

\* What decoding file f leaves in a Config that held old.
DecodeConfig(f, old) ==
  CASE f.kind = "clean"  -> Validate(f.frontends)
    [] f.kind = "dirty"  -> f.frontends
    [] f.kind = "silent" -> Validate(old)
    [] OTHER             -> old

Good(f) == f.kind = "clean" /\ \A b \in BindsOf(f.frontends) : ParseTarget(b)

-----------------------------------------------------------------------------
(***************************************************************************)
(* Ensure                                                                  *)
(***************************************************************************)
Continue == pc' = "ensure" /\ i' = i + 1

\* Mutant of Unparsable: the loop is left, but not the function.
UnparsableBreak ==
  /\ ~ParseTarget(fe.bind)
  /\ i' = Len(cfg) + 1
  /\ UNCHANGED <<pc, active, balancerVars>>

Unparsable ==
  /\ ~ParseTarget(fe.bind)
  /\ pc' = "select"
  /\ UNCHANGED <<i, active, balancerVars>>

Known(b) == \E l \in registered : bind(l) = b

\* Balancer.Configure, as far as the handlers see it, for the balancers S, of
\* which those in fresh have been made just now.  (A backend for UDP may be
\* removed again, but a token that is out may still be for it.)
Configure(S, fresh) ==
  /\ maintenance' = [l \in Loop |-> IF l \in S THEN fe.maintenance ELSE maintenance[l]]
  /\ datagram' = (datagram \ fresh) \cup (IF fe.backends = "udp" THEN S ELSE {})

\* Mutant of Existing: a balancer keeps its first settings.
ExistingUnchanged ==
  /\ ParseTarget(fe.bind) /\ Known(fe.bind)
  /\ active' = active \cup {fe.bind}
  /\ Continue /\ UNCHANGED balancerVars

\* The balancer, and only the balancer, gets the new settings.
Existing ==
  /\ ParseTarget(fe.bind) /\ Known(fe.bind)
  /\ active' = active \cup {fe.bind}
  /\ Configure({l \in registered : bind(l) = fe.bind}, {})
  /\ Continue

\* A new balancer is configured, and probes its backends: that takes time.
New ==
  /\ ParseTarget(fe.bind) /\ ~Known(fe.bind)
  /\ active' = active \cup {fe.bind}
  /\ pc' = "launch" /\ UNCHANGED <<i, balancerVars>>

Ensure ==
  /\ pc = "ensure" /\ i <= Len(cfg)
  /\ Unparsable \/ Existing \/ New
  /\ UNCHANGED <<loopVars, fileVars, cfg, registered, tickerVars, proxying>>

\* Objects that nothing refers to: what &balanceLoop{} may return.
Unused(l) ==
  /\ l \notin registered \cup starting
  /\ serve[l] \in {"off", "exited"}
  /\ \A c \in Conn : owner[c] # l

\* Mutant of Bound: bl.listener is not set.
BoundUnnoted(l) ==
  /\ fe.proto = "tcp" /\ fe.bind \in Free
  /\ serve' = [serve EXCEPT ![l] = "preflight"]
  /\ UNCHANGED listener
  /\ Continue

Bound(l) ==
  /\ fe.proto = "tcp" /\ fe.bind \in Free
  /\ serve' = [serve EXCEPT ![l] = "preflight"]
  /\ listener' = [listener EXCEPT ![l] = "open"]
  /\ Continue

BindFails(l) ==
  /\ fe.proto = "tcp" /\ fe.bind \in Busy
  /\ listener' = [listener EXCEPT ![l] = "none"]
  /\ pc' = "select"
  /\ UNCHANGED <<serve, i>>

\* (What is stored before the panic is of no use to anybody.)
Unimplemented ==
  /\ pc = "launch" /\ fe.proto = "udp"
  /\ pc' = "crashed"
  /\ UNCHANGED <<loopVars, fileVars, cfg, i, active, registered, tickerVars, balancerVars,
                 proxying>>

\* The entry is stored first, the listener set later.  (Which of the unused
\* names the new object gets makes no difference.)
Launch(l) ==
  /\ pc = "launch"
  /\ bind(l) = fe.bind /\ Unused(l)
  /\ l = CHOOSE m \in Loop : bind(m) = fe.bind /\ Unused(m)
  /\ registered' = registered \cup {l}
  /\ starting' = IF fe.every > 0 THEN starting \cup {l} ELSE starting
  /\ stopped' = stopped \ {l}
  /\ Configure({l}, {l})
  /\ Bound(l) \/ BindFails(l)
  /\ UNCHANGED <<signalled, token, connVars, fileVars, cfg, active, late, proxying>>

\* time.NewTicker panics on a period that is not positive.
TickerStarts(l) ==
  /\ Running /\ l \in starting
  /\ starting' = starting \ {l}
  /\ pc' = IF fe.every > 0 THEN pc ELSE "crashed"
  /\ UNCHANGED <<loopVars, fileVars, cfg, i, active, registered, late, balancerVars,
                 proxying>>

\* The same for a goroutine that has been overtaken by the next call of Ensure.
LateTickerStarts ==
  /\ Running /\ late
  /\ pc' = "crashed"
  /\ UNCHANGED <<loopVars, fileVars, cfg, i, active, registered, tickerVars,
                 balancerVars, proxying>>

Gone == {l \in registered : bind(l) \notin active}

\* Mutant of Stop: the listener is left open.
StopServing(S) ==
  /\ stopped' = stopped \cup S
  /\ UNCHANGED listener

\* Mutant of Stop: the context is not cancelled.
StopClosing(S) ==
  /\ listener' = [l \in Loop |-> IF l \in S THEN "closed" ELSE listener[l]]
  /\ UNCHANGED stopped

Stop(S) ==
  /\ stopped' = stopped \cup S
  /\ listener' = [l \in Loop |-> IF l \in S THEN "closed" ELSE listener[l]]

\* An entry without a listener makes Close panic.
Teardown ==
  /\ pc = "ensure" /\ i > Len(cfg)
  /\ IF \E l \in Gone : listener[l] = "none"
     THEN pc' = "crashed" /\ UNCHANGED <<stopped, listener, registered>>
     ELSE /\ Stop(Gone)
          /\ registered' = registered \ Gone
          /\ pc' = "select"
  /\ UNCHANGED <<signalled, serve, token, connVars, fileVars, cfg, i, active,
                 tickerVars, balancerVars, proxying>>

-----------------------------------------------------------------------------
(***************************************************************************)
(* The handlers: dial the backend of the token, until a dial succeeds, and  *)
(* then proxy.  A dial that fails is followed by another Wait.  The whole  *)
(* program goes down when a goroutine panics.                              *)
(***************************************************************************)
Dialing == held \ proxying

\* Wait may return neither a token nor an error when the context of the loop
\* is done: the handler takes the Entry of the token that it has not.
DialFails(c) ==
  /\ Running /\ c \in Dialing /\ Done(owner[c])
  /\ pc' = "crashed"
  /\ UNCHANGED <<loopVars, fileVars, cfg, i, active, registered, tickerVars, balancerVars,
                 proxying>>

\* rand.Int63n takes only a positive maintenance time n, and NewTicker only a
\* positive period, n / 2 and the smear, which must not wrap around.
Smears(n) == 0..(n - 1)
Ticks(n, smear) == n \div 2 + smear \in 1..MaxDuration

\* The type assertion fails on the connection to a backend for UDP.  The
\* maintenance time of the balancer is read after the dial.
Proxy(c) ==
  LET n == maintenance[owner[c]] IN
  /\ Running /\ c \in Dialing
  /\ \/ /\ \E smear \in Smears(n) : Ticks(n, smear)
        /\ proxying' = proxying \cup {c} /\ UNCHANGED pc
     \/ /\ \/ owner[c] \in datagram
           \/ Smears(n) = {} \/ \E smear \in Smears(n) : ~Ticks(n, smear)
        /\ pc' = "crashed" /\ UNCHANGED proxying
  /\ UNCHANGED <<loopVars, fileVars, cfg, i, active, registered, tickerVars, balancerVars>>

-----------------------------------------------------------------------------
(***************************************************************************)
(* main                                                                    *)
(***************************************************************************)
\* A call of Ensure has a loop variable of its own: goroutines that have not
\* run yet keep the one of the call that started them, as it was left.
EnsureAgain ==
  /\ pc' = "ensure" /\ i' = 1 /\ active' = {}
  /\ starting' = {} /\ late' = (late \/ (starting # {} /\ fe.every <= 0))

\* The ticker, or a SIGHUP, at any time.
Tick ==
  /\ pc = "select"
  /\ pc' = "stat"
  /\ UNCHANGED <<loopVars, fileVars, cfg, i, active, registered, tickerVars, balancerVars,
                 proxying>>

\* The time is noted before the file is opened.
Stat ==
  /\ pc = "stat"
  /\ IF file.kind = "missing" \/ seen THEN EnsureAgain /\ UNCHANGED seen
     ELSE pc' = "decode" /\ seen' = TRUE /\ UNCHANGED <<i, active, tickerVars>>
  /\ UNCHANGED <<loopVars, file, cfg, registered, balancerVars, proxying>>

\* Mutant of Decode: nothing is taken from the file.
DecodeNothing ==
  /\ pc = "decode"
  /\ EnsureAgain
  /\ UNCHANGED <<loopVars, fileVars, cfg, registered, balancerVars, proxying>>

Decode ==
  /\ pc = "decode"
  /\ cfg' = DecodeConfig(file, cfg)
  /\ EnsureAgain
  /\ UNCHANGED <<loopVars, fileVars, registered, balancerVars, proxying>>

Leave ==
  /\ pc = "select" /\ signalled
  /\ pc' = "wait"
  /\ UNCHANGED <<loopVars, fileVars, cfg, i, active, registered, tickerVars, balancerVars,
                 proxying>>

\* Frontend.Wait returns.
Drainable == latch = 0

\* drained, goodbye!
Drained ==
  /\ pc = "wait" /\ Drainable
  /\ pc' = "exited"
  /\ UNCHANGED <<loopVars, fileVars, cfg, i, active, registered, tickerVars, balancerVars,
                 proxying>>

\* The first signal cancels the context; a second one, or the end of the
\* grace period, ends the program.
Signal ==
  /\ Running
  /\ signalled' = TRUE
  /\ pc' = IF signalled THEN "killed" ELSE pc
  /\ UNCHANGED <<stopped, listener, serve, token, connVars, fileVars, cfg, i,
                 active, registered, tickerVars, balancerVars, proxying>>

\* The file is written, replaced or taken away.  Only Stat and Decode look at
\* it: a change at another time is as good as one just before Stat.
Write(f) ==
  /\ pc \in {"stat", "decode"} /\ file # f
  /\ file' = f /\ seen' = FALSE
  /\ UNCHANGED <<loopVars, mainVars, registered, tickerVars, balancerVars, proxying>>

-----------------------------------------------------------------------------
Init ==
  /\ LoopInit
  /\ file \in {f \in File : Good(f)} /\ seen = TRUE /\ cfg = DecodeConfig(file, <<>>)
  /\ pc = "ensure" /\ i = 1 /\ active = {}
  /\ registered = {} /\ starting = {} /\ late = FALSE
  /\ maintenance = [l \in Loop |-> DefaultMaintenance] /\ datagram = {}
  /\ proxying = {}

Main ==
  \/ Ensure \/ (\E l \in Loop : Launch(l)) \/ Unimplemented \/ Teardown
  \/ Tick \/ Stat \/ Decode

\* A handler returns from proxy, or from Wait, because its context is done.
MayReturn == {c \in held : c \in proxying \/ Done(owner[c])}

\* A step of the server loops.
Serve(Step) ==
  /\ Running /\ Step
  /\ held \ held' \subseteq MayReturn
  /\ proxying' = proxying \cap held'
  /\ UNCHANGED <<fileVars, mainVars, registered, tickerVars, balancerVars>>

Next ==
  \/ Main \/ Leave \/ Drained
  \/ Signal
  \/ LateTickerStarts \/ \E l \in Loop : TickerStarts(l)
  \/ \E c \in Conn : DialFails(c) \/ Proxy(c)
  \/ \E f \in File : Write(f)
  \/ Serve(LoopNext)

Spec == Init /\ [][Next]_vars

\* The loops that ever run.
Runnable == {l \in Loop : bind(l) \in Free}

\* The main goroutine and the loops run.  Its select leaves when both of its
\* channels are ready often enough.  Clients, handlers, ticker goroutines,
\* signals and the grace period are not assumed to come.
Fairness ==
  /\ WF_vars(Main \/ Drained) /\ SF_vars(Leave)
  /\ \A l \in Runnable : WF_vars(Serve(Proceeds(l)))

FairSpec == Spec /\ Fairness

-----------------------------------------------------------------------------
(***************************************************************************)
(* Properties                                                              *)
(***************************************************************************)
TypeOK ==
  /\ LoopTypeOK
  /\ file \in File /\ seen \in BOOLEAN
  /\ cfg \in Seq(Setting)
  /\ pc \in {"ensure", "launch", "select", "stat", "decode", "wait"} \cup Ended
  /\ i \in Nat \ {0} /\ active \in SUBSET Bind
  /\ registered \in SUBSET Loop /\ starting \in SUBSET Loop /\ late \in BOOLEAN
  /\ maintenance \in [Loop -> Duration] /\ datagram \in SUBSET Loop
  /\ proxying \in SUBSET held

\* An open listener is that of the one loop registered for its address, so
\* that a later Ensure can close it: none is left open behind a failed or an
\* interrupted call, and an address is free when it is bound again.
ListenersRegistered ==
  /\ \A l \in Loop : listener[l] = "open" => l \in registered
  /\ \A l, m \in registered : bind(l) = bind(m) => l = m

\* When the program says that it is drained, every handler has returned.  (A
\* connection whose latch is not held yet is not waited for, loop.go:90.)
DrainedMeansHeldEnded == pc = "exited" => held = {}

\* An address that the configuration lists is not torn down, whatever is
\* wrong with the other frontends in it.
StopsOnlyWhatIsGone ==
  [][\A l \in registered \ registered' : bind(l) \notin BindsOf(cfg)]_vars

\* When Ensure comes back without an error, each balancer has the maintenance
\* time that the last frontend with its address asks for, also if that was not
\* validated.
SettingsApplied ==
  pc = "select" /\ i > Len(cfg) =>
    \A k \in DOMAIN cfg : \A l \in registered :
      /\ bind(l) = cfg[k].bind
      /\ \A j \in DOMAIN cfg : j > k => cfg[j].bind # cfg[k].bind
      => maintenance[l] = cfg[k].maintenance

\* The frontends that Ensure looks at: it leaves at the first that it cannot parse.
Reached == {k \in DOMAIN cfg : \A j \in DOMAIN cfg : j < k => ParseTarget(cfg[j].bind)}

\* What a server loop and its handlers can work with.
Supported(s) ==
  /\ s.proto = "tcp" /\ s.backends = "tcp"
  /\ s.maintenance > 0 /\ \A smear \in Smears(s.maintenance) : Ticks(s.maintenance, smear)

\* The causes of a crash: a bind, a backend or a maintenance time that is not
\* supported; frontends with and without a ticker in one file; a bind that
\* has failed; a tear-down or a signal while a handler dials, or waits for
\* another token after a dial that has failed.
NoFault ==
  /\ \A k \in Reached : ParseTarget(cfg[k].bind) => Supported(cfg[k])
  /\ \A j, k \in Reached : cfg[j].every > 0 => cfg[k].every > 0
  /\ \A l \in registered : bind(l) \in Busy => listener[l] # "none"
  /\ \A c \in Dialing : ~Done(owner[c])

\* As long as none of these comes up, no sequence of reloads, tear-downs, late
\* goroutines, dials and signals makes a goroutine panic (frontend.go:105, 140
\* and 151, tcp.go:42, 55, 94 and 95).
CrashNeedsFault == []NoFault => [](pc # "crashed")

\* frontend.go:61: Ensure will start the server loops defined in the
\* configuration.  When it comes back without an error, each address has one.
EveryBindServed ==
  pc = "select" /\ i > Len(cfg) /\ ~signalled =>
    \A b \in BindsOf(cfg) : \E l \in registered : bind(l) = b /\ listener[l] = "open"

-----------------------------------------------------------------------------
(***************************************************************************)
(* Liveness                                                                *)
(***************************************************************************)
\* Once the file has settled on a good content, exactly its addresses have an
\* entry, whatever the files before it have left behind, if the program lives.
ConfigurationFollowed ==
  /\ <>[][file' = file]_file /\ <>[]Good(file)
  /\ [](Running /\ ~signalled)
  => <>[]({bind(l) : l \in registered} = BindsOf(file.frontends))

\* The goroutine of a loop that is no longer registered ends, in whatever
\* state it was, although no token and no client may ever come.
StoppedLoopsExit ==
  \A l \in Runnable : l \notin registered ~> serve[l] \in {"off", "exited"} \/ ~Running

\* A drain ends when the handlers do, without help from the grace period: no
\* loop accepts another connection, and no latch is left held.  (A handler
\* whose backends refuse every dial need not return.)
DrainEnds ==
  (\A c \in Conn : WF_vars(Serve(HandlerReturns(c)))) => (signalled ~> ~Running)
=============================================================================
