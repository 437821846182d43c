------------------------------ MODULE TcpProxy ------------------------------
(***************************************************************************)
(* The handler of one proxied connection, pkg/frontend/tcp: it dials the   *)
(* backend of its token, asking for another one until that works, and then *)
(* runs three goroutines in an errgroup: two copiers (pkg/copier), one for *)
(* each direction, and the maintenance loop that may force a disconnect.   *)
(*                                                                         *)
(* Time is counted in wake periods, and as ages: how long ago idleSince    *)
(* and promotableSince were stored.  Timers may be late.  The bytes of a   *)
(* direction are abstracted to whether some were copied since the last     *)
(* call of activity.                                                       *)
(***************************************************************************)
EXTENDS Integers, FiniteSets

CONSTANTS
  IdleDuration,         \* in wake periods
  ForcePromotionAfter   \* in wake periods; 0: never

ASSUME DurationAssumption == IdleDuration \in Nat /\ ForcePromotionAfter \in Nat

Direction == {"out", "back"}
Never == -1                            \* the age of the zero time.Time
Oldest == 1 + IdleDuration + ForcePromotionAfter   \* bound: ages stop here

VARIABLES
  handler,          \* dial, wait, copy (in copyGroup.Wait), join, end, panic
  tokens,           \* the unreleased tokens this handler was given
  draining,         \* the context of the server loop is done
  cancelled,        \* the context of the errgroup is done
  copier,           \* off, copy, finished, failed, stopped (by the context)
  source,           \* of each direction: open, closed or broken
  bytes,            \* something was copied since the last activity call
  expired,          \* the read deadline has passed
  maintenance,      \* off, run, failed (forced a disconnect), stopped
  reason,           \* forceDisconnectReason is set
  idleSince, promotableSince,          \* ages
  overloaded,       \* what IsOverloaded says of the backend
  better            \* a backend of a nearer tier is there to be picked

groupVars == <<cancelled, copier, maintenance>>
timeVars == <<reason, idleSince, promotableSince>>
wireVars == <<source, bytes, expired>>
worldVars == <<draining, overloaded, better>>
vars == <<handler, tokens, groupVars, timeVars, wireVars, worldVars>>

-----------------------------------------------------------------------------
(***************************************************************************)
(* Proxy: the dial loop                                                    *)
(***************************************************************************)
DialSucceeds ==
  /\ handler = "dial"
  /\ handler' = "copy"
  /\ copier' = [d \in Direction |-> "copy"]
  /\ maintenance' = "run"
  /\ UNCHANGED <<tokens, cancelled, timeVars, wireVars, worldVars>>

\* Mutant of DialFails: the token is overwritten by the next one.
DialFailsKeepingToken ==
  /\ handler = "dial"
  /\ handler' = "wait"
  /\ UNCHANGED <<tokens, groupVars, timeVars, wireVars, worldVars>>

DialFails ==
  /\ handler = "dial"
  /\ handler' = "wait"
  /\ tokens' = tokens - 1
  /\ UNCHANGED <<groupVars, timeVars, wireVars, worldVars>>

\* The answers of Pool.Wait: a token, the context's error or, when its
\* context is done, neither; token.Entry() then dereferences nil.
WaitAgain ==
  /\ handler = "wait"
  /\ \/ handler' = "dial" /\ tokens' = tokens + 1
     \/ draining /\ handler' \in {"end", "panic"} /\ UNCHANGED tokens
  /\ UNCHANGED <<groupVars, timeVars, wireVars, worldVars>>

-----------------------------------------------------------------------------
(***************************************************************************)
(* Copier.Copy, and what the errgroup makes of its result                  *)
(***************************************************************************)
activity(d) == idleSince' = IF bytes[d] THEN Never ELSE 0

\* Mutant of OnTimeout: the context is not looked at.
OnTimeoutContinue == "copy"

OnTimeout == IF cancelled THEN "stopped" ELSE "copy"

\* io.Copy ran into a deadline.
Wake(d) ==
  /\ copier[d] = "copy" /\ expired[d]
  /\ activity(d)
  /\ copier' = [copier EXCEPT ![d] = OnTimeout]
  /\ expired' = [expired EXCEPT ![d] = FALSE]
  /\ bytes' = [bytes EXCEPT ![d] = FALSE]
  /\ UNCHANGED <<handler, tokens, cancelled, maintenance, reason,
                 promotableSince, source, worldVars>>

\* Mutant of AfterEOF: the end of one direction ends both.
AfterEOFCancel == TRUE

AfterEOF == cancelled

Finish(d) ==
  /\ copier[d] = "copy" /\ source[d] = "closed"
  /\ activity(d)
  /\ copier' = [copier EXCEPT ![d] = "finished"]
  /\ cancelled' = AfterEOF
  /\ UNCHANGED <<handler, tokens, maintenance, reason, promotableSince,
                 wireVars, worldVars>>

Fail(d) ==
  /\ copier[d] = "copy" /\ source[d] = "broken"
  /\ activity(d)
  /\ copier' = [copier EXCEPT ![d] = "failed"]
  /\ cancelled' = TRUE
  /\ UNCHANGED <<handler, tokens, maintenance, reason, promotableSince,
                 wireVars, worldVars>>

-----------------------------------------------------------------------------
(***************************************************************************)
(* The maintenance loop                                                    *)
(***************************************************************************)
\* Mutant of NextPromotableSince: stored anew at every tick.
NextPromotableSinceAnew(picked) ==
  IF ForcePromotionAfter # 0 /\ picked THEN 0 ELSE promotableSince

\* picked: the trial pick found a backend of a nearer tier with room.
NextPromotableSince(picked) ==
  IF promotableSince = Never /\ ForcePromotionAfter # 0 /\ picked
  THEN 0 ELSE promotableSince

Tick ==
  LET since == NextPromotableSince(better)
      shouldDisconnect ==
        \/ overloaded
        \/ since > ForcePromotionAfter
        \/ idleSince > IdleDuration
  IN /\ maintenance = "run"
     /\ promotableSince' = since
     /\ reason' = shouldDisconnect
     /\ IF shouldDisconnect /\ reason
        THEN maintenance' = "failed" /\ cancelled' = TRUE
        ELSE UNCHANGED <<maintenance, cancelled>>
     /\ UNCHANGED <<handler, tokens, copier, idleSince, wireVars, worldVars>>

StopMaintenance ==
  /\ maintenance = "run" /\ cancelled
  /\ maintenance' = "stopped"
  /\ UNCHANGED <<handler, tokens, cancelled, copier, timeVars, wireVars, worldVars>>

-----------------------------------------------------------------------------
(***************************************************************************)
(* The end of proxy                                                        *)
(***************************************************************************)
BothCopied == \A d \in Direction : copier[d] \notin {"off", "copy"}

\* Mutant of JoinCopiers: without cancel().
JoinCopiersOnly ==
  /\ handler = "copy" /\ BothCopied
  /\ handler' = "join"
  /\ UNCHANGED <<tokens, groupVars, timeVars, wireVars, worldVars>>

JoinCopiers ==
  /\ handler = "copy" /\ BothCopied
  /\ handler' = "join"
  /\ cancelled' = TRUE
  /\ UNCHANGED <<tokens, copier, maintenance, timeVars, wireVars, worldVars>>

\* errGroup.Wait returns, and the deferred Release runs.
Return ==
  /\ handler = "join" /\ maintenance # "run"
  /\ handler' = "end"
  /\ tokens' = tokens - 1
  /\ UNCHANGED <<groupVars, timeVars, wireVars, worldVars>>

-----------------------------------------------------------------------------
(***************************************************************************)
(* The peers, the rest of the program and the clock                        *)
(***************************************************************************)
\* A peer sends bytes, and the copier has passed them on.
Traffic(d) ==
  /\ copier[d] = "copy" /\ source[d] = "open" /\ ~bytes[d]
  /\ bytes' = [bytes EXCEPT ![d] = TRUE]
  /\ UNCHANGED <<handler, tokens, groupVars, timeVars, source, expired, worldVars>>

\* A peer closes its direction, or the connection breaks.
Hangup(d) ==
  /\ source[d] = "open"
  /\ \E s \in {"closed", "broken"} : source' = [source EXCEPT ![d] = s]
  /\ UNCHANGED <<handler, tokens, groupVars, timeVars, bytes, expired, worldVars>>

World ==
  /\ \/ ~draining /\ draining' = TRUE /\ UNCHANGED <<overloaded, better>>
     \/ overloaded' = ~overloaded /\ UNCHANGED <<draining, better>>
     \/ better' = ~better /\ UNCHANGED <<draining, overloaded>>
  /\ UNCHANGED <<handler, tokens, groupVars, timeVars, wireVars>>

Aged(age) == IF age = Never \/ age = Oldest THEN age ELSE age + 1

Clock ==
  /\ expired' = [d \in Direction |-> TRUE]
  /\ idleSince' = Aged(idleSince)
  /\ promotableSince' = Aged(promotableSince)
  /\ UNCHANGED <<handler, tokens, groupVars, reason, source, bytes, worldVars>>

-----------------------------------------------------------------------------
\* The preflight of the server loop has reserved the first token.
Init ==
  /\ handler = "dial" /\ tokens = 1
  /\ cancelled = FALSE
  /\ copier = [d \in Direction |-> "off"]
  /\ maintenance = "off"
  /\ reason = FALSE /\ idleSince = Never /\ promotableSince = Never
  /\ source = [d \in Direction |-> "open"]
  /\ bytes = [d \in Direction |-> FALSE]
  /\ expired = [d \in Direction |-> FALSE]
  /\ draining = FALSE
  /\ overloaded \in BOOLEAN /\ better \in BOOLEAN

Next ==
  \/ DialSucceeds \/ DialFails \/ WaitAgain
  \/ \E d \in Direction : Wake(d) \/ Finish(d) \/ Fail(d) \/ Traffic(d) \/ Hangup(d)
  \/ Tick \/ StopMaintenance \/ JoinCopiers \/ Return
  \/ World \/ Clock

\* Goroutines run, and timers fire, if late.  Nothing is assumed of the peers.
Fairness ==
  /\ WF_vars(DialSucceeds \/ DialFails)
  /\ \A d \in Direction : WF_vars(Wake(d)) /\ WF_vars(Finish(d)) /\ WF_vars(Fail(d))
  /\ WF_vars(Tick) /\ WF_vars(StopMaintenance)
  /\ WF_vars(JoinCopiers) /\ WF_vars(Return)
  /\ WF_vars(Clock)

Spec == Init /\ [][Next]_vars /\ Fairness

-----------------------------------------------------------------------------
(***************************************************************************)
(* Properties                                                              *)
(***************************************************************************)
TypeOK ==
  /\ handler \in {"dial", "wait", "copy", "join", "end", "panic"}
  /\ tokens \in Nat
  /\ copier \in [Direction -> {"off", "copy", "finished", "failed", "stopped"}]
  /\ source \in [Direction -> {"open", "closed", "broken"}]
  /\ bytes \in [Direction -> BOOLEAN] /\ expired \in [Direction -> BOOLEAN]
  /\ maintenance \in {"off", "run", "failed", "stopped"}
  /\ idleSince \in Never..Oldest /\ promotableSince \in Never..Oldest
  /\ {reason, cancelled, draining, overloaded, better} \subseteq BOOLEAN
  /\ (maintenance = "off") <=> (copier = [d \in Direction |-> "off"])
  /\ handler = "join" \/ maintenance \in {"failed", "stopped"} => cancelled

\* A handler holds one token from the dial to the end of both copies, so that
\* its load counts for as long as bytes may flow, and none once it has ended,
\* however many dials fail and however the connection ends.
OneTokenPerConnection ==
  tokens = IF handler \in {"dial", "copy", "join"} THEN 1 ELSE 0

\* A copy in progress is stopped only when maintenance decided so or the
\* other direction failed: one peer that has nothing more to send leaves the
\* answers flowing, and so does the drain of the server.
StoppedForCause ==
  [][\A d \in Direction : copier[d] = "copy" /\ copier'[d] = "stopped" =>
       maintenance = "failed" \/ \E o \in Direction : copier[o] = "failed"]_vars

Over == handler \in {"end", "panic"}

\* A connection to a backend that stays overloaded is given up, and its
\* token comes back, although both peers would go on for ever.
ShedWhenOverloaded ==
  <>[]overloaded => (handler = "copy" ~> Over)

\* The same for a connection that a better backend stays available for.
PromotedWhenBetter ==
  <>[]better /\ ForcePromotionAfter # 0 => (handler = "copy" ~> Over)

\* When both peers are gone the handler ends; no goroutine keeps it.
EndsWithItsPeers ==
  (handler = "copy" /\ \A d \in Direction : source[d] # "open") ~> Over

\* config.go:62 calls IdleDuration the time after which an idle connection
\* should be pruned: a connection on which no byte moves any more ends.
\* (Every wake-up without bytes stores the present time in idleSince.)
Quiet == <>[][\A d \in Direction : ~(~bytes[d] /\ bytes'[d])]_vars
TimersOnTime == <>[][Clock => \A d \in Direction : ~(copier[d] = "copy" /\ expired[d])]_vars

IdleConnectionPruned ==
  Quiet /\ TimersOnTime /\ <>[]~overloaded => (handler = "copy" ~> Over)
=============================================================================
