--------------------------- MODULE TcpProxyProofs ---------------------------
(***************************************************************************)
(* Proofs about TcpProxy, for all durations.                               *)
(*                                                                         *)
(* That a copy is stopped only for a cause needs an invariant of the       *)
(* context: before the copy begins it is not done, and when it is done,    *)
(* maintenance or a copier has failed, or both copies are over.            *)
(***************************************************************************)
EXTENDS TcpProxy, TLAPS

BeforeCopying == handler \in {"dial", "wait"} => ~cancelled /\ maintenance = "off"

Cause == maintenance = "failed" \/ \E d \in Direction : copier[d] = "failed"

CancelledForCause == cancelled => Cause \/ BothCopied

Inv == TypeOK /\ OneTokenPerConnection /\ BeforeCopying /\ CancelledForCause

LEMMA InitInv == Init => Inv
<1> SUFFICES ASSUME Init PROVE Inv
  OBVIOUS
<1>1. Never \in Never..Oldest
  BY DurationAssumption DEF Never, Oldest
<1>2. TypeOK
  BY <1>1 DEF Init, TypeOK
<1>3. OneTokenPerConnection /\ BeforeCopying /\ CancelledForCause
  BY DEF Init, OneTokenPerConnection, BeforeCopying, CancelledForCause
<1> QED BY <1>2, <1>3 DEF Inv

\* Ages stay within their bounds.
LEMMA AgesBounded ==
  /\ Never \in Never..Oldest /\ 0 \in Never..Oldest
  /\ \A age \in Never..Oldest : Aged(age) \in Never..Oldest
BY DurationAssumption DEF Never, Oldest, Aged

\* A copier that was started has not been off since.
LEMMA StartedCopier ==
  ASSUME TypeOK, NEW d \in Direction, copier[d] = "copy"
  PROVE  maintenance # "off"
BY DEF TypeOK

\* The end of one copy, in any way, leaves what is known of the context.
LEMMA CopierStep ==
  ASSUME Inv, NEW d \in Direction, copier[d] = "copy",
         NEW r \in {"copy", "finished", "failed", "stopped"},
         copier' = [copier EXCEPT ![d] = r],
         r \in {"copy", "finished"} => cancelled' = cancelled,
         r = "failed" => cancelled' = TRUE,
         r = "stopped" => cancelled /\ cancelled' = cancelled,
         UNCHANGED <<handler, tokens, maintenance>>
  PROVE  /\ OneTokenPerConnection' /\ BeforeCopying' /\ CancelledForCause'
         /\ copier' \in [Direction -> {"off", "copy", "finished", "failed", "stopped"}]
         /\ (maintenance' = "off") <=> (copier' = [x \in Direction |-> "off"])
         /\ handler' = "join" \/ maintenance' \in {"failed", "stopped"} => cancelled'
         /\ cancelled' \in BOOLEAN
<1>1. maintenance # "off" /\ handler \notin {"dial", "wait"}
  BY StartedCopier DEF Inv, BeforeCopying
<1>2. copier \in [Direction -> {"off", "copy", "finished", "failed", "stopped"}]
  BY DEF Inv, TypeOK
<1>3. copier'[d] = r /\ \A x \in Direction : x # d => copier'[x] = copier[x]
  BY <1>2
<1>4. OneTokenPerConnection' /\ BeforeCopying'
  BY <1>1 DEF Inv, OneTokenPerConnection, BeforeCopying
<1>5. CancelledForCause'
  <2>1. cancelled => Cause
    BY DEF Inv, CancelledForCause, BothCopied
  <2>2. Cause => Cause'
    BY <1>3 DEF Cause
  <2>3. r = "failed" => Cause'
    BY <1>3 DEF Cause
  <2> QED BY <2>1, <2>2, <2>3 DEF CancelledForCause
<1>6. copier' # [x \in Direction |-> "off"]
  BY <1>3
<1>7. handler = "join" \/ maintenance \in {"failed", "stopped"} => cancelled
  BY DEF Inv, TypeOK
<1>8. cancelled' \in BOOLEAN /\ (cancelled => cancelled')
  BY DEF Inv, TypeOK
<1> QED BY <1>1, <1>2, <1>4, <1>5, <1>6, <1>7, <1>8

LEMMA NextInv == Inv /\ [Next]_vars => Inv'
<1> SUFFICES ASSUME Inv, [Next]_vars PROVE Inv'
  OBVIOUS
<1> USE DEF Inv, groupVars, timeVars, wireVars, worldVars
<1>1. CASE DialSucceeds
  <2>1. /\ maintenance' = "run" /\ handler' = "copy"
        /\ copier' = [d \in Direction |-> "copy"]
        /\ copier' # [d \in Direction |-> "off"]
    <3>1. "out" \in Direction
      BY DEF Direction
    <3> QED BY <1>1, <3>1 DEF DialSucceeds
  <2>2. TypeOK'
    BY <1>1, <2>1 DEF DialSucceeds, TypeOK
  <2> QED BY <1>1, <2>2
          DEF DialSucceeds, OneTokenPerConnection, BeforeCopying, CancelledForCause
<1>2. CASE DialFails
  BY <1>2 DEF DialFails, TypeOK, OneTokenPerConnection, BeforeCopying, CancelledForCause,
              Cause, BothCopied
<1>3. CASE WaitAgain
  BY <1>3 DEF WaitAgain, TypeOK, OneTokenPerConnection, BeforeCopying, CancelledForCause,
              Cause, BothCopied
<1>4. ASSUME NEW d \in Direction, Wake(d) PROVE Inv'
  <2>1. OnTimeout \in {"copy", "stopped"} /\ (OnTimeout = "stopped" => cancelled)
    BY DEF OnTimeout
  <2>2. /\ OneTokenPerConnection' /\ BeforeCopying' /\ CancelledForCause'
        /\ copier' \in [Direction -> {"off", "copy", "finished", "failed", "stopped"}]
        /\ (maintenance' = "off") <=> (copier' = [x \in Direction |-> "off"])
        /\ handler' = "join" \/ maintenance' \in {"failed", "stopped"} => cancelled'
        /\ cancelled' \in BOOLEAN
    BY <1>4, <2>1, CopierStep DEF Wake
  <2> QED BY <1>4, <2>2, AgesBounded DEF Wake, activity, TypeOK
<1>5. ASSUME NEW d \in Direction, Finish(d) PROVE Inv'
  <2>1. /\ OneTokenPerConnection' /\ BeforeCopying' /\ CancelledForCause'
        /\ copier' \in [Direction -> {"off", "copy", "finished", "failed", "stopped"}]
        /\ (maintenance' = "off") <=> (copier' = [x \in Direction |-> "off"])
        /\ handler' = "join" \/ maintenance' \in {"failed", "stopped"} => cancelled'
        /\ cancelled' \in BOOLEAN
    BY <1>5, CopierStep DEF Finish, AfterEOF
  <2> QED BY <1>5, <2>1, AgesBounded DEF Finish, activity, TypeOK
<1>6. ASSUME NEW d \in Direction, Fail(d) PROVE Inv'
  <2>1. /\ OneTokenPerConnection' /\ BeforeCopying' /\ CancelledForCause'
        /\ copier' \in [Direction -> {"off", "copy", "finished", "failed", "stopped"}]
        /\ (maintenance' = "off") <=> (copier' = [x \in Direction |-> "off"])
        /\ handler' = "join" \/ maintenance' \in {"failed", "stopped"} => cancelled'
        /\ cancelled' \in BOOLEAN
    BY <1>6, CopierStep DEF Fail
  <2> QED BY <1>6, <2>1, AgesBounded DEF Fail, activity, TypeOK
<1>7. CASE Tick
  <2>1. /\ maintenance = "run" /\ reason' \in BOOLEAN
        /\ promotableSince' \in Never..Oldest
    BY <1>7, AgesBounded DEF Tick, NextPromotableSince, TypeOK
  <2>2. \/ maintenance' = "failed" /\ cancelled' = TRUE
        \/ UNCHANGED <<maintenance, cancelled>>
    BY <1>7 DEF Tick
  <2>3. UNCHANGED <<handler, tokens, copier, idleSince, source, bytes, expired,
                    draining, overloaded, better>>
    BY <1>7 DEF Tick
  <2>4. TypeOK'
    BY <2>1, <2>2, <2>3 DEF TypeOK
  <2>5. OneTokenPerConnection' /\ BeforeCopying'
    BY <2>1, <2>3 DEF OneTokenPerConnection, BeforeCopying
  <2>6. CancelledForCause'
    BY <2>2, <2>3 DEF CancelledForCause, Cause, BothCopied
  <2> QED BY <2>4, <2>5, <2>6
<1>8. CASE StopMaintenance
  BY <1>8 DEF StopMaintenance, TypeOK, OneTokenPerConnection, BeforeCopying,
              CancelledForCause, Cause, BothCopied
<1>9. CASE JoinCopiers
  BY <1>9 DEF JoinCopiers, TypeOK, OneTokenPerConnection, BeforeCopying,
              CancelledForCause, Cause, BothCopied
<1>10. CASE Return
  BY <1>10 DEF Return, TypeOK, OneTokenPerConnection, BeforeCopying,
               CancelledForCause, Cause, BothCopied
<1>11. CASE \/ World \/ Clock \/ UNCHANGED vars
            \/ \E d \in Direction : Traffic(d) \/ Hangup(d)
  <2>1. UNCHANGED <<handler, tokens, cancelled, copier, maintenance>>
    BY <1>11 DEF World, Clock, Traffic, Hangup, vars
  <2>2. OneTokenPerConnection' /\ BeforeCopying' /\ CancelledForCause'
    BY <2>1 DEF OneTokenPerConnection, BeforeCopying, CancelledForCause, Cause, BothCopied
  <2>3. idleSince' \in Never..Oldest /\ promotableSince' \in Never..Oldest
    BY <1>11, AgesBounded DEF World, Clock, Traffic, Hangup, vars, TypeOK
  <2>4. /\ source' \in [Direction -> {"open", "closed", "broken"}]
        /\ bytes' \in [Direction -> BOOLEAN] /\ expired' \in [Direction -> BOOLEAN]
        /\ {reason', draining', overloaded', better'} \subseteq BOOLEAN
    BY <1>11 DEF World, Clock, Traffic, Hangup, vars, TypeOK
  <2>5. TypeOK'
    BY <2>1, <2>3, <2>4 DEF TypeOK
  <2> QED BY <2>2, <2>5
<1> QED BY <1>1, <1>2, <1>3, <1>4, <1>5, <1>6, <1>7, <1>8, <1>9, <1>10, <1>11 DEF Next

THEOREM Invariance == Spec => []Inv
BY InitInv, NextInv, PTL DEF Spec

\* Type correctness of one connection; and a maintenance loop that is over has
\* left a context that is done (tcp.go:100).
THEOREM TypeCorrect == Spec => []TypeOK
<1>1. Inv => TypeOK
  BY DEF Inv
<1> QED BY <1>1, Invariance, PTL

\* One token from the dial to the end of both copies, none afterwards, however
\* often the dial fails (tcp.go:43 and 67).
THEOREM TokenIsReturned == Spec => []OneTokenPerConnection
<1>1. Inv => OneTokenPerConnection
  BY DEF Inv
<1> QED BY <1>1, Invariance, PTL

\* The end of one direction does not stop the other one, and nor does the
\* drain: it takes a failure (tcp.go:138 and 168).
THEOREM StopsForCause == Spec => StoppedForCause
<1>1. ASSUME Inv, [Next]_vars, NEW d \in Direction,
             copier[d] = "copy", copier'[d] = "stopped"
      PROVE  Cause
  <2>1. cancelled
    BY <1>1 DEF Next, DialSucceeds, DialFails, WaitAgain, Wake, OnTimeout, Finish, Fail,
                Traffic, Hangup, Tick, StopMaintenance, JoinCopiers, Return, World, Clock,
                vars, groupVars, Inv, TypeOK
  <2> QED BY <1>1, <2>1 DEF Inv, CancelledForCause, BothCopied
<1>2. Inv /\ [Next]_vars =>
        [\A d \in Direction : copier[d] = "copy" /\ copier'[d] = "stopped" =>
           maintenance = "failed" \/ \E o \in Direction : copier[o] = "failed"]_vars
  BY <1>1 DEF Cause
<1> QED BY <1>2, Invariance, PTL DEF Spec, StoppedForCause
=============================================================================
