-------------------------------- MODULE Copier --------------------------------
(***************************************************************************)
(* Copier.Copy of pkg/copier, one direction of a connection: io.Copy is    *)
(* called again and again, each time with new deadlines, so that it comes  *)
(* back now and then to look at the context.                               *)
(*                                                                         *)
(* The bytes are units, numbered in the order in which the peer sends      *)
(* them.  io.Copy (external) takes some off the source, and writes those   *)
(* before it reads again; what it holds when a deadline passes is lost.    *)
(***************************************************************************)
EXTENDS Integers

CONSTANT Units     \* bound: what the peer sends at most

ASSUME UnitsAssumption == Units \in Nat

VARIABLES
  pc,          \* start, read, write (in io.Copy), or how Copy returned:
               \* finished (nil), stopped (ctx.Err()), failed
  sent,        \* the units the peer has sent
  taken,       \* those that were read
  next,        \* the next one to be written; next..taken are in the buffer
  delivered,   \* the set of those that were written
  source,      \* From: open, closed (the peer has finished) or broken
  sink,        \* To: open, stalled (takes nothing) or broken
  cancelled    \* the context is done

copyVars == <<pc, taken, next, delivered>>
peerVars == <<sent, source, sink, cancelled>>
vars == <<copyVars, peerVars>>

Returned == {"finished", "stopped", "failed"}

-----------------------------------------------------------------------------
\* A socket that was closed on this side takes no deadline.
SetDeadlines ==
  /\ pc = "start"
  /\ pc' \in {"read"} \cup (IF "broken" \in {source, sink} THEN {"failed"} ELSE {})
  /\ UNCHANGED <<taken, next, delivered, peerVars>>

Read ==
  /\ pc = "read" /\ taken < sent
  /\ \E n \in taken + 1 .. sent : taken' = n
  /\ pc' = "write"
  /\ UNCHANGED <<next, delivered, peerVars>>

\* Mutant of Write: one unit more than the buffer holds.
WritePastBuffer ==
  /\ pc = "write" /\ sink = "open"
  /\ delivered' = delivered \cup {next}
  /\ next' = next + 1
  /\ pc' = IF next > taken THEN "read" ELSE "write"
  /\ UNCHANGED <<taken, peerVars>>

Write ==
  /\ pc = "write" /\ sink = "open"
  /\ delivered' = delivered \cup {next}
  /\ next' = next + 1
  /\ pc' = IF next = taken THEN "read" ELSE "write"
  /\ UNCHANGED <<taken, peerVars>>

\* io.Copy comes back.  Its buffer, whatever is in it, is gone.
Return(result) ==
  /\ pc' = result
  /\ next' = taken + 1
  /\ UNCHANGED <<taken, delivered, peerVars>>

\* Mutant of OnTimeout: the context is not looked at.
OnTimeoutContinue == "start"

\* Mutant of OnTimeout: the time-out is an error like any other.
OnTimeoutReturn == "failed"

OnTimeout == IF cancelled THEN "stopped" ELSE "start"

\* Mutant of ReadTimeout: the wake-up bounds the writes as well.
ReadTimeoutAnywhere ==
  /\ pc \in {"read", "write"}
  /\ Return(OnTimeout)

ReadTimeout ==
  /\ pc = "read"
  /\ Return(OnTimeout)

\* The receiver has not taken the buffer within a minute.  That is a time-out
\* too, so Copy goes on.
WriteTimeout ==
  /\ pc = "write" /\ sink = "stalled"
  /\ Return(OnTimeout)

EndOfFile ==
  /\ pc = "read" /\ source = "closed" /\ taken = sent
  /\ Return("finished")

Fail ==
  /\ \/ pc = "read" /\ source = "broken"
     \/ pc = "write" /\ sink = "broken"
  /\ Return("failed")

-----------------------------------------------------------------------------
(***************************************************************************)
(* The peers and the owner of the context                                  *)
(***************************************************************************)
Send ==
  /\ source = "open" /\ sent < Units
  /\ sent' = sent + 1
  /\ UNCHANGED <<copyVars, source, sink, cancelled>>

SourceEnds ==
  /\ source = "open"
  /\ source' \in {"closed", "broken"}
  /\ UNCHANGED <<copyVars, sent, sink, cancelled>>

SinkChanges ==
  /\ sink # "broken"
  /\ sink' \in {"open", "stalled", "broken"} \ {sink}
  /\ UNCHANGED <<copyVars, sent, source, cancelled>>

Cancel ==
  /\ ~cancelled
  /\ cancelled' = TRUE
  /\ UNCHANGED <<copyVars, sent, source, sink>>

-----------------------------------------------------------------------------
Init ==
  /\ pc = "start"
  /\ sent = 0 /\ taken = 0 /\ next = 1 /\ delivered = {}
  /\ source = "open" /\ sink = "open" /\ cancelled = FALSE

Copy ==
  \/ SetDeadlines \/ Read \/ Write \/ EndOfFile \/ Fail
  \/ ReadTimeout \/ WriteTimeout

Next == Copy \/ Send \/ SourceEnds \/ SinkChanges \/ Cancel

\* A write ends, at the latest when its deadline passes; and so does a read.
\* A deadline lies a second ahead when it is set: what can be read until
\* then is read.
Fairness ==
  /\ WF_vars(Copy)
  /\ SF_vars(Read) /\ SF_vars(EndOfFile)

Spec == Init /\ [][Next]_vars /\ Fairness

-----------------------------------------------------------------------------
(***************************************************************************)
(* Properties                                                              *)
(***************************************************************************)
TypeOK ==
  /\ pc \in {"start", "read", "write"} \cup Returned
  /\ sent \in Nat /\ taken \in 0..sent /\ next \in 1..taken + 1
  /\ delivered \subseteq 1..next - 1
  /\ source \in {"open", "closed", "broken"}
  /\ sink \in {"open", "stalled", "broken"}
  /\ cancelled \in BOOLEAN

\* What was read and will not be written.
Lost == (1..next - 1) \ delivered

\* Interrupting io.Copy to look at the context loses nothing: bytes are left
\* out of the stream only when the receiver is gone or has stalled for a whole
\* write deadline.
LossOnlyWhenStalled == [][Lost' # Lost => sink \in {"stalled", "broken"}]_vars

\* copier.go:79 says that the error is nil if the copy was successful: a copy
\* that reports success has delivered everything.
NilMeansComplete == pc = "finished" => delivered = 1..sent

\* A cancelled copy ends, although its peers stay silent or take nothing.
CancelStops == cancelled ~> pc \in Returned

\* What a peer has sent before it finished arrives in the end, wake-ups or
\* not, if the receiver takes it.
EverythingArrives ==
  <>[](source = "closed") /\ []~cancelled /\ [](sink = "open")
    => <>(delivered = 1..sent /\ pc = "finished")
=============================================================================
