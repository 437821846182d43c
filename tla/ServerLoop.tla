------------------------------ MODULE ServerLoop ------------------------------
(***************************************************************************)
(* pkg/loop: the goroutines that accept connections, one for each handler, *)
(* that is one for each address the frontend has bound.  Each reserves a   *)
(* token first, accepts a connection, holds the latch that all the loops   *)
(* share, and starts the handler.                                          *)
(***************************************************************************)
EXTENDS Integers, FiniteSets

CONSTANTS
  Bind,      \* the local addresses, as keys of Frontend.mu.loops
  Loop,      \* loops: an address, and what tells successive loops of it apart
  Conn,      \* connections
  NoLoop

bind(l) == l[1]

ASSUME LoopAssumption == NoLoop \notin Loop /\ \A l \in Loop : bind(l) \in Bind
ASSUME ConnAssumption == IsFiniteSet(Conn)

VARIABLES
  signalled,   \* the context of the program is done
  stopped,     \* the loops whose own context was cancelled
  listener,    \* of each loop: none, open or closed
  serve,       \* its goroutine: off, preflight, listen (about to look at the
               \* context), accept (in Accept), hold (about to hold the
               \* latch), exited
  token,       \* the context of the next request has a token
  owner,       \* the loop that accepted a connection
  held,        \* the connections whose handler runs
  latch        \* the counter of the shared latch

contextVars == <<signalled, stopped>>
connVars == <<owner, held, latch>>
loopVars == <<contextVars, listener, serve, token, connVars>>

Done(l) == signalled \/ l \in stopped

Exit(l) ==
  /\ serve' = [serve EXCEPT ![l] = "exited"]
  /\ token' = [token EXCEPT ![l] = FALSE]

\* balancer.Wait: a token, whether the context is done or not; an error, if
\* it is; or no token and no error, which only a cancelled call gets
\* (NilReturnOnlyWhenCancelled of Pool).
Preflight(l) ==
  /\ serve[l] = "preflight"
  /\ \/ \E t \in {TRUE} \cup {~Done(l)} :
          /\ token' = [token EXCEPT ![l] = t]
          /\ serve' = [serve EXCEPT ![l] = "listen"]
     \/ Done(l) /\ Exit(l)
  /\ UNCHANGED <<contextVars, listener, connVars>>

\* Mutant of Listen: straight into Accept.
ListenBlindly(l) ==
  /\ serve[l] = "listen"
  /\ serve' = [serve EXCEPT ![l] = "accept"]
  /\ UNCHANGED <<contextVars, listener, token, connVars>>

Listen(l) ==
  /\ serve[l] = "listen"
  /\ IF Done(l) THEN Exit(l)
     ELSE serve' = [serve EXCEPT ![l] = "accept"] /\ UNCHANGED token
  /\ UNCHANGED <<contextVars, listener, connVars>>

\* The deadline of a second has passed.
AcceptTimeout(l) ==
  /\ serve[l] = "accept" /\ listener[l] = "open"
  /\ serve' = [serve EXCEPT ![l] = "listen"]
  /\ UNCHANGED <<contextVars, listener, token, connVars>>

Accept(l, c) ==
  /\ serve[l] = "accept" /\ listener[l] = "open" /\ owner[c] = NoLoop
  /\ owner' = [owner EXCEPT ![c] = l]
  /\ serve' = [serve EXCEPT ![l] = "hold"]
  /\ UNCHANGED <<contextVars, listener, token, held, latch>>

\* The listener was closed, or the program is out of file descriptors: any
\* error but a time-out is the end of the goroutine.
AcceptFails(l) ==
  /\ serve[l] = "accept"
  /\ Exit(l)
  /\ UNCHANGED <<contextVars, listener, connVars>>

\* Mutant of Hold: the latch is not held.
HoldNothing(l, c) ==
  /\ serve[l] = "hold" /\ owner[c] = l /\ c \notin held
  /\ held' = held \cup {c}
  /\ token' = [token EXCEPT ![l] = FALSE]
  /\ serve' = [serve EXCEPT ![l] = "preflight"]
  /\ UNCHANGED <<contextVars, listener, owner, latch>>

\* The handler, and the token with it, is on its own now.
Hold(l, c) ==
  /\ serve[l] = "hold" /\ owner[c] = l /\ c \notin held
  /\ held' = held \cup {c}
  /\ latch' = latch + 1
  /\ token' = [token EXCEPT ![l] = FALSE]
  /\ serve' = [serve EXCEPT ![l] = "preflight"]
  /\ UNCHANGED <<contextVars, listener, owner>>

\* Mutant of HandlerReturns: the latch is held for ever.
HandlerReturnsHolding(c) ==
  /\ c \in held
  /\ held' = held \ {c}
  /\ owner' = [owner EXCEPT ![c] = NoLoop]
  /\ UNCHANGED <<contextVars, listener, serve, token, latch>>

HandlerReturns(c) ==
  /\ c \in held
  /\ held' = held \ {c}
  /\ owner' = [owner EXCEPT ![c] = NoLoop]
  /\ latch' = latch - 1
  /\ UNCHANGED <<contextVars, listener, serve, token>>

LoopInit ==
  /\ signalled = FALSE /\ stopped = {}
  /\ listener = [l \in Loop |-> "none"]
  /\ serve = [l \in Loop |-> "off"]
  /\ token = [l \in Loop |-> FALSE]
  /\ owner = [c \in Conn |-> NoLoop]
  /\ held = {} /\ latch = 0

LoopNext ==
  \/ \E l \in Loop : \/ Preflight(l) \/ Listen(l) \/ AcceptTimeout(l) \/ AcceptFails(l)
                     \/ \E c \in Conn : Accept(l, c) \/ Hold(l, c)
  \/ \E c \in Conn : HandlerReturns(c)

\* What the goroutine does by itself: a token or a client may never come.
Proceeds(l) ==
  \/ Preflight(l) /\ Done(l)
  \/ Listen(l) \/ AcceptTimeout(l)
  \/ AcceptFails(l) /\ listener[l] = "closed"
  \/ \E c \in Conn : Hold(l, c)

-----------------------------------------------------------------------------
(***************************************************************************)
(* Properties                                                              *)
(***************************************************************************)
LoopTypeOK ==
  /\ signalled \in BOOLEAN /\ stopped \in SUBSET Loop
  /\ listener \in [Loop -> {"none", "open", "closed"}]
  /\ serve \in [Loop -> {"off", "preflight", "listen", "accept", "hold", "exited"}]
  /\ token \in [Loop -> BOOLEAN]
  /\ owner \in [Conn -> Loop \cup {NoLoop}]
  /\ held \in SUBSET Conn /\ latch \in Nat
  /\ \A c \in held : owner[c] # NoLoop

\* tcp.go:39 takes the token out of the context and calls Entry() on it: no
\* handler starts without one, although the Wait of the preflight may return
\* without token and error when the context is cancelled.
HandlerHasToken == \A l \in Loop : serve[l] = "hold" => token[l]
=============================================================================
