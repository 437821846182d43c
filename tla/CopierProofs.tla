---------------------------- MODULE CopierProofs ----------------------------
(***************************************************************************)
(* Proofs about Copier, for a peer that sends any number of units.         *)
(*                                                                         *)
(* The inductive invariant says that the buffer is empty except in a       *)
(* write: next is then the unit after the last one that was read.  Without *)
(* it a time-out of a read could drop what Read had taken.                 *)
(***************************************************************************)
EXTENDS Copier, TLAPS

\* Only in a write is something in the buffer.
BufferInWrite == pc = "write" <=> next <= taken

Inv == TypeOK /\ BufferInWrite

LEMMA InitInv == Init => Inv
<1> SUFFICES ASSUME Init PROVE Inv
  OBVIOUS
<1>1. sent = 0 /\ taken = 0 /\ next = 1 /\ delivered = {} /\ pc = "start"
  BY DEF Init
<1>2. TypeOK
  <2>1. sent \in Nat /\ taken \in 0..sent /\ next \in 1..taken + 1
    BY <1>1
  <2>2. delivered \subseteq 1..next - 1
    BY <1>1
  <2>3. /\ pc \in {"start", "read", "write"} \cup Returned
        /\ source \in {"open", "closed", "broken"}
        /\ sink \in {"open", "stalled", "broken"}
        /\ cancelled \in BOOLEAN
    BY DEF Init
  <2> QED BY <2>1, <2>2, <2>3 DEF TypeOK
<1>3. BufferInWrite
  BY <1>1 DEF BufferInWrite
<1> QED BY <1>2, <1>3 DEF Inv

\* What is delivered lies below next, whatever Return does to the buffer.
LEMMA ReturnInv ==
  ASSUME Inv, NEW result \in {"start"} \cup Returned, Return(result)
  PROVE  Inv'
<1>1. next' = taken + 1 /\ pc' = result /\ taken' = taken /\ delivered' = delivered
  BY DEF Return
<1>2. UNCHANGED peerVars
  BY DEF Return
<1>3. next \in Nat /\ taken \in Nat /\ next <= taken + 1 /\ delivered \subseteq 1..next - 1
  BY DEF Inv, TypeOK
<1>4. delivered \subseteq 1..taken
  BY <1>3
<1>5. TypeOK'
  BY <1>1, <1>2, <1>3, <1>4 DEF Inv, TypeOK, peerVars, Returned
<1>6. BufferInWrite'
  BY <1>1, <1>3 DEF BufferInWrite, Returned
<1> QED BY <1>5, <1>6 DEF Inv

LEMMA NextInv == Inv /\ [Next]_vars => Inv'
<1> SUFFICES ASSUME Inv, [Next]_vars PROVE Inv'
  OBVIOUS
<1> USE UnitsAssumption
<1>t. /\ sent \in Nat /\ taken \in Nat /\ taken <= sent
      /\ next \in Nat /\ 1 <= next /\ next <= taken + 1
      /\ delivered \subseteq 1..next - 1
  BY DEF Inv, TypeOK
<1>o. OnTimeout \in {"start"} \cup Returned
  BY DEF OnTimeout, Returned
<1>1. CASE SetDeadlines
  BY <1>1 DEF SetDeadlines, Inv, TypeOK, BufferInWrite, peerVars, Returned
<1>2. CASE Read
  <2>1. PICK n \in taken + 1 .. sent : taken' = n
    BY <1>2 DEF Read
  <2>2. pc = "read" /\ pc' = "write" /\ UNCHANGED <<next, delivered, peerVars>>
    BY <1>2 DEF Read
  <2>3. next = taken + 1
    BY <2>2, <1>t DEF Inv, BufferInWrite
  <2>4. next' <= taken' /\ taken' \in Nat /\ taken' <= sent'
    BY <2>1, <2>2, <2>3, <1>t DEF peerVars
  <2>5. TypeOK'
    BY <2>1, <2>2, <2>4, <1>t DEF Inv, TypeOK, peerVars, Returned
  <2> QED BY <2>2, <2>4, <2>5 DEF Inv, BufferInWrite
<1>3. CASE Write
  <2>1. /\ pc = "write" /\ next' = next + 1 /\ delivered' = delivered \cup {next}
        /\ pc' = (IF next = taken THEN "read" ELSE "write")
        /\ UNCHANGED <<taken, peerVars>>
    BY <1>3 DEF Write
  <2>2. next <= taken
    BY <2>1 DEF Inv, BufferInWrite
  <2>3. delivered' \subseteq 1..next' - 1
    BY <2>1, <1>t
  <2>4. TypeOK'
    BY <2>1, <2>2, <2>3, <1>t DEF Inv, TypeOK, peerVars, Returned
  <2>5. BufferInWrite'
    BY <2>1, <2>2, <1>t DEF BufferInWrite
  <2> QED BY <2>4, <2>5 DEF Inv
<1>4. CASE ReadTimeout
  BY <1>4, <1>o, ReturnInv DEF ReadTimeout
<1>5. CASE WriteTimeout
  BY <1>5, <1>o, ReturnInv DEF WriteTimeout
<1>6. CASE EndOfFile
  BY <1>6, ReturnInv DEF EndOfFile, Returned
<1>7. CASE Fail
  BY <1>7, ReturnInv DEF Fail, Returned
<1>8. CASE Send
  BY <1>8, <1>t DEF Send, Inv, TypeOK, BufferInWrite, copyVars
<1>9. CASE SourceEnds \/ SinkChanges \/ Cancel
  BY <1>9 DEF SourceEnds, SinkChanges, Cancel, Inv, TypeOK, BufferInWrite, copyVars
<1>10. CASE UNCHANGED vars
  BY <1>10 DEF vars, copyVars, peerVars, Inv, TypeOK, BufferInWrite
<1> QED BY <1>1, <1>2, <1>3, <1>4, <1>5, <1>6, <1>7, <1>8, <1>9, <1>10 DEF Next, Copy

THEOREM Invariance == Spec => []Inv
BY InitInv, NextInv, PTL DEF Spec

\* The counters of what was sent, read and written stay in order, and nothing
\* is delivered that was not read (copier.go:67, io.Copy).
THEOREM TypeCorrect == Spec => []TypeOK
<1>1. Inv => TypeOK
  BY DEF Inv
<1> QED BY <1>1, Invariance, PTL

-----------------------------------------------------------------------------
\* A step that does not end a call of io.Copy drops nothing.
LEMMA LossStep ==
  Inv /\ [Next]_vars => (Lost' # Lost => sink \in {"stalled", "broken"})
<1> SUFFICES ASSUME Inv, [Next]_vars, sink \notin {"stalled", "broken"}
             PROVE  Lost' = Lost
  OBVIOUS
<1>t. /\ taken \in Nat /\ next \in Nat /\ 1 <= next /\ next <= taken + 1
      /\ delivered \subseteq 1..next - 1
  BY DEF Inv, TypeOK
<1>e. pc # "write" => next = taken + 1
  BY <1>t DEF Inv, BufferInWrite
<1>1. CASE Write
  <2>1. next' = next + 1 /\ delivered' = delivered \cup {next}
    BY <1>1 DEF Write
  <2>2. 1..next' - 1 = (1..next - 1) \cup {next} /\ next \notin 1..next - 1
    BY <2>1, <1>t
  <2> QED BY <2>1, <2>2 DEF Lost
<1>2. CASE ReadTimeout \/ EndOfFile
  <2>1. pc = "read" /\ next' = taken + 1 /\ delivered' = delivered
    BY <1>2 DEF ReadTimeout, EndOfFile, Return
  <2> QED BY <2>1, <1>e DEF Lost
<1>3. CASE WriteTimeout
  BY <1>3 DEF WriteTimeout
<1>4. CASE Fail
  <2>1. pc = "read" /\ next' = taken + 1 /\ delivered' = delivered
    BY <1>4 DEF Fail, Return
  <2> QED BY <2>1, <1>e DEF Lost
<1>5. CASE \/ SetDeadlines \/ Read \/ Send \/ SourceEnds \/ SinkChanges \/ Cancel
           \/ UNCHANGED vars
  <2>1. next' = next /\ delivered' = delivered
    BY <1>5 DEF SetDeadlines, Read, Send, SourceEnds, SinkChanges, Cancel, vars, copyVars
  <2> QED BY <2>1 DEF Lost
<1> QED BY <1>1, <1>2, <1>3, <1>4, <1>5 DEF Next, Copy

\* However often io.Copy is interrupted to look at the context, bytes are left
\* out only in a step in which the receiver stalls or is gone (copier.go:71).
THEOREM LossNeedsStall == Spec => LossOnlyWhenStalled
<1>1. Inv /\ [Next]_vars => [Lost' # Lost => sink \in {"stalled", "broken"}]_vars
  BY LossStep
<1> QED BY <1>1, Invariance, PTL DEF Spec, LossOnlyWhenStalled
=============================================================================
