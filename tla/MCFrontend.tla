----------------------------- MODULE MCFrontend -----------------------------
(* Instances of Frontend for TLC. *)
EXTENDS Frontend

CONSTANTS b1, b2, b3, g1, g2

Tcp(b, every, maintain) ==
  [bind |-> b, proto |-> "tcp", backends |-> "tcp", every |-> every, maintenance |-> maintain]

\* The last one counts.
One == [kind |-> "clean", frontends |-> <<Tcp(b1, 1, 3), Tcp(b1, 1, 0)>>]
None == [kind |-> "clean", frontends |-> <<>>]
Typo == [kind |-> "clean", frontends |-> <<Tcp("unparsable", 0, 0), Tcp(b1, 0, 0)>>]
\* A UDP backend and the shortest maintenance time; no ticker for an address
\* that is in use; a UDP frontend.
Mixed == [kind |-> "dirty", frontends |->
           <<[Tcp(b1, 1, 1) EXCEPT !.backends = "udp"], Tcp(b2, 0, 6),
             [Tcp(b3, 0, 6) EXCEPT !.proto = "udp"]>>]
Silent == [kind |-> "silent", frontends |-> <<>>]

AllFiles == {One, None, Typo, Mixed, Silent}
TwiceFirst == {<<b1, g1>>, <<b1, g2>>, <<b2, g1>>}

OneFile == {One}
=============================================================================
