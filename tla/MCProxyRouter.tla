--------------------------- MODULE MCProxyRouter ---------------------------
(***************************************************************************)
(* A small instance of ProxyRouter: one Call-ID, a caller and a callee, and *)
(* a third address that uses the same Call-ID.                              *)
(***************************************************************************)
EXTENDS ProxyRouter, TLC

CONSTANTS w1, w2, alice, bob, call1, atAlice, atBob, atOther

MCTransport == [a \in {atAlice, atBob, atOther} |-> "UDP"]

Pkt(type, from, to, addr, via, ok) ==
  [type |-> type, call |-> call1, from |-> from, to |-> to,
   addr |-> addr, via |-> via, ok |-> ok]

\* Registration of the callee, INVITEs from two addresses, a BYE of the callee
\* from an address it did not register, and
\* the messages that move, close or uncount a call; every kind of packet the
\* router tells apart is there.
MCTraffic ==
  {Pkt("REGISTER", bob, bob, atBob, NoAddr, TRUE),
   Pkt("INVITE", alice, bob, atAlice, NoAddr, TRUE),
   Pkt("INVITE", alice, bob, atOther, NoAddr, TRUE),
   Pkt("ACK", alice, bob, atAlice, NoAddr, TRUE),
   Pkt("BYE", bob, alice, atOther, NoAddr, TRUE)}
  \cup {Pkt(t, bob, alice, atBob, NoAddr, TRUE) :
          t \in {"180", "200_INVITE", "200_BYE", "486", "603"}}

\* Packets that the router refuses or ignores.
MCRefused ==
  {Pkt("REGISTER", bob, bob, atBob, NoAddr, FALSE),
   Pkt("INVITE", alice, alice, atAlice, NoAddr, TRUE),
   Pkt("OPTIONS", alice, bob, atAlice, NoAddr, TRUE),
   Pkt("JUNK", alice, bob, atAlice, NoAddr, TRUE),
   Pkt("200_BYE", alice, bob, atAlice, atAlice, TRUE)}

MCAllTraffic == MCTraffic \cup MCRefused

WorkerSymmetry == Permutations(Workers)
=============================================================================
