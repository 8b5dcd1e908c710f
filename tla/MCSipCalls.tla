----------------------------- MODULE MCSipCalls -----------------------------
(***************************************************************************)
(* Small instances of SipCalls: alice calls bob, and in the second call     *)
(* carol, who may use another transport, calls bob.                         *)
(***************************************************************************)
EXTENDS SipCalls, TLC

CONSTANTS w1, w2, alice, bob, carol, call1, call2, atAlice, atBob, atCarol

MCCaller == [c \in CallIds |-> IF c = call1 THEN alice ELSE IF carol \in Users THEN carol ELSE bob]
MCCallee == [c \in CallIds |-> IF MCCaller[c] = bob THEN alice ELSE bob]
MCHome == [u \in Users |-> CASE u = alice -> atAlice
                              [] u = bob   -> atBob
                              [] u = carol -> atCarol]

MCOneRegister == [u \in Users |-> 1]
MCBobRegistersAgain == [u \in Users |-> IF u = bob THEN 2 ELSE 1]

AllUdp == [a \in Addrs |-> "UDP"]
CarolOnTcp == [a \in Addrs |-> IF a = atCarol THEN "TCP" ELSE "UDP"]

MCTraffic == PeerTraffic
WorkerSymmetry == Permutations(Workers)
=============================================================================
