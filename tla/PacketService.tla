---------------------------- MODULE PacketService ----------------------------
(***************************************************************************)
(* What SIPProxy promises of the packets its transports accept: each is     *)
(* handled, at most once, and stop() returns only when none is left.        *)
(***************************************************************************)
CONSTANT Packets

VARIABLES accepted, done, open

serviceVars == <<accepted, done, open>>

ServiceInit == accepted = {} /\ done = {} /\ open = TRUE

Accept(p) ==
  /\ open /\ p \notin accepted
  /\ accepted' = accepted \cup {p}
  /\ UNCHANGED <<done, open>>

Handle(p) ==
  /\ open /\ p \in accepted \ done
  /\ done' = done \cup {p}
  /\ UNCHANGED <<accepted, open>>

Close ==
  /\ open /\ accepted = done
  /\ open' = FALSE
  /\ UNCHANGED <<accepted, done>>

ServiceNext == (\E p \in Packets : Accept(p) \/ Handle(p)) \/ Close

ServiceSpec == ServiceInit /\ [][ServiceNext]_serviceVars
=============================================================================
