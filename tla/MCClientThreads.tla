--------------------------- MODULE MCClientThreads ---------------------------
(***************************************************************************)
(* One call dialed and one received, two attempts at a REGISTER.            *)
(***************************************************************************)
EXTENDS ClientThreads

CONSTANTS dialed, offered
=============================================================================
