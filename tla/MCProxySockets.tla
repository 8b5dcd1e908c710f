--------------------------- MODULE MCProxySockets ---------------------------
(***************************************************************************)
(* Two connections, from one address or from two, a client of the metrics   *)
(* server, and a descriptor fewer than there are sockets.                   *)
(***************************************************************************)
EXTENDS ProxySockets

CONSTANTS m1, atAlice, atBob
=============================================================================
