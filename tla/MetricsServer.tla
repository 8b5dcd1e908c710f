---------------------------- MODULE MetricsServer ----------------------------
(***************************************************************************)
(* The metrics server (proxy/src/metrics_server.cpp): one thread that       *)
(* answers one client after the other on a blocking socket, and stop, which *)
(* waits for that thread.  The assumptions on its constants are those of    *)
(* TcpTransport, with which it shares the descriptors.                      *)
(***************************************************************************)
EXTENDS Naturals

CONSTANTS
  Clients,    \* connections of metrics clients, each once
  Fds,        \* descriptor numbers of the process
  NoSocket,   \* a descriptor that is not in use
  NoFd        \* the server has no client

VARIABLES
  file,           \* the socket each descriptor stands for
  client,         \* each client: not there, in the backlog, accepted
  serverRunning,  \* running
  server,         \* where server_loop is
  clientFd        \* its client_fd

serverVars == <<client, serverRunning, server, clientFd>>

\* start(): the thread listens; it has ended at once if it could not.
ServerInit ==
  /\ client = [m \in Clients |-> "none"]
  /\ serverRunning = TRUE /\ server \in {"loop", "ended"}
  /\ clientFd = NoFd

ServerEnded == server = "ended"

ClientConnects(m) ==
  /\ client[m] = "none" /\ ~ServerEnded
  /\ client' = [client EXCEPT ![m] = "waiting"]
  /\ UNCHANGED <<file, serverRunning, server, clientFd>>

\* Wrong: the flag is not tested.
ServeTestNot ==
  /\ server = "loop" /\ server' = "accept"
  /\ UNCHANGED <<file, client, serverRunning, clientFd>>

\* while (running)
ServeTest ==
  /\ server = "loop"
  /\ server' = IF serverRunning THEN "accept" ELSE "ended"
  /\ UNCHANGED <<file, client, serverRunning, clientFd>>

\* The next client gets the lowest free descriptor; if there is none, accept
\* fails and the loop goes on.
ServeAccept(m) ==
  /\ server = "accept" /\ client[m] = "waiting"
  /\ LET free == {f \in Fds : file[f] = NoSocket} IN
     \/ \E f \in free :
          /\ \A g \in free : f <= g
          /\ file' = [file EXCEPT ![f] = m]
          /\ client' = [client EXCEPT ![m] = "accepted"]
          /\ clientFd' = f /\ server' = "recv"
     \/ free = {} /\ server' = "loop" /\ UNCHANGED <<file, client, clientFd>>
  /\ UNCHANGED serverRunning

\* recv returns, with a request or not.
ServeRecv ==
  /\ server = "recv"
  /\ server' = "reply"
  /\ UNCHANGED <<file, client, serverRunning, clientFd>>

\* The response goes to whatever the descriptor stands for, which is closed.
ServeReply ==
  /\ server = "reply"
  /\ file' = [file EXCEPT ![clientFd] = NoSocket]
  /\ clientFd' = NoFd /\ server' = "loop"
  /\ UNCHANGED <<client, serverRunning>>

\* stop() clears the flag; it returns when the thread has ended.
ServerStop ==
  /\ serverRunning
  /\ serverRunning' = FALSE
  /\ UNCHANGED <<file, client, server, clientFd>>

\* All the thread does but for a recv that returns.
ServerStep ==
  \/ ServeTest \/ ServeReply
  \/ \E m \in Clients : ServeAccept(m)
=============================================================================
