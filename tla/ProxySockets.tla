---------------------------- MODULE ProxySockets ----------------------------
(***************************************************************************)
(* The parts of the proxy's process that open and close sockets while it    *)
(* runs, on one table of descriptors: the TCP transport and the metrics     *)
(* server, and the order in which main takes them down.                     *)
(***************************************************************************)
EXTENDS TcpTransport

VARIABLES client, serverRunning, server, clientFd,
          exit     \* how far main is after proxy.stop()

Metrics == INSTANCE MetricsServer WITH Clients <- OtherSockets

metricsVars == <<client, serverRunning, server, clientFd>>
vars == <<tcpVars, metricsVars, exit>>

Init == TcpInit /\ Metrics!ServerInit /\ exit = "no"

Transport == TcpNext /\ UNCHANGED <<metricsVars, exit>>

ServerRuns ==
  /\ Metrics!ServerStep
  /\ UNCHANGED <<peerVars, acceptVars, table, readVars, sendVars, stopVars, exit>>

ServerReads ==
  /\ Metrics!ServeRecv
  /\ UNCHANGED <<tcpVars, exit>>

ClientArrives ==
  /\ \E m \in OtherSockets : Metrics!ClientConnects(m)
  /\ UNCHANGED <<tcpVars, exit>>

\* main returns after proxy.stop(), which is where the transport has stopped,
\* and the destructor of its metrics server stops the thread and joins it.
MainReturns ==
  /\ stage = "stopped" /\ exit = "no" /\ exit' = "joinMetrics"
  /\ Metrics!ServerStop
  /\ UNCHANGED tcpVars

ProcessEnds ==
  /\ exit = "joinMetrics" /\ Metrics!ServerEnded
  /\ exit' = "ended"
  /\ UNCHANGED <<tcpVars, metricsVars>>

Next == \/ Transport \/ ServerRuns \/ ServerReads \/ ClientArrives
        \/ MainReturns \/ ProcessEnds

Spec == Init /\ [][Next]_vars

\* recv returns when the peer has left.  A metrics client, whose socket a thread
\* may read from once stop has closed its descriptor, may be silent for ever.
RecvEnds(c) == source[c] \in Conns /\ ReadEnd(c)

\* Every thread goes on when it can, and one that waits for a mutex that is
\* free again and again gets it.  Nothing is assumed of peers and clients: a
\* recv, an accept and a send may last for ever.
Fairness ==
  /\ WF_vars(AcceptStep /\ UNCHANGED <<metricsVars, exit>>)
  /\ SF_vars(AcceptInsert /\ UNCHANGED <<metricsVars, exit>>)
  /\ \A c \in Conns :
       /\ WF_vars((ReadTest(c) \/ ReadCall(c) \/ RecvEnds(c)) /\ UNCHANGED <<metricsVars, exit>>)
       /\ SF_vars(ReadClose(c) /\ UNCHANGED <<metricsVars, exit>>)
  /\ WF_vars(StopStep /\ UNCHANGED <<metricsVars, exit>>)
  /\ SF_vars(CloseAll /\ UNCHANGED <<metricsVars, exit>>)
  /\ WF_vars(ServerRuns)
  /\ WF_vars(MainReturns \/ ProcessEnds)

FairSpec == Spec /\ Fairness

-----------------------------------------------------------------------------

\* Types of all variables, and what makes each step well defined: accept has
\* returned a connection when its thread puts it in the table, a running
\* receiveLoop has a descriptor and a source.
TypeOK ==
  /\ file \in [Fds -> Conns \cup OtherSockets \cup {NoSocket}]
  /\ line \in [Conns -> {"none", "up", "down"}]
  /\ addrOf \in [Conns -> PeerAddrs \cup {NoAddr}]
  /\ \A c \in Conns : line[c] # "none" => addrOf[c] # NoAddr
  /\ running \in BOOLEAN
  /\ acceptor \in {"loop", "accept", "check", "insert", "spawn", "ended"}
  /\ fresh \in Conns \cup {NoConn} /\ freshFd \in Fds \cup {NoFd}
  /\ acceptor \in {"insert", "spawn"} => fresh # NoConn
  /\ fresh # NoConn => freshFd # NoFd
  /\ table \in [PeerAddrs -> Fds \cup {NoFd}]
  /\ reader \in [Conns -> {"none", "loop", "call", "recv", "closing", "ended"}]
  /\ readerFd \in [Conns -> Fds \cup {NoFd}]
  /\ \A c \in Conns : reader[c] \notin {"none", "ended"} => readerFd[c] # NoFd
  /\ source \in [Conns -> Conns \cup OtherSockets \cup {NoSocket}]
  /\ \A c \in Conns : reader[c] = "recv" => source[c] # NoSocket
  /\ sending \in Fds \cup {NoFd} /\ sendingTo \in PeerAddrs \cup {NoAddr}
  /\ stage \in Stages
  /\ client \in [OtherSockets -> {"none", "waiting", "accepted"}]
  /\ serverRunning \in BOOLEAN
  /\ server \in {"loop", "accept", "recv", "reply", "ended"}
  /\ clientFd \in Fds \cup {NoFd}
  /\ server \in {"recv", "reply"} => clientFd # NoFd
  /\ exit \in {"no", "joinMetrics", "ended"}

\* The descriptor a worker is writing to stands for a connection of the peer
\* the message is for, for as long as the write lasts: nobody closes it, and
\* it is not given to another connection (TcpTransport::send).
SendsReachPeer ==
  sending # NoFd => file[sending] \in Conns /\ addrOf[file[sending]] = sendingTo

\* Until stop closes the connections, a receive thread reads from its own
\* connection: its descriptor is not closed, nor given to a connection or a
\* metrics client that came later (receiveLoop, acceptLoop).
ReadsOwnConnection ==
  \A c \in Conns : reader[c] \in {"loop", "call", "recv"} /\ stage # "joinReaders"
                     => file[readerFd[c]] = c

\* A connection that its peer has left is closed and its thread ends, before
\* stop and after it, unless a worker is for ever stuck in a send, or the thread
\* in a recv on a metrics client, which got the descriptor that stop has closed
\* (receiveLoop, stop).
GoneIsClosed ==
  []<>TableUnlocked =>
    \A c \in Conns :
      []<>(source[c] \notin OtherSockets)
        => ((reader[c] = "loop" /\ line[c] = "down") ~> reader[c] = "ended")

\* TcpTransport::stop comes back, unless a recv or a send never does: threads
\* that wait for each other's locks, or that stop joins, do not block it.
StopReturns ==
  ([]<>TableUnlocked /\ \A c \in Conns : []<>(reader[c] # "recv"))
    => (stage = "shutListener" ~> stage = "stopped")

\* Once main waits for the metrics server, the process ends as soon as the
\* server is out of accept and has its client's request: it answers that
\* client and does not wait for another (MetricsServer::stop, server_loop).
ProcessReturns ==
  (exit = "joinMetrics" /\ server \notin {"accept", "recv"}) ~> exit = "ended"

(***************************************************************************)
(* What the documents promise, and the code does not keep.                  *)
(***************************************************************************)

\* docs/interface-contracts.md:90: stop() terminates the receive loop cleanly.
StopEndsReceiveLoops ==
  []<>TableUnlocked => (stage = "shutListener" ~> stage = "stopped")

\* docs/interface-contracts.md:65: each accepted connection is tracked in the
\* map from address to descriptor, so that send finds it.
AcceptedIsTracked ==
  \A c \in Conns : reader[c] \in {"loop", "call", "recv"} /\ line[c] = "up" /\ running
                     => table[addrOf[c]] = readerFd[c]

\* docs/build-run.md:604: the metrics server automatically stops when the
\* proxy shuts down.
MetricsStopWithProxy == exit = "joinMetrics" ~> exit = "ended"
=============================================================================
