---------------------------- MODULE TcpTransport ----------------------------
(***************************************************************************)
(* The TCP transport of the proxy (networking/src/tcp_transport.cpp): the   *)
(* accept thread, one receive thread per connection, the table from which   *)
(* send takes the descriptor of an address, and stop.                       *)
(*                                                                         *)
(* Descriptors are the process's: a closed one is given to the next accept, *)
(* here or in another component, and whoever still has its number then      *)
(* reads from, writes to or closes something else.  What a receive thread   *)
(* does with the bytes it reads is module TaskPipeline.                     *)
(***************************************************************************)
EXTENDS Naturals

CONSTANTS
  Conns,         \* connections that peers may open, numbered in that order
  PeerAddrs,     \* "ip:port"
  Fds,           \* descriptor numbers
  OtherSockets,  \* sockets of other components of the process
  NoSocket,      \* a descriptor that is not in use
  NoFd,          \* no descriptor: an address that is not in the table
  NoConn,        \* accept returned nothing
  NoAddr         \* no address

ASSUME ConnsAssumption == Conns \subseteq Nat
ASSUME FdsAssumption == Fds \subseteq Nat /\ NoFd \notin Fds
ASSUME SocketAssumption ==
  /\ Conns \cap OtherSockets = {}
  /\ NoSocket \notin Conns \cup OtherSockets
  /\ NoConn \notin Conns /\ NoAddr \notin PeerAddrs

VARIABLES
  file,       \* the socket each descriptor stands for
  line,       \* each connection, as its peer sees it
  addrOf,     \* the address it comes from
  running,    \* running_
  acceptor,   \* where acceptLoop is
  fresh,      \* the connection accept has returned and its descriptor
  freshFd,
  table,      \* connections_
  reader,     \* where the receiveLoop of each connection is
  readerFd,   \* its client_fd
  source,     \* the socket its recv reads from
  sending,    \* the descriptor a worker writes to, holding connections_mutex_
  sendingTo,  \* and the address the message is for
  stage       \* how far stop is

peerVars   == <<line, addrOf>>
acceptVars == <<acceptor, fresh, freshFd>>
readVars   == <<reader, readerFd, source>>
sendVars   == <<sending, sendingTo>>
stopVars   == <<running, stage>>
tcpVars    == <<file, peerVars, acceptVars, table, readVars, sendVars, stopVars>>

Stages == {"serving", "shutListener", "joinAccept", "closeAll", "joinReaders", "stopped"}

\* start(): the accept thread runs, nobody is connected.
TcpInit ==
  /\ file = [f \in Fds |-> NoSocket]
  /\ line = [c \in Conns |-> "none"]
  /\ addrOf = [c \in Conns |-> NoAddr]
  /\ running = TRUE
  /\ acceptor = "loop" /\ fresh = NoConn /\ freshFd = NoFd
  /\ table = [a \in PeerAddrs |-> NoFd]
  /\ reader = [c \in Conns |-> "none"]
  /\ readerFd = [c \in Conns |-> NoFd]
  /\ source = [c \in Conns |-> NoSocket]
  /\ sending = NoFd /\ sendingTo = NoAddr
  /\ stage = "serving"

\* The lowest free descriptor is the next one the process is given.
FreeFds == {f \in Fds : file[f] = NoSocket}
NextFd(f) == f \in FreeFds /\ \A g \in FreeFds : f <= g

\* connections_mutex_ is held across a send, and by nobody else for longer
\* than a step.
TableUnlocked == sending = NoFd

(***************************************************************************)
(* The peers.                                                               *)
(***************************************************************************)

\* An address has one live connection at a time.  A peer that lost or reset
\* one may open another from the same port.
PeerConnects(c, a) ==
  /\ line[c] = "none" /\ stage = "serving"
  /\ \A d \in Conns : d < c => line[d] # "none"
  /\ \A d \in Conns : addrOf[d] = a => line[d] # "up"
  /\ line' = [line EXCEPT ![c] = "up"]
  /\ addrOf' = [addrOf EXCEPT ![c] = a]
  /\ UNCHANGED <<file, acceptVars, table, readVars, sendVars, stopVars>>

PeerLeaves(c) ==
  /\ line[c] = "up"
  /\ line' = [line EXCEPT ![c] = "down"]
  /\ UNCHANGED addrOf
  /\ UNCHANGED <<file, acceptVars, table, readVars, sendVars, stopVars>>

(***************************************************************************)
(* TcpTransport::acceptLoop                                                 *)
(***************************************************************************)

Backlog == {c \in Conns : line[c] # "none" /\ reader[c] = "none" /\ fresh # c}

\* Wrong: stop does not shut the listening socket down.
ListeningStill == stage \in Stages

\* shutdown() of the listening socket ends an accept, also a later one.
Listening == stage \in {"serving", "shutListener"}

\* while (running_)
AcceptTest ==
  /\ acceptor = "loop"
  /\ acceptor' = IF running THEN "accept" ELSE "ended"
  /\ UNCHANGED <<file, peerVars, fresh, freshFd, table, readVars, sendVars, stopVars>>

Accept(c) ==
  /\ acceptor = "accept" /\ Listening /\ c \in Backlog
  /\ \E f \in Fds :
       /\ NextFd(f)
       /\ file' = [file EXCEPT ![f] = c]
       /\ fresh' = c /\ freshFd' = f
  /\ acceptor' = "check"
  /\ UNCHANGED <<peerVars, table, readVars, sendVars, stopVars>>

\* accept returns -1: the listener is shut down, or no descriptor is free.
AcceptFails ==
  /\ acceptor = "accept"
  /\ \/ ~Listening
     \/ Backlog # {} /\ FreeFds = {}
  /\ acceptor' = "check" /\ fresh' = NoConn /\ freshFd' = NoFd
  /\ UNCHANGED <<file, peerVars, table, readVars, sendVars, stopVars>>

\* Wrong: what accept returned is not tested.
AcceptCheckFlagOnly ==
  /\ acceptor = "check"
  /\ acceptor' = IF running THEN "insert" ELSE "ended"
  /\ UNCHANGED <<file, peerVars, fresh, freshFd, table, readVars, sendVars, stopVars>>

\* if (!running_) break; the descriptor of a new connection is not closed then.
AcceptCheck ==
  /\ acceptor = "check"
  /\ acceptor' = CASE ~running -> "ended"
                   [] running /\ fresh = NoConn -> "loop"
                   [] OTHER -> "insert"
  /\ UNCHANGED <<file, peerVars, fresh, freshFd, table, readVars, sendVars, stopVars>>

\* Wrong: the descriptor of the entry that is overwritten is closed.
AcceptInsertClosesOld ==
  /\ acceptor = "insert" /\ TableUnlocked
  /\ table' = [table EXCEPT ![addrOf[fresh]] = freshFd]
  /\ file' = [f \in Fds |-> IF f = table[addrOf[fresh]] THEN NoSocket ELSE file[f]]
  /\ acceptor' = "spawn"
  /\ UNCHANGED <<peerVars, fresh, freshFd, readVars, sendVars, stopVars>>

AcceptInsert ==
  /\ acceptor = "insert" /\ TableUnlocked
  /\ table' = [table EXCEPT ![addrOf[fresh]] = freshFd]
  /\ acceptor' = "spawn"
  /\ UNCHANGED <<file, peerVars, fresh, freshFd, readVars, sendVars, stopVars>>

\* recv_threads_mutex_ is free: stop takes it after it has joined this thread.
AcceptSpawn ==
  /\ acceptor = "spawn"
  /\ reader' = [reader EXCEPT ![fresh] = "loop"]
  /\ readerFd' = [readerFd EXCEPT ![fresh] = freshFd]
  /\ acceptor' = "loop" /\ fresh' = NoConn /\ freshFd' = NoFd
  /\ UNCHANGED <<file, peerVars, table, source, sendVars, stopVars>>

(***************************************************************************)
(* TcpTransport::receiveLoop, in the thread of connection c                 *)
(***************************************************************************)

\* while (running_)
ReadTest(c) ==
  /\ reader[c] = "loop"
  /\ reader' = [reader EXCEPT ![c] = IF running THEN "call" ELSE "closing"]
  /\ UNCHANGED <<file, peerVars, acceptVars, table, readerFd, source, sendVars, stopVars>>

\* recv finds the socket of its descriptor and keeps it, even if the
\* descriptor is closed meanwhile; a closed one is an error.
ReadCall(c) ==
  /\ reader[c] = "call"
  /\ LET s == file[readerFd[c]] IN
       /\ source' = [source EXCEPT ![c] = s]
       /\ reader' = [reader EXCEPT ![c] = IF s = NoSocket THEN "closing" ELSE "recv"]
  /\ UNCHANGED <<file, peerVars, acceptVars, table, readerFd, sendVars, stopVars>>

\* Bytes arrive; complete messages go to the callback.
ReadData(c) ==
  /\ reader[c] = "recv"
  /\ source[c] \in Conns => line[source[c]] = "up"
  /\ reader' = [reader EXCEPT ![c] = "loop"]
  /\ source' = [source EXCEPT ![c] = NoSocket]
  /\ UNCHANGED <<file, peerVars, acceptVars, table, readerFd, sendVars, stopVars>>

\* Wrong: only an error ends the loop, not the end of the stream.
ReadEndLoops(c) ==
  /\ reader[c] = "recv"
  /\ source[c] \in Conns => line[source[c]] = "down"
  /\ reader' = [reader EXCEPT ![c] = "loop"]
  /\ source' = [source EXCEPT ![c] = NoSocket]
  /\ UNCHANGED <<file, peerVars, acceptVars, table, readerFd, sendVars, stopVars>>

\* n <= 0: the peer has closed or reset the connection.
ReadEnd(c) ==
  /\ reader[c] = "recv"
  /\ source[c] \in Conns => line[source[c]] = "down"
  /\ reader' = [reader EXCEPT ![c] = "closing"]
  /\ source' = [source EXCEPT ![c] = NoSocket]
  /\ UNCHANGED <<file, peerVars, acceptVars, table, readerFd, sendVars, stopVars>>

\* Wrong: the descriptor is closed without connections_mutex_.
ReadCloseUnlocked(c) ==
  /\ reader[c] = "closing"
  /\ table' = [table EXCEPT ![addrOf[c]] = NoFd]
  /\ file' = [file EXCEPT ![readerFd[c]] = NoSocket]
  /\ reader' = [reader EXCEPT ![c] = "ended"]
  /\ readerFd' = [readerFd EXCEPT ![c] = NoFd]
  /\ UNCHANGED <<peerVars, acceptVars, source, sendVars, stopVars>>

\* The entry goes by address and the descriptor by number, whatever they
\* stand for by now.
ReadClose(c) ==
  /\ reader[c] = "closing" /\ TableUnlocked
  /\ table' = [table EXCEPT ![addrOf[c]] = NoFd]
  /\ file' = [file EXCEPT ![readerFd[c]] = NoSocket]
  /\ reader' = [reader EXCEPT ![c] = "ended"]
  /\ readerFd' = [readerFd EXCEPT ![c] = NoFd]
  /\ UNCHANGED <<peerVars, acceptVars, source, sendVars, stopVars>>

(***************************************************************************)
(* TcpTransport::send, in a worker.  An address that is not in the table    *)
(* drops the message and changes nothing.  The socket blocks.               *)
(***************************************************************************)

SendBegins(a) ==
  /\ TableUnlocked /\ table[a] # NoFd
  /\ sending' = table[a] /\ sendingTo' = a
  /\ UNCHANGED <<file, peerVars, acceptVars, table, readVars, stopVars>>

SendEnds ==
  /\ ~TableUnlocked
  /\ sending' = NoFd /\ sendingTo' = NoAddr
  /\ UNCHANGED <<file, peerVars, acceptVars, table, readVars, stopVars>>

(***************************************************************************)
(* TcpTransport::stop                                                       *)
(***************************************************************************)

StopBegins ==
  /\ stage = "serving"
  /\ running' = FALSE /\ stage' = "shutListener"
  /\ UNCHANGED <<file, peerVars, acceptVars, table, readVars, sendVars>>

ShutListener ==
  /\ stage = "shutListener" /\ stage' = "joinAccept"
  /\ UNCHANGED <<file, peerVars, acceptVars, table, readVars, sendVars, running>>

JoinAccept ==
  /\ stage = "joinAccept" /\ acceptor = "ended"
  /\ stage' = "closeAll"
  /\ UNCHANGED <<file, peerVars, acceptVars, table, readVars, sendVars, running>>

CloseAll ==
  /\ stage = "closeAll" /\ TableUnlocked
  /\ file' = [f \in Fds |-> IF \E a \in PeerAddrs : table[a] = f THEN NoSocket ELSE file[f]]
  /\ table' = [a \in PeerAddrs |-> NoFd]
  /\ stage' = "joinReaders"
  /\ UNCHANGED <<peerVars, acceptVars, readVars, sendVars, running>>

JoinReaders ==
  /\ stage = "joinReaders" /\ \A c \in Conns : reader[c] \in {"none", "ended"}
  /\ stage' = "stopped"
  /\ UNCHANGED <<file, peerVars, acceptVars, table, readVars, sendVars, running>>

-----------------------------------------------------------------------------

PeerStep ==
  \E c \in Conns : PeerLeaves(c) \/ \E a \in PeerAddrs : PeerConnects(c, a)

AcceptStep ==
  \/ AcceptTest \/ AcceptFails \/ AcceptCheck \/ AcceptInsert \/ AcceptSpawn
  \/ \E c \in Conns : Accept(c)

ReadStep(c) ==
  ReadTest(c) \/ ReadCall(c) \/ ReadData(c) \/ ReadEnd(c) \/ ReadClose(c)

SendStep == SendEnds \/ \E a \in PeerAddrs : SendBegins(a)

\* What stop does once it is called.
StopStep == ShutListener \/ JoinAccept \/ CloseAll \/ JoinReaders

TcpNext == \/ PeerStep \/ AcceptStep \/ SendStep \/ StopBegins \/ StopStep
           \/ \E c \in Conns : ReadStep(c)
=============================================================================
