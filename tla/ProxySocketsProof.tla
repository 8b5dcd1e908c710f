------------------------- MODULE ProxySocketsProof -------------------------
(***************************************************************************)
(* Proofs about module ProxySockets: types, and that no descriptor is used  *)
(* by a thread it does not belong to before stop has closed the             *)
(* connections.                                                             *)
(***************************************************************************)
EXTENDS ProxySockets, TLAPS

-----------------------------------------------------------------------------
(* The inductive invariant: to which socket each number that a thread keeps *)
(* belongs, and in which order stop goes.                                   *)

\* stop has not closed the connections yet.
Open == stage \in {"serving", "shutListener", "joinAccept", "closeAll"}

ReadersOwn ==
  Open => \A c \in Conns :
            reader[c] \in {"loop", "call", "recv", "closing"} => file[readerFd[c]] = c

FreshOwn ==
  acceptor \in {"check", "insert", "spawn"} /\ fresh # NoConn
    => file[freshFd] = fresh /\ reader[fresh] = "none"

ClientOwn ==
  Open /\ server \in {"recv", "reply"} => file[clientFd] \in OtherSockets

TableOwn ==
  \A a \in PeerAddrs :
    table[a] # NoFd => file[table[a]] \in Conns /\ addrOf[file[table[a]]] = a

SendOwn ==
  sending # NoFd => sendingTo \in PeerAddrs /\ table[sendingTo] = sending

OpenedByPeer ==
  \A f \in Fds : file[f] \in Conns => line[file[f]] # "none"

StopOrder ==
  /\ stage \in {"closeAll", "joinReaders", "stopped"} => acceptor = "ended"
  /\ stage \in {"joinReaders", "stopped"} => \A a \in PeerAddrs : table[a] = NoFd
  /\ stage = "stopped" => \A c \in Conns : reader[c] \in {"none", "ended"}

OwnInv == /\ TypeOK
          /\ ReadersOwn /\ FreshOwn /\ ClientOwn /\ TableOwn /\ SendOwn
          /\ OpenedByPeer /\ StopOrder

-----------------------------------------------------------------------------
(* Types. *)

LEMMA TypeInit == Init => TypeOK
  BY SocketAssumption, FdsAssumption
  DEF Init, TcpInit, Metrics!ServerInit, TypeOK, Stages

\* Every step of the transport keeps the types.
LEMMA TypeTransport == TypeOK /\ Transport => TypeOK'
<1> SUFFICES ASSUME TypeOK, Transport PROVE TypeOK'
  OBVIOUS
<1> USE SocketAssumption, FdsAssumption
<1>1. ASSUME NEW c \in Conns, NEW a \in PeerAddrs, PeerConnects(c, a), UNCHANGED <<metricsVars, exit>>
      PROVE  TypeOK'
  BY <1>1 DEF TypeOK, Stages, PeerConnects, peerVars, acceptVars, readVars, sendVars, stopVars, metricsVars
<1>2. ASSUME NEW c \in Conns, PeerLeaves(c), UNCHANGED <<metricsVars, exit>>
      PROVE  TypeOK'
  BY <1>2 DEF TypeOK, Stages, PeerLeaves, peerVars, acceptVars, readVars, sendVars, stopVars, metricsVars
<1>3. ASSUME AcceptTest, UNCHANGED <<metricsVars, exit>>
      PROVE  TypeOK'
  BY <1>3 DEF TypeOK, Stages, AcceptTest, peerVars, acceptVars, readVars, sendVars, stopVars, metricsVars
<1>4. ASSUME NEW c \in Conns, Accept(c), UNCHANGED <<metricsVars, exit>>
      PROVE  TypeOK'
  BY <1>4 DEF TypeOK, Stages, Accept, Backlog, NextFd, FreeFds, peerVars, acceptVars, readVars, sendVars, stopVars, metricsVars
<1>5. ASSUME AcceptFails, UNCHANGED <<metricsVars, exit>>
      PROVE  TypeOK'
  BY <1>5 DEF TypeOK, Stages, AcceptFails, peerVars, acceptVars, readVars, sendVars, stopVars, metricsVars
<1>6. ASSUME AcceptCheck, UNCHANGED <<metricsVars, exit>>
      PROVE  TypeOK'
  BY <1>6 DEF TypeOK, Stages, AcceptCheck, peerVars, acceptVars, readVars, sendVars, stopVars, metricsVars
<1>7. ASSUME AcceptInsert, UNCHANGED <<metricsVars, exit>>
      PROVE  TypeOK'
  <2>1. table' \in [PeerAddrs -> Fds \cup {NoFd}] /\ fresh # NoConn
    BY <1>7 DEF TypeOK, AcceptInsert
  <2> QED BY <1>7, <2>1 DEF TypeOK, AcceptInsert, peerVars, acceptVars, readVars, sendVars, stopVars, metricsVars
<1>8. ASSUME AcceptSpawn, UNCHANGED <<metricsVars, exit>>
      PROVE  TypeOK'
  BY <1>8 DEF TypeOK, Stages, AcceptSpawn, peerVars, acceptVars, readVars, sendVars, stopVars, metricsVars
<1>9. ASSUME NEW c \in Conns, ReadTest(c), UNCHANGED <<metricsVars, exit>>
      PROVE  TypeOK'
  BY <1>9 DEF TypeOK, Stages, ReadTest, peerVars, acceptVars, readVars, sendVars, stopVars, metricsVars
<1>10. ASSUME NEW c \in Conns, ReadCall(c), UNCHANGED <<metricsVars, exit>>
      PROVE  TypeOK'
  <2>1. source' \in [Conns -> Conns \cup OtherSockets \cup {NoSocket}]
    BY <1>10 DEF ReadCall, TypeOK
  <2>2. reader' \in [Conns -> {"none", "loop", "call", "recv", "closing", "ended"}]
    BY <1>10 DEF ReadCall, TypeOK
  <2>3. \A d \in Conns : /\ reader'[d] \notin {"none", "ended"} => readerFd'[d] # NoFd
                         /\ reader'[d] = "recv" => source'[d] # NoSocket
    BY <1>10 DEF ReadCall, TypeOK
  <2> QED BY <1>10, <2>1, <2>2, <2>3 DEF TypeOK, ReadCall, peerVars, acceptVars, readVars, sendVars, stopVars, metricsVars
<1>11. ASSUME NEW c \in Conns, ReadData(c), UNCHANGED <<metricsVars, exit>>
      PROVE  TypeOK'
  BY <1>11 DEF TypeOK, Stages, ReadData, peerVars, acceptVars, readVars, sendVars, stopVars, metricsVars
<1>12. ASSUME NEW c \in Conns, ReadEnd(c), UNCHANGED <<metricsVars, exit>>
      PROVE  TypeOK'
  BY <1>12 DEF TypeOK, Stages, ReadEnd, peerVars, acceptVars, readVars, sendVars, stopVars, metricsVars
<1>13. ASSUME NEW c \in Conns, ReadClose(c), UNCHANGED <<metricsVars, exit>>
      PROVE  TypeOK'
  <2>1. readerFd[c] \in Fds
    BY <1>13 DEF ReadClose, TypeOK
  <2>2. /\ file' \in [Fds -> Conns \cup OtherSockets \cup {NoSocket}]
        /\ table' \in [PeerAddrs -> Fds \cup {NoFd}]
        /\ reader' \in [Conns -> {"none", "loop", "call", "recv", "closing", "ended"}]
        /\ readerFd' \in [Conns -> Fds \cup {NoFd}]
    BY <1>13, <2>1 DEF ReadClose, TypeOK
  <2>3. \A d \in Conns : /\ reader'[d] \notin {"none", "ended"} => readerFd'[d] # NoFd
                         /\ reader'[d] = "recv" => source'[d] # NoSocket
    BY <1>13 DEF ReadClose, TypeOK, readVars
  <2> QED BY <1>13, <2>2, <2>3 DEF TypeOK, ReadClose, peerVars, acceptVars, readVars, sendVars, stopVars, metricsVars
<1>14. ASSUME NEW a \in PeerAddrs, SendBegins(a), UNCHANGED <<metricsVars, exit>>
      PROVE  TypeOK'
  BY <1>14 DEF TypeOK, Stages, SendBegins, TableUnlocked, peerVars, acceptVars, readVars, sendVars, stopVars, metricsVars
<1>15. ASSUME SendEnds, UNCHANGED <<metricsVars, exit>>
      PROVE  TypeOK'
  BY <1>15 DEF TypeOK, Stages, SendEnds, TableUnlocked, peerVars, acceptVars, readVars, sendVars, stopVars, metricsVars
<1>16. ASSUME StopBegins, UNCHANGED <<metricsVars, exit>>
      PROVE  TypeOK'
  <2>1. running' \in BOOLEAN /\ stage' \in Stages
    BY <1>16 DEF StopBegins, Stages
  <2> QED BY <1>16, <2>1 DEF TypeOK, StopBegins, peerVars, acceptVars, readVars, sendVars, stopVars, metricsVars
<1>17. ASSUME ShutListener, UNCHANGED <<metricsVars, exit>>
      PROVE  TypeOK'
  BY <1>17 DEF TypeOK, Stages, ShutListener, peerVars, acceptVars, readVars, sendVars, stopVars, metricsVars
<1>18. ASSUME JoinAccept, UNCHANGED <<metricsVars, exit>>
      PROVE  TypeOK'
  BY <1>18 DEF TypeOK, Stages, JoinAccept, peerVars, acceptVars, readVars, sendVars, stopVars, metricsVars
<1>19. ASSUME CloseAll, UNCHANGED <<metricsVars, exit>>
      PROVE  TypeOK'
  BY <1>19 DEF TypeOK, Stages, CloseAll, TableUnlocked, peerVars, acceptVars, readVars, sendVars, stopVars, metricsVars
<1>20. ASSUME JoinReaders, UNCHANGED <<metricsVars, exit>>
      PROVE  TypeOK'
  BY <1>20 DEF TypeOK, Stages, JoinReaders, peerVars, acceptVars, readVars, sendVars, stopVars, metricsVars
<1> QED
  BY <1>1, <1>2, <1>3, <1>4, <1>5, <1>6, <1>7, <1>8, <1>9, <1>10, <1>11, <1>12, <1>13, <1>14, <1>15, <1>16, <1>17, <1>18, <1>19, <1>20
  DEF Transport, TcpNext, PeerStep, AcceptStep, ReadStep, SendStep, StopStep

\* A step of the metrics server's thread or of one of its clients.
MetricsStep ==
  /\ \/ Metrics!ServerStep \/ Metrics!ServeRecv
     \/ \E m \in OtherSockets : Metrics!ClientConnects(m)
  /\ UNCHANGED <<peerVars, acceptVars, table, readVars, sendVars, stopVars, exit>>

\* What the process does besides.
MainStep == MainReturns \/ ProcessEnds

LEMMA NextSteps == Next => Transport \/ MetricsStep \/ MainStep
  BY DEF Next, MetricsStep, MainStep, ServerRuns, ServerReads, ClientArrives,
         tcpVars, peerVars, acceptVars, readVars, sendVars, stopVars

LEMMA TypeMetrics == TypeOK /\ MetricsStep => TypeOK'
<1> SUFFICES ASSUME TypeOK, MetricsStep PROVE TypeOK'
  OBVIOUS
<1> USE SocketAssumption, FdsAssumption
<1>0. UNCHANGED <<peerVars, acceptVars, table, readVars, sendVars, stopVars, exit>>
  BY DEF MetricsStep
<1>1. ASSUME Metrics!ServeTest
      PROVE  TypeOK'
  BY <1>0, <1>1 DEF TypeOK, Metrics!ServeTest, peerVars, acceptVars, readVars, sendVars, stopVars, metricsVars
<1>2. ASSUME Metrics!ServeReply
      PROVE  TypeOK'
  BY <1>0, <1>2 DEF TypeOK, Metrics!ServeReply, peerVars, acceptVars, readVars, sendVars, stopVars, metricsVars
<1>3. ASSUME NEW m \in OtherSockets, Metrics!ServeAccept(m)
      PROVE  TypeOK'
  BY <1>0, <1>3 DEF TypeOK, Metrics!ServeAccept, peerVars, acceptVars, readVars, sendVars, stopVars, metricsVars
<1>4. ASSUME Metrics!ServeRecv
      PROVE  TypeOK'
  BY <1>0, <1>4 DEF TypeOK, Metrics!ServeRecv, peerVars, acceptVars, readVars, sendVars, stopVars, metricsVars
<1>5. ASSUME NEW m \in OtherSockets, Metrics!ClientConnects(m)
      PROVE  TypeOK'
  BY <1>0, <1>5 DEF TypeOK, Metrics!ClientConnects, peerVars, acceptVars, readVars, sendVars, stopVars, metricsVars
<1> QED BY <1>1, <1>2, <1>3, <1>4, <1>5 DEF MetricsStep, Metrics!ServerStep

LEMMA TypeMain == TypeOK /\ MainStep => TypeOK'
  BY DEF TypeOK, MainStep, MainReturns, ProcessEnds, Metrics!ServerStop,
         Metrics!ServerEnded, tcpVars, peerVars, acceptVars, readVars, sendVars,
         stopVars, metricsVars

LEMMA TypeStutters == TypeOK /\ UNCHANGED vars => TypeOK'
  BY DEF TypeOK, vars, tcpVars, peerVars, acceptVars, readVars, sendVars, stopVars,
         metricsVars

LEMMA TypeNext == TypeOK /\ [Next]_vars => TypeOK'
  BY TypeTransport, TypeMetrics, TypeMain, TypeStutters, NextSteps

\* The proxy's threads keep to the types: accept has returned a connection
\* when it is put into the table, and a receiveLoop has a descriptor.
THEOREM SocketsTypeCorrect == Spec => []TypeOK
  BY TypeInit, TypeNext, PTL DEF Spec

-----------------------------------------------------------------------------
(* Who owns which descriptor. *)

LEMMA OwnInit == Init => OwnInv
<1> SUFFICES ASSUME Init PROVE OwnInv
  OBVIOUS
<1>1. TypeOK
  BY TypeInit
<1>2. /\ ReadersOwn /\ FreshOwn /\ ClientOwn /\ TableOwn /\ SendOwn /\ OpenedByPeer
      /\ StopOrder
  BY SocketAssumption DEF Init, TcpInit, Metrics!ServerInit, ReadersOwn, FreshOwn,
     ClientOwn, TableOwn, SendOwn, OpenedByPeer, StopOrder
<1> QED BY <1>1, <1>2 DEF OwnInv

LEMMA OwnTransport == OwnInv /\ Transport => OwnInv'
<1> SUFFICES ASSUME OwnInv, Transport PROVE OwnInv'
  OBVIOUS
<1> USE SocketAssumption, FdsAssumption
<1>0. TypeOK'
  BY TypeTransport DEF OwnInv
<1>1. ASSUME NEW c \in Conns, NEW a \in PeerAddrs, PeerConnects(c, a), UNCHANGED <<metricsVars, exit>>
      PROVE  OwnInv'
  <2>1. ReadersOwn' /\ OpenedByPeer'
    BY <1>1 DEF OwnInv, TypeOK, Open, ReadersOwn, FreshOwn, ClientOwn, TableOwn, SendOwn, OpenedByPeer,
       StopOrder, PeerConnects, peerVars, acceptVars, readVars, sendVars, stopVars, metricsVars
  <2>2. FreshOwn' /\ ClientOwn'
    BY <1>1 DEF OwnInv, TypeOK, Open, ReadersOwn, FreshOwn, ClientOwn, TableOwn, SendOwn, OpenedByPeer,
       StopOrder, PeerConnects, peerVars, acceptVars, readVars, sendVars, stopVars, metricsVars
  <2>3. TableOwn' /\ SendOwn'
    <3>1. \A b \in PeerAddrs : table[b] # NoFd => file[table[b]] # c
      BY <1>1 DEF OwnInv, TypeOK, OpenedByPeer, PeerConnects
    <3> QED BY <1>1, <3>1 DEF OwnInv, TypeOK, TableOwn, SendOwn, PeerConnects, acceptVars,
                              sendVars
  <2>4. StopOrder'
    BY <1>1 DEF OwnInv, TypeOK, Open, ReadersOwn, FreshOwn, ClientOwn, TableOwn, SendOwn, OpenedByPeer,
       StopOrder, PeerConnects, peerVars, acceptVars, readVars, sendVars, stopVars, metricsVars
  <2> QED BY <1>0, <2>1, <2>2, <2>3, <2>4 DEF OwnInv
<1>2. ASSUME NEW c \in Conns, PeerLeaves(c), UNCHANGED <<metricsVars, exit>>
      PROVE  OwnInv'
  <2>1. ReadersOwn' /\ OpenedByPeer'
    BY <1>2 DEF OwnInv, TypeOK, Open, ReadersOwn, FreshOwn, ClientOwn, TableOwn, SendOwn, OpenedByPeer,
       StopOrder, PeerLeaves, peerVars, acceptVars, readVars, sendVars, stopVars, metricsVars
  <2>2. FreshOwn' /\ ClientOwn'
    BY <1>2 DEF OwnInv, TypeOK, Open, ReadersOwn, FreshOwn, ClientOwn, TableOwn, SendOwn, OpenedByPeer,
       StopOrder, PeerLeaves, peerVars, acceptVars, readVars, sendVars, stopVars, metricsVars
  <2>3. TableOwn' /\ SendOwn'
    BY <1>2 DEF OwnInv, TypeOK, Open, ReadersOwn, FreshOwn, ClientOwn, TableOwn, SendOwn, OpenedByPeer,
       StopOrder, PeerLeaves, peerVars, acceptVars, readVars, sendVars, stopVars, metricsVars
  <2>4. StopOrder'
    BY <1>2 DEF OwnInv, TypeOK, Open, ReadersOwn, FreshOwn, ClientOwn, TableOwn, SendOwn, OpenedByPeer,
       StopOrder, PeerLeaves, peerVars, acceptVars, readVars, sendVars, stopVars, metricsVars
  <2> QED BY <1>0, <2>1, <2>2, <2>3, <2>4 DEF OwnInv
<1>3. ASSUME AcceptTest, UNCHANGED <<metricsVars, exit>>
      PROVE  OwnInv'
  <2>1. ReadersOwn' /\ OpenedByPeer'
    BY <1>3 DEF OwnInv, TypeOK, Open, ReadersOwn, FreshOwn, ClientOwn, TableOwn, SendOwn, OpenedByPeer,
       StopOrder, AcceptTest, peerVars, acceptVars, readVars, sendVars, stopVars, metricsVars
  <2>2. FreshOwn' /\ ClientOwn'
    BY <1>3 DEF OwnInv, TypeOK, Open, ReadersOwn, FreshOwn, ClientOwn, TableOwn, SendOwn, OpenedByPeer,
       StopOrder, AcceptTest, peerVars, acceptVars, readVars, sendVars, stopVars, metricsVars
  <2>3. TableOwn' /\ SendOwn'
    BY <1>3 DEF OwnInv, TypeOK, Open, ReadersOwn, FreshOwn, ClientOwn, TableOwn, SendOwn, OpenedByPeer,
       StopOrder, AcceptTest, peerVars, acceptVars, readVars, sendVars, stopVars, metricsVars
  <2>4. StopOrder'
    BY <1>3 DEF OwnInv, TypeOK, Open, ReadersOwn, FreshOwn, ClientOwn, TableOwn, SendOwn, OpenedByPeer,
       StopOrder, AcceptTest, peerVars, acceptVars, readVars, sendVars, stopVars, metricsVars
  <2> QED BY <1>0, <2>1, <2>2, <2>3, <2>4 DEF OwnInv
<1>4. ASSUME NEW c \in Conns, Accept(c), UNCHANGED <<metricsVars, exit>>
      PROVE  OwnInv'
  <2>1. ReadersOwn' /\ OpenedByPeer'
    BY <1>4 DEF OwnInv, TypeOK, Open, ReadersOwn, FreshOwn, ClientOwn, TableOwn, SendOwn, OpenedByPeer,
       StopOrder, Accept, Backlog, NextFd, FreeFds, peerVars, acceptVars, readVars, sendVars, stopVars, metricsVars
  <2>2. FreshOwn' /\ ClientOwn'
    BY <1>4 DEF OwnInv, TypeOK, Open, ReadersOwn, FreshOwn, ClientOwn, TableOwn, SendOwn, OpenedByPeer,
       StopOrder, Accept, Backlog, NextFd, FreeFds, peerVars, acceptVars, readVars, sendVars, stopVars, metricsVars
  <2>3. TableOwn' /\ SendOwn'
    BY <1>4 DEF OwnInv, TypeOK, Open, ReadersOwn, FreshOwn, ClientOwn, TableOwn, SendOwn, OpenedByPeer,
       StopOrder, Accept, Backlog, NextFd, FreeFds, peerVars, acceptVars, readVars, sendVars, stopVars, metricsVars
  <2>4. StopOrder'
    BY <1>4 DEF OwnInv, TypeOK, Open, ReadersOwn, FreshOwn, ClientOwn, TableOwn, SendOwn, OpenedByPeer,
       StopOrder, Accept, Backlog, NextFd, FreeFds, peerVars, acceptVars, readVars, sendVars, stopVars, metricsVars
  <2> QED BY <1>0, <2>1, <2>2, <2>3, <2>4 DEF OwnInv
<1>5. ASSUME AcceptFails, UNCHANGED <<metricsVars, exit>>
      PROVE  OwnInv'
  <2>1. ReadersOwn' /\ OpenedByPeer'
    BY <1>5 DEF OwnInv, TypeOK, Open, ReadersOwn, FreshOwn, ClientOwn, TableOwn, SendOwn, OpenedByPeer,
       StopOrder, AcceptFails, peerVars, acceptVars, readVars, sendVars, stopVars, metricsVars
  <2>2. FreshOwn' /\ ClientOwn'
    BY <1>5 DEF OwnInv, TypeOK, Open, ReadersOwn, FreshOwn, ClientOwn, TableOwn, SendOwn, OpenedByPeer,
       StopOrder, AcceptFails, peerVars, acceptVars, readVars, sendVars, stopVars, metricsVars
  <2>3. TableOwn' /\ SendOwn'
    BY <1>5 DEF OwnInv, TypeOK, Open, ReadersOwn, FreshOwn, ClientOwn, TableOwn, SendOwn, OpenedByPeer,
       StopOrder, AcceptFails, peerVars, acceptVars, readVars, sendVars, stopVars, metricsVars
  <2>4. StopOrder'
    BY <1>5 DEF OwnInv, TypeOK, Open, ReadersOwn, FreshOwn, ClientOwn, TableOwn, SendOwn, OpenedByPeer,
       StopOrder, AcceptFails, peerVars, acceptVars, readVars, sendVars, stopVars, metricsVars
  <2> QED BY <1>0, <2>1, <2>2, <2>3, <2>4 DEF OwnInv
<1>6. ASSUME AcceptCheck, UNCHANGED <<metricsVars, exit>>
      PROVE  OwnInv'
  <2>1. ReadersOwn' /\ OpenedByPeer'
    BY <1>6 DEF OwnInv, TypeOK, Open, ReadersOwn, FreshOwn, ClientOwn, TableOwn, SendOwn, OpenedByPeer,
       StopOrder, AcceptCheck, peerVars, acceptVars, readVars, sendVars, stopVars, metricsVars
  <2>2. FreshOwn' /\ ClientOwn'
    BY <1>6 DEF OwnInv, TypeOK, Open, ReadersOwn, FreshOwn, ClientOwn, TableOwn, SendOwn, OpenedByPeer,
       StopOrder, AcceptCheck, peerVars, acceptVars, readVars, sendVars, stopVars, metricsVars
  <2>3. TableOwn' /\ SendOwn'
    BY <1>6 DEF OwnInv, TypeOK, Open, ReadersOwn, FreshOwn, ClientOwn, TableOwn, SendOwn, OpenedByPeer,
       StopOrder, AcceptCheck, peerVars, acceptVars, readVars, sendVars, stopVars, metricsVars
  <2>4. StopOrder'
    BY <1>6 DEF OwnInv, TypeOK, Open, ReadersOwn, FreshOwn, ClientOwn, TableOwn, SendOwn, OpenedByPeer,
       StopOrder, AcceptCheck, peerVars, acceptVars, readVars, sendVars, stopVars, metricsVars
  <2> QED BY <1>0, <2>1, <2>2, <2>3, <2>4 DEF OwnInv
<1>7. ASSUME AcceptInsert, UNCHANGED <<metricsVars, exit>>
      PROVE  OwnInv'
  <2>1. ReadersOwn' /\ OpenedByPeer'
    BY <1>7 DEF OwnInv, TypeOK, Open, ReadersOwn, FreshOwn, ClientOwn, TableOwn, SendOwn, OpenedByPeer,
       StopOrder, AcceptInsert, TableUnlocked, peerVars, acceptVars, readVars, sendVars, stopVars, metricsVars
  <2>2. FreshOwn' /\ ClientOwn'
    BY <1>7 DEF OwnInv, TypeOK, Open, ReadersOwn, FreshOwn, ClientOwn, TableOwn, SendOwn, OpenedByPeer,
       StopOrder, AcceptInsert, TableUnlocked, peerVars, acceptVars, readVars, sendVars, stopVars, metricsVars
  <2>3. TableOwn' /\ SendOwn'
    BY <1>7 DEF OwnInv, TypeOK, Open, ReadersOwn, FreshOwn, ClientOwn, TableOwn, SendOwn, OpenedByPeer,
       StopOrder, AcceptInsert, TableUnlocked, peerVars, acceptVars, readVars, sendVars, stopVars, metricsVars
  <2>4. StopOrder'
    BY <1>7 DEF OwnInv, TypeOK, Open, ReadersOwn, FreshOwn, ClientOwn, TableOwn, SendOwn, OpenedByPeer,
       StopOrder, AcceptInsert, TableUnlocked, peerVars, acceptVars, readVars, sendVars, stopVars, metricsVars
  <2> QED BY <1>0, <2>1, <2>2, <2>3, <2>4 DEF OwnInv
<1>8. ASSUME AcceptSpawn, UNCHANGED <<metricsVars, exit>>
      PROVE  OwnInv'
  <2>1. ReadersOwn' /\ OpenedByPeer'
    BY <1>8 DEF OwnInv, TypeOK, Open, ReadersOwn, FreshOwn, ClientOwn, TableOwn, SendOwn, OpenedByPeer,
       StopOrder, AcceptSpawn, peerVars, acceptVars, readVars, sendVars, stopVars, metricsVars
  <2>2. FreshOwn' /\ ClientOwn'
    BY <1>8 DEF OwnInv, TypeOK, Open, ReadersOwn, FreshOwn, ClientOwn, TableOwn, SendOwn, OpenedByPeer,
       StopOrder, AcceptSpawn, peerVars, acceptVars, readVars, sendVars, stopVars, metricsVars
  <2>3. TableOwn' /\ SendOwn'
    BY <1>8 DEF OwnInv, TypeOK, Open, ReadersOwn, FreshOwn, ClientOwn, TableOwn, SendOwn, OpenedByPeer,
       StopOrder, AcceptSpawn, peerVars, acceptVars, readVars, sendVars, stopVars, metricsVars
  <2>4. StopOrder'
    BY <1>8 DEF OwnInv, TypeOK, Open, ReadersOwn, FreshOwn, ClientOwn, TableOwn, SendOwn, OpenedByPeer,
       StopOrder, AcceptSpawn, peerVars, acceptVars, readVars, sendVars, stopVars, metricsVars
  <2> QED BY <1>0, <2>1, <2>2, <2>3, <2>4 DEF OwnInv
<1>9. ASSUME NEW c \in Conns, ReadTest(c), UNCHANGED <<metricsVars, exit>>
      PROVE  OwnInv'
  <2>1. ReadersOwn' /\ OpenedByPeer'
    BY <1>9 DEF OwnInv, TypeOK, Open, ReadersOwn, FreshOwn, ClientOwn, TableOwn, SendOwn, OpenedByPeer,
       StopOrder, ReadTest, peerVars, acceptVars, readVars, sendVars, stopVars, metricsVars
  <2>2. FreshOwn' /\ ClientOwn'
    BY <1>9 DEF OwnInv, TypeOK, Open, ReadersOwn, FreshOwn, ClientOwn, TableOwn, SendOwn, OpenedByPeer,
       StopOrder, ReadTest, peerVars, acceptVars, readVars, sendVars, stopVars, metricsVars
  <2>3. TableOwn' /\ SendOwn'
    BY <1>9 DEF OwnInv, TypeOK, Open, ReadersOwn, FreshOwn, ClientOwn, TableOwn, SendOwn, OpenedByPeer,
       StopOrder, ReadTest, peerVars, acceptVars, readVars, sendVars, stopVars, metricsVars
  <2>4. StopOrder'
    BY <1>9 DEF OwnInv, TypeOK, Open, ReadersOwn, FreshOwn, ClientOwn, TableOwn, SendOwn, OpenedByPeer,
       StopOrder, ReadTest, peerVars, acceptVars, readVars, sendVars, stopVars, metricsVars
  <2> QED BY <1>0, <2>1, <2>2, <2>3, <2>4 DEF OwnInv
<1>10. ASSUME NEW c \in Conns, ReadCall(c), UNCHANGED <<metricsVars, exit>>
      PROVE  OwnInv'
  <2>1. ReadersOwn' /\ OpenedByPeer'
    BY <1>10 DEF OwnInv, TypeOK, Open, ReadersOwn, FreshOwn, ClientOwn, TableOwn, SendOwn, OpenedByPeer,
       StopOrder, ReadCall, peerVars, acceptVars, readVars, sendVars, stopVars, metricsVars
  <2>2. FreshOwn' /\ ClientOwn'
    BY <1>10 DEF OwnInv, TypeOK, Open, ReadersOwn, FreshOwn, ClientOwn, TableOwn, SendOwn, OpenedByPeer,
       StopOrder, ReadCall, peerVars, acceptVars, readVars, sendVars, stopVars, metricsVars
  <2>3. TableOwn' /\ SendOwn'
    BY <1>10 DEF OwnInv, TypeOK, Open, ReadersOwn, FreshOwn, ClientOwn, TableOwn, SendOwn, OpenedByPeer,
       StopOrder, ReadCall, peerVars, acceptVars, readVars, sendVars, stopVars, metricsVars
  <2>4. StopOrder'
    BY <1>10 DEF OwnInv, TypeOK, Open, ReadersOwn, FreshOwn, ClientOwn, TableOwn, SendOwn, OpenedByPeer,
       StopOrder, ReadCall, peerVars, acceptVars, readVars, sendVars, stopVars, metricsVars
  <2> QED BY <1>0, <2>1, <2>2, <2>3, <2>4 DEF OwnInv
<1>11. ASSUME NEW c \in Conns, ReadData(c), UNCHANGED <<metricsVars, exit>>
      PROVE  OwnInv'
  <2>1. ReadersOwn' /\ OpenedByPeer'
    BY <1>11 DEF OwnInv, TypeOK, Open, ReadersOwn, FreshOwn, ClientOwn, TableOwn, SendOwn, OpenedByPeer,
       StopOrder, ReadData, peerVars, acceptVars, readVars, sendVars, stopVars, metricsVars
  <2>2. FreshOwn' /\ ClientOwn'
    BY <1>11 DEF OwnInv, TypeOK, Open, ReadersOwn, FreshOwn, ClientOwn, TableOwn, SendOwn, OpenedByPeer,
       StopOrder, ReadData, peerVars, acceptVars, readVars, sendVars, stopVars, metricsVars
  <2>3. TableOwn' /\ SendOwn'
    BY <1>11 DEF OwnInv, TypeOK, Open, ReadersOwn, FreshOwn, ClientOwn, TableOwn, SendOwn, OpenedByPeer,
       StopOrder, ReadData, peerVars, acceptVars, readVars, sendVars, stopVars, metricsVars
  <2>4. StopOrder'
    BY <1>11 DEF OwnInv, TypeOK, Open, ReadersOwn, FreshOwn, ClientOwn, TableOwn, SendOwn, OpenedByPeer,
       StopOrder, ReadData, peerVars, acceptVars, readVars, sendVars, stopVars, metricsVars
  <2> QED BY <1>0, <2>1, <2>2, <2>3, <2>4 DEF OwnInv
<1>12. ASSUME NEW c \in Conns, ReadEnd(c), UNCHANGED <<metricsVars, exit>>
      PROVE  OwnInv'
  <2>1. ReadersOwn' /\ OpenedByPeer'
    BY <1>12 DEF OwnInv, TypeOK, Open, ReadersOwn, FreshOwn, ClientOwn, TableOwn, SendOwn, OpenedByPeer,
       StopOrder, ReadEnd, peerVars, acceptVars, readVars, sendVars, stopVars, metricsVars
  <2>2. FreshOwn' /\ ClientOwn'
    BY <1>12 DEF OwnInv, TypeOK, Open, ReadersOwn, FreshOwn, ClientOwn, TableOwn, SendOwn, OpenedByPeer,
       StopOrder, ReadEnd, peerVars, acceptVars, readVars, sendVars, stopVars, metricsVars
  <2>3. TableOwn' /\ SendOwn'
    BY <1>12 DEF OwnInv, TypeOK, Open, ReadersOwn, FreshOwn, ClientOwn, TableOwn, SendOwn, OpenedByPeer,
       StopOrder, ReadEnd, peerVars, acceptVars, readVars, sendVars, stopVars, metricsVars
  <2>4. StopOrder'
    BY <1>12 DEF OwnInv, TypeOK, Open, ReadersOwn, FreshOwn, ClientOwn, TableOwn, SendOwn, OpenedByPeer,
       StopOrder, ReadEnd, peerVars, acceptVars, readVars, sendVars, stopVars, metricsVars
  <2> QED BY <1>0, <2>1, <2>2, <2>3, <2>4 DEF OwnInv
<1>13. ASSUME NEW c \in Conns, ReadClose(c), UNCHANGED <<metricsVars, exit>>
      PROVE  OwnInv'
  <2>0. /\ readerFd[c] \in Fds /\ (Open => file[readerFd[c]] = c)
        /\ file' = [file EXCEPT ![readerFd[c]] = NoSocket]
        /\ ~Open => acceptor = "ended" /\ \A a \in PeerAddrs : table[a] = NoFd
    BY <1>13 DEF ReadClose, OwnInv, TypeOK, Stages, Open, ReadersOwn, StopOrder
  <2>1. ReadersOwn' /\ OpenedByPeer'
    BY <1>13 DEF OwnInv, TypeOK, Open, ReadersOwn, FreshOwn, ClientOwn, TableOwn, SendOwn, OpenedByPeer,
       StopOrder, ReadClose, TableUnlocked, peerVars, acceptVars, readVars, sendVars, stopVars, metricsVars
  <2>2. FreshOwn' /\ ClientOwn'
    <3>1. acceptor \in {"check", "insert", "spawn"} /\ fresh # NoConn
            => freshFd \in Fds /\ freshFd # readerFd[c] /\ fresh # c
      BY <1>13, <2>0 DEF ReadClose, OwnInv, TypeOK, FreshOwn
    <3>2. FreshOwn'
      BY <1>13, <2>0, <3>1 DEF ReadClose, OwnInv, TypeOK, FreshOwn, acceptVars
    <3>3. Open /\ server \in {"recv", "reply"} => clientFd \in Fds /\ clientFd # readerFd[c]
      BY <2>0 DEF OwnInv, TypeOK, ClientOwn
    <3>4. ClientOwn'
      BY <1>13, <2>0, <3>3 DEF ReadClose, OwnInv, ClientOwn, Open, stopVars, metricsVars
    <3> QED BY <3>2, <3>4
  <2>3. TableOwn' /\ SendOwn'
    <3>1. sending' = NoFd
      BY <1>13 DEF ReadClose, TableUnlocked, sendVars
    <3>2. \A a \in PeerAddrs : table'[a] = IF a = addrOf[c] THEN NoFd ELSE table[a]
      BY <1>13 DEF ReadClose, OwnInv, TypeOK
    <3>3. \A a \in PeerAddrs :
            table[a] # NoFd /\ a # addrOf[c] => table[a] \in Fds /\ table[a] # readerFd[c]
      BY <2>0 DEF OwnInv, TypeOK, TableOwn
    <3>4. TableOwn'
      BY <1>13, <2>0, <3>2, <3>3 DEF ReadClose, OwnInv, TypeOK, TableOwn, peerVars
    <3> QED BY <3>1, <3>4 DEF SendOwn
  <2>4. StopOrder'
    BY <1>13 DEF OwnInv, TypeOK, Open, ReadersOwn, FreshOwn, ClientOwn, TableOwn, SendOwn, OpenedByPeer,
       StopOrder, ReadClose, TableUnlocked, peerVars, acceptVars, readVars, sendVars, stopVars, metricsVars
  <2> QED BY <1>0, <2>1, <2>2, <2>3, <2>4 DEF OwnInv
<1>14. ASSUME NEW a \in PeerAddrs, SendBegins(a), UNCHANGED <<metricsVars, exit>>
      PROVE  OwnInv'
  <2>1. ReadersOwn' /\ OpenedByPeer'
    BY <1>14 DEF OwnInv, TypeOK, Open, ReadersOwn, FreshOwn, ClientOwn, TableOwn, SendOwn, OpenedByPeer,
       StopOrder, SendBegins, TableUnlocked, peerVars, acceptVars, readVars, sendVars, stopVars, metricsVars
  <2>2. FreshOwn' /\ ClientOwn'
    BY <1>14 DEF OwnInv, TypeOK, Open, ReadersOwn, FreshOwn, ClientOwn, TableOwn, SendOwn, OpenedByPeer,
       StopOrder, SendBegins, TableUnlocked, peerVars, acceptVars, readVars, sendVars, stopVars, metricsVars
  <2>3. TableOwn' /\ SendOwn'
    BY <1>14 DEF OwnInv, TypeOK, Open, ReadersOwn, FreshOwn, ClientOwn, TableOwn, SendOwn, OpenedByPeer,
       StopOrder, SendBegins, TableUnlocked, peerVars, acceptVars, readVars, sendVars, stopVars, metricsVars
  <2>4. StopOrder'
    BY <1>14 DEF OwnInv, TypeOK, Open, ReadersOwn, FreshOwn, ClientOwn, TableOwn, SendOwn, OpenedByPeer,
       StopOrder, SendBegins, TableUnlocked, peerVars, acceptVars, readVars, sendVars, stopVars, metricsVars
  <2> QED BY <1>0, <2>1, <2>2, <2>3, <2>4 DEF OwnInv
<1>15. ASSUME SendEnds, UNCHANGED <<metricsVars, exit>>
      PROVE  OwnInv'
  <2>1. ReadersOwn' /\ OpenedByPeer'
    BY <1>15 DEF OwnInv, TypeOK, Open, ReadersOwn, FreshOwn, ClientOwn, TableOwn, SendOwn, OpenedByPeer,
       StopOrder, SendEnds, TableUnlocked, peerVars, acceptVars, readVars, sendVars, stopVars, metricsVars
  <2>2. FreshOwn' /\ ClientOwn'
    BY <1>15 DEF OwnInv, TypeOK, Open, ReadersOwn, FreshOwn, ClientOwn, TableOwn, SendOwn, OpenedByPeer,
       StopOrder, SendEnds, TableUnlocked, peerVars, acceptVars, readVars, sendVars, stopVars, metricsVars
  <2>3. TableOwn' /\ SendOwn'
    BY <1>15 DEF OwnInv, TypeOK, Open, ReadersOwn, FreshOwn, ClientOwn, TableOwn, SendOwn, OpenedByPeer,
       StopOrder, SendEnds, TableUnlocked, peerVars, acceptVars, readVars, sendVars, stopVars, metricsVars
  <2>4. StopOrder'
    BY <1>15 DEF OwnInv, TypeOK, Open, ReadersOwn, FreshOwn, ClientOwn, TableOwn, SendOwn, OpenedByPeer,
       StopOrder, SendEnds, TableUnlocked, peerVars, acceptVars, readVars, sendVars, stopVars, metricsVars
  <2> QED BY <1>0, <2>1, <2>2, <2>3, <2>4 DEF OwnInv
<1>16. ASSUME StopBegins, UNCHANGED <<metricsVars, exit>>
      PROVE  OwnInv'
  <2>1. ReadersOwn' /\ OpenedByPeer'
    BY <1>16 DEF OwnInv, TypeOK, Open, ReadersOwn, FreshOwn, ClientOwn, TableOwn, SendOwn, OpenedByPeer,
       StopOrder, StopBegins, peerVars, acceptVars, readVars, sendVars, stopVars, metricsVars
  <2>2. FreshOwn' /\ ClientOwn'
    BY <1>16 DEF OwnInv, TypeOK, Open, ReadersOwn, FreshOwn, ClientOwn, TableOwn, SendOwn, OpenedByPeer,
       StopOrder, StopBegins, peerVars, acceptVars, readVars, sendVars, stopVars, metricsVars
  <2>3. TableOwn' /\ SendOwn'
    BY <1>16 DEF OwnInv, TypeOK, Open, ReadersOwn, FreshOwn, ClientOwn, TableOwn, SendOwn, OpenedByPeer,
       StopOrder, StopBegins, peerVars, acceptVars, readVars, sendVars, stopVars, metricsVars
  <2>4. StopOrder'
    BY <1>16 DEF OwnInv, TypeOK, Open, ReadersOwn, FreshOwn, ClientOwn, TableOwn, SendOwn, OpenedByPeer,
       StopOrder, StopBegins, peerVars, acceptVars, readVars, sendVars, stopVars, metricsVars
  <2> QED BY <1>0, <2>1, <2>2, <2>3, <2>4 DEF OwnInv
<1>17. ASSUME ShutListener, UNCHANGED <<metricsVars, exit>>
      PROVE  OwnInv'
  <2>1. ReadersOwn' /\ OpenedByPeer'
    BY <1>17 DEF OwnInv, TypeOK, Open, ReadersOwn, FreshOwn, ClientOwn, TableOwn, SendOwn, OpenedByPeer,
       StopOrder, ShutListener, peerVars, acceptVars, readVars, sendVars, stopVars, metricsVars
  <2>2. FreshOwn' /\ ClientOwn'
    BY <1>17 DEF OwnInv, TypeOK, Open, ReadersOwn, FreshOwn, ClientOwn, TableOwn, SendOwn, OpenedByPeer,
       StopOrder, ShutListener, peerVars, acceptVars, readVars, sendVars, stopVars, metricsVars
  <2>3. TableOwn' /\ SendOwn'
    BY <1>17 DEF OwnInv, TypeOK, Open, ReadersOwn, FreshOwn, ClientOwn, TableOwn, SendOwn, OpenedByPeer,
       StopOrder, ShutListener, peerVars, acceptVars, readVars, sendVars, stopVars, metricsVars
  <2>4. StopOrder'
    BY <1>17 DEF OwnInv, TypeOK, Open, ReadersOwn, FreshOwn, ClientOwn, TableOwn, SendOwn, OpenedByPeer,
       StopOrder, ShutListener, peerVars, acceptVars, readVars, sendVars, stopVars, metricsVars
  <2> QED BY <1>0, <2>1, <2>2, <2>3, <2>4 DEF OwnInv
<1>18. ASSUME JoinAccept, UNCHANGED <<metricsVars, exit>>
      PROVE  OwnInv'
  <2>1. ReadersOwn' /\ OpenedByPeer'
    BY <1>18 DEF OwnInv, TypeOK, Open, ReadersOwn, FreshOwn, ClientOwn, TableOwn, SendOwn, OpenedByPeer,
       StopOrder, JoinAccept, peerVars, acceptVars, readVars, sendVars, stopVars, metricsVars
  <2>2. FreshOwn' /\ ClientOwn'
    BY <1>18 DEF OwnInv, TypeOK, Open, ReadersOwn, FreshOwn, ClientOwn, TableOwn, SendOwn, OpenedByPeer,
       StopOrder, JoinAccept, peerVars, acceptVars, readVars, sendVars, stopVars, metricsVars
  <2>3. TableOwn' /\ SendOwn'
    BY <1>18 DEF OwnInv, TypeOK, Open, ReadersOwn, FreshOwn, ClientOwn, TableOwn, SendOwn, OpenedByPeer,
       StopOrder, JoinAccept, peerVars, acceptVars, readVars, sendVars, stopVars, metricsVars
  <2>4. StopOrder'
    BY <1>18 DEF OwnInv, TypeOK, Open, ReadersOwn, FreshOwn, ClientOwn, TableOwn, SendOwn, OpenedByPeer,
       StopOrder, JoinAccept, peerVars, acceptVars, readVars, sendVars, stopVars, metricsVars
  <2> QED BY <1>0, <2>1, <2>2, <2>3, <2>4 DEF OwnInv
<1>19. ASSUME CloseAll, UNCHANGED <<metricsVars, exit>>
      PROVE  OwnInv'
  <2>1. ReadersOwn' /\ OpenedByPeer'
    BY <1>19 DEF OwnInv, TypeOK, Open, ReadersOwn, FreshOwn, ClientOwn, TableOwn, SendOwn, OpenedByPeer,
       StopOrder, CloseAll, TableUnlocked, peerVars, acceptVars, readVars, sendVars, stopVars, metricsVars
  <2>2. FreshOwn' /\ ClientOwn'
    BY <1>19 DEF OwnInv, TypeOK, Open, ReadersOwn, FreshOwn, ClientOwn, TableOwn, SendOwn, OpenedByPeer,
       StopOrder, CloseAll, TableUnlocked, peerVars, acceptVars, readVars, sendVars, stopVars, metricsVars
  <2>3. TableOwn' /\ SendOwn'
    BY <1>19 DEF OwnInv, TypeOK, Open, ReadersOwn, FreshOwn, ClientOwn, TableOwn, SendOwn, OpenedByPeer,
       StopOrder, CloseAll, TableUnlocked, peerVars, acceptVars, readVars, sendVars, stopVars, metricsVars
  <2>4. StopOrder'
    BY <1>19 DEF OwnInv, TypeOK, Open, ReadersOwn, FreshOwn, ClientOwn, TableOwn, SendOwn, OpenedByPeer,
       StopOrder, CloseAll, TableUnlocked, peerVars, acceptVars, readVars, sendVars, stopVars, metricsVars
  <2> QED BY <1>0, <2>1, <2>2, <2>3, <2>4 DEF OwnInv
<1>20. ASSUME JoinReaders, UNCHANGED <<metricsVars, exit>>
      PROVE  OwnInv'
  <2>1. ReadersOwn' /\ OpenedByPeer'
    BY <1>20 DEF OwnInv, TypeOK, Open, ReadersOwn, FreshOwn, ClientOwn, TableOwn, SendOwn, OpenedByPeer,
       StopOrder, JoinReaders, peerVars, acceptVars, readVars, sendVars, stopVars, metricsVars
  <2>2. FreshOwn' /\ ClientOwn'
    BY <1>20 DEF OwnInv, TypeOK, Open, ReadersOwn, FreshOwn, ClientOwn, TableOwn, SendOwn, OpenedByPeer,
       StopOrder, JoinReaders, peerVars, acceptVars, readVars, sendVars, stopVars, metricsVars
  <2>3. TableOwn' /\ SendOwn'
    BY <1>20 DEF OwnInv, TypeOK, Open, ReadersOwn, FreshOwn, ClientOwn, TableOwn, SendOwn, OpenedByPeer,
       StopOrder, JoinReaders, peerVars, acceptVars, readVars, sendVars, stopVars, metricsVars
  <2>4. StopOrder'
    BY <1>20 DEF OwnInv, TypeOK, Open, ReadersOwn, FreshOwn, ClientOwn, TableOwn, SendOwn, OpenedByPeer,
       StopOrder, JoinReaders, peerVars, acceptVars, readVars, sendVars, stopVars, metricsVars
  <2> QED BY <1>0, <2>1, <2>2, <2>3, <2>4 DEF OwnInv
<1> QED
  BY <1>1, <1>2, <1>3, <1>4, <1>5, <1>6, <1>7, <1>8, <1>9, <1>10, <1>11, <1>12, <1>13, <1>14, <1>15, <1>16, <1>17, <1>18, <1>19, <1>20
  DEF Transport, TcpNext, PeerStep, AcceptStep, ReadStep, SendStep, StopStep

LEMMA OwnMetrics == OwnInv /\ MetricsStep => OwnInv'
<1> SUFFICES ASSUME OwnInv, MetricsStep PROVE OwnInv'
  OBVIOUS
<1> USE SocketAssumption, FdsAssumption
<1>0. /\ UNCHANGED <<peerVars, acceptVars, table, readVars, sendVars, stopVars, exit>>
      /\ TypeOK'
  BY TypeMetrics DEF OwnInv, MetricsStep
<1>1. ASSUME Metrics!ServeTest
      PROVE  OwnInv'
  <2>1. ReadersOwn' /\ OpenedByPeer'
    BY <1>0, <1>1 DEF OwnInv, TypeOK, Open, ReadersOwn, FreshOwn, ClientOwn, TableOwn, SendOwn, OpenedByPeer,
       StopOrder, Metrics!ServeTest, peerVars, acceptVars, readVars, sendVars, stopVars, metricsVars
  <2>2. FreshOwn' /\ ClientOwn'
    BY <1>0, <1>1 DEF OwnInv, TypeOK, Open, ReadersOwn, FreshOwn, ClientOwn, TableOwn, SendOwn, OpenedByPeer,
       StopOrder, Metrics!ServeTest, peerVars, acceptVars, readVars, sendVars, stopVars, metricsVars
  <2>3. TableOwn' /\ SendOwn'
    BY <1>0, <1>1 DEF OwnInv, TypeOK, Open, ReadersOwn, FreshOwn, ClientOwn, TableOwn, SendOwn, OpenedByPeer,
       StopOrder, Metrics!ServeTest, peerVars, acceptVars, readVars, sendVars, stopVars, metricsVars
  <2>4. StopOrder'
    BY <1>0, <1>1 DEF OwnInv, TypeOK, Open, ReadersOwn, FreshOwn, ClientOwn, TableOwn, SendOwn, OpenedByPeer,
       StopOrder, Metrics!ServeTest, peerVars, acceptVars, readVars, sendVars, stopVars, metricsVars
  <2> QED BY <1>0, <2>1, <2>2, <2>3, <2>4 DEF OwnInv
<1>2. ASSUME Metrics!ServeReply
      PROVE  OwnInv'
  <2>0. /\ clientFd \in Fds /\ (Open => file[clientFd] \in OtherSockets)
        /\ file' = [file EXCEPT ![clientFd] = NoSocket]
        /\ ~Open => acceptor = "ended" /\ \A a \in PeerAddrs : table[a] = NoFd
    BY <1>2 DEF Metrics!ServeReply, OwnInv, TypeOK, Stages, Open, ClientOwn, StopOrder
  <2>1. ReadersOwn' /\ OpenedByPeer'
    BY <1>0, <1>2 DEF OwnInv, TypeOK, Open, ReadersOwn, FreshOwn, ClientOwn, TableOwn, SendOwn, OpenedByPeer,
       StopOrder, Metrics!ServeReply, peerVars, acceptVars, readVars, sendVars, stopVars, metricsVars
  <2>2. FreshOwn' /\ ClientOwn'
    <3>1. acceptor \in {"check", "insert", "spawn"} /\ fresh # NoConn
            => freshFd \in Fds /\ freshFd # clientFd
      BY <2>0 DEF OwnInv, TypeOK, FreshOwn
    <3>2. FreshOwn'
      BY <1>0, <2>0, <3>1 DEF OwnInv, TypeOK, FreshOwn, acceptVars, readVars
    <3> QED BY <1>2, <3>2 DEF Metrics!ServeReply, ClientOwn
  <2>3. TableOwn' /\ SendOwn'
    <3>1. \A a \in PeerAddrs : table[a] # NoFd => table[a] \in Fds /\ table[a] # clientFd
      BY <2>0 DEF OwnInv, TypeOK, TableOwn
    <3>2. TableOwn'
      BY <1>0, <2>0, <3>1 DEF OwnInv, TypeOK, TableOwn, peerVars
    <3> QED BY <1>0, <3>2 DEF OwnInv, SendOwn, sendVars
  <2>4. StopOrder'
    BY <1>0, <1>2 DEF OwnInv, TypeOK, Open, ReadersOwn, FreshOwn, ClientOwn, TableOwn, SendOwn, OpenedByPeer,
       StopOrder, Metrics!ServeReply, peerVars, acceptVars, readVars, sendVars, stopVars, metricsVars
  <2> QED BY <1>0, <2>1, <2>2, <2>3, <2>4 DEF OwnInv
<1>3. ASSUME NEW m \in OtherSockets, Metrics!ServeAccept(m)
      PROVE  OwnInv'
  <2>0. \/ UNCHANGED file /\ server' = "loop"
        \/ \E f \in Fds : /\ file[f] = NoSocket /\ file' = [file EXCEPT ![f] = m]
                          /\ clientFd' = f
    BY <1>3 DEF Metrics!ServeAccept
  <2>9. \A f \in Fds : file[f] \in Conns \/ file'[f] \in Conns => file'[f] = file[f]
    BY <2>0 DEF OwnInv, TypeOK
  <2>1. ReadersOwn' /\ OpenedByPeer'
    <3>0. \A c \in Conns : reader[c] \notin {"none", "ended"} => readerFd[c] \in Fds
      BY DEF OwnInv, TypeOK
    <3>1. ReadersOwn'
      <4> SUFFICES ASSUME Open', NEW c \in Conns,
                          reader'[c] \in {"loop", "call", "recv", "closing"}
                   PROVE  file'[readerFd'[c]] = c
        BY DEF ReadersOwn
      <4>1. Open /\ reader'[c] = reader[c] /\ readerFd'[c] = readerFd[c]
        BY <1>0 DEF Open, readVars, stopVars
      <4> QED BY <2>9, <3>0, <4>1 DEF OwnInv, ReadersOwn
    <3>2. OpenedByPeer'
      BY <1>0, <2>9 DEF OwnInv, OpenedByPeer, peerVars
    <3> QED BY <3>1, <3>2
  <2>2. FreshOwn' /\ ClientOwn'
    BY <1>0, <1>3 DEF OwnInv, TypeOK, Open, ReadersOwn, FreshOwn, ClientOwn, TableOwn, SendOwn, OpenedByPeer,
       StopOrder, Metrics!ServeAccept, peerVars, acceptVars, readVars, sendVars, stopVars, metricsVars
  <2>3. TableOwn' /\ SendOwn'
    <3>0. \A a \in PeerAddrs : table[a] # NoFd => table[a] \in Fds
      BY DEF OwnInv, TypeOK
    <3>1. TableOwn'
      BY <1>0, <2>9, <3>0 DEF OwnInv, TypeOK, TableOwn, peerVars
    <3> QED BY <1>0, <3>1 DEF OwnInv, SendOwn, sendVars
  <2>4. StopOrder'
    BY <1>0, <1>3 DEF OwnInv, TypeOK, Open, ReadersOwn, FreshOwn, ClientOwn, TableOwn, SendOwn, OpenedByPeer,
       StopOrder, Metrics!ServeAccept, peerVars, acceptVars, readVars, sendVars, stopVars, metricsVars
  <2> QED BY <1>0, <2>1, <2>2, <2>3, <2>4 DEF OwnInv
<1>4. ASSUME Metrics!ServeRecv
      PROVE  OwnInv'
  <2>1. ReadersOwn' /\ OpenedByPeer'
    BY <1>0, <1>4 DEF OwnInv, TypeOK, Open, ReadersOwn, FreshOwn, ClientOwn, TableOwn, SendOwn, OpenedByPeer,
       StopOrder, Metrics!ServeRecv, peerVars, acceptVars, readVars, sendVars, stopVars, metricsVars
  <2>2. FreshOwn' /\ ClientOwn'
    BY <1>0, <1>4 DEF OwnInv, TypeOK, Open, ReadersOwn, FreshOwn, ClientOwn, TableOwn, SendOwn, OpenedByPeer,
       StopOrder, Metrics!ServeRecv, peerVars, acceptVars, readVars, sendVars, stopVars, metricsVars
  <2>3. TableOwn' /\ SendOwn'
    BY <1>0, <1>4 DEF OwnInv, TypeOK, Open, ReadersOwn, FreshOwn, ClientOwn, TableOwn, SendOwn, OpenedByPeer,
       StopOrder, Metrics!ServeRecv, peerVars, acceptVars, readVars, sendVars, stopVars, metricsVars
  <2>4. StopOrder'
    BY <1>0, <1>4 DEF OwnInv, TypeOK, Open, ReadersOwn, FreshOwn, ClientOwn, TableOwn, SendOwn, OpenedByPeer,
       StopOrder, Metrics!ServeRecv, peerVars, acceptVars, readVars, sendVars, stopVars, metricsVars
  <2> QED BY <1>0, <2>1, <2>2, <2>3, <2>4 DEF OwnInv
<1>5. ASSUME NEW m \in OtherSockets, Metrics!ClientConnects(m)
      PROVE  OwnInv'
  <2>1. ReadersOwn' /\ OpenedByPeer'
    BY <1>0, <1>5 DEF OwnInv, TypeOK, Open, ReadersOwn, FreshOwn, ClientOwn, TableOwn, SendOwn, OpenedByPeer,
       StopOrder, Metrics!ClientConnects, peerVars, acceptVars, readVars, sendVars, stopVars, metricsVars
  <2>2. FreshOwn' /\ ClientOwn'
    BY <1>0, <1>5 DEF OwnInv, TypeOK, Open, ReadersOwn, FreshOwn, ClientOwn, TableOwn, SendOwn, OpenedByPeer,
       StopOrder, Metrics!ClientConnects, peerVars, acceptVars, readVars, sendVars, stopVars, metricsVars
  <2>3. TableOwn' /\ SendOwn'
    BY <1>0, <1>5 DEF OwnInv, TypeOK, Open, ReadersOwn, FreshOwn, ClientOwn, TableOwn, SendOwn, OpenedByPeer,
       StopOrder, Metrics!ClientConnects, peerVars, acceptVars, readVars, sendVars, stopVars, metricsVars
  <2>4. StopOrder'
    BY <1>0, <1>5 DEF OwnInv, TypeOK, Open, ReadersOwn, FreshOwn, ClientOwn, TableOwn, SendOwn, OpenedByPeer,
       StopOrder, Metrics!ClientConnects, peerVars, acceptVars, readVars, sendVars, stopVars, metricsVars
  <2> QED BY <1>0, <2>1, <2>2, <2>3, <2>4 DEF OwnInv
<1> QED BY <1>1, <1>2, <1>3, <1>4, <1>5 DEF MetricsStep, Metrics!ServerStep

LEMMA OwnMain == OwnInv /\ MainStep => OwnInv'
  BY TypeMain DEF OwnInv, Open, ReadersOwn, FreshOwn, ClientOwn, TableOwn, SendOwn,
     OpenedByPeer, StopOrder, MainStep, MainReturns, ProcessEnds, Metrics!ServerStop,
     tcpVars, peerVars, acceptVars, readVars, sendVars, stopVars, metricsVars

LEMMA OwnStutters == OwnInv /\ UNCHANGED vars => OwnInv'
  BY TypeStutters DEF OwnInv, Open, ReadersOwn, FreshOwn, ClientOwn, TableOwn, SendOwn,
     OpenedByPeer, StopOrder, vars, tcpVars, peerVars, acceptVars, readVars, sendVars,
     stopVars, metricsVars

LEMMA OwnNext == OwnInv /\ [Next]_vars => OwnInv'
  BY OwnTransport, OwnMetrics, OwnMain, OwnStutters, NextSteps

LEMMA OwnInvariant == Spec => []OwnInv
  BY OwnInit, OwnNext, PTL DEF Spec

\* While a worker writes to a descriptor, it stands for a connection of the
\* peer the message is for (TcpTransport::send against receiveLoop and stop).
THEOREM SendsAlwaysReachPeer == Spec => []SendsReachPeer
<1>1. OwnInv => SendsReachPeer
  BY DEF OwnInv, TableOwn, SendOwn, SendsReachPeer
<1> QED BY <1>1, OwnInvariant, PTL

\* Until stop has closed the connections, every receive thread reads from
\* its own, whatever is accepted and closed besides.
THEOREM ReadersKeepTheirs == Spec => []ReadsOwnConnection
<1>1. OwnInv => ReadsOwnConnection
  BY DEF OwnInv, TypeOK, Stages, Open, ReadersOwn, StopOrder, ReadsOwnConnection
<1> QED BY <1>1, OwnInvariant, PTL
=============================================================================
