--------------------------- MODULE SipCallsProof ---------------------------
(***************************************************************************)
(* SipCalls implements ProxyRouter: what is proved there for any traffic    *)
(* holds of the proxy between the clients of this repository, whatever the  *)
(* network between them loses, repeats or reorders. And where every packet  *)
(* and message of a call comes from and goes to, on any such network.       *)
(***************************************************************************)
EXTENDS SipCalls, ProxyRouterProof

(***************************************************************************)
(* Types of the clients and the network.                                    *)
(***************************************************************************)

\* Every packet the clients make is peer traffic.
LEMMA PacketsType ==
  ASSUME NEW u \in Users, NEW c \in CallIds
  PROVE  /\ Registration(u) \in PeerTraffic
         /\ \A t \in {"INVITE", "ACK", "BYE"} : Request(t, c, u) \in PeerTraffic
         /\ \A t \in ResponseTypes : Response(t, c, u) \in PeerTraffic
BY DEF PeerTraffic

LEMMA CallsTypeInit == CallsInit => CallsTypeOK
BY BoundsAssumption DEF CallsInit, CallsTypeOK, ClientState

\* Entering and leaving a call keep the types of the client's state.
LEMMA EnterType ==
  ASSUME CallsTypeOK, NEW c \in CallIds, NEW u \in Users,
         NEW s \in ClientState, Enter(c, u, s)
  PROVE  /\ state' \in [Users -> ClientState]
         /\ active' \in [Users -> CallIds \cup {NoCall}]
         /\ joined' \subseteq CallIds \X Users
BY DEF CallsTypeOK, Enter, SetState

LEMMA TerminateType ==
  ASSUME CallsTypeOK, NEW u \in Users, Terminate(u)
  PROVE  /\ state' \in [Users -> ClientState]
         /\ active' \in [Users -> CallIds \cup {NoCall}]
BY DEF CallsTypeOK, Terminate, SetState, ClientState

LEMMA SendRegisterType ==
  ASSUME CallsTypeOK, NEW u \in Users, SendRegister(u)
  PROVE  /\ registers' \in [Users -> Nat]
         /\ \A v \in Users : registers'[v] <= MaxRegisters[v]
         /\ wire' \subseteq PeerTraffic
<1>1. Registration(u) \in PeerTraffic
  BY PartiesAssumption, PacketsType
<1>2. registers' = [registers EXCEPT ![u] = @ + 1]
  BY DEF SendRegister
<1>3. ASSUME NEW v \in Users PROVE registers'[v] <= MaxRegisters[v]
  <2>1. registers[v] \in Nat /\ MaxRegisters[v] \in Nat /\ registers[v] <= MaxRegisters[v]
    BY BoundsAssumption DEF CallsTypeOK
  <2>2. registers'[v] = IF v = u THEN registers[v] + 1 ELSE registers[v]
    BY <1>2 DEF CallsTypeOK
  <2>3. registers[u] < MaxRegisters[u]
    BY DEF SendRegister
  <2> QED BY <2>1, <2>2, <2>3
<1> QED BY <1>1, <1>2, <1>3 DEF SendRegister, SendsToProxy, CallsTypeOK

LEMMA UserStepType ==
  ASSUME CallsTypeOK, UserStep
  PROVE  CallsTypeOK'
<1>1. ASSUME NEW u \in Users, Register(u)
      PROVE  CallsTypeOK'
  <2>1. SendRegister(u)
    BY <1>1 DEF Register
  <2> QED BY <1>1, <2>1, SendRegisterType
          DEF SetState, Register, SendRegister, CallsTypeOK, ClientState
<1>2. ASSUME NEW u \in Users, RetryRegister(u)
      PROVE  CallsTypeOK'
  <2>1. SendRegister(u)
    BY <1>2 DEF RetryRegister
  <2> QED BY <1>2, <2>1, SendRegisterType DEF RetryRegister, SendRegister, CallsTypeOK
<1>3. ASSUME NEW u \in Users, GiveUpRegister(u)
      PROVE  CallsTypeOK'
  BY <1>3 DEF SetState, GiveUpRegister, netVars, CallsTypeOK, ClientState
<1>4. ASSUME NEW c \in CallIds, Dial(c)
      PROVE  CallsTypeOK'
  <2>1. Caller[c] \in Users
    BY PartiesAssumption
  <2>2. Request("INVITE", c, Caller[c]) \in PeerTraffic
    BY <2>1, PacketsType
  <2>3. Enter(c, Caller[c], "calling")
    BY <1>4 DEF Dial
  <2>4. "calling" \in ClientState
    BY DEF ClientState
  <2> QED BY <1>4, <2>1, <2>2, <2>3, <2>4, EnterType DEF Dial, SendsToProxy, CallsTypeOK
<1>5. ASSUME NEW u \in Users, Answer(u)
      PROVE  CallsTypeOK'
  <2>1. pending[u] \in CallIds
    BY <1>5 DEF SetState, Answer, CallsTypeOK
  <2>2. Response("200_INVITE", pending[u], u) \in PeerTraffic
    BY <2>1, PacketsType DEF ResponseTypes
  <2> QED BY <1>5, <2>2 DEF SetState, Answer, SendsToProxy, CallsTypeOK, ClientState
<1>6. ASSUME NEW u \in Users, Reject(u)
      PROVE  CallsTypeOK'
  <2>1. pending[u] \in CallIds
    BY <1>6 DEF Reject, CallsTypeOK
  <2>2. Response("603", pending[u], u) \in PeerTraffic
    BY <2>1, PacketsType DEF ResponseTypes
  <2>3. Terminate(u)
    BY <1>6 DEF Reject
  <2> QED BY <1>6, <2>2, <2>3, TerminateType DEF Reject, SendsToProxy, CallsTypeOK
<1>7. ASSUME NEW u \in Users, HangUp(u)
      PROVE  CallsTypeOK'
  <2>1. wire' \subseteq PeerTraffic
    <3>1. CASE active[u] = NoCall
      BY <1>7, <3>1 DEF HangUp, SendsToProxy, CallsTypeOK
    <3>2. CASE active[u] \in CallIds
      <4>1. Request("BYE", active[u], u) \in PeerTraffic
        BY <3>2, PacketsType
      <4> QED BY <1>7, <4>1 DEF HangUp, SendsToProxy, CallsTypeOK
    <3> QED BY <3>1, <3>2 DEF CallsTypeOK
  <2>2. Terminate(u)
    BY <1>7 DEF HangUp
  <2> QED BY <1>7, <2>1, <2>2, TerminateType DEF HangUp, CallsTypeOK
<1> QED BY <1>1, <1>2, <1>3, <1>4, <1>5, <1>6, <1>7 DEF UserStep

\* What a client does with a message keeps its state and sends peer traffic.
ClientTypes ==
  /\ state \in [Users -> ClientState]
  /\ active \in [Users -> CallIds \cup {NoCall}]
  /\ pending \in [Users -> CallIds \cup {NoCall}]
  /\ joined \subseteq CallIds \X Users
  /\ wire \subseteq PeerTraffic

LEMMA ReceiveInviteType ==
  ASSUME CallsTypeOK, NEW m, m.call \in CallIds, NEW u \in Users, NEW busy,
         ReceiveInvite(m, u, busy)
  PROVE  ClientTypes'
<1>1. \A t \in {"486", "100", "180"} : Response(t, m.call, u) \in PeerTraffic
  BY PacketsType DEF ResponseTypes
<1>2. CASE busy
  BY <1>1, <1>2 DEF ReceiveInvite, SendsToProxy, ClientTypes, CallsTypeOK
<1>3. CASE ~busy
  <2>1. Enter(m.call, u, "ringing") /\ "ringing" \in ClientState
    BY <1>3 DEF ReceiveInvite, ClientState
  <2> QED BY <1>1, <1>3, <2>1, EnterType
          DEF ReceiveInvite, SendsToProxy, ClientTypes, CallsTypeOK
<1> QED BY <1>2, <1>3

LEMMA ReceiveByeType ==
  ASSUME CallsTypeOK, NEW m, m.call \in CallIds, NEW u \in Users, ReceiveBye(m, u)
  PROVE  ClientTypes'
<1>1. Response("200_BYE", m.call, u) \in PeerTraffic
  BY PacketsType DEF ResponseTypes
<1>2. CASE Active(m.call, u)
  BY <1>1, <1>2, TerminateType DEF ReceiveBye, SendsToProxy, ClientTypes, CallsTypeOK
<1>3. CASE ~Active(m.call, u)
  BY <1>3 DEF ReceiveBye, ClientTypes, CallsTypeOK
<1> QED BY <1>2, <1>3

LEMMA ReceiveResponseType ==
  ASSUME CallsTypeOK, NEW m, m.call \in CallIds, NEW u \in Users,
         ReceiveProgress(m, u) \/ ReceiveEnd(m, u)
  PROVE  ClientTypes'
<1>1. Request("ACK", m.call, u) \in PeerTraffic
  BY PacketsType
<1>2. CASE ReceiveProgress(m, u)
  BY <1>1, <1>2 DEF SetState, ReceiveProgress, SendsToProxy, ClientTypes, CallsTypeOK, ClientState
<1>3. CASE ReceiveEnd(m, u)
  BY <1>1, <1>3, TerminateType DEF ReceiveEnd, SendsToProxy, ClientTypes, CallsTypeOK
<1> QED BY <1>2, <1>3

LEMMA ClientTakesType ==
  ASSUME TypeOK, CallsTypeOK, ClientTakes
  PROVE  CallsTypeOK'
<1>1. PICK m \in outbox, u \in Users : RegisterAnswered(m, u) \/ ClientReceive(m, u)
  BY DEF ClientTakes
<1>2. m.call \in CallIds
  BY <1>1 DEF TypeOK, Message
<1>3. CASE RegisterAnswered(m, u)
  BY <1>1, <1>3 DEF SetState, RegisterAnswered, CallsTypeOK, netVars, ClientState
<1>4. CASE ClientReceive(m, u)
  <2> SUFFICES ClientTypes'
    BY <1>4 DEF ClientReceive, ClientTypes, CallsTypeOK
  <2>1. ASSUME NEW busy \in BOOLEAN, ReceiveInvite(m, u, busy)
        PROVE  ClientTypes'
    BY <1>2, <2>1, ReceiveInviteType
  <2>2. CASE ReceiveBye(m, u)
    BY <1>2, <2>2, ReceiveByeType
  <2>3. CASE ReceiveProgress(m, u) \/ ReceiveEnd(m, u)
    BY <1>2, <2>3, ReceiveResponseType
  <2>4. CASE ReceiveNothing(m, u)
    <3>1. UNCHANGED <<state, active, pending, joined, wire>>
      BY <2>4 DEF ReceiveNothing
    <3> QED BY <3>1 DEF ClientTypes, CallsTypeOK
  <2> QED BY <1>4, <2>1, <2>2, <2>3, <2>4 DEF ClientReceive
<1> QED BY <1>1, <1>3, <1>4

LEMMA CallsTypeNext == TypeOK /\ CallsTypeOK /\ [CallsNext]_allVars => CallsTypeOK'
<1> SUFFICES ASSUME TypeOK, CallsTypeOK, [CallsNext]_allVars
             PROVE  CallsTypeOK'
  OBVIOUS
<1>1. CASE ProxyTakes
  BY <1>1 DEF ProxyTakes, ReceiveFromWire, CallsTypeOK, peerVars
<1>2. ASSUME NEW w \in Workers, WorkerStep(w)
      PROVE  CallsTypeOK'
  BY <1>2 DEF WorkerStep, CallsTypeOK, peerVars, netVars
<1>3. ASSUME NEW w \in Workers, NEW p \in wire, ReceiveDuplicate(w, p)
      PROVE  CallsTypeOK'
  BY <1>3, BoundsAssumption DEF ReceiveDuplicate, CallsTypeOK, peerVars
<1>4. ASSUME NEW p \in wire, LosePacket(p)
      PROVE  CallsTypeOK'
  BY <1>4 DEF LosePacket, CallsTypeOK, peerVars
<1>5. ASSUME NEW m \in outbox, LoseMessage(m)
      PROVE  CallsTypeOK'
  BY <1>5 DEF LoseMessage, CallsTypeOK, peerVars, netVars
<1>6. CASE UNCHANGED allVars
  BY <1>6 DEF allVars, CallsTypeOK, peerVars, netVars
<1> QED
  BY <1>1, <1>2, <1>3, <1>4, <1>5, <1>6, UserStepType, ClientTakesType DEF CallsNext

(***************************************************************************)
(* The router's part of every step.                                         *)
(***************************************************************************)

\* A step of the system is a step of the router, or leaves the router alone.
LEMMA CallsStepIsRouterStep ==
  TypeOK /\ CallsTypeOK /\ [CallsNext]_allVars => [Next]_vars
<1> SUFFICES ASSUME TypeOK, CallsTypeOK, [CallsNext]_allVars
             PROVE  [Next]_vars
  OBVIOUS
<1>1. CASE UserStep
  BY <1>1 DEF UserStep, Register, RetryRegister, GiveUpRegister, SendRegister,
     Dial, Answer, Reject, HangUp, ProxyUnchanged, vars
<1>2. ASSUME NEW w \in Workers, NEW p \in wire, Receive(w, p)
      PROVE  Next
  <2>1. p \in Traffic
    BY PeerTrafficAssumption DEF CallsTypeOK
  <2> QED BY <1>2, <2>1 DEF Next
<1>3. ASSUME NEW m \in outbox, Deliver(m)
      PROVE  Next
  BY <1>3 DEF Next
<1>4. ASSUME NEW w \in Workers, WorkerStep(w)
      PROVE  Next
  BY <1>4 DEF WorkerStep, Next
<1>5. ASSUME NEW p \in wire, LosePacket(p)
      PROVE  UNCHANGED vars
  BY <1>5 DEF LosePacket, ProxyUnchanged, vars
<1>6. CASE UNCHANGED allVars
  BY <1>6 DEF allVars
<1> QED
  BY <1>1, <1>2, <1>3, <1>4, <1>5, <1>6 DEF CallsNext, ProxyTakes, ReceiveFromWire,
     ClientTakes, RegisterAnswered, ClientReceive, ReceiveDuplicate, LoseMessage

\* The proxy between its clients behaves as ProxyRouter: every property proved
\* of the router for any traffic is a property of the whole system.
THEOREM CallsImplementRouter == CallsSpec => Spec
<1>1. CallsInit => Init /\ TypeOK /\ CallsTypeOK
  BY CallsTypeInit, TypeInit DEF CallsInit
<1>2. TypeOK /\ CallsTypeOK /\ [CallsNext]_allVars => TypeOK' /\ CallsTypeOK' /\ [Next]_vars
  BY CallsStepIsRouterStep, CallsTypeNext, TypeNext
<1> QED BY <1>1, <1>2, PTL DEF CallsSpec, Spec

\* The types of the clients and the network hold in every state.
THEOREM CallsTypeCorrect == CallsSpec => []CallsTypeOK
<1>1. CallsSpec => []TypeOK
  BY CallsImplementRouter, TypeCorrect, PTL
<1> QED BY <1>1, CallsTypeInit, CallsTypeNext, PTL DEF CallsSpec

USE PartiesAssumption, HomeAssumption, NoCallAssumption, PeerTrafficAssumption,
    TrafficAssumption, TransportAssumption, NoAddrAssumption, NoContextAssumption,
    NoPacketAssumption

(***************************************************************************)
(* Which step of a worker goes with which packet.                           *)
(***************************************************************************)

\* A handler's steps are taken for its own kind of packet only.
StepInv ==
  \A w \in Workers :
    LET t == pkt[w].type IN
    /\ pc[w] \in {"regStore", "regCount"} => t = "REGISTER"
    /\ pc[w] \in InviteSteps => t = "INVITE"
    /\ pc[w] \in {"ctxRead", "find", "event"} => t \in ResponseTypes \cup {"ACK", "BYE"}
    /\ pc[w] \in {"ackFind", "ackCheck"} => t = "ACK"
    /\ pc[w] = "answer" => t = "200_INVITE"
    /\ pc[w] \in {"remove", "erase"} => t \in {"ACK", "200_BYE", "486"}
    /\ pc[w] \in {"decCheck", "dec"} => t \in {"603", "200_BYE", "486"}
    /\ pc[w] = "send" /\ reply[w] = "none" => t \notin {"REGISTER", "OPTIONS"}

\* A worker's step leaves the other workers alone, and its own packet as long
\* as it is busy.
LEMMA ProceedLocal ==
  ASSUME TypeOK, NEW w \in Workers, Proceed(w)
  PROVE  /\ Busy(w)
         /\ \A v \in Workers : v # w =>
              UNCHANGED <<pc[v], pkt[v], snap[v], ptr[v], reply[v]>>
         /\ \/ Busy(w)' /\ pkt'[w] = pkt[w]
            \/ ~Busy(w)' /\ pkt'[w] = NoPacket /\ snap'[w] = NoContext
         /\ msgsIn' = msgsIn
<1>1. pc[w] \in Steps \ {"idle"}
  BY DEF TypeOK, Proceed, RegStore, RegCount, InvLookup, InvCreate, InvStore, InvEvent,
     InvCount, CtxRead, FindCall, SessionEvent, AckFind, AckCheck, StoreAnswer,
     RemoveCall, EraseContext, DecCheck, Dec, Send
<1>2. CASE Finish(w)
  BY <1>1, <1>2 DEF Proceed, RegStore, RegCount, InvLookup, InvCreate, CreateSession,
     InvStore, InvEvent, InvCount, CtxRead, FindCall, SessionEvent, AckFind, AckCheck,
     StoreAnswer, RemoveCall, EraseContext, DecCheck, Dec, Send, Respond, Finish, Goto,
     TypeOK, Busy, ioVars
<1>3. CASE ~Finish(w)
  <2>1. pkt' = pkt /\ msgsIn' = msgsIn
    BY <1>3 DEF Proceed, RegStore, RegCount, InvLookup, InvCreate, CreateSession,
       InvStore, InvEvent, InvCount, CtxRead, FindCall, SessionEvent, AckFind, AckCheck,
       StoreAnswer, RemoveCall, EraseContext, DecCheck, Dec, Send, ioVars
  <2>2. \E l \in Steps \ {"idle"} : Goto(w, l)
    BY <1>3 DEF Proceed, RegStore, RegCount, InvLookup, InvCreate, CreateSession,
       InvStore, InvEvent, InvCount, CtxRead, FindCall, SessionEvent, AckFind, AckCheck,
       StoreAnswer, RemoveCall, EraseContext, DecCheck, Dec, Send, Respond, Steps,
       AfterEvent, AfterDec
  <2>3. \A v \in Workers : v # w => UNCHANGED <<snap[v], ptr[v], reply[v]>>
    BY <1>3 DEF Proceed, RegStore, RegCount, InvLookup, InvCreate, CreateSession,
       InvStore, InvEvent, InvCount, CtxRead, FindCall, SessionEvent, AckFind, AckCheck,
       StoreAnswer, RemoveCall, EraseContext, DecCheck, Dec, Send, Respond, TypeOK
  <2> QED BY <1>1, <2>1, <2>2, <2>3 DEF Goto, Busy, TypeOK
<1> QED BY <1>2, <1>3

\* A worker that takes a packet was idle, and so are the others or they stay.
LEMMA ReceiveLocal ==
  ASSUME TypeOK, NEW w \in Workers, NEW p, Receive(w, p)
  PROVE  /\ ~Busy(w)
         /\ \A v \in Workers : v # w =>
              UNCHANGED <<pc[v], pkt[v], snap[v], ptr[v], reply[v]>>
         /\ pc'[w] = FirstStep(p) /\ reply'[w] = FirstReply(p)
         /\ pkt'[w] = IF FirstStep(p) = "idle" THEN NoPacket ELSE p
         /\ snap'[w] = snap[w] /\ ptr'[w] = ptr[w]
         /\ UNCHANGED <<proxyVars, outbox, invited>>
BY DEF Receive, Goto, TypeOK, Busy

LEMMA StepNext == TypeOK /\ StepInv /\ [Next]_vars => StepInv'
<1> SUFFICES ASSUME TypeOK, StepInv, [Next]_vars
             PROVE  StepInv'
  OBVIOUS
<1>1. ASSUME NEW w \in Workers, Proceed(w)
      PROVE  StepInv'
  <2>1. \A v \in Workers : v # w => UNCHANGED <<pc[v], pkt[v], reply[v]>>
    BY <1>1, ProceedLocal
  <2>2. pc'[w] = "idle" \/ pkt'[w] = pkt[w]
    BY <1>1, ProceedLocal DEF Busy
  <2> DEFINE Fits(v) ==
    LET t == pkt[v].type IN
    /\ pc[v] \in {"regStore", "regCount"} => t = "REGISTER"
    /\ pc[v] \in InviteSteps => t = "INVITE"
    /\ pc[v] \in {"ctxRead", "find", "event"} => t \in ResponseTypes \cup {"ACK", "BYE"}
    /\ pc[v] \in {"ackFind", "ackCheck"} => t = "ACK"
    /\ pc[v] = "answer" => t = "200_INVITE"
    /\ pc[v] \in {"remove", "erase"} => t \in {"ACK", "200_BYE", "486"}
    /\ pc[v] \in {"decCheck", "dec"} => t \in {"603", "200_BYE", "486"}
    /\ pc[v] = "send" /\ reply[v] = "none" => t \notin {"REGISTER", "OPTIONS"}
  <2>3. Fits(w)
    BY DEF StepInv
  <2>4. Fits(w)'
    <3>1. CASE pc'[w] = "idle"
      BY <3>1 DEF InviteSteps
    <3>2. CASE pkt'[w] = pkt[w] /\ pc'[w] # "idle"
      BY <1>1, <2>3, <3>2 DEF Proceed, RegStore, RegCount, InvLookup, InvCreate,
         CreateSession, InvStore, InvEvent, InvCount, CtxRead, FindCall, SessionEvent,
         AckFind, AckCheck, StoreAnswer, RemoveCall, EraseContext, DecCheck, Dec, Send,
         Respond, Finish, Goto, TypeOK, InviteSteps, AfterEvent, AfterDec, ResponseTypes
    <3> QED BY <2>2, <3>1, <3>2
  <2> QED BY <2>1, <2>4 DEF StepInv
<1>2. ASSUME NEW w \in Workers, NEW p \in Traffic, Receive(w, p)
      PROVE  StepInv'
  BY <1>2, ReceiveLocal DEF FirstStep, FirstReply, InviteSteps, StepInv, Packet,
     ResponseTypes, RequestTypes
<1>3. CASE UNCHANGED vars \/ \E m \in outbox : Deliver(m)
  BY <1>3 DEF vars, Deliver, workerVars, StepInv
<1> QED BY <1>1, <1>2, <1>3 DEF Next

(***************************************************************************)
(* Where packets, contexts and messages come from.                          *)
(***************************************************************************)

\* The packets on their way to the proxy and in the hands of its workers.
Abroad == wire \cup {pkt[w] : w \in {v \in Workers : Busy(v)}}

\* The responses to an INVITE.
AnswerTypes == {"100", "180", "200_INVITE", "486", "603"}

\* A packet as one of the call's clients makes it.
Genuine(p) ==
  /\ p.type = "REGISTER" => p.addr = Home[p.from]
  /\ p.type = "INVITE" => p = Request("INVITE", p.call, Caller[p.call])
  /\ p.type \in {"ACK", "BYE"} => p.from \in Party(p.call) /\ p.addr = Home[p.from]
  /\ p.type \in AnswerTypes => p = Response(p.type, p.call, Callee[p.call])
  /\ p.type = "200_BYE" =>
       \E u \in Party(p.call) : p = Response("200_BYE", p.call, u)

\* A context of call c has its parties' addresses, which speak one transport.
RightContext(c, s) ==
  /\ s.caller = Caller[c]
  /\ s.callerAddr = Home[Caller[c]] /\ s.calleeAddr = Home[Callee[c]]
  /\ Transport[s.callerAddr] = Transport[s.calleeAddr]

\* A message is addressed as the call wants it.
RightMessage(m) ==
  /\ m.over = Transport[m.to]
  /\ m.type = "INVITE" => m.to = Home[Callee[m.call]]
  /\ m.type \in AnswerTypes => m.to = Home[Caller[m.call]]
  /\ m.type = "BYE" => \E u \in Party(m.call) : m.to = Home[u]

TableInv == \A u \in Users : table[u] \in {NoAddr, Home[u]}
ContextInv ==
  /\ \A c \in CallIds : ctx[c] # NoContext => RightContext(c, ctx[c])
  /\ \A w \in Workers : snap[w] # NoContext =>
       Busy(w) /\ RightContext(pkt[w].call, snap[w])
PacketInv == \A p \in Abroad : Genuine(p)
MessageInv == \A m \in outbox : RightMessage(m)

\* Clients are active in, and ring for, calls they joined, and join their own.
PeerInv ==
  /\ \A c \in CallIds, u \in Users : <<c, u>> \in joined => u \in Party(c)
  /\ \A c \in CallIds, u \in Users : Active(c, u) => <<c, u>> \in joined
  /\ \A u \in Users : pending[u] # NoCall =>
       Callee[pending[u]] = u /\ <<pending[u], u>> \in joined

OriginInv == TableInv /\ ContextInv /\ PacketInv /\ MessageInv /\ PeerInv

Types == TypeOK /\ CallsTypeOK /\ StepInv

\* The steps of the system by who takes them.
PeerStep == UserStep \/ ClientTakes
LossStep == (\E p \in wire : LosePacket(p)) \/ (\E m \in outbox : LoseMessage(m))
TakeStep(w, p) == ReceiveFromWire(w, p) \/ ReceiveDuplicate(w, p)

LEMMA StepKinds ==
  ASSUME [CallsNext]_allVars
  PROVE  \/ PeerStep
         \/ LossStep
         \/ \E w \in Workers : \E p \in wire : TakeStep(w, p)
         \/ \E w \in Workers : WorkerStep(w)
         \/ UNCHANGED allVars
BY DEF CallsNext, ProxyTakes, PeerStep, LossStep, TakeStep

\* What clients, users and losses leave alone.
LEMMA RouterKept ==
  ASSUME PeerStep \/ LossStep \/ UNCHANGED allVars
  PROVE  /\ UNCHANGED <<table, sessions, registry, ctx, activeCalls>>
         /\ UNCHANGED <<pc, pkt, snap, ptr, reply>>
         /\ outbox' \subseteq outbox
<1> USE DEF proxyVars, workerVars
<1>1. CASE UserStep
  BY <1>1 DEF UserStep, Register, RetryRegister, GiveUpRegister, SendRegister,
     Dial, Answer, Reject, HangUp, ProxyUnchanged, ioVars
<1>2. CASE ClientTakes
  BY <1>2 DEF ClientTakes, RegisterAnswered, ClientReceive, Deliver
<1>3. CASE LossStep
  BY <1>3 DEF LossStep, LosePacket, LoseMessage, Deliver, ProxyUnchanged, ioVars
<1>4. CASE UNCHANGED allVars
  BY <1>4 DEF allVars, vars, ioVars
<1> QED BY <1>1, <1>2, <1>3, <1>4 DEF PeerStep

\* What losses and the workers' steps leave alone.
LEMMA PeersKept ==
  ASSUME TypeOK,
         \/ LossStep \/ UNCHANGED allVars
         \/ \E w \in Workers : WorkerStep(w)
         \/ \E w \in Workers : \E p \in wire : TakeStep(w, p)
  PROVE  UNCHANGED <<state, active, pending, joined>> /\ wire' \subseteq wire
BY DEF LossStep, LosePacket, LoseMessage, WorkerStep, TakeStep, ReceiveFromWire,
   ReceiveDuplicate, allVars, peerVars, netVars

\* Only clients put packets on the network; workers only let go of theirs.
LEMMA AbroadStep ==
  ASSUME Types, [CallsNext]_allVars
  PROVE  /\ Abroad' \subseteq Abroad \cup (wire' \ wire)
         /\ ~PeerStep => Abroad' \subseteq Abroad
<1>1. CASE PeerStep \/ LossStep \/ UNCHANGED allVars
  <2>1. pc' = pc /\ pkt' = pkt
    BY <1>1, RouterKept
  <2>2. ~PeerStep => wire' \subseteq wire
    BY <1>1, PeersKept DEF Types
  <2> QED BY <2>1, <2>2 DEF Abroad, Busy
<1>2. ASSUME NEW w \in Workers, WorkerStep(w)
      PROVE  Abroad' \subseteq Abroad /\ wire' = wire
  BY <1>2, ProceedLocal DEF Types, WorkerStep, netVars, Abroad, Busy
<1>3. ASSUME NEW w \in Workers, NEW p \in wire, TakeStep(w, p)
      PROVE  Abroad' \subseteq Abroad /\ wire' \subseteq wire
  <2>1. Receive(w, p) /\ wire' \subseteq wire
    BY <1>3 DEF TakeStep, ReceiveFromWire, ReceiveDuplicate
  <2>2. \A v \in Workers : Busy(v)' => pkt'[v] \in Abroad
    BY <2>1, ReceiveLocal DEF Types, Abroad, Busy
  <2> QED BY <2>1, <2>2 DEF Abroad
<1> QED BY <1>1, <1>2, <1>3, StepKinds

\* Abroad or in the outbox, everything is of one of the calls.
LEMMA AbroadType ==
  ASSUME Types
  PROVE  /\ Abroad \subseteq Packet
         /\ \A w \in Workers : Busy(w) => pkt[w] \in Abroad /\ pkt[w] \in Packet
         /\ \A m \in outbox : m \in Message
BY DEF Types, TypeOK, CallsTypeOK, Abroad

(***************************************************************************)
(* What clients send, and when.                                             *)
(***************************************************************************)

\* u's client handles message m.
Handles(u, m) == /\ m \in outbox /\ u \in Users /\ m.to = Home[u]
                 /\ Deliver(m)

\* What clients make is genuine.
LEMMA GenuineRegistration == \A u : Genuine(Registration(u))
BY DEF Registration, Genuine, AnswerTypes

LEMMA GenuineRequest ==
  ASSUME NEW c, NEW u \in Party(c)
  PROVE  /\ u = Caller[c] => Genuine(Request("INVITE", c, u))
         /\ Genuine(Request("ACK", c, u))
         /\ Genuine(Request("BYE", c, u))
BY DEF Request, Genuine, AnswerTypes

LEMMA GenuineAnswer ==
  ASSUME NEW c, NEW t \in AnswerTypes
  PROVE  Genuine(Response(t, c, Callee[c]))
<1>1. /\ Response(t, c, Callee[c]).type = t
      /\ Response(t, c, Callee[c]).call = c
  BY DEF Response
<1> QED BY <1>1 DEF Genuine, AnswerTypes

LEMMA GenuineGoodbye ==
  ASSUME NEW c, NEW u \in Party(c)
  PROVE  Genuine(Response("200_BYE", c, u))
<1>1. /\ Response("200_BYE", c, u).type = "200_BYE"
      /\ Response("200_BYE", c, u).call = c
  BY DEF Response
<1> QED BY <1>1 DEF Genuine, AnswerTypes

\* The occasion on which a packet is sent.
Occasion(p) ==
  /\ Genuine(p)
  /\ p.type = "INVITE" => Dial(p.call)
  /\ p.type = "BYE" => HangUp(p.from) /\ active[p.from] = p.call
  /\ p.type \in {"200_INVITE", "603"} =>
       LET u == Callee[p.call] IN
       /\ pending[u] = p.call
       /\ p.type = "200_INVITE" => Answer(u)
       /\ p.type = "603" => Reject(u)
  /\ p.type = "486" =>
       \E m \in outbox : /\ Handles(Callee[p.call], m)
                         /\ m.type = "INVITE" /\ m.call = p.call
                         /\ ReceiveInvite(m, Callee[p.call], TRUE)
  /\ p.type = "200_BYE" =>
       \E m \in outbox, u \in Party(p.call) :
         /\ Handles(u, m) /\ m.type = "BYE" /\ m.call = p.call
         /\ p = Response("200_BYE", p.call, u)
         /\ ReceiveBye(m, u) /\ Active(p.call, u)

LEMMA UserSends ==
  ASSUME Types, PeerInv, UserStep, NEW p \in wire' \ wire
  PROVE  Occasion(p)
<1>1. ASSUME NEW u \in Users, Register(u) \/ RetryRegister(u) \/ GiveUpRegister(u)
      PROVE  Occasion(p)
  <2>1. p = Registration(u)
    BY <1>1 DEF Register, RetryRegister, GiveUpRegister, SendRegister, SendsToProxy,
                netVars
  <2>2. p.type = "REGISTER"
    BY <2>1 DEF Registration
  <2> QED BY <2>1, <2>2, GenuineRegistration DEF Occasion
<1>2. ASSUME NEW c \in CallIds, Dial(c)
      PROVE  Occasion(p)
  <2>1. p = Request("INVITE", c, Caller[c])
    BY <1>2 DEF Dial, SendsToProxy
  <2>2. p.type = "INVITE" /\ p.call = c
    BY <2>1 DEF Request
  <2>3. Genuine(p)
    BY <2>1, GenuineRequest DEF Party
  <2> QED BY <1>2, <2>2, <2>3 DEF Occasion
<1>3. ASSUME NEW u \in Users, Answer(u)
      PROVE  Occasion(p)
  <2>1. /\ pending[u] # NoCall /\ Callee[pending[u]] = u
        /\ p = Response("200_INVITE", pending[u], u)
    BY <1>3 DEF Answer, SendsToProxy, PeerInv
  <2>2. p.type = "200_INVITE" /\ p.call = pending[u]
    BY <2>1 DEF Response
  <2>3. Genuine(p)
    BY <2>1, GenuineAnswer DEF AnswerTypes
  <2> QED BY <1>3, <2>1, <2>2, <2>3 DEF Occasion
<1>4. ASSUME NEW u \in Users, Reject(u)
      PROVE  Occasion(p)
  <2>1. /\ pending[u] # NoCall /\ Callee[pending[u]] = u
        /\ p = Response("603", pending[u], u)
    BY <1>4 DEF Reject, SendsToProxy, PeerInv
  <2>2. p.type = "603" /\ p.call = pending[u]
    BY <2>1 DEF Response
  <2>3. Genuine(p)
    BY <2>1, GenuineAnswer DEF AnswerTypes
  <2> QED BY <1>4, <2>1, <2>2, <2>3 DEF Occasion
<1>5. ASSUME NEW u \in Users, HangUp(u)
      PROVE  Occasion(p)
  <2>1. active[u] \in CallIds /\ p = Request("BYE", active[u], u)
    BY <1>5 DEF HangUp, SendsToProxy, Types, CallsTypeOK
  <2>2. p.type = "BYE" /\ p.call = active[u] /\ p.from = u
    BY <2>1 DEF Request
  <2>3. u \in Party(active[u])
    BY <2>1 DEF PeerInv, Active
  <2>4. Genuine(p)
    BY <2>1, <2>3, GenuineRequest
  <2> QED BY <1>5, <2>2, <2>4 DEF Occasion
<1> QED BY <1>1, <1>2, <1>3, <1>4, <1>5 DEF UserStep

\* What a message makes a client do.
LEMMA ClientHandles ==
  ASSUME CallsTypeOK, NEW m \in outbox, NEW u \in Users,
         RegisterAnswered(m, u) \/ ClientReceive(m, u)
  PROVE  /\ Handles(u, m)
         /\ \/ \E busy \in BOOLEAN :
                  (IsBusy(u) => busy) /\ ReceiveInvite(m, u, busy)
            \/ ReceiveBye(m, u)
            \/ ReceiveProgress(m, u)
            \/ ReceiveEnd(m, u)
            \/ ReceiveNothing(m, u)
            \/ /\ UNCHANGED <<active, pending, joined, wire>>
               /\ \A v \in Users : state'[v] = "registered" \/ state'[v] = state[v]
<1>1. Handles(u, m)
  BY DEF RegisterAnswered, ClientReceive, Handles
<1>2. CASE RegisterAnswered(m, u)
  BY <1>1, <1>2 DEF RegisterAnswered, netVars, SetState, CallsTypeOK
<1>3. ASSUME NEW busy \in BOOLEAN, busy = IsBusy(u) \/ (busy /\ u \in Distracted)
      PROVE  IsBusy(u) => busy
  BY <1>3
<1>4. CASE ClientReceive(m, u)
  BY <1>1, <1>3, <1>4, Zenon DEF ClientReceive
<1> QED BY <1>2, <1>4

LEMMA ClientSends ==
  ASSUME Types, MessageInv, PeerInv, ClientTakes, NEW p \in wire' \ wire
  PROVE  Occasion(p)
<1>1. PICK m \in outbox, u \in Users : RegisterAnswered(m, u) \/ ClientReceive(m, u)
  BY DEF ClientTakes
<1>2. Handles(u, m)
  BY <1>1, ClientHandles DEF Types
<1>3. m.call \in CallIds /\ RightMessage(m)
  BY AbroadType DEF MessageInv, Message
<1>4. ASSUME NEW busy \in BOOLEAN, ReceiveInvite(m, u, busy)
      PROVE  Occasion(p)
  <2>1. m.type = "INVITE" /\ u = Callee[m.call]
    BY <1>2, <1>3, <1>4 DEF ReceiveInvite, RightMessage, Handles
  <2>2. CASE busy
    <3>1. p = Response("486", m.call, u) /\ ReceiveInvite(m, u, TRUE)
      BY <1>4, <2>2 DEF ReceiveInvite, SendsToProxy
    <3>2. p.type = "486" /\ p.call = m.call
      BY <3>1 DEF Response
    <3>3. Genuine(p)
      BY <2>1, <3>1, GenuineAnswer DEF AnswerTypes
    <3> QED BY <1>2, <2>1, <3>1, <3>2, <3>3 DEF Occasion
  <2>3. CASE ~busy
    <3>1. PICK t \in {"100", "180"} : p = Response(t, m.call, u)
      BY <1>4, <2>3 DEF ReceiveInvite, SendsToProxy
    <3>2. p.type = t
      BY <3>1 DEF Response
    <3>3. Genuine(p)
      BY <2>1, <3>1, GenuineAnswer DEF AnswerTypes
    <3> QED BY <3>2, <3>3 DEF Occasion
  <2> QED BY <2>2, <2>3
<1>5. CASE ReceiveBye(m, u)
  <2>1. m.type = "BYE" /\ Active(m.call, u) /\ p = Response("200_BYE", m.call, u)
    BY <1>5 DEF ReceiveBye, SendsToProxy
  <2>2. u \in Party(m.call)
    BY <1>3, <2>1 DEF PeerInv
  <2>3. p.type = "200_BYE" /\ p.call = m.call
    BY <2>1 DEF Response
  <2>4. Genuine(p)
    BY <2>1, <2>2, GenuineGoodbye
  <2>5. /\ Handles(u, m) /\ m.type = "BYE" /\ m.call = p.call
        /\ p = Response("200_BYE", p.call, u)
        /\ ReceiveBye(m, u) /\ Active(p.call, u) /\ u \in Party(p.call)
    BY <1>2, <1>5, <2>1, <2>2, <2>3
  <2> HIDE DEF Handles
  <2> QED BY <2>3, <2>4, <2>5 DEF Occasion
<1>6. CASE ReceiveProgress(m, u) \/ ReceiveEnd(m, u)
  <2>1. Active(m.call, u) /\ p = Request("ACK", m.call, u)
    BY <1>6 DEF ReceiveProgress, ReceiveEnd, SendsToProxy
  <2>2. u \in Party(m.call)
    BY <1>3, <2>1 DEF PeerInv
  <2>3. p.type = "ACK"
    BY <2>1 DEF Request
  <2> QED BY <2>1, <2>2, <2>3, GenuineRequest DEF Occasion
<1> QED BY <1>1, <1>4, <1>5, <1>6, ClientHandles DEF ReceiveNothing, Types

LEMMA SentPacket ==
  ASSUME Types, MessageInv, PeerInv, PeerStep, NEW p \in wire' \ wire
  PROVE  Occasion(p)
BY UserSends, ClientSends DEF PeerStep

(***************************************************************************)
(* How clients get into calls.                                              *)
(***************************************************************************)

\* u joins call c in this step: it dials it, or handles its INVITE.
Enters(c, u) ==
  \/ u = Caller[c] /\ Dial(c)
  \/ u = Callee[c] /\ \E m \in outbox : Handles(u, m) /\ m.type = "INVITE" /\ m.call = c

PeerMoves ==
  /\ joined \subseteq joined'
  /\ \A c \in CallIds, u \in Users :
       /\ <<c, u>> \in joined' /\ <<c, u>> \notin joined => Enters(c, u)
       /\ active'[u] = c /\ active[u] # c =>
            /\ Enters(c, u) /\ <<c, u>> \in joined'
            /\ u = Callee[c] => pending'[u] = c
  /\ \A u \in Users :
       \/ pending'[u] \in {pending[u], NoCall}
       \/ LET c == pending'[u] IN
          /\ u = Callee[c] /\ Enters(c, u) /\ <<c, u>> \in joined'
          /\ active'[u] = c
  /\ \A u \in Users : state'[u] = "incall" =>
       /\ active'[u] = active[u]
       /\ \/ state[u] = "incall"
          \/ Answer(u)
          \/ \E m \in outbox : m.type = "200_INVITE" /\ m.call = active[u]

LEMMA UserMoves == ASSUME CallsTypeOK, UserStep PROVE PeerMoves
<1>1. ASSUME NEW u \in Users,
             \/ Register(u) \/ RetryRegister(u) \/ GiveUpRegister(u)
             \/ Answer(u) \/ Reject(u) \/ HangUp(u)
      PROVE  PeerMoves
  <2>1. joined' = joined /\ \A v \in Users : active'[v] \in {active[v], NoCall}
    BY <1>1 DEF Register, RetryRegister, GiveUpRegister, SendRegister, Answer, Reject,
                HangUp, Terminate, CallsTypeOK
  <2>2. \A v \in Users : pending'[v] \in {pending[v], NoCall}
    BY <1>1 DEF Register, RetryRegister, GiveUpRegister, SendRegister, Answer, Reject,
                HangUp, CallsTypeOK
  <2>3. \A v \in Users : state'[v] = "incall" =>
          active'[v] = active[v] /\ (state[v] = "incall" \/ Answer(v))
    BY <1>1 DEF Register, RetryRegister, GiveUpRegister, SendRegister, Answer, Reject,
                HangUp, Terminate, SetState, CallsTypeOK
  <2> QED BY <2>1, <2>2, <2>3 DEF PeerMoves
<1>2. ASSUME NEW c \in CallIds, Dial(c)
      PROVE  PeerMoves
  <2>1. /\ joined' = joined \cup {<<c, Caller[c]>>} /\ pending' = pending
        /\ active' = [active EXCEPT ![Caller[c]] = c]
        /\ state' = [state EXCEPT ![Caller[c]] = "calling"]
    BY <1>2 DEF Dial, Enter, SetState
  <2>2. Enters(c, Caller[c])
    BY <1>2 DEF Enters
  <2> QED BY <2>1, <2>2 DEF PeerMoves, CallsTypeOK
<1> QED BY <1>1, <1>2 DEF UserStep

LEMMA ClientMoves ==
  ASSUME Types, MessageInv, ClientTakes PROVE PeerMoves
<1>1. PICK m \in outbox, u \in Users : RegisterAnswered(m, u) \/ ClientReceive(m, u)
  BY DEF ClientTakes
<1>2. Handles(u, m) /\ CallsTypeOK
  BY <1>1, ClientHandles DEF Types
<1>3. m.call \in CallIds /\ RightMessage(m)
  BY AbroadType DEF MessageInv, Message
<1>4. ASSUME NEW busy \in BOOLEAN, ReceiveInvite(m, u, busy)
      PROVE  PeerMoves
  <2>1. m.type = "INVITE" /\ u = Callee[m.call]
    BY <1>2, <1>3, <1>4 DEF ReceiveInvite, RightMessage, Handles
  <2>2. Enters(m.call, u)
    BY <1>2, <2>1 DEF Enters
  <2>3. /\ joined' = joined \cup {<<m.call, u>>}
        /\ \A v \in Users : v # u => active'[v] = active[v] /\ pending'[v] = pending[v]
        /\ \/ active'[u] = active[u] /\ pending'[u] = pending[u]
           \/ active'[u] = m.call /\ pending'[u] = m.call
    BY <1>2, <1>4 DEF ReceiveInvite, Enter, CallsTypeOK
  <2>4. \A v \in Users : state'[v] = "incall" =>
          active'[v] = active[v] /\ state[v] = "incall"
    BY <1>2, <1>4 DEF ReceiveInvite, Enter, SetState, CallsTypeOK
  <2> QED BY <1>3, <2>1, <2>2, <2>3, <2>4 DEF PeerMoves
<1>5. CASE \/ ReceiveBye(m, u) \/ ReceiveProgress(m, u)
           \/ ReceiveEnd(m, u) \/ ReceiveNothing(m, u)
           \/ /\ UNCHANGED <<active, pending, joined, wire>>
              /\ \A v \in Users : state'[v] = "registered" \/ state'[v] = state[v]
  <2>1. pending' = pending /\ joined' = joined
    BY <1>5 DEF ReceiveBye, ReceiveProgress, ReceiveEnd, ReceiveNothing
  <2>2. active' = active \/ active' = [active EXCEPT ![u] = NoCall]
    BY <1>5 DEF ReceiveBye, ReceiveProgress, ReceiveEnd, ReceiveNothing, Terminate
  <2>3. \A v \in Users : state'[v] = "incall" =>
          /\ active'[v] = active[v]
          /\ \/ state[v] = "incall"
             \/ m.type = "200_INVITE" /\ m.call = active[v]
    BY <1>2, <1>5 DEF ReceiveBye, ReceiveProgress, ReceiveEnd, ReceiveNothing, Terminate,
       Active, SetState, CallsTypeOK
  <2> QED BY <1>2, <2>1, <2>2, <2>3 DEF PeerMoves, CallsTypeOK
<1> QED BY <1>1, <1>2, <1>4, <1>5, ClientHandles

LEMMA Moves ==
  ASSUME Types, MessageInv, [CallsNext]_allVars PROVE PeerMoves
<1>1. CASE PeerStep
  BY <1>1, UserMoves, ClientMoves DEF PeerStep, Types
<1>2. CASE ~PeerStep
  BY <1>2, StepKinds, PeersKept DEF PeerMoves, Types
<1> QED BY <1>1, <1>2

(***************************************************************************)
(* OriginInv is an invariant.                                               *)
(***************************************************************************)

\* A genuine packet of a call is relayed as the call wants it.
LEMMA RelayRight ==
  ASSUME NEW p \in Packet, Genuine(p), p.type \notin {"REGISTER", "OPTIONS", "JUNK"},
         NEW s, RightContext(p.call, s)
  PROVE  /\ Relay(p, s).type = p.type /\ Relay(p, s).call = p.call
         /\ RightMessage(Relay(p, s))
         /\ p.type = "BYE" => Relay(p, s).to = Home[Other(p.call, p.from)]
<1> DEFINE m == Relay(p, s)
           c == p.call
<1>1. /\ c \in CallIds /\ Caller[c] \in Users /\ Callee[c] \in Users /\ Caller[c] # Callee[c]
      /\ Home[Caller[c]] \in Addrs /\ Home[Callee[c]] \in Addrs
  BY DEF Packet
<1>2. m.type = p.type /\ m.call = c
  BY DEF Relay
<1>3. CASE p.type \in ResponseTypes
  <2>1. m.to = ResponseDestination(p, s) /\ m.over = Transport[p.addr]
    BY <1>3 DEF Relay
  <2>2. \E u \in Party(c) : p = Response(p.type, c, u)
    BY <1>3 DEF Genuine, AnswerTypes, ResponseTypes, Party
  <2>3. p.via = NoAddr /\ \E u \in Party(c) : p.addr = Home[u]
    BY <2>2 DEF Response
  <2>4. m.to = Home[Caller[c]]
    BY <1>1, <2>1, <2>3 DEF ResponseDestination, RightContext
  <2>5. m.over = Transport[m.to]
    BY <2>1, <2>3, <2>4 DEF RightContext, Party
  <2> QED BY <1>2, <1>3, <2>4, <2>5 DEF RightMessage, ResponseTypes
<1>4. CASE p.type = "INVITE"
  <2>1. m.to = Home[Callee[c]] /\ m.over = Transport[m.to]
    BY <1>4 DEF Relay, ResponseTypes, RightContext
  <2> QED BY <1>2, <1>4, <2>1 DEF RightMessage, AnswerTypes
<1>5. CASE p.type \in {"ACK", "BYE"}
  <2>1. m.to = RequestDestination(p, s) /\ m.over = Transport[m.to]
    BY <1>5 DEF Relay, ResponseTypes
  <2>2. p.from \in Party(c)
    BY <1>5 DEF Genuine
  <2>3. m.to = Home[Other(c, p.from)]
    BY <1>1, <2>1, <2>2 DEF RequestDestination, RightContext, Other, Party
  <2>4. Other(c, p.from) \in Party(c)
    BY DEF Other, Party
  <2> QED BY <1>2, <1>5, <2>1, <2>3, <2>4 DEF RightMessage, AnswerTypes
<1> QED BY <1>3, <1>4, <1>5 DEF Packet, RequestTypes

\* The message a worker sends: a response of the proxy's own, or its packet.
LEMMA SentMessage ==
  ASSUME Types, ContextInv, PacketInv, NEW w \in Workers, pc[w] = "send"
  PROVE  LET m == IF reply[w] = "none" THEN Relay(pkt[w], snap[w])
                  ELSE LocalResponse(pkt[w], reply[w])
         IN
         /\ m.call = pkt[w].call
         /\ RightMessage(m)
         /\ m.type = IF reply[w] = "none" THEN pkt[w].type ELSE reply[w]
         /\ reply[w] # "none" => reply[w] \in LocalStatus
         /\ reply[w] = "none" /\ m.type = "BYE" =>
              m.to = Home[Other(m.call, pkt[w].from)]
<1>1. Busy(w) /\ pkt[w] \in Packet /\ Genuine(pkt[w]) /\ pkt[w].type # "JUNK"
  BY AbroadType DEF Busy, PacketInv, Types, TypeOK
<1>2. CASE reply[w] = "none"
  <2>1. snap[w] # NoContext
    BY <1>2 DEF Types, TypeOK
  <2>2. RightContext(pkt[w].call, snap[w])
    BY <2>1 DEF ContextInv
  <2>3. pkt[w].type \notin {"REGISTER", "OPTIONS"}
    BY <1>2 DEF Types, StepInv
  <2> QED BY <1>1, <1>2, <2>2, <2>3, RelayRight
<1>3. CASE reply[w] # "none"
  <2>1. reply[w] \in LocalStatus
    BY <1>3 DEF Types, TypeOK
  <2> QED BY <1>3, <2>1 DEF LocalResponse, RightMessage, LocalStatus, AnswerTypes
<1> QED BY <1>2, <1>3

\* Only messages of workers that finish are added to the outbox.
LEMMA NewMessage ==
  ASSUME Types, [CallsNext]_allVars, NEW m \in outbox' \ outbox
  PROVE  \E w \in Workers :
           /\ WorkerStep(w) /\ pc[w] = "send" /\ ~Busy(w)'
           /\ m = IF reply[w] = "none" THEN Relay(pkt[w], snap[w])
                  ELSE LocalResponse(pkt[w], reply[w])
<1>1. CASE \E w \in Workers : \E p \in wire : TakeStep(w, p)
  BY <1>1, ReceiveLocal DEF TakeStep, ReceiveFromWire, ReceiveDuplicate, Types
<1>2. ASSUME NEW w \in Workers, WorkerStep(w)
      PROVE  /\ pc[w] = "send" /\ ~Busy(w)'
             /\ m = IF reply[w] = "none" THEN Relay(pkt[w], snap[w])
                    ELSE LocalResponse(pkt[w], reply[w])
  <2>1. Send(w)
    BY <1>2 DEF WorkerStep, Proceed, RegStore, RegCount, InvLookup, InvCreate,
       InvStore, InvEvent, InvCount, CtxRead, FindCall, SessionEvent,
       AckFind, AckCheck, StoreAnswer, RemoveCall, EraseContext, DecCheck, Dec, ioVars
  <2> QED BY <2>1 DEF Send, Finish, Goto, Busy, Types, TypeOK
<1> QED BY <1>1, <1>2, StepKinds, RouterKept

\* The registration table and the contexts change in workers' steps only.
LEMMA StoreStep ==
  ASSUME Types, OriginInv, NEW w \in Workers, Proceed(w)
  PROVE  TableInv' /\ ContextInv'
<1> DEFINE c == pkt[w].call
<1>1. /\ Busy(w) /\ pkt[w] \in Packet /\ Genuine(pkt[w]) /\ c \in CallIds
      /\ \A v \in Workers : v # w => UNCHANGED <<pc[v], pkt[v], snap[v]>>
      /\ \/ Busy(w)' /\ pkt'[w] = pkt[w]
         \/ ~Busy(w)' /\ pkt'[w] = NoPacket /\ snap'[w] = NoContext
  BY ProceedLocal, AbroadType DEF Types, OriginInv, PacketInv, Packet
<1>2. TableInv'
  <2>1. CASE RegStore(w)
    <3>1. pkt[w].from \in Users /\ pkt[w].addr = Home[pkt[w].from]
      BY <1>1, <2>1 DEF RegStore, Types, StepInv, Genuine, Packet
    <3>2. table \in [Users -> Addrs \cup {NoAddr}]
      BY DEF Types, TypeOK
    <3> QED BY <2>1, <3>1, <3>2 DEF RegStore, OriginInv, TableInv
  <2>2. CASE ~RegStore(w)
    <3>1. table' = table
      BY <2>2 DEF Proceed, RegCount, InvLookup, InvCreate,
         InvStore, InvEvent, InvCount, CtxRead, FindCall, SessionEvent, AckFind, AckCheck,
         StoreAnswer, RemoveCall, EraseContext, DecCheck, Dec, Send, proxyVars
    <3> QED BY <3>1 DEF OriginInv, TableInv
  <2> QED BY <2>1, <2>2
<1>3. ASSUME NEW s, ctx' = [ctx EXCEPT ![c] = s],
             s # NoContext => RightContext(c, s)
      PROVE  \A d \in CallIds : ctx'[d] # NoContext => RightContext(d, ctx'[d])
  BY <1>1, <1>3 DEF Types, TypeOK, OriginInv, ContextInv
<1>4. \A d \in CallIds : ctx'[d] # NoContext => RightContext(d, ctx'[d])
  <2>1. CASE InvStore(w)
    <3>1. snap[w] # NoContext /\ ctx' = [ctx EXCEPT ![c] = snap[w]]
      BY <2>1 DEF InvStore, Types, TypeOK, UsesSnap
    <3>2. RightContext(c, snap[w])
      BY <3>1 DEF OriginInv, ContextInv
    <3> QED BY <1>3, <3>1, <3>2
  <2>2. CASE StoreAnswer(w)
    <3>1. CASE ctx[c] = NoContext
      <4>1. ctx' = [ctx EXCEPT ![c] = NoContext]
        BY <2>2, <3>1 DEF StoreAnswer
      <4> QED BY <1>3, <4>1
    <3>2. CASE ctx[c] # NoContext
      <4>1. ctx' = [ctx EXCEPT ![c] = [@ EXCEPT !.answered = TRUE]]
        BY <2>2, <3>2, <1>1 DEF StoreAnswer, Types, TypeOK
      <4>2. RightContext(c, [ctx[c] EXCEPT !.answered = TRUE])
        <5>1. ctx[c] \in Context /\ RightContext(c, ctx[c])
          BY <3>2, <1>1 DEF Types, TypeOK, OriginInv, ContextInv
        <5> QED BY <5>1 DEF RightContext, Context
      <4> QED BY <1>1, <1>3, <4>1, <4>2 DEF Types, TypeOK
    <3> QED BY <3>1, <3>2
  <2>3. CASE EraseContext(w)
    BY <1>3, <2>3 DEF EraseContext
  <2>4. CASE ~InvStore(w) /\ ~StoreAnswer(w) /\ ~EraseContext(w)
    <3>1. ctx' = ctx
      BY <2>4 DEF Proceed, RegStore, RegCount, InvLookup, InvCreate,
         InvEvent, InvCount, CtxRead, FindCall, SessionEvent, AckFind, AckCheck,
         RemoveCall, DecCheck, Dec, Send, proxyVars
    <3> QED BY <3>1 DEF OriginInv, ContextInv
  <2> QED BY <2>1, <2>2, <2>3, <2>4
<1>5. snap'[w] # NoContext => Busy(w)' /\ RightContext(c, snap'[w])
  <2>1. CASE InvLookup(w)
    <3> DEFINE a == table[pkt[w].to]
               s == [caller |-> pkt[w].from, callerAddr |-> pkt[w].addr,
                     calleeAddr |-> a, answered |-> FALSE]
    <3>1. /\ pkt[w].from = Caller[c] /\ pkt[w].to = Callee[c]
          /\ pkt[w].addr = Home[Caller[c]] /\ Callee[c] \in Users
      BY <1>1, <2>1 DEF InvLookup, Types, StepInv, InviteSteps, Genuine, Request, Other
    <3>2. CASE snap'[w] = snap[w]
      BY <1>1, <3>2 DEF OriginInv, ContextInv
    <3>3. CASE snap' # snap
      <4>1. /\ a # NoAddr /\ Transport[a] = Transport[pkt[w].addr]
            /\ snap' = [snap EXCEPT ![w] = s]
        BY <2>1, <3>3 DEF InvLookup
      <4>2. snap'[w] = s
        BY <4>1 DEF Types, TypeOK
      <4>3. a = Home[Callee[c]]
        BY <3>1, <4>1 DEF OriginInv, TableInv
      <4>4. Busy(w)'
        BY <2>1, <4>1 DEF InvLookup, Busy, Goto, Respond, Types, TypeOK
      <4> QED BY <3>1, <4>1, <4>2, <4>3, <4>4 DEF RightContext
    <3> QED BY <3>2, <3>3
  <2>2. CASE CtxRead(w)
    <3>1. snap'[w] \in {snap[w], NoContext, ctx[c]}
      BY <2>2 DEF CtxRead, Finish, Types, TypeOK
    <3> QED BY <1>1, <3>1 DEF OriginInv, ContextInv
  <2>3. CASE ~InvLookup(w) /\ ~CtxRead(w)
    <3>1. snap'[w] \in {snap[w], NoContext}
      BY <2>3 DEF Proceed, RegStore, RegCount, InvCreate, InvStore,
         InvEvent, InvCount, FindCall, SessionEvent, AckFind, AckCheck, StoreAnswer,
         RemoveCall, EraseContext, DecCheck, Dec, Send, Finish, Types, TypeOK
    <3> QED BY <1>1, <3>1 DEF OriginInv, ContextInv
  <2> QED BY <2>1, <2>2, <2>3
<1>6. \A v \in Workers : snap'[v] # NoContext => Busy(v)' /\ RightContext(pkt'[v].call, snap'[v])
  <2>1. \A v \in Workers : v # w => (Busy(v) <=> Busy(v)')
    BY <1>1 DEF Busy
  <2> QED BY <1>1, <1>5, <2>1 DEF OriginInv, ContextInv
<1> QED BY <1>2, <1>4, <1>6 DEF ContextInv

LEMMA OriginNext ==
  ASSUME Types, OriginInv, [CallsNext]_allVars
  PROVE  OriginInv'
<1>1. TableInv' /\ ContextInv'
  <2>1. CASE PeerStep \/ LossStep \/ UNCHANGED allVars
    <3>1. UNCHANGED <<table, ctx, pc, pkt, snap>>
      BY <2>1, RouterKept
    <3> QED BY <3>1 DEF OriginInv, TableInv, ContextInv, Busy
  <2>2. ASSUME NEW w \in Workers, WorkerStep(w)
        PROVE  TableInv' /\ ContextInv'
    BY <2>2, StoreStep DEF WorkerStep
  <2>3. ASSUME NEW w \in Workers, NEW p \in wire, TakeStep(w, p)
        PROVE  TableInv' /\ ContextInv'
    <3>1. Receive(w, p)
      BY <2>3 DEF TakeStep, ReceiveFromWire, ReceiveDuplicate
    <3>2. /\ ~Busy(w) /\ UNCHANGED <<table, ctx>> /\ snap'[w] = snap[w]
          /\ \A v \in Workers : v # w => UNCHANGED <<pc[v], pkt[v], snap[v]>>
      BY <3>1, ReceiveLocal DEF Types, proxyVars
    <3> QED BY <3>2 DEF OriginInv, TableInv, ContextInv, Busy
  <2> QED BY <2>1, <2>2, <2>3, StepKinds
<1>2. PacketInv'
  <2>1. ASSUME NEW p \in wire' \ wire PROVE Genuine(p)
    <3>1. PeerStep
      BY <2>1, StepKinds, PeersKept DEF Types
    <3> QED BY <2>1, <3>1, SentPacket DEF Occasion, OriginInv
  <2> QED BY <2>1, AbroadStep DEF OriginInv, PacketInv
<1>3. MessageInv'
  <2>1. ASSUME NEW m \in outbox' \ outbox PROVE RightMessage(m)
    BY <2>1, NewMessage, SentMessage DEF OriginInv
  <2> QED BY <2>1 DEF OriginInv, MessageInv
<1>4. PeerInv'
  <2>1. PeerMoves
    BY Moves DEF OriginInv
  <2>2. \A c \in CallIds, u \in Users : Enters(c, u) => u \in Party(c)
    BY DEF Enters, Party
  <2>3. \A c \in CallIds, u \in Users : <<c, u>> \in joined' => u \in Party(c)
    BY <2>1, <2>2 DEF PeerMoves, OriginInv, PeerInv
  <2>4. \A c \in CallIds, u \in Users : active'[u] = c => <<c, u>> \in joined'
    BY <2>1 DEF PeerMoves, OriginInv, PeerInv, Active
  <2>5. \A u \in Users : pending'[u] # NoCall =>
          Callee[pending'[u]] = u /\ <<pending'[u], u>> \in joined'
    BY <2>1 DEF PeerMoves, OriginInv, PeerInv
  <2> QED BY <2>3, <2>4, <2>5 DEF PeerInv, Active
<1> QED BY <1>1, <1>2, <1>3, <1>4 DEF OriginInv

LEMMA TypesNext ==
  ASSUME Types, [CallsNext]_allVars
  PROVE  Types'
BY CallsStepIsRouterStep, CallsTypeNext, TypeNext, StepNext DEF Types

LEMMA CallsInitial ==
  ASSUME CallsInit
  PROVE  /\ Types /\ OriginInv
         /\ Abroad = {} /\ outbox = {} /\ joined = {}
         /\ \A w \in Workers : ~Busy(w)
<1>1. TypeOK /\ CallsTypeOK
  BY TypeInit, CallsTypeInit DEF CallsInit
<1>2. /\ outbox = {} /\ joined = {} /\ wire = {}
      /\ \A w \in Workers : ~Busy(w) /\ pc[w] = "idle" /\ snap[w] = NoContext
  BY DEF CallsInit, Init, Busy
<1>3. StepInv
  BY <1>2 DEF StepInv, InviteSteps
<1>4. Abroad = {}
  BY <1>2 DEF Abroad
<1>5. TableInv /\ ContextInv
  BY <1>2 DEF CallsInit, Init, TableInv, ContextInv
<1>6. PeerInv
  BY <1>2 DEF CallsInit, PeerInv, Active
<1> QED BY <1>1, <1>2, <1>3, <1>4, <1>5, <1>6 DEF Types, OriginInv, PacketInv, MessageInv

\* The responses to an INVITE reach its caller, and they and the requests leave
\* over the transport their addressee speaks (sip_router.cpp:180-193,
\* sip_proxy.cpp:260-262), however often the network repeats a packet.
THEOREM ResponsesReachCallers == CallsSpec => []Reachable
<1>1. CallsInit => Types /\ OriginInv
  BY CallsInitial
<1>2. Types /\ OriginInv /\ [CallsNext]_allVars => Types' /\ OriginInv'
  BY TypesNext, OriginNext
<1>3. OriginInv => Reachable
  BY DEF OriginInv, MessageInv, RightMessage, Reachable, AnswerTypes
<1> QED BY <1>1, <1>2, <1>3, PTL DEF CallsSpec
=============================================================================
