---------------------------- MODULE ProxyRouter ----------------------------
(***************************************************************************)
(* The routing core of the SIP proxy: SIPProxy::handle_packet and every     *)
(* handler of SIPRouter, run by the worker threads of the pool on shared    *)
(* state that is protected piecewise: the registration table, the call      *)
(* registry, each call session, the context map and the metrics each have   *)
(* their own lock or atomic, and no handler holds one across two steps.     *)
(* An action below is one such critical section, so every interleaving the  *)
(* locks permit is a behaviour.                                             *)
(*                                                                         *)
(* Peers are open here: any packet of Traffic may arrive at any time, any   *)
(* number of times.  Module SipCalls restricts them to what the client of   *)
(* this repository sends.                                                   *)
(***************************************************************************)
EXTENDS Integers, Sequences, FiniteSets, CallStateMachine

CONSTANTS
  Workers,      \* threads of the proxy's pool
  Users,        \* SIP identities
  CallIds,      \* values of the Call-ID header
  Addrs,        \* ip:port pairs of peers
  Transport,    \* the transport a peer at an address speaks
  NoAddr,       \* no address: unregistered user, no Via left
  NoContext,    \* no entry in the context map
  NoPacket,     \* an idle worker handles none
  Traffic,      \* the packets that may arrive
  MaxPackets    \* bound on the packets received (state space only)

\* A packet as the parser delivers it.  `ok` says that the headers the method
\* needs are there and hold identities; `via` is the topmost Via of a response
\* once the proxy's own is stripped; `addr` is the packet's source address,
\* which is also the Contact of a REGISTER.
Packet == [type : RequestTypes \cup ResponseTypes \cup {"JUNK"},
           call : CallIds, from : Users, to : Users,
           addr : Addrs, via : Addrs \cup {NoAddr}, ok : BOOLEAN]

\* CallContext: what the INVITE left for the later messages of the call.
\* answered says that the headers of the 200 to the INVITE were stored.
Context == [caller : Users, callerAddr : Addrs, calleeAddr : Addrs,
            answered : BOOLEAN]

\* Statuses of the responses the proxy makes itself.
LocalStatus == {"R200", "R400", "R404", "R501"}

\* What the proxy puts on the network; over is the transport used.
Message == [type : RequestTypes \cup ResponseTypes \cup LocalStatus,
            call : CallIds, to : Addrs, over : {"UDP", "TCP"}]

ASSUME WorkersAssumption == IsFiniteSet(Workers) /\ Workers # {}
ASSUME TransportAssumption == Transport \in [Addrs -> {"UDP", "TCP"}]
ASSUME NoAddrAssumption == NoAddr \notin Addrs
ASSUME NoContextAssumption == NoContext \notin Context
ASSUME NoPacketAssumption == NoPacket \notin Packet
ASSUME TrafficAssumption == Traffic \subseteq Packet
ASSUME MaxPacketsAssumption == MaxPackets \in Nat

VARIABLES
  table,            \* RegistrationTable::registrations_
  sessions,         \* every CallSession ever made, per Call-ID, oldest first
  registry,         \* CallRegistry::m_calls: index in sessions, 0 if absent
  ctx,              \* SIPRouter::call_contexts_
  activeCalls,      \* MetricsCollector gauge SIP_active_calls
  registeredUsers,  \* MetricsCollector gauge SIP_registered_users
  msgsIn, msgsOut,  \* MetricsCollector message counters
  pc,               \* the step each worker is about to take
  pkt,              \* the packet each worker handles
  snap,             \* the context each worker copied or is building
  ptr,              \* the session each worker holds, 0 for nullptr
  reply,            \* status of the local response, or "none"
  outbox,           \* messages sent and not yet delivered
  invited           \* history: call, caller and callee address of each INVITE
                    \* that was given a session

proxyVars  == <<table, sessions, registry, ctx, activeCalls, registeredUsers>>
workerVars == <<pc, pkt, snap, ptr, reply>>
ioVars     == <<msgsIn, msgsOut, outbox, invited>>
vars == <<proxyVars, workerVars, ioVars>>

Steps == {"idle", "regStore", "regCount", "invLookup", "invCreate", "invStore",
          "invEvent", "invCount", "ctxRead", "find", "event", "ackFind",
          "ackCheck", "answer", "remove", "erase", "decCheck", "dec", "send"}

Init ==
  /\ table = [u \in Users |-> NoAddr]
  /\ sessions = [c \in CallIds |-> <<>>]
  /\ registry = [c \in CallIds |-> 0]
  /\ ctx = [c \in CallIds |-> NoContext]
  /\ activeCalls = 0 /\ registeredUsers = 0
  /\ msgsIn = 0 /\ msgsOut = 0
  /\ pc = [w \in Workers |-> "idle"]
  /\ pkt = [w \in Workers |-> NoPacket]
  /\ snap = [w \in Workers |-> NoContext]
  /\ ptr = [w \in Workers |-> 0]
  /\ reply = [w \in Workers |-> "none"]
  /\ outbox = {} /\ invited = {}

(***************************************************************************)
(* Destinations.                                                            *)
(***************************************************************************)

\* Mutated form of RequestDestination: the answerless branch uses the source.
EchoRequestDestination(p, s) ==
  IF p.from = s.caller THEN s.calleeAddr ELSE p.addr

\* handle_ack, handle_bye: the caller's requests go to the callee's contact,
\* any other sender's to the address the INVITE came from.
RequestDestination(p, s) ==
  IF p.from = s.caller THEN s.calleeAddr ELSE s.callerAddr

\* handle_response: a response whose Via names the caller came from the caller.
ResponseDestination(p, s) ==
  IF p.via = s.callerAddr THEN s.calleeAddr ELSE s.callerAddr

\* The message handle_packet sends for a routed packet p with context s: a
\* request over the transport stored for its destination, a response over the
\* transport it arrived on.
Relay(p, s) ==
  IF p.type \in ResponseTypes
  THEN [type |-> p.type, call |-> p.call, to |-> ResponseDestination(p, s),
        over |-> Transport[p.addr]]
  ELSE [type |-> p.type, call |-> p.call,
        to |-> IF p.type = "INVITE" THEN s.calleeAddr ELSE RequestDestination(p, s),
        over |-> Transport[IF p.type = "INVITE" THEN s.calleeAddr
                           ELSE RequestDestination(p, s)]]

LocalResponse(p, status) ==
  [type |-> status, call |-> p.call, to |-> p.addr, over |-> Transport[p.addr]]

(***************************************************************************)
(* Control of a handler.                                                    *)
(***************************************************************************)

Goto(w, l) == pc' = [pc EXCEPT ![w] = l]

\* handle_packet returns: the worker's locals go with it.
Finish(w) ==
  /\ Goto(w, "idle")
  /\ pkt' = [pkt EXCEPT ![w] = NoPacket]
  /\ snap' = [snap EXCEPT ![w] = NoContext]
  /\ ptr' = [ptr EXCEPT ![w] = 0]
  /\ reply' = [reply EXCEPT ![w] = "none"]

\* RespondLocally: the status is fixed, the send follows.
Respond(w, status) ==
  /\ reply' = [reply EXCEPT ![w] = status]
  /\ Goto(w, "send")

\* First step of SIPRouter::route for a packet, "send" if it is answered at
\* once, "idle" if it is ignored.
FirstStep(p) ==
  CASE p.type = "JUNK"                        -> "idle"
    [] p.type \in ResponseTypes               -> "ctxRead"
    [] p.type \in {"ACK", "BYE"}              -> "ctxRead"
    [] p.type = "REGISTER" /\ p.ok            -> "regStore"
    [] p.type = "INVITE" /\ p.ok /\ p.from # p.to -> "invLookup"
    [] OTHER                                  -> "send"

FirstReply(p) ==
  IF FirstStep(p) # "send" THEN "none"
  ELSE IF p.type = "OPTIONS" THEN "R501" ELSE "R400"

\* Mutated form of AfterEvent: the CSeq of a 200 is not looked at.
AnyOkAfterEvent(p) ==
  CASE p.type = "ACK"                             -> "ackFind"
    [] p.type = "603"                             -> "decCheck"
    [] p.type \in {"200_INVITE", "200_BYE", "486"} -> "remove"
    [] OTHER                                      -> "send"

\* What follows the session event of a packet.
AfterEvent(p) ==
  CASE p.type = "ACK"               -> "ackFind"
    [] p.type = "200_INVITE"        -> "answer"
    [] p.type = "603"               -> "decCheck"
    [] p.type \in {"200_BYE", "486"} -> "remove"
    [] OTHER                        -> "send"

\* Mutated form of AfterDec: the context of a refused call is kept.
KeepingAfterDec(p) == "send"

\* What follows dec_active_calls, which 486 runs before it erases the context.
AfterDec(p) == IF p.type = "486" THEN "erase" ELSE "send"

(***************************************************************************)
(* The steps of a worker.                                                   *)
(***************************************************************************)

\* A worker takes packet p off the pool's queue: handle_packet counts it and
\* route picks the handler.
Receive(w, p) ==
  /\ pc[w] = "idle"
  /\ msgsIn < MaxPackets
  /\ msgsIn' = msgsIn + 1
  /\ pkt' = [pkt EXCEPT ![w] = IF FirstStep(p) = "idle" THEN NoPacket ELSE p]
  /\ reply' = [reply EXCEPT ![w] = FirstReply(p)]
  /\ Goto(w, FirstStep(p))
  /\ UNCHANGED <<proxyVars, snap, ptr, msgsOut, outbox, invited>>

\* RegistrationTable::register_user
RegStore(w) ==
  /\ pc[w] = "regStore"
  /\ table' = [table EXCEPT ![pkt[w].from] = pkt[w].addr]
  /\ Goto(w, "regCount")
  /\ UNCHANGED <<sessions, registry, ctx, activeCalls, registeredUsers,
                 pkt, snap, ptr, reply, ioVars>>

\* RegisterHandler::handle, inc_registered_users
RegCount(w) ==
  /\ pc[w] = "regCount"
  /\ registeredUsers' = registeredUsers + 1
  /\ Respond(w, "R200")
  /\ UNCHANGED <<table, sessions, registry, ctx, activeCalls,
                 pkt, snap, ptr, ioVars>>

\* Mutated form of InvLookup: the transports are not compared.
AnyTransportInvLookup(w) ==
  LET p == pkt[w]  callee == table[p.to] IN
  /\ pc[w] = "invLookup"
  /\ IF callee = NoAddr
     THEN /\ Respond(w, "R404")
          /\ UNCHANGED snap
     ELSE /\ snap' = [snap EXCEPT ![w] =
                [caller |-> p.from, callerAddr |-> p.addr,
                 calleeAddr |-> callee, answered |-> FALSE]]
          /\ Goto(w, "invCreate")
          /\ UNCHANGED reply
  /\ UNCHANGED <<proxyVars, pkt, ptr, ioVars>>

\* Mutated form of InvLookup: an INVITE nobody can be found for is dropped.
SilentInvLookup(w) ==
  LET p == pkt[w]  callee == table[p.to] IN
  /\ pc[w] = "invLookup"
  /\ IF callee = NoAddr \/ Transport[callee] # Transport[p.addr]
     THEN Finish(w)
     ELSE /\ snap' = [snap EXCEPT ![w] =
                [caller |-> p.from, callerAddr |-> p.addr,
                 calleeAddr |-> callee, answered |-> FALSE]]
          /\ Goto(w, "invCreate")
          /\ UNCHANGED <<pkt, ptr, reply>>
  /\ UNCHANGED <<proxyVars, ioVars>>

\* handle_invite: the callee's entry, 404 if there is none or it uses another
\* transport.  The entry may be stale by the time it is used.
InvLookup(w) ==
  LET p == pkt[w]  callee == table[p.to] IN
  /\ pc[w] = "invLookup"
  /\ IF callee = NoAddr \/ Transport[callee] # Transport[p.addr]
     THEN /\ Respond(w, "R404")
          /\ UNCHANGED snap
     ELSE /\ snap' = [snap EXCEPT ![w] =
                [caller |-> p.from, callerAddr |-> p.addr,
                 calleeAddr |-> callee, answered |-> FALSE]]
          /\ Goto(w, "invCreate")
          /\ UNCHANGED reply
  /\ UNCHANGED <<proxyVars, pkt, ptr, ioVars>>

\* CallRegistry::create_call for a Call-ID the registry does not hold.
CreateSession(w, c) ==
  /\ sessions' = [sessions EXCEPT ![c] = Append(@, "INIT")]
  /\ registry' = [registry EXCEPT ![c] = Len(sessions[c]) + 1]
  /\ ptr' = [ptr EXCEPT ![w] = Len(sessions[c]) + 1]
  /\ invited' = invited \cup {<<c, snap[w].callerAddr, snap[w].calleeAddr>>}
  /\ Goto(w, "invStore")
  /\ UNCHANGED reply

\* Mutated form of InvCreate: create_call without its contains test.
OverwritingInvCreate(w) ==
  /\ pc[w] = "invCreate"
  /\ CreateSession(w, pkt[w].call)
  /\ UNCHANGED <<table, ctx, activeCalls, registeredUsers, pkt, snap,
                 msgsIn, msgsOut, outbox>>

\* handle_invite: create_call, 400 if the Call-ID is in use.
InvCreate(w) ==
  /\ pc[w] = "invCreate"
  /\ IF registry[pkt[w].call] # 0
     THEN /\ Respond(w, "R400")
          /\ UNCHANGED <<sessions, registry, ptr, invited>>
     ELSE CreateSession(w, pkt[w].call)
  /\ UNCHANGED <<table, ctx, activeCalls, registeredUsers, pkt, snap,
                 msgsIn, msgsOut, outbox>>

\* Mutated form of InvStore: the session is not told of the INVITE.
EventlessInvStore(w) ==
  /\ pc[w] = "invStore"
  /\ ctx' = [ctx EXCEPT ![pkt[w].call] = snap[w]]
  /\ Goto(w, "invCount")
  /\ UNCHANGED <<table, sessions, registry, activeCalls, registeredUsers,
                 pkt, snap, ptr, reply, ioVars>>

\* store_call_context
InvStore(w) ==
  /\ pc[w] = "invStore"
  /\ ctx' = [ctx EXCEPT ![pkt[w].call] = snap[w]]
  /\ Goto(w, "invEvent")
  /\ UNCHANGED <<table, sessions, registry, activeCalls, registeredUsers,
                 pkt, snap, ptr, reply, ioVars>>

\* CallSession::apply_event on the session w holds, under the session's mutex.
ApplyEvent(w) ==
  sessions' = [sessions EXCEPT ![pkt[w].call][ptr[w]] =
                 HandleEvent(@, pkt[w].type)]

\* Mutated form of InvEvent: the call is forwarded and never counted.
UncountedInvEvent(w) ==
  /\ pc[w] = "invEvent"
  /\ ApplyEvent(w)
  /\ Goto(w, "send")
  /\ UNCHANGED <<table, registry, ctx, activeCalls, registeredUsers,
                 pkt, snap, ptr, reply, ioVars>>

\* handle_invite: session->on_request
InvEvent(w) ==
  /\ pc[w] = "invEvent"
  /\ ApplyEvent(w)
  /\ Goto(w, "invCount")
  /\ UNCHANGED <<table, registry, ctx, activeCalls, registeredUsers,
                 pkt, snap, ptr, reply, ioVars>>

\* handle_invite: inc_active_calls, then the INVITE is forwarded.
InvCount(w) ==
  /\ pc[w] = "invCount"
  /\ activeCalls' = activeCalls + 1
  /\ Goto(w, "send")
  /\ UNCHANGED <<table, sessions, registry, ctx, registeredUsers,
                 pkt, snap, ptr, reply, ioVars>>

\* Mutated form of CtxRead: the context is used without a test.
UncheckedCtxRead(w) ==
  /\ pc[w] = "ctxRead"
  /\ snap' = [snap EXCEPT ![w] = ctx[pkt[w].call]]
  /\ Goto(w, "find")
  /\ UNCHANGED <<proxyVars, pkt, ptr, reply, ioVars>>

\* get_call_context at the head of handle_ack, handle_bye and handle_response:
\* without a context a request is answered 400 and a response is dropped.
CtxRead(w) ==
  /\ pc[w] = "ctxRead"
  /\ \/ /\ ctx[pkt[w].call] = NoContext
        /\ pkt[w].type \in ResponseTypes
        /\ Finish(w)
     \/ /\ ctx[pkt[w].call] = NoContext
        /\ pkt[w].type \notin ResponseTypes
        /\ Respond(w, "R400")
        /\ UNCHANGED <<pkt, snap, ptr>>
     \/ /\ ctx[pkt[w].call] # NoContext
        /\ snap' = [snap EXCEPT ![w] = ctx[pkt[w].call]]
        /\ Goto(w, "find")
        /\ UNCHANGED <<pkt, ptr, reply>>
  /\ UNCHANGED <<proxyVars, ioVars>>

\* CallRegistry::find_call; the session may be gone, and with it the event.
FindCall(w) ==
  /\ pc[w] = "find"
  /\ ptr' = [ptr EXCEPT ![w] = registry[pkt[w].call]]
  /\ Goto(w, IF registry[pkt[w].call] = 0 THEN AfterEvent(pkt[w]) ELSE "event")
  /\ UNCHANGED <<proxyVars, pkt, snap, reply, ioVars>>

\* session->on_request or on_response
SessionEvent(w) ==
  /\ pc[w] = "event"
  /\ ApplyEvent(w)
  /\ Goto(w, AfterEvent(pkt[w]))
  /\ UNCHANGED <<table, registry, ctx, activeCalls, registeredUsers,
                 pkt, snap, ptr, reply, ioVars>>

\* handle_ack: the second find_call, after the event.
AckFind(w) ==
  /\ pc[w] = "ackFind"
  /\ ptr' = [ptr EXCEPT ![w] = registry[pkt[w].call]]
  /\ Goto(w, IF registry[pkt[w].call] = 0 THEN "send" ELSE "ackCheck")
  /\ UNCHANGED <<proxyVars, pkt, snap, reply, ioVars>>

\* Mutated form of AckCheck: an ACK always ends the session.
HastyAckCheck(w) ==
  /\ pc[w] = "ackCheck"
  /\ Goto(w, "remove")
  /\ UNCHANGED <<proxyVars, pkt, snap, ptr, reply, ioVars>>

\* handle_ack: is_terminated
AckCheck(w) ==
  /\ pc[w] = "ackCheck"
  /\ Goto(w, IF sessions[pkt[w].call][ptr[w]] = "TERMINATED"
             THEN "remove" ELSE "send")
  /\ UNCHANGED <<proxyVars, pkt, snap, ptr, reply, ioVars>>

\* handle_response: the headers of a 200 to the INVITE are stored, if the
\* context is still there.
StoreAnswer(w) ==
  LET c == pkt[w].call IN
  /\ pc[w] = "answer"
  /\ ctx' = [ctx EXCEPT ![c] =
               IF @ = NoContext THEN @ ELSE [@ EXCEPT !.answered = TRUE]]
  /\ Goto(w, "send")
  /\ UNCHANGED <<table, sessions, registry, activeCalls, registeredUsers,
                 pkt, snap, ptr, reply, ioVars>>

\* CallRegistry::remove_call
RemoveCall(w) ==
  /\ pc[w] = "remove"
  /\ registry' = [registry EXCEPT ![pkt[w].call] = 0]
  /\ Goto(w, IF pkt[w].type = "486" THEN "decCheck" ELSE "erase")
  /\ UNCHANGED <<table, sessions, ctx, activeCalls, registeredUsers,
                 pkt, snap, ptr, reply, ioVars>>

\* call_contexts_.erase
EraseContext(w) ==
  /\ pc[w] = "erase"
  /\ ctx' = [ctx EXCEPT ![pkt[w].call] = NoContext]
  /\ Goto(w, IF pkt[w].type = "200_BYE" THEN "decCheck" ELSE "send")
  /\ UNCHANGED <<table, sessions, registry, activeCalls, registeredUsers,
                 pkt, snap, ptr, reply, ioVars>>

\* Mutated form of DecCheck: the gauge is never tested.
UncheckedDecCheck(w) ==
  /\ pc[w] = "decCheck"
  /\ Goto(w, "dec")
  /\ UNCHANGED <<proxyVars, pkt, snap, ptr, reply, ioVars>>

\* MetricsCollector::dec_active_calls tests the atomic gauge ...
DecCheck(w) ==
  /\ pc[w] = "decCheck"
  /\ Goto(w, IF activeCalls > 0 THEN "dec" ELSE AfterDec(pkt[w]))
  /\ UNCHANGED <<proxyVars, pkt, snap, ptr, reply, ioVars>>

\* ... and decrements it in a second operation.
Dec(w) ==
  /\ pc[w] = "dec"
  /\ activeCalls' = activeCalls - 1
  /\ Goto(w, AfterDec(pkt[w]))
  /\ UNCHANGED <<table, sessions, registry, ctx, registeredUsers,
                 pkt, snap, ptr, reply, ioVars>>

\* handle_packet: the local response or the relayed message leaves; both count.
Send(w) ==
  /\ pc[w] = "send"
  /\ outbox' = outbox \cup {IF reply[w] = "none" THEN Relay(pkt[w], snap[w])
                            ELSE LocalResponse(pkt[w], reply[w])}
  /\ msgsOut' = msgsOut + 1
  /\ Finish(w)
  /\ UNCHANGED <<proxyVars, msgsIn, invited>>

\* A worker in the middle of a packet goes on with it.
Proceed(w) ==
  \/ RegStore(w)  \/ RegCount(w)
  \/ InvLookup(w) \/ InvCreate(w) \/ InvStore(w) \/ InvEvent(w) \/ InvCount(w)
  \/ CtxRead(w)   \/ FindCall(w)  \/ SessionEvent(w)
  \/ AckFind(w)   \/ AckCheck(w)  \/ StoreAnswer(w)
  \/ RemoveCall(w) \/ EraseContext(w) \/ DecCheck(w) \/ Dec(w)
  \/ Send(w)

\* The network delivers or loses a message the proxy sent.
Deliver(m) ==
  /\ m \in outbox
  /\ outbox' = outbox \ {m}
  /\ UNCHANGED <<proxyVars, workerVars, msgsIn, msgsOut, invited>>

Next ==
  \/ \E w \in Workers : Proceed(w) \/ \E p \in Traffic : Receive(w, p)
  \/ \E m \in outbox : Deliver(m)

Spec == Init /\ [][Next]_vars

(***************************************************************************)
(* Properties that hold whatever the peers send.                            *)
(***************************************************************************)

Busy(w) == pc[w] # "idle"

\* The steps of a worker that needs the context it copied or built.
UsesSnap == {"invCreate", "invStore", "invEvent", "invCount", "find", "event",
             "ackFind", "ackCheck", "answer", "remove", "erase", "decCheck",
             "dec"}

\* Every variable has its type; a busy worker has a packet, one past the
\* context look-up a context, one that touches a session an existing session.
TypeOK ==
  /\ table \in [Users -> Addrs \cup {NoAddr}]
  /\ sessions \in [CallIds -> Seq(CallState)]
  /\ registry \in [CallIds -> Nat]
  /\ \A c \in CallIds : registry[c] <= Len(sessions[c])
  /\ ctx \in [CallIds -> Context \cup {NoContext}]
  /\ activeCalls \in Int /\ registeredUsers \in Nat
  /\ msgsIn \in Nat /\ msgsOut \in Nat
  /\ pc \in [Workers -> Steps]
  /\ pkt \in [Workers -> Packet \cup {NoPacket}]
  /\ snap \in [Workers -> Context \cup {NoContext}]
  /\ ptr \in [Workers -> Nat]
  /\ reply \in [Workers -> LocalStatus \cup {"none"}]
  /\ outbox \subseteq Message
  /\ invited \subseteq CallIds \X Addrs \X Addrs
  /\ \A w \in Workers :
       /\ Busy(w) => pkt[w] \in Packet /\ pkt[w].type # "JUNK"
       /\ pc[w] \in UsesSnap \/ (pc[w] = "send" /\ reply[w] = "none")
            => snap[w] \in Context
       /\ pc[w] \in {"invStore", "invEvent", "event", "ackCheck"}
            => ptr[w] \in 1..Len(sessions[pkt[w].call])

\* dec_active_calls tests the gauge and decrements it in two operations: the
\* test bounds how far below zero the workers can take it together, one less
\* than there are workers (metrics_collector.cpp:24-27).
GaugeFloor == activeCalls >= 1 - Cardinality(Workers)

\* A relayed message of a call only ever goes to an address that an INVITE of
\* that Call-ID came from or was sent to, however stale the context the worker
\* copied has become (sip_router.cpp:269-308, 344-383, 476-486).
RelayToParties ==
  \A m \in outbox : m.type \notin LocalStatus =>
    \E i \in invited : m.call = i[1] /\ m.to \in {i[2], i[3]}

\* A session is in INIT only while the worker that created it has not yet
\* raised INVITE on it: no session is left behind in INIT, and none is raised
\* twice (sip_router.cpp:200-226).
InitIsTransient ==
  \A c \in CallIds : \A n \in 1..Len(sessions[c]) :
    sessions[c][n] = "INIT" =>
      \E w \in Workers : /\ pc[w] \in {"invStore", "invEvent"}
                         /\ pkt[w].call = c /\ ptr[w] = n

\* No step takes a session back in the life of a call: workers that apply
\* events to one session in any order only move it forward, and a session
\* that was removed stays as it was or moves forward for the workers that
\* still hold it (call_session.cpp:56-87).
SessionsMoveForward ==
  [][\A c \in CallIds : \A n \in 1..Len(sessions[c]) :
       Rank(sessions[c][n]) <= Rank(sessions'[c][n])]_vars
=============================================================================
