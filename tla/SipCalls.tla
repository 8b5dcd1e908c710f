------------------------------ MODULE SipCalls ------------------------------
(***************************************************************************)
(* The proxy of module ProxyRouter between the clients of this repository:  *)
(* users register, call, answer, decline and hang up, and their clients     *)
(* react to what the proxy sends them (client/src/sip_invite_handler.cpp).  *)
(*                                                                         *)
(* The network between them is a set in each direction: packets overtake    *)
(* each other, a bounded number is duplicated, and they are lost if Lossy.  *)
(* A user's command and the handling of a message are atomic steps of a     *)
(* client, except that handle_register waits for its answer and messages    *)
(* are handled meanwhile.                                                   *)
(***************************************************************************)
EXTENDS ProxyRouter

CONSTANTS
  Caller, Callee,   \* the two parties of each Call-ID
  Home,             \* the address of each user's client, and its Contact
  NoCall,           \* no Call-ID: SIPClientStateManager's empty string
  Distracted,       \* users who may be in a call that is not modelled
  MaxRegisters,     \* bound on the REGISTERs one client sends
  MaxDups,          \* bound on the duplicated packets towards the proxy
  Lossy             \* whether the network loses messages

ASSUME PartiesAssumption ==
  /\ CallIds # {}
  /\ Caller \in [CallIds -> Users] /\ Callee \in [CallIds -> Users]
  /\ \A c \in CallIds : Caller[c] # Callee[c]
ASSUME HomeAssumption ==
  /\ Home \in [Users -> Addrs]
  /\ \A u, v \in Users : Home[u] = Home[v] => u = v
ASSUME NoCallAssumption == NoCall \notin CallIds
ASSUME DistractedAssumption == Distracted \subseteq Users
ASSUME BoundsAssumption ==
  MaxRegisters \in [Users -> Nat] /\ MaxDups \in Nat /\ Lossy \in BOOLEAN

VARIABLES
  state,        \* SIPClientStateManager::state_ of each client
  active,       \* SIPClientStateManager::active_call_id_
  pending,      \* the call of SIPInviteHandler::pending_invite_
  registering,  \* users whose handle_register waits for an answer
  registers,    \* REGISTERs each client has sent
  joined,       \* history: calls each client took part in or refused
  wire,         \* packets on their way to the proxy
  dups          \* packets duplicated so far

peerVars == <<state, active, pending, registering, registers, joined>>
netVars  == <<wire, dups>>
allVars  == <<vars, peerVars, netVars>>

\* Idle, Registering and Failed are told apart by nothing: all are neither
\* registered nor busy.
ClientState == {"unregistered", "registered", "calling", "ringing", "incall"}

Party(c) == {Caller[c], Callee[c]}
Other(c, u) == IF u = Caller[c] THEN Callee[c] ELSE Caller[c]

\* is_busy()
IsBusy(u) == state[u] \in {"calling", "ringing", "incall"}

Active(c, u) == active[u] = c

\* The client was in call c, or refused it, and is not in it.
Left(c, u) == <<c, u>> \in joined /\ ~Active(c, u)

CallsInit ==
  /\ Init
  /\ state = [u \in Users |-> "unregistered"]
  /\ active = [u \in Users |-> NoCall]
  /\ pending = [u \in Users |-> NoCall]
  /\ registering = {}
  /\ registers = [u \in Users |-> 0]
  /\ joined = {}
  /\ wire = {} /\ dups = 0

(***************************************************************************)
(* What the clients send.                                                   *)
(***************************************************************************)

\* SIPMessageFactory::build; the Contact and the source are the client's own.
Request(type, c, u) ==
  [type |-> type, call |-> c, from |-> u, to |-> Other(c, u),
   addr |-> Home[u], via |-> NoAddr, ok |-> TRUE]

\* SIPMessageFactory::build_response copies the request's From and To, and of
\* its Via headers the first one only, the proxy's: once the proxy has stripped
\* that, none is left.
Response(type, c, u) ==
  LET requester == IF type = "200_BYE" THEN Other(c, u) ELSE Caller[c] IN
  [type |-> type, call |-> c, from |-> requester, to |-> Other(c, requester),
   addr |-> Home[u], via |-> NoAddr, ok |-> TRUE]

\* A REGISTER has a Call-ID of its own, which the router does not use.
Registration(u) ==
  [type |-> "REGISTER", call |-> CHOOSE c \in CallIds : TRUE,
   from |-> u, to |-> u, addr |-> Home[u], via |-> NoAddr, ok |-> TRUE]

\* Everything the clients of these calls can send is traffic of the router.
PeerTraffic ==
  {Registration(u) : u \in Users}
  \cup {Request(t, c, u) : t \in {"INVITE", "ACK", "BYE"}, c \in CallIds, u \in Users}
  \cup {Response(t, c, u) : t \in ResponseTypes, c \in CallIds, u \in Users}

ASSUME PeerTrafficAssumption == PeerTraffic \subseteq Traffic

(***************************************************************************)
(* The user's commands, which wait for a REGISTER that is under way.        *)
(***************************************************************************)

ProxyUnchanged == UNCHANGED <<proxyVars, workerVars, ioVars>>

SendsToProxy(packets) == wire' = wire \cup packets

\* transition_to
SetState(u, s) == state' = [state EXCEPT ![u] = s]

\* on_calling, on_incoming_call: u takes part in c, in state s.
Enter(c, u, s) ==
  /\ SetState(u, s)
  /\ active' = [active EXCEPT ![u] = c]
  /\ joined' = joined \cup {<<c, u>>}

\* on_call_terminated
Terminate(u) ==
  /\ SetState(u, "registered")
  /\ active' = [active EXCEPT ![u] = NoCall]

\* send_to_server with a REGISTER, the first one or another attempt.
SendRegister(u) ==
  /\ registers[u] < MaxRegisters[u]
  /\ registers' = [registers EXCEPT ![u] = @ + 1]
  /\ SendsToProxy({Registration(u)})
  /\ UNCHANGED <<active, pending, joined, dups>> /\ ProxyUnchanged

\* SIPRegisterHandler::handle_register, in whatever state the client is.
Register(u) ==
  /\ u \notin registering
  /\ registering' = registering \cup {u}
  /\ SetState(u, "unregistered")
  /\ SendRegister(u)

\* No answer for two seconds: another attempt.
RetryRegister(u) ==
  /\ u \in registering
  /\ SendRegister(u)
  /\ UNCHANGED <<state, registering>>

\* No answer after the last attempt: on_register_failed.
GiveUpRegister(u) ==
  /\ u \in registering /\ registers[u] = MaxRegisters[u]
  /\ registering' = registering \ {u}
  /\ SetState(u, "unregistered")
  /\ UNCHANGED <<active, pending, registers, joined, netVars>> /\ ProxyUnchanged

\* SIPInviteHandler::handle_invite; each call has a fresh Call-ID.
Dial(c) ==
  LET u == Caller[c] IN
  /\ u \notin registering
  /\ state[u] = "registered" /\ ~IsBusy(u)
  /\ <<c, u>> \notin joined
  /\ Enter(c, u, "calling")
  /\ SendsToProxy({Request("INVITE", c, u)})
  /\ UNCHANGED <<pending, registering, registers, dups>> /\ ProxyUnchanged

\* SIPInviteHandler::handle_answer, whatever call is active by now.
Answer(u) ==
  /\ u \notin registering /\ pending[u] # NoCall
  /\ SendsToProxy({Response("200_INVITE", pending[u], u)})
  /\ SetState(u, "incall")
  /\ pending' = [pending EXCEPT ![u] = NoCall]
  /\ UNCHANGED <<active, registering, registers, joined, dups>> /\ ProxyUnchanged

\* SIPInviteHandler::handle_reject
Reject(u) ==
  /\ u \notin registering /\ pending[u] # NoCall
  /\ SendsToProxy({Response("603", pending[u], u)})
  /\ Terminate(u)
  /\ pending' = [pending EXCEPT ![u] = NoCall]
  /\ UNCHANGED <<registering, registers, joined, dups>> /\ ProxyUnchanged

\* SIPInviteHandler::handle_bye; the call is over before the peer answers.
\* (With no active Call-ID the BYE names no call and is refused: not sent here.)
HangUp(u) ==
  /\ u \notin registering
  /\ state[u] = "incall"
  /\ SendsToProxy(IF active[u] = NoCall THEN {} ELSE {Request("BYE", active[u], u)})
  /\ Terminate(u)
  /\ UNCHANGED <<pending, registering, registers, joined, dups>> /\ ProxyUnchanged

(***************************************************************************)
(* SIPInviteHandler::on_message                                             *)
(***************************************************************************)

\* Mutated form of ErrorTypes: a 6xx is not taken for an error.
UpTo5xxTypes == {"486", "R400", "R404", "R501"}

\* The responses of 400 and above, the proxy's own among them.
ErrorTypes == {"486", "603", "R400", "R404", "R501"}

\* handle_incoming_invite; busy says that another call occupies the client.
ReceiveInvite(m, u, busy) ==
  /\ m.type = "INVITE"
  /\ IF busy
     THEN /\ joined' = joined \cup {<<m.call, u>>}
          /\ SendsToProxy({Response("486", m.call, u)})
          /\ UNCHANGED <<state, active, pending>>
     ELSE /\ Enter(m.call, u, "ringing")
          /\ pending' = [pending EXCEPT ![u] = m.call]
          /\ SendsToProxy({Response("100", m.call, u), Response("180", m.call, u)})

\* Mutated form of ReceiveBye: a BYE of another call is answered with an error.
ObjectingReceiveBye(m, u) ==
  /\ m.type = "BYE"
  /\ IF Active(m.call, u)
     THEN /\ SendsToProxy({Response("200_BYE", m.call, u)})
          /\ Terminate(u)
     ELSE /\ SendsToProxy({Response("481", m.call, u)})
          /\ UNCHANGED <<state, active>>
  /\ UNCHANGED <<pending, joined>>

\* handle_incoming_bye; the BYE of another call is ignored.
ReceiveBye(m, u) ==
  /\ m.type = "BYE"
  /\ IF Active(m.call, u)
     THEN /\ SendsToProxy({Response("200_BYE", m.call, u)})
          /\ Terminate(u)
     ELSE UNCHANGED <<state, active, wire>>
  /\ UNCHANGED <<pending, joined>>

\* Mutated form of ReceiveProgress: the call that is said to ring is the active
\* one from then on, without the test of its Call-ID.
ReopeningReceiveProgress(m, u) ==
  /\ \/ m.type = "100" /\ UNCHANGED <<state, active, joined, wire>>
     \/ m.type = "180" /\ Enter(m.call, u, "ringing") /\ UNCHANGED wire
     \/ /\ m.type = "200_INVITE" /\ Active(m.call, u)
        /\ SetState(u, "incall")
        /\ SendsToProxy({Request("ACK", m.call, u)})
        /\ UNCHANGED <<active, joined>>
  /\ UNCHANGED pending

\* handle_100, handle_180, handle_200_ok_invite
ReceiveProgress(m, u) ==
  /\ Active(m.call, u)
  /\ \/ m.type = "100" /\ SetState(u, "calling") /\ UNCHANGED wire
     \/ m.type = "180" /\ SetState(u, "ringing") /\ UNCHANGED wire
     \/ /\ m.type = "200_INVITE"
        /\ SetState(u, "incall")
        /\ SendsToProxy({Request("ACK", m.call, u)})
  /\ UNCHANGED <<active, pending, joined>>

\* handle_200_ok_bye, and handle_error, which sends an ACK first.
ReceiveEnd(m, u) ==
  /\ m.type \in {"200_BYE"} \cup ErrorTypes /\ Active(m.call, u)
  /\ Terminate(u)
  /\ SendsToProxy(IF m.type = "200_BYE" THEN {} ELSE {Request("ACK", m.call, u)})
  /\ UNCHANGED <<pending, joined>>

\* ACKs, and responses of a call that is not the active one.
ReceiveNothing(m, u) ==
  /\ m.type \notin {"INVITE", "BYE", "R200"}
  /\ \/ ~Active(m.call, u)
     \/ m.type \notin {"100", "180", "200_INVITE", "200_BYE"} \cup ErrorTypes
  /\ UNCHANGED <<state, active, pending, joined, wire>>

\* A message other than the answer to a REGISTER reaches u's client.
ClientReceive(m, u) ==
  /\ m.to = Home[u]
  /\ Deliver(m)
  /\ \/ \E busy \in BOOLEAN :
          /\ busy = IsBusy(u) \/ (busy /\ u \in Distracted)
          /\ ReceiveInvite(m, u, busy)
     \/ ReceiveBye(m, u)
     \/ ReceiveProgress(m, u)
     \/ ReceiveEnd(m, u)
     \/ ReceiveNothing(m, u)
  /\ UNCHANGED <<registering, registers, dups>>

\* handle_receive wakes handle_register, if one waits: on_register_success,
\* in whatever state the client is.
RegisterAnswered(m, u) ==
  /\ m.to = Home[u] /\ m.type = "R200"
  /\ Deliver(m)
  /\ SetState(u, IF u \in registering THEN "registered" ELSE state[u])
  /\ registering' = registering \ {u}
  /\ UNCHANGED <<active, pending, registers, joined, netVars>>

(***************************************************************************)
(* The network and the pool.                                                *)
(***************************************************************************)

\* A worker takes a packet off the network.
ReceiveFromWire(w, p) ==
  /\ p \in wire
  /\ Receive(w, p)
  /\ wire' = wire \ {p}
  /\ UNCHANGED <<peerVars, dups>>

\* UDP delivers the packet and will deliver it again.
ReceiveDuplicate(w, p) ==
  /\ p \in wire
  /\ dups < MaxDups /\ Transport[p.addr] = "UDP"
  /\ Receive(w, p)
  /\ dups' = dups + 1
  /\ UNCHANGED <<peerVars, wire>>

LosePacket(p) ==
  /\ Lossy /\ p \in wire
  /\ wire' = wire \ {p}
  /\ UNCHANGED <<peerVars, dups>> /\ ProxyUnchanged

LoseMessage(m) ==
  /\ Lossy
  /\ Deliver(m)
  /\ UNCHANGED <<peerVars, netVars>>

WorkerStep(w) == Proceed(w) /\ UNCHANGED <<peerVars, netVars>>

UserStep ==
  \/ \E u \in Users : \/ Register(u) \/ RetryRegister(u) \/ GiveUpRegister(u)
                      \/ Answer(u) \/ Reject(u) \/ HangUp(u)
  \/ \E c \in CallIds : Dial(c)

ProxyTakes == \E w \in Workers : \E p \in wire : ReceiveFromWire(w, p)

ClientTakes ==
  \E m \in outbox : \E u \in Users : RegisterAnswered(m, u) \/ ClientReceive(m, u)

CallsNext ==
  \/ UserStep
  \/ ProxyTakes
  \/ ClientTakes
  \/ \E w \in Workers : \/ WorkerStep(w)
                        \/ \E p \in wire : ReceiveDuplicate(w, p)
  \/ \E p \in wire : LosePacket(p)
  \/ \E m \in outbox : LoseMessage(m)

CallsSpec == CallsInit /\ [][CallsNext]_allVars

\* The pool keeps running its threads, and the network and the clients handle
\* what is sent; what users do is up to them.
Fairness ==
  /\ \A w \in Workers : WF_allVars(WorkerStep(w))
  /\ WF_allVars(ProxyTakes)
  /\ WF_allVars(ClientTakes)

FairCallsSpec == CallsSpec /\ Fairness

\* A client that is in a call gets into no other one. is_busy is there for that,
\* and does it unless a registration ends while its client is in a call.
StayInCall ==
  \A u \in Users : active[u] # NoCall => active'[u] \in {active[u], NoCall}

SteadySpec == CallsInit /\ [][CallsNext /\ StayInCall]_allVars

(***************************************************************************)
(* Safety.                                                                  *)
(***************************************************************************)

\* Every variable the clients and the network add has its type.
CallsTypeOK ==
  /\ state \in [Users -> ClientState]
  /\ active \in [Users -> CallIds \cup {NoCall}]
  /\ pending \in [Users -> CallIds \cup {NoCall}]
  /\ registering \subseteq Users
  /\ registers \in [Users -> Nat]
  /\ \A u \in Users : registers[u] <= MaxRegisters[u]
  /\ joined \subseteq CallIds \X Users
  /\ wire \subseteq PeerTraffic
  /\ dups \in 0..MaxDups

HandlesCall(w, c) == Busy(w) /\ pkt[w].call = c

\* A worker that has removed the session of c and will erase its context.
Closing(c) ==
  \E w \in Workers :
    /\ HandlesCall(w, c)
    /\ \/ pc[w] = "erase"
       \/ pc[w] \in {"decCheck", "dec"} /\ pkt[w].type = "486"

\* The registry and the context map agree on which calls exist, except while
\* the worker that opens or closes the call is between its two steps: neither
\* a session nor a context is left behind (sip_router.cpp:200-224, 312-314,
\* 436-442, 452-458).
Coherent ==
  \A c \in CallIds :
    /\ ctx[c] # NoContext => registry[c] # 0 \/ Closing(c)
    /\ registry[c] # 0 /\ ctx[c] = NoContext =>
         \E w \in Workers : HandlesCall(w, c) /\ pc[w] = "invStore"

\* SIP_active_calls never shows fewer calls than callees that are ringing or
\* talking, whatever the order in which the responses that decrement it are
\* handled (sip_router.cpp:228, 425, 443, 453).
GaugeCoversLiveCalls ==
  Cardinality({c \in CallIds : Active(c, Callee[c])}) <= activeCalls

\* A client is told to hang up only if the other party of the call hung up: a
\* BYE is never relayed to the wrong party or back to its sender.
ByeMeansHungUp ==
  \A m \in outbox : m.type = "BYE" =>
    \E u \in Party(m.call) : Home[u] # m.to /\ Left(m.call, u)

\* The responses to an INVITE reach its caller, and they and the requests leave
\* over the transport their addressee speaks, though a response is sent over
\* the transport it came in on (sip_router.cpp:180-193, sip_proxy.cpp:260-262).
Reachable ==
  \A m \in outbox :
    /\ m.over = Transport[m.to]
    /\ m.type \in {"100", "180", "200_INVITE", "486", "603"} =>
         m.to = Home[Caller[m.call]]

\* A session leaves the registry only when a party has left the call: no
\* response or ACK that arrives out of order closes a call in progress.
RemovedMeansEnded ==
  \A c \in CallIds :
    sessions[c] # <<>> /\ registry[c] = 0 =>
      \E u \in Party(c) : Left(c, u)

\* No INVITE is relayed into a call that both parties are in: a duplicate of
\* the INVITE is refused as long as the call lasts, and its session is removed
\* only once a party has left (sip_router.cpp:200-215).
NoSecondRing ==
  \A m \in outbox : m.type = "INVITE" =>
    \E u \in Party(m.call) : ~Active(m.call, u)

\* Something of call c is on its way, or in the hands of a worker.
UnderWay(c) ==
  \/ \E p \in wire : p.call = c /\ p.type # "REGISTER"
  \/ \E w \in Workers : HandlesCall(w, c) /\ pkt[w].type # "REGISTER"
  \/ \E m \in outbox : m.call = c /\ m.type # "R200"

\* When nothing of a call is under way, its parties agree on it: both clients
\* are in it or neither is. Nobody waits for a callee who never heard of the
\* call, or talks to one who hung up, whatever the workers did to the records
\* that the requests and responses had to find (sip_router.cpp:245-314,
\* 388-486; sip_invite_handler.cpp:84-280, 322-350).
PartiesAgree ==
  \A c \in CallIds :
    ~UnderWay(c) => (Active(c, Caller[c]) <=> Active(c, Callee[c]))

(***************************************************************************)
(* What a call is to those who see no packets: module CallLife.             *)
(***************************************************************************)

PlaceOf(c, u) ==
  IF <<c, u>> \notin joined THEN "out" ELSE IF Active(c, u) THEN "in" ELSE "left"

RecordOf(c) ==
  IF sessions[c] = <<>> THEN "none" ELSE IF registry[c] # 0 THEN "open" ELSE "closed"

Life == INSTANCE CallLife WITH
  Calls  <- CallIds,
  caller <- [c \in CallIds |-> PlaceOf(c, Caller[c])],
  callee <- [c \in CallIds |-> PlaceOf(c, Callee[c])],
  record <- [c \in CallIds |-> RecordOf(c)]

\* Whatever the order of packets and of the handlers' steps, every call has the
\* life that CallLife gives it: no client is drawn back into a call it left, no
\* callee rings for a call the proxy has no session for, and a Call-ID gets one
\* session, removed only after a party has left (sip_router.cpp:205-224,
\* 312-314, 436-458; sip_invite_handler.cpp:84-186).
LifeKept == Life!LifeSpec

(***************************************************************************)
(* Liveness.                                                                *)
(***************************************************************************)

\* When one party has left the call, the other leaves it too: its client is
\* told, whoever hung up, declined or was refused.
NoHalfCall ==
  \A c \in CallIds : \A u \in Party(c) :
    Left(c, u) ~> ~Active(c, Other(c, u))

\* Every INVITE reaches the callee's client or is refused: the caller never
\* waits for a call the proxy dropped (the callee's user may never answer).
DialedIsHeard ==
  \A c \in CallIds :
    Active(c, Caller[c]) ~> ~Active(c, Caller[c]) \/ <<c, Callee[c]>> \in joined

(***************************************************************************)
(* What the documentation, comments and log messages promise, and the code  *)
(* does not keep.                                                           *)
(***************************************************************************)

Quiet ==
  /\ wire = {} /\ outbox = {}
  /\ \A w \in Workers : pc[w] = "idle"

AllOver == \A u \in Users : active[u] = NoCall

InCall(c, u) == Active(c, u) /\ state[u] = "incall"

\* docs/architecture.md:270: the gauge is the current number of active calls;
\* it is zero when every call is over and nothing is left to handle.
GaugeSettles == Quiet /\ AllOver => activeCalls = 0

\* sip_router.cpp:477: a response that came from the caller goes to the callee,
\* that is, every response goes back to the client named in its From.
ResponsesGoBack ==
  \A w \in Workers :
    pc[w] = "send" /\ reply[w] = "none" /\ pkt[w].type \in ResponseTypes =>
      Relay(pkt[w], snap[w]).to = Home[pkt[w].from]

\* sip_invite_handler.cpp:25: a client that is in a call is busy; it can neither
\* place another nor let one in.
InCallMeansBusy == \A u \in Users : active[u] # NoCall => IsBusy(u)

\* A caller whose 200 was ACKed can hang up: its client is InCall, the state
\* handle_bye asks for, as long as the call lasts.
AnsweredCallerIsInCall ==
  \A c \in CallIds :
    Quiet /\ Active(c, Caller[c]) /\ InCall(c, Callee[c]) => InCall(c, Caller[c])

\* docs/interface-contracts.md:476: a call is ESTABLISHED once 200 OK and ACK
\* have been exchanged.
AnsweredIsEstablished ==
  \A c \in CallIds :
    Quiet /\ (\A u \in Party(c) : InCall(c, u)) =>
      registry[c] # 0 /\ sessions[c][registry[c]] = "ESTABLISHED"
=============================================================================
