--------------------------- MODULE CallLifeProof ---------------------------
(***************************************************************************)
(* The life of a call on a network that repeats no packet: which packets    *)
(* and messages can exist at which point of it, what the proxy has stored   *)
(* for it then, and that SipCalls implements CallLife.                      *)
(***************************************************************************)
EXTENDS SipCallsProof

USE PartiesAssumption, HomeAssumption, NoCallAssumption, PeerTrafficAssumption,
    TrafficAssumption, TransportAssumption, NoAddrAssumption, NoContextAssumption,
    NoPacketAssumption

\* The network repeats no packet: UDP may, TCP does not.
NoDuplicates == MaxDups = 0 \/ \A u \in Users : Transport[Home[u]] = "TCP"

Invitation(c) == Request("INVITE", c, Caller[c])
Inviting(w, c) == HandlesCall(w, c) /\ pkt[w].type = "INVITE"
InviteOut(c) == \E m \in outbox : m.type = "INVITE" /\ m.call = c
Dialed(c) == <<c, Caller[c]>> \in joined
Heard(c) == <<c, Callee[c]>> \in joined

\* The INVITE of a call exists once: on its way to the proxy, in the hands of
\* one worker, or on its way to the callee, who has not heard of the call yet.
Once(c) ==
  /\ Invitation(c) \in wire =>
       Dialed(c) /\ ~InviteOut(c) /\ ~Heard(c) /\ sessions[c] = <<>>
  /\ \A w \in Workers : Inviting(w, c) =>
       /\ Dialed(c) /\ Invitation(c) \notin wire /\ ~InviteOut(c) /\ ~Heard(c)
       /\ \A v \in Workers : Inviting(v, c) => v = w
       /\ pc[w] \in {"invLookup", "invCreate"} => sessions[c] = <<>>
  /\ InviteOut(c) => Dialed(c) /\ ~Heard(c)
  /\ Heard(c) => Dialed(c)
  /\ sessions[c] # <<>> => Dialed(c)

\* The steps of a worker that has read the context of its packet's call.
Past == {"find", "event", "ackFind", "ackCheck", "answer", "remove", "erase",
         "decCheck", "dec"}

\* w has removed the session of c and will erase its context.
Closes(w, c) ==
  /\ HandlesCall(w, c)
  /\ \/ pc[w] = "erase"
     \/ pc[w] \in {"decCheck", "dec"} /\ pkt[w].type = "486"

\* Contexts, and workers with one, exist only after the session was created,
\* and nobody but its creator knows a session whose context is not stored.
Record(c) ==
  /\ ctx[c] # NoContext => sessions[c] # <<>>
  /\ \A w \in Workers : HandlesCall(w, c) =>
       /\ pc[w] \in Past \cup {"invStore", "invEvent", "invCount"} => sessions[c] # <<>>
       /\ pc[w] = "invStore" =>
            /\ registry[c] # 0 /\ ctx[c] = NoContext
            /\ \A v \in Workers : HandlesCall(v, c) => pc[v] \notin Past
       /\ Closes(w, c) => registry[c] = 0
  /\ ctx[c] # NoContext => registry[c] # 0 \/ \E w \in Workers : Closes(w, c)
  /\ registry[c] # 0 /\ ctx[c] = NoContext =>
       \E w \in Workers : HandlesCall(w, c) /\ pc[w] = "invStore"

\* What tells that a party has left call c, or removes its session for it.
Ended(c) ==
  /\ \A p \in Abroad : p.call = c =>
       /\ p.type = "BYE" => Left(c, p.from)
       /\ p.type = "200_BYE" => \A u \in Party(c) : Left(c, u)
       /\ p.type = "486" => Left(c, Callee[c])
  /\ \A m \in outbox : m.call = c /\ m.type = "BYE" =>
       \A u \in Party(c) : m.to = Home[Other(c, u)] => Left(c, u)
  /\ \/ \E n \in 1..Len(sessions[c]) : sessions[c][n] = "TERMINATED"
     \/ sessions[c] # <<>> /\ registry[c] = 0
     \/ \E w \in Workers : HandlesCall(w, c) /\ pc[w] = "remove"
     => \E u \in Party(c) : Left(c, u)

Safe == Types /\ OriginInv

\* Without duplicates a packet that is taken is gone.
LEMMA TakenOnce ==
  ASSUME Types, NoDuplicates, NEW w \in Workers, NEW p \in wire, TakeStep(w, p)
  PROVE  Receive(w, p) /\ wire' = wire \ {p} /\ UNCHANGED peerVars
<1>1. \E u \in Users : p.addr = Home[u]
  BY DEF Types, CallsTypeOK, PeerTraffic, Registration, Request, Response
<1>2. ~ReceiveDuplicate(w, p)
  BY <1>1, BoundsAssumption DEF NoDuplicates, ReceiveDuplicate, Types, CallsTypeOK
<1> QED BY <1>2 DEF TakeStep, ReceiveFromWire

\* A worker changes the records of its own packet's call only, and there it
\* adds sessions, removes none, and applies events one at a time.
LEMMA RecordStep ==
  ASSUME Types, NEW w \in Workers, Proceed(w)
  PROVE  /\ \A c \in CallIds : c # pkt[w].call =>
              UNCHANGED <<sessions[c], registry[c], ctx[c]>>
         /\ \A c \in CallIds :
              /\ sessions[c] # <<>> => sessions'[c] # <<>>
              /\ sessions[c] = <<>> /\ sessions'[c] # <<>> => InvCreate(w)
              /\ registry'[c] = registry[c] \/ InvCreate(w) \/ RemoveCall(w)
              /\ \/ ctx'[c] = NoContext <=> ctx[c] = NoContext
                 \/ InvStore(w) \/ EraseContext(w)
<1> DEFINE c0 == pkt[w].call
<1>1. /\ sessions \in [CallIds -> Seq(CallState)] /\ registry \in [CallIds -> Nat]
      /\ ctx \in [CallIds -> Context \cup {NoContext}]
  BY DEF Types, TypeOK
<1>2. CASE InvCreate(w)
  <2>1. /\ ctx' = ctx
        /\ \A c \in CallIds : c # c0 => UNCHANGED <<sessions[c], registry[c]>>
        /\ sessions' = sessions \/ sessions' = [sessions EXCEPT ![c0] = Append(@, "INIT")]
    BY <1>1, <1>2 DEF InvCreate, CreateSession
  <2>2. \A q \in Seq(CallState) : Append(q, "INIT") # <<>>
    BY DEF CallState
  <2> QED BY <1>1, <1>2, <2>1, <2>2
<1>3. CASE InvEvent(w) \/ SessionEvent(w)
  <2>1. UNCHANGED <<registry, ctx>> /\ pc[w] \in {"invEvent", "event"} /\ ApplyEvent(w)
    BY <1>3 DEF InvEvent, SessionEvent
  <2>2. \A c \in CallIds : Len(sessions'[c]) = Len(sessions[c])
    BY <2>1, ApplyEventEffect DEF Types
  <2>3. \A c \in CallIds : c # c0 => sessions'[c] = sessions[c]
    BY <1>1, <2>1 DEF ApplyEvent
  <2>4. sessions' \in [CallIds -> Seq(CallState)]
    BY <2>1, ApplyEventEffect DEF Types
  <2>5. \A c \in CallIds : sessions[c] = <<>> <=> sessions'[c] = <<>>
    BY <1>1, <2>2, <2>4, EmptySeq
  <2> QED BY <2>1, <2>3, <2>5
<1>4. CASE RemoveCall(w)
  BY <1>1, <1>4 DEF RemoveCall
<1>5. CASE InvStore(w) \/ EraseContext(w)
  BY <1>1, <1>5 DEF InvStore, EraseContext
<1>6. CASE StoreAnswer(w)
  <2>1. /\ UNCHANGED <<sessions, registry>>
        /\ ctx' = [ctx EXCEPT ![c0] =
               IF @ = NoContext THEN @ ELSE [@ EXCEPT !.answered = TRUE]]
    BY <1>6 DEF StoreAnswer
  <2>2. \A s \in Context : [s EXCEPT !.answered = TRUE] # NoContext
    BY DEF Context
  <2> QED BY <1>1, <2>1, <2>2
<1>7. CASE UNCHANGED <<sessions, registry, ctx>>
  BY <1>7
<1> QED
  BY <1>2, <1>3, <1>4, <1>5, <1>6, <1>7 DEF Proceed, RegStore, RegCount, InvLookup,
     InvCount, CtxRead, FindCall, AckFind, AckCheck, DecCheck, Dec, Send, proxyVars

\* The INVITE of a call is one message.
LEMMA OneInvite ==
  ASSUME Safe, NEW m \in outbox, NEW n \in outbox,
         m.type = "INVITE", n.type = "INVITE", m.call = n.call
  PROVE  m = n
<1>1. m \in Message /\ n \in Message /\ RightMessage(m) /\ RightMessage(n)
  BY AbroadType DEF Safe, OriginInv, MessageInv
<1>2. m.to = n.to /\ m.over = n.over
  BY <1>1 DEF RightMessage
<1> QED BY <1>1, <1>2 DEF Message

\* A packet of type INVITE is the invitation of its call.
LEMMA InvitePacket ==
  ASSUME Safe, NEW p \in Abroad, p.type = "INVITE"
  PROVE  p = Invitation(p.call)
BY DEF Safe, OriginInv, PacketInv, Genuine, Invitation

LEMMA InvitationFields ==
  ASSUME NEW c \in CallIds
  PROVE  /\ Invitation(c).type = "INVITE" /\ Invitation(c).call = c
         /\ FirstStep(Invitation(c)) = "invLookup"
<1>1. /\ Invitation(c).type = "INVITE" /\ Invitation(c).call = c /\ Invitation(c).ok
      /\ Invitation(c).from # Invitation(c).to
  BY DEF Invitation, Request, Other
<1> QED BY <1>1 DEF FirstStep, ResponseTypes

\* A callee that hears of a call has taken the INVITE from the network.
LEMMA HearsOnce ==
  ASSUME Safe, PeerMoves, NEW c \in CallIds, Enters(c, Callee[c])
  PROVE  InviteOut(c) /\ ~InviteOut(c)'
<1>1. PICK m \in outbox : Handles(Callee[c], m) /\ m.type = "INVITE" /\ m.call = c
  BY DEF Enters
<1>2. outbox' = outbox \ {m}
  BY <1>1 DEF Handles, Deliver
<1> QED BY <1>1, <1>2, OneInvite DEF InviteOut

\* Who has left a call does not come back to it.
LEMMA LeftStays ==
  ASSUME Safe, [CallsNext]_allVars, NEW c \in CallIds, Once(c),
         NEW u \in Party(c), Left(c, u)
  PROVE  Left(c, u)'
<1>1. PeerMoves /\ u \in Users
  BY Moves DEF Safe, OriginInv, Party
<1>2. ~Enters(c, u)
  <2>1. CASE u = Caller[c]
    BY <2>1 DEF Left, Enters, Dial
  <2>2. CASE u = Callee[c]
    BY <1>1, <2>2, HearsOnce DEF Left, Once, Heard, Enters
  <2> QED BY <2>1, <2>2 DEF Party
<1> QED BY <1>1, <1>2 DEF PeerMoves, Left, Active

LEMMA OncePeer ==
  ASSUME Safe, PeerStep, NEW c \in CallIds, Once(c)
  PROVE  Once(c)'
<1>1. PeerMoves /\ outbox' \subseteq outbox /\ UNCHANGED <<sessions, pc, pkt>>
  BY RouterKept, Moves DEF Safe, OriginInv, PeerStep, CallsNext
<1>2. Invitation(c) \in wire' /\ Invitation(c) \notin wire =>
        Dial(c) /\ ~Dialed(c) /\ Dialed(c)'
  <2> SUFFICES ASSUME Invitation(c) \in wire' \ wire
               PROVE  Dial(c) /\ ~Dialed(c) /\ Dialed(c)'
    OBVIOUS
  <2>1. Occasion(Invitation(c))
    BY SentPacket DEF Safe, OriginInv
  <2>2. Dial(c)
    BY <2>1, InvitationFields DEF Occasion
  <2> QED BY <2>2 DEF Dial, Enter, Dialed
<1>3. Heard(c)' /\ ~Heard(c) => InviteOut(c) /\ ~InviteOut(c)'
  BY <1>1, HearsOnce DEF Heard, PeerMoves
<1>4. (Dialed(c) => Dialed(c)') /\ (Heard(c) => Heard(c)')
  BY <1>1 DEF PeerMoves, Dialed, Heard
<1>5. InviteOut(c)' => InviteOut(c)
  BY <1>1 DEF InviteOut
<1>6. \A w \in Workers : Inviting(w, c)' <=> Inviting(w, c)
  BY <1>1 DEF Inviting, HandlesCall, Busy
<1> QED BY <1>1, <1>2, <1>3, <1>4, <1>5, <1>6 DEF Once

LEMMA OnceTake ==
  ASSUME Safe, NoDuplicates, NEW w \in Workers, NEW p \in wire, TakeStep(w, p),
         NEW c \in CallIds, Once(c)
  PROVE  Once(c)'
<1>1. /\ Receive(w, p) /\ wire' = wire \ {p} /\ UNCHANGED joined
      /\ UNCHANGED <<sessions, outbox>>
  BY TakenOnce, ReceiveLocal DEF Safe, peerVars, Types, proxyVars
<1>2. /\ ~Busy(w) /\ pc'[w] = FirstStep(p)
      /\ \A v \in Workers : v # w => UNCHANGED <<pc[v], pkt[v]>>
      /\ pkt'[w] = IF FirstStep(p) = "idle" THEN NoPacket ELSE p
  BY <1>1, ReceiveLocal DEF Safe, Types
<1>3. UNCHANGED <<Dialed(c), Heard(c), InviteOut(c), sessions[c]>>
  BY <1>1 DEF Dialed, Heard, InviteOut
<1>4. \A v \in Workers : v # w => (Inviting(v, c)' <=> Inviting(v, c))
  BY <1>2 DEF Inviting, HandlesCall, Busy
<1>5. CASE p = Invitation(c)
  <2>1. ~Inviting(w, c) /\ pc'[w] = "invLookup" /\ Invitation(c) \notin wire'
    BY <1>1, <1>2, <1>5, InvitationFields DEF Inviting, HandlesCall
  <2> QED BY <1>2, <1>3, <1>4, <1>5, <2>1 DEF Once
<1>6. CASE p # Invitation(c)
  <2>1. ~Inviting(w, c)'
    <3>1. p \in Abroad
      BY DEF Abroad
    <3>2. p.type = "INVITE" => p.call # c
      BY <1>6, <3>1, InvitePacket
    <3> QED BY <1>2, <3>2 DEF Inviting, HandlesCall, Busy
  <2>2. Invitation(c) \in wire' <=> Invitation(c) \in wire
    BY <1>1, <1>6
  <2> QED BY <1>2, <1>3, <1>4, <2>1, <2>2 DEF Once
<1> QED BY <1>5, <1>6

LEMMA OnceWork ==
  ASSUME Safe, NEW w \in Workers, WorkerStep(w), NEW c \in CallIds, Once(c)
  PROVE  Once(c)'
<1>1. /\ Proceed(w) /\ UNCHANGED <<wire, joined>>
      /\ UNCHANGED <<Dialed(c), Heard(c)>>
  BY DEF WorkerStep, peerVars, netVars, Dialed, Heard
<1>2. /\ Busy(w)
      /\ \A v \in Workers : v # w => UNCHANGED <<pc[v], pkt[v]>>
      /\ (Busy(w)' /\ pkt'[w] = pkt[w]) \/ ~Busy(w)'
  BY <1>1, ProceedLocal DEF Safe, Types
<1>3. \A v \in Workers : Inviting(v, c)' => Inviting(v, c)
  BY <1>2 DEF Inviting, HandlesCall, Busy
<1>4. InviteOut(c)' /\ ~InviteOut(c) => Inviting(w, c) /\ ~Inviting(w, c)'
  <2> SUFFICES ASSUME InviteOut(c)', ~InviteOut(c)
               PROVE  Inviting(w, c) /\ ~Inviting(w, c)'
    OBVIOUS
  <2>1. PICK m \in outbox' \ outbox : m.type = "INVITE" /\ m.call = c
    BY DEF InviteOut
  <2>2. [CallsNext]_allVars
    BY DEF CallsNext
  <2>3. PICK v \in Workers :
             /\ WorkerStep(v) /\ pc[v] = "send" /\ ~Busy(v)'
             /\ m = IF reply[v] = "none" THEN Relay(pkt[v], snap[v])
                  ELSE LocalResponse(pkt[v], reply[v])
    BY <2>1, <2>2, NewMessage DEF Safe
  <2>4. Inviting(v, c)
    BY <2>1, <2>3, SentMessage
       DEF Safe, OriginInv, LocalStatus, Inviting, HandlesCall, Busy
  <2>5. v = w
    BY <1>2, <2>3 DEF Busy
  <2> QED BY <2>3, <2>4, <2>5 DEF Inviting, HandlesCall
<1>5. sessions[c] = <<>> /\ sessions'[c] # <<>> =>
        Inviting(w, c) /\ pc'[w] \notin {"invLookup", "invCreate"}
  <2> SUFFICES ASSUME sessions[c] = <<>>, sessions'[c] # <<>>
               PROVE  Inviting(w, c) /\ pc'[w] \notin {"invLookup", "invCreate"}
    OBVIOUS
  <2>1. InvCreate(w) /\ pkt[w].call = c
    BY <1>1, RecordStep DEF Safe, Types
  <2>2. pkt[w].type = "INVITE"
    BY <2>1 DEF InvCreate, Safe, Types, StepInv, InviteSteps
  <2> QED BY <1>2, <2>1, <2>2
          DEF Inviting, HandlesCall, InvCreate, CreateSession, Respond, Goto,
              Safe, Types, TypeOK
<1>6. sessions[c] # <<>> => sessions'[c] # <<>>
  BY <1>1, RecordStep DEF Safe
<1>7. Inviting(w, c)' /\ pc'[w] \in {"invLookup", "invCreate"} =>
        pc[w] \in {"invLookup", "invCreate"}
  BY <1>1, <1>2 DEF Safe, Types, TypeOK, Goto, Proceed, RegStore, RegCount, InvLookup,
     InvCreate, CreateSession, InvStore, InvEvent, InvCount, CtxRead, FindCall,
     SessionEvent, AckFind, AckCheck, StoreAnswer, RemoveCall, EraseContext, DecCheck,
     Dec, Send, Respond, Finish, AfterEvent, AfterDec
<1> QED BY <1>1, <1>2, <1>3, <1>4, <1>5, <1>6, <1>7 DEF Once

LEMMA OnceNext ==
  ASSUME Safe, NoDuplicates, [CallsNext]_allVars, NEW c \in CallIds, Once(c)
  PROVE  Once(c)'
<1>1. CASE LossStep \/ UNCHANGED allVars
  <2>1. /\ outbox' \subseteq outbox /\ wire' \subseteq wire
        /\ UNCHANGED <<sessions, pc, pkt, joined>>
    BY <1>1, RouterKept, PeersKept DEF Safe, Types
  <2> QED BY <2>1 DEF Once, InviteOut, Inviting, HandlesCall, Busy, Dialed, Heard
<1> QED BY <1>1, OncePeer, OnceTake, OnceWork, StepKinds

(***************************************************************************)
(* The records of a call.                                                   *)
(***************************************************************************)

\* Only the steps of workers that handle a call touch its records.
LEMMA RecordOther ==
  ASSUME Safe, [CallsNext]_allVars, NEW c \in CallIds,
         ~ \E w \in Workers : WorkerStep(w) /\ pkt[w].call = c
  PROVE  /\ UNCHANGED <<sessions[c], registry[c], ctx[c]>>
         /\ \A w \in Workers :
              \/ UNCHANGED <<pc[w], pkt[w], Busy(w)>>
              \/ ~HandlesCall(w, c) /\ ~HandlesCall(w, c)'
              \/ ~Busy(w) /\ pc'[w] \in {"idle", "regStore", "invLookup", "ctxRead", "send"}
<1>1. CASE PeerStep \/ LossStep \/ UNCHANGED allVars
  BY <1>1, RouterKept DEF Busy
<1>2. ASSUME NEW w \in Workers, WorkerStep(w)
      PROVE  /\ UNCHANGED <<sessions[c], registry[c], ctx[c]>>
             /\ \A v \in Workers :
                  \/ UNCHANGED <<pc[v], pkt[v], Busy(v)>>
                  \/ ~HandlesCall(v, c) /\ ~HandlesCall(v, c)'
  <2>1. Proceed(w) /\ pkt[w].call # c
    BY <1>2 DEF WorkerStep
  <2>2. /\ \A v \in Workers : v # w => UNCHANGED <<pc[v], pkt[v]>>
        /\ pkt'[w] = pkt[w] \/ ~Busy(w)'
    BY <2>1, ProceedLocal DEF Safe, Types
  <2> QED BY <2>1, <2>2, RecordStep DEF Safe, HandlesCall, Busy
<1>3. ASSUME NEW w \in Workers, NEW p \in wire, TakeStep(w, p)
      PROVE  /\ UNCHANGED <<sessions[c], registry[c], ctx[c]>>
             /\ \A v \in Workers :
                  \/ UNCHANGED <<pc[v], pkt[v], Busy(v)>>
                  \/ ~Busy(v) /\ pc'[v] \in {"idle", "regStore", "invLookup", "ctxRead", "send"}
  <2>1. Receive(w, p)
    BY <1>3 DEF TakeStep, ReceiveFromWire, ReceiveDuplicate
  <2>2. /\ ~Busy(w) /\ pc'[w] = FirstStep(p)
        /\ UNCHANGED <<sessions, registry, ctx>>
        /\ \A v \in Workers : v # w => UNCHANGED <<pc[v], pkt[v]>>
    BY <2>1, ReceiveLocal DEF Safe, Types, proxyVars
  <2>3. FirstStep(p) \in {"idle", "regStore", "invLookup", "ctxRead", "send"}
    BY DEF FirstStep
  <2> QED BY <2>2, <2>3 DEF Busy
<1> QED BY <1>1, <1>2, <1>3, StepKinds

LEMMA RecordElsewhere ==
  ASSUME Safe, [CallsNext]_allVars, NEW c \in CallIds, Record(c),
         ~ \E w \in Workers : WorkerStep(w) /\ pkt[w].call = c
  PROVE  Record(c)'
<1> DEFINE Late == Past \cup {"invStore", "invEvent", "invCount"}
<1>1. UNCHANGED <<sessions[c], registry[c], ctx[c]>>
  BY RecordOther
<1>2. ASSUME NEW w \in Workers
      PROVE  /\ HandlesCall(w, c)' /\ pc'[w] \in Late => HandlesCall(w, c) /\ pc'[w] = pc[w]
             /\ HandlesCall(w, c) /\ pc[w] \in Late => HandlesCall(w, c)' /\ pc'[w] = pc[w]
             /\ Closes(w, c)' <=> Closes(w, c)
  <2>1. CASE UNCHANGED <<pc[w], pkt[w], Busy(w)>>
    BY <2>1 DEF HandlesCall, Closes
  <2>2. CASE ~HandlesCall(w, c) /\ ~HandlesCall(w, c)'
    BY <2>2 DEF Closes
  <2>3. CASE ~Busy(w) /\ pc'[w] \in {"idle", "regStore", "invLookup", "ctxRead", "send"}
    BY <2>3 DEF HandlesCall, Closes, Past
  <2> QED BY <2>1, <2>2, <2>3, RecordOther
<1>3. ASSUME NEW w \in Workers, HandlesCall(w, c)'
      PROVE  /\ pc'[w] \in Late => sessions'[c] # <<>>
             /\ pc'[w] = "invStore" =>
                  /\ registry'[c] # 0 /\ ctx'[c] = NoContext
                  /\ \A v \in Workers : HandlesCall(v, c)' => pc'[v] \notin Past
             /\ Closes(w, c)' => registry'[c] = 0
  <2>1. pc'[w] \in Late => sessions'[c] # <<>>
    BY <1>1, <1>2, <1>3 DEF Record
  <2>2. Closes(w, c)' => registry'[c] = 0
    BY <1>1, <1>2 DEF Record, Closes
  <2>3. ASSUME pc'[w] = "invStore"
        PROVE  /\ registry'[c] # 0 /\ ctx'[c] = NoContext
               /\ \A v \in Workers : HandlesCall(v, c)' => pc'[v] \notin Past
    <3>1. HandlesCall(w, c) /\ pc[w] = "invStore"
      BY <1>2, <1>3, <2>3
    <3>2. /\ registry[c] # 0 /\ ctx[c] = NoContext
          /\ \A v \in Workers : HandlesCall(v, c) => pc[v] \notin Past
      BY <3>1 DEF Record
    <3> QED BY <1>1, <1>2, <3>2
  <2> QED BY <2>1, <2>2, <2>3
<1>4. (\E w \in Workers : Closes(w, c)') <=> (\E w \in Workers : Closes(w, c))
  BY <1>2
<1>5. (\E w \in Workers : HandlesCall(w, c) /\ pc[w] = "invStore") =>
        \E w \in Workers : HandlesCall(w, c)' /\ pc'[w] = "invStore"
  BY <1>2
<1>6. ctx'[c] # NoContext => sessions'[c] # <<>>
  BY <1>1 DEF Record
<1> HIDE DEF Late
<1> QED BY <1>1, <1>3, <1>4, <1>5, <1>6 DEF Record, Late

LEMMA RecordWork ==
  ASSUME Safe, NEW w \in Workers, WorkerStep(w), NEW c \in CallIds, pkt[w].call = c,
         Once(c), Record(c)
  PROVE  Record(c)'
<1>1. Proceed(w) /\ HandlesCall(w, c)
  BY ProceedLocal DEF Safe, Types, WorkerStep, HandlesCall
<1>2. \A v \in Workers : v # w => UNCHANGED <<pc[v], pkt[v], HandlesCall(v, c), Closes(v, c)>>
  <2>1. \A v \in Workers : v # w => UNCHANGED <<pc[v], pkt[v]>>
    BY <1>1, ProceedLocal DEF Safe, Types
  <2> QED BY <2>1 DEF HandlesCall, Closes, Busy
<1>3. \/ HandlesCall(w, c)' /\ pkt'[w] = pkt[w]
      \/ ~Busy(w)' /\ ~HandlesCall(w, c)'
  BY <1>1, ProceedLocal DEF Safe, Types, HandlesCall
<1>4. /\ sessions \in [CallIds -> Seq(CallState)] /\ registry \in [CallIds -> Nat]
      /\ ctx \in [CallIds -> Context \cup {NoContext}] /\ pc \in [Workers -> Steps]
      /\ pkt[w] \in Packet
  BY <1>1 DEF Safe, Types, TypeOK, HandlesCall
<1>5. CASE InvCreate(w)
  <2>1. Inviting(w, c)
    BY <1>1, <1>5 DEF Inviting, InvCreate, Safe, Types, StepInv, InviteSteps
  <2>2. sessions[c] = <<>>
    BY <1>5, <2>1 DEF Once, InvCreate
  <2>3. /\ ctx[c] = NoContext
        /\ \A v \in Workers : HandlesCall(v, c) =>
             pc[v] \notin Past \cup {"invStore", "invEvent", "invCount"}
        /\ \A v \in Workers : ~Closes(v, c)
    BY <2>2 DEF Record, Closes, Past
  <2>4. registry[c] = 0
    BY <2>3 DEF Record
  <2>5. /\ registry'[c] # 0 /\ ctx'[c] = NoContext /\ pc'[w] = "invStore" /\ pkt' = pkt
        /\ sessions'[c] # <<>>
    <3>1. /\ registry'[c] = Len(sessions[c]) + 1 /\ pc'[w] = "invStore" /\ UNCHANGED <<ctx, pkt>>
          /\ sessions'[c] = Append(sessions[c], "INIT")
      BY <1>4, <1>5, <2>4 DEF InvCreate, CreateSession, Goto
    <3> QED BY <2>2, <2>3, <3>1
  <2>6. HandlesCall(w, c)'
    BY <1>3, <2>5 DEF Busy
  <2>7. ~Closes(w, c)'
    BY <2>5 DEF Closes
  <2>8. \A v \in Workers : HandlesCall(v, c)' => pc'[v] \notin Past
    BY <1>2, <2>3, <2>5 DEF Past
  <2> QED BY <1>2, <2>3, <2>5, <2>6, <2>7, <2>8 DEF Record
<1>6. CASE InvStore(w)
  <2>1. Inviting(w, c)
    BY <1>1, <1>6 DEF Inviting, InvStore, Safe, Types, StepInv, InviteSteps
  <2>2. \A v \in Workers : HandlesCall(v, c) /\ pc[v] = "invStore" => v = w
    BY <2>1 DEF Once, Inviting, Safe, Types, StepInv, InviteSteps
  <2>3. /\ UNCHANGED <<sessions, registry>> /\ ctx'[c] # NoContext /\ pc'[w] = "invEvent"
    BY <1>4, <1>6 DEF InvStore, Goto, Safe, Types, TypeOK, UsesSnap
  <2>4. sessions[c] # <<>> /\ registry[c] # 0
    BY <1>1, <1>6 DEF Record, InvStore
  <2>5. ~Closes(w, c)' /\ ~Closes(w, c)
    BY <1>6, <2>3 DEF Closes, InvStore
  <2> QED BY <1>2, <2>2, <2>3, <2>4, <2>5 DEF Record
<1>7. CASE EraseContext(w)
  <2>1. Closes(w, c) /\ registry[c] = 0 /\ pc[w] \in Past /\ sessions[c] # <<>>
    BY <1>1, <1>7 DEF EraseContext, Closes, Record, Past
  <2>2. /\ UNCHANGED <<sessions, registry>> /\ ctx'[c] = NoContext
        /\ pc'[w] = IF pkt[w].type = "200_BYE" THEN "decCheck" ELSE "send"
    BY <1>4, <1>7 DEF EraseContext, Goto
  <2>3. ~Closes(w, c)'
    BY <1>3, <2>2 DEF Closes, HandlesCall
  <2>4. \A v \in Workers : HandlesCall(v, c) => pc[v] # "invStore"
    BY <1>1, <2>1 DEF Record
  <2> QED BY <1>2, <2>1, <2>2, <2>3, <2>4 DEF Record
<1>8. CASE RemoveCall(w)
  <2>1. pc[w] \in Past /\ sessions[c] # <<>>
    BY <1>1, <1>8 DEF RemoveCall, Record, Past
  <2>2. /\ UNCHANGED <<sessions, ctx, pkt>> /\ registry'[c] = 0
        /\ pc'[w] = IF pkt[w].type = "486" THEN "decCheck" ELSE "erase"
    BY <1>4, <1>8 DEF RemoveCall, Goto
  <2>3. Closes(w, c)'
    BY <1>1, <2>2 DEF Closes, HandlesCall, Busy
  <2>4. \A v \in Workers : HandlesCall(v, c) => pc[v] # "invStore"
    BY <1>1, <2>1 DEF Record
  <2> QED BY <1>2, <2>1, <2>2, <2>3, <2>4 DEF Record
<1>9. CASE ~InvCreate(w) /\ ~InvStore(w) /\ ~EraseContext(w) /\ ~RemoveCall(w)
  <2>1. /\ registry'[c] = registry[c] /\ (ctx'[c] = NoContext <=> ctx[c] = NoContext)
        /\ sessions'[c] = <<>> <=> sessions[c] = <<>>
    BY <1>1, <1>9, RecordStep DEF Safe
  <2>2. /\ pc'[w] # "invStore" /\ pc[w] # "invStore"
        /\ pc'[w] \in {"invEvent", "invCount"} => pc[w] = "invEvent"
        /\ pc'[w] \in Past => pc[w] \in Past \/ (pc[w] = "ctxRead" /\ ctx[c] # NoContext)
        /\ Closes(w, c)' <=> Closes(w, c)
    <3>1. CASE DecCheck(w) \/ Dec(w)
      <4>1. /\ pc[w] \in {"decCheck", "dec"} /\ pkt' = pkt
            /\ pc'[w] \in {"dec", AfterDec(pkt[w])}
            /\ pc[w] = "dec" => pc'[w] = AfterDec(pkt[w])
        BY <1>4, <3>1 DEF DecCheck, Dec, Goto
      <4> QED BY <1>1, <1>3, <4>1 DEF Closes, AfterDec, Past, HandlesCall, Busy
    <3>2. CASE ~DecCheck(w) /\ ~Dec(w)
      <4>1. /\ pc'[w] # "invStore" /\ pc[w] # "invStore"
            /\ pc'[w] \in {"invEvent", "invCount"} => pc[w] = "invEvent"
            /\ pc'[w] \in Past => pc[w] \in Past \/ (pc[w] = "ctxRead" /\ ctx[c] # NoContext)
            /\ pc[w] \notin {"erase", "decCheck", "dec"} /\ pc'[w] # "erase"
            /\ pc'[w] \in {"decCheck", "dec"} => pkt[w].type = "603"
        BY <1>1, <1>4, <1>9, <3>2 DEF Proceed, RegStore, RegCount, InvLookup,
           InvEvent, InvCount, CtxRead, FindCall, SessionEvent, AckFind, AckCheck,
           StoreAnswer, Send, Respond, Finish, Goto, AfterEvent, Past
      <4> QED BY <1>3, <4>1 DEF Closes, HandlesCall
    <3> QED BY <3>1, <3>2
  <2> QED BY <1>1, <1>2, <1>3, <2>1, <2>2 DEF Record
<1> QED BY <1>5, <1>6, <1>7, <1>8, <1>9

LEMMA RecordNext ==
  ASSUME Safe, [CallsNext]_allVars, NEW c \in CallIds, Once(c), Record(c)
  PROVE  Record(c)'
BY RecordElsewhere, RecordWork

(***************************************************************************)
(* Who has left a call.                                                     *)
(***************************************************************************)

\* The three parts of Ended.
PacketsTell(c) ==
  \A p \in Abroad : p.call = c =>
    /\ p.type = "BYE" => Left(c, p.from)
    /\ p.type = "200_BYE" => \A u \in Party(c) : Left(c, u)
    /\ p.type = "486" => Left(c, Callee[c])
MessagesTell(c) ==
  \A m \in outbox : m.call = c /\ m.type = "BYE" =>
    \A u \in Party(c) : m.to = Home[Other(c, u)] => Left(c, u)
Closed(c) ==
  \/ \E n \in 1..Len(sessions[c]) : sessions[c][n] = "TERMINATED"
  \/ sessions[c] # <<>> /\ registry[c] = 0
  \/ \E w \in Workers : HandlesCall(w, c) /\ pc[w] = "remove"

LEMMA EndedParts ==
  ASSUME NEW c \in CallIds
  PROVE  Ended(c) <=> /\ PacketsTell(c) /\ MessagesTell(c)
                      /\ Closed(c) => \E u \in Party(c) : Left(c, u)
BY DEF Ended, PacketsTell, MessagesTell, Closed

LEMMA Parties ==
  ASSUME NEW c \in CallIds, NEW u \in Party(c)
  PROVE  /\ u \in Users /\ Other(c, u) \in Party(c) /\ Other(c, u) # u
         /\ Other(c, Other(c, u)) = u
         /\ \A v \in Party(c) : v # u => v = Other(c, u)
         /\ \A v \in Party(c) : Home[v] = Home[u] => v = u
         /\ \A v \in Party(c) : Home[Other(c, v)] = Home[Other(c, u)] => v = u
BY DEF Party, Other

\* A client that ends its call has left it.
LEMMA LeavesNow ==
  ASSUME Safe, NEW c \in CallIds, NEW u \in Users, Active(c, u), Terminate(u),
         joined' = joined
  PROVE  Left(c, u)'
BY DEF Safe, OriginInv, PeerInv, Types, CallsTypeOK, Terminate, Active, Left

LEMMA PacketsTellNext ==
  ASSUME Safe, [CallsNext]_allVars, NEW c \in CallIds, Once(c), Ended(c)
  PROVE  PacketsTell(c)'
<1> SUFFICES ASSUME NEW p \in Abroad', p.call = c
             PROVE  /\ p.type = "BYE" => Left(c, p.from)'
                    /\ p.type = "200_BYE" => \A u \in Party(c) : Left(c, u)'
                    /\ p.type = "486" => Left(c, Callee[c])'
  BY DEF PacketsTell
<1>1. CASE p \in Abroad
  <2>1. p.type = "BYE" => p.from \in Party(c)
    BY <1>1 DEF Safe, OriginInv, PacketInv, Genuine
  <2>2. Callee[c] \in Party(c)
    BY DEF Party
  <2> QED BY <1>1, <2>1, <2>2, LeftStays DEF Ended
<1>2. CASE p \notin Abroad
  <2>1. p \in wire' \ wire /\ PeerStep
    BY <1>2, AbroadStep DEF Safe, Types
  <2>2. Occasion(p) /\ PeerMoves
    BY <2>1, SentPacket, Moves DEF Safe, OriginInv
  <2>3. CASE p.type = "BYE"
    <3>1. HangUp(p.from) /\ active[p.from] = c /\ p.from \in Party(c)
      BY <2>2, <2>3 DEF Occasion, Genuine
    <3>2. p.from \in Users
      BY <3>1, Parties
    <3> QED BY <2>3, <3>1, <3>2, LeavesNow DEF HangUp, Active
  <2>4. CASE p.type = "200_BYE"
    <3>1. PICK m \in outbox, u \in Party(c) :
               /\ Handles(u, m) /\ m.type = "BYE" /\ m.call = c
               /\ ReceiveBye(m, u) /\ Active(c, u)
      BY <2>2, <2>4 DEF Occasion
    <3>2. Left(c, u)'
      <4>1. Terminate(u) /\ joined' = joined
        BY <3>1 DEF ReceiveBye
      <4>2. u \in Users
        BY Parties
      <4> QED BY <3>1, <4>1, <4>2, LeavesNow
    <3>3. ASSUME NEW v \in Party(c), v # u PROVE Left(c, v)'
      <4>1. m.to = Home[Other(c, v)]
        BY <3>1, <3>3, Parties DEF Handles
      <4> QED BY <3>1, <4>1, LeftStays DEF Ended
    <3> QED BY <2>4, <3>2, <3>3
  <2>5. CASE p.type = "486"
    <3>1. PICK m \in outbox :
               /\ m.type = "INVITE" /\ m.call = c
               /\ ReceiveInvite(m, Callee[c], TRUE)
      BY <2>2, <2>5 DEF Occasion
    <3>2. ~Active(c, Callee[c])
      BY <3>1 DEF Once, InviteOut, Heard, Safe, OriginInv, PeerInv
    <3>3. joined' = joined \cup {<<c, Callee[c]>>} /\ active' = active
      BY <3>1 DEF ReceiveInvite
    <3> QED BY <2>5, <3>2, <3>3 DEF Left, Active
  <2> QED BY <2>3, <2>4, <2>5
<1> QED BY <1>1, <1>2

LEMMA MessagesTellNext ==
  ASSUME Safe, [CallsNext]_allVars, NEW c \in CallIds, Once(c), Ended(c)
  PROVE  MessagesTell(c)'
<1> SUFFICES ASSUME NEW m \in outbox', m.call = c, m.type = "BYE",
                    NEW u \in Party(c), m.to = Home[Other(c, u)]
             PROVE  Left(c, u)'
  BY DEF MessagesTell
<1>1. CASE m \in outbox
  BY <1>1, LeftStays DEF Ended
<1>2. CASE m \notin outbox
  <2>1. PICK w \in Workers :
             /\ pc[w] = "send"
             /\ m = IF reply[w] = "none" THEN Relay(pkt[w], snap[w])
                    ELSE LocalResponse(pkt[w], reply[w])
    BY <1>2, NewMessage DEF Safe
  <2>2. /\ pkt[w].call = c /\ pkt[w].type = "BYE"
        /\ m.to = Home[Other(c, pkt[w].from)]
    BY <2>1, SentMessage DEF Safe, OriginInv, LocalStatus
  <2>3. pkt[w] \in Abroad
    BY <2>1 DEF Abroad, Busy
  <2>4. pkt[w].from \in Party(c) /\ Left(c, pkt[w].from)
    BY <2>2, <2>3 DEF Ended, Safe, OriginInv, PacketInv, Genuine
  <2>5. u = pkt[w].from
    <3> DEFINE v == pkt[w].from
    <3>1. v \in Party(c) /\ Home[Other(c, v)] = Home[Other(c, u)]
      BY <2>2, <2>4
    <3> HIDE DEF v
    <3>2. v = u
      BY <3>1, Parties
    <3> QED BY <3>2 DEF v
  <2> QED BY <2>4, <2>5, LeftStays
<1> QED BY <1>1, <1>2

\* Only a BYE, its 200 or a 486 that found the call's context closes the call.
LEMMA ClosesHow ==
  ASSUME Safe, NEW w \in Workers, WorkerStep(w), NEW c \in CallIds, pkt[w].call = c,
         Closed(c)'
  PROVE  \/ Closed(c)
         \/ pkt[w].type \in {"BYE", "200_BYE", "486"} /\ pc[w] \in {"find", "event"}
<1>1. /\ Proceed(w) /\ HandlesCall(w, c)
      /\ \A v \in Workers : v # w => UNCHANGED <<pc[v], pkt[v]>>
  BY ProceedLocal DEF Safe, Types, WorkerStep, HandlesCall
<1>2. /\ sessions \in [CallIds -> Seq(CallState)] /\ registry \in [CallIds -> Nat]
      /\ pc \in [Workers -> Steps]
  BY DEF Safe, Types, TypeOK
<1>3. CASE \E n \in 1..Len(sessions'[c]) : sessions'[c][n] = "TERMINATED"
  <2>1. PICK n \in 1..Len(sessions'[c]) : sessions'[c][n] = "TERMINATED"
    BY <1>3
  <2>2. CASE InvCreate(w)
    <3>1. sessions'[c] \in {sessions[c], Append(sessions[c], "INIT")}
      BY <1>2, <2>2 DEF InvCreate, CreateSession
    <3>2. n \in 1..Len(sessions[c]) /\ sessions[c][n] = "TERMINATED"
      BY <1>2, <2>1, <3>1
    <3> QED BY <3>2 DEF Closed
  <2>3. CASE InvEvent(w) \/ SessionEvent(w)
    <3>1. ApplyEvent(w) /\ pc[w] \in {"invEvent", "event"}
      BY <2>3 DEF InvEvent, SessionEvent
    <3>2. /\ n \in 1..Len(sessions[c])
          /\ sessions'[c][n] \in {sessions[c][n], HandleEvent(sessions[c][n], pkt[w].type)}
      BY <2>1, <3>1, ApplyEventEffect DEF Safe, Types
    <3>3. sessions[c][n] = "TERMINATED" \/ pkt[w].type = "BYE"
      BY <2>1, <3>2 DEF HandleEvent
    <3>4. pc[w] = "invEvent" => pkt[w].type = "INVITE"
      BY DEF Safe, Types, StepInv, InviteSteps
    <3> QED BY <3>1, <3>2, <3>3, <3>4 DEF Closed
  <2>4. CASE ~InvCreate(w) /\ ~InvEvent(w) /\ ~SessionEvent(w)
    <3>1. sessions' = sessions
      BY <1>1, <2>4 DEF Proceed, RegStore, RegCount, InvLookup, InvStore, InvCount,
         CtxRead, FindCall, AckFind, AckCheck, StoreAnswer, RemoveCall, EraseContext,
         DecCheck, Dec, Send, proxyVars
    <3> QED BY <2>1, <3>1 DEF Closed
  <2> QED BY <2>2, <2>3, <2>4
<1>4. CASE sessions'[c] # <<>> /\ registry'[c] = 0
  <2>1. CASE RemoveCall(w)
    BY <1>1, <2>1 DEF RemoveCall, Closed
  <2>2. CASE InvCreate(w)
    <3>1. CASE registry[c] # 0
      BY <1>4, <2>2, <3>1 DEF InvCreate
    <3>2. CASE registry[c] = 0
      <4>1. registry'[c] = Len(sessions[c]) + 1
        BY <1>2, <2>2, <3>2 DEF InvCreate, CreateSession
      <4>2. Len(sessions[c]) \in Nat
        BY <1>2
      <4> QED BY <1>4, <4>1, <4>2
    <3> QED BY <3>1, <3>2
  <2>3. CASE ~RemoveCall(w) /\ ~InvCreate(w)
    BY <1>1, <1>4, <2>3, RecordStep DEF Safe, Closed
  <2> QED BY <2>1, <2>2, <2>3
<1>5. CASE \E v \in Workers : HandlesCall(v, c)' /\ pc'[v] = "remove"
  <2>1. PICK v \in Workers : HandlesCall(v, c)' /\ pc'[v] = "remove"
    BY <1>5
  <2>2. CASE v # w
    BY <1>1, <2>1, <2>2 DEF Closed, HandlesCall, Busy
  <2>3. CASE v = w
    <3>1. \/ AckCheck(w) /\ sessions[c][ptr[w]] = "TERMINATED"
          \/ pc[w] \in {"find", "event"} /\ AfterEvent(pkt[w]) = "remove"
      BY <1>1, <1>2, <2>1, <2>3 DEF Proceed, RegStore, RegCount, InvLookup, InvCreate,
         CreateSession, InvStore, InvEvent, InvCount, CtxRead, FindCall, SessionEvent,
         AckFind, AckCheck, StoreAnswer, RemoveCall, EraseContext, DecCheck, Dec, Send,
         Respond, Finish, Goto, AfterDec
    <3>2. AckCheck(w) => ptr[w] \in 1..Len(sessions[c])
      BY DEF AckCheck, Safe, Types, TypeOK
    <3> QED BY <3>1, <3>2 DEF AfterEvent, Closed
  <2> QED BY <2>2, <2>3
<1> QED BY <1>3, <1>4, <1>5 DEF Closed

\* A worker that closes call c knows that a party has left it.
LEMMA ClosedWork ==
  ASSUME Safe, NEW w \in Workers, WorkerStep(w), NEW c \in CallIds, pkt[w].call = c,
         Ended(c), Closed(c)'
  PROVE  \E u \in Party(c) : Left(c, u)
<1>1. pkt[w] \in Abroad
  BY ProceedLocal DEF Safe, Types, WorkerStep, Abroad
<1>2. pkt[w].type \in {"BYE", "200_BYE", "486"} => \E u \in Party(c) : Left(c, u)
  BY <1>1 DEF Ended, Safe, OriginInv, PacketInv, Genuine, Party
<1> QED BY <1>2, ClosesHow, EndedParts

LEMMA EndedNext ==
  ASSUME Safe, [CallsNext]_allVars, NEW c \in CallIds, Once(c), Ended(c)
  PROVE  Ended(c)'
<1>1. Closed(c)' => \E u \in Party(c) : Left(c, u)
  <2>1. ASSUME NEW w \in Workers, WorkerStep(w), pkt[w].call = c, Closed(c)'
        PROVE  \E u \in Party(c) : Left(c, u)
    BY <2>1, ClosedWork
  <2>2. ASSUME ~ \E w \in Workers : WorkerStep(w) /\ pkt[w].call = c, Closed(c)'
        PROVE  Closed(c)
    <3>1. /\ UNCHANGED <<sessions[c], registry[c]>>
          /\ \A w \in Workers : HandlesCall(w, c)' /\ pc'[w] = "remove" =>
               HandlesCall(w, c) /\ pc[w] = "remove"
      BY <2>2, RecordOther DEF HandlesCall
    <3> QED BY <2>2, <3>1 DEF Closed
  <2> QED BY <2>1, <2>2, EndedParts
<1>2. (\E u \in Party(c) : Left(c, u)) => \E u \in Party(c) : Left(c, u)'
  BY LeftStays
<1>3. Ended(c)' <=> /\ PacketsTell(c)' /\ MessagesTell(c)'
                    /\ Closed(c)' => \E u \in Party(c) : Left(c, u)'
  BY DEF Ended, PacketsTell, MessagesTell, Closed
<1> QED BY <1>1, <1>2, <1>3, PacketsTellNext, MessagesTellNext

(***************************************************************************)
(* The theorems.                                                            *)
(***************************************************************************)

TraceInv == Safe /\ \A c \in CallIds : Once(c) /\ Record(c) /\ Ended(c)

LEMMA TraceInitial == CallsInit => TraceInv
<1> SUFFICES ASSUME CallsInit PROVE TraceInv
  OBVIOUS
<1>1. /\ Safe /\ Abroad = {} /\ outbox = {} /\ joined = {}
      /\ \A w \in Workers : ~Busy(w)
  BY CallsInitial DEF Safe
<1>2. \A c \in CallIds : sessions[c] = <<>> /\ registry[c] = 0 /\ ctx[c] = NoContext
  BY DEF CallsInit, Init
<1>3. wire = {}
  BY DEF CallsInit
<1>4. ASSUME NEW c \in CallIds PROVE Once(c)
  BY <1>1, <1>2, <1>3 DEF Once, InviteOut, Heard, Dialed, Inviting, HandlesCall
<1>5. ASSUME NEW c \in CallIds PROVE Record(c)
  BY <1>1, <1>2 DEF Record, HandlesCall
<1>6. ASSUME NEW c \in CallIds PROVE Ended(c)
  <2>1. Len(sessions[c]) = 0
    BY <1>2
  <2>2. ~Closed(c)
    BY <1>1, <1>2, <2>1 DEF Closed, HandlesCall
  <2> QED BY <1>1, <2>2, EndedParts DEF PacketsTell, MessagesTell
<1> QED BY <1>1, <1>4, <1>5, <1>6 DEF TraceInv

LEMMA TraceNext ==
  ASSUME NoDuplicates PROVE TraceInv /\ [CallsNext]_allVars => TraceInv'
<1> SUFFICES ASSUME TraceInv, [CallsNext]_allVars PROVE TraceInv'
  OBVIOUS
<1>1. Safe'
  BY TypesNext, OriginNext DEF TraceInv, Safe
<1>2. \A c \in CallIds : Once(c)' /\ Record(c)' /\ Ended(c)'
  BY OnceNext, RecordNext, EndedNext DEF TraceInv
<1> QED BY <1>1, <1>2 DEF TraceInv

LEMMA TraceInvariant ==
  ASSUME NoDuplicates PROVE CallsSpec => []TraceInv
BY TraceInitial, TraceNext, PTL DEF CallsSpec

\* The registry and the context map agree on which calls exist, except while
\* the worker that opens or closes the call is between its two steps, for any
\* number of workers and calls (sip_router.cpp:200-224, 312-314, 436-442,
\* 452-458).
THEOREM NothingLeftBehind ==
  ASSUME NoDuplicates PROVE CallsSpec => []Coherent
<1>1. TraceInv => Coherent
  BY DEF TraceInv, Record, Coherent, Closing, Closes
<1> QED BY <1>1, TraceInvariant, PTL

\* A session leaves the registry only when a party has left the call, in
\* whatever order its responses, ACK and BYE are handled (sip_router.cpp:
\* 299-314, 424-458).
THEOREM OnlyEndedCallsAreRemoved ==
  ASSUME NoDuplicates PROVE CallsSpec => []RemovedMeansEnded
<1>1. TraceInv => RemovedMeansEnded
  BY DEF TraceInv, Ended, RemovedMeansEnded
<1> QED BY <1>1, TraceInvariant, PTL

\* A client is told to hang up only if the other party hung up
\* (sip_router.cpp:344-383).
THEOREM ByeComesFromTheOther ==
  ASSUME NoDuplicates PROVE CallsSpec => []ByeMeansHungUp
<1>1. ASSUME TraceInv, NEW m \in outbox, m.type = "BYE"
      PROVE  \E u \in Party(m.call) : Home[u] # m.to /\ Left(m.call, u)
  <2>1. m.call \in CallIds /\ RightMessage(m)
    BY <1>1, AbroadType DEF TraceInv, Safe, OriginInv, MessageInv, Message
  <2>2. PICK u \in Party(m.call) : m.to = Home[u]
    BY <1>1, <2>1 DEF RightMessage
  <2>3. /\ Other(m.call, u) \in Party(m.call) /\ Home[Other(m.call, u)] # m.to
        /\ Other(m.call, Other(m.call, u)) = u
    BY <2>1, <2>2, Parties
  <2>4. Left(m.call, Other(m.call, u))
    BY <1>1, <2>1, <2>2, <2>3 DEF TraceInv, Ended
  <2> QED BY <2>3, <2>4
<1>2. TraceInv => ByeMeansHungUp
  BY <1>1 DEF ByeMeansHungUp
<1> QED BY <1>2, TraceInvariant, PTL

(***************************************************************************)
(* The life of a call: SipCalls implements CallLife.                        *)
(***************************************************************************)

\* The callee is told of a call, and the INVITE on its way there, when the call
\* has a session.
Announced(c) ==
  /\ InviteOut(c) \/ Heard(c) => sessions[c] # <<>>
  /\ \A w \in Workers :
       Inviting(w, c) /\ pc[w] = "send" /\ reply[w] = "none" => sessions[c] # <<>>

\* Sessions are made by workers' steps and never forgotten.
LEMMA SessionsStay ==
  ASSUME TraceInv, [CallsNext]_allVars, NEW c \in CallIds, sessions[c] # <<>>
  PROVE  sessions'[c] # <<>>
<1>1. CASE \E w \in Workers : WorkerStep(w)
  BY <1>1, RecordStep DEF WorkerStep, TraceInv, Safe
<1>2. CASE ~ \E w \in Workers : WorkerStep(w)
  BY <1>2, RecordOther DEF TraceInv
<1> QED BY <1>1, <1>2

LEMMA AnnouncedNext ==
  ASSUME TraceInv, [CallsNext]_allVars, NEW c \in CallIds, Announced(c)
  PROVE  Announced(c)'
<1>1. Safe /\ Once(c) /\ Record(c) /\ PeerMoves
  BY Moves DEF TraceInv, Safe, OriginInv
<1>2. InviteOut(c)' /\ ~InviteOut(c) => sessions[c] # <<>>
  <2> SUFFICES ASSUME InviteOut(c)', ~InviteOut(c) PROVE sessions[c] # <<>>
    OBVIOUS
  <2>1. PICK m \in outbox' \ outbox : m.type = "INVITE" /\ m.call = c
    BY DEF InviteOut
  <2>2. PICK v \in Workers :
             /\ pc[v] = "send"
             /\ m = IF reply[v] = "none" THEN Relay(pkt[v], snap[v])
                    ELSE LocalResponse(pkt[v], reply[v])
    BY <1>1, <2>1, NewMessage DEF Safe
  <2>3. Inviting(v, c) /\ reply[v] = "none"
    BY <1>1, <2>1, <2>2, SentMessage
       DEF Safe, OriginInv, LocalStatus, Inviting, HandlesCall, Busy
  <2> QED BY <2>2, <2>3 DEF Announced
<1>3. Heard(c)' /\ ~Heard(c) => InviteOut(c)
  <2>1. Heard(c)' /\ ~Heard(c) => Enters(c, Callee[c])
    BY <1>1 DEF PeerMoves, Heard
  <2> QED BY <1>1, <2>1, HearsOnce
<1>4. ASSUME NEW w \in Workers, Inviting(w, c)', pc'[w] = "send", reply'[w] = "none"
      PROVE  sessions[c] # <<>>
  <2>1. CASE PeerStep \/ LossStep \/ UNCHANGED allVars
    BY <1>4, <2>1, RouterKept DEF Announced, Inviting, HandlesCall, Busy
  <2>2. ASSUME NEW v \in Workers, NEW p \in wire, TakeStep(v, p)
        PROVE  sessions[c] # <<>>
    <3>1. Receive(v, p)
      BY <2>2 DEF TakeStep, ReceiveFromWire, ReceiveDuplicate
    <3>2. /\ ~Busy(v) /\ pc'[v] = FirstStep(p)
          /\ pkt'[v] = IF FirstStep(p) = "idle" THEN NoPacket ELSE p
          /\ \A u \in Workers : u # v => UNCHANGED <<pc[u], pkt[u], reply[u]>>
      BY <1>1, <3>1, ReceiveLocal DEF Safe, Types
    <3>3. w # v
      <4> SUFFICES ASSUME w = v PROVE FALSE
        OBVIOUS
      <4>1. p \in Abroad /\ p.type = "INVITE" /\ p.call = c
        BY <1>4, <3>2 DEF Inviting, HandlesCall, Busy, Abroad
      <4>2. p = Invitation(c)
        BY <1>1, <4>1, InvitePacket
      <4> QED BY <1>4, <3>2, <4>2, InvitationFields
    <3> QED BY <1>4, <3>2, <3>3 DEF Announced, Inviting, HandlesCall, Busy
  <2>3. ASSUME NEW v \in Workers, WorkerStep(v)
        PROVE  sessions[c] # <<>>
    <3>1. /\ Proceed(v) /\ Busy(v)
          /\ \A u \in Workers : u # v => UNCHANGED <<pc[u], pkt[u], reply[u]>>
          /\ pkt'[v] = pkt[v] \/ ~Busy(v)'
      BY <1>1, <2>3, ProceedLocal DEF Safe, Types, WorkerStep
    <3>2. Inviting(w, c)
      BY <1>4, <3>1 DEF Inviting, HandlesCall, Busy
    <3>3. CASE w # v
      BY <1>4, <3>1, <3>2, <3>3 DEF Announced
    <3>4. CASE w = v
      <4>1. pc \in [Workers -> Steps] /\ reply \in [Workers -> LocalStatus \cup {"none"}]
        BY <1>1 DEF Safe, Types, TypeOK
      <4>2. InvCount(w)
        BY <1>1, <1>4, <3>1, <3>2, <3>4, <4>1 DEF Safe, Types, StepInv, Inviting,
           InviteSteps, Goto, Proceed, RegStore, RegCount, InvLookup, InvCreate,
           CreateSession, InvStore, InvEvent, CtxRead, FindCall, SessionEvent,
           AckFind, AckCheck, StoreAnswer, RemoveCall, EraseContext, DecCheck, Dec,
           Send, Respond, Finish, AfterEvent, AfterDec, ResponseTypes
      <4> QED BY <1>1, <3>2, <4>2 DEF InvCount, Record, Inviting
    <3> QED BY <3>3, <3>4
  <2> QED BY <2>1, <2>2, <2>3, StepKinds
<1> QED BY <1>2, <1>3, <1>4, SessionsStay DEF Announced

\* A step of a client is one user's.
LEMMA OneMover ==
  ASSUME Types, PeerStep
  PROVE  \E u \in Users : \A v \in Users \ {u} :
           /\ active'[v] = active[v]
           /\ \A c \in CallIds : <<c, v>> \in joined' <=> <<c, v>> \in joined
<1>1. ASSUME NEW u \in Users,
             \/ Register(u) \/ RetryRegister(u) \/ GiveUpRegister(u)
             \/ Answer(u) \/ Reject(u) \/ HangUp(u)
      PROVE  /\ joined' = joined
             /\ \A v \in Users \ {u} : active'[v] = active[v]
  BY <1>1 DEF Register, RetryRegister, GiveUpRegister, SendRegister, Answer, Reject,
              HangUp, Terminate, Types, CallsTypeOK
<1>2. ASSUME NEW c \in CallIds, Dial(c)
      PROVE  /\ joined' = joined \cup {<<c, Caller[c]>>} /\ Caller[c] \in Users
             /\ \A v \in Users \ {Caller[c]} : active'[v] = active[v]
  BY <1>2 DEF Dial, Enter, Types, CallsTypeOK
<1>3. ASSUME NEW m \in outbox, NEW u \in Users, RegisterAnswered(m, u) \/ ClientReceive(m, u)
      PROVE  /\ joined' = joined \/ joined' = joined \cup {<<m.call, u>>}
             /\ \A v \in Users \ {u} : active'[v] = active[v]
  <2>1. ASSUME NEW busy \in BOOLEAN, ReceiveInvite(m, u, busy)
        PROVE  /\ joined' = joined \/ joined' = joined \cup {<<m.call, u>>}
               /\ \A v \in Users \ {u} : active'[v] = active[v]
    BY <2>1 DEF ReceiveInvite, Enter, Types, CallsTypeOK
  <2>2. CASE \/ ReceiveBye(m, u) \/ ReceiveProgress(m, u)
             \/ ReceiveEnd(m, u) \/ ReceiveNothing(m, u)
             \/ UNCHANGED <<active, pending, joined, wire>>
    BY <2>2 DEF ReceiveBye, ReceiveProgress, ReceiveEnd, ReceiveNothing, Terminate,
       Types, CallsTypeOK
  <2> QED BY <1>3, <2>1, <2>2, ClientHandles DEF Types
<1>4. CASE UserStep
  BY <1>1, <1>2, <1>4 DEF UserStep
<1>5. CASE ClientTakes
  BY <1>3, <1>5 DEF ClientTakes
<1> QED BY <1>4, <1>5 DEF PeerStep

\* Who is out of a call enters it, who is in it leaves it, and that is all.
LEMMA PlaceStep ==
  ASSUME TraceInv, [CallsNext]_allVars, NEW c \in CallIds, NEW u \in Party(c)
  PROVE  LET p == PlaceOf(c, u)
             q == PlaceOf(c, u)'
         IN  \/ q = p
             \/ p = "in" /\ q = "left"
             \/ /\ p = "out" /\ q \in {"in", "left"} /\ Enters(c, u)
                /\ u = Caller[c] => q = "in"
<1>1. PeerMoves /\ u \in Users /\ Once(c) /\ Safe
  BY Moves DEF TraceInv, Safe, OriginInv, Party
<1>2. Left(c, u) => Left(c, u)'
  BY <1>1, LeftStays
<1>3. CASE PlaceOf(c, u) = "out"
  <2>1. <<c, u>> \in joined' => Enters(c, u)
    BY <1>1, <1>3 DEF PeerMoves, PlaceOf
  <2>2. u = Caller[c] /\ Enters(c, u) => active'[u] = c
    BY <1>1 DEF Enters, Dial, Enter, Safe, Types, CallsTypeOK
  <2> QED BY <1>3, <2>1, <2>2 DEF PlaceOf, Active
<1>4. CASE PlaceOf(c, u) # "out"
  <2>1. <<c, u>> \in joined /\ <<c, u>> \in joined'
    BY <1>1, <1>4 DEF PlaceOf, PeerMoves
  <2> QED BY <1>2, <2>1 DEF PlaceOf, Left
<1> QED BY <1>3, <1>4

\* The record of a call is opened once, by its INVITE, and closed when a party
\* has left.
LEMMA RecordLife ==
  ASSUME NoDuplicates, TraceInv, NEW w \in Workers, WorkerStep(w), NEW c \in CallIds
  PROVE  LET p == RecordOf(c)
             q == RecordOf(c)'
         IN  \/ q = p
             \/ p = "none" /\ q = "open" /\ Dialed(c)
             \/ /\ p = "open" /\ q = "closed"
                /\ \E u \in Party(c) : Left(c, u)
<1>1. Safe /\ Once(c) /\ Ended(c) /\ Proceed(w) /\ Types
  BY DEF TraceInv, Safe, WorkerStep
<1>2. InvCreate(w) /\ pkt[w].call = c => Inviting(w, c) /\ sessions[c] = <<>> /\ Dialed(c)
  <2> SUFFICES ASSUME InvCreate(w), pkt[w].call = c
               PROVE  Inviting(w, c) /\ sessions[c] = <<>> /\ Dialed(c)
    OBVIOUS
  <2>1. pc[w] = "invCreate"
    BY DEF InvCreate
  <2>2. Inviting(w, c)
    BY <1>1, <2>1 DEF Types, StepInv, InviteSteps, Inviting, HandlesCall, Busy
  <2> QED BY <1>1, <2>1, <2>2 DEF Once
<1>3. CASE sessions[c] = <<>> /\ sessions'[c] # <<>>
  <2>1. InvCreate(w) /\ pkt[w].call = c
    BY <1>1, <1>3, RecordStep
  <2>2. registry'[c] # 0
    BY <1>1, <1>3, <2>1 DEF InvCreate, CreateSession, Types, TypeOK
  <2> QED BY <1>2, <1>3, <2>1, <2>2 DEF RecordOf
<1>4. CASE sessions[c] # <<>>
  <2>1. sessions'[c] # <<>>
    BY <1>1, <1>4, RecordStep
  <2>2. registry[c] = 0 => registry'[c] = 0
    <3> SUFFICES ASSUME registry[c] = 0, registry'[c] # 0 PROVE FALSE
      OBVIOUS
    <3>1. pkt[w].call = c /\ (InvCreate(w) \/ RemoveCall(w))
      BY <1>1, RecordStep
    <3>2. RemoveCall(w) => registry'[c] = 0
      BY <1>1, <3>1 DEF RemoveCall, Types, TypeOK
    <3> QED BY <1>2, <1>4, <3>1, <3>2
  <2>3. registry[c] # 0 /\ registry'[c] = 0 => \E u \in Party(c) : Left(c, u)
    <3> SUFFICES ASSUME registry[c] # 0, registry'[c] = 0
                 PROVE  \E u \in Party(c) : Left(c, u)
      OBVIOUS
    <3>1. pkt[w].call = c
      BY <1>1, RecordStep
    <3>2. Closed(c)'
      BY <2>1 DEF Closed
    <3> QED BY <1>1, <3>1, <3>2, ClosedWork
  <2> QED BY <1>4, <2>1, <2>2, <2>3 DEF RecordOf
<1> QED BY <1>3, <1>4 DEF RecordOf

LifeInv == TraceInv /\ \A c \in CallIds : Announced(c)

\* Each step of the system does one thing at most in each call.
LEMMA LifeStep ==
  ASSUME NoDuplicates, LifeInv, [CallsNext]_allVars, NEW c \in CallIds
  PROVE  \/ Life!Goes(c)
         \/ /\ PlaceOf(c, Caller[c])' = PlaceOf(c, Caller[c])
            /\ PlaceOf(c, Callee[c])' = PlaceOf(c, Callee[c])
            /\ RecordOf(c)' = RecordOf(c)
<1> USE DEF Life!OnlyCaller, Life!OnlyCallee, Life!OnlyRecord
<1>1. /\ TraceInv /\ Announced(c) /\ Safe /\ Types /\ Once(c) /\ PeerMoves
      /\ Caller[c] \in Party(c) /\ Callee[c] \in Party(c)
      /\ Caller[c] \in Users /\ Callee[c] \in Users /\ Caller[c] # Callee[c]
  BY Moves DEF LifeInv, TraceInv, Safe, OriginInv, Party
<1>2. CASE PeerStep
  <2>1. RecordOf(c)' = RecordOf(c)
    BY <1>2, RouterKept DEF RecordOf
  <2>2. \/ PlaceOf(c, Caller[c])' = PlaceOf(c, Caller[c])
        \/ PlaceOf(c, Callee[c])' = PlaceOf(c, Callee[c])
    <3>1. PICK u \in Users : \A v \in Users \ {u} :
               /\ active'[v] = active[v]
               /\ \A d \in CallIds : <<d, v>> \in joined' <=> <<d, v>> \in joined
      BY <1>1, <1>2, OneMover
    <3>2. \A v \in Users \ {u} : PlaceOf(c, v)' = PlaceOf(c, v)
      BY <3>1 DEF PlaceOf, Active
    <3> QED BY <1>1, <3>2
  <2>3. Enters(c, Callee[c]) => RecordOf(c) # "none"
    BY <1>1, HearsOnce DEF Announced, RecordOf
  <2>4. CASE PlaceOf(c, Caller[c])' # PlaceOf(c, Caller[c])
    <3>1. \/ PlaceOf(c, Caller[c]) = "in" /\ PlaceOf(c, Caller[c])' = "left"
          \/ PlaceOf(c, Caller[c]) = "out" /\ PlaceOf(c, Caller[c])' = "in"
      BY <1>1, <2>4, PlaceStep
    <3> QED BY <2>1, <2>2, <2>4, <3>1 DEF Life!Goes, Life!Dialed, Life!CallerLeft
  <2>5. CASE PlaceOf(c, Callee[c])' # PlaceOf(c, Callee[c])
    <3>1. \/ PlaceOf(c, Callee[c]) = "in" /\ PlaceOf(c, Callee[c])' = "left"
          \/ /\ PlaceOf(c, Callee[c]) = "out" /\ PlaceOf(c, Callee[c])' \in {"in", "left"}
             /\ RecordOf(c) # "none"
      BY <1>1, <2>3, <2>5, PlaceStep
    <3> QED BY <2>1, <2>2, <2>5, <3>1 DEF Life!Goes, Life!Offered, Life!CalleeLeft
  <2> QED BY <2>1, <2>4, <2>5
<1>3. CASE \E w \in Workers : WorkerStep(w)
  <2>1. PICK w \in Workers : WorkerStep(w)
    BY <1>3
  <2>2. \A u \in Users : PlaceOf(c, u)' = PlaceOf(c, u)
    BY <2>1 DEF WorkerStep, peerVars, PlaceOf, Active
  <2>3. \/ RecordOf(c)' = RecordOf(c)
        \/ RecordOf(c) = "none" /\ RecordOf(c)' = "open" /\ Dialed(c)
        \/ /\ RecordOf(c) = "open" /\ RecordOf(c)' = "closed"
           /\ \E u \in Party(c) : Left(c, u)
    BY <1>1, <2>1, RecordLife
  <2>4. Dialed(c) => PlaceOf(c, Caller[c]) # "out"
    BY DEF Dialed, PlaceOf
  <2>5. (\E u \in Party(c) : Left(c, u)) =>
          "left" \in {PlaceOf(c, Caller[c]), PlaceOf(c, Callee[c])}
    BY DEF Left, Party, PlaceOf
  <2> QED BY <1>1, <2>2, <2>3, <2>4, <2>5 DEF Life!Goes, Life!Opened, Life!Closed
<1>4. CASE ~PeerStep /\ ~ \E w \in Workers : WorkerStep(w)
  <2>1. UNCHANGED <<active, joined>>
    BY <1>1, <1>4, StepKinds, PeersKept DEF Types
  <2>2. UNCHANGED <<sessions[c], registry[c]>>
    BY <1>1, <1>4, RecordOther
  <2> QED BY <2>1, <2>2 DEF PlaceOf, RecordOf, Active
<1> QED BY <1>2, <1>3, <1>4

LEMMA LifeInitial == CallsInit => LifeInv /\ Life!LifeInit
<1> SUFFICES ASSUME CallsInit PROVE LifeInv /\ Life!LifeInit
  OBVIOUS
<1>1. /\ TraceInv /\ outbox = {} /\ joined = {}
      /\ \A w \in Workers : ~Busy(w)
      /\ \A c \in CallIds : sessions[c] = <<>>
  BY TraceInitial, CallsInitial DEF CallsInit, Init
<1>2. \A c \in CallIds : Announced(c)
  BY <1>1 DEF Announced, InviteOut, Heard, Inviting, HandlesCall
<1>3. \A c \in CallIds : /\ PlaceOf(c, Caller[c]) = "out" /\ PlaceOf(c, Callee[c]) = "out"
                        /\ RecordOf(c) = "none"
  BY <1>1 DEF PlaceOf, RecordOf
<1> QED BY <1>1, <1>2, <1>3 DEF LifeInv, Life!LifeInit

\* Every call has the life CallLife gives it, for any number of users, calls and
\* workers and whatever the order of packets and of the handlers' steps
\* (sip_router.cpp:205-224, 312-314, 436-458; sip_invite_handler.cpp:84-186).
THEOREM CallsHaveTheirLife ==
  ASSUME NoDuplicates PROVE CallsSpec => LifeKept
<1>1. CallsInit => LifeInv /\ Life!LifeInit
  BY LifeInitial
<1>2. LifeInv /\ [CallsNext]_allVars => LifeInv' /\ [Life!LifeNext]_Life!lifeVars
  <2> SUFFICES ASSUME LifeInv, [CallsNext]_allVars
               PROVE  LifeInv' /\ Life!LifeNext
    OBVIOUS
  <2>1. LifeInv'
    BY TraceNext, AnnouncedNext DEF LifeInv
  <2>2. \A c \in CallIds :
          \/ Life!Goes(c)
          \/ /\ PlaceOf(c, Caller[c])' = PlaceOf(c, Caller[c])
             /\ PlaceOf(c, Callee[c])' = PlaceOf(c, Callee[c])
             /\ RecordOf(c)' = RecordOf(c)
    BY LifeStep
  <2>3. \A c \in CallIds : /\ PlaceOf(c, Caller[c])' \in {"out", "in", "left"}
                          /\ PlaceOf(c, Callee[c])' \in {"out", "in", "left"}
                          /\ RecordOf(c)' \in {"none", "open", "closed"}
    BY DEF PlaceOf, RecordOf
  <2> QED BY <2>1, <2>2, <2>3 DEF Life!LifeNext, Life!Place, Life!Record
<1> QED BY <1>1, <1>2, PTL DEF CallsSpec, LifeKept, Life!LifeSpec

(***************************************************************************)
(* When nothing of a call is under way, its parties agree on it.            *)
(***************************************************************************)

\* Ringing for a call begins with its INVITE, before which nobody heard of it.
LEMMA RingsOnce ==
  ASSUME TraceInv, [CallsNext]_allVars, NEW c \in CallIds,
         Heard(c), pending[Callee[c]] # c
  PROVE  pending'[Callee[c]] # c
<1>1. PeerMoves /\ Safe /\ Once(c)
  BY Moves DEF TraceInv, Safe, OriginInv
<1>2. ~Enters(c, Callee[c])
  BY <1>1, HearsOnce DEF Once
<1>3. Callee[c] \in Users /\ c # NoCall
  OBVIOUS
<1>4. \/ pending'[Callee[c]] \in {pending[Callee[c]], NoCall}
      \/ Enters(pending'[Callee[c]], Callee[c])
  BY <1>1, <1>3 DEF PeerMoves
<1> QED BY <1>2, <1>3, <1>4

\* The proxy's own answers to what it cannot route.
Errors == {"R400", "R404", "R501"}

\* The callee has heard of the call and answered or left it.
Decided(c) == Heard(c) /\ pending[Callee[c]] # c

\* The INVITE is on its way to the callee; it got lost if it is not, and the
\* callee never heard of it.
Coming(c) ==
  \/ Invitation(c) \in wire \/ InviteOut(c)
  \/ \E w \in Workers : Inviting(w, c) /\ reply[w] = "none"
Lost(c) == Dialed(c) /\ ~Heard(c) /\ ~Coming(c)

Gone(c) == \E u \in Party(c) : Left(c, u)
Failed(c) == Lost(c) \/ (Heard(c) /\ Gone(c))

\* What a client in call c, and each thing of c that can end it, tells of it: a
\* party talks, or its caller leaves, only after the callee's decision, and the
\* proxy refuses only what never reached the callee or what is over.
RingCourse(c) == pending[Callee[c]] = c => Active(c, Callee[c])
TalkCourse(c) ==
  \A u \in Party(c) : Active(c, u) /\ state[u] = "incall" => Decided(c)
PacketCourse(c) ==
  \A p \in Abroad : p.call = c =>
    /\ p.type = "200_INVITE" => Decided(c)
    /\ p.type = "603" => Left(c, Callee[c])
    /\ p.type = "ACK" => Heard(c) \/ Lost(c)
MessageCourse(c) ==
  \A m \in outbox : m.call = c =>
    /\ m.type = "200_INVITE" => Decided(c)
    /\ m.type \in {"486", "603"} => Left(c, Callee[c])
    /\ m.type = "200_BYE" => \A u \in Party(c) : Left(c, u)
    /\ m.type \in Errors => Failed(c)
ReplyCourse(c) ==
  \A w \in Workers : HandlesCall(w, c) /\ reply[w] # "none" =>
    /\ pc[w] = "send"
    /\ IF pkt[w].type = "REGISTER" THEN reply[w] = "R200"
       ELSE reply[w] \in Errors /\ Failed(c)
CallerCourse(c) == Left(c, Caller[c]) => Decided(c) \/ Lost(c)

Course(c) ==
  /\ RingCourse(c) /\ TalkCourse(c) /\ CallerCourse(c)
  /\ PacketCourse(c) /\ MessageCourse(c) /\ ReplyCourse(c)

\* A caller who waits will be told, or the INVITE is still under way.
Reaching(c) ==
  Active(c, Caller[c]) /\ ~Heard(c) =>
    \/ Invitation(c) \in wire \/ InviteOut(c)
    \/ \E w \in Workers : Inviting(w, c)
    \/ \E m \in outbox : m.call = c /\ m.type \in Errors /\ m.to = Home[Caller[c]]

\* Packet p brings the end of call c to v. Before it has found the context it
\* depends on nobody having closed the call.
Brings(p, c, v) ==
  /\ p.call = c
  /\ \/ p.type \in {"486", "603"} /\ v = Caller[c]
     \/ p.type = "BYE" /\ v = Other(c, p.from)
Told(c, v) ==
  \/ ~Closed(c) /\ \E p \in wire : Brings(p, c, v)
  \/ \E w \in Workers : /\ Busy(w) /\ Brings(pkt[w], c, v) /\ reply[w] = "none"
                        /\ pc[w] = "ctxRead" => ~Closed(c)
  \/ \E m \in outbox : /\ m.call = c /\ m.to = Home[v]
                       /\ m.type \in {"486", "603", "BYE"}

\* A party whose peer has left is about to be told.
Telling(c) ==
  \A v \in Party(c) : Left(c, Other(c, v)) /\ Active(c, v) => Told(c, v)

CourseInv == LifeInv /\ \A c \in CallIds : Course(c)

\* The proxy's own answers, and the steps that decide on them.
LEMMA ReplyStep ==
  ASSUME Types, NEW w \in Workers, Proceed(w), Busy(w)'
  PROVE  \/ reply'[w] = reply[w] /\ pc[w] # "send"
         \/ /\ pc'[w] = "send"
            /\ \/ pc[w] = "regCount" /\ reply'[w] = "R200"
               \/ pc[w] \in {"invLookup", "invCreate"} /\ reply'[w] \in {"R400", "R404"}
               \/ /\ pc[w] = "ctxRead" /\ reply'[w] = "R400"
                  /\ ctx[pkt[w].call] = NoContext /\ pkt[w].type \notin ResponseTypes
<1>1. pc \in [Workers -> Steps] /\ reply \in [Workers -> LocalStatus \cup {"none"}]
  BY DEF Types, TypeOK
<1>2. CASE RegCount(w) \/ InvLookup(w) \/ InvCreate(w) \/ CtxRead(w) \/ Send(w)
  BY <1>1, <1>2 DEF RegCount, InvLookup, InvCreate, CreateSession, CtxRead, Send,
     Respond, Finish, Goto, Busy
<1>3. CASE ~(RegCount(w) \/ InvLookup(w) \/ InvCreate(w) \/ CtxRead(w) \/ Send(w))
  BY <1>3 DEF Proceed, RegStore, InvStore, InvEvent, InvCount, FindCall, SessionEvent,
     AckFind, AckCheck, StoreAnswer, RemoveCall, EraseContext, DecCheck, Dec
<1> QED BY <1>2, <1>3

\* An INVITE that is no longer on its way to the callee never is again.
LEMMA ComingOnce ==
  ASSUME TraceInv, [CallsNext]_allVars, NEW c \in CallIds, Dialed(c), ~Coming(c)
  PROVE  ~Coming(c)'
<1>1. Safe /\ Types /\ Once(c)
  BY DEF TraceInv, Safe
<1>2. Invitation(c) \notin wire'
  <2> SUFFICES ASSUME Invitation(c) \in wire' PROVE FALSE
    OBVIOUS
  <2>1. Invitation(c) \in wire' \ wire
    BY DEF Coming
  <2>2. PeerStep
    BY <1>1, <2>1, StepKinds, PeersKept DEF Types
  <2>3. Occasion(Invitation(c))
    BY <1>1, <2>1, <2>2, SentPacket DEF Safe, OriginInv
  <2>4. Dial(c)
    BY <2>3, InvitationFields DEF Occasion
  <2> QED BY <2>4 DEF Dial, Dialed
<1>3. ~InviteOut(c)'
  <2> SUFFICES ASSUME InviteOut(c)' PROVE FALSE
    OBVIOUS
  <2>1. PICK m \in outbox' \ outbox : m.type = "INVITE" /\ m.call = c
    BY DEF Coming, InviteOut
  <2>2. PICK v \in Workers :
             /\ pc[v] = "send"
             /\ m = IF reply[v] = "none" THEN Relay(pkt[v], snap[v])
                    ELSE LocalResponse(pkt[v], reply[v])
    BY <1>1, <2>1, NewMessage
  <2>3. Inviting(v, c) /\ reply[v] = "none"
    BY <1>1, <2>1, <2>2, SentMessage
       DEF Safe, OriginInv, LocalStatus, Inviting, HandlesCall, Busy
  <2> QED BY <2>3 DEF Coming
<1>4. ASSUME NEW w \in Workers, Inviting(w, c)', reply'[w] = "none"
      PROVE  FALSE
  <2>1. CASE PeerStep \/ LossStep \/ UNCHANGED allVars
    BY <1>4, <2>1, RouterKept DEF Coming, Inviting, HandlesCall, Busy
  <2>2. ASSUME NEW v \in Workers, NEW p \in wire, TakeStep(v, p)
        PROVE  FALSE
    <3>1. Receive(v, p)
      BY <2>2 DEF TakeStep, ReceiveFromWire, ReceiveDuplicate
    <3>2. /\ pkt'[v] = IF FirstStep(p) = "idle" THEN NoPacket ELSE p
          /\ pc'[v] = FirstStep(p)
          /\ \A u \in Workers : u # v => UNCHANGED <<pc[u], pkt[u], reply[u]>>
      BY <1>1, <3>1, ReceiveLocal DEF Types
    <3>3. CASE w = v
      <4>1. p \in Abroad /\ p.type = "INVITE" /\ p.call = c
        BY <1>4, <3>2, <3>3 DEF Inviting, HandlesCall, Busy, Abroad
      <4>2. p = Invitation(c)
        BY <1>1, <4>1, InvitePacket
      <4> QED BY <4>2 DEF Coming
    <3>4. CASE w # v
      BY <1>4, <3>2, <3>4 DEF Coming, Inviting, HandlesCall, Busy
    <3> QED BY <3>3, <3>4
  <2>3. ASSUME NEW v \in Workers, WorkerStep(v)
        PROVE  FALSE
    <3>1. /\ Proceed(v) /\ Busy(v)
          /\ \A u \in Workers : u # v => UNCHANGED <<pc[u], pkt[u], reply[u]>>
          /\ pkt'[v] = pkt[v] \/ ~Busy(v)'
      BY <1>1, <2>3, ProceedLocal DEF Types, WorkerStep
    <3>2. Inviting(w, c)
      BY <1>4, <3>1 DEF Inviting, HandlesCall, Busy
    <3>3. reply[w] = "none"
      BY <1>1, <1>4, <3>1, <3>2, ReplyStep DEF Inviting, HandlesCall
    <3> QED BY <3>2, <3>3 DEF Coming
  <2> QED BY <2>1, <2>2, <2>3, StepKinds
<1> QED BY <1>2, <1>3, <1>4 DEF Coming

LEMMA LostStays ==
  ASSUME TraceInv, [CallsNext]_allVars, NEW c \in CallIds, Lost(c)
  PROVE  Lost(c)'
<1>1. PeerMoves /\ Safe
  BY Moves DEF TraceInv, Safe, OriginInv
<1>2. Dialed(c)' /\ ~Coming(c)'
  BY <1>1, ComingOnce DEF Lost, Dialed, PeerMoves
<1>3. ~Heard(c)'
  BY <1>1, HearsOnce DEF Lost, Coming, Heard, PeerMoves
<1> QED BY <1>2, <1>3 DEF Lost

LEMMA CourseStays ==
  ASSUME TraceInv, [CallsNext]_allVars, NEW c \in CallIds
  PROVE  /\ Heard(c) => Heard(c)'
         /\ Decided(c) => Decided(c)'
         /\ Gone(c) => Gone(c)'
         /\ Failed(c) => Failed(c)'
<1>1. PeerMoves /\ Safe /\ Once(c)
  BY Moves DEF TraceInv, Safe, OriginInv
<1>2. Heard(c) => Heard(c)'
  BY <1>1 DEF PeerMoves, Heard
<1>3. Decided(c) => Decided(c)'
  BY <1>2, RingsOnce DEF Decided
<1>4. Gone(c) => Gone(c)'
  BY <1>1, LeftStays DEF Gone
<1> QED BY <1>2, <1>3, <1>4, LostStays DEF Failed

\* No packet is answered before a worker has looked at what is stored.
LEMMA FirstReplyNone ==
  ASSUME Safe, NEW p \in wire
  PROVE  FirstReply(p) = "none" /\ (p.type \in {"486", "603", "BYE"} => FirstStep(p) = "ctxRead")
<1>1. p \in PeerTraffic /\ p \in Abroad
  BY DEF Safe, Types, CallsTypeOK, Abroad
<1>2. CASE p.type = "INVITE"
  <2>1. p = Invitation(p.call) /\ p.call \in CallIds
    BY <1>1, <1>2, InvitePacket, AbroadType DEF Safe, Packet
  <2> QED BY <2>1, InvitationFields DEF FirstReply
<1>3. CASE p.type = "REGISTER"
  <2>1. p.ok
    BY <1>1 DEF PeerTraffic, Registration, Request, Response
  <2> QED BY <1>3, <2>1 DEF FirstReply, FirstStep, ResponseTypes
<1>4. CASE p.type \in ResponseTypes \cup {"ACK", "BYE"}
  BY <1>4 DEF FirstReply, FirstStep, ResponseTypes
<1>5. p.type \in {"REGISTER", "INVITE", "ACK", "BYE"} \cup ResponseTypes
  BY <1>1 DEF PeerTraffic, Registration, Request, Response
<1> QED BY <1>2, <1>3, <1>4, <1>5

\* Once the callee has heard of a call, its context is missing only if it was
\* closed.
LEMMA ContextGone ==
  ASSUME LifeInv, NEW c \in CallIds, Heard(c), ctx[c] = NoContext
  PROVE  Closed(c)
<1>1. Safe /\ Once(c) /\ Record(c) /\ sessions[c] # <<>>
  BY DEF LifeInv, TraceInv, Announced
<1>2. registry[c] = 0
  <2> SUFFICES ASSUME registry[c] # 0 PROVE FALSE
    OBVIOUS
  <2>1. PICK w \in Workers : HandlesCall(w, c) /\ pc[w] = "invStore"
    BY <1>1 DEF Record
  <2>2. Inviting(w, c)
    BY <1>1, <2>1 DEF Inviting, Safe, Types, StepInv, InviteSteps
  <2> QED BY <1>1, <2>2 DEF Once
<1> QED BY <1>1, <1>2 DEF Closed

\* Who has left a call that the callee never heard of lost it.
LEMMA GoneFailed ==
  ASSUME LifeInv, NEW c \in CallIds, CallerCourse(c), Gone(c)
  PROVE  Failed(c)
BY DEF Gone, Failed, CallerCourse, Decided, Party, Left, Heard

\* How a client comes to leave a call.
LEMMA LeavesWhy ==
  ASSUME CourseInv, PeerStep, StayInCall, NEW c \in CallIds, NEW u \in Party(c),
         Active(c, u), ~Active(c, u)'
  PROVE  \/ HangUp(u) /\ state[u] = "incall" /\ Request("BYE", c, u) \in wire'
         \/ /\ Reject(u) /\ u = Callee[c] /\ pending[u] = c /\ pending'[u] = NoCall
            /\ Response("603", c, u) \in wire'
         \/ Left(c, Other(c, u))
         \/ u = Caller[c] /\ Lost(c)
<1>1. /\ Safe /\ Types /\ CallsTypeOK /\ Ended(c) /\ Course(c) /\ u \in Users
      /\ active[u] = c /\ active'[u] = NoCall
  BY Parties DEF CourseInv, LifeInv, TraceInv, Safe, Types, Active, StayInCall
<1>2. CASE \E v \in Users : Register(v) \/ RetryRegister(v) \/ GiveUpRegister(v) \/ Answer(v)
  BY <1>1, <1>2 DEF Register, RetryRegister, GiveUpRegister, SendRegister, Answer
<1>3. CASE \E d \in CallIds : Dial(d)
  <2>1. PICK d \in CallIds : Dial(d)
    BY <1>3
  <2>2. active' = [active EXCEPT ![Caller[d]] = d]
    BY <2>1 DEF Dial, Enter
  <2> QED BY <1>1, <2>2 DEF CallsTypeOK
<1>4. ASSUME NEW v \in Users, HangUp(v)
      PROVE  HangUp(u) /\ state[u] = "incall" /\ Request("BYE", c, u) \in wire'
  <2>1. v = u
    BY <1>1, <1>4 DEF HangUp, Terminate, CallsTypeOK
  <2> QED BY <1>1, <1>4, <2>1 DEF HangUp, SendsToProxy
<1>5. ASSUME NEW v \in Users, Reject(v)
      PROVE  /\ Reject(u) /\ u = Callee[c] /\ pending[u] = c /\ pending'[u] = NoCall
             /\ Response("603", c, u) \in wire'
  <2>1. v = u
    BY <1>1, <1>5 DEF Reject, Terminate, CallsTypeOK
  <2>2. pending[u] \in CallIds /\ Callee[pending[u]] = u
    BY <1>1, <1>5, <2>1 DEF Reject, CallsTypeOK, Safe, OriginInv, PeerInv
  <2>3. pending[u] = c
    BY <1>1, <2>2 DEF CourseInv, Course, RingCourse, Active
  <2> QED BY <1>1, <1>5, <2>1, <2>2, <2>3 DEF Reject, SendsToProxy, CallsTypeOK
<1>6. ASSUME NEW m \in outbox, NEW v \in Users, RegisterAnswered(m, v) \/ ClientReceive(m, v)
      PROVE  Left(c, Other(c, u)) \/ (u = Caller[c] /\ Lost(c))
  <2>1. /\ Handles(v, m) /\ v = u /\ m.call = c
        /\ m.type \in {"BYE", "200_BYE"} \cup ErrorTypes
    <3>1. Handles(v, m)
      BY <1>1, <1>6, ClientHandles
    <3>2. ASSUME NEW busy \in BOOLEAN, ReceiveInvite(m, v, busy) PROVE FALSE
      <4>1. active' = active \/ active' = [active EXCEPT ![v] = m.call]
        BY <3>2 DEF ReceiveInvite, Enter
      <4>2. m.call \in CallIds
        BY <1>1, AbroadType DEF Message
      <4> QED BY <1>1, <4>1, <4>2 DEF CallsTypeOK
    <3>3. CASE ReceiveBye(m, v) \/ ReceiveEnd(m, v)
      BY <1>1, <3>1, <3>3 DEF ReceiveBye, ReceiveEnd, Terminate, CallsTypeOK, Active
    <3>4. CASE ReceiveProgress(m, v) \/ ReceiveNothing(m, v) \/ UNCHANGED active
      BY <1>1, <3>4 DEF ReceiveProgress, ReceiveNothing
    <3> QED BY <1>1, <1>6, <3>1, <3>2, <3>3, <3>4, ClientHandles
  <2>2. CASE m.type = "BYE"
    <3>1. m.to = Home[Other(c, Other(c, u))] /\ Other(c, u) \in Party(c)
      BY <2>1, Parties DEF Handles
    <3> QED BY <1>1, <2>1, <2>2, <3>1 DEF Ended
  <2>3. CASE m.type = "200_BYE"
    BY <1>1, <2>1, <2>3 DEF Course, MessageCourse, Left
  <2>4. CASE m.type \in {"486", "603"}
    <3>1. Left(c, Callee[c])
      BY <1>1, <2>1, <2>4 DEF Course, MessageCourse
    <3>2. u = Caller[c]
      BY <3>1 DEF Left, Party
    <3> QED BY <3>1, <3>2 DEF Other
  <2>5. CASE m.type \in Errors
    <3>1. Lost(c) \/ (Heard(c) /\ Gone(c))
      BY <1>1, <2>1, <2>5 DEF Course, MessageCourse, Failed
    <3>2. Gone(c) => Left(c, Other(c, u))
      BY Parties DEF Gone, Left
    <3>3. Lost(c) => u = Caller[c]
      BY <1>1 DEF Lost, Heard, Party, Safe, OriginInv, PeerInv
    <3> QED BY <3>1, <3>2, <3>3
  <2> QED BY <2>1, <2>2, <2>3, <2>4, <2>5 DEF ErrorTypes, Errors
<1> QED BY <1>2, <1>3, <1>4, <1>5, <1>6 DEF PeerStep, UserStep, ClientTakes

LEMMA RingCourseNext ==
  ASSUME CourseInv, [CallsNext]_allVars, StayInCall, NEW c \in CallIds
  PROVE  RingCourse(c)'
<1>1. /\ Types /\ PeerMoves /\ Course(c) /\ Callee[c] \in Users /\ Callee[c] \in Party(c)
      /\ Callee[c] # Caller[c] /\ c # NoCall
  BY Moves DEF CourseInv, LifeInv, TraceInv, Safe, OriginInv, Party
<1> SUFFICES ASSUME pending'[Callee[c]] = c PROVE Active(c, Callee[c])'
  BY DEF RingCourse
<1>2. CASE pending'[Callee[c]] # pending[Callee[c]]
  BY <1>1, <1>2 DEF PeerMoves, Active
<1>3. CASE pending[Callee[c]] = c
  <2> SUFFICES ASSUME ~Active(c, Callee[c])' PROVE FALSE
    OBVIOUS
  <2>1. Active(c, Callee[c])
    BY <1>1, <1>3 DEF Course, RingCourse
  <2>2. PeerStep
    BY <1>1, <2>1, StepKinds, PeersKept DEF Types, Active
  <2>3. ~Decided(c) /\ ~Lost(c)
    BY <1>3, <2>1 DEF Decided, Lost, Heard, CourseInv, LifeInv, TraceInv, Safe,
                      OriginInv, PeerInv
  <2>4. ~Left(c, Other(c, Callee[c]))
    BY <1>1, <2>3 DEF Other, Course, CallerCourse
  <2>5. state[Callee[c]] # "incall"
    BY <1>1, <2>1, <2>3 DEF Course, TalkCourse
  <2> QED BY <1>1, <2>1, <2>2, <2>4, <2>5, LeavesWhy
<1> QED BY <1>2, <1>3

LEMMA TalkCourseNext ==
  ASSUME CourseInv, [CallsNext]_allVars, NEW c \in CallIds
  PROVE  TalkCourse(c)'
<1>1. TraceInv /\ Types /\ PeerMoves /\ Course(c) /\ c # NoCall
  BY Moves DEF CourseInv, LifeInv, TraceInv, Safe, OriginInv
<1> SUFFICES ASSUME NEW u \in Party(c), Active(c, u)', state'[u] = "incall"
             PROVE  Decided(c)'
  BY DEF TalkCourse
<1>2. u \in Users /\ Active(c, u)
  BY <1>1, Parties DEF PeerMoves, Active
<1>3. CASE state[u] = "incall" \/ \E m \in outbox : m.type = "200_INVITE" /\ m.call = active[u]
  <2>1. Decided(c)
    BY <1>1, <1>2, <1>3 DEF Course, TalkCourse, MessageCourse, Active
  <2> QED BY <1>1, <2>1, CourseStays
<1>4. CASE Answer(u)
  <2>1. pending[u] \in CallIds /\ Callee[pending[u]] = u /\ pending'[u] = NoCall
    BY <1>1, <1>2, <1>4 DEF Answer, Types, CallsTypeOK, TraceInv, Safe, OriginInv, PeerInv
  <2>2. pending[u] = c
    BY <1>2, <2>1 DEF CourseInv, Course, RingCourse, Active
  <2>3. Heard(c)'
    BY <1>1, <1>2, <2>1, <2>2, CourseStays DEF TraceInv, Safe, OriginInv, PeerInv, Heard
  <2> QED BY <1>1, <2>1, <2>2, <2>3 DEF Decided
<1> QED BY <1>1, <1>2, <1>3, <1>4 DEF PeerMoves

LEMMA CallerCourseNext ==
  ASSUME CourseInv, [CallsNext]_allVars, StayInCall, NEW c \in CallIds
  PROVE  CallerCourse(c)'
<1>1. /\ TraceInv /\ Types /\ Course(c) /\ Caller[c] \in Party(c)
      /\ Caller[c] # Callee[c]
  BY DEF CourseInv, LifeInv, TraceInv, Safe, Party
<1> SUFFICES ASSUME Left(c, Caller[c])' PROVE Decided(c) \/ Lost(c)
  BY <1>1, CourseStays, LostStays DEF CallerCourse
<1>2. CASE Left(c, Caller[c])
  BY <1>1, <1>2 DEF Course, CallerCourse
<1>3. CASE ~Left(c, Caller[c])
  <2>1. Active(c, Caller[c]) /\ ~Active(c, Caller[c])'
    BY <1>1, <1>3, PlaceStep DEF PlaceOf, Left
  <2>2. PeerStep
    BY <1>1, <2>1, StepKinds, PeersKept DEF Types, Active
  <2>3. state[Caller[c]] = "incall" => Decided(c)
    BY <1>1, <2>1 DEF Course, TalkCourse
  <2>4. Left(c, Callee[c]) => Decided(c)
    BY <1>1 DEF Course, RingCourse, Left, Decided, Heard
  <2> QED BY <1>1, <2>1, <2>2, <2>3, <2>4, LeavesWhy DEF Other
<1> QED BY <1>2, <1>3

\* An ACK answers a 200 or an error.
LEMMA AckSent ==
  ASSUME Types, PeerStep, NEW p \in wire' \ wire, p.type = "ACK"
  PROVE  \E m \in outbox : m.call = p.call /\ m.type \in {"200_INVITE"} \cup ErrorTypes
<1>1. CASE UserStep
  <2>1. \/ \E u \in Users : p = Registration(u) \/ p = Request("BYE", active[u], u)
        \/ \E c \in CallIds : p = Request("INVITE", c, Caller[c])
        \/ \E u \in Users : \E t \in {"200_INVITE", "603"} : p = Response(t, pending[u], u)
    BY <1>1 DEF UserStep, Register, RetryRegister, GiveUpRegister, SendRegister, Dial,
       Answer, Reject, HangUp, SendsToProxy, netVars
  <2> QED BY <2>1 DEF Registration, Request, Response
<1>2. ASSUME NEW m \in outbox, NEW u \in Users, RegisterAnswered(m, u) \/ ClientReceive(m, u)
      PROVE  m.call = p.call /\ m.type \in {"200_INVITE"} \cup ErrorTypes
  <2>1. ASSUME NEW busy \in BOOLEAN, ReceiveInvite(m, u, busy) PROVE FALSE
    BY <2>1 DEF ReceiveInvite, SendsToProxy, Response
  <2>2. ~ReceiveBye(m, u)
    BY DEF ReceiveBye, SendsToProxy, Response
  <2>3. CASE ReceiveProgress(m, u) \/ ReceiveEnd(m, u)
    BY <2>3 DEF ReceiveProgress, ReceiveEnd, SendsToProxy, Request
  <2>4. ~UNCHANGED wire
    OBVIOUS
  <2> QED BY <1>2, <2>1, <2>2, <2>3, <2>4, ClientHandles DEF ReceiveNothing, Types
<1> QED BY <1>1, <1>2 DEF PeerStep, ClientTakes

LEMMA PacketCourseNext ==
  ASSUME CourseInv, [CallsNext]_allVars, NEW c \in CallIds
  PROVE  PacketCourse(c)'
<1>1. TraceInv /\ Safe /\ Types /\ Once(c) /\ Course(c) /\ Callee[c] \in Party(c)
  BY DEF CourseInv, LifeInv, TraceInv, Safe, Party
<1> SUFFICES ASSUME NEW p \in Abroad', p.call = c
             PROVE  /\ p.type = "200_INVITE" => Decided(c)'
                    /\ p.type = "603" => Left(c, Callee[c])'
                    /\ p.type = "ACK" => Heard(c)' \/ Lost(c)'
  BY DEF PacketCourse
<1>2. CASE p \in Abroad
  BY <1>1, <1>2, CourseStays, LostStays, LeftStays DEF Course, PacketCourse
<1>3. CASE p \notin Abroad
  <2>1. p \in wire' \ wire /\ PeerStep
    BY <1>1, <1>3, AbroadStep
  <2>2. Occasion(p)
    BY <1>1, <2>1, SentPacket DEF Safe, OriginInv
  <2>3. ASSUME p.type \in {"200_INVITE", "603"}
        PROVE  pending[Callee[c]] = c /\ Heard(c) /\ Active(c, Callee[c])
    BY <1>1, <2>2, <2>3 DEF Occasion, Course, RingCourse, Safe, OriginInv, PeerInv, Heard
  <2>4. CASE p.type = "200_INVITE"
    <3>1. Answer(Callee[c]) /\ c # NoCall
      BY <2>2, <2>4 DEF Occasion
    <3>2. pending'[Callee[c]] = NoCall
      BY <1>1, <3>1 DEF Answer, Types, CallsTypeOK
    <3> QED BY <1>1, <2>3, <2>4, <3>1, <3>2, CourseStays DEF Decided
  <2>5. CASE p.type = "603"
    <3>1. Reject(Callee[c])
      BY <2>2, <2>5 DEF Occasion
    <3> QED BY <1>1, <2>3, <2>5, <3>1, LeavesNow DEF Reject
  <2>6. CASE p.type = "ACK"
    <3>1. PICK m \in outbox : m.call = c /\ m.type \in {"200_INVITE"} \cup ErrorTypes
      BY <1>1, <2>1, <2>6, AckSent
    <3>2. Heard(c) \/ Lost(c)
      BY <1>1, <3>1 DEF Course, MessageCourse, ErrorTypes, Errors, Decided, Failed, Left, Heard
    <3> QED BY <1>1, <2>6, <3>2, CourseStays, LostStays
  <2> QED BY <2>4, <2>5, <2>6
<1> QED BY <1>2, <1>3

LEMMA MessageCourseNext ==
  ASSUME CourseInv, [CallsNext]_allVars, NEW c \in CallIds
  PROVE  MessageCourse(c)'
<1>1. /\ TraceInv /\ Safe /\ Types /\ Once(c) /\ Ended(c) /\ Course(c)
      /\ Callee[c] \in Party(c)
  BY DEF CourseInv, LifeInv, TraceInv, Safe, Party
<1>2. ASSUME NEW m \in outbox', m.call = c
      PROVE  /\ m.type = "200_INVITE" => Decided(c)
             /\ m.type \in {"486", "603"} => Left(c, Callee[c])
             /\ m.type = "200_BYE" => \A u \in Party(c) : Left(c, u)
             /\ m.type \in Errors => Failed(c)
  <2>1. CASE m \in outbox
    BY <1>1, <1>2, <2>1 DEF Course, MessageCourse
  <2>2. CASE m \notin outbox
    <3>1. PICK w \in Workers :
               /\ pc[w] = "send"
               /\ m = IF reply[w] = "none" THEN Relay(pkt[w], snap[w])
                      ELSE LocalResponse(pkt[w], reply[w])
      BY <1>1, <2>2, NewMessage
    <3>2. /\ HandlesCall(w, c) /\ pkt[w] \in Abroad
          /\ m.type = IF reply[w] = "none" THEN pkt[w].type ELSE reply[w]
          /\ reply[w] # "none" => reply[w] \in LocalStatus
      BY <1>1, <1>2, <3>1, SentMessage DEF Safe, OriginInv, HandlesCall, Busy, Abroad
    <3>3. CASE reply[w] = "none"
      <4>1. pkt[w].type \notin Errors
        BY <1>1, <3>2, AbroadType DEF Packet, RequestTypes, ResponseTypes, Errors
      <4> QED BY <1>1, <3>2, <3>3, <4>1 DEF Course, PacketCourse, Ended, HandlesCall
    <3>4. CASE reply[w] # "none"
      <4>1. pkt[w].type = "REGISTER" => reply[w] \notin Errors
        BY <1>1, <3>2, <3>4 DEF Course, ReplyCourse, Errors
      <4> QED BY <1>1, <3>2, <3>4, <4>1 DEF Course, ReplyCourse, LocalStatus, Errors
    <3> QED BY <3>3, <3>4
  <2> QED BY <2>1, <2>2
<1> QED BY <1>1, <1>2, CourseStays, LeftStays DEF MessageCourse

LEMMA ReplyCourseNext ==
  ASSUME NoDuplicates, CourseInv, [CallsNext]_allVars, NEW c \in CallIds
  PROVE  ReplyCourse(c)'
<1>1. /\ LifeInv /\ TraceInv /\ Safe /\ Types /\ Once(c) /\ Once(c)' /\ Ended(c) /\ Course(c)
  BY OnceNext DEF CourseInv, LifeInv, TraceInv, Safe
<1> SUFFICES ASSUME NEW w \in Workers, HandlesCall(w, c)', reply'[w] # "none"
             PROVE  /\ pc'[w] = "send"
                    /\ IF pkt'[w].type = "REGISTER" THEN reply'[w] = "R200"
                       ELSE reply'[w] \in Errors /\ Failed(c)'
  BY DEF ReplyCourse
<1>2. ASSUME UNCHANGED <<pc[w], pkt[w], reply[w]>>
      PROVE  /\ pc'[w] = "send"
             /\ IF pkt'[w].type = "REGISTER" THEN reply'[w] = "R200"
                ELSE reply'[w] \in Errors /\ Failed(c)'
  BY <1>1, <1>2, CourseStays DEF Course, ReplyCourse, HandlesCall, Busy
<1>3. CASE PeerStep \/ LossStep \/ UNCHANGED allVars
  BY <1>2, <1>3, RouterKept
<1>4. ASSUME NEW v \in Workers, NEW p \in wire, TakeStep(v, p)
      PROVE  UNCHANGED <<pc[w], pkt[w], reply[w]>>
  <2>1. Receive(v, p)
    BY <1>4 DEF TakeStep, ReceiveFromWire, ReceiveDuplicate
  <2> QED BY <1>1, <2>1, ReceiveLocal, FirstReplyNone DEF Types
<1>5. ASSUME NEW v \in Workers, WorkerStep(v), v # w
      PROVE  UNCHANGED <<pc[w], pkt[w], reply[w]>>
  BY <1>1, <1>5, ProceedLocal DEF WorkerStep, Types
<1>6. CASE WorkerStep(w)
  <2>1. /\ Proceed(w) /\ Busy(w)' /\ pkt'[w] = pkt[w] /\ HandlesCall(w, c)
        /\ pkt[w] \in Abroad
    BY <1>1, <1>6, ProceedLocal DEF WorkerStep, Types, HandlesCall, Abroad
  <2>2. ~(reply'[w] = reply[w] /\ pc[w] # "send")
    BY <1>1, <2>1 DEF Course, ReplyCourse
  <2>3. CASE pc[w] = "regCount" /\ reply'[w] = "R200" /\ pc'[w] = "send"
    BY <1>1, <2>1, <2>3 DEF Types, StepInv
  <2>4. CASE /\ pc[w] \in {"invLookup", "invCreate"} /\ reply'[w] \in {"R400", "R404"}
             /\ pc'[w] = "send"
    <3>1. Inviting(w, c)'
      BY <1>1, <2>1, <2>4 DEF Inviting, Types, StepInv, InviteSteps
    <3>2. Lost(c)'
      BY <1>1, <2>4, <3>1 DEF Once, Lost, Coming
    <3> QED BY <2>4, <3>1, <3>2 DEF Inviting, Failed, Errors
  <2>5. CASE /\ pc[w] = "ctxRead" /\ reply'[w] = "R400" /\ pc'[w] = "send"
             /\ ctx[c] = NoContext /\ pkt[w].type \notin ResponseTypes
    <3>1. pkt[w].type \in {"ACK", "BYE"} /\ pkt[w].call = c
      BY <1>1, <2>1, <2>5 DEF Types, StepInv, HandlesCall
    <3>2. ASSUME pkt[w].type = "ACK" PROVE Failed(c)
      <4>1. Heard(c) \/ Lost(c)
        BY <1>1, <2>1, <3>1, <3>2 DEF Course, PacketCourse
      <4>2. Heard(c) => Gone(c)
        BY <1>1, <2>5, ContextGone, EndedParts DEF Gone
      <4> QED BY <4>1, <4>2 DEF Failed
    <3>3. ASSUME pkt[w].type = "BYE" PROVE Failed(c)
      <4>1. pkt[w].from \in Party(c) /\ Left(c, pkt[w].from)
        BY <1>1, <2>1, <3>1, <3>3 DEF Ended, Safe, OriginInv, PacketInv, Genuine
      <4> QED BY <1>1, <4>1, GoneFailed DEF Gone, Course
    <3> QED BY <1>1, <2>1, <2>5, <3>1, <3>2, <3>3, CourseStays DEF Errors
  <2> QED BY <1>1, <2>1, <2>2, <2>3, <2>4, <2>5, ReplyStep DEF HandlesCall
<1> QED BY <1>2, <1>3, <1>4, <1>5, <1>6, StepKinds

LEMMA CourseNext ==
  ASSUME NoDuplicates, CourseInv, [CallsNext]_allVars, StayInCall
  PROVE  CourseInv'
<1>1. LifeInv'
  BY TraceNext, AnnouncedNext DEF CourseInv, LifeInv
<1>2. \A c \in CallIds : Course(c)'
  BY RingCourseNext, TalkCourseNext, CallerCourseNext, PacketCourseNext,
     MessageCourseNext, ReplyCourseNext DEF Course
<1> QED BY <1>1, <1>2 DEF CourseInv

(***************************************************************************)
(* Nobody is left waiting on a network that loses nothing.                  *)
(***************************************************************************)

\* Clients take nothing off the wire, and of the outbox the one message that
\* one of them handles.
LEMMA PeerHandles ==
  ASSUME Types, PeerStep
  PROVE  /\ wire \subseteq wire'
         /\ \A m \in outbox \ outbox' : \E u \in Users :
              /\ m.to = Home[u]
              /\ RegisterAnswered(m, u) \/ ClientReceive(m, u)
<1>1. CASE UserStep
  <2>1. outbox' = outbox
    BY <1>1 DEF UserStep, Register, RetryRegister, GiveUpRegister, SendRegister, Dial,
       Answer, Reject, HangUp, ProxyUnchanged, ioVars
  <2>2. wire \subseteq wire'
    BY <1>1 DEF UserStep, Register, RetryRegister, GiveUpRegister, SendRegister, Dial,
       Answer, Reject, HangUp, SendsToProxy, netVars
  <2> QED BY <2>1, <2>2
<1>2. ASSUME NEW m \in outbox, NEW u \in Users, RegisterAnswered(m, u) \/ ClientReceive(m, u)
      PROVE  outbox' = outbox \ {m} /\ wire \subseteq wire' /\ m.to = Home[u]
  <2>1. Handles(u, m)
    BY <1>2, ClientHandles DEF Types
  <2>2. wire \subseteq wire'
    BY <1>2, ClientHandles DEF Types, ReceiveInvite, ReceiveBye, ReceiveProgress,
       ReceiveEnd, ReceiveNothing, SendsToProxy
  <2> QED BY <2>1, <2>2 DEF Handles, Deliver
<1>3. CASE ClientTakes
  BY <1>2, <1>3 DEF ClientTakes
<1> QED BY <1>1, <1>3 DEF PeerStep

\* A message that ends a client's call makes it leave.
LEMMA EndsCall ==
  ASSUME Types, NEW m \in outbox, NEW u \in Users,
         RegisterAnswered(m, u) \/ ClientReceive(m, u),
         m.type \in {"BYE"} \cup ErrorTypes, Active(m.call, u)
  PROVE  ~Active(m.call, u)'
<1>1. CallsTypeOK /\ m.call \in CallIds /\ m.call # NoCall
  BY AbroadType DEF Types, Message
<1>2. ClientReceive(m, u)
  BY DEF RegisterAnswered, ErrorTypes
<1>3. ReceiveBye(m, u) \/ ReceiveEnd(m, u)
  <2>1. ~ \E busy \in BOOLEAN : ReceiveInvite(m, u, busy)
    BY DEF ReceiveInvite, ErrorTypes
  <2>2. ~ReceiveProgress(m, u) /\ ~ReceiveNothing(m, u)
    BY DEF ReceiveProgress, ReceiveNothing, ErrorTypes
  <2> QED BY <1>2, <2>1, <2>2 DEF ClientReceive
<1>4. Terminate(u)
  BY <1>3 DEF ReceiveBye, ReceiveEnd
<1> QED BY <1>1, <1>4 DEF Terminate, Active, CallsTypeOK

\* The proxy's steps add to the outbox.
LEMMA ProxyKeeps ==
  ASSUME Types,
         \/ \E w \in Workers : WorkerStep(w)
         \/ \E w \in Workers : \E p \in wire : TakeStep(w, p)
  PROVE  outbox \subseteq outbox'
<1>1. ASSUME NEW w \in Workers, Proceed(w) PROVE outbox \subseteq outbox'
  BY <1>1 DEF Proceed, RegStore, RegCount, InvLookup, InvCreate, InvStore, InvEvent,
     InvCount, CtxRead, FindCall, SessionEvent, AckFind, AckCheck, StoreAnswer,
     RemoveCall, EraseContext, DecCheck, Dec, Send, ioVars
<1>2. ASSUME NEW w \in Workers, NEW p \in wire, TakeStep(w, p) PROVE outbox' = outbox
  BY <1>2 DEF TakeStep, ReceiveFromWire, ReceiveDuplicate, Receive
<1> QED BY <1>1, <1>2 DEF WorkerStep

\* A worker lets go of a packet when it has sent what comes of it, or has found
\* no context for a response.
LEMMA LetsGo ==
  ASSUME Types, NEW w \in Workers, Proceed(w), ~Busy(w)'
  PROVE  \/ /\ pc[w] = "send"
            /\ (IF reply[w] = "none" THEN Relay(pkt[w], snap[w])
                ELSE LocalResponse(pkt[w], reply[w])) \in outbox'
         \/ pc[w] = "ctxRead" /\ ctx[pkt[w].call] = NoContext
<1>1. pc \in [Workers -> Steps]
  BY DEF Types, TypeOK
<1>2. Send(w) \/ CtxRead(w)
  BY <1>1 DEF Proceed, RegStore, RegCount, InvLookup, InvCreate, CreateSession,
     InvStore, InvEvent, InvCount, FindCall, SessionEvent, AckFind, AckCheck,
     StoreAnswer, RemoveCall, EraseContext, DecCheck, Dec, Respond, Goto, Busy,
     AfterEvent, AfterDec
<1> QED BY <1>1, <1>2 DEF Send, CtxRead, Respond, Goto, Busy

LEMMA ReachingNext ==
  ASSUME NoDuplicates, ~Lossy, CourseInv, [CallsNext]_allVars, NEW c \in CallIds,
         Reaching(c)
  PROVE  Reaching(c)'
<1>1. /\ TraceInv /\ Safe /\ Types /\ Course(c) /\ PeerMoves
      /\ Caller[c] \in Users /\ Callee[c] \in Users /\ Caller[c] # Callee[c] /\ c # NoCall
  BY Moves DEF CourseInv, LifeInv, TraceInv, Safe, OriginInv
<1> DEFINE Refused == \E m \in outbox :
                        m.call = c /\ m.type \in Errors /\ m.to = Home[Caller[c]]
<1> SUFFICES ASSUME Active(c, Caller[c])', ~Heard(c)'
             PROVE  \/ Invitation(c) \in wire' \/ InviteOut(c)' \/ Refused'
                    \/ \E w \in Workers : Inviting(w, c)'
  BY DEF Reaching
<1>2. ~Heard(c)
  BY <1>1, CourseStays
<1>3. CASE ~Active(c, Caller[c])
  <2>1. Enters(c, Caller[c])
    BY <1>1, <1>3 DEF PeerMoves, Active
  <2>2. Dial(c)
    BY <1>1, <2>1 DEF Enters
  <2> QED BY <2>2 DEF Dial, SendsToProxy, Invitation
<1>4. CASE Active(c, Caller[c])
  <2>1. \/ Invitation(c) \in wire \/ InviteOut(c) \/ Refused
        \/ \E w \in Workers : Inviting(w, c)
    BY <1>2, <1>4 DEF Reaching
  <2>2. CASE PeerStep
    <3>1. \A w \in Workers : Inviting(w, c) => Inviting(w, c)'
      BY <2>2, RouterKept DEF Inviting, HandlesCall, Busy
    <3>2. InviteOut(c) => InviteOut(c)'
      <4> SUFFICES ASSUME InviteOut(c), ~InviteOut(c)' PROVE FALSE
        OBVIOUS
      <4>1. PICK m \in outbox \ outbox' : m.type = "INVITE" /\ m.call = c
        BY DEF InviteOut
      <4>2. PICK u \in Users : m.to = Home[u] /\ (RegisterAnswered(m, u) \/ ClientReceive(m, u))
        BY <1>1, <2>2, <4>1, PeerHandles
      <4>3. u = Callee[c]
        BY <1>1, <4>1, <4>2 DEF Safe, OriginInv, MessageInv, RightMessage
      <4>4. \E busy \in BOOLEAN : ReceiveInvite(m, u, busy)
        BY <4>1, <4>2 DEF RegisterAnswered, ClientReceive, ReceiveBye, ReceiveProgress,
           ReceiveEnd, ReceiveNothing, ErrorTypes
      <4>5. <<c, u>> \in joined'
        BY <4>1, <4>4 DEF ReceiveInvite, Enter
      <4> QED BY <4>3, <4>5 DEF Heard
    <3>3. Refused => Refused'
      <4> SUFFICES ASSUME NEW m \in outbox \ outbox', m.call = c, m.type \in Errors,
                          m.to = Home[Caller[c]]
                   PROVE  FALSE
        OBVIOUS
      <4>1. PICK u \in Users : m.to = Home[u] /\ (RegisterAnswered(m, u) \/ ClientReceive(m, u))
        BY <1>1, <2>2, PeerHandles
      <4>2. u = Caller[c]
        BY <1>1, <4>1
      <4>3. ~Active(c, u)'
        BY <1>1, <1>4, <4>1, <4>2, EndsCall DEF Errors, ErrorTypes
      <4> QED BY <4>2, <4>3
    <3> QED BY <1>1, <2>1, <2>2, <3>1, <3>2, <3>3, PeerHandles
  <2>3. ASSUME NEW w \in Workers, NEW p \in wire, TakeStep(w, p)
        PROVE  \/ Invitation(c) \in wire' \/ InviteOut(c)' \/ Refused'
               \/ \E v \in Workers : Inviting(v, c)'
    <3>1. Receive(w, p) /\ wire' = wire \ {p}
      BY <1>1, <2>3, TakenOnce
    <3>2. /\ ~Busy(w) /\ pc'[w] = FirstStep(p)
          /\ \A v \in Workers : v # w => UNCHANGED <<pc[v], pkt[v]>>
          /\ pkt'[w] = IF FirstStep(p) = "idle" THEN NoPacket ELSE p
      BY <1>1, <3>1, ReceiveLocal DEF Types
    <3>3. \A v \in Workers : Inviting(v, c) => Inviting(v, c)'
      BY <3>2 DEF Inviting, HandlesCall, Busy
    <3>4. p = Invitation(c) => Inviting(w, c)'
      BY <3>2, InvitationFields DEF Inviting, HandlesCall, Busy
    <3>5. (InviteOut(c) => InviteOut(c)') /\ (Refused => Refused')
      BY <1>1, <2>3, ProxyKeeps DEF InviteOut
    <3> QED BY <2>1, <3>1, <3>3, <3>4, <3>5
  <2>4. ASSUME NEW w \in Workers, WorkerStep(w)
        PROVE  \/ Invitation(c) \in wire' \/ InviteOut(c)' \/ Refused'
               \/ \E v \in Workers : Inviting(v, c)'
    <3>1. /\ Proceed(w) /\ wire' = wire
          /\ \A v \in Workers : v # w => UNCHANGED <<pc[v], pkt[v]>>
          /\ (Busy(w)' /\ pkt'[w] = pkt[w]) \/ ~Busy(w)'
      BY <1>1, <2>4, ProceedLocal DEF WorkerStep, netVars, Types
    <3>2. (InviteOut(c) => InviteOut(c)') /\ (Refused => Refused')
      BY <1>1, <2>4, ProxyKeeps DEF InviteOut
    <3>3. \A v \in Workers : v # w /\ Inviting(v, c) => Inviting(v, c)'
      BY <3>1 DEF Inviting, HandlesCall, Busy
    <3>4. ASSUME Inviting(w, c), ~Inviting(w, c)' PROVE InviteOut(c)' \/ Refused'
      <4> DEFINE m == IF reply[w] = "none" THEN Relay(pkt[w], snap[w])
                      ELSE LocalResponse(pkt[w], reply[w])
      <4>1. ~Busy(w)'
        BY <3>1, <3>4 DEF Inviting, HandlesCall
      <4>2. pc[w] # "ctxRead"
        BY <1>1, <3>4 DEF Inviting, Types, StepInv, ResponseTypes
      <4>3. pc[w] = "send" /\ m \in outbox'
        BY <1>1, <3>1, <4>1, <4>2, LetsGo
      <4>4. /\ m.call = c /\ m.type = IF reply[w] = "none" THEN "INVITE" ELSE reply[w]
        BY <1>1, <3>4, <4>3, SentMessage DEF Safe, OriginInv, Inviting, HandlesCall
      <4>5. CASE reply[w] = "none"
        BY <4>3, <4>4, <4>5 DEF InviteOut
      <4>6. CASE reply[w] # "none"
        <5>1. reply[w] \in Errors
          BY <1>1, <3>4, <4>6 DEF Course, ReplyCourse, Inviting
        <5>2. pkt[w] = Invitation(c)
          BY <1>1, <3>4, InvitePacket DEF Inviting, HandlesCall, Abroad
        <5>3. m.to = Home[Caller[c]]
          BY <4>6, <5>2 DEF LocalResponse, Invitation, Request
        <5> QED BY <4>3, <4>4, <4>6, <5>1, <5>3
      <4> QED BY <4>5, <4>6
    <3> QED BY <2>1, <3>1, <3>2, <3>3, <3>4
  <2>5. CASE UNCHANGED allVars
    BY <2>1, <2>5 DEF allVars, vars, workerVars, ioVars, netVars, InviteOut, Inviting,
       HandlesCall, Busy
  <2>6. ~LossStep
    BY DEF LossStep, LosePacket, LoseMessage
  <2> QED BY <2>2, <2>3, <2>4, <2>5, <2>6, StepKinds
<1> QED BY <1>3, <1>4

\* Who refuses a call without having been in it says so.
LEMMA Refuses ==
  ASSUME Safe, PeerStep, NEW c \in CallIds, Enters(c, Callee[c]), ~Active(c, Callee[c])'
  PROVE  Response("486", c, Callee[c]) \in wire'
<1>1. PICK m \in outbox : Handles(Callee[c], m) /\ m.type = "INVITE" /\ m.call = c
  BY DEF Enters
<1>2. m \notin outbox' /\ Types
  BY <1>1 DEF Handles, Deliver, Safe
<1>3. PICK u \in Users : m.to = Home[u] /\ (RegisterAnswered(m, u) \/ ClientReceive(m, u))
  BY <1>1, <1>2, PeerHandles
<1>4. u = Callee[c]
  BY <1>1, <1>3 DEF Handles
<1>5. PICK busy \in BOOLEAN : ReceiveInvite(m, u, busy)
  BY <1>1, <1>3 DEF RegisterAnswered, ClientReceive, ReceiveBye, ReceiveProgress,
     ReceiveEnd, ReceiveNothing, ErrorTypes
<1>6. busy
  BY <1>1, <1>2, <1>4, <1>5 DEF ReceiveInvite, Enter, Types, CallsTypeOK, Active
<1> QED BY <1>1, <1>4, <1>5, <1>6 DEF ReceiveInvite, SendsToProxy

\* What brings a call's end is its own, and brings it to one party only.
LEMMA BringsTo ==
  ASSUME Safe, NEW c \in CallIds, Ended(c), PacketCourse(c), NEW v \in Party(c),
         Active(c, v), NEW p \in Abroad, p.call = c, p.type \in {"BYE", "486", "603"}
  PROVE  Brings(p, c, v)
<1>1. CASE p.type = "BYE"
  <2>1. p.from \in Party(c) /\ p.from # v
    BY <1>1 DEF Ended, Left, Safe, OriginInv, PacketInv, Genuine
  <2> QED BY <1>1, <2>1, Parties DEF Brings
<1>2. CASE p.type \in {"486", "603"}
  <2>1. Left(c, Callee[c])
    BY <1>2 DEF Ended, PacketCourse
  <2> QED BY <1>2, <2>1 DEF Brings, Left, Party
<1> QED BY <1>1, <1>2

\* A party that is about to be told stays so, or is told.
LEMMA ToldStays ==
  ASSUME NoDuplicates, ~Lossy, CourseInv, [CallsNext]_allVars, NEW c \in CallIds,
         NEW v \in Party(c), Left(c, Other(c, v)), Active(c, v), Active(c, v)', Told(c, v)
  PROVE  Told(c, v)'
<1>1. /\ LifeInv /\ TraceInv /\ Safe /\ Types /\ Ended(c) /\ Course(c) /\ v \in Users
  BY Parties DEF CourseInv, LifeInv, TraceInv, Safe
<1> DEFINE OnWire == \E p \in wire : Brings(p, c, v)
           Carries(w) == /\ Busy(w) /\ Brings(pkt[w], c, v) /\ reply[w] = "none"
                         /\ pc[w] = "ctxRead" => ~Closed(c)
           OnItsWay == \E m \in outbox : /\ m.call = c /\ m.to = Home[v]
                                         /\ m.type \in {"486", "603", "BYE"}
<1>2. Told(c, v) <=> (~Closed(c) /\ OnWire) \/ (\E w \in Workers : Carries(w)) \/ OnItsWay
  BY DEF Told
<1>3. Told(c, v)' <=> (~Closed(c)' /\ OnWire') \/ (\E w \in Workers : Carries(w)') \/ OnItsWay'
  BY DEF Told
<1>4. ~(\E w \in Workers : WorkerStep(w) /\ pkt[w].call = c) => (Closed(c)' <=> Closed(c))
  <2> SUFFICES ASSUME ~ \E w \in Workers : WorkerStep(w) /\ pkt[w].call = c
               PROVE  Closed(c)' <=> Closed(c)
    OBVIOUS
  <2>1. UNCHANGED <<sessions[c], registry[c]>>
    BY <1>1, RecordOther
  <2>2. \A w \in Workers : (HandlesCall(w, c) /\ pc[w] = "remove")' <=>
                           (HandlesCall(w, c) /\ pc[w] = "remove")
    <3>1. \A w \in Workers :
              \/ UNCHANGED <<pc[w], pkt[w], Busy(w)>>
              \/ ~HandlesCall(w, c) /\ ~HandlesCall(w, c)'
              \/ ~Busy(w) /\ pc'[w] \in {"idle", "regStore", "invLookup", "ctxRead", "send"}
      BY <1>1, RecordOther
    <3> QED BY <3>1 DEF HandlesCall
  <2> QED BY <2>1, <2>2 DEF Closed
<1>5. CASE PeerStep
  <2>1. /\ wire \subseteq wire' /\ (Closed(c)' <=> Closed(c))
        /\ \A w \in Workers : Carries(w)' <=> Carries(w)
    <3>1. UNCHANGED <<sessions, registry, pc, pkt, reply>>
      BY <1>5, RouterKept
    <3>2. Closed(c)' <=> Closed(c)
      BY <3>1 DEF Closed, HandlesCall, Busy
    <3> QED BY <1>1, <1>5, <3>1, <3>2, PeerHandles DEF Busy
  <2>2. OnItsWay => OnItsWay'
    <3> SUFFICES ASSUME NEW m \in outbox \ outbox', m.call = c, m.to = Home[v],
                        m.type \in {"486", "603", "BYE"}
                 PROVE  FALSE
      OBVIOUS
    <3>1. PICK u \in Users : m.to = Home[u] /\ (RegisterAnswered(m, u) \/ ClientReceive(m, u))
      BY <1>1, <1>5, PeerHandles
    <3>2. u = v
      BY <1>1, <3>1
    <3> QED BY <1>1, <3>1, <3>2, EndsCall DEF ErrorTypes
  <2> HIDE DEF Carries, OnWire, OnItsWay
  <2>3. OnWire => OnWire'
    BY <2>1 DEF OnWire
  <2> QED BY <1>2, <1>3, <2>1, <2>2, <2>3
<1>6. ASSUME NEW w \in Workers, NEW p \in wire, TakeStep(w, p)
      PROVE  Told(c, v)'
  <2>1. Receive(w, p) /\ wire' = wire \ {p}
    BY <1>1, <1>6, TakenOnce
  <2>2. /\ ~Busy(w) /\ pc'[w] = FirstStep(p) /\ reply'[w] = "none"
        /\ \A u \in Workers : u # w => UNCHANGED <<pc[u], pkt[u], reply[u]>>
        /\ pkt'[w] = IF FirstStep(p) = "idle" THEN NoPacket ELSE p
        /\ p.type \in {"486", "603", "BYE"} => FirstStep(p) = "ctxRead"
    BY <1>1, <2>1, ReceiveLocal, FirstReplyNone DEF Types
  <2>3. Closed(c)' <=> Closed(c)
    <3>1. UNCHANGED <<sessions, registry>>
      BY <1>1, <2>1, ReceiveLocal DEF Types, proxyVars
    <3>2. FirstStep(p) # "remove"
      BY DEF FirstStep
    <3> QED BY <2>2, <3>1, <3>2 DEF Closed, HandlesCall, Busy
  <2>4. \A u \in Workers : Carries(u) => Carries(u)'
    BY <2>2, <2>3 DEF Busy
  <2>5. OnItsWay => OnItsWay'
    BY <1>1, <1>6, ProxyKeeps
  <2>6. Brings(p, c, v) /\ ~Closed(c) => Carries(w)'
    BY <2>2, <2>3 DEF Brings, Busy
  <2>7. OnWire => OnWire' \/ Brings(p, c, v)
    BY <2>1
  <2> HIDE DEF Carries, OnWire, OnItsWay
  <2> QED BY <1>2, <1>3, <2>3, <2>4, <2>5, <2>6, <2>7
<1>7. ASSUME NEW w \in Workers, WorkerStep(w), HandlesCall(w, c), reply[w] = "none",
             pkt[w].type \in {"BYE", "486", "603"}, pc[w] = "ctxRead" => ~Closed(c)
      PROVE  Told(c, v)'
  <2>1. /\ Proceed(w) /\ Busy(w)
        /\ (Busy(w)' /\ pkt'[w] = pkt[w]) \/ ~Busy(w)'
    BY <1>1, <1>7, ProceedLocal DEF WorkerStep, Types
  <2>2. Brings(pkt[w], c, v)
    BY <1>1, <2>1, <1>7, BringsTo DEF Course, HandlesCall, Abroad
  <2>3. pc[w] = "ctxRead" => ctx[c] # NoContext
    <3>1. Heard(c)
      BY <1>1 DEF Heard, Left, Safe, OriginInv, PeerInv, Party, Other
    <3> QED BY <1>1, <1>7, <3>1, ContextGone
  <2>4. CASE Busy(w)'
    <3>1. reply'[w] = "none" /\ pc'[w] # "ctxRead"
      <4>1. pc[w] \notin {"regCount", "invLookup", "invCreate"}
        BY <1>1, <1>7 DEF Types, StepInv, InviteSteps
      <4>2. pc'[w] # "ctxRead"
        BY <1>1, <2>1, <2>4 DEF Proceed, RegStore, RegCount, InvLookup, InvCreate,
           CreateSession, InvStore, InvEvent, InvCount, CtxRead, FindCall, SessionEvent,
           AckFind, AckCheck, StoreAnswer, RemoveCall, EraseContext, DecCheck, Dec, Send,
           Respond, Finish, Goto, Busy, AfterEvent, AfterDec, Types, TypeOK
      <4> QED BY <1>1, <2>1, <1>7, <2>3, <2>4, <4>1, <4>2, ReplyStep DEF HandlesCall
    <3>2. Carries(w)'
      BY <2>1, <2>2, <2>4, <3>1
    <3> HIDE DEF Carries, OnWire, OnItsWay
    <3> QED BY <1>3, <3>2
  <2>5. CASE ~Busy(w)'
    <3> DEFINE m == Relay(pkt[w], snap[w])
    <3>1. pc[w] = "send" /\ m \in outbox'
      BY <1>1, <2>1, <1>7, <2>3, <2>5, LetsGo DEF HandlesCall
    <3>2. m.call = c /\ m.type = pkt[w].type /\ RightMessage(m)
      BY <1>1, <1>7, <3>1, SentMessage DEF Safe, OriginInv, HandlesCall
    <3>3. m.to = Home[v]
      <4>1. CASE pkt[w].type = "BYE"
        <5>1. m.to = Home[Other(c, pkt[w].from)]
          BY <1>1, <1>7, <3>1, <3>2, <4>1, SentMessage DEF Safe, OriginInv
        <5> QED BY <2>2, <4>1, <5>1 DEF Brings
      <4>2. CASE pkt[w].type \in {"486", "603"}
        BY <2>2, <3>2, <4>2 DEF Brings, RightMessage, AnswerTypes
      <4> QED BY <1>7, <4>1, <4>2
    <3>4. OnItsWay'
      BY <1>7, <3>1, <3>2, <3>3
    <3> HIDE DEF Carries, OnWire, OnItsWay
    <3> QED BY <1>3, <3>4
  <2> QED BY <2>4, <2>5
<1>8. ASSUME NEW w \in Workers, WorkerStep(w)
      PROVE  Told(c, v)'
  <2>1. CASE Closed(c)' /\ ~Closed(c)
    <3>1. PICK u \in Workers : WorkerStep(u) /\ pkt[u].call = c
      BY <1>4, <2>1
    <3>2. HandlesCall(u, c)
      BY <1>1, <3>1, ProceedLocal DEF HandlesCall, WorkerStep, Types
    <3>3. pkt[u].type \in {"BYE", "200_BYE", "486"} /\ pc[u] \in {"find", "event"}
      BY <1>1, <2>1, <3>1, ClosesHow
    <3>4. pkt[u].type # "200_BYE"
      BY <1>1, <3>2 DEF Ended, HandlesCall, Abroad, Left
    <3>5. reply[u] = "none"
      BY <1>1, <3>2, <3>3 DEF Course, ReplyCourse
    <3> QED BY <1>7, <3>1, <3>2, <3>3, <3>4, <3>5
  <2>2. CASE ~(Closed(c)' /\ ~Closed(c))
    <3>1. /\ wire' = wire
          /\ \A u \in Workers : u # w => UNCHANGED <<pc[u], pkt[u], reply[u]>>
      BY <1>1, <1>8, ProceedLocal DEF WorkerStep, netVars, Types
    <3>2. (OnItsWay => OnItsWay') /\ (OnWire => OnWire')
      BY <1>1, <1>8, <3>1, ProxyKeeps
    <3>3. Carries(w) => Told(c, v)'
      BY <1>7, <1>8 DEF Brings, HandlesCall
    <3>4. ASSUME NEW u \in Workers, u # w, Carries(u) PROVE Carries(u)'
      BY <2>2, <3>1, <3>4 DEF Busy
    <3> HIDE DEF Carries, OnWire, OnItsWay
    <3> QED BY <1>2, <1>3, <2>2, <3>2, <3>3, <3>4
  <2> QED BY <2>1, <2>2
<1>9. CASE UNCHANGED allVars
  <2>1. UNCHANGED <<wire, outbox, pc, pkt, reply, sessions, registry>>
    BY <1>9 DEF allVars, vars, proxyVars, workerVars, ioVars, netVars
  <2> QED BY <2>1 DEF Told, Closed, HandlesCall, Busy
<1>10. ~LossStep
  BY DEF LossStep, LosePacket, LoseMessage
<1> QED BY <1>5, <1>6, <1>8, <1>9, <1>10, StepKinds

\* A party whose peer leaves now is told by what the peer sends.
LEMMA ToldNow ==
  ASSUME CourseInv, [CallsNext]_allVars, StayInCall, NEW c \in CallIds,
         NEW v \in Party(c), Active(c, v), Active(c, v)',
         ~Left(c, Other(c, v)), Left(c, Other(c, v))'
  PROVE  Told(c, v)'
<1> DEFINE o == Other(c, v)
<1>1. /\ TraceInv /\ Safe /\ Types /\ Ended(c) /\ Course(c) /\ PeerMoves
      /\ o \in Party(c) /\ o \in Users /\ Other(c, o) = v
  BY Moves, Parties DEF CourseInv, LifeInv, TraceInv, Safe, OriginInv
<1>2. PeerStep
  BY <1>1, StepKinds, PeersKept DEF Types, Active, Left
<1>3. ~Closed(c)
  <2>1. \A u \in Party(c) : ~Left(c, u)
    BY Parties DEF Left
  <2> QED BY <1>1, <2>1, EndedParts
<1>4. ~Closed(c)'
  <2>1. UNCHANGED <<sessions, registry, pc, pkt>>
    BY <1>2, RouterKept
  <2> QED BY <1>3, <2>1 DEF Closed, HandlesCall, Busy
<1>5. \E p \in wire' : Brings(p, c, v)
  <2>1. CASE Active(c, o)
    <3>1. ~Active(c, o)' /\ ~Left(c, Other(c, o))
      BY <1>1 DEF Left
    <3>2. ~(o = Caller[c] /\ Lost(c))
      BY <1>1 DEF Lost, Heard, Other, Party, Safe, OriginInv, PeerInv
    <3>3. Request("BYE", c, o) \in wire' \/ (o = Callee[c] /\ Response("603", c, o) \in wire')
      BY <1>1, <1>2, <2>1, <3>1, <3>2, LeavesWhy
    <3>4. Brings(Request("BYE", c, o), c, v)
      BY <1>1 DEF Brings, Request
    <3>5. o = Callee[c] => Brings(Response("603", c, o), c, v)
      BY <1>1 DEF Brings, Response, Other, Party
    <3> QED BY <3>3, <3>4, <3>5
  <2>2. CASE ~Active(c, o)
    <3>1. PlaceOf(c, o) = "out" /\ PlaceOf(c, o)' = "left"
      BY <2>2 DEF Left, PlaceOf, Active
    <3>2. Enters(c, o) /\ o # Caller[c]
      BY <1>1, <3>1, PlaceStep
    <3>3. o = Callee[c] /\ v = Caller[c]
      BY <1>1, <3>2 DEF Party, Other
    <3>4. Response("486", c, o) \in wire'
      BY <1>1, <1>2, <3>2, <3>3, Refuses DEF Left
    <3> QED BY <3>3, <3>4 DEF Brings, Response
  <2> QED BY <2>1, <2>2
<1> QED BY <1>4, <1>5 DEF Told

LEMMA TellingNext ==
  ASSUME NoDuplicates, ~Lossy, CourseInv, [CallsNext]_allVars, StayInCall,
         NEW c \in CallIds, Telling(c)
  PROVE  Telling(c)'
<1> SUFFICES ASSUME NEW v \in Party(c), Left(c, Other(c, v))', Active(c, v)'
             PROVE  Told(c, v)'
  BY DEF Telling
<1>1. /\ TraceInv /\ Safe /\ Types /\ Once(c) /\ Course(c) /\ PeerMoves /\ v \in Users
      /\ Other(c, v) \in Party(c) /\ Other(c, v) \in Users /\ Other(c, v) # v
      /\ Caller[c] # Callee[c]
  BY Moves, Parties DEF CourseInv, LifeInv, TraceInv, Safe, OriginInv
<1>2. Active(c, v)
  <2> SUFFICES ASSUME ~Active(c, v) PROVE FALSE
    OBVIOUS
  <2>1. Enters(c, v)
    BY <1>1 DEF PeerMoves, Active
  <2>2. PeerStep
    BY <1>1, StepKinds, PeersKept DEF Types, Active
  <2>3. Left(c, Other(c, v))
    BY <1>1, <2>1, <2>2, OneMover DEF Left, Active
  <2>4. CASE v = Caller[c]
    <3>1. Dial(c)
      BY <1>1, <2>1, <2>4 DEF Enters
    <3> QED BY <1>1, <2>3, <2>4, <3>1 DEF Dial, Once, Dialed, Heard, Left, Other
  <2>5. CASE v = Callee[c]
    <3>1. InviteOut(c)
      BY <1>1, <2>1, <2>5, HearsOnce
    <3>2. Left(c, Caller[c])
      BY <1>1, <2>3, <2>5 DEF Other
    <3> QED BY <1>1, <3>1, <3>2 DEF Course, CallerCourse, Decided, Lost, Coming, Once
  <2> QED BY <2>4, <2>5 DEF Party
<1> QED BY <1>2, ToldStays, ToldNow DEF Telling

\* When nothing of a call is under way, both its parties are in it or neither
\* is, for any number of users, calls and workers, whatever the order of the
\* packets and of the handlers' steps, as long as nothing is lost or repeated
\* and no client gets from one call into another (sip_router.cpp:245-314,
\* 388-486; sip_invite_handler.cpp:84-280, 322-350).
THEOREM PartiesAlwaysAgree ==
  ASSUME NoDuplicates, ~Lossy PROVE SteadySpec => []PartiesAgree
<1> DEFINE Inv == CourseInv /\ \A c \in CallIds : Reaching(c) /\ Telling(c)
<1>1. CallsInit => Inv
  <2> SUFFICES ASSUME CallsInit PROVE Inv
    OBVIOUS
  <2>1. /\ LifeInv /\ Abroad = {} /\ outbox = {} /\ \A w \in Workers : ~Busy(w)
        /\ \A u \in Users : active[u] = NoCall /\ pending[u] = NoCall
        /\ joined = {}
    BY LifeInitial, CallsInitial DEF CallsInit
  <2>2. ASSUME NEW c \in CallIds PROVE Course(c) /\ Reaching(c) /\ Telling(c)
    <3>1. c # NoCall /\ \A u \in Party(c) : ~Active(c, u) /\ ~Left(c, u)
      BY <2>1, Parties DEF Active, Left
    <3>2. Callee[c] \in Users /\ Caller[c] \in Party(c) /\ Callee[c] \in Party(c)
      BY DEF Party
    <3> QED BY <2>1, <3>1, <3>2 DEF Course, RingCourse, TalkCourse, CallerCourse,
            PacketCourse, MessageCourse, ReplyCourse, Reaching, Telling, HandlesCall
  <2> QED BY <2>1, <2>2 DEF CourseInv
<1>2. Inv /\ [CallsNext /\ StayInCall]_allVars => Inv'
  <2>1. ASSUME CourseInv, UNCHANGED allVars PROVE StayInCall
    BY <2>1 DEF StayInCall, allVars, peerVars
  <2> QED BY <2>1, CourseNext, ReachingNext, TellingNext
<1>3. Inv => PartiesAgree
  <2> SUFFICES ASSUME Inv, NEW c \in CallIds, ~UnderWay(c)
               PROVE  Active(c, Caller[c]) <=> Active(c, Callee[c])
    BY DEF PartiesAgree
  <2>1. /\ Safe /\ Once(c) /\ Reaching(c) /\ Telling(c)
        /\ Caller[c] \in Party(c) /\ Callee[c] \in Party(c)
    BY DEF CourseInv, LifeInv, TraceInv, Party
  <2>2. ~Told(c, Caller[c]) /\ ~Told(c, Callee[c])
    BY DEF Told, Brings, UnderWay, HandlesCall
  <2>3. ASSUME Active(c, Caller[c]), ~Active(c, Callee[c]) PROVE FALSE
    <3>1. Heard(c)
      BY <2>1, <2>3, InvitationFields DEF Reaching, UnderWay, InviteOut, Inviting, Errors
    <3>2. Left(c, Other(c, Caller[c]))
      BY <2>3, <3>1 DEF Left, Heard, Other
    <3> QED BY <2>1, <2>2, <2>3, <3>2 DEF Telling
  <2>4. ASSUME Active(c, Callee[c]), ~Active(c, Caller[c]) PROVE FALSE
    <3>1. Dialed(c)
      BY <2>1, <2>4 DEF Once, Heard, Safe, OriginInv, PeerInv
    <3>2. Left(c, Other(c, Callee[c]))
      BY <2>4, <3>1 DEF Left, Dialed, Other
    <3> QED BY <2>1, <2>2, <2>4, <3>2 DEF Telling
  <2> QED BY <2>3, <2>4
<1> QED BY <1>1, <1>2, <1>3, PTL DEF SteadySpec

\* A client that is busy whenever it is in a call stays in the one it is in:
\* handle_invite needs the state Registered, and handle_incoming_invite refuses
\* a second call (sip_invite_handler.cpp:19-27, 136-144).
LEMMA BusyStays ==
  ASSUME Types, InCallMeansBusy, [CallsNext]_allVars PROVE StayInCall
<1> DEFINE Stays(v) == active[v] # NoCall => active'[v] \in {active[v], NoCall}
<1>1. CallsTypeOK /\ \A v \in Users : active[v] # NoCall => IsBusy(v)
  BY DEF Types, InCallMeansBusy
<1>2. ASSUME NEW u \in Users, NEW v \in Users,
             \/ Register(u) \/ RetryRegister(u) \/ GiveUpRegister(u)
             \/ Answer(u) \/ Reject(u) \/ HangUp(u)
      PROVE  Stays(v)
  BY <1>1, <1>2 DEF Register, RetryRegister, GiveUpRegister, SendRegister, Answer,
     Reject, HangUp, Terminate, CallsTypeOK
<1>3. ASSUME NEW c \in CallIds, NEW v \in Users, Dial(c) PROVE Stays(v)
  BY <1>1, <1>3 DEF Dial, Enter, CallsTypeOK
<1>4. ASSUME NEW u \in Users, NEW v \in Users, NEW m \in outbox,
             RegisterAnswered(m, u) \/ ClientReceive(m, u)
      PROVE  Stays(v)
  <2>1. CASE RegisterAnswered(m, u)
    BY <2>1 DEF RegisterAnswered
  <2>2. ASSUME NEW busy \in BOOLEAN, busy = IsBusy(u) \/ (busy /\ u \in Distracted),
               ReceiveInvite(m, u, busy)
        PROVE  Stays(v)
    BY <1>1, <2>2 DEF ReceiveInvite, Enter, CallsTypeOK
  <2>3. CASE ReceiveBye(m, u) \/ ReceiveProgress(m, u) \/ ReceiveEnd(m, u) \/ ReceiveNothing(m, u)
    BY <1>1, <2>3 DEF ReceiveBye, ReceiveProgress, ReceiveEnd, ReceiveNothing, Terminate,
       CallsTypeOK
  <2> QED BY <1>4, <2>1, <2>2, <2>3 DEF ClientReceive
<1>5. PeerStep => \A v \in Users : Stays(v)
  BY <1>2, <1>3, <1>4 DEF PeerStep, UserStep, ClientTakes
<1> QED BY <1>5, StepKinds, PeersKept DEF StayInCall, Types

\* The same of every behaviour of the clients in which is_busy is right: only a
\* registration that ends in the middle of a call (sip_client_state_manager.cpp:27)
\* can make a client and its party disagree for good.
THEOREM BusyPartiesAgree ==
  ASSUME NoDuplicates, ~Lossy
  PROVE  CallsSpec /\ []InCallMeansBusy => []PartiesAgree
<1>1. CallsInit => Types
  BY CallsInitial
<1>2. Types /\ [CallsNext]_allVars => Types'
  BY TypesNext
<1>3. Types /\ InCallMeansBusy /\ [CallsNext]_allVars => [CallsNext /\ StayInCall]_allVars
  BY BusyStays
<1>4. CallsSpec /\ []InCallMeansBusy => SteadySpec
  BY <1>1, <1>2, <1>3, PTL DEF CallsSpec, SteadySpec
<1> QED BY <1>4, PartiesAlwaysAgree, PTL
=============================================================================
