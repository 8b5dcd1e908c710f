-------------------------- MODULE ProxyRouterProof --------------------------
(***************************************************************************)
(* Theorems about ProxyRouter, for every set of workers, users, Call-IDs    *)
(* and addresses, and for any traffic.                                      *)
(***************************************************************************)
EXTENDS ProxyRouter, SequenceTheorems, FiniteSetTheorems, TLAPS

USE TransportAssumption, NoAddrAssumption, NoContextAssumption,
    NoPacketAssumption, TrafficAssumption

(***************************************************************************)
(* The call state machine.                                                  *)
(***************************************************************************)

\* An event leads from a call state to a call state that is no earlier, and
\* never to INIT unless nothing happened (call_state_machine.cpp:5-40).
LEMMA HandleEventForward ==
  ASSUME NEW s \in CallState, NEW e
  PROVE  /\ HandleEvent(s, e) \in CallState
         /\ Rank(s) <= Rank(HandleEvent(s, e))
         /\ HandleEvent(s, e) = "INIT" => s = "INIT" /\ e # "INVITE"
BY DEF HandleEvent, Rank, CallState

\* Raising an event changes the one entry of sessions the worker holds.
LEMMA ApplyEventEffect ==
  ASSUME TypeOK, NEW w \in Workers, pc[w] \in {"invEvent", "event"},
         ApplyEvent(w)
  PROVE  /\ sessions' \in [CallIds -> Seq(CallState)]
         /\ \A c \in CallIds : Len(sessions'[c]) = Len(sessions[c])
         /\ \A c \in CallIds : \A n \in 1..Len(sessions[c]) :
              sessions'[c][n] = IF c = pkt[w].call /\ n = ptr[w]
                                THEN HandleEvent(sessions[c][n], pkt[w].type)
                                ELSE sessions[c][n]
<1> DEFINE c0 == pkt[w].call
           s0 == sessions[c0]
           e0 == HandleEvent(s0[ptr[w]], pkt[w].type)
           s1 == [s0 EXCEPT ![ptr[w]] = e0]
<1>1. c0 \in CallIds /\ s0 \in Seq(CallState) /\ ptr[w] \in 1..Len(s0)
  BY DEF TypeOK, Busy, Packet
<1>2. s0[ptr[w]] \in CallState
  BY <1>1
<1>3. e0 \in CallState
  BY <1>2, HandleEventForward
<1>4. /\ s1 \in Seq(CallState) /\ Len(s1) = Len(s0)
      /\ \A n \in 1..Len(s0) : s1[n] = IF n = ptr[w] THEN e0 ELSE s0[n]
  BY <1>1, <1>3, ExceptSeq
<1>5. sessions' = [sessions EXCEPT ![c0] = s1]
  BY DEF ApplyEvent
<1>6. sessions \in [CallIds -> Seq(CallState)]
  BY DEF TypeOK
<1>7. \A c \in CallIds : sessions'[c] = IF c = c0 THEN s1 ELSE sessions[c]
  BY <1>5, <1>6
<1> HIDE DEF s1
<1>8. \A c \in CallIds : sessions'[c] \in Seq(CallState) /\ Len(sessions'[c]) = Len(sessions[c])
  BY <1>7, <1>4, <1>6
<1>9. sessions' \in [CallIds -> Seq(CallState)]
  BY <1>1, <1>4, <1>5, <1>6
<1>10. \A c \in CallIds : \A n \in 1..Len(sessions[c]) :
              sessions'[c][n] = IF c = c0 /\ n = ptr[w]
                                THEN HandleEvent(sessions[c][n], pkt[w].type)
                                ELSE sessions[c][n]
  BY <1>7, <1>4
<1> QED BY <1>8, <1>9, <1>10
(***************************************************************************)
(* Type correctness.                                                       *)
(***************************************************************************)

LEMMA TypeInit == Init => TypeOK
BY DEF Init, TypeOK, Steps, Busy, UsesSnap, CallState

\* A packet that has a first step is given a worker whose locals fit that step.
LEMMA TypeReceive ==
  ASSUME TypeOK, NEW w \in Workers, NEW p \in Packet, Receive(w, p)
  PROVE  TypeOK'
BY DEF TypeOK, Receive, FirstStep, FirstReply, Goto, Busy, UsesSnap, Steps,
       LocalStatus, RequestTypes, ResponseTypes, Packet, proxyVars

LEMMA TypeInvLookup ==
  ASSUME TypeOK, NEW w \in Workers, InvLookup(w)
  PROVE  TypeOK'
<1> DEFINE p == pkt[w]
           callee == table[p.to]
           s == [caller |-> p.from, callerAddr |-> p.addr,
                 calleeAddr |-> callee, answered |-> FALSE]
<1>1. pc[w] = "invLookup" /\ p \in Packet /\ callee \in Addrs \cup {NoAddr}
  BY DEF TypeOK, InvLookup, Busy, Packet
<1>2. CASE callee = NoAddr \/ Transport[callee] # Transport[p.addr]
  <2>1. Respond(w, "R404") /\ UNCHANGED <<snap, proxyVars, pkt, ptr, ioVars>>
    BY <1>2 DEF InvLookup
  <2> QED
    BY <1>1, <2>1 DEF TypeOK, Respond, Goto, Busy, UsesSnap, Steps, LocalStatus,
                      proxyVars, ioVars
<1>3. CASE ~(callee = NoAddr \/ Transport[callee] # Transport[p.addr])
  <2>1. /\ snap' = [snap EXCEPT ![w] = s]
        /\ Goto(w, "invCreate")
        /\ UNCHANGED <<reply, proxyVars, pkt, ptr, ioVars>>
    BY <1>3 DEF InvLookup
  <2>2. s \in Context
    BY <1>1, <1>3 DEF Packet, Context
  <2> HIDE DEF s
  <2> QED
    BY <1>1, <2>1, <2>2 DEF TypeOK, Goto, Busy, UsesSnap, Steps, proxyVars, ioVars
<1> QED BY <1>2, <1>3

LEMMA TypeInvCreate ==
  ASSUME TypeOK, NEW w \in Workers, InvCreate(w)
  PROVE  TypeOK'
<1> DEFINE c == pkt[w].call
           s1 == Append(sessions[c], "INIT")
<1>1. /\ pc[w] = "invCreate" /\ c \in CallIds /\ snap[w] \in Context
      /\ sessions[c] \in Seq(CallState)
  BY DEF TypeOK, InvCreate, Busy, Packet, UsesSnap
<1>2. CASE registry[c] # 0
  <2>1. /\ Respond(w, "R400")
        /\ UNCHANGED <<proxyVars, pkt, snap, ptr, ioVars>>
    BY <1>2 DEF InvCreate, proxyVars, ioVars
  <2> QED
    BY <1>1, <2>1 DEF TypeOK, Respond, Goto, Busy, UsesSnap, Steps, LocalStatus,
                      proxyVars, ioVars
<1>3. CASE registry[c] = 0
  <2>1. /\ CreateSession(w, c)
        /\ UNCHANGED <<table, ctx, activeCalls, registeredUsers, pkt, snap,
                       msgsIn, msgsOut, outbox>>
    BY <1>3 DEF InvCreate
  <2>2. s1 \in Seq(CallState) /\ Len(s1) = Len(sessions[c]) + 1
    BY <1>1, AppendProperties DEF CallState
  <2>3. sessions' = [sessions EXCEPT ![c] = s1]
    BY <2>1 DEF CreateSession
  <2> HIDE DEF s1
  <2>4. <<c, snap[w].callerAddr, snap[w].calleeAddr>> \in CallIds \X Addrs \X Addrs
    BY <1>1 DEF Context
  <2>5. invited' \subseteq CallIds \X Addrs \X Addrs
    BY <2>1, <2>4 DEF CreateSession, TypeOK
  <2>6. /\ sessions' \in [CallIds -> Seq(CallState)]
        /\ \A d \in CallIds : Len(sessions'[d]) \in Nat /\ Len(sessions[d]) <= Len(sessions'[d])
        /\ Len(sessions'[c]) = Len(sessions[c]) + 1
    BY <1>1, <2>2, <2>3 DEF TypeOK
  <2> QED
    BY <1>1, <2>1, <2>5, <2>6 DEF TypeOK, CreateSession, Goto, Busy, UsesSnap, Steps, Packet
<1> QED BY <1>2, <1>3

\* Raising an event keeps every session a session, and their number.
LEMMA TypeEvent ==
  ASSUME TypeOK, NEW w \in Workers, InvEvent(w) \/ SessionEvent(w)
  PROVE  TypeOK'
<1>1. ApplyEvent(w) /\ pc[w] \in {"invEvent", "event"}
  BY DEF InvEvent, SessionEvent
<1>2. /\ sessions' \in [CallIds -> Seq(CallState)]
      /\ \A c \in CallIds : Len(sessions'[c]) = Len(sessions[c])
  BY <1>1, ApplyEventEffect
<1>3. CASE InvEvent(w)
  BY <1>2, <1>3 DEF TypeOK, InvEvent, Goto, Busy, UsesSnap, Steps, Packet, ioVars
<1>4. CASE SessionEvent(w)
  BY <1>2, <1>4 DEF TypeOK, SessionEvent, AfterEvent, Goto, Busy, UsesSnap,
                    Steps, Packet, ioVars
<1> QED BY <1>3, <1>4

LEMMA TypeCtxRead ==
  ASSUME TypeOK, NEW w \in Workers, CtxRead(w)
  PROVE  TypeOK'
<1>1. /\ pc[w] = "ctxRead" /\ pkt[w].call \in CallIds
      /\ UNCHANGED <<proxyVars, ioVars>>
  BY DEF TypeOK, CtxRead, Busy, Packet
<1>2. CASE Finish(w)
  BY <1>1, <1>2 DEF TypeOK, Finish, Goto, Busy, UsesSnap, Steps, proxyVars, ioVars
<1>3. CASE Respond(w, "R400") /\ UNCHANGED <<pkt, snap, ptr>>
  BY <1>1, <1>3 DEF TypeOK, Respond, Goto, Busy, UsesSnap, Steps, LocalStatus,
                    proxyVars, ioVars
<1>4. CASE /\ ctx[pkt[w].call] # NoContext
           /\ snap' = [snap EXCEPT ![w] = ctx[pkt[w].call]]
           /\ Goto(w, "find") /\ UNCHANGED <<pkt, ptr, reply>>
  <2>1. ctx[pkt[w].call] \in Context
    BY <1>1, <1>4 DEF TypeOK
  <2> QED
    BY <1>1, <1>4, <2>1 DEF TypeOK, Goto, Busy, UsesSnap, Steps, proxyVars, ioVars
<1> QED BY <1>2, <1>3, <1>4 DEF CtxRead

LEMMA TypeStoreAnswer ==
  ASSUME TypeOK, NEW w \in Workers, StoreAnswer(w)
  PROVE  TypeOK'
<1> DEFINE c == pkt[w].call
           x == IF ctx[c] = NoContext THEN ctx[c]
                ELSE [ctx[c] EXCEPT !.answered = TRUE]
<1>1. pc[w] = "answer" /\ c \in CallIds /\ snap[w] \in Context
  BY DEF TypeOK, StoreAnswer, Busy, Packet, UsesSnap
<1>2. x \in Context \cup {NoContext}
  <2>1. ctx[c] \in Context \cup {NoContext}
    BY <1>1 DEF TypeOK
  <2>2. CASE ctx[c] \in Context
    BY <2>2 DEF Context
  <2> QED BY <2>1, <2>2
<1>3. ctx' = [ctx EXCEPT ![c] = x]
  BY DEF StoreAnswer
<1> HIDE DEF x
<1> QED
  BY <1>1, <1>2, <1>3 DEF TypeOK, StoreAnswer, Goto, Busy, UsesSnap, Steps, ioVars

\* What a worker sends is a message of the call it handles.
LEMMA RelayType ==
  ASSUME NEW p \in Packet, p.type # "JUNK", NEW s \in Context
  PROVE  Relay(p, s) \in Message
BY DEF Relay, RequestDestination, ResponseDestination, Packet, Context, Message

LEMMA TypeSend ==
  ASSUME TypeOK, NEW w \in Workers, Send(w)
  PROVE  TypeOK'
<1> DEFINE m == IF reply[w] = "none" THEN Relay(pkt[w], snap[w])
                ELSE LocalResponse(pkt[w], reply[w])
<1>1. pc[w] = "send" /\ pkt[w] \in Packet /\ pkt[w].type # "JUNK"
  BY DEF TypeOK, Send, Busy
<1>2. m \in Message
  <2>1. CASE reply[w] = "none"
    BY <1>1, <2>1, RelayType DEF TypeOK
  <2>2. CASE reply[w] # "none"
    BY <1>1, <2>2 DEF TypeOK, LocalResponse, Message, Packet
  <2> QED BY <2>1, <2>2
<1>3. outbox' = outbox \cup {m}
  BY DEF Send
<1> HIDE DEF m
<1> QED
  BY <1>1, <1>2, <1>3 DEF TypeOK, Send, Finish, Goto, Busy, UsesSnap, Steps, proxyVars

\* Every step of a worker keeps the types.
LEMMA TypeProceed ==
  ASSUME TypeOK, NEW w \in Workers, Proceed(w)
  PROVE  TypeOK'
<1> USE DEF TypeOK, Goto, Busy, UsesSnap, Steps, Packet, ioVars
<1>1. CASE RegStore(w)
  BY <1>1 DEF RegStore
<1>2. CASE RegCount(w)
  BY <1>2 DEF RegCount, Respond, LocalStatus
<1>3. CASE InvCount(w)
  BY <1>3 DEF InvCount
<1>4. CASE InvStore(w)
  BY <1>4 DEF InvStore
<1>5. CASE FindCall(w)
  BY <1>5 DEF FindCall, AfterEvent, proxyVars
<1>6. CASE AckFind(w)
  BY <1>6 DEF AckFind, proxyVars
<1>7. CASE AckCheck(w)
  BY <1>7 DEF AckCheck, proxyVars
<1>8. CASE RemoveCall(w)
  BY <1>8 DEF RemoveCall
<1>9. CASE EraseContext(w)
  BY <1>9 DEF EraseContext
<1>10. CASE DecCheck(w)
  BY <1>10 DEF DecCheck, AfterDec, proxyVars
<1>11. CASE Dec(w)
  BY <1>11 DEF Dec, AfterDec
<1> QED
  BY <1>1, <1>2, <1>3, <1>4, <1>5, <1>6, <1>7, <1>8, <1>9, <1>10, <1>11,
     TypeInvLookup, TypeInvCreate, TypeEvent, TypeCtxRead, TypeStoreAnswer,
     TypeSend DEF Proceed

LEMMA TypeNext == TypeOK /\ [Next]_vars => TypeOK'
<1> SUFFICES ASSUME TypeOK, [Next]_vars
             PROVE  TypeOK'
  OBVIOUS
<1>1. CASE \E w \in Workers : Proceed(w)
  BY <1>1, TypeProceed
<1>2. CASE \E w \in Workers : \E p \in Traffic : Receive(w, p)
  BY <1>2, TypeReceive
<1>3. CASE \E m \in outbox : Deliver(m)
  BY <1>3 DEF TypeOK, Deliver, Busy, proxyVars, workerVars
<1>4. CASE UNCHANGED vars
  BY <1>4 DEF TypeOK, Busy, vars, proxyVars, workerVars, ioVars
<1> QED BY <1>1, <1>2, <1>3, <1>4 DEF Next

\* Every variable of the router has its type, a busy worker holds a packet, a
\* context and a session whenever it uses them: no step dereferences a context
\* or a session that is not there, whatever arrives and however the workers
\* interleave (sip_router.cpp:104-520).
THEOREM TypeCorrect == Spec => []TypeOK
BY TypeInit, TypeNext, PTL DEF Spec
(***************************************************************************)
(* The gauge of active calls.                                               *)
(***************************************************************************)

\* The workers that have tested the gauge and will decrement it.
Deciding == {w \in Workers : pc[w] = "dec"}

\* The decrements under way are counted as done.
FloorInv == activeCalls - Cardinality(Deciding) >= 1 - Cardinality(Workers)

LEMMA DecidingFinite ==
  ASSUME NEW S \in SUBSET Workers
  PROVE  IsFiniteSet(S) /\ Cardinality(S) \in Nat /\ Cardinality(S) <= Cardinality(Workers)
         /\ Cardinality(Workers) \in Nat /\ Cardinality(Workers) >= 1
<1>1. IsFiniteSet(Workers) /\ Workers # {}
  BY WorkersAssumption
<1>2. IsFiniteSet(S) /\ Cardinality(S) <= Cardinality(Workers)
  BY <1>1, FS_Subset
<1>3. Cardinality(S) \in Nat /\ Cardinality(Workers) \in Nat
  BY <1>1, <1>2, FS_CardinalityType
<1>4. Cardinality(Workers) # 0
  BY <1>1, FS_EmptySet
<1> QED BY <1>2, <1>3, <1>4

LEMMA FloorInit == Init => FloorInv
<1> SUFFICES ASSUME Init PROVE FloorInv
  OBVIOUS
<1>1. Deciding = {}
  BY DEF Init, Deciding
<1>2. Cardinality(Deciding) = 0
  BY <1>1, FS_EmptySet
<1> QED BY <1>2, DecidingFinite DEF Init, FloorInv, Deciding

\* A step that neither starts nor ends a decrement and does not lower the gauge.
LEMMA FloorOther ==
  ASSUME TypeOK, FloorInv, Deciding' = Deciding, activeCalls' \in Int,
         activeCalls' >= activeCalls
  PROVE  FloorInv'
<1>1. Deciding \in SUBSET Workers /\ activeCalls \in Int
  BY DEF Deciding, TypeOK
<1> QED BY <1>1, DecidingFinite DEF FloorInv

LEMMA FloorDecCheck ==
  ASSUME TypeOK, FloorInv, NEW w \in Workers, DecCheck(w)
  PROVE  FloorInv'
<1>1. activeCalls \in Int /\ activeCalls' = activeCalls
  BY DEF TypeOK, DecCheck, proxyVars
<1>2. CASE activeCalls > 0
  <2>1. Deciding' \in SUBSET Workers
    BY DEF Deciding
  <2> QED BY <1>1, <1>2, <2>1, DecidingFinite DEF FloorInv
<1>3. CASE ~(activeCalls > 0)
  <2>1. Deciding' = Deciding
    BY <1>3 DEF DecCheck, Deciding, TypeOK, Goto, AfterDec
  <2> QED BY <1>1, <2>1, FloorOther
<1> QED BY <1>2, <1>3

LEMMA FloorDec ==
  ASSUME TypeOK, FloorInv, NEW w \in Workers, Dec(w)
  PROVE  FloorInv'
<1>1. w \in Deciding /\ Deciding' = Deciding \ {w}
  BY DEF Dec, Deciding, TypeOK, Goto, AfterDec
<1>2. Cardinality(Deciding') = Cardinality(Deciding) - 1
  BY <1>1, DecidingFinite, FS_RemoveElement DEF Deciding
<1>3. activeCalls \in Int /\ activeCalls' = activeCalls - 1
  BY DEF TypeOK, Dec
<1>4. Cardinality(Deciding) \in Nat /\ Cardinality(Workers) \in Nat
  BY DecidingFinite DEF Deciding
<1> QED BY <1>2, <1>3, <1>4 DEF FloorInv

LEMMA FloorNext == TypeOK /\ FloorInv /\ [Next]_vars => FloorInv'
<1> SUFFICES ASSUME TypeOK, FloorInv, [Next]_vars
             PROVE  FloorInv'
  OBVIOUS
<1>1. ASSUME NEW w \in Workers, Proceed(w), ~DecCheck(w), ~Dec(w)
      PROVE  FloorInv'
  <2>1. activeCalls \in Int /\ activeCalls' \in Int /\ activeCalls' >= activeCalls
    BY <1>1 DEF TypeOK, Proceed, RegStore, RegCount, InvLookup, InvCreate,
       InvStore, InvEvent, InvCount, CtxRead, FindCall, SessionEvent, AckFind,
       AckCheck, StoreAnswer, RemoveCall, EraseContext, Send, proxyVars
  <2>2. Deciding' = Deciding
    <3>1. pc[w] # "dec"
      BY <1>1 DEF Proceed, RegStore, RegCount, InvLookup, InvCreate,
         InvStore, InvEvent, InvCount, CtxRead, FindCall, SessionEvent, AckFind,
         AckCheck, StoreAnswer, RemoveCall, EraseContext, Send
    <3>2. \E l \in Steps : l # "dec" /\ Goto(w, l)
      BY <1>1 DEF Proceed, RegStore, RegCount, InvLookup, InvCreate, CreateSession,
         InvStore, InvEvent, InvCount, CtxRead, FindCall, SessionEvent, AckFind,
         AckCheck, StoreAnswer, RemoveCall, EraseContext, Send, Respond, Finish,
         AfterEvent, Steps
    <3> QED BY <3>1, <3>2 DEF Deciding, Goto, TypeOK
  <2> QED BY <2>1, <2>2, FloorOther
<1>2. ASSUME NEW w \in Workers, NEW p \in Packet, Receive(w, p)
      PROVE  FloorInv'
  <2>1. Deciding' = Deciding
    BY <1>2 DEF Receive, Deciding, Goto, FirstStep, TypeOK
  <2>2. activeCalls \in Int /\ activeCalls' = activeCalls
    BY <1>2 DEF TypeOK, Receive, proxyVars
  <2> QED BY <2>1, <2>2, FloorOther
<1>3. CASE UNCHANGED vars \/ \E m \in outbox : Deliver(m)
  <2>1. Deciding' = Deciding /\ activeCalls' = activeCalls
    BY <1>3 DEF vars, Deliver, proxyVars, workerVars, Deciding
  <2> QED BY <2>1 DEF FloorInv
<1> QED
  BY <1>1, <1>2, <1>3, FloorDecCheck, FloorDec, TrafficAssumption DEF Next

LEMMA FloorImplies == TypeOK /\ FloorInv => GaugeFloor
<1>1. Deciding \in SUBSET Workers
  BY DEF Deciding
<1>2. Cardinality(Deciding) \in Nat /\ Cardinality(Workers) \in Nat
  BY <1>1, DecidingFinite
<1> QED BY <1>2 DEF TypeOK, FloorInv, GaugeFloor

\* However many responses that end a call are handled at once, and however often
\* they are repeated, the gauge does not fall below 1 - Cardinality(Workers)
\* (metrics_collector.cpp:24-27).
THEOREM GaugeFloorHolds == Spec => []GaugeFloor
<1>1. Spec => [](TypeOK /\ FloorInv)
  BY TypeInit, TypeNext, FloorInit, FloorNext, PTL DEF Spec
<1> QED BY <1>1, FloorImplies, PTL

(***************************************************************************)
(* The life of a session.                                                   *)
(***************************************************************************)

\* What a step of the router does to the sessions: nothing, a new session in
\* INIT for the worker that made it, or an event on the session a worker holds.
LEMMA SessionsStep ==
  ASSUME TypeOK, [Next]_vars
  PROVE  \/ UNCHANGED sessions
         \/ \E w \in Workers :
              pc[w] = "invCreate" /\ CreateSession(w, pkt[w].call)
         \/ \E w \in Workers :
              pc[w] \in {"invEvent", "event"} /\ ApplyEvent(w)
<1>1. ASSUME NEW w \in Workers, Proceed(w), ~InvCreate(w), ~InvEvent(w),
             ~SessionEvent(w)
      PROVE  UNCHANGED sessions
  BY <1>1 DEF Proceed, RegStore, RegCount, InvLookup, InvStore, InvCount, CtxRead,
     FindCall, AckFind, AckCheck, StoreAnswer, RemoveCall, EraseContext, DecCheck,
     Dec, Send, proxyVars
<1>2. ASSUME NEW w \in Workers, NEW p \in Traffic, Receive(w, p)
      PROVE  UNCHANGED sessions
  BY <1>2 DEF Receive, proxyVars
<1>3. CASE UNCHANGED vars \/ \E m \in outbox : Deliver(m)
  BY <1>3 DEF vars, Deliver, proxyVars
<1> QED BY <1>1, <1>2, <1>3 DEF Next, InvCreate, InvEvent, SessionEvent

\* A new session is the last of its Call-ID and starts in INIT.
LEMMA CreateSessionEffect ==
  ASSUME TypeOK, NEW w \in Workers, pc[w] = "invCreate",
         CreateSession(w, pkt[w].call)
  PROVE  LET c == pkt[w].call IN
         /\ c \in CallIds
         /\ Len(sessions'[c]) = Len(sessions[c]) + 1
         /\ ptr'[w] = Len(sessions'[c])
         /\ sessions'[c][Len(sessions'[c])] = "INIT"
         /\ \A n \in 1..Len(sessions[c]) : sessions'[c][n] = sessions[c][n]
         /\ \A d \in CallIds : d # c => sessions'[d] = sessions[d]
<1> DEFINE c == pkt[w].call
           s1 == Append(sessions[c], "INIT")
<1>1. c \in CallIds /\ sessions[c] \in Seq(CallState)
  BY DEF TypeOK, Busy, Packet
<1>2. /\ Len(s1) = Len(sessions[c]) + 1 /\ s1[Len(sessions[c]) + 1] = "INIT"
      /\ \A n \in 1..Len(sessions[c]) : s1[n] = sessions[c][n]
  BY <1>1, AppendProperties DEF CallState
<1>3. sessions' = [sessions EXCEPT ![c] = s1] /\ ptr'[w] = Len(sessions[c]) + 1
  BY DEF CreateSession, TypeOK
<1> HIDE DEF s1
<1> QED BY <1>1, <1>2, <1>3 DEF TypeOK

\* Sessions only move forward: the events of concurrent and stale workers are
\* applied one by one under the session's mutex (call_session.cpp:56-87).
THEOREM SessionsForward == Spec => SessionsMoveForward
<1>1. ASSUME TypeOK, [Next]_vars, NEW c \in CallIds, NEW n \in 1..Len(sessions[c])
      PROVE  Rank(sessions[c][n]) <= Rank(sessions'[c][n])
  <2>1. sessions[c][n] \in CallState
    BY <1>1 DEF TypeOK
  <2>2. Rank(sessions[c][n]) \in Nat
    BY <2>1 DEF CallState, Rank
  <2>3. CASE \E w \in Workers : pc[w] \in {"invEvent", "event"} /\ ApplyEvent(w)
    <3>1. PICK w \in Workers : pc[w] \in {"invEvent", "event"} /\ ApplyEvent(w)
      BY <2>3
    <3>2. sessions'[c][n] = IF c = pkt[w].call /\ n = ptr[w]
                            THEN HandleEvent(sessions[c][n], pkt[w].type)
                            ELSE sessions[c][n]
      BY <1>1, <3>1, ApplyEventEffect
    <3>3. Rank(sessions[c][n]) <= Rank(HandleEvent(sessions[c][n], pkt[w].type))
      BY <2>1, HandleEventForward
    <3> QED BY <2>2, <3>2, <3>3
  <2>4. CASE \E w \in Workers : pc[w] = "invCreate" /\ CreateSession(w, pkt[w].call)
    <3>1. PICK w \in Workers : pc[w] = "invCreate" /\ CreateSession(w, pkt[w].call)
      BY <2>4
    <3>2. sessions'[c][n] = sessions[c][n]
      BY <1>1, <3>1, CreateSessionEffect
    <3> QED BY <2>2, <3>2
  <2> QED BY <1>1, <2>2, <2>3, <2>4, SessionsStep
<1>2. TypeOK /\ [Next]_vars =>
        [\A c \in CallIds : \A n \in 1..Len(sessions[c]) :
           Rank(sessions[c][n]) <= Rank(sessions'[c][n])]_vars
  BY <1>1
<1> QED BY <1>2, TypeInit, TypeNext, PTL DEF Spec, SessionsMoveForward

\* The steps of handle_invite, taken for INVITEs only.
InviteSteps == {"invLookup", "invCreate", "invStore", "invEvent", "invCount"}
InviteInv == \A w \in Workers : pc[w] \in InviteSteps => pkt[w].type = "INVITE"

LEMMA InviteNext == TypeOK /\ InviteInv /\ [Next]_vars => InviteInv'
<1> SUFFICES ASSUME TypeOK, InviteInv, [Next]_vars, NEW v \in Workers,
                    pc'[v] \in InviteSteps
             PROVE  pkt'[v].type = "INVITE"
  BY DEF InviteInv
<1>1. ASSUME NEW w \in Workers, Proceed(w)
      PROVE  pkt'[v].type = "INVITE"
  <2>1. CASE v # w
    <3>1. pc'[v] = pc[v] /\ pkt'[v] = pkt[v]
      BY <1>1, <2>1 DEF Proceed, RegStore, RegCount, InvLookup, InvCreate,
         CreateSession, InvStore, InvEvent, InvCount, CtxRead, FindCall,
         SessionEvent, AckFind, AckCheck, StoreAnswer, RemoveCall, EraseContext,
         DecCheck, Dec, Send, Respond, Finish, Goto, TypeOK, proxyVars
    <3> QED BY <3>1 DEF InviteInv
  <2>2. CASE v = w
    <3>1. pc[v] \in InviteSteps /\ pkt'[v] = pkt[v]
      BY <1>1, <2>2 DEF Proceed, RegStore, RegCount, InvLookup, InvCreate,
         CreateSession, InvStore, InvEvent, InvCount, CtxRead, FindCall,
         SessionEvent, AckFind, AckCheck, StoreAnswer, RemoveCall, EraseContext,
         DecCheck, Dec, Send, Respond, Finish, Goto, TypeOK, proxyVars,
         InviteSteps, AfterEvent, AfterDec
    <3> QED BY <3>1 DEF InviteInv
  <2> QED BY <2>1, <2>2
<1>2. ASSUME NEW w \in Workers, NEW p \in Packet, Receive(w, p)
      PROVE  pkt'[v].type = "INVITE"
  BY <1>2 DEF Receive, Goto, FirstStep, InviteSteps, InviteInv, TypeOK
<1>3. CASE UNCHANGED vars \/ \E m \in outbox : Deliver(m)
  BY <1>3 DEF vars, Deliver, workerVars, InviteInv
<1> QED BY <1>1, <1>2, <1>3, TrafficAssumption DEF Next

\* A worker that is given a new session goes on with the same packet.
LEMMA PacketKept ==
  ASSUME TypeOK, [Next]_vars, NEW w \in Workers, pc[w] = "invCreate"
  PROVE  pkt'[w] = pkt[w]
<1>1. ASSUME NEW v \in Workers, Proceed(v)
      PROVE  pkt'[w] = pkt[w]
  BY <1>1 DEF Proceed, RegStore, RegCount, InvLookup, InvCreate, CreateSession,
     InvStore, InvEvent, InvCount, CtxRead, FindCall, SessionEvent, AckFind,
     AckCheck, StoreAnswer, RemoveCall, EraseContext, DecCheck, Dec, Send,
     Finish, TypeOK, proxyVars
<1>2. ASSUME NEW v \in Workers, NEW p \in Packet, Receive(v, p)
      PROVE  pkt'[w] = pkt[w]
  BY <1>2 DEF Receive, TypeOK
<1>3. CASE UNCHANGED vars \/ \E m \in outbox : Deliver(m)
  BY <1>3 DEF vars, Deliver, workerVars
<1> QED BY <1>1, <1>2, <1>3, TrafficAssumption DEF Next

\* The witness that keeps a session in INIT.
Opening(w, c, n) ==
  pc[w] \in {"invStore", "invEvent"} /\ pkt[w].call = c /\ ptr[w] = n

\* A worker stays the opener of its session until it raises INVITE on it.
LEMMA OpeningStep ==
  ASSUME TypeOK, [Next]_vars, NEW v \in Workers, NEW c, NEW n, Opening(v, c, n)
  PROVE  Opening(v, c, n)' \/ InvEvent(v)
<1>1. ASSUME NEW w \in Workers, Proceed(w), ~InvEvent(v)
      PROVE  Opening(v, c, n)'
  <2>1. CASE v # w
    BY <1>1, <2>1 DEF Proceed, RegStore, RegCount, InvLookup, InvCreate,
         CreateSession, InvStore, InvEvent, InvCount, CtxRead, FindCall,
         SessionEvent, AckFind, AckCheck, StoreAnswer, RemoveCall, EraseContext,
         DecCheck, Dec, Send, Respond, Finish, Goto, TypeOK, proxyVars, Opening
  <2>2. CASE v = w
    <3>1. InvStore(v)
      BY <1>1, <2>2 DEF Opening, Proceed, RegStore, RegCount, InvLookup, InvCreate,
         InvCount, CtxRead, FindCall, SessionEvent, AckFind, AckCheck,
         StoreAnswer, RemoveCall, EraseContext, DecCheck, Dec, Send
    <3> QED BY <3>1 DEF InvStore, Goto, Opening, TypeOK
  <2> QED BY <2>1, <2>2
<1>2. ASSUME NEW w \in Workers, NEW p \in Packet, Receive(w, p)
      PROVE  Opening(v, c, n)'
  BY <1>2 DEF Receive, Goto, Opening, TypeOK
<1>3. CASE UNCHANGED vars \/ \E m \in outbox : Deliver(m)
  BY <1>3 DEF vars, Deliver, workerVars, Opening
<1> QED BY <1>1, <1>2, <1>3, TrafficAssumption DEF Next

LEMMA TransientNext ==
  TypeOK /\ InviteInv /\ InitIsTransient /\ [Next]_vars => InitIsTransient'
<1> SUFFICES ASSUME TypeOK, InviteInv, InitIsTransient, [Next]_vars,
                    NEW c \in CallIds, NEW n \in 1..Len(sessions'[c]),
                    sessions'[c][n] = "INIT"
             PROVE  \E w \in Workers : Opening(w, c, n)'
  BY DEF InitIsTransient, Opening
<1>1. ASSUME n \in 1..Len(sessions[c]), sessions[c][n] = "INIT",
             \A w \in Workers : Opening(w, c, n) => ~InvEvent(w)
      PROVE  \E w \in Workers : Opening(w, c, n)'
  <2>1. PICK w \in Workers : Opening(w, c, n)
    BY <1>1 DEF InitIsTransient, Opening
  <2> QED BY <1>1, <2>1, OpeningStep
<1>2. CASE UNCHANGED sessions
  <2>1. ASSUME NEW w \in Workers, Opening(w, c, n), InvEvent(w)
        PROVE  FALSE
    <3>1. pkt[w].type = "INVITE" /\ ApplyEvent(w) /\ pc[w] = "invEvent"
      BY <2>1 DEF InvEvent, InviteInv, InviteSteps
    <3>2. sessions'[c][n] = HandleEvent(sessions[c][n], "INVITE")
      BY <1>2, <2>1, <3>1, ApplyEventEffect DEF Opening
    <3> QED BY <1>2, <3>2 DEF HandleEvent
  <2> QED BY <1>1, <1>2, <2>1
<1>3. CASE \E w \in Workers : pc[w] = "invCreate" /\ CreateSession(w, pkt[w].call)
  <2>1. PICK w \in Workers : pc[w] = "invCreate" /\ CreateSession(w, pkt[w].call)
    BY <1>3
  <2>2. CASE c = pkt[w].call /\ n = Len(sessions'[c])
    <3>1. ptr'[w] = n /\ pc'[w] = "invStore"
      BY <2>1, <2>2, CreateSessionEffect DEF CreateSession, Goto, TypeOK
    <3>2. pkt'[w] = pkt[w]
      BY <2>1, PacketKept
    <3> QED BY <2>2, <3>1, <3>2 DEF Opening
  <2>3. CASE ~(c = pkt[w].call /\ n = Len(sessions'[c]))
    <3>1. n \in 1..Len(sessions[c]) /\ sessions[c][n] = "INIT"
      BY <2>1, <2>3, CreateSessionEffect DEF TypeOK
    <3>2. ASSUME NEW v \in Workers, InvEvent(v)
          PROVE  FALSE
      BY <2>1, <3>2 DEF InvEvent, CreateSession, Goto, TypeOK
    <3> QED BY <1>1, <3>1, <3>2
  <2> QED BY <2>2, <2>3
<1>4. CASE \E w \in Workers : pc[w] \in {"invEvent", "event"} /\ ApplyEvent(w)
  <2>1. PICK w \in Workers : pc[w] \in {"invEvent", "event"} /\ ApplyEvent(w)
    BY <1>4
  <2>2. n \in 1..Len(sessions[c])
    BY <2>1, ApplyEventEffect
  <2>3. sessions[c][n] \in CallState
    BY <2>2 DEF TypeOK
  <2>4. sessions[c][n] = "INIT"
    BY <2>1, <2>2, <2>3, ApplyEventEffect, HandleEventForward
  <2>5. ASSUME NEW v \in Workers, Opening(v, c, n), InvEvent(v)
        PROVE  FALSE
    <3>1. pkt[v].type = "INVITE" /\ ApplyEvent(v) /\ pc[v] = "invEvent"
      BY <2>5 DEF InvEvent, InviteInv, InviteSteps
    <3>2. sessions'[c][n] = HandleEvent(sessions[c][n], "INVITE")
      BY <2>2, <2>5, <3>1, ApplyEventEffect DEF Opening
    <3> QED BY <2>4, <3>2 DEF HandleEvent
  <2> QED BY <1>1, <2>2, <2>4, <2>5
<1> QED BY <1>2, <1>3, <1>4, SessionsStep

\* Every session a reader can find was taken out of INIT by the INVITE that
\* created it, or that INVITE's worker is just about to do so.
THEOREM NoSessionStuckInInit == Spec => []InitIsTransient
<1>1. Init => InviteInv /\ InitIsTransient
  BY DEF Init, InviteInv, InviteSteps, InitIsTransient
<1> QED BY <1>1, TypeInit, TypeNext, InviteNext, TransientNext, PTL DEF Spec

(***************************************************************************)
(* Where messages go.                                                       *)
(***************************************************************************)

\* The addresses of context s are those of an INVITE accepted for call c.
Known(c, s) == <<c, s.callerAddr, s.calleeAddr>> \in invited

\* The worker will use or store the context it holds.
Holds(w) == \/ pc[w] \in UsesSnap \ {"invCreate"}
            \/ pc[w] = "send" /\ reply[w] = "none"

\* Every context, stored or copied, comes from an accepted INVITE.
KnownInv ==
  /\ \A c \in CallIds : ctx[c] # NoContext => Known(c, ctx[c])
  /\ \A w \in Workers : Holds(w) => Known(pkt[w].call, snap[w])

\* A relayed message goes to one of the two addresses of the worker's context.
LEMMA RelayDestination ==
  ASSUME NEW p, NEW s
  PROVE  /\ Relay(p, s).call = p.call
         /\ Relay(p, s).to \in {s.callerAddr, s.calleeAddr}
BY DEF Relay, RequestDestination, ResponseDestination

LEMMA KnownContext ==
  ASSUME TypeOK, KnownInv, [Next]_vars, NEW c \in CallIds, ctx'[c] # NoContext
  PROVE  \/ /\ Known(c, ctx[c]) /\ ctx[c] # NoContext
            /\ ctx'[c].callerAddr = ctx[c].callerAddr
            /\ ctx'[c].calleeAddr = ctx[c].calleeAddr
         \/ Known(c, ctx'[c])
<1>1. CASE ctx'[c] = ctx[c]
  BY <1>1 DEF KnownInv
<1>2. ASSUME NEW w \in Workers, InvStore(w), ctx'[c] # ctx[c]
      PROVE  Known(c, ctx'[c])
  <2>1. c = pkt[w].call /\ ctx'[c] = snap[w]
    BY <1>2 DEF InvStore, TypeOK
  <2> QED BY <1>2, <2>1 DEF InvStore, KnownInv, Holds, UsesSnap
<1>3. ASSUME NEW w \in Workers, StoreAnswer(w), ctx'[c] # ctx[c]
      PROVE  /\ Known(c, ctx[c]) /\ ctx[c] # NoContext
             /\ ctx'[c].callerAddr = ctx[c].callerAddr
             /\ ctx'[c].calleeAddr = ctx[c].calleeAddr
  <2>1. ctx[c] # NoContext /\ ctx'[c] = [ctx[c] EXCEPT !.answered = TRUE]
    BY <1>3 DEF StoreAnswer, TypeOK
  <2>2. ctx[c] \in Context
    BY <2>1 DEF TypeOK
  <2> QED BY <2>1, <2>2 DEF KnownInv, Context
<1>4. ASSUME NEW w \in Workers, EraseContext(w), ctx'[c] # ctx[c]
      PROVE  FALSE
  BY <1>4 DEF EraseContext, TypeOK
<1>5. ASSUME NEW w \in Workers, Proceed(w), ~InvStore(w), ~StoreAnswer(w),
             ~EraseContext(w)
      PROVE  ctx' = ctx
  BY <1>5 DEF Proceed, RegStore, RegCount, InvLookup, InvCreate, InvEvent, InvCount,
     CtxRead, FindCall, SessionEvent, AckFind, AckCheck, RemoveCall, DecCheck,
     Dec, Send, proxyVars
<1>6. CASE \/ \E w \in Workers : \E p \in Traffic : Receive(w, p)
           \/ \E m \in outbox : Deliver(m)
           \/ UNCHANGED vars
  BY <1>1, <1>6 DEF Receive, Deliver, vars, proxyVars
<1> QED BY <1>1, <1>2, <1>3, <1>4, <1>5, <1>6 DEF Next

\* The history only grows.
LEMMA InvitedGrows ==
  ASSUME TypeOK, [Next]_vars
  PROVE  invited \subseteq invited'
<1>1. ASSUME NEW w \in Workers, Proceed(w)
      PROVE  invited \subseteq invited'
  BY <1>1 DEF Proceed, RegStore, RegCount, InvLookup, InvCreate, CreateSession,
     InvStore, InvEvent, InvCount, CtxRead, FindCall, SessionEvent, AckFind,
     AckCheck, StoreAnswer, RemoveCall, EraseContext, DecCheck, Dec, Send, ioVars
<1>2. ASSUME NEW w \in Workers, NEW p \in Traffic, Receive(w, p)
      PROVE  invited \subseteq invited'
  BY <1>2 DEF Receive
<1>3. CASE UNCHANGED vars \/ \E m \in outbox : Deliver(m)
  BY <1>3 DEF vars, Deliver, ioVars
<1> QED BY <1>1, <1>2, <1>3 DEF Next

LEMMA KnownWorker ==
  ASSUME TypeOK, KnownInv, [Next]_vars, NEW v \in Workers, Holds(v)'
  PROVE  Known(pkt[v].call, snap[v])' 
<1>1. invited \subseteq invited'
  BY InvitedGrows
<1>2. CASE Holds(v) /\ pkt'[v] = pkt[v] /\ snap'[v] = snap[v]
  BY <1>1, <1>2 DEF KnownInv, Known
<1>3. ASSUME NEW w \in Workers, w # v, Proceed(w)
      PROVE  Known(pkt[v].call, snap[v])'
  <2>1. UNCHANGED <<pc[v], pkt[v], snap[v], reply[v]>>
    BY <1>3 DEF Proceed, RegStore, RegCount, InvLookup, InvCreate, CreateSession,
       InvStore, InvEvent, InvCount, CtxRead, FindCall, SessionEvent, AckFind,
       AckCheck, StoreAnswer, RemoveCall, EraseContext, DecCheck, Dec, Send,
       Respond, Finish, Goto, TypeOK, proxyVars
  <2> QED BY <1>2, <2>1 DEF Holds
<1>4. CASE InvCreate(v)
  <2>1. registry[pkt[v].call] = 0 /\ CreateSession(v, pkt[v].call)
        /\ UNCHANGED <<pkt, snap>>
    BY <1>4 DEF InvCreate, Respond, Goto, Holds, UsesSnap, TypeOK
  <2> QED BY <2>1 DEF CreateSession, Known
<1>5. CASE CtxRead(v)
  <2>1. /\ ctx[pkt[v].call] # NoContext /\ snap'[v] = ctx[pkt[v].call]
        /\ pkt'[v] = pkt[v] /\ pkt[v].call \in CallIds
    BY <1>5 DEF CtxRead, Finish, Respond, Goto, Holds, UsesSnap, TypeOK, Busy, Packet
  <2> QED BY <1>1, <2>1 DEF KnownInv, Known
<1>6. ASSUME Proceed(v), ~InvCreate(v), ~CtxRead(v)
      PROVE  Known(pkt[v].call, snap[v])'
  <2>1. Holds(v) /\ pkt'[v] = pkt[v] /\ snap'[v] = snap[v]
    BY <1>6 DEF Proceed, RegStore, RegCount, InvLookup, InvStore, InvEvent,
       InvCount, FindCall, SessionEvent, AckFind, AckCheck, StoreAnswer,
       RemoveCall, EraseContext, DecCheck, Dec, Send, Respond, Finish, Goto,
       TypeOK, Holds, UsesSnap, LocalStatus, proxyVars
  <2> QED BY <1>2, <2>1
<1>7. ASSUME NEW w \in Workers, NEW p \in Traffic, Receive(w, p)
      PROVE  Known(pkt[v].call, snap[v])'
  <2>1. Holds(v) /\ pkt'[v] = pkt[v] /\ snap'[v] = snap[v]
    BY <1>7 DEF Receive, FirstStep, FirstReply, Goto, Holds, UsesSnap, TypeOK
  <2> QED BY <1>2, <2>1
<1>8. CASE UNCHANGED vars \/ \E m \in outbox : Deliver(m)
  BY <1>2, <1>8 DEF vars, Deliver, workerVars, Holds
<1> QED BY <1>3, <1>4, <1>5, <1>6, <1>7, <1>8 DEF Next

LEMMA KnownNext == TypeOK /\ KnownInv /\ [Next]_vars => KnownInv'
<1> SUFFICES ASSUME TypeOK, KnownInv, [Next]_vars
             PROVE  KnownInv'
  OBVIOUS
<1>1. invited \subseteq invited'
  BY InvitedGrows
<1>2. ASSUME NEW c \in CallIds, ctx'[c] # NoContext
      PROVE  Known(c, ctx[c])'
  BY <1>1, <1>2, KnownContext DEF Known
<1>3. ASSUME NEW w \in Workers, Holds(w)'
      PROVE  Known(pkt[w].call, snap[w])'
  BY <1>3, KnownWorker
<1> QED BY <1>2, <1>3 DEF KnownInv

LEMMA RelayNext ==
  TypeOK /\ KnownInv /\ RelayToParties /\ [Next]_vars => RelayToParties'
<1> SUFFICES ASSUME TypeOK, KnownInv, RelayToParties, [Next]_vars,
                    NEW m \in outbox', m.type \notin LocalStatus
             PROVE  \E i \in invited' : m.call = i[1] /\ m.to \in {i[2], i[3]}
  BY DEF RelayToParties
<1>1. invited \subseteq invited'
  BY InvitedGrows
<1>2. CASE m \in outbox
  BY <1>1, <1>2 DEF RelayToParties
<1>3. ASSUME NEW w \in Workers, Send(w), m \notin outbox
      PROVE  \E i \in invited' : m.call = i[1] /\ m.to \in {i[2], i[3]}
  <2>1. reply[w] = "none" /\ m = Relay(pkt[w], snap[w])
    BY <1>3 DEF Send, LocalResponse, TypeOK
  <2>2. Known(pkt[w].call, snap[w])
    BY <1>3, <2>1 DEF Send, KnownInv, Holds
  <2> QED BY <1>1, <2>1, <2>2, RelayDestination DEF Known
<1>4. ASSUME NEW w \in Workers, Proceed(w), ~Send(w)
      PROVE  outbox' = outbox
  BY <1>4 DEF Proceed, RegStore, RegCount, InvLookup, InvCreate, InvStore, InvEvent,
     InvCount, CtxRead, FindCall, SessionEvent, AckFind, AckCheck, StoreAnswer,
     RemoveCall, EraseContext, DecCheck, Dec, ioVars
<1>5. CASE \/ \E w \in Workers : \E p \in Traffic : Receive(w, p)
           \/ \E d \in outbox : Deliver(d)
           \/ UNCHANGED vars
  BY <1>2, <1>5 DEF Receive, Deliver, vars, ioVars
<1> QED BY <1>2, <1>3, <1>4, <1>5 DEF Next

\* No message of a call leaves for an address outside the call, however long ago
\* the context was copied and whatever happened to it since
\* (sip_router.cpp:269-308, 344-383, 476-486).
THEOREM RelayedToPartiesOnly == Spec => []RelayToParties
<1>1. Init => KnownInv /\ RelayToParties
  BY DEF Init, KnownInv, Holds, UsesSnap, RelayToParties
<1> QED BY <1>1, TypeInit, TypeNext, KnownNext, RelayNext, PTL DEF Spec

=============================================================================
