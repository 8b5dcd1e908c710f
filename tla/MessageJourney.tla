--------------------------- MODULE MessageJourney ---------------------------
(***************************************************************************)
(* The journey of a call's text: a client builds an INVITE with the headers *)
(* its user typed, TCP carries it in pieces, a worker of the proxy parses   *)
(* it and relays it, the callee's client answers from the raw text, and the *)
(* answer goes back the same way. Workers take packets in any order. Beside *)
(* it, other SIP phones send the proxy datagrams, bodies included.          *)
(***************************************************************************)
EXTENDS SipMessage, TcpStream

CONSTANTS
  Calls,         \* Call-IDs
  CallerTypes,   \* what users type as extra headers for an INVITE
  CalleeTypes,   \* and for its answer
  Datagrams,     \* texts that arrive over UDP
  MaxPackets     \* bound: INVITEs and datagrams sent

VARIABLES
  typed,        \* call -> what its caller typed; none before it dialed
  answered,     \* call -> what the callee typed; none before it answered
  stored,       \* call -> the headers the proxy keeps of its INVITE
  relayed,      \* packets a worker has handled: <<stream, index>>
  forwarded     \* the datagrams sent on

callVars == <<typed, answered, stored, relayed, forwarded>>
vars == <<streamVars, callVars>>

Up == "caller to proxy"
Down == "proxy to callee"
Back == "callee to proxy"
Home == "proxy to caller"
ASSUME StreamsAssumption == Streams = {Up, Down, Back, Home}

CallerVia == <<"caller.host", COLON, "5062">>
CallerName == <<"caller">>
InviteLine == <<"INVITE">>
OkLine == <<"200">>

Init ==
  /\ StreamInit
  /\ typed = << >>
  /\ answered = << >>
  /\ stored = << >>
  /\ relayed = {}
  /\ forwarded = <<>>

----------------------------------------------------------------------------
(* The two clients.                                                         *)

InviteText(call, extra) ==
  Build(InviteLine, CallerVia, CallerName, <<call>>, extra)

\* new_call_id is fresh: which one it is makes no difference.
Dial ==
  LET call == CHOOSE c \in Calls : c \notin DOMAIN typed
  IN  /\ Calls \ DOMAIN typed # {}
      /\ Cardinality(DOMAIN typed) + Len(forwarded) < MaxPackets
      /\ \E extra \in CallerTypes :
           /\ typed' = typed @@ (call :> extra)
           /\ Send(Up, InviteText(call, extra))
      /\ UNCHANGED <<answered, stored, relayed, forwarded>>

\* handle_answer answers from the raw text of the INVITE.
Answer(i) ==
  LET raw == delivered[Down][i]
      call == Field(CallId, raw)[1]
  IN  /\ i \in DOMAIN delivered[Down]
      /\ call \notin DOMAIN answered
      /\ \E extra \in CalleeTypes :
           /\ answered' = answered @@ (call :> extra)
           /\ Send(Back, BuildResponse(OkLine, raw, extra))
      /\ UNCHANGED <<typed, stored, relayed, forwarded>>

----------------------------------------------------------------------------
(* A worker of the proxy.                                                   *)

Taken(s, i) ==
  /\ i \in DOMAIN delivered[s]
  /\ <<s, i>> \notin relayed
  /\ relayed' = relayed \cup {<<s, i>>}

RelayRequest(i) ==
  LET m == Parse(delivered[Up][i])
  IN  /\ Taken(Up, i)
      /\ stored' = stored @@ (GetHeader(m, CallId)[1] :> Stored(m))
      /\ Send(Down, Serialize(RelayedRequest(m)))
      /\ UNCHANGED <<typed, answered, forwarded>>

RelayResponse(i) ==
  LET m == Parse(delivered[Back][i])
  IN  /\ Taken(Back, i)
      /\ GetHeader(m, CallId) # <<>> /\ GetHeader(m, CallId)[1] \in DOMAIN stored
      /\ \E out \in RelayedResponses(stored[GetHeader(m, CallId)[1]], m) :
           Send(Home, Serialize(out))
      /\ UNCHANGED <<typed, answered, stored, forwarded>>

RelayDatagram ==
  /\ Cardinality(DOMAIN typed) + Len(forwarded) < MaxPackets
  /\ \E text \in Datagrams :
       forwarded' = Append(forwarded, Serialize(RelayedRequest(Parse(text))))
  /\ UNCHANGED <<streamVars, typed, answered, stored, relayed>>

Next ==
  \/ Dial
  \/ \E i \in DOMAIN delivered[Down] : Answer(i)
  \/ \E i \in DOMAIN delivered[Up] : RelayRequest(i)
  \/ \E i \in DOMAIN delivered[Back] : RelayResponse(i)
  \/ RelayDatagram
  \/ \E s \in Streams : Receive(s) /\ UNCHANGED callVars

Spec == Init /\ [][Next]_vars

\* A receive thread whose stream holds something goes on, the thread pool takes
\* every packet, and callees answer. The last three are weak fairness of
\* RelayRequest(i), RelayResponse(i) and Answer(i), which stay enabled until they
\* are taken, written without the ENABLED that would parse the text again.
Unhandled(s, i) == i \in DOMAIN delivered[s] /\ <<s, i>> \notin relayed
Unanswered(i) == /\ i \in DOMAIN delivered[Down]
                 /\ Field(CallId, delivered[Down][i])[1] \notin DOMAIN answered

Fairness ==
  /\ \A s \in Streams : WF_vars(Receive(s) /\ UNCHANGED callVars)
  /\ \A i \in 1..MaxPackets : /\ []<>~Unhandled(Up, i)
                              /\ []<>~Unhandled(Back, i)
                              /\ []<>~Unanswered(i)

FairSpec == Spec /\ Fairness

----------------------------------------------------------------------------
(* Properties.                                                              *)

\* What the variables hold: every text sent, whatever was typed, and so every
\* text cut out of a stream, ends with the delimiter and holds no other.
JourneyTypeOK ==
  /\ \A s \in Streams :
       /\ \A i \in DOMAIN posted[s] : IsFramed(posted[s][i])
       /\ \A i \in DOMAIN delivered[s] : IsFramed(delivered[s][i])
       /\ Len(delivered[s]) <= Len(posted[s])
  /\ DOMAIN stored \subseteq DOMAIN typed /\ DOMAIN answered \subseteq DOMAIN stored
  /\ DOMAIN typed \subseteq Calls
  /\ relayed \subseteq {Up, Back} \X (1..MaxPackets)
  /\ Cardinality(DOMAIN typed) + Len(forwarded) <= MaxPackets

\* What a user asked a header to be: its last line for that name, whatever the
\* case, or the value the client gives it. The client answers for
\* Content-Length itself.
LinesFor(extra, name) ==
  SelectSeq(Lines(extra), LAMBDA l : IsHeader(l) /\ LowerText(NameOf(l)) = LowerText(name))
Asked(call, name) ==
  CASE name = ContentLength -> <<"0">>
    [] name # ContentLength /\ LinesFor(typed[call], name) # <<>> ->
         ValueOf(Last(LinesFor(typed[call], name)))
    [] OTHER -> CASE name = Via -> CallerVia [] name = From -> CallerName
                  [] name = CallId -> <<call>>

TypedHeaders(extra) == {l \in ToSet(Lines(extra)) : IsHeader(l)}

\* The values typed in the client reach the callee as typed: through the
\* factory, two connections cut anywhere, the parser and the proxy's serializer
\* no value is lost, invented or changed, and the proxy's Via is on top. Which
\* header a line is for goes by its name in any case, as SIPMessageFactory::build does;
\* docs/interface-contracts.md:401 says otherwise, see TypedNamesAreExact.
CalleeSeesWhatWasTyped ==
  \A i \in DOMAIN delivered[Down] :
    LET m == Parse(delivered[Down][i])
        call == GetHeader(m, CallId)[1]
    IN  /\ call \in DOMAIN typed
        /\ m.headers[1] = Header(Via, ProxyVia)
        /\ \A h \in ToSet(Tail(m.headers)) : h.value = Asked(call, h.name)
        /\ \A l \in TypedHeaders(typed[call]) :
             \E h \in ToSet(m.headers) : LowerText(h.name) = LowerText(NameOf(l))

\* What comes home is the callee's answer to that call: it names the call and
\* the caller, shows nothing of the proxy, has what the callee typed, and the
\* caller's own extra headers where the callee sent none of that name.
CallerSeesTheAnswer ==
  \A i \in DOMAIN delivered[Home] :
    LET m == Parse(delivered[Home][i])
        call == GetHeader(m, CallId)[1]
    IN  /\ m.start = OkLine /\ call \in DOMAIN answered
        /\ \A h \in ToSet(m.headers) : ~Contains(h.value, ProxyHost)
        /\ GetHeader(m, From) = Asked(call, From)
        /\ \A l \in TypedHeaders(answered[call]) :
             \E h \in ToSet(m.headers) :
               h.name = NameOf(l) /\ h.value \in {ValueOf(l), <<"0">>}
        /\ \A n \in DOMAIN stored[call] : n = Via \/ HasHeader(m, n)

\* Whatever length a text announced, and whatever headers were added or taken,
\* what the proxy sends on announces the length it has.
LengthIsAccurate ==
  \A text \in ToSet(posted[Down]) \cup ToSet(posted[Home]) \cup ToSet(forwarded) :
    Number(GetHeader(Parse(text), ContentLength)) = Len(text) - Find(EndOfHeaders, text) - 3

\* Every INVITE dialed is answered: its answer comes home.
EveryCallAnswered ==
  \A call \in Calls :
    call \in DOMAIN typed ~>
      \E i \in DOMAIN delivered[Home] :
        GetHeader(Parse(delivered[Home][i]), CallId) = <<call>>

(***************************************************************************)
(* What the documents promise, and the code does not keep.                  *)
(***************************************************************************)

\* docs/interface-contracts.md:401, :210: a typed line replaces the header of
\* exactly its name, or is added. So its name reaches the callee as typed.
TypedNamesAreExact ==
  \A i \in DOMAIN delivered[Down] :
    LET m == Parse(delivered[Down][i])
    IN  \A l \in TypedHeaders(typed[GetHeader(m, CallId)[1]]) :
          \E h \in ToSet(m.headers) : h.name = NameOf(l)
=============================================================================
