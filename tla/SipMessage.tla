----------------------------- MODULE SipMessage -----------------------------
(***************************************************************************)
(* SIP messages and their text: common::SIPMessage, proxy::SIPParser, the   *)
(* client's SIPMessageFactory and the header work of the router.            *)
(*                                                                          *)
(* A text is a sequence of tokens: CR, LF, COLON, SP and atoms (a name, a   *)
(* number, a start line). The header From stands for From, To, CSeq and     *)
(* Contact, which are built, relayed and answered in the same way.          *)
(***************************************************************************)
EXTENDS Integers, SequencesExt

CONSTANTS
  Lower,       \* the atoms with capitals, each with its lower-case form
  MaxNumber    \* bound of the numbers Content-Length is read as

CR == "CR"
LF == "LF"
COLON == ":"
SP == " "
EOL == <<CR, LF>>
EndOfHeaders == EOL \o EOL

Via == <<"Via">>
From == <<"From">>
CallId == <<"Call-ID">>
ContentLength == <<"Content-Length">>
ProxyHost == "proxy.local"
ProxyVia == <<ProxyHost, COLON, "5061">>

----------------------------------------------------------------------------
(* Text.                                                                    *)

\* std::string::find: the first place of a pattern, 0 when there is none.
Find(pattern, text) ==
  LET at == {i \in 1..Len(text) - Len(pattern) + 1 :
                SubSeq(text, i, i + Len(pattern) - 1) = pattern}
  IN  IF at = {} THEN 0 ELSE CHOOSE i \in at : \A j \in at : i <= j

Before(text, i) == SubSeq(text, 1, i - 1)
Onward(text, i) == SubSeq(text, i, Len(text))

IsSolid(token) == token # SP
Trim(text) ==
  LET first == SelectInSeq(text, IsSolid)
  IN  IF first = 0 THEN <<>> ELSE SubSeq(text, first, SelectLastInSeq(text, IsSolid))

\* The loops over std::getline: lines end at LF, a CR before it is dropped and
\* empty lines are skipped.
Lines(text) ==
  LET ends == SelectSeq([i \in 1..Len(text) + 1 |-> i],
                        LAMBDA i : i = Len(text) + 1 \/ text[i] = LF)
      Line(k) == SubSeq(text, IF k = 1 THEN 1 ELSE ends[k - 1] + 1, ends[k] - 1)
      Bare(line) == IF line # <<>> /\ Last(line) = CR THEN Front(line) ELSE line
  IN  SelectSeq([k \in DOMAIN ends |-> Bare(Line(k))], LAMBDA line : line # <<>>)

LowerText(text) ==
  [i \in DOMAIN text |-> IF text[i] \in DOMAIN Lower THEN Lower[text[i]] ELSE text[i]]

----------------------------------------------------------------------------
(* common::SIPMessage: a start line, headers in order, a body.              *)

Header(name, value) == [name |-> name, value |-> value]

IndexOf(m, name) == SelectInSeq(m.headers, LAMBDA h : h.name = name)
HasHeader(m, name) == IndexOf(m, name) # 0
GetHeader(m, name) == IF HasHeader(m, name) THEN m.headers[IndexOf(m, name)].value ELSE <<>>

AddHeader(m, name, value) == [m EXCEPT !.headers = Append(@, Header(name, value))]
PrependHeader(m, name, value) == [m EXCEPT !.headers = <<Header(name, value)>> \o @]
SetHeader(m, name, value) ==
  IF HasHeader(m, name) THEN [m EXCEPT !.headers[IndexOf(m, name)].value = value]
  ELSE AddHeader(m, name, value)

UpdateContentLength(m) == SetHeader(m, ContentLength, <<ToString(Len(m.body))>>)

HeaderLine(h) == h.name \o <<COLON, SP>> \o h.value \o EOL

\* The factory's serialize writes the headers as they are, the message's own
\* after Content-Length is brought up to date.
Written(m) ==
  m.start \o EOL \o FlattenSeq([i \in DOMAIN m.headers |-> HeaderLine(m.headers[i])])
    \o EOL \o m.body
\* Wrong: the length the message came with goes on.
SerializeAsReceived(m) == Written(m)
Serialize(m) == Written(UpdateContentLength(m))

----------------------------------------------------------------------------
(* proxy::SIPParser.                                                        *)

\* What a line names and says; a line without a colon, or without a name, is
\* no header.
NameOf(line) == Trim(Before(line, Find(<<COLON>>, line)))
ValueOf(line) == Trim(Onward(line, Find(<<COLON>>, line) + 1))
IsHeader(line) == Find(<<COLON>>, line) # 0 /\ NameOf(line) # <<>>

ParseHeaders(lines) ==
  LET headers == SelectSeq(lines, IsHeader)
  IN  [i \in DOMAIN headers |-> Header(NameOf(headers[i]), ValueOf(headers[i]))]

\* -1 for no number and for a negative one.
Number(value) ==
  LET said == {n \in 0..MaxNumber : value # <<>> /\ value[1] = ToString(n)}
  IN  IF said = {} THEN -1 ELSE CHOOSE n \in said : TRUE

ParseBody(raw, length) ==
  IF length < 0 \/ length > Len(raw) THEN raw ELSE SubSeq(raw, 1, length)

Parse(text) ==
  LET blank == Find(EndOfHeaders, text)
      bare  == Find(<<LF, LF>>, text)
      end   == CASE blank # 0 -> blank [] blank = 0 /\ bare # 0 -> bare
                 [] OTHER -> Len(text) + 1
      lines == Lines(Before(text, end))
      head  == [start   |-> IF lines = <<>> THEN <<>> ELSE Head(lines),
                headers |-> IF lines = <<>> THEN <<>> ELSE ParseHeaders(Tail(lines)),
                body    |-> <<>>]
      raw   == Onward(text, end + (IF blank # 0 THEN 4 ELSE 2))
  IN  [head EXCEPT !.body = ParseBody(raw, Number(GetHeader(head, ContentLength)))]

----------------------------------------------------------------------------
(* The client's SIPMessageFactory.                                          *)

\* The value typed after the colon, without the spaces it starts with; one of
\* spaces only stays.
TypedValue(line) ==
  LET value == Onward(line, Find(<<COLON>>, line) + 1)
      first == SelectInSeq(value, IsSolid)
  IN  IF first = 0 THEN value ELSE Onward(value, first)

\* Wrong: a typed line is always added.
InjectAppending(headers, line) ==
  IF Find(<<COLON>>, line) = 0 THEN headers
  ELSE Append(headers, Header(Before(line, Find(<<COLON>>, line)), TypedValue(line)))

\* A typed line gives a header of the same letters its value, or is added.
Inject(headers, line) ==
  LET name == Before(line, Find(<<COLON>>, line))
      same == SelectInSeq(headers, LAMBDA h : LowerText(h.name) = LowerText(name))
  IN  CASE Find(<<COLON>>, line) = 0 -> headers
        [] Find(<<COLON>>, line) # 0 /\ same # 0 ->
             [headers EXCEPT ![same].value = TypedValue(line)]
        [] OTHER -> Append(headers, Header(name, TypedValue(line)))

Build(start, via, from, callId, typed) ==
  LET plain == <<Header(Via, via), Header(From, from), Header(CallId, callId)>>
  IN  Written([start   |-> start,
               headers |-> Append(FoldLeft(Inject, plain, Lines(typed)),
                                  Header(ContentLength, <<"0">>)),
               body    |-> <<>>])

\* get_header of build_response: what follows the first place where the name's
\* letters, white space and a colon stand, up to the end of that line.
Blank == {SP, CR, LF}
Field(name, raw) ==
  LET lower == LowerText(raw)
      Colon(i) == SelectInSubSeq(raw, i + 1, Len(raw), LAMBDA t : t \notin Blank)
      at == {i \in DOMAIN raw : /\ lower[i] = LowerText(name)[1]
                                /\ Colon(i) # 0 /\ raw[Colon(i)] = COLON}
      first == SelectInSubSeq(raw, Colon(CHOOSE i \in at : \A j \in at : i <= j) + 1,
                              Len(raw), LAMBDA t : t \notin Blank)
      end == SelectInSubSeq(raw, first, Len(raw), LAMBDA t : t \in {CR, LF})
  IN  IF at = {} \/ first = 0 THEN <<>> ELSE SubSeq(raw, first, end - 1)

BuildResponse(start, raw, typed) ==
  LET copied == [i \in 1..3 |-> LET name == <<Via, From, CallId>>[i]
                                IN  HeaderLine(Header(name, Field(name, raw)))]
      lines == Lines(typed)
  IN  start \o EOL \o FlattenSeq(copied)
        \o FlattenSeq([i \in DOMAIN lines |-> lines[i] \o EOL])
        \o HeaderLine(Header(ContentLength, <<"0">>)) \o EOL

----------------------------------------------------------------------------
(* What the router does to the headers of what it relays.                   *)

RelayedRequest(m) == PrependHeader(m, Via, ProxyVia)

\* strip_proxy_via takes the first Via that names the proxy.
StripProxyVia(m) ==
  LET own == SelectInSeq(m.headers, LAMBDA h : h.name = Via /\ Contains(h.value, ProxyHost))
  IN  IF own = 0 THEN m ELSE [m EXCEPT !.headers = RemoveAt(@, own)]

\* The headers kept of an INVITE: of two with one name, the last.
Stored(m) ==
  LET names == {m.headers[i].name : i \in DOMAIN m.headers}
  IN  [n \in names |-> m.headers[SelectLastInSeq(m.headers, LAMBDA h : h.name = n)].value]

\* Those a response lacks are added to it, in the order of a hash table: any.
Missing(stored, m) ==
  {n \in DOMAIN stored : n \notin {Via, From, CallId, ContentLength} /\ ~HasHeader(m, n)}

\* Wrong: the caller's own headers are not given back.
RelayedBare(stored, m) == {StripProxyVia(m)}

RelayedResponses(stored, m) ==
  LET stripped == StripProxyVia(m)
  IN  {[stripped EXCEPT !.headers = @ \o [i \in DOMAIN order |-> Header(order[i], stored[order[i]])]] :
         order \in SetToSeqs(Missing(stored, stripped))}
=============================================================================
