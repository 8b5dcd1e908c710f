----------------------------- MODULE TcpStream ------------------------------
(***************************************************************************)
(* The framing of TcpTransport: a connection carries bytes, recv returns    *)
(* any piece of them, and receiveLoop cuts them into messages at the first  *)
(* CR LF CR LF. A stream is one direction of one connection.                *)
(***************************************************************************)
EXTENDS Integers, Sequences

CONSTANTS
  Streams,
  ChunkSizes,  \* how many tokens a recv may return
  Tokens       \* what texts are made of

ASSUME ChunkAssumption == ChunkSizes \subseteq Nat \ {0}

VARIABLES
  posted,        \* the texts handed to send, in order
  wire,          \* sent and not yet received
  accumulator,   \* received and not yet cut
  delivered      \* the texts handed to the callback, in order

streamVars == <<posted, wire, accumulator, delivered>>

Delimiter == <<"CR", "LF", "CR", "LF">>

\* Where the first delimiter starts, 0 when there is none.
DelimiterAt(text) ==
  LET at == {i \in 1..Len(text) - 3 : SubSeq(text, i, i + 3) = Delimiter}
  IN  IF at = {} THEN 0 ELSE CHOOSE i \in at : \A j \in at : i <= j

StreamInit ==
  /\ posted = [s \in Streams |-> <<>>]
  /\ wire = [s \in Streams |-> <<>>]
  /\ accumulator = [s \in Streams |-> <<>>]
  /\ delivered = [s \in Streams |-> <<>>]

Send(s, text) ==
  /\ posted' = [posted EXCEPT ![s] = Append(@, text)]
  /\ wire' = [wire EXCEPT ![s] = @ \o text]
  /\ UNCHANGED <<accumulator, delivered>>

\* Wrong: the accumulator starts anew with every recv.
RecvAfresh(s, n) ==
  LET size == IF n < Len(wire[s]) THEN n ELSE Len(wire[s])
  IN  /\ DelimiterAt(accumulator[s]) = 0
      /\ wire[s] # <<>>
      /\ accumulator' = [accumulator EXCEPT ![s] = SubSeq(wire[s], 1, size)]
      /\ wire' = [wire EXCEPT ![s] = SubSeq(@, size + 1, Len(@))]
      /\ UNCHANGED <<posted, delivered>>

\* recv is called again once everything whole has been cut out.
Recv(s, n) ==
  LET size == IF n < Len(wire[s]) THEN n ELSE Len(wire[s])
  IN  /\ DelimiterAt(accumulator[s]) = 0
      /\ wire[s] # <<>>
      /\ accumulator' = [accumulator EXCEPT ![s] = @ \o SubSeq(wire[s], 1, size)]
      /\ wire' = [wire EXCEPT ![s] = SubSeq(@, size + 1, Len(@))]
      /\ UNCHANGED <<posted, delivered>>

\* Wrong: hands over all there is when a delimiter is in it.
DeliverAll(s) ==
  /\ DelimiterAt(accumulator[s]) # 0
  /\ delivered' = [delivered EXCEPT ![s] = Append(@, accumulator[s])]
  /\ accumulator' = [accumulator EXCEPT ![s] = <<>>]
  /\ UNCHANGED <<posted, wire>>

Deliver(s) ==
  LET pos == DelimiterAt(accumulator[s])
  IN  /\ pos # 0
      /\ delivered' = [delivered EXCEPT ![s] = Append(@, SubSeq(accumulator[s], 1, pos + 3))]
      /\ accumulator' = [accumulator EXCEPT ![s] = SubSeq(@, pos + 4, Len(@))]
      /\ UNCHANGED <<posted, wire>>

\* Wrong: one message at most is cut out after each recv.
ReceiveOne(s) ==
  \E n \in ChunkSizes :
    LET size == IF n < Len(wire[s]) THEN n ELSE Len(wire[s])
        text == accumulator[s] \o SubSeq(wire[s], 1, size)
        pos == DelimiterAt(text)
    IN  /\ wire[s] # <<>>
        /\ wire' = [wire EXCEPT ![s] = SubSeq(@, size + 1, Len(@))]
        /\ accumulator' = [accumulator EXCEPT ![s] =
                             IF pos = 0 THEN text ELSE SubSeq(text, pos + 4, Len(text))]
        /\ delivered' = IF pos = 0 THEN delivered
                        ELSE [delivered EXCEPT ![s] = Append(@, SubSeq(text, 1, pos + 3))]
        /\ UNCHANGED posted

Receive(s) == Deliver(s) \/ \E n \in ChunkSizes : Recv(s, n)

----------------------------------------------------------------------------
(* The streams on their own, carrying any text that ends in the delimiter   *)
(* and holds no other: every SIP message here, since all have empty bodies. *)

IsFramed(text) == DelimiterAt(text) # 0 /\ DelimiterAt(text) + 3 = Len(text)
Framed == {t \in Seq(Tokens) : IsFramed(t)}

StreamNext ==
  \E s \in Streams : Receive(s) \/ \E text \in Framed : Send(s, text)

StreamSpec == StreamInit /\ [][StreamNext]_streamVars

\* No text is split, merged, lost, doubled or overtaken by the framing
\* (docs/interface-contracts.md:91: the transport must not split or merge).
Channel == INSTANCE MessageChannel WITH sent <- posted, received <- delivered
StreamsAreChannels == Channel!Spec
=============================================================================
