--------------------------- MODULE MessageChannel ---------------------------
(***************************************************************************)
(* What a connection promises the parts above it: on each stream, messages  *)
(* arrive whole, once and in the order they were sent.                      *)
(***************************************************************************)
EXTENDS Integers, Sequences

CONSTANT Streams

VARIABLES sent, received

vars == <<sent, received>>

Init ==
  /\ sent = [s \in Streams |-> <<>>]
  /\ received = [s \in Streams |-> <<>>]

\* Any text: the last of the new sequence.
Send(s) ==
  /\ sent'[s] # <<>>
  /\ sent' = [sent EXCEPT ![s] = Append(@, sent'[s][Len(sent'[s])])]
  /\ UNCHANGED received

Receive(s) ==
  /\ Len(received[s]) < Len(sent[s])
  /\ received' = [received EXCEPT ![s] = Append(@, sent[s][Len(@) + 1])]
  /\ UNCHANGED sent

Next == \E s \in Streams : Send(s) \/ Receive(s)

Spec == Init /\ [][Next]_vars
=============================================================================
