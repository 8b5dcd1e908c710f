-------------------------- MODULE CallStateMachine --------------------------
(***************************************************************************)
(* The pure call state machine of the proxy, CallStateMachine::handle_event *)
(* (proxy/src/call_state_machine.cpp), and the mapping from SIP messages to *)
(* its events, CallSession::on_request and on_response.                     *)
(*                                                                         *)
(* A message is named by its method, or by its status code and, where the   *)
(* code looks at CSeq, the method it answers.                               *)
(***************************************************************************)

RequestTypes  == {"REGISTER", "INVITE", "ACK", "BYE", "OPTIONS"}
ResponseTypes == {"100", "180", "200_INVITE", "200_BYE", "486", "603"}

CallState == {"INIT", "TRYING", "RINGING", "ESTABLISHED", "TERMINATED"}

\* Mutated form of HandleEvent: a late 180 takes an answered call back.
RegressingHandleEvent(s, e) ==
  CASE s = "INIT"        /\ e = "INVITE"     -> "TRYING"
    [] s = "TRYING"      /\ e = "180"        -> "RINGING"
    [] s = "RINGING"     /\ e = "200_INVITE" -> "ESTABLISHED"
    [] s = "ESTABLISHED" /\ e = "180"        -> "RINGING"
    [] s = "ESTABLISHED" /\ e = "BYE"        -> "TERMINATED"
    [] OTHER -> s

\* The event of a message is named by the message itself: on_request maps
\* INVITE, ACK and BYE, on_response maps 100, 180 and a 200 to an INVITE; any
\* other message raises no event. 100 in TRYING and ACK in ESTABLISHED are
\* legal and change nothing, like every pair the machine does not list.
HandleEvent(s, e) ==
  CASE s = "INIT"        /\ e = "INVITE"     -> "TRYING"
    [] s = "TRYING"      /\ e = "180"        -> "RINGING"
    [] s = "RINGING"     /\ e = "200_INVITE" -> "ESTABLISHED"
    [] s = "ESTABLISHED" /\ e = "BYE"        -> "TERMINATED"
    [] OTHER -> s

\* Position of a state in the life of a call.
Rank(s) == CASE s = "INIT"        -> 0
             [] s = "TRYING"      -> 1
             [] s = "RINGING"     -> 2
             [] s = "ESTABLISHED" -> 3
             [] s = "TERMINATED"  -> 4
=============================================================================
