---------------------------- MODULE ClientThreads ----------------------------
(***************************************************************************)
(* The two threads of one client: the user's, which runs the window and     *)
(* the commands (ui, SIPClient::do_register, do_invite, do_bye, do_answer,  *)
(* do_reject), and the network's, which runs SIPClient::on_packet_received. *)
(*                                                                         *)
(* SipCalls takes each handler of the client as one step.  Here a step ends *)
(* where a mutex of SIPClientStateManager or SIPReceiveHandler is released, *)
(* so that the two threads meet in the middle of their handlers.  The proxy *)
(* and the other party are what may arrive: answers to what was sent, and   *)
(* calls, in any order.  To a client's REGISTER the proxy answers 200 only.  *)
(***************************************************************************)
EXTENDS Naturals

CONSTANTS
  Outgoing,      \* Call-IDs the user may dial with, each once
  Incoming,      \* Call-IDs others may call with, each once
  NoCall,        \* an empty Call-ID, an empty pending_invite_
  MaxAttempts,   \* max_attempts, 5 in the code
  MaxPackets     \* bound: packets that arrive

Calls == Outgoing \cup Incoming

ASSUME CallsAssumption == Outgoing \cap Incoming = {} /\ NoCall \notin Calls
ASSUME BoundsAssumption == MaxAttempts \in Nat \ {0} /\ MaxPackets \in Nat

VARIABLES
  state,         \* state_ of SIPClientStateManager
  active,        \* active_call_id_, and with it active_remote_uri_
  incoming,      \* is_incoming_call_
  pending,       \* pending_invite_ of SIPInviteHandler
  received,      \* register_response_received_
  response,      \* register_response_: "none" or the "ok" of a 200
  user,          \* where the user's thread is
  userCall,      \* the call its handler is about
  attempt,       \* REGISTERs handle_register has sent
  gotReceived,   \* the first half of register_response_snapshot
  net,           \* where the network's thread is
  packet,        \* its packet
  events,        \* what is queued for the window, once of each kind
  registerOn,    \* register_btn_ is enabled
  registered,    \* registered_ of MainWindow
  buttons,       \* the call buttons that are enabled
  silent,        \* history: a handler that tells the window nothing has
                 \* changed the state since the buttons were computed
  sent,          \* what the client has sent
  packets        \* packets that have arrived

stateVars    == <<state, active, incoming>>
registerVars == <<received, response>>
userVars     == <<user, userCall, attempt, gotReceived>>
netVars      == <<net, packet, packets>>
windowVars   == <<registerOn, registered, buttons>>
vars == <<stateVars, pending, registerVars, userVars, netVars, events, windowVars,
          silent, sent>>

States == {"Idle", "Registering", "Registered", "Calling", "Ringing", "InCall", "Failed"}
Kinds == {"INVITE", "BYE", "100", "180", "200", "486", "200 BYE", "200 REGISTER"}
Packets == [kind : Kinds, call : Calls \cup {NoCall}]
NoPacket == [kind |-> "100", call |-> NoCall]
Sent == [kind : {"INVITE", "BYE", "200", "REGISTER"}, call : Calls \cup {NoCall}]

Init ==
  /\ state = "Idle" /\ active = NoCall /\ incoming = FALSE /\ pending = NoCall
  /\ received = FALSE /\ response = "none"
  /\ user = "idle" /\ userCall = NoCall /\ attempt = 0 /\ gotReceived = FALSE
  /\ net = "idle" /\ packet = NoPacket /\ packets = 0
  /\ events = {} /\ registerOn = TRUE /\ registered = FALSE /\ buttons = {}
  /\ silent = FALSE /\ sent = {}

(***************************************************************************)
(* SIPClientStateManager: each of these is one critical section.            *)
(***************************************************************************)

Busy == state \in {"Calling", "Ringing", "InCall"}

TransitionTo(s) == state' = s /\ UNCHANGED <<active, incoming>>

StartCall(c, isIncoming) ==
  /\ active' = c /\ incoming' = isIncoming
  /\ state' = IF isIncoming THEN "Ringing" ELSE "Calling"

CallTerminated ==
  active' = NoCall /\ incoming' = FALSE /\ state' = "Registered"

Send(kind, call) == sent' = sent \cup {[kind |-> kind, call |-> call]}

\* notify_call_state_changed, from either thread.
Notify == events' = events \cup {"update"}

(***************************************************************************)
(* The window, in the user's thread when it is idle.                        *)
(***************************************************************************)

\* update_button_states; reject goes with answer.  It reads the state under
\* three locks: what changes in between brings an event of its own.
ButtonsNow(isRegistered) ==
  {b \in {"call", "hangup", "answer"} :
     /\ isRegistered
     /\ CASE b = "call"   -> state = "Registered"
          [] b = "hangup" -> state = "InCall"
          [] b = "answer" -> state = "Ringing" /\ active # NoCall /\ incoming}

\* on_call_state_changed, on_call_error.
ProcessUpdate ==
  /\ user = "idle" /\ "update" \in events
  /\ events' = events \ {"update"}
  /\ buttons' = ButtonsNow(registered) /\ silent' = FALSE
  /\ UNCHANGED <<registerOn, registered>>
  /\ UNCHANGED <<stateVars, pending, registerVars, userVars, netVars, sent>>

\* on_register_response of a success.
ProcessAccepted ==
  /\ user = "idle" /\ "accepted" \in events
  /\ events' = events \ {"accepted"}
  /\ registerOn' = TRUE /\ registered' = TRUE
  /\ buttons' = ButtonsNow(TRUE) /\ silent' = FALSE
  /\ UNCHANGED <<stateVars, pending, registerVars, userVars, netVars, sent>>

\* And of a failure, which leaves the call buttons as they are.
ProcessRefused ==
  /\ user = "idle" /\ "refused" \in events
  /\ events' = events \ {"refused"}
  /\ registerOn' = TRUE
  /\ UNCHANGED <<registered, buttons, silent>>
  /\ UNCHANGED <<stateVars, pending, registerVars, userVars, netVars, sent>>

\* A click on an enabled button starts its handler.
Click(handler, call) ==
  /\ user = "idle" /\ user' = handler /\ userCall' = call
  /\ UNCHANGED <<attempt, gotReceived>>
  /\ UNCHANGED <<stateVars, pending, registerVars, netVars, events, silent, sent>>

ClickRegister == registerOn /\ Click("register", NoCall) /\ registerOn' = FALSE
                 /\ UNCHANGED <<registered, buttons>>
ClickCall(c)  == /\ "call" \in buttons /\ c \in Outgoing
                 /\ [kind |-> "INVITE", call |-> c] \notin sent
                 /\ Click("invite", c) /\ UNCHANGED windowVars
ClickHangup   == "hangup" \in buttons /\ Click("bye", NoCall) /\ UNCHANGED windowVars
ClickAnswer   == "answer" \in buttons /\ Click("answer", NoCall) /\ UNCHANGED windowVars
ClickReject   == "answer" \in buttons /\ Click("reject", NoCall) /\ UNCHANGED windowVars
ChangeHeaders == Click("headers", NoCall) /\ UNCHANGED windowVars

\* A handler goes on at pc, or returns, and its variables are gone.
userLocals == <<userCall, attempt, gotReceived>>
UserGoes(pc) == user' = pc /\ UNCHANGED userLocals
UserReturns ==
  user' = "idle" /\ userCall' = NoCall /\ attempt' = 0 /\ gotReceived' = FALSE
UserReturnsIf(done, pc) == IF done THEN UserReturns ELSE UserGoes(pc)

\* on_headers_changed writes pending_headers_.
HeadersWritten ==
  /\ user = "headers" /\ UserReturns
  /\ UNCHANGED <<stateVars, pending, registerVars, netVars, events, windowVars, silent, sent>>

(***************************************************************************)
(* SIPRegisterHandler::handle_register                                      *)
(***************************************************************************)

\* do_register writes pending_headers_; on_registering.
RegisterBegins ==
  /\ user = "register" /\ UserGoes("reset")
  /\ TransitionTo("Registering") /\ silent' = TRUE
  /\ UNCHANGED <<pending, registerVars, netVars, events, windowVars, sent>>

RegisterReset ==
  /\ user = "reset" /\ UserGoes("send")
  /\ received' = FALSE /\ response' = "none"
  /\ UNCHANGED <<stateVars, pending, netVars, events, windowVars, silent, sent>>

\* Wrong: attempts are not counted.
RegisterSendUncounted ==
  /\ user = "send" /\ UserGoes("wait")
  /\ Send("REGISTER", NoCall)
  /\ UNCHANGED <<stateVars, pending, registerVars, netVars, events, windowVars, silent>>

RegisterSend ==
  /\ user = "send" /\ user' = "wait"
  /\ attempt' = attempt + 1 /\ Send("REGISTER", NoCall)
  /\ UNCHANGED <<userCall, gotReceived>>
  /\ UNCHANGED <<stateVars, pending, registerVars, netVars, events, windowVars, silent>>

\* Wrong: one attempt too many.
RegisterWaitedOnceMore ==
  /\ user = "wait"
  /\ UserGoes(IF received \/ attempt > MaxAttempts THEN "snapshot" ELSE "send")
  /\ UNCHANGED <<stateVars, pending, registerVars, netVars, events, windowVars, silent, sent>>

\* wait_for returns true when the answer is there, false after two seconds;
\* the loop ends with the answer or with the last attempt.
RegisterWaited ==
  /\ user = "wait"
  /\ UserGoes(IF received \/ attempt = MaxAttempts THEN "snapshot" ELSE "send")
  /\ UNCHANGED <<stateVars, pending, registerVars, netVars, events, windowVars, silent, sent>>

\* register_response_snapshot reads the flag and the response under two locks.
RegisterSnapshot ==
  /\ user = "snapshot" /\ user' = "decide"
  /\ gotReceived' = received
  /\ UNCHANGED <<userCall, attempt>>
  /\ UNCHANGED <<stateVars, pending, registerVars, netVars, events, windowVars, silent, sent>>

RegisterDecide ==
  /\ user = "decide" /\ UserReturns
  /\ TransitionTo(IF gotReceived /\ response = "ok" THEN "Registered" ELSE "Failed")
  /\ silent' = TRUE
  /\ UNCHANGED <<pending, registerVars, netVars, events, windowVars, sent>>

(***************************************************************************)
(* SIPInviteHandler, in the user's thread                                   *)
(***************************************************************************)

\* on_call_clicked writes pending_headers_; is_registered.
InviteBegins ==
  /\ user = "invite" /\ UserReturnsIf(state # "Registered", "busy")
  /\ UNCHANGED <<stateVars, pending, registerVars, netVars, events, windowVars, silent, sent>>

InviteBusy ==
  /\ user = "busy" /\ UserReturnsIf(Busy, "calling")
  /\ UNCHANGED <<stateVars, pending, registerVars, netVars, events, windowVars, silent, sent>>

InviteCalling ==
  /\ user = "calling" /\ UserGoes("sendInvite")
  /\ StartCall(userCall, FALSE)
  /\ UNCHANGED <<pending, registerVars, netVars, events, windowVars, silent, sent>>

InviteSent ==
  /\ user = "sendInvite" /\ UserReturns
  /\ Send("INVITE", userCall) /\ Notify
  /\ UNCHANGED <<stateVars, pending, registerVars, netVars, windowVars, silent>>

\* do_bye writes pending_headers_; is_in_call.
ByeBegins ==
  /\ user = "bye" /\ UserReturnsIf(state # "InCall", "sendBye")
  /\ UNCHANGED <<stateVars, pending, registerVars, netVars, events, windowVars, silent, sent>>

\* The BYE is for whichever call is active by now.
ByeSent ==
  /\ user = "sendBye" /\ UserGoes("terminate")
  /\ Send("BYE", active)
  /\ UNCHANGED <<stateVars, pending, registerVars, netVars, events, windowVars, silent>>

\* And so is on_call_terminated.
ByeTerminates ==
  /\ user = "terminate" /\ UserGoes("tellBye")
  /\ CallTerminated
  /\ UNCHANGED <<pending, registerVars, netVars, events, windowVars, silent, sent>>

\* Wrong: handle_bye tells the window nothing.
ByeUntold ==
  /\ user = "tellBye" /\ UserReturns
  /\ UNCHANGED <<stateVars, pending, registerVars, netVars, events, windowVars, silent, sent>>

ByeTold ==
  /\ user = "tellBye" /\ UserReturns
  /\ Notify
  /\ UNCHANGED <<stateVars, pending, registerVars, netVars, windowVars, silent, sent>>

\* pending_invite_ is not guarded: what is read while the network's thread
\* writes it may be the old invite, the new one, or nothing.
PendingSeen ==
  {pending} \cup IF net = "store" THEN {packet.call, NoCall} ELSE {}

AnswerBegins ==
  /\ user = "answer"
  /\ \E c \in PendingSeen :
       \/ c = NoCall /\ UserReturns /\ UNCHANGED sent
       \/ c # NoCall /\ UserGoes("establish") /\ Send("200", c)
  /\ UNCHANGED <<stateVars, pending, registerVars, netVars, events, windowVars, silent>>

\* handle_answer tells the window nothing.
AnswerEstablishes ==
  /\ user = "establish" /\ UserGoes("clear")
  /\ TransitionTo("InCall") /\ silent' = TRUE
  /\ UNCHANGED <<pending, registerVars, netVars, events, windowVars, sent>>

RejectBegins ==
  /\ user = "reject"
  /\ \E c \in PendingSeen :
       \/ c = NoCall /\ UserReturns
       \/ c # NoCall /\ UserGoes("decline")
  /\ UNCHANGED <<stateVars, pending, registerVars, netVars, events, windowVars, silent, sent>>

\* Nor does handle_reject.
RejectTerminates ==
  /\ user = "decline" /\ UserGoes("clear")
  /\ CallTerminated /\ silent' = TRUE
  /\ UNCHANGED <<pending, registerVars, netVars, events, windowVars, sent>>

PendingCleared ==
  /\ user = "clear" /\ UserReturns
  /\ pending' = NoCall
  /\ UNCHANGED <<stateVars, registerVars, netVars, events, windowVars, silent, sent>>

(***************************************************************************)
(* SIPClient::on_packet_received, in the network's thread                   *)
(***************************************************************************)

\* What may arrive: a call, for a client the proxy knows; its end, once it was
\* answered here or dialed from here; responses to what was sent.
Arriving(p) ==
  CASE p.kind = "INVITE"          -> /\ p.call \in Incoming
                                     /\ [kind |-> "REGISTER", call |-> NoCall] \in sent
    [] p.kind = "BYE"             -> \/ [kind |-> "200", call |-> p.call] \in sent
                                     \/ [kind |-> "INVITE", call |-> p.call] \in sent
    [] p.kind = "200 BYE"         -> [kind |-> "BYE", call |-> p.call] \in sent
    [] p.kind = "200 REGISTER"    -> [kind |-> "REGISTER", call |-> p.call] \in sent
    [] OTHER                      -> [kind |-> "INVITE", call |-> p.call] \in sent

\* handle_receive sets the flag and the response of a REGISTER; on_message
\* goes by the kind of the packet.
Receive(p) ==
  /\ net = "idle" /\ packets < MaxPackets /\ Arriving(p)
  /\ packets' = packets + 1 /\ packet' = p
  /\ IF p.kind = "200 REGISTER"
       THEN received' = TRUE /\ response' = "ok"
       ELSE UNCHANGED registerVars
  /\ net' = CASE p.kind = "INVITE"       -> "busy"
              [] p.kind = "200 REGISTER" -> "notify"
              [] OTHER                   -> "match"
  /\ UNCHANGED <<stateVars, pending, userVars, events, windowVars, silent, sent>>

NetGoes(pc) == net' = pc /\ UNCHANGED <<packet, packets>>
NetReturns == net' = "idle" /\ packet' = NoPacket /\ UNCHANGED packets

\* handle_incoming_invite: is_busy, and 486 is sent.
OfferBusy ==
  /\ net = "busy" /\ NetGoes(IF Busy THEN "notify" ELSE "offer")
  /\ UNCHANGED <<stateVars, pending, registerVars, userVars, events, windowVars, silent, sent>>

OfferCall ==
  /\ net = "offer" /\ NetGoes("headers")
  /\ StartCall(packet.call, TRUE)
  /\ UNCHANGED <<pending, registerVars, userVars, events, windowVars, silent, sent>>

\* The window is told, and pending_headers_ read for the 100 and the 180.
OfferHeaders ==
  /\ net = "headers" /\ NetGoes("store") /\ Notify
  /\ UNCHANGED <<stateVars, pending, registerVars, userVars, windowVars, silent, sent>>

OfferStore ==
  /\ net = "store" /\ NetGoes("notify")
  /\ pending' = packet.call
  /\ UNCHANGED <<stateVars, registerVars, userVars, events, windowVars, silent, sent>>

\* A BYE or a response is for the active call or is left alone.
Match ==
  /\ net = "match" /\ NetGoes(IF packet.call = active THEN "act" ELSE "notify")
  /\ UNCHANGED <<stateVars, pending, registerVars, userVars, events, windowVars, silent, sent>>

\* handle_incoming_bye, handle_100, handle_180, handle_200_ok_bye,
\* handle_200_ok_invite, handle_error; all but handle_200_ok_bye notify the
\* window, after the change.
ActOn(kind) ==
  CASE kind = "100" -> TransitionTo("Calling")
    [] kind = "180" -> TransitionTo("Ringing")
    [] kind = "200" -> TransitionTo("InCall")
    [] kind \in {"BYE", "486", "200 BYE"} -> CallTerminated

Act ==
  /\ net = "act" /\ NetGoes("notify")
  /\ ActOn(packet.kind)
  /\ UNCHANGED <<pending, registerVars, userVars, events, windowVars, silent, sent>>

\* on_packet_received tells the window the state after every packet.
NetNotify ==
  /\ net = "notify" /\ NetGoes("check") /\ Notify
  /\ UNCHANGED <<stateVars, pending, registerVars, userVars, windowVars, silent, sent>>

\* Wrong: an answer is told only while the client is registering.
NetCheckRegistering ==
  /\ net = "check"
  /\ IF received /\ state = "Registering" THEN NetGoes("answer") ELSE NetReturns
  /\ UNCHANGED <<stateVars, pending, registerVars, userVars, events, windowVars, silent, sent>>

\* And the answer to a REGISTER for as long as there is one.
NetCheck ==
  /\ net = "check" /\ IF received THEN NetGoes("answer") ELSE NetReturns
  /\ UNCHANGED <<stateVars, pending, registerVars, userVars, events, windowVars, silent, sent>>

\* Wrong: an answer is used up when it is read.
NetAnswerConsumes ==
  /\ net = "answer" /\ NetGoes(IF response = "ok" THEN "accepted" ELSE "refused")
  /\ received' = FALSE /\ response' = "none"
  /\ UNCHANGED <<stateVars, pending, userVars, events, windowVars, silent, sent>>

\* The response is read under a lock of its own: handle_register may have reset
\* it since, and what is not a 200 counts as a failure.
NetAnswer ==
  /\ net = "answer" /\ NetGoes(IF response = "ok" THEN "accepted" ELSE "refused")
  /\ UNCHANGED <<stateVars, pending, registerVars, userVars, events, windowVars, silent, sent>>

NetTell ==
  /\ net \in {"accepted", "refused"} /\ NetReturns
  /\ events' = events \cup {net}
  /\ UNCHANGED <<stateVars, pending, registerVars, userVars, windowVars, silent, sent>>

-----------------------------------------------------------------------------

Clicks ==
  \/ ClickRegister \/ ClickHangup \/ ClickAnswer \/ ClickReject \/ ChangeHeaders
  \/ \E c \in Outgoing : ClickCall(c)

\* The user's thread in a handler.
UserStep ==
  \/ HeadersWritten
  \/ RegisterBegins \/ RegisterReset \/ RegisterSend \/ RegisterWaited
  \/ RegisterSnapshot \/ RegisterDecide
  \/ InviteBegins \/ InviteBusy \/ InviteCalling \/ InviteSent
  \/ ByeBegins \/ ByeSent \/ ByeTerminates \/ ByeTold
  \/ AnswerBegins \/ AnswerEstablishes \/ RejectBegins \/ RejectTerminates
  \/ PendingCleared

\* The network's thread with a packet.
NetStep ==
  \/ OfferBusy \/ OfferCall \/ OfferHeaders \/ OfferStore
  \/ Match \/ Act \/ NetNotify \/ NetCheck \/ NetAnswer \/ NetTell

Next ==
  \/ Clicks \/ UserStep \/ ProcessUpdate \/ ProcessAccepted \/ ProcessRefused
  \/ \E p \in Packets : Receive(p)
  \/ NetStep

Spec == Init /\ [][Next]_vars

\* A handler of either thread goes on, a wait ends after its two seconds, and
\* the window gets to an answer in the queue also when the user keeps clicking:
\* Qt takes both in turn.  Nothing is assumed of packets or of the user.
FairSpec ==
  /\ Spec
  /\ WF_vars(UserStep) /\ WF_vars(NetStep)
  /\ SF_vars(ProcessAccepted \/ ProcessRefused)

-----------------------------------------------------------------------------

StateType ==
  /\ state \in States /\ active \in Calls \cup {NoCall} /\ incoming \in BOOLEAN
  /\ pending \in Incoming \cup {NoCall}

RegisterType ==
  received \in BOOLEAN /\ response \in {"none", "ok"} /\ gotReceived \in BOOLEAN

UserType ==
  /\ user \in {"idle", "headers", "register", "reset", "send", "wait", "snapshot",
               "decide", "invite", "busy", "calling", "sendInvite", "bye", "sendBye",
               "terminate", "tellBye", "answer", "establish", "reject", "decline", "clear"}
  /\ userCall \in Calls \cup {NoCall}
  /\ user \in {"invite", "busy", "calling", "sendInvite"} => userCall \in Outgoing
  /\ attempt \in 0..MaxAttempts /\ (user = "send" => attempt < MaxAttempts)
  /\ (user \in {"idle", "register", "reset"} => attempt = 0)

NetType ==
  /\ net \in {"idle", "busy", "offer", "headers", "store", "match", "act", "notify",
              "check", "answer", "accepted", "refused"}
  /\ packet \in Packets
  /\ net \in {"busy", "offer", "headers", "store"} => packet.call \in Incoming
  /\ net \in {"match", "act"} => packet.kind \in {"BYE", "100", "180", "200", "486", "200 BYE"}
  /\ packets \in 0..MaxPackets

WindowType ==
  /\ events \subseteq {"update", "accepted", "refused"}
  /\ registerOn \in BOOLEAN /\ registered \in BOOLEAN
  /\ buttons \subseteq {"call", "hangup", "answer"}
  /\ silent \in BOOLEAN

\* Types of all variables; a call that is dialed or offered is one of its
\* kind, and no REGISTER is sent after the last attempt.
TypeOK == /\ StateType /\ RegisterType /\ UserType /\ NetType /\ WindowType
          /\ sent \subseteq Sent

\* What handle_register decides on is the answer it waited for: the second
\* half of the snapshot still finds the response the first half promised,
\* whatever arrives in between.
SnapshotAgrees == user = "decide" /\ gotReceived => response = "ok"

\* When both threads are idle and no event is queued, the buttons are those of
\* the client's state, except after a handler that tells the window nothing
\* (handle_answer, handle_reject and handle_register): a change is announced
\* after it was made, by either thread, and nothing overtakes it.
ButtonsCatchUp ==
  user = "idle" /\ net = "idle" /\ events = {} /\ ~silent
    => buttons = ButtonsNow(registered)

\* handle_register comes back, whatever is lost and whatever else arrives
\* (max_attempts, timeout_sec).
RegisterReturns == user = "register" ~> user = "idle"

\* The register button comes back once the proxy has answered the REGISTER,
\* also when the answer comes after the last attempt (on_register_clicked,
\* on_register_response).
RegisterButtonReturns ==
  (~registerOn /\ received /\ user \notin {"register", "reset"}) ~> registerOn

(***************************************************************************)
(* What the messages of the program promise, and the code does not keep.    *)
(***************************************************************************)

\* sip_invite_handler.cpp:25 and :140: whoever is in a call must hang up
\* before there is another, and a call that comes in is rejected as busy.
OneCallAtATime ==
  [][active # NoCall /\ active' # NoCall => active' = active]_vars

\* main_window.cpp:184: the window says that the registration failed, though
\* the proxy refuses none of a client's REGISTERs.
NoFalseFailure == "refused" \notin events
=============================================================================
