------------------------- MODULE ClientThreadsProof -------------------------
(***************************************************************************)
(* Proofs about module ClientThreads: types, the two halves of the register *)
(* snapshot, and the buttons of the window.                                 *)
(***************************************************************************)
EXTENDS ClientThreads, TLAPS

(***************************************************************************)
(* Types.                                                                   *)
(***************************************************************************)

LEMMA TypeInit == Init => TypeOK
<1> SUFFICES ASSUME Init PROVE TypeOK
  OBVIOUS
<1>1. StateType /\ RegisterType /\ sent \subseteq Sent
  BY DEF Init, StateType, RegisterType, States
<1>2. UserType
  BY BoundsAssumption DEF Init, UserType
<1>3. NetType
  BY BoundsAssumption DEF Init, NetType, NoPacket, Packets, Kinds
<1>4. WindowType
  BY DEF Init, WindowType
<1> QED BY <1>1, <1>2, <1>3, <1>4 DEF TypeOK

\* Parts that a step leaves alone.
LEMMA StateKept == StateType /\ UNCHANGED <<stateVars, pending>> => StateType'
  BY DEF StateType, stateVars
LEMMA RegisterKept ==
  RegisterType /\ UNCHANGED <<registerVars, gotReceived>> => RegisterType'
  BY DEF RegisterType, registerVars
LEMMA UserKept == UserType /\ UNCHANGED userVars => UserType'
  BY DEF UserType, userVars
LEMMA NetKept == NetType /\ UNCHANGED netVars => NetType'
  BY DEF NetType, netVars
LEMMA WindowKept == WindowType /\ UNCHANGED <<events, windowVars, silent>> => WindowType'
  BY DEF WindowType, windowVars

LEMMA TypeUser == TypeOK /\ UserStep => TypeOK'
<1> SUFFICES ASSUME TypeOK, UserStep PROVE TypeOK'
  OBVIOUS
<1> USE CallsAssumption, BoundsAssumption
<1>1. CASE HeadersWritten
  <2>1. RegisterType'
    BY <1>1 DEF TypeOK, RegisterType, HeadersWritten, UserReturns, registerVars,
       userVars, userLocals
  <2>2. UserType'
    BY <1>1 DEF TypeOK, UserType, Calls, HeadersWritten, UserReturns, userVars,
       userLocals
  <2> QED BY <1>1, <2>1, <2>2, StateKept, NetKept, WindowKept
         DEF TypeOK, HeadersWritten
<1>2. CASE RegisterBegins
  <2>1. StateType'
    BY <1>2 DEF TypeOK, StateType, Calls, States, RegisterBegins, UserGoes,
       TransitionTo, stateVars
  <2>2. RegisterType'
    BY <1>2 DEF TypeOK, RegisterType, RegisterBegins, UserGoes, TransitionTo,
       registerVars, userVars, userLocals
  <2>3. UserType'
    BY <1>2 DEF TypeOK, UserType, Calls, RegisterBegins, UserGoes, TransitionTo,
       userVars, userLocals
  <2>4. WindowType'
    BY <1>2 DEF TypeOK, WindowType, RegisterBegins, UserGoes, TransitionTo,
       windowVars
  <2> QED BY <1>2, <2>1, <2>2, <2>3, <2>4, NetKept
         DEF TypeOK, RegisterBegins
<1>3. CASE RegisterReset
  <2>1. RegisterType'
    BY <1>3 DEF TypeOK, RegisterType, RegisterReset, UserGoes, registerVars,
       userVars, userLocals
  <2>2. UserType'
    BY <1>3 DEF TypeOK, UserType, Calls, RegisterReset, UserGoes, userVars,
       userLocals
  <2> QED BY <1>3, <2>1, <2>2, StateKept, NetKept, WindowKept
         DEF TypeOK, RegisterReset
<1>4. CASE RegisterSend
  <2>1. RegisterType'
    BY <1>4 DEF TypeOK, RegisterType, RegisterSend, Send, registerVars, userVars,
       userLocals
  <2>2. UserType'
    BY <1>4 DEF TypeOK, UserType, Calls, RegisterSend, Send, userVars, userLocals
  <2>3. (sent \subseteq Sent)'
    BY <1>4 DEF TypeOK, Sent, Calls, UserType, RegisterSend, Send
  <2> QED BY <1>4, <2>1, <2>2, <2>3, StateKept, NetKept, WindowKept
         DEF TypeOK, RegisterSend
<1>5. CASE RegisterWaited
  <2>1. RegisterType'
    BY <1>5 DEF TypeOK, RegisterType, RegisterWaited, UserGoes, registerVars,
       userVars, userLocals
  <2>2. UserType'
    BY <1>5 DEF TypeOK, UserType, Calls, RegisterWaited, UserGoes, userVars,
       userLocals
  <2> QED BY <1>5, <2>1, <2>2, StateKept, NetKept, WindowKept
         DEF TypeOK, RegisterWaited
<1>6. CASE RegisterSnapshot
  <2>1. RegisterType'
    BY <1>6 DEF TypeOK, RegisterType, RegisterSnapshot, registerVars, userVars,
       userLocals
  <2>2. UserType'
    BY <1>6 DEF TypeOK, UserType, Calls, RegisterSnapshot, userVars, userLocals
  <2> QED BY <1>6, <2>1, <2>2, StateKept, NetKept, WindowKept
         DEF TypeOK, RegisterSnapshot
<1>7. CASE RegisterDecide
  <2>1. StateType'
    BY <1>7 DEF TypeOK, StateType, Calls, States, RegisterDecide, UserReturns,
       TransitionTo, stateVars
  <2>2. RegisterType'
    BY <1>7 DEF TypeOK, RegisterType, RegisterDecide, UserReturns, TransitionTo,
       registerVars, userVars, userLocals
  <2>3. UserType'
    BY <1>7 DEF TypeOK, UserType, Calls, RegisterDecide, UserReturns, TransitionTo,
       userVars, userLocals
  <2>4. WindowType'
    BY <1>7 DEF TypeOK, WindowType, RegisterDecide, UserReturns, TransitionTo,
       windowVars
  <2> QED BY <1>7, <2>1, <2>2, <2>3, <2>4, NetKept
         DEF TypeOK, RegisterDecide
<1>8. CASE InviteBegins
  <2>1. RegisterType'
    BY <1>8 DEF TypeOK, RegisterType, InviteBegins, UserReturnsIf, UserGoes,
       UserReturns, registerVars, userVars, userLocals
  <2>2. UserType'
    BY <1>8 DEF TypeOK, UserType, Calls, InviteBegins, UserReturnsIf, UserGoes,
       UserReturns, userVars, userLocals
  <2> QED BY <1>8, <2>1, <2>2, StateKept, NetKept, WindowKept
         DEF TypeOK, InviteBegins
<1>9. CASE InviteBusy
  <2>1. RegisterType'
    BY <1>9 DEF TypeOK, RegisterType, InviteBusy, UserReturnsIf, UserGoes,
       UserReturns, registerVars, userVars, userLocals
  <2>2. UserType'
    BY <1>9 DEF TypeOK, UserType, Calls, InviteBusy, UserReturnsIf, UserGoes,
       UserReturns, userVars, userLocals
  <2> QED BY <1>9, <2>1, <2>2, StateKept, NetKept, WindowKept
         DEF TypeOK, InviteBusy
<1>10. CASE InviteCalling
  <2>1. StateType'
    BY <1>10 DEF TypeOK, StateType, Calls, States, UserType, InviteCalling,
       UserGoes, StartCall, stateVars
  <2>2. RegisterType'
    BY <1>10 DEF TypeOK, RegisterType, InviteCalling, UserGoes, StartCall,
       registerVars, userVars, userLocals
  <2>3. UserType'
    BY <1>10 DEF TypeOK, UserType, Calls, InviteCalling, UserGoes, StartCall,
       userVars, userLocals
  <2> QED BY <1>10, <2>1, <2>2, <2>3, NetKept, WindowKept
         DEF TypeOK, InviteCalling
<1>11. CASE InviteSent
  <2>1. RegisterType'
    BY <1>11 DEF TypeOK, RegisterType, InviteSent, UserReturns, Send, Notify,
       registerVars, userVars, userLocals
  <2>2. UserType'
    BY <1>11 DEF TypeOK, UserType, Calls, InviteSent, UserReturns, Send, Notify,
       userVars, userLocals
  <2>3. WindowType'
    BY <1>11 DEF TypeOK, WindowType, InviteSent, UserReturns, Send, Notify,
       windowVars
  <2>4. (sent \subseteq Sent)'
    BY <1>11 DEF TypeOK, Sent, Calls, UserType, InviteSent, UserReturns, Send,
       Notify
  <2> QED BY <1>11, <2>1, <2>2, <2>3, <2>4, StateKept, NetKept
         DEF TypeOK, InviteSent
<1>12. CASE ByeBegins
  <2>1. RegisterType'
    BY <1>12 DEF TypeOK, RegisterType, ByeBegins, UserReturnsIf, UserGoes,
       UserReturns, registerVars, userVars, userLocals
  <2>2. UserType'
    BY <1>12 DEF TypeOK, UserType, Calls, ByeBegins, UserReturnsIf, UserGoes,
       UserReturns, userVars, userLocals
  <2> QED BY <1>12, <2>1, <2>2, StateKept, NetKept, WindowKept
         DEF TypeOK, ByeBegins
<1>13. CASE ByeSent
  <2>1. RegisterType'
    BY <1>13 DEF TypeOK, RegisterType, ByeSent, UserGoes, Send, registerVars,
       userVars, userLocals
  <2>2. UserType'
    BY <1>13 DEF TypeOK, UserType, Calls, ByeSent, UserGoes, Send, userVars,
       userLocals
  <2>3. (sent \subseteq Sent)'
    BY <1>13 DEF TypeOK, Sent, Calls, StateType, ByeSent, UserGoes, Send
  <2> QED BY <1>13, <2>1, <2>2, <2>3, StateKept, NetKept, WindowKept
         DEF TypeOK, ByeSent
<1>14. CASE ByeTerminates
  <2>1. StateType'
    BY <1>14 DEF TypeOK, StateType, Calls, States, ByeTerminates, UserGoes,
       CallTerminated, stateVars
  <2>2. RegisterType'
    BY <1>14 DEF TypeOK, RegisterType, ByeTerminates, UserGoes,
       CallTerminated, registerVars, userVars, userLocals
  <2>3. UserType'
    BY <1>14 DEF TypeOK, UserType, Calls, ByeTerminates, UserGoes,
       CallTerminated, userVars, userLocals
  <2> QED BY <1>14, <2>1, <2>2, <2>3, NetKept, WindowKept
         DEF TypeOK, ByeTerminates
<1>15. CASE AnswerBegins
  <2>1. RegisterType'
    BY <1>15 DEF TypeOK, RegisterType, AnswerBegins, UserGoes, UserReturns, Send,
       PendingSeen, registerVars, userVars, userLocals
  <2>2. UserType'
    BY <1>15 DEF TypeOK, UserType, Calls, AnswerBegins, UserGoes, UserReturns, Send,
       PendingSeen, userVars, userLocals
  <2>3. (sent \subseteq Sent)'
    <3>1. PendingSeen \subseteq Calls \cup {NoCall}
      BY DEF TypeOK, StateType, NetType, PendingSeen, Calls
    <3>2. UNCHANGED sent \/ \E c \in PendingSeen : Send("200", c)
      BY <1>15 DEF AnswerBegins
    <3> QED BY <3>1, <3>2 DEF TypeOK, Send, Sent
  <2> QED BY <1>15, <2>1, <2>2, <2>3, StateKept, NetKept, WindowKept
         DEF TypeOK, AnswerBegins
<1>16. CASE AnswerEstablishes
  <2>1. StateType'
    BY <1>16 DEF TypeOK, StateType, Calls, States, AnswerEstablishes, UserGoes,
       TransitionTo, stateVars
  <2>2. RegisterType'
    BY <1>16 DEF TypeOK, RegisterType, AnswerEstablishes, UserGoes, TransitionTo,
       registerVars, userVars, userLocals
  <2>3. UserType'
    BY <1>16 DEF TypeOK, UserType, Calls, AnswerEstablishes, UserGoes, TransitionTo,
       userVars, userLocals
  <2>4. WindowType'
    BY <1>16 DEF TypeOK, WindowType, AnswerEstablishes, UserGoes, TransitionTo,
       windowVars
  <2> QED BY <1>16, <2>1, <2>2, <2>3, <2>4, NetKept
         DEF TypeOK, AnswerEstablishes
<1>17. CASE RejectBegins
  <2>1. RegisterType'
    BY <1>17 DEF TypeOK, RegisterType, RejectBegins, UserGoes, UserReturns,
       PendingSeen, registerVars, userVars, userLocals
  <2>2. UserType'
    BY <1>17 DEF TypeOK, UserType, Calls, RejectBegins, UserGoes, UserReturns,
       PendingSeen, userVars, userLocals
  <2> QED BY <1>17, <2>1, <2>2, StateKept, NetKept, WindowKept
         DEF TypeOK, RejectBegins
<1>18. CASE RejectTerminates
  <2>1. StateType'
    BY <1>18 DEF TypeOK, StateType, Calls, States, RejectTerminates, UserGoes,
       CallTerminated, stateVars
  <2>2. RegisterType'
    BY <1>18 DEF TypeOK, RegisterType, RejectTerminates, UserGoes, CallTerminated,
       registerVars, userVars, userLocals
  <2>3. UserType'
    BY <1>18 DEF TypeOK, UserType, Calls, RejectTerminates, UserGoes,
       CallTerminated, userVars, userLocals
  <2>4. WindowType'
    BY <1>18 DEF TypeOK, WindowType, RejectTerminates, UserGoes, CallTerminated,
       windowVars
  <2> QED BY <1>18, <2>1, <2>2, <2>3, <2>4, NetKept
         DEF TypeOK, RejectTerminates
<1>19. CASE PendingCleared
  <2>1. StateType'
    BY <1>19 DEF TypeOK, StateType, Calls, States, PendingCleared, UserReturns,
       stateVars
  <2>2. RegisterType'
    BY <1>19 DEF TypeOK, RegisterType, PendingCleared, UserReturns, registerVars,
       userVars, userLocals
  <2>3. UserType'
    BY <1>19 DEF TypeOK, UserType, Calls, PendingCleared, UserReturns, userVars,
       userLocals
  <2> QED BY <1>19, <2>1, <2>2, <2>3, NetKept, WindowKept
         DEF TypeOK, PendingCleared
<1>20. CASE ByeTold
  <2>1. RegisterType'
    BY <1>20 DEF TypeOK, RegisterType, ByeTold, UserReturns, Notify,
       registerVars, userVars, userLocals
  <2>2. UserType'
    BY <1>20 DEF TypeOK, UserType, Calls, ByeTold, UserReturns, Notify, userVars,
       userLocals
  <2>3. WindowType'
    BY <1>20 DEF TypeOK, WindowType, ByeTold, UserReturns, Notify, windowVars
  <2> QED BY <1>20, <2>1, <2>2, <2>3, StateKept, NetKept
         DEF TypeOK, ByeTold
<1> QED
  BY <1>1, <1>2, <1>3, <1>4, <1>5, <1>6, <1>7, <1>8, <1>9, <1>10, <1>11, <1>12,
     <1>13, <1>14, <1>15, <1>16, <1>17, <1>18, <1>19, <1>20
  DEF UserStep

LEMMA TypeNet == TypeOK /\ NetStep => TypeOK'
<1> SUFFICES ASSUME TypeOK, NetStep PROVE TypeOK'
  OBVIOUS
<1> USE CallsAssumption, BoundsAssumption
<1>1. CASE OfferBusy
  <2>1. NetType'
    BY <1>1 DEF TypeOK, NetType, OfferBusy, NetGoes, netVars
  <2> QED BY <1>1, <2>1, StateKept, RegisterKept, UserKept, WindowKept
         DEF TypeOK, OfferBusy, userVars
<1>2. CASE OfferCall
  <2>1. StateType'
    BY <1>2 DEF TypeOK, StateType, Calls, States, NetType, OfferCall, NetGoes,
       StartCall, stateVars
  <2>2. NetType'
    BY <1>2 DEF TypeOK, NetType, OfferCall, NetGoes, StartCall, netVars
  <2> QED BY <1>2, <2>1, <2>2, RegisterKept, UserKept, WindowKept
         DEF TypeOK, OfferCall, userVars
<1>3. CASE OfferHeaders
  <2>1. NetType'
    BY <1>3 DEF TypeOK, NetType, OfferHeaders, NetGoes, Notify, netVars
  <2>2. WindowType'
    BY <1>3 DEF TypeOK, WindowType, OfferHeaders, NetGoes, Notify, windowVars
  <2> QED BY <1>3, <2>1, <2>2, StateKept, RegisterKept, UserKept
         DEF TypeOK, OfferHeaders, userVars
<1>4. CASE OfferStore
  <2>1. StateType'
    BY <1>4 DEF TypeOK, StateType, Calls, States, NetType, OfferStore, NetGoes,
       stateVars
  <2>2. NetType'
    BY <1>4 DEF TypeOK, NetType, OfferStore, NetGoes, netVars
  <2> QED BY <1>4, <2>1, <2>2, RegisterKept, UserKept, WindowKept
         DEF TypeOK, OfferStore, userVars
<1>5. CASE Match
  <2>1. NetType'
    BY <1>5 DEF TypeOK, NetType, Match, NetGoes, netVars
  <2> QED BY <1>5, <2>1, StateKept, RegisterKept, UserKept, WindowKept
         DEF TypeOK, Match, userVars
<1>6. CASE Act
  <2>1. StateType'
    BY <1>6 DEF TypeOK, StateType, Calls, States, NetType, Act, NetGoes, ActOn,
       TransitionTo, CallTerminated, stateVars
  <2>2. NetType'
    BY <1>6 DEF TypeOK, NetType, Act, NetGoes, ActOn, TransitionTo, CallTerminated,
       netVars
  <2> QED BY <1>6, <2>1, <2>2, RegisterKept, UserKept, WindowKept
         DEF TypeOK, Act, userVars
<1>7. CASE NetNotify
  <2>1. NetType'
    BY <1>7 DEF TypeOK, NetType, NetNotify, NetGoes, Notify, netVars
  <2>2. WindowType'
    BY <1>7 DEF TypeOK, WindowType, NetNotify, NetGoes, Notify, windowVars
  <2> QED BY <1>7, <2>1, <2>2, StateKept, RegisterKept, UserKept
         DEF TypeOK, NetNotify, userVars
<1>8. CASE NetCheck
  <2>1. NetType'
    <3>1. \/ net' = "answer" /\ packet' = packet /\ packets' = packets
          \/ NetReturns
      BY <1>8 DEF NetCheck, NetGoes
    <3>2. NoPacket \in Packets
      BY DEF NoPacket, Packets, Kinds
    <3> QED BY <3>1, <3>2 DEF TypeOK, NetType, NetReturns
  <2> QED BY <1>8, <2>1, StateKept, RegisterKept, UserKept, WindowKept
         DEF TypeOK, NetCheck, userVars
<1>9. CASE NetAnswer
  <2>1. NetType'
    BY <1>9 DEF TypeOK, NetType, NetAnswer, NetGoes, netVars
  <2> QED BY <1>9, <2>1, StateKept, RegisterKept, UserKept, WindowKept
         DEF TypeOK, NetAnswer, userVars
<1>10. CASE NetTell
  <2>1. NetType'
    BY <1>10 DEF TypeOK, NetType, NetTell, NetReturns, netVars, NoPacket, Packets,
       Kinds
  <2>2. WindowType'
    BY <1>10 DEF TypeOK, WindowType, NetTell, NetReturns, windowVars
  <2> QED BY <1>10, <2>1, <2>2, StateKept, RegisterKept, UserKept
         DEF TypeOK, NetTell, userVars
<1> QED
  BY <1>1, <1>2, <1>3, <1>4, <1>5, <1>6, <1>7, <1>8, <1>9, <1>10
  DEF NetStep

\* What a click or an event of the window changes.
LEMMA TypeWindow ==
  TypeOK /\ (Clicks \/ ProcessUpdate \/ ProcessAccepted \/ ProcessRefused) => TypeOK'
<1> SUFFICES ASSUME TypeOK, Clicks \/ ProcessUpdate \/ ProcessAccepted \/ ProcessRefused
             PROVE  TypeOK'
  OBVIOUS
<1> USE CallsAssumption, BoundsAssumption
<1>1. ASSUME NEW h \in {"headers", "register", "bye", "answer", "reject"},
             Click(h, NoCall), registerOn' \in BOOLEAN, UNCHANGED <<registered, buttons>>
      PROVE  TypeOK'
  <2>1. UserType'
    BY <1>1 DEF TypeOK, UserType, Click
  <2>2. WindowType'
    BY <1>1 DEF TypeOK, WindowType, Click
  <2>3. StateType' /\ RegisterType' /\ NetType' /\ (sent \subseteq Sent)'
    BY <1>1, StateKept, RegisterKept, NetKept DEF TypeOK, Click
  <2> QED BY <2>1, <2>2, <2>3 DEF TypeOK
<1>2. ASSUME NEW c \in Outgoing, Click("invite", c), UNCHANGED windowVars
      PROVE  TypeOK'
  <2>1. UserType'
    BY <1>2 DEF TypeOK, UserType, Click, Calls
  <2>2. WindowType'
    BY <1>2 DEF TypeOK, WindowType, Click, windowVars
  <2>3. StateType' /\ RegisterType' /\ NetType' /\ (sent \subseteq Sent)'
    BY <1>2, StateKept, RegisterKept, NetKept DEF TypeOK, Click
  <2> QED BY <2>1, <2>2, <2>3 DEF TypeOK
<1>3. CASE Clicks
  <2>1. TypeOK => registerOn \in BOOLEAN
    BY DEF TypeOK, WindowType
  <2> QED BY <1>1, <1>2, <1>3, <2>1 DEF Clicks, ClickRegister, ClickHangup, ClickAnswer,
             ClickReject, ChangeHeaders, ClickCall, windowVars
<1>4. CASE ProcessUpdate
  <2>1. WindowType'
    BY <1>4 DEF TypeOK, WindowType, ProcessUpdate, ButtonsNow
  <2> QED BY <1>4, <2>1, StateKept, RegisterKept, UserKept, NetKept
          DEF TypeOK, ProcessUpdate, userVars
<1>5. CASE ProcessAccepted
  <2>1. WindowType'
    BY <1>5 DEF TypeOK, WindowType, ProcessAccepted, ButtonsNow
  <2> QED BY <1>5, <2>1, StateKept, RegisterKept, UserKept, NetKept
          DEF TypeOK, ProcessAccepted, userVars
<1>6. CASE ProcessRefused
  <2>1. WindowType'
    BY <1>6 DEF TypeOK, WindowType, ProcessRefused
  <2> QED BY <1>6, <2>1, StateKept, RegisterKept, UserKept, NetKept
          DEF TypeOK, ProcessRefused, userVars
<1> QED BY <1>3, <1>4, <1>5, <1>6

LEMMA TypeReceive ==
  ASSUME TypeOK, NEW p \in Packets, Receive(p)
  PROVE  TypeOK'
<1>1. NetType'
  <2>1. /\ p.kind \in Kinds /\ packet' = p
        /\ net' = CASE p.kind = "INVITE" -> "busy"
                     [] p.kind = "200 REGISTER" -> "notify"
                     [] OTHER -> "match"
        /\ p.kind = "INVITE" => p.call \in Incoming
    BY DEF Receive, Arriving, Packets
  <2>2. packets' \in 0..MaxPackets
    <3>1. packets \in 0..MaxPackets
      BY DEF TypeOK, NetType
    <3>2. packets < MaxPackets /\ packets' = packets + 1
      BY DEF Receive
    <3> QED BY <3>1, <3>2, BoundsAssumption
  <2> QED BY <2>1, <2>2 DEF NetType, Kinds
<1>2. RegisterType'
  BY DEF Receive, TypeOK, RegisterType, registerVars, userVars
<1>3. StateType' /\ UserType' /\ WindowType' /\ (sent \subseteq Sent)'
  BY StateKept, UserKept, WindowKept DEF Receive, TypeOK
<1> QED BY <1>1, <1>2, <1>3 DEF TypeOK

LEMMA TypeStutters == TypeOK /\ UNCHANGED vars => TypeOK'
  BY StateKept, RegisterKept, UserKept, NetKept, WindowKept DEF TypeOK, vars, userVars

LEMMA TypeNext == TypeOK /\ [Next]_vars => TypeOK'
  BY TypeUser, TypeNet, TypeWindow, TypeReceive, TypeStutters DEF Next

\* Both threads of the client keep to the types: a handler for a call dialed
\* or offered is about one, no REGISTER follows the last attempt, and a
\* packet is matched with the active call only if it is of one.
THEOREM ClientTypeCorrect == Spec => []TypeOK
  BY TypeInit, TypeNext, PTL DEF Spec

(***************************************************************************)
(* The two halves of the snapshot.                                          *)
(***************************************************************************)

\* The response is there with the flag, and the flag stays up until the next
\* handle_register takes it down.
AnswerInv ==
  /\ received <=> response = "ok"
  /\ user = "decide" /\ gotReceived => received

LEMMA AnswerInit == Init => AnswerInv
  BY DEF Init, AnswerInv

LEMMA AnswerUser == AnswerInv /\ UserStep => AnswerInv'
<1> SUFFICES ASSUME AnswerInv, UserStep PROVE AnswerInv'
  OBVIOUS
<1>1. CASE HeadersWritten
  BY <1>1 DEF AnswerInv, HeadersWritten, UserReturns, userLocals, registerVars
<1>2. CASE RegisterBegins
  BY <1>2 DEF AnswerInv, RegisterBegins, UserGoes, userLocals, registerVars
<1>3. CASE RegisterReset
  BY <1>3 DEF AnswerInv, RegisterReset, UserGoes, userLocals, registerVars
<1>4. CASE RegisterSend
  BY <1>4 DEF AnswerInv, RegisterSend, userLocals, registerVars
<1>5. CASE RegisterWaited
  BY <1>5 DEF AnswerInv, RegisterWaited, UserGoes, userLocals, registerVars
<1>6. CASE RegisterSnapshot
  BY <1>6 DEF AnswerInv, RegisterSnapshot, userLocals, registerVars
<1>7. CASE RegisterDecide
  BY <1>7 DEF AnswerInv, RegisterDecide, UserReturns, userLocals, registerVars
<1>8. CASE InviteBegins
  BY <1>8 DEF AnswerInv, InviteBegins, UserReturnsIf, UserGoes, UserReturns,
     userLocals, registerVars
<1>9. CASE InviteBusy
  BY <1>9 DEF AnswerInv, InviteBusy, UserReturnsIf, UserGoes, UserReturns,
     userLocals, registerVars
<1>10. CASE InviteCalling
  BY <1>10 DEF AnswerInv, InviteCalling, UserGoes, userLocals, registerVars
<1>11. CASE InviteSent
  BY <1>11 DEF AnswerInv, InviteSent, UserReturns, userLocals, registerVars
<1>12. CASE ByeBegins
  BY <1>12 DEF AnswerInv, ByeBegins, UserReturnsIf, UserGoes, UserReturns,
     userLocals, registerVars
<1>13. CASE ByeSent
  BY <1>13 DEF AnswerInv, ByeSent, UserGoes, userLocals, registerVars
<1>14. CASE ByeTerminates
  BY <1>14 DEF AnswerInv, ByeTerminates, UserGoes, userLocals, registerVars
<1>15. CASE AnswerBegins
  BY <1>15 DEF AnswerInv, AnswerBegins, UserGoes, UserReturns, userLocals,
     registerVars
<1>16. CASE AnswerEstablishes
  BY <1>16 DEF AnswerInv, AnswerEstablishes, UserGoes, userLocals, registerVars
<1>17. CASE RejectBegins
  BY <1>17 DEF AnswerInv, RejectBegins, UserGoes, UserReturns, userLocals,
     registerVars
<1>18. CASE RejectTerminates
  BY <1>18 DEF AnswerInv, RejectTerminates, UserGoes, userLocals, registerVars
<1>19. CASE PendingCleared
  BY <1>19 DEF AnswerInv, PendingCleared, UserReturns, userLocals, registerVars
<1>20. CASE ByeTold
  BY <1>20 DEF AnswerInv, ByeTold, UserReturns, userLocals, registerVars
<1> QED
  BY <1>1, <1>2, <1>3, <1>4, <1>5, <1>6, <1>7, <1>8, <1>9, <1>10, <1>11, <1>12,
     <1>13, <1>14, <1>15, <1>16, <1>17, <1>18, <1>19, <1>20
  DEF UserStep

LEMMA AnswerRest ==
  AnswerInv /\ ~UserStep /\ [Next]_vars => AnswerInv'
<1> SUFFICES ASSUME AnswerInv, ~UserStep, [Next]_vars PROVE AnswerInv'
  OBVIOUS
<1>1. CASE Clicks
  <2>1. user' # "decide" /\ UNCHANGED registerVars
    BY <1>1 DEF Clicks, ClickRegister, ClickHangup, ClickAnswer, ClickReject,
       ChangeHeaders, ClickCall, Click
  <2> QED BY <2>1 DEF AnswerInv, registerVars
<1>2. CASE ProcessUpdate \/ ProcessAccepted \/ ProcessRefused
  <2>1. UNCHANGED <<registerVars, userVars>>
    BY <1>2 DEF ProcessUpdate, ProcessAccepted, ProcessRefused
  <2> QED BY <2>1 DEF AnswerInv, registerVars, userVars
<1>3. ASSUME NEW p \in Packets, Receive(p) PROVE AnswerInv'
  <2>1. UNCHANGED userVars
    BY <1>3 DEF Receive
  <2>2. CASE p.kind = "200 REGISTER"
    BY <1>3, <2>1, <2>2 DEF AnswerInv, Receive, userVars
  <2>3. CASE p.kind # "200 REGISTER"
    <3>1. UNCHANGED registerVars
      BY <1>3, <2>3 DEF Receive
    <3> QED BY <2>1, <3>1 DEF AnswerInv, userVars, registerVars
  <2> QED BY <2>2, <2>3
<1>4. CASE NetStep
  <2>1. UNCHANGED <<registerVars, userVars>>
    BY <1>4 DEF NetStep, OfferBusy, OfferCall, OfferHeaders, OfferStore, Match, Act,
       NetNotify, NetCheck, NetAnswer, NetTell
  <2> QED BY <2>1 DEF AnswerInv, registerVars, userVars
<1>5. CASE UNCHANGED vars
  BY <1>5 DEF AnswerInv, vars, registerVars, userVars
<1> QED BY <1>1, <1>2, <1>3, <1>4, <1>5 DEF Next

LEMMA AnswerNext == AnswerInv /\ [Next]_vars => AnswerInv'
  BY AnswerUser, AnswerRest

\* handle_register decides on the answer it waited for, whatever arrives
\* between the two reads of the snapshot.
THEOREM SnapshotAlwaysAgrees == Spec => []SnapshotAgrees
<1>1. AnswerInv => SnapshotAgrees
  BY DEF AnswerInv, SnapshotAgrees
<1> QED BY <1>1, AnswerInit, AnswerNext, PTL DEF Spec

(***************************************************************************)
(* The buttons.                                                             *)
(***************************************************************************)

\* Buttons that are not those of the state are put right by an event in the
\* queue, or by one that a thread is about to queue, or nobody will.
ButtonsInv ==
  \/ "update" \in events \/ net \in {"headers", "notify"}
  \/ user \in {"sendInvite", "tellBye"} \/ silent
  \/ buttons = ButtonsNow(registered)

LEMMA ButtonsUser == ButtonsInv /\ UserStep => ButtonsInv'
<1> SUFFICES ASSUME ButtonsInv, UserStep PROVE ButtonsInv'
  OBVIOUS
<1>1. CASE HeadersWritten
  BY <1>1 DEF ButtonsInv, HeadersWritten, UserReturns, ButtonsNow, stateVars,
     netVars, windowVars
<1>2. CASE RegisterBegins
  BY <1>2 DEF ButtonsInv, RegisterBegins, UserGoes, ButtonsNow, stateVars, netVars,
     windowVars
<1>3. CASE RegisterReset
  BY <1>3 DEF ButtonsInv, RegisterReset, UserGoes, ButtonsNow, stateVars, netVars,
     windowVars
<1>4. CASE RegisterSend
  BY <1>4 DEF ButtonsInv, RegisterSend, ButtonsNow, stateVars, netVars, windowVars
<1>5. CASE RegisterWaited
  BY <1>5 DEF ButtonsInv, RegisterWaited, UserGoes, ButtonsNow, stateVars, netVars,
     windowVars
<1>6. CASE RegisterSnapshot
  BY <1>6 DEF ButtonsInv, RegisterSnapshot, ButtonsNow, stateVars, netVars,
     windowVars
<1>7. CASE RegisterDecide
  BY <1>7 DEF ButtonsInv, RegisterDecide, UserReturns, ButtonsNow, stateVars,
     netVars, windowVars
<1>8. CASE InviteBegins
  BY <1>8 DEF ButtonsInv, InviteBegins, UserReturnsIf, UserGoes, UserReturns,
     ButtonsNow, stateVars, netVars, windowVars
<1>9. CASE InviteBusy
  BY <1>9 DEF ButtonsInv, InviteBusy, UserReturnsIf, UserGoes, UserReturns,
     ButtonsNow, stateVars, netVars, windowVars
<1>10. CASE InviteCalling
  BY <1>10 DEF ButtonsInv, InviteCalling, UserGoes, ButtonsNow, stateVars, netVars,
     windowVars
<1>11. CASE InviteSent
  BY <1>11 DEF ButtonsInv, InviteSent, UserReturns, Notify, ButtonsNow, stateVars,
     netVars, windowVars
<1>12. CASE ByeBegins
  BY <1>12 DEF ButtonsInv, ByeBegins, UserReturnsIf, UserGoes, UserReturns,
     ButtonsNow, stateVars, netVars, windowVars
<1>13. CASE ByeSent
  BY <1>13 DEF ButtonsInv, ByeSent, UserGoes, ButtonsNow, stateVars, netVars,
     windowVars
<1>14. CASE ByeTerminates
  BY <1>14 DEF ButtonsInv, ByeTerminates, UserGoes, ButtonsNow, stateVars, netVars,
     windowVars
<1>15. CASE AnswerBegins
  BY <1>15 DEF ButtonsInv, AnswerBegins, UserGoes, UserReturns, ButtonsNow,
     stateVars, netVars, windowVars
<1>16. CASE AnswerEstablishes
  BY <1>16 DEF ButtonsInv, AnswerEstablishes, UserGoes, ButtonsNow, stateVars,
     netVars, windowVars
<1>17. CASE RejectBegins
  BY <1>17 DEF ButtonsInv, RejectBegins, UserGoes, UserReturns, ButtonsNow,
     stateVars, netVars, windowVars
<1>18. CASE RejectTerminates
  BY <1>18 DEF ButtonsInv, RejectTerminates, UserGoes, ButtonsNow, stateVars,
     netVars, windowVars
<1>19. CASE PendingCleared
  BY <1>19 DEF ButtonsInv, PendingCleared, UserReturns, ButtonsNow, stateVars,
     netVars, windowVars
<1>20. CASE ByeTold
  BY <1>20 DEF ButtonsInv, ByeTold, UserReturns, Notify, ButtonsNow, stateVars,
     netVars, windowVars
<1> QED
  BY <1>1, <1>2, <1>3, <1>4, <1>5, <1>6, <1>7, <1>8, <1>9, <1>10, <1>11, <1>12,
     <1>13, <1>14, <1>15, <1>16, <1>17, <1>18, <1>19, <1>20
  DEF UserStep

LEMMA ButtonsRest ==
  ButtonsInv /\ ~UserStep /\ [Next]_vars => ButtonsInv'
<1> SUFFICES ASSUME ButtonsInv, ~UserStep, [Next]_vars PROVE ButtonsInv'
  OBVIOUS
<1>1. CASE Clicks
  <2>1. /\ UNCHANGED <<stateVars, netVars, events, silent, registered, buttons>>
        /\ user = "idle"
    BY <1>1 DEF Clicks, ClickRegister, ClickHangup, ClickAnswer, ClickReject,
       ChangeHeaders, ClickCall, Click, windowVars
  <2> QED BY <2>1 DEF ButtonsInv, ButtonsNow, stateVars, netVars
<1>2. CASE ProcessUpdate
  BY <1>2 DEF ButtonsInv, ProcessUpdate, ButtonsNow, stateVars
<1>3. CASE ProcessAccepted
  BY <1>3 DEF ButtonsInv, ProcessAccepted, ButtonsNow, stateVars
<1>4. ASSUME NEW p \in Packets, Receive(p) PROVE ButtonsInv'
  BY <1>4 DEF ButtonsInv, Receive, ButtonsNow, stateVars, userVars, windowVars
<1>5. CASE NetStep
  <2>1. CASE OfferBusy
    BY <2>1 DEF ButtonsInv, OfferBusy, NetGoes, ButtonsNow, stateVars, userVars,
       windowVars
  <2>2. CASE OfferCall
    BY <2>2 DEF ButtonsInv, OfferCall, NetGoes, ButtonsNow, stateVars, userVars,
       windowVars
  <2>3. CASE OfferHeaders
    BY <2>3 DEF ButtonsInv, OfferHeaders, NetGoes, Notify, ButtonsNow, stateVars,
       userVars, windowVars
  <2>4. CASE OfferStore
    BY <2>4 DEF ButtonsInv, OfferStore, NetGoes, ButtonsNow, stateVars, userVars,
       windowVars
  <2>5. CASE Match
    BY <2>5 DEF ButtonsInv, Match, NetGoes, ButtonsNow, stateVars, userVars,
       windowVars
  <2>6. CASE Act
    BY <2>6 DEF ButtonsInv, Act, NetGoes, ButtonsNow, stateVars, userVars,
       windowVars
  <2>7. CASE NetNotify
    BY <2>7 DEF ButtonsInv, NetNotify, NetGoes, Notify, ButtonsNow, stateVars,
       userVars, windowVars
  <2>8. CASE NetCheck
    BY <2>8 DEF ButtonsInv, NetCheck, NetGoes, NetReturns, ButtonsNow, stateVars,
       userVars, windowVars
  <2>9. CASE NetAnswer
    BY <2>9 DEF ButtonsInv, NetAnswer, NetGoes, ButtonsNow, stateVars, userVars,
       windowVars
  <2>10. CASE NetTell
    BY <2>10 DEF ButtonsInv, NetTell, NetReturns, ButtonsNow, stateVars, userVars,
       windowVars
  <2> QED BY <1>5, <2>1, <2>2, <2>3, <2>4, <2>5, <2>6, <2>7, <2>8, <2>9, <2>10
         DEF NetStep
<1>6. CASE UNCHANGED vars
  BY <1>6 DEF ButtonsInv, vars, ButtonsNow, stateVars, userVars, netVars, windowVars
<1>7. CASE ProcessRefused
  BY <1>7 DEF ButtonsInv, ProcessRefused, ButtonsNow, stateVars, userVars, netVars
<1> QED BY <1>1, <1>2, <1>3, <1>4, <1>5, <1>6, <1>7 DEF Next

\* Once both threads are idle and the queue is empty, the buttons are those of
\* the client's state, but for handlers that tell the window nothing.
THEOREM ButtonsAlwaysCatchUp == Spec => []ButtonsCatchUp
<1>1. Init => ButtonsInv
  BY DEF Init, ButtonsInv, ButtonsNow
<1>2. ButtonsInv /\ [Next]_vars => ButtonsInv'
  BY ButtonsUser, ButtonsRest
<1>3. ButtonsInv => ButtonsCatchUp
  BY DEF ButtonsInv, ButtonsCatchUp
<1> QED BY <1>1, <1>2, <1>3, PTL DEF Spec
=============================================================================
