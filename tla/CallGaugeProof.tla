---------------------------- MODULE CallGaugeProof ----------------------------
(***************************************************************************)
(* SIP_active_calls never shows fewer calls than callees that ring or talk. *)
(*                                                                         *)
(* A call is counted once, when its INVITE has a session, and each response *)
(* that ends a call takes one off: a refusal (486, 603) and the 200 to a    *)
(* BYE. One call can get both, for a caller that answers another call while *)
(* its own is refused is in InCall and can hang up. It has then accepted a  *)
(* call that nobody will ever take off, and this call pays for it.          *)
(***************************************************************************)
EXTENDS CallLifeProof

USE PartiesAssumption, HomeAssumption, NoCallAssumption, PeerTrafficAssumption,
    TrafficAssumption, TransportAssumption, NoAddrAssumption, NoContextAssumption,
    NoPacketAssumption

Refusals == {"486", "603"}
Farewells == {"200_BYE"}

\* A packet of call c of the given types is abroad; w handles one.
Ticketed(types, c) == \E p \in Abroad : p.type \in types /\ p.call = c
Holder(w, types, c) == HandlesCall(w, c) /\ pkt[w].type \in types

\* w has yet to take the call of its packet off the gauge.
Unspent(w) ==
  \/ pc[w] \in {"ctxRead", "find", "event", "remove", "decCheck", "dec"}
  \/ pc[w] = "erase" /\ pkt[w].type = "200_BYE"

(***************************************************************************)
(* The ledger: counted, refused and byed are the calls that were added to   *)
(* the gauge, taken off by a refusal, and taken off by the 200 to a BYE;    *)
(* paid gives the call that a caller accepted while it was in another one.  *)
(***************************************************************************)

\* The callee of c did not and will not refuse it.
NoRefusal(c, refused) ==
  /\ Heard(c) /\ pending[Callee[c]] # c
  /\ c \notin refused /\ ~Ticketed(Refusals, c)

\* A client that hangs up in c takes off what was not taken off before.
Honest(c, refused, paid) == NoRefusal(c, refused) \/ paid[c] # NoCall

Balance(counted, refused, byed) ==
  /\ IsFiniteSet(counted) /\ counted \subseteq CallIds
  /\ refused \subseteq counted /\ byed \subseteq counted
  /\ activeCalls = Cardinality(counted) - Cardinality(refused) - Cardinality(byed)

\* c is counted before its callee hears of it, and only once.
Counted(counted, c) ==
  /\ InviteOut(c) \/ Heard(c) => c \in counted
  /\ c \in counted => sessions[c] # <<>>
  /\ \A w \in Workers : Inviting(w, c) =>
       /\ pc[w] \in InviteSteps => c \notin counted
       /\ pc[w] = "send" /\ reply[w] = "none" => c \in counted

\* Of the packets of these types that c ever sees there is one, and it is spent
\* once.
OneTicket(types, spent, c) ==
  /\ \A p \in wire : p.type \in types /\ p.call = c =>
       /\ c \notin spent
       /\ \A q \in wire : q.type \in types /\ q.call = c => q = p
       /\ \A w \in Workers : ~Holder(w, types, c)
  /\ \A v, w \in Workers : Holder(v, types, c) /\ Holder(w, types, c) => v = w
  /\ \A w \in Workers : Holder(w, types, c) /\ Unspent(w) => c \notin spent

\* A refused call is over for its callee, who cannot answer it any more.
Refused(refused, c) ==
  c \in refused \/ Ticketed(Refusals, c) =>
    Left(c, Callee[c]) /\ pending[Callee[c]] # c

\* A call that was taken off by the 200 to a BYE is over.
Parted(byed, c) == c \in byed => \A u \in Party(c) : Left(c, u)

\* Who can hang up in c, or did, answered it or has accepted another call.
Hanging(refused, byed, paid, c) ==
  /\ Active(c, Callee[c]) => pending[Callee[c]] \in {c, NoCall}
  /\ \A u \in Party(c) : Active(c, u) /\ state[u] = "incall" =>
       /\ Honest(c, refused, paid)
       /\ u = Callee[c] => NoRefusal(c, refused)
  /\ \A p \in Abroad : p.call = c =>
       /\ p.type = "200_INVITE" => NoRefusal(c, refused)
       /\ p.type = "BYE" /\ p.from = Callee[c] => NoRefusal(c, refused)
       /\ p.type \in {"BYE", "200_BYE"} => Honest(c, refused, paid)
  /\ \A m \in outbox : m.call = c =>
       /\ m.type = "200_INVITE" => NoRefusal(c, refused)
       /\ m.type = "BYE" /\ m.to = Home[Caller[c]] => NoRefusal(c, refused)
       /\ m.type = "BYE" => Honest(c, refused, paid)
  /\ c \in byed => Honest(c, refused, paid)

\* The call that pays for c was accepted by c's caller, who is not in it and
\* will never hang up in it, pays for no other call, and is not itself taken
\* off unless another one pays for it in turn.
Paid(refused, byed, paid, c) ==
  paid[c] # NoCall =>
    LET g == paid[c] IN
    /\ g # c /\ Callee[g] = Caller[c]
    /\ NoRefusal(g, refused) /\ ~Active(g, Callee[g])
    /\ \A d \in CallIds : paid[d] = g => d = c
    /\ g \in byed \/ Ticketed(Farewells, g) => paid[g] # NoCall
    /\ \A p \in Abroad : p.type = "BYE" /\ p.call = g => p.from # Callee[g]
    /\ \A m \in outbox : m.type = "BYE" /\ m.call = g => m.to # Home[Caller[g]]

Ledger(counted, refused, byed, paid) ==
  /\ Balance(counted, refused, byed)
  /\ paid \in [CallIds -> CallIds \cup {NoCall}]
  /\ \A c \in CallIds :
       /\ Counted(counted, c)
       /\ OneTicket(Refusals, refused, c) /\ OneTicket(Farewells, byed, c)
       /\ Refused(refused, c) /\ Parted(byed, c)
       /\ Hanging(refused, byed, paid, c)
       /\ Paid(refused, byed, paid, c)

GaugeInv == \E counted, refused, byed, paid : Ledger(counted, refused, byed, paid)

(***************************************************************************)
(* The ledger bounds the gauge.                                             *)
(***************************************************************************)

LEMMA DisjointUnion ==
  ASSUME NEW S, NEW T, IsFiniteSet(S), IsFiniteSet(T), S \cap T = {}
  PROVE  /\ IsFiniteSet(S \cup T)
         /\ Cardinality(S \cup T) = Cardinality(S) + Cardinality(T)
<1>1. Cardinality(S \cap T) = 0
  BY FS_EmptySet
<1>2. Cardinality(S) \in Nat /\ Cardinality(T) \in Nat
  BY FS_CardinalityType
<1>3. /\ IsFiniteSet(S \cup T)
      /\ Cardinality(S \cup T) =
           Cardinality(S) + Cardinality(T) - Cardinality(S \cap T)
  BY FS_Union
<1> QED BY <1>1, <1>2, <1>3

LEMMA LedgerCovers ==
  ASSUME TraceInv, NEW K, NEW R, NEW B, NEW P, Ledger(K, R, B, P)
  PROVE  GaugeCoversLiveCalls
<1> DEFINE Live == {c \in CallIds : Active(c, Callee[c])}
           Payer == [c \in B |-> IF P[c] # NoCall THEN P[c] ELSE c]
           Paying == {Payer[c] : c \in B}
<1>1. /\ IsFiniteSet(K) /\ K \subseteq CallIds /\ R \subseteq K /\ B \subseteq K
      /\ P \in [CallIds -> CallIds \cup {NoCall}]
      /\ activeCalls = Cardinality(K) - Cardinality(R) - Cardinality(B)
  BY DEF Ledger, Balance
<1>2. \A c \in CallIds : Active(c, Callee[c]) => Heard(c)
  BY DEF TraceInv, Safe, OriginInv, PeerInv, Heard
<1>3. Live \subseteq K
  BY <1>2 DEF Ledger, Counted
<1>4. \A c \in R : c \notin Live
  BY <1>1 DEF Ledger, Refused, Left
<1>5. \A c \in B : Payer[c] \in K /\ Payer[c] \notin R /\ Payer[c] \notin Live
  <2> SUFFICES ASSUME NEW c \in B
               PROVE  Payer[c] \in K /\ Payer[c] \notin R /\ Payer[c] \notin Live
    OBVIOUS
  <2>1. CASE P[c] # NoCall
    <3>1. P[c] \in CallIds /\ NoRefusal(P[c], R) /\ ~Active(P[c], Callee[P[c]])
      BY <1>1, <2>1 DEF Ledger, Paid
    <3> QED BY <2>1, <3>1 DEF NoRefusal, Ledger, Counted
  <2>2. CASE P[c] = NoCall
    <3>1. c \in CallIds /\ NoRefusal(c, R)
      BY <1>1, <2>2 DEF Ledger, Hanging, Honest
    <3>2. ~Active(c, Callee[c])
      BY <1>1, <3>1 DEF Ledger, Parted, Left, Party
    <3> QED BY <2>2, <3>1, <3>2 DEF NoRefusal, Ledger, Counted
  <2> QED BY <2>1, <2>2
<1>6. \A c, d \in B : Payer[c] = Payer[d] => c = d
  <2> SUFFICES ASSUME NEW c \in B, NEW d \in B, Payer[c] = Payer[d]
               PROVE  c = d
    OBVIOUS
  <2>1. c \in CallIds /\ d \in CallIds
    BY <1>1
  <2>2. CASE P[c] # NoCall /\ P[d] # NoCall
    BY <2>1, <2>2 DEF Ledger, Paid
  <2>3. CASE P[c] # NoCall /\ P[d] = NoCall
    BY <2>1, <2>3 DEF Ledger, Paid
  <2>4. CASE P[c] = NoCall /\ P[d] # NoCall
    BY <2>1, <2>4 DEF Ledger, Paid
  <2>5. CASE P[c] = NoCall /\ P[d] = NoCall
    BY <2>5
  <2> QED BY <2>2, <2>3, <2>4, <2>5
<1>7. /\ IsFiniteSet(R) /\ IsFiniteSet(B) /\ IsFiniteSet(Live)
      /\ \A S \in {K, R, B, Live} : Cardinality(S) \in Nat
  BY <1>1, <1>3, FS_Subset, FS_CardinalityType
<1> HIDE DEF Live, Payer
<1>8. Paying \subseteq K /\ IsFiniteSet(Paying)
  BY <1>1, <1>5, FS_Subset
<1>9. Cardinality(Paying) = Cardinality(B)
  <2>1. Payer \in Bijection(B, Paying)
    <3>1. Payer \in [B -> Paying]
      BY DEF Payer
    <3>2. IsInjective(Payer)
      BY <1>6 DEF IsInjective, Payer
    <3>3. \A g \in Paying : \E c \in B : Payer[c] = g
      OBVIOUS
    <3> QED BY <3>1, <3>2, <3>3 DEF Bijection, Injection, Surjection
  <2>2. ExistsBijection(B, Paying)
    BY <2>1 DEF ExistsBijection
  <2> QED BY <1>7, <2>2, FS_Bijection
<1>10. /\ IsFiniteSet(Live \cup R)
       /\ Cardinality(Live \cup R) = Cardinality(Live) + Cardinality(R)
  <2>1. Live \cap R = {}
    BY <1>4
  <2> QED BY <1>7, <2>1, DisjointUnion
<1>11. Cardinality((Live \cup R) \cup Paying) =
         Cardinality(Live \cup R) + Cardinality(Paying)
  <2>1. (Live \cup R) \cap Paying = {}
    BY <1>5
  <2> QED BY <1>8, <1>10, <2>1, DisjointUnion
<1>12. Cardinality((Live \cup R) \cup Paying) <= Cardinality(K)
  BY <1>1, <1>3, <1>8, FS_Subset
<1>13. Cardinality(Live) <= activeCalls
  BY <1>1, <1>7, <1>9, <1>10, <1>11, <1>12
<1> QED BY <1>13 DEF GaugeCoversLiveCalls, Live

(***************************************************************************)
(* What a step does to the ledger.                                          *)
(***************************************************************************)

\* What is taken off was abroad; and a caller that accepts another call pays
\* for the one it is in, unless that is paid for already.
Growth(R, B, P, R1, B1, P1) ==
  /\ \A c \in CallIds : c \in R1 => c \in R \/ Ticketed(Refusals, c)
  /\ \A c \in CallIds : c \in B1 => c \in B \/ Ticketed(Farewells, c)
  /\ \A c \in CallIds :
       \/ P1[c] = P[c]
       \/ /\ P[c] = NoCall /\ P1[c] \in CallIds /\ P1[c] # c
          /\ \E u \in Users : Answer(u) /\ active[u] = c /\ pending[u] = P1[c]
  /\ \A u \in Users, c \in CallIds :
       Answer(u) /\ active[u] = c /\ pending[u] # c => P1[c] # NoCall

\* A refusal is sent by a callee that rings for the call, or hears of it.
LEMMA NewRefusal ==
  ASSUME TraceInv, [CallsNext]_allVars, NEW c \in CallIds,
         Ticketed(Refusals, c)', ~Ticketed(Refusals, c)
  PROVE  /\ pending[Callee[c]] = c \/ ~Heard(c)
         /\ Left(c, Callee[c])' /\ pending'[Callee[c]] # c
<1> DEFINE u == Callee[c]
<1>1. Safe /\ Once(c) /\ u \in Users
  BY DEF TraceInv
<1>2. PICK p \in Abroad' : p \notin Abroad /\ p.type \in Refusals /\ p.call = c
  BY DEF Ticketed
<1>3. p \in wire' \ wire /\ PeerStep
  BY <1>1, <1>2, AbroadStep DEF Safe
<1>4. Occasion(p)
  BY <1>1, <1>3, SentPacket DEF Safe, OriginInv
<1>5. CASE p.type = "603"
  <2>1. pending[u] = c /\ Reject(u)
    BY <1>2, <1>4, <1>5 DEF Occasion
  <2>2. <<c, u>> \in joined
    BY <1>1, <2>1 DEF Safe, OriginInv, PeerInv
  <2>3. joined' = joined /\ active'[u] = NoCall /\ pending'[u] = NoCall
    BY <1>1, <2>1 DEF Reject, Terminate, Safe, Types, CallsTypeOK
  <2> QED BY <2>1, <2>2, <2>3 DEF Left, Active
<1>6. CASE p.type = "486"
  <2>1. InviteOut(c) /\ \E m \in outbox : m.call = c /\ ReceiveInvite(m, u, TRUE)
    BY <1>2, <1>4, <1>6 DEF Occasion, InviteOut
  <2>2. ~Heard(c) /\ active[u] # c /\ pending[u] # c
    BY <1>1, <2>1 DEF Once, Heard, Safe, OriginInv, PeerInv, Active
  <2>3. joined' = joined \cup {<<c, u>>} /\ UNCHANGED <<active, pending>>
    BY <2>1 DEF ReceiveInvite
  <2> QED BY <2>2, <2>3 DEF Left, Active
<1> QED BY <1>2, <1>5, <1>6 DEF Refusals

LEMMA NoRefusalStays ==
  ASSUME TraceInv, [CallsNext]_allVars, NEW c \in CallIds, NEW R, NEW R1,
         c \in R1 => c \in R \/ Ticketed(Refusals, c), NoRefusal(c, R)
  PROVE  NoRefusal(c, R1)'
<1>1. Heard(c)'
  BY Moves DEF NoRefusal, Heard, PeerMoves, TraceInv, Safe, OriginInv
<1> QED BY <1>1, RingsOnce, NewRefusal DEF NoRefusal

LEMMA RefusedNext ==
  ASSUME TraceInv, [CallsNext]_allVars, NEW c \in CallIds, NEW R, NEW R1,
         c \in R1 => c \in R \/ Ticketed(Refusals, c), Refused(R, c)
  PROVE  Refused(R1, c)'
<1>1. CASE c \in R \/ Ticketed(Refusals, c)
  <2>1. Left(c, Callee[c]) /\ pending[Callee[c]] # c
    BY <1>1 DEF Refused
  <2>2. Left(c, Callee[c])'
    BY <2>1, LeftStays DEF TraceInv, Party
  <2>3. pending'[Callee[c]] # c
    BY <2>1, RingsOnce DEF Left, Heard
  <2> QED BY <2>2, <2>3 DEF Refused
<1>2. CASE ~(c \in R \/ Ticketed(Refusals, c))
  BY <1>2, NewRefusal DEF Refused
<1> QED BY <1>1, <1>2

LEMMA PartedNext ==
  ASSUME TraceInv, [CallsNext]_allVars, NEW c \in CallIds, NEW B, NEW B1,
         c \in B1 => c \in B \/ Ticketed(Farewells, c), Parted(B, c)
  PROVE  Parted(B1, c)'
<1>1. Ticketed(Farewells, c) => \A u \in Party(c) : Left(c, u)
  BY DEF Ticketed, Farewells, TraceInv, Ended
<1>2. c \in B1 => \A u \in Party(c) : Left(c, u)'
  BY <1>1, LeftStays DEF Parted, TraceInv
<1> QED BY <1>2 DEF Parted

\* A new message of a call is its worker's packet.
LEMMA MessageOrigin ==
  ASSUME TraceInv, [CallsNext]_allVars, NEW m \in outbox' \ outbox,
         m.type \in {"200_INVITE", "BYE"}
  PROVE  \E p \in Abroad :
           /\ p.type = m.type /\ p.call = m.call
           /\ m.type = "BYE" => /\ p.from \in Party(m.call)
                                /\ m.to = Home[Other(m.call, p.from)]
<1>1. PICK w \in Workers :
           /\ pc[w] = "send"
           /\ m = IF reply[w] = "none" THEN Relay(pkt[w], snap[w])
                  ELSE LocalResponse(pkt[w], reply[w])
  BY NewMessage DEF TraceInv, Safe
<1>2. /\ pkt[w].call = m.call /\ pkt[w].type = m.type
      /\ m.type = "BYE" => m.to = Home[Other(m.call, pkt[w].from)]
  BY <1>1, SentMessage DEF TraceInv, Safe, OriginInv, LocalStatus
<1>3. pkt[w] \in Abroad
  BY <1>1 DEF Abroad, Busy
<1>4. m.type = "BYE" => pkt[w].from \in Party(m.call)
  BY <1>2, <1>3 DEF TraceInv, Safe, OriginInv, PacketInv, Genuine
<1> QED BY <1>2, <1>3, <1>4

Book(R, B, P) ==
  /\ P \in [CallIds -> CallIds \cup {NoCall}]
  /\ \A c \in CallIds : /\ Refused(R, c) /\ Parted(B, c)
                        /\ Hanging(R, B, P, c) /\ Paid(R, B, P, c)

LEMMA HonestStays ==
  ASSUME TraceInv, [CallsNext]_allVars, NEW R, NEW B, NEW P, NEW R1, NEW B1, NEW P1,
         Growth(R, B, P, R1, B1, P1), NEW c \in CallIds
  PROVE  /\ NoRefusal(c, R) => NoRefusal(c, R1)'
         /\ Honest(c, R, P) => Honest(c, R1, P1)'
<1>1. NoRefusal(c, R) => NoRefusal(c, R1)'
  BY NoRefusalStays DEF Growth
<1>2. P[c] # NoCall => P1[c] # NoCall
  BY DEF Growth
<1> QED BY <1>1, <1>2 DEF Honest

\* A callee that answers has accepted the call.
LEMMA AnsweredIsAccepted ==
  ASSUME TraceInv, [CallsNext]_allVars, NEW R, NEW B, NEW P, NEW R1, NEW B1, NEW P1,
         Book(R, B, P), Growth(R, B, P, R1, B1, P1),
         NEW u \in Users, Answer(u), NEW g, pending[u] = g
  PROVE  /\ g \in CallIds /\ Callee[g] = u /\ g \notin R /\ ~Ticketed(Refusals, g)
         /\ NoRefusal(g, R1)'
         /\ \A p \in wire' \ wire : p.type = "200_INVITE" /\ p.call = g
         /\ outbox' = outbox /\ active' = active
<1>1. g \in CallIds /\ Callee[g] = u /\ <<g, u>> \in joined
  BY DEF Answer, TraceInv, Safe, Types, CallsTypeOK, OriginInv, PeerInv
<1>2. g \notin R /\ g \notin R1 /\ ~Ticketed(Refusals, g)
  BY <1>1 DEF Refused, Book, Growth
<1>3. \A p \in wire' \ wire : p.type = "200_INVITE" /\ p.call = g
  BY DEF Answer, SendsToProxy, Response
<1>4. outbox' = outbox /\ active' = active /\ joined' = joined /\ pending'[u] = NoCall
  <2>1. pending \in [Users -> CallIds \cup {NoCall}]
    BY DEF TraceInv, Safe, Types, CallsTypeOK
  <2> QED BY <2>1 DEF Answer, ProxyUnchanged, ioVars
<1>5. ~Ticketed(Refusals, g)'
  <2>1. Abroad' \subseteq Abroad \cup (wire' \ wire)
    BY AbroadStep DEF TraceInv, Safe
  <2>2. \A p \in wire' \ wire : p.type \notin Refusals
    BY <1>3 DEF Refusals
  <2> QED BY <1>2, <2>1, <2>2 DEF Ticketed
<1>6. NoRefusal(g, R1)'
  BY <1>1, <1>2, <1>4, <1>5 DEF NoRefusal, Heard
<1> QED BY <1>1, <1>2, <1>3, <1>4, <1>6

\* A client gets into InCall when it answers, or is answered.
LEMMA InCallNext ==
  ASSUME TraceInv, [CallsNext]_allVars, NEW R, NEW B, NEW P, NEW R1, NEW B1, NEW P1,
         Book(R, B, P), Growth(R, B, P, R1, B1, P1), NEW c \in CallIds,
         NEW u \in Party(c), Active(c, u)', state'[u] = "incall"
  PROVE  /\ Honest(c, R1, P1)'
         /\ u = Callee[c] => NoRefusal(c, R1)'
<1>1. /\ u \in Users /\ Hanging(R, B, P, c)
      /\ \A d \in CallIds : Refused(R, d)
      /\ NoRefusal(c, R1)' => Honest(c, R1, P1)'
  BY Parties DEF Book, Honest
<1>2. /\ Active(c, u)
      /\ \/ state[u] = "incall"
         \/ Answer(u)
         \/ \E m \in outbox : m.type = "200_INVITE" /\ m.call = c
  BY <1>1, Moves DEF PeerMoves, Active, TraceInv, Safe, OriginInv
<1>3. CASE state[u] = "incall"
  BY <1>1, <1>2, <1>3, HonestStays DEF Hanging
<1>4. CASE \E m \in outbox : m.type = "200_INVITE" /\ m.call = c
  BY <1>1, <1>4, HonestStays DEF Hanging
<1>5. CASE Answer(u)
  <2>1. PICK g : pending[u] = g
    OBVIOUS
  <2>2. g \in CallIds /\ Callee[g] = u /\ NoRefusal(g, R1)'
    BY <1>1, <1>5, <2>1, AnsweredIsAccepted
  <2>3. CASE g = c
    BY <1>1, <2>2, <2>3
  <2>4. CASE g # c
    <3>1. u # Callee[c]
      BY <1>1, <1>2, <2>1, <2>2, <2>4 DEF Hanging
    <3>2. P1[c] # NoCall
      BY <1>1, <1>2, <1>5, <2>1, <2>4 DEF Growth, Active
    <3> QED BY <3>1, <3>2 DEF Honest
  <2> QED BY <2>3, <2>4
<1> QED BY <1>2, <1>3, <1>4, <1>5

LEMMA HangingNext ==
  ASSUME TraceInv, [CallsNext]_allVars, NEW R, NEW B, NEW P, NEW R1, NEW B1, NEW P1,
         Book(R, B, P), Growth(R, B, P, R1, B1, P1), NEW c \in CallIds
  PROVE  Hanging(R1, B1, P1, c)'
<1>1. /\ Hanging(R, B, P, c) /\ Safe /\ PeerMoves
      /\ \A d \in CallIds : Refused(R, d)
      /\ NoRefusal(c, R1)' => Honest(c, R1, P1)'
      /\ NoRefusal(c, R) => NoRefusal(c, R1)'
      /\ Honest(c, R, P) => Honest(c, R1, P1)'
  BY HonestStays, Moves DEF Book, Honest, TraceInv, Safe, OriginInv
<1>2. Active(c, Callee[c])' => pending'[Callee[c]] \in {c, NoCall}
  <2>1. Callee[c] \in Users
    OBVIOUS
  <2> QED BY <1>1, <2>1 DEF Hanging, PeerMoves, Active
<1>3. ASSUME NEW p \in Abroad', p.call = c
      PROVE  /\ p.type = "200_INVITE" => NoRefusal(c, R1)'
             /\ p.type = "BYE" /\ p.from = Callee[c] => NoRefusal(c, R1)'
             /\ p.type \in {"BYE", "200_BYE"} => Honest(c, R1, P1)'
  <2>1. CASE p \in Abroad
    BY <1>1, <1>3, <2>1 DEF Hanging
  <2>2. CASE p \notin Abroad
    <3>1. p \in wire' \ wire /\ PeerStep
      BY <1>1, <1>3, <2>2, AbroadStep DEF Safe
    <3>2. Occasion(p)
      BY <1>1, <3>1, SentPacket DEF Safe, OriginInv
    <3>3. CASE p.type = "200_INVITE"
      <4>1. pending[Callee[c]] = c /\ Answer(Callee[c])
        BY <1>3, <3>2, <3>3 DEF Occasion
      <4>2. NoRefusal(c, R1)'
        BY <4>1, AnsweredIsAccepted
      <4> QED BY <3>3, <4>2
    <3>4. CASE p.type = "BYE"
      <4>1. /\ HangUp(p.from) /\ Active(c, p.from) /\ p.from \in Party(c)
        BY <1>3, <3>2, <3>4 DEF Occasion, Active, Genuine
      <4>2. state[p.from] = "incall"
        BY <4>1 DEF HangUp
      <4> QED BY <1>1, <3>4, <4>1, <4>2 DEF Hanging
    <3>5. CASE p.type = "200_BYE"
      <4>1. \E m \in outbox : m.type = "BYE" /\ m.call = c
        BY <1>3, <3>2, <3>5 DEF Occasion
      <4> QED BY <1>1, <3>5, <4>1 DEF Hanging
    <3> QED BY <3>3, <3>4, <3>5
  <2> QED BY <2>1, <2>2
<1>4. ASSUME NEW m \in outbox', m.call = c
      PROVE  /\ m.type = "200_INVITE" => NoRefusal(c, R1)'
             /\ m.type = "BYE" /\ m.to = Home[Caller[c]] => NoRefusal(c, R1)'
             /\ m.type = "BYE" => Honest(c, R1, P1)'
  <2>1. CASE m \in outbox
    BY <1>1, <1>4, <2>1 DEF Hanging
  <2>2. CASE m \notin outbox
    <3>1. CASE m.type = "200_INVITE"
      <4>1. \E p \in Abroad : p.type = "200_INVITE" /\ p.call = c
        BY <1>4, <2>2, <3>1, MessageOrigin
      <4> QED BY <1>1, <3>1, <4>1 DEF Hanging
    <3>2. CASE m.type = "BYE"
      <4>1. PICK p \in Abroad : /\ p.type = "BYE" /\ p.call = c
                                /\ p.from \in Party(c)
                                /\ m.to = Home[Other(c, p.from)]
        BY <1>4, <2>2, <3>2, MessageOrigin
      <4>2. m.to = Home[Caller[c]] => p.from = Callee[c]
        BY <4>1 DEF Party, Other
      <4> QED BY <1>1, <3>2, <4>1, <4>2 DEF Hanging
    <3> QED BY <3>1, <3>2
  <2> QED BY <2>1, <2>2
<1>5. c \in B1 => Honest(c, R1, P1)'
  <2>1. Ticketed(Farewells, c) => Honest(c, R, P)
    BY <1>1 DEF Ticketed, Farewells, Hanging
  <2> QED BY <1>1, <2>1 DEF Growth, Hanging
<1>6. \A u \in Party(c) : Active(c, u)' /\ state'[u] = "incall" =>
        /\ Honest(c, R1, P1)'
        /\ u = Callee[c] => NoRefusal(c, R1)'
  BY InCallNext
<1> QED BY <1>2, <1>3, <1>4, <1>5, <1>6 DEF Hanging

\* A call keeps paying for the one it pays for.
LEMMA PaidStays ==
  ASSUME TraceInv, [CallsNext]_allVars, NEW R, NEW B, NEW P, NEW R1, NEW B1, NEW P1,
         Book(R, B, P), Growth(R, B, P, R1, B1, P1), NEW c \in CallIds,
         P[c] # NoCall
  PROVE  P1[c] = P[c] /\ Paid(R1, B1, P1, c)'
<1> DEFINE g == P[c]
<1>1. /\ g \in CallIds /\ P1[c] = g /\ Safe
      /\ g # c /\ Callee[g] = Caller[c]
      /\ NoRefusal(g, R) /\ ~Active(g, Callee[g])
      /\ \A d \in CallIds : P[d] = g => d = c
      /\ g \in B \/ Ticketed(Farewells, g) => P[g] # NoCall
      /\ \A p \in Abroad : p.type = "BYE" /\ p.call = g => p.from # Callee[g]
      /\ \A m \in outbox : m.type = "BYE" /\ m.call = g => m.to # Home[Caller[g]]
  BY DEF Book, Paid, Growth, TraceInv
<1> HIDE DEF g
<1>2. NoRefusal(g, R1)'
  BY <1>1, NoRefusalStays DEF Growth
<1>3. ~Active(g, Callee[g])'
  <2>1. Left(g, Callee[g]) /\ Callee[g] \in Party(g)
    BY <1>1 DEF Left, NoRefusal, Heard, Party
  <2> QED BY <1>1, <2>1, LeftStays DEF Left, TraceInv
<1>4. ASSUME NEW d \in CallIds, P1[d] = g PROVE d = c
  <2>1. CASE P1[d] = P[d]
    BY <1>1, <1>4, <2>1
  <2>2. CASE \E u \in Users : Answer(u) /\ pending[u] = g
    <3>1. pending[Callee[g]] = g
      BY <1>1, <2>2 DEF Safe, OriginInv, PeerInv
    <3> QED BY <1>1, <3>1 DEF NoRefusal
  <2> QED BY <1>4, <2>1, <2>2 DEF Growth
<1>5. ASSUME NEW p \in Abroad', p \notin Abroad, p.call = g
      PROVE  /\ p.type # "200_BYE"
             /\ p.type = "BYE" => p.from # Callee[g]
  <2>1. p \in wire' \ wire /\ PeerStep
    BY <1>1, <1>5, AbroadStep DEF Safe
  <2>2. Occasion(p)
    BY <1>1, <2>1, SentPacket DEF Safe, OriginInv
  <2>3. ASSUME p.type = "200_BYE" PROVE FALSE
    <3>1. PICK m \in outbox, u \in Party(g) :
               /\ Handles(u, m) /\ m.type = "BYE" /\ m.call = g /\ Active(g, u)
      BY <1>5, <2>2, <2>3 DEF Occasion
    <3>2. u = Caller[g] /\ m.to = Home[u]
      BY <1>1, <3>1 DEF Party, Handles
    <3> QED BY <1>1, <3>1, <3>2
  <2>4. p.type = "BYE" => Active(g, p.from)
    BY <1>5, <2>2 DEF Occasion, Active
  <2> QED BY <1>1, <2>3, <2>4
<1>6. g \in B1 \/ Ticketed(Farewells, g)' => P1[g] # NoCall
  <2>1. Ticketed(Farewells, g)' => Ticketed(Farewells, g)
    BY <1>5 DEF Ticketed, Farewells
  <2>2. P[g] # NoCall => P1[g] # NoCall
    BY <1>1 DEF Growth
  <2> QED BY <1>1, <2>1, <2>2 DEF Growth
<1>7. \A p \in Abroad' : p.type = "BYE" /\ p.call = g => p.from # Callee[g]
  BY <1>1, <1>5
<1>8. ASSUME NEW m \in outbox', m.type = "BYE", m.call = g PROVE m.to # Home[Caller[g]]
  <2>1. CASE m \in outbox
    BY <1>1, <1>8, <2>1
  <2>2. CASE m \notin outbox
    <3>1. PICK p \in Abroad : /\ p.type = "BYE" /\ p.call = g
                              /\ p.from \in Party(g)
                              /\ m.to = Home[Other(g, p.from)]
      BY <1>8, <2>2, MessageOrigin
    <3>2. m.to = Home[Caller[g]] => p.from = Callee[g]
      BY <1>1, <3>1 DEF Party, Other
    <3> QED BY <1>1, <3>1, <3>2
  <2> QED BY <2>1, <2>2
<1> QED BY <1>1, <1>2, <1>3, <1>4, <1>6, <1>7, <1>8 DEF Paid, g

\* A call that a caller accepts begins to pay for the one the caller is in.
LEMMA PaidBegins ==
  ASSUME TraceInv, [CallsNext]_allVars, NEW R, NEW B, NEW P, NEW R1, NEW B1, NEW P1,
         Book(R, B, P), Growth(R, B, P, R1, B1, P1), NEW c \in CallIds,
         P[c] = NoCall, P1[c] # NoCall
  PROVE  Paid(R1, B1, P1, c)'
<1>1. PICK g \in CallIds : g = P1[c]
  BY DEF Growth
<1>2. PICK u \in Users : Answer(u) /\ active[u] = c /\ pending[u] = g /\ g # c
  BY <1>1 DEF Growth
<1>3. /\ Callee[g] = u /\ ~Ticketed(Refusals, g)
      /\ NoRefusal(g, R1)'
      /\ \A p \in wire' \ wire : p.type = "200_INVITE"
      /\ outbox' = outbox /\ active' = active
  BY <1>2, AnsweredIsAccepted
<1>4. ~NoRefusal(g, R)
  BY <1>2, <1>3 DEF NoRefusal
<1>5. Hanging(R, B, P, g) /\ Hanging(R, B, P, c) /\ Safe
  BY DEF Book, TraceInv
<1>6. Caller[c] = u
  <2>1. u \in Party(c)
    BY <1>2, <1>5 DEF Safe, OriginInv, PeerInv, Active
  <2>2. u # Callee[c]
    BY <1>2, <1>5 DEF Hanging, Active
  <2> QED BY <2>1, <2>2 DEF Party
<1>7. ~Active(g, u)'
  BY <1>2, <1>3 DEF Active
<1>8. ASSUME NEW d \in CallIds, P1[d] = g PROVE d = c
  <2>1. CASE P[d] = g
    BY <1>4, <2>1 DEF Book, Paid
  <2>2. CASE \E v \in Users : Answer(v) /\ active[v] = d /\ pending[v] = g
    <3>1. PICK v \in Users : active[v] = d /\ pending[v] = g
      BY <2>2
    <3>2. v = u
      BY <1>3, <1>5, <3>1 DEF Safe, OriginInv, PeerInv
    <3> QED BY <1>2, <3>1, <3>2
  <2> QED BY <1>8, <2>1, <2>2 DEF Growth
<1>9. Abroad' \subseteq Abroad \cup (wire' \ wire)
  BY <1>5, AbroadStep DEF Safe
<1>10. g \in B1 \/ Ticketed(Farewells, g)' => P1[g] # NoCall
  <2>1. Ticketed(Farewells, g)' => Ticketed(Farewells, g)
    BY <1>3, <1>9 DEF Ticketed, Farewells
  <2>2. Ticketed(Farewells, g) => Honest(g, R, P)
    BY <1>5 DEF Ticketed, Farewells, Hanging
  <2>3. g \in B => Honest(g, R, P)
    BY <1>5 DEF Hanging
  <2>4. Honest(g, R, P) => P[g] # NoCall
    BY <1>4 DEF Honest
  <2> QED BY <2>1, <2>2, <2>3, <2>4 DEF Growth
<1>11. \A p \in Abroad' : p.type = "BYE" /\ p.call = g => p.from # Callee[g]
  BY <1>3, <1>4, <1>5, <1>9 DEF Hanging
<1>12. \A m \in outbox' : m.type = "BYE" /\ m.call = g => m.to # Home[Caller[g]]
  BY <1>3, <1>4, <1>5 DEF Hanging
<1> QED BY <1>1, <1>2, <1>3, <1>6, <1>7, <1>8, <1>10, <1>11, <1>12 DEF Paid

LEMMA BookNext ==
  ASSUME TraceInv, [CallsNext]_allVars, NEW R, NEW B, NEW P, NEW R1, NEW B1, NEW P1,
         Book(R, B, P), Growth(R, B, P, R1, B1, P1),
         P1 \in [CallIds -> CallIds \cup {NoCall}]
  PROVE  Book(R1, B1, P1)'
<1> SUFFICES ASSUME NEW c \in CallIds
             PROVE  /\ Refused(R1, c)' /\ Parted(B1, c)'
                    /\ Hanging(R1, B1, P1, c)' /\ Paid(R1, B1, P1, c)'
  BY DEF Book
<1>1. Refused(R1, c)' /\ Parted(B1, c)'
  BY RefusedNext, PartedNext DEF Book, Growth
<1>2. Paid(R1, B1, P1, c)'
  <2>1. CASE P1[c] = NoCall
    BY <2>1 DEF Paid
  <2>2. CASE P1[c] # NoCall
    BY <2>2, PaidStays, PaidBegins
  <2> QED BY <2>1, <2>2
<1> QED BY <1>1, <1>2, HangingNext

(***************************************************************************)
(* How the ledger is kept.                                                  *)
(***************************************************************************)

\* Call c is counted, or taken off for a packet of these types, in this step.
CountsNow(c) == \E w \in Workers : WorkerStep(w) /\ InvCount(w) /\ pkt[w].call = c
TakenOff(types, c) == \E w \in Workers : WorkerStep(w) /\ Dec(w) /\ Holder(w, types, c)

\* One worker moves in a step, and the gauge moves with no one else.
LEMMA OneWorker ==
  ASSUME Safe, NEW w \in Workers, InvCount(w) \/ Dec(w)
  PROVE  /\ pc'[w] # pc[w]
         /\ \A v \in Workers : WorkerStep(v) => v = w
<1>1. pc \in [Workers -> Steps]
  BY DEF Safe, Types, TypeOK
<1>2. pc'[w] # pc[w]
  BY <1>1 DEF InvCount, Dec, Goto, AfterDec
<1>3. ASSUME NEW v \in Workers, WorkerStep(v), v # w PROVE pc'[w] = pc[w]
  BY <1>3, ProceedLocal DEF Safe, Types, WorkerStep
<1> QED BY <1>2, <1>3

LEMMA GaugeSteps ==
  ASSUME Safe, [CallsNext]_allVars
  PROVE  \/ \E w \in Workers : WorkerStep(w) /\ (InvCount(w) \/ Dec(w))
         \/ /\ activeCalls' = activeCalls
            /\ \A w \in Workers : ~InvCount(w) /\ ~Dec(w)
<1>1. CASE PeerStep \/ LossStep \/ UNCHANGED allVars
  <2>1. activeCalls' = activeCalls /\ pc' = pc
    BY <1>1, RouterKept
  <2> QED BY <2>1, OneWorker
<1>2. ASSUME NEW w \in Workers, NEW p \in wire, TakeStep(w, p)
      PROVE  /\ activeCalls' = activeCalls
             /\ \A v \in Workers : ~InvCount(v) /\ ~Dec(v)
  <2>1. Receive(w, p)
    BY <1>2 DEF TakeStep, ReceiveFromWire, ReceiveDuplicate
  <2>2. /\ ~Busy(w) /\ activeCalls' = activeCalls
        /\ \A v \in Workers : v # w => pc'[v] = pc[v]
    BY <2>1, ReceiveLocal DEF Safe, Types, proxyVars
  <2>3. ~InvCount(w) /\ ~Dec(w)
    BY <2>2 DEF Busy, InvCount, Dec
  <2> QED BY <2>2, <2>3, OneWorker
<1>3. ASSUME NEW w \in Workers, WorkerStep(w), ~InvCount(w), ~Dec(w)
      PROVE  /\ activeCalls' = activeCalls
             /\ \A v \in Workers : ~InvCount(v) /\ ~Dec(v)
  <2>1. activeCalls' = activeCalls
    BY <1>3 DEF WorkerStep, Proceed, RegStore, RegCount, InvLookup, InvCreate, InvStore,
       InvEvent, CtxRead, FindCall, SessionEvent, AckFind, AckCheck, StoreAnswer,
       RemoveCall, EraseContext, DecCheck, Send, proxyVars
  <2> QED BY <1>3, <2>1, OneWorker
<1> QED BY <1>1, <1>2, <1>3, StepKinds

LEMMA CountedNext ==
  ASSUME TraceInv, [CallsNext]_allVars, NEW c \in CallIds, NEW K, NEW K1,
         c \in K1 <=> c \in K \/ CountsNow(c), Counted(K, c)
  PROVE  Counted(K1, c)'
<1>1. Safe /\ Once(c) /\ Record(c) /\ PeerMoves
  BY Moves DEF TraceInv, Safe, OriginInv
<1>2. InviteOut(c)' /\ ~InviteOut(c) => c \in K
  <2> SUFFICES ASSUME InviteOut(c)', ~InviteOut(c) PROVE c \in K
    OBVIOUS
  <2>1. PICK m \in outbox' \ outbox : m.type = "INVITE" /\ m.call = c
    BY DEF InviteOut
  <2>2. PICK v \in Workers :
             /\ pc[v] = "send"
             /\ m = IF reply[v] = "none" THEN Relay(pkt[v], snap[v])
                    ELSE LocalResponse(pkt[v], reply[v])
    BY <1>1, <2>1, NewMessage DEF Safe
  <2>3. Inviting(v, c) /\ reply[v] = "none"
    BY <1>1, <2>1, <2>2, SentMessage
       DEF Safe, OriginInv, LocalStatus, Inviting, HandlesCall, Busy
  <2> QED BY <2>2, <2>3 DEF Counted
<1>3. Heard(c)' /\ ~Heard(c) => InviteOut(c)
  <2>1. Heard(c)' /\ ~Heard(c) => Enters(c, Callee[c])
    BY <1>1 DEF PeerMoves, Heard
  <2> QED BY <1>1, <2>1, HearsOnce
<1>4. InviteOut(c)' \/ Heard(c)' => c \in K1
  BY <1>2, <1>3 DEF Counted
<1>5. c \in K1 => sessions'[c] # <<>>
  <2>1. CountsNow(c) => sessions[c] # <<>>
    BY <1>1 DEF CountsNow, InvCount, Record, HandlesCall, Busy
  <2>2. sessions[c] # <<>> => sessions'[c] # <<>>
    BY SessionsStay
  <2> QED BY <2>1, <2>2 DEF Counted
<1>6. ASSUME NEW v \in Workers, Inviting(v, c)'
      PROVE  /\ pc'[v] \in InviteSteps => c \notin K1
             /\ pc'[v] = "send" /\ reply'[v] = "none" => c \in K1
  <2>1. CASE PeerStep \/ LossStep \/ UNCHANGED allVars
    <3>1. UNCHANGED <<pc, pkt, reply>>
      BY <2>1, RouterKept
    <3>2. ~CountsNow(c)
      BY <1>1, <3>1, OneWorker DEF CountsNow
    <3> QED BY <1>6, <3>1, <3>2 DEF Counted, Inviting, HandlesCall, Busy
  <2>2. ASSUME NEW w \in Workers, NEW p \in wire, TakeStep(w, p)
        PROVE  /\ pc'[v] \in InviteSteps => c \notin K1
               /\ pc'[v] = "send" /\ reply'[v] = "none" => c \in K1
    <3>1. Receive(w, p)
      BY <2>2 DEF TakeStep, ReceiveFromWire, ReceiveDuplicate
    <3>2. /\ ~Busy(w) /\ pc'[w] = FirstStep(p)
          /\ pkt'[w] = IF FirstStep(p) = "idle" THEN NoPacket ELSE p
          /\ \A u \in Workers : u # w => UNCHANGED <<pc[u], pkt[u], reply[u]>>
      BY <1>1, <3>1, ReceiveLocal DEF Safe, Types
    <3>3. ~CountsNow(c)
      <4>1. ASSUME NEW u \in Workers, InvCount(u) PROVE FALSE
        BY <1>1, <3>2, <4>1, OneWorker DEF InvCount, Busy
      <4> QED BY <4>1 DEF CountsNow
    <3>4. CASE v # w
      BY <1>6, <3>2, <3>3, <3>4 DEF Counted, Inviting, HandlesCall, Busy
    <3>5. CASE v = w
      <4>1. p \in Abroad /\ p.type = "INVITE" /\ p.call = c
        BY <1>6, <3>2, <3>5 DEF Inviting, HandlesCall, Busy, Abroad
      <4>2. p = Invitation(c)
        BY <1>1, <4>1, InvitePacket
      <4>3. pc'[v] = "invLookup" /\ sessions[c] = <<>>
        BY <1>1, <3>2, <3>5, <4>2, InvitationFields DEF Once
      <4> QED BY <3>3, <4>3 DEF Counted
    <3> QED BY <3>4, <3>5
  <2>3. ASSUME NEW w \in Workers, WorkerStep(w)
        PROVE  /\ pc'[v] \in InviteSteps => c \notin K1
               /\ pc'[v] = "send" /\ reply'[v] = "none" => c \in K1
    <3>1. /\ Proceed(w) /\ Busy(w)
          /\ \A u \in Workers : u # w => UNCHANGED <<pc[u], pkt[u], reply[u]>>
          /\ pkt'[w] = pkt[w] \/ ~Busy(w)'
      BY <1>1, <2>3, ProceedLocal DEF Safe, Types, WorkerStep
    <3>2. Inviting(v, c)
      BY <1>6, <3>1 DEF Inviting, HandlesCall, Busy
    <3>3. CountsNow(c) => InvCount(w) /\ Inviting(w, c)
      BY <1>1, <2>3, <3>1, OneWorker DEF CountsNow, Inviting, HandlesCall, Safe, Types,
         StepInv, InvCount, InviteSteps
    <3>4. CASE v # w
      <4>1. ~CountsNow(c)
        BY <1>1, <3>2, <3>3, <3>4 DEF Once
      <4> QED BY <3>1, <3>2, <3>4, <4>1 DEF Counted
    <3>5. CASE v = w
      <4>1. pc \in [Workers -> Steps] /\ reply \in [Workers -> LocalStatus \cup {"none"}]
        BY <1>1 DEF Safe, Types, TypeOK
      <4>2. /\ pc'[w] \in InviteSteps => pc[w] \in InviteSteps /\ ~InvCount(w)
            /\ pc'[w] = "send" /\ reply'[w] = "none" => InvCount(w)
        BY <1>1, <3>1, <3>2, <3>5, <4>1 DEF Safe, Types, StepInv, Inviting, InviteSteps,
           Goto, Proceed, RegStore, RegCount, InvLookup, InvCreate, CreateSession,
           InvStore, InvEvent, InvCount, CtxRead, FindCall, SessionEvent, AckFind,
           AckCheck, StoreAnswer, RemoveCall, EraseContext, DecCheck, Dec, Send, Respond,
           Finish, AfterEvent, AfterDec, ResponseTypes
      <4>3. InvCount(w) => CountsNow(c)
        BY <2>3, <3>2, <3>5 DEF CountsNow, Inviting, HandlesCall
      <4> QED BY <3>2, <3>3, <3>5, <4>2, <4>3 DEF Counted
    <3> QED BY <3>4, <3>5
  <2> QED BY <2>1, <2>2, <2>3, StepKinds
<1> QED BY <1>4, <1>5, <1>6 DEF Counted

\* A refusal or a farewell that is sent is the first of its call.
FirstTicket(types, spent, c) ==
  \A p \in wire' \ wire : p.type \in types /\ p.call = c =>
    /\ c \notin spent /\ ~Ticketed(types, c)
    /\ \A q \in wire' \ wire : q.type \in types /\ q.call = c => q = p

LEMMA FirstRefusal ==
  ASSUME TraceInv, [CallsNext]_allVars, NEW c \in CallIds, NEW R, Refused(R, c)
  PROVE  FirstTicket(Refusals, R, c)
<1> SUFFICES ASSUME NEW p \in wire' \ wire, p.type \in Refusals, p.call = c
             PROVE  /\ c \notin R /\ ~Ticketed(Refusals, c)
                    /\ \A q \in wire' \ wire : q.type \in Refusals /\ q.call = c => q = p
  BY DEF FirstTicket
<1>1. Safe /\ Once(c) /\ PeerStep
  BY StepKinds, PeersKept DEF TraceInv, Safe, Types, WorkerStep, netVars
<1>2. ASSUME NEW q \in wire' \ wire, q.type \in Refusals, q.call = c
      PROVE  /\ q = Response(q.type, c, Callee[c])
             /\ \/ q.type = "603" /\ pending[Callee[c]] = c
                \/ q.type = "486" /\ ~Heard(c)
  <2>1. Occasion(q)
    BY <1>1, SentPacket DEF Safe, OriginInv
  <2>2. q.type \in AnswerTypes
    BY <1>2 DEF Refusals, AnswerTypes
  <2>3. q.type = "486" => InviteOut(c)
    BY <1>2, <2>1 DEF Occasion, InviteOut
  <2> QED BY <1>1, <1>2, <2>1, <2>2, <2>3 DEF Occasion, Genuine, Refusals, Once
<1>3. pending[Callee[c]] = c => Heard(c)
  BY <1>1 DEF Safe, OriginInv, PeerInv, Heard
<1>4. c \notin R /\ ~Ticketed(Refusals, c)
  BY <1>2 DEF Refused, Left, Heard
<1> QED BY <1>2, <1>3, <1>4

LEMMA FirstFarewell ==
  ASSUME TraceInv, [CallsNext]_allVars, NEW c \in CallIds, NEW B, Parted(B, c)
  PROVE  FirstTicket(Farewells, B, c)
<1> SUFFICES ASSUME NEW p \in wire' \ wire, p.type = "200_BYE", p.call = c
             PROVE  /\ c \notin B /\ ~Ticketed(Farewells, c)
                    /\ \A q \in wire' \ wire : q.type = "200_BYE" /\ q.call = c => q = p
  BY DEF FirstTicket, Farewells
<1>1. Safe /\ Ended(c) /\ PeerStep
  BY StepKinds, PeersKept DEF TraceInv, Safe, Types, WorkerStep, netVars
<1>2. ASSUME NEW q \in wire' \ wire, q.type = "200_BYE", q.call = c
      PROVE  \E u \in Party(c) :
               /\ q = Response("200_BYE", c, u) /\ Active(c, u)
               /\ Left(c, Other(c, u))
  <2>1. Occasion(q)
    BY <1>1, SentPacket DEF Safe, OriginInv
  <2>2. PICK m \in outbox, u \in Party(c) :
             /\ Handles(u, m) /\ m.type = "BYE" /\ m.call = c
             /\ q = Response("200_BYE", c, u) /\ Active(c, u)
    BY <1>2, <2>1 DEF Occasion
  <2>3. Other(c, u) \in Party(c) /\ m.to = Home[Other(c, Other(c, u))]
    BY <2>2, Parties DEF Handles
  <2> QED BY <1>1, <2>2, <2>3 DEF Ended
<1>3. PICK u \in Party(c) : p = Response("200_BYE", c, u) /\ Active(c, u)
  BY <1>2
<1>4. c \notin B /\ ~Ticketed(Farewells, c)
  BY <1>1, <1>3 DEF Parted, Left, Ticketed, Farewells, Ended
<1>5. ASSUME NEW q \in wire' \ wire, q.type = "200_BYE", q.call = c PROVE q = p
  <2>1. PICK v \in Party(c) : q = Response("200_BYE", c, v) /\ Left(c, Other(c, v))
    BY <1>2, <1>5
  <2>2. u # Other(c, v)
    BY <1>3, <2>1 DEF Left
  <2>3. u = v
    BY <2>2, Parties
  <2> QED BY <1>3, <2>1, <2>3
<1> QED BY <1>4, <1>5

\* What a step makes of the workers that hold a ticket of c.
LEMMA HolderStep ==
  ASSUME Safe, NEW w \in Workers, WorkerStep(w), NEW c \in CallIds,
         NEW types, types \subseteq {"486", "603", "200_BYE"}
  PROVE  /\ \A v \in Workers : Holder(v, types, c)' => Holder(v, types, c)
         /\ \A v \in Workers : Holder(v, types, c)' /\ Unspent(v)' => Unspent(v)
         /\ Dec(w) => ~(Holder(w, types, c)' /\ Unspent(w)')
<1>1. /\ Proceed(w) /\ Busy(w)
      /\ \A v \in Workers : v # w => UNCHANGED <<pc[v], pkt[v]>>
      /\ pkt'[w] = pkt[w] \/ ~Busy(w)'
      /\ pc \in [Workers -> Steps]
  BY ProceedLocal DEF Safe, Types, WorkerStep, TypeOK
<1>2. \A v \in Workers : Holder(v, types, c)' => Holder(v, types, c)
  BY <1>1 DEF Holder, HandlesCall, Busy
<1>3. ASSUME Holder(w, types, c)', Unspent(w)'
      PROVE  Unspent(w) /\ ~Dec(w)
  <2>1. pkt'[w] = pkt[w] /\ pkt[w].type \in {"486", "603", "200_BYE"}
    BY <1>1, <1>3 DEF Holder, HandlesCall, Busy
  <2>2. pc'[w] \in {"ctxRead", "find", "event", "remove", "erase", "decCheck", "dec"}
    BY <1>3 DEF Unspent
  <2>3. pc'[w] = "erase" => pkt[w].type = "200_BYE"
    BY <1>3, <2>1 DEF Unspent
  <2>4. StepInv
    BY DEF Safe, Types
  <2> QED BY <1>1, <2>1, <2>2, <2>3, <2>4 DEF StepInv, InviteSteps, Unspent, Goto,
       Proceed, RegStore, RegCount, InvLookup, InvCreate, CreateSession,
       InvStore, InvEvent, InvCount, CtxRead, FindCall, SessionEvent, AckFind,
       AckCheck, StoreAnswer, RemoveCall, EraseContext, DecCheck, Dec, Send, Respond,
       Finish, AfterEvent, AfterDec
<1>4. \A v \in Workers : v # w => (Unspent(v)' <=> Unspent(v))
  BY <1>1 DEF Unspent
<1> QED BY <1>2, <1>3, <1>4

LEMMA OneTicketNext ==
  ASSUME TraceInv, NoDuplicates, [CallsNext]_allVars, NEW c \in CallIds,
         NEW types, types \subseteq {"486", "603", "200_BYE"},
         NEW S, NEW S1, c \in S1 <=> c \in S \/ TakenOff(types, c),
         OneTicket(types, S, c), FirstTicket(types, S, c)
  PROVE  OneTicket(types, S1, c)'
<1>1. Safe
  BY DEF TraceInv
<1>2. CASE PeerStep \/ LossStep \/ UNCHANGED allVars
  <2>1. UNCHANGED <<pc, pkt>>
    BY <1>2, RouterKept
  <2>2. c \in S1 <=> c \in S
    BY <1>1, <2>1, OneWorker DEF TakenOff
  <2>3. \A w \in Workers : /\ Holder(w, types, c)' <=> Holder(w, types, c)
                           /\ Unspent(w)' <=> Unspent(w)
    BY <2>1 DEF Holder, HandlesCall, Busy, Unspent
  <2>4. ASSUME NEW p \in wire', p.type \in types, p.call = c
        PROVE  /\ c \notin S
               /\ \A q \in wire' : q.type \in types /\ q.call = c => q = p
               /\ \A w \in Workers : ~Holder(w, types, c)
    <3>1. CASE \E q \in wire' \ wire : q.type \in types /\ q.call = c
      <4>1. c \notin S /\ ~Ticketed(types, c)
        BY <3>1 DEF FirstTicket
      <4>2. \A q \in wire : ~(q.type \in types /\ q.call = c)
        BY <4>1 DEF Ticketed, Abroad
      <4>3. \A w \in Workers : ~Holder(w, types, c)
        BY <4>1 DEF Ticketed, Abroad, Holder, HandlesCall
      <4> QED BY <2>4, <4>1, <4>2, <4>3 DEF FirstTicket
    <3>2. CASE ~ \E q \in wire' \ wire : q.type \in types /\ q.call = c
      BY <2>4, <3>2 DEF OneTicket
    <3> QED BY <3>1, <3>2
  <2> QED BY <2>2, <2>3, <2>4 DEF OneTicket
<1>3. ASSUME NEW w \in Workers, NEW p \in wire, TakeStep(w, p)
      PROVE  OneTicket(types, S1, c)'
  <2>1. Receive(w, p) /\ wire' = wire \ {p}
    BY <1>1, <1>3, TakenOnce DEF Safe
  <2>2. /\ ~Busy(w) /\ pkt'[w] = IF FirstStep(p) = "idle" THEN NoPacket ELSE p
        /\ pc'[w] = FirstStep(p)
        /\ \A v \in Workers : v # w => UNCHANGED <<pc[v], pkt[v]>>
    BY <1>1, <2>1, ReceiveLocal DEF Safe, Types
  <2>3. c \in S1 <=> c \in S
    <3>1. ASSUME NEW u \in Workers, Dec(u) PROVE FALSE
      BY <1>1, <2>2, <3>1, OneWorker DEF Dec, Busy
    <3> QED BY <3>1 DEF TakenOff
  <2>4. \A v \in Workers : v # w => /\ Holder(v, types, c)' <=> Holder(v, types, c)
                                    /\ Unspent(v)' <=> Unspent(v)
    BY <2>2 DEF Holder, HandlesCall, Busy, Unspent
  <2>5. ~Holder(w, types, c)
    BY <2>2 DEF Holder, HandlesCall
  <2>6. Holder(w, types, c)' => p.type \in types /\ p.call = c
    BY <2>2 DEF Holder, HandlesCall, Busy
  <2>7. CASE p.type \in types /\ p.call = c
    <3>1. /\ c \notin S
          /\ \A q \in wire' : ~(q.type \in types /\ q.call = c)
          /\ \A v \in Workers : ~Holder(v, types, c)
      BY <2>1, <2>7 DEF OneTicket
    <3> QED BY <2>3, <2>4, <3>1 DEF OneTicket
  <2>8. CASE ~(p.type \in types /\ p.call = c)
    <3>1. \A v \in Workers : Holder(v, types, c)' => Holder(v, types, c) /\ v # w
      BY <2>4, <2>5, <2>6, <2>8
    <3>2. wire' \subseteq wire
      BY <2>1
    <3> QED BY <2>3, <2>4, <3>1, <3>2 DEF OneTicket
  <2> QED BY <2>7, <2>8
<1>4. ASSUME NEW w \in Workers, WorkerStep(w)
      PROVE  OneTicket(types, S1, c)'
  <2>1. wire' = wire
    BY <1>4 DEF WorkerStep, netVars
  <2>2. /\ \A v \in Workers : Holder(v, types, c)' => Holder(v, types, c)
        /\ \A v \in Workers : Holder(v, types, c)' /\ Unspent(v)' => Unspent(v)
        /\ Dec(w) => ~(Holder(w, types, c)' /\ Unspent(w)')
    BY <1>1, <1>4, HolderStep
  <2>3. TakenOff(types, c) => Dec(w) /\ Holder(w, types, c)
    BY <1>1, <1>4, OneWorker DEF TakenOff
  <2>4. CASE TakenOff(types, c)
    <3>1. /\ \A v \in Workers : Holder(v, types, c) => v = w
          /\ \A p \in wire : ~(p.type \in types /\ p.call = c)
      BY <2>3, <2>4 DEF OneTicket
    <3>2. \A v \in Workers : Holder(v, types, c)' => ~Unspent(v)'
      BY <2>2, <2>3, <2>4, <3>1
    <3>3. \A u, v \in Workers : Holder(u, types, c)' /\ Holder(v, types, c)' => u = v
      BY <2>2, <3>1
    <3> QED BY <2>1, <3>1, <3>2, <3>3 DEF OneTicket
  <2>5. CASE ~TakenOff(types, c)
    BY <2>1, <2>2, <2>5 DEF OneTicket
  <2> QED BY <2>4, <2>5
<1> QED BY <1>2, <1>3, <1>4, StepKinds

LEMMA BalanceNext ==
  ASSUME TraceInv, [CallsNext]_allVars,
         NEW K, NEW R, NEW B, NEW P, Ledger(K, R, B, P), NEW K1, NEW R1, NEW B1,
         \A c : c \in K1 <=> c \in K \/ (c \in CallIds /\ CountsNow(c)),
         \A c : c \in R1 <=> c \in R \/ (c \in CallIds /\ TakenOff(Refusals, c)),
         \A c : c \in B1 <=> c \in B \/ (c \in CallIds /\ TakenOff(Farewells, c))
  PROVE  Balance(K1, R1, B1)'
<1>1. /\ IsFiniteSet(K) /\ K \subseteq CallIds /\ R \subseteq K /\ B \subseteq K
      /\ IsFiniteSet(R) /\ IsFiniteSet(B)
      /\ activeCalls = Cardinality(K) - Cardinality(R) - Cardinality(B)
      /\ Cardinality(K) \in Nat /\ Cardinality(R) \in Nat /\ Cardinality(B) \in Nat
      /\ Safe
  BY FS_Subset, FS_CardinalityType DEF Ledger, Balance, TraceInv
<1>2. CASE activeCalls' = activeCalls /\ \A w \in Workers : ~InvCount(w) /\ ~Dec(w)
  <2>1. K1 = K /\ R1 = R /\ B1 = B
    BY <1>2 DEF CountsNow, TakenOff
  <2> QED BY <1>1, <1>2, <2>1 DEF Balance
<1>3. ASSUME NEW w \in Workers, WorkerStep(w), InvCount(w) \/ Dec(w)
      PROVE  Balance(K1, R1, B1)'
  <2>1. PICK c \in CallIds : c = pkt[w].call /\ HandlesCall(w, c) /\ pkt[w] \in Abroad
    BY <1>1, <1>3, AbroadType DEF InvCount, Dec, HandlesCall, Busy, Safe, Packet
  <2>2. \A v \in Workers : WorkerStep(v) => v = w
    BY <1>1, <1>3, OneWorker
  <2>3. CASE InvCount(w)
    <3>1. ~Dec(w) /\ activeCalls' = activeCalls + 1 /\ Inviting(w, c)
      BY <1>1, <2>1, <2>3 DEF InvCount, Dec, Inviting, Safe, Types, StepInv, InviteSteps
    <3>2. K1 = K \cup {c} /\ R1 = R /\ B1 = B
      <4>1. /\ \A d : d \in CallIds /\ CountsNow(d) <=> d = c
            /\ \A d : ~TakenOff(Refusals, d) /\ ~TakenOff(Farewells, d)
        BY <1>3, <2>1, <2>2, <2>3, <3>1 DEF CountsNow, TakenOff
      <4>2. K1 = K \cup {c}
        BY <4>1
      <4>3. R1 = R
        BY <4>1
      <4>4. B1 = B
        BY <4>1
      <4> QED BY <4>2, <4>3, <4>4
    <3>3. c \notin K
      BY <2>1, <2>3, <3>1 DEF Ledger, Counted, InvCount, InviteSteps
    <3>4. IsFiniteSet(K1) /\ Cardinality(K1) = Cardinality(K) + 1
      BY <1>1, <3>2, <3>3, FS_AddElement
    <3>5. activeCalls' = Cardinality(K1) - Cardinality(R1) - Cardinality(B1)
      BY <1>1, <3>1, <3>2, <3>4
    <3>6. /\ IsFiniteSet(K1) /\ K1 \subseteq CallIds
          /\ R1 \subseteq K1 /\ B1 \subseteq K1
      BY <1>1, <3>2, <3>4
    <3> QED BY <3>5, <3>6 DEF Balance
  <2>4. CASE Dec(w) /\ pkt[w].type \in Refusals
    <3>1. /\ ~InvCount(w) /\ activeCalls' = activeCalls - 1
          /\ Holder(w, Refusals, c) /\ ~Holder(w, Farewells, c) /\ Unspent(w)
      BY <2>1, <2>4 DEF InvCount, Dec, Holder, Unspent, Refusals, Farewells
    <3>2. K1 = K /\ R1 = R \cup {c} /\ B1 = B
      <4>1. /\ \A d : d \in CallIds /\ TakenOff(Refusals, d) <=> d = c
            /\ \A d : ~TakenOff(Farewells, d) /\ ~CountsNow(d)
        <5>1. TakenOff(Refusals, c)
          BY <1>3, <2>4, <3>1 DEF TakenOff
        <5>2. \A d : /\ TakenOff(Refusals, d) => d = c
                    /\ ~TakenOff(Farewells, d) /\ ~CountsNow(d)
          BY <2>1, <2>2, <2>4, <3>1
             DEF CountsNow, TakenOff, Holder, HandlesCall, Farewells, Refusals
        <5> QED BY <5>1, <5>2
      <4>2. K1 = K
        BY <4>1
      <4>3. R1 = R \cup {c}
        BY <4>1
      <4>4. B1 = B
        BY <4>1
      <4> QED BY <4>2, <4>3, <4>4
    <3>3. c \notin R
      BY <2>1, <3>1 DEF Ledger, OneTicket
    <3>4. c \in K
      <4>1. Ticketed(Refusals, c)
        BY <2>1, <2>4 DEF Ticketed
      <4> QED BY <2>1, <4>1 DEF Ledger, Refused, Left, Counted, Heard
    <3>5. IsFiniteSet(R1) /\ Cardinality(R1) = Cardinality(R) + 1
      BY <1>1, <3>2, <3>3, FS_AddElement
    <3>6. activeCalls' = Cardinality(K1) - Cardinality(R1) - Cardinality(B1)
      BY <1>1, <3>1, <3>2, <3>4, <3>5
    <3>7. /\ IsFiniteSet(K1) /\ K1 \subseteq CallIds
          /\ R1 \subseteq K1 /\ B1 \subseteq K1
      BY <1>1, <3>2, <3>4, <3>5
    <3> QED BY <3>6, <3>7 DEF Balance
  <2>5. CASE Dec(w) /\ pkt[w].type \notin Refusals
    <3>1. /\ ~InvCount(w) /\ activeCalls' = activeCalls - 1 /\ pkt[w].type = "200_BYE"
          /\ Holder(w, Farewells, c) /\ ~Holder(w, Refusals, c) /\ Unspent(w)
      BY <1>1, <2>1, <2>5 DEF InvCount, Dec, Holder, Unspent, Refusals, Farewells,
         Safe, Types, StepInv
    <3>2. K1 = K /\ R1 = R /\ B1 = B \cup {c}
      <4>1. /\ \A d : d \in CallIds /\ TakenOff(Farewells, d) <=> d = c
            /\ \A d : ~TakenOff(Refusals, d) /\ ~CountsNow(d)
        <5>1. TakenOff(Farewells, c)
          BY <1>3, <2>5, <3>1 DEF TakenOff
        <5>2. \A d : /\ TakenOff(Farewells, d) => d = c
                    /\ ~TakenOff(Refusals, d) /\ ~CountsNow(d)
          BY <2>1, <2>2, <2>5, <3>1
             DEF CountsNow, TakenOff, Holder, HandlesCall, Farewells, Refusals
        <5> QED BY <5>1, <5>2
      <4>2. K1 = K
        BY <4>1
      <4>3. R1 = R
        BY <4>1
      <4>4. B1 = B \cup {c}
        BY <4>1
      <4> QED BY <4>2, <4>3, <4>4
    <3>3. c \notin B
      BY <2>1, <3>1 DEF Ledger, OneTicket
    <3>4. c \in K
      <4>1. Left(c, Callee[c])
        BY <2>1, <3>1 DEF TraceInv, Ended, Party
      <4> QED BY <2>1, <4>1 DEF Ledger, Left, Counted, Heard
    <3>5. IsFiniteSet(B1) /\ Cardinality(B1) = Cardinality(B) + 1
      BY <1>1, <3>2, <3>3, FS_AddElement
    <3>6. activeCalls' = Cardinality(K1) - Cardinality(R1) - Cardinality(B1)
      BY <1>1, <3>1, <3>2, <3>4, <3>5
    <3>7. /\ IsFiniteSet(K1) /\ K1 \subseteq CallIds
          /\ R1 \subseteq K1 /\ B1 \subseteq K1
      BY <1>1, <3>2, <3>4, <3>5
    <3> QED BY <3>6, <3>7 DEF Balance
  <2> QED BY <1>3, <2>3, <2>4, <2>5
<1> QED BY <1>1, <1>2, <1>3, GaugeSteps

\* A caller that answers while it is in a call of its own pays for that one.
PaysFor(c, P, g) ==
  IF P[c] = NoCall /\ \E u \in Users : Answer(u) /\ active[u] = c /\ pending[u] # c
  THEN \E u \in Users : Answer(u) /\ active[u] = c /\ pending[u] = g /\ g # c
  ELSE g = P[c]

LEMMA LedgerNext ==
  ASSUME TraceInv, NoDuplicates, [CallsNext]_allVars, GaugeInv
  PROVE  GaugeInv'
<1>1. PICK K, R, B, P : Ledger(K, R, B, P)
  BY DEF GaugeInv
<1>2. PICK K1 : K1 = K \cup {c \in CallIds : CountsNow(c)}
  OBVIOUS
<1>3. PICK R1 : R1 = R \cup {c \in CallIds : TakenOff(Refusals, c)}
  OBVIOUS
<1>4. PICK B1 : B1 = B \cup {c \in CallIds : TakenOff(Farewells, c)}
  OBVIOUS
<1>5. PICK P1 \in [CallIds -> CallIds \cup {NoCall}] :
           \A c \in CallIds : PaysFor(c, P, P1[c])
  <2> DEFINE Call == CallIds \cup {NoCall}
             Paying == [c \in CallIds |-> CHOOSE g \in Call : PaysFor(c, P, g)]
  <2>1. P \in [CallIds -> Call] /\ pending \in [Users -> Call]
    BY <1>1 DEF Ledger, TraceInv, Safe, Types, CallsTypeOK
  <2>2. \A c \in CallIds : \E g \in Call : PaysFor(c, P, g)
    BY <2>1 DEF PaysFor
  <2> HIDE DEF Call
  <2>3. Paying \in [CallIds -> Call] /\ \A c \in CallIds : PaysFor(c, P, Paying[c])
    BY <2>2
  <2> QED BY <2>3 DEF Call
<1>6. Safe /\ Book(R, B, P)
  BY <1>1 DEF Ledger, Book, TraceInv
<1>7. Growth(R, B, P, R1, B1, P1)
  <2>1. \A types, c : TakenOff(types, c) => Ticketed(types, c)
    BY DEF TakenOff, Holder, HandlesCall, Ticketed, Abroad
  <2>2. ASSUME NEW c \in CallIds
        PROVE  \/ P1[c] = P[c]
               \/ /\ P[c] = NoCall /\ P1[c] \in CallIds /\ P1[c] # c
                  /\ \E u \in Users : Answer(u) /\ active[u] = c /\ pending[u] = P1[c]
    BY <1>5 DEF PaysFor, Answer
  <2>3. ASSUME NEW u \in Users, NEW c \in CallIds, Answer(u), active[u] = c, pending[u] # c
        PROVE  P1[c] # NoCall
    BY <1>5, <2>3 DEF PaysFor, Answer
  <2> QED BY <1>3, <1>4, <2>1, <2>2, <2>3 DEF Growth
<1>8. Balance(K1, R1, B1)'
  BY <1>1, <1>2, <1>3, <1>4, BalanceNext
<1>9. Book(R1, B1, P1)'
  BY <1>5, <1>6, <1>7, BookNext
<1>10. ASSUME NEW c \in CallIds
       PROVE  /\ Counted(K1, c)'
              /\ OneTicket(Refusals, R1, c)' /\ OneTicket(Farewells, B1, c)'
  <2>1. /\ Counted(K, c) /\ Refused(R, c) /\ Parted(B, c)
        /\ OneTicket(Refusals, R, c) /\ OneTicket(Farewells, B, c)
    BY <1>1 DEF Ledger
  <2>2. Counted(K1, c)'
    BY <1>2, <2>1, CountedNext
  <2>3. OneTicket(Refusals, R1, c)'
    <3>1. Refusals \subseteq {"486", "603", "200_BYE"} /\ FirstTicket(Refusals, R, c)
      BY <2>1, FirstRefusal DEF Refusals
    <3> QED BY <1>3, <2>1, <3>1, OneTicketNext
  <2>4. OneTicket(Farewells, B1, c)'
    <3>1. Farewells \subseteq {"486", "603", "200_BYE"} /\ FirstTicket(Farewells, B, c)
      BY <2>1, FirstFarewell DEF Farewells
    <3> QED BY <1>4, <2>1, <3>1, OneTicketNext
  <2> QED BY <2>2, <2>3, <2>4
<1>11. Ledger(K1, R1, B1, P1)'
  BY <1>8, <1>9, <1>10 DEF Ledger, Book
<1> QED BY <1>11 DEF GaugeInv

LEMMA LedgerInitial == CallsInit => GaugeInv
<1> SUFFICES ASSUME CallsInit PROVE GaugeInv
  OBVIOUS
<1> DEFINE P == [c \in CallIds |-> NoCall]
<1>1. /\ Abroad = {} /\ outbox = {} /\ joined = {} /\ wire = {}
      /\ \A w \in Workers : ~Busy(w)
      /\ \A c \in CallIds : sessions[c] = <<>>
      /\ \A u \in Users : active[u] = NoCall
      /\ activeCalls = 0
  BY CallsInitial DEF CallsInit, Init
<1>2. Balance({}, {}, {})
  BY <1>1, FS_EmptySet DEF Balance
<1>3. ASSUME NEW c \in CallIds
      PROVE  /\ Counted({}, c) /\ OneTicket(Refusals, {}, c) /\ OneTicket(Farewells, {}, c)
             /\ Refused({}, c) /\ Parted({}, c)
  BY <1>1 DEF Counted, InviteOut, Heard, Inviting, OneTicket, Holder, HandlesCall,
     Refused, Parted, Ticketed
<1>4. ASSUME NEW c \in CallIds PROVE Hanging({}, {}, P, c)
  BY <1>1, Parties DEF Hanging, Active, Party
<1>5. \A c \in CallIds : Paid({}, {}, P, c)
  BY DEF Paid
<1>6. P \in [CallIds -> CallIds \cup {NoCall}]
  OBVIOUS
<1> HIDE DEF P
<1> QED BY <1>2, <1>3, <1>4, <1>5, <1>6 DEF GaugeInv, Ledger

\* SIP_active_calls never shows fewer calls than callees that are ringing or
\* talking, for any number of workers and calls and in whatever order the
\* responses that decrement it are handled (sip_router.cpp:228, 425, 443, 453),
\* though the call of a caller that was refused and hangs up is decremented
\* twice.
THEOREM GaugeIsNeverShort ==
  ASSUME NoDuplicates PROVE CallsSpec => []GaugeCoversLiveCalls
<1>1. CallsInit => TraceInv /\ GaugeInv
  BY TraceInitial, LedgerInitial
<1>2. TraceInv /\ GaugeInv /\ [CallsNext]_allVars => TraceInv' /\ GaugeInv'
  BY TraceNext, LedgerNext
<1>3. TraceInv /\ GaugeInv => GaugeCoversLiveCalls
  BY LedgerCovers DEF GaugeInv
<1> QED BY <1>1, <1>2, <1>3, PTL DEF CallsSpec
=============================================================================
