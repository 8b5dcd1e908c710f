------------------------------ MODULE CallLife ------------------------------
(***************************************************************************)
(* The life of a call, as its two parties and the proxy's operator see it:  *)
(* the caller is in it first, the callee hears of it only from the proxy,   *)
(* nobody comes back to a call that is over, and the proxy keeps one record *)
(* of it, which it opens once and closes when a party has left.             *)
(***************************************************************************)
CONSTANT Calls

VARIABLES
  caller, callee,  \* where each party is: not in the call yet, in it, or gone
  record           \* the proxy's record of the call

lifeVars == <<caller, callee, record>>

Place == {"out", "in", "left"}
Record == {"none", "open", "closed"}

LifeInit ==
  /\ caller = [c \in Calls |-> "out"]
  /\ callee = [c \in Calls |-> "out"]
  /\ record = [c \in Calls |-> "none"]

OnlyCaller(c) == UNCHANGED <<callee[c], record[c]>>
OnlyCallee(c) == UNCHANGED <<caller[c], record[c]>>
OnlyRecord(c) == UNCHANGED <<caller[c], callee[c]>>

Dialed(c) == caller[c] = "out" /\ caller'[c] = "in" /\ OnlyCaller(c)

Opened(c) ==
  /\ record[c] = "none" /\ caller[c] # "out"
  /\ record'[c] = "open" /\ OnlyRecord(c)

\* The callee's client rings, or turns the call down at once.
Offered(c) ==
  /\ callee[c] = "out" /\ record[c] # "none"
  /\ callee'[c] \in {"in", "left"} /\ OnlyCallee(c)

CallerLeft(c) == caller[c] = "in" /\ caller'[c] = "left" /\ OnlyCaller(c)
CalleeLeft(c) == callee[c] = "in" /\ callee'[c] = "left" /\ OnlyCallee(c)

Closed(c) ==
  /\ record[c] = "open" /\ "left" \in {caller[c], callee[c]}
  /\ record'[c] = "closed" /\ OnlyRecord(c)

Goes(c) ==
  \/ Dialed(c) \/ Opened(c) \/ Offered(c)
  \/ CallerLeft(c) \/ CalleeLeft(c) \/ Closed(c)

\* A user who enters one call may leave another by it, so calls may go on
\* together; of one call, one thing happens at a time.
LifeNext ==
  /\ caller' \in [Calls -> Place] /\ callee' \in [Calls -> Place]
  /\ record' \in [Calls -> Record]
  /\ \A c \in Calls : UNCHANGED <<caller[c], callee[c], record[c]>> \/ Goes(c)

LifeSpec == LifeInit /\ [][LifeNext]_lifeVars
=============================================================================
