--------------------------- MODULE ThreadSafeQueue ---------------------------
(***************************************************************************)
(* common/include/common/thread_safe_queue.hpp: a FIFO queue of unbounded   *)
(* length with a condition variable.  Every method holds the mutex, so each *)
(* is one step, save pop, which gives the mutex up while it waits: there it *)
(* is Wait, then a notification or a spurious Wake, then another try.       *)
(***************************************************************************)
EXTENDS Naturals, Sequences, FiniteSets

CONSTANTS Items, Consumers

VARIABLES
  queue,     \* queue_
  waiting,   \* the consumers blocked on condition
  stopped

queueVars == <<queue, waiting, stopped>>

QueueTypeOK ==
  /\ queue \in Seq(Items)
  /\ waiting \subseteq Consumers
  /\ stopped \in BOOLEAN

QueueInit == queue = <<>> /\ waiting = {} /\ stopped = FALSE

\* notify_one: wakes some consumer, if one waits.
NotifyOne ==
  IF waiting = {} THEN UNCHANGED waiting
  ELSE \E t \in waiting : waiting' = waiting \ {t}

\* Mutated form of Push: nobody is notified.
SilentPush(item) ==
  queue' = Append(queue, item) /\ UNCHANGED <<waiting, stopped>>

Push(item) ==
  /\ queue' = Append(queue, item)
  /\ NotifyOne
  /\ UNCHANGED stopped

\* Mutated form of Front: the queue is a stack.
Back == queue[Len(queue)]

Front == Head(queue)

\* pop returns true and the front of the queue, stopped or not.
Pop(t) ==
  /\ t \notin waiting /\ queue # <<>>
  /\ queue' = Tail(queue)
  /\ UNCHANGED <<waiting, stopped>>

\* The predicate of condition.wait is false.
Wait(t) ==
  /\ t \notin waiting /\ queue = <<>> /\ ~stopped
  /\ waiting' = waiting \cup {t}
  /\ UNCHANGED <<queue, stopped>>

\* A condition variable may wake up without a notification.
Wake(t) ==
  /\ t \in waiting
  /\ waiting' = waiting \ {t}
  /\ UNCHANGED <<queue, stopped>>

\* Mutated form of Closed: a stopped queue is not drained.
ClosedAtOnce(t) == t \notin waiting /\ stopped

\* pop returns false.
Closed(t) == t \notin waiting /\ queue = <<>> /\ stopped

\* Mutated form of Stop: notify_one in the place of notify_all.
StopOne ==
  /\ stopped' = TRUE
  /\ NotifyOne
  /\ UNCHANGED queue

\* stop() wakes every consumer.
Stop ==
  /\ stopped' = TRUE
  /\ waiting' = {}
  /\ UNCHANGED queue
=============================================================================
