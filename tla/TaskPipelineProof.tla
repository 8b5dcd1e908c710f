-------------------------- MODULE TaskPipelineProof --------------------------
(***************************************************************************)
(* TaskPipeline implements PacketService for any packets and workers, with  *)
(* or without TCP: every packet that was accepted is handled, once, before  *)
(* SIPProxy::stop returns.                                                  *)
(***************************************************************************)
EXTENDS TaskPipeline, SequenceTheorems, FiniteSetTheorems, TLAPS

(***************************************************************************)
(* The inductive invariant.                                                 *)
(***************************************************************************)

After(s) == CASE s = "joinTcp"        -> Stages \ {"serving", "joinUdp"}
              [] s = "stopQueue"      -> Stages \ {"serving", "joinUdp", "joinTcp"}
              [] s = "joinDispatcher" -> {"joinDispatcher", "poolOff", "stopTasks", "joinWorkers", "stopped"}
              [] s = "poolOff"        -> {"poolOff", "stopTasks", "joinWorkers", "stopped"}
              [] s = "stopTasks"      -> {"stopTasks", "joinWorkers", "stopped"}
              [] s = "joinWorkers"    -> {"joinWorkers", "stopped"}

\* Each part is taken down only when nothing can reach it any more.
StageInv ==
  /\ stage \in After("joinTcp") => receiver["udp"] = "ended"
  /\ stage \in After("stopQueue") => receiver["tcp"] = "ended"
  /\ packetsStopped => stage \in After("joinDispatcher")
  /\ dispatcher = "ended" => packetsStopped /\ packets = <<>>
  /\ stage \in After("poolOff") => dispatcher = "ended"
  /\ ~poolRunning => stage \in After("stopTasks")
  /\ tasksStopped => stage \in After("joinWorkers")
  /\ \A w \in Workers : worker[w] = "ended" => tasksStopped /\ tasks = <<>>
  /\ stage = "stopped" => \A w \in Workers : worker[w] = "ended"

\* The packets received are distinct.
Distinct ==
  \A i, j \in 1..Len(received) : received[i] = received[j] => i = j

\* What workers took is what they handled and what they are handling; no two
\* handle the same packet, and none handles one again.
WorkInv ==
  /\ handled \subseteq Elements(taken)
  /\ \A w \in Workers : worker[w] = "task" => work[w] \in Elements(taken) \ handled
  /\ \A p \in Elements(taken) \ handled :
       \E w \in Workers : worker[w] = "task" /\ work[w] = p
  /\ \A v, w \in Workers :
       worker[v] = "task" /\ worker[w] = "task" /\ work[v] = work[w] => v = w

PipelineInv == TypeOK /\ InOrder /\ StageInv /\ Distinct /\ WorkInv

(***************************************************************************)
(* Sequences.                                                               *)
(***************************************************************************)

\* A sequence is its head and then its tail.
LEMMA HeadThenTail ==
  ASSUME NEW S, NEW s \in Seq(S), s # <<>>
  PROVE  <<Head(s)>> \o Tail(s) = s
<1>1. Len(s) \in Nat \ {0}
  BY EmptySeq
<1>2. 1 \in 1..Len(s) /\ Len(s) \in 1..Len(s)
  BY <1>1
<1>3. SubSeq(s, 1, Len(s)) = <<s[1]>> \o SubSeq(s, 2, Len(s))
  BY <1>2, SubSeqRecursiveFirst
<1>4. SubSeq(s, 1, Len(s)) = s
  BY SubSeqFull
<1>5. Tail(s) = SubSeq(s, 2, Len(s))
  BY TailIsSubSeq
<1>6. Head(s) = s[1]
  BY <1>1
<1> QED BY <1>3, <1>4, <1>5, <1>6

\* What is appended to the last part of a sequence is appended to the whole.
LEMMA AppendToLast ==
  ASSUME NEW S, NEW s \in Seq(S), NEW t \in Seq(S), NEW e \in S
  PROVE  s \o Append(t, e) = Append(s \o t, e)
<1>1. <<e>> \in Seq(S)
  OBVIOUS
<1>2. s \o t \in Seq(S)
  BY ConcatProperties
<1>3. Append(t, e) = t \o <<e>> /\ Append(s \o t, e) = (s \o t) \o <<e>>
  BY <1>2, AppendIsConcat
<1> QED BY <1>1, <1>3, ConcatAssociative

\* An element may move from the head of one part to the end of the one before.
LEMMA MoveHead ==
  ASSUME NEW S, NEW s \in Seq(S), NEW t \in Seq(S), t # <<>>
  PROVE  Append(s, Head(t)) \o Tail(t) = s \o t
<1>1. Head(t) \in S /\ Tail(t) \in Seq(S)
  BY HeadTailProperties
<1>2. <<Head(t)>> \in Seq(S)
  BY <1>1
<1>3. Append(s, Head(t)) = s \o <<Head(t)>>
  BY <1>1, AppendIsConcat
<1>4. (s \o <<Head(t)>>) \o Tail(t) = s \o (<<Head(t)>> \o Tail(t))
  BY <1>1, <1>2, ConcatAssociative
<1> QED BY <1>3, <1>4, HeadThenTail

LEMMA ElementsOfAppend ==
  ASSUME NEW S, NEW s \in Seq(S), NEW e \in S
  PROVE  Elements(Append(s, e)) = Elements(s) \cup {e}
<1>1. Len(s) \in Nat /\ Len(Append(s, e)) = Len(s) + 1
  BY LenProperties, AppendProperties
<1>2. \A i \in 1..Len(s) : Append(s, e)[i] = s[i]
  BY AppendProperties
<1>3. Append(s, e)[Len(s) + 1] = e
  BY AppendProperties
<1>4. 1..(Len(s) + 1) = (1..Len(s)) \cup {Len(s) + 1}
  BY <1>1
<1> QED BY <1>1, <1>2, <1>3, <1>4 DEF Elements

\* The elements of a part are elements of the whole, at places of their own.
LEMMA ElementsOfConcat ==
  ASSUME NEW S, NEW s \in Seq(S), NEW t \in Seq(S)
  PROVE  /\ \A i \in 1..Len(s) : i \in 1..Len(s \o t) /\ (s \o t)[i] = s[i]
         /\ \A i \in 1..Len(t) :
              Len(s) + i \in 1..Len(s \o t) /\ (s \o t)[Len(s) + i] = t[i]
         /\ Elements(s \o t) = Elements(s) \cup Elements(t)
<1>1. Len(s) \in Nat /\ Len(t) \in Nat /\ Len(s \o t) = Len(s) + Len(t)
  BY LenProperties, ConcatProperties
<1>2. \A i \in 1..(Len(s) + Len(t)) :
        (s \o t)[i] = IF i <= Len(s) THEN s[i] ELSE t[i - Len(s)]
  BY ConcatProperties
<1>3. \A i \in 1..Len(s) : i \in 1..Len(s \o t) /\ (s \o t)[i] = s[i]
  BY <1>1, <1>2
<1>4. ASSUME NEW i \in 1..Len(t)
      PROVE  Len(s) + i \in 1..Len(s \o t) /\ (s \o t)[Len(s) + i] = t[i]
  <2>1. Len(s) + i \in 1..(Len(s) + Len(t)) /\ ~(Len(s) + i <= Len(s))
    BY <1>1
  <2>2. (Len(s) + i) - Len(s) = i
    BY <1>1
  <2> QED BY <1>1, <1>2, <2>1, <2>2
<1>5. ASSUME NEW i \in 1..Len(s \o t)
      PROVE  \/ \E j \in 1..Len(s) : (s \o t)[i] = s[j]
             \/ \E j \in 1..Len(t) : (s \o t)[i] = t[j]
  <2>1. CASE i <= Len(s)
    <3>1. i \in 1..Len(s)
      BY <1>1, <2>1
    <3> QED BY <1>3, <3>1
  <2>2. CASE ~(i <= Len(s))
    <3>1. i - Len(s) \in 1..Len(t) /\ i \in 1..(Len(s) + Len(t))
      BY <1>1, <2>2
    <3> QED BY <1>2, <2>2, <3>1
  <2> QED BY <2>1, <2>2
<1> QED BY <1>3, <1>4, <1>5 DEF Elements

(***************************************************************************)
(* Types.                                                                   *)
(***************************************************************************)

\* The steps of the pipeline, one by one: a fact that each of them and a
\* stuttering step establish holds of [Next]_vars.
LEMMA NextCases ==
  ASSUME [Next]_vars
  PROVE  \/ \E r \in Receivers : \/ TestRunning(r) \/ ReceiveNothing(r)
                                 \/ \E p \in Packets : Arrive(r, p)
         \/ DispatcherPops \/ DispatcherSleeps \/ DispatcherEnds
         \/ EnqueueTest \/ EnqueuePush
         \/ \E w \in Workers : \/ WorkerPops(w) \/ WorkerSleeps(w)
                               \/ HandlePacket(w) \/ WorkerEnds(w)
         \/ SpuriousWake
         \/ StopUdp \/ StopTcp \/ JoinTransports \/ StopQueue \/ JoinDispatcher
         \/ PoolOff \/ StopTasks \/ JoinWorkers
         \/ UNCHANGED vars
BY DEF Next, ReceiverStep, DispatcherStep, WorkerStep, ShutdownStep, Exit

LEMMA TypeInit == Init => TypeOK
BY EmptySeq DEF Init, TypeOK, Receivers, Stages, PacketQueue!QueueInit, TaskQueue!QueueInit,
   PacketQueue!QueueTypeOK, TaskQueue!QueueTypeOK

\* What the methods of the two queues do to the types.
LEMMA PacketQueueType ==
  ASSUME PacketQueue!QueueTypeOK
  PROVE  /\ \A p \in Packets : PacketQueue!Push(p) => PacketQueue!QueueTypeOK'
         /\ PacketQueue!Pop(Dispatcher) =>
              PacketQueue!QueueTypeOK' /\ PacketQueue!Front \in Packets
         /\ PacketQueue!Wait(Dispatcher) => PacketQueue!QueueTypeOK'
         /\ PacketQueue!Wake(Dispatcher) => PacketQueue!QueueTypeOK'
         /\ PacketQueue!Stop => PacketQueue!QueueTypeOK'
         /\ UNCHANGED packetVars => PacketQueue!QueueTypeOK'
<1>1. ASSUME NEW p \in Packets, PacketQueue!Push(p) PROVE PacketQueue!QueueTypeOK'
  <2>1. packets' \in Seq(Packets)
    BY <1>1, AppendProperties DEF PacketQueue!QueueTypeOK, PacketQueue!Push
  <2>2. packetsWaiting' \subseteq packetsWaiting
    BY <1>1 DEF PacketQueue!Push, PacketQueue!NotifyOne
  <2> QED BY <1>1, <2>1, <2>2 DEF PacketQueue!QueueTypeOK, PacketQueue!Push
<1>2. ASSUME PacketQueue!Pop(Dispatcher)
      PROVE  PacketQueue!QueueTypeOK' /\ PacketQueue!Front \in Packets
  BY <1>2, HeadTailProperties DEF PacketQueue!QueueTypeOK, PacketQueue!Pop, PacketQueue!Front
<1> QED
  BY <1>1, <1>2 DEF PacketQueue!QueueTypeOK, PacketQueue!Wait, PacketQueue!Wake, PacketQueue!Stop, packetVars

LEMMA TaskQueueType ==
  ASSUME TaskQueue!QueueTypeOK
  PROVE  /\ \A p \in Packets : TaskQueue!Push(p) => TaskQueue!QueueTypeOK'
         /\ \A w \in Workers :
              /\ TaskQueue!Pop(w) => TaskQueue!QueueTypeOK' /\ TaskQueue!Front \in Packets
              /\ TaskQueue!Wait(w) => TaskQueue!QueueTypeOK'
              /\ TaskQueue!Wake(w) => TaskQueue!QueueTypeOK'
         /\ TaskQueue!Stop => TaskQueue!QueueTypeOK'
         /\ UNCHANGED taskVars => TaskQueue!QueueTypeOK'
<1>1. ASSUME NEW p \in Packets, TaskQueue!Push(p) PROVE TaskQueue!QueueTypeOK'
  <2>1. tasks' \in Seq(Packets)
    BY <1>1, AppendProperties DEF TaskQueue!QueueTypeOK, TaskQueue!Push
  <2>2. tasksWaiting' \subseteq tasksWaiting
    BY <1>1 DEF TaskQueue!Push, TaskQueue!NotifyOne
  <2> QED BY <1>1, <2>1, <2>2 DEF TaskQueue!QueueTypeOK, TaskQueue!Push
<1>2. ASSUME NEW w \in Workers, TaskQueue!Pop(w)
      PROVE  TaskQueue!QueueTypeOK' /\ TaskQueue!Front \in Packets
  BY <1>2, HeadTailProperties DEF TaskQueue!QueueTypeOK, TaskQueue!Pop, TaskQueue!Front
<1> QED
  BY <1>1, <1>2 DEF TaskQueue!QueueTypeOK, TaskQueue!Wait, TaskQueue!Wake, TaskQueue!Stop, taskVars

LEMMA TypeStep == TypeOK /\ [Next]_vars => TypeOK'
<1> SUFFICES ASSUME TypeOK, [Next]_vars PROVE TypeOK'
  OBVIOUS
<1> USE NoItemAssumption
    DEF TypeOK, Receivers, Stages, receiveVars, packetVars, dispatchVars, taskVars,
        workerVars, historyVars
<1>1. ASSUME NEW r \in Receivers, TestRunning(r) PROVE TypeOK'
  BY <1>1, PacketQueueType, TaskQueueType DEF TestRunning
<1>2. ASSUME NEW r \in Receivers, NEW p \in Packets, Arrive(r, p) PROVE TypeOK'
  BY <1>2, PacketQueueType, TaskQueueType, AppendProperties DEF Arrive
<1>3. ASSUME NEW r \in Receivers, ReceiveNothing(r) PROVE TypeOK'
  BY <1>3, PacketQueueType, TaskQueueType DEF ReceiveNothing
<1>4. ASSUME DispatcherPops PROVE TypeOK'
  BY <1>4, PacketQueueType, TaskQueueType DEF DispatcherPops
<1>5. ASSUME DispatcherSleeps PROVE TypeOK'
  BY <1>5, PacketQueueType, TaskQueueType DEF DispatcherSleeps
<1>6. ASSUME DispatcherEnds PROVE TypeOK'
  BY <1>6, PacketQueueType, TaskQueueType DEF DispatcherEnds
<1>7. ASSUME EnqueueTest PROVE TypeOK'
  BY <1>7, PacketQueueType, TaskQueueType DEF EnqueueTest
<1>8. ASSUME EnqueuePush PROVE TypeOK'
  BY <1>8, PacketQueueType, TaskQueueType DEF EnqueuePush
<1>9. ASSUME NEW w \in Workers, WorkerPops(w) PROVE TypeOK'
  BY <1>9, PacketQueueType, TaskQueueType, AppendProperties DEF WorkerPops
<1>10. ASSUME NEW w \in Workers, WorkerSleeps(w) PROVE TypeOK'
  BY <1>10, PacketQueueType, TaskQueueType DEF WorkerSleeps
<1>11. ASSUME NEW w \in Workers, HandlePacket(w) PROVE TypeOK'
  BY <1>11, PacketQueueType, TaskQueueType DEF HandlePacket
<1>12. ASSUME NEW w \in Workers, WorkerEnds(w) PROVE TypeOK'
  BY <1>12, PacketQueueType, TaskQueueType DEF WorkerEnds
<1>13. ASSUME SpuriousWake PROVE TypeOK'
  BY <1>13, PacketQueueType, TaskQueueType DEF SpuriousWake
<1>14. ASSUME StopUdp PROVE TypeOK'
  BY <1>14, PacketQueueType, TaskQueueType DEF StopUdp
<1>15. ASSUME StopTcp PROVE TypeOK'
  BY <1>15, PacketQueueType, TaskQueueType DEF StopTcp
<1>16. ASSUME JoinTransports PROVE TypeOK'
  BY <1>16, PacketQueueType, TaskQueueType DEF JoinTransports
<1>17. ASSUME StopQueue PROVE TypeOK'
  BY <1>17, PacketQueueType, TaskQueueType DEF StopQueue
<1>18. ASSUME JoinDispatcher PROVE TypeOK'
  BY <1>18, PacketQueueType, TaskQueueType DEF JoinDispatcher
<1>19. ASSUME PoolOff PROVE TypeOK'
  BY <1>19, PacketQueueType, TaskQueueType DEF PoolOff
<1>20. ASSUME StopTasks PROVE TypeOK'
  BY <1>20, PacketQueueType, TaskQueueType DEF StopTasks
<1>21. ASSUME JoinWorkers PROVE TypeOK'
  BY <1>21, PacketQueueType, TaskQueueType DEF JoinWorkers
<1>22. CASE UNCHANGED vars
  BY <1>22, PacketQueueType, TaskQueueType DEF vars
<1> QED
  BY NextCases, <1>1, <1>2, <1>3, <1>4, <1>5, <1>6, <1>7, <1>8, <1>9, <1>10, <1>11,
     <1>12, <1>13, <1>14, <1>15, <1>16, <1>17, <1>18, <1>19, <1>20, <1>21, <1>22

\* TypeOK is an inductive invariant.
THEOREM PipelineTypeCorrect == Spec => []TypeOK
BY TypeInit, TypeStep, PTL DEF Spec

(***************************************************************************)
(* Shutdown.                                                                *)
(***************************************************************************)

LEMMA StageInit == Init => StageInv
BY DEF Init, StageInv, After, Stages, PacketQueue!QueueInit, TaskQueue!QueueInit

LEMMA StageStep == TypeOK /\ StageInv /\ [Next]_vars => StageInv'
<1> SUFFICES ASSUME TypeOK, StageInv, [Next]_vars PROVE StageInv'
  OBVIOUS
<1> USE DEF TypeOK, StageInv, After, Stages, Receivers, receiveVars, packetVars,
            dispatchVars, taskVars, workerVars, historyVars
<1>1. ASSUME NEW r \in Receivers, TestRunning(r) PROVE StageInv'
  BY <1>1 DEF TestRunning
<1>2. ASSUME NEW r \in Receivers, NEW p \in Packets, Arrive(r, p) PROVE StageInv'
  BY <1>2 DEF Arrive, PacketQueue!Push
<1>3. ASSUME NEW r \in Receivers, ReceiveNothing(r) PROVE StageInv'
  BY <1>3 DEF ReceiveNothing
<1>4. ASSUME DispatcherPops PROVE StageInv'
  BY <1>4 DEF DispatcherPops, PacketQueue!Pop
<1>5. ASSUME DispatcherSleeps PROVE StageInv'
  BY <1>5 DEF DispatcherSleeps, PacketQueue!Wait
<1>6. ASSUME DispatcherEnds PROVE StageInv'
  BY <1>6 DEF DispatcherEnds, PacketQueue!Closed
<1>7. ASSUME EnqueueTest PROVE StageInv'
  BY <1>7 DEF EnqueueTest
<1>8. ASSUME EnqueuePush PROVE StageInv'
  BY <1>8 DEF EnqueuePush, TaskQueue!Push
<1>9. ASSUME NEW v \in Workers, WorkerPops(v) PROVE StageInv'
  BY <1>9 DEF WorkerPops, TaskQueue!Pop
<1>10. ASSUME NEW v \in Workers, WorkerSleeps(v) PROVE StageInv'
  BY <1>10 DEF WorkerSleeps, TaskQueue!Wait
<1>11. ASSUME NEW v \in Workers, HandlePacket(v) PROVE StageInv'
  BY <1>11 DEF HandlePacket
<1>12. ASSUME NEW v \in Workers, WorkerEnds(v) PROVE StageInv'
  BY <1>12 DEF WorkerEnds, TaskQueue!Closed
<1>13. ASSUME SpuriousWake PROVE StageInv'
  BY <1>13 DEF SpuriousWake, PacketQueue!Wake, TaskQueue!Wake
<1>14. ASSUME StopUdp PROVE StageInv'
  BY <1>14 DEF StopUdp
<1>15. ASSUME StopTcp PROVE StageInv'
  BY <1>15 DEF StopTcp
<1>16. ASSUME JoinTransports PROVE StageInv'
  BY <1>16 DEF JoinTransports
<1>17. ASSUME StopQueue PROVE StageInv'
  BY <1>17 DEF StopQueue, PacketQueue!Stop
<1>18. ASSUME JoinDispatcher PROVE StageInv'
  BY <1>18 DEF JoinDispatcher
<1>19. ASSUME PoolOff PROVE StageInv'
  BY <1>19 DEF PoolOff
<1>20. ASSUME StopTasks PROVE StageInv'
  BY <1>20 DEF StopTasks, TaskQueue!Stop
<1>21. ASSUME JoinWorkers PROVE StageInv'
  BY <1>21 DEF JoinWorkers
<1>22. CASE UNCHANGED vars
  BY <1>22 DEF vars
<1> QED
  BY NextCases, <1>1, <1>2, <1>3, <1>4, <1>5, <1>6, <1>7, <1>8, <1>9, <1>10, <1>11,
     <1>12, <1>13, <1>14, <1>15, <1>16, <1>17, <1>18, <1>19, <1>20, <1>21, <1>22

(***************************************************************************)
(* Order.                                                                   *)
(***************************************************************************)

LEMMA PartsType ==
  ASSUME TypeOK
  PROVE  /\ taken \in Seq(Packets) /\ tasks \in Seq(Packets) /\ packets \in Seq(Packets)
         /\ Holding \in Seq(Packets)
         /\ taken \o tasks \in Seq(Packets)
         /\ (taken \o tasks) \o Holding \in Seq(Packets)
<1>1. taken \in Seq(Packets) /\ tasks \in Seq(Packets) /\ packets \in Seq(Packets)
  BY DEF TypeOK, PacketQueue!QueueTypeOK, TaskQueue!QueueTypeOK
<1>2. Holding \in Seq(Packets)
  BY EmptySeq DEF TypeOK, Holding
<1> QED BY <1>1, <1>2, ConcatProperties

LEMMA OrderInit == Init => InOrder
BY ConcatEmptySeq, EmptySeq
   DEF Init, InOrder, Holding, PacketQueue!QueueInit, TaskQueue!QueueInit

\* A step that leaves every part alone leaves the order alone.
LEMMA OrderUnchanged ==
  ASSUME InOrder, UNCHANGED <<received, taken, tasks, held, packets>>
  PROVE  InOrder'
BY DEF InOrder, Holding

LEMMA OrderStep == TypeOK /\ StageInv /\ InOrder /\ [Next]_vars => InOrder'
<1> SUFFICES ASSUME TypeOK, StageInv, InOrder, [Next]_vars PROVE InOrder'
  OBVIOUS
<1> DEFINE passed == taken \o tasks
<1>a. /\ taken \in Seq(Packets) /\ tasks \in Seq(Packets) /\ packets \in Seq(Packets)
      /\ Holding \in Seq(Packets) /\ passed \in Seq(Packets)
      /\ passed \o Holding \in Seq(Packets)
  BY PartsType
<1>b. received = (passed \o Holding) \o packets
  BY DEF InOrder
<1>1. ASSUME NEW r \in Receivers, NEW p \in Packets, Arrive(r, p) PROVE InOrder'
  <2>1. received' = Append(received, p) /\ packets' = Append(packets, p)
    BY <1>1 DEF Arrive, PacketQueue!Push
  <2>2. (passed \o Holding) \o Append(packets, p) = Append((passed \o Holding) \o packets, p)
    BY <1>a, AppendToLast
  <2>3. UNCHANGED <<taken, tasks, held>>
    BY <1>1 DEF Arrive, dispatchVars, taskVars
  <2> QED BY <1>b, <2>1, <2>2, <2>3 DEF InOrder, Holding
<1>2. CASE DispatcherPops
  <2> DEFINE h == Head(packets)
  <2>1. packets # <<>> /\ packets' = Tail(packets) /\ held' = h
    BY <1>2 DEF DispatcherPops, PacketQueue!Pop, PacketQueue!Front
  <2>2. h \in Packets /\ h # NoItem
    BY <1>a, <2>1, HeadTailProperties, NoItemAssumption
  <2>3. Holding = <<>> /\ Holding' = <<h>>
    BY <1>2, <2>1, <2>2 DEF DispatcherPops, TypeOK, Holding
  <2>4. received = passed \o packets
    BY <1>a, <1>b, <2>3, ConcatEmptySeq
  <2>5. (passed \o <<h>>) \o Tail(packets) = passed \o packets
    BY <1>a, <2>1, <2>2, MoveHead, AppendIsConcat
  <2>6. UNCHANGED <<received, taken, tasks>>
    BY <1>2 DEF DispatcherPops, taskVars, historyVars
  <2> QED BY <2>1, <2>3, <2>4, <2>5, <2>6 DEF InOrder
<1>3. CASE EnqueueTest
  <2>1. poolRunning
    BY <1>3 DEF EnqueueTest, StageInv, After
  <2> QED
    BY <1>3, <2>1, OrderUnchanged DEF EnqueueTest, packetVars, taskVars, historyVars
<1>4. CASE EnqueuePush
  <2>1. held \in Packets /\ Holding = <<held>> /\ Holding' = <<>>
    BY <1>4, NoItemAssumption DEF EnqueuePush, TypeOK, Holding
  <2>2. tasks' = Append(tasks, held) /\ UNCHANGED <<received, taken, packets>>
    BY <1>4 DEF EnqueuePush, TaskQueue!Push, packetVars, historyVars
  <2>3. taken \o Append(tasks, held) = passed \o <<held>>
    BY <1>a, <2>1, AppendToLast, AppendIsConcat
  <2>4. (passed \o <<held>>) \o <<>> = passed \o <<held>>
    BY <1>a, <2>1, ConcatEmptySeq
  <2> QED BY <1>b, <2>1, <2>2, <2>3, <2>4 DEF InOrder
<1>5. ASSUME NEW w \in Workers, WorkerPops(w) PROVE InOrder'
  <2>1. tasks # <<>> /\ tasks' = Tail(tasks) /\ taken' = Append(taken, Head(tasks))
    BY <1>5 DEF WorkerPops, TaskQueue!Pop, TaskQueue!Front
  <2>2. Append(taken, Head(tasks)) \o Tail(tasks) = passed
    BY <1>a, <2>1, MoveHead
  <2>3. UNCHANGED <<received, held, packets>>
    BY <1>5 DEF WorkerPops, packetVars, dispatchVars
  <2> QED BY <1>b, <2>1, <2>2, <2>3 DEF InOrder, Holding
<1>6. ASSUME NEW r \in Receivers, TestRunning(r) \/ ReceiveNothing(r) PROVE InOrder'
  BY <1>6, OrderUnchanged DEF TestRunning, ReceiveNothing, packetVars, dispatchVars, taskVars, historyVars
<1>7. CASE DispatcherSleeps \/ DispatcherEnds
  BY <1>7, OrderUnchanged
     DEF DispatcherSleeps, DispatcherEnds, PacketQueue!Wait, packetVars, dispatchVars,
         taskVars, historyVars
<1>8. ASSUME NEW w \in Workers, WorkerSleeps(w) \/ HandlePacket(w) \/ WorkerEnds(w)
      PROVE  InOrder'
  BY <1>8, OrderUnchanged
     DEF WorkerSleeps, HandlePacket, WorkerEnds, TaskQueue!Wait, packetVars, dispatchVars,
         taskVars, historyVars
<1>9. CASE SpuriousWake
  BY <1>9, OrderUnchanged
     DEF SpuriousWake, PacketQueue!Wake, TaskQueue!Wake, packetVars, dispatchVars, taskVars,
         historyVars
<1>10. CASE StopUdp \/ StopTcp \/ JoinTransports \/ StopQueue \/ JoinDispatcher
            \/ PoolOff \/ StopTasks \/ JoinWorkers
  BY <1>10, OrderUnchanged
     DEF StopUdp, StopTcp, JoinTransports, StopQueue, JoinDispatcher, PoolOff, StopTasks,
         JoinWorkers, PacketQueue!Stop, TaskQueue!Stop, packetVars, dispatchVars, taskVars,
         historyVars
<1>11. CASE UNCHANGED vars
  BY <1>11, OrderUnchanged DEF vars, packetVars, dispatchVars, taskVars, historyVars
<1> QED
  BY NextCases, <1>1, <1>2, <1>3, <1>4, <1>5, <1>6, <1>7, <1>8, <1>9, <1>10, <1>11

\* No packet is lost, repeated or overtaken between the two queues: the pool is
\* never off while the dispatcher still has a packet to enqueue.
THEOREM PipelineInOrder == Spec => []InOrder
<1>1. TypeOK /\ StageInv /\ InOrder /\ [Next]_vars => (TypeOK /\ StageInv /\ InOrder)'
  BY TypeStep, StageStep, OrderStep
<1> QED BY <1>1, TypeInit, StageInit, OrderInit, PTL DEF Spec

(***************************************************************************)
(* Each packet once.                                                        *)
(***************************************************************************)

\* Only Arrive adds to what was received, and only what is new.
LEMMA OnlyArriveReceives ==
  ASSUME [Next]_vars
  PROVE  \/ UNCHANGED received
         \/ \E r \in Receivers, p \in Packets : Arrive(r, p)
BY NextCases
   DEF TestRunning, ReceiveNothing, DispatcherPops, DispatcherSleeps, DispatcherEnds,
       EnqueueTest, EnqueuePush, WorkerPops, WorkerSleeps, HandlePacket, WorkerEnds,
       SpuriousWake, StopUdp, StopTcp, JoinTransports, StopQueue, JoinDispatcher, PoolOff,
       StopTasks, JoinWorkers, vars, historyVars

LEMMA DistinctStep == TypeOK /\ Distinct /\ [Next]_vars => Distinct'
<1> SUFFICES ASSUME TypeOK, Distinct, [Next]_vars PROVE Distinct'
  OBVIOUS
<1>1. CASE UNCHANGED received
  BY <1>1 DEF Distinct
<1>2. ASSUME NEW r \in Receivers, NEW p \in Packets, Arrive(r, p) PROVE Distinct'
  <2>1. received \in Seq(Packets) /\ received' = Append(received, p)
    BY <1>2 DEF TypeOK, Arrive
  <2>2. /\ Len(received) \in Nat /\ Len(received') = Len(received) + 1
        /\ \A i \in 1..Len(received) : received'[i] = received[i]
        /\ received'[Len(received) + 1] = p
    BY <2>1, LenProperties, AppendProperties
  <2>3. \A i \in 1..Len(received) : received[i] # p
    BY <1>2 DEF Arrive, Elements
  <2>4. \A i \in 1..Len(received') : i \in 1..Len(received) \/ i = Len(received) + 1
    BY <2>2
  <2> QED BY <2>2, <2>3, <2>4 DEF Distinct
<1> QED BY <1>1, <1>2, OnlyArriveReceives

\* The next task was not taken before.
LEMMA NextTaskIsNew ==
  ASSUME TypeOK, InOrder, Distinct, tasks # <<>>
  PROVE  Head(tasks) \notin Elements(taken)
<1> DEFINE passed == taken \o tasks
           started == passed \o Holding
<1>1. /\ taken \in Seq(Packets) /\ tasks \in Seq(Packets) /\ packets \in Seq(Packets)
      /\ Holding \in Seq(Packets) /\ passed \in Seq(Packets) /\ started \in Seq(Packets)
  BY PartsType
<1>2. Len(taken) \in Nat /\ Len(tasks) \in Nat \ {0} /\ Head(tasks) = tasks[1]
  BY <1>1, LenProperties, EmptySeq
<1>3. ASSUME NEW i \in 1..Len(passed)
      PROVE  i \in 1..Len(received) /\ received[i] = passed[i]
  <2>1. i \in 1..Len(started) /\ started[i] = passed[i]
    BY <1>1, ElementsOfConcat
  <2>2. i \in 1..Len(started \o packets) /\ (started \o packets)[i] = started[i]
    BY <1>1, <2>1, ElementsOfConcat
  <2> QED BY <2>1, <2>2 DEF InOrder
<1>4. SUFFICES ASSUME NEW i \in 1..Len(taken), taken[i] = Head(tasks) PROVE FALSE
  BY DEF Elements
<1>5. i \in 1..Len(passed) /\ passed[i] = taken[i]
  BY <1>1, ElementsOfConcat
<1>6. 1 \in 1..Len(tasks)
  BY <1>2
<1>7. Len(taken) + 1 \in 1..Len(passed) /\ passed[Len(taken) + 1] = tasks[1]
  BY <1>1, <1>6, ElementsOfConcat
<1>8. i = Len(taken) + 1
  BY <1>2, <1>3, <1>4, <1>5, <1>7 DEF Distinct
<1> QED BY <1>2, <1>8

\* Only the pool's workers change what WorkInv speaks of.
LEMMA OnlyWorkersWork ==
  ASSUME [Next]_vars
  PROVE  \/ UNCHANGED <<worker, work, taken, handled>>
         \/ \E w \in Workers : WorkerPops(w) \/ HandlePacket(w) \/ WorkerEnds(w)
BY NextCases
   DEF TestRunning, Arrive, ReceiveNothing, DispatcherPops, DispatcherSleeps, DispatcherEnds,
       EnqueueTest, EnqueuePush, WorkerSleeps, SpuriousWake, StopUdp, StopTcp,
       JoinTransports, StopQueue, JoinDispatcher, PoolOff, StopTasks, JoinWorkers, vars,
       historyVars, workerVars

LEMMA WorkStep == TypeOK /\ InOrder /\ Distinct /\ WorkInv /\ [Next]_vars => WorkInv'
<1> SUFFICES ASSUME TypeOK, InOrder, Distinct, WorkInv, [Next]_vars PROVE WorkInv'
  OBVIOUS
<1>1. CASE UNCHANGED <<worker, work, taken, handled>>
  BY <1>1 DEF WorkInv
<1>2. ASSUME NEW w \in Workers, WorkerPops(w) PROVE WorkInv'
  <2> DEFINE h == Head(tasks)
  <2>1. tasks # <<>> /\ taken' = Append(taken, h) /\ UNCHANGED handled
    BY <1>2 DEF WorkerPops, TaskQueue!Pop, TaskQueue!Front
  <2>2. taken \in Seq(Packets) /\ h \in Packets
    BY <2>1, HeadTailProperties DEF TypeOK, TaskQueue!QueueTypeOK
  <2>3. Elements(taken') = Elements(taken) \cup {h}
    BY <2>1, <2>2, ElementsOfAppend
  <2>4. h \notin Elements(taken)
    BY <2>1, NextTaskIsNew
  <2>5. /\ worker[w] = "pop" /\ worker' = [worker EXCEPT ![w] = "task"]
        /\ work' = [work EXCEPT ![w] = h]
    BY <1>2 DEF WorkerPops, TaskQueue!Front
  <2>6. /\ worker'[w] = "task" /\ work'[w] = h
        /\ \A v \in Workers : v # w => worker'[v] = worker[v] /\ work'[v] = work[v]
    BY <2>5 DEF TypeOK
  <2> QED BY <2>1, <2>3, <2>4, <2>5, <2>6 DEF WorkInv
<1>3. ASSUME NEW w \in Workers, HandlePacket(w) PROVE WorkInv'
  <2>1. /\ worker[w] = "task" /\ handled' = handled \cup {work[w]} /\ UNCHANGED taken
        /\ worker'[w] = "pop"
        /\ \A v \in Workers : v # w => worker'[v] = worker[v] /\ work'[v] = work[v]
    BY <1>3 DEF HandlePacket, TypeOK
  <2> QED BY <2>1 DEF WorkInv
<1>4. ASSUME NEW w \in Workers, WorkerEnds(w) PROVE WorkInv'
  <2>1. /\ worker[w] = "pop" /\ worker'[w] = "ended" /\ UNCHANGED <<work, taken, handled>>
        /\ \A v \in Workers : v # w => worker'[v] = worker[v]
    BY <1>4 DEF WorkerEnds, TypeOK, historyVars
  <2> QED BY <2>1 DEF WorkInv
<1> QED BY <1>1, <1>2, <1>3, <1>4, OnlyWorkersWork

LEMMA PipelineInit == Init => PipelineInv
<1> SUFFICES ASSUME Init PROVE Distinct /\ WorkInv
  BY TypeInit, OrderInit, StageInit DEF PipelineInv
<1>1. Elements(<<>>) = {} /\ Len(<<>>) = 0
  BY EmptySeq DEF Elements
<1> QED BY <1>1 DEF Init, Distinct, WorkInv

LEMMA PipelineStep == PipelineInv /\ [Next]_vars => PipelineInv'
BY TypeStep, OrderStep, StageStep, DistinctStep, WorkStep DEF PipelineInv

(***************************************************************************)
(* Refinement.                                                              *)
(***************************************************************************)

LEMMA ServiceInitially == Init => Service!ServiceInit
<1>1. Elements(<<>>) = {}
  BY EmptySeq DEF Elements
<1> QED BY <1>1 DEF Init, Service!ServiceInit

\* A task handles a packet that was accepted, and that nobody has handled.
LEMMA HandleIsHandle ==
  ASSUME PipelineInv, NEW w \in Workers, HandlePacket(w)
  PROVE  Service!Handle(work[w])
<1>1. worker[w] = "task" /\ handled' = handled \cup {work[w]} /\ UNCHANGED <<stage, received>>
  BY DEF HandlePacket
<1>2. work[w] \in Elements(taken) \ handled
  BY <1>1 DEF PipelineInv, WorkInv
<1>3. Elements(taken) \subseteq Elements(received)
  <2> DEFINE passed == taken \o tasks
             started == passed \o Holding
  <2>1. /\ taken \in Seq(Packets) /\ tasks \in Seq(Packets) /\ packets \in Seq(Packets)
        /\ Holding \in Seq(Packets) /\ passed \in Seq(Packets) /\ started \in Seq(Packets)
    BY PartsType DEF PipelineInv
  <2> HIDE DEF passed, started
  <2>2. Elements(taken \o tasks) = Elements(taken) \cup Elements(tasks)
    BY <2>1, ElementsOfConcat
  <2>3. Elements(passed \o Holding) = Elements(passed) \cup Elements(Holding)
    BY <2>1, ElementsOfConcat
  <2>4. Elements(started \o packets) = Elements(started) \cup Elements(packets)
    BY <2>1, ElementsOfConcat
  <2>5. received = started \o packets
    BY DEF PipelineInv, InOrder, started, passed
  <2> QED BY <2>2, <2>3, <2>4, <2>5 DEF started, passed
<1>4. stage # "stopped"
  BY <1>1 DEF PipelineInv, StageInv
<1> QED BY <1>1, <1>2, <1>3, <1>4 DEF Service!Handle

\* When the last worker is joined, all that was accepted is handled.
LEMMA JoinIsClose ==
  ASSUME PipelineInv, JoinWorkers
  PROVE  Service!Close
<1>1. /\ stage = "joinWorkers" /\ stage' = "stopped" /\ UNCHANGED <<received, handled>>
      /\ \A w \in Workers : worker[w] = "ended"
  BY DEF JoinWorkers, historyVars
<1>2. dispatcher = "ended" /\ packets = <<>> /\ tasks = <<>>
  BY <1>1, WorkersAssumption DEF PipelineInv, StageInv, After
<1>3. Holding = <<>>
  BY <1>2 DEF PipelineInv, TypeOK, Holding
<1>4. received = taken
  <2>1. taken \in Seq(Packets)
    BY DEF PipelineInv, TypeOK
  <2> QED BY <1>2, <1>3, <2>1, ConcatEmptySeq DEF PipelineInv, InOrder
<1>5. Elements(taken) = handled
  BY <1>1 DEF PipelineInv, WorkInv
<1> QED BY <1>1, <1>4, <1>5 DEF Service!Close

LEMMA ArriveIsAccept ==
  ASSUME PipelineInv, NEW r \in Receivers, NEW p \in Packets, Arrive(r, p)
  PROVE  Service!Accept(p)
<1>1. /\ receiver[r] = "receiving" /\ p \notin Elements(received)
      /\ received' = Append(received, p) /\ UNCHANGED <<handled, stage>>
  BY DEF Arrive
<1>2. Elements(received') = Elements(received) \cup {p}
  BY <1>1, ElementsOfAppend DEF PipelineInv, TypeOK
<1>3. stage # "stopped"
  BY <1>1 DEF PipelineInv, StageInv, After, Stages, Receivers
<1> QED BY <1>1, <1>2, <1>3 DEF Service!Accept

\* Every other step leaves the service as it is.
LEMMA OtherStepsStutter ==
  ASSUME PipelineInv, [Next]_vars
  PROVE  \/ UNCHANGED Service!serviceVars
         \/ \E r \in Receivers, p \in Packets : Arrive(r, p)
         \/ \E w \in Workers : HandlePacket(w)
         \/ JoinWorkers
BY NextCases
   DEF TestRunning, ReceiveNothing, DispatcherPops, DispatcherSleeps, DispatcherEnds,
       EnqueueTest, EnqueuePush, WorkerPops, WorkerSleeps, WorkerEnds, SpuriousWake,
       StopUdp, StopTcp, JoinTransports, StopQueue, JoinDispatcher, PoolOff, StopTasks,
       vars, historyVars, Service!serviceVars

\* The threads of the proxy keep the promise of PacketService: each accepted
\* packet is handled at most once, and all of them before stop returns, however
\* the threads interleave and whenever stop is called.
THEOREM PipelineKeepsService == Spec => ServiceKept
<1>1. PipelineInv /\ [Next]_vars => [Service!ServiceNext]_Service!serviceVars
  <2> SUFFICES ASSUME PipelineInv, [Next]_vars
               PROVE  [Service!ServiceNext]_Service!serviceVars
    OBVIOUS
  <2>1. ASSUME NEW r \in Receivers, NEW p \in Packets, Arrive(r, p)
        PROVE  Service!ServiceNext
    BY <2>1, ArriveIsAccept DEF Service!ServiceNext
  <2>2. ASSUME NEW w \in Workers, HandlePacket(w) PROVE Service!ServiceNext
    <3>1. work[w] \in Packets
      BY <2>2 DEF HandlePacket, PipelineInv, TypeOK
    <3> QED BY <2>2, <3>1, HandleIsHandle DEF Service!ServiceNext
  <2>3. CASE JoinWorkers
    BY <2>3, JoinIsClose DEF Service!ServiceNext
  <2> QED BY <2>1, <2>2, <2>3, OtherStepsStutter
<1> QED
  BY <1>1, ServiceInitially, PipelineInit, PipelineStep, PTL
     DEF Spec, ServiceKept, Service!ServiceSpec

(***************************************************************************)
(* No lost wake-up.                                                         *)
(***************************************************************************)

\* Workers sleep in pop only.
SleepInv == \A w \in tasksWaiting : worker[w] = "pop"

AwakeInv == TypeOK /\ SleepInv /\ NoIdleWorker

LEMMA AwakeInit == Init => AwakeInv
BY TypeInit DEF Init, AwakeInv, SleepInv, NoIdleWorker, TaskQueue!QueueInit

\* More awake workers, or fewer tasks, cannot make a worker idle.
LEMMA StillAwake ==
  ASSUME NoIdleWorker, Trying \subseteq Trying', tasks \in Seq(Packets),
         tasksWaiting' \subseteq tasksWaiting, UNCHANGED tasks
  PROVE  NoIdleWorker'
<1>1. Trying' \subseteq Workers
  BY DEF Trying
<1>2. IsFiniteSet(Trying')
  BY <1>1, WorkersAssumption, FS_Subset
<1>3. /\ Cardinality(Trying) <= Cardinality(Trying')
      /\ Cardinality(Trying) \in Nat /\ Cardinality(Trying') \in Nat
  BY <1>2, FS_Subset, FS_CardinalityType
<1>4. Len(tasks) \in Nat
  BY LenProperties
<1> QED BY <1>3, <1>4 DEF NoIdleWorker

LEMMA AwakeStep == AwakeInv /\ [Next]_vars => AwakeInv'
<1> SUFFICES ASSUME AwakeInv, [Next]_vars PROVE (SleepInv /\ NoIdleWorker)'
  BY TypeStep DEF AwakeInv
<1>a. /\ tasks \in Seq(Packets) /\ tasksWaiting \subseteq Workers /\ Len(tasks) \in Nat
      /\ worker \in [Workers -> {"pop", "task", "ended"}]
  BY LenProperties DEF AwakeInv, TypeOK, TaskQueue!QueueTypeOK
<1>b. Trying \subseteq Workers /\ IsFiniteSet(Trying) /\ Cardinality(Trying) \in Nat
  BY WorkersAssumption, FS_Subset, FS_CardinalityType DEF Trying
<1>1. CASE UNCHANGED <<tasks, tasksWaiting, worker>>
  <2>1. Trying' = Trying
    BY <1>1 DEF Trying
  <2> QED BY <1>1, <1>a, <2>1, StillAwake DEF AwakeInv, SleepInv
<1>2. CASE EnqueuePush
  <2>1. tasks' = Append(tasks, held) /\ UNCHANGED worker
    BY <1>2 DEF EnqueuePush, TaskQueue!Push, workerVars
  <2>2. CASE tasksWaiting = {}
    <3>1. tasksWaiting' = {}
      BY <1>2, <2>2 DEF EnqueuePush, TaskQueue!Push, TaskQueue!NotifyOne
    <3> QED BY <3>1 DEF SleepInv, NoIdleWorker
  <2>3. CASE tasksWaiting # {}
    <3>1. PICK w \in tasksWaiting : tasksWaiting' = tasksWaiting \ {w}
      BY <1>2, <2>3 DEF EnqueuePush, TaskQueue!Push, TaskQueue!NotifyOne
    <3>2. Trying' = Trying \cup {w} /\ w \notin Trying
      BY <1>a, <2>1, <3>1 DEF Trying, AwakeInv, SleepInv
    <3>3. Cardinality(Trying') = Cardinality(Trying) + 1
      BY <1>b, <3>2, FS_AddElement
    <3>4. Len(tasks') = Len(tasks) + 1
      BY <1>2, <1>a, <2>1, AppendProperties, NoItemAssumption
         DEF EnqueuePush, AwakeInv, TypeOK
    <3>5. Len(tasks) <= Cardinality(Trying)
      BY <2>3 DEF AwakeInv, NoIdleWorker
    <3> QED BY <1>a, <1>b, <2>1, <3>1, <3>3, <3>4, <3>5 DEF SleepInv, AwakeInv, NoIdleWorker
  <2> QED BY <2>2, <2>3
<1>3. ASSUME NEW w \in Workers, WorkerPops(w) PROVE (SleepInv /\ NoIdleWorker)'
  <2>1. /\ worker[w] = "pop" /\ w \notin tasksWaiting /\ UNCHANGED tasksWaiting
        /\ tasks # <<>> /\ tasks' = Tail(tasks)
        /\ worker' = [worker EXCEPT ![w] = "task"]
    BY <1>3 DEF WorkerPops, TaskQueue!Pop
  <2>2. Trying' = Trying \ {w} /\ w \in Trying
    BY <1>a, <2>1 DEF Trying
  <2>3. Cardinality(Trying') = Cardinality(Trying) - 1
    BY <1>b, <2>2, FS_RemoveElement
  <2>4. Len(tasks') = Len(tasks) - 1
    BY <1>a, <2>1, HeadTailProperties
  <2>5. tasksWaiting # {} => Len(tasks) <= Cardinality(Trying)
    BY DEF AwakeInv, NoIdleWorker
  <2>6. NoIdleWorker'
    BY <1>a, <1>b, <2>1, <2>3, <2>4, <2>5 DEF NoIdleWorker
  <2> QED BY <1>a, <2>1, <2>6 DEF SleepInv, AwakeInv
<1>4. ASSUME NEW w \in Workers, WorkerSleeps(w) \/ WorkerEnds(w)
      PROVE  (SleepInv /\ NoIdleWorker)'
  <2>1. tasks = <<>> /\ UNCHANGED tasks /\ worker[w] = "pop" /\ w \notin tasksWaiting
    BY <1>4 DEF WorkerSleeps, WorkerEnds, TaskQueue!Wait, TaskQueue!Closed, taskVars
  <2>2. Trying' \subseteq Workers /\ IsFiniteSet(Trying') /\ Cardinality(Trying') \in Nat
    BY WorkersAssumption, FS_Subset, FS_CardinalityType DEF Trying
  <2>3. NoIdleWorker'
    BY <2>1, <2>2, EmptySeq DEF NoIdleWorker
  <2>4. \/ tasksWaiting' = tasksWaiting \cup {w} /\ UNCHANGED worker
        \/ UNCHANGED tasksWaiting /\ worker' = [worker EXCEPT ![w] = "ended"]
    BY <1>4 DEF WorkerSleeps, WorkerEnds, TaskQueue!Wait, workerVars, taskVars
  <2> QED BY <1>a, <2>1, <2>3, <2>4 DEF SleepInv, AwakeInv
<1>5. ASSUME NEW w \in Workers, HandlePacket(w) PROVE (SleepInv /\ NoIdleWorker)'
  <2>1. UNCHANGED <<tasks, tasksWaiting>> /\ worker' = [worker EXCEPT ![w] = "pop"]
    BY <1>5 DEF HandlePacket, taskVars
  <2>2. Trying \subseteq Trying'
    BY <1>a, <2>1 DEF Trying
  <2> QED BY <1>a, <2>1, <2>2, StillAwake DEF SleepInv, AwakeInv
<1>6. CASE SpuriousWake
  <2>1. UNCHANGED <<tasks, worker>> /\ tasksWaiting' \subseteq tasksWaiting
    BY <1>6 DEF SpuriousWake, TaskQueue!Wake, workerVars, taskVars
  <2>2. Trying \subseteq Trying'
    BY <2>1 DEF Trying
  <2> QED BY <1>a, <2>1, <2>2, StillAwake DEF SleepInv, AwakeInv
<1>7. CASE StopTasks
  BY <1>7 DEF StopTasks, TaskQueue!Stop, SleepInv, NoIdleWorker
<1>8. \/ UNCHANGED <<tasks, tasksWaiting, worker>>
      \/ EnqueuePush \/ SpuriousWake \/ StopTasks
      \/ \E w \in Workers : \/ WorkerPops(w) \/ WorkerSleeps(w)
                            \/ HandlePacket(w) \/ WorkerEnds(w)
  BY NextCases
     DEF TestRunning, Arrive, ReceiveNothing, DispatcherPops, DispatcherSleeps,
         DispatcherEnds, EnqueueTest, StopUdp, StopTcp, JoinTransports, StopQueue,
         JoinDispatcher, PoolOff, JoinWorkers, vars, taskVars, workerVars
<1> QED BY <1>1, <1>2, <1>3, <1>4, <1>5, <1>6, <1>7, <1>8

\* However many workers and tasks there are, waking one worker for each push
\* is enough: a worker sleeps only if the awake ones suffice for the queue.
THEOREM PoolNeverIdle == Spec => []NoIdleWorker
<1>1. AwakeInv => NoIdleWorker
  BY DEF AwakeInv
<1> QED BY <1>1, AwakeInit, AwakeStep, PTL DEF Spec
=============================================================================
