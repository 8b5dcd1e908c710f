----------------------------- MODULE TaskPipeline -----------------------------
(***************************************************************************)
(* The way of a packet through the proxy's threads, and how SIPProxy::stop  *)
(* takes them down: the receive threads of the transports push to the       *)
(* dispatcher's queue, the dispatcher's thread moves packets to the queue   *)
(* of the pool, whose workers run handle_packet.  What handle_packet does   *)
(* is module ProxyRouter; here it is one step.                              *)
(***************************************************************************)
EXTENDS Naturals, Sequences, FiniteSets

CONSTANTS
  Packets,     \* what the network may send, each once
  Workers,     \* ThreadPool::workers
  TcpEnabled,  \* SIPProxy::tcp_enabled_
  NoItem       \* a thread holds no packet

ASSUME WorkersAssumption == Workers # {} /\ IsFiniteSet(Workers)
ASSUME TcpAssumption == TcpEnabled \in BOOLEAN
ASSUME NoItemAssumption == NoItem \notin Packets

Dispatcher == "dispatcher"
Receivers == {"udp", "tcp"}

VARIABLES
  receiver,         \* the receive thread of each transport (one TCP connection)
  running,          \* the transports whose running_ is set
  packets,          \* Dispatcher::queue
  packetsWaiting, packetsStopped,
  held,             \* the packet the dispatcher's thread has popped
  dispatcher,       \* where that thread is
  poolRunning,      \* ThreadPool::running
  tasks,            \* ThreadPool::taskQueue
  tasksWaiting, tasksStopped,
  worker,           \* where each worker is: in pop, in a task, or gone
  work,             \* the packet of each worker's task
  stage,            \* how far SIPProxy::stop is
  received,         \* history: the packets pushed, in order
  taken,            \* history: the packets workers popped, in order
  handled           \* history: the packets whose handler has returned

receiveVars  == <<receiver, running>>
packetVars   == <<packets, packetsWaiting, packetsStopped>>
dispatchVars == <<held, dispatcher>>
taskVars     == <<tasks, tasksWaiting, tasksStopped>>
workerVars   == <<worker, work>>
historyVars  == <<received, taken, handled>>
vars == <<receiveVars, packetVars, dispatchVars, poolRunning, taskVars,
          workerVars, stage, historyVars>>

PacketQueue == INSTANCE ThreadSafeQueue
  WITH Items <- Packets, Consumers <- {Dispatcher},
       queue <- packets, waiting <- packetsWaiting, stopped <- packetsStopped

TaskQueue == INSTANCE ThreadSafeQueue
  WITH Items <- Packets, Consumers <- Workers,
       queue <- tasks, waiting <- tasksWaiting, stopped <- tasksStopped

Elements(s) == {s[i] : i \in 1..Len(s)}

Stages == {"serving", "joinUdp", "joinTcp", "stopQueue", "joinDispatcher",
           "poolOff", "stopTasks", "joinWorkers", "stopped"}

\* start(): dispatcher, then transports; the pool runs since the constructor.
Init ==
  /\ receiver = [r \in Receivers |->
                   IF r = "tcp" /\ ~TcpEnabled THEN "ended" ELSE "loop"]
  /\ running = IF TcpEnabled THEN Receivers ELSE {"udp"}
  /\ PacketQueue!QueueInit
  /\ held = NoItem /\ dispatcher = "pop"
  /\ poolRunning = TRUE
  /\ TaskQueue!QueueInit
  /\ worker = [w \in Workers |-> "pop"]
  /\ work = [w \in Workers |-> NoItem]
  /\ stage = "serving"
  /\ received = <<>> /\ taken = <<>> /\ handled = {}

(***************************************************************************)
(* The receive threads: UdpTransport::receiveLoop, TcpTransport::receiveLoop *)
(***************************************************************************)

\* while (running_)
TestRunning(r) ==
  /\ receiver[r] = "loop"
  /\ receiver' = [receiver EXCEPT ![r] = IF r \in running THEN "receiving" ELSE "ended"]
  /\ UNCHANGED <<running, packetVars, dispatchVars, poolRunning, taskVars,
                 workerVars, stage, historyVars>>

\* recv returns a packet and the callback pushes it; a TCP read may hold more.
Arrive(r, p) ==
  /\ receiver[r] = "receiving" /\ p \notin Elements(received)
  /\ PacketQueue!Push(p)
  /\ received' = Append(received, p)
  /\ \/ receiver' = [receiver EXCEPT ![r] = "loop"]
     \/ r = "tcp" /\ UNCHANGED receiver
  /\ UNCHANGED <<running, dispatchVars, poolRunning, taskVars, workerVars,
                 stage, taken, handled>>

\* recv returns nothing: UDP polls again, TCP leaves the loop.
ReceiveNothing(r) ==
  /\ receiver[r] = "receiving"
  /\ receiver' = [receiver EXCEPT ![r] = IF r = "udp" THEN "loop" ELSE "ended"]
  /\ UNCHANGED <<running, packetVars, dispatchVars, poolRunning, taskVars,
                 workerVars, stage, historyVars>>

(***************************************************************************)
(* Dispatcher::loop                                                         *)
(***************************************************************************)

DispatcherPops ==
  /\ dispatcher = "pop"
  /\ PacketQueue!Pop(Dispatcher)
  /\ held' = PacketQueue!Front
  /\ dispatcher' = "test"
  /\ UNCHANGED <<receiveVars, poolRunning, taskVars, workerVars, stage, historyVars>>

DispatcherSleeps ==
  /\ dispatcher = "pop"
  /\ PacketQueue!Wait(Dispatcher)
  /\ UNCHANGED <<receiveVars, dispatchVars, poolRunning, taskVars, workerVars,
                 stage, historyVars>>

DispatcherEnds ==
  /\ dispatcher = "pop"
  /\ PacketQueue!Closed(Dispatcher)
  /\ dispatcher' = "ended"
  /\ UNCHANGED <<receiveVars, packetVars, held, poolRunning, taskVars,
                 workerVars, stage, historyVars>>

\* ThreadPool::enqueue tests running without a lock, and drops the task if the
\* pool is shut down.
EnqueueTest ==
  /\ dispatcher = "test"
  /\ IF poolRunning THEN dispatcher' = "push" /\ UNCHANGED held
                    ELSE dispatcher' = "pop" /\ held' = NoItem
  /\ UNCHANGED <<receiveVars, packetVars, poolRunning, taskVars, workerVars,
                 stage, historyVars>>

EnqueuePush ==
  /\ dispatcher = "push"
  /\ TaskQueue!Push(held)
  /\ dispatcher' = "pop" /\ held' = NoItem
  /\ UNCHANGED <<receiveVars, packetVars, poolRunning, workerVars, stage, historyVars>>

(***************************************************************************)
(* ThreadPool::workerLoop                                                   *)
(***************************************************************************)

WorkerPops(w) ==
  /\ worker[w] = "pop"
  /\ TaskQueue!Pop(w)
  /\ work' = [work EXCEPT ![w] = TaskQueue!Front]
  /\ worker' = [worker EXCEPT ![w] = "task"]
  /\ taken' = Append(taken, TaskQueue!Front)
  /\ UNCHANGED <<receiveVars, packetVars, dispatchVars, poolRunning, stage,
                 received, handled>>

WorkerSleeps(w) ==
  /\ worker[w] = "pop"
  /\ TaskQueue!Wait(w)
  /\ UNCHANGED <<receiveVars, packetVars, dispatchVars, poolRunning, workerVars,
                 stage, historyVars>>

\* The task returns from handle_packet.
HandlePacket(w) ==
  /\ worker[w] = "task"
  /\ handled' = handled \cup {work[w]}
  /\ worker' = [worker EXCEPT ![w] = "pop"]
  /\ work' = [work EXCEPT ![w] = NoItem]
  /\ UNCHANGED <<receiveVars, packetVars, dispatchVars, poolRunning, taskVars,
                 stage, received, taken>>

\* Mutated form of WorkerEnds: the result of pop is not looked at.
CarelessEnds(w) ==
  /\ worker[w] = "pop"
  /\ TaskQueue!Closed(w)
  /\ worker' = [worker EXCEPT ![w] = "task"]
  /\ UNCHANGED <<receiveVars, packetVars, dispatchVars, poolRunning, taskVars,
                 work, stage, historyVars>>

WorkerEnds(w) ==
  /\ worker[w] = "pop"
  /\ TaskQueue!Closed(w)
  /\ worker' = [worker EXCEPT ![w] = "ended"]
  /\ UNCHANGED <<receiveVars, packetVars, dispatchVars, poolRunning, taskVars,
                 work, stage, historyVars>>

\* A thread wakes up though nobody notified it.
SpuriousWake ==
  /\ \/ PacketQueue!Wake(Dispatcher) /\ UNCHANGED taskVars
     \/ (\E w \in Workers : TaskQueue!Wake(w)) /\ UNCHANGED packetVars
  /\ UNCHANGED <<receiveVars, dispatchVars, poolRunning, workerVars, stage, historyVars>>

(***************************************************************************)
(* SIPProxy::stop: each transport, the dispatcher and the pool in turn.     *)
(***************************************************************************)

StopUdp ==
  /\ stage = "serving" /\ stage' = "joinUdp"
  /\ running' = running \ {"udp"}
  /\ UNCHANGED <<receiver, packetVars, dispatchVars, poolRunning, taskVars,
                 workerVars, historyVars>>

StopTcp ==
  /\ stage = "joinUdp" /\ receiver["udp"] = "ended" /\ stage' = "joinTcp"
  /\ running' = running \ {"tcp"}
  /\ UNCHANGED <<receiver, packetVars, dispatchVars, poolRunning, taskVars,
                 workerVars, historyVars>>

\* Mutated form of JoinTransports: the TCP threads are not joined.
ForgetTransports ==
  /\ stage = "joinTcp" /\ stage' = "stopQueue"
  /\ UNCHANGED <<receiveVars, packetVars, dispatchVars, poolRunning, taskVars,
                 workerVars, historyVars>>

JoinTransports ==
  /\ stage = "joinTcp" /\ receiver["tcp"] = "ended" /\ stage' = "stopQueue"
  /\ UNCHANGED <<receiveVars, packetVars, dispatchVars, poolRunning, taskVars,
                 workerVars, historyVars>>

StopQueue ==
  /\ stage = "stopQueue" /\ stage' = "joinDispatcher"
  /\ PacketQueue!Stop
  /\ UNCHANGED <<receiveVars, dispatchVars, poolRunning, taskVars, workerVars,
                 historyVars>>

\* Mutated form of JoinDispatcher: the pool is shut down while it runs.
ForgetDispatcher ==
  /\ stage = "joinDispatcher" /\ stage' = "poolOff"
  /\ UNCHANGED <<receiveVars, packetVars, dispatchVars, poolRunning, taskVars,
                 workerVars, historyVars>>

JoinDispatcher ==
  /\ stage = "joinDispatcher" /\ dispatcher = "ended" /\ stage' = "poolOff"
  /\ UNCHANGED <<receiveVars, packetVars, dispatchVars, poolRunning, taskVars,
                 workerVars, historyVars>>

\* ThreadPool::shutdown
PoolOff ==
  /\ stage = "poolOff" /\ stage' = "stopTasks"
  /\ poolRunning' = FALSE
  /\ UNCHANGED <<receiveVars, packetVars, dispatchVars, taskVars, workerVars,
                 historyVars>>

StopTasks ==
  /\ stage = "stopTasks" /\ stage' = "joinWorkers"
  /\ TaskQueue!Stop
  /\ UNCHANGED <<receiveVars, packetVars, dispatchVars, poolRunning, workerVars,
                 historyVars>>

JoinWorkers ==
  /\ stage = "joinWorkers" /\ (\A w \in Workers : worker[w] = "ended")
  /\ stage' = "stopped"
  /\ UNCHANGED <<receiveVars, packetVars, dispatchVars, poolRunning, taskVars,
                 workerVars, historyVars>>

ReceiverStep(r) == TestRunning(r) \/ ReceiveNothing(r) \/ \E p \in Packets : Arrive(r, p)
DispatcherStep ==
  DispatcherPops \/ DispatcherSleeps \/ DispatcherEnds \/ EnqueueTest \/ EnqueuePush
WorkerStep(w) == WorkerPops(w) \/ WorkerSleeps(w) \/ HandlePacket(w) \/ WorkerEnds(w)
ShutdownStep ==
  StopTcp \/ JoinTransports \/ StopQueue \/ JoinDispatcher \/ PoolOff \/ StopTasks
  \/ JoinWorkers

\* The program ends here, as it should.
Exit == stage = "stopped" /\ UNCHANGED vars

Next ==
  \/ \E r \in Receivers : ReceiverStep(r)
  \/ DispatcherStep
  \/ \E w \in Workers : WorkerStep(w)
  \/ SpuriousWake
  \/ StopUdp \/ ShutdownStep
  \/ Exit

Spec == Init /\ [][Next]_vars

\* Every thread keeps running; nobody need call stop, no packet need come, a
\* recv of a TCP connection need not return and no wake-up comes unasked.
Fairness ==
  /\ WF_vars(TestRunning("udp") \/ ReceiveNothing("udp"))
  /\ WF_vars(TestRunning("tcp"))
  /\ WF_vars(DispatcherStep)
  /\ \A w \in Workers : WF_vars(WorkerStep(w))
  /\ WF_vars(ShutdownStep)

FairSpec == Spec /\ Fairness

(***************************************************************************)
(* What makes the pipeline correct.                                         *)
(***************************************************************************)

\* Every variable has its type; a thread holds a packet exactly in the states
\* where it has popped one.
TypeOK ==
  /\ receiver \in [Receivers -> {"loop", "receiving", "ended"}]
  /\ running \subseteq Receivers
  /\ PacketQueue!QueueTypeOK
  /\ held \in Packets \cup {NoItem}
  /\ dispatcher \in {"pop", "test", "push", "ended"}
  /\ (held = NoItem) <=> (dispatcher \in {"pop", "ended"})
  /\ poolRunning \in BOOLEAN
  /\ TaskQueue!QueueTypeOK
  /\ worker \in [Workers -> {"pop", "task", "ended"}]
  /\ work \in [Workers -> Packets \cup {NoItem}]
  /\ \A w \in Workers : (work[w] = NoItem) <=> (worker[w] # "task")
  /\ stage \in Stages
  /\ received \in Seq(Packets) /\ taken \in Seq(Packets) /\ handled \subseteq Packets

Holding == IF held = NoItem THEN <<>> ELSE <<held>>

\* Workers start the packets in the order the transports pushed them, and none
\* gets lost, repeated or overtaken between the two queues.
InOrder == received = taken \o tasks \o Holding \o packets

Trying == {w \in Workers : worker[w] = "pop" /\ w \notin tasksWaiting}

\* Each push wakes one worker only: no worker sleeps while more tasks are
\* queued than awake workers are about to take.
NoIdleWorker == tasksWaiting # {} => Len(tasks) <= Cardinality(Trying)

\* The pipeline promises what PacketService says: no packet is handled twice,
\* none is accepted after stop has returned or left unhandled by it.
Service == INSTANCE PacketService
  WITH accepted <- Elements(received), done <- handled, open <- stage # "stopped"

ServiceKept == Service!ServiceSpec

\* A packet that was pushed is handled, whether or not stop is called.
AllHandled == \A p \in Packets : p \in Elements(received) ~> p \in handled

\* stop returns, if the transports' receive threads end.
StopReturns ==
  stage # "serving" /\ [](receiver["tcp"] # "receiving") ~> stage = "stopped"
=============================================================================
