# A verification model of the SIP proxy and its clients

This directory holds TLA+ modules that model the SIP proxy and the SIP client of
this repository, TLC configurations that check them on small instances, and
proofs, checked by TLAPS, of what holds for every instance. All of it is
translated from the C++ under `src/`; line numbers in comments and in
`PROJECT.json` refer to that code. Paths below are relative to `src/`.

## 1. The system

A proxy process receives SIP packets over UDP and TCP, keeps registrations and
calls in memory, and relays requests and responses between clients. Each client
process has a user's thread (command line or Qt) and a network thread.

| Component | State | Operations | Concurrency |
|---|---|---|---|
| `CallStateMachine`, `CallSession` (`proxy/src/call_*.cpp`) | state of one call | `on_request`, `on_response`, `is_terminated` | a mutex per session; the session outlives its removal while a worker holds the pointer |
| `CallRegistry` | Call-ID -> session | `create_call`, `find_call`, `remove_call` | one mutex |
| `SIPRouter` | Call-ID -> `CallContext` | one handler per method, one for responses | a mutex for the context map; nothing spans two tables |
| `RegistrationTable`, `RegisterHandler` | user -> contact, transport | `register_user`, `get_contact_entry` | a shared mutex |
| `MetricsCollector` | four counters and gauges | `inc_*`, `dec_*` | one atomic each, test and decrement apart |
| `SIPProxy` | the transports, dispatcher and pool | `handle_packet`, `send_response`, `start`, `stop` | `handle_packet` runs on every worker |
| `ThreadSafeQueue`, `Dispatcher`, `ThreadPool` | two FIFO queues, the threads | `push`, `pop`, `enqueue`, `stop`, `shutdown` | mutex and condition variable |
| `UdpTransport`, `TcpTransport` | sockets, TCP connection table, threads | `send`, receive loops, `stop` | a thread per transport, one per TCP connection |
| `MetricsServer` | a listening socket and a thread | `start`, `stop`, serve | blocking `accept` |
| `SIPParser`, `SIPMessage`, `Logger` | none that feeds back | parsing, header lists, log lines | - |
| client: `SIPClientStateManager` | state, active Call-ID, registered user | `on_calling`, `on_incoming_call`, ... | a mutex, taken anew for each call |
| client: `SIPInviteHandler` | `pending_invite_` | call, answer, reject, hang up, `on_message` | user's and network thread, no lock |
| client: `SIPRegisterHandler`, `SIPReceiveHandler` | the answer to a REGISTER | register with retries, wait | condition variable between the threads |
| client: `SIPMessageFactory`, UI, CLI | CSeq, pending headers | build messages | - |

Interaction: a transport's thread pushes a packet to the dispatcher's queue, the
dispatcher's thread hands it to the pool, a worker runs `handle_packet`, which
parses, calls `SIPRouter::route` and sends what comes back. The handlers read
and write table, registry, sessions, contexts and metrics one after the other,
each under its own lock, so that the packets of one call interleave at every
step and may be handled in another order than they arrived in.

What is hard here: these interleavings; stale copies of a context or pointers to
a removed session; partial clean-up; UDP's loss, duplication and reordering;
clients that call each other at once; the order of shutdown. `PROJECT.json`
lists each hazard at its line, with the properties that would catch it.

What makes each component correct:

* sessions move forward only and are never left in `INIT`;
* registry and context map agree on which calls exist, but for the moment in
  which a call is opened or closed;
* a message of a call goes to a party of that call, over a transport it speaks,
  and a BYE only to the party that did not send it;
* the gauge covers the calls in progress, and concurrent decrements do not run
  away;
* no call in progress is removed; no duplicate opens it again;
* when a party leaves, the other one is told; no INVITE vanishes; once nothing of
  a call is under way, both clients are in it or neither is;
* every accepted packet is handled, once, before the shutdown ends, and it ends;
  no worker sleeps while a task has nobody to take it;
* a message crosses a TCP connection whole, once and in order, however the
  connection cuts it, and what users typed into it arrives as typed;
* a thread reads from and writes to the socket it means, though descriptors are
  closed and used again; the threads of a connection that is gone end;
* registering ends, with the answer that came; the window's buttons follow the
  client's state.

## 2. Modules

| Module | What it models |
|---|---|
| `CallStateMachine` | the pure state machine and the mapping from messages to its events |
| `ProxyRouter` | `handle_packet` and every handler of `SIPRouter` on the proxy's shared state, with workers that interleave; any packet of the constant `Traffic` may arrive at any time |
| `SipCalls` | extends `ProxyRouter`: the packets come from this repository's clients, through a network that reorders, duplicates and loses |
| `ThreadSafeQueue` | the queue with its condition variable, used twice by the next |
| `TaskPipeline` | receive threads, dispatcher, pool and `SIPProxy::stop` |
| `PacketService` | what `TaskPipeline` promises; its abstract specification |
| `TcpTransport` | accept thread, receive threads, connection table, `send` and `stop`, with the process's descriptors |
| `MetricsServer` | the metrics server's thread and `stop`, on the same descriptors |
| `ProxySockets` | composes the two in the order in which `main` takes them down |
| `ClientThreads` | one client: the window and its commands in one thread, `on_packet_received` in the other, split where locks are released |
| `SipMessage` | pure operators: header lists, parser, serializers, the client's message factory, what the router does to headers |
| `TcpStream` | TCP framing: `recv` in pieces, cut at CR LF CR LF |
| `MessageChannel` | what a stream promises; the abstract specification of `TcpStream` |
| `CallLife` | what a call is to its parties and the proxy's operator; the abstract specification of `SipCalls` |
| `MessageJourney` | composes `SipMessage` and `TcpStream`: the text of an INVITE and of its answer, from client to client through the proxy |
| `MC...` | the instances that TLC checks, one module for each specification |
| `...Proof` | theorems, one module for each specification they are about; those about `SipCalls` are in `SipCallsProof`, `CallLifeProof` and `CallGaugeProof`, each of which extends the one before |

`ProxyRouter` is also the abstract specification of the proxy: it promises what
it promises to any peers. `SipCalls` is shown to implement it by theorem
`CallsImplementRouter`. Above that stands `CallLife`: it has no packets and no
workers, only where the two parties of each call are (out of it, in it, gone) and
whether the proxy has a record of it (none yet, open, closed). `PlaceOf` and
`RecordOf` read these off `joined`, `active`, `sessions` and `registry`. A step of
`SipCalls` does at most one of six things in each call; it may do two in
different calls, since a client that enters a call can leave another by it.

### ProxyRouter against the code

State: `table` is `registrations_`; `sessions[c]` is the sequence of all
`CallSession`s ever made for Call-ID `c` and `registry[c]` the index of the one
in `m_calls` (0: none), so that a pointer a worker still holds after
`remove_call` is an index that stays valid, as the `shared_ptr` does;
`ctx` is `call_contexts_`; `activeCalls`, `registeredUsers`, `msgsIn`, `msgsOut`
are the metrics. Each worker has `pc` (the step it is about to take), `pkt` (its
packet), `snap` (the `CallContext` it copied or builds), `ptr` (its session) and
`reply` (the status of a local response). `outbox` holds what was sent and not
yet delivered, `invited` records who was ever invited under which Call-ID.

One action is one critical section or one atomic operation. The steps of the
handlers, in the order of the code:

    REGISTER   RegStore, RegCount, Send
    INVITE     InvLookup, InvCreate, InvStore, InvEvent, InvCount, Send
    ACK        CtxRead, FindCall, SessionEvent, AckFind, AckCheck,
               [RemoveCall, EraseContext,] Send
    BYE        CtxRead, FindCall, SessionEvent, Send
    response   CtxRead, FindCall, SessionEvent, then
               200/INVITE  StoreAnswer
               603         DecCheck, [Dec]
               200/BYE     RemoveCall, EraseContext, DecCheck, [Dec]
               486         RemoveCall, DecCheck, [Dec,] EraseContext
               and Send

Steps that touch no shared state are merged with the one before them: parsing
and the checks of headers with `Receive`, building the message with `Send`.

Data that is abstracted: a header is there or not (`ok`); a contact is an
address with a transport and always well formed, as the client's factory makes
it, and it is where the client's packets come from, as when all run on one host
(the client writes `server_ip` into its Contact); the Via of a response is what
is left of it once the proxy's is stripped; the headers stored in a context are
one flag (`answered`), since they only add extra headers to later responses.
`store_call_context` looks the callee up a second time for a `Contact` header
that is a standard header and so never added back: that read is left out, as are
the reads of `handle_packet` that are only logged. The two messages of a
duplicate are one element of the set `outbox`.

### SipCalls against the code

`state`, `active` and `pending` are `state_`, `active_call_id_` and the call of
`pending_invite_`; `Idle`, `Registering` and `Failed` are one value, for no code
tells them apart. `registering` is the set of users whose `handle_register` is
waiting: both the command line and the Qt slot block in it, so such a user gives
no other command, while messages are still handled. A command is one action
(`Register`, `RetryRegister`, `GiveUpRegister`, `Dial`, `Answer`, `Reject`,
`HangUp`), and so is the handling of one message (`ReceiveInvite`, `ReceiveBye`,
`ReceiveProgress`, `ReceiveEnd`, `ReceiveNothing`, `RegisterAnswered`).
`RegisterAnswered` joins the arrival of the answer with the wake-up of the
waiting thread: an answer that arrives later is the same as a thread that wakes
up later. `joined` is history.

The oddities of the code are kept: the answer to a REGISTER makes a client
`Registered` even in a call; a command `answer` sets `InCall` whatever call is
active; `100` and `180` set their state whatever the state is; `handle_error`
acknowledges and ends the call for any status of 400 or more, the proxy's own
`400` among them.

`TaskPipeline` is why a packet may be handled by any worker at any time: it is
the way there. The two are not composed: `ProxyRouter` takes packets in any
order, more than the pipeline's order allows.

The network is a set in each direction: anything overtakes anything. For TCP
this allows more than happens, which is sound for the safety properties. Two
equal packets on their way at once are one element of the set.

### TaskPipeline against the code

Two instances of `ThreadSafeQueue` stand for `Dispatcher::queue` and
`ThreadPool::taskQueue`. Each method of the queue is one step, for it holds the
mutex; `pop` is `Pop`, `Closed` or `Wait`, and a waiting thread tries again when
`push` or `stop` notifies it or when it wakes up without a reason (`Wake`).
`receiver[r]` is where a receive thread is in its loop: about to test `running_`,
in `recv`, or gone. `dispatcher` and `worker` are where those threads are, `held`
and `work` the packet each has in hand. `stage` is the place of the thread that
runs `SIPProxy::stop`; a stage `joinX` is left when the thread it joins has ended.
`ThreadPool::enqueue` is two steps, as its test of `running` holds no lock.
`handle_packet` is one step, `HandlePacket`: `ProxyRouter` says what it does.
`received`, `taken` and `handled` are history.

`Dispatcher::running` is left out: its loop does not look at it. TCP is one
connection's receive thread; its `recv` may return packets, end, or never
return.

### TcpTransport, MetricsServer and ProxySockets against the code

`file` is the kernel's table: the socket each descriptor stands for. `accept`
takes the lowest free number, as the kernel does, and fails when there is none.
`acceptor`, `reader[c]` and `server` are the places of the three kinds of
threads in their loops; `fresh`, `freshFd`, `readerFd[c]` and `clientFd` their
local descriptors; `table` is `connections_`. A receive thread looks its
descriptor up when it calls `recv` (`ReadCall`) and then stays with the socket
it found (`source`), even if the descriptor is closed meanwhile, as a blocked
`recv` does. `sending` is the descriptor a worker writes to; it holds
`connections_mutex_`, so `TableUnlocked` guards every other step that takes that
mutex. `recv_threads_mutex_` needs no variable: `stop` takes it after the accept
thread, its only other user, has been joined. The set of `line` states is the
peers' side; a peer may come back from the same address once its old connection
is down for it, while the proxy has not yet noticed. What is received goes to
`TaskPipeline`. Client mode has one connection and no table, and is left out.

### ClientThreads against the code

`state`, `active`, `incoming` are the fields behind the mutex of
`SIPClientStateManager`; `received` and `response` those of `SIPReceiveHandler`;
`pending` is `pending_invite_`, which has no lock: what is read while the other
thread writes is any of old, new and empty (`PendingSeen`). `user` is where the
window's thread is, `"idle"` being Qt's event loop, and `net` where the
network's thread is. `events` holds the queued signals, one of each kind, for
two of one kind do what one does: the slots read the state when they run, except
for labels, which are left out. `"update"` is a change of state or a call's
error, `"accepted"` and `"refused"` the answer to a REGISTER, as the network's
thread saw it: flag (`NetCheck`) and response (`NetAnswer`) are read under two
locks, and a reset in between makes an empty response, which counts as a
failure. That is the only way to one, since the proxy answers a client's REGISTER
with 200 and the model lets no 401 arrive. A message box blocks clicks, not
events, until it is closed; it changes nothing else. A button can be clicked
while it is enabled, also if the state has changed since. `Arriving` is what the
proxy and the other party may send a client that sent what it sent (`sent`), in
any order and any number of times. `silent` is history: it marks what
`handle_answer`, `handle_reject` and `handle_register` change without telling
the window.

### SipMessage, TcpStream and MessageJourney against the code

A text is a sequence of tokens: line-end characters, colons and spaces are
tokens of their own and a word is one token, which is what the parser, the
factory and the framing tell apart. Number and order of the steps of each
function are kept: which of two equal headers wins, which spaces are cut, that
the factory compares names without case and the router with it, that an absent,
negative or unreadable Content-Length takes all the body. `Field` compares whole
tokens; the client's regular expression for a field would also find it at the
end of a longer name, which no text here has. `From` stands for the
headers that are built, copied and relayed as it is (`To`, `CSeq`, `Contact`).
`RelayedResponses` is a set, for the stored headers come in the order of a hash
table.

`TcpStream` has a stream for each direction of each connection. `wire` is what
is sent and not yet received, `accumulator` the string of that name; `recv`
returns any of `ChunkSizes` tokens or what is left; `Deliver` is one turn of the
inner loop. A stream is as TCP makes it, without loss; the end of a connection
is in `TcpTransport`. `MessageJourney` runs both clients and the proxy's workers
over four streams: `RelayRequest` and `RelayResponse` parse what was cut out,
change its headers as the router does and serialize; `Answer` builds the
response from the raw text as `handle_answer` does. Routing is `ProxyRouter`'s
matter: here there is one caller and one callee. `RelayDatagram` is an INVITE
from another phone, with a body.

## 3. Bounds

| Constant | Value | Why it is enough |
|---|---|---|
| `Workers` | 2 | every race the properties speak of is one between two handlers; the theorems cover any number |
| `CallIds` | 1 or 2 | calls only share the gauge, the table and the clients; two show glare and a callee busy with another call |
| `Users` | 2 or 3 | a third one for mixed transports |
| `MaxPackets` | 5 (open), 8 or 9 (two calls, duplicates), 100 (never reached) | five packets of any kind set up, close and re-open a call; with 8 both users register, call each other and refuse, or one call is set up, answered and hung up; with 9 a duplicate is added |
| `MaxRegisters` | 1, for bob 2 in `calls` | the second is a retry, or a new REGISTER in the middle of the call; the code's five attempts only add more of the same |
| `MaxDups` | 1 in `duplicates` | one duplicate, taken at any later time |
| `Distracted` | bob | bob may also be in a call that is not modelled, which shows 486 with one Call-ID |
| `Packets` | 3 in `pipeline` | two workers and a packet more than they can hold: one waits in a queue while both work |
| `TcpEnabled` | TRUE | two receive threads that push at once, joined one after the other |
| `Conns`, `PeerAddrs` | 2, 2 | a connection and its successor from the same address, or two at once; the theorems cover any number |
| `OtherSockets`, `Fds` | 1, 2 | three sockets and two descriptors: one is always used again, and there may be none free |
| `Outgoing`, `Incoming` | 1, 1 | a call of each direction, which may meet |
| `MaxAttempts` | 2 (5 in the code) | an answer before, between and after the attempts; the theorems cover any number |
| `MaxPackets` in `client` | 4 | the answer to a REGISTER, an INVITE and two packets that cross a command |
| `Calls`, `MaxPackets` in `stream` | 2, 2 | two messages on one stream, that share a chunk or are cut in it; or datagrams instead |
| `ChunkSizes` | 11, 100 tokens | 11 cuts messages of 23 to 53 tokens at many places, the delimiter included; 100 takes more than one message at a time |
| `CallerTypes`, `CalleeTypes`, `Datagrams` | 3, 2, 6 | chosen in `MCMessageJourney` for the branches of parser and factory |
| `MaxNumber`, `Tokens` | 9, none | numbers in Content-Length; `Tokens` is only for `StreamSpec`, which the theorem is about |

Workers are interchangeable, so the safety runs of the calls use them as a
symmetry set; the liveness runs use none. Deadlock is checked in `pipeline`,
where only the end of `stop` is allowed to be the last state, and in `client`;
not in the others: users may stop calling, the open run and the journey stop at
their bounds, and the proxy's process ends.

## 4. Runs

| Run | Shows |
|---|---|
| `router_open` | `TypeOK`, `GaugeFloor`, `RelayToParties`, `InitIsTransient`, `SessionsMoveForward` under any five packets |
| `calls` | `CallsTypeOK`, `Coherent`, `GaugeCoversLiveCalls`, `ByeMeansHungUp` for the whole life of a call with loss, retries and a busy callee |
| `cross_calls` | `GaugeCoversLiveCalls`, `RemovedMeansEnded` and `LifeKept` (the refinement of `CallLife`) for two users who may call each other at once |
| `transports` | `Reachable` with UDP and TCP users |
| `duplicates` | `NoSecondRing` with a packet delivered twice |
| `calls_live` | `PartiesAgree`, `NoHalfCall`, `DialedIsHeard` for one call, with a busy callee, on a network that loses nothing |
| `pipeline` | `TypeOK`, `InOrder`, `NoIdleWorker`, `ServiceKept` (the refinement of `PacketService`), `AllHandled`, `StopReturns`, and no deadlock, with `stop` at any time |
| `sockets` | `SendsReachPeer`, `ReadsOwnConnection` while descriptors are closed and used again; `GoneIsClosed`, `StopReturns`, `ProcessReturns` |
| `client` | `SnapshotAgrees`, `ButtonsCatchUp`; `RegisterReturns`, `RegisterButtonReturns`; no deadlock |
| `stream` | `CalleeSeesWhatWasTyped`, `CallerSeesTheAnswer`, `LengthIsAccurate`; `StreamsAreChannels` (the refinement of `MessageChannel`), `EveryCallAnswered` |
| `doubt_responses` | expected to fail, see below |
| `doubt_stop` | expected to fail, see below |

Every property is broken by at least one mutated definition of the code, given
before the original in its module and listed under `mutants`.

## 5. Where the code departs from its documents

These properties say what a document, a comment or a message of the program
says. TLC finds each of them violated by what the code does. Two have a run;
each of the others is shown by the `.cfg` named, with the property put in
the place of the one it checks (as an `INVARIANT`, or a `PROPERTY` if temporal).

| Property | Run or `.cfg` | What happens |
|---|---|---|
| `ResponsesGoBack` | `doubt_responses` | the caller's 200 to the callee's BYE is relayed to the caller itself |
| `StopEndsReceiveLoops` | `doubt_stop` | `stop` closes the descriptor of a connection whose thread is in `recv`, which does not end that `recv`, and waits for the thread for as long as the peer stays silent |
| `GaugeSettles` | `DoubtResponsesGoBack.cfg` | the ACK of a call finds its session terminated by a BYE handled just before, removes it without decrementing, and the 200 to the BYE finds nothing: `SIP_active_calls` stays at 1 (`docs/architecture.md:270`) |
| `AnsweredCallerIsInCall` | `DoubtResponsesGoBack.cfg` | a 100 or 180 handled after the 200 takes the caller out of `InCall`, and `hangup` is refused |
| `AnsweredIsEstablished` | `DoubtResponsesGoBack.cfg` | 180 and 200 handled in the wrong order leave the session in `RINGING` (`docs/interface-contracts.md:476`) |
| `InCallMeansBusy` | `DoubtResponsesGoBack.cfg` | an INVITE handled while a REGISTER waits for its answer leaves a client in a call and not busy (`sip_invite_handler.cpp:25`) |
| `OneCallAtATime` | `MCClient.cfg` | the user dials between the network thread's `is_busy` and its `on_incoming_call`, which replaces the call just dialled |
| `NoFalseFailure` | `MCClient.cfg` | a second click on Register resets the answer while the network's thread has seen its flag and not yet its text: the window says "Registration failed" (`main_window.cpp:184`), though the proxy refuses none of a client's REGISTERs |
| `TypedNamesAreExact` | `MCStream.cfg` | a typed `from` or `x-note` replaces the value of `From` or `X-Note` and keeps that name, for the factory compares names in any case; the documents say they are different headers and the typed one is added (`docs/interface-contracts.md:401`, `:210`) |
| `AcceptedIsTracked` | `DoubtStopEndsReceiveLoops.cfg` | the receive thread of an old connection erases the table's entry of its successor from the same address, to which nothing can be sent any more (`docs/interface-contracts.md:65`) |
| `MetricsStopWithProxy` | `DoubtStopEndsReceiveLoops.cfg` | the process waits for the metrics server's thread, which sits in `accept` until a client comes (`docs/build-run.md:604`) |

Others need no model checker: a 603 to an INVITE leaves session and context
behind, though `sip_router.cpp:431` logs that they were removed; every repeated
REGISTER is counted as another registered user (`register_handler.cpp:118`,
`docs/architecture.md:271`); the register button stays disabled when no answer
comes at all, for `handle_register` tells the window nothing of a time-out
(`main_window.cpp:160`).

## 6. Fairness

`FairCallsSpec` assumes weak fairness of three things. A worker in the middle of
a packet goes on: it is a running thread, and no lock of the router is held
across a blocking call. Some worker takes a packet while packets wait: the pool
blocks on its queue and is woken by each push. A client handles what was
delivered: its receive loop polls. In `calls_live` the network loses nothing
(`Lossy = FALSE`): over a lossy network neither property holds, since nothing
but REGISTER is retransmitted. Nothing is assumed of users: a callee may ring for
ever, which is why `DialedIsHeard` ends where the callee's client rings.

`FairSpec` of `TaskPipeline` assumes that every thread keeps running. It does
not assume that a packet comes, that `stop` is called, that a thread wakes up
unasked, or that `recv` of a TCP connection returns: `stop` closes that
descriptor without shutting the connection down, which does not end a `recv`
under way. `StopReturns` therefore speaks of the case that it is not in `recv`
for ever; UDP sockets do not block.

`FairSpec` of `ProxySockets`: every thread goes on when it can. Three steps wait
for `connections_mutex_` (`AcceptInsert`, `ReadClose`, `CloseAll`) and have
strong fairness: a thread that waits for a mutex that is free again and again
gets it. Nothing is assumed of peers and metrics clients, so `recv`, `accept`
and `send` may last for ever. `recv` is sure to end on a connection that its
peer has left, and only there (`RecvEnds`): after `stop` has closed a descriptor
the metrics server may get its number, and the old thread reads from a client
that may stay silent. Properties that need a call to return say so:
`[]<>TableUnlocked`, no send lasts for ever; in `GoneIsClosed`, `[]<>(source[c]
\notin OtherSockets)`, no `recv` on a metrics client does (without it TLC finds
the property violated); in `StopReturns`, no `recv` at all does.

`FairSpec` of `ClientThreads`: both threads go on, a wait ends after its two
seconds, and the event loop gets to a queued answer (strong fairness, since the
thread is away in handlers the user starts); no property needs it for updates.
Nothing is assumed of packets.

`FairSpec` of `MessageJourney`: receive threads go on, the pool takes every packet
and callees answer. The last two are stated as `[]<>~Unhandled(...)`: the action
stays enabled until it is taken, so this is its weak fairness, without TLC's
evaluating `ENABLED` of actions that parse text.

## 7. Proofs

`ProxyRouterProof` proves, for any workers, users, Call-IDs, addresses and
traffic (assumptions: the named `ASSUME`s of `ProxyRouter`):

* `TypeCorrect`: `TypeOK` is inductive. It holds the facts that make every
  handler well defined: a busy worker has a packet, a step after the context
  look-up a context, a step that applies an event a session that exists.
* `GaugeFloorHolds`: `GaugeFloor` is not inductive, as it ignores the workers
  that have tested the gauge. `FloorInv` counts their decrements as done:
  `activeCalls - |Deciding| >= 1 - |Workers|`. A test that succeeds saw a
  positive gauge, and the others deciding are at most `|Workers| - 1`.
* `SessionsForward`: every step appends a session or applies `HandleEvent`,
  which never lowers `Rank`.
* `NoSessionStuckInInit`: with `InviteInv` (the steps of `handle_invite` handle
  an INVITE), so that the event that reaches a session in `INIT` from its
  creator is INVITE; other workers leave `INIT` as it is.
* `RelayedToPartiesOnly`: with `KnownInv`, every context stored or copied comes
  from an accepted INVITE of its Call-ID, and `invited` only grows.

`SipCallsProof` proves `CallsTypeCorrect` and `CallsImplementRouter`: each step
of the clients and the network is a step of the router, with a packet of
`Traffic`, or leaves its variables alone. All of the above then holds of the
whole system. And, still on a network that loses, repeats and reorders as it
likes:

* `ResponsesReachCallers`: `Reachable` says nothing of where messages come from
  and is not inductive. `OriginInv` traces them: the table has each user's own
  address, every packet on the network or in a worker's hands (`Abroad`) is as a
  party of its call makes it, every context, stored or copied, has the parties'
  addresses, which speak one transport, and every message is addressed as its
  call wants it. `StepInv` (a handler's steps are taken for its own kind of
  packet) is what ties the step `Send` to the packet it relays.

`CallLifeProof` is about a network that repeats no packet: `NoDuplicates`, that
is `MaxDups = 0`, or all clients on TCP. The hypothesis is needed: with one
duplicate TLC finds `Coherent`, `ByeMeansHungUp`, `GaugeCoversLiveCalls` and
`LifeKept` violated (the second of two equal packets is handled after the call
was closed, or opened again, by the first), and with three also
`RemovedMeansEnded`. It is the case of all runs but `duplicates`. Reordering is
not restricted, and loss only where a theorem says so. `TraceInv` adds to the
above, for each call:

* `Once`: the INVITE exists once, on the network, with one worker, or on its way
  to a callee who has not heard of the call; this is why there is one session.
* `Record`: contexts, and workers that have read one, exist only after the
  session; nobody else works on a call whose context is about to be stored; a
  context without a registered session has a worker that will erase it. The
  copies workers hold are why `Coherent` alone is not inductive.
* `Ended`: each thing that can close a call (a BYE, a 200 to it, a 486, a
  terminated session, a worker about to remove one) tells of a party that has
  left, and who has left does not come back.

From it follow

* `NothingLeftBehind`, `OnlyEndedCallsAreRemoved`, `ByeComesFromTheOther`:
  `Coherent`, `RemovedMeansEnded` and `ByeMeansHungUp`;
* `CallsHaveTheirLife`: `SipCalls` implements `CallLife`. One more invariant,
  `Announced` (an INVITE on its way to the callee has a session), gives that
  nobody is told of a call before its record is open; `OneMover` that a step
  moves one user, `PlaceStep` and `RecordLife` what it does to a place and to the
  record. It is stronger than the three properties in that it speaks of steps: a
  second session for a call, or a return to it, is excluded altogether.

* `PartiesAlwaysAgree`: `PartiesAgree`, the safety part of what `NoHalfCall` and
  `DialedIsHeard` say of a single call with fairness, for any users and calls and
  without fairness: whenever no packet and no message of a call is on its way and
  no worker has one, both clients are in the call or neither is. Nobody is left in
  a call that the other party has left or never heard of.

What could go wrong is that a BYE, 486 or 603 finds no context because another
worker has closed the call, and is dropped or refused. `PartiesAlwaysAgree` rests
on three more invariants, kept for each call.

* `Course` says what each client, packet, message and reply tells of the call: a
  callee it rings at is in it (`RingCourse`), a party talks only after the callee
  has decided (`TalkCourse`), a caller leaves only after that or when the INVITE
  got lost (`CallerCourse`), an ACK exists only if the callee has heard of the call
  or never will, and one of the proxy's own 400, 404 or 501 only if the INVITE got
  lost or a party has left (`PacketCourse`, `MessageCourse`, `ReplyCourse`). This is
  why a party is told the call is over only when it is.
* `Reaching`: for a caller in a call the callee has not heard of, the INVITE or the
  proxy's refusal of it is under way.
* `Telling`: whoever is in a call that the other party has left is `Told` of it: a
  message on its way to it, or a packet that will become one. A packet that has
  not found the context counts only while the call is not `Closed` (its session
  terminated or removed, or about to be). By `ClosesHow` only a BYE, the 200 to one
  or a 486 that has found the context closes a call. The 200 tells that both parties
  have left; the BYE or the 486 is itself what will tell the one who has not.

The theorem has three hypotheses, and TLC shows that each is needed. With
`Lossy = TRUE` the INVITE is lost and the caller waits for ever. With
`MaxDups = 1` a repeated packet ends the call for one party only. Under `CallsSpec`
in place of `SteadySpec`, which adds `StayInCall`, an INVITE reaches a client
between the storing of its REGISTER and the answer to it; the answer takes the
client, which rings, to `Registered`, its user dials, and the first caller is never
told (section 5, `InCallMeansBusy`). `StayInCall` is what the tests of `is_busy` are
for: `BusyStays` proves that each step keeps it while `InCallMeansBusy` holds, and
`BusyPartiesAgree` states the result for the unrestricted `CallsSpec`:
`CallsSpec /\ []InCallMeansBusy => []PartiesAgree`.

The run `calls_live` has one Call-ID, where nobody can get from one call into
another and `StayInCall` holds of itself. With two, `MCCrossCalls.cfg` with
`SteadySpec` and `PartiesAgree` in the place of what it names passes, in 1.8
million states; the same with `MaxDups = 1`, `Lossy = TRUE` or `CallsSpec` gives
the three counterexamples.

`CallGaugeProof` proves `GaugeIsNeverShort`, `GaugeCoversLiveCalls` with
`NoDuplicates`. The gauge has no memory of what it counted, so the invariant
keeps books: there are sets of calls `counted` (by `inc_active_calls`), `refused`
(taken off for a 486 or 603) and `byed` (taken off for the 200 to a BYE) with
`activeCalls = |counted| - |refused| - |byed|`. It would be simple if a call were
taken off once, but it is not: a caller whose call is being refused can answer
another call, which puts its client `InCall` for the first one, and hang up there,
so that one call is taken off for its refusal and for its BYE. The gauge still
covers the calls in progress, because the call it answered is one that nobody
will ever take off: `paid` maps the first call to that one, `Paid` says that no
call pays twice, and the gauge is at least the number of live calls by counting
(`LedgerCovers`). All four are witnesses of an existential, not variables of the
model.

The invariants of the two modules were checked by TLC on instances like those
of `calls`, `cross_calls` and `transports` before they were proved.

`TaskPipelineProof` assumes a finite, non-empty set of workers and a value that
is no packet, and proves:

* `PipelineInOrder`: `InOrder` with `StageInv`, which says that each part of the
  pipeline is taken down only when nothing can reach it: the pool is off only
  after the dispatcher's thread has ended, so its `enqueue` is never refused.
* `PipelineKeepsService`: the refinement. `Distinct` and `WorkInv` make `InOrder`
  inductive knowledge of who has which packet; a task is a packet nobody took,
  and when the last worker is joined, both queues are empty and so all that was
  taken is all that was received.
* `PoolNeverIdle`: `NoIdleWorker` with `SleepInv` (workers sleep in `pop` only);
  a push adds one task and wakes one worker, a pop takes one of each away.

`ProxySocketsProof`, for any connections, addresses, descriptors and metrics
clients:

* `SocketsTypeCorrect`: `TypeOK` is inductive.
* `SendsAlwaysReachPeer`, `ReadersKeepTheirs`: one inductive invariant says who
  owns each descriptor: a running receive thread, the accept thread with a
  connection in hand, or the metrics server, no two of them the same one; and
  that an entry of the table is the descriptor of a connection from that
  address. The mutex held across a send keeps the entry from being closed under
  it.

`ClientThreadsProof`, for any calls, attempts and packets:

* `ClientTypeCorrect`: `TypeOK` is inductive.
* `SnapshotAlwaysAgrees`: the answer is set whenever the flag is, and only the
  thread that reads them resets them.
* `ButtonsAlwaysCatchUp`: while the buttons differ from those of the state, an
  update is queued or a thread is in the part of a handler that ends in queueing
  one; each step keeps this. A failed answer, which computes no buttons, keeps
  it too: it takes no update out of the queue.

`TcpStreamProof`, for any streams, sizes of chunks and texts that end in the
delimiter and hold no other:

* `FramingKeepsMessages`: `StreamSpec` implements `MessageChannel`. The invariant
  `StreamOwn` says that `accumulator` and `wire` together are the texts not yet
  delivered, regrouped; the first delimiter of that is the end of the first of
  them (`CutIsWhole`, `DelimiterFound`). That everything the clients and the
  proxy post is such a text is `JourneyTypeOK` of the run `stream`.

Only model-checked:

* `NoSecondRing`. Without duplicates it follows from `Once` and says little; with
  them it is true only up to a number of duplicates: TLC finds it violated with
  three (`MCCallsFaulty.cfg` with one worker, `MaxDups = 3` and `Distracted =
  {bob}`: the callee is busy, its 486 and the INVITE are repeated, and the second
  486 removes the session that the second INVITE opened, so that a third one is
  relayed into the call), and not with two. A theorem for any number would be
  false, and one for a fixed number would enumerate what TLC enumerates.
* `JourneyTypeOK`, `CalleeSeesWhatWasTyped`, `CallerSeesTheAnswer` and
  `LengthIsAccurate`: what parser and factory compute recurses over the text,
  through the folds of the library, and induction over data is out of the
  prover's reach.
* Liveness under fairness: `NoHalfCall`, `DialedIsHeard`, `AllHandled`, `StopReturns`,
  `ProcessReturns`, `GoneIsClosed`, `RegisterReturns`, `RegisterButtonReturns`,
  `EveryCallAnswered`.

## 8. Not modelled, and why

The logger, labels and layout of the window, prompts, options and start-up, the
scripts and the tests: presentation and I/O, which feed nothing back. The calls
that set sockets up, and the client mode of `TcpTransport`, which has one
connection, no table and the framing of `TcpStream`. `pending_headers_` as a
race: its text is only passed on. `std::stoi` on a contact without a port, which
throws in a worker: the repository's clients always send one. Threads that have
ended stay in `recv_threads_` until `stop`: memory, not behaviour. Nothing is
persisted, so there is no recovery after a crash to model.

## 9. Plan

1. Proof of the safety part of `StopReturns` in both specifications that have it:
   each stage of `stop` is left only when its threads have ended.
2. `CallLife` with duplicates: which of its steps a repeated packet adds.
3. `PartiesAgree` with a client whose registration ends in the middle of a call:
   which of its calls it then leaves without a word.
