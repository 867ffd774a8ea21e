# A verification project for `_NetworkLib`

TLA+ models of the IOCP network library and of the servers built on it, checked
with TLC, and theorems about them checked with TLAPS. File names below are those
of the repository; `A` stands for
`_lib/AcceptEx_IOCP_NetworkLib/AcceptEx_IOCP_NetworkLib.cpp`.

## 1. Inventory

| Component | State | Operations | Hard behaviour | What makes it correct | Here |
|---|---|---|---|---|---|
| **NetworkLib** (`A`, `Session.cpp`) | 7000 session slots, each with id, `mIOcnt`, `mLive`, `mSendFlag`, send queue, overlapped structures; stack of free slots; `mSeqID` | worker threads handle accept, receive, send and release completions; the application calls `sendPost` and `disconnectSession` | lock-free reference count with a release bit; stale ids of slots that serve another client; the send flag; completions in any order; resets | a session is released once, when nothing refers to it, and then always; one receive and one send at a time; no send is forgotten; messages stay with their session | `NetworkLib`, `SessionService`, two proof modules |
| **RingBuffer, framing** (`utility/RingBuffer.cpp`, `A:223-315`) | front and rear offset | `registerRecv`, `completeRecv` | frames cut anywhere, wrap-around, full buffer | `onRecv` gets the client's frames, whole and in order; only a bad frame disconnects | `RingBuffer`, `RecvFraming`, `RecvFraming_proofs` |
| **ChattingServer** | contents queue and event; players, 50 x 50 sectors | callbacks push; one contents thread handles login, auth, move, chat | callbacks of two threads against the contents thread; messages of sessions that are gone | players and sectors agree; a message finds its player; players leave; the protocol works | `ChattingServer`, `ChattingServer_proofs` |
| **CLanServer** (`SSL_LoginServer/_lib/CNetworkLib`) | as NetworkLib, 64-bit count, lock-free send queue, limit on it | accept thread, workers, `SendPacket`, `Disconnect`, `Stop` | as NetworkLib; `Disconnect` with a stale id does not look whether it held the last reference | as NetworkLib; a long queue disconnects | `LanServer`, `SessionService`, `LanServer_proofs` |
| **SSL_CLoginServer** | wait and auth tables under two locks, AuthThread's queue, DB queue and counter, tokens in Redis | `OnAccept`, `OnRecv`, `OnRelease`, packets, heart-beat, DB workers | a session released or timed out while it moves from one table to the other; two logins of one session, or of two sessions to one account; a `DWORD` clock; time-outs looked at only when no packet waits | a session is in one table; it puts one token into Redis, and its client is told after that; a request is dropped only when its client is gone or logged in; silent clients leave when there are heart-beats | `LoginServer`, `LoginServer_proofs` |
| **TLS of the login server** (`SSL_CLoginServer.cpp:600-844`) | `_sslState`, the session's lock | `RecvComplete`, `SendComplete` in place of CLanServer's | a handshake answers with a send of its own beside the send flag | one send at a time | `LoginTls` over `LanServer` |
| **Lock-free queue and its pool** (`CLockFreeQueue`, `CLeakDetectPool`) | tagged pointers, nodes, counters | `Push`, `Pop`, `Alloc`, `Release` | nodes reused while another thread follows them (ABA); a counter ahead of the list | a queue; every node at one place; calls return | `LockFreeQueue`, `MessageQueue`, `LockFreeQueue_proofs` |
| **Lock-free stack** (`CLockFreeStack`) | as the queue, a dummy at the bottom | `Push`, `Pop` | as the queue; `Pop` on the dummy would release it | a stack; the dummy stays; the size comes out even | `LockFreeStack`, `MessageStack`, `LockFreeStack_proofs` |
| **Other pools, MT_CRingBuffer, DeadLockGuard** | | | | | not modelled, see 6 |
| **EchoServer** | players under a shared mutex | callbacks, contents thread | | | not modelled, see 6 |
| **Message / SerializeBuffer, RPC stubs, CDB, Parser, logging, profilers, CPU usage, crash dump, WinAPI wrappers, monitor threads** | | | | | the stubs' dispatch is in `LoginServer`; the rest is not modelled: private buffers, I/O and diagnostics |
| **cpp_redis, tacopie** | | | | | not modelled: third-party |

How they interact: worker threads call the virtual `onAccept`, `onRecv`,
`onSend` and `onRelease` of a server; ChattingServer's put a message in the
contents queue and set an event; its contents thread calls `sendPost` and
`disconnectSession` with the session id the message carries, which may be
stale by then. The login server's callbacks run on the threads of CLanServer and enter sessions in
its tables; AuthThread takes packets from a queue and hands logins to DB workers,
which write a token to Redis and answer with `SendPacket`. The servers share no state
but Redis.

One passage of the repository's `README.md` (60-71) is not what the code does:
it says that `SendPost` calls `WSASend` itself when it wins the send flag and
queues the message only when it does not. `sendPost` (`A:490-500`) always
queues, and the winner posts a send completion; a worker calls `WSASend`. The
single-sender guarantee the passage draws from the flag holds (`SingleIO`).

## 2. Modules

| Module | Contents |
|---|---|
| `NetworkLib` | the library, one action per interlocked operation, shared read or system call |
| `SessionService` | what the application is promised: sessions that open, take messages, deliver each message at most once, in order where the queue keeps it (`InOrder`), and are released once |
| `NetworkLib_proofs` | theorems about `NetworkLib`: types, reference count, release, single I/O, free slots, no message forgotten in a queue |
| `NetworkLib_service` | theorem: `NetworkLib` implements `SessionService` |
| `RingBuffer` | sizes, direct sizes and offset moves of `utility::RingBuffer` |
| `RecvFraming` | `registerRecv`, `WSARecv`, `completeRecv` of one slot over several connections |
| `RecvFraming_proofs` | theorems about `RecvFraming`, every property of it |
| `ChattingServer` | callbacks, queue, contents thread, packet handlers, clients |
| `ChattingServer_proofs` | theorems about `ChattingServer` |
| `LanServer` | CLanServer, one action per interlocked operation, shared read or system call |
| `LanServer_proofs` | theorems about `LanServer`: types, reference count, release, single I/O, no message forgotten in a queue, a queue over the limit disconnected, and that it implements `SessionService` |
| `LoginTls` | the login server's `RecvComplete` and `SendComplete`; extends `LanServer` |
| `LoginServer` | tables, callbacks, AuthThread, DB workers, clients |
| `LoginServer_proofs` | theorems about `LoginServer` |
| `LockFreeQueue` | `Push` and `Pop` of the queue over `Alloc` and `Release` of its pool, one memory access a step |
| `LockFreeQueue_proofs` | theorems about `LockFreeQueue`, and that it implements `MessageQueue` |
| `MessageQueue` | what the queue promises |
| `LockFreeStack` | `Push` and `Pop` of the stack of free slots, one memory access a step, over a pool that is a set |
| `LockFreeStack_proofs` | theorems about `LockFreeStack`, and that it implements `MessageStack` |
| `MessageStack` | what the stack promises |
| `MCNetworkLib`, `MCRecvFraming`, `MCChattingServer`, `MCLanServer`, `MCLoginTls`, `MCLoginServer`, `MCLockFreeQueue`, `MCLockFreeStack` | definitions the configurations need |

Operators marked "Mutant" are never used by a specification: each is a
plausible bug (a dropped guard, a missing reset, an order swapped) put beside
the definition it would replace, and the property named for it in
`PROJECT.json` fails with it. They show that the property looks at the code.

### NetworkLib

`pc[t]` is the position of thread `t`, `ses[t]` the slot it works on, `tgt[t]`
the Seq half of the id it was called with. `kernel[s]` counts the overlapped
operations the system holds, `iocp[s]` the completions in the port. A worker
takes a completion (`TakeCompletion`) and runs its handler to the `dec` at the
end of the loop body (`A:137`); an application thread starts a call (`Call`)
with any id `onAccept` ever gave out, which is how stale ids arise.

Merged into one step: a CAS and the `PostQueuedCompletionStatus` of the thread
that won it; the increment of `mIOcnt` and the `WSARecv` or `WSASend` after it;
the two writes of `checkAndHandleIoError`; the two `CancelIoEx` of
`disconnectSession`; the id assignment and `AcceptEx`. No other thread reads
anything between these. A call fails only with the connection errors the code
lists; with a count that is not positive `WSASend` would fail with another, where
`RT_ASSERT(false)` stops the thread. Received bytes are abstracted to "full or
bad header", "neither" (RecvFraming has them). The port is a bag: every order of
completions is allowed, more than the FIFO port produces. The `AcceptEx` calls
of the constructor are assumed to succeed; later ones may fail.

### RecvFraming

A byte is the pair of its connection and its place in the client's stream, so a
lost, doubled or overwritten byte, or one of the previous client, is seen.
`Streams` are the frame lengths clients send, good, too long, empty and
negative; a receive completes with any number of bytes the WSABUFs have room
for. That handlers of one session's receives do not overlap is `SingleIO` of
NetworkLib; that `ReleaseSession` runs when none is left is `RefCount`.

### ChattingServer

The contents thread owns players and sectors, so a packet handler is one
action; a push, `SetEvent`, a pop and the wait are steps of their own. A failed
assertion, a `__debugbreak` or an exception of `Message` nobody catches
(`Message.h:122-133`) leads to `pc = "stopped"`: the process is gone, and with it
every other step. Honest clients follow `PacketCommon.h`. Any other client sends any
packet at any time, since `packetProc` takes the type from the client's bytes: also
the types that `PacketCommon.h:74` calls internal, `ALLOC` and `DELETE`, an unknown type, and
packets of any size: without a whole type, with a type and no whole number, of
another wrong length, exact (`Sizes`). Redis may have no data, the client's token, or
that of another login. The timeout of the wait is an action without fairness:
progress does not depend on it.

### LanServer

The login server's library keeps the promises of NetworkLib by other means, except one, so
it is shown to implement the same `SessionService` with `InOrder` false: NetworkLib's
`mSendQ` is appended to under a lock, `m_sendBuffer` is a lock-free queue whose `Push` may
link behind a node that is not in the queue yet and return (`CLockFreeQueue.h:84`). A
message is therefore in the queue from the moment its `Push` raised `m_size`, once, since
`Pop` waits for what was counted; `PushSend` puts it at any place among the others. The accept thread (`accept`,
a slot from the stack, count 1, `OnAccept`, first receive) is a thread like the
others. `SessionLock` is one step with the comparison after it, as the count it has
raised keeps `m_SeqID` from changing, and when it has not (release bit) the
comparison is not made. `Disconnect` counts for itself, and returns into the worker
loop, into `Unicast`, or to its caller. `orphaned` is a history variable:
the slots in which a `Disconnect` with another id took the count to zero.
`RecvComplete` is abstracted to what it may do with the session: go on, disconnect
(too many, too long or broken messages), or give it up (checksum). What the lock-free queue and stack do inside is in LockFreeQueue and LockFreeStack.
`BroadCast` is `Unicast` for each id. Not in the model: `Stop`, which nothing calls,
and the message pool.

### LoginTls

The overrides of the login server, on top of LanServer: they hold the session's
`_srwSSL` from their first line to their last, so who holds the lock follows from the
positions of the workers (`Unlocked`) and it has no variable. OpenSSL is external; a
call tells whether bytes are to be sent and whether the handshake is done, goes on or
failed. `ClientWaits` gives the program its best case: a client in the handshake sends
nothing while an answer to it is with the system. The violation is found all the same.

### LoginServer

A step is what a thread does under one lock, or between two: that is where others can
come in. CLanServer is reduced to what it promises (ids to `OnAccept`, then
messages, one `OnRelease`). A callback
is one thread for each session, since LanServer's `SingleIO` has one receive at
a time. `OnRecv` inserts a packet anywhere in AuthThread's queue, since a `Push` of the
lock-free queue may return before its node is linked, so that the packets of a client that does not
wait may be handled out of order. The clients of the sessions in `Patient` wait for each answer
and leave after a login; the others send what they like. A failed login and an unknown account are
alike. A login that succeeds is to any of `Accounts`, which several sessions may use:
`tokens` is, for the Redis key `"session:" + accountNo` of each account, the sessions whose tokens were
put there, the last being what is there now; `told` is the accounts of whose login a
client was told. The
time is a `DWORD` that may move at any time, any number of times between two steps of a
thread. A `__debugbreak`
ends the process, as no debugger is attached. The length of an echoed text is
assumed to be within the buffer (512).

### LockFreeQueue

A step is one access to memory that other threads write. A pointer is a tag and a
node. The queue and the pool keep their link in the same field of a node, as in the
code when POOLTRACE is off, and the pool's links have no tag: `Alloc` can follow the
queue's link of a node handed out meanwhile, and its CAS must fail then. Shared fields
are read again in each round of a loop, as on x86 with interlocked operations between
the reads. `Spare` nodes have been through the queue before the start.

In `MessageQueue` messages may enter as a batch. `Push` compares `_next` with a null
without a tag, so it may link behind a node that was popped, released, handed out again
and is itself not linked yet; both messages come in when that node is linked. With four
pushes, two of one thread can be reversed in this way: the order in which one
thread's messages come out is not promised, and no property states it.

### LockFreeStack

CLanServer's free slots. A step is one access to shared memory, again, and a pointer a
tag and a node. The pool, which LockFreeQueue has in detail, is a set here (`free`): `Alloc`
returns any of its nodes, `Release` writes what it reads as the pool's top into the node's
`_next`, once or more, before the node is in the set. `Pop` on the dummy is modelled as the
code has it: `continue` leads to the CAS, which succeeds, and the dummy would go to the pool.
`stack` is a history variable, the pointers that are on the stack as Push and Pop changed it; that the
links agree with it is `NodesOwned`. The ring of debug records (`infos`), which nothing reads, is
left out.

## 3. Runs

| Run | What it shows | Instance |
|---|---|---|
| `netlib_safety` | types, exact reference count, release seen, single I/O, no lost wakeup, a slot to accept on, release bit, and that NetworkLib implements SessionService, messages in order | 2 workers, 1 application thread, 1 slot used by two connections, 2 messages |
| `netlib_live` | dead sessions are released, queued messages move | 1 worker (as `NetConfig.h`), 1 application thread, 1 slot, a build that reads `mSenqQSize` twice |
| `netlib_wrap` | violation: `mSenqQSize` wraps | a "short" of 4 bits, 8 messages |
| `recv_framing` | delivered messages are the client's frames, whole and in order; no frame waits in the buffer; no receive without room or over unread bytes; only bad frames disconnect | a buffer of 9 bytes (8 usable), frames of 1 to 6 payload bytes, 2 connections |
| `chat_clients` | sectors and players agree; messages find their player, nobody sleeps on a message, replies in order, honest clients are kept | 2 honest clients, 2 workers, 3 sectors in a row, 6 packets |
| `chat_any` | a client that sends anything, beside an honest one: what can stop the contents thread, and that players of disconnected clients leave while it runs | 1 honest client and 1 other, 2 sectors, 2 packets |
| `lan_safety` | exact count, release seen, single I/O, no lost wakeup, limited queue, and that CLanServer implements SessionService but for the order of messages | accept thread, 2 workers, 1 application thread, 1 slot used twice, 2 messages, limit 2 |
| `lan_disconnect` | violation: `Disconnect` leaves a count of zero to nobody | accept thread, 1 worker, 1 application thread |
| `tls_handshake` | violation: a handshake sends while the send before is not finished | accept thread, 2 workers, 1 slot |
| `login_tables` | a session is in one table; it puts one token into Redis, and its client is told after that; requests are dropped only for clients that are gone or logged in; no patient client meets a `__debugbreak` before its time-out; silent clients leave if there are heart-beats | 2 sessions, one of them patient, 1 account, 2 DB workers, 2 packets, a clock of 2 values |
| `lockfree_queue` | every node at one place; the queue implements MessageQueue; calls return; no deadlock | 2 threads, 3 pushes, 2 spare nodes |
| `lockfree_stack` | every node at one place; the dummy stays; the size comes out even; the stack implements MessageStack; no deadlock | 2 threads, 3 pushes, 3 nodes and the dummy |

The type invariants of ChattingServer, LanServer, LoginServer, LockFreeQueue and
LockFreeStack are proved (section 5) and need no run.

### Bounds, and why they are enough

`MaxSeq` (`MaxAccepts` in LanServer) bounds the connections (a slot must serve two for a stale id to meet
another session), `MaxMsgs` the messages (two, with at most one per send, make
a message wait for the one before it, and reach LanServer's limit), `MaxIOcnt` (`MaxIoCount`) the stale calls counted on a
released session. `RELEASE_IOCOUNT` is 16 instead of 2^14 and a "short" ends
at `2 * RELEASE_IOCOUNT - 1`; everything the code does with the bit is kept.
`MaxConn` (two, for what one connection leaves to the next), the streams (a
longest frame that fits, one byte more, frames ending at every offset),
`MaxPackets` (login, auth and a move or chat of each client). Constants that
only scale - slots, sectors, buffer - are shrunk. Symmetry is used for threads
and for honest clients in runs without liveness. Deadlock is not an error in
these systems: idle servers wait for clients, and a bound stops the rest. In
`lockfree_queue` and `lockfree_stack` it is checked: a thread can always call `Pop`.

In `login_tables` two sessions log in to one account, each with a request at a DB worker, or
one of them with both. A limit of 0 and a clock of two values let every entry be late or not,
and the clock wraps. Larger instances satisfy the safety properties in more time than the run has:
three packets (4.2 million states), a clock of three values with a limit of 1 (2.0 million),
and the four choices of patient clients (8.4 million); the
theorems of `LoginServer_proofs` hold for any number. In `lockfree_queue` three pushes and two
spare nodes are what it takes for a node to be taken out, handed out again, and linked to
by a thread that still holds it as tail; four pushes over one spare node are
satisfied too, in more time than the run has. `Tags` is larger than the number of
operations: a thread that sleeps through 131072 of them is left out. In `lockfree_stack`
three pushes put a node that a Pop holds as the old top back on top, over another node.

### Fairness

Threads keep running (weak fairness per thread). The port is FIFO, so no
completion is passed over for ever (strong fairness per kind of completion; weak
would not do, as other completions of the slot may be taken again and again). The
system completes the operations of a connection that was reset; a client owes
nothing. With two application threads that lock and unlock the same dead session
in turn for ever, the count need never reach zero: the liveness run has one such
thread. In ChattingServer the library releases a disconnected session
(`DeadIsReleased`), workers finish callbacks, the contents thread runs. In LoginServer
AuthThread handles packets and ends a heart-beat it began, the DB workers and begun callbacks run, and CLanServer
releases a disconnected session; `lan_disconnect` shows a case in which it does not, so
`SilentLeaves` holds outside that case. Nothing lets AuthThread find its queue empty, which is what
`HeartBeat` waits for (`SSL_CLoginServer.cpp:190`), or lets the time move: that heart-beats go on as the time does is
the hypothesis `Beats` of `SilentLeaves`, which says what HeartBeat does for a silent client when
it runs. Clients that keep the queue busy put it off, and in the model as in the code any
time may pass meanwhile. In LockFreeQueue a thread inside a
call keeps running; that it calls again is not assumed.

## 4. Findings

* `netlib_wrap`: `mSenqQSize` is a `short` (`Session.h:65`) and nothing limits the
  send queue. When more than 32767 messages are queued, `registerSend`
  (`A:319`) computes a negative count, dequeues nothing and calls `WSASend` with
  it, which fails with an error `checkAndHandleIoError` asserts never to see.
* `lan_disconnect`: the comment of `CLanServer::Disconnect` (`CNetworkLib.cpp:380`)
  says that the count cannot become 0 in it because workers call it. The heart-beat
  and DB threads of the login server call it too; with an id of an earlier session
  of the slot it can give back the last reference of the present one, and that
  session is never released. `SessionLock` tries the release in the same case.

* `tls_handshake`: the repository's `README.md:70-71` has a CAS admit a single
  sender. `RecvComplete` of the login server sets `m_flag` without one
  (`SSL_CLoginServer.cpp:638`) and sends with `m_sendOverlapped`, although the
  completion of the answer before may not have been handled. That completion then
  releases the messages of the second send while it is under way.

Four observations have no run of their own. One packet of a client stops the chat server
for everybody, in the cases `AssertionsHold` names: a size that is not that of its type
(the assertions of the handlers, or `Message`'s exception when type or number is
missing), an unknown type, a second CS_AUTH (`ChattingServer.cpp:401` asserts what the
`if` after it means to handle), and the server's own types, `ALLOC` for a session that has a
player (`:603`) and `DELETE` (`:618`), which fails at the session's `onRelease` when the
client sent one before. The property says that there are no others: no assertion about
sectors fails, and none for a client that keeps to the protocol. The second is about bytes, which the models do not have there: `RecvComplete`
(`SSL_CLoginServer.cpp:605`) leaves the plain text of an incomplete message in
`m_recvBuffer`, into which the next receive puts cipher text. Two are about the login server:
its key in Redis is the account's, so that a token may have been replaced
by another session's login before its client is sent it (`SSL_CLoginServer.cpp:418`, `:440`), and
`TokenStays` promises no more than that; and time-outs are looked at only when no packet waits
(`:190`), so that traffic puts them off.

The hazards of `PROJECT.json` list the rest of what is delicate, with the
properties that look at it.

## 5. Proofs

All theorems hold for every value of the constants that satisfies the named
assumptions of their module: any number of workers, application threads, slots,
sessions, sectors, messages and packets.

### NetworkLib

* `TypeCorrect`: `Spec => []TypeOK`;
* `RefCountHolds`, `ZeroIsSeenHolds`, `SingleIOHolds`, `ReleaseBitTheorem`: the
  reference count, the release and the single outstanding I/O, under `Room`;
* `SlotToAcceptHolds`: a worker that accepts again finds a slot;
* `NoLostWakeupHolds`, under `Unwrapped == MaxMsgs < 4 * RELEASE_IOCOUNT`;
* `ServiceImplemented`: `Spec => ServiceSpec`, under `Room`.

`Room` is `RELEASE_IOCOUNT > 3 + 2 * Cardinality(Workers) + Cardinality(Threads)` and
`MaxIOcnt < 2 * RELEASE_IOCOUNT`. The first says there is room below the
release bit for every reference threads and operations can hold (2^14 against a
handful); the second that a released session does not collect 2^14 stale calls,
without which the properties are false (`A:447`). `Unwrapped` says that fewer messages
come than bring `mSenqQSize` back to zero (`netlib_wrap` shows what a wrap does).

The reference count. `RefCount` is not inductive. A call raises the count of a slot
before it reads whose slot it is, and what it does then depends on the release
bit: so one must know that the bit of an open session is clear (its count stays
below `RELEASE_IOCOUNT`) and that of a closed one is set. The
invariant `IInv` is, beside the types, for every slot: `Counted`, the slot is in one
place and its count is the number of references; `Flagged`, a closed slot that has been
used has its bit set, and one never used is known to nobody, so nobody calls with its
id; `Tokens`, the operations outstanding are at most one receive and one send, which
bounds the count; `Seen`, an open slot whose count is zero has a thread before the CAS.
`OneTime` says that no slot is on the stack twice. Each action is a lemma
about the references it moves (a reference of a completion becomes one of a
worker, then of a system call, ...), counted as cardinalities of the sets of
threads at a label.

The wakeup. `Woken`, the property with a thread in place of the count of threads, is
inductive once `Senders` and `Bounded` say that a queue is no longer than the messages
begun, so that a size of zero is an empty queue: the thread that turns away from a slot
has either set the flag, or seen the queue empty.

The service. The abstract session is open from `onAccept` to `onRelease`, its pending
messages are `mSendMsgs` followed by the queue. `ServiceInv` gives each slot a stage,
`Early` from `AcceptEx` to `onAccept`, `Late` from `onRelease` to the next
`AcceptEx`, open in between (`Stage`); no message stays in a slot for its next session
(`Drained`); `registerSend` fills an empty `mSendMsgs` (`Ready`); ids are given once
and grow (`Ids`); and a thread that enqueues has the id of the session that lives in
the slot (`Known`). With `IInv` - whoever holds a reference holds the slot in its
stage, and who releases or accepts is alone - four kinds of step are seen by the
service (`onAccept`, `onRelease`, a completed send, an enqueued message), the others
are not: in particular `registerSend`, which moves messages from one sequence to the other,
and `ReleaseSession`, which throws away what is no longer pending.

### RecvFraming

`TypeCorrect`, `DeliveredHolds`, `RoomIsFreeHolds`, `NoFrameLeftHolds`, for every size of
the buffer and of the header and all streams, and `ClosesOnlyBadHolds` under
`Roomy == Size > 1` (it is 2001, `NetConfig.h:25`).

The invariant describes the ring with the bytes of a receive already in it (`Rear`, as
the system has written them before `completeRecv` moves `mRearPtr`): what was sent was
delivered or is unread, and there are at most `Size - 1` unread bytes (`Counted`); they
are those of the stream, in order from the first unread offset around the end (`Holds`), and
the rest of the buffer has none of them (`Only`), which makes the header of the next
frame the one that is read (`HeaderRead`); what was delivered is a beginning of the
stream (`Whole`); the room of a receive is what is free (`Offered`, `RoomPlaces`); and
whoever asks for more bytes has seen that the next frame is not complete (`Waits`). The
offsets are plain arithmetic, once `At` says where the byte j places behind the first is. Where the
frames begin is a recursive function of the stream: that it exists, and grows, is shown
by induction (`SetInduction`, stated for sets and shown by counting).

### ChattingServer

`TypeCorrect`, `SectorsMatchHolds`, `PlayerFoundHolds`, `AssertionsHoldAlways`,
`EventFollowsHolds`, `RepliesInOrderHolds` and `HonestKeptHolds`, without further
assumptions, in the presence of clients that send anything. The
invariant is `TypeOK`, sectors and event as the properties have them, `Stopped` (the contents
thread stops at an assertion that `Stops` lists) and `Order`: for each session of an
honest client, whose messages are whole and of a client's types (`Proper`, `Packets`), the messages in the queue and in the hands of the workers that push and of the
contents thread are, in this order, at most one that makes the player, packets, and at
most one that deletes it, and the player exists exactly between the two. Of other
clients this is false, as they send such messages themselves; `SectorsMatch` does not
need it.

For the last two and `AssertionsHoldAlways`, `Dialogue` puts every open session of an honest client in one of six
stages, from what the client knows, what is in its socket, which of its packets are in
the queue and what its Player says: `Idle`, `Asked`, `LoggedIn`, `Refused`, `Entered`,
`Inside`. Inside, any number of packets wait; `Leads` says that there is one for each
number from `SeqNumber` to the client's next, and that they lead the player, sector by
sector (`way`), from where it is to where the client believes it to be. So the next
packet is the one expected, and a move is never one to the sector the player is in.
What a released session left in the queue is handled in the same order; its
client asks for a CS_AUTH at most once (`AsksOnce`, `ReleasedDialogue`), so that no
assertion is reached by it (`HonestGoesOn`).

### LanServer

`TypesOK`, `RefCountHolds`, `ZeroIsSeenHolds`, `SingleIOHolds`, `NoLostWakeupHolds`,
`QueueLimitedHolds` and `ServiceImplemented`, all under
`BitRoom == RELEASE > 3 + 3 * Cardinality(Threads)`: the count of an open session stays
below the release bit (2^47 against three references per thread and three more). It is
needed as in NetworkLib: what a call does with a slot depends on that bit.

The argument is that of NetworkLib where the programs agree: the invariant is the
types, `OneTime` (no slot is on the stack twice), and for each slot `Counted`,
`Flagged`, `Tokens` and `Seen`. That the count is not negative is not a type: it follows
from `Counted`. `Disconnect` makes the difference. It gives back a reference without
looking, and may give back the last one; so `Seen` lets a slot be `orphaned` instead of
seen by a thread, as `ZeroIsSeen` does.

For the wakeups, `SendInv` says of each slot: `Drained`, it goes back to the stack with an
empty queue; and while the session lives, `FlagKept`, the flag is set only while somebody is
there to clear it, `Woken`, a queue that is not empty has such a sender or a thread that will
try for the flag, `Limited`, a queue over the limit has a thread that is about to disconnect
the session. `Known` says that a thread that pushes has the id of the session in the slot,
so none writes to a slot that is given back. Both lean on the first invariant: a call that
holds a reference keeps its slot off the stack and its id in place (`HeldOpen`), and a thread
that sends does so with the flag set (`SenderHasFlag`).

For the service, the abstract session is open from `OnAccept` to `OnRelease`, and its
pending messages are `m_sendOverlapped` followed by the queue: a message put at place `i` of the
queue is put `i` places behind what is being sent (`InsertBehind`). `ServiceInv` says of each slot:
`Stage`, it is served, opening (`AcceptSession` to `OnAccept`), idle (pushed or on its way to
the stack) or lost (its connection had no port), and only the first has a session the application
knows; `Emptied`, a slot that is not served holds no message for its next session; `Ready`,
the thread about to fill `m_sendOverlapped` finds it empty. Globally: ids are given once and
grow (`Ids`, `Fresh`), a call names a session that was given (`Named`), and what is pushed was
numbered (`Numbered`). `Counted` and `Tokens` make the thread that opens, releases or sends the
only one of its kind on the slot, and `Known` puts a push into the session it was sent to. `OnAccept`, `OnRelease`,
a completed send and `PushSend` are the steps the service sees; every other step leaves its
state as it was. TLC checked `ServiceInv` before the proof, on the instance of `lan_safety`.

### LoginServer

`TypeCorrect`, `OnePlaceHolds`, `TokenStaysHolds`, `PatientIsSafeHolds`,
`DroppedIsGoneHolds`. The first needs `Counted`: `_DB_ReqCnt`
is at least the number of DB workers with a request, so it does not become negative although
dropped requests stay counted. `OnePlace` rests on the fact that a DB worker that has taken a
session out of the wait table is the only one that enters it in the other, and nobody
enters it in the first again. `TokenInv` adds where a session with a token is: `Left`, neither in
the wait table nor with a worker that moves it, and no longer before its `OnAccept`. That holds
from the worker's second lock on, when it is the only one about to write for its session, and
no worker has written (`Writer`); so what it appends under the key of its account is the
session's first token (`Single`), and is there when it answers (`Answer`). Other sessions may append under the same key at any time.

For `PatientIsSafe`, `Patience` says of each patient client that was not expired that it
is in turn: `Calm`, every packet was answered and nothing of it is under way, or `Asks`,
its session is open and exactly one packet is in exactly one place, the queue, AuthThread's
hands, the completion port or one DB worker. Until that worker takes the session out, it
is in the wait table, so an echo finds it; and a release begins only when nothing is under
way, so one that misses the wait table finds the session in the other. The four places are
counted with `None` and `One`, about elements of a sequence.

`DroppedIsGone` adds up a function with the fold of the community modules. Its equation has a
solution (`SumExists`) and one more at one place is one more in the sum (`SumGrows`), both by
induction over the subsets of a finite set, stated for sets (`SubsetInduction`). `Known`,
packets and requests are of sessions that were accepted, makes `OnePlace` say where the session of
a dropped request is.

### LockFreeQueue

`TypeCorrect`, `NodesOwnedHolds`, `QueueSpecHolds`, under the module's assumption that there
are more tags than messages. The invariant (`IInv`, its parts in `Kept`) says that there are

* lists of nodes, one for the pool, one for the queue and one for each thread's hands (`L`),
  in which each node made is once, and which the links join: a thread has in its hands the
  node it is to link and what others linked behind it;
* a pointer to each node (`w`), with the tag of its last Push, that it is or will be
  linked by;
* a place for each message (`at`): a thread, a node, or an index of `taken`;
* the pointers that have been in the queue (`seen`) and on top of the pool (`tops`).

These are quantified and not variables: a step gives the next ones. A thread's locals are
stale most of the time, so nothing is said of the node a local points to, only that the pointer
was seen: a node on its way into the queue carries a pointer that was not (`HandUnseen`,
`HandUntopped`), because its tag is newer than any before (`Counts` keeps the counters below
`Tags`). So if a local pointer is in the queue or the pool now, it has been there since it was
read, and what was read from its node is still so (`AllocLocals`, `TailLocals`, `HeadLocals`):
that is what each CAS that succeeds relies on. The CAS of `_next` compares no tag. It may hit a
node in another thread's hands, and the two lists become one; `Ordered` (a thread that links
behind another's node has the older tag) keeps a thread from linking a node behind
itself. `MadeBound`, no more nodes than messages and one, counts the threads that hold a node.

`NodesOwned` and `QueueSpec` speak of walks along `_next`. `WalkOf` says that a walk from the
first node of a path is the path, by induction on what is left of it; `WalksExist` shows
that the recursive function has a value. Then the walk from `_head` is the queue's
list in every state, also the next one (`View`), a Link behind the queue's last node is
`Enter` with the messages of the list in hand, a PopCAS that succeeds is `Take`, `CallPush` is
`Begin`, and every other step leaves the view as it was. Before the proof TLC checked the
invariant with lists, pointers and places computed from the state: two threads,
three pushes, with two spare nodes and with none, and a simulation of three threads.

### LockFreeStack

`TypeCorrect`, `NodesOwnedHolds`, `BottomStaysHolds`, `SizeSettlesHolds`, `StackSpecHolds`,
under the module's assumption that there are more tags than pushes. With `stack` as a variable
no walk is needed, and `IInv` is `NodesOwned` with

* `Counts`: `m_size` is the length of the stack less the pushes not counted yet and the Pops
  that counted themselves, and the stack is as long as the pushes not counted and the Pops that
  were let in are many. So a Pop that goes round finds a node above the dummy, and
  at rest the size is exact. The same for `m_seqNumber`, which therefore does not wrap, and
  for the messages;
* `Fresh`: nobody has seen the pointer that a Push is about to put on top, because every tag
  that was read is at most `m_seqNumber` (`Own`, `Entered`) and a pointer's tag is newer than
  what was read before;
* `Seen`: what a Pop read from the old top is still so if that pointer is on the stack: it has
  been there since, as it cannot come back with its tag. That makes the value the CAS
  puts on top the next pointer of the stack (ABA);
* `Names`: the message of a Push is on no node of the stack and was not taken.

Each is disturbed by few steps: those that leave the stack alone (`Quiet`) change no node of
it (`StackKept`), and `Enters` and `Takes`, the CASes that succeed, put a pointer before the
list or take it off (`IsOver`). They are also the steps that `MessageStack` sees, with
`CallPush`. TLC checked `IInv` before the proof, with two threads and three pushes and
with three threads and two.

### Model-checked only

`MsgCntInRange` (violated in `netlib_wrap`) and all liveness (`DeadIsReleased`, `QueuedMoves`, `PlayerLeaves`, `SilentLeaves`, `CallsEnd`), which is
beyond the prover.

## 6. Not modelled

* `Stop` of CLanServer and the destructors: no server calls `Stop`, and the processes end by
  being closed.
* CObjectPoolLib and CLockFreeMemoryPool: not used by the servers.
* MT_CRingBuffer: the offsets of RingBuffer once more.
* DeadLockGuard: compiled in with DEADLOCK_GUARD only, to stop a thread that takes a lock
  twice.
* EchoServer: its `onAccept` has another signature than the pure virtual of this
  revision's library, and it does not call `start()`.
* The bytes of TLS records, and how many pieces OpenSSL makes of the messages of a send.
* Redis, the database and OpenSSL themselves: external, with every outcome the code
  looks at.
* cpp_redis and tacopie, vendored twice, which are most of the lines of the repository;
  Message and SerializeBuffer (copying within one buffer), CDB (calls of the
  MySQL library), Parser, logging, profilers, CPU usage, crash dumps, WinAPI wrappers
  and the monitor threads.

What could be added: liveness of LanServer.
