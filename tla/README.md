# A TLA+ model of grpclib

grpclib is a pure Python gRPC client and server on asyncio and hyper-h2. These
modules model its concurrent core: what happens between two `await`s, who wakes
whom, who cancels whom, and who gives back what. TLC checks small instances,
TLAPS proves the safety properties for every value of the constants.

## 1. Inventory of the system

| part | state | operations | talks to |
|---|---|---|---|
| `server.Server`, `server.Handler` (`server.py`) | `_handlers`, `_server_closed_fut`, `_gc_counter`; per connection `_tasks`, `_cancelled`, `closing` | `start`, `close`, `wait_closed`, `accept`, `cancel`, `close`, the collectors | is called by `EventsProcessor`; owns the request tasks |
| `request_handler`, `server.Stream` (`server.py`) | flags `_send_*_done`, `_cancel_done`; the wrapper | receive, send, trailers, `__aexit__` | `protocol.Stream`, the user's method |
| `protocol.EventsProcessor`, `H2Protocol` | `streams`, `processors` | one handler per h2 event, `register`, `release_stream`, `close` | h2, asyncio transport, `Handler` |
| `protocol.Stream.send_data`, `Connection` | `write_ready`, `window_updated`, h2's windows | send loop, `pause_writing`, `resume_writing` | transport, h2 |
| `protocol.Buffer` | `_unacked`, `_acked`, `_acked_size`, `_eof` | `add`, `eof`, `read`, `unacked_size` | `Connection.ack`, h2's inbound windows |
| `protocol.Connection._ping` | two timers, `ping_count_in_sequence` | `_ping`, `ping_ack_process`, `close` | h2, transport |
| `client.Channel` | `_protocol`, `_state`, `_connect_lock` | `__connect__`, `close` | asyncio, `client.Handler` |
| `client.Stream`, the methods of a stub | flags of the call, wrapper, stream | `send_request`, `send_message`, `end`, `recv_*`, `cancel`, `__aexit__` | `Channel`, `protocol.Stream` |
| `utils.Wrapper`, `DeadlineWrapper` | `_tasks`, `_error` | `__enter__`, `__exit__`, `cancel`, `start` | asyncio tasks |
| `metadata.Deadline`, the `grpc-timeout` header | none | conversions | both sides |
| `utils.graceful_exit` | a flag | two stages | signals, `Server` |
| `health.ServiceCheck`, `ServiceStatus`, `Health` | `_value`, `_last_check`, `_check_lock`, `_events`, waits | `__check__`, `_poll`, `Check`, `Watch` | the server |
| `metadata`, `config`, `events`, `stream`, `encoding` | little or none | conversions, validation, callbacks | |

The hard behaviours are interleavings of callbacks on one event loop. A
cancellation is delivered later than it is requested, and never to the body of a
task that has not started. `data_received()` handles a batch of events without
yielding. `Event.set()` schedules waiters that run after the event may have been
cleared again. A connection can be lost, closed by the peer, closed by a timer
or aborted by asyncio between any two steps. `PROJECT.json` lists these hazards
line by line and the properties that cover them.

## 2. Modules

    ServerRequests <- GracefulExit   MCServerRequests, MCGracefulExit, ServerRequestsProofs
    Timeouts <- ServerStream -> Rpc  MCServerStream, ServerStreamProofs
    SendFlow                         MCSendFlow, SendFlowProofs
    RecvFlow -> ByteStream           MCRecvFlow, RecvFlowProofs
    Keepalive                        MCKeepalive, KeepaliveProofs
    ChannelConnect                   MCChannelConnect, ChannelConnectProofs
    ClientCall                       MCClientCall, ClientCallProofs
    Health                           MCHealth, HealthProofs

`X` holds the state, the actions and the properties, `XProofs` extends it with
the theorems, `MCX` gives its constants values. `GracefulExit` extends the server
with the program that runs it; `ServerStream` uses `Timeouts` and implements `Rpc`,
its abstract specification, as `RecvFlow` implements `ByteStream`. The models meet at what one takes from the other: the
keepalive timer of `Keepalive` is the action `KeepaliveTimeout` of the others, the frames of
`SendFlow` and the chunks of `RecvFlow` are the waits "sending" and "message" of
`ClientCall` and `write` of `ServerStream`, the requests whose task `ServerRequests` tracks are
seen from inside in `ServerStream`.

`"map"` in `PROJECT.json` names the lines each definition stands for. Operators called
`...Mutant` (or with a name that says what is forgotten) are wrong variants of the
definition that follows them; the specifications do not use them.

### ServerRequests

All connections of a server, each with its `EventsProcessor` and its `Handler`,
and the task of every request. `task[s]` is the place of a request in
`request_handler()`; `cancelReq` holds the tasks whose `CancelledError` has not
been delivered; `wrapErr` the streams whose `Wrapper._error` is set. An action is
what runs between two awaits. The events of one `data_received()` call form a batch
(`batch`): while it is handled nothing else runs, and an event can find a task that
was created earlier in the batch and has not started, which is where the
difference between "cancelled" and "never ran" comes from. `DATA` is counted only
as units held unacknowledged (`RecvFlow` has the rest), a message as one unit.

`link` tells the ways a connection ends apart: `EventsProcessor.close()` after
GOAWAY or a protocol error ("closed"), the keepalive timer, which closes the
transport and tells nobody ("silent"), asyncio aborting the transport because
`data_received()` raised ("failing"), and `connection_lost()` ("lost").

The user's method may read, return, raise, catch its cancellation and clean up
for a while; a cleanup ends (assumed).

### GracefulExit

A program that starts the server of `ServerRequests` and other servers inside
`graceful_exit()`, in any order, and may close them itself. A signal may come at any
moment, also while `Server.start()` waits in `create_server()` and connections are accepted
already. The first stage closes every server that is started and raises
SystemExit if one was not; later signals raise it in any case; leaving the block removes the
signal handlers. Assumed of the program: after SystemExit it starts no server. The
event loop still runs, because `asyncio.run()` cancels and awaits what is left.

### ServerStream, Timeouts and Rpc

One request, from the headers of the client to its last frame, in `ServerStream`. The method is
arbitrary user code: it may send initial metadata, messages, trailers or a reset, return
or raise at any moment, and handle or pass on what is raised at it. What it raises may be a status, a
CancelledError of its own ("interrupt"), or a GRPCError whose message or details cannot be
encoded ("unsendable"). Every send is
a listener (if `Listened` says so; those of `call.failing` may raise whatever a method may), then a wait for `write_ready`, then frames; at each
of these awaits the deadline, a reset, the end of the connection or `Server.close()` may cancel
the task. `__aexit__()` adds the status the method has not sent, through the same
steps (`ret = "exit"`). The flags of `server.Stream` are the set `done`; what h2 has sent is in
`phase`, `count`, `status` and `broken`. These four are the variables of `Rpc`, which says what the client
may see. `Refines` is the refinement.

A method that handles what interrupted it in the middle of a message and goes on has left the client
an incomplete message, of which the stream keeps no note. The history variable `cut` records it; in `Rpc`
it is the action `GiveUp`, after which, and only then, OK may follow what is incomplete. `stopped` is a
history variable too: a cancellation has come that is not the deadline's.

The call (`call \in Requests`) gives the fault of its headers that `request_handler()`
meets first, a missing `:method` or `:path` among them, the kinds of metadata it has, and the times of its timeout. `Timeouts` has
the conversion of a timeout to the header and back as functions on ticks; a nanosecond is
`Scale` ticks, because the floats of the code fall between nanoseconds, and two
units are `Scale` apart (1000 in the code, 2 in the run, any in the proof).
Floats are taken for exact.

Assumed: one task uses the stream; a misuse, which
raises ProtocolError, is a method that raises. Reads are in `RecvFlow`.

### SendFlow

`send_data()` of several streams that share a connection. A sender keeps the loop
(`running`) until it waits for `write_ready` or `window_updated`. h2's outbound
windows are modelled by their values, the peer opens them by WINDOW_UPDATE and moves
them by SETTINGS, also below zero. The transport's `write()` may take bytes
at once or buffer them, and pauses the protocol above its high-water mark.
Sizes are those of the DATA payload.

### RecvFlow

The `Buffer` of several streams of a connection. Bytes are positions in the
stream, a chunk is where it begins and its size; so "no byte is lost, repeated
or reordered" can be said without bytes. `read()` is modelled loop by loop. h2's
`WindowManager`, which decides when acknowledged bytes are announced, is
modelled (external) because a wait for the peer depends on it.
Bounds: `MaxQueue` chunks wait in a queue, a frame without data is not padded,
and a reader that was told of the end twice reads no more.

`ByteStream` says what reads promise to their callers, without chunks, credit or windows: a read takes
the bytes it was asked for in one step, waits only while they have not arrived and may still come, and
takes nothing when it is told of the end, fails or is cancelled. The refinement mapping hides
the loops: a reader that collects chunks is "reading", and what it has collected is not returned yet
(`Returned`). A frame without bytes, which the code takes for the end, is the one excuse for a
read that fails while more is there (`more`).

### Keepalive

The pings of one connection in ticks. A configuration, with the delay within which a living
peer answers, is chosen at the start. Timers count down and fire at 0 before the next
tick; `flight` holds the ages of the pings without an answer, because
`ping_ack_process()` does not look at which ping is answered. The peer may die at any
moment. Bounds: ages and the number of pings are counted up to the value beyond which
the code cannot tell them apart. `None` for the limits of pings, which the
validators admit and the comparisons do not, is outside `ConfigType`.

### ChannelConnect

Concurrent `Channel.__connect__()` calls, the `asyncio.Lock` they queue on (handed over
in order), `Channel.close()`, and the ends of connections. `Conns` is a bound
on how many connections are created.

### ClientCall

The calls of a client on one connection, from `__aenter__()` to `__aexit__()`. `pc[p]` is
the await at which a call is, `stream[p]` what its `client.Stream`, its `Wrapper` and its
`protocol.Stream` hold; the record is blanked when the call ends, because nobody
uses the objects any more. A call is cancelled by `Wrapper.cancel()` only while
its task is in the wrapper (`InWrapper`): not in user code, not in `end()`, which
waits outside. `open` are the streams that h2 counts against the server's
MAX_CONCURRENT_STREAMS; it is h2's own view and stays as it is on a connection that is
gone. `woken` keeps the calls whose `write_ready.wait()` will return although the event
was cleared again. `link` is as in `ServerRequests`, without "failing".

A call is made by user code in any order of its operations, or by a method of a stub
(`Generated`): send everything, read one reply or all, leave. The answer is what
`_raise_for_status()`, `_raise_for_content_type()` and `_process_grpc_status()` tell apart:
headers that are good, of a wrong `:status` or content type, or final with a
status; trailers with a good or a bad status; END_STREAM without trailers.
`Timed`, `Streaming`, `Replying` and `Cancelling` say what else a call may do. The window
is in `SendFlow`, the bytes of messages in `RecvFlow`; a listener or a codec that fails is a body that
raises.

### Health

A service with a `ServiceCheck` and a `ServiceStatus`; Check requests, Watch requests and poll
tasks. `task[t]` is where a caller of `__check__()` is: in the function, waiting for the lock
that another holds, woken, or asleep in `_poll()`. The lock is an `asyncio.Event`: whoever waits for it
goes on after one `set()`, whatever the value is. A watcher has an event per check and
a task that waits for it; `isSet` and `waitDone` keep the two apart, because the event
is cleared only for waits that are done. Bounds: as many poll tasks at a time as `Pollers`.
The function of a check lets the cancellation of its task pass; it may also raise a CancelledError of
its own (`FuncCancelled`), which ends a poll task ("dead") that `_poll_task` still names. Unknown services and services without checks, which
answer with a constant, are left out.

## 3. What the runs check

| run | instance | states | shows |
|---|---|---|---|
| `server_requests` | 1 connection, 2 requests, collector every 2nd request | 683,131 | streams are released exactly at the end of their request, no task gets out of reach, no request goes on undisturbed after a close |
| `server_shutdown` | `GracefulExit` with 2 connections, 1 request, 1 other server | 293,294 | signals leave no server open; the server's collector, `close()` and `wait_closed()`; under fairness, the end of requests on lost connections and the return of `wait_closed()` |
| `server_stream` | 14 requests: faults, metadata, unary and streaming, with and without failing listeners, 5 timeouts; messages of 2 frames | 707,340 | `server.Stream` implements `Rpc`, a request ends without a status only in the named cases, the deadline travels |
| `send_flow` | 2 senders of 4 and 3 bytes, frames of 2, windows 0, 1 and 3, connection window 2, marks 1 and 0 | 117,329 | no lost wake-up, windows respected, buffer bounded, everybody ends |
| `recv_flow` | 2 streams of 4 and 1 bytes, windows 3 and 4, reads of 1 and 4, padding 1 | 136,754 | bytes in order, credit conserved, `Buffer.read()` implements `ByteStream`, reads end |
| `keepalive` | 28 configurations, delays of 1 to 4 ticks | 7,654 | a peer that answers in time is kept, a silent one dropped in time |
| `channel_connect` | 3 calls, 3 connections | 4,990 | one connection, none forgotten, every call returns |
| `client_call` | 2 calls, one a stub's unary method with a deadline, one by hand, streaming and perhaps cancelled; limit 1 | 2,678,830 | slots freed, a waiting call has somebody to wake it, a call ends as the server said |
| `client_live` | 1 call, timed or not; limits 0 and 1 | 54,658 | deadline and loss of the connection end the call, but for two waits |
| `client_hang` | the same | violation | those two waits never end |
| `health` | 2 watchers, 1 caller, 2 poll tasks, symmetric | 3,554,118 | one check at a time, one poll task, no change lost to a watcher |
| `health_timeout` | 1 caller, nobody watches | violation | a check outlives its timeout |

Why the bounds are enough. Two requests make the collector of `Handler` run with
one task in each state, and one request is enough for the race of the two collectors
with shutdown; the properties are about single requests, and proved for any
number. One other server is enough for a signal that finds one of two started. The
requests of `server_stream` have a timeout on each side of a change of unit, with a Scale of 2 so that
truncation is large, and one that has run out on arrival; two frames make a message
that can be cut, two messages the difference of streaming. Two senders are the least
that compete for a window, and messages larger than window, frame and mark reach every
branch of the loop. A read of 4 bytes with a window of 3 must be credited before it is
complete. The keepalive configurations have pings further apart than the timeout and
closer, by either of the two limits, and delays below, at and above the timeout.
Three calls let one connect, one wait and one come late. Two calls are
the least of which one waits for the slot of the other. One of them has a deadline and one reply, so that
the clauses of `OutcomeIsServers` about timeouts and replies are met. To keep this instance small a stub's
method that reads many replies is left to the proofs, a limit that changes and users who cancel tasks to
`client_live`; that nobody cancels a task here makes `OutcomeIsServers` demand that no call ends with a CancelledError. For liveness one call is taken:
other calls reach it only by using up the limit, which a limit of 0 does too. Two watchers are the
least of which one leaves while the other comes, two poll tasks the least of which one
is still ending; watchers, and poll tasks, are interchangeable and no property of that run is
temporal, so their symmetry is sound.
`MaxUnread`, `MaxSettings`, `MaxQueue`, `MaxMessages`, `Conns` and `Pollers` cap counters; the
proofs do not depend on their values. Deadlock is not checked where the system
really may stop: calls, connections and programs end.

### Fairness

* The event loop runs what is scheduled: weak fairness of every step of a task that is ready, of the
  delivery of cancellations and of the end of a batch.
* `Flushed` is strongly fair: a task woken by `write_ready` runs even if the
  event is cleared meanwhile. `ResumeWriting` is weakly fair while the transport lives: a
  peer that stays connected reads, or the connection is lost.
* In `SendFlow` the transport drains and the peer gives back windows. `SendersEnd`
  excuses a peer that leaves its initial window at zero for good.
* In `RecvFlow` the peer sends what it has and ends its streams; a handler that is
  not waiting reads on or leaves.
* In `ClientCall` every ready step of a task runs, timers fire, and user code goes on
  until it leaves the call. The peer owes nothing: no fairness of `ResumeWriting`, of
  answers (a message that comes is the peer's step, too) or of changes of the limit.
* In `ChannelConnect` an attempt to connect ends, at the latest by the operating system's timeout.
* In `Health` the timer fires and ready tasks run; how long the function of a check takes
  is up to the application.
* `GracefulExit` adds none: the program and the signals owe nothing.

`asyncio.Server.wait_closed()` returns at once or, in newer Python versions, when all
connections are gone: `ListenerClosed` may happen at any time after `close()`,
and the liveness properties begin there.

### Findings

1. `client_hang`: `client.Stream.end()` waits for `write_ready` outside the wrapper, and
   `protocol.Stream.send_request()` waits before the stream is registered. The loss of the
   connection ends neither, and the deadline only the second, although
   `docs/changelog/index.rst:231` says that calls no longer hang when the connection
   is lost. `LossEndsCalls` and `DeadlineEndsCalls` show that there are no other ways.
2. `health_timeout`: `check_timeout` is the "timeout for this check" (`check.py:73`), but
   `__check__()` starts the timer without entering the wrapper (`check.py:110`): the timer has no
   task to cancel. A function that does not return holds the lock, and every later check
   waits for it.

What else the models have and the properties take into account:

* A task cancelled before its first step does not run the `finally` of `request_handler()`: its
  stream stays registered and its unread DATA is never acknowledged
  (`RegisteredWhileLive`; `docs/changelog/index.rst:166` says that all unread data is).
* A reset request that waits for `write_ready` to send its trailers is out of reach when the
  connection is lost: the reset has popped its task from `_tasks`, and `Server.wait_closed()`
  never returns. `WaitClosedReturnsOrAbandoned` shows that this is the only way.
* `Buffer.read()` takes an empty DATA frame for the end of the stream (`Check` of `RecvFlow`): a read that
  needs more fails, or is told of an end that has not come, although the peer goes on (`more` of `ByteStream`).
* A call that leaves when the transport is closing does not wait for its
  status and counts as succeeded; so does a call that was cancelled (`OutcomeIsServers` names both).
* If the server ends the stream without trailers, `recv_trailing_metadata()` waits until
  the deadline, or for ever without one.
* A call that met a limit of 0 is not woken when the server raises MAX_CONCURRENT_STREAMS
  (protocol.py:595): `SlotIsComing` is about limits above 0.
* A stream that is opened on a connection closed during the wait for `write_ready` is never
  released (client.py:206-212): `StreamsReleased` is about living connections.
* `Channel._state` may stay CONNECTING although the channel is connected (client.py:745).
* `client.Stream.end()` waits outside the wrapper here as well: if the server has answered with an error
  and reset the stream, what the user gets from `end()` is h2's StreamClosedError, and the server's status is
  lost, although `docs/changelog/index.rst:134` has `__aexit__()` raise the proper GRPCError after a
  RST_STREAM. `FailsFirst` names this place among those where a failure of the call goes before an
  error of the server; at the others the user has caused it, or a message cannot be read.
* A request whose timeout has run out on arrival is answered with UNKNOWN: `start()` raises outside
  the `try` that makes it DEADLINE_EXCEEDED.
* These requests end without a status although the client could be told (`RequestsAnswered` names
  them): no `:method` or `:path` (`server.py:380`, `405`: KeyError, inbound headers are not
  validated), metadata that is not base64, a connection that was closed before the first step
  (`get_peer()`), a listener of the trailing metadata that fails in `__aexit__()`, GRPCError(Status.OK) from a
  unary method without a message, a message or details of a status that cannot be encoded, and a
  CancelledError that the method raises by itself.
* A streaming method that is in the middle of a message when `Server.close()` cancels it may handle
  the CancelledError, as the docstring invites it to (`server.py:721-723`), and return: OK follows an
  incomplete message. So it does after any other interruption of a send that the method handles (`GiveUp` of `Rpc`).
* A function of a health check that raises a CancelledError of its own, say of a task that it awaits, ends the poll task, and
  `_poll_task` stays set: nobody polls until the last watcher has left (`PolledWhileWatched` names it).
* The server's deadline is later than the client's by what the request waits between the
  computation of the header and the network (`DeadlinePropagated`).
* If answers to pings come later than the next ping, a late one stops the timer of another ping:
  `SilentPeerDropped` excludes such peers.
* A caller that waited for the check of another returns the old value if that check was cancelled.
* An acknowledgement that is handled after the keepalive timer has closed the connection, or a second
  `close()` of the processor, meets attributes that are gone; no model goes on after that.

## 4. What is proved

For every value of the constants (under the `ASSUME` of each module, which TLC evaluates):

* **ServerRequests**: type correctness and the safety properties of the module. They are
  inductive together as `TypeOK /\ TaskInv /\ ServerInv /\ CloseIsHeeded`. `TaskInv` adds to the
  properties that the sets hold only tasks that exist and that `_cancelled` holds
  only tasks that were cancelled; `ServerInv` that open connections have a handler,
  that only closed connections close their handler before shutdown, and that what
  was stopped stays within reach of `wait_closed()` (`StoppedInReach`,
  `WaitTracksStopped`). `CloseIsHeeded` is what the end of requests under fairness rests on: a request
  whose connection or server was closed has a CancelledError on its way, is cleaning up or is
  sending its trailers. It follows step by step from `NoOrphanTask`: a close cancels
  what is in `_tasks`, and what a reset has moved out of it is leaving already (`OutOfReachLeaves`).
  That a reset finds its task (`ResetIsSafe`) is a consequence of `NoOrphanTask` and
  `RegisteredWhileLive`.
* **GracefulExit** (in `ServerRequestsProofs`): `ProgramRunsServer`, that every behaviour of the program is one
  of `ServerRequests`, step by step or stuttering, so that every safety theorem about the server
  holds in the program (`ProgramWaitsForRequests` draws one); and `SignalStopsServers`, which
  is inductive by itself because nothing but `ServerClose` writes `srv`.
* **ServerStream**: type correctness, `RequestsAnswered`, `DeadlinePropagated` and the refinement
  of `Rpc`. `RequestsAnswered` is inductive with the rest because `pending` keeps what `__aexit__()` could not
  send, and `TaskMatches` says that a cancellation on its way is the deadline's, inside the wrapper, or
  one that `stopped` has noted. The invariant `StreamInv` relates the flags `done` to the frames
  (`FlagsMatchFrames`), says that what is being sent may be sent (`SendIsLegal`: the checks of the
  methods were made before an await, their effect comes after it) and where a task in each state can be
  (`TaskMatches`). Each step of the stream then maps to a step of `Rpc` or a stutter. For the
  deadline, `DeadlineComputed` says that it is what `FromHeaders` made of the header, and
  lemmas about division bound what the encoding loses.
* **SendFlow**: type correctness, `NoLostWakeup`, `WindowsRespected` (an action
  property), `MessagesAreWhole` (a sender is done with its last byte and not before) and
  `BufferBounded`, whose invariant `BufferInv` counts the senders
  that have been woken and have not used their frame yet. `NoLostWakeup` needs two facts of its
  environment (`WakeInv`): the connection's window is never overdrawn, and a paused transport is above its
  low-water mark, so that draining it resumes the senders.
* **RecvFlow**: type correctness, `BytesInOrder`, `AckedSizeExact`, `NoWaitAfterEnd`, `CreditConserved`,
  `PeerMaySend` and the refinement of `ByteStream`. `RecvInv` adds that one reader is inside a loop
  (`OneRuns`), what a read has collected (`ReadsInHand`), that the mark of the end is the last in the queue
  (`EndIsLast`) and that a chunk's credit covers its data (`CreditCovers`). Lemmas about
  contiguous chunks (`ChainAppend`, `ChainTail`, `ChainCut`) carry the sequences.
  Credit is a sum over queues and streams, which would need induction over data; here it is the
  cardinality of a set of units, each named by its stream, its chunk and its number (`Held`), and appending
  to a queue or taking its head adds or removes a set of known size (`CreditInHand` keeps the sets
  finite). With `AnnouncedInTime`, which is what h2's `WindowManager` does, it follows that a reader that has
  taken all there is has left at least half of the window open (`PeerMaySend`): the
  reason why a message larger than the window arrives. The refinement rests on `ReadInv`, which relates what is
  buffered to what has arrived; each action maps to one step of `ByteStream` or a stutter.
* **Keepalive**: type correctness, `AnsweringPeerKept` and `SilentPeerDropped`. `KeepaliveInv` adds that the
  ping that set the close timer is still unanswered (`TimerHasPing`), that the pings of a living peer
  are as young as its delay and as old as the timers say (`PingsAreYoung`), and
  that a peer that answers before the next ping owes one answer at most (`OnePing`).
* **ChannelConnect**: type correctness, `LockMatches`, `NoStrayConnection`, `OneConnection`.
  The invariant adds that nobody creates a connection while the channel has one. `QueueMatches` and
  `WaitersAreServed` are proved on top: the queue of the lock is exactly the calls that wait,
  and they wait for a call that is creating a connection, or the first of them is about to take the
  lock; cancelled calls leave the queue wherever they are in it.
* **ClientCall**: type correctness, `StreamsReleased`, `SlotsFreed`, `SlotIsComing`,
  `CloseCancelsCalls` and the action property `OutcomeIsServers`. `CallInv` adds that the
  active calls are the registered ones (`ActiveAreRegistered`), that GOAWAY closes the
  transport (`ClosedByGoaway`) and that a call without a request has no status
  (`StatusOfActive`). The proof has one lemma for each piece of a step (`FinishInv`,
  `GotoInv`, `EnterInv`, `AbortInv`, `HoldInv`, `WrapperCancelInv`), and the
  actions follow from those. The outcome rests on three more. By `ReadInv` a call that
  went on after headers or trailers has seen no error in them (`AnswerRead`), and a generated
  method that is at its exit has read what it returns (`LeftWhenRead`). By `KnownInv` h2 refuses no write
  of a call that has no error yet, unless the call has closed its stream itself
  (`RefusalsAreKnown`), and only plain headers are followed by a wait for trailers (`TrailersAwaited`): with
  `WrapperIsHeeded` and `CloseCancelsCalls` it follows that a write in the wrapper never hides
  what the server said. That only a user who cancels sees
  a CancelledError, and a timeout only who has set a deadline, rests on `WrapperInv`, about
  what becomes of cancellations: a call inside its wrapper with an error has a CancelledError on its way
  (`WrapperIsHeeded`, a theorem of its own), a CancelledError that the user did not cause is one the wrapper will
  replace (`OnlyUsersCancel`), and timers and timeouts belong to calls with deadlines that are running
  (`TimersOfTimed`). The same invariant gives the action property `DeadlineIsKept`: only firing and the end of
  the call stop a deadline's timer.
* **Health**: type correctness, `OneCheckAtATime` (with the waiters of the lock: none waits while it is free), `PolledWhileWatched` and `WatcherUpToDate`; the only
  thing to add is that watchers are registered (`Registered`). A poll task that its function has ended counts
  as the one of `_poll_task` until the last watcher leaves.

Only model-checked: everything under fairness (`SendersEnd`, `ReadsEnd`,
`ConnectReturns`, `DeadlineEndsCalls`, `LossEndsCalls`, `LostConnectionEndsRequests`,
`WaitClosedReturnsOrAbandoned`), which needs ENABLED. The safety part of each is proved, that
nobody waits for what will not come: `WakeInv` and `NoLostWakeup`, `PeerMaySend` and `NoWaitAfterEnd`,
`WaitersAreServed`, `DeadlineIsKept`, `CloseCancelsCalls` and `WrapperIsHeeded`, and `CloseIsHeeded`.

Proved, and for that reason listed by no run: `AckedSizeExact`, `NoWaitAfterEnd`, `PeerMaySend`,
`MessagesAreWhole`, `QueueMatches`, `WaitersAreServed`, `StreamsReleased`, `CloseCancelsCalls`, `WrapperIsHeeded`,
`DeadlineIsKept`, `ClosedMeansCancelled`, `CloseCancelsAll` and `ResetFindsTask`.

## 5. What is not modelled

`PROJECT.json` lists every component. Left out for good: the code generator, the
reflection and channelz services, codecs and test helpers (no concurrency, no
state of their own); the validators of the configuration, which run once before anything else; the
encodings of metadata and messages character by character. The wording of errors, logging,
statistics and event payloads are abstracted everywhere.

Next, in this order:

1. A call and its request together: `ClientCall` and `ServerStream` on one connection, with the
   frames between them, so that the client's outcome is the server's status.
2. Listeners of the client's events as awaits of their own, as `ServerStream` has the server's.
3. Several services in `Health`, which share checks.
