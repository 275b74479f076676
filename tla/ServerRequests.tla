--------------------------- MODULE ServerRequests ---------------------------
(***************************************************************************)
(* The server side of grpclib: the lifecycle of request tasks.             *)
(*                                                                         *)
(* Each connection has an EventsProcessor (protocol.py), which keeps the   *)
(* registered streams, and a Handler (server.py), which keeps the asyncio  *)
(* task of every request.  A request task runs request_handler() and, in   *)
(* its `finally', releases its stream.  Tasks are cancelled by the peer    *)
(* (RST_STREAM, GOAWAY), by the loss of the connection, by their deadline  *)
(* and by Server.close(); Server.wait_closed() waits for cancelled tasks.  *)
(*                                                                         *)
(* asyncio runs one callback at a time: an action is what happens between  *)
(* two awaits.  data_received() handles a whole batch of events without    *)
(* yielding, so no other callback runs while batch # NoConn.               *)
(***************************************************************************)
EXTENDS Naturals, FiniteSets

CONSTANTS
    Conns,          \* the connections the server may accept
    NoConn,         \* "no data_received() is running"
    Streams,        \* the requests of all connections
    ConnOf,         \* the connection of each request
    Slow,           \* connections whose peer may stop reading
    Timed,          \* requests that carry a grpc-timeout header
    GCInterval,     \* __gc_interval__ (10 in the code)
    MaxUnread       \* bound: flow-controlled DATA units held per stream

ASSUME ServerAssumption ==
    /\ ConnOf \in [Streams -> Conns]
    /\ NoConn \notin Conns
    /\ Slow \subseteq Conns
    /\ Timed \subseteq Streams
    /\ GCInterval \in Nat \ {0}
    /\ MaxUnread \in Nat

VARIABLES
    srv,        \* Server: "running", "closed" once close() was called
    handlers,   \* Server._handlers, a handler is named by its connection
    srvGC,      \* Server._gc_counter modulo the interval
    link,       \* transport: "none", "open", "closed" (EventsProcessor.close()),
                \*   "silent" (closed by the keepalive timer alone), "failing"
                \*   (asyncio aborts it), "lost"
    paused,     \* connections with write_ready cleared
    batch,      \* the connection whose data_received() is running
    registered, \* EventsProcessor.streams, of all connections
    closing,    \* handlers with Handler.closing set
    tasks,      \* Handler._tasks, of all handlers
    cancelled,  \* Handler._cancelled, of all handlers
    hGC,        \* Handler._gc_counter modulo the interval
    task,       \* where each request's task is
    cancelReq,  \* tasks with a CancelledError not yet delivered
    wrapErr,    \* streams whose Wrapper._error is set
    reset,      \* streams the peer has reset
    unread,     \* DATA held in the stream's buffer and not acknowledged
    waiter,     \* Server.wait_closed(): "idle", "server", "handlers", "done"
    hwait,      \* the Handler.wait_closed() tasks it has created
    waitSet,    \* tasks those are waiting for
    hit,        \* history: tasks cancelled at least once
    stopped     \* history: requests unfinished when the server was closed

serverVars == <<srv, handlers, srvGC>>
connVars   == <<link, paused>>
handVars   == <<closing, tasks, cancelled, hGC>>
taskVars   == <<task, cancelReq, wrapErr>>
waitVars   == <<waiter, hwait, waitSet>>
vars == <<serverVars, connVars, batch, registered, handVars, taskVars, reset,
          unread, waitVars, hit, stopped>>

(* "abort": in _abort(), "exit": in server.Stream.__aexit__(), both waiting
   for write_ready; "body": in the wrapper, running the user's method;
   "cleanup": in the user's method, which caught a CancelledError;
   "dropped": cancelled before its first step, request_handler() never ran. *)
Phases == {"none", "created", "abort", "body", "cleanup", "exit", "done",
           "dropped"}

Finished(s) == task[s] \in {"done", "dropped"}
Live(s)     == task[s] \notin {"none", "done", "dropped"}
Of(c)       == {s \in Streams : ConnOf[s] = c}
Wrapped(s)  == task[s] \in {"body", "cleanup"}
Idle        == batch = NoConn

(* request_handler() has set the stream's wrapper. *)
HasWrapper(s) == task[s] \in {"body", "cleanup", "exit"}

(* Transport.is_closing() and Connection.is_closing(). *)
IsClosing(c) == link[c] # "open"

TypeOK ==
    /\ srv \in {"running", "closed"}
    /\ handlers \subseteq Conns
    /\ srvGC \in 0 .. GCInterval - 1
    /\ link \in [Conns -> {"none", "open", "closed", "silent", "failing", "lost"}]
    /\ paused \subseteq Conns
    /\ batch \in Conns \cup {NoConn}
    /\ registered \subseteq Streams
    /\ closing \subseteq Conns
    /\ tasks \subseteq Streams
    /\ cancelled \subseteq Streams
    /\ hGC \in [Conns -> 0 .. GCInterval - 1]
    /\ task \in [Streams -> Phases]
    /\ cancelReq \subseteq Streams
    /\ wrapErr \subseteq Streams
    /\ reset \subseteq Streams
    /\ unread \in [Streams -> 0 .. MaxUnread]
    /\ waiter \in {"idle", "server", "handlers", "done"}
    /\ hwait \in [Conns -> {"none", "pending", "waiting", "done"}]
    /\ waitSet \subseteq Streams
    /\ hit \subseteq Streams
    /\ stopped \subseteq Streams

Init ==
    /\ srv = "running"
    /\ handlers = {}
    /\ srvGC = 0
    /\ link = [c \in Conns |-> "none"]
    /\ paused = {}
    /\ batch = NoConn
    /\ registered = {}
    /\ closing = {}
    /\ tasks = {}
    /\ cancelled = {}
    /\ hGC = [c \in Conns |-> 0]
    /\ task = [s \in Streams |-> "none"]
    /\ cancelReq = {}
    /\ wrapErr = {}
    /\ reset = {}
    /\ unread = [s \in Streams |-> 0]
    /\ waiter = "idle"
    /\ hwait = [c \in Conns |-> "none"]
    /\ waitSet = {}
    /\ hit = {}
    /\ stopped = {}

-----------------------------------------------------------------------------
(* Pieces of several handlers.                                             *)

(* task.cancel() on every task of S: nothing happens to a finished task, and
   a second request before the task runs is absorbed by the first. *)
CancelTasks(S) ==
    LET live == {s \in S : Live(s)}
    IN  /\ cancelReq' = cancelReq \cup live
        /\ hit' = hit \cup live

(* __gc_step__() counts modulo the interval and collects at zero. *)
TickMutant(n) == n + 1
Tick(n) == (n + 1) % GCInterval

(* A mutant: only tasks inside their wrapper are cancelled. *)
CloseHandlersMutant(H, W) ==
    LET mine == {s \in tasks : ConnOf[s] \in H}
    IN  /\ CancelTasks({s \in mine \cup W : Wrapped(s)})
        /\ cancelled' = cancelled \cup mine
        /\ closing' = closing \cup H

(* A mutant: _cancelled.update() is forgotten. *)
CloseForgets(H, W) ==
    LET mine == {s \in tasks : ConnOf[s] \in H}
    IN  /\ CancelTasks(mine \cup {s \in W : Wrapped(s)})
        /\ closing' = closing \cup H
        /\ UNCHANGED cancelled

(* Handler.close() of the handlers H, with Wrapper.cancel() of the streams W
   that are terminated in the same call. *)
CloseHandlers(H, W) ==
    LET mine == {s \in tasks : ConnOf[s] \in H}
    IN  /\ CancelTasks(mine \cup {s \in W : Wrapped(s)})
        /\ cancelled' = cancelled \cup mine
        /\ closing' = closing \cup H

(* EventsProcessor.close(): Connection.close() closes the transport, then the
   handler is closed and every registered stream is terminated. *)
ProcessorClose(c) ==
    LET here == registered \cap Of(c)
    IN  /\ CloseHandlers({c}, here)
        /\ wrapErr' = wrapErr \cup {s \in here : HasWrapper(s)}

(* A mutant: the collector drops the tasks that were cancelled. *)
CollectedMutant(S, H) == {s \in S : ConnOf[s] \in H => s \notin hit}

(* Handler.__gc_collect__() of the handlers H over the task set S. *)
Collected(S, H) == {s \in S : ConnOf[s] \in H => ~Finished(s)}

(* Server.__gc_collect__() and check_closed(): the handlers that are closing
   and have no task left in T and C.  The mutant forgets _cancelled. *)
ReapableMutant(T, C) == {h \in handlers \cap closing : T \cap Of(h) = {}}
Reapable(T, C) == {h \in handlers \cap closing : (T \cup C) \cap Of(h) = {}}

(* A mutant: release_stream() does nothing on a closing connection. *)
ReleaseMutant(s) ==
    IF IsClosing(ConnOf[s]) THEN UNCHANGED <<registered, unread>>
    ELSE /\ registered' = registered \ {s}
         /\ unread' = [unread EXCEPT ![s] = 0]

(* release_stream(): the stream is removed and, unless the connection is
   closing, the DATA its buffer still holds is acknowledged. *)
Release(s) ==
    /\ registered' = registered \ {s}
    /\ unread' = IF IsClosing(ConnOf[s]) THEN unread
                 ELSE [unread EXCEPT ![s] = 0]

Goto(s, p) == task' = [task EXCEPT ![s] = p]

(* The task leaves request_handler(): its `finally' releases the stream. *)
Finish(s) == Goto(s, "done") /\ Release(s)

Stay == UNCHANGED <<registered, unread>>

-----------------------------------------------------------------------------
(* The Server object.                                                      *)

(* _protocol_factory() and connection_made(): one step of the collector, a
   new handler. *)
Connect(c) ==
    LET collect == Tick(srvGC) = 0
        T == IF collect THEN Collected(tasks, handlers \cap closing) ELSE tasks
        C == IF collect THEN Collected(cancelled, handlers \cap closing)
             ELSE cancelled
    IN  /\ Idle
        /\ srv = "running"
        /\ link[c] = "none"
        /\ link' = [link EXCEPT ![c] = "open"]
        /\ srvGC' = Tick(srvGC)
        /\ tasks' = T
        /\ cancelled' = C
        /\ handlers' = (IF collect THEN handlers \ Reapable(T, C) ELSE handlers) \cup {c}
        /\ UNCHANGED <<srv, paused, batch, registered, closing, hGC, taskVars,
                       reset, unread, waitVars, hit, stopped>>

(* Server.close(); it may be called again. *)
ServerClose ==
    /\ Idle
    /\ srv' = "closed"
    /\ CloseHandlers(handlers, {})
    /\ stopped' = IF srv = "running" THEN {s \in Streams : Live(s)} ELSE stopped
    /\ UNCHANGED <<handlers, srvGC, connVars, batch, registered, tasks, hGC, task,
                   wrapErr, reset, unread, waitVars>>

-----------------------------------------------------------------------------
(* Network events.  An event extends the batch data_received() is handling or
   begins one.  A read callback runs after the first step of every task created
   by an earlier one, which asyncio had queued before it: only events of the
   same batch can reach a task that has not started. *)
CanReceive(c) ==
    /\ link[c] = "open"
    /\ \/ batch = c
       \/ Idle /\ \A s \in Of(c) : task[s] # "created"

Receiving(c) == CanReceive(c) /\ batch' = c

EndBatch(c) ==
    /\ batch = c
    /\ batch' = NoConn
    /\ UNCHANGED <<serverVars, connVars, registered, handVars, taskVars, reset,
                   unread, waitVars, hit, stopped>>

(* Handler.accept(): one step of the collector, a new task. *)
Accept(s) ==
    LET c == ConnOf[s]
        collect == Tick(hGC[c]) = 0
    IN  /\ hGC' = [hGC EXCEPT ![c] = Tick(hGC[c])]
        /\ tasks' = (IF collect THEN Collected(tasks, {c}) ELSE tasks) \cup {s}
        /\ cancelled' = IF collect THEN Collected(cancelled, {c}) ELSE cancelled
        /\ Goto(s, "created")

(* process_request_received(), register(), Handler.accept(). *)
RequestReceived(s) ==
    /\ Receiving(ConnOf[s])
    /\ task[s] = "none"
    /\ registered' = registered \cup {s}
    /\ Accept(s)
    /\ UNCHANGED <<serverVars, connVars, closing, cancelReq, wrapErr, reset,
                   unread, waitVars, hit, stopped>>

(* process_data_received(): DATA of a stream that is no longer registered is
   acknowledged at once and leaves no trace here. *)
DataReceived(s) ==
    /\ Receiving(ConnOf[s])
    /\ task[s] # "none"
    /\ s \notin reset
    /\ s \in registered
    /\ unread[s] < MaxUnread
    /\ unread' = [unread EXCEPT ![s] = @ + 1]
    /\ UNCHANGED <<serverVars, connVars, registered, handVars, taskVars,
                   reset, waitVars, hit, stopped>>

(* Handler.cancel() of a task it knows. *)
HandlerCancel(s) ==
    /\ tasks' = tasks \ {s}
    /\ cancelled' = cancelled \cup {s}
    /\ CancelTasks({s})

(* process_stream_reset(), Stream.__terminated__(), Handler.cancel(). *)
StreamReset(s) ==
    LET c == ConnOf[s]
    IN  /\ task[s] # "none"
        /\ s \notin reset
        /\ reset' = reset \cup {s}
        /\ \/ /\ s \notin registered
              /\ Receiving(c)
              /\ UNCHANGED <<wrapErr, tasks, cancelled, cancelReq, hit, link>>
           \/ /\ s \in registered \cap tasks
              /\ Receiving(c)
              /\ wrapErr' = wrapErr \cup {t \in {s} : HasWrapper(t)}
              /\ HandlerCancel(s)
              /\ UNCHANGED link
           \/ /\ s \in registered \ tasks    \* KeyError leaves data_received()
              /\ CanReceive(c)
              /\ link' = [link EXCEPT ![c] = "failing"]
              /\ batch' = NoConn
              /\ wrapErr' = wrapErr \cup {t \in {s} : HasWrapper(t)}
              /\ CancelTasks({t \in {s} : Wrapped(t)})
              /\ UNCHANGED <<tasks, cancelled>>
        /\ UNCHANGED <<serverVars, paused, registered, closing, hGC, task,
                       unread, waitVars, stopped>>

(* process_connection_terminated(), or a ProtocolError raised by feed().  The
   table of processors is deleted: the rest of the batch is ignored. *)
ConnectionTerminated(c) ==
    /\ CanReceive(c)
    /\ link' = [link EXCEPT ![c] = "closed"]
    /\ batch' = NoConn
    /\ ProcessorClose(c)
    /\ UNCHANGED <<serverVars, paused, registered, tasks, hGC, task,
                   reset, unread, waitVars, stopped>>

(* connection_lost(): EventsProcessor.close(), a second time after a GOAWAY. *)
ConnectionLost(c) ==
    /\ Idle
    /\ link[c] \in {"open", "closed", "silent", "failing"}
    /\ link' = [link EXCEPT ![c] = "lost"]
    /\ ProcessorClose(c)
    /\ UNCHANGED <<serverVars, paused, batch, registered, tasks, hGC, task,
                   reset, unread, waitVars, stopped>>

(* No ping was acknowledged in time: Connection.close(), without the handler
   and the streams. *)
KeepaliveTimeout(c) ==
    /\ Idle
    /\ link[c] = "open"
    /\ link' = [link EXCEPT ![c] = "silent"]
    /\ UNCHANGED <<serverVars, paused, batch, registered, handVars, taskVars,
                   reset, unread, waitVars, hit, stopped>>

(* pause_writing(), resume_writing(): called by the transport while it lives. *)
PauseWriting(c) ==
    /\ Idle
    /\ link[c] = "open"
    /\ c \in Slow \ paused
    /\ paused' = paused \cup {c}
    /\ UNCHANGED <<serverVars, link, batch, registered, handVars, taskVars,
                   reset, unread, waitVars, hit, stopped>>

ResumeWriting(c) ==
    /\ Idle
    /\ link[c] \in {"open", "closed", "silent"}
    /\ c \in paused
    /\ paused' = paused \ {c}
    /\ UNCHANGED <<serverVars, link, batch, registered, handVars, taskVars,
                   reset, unread, waitVars, hit, stopped>>

-----------------------------------------------------------------------------
(* request_handler(), one step of one task.                                *)

(* The first step.  A task cancelled before it gets its CancelledError at the
   start of the coroutine, before the `try': nothing of the code runs. *)
Start(s) ==
    /\ Idle
    /\ task[s] = "created"
    /\ \/ /\ s \in cancelReq
          /\ Goto(s, "dropped")
       \/ /\ s \notin cancelReq
          /\ \E p \in {"abort", "body"} : Goto(s, p)
    /\ cancelReq' = cancelReq \ {s}
    /\ UNCHANGED <<serverVars, connVars, batch, registered, handVars, wrapErr,
                   reset, unread, waitVars, hit, stopped>>

(* The user's method reads a message. *)
Read(s) ==
    /\ Idle
    /\ Wrapped(s) /\ s \notin cancelReq
    /\ unread[s] > 0
    /\ unread' = [unread EXCEPT ![s] = @ - 1]
    /\ UNCHANGED <<serverVars, connVars, batch, registered, handVars, taskVars,
                   reset, waitVars, hit, stopped>>

(* The deadline's timer: Wrapper.cancel(). *)
DeadlineExpired(s) ==
    /\ Idle
    /\ s \in Timed \ wrapErr
    /\ Wrapped(s)
    /\ wrapErr' = wrapErr \cup {s}
    /\ CancelTasks({s})
    /\ UNCHANGED <<serverVars, connVars, batch, registered, handVars, task,
                   reset, unread, waitVars, stopped>>

(* The wrapper is left with a CancelledError.  Wrapper.__exit__() replaces it
   by _error, and Stream.__aexit__() turns that into trailers unless the
   transport is closing; a plain CancelledError ends the task. *)
LeaveCancelled(s) ==
    IF s \in wrapErr /\ ~IsClosing(ConnOf[s])
    THEN Goto(s, "exit") /\ Stay
    ELSE Finish(s)

(* A CancelledError is delivered. *)
Cancelled(s) ==
    /\ Idle
    /\ s \in cancelReq
    /\ cancelReq' = cancelReq \ {s}
    /\ \/ /\ task[s] \in {"abort", "exit"}
          /\ Finish(s)
       \/ /\ task[s] = "body"
          /\ \/ Goto(s, "cleanup") /\ Stay
             \/ LeaveCancelled(s)
       \/ /\ task[s] = "cleanup"
          /\ LeaveCancelled(s)
    /\ UNCHANGED <<serverVars, connVars, batch, handVars, wrapErr, reset,
                   waitVars, hit, stopped>>

(* The user's method returns or raises: __aexit__() sends trailers. *)
Return(s) ==
    /\ Idle
    /\ task[s] = "body" /\ s \notin cancelReq
    /\ \/ ~IsClosing(ConnOf[s]) /\ Goto(s, "exit") /\ Stay
       \/ IsClosing(ConnOf[s]) /\ Finish(s)
    /\ UNCHANGED <<serverVars, connVars, batch, handVars, cancelReq, wrapErr,
                   reset, waitVars, hit, stopped>>

(* The user's method ends its cleanup, raising CancelledError again or not. *)
CleanupEnd(s) ==
    /\ Idle
    /\ task[s] = "cleanup" /\ s \notin cancelReq
    /\ \/ LeaveCancelled(s)
       \/ ~IsClosing(ConnOf[s]) /\ Goto(s, "exit") /\ Stay
    /\ UNCHANGED <<serverVars, connVars, batch, handVars, cancelReq, wrapErr,
                   reset, waitVars, hit, stopped>>

(* write_ready was set: headers or trailers are sent, or StreamClosedError is
   swallowed, and the task ends. *)
Flushed(s) ==
    /\ Idle
    /\ task[s] \in {"abort", "exit"} /\ s \notin cancelReq
    /\ ConnOf[s] \notin paused
    /\ Finish(s)
    /\ UNCHANGED <<serverVars, connVars, batch, handVars, cancelReq, wrapErr,
                   reset, waitVars, hit, stopped>>

-----------------------------------------------------------------------------
(* Server.wait_closed().                                                   *)

WaitClosed ==
    /\ Idle
    /\ waiter = "idle"
    /\ waiter' = "server"
    /\ UNCHANGED <<serverVars, connVars, batch, registered, handVars, taskVars,
                   reset, unread, hwait, waitSet, hit, stopped>>

(* _server_closed_fut is done and the listener is closed: one task per handler
   that is in _handlers now. *)
ListenerClosed ==
    /\ Idle
    /\ waiter = "server"
    /\ srv = "closed"
    /\ hwait' = [c \in Conns |-> IF c \in handlers THEN "pending" ELSE "none"]
    /\ waiter' = IF handlers = {} THEN "done" ELSE "handlers"
    /\ UNCHANGED <<serverVars, connVars, batch, registered, handVars, taskVars,
                   reset, unread, waitSet, hit, stopped>>

(* Handler.wait_closed() starts: asyncio.wait() copies _cancelled. *)
HandlerWait(c) ==
    /\ Idle
    /\ hwait[c] = "pending"
    /\ waitSet' = waitSet \cup (cancelled \cap Of(c))
    /\ hwait' = [hwait EXCEPT ![c] = IF cancelled \cap Of(c) = {} THEN "done"
                                      ELSE "waiting"]
    /\ UNCHANGED <<serverVars, connVars, batch, registered, handVars, taskVars,
                   reset, unread, waiter, hit, stopped>>

HandlerWaited(c) ==
    /\ Idle
    /\ hwait[c] = "waiting"
    /\ \A s \in waitSet \cap Of(c) : Finished(s)
    /\ hwait' = [hwait EXCEPT ![c] = "done"]
    /\ UNCHANGED <<serverVars, connVars, batch, registered, handVars, taskVars,
                   reset, unread, waiter, waitSet, hit, stopped>>

WaitReturn ==
    /\ Idle
    /\ waiter = "handlers"
    /\ \A c \in Conns : hwait[c] \in {"none", "done"}
    /\ waiter' = "done"
    /\ UNCHANGED <<serverVars, connVars, batch, registered, handVars, taskVars,
                   reset, unread, hwait, waitSet, hit, stopped>>

-----------------------------------------------------------------------------

ConnStep(c) ==
    \/ Connect(c) \/ EndBatch(c)
    \/ ConnectionTerminated(c) \/ ConnectionLost(c) \/ KeepaliveTimeout(c)
    \/ PauseWriting(c) \/ ResumeWriting(c)
    \/ HandlerWait(c) \/ HandlerWaited(c)

StreamStep(s) ==
    \/ RequestReceived(s) \/ DataReceived(s) \/ StreamReset(s)
    \/ Start(s) \/ Read(s) \/ DeadlineExpired(s) \/ Cancelled(s)
    \/ Return(s) \/ CleanupEnd(s) \/ Flushed(s)

Next ==
    \/ ServerClose \/ WaitClosed \/ ListenerClosed \/ WaitReturn
    \/ \E c \in Conns : ConnStep(c)
    \/ \E s \in Streams : StreamStep(s)

(* The event loop runs every callback that is ready and data_received()
   returns.  A user's cleanup ends.  asyncio reports the loss of a transport it
   aborts.  A peer that stays connected drains the
   transport; a task woken by write_ready is not put back to sleep by a later
   pause, hence the strong fairness of Flushed. *)
Fairness ==
    /\ WF_vars(ListenerClosed) /\ WF_vars(WaitReturn)
    /\ \A c \in Conns :
        /\ WF_vars(EndBatch(c)) /\ WF_vars(ResumeWriting(c))
        /\ WF_vars(link[c] = "failing" /\ ConnectionLost(c))
        /\ WF_vars(HandlerWait(c)) /\ WF_vars(HandlerWaited(c))
    /\ \A s \in Streams :
        /\ WF_vars(Start(s)) /\ WF_vars(Cancelled(s)) /\ WF_vars(CleanupEnd(s))
        /\ SF_vars(Flushed(s))

Spec == Init /\ [][Next]_vars
FairSpec == Spec /\ Fairness

-----------------------------------------------------------------------------
(* Safety.                                                                 *)

(* server.py:474-475, protocol.py:551-556.  A stream leaves
   EventsProcessor.streams exactly when its request ends: never while its task
   can still run, and never later, except for a task that was cancelled before
   its first step, whose `finally' does not exist yet. *)
RegisteredWhileLive ==
    \A s \in Streams : s \in registered <=> Live(s) \/ task[s] = "dropped"

(* A CancelledError is on its way to the task, or it has reached it. *)
Leaving(s) == s \in cancelReq \/ task[s] \in {"cleanup", "exit"}

(* server.py:513-547, protocol.py:656-657.  The event loop holds tasks weakly
   and the closes only reach tasks through these sets: across gc, cancel() and
   close(), a task that is not finished is in _tasks of its handler, where the
   next reset finds it, or a reset has moved it to _cancelled and it is leaving. *)
NoOrphanTask ==
    \A s \in Streams :
        Live(s) => s \in tasks \/ (s \in cancelled \cap reset /\ Leaving(s))

(* protocol.py:560-567, server.py:539-543.  Once EventsProcessor has closed a
   connection every unfinished request of it has been cancelled, whichever events of the same
   batch created it. *)
ClosedMeansCancelled ==
    \A s \in Streams :
        link[ConnOf[s]] \in {"closed", "lost"} /\ Live(s) => s \in hit

(* protocol.py:560-567, server.py:529-543, utils.py:50-76.  No request goes on
   undisturbed after its connection or the server was closed, whatever it was
   doing and whatever had cancelled it before: its CancelledError is on its way
   or it is cleaning up.  It may be sending its trailers if the server alone was
   closed, or if a reset had put it out of reach. *)
CloseIsHeeded ==
    \A s \in Streams : Live(s) =>
        /\ s \in stopped => Leaving(s)
        /\ link[ConnOf[s]] \in {"closed", "lost"} =>
              Leaving(s) /\ (task[s] = "exit" => s \in cancelReq \cup reset)

(* protocol.py:656-657, server.py:534-537.  A reset of a stream that is still
   registered finds its task in _tasks (pop() would raise KeyError inside
   data_received(), which costs the connection), unless the task was dropped. *)
ResetFindsTask ==
    \A s \in registered \ reset : s \in tasks \/ task[s] = "dropped"

(* server.py:634-636, 549-551.  A handler the collector removed from _handlers
   has no running request: Server.close() and wait_closed() miss nothing. *)
ReapedHandlerIsIdle ==
    \A s \in Streams : Live(s) => ConnOf[s] \in handlers

(* server.py:733-744.  When wait_closed() returns, every request that was
   unfinished when the server was closed has ended, in spite of the collector
   and of requests that arrive meanwhile. *)
WaitClosedSound ==
    waiter = "done" => \A s \in stopped : Finished(s)

(* server.py:534-537.  A stopped request was cancelled at once: no request that
   existed when close() was called goes on undisturbed. *)
CloseCancelsAll == stopped \subseteq hit

-----------------------------------------------------------------------------
(* The facts that make the safety properties inductive.                    *)

KnownTasksExist == \A s \in tasks \cup cancelled : task[s] # "none"

CancelledAreHit == \A s \in cancelled : Live(s) => s \in hit

OpenHasHandler == \A c \in Conns : link[c] = "open" => c \in handlers

(* Until the server is closed only a closed connection closes its handler. *)
ClosingMeansClosed ==
    srv = "running" => \A c \in closing : link[c] \in {"closed", "lost"}

(* What was stopped stays within reach of wait_closed() until it ends. *)
StoppedInReach ==
    /\ srv = "running" => stopped = {}
    /\ \A s \in stopped : /\ task[s] # "none"
                          /\ ConnOf[s] \in handlers
                          /\ Finished(s) \/ s \in cancelled

WaitTracksStopped ==
    /\ waiter \in {"idle", "server"} => \A c \in Conns : hwait[c] = "none"
    /\ waiter \in {"handlers", "done"} =>
          srv = "closed" /\ \A c \in handlers : hwait[c] # "none"
    /\ waiter = "done" => \A c \in Conns : hwait[c] \in {"none", "done"}
    /\ \A s \in stopped :
          /\ hwait[ConnOf[s]] = "waiting" => Finished(s) \/ s \in waitSet
          /\ hwait[ConnOf[s]] = "done" => Finished(s)

TaskInv ==
    /\ RegisteredWhileLive
    /\ NoOrphanTask
    /\ KnownTasksExist
    /\ CancelledAreHit
    /\ ClosedMeansCancelled

ServerInv ==
    /\ ReapedHandlerIsIdle
    /\ OpenHasHandler
    /\ ClosingMeansClosed
    /\ CloseCancelsAll
    /\ StoppedInReach
    /\ WaitTracksStopped

-----------------------------------------------------------------------------
(* Liveness, under FairSpec.                                               *)

(* A request waits for a write_ready that nobody will set again, and nobody is
   left to cancel it: a reset has popped its task from _tasks. *)
Abandoned(s) ==
    /\ task[s] = "exit" /\ s \in reset
    /\ link[ConnOf[s]] = "lost" /\ ConnOf[s] \in paused

(* server.py:539-543, utils.py:72-76.  After the loss of a connection each of
   its requests ends, except those that are abandoned. *)
LostConnectionEndsRequests ==
    \A s \in Streams :
        link[ConnOf[s]] = "lost" ~> (~Live(s) \/ Abandoned(s))

(* server.py:733-744.  wait_closed() returns however many requests were being
   cancelled, cleaning up or sending trailers, unless one is abandoned. *)
WaitClosedReturnsOrAbandoned ==
    (waiter = "handlers") ~> (waiter = "done" \/ \E s \in Streams : Abandoned(s))

=============================================================================
