----------------------------- MODULE ClientCall -----------------------------
(***************************************************************************)
(* The calls of a client on one connection: client.Stream with its Wrapper *)
(* and its deadline, and protocol.Stream.send_request(), which waits for a *)
(* writable transport and for one of the streams the server allows.        *)
(*                                                                         *)
(* A call is cancelled through its Wrapper, which knows the task only      *)
(* inside `with self._wrapper', by EventsProcessor if the stream is        *)
(* registered and by the deadline's timer; the user may cancel the task.   *)
(* How messages are cut into frames is in RecvFlow and SendFlow.  User     *)
(* code lets exceptions pass and makes no protocol mistakes other than to  *)
(* leave without ending the outgoing stream.                               *)
(***************************************************************************)
EXTENDS Naturals, FiniteSets

CONSTANTS
    Calls,          \* the calls
    Timed,          \* calls that may have a deadline
    Streaming,      \* calls whose client may send many messages
    Replying,       \* calls whose server may send many messages
    Generated,      \* calls made by the methods of a stub, not by open()
    Cancelling,     \* calls whose task the user may cancel
    Limits          \* what the server gives to MAX_CONCURRENT_STREAMS

ASSUME CallAssumption ==
    /\ IsFiniteSet(Calls) /\ Timed \subseteq Calls
    /\ Streaming \subseteq Calls /\ Replying \subseteq Calls
    /\ Generated \subseteq Calls /\ Cancelling \subseteq Calls
    /\ Limits \subseteq Nat /\ Limits # {}

VARIABLES
    pc,         \* where each call is, see Places
    result,     \* how it ended, see Results
    stream,     \* what its client.Stream, Wrapper and protocol.Stream hold
    cancelReq,  \* calls with a CancelledError not yet delivered
    registered, \* EventsProcessor.streams
    open,       \* h2: streams that are not closed
    limit,      \* h2: MAX_CONCURRENT_STREAMS of the server
    goaway,     \* h2: the connection is in the state CLOSED
    link,       \* transport: "open", "closed" (EventsProcessor.close()),
                \*   "silent" (closed by the keepalive timer alone), "lost"
    paused,     \* write_ready is not set
    woken       \* calls that waited for write_ready when it was set

connVars == <<limit, goaway, link, paused>>
callVars == <<pc, result, stream, cancelReq, registered, open>>
vars == <<callVars, connVars, woken>>

(* "top": in send_request(), waiting for write_ready or about to, "noslot":
   waiting for stream_close_waiter, "body": in user code; the others are
   waits, the last two those of __aexit__(). *)
Opening == {"top", "noslot"}
Active  == {"body", "sending", "ending", "resetting", "headers", "message",
            "trailers", "exitHeaders", "exitTrailers"}
Places  == Opening \cup Active \cup {"new", "done"}
Errors  == {"none", "terminated", "timeout"}
Results == Errors \cup {"ok", "status", "cancelled", "failed"}

Streams == [
    got     : 0 .. 2,   \* _recv_initial_metadata_done: 1, _recv_trailing_...: 2
    sent    : BOOLEAN,                     \* the outgoing stream is ended
    reset   : BOOLEAN,                     \* _cancel_done
    read    : {"none", "some", "end"},     \* what a generated method has read
    error   : Errors,                      \* Wrapper._error
    timer   : BOOLEAN,                     \* the deadline's timer is set
    headers : {"none", "plain", "final",   \* "final": a trailers-only response
               "http", "type"},            \* a :status, content-type to refuse
    status  : {"none", "OK", "BAD",        \* grpc-status: "BAD" if not valid,
               "absent"}]                  \*   "absent" if END_STREAM came without

(* A call that has not begun, or whose objects nobody uses any more. *)
Blank == [got |-> 0, sent |-> FALSE, reset |-> FALSE, read |-> "none",
          error |-> "none", timer |-> FALSE, headers |-> "none", status |-> "none"]

(* The calls whose task is in Wrapper._tasks. *)
InWrapper(p) == pc[p] \in Places \ {"new", "done", "body", "ending"}

TypeOK ==
    /\ pc \in [Calls -> Places]
    /\ result \in [Calls -> Results]
    /\ stream \in [Calls -> Streams]
    /\ cancelReq \subseteq Calls
    /\ registered \subseteq Calls /\ open \subseteq Calls
    /\ limit \in Limits
    /\ goaway \in BOOLEAN /\ paused \in BOOLEAN
    /\ link \in {"open", "closed", "silent", "lost"}
    /\ woken \subseteq Calls

Init ==
    /\ pc = [p \in Calls |-> "new"]
    /\ result = [p \in Calls |-> "none"]
    /\ stream = [p \in Calls |-> Blank]
    /\ cancelReq = {} /\ registered = {} /\ open = {} /\ woken = {}
    /\ limit \in Limits
    /\ goaway = FALSE /\ link = "open" /\ paused = FALSE

-----------------------------------------------------------------------------
(* Pieces.                                                                 *)

(* A task that is not about to be cancelled runs at one of these places. *)
Runs(p, places) == pc[p] \in places /\ p \notin cancelReq

(* write_ready.wait() returns. *)
Writable(p) == ~paused \/ p \in woken

(* The places where a call waits for write_ready. *)
Writing == {"top", "sending", "ending", "resetting"}

(* The call p now holds s.  h2 closes a stream that is reset or that both sides
   have ended. *)
Hold(p, s) ==
    /\ stream' = [stream EXCEPT ![p] = s]
    /\ open' = IF s.reset \/ (s.sent /\ s.status # "none")
               THEN open \ {p} ELSE open

(* The call goes on at a place. *)
Goto(p, place, s) ==
    /\ pc' = [pc EXCEPT ![p] = place]
    /\ Hold(p, s)
    /\ woken' = woken \ {p}
    /\ UNCHANGED <<result, registered>>

(* The call fails before its request is sent: __aexit__() does nothing, and the
   timer that it leaves has nothing to cancel. *)
Abort(p, error) ==
    /\ pc' = [pc EXCEPT ![p] = "done"]
    /\ result' = [result EXCEPT ![p] = error]
    /\ stream' = [stream EXCEPT ![p] = Blank]
    /\ woken' = woken \ {p}
    /\ UNCHANGED <<registered, open>>

(* A mutant: _maybe_raise() is not called. *)
OutcomeMutant(p, error) == error

(* What makes the client raise GRPCError: _raise_for_status() and
   _raise_for_grpc_status() of _process_grpc_status(). *)
BadHttp(p)   == stream[p].headers = "http"
BadStatus(p) == stream[p].status = "BAD"

(* A generated method without a reply: its assertion fails. *)
NoReply(p) == p \in Generated \ Replying /\ stream[p].read # "some"

(* What the user sees: the server's error goes before StreamTerminatedError. *)
Outcome(p, error) ==
    CASE error = "terminated" /\ (BadHttp(p) \/ BadStatus(p)) -> "status"
      [] error = "ok" /\ NoReply(p)                            -> "failed"
      [] OTHER                                                 -> error

(* A mutant: the stream is not reset. *)
CloseStreamMutant(p) == open' = open

(* closable, reset_nowait() *)
CloseStream(p) ==
    open' = IF link = "open" /\ ~goaway THEN open \ {p} ELSE open

(* A mutant: stream_close_waiter is not set. *)
ReleaseMutant(p) ==
    /\ registered' = registered \ {p}
    /\ pc' = [pc EXCEPT ![p] = "done"]

(* release_stream(): stream_close_waiter.set() wakes every call that waits for
   a stream. *)
Release(p) ==
    /\ registered' = registered \ {p}
    /\ pc' = [q \in Calls |-> IF q = p THEN "done"
                              ELSE IF pc[q] = "noslot" THEN "top" ELSE pc[q]]

(* The `finally' of __aexit__(). *)
Finish(p, error) ==
    /\ result' = [result EXCEPT ![p] = Outcome(p, error)]
    /\ stream' = [stream EXCEPT ![p] = Blank]
    /\ CloseStream(p)
    /\ Release(p)
    /\ woken' = woken \ {p}

(* with self._wrapper: *)
Enter(p, place, s) ==
    \/ s.error = "none" /\ Goto(p, place, s)
    \/ s.error # "none" /\ Finish(p, s.error)

(* Back in user code. *)
Return(p, s) == Goto(p, "body", s)

(* A mutant: trailers count as another answer. *)
GotMutant(p, n) == [stream[p] EXCEPT !.got = @ + n]

(* _recv_initial_metadata_done, _recv_trailing_metadata_done *)
Got(p, n) == [stream[p] EXCEPT !.got = n]

-----------------------------------------------------------------------------
(* send_request()                                                          *)

(* __aenter__() and the beginning of send_request().  A channel whose handler
   was told of the loss makes another connection, which is not this one. *)
Begin(p) ==
    /\ pc[p] = "new" /\ link \in {"open", "silent"}
    /\ \/ p \in Timed /\ Abort(p, "timeout")     \* nothing is left of it
       \/ /\ link = "open"
          /\ \E timer \in BOOLEAN :
                /\ timer => p \in Timed
                /\ Goto(p, "top", [Blank EXCEPT !.timer = timer])
       \/ link = "silent" /\ Abort(p, "failed")  \* create_stream() raises
    /\ UNCHANGED <<cancelReq, connVars>>

(* h2 opens the stream, with END_STREAM if there is nothing to send, and it is
   registered.  On a connection that was closed meanwhile get_peer() raises, and
   nobody releases the stream. *)
OpenStream(p) ==
    /\ open' = open \cup {p}
    /\ registered' = registered \cup {p}
    /\ woken' = woken \ {p}
    /\ \/ /\ link = "open"
          /\ pc' = [pc EXCEPT ![p] = "body"]
          /\ \E end \in BOOLEAN :
                /\ end => p \in Streaming
                /\ stream' = [stream EXCEPT ![p].sent = end]
          /\ UNCHANGED result
       \/ /\ link # "open"
          /\ pc' = [pc EXCEPT ![p] = "done"]
          /\ result' = [result EXCEPT ![p] = "failed"]
          /\ stream' = [stream EXCEPT ![p] = Blank]

(* TooManyStreamsError: stream_close_waiter.clear() and wait(). *)
SendRequest(p) ==
    /\ Runs(p, {"top"}) /\ Writable(p)
    /\ \/ Cardinality(open) >= limit /\ Goto(p, "noslot", stream[p])
       \/ Cardinality(open) < limit /\ goaway /\ Abort(p, "failed")
       \/ Cardinality(open) < limit /\ ~goaway /\ OpenStream(p)
    /\ UNCHANGED <<cancelReq, connVars>>

-----------------------------------------------------------------------------
(* The operations of a call, from user code.                               *)

(* A generated method sends its messages, the last one with END_STREAM, then
   reads one reply or all of them until there is none, and leaves. *)
MaySendOn(p) == ~stream[p].sent
MayRead(p) == p \in Generated => stream[p].sent
MayReadMore(p) ==
    p \in Generated =>
        stream[p].read = "none" \/ (p \in Replying /\ stream[p].read = "some")
MayLeave(p) ==
    p \in Generated =>
        stream[p].read = "end" \/ (p \notin Replying /\ stream[p].read = "some")
MayDirect(p) == p \notin Generated

(* send_message() waits inside the wrapper. *)
SendMessage(p) ==
    /\ Runs(p, {"body"})
    /\ MaySendOn(p)
    /\ Enter(p, "sending", stream[p])
    /\ UNCHANGED <<cancelReq, connVars>>

(* end() waits outside. *)
EndRequest(p) ==
    /\ Runs(p, {"body"})
    /\ p \in Streaming /\ MayDirect(p) /\ MaySendOn(p)
    /\ Goto(p, "ending", stream[p])
    /\ UNCHANGED <<cancelReq, connVars>>

(* cancel() *)
CancelCall(p) ==
    /\ Runs(p, {"body"})
    /\ MayDirect(p) /\ ~stream[p].reset
    /\ Enter(p, "resetting", stream[p])
    /\ UNCHANGED <<cancelReq, connVars>>

(* The write is done; h2 raises for a stream or a connection that it has
   closed. *)
Written(p) ==
    /\ Runs(p, {"sending", "ending", "resetting"}) /\ Writable(p)
    /\ IF p \in open /\ ~goaway
       THEN \/ /\ pc[p] = "sending" /\ p \in Streaming
               /\ Return(p, stream[p])
            \/ /\ pc[p] \in {"sending", "ending"}
               /\ Return(p, [stream[p] EXCEPT !.sent = TRUE])
            \/ /\ pc[p] = "resetting"
               /\ Return(p, [stream[p] EXCEPT !.reset = TRUE])
       ELSE Finish(p, "failed")
    /\ UNCHANGED <<cancelReq, connVars>>

(* recv_initial_metadata(), recv_trailing_metadata(). *)
Receive(p) ==
    /\ Runs(p, {"body"})
    /\ \/ stream[p].got = 0 /\ MayRead(p) /\ Enter(p, "headers", stream[p])
       \/ /\ stream[p].got = 1 /\ stream[p].sent /\ MayDirect(p)
          /\ \/ stream[p].headers = "plain" /\ Enter(p, "trailers", stream[p])
             \/ stream[p].headers = "final" /\ Return(p, Got(p, 2))
    /\ UNCHANGED <<cancelReq, connVars>>

(* recv_message() once the headers are there. *)
ReceiveMessage(p) ==
    /\ Runs(p, {"body"})
    /\ stream[p].got > 0 /\ MayReadMore(p)
    /\ Enter(p, "message", stream[p])
    /\ UNCHANGED <<cancelReq, connVars>>

(* What has been read, of which only a generated method's next step depends. *)
Read(p, what) ==
    IF p \in Generated THEN [stream[p] EXCEPT !.read = what] ELSE stream[p]

(* A message has come, compressed or cut short perhaps. *)
MessageReceived(p) ==
    /\ Runs(p, {"message"}) /\ stream[p].headers = "plain"
    /\ Return(p, Read(p, "some")) \/ Finish(p, "failed")
    /\ UNCHANGED <<cancelReq, connVars>>

(* END_STREAM: there are no more messages. *)
NoMoreMessages(p) ==
    /\ Runs(p, {"message"}) /\ stream[p].status # "none"
    /\ Return(p, Read(p, "end"))
    /\ UNCHANGED <<cancelReq, connVars>>

(* recv_trailing_metadata() from __aexit__(). *)
ExitTrailers(p) ==
    \/ ~stream[p].sent /\ Finish(p, "failed")
    \/ stream[p].sent /\ stream[p].headers = "final" /\ Finish(p, "ok")
    \/ /\ stream[p].sent /\ stream[p].headers = "plain"
       /\ Enter(p, "exitTrailers", Got(p, 1))

(* _raise_for_content_type() *)
BadType(p) == stream[p].headers = "type"

(* recv_headers() returns. *)
HasHeaders(p) == stream[p].headers # "none"

HeadersReceived(p) ==
    /\ Runs(p, {"headers", "exitHeaders"}) /\ HasHeaders(p)
    /\ IF BadHttp(p) \/ BadType(p) \/ (stream[p].headers = "final" /\ BadStatus(p))
       THEN Finish(p, "status")
       ELSE \/ pc[p] = "headers" /\ Return(p, Got(p, 1))
            \/ pc[p] = "exitHeaders" /\ ExitTrailers(p)
    /\ UNCHANGED <<cancelReq, connVars>>

(* Trailers are there.  Nothing ends the wait for trailers that are absent. *)
TrailersReceived(p) ==
    /\ Runs(p, {"trailers", "exitTrailers"})
    /\ \/ BadStatus(p) /\ Finish(p, "status")
       \/ /\ stream[p].status = "OK"
          /\ \/ pc[p] = "trailers" /\ Return(p, Got(p, 2))
             \/ pc[p] = "exitTrailers" /\ Finish(p, "ok")
    /\ UNCHANGED <<cancelReq, connVars>>

(* The body ends: _maybe_finish() has nothing to do for a call that was
   cancelled or a transport that is closing. *)
Exit(p) ==
    /\ Runs(p, {"body"}) /\ MayLeave(p)
    /\ IF stream[p].reset \/ link # "open" \/ stream[p].got = 2
       THEN Finish(p, "ok")
       ELSE \/ stream[p].got = 0 /\ Enter(p, "exitHeaders", stream[p])
            \/ stream[p].got = 1 /\ ExitTrailers(p)
    /\ UNCHANGED <<cancelReq, connVars>>

(* The body raises, or a codec or a listener for it. *)
Raise(p) ==
    /\ Runs(p, {"body"})
    /\ Finish(p, "failed")
    /\ UNCHANGED <<cancelReq, connVars>>

-----------------------------------------------------------------------------
(* Cancellation.                                                           *)

(* A mutant: the tasks are not cancelled. *)
WrapperCancelMutant(S, error, timers) ==
    /\ stream' = [p \in Calls |->
                    IF p \in S
                    THEN [stream[p] EXCEPT !.error = error,
                                           !.timer = @ /\ ~timers]
                    ELSE stream[p]]
    /\ UNCHANGED cancelReq

(* Wrapper.cancel() of the calls S, from their timers or not. *)
WrapperCancel(S, error, timers) ==
    /\ stream' = [p \in Calls |->
                    IF p \in S
                    THEN [stream[p] EXCEPT !.error = error,
                                           !.timer = @ /\ ~timers]
                    ELSE stream[p]]
    /\ cancelReq' = cancelReq \cup {p \in S : InWrapper(p)}

DeadlineExpired(p) ==
    /\ stream[p].timer
    /\ WrapperCancel({p}, "timeout", TRUE)
    /\ UNCHANGED <<pc, result, registered, open, connVars, woken>>

UserCancel(p) ==
    /\ p \in Cancelling /\ pc[p] \in Opening \cup Active
    /\ cancelReq' = cancelReq \cup {p}
    /\ UNCHANGED <<pc, result, stream, registered, open, connVars, woken>>

(* The CancelledError is delivered, and replaced by Wrapper.__exit__(). *)
Cancelled(p) ==
    LET error == IF InWrapper(p) /\ stream[p].error # "none"
                 THEN stream[p].error ELSE "cancelled"
    IN  /\ p \in cancelReq
        /\ cancelReq' = cancelReq \ {p}
        /\ \/ pc[p] \in Opening /\ Abort(p, error)
           \/ pc[p] \in Active /\ Finish(p, error)
        /\ UNCHANGED connVars

-----------------------------------------------------------------------------
(* The server and the connection.                                          *)

(* HEADERS, with the status for a response without messages. *)
ResponseReceived(p) ==
    /\ link = "open" /\ p \in open \cap registered
    /\ stream[p].headers = "none"
    /\ \/ \E kind \in {"plain", "http", "type"} :
             Hold(p, [stream[p] EXCEPT !.headers = kind])
       \/ \E st \in {"OK", "BAD"} :
             Hold(p, [stream[p] EXCEPT !.headers = "final", !.status = st])
    /\ UNCHANGED <<pc, result, cancelReq, registered, connVars, woken>>

(* END_STREAM, in trailers, in DATA or with the headers. *)
TrailersEnd(p) ==
    /\ link = "open" /\ p \in open \cap registered
    /\ stream[p].headers # "none" /\ stream[p].status = "none"
    /\ \E st \in {"OK", "BAD", "absent"} : Hold(p, [stream[p] EXCEPT !.status = st])
    /\ UNCHANGED <<pc, result, cancelReq, registered, connVars, woken>>

(* RST_STREAM *)
StreamReset(p) ==
    /\ link = "open" /\ p \in open
    /\ open' = open \ {p}
    /\ WrapperCancel({p} \cap registered, "terminated", FALSE)
    /\ UNCHANGED <<pc, result, registered, connVars, woken>>

(* SETTINGS: nobody is woken. *)
LimitChanged ==
    /\ link = "open"
    /\ limit' \in Limits \ {limit}
    /\ UNCHANGED <<callVars, goaway, link, paused, woken>>

(* GOAWAY or a protocol error: EventsProcessor.close(). *)
ConnectionTerminated ==
    /\ link = "open"
    /\ link' = "closed" /\ goaway' = TRUE
    /\ WrapperCancel(registered, "terminated", FALSE)
    /\ UNCHANGED <<pc, result, registered, open, limit, paused, woken>>

(* A mutant: the streams are not terminated. *)
ConnectionLostMutant ==
    /\ link # "lost"
    /\ link' = "lost"
    /\ UNCHANGED <<callVars, limit, goaway, paused, woken>>

(* connection_lost(): EventsProcessor.close(), perhaps again. *)
ConnectionLost ==
    /\ link # "lost"
    /\ link' = "lost"
    /\ WrapperCancel(registered, "terminated", FALSE)
    /\ UNCHANGED <<pc, result, registered, open, limit, goaway, paused, woken>>

(* The keepalive timer: Connection.close(). *)
KeepaliveTimeout ==
    /\ link = "open"
    /\ link' = "silent"
    /\ UNCHANGED <<callVars, limit, goaway, paused, woken>>

PauseWriting ==
    /\ link = "open" /\ ~paused
    /\ paused' = TRUE
    /\ UNCHANGED <<callVars, limit, goaway, link, woken>>

(* write_ready.set() *)
ResumeWriting ==
    /\ link # "lost" /\ paused
    /\ paused' = FALSE
    /\ woken' = {p \in Calls : pc[p] \in Writing}
    /\ UNCHANGED <<callVars, limit, goaway, link>>

-----------------------------------------------------------------------------

(* What the event loop runs when it is ready. *)
TaskStep(p) ==
    \/ SendRequest(p) \/ Written(p) \/ HeadersReceived(p) \/ TrailersReceived(p)
    \/ NoMoreMessages(p) \/ Exit(p) \/ Cancelled(p)

(* What the user chooses to do. *)
UserStep(p) ==
    \/ Begin(p) \/ SendMessage(p) \/ EndRequest(p) \/ CancelCall(p)
    \/ Receive(p) \/ ReceiveMessage(p) \/ Raise(p) \/ UserCancel(p)

PeerStep(p) ==
    \/ ResponseReceived(p) \/ MessageReceived(p) \/ TrailersEnd(p)
    \/ StreamReset(p)

ConnectionStep ==
    \/ LimitChanged \/ ConnectionTerminated \/ ConnectionLost
    \/ KeepaliveTimeout \/ PauseWriting \/ ResumeWriting

Next ==
    \/ ConnectionStep
    \/ \E p \in Calls :
          TaskStep(p) \/ UserStep(p) \/ PeerStep(p) \/ DeadlineExpired(p)

(* The event loop runs what is ready, timers fire and user code goes on.  A
   write here needs no window: SendFlow has the wait for one. *)
Fairness ==
    \A p \in Calls : WF_vars(TaskStep(p)) /\ WF_vars(DeadlineExpired(p))

Spec == Init /\ [][Next]_vars
FairSpec == Spec /\ Fairness

-----------------------------------------------------------------------------
(* Safety.                                                                 *)

(* client.py:542-575, protocol.py:547-558.  While the connection lives exactly
   the calls whose request was sent and that have not left are registered,
   whatever error, cancellation or reset ended the others. *)
StreamsReleased ==
    link = "open" => registered = {p \in Calls : pc[p] \in Active}

(* client.py:566-568, protocol.py:481-491.  No call leaves a stream open behind
   it: the server's limit is only used up by calls that are running. *)
SlotsFreed == link = "open" => open \subseteq registered

(* protocol.py:377-385, 554.  A call that waits for a stream has somebody to
   wake it: the limit was read and the event cleared without a gap.  (After a
   limit of 0 nobody may come: LimitChanged wakes nobody.) *)
SlotIsComing ==
    0 \notin Limits /\ link = "open" =>
        \A p \in Calls : pc[p] = "noslot" => registered # {}

(* utils.py:37-76.  Whoever cancels a Wrapper reaches the task inside it: no
   call is left in a wait of the wrapper with an error and without a
   CancelledError on its way, wherever it was when the error came. *)
WrapperIsHeeded ==
    \A p \in Calls : InWrapper(p) /\ stream[p].error # "none" => p \in cancelReq

(* utils.py:99-113.  The timer of a deadline is set until it has fired or the
   call is over, whatever else cancels the call. *)
DeadlineIsKept ==
    [][\A p \in Calls :
         stream[p].timer /\ ~stream'[p].timer =>
             stream'[p].error = "timeout" \/ pc'[p] = "done"]_vars

(* protocol.py:560-564, utils.py:52-76.  Once the processor is closed a call that
   was registered waits for nothing that the connection will not give: its
   cancellation is on the way, or its next step in the wrapper raises. *)
CloseCancelsCalls ==
    link \in {"closed", "lost"} =>
        \A p \in registered :
            /\ pc[p] # "done" => stream[p].error # "none"
            /\ pc[p] # "done" /\ InWrapper(p) => p \in cancelReq

(* The call has cancelled its stream, or both sides have ended it. *)
Over(p) == stream[p].reset \/ (stream[p].sent /\ stream[p].status # "none")

(* Where a failure of the call's own goes before an error of the server: user code
   raises or leaves without ending the outgoing stream, a message cannot be read, the
   user writes to a stream that is over; and in end(), which waits outside the wrapper,
   so that h2's refusal to write to a stream that was reset is what the user gets. *)
FailsFirst(p) ==
    \/ pc[p] \in {"body", "message", "ending"}
    \/ pc[p] = "exitHeaders" /\ ~stream[p].sent
    \/ pc[p] \in {"sending", "resetting"} /\ Over(p)

(* client.py:290, 526-560, 888-1011.  How a call ends, and what of the server's answer
   the user sees.  Where a Wrapper was cancelled by the reset of the stream or the loss
   of the connection, an error of the server goes before StreamTerminatedError; a
   failure of another kind goes before it only where FailsFirst says, of which end() is
   the one that the user has not caused.  No call succeeds without the server's OK but
   one that was cancelled, or left when the transport was closing.  What a generated
   method returns is a reply, or all of them.  The CancelledError of a Wrapper never
   reaches the user, who sees one only for a task that he cancelled, and a timeout only
   if he set one. *)
OutcomeOf(p) ==
    result'[p] # result[p] =>
        /\ BadHttp(p) \/ BadStatus(p) =>
               /\ result'[p] # "terminated"
               /\ result'[p] = "failed" => FailsFirst(p)
        /\ result'[p] = "ok" =>
               /\ stream[p].status = "OK" \/ stream[p].reset \/ link # "open"
               /\ p \in Generated =>
                     stream[p].read = IF p \in Replying THEN "end" ELSE "some"
        /\ result'[p] = "cancelled" => p \in Cancelling
        /\ result'[p] = "timeout" => p \in Timed

OutcomeIsServers == [][\A p \in Calls : OutcomeOf(p)]_vars

(* What the above rest on. *)
ActiveAreRegistered ==
    \A p \in Calls :
        /\ pc[p] \in Active => p \in registered
        /\ p \in registered => pc[p] \in Active \cup {"done"}
        /\ p \in registered /\ pc[p] = "done" => link # "open"
ClosedByGoaway == goaway => link # "open"
StatusOfActive ==
    \A p \in Calls :
        pc[p] \notin Active => stream[p].status = "none" /\ stream[p].headers = "none"

CallInv ==
    /\ ActiveAreRegistered /\ ClosedByGoaway /\ StatusOfActive
    /\ SlotsFreed /\ SlotIsComing /\ CloseCancelsCalls

(* A call that went on after its headers or its trailers has seen no error, and
   a generated method that is at its exit has read what it returns. *)
AnswerRead ==
    \A p \in Calls :
        /\ stream[p].headers = "none" => stream[p].got = 0 /\ stream[p].status = "none"
        /\ stream[p].headers = "final" => stream[p].status \in {"OK", "BAD"}
        /\ stream[p].got > 0 /\ stream[p].headers = "final" => stream[p].status = "OK"
        /\ stream[p].got = 2 => stream[p].status = "OK"
LeftWhenRead ==
    \A p \in Calls : pc[p] \in {"exitHeaders", "exitTrailers"} => MayLeave(p)

(* h2 closes no stream behind the back of a call: the error comes with it. *)
RefusalsAreKnown ==
    /\ goaway => link \in {"closed", "lost"}
    /\ \A p \in Calls :
          pc[p] \in Active /\ stream[p].error = "none" => p \in open \/ Over(p)

(* A response that is refused, or has no trailers, is not asked for them. *)
TrailersAwaited ==
    \A p \in Calls :
        pc[p] \in {"trailers", "exitTrailers"} => stream[p].headers = "plain"

KnownInv == RefusalsAreKnown /\ TrailersAwaited

(* Where cancellations and timeouts come from. *)
OnlyUsersCancel ==
    \A p \in cancelReq \ Cancelling : InWrapper(p) /\ stream[p].error # "none"
TimersOfTimed ==
    \A p \in Calls :
        /\ stream[p].timer \/ stream[p].error = "timeout" => p \in Timed
        /\ stream[p].timer => pc[p] \notin {"new", "done"}

WrapperInv == WrapperIsHeeded /\ OnlyUsersCancel /\ TimersOfTimed

-----------------------------------------------------------------------------
(* Liveness, under FairSpec.                                               *)

Ended(p) == pc[p] = "done"

(* A call waits for write_ready in end(), outside the wrapper, or before its
   stream is registered, and the connection is gone. *)
WaitsInEnd(p) == pc[p] = "ending" /\ paused
WaitsUnregistered(p) == pc[p] = "noslot" \/ (pc[p] = "top" /\ paused)

(* client.py:173, 254, 368, 428, utils.py:99-113.  A call with a deadline ends,
   unless it waits in end(). *)
DeadlineEndsCalls ==
    \A p \in Calls : stream[p].timer ~> (Ended(p) \/ WaitsInEnd(p))

(* protocol.py:560-564, utils.py:72-76.  After the loss of the connection every
   call ends, unless it waits in end() or to open its stream. *)
LossEndsCalls ==
    \A p \in Calls :
        (link = "lost" /\ pc[p] # "new") ~>
            (Ended(p) \/ WaitsInEnd(p) \/ WaitsUnregistered(p))

-----------------------------------------------------------------------------
(* What the documentation says and the code does not do.                   *)

(* docs/changelog/index.rst, 0.1.1, "Fixed critical issue on the client-side
   with hanging coroutines in case of connection lost or stream reset": after
   the loss of the connection every call ends. *)
NoCallHangs ==
    \A p \in Calls : (link = "lost" /\ pc[p] # "new") ~> Ended(p)
=============================================================================
