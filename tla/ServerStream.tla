---------------------------- MODULE ServerStream ----------------------------
(***************************************************************************)
(* One request on the server: request_handler() and server.Stream          *)
(* (server.py), from the header of the client to the last frame, with the  *)
(* listeners of events.py.  The method is arbitrary user code that calls   *)
(* the stream from its own task.  Between two awaits the request may be    *)
(* cancelled by its deadline, a reset, the loss of the connection or       *)
(* Server.close().  How the frames must follow each other is Rpc.          *)
(***************************************************************************)
EXTENDS Timeouts

CONSTANTS
    Requests,       \* the requests that may arrive, see RequestType
    Listened,       \* the events that have listeners
    Errors,         \* the statuses other than "OK"
    None,           \* no status yet
    Pieces,         \* DATA frames of a message
    MaxMessages     \* bound: messages a streaming method sends

(* The headers that may become metadata: those of HTTP and gRPC, text, and binary
   ones, whose base64 may be wrong. *)
Entries == {"reserved", "text", "binary", "garbled"}

(* RecvRequest, SendInitialMetadata, SendMessage, SendTrailingMetadata *)
ServerEvents == {"request", "initial", "message", "trailing"}

(* A request: the first check of request_handler() that fails ("no-method" and
   "no-path" are headers that are missing), its headers, whether the method streams,
   the events whose listeners may raise, what the client's Channel.request() was
   given, and how long the client took before and after it computed the header, and
   the network. *)
RequestType ==
    [fault : {"none", "no-method", "method", "content-type", "te", "no-path", "path",
              "grpc-timeout"},
     metadata : SUBSET Entries, streaming : BOOLEAN, failing : SUBSET ServerEvents,
     timeout : Nat \cup {NoTime}, deadline : Nat \cup {NoTime},
     before : Nat, after : Nat, transit : Nat]

(* How user code ends if not with a status: it returns, it lets the cancellation of
   its task pass, it raises a CancelledError of its own, or a GRPCError whose message
   or details cannot be encoded. *)
Endings == {"return", "cancelled", "interrupt", "unsendable"}

ASSUME StreamAssumption ==
    /\ Requests \subseteq RequestType
    /\ Listened \subseteq ServerEvents
    /\ {"UNKNOWN", "DEADLINE_EXCEEDED", "UNIMPLEMENTED"} \subseteq Errors
    /\ Errors \cap ({"OK"} \cup Endings) = {}
    /\ None \notin Errors \cup {"OK"}
    /\ Pieces \in Nat \ {0}
    /\ MaxMessages \in Nat

VARIABLES
    call,       \* the request
    deadline,   \* server.Stream.deadline
    pc,         \* the task: "new", "abort" (in _abort()), "listen" (in a
                \*   listener), "write" (at write_ready or window_updated),
                \*   "body" (in the method), "done"
    op,         \* what is listened to or written
    ret,        \* who goes on: "body", "message" (send_message()), "exit"
    pending,    \* the status being sent, or what __aexit__() had to send and did not
    done,       \* the _..._done flags that are set
    part,       \* DATA frames of the message under way that were sent
    timer,      \* the timer of DeadlineWrapper.start() is running
    err,        \* Wrapper._error: "none", "deadline", "terminated"
    cancelReq,  \* a CancelledError not yet delivered
    fate,       \* how request_handler() ended
    phase, count, status, broken,   \* what h2 has sent, see Rpc
    cut,        \* history: the method went on after a message of it was cut, see Rpc
    stopped,    \* history: a cancellation has come that is not the deadline's
    remote,     \* the client's half: "open", "ended", "reset"
    closing,    \* Transport.is_closing()
    paused,     \* write_ready is cleared
    window      \* h2's outbound window is open

taskVars == <<deadline, pc, op, ret, pending, done, part, fate>>
wireVars == <<phase, count, status, broken>>
envVars  == <<remote, closing, paused, window>>
vars == <<call, taskVars, timer, err, cancelReq, wireVars, cut, stopped, envVars>>

Statuses == Errors \cup {"OK"}

(* What user code may raise, or a listener. *)
Raisable == Statuses \cup {"interrupt", "unsendable"}

TypeOK ==
    /\ call \in Requests
    /\ deadline \in Nat \cup {NoTime}
    /\ pc \in {"new", "abort", "listen", "write", "body", "done"}
    /\ op \in {"request", "initial", "message", "trailing", "cancel"}
    /\ ret \in {"body", "message", "exit"}
    /\ pending \in Raisable \cup {"cancelled"}
    /\ pc # "done" => pending \in Statuses
    /\ done \subseteq {"initial", "message", "trailing", "cancel"}
    /\ part \in 0 .. Pieces - 1
    /\ timer \in BOOLEAN
    /\ err \in {"none", "deadline", "terminated"}
    /\ cancelReq \in BOOLEAN
    /\ fate \in {"running", "answered", "silent", "cancelled", "failed"}
    /\ phase \in {"quiet", "open", "partial", "answered"}
    /\ count \in Nat
    /\ status \in Statuses \cup {None}
    /\ broken \in BOOLEAN
    /\ cut \in BOOLEAN
    /\ stopped \in BOOLEAN
    /\ remote \in {"open", "ended", "reset"}
    /\ closing \in BOOLEAN
    /\ paused \in BOOLEAN
    /\ window \in BOOLEAN

Init ==
    /\ call \in Requests
    /\ deadline = NoTime
    /\ pc = "new"
    /\ op = "request"
    /\ ret = "body"
    /\ pending = "UNKNOWN"
    /\ done = {}
    /\ part = 0
    /\ timer = FALSE
    /\ err = "none"
    /\ cancelReq = FALSE
    /\ fate = "running"
    /\ phase = "quiet"
    /\ count = 0
    /\ status = None
    /\ broken = FALSE
    /\ cut = FALSE
    /\ stopped = FALSE
    /\ remote = "open"
    /\ closing = FALSE
    /\ paused = FALSE
    /\ window = TRUE

-----------------------------------------------------------------------------
(* The client's side of the deadline.  Times are since Channel.request().  *)

ClientDeadline == RequestDeadline(0, call.timeout, call.deadline)

(* client.Stream.send_request() computes the header, then it waits for its
   listeners, a free stream and write_ready. *)
TimeoutHeaders ==
    IF ClientDeadline = NoTime THEN {}
    ELSE {EncodeTimeout(TimeRemaining(call.before, ClientDeadline))}

Arrival == call.before + call.after + call.transit

-----------------------------------------------------------------------------
(* Pieces of several steps.                                                *)

(* The task is inside `with deadline_wrapper, wrapper'. *)
InWrapper == pc \in {"listen", "write", "body"} /\ ret # "exit"

HasWrapper == pc \in {"listen", "write", "body"}

(* h2 refuses to send on a stream that either side has closed. *)
CanSend == phase # "answered" /\ ~broken /\ remote # "reset"

CanReset == ~broken /\ remote # "reset" /\ (phase = "answered" => remote = "open")

(* A send begins: its listeners, if there are any, then the frames. *)
Send(o, r) ==
    /\ op' = o
    /\ ret' = r
    /\ pc' = IF o \in Listened THEN "listen" ELSE "write"

Goto(p) == pc' = p /\ UNCHANGED <<op, ret>>

End(f) == Goto("done") /\ fate' = f

Finish(f) == End(f) /\ UNCHANGED pending

(* server.Stream.__aexit__(): the status of a method that returned or raised. *)
ImplicitStatus(outcome) ==
    IF outcome # "return" THEN outcome
    ELSE IF call.streaming \/ "message" \in done THEN "OK"
    ELSE "UNKNOWN"

(* A mutant: OK does without the message of a unary method. *)
SendableMutant(s) == s # "unsendable"

(* send_trailing_metadata() raises if a unary method has sent no message for its
   OK, and if the message or the details of the status cannot be encoded. *)
Sendable(s) ==
    /\ s # "unsendable"
    /\ s = "OK" => call.streaming \/ "message" \in done

(* A mutant: an answer that was given is forgotten. *)
ExitMutant(outcome) ==
    /\ pending' = ImplicitStatus(outcome)
    /\ IF outcome \in {"cancelled", "interrupt"} THEN End("cancelled")
       ELSE IF Sendable(ImplicitStatus(outcome))
       THEN Send("trailing", "exit") /\ UNCHANGED fate
       ELSE End("failed")

(* __aexit__() of a method that returned, failed with a status, or was cancelled: a
   CancelledError passes, whoever raised it. *)
Exit(outcome) ==
    IF "trailing" \in done \/ "cancel" \in done \/ closing
    THEN Finish(IF "trailing" \in done THEN "answered" ELSE "silent")
    ELSE /\ pending' = ImplicitStatus(outcome)
         /\ IF outcome \in {"cancelled", "interrupt"} THEN End("cancelled")
            ELSE IF Sendable(ImplicitStatus(outcome))
            THEN Send("trailing", "exit") /\ UNCHANGED fate
            ELSE End("failed")

(* The `with' block is left: the timer is stopped, Wrapper.__exit__() raises
   _error whatever else happened, and request_handler() converts it. *)
Leave(outcome) ==
    /\ timer' = FALSE
    /\ Exit(CASE err = "deadline"   -> "DEADLINE_EXCEEDED"
              [] err = "terminated" -> "UNKNOWN"
              [] OTHER              -> outcome)
    /\ UNCHANGED cut

(* User code gets an exception: it handles it and goes on, or lets it pass. *)
Raised(outcome) ==
    \/ /\ Goto("body")
       /\ cut' = (cut \/ phase = "partial")
       /\ UNCHANGED <<pending, fate, timer>>
    \/ Leave(outcome)

(* decode_metadata() raises; it skips the reserved headers. *)
Undecodable == "garbled" \in call.metadata

(* request_handler() raises before it has a stream: a KeyError, or the metadata. *)
Unreadable ==
    \/ call.fault \in {"no-method", "no-path"}
    \/ call.fault = "none" /\ Undecodable

Stepped == UNCHANGED <<call, deadline, done, err, stopped, wireVars, envVars>>

Unsent == Stepped /\ UNCHANGED <<part, cancelReq>>

-----------------------------------------------------------------------------
(* The first step of request_handler().  A task cancelled before runs nothing.
   Without its transport, which Connection.close() forgets, get_peer() fails. *)
Start ==
    LET limit == FromHeaders(Arrival, TimeoutHeaders)
    IN  /\ pc = "new"
        /\ cancelReq' = FALSE
        /\ \/ /\ cancelReq
              /\ Finish("cancelled")
              /\ UNCHANGED <<deadline, timer>>
           \/ /\ ~cancelReq
              /\ Unreadable \/ (call.fault = "none" /\ closing)
              /\ Finish("failed")
              /\ UNCHANGED <<deadline, timer>>
           \/ /\ ~cancelReq
              /\ call.fault # "none" /\ ~Unreadable
              /\ Goto("abort")
              /\ UNCHANGED <<deadline, timer, pending, fate>>
           \/ /\ ~cancelReq                     \* TimeoutError of start()
              /\ call.fault = "none" /\ ~Unreadable
              /\ limit = Arrival
              /\ deadline' = limit
              /\ Exit("UNKNOWN")
              /\ UNCHANGED timer
           \/ /\ ~cancelReq
              /\ call.fault = "none" /\ ~Unreadable
              /\ limit # Arrival
              /\ deadline' = limit
              /\ timer' = (limit # NoTime)
              /\ IF "request" \in Listened THEN Send("request", "body")
                                           ELSE Goto("body")
              /\ UNCHANGED <<pending, fate>>
        /\ UNCHANGED <<call, done, part, err, wireVars, cut, stopped, envVars>>

(* _abort(): a status without messages, UNKNOWN where there is no grpc-status. *)
Abort ==
    /\ pc = "abort" /\ ~cancelReq /\ ~paused
    /\ \/ /\ CanSend
          /\ phase' = "answered"
          /\ status' = IF call.fault = "path" THEN "UNIMPLEMENTED" ELSE "UNKNOWN"
          /\ broken' = (remote = "open" /\ ~closing)
          /\ Finish("answered")
       \/ /\ closing \/ ~CanSend
          /\ Finish("silent")
          /\ UNCHANGED <<phase, status, broken>>
    /\ UNCHANGED <<call, deadline, done, part, timer, err, cancelReq, count, cut, stopped,
                   envVars>>

-----------------------------------------------------------------------------
(* What the method does.  Its mistakes, like a second status, are refused with
   a ProtocolError: they are methods that raise. *)

InBody == pc = "body" /\ ~cancelReq

SendInitialMetadata ==
    /\ InBody
    /\ "initial" \notin done
    /\ Send("initial", "body")
    /\ Unsent
    /\ UNCHANGED <<pending, fate, timer, cut>>

(* A message starts with its first frame, whatever became of one before. *)
SendMessage ==
    /\ InBody
    /\ count < MaxMessages
    /\ call.streaming \/ "message" \notin done
    /\ IF "initial" \in done THEN Send("message", "body")
                             ELSE Send("initial", "message")
    /\ part' = 0
    /\ Stepped
    /\ UNCHANGED <<pending, fate, timer, cancelReq, cut>>

SendTrailingMetadata(s) ==
    /\ InBody
    /\ "trailing" \notin done
    /\ Sendable(s)
    /\ Send("trailing", "body")
    /\ pending' = s
    /\ Unsent
    /\ UNCHANGED <<fate, timer, cut>>

Cancel ==
    /\ InBody
    /\ "cancel" \notin done
    /\ Send("cancel", "body")
    /\ Unsent
    /\ UNCHANGED <<pending, fate, timer, cut>>

Return == InBody /\ Leave("return") /\ Unsent

(* A GRPCError with its status, any other exception as UNKNOWN, or what cannot be
   sent, see Endings. *)
Raise(s) == InBody /\ Leave(s) /\ Unsent

-----------------------------------------------------------------------------
(* The steps of a send.                                                    *)

(* _Dispatch.__dispatch__(): the listeners have run, or one of them raises. *)
Dispatched ==
    /\ pc = "listen" /\ ~cancelReq
    /\ \/ /\ Goto(IF op = "request" THEN "body" ELSE "write")
          /\ UNCHANGED <<pending, fate, timer, cut>>
       \/ /\ op \in call.failing /\ ret = "exit"
          /\ Finish("failed")
          /\ UNCHANGED <<timer, cut>>
       \/ /\ op \in call.failing /\ op = "request"
          /\ \E s \in Raisable : Leave(s)
       \/ /\ op \in call.failing /\ op # "request" /\ ret # "exit"
          /\ \E s \in Raisable : Raised(s)
    /\ Unsent

(* The frame is written and the send ends. *)
Sent(p) ==
    /\ done' = done \cup {op}
    /\ IF ret = "message" THEN Send("message", "body") ELSE Goto(p)
    /\ UNCHANGED <<call, deadline, timer, err, cancelReq, cut, stopped, envVars>>

CanWrite(o) == pc = "write" /\ op = o /\ ~cancelReq /\ ~paused

WriteInitial ==
    /\ CanWrite("initial") /\ CanSend
    /\ phase' = "open"
    /\ Sent("body")
    /\ UNCHANGED <<pending, fate, part, count, status, broken>>

(* A mutant: send_data() compares the position before the frame. *)
MoreMutant == part < Pieces

(* The frame is not the last of its message. *)
More == part + 1 < Pieces

(* protocol.Stream.send_data(), one frame. *)
WriteMessage ==
    /\ CanWrite("message") /\ CanSend
    /\ window
    /\ IF More
       THEN /\ part' = part + 1
            /\ phase' = "partial"
            /\ UNCHANGED <<pc, op, ret, count, cut, cancelReq, timer>>
            /\ UNCHANGED <<call, deadline, done, err, stopped, envVars>>
       ELSE /\ part' = 0
            /\ phase' = "open"
            /\ count' = count + 1
            /\ Sent("body")
    /\ UNCHANGED <<pending, fate, status, broken>>

WriteTrailing ==
    /\ CanWrite("trailing") /\ CanSend
    /\ phase' = "answered"
    /\ status' = pending
    /\ broken' = (pending # "OK" /\ remote = "open" /\ ~closing)
    /\ Sent(IF ret = "exit" THEN "done" ELSE "body")
    /\ fate' = IF ret = "exit" THEN "answered" ELSE fate
    /\ UNCHANGED <<pending, part, count>>

WriteReset ==
    /\ CanWrite("cancel") /\ CanReset
    /\ broken' = TRUE
    /\ Sent("body")
    /\ UNCHANGED <<pending, fate, part, phase, count, status>>

(* h2 refuses; __aexit__() ignores that the stream is closed. *)
Refused ==
    /\ pc = "write" /\ ~cancelReq /\ ~paused
    /\ closing \/ IF op = "cancel" THEN ~CanReset ELSE ~CanSend
    /\ \/ /\ ret = "exit"
          /\ Finish("silent")
          /\ UNCHANGED <<timer, cut>>
       \/ /\ ret # "exit"
          /\ Raised("UNKNOWN")
    /\ Unsent

(* The CancelledError arrives. *)
Cancelled ==
    /\ cancelReq
    /\ cancelReq' = FALSE
    /\ \/ /\ pc = "abort" \/ (HasWrapper /\ ret = "exit")
          /\ Finish("cancelled")
          /\ UNCHANGED <<timer, cut>>
       \/ /\ pc = "listen" /\ op = "request"
          /\ Leave("cancelled")
       \/ /\ InWrapper /\ ~(pc = "listen" /\ op = "request")
          /\ Raised("cancelled")
    /\ Stepped
    /\ UNCHANGED part

-----------------------------------------------------------------------------
(* What happens to the request.                                            *)

(* Wrapper.cancel() with an error and, from the Handler, task.cancel(). *)
Terminated ==
    /\ err' = IF HasWrapper THEN "terminated" ELSE err
    /\ cancelReq' = (pc # "done")
    /\ stopped' = TRUE

DeadlineExpired ==
    /\ timer
    /\ timer' = FALSE
    /\ err' = "deadline"
    /\ cancelReq' = TRUE
    /\ UNCHANGED <<call, taskVars, wireVars, cut, stopped, envVars>>

StreamReset ==
    /\ remote # "reset" /\ ~closing
    /\ remote' = "reset"
    /\ Terminated
    /\ UNCHANGED <<call, taskVars, timer, wireVars, cut, closing, paused, window>>

StreamEnded ==
    /\ remote = "open" /\ ~closing
    /\ remote' = "ended"
    /\ UNCHANGED <<call, taskVars, timer, err, cancelReq, wireVars, cut, stopped, closing,
                   paused, window>>

(* EventsProcessor.close(), or the transport closed by the keepalive timer. *)
ConnectionClosed ==
    /\ closing' = TRUE
    /\ \/ Terminated
       \/ UNCHANGED <<err, cancelReq, stopped>>
    /\ UNCHANGED <<call, taskVars, timer, wireVars, cut, remote, paused, window>>

ServerClose ==
    /\ pc # "done"
    /\ cancelReq' = TRUE
    /\ stopped' = TRUE
    /\ UNCHANGED <<call, taskVars, timer, err, wireVars, cut, envVars>>

FlowControl ==
    /\ paused' \in BOOLEAN
    /\ window' \in BOOLEAN
    /\ UNCHANGED <<call, taskVars, timer, err, cancelReq, wireVars, cut, stopped, remote,
                   closing>>

-----------------------------------------------------------------------------

Method ==
    \/ SendInitialMetadata \/ SendMessage \/ Cancel \/ Return
    \/ \E s \in Statuses : SendTrailingMetadata(s)
    \/ \E s \in Raisable : Raise(s)

Step ==
    \/ Start \/ Abort \/ Dispatched \/ Refused \/ Cancelled
    \/ WriteInitial \/ WriteMessage \/ WriteTrailing \/ WriteReset

Environment ==
    \/ DeadlineExpired \/ StreamReset \/ StreamEnded \/ ConnectionClosed
    \/ ServerClose \/ FlowControl

Next == Method \/ Step \/ Environment

Spec == Init /\ [][Next]_vars

-----------------------------------------------------------------------------
(* server.py:146-258, 290-349, 435-469.  Whatever the method and the listeners do and
   wherever they are interrupted, the client sees what Rpc allows: initial metadata
   before messages, one message of a unary method, one status and nothing after it,
   OK only for a complete response.  Rpc's one exception is a method that goes on
   after what interrupted it in the middle of a message (GiveUp): the stream knows
   nothing of the bytes that are missing and its OK is sent. *)
Promise == INSTANCE Rpc WITH streaming <- call.streaming

Refines == Promise!Spec

(* server.py:227-258, 290-366, 380, 405, 435-475, utils.py:99-113.  How a
   request ends.  A status was sent, DEADLINE_EXCEEDED if the deadline passed while
   the method ran; or nobody was there to tell it to.  The rest leaves the client
   without a status: headers or metadata that cannot be read, a listener of the
   trailing metadata that fails, an outcome that cannot be sent, and a CancelledError
   that is not the deadline's: the deadline alone never does. *)
RequestsAnswered ==
    /\ pc = "done" <=> fate # "running"
    /\ fate = "answered" => phase = "answered"
    /\ fate = "answered" /\ ret = "exit" /\ err = "deadline" => status = "DEADLINE_EXCEEDED"
    /\ fate = "silent" => closing \/ remote = "reset" \/ "cancel" \in done
    /\ fate = "failed" =>
           closing \/ Unreadable \/ "trailing" \in call.failing \/ ~Sendable(pending)
    /\ fate = "cancelled" => stopped \/ pending = "interrupt"

(* metadata.py:45-59, client.py:185-187.  The server's deadline is the client's,
   put off by what the request waited after its header was computed and by the
   network, less a truncation of under a tenth of the time left or a nanosecond. *)
DeadlinePropagated ==
    deadline # NoTime =>
        LET left == TimeRemaining(call.before, ClientDeadline)
            loss == left - (deadline - Arrival)
        IN  loss >= 0 /\ (loss < Nano \/ 10 * loss < left)

-----------------------------------------------------------------------------
(* The facts that make the properties inductive.                           *)

InSend == pc \in {"listen", "write"}

(* The flags of the stream and the frames that h2 has sent. *)
FlagsMatchFrames ==
    /\ phase \in {"open", "partial"} => "initial" \in done
    /\ "initial" \in done => phase # "quiet"
    /\ "message" \in done <=> count > 0
    /\ ~call.streaming => count <= 1
    /\ "trailing" \in done => phase = "answered"
    /\ phase = "answered" => "trailing" \in done \/ pc = "done"
    /\ broken => "cancel" \in done \/ phase = "answered"

(* What is being sent may be sent. *)
SendIsLegal ==
    InSend =>
        /\ op = "initial" => /\ ret # "exit" /\ "initial" \notin done
                             /\ ret = "message" => call.streaming \/ "message" \notin done
        /\ op = "message" => /\ ret = "body" /\ "initial" \in done
                             /\ call.streaming \/ "message" \notin done
        /\ op = "trailing" => /\ ret # "message" /\ "trailing" \notin done
                              /\ pending = "OK" => call.streaming \/ "message" \in done
        /\ op \in {"request", "cancel"} => ret = "body"
        /\ ret = "exit" => /\ op = "trailing" /\ "cancel" \notin done
                           /\ err = "deadline" => pending = "DEADLINE_EXCEEDED"

TaskMatches ==
    /\ pc \in {"new", "abort"} =>
           done = {} /\ phase = "quiet" /\ ~broken /\ err = "none" /\ ret = "body"
    /\ pc = "body" => ret # "exit"
    /\ pc = "listen" => op \in Listened
    /\ timer => InWrapper
    /\ cancelReq => stopped \/ (InWrapper /\ err = "deadline")
    /\ phase = "partial" =>
           \/ cut
           \/ pc = "write" /\ op = "message"
           \/ InSend /\ ret = "exit" /\ pending # "OK"
           \/ pc = "done"

DeadlineComputed == deadline \in {NoTime, FromHeaders(Arrival, TimeoutHeaders)}

StreamInv ==
    FlagsMatchFrames /\ SendIsLegal /\ TaskMatches /\ RequestsAnswered /\ DeadlineComputed
=============================================================================
