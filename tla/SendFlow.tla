------------------------------ MODULE SendFlow ------------------------------
(***************************************************************************)
(* Sending DATA: Stream.send_data() of several streams that share one      *)
(* connection (protocol.py), under HTTP/2 flow control and the             *)
(* back-pressure of the transport.                                         *)
(*                                                                         *)
(* A sender waits on two asyncio events: Connection.write_ready, cleared   *)
(* and set by the transport, and Stream.window_updated, set by             *)
(* EventsProcessor when the peer opens a window.  Event.set() schedules    *)
(* the waiters; a waiter that was scheduled runs even if the event has     *)
(* been cleared again in the meantime.  A sender keeps the event loop      *)
(* until it waits: running names it.                                       *)
(***************************************************************************)
EXTENDS Integers, FiniteSets

CONSTANTS
    Streams,        \* the streams that are sending
    Nobody,         \* "the event loop is between two callbacks"
    Size,           \* bytes each stream has to send, len(data)
    MaxFrame,       \* max_outbound_frame_size
    ConnWindow,     \* outbound window of the connection at the start
    Windows,        \* values the peer gives to SETTINGS_INITIAL_WINDOW_SIZE
    MaxSettings,    \* bound: SETTINGS frames
    HighWater,      \* the transport pauses the protocol above this,
    LowWater        \*   and resumes it at or below that

ASSUME SendAssumption ==
    /\ IsFiniteSet(Streams) /\ Nobody \notin Streams
    /\ Size \in [Streams -> Nat \ {0}]
    /\ MaxFrame \in Nat \ {0}
    /\ ConnWindow \in Nat
    /\ Windows \subseteq Nat /\ Windows # {}
    /\ MaxSettings \in Nat
    /\ LowWater \in Nat /\ HighWater \in Nat /\ LowWater <= HighWater

VARIABLES
    pc,         \* where each sender is, see Places
    running,    \* the sender that has the event loop
    left,       \* f_last - f_pos
    updated,    \* window_updated.is_set()
    ready,      \* write_ready.is_set()
    conn,       \* h2: outbound window of the connection
    window,     \* h2: outbound window of each stream; may become negative
    initial,    \* h2: the peer's SETTINGS_INITIAL_WINDOW_SIZE
    settings,   \* SETTINGS frames left
    buffered    \* bytes in the transport's buffer

senderVars == <<pc, running, left>>
windowVars == <<conn, window, initial, settings>>
vars == <<senderVars, updated, ready, windowVars, buffered>>

(* "top": about to wait for write_ready at the top of the loop,
   "unready": waiting for write_ready, "woken": write_ready was set,
   "blocked": waiting for window_updated, "failed": cancelled. *)
Places == {"top", "unready", "woken", "blocked", "done", "failed"}
Sending(s) == pc[s] \notin {"done", "failed"}

Least(a, b) == IF a <= b THEN a ELSE b

TypeOK ==
    /\ pc \in [Streams -> Places]
    /\ running \in Streams \cup {Nobody}
    /\ left \in [Streams -> Nat]
    /\ updated \in [Streams -> BOOLEAN]
    /\ ready \in BOOLEAN
    /\ conn \in Int
    /\ window \in [Streams -> Int]
    /\ initial \in Nat
    /\ settings \in Nat
    /\ buffered \in Nat

Init ==
    /\ pc = [s \in Streams |-> "top"]
    /\ running = Nobody
    /\ left = Size
    /\ updated = [s \in Streams |-> FALSE]
    /\ ready = TRUE
    /\ conn = ConnWindow
    /\ initial \in Windows
    /\ window = [s \in Streams |-> initial]
    /\ settings = MaxSettings
    /\ buffered = 0

-----------------------------------------------------------------------------
(* The senders.                                                            *)

Goto(s, p) == pc' = [pc EXCEPT ![s] = p]

(* transport.write(): what the socket does not take at once is buffered, and
   the protocol is paused above the high-water mark. *)
Write(n) ==
    /\ \/ buffered' = buffered + n
       \/ buffered = 0 /\ buffered' = 0
    /\ ready' = (ready /\ buffered' <= HighWater)

(* local_flow_control_window().  The mutant has a stale connection window. *)
OutboundWindowMutant(s) == Least(ConnWindow, window[s])
OutboundWindow(s) == Least(conn, window[s])

(* A mutant: the frame is not limited by what is left. *)
FrameMutant(s) ==
    LET n == Least(OutboundWindow(s), MaxFrame)
    IN  /\ left' = [left EXCEPT ![s] = @ - n]
        /\ conn' = conn - n
        /\ window' = [window EXCEPT ![s] = @ - n]
        /\ Write(n)
        /\ Goto(s, IF n >= left[s] THEN "done" ELSE "top")
        /\ running' = IF n >= left[s] THEN Nobody ELSE s
        /\ UNCHANGED <<updated, initial, settings>>

(* A mutant: write_ready is awaited once, before the loop. *)
FrameUnpaced(s) ==
    LET n == Least(OutboundWindow(s), Least(MaxFrame, left[s]))
    IN  /\ left' = [left EXCEPT ![s] = @ - n]
        /\ conn' = conn - n
        /\ window' = [window EXCEPT ![s] = @ - n]
        /\ Write(n)
        /\ Goto(s, IF n = left[s] THEN "done" ELSE "woken")
        /\ running' = Nobody
        /\ UNCHANGED <<updated, initial, settings>>

(* One frame of at most the window, the frame size and what is left. *)
Frame(s) ==
    LET n == Least(OutboundWindow(s), Least(MaxFrame, left[s]))
    IN  /\ left' = [left EXCEPT ![s] = @ - n]
        /\ conn' = conn - n
        /\ window' = [window EXCEPT ![s] = @ - n]
        /\ Write(n)
        /\ IF n = left[s]
           THEN Goto(s, "done") /\ running' = Nobody
           ELSE Goto(s, "top") /\ running' = s
        /\ UNCHANGED <<updated, initial, settings>>

(* window_updated.clear() and wait(). *)
AwaitWindow(s) ==
    /\ updated' = [updated EXCEPT ![s] = FALSE]
    /\ Goto(s, "blocked")
    /\ running' = Nobody
    /\ UNCHANGED <<left, ready, windowVars, buffered>>

(* The loop of send_data() after write_ready.wait() has returned. *)
SendOrWait(s) ==
    \/ OutboundWindow(s) > 0 /\ Frame(s)
    \/ OutboundWindow(s) <= 0 /\ AwaitWindow(s)

HasLoop(s) == running \in {s, Nobody}

(* write_ready.wait() at the top of the loop does not yield if it is set. *)
Send(s) ==
    /\ HasLoop(s)
    /\ pc[s] = "top"
    /\ ready
    /\ SendOrWait(s)

AwaitReady(s) ==
    /\ HasLoop(s)
    /\ pc[s] = "top"
    /\ ~ready
    /\ Goto(s, "unready")
    /\ running' = Nobody
    /\ UNCHANGED <<left, updated, ready, windowVars, buffered>>

(* A sender resumed by write_ready goes on, whatever write_ready is now. *)
Resume(s) ==
    /\ running = Nobody
    /\ pc[s] = "woken"
    /\ SendOrWait(s)

(* __terminated__(): the stream was reset or the connection closed, the
   wrapper cancels the sender. *)
Terminate(s) ==
    /\ running = Nobody
    /\ Sending(s)
    /\ Goto(s, "failed")
    /\ UNCHANGED <<running, left, updated, ready, windowVars, buffered>>

-----------------------------------------------------------------------------
(* The transport and the peer.                                             *)

(* The socket takes bytes; at the low-water mark resume_writing() sets
   write_ready and all its waiters are scheduled. *)
Drain ==
    /\ running = Nobody
    /\ \E n \in 0 .. buffered :
        /\ n < buffered
        /\ buffered' = n
        /\ IF ~ready /\ n <= LowWater
           THEN /\ ready' = TRUE
                /\ pc' = [s \in Streams |->
                            IF pc[s] = "unready" THEN "woken" ELSE pc[s]]
           ELSE UNCHANGED <<ready, pc>>
    /\ UNCHANGED <<running, left, updated, windowVars>>

(* window_updated.set() of the streams S: their senders are scheduled. *)
SetUpdated(S) ==
    /\ updated' = [s \in Streams |-> s \in S \/ updated[s]]
    /\ pc' = [s \in Streams |->
                IF s \in S /\ pc[s] = "blocked" THEN "top" ELSE pc[s]]

(* A mutant: an update of the connection's window wakes one stream. *)
ConnUpdatedMutant ==
    \E s \in Streams : SetUpdated({s})

(* process_window_updated() with stream_id 0: every registered stream. *)
ConnUpdated == SetUpdated(Streams)

(* WINDOW_UPDATE: the peer gives back what it has consumed. *)
ConnCredit ==
    /\ running = Nobody
    /\ \E n \in 1 .. ConnWindow - conn : conn' = conn + n
    /\ ConnUpdated
    /\ UNCHANGED <<running, left, ready, window, initial, settings, buffered>>

StreamCredit(s) ==
    /\ running = Nobody
    /\ \E n \in 1 .. initial - window[s] :
          window' = [window EXCEPT ![s] = @ + n]
    /\ SetUpdated({s})
    /\ UNCHANGED <<running, left, ready, conn, initial, settings, buffered>>

(* SETTINGS: h2 moves every stream's window by the difference, below zero if
   need be; process_remote_settings_changed() wakes every registered stream. *)
SettingsChanged ==
    /\ running = Nobody
    /\ settings > 0
    /\ settings' = settings - 1
    /\ \E w \in Windows \ {initial} :
        /\ initial' = w
        /\ window' = [s \in Streams |-> window[s] + w - initial]
    /\ SetUpdated(Streams)
    /\ UNCHANGED <<running, left, ready, conn, buffered>>

-----------------------------------------------------------------------------

Next ==
    \/ \E s \in Streams :
          \/ Send(s) \/ AwaitReady(s) \/ Resume(s)
          \/ Terminate(s) \/ StreamCredit(s)
    \/ Drain \/ ConnCredit \/ SettingsChanged

(* The event loop runs what is scheduled; the socket drains and the peer
   gives back the windows it consumes. *)
Fairness ==
    /\ \A s \in Streams :
        /\ WF_vars(Send(s)) /\ WF_vars(AwaitReady(s)) /\ WF_vars(Resume(s))
        /\ WF_vars(StreamCredit(s))
    /\ WF_vars(Drain) /\ WF_vars(ConnCredit)

Spec == Init /\ [][Next]_vars
FairSpec == Spec /\ Fairness

-----------------------------------------------------------------------------
(* Safety.                                                                 *)

(* protocol.py:422-431, 595-633.  No wake-up is lost between the check of a
   condition and the wait for it: a sender that waits for its window has none,
   and one that waits for write_ready is not writable, and the transport still
   holds bytes whose departure will resume it. *)
NoLostWakeup ==
    \A s \in Streams :
        /\ pc[s] = "blocked" => OutboundWindow(s) <= 0
        /\ pc[s] = "unready" => ~ready /\ buffered > LowWater

(* protocol.py:424-434.  The window is read after the last wait: however the
   streams interleave and the peer shrinks the windows, DATA is only sent
   within both windows, and the shared one is never overdrawn. *)
WindowsRespected ==
    [][\A s \in Streams :
         left'[s] < left[s] =>
             window[s] > 0 /\ window'[s] >= 0 /\ conn' >= 0]_vars

(* protocol.py:422, 441, 448.  Senders woken by write_ready do not look at it
   again, so they may write into a transport that is paused already, but each
   of them at most one frame: the buffer stays bounded. *)
BufferBounded ==
    buffered <= HighWater + MaxFrame * Cardinality(Streams)

(* protocol.py:433-451.  The loop ends with the last byte and not before, so no
   sender waits with nothing left to send and none is done with a part of its
   message, however the windows cut it into frames. *)
MessagesAreWhole ==
    \A s \in Streams : pc[s] = "done" <=> left[s] = 0

(* protocol.py:421-451.  While the peer's initial window is not zero for good,
   every sender ends: no stream is starved by the others or left asleep. *)
SendersEnd ==
    \/ <>[](initial = 0)
    \/ \A s \in Streams : <>~Sending(s)

-----------------------------------------------------------------------------
(* The facts that make NoLostWakeup inductive: the connection's window is never
   overdrawn, and a paused transport is above its low-water mark. *)
WakeInv ==
    /\ conn >= 0
    /\ ~ready => buffered > LowWater
    /\ NoLostWakeup

(* The facts that make the bound inductive: of the streams, those still to be
   woken have not used their frame. *)

Woken == {s \in Streams : pc[s] = "woken"}

BufferInv ==
    /\ ready => buffered <= HighWater
    /\ buffered <= HighWater
          + MaxFrame * (Cardinality(Streams) - Cardinality(Woken))
=============================================================================
