------------------------------ MODULE RecvFlow ------------------------------
(***************************************************************************)
(* Receiving DATA: the Buffer of each stream (protocol.py), which keeps    *)
(* chunks until they are read, and the credit that opens the peer's window *)
(* again only when the chunks are taken by a reader or given up by         *)
(* release_stream().                                                       *)
(*                                                                         *)
(* Bytes are named by their position in the stream: a chunk is the number  *)
(* of bytes before it and its size.  A reader keeps the event loop until   *)
(* it waits for the queue: running names it.                               *)
(***************************************************************************)
EXTENDS Integers, Sequences, FiniteSets

CONSTANTS
    Streams,        \* streams opened on the connection
    Nobody,         \* "the event loop is between two callbacks"
    Conn,           \* the connection's own window, next to the streams'
    Limit,          \* the local windows: max_window_size of each
    Total,          \* bytes the peer has for each stream
    Sizes,          \* sizes that readers ask for
    Padding,        \* padding of a DATA frame
    MaxQueue        \* bound: chunks in the queue of a stream

Windows == Streams \cup {Conn}

ASSUME RecvAssumption ==
    /\ Nobody \notin Streams /\ Conn \notin Streams
    /\ Limit \in [Windows -> Nat \ {0}]
    /\ Total \in [Streams -> Nat]
    /\ Sizes \subseteq Nat \ {0}
    /\ Padding \subseteq Nat
    /\ MaxQueue \in Nat

VARIABLES
    pc,         \* where each reader is, see Places
    running,    \* the reader that has the event loop
    want,       \* read(): size
    gathered,   \* read(): chunks_size, of the reader that is running
    owed,       \* unacked_size(): the sum so far
    pos,        \* bytes that reads have taken
    queue,      \* Buffer._unacked
    acked,      \* Buffer._acked
    ackedSize,  \* Buffer._acked_size
    ended,      \* Buffer._eof: END_STREAM was received
    received,   \* Stream.data_received
    registered, \* the stream is in EventsProcessor.streams
    open,       \* h2: bytes the peer may still send, per window
    processed,  \* h2: bytes acknowledged and not yet announced, per window
    closing     \* Connection.is_closing()

readerVars == <<pc, running, want, gathered, owed, pos>>
bufferVars == <<queue, acked, ackedSize, ended, received, registered>>
windowVars == <<open, processed>>
vars == <<readerVars, bufferVars, windowVars, closing>>

(* "idle": the handler does something else, "get": in the loop over the
   queue, "waiting": in Queue.get(), "check": the loop was left at the end,
   "over": there was no loop, "take": collecting chunks, "failed":
   AssertionError, "left": about to release the stream, "drain": in
   unacked_size(), "gone": released. *)
Places == {"idle", "get", "waiting", "check", "over", "take",
           "failed", "left", "drain", "gone"}

Chunks == [from : Nat, size : Nat]
Queued == [from : Nat, size : Nat, ack : Nat]

Least(a, b) == IF a <= b THEN a ELSE b

TypeOK ==
    /\ pc \in [Streams -> Places]
    /\ running \in Streams \cup {Nobody}
    /\ want \in [Streams -> Sizes \cup {0}]
    /\ gathered \in Nat /\ owed \in Nat
    /\ pos \in [Streams -> Nat]
    /\ queue \in [Streams -> Seq(Queued)]
    /\ acked \in [Streams -> Seq(Chunks)]
    /\ ackedSize \in [Streams -> Nat]
    /\ ended \in [Streams -> BOOLEAN]
    /\ received \in [Streams -> Nat]
    /\ registered \in [Streams -> BOOLEAN]
    /\ open \in [Windows -> Nat] /\ \A w \in Windows : open[w] <= Limit[w]
    /\ processed \in [Windows -> Nat]
    /\ closing \in BOOLEAN

Init ==
    /\ pc = [s \in Streams |-> "idle"]
    /\ running = Nobody
    /\ want = [s \in Streams |-> 0]
    /\ gathered = 0 /\ owed = 0
    /\ pos = [s \in Streams |-> 0]
    /\ queue = [s \in Streams |-> <<>>]
    /\ acked = [s \in Streams |-> <<>>]
    /\ ackedSize = [s \in Streams |-> 0]
    /\ ended = [s \in Streams |-> FALSE]
    /\ received = [s \in Streams |-> 0]
    /\ registered = [s \in Streams |-> TRUE]
    /\ open = Limit
    /\ processed = [w \in Windows |-> 0]
    /\ closing = FALSE

Goto(s, place) == pc' = [pc EXCEPT ![s] = place]

(* read() returns or raises, and its local variables are gone. *)
Leaves(s, place) ==
    /\ Goto(s, place)
    /\ running' = Nobody
    /\ want' = [want EXCEPT ![s] = 0]
    /\ gathered' = 0

-----------------------------------------------------------------------------
(* Credit, h2's WindowManager: acknowledged bytes are announced together,  *)
(* when the window is shut or half of it has been acknowledged.            *)

Announces(w, space, n) ==
    \/ n > 0 /\ space = 0 /\ n > Least(1024, Limit[w] \div 4)
    \/ n > 0 /\ n >= Limit[w] \div 2

(* The windows after n bytes of stream s were acknowledged: space is what was
   open before. *)
Credit(s, n, space) ==
    LET due == [w \in Windows |->
                  IF w \in {s, Conn} THEN processed[w] + n ELSE processed[w]]
        tell == {w \in {s, Conn} : Announces(w, space[w], due[w])}
    IN  /\ open' = [w \in Windows |->
                      IF w \in tell
                      THEN space[w] + Least(due[w], Limit[w] - space[w])
                      ELSE space[w]]
        /\ processed' = [w \in Windows |-> IF w \in tell THEN 0 ELSE due[w]]

(* Connection.ack() *)
Ack(s, n) ==
    IF n > 0 THEN Credit(s, n, open) ELSE UNCHANGED windowVars

-----------------------------------------------------------------------------
(* The peer's frames: process_data_received() and process_stream_ended().  *)

(* Marks the end: UnackedData without data and without credit. *)
Eof(bytes) == [from |-> bytes, size |-> 0, ack |-> 0]

(* What is open after a frame of stream s that counts for n bytes. *)
Spent(s, n) ==
    [w \in Windows |-> IF w \in {s, Conn} THEN open[w] - n ELSE open[w]]

(* A DATA frame of n bytes; flow is the size that counts for flow control, and
   END_STREAM may be set.  Bound: a frame without data is not padded, or chunks
   without data pile up.  The frame of a stream that has been released is
   acknowledged at once. *)
DataReceived(s, n, pad, last) ==
    LET flow  == IF n = 0 THEN 0 ELSE n + pad
        space == Spent(s, flow)
        chunk == [from |-> received[s], size |-> n, ack |-> flow]
        one   == Append(queue[s], chunk)
    IN  /\ running = Nobody /\ ~closing /\ ~ended[s]
        /\ received[s] + n <= Total[s]
        /\ flow <= open[s] /\ flow <= open[Conn]
        /\ Len(queue[s]) < MaxQueue
        /\ received' = [received EXCEPT ![s] = @ + n]
        /\ ended' = [ended EXCEPT ![s] = last]
        /\ \/ /\ registered[s]
              /\ queue' = [queue EXCEPT ![s] =
                             IF last THEN Append(one, Eof(received[s] + n)) ELSE one]
              /\ open' = space
              /\ UNCHANGED processed
           \/ /\ ~registered[s]
              /\ IF flow > 0
                 THEN Credit(s, flow, space)
                 ELSE UNCHANGED windowVars
              /\ UNCHANGED queue
        /\ UNCHANGED <<readerVars, acked, ackedSize, registered, closing>>

(* END_STREAM on trailers, without data. *)
StreamEnded(s) ==
    /\ running = Nobody /\ ~closing /\ ~ended[s]
    /\ ended' = [ended EXCEPT ![s] = TRUE]
    /\ queue' = IF registered[s]
                THEN [queue EXCEPT ![s] = Append(@, Eof(received[s]))]
                ELSE queue
    /\ UNCHANGED <<readerVars, acked, ackedSize, received, registered, windowVars, closing>>

-----------------------------------------------------------------------------
(* Buffer.read()                                                           *)

(* A mutant: whether the end was already read is not considered. *)
ReadMutant(s, n) ==
    /\ running = Nobody /\ running' = s
    /\ pc[s] = "idle"
    /\ want' = [want EXCEPT ![s] = n]
    /\ Goto(s, "get")
    /\ UNCHANGED <<gathered, owed, pos, bufferVars, windowVars, closing>>

Read(s, n) ==
    /\ running = Nobody /\ running' = s
    /\ pc[s] = "idle"
    /\ want' = [want EXCEPT ![s] = n]
    /\ Goto(s, IF ~ended[s] \/ queue[s] # <<>> THEN "get" ELSE "over")
    /\ UNCHANGED <<gathered, owed, pos, bufferVars, windowVars, closing>>

(* A mutant: the credit is not given before the whole read is there. *)
GetMutant(s) ==
    LET next == Head(queue[s]) IN
    /\ running = s /\ pc[s] = "get"
    /\ ackedSize[s] < want[s] /\ queue[s] # <<>>
    /\ queue' = [queue EXCEPT ![s] = Tail(@)]
    /\ IF next.ack = 0
       THEN Goto(s, "check") /\ UNCHANGED <<acked, ackedSize, windowVars>>
       ELSE /\ acked' = [acked EXCEPT ![s] =
                           Append(@, [from |-> next.from, size |-> next.size])]
            /\ ackedSize' = [ackedSize EXCEPT ![s] = @ + next.size]
            /\ IF ackedSize'[s] >= want[s]
               THEN Ack(s, next.ack)
               ELSE UNCHANGED windowVars
            /\ UNCHANGED pc
    /\ UNCHANGED <<running, want, gathered, owed, pos, ended, received,
                   registered, closing>>

(* One turn of the loop: the chunk is credited as soon as it is taken out of
   the queue, and one without credit is taken for the end. *)
Get(s) ==
    LET next == Head(queue[s]) IN
    /\ running = s /\ pc[s] = "get"
    /\ ackedSize[s] < want[s] /\ queue[s] # <<>>
    /\ queue' = [queue EXCEPT ![s] = Tail(@)]
    /\ IF next.ack = 0
       THEN Goto(s, "check") /\ UNCHANGED <<acked, ackedSize, windowVars>>
       ELSE /\ acked' = [acked EXCEPT ![s] =
                           Append(@, [from |-> next.from, size |-> next.size])]
            /\ ackedSize' = [ackedSize EXCEPT ![s] = @ + next.size]
            /\ Ack(s, next.ack)
            /\ UNCHANGED pc
    /\ UNCHANGED <<running, want, gathered, owed, pos, ended, received,
                   registered, closing>>

(* Queue.get() suspends the reader, and the next chunk wakes it up. *)
Wait(s) ==
    /\ running = s /\ running' = Nobody
    /\ pc[s] = "get" /\ ackedSize[s] < want[s] /\ queue[s] = <<>>
    /\ Goto(s, "waiting")
    /\ UNCHANGED <<want, gathered, owed, pos, bufferVars, windowVars, closing>>

Resume(s) ==
    /\ running = Nobody /\ running' = s
    /\ pc[s] = "waiting" /\ queue[s] # <<>>
    /\ Goto(s, "get")
    /\ UNCHANGED <<want, gathered, owed, pos, bufferVars, windowVars, closing>>

(* After the loop: the end, a short read, or enough data.  Bound: a reader that
   is told of the end again reads no more. *)
Check(s) ==
    /\ running = s
    /\ \/ pc[s] \in {"check", "over"}
       \/ pc[s] = "get" /\ ackedSize[s] >= want[s]
    /\ \/ /\ ended[s] /\ ackedSize[s] = 0
          /\ Leaves(s, IF pc[s] = "over" THEN "left" ELSE "idle")
       \/ /\ ~(ended[s] /\ ackedSize[s] = 0)
          /\ ackedSize[s] < want[s]
          /\ Leaves(s, "failed")
       \/ /\ ackedSize[s] > 0 /\ ackedSize[s] >= want[s]
          /\ Goto(s, "take") /\ UNCHANGED <<running, want, gathered>>
    /\ UNCHANGED <<owed, pos, bufferVars, windowVars, closing>>

(* A mutant: the rest of a chunk that was not asked for is dropped. *)
CutMutant(s, n) == [acked EXCEPT ![s] = Tail(@)]

(* n bytes of the first chunk are collected: it is dropped or cut. *)
Cut(s, n) ==
    LET chunk == Head(acked[s]) IN
    IF n = chunk.size
    THEN [acked EXCEPT ![s] = Tail(@)]
    ELSE [acked EXCEPT ![s][1] = [from |-> chunk.from + n, size |-> chunk.size - n]]

(* A mutant: the size is subtracted chunk by chunk and once more at the end. *)
TakeMutant(s) ==
    LET n == Least(Head(acked[s]).size, want[s] - gathered) IN
    /\ running = s /\ pc[s] = "take"
    /\ acked' = Cut(s, n)
    /\ pos' = [pos EXCEPT ![s] = @ + n]
    /\ IF gathered + n = want[s]
       THEN /\ ackedSize' = [ackedSize EXCEPT ![s] = @ - n - want[s]]
            /\ Leaves(s, "idle")
       ELSE /\ ackedSize' = [ackedSize EXCEPT ![s] = @ - n]
            /\ gathered' = gathered + n
            /\ UNCHANGED <<pc, running, want>>
    /\ UNCHANGED <<owed, queue, ended, received, registered, windowVars, closing>>

(* One turn of the loop that collects the chunks; the last one returns. *)
Take(s) ==
    LET n == Least(Head(acked[s]).size, want[s] - gathered) IN
    /\ running = s /\ pc[s] = "take"
    /\ acked' = Cut(s, n)
    /\ pos' = [pos EXCEPT ![s] = @ + n]
    /\ IF gathered + n = want[s]
       THEN /\ ackedSize' = [ackedSize EXCEPT ![s] = @ - want[s]]
            /\ Leaves(s, "idle")
       ELSE /\ gathered' = gathered + n
            /\ UNCHANGED <<ackedSize, pc, running, want>>
    /\ UNCHANGED <<owed, queue, ended, received, registered, windowVars, closing>>

-----------------------------------------------------------------------------
(* The end of a stream.                                                    *)

(* The call or the handler ends, or is cancelled while it waits. *)
Leave(s) ==
    /\ running = Nobody
    /\ pc[s] \in {"idle", "waiting", "failed"}
    /\ Leaves(s, "left")
    /\ UNCHANGED <<owed, pos, bufferVars, windowVars, closing>>

(* release_stream() *)
Release(s) ==
    /\ running = Nobody /\ pc[s] = "left"
    /\ registered' = [registered EXCEPT ![s] = FALSE]
    /\ owed' = 0
    /\ IF closing
       THEN Goto(s, "gone") /\ UNCHANGED running
       ELSE Goto(s, "drain") /\ running' = s
    /\ UNCHANGED <<want, gathered, pos, queue, acked, ackedSize, ended, received,
                   windowVars, closing>>

(* unacked_size() empties the queue. *)
Drain(s) ==
    /\ running = s /\ pc[s] = "drain" /\ queue[s] # <<>>
    /\ queue' = [queue EXCEPT ![s] = Tail(@)]
    /\ owed' = owed + Head(queue[s]).ack
    /\ UNCHANGED <<pc, running, want, gathered, pos, acked, ackedSize, ended, received,
                   registered, windowVars, closing>>

(* A mutant: what was never read is not credited. *)
DrainedMutant(s) ==
    /\ running = s /\ running' = Nobody
    /\ pc[s] = "drain" /\ queue[s] = <<>>
    /\ Goto(s, "gone")
    /\ owed' = 0
    /\ UNCHANGED <<want, gathered, pos, bufferVars, windowVars, closing>>

(* What was never read is credited in one piece. *)
Drained(s) ==
    /\ running = s /\ running' = Nobody
    /\ pc[s] = "drain" /\ queue[s] = <<>>
    /\ Ack(s, owed)
    /\ owed' = 0
    /\ Goto(s, "gone")
    /\ UNCHANGED <<want, gathered, pos, bufferVars, closing>>

(* EventsProcessor.close(): whatever uses a stream is cancelled. *)
ConnectionLost ==
    /\ running = Nobody /\ ~closing
    /\ closing' = TRUE
    /\ pc' = [s \in Streams |->
                IF pc[s] \in {"idle", "waiting", "failed"} THEN "left" ELSE pc[s]]
    /\ want' = [s \in Streams |-> 0]
    /\ UNCHANGED <<running, gathered, owed, pos, bufferVars, windowVars>>

-----------------------------------------------------------------------------

Callback(s) ==
    Get(s) \/ Wait(s) \/ Check(s) \/ Take(s) \/ Drain(s) \/ Drained(s)

Next ==
    \/ \E s \in Streams :
          \/ Callback(s) \/ Resume(s) \/ Leave(s) \/ Release(s)
          \/ \E n \in Sizes : Read(s, n)
          \/ \E n \in 0 .. Total[s], pad \in Padding, last \in BOOLEAN :
                DataReceived(s, n, pad, last)
          \/ StreamEnded(s)
    \/ ConnectionLost

(* A handler that does not wait for data reads again or leaves. *)
GoOn(s) ==
    \/ \E n \in Sizes : Read(s, n)
    \/ pc[s] \in {"idle", "failed"} /\ Leave(s)

(* The event loop runs what is ready, and the peer sends what it has and ends
   the stream.  No state repeats, so that nobody can be passed over for ever. *)
Fairness ==
    \A s \in Streams :
        /\ WF_vars(Callback(s))
        /\ WF_vars(Resume(s)) /\ WF_vars(GoOn(s)) /\ WF_vars(Release(s))
        /\ WF_vars(\E n \in 1 .. Total[s], pad \in Padding, last \in BOOLEAN :
                      DataReceived(s, n, pad, last))
        /\ WF_vars(received[s] = Total[s] /\ StreamEnded(s))

Spec == Init /\ [][Next]_vars
FairSpec == Spec /\ Fairness

-----------------------------------------------------------------------------
(* Properties.                                                             *)

(* The position after the first chunks of a stream. *)
EndOf(chunk) == chunk.from + chunk.size

Contiguous(chunks, first, last) ==
    /\ chunks = <<>> => first = last
    /\ chunks # <<>> => chunks[1].from = first /\ EndOf(chunks[Len(chunks)]) = last
    /\ \A i \in 1 .. Len(chunks) - 1 : EndOf(chunks[i]) = chunks[i + 1].from

(* What was acked ends where the queue begins. *)
AckedEnd(s) == IF queue[s] = <<>> THEN received[s] ELSE queue[s][1].from

(* protocol.py:65-119, 609-617.  Every byte that was received and not read yet
   is held once and in order, across chunks that are cut, reads that span
   chunks and reads that wait. *)
BytesInOrder ==
    \A s \in Streams : registered[s] =>
        /\ Contiguous(acked[s], pos[s], AckedEnd(s))
        /\ Contiguous(queue[s], AckedEnd(s), received[s])

(* protocol.py:94-99, 117.  _acked_size is what _acked holds, so that a read
   returns what it asked for; while chunks are collected it is behind. *)
AckedSizeExact ==
    \A s \in Streams : registered[s] =>
        ackedSize[s] = AckedEnd(s) - pos[s] + (IF pc[s] = "take" THEN gathered ELSE 0)

(* The units of credit that lie in a queue, each named by its chunk, and those
   of the whole connection. *)
Units(chunks) == UNION {{i} \X (1 .. chunks[i].ack) : i \in 1 .. Len(chunks)}

Held == UNION {{s} \X Units(queue[s]) : s \in Streams}

(* What release_stream() has taken out of a stream and not yet credited. *)
Owed(s) == IF pc[s] = "drain" THEN owed ELSE 0

(* protocol.py:93-95, 547-556, 613-622.  No credit is lost or given twice: of
   each window, what the peer may not send is what h2 is about to announce and
   what lies unread in the streams. *)
CreditConserved ==
    /\ Limit[Conn] = open[Conn] + processed[Conn] + owed + Cardinality(Held)
    /\ \A s \in Streams :
          Limit[s] = open[s] + processed[s] + Owed(s) + Cardinality(Units(queue[s]))

(* protocol.py:93-95, 613-622.  Whoever has read all there is has not shut the
   peer out: half of the window is open, of the stream that was read and, when
   all were, of the connection. *)
PeerMaySend ==
    /\ Held = {} /\ owed = 0 => 2 * open[Conn] >= Limit[Conn]
    /\ \A s \in Streams :
          Units(queue[s]) = {} /\ Owed(s) = 0 => 2 * open[s] >= Limit[s]

(* protocol.py:86-96.  No read waits for a peer that has ended the stream. *)
NoWaitAfterEnd ==
    \A s \in Streams : pc[s] = "waiting" /\ queue[s] = <<>> => ~ended[s]

(* protocol.py:89-96, tests/test_protocol.py:81.  A read ends even if it asks
   for more than the window holds: what has arrived is credited while the rest
   is awaited. *)
ReadsEnd ==
    \A s \in Streams : pc[s] = "waiting" ~> pc[s] # "waiting"
-----------------------------------------------------------------------------
(* Reads as their callers see them.                                        *)

Reader(s) ==
    CASE pc[s] = "idle"              -> "idle"
      [] pc[s] \in {"get", "take"}   -> "reading"
      [] pc[s] = "waiting"           -> IF queue[s] = <<>> THEN "blocked" ELSE "reading"
      [] pc[s] \in {"check", "over"} -> "stopped"
      [] pc[s] = "failed"            -> "failed"
      [] OTHER                       -> "left"

(* While chunks are collected, none has been returned yet. *)
Returned(s) == pos[s] - (IF pc[s] = "take" THEN gathered ELSE 0)

Unread(s) == queue[s] # <<>> /\ Reader(s) # "left"

readers  == [s \in Streams |-> Reader(s)]
returned == [s \in Streams |-> Returned(s)]
unread   == [s \in Streams |-> Unread(s)]

Reads == INSTANCE ByteStream WITH
    reader <- readers, arrived <- received, taken <- returned, more <- unread

(* protocol.py:79-119.  Buffer.read() implements ByteStream: whatever chunks the
   data come in, a read takes what it was asked for in one step or nothing, and
   waits only for what has not arrived. *)
ReadsAreWhole == Reads!Spec
-----------------------------------------------------------------------------
(* The facts that make the data invariants inductive. *)

Busy == {"get", "check", "over", "take", "drain"}
Reading == {"get", "waiting", "check", "over", "take"}

(* The reader that has the event loop is the only one inside a loop. *)
OneRuns == \A s \in Streams : pc[s] \in Busy <=> running = s

(* A read asks for something, and collects no more than it asked for. *)
ReadsInHand ==
    /\ \A s \in Streams :
          /\ pc[s] \in Reading => want[s] \in Sizes
          /\ pc[s] = "take" => gathered < want[s] /\ want[s] <= ackedSize[s]
    /\ (\A s \in Streams : pc[s] # "take") => gathered = 0

ReleasedOnce == \A s \in Streams : registered[s] <=> pc[s] \notin {"drain", "gone"}

(* While the queue of an ended stream holds anything, it holds the end, and
   nobody stays in the loop over the queue after that was taken out. *)
EndIsLast ==
    \A s \in Streams : ended[s] /\ registered[s] =>
        /\ queue[s] # <<>> => queue[s][Len(queue[s])].ack = 0
        /\ pc[s] \in {"get", "waiting"} => queue[s] # <<>>

(* A chunk is credited with its data at least, so that one without credit has
   no data. *)
CreditCovers ==
    \A s \in Streams : \A i \in 1 .. Len(queue[s]) : queue[s][i].size <= queue[s][i].ack

(* Finitely many units are held, and none is owed unless a stream is drained. *)
CreditInHand ==
    /\ IsFiniteSet(Held)
    /\ (\A s \in Streams : pc[s] # "drain") => owed = 0

(* What was acknowledged is announced before it is half a window. *)
AnnouncedInTime ==
    \A w \in Windows : processed[w] > 0 => processed[w] < Limit[w] \div 2

RecvInv ==
    /\ OneRuns /\ ReadsInHand /\ ReleasedOnce /\ EndIsLast /\ CreditCovers
    /\ BytesInOrder /\ AckedSizeExact

(* What the buffer holds has been received.  A read that was stopped is short of
   data, and once the end was taken out nothing is left to read. *)
ReadInv ==
    \A s \in Streams :
        /\ \A i \in 1 .. Len(queue[s]) : EndOf(queue[s][i]) <= received[s]
        /\ pc[s] = "check" => ackedSize[s] < want[s]
        /\ pc[s] \notin Reading => want[s] = 0
        /\ pc[s] = "over" => ended[s] /\ queue[s] = <<>>
        /\ ended[s] /\ registered[s] /\ queue[s] = <<>> =>
              /\ pc[s] # "take"
              /\ pc[s] \in {"idle", "over"} => ackedSize[s] = 0
=============================================================================
