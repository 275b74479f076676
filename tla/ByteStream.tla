----------------------------- MODULE ByteStream -----------------------------
(***************************************************************************)
(* What the reads of a stream promise, whatever frames its bytes come in:  *)
(* a read returns as many bytes as it was asked for, the next ones, in one *)
(* step; it waits only while they have not arrived and may still do so;    *)
(* and a read that is told of the end, fails or is cancelled takes none.   *)
(*                                                                         *)
(* A frame without bytes is taken for the end.  Then there may be more     *)
(* behind it, and that is the only excuse.                                 *)
(***************************************************************************)
EXTENDS Integers

CONSTANTS
    Streams,    \* the streams
    Total,      \* bytes the peer has for each stream
    Sizes       \* sizes that readers ask for

VARIABLES
    reader,     \* "idle", "reading", "blocked", "stopped" (at an end), "failed",
                \*   "left"
    want,       \* what the read was asked for
    arrived,    \* bytes that have come
    taken,      \* bytes that reads have returned
    ended,      \* END_STREAM has come
    more        \* there are frames that the reader has not looked at

vars == <<reader, want, arrived, taken, ended, more>>

Init ==
    /\ reader = [s \in Streams |-> "idle"]
    /\ want = [s \in Streams |-> 0]
    /\ arrived = [s \in Streams |-> 0]
    /\ taken = [s \in Streams |-> 0]
    /\ ended = [s \in Streams |-> FALSE]
    /\ more = [s \in Streams |-> FALSE]

Missing(s) == taken[s] + want[s] > arrived[s]

(* A frame of n bytes, perhaps the last one. *)
Arrive(s, n, last) ==
    /\ ~ended[s]
    /\ arrived' = [arrived EXCEPT ![s] = @ + n]
    /\ ended' = [ended EXCEPT ![s] = last]
    /\ more' = [more EXCEPT ![s] = reader[s] # "left"]
    /\ reader' = [reader EXCEPT ![s] = IF @ = "blocked" THEN "reading" ELSE @]
    /\ UNCHANGED <<want, taken>>

Ask(s, n) ==
    /\ reader[s] = "idle"
    /\ want' = [want EXCEPT ![s] = n]
    /\ reader' = [reader EXCEPT ![s] =
                    IF ended[s] /\ ~more[s] THEN "stopped" ELSE "reading"]
    /\ UNCHANGED <<arrived, taken, ended, more>>

(* The reader looks at a frame, which may have been the last one so far and may
   stop it. *)
Fetch(s) ==
    /\ reader[s] = "reading" /\ more[s]
    /\ \E b \in BOOLEAN : more' = [more EXCEPT ![s] = b]
    /\ \E r \in {"reading", "stopped"} : reader' = [reader EXCEPT ![s] = r]
    /\ UNCHANGED <<want, arrived, taken, ended>>

Block(s) ==
    /\ reader[s] = "reading"
    /\ ~more[s] /\ ~ended[s] /\ Missing(s)
    /\ reader' = [reader EXCEPT ![s] = "blocked"]
    /\ UNCHANGED <<want, arrived, taken, ended, more>>

(* The read is over. *)
Ends(s, next) ==
    /\ reader' = [reader EXCEPT ![s] = next]
    /\ want' = [want EXCEPT ![s] = 0]
    /\ UNCHANGED <<arrived, ended>>

Return(s) ==
    /\ reader[s] = "reading" /\ ~Missing(s)
    /\ taken' = [taken EXCEPT ![s] = @ + want[s]]
    /\ Ends(s, "idle")
    /\ UNCHANGED more

(* Nothing is returned, and the handler may leave at once. *)
TellEnd(s) ==
    /\ reader[s] = "stopped" /\ ended[s]
    /\ more[s] \/ taken[s] = arrived[s]
    /\ \/ Ends(s, "idle") /\ UNCHANGED more
       \/ Ends(s, "left") /\ more' = [more EXCEPT ![s] = FALSE]
    /\ UNCHANGED taken

Fail(s) ==
    /\ reader[s] = "stopped"
    /\ more[s] \/ Missing(s)
    /\ Ends(s, "failed")
    /\ UNCHANGED <<taken, more>>

(* The readers of the streams S leave, from wherever a cancellation finds
   them. *)
Leave(S) ==
    /\ \A s \in S : reader[s] \notin {"stopped", "left"}
    /\ reader' = [s \in Streams |-> IF s \in S THEN "left" ELSE reader[s]]
    /\ want' = [s \in Streams |-> IF s \in S THEN 0 ELSE want[s]]
    /\ more' = [s \in Streams |-> more[s] /\ s \notin S]
    /\ UNCHANGED <<arrived, taken, ended>>

Next ==
    \/ \E s \in Streams :
          \/ Fetch(s) \/ Block(s) \/ Return(s) \/ TellEnd(s) \/ Fail(s)
          \/ \E n \in Sizes : Ask(s, n)
          \/ \E n \in 0 .. Total[s], last \in BOOLEAN : Arrive(s, n, last)
    \/ \E S \in SUBSET Streams : Leave(S)

Spec == Init /\ [][Next]_vars
=============================================================================
