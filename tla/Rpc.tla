--------------------------------- MODULE Rpc ---------------------------------
(***************************************************************************)
(* What a gRPC server promises to the client of one request: initial       *)
(* metadata first and once, whole messages, one of them if the method is   *)
(* unary, and at most one status, after which nothing follows but a reset. *)
(* OK is only said of a response that is complete.                         *)
(*                                                                         *)
(* One thing voids what is said of messages and of OK: a method that       *)
(* handles what interrupted it in the middle of a message and goes on.     *)
(* Bytes of a message are then missing and nobody keeps note of that.      *)
(***************************************************************************)
EXTENDS Naturals

CONSTANTS
    Errors,     \* the statuses other than "OK"
    None        \* no status yet

VARIABLES
    streaming,  \* the method may send any number of messages
    phase,      \* "quiet", "open" (initial metadata sent), "partial" (a message
                \*   is under way), "answered" (status and END_STREAM sent)
    count,      \* whole messages sent
    status,     \* the status sent
    broken,     \* RST_STREAM sent
    cut         \* the method went on after a message of it was cut

vars == <<streaming, phase, count, status, broken, cut>>

Init ==
    /\ streaming \in BOOLEAN
    /\ phase = "quiet"
    /\ count = 0
    /\ status = None
    /\ broken = FALSE
    /\ cut = FALSE

Headers ==
    /\ ~broken
    /\ phase = "quiet"
    /\ phase' = "open"
    /\ UNCHANGED <<streaming, count, status, broken, cut>>

Part ==
    /\ ~broken
    /\ phase \in {"open", "partial"}
    /\ phase' = "partial"
    /\ UNCHANGED <<streaming, count, status, broken, cut>>

Message ==
    /\ ~broken
    /\ phase \in {"open", "partial"}
    /\ streaming \/ count = 0
    /\ phase' = "open"
    /\ count' = count + 1
    /\ UNCHANGED <<streaming, status, broken, cut>>

(* A status, with a reset if it is an error: the client need not send on. *)
Answer(s) ==
    /\ ~broken
    /\ phase # "answered"
    /\ s = "OK" => (phase # "partial" \/ cut) /\ (streaming \/ count = 1)
    /\ phase' = "answered"
    /\ status' = s
    /\ broken' \in {FALSE, s # "OK"}
    /\ UNCHANGED <<streaming, count, cut>>

(* The method cancels its stream. *)
Reset ==
    /\ broken' = TRUE
    /\ UNCHANGED <<streaming, phase, count, status, cut>>

(* The method takes a message of which only a part was sent for done with. *)
GiveUp ==
    /\ phase = "partial"
    /\ cut' = TRUE
    /\ UNCHANGED <<streaming, phase, count, status, broken>>

Next ==
    \/ Headers \/ Part \/ Message \/ Reset \/ GiveUp
    \/ \E s \in Errors \cup {"OK"} : Answer(s)

Spec == Init /\ [][Next]_vars
=============================================================================
