------------------------- MODULE ServerStreamProofs -------------------------
(***************************************************************************)
(* Proofs about ServerStream: type correctness, the safety properties, and *)
(* that it implements Rpc, for any requests, listeners and methods.        *)
(***************************************************************************)
EXTENDS ServerStream, TLAPS

(* What a request is made of. *)
LEMMA RequestFields ==
    ASSUME call \in Requests
    PROVE  /\ call.streaming \in BOOLEAN
           /\ call.timeout \in Nat \cup {NoTime}
           /\ call.deadline \in Nat \cup {NoTime}
           /\ call.before \in Nat /\ call.after \in Nat /\ call.transit \in Nat
BY StreamAssumption DEF RequestType

-----------------------------------------------------------------------------
(* Timeouts.                                                               *)

LEMMA UnitsArePositive ==
    /\ Nano \in Nat \ {0} /\ Micro \in Nat \ {0}
    /\ Milli \in Nat \ {0} /\ Second \in Nat \ {0}
<1>1. \A a, b \in Nat \ {0} : a * b \in Nat \ {0}
    OBVIOUS
<1> QED
    BY <1>1, ScaleAssumption DEF Nano, Micro, Milli, Second

(* What the division by a unit leaves is less than the unit. *)
LEMMA Truncation ==
    ASSUME NEW t \in Nat, NEW u \in Nat \ {0}
    PROVE  /\ (t \div u) * u \in Nat
           /\ (t \div u) * u <= t
           /\ t - (t \div u) * u < u
OBVIOUS

(* A header carries the timeout it encodes, less than a tenth of it or a
   nanosecond short. *)
LEMMA HeaderIsClose ==
    ASSUME NEW t \in Nat
    PROVE  LET d == DecodeTimeout(EncodeTimeout(t))
           IN  d \in Nat /\ d <= t /\ (t - d < Nano \/ 10 * (t - d) < t)
<1> DEFINE u == UnitOf(t)
<1>1. u \in Nat \ {0} /\ (u = Nano \/ 10 * u < t)
    BY UnitsArePositive DEF UnitOf
<1>2. DecodeTimeout(EncodeTimeout(t)) = (t \div u) * u
    BY DEF DecodeTimeout, EncodeTimeout
<1> QED
    <2> DEFINE d == (t \div u) * u
    <2>1. d \in Nat /\ d <= t /\ t - d < u
        BY <1>1, Truncation
    <2> HIDE DEF u, d
    <2>2. t - d < Nano \/ 10 * (t - d) < t
        BY <1>1, <2>1, UnitsArePositive
    <2> QED
        BY <1>2, <2>1, <2>2 DEF d

(* The server's deadline is what the header says from the arrival on. *)
LEMMA DeadlineFromHeader ==
    ASSUME call \in Requests
    PROVE  LET left == TimeRemaining(call.before, ClientDeadline)
               deadlineSet == FromHeaders(Arrival, TimeoutHeaders)
           IN  /\ Arrival \in Nat
               /\ left \in Nat
               /\ \/ deadlineSet = NoTime
                  \/ deadlineSet = Arrival + DecodeTimeout(EncodeTimeout(left))
<1> DEFINE left == TimeRemaining(call.before, ClientDeadline)
           h == EncodeTimeout(left)
<1>1. Arrival \in Nat
    BY RequestFields DEF Arrival
<1>2. ClientDeadline \in Nat \cup {NoTime}
    BY RequestFields DEF ClientDeadline, RequestDeadline, NoTime
<1>3. left \in Nat
    BY <1>2, RequestFields DEF TimeRemaining, NoTime
<1>4. CASE ClientDeadline = NoTime
    BY <1>1, <1>3, <1>4 DEF TimeoutHeaders, FromHeaders
<1>5. CASE ClientDeadline # NoTime
    <2>1. TimeoutHeaders = {h}
        BY <1>5 DEF TimeoutHeaders
    <2>2. DecodeTimeout(h) \in Nat
        BY <1>3, HeaderIsClose
    <2>3. FromHeaders(Arrival, {h}) =
            Arrival + CHOOSE t \in {DecodeTimeout(h)} : \A v \in {DecodeTimeout(h)} : t <= v
        BY DEF FromHeaders
    <2>4. (CHOOSE t \in {DecodeTimeout(h)} : \A v \in {DecodeTimeout(h)} : t <= v)
            = DecodeTimeout(h)
        BY <2>2
    <2> QED
        BY <1>1, <1>3, <2>1, <2>3, <2>4
<1> QED
    BY <1>4, <1>5

LEMMA DeadlineType ==
    ASSUME call \in Requests
    PROVE  FromHeaders(Arrival, TimeoutHeaders) \in Nat \cup {NoTime}
<1>1. \A t \in Nat : DecodeTimeout(EncodeTimeout(t)) \in Nat
    BY HeaderIsClose
<1> QED
    BY <1>1, DeadlineFromHeader

-----------------------------------------------------------------------------
(* Type correctness.                                                       *)

LEMMA KnownStatuses == {"UNKNOWN", "UNIMPLEMENTED", "DEADLINE_EXCEEDED", "OK"} \subseteq Statuses
BY StreamAssumption DEF Statuses

LEMMA PiecesType == Pieces \in Nat \ {0}
BY StreamAssumption

LEMMA InitTypeOK == Init => TypeOK
<1> SUFFICES ASSUME Init PROVE TypeOK
    OBVIOUS
<1>1. part \in 0 .. Pieces - 1
    BY PiecesType DEF Init
<1>2. count \in Nat
    BY DEF Init
<1>3. pending \in Raisable \cup {"cancelled"} /\ pending \in Statuses
    BY KnownStatuses DEF Init, Raisable
<1> QED
    BY <1>1, <1>2, <1>3, KnownStatuses, Zenon DEF Init, TypeOK

(* How a request ends, or its exit begins, keeps the task in its type. *)
LEMMA ExitType ==
    ASSUME TypeOK, NEW outcome \in Raisable \cup {"return", "cancelled"}, Exit(outcome)
    PROVE  /\ pc' \in {"listen", "write", "done"}
           /\ op' \in {op, "trailing"} /\ ret' \in {ret, "exit"}
           /\ fate' \in {fate, "answered", "silent", "cancelled", "failed"}
           /\ pending' \in Raisable \cup {"cancelled"}
           /\ pc' # "done" => pending' \in Statuses
<1> DEFINE s == ImplicitStatus(outcome)
<1>1. /\ s \in Raisable \cup {"cancelled"}
      /\ outcome \notin {"cancelled", "interrupt"} => s \in Statuses \cup {"unsendable"}
    BY KnownStatuses DEF ImplicitStatus, Raisable
<1> HIDE DEF s
<1>2. CASE "trailing" \in done \/ "cancel" \in done \/ closing
    BY <1>2 DEF TypeOK, Exit, Finish, End, Goto
<1>3. CASE /\ ~("trailing" \in done \/ "cancel" \in done \/ closing)
           /\ outcome \in {"cancelled", "interrupt"}
    BY <1>1, <1>3 DEF TypeOK, Exit, End, Goto, s
<1>4. CASE /\ ~("trailing" \in done \/ "cancel" \in done \/ closing)
           /\ outcome \notin {"cancelled", "interrupt"}
    <2>1. pending' = s
        BY <1>4 DEF Exit, s
    <2>2. CASE Sendable(s)
        <3>1. Send("trailing", "exit") /\ UNCHANGED fate
            BY <1>4, <2>2 DEF Exit, s
        <3>2. s \in Statuses
            BY <1>1, <1>4, <2>2 DEF Sendable
        <3> QED
            BY <1>1, <2>1, <3>1, <3>2 DEF Send, TypeOK
    <2>3. CASE ~Sendable(s)
        <3>1. End("failed")
            BY <1>4, <2>3 DEF Exit, s
        <3> QED
            BY <1>1, <2>1, <3>1 DEF End, Goto, TypeOK
    <2> QED
        BY <2>2, <2>3
<1> QED
    BY <1>2, <1>3, <1>4

LEMMA LeaveType ==
    ASSUME TypeOK, NEW outcome \in Raisable \cup {"return", "cancelled"}, Leave(outcome)
    PROVE  /\ pc' \in {"listen", "write", "done"}
           /\ op' \in {op, "trailing"} /\ ret' \in {ret, "exit"}
           /\ fate' \in {fate, "answered", "silent", "cancelled", "failed"}
           /\ pending' \in Raisable \cup {"cancelled"}
           /\ pc' # "done" => pending' \in Statuses
           /\ timer' \in BOOLEAN /\ cut' \in BOOLEAN
<1>1. \A e \in {"DEADLINE_EXCEEDED", "UNKNOWN"} : e \in Raisable
    BY KnownStatuses DEF Raisable
<1> QED
    BY <1>1, ExitType DEF Leave, TypeOK

LEMMA RaisedType ==
    ASSUME TypeOK, NEW outcome \in Raisable \cup {"return", "cancelled"}, Raised(outcome),
           pc # "done"
    PROVE  /\ pc' \in {"listen", "write", "body", "done"}
           /\ op' \in {op, "trailing"} /\ ret' \in {ret, "exit"}
           /\ fate' \in {fate, "answered", "silent", "cancelled", "failed"}
           /\ pending' \in Raisable \cup {"cancelled"}
           /\ pc' # "done" => pending' \in Statuses
           /\ timer' \in BOOLEAN /\ cut' \in BOOLEAN
<1>1. CASE Leave(outcome)
    BY <1>1, LeaveType
<1>2. CASE /\ Goto("body") /\ cut' = (cut \/ phase = "partial")
           /\ UNCHANGED <<pending, fate, timer>>
    <2>1. cut' \in BOOLEAN
        BY <1>2, Zenon
    <2> QED
        BY <1>2, <2>1 DEF Goto, TypeOK
<1> QED
    BY <1>1, <1>2 DEF Raised

LEMMA NextTypeOK == TypeOK /\ [Next]_vars => TypeOK'
<1> SUFFICES ASSUME TypeOK, [Next]_vars PROVE TypeOK'
    OBVIOUS
<1> USE DEF TypeOK
<1>1. CASE Start
    <2> DEFINE limit == FromHeaders(Arrival, TimeoutHeaders)
    <2>1. limit \in Nat \cup {NoTime}
        BY DeadlineType
    <2>2. deadline' \in {deadline, limit} /\ timer' \in {timer, limit # NoTime}
        BY <1>1 DEF Start
    <2>3. deadline' \in Nat \cup {NoTime} /\ timer' \in BOOLEAN
        BY <2>1, <2>2
    <2>4. UNCHANGED <<call, done, part, err, wireVars, cut, stopped, envVars>>
        BY <1>1 DEF Start
    <2>7. cancelReq' \in BOOLEAN
        BY <1>1, Zenon DEF Start
    <2>5. CASE Exit("UNKNOWN")
        <3>1. /\ pc' \in {"listen", "write", "done"} /\ op' \in {op, "trailing"}
              /\ ret' \in {ret, "exit"}
              /\ pending' \in Raisable \cup {"cancelled"}
              /\ pc' # "done" => pending' \in Statuses
              /\ fate' \in {fate, "answered", "silent", "cancelled", "failed"}
            BY <2>5, KnownStatuses, ExitType DEF Raisable
        <3> QED
            BY <2>3, <2>4, <2>7, <3>1 DEF wireVars, envVars
    <2>6. CASE /\ pc' \in {"done", "abort", "body", "listen", "write"}
               /\ op' \in {op, "request"} /\ ret' \in {ret, "body"}
               /\ pending' = pending /\ fate' \in {fate, "cancelled", "failed"}
               /\ pc = "new"
        BY <2>3, <2>4, <2>7, <2>6 DEF wireVars, envVars
    <2> QED
        BY <1>1, <2>5, <2>6 DEF Start, Finish, End, Goto, Send
<1>2. CASE Abort
    <2>1. broken' \in BOOLEAN
        BY <1>2 DEF Abort
    <2>2. status' \in Statuses \cup {None} /\ phase' \in {phase, "answered"}
        BY <1>2, KnownStatuses DEF Abort
    <2>3. /\ pc' = "done" /\ UNCHANGED <<op, ret, pending>>
          /\ fate' \in {"answered", "silent"}
          /\ UNCHANGED <<call, deadline, done, part, timer, err, cancelReq, count, cut, stopped,
                         envVars>>
        BY <1>2 DEF Abort, Finish, End, Goto
    <2> QED
        BY <2>1, <2>2, <2>3 DEF envVars
<1>3. CASE SendInitialMetadata
    BY <1>3 DEF SendInitialMetadata, InBody, Send, Unsent, Stepped, wireVars, envVars
<1>15. CASE SendMessage
    <2>1. part' \in 0 .. Pieces - 1
        BY <1>15, PiecesType DEF SendMessage
    <2> QED
        BY <1>15, <2>1 DEF SendMessage, InBody, Send, Stepped, wireVars, envVars
<1>16. CASE Cancel
    BY <1>16 DEF Cancel, InBody, Send, Unsent, Stepped, wireVars, envVars
<1>4. ASSUME NEW s \in Statuses, SendTrailingMetadata(s) PROVE TypeOK'
    BY <1>4 DEF SendTrailingMetadata, InBody, Send, Unsent, Stepped, Raisable, wireVars, envVars
<1>5. CASE Return
    BY <1>5, LeaveType DEF Return, Unsent, Stepped, wireVars, envVars
<1>6. ASSUME NEW s \in Raisable, Raise(s) PROVE TypeOK'
    BY <1>6, LeaveType DEF Raise, Unsent, Stepped, wireVars, envVars
<1>7. CASE Dispatched
    <2>1. ASSUME NEW s \in Raisable, Leave(s) \/ Raised(s) PROVE TypeOK'
        BY <1>7, <2>1, LeaveType, RaisedType DEF Dispatched, Unsent, Stepped, wireVars, envVars
    <2> QED
        BY <1>7, <2>1 DEF Dispatched, Goto, Finish, End, Unsent, Stepped, wireVars, envVars
<1>8. CASE Refused
    <2>1. CASE Raised("UNKNOWN")
        <3>1. "UNKNOWN" \in Raisable /\ pc # "done"
            BY <1>8, KnownStatuses DEF Refused, Raisable
        <3> QED
            BY <1>8, <2>1, <3>1, RaisedType DEF Refused, Unsent, Stepped, wireVars, envVars
    <2> QED
        BY <1>8, <2>1 DEF Refused, Finish, End, Goto, Unsent, Stepped, wireVars, envVars
<1>9. CASE Cancelled
    <2>1. UNCHANGED <<call, deadline, done, part, err, stopped, wireVars, envVars>>
        BY <1>9 DEF Cancelled, Stepped
    <2>3. cancelReq' \in BOOLEAN
        BY <1>9, Zenon DEF Cancelled
    <2>2. /\ pc' \in {"listen", "write", "body", "done"}
          /\ op' \in {op, "trailing"} /\ ret' \in {ret, "exit"}
          /\ fate' \in {fate, "answered", "silent", "cancelled", "failed"}
          /\ pending' \in Raisable \cup {"cancelled"}
          /\ pc' # "done" => pending' \in Statuses
          /\ timer' \in BOOLEAN /\ cut' \in BOOLEAN
        <3>1. CASE Finish("cancelled") /\ UNCHANGED <<timer, cut>>
            BY <3>1 DEF Finish, End, Goto
        <3>2. CASE Leave("cancelled")
            BY <3>2, LeaveType
        <3>3. CASE InWrapper /\ Raised("cancelled")
            BY <3>3, RaisedType DEF InWrapper
        <3> QED
            BY <1>9, <3>1, <3>2, <3>3 DEF Cancelled
    <2> QED
        BY <2>1, <2>2, <2>3 DEF wireVars, envVars
<1>10. CASE WriteInitial
    BY <1>10 DEF WriteInitial, CanWrite, Sent, Send, Goto, envVars
<1>17. CASE WriteReset
    BY <1>17 DEF WriteReset, CanWrite, Sent, Send, Goto, envVars
<1>11. CASE WriteMessage
    <2>1. part' \in 0 .. Pieces - 1
        BY <1>11, PiecesType DEF WriteMessage, More
    <2>2. count' \in Nat /\ phase' \in {"partial", "open"}
        BY <1>11 DEF WriteMessage, Sent
    <2>3. /\ pc' \in {pc, "listen", "write", "body"} /\ op' \in {op, "message"}
          /\ ret' \in {ret, "body"} /\ done' \in {done, done \cup {op}}
          /\ op = "message" /\ pc = "write"
          /\ UNCHANGED <<pending, fate, status, broken, call, deadline, timer, err, cancelReq,
                         cut, stopped, envVars>>
        BY <1>11 DEF WriteMessage, CanWrite, Sent, Send, Goto
    <2> QED
        BY <2>1, <2>2, <2>3 DEF envVars
<1>12. CASE WriteTrailing
    <2>1. broken' \in BOOLEAN
        BY <1>12 DEF WriteTrailing
    <2>2. /\ pc' \in {"listen", "write", "body", "done"} /\ op' \in {op, "message"}
          /\ ret' \in {ret, "body"} /\ done' = done \cup {op} /\ op = "trailing"
          /\ phase' = "answered" /\ status' = pending /\ fate' \in {fate, "answered"}
          /\ pc = "write"
          /\ UNCHANGED <<pending, part, count, call, deadline, timer, err, cancelReq, cut, stopped,
                         envVars>>
        BY <1>12 DEF WriteTrailing, CanWrite, Sent, Send, Goto
    <2> QED
        BY <2>1, <2>2 DEF envVars
<1>13. CASE Environment
    <2> USE DEF taskVars, wireVars, envVars
    <2>1. CASE DeadlineExpired
        <3>1. timer' \in BOOLEAN /\ cancelReq' \in BOOLEAN
            BY <2>1, Zenon DEF DeadlineExpired
        <3>2. err' = "deadline" /\ UNCHANGED <<call, taskVars, wireVars, cut, stopped, envVars>>
            BY <2>1 DEF DeadlineExpired
        <3> QED
            BY <3>1, <3>2
    <2>2. CASE StreamReset
        BY <2>2 DEF StreamReset, Terminated
    <2>3. CASE StreamEnded
        BY <2>3 DEF StreamEnded
    <2>4. CASE ConnectionClosed
        <3>1. closing' \in BOOLEAN
            BY <2>4, Zenon DEF ConnectionClosed
        <3>2. /\ cancelReq' \in BOOLEAN /\ err' \in {err, "terminated"} /\ stopped' \in BOOLEAN
              /\ UNCHANGED <<call, taskVars, timer, wireVars, cut, remote, paused, window>>
            BY <2>4 DEF ConnectionClosed, Terminated
        <3> QED
            BY <3>1, <3>2
    <2>5. CASE ServerClose
        BY <2>5 DEF ServerClose
    <2>6. CASE FlowControl
        BY <2>6 DEF FlowControl
    <2> QED
        BY <1>13, <2>1, <2>2, <2>3, <2>4, <2>5, <2>6 DEF Environment
<1>14. CASE UNCHANGED vars
    BY <1>14 DEF vars, taskVars, wireVars, envVars
<1> QED
    BY <1>1, <1>2, <1>3, <1>4, <1>5, <1>6, <1>7, <1>8, <1>9, <1>10, <1>11, <1>12,
       <1>13, <1>14, <1>15, <1>16, <1>17 DEF Next, Method, Step

(* Every variable keeps its type, for any method. *)
THEOREM TypeCorrect == Spec => []TypeOK
BY InitTypeOK, NextTypeOK, PTL DEF Spec

-----------------------------------------------------------------------------
(* The inductive invariant.                                                *)

(* An exit ends the request, for a reason, or sends a status that may be sent. *)
LEMMA ExitEffect ==
    ASSUME NEW outcome, Exit(outcome)
    PROVE  \/ /\ pc' = "done" /\ UNCHANGED <<op, ret, pending>>
              /\ fate' \in {"answered", "silent"}
              /\ fate' = "answered" => "trailing" \in done
              /\ fate' = "silent" => closing \/ "cancel" \in done
           \/ /\ pc' = "done" /\ UNCHANGED <<op, ret>>
              /\ pending' = ImplicitStatus(outcome)
              /\ \/ fate' = "cancelled" /\ outcome \in {"cancelled", "interrupt"}
                 \/ fate' = "failed" /\ ~Sendable(pending')
           \/ /\ pc' \in {"listen", "write"} /\ op' = "trailing" /\ ret' = "exit"
              /\ pc' = "listen" => op' \in Listened
              /\ fate' = fate
              /\ "trailing" \notin done /\ "cancel" \notin done
              /\ outcome # "cancelled"
              /\ pending' = ImplicitStatus(outcome) /\ Sendable(pending')
<1> DEFINE over == "trailing" \in done \/ "cancel" \in done \/ closing
<1>1. CASE over
    BY <1>1 DEF Exit, Finish, End, Goto
<1>2. CASE ~over /\ outcome \in {"cancelled", "interrupt"}
    BY <1>2 DEF Exit, End, Goto
<1>3. CASE ~over /\ outcome \notin {"cancelled", "interrupt"} /\ Sendable(ImplicitStatus(outcome))
    BY <1>3 DEF Exit, Send
<1>4. CASE ~over /\ outcome \notin {"cancelled", "interrupt"} /\ ~Sendable(ImplicitStatus(outcome))
    BY <1>4 DEF Exit, End, Goto
<1> QED
    BY <1>1, <1>2, <1>3, <1>4

(* What __aexit__() makes of an outcome, after the wrapper. *)
ExitOutcome(outcome) ==
    CASE err = "deadline"   -> "DEADLINE_EXCEEDED"
      [] err = "terminated" -> "UNKNOWN"
      [] OTHER              -> outcome

LEMMA ExitOutcomes ==
    ASSUME NEW outcome, err \in {"none", "deadline", "terminated"}
    PROVE  /\ err = "deadline" => ExitOutcome(outcome) = "DEADLINE_EXCEEDED"
           /\ ExitOutcome(outcome) \in {"cancelled", "interrupt", "OK", "return"} =>
                  err = "none" /\ ExitOutcome(outcome) = outcome
<1>1. CASE err = "none"
    BY <1>1 DEF ExitOutcome
<1>2. CASE err = "deadline"
    BY <1>2, StreamAssumption DEF ExitOutcome
<1>3. CASE err = "terminated"
    BY <1>3, StreamAssumption DEF ExitOutcome
<1> QED
    BY <1>1, <1>2, <1>3

(* Leaving the wrapper also stops the timer, and a deadline decides the status. *)
LEMMA LeaveEffect ==
    ASSUME TypeOK, NEW outcome, Leave(outcome)
    PROVE  /\ ~timer' /\ UNCHANGED cut
           /\ \/ /\ pc' = "done" /\ UNCHANGED <<op, ret>>
                 /\ fate' \in {"answered", "silent", "cancelled", "failed"}
                 /\ fate' = "answered" => "trailing" \in done
                 /\ fate' = "silent" => closing \/ "cancel" \in done
                 /\ fate' = "cancelled" =>
                        err = "none" /\ (outcome = "cancelled" \/ pending' = "interrupt")
                 /\ fate' = "failed" => ~Sendable(pending')
              \/ /\ pc' \in {"listen", "write"} /\ op' = "trailing" /\ ret' = "exit"
                 /\ pc' = "listen" => op' \in Listened
                 /\ fate' = fate
                 /\ "trailing" \notin done /\ "cancel" \notin done
                 /\ err = "deadline" => pending' = "DEADLINE_EXCEEDED"
                 /\ pending' = "OK" =>
                        outcome \in {"OK", "return"} /\ (call.streaming \/ "message" \in done)
<1> DEFINE e == ExitOutcome(outcome)
<1>1. Exit(e) /\ ~timer' /\ UNCHANGED cut
    BY DEF Leave, ExitOutcome
<1>2. /\ err = "deadline" => e = "DEADLINE_EXCEEDED"
      /\ e \in {"cancelled", "interrupt", "OK", "return"} => err = "none" /\ e = outcome
    BY ExitOutcomes DEF TypeOK
<1> HIDE DEF e
<1>3. /\ ImplicitStatus(e) = "OK" => e \in {"OK", "return"}
      /\ e = "interrupt" => ImplicitStatus(e) = "interrupt"
      /\ e = "DEADLINE_EXCEEDED" => ImplicitStatus(e) = "DEADLINE_EXCEEDED"
    BY DEF ImplicitStatus
<1>4. Sendable(pending') /\ pending' = "OK" => call.streaming \/ "message" \in done
    BY DEF Sendable
<1> QED
    BY <1>1, <1>2, <1>3, <1>4, ExitEffect

(* StreamInv without the value of the deadline. *)
FramesInv == FlagsMatchFrames /\ SendIsLegal /\ TaskMatches /\ RequestsAnswered

LEMMA InitFrames == TypeOK /\ Init => FramesInv
BY DEF TypeOK, Init, FramesInv, FlagsMatchFrames, SendIsLegal, TaskMatches,
       RequestsAnswered, Unreadable, Undecodable, Sendable, InSend, InWrapper

(* Leaving the wrapper keeps the invariant. *)
LEMMA LeaveFrames ==
    ASSUME TypeOK, FramesInv, NEW outcome, Leave(outcome),
           pc \in {"listen", "write", "body"}, ret # "exit", ~cancelReq',
           outcome = "cancelled" => cancelReq,
           outcome \in {"OK", "return"} => pc # "write",
           UNCHANGED <<call, deadline, done, part, err, stopped, wireVars, envVars>>
    PROVE  FramesInv'
<1>1. /\ UNCHANGED <<call, done, err, phase, count, status, broken, remote, closing, stopped, cut>>
      /\ ~timer' /\ ~cancelReq'
    BY LeaveEffect DEF wireVars, envVars
<1>2. CASE pc' = "done"
    <2>1. /\ pc' = "done" /\ UNCHANGED <<op, ret>>
          /\ fate' \in {"answered", "silent", "cancelled", "failed"}
          /\ fate' = "answered" => "trailing" \in done
          /\ fate' = "silent" => closing \/ "cancel" \in done
          /\ fate' = "cancelled" => err = "none" /\ (outcome = "cancelled" \/ pending' = "interrupt")
          /\ fate' = "failed" => ~Sendable(pending')
        BY <1>2, LeaveEffect
    <2>2. fate' = "cancelled" => stopped \/ pending' = "interrupt"
        BY <2>1 DEF FramesInv, TaskMatches
    <2>3. FlagsMatchFrames' /\ SendIsLegal' /\ TaskMatches'
        BY <1>1, <2>1 DEF FramesInv, FlagsMatchFrames, SendIsLegal, TaskMatches, InSend, InWrapper
    <2>4. RequestsAnswered'
        BY <1>1, <2>1, <2>2 DEF FramesInv, FlagsMatchFrames, RequestsAnswered, Sendable
    <2> QED
        BY <2>3, <2>4 DEF FramesInv
<1>3. CASE pc' # "done"
    <2>1. /\ pc' \in {"listen", "write"} /\ op' = "trailing" /\ ret' = "exit"
          /\ pc' = "listen" => op' \in Listened
          /\ fate' = fate
          /\ "trailing" \notin done /\ "cancel" \notin done
          /\ err = "deadline" => pending' = "DEADLINE_EXCEEDED"
          /\ pending' = "OK" =>
                 outcome \in {"OK", "return"} /\ (call.streaming \/ "message" \in done)
        BY <1>3, LeaveEffect
    <2> QED
        BY <1>1, <2>1 DEF FramesInv, FlagsMatchFrames, SendIsLegal, TaskMatches,
           RequestsAnswered, Unreadable, Undecodable, Sendable, InSend, InWrapper, TypeOK
<1> QED
    BY <1>2, <1>3

LEMMA RaisedFrames ==
    ASSUME TypeOK, FramesInv, NEW outcome, Raised(outcome),
           pc \in {"listen", "write", "body"}, ret # "exit", ~cancelReq',
           outcome = "cancelled" => cancelReq,
           outcome \in {"OK", "return"} => pc # "write",
           UNCHANGED <<call, deadline, done, part, err, stopped, wireVars, envVars>>
    PROVE  FramesInv'
<1>1. CASE Leave(outcome)
    BY <1>1, LeaveFrames
<1>2. CASE /\ Goto("body") /\ cut' = (cut \/ phase = "partial")
           /\ UNCHANGED <<pending, fate, timer>>
    BY <1>2 DEF Goto, FramesInv, FlagsMatchFrames, SendIsLegal, TaskMatches,
       RequestsAnswered, Unreadable, Undecodable, Sendable, InSend, InWrapper, TypeOK, wireVars, envVars
<1> QED
    BY <1>1, <1>2 DEF Raised

LEMMA NextFrames == TypeOK /\ FramesInv /\ [Next]_vars => FramesInv'
<1> SUFFICES ASSUME TypeOK, FramesInv, [Next]_vars PROVE FramesInv'
    OBVIOUS
<1> USE DEF wireVars, envVars
<1>1. CASE Start
    <2>1. /\ pc = "new" /\ ~timer /\ ret = "body" /\ ~cancelReq'
          /\ UNCHANGED <<call, done, part, err, wireVars, cut, stopped, envVars>>
        BY <1>1 DEF Start, FramesInv, TaskMatches, InWrapper
    <2>2. CASE Exit("UNKNOWN") /\ UNCHANGED timer
        <3>1. ImplicitStatus("UNKNOWN") = "UNKNOWN" /\ Sendable("UNKNOWN")
            BY DEF ImplicitStatus, Sendable
        <3> QED
            BY <2>1, <2>2, <3>1, ExitEffect DEF FramesInv, FlagsMatchFrames, SendIsLegal, TaskMatches,
       RequestsAnswered, Unreadable, Undecodable, Sendable, InSend, InWrapper, TypeOK
    <2>3. CASE cancelReq /\ Finish("cancelled") /\ UNCHANGED timer
        BY <2>1, <2>3 DEF Finish, End, Goto, FramesInv, FlagsMatchFrames, SendIsLegal, TaskMatches,
       RequestsAnswered, Unreadable, Undecodable, Sendable, InSend, InWrapper, TypeOK
    <2>7. CASE (Unreadable \/ closing) /\ Finish("failed") /\ UNCHANGED timer
        BY <2>1, <2>7 DEF Finish, End, Goto, FramesInv, FlagsMatchFrames, SendIsLegal, TaskMatches,
       RequestsAnswered, Unreadable, Undecodable, Sendable, InSend, InWrapper, TypeOK
    <2>4. CASE Goto("abort") /\ UNCHANGED <<timer, pending, fate>>
        BY <2>1, <2>4 DEF Goto, FramesInv, FlagsMatchFrames, SendIsLegal, TaskMatches,
       RequestsAnswered, Unreadable, Undecodable, Sendable, InSend, InWrapper, TypeOK
    <2>5. CASE Goto("body") /\ UNCHANGED <<pending, fate>>
        BY <2>1, <2>5 DEF Goto, FramesInv, FlagsMatchFrames, SendIsLegal, TaskMatches,
       RequestsAnswered, Unreadable, Undecodable, Sendable, InSend, InWrapper, TypeOK
    <2>6. CASE Send("request", "body") /\ UNCHANGED <<pending, fate>>
        BY <2>1, <2>6 DEF Send, FramesInv, FlagsMatchFrames, SendIsLegal, TaskMatches,
       RequestsAnswered, Unreadable, Undecodable, Sendable, InSend, InWrapper, TypeOK
    <2> QED
        BY <1>1, <2>2, <2>3, <2>4, <2>5, <2>6, <2>7 DEF Start
<1>2. CASE Abort
    BY <1>2 DEF Abort, Finish, End, Goto, CanSend, FramesInv, FlagsMatchFrames, SendIsLegal, TaskMatches,
       RequestsAnswered, Unreadable, Undecodable, Sendable, InSend, InWrapper, TypeOK
<1>3. CASE SendInitialMetadata
    BY <1>3 DEF SendInitialMetadata, InBody, Send, Unsent, Stepped, FramesInv, FlagsMatchFrames, SendIsLegal, TaskMatches,
       RequestsAnswered, Unreadable, Undecodable, Sendable, InSend, InWrapper, TypeOK
<1>4. CASE SendMessage
    BY <1>4 DEF SendMessage, InBody, Send, Unsent, Stepped, FramesInv, FlagsMatchFrames, SendIsLegal, TaskMatches,
       RequestsAnswered, Unreadable, Undecodable, Sendable, InSend, InWrapper, TypeOK
<1>5. CASE Cancel
    BY <1>5 DEF Cancel, InBody, Send, Unsent, Stepped, FramesInv, FlagsMatchFrames, SendIsLegal, TaskMatches,
       RequestsAnswered, Unreadable, Undecodable, Sendable, InSend, InWrapper, TypeOK
<1>6. ASSUME NEW s \in Statuses, SendTrailingMetadata(s) PROVE FramesInv'
    BY <1>6 DEF SendTrailingMetadata, InBody, Send, Unsent, Stepped, FramesInv, FlagsMatchFrames, SendIsLegal, TaskMatches,
       RequestsAnswered, Unreadable, Undecodable, Sendable, InSend, InWrapper, TypeOK
<1>7. CASE Return
    BY <1>7, LeaveFrames DEF Return, InBody, Unsent, Stepped, FramesInv, TaskMatches
<1>8. ASSUME NEW s \in Raisable, Raise(s) PROVE FramesInv'
    <2>1. s # "cancelled" /\ pc = "body" /\ ret # "exit" /\ ~cancelReq'
        BY <1>8, StreamAssumption
        DEF Raise, InBody, Unsent, FramesInv, TaskMatches, Raisable, Statuses, Endings
    <2> QED
        BY <1>8, <2>1, LeaveFrames DEF Raise, Unsent, Stepped
<1>9. CASE Dispatched
    <2>1. /\ pc = "listen" /\ ~cancelReq'
          /\ UNCHANGED <<call, deadline, done, part, err, stopped, wireVars, envVars>>
        BY <1>9 DEF Dispatched, Unsent, Stepped
    <2>2. CASE /\ Goto(IF op = "request" THEN "body" ELSE "write")
               /\ UNCHANGED <<pending, fate, timer, cut>>
        BY <2>1, <2>2 DEF Goto, FramesInv, FlagsMatchFrames, SendIsLegal, TaskMatches,
       RequestsAnswered, Unreadable, Undecodable, Sendable, InSend, InWrapper, TypeOK
    <2>3. CASE op \in call.failing /\ ret = "exit" /\ Finish("failed") /\ UNCHANGED <<timer, cut>>
        BY <2>1, <2>3 DEF Finish, End, Goto, FramesInv, FlagsMatchFrames, SendIsLegal, TaskMatches,
       RequestsAnswered, Unreadable, Undecodable, Sendable, InSend, InWrapper, TypeOK
    <2>4. ASSUME NEW s \in Raisable, op = "request", Leave(s) PROVE FramesInv'
        <3>1. ret # "exit" /\ s # "cancelled"
            BY <2>1, <2>4, StreamAssumption
            DEF FramesInv, SendIsLegal, InSend, Raisable, Statuses, Endings
        <3> QED
            BY <2>1, <2>4, <3>1, LeaveFrames
    <2>5. ASSUME NEW s \in Raisable, ret # "exit", Raised(s) PROVE FramesInv'
        <3>1. s # "cancelled"
            BY StreamAssumption DEF Raisable, Statuses, Endings
        <3> QED
            BY <2>1, <2>5, <3>1, RaisedFrames
    <2> QED
        BY <1>9, <2>2, <2>3, <2>4, <2>5 DEF Dispatched
<1>10. CASE Refused
    <2>1. /\ pc = "write" /\ ~cancelReq'
          /\ UNCHANGED <<call, deadline, done, part, err, stopped, wireVars, envVars>>
        BY <1>10 DEF Refused, Unsent, Stepped
    <2>2. CASE ret = "exit" /\ Finish("silent") /\ UNCHANGED <<timer, cut>>
        <3>1. closing \/ ~CanSend
            BY <1>10, <2>1, <2>2 DEF Refused, FramesInv, SendIsLegal, InSend
        <3> QED
            BY <2>1, <2>2, <3>1 DEF CanSend, Finish, End, Goto, FramesInv, FlagsMatchFrames, SendIsLegal, TaskMatches,
       RequestsAnswered, Unreadable, Undecodable, Sendable, InSend, InWrapper, TypeOK
    <2>3. CASE ret # "exit" /\ Raised("UNKNOWN")
        BY <2>1, <2>3, RaisedFrames
    <2> QED
        BY <1>10, <2>2, <2>3 DEF Refused
<1>11. CASE Cancelled
    <2>1. /\ cancelReq /\ ~cancelReq'
          /\ UNCHANGED <<call, deadline, done, part, err, stopped, wireVars, envVars>>
        BY <1>11 DEF Cancelled, Stepped
    <2>2. CASE /\ pc = "abort" \/ (HasWrapper /\ ret = "exit")
               /\ Finish("cancelled") /\ UNCHANGED <<timer, cut>>
        BY <2>1, <2>2 DEF HasWrapper, Finish, End, Goto, FramesInv, FlagsMatchFrames, SendIsLegal, TaskMatches,
       RequestsAnswered, Unreadable, Undecodable, Sendable, InSend, InWrapper, TypeOK
    <2>3. CASE pc = "listen" /\ op = "request" /\ Leave("cancelled")
        <3>1. ret # "exit"
            BY <2>3 DEF FramesInv, SendIsLegal, InSend
        <3> QED
            BY <2>1, <2>3, <3>1, LeaveFrames
    <2>4. CASE InWrapper /\ Raised("cancelled")
        BY <2>1, <2>4, RaisedFrames DEF InWrapper
    <2> QED
        BY <1>11, <2>2, <2>3, <2>4 DEF Cancelled
<1>12. CASE WriteInitial
    BY <1>12 DEF WriteInitial, CanWrite, CanSend, Sent, Send, Goto, FramesInv, FlagsMatchFrames, SendIsLegal, TaskMatches,
       RequestsAnswered, Unreadable, Undecodable, Sendable, InSend, InWrapper, TypeOK
<1>13. CASE WriteMessage
    <2>1. /\ pc = "write" /\ op = "message" /\ ret = "body" /\ phase # "answered"
          /\ fate = "running" /\ "initial" \in done /\ ~broken
          /\ call.streaming \/ "message" \notin done
          /\ UNCHANGED <<pending, fate, status, broken, call, timer, err, remote, closing, cut,
                         stopped, cancelReq>>
        BY <1>13 DEF WriteMessage, CanWrite, CanSend, Sent, FramesInv, FlagsMatchFrames, SendIsLegal, TaskMatches,
               RequestsAnswered, Unreadable, Undecodable, Sendable, InSend, InWrapper, TypeOK
    <2>2. CASE More
        <3>1. phase' = "partial" /\ UNCHANGED <<pc, op, ret, done, count>>
            BY <1>13, <2>2 DEF WriteMessage
        <3> QED
            BY <2>1, <3>1 DEF FramesInv, FlagsMatchFrames, SendIsLegal, TaskMatches,
               RequestsAnswered, Unreadable, Undecodable, Sendable, InSend, InWrapper, TypeOK
    <2>3. CASE ~More
        <3>1. /\ phase' = "open" /\ count' = count + 1 /\ done' = done \cup {"message"}
              /\ pc' = "body" /\ UNCHANGED <<op, ret>>
            BY <1>13, <2>1, <2>3 DEF WriteMessage, Sent, Goto
        <3>2. count' > 0 /\ (~call.streaming => count' <= 1)
            BY <2>1, <3>1 DEF FramesInv, FlagsMatchFrames, TypeOK
        <3> QED
            BY <2>1, <3>1, <3>2 DEF FramesInv, FlagsMatchFrames, SendIsLegal, TaskMatches,
               RequestsAnswered, Unreadable, Undecodable, Sendable, InSend, InWrapper, TypeOK
    <2> QED
        BY <2>2, <2>3
<1>14. CASE WriteTrailing
    BY <1>14 DEF WriteTrailing, CanWrite, CanSend, Sent, Send, Goto, FramesInv, FlagsMatchFrames, SendIsLegal, TaskMatches,
       RequestsAnswered, Unreadable, Undecodable, Sendable, InSend, InWrapper, TypeOK
<1>15. CASE WriteReset
    BY <1>15 DEF WriteReset, CanWrite, CanReset, Sent, Send, Goto, FramesInv, FlagsMatchFrames, SendIsLegal, TaskMatches,
       RequestsAnswered, Unreadable, Undecodable, Sendable, InSend, InWrapper, TypeOK
<1>16. CASE Environment
    <2> USE DEF taskVars, FramesInv, FlagsMatchFrames, SendIsLegal, TaskMatches,
       RequestsAnswered, Unreadable, Undecodable, Sendable, InSend, InWrapper, TypeOK
    <2>1. CASE DeadlineExpired
        BY <2>1 DEF DeadlineExpired
    <2>2. CASE StreamReset
        BY <2>2 DEF StreamReset, Terminated, HasWrapper
    <2>3. CASE StreamEnded
        BY <2>3 DEF StreamEnded
    <2>4. CASE ConnectionClosed
        BY <2>4 DEF ConnectionClosed, Terminated, HasWrapper
    <2>5. CASE ServerClose
        BY <2>5 DEF ServerClose
    <2>6. CASE FlowControl
        BY <2>6 DEF FlowControl
    <2> QED
        BY <1>16, <2>1, <2>2, <2>3, <2>4, <2>5, <2>6 DEF Environment
<1>17. CASE UNCHANGED vars
    BY <1>17 DEF vars, taskVars, FramesInv, FlagsMatchFrames, SendIsLegal, TaskMatches,
       RequestsAnswered, Unreadable, Undecodable, Sendable, InSend, InWrapper, TypeOK
<1> QED
    BY <1>1, <1>2, <1>3, <1>4, <1>5, <1>6, <1>7, <1>8, <1>9, <1>10, <1>11, <1>12,
       <1>13, <1>14, <1>15, <1>16, <1>17 DEF Next, Method, Step, Environment

LEMMA InitDeadline == Init => DeadlineComputed
BY DEF Init, DeadlineComputed

(* The deadline is computed once, from the request. *)
LEMMA NextDeadline == DeadlineComputed /\ [Next]_vars => DeadlineComputed'
<1> SUFFICES ASSUME DeadlineComputed, [Next]_vars PROVE DeadlineComputed'
    OBVIOUS
<1>1. UNCHANGED call
    BY DEF Next, Method, Step, Environment, vars, Start, Abort, SendInitialMetadata,
       SendMessage, Cancel, Return, SendTrailingMetadata, Raise, Dispatched, Refused,
       Cancelled, WriteInitial, WriteMessage, WriteTrailing, WriteReset, Unsent, Stepped, Sent,
       DeadlineExpired, StreamReset, StreamEnded, ConnectionClosed, ServerClose, FlowControl
<1>2. deadline' \in {deadline, FromHeaders(Arrival, TimeoutHeaders)}
    BY DEF Next, Method, Step, Environment, vars, taskVars, Start, Abort, SendInitialMetadata,
       SendMessage, Cancel, Return, SendTrailingMetadata, Raise, Dispatched, Refused,
       Cancelled, WriteInitial, WriteMessage, WriteTrailing, WriteReset, Unsent, Stepped, Sent,
       DeadlineExpired, StreamReset, StreamEnded, ConnectionClosed, ServerClose, FlowControl
<1>3. FromHeaders(Arrival, TimeoutHeaders)' = FromHeaders(Arrival, TimeoutHeaders)
    BY <1>1 DEF Arrival, TimeoutHeaders, ClientDeadline
<1> QED
    BY <1>2, <1>3 DEF DeadlineComputed

(* StreamInv holds of every reachable state. *)
THEOREM StreamInvariant == Spec => [](TypeOK /\ StreamInv)
<1>1. TypeOK /\ StreamInv <=> TypeOK /\ FramesInv /\ DeadlineComputed
    BY DEF StreamInv, FramesInv
<1> QED
    BY <1>1, InitTypeOK, InitFrames, InitDeadline, NextTypeOK, NextFrames, NextDeadline,
       PTL DEF Spec

-----------------------------------------------------------------------------
(* The properties.                                                         *)

(* A request is answered unless there is nobody to tell it to or its end is one of
   those that RequestsAnswered names; a passed deadline is what the client hears, and
   never the reason why it hears nothing. *)
THEOREM EveryRequestIsAnswered == Spec => []RequestsAnswered
BY StreamInvariant, PTL DEF StreamInv

LEMMA ComputedIsClose == TypeOK /\ DeadlineComputed => DeadlinePropagated
<1> SUFFICES ASSUME TypeOK, DeadlineComputed, deadline # NoTime PROVE DeadlinePropagated
    BY DEF DeadlinePropagated
<1> DEFINE left == TimeRemaining(call.before, ClientDeadline)
           decoded == DecodeTimeout(EncodeTimeout(left))
<1>1. Arrival \in Nat /\ left \in Nat /\ deadline = Arrival + decoded
    BY DeadlineFromHeader DEF TypeOK, DeadlineComputed
<1>2. decoded \in Nat /\ decoded <= left /\ (left - decoded < Nano \/ 10 * (left - decoded) < left)
    BY <1>1, HeaderIsClose
<1>3. left - (deadline - Arrival) = left - decoded
    <2> HIDE DEF left, decoded
    <2> QED
        BY <1>1, <1>2
<1>4. left - decoded >= 0
    <2> HIDE DEF left, decoded
    <2> QED
        BY <1>1, <1>2
<1> HIDE DEF decoded
<1> QED
    BY <1>2, <1>3, <1>4 DEF DeadlinePropagated

(* The deadline the server keeps is the client's, for every timeout. *)
THEOREM DeadlineIsPropagated == Spec => []DeadlinePropagated
<1>1. TypeOK /\ StreamInv => DeadlinePropagated
    BY ComputedIsClose DEF StreamInv
<1> QED
    BY <1>1, StreamInvariant, PTL

-----------------------------------------------------------------------------
(* The refinement.                                                         *)

LEMMA InitPromise == Init => Promise!Init
BY RequestFields DEF Init, Promise!Init

(* Where the frames do not change, Rpc stutters, or a method gives a message up. *)
LEMMA Stutter ==
    ASSUME UNCHANGED <<call, wireVars>>,
           UNCHANGED cut \/ (phase = "partial" /\ cut' = TRUE)
    PROVE  [Promise!Next]_Promise!vars
<1>1. CASE UNCHANGED cut
    BY <1>1 DEF wireVars, Promise!vars
<1>2. CASE phase = "partial" /\ cut' = TRUE
    BY <1>2 DEF wireVars, Promise!GiveUp, Promise!Next
<1> QED
    BY <1>1, <1>2

LEMMA LeaveKeepsCut == ASSUME NEW outcome, Leave(outcome) PROVE UNCHANGED cut
BY DEF Leave

LEMMA RaisedCut ==
    ASSUME TypeOK, NEW outcome, Raised(outcome)
    PROVE  UNCHANGED cut \/ (phase = "partial" /\ cut' = TRUE)
<1>1. CASE Leave(outcome)
    BY <1>1, LeaveKeepsCut
<1>2. CASE cut' = (cut \/ phase = "partial")
    BY <1>2, Zenon DEF TypeOK
<1> QED
    BY <1>1, <1>2 DEF Raised

(* Every step sends what Rpc allows, or nothing. *)
LEMMA StepPromise == TypeOK /\ FramesInv /\ [Next]_vars => [Promise!Next]_Promise!vars
<1> SUFFICES ASSUME TypeOK, FramesInv, [Next]_vars PROVE [Promise!Next]_Promise!vars
    OBVIOUS
<1>1. CASE Abort
    <2>1. CASE UNCHANGED <<call, wireVars, cut>>
        BY <2>1, Stutter
    <2>2. CASE CanSend /\ phase' = "answered"
        <3>1. phase = "quiet" /\ ~broken /\ UNCHANGED <<call, count, cut>>
            BY <1>1, <2>2 DEF Abort, FramesInv, TaskMatches
        <3>2. status' \in Errors /\ status' # "OK"
            BY <1>1, <2>2, StreamAssumption DEF Abort, CanSend
        <3>5. broken' = (remote = "open" /\ ~closing)
            BY <1>1, <2>2 DEF Abort, CanSend
        <3>3. broken' \in {FALSE, TRUE}
            BY <3>5
        <3>4. Promise!Answer(status')
            BY <2>2, <3>1, <3>2, <3>3 DEF Promise!Answer
        <3> QED
            BY <3>2, <3>4 DEF Promise!Next
    <2> QED
        BY <1>1, <2>1, <2>2 DEF Abort, wireVars
<1>2. CASE WriteInitial
    <2>1. Promise!Headers
        BY <1>2 DEF WriteInitial, CanWrite, CanSend, Sent, Promise!Headers, FramesInv,
           FlagsMatchFrames, SendIsLegal, InSend, TypeOK
    <2> QED
        BY <2>1 DEF Promise!Next
<1>3. CASE WriteMessage
    <2>1. /\ phase \in {"open", "partial"} /\ ~broken
          /\ call.streaming \/ count = 0
          /\ UNCHANGED <<call, status, broken, cut>>
        BY <1>3 DEF WriteMessage, CanWrite, CanSend, Sent, FramesInv,
           FlagsMatchFrames, SendIsLegal, InSend, TypeOK
    <2>2. CASE More
        <3>1. Promise!Part
            BY <1>3, <2>1, <2>2 DEF WriteMessage, Promise!Part
        <3> QED
            BY <3>1 DEF Promise!Next
    <2>3. CASE ~More
        <3>1. Promise!Message
            BY <1>3, <2>1, <2>3 DEF WriteMessage, Promise!Message
        <3> QED
            BY <3>1 DEF Promise!Next
    <2> QED
        BY <2>2, <2>3
<1>4. CASE WriteTrailing
    <2>1. /\ phase # "answered" /\ ~broken /\ UNCHANGED <<call, count, cut>>
          /\ phase' = "answered" /\ status' = pending
          /\ broken' = (pending # "OK" /\ remote = "open" /\ ~closing)
        BY <1>4 DEF WriteTrailing, CanWrite, CanSend, Sent
    <2>2. pending = "OK" => (phase # "partial" \/ cut) /\ (call.streaming \/ count = 1)
        BY <1>4 DEF WriteTrailing, CanWrite, FramesInv, FlagsMatchFrames, SendIsLegal,
           TaskMatches, InSend, TypeOK
    <2>3. broken' \in {FALSE, pending # "OK"}
        BY <2>1
    <2>4. Promise!Answer(pending)
        BY <2>1, <2>2, <2>3 DEF Promise!Answer
    <2>5. pending \in Errors \cup {"OK"}
        BY <1>4 DEF WriteTrailing, CanWrite, TypeOK, Statuses
    <2> QED
        BY <2>4, <2>5 DEF Promise!Next
<1>5. CASE WriteReset
    <2>1. Promise!Reset
        BY <1>5 DEF WriteReset, Sent, Promise!Reset
    <2> QED
        BY <2>1 DEF Promise!Next
<1>6. CASE Start \/ Method \/ Environment \/ UNCHANGED vars
    <2>1. UNCHANGED <<call, wireVars, cut>>
        BY <1>6, LeaveKeepsCut DEF Method, Environment, vars, Start, SendInitialMetadata,
           SendMessage, Cancel, Return, SendTrailingMetadata, Raise, Unsent, Stepped,
           DeadlineExpired, StreamReset, StreamEnded, ConnectionClosed, ServerClose, FlowControl
    <2> QED
        BY <2>1, Stutter
<1>7. CASE Dispatched \/ Refused \/ Cancelled
    <2>1. UNCHANGED <<call, wireVars>>
        BY <1>7 DEF Dispatched, Refused, Cancelled, Unsent, Stepped
    <2>2. UNCHANGED cut \/ (phase = "partial" /\ cut' = TRUE)
        BY <1>7, LeaveKeepsCut, RaisedCut DEF Dispatched, Refused, Cancelled
    <2> QED
        BY <2>1, <2>2, Stutter
<1> QED
    BY <1>1, <1>2, <1>3, <1>4, <1>5, <1>6, <1>7 DEF Next, Step

(* server.Stream, with request_handler() and its interruptions, implements Rpc: its
   client sees a legal response whatever method and listeners do.  Only for a method
   that goes on after a message of it was cut does Rpc let OK follow what is incomplete. *)
THEOREM StreamKeepsPromise == Spec => Refines
<1>1. TypeOK /\ StreamInv => TypeOK /\ FramesInv
    BY DEF StreamInv, FramesInv
<1> QED
    BY <1>1, StreamInvariant, InitPromise, StepPromise,
       PTL DEF Spec, Refines, Promise!Spec
=============================================================================
