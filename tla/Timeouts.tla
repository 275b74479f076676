------------------------------ MODULE Timeouts ------------------------------
(***************************************************************************)
(* Deadlines and the grpc-timeout header (metadata.py), as functions on    *)
(* ticks.  A nanosecond is Scale ticks, because a timeout may lie between  *)
(* two nanoseconds as a float does.  Scale is 1000 in the code.            *)
(***************************************************************************)
EXTENDS Integers

CONSTANT Scale      \* ratio of two neighbouring units

ASSUME ScaleAssumption == Scale \in Nat \ {0}

(* The units of _UNITS that encode_timeout() uses. *)
Nano   == Scale
Micro  == Scale * Nano
Milli  == Scale * Micro
Second == Scale * Milli

NoTime == -1        \* a timeout or a deadline that is not given

(* A mutant: what is left of a timeout below ten seconds is in milliseconds. *)
UnitMutant(t) == IF t > 10 * Second THEN Second ELSE Milli

(* encode_timeout(): the largest unit of which the timeout has more than ten. *)
UnitOf(t) ==
    IF t > 10 * Second THEN Second
    ELSE IF t > 10 * Milli THEN Milli
    ELSE IF t > 10 * Micro THEN Micro
    ELSE Nano

EncodeTimeout(t) == [count |-> t \div UnitOf(t), unit |-> UnitOf(t)]

DecodeTimeout(header) == header.count * header.unit

(* Channel.request(): the earlier of a new timeout and a deadline. *)
RequestDeadline(now, timeout, deadline) ==
    IF timeout # NoTime /\ (deadline = NoTime \/ now + timeout < deadline)
    THEN now + timeout
    ELSE deadline

(* Deadline.time_remaining() *)
TimeRemaining(now, deadline) == IF deadline > now THEN deadline - now ELSE 0

(* Deadline.from_headers(): the least timeout of the headers, from now on. *)
FromHeaders(now, headers) ==
    LET timeouts == {DecodeTimeout(h) : h \in headers}
    IN  IF headers = {} THEN NoTime
        ELSE now + CHOOSE t \in timeouts : \A u \in timeouts : t <= u
=============================================================================
