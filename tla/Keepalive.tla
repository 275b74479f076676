----------------------------- MODULE Keepalive -----------------------------
(***************************************************************************)
(* Keepalive pings of one connection (protocol.Connection).  Time passes   *)
(* in ticks; a timer that is at 0 fires before the next tick.  The         *)
(* configuration and the delay of the peer's answers are chosen at the     *)
(* start.                                                                  *)
(***************************************************************************)
EXTENDS Integers, Sequences

CONSTANTS
    Configs,    \* configurations with a peer, see ConfigType
    Off         \* a timer that is not set, a ping that was not sent

(* Configuration: config.py, as far as its validators admit; and how long a
   living peer needs at most to answer a ping. *)
ConfigType ==
    [keepaliveTime : Nat \ {0}, keepaliveTimeout : Nat \ {0},
     permitWithoutCalls : BOOLEAN, maxPings : Nat, minInterval : Nat \ {0},
     delay : Nat]

ASSUME KeepaliveAssumption ==
    /\ Configs \subseteq ConfigType
    /\ Off \notin Int

VARIABLES
    config,
    pingTimer,      \* _ping_handle
    closeTimer,     \* _close_by_ping_handler
    sinceLast,      \* age of last_ping_sent, up to the minimal interval
    inSequence,     \* ping_count_in_sequence
    calls,          \* some stream is open
    flight,         \* the ages of the pings that were not answered, in order
    alive,          \* the peer still answers
    state           \* "open", "timeout" (closed by keepalive), "closed"

vars == <<config, pingTimer, closeTimer, sinceLast, inSequence, calls, flight, alive, state>>

Lesser(a, b) == IF a < b THEN a ELSE b
Greater(a, b) == IF a > b THEN a ELSE b

(* Bounds of the counters: larger values make no difference.  Without a limit
   the pings are not counted beyond 1. *)
SequenceBound == Greater(config.maxPings, 1)
AgeBound == Greater(config.keepaliveTimeout, config.delay) + 1

TypeOK ==
    /\ config \in Configs
    /\ pingTimer \in 0 .. config.keepaliveTime \cup {Off}
    /\ closeTimer \in 0 .. config.keepaliveTimeout \cup {Off}
    /\ sinceLast \in 0 .. config.minInterval \cup {Off}
    /\ inSequence \in 0 .. SequenceBound
    /\ calls \in BOOLEAN
    /\ flight \in Seq(0 .. AgeBound)
    /\ alive \in BOOLEAN
    /\ state \in {"open", "timeout", "closed"}

(* connection_made(): Connection.initialize() *)
Init ==
    /\ config \in Configs
    /\ pingTimer = config.keepaliveTime
    /\ closeTimer = Off
    /\ sinceLast = Off
    /\ inSequence = 0
    /\ calls = FALSE
    /\ flight = <<>>
    /\ alive = TRUE
    /\ state = "open"

-----------------------------------------------------------------------------
(* A mutant: the limit of pings without data is exceeded by one. *)
NeedPingMutant ==
    /\ config.permitWithoutCalls \/ calls
    /\ config.maxPings = 0 \/ inSequence <= config.maxPings
    /\ sinceLast = Off \/ sinceLast = config.minInterval

(* _is_need_send_ping() *)
NeedPing ==
    /\ config.permitWithoutCalls \/ calls
    /\ config.maxPings = 0 \/ inSequence < config.maxPings
    /\ sinceLast = Off \/ sinceLast = config.minInterval

(* A mutant: the timer is set again by every ping. *)
CloseAfterMutant == config.keepaliveTimeout

(* The timer is set by the first ping that is not answered. *)
CloseAfter == IF closeTimer = Off THEN config.keepaliveTimeout ELSE closeTimer

(* _ping() *)
Ping ==
    /\ state = "open" /\ pingTimer = 0
    /\ pingTimer' = config.keepaliveTime
    /\ \/ /\ NeedPing
          /\ flight' = Append(flight, 0)
          /\ sinceLast' = 0
          /\ inSequence' = IF config.maxPings = 0 THEN 1 ELSE inSequence + 1
          /\ closeTimer' = CloseAfter
       \/ /\ ~NeedPing
          /\ UNCHANGED <<flight, sinceLast, inSequence, closeTimer>>
    /\ UNCHANGED <<config, calls, alive, state>>

(* A mutant: the acknowledgement leaves the timer running. *)
AckMutant ==
    /\ state = "open" /\ alive /\ flight # <<>>
    /\ flight' = Tail(flight)
    /\ UNCHANGED <<config, pingTimer, closeTimer, sinceLast, inSequence, calls, alive, state>>

(* ping_ack_process(): the acknowledgement of any ping stops the timer. *)
Ack ==
    /\ state = "open" /\ alive /\ flight # <<>>
    /\ flight' = Tail(flight)
    /\ closeTimer' = Off
    /\ UNCHANGED <<config, pingTimer, sinceLast, inSequence, calls, alive, state>>

Closed(how) ==
    /\ state = "open"
    /\ state' = how
    /\ pingTimer' = Off
    /\ closeTimer' = Off
    /\ UNCHANGED <<config, sinceLast, inSequence, calls, flight, alive>>

CloseByPing == closeTimer = 0 /\ Closed("timeout")

(* Connection.close() for another reason. *)
Close == Closed("closed")

(* headers_send_process(), data_send_process() *)
FrameSent ==
    /\ state = "open" /\ calls
    /\ inSequence' = 0
    /\ UNCHANGED <<config, pingTimer, closeTimer, sinceLast, calls, flight, alive, state>>

(* A call starts with HEADERS from this side or from the peer, or the last ends. *)
Calls ==
    /\ state = "open"
    /\ calls' = ~calls
    /\ inSequence' \in {inSequence} \cup {0}
    /\ UNCHANGED <<config, pingTimer, closeTimer, sinceLast, flight, alive, state>>

(* Nothing arrives from the peer any more. *)
PeerDies ==
    /\ alive
    /\ alive' = FALSE
    /\ UNCHANGED <<config, pingTimer, closeTimer, sinceLast, inSequence, calls, flight, state>>

Down(timer) == IF timer = Off THEN Off ELSE timer - 1

Tick ==
    /\ state = "open"
    /\ pingTimer # 0 /\ closeTimer # 0
    /\ alive => \A i \in 1 .. Len(flight) : flight[i] < config.delay
    /\ pingTimer' = Down(pingTimer)
    /\ closeTimer' = Down(closeTimer)
    /\ sinceLast' = IF sinceLast = Off THEN Off ELSE Lesser(sinceLast + 1, config.minInterval)
    /\ flight' = [i \in 1 .. Len(flight) |-> Lesser(flight[i] + 1, AgeBound)]
    /\ UNCHANGED <<config, inSequence, calls, alive, state>>

Next ==
    \/ Ping \/ Ack \/ CloseByPing \/ Close \/ FrameSent \/ Calls \/ PeerDies \/ Tick

Spec == Init /\ [][Next]_vars

-----------------------------------------------------------------------------
(* protocol.py:263-293.  A peer that answers every ping within the
   timeout is not dropped, however the pings and their answers overlap. *)
AnsweringPeerKept ==
    state = "timeout" /\ alive => config.delay >= config.keepaliveTimeout

(* The least time between two pings. *)
Interval == Greater(config.keepaliveTime, config.minInterval)

(* protocol.py:263-293.  If answers arrive before the next ping is sent,
   then a ping that gets none closes the connection keepalive_timeout after it
   was sent: a late answer never stops the timer of another ping. *)
SilentPeerDropped ==
    state = "open" /\ config.delay < Interval =>
        \A i \in 1 .. Len(flight) :
            closeTimer # Off /\ closeTimer <= config.keepaliveTimeout - flight[i]
=============================================================================
