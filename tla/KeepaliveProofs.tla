-------------------------- MODULE KeepaliveProofs --------------------------
(***************************************************************************)
(* Proofs about Keepalive, for any configuration and any peer.             *)
(***************************************************************************)
EXTENDS Keepalive, SequenceTheorems, TLAPS

LEMMA ConfigFields ==
    ASSUME config \in Configs
    PROVE  /\ config.keepaliveTime \in Nat \ {0}
           /\ config.keepaliveTimeout \in Nat \ {0}
           /\ config.permitWithoutCalls \in BOOLEAN
           /\ config.maxPings \in Nat
           /\ config.minInterval \in Nat \ {0}
           /\ config.delay \in Nat
BY KeepaliveAssumption DEF ConfigType

LEMMA OffIsNoTime == Off \notin Int
BY KeepaliveAssumption

LEMMA BoundTypes ==
    ASSUME config \in Configs
    PROVE  /\ SequenceBound \in Nat \ {0}
           /\ config.maxPings <= SequenceBound
           /\ AgeBound \in Nat
           /\ config.keepaliveTimeout < AgeBound
           /\ config.delay < AgeBound
BY ConfigFields DEF SequenceBound, AgeBound, Greater

-----------------------------------------------------------------------------
(* The inductive invariant.                                                *)

(* An open connection always has its next ping ahead. *)
PingAhead == state = "open" => pingTimer # Off

(* The ping that set the close timer is still unanswered. *)
TimerHasPing ==
    closeTimer # Off =>
        \E i \in 1 .. Len(flight) : flight[i] + closeTimer >= config.keepaliveTimeout

(* The pings that a living peer has not answered are young, but no younger than
   what the ping timer and last_ping_sent say of the last one. *)
PingsAreYoung ==
    state = "open" /\ alive =>
        \A i \in 1 .. Len(flight) :
            /\ flight[i] <= config.delay
            /\ sinceLast # Off /\ sinceLast <= flight[i]
            /\ config.keepaliveTime - pingTimer <= flight[i]

(* A peer that answers before the next ping owes one answer at most. *)
OnePing ==
    state = "open" /\ alive /\ config.delay < Interval => Len(flight) <= 1

KeepaliveInv ==
    /\ TypeOK /\ PingAhead /\ TimerHasPing /\ PingsAreYoung /\ OnePing
    /\ AnsweringPeerKept /\ SilentPeerDropped

LEMMA InitKeepalive == Init => KeepaliveInv
<1> SUFFICES ASSUME Init PROVE KeepaliveInv
    OBVIOUS
<1>1. /\ config.keepaliveTime \in Nat \ {0} /\ config.keepaliveTimeout \in Nat \ {0}
      /\ config.minInterval \in Nat \ {0}
    BY ConfigFields DEF Init
<1>2. SequenceBound \in Nat \ {0}
    BY BoundTypes DEF Init
<1>3. TypeOK
    <2>1. pingTimer \in 0 .. config.keepaliveTime /\ inSequence \in 0 .. SequenceBound
        BY <1>1, <1>2 DEF Init
    <2>2. calls \in BOOLEAN /\ alive \in BOOLEAN
        BY Zenon DEF Init
    <2>3. flight \in Seq(0 .. AgeBound)
        BY DEF Init
    <2> QED
        BY <2>1, <2>2, <2>3 DEF Init, TypeOK
<1>4. /\ PingAhead /\ TimerHasPing /\ PingsAreYoung /\ OnePing
      /\ AnsweringPeerKept /\ SilentPeerDropped
    BY <1>1, OffIsNoTime DEF Init, PingAhead, TimerHasPing, PingsAreYoung, OnePing,
       AnsweringPeerKept, SilentPeerDropped
<1> QED
    BY <1>3, <1>4 DEF KeepaliveInv

-----------------------------------------------------------------------------
(* The steps.                                                              *)

LEMMA SeqElements ==
    ASSUME NEW S, NEW s \in Seq(S)
    PROVE  Len(s) \in Nat /\ \A i \in 1 .. Len(s) : s[i] \in S
OBVIOUS

LEMMA PingKeeps == ASSUME KeepaliveInv, Ping PROVE KeepaliveInv'
<1> USE ConfigFields, OffIsNoTime, BoundTypes DEF KeepaliveInv, TypeOK
<1>1. /\ state = "open" /\ state' = "open" /\ pingTimer = 0
      /\ pingTimer' = config.keepaliveTime
      /\ UNCHANGED <<config, calls, alive, state>>
    BY DEF Ping
<1>2. CASE ~NeedPing
    <2>1. UNCHANGED <<flight, sinceLast, inSequence, closeTimer>>
        BY <1>2 DEF Ping
    <2>2. TypeOK'
        BY <1>1, <2>1 DEF SequenceBound, AgeBound
    <2>3. PingAhead' /\ TimerHasPing'
        BY <1>1, <2>1 DEF PingAhead, TimerHasPing
    <2>5. PingsAreYoung'
        <3>1. config.keepaliveTime - pingTimer' <= config.keepaliveTime - pingTimer
            BY <1>1
        <3> QED
            BY <1>1, <2>1, <3>1 DEF PingsAreYoung
    <2>4. OnePing' /\ AnsweringPeerKept' /\ SilentPeerDropped'
        BY <1>1, <2>1 DEF OnePing, AnsweringPeerKept, SilentPeerDropped, Interval
    <2> QED
        BY <2>2, <2>3, <2>4, <2>5
<1>3. CASE NeedPing
    <2>1. /\ flight' = Append(flight, 0) /\ sinceLast' = 0
          /\ inSequence' = IF config.maxPings = 0 THEN 1 ELSE inSequence + 1
          /\ closeTimer' = CloseAfter
        BY <1>3 DEF Ping
    <2>2. /\ Len(flight') = Len(flight) + 1 /\ flight'[Len(flight) + 1] = 0
          /\ \A i \in 1 .. Len(flight) : flight'[i] = flight[i] /\ flight[i] \in 0 .. AgeBound
          /\ Len(flight) \in Nat
          /\ flight' \in Seq(0 .. AgeBound)
        BY <2>1
    <2>3. /\ closeTimer' \in 0 .. config.keepaliveTimeout
          /\ closeTimer' = config.keepaliveTimeout \/ closeTimer' = closeTimer
        BY <2>1 DEF CloseAfter
    <2>4. TypeOK'
        <3>1. inSequence' \in 0 .. SequenceBound
            BY <1>3, <2>1 DEF NeedPing
        <3>2. sinceLast' \in 0 .. config.minInterval
            BY <2>1
        <3> QED
            BY <1>1, <2>2, <2>3, <3>1, <3>2 DEF SequenceBound, AgeBound
    <2>5. PingAhead'
        BY <1>1 DEF PingAhead
    <2>6. TimerHasPing'
        <3>1. CASE closeTimer = Off
            <4>1. closeTimer' = config.keepaliveTimeout
                BY <2>1, <3>1 DEF CloseAfter
            <4>2. Len(flight') \in 1 .. Len(flight')
                BY <2>2
            <4>3. flight'[Len(flight')] + closeTimer' >= config'.keepaliveTimeout
                BY <1>1, <2>2, <4>1
            <4> QED
                BY <4>2, <4>3 DEF TimerHasPing
        <3>2. CASE closeTimer # Off
            <4>1. PICK i \in 1 .. Len(flight) :
                      flight[i] + closeTimer >= config.keepaliveTimeout
                BY <3>2 DEF TimerHasPing
            <4>2. closeTimer' = closeTimer
                BY <2>1, <3>2 DEF CloseAfter
            <4>3. i \in 1 .. Len(flight') /\ flight'[i] = flight[i]
                BY <2>2
            <4> QED
                BY <1>1, <4>1, <4>2, <4>3 DEF TimerHasPing
        <3> QED
            BY <3>1, <3>2
    <2>7. \A i \in 1 .. Len(flight') : flight'[i] \in 0 .. AgeBound
        <3>1. flight' \in Seq(0 .. AgeBound)
            BY <2>2
        <3> QED
            BY <3>1, SeqElements, Zenon
    <2>8. PingsAreYoung'
        <3> SUFFICES ASSUME alive, NEW i \in 1 .. Len(flight')
                     PROVE  /\ flight'[i] <= config.delay
                            /\ sinceLast' # Off /\ sinceLast' <= flight'[i]
                            /\ config.keepaliveTime - pingTimer' <= flight'[i]
            BY <1>1 DEF PingsAreYoung
        <3>1. flight'[i] <= config.delay
            <4>1. CASE i = Len(flight) + 1
                BY <2>2, <4>1
            <4>2. CASE i \in 1 .. Len(flight)
                BY <1>1, <2>2, <4>2 DEF PingsAreYoung
            <4> QED
                BY <2>2, <4>1, <4>2
        <3>2. flight'[i] \in Nat
            <4>1. AgeBound \in Nat
                OBVIOUS
            <4> QED
                BY <2>7, <4>1
        <3>3. sinceLast' = 0 /\ sinceLast' # Off
            BY <2>1
        <3>4. config.keepaliveTime - pingTimer' = 0
            BY <1>1
        <3> QED
            BY <3>1, <3>2, <3>3, <3>4
    <2>9. alive /\ config.delay < Interval => flight = <<>>
        <3> SUFFICES ASSUME alive, flight # <<>> PROVE config.delay >= Interval
            BY DEF Interval, Greater
        <3>1. 1 \in 1 .. Len(flight)
            OBVIOUS
        <3>2. /\ flight[1] <= config.delay /\ flight[1] \in Nat
              /\ sinceLast # Off /\ sinceLast <= flight[1]
              /\ config.keepaliveTime <= flight[1]
            BY <1>1, <3>1, <2>2 DEF PingsAreYoung
        <3>3. sinceLast = config.minInterval
            BY <1>3, <3>2 DEF NeedPing
        <3> QED
            BY <3>2, <3>3 DEF Interval, Greater
    <2>10. OnePing'
        BY <1>1, <2>2, <2>9 DEF OnePing, Interval
    <2>11. AnsweringPeerKept'
        BY <1>1 DEF AnsweringPeerKept
    <2>12. SilentPeerDropped'
        <3> SUFFICES ASSUME config.delay < Interval, NEW i \in 1 .. Len(flight')
                     PROVE  closeTimer' # Off /\ closeTimer' <= config.keepaliveTimeout - flight'[i]
            BY <1>1 DEF SilentPeerDropped, Interval
        <3>1. CASE i = Len(flight) + 1
            BY <2>2, <2>3, <3>1
        <3>2. CASE i \in 1 .. Len(flight)
            <4>1. closeTimer # Off /\ closeTimer <= config.keepaliveTimeout - flight[i]
                BY <1>1, <3>2 DEF SilentPeerDropped
            <4> QED
                BY <2>1, <2>2, <3>2, <4>1 DEF CloseAfter
        <3> QED
            BY <2>2, <3>1, <3>2
    <2> QED
        BY <2>4, <2>5, <2>6, <2>8, <2>10, <2>11, <2>12
<1> QED
    BY <1>2, <1>3

LEMMA AckKeeps == ASSUME KeepaliveInv, Ack PROVE KeepaliveInv'
<1> USE OffIsNoTime DEF KeepaliveInv, TypeOK
<1>1. /\ flight # <<>> /\ flight' = Tail(flight) /\ closeTimer' = Off /\ alive /\ state = "open"
      /\ UNCHANGED <<config, pingTimer, sinceLast, inSequence, calls, alive, state>>
    BY DEF Ack
<1>2. /\ flight' \in Seq(0 .. AgeBound) /\ Len(flight') = Len(flight) - 1
      /\ \A i \in 1 .. Len(flight') : i + 1 \in 1 .. Len(flight) /\ flight'[i] = flight[i + 1]
    BY <1>1
<1>3. TypeOK'
    BY <1>1, <1>2 DEF SequenceBound, AgeBound
<1>4. PingAhead' /\ TimerHasPing' /\ AnsweringPeerKept'
    BY <1>1 DEF PingAhead, TimerHasPing, AnsweringPeerKept
<1>5. PingsAreYoung'
    BY <1>1, <1>2 DEF PingsAreYoung
<1>6. OnePing' /\ SilentPeerDropped'
    BY <1>1, <1>2 DEF OnePing, SilentPeerDropped, Interval
<1> QED
    BY <1>3, <1>4, <1>5, <1>6

LEMMA CloseKeeps ==
    ASSUME KeepaliveInv, CloseByPing \/ Close
    PROVE  KeepaliveInv'
<1> USE ConfigFields, OffIsNoTime DEF KeepaliveInv, TypeOK
<1>1. /\ state = "open" /\ state' \in {"timeout", "closed"}
      /\ pingTimer' = Off /\ closeTimer' = Off
      /\ UNCHANGED <<config, sinceLast, inSequence, calls, flight, alive>>
    BY DEF CloseByPing, Close, Closed
<1>2. TypeOK'
    BY <1>1 DEF SequenceBound, AgeBound
<1>3. PingAhead' /\ TimerHasPing' /\ PingsAreYoung' /\ OnePing' /\ SilentPeerDropped'
    BY <1>1 DEF PingAhead, TimerHasPing, PingsAreYoung, OnePing, SilentPeerDropped
<1>4. AnsweringPeerKept'
    <2> SUFFICES ASSUME state' = "timeout", alive PROVE config.delay >= config.keepaliveTimeout
        BY <1>1 DEF AnsweringPeerKept
    <2>1. closeTimer = 0
        BY DEF CloseByPing, Close, Closed
    <2>2. PICK i \in 1 .. Len(flight) : flight[i] + closeTimer >= config.keepaliveTimeout
        BY <2>1 DEF TimerHasPing
    <2>3. flight[i] <= config.delay
        BY <1>1 DEF PingsAreYoung
    <2>4. flight[i] \in 0 .. AgeBound /\ AgeBound \in Nat
        BY BoundTypes, ElementOfSeq
    <2> QED
        BY <2>1, <2>2, <2>3, <2>4
<1> QED
    BY <1>2, <1>3, <1>4

(* A sequence of which every element is replaced. *)
LEMMA Replaced ==
    ASSUME NEW S, NEW n \in Nat, NEW seq \in [1 .. n -> S]
    PROVE  seq \in Seq(S) /\ Len(seq) = n
<1>1. seq \in Seq(S)
    BY SeqDef
<1>2. Len(seq) \in Nat /\ 1 .. Len(seq) = 1 .. n
    BY <1>1, LenProperties
<1> QED
    BY <1>1, <1>2

LEMMA TickKeeps == ASSUME KeepaliveInv, Tick PROVE KeepaliveInv'
<1> DEFINE timeout == config.keepaliveTimeout
<1>1. /\ state = "open" /\ UNCHANGED <<config, inSequence, calls, alive, state>>
      /\ alive => \A i \in 1 .. Len(flight) : flight[i] < config.delay
    BY DEF Tick
<1>2. /\ config.keepaliveTime \in Nat /\ timeout \in Nat /\ config.minInterval \in Nat
      /\ config.delay \in Nat /\ AgeBound \in Nat
      /\ timeout < AgeBound /\ config.delay < AgeBound
    BY ConfigFields, BoundTypes DEF KeepaliveInv, TypeOK
<1>3. /\ pingTimer \in 1 .. config.keepaliveTime /\ pingTimer' = pingTimer - 1
      /\ closeTimer # Off => closeTimer \in 1 .. timeout /\ closeTimer' = closeTimer - 1
      /\ closeTimer = Off => closeTimer' = Off
    BY <1>1, <1>2 DEF Tick, Down, KeepaliveInv, TypeOK, PingAhead
<1>4. /\ sinceLast = Off => sinceLast' = Off
      /\ sinceLast # Off => /\ sinceLast \in 0 .. config.minInterval
                            /\ sinceLast' \in 0 .. config.minInterval
                            /\ sinceLast' <= sinceLast + 1
    BY <1>2 DEF Tick, Lesser, KeepaliveInv, TypeOK
<1>5. /\ Len(flight) \in Nat
      /\ \A i \in 1 .. Len(flight) : flight[i] \in Nat /\ flight[i] <= AgeBound
    <2>1. flight \in Seq(0 .. AgeBound)
        BY DEF KeepaliveInv, TypeOK
    <2>2. \A i \in 1 .. Len(flight) : flight[i] \in 0 .. AgeBound
        BY <2>1, ElementOfSeq
    <2> QED
        BY <1>2, <2>1, <2>2, LenProperties
<1>6. /\ Len(flight') = Len(flight) /\ flight' \in Seq(0 .. AgeBound)
      /\ \A i \in 1 .. Len(flight) :
            /\ flight'[i] \in Nat
            /\ flight'[i] = flight[i] + 1 \/ (flight[i] = AgeBound /\ flight'[i] = AgeBound)
    <2>1. flight' = [i \in 1 .. Len(flight) |-> Lesser(flight[i] + 1, AgeBound)]
        BY DEF Tick
    <2>2. \A i \in 1 .. Len(flight) : Lesser(flight[i] + 1, AgeBound) \in 0 .. AgeBound
        BY <1>2, <1>5 DEF Lesser
    <2>3. flight' \in [1 .. Len(flight) -> 0 .. AgeBound]
        BY <2>1, <2>2
    <2>4. \A i \in 1 .. Len(flight) : flight'[i] \in Nat
        BY <1>2, <2>3
    <2>5. /\ Len(flight') = Len(flight) /\ flight' \in Seq(0 .. AgeBound)
        BY <1>5, <2>3, Replaced
    <2>6. \A i \in 1 .. Len(flight) : flight'[i] = Lesser(flight[i] + 1, AgeBound)
        BY <2>1
    <2>7. ASSUME NEW i \in 1 .. Len(flight)
          PROVE  flight'[i] = flight[i] + 1 \/ (flight[i] = AgeBound /\ flight'[i] = AgeBound)
        <3>1. flight'[i] = Lesser(flight[i] + 1, AgeBound)
            BY <2>6
        <3>2. flight[i] \in Nat /\ flight[i] <= AgeBound
            BY <1>5
        <3> QED
            BY <1>2, <3>1, <3>2 DEF Lesser
    <2> QED
        BY <2>4, <2>5, <2>7
<1>7. TypeOK'
    <2>1. /\ pingTimer' \in 0 .. config.keepaliveTime
          /\ closeTimer' \in 0 .. timeout \cup {Off}
        BY <1>2, <1>3
    <2>2. sinceLast' \in 0 .. config.minInterval \cup {Off}
        BY <1>4
    <2>3. UNCHANGED <<SequenceBound, AgeBound>>
        BY <1>1 DEF SequenceBound, AgeBound
    <2> QED
        BY <1>1, <1>6, <2>1, <2>2, <2>3 DEF KeepaliveInv, TypeOK
<1>8. PingAhead' /\ AnsweringPeerKept'
    BY <1>1, <1>3, OffIsNoTime DEF PingAhead, AnsweringPeerKept
<1>9. TimerHasPing'
    <2> SUFFICES ASSUME closeTimer' # Off
                 PROVE  \E i \in 1 .. Len(flight') : flight'[i] + closeTimer' >= timeout
        BY <1>1 DEF TimerHasPing
    <2>1. PICK i \in 1 .. Len(flight) : flight[i] + closeTimer >= timeout
        BY <1>3 DEF KeepaliveInv, TimerHasPing
    <2>2. closeTimer \in 1 .. timeout /\ closeTimer' = closeTimer - 1
        BY <1>3
    <2>3. flight'[i] + closeTimer' >= timeout
        <3>1. flight[i] \in Nat
            BY <1>5
        <3>2. CASE flight'[i] = flight[i] + 1
            BY <1>2, <2>1, <2>2, <3>1, <3>2
        <3>3. CASE flight'[i] = AgeBound
            BY <1>2, <2>2, <3>3
        <3> QED
            BY <1>6, <3>2, <3>3
    <2> QED
        BY <1>6, <2>3
<1>10. PingsAreYoung'
    <2> SUFFICES ASSUME alive, NEW i \in 1 .. Len(flight')
                 PROVE  /\ flight'[i] <= config.delay
                        /\ sinceLast' # Off /\ sinceLast' <= flight'[i]
                        /\ config.keepaliveTime - pingTimer' <= flight'[i]
        BY <1>1 DEF PingsAreYoung
    <2>1. i \in 1 .. Len(flight) /\ flight[i] < config.delay
        BY <1>1, <1>6
    <2>2. flight'[i] = flight[i] + 1 /\ flight[i] \in Nat
        BY <1>2, <1>5, <1>6, <2>1
    <2>3. /\ sinceLast # Off /\ sinceLast <= flight[i]
          /\ config.keepaliveTime - pingTimer <= flight[i]
        BY <1>1, <2>1 DEF KeepaliveInv, PingsAreYoung
    <2>4. sinceLast' # Off /\ sinceLast' <= flight[i] + 1
        BY <1>2, <1>4, <2>2, <2>3, OffIsNoTime
    <2>5. flight'[i] <= config.delay
        BY <1>2, <2>1, <2>2
    <2>6. sinceLast' <= flight'[i]
        BY <2>2, <2>4
    <2>7. config.keepaliveTime - pingTimer' <= flight'[i]
        BY <1>2, <1>3, <2>2, <2>3
    <2> QED
        BY <2>4, <2>5, <2>6, <2>7
<1>11. OnePing'
    BY <1>1, <1>6 DEF KeepaliveInv, OnePing, Interval
<1>12. SilentPeerDropped'
    <2> SUFFICES ASSUME config.delay < Interval, NEW i \in 1 .. Len(flight')
                 PROVE  closeTimer' # Off /\ closeTimer' <= timeout - flight'[i]
        BY <1>1 DEF SilentPeerDropped, Interval
    <2>1. /\ i \in 1 .. Len(flight) /\ closeTimer # Off
          /\ closeTimer <= timeout - flight[i]
        BY <1>1, <1>6 DEF KeepaliveInv, SilentPeerDropped
    <2>2. closeTimer \in 1 .. timeout /\ closeTimer' = closeTimer - 1
        BY <1>3, <2>1
    <2>3. flight[i] \in Nat /\ flight'[i] \in Nat /\ flight'[i] <= flight[i] + 1
        <3>1. flight[i] \in Nat /\ flight'[i] \in Nat
            BY <1>5, <1>6, <2>1
        <3>2. flight'[i] = flight[i] + 1 \/ flight'[i] = flight[i]
            BY <1>6, <2>1
        <3> QED
            BY <3>1, <3>2
    <2> QED
        BY <1>2, <2>1, <2>2, <2>3, OffIsNoTime
<1> QED
    BY <1>7, <1>8, <1>9, <1>10, <1>11, <1>12 DEF KeepaliveInv

(* The other steps change neither the timers nor the pings. *)
LEMMA OthersKeep ==
    ASSUME KeepaliveInv, FrameSent \/ Calls \/ PeerDies \/ UNCHANGED vars
    PROVE  KeepaliveInv'
<1> USE DEF KeepaliveInv
<1>1. /\ UNCHANGED <<config, pingTimer, closeTimer, sinceLast, flight, state>>
      /\ alive' => alive
    BY DEF FrameSent, Calls, PeerDies, vars
<1>2. calls' \in BOOLEAN /\ alive' \in BOOLEAN
    BY Zenon DEF FrameSent, Calls, PeerDies, vars, TypeOK
<1>3. inSequence' \in 0 .. SequenceBound
    <2>1. inSequence' \in {0, inSequence}
        BY DEF FrameSent, Calls, PeerDies, vars
    <2>2. 0 \in 0 .. SequenceBound
        BY BoundTypes DEF TypeOK
    <2> QED
        BY <2>1, <2>2 DEF TypeOK
<1>4. TypeOK'
    BY <1>1, <1>2, <1>3 DEF TypeOK, SequenceBound, AgeBound
<1>5. /\ PingAhead' /\ TimerHasPing' /\ PingsAreYoung' /\ OnePing'
      /\ AnsweringPeerKept' /\ SilentPeerDropped'
    BY <1>1 DEF PingAhead, TimerHasPing, PingsAreYoung, OnePing, AnsweringPeerKept,
       SilentPeerDropped, Interval
<1> QED
    BY <1>4, <1>5

LEMMA KeepaliveInvariant == Spec => []KeepaliveInv
<1>1. KeepaliveInv /\ [Next]_vars => KeepaliveInv'
    BY PingKeeps, AckKeeps, CloseKeeps, TickKeeps, OthersKeep DEF Next
<1> QED
    BY InitKeepalive, <1>1, PTL DEF Spec

(* Timers, counters and ages stay in their ranges. *)
THEOREM KeepaliveTypeCorrect == Spec => []TypeOK
BY KeepaliveInvariant, PTL DEF KeepaliveInv

(* A peer that answers in time is never dropped, for every configuration. *)
THEOREM NoFalseAlarm == Spec => []AnsweringPeerKept
BY KeepaliveInvariant, PTL DEF KeepaliveInv

(* A ping without an answer closes the connection after its timeout, if answers
   come before the next ping. *)
THEOREM SilenceIsNoticed == Spec => []SilentPeerDropped
BY KeepaliveInvariant, PTL DEF KeepaliveInv
=============================================================================
