---------------------------- MODULE MCKeepalive ----------------------------
(* Pings further apart than the timeout and closer, by either of the two limits;
   peers that answer in time, just in time and too late. *)
EXTENDS Keepalive

Config(time, timeout, permit, max, interval, delay) ==
    [keepaliveTime |-> time, keepaliveTimeout |-> timeout, permitWithoutCalls |-> permit,
     maxPings |-> max, minInterval |-> interval, delay |-> delay]

MCConfigs ==
    {Config(3, 2, permit, max, interval, delay) :
        permit \in BOOLEAN, max \in {0, 2}, interval \in {1, 5}, delay \in {1, 2, 4}}
    \cup {Config(1, 3, TRUE, 2, interval, 2) : interval \in {1, 4}}
    \cup {Config(1, 5, FALSE, 0, 2, delay) : delay \in {1, 4}}
=============================================================================
