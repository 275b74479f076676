------------------------ MODULE ChannelConnectProofs ------------------------
(***************************************************************************)
(* Proofs about ChannelConnect, for any number of calls and connections:   *)
(* the lock is never left behind, the channel has one live connection at   *)
(* most, and none is forgotten.                                            *)
(***************************************************************************)
EXTENDS ChannelConnect, SequenceTheorems, TLAPS

LEMMA InitTypeOK == Init => TypeOK
BY ChannelAssumption, EmptySeq DEF Init, TypeOK, Places

LEMMA WithoutKeepsType ==
    ASSUME queue \in Seq(Calls), NEW i \in 1 .. Len(queue)
    PROVE  SubSeq(queue, 1, i - 1) \o SubSeq(queue, i + 1, Len(queue)) \in Seq(Calls)
<1>1. /\ SubSeq(queue, 1, i - 1) \in Seq(Calls)
      /\ SubSeq(queue, i + 1, Len(queue)) \in Seq(Calls)
    BY LenProperties, SubSeqProperties
<1> QED
    BY <1>1, ConcatProperties

LEMMA NextTypeOK == TypeOK /\ [Next]_vars => TypeOK'
<1> SUFFICES ASSUME TypeOK, [Next]_vars PROVE TypeOK'
    OBVIOUS
<1> USE DEF TypeOK, Places, Goto
<1>1. ASSUME NEW p \in Calls, Connect(p) PROVE TypeOK'
    BY <1>1 DEF Connect, HoldLock
<1>2. ASSUME NEW p \in Calls, Acquire(p) PROVE TypeOK'
    <2>1. Tail(queue) \in Seq(Calls)
        BY <1>2, HeadTailProperties DEF Acquire
    <2> QED BY <1>2, <2>1 DEF Acquire, HoldLock
<1>3. ASSUME NEW p \in Calls, Created(p) PROVE TypeOK'
    BY <1>3 DEF Created
<1>4. ASSUME NEW p \in Calls, Failed(p) PROVE TypeOK'
    BY <1>4 DEF Failed
<1>5. ASSUME NEW p \in Calls, CancelQueued(p) PROVE TypeOK'
    <2>1. queue' \in Seq(Calls)
        BY <1>5, WithoutKeepsType DEF CancelQueued
    <2> QED BY <1>5, <2>1 DEF CancelQueued
<1>6. ASSUME NEW p \in Calls, CancelCreating(p) PROVE TypeOK'
    BY <1>6 DEF CancelCreating
<1>7. ASSUME NEW p \in Calls, NEW c \in Conns, Establish(p, c) PROVE TypeOK'
    BY <1>7 DEF Establish
<1>8. ASSUME NEW c \in Conns, ConnectionLost(c) \/ PingTimeout(c) PROVE TypeOK'
    BY <1>8 DEF ConnectionLost, PingTimeout
<1>9. CASE Close
    BY <1>9 DEF Close
<1>10. CASE UNCHANGED vars
    BY <1>10 DEF vars
<1> QED
    BY <1>1, <1>2, <1>3, <1>4, <1>5, <1>6, <1>7, <1>8, <1>9, <1>10 DEF Next

(* Every state is well typed, whatever the numbers of calls and connections. *)
THEOREM TypeCorrect == Spec => []TypeOK
<1>1. QED
    BY InitTypeOK, NextTypeOK, PTL DEF Spec

-----------------------------------------------------------------------------

LEMMA InitChannelInv == Init => ChannelInv
BY ChannelAssumption
DEF Init, ChannelInv, LockMatches, AttemptMeansDisconnected, MadeWhileCreating,
    ProtocolExists, NoStrayConnection, Creating, Live

(* Whoever holds the lock is the only one to create a connection. *)
LEMMA OneCreator ==
    ASSUME LockMatches, NEW p \in Calls, Creating(p), NEW q \in Calls, Creating(q)
    PROVE  p = q
BY DEF LockMatches

LEMMA NextChannelInv == TypeOK /\ ChannelInv /\ [Next]_vars => ChannelInv'
<1> SUFFICES ASSUME TypeOK, ChannelInv, [Next]_vars PROVE ChannelInv'
    OBVIOUS
<1> USE ChannelAssumption
    DEF TypeOK, ChannelInv, LockMatches, AttemptMeansDisconnected,
        MadeWhileCreating, ProtocolExists, NoStrayConnection, Creating, Live,
        Connected, Goto
<1>1. ASSUME NEW p \in Calls, HoldLock(p), pc[p] \in {"new", "queued"}, locked = None,
             UNCHANGED <<made, protocol, conn>>
      PROVE  ChannelInv'
    BY <1>1 DEF HoldLock
<1>2. ASSUME NEW p \in Calls, Connect(p) PROVE ChannelInv'
    BY <1>1, <1>2 DEF Connect
<1>3. ASSUME NEW p \in Calls, Acquire(p) PROVE ChannelInv'
    BY <1>1, <1>3 DEF Acquire
<1>4. ASSUME NEW p \in Calls, Created(p) PROVE ChannelInv'
    BY <1>4 DEF Created
<1>5. ASSUME NEW p \in Calls, Failed(p) PROVE ChannelInv'
    BY <1>5 DEF Failed
<1>6. ASSUME NEW p \in Calls, CancelQueued(p) PROVE ChannelInv'
    BY <1>6 DEF CancelQueued
<1>7. ASSUME NEW p \in Calls, CancelCreating(p) PROVE ChannelInv'
    BY <1>7 DEF CancelCreating
<1>8. ASSUME NEW p \in Calls, NEW c \in Conns, Establish(p, c) PROVE ChannelInv'
    BY <1>8 DEF Establish
<1>9. ASSUME NEW c \in Conns, ConnectionLost(c) \/ PingTimeout(c) PROVE ChannelInv'
    BY <1>9 DEF ConnectionLost, PingTimeout
<1>10. CASE Close
    BY <1>10 DEF Close
<1>11. CASE UNCHANGED vars
    BY <1>11 DEF vars
<1> QED
    BY <1>2, <1>3, <1>4, <1>5, <1>6, <1>7, <1>8, <1>9, <1>10, <1>11 DEF Next

LEMMA ChannelInvHolds == Spec => [](TypeOK /\ ChannelInv)
<1>1. QED
    BY InitTypeOK, NextTypeOK, InitChannelInv, NextChannelInv, PTL DEF Spec

(* Two live connections would be the channel's and one that is being made, or
   two that are being made. *)
LEMMA InvOneConnection == ChannelInv => OneConnection
<1> SUFFICES ASSUME ChannelInv, NEW c \in Conns, NEW d \in Conns, Live(c), Live(d)
             PROVE  c = d
    BY DEF OneConnection
<1>1. ASSUME NEW p \in Calls, Creating(p) PROVE ~Live(protocol) \/ protocol = None
    BY <1>1 DEF ChannelInv, AttemptMeansDisconnected, Connected, Live
<1>2. ASSUME NEW p \in Calls, Creating(p) PROVE c = made[p] /\ d = made[p]
    <2>1. c # protocol /\ d # protocol
        BY <1>1, <1>2, ChannelAssumption
    <2>2. PICK q \in Calls : Creating(q) /\ made[q] = c
        BY <2>1 DEF ChannelInv, NoStrayConnection
    <2>3. PICK r \in Calls : Creating(r) /\ made[r] = d
        BY <2>1 DEF ChannelInv, NoStrayConnection
    <2> QED
        BY <1>2, <2>2, <2>3, OneCreator DEF ChannelInv
<1> QED
    BY <1>2 DEF ChannelInv, NoStrayConnection

-----------------------------------------------------------------------------
(* The queue of the lock.                                                  *)

(* What is left of a sequence when element i is taken out. *)
LEMMA WithoutElement ==
    ASSUME NEW S, NEW seq \in Seq(S), NEW i \in 1 .. Len(seq)
    PROVE  LET q == SubSeq(seq, 1, i - 1) \o SubSeq(seq, i + 1, Len(seq))
           IN  /\ Len(q) = Len(seq) - 1
               /\ \A j \in 1 .. Len(seq) - 1 :
                     q[j] = IF j < i THEN seq[j] ELSE seq[j + 1]
<1> DEFINE n == Len(seq)
           a == SubSeq(seq, 1, i - 1)
           b == SubSeq(seq, i + 1, n)
           q == a \o b
<1>1. n \in Nat /\ i \in Nat /\ 1 <= i /\ i <= n
    BY LenProperties
<1>2. /\ a \in Seq(S) /\ Len(a) = i - 1
      /\ \A j \in 1 .. i - 1 : a[j] = seq[j]
    BY <1>1, SubSeqProperties
<1>3. /\ b \in Seq(S) /\ Len(b) = n - i
      /\ \A j \in 1 .. n - i : b[j] = seq[i + j]
    BY <1>1, SubSeqProperties
<1> HIDE DEF a, b, n
<1>4. i - 1 \in Nat /\ n - i \in Nat /\ (i - 1) + (n - i) = n - 1
    BY <1>1
<1>5. /\ Len(q) = n - 1
      /\ \A j \in 1 .. n - 1 :
            q[j] = IF j <= i - 1 THEN a[j] ELSE b[j - (i - 1)]
    <2>1. /\ Len(a \o b) = Len(a) + Len(b)
          /\ \A j \in 1 .. Len(a) + Len(b) :
                (a \o b)[j] = IF j <= Len(a) THEN a[j] ELSE b[j - Len(a)]
        BY <1>2, <1>3, ConcatProperties
    <2> QED
        BY <1>2, <1>3, <1>4, <2>1, Zenon
<1> HIDE DEF q
<1>6. ASSUME NEW j \in 1 .. n - 1
      PROVE  q[j] = IF j < i THEN seq[j] ELSE seq[j + 1]
    <2>1. CASE j < i
        BY <1>1, <1>2, <1>5, <2>1
    <2>2. CASE ~(j < i)
        <3>1. j - (i - 1) \in 1 .. n - i /\ i + (j - (i - 1)) = j + 1 /\ ~(j <= i - 1)
            BY <1>1, <2>2
        <3> QED
            BY <1>3, <1>5, <2>2, <3>1
    <2> QED
        BY <2>1, <2>2
<1> QED
    BY <1>5, <1>6 DEF q, a, b, n

(* A waiter that goes, from the front or from the middle, leaves the others in
   the queue. *)
LEMMA GoneFromQueue ==
    ASSUME TypeOK, QueueMatches, NEW p \in Calls, NEW i \in 1 .. Len(queue), queue[i] = p,
           queue' \in Seq(Calls), Len(queue') = Len(queue) - 1,
           \A j \in 1 .. Len(queue') :
                queue'[j] = IF j < i THEN queue[j] ELSE queue[j + 1],
           NEW place \in Places \ {"queued"}, Goto(p, place)
    PROVE  QueueMatches'
<1>1. Len(queue) \in Nat
    BY LenProperties DEF TypeOK
<1>2. ASSUME NEW j \in 1 .. Len(queue'), NEW k \in 1 .. Len(queue'), queue'[j] = queue'[k]
      PROVE  j = k
    <2> DEFINE was(n) == IF n < i THEN n ELSE n + 1
    <2>1. was(j) \in 1 .. Len(queue) /\ was(k) \in 1 .. Len(queue)
        BY <1>1
    <2>2. queue[was(j)] = queue[was(k)]
        BY <1>2
    <2>3. was(j) = was(k)
        BY <2>1, <2>2 DEF QueueMatches
    <2> QED
        BY <1>1, <2>3
<1>3. ASSUME NEW r \in Calls
      PROVE  pc'[r] = "queued" <=> \E j \in 1 .. Len(queue') : queue'[j] = r
    <2>1. CASE r = p
        <3>1. pc'[r] # "queued"
            BY <2>1 DEF Goto, TypeOK
        <3>2. ASSUME NEW j \in 1 .. Len(queue'), queue'[j] = r PROVE FALSE
            <4>1. queue[IF j < i THEN j ELSE j + 1] = queue[i]
                BY <2>1, <3>2
            <4> QED
                BY <1>1, <4>1 DEF QueueMatches
        <3> QED
            BY <3>1, <3>2
    <2>2. CASE r # p
        <3>1. pc'[r] = pc[r]
            BY <2>2 DEF Goto, TypeOK
        <3>2. ASSUME NEW j \in 1 .. Len(queue), queue[j] = r
              PROVE  \E k \in 1 .. Len(queue') : queue'[k] = r
            <4>1. j # i
                BY <2>2, <3>2
            <4>2. CASE j < i
                BY <1>1, <3>2, <4>2
            <4>3. CASE j > i
                <5>1. j - 1 \in 1 .. Len(queue') /\ queue'[j - 1] = queue[j]
                    BY <1>1, <4>3
                <5> QED
                    BY <3>2, <5>1
            <4> QED
                BY <1>1, <4>1, <4>2, <4>3
        <3>3. ASSUME NEW j \in 1 .. Len(queue'), queue'[j] = r
              PROVE  \E k \in 1 .. Len(queue) : queue[k] = r
            <4>1. (IF j < i THEN j ELSE j + 1) \in 1 .. Len(queue)
                BY <1>1
            <4> QED
                BY <3>3, <4>1
        <3> QED
            BY <3>1, <3>2, <3>3 DEF QueueMatches
    <2> QED
        BY <2>1, <2>2
<1> QED
    BY <1>2, <1>3 DEF QueueMatches

LEMMA NextQueueMatches == TypeOK /\ QueueMatches /\ [Next]_vars => QueueMatches'
<1> SUFFICES ASSUME TypeOK, QueueMatches, [Next]_vars PROVE QueueMatches'
    OBVIOUS
<1>0. Len(queue) \in Nat
    BY LenProperties DEF TypeOK
<1>1. ASSUME NEW p \in Calls, NEW place \in Places \ {"queued"}, Goto(p, place),
             pc[p] # "queued", UNCHANGED queue
      PROVE  QueueMatches'
    BY <1>1 DEF QueueMatches, Goto, TypeOK
<1>2. ASSUME NEW p \in Calls, Connect(p) PROVE QueueMatches'
    <2>1. CASE queue' = Append(queue, p) /\ Goto(p, "queued")
        <3>1. /\ Len(queue') = Len(queue) + 1
              /\ \A i \in 1 .. Len(queue) : queue'[i] = queue[i]
              /\ queue'[Len(queue) + 1] = p
            BY <2>1, AppendProperties DEF TypeOK
        <3>2. \A i \in 1 .. Len(queue) : queue[i] # p
            BY <1>2 DEF Connect, QueueMatches
        <3>3. \A r \in Calls : pc'[r] = IF r = p THEN "queued" ELSE pc[r]
            BY <2>1 DEF Goto, TypeOK
        <3> QED
            BY <1>0, <3>1, <3>2, <3>3 DEF QueueMatches
    <2>2. CASE \E place \in {"got", "creating"} : Goto(p, place) /\ UNCHANGED queue
        BY <1>1, <1>2, <2>2 DEF Connect, Places
    <2> QED
        BY <1>2, <2>1, <2>2 DEF Connect, HoldLock
<1>3. ASSUME NEW p \in Calls, Acquire(p) PROVE QueueMatches'
    <2>1. /\ queue # <<>> /\ queue' = Tail(queue) /\ p = queue[1]
          /\ \E place \in {"got", "creating"} : Goto(p, place)
        BY <1>3, HeadTailProperties DEF Acquire, HoldLock, TypeOK
    <2>2. /\ queue' \in Seq(Calls) /\ Len(queue') = Len(queue) - 1
          /\ \A j \in 1 .. Len(queue') : queue'[j] = queue[j + 1]
          /\ 1 \in 1 .. Len(queue)
        BY <1>0, <2>1, HeadTailProperties, EmptySeq DEF TypeOK
    <2>3. \A j \in 1 .. Len(queue') :
             queue'[j] = IF j < 1 THEN queue[j] ELSE queue[j + 1]
        BY <2>2
    <2> QED
        BY <2>1, <2>2, <2>3, GoneFromQueue DEF Places
<1>4. ASSUME NEW p \in Calls, CancelQueued(p) PROVE QueueMatches'
    <2> PICK i \in 1 .. Len(queue) :
          /\ queue[i] = p
          /\ queue' = SubSeq(queue, 1, i - 1) \o SubSeq(queue, i + 1, Len(queue))
        BY <1>4 DEF CancelQueued
    <2>1. queue' \in Seq(Calls)
        BY WithoutKeepsType DEF TypeOK
    <2>2. Goto(p, "raised")
        BY <1>4 DEF CancelQueued
    <2>3. /\ Len(queue') = Len(queue) - 1
          /\ \A j \in 1 .. Len(queue') :
                queue'[j] = IF j < i THEN queue[j] ELSE queue[j + 1]
        BY WithoutElement DEF TypeOK
    <2> QED
        BY <2>1, <2>2, <2>3, GoneFromQueue DEF Places
<1>5. ASSUME NEW p \in Calls, Created(p) \/ Failed(p) \/ CancelCreating(p)
      PROVE  QueueMatches'
    BY <1>1, <1>5 DEF Created, Failed, CancelCreating, Places
<1>6. CASE UNCHANGED <<pc, queue>>
    BY <1>6 DEF QueueMatches
<1> QED
    BY <1>2, <1>3, <1>4, <1>5, <1>6
    DEF Next, Establish, ConnectionLost, PingTimeout, Close, vars

(* No waiter is lost or doubled, and none waits for a lock that nobody will
   release: what lets every call return once the attempts to connect end. *)
THEOREM NobodyWaitsInVain == Spec => [](QueueMatches /\ WaitersAreServed)
<1>1. Init => QueueMatches
    BY EmptySeq DEF Init, QueueMatches
<1>2. TypeOK /\ ChannelInv /\ QueueMatches => WaitersAreServed
    <2> SUFFICES ASSUME TypeOK, LockMatches, QueueMatches, NEW p \in Calls,
                        pc[p] = "queued", locked = None
                 PROVE  queue # <<>> /\ pc[Head(queue)] = "queued"
        BY DEF WaitersAreServed, TypeOK, ChannelInv, LockMatches
    <2>1. queue # <<>> /\ 1 \in 1 .. Len(queue)
        BY EmptySeq, LenProperties DEF QueueMatches, TypeOK
    <2> QED
        BY <2>1, HeadTailProperties DEF QueueMatches, TypeOK
<1>3. QED
    BY <1>1, <1>2, NextQueueMatches, ChannelInvHolds, PTL DEF Spec

-----------------------------------------------------------------------------

(* The lock is held exactly while a connection is being created. *)
THEOREM LockIsGivenBack == Spec => []LockMatches
<1>1. TypeOK /\ ChannelInv => LockMatches
    BY DEF ChannelInv
<1>2. QED
    BY <1>1, ChannelInvHolds, PTL

(* No live connection is forgotten by the channel. *)
THEOREM NothingIsForgotten == Spec => []NoStrayConnection
<1>1. TypeOK /\ ChannelInv => NoStrayConnection
    BY DEF ChannelInv
<1>2. QED
    BY <1>1, ChannelInvHolds, PTL

(* The channel has one live connection at most. *)
THEOREM ConnectionIsShared == Spec => []OneConnection
<1>1. QED
    BY InvOneConnection, ChannelInvHolds, PTL
=============================================================================
