--------------------------- MODULE RecvFlowProofs ---------------------------
(***************************************************************************)
(* Proofs about RecvFlow, for any number of streams and any sizes: type    *)
(* correctness, bytes that are neither lost nor repeated nor reordered,    *)
(* the exact size of what is acknowledged, credit that is neither lost nor *)
(* given twice, and that Buffer.read() implements ByteStream.              *)
(***************************************************************************)
EXTENDS RecvFlow, SequenceTheorems, FunctionTheorems, FiniteSetTheorems, TLAPS

-----------------------------------------------------------------------------
(* Chains of chunks, whatever else a chunk holds.                          *)

Chunk(S) == \A c \in S : c.from \in Nat /\ c.size \in Nat

LEMMA ChainAppend ==
    ASSUME NEW S, Chunk(S), NEW seq \in Seq(S), NEW c \in S,
           NEW a \in Nat, Contiguous(seq, a, c.from)
    PROVE  Contiguous(Append(seq, c), a, EndOf(c))
<1>1. /\ Len(seq) \in Nat
      /\ Len(Append(seq, c)) = Len(seq) + 1
      /\ \A i \in 1 .. Len(seq) : Append(seq, c)[i] = seq[i]
      /\ Append(seq, c)[Len(seq) + 1] = c
      /\ Append(seq, c) # <<>>
      /\ seq = <<>> <=> Len(seq) = 0
    OBVIOUS
<1>2. \A i \in 1 .. Len(seq) : seq[i].from \in Nat /\ seq[i].size \in Nat
    BY ElementOfSeq DEF Chunk
<1>3. Append(seq, c)[1].from = a
    BY <1>1, <1>2 DEF Contiguous
<1>4. ASSUME NEW i \in 1 .. Len(seq)
      PROVE  EndOf(Append(seq, c)[i]) = Append(seq, c)[i + 1].from
    <2>1. CASE i = Len(seq)
        BY <1>1, <2>1 DEF Contiguous
    <2>2. CASE i < Len(seq)
        BY <1>1, <2>2 DEF Contiguous
    <2> QED BY <1>1, <2>1, <2>2
<1> QED
    BY <1>1, <1>3, <1>4 DEF Contiguous

LEMMA ChainTail ==
    ASSUME NEW S, Chunk(S), NEW seq \in Seq(S), seq # <<>>,
           NEW a \in Nat, NEW b \in Nat, Contiguous(seq, a, b)
    PROVE  /\ Head(seq) \in S /\ Head(seq).from = a
           /\ Contiguous(Tail(seq), EndOf(Head(seq)), b)
           /\ Tail(seq) = <<>> => EndOf(Head(seq)) = b
           /\ Tail(seq) # <<>> => Tail(seq)[1].from = EndOf(Head(seq))
<1>1. /\ Len(seq) \in Nat \ {0} /\ Head(seq) = seq[1] /\ Head(seq) \in S
      /\ Tail(seq) \in Seq(S)
      /\ Len(Tail(seq)) = Len(seq) - 1
      /\ \A i \in 1 .. Len(Tail(seq)) : Tail(seq)[i] = seq[i + 1]
    BY HeadTailProperties, EmptySeq
<1>2. Tail(seq) = <<>> <=> Len(seq) = 1
    BY <1>1, EmptySeq
<1>3. Head(seq).from = a
    BY <1>1 DEF Contiguous
<1>4. CASE Len(seq) = 1
    <2>1. Tail(seq) = <<>> /\ EndOf(Head(seq)) = b
        BY <1>1, <1>2, <1>4 DEF Contiguous
    <2>2. Len(Tail(seq)) = 0
        BY <1>1, <1>4
    <2>3. Contiguous(Tail(seq), EndOf(Head(seq)), b)
        BY <2>1, <2>2 DEF Contiguous
    <2> QED
        BY <1>1, <1>3, <2>1, <2>3
<1>5. CASE Len(seq) > 1
    <2>1. Tail(seq)[1] = seq[2] /\ Tail(seq)[Len(Tail(seq))] = seq[Len(seq)]
        BY <1>1, <1>5
    <2>2. Tail(seq)[1].from = EndOf(Head(seq))
        BY <1>1, <1>5, <2>1 DEF Contiguous
    <2>3. ASSUME NEW i \in 1 .. Len(Tail(seq)) - 1
          PROVE  EndOf(Tail(seq)[i]) = Tail(seq)[i + 1].from
        BY <1>1, <1>5, <2>3 DEF Contiguous
    <2>4. EndOf(Tail(seq)[Len(Tail(seq))]) = b
        BY <2>1, <1>1 DEF Contiguous
    <2>5. Tail(seq) # <<>>
        BY <1>1, <1>2, <1>5
    <2>6. Contiguous(Tail(seq), EndOf(Head(seq)), b)
        BY <2>2, <2>3, <2>4, <2>5 DEF Contiguous
    <2> QED
        BY <1>1, <1>3, <2>2, <2>5, <2>6
<1> QED
    BY <1>1, <1>4, <1>5

LEMMA ChainCut ==
    ASSUME NEW seq \in Seq(Chunks), seq # <<>>,
           NEW a \in Nat, NEW b \in Nat, Contiguous(seq, a, b),
           NEW n \in Nat, n <= Head(seq).size
    PROVE  LET cut == [seq EXCEPT ![1] = [from |-> Head(seq).from + n,
                                          size |-> Head(seq).size - n]]
           IN  cut \in Seq(Chunks) /\ Contiguous(cut, a + n, b)
<1> DEFINE c == [from |-> Head(seq).from + n, size |-> Head(seq).size - n]
           cut == [seq EXCEPT ![1] = c]
<1>1. /\ Len(seq) \in Nat \ {0} /\ Head(seq) = seq[1] /\ Head(seq) \in Chunks
    BY HeadTailProperties, EmptySeq
<1>2. c \in Chunks /\ EndOf(c) = EndOf(seq[1]) /\ c.from = seq[1].from + n
    BY <1>1 DEF Chunks, EndOf
<1>3. /\ cut \in Seq(Chunks) /\ Len(cut) = Len(seq)
      /\ \A i \in 1 .. Len(seq) : cut[i] = IF i = 1 THEN c ELSE seq[i]
    <2> HIDE DEF c
    <2> QED BY <1>1, <1>2, ExceptSeq
<1>4. \A i \in 1 .. Len(seq) : EndOf(cut[i]) = EndOf(seq[i])
    BY <1>2, <1>3
<1>5. \A i \in 2 .. Len(seq) : cut[i].from = seq[i].from
    BY <1>1, <1>3
<1>6. cut[1].from = a + n
    BY <1>1, <1>2, <1>3 DEF Contiguous
<1>7. cut # <<>>
    BY <1>1, <1>3, EmptySeq
<1>8. \A i \in 1 .. Len(cut) - 1 : EndOf(cut[i]) = cut[i + 1].from
    BY <1>1, <1>3, <1>4, <1>5 DEF Contiguous
<1>9. EndOf(cut[Len(cut)]) = b
    BY <1>1, <1>3, <1>4 DEF Contiguous
<1> HIDE DEF cut
<1>10. cut \in Seq(Chunks) /\ Contiguous(cut, a + n, b)
    BY <1>3, <1>6, <1>7, <1>8, <1>9 DEF Contiguous
<1> QED
    BY <1>10 DEF cut, c

-----------------------------------------------------------------------------
(* Type correctness.                                                       *)

LEMMA InitTypeOK == Init => TypeOK
<1> SUFFICES ASSUME Init PROVE TypeOK
    OBVIOUS
<1>1. \A s \in Streams : queue[s] = <<>> /\ acked[s] = <<>>
    BY DEF Init
<1>2. queue \in [Streams -> Seq(Queued)] /\ acked \in [Streams -> Seq(Chunks)]
    BY <1>1, EmptySeq DEF Init
<1>3. open \in [Windows -> Nat] /\ \A w \in Windows : open[w] <= Limit[w]
    BY RecvAssumption DEF Init
<1> QED
    BY <1>2, <1>3 DEF Init, TypeOK, Places

(* Credit keeps every window between zero and its limit. *)
LEMMA CreditType ==
    ASSUME processed \in [Windows -> Nat],
           NEW s \in Streams, NEW n \in Nat, NEW space \in [Windows -> Nat],
           \A w \in Windows : space[w] <= Limit[w],
           Credit(s, n, space)
    PROVE  /\ open' \in [Windows -> Nat] /\ \A w \in Windows : open'[w] <= Limit[w]
           /\ processed' \in [Windows -> Nat]
<1> DEFINE due == [w \in Windows |->
                     IF w \in {s, Conn} THEN processed[w] + n ELSE processed[w]]
           tell == {w \in {s, Conn} : Announces(w, space[w], due[w])}
<1>1. due \in [Windows -> Nat]
    OBVIOUS
<1>2. /\ open' = [w \in Windows |->
                    IF w \in tell
                    THEN space[w] + Least(due[w], Limit[w] - space[w])
                    ELSE space[w]]
      /\ processed' = [w \in Windows |-> IF w \in tell THEN 0 ELSE due[w]]
    BY DEF Credit
<1> HIDE DEF due, tell
<1>3. ASSUME NEW w \in Windows
      PROVE  /\ Least(due[w], Limit[w] - space[w]) \in Nat
             /\ space[w] + Least(due[w], Limit[w] - space[w]) <= Limit[w]
    BY <1>1, RecvAssumption DEF Least
<1> QED
    BY <1>1, <1>2, <1>3

LEMMA AckType ==
    ASSUME TypeOK, NEW s \in Streams, NEW n \in Nat, Ack(s, n)
    PROVE  /\ open' \in [Windows -> Nat] /\ \A w \in Windows : open'[w] <= Limit[w]
           /\ processed' \in [Windows -> Nat]
BY CreditType DEF Ack, TypeOK, windowVars

LEMMA DataReceivedType ==
    ASSUME TypeOK, NEW s \in Streams, NEW n \in 0 .. Total[s], NEW pad \in Padding,
           NEW last \in BOOLEAN, DataReceived(s, n, pad, last)
    PROVE  TypeOK'
<1> DEFINE flow  == IF n = 0 THEN 0 ELSE n + pad
           space == Spent(s, flow)
           chunk == [from |-> received[s], size |-> n, ack |-> flow]
           one   == Append(queue[s], chunk)
           new   == IF last THEN Append(one, Eof(received[s] + n)) ELSE one
<1>1. n \in Nat /\ pad \in Nat /\ flow \in Nat /\ received[s] \in Nat
    BY RecvAssumption DEF TypeOK
<1>2. space \in [Windows -> Nat] /\ \A w \in Windows : space[w] <= Limit[w]
    <2>1. s \in Windows /\ Conn \in Windows /\ s # Conn
        BY RecvAssumption DEF Windows
    <2>2. /\ open[s] \in Nat /\ open[Conn] \in Nat
          /\ flow <= open[s] /\ flow <= open[Conn]
        BY <2>1 DEF TypeOK, DataReceived
    <2>3. ASSUME NEW w \in Windows
          PROVE  LET left == IF w \in {s, Conn} THEN open[w] - flow ELSE open[w]
                 IN  left \in Nat /\ left <= Limit[w]
        <3> HIDE DEF flow
        <3>1. open[w] \in Nat /\ Limit[w] \in Nat /\ open[w] <= Limit[w]
            BY RecvAssumption DEF TypeOK
        <3> QED BY <1>1, <2>2, <3>1
    <2> HIDE DEF flow
    <2> QED BY <2>3 DEF Spent
<1>3. chunk \in Queued /\ Eof(received[s] + n) \in Queued
    BY <1>1 DEF Queued, Eof
<1>4. new \in Seq(Queued)
    BY <1>3 DEF TypeOK
<1>5. queue' \in [Streams -> Seq(Queued)]
    <2>2. CASE registered[s]
        <3>1. queue' = [queue EXCEPT ![s] = new]
            BY <2>2 DEF DataReceived
        <3> QED BY <1>4, <3>1 DEF TypeOK
    <2>3. CASE ~registered[s]
        BY <2>3 DEF DataReceived, TypeOK
    <2> QED BY <2>2, <2>3
<1>6. /\ open' \in [Windows -> Nat] /\ \A w \in Windows : open'[w] <= Limit[w]
      /\ processed' \in [Windows -> Nat]
    <2>1. processed \in [Windows -> Nat]
        BY DEF TypeOK
    <2>2. CASE registered[s]
        BY <1>2, <2>1, <2>2 DEF DataReceived
    <2>3. CASE ~registered[s] /\ flow > 0
        <3>1. Credit(s, flow, space)
            BY <2>3 DEF DataReceived
        <3> QED BY <1>1, <1>2, <2>1, <3>1, CreditType
    <2>4. CASE ~registered[s] /\ ~(flow > 0)
        BY <2>4 DEF DataReceived, windowVars, TypeOK
    <2> QED BY <2>2, <2>3, <2>4
<1>7. received' \in [Streams -> Nat] /\ ended' \in [Streams -> BOOLEAN]
    <2>1. /\ received' = [received EXCEPT ![s] = @ + n]
          /\ ended' = [ended EXCEPT ![s] = last]
        BY DEF DataReceived
    <2> QED BY <1>1, <2>1 DEF TypeOK
<1>8. UNCHANGED <<readerVars, acked, ackedSize, registered, closing>>
    BY DEF DataReceived
<1> HIDE DEF flow, space, chunk, one, new
<1> QED
    BY <1>5, <1>6, <1>7, <1>8 DEF TypeOK, readerVars, Places

LEMMA SizesType ==
    /\ \A n \in Sizes : n \in Nat /\ n > 0
    /\ \A n \in Sizes \cup {0} : n \in Nat
<1>1. Sizes \subseteq Nat \ {0}
    BY RecvAssumption
<1> QED
    BY <1>1

LEMMA AckedEndType ==
    ASSUME TypeOK, NEW s \in Streams
    PROVE  AckedEnd(s) \in Nat
<1>1. queue[s] \in Seq(Queued) /\ received[s] \in Nat
    BY DEF TypeOK
<1>2. CASE queue[s] # <<>>
    <2>1. 1 \in 1 .. Len(queue[s])
        BY <1>1, <1>2, EmptySeq
    <2>2. queue[s][1] \in Queued
        BY <1>1, <2>1, ElementOfSeq
    <2> QED BY <1>2, <2>2 DEF AckedEnd, Queued
<1> QED
    BY <1>1, <1>2 DEF AckedEnd

LEMMA ChunkTypes == Chunk(Chunks) /\ Chunk(Queued)
BY DEF Chunk, Chunks, Queued

(* What a turn of the loop in read() collects is there, and is what comes
   next. *)
LEMMA TakeFacts ==
    ASSUME TypeOK, RecvInv, NEW s \in Streams, Take(s)
    PROVE  \E n \in Nat, rest \in Seq(Chunks) :
              /\ n <= want[s] - gathered
              /\ acked' = [acked EXCEPT ![s] = rest]
              /\ pos' = [pos EXCEPT ![s] = @ + n]
              /\ Contiguous(rest, pos[s] + n, AckedEnd(s))
              /\ \/ /\ gathered + n = want[s]
                    /\ ackedSize' = [ackedSize EXCEPT ![s] = @ - want[s]]
                    /\ Leaves(s, "idle")
                 \/ /\ gathered + n < want[s]
                    /\ gathered' = gathered + n
                    /\ UNCHANGED <<ackedSize, pc, running, want>>
<1> DEFINE first == Head(acked[s])
           n == Least(first.size, want[s] - gathered)
<1>1. /\ pc[s] = "take" /\ registered[s]
      /\ gathered < want[s] /\ want[s] <= ackedSize[s]
    BY DEF RecvInv, ReadsInHand, ReleasedOnce, Take
<1>2. /\ gathered \in Nat /\ want[s] \in Nat /\ ackedSize[s] \in Nat
      /\ pos[s] \in Nat /\ acked[s] \in Seq(Chunks) /\ AckedEnd(s) \in Nat
    <2>1. AckedEnd(s) \in Nat
        BY AckedEndType
    <2>2. want[s] \in Sizes \cup {0}
        BY DEF TypeOK
    <2>3. want[s] \in Nat
        BY <2>2, SizesType
    <2> QED BY <2>1, <2>3 DEF TypeOK
<1>3. Contiguous(acked[s], pos[s], AckedEnd(s))
    BY <1>1 DEF RecvInv, BytesInOrder
<1>4. acked[s] # <<>>
    <2>1. ackedSize[s] = AckedEnd(s) - pos[s] + gathered
        BY <1>1 DEF RecvInv, AckedSizeExact
    <2>2. pos[s] # AckedEnd(s)
        BY <1>1, <1>2, <2>1
    <2> QED BY <1>3, <2>2 DEF Contiguous
<1>5. /\ first \in Chunks /\ first.from = pos[s]
      /\ Contiguous(Tail(acked[s]), EndOf(first), AckedEnd(s))
      /\ Tail(acked[s]) \in Seq(Chunks)
    BY <1>2, <1>3, <1>4, ChainTail, ChunkTypes, HeadTailProperties
<1>6. first.size \in Nat /\ EndOf(first) = pos[s] + first.size
    BY <1>5 DEF Chunks, EndOf
<1>7. n \in Nat /\ n <= first.size /\ n <= want[s] - gathered
    BY <1>1, <1>2, <1>6 DEF Least
<1> HIDE DEF n
<1>8. \E rest \in Seq(Chunks) :
          Cut(s, n) = [acked EXCEPT ![s] = rest] /\ Contiguous(rest, pos[s] + n, AckedEnd(s))
    <2>1. CASE n = first.size
        <3>1. Cut(s, n) = [acked EXCEPT ![s] = Tail(acked[s])]
            BY <2>1 DEF Cut
        <3> QED BY <1>5, <1>6, <2>1, <3>1
    <2>2. CASE n # first.size
        <3> DEFINE c == [from |-> first.from + n, size |-> first.size - n]
                   cut == [acked[s] EXCEPT ![1] = c]
        <3>1. Cut(s, n) = [acked EXCEPT ![s] = cut]
            BY <2>2 DEF Cut
        <3>2. cut \in Seq(Chunks) /\ Contiguous(cut, pos[s] + n, AckedEnd(s))
            BY <1>2, <1>3, <1>4, <1>7, ChainCut
        <3> QED BY <3>1, <3>2
    <2> QED BY <2>1, <2>2
<1>9. /\ acked' = Cut(s, n)
      /\ pos' = [pos EXCEPT ![s] = @ + n]
      /\ IF gathered + n = want[s]
         THEN /\ ackedSize' = [ackedSize EXCEPT ![s] = @ - want[s]]
              /\ Leaves(s, "idle")
         ELSE /\ gathered' = gathered + n
              /\ UNCHANGED <<ackedSize, pc, running, want>>
    BY DEF Take, n
<1>10. gathered + n = want[s] \/ gathered + n < want[s]
    BY <1>2, <1>7
<1> QED
    BY <1>7, <1>8, <1>9, <1>10

(* What a turn of the loop over the queue takes out. *)
LEMMA HeadFacts ==
    ASSUME TypeOK, NEW s \in Streams, queue[s] # <<>>
    PROVE  /\ Head(queue[s]) \in Queued /\ Tail(queue[s]) \in Seq(Queued)
           /\ Head(queue[s]).ack \in Nat /\ Head(queue[s]).size \in Nat
<1>1. queue[s] \in Seq(Queued)
    BY DEF TypeOK
<1>2. Head(queue[s]) \in Queued /\ Tail(queue[s]) \in Seq(Queued)
    BY <1>1, HeadTailProperties
<1> QED
    BY <1>2 DEF Queued

LEMMA GetType ==
    ASSUME TypeOK, NEW s \in Streams, Get(s)
    PROVE  TypeOK'
<1> DEFINE next == Head(queue[s])
           c == [from |-> next.from, size |-> next.size]
<1>1. /\ next \in Queued /\ Tail(queue[s]) \in Seq(Queued) /\ next.ack \in Nat
      /\ c \in Chunks /\ next.size \in Nat
    BY HeadFacts DEF Get, Queued, Chunks
<1>2. queue' = [queue EXCEPT ![s] = Tail(@)]
      /\ UNCHANGED <<running, want, gathered, owed, pos, ended, received,
                     registered, closing>>
    BY DEF Get
<1>3. CASE next.ack = 0
    <2>1. Goto(s, "check") /\ UNCHANGED <<acked, ackedSize, windowVars>>
        BY <1>3 DEF Get
    <2> QED BY <1>1, <1>2, <2>1 DEF TypeOK, Goto, Places, windowVars
<1>4. CASE next.ack # 0
    <2>1. /\ acked' = [acked EXCEPT ![s] = Append(@, c)]
          /\ ackedSize' = [ackedSize EXCEPT ![s] = @ + next.size]
          /\ Ack(s, next.ack) /\ UNCHANGED pc
        BY <1>4 DEF Get
    <2>2. /\ open' \in [Windows -> Nat] /\ \A w \in Windows : open'[w] <= Limit[w]
          /\ processed' \in [Windows -> Nat]
        BY <1>1, <2>1, AckType
    <2>3. acked' \in [Streams -> Seq(Chunks)]
        <3> HIDE DEF c
        <3>1. Append(acked[s], c) \in Seq(Chunks)
            BY <1>1 DEF TypeOK
        <3> QED BY <2>1, <3>1 DEF TypeOK
    <2>4. ackedSize' \in [Streams -> Nat]
        BY <1>1, <2>1 DEF TypeOK
    <2> QED BY <1>1, <1>2, <2>1, <2>2, <2>3, <2>4 DEF TypeOK
<1> QED
    BY <1>3, <1>4

LEMMA LeavesType ==
    ASSUME TypeOK, NEW s \in Streams, NEW place \in Places, Leaves(s, place)
    PROVE  /\ pc' \in [Streams -> Places]
           /\ running' \in Streams \cup {Nobody}
           /\ want' \in [Streams -> Sizes \cup {0}]
           /\ gathered' \in Nat
BY DEF TypeOK, Leaves, Goto

LEMMA NextTypeOK == TypeOK /\ RecvInv /\ [Next]_vars => TypeOK'
<1> SUFFICES ASSUME TypeOK, RecvInv, [Next]_vars PROVE TypeOK'
    OBVIOUS
<1> USE DEF Goto, Leaves, Places, readerVars, bufferVars, windowVars
<1>1. ASSUME NEW s \in Streams, NEW n \in 0 .. Total[s], NEW pad \in Padding,
             NEW last \in BOOLEAN, DataReceived(s, n, pad, last)
      PROVE  TypeOK'
    BY <1>1, DataReceivedType
<1>2. ASSUME NEW s \in Streams, StreamEnded(s) PROVE TypeOK'
    <2>1. Eof(received[s]) \in Queued
        BY DEF TypeOK, Eof, Queued
    <2>2. Append(queue[s], Eof(received[s])) \in Seq(Queued)
        BY <2>1 DEF TypeOK
    <2> QED BY <1>2, <2>2 DEF TypeOK, StreamEnded
<1>3. ASSUME NEW s \in Streams, NEW n \in Sizes, Read(s, n) PROVE TypeOK'
    BY <1>3 DEF TypeOK, Read
<1>4. ASSUME NEW s \in Streams, Get(s) PROVE TypeOK'
    BY <1>4, GetType
<1>5. ASSUME NEW s \in Streams, Wait(s) \/ Resume(s) PROVE TypeOK'
    BY <1>5 DEF TypeOK, Wait, Resume
<1>6. ASSUME NEW s \in Streams, Check(s) PROVE TypeOK'
    <2>1. /\ \/ Leaves(s, "left") \/ Leaves(s, "idle") \/ Leaves(s, "failed")
             \/ Goto(s, "take") /\ UNCHANGED <<running, want, gathered>>
          /\ UNCHANGED <<owed, pos, bufferVars, windowVars, closing>>
        BY <1>6 DEF Check
    <2>2. CASE Leaves(s, "left") \/ Leaves(s, "idle") \/ Leaves(s, "failed")
        <3>1. /\ pc' \in [Streams -> Places]
              /\ running' \in Streams \cup {Nobody}
              /\ want' \in [Streams -> Sizes \cup {0}]
              /\ gathered' \in Nat
            <4> HIDE DEF Leaves
            <4> QED BY <2>2, LeavesType
        <3> QED BY <2>1, <3>1 DEF TypeOK
    <2>3. CASE Goto(s, "take") /\ UNCHANGED <<running, want, gathered>>
        BY <2>1, <2>3 DEF TypeOK
    <2> QED BY <2>1, <2>2, <2>3
<1>7. ASSUME NEW s \in Streams, Take(s) PROVE TypeOK'
    <2>1. PICK n \in Nat, rest \in Seq(Chunks) :
              /\ acked' = [acked EXCEPT ![s] = rest]
              /\ pos' = [pos EXCEPT ![s] = @ + n]
              /\ \/ /\ ackedSize' = [ackedSize EXCEPT ![s] = @ - want[s]]
                    /\ Leaves(s, "idle")
                 \/ /\ gathered' = gathered + n
                    /\ UNCHANGED <<ackedSize, pc, running, want>>
        BY <1>7, TakeFacts
    <2>2. /\ UNCHANGED <<owed, queue, ended, received, registered, windowVars, closing>>
          /\ want[s] <= ackedSize[s]
        BY <1>7 DEF Take, RecvInv, ReadsInHand
    <2>3. want[s] \in Nat
        <3>1. want[s] \in Sizes \cup {0}
            BY DEF TypeOK
        <3> QED BY <3>1, SizesType
    <2>4. ackedSize[s] - want[s] \in Nat
        BY <2>2, <2>3 DEF TypeOK
    <2>5. acked' \in [Streams -> Seq(Chunks)] /\ pos' \in [Streams -> Nat]
        BY <2>1 DEF TypeOK
    <2>6. CASE /\ ackedSize' = [ackedSize EXCEPT ![s] = @ - want[s]]
               /\ Leaves(s, "idle")
        <3>1. /\ pc' \in [Streams -> Places]
              /\ running' \in Streams \cup {Nobody}
              /\ want' \in [Streams -> Sizes \cup {0}]
              /\ gathered' \in Nat
            <4> HIDE DEF Leaves
            <4> QED BY <2>6, LeavesType
        <3>2. ackedSize' \in [Streams -> Nat]
            BY <2>4, <2>6 DEF TypeOK
        <3> QED BY <2>2, <2>5, <3>1, <3>2 DEF TypeOK
    <2>7. CASE gathered' = gathered + n /\ UNCHANGED <<ackedSize, pc, running, want>>
        <3>1. gathered' \in Nat
            BY <2>7 DEF TypeOK
        <3>2. UNCHANGED <<ackedSize, pc, running, want>>
            BY <2>7
        <3> QED BY <2>2, <2>5, <3>1, <3>2 DEF TypeOK
    <2> QED BY <2>1, <2>6, <2>7
<1>8. ASSUME NEW s \in Streams, Leave(s) PROVE TypeOK'
    BY <1>8 DEF TypeOK, Leave
<1>9. ASSUME NEW s \in Streams, Release(s) PROVE TypeOK'
    BY <1>9 DEF TypeOK, Release
<1>10. ASSUME NEW s \in Streams, Drain(s) PROVE TypeOK'
    <2>1. /\ queue' = [queue EXCEPT ![s] = Tail(@)]
          /\ owed' = owed + Head(queue[s]).ack
          /\ UNCHANGED <<pc, running, want, gathered, pos, acked, ackedSize, ended,
                         received, registered, windowVars, closing>>
        BY <1>10 DEF Drain
    <2>2. Tail(queue[s]) \in Seq(Queued) /\ Head(queue[s]).ack \in Nat
        BY <1>10, HeadFacts DEF Drain
    <2>3. queue' \in [Streams -> Seq(Queued)] /\ owed' \in Nat
        BY <2>1, <2>2 DEF TypeOK
    <2> QED BY <2>1, <2>3 DEF TypeOK
<1>11. ASSUME NEW s \in Streams, Drained(s) PROVE TypeOK'
    <2>1. Ack(s, owed) /\ owed \in Nat
        BY <1>11 DEF Drained, TypeOK
    <2>2. /\ open' \in [Windows -> Nat] /\ \A w \in Windows : open'[w] <= Limit[w]
          /\ processed' \in [Windows -> Nat]
        BY <2>1, AckType
    <2> QED BY <1>11, <2>2 DEF TypeOK, Drained
<1>12. CASE ConnectionLost
    BY <1>12 DEF TypeOK, ConnectionLost
<1>13. CASE UNCHANGED vars
    BY <1>13 DEF TypeOK, vars
<1> QED
    BY <1>1, <1>2, <1>3, <1>4, <1>5, <1>6, <1>7, <1>8, <1>9, <1>10, <1>11, <1>12, <1>13
    DEF Next, Callback

-----------------------------------------------------------------------------
(* Control: who runs, what a read has in hand, what is registered.         *)

Control == OneRuns /\ ReadsInHand /\ ReleasedOnce

LEMMA NextControl == TypeOK /\ RecvInv /\ [Next]_vars => Control'
<1> SUFFICES ASSUME TypeOK, RecvInv, [Next]_vars PROVE Control'
    OBVIOUS
<1>1. /\ \A s \in Streams : pc[s] \in Busy <=> running = s
      /\ \A s \in Streams : pc[s] \in Reading => want[s] \in Sizes
      /\ \A s \in Streams : pc[s] = "take" => gathered < want[s] /\ want[s] <= ackedSize[s]
      /\ (\A s \in Streams : pc[s] # "take") => gathered = 0
      /\ \A s \in Streams : registered[s] <=> pc[s] \notin {"drain", "gone"}
    BY DEF RecvInv, OneRuns, ReadsInHand, ReleasedOnce
<1>2. /\ pc \in [Streams -> Places] /\ want \in [Streams -> Sizes \cup {0}]
      /\ ackedSize \in [Streams -> Nat] /\ registered \in [Streams -> BOOLEAN]
      /\ Nobody \notin Streams /\ gathered \in Nat
    BY RecvAssumption DEF TypeOK
<1>3. running = Nobody => gathered = 0
    BY <1>1, <1>2 DEF Busy
<1> USE <1>1, <1>2 DEF Control, OneRuns, ReadsInHand, ReleasedOnce, Busy, Reading,
        Goto, Leaves, readerVars, bufferVars
<1>4. ASSUME UNCHANGED <<readerVars, ackedSize, registered>> PROVE Control'
    BY <1>4
<1>5. ASSUME NEW s \in Streams, NEW n \in 0 .. Total[s], NEW pad \in Padding,
             NEW last \in BOOLEAN, DataReceived(s, n, pad, last)
      PROVE  Control'
    <2>1. UNCHANGED <<readerVars, ackedSize, registered>>
        BY <1>5 DEF DataReceived
    <2> QED BY <1>4, <2>1
<1>6. ASSUME NEW s \in Streams, StreamEnded(s) PROVE Control'
    <2>1. UNCHANGED <<readerVars, ackedSize, registered>>
        BY <1>6 DEF StreamEnded
    <2> QED BY <1>4, <2>1
<1>7. ASSUME NEW s \in Streams, NEW n \in Sizes, Read(s, n) PROVE Control'
    BY <1>7 DEF Read
<1>8. ASSUME NEW s \in Streams, Get(s) PROVE Control'
    <2>1. /\ running = s /\ pc[s] = "get"
          /\ UNCHANGED <<running, want, gathered, registered>>
          /\ pc' = [pc EXCEPT ![s] = "check"] \/ pc' = pc
          /\ \A t \in Streams : t # s => ackedSize'[t] = ackedSize[t]
        BY <1>8 DEF Get
    <2> QED BY <2>1
<1>9. ASSUME NEW s \in Streams, Wait(s) PROVE Control'
    BY <1>9 DEF Wait
<1>10. ASSUME NEW s \in Streams, Resume(s) PROVE Control'
    BY <1>10 DEF Resume
<1>11. ASSUME NEW s \in Streams, Check(s) PROVE Control'
    <2>1. /\ running = s /\ pc[s] \in {"get", "check", "over"}
          /\ UNCHANGED <<ackedSize, registered>>
        BY <1>11 DEF Check
    <2>2. gathered = 0
        BY <2>1
    <2>3. CASE \E place \in {"left", "idle", "failed"} : Leaves(s, place)
        BY <2>1, <2>3
    <2>4. CASE /\ ackedSize[s] > 0 /\ ackedSize[s] >= want[s]
               /\ Goto(s, "take") /\ UNCHANGED <<running, want, gathered>>
        <3>1. want[s] \in Nat /\ want[s] > 0
            BY <2>1, SizesType
        <3> QED BY <2>1, <2>2, <2>4, <3>1
    <2> QED BY <1>11, <2>3, <2>4 DEF Check
<1>12. ASSUME NEW s \in Streams, Take(s) PROVE Control'
    <2>1. PICK n \in Nat :
              \/ /\ ackedSize' = [ackedSize EXCEPT ![s] = @ - want[s]]
                 /\ Leaves(s, "idle")
              \/ /\ gathered + n < want[s]
                 /\ gathered' = gathered + n
                 /\ UNCHANGED <<ackedSize, pc, running, want>>
        BY <1>12, TakeFacts
    <2>2. running = s /\ pc[s] = "take" /\ UNCHANGED registered
        BY <1>12 DEF Take
    <2>3. CASE /\ ackedSize' = [ackedSize EXCEPT ![s] = @ - want[s]]
               /\ Leaves(s, "idle")
        BY <2>2, <2>3
    <2>4. CASE /\ gathered + n < want[s]
               /\ gathered' = gathered + n
               /\ UNCHANGED <<ackedSize, pc, running, want>>
        BY <2>2, <2>4
    <2> QED BY <2>1, <2>3, <2>4
<1>13. ASSUME NEW s \in Streams, Leave(s) PROVE Control'
    BY <1>13 DEF Leave
<1>14. ASSUME NEW s \in Streams, Release(s) PROVE Control'
    BY <1>3, <1>14 DEF Release
<1>15. ASSUME NEW s \in Streams, Drain(s) PROVE Control'
    BY <1>15 DEF Drain
<1>16. ASSUME NEW s \in Streams, Drained(s) PROVE Control'
    <2>1. /\ running = s /\ running' = Nobody /\ pc[s] = "drain" /\ Goto(s, "gone")
          /\ UNCHANGED <<want, gathered, ackedSize, registered>>
        BY <1>16 DEF Drained
    <2> QED BY <2>1
<1>17. CASE ConnectionLost
    BY <1>3, <1>17 DEF ConnectionLost
<1>18. CASE UNCHANGED vars
    BY <1>4, <1>18 DEF vars
<1> QED
    BY <1>5, <1>6, <1>7, <1>8, <1>9, <1>10, <1>11, <1>12, <1>13, <1>14, <1>15, <1>16,
       <1>17, <1>18
    DEF Next, Callback

-----------------------------------------------------------------------------
(* The queue: where its end is, what it credits, and that it goes on where *)
(* the bytes before it stop.                                               *)

QueueFacts == EndIsLast /\ CreditCovers /\ BytesInOrder /\ AckedSizeExact

(* The queue facts of one stream, with the bytes that a read has in hand. *)
StreamFacts(s, hand) ==
    /\ \A i \in 1 .. Len(queue[s]) : queue[s][i].size <= queue[s][i].ack
    /\ registered[s] =>
          /\ Contiguous(acked[s], pos[s], AckedEnd(s))
          /\ Contiguous(queue[s], AckedEnd(s), received[s])
          /\ ackedSize[s] = AckedEnd(s) - pos[s] + hand
          /\ ended[s] =>
                /\ queue[s] # <<>> => queue[s][Len(queue[s])].ack = 0
                /\ pc[s] \in {"get", "waiting"} => queue[s] # <<>>

InHand(s) == IF pc[s] = "take" THEN gathered ELSE 0

LEMMA QueueFactsEach ==
    QueueFacts <=> \A s \in Streams : StreamFacts(s, InHand(s))
BY DEF QueueFacts, StreamFacts, InHand, EndIsLast, CreditCovers, BytesInOrder,
       AckedSizeExact

(* A stream that a step leaves alone keeps its facts. *)
LEMMA Untouched ==
    ASSUME NEW s \in Streams, StreamFacts(s, InHand(s)),
           queue'[s] = queue[s], acked'[s] = acked[s], pos'[s] = pos[s],
           received'[s] = received[s], ackedSize'[s] = ackedSize[s],
           ended'[s] = ended[s],
           registered'[s] => registered[s],
           InHand(s)' = InHand(s),
           pc'[s] \in {"get", "waiting"} /\ ended[s] =>
               pc[s] \in {"get", "waiting"} \/ queue[s] # <<>>
    PROVE  StreamFacts(s, InHand(s))'
<1>1. AckedEnd(s)' = AckedEnd(s)
    BY DEF AckedEnd
<1> QED
    BY <1>1 DEF StreamFacts, Contiguous, EndOf

(* Taking the first chunk out of the queue. *)
LEMMA TailFacts ==
    ASSUME TypeOK, NEW s \in Streams, queue[s] # <<>>,
           \A i \in 1 .. Len(queue[s]) : queue[s][i].size <= queue[s][i].ack
    PROVE  LET rest == Tail(queue[s])
           IN  /\ \A i \in 1 .. Len(rest) : rest[i].size <= rest[i].ack
               /\ Head(queue[s]).size <= Head(queue[s]).ack
               /\ queue[s][Len(queue[s])].ack = 0 =>
                     /\ rest # <<>> => rest[Len(rest)].ack = 0
                     /\ Head(queue[s]).ack # 0 => rest # <<>>
<1> DEFINE rest == Tail(queue[s])
<1>1. queue[s] \in Seq(Queued)
    BY DEF TypeOK
<1>2. /\ Len(queue[s]) \in Nat \ {0} /\ Head(queue[s]) = queue[s][1]
      /\ Len(rest) = Len(queue[s]) - 1 /\ rest \in Seq(Queued)
      /\ \A i \in 1 .. Len(rest) : rest[i] = queue[s][i + 1]
    BY <1>1, HeadTailProperties, EmptySeq
<1> HIDE DEF rest
<1>3. rest # <<>> <=> Len(rest) # 0
    BY <1>2, EmptySeq
<1>4. \A i \in 1 .. Len(rest) : rest[i].size <= rest[i].ack
    BY <1>2
<1>5. Head(queue[s]).size <= Head(queue[s]).ack
    BY <1>2
<1>6. rest # <<>> => rest[Len(rest)] = queue[s][Len(queue[s])]
    BY <1>2, <1>3
<1>7. Len(queue[s]) # 1 => rest # <<>>
    <2>1. Len(queue[s]) # 1 => Len(queue[s]) - 1 # 0
        BY <1>2
    <2> QED BY <1>2, <1>3, <2>1
<1> QED
    BY <1>2, <1>4, <1>5, <1>6, <1>7 DEF rest

LEMMA GetQueue ==
    ASSUME TypeOK, RecvInv, NEW s \in Streams, Get(s), StreamFacts(s, 0)
    PROVE  StreamFacts(s, 0)'
<1> DEFINE next == Head(queue[s])
           rest == Tail(queue[s])
           c == [from |-> next.from, size |-> next.size]
<1>1. /\ queue[s] # <<>> /\ pc[s] = "get" /\ registered[s]
      /\ queue' = [queue EXCEPT ![s] = rest]
      /\ UNCHANGED <<pos, ended, received, registered>>
    BY DEF Get, RecvInv, ReleasedOnce
<1>2. /\ queue[s] \in Seq(Queued) /\ acked[s] \in Seq(Chunks)
      /\ pos[s] \in Nat /\ received[s] \in Nat /\ ackedSize[s] \in Nat
      /\ AckedEnd(s) \in Nat
      /\ next \in Queued /\ rest \in Seq(Queued)
      /\ queue \in [Streams -> Seq(Queued)] /\ acked \in [Streams -> Seq(Chunks)]
      /\ ackedSize \in [Streams -> Nat] /\ pc \in [Streams -> Places]
    <2>1. AckedEnd(s) \in Nat
        BY AckedEndType
    <2> QED BY <1>1, <2>1, HeadFacts DEF TypeOK
<1>3. /\ queue'[s] = rest /\ pos'[s] = pos[s] /\ ended'[s] = ended[s]
      /\ received'[s] = received[s] /\ registered'[s]
    BY <1>1, <1>2
<1>4. /\ next.from \in Nat /\ next.size \in Nat /\ next.ack \in Nat
      /\ c \in Chunks /\ EndOf(c) = EndOf(next) /\ c.from = next.from
      /\ EndOf(next) = next.from + next.size /\ EndOf(next) \in Nat
    <2>1. \A q \in Queued : q.from \in Nat /\ q.size \in Nat /\ q.ack \in Nat
        BY DEF Queued
    <2>2. next.from \in Nat /\ next.size \in Nat /\ next.ack \in Nat
        BY <1>2, <2>1
    <2>3. c \in Chunks /\ c.from = next.from /\ c.size = next.size
        BY <2>2 DEF Chunks
    <2> QED
        BY <2>2, <2>3 DEF EndOf
<1>5. /\ next.from = AckedEnd(s)
      /\ Contiguous(rest, EndOf(next), received[s])
      /\ rest = <<>> => EndOf(next) = received[s]
      /\ rest # <<>> => rest[1].from = EndOf(next)
    <2>1. Contiguous(queue[s], AckedEnd(s), received[s])
        BY <1>1 DEF StreamFacts
    <2>2. /\ queue[s] \in Seq(Queued) /\ queue[s] # <<>> /\ Chunk(Queued)
          /\ AckedEnd(s) \in Nat /\ received[s] \in Nat
        BY <1>1, <1>2, ChunkTypes
    <2> HIDE DEF c
    <2> QED BY <2>1, <2>2, ChainTail
<1>6. AckedEnd(s)' = EndOf(next)
    BY <1>3, <1>5 DEF AckedEnd
<1>7. /\ \A i \in 1 .. Len(rest) : rest[i].size <= rest[i].ack
      /\ next.size <= next.ack
      /\ ended[s] => /\ rest # <<>> => rest[Len(rest)].ack = 0
                     /\ next.ack # 0 => rest # <<>>
    BY <1>1, TailFacts DEF StreamFacts
<1>8. /\ Contiguous(acked[s], pos[s], AckedEnd(s))
      /\ ackedSize[s] = AckedEnd(s) - pos[s]
    BY <1>1, <1>2 DEF StreamFacts
<1>9. CASE next.ack = 0
    <2>1. acked'[s] = acked[s] /\ ackedSize'[s] = ackedSize[s] /\ pc'[s] = "check"
        BY <1>2, <1>9 DEF Get, Goto
    <2>2. EndOf(next) = AckedEnd(s)
        BY <1>4, <1>5, <1>7, <1>9
    <2> HIDE DEF next, rest, c
    <2>3. /\ Contiguous(acked[s], pos[s], EndOf(next))
          /\ ackedSize[s] = EndOf(next) - pos[s] + 0
        BY <1>2, <1>8, <2>2
    <2> QED BY <1>3, <1>5, <1>6, <1>7, <2>1, <2>3 DEF StreamFacts, Contiguous, EndOf
<1>10. CASE next.ack # 0
    <2>1. /\ acked' = [acked EXCEPT ![s] = Append(@, c)]
          /\ ackedSize' = [ackedSize EXCEPT ![s] = @ + next.size]
          /\ pc' = pc
        BY <1>10 DEF Get
    <2>2. /\ acked'[s] = Append(acked[s], c)
          /\ ackedSize'[s] = ackedSize[s] + next.size
        BY <1>2, <2>1
    <2> HIDE DEF next, rest, c
    <2>3. Contiguous(Append(acked[s], c), pos[s], EndOf(next))
        BY <1>2, <1>4, <1>5, <1>8, ChainAppend, ChunkTypes
    <2>4. ackedSize'[s] = EndOf(next) - pos[s] + 0
        BY <1>2, <1>4, <1>5, <1>8, <2>2
    <2> QED BY <1>3, <1>5, <1>6, <1>7, <1>10, <2>2, <2>3, <2>4
            DEF StreamFacts, Contiguous, EndOf
<1> QED
    BY <1>9, <1>10

LEMMA AppendShape ==
    ASSUME NEW S, NEW seq \in Seq(S), NEW c \in S
    PROVE  /\ Append(seq, c) \in Seq(S) /\ Len(Append(seq, c)) = Len(seq) + 1
           /\ Len(seq) \in Nat
           /\ \A i \in 1 .. Len(seq) : Append(seq, c)[i] = seq[i]
           /\ Append(seq, c)[Len(seq) + 1] = c /\ Append(seq, c) # <<>>
OBVIOUS

(* Adding a chunk, or the end, to the queue of a stream. *)
LEMMA AppendQueue ==
    ASSUME NEW q \in Seq(Queued), NEW c \in Queued, NEW a \in Nat,
           c.size <= c.ack,
           \A i \in 1 .. Len(q) : q[i].size <= q[i].ack,
           Contiguous(q, a, c.from)
    PROVE  /\ Append(q, c) \in Seq(Queued) /\ Append(q, c) # <<>>
           /\ Append(q, c)[Len(Append(q, c))] = c
           /\ \A i \in 1 .. Len(Append(q, c)) :
                 Append(q, c)[i].size <= Append(q, c)[i].ack
           /\ Contiguous(Append(q, c), a, EndOf(c))
           /\ Append(q, c)[1].from = a
<1>1. /\ Append(q, c) \in Seq(Queued) /\ Len(Append(q, c)) = Len(q) + 1
      /\ Len(q) \in Nat
      /\ \A i \in 1 .. Len(q) : Append(q, c)[i] = q[i]
      /\ Append(q, c)[Len(q) + 1] = c /\ Append(q, c) # <<>>
    BY AppendShape
<1>2. Contiguous(Append(q, c), a, EndOf(c))
    BY ChainAppend, ChunkTypes
<1> QED
    BY <1>1, <1>2 DEF Contiguous

LEMMA DataReceivedQueue ==
    ASSUME TypeOK, NEW s \in Streams, NEW n \in 0 .. Total[s], NEW pad \in Padding,
           NEW last \in BOOLEAN, DataReceived(s, n, pad, last), StreamFacts(s, InHand(s))
    PROVE  StreamFacts(s, InHand(s))'
<1> DEFINE q == queue[s]
           chunk == [from |-> received[s], size |-> n,
                     ack |-> IF n = 0 THEN 0 ELSE n + pad]
           eof == Eof(received[s] + n)
           a == AckedEnd(s)
           one == Append(q, chunk)
           two == Append(one, eof)
<1>1. /\ n \in Nat /\ pad \in Nat /\ q \in Seq(Queued) /\ received[s] \in Nat /\ a \in Nat
      /\ queue \in [Streams -> Seq(Queued)] /\ received \in [Streams -> Nat]
      /\ ended \in [Streams -> BOOLEAN]
    <2>1. a \in Nat
        BY AckedEndType
    <2> QED BY <2>1, RecvAssumption DEF TypeOK
<1>2. /\ received' = [received EXCEPT ![s] = @ + n]
      /\ ended' = [ended EXCEPT ![s] = last] /\ ~ended[s]
      /\ UNCHANGED <<readerVars, acked, ackedSize, registered, closing>>
    BY DEF DataReceived
<1>3. received'[s] = received[s] + n /\ (ended'[s] <=> last)
    BY <1>1, <1>2
<1>4. CASE ~registered[s]
    <2>1. queue' = queue /\ registered'[s] = registered[s]
        BY <1>2, <1>4 DEF DataReceived
    <2> QED BY <1>4, <2>1 DEF StreamFacts
<1>5. CASE registered[s]
    <2>1. queue' = [queue EXCEPT ![s] = IF last THEN two ELSE one]
        BY <1>5 DEF DataReceived
    <2>2. /\ chunk \in Queued /\ chunk.size <= chunk.ack /\ chunk.from = received[s]
          /\ EndOf(chunk) = received[s] + n
          /\ eof \in Queued /\ eof.size <= eof.ack /\ eof.ack = 0
          /\ eof.from = received[s] + n /\ EndOf(eof) = received[s] + n
        BY <1>1 DEF Queued, EndOf, Eof
    <2> HIDE DEF chunk, eof, q, a
    <2>3. queue'[s] = IF last THEN two ELSE one
        BY <1>1, <2>1
    <2>4. /\ \A i \in 1 .. Len(q) : q[i].size <= q[i].ack
          /\ Contiguous(q, a, received[s]) /\ Contiguous(q, a, chunk.from)
        BY <1>5, <2>2 DEF StreamFacts, q, a
    <2> HIDE DEF one, two
    <2>5. /\ one \in Seq(Queued) /\ one # <<>>
          /\ \A i \in 1 .. Len(one) : one[i].size <= one[i].ack
          /\ Contiguous(one, a, received[s] + n)
          /\ Contiguous(one, a, eof.from)
          /\ one[1].from = a
        <3>1. q \in Seq(Queued) /\ chunk \in Queued /\ a \in Nat
            BY <1>1, <2>2 DEF q, a
        <3>2. /\ one \in Seq(Queued) /\ one # <<>>
              /\ \A i \in 1 .. Len(one) : one[i].size <= one[i].ack
              /\ Contiguous(one, a, EndOf(chunk))
              /\ one[1].from = a
            BY <2>2, <2>4, <3>1, AppendQueue DEF one
        <3> QED BY <2>2, <3>2
    <2>6. /\ two \in Seq(Queued) /\ two # <<>> /\ two[Len(two)] = eof
          /\ \A i \in 1 .. Len(two) : two[i].size <= two[i].ack
          /\ Contiguous(two, a, received[s] + n)
          /\ two[1].from = a
        <3>1. a \in Nat /\ Contiguous(one, a, eof.from)
            BY <1>1, <2>2, <2>5 DEF a
        <3>2. /\ two \in Seq(Queued) /\ two # <<>> /\ two[Len(two)] = eof
              /\ \A i \in 1 .. Len(two) : two[i].size <= two[i].ack
              /\ Contiguous(two, a, EndOf(eof))
              /\ two[1].from = a
            BY <2>2, <2>5, <3>1, AppendQueue DEF two
        <3> QED BY <2>2, <3>2
    <2>7. /\ queue'[s] # <<>> /\ queue'[s][1].from = a
          /\ \A i \in 1 .. Len(queue'[s]) : queue'[s][i].size <= queue'[s][i].ack
          /\ Contiguous(queue'[s], a, received'[s])
          /\ last => queue'[s][Len(queue'[s])].ack = 0
        BY <1>3, <2>2, <2>3, <2>5, <2>6
    <2>8. AckedEnd(s)' = a
        BY <2>7 DEF AckedEnd
    <2>9. /\ acked' = acked /\ pos' = pos /\ ackedSize' = ackedSize /\ pc' = pc
          /\ InHand(s)' = InHand(s)
        BY <1>2 DEF readerVars, InHand
    <2>10. /\ Contiguous(acked[s], pos[s], a)
           /\ ackedSize[s] = a - pos[s] + InHand(s)
        BY <1>5 DEF StreamFacts, a
    <2> HIDE DEF InHand
    <2>11. /\ Contiguous(acked[s], pos[s], a)'
           /\ Contiguous(queue[s], a, received[s])'
        BY <2>7, <2>8, <2>9, <2>10 DEF Contiguous, EndOf, a
    <2>12. (ackedSize[s] = AckedEnd(s) - pos[s] + InHand(s))'
        BY <2>8, <2>9, <2>10
    <2> QED BY <1>3, <2>7, <2>8, <2>11, <2>12 DEF StreamFacts, a
<1> QED
    BY <1>4, <1>5

LEMMA StreamEndedQueue ==
    ASSUME TypeOK, NEW s \in Streams, StreamEnded(s), StreamFacts(s, InHand(s))
    PROVE  StreamFacts(s, InHand(s))'
<1> DEFINE q == queue[s]
           eof == Eof(received[s])
           a == AckedEnd(s)
           new == Append(q, eof)
<1>1. /\ q \in Seq(Queued) /\ received[s] \in Nat /\ a \in Nat
      /\ queue \in [Streams -> Seq(Queued)]
    <2>1. a \in Nat
        BY AckedEndType
    <2> QED BY <2>1 DEF TypeOK
<1>2. UNCHANGED <<readerVars, acked, ackedSize, received, registered>>
    BY DEF StreamEnded
<1>3. CASE ~registered[s]
    <2>1. queue' = queue /\ registered'[s] = registered[s]
        BY <1>2, <1>3 DEF StreamEnded
    <2> QED BY <1>3, <2>1 DEF StreamFacts
<1>4. CASE registered[s]
    <2>1. queue'[s] = new
        BY <1>1, <1>4 DEF StreamEnded
    <2>2. /\ eof \in Queued /\ eof.size <= eof.ack /\ eof.ack = 0
          /\ eof.from = received[s] /\ EndOf(eof) = received[s]
        BY <1>1 DEF Queued, EndOf, Eof
    <2> HIDE DEF eof, q, a
    <2>3. /\ \A i \in 1 .. Len(q) : q[i].size <= q[i].ack
          /\ Contiguous(q, a, eof.from)
        BY <1>4, <2>2 DEF StreamFacts, q, a
    <2> HIDE DEF new
    <2>4. /\ new \in Seq(Queued) /\ new # <<>> /\ new[Len(new)] = eof
          /\ \A i \in 1 .. Len(new) : new[i].size <= new[i].ack
          /\ Contiguous(new, a, EndOf(eof))
          /\ new[1].from = a
        BY <1>1, <2>2, <2>3, AppendQueue DEF new
    <2>5. AckedEnd(s)' = a
        BY <2>1, <2>4 DEF AckedEnd
    <2>6. /\ acked' = acked /\ pos' = pos /\ ackedSize' = ackedSize /\ pc' = pc
          /\ InHand(s)' = InHand(s) /\ received' = received
        BY <1>2 DEF readerVars, InHand
    <2>7. /\ Contiguous(acked[s], pos[s], a)
          /\ ackedSize[s] = a - pos[s] + InHand(s)
        BY <1>4 DEF StreamFacts, a
    <2> HIDE DEF InHand
    <2>8. /\ Contiguous(acked[s], pos[s], AckedEnd(s))'
          /\ Contiguous(queue[s], AckedEnd(s), received[s])'
        BY <2>1, <2>2, <2>4, <2>5, <2>6, <2>7 DEF Contiguous, EndOf
    <2>9. (ackedSize[s] = AckedEnd(s) - pos[s] + InHand(s))'
        BY <2>5, <2>6, <2>7
    <2> QED BY <2>1, <2>2, <2>4, <2>8, <2>9 DEF StreamFacts
<1> QED
    BY <1>3, <1>4

LEMMA TakeQueue ==
    ASSUME TypeOK, RecvInv, NEW s \in Streams, Take(s), StreamFacts(s, gathered)
    PROVE  StreamFacts(s, InHand(s))'
<1>1. PICK n \in Nat, rest \in Seq(Chunks) :
          /\ acked' = [acked EXCEPT ![s] = rest]
          /\ pos' = [pos EXCEPT ![s] = @ + n]
          /\ Contiguous(rest, pos[s] + n, AckedEnd(s))
          /\ \/ /\ gathered + n = want[s]
                /\ ackedSize' = [ackedSize EXCEPT ![s] = @ - want[s]]
                /\ Leaves(s, "idle")
             \/ /\ gathered' = gathered + n
                /\ UNCHANGED <<ackedSize, pc, running, want>>
    BY TakeFacts
<1>2. /\ pc[s] = "take" /\ registered[s]
      /\ UNCHANGED <<queue, ended, received, registered>>
    BY DEF Take, RecvInv, ReleasedOnce
<1>3. /\ acked'[s] = rest /\ pos'[s] = pos[s] + n
      /\ pos[s] \in Nat /\ ackedSize[s] \in Nat /\ gathered \in Nat
      /\ ackedSize \in [Streams -> Nat] /\ pc \in [Streams -> Places]
    BY <1>1 DEF TypeOK
<1>4. AckedEnd(s) \in Nat /\ AckedEnd(s)' = AckedEnd(s)
    <2>1. AckedEnd(s) \in Nat
        BY AckedEndType
    <2> QED BY <1>2, <2>1 DEF AckedEnd
<1>5. ackedSize[s] = AckedEnd(s) - pos[s] + gathered
    BY <1>2 DEF StreamFacts
<1>6. /\ (ackedSize[s] = AckedEnd(s) - pos[s] + InHand(s))'
      /\ pc'[s] \in {"idle", "take"}
    <2>1. CASE /\ gathered + n = want[s]
               /\ ackedSize' = [ackedSize EXCEPT ![s] = @ - want[s]]
               /\ Leaves(s, "idle")
        <3>1. ackedSize'[s] = ackedSize[s] - (gathered + n) /\ pc'[s] = "idle"
            BY <1>3, <2>1 DEF Leaves, Goto
        <3>2. InHand(s)' = 0
            BY <3>1 DEF InHand
        <3> QED BY <1>3, <1>4, <1>5, <3>1, <3>2
    <2>2. CASE gathered' = gathered + n /\ UNCHANGED <<ackedSize, pc, running, want>>
        <3>1. InHand(s)' = gathered + n
            BY <1>2, <2>2 DEF InHand
        <3> QED BY <1>2, <1>3, <1>4, <1>5, <2>2, <3>1
    <2> QED BY <1>1, <2>1, <2>2
<1>7. Contiguous(acked[s], pos[s], AckedEnd(s))'
    BY <1>1, <1>3, <1>4 DEF Contiguous, EndOf
<1>8. Contiguous(queue[s], AckedEnd(s), received[s])'
    BY <1>2, <1>4 DEF StreamFacts, Contiguous, EndOf
<1> HIDE DEF InHand
<1> QED
    BY <1>2, <1>6, <1>7, <1>8 DEF StreamFacts

LEMMA NextQueueFacts == TypeOK /\ RecvInv /\ [Next]_vars => QueueFacts'
<1> SUFFICES ASSUME TypeOK, RecvInv, [Next]_vars, NEW t \in Streams
             PROVE  StreamFacts(t, InHand(t))'
    BY DEF QueueFacts, StreamFacts, InHand, EndIsLast, CreditCovers, BytesInOrder,
           AckedSizeExact
<1>1. StreamFacts(t, InHand(t))
    BY QueueFactsEach DEF RecvInv, QueueFacts
<1>2. /\ pc[t] \in Busy <=> running = t
      /\ registered[t] <=> pc[t] \notin {"drain", "gone"}
      /\ (\A s \in Streams : pc[s] # "take") => gathered = 0
      /\ \A s \in Streams : pc[s] \in Busy <=> running = s
    BY DEF RecvInv, OneRuns, ReadsInHand, ReleasedOnce
<1>3. /\ pc \in [Streams -> Places] /\ queue \in [Streams -> Seq(Queued)]
      /\ acked \in [Streams -> Seq(Chunks)] /\ pos \in [Streams -> Nat]
      /\ ackedSize \in [Streams -> Nat] /\ received \in [Streams -> Nat]
      /\ ended \in [Streams -> BOOLEAN] /\ registered \in [Streams -> BOOLEAN]
      /\ Nobody \notin Streams
    BY RecvAssumption DEF TypeOK
<1> DEFINE Same(s) ==
      /\ queue'[s] = queue[s] /\ acked'[s] = acked[s] /\ pos'[s] = pos[s]
      /\ received'[s] = received[s] /\ ackedSize'[s] = ackedSize[s]
      /\ ended'[s] = ended[s] /\ (registered'[s] => registered[s])
<1>4. ASSUME Same(t), pc'[t] = pc[t], gathered' = gathered \/ pc[t] # "take"
      PROVE  StreamFacts(t, InHand(t))'
    BY <1>1, <1>4, Untouched DEF InHand
<1>5. ASSUME NEW s \in Streams, running = s, pc[s] \in Busy
      PROVE  t # s => pc[t] # "take"
    BY <1>2, <1>5 DEF Busy
<1> USE DEF Goto, Leaves, readerVars, bufferVars
<1>6. ASSUME NEW s \in Streams, NEW n \in 0 .. Total[s], NEW pad \in Padding,
             NEW last \in BOOLEAN, DataReceived(s, n, pad, last)
      PROVE  StreamFacts(t, InHand(t))'
    <2>1. CASE t = s
        BY <1>1, <1>6, <2>1, DataReceivedQueue
    <2>2. CASE t # s
        <3>1. /\ UNCHANGED <<readerVars, acked, ackedSize, registered>>
              /\ received' = [received EXCEPT ![s] = @ + n]
              /\ ended' = [ended EXCEPT ![s] = last]
              /\ \A u \in Streams : u # s => queue'[u] = queue[u]
            BY <1>3, <1>6 DEF DataReceived
        <3> QED BY <1>3, <1>4, <2>2, <3>1
    <2> QED BY <2>1, <2>2
<1>7. ASSUME NEW s \in Streams, StreamEnded(s)
      PROVE  StreamFacts(t, InHand(t))'
    <2>1. CASE t = s
        BY <1>1, <1>7, <2>1, StreamEndedQueue
    <2>2. CASE t # s
        <3>1. /\ UNCHANGED <<readerVars, acked, ackedSize, received, registered>>
              /\ ended' = [ended EXCEPT ![s] = TRUE]
              /\ \A u \in Streams : u # s => queue'[u] = queue[u]
            BY <1>3, <1>7 DEF StreamEnded
        <3> QED BY <1>3, <1>4, <2>2, <3>1
    <2> QED BY <2>1, <2>2
<1>8. ASSUME NEW s \in Streams, NEW n \in Sizes, Read(s, n)
      PROVE  StreamFacts(t, InHand(t))'
    BY <1>1, <1>3, <1>8, Untouched DEF Read, InHand
<1>9. ASSUME NEW s \in Streams, Get(s)
      PROVE  StreamFacts(t, InHand(t))'
    <2>1. /\ running = s /\ pc[s] = "get"
          /\ pc' = [pc EXCEPT ![s] = "check"] \/ pc' = pc
          /\ queue' = [queue EXCEPT ![s] = Tail(@)]
          /\ \A u \in Streams : u # s => acked'[u] = acked[u] /\ ackedSize'[u] = ackedSize[u]
          /\ UNCHANGED <<running, want, gathered, owed, pos, ended, received, registered>>
        BY <1>3, <1>9 DEF Get
    <2>2. CASE t = s
        <3>1. InHand(t) = 0 /\ InHand(t)' = 0
            BY <1>3, <2>1, <2>2 DEF InHand
        <3> HIDE DEF InHand
        <3>2. StreamFacts(t, 0)'
            BY <1>1, <1>9, <2>2, <3>1, GetQueue
        <3> QED BY <3>1, <3>2
    <2>3. CASE t # s
        BY <1>3, <1>4, <2>1, <2>3
    <2> QED BY <2>2, <2>3
<1>10. ASSUME NEW s \in Streams, Wait(s) \/ Resume(s)
       PROVE  StreamFacts(t, InHand(t))'
    BY <1>1, <1>3, <1>10, Untouched DEF Wait, Resume, InHand
<1>11. ASSUME NEW s \in Streams, Check(s)
       PROVE  StreamFacts(t, InHand(t))'
    <2>1. running = s /\ pc[s] \in {"get", "check", "over"} /\ UNCHANGED <<pos, bufferVars>>
        BY <1>11 DEF Check
    <2>2. /\ t # s => pc[t] # "take" /\ pc'[t] = pc[t]
          /\ t = s => pc'[t] \in {"left", "idle", "failed", "take"}
        BY <1>3, <1>5, <1>11, <2>1 DEF Check, Busy
    <2>3. gathered = 0
        BY <1>2, <2>1 DEF Busy
    <2>4. gathered' = 0
        BY <1>11, <2>3 DEF Check
    <2>5. InHand(t) = 0 /\ InHand(t)' = 0
        BY <2>3, <2>4 DEF InHand
    <2> HIDE DEF InHand
    <2> QED BY <1>1, <2>1, <2>2, <2>5, Untouched
<1>12. ASSUME NEW s \in Streams, Take(s)
       PROVE  StreamFacts(t, InHand(t))'
    <2>1. PICK n \in Nat, rest \in Seq(Chunks) :
              /\ acked' = [acked EXCEPT ![s] = rest]
              /\ pos' = [pos EXCEPT ![s] = @ + n]
              /\ \/ /\ ackedSize' = [ackedSize EXCEPT ![s] = @ - want[s]]
                    /\ Leaves(s, "idle")
                 \/ /\ gathered' = gathered + n
                    /\ UNCHANGED <<ackedSize, pc, running, want>>
        BY <1>12, TakeFacts
    <2>2. /\ running = s /\ pc[s] = "take"
          /\ UNCHANGED <<owed, queue, ended, received, registered>>
        BY <1>12 DEF Take
    <2>3. CASE t = s
        <3>1. InHand(t) = gathered
            BY <2>2, <2>3 DEF InHand
        <3> HIDE DEF InHand
        <3> QED BY <1>1, <1>12, <2>3, <3>1, TakeQueue
    <2>4. CASE t # s
        <3>1. Same(t) /\ pc'[t] = pc[t] /\ pc[t] # "take"
            BY <1>3, <1>5, <2>1, <2>2, <2>4 DEF Busy
        <3> QED BY <1>4, <3>1
    <2> QED BY <2>3, <2>4
<1>13. ASSUME NEW s \in Streams, Leave(s) \/ Release(s)
       PROVE  StreamFacts(t, InHand(t))'
    <2>1. /\ running = Nobody /\ pc[s] \notin Busy
          /\ UNCHANGED <<queue, acked, ackedSize, pos, ended, received>>
          /\ \A u \in Streams : registered'[u] => registered[u]
          /\ pc'[s] \in {"left", "gone", "drain"}
          /\ \A u \in Streams : u # s => pc'[u] = pc[u]
        BY <1>3, <1>13 DEF Leave, Release, Busy
    <2>2. pc[t] # "take" /\ (pc'[t] = pc[t] \/ pc'[t] \in {"left", "gone", "drain"})
        BY <1>2, <1>3, <2>1 DEF Busy
    <2>3. InHand(t) = 0 /\ InHand(t)' = 0
        BY <2>2 DEF InHand
    <2> HIDE DEF InHand
    <2> QED BY <1>1, <2>1, <2>2, <2>3, Untouched
<1>14. ASSUME NEW s \in Streams, Drain(s)
       PROVE  StreamFacts(t, InHand(t))'
    <2>1. /\ pc[s] = "drain" /\ queue[s] # <<>>
          /\ queue' = [queue EXCEPT ![s] = Tail(@)]
          /\ UNCHANGED <<pc, gathered, pos, acked, ackedSize, ended, received, registered>>
        BY <1>14 DEF Drain
    <2>2. CASE t = s
        <3>1. queue'[t] = Tail(queue[t]) /\ ~registered'[t]
            BY <1>2, <1>3, <2>1, <2>2
        <3>2. \A i \in 1 .. Len(queue[t]) : queue[t][i].size <= queue[t][i].ack
            BY <1>1 DEF StreamFacts
        <3>3. \A i \in 1 .. Len(queue'[t]) : queue'[t][i].size <= queue'[t][i].ack
            BY <2>1, <2>2, <3>1, <3>2, TailFacts
        <3> QED BY <3>1, <3>3 DEF StreamFacts
    <2>3. CASE t # s
        BY <1>3, <1>4, <2>1, <2>3
    <2> QED BY <2>2, <2>3
<1>15. ASSUME NEW s \in Streams, Drained(s)
       PROVE  StreamFacts(t, InHand(t))'
    <2>1. /\ pc[s] = "drain" /\ pc' = [pc EXCEPT ![s] = "gone"]
          /\ UNCHANGED <<gathered, pos, bufferVars>>
        BY <1>15 DEF Drained
    <2>2. InHand(t)' = InHand(t) /\ (pc'[t] = pc[t] \/ pc'[t] = "gone")
        BY <1>3, <2>1 DEF InHand
    <2> HIDE DEF InHand
    <2> QED BY <1>1, <2>1, <2>2, Untouched
<1>16. CASE ConnectionLost
    <2>1. /\ UNCHANGED <<gathered, pos, bufferVars>>
          /\ pc' = [s \in Streams |->
                      IF pc[s] \in {"idle", "waiting", "failed"} THEN "left" ELSE pc[s]]
        BY <1>16 DEF ConnectionLost
    <2>2. InHand(t)' = InHand(t) /\ (pc'[t] = pc[t] \/ pc'[t] = "left")
        BY <2>1 DEF InHand
    <2> HIDE DEF InHand
    <2> QED BY <1>1, <2>1, <2>2, Untouched
<1>17. CASE UNCHANGED vars
    BY <1>4, <1>17 DEF vars
<1> QED
    BY <1>6, <1>7, <1>8, <1>9, <1>10, <1>11, <1>12, <1>13, <1>14, <1>15, <1>16, <1>17
    DEF Next, Callback

-----------------------------------------------------------------------------
(* Counting credit: the units in a queue, and those of all queues.         *)

LEMMA UnitsMember ==
    ASSUME NEW seq, NEW u
    PROVE  u \in Units(seq) <=>
              \E i \in 1 .. Len(seq), k \in Int :
                  k \in 1 .. seq[i].ack /\ u = <<i, k>>
BY DEF Units

LEMMA SingleCount ==
    ASSUME NEW x, NEW S, IsFiniteSet(S)
    PROVE  IsFiniteSet({x} \X S) /\ Cardinality({x} \X S) = Cardinality(S)
<1>1. IsFiniteSet({x}) /\ Cardinality({x}) = 1 /\ Cardinality(S) \in Nat
    BY FS_Singleton, FS_CardinalityType
<1> QED
    BY <1>1, FS_Product

(* The units of one chunk. *)
LEMMA ChunkCount ==
    ASSUME NEW i, NEW n \in Nat
    PROVE  /\ IsFiniteSet({i} \X (1 .. n))
           /\ Cardinality({i} \X (1 .. n)) = n
<1>1. IsFiniteSet(1 .. n) /\ Cardinality(1 .. n) = n
    BY FS_Interval
<1> QED
    BY <1>1, SingleCount

(* Two sets without a common member. *)
LEMMA DisjointCount ==
    ASSUME NEW S, IsFiniteSet(S), NEW T, IsFiniteSet(T), S \cap T = {}
    PROVE  /\ IsFiniteSet(S \cup T)
           /\ Cardinality(S) \in Nat /\ Cardinality(T) \in Nat
           /\ Cardinality(S \cup T) = Cardinality(S) + Cardinality(T)
<1>1. Cardinality(S \cap T) = 0
    BY FS_EmptySet
<1>2. Cardinality(S) \in Nat /\ Cardinality(T) \in Nat
    BY FS_CardinalityType
<1>3. /\ IsFiniteSet(S \cup T)
      /\ Cardinality(S \cup T) = Cardinality(S) + Cardinality(T) - Cardinality(S \cap T)
    BY FS_Union, Zenon
<1> QED
    BY <1>1, <1>2, <1>3

LEMMA AppendCount ==
    ASSUME NEW seq \in Seq(Queued), NEW c \in Queued, IsFiniteSet(Units(seq))
    PROVE  /\ IsFiniteSet(Units(Append(seq, c)))
           /\ Cardinality(Units(Append(seq, c))) = Cardinality(Units(seq)) + c.ack
<1> DEFINE new == Append(seq, c)
           last == {Len(seq) + 1} \X (1 .. c.ack)
<1>1. /\ Len(seq) \in Nat /\ Len(new) = Len(seq) + 1
      /\ \A i \in 1 .. Len(seq) : new[i] = seq[i]
      /\ new[Len(seq) + 1] = c
      /\ c.ack \in Nat
    BY DEF Queued
<1> HIDE DEF new
<1>2. Units(new) = Units(seq) \cup last
    <2>1. ASSUME NEW u \in Units(new) PROVE u \in Units(seq) \cup last
        <3>1. PICK i \in 1 .. Len(new), k \in Int : k \in 1 .. new[i].ack /\ u = <<i, k>>
            BY UnitsMember
        <3>2. CASE i \in 1 .. Len(seq)
            BY <1>1, <3>1, <3>2, UnitsMember
        <3>3. CASE i = Len(seq) + 1
            BY <1>1, <3>1, <3>3
        <3> QED BY <1>1, <3>2, <3>3
    <2>2. ASSUME NEW u \in Units(seq) PROVE u \in Units(new)
        <3>1. PICK i \in 1 .. Len(seq), k \in Int : k \in 1 .. seq[i].ack /\ u = <<i, k>>
            BY UnitsMember
        <3>2. i \in 1 .. Len(new) /\ new[i] = seq[i]
            BY <1>1
        <3> QED BY <3>1, <3>2, UnitsMember
    <2>3. ASSUME NEW u \in last PROVE u \in Units(new)
        <3>1. PICK k \in 1 .. c.ack : u = <<Len(seq) + 1, k>>
            OBVIOUS
        <3>2. Len(seq) + 1 \in 1 .. Len(new)
            BY <1>1
        <3> QED BY <1>1, <3>1, <3>2, UnitsMember
    <2> QED BY <2>1, <2>2, <2>3
<1>3. Units(seq) \cap last = {}
    <2> SUFFICES ASSUME NEW u \in Units(seq), u \in last PROVE FALSE
        OBVIOUS
    <2>1. PICK i \in 1 .. Len(seq), k \in Int : k \in 1 .. seq[i].ack /\ u = <<i, k>>
        BY UnitsMember
    <2> QED BY <1>1, <2>1
<1>4. IsFiniteSet(last) /\ Cardinality(last) = c.ack
    BY <1>1, ChunkCount
<1> HIDE DEF last
<1> QED
    BY <1>2, <1>3, <1>4, DisjointCount DEF new

LEMMA TailCount ==
    ASSUME NEW seq \in Seq(Queued), seq # <<>>, IsFiniteSet(Units(seq))
    PROVE  /\ IsFiniteSet(Units(Tail(seq)))
           /\ Cardinality(Units(seq)) = Cardinality(Units(Tail(seq))) + Head(seq).ack
<1> DEFINE rest == Tail(seq)
           first == {1} \X (1 .. seq[1].ack)
           later == Units(seq) \ first
           f == [u \in Units(rest) |-> <<u[1] + 1, u[2]>>]
<1>1. /\ Len(seq) \in Nat \ {0} /\ Head(seq) = seq[1]
      /\ Head(seq) \in Queued
      /\ Len(rest) = Len(seq) - 1
      /\ \A i \in 1 .. Len(rest) : rest[i] = seq[i + 1]
    BY HeadTailProperties, EmptySeq
<1>2. seq[1].ack \in Nat
    BY <1>1 DEF Queued
<1> HIDE DEF rest
<1>3. first \subseteq Units(seq)
    <2> SUFFICES ASSUME NEW k \in 1 .. seq[1].ack PROVE <<1, k>> \in Units(seq)
        OBVIOUS
    <2>1. 1 \in 1 .. Len(seq)
        BY <1>1
    <2> QED BY <2>1, UnitsMember
<1>4. ASSUME NEW u \in Units(rest) PROVE f[u] \in later
    <2>1. PICK i \in 1 .. Len(rest), k \in Int : k \in 1 .. rest[i].ack /\ u = <<i, k>>
        BY UnitsMember
    <2>2. i + 1 \in 1 .. Len(seq) /\ rest[i] = seq[i + 1] /\ f[u] = <<i + 1, k>> /\ i + 1 # 1
        BY <1>1, <2>1
    <2> QED BY <2>1, <2>2, UnitsMember
<1>5. ASSUME NEW u \in Units(rest), NEW v \in Units(rest), f[u] = f[v] PROVE u = v
    <2>1. PICK i \in 1 .. Len(rest), k \in Int : k \in 1 .. rest[i].ack /\ u = <<i, k>>
        BY UnitsMember
    <2>2. PICK j \in 1 .. Len(rest), l \in Int : l \in 1 .. rest[j].ack /\ v = <<j, l>>
        BY UnitsMember
    <2>3. <<i + 1, k>> = <<j + 1, l>>
        BY <1>5, <2>1, <2>2
    <2>4. i + 1 = j + 1 /\ k = l
        BY <2>3
    <2>5. i = j
        BY <1>1, <2>4
    <2> QED BY <2>1, <2>2, <2>4, <2>5
<1>6. ASSUME NEW v \in later PROVE \E u \in Units(rest) : f[u] = v
    <2>1. PICK i \in 1 .. Len(seq), k \in Int : k \in 1 .. seq[i].ack /\ v = <<i, k>>
        BY UnitsMember
    <2>2. i # 1
        BY <2>1
    <2>3. i - 1 \in 1 .. Len(rest) /\ rest[i - 1] = seq[i]
        BY <1>1, <2>2
    <2>4. <<i - 1, k>> \in Units(rest)
        BY <2>1, <2>3, UnitsMember
    <2>5. f[<<i - 1, k>>] = <<(i - 1) + 1, k>>
        BY <2>4
    <2> QED BY <2>1, <2>4, <2>5
<1>7. ExistsBijection(Units(rest), later)
    <2>1. f \in [Units(rest) -> later]
        BY <1>4
    <2> HIDE DEF f, later
    <2>2. f \in Bijection(Units(rest), later)
        BY <1>5, <1>6, <2>1, Fun_IsBij
    <2> QED BY <2>2 DEF ExistsBijection
<1>8. IsFiniteSet(later) /\ IsFiniteSet(first) /\ Cardinality(first) = Head(seq).ack
    BY <1>1, <1>2, FS_Difference, ChunkCount
<1>9. ExistsBijection(later, Units(rest))
    BY <1>7, Fun_ExistsBijSymmetric
<1>10. later \cap first = {} /\ later \cup first = Units(seq)
    BY <1>3
<1> HIDE DEF later, first
<1>11. IsFiniteSet(Units(rest)) /\ Cardinality(Units(rest)) = Cardinality(later)
    BY <1>8, <1>9, FS_Bijection
<1>12. /\ Cardinality(later) \in Nat /\ Cardinality(first) \in Nat
       /\ Cardinality(Units(seq)) = Cardinality(later) + Cardinality(first)
    BY <1>8, <1>10, DisjointCount, Zenon
<1> QED
    BY <1>8, <1>11, <1>12 DEF rest

LEMMA UnitsFinite ==
    ASSUME NEW s \in Streams, IsFiniteSet(Held)
    PROVE  IsFiniteSet(Units(queue[s])) /\ Cardinality(Units(queue[s])) \in Nat
<1> DEFINE old == {s} \X Units(queue[s])
           f == [u \in old |-> u[2]]
<1>1. IsFiniteSet(old)
    <2>1. old \in SUBSET Held
        BY DEF Held
    <2> QED BY <2>1, FS_Subset
<1>2. /\ f \in [old -> Units(queue[s])]
      /\ \A v \in Units(queue[s]) : <<s, v>> \in old /\ f[<<s, v>>] = v
    OBVIOUS
<1> HIDE DEF old, f
<1>3. f \in Surjection(old, Units(queue[s]))
    BY <1>2, Fun_IsSurj
<1>4. IsFiniteSet(Units(queue[s]))
    BY <1>1, <1>3, FS_Surjection
<1> QED
    BY <1>4, FS_CardinalityType

(* A step that changes one queue changes the connection's units as those of
   the stream. *)
LEMMA HeldCount ==
    ASSUME NEW s \in Streams, IsFiniteSet(Held), IsFiniteSet(Units(queue'[s])),
           \A t \in Streams : t # s => queue'[t] = queue[t]
    PROVE  /\ IsFiniteSet(Held')
           /\ Cardinality(Held') = Cardinality(Held) - Cardinality(Units(queue[s]))
                                   + Cardinality(Units(queue'[s]))
<1> DEFINE rest == UNION {{t} \X Units(queue[t]) : t \in Streams \ {s}}
           old == {s} \X Units(queue[s])
           new == {s} \X Units(queue'[s])
<1>1. Held = rest \cup old
    BY DEF Held
<1>2. Held' = rest \cup new
    BY DEF Held
<1>3. rest \cap old = {} /\ rest \cap new = {}
    OBVIOUS
<1>4. IsFiniteSet(rest)
    BY <1>1, FS_Subset
<1>5. /\ IsFiniteSet(old) /\ Cardinality(old) = Cardinality(Units(queue[s]))
      /\ IsFiniteSet(new) /\ Cardinality(new) = Cardinality(Units(queue'[s]))
    BY UnitsFinite, SingleCount
<1> HIDE DEF rest, old, new
<1>6. /\ Cardinality(rest) \in Nat /\ Cardinality(old) \in Nat
      /\ Cardinality(Held) = Cardinality(rest) + Cardinality(old)
    BY <1>1, <1>3, <1>4, <1>5, DisjointCount, Zenon
<1>7. /\ IsFiniteSet(Held') /\ Cardinality(new) \in Nat
      /\ Cardinality(Held') = Cardinality(rest) + Cardinality(new)
    BY <1>2, <1>3, <1>4, <1>5, DisjointCount, Zenon
<1> QED
    BY <1>5, <1>6, <1>7

-----------------------------------------------------------------------------
(* Credit only moves: from the queues to what h2 is about to announce, and *)
(* from there to what the peer may send.                                   *)

LEMMA CreditInTime ==
    ASSUME processed \in [Windows -> Nat],
           NEW s \in Streams, NEW n \in Nat, NEW space \in [Windows -> Nat],
           AnnouncedInTime, Credit(s, n, space)
    PROVE  AnnouncedInTime'
<1> DEFINE due == [w \in Windows |->
                     IF w \in {s, Conn} THEN processed[w] + n ELSE processed[w]]
           tell == {w \in {s, Conn} : Announces(w, space[w], due[w])}
<1>1. processed' = [w \in Windows |-> IF w \in tell THEN 0 ELSE due[w]]
    BY DEF Credit
<1>2. SUFFICES ASSUME NEW w \in Windows, processed'[w] > 0
               PROVE  processed'[w] < Limit[w] \div 2
    BY DEF AnnouncedInTime
<1>3. w \notin tell /\ processed'[w] = due[w]
    BY <1>1, <1>2
<1>4. due[w] \in Nat /\ due[w] > 0 /\ Limit[w] \in Nat
    BY <1>2, <1>3, RecvAssumption
<1>5. CASE w \in {s, Conn}
    <2>1. ~Announces(w, space[w], due[w])
        BY <1>3, <1>5
    <2> HIDE DEF due, tell
    <2>2. ~(due[w] >= Limit[w] \div 2)
        BY <1>4, <2>1 DEF Announces
    <2> QED BY <1>3, <1>4, <2>2
<1>6. CASE w \notin {s, Conn}
    <2>1. due[w] = processed[w]
        BY <1>6
    <2> HIDE DEF due, tell
    <2> QED BY <1>2, <1>3, <2>1 DEF AnnouncedInTime
<1> QED
    BY <1>5, <1>6

LEMMA NextInTime == TypeOK /\ AnnouncedInTime /\ [Next]_vars => AnnouncedInTime'
<1> SUFFICES ASSUME TypeOK, AnnouncedInTime, [Next]_vars PROVE AnnouncedInTime'
    OBVIOUS
<1>1. open \in [Windows -> Nat] /\ processed \in [Windows -> Nat]
    BY DEF TypeOK
<1>2. ASSUME UNCHANGED processed PROVE AnnouncedInTime'
    BY <1>2 DEF AnnouncedInTime
<1>3. ASSUME NEW s \in Streams, NEW n \in Nat, Ack(s, n) PROVE AnnouncedInTime'
    BY <1>1, <1>2, <1>3, CreditInTime DEF Ack, windowVars
<1>4. ASSUME NEW s \in Streams, NEW n \in 0 .. Total[s], NEW pad \in Padding,
             NEW last \in BOOLEAN, DataReceived(s, n, pad, last)
      PROVE  AnnouncedInTime'
    <2> DEFINE flow  == IF n = 0 THEN 0 ELSE n + pad
               space == Spent(s, flow)
    <2>1. flow \in Nat /\ flow <= open[s] /\ flow <= open[Conn]
        BY <1>4, RecvAssumption DEF DataReceived
    <2>2. space \in [Windows -> Nat]
        <3> HIDE DEF flow
        <3>1. ASSUME NEW w \in Windows
              PROVE  (IF w \in {s, Conn} THEN open[w] - flow ELSE open[w]) \in Nat
            BY <1>1, <2>1
        <3> QED BY <3>1 DEF Spent
    <2>3. UNCHANGED processed \/ Credit(s, flow, space)
        BY <1>4 DEF DataReceived, windowVars
    <2> HIDE DEF flow, space
    <2> QED BY <1>1, <1>2, <2>1, <2>2, <2>3, CreditInTime
<1>5. ASSUME NEW s \in Streams, Get(s) PROVE AnnouncedInTime'
    <2>1. Head(queue[s]).ack \in Nat
        BY <1>5, HeadFacts DEF Get
    <2>2. UNCHANGED processed \/ Ack(s, Head(queue[s]).ack)
        BY <1>5 DEF Get, windowVars
    <2> QED BY <1>2, <1>3, <2>1, <2>2
<1>6. ASSUME NEW s \in Streams, Drained(s) PROVE AnnouncedInTime'
    <2>1. Ack(s, owed) /\ owed \in Nat
        BY <1>6 DEF Drained, TypeOK
    <2> QED BY <1>3, <2>1
<1>7. ASSUME NEW s \in Streams,
             \/ StreamEnded(s) \/ Wait(s) \/ Check(s) \/ Take(s) \/ Drain(s)
             \/ Resume(s) \/ Leave(s) \/ Release(s) \/ \E n \in Sizes : Read(s, n)
      PROVE  AnnouncedInTime'
    <2>1. UNCHANGED processed
        BY <1>7 DEF StreamEnded, Wait, Check, Take, Drain, Resume, Leave, Release, Read,
                    windowVars
    <2> QED BY <1>2, <2>1
<1>8. CASE ConnectionLost
    BY <1>2, <1>8 DEF ConnectionLost, windowVars
<1>9. CASE UNCHANGED vars
    BY <1>2, <1>9 DEF vars, windowVars
<1> QED
    BY <1>4, <1>5, <1>6, <1>7, <1>8, <1>9 DEF Next, Callback

LEMMA CreditMoves ==
    ASSUME processed \in [Windows -> Nat],
           NEW s \in Streams, NEW n \in Nat, NEW space \in [Windows -> Nat],
           \A w \in {s, Conn} : space[w] + processed[w] + n <= Limit[w],
           Credit(s, n, space)
    PROVE  /\ \A w \in {s, Conn} : open'[w] + processed'[w] = space[w] + processed[w] + n
           /\ \A w \in Windows \ {s, Conn} :
                 open'[w] = space[w] /\ processed'[w] = processed[w]
<1> DEFINE due == [w \in Windows |->
                     IF w \in {s, Conn} THEN processed[w] + n ELSE processed[w]]
           tell == {w \in {s, Conn} : Announces(w, space[w], due[w])}
<1>1. /\ open' = [w \in Windows |->
                    IF w \in tell
                    THEN space[w] + Least(due[w], Limit[w] - space[w])
                    ELSE space[w]]
      /\ processed' = [w \in Windows |-> IF w \in tell THEN 0 ELSE due[w]]
    BY DEF Credit
<1>2. s \in Windows /\ Conn \in Windows /\ Limit \in [Windows -> Nat]
    BY RecvAssumption DEF Windows
<1>3. \A w \in {s, Conn} : due[w] = processed[w] + n /\ due[w] \in Nat
    BY <1>2
<1>4. \A w \in Windows \ {s, Conn} : due[w] = processed[w]
    OBVIOUS
<1>5. tell \subseteq {s, Conn}
    OBVIOUS
<1> HIDE DEF due, tell
<1>6. ASSUME NEW w \in {s, Conn}
      PROVE  open'[w] + processed'[w] = space[w] + processed[w] + n
    <2>1. w \in Windows /\ space[w] \in Nat /\ processed[w] \in Nat /\ Limit[w] \in Nat
        BY <1>2
    <2>2. Least(due[w], Limit[w] - space[w]) = due[w]
        BY <1>3, <2>1 DEF Least
    <2> QED BY <1>1, <1>3, <2>1, <2>2
<1> QED
    BY <1>1, <1>4, <1>5, <1>6

(* What a step does to one stream and to the connection decides. *)
LEMMA CreditStep ==
    ASSUME TypeOK, TypeOK', CreditInHand, CreditConserved, NEW s \in Streams,
           \A t \in Streams : t # s =>
              /\ queue'[t] = queue[t] /\ open'[t] = open[t]
              /\ processed'[t] = processed[t] /\ Owed(t)' = Owed(t),
           IsFiniteSet(Units(queue'[s])),
           open'[s] + processed'[s] + Owed(s)' + Cardinality(Units(queue'[s]))
              = open[s] + processed[s] + Owed(s) + Cardinality(Units(queue[s])),
           open'[Conn] + processed'[Conn] + owed' + Cardinality(Units(queue'[s]))
              = open[Conn] + processed[Conn] + owed + Cardinality(Units(queue[s]))
    PROVE  IsFiniteSet(Held') /\ CreditConserved'
<1>1. IsFiniteSet(Held) /\ Conn \in Windows
    BY DEF CreditInHand, Windows
<1>2. /\ IsFiniteSet(Held')
      /\ Cardinality(Held') = Cardinality(Held) - Cardinality(Units(queue[s]))
                              + Cardinality(Units(queue'[s]))
    BY <1>1, HeldCount
<1>3. /\ Cardinality(Held) \in Nat /\ Cardinality(Units(queue[s])) \in Nat
      /\ Cardinality(Units(queue'[s])) \in Nat
    BY <1>1, UnitsFinite, FS_CardinalityType
<1>4. /\ open[Conn] \in Nat /\ processed[Conn] \in Nat /\ owed \in Nat
      /\ open'[Conn] \in Nat /\ processed'[Conn] \in Nat /\ owed' \in Nat
    BY <1>1 DEF TypeOK
<1>5. Limit[Conn] = open[Conn] + processed[Conn] + owed + Cardinality(Held)
    BY DEF CreditConserved
<1>6. Limit[Conn] = open'[Conn] + processed'[Conn] + owed' + Cardinality(Held')
    BY <1>2, <1>3, <1>4, <1>5
<1>7. ASSUME NEW t \in Streams
      PROVE  Limit[t] = open'[t] + processed'[t] + Owed(t)'
                        + Cardinality(Units(queue'[t]))
    <2>1. Limit[t] = open[t] + processed[t] + Owed(t) + Cardinality(Units(queue[t]))
        BY DEF CreditConserved
    <2>2. CASE t = s
        BY <2>1, <2>2
    <2>3. CASE t # s
        BY <2>1, <2>3
    <2> QED BY <2>2, <2>3
<1> QED
    BY <1>2, <1>6, <1>7 DEF CreditConserved, Units

(* What is conserved, of the windows that a step of a stream touches. *)
LEMMA CreditNow ==
    ASSUME TypeOK, CreditInHand, CreditConserved, NEW s \in Streams
    PROVE  /\ s \in Windows /\ Conn \in Windows
           /\ \A w \in {s, Conn} : open[w] \in Nat /\ processed[w] \in Nat
           /\ IsFiniteSet(Units(queue[s])) /\ Cardinality(Units(queue[s])) \in Nat
           /\ owed \in Nat /\ Owed(s) \in Nat /\ Owed(s) <= owed
           /\ \A w \in {s, Conn} : open[w] + processed[w] + Owed(s)
                                   + Cardinality(Units(queue[s])) <= Limit[w]
<1>1. s \in Windows /\ Conn \in Windows /\ Limit \in [Windows -> Nat]
    BY RecvAssumption DEF Windows
<1>2. /\ \A w \in {s, Conn} : open[w] \in Nat /\ processed[w] \in Nat
      /\ owed \in Nat
    BY <1>1 DEF TypeOK
<1>3. IsFiniteSet(Held)
    BY DEF CreditInHand
<1>4. IsFiniteSet(Units(queue[s])) /\ Cardinality(Units(queue[s])) \in Nat
    BY <1>3, UnitsFinite
<1>5. Owed(s) \in Nat /\ Owed(s) <= owed
    BY <1>2 DEF Owed
<1>6. Cardinality(Units(queue[s])) <= Cardinality(Held) /\ Cardinality(Held) \in Nat
    <2>1. IsFiniteSet({s} \X Units(queue[s]))
          /\ Cardinality({s} \X Units(queue[s])) <= Cardinality(Held)
        <3>1. {s} \X Units(queue[s]) \in SUBSET Held
            BY DEF Held
        <3> QED BY <1>3, <3>1, FS_Subset
    <2>2. Cardinality({s} \X Units(queue[s])) = Cardinality(Units(queue[s]))
        BY <1>4, SingleCount
    <2>3. Cardinality(Held) \in Nat
        BY <1>3, FS_CardinalityType
    <2> QED BY <2>1, <2>2, <2>3
<1>7. /\ Limit[Conn] = open[Conn] + processed[Conn] + owed + Cardinality(Held)
      /\ Limit[s] = open[s] + processed[s] + Owed(s) + Cardinality(Units(queue[s]))
    BY DEF CreditConserved
<1>8. ASSUME NEW w \in {s, Conn}
      PROVE  open[w] + processed[w] + Owed(s) + Cardinality(Units(queue[s])) <= Limit[w]
    BY <1>2, <1>4, <1>5, <1>6, <1>7
<1> QED
    BY <1>1, <1>2, <1>4, <1>5, <1>8

CreditFacts == CreditInHand /\ CreditConserved

(* Nobody owes anything when the event loop is free. *)
LEMMA NothingOwed ==
    ASSUME RecvInv, CreditInHand, NEW s \in Streams,
           running = Nobody \/ (running = s /\ pc[s] # "drain")
    PROVE  owed = 0 /\ \A t \in Streams : pc[t] # "drain"
BY RecvAssumption DEF RecvInv, OneRuns, Busy, CreditInHand

LEMMA DataReceivedCredit ==
    ASSUME TypeOK, TypeOK', CreditFacts, NEW s \in Streams, NEW n \in 0 .. Total[s],
           NEW pad \in Padding, NEW last \in BOOLEAN, DataReceived(s, n, pad, last)
    PROVE  IsFiniteSet(Held') /\ CreditConserved'
<1> DEFINE flow  == IF n = 0 THEN 0 ELSE n + pad
           space == Spent(s, flow)
           chunk == [from |-> received[s], size |-> n, ack |-> flow]
           one   == Append(queue[s], chunk)
           new   == IF last THEN Append(one, Eof(received[s] + n)) ELSE one
           held  == Cardinality(Units(queue[s]))
<1>1. n \in Nat /\ flow \in Nat /\ received[s] \in Nat /\ queue[s] \in Seq(Queued)
    BY RecvAssumption DEF TypeOK
<1>2. /\ s \in Windows /\ Conn \in Windows /\ s # Conn
      /\ \A w \in {s, Conn} : open[w] \in Nat /\ processed[w] \in Nat
      /\ IsFiniteSet(Units(queue[s])) /\ held \in Nat
      /\ owed \in Nat /\ Owed(s) \in Nat
      /\ \A w \in {s, Conn} : open[w] + processed[w] + Owed(s) + held <= Limit[w]
    BY CreditNow, RecvAssumption DEF CreditFacts
<1>3. flow <= open[s] /\ flow <= open[Conn]
    BY DEF DataReceived
<1>4. /\ \A w \in {s, Conn} : space[w] = open[w] - flow
      /\ \A w \in Windows \ {s, Conn} : space[w] = open[w]
      /\ space \in [Windows -> Nat]
    <2>1. open \in [Windows -> Nat]
        BY DEF TypeOK
    <2> HIDE DEF flow
    <2>2. ASSUME NEW w \in Windows
          PROVE  /\ w \in {s, Conn} => space[w] = open[w] - flow
                 /\ w \notin {s, Conn} => space[w] = open[w]
                 /\ space[w] \in Nat
        <3>1. CASE w \in {s, Conn}
            <4>1. space[w] = open[w] - flow
                BY <3>1 DEF Spent
            <4>2. open[w] \in Nat /\ flow \in Nat /\ flow <= open[w]
                BY <1>1, <1>2, <1>3, <3>1
            <4> QED BY <3>1, <4>1, <4>2
        <3>2. CASE w \notin {s, Conn}
            BY <2>1, <3>2 DEF Spent
        <3> QED BY <1>1, <1>2, <1>3, <3>1, <3>2
    <2>3. space = [w \in Windows |-> space[w]]
        BY DEF Spent
    <2> HIDE DEF space
    <2> QED BY <1>2, <2>2, <2>3
<1>5. /\ UNCHANGED <<readerVars, acked, ackedSize, registered, closing>>
      /\ UNCHANGED owed /\ \A t \in Streams : Owed(t)' = Owed(t)
    BY DEF DataReceived, Owed, readerVars
<1>6. \A t \in Streams : t # s => t \in Windows \ {s, Conn}
    BY RecvAssumption DEF Windows
<1>7. CASE registered[s]
    <2>1. queue' = [queue EXCEPT ![s] = new] /\ open' = space /\ UNCHANGED processed
        BY <1>7 DEF DataReceived
    <2>2. chunk \in Queued /\ Eof(received[s] + n) \in Queued /\ chunk.ack = flow
          /\ Eof(received[s] + n).ack = 0
        BY <1>1 DEF Queued, Eof
    <2> HIDE DEF chunk, flow, space
    <2>3. /\ one \in Seq(Queued)
          /\ IsFiniteSet(Units(one)) /\ Cardinality(Units(one)) = held + flow
        <3>1. one \in Seq(Queued)
            BY <1>1, <2>2
        <3>2. /\ IsFiniteSet(Units(one))
              /\ Cardinality(Units(one)) = held + chunk.ack
            BY <1>1, <1>2, <2>2, AppendCount, Zenon
        <3> QED BY <2>2, <3>1, <3>2
    <2> HIDE DEF one
    <2>4. /\ IsFiniteSet(Units(Append(one, Eof(received[s] + n))))
          /\ Cardinality(Units(Append(one, Eof(received[s] + n)))) = held + flow
        BY <1>1, <1>2, <2>2, <2>3, AppendCount
    <2>5. IsFiniteSet(Units(new)) /\ Cardinality(Units(new)) = held + flow
        BY <2>3, <2>4
    <2> HIDE DEF new, held
    <2>6. queue'[s] = new /\ \A t \in Streams : t # s => queue'[t] = queue[t]
        BY <2>1 DEF TypeOK
    <2>7. ASSUME NEW w \in {s, Conn}
          PROVE  /\ open'[w] + processed'[w] + flow = open[w] + processed[w]
                 /\ open'[w] \in Nat /\ processed'[w] \in Nat
        <3>1. open'[w] = open[w] - flow /\ processed'[w] = processed[w]
            BY <1>4, <2>1
        <3>2. open[w] \in Nat /\ processed[w] \in Nat /\ flow \in Nat /\ flow <= open[w]
            BY <1>1, <1>2, <1>3
        <3> QED BY <3>1, <3>2
    <2>8. /\ open'[s] + processed'[s] + Owed(s)' + (held + flow)
             = open[s] + processed[s] + Owed(s) + held
          /\ open'[Conn] + processed'[Conn] + owed' + (held + flow)
             = open[Conn] + processed[Conn] + owed + held
        <3>1. /\ open'[s] + processed'[s] + flow = open[s] + processed[s]
              /\ open'[Conn] + processed'[Conn] + flow = open[Conn] + processed[Conn]
              /\ open'[s] \in Nat /\ processed'[s] \in Nat
              /\ open'[Conn] \in Nat /\ processed'[Conn] \in Nat
            BY <2>7
        <3>2. /\ open[s] \in Nat /\ processed[s] \in Nat
              /\ open[Conn] \in Nat /\ processed[Conn] \in Nat
              /\ flow \in Nat /\ held \in Nat /\ owed \in Nat /\ Owed(s) \in Nat
            BY <1>1, <1>2
        <3>3. owed' = owed /\ Owed(s)' = Owed(s)
            BY <1>5
        <3> HIDE DEF flow
        <3> QED BY <3>1, <3>2, <3>3
    <2>9. \A t \in Streams : t # s => open'[t] = open[t] /\ processed'[t] = processed[t]
        BY <1>4, <1>6, <2>1
    <2> QED
        BY <1>5, <2>5, <2>6, <2>8, <2>9, CreditStep DEF CreditFacts, held
<1>8. CASE ~registered[s]
    <2>1. UNCHANGED queue
        BY <1>8 DEF DataReceived
    <2>2. /\ \A w \in {s, Conn} : open'[w] + processed'[w] = open[w] + processed[w]
          /\ \A w \in Windows \ {s, Conn} :
                open'[w] = open[w] /\ processed'[w] = processed[w]
        <3>1. CASE flow > 0
            <4>1. Credit(s, flow, space)
                BY <1>8, <3>1 DEF DataReceived
            <4> HIDE DEF flow, space, held
            <4>2. ASSUME NEW w \in {s, Conn}
                  PROVE  space[w] + processed[w] + flow <= Limit[w]
                <5>1. open[w] + processed[w] + Owed(s) + held <= Limit[w]
                    BY <1>2
                <5>2. space[w] = open[w] - flow
                    BY <1>4
                <5>3. Limit[w] \in Nat /\ open[w] \in Nat /\ processed[w] \in Nat
                      /\ held \in Nat /\ Owed(s) \in Nat /\ flow \in Nat
                    BY <1>1, <1>2, RecvAssumption
                <5> QED BY <5>1, <5>2, <5>3
            <4>3. processed \in [Windows -> Nat]
                BY DEF TypeOK
            <4>4. /\ \A w \in {s, Conn} :
                        open'[w] + processed'[w] = space[w] + processed[w] + flow
                  /\ \A w \in Windows \ {s, Conn} :
                        open'[w] = space[w] /\ processed'[w] = processed[w]
                BY <1>1, <1>4, <4>1, <4>2, <4>3, CreditMoves
            <4>5. ASSUME NEW w \in {s, Conn}
                  PROVE  open'[w] + processed'[w] = open[w] + processed[w]
                <5>1. /\ open'[w] + processed'[w] = space[w] + processed[w] + flow
                      /\ space[w] = open[w] - flow
                    BY <1>4, <4>4
                <5>2. open[w] \in Nat /\ processed[w] \in Nat /\ flow \in Nat
                    BY <1>1, <1>2
                <5> QED BY <5>1, <5>2
            <4> QED BY <1>4, <4>4, <4>5
        <3>2. CASE ~(flow > 0)
            BY <1>8, <3>2 DEF DataReceived, windowVars
        <3> QED BY <3>1, <3>2
    <2>3. \A w \in {s, Conn} : open'[w] \in Nat /\ processed'[w] \in Nat
        BY <1>2 DEF TypeOK
    <2>4. \A t \in Streams : t # s => open'[t] = open[t] /\ processed'[t] = processed[t]
        BY <1>6, <2>2
    <2> HIDE DEF flow, space, chunk, one, new, held
    <2>5. /\ open'[s] + processed'[s] + Owed(s)' + Cardinality(Units(queue'[s]))
             = open[s] + processed[s] + Owed(s) + Cardinality(Units(queue[s]))
          /\ open'[Conn] + processed'[Conn] + owed' + Cardinality(Units(queue'[s]))
             = open[Conn] + processed[Conn] + owed + Cardinality(Units(queue[s]))
        BY <1>2, <1>5, <2>1, <2>2, <2>3
    <2> QED
        BY <1>2, <1>5, <2>1, <2>4, <2>5, CreditStep DEF CreditFacts
<1> QED
    BY <1>7, <1>8

LEMMA SumsMeet ==
    ASSUME NEW n \in Nat, NEW a \in Nat, NEW b \in Nat, NEW c \in Nat, NEW d \in Nat,
           NEW x \in Nat, NEW y \in Nat, NEW l \in Nat, NEW h \in Nat,
           a + b = c + d + n, n + x + l = y + h
    PROVE  a + b + x + l = c + d + y + h
OBVIOUS

(* A step that credits n bytes, taken out of the queue or of what was owed. *)
LEMMA AckCredit ==
    ASSUME TypeOK, TypeOK', CreditFacts, NEW s \in Streams, NEW n \in Nat, Ack(s, n),
           \A t \in Streams : t # s => queue'[t] = queue[t] /\ Owed(t)' = Owed(t),
           IsFiniteSet(Units(queue'[s])), Owed(s)' \in Nat,
           n + Owed(s)' + Cardinality(Units(queue'[s]))
              = Owed(s) + Cardinality(Units(queue[s])),
           n + owed' + Cardinality(Units(queue'[s]))
              = owed + Cardinality(Units(queue[s]))
    PROVE  IsFiniteSet(Held') /\ CreditConserved'
<1> DEFINE held == Cardinality(Units(queue[s]))
           left == Cardinality(Units(queue'[s]))
<1>1. /\ s \in Windows /\ Conn \in Windows /\ s # Conn
      /\ \A w \in {s, Conn} : open[w] \in Nat /\ processed[w] \in Nat
      /\ held \in Nat /\ owed \in Nat /\ Owed(s) \in Nat
      /\ \A w \in {s, Conn} : open[w] + processed[w] + Owed(s) + held <= Limit[w]
    BY CreditNow, RecvAssumption DEF CreditFacts
<1>2. left \in Nat
    BY FS_CardinalityType
<1>3. \A t \in Streams : t # s => t \in Windows \ {s, Conn}
    BY RecvAssumption DEF Windows
<1> HIDE DEF held, left
<1>4. n + Owed(s)' + left = Owed(s) + held /\ n + owed' + left = owed + held
    BY DEF held, left
<1>5. owed' \in Nat /\ \A w \in {s, Conn} : open'[w] \in Nat /\ processed'[w] \in Nat
    BY <1>1 DEF TypeOK
<1>6. /\ \A w \in {s, Conn} : open'[w] + processed'[w] = open[w] + processed[w] + n
      /\ \A w \in Windows \ {s, Conn} :
            open'[w] = open[w] /\ processed'[w] = processed[w]
    <2>1. CASE n > 0
        <3>1. Credit(s, n, open)
            BY <2>1 DEF Ack
        <3>2. n <= Owed(s) + held
            BY <1>1, <1>2, <1>4
        <3>3. \A w \in {s, Conn} : open[w] + processed[w] + n <= Limit[w]
            BY <1>1, <3>2, RecvAssumption
        <3>4. open \in [Windows -> Nat] /\ processed \in [Windows -> Nat]
            BY DEF TypeOK
        <3> QED BY <3>1, <3>3, <3>4, CreditMoves
    <2>2. CASE n = 0
        BY <1>1, <2>2 DEF Ack, windowVars
    <2> QED BY <2>1, <2>2
<1>7. /\ open'[s] + processed'[s] + Owed(s)' + left
         = open[s] + processed[s] + Owed(s) + held
      /\ open'[Conn] + processed'[Conn] + owed' + left
         = open[Conn] + processed[Conn] + owed + held
    <2>1. /\ open'[s] + processed'[s] = open[s] + processed[s] + n
          /\ open'[Conn] + processed'[Conn] = open[Conn] + processed[Conn] + n
        BY <1>6
    <2>2. /\ open[s] \in Nat /\ processed[s] \in Nat
          /\ open[Conn] \in Nat /\ processed[Conn] \in Nat
          /\ open'[s] \in Nat /\ processed'[s] \in Nat
          /\ open'[Conn] \in Nat /\ processed'[Conn] \in Nat
        BY <1>1, <1>5
    <2>3. owed \in Nat /\ owed' \in Nat /\ Owed(s) \in Nat /\ left \in Nat /\ held \in Nat
        BY <1>1, <1>2, <1>5
    <2>4. n + Owed(s)' + left = Owed(s) + held /\ Owed(s)' \in Nat
        BY <1>4
    <2>5. n + owed' + left = owed + held
        BY <1>4
    <2> HIDE DEF Owed
    <2>6. open'[s] + processed'[s] + Owed(s)' + left = open[s] + processed[s] + Owed(s) + held
        BY <2>1, <2>2, <2>3, <2>4, SumsMeet
    <2>7. open'[Conn] + processed'[Conn] + owed' + left
             = open[Conn] + processed[Conn] + owed + held
        BY <2>1, <2>2, <2>3, <2>5
    <2> QED BY <2>6, <2>7
<1>8. \A t \in Streams : t # s => open'[t] = open[t] /\ processed'[t] = processed[t]
    BY <1>3, <1>6
<1> QED
    BY <1>7, <1>8, CreditStep DEF CreditFacts, held, left

(* A step that moves no credit. *)
LEMMA CreditUntouched ==
    ASSUME CreditConserved, IsFiniteSet(Held),
           UNCHANGED <<owed, queue, windowVars>>,
           \A t \in Streams : Owed(t)' = Owed(t)
    PROVE  IsFiniteSet(Held') /\ CreditConserved'
<1>1. Held' = Held
    BY DEF Held, Units
<1>2. open' = open /\ processed' = processed /\ owed' = owed /\ queue' = queue
    BY DEF windowVars
<1> QED
    BY <1>1, <1>2 DEF CreditConserved, Units

LEMMA NextCredit ==
    TypeOK /\ TypeOK' /\ RecvInv /\ RecvInv' /\ CreditFacts /\ [Next]_vars => CreditFacts'
<1> SUFFICES ASSUME TypeOK, TypeOK', RecvInv, RecvInv', CreditFacts, [Next]_vars
             PROVE  CreditFacts'
    OBVIOUS
<1>1. /\ CreditInHand /\ CreditConserved /\ IsFiniteSet(Held)
      /\ pc \in [Streams -> Places] /\ queue \in [Streams -> Seq(Queued)]
    BY DEF CreditFacts, CreditInHand, TypeOK
<1>2. ASSUME IsFiniteSet(Held') /\ CreditConserved',
             (\A s \in Streams : pc'[s] # "drain") => owed' = 0
      PROVE  CreditFacts'
    BY <1>2 DEF CreditFacts, CreditInHand
<1>3. ASSUME UNCHANGED <<owed, queue, windowVars>>,
             \A t \in Streams : pc'[t] = "drain" <=> pc[t] = "drain"
      PROVE  CreditFacts'
    <2>1. \A t \in Streams : Owed(t)' = Owed(t)
        BY <1>3 DEF Owed
    <2>2. (\A s \in Streams : pc'[s] # "drain") => owed' = 0
        BY <1>1, <1>3 DEF CreditInHand
    <2> QED BY <1>1, <1>2, <1>3, <2>1, <2>2, CreditUntouched
<1>4. ASSUME NEW s \in Streams, NEW n \in 0 .. Total[s], NEW pad \in Padding,
             NEW last \in BOOLEAN, DataReceived(s, n, pad, last)
      PROVE  CreditFacts'
    <2>1. pc' = pc /\ owed' = owed
        BY <1>4 DEF DataReceived, readerVars
    <2>2. (\A t \in Streams : pc'[t] # "drain") => owed' = 0
        BY <1>1, <2>1 DEF CreditInHand
    <2> QED BY <1>2, <1>4, <2>2, DataReceivedCredit
<1>5. ASSUME NEW s \in Streams, StreamEnded(s)
      PROVE  CreditFacts'
    <2>1. UNCHANGED <<owed, pc, windowVars>>
        BY <1>5 DEF StreamEnded, readerVars
    <2>2. CASE ~registered[s]
        BY <1>3, <1>5, <2>1, <2>2 DEF StreamEnded
    <2>3. CASE registered[s]
        <3>1. Eof(received[s]) \in Queued /\ Eof(received[s]).ack = 0
            BY DEF Eof, Queued, TypeOK
        <3>2. queue'[s] = Append(queue[s], Eof(received[s]))
              /\ \A t \in Streams : t # s => queue'[t] = queue[t]
            BY <1>1, <1>5, <2>3 DEF StreamEnded
        <3>3. /\ IsFiniteSet(Units(queue[s])) /\ Cardinality(Units(queue[s])) \in Nat
              /\ owed \in Nat /\ Owed(s) \in Nat
            BY <1>1, CreditNow
        <3>4. /\ IsFiniteSet(Units(queue'[s]))
              /\ Cardinality(Units(queue'[s])) = Cardinality(Units(queue[s])) + 0
            BY <1>1, <3>1, <3>2, <3>3, AppendCount
        <3>5. Cardinality(Units(queue'[s])) = Cardinality(Units(queue[s]))
            BY <3>3, <3>4
        <3>6. \A t \in Streams : Owed(t)' = Owed(t)
            BY <2>1 DEF Owed
        <3>7. Ack(s, 0)
            BY <2>1 DEF Ack
        <3>8. IsFiniteSet(Held') /\ CreditConserved'
            <4>1. /\ 0 + Owed(s)' + Cardinality(Units(queue'[s]))
                        = Owed(s) + Cardinality(Units(queue[s]))
                  /\ 0 + owed' + Cardinality(Units(queue'[s]))
                        = owed + Cardinality(Units(queue[s]))
                  /\ Owed(s)' \in Nat
                BY <2>1, <3>3, <3>5, <3>6
            <4> QED BY <3>2, <3>4, <3>6, <3>7, <4>1, AckCredit
        <3>9. (\A t \in Streams : pc'[t] # "drain") => owed' = 0
            BY <1>1, <2>1 DEF CreditInHand
        <3> QED BY <1>2, <3>8, <3>9
    <2> QED BY <2>2, <2>3
<1>6. ASSUME NEW s \in Streams, Get(s) \/ Drain(s)
      PROVE  CreditFacts'
    <2> DEFINE n == Head(queue[s]).ack
    <2>1. /\ queue[s] # <<>> /\ running = s
          /\ queue'[s] = Tail(queue[s]) /\ \A t \in Streams : t # s => queue'[t] = queue[t]
          /\ \A t \in Streams : t # s => pc'[t] = pc[t]
        BY <1>1, <1>6 DEF Get, Drain, Goto
    <2>2. n \in Nat
        BY <2>1, HeadFacts
    <2>3. /\ IsFiniteSet(Units(queue[s])) /\ Cardinality(Units(queue[s])) \in Nat
          /\ owed \in Nat /\ Owed(s) \in Nat
        BY <1>1, CreditNow
    <2>4. /\ IsFiniteSet(Units(queue'[s]))
          /\ Cardinality(Units(queue[s])) = Cardinality(Units(queue'[s])) + n
          /\ Cardinality(Units(queue'[s])) \in Nat
        BY <1>1, <2>1, <2>3, TailCount, FS_CardinalityType
    <2>5. \A t \in Streams : t # s => pc[t] # "drain"
        BY <2>1 DEF RecvInv, OneRuns, Busy
    <2>6. \A t \in Streams : t # s => Owed(t)' = Owed(t)
        BY <2>1, <2>5 DEF Owed
    <2> HIDE DEF n
    <2>7. CASE Get(s)
        <3>1. pc[s] = "get" /\ pc'[s] \in {"get", "check"} /\ owed' = owed
            BY <1>1, <2>7 DEF Get, Goto
        <3>2. owed = 0 /\ owed' = 0 /\ Owed(s) = 0 /\ Owed(s)' = 0
            BY <1>1, <2>1, <3>1, NothingOwed DEF Owed
        <3>3. Ack(s, n)
            <4>1. CASE n = 0
                BY <2>7, <4>1 DEF Get, Ack, n
            <4>2. CASE n # 0
                BY <2>7, <4>2 DEF Get, n
            <4> QED BY <4>1, <4>2
        <3>4. IsFiniteSet(Held') /\ CreditConserved'
            BY <2>1, <2>2, <2>3, <2>4, <2>6, <3>2, <3>3, AckCredit DEF CreditFacts
        <3> QED BY <1>2, <3>2, <3>4
    <2>8. CASE Drain(s)
        <3>1. pc[s] = "drain" /\ pc' = pc /\ owed' = owed + n /\ UNCHANGED windowVars
            BY <2>8 DEF Drain, n
        <3>2. Owed(s) = owed /\ Owed(s)' = owed + n /\ Ack(s, 0)
            BY <3>1 DEF Owed, Ack
        <3>3. IsFiniteSet(Held') /\ CreditConserved'
            <4>1. /\ 0 + Owed(s)' + Cardinality(Units(queue'[s]))
                        = Owed(s) + Cardinality(Units(queue[s]))
                  /\ 0 + owed' + Cardinality(Units(queue'[s]))
                        = owed + Cardinality(Units(queue[s]))
                  /\ Owed(s)' \in Nat
                BY <2>2, <2>3, <2>4, <3>1, <3>2
            <4> QED BY <2>1, <2>4, <2>6, <3>2, <4>1, AckCredit
        <3> QED BY <1>2, <3>1, <3>3
    <2> QED BY <1>6, <2>7, <2>8
<1>7. ASSUME NEW s \in Streams, Drained(s)
      PROVE  CreditFacts'
    <2>1. /\ running = s /\ pc[s] = "drain" /\ pc'[s] = "gone" /\ owed' = 0
          /\ \A t \in Streams : t # s => pc'[t] = pc[t]
          /\ UNCHANGED queue /\ Ack(s, owed)
        BY <1>1, <1>7 DEF Drained, Goto, bufferVars
    <2>2. /\ IsFiniteSet(Units(queue[s])) /\ Cardinality(Units(queue[s])) \in Nat
          /\ owed \in Nat
        BY <1>1, CreditNow
    <2>3. Owed(s) = owed /\ Owed(s)' = 0 /\ \A t \in Streams : t # s => Owed(t)' = Owed(t)
        <3>1. \A t \in Streams : t # s => pc[t] # "drain"
            BY <2>1 DEF RecvInv, OneRuns, Busy
        <3> QED BY <2>1, <3>1 DEF Owed
    <2>4. IsFiniteSet(Held') /\ CreditConserved'
        BY <2>1, <2>2, <2>3, AckCredit
    <2> QED BY <1>2, <2>1, <2>4
<1>8. ASSUME NEW s \in Streams, Release(s)
      PROVE  CreditFacts'
    <2>1. /\ running = Nobody /\ owed' = 0 /\ UNCHANGED <<queue, windowVars>>
        BY <1>8 DEF Release
    <2>2. owed = 0
        BY <1>1, <2>1, RecvAssumption DEF RecvInv, OneRuns, Busy, CreditInHand
    <2>3. \A t \in Streams : Owed(t) = 0 /\ Owed(t)' = 0
        BY <2>1, <2>2 DEF Owed
    <2> QED BY <1>1, <1>2, <2>1, <2>2, <2>3, CreditUntouched
<1>9. ASSUME NEW s \in Streams, NEW n \in Sizes, Read(s, n)
      PROVE  CreditFacts'
    BY <1>1, <1>3, <1>9 DEF Read, Goto, bufferVars
<1>10. ASSUME NEW s \in Streams, Wait(s) \/ Resume(s) \/ Leave(s)
       PROVE  CreditFacts'
    BY <1>1, <1>3, <1>10 DEF Wait, Resume, Leave, Leaves, Goto, bufferVars
<1>11. ASSUME NEW s \in Streams, Check(s)
       PROVE  CreditFacts'
    <2>1. /\ pc[s] \in {"get", "check", "over"}
          /\ pc'[s] \in {"left", "idle", "failed", "take"}
          /\ \A t \in Streams : t # s => pc'[t] = pc[t]
          /\ UNCHANGED <<owed, queue, windowVars>>
        BY <1>1, <1>11 DEF Check, Leaves, Goto, bufferVars
    <2> QED BY <1>3, <2>1
<1>12. ASSUME NEW s \in Streams, Take(s)
       PROVE  CreditFacts'
    <2>1. /\ pc[s] = "take" /\ pc'[s] \in {"idle", "take"}
          /\ \A t \in Streams : t # s => pc'[t] = pc[t]
          /\ UNCHANGED <<owed, queue, windowVars>>
        BY <1>1, <1>12 DEF Take, Leaves, Goto
    <2> QED BY <1>3, <2>1
<1>13. CASE ConnectionLost
    BY <1>1, <1>3, <1>13 DEF ConnectionLost, bufferVars
<1>14. CASE UNCHANGED vars
    BY <1>3, <1>14 DEF vars, readerVars, bufferVars
<1> QED
    BY <1>4, <1>5, <1>6, <1>7, <1>8, <1>9, <1>10, <1>11, <1>12, <1>13, <1>14
    DEF Next, Callback

LEMMA InitCredit == Init => CreditFacts
<1> SUFFICES ASSUME Init PROVE CreditFacts
    OBVIOUS
<1>1. \A s \in Streams : queue[s] = <<>> /\ pc[s] = "idle"
    BY DEF Init
<1>2. Units(<<>>) = {} /\ \A s \in Streams : Units(queue[s]) = {}
    BY <1>1 DEF Units
<1>3. Held = {}
    BY <1>2 DEF Held
<1>4. IsFiniteSet({}) /\ Cardinality({}) = 0
    BY FS_EmptySet
<1>5. /\ owed = 0 /\ open = Limit /\ \A w \in Windows : processed[w] = 0 /\ Limit[w] \in Nat
      /\ \A s \in Streams : Owed(s) = 0
    BY RecvAssumption DEF Init, Owed
<1>6. \A s \in Streams : s \in Windows /\ Conn \in Windows
    BY DEF Windows
<1>7. Conn \in Windows
    BY DEF Windows
<1>8. CreditConserved
    <2>1. Limit[Conn] = open[Conn] + processed[Conn] + owed + Cardinality(Held)
        BY <1>3, <1>4, <1>5, <1>7
    <2>2. ASSUME NEW s \in Streams
          PROVE  Limit[s] = open[s] + processed[s] + Owed(s) + Cardinality(Units(queue[s]))
        <3>1. Cardinality(Units(queue[s])) = 0
            BY <1>2, <1>4
        <3> QED BY <1>5, <1>6, <3>1
    <2> QED BY <2>1, <2>2 DEF CreditConserved
<1> QED
    BY <1>3, <1>4, <1>5, <1>8 DEF CreditFacts, CreditInHand

-----------------------------------------------------------------------------
(* The theorems.                                                           *)

LEMMA RecvInvParts == RecvInv <=> Control /\ QueueFacts
BY DEF RecvInv, Control, QueueFacts

LEMMA InitRecvInv == Init => RecvInv
<1> SUFFICES ASSUME Init PROVE RecvInv
    OBVIOUS
<1>1. Control
    BY RecvAssumption DEF Init, Control, OneRuns, ReadsInHand, ReleasedOnce, Busy, Reading
<1>2. ASSUME NEW s \in Streams PROVE StreamFacts(s, InHand(s))
    <2>1. /\ queue[s] = <<>> /\ acked[s] = <<>> /\ pos[s] = 0 /\ received[s] = 0
          /\ ackedSize[s] = 0 /\ ~ended[s] /\ pc[s] = "idle"
        BY DEF Init
    <2>2. AckedEnd(s) = 0 /\ InHand(s) = 0 /\ Len(<<>>) = 0
        BY <2>1 DEF AckedEnd, InHand
    <2>3. Contiguous(<<>>, 0, 0)
        BY <2>2 DEF Contiguous
    <2> QED BY <2>1, <2>2, <2>3 DEF StreamFacts
<1> QED
    BY <1>1, <1>2, QueueFactsEach, RecvInvParts

LEMMA RecvInvHolds == Spec => [](TypeOK /\ RecvInv)
<1>1. QED
    BY InitTypeOK, InitRecvInv, NextTypeOK, NextControl, NextQueueFacts, RecvInvParts, PTL
    DEF Spec

(* Every state is well typed; in particular no window exceeds its limit and no
   size becomes negative. *)
THEOREM TypeCorrect == Spec => []TypeOK
<1>1. QED
    BY RecvInvHolds, PTL

(* What was received and not read is held once and in order. *)
THEOREM NoByteIsLost == Spec => []BytesInOrder
<1>1. TypeOK /\ RecvInv => BytesInOrder
    BY DEF RecvInv
<1>2. QED
    BY <1>1, RecvInvHolds, PTL

(* _acked_size is the size of what _acked holds. *)
THEOREM SizeIsExact == Spec => []AckedSizeExact
<1>1. TypeOK /\ RecvInv => AckedSizeExact
    BY DEF RecvInv
<1>2. QED
    BY <1>1, RecvInvHolds, PTL

(* No read waits after the end of its stream. *)
THEOREM EndIsNoticed == Spec => []NoWaitAfterEnd
<1>1. TypeOK /\ RecvInv => NoWaitAfterEnd
    BY DEF RecvInv, EndIsLast, ReleasedOnce, NoWaitAfterEnd, TypeOK
<1>2. QED
    BY <1>1, RecvInvHolds, PTL

(* No credit is lost or given twice: every window is shared out between what
   the peer may send, what h2 is about to announce and what the queues hold. *)
THEOREM NoCreditIsLost == Spec => []CreditConserved
<1>1. CreditFacts => CreditConserved
    BY DEF CreditFacts
<1>2. QED
    BY <1>1, InitCredit, NextCredit, RecvInvHolds, PTL DEF Spec

LEMMA HalfIsOpen ==
    ASSUME TypeOK, AnnouncedInTime, CreditFacts
    PROVE  PeerMaySend
<1> DEFINE Half(w) == 2 * open[w] >= Limit[w]
<1>1. ASSUME NEW w \in Windows, Limit[w] = open[w] + processed[w]
      PROVE  Half(w)
    <2>1. open[w] \in Nat /\ processed[w] \in Nat /\ Limit[w] \in Nat
        BY RecvAssumption DEF TypeOK
    <2>2. processed[w] > 0 => processed[w] < Limit[w] \div 2
        BY DEF AnnouncedInTime
    <2>3. 2 * (Limit[w] \div 2) <= Limit[w]
        BY <2>1
    <2> QED BY <1>1, <2>1, <2>2, <2>3
<1>2. Cardinality({}) = 0
    BY FS_EmptySet
<1>3. Conn \in Windows /\ \A s \in Streams : s \in Windows
    BY DEF Windows
<1>4. ASSUME Held = {}, owed = 0 PROVE Half(Conn)
    <2>1. Limit[Conn] = open[Conn] + processed[Conn]
        BY <1>2, <1>3, <1>4 DEF CreditFacts, CreditConserved, TypeOK
    <2> QED BY <1>1, <1>3, <2>1
<1>5. ASSUME NEW s \in Streams, Units(queue[s]) = {}, Owed(s) = 0 PROVE Half(s)
    <2>1. Limit[s] = open[s] + processed[s]
        <3>1. Limit[s] = open[s] + processed[s] + Owed(s) + Cardinality(Units(queue[s]))
            BY DEF CreditFacts, CreditConserved
        <3>2. Owed(s) = 0 /\ Cardinality(Units(queue[s])) = 0
            BY <1>2, <1>5
        <3>3. open[s] + processed[s] \in Nat
            BY <1>3 DEF TypeOK
        <3> QED BY <3>1, <3>2, <3>3
    <2> QED BY <1>1, <1>3, <2>1
<1> QED
    BY <1>4, <1>5 DEF PeerMaySend

(* A reader that has taken all there is never waits for a peer whose window is
   shut: at least half of it is open, whatever part of the credit h2 has kept
   back. *)
THEOREM ReadersReopen == Spec => []PeerMaySend
<1>1. Init => AnnouncedInTime
    BY DEF Init, AnnouncedInTime
<1>2. QED
    BY <1>1, InitCredit, NextCredit, NextInTime, RecvInvHolds, HalfIsOpen, PTL DEF Spec
-----------------------------------------------------------------------------
(* Reads as their callers see them: what ReadsAreWhole rests on.           *)

Within(chunks, bytes) == \A i \in 1 .. Len(chunks) : EndOf(chunks[i]) <= bytes

(* ReadInv, stream by stream. *)
ReadFacts(s) ==
    /\ Within(queue[s], received[s])
    /\ pc[s] = "check" => ackedSize[s] < want[s]
    /\ pc[s] \notin Reading => want[s] = 0
    /\ pc[s] = "over" => ended[s] /\ queue[s] = <<>>
    /\ ended[s] /\ registered[s] /\ queue[s] = <<>> =>
          /\ pc[s] # "take"
          /\ pc[s] \in {"idle", "over"} => ackedSize[s] = 0

LEMMA ReadFactsEach == ReadInv <=> \A s \in Streams : ReadFacts(s)
BY DEF ReadInv, ReadFacts, Within

LEMMA QueuedEnds ==
    ASSUME NEW seq \in Seq(Queued), NEW i \in 1 .. Len(seq)
    PROVE  EndOf(seq[i]) \in Nat
<1>1. seq[i] \in Queued
    BY ElementOfSeq
<1> QED
    BY <1>1, ChunkTypes DEF Chunk, EndOf

LEMMA WithinTail ==
    ASSUME NEW seq \in Seq(Queued), seq # <<>>, NEW b \in Nat, Within(seq, b)
    PROVE  Within(Tail(seq), b)
<1>1. /\ Len(seq) \in Nat \ {0} /\ Len(Tail(seq)) = Len(seq) - 1
      /\ \A i \in 1 .. Len(Tail(seq)) : Tail(seq)[i] = seq[i + 1]
    BY HeadTailProperties, EmptySeq
<1> QED
    BY <1>1 DEF Within

LEMMA WithinAppend ==
    ASSUME NEW seq \in Seq(Queued), NEW b \in Nat, NEW c \in Nat, b <= c,
           Within(seq, b), NEW chunk \in Queued, EndOf(chunk) <= c
    PROVE  Append(seq, chunk) # <<>> /\ Within(Append(seq, chunk), c)
<1>1. /\ Len(seq) \in Nat /\ Len(Append(seq, chunk)) = Len(seq) + 1
      /\ Append(seq, chunk) # <<>>
      /\ \A i \in 1 .. Len(seq) : Append(seq, chunk)[i] = seq[i]
      /\ Append(seq, chunk)[Len(seq) + 1] = chunk
    OBVIOUS
<1>2. \A i \in 1 .. Len(seq) : EndOf(seq[i]) \in Nat
    BY QueuedEnds
<1>3. Within(Append(seq, chunk), c)
    BY <1>1, <1>2 DEF Within
<1> QED
    BY <1>1, <1>3

(* A step of another stream changes nothing that ReadFacts speaks of. *)
LEMMA ReadFactsKept ==
    ASSUME NEW s \in Streams, ReadFacts(s),
           queue'[s] = queue[s], received'[s] = received[s], pc'[s] = pc[s],
           ackedSize'[s] = ackedSize[s], want'[s] = want[s], ended'[s] = ended[s],
           registered'[s] => registered[s]
    PROVE  ReadFacts(s)'
BY DEF ReadFacts, Within, EndOf

LEMMA DataReceivedReads ==
    ASSUME TypeOK, RecvInv, ReadInv, NEW s \in Streams, NEW n \in 0 .. Total[s],
           NEW pad \in Padding, NEW last \in BOOLEAN, DataReceived(s, n, pad, last)
    PROVE  ReadInv'
<1> DEFINE flow == IF n = 0 THEN 0 ELSE n + pad
           chunk == [from |-> received[s], size |-> n, ack |-> flow]
           one == Append(queue[s], chunk)
           two == Append(one, Eof(received[s] + n))
<1>1. /\ running = Nobody /\ ~ended[s]
      /\ received' = [received EXCEPT ![s] = @ + n]
      /\ UNCHANGED <<pc, want, ackedSize, registered>>
      /\ \A t \in Streams : t # s => ended'[t] = ended[t]
      /\ \/ registered[s] /\ queue' = [queue EXCEPT ![s] = IF last THEN two ELSE one]
         \/ ~registered[s] /\ queue' = queue
    BY DEF DataReceived, readerVars, TypeOK
<1>2. /\ queue[s] \in Seq(Queued) /\ received[s] \in Nat /\ n \in Nat /\ pad \in Nat
      /\ queue \in [Streams -> Seq(Queued)] /\ received \in [Streams -> Nat]
    BY RecvAssumption DEF TypeOK
<1>3. /\ chunk \in Queued /\ EndOf(chunk) = received[s] + n
      /\ Eof(received[s] + n) \in Queued /\ EndOf(Eof(received[s] + n)) = received[s] + n
    BY <1>2 DEF Queued, EndOf, Eof
<1>4. received[s] + n \in Nat /\ received[s] <= received[s] + n
    BY <1>2
<1>5. Within(queue[s], received[s]) /\ \A t \in Streams : ReadFacts(t)
    BY ReadFactsEach DEF ReadFacts
<1>6. Within(queue[s], received[s] + n)
    <2>1. \A i \in 1 .. Len(queue[s]) : EndOf(queue[s][i]) \in Nat
        BY <1>2, QueuedEnds
    <2> QED BY <1>2, <1>4, <1>5, <2>1 DEF Within
<1>7. one \in Seq(Queued) /\ one # <<>> /\ Within(one, received[s] + n)
    <2>1. EndOf(chunk) <= received[s] + n
        BY <1>3, <1>4
    <2> HIDE DEF chunk
    <2>2. one # <<>> /\ Within(one, received[s] + n)
        BY <1>2, <1>3, <1>4, <1>5, <2>1, WithinAppend
    <2> QED BY <1>2, <1>3, <2>2
<1>8. two \in Seq(Queued) /\ two # <<>> /\ Within(two, received[s] + n)
    <2> HIDE DEF one
    <2> QED BY <1>3, <1>4, <1>7, WithinAppend
<1>9. pc[s] # "over"
    BY <1>1, RecvAssumption DEF RecvInv, OneRuns, Busy
<1>10. ReadFacts(s)'
    <2> HIDE DEF one, two
    <2>1. received'[s] = received[s] + n /\ pc'[s] = pc[s] /\ want'[s] = want[s]
        BY <1>1, <1>2
    <2>2. CASE registered[s] /\ queue' = [queue EXCEPT ![s] = IF last THEN two ELSE one]
        <3>1. queue'[s] = IF last THEN two ELSE one
            BY <1>2, <2>2
        <3>2. queue'[s] # <<>> /\ Within(queue'[s], received'[s])
            BY <1>7, <1>8, <2>1, <3>1
        <3> QED BY <1>1, <1>5, <1>9, <2>1, <3>2 DEF ReadFacts, Within, EndOf
    <2>3. CASE ~registered[s] /\ queue' = queue
        BY <1>1, <1>5, <1>6, <1>9, <2>1, <2>3 DEF ReadFacts, Within, EndOf
    <2> QED BY <1>1, <2>2, <2>3
<1>11. ASSUME NEW t \in Streams, t # s PROVE ReadFacts(t)'
    <2>1. queue'[t] = queue[t] /\ received'[t] = received[t] /\ ended'[t] = ended[t]
        BY <1>1, <1>2, <1>11
    <2> QED BY <1>1, <1>5, <2>1, ReadFactsKept
<1>12. \A t \in Streams : ReadFacts(t)'
    BY <1>10, <1>11
<1> QED
    BY <1>12, ReadFactsEach DEF ReadInv, ReadFacts, Within

LEMMA NextReadInv == TypeOK /\ RecvInv /\ ReadInv /\ [Next]_vars => ReadInv'
<1> SUFFICES ASSUME TypeOK, RecvInv, ReadInv, [Next]_vars PROVE ReadInv'
    OBVIOUS
<1>1. /\ pc \in [Streams -> Places] /\ want \in [Streams -> Sizes \cup {0}]
      /\ queue \in [Streams -> Seq(Queued)] /\ received \in [Streams -> Nat]
      /\ ackedSize \in [Streams -> Nat] /\ ended \in [Streams -> BOOLEAN]
      /\ Nobody \notin Streams /\ registered \in [Streams -> BOOLEAN]
    BY RecvAssumption DEF TypeOK
<1>2. \A t \in Streams : ReadFacts(t)
    BY ReadFactsEach
<1>3. /\ \A t \in Streams : pc[t] \in Busy <=> running = t
      /\ \A t \in Streams : ended[t] /\ registered[t] /\ pc[t] \in {"get", "waiting"}
                               => queue[t] # <<>>
      /\ \A t \in Streams : registered[t] <=> pc[t] \notin {"drain", "gone"}
    BY DEF RecvInv, OneRuns, EndIsLast, ReleasedOnce
(* It is enough to look at the stream that moves. *)
<1>4. ASSUME NEW s \in Streams, ReadFacts(s)',
             \A t \in Streams \ {s} :
                /\ queue'[t] = queue[t] /\ received'[t] = received[t] /\ pc'[t] = pc[t]
                /\ ackedSize'[t] = ackedSize[t] /\ want'[t] = want[t]
                /\ ended'[t] = ended[t] /\ registered'[t] = registered[t]
      PROVE  ReadInv'
    <2>1. ASSUME NEW t \in Streams, t # s PROVE ReadFacts(t)'
        BY <1>2, <1>4, <2>1, ReadFactsKept
    <2>2. \A t \in Streams : ReadFacts(t)'
        BY <1>4, <2>1
    <2> QED BY <2>2, ReadFactsEach DEF ReadInv, ReadFacts, Within
<1> USE <1>1
<1>5. ASSUME NEW s \in Streams, NEW n \in 0 .. Total[s], NEW pad \in Padding,
             NEW last \in BOOLEAN, DataReceived(s, n, pad, last)
      PROVE  ReadInv'
    BY <1>5, DataReceivedReads
<1>6. ASSUME NEW s \in Streams, StreamEnded(s) PROVE ReadInv'
    <2>1. /\ running = Nobody /\ ~ended[s]
          /\ UNCHANGED <<pc, want, ackedSize, received, registered>>
          /\ ended' = [ended EXCEPT ![s] = TRUE]
          /\ queue' = IF registered[s]
                      THEN [queue EXCEPT ![s] = Append(@, Eof(received[s]))] ELSE queue
        BY <1>6 DEF StreamEnded, readerVars
    <2> DEFINE eof == Eof(received[s])
               more == Append(queue[s], eof)
    <2>2. eof \in Queued /\ EndOf(eof) = received[s]
        BY DEF Queued, EndOf, Eof
    <2>3. more # <<>> /\ Within(more, received[s])
        <3>1. /\ queue[s] \in Seq(Queued) /\ received[s] \in Nat
              /\ received[s] <= received[s] /\ Within(queue[s], received[s])
            BY <1>2 DEF ReadFacts
        <3>2. eof \in Queued /\ EndOf(eof) <= received[s]
            BY <2>2, <3>1
        <3> HIDE DEF eof
        <3> QED BY <3>1, <3>2, WithinAppend
    <2>4. pc[s] # "over"
        BY <1>3, <2>1 DEF Busy
    <2>5. ReadFacts(s)'
        <3> HIDE DEF more
        <3>1. queue'[s] = IF registered[s] THEN more ELSE queue[s]
            BY <2>1 DEF more
        <3>2. /\ Within(queue[s], received[s])'
              /\ registered'[s] => queue'[s] # <<>>
            BY <1>2, <2>1, <2>3, <3>1 DEF ReadFacts, Within, EndOf
        <3> QED BY <1>2, <2>1, <2>4, <3>2 DEF ReadFacts
    <2>6. \A t \in Streams \ {s} : queue'[t] = queue[t] /\ ended'[t] = ended[t]
        BY <2>1
    <2> QED BY <1>4, <2>1, <2>5, <2>6
<1>7. ASSUME NEW s \in Streams, NEW n \in Sizes, Read(s, n) PROVE ReadInv'
    <2>1. /\ pc[s] = "idle" /\ UNCHANGED bufferVars
          /\ want' = [want EXCEPT ![s] = n]
          /\ pc' = [pc EXCEPT ![s] = IF ~ended[s] \/ queue[s] # <<>> THEN "get" ELSE "over"]
        BY <1>7 DEF Read, Goto
    <2>2. ReadFacts(s)'
        BY <1>2, <2>1 DEF ReadFacts, Within, EndOf, bufferVars, Reading
    <2> QED BY <1>4, <2>1, <2>2 DEF bufferVars
<1>8. ASSUME NEW s \in Streams, Get(s) PROVE ReadInv'
    <2>1. /\ pc[s] = "get" /\ ackedSize[s] < want[s] /\ queue[s] # <<>>
          /\ queue' = [queue EXCEPT ![s] = Tail(@)]
          /\ UNCHANGED <<want, ended, received, registered>>
          /\ \/ pc' = [pc EXCEPT ![s] = "check"] /\ UNCHANGED ackedSize
             \/ pc' = pc
          /\ \A t \in Streams : t # s => ackedSize'[t] = ackedSize[t]
        BY <1>8 DEF Get, Goto
    <2>2. Within(Tail(queue[s]), received[s])
        BY <1>2, <2>1, WithinTail DEF ReadFacts
    <2>3. queue'[s] = Tail(queue[s])
        BY <2>1
    <2>4. ReadFacts(s)'
        BY <1>2, <2>1, <2>2, <2>3 DEF ReadFacts, Within, EndOf, Reading
    <2> QED BY <1>4, <2>1, <2>4
<1>9. ASSUME NEW s \in Streams, Wait(s) PROVE ReadInv'
    <2>1. /\ pc[s] = "get" /\ pc' = [pc EXCEPT ![s] = "waiting"]
          /\ UNCHANGED <<want, bufferVars>>
        BY <1>9 DEF Wait, Goto
    <2>2. ReadFacts(s)'
        BY <1>2, <2>1 DEF ReadFacts, Within, EndOf, bufferVars, Reading
    <2> QED BY <1>4, <2>1, <2>2 DEF bufferVars
<1>10. ASSUME NEW s \in Streams, Resume(s) PROVE ReadInv'
    <2>1. /\ pc[s] = "waiting" /\ pc' = [pc EXCEPT ![s] = "get"]
          /\ UNCHANGED <<want, bufferVars>>
        BY <1>10 DEF Resume, Goto
    <2>2. ReadFacts(s)'
        BY <1>2, <2>1 DEF ReadFacts, Within, EndOf, bufferVars, Reading
    <2> QED BY <1>4, <2>1, <2>2 DEF bufferVars
<1>11. ASSUME NEW s \in Streams, Check(s) PROVE ReadInv'
    <2>1. /\ pc[s] \in {"get", "check", "over"} /\ UNCHANGED bufferVars
          /\ pc[s] = "get" => ackedSize[s] >= want[s]
          /\ running = s
        BY <1>11 DEF Check
    <2>2. registered[s]
        BY <1>3, <2>1
    <2>3. want[s] \in Nat /\ want[s] > 0
        BY <2>1, SizesType DEF RecvInv, ReadsInHand, Reading
    <2>4. CASE ended[s] /\ ackedSize[s] = 0
               /\ (Leaves(s, "left") \/ Leaves(s, "idle"))
        <3>1. ReadFacts(s)'
            BY <1>2, <2>1, <2>4 DEF ReadFacts, Within, EndOf, bufferVars, Reading, Leaves, Goto
        <3> QED BY <1>4, <2>1, <2>4, <3>1 DEF bufferVars, Leaves, Goto
    <2>5. CASE Leaves(s, "failed")
        <3>1. ReadFacts(s)'
            BY <1>2, <2>1, <2>5 DEF ReadFacts, Within, EndOf, bufferVars, Reading, Leaves, Goto
        <3> QED BY <1>4, <2>1, <2>5, <3>1 DEF bufferVars, Leaves, Goto
    <2>6. CASE /\ ackedSize[s] > 0 /\ ackedSize[s] >= want[s]
               /\ Goto(s, "take") /\ UNCHANGED <<running, want, gathered>>
        <3>1. pc[s] = "get"
            BY <1>2, <2>1, <2>2, <2>3, <2>6 DEF ReadFacts
        <3>2. ended[s] => queue[s] # <<>>
            BY <1>3, <2>2, <3>1
        <3>3. ReadFacts(s)'
            BY <1>2, <2>1, <2>6, <3>2 DEF ReadFacts, Within, EndOf, bufferVars, Reading, Goto
        <3> QED BY <1>4, <2>1, <2>6, <3>3 DEF bufferVars, Goto
    <2> QED BY <1>11, <2>4, <2>5, <2>6 DEF Check
<1>12. ASSUME NEW s \in Streams, Take(s) PROVE ReadInv'
    <2>1. PICK n \in Nat :
              \/ /\ ackedSize' = [ackedSize EXCEPT ![s] = @ - want[s]]
                 /\ Leaves(s, "idle")
              \/ UNCHANGED <<ackedSize, pc, want>>
        BY <1>12, TakeFacts
    <2>2. /\ pc[s] = "take"
          /\ UNCHANGED <<queue, ended, received, registered>>
        BY <1>12 DEF Take
    <2>3. ReadFacts(s)'
        <3>1. registered[s]
            BY <1>3, <2>2
        <3>2. queue[s] # <<>> \/ ~ended[s]
            BY <1>2, <2>2, <3>1 DEF ReadFacts
        <3> QED BY <1>2, <2>1, <2>2, <3>2 DEF ReadFacts, Within, EndOf, Reading, Leaves, Goto
    <2> QED BY <1>4, <2>1, <2>2, <2>3 DEF Leaves, Goto
<1>13. ASSUME NEW s \in Streams, Leave(s) PROVE ReadInv'
    <2>1. Leaves(s, "left") /\ UNCHANGED bufferVars
        BY <1>13 DEF Leave
    <2>2. ReadFacts(s)'
        BY <1>2, <2>1 DEF ReadFacts, Within, EndOf, bufferVars, Reading, Leaves, Goto
    <2> QED BY <1>4, <2>1, <2>2 DEF bufferVars, Leaves, Goto
<1>14. ASSUME NEW s \in Streams, Release(s) PROVE ReadInv'
    <2>1. /\ pc[s] = "left" /\ UNCHANGED <<want, queue, ackedSize, ended, received>>
          /\ registered' = [registered EXCEPT ![s] = FALSE]
          /\ \/ pc' = [pc EXCEPT ![s] = "gone"]
             \/ pc' = [pc EXCEPT ![s] = "drain"]
        BY <1>14 DEF Release, Goto
    <2>2. ReadFacts(s)'
        BY <1>2, <2>1 DEF ReadFacts, Within, EndOf, Reading
    <2> QED BY <1>4, <2>1, <2>2
<1>15. ASSUME NEW s \in Streams, Drain(s) PROVE ReadInv'
    <2>1. /\ pc[s] = "drain" /\ queue[s] # <<>>
          /\ queue' = [queue EXCEPT ![s] = Tail(@)]
          /\ UNCHANGED <<pc, want, ackedSize, ended, received, registered>>
        BY <1>15 DEF Drain
    <2>2. Within(Tail(queue[s]), received[s])
        BY <1>2, <2>1, WithinTail DEF ReadFacts
    <2>3. queue'[s] = Tail(queue[s]) /\ ~registered[s]
        BY <1>3, <2>1
    <2>4. ReadFacts(s)'
        BY <1>2, <2>1, <2>2, <2>3 DEF ReadFacts, Within, EndOf, Reading
    <2> QED BY <1>4, <2>1, <2>4
<1>16. ASSUME NEW s \in Streams, Drained(s) PROVE ReadInv'
    <2>1. /\ pc[s] = "drain" /\ pc' = [pc EXCEPT ![s] = "gone"]
          /\ UNCHANGED <<want, bufferVars>>
        BY <1>16 DEF Drained, Goto
    <2>2. ReadFacts(s)'
        BY <1>2, <2>1 DEF ReadFacts, Within, EndOf, bufferVars, Reading
    <2> QED BY <1>4, <2>1, <2>2 DEF bufferVars
<1>17. CASE ConnectionLost
    <2>1. /\ running = Nobody /\ UNCHANGED bufferVars
          /\ want' = [s \in Streams |-> 0]
          /\ pc' = [s \in Streams |->
                      IF pc[s] \in {"idle", "waiting", "failed"} THEN "left" ELSE pc[s]]
        BY <1>17 DEF ConnectionLost
    <2>2. ASSUME NEW s \in Streams PROVE ReadFacts(s)'
        <3>1. pc[s] \notin Busy /\ want'[s] = 0
            BY <1>3, <2>1
        <3>2. pc'[s] \in {"left", "gone"}
            BY <2>1, <3>1 DEF Busy, Places
        <3> QED BY <1>2, <2>1, <3>1, <3>2 DEF ReadFacts, Within, EndOf, bufferVars, Reading
    <2> QED BY <2>2, ReadFactsEach DEF ReadInv, ReadFacts, Within
<1>18. CASE UNCHANGED vars
    <2>1. UNCHANGED <<pc, want, bufferVars>>
        BY <1>18 DEF vars, readerVars
    <2> QED BY <2>1 DEF ReadInv, bufferVars, EndOf
<1> QED
    BY <1>5, <1>6, <1>7, <1>8, <1>9, <1>10, <1>11, <1>12, <1>13, <1>14, <1>15, <1>16,
       <1>17, <1>18
    DEF Next, Callback

LEMMA InitReadInv == Init => ReadInv
<1> SUFFICES ASSUME Init, NEW s \in Streams PROVE ReadFacts(s)
    BY ReadFactsEach
<1>1. /\ queue[s] = <<>> /\ pc[s] = "idle" /\ want[s] = 0 /\ ackedSize[s] = 0
      /\ ~ended[s] /\ Len(<<>>) = 0
    BY DEF Init
<1> QED
    BY <1>1 DEF ReadFacts, Within, Reading

-----------------------------------------------------------------------------
(* The refinement of ByteStream, step by step.                             *)

LEMMA InitReads == Init => Reads!Init
<1> SUFFICES ASSUME Init PROVE Reads!Init
    OBVIOUS
<1>1. ASSUME NEW s \in Streams
      PROVE  Reader(s) = "idle" /\ Returned(s) = 0 /\ Unread(s) = FALSE
    <2>1. pc[s] = "idle" /\ queue[s] = <<>> /\ pos[s] = 0
        BY DEF Init
    <2>2. Reader(s) = "idle"
        BY <2>1 DEF Reader
    <2> QED BY <2>1, <2>2 DEF Returned, Unread
<1>2. readers = [s \in Streams |-> "idle"]
    BY <1>1 DEF readers
<1>3. returned = [s \in Streams |-> 0]
    BY <1>1 DEF returned
<1>4. unread = [s \in Streams |-> FALSE]
    BY <1>1 DEF unread
<1>5. /\ want = [s \in Streams |-> 0] /\ received = [s \in Streams |-> 0]
      /\ ended = [s \in Streams |-> FALSE]
    BY DEF Init
<1> QED
    BY <1>2, <1>3, <1>4, <1>5 DEF Reads!Init

(* What the caller of a stream sees depends on these. *)
LEMMA SeenAlike ==
    ASSUME NEW s \in Streams, pc'[s] = pc[s], queue'[s] = queue[s], pos'[s] = pos[s],
           pc[s] = "take" => gathered' = gathered
    PROVE  Reader(s)' = Reader(s) /\ Returned(s)' = Returned(s) /\ Unread(s)' = Unread(s)
<1>1. Reader(s)' = Reader(s)
    BY DEF Reader
<1> QED
    BY <1>1 DEF Returned, Unread

(* A step of one stream changes what the callers of that one see. *)
LEMMA SeenAt ==
    ASSUME TypeOK, RecvInv, NEW s \in Streams, running \in {s, Nobody},
           \A t \in Streams \ {s} :
               pc'[t] = pc[t] /\ queue'[t] = queue[t] /\ pos'[t] = pos[t]
    PROVE  /\ readers' = [readers EXCEPT ![s] = Reader(s)']
           /\ returned' = [returned EXCEPT ![s] = Returned(s)']
           /\ unread' = [unread EXCEPT ![s] = Unread(s)']
           /\ readers[s] = Reader(s) /\ returned[s] = Returned(s) /\ unread[s] = Unread(s)
<1>1. ASSUME NEW t \in Streams, t # s
      PROVE  /\ Reader(t)' = Reader(t) /\ Returned(t)' = Returned(t)
             /\ Unread(t)' = Unread(t)
    <2>1. pc[t] # "take"
        <3>1. Nobody \notin Streams
            BY RecvAssumption
        <3> QED BY <1>1, <3>1 DEF RecvInv, OneRuns, Busy
    <2> QED BY <1>1, <2>1, SeenAlike
<1>2. readers' = [readers EXCEPT ![s] = Reader(s)'] /\ readers[s] = Reader(s)
    BY <1>1 DEF readers
<1>3. returned' = [returned EXCEPT ![s] = Returned(s)'] /\ returned[s] = Returned(s)
    BY <1>1 DEF returned
<1>4. unread' = [unread EXCEPT ![s] = Unread(s)'] /\ unread[s] = Unread(s)
    BY <1>1 DEF unread
<1> QED
    BY <1>2, <1>3, <1>4

(* A step that the callers of no stream see. *)
LEMMA SeenByNobody ==
    ASSUME TypeOK, RecvInv, NEW s \in Streams, running \in {s, Nobody},
           \A t \in Streams \ {s} :
               pc'[t] = pc[t] /\ queue'[t] = queue[t] /\ pos'[t] = pos[t],
           Reader(s)' = Reader(s), Returned(s)' = Returned(s), Unread(s)' = Unread(s),
           UNCHANGED <<want, received, ended>>
    PROVE  UNCHANGED Reads!vars
<1>1. /\ readers' = [readers EXCEPT ![s] = readers[s]]
      /\ returned' = [returned EXCEPT ![s] = returned[s]]
      /\ unread' = [unread EXCEPT ![s] = unread[s]]
    BY SeenAt
<1>2. UNCHANGED <<readers, returned, unread>>
    BY <1>1 DEF readers, returned, unread
<1> QED
    BY <1>2 DEF Reads!vars

(* The sizes that a read compares. *)
LEMMA SizesMeet ==
    ASSUME TypeOK, RecvInv, ReadInv, NEW s \in Streams, registered[s]
    PROVE  /\ Returned(s) + ackedSize[s] = AckedEnd(s)
           /\ AckedEnd(s) <= received[s]
           /\ queue[s] = <<>> => AckedEnd(s) = received[s]
           /\ Returned(s) \in Int /\ AckedEnd(s) \in Nat
<1>1. ackedSize[s] = AckedEnd(s) - pos[s] + (IF pc[s] = "take" THEN gathered ELSE 0)
    BY DEF RecvInv, AckedSizeExact
<1>2. /\ AckedEnd(s) \in Nat /\ pos[s] \in Nat /\ gathered \in Nat /\ received[s] \in Nat
      /\ queue[s] \in Seq(Queued)
    BY AckedEndType DEF TypeOK
<1>3. CASE queue[s] # <<>>
    <2>1. 1 \in 1 .. Len(queue[s])
        BY <1>2, <1>3, EmptySeq
    <2>2. queue[s][1] \in Queued
        BY <1>2, <2>1, ElementOfSeq
    <2>3. EndOf(queue[s][1]) <= received[s]
        BY <2>1 DEF ReadInv
    <2>4. queue[s][1].from \in Nat /\ queue[s][1].size \in Nat
        BY <2>2, ChunkTypes DEF Chunk
    <2>5. queue[s][1].from <= received[s]
        <3> DEFINE a == queue[s][1].from
                   n == queue[s][1].size
        <3>1. a \in Nat /\ n \in Nat /\ a + n <= received[s]
            BY <2>3, <2>4 DEF EndOf
        <3> HIDE DEF a, n
        <3>2. a <= received[s]
            BY <1>2, <3>1
        <3> QED BY <3>2 DEF a
    <2>6. AckedEnd(s) <= received[s]
        BY <1>3, <2>5 DEF AckedEnd
    <2> QED BY <1>1, <1>2, <1>3, <2>6 DEF Returned
<1>4. CASE queue[s] = <<>>
    <2>1. AckedEnd(s) = received[s]
        BY <1>4 DEF AckedEnd
    <2> QED BY <1>1, <1>2, <2>1 DEF Returned
<1> QED
    BY <1>3, <1>4

LEMMA ArriveStep ==
    ASSUME TypeOK, RecvInv, NEW s \in Streams, running = Nobody, ~ended[s],
           NEW n \in 0 .. Total[s], NEW last \in BOOLEAN,
           received' = [received EXCEPT ![s] = @ + n],
           ended' = [ended EXCEPT ![s] = last],
           NEW more \in Seq(Queued), more # <<>>,
           queue' = IF registered[s] THEN [queue EXCEPT ![s] = more] ELSE queue,
           UNCHANGED <<pc, want, gathered, pos>>
    PROVE  Reads!Arrive(s, n, last)
<1>1. queue \in [Streams -> Seq(Queued)] /\ pc \in [Streams -> Places]
    BY DEF TypeOK
<1>2. /\ readers' = [readers EXCEPT ![s] = Reader(s)']
      /\ returned' = [returned EXCEPT ![s] = Returned(s)']
      /\ unread' = [unread EXCEPT ![s] = Unread(s)']
      /\ readers[s] = Reader(s) /\ returned[s] = Returned(s) /\ unread[s] = Unread(s)
    <2>1. \A t \in Streams \ {s} :
               pc'[t] = pc[t] /\ queue'[t] = queue[t] /\ pos'[t] = pos[t]
        BY <1>1
    <2> QED BY <2>1, SeenAt
<1>3. Returned(s)' = returned[s]
    BY <1>2 DEF Returned
<1>4. Reader(s)' = (IF readers[s] = "blocked" THEN "reading" ELSE readers[s])
    <2>1. pc[s] = "waiting" => registered[s]
        BY DEF RecvInv, ReleasedOnce
    <2>2. pc[s] = "waiting" => queue'[s] = more
        BY <1>1, <2>1
    <2> QED BY <1>2, <2>2 DEF Reader
<1>5. Unread(s)' = (readers[s] # "left")
    <2>1. Reader(s)' = "left" <=> Reader(s) = "left"
        BY <1>2, <1>4
    <2>2. Reader(s) # "left" => registered[s]
        BY DEF RecvInv, ReleasedOnce, Reader
    <2>3. registered[s] => queue'[s] # <<>>
        BY <1>1
    <2> QED BY <1>2, <2>1, <2>2, <2>3 DEF Unread
<1>6. UNCHANGED returned
    BY <1>2, <1>3 DEF returned
<1> QED
    BY <1>2, <1>4, <1>5, <1>6 DEF Reads!Arrive

(* A step of the reader of s, which has come or is to come to the event loop:
   what its caller sees before and after. *)
LEMMA ReaderStep ==
    ASSUME TypeOK, RecvInv, NEW s \in Streams, running \in {s, Nobody},
           \A t \in Streams \ {s} : pc'[t] = pc[t],
           queue' = queue,
           \A t \in Streams \ {s} : pos'[t] = pos[t]
    PROVE  /\ readers' = [readers EXCEPT ![s] = Reader(s)'] /\ readers[s] = Reader(s)
           /\ returned' = [returned EXCEPT ![s] = Returned(s)'] /\ returned[s] = Returned(s)
           /\ unread' = [unread EXCEPT ![s] = Unread(s)'] /\ unread[s] = Unread(s)
BY SeenAt

LEMMA ReadStep ==
    ASSUME TypeOK, RecvInv, NEW s \in Streams, NEW n \in Sizes, Read(s, n)
    PROVE  Reads!Ask(s, n)
<1>1. /\ running = Nobody /\ pc[s] = "idle"
      /\ want' = [want EXCEPT ![s] = n]
      /\ pc' = [pc EXCEPT ![s] = IF ~ended[s] \/ queue[s] # <<>> THEN "get" ELSE "over"]
      /\ UNCHANGED <<pos, queue, received, ended>>
    BY DEF Read, Goto, bufferVars
<1>2. /\ readers' = [readers EXCEPT ![s] = Reader(s)'] /\ readers[s] = Reader(s)
      /\ returned' = [returned EXCEPT ![s] = Returned(s)'] /\ returned[s] = Returned(s)
      /\ unread' = [unread EXCEPT ![s] = Unread(s)'] /\ unread[s] = Unread(s)
    BY <1>1, ReaderStep
<1>3. pc'[s] = IF ~ended[s] \/ queue[s] # <<>> THEN "get" ELSE "over"
    BY <1>1 DEF TypeOK
<1>4. /\ Reader(s) = "idle"
      /\ Reader(s)' = IF ~ended[s] \/ queue[s] # <<>> THEN "reading" ELSE "stopped"
    BY <1>1, <1>3 DEF Reader
<1>5. Unread(s) = (queue[s] # <<>>) /\ Unread(s)' = Unread(s)
    BY <1>1, <1>4 DEF Unread
<1>6. Returned(s)' = Returned(s)
    BY <1>1, <1>3 DEF Returned
<1>7. UNCHANGED <<returned, unread>>
    BY <1>2, <1>5, <1>6 DEF returned, unread
<1>8. Reader(s)' = IF ended[s] /\ ~unread[s] THEN "stopped" ELSE "reading"
    BY <1>2, <1>4, <1>5
<1> QED
    BY <1>1, <1>2, <1>4, <1>7, <1>8 DEF Reads!Ask

LEMMA GetStep ==
    ASSUME TypeOK, RecvInv, NEW s \in Streams, Get(s)
    PROVE  Reads!Fetch(s)
<1>1. /\ running = s /\ pc[s] = "get" /\ queue[s] # <<>>
      /\ queue' = [queue EXCEPT ![s] = Tail(@)]
      /\ pc' = [pc EXCEPT ![s] = "check"] \/ pc' = pc
      /\ UNCHANGED <<want, pos, received, ended>>
    BY DEF Get, Goto
<1>2. /\ readers' = [readers EXCEPT ![s] = Reader(s)'] /\ readers[s] = Reader(s)
      /\ returned' = [returned EXCEPT ![s] = Returned(s)'] /\ returned[s] = Returned(s)
      /\ unread' = [unread EXCEPT ![s] = Unread(s)'] /\ unread[s] = Unread(s)
    <2>1. \A t \in Streams \ {s} :
              pc'[t] = pc[t] /\ queue'[t] = queue[t] /\ pos'[t] = pos[t]
        BY <1>1 DEF TypeOK
    <2> QED BY <1>1, <2>1, SeenAt
<1>3. pc'[s] \in {"get", "check"}
    BY <1>1 DEF TypeOK
<1>4. Reader(s) = "reading" /\ Reader(s)' \in {"reading", "stopped"}
    BY <1>1, <1>3 DEF Reader
<1>5. Unread(s) = TRUE /\ Unread(s)' \in BOOLEAN
    BY <1>1, <1>4 DEF Unread
<1>6. Returned(s)' = Returned(s)
    BY <1>1, <1>3 DEF Returned
<1>7. UNCHANGED returned
    BY <1>2, <1>6 DEF returned
<1> QED
    BY <1>1, <1>2, <1>4, <1>5, <1>7 DEF Reads!Fetch

LEMMA WaitStep ==
    ASSUME TypeOK, RecvInv, ReadInv, NEW s \in Streams, Wait(s)
    PROVE  Reads!Block(s)
<1>1. /\ running = s /\ pc[s] = "get" /\ queue[s] = <<>> /\ ackedSize[s] < want[s]
      /\ pc' = [pc EXCEPT ![s] = "waiting"]
      /\ UNCHANGED <<want, pos, queue, received, ended>>
    BY DEF Wait, Goto, bufferVars
<1>2. /\ readers' = [readers EXCEPT ![s] = Reader(s)'] /\ readers[s] = Reader(s)
      /\ returned' = [returned EXCEPT ![s] = Returned(s)'] /\ returned[s] = Returned(s)
      /\ unread' = [unread EXCEPT ![s] = Unread(s)'] /\ unread[s] = Unread(s)
    BY <1>1, ReaderStep
<1>3. pc'[s] = "waiting"
    BY <1>1 DEF TypeOK
<1>4. Reader(s) = "reading" /\ Reader(s)' = "blocked"
    BY <1>1, <1>3 DEF Reader
<1>5. Unread(s) = FALSE /\ Unread(s)' = FALSE
    BY <1>1 DEF Unread
<1>6. Returned(s)' = Returned(s)
    BY <1>1, <1>3 DEF Returned
<1>7. UNCHANGED <<returned, unread>>
    BY <1>2, <1>5, <1>6 DEF returned, unread
<1>8. registered[s] /\ ~ended[s]
    BY <1>1 DEF RecvInv, ReleasedOnce, EndIsLast
<1>9. Returned(s) + want[s] > received[s]
    <2>1. Returned(s) + ackedSize[s] = received[s] /\ Returned(s) \in Int
        BY <1>1, <1>8, SizesMeet
    <2>2. ackedSize[s] \in Nat /\ want[s] \in Nat
        BY SizesType DEF TypeOK
    <2> QED BY <1>1, <2>1, <2>2
<1> QED
    BY <1>1, <1>2, <1>4, <1>5, <1>7, <1>8, <1>9 DEF Reads!Block, Reads!Missing

LEMMA CheckStep ==
    ASSUME TypeOK, RecvInv, ReadInv, NEW s \in Streams, Check(s)
    PROVE  Reads!TellEnd(s) \/ Reads!Fail(s) \/ UNCHANGED Reads!vars
<1>1. /\ running = s /\ pc[s] \in {"get", "check", "over"}
      /\ pc[s] = "get" => ackedSize[s] >= want[s]
      /\ UNCHANGED <<pos, queue, received, ended>>
    BY DEF Check, bufferVars
<1>2. /\ registered[s] /\ want[s] \in Nat /\ want[s] > 0 /\ ackedSize[s] \in Nat
      /\ \A t \in Streams : pc[t] # "take"
      /\ gathered = 0
    BY <1>1, SizesType DEF RecvInv, ReleasedOnce, OneRuns, Busy, ReadsInHand, Reading, TypeOK
<1>3. ReadFacts(s)
    BY ReadFactsEach
<1>4. /\ Returned(s) = pos[s] /\ Returned(s) \in Int
      /\ queue[s] = <<>> => Returned(s) + ackedSize[s] = received[s]
    <2>1. pos[s] \in Nat /\ pc[s] # "take"
        BY <1>1 DEF TypeOK
    <2>2. Returned(s) = pos[s]
        BY <2>1 DEF Returned
    <2> QED BY <1>2, <2>2, SizesMeet
<1>5. ASSUME NEW place \in {"left", "idle", "failed"}, Leaves(s, place)
      PROVE  /\ readers' = [readers EXCEPT ![s] = place] /\ readers[s] = Reader(s)
             /\ UNCHANGED returned /\ returned[s] = Returned(s)
             /\ unread' = [unread EXCEPT ![s] = queue[s] # <<>> /\ place # "left"]
             /\ unread[s] = (queue[s] # <<>>)
             /\ want' = [want EXCEPT ![s] = 0]
    <2>1. pc' = [pc EXCEPT ![s] = place] /\ want' = [want EXCEPT ![s] = 0]
        BY <1>5 DEF Leaves, Goto
    <2>2. /\ readers' = [readers EXCEPT ![s] = Reader(s)'] /\ readers[s] = Reader(s)
          /\ returned' = [returned EXCEPT ![s] = Returned(s)'] /\ returned[s] = Returned(s)
          /\ unread' = [unread EXCEPT ![s] = Unread(s)'] /\ unread[s] = Unread(s)
        BY <1>1, <2>1, ReaderStep
    <2>3. pc'[s] = place
        BY <2>1 DEF TypeOK
    <2>4. Reader(s)' = place /\ Reader(s) # "left"
        BY <1>1, <2>3 DEF Reader
    <2>5. Returned(s)' = Returned(s)
        BY <1>1, <1>2, <1>4, <2>3 DEF Returned
    <2>6. /\ Unread(s) = (queue[s] # <<>>)
          /\ Unread(s)' = (queue[s] # <<>> /\ place # "left")
        BY <1>1, <2>4 DEF Unread
    <2>7. UNCHANGED returned
        BY <2>2, <2>5 DEF returned
    <2> QED BY <2>1, <2>2, <2>4, <2>6, <2>7
<1>6. CASE /\ ended[s] /\ ackedSize[s] = 0
           /\ Leaves(s, IF pc[s] = "over" THEN "left" ELSE "idle")
    <2>1. pc[s] \in {"check", "over"}
        BY <1>1, <1>2, <1>6
    <2>2. Reader(s) = "stopped"
        BY <2>1 DEF Reader
    <2>3. queue[s] = <<>> => Returned(s) = received[s]
        BY <1>4, <1>6
    <2>4. CASE Leaves(s, "idle")
        <3>1. unread' = [unread EXCEPT ![s] = unread[s]]
            BY <1>5, <2>4
        <3>2. UNCHANGED unread
            BY <3>1 DEF unread
        <3> QED BY <1>1, <1>5, <1>6, <2>2, <2>3, <2>4, <3>2 DEF Reads!TellEnd, Reads!Ends
    <2>5. CASE Leaves(s, "left")
        BY <1>1, <1>5, <1>6, <2>2, <2>3, <2>5 DEF Reads!TellEnd, Reads!Ends
    <2> QED BY <1>6, <2>4, <2>5
<1>7. CASE ackedSize[s] < want[s] /\ Leaves(s, "failed")
    <2>1. pc[s] \in {"check", "over"}
        BY <1>1, <1>2, <1>7
    <2>2. Reader(s) = "stopped"
        BY <2>1 DEF Reader
    <2>3. queue[s] = <<>> => Returned(s) + want[s] > received[s]
        BY <1>2, <1>4, <1>7
    <2>4. unread' = [unread EXCEPT ![s] = unread[s]]
        BY <1>5, <1>7
    <2>5. UNCHANGED unread
        BY <2>4 DEF unread
    <2> QED
        BY <1>1, <1>5, <1>7, <2>2, <2>3, <2>5 DEF Reads!Fail, Reads!Ends, Reads!Missing
<1>8. CASE /\ ackedSize[s] > 0 /\ ackedSize[s] >= want[s]
           /\ Goto(s, "take") /\ UNCHANGED <<running, want, gathered>>
    <2>1. pc[s] = "get"
        BY <1>1, <1>2, <1>3, <1>8 DEF ReadFacts
    <2>2. pc' = [pc EXCEPT ![s] = "take"] /\ pc'[s] = "take"
        BY <1>8 DEF TypeOK, Goto
    <2>3. Reader(s) = "reading" /\ Reader(s)' = "reading"
        BY <2>1, <2>2 DEF Reader
    <2>4. Returned(s)' = Returned(s)
        <3>1. pos[s] \in Nat /\ pos' = pos
            BY <1>1 DEF TypeOK
        <3> QED BY <1>2, <1>4, <1>8, <2>2, <3>1 DEF Returned
    <2>5. Unread(s)' = Unread(s)
        BY <1>1, <2>3 DEF Unread
    <2> QED BY <1>1, <1>8, <2>2, <2>3, <2>4, <2>5, SeenByNobody
<1> QED
    BY <1>6, <1>7, <1>8 DEF Check

LEMMA TakeStep ==
    ASSUME TypeOK, RecvInv, ReadInv, NEW s \in Streams, Take(s)
    PROVE  Reads!Return(s) \/ UNCHANGED Reads!vars
<1>1. PICK n \in Nat :
          /\ pos' = [pos EXCEPT ![s] = @ + n]
          /\ \/ /\ gathered + n = want[s]
                /\ Leaves(s, "idle")
             \/ /\ gathered' = gathered + n
                /\ UNCHANGED <<pc, want>>
    BY TakeFacts
<1>2. running = s /\ pc[s] = "take" /\ UNCHANGED <<queue, received, ended>>
    BY DEF Take
<1>3. /\ registered[s] /\ want[s] \in Nat /\ want[s] <= ackedSize[s]
      /\ ackedSize[s] \in Nat /\ gathered \in Nat /\ pos[s] \in Nat
    BY <1>2, SizesType DEF RecvInv, ReleasedOnce, ReadsInHand, TypeOK
<1>4. Returned(s) = pos[s] - gathered /\ pos'[s] = pos[s] + n
    BY <1>1, <1>2 DEF Returned, TypeOK
<1>5. Reader(s) = "reading"
    BY <1>2 DEF Reader
<1>6. CASE gathered + n = want[s] /\ Leaves(s, "idle")
    <2>1. pc' = [pc EXCEPT ![s] = "idle"] /\ want' = [want EXCEPT ![s] = 0]
        BY <1>6 DEF Leaves, Goto
    <2>2. /\ readers' = [readers EXCEPT ![s] = Reader(s)'] /\ readers[s] = Reader(s)
          /\ returned' = [returned EXCEPT ![s] = Returned(s)'] /\ returned[s] = Returned(s)
          /\ unread' = [unread EXCEPT ![s] = Unread(s)'] /\ unread[s] = Unread(s)
        BY <1>1, <1>2, <2>1, ReaderStep
    <2>3. pc'[s] = "idle"
        BY <2>1 DEF TypeOK
    <2>4. Reader(s)' = "idle"
        BY <2>3 DEF Reader
    <2>5. Returned(s)' = Returned(s) + want[s]
        <3>1. Returned(s)' = pos'[s]
            BY <1>3, <1>4, <2>3 DEF Returned
        <3> QED BY <1>3, <1>4, <1>6, <3>1
    <2>6. Unread(s)' = Unread(s)
        BY <1>2, <1>5, <2>4 DEF Unread
    <2>7. UNCHANGED unread
        BY <2>2, <2>6 DEF unread
    <2>8. Returned(s) + want[s] <= received[s]
        <3>1. /\ Returned(s) + ackedSize[s] = AckedEnd(s) /\ AckedEnd(s) <= received[s]
              /\ Returned(s) \in Int /\ AckedEnd(s) \in Nat
            BY <1>3, SizesMeet
        <3>2. received[s] \in Nat
            BY DEF TypeOK
        <3> QED BY <1>3, <3>1, <3>2
    <2>9. ~(returned[s] + want[s] > received[s])
        <3>1. Returned(s) \in Int /\ received[s] \in Nat
            BY <1>3, <1>4 DEF TypeOK
        <3> QED BY <1>3, <2>2, <2>8, <3>1
    <2>10. returned' = [returned EXCEPT ![s] = @ + want[s]]
        BY <2>2, <2>5
    <2> QED
        BY <1>2, <1>5, <2>1, <2>2, <2>4, <2>7, <2>9, <2>10
        DEF Reads!Return, Reads!Ends, Reads!Missing
<1>7. CASE gathered' = gathered + n /\ UNCHANGED <<pc, want>>
    <2>1. Reader(s)' = Reader(s)
        BY <1>2, <1>7 DEF Reader
    <2>2. Returned(s)' = Returned(s)
        <3>1. Returned(s)' = pos'[s] - gathered'
            BY <1>2, <1>7 DEF Returned
        <3> QED BY <1>3, <1>4, <1>7, <3>1
    <2>3. Unread(s)' = Unread(s)
        BY <1>2, <2>1 DEF Unread
    <2>4. \A t \in Streams \ {s} :
              pc'[t] = pc[t] /\ queue'[t] = queue[t] /\ pos'[t] = pos[t]
        BY <1>1, <1>2, <1>7 DEF TypeOK
    <2> QED BY <1>2, <1>7, <2>1, <2>2, <2>3, <2>4, SeenByNobody
<1> QED
    BY <1>1, <1>6, <1>7

(* The readers of S leave; what they were asked for is forgotten, as is what
   those that left earlier were asked for. *)
LEMMA LeaveStep ==
    ASSUME TypeOK, RecvInv, ReadInv, running = Nobody, NEW S \in SUBSET Streams,
           \A s \in S : pc[s] \in {"idle", "waiting", "failed"},
           pc' = [s \in Streams |-> IF s \in S THEN "left" ELSE pc[s]],
           \A s \in Streams : want'[s] = (IF s \in S THEN 0 ELSE want[s]),
           want' \in [Streams -> Sizes \cup {0}],
           UNCHANGED <<pos, queue, received, ended>>
    PROVE  Reads!Leave(S)
<1>1. ASSUME NEW s \in S PROVE Reader(s) \notin {"stopped", "left"}
    BY <1>1 DEF Reader
<1>2. Nobody \notin Streams
    BY RecvAssumption
<1>3. ASSUME NEW s \in Streams
      PROVE  /\ Reader(s)' = (IF s \in S THEN "left" ELSE Reader(s))
             /\ Returned(s)' = Returned(s)
             /\ Unread(s)' = (Unread(s) /\ s \notin S)
    <2>1. pc[s] # "take" /\ pc'[s] = (IF s \in S THEN "left" ELSE pc[s])
        BY <1>2 DEF RecvInv, OneRuns, Busy
    <2>2. CASE s \in S
        <3>1. Reader(s)' = "left"
            BY <2>1, <2>2 DEF Reader
        <3>2. pc'[s] # "take"
            BY <2>1, <2>2
        <3> QED BY <2>1, <2>2, <3>1, <3>2 DEF Returned, Unread
    <2>3. CASE s \notin S
        <3>1. Reader(s)' = Reader(s)
            BY <2>1, <2>3 DEF Reader
        <3> QED BY <2>1, <2>3, <3>1 DEF Returned, Unread
    <2> QED BY <2>2, <2>3
<1>4. readers' = [s \in Streams |-> IF s \in S THEN "left" ELSE readers[s]]
    BY <1>3 DEF readers
<1>5. unread' = [s \in Streams |-> unread[s] /\ s \notin S]
    BY <1>3 DEF unread
<1>6. UNCHANGED returned
    BY <1>3 DEF returned
<1>7. \A s \in S : readers[s] \notin {"stopped", "left"}
    BY <1>1 DEF readers
<1>8. want' = [s \in Streams |-> IF s \in S THEN 0 ELSE want[s]]
    OBVIOUS
<1> QED
    BY <1>4, <1>5, <1>6, <1>7, <1>8 DEF Reads!Leave

LEMMA StepReads ==
    TypeOK /\ RecvInv /\ ReadInv /\ TypeOK' /\ [Next]_vars => [Reads!Next]_Reads!vars
<1> SUFFICES ASSUME TypeOK, RecvInv, ReadInv, TypeOK', [Next]_vars
             PROVE  [Reads!Next]_Reads!vars
    OBVIOUS
<1>1. ASSUME NEW s \in Streams, NEW n \in 0 .. Total[s], NEW pad \in Padding,
             NEW last \in BOOLEAN, DataReceived(s, n, pad, last)
      PROVE  Reads!Next
    <2> DEFINE flow == IF n = 0 THEN 0 ELSE n + pad
               chunk == [from |-> received[s], size |-> n, ack |-> flow]
               one == Append(queue[s], chunk)
               two == Append(one, Eof(received[s] + n))
               more == IF last THEN two ELSE one
    <2>1. /\ running = Nobody /\ ~ended[s]
          /\ received' = [received EXCEPT ![s] = @ + n]
          /\ ended' = [ended EXCEPT ![s] = last]
          /\ queue' = IF registered[s] THEN [queue EXCEPT ![s] = more] ELSE queue
          /\ UNCHANGED <<pc, want, gathered, pos>>
        BY <1>1 DEF DataReceived, readerVars
    <2>2. /\ queue[s] \in Seq(Queued) /\ received[s] \in Nat /\ n \in Nat /\ pad \in Nat
        BY RecvAssumption DEF TypeOK
    <2>3. chunk \in Queued /\ Eof(received[s] + n) \in Queued
        BY <2>2 DEF Queued, Eof
    <2>4. more \in Seq(Queued) /\ more # <<>>
        <3> HIDE DEF chunk
        <3>1. one \in Seq(Queued) /\ one # <<>>
            BY <2>2, <2>3, AppendShape
        <3> HIDE DEF one
        <3>2. two \in Seq(Queued) /\ two # <<>>
            BY <2>3, <3>1, AppendShape
        <3> QED BY <3>1, <3>2
    <2> HIDE DEF more
    <2>5. Reads!Arrive(s, n, last)
        BY <2>1, <2>4, ArriveStep
    <2> QED BY <2>5 DEF Reads!Next
<1>2. ASSUME NEW s \in Streams, StreamEnded(s) PROVE Reads!Next
    <2> DEFINE more == Append(queue[s], Eof(received[s]))
    <2>1. /\ running = Nobody /\ ~ended[s] /\ UNCHANGED received
          /\ ended' = [ended EXCEPT ![s] = TRUE]
          /\ queue' = IF registered[s] THEN [queue EXCEPT ![s] = more] ELSE queue
          /\ UNCHANGED <<pc, want, gathered, pos>>
        BY <1>2 DEF StreamEnded, readerVars
    <2>2. received[s] \in Nat /\ received \in [Streams -> Nat] /\ Total[s] \in Nat
        BY RecvAssumption DEF TypeOK
    <2>3. received' = [received EXCEPT ![s] = @ + 0] /\ 0 \in 0 .. Total[s]
        BY <2>1, <2>2
    <2>4. more \in Seq(Queued) /\ more # <<>>
        <3>1. queue[s] \in Seq(Queued) /\ Eof(received[s]) \in Queued
            BY <2>2 DEF TypeOK, Queued, Eof
        <3> QED BY <3>1, AppendShape
    <2> HIDE DEF more
    <2>5. Reads!Arrive(s, 0, TRUE)
        BY <2>1, <2>3, <2>4, ArriveStep
    <2> QED BY <2>3, <2>5 DEF Reads!Next
<1>3. ASSUME NEW s \in Streams, NEW n \in Sizes, Read(s, n) PROVE Reads!Next
    BY <1>3, ReadStep DEF Reads!Next
<1>4. ASSUME NEW s \in Streams, Get(s) PROVE Reads!Next
    BY <1>4, GetStep DEF Reads!Next
<1>5. ASSUME NEW s \in Streams, Wait(s) PROVE Reads!Next
    BY <1>5, WaitStep DEF Reads!Next
<1>6. ASSUME NEW s \in Streams, Resume(s) PROVE UNCHANGED Reads!vars
    <2>1. /\ running = Nobody /\ pc[s] = "waiting" /\ queue[s] # <<>>
          /\ pc' = [pc EXCEPT ![s] = "get"]
          /\ UNCHANGED <<want, pos, queue, received, ended>>
        BY <1>6 DEF Resume, Goto, bufferVars
    <2>2. pc'[s] = "get" /\ \A t \in Streams \ {s} : pc'[t] = pc[t]
        BY <2>1 DEF TypeOK
    <2>3. Reader(s)' = "reading" /\ Reader(s) = "reading"
        BY <2>1, <2>2 DEF Reader
    <2>4. Returned(s)' = Returned(s) /\ Unread(s)' = Unread(s)
        BY <2>1, <2>2, <2>3 DEF Returned, Unread
    <2> QED BY <2>1, <2>2, <2>3, <2>4, SeenByNobody
<1>7. ASSUME NEW s \in Streams, Check(s) PROVE [Reads!Next]_Reads!vars
    BY <1>7, CheckStep DEF Reads!Next
<1>8. ASSUME NEW s \in Streams, Take(s) PROVE [Reads!Next]_Reads!vars
    BY <1>8, TakeStep DEF Reads!Next
<1>9. ASSUME NEW s \in Streams, Leave(s) PROVE Reads!Next
    <2>1. /\ running = Nobody /\ pc[s] \in {"idle", "waiting", "failed"}
          /\ pc' = [pc EXCEPT ![s] = "left"] /\ want' = [want EXCEPT ![s] = 0]
          /\ UNCHANGED <<pos, queue, received, ended>>
        BY <1>9 DEF Leave, Leaves, Goto, bufferVars
    <2>2. /\ pc' = [t \in Streams |-> IF t \in {s} THEN "left" ELSE pc[t]]
          /\ \A t \in Streams : want'[t] = (IF t \in {s} THEN 0 ELSE want[t])
        BY <2>1 DEF TypeOK
    <2>3. want' \in [Streams -> Sizes \cup {0}] /\ {s} \in SUBSET Streams
        BY DEF TypeOK
    <2>4. Reads!Leave({s})
        BY <2>1, <2>2, <2>3, LeaveStep
    <2> QED BY <2>3, <2>4 DEF Reads!Next
(* The caller of a stream that has been left is gone. *)
<1>10. ASSUME NEW s \in Streams,
              pc[s] \in {"left", "drain"}, pc'[s] \in {"drain", "gone"},
              running \in {s, Nobody},
              \A t \in Streams \ {s} :
                  pc'[t] = pc[t] /\ queue'[t] = queue[t],
              UNCHANGED <<want, pos, received, ended>>
       PROVE  UNCHANGED Reads!vars
    <2>1. Reader(s)' = "left" /\ Reader(s) = "left"
        BY <1>10 DEF Reader
    <2>2. Returned(s)' = Returned(s) /\ Unread(s)' = Unread(s)
        BY <1>10, <2>1 DEF Returned, Unread
    <2> QED BY <1>10, <2>1, <2>2, SeenByNobody
<1>11. ASSUME NEW s \in Streams, Release(s) PROVE UNCHANGED Reads!vars
    <2>1. /\ running = Nobody /\ pc[s] = "left"
          /\ \/ pc' = [pc EXCEPT ![s] = "gone"]
             \/ pc' = [pc EXCEPT ![s] = "drain"]
          /\ UNCHANGED <<want, pos, queue, received, ended>>
        BY <1>11 DEF Release, Goto
    <2>2. pc'[s] \in {"drain", "gone"} /\ \A t \in Streams \ {s} : pc'[t] = pc[t]
        BY <2>1 DEF TypeOK
    <2> QED BY <1>10, <2>1, <2>2
<1>12. ASSUME NEW s \in Streams, Drain(s) PROVE UNCHANGED Reads!vars
    <2>1. /\ running = s /\ pc[s] = "drain" /\ queue' = [queue EXCEPT ![s] = Tail(@)]
          /\ UNCHANGED <<pc, want, pos, received, ended>>
        BY <1>12 DEF Drain
    <2>2. \A t \in Streams \ {s} : queue'[t] = queue[t]
        BY <2>1 DEF TypeOK
    <2> QED BY <1>10, <2>1, <2>2
<1>13. ASSUME NEW s \in Streams, Drained(s) PROVE UNCHANGED Reads!vars
    <2>1. /\ running = s /\ pc[s] = "drain" /\ pc' = [pc EXCEPT ![s] = "gone"]
          /\ UNCHANGED <<want, pos, queue, received, ended>>
        BY <1>13 DEF Drained, Goto, bufferVars
    <2>2. pc'[s] = "gone" /\ \A t \in Streams \ {s} : pc'[t] = pc[t]
        BY <2>1 DEF TypeOK
    <2> QED BY <1>10, <2>1, <2>2
<1>14. CASE ConnectionLost
    <2> DEFINE S == {s \in Streams : pc[s] \in {"idle", "waiting", "failed"}}
    <2>1. /\ running = Nobody /\ want' = [s \in Streams |-> 0]
          /\ pc' = [s \in Streams |-> IF s \in S THEN "left" ELSE pc[s]]
          /\ UNCHANGED <<pos, queue, received, ended>>
        BY <1>14 DEF ConnectionLost, bufferVars
    <2>2. ASSUME NEW s \in Streams
          PROVE  want'[s] = (IF s \in S THEN 0 ELSE want[s])
        <3>1. pc[s] \notin Busy
            BY <2>1, RecvAssumption DEF RecvInv, OneRuns
        <3>2. s \notin S => want[s] = 0
            BY <3>1 DEF ReadInv, Busy, Reading
        <3> QED BY <2>1, <3>2
    <2>3. want' \in [Streams -> Sizes \cup {0}] /\ S \in SUBSET Streams
        BY DEF TypeOK
    <2>4. \A s \in S : pc[s] \in {"idle", "waiting", "failed"}
        OBVIOUS
    <2> HIDE DEF S
    <2>5. Reads!Leave(S)
        BY <2>1, <2>2, <2>3, <2>4, LeaveStep
    <2> QED BY <2>3, <2>5 DEF Reads!Next
<1>15. CASE UNCHANGED vars
    <2>1. UNCHANGED <<pc, want, gathered, pos, queue, received, ended>>
        BY <1>15 DEF vars, readerVars, bufferVars
    <2>2. ASSUME NEW s \in Streams
          PROVE  Reader(s)' = Reader(s) /\ Returned(s)' = Returned(s) /\ Unread(s)' = Unread(s)
        BY <2>1, SeenAlike
    <2>3. UNCHANGED <<readers, returned, unread>>
        BY <2>2 DEF readers, returned, unread
    <2> QED BY <2>1, <2>3 DEF Reads!vars
<1> QED
    BY <1>1, <1>2, <1>3, <1>4, <1>5, <1>6, <1>7, <1>8, <1>9, <1>11, <1>12, <1>13,
       <1>14, <1>15
    DEF Next, Callback

(* Buffer.read() implements ByteStream: across chunks that are cut, reads that
   span chunks or wait, and streams that end, are left or lost, a read takes
   what it was asked for in one step or nothing. *)
THEOREM ReadsAreAtomic == Spec => ReadsAreWhole
<1>1. Spec => []ReadInv
    BY InitReadInv, NextReadInv, RecvInvHolds, PTL DEF Spec
<1>2. QED
    BY <1>1, RecvInvHolds, InitReads, StepReads, PTL DEF Spec, ReadsAreWhole, Reads!Spec

=============================================================================
