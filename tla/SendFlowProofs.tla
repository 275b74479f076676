--------------------------- MODULE SendFlowProofs ---------------------------
(***************************************************************************)
(* Proofs about SendFlow, for any number of streams, any sizes and any     *)
(* windows: type correctness, no lost wake-up, no overdrawn window and the *)
(* bound of the transport's buffer.                                        *)
(***************************************************************************)
EXTENDS SendFlow, FiniteSetTheorems, TLAPS

LEMMA LeastType ==
    ASSUME NEW a \in Int, NEW b \in Int
    PROVE  /\ Least(a, b) \in Int
           /\ Least(a, b) <= a /\ Least(a, b) <= b
           /\ Least(a, b) = a \/ Least(a, b) = b
BY DEF Least

LEMMA InitTypeOK == Init => TypeOK
BY SendAssumption DEF Init, TypeOK, Places

(* What a frame does to the counters. *)
LEMMA FrameFacts ==
    ASSUME TypeOK, NEW s \in Streams, OutboundWindow(s) > 0, Frame(s)
    PROVE  \E n \in Nat :
              /\ n <= MaxFrame /\ n <= conn /\ n <= window[s] /\ n <= left[s]
              /\ left' = [left EXCEPT ![s] = @ - n]
              /\ conn' = conn - n
              /\ window' = [window EXCEPT ![s] = @ - n]
              /\ buffered' \in buffered .. buffered + n
              /\ ready' = (ready /\ buffered' <= HighWater)
              /\ IF n = left[s]
                 THEN pc' = [pc EXCEPT ![s] = "done"] /\ running' = Nobody
                 ELSE pc' = [pc EXCEPT ![s] = "top"] /\ running' = s
              /\ UNCHANGED <<updated, initial, settings>>
<1> DEFINE n == Least(OutboundWindow(s), Least(MaxFrame, left[s]))
<1>1. /\ conn \in Int /\ window[s] \in Int /\ left[s] \in Nat
      /\ MaxFrame \in Nat /\ buffered \in Nat
    BY SendAssumption DEF TypeOK
<1>2. OutboundWindow(s) \in Int /\ OutboundWindow(s) <= conn
      /\ OutboundWindow(s) <= window[s]
    BY <1>1 DEF OutboundWindow, Least
<1>3. Least(MaxFrame, left[s]) \in Nat
      /\ Least(MaxFrame, left[s]) <= MaxFrame /\ Least(MaxFrame, left[s]) <= left[s]
    BY <1>1 DEF Least
<1>4. n \in Nat /\ n <= OutboundWindow(s) /\ n <= Least(MaxFrame, left[s])
    BY <1>2, <1>3 DEF Least
<1>5. n <= MaxFrame /\ n <= conn /\ n <= window[s] /\ n <= left[s]
    BY <1>1, <1>2, <1>3, <1>4
<1>6. buffered' \in buffered .. buffered + n
      /\ ready' = (ready /\ buffered' <= HighWater)
    BY <1>1, <1>4 DEF Frame, Write
<1> QED
    BY <1>4, <1>5, <1>6 DEF Frame, Goto

LEMMA NextTypeOK == TypeOK /\ [Next]_vars => TypeOK'
<1> SUFFICES ASSUME TypeOK, [Next]_vars PROVE TypeOK'
    OBVIOUS
<1> USE SendAssumption
<1>1. ASSUME NEW s \in Streams, SendOrWait(s) PROVE TypeOK'
    <2>1. CASE OutboundWindow(s) > 0 /\ Frame(s)
        <3> PICK n \in Nat :
              /\ n <= left[s]
              /\ left' = [left EXCEPT ![s] = @ - n]
              /\ conn' = conn - n
              /\ window' = [window EXCEPT ![s] = @ - n]
              /\ buffered' \in buffered .. buffered + n
              /\ ready' = (ready /\ buffered' <= HighWater)
              /\ IF n = left[s]
                 THEN pc' = [pc EXCEPT ![s] = "done"] /\ running' = Nobody
                 ELSE pc' = [pc EXCEPT ![s] = "top"] /\ running' = s
              /\ UNCHANGED <<updated, initial, settings>>
            BY <2>1, FrameFacts
        <3> QED
            BY DEF TypeOK, Places
    <2>2. CASE AwaitWindow(s)
        BY <2>2 DEF AwaitWindow, Goto, windowVars, TypeOK, Places
    <2> QED
        BY <1>1, <2>1, <2>2 DEF SendOrWait
<1>2. ASSUME NEW s \in Streams, AwaitReady(s) PROVE TypeOK'
    BY <1>2 DEF AwaitReady, Goto, windowVars, TypeOK, Places
<1>3. ASSUME NEW s \in Streams, Terminate(s) PROVE TypeOK'
    BY <1>3 DEF Terminate, Goto, windowVars, TypeOK, Places
<1>4. ASSUME NEW s \in Streams, StreamCredit(s) PROVE TypeOK'
    BY <1>4 DEF StreamCredit, SetUpdated, TypeOK, Places
<1>5. CASE Drain
    <2> PICK n \in 0 .. buffered : buffered' = n
        BY <1>5 DEF Drain
    <2>1. buffered' \in Nat
        BY DEF TypeOK
    <2>2. pc' \in [Streams -> Places] /\ ready' \in BOOLEAN
        BY <1>5 DEF Drain, TypeOK, Places
    <2> QED
        BY <1>5, <2>1, <2>2 DEF Drain, windowVars, TypeOK
<1>6. CASE ConnCredit
    BY <1>6 DEF ConnCredit, ConnUpdated, SetUpdated, TypeOK, Places
<1>7. CASE SettingsChanged
    BY <1>7 DEF SettingsChanged, SetUpdated, TypeOK, Places
<1>8. CASE UNCHANGED vars
    BY <1>8 DEF vars, senderVars, windowVars, TypeOK
<1> QED
    BY <1>1, <1>2, <1>3, <1>4, <1>5, <1>6, <1>7, <1>8 DEF Next, Send, Resume

(* Type correctness, for all constants. *)
THEOREM TypeCorrect == Spec => []TypeOK
BY InitTypeOK, NextTypeOK, PTL DEF Spec

-----------------------------------------------------------------------------

LEMMA NextWakeInv ==
    TypeOK /\ WakeInv /\ [Next]_vars => WakeInv'
<1> SUFFICES ASSUME TypeOK, WakeInv, [Next]_vars PROVE WakeInv'
    OBVIOUS
<1> USE SendAssumption DEF WakeInv, NoLostWakeup, OutboundWindow, Least
<1>1. ASSUME NEW s \in Streams, SendOrWait(s) PROVE WakeInv'
    <2>1. CASE OutboundWindow(s) > 0 /\ Frame(s)
        <3> PICK n \in Nat :
              /\ n <= conn
              /\ conn' = conn - n
              /\ window' = [window EXCEPT ![s] = @ - n]
              /\ buffered' \in Nat /\ buffered <= buffered'
              /\ ready' = (ready /\ buffered' <= HighWater)
              /\ \/ pc' = [pc EXCEPT ![s] = "done"]
                 \/ pc' = [pc EXCEPT ![s] = "top"]
            BY <2>1, FrameFacts DEF TypeOK
        <3> QED
            BY DEF TypeOK
    <2>2. CASE OutboundWindow(s) <= 0 /\ AwaitWindow(s)
        BY <2>2 DEF AwaitWindow, Goto, windowVars, TypeOK
    <2> QED
        BY <1>1, <2>1, <2>2 DEF SendOrWait
<1>2. ASSUME NEW s \in Streams, AwaitReady(s) PROVE WakeInv'
    BY <1>2 DEF AwaitReady, Goto, windowVars, TypeOK
<1>3. ASSUME NEW s \in Streams, Terminate(s) PROVE WakeInv'
    BY <1>3 DEF Terminate, Goto, windowVars, TypeOK
<1>4. ASSUME NEW s \in Streams, StreamCredit(s) PROVE WakeInv'
    BY <1>4 DEF StreamCredit, SetUpdated, TypeOK
<1>5. CASE Drain
    BY <1>5 DEF Drain, windowVars, TypeOK
<1>6. CASE ConnCredit
    BY <1>6 DEF ConnCredit, ConnUpdated, SetUpdated, TypeOK
<1>7. CASE SettingsChanged
    BY <1>7 DEF SettingsChanged, SetUpdated, TypeOK
<1>8. CASE UNCHANGED vars
    BY <1>8 DEF vars, senderVars, windowVars
<1> QED
    BY <1>1, <1>2, <1>3, <1>4, <1>5, <1>6, <1>7, <1>8 DEF Next, Send, Resume

(* The waits of send_data() miss no event. *)
THEOREM NoWakeupIsLost == Spec => []NoLostWakeup
<1>1. Init => WakeInv
    BY SendAssumption DEF Init, WakeInv, NoLostWakeup
<1>2. WakeInv => NoLostWakeup
    BY DEF WakeInv
<1>3. QED
    BY <1>1, <1>2, NextWakeInv, TypeCorrect, PTL DEF Spec

(* Windows, pauses and cancellations cut no message short. *)
THEOREM NothingIsCutShort == Spec => []MessagesAreWhole
<1>1. Init => MessagesAreWhole
    BY SendAssumption DEF Init, MessagesAreWhole
<1>2. TypeOK /\ MessagesAreWhole /\ [Next]_vars => MessagesAreWhole'
    <2> SUFFICES ASSUME TypeOK, MessagesAreWhole, [Next]_vars PROVE MessagesAreWhole'
        OBVIOUS
    <2> USE DEF MessagesAreWhole
    <2>1. ASSUME NEW s \in Streams, SendOrWait(s), pc[s] \in {"top", "woken"}
          PROVE  MessagesAreWhole'
        <3>1. CASE OutboundWindow(s) > 0 /\ Frame(s)
            <4> PICK n \in Nat :
                  /\ left' = [left EXCEPT ![s] = @ - n]
                  /\ IF n = left[s] THEN pc' = [pc EXCEPT ![s] = "done"]
                                    ELSE pc' = [pc EXCEPT ![s] = "top"]
                BY <3>1, FrameFacts
            <4> QED
                BY DEF TypeOK
        <3>2. CASE AwaitWindow(s)
            BY <2>1, <3>2 DEF AwaitWindow, Goto, TypeOK
        <3> QED
            BY <2>1, <3>1, <3>2 DEF SendOrWait
    <2>2. ASSUME NEW s \in Streams, AwaitReady(s) \/ Terminate(s) PROVE MessagesAreWhole'
        BY <2>2 DEF AwaitReady, Terminate, Sending, Goto, TypeOK
    <2>3. ASSUME NEW S, SetUpdated(S), UNCHANGED left PROVE MessagesAreWhole'
        BY <2>3 DEF SetUpdated, TypeOK
    <2>4. CASE Drain \/ UNCHANGED vars
        BY <2>4 DEF Drain, vars, senderVars, TypeOK
    <2> QED
        BY <2>1, <2>2, <2>3, <2>4
        DEF Next, Send, Resume, StreamCredit, ConnCredit, ConnUpdated, SettingsChanged
<1>3. QED
    BY <1>1, <1>2, TypeCorrect, PTL DEF Spec

-----------------------------------------------------------------------------

(* Only a frame takes bytes from a message, and a frame fits both windows. *)
LEMMA StepRespectsWindows ==
    ASSUME TypeOK, [Next]_vars, NEW s \in Streams, left'[s] < left[s]
    PROVE  window[s] > 0 /\ window'[s] >= 0 /\ conn' >= 0
<1> USE SendAssumption
<1>1. ASSUME NEW r \in Streams, SendOrWait(r)
      PROVE  window[s] > 0 /\ window'[s] >= 0 /\ conn' >= 0
    <2>1. CASE OutboundWindow(r) > 0 /\ Frame(r)
        <3> PICK n \in Nat :
              /\ n <= conn /\ n <= window[r]
              /\ left' = [left EXCEPT ![r] = @ - n]
              /\ conn' = conn - n
              /\ window' = [window EXCEPT ![r] = @ - n]
            BY <2>1, FrameFacts
        <3>1. r = s
            BY DEF TypeOK
        <3>2. window[r] > 0
            BY <2>1 DEF OutboundWindow, Least, TypeOK
        <3> QED
            BY <3>1, <3>2 DEF TypeOK
    <2>2. CASE AwaitWindow(r)
        BY <2>2 DEF AwaitWindow, TypeOK
    <2> QED
        BY <1>1, <2>1, <2>2 DEF SendOrWait
<1>2. CASE \E r \in Streams : AwaitReady(r) \/ Terminate(r) \/ StreamCredit(r)
    BY <1>2 DEF AwaitReady, Terminate, StreamCredit, TypeOK
<1>3. CASE Drain \/ ConnCredit \/ SettingsChanged
    BY <1>3 DEF Drain, ConnCredit, SettingsChanged, TypeOK
<1>4. CASE UNCHANGED vars
    BY <1>4 DEF vars, senderVars, TypeOK
<1> QED
    BY <1>1, <1>2, <1>3, <1>4 DEF Next, Send, Resume

(* DATA never overdraws a window. *)
THEOREM SendsRespectWindows == Spec => WindowsRespected
<1>1. TypeOK /\ [Next]_vars
      => [\A s \in Streams :
            left'[s] < left[s] =>
                window[s] > 0 /\ window'[s] >= 0 /\ conn' >= 0]_vars
    BY StepRespectsWindows
<1>2. QED
    BY <1>1, TypeCorrect, PTL DEF Spec, WindowsRespected

-----------------------------------------------------------------------------

LEMMA CardWoken ==
    /\ IsFiniteSet(Woken)
    /\ Cardinality(Woken) \in Nat
    /\ Cardinality(Streams) \in Nat
    /\ Cardinality(Woken) <= Cardinality(Streams)
BY SendAssumption, FS_Subset, FS_CardinalityType DEF Woken

(* The bound grows with every woken sender that has used its frame. *)
LEMMA Scale ==
    ASSUME NEW a \in Int, NEW b \in Int, a <= b
    PROVE  /\ MaxFrame * a <= MaxFrame * b
           /\ MaxFrame * (a + 1) = MaxFrame * a + MaxFrame
           /\ MaxFrame * a \in Int
<1>1. MaxFrame \in Nat
    BY SendAssumption
<1>2. b - a \in Nat /\ MaxFrame * (b - a) \in Nat
    BY <1>1
<1>3. MaxFrame * b = MaxFrame * a + MaxFrame * (b - a)
    BY <1>1
<1> QED
    BY <1>1, <1>2, <1>3

(* Where the number of senders still to be woken does not grow and the buffer
   does not either, the bound holds on. *)
LEMMA BoundKept ==
    ASSUME TypeOK, BufferInv, Woken' \subseteq Woken,
           buffered' \in Nat, buffered' <= buffered, ready' => ready
    PROVE  BufferInv'
<1> DEFINE k  == Cardinality(Streams) - Cardinality(Woken)
           k2 == Cardinality(Streams) - Cardinality(Woken')
<1>1. Cardinality(Woken') \in Nat /\ Cardinality(Woken') <= Cardinality(Woken)
    BY CardWoken, FS_Subset, FS_CardinalityType
<1>2. k \in Int /\ k2 \in Int /\ k <= k2
    BY <1>1, CardWoken
<1>3. MaxFrame * k <= MaxFrame * k2 /\ MaxFrame * k \in Int /\ MaxFrame * k2 \in Int
    BY <1>2, Scale
<1>4. buffered \in Nat /\ HighWater \in Nat
    BY SendAssumption DEF TypeOK
<1>5. buffered <= HighWater + MaxFrame * k
    BY DEF BufferInv
<1>6. buffered' <= HighWater + MaxFrame * k2
    BY <1>3, <1>4, <1>5
<1> QED
    BY <1>4, <1>6 DEF BufferInv

LEMMA SendKeepsBufferInv ==
    ASSUME TypeOK, BufferInv, NEW s \in Streams, SendOrWait(s),
           pc[s] = "woken" \/ (pc[s] = "top" /\ ready)
    PROVE  BufferInv'
<1>1. CASE OutboundWindow(s) > 0 /\ Frame(s)
    <2> PICK n \in Nat :
          /\ n <= MaxFrame
          /\ buffered' \in Nat /\ buffered' <= buffered + n
          /\ ready' = (ready /\ buffered' <= HighWater)
          /\ \/ pc' = [pc EXCEPT ![s] = "done"]
             \/ pc' = [pc EXCEPT ![s] = "top"]
        BY <1>1, FrameFacts DEF TypeOK
    <2>1. Woken' = Woken \ {s}
        BY DEF Woken, TypeOK
    <2>2. /\ buffered \in Nat /\ HighWater \in Nat /\ MaxFrame \in Nat
        BY SendAssumption DEF TypeOK
    <2> DEFINE k  == Cardinality(Streams) - Cardinality(Woken)
               k2 == Cardinality(Streams) - Cardinality(Woken')
    <2>3. k \in Nat
        BY CardWoken
    <2>4. CASE pc[s] = "woken"
        <3>1. s \in Woken
            BY <2>4 DEF Woken
        <3>2. Cardinality(Woken \ {s}) = Cardinality(Woken) - 1
            BY <3>1, CardWoken, FS_RemoveElement
        <3>3. k2 = k + 1
            BY <3>2, <2>1, CardWoken
        <3>4. MaxFrame * k2 = MaxFrame * k + MaxFrame /\ MaxFrame * k \in Int
            BY <3>3, <2>3, Scale
        <3>5. buffered <= HighWater + MaxFrame * k
            BY DEF BufferInv
        <3>6. buffered' <= HighWater + MaxFrame * k2
            BY <3>4, <3>5, <2>2
        <3> QED
            BY <3>6 DEF BufferInv
    <2>5. CASE pc[s] = "top" /\ ready
        <3>1. s \notin Woken
            BY <2>5 DEF Woken
        <3>2. Woken' = Woken
            BY <3>1, <2>1
        <3>3. Woken \cup {s} \subseteq Streams
            BY DEF Woken
        <3>4. Cardinality(Woken \cup {s}) = Cardinality(Woken) + 1
            BY <3>1, CardWoken, FS_AddElement
        <3>5. Cardinality(Woken \cup {s}) <= Cardinality(Streams)
            BY <3>3, SendAssumption, FS_Subset
        <3>6. k2 = k /\ 1 <= k
            BY <3>2, <3>4, <3>5, CardWoken
        <3>7. MaxFrame * 1 <= MaxFrame * k /\ MaxFrame * k \in Int
            BY <3>6, <2>3, Scale
        <3>8. buffered <= HighWater
            BY <2>5 DEF BufferInv
        <3>9. buffered' <= HighWater + MaxFrame * k2
            BY <3>6, <3>7, <3>8, <2>2
        <3> QED
            BY <3>9 DEF BufferInv
    <2> QED
        BY <2>4, <2>5
<1>2. CASE AwaitWindow(s)
    <2>1. Woken' \subseteq Woken
        BY <1>2 DEF AwaitWindow, Goto, Woken, TypeOK
    <2> QED
        BY <1>2, <2>1, BoundKept DEF AwaitWindow, TypeOK
<1> QED
    BY <1>1, <1>2 DEF SendOrWait

LEMMA NextBufferInv == TypeOK /\ BufferInv /\ [Next]_vars => BufferInv'
<1> SUFFICES ASSUME TypeOK, BufferInv, [Next]_vars PROVE BufferInv'
    OBVIOUS
<1>1. ASSUME NEW s \in Streams, Send(s) \/ Resume(s) PROVE BufferInv'
    BY <1>1, SendKeepsBufferInv DEF Send, Resume
<1>2. ASSUME NEW s \in Streams, AwaitReady(s) \/ Terminate(s) PROVE BufferInv'
    <2>1. Woken' \subseteq Woken
        BY <1>2 DEF AwaitReady, Terminate, Goto, Woken, TypeOK
    <2> QED
        BY <1>2, <2>1, BoundKept DEF AwaitReady, Terminate, TypeOK
<1>3. ASSUME NEW S, SetUpdated(S), UNCHANGED <<buffered, ready>> PROVE BufferInv'
    <2>1. Woken' \subseteq Woken
        BY <1>3 DEF SetUpdated, Woken, TypeOK
    <2> QED
        BY <1>3, <2>1, BoundKept DEF TypeOK
<1>4. CASE Drain
    <2> PICK n \in 0 .. buffered :
          /\ n < buffered /\ buffered' = n
          /\ \/ ~ready /\ n <= LowWater /\ ready'
             \/ UNCHANGED <<ready, pc>>
        BY <1>4 DEF Drain
    <2>1. buffered \in Nat /\ buffered' \in Nat
        BY DEF TypeOK
    <2>2. CASE n <= LowWater /\ ready'
        <3> DEFINE k2 == Cardinality(Streams) - Cardinality(Woken')
        <3>1. Woken' \subseteq Streams
            BY DEF Woken
        <3>2. k2 \in Nat
            BY <3>1, SendAssumption, FS_Subset, FS_CardinalityType
        <3>3. MaxFrame * 0 <= MaxFrame * k2 /\ MaxFrame * k2 \in Int
            BY <3>2, Scale
        <3> QED
            BY <2>1, <2>2, <3>3, SendAssumption DEF BufferInv
    <2>3. CASE UNCHANGED <<ready, pc>>
        BY <2>1, <2>3, BoundKept DEF Woken
    <2> QED
        BY <2>2, <2>3
<1>5. CASE UNCHANGED vars
    BY <1>5, BoundKept DEF vars, senderVars, Woken, TypeOK
<1> QED
    BY <1>1, <1>2, <1>3, <1>4, <1>5
    DEF Next, StreamCredit, ConnCredit, ConnUpdated, SettingsChanged

(* However many senders are woken at once, the transport holds at most one
   frame of each above its high-water mark. *)
THEOREM BufferIsBounded == Spec => []BufferBounded
<1>1. Init => BufferInv
    <2> SUFFICES ASSUME Init PROVE BufferInv
        OBVIOUS
    <2>1. Cardinality(Streams) - Cardinality(Woken) \in Nat
        BY CardWoken
    <2>2. /\ MaxFrame * 0 <= MaxFrame * (Cardinality(Streams) - Cardinality(Woken))
          /\ MaxFrame * (Cardinality(Streams) - Cardinality(Woken)) \in Int
        BY <2>1, Scale
    <2> QED
        BY <2>2, SendAssumption DEF Init, BufferInv
<1>2. TypeOK /\ BufferInv => BufferBounded
    <2> SUFFICES ASSUME TypeOK, BufferInv PROVE BufferBounded
        OBVIOUS
    <2>1. Cardinality(Streams) - Cardinality(Woken) <= Cardinality(Streams)
          /\ Cardinality(Streams) - Cardinality(Woken) \in Int
        BY CardWoken
    <2>2. MaxFrame * (Cardinality(Streams) - Cardinality(Woken))
          <= MaxFrame * Cardinality(Streams)
          /\ MaxFrame * (Cardinality(Streams) - Cardinality(Woken)) \in Int
        BY <2>1, CardWoken, Scale
    <2>3. MaxFrame * Cardinality(Streams) \in Int
        BY CardWoken, Scale
    <2> QED
        BY <2>2, <2>3, SendAssumption DEF TypeOK, BufferInv, BufferBounded
<1>3. QED
    BY <1>1, <1>2, NextBufferInv, TypeCorrect, PTL DEF Spec
=============================================================================
