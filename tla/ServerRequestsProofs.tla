------------------------ MODULE ServerRequestsProofs ------------------------
(***************************************************************************)
(* Proofs about ServerRequests: type correctness and the safety properties *)
(* of the request lifecycle, for any number of connections and requests;   *)
(* and about GracefulExit, whose server implements ServerRequests.         *)
(***************************************************************************)
EXTENDS GracefulExit, TLAPS

LEMMA TickType ==
    ASSUME NEW n \in 0 .. GCInterval - 1
    PROVE  Tick(n) \in 0 .. GCInterval - 1
BY ServerAssumption DEF Tick

LEMMA InitTypeOK == Init => TypeOK
BY ServerAssumption DEF Init, TypeOK, Phases

(* Every step keeps each variable in its type. *)
LEMMA NextTypeOK == TypeOK /\ [Next]_vars => TypeOK'
<1> SUFFICES ASSUME TypeOK, [Next]_vars PROVE TypeOK'
    OBVIOUS
<1> USE DEF TypeOK, Phases, Of, Idle, CancelTasks, Goto, Release, Finish, Stay
<1>1. CASE ServerClose
    BY <1>1 DEF ServerClose, CloseHandlers, handVars, connVars, waitVars
<1>2. CASE WaitClosed
    BY <1>2 DEF WaitClosed, serverVars, handVars, connVars, taskVars
<1>3. CASE ListenerClosed
    BY <1>3 DEF ListenerClosed, serverVars, handVars, connVars, taskVars
<1>4. CASE WaitReturn
    BY <1>4 DEF WaitReturn, serverVars, handVars, connVars, taskVars
<1>5. ASSUME NEW c \in Conns, ConnStep(c) PROVE TypeOK'
    <2>1. CASE Connect(c)
        BY <2>1, TickType DEF Connect, Collected, Reapable, taskVars, waitVars
    <2>2. CASE EndBatch(c)
        BY <2>2, ServerAssumption
        DEF EndBatch, serverVars, handVars, connVars, taskVars, waitVars
    <2>3. CASE ConnectionTerminated(c)
        BY <2>3, ServerAssumption
        DEF ConnectionTerminated, CanReceive, ProcessorClose, CloseHandlers,
            serverVars, waitVars
    <2>4. CASE ConnectionLost(c)
        BY <2>4 DEF ConnectionLost, ProcessorClose, CloseHandlers, serverVars,
            waitVars
    <2>5. CASE PauseWriting(c)
        BY <2>5 DEF PauseWriting, serverVars, handVars, taskVars, waitVars
    <2>6. CASE ResumeWriting(c)
        BY <2>6 DEF ResumeWriting, serverVars, handVars, taskVars, waitVars
    <2>7. CASE HandlerWait(c)
        BY <2>7 DEF HandlerWait, serverVars, handVars, connVars, taskVars
    <2>8. CASE HandlerWaited(c)
        BY <2>8 DEF HandlerWaited, serverVars, handVars, connVars, taskVars
    <2>9. CASE KeepaliveTimeout(c)
        BY <2>9 DEF KeepaliveTimeout, serverVars, handVars, taskVars, waitVars
    <2>10. QED
        BY <1>5, <2>1, <2>2, <2>3, <2>4, <2>5, <2>6, <2>7, <2>8, <2>9
        DEF ConnStep
<1>6. ASSUME NEW s \in Streams, StreamStep(s) PROVE TypeOK'
    <2> ConnOf[s] \in Conns
        BY ServerAssumption
    <2>1. CASE RequestReceived(s)
        BY <2>1, TickType
        DEF RequestReceived, Accept, Receiving, CanReceive, Collected,
            serverVars, connVars, waitVars
    <2>2. CASE DataReceived(s)
        BY <2>2, ServerAssumption DEF DataReceived, Receiving, CanReceive, serverVars, handVars,
            connVars, taskVars, waitVars
    <2>3. CASE StreamReset(s)
        BY <2>3 DEF StreamReset, HandlerCancel, Receiving, CanReceive, serverVars, waitVars
    <2>4. CASE Start(s)
        BY <2>4 DEF Start, serverVars, handVars, connVars, waitVars
    <2>5. CASE Read(s)
        BY <2>5, ServerAssumption DEF Read, serverVars, handVars, connVars, taskVars, waitVars
    <2>6. CASE DeadlineExpired(s)
        BY <2>6 DEF DeadlineExpired, serverVars, handVars, connVars, waitVars
    <2>7. CASE Cancelled(s)
        BY <2>7, ServerAssumption DEF Cancelled, LeaveCancelled, serverVars, handVars, connVars,
            waitVars
    <2>8. CASE Return(s)
        BY <2>8, ServerAssumption DEF Return, serverVars, handVars, connVars, waitVars
    <2>9. CASE CleanupEnd(s)
        BY <2>9, ServerAssumption DEF CleanupEnd, LeaveCancelled, serverVars, handVars, connVars,
            waitVars
    <2>10. CASE Flushed(s)
        BY <2>10, ServerAssumption DEF Flushed, serverVars, handVars, connVars, waitVars
    <2>11. QED
        BY <1>6, <2>1, <2>2, <2>3, <2>4, <2>5, <2>6, <2>7, <2>8, <2>9, <2>10
        DEF StreamStep
<1>7. CASE UNCHANGED vars
    BY <1>7 DEF vars, serverVars, handVars, connVars, taskVars, waitVars
<1>8. QED
    BY <1>1, <1>2, <1>3, <1>4, <1>5, <1>6, <1>7 DEF Next

(* Type correctness of the model, for all constants. *)
THEOREM TypeCorrect == Spec => []TypeOK
BY InitTypeOK, NextTypeOK, PTL DEF Spec

-----------------------------------------------------------------------------

LEMMA NextTaskInv == TypeOK /\ TaskInv /\ [Next]_vars => TaskInv'
<1> SUFFICES ASSUME TypeOK, TaskInv, [Next]_vars PROVE TaskInv'
    OBVIOUS
<1> USE DEF TypeOK, Phases, Of, Idle, CancelTasks, Goto, Release, Finish, Stay,
        Live, Finished, Wrapped, TaskInv, RegisteredWhileLive, NoOrphanTask,
        Leaving, KnownTasksExist, CancelledAreHit, ClosedMeansCancelled
<1>1. CASE ServerClose
    BY <1>1 DEF ServerClose, CloseHandlers, handVars, connVars, waitVars
<1>2. CASE WaitClosed
    BY <1>2 DEF WaitClosed, serverVars, handVars, connVars, taskVars
<1>3. CASE ListenerClosed
    BY <1>3 DEF ListenerClosed, serverVars, handVars, connVars, taskVars
<1>4. CASE WaitReturn
    BY <1>4 DEF WaitReturn, serverVars, handVars, connVars, taskVars
<1>5. ASSUME NEW c \in Conns, ConnStep(c) PROVE TaskInv'
    <2>1. CASE Connect(c)
        BY <2>1 DEF Connect, Collected, Reapable, taskVars, waitVars
    <2>2. CASE EndBatch(c)
        BY <2>2 DEF EndBatch, serverVars, handVars, connVars, taskVars,
            waitVars
    <2>3. CASE ConnectionTerminated(c)
        BY <2>3 DEF ConnectionTerminated, CanReceive, ProcessorClose,
            CloseHandlers, serverVars, waitVars
    <2>4. CASE ConnectionLost(c)
        BY <2>4 DEF ConnectionLost, ProcessorClose, CloseHandlers, serverVars,
            waitVars
    <2>5. CASE PauseWriting(c)
        BY <2>5 DEF PauseWriting, serverVars, handVars, taskVars, waitVars
    <2>6. CASE ResumeWriting(c)
        BY <2>6 DEF ResumeWriting, serverVars, handVars, taskVars, waitVars
    <2>7. CASE HandlerWait(c)
        BY <2>7 DEF HandlerWait, serverVars, handVars, connVars, taskVars
    <2>8. CASE HandlerWaited(c)
        BY <2>8 DEF HandlerWaited, serverVars, handVars, connVars, taskVars
    <2>9. CASE KeepaliveTimeout(c)
        BY <2>9 DEF KeepaliveTimeout, serverVars, handVars, taskVars, waitVars
    <2>10. QED
        BY <1>5, <2>1, <2>2, <2>3, <2>4, <2>5, <2>6, <2>7, <2>8, <2>9
        DEF ConnStep
<1>6. ASSUME NEW s \in Streams, StreamStep(s) PROVE TaskInv'
    <2> ConnOf[s] \in Conns
        BY ServerAssumption
    <2>1. CASE RequestReceived(s)
        <3>1. /\ task[s] = "none"
              /\ task' = [task EXCEPT ![s] = "created"]
              /\ registered' = registered \cup {s}
              /\ link[ConnOf[s]] = "open"
              /\ UNCHANGED <<link, hit, reset, cancelReq>>
            BY <2>1 DEF RequestReceived, Accept, Receiving, CanReceive, connVars
        <3>2. /\ tasks' \subseteq tasks \cup {s} /\ s \in tasks'
              /\ cancelled' \subseteq cancelled
              /\ \A r \in Streams : ~Finished(r) =>
                    /\ r \in tasks => r \in tasks'
                    /\ r \in cancelled => r \in cancelled'
            BY <2>1 DEF RequestReceived, Accept, Collected
        <3>3. RegisteredWhileLive'
            BY <3>1
        <3>4. NoOrphanTask' /\ KnownTasksExist' /\ ClosedMeansCancelled'
            BY <3>1, <3>2
        <3>5. CancelledAreHit'
            <4>1. s \notin cancelled'
                BY <3>1, <3>2
            <4> QED
                BY <3>1, <3>2, <4>1
        <3> QED
            BY <3>3, <3>4, <3>5
    <2>2. CASE DataReceived(s)
        BY <2>2 DEF DataReceived, Receiving, CanReceive, serverVars, handVars,
            connVars, taskVars, waitVars
    <2>3. CASE StreamReset(s)
        <3>1. /\ reset' = reset \cup {s}
              /\ UNCHANGED <<task, registered>>
            BY <2>3 DEF StreamReset
        <3>2. CASE s \in registered \cap tasks
            BY <2>3, <3>1, <3>2 DEF StreamReset, HandlerCancel, Receiving, CanReceive
        <3>3. CASE s \notin registered \cap tasks
            <4>1. /\ UNCHANGED <<tasks, cancelled>>
                  /\ hit \subseteq hit' /\ cancelReq \subseteq cancelReq'
                  /\ \A c \in Conns :
                        link'[c] \in {"closed", "lost"} => link'[c] = link[c]
                BY <2>3, <3>3 DEF StreamReset, HandlerCancel, Receiving, CanReceive
            <4> QED
                BY <3>1, <4>1, ServerAssumption
        <3> QED
            BY <3>2, <3>3
    <2>4. CASE Start(s)
        BY <2>4 DEF Start, serverVars, handVars, connVars, waitVars
    <2>5. CASE Read(s)
        BY <2>5 DEF Read, serverVars, handVars, connVars, taskVars, waitVars
    <2>6. CASE DeadlineExpired(s)
        BY <2>6 DEF DeadlineExpired, serverVars, handVars, connVars, waitVars
    <2>7. CASE Cancelled(s)
        BY <2>7 DEF Cancelled, LeaveCancelled, serverVars, handVars, connVars,
            waitVars
    <2>8. CASE Return(s)
        BY <2>8 DEF Return, serverVars, handVars, connVars, waitVars
    <2>9. CASE CleanupEnd(s)
        BY <2>9 DEF CleanupEnd, LeaveCancelled, serverVars, handVars,
            connVars, waitVars
    <2>10. CASE Flushed(s)
        BY <2>10 DEF Flushed, serverVars, handVars, connVars, waitVars
    <2>11. QED
        BY <1>6, <2>1, <2>2, <2>3, <2>4, <2>5, <2>6, <2>7, <2>8, <2>9, <2>10
            DEF StreamStep
<1>7. CASE UNCHANGED vars
    BY <1>7 DEF vars, serverVars, handVars, connVars, taskVars, waitVars
<1>8. QED
    BY <1>1, <1>2, <1>3, <1>4, <1>5, <1>6, <1>7 DEF Next

LEMMA NextServerInv ==
    TypeOK /\ TaskInv /\ ServerInv /\ [Next]_vars => ServerInv'
<1> SUFFICES ASSUME TypeOK, TaskInv, ServerInv, [Next]_vars PROVE ServerInv'
    OBVIOUS
<1> USE DEF TypeOK, Phases, Of, Idle, CancelTasks, Goto, Release, Finish, Stay,
        Live, Finished, Wrapped, ServerInv, ReapedHandlerIsIdle, OpenHasHandler,
        ClosingMeansClosed, CloseCancelsAll, StoppedInReach, WaitTracksStopped
<1>1. CASE ServerClose
    <2>1. /\ srv' = "closed"
          /\ closing' = closing \cup handlers
          /\ UNCHANGED <<handlers, link, task, waiter, hwait, waitSet>>
        BY <1>1 DEF ServerClose, CloseHandlers, connVars, waitVars
    <2>2. /\ hit \subseteq hit' /\ cancelled \subseteq cancelled'
          /\ \A s \in tasks : ConnOf[s] \in handlers =>
                s \in cancelled' /\ (Live(s) => s \in hit')
        BY <1>1 DEF ServerClose, CloseHandlers
    <2>3. \A s \in Streams : Live(s) =>
             s \in hit' /\ s \in cancelled' /\ ConnOf[s] \in handlers
        BY <2>2 DEF TaskInv, NoOrphanTask, CancelledAreHit
    <2>4. CASE srv = "running"
        <3>1. stopped' = {s \in Streams : Live(s)}
            BY <1>1, <2>4 DEF ServerClose
        <3>2. \A c \in Conns : hwait[c] = "none"
            BY <2>4
        <3>3. waiter \in {"idle", "server"}
            BY <2>4
        <3> QED
            BY <2>1, <2>3, <2>4, <3>1, <3>2, <3>3, ServerAssumption
    <2>5. CASE srv = "closed"
        <3>1. stopped' = stopped
            BY <1>1, <2>5 DEF ServerClose
        <3> QED
            BY <2>1, <2>2, <2>5, <3>1
    <2> QED
        BY <2>4, <2>5
<1>2. CASE WaitClosed
    BY <1>2 DEF WaitClosed, serverVars, handVars, connVars, taskVars
<1>3. CASE ListenerClosed
    BY <1>3 DEF ListenerClosed, serverVars, handVars, connVars, taskVars
<1>4. CASE WaitReturn
    BY <1>4 DEF WaitReturn, serverVars, handVars, connVars, taskVars
<1>5. ASSUME NEW c \in Conns, ConnStep(c) PROVE ServerInv'
    <2>1. CASE Connect(c)
        <3>1. /\ srv = "running" /\ srv' = srv
              /\ link[c] = "none" /\ link' = [link EXCEPT ![c] = "open"]
              /\ UNCHANGED <<closing, task, hit, stopped, waiter, hwait, waitSet>>
            BY <2>1 DEF Connect, taskVars, waitVars
        <3>2. /\ c \in handlers'
              /\ \A r \in Streams : Live(r) /\ ConnOf[r] \in handlers =>
                    ConnOf[r] \in handlers'
            BY <2>1 DEF Connect, Collected, Reapable, TaskInv, NoOrphanTask
        <3>3. \A h \in handlers : h \notin closing => h \in handlers'
            BY <2>1 DEF Connect, Reapable
        <3>4. stopped = {}
            BY <3>1
        <3>5. waiter \in {"idle", "server"}
            BY <3>1
        <3> QED
            BY <3>1, <3>2, <3>3, <3>4, <3>5
    <2>2. CASE EndBatch(c)
        BY <2>2 DEF EndBatch, serverVars, handVars, connVars, taskVars,
            waitVars
    <2>3. CASE ConnectionTerminated(c)
        BY <2>3 DEF ConnectionTerminated, CanReceive, ProcessorClose,
            CloseHandlers, serverVars, waitVars
    <2>4. CASE ConnectionLost(c)
        BY <2>4 DEF ConnectionLost, ProcessorClose, CloseHandlers, serverVars,
            waitVars
    <2>5. CASE PauseWriting(c)
        BY <2>5 DEF PauseWriting, serverVars, handVars, taskVars, waitVars
    <2>6. CASE ResumeWriting(c)
        BY <2>6 DEF ResumeWriting, serverVars, handVars, taskVars, waitVars
    <2>7. CASE HandlerWait(c)
        BY <2>7 DEF HandlerWait, serverVars, handVars, connVars, taskVars
    <2>8. CASE HandlerWaited(c)
        BY <2>8 DEF HandlerWaited, serverVars, handVars, connVars, taskVars
    <2>9. CASE KeepaliveTimeout(c)
        BY <2>9 DEF KeepaliveTimeout, serverVars, handVars, taskVars, waitVars
    <2>10. QED
        BY <1>5, <2>1, <2>2, <2>3, <2>4, <2>5, <2>6, <2>7, <2>8, <2>9
        DEF ConnStep
<1>6. ASSUME NEW s \in Streams, StreamStep(s) PROVE ServerInv'
    <2> ConnOf[s] \in Conns
        BY ServerAssumption
    <2>1. CASE RequestReceived(s)
        BY <2>1 DEF RequestReceived, Accept, Receiving, CanReceive, Collected,
            serverVars, connVars, waitVars
    <2>2. CASE DataReceived(s)
        BY <2>2 DEF DataReceived, Receiving, CanReceive, serverVars, handVars,
            connVars, taskVars, waitVars
    <2>3. CASE StreamReset(s)
        BY <2>3 DEF StreamReset, HandlerCancel, Receiving, CanReceive, serverVars, waitVars
    <2>4. CASE Start(s)
        BY <2>4 DEF Start, serverVars, handVars, connVars, waitVars
    <2>5. CASE Read(s)
        BY <2>5 DEF Read, serverVars, handVars, connVars, taskVars, waitVars
    <2>6. CASE DeadlineExpired(s)
        BY <2>6 DEF DeadlineExpired, serverVars, handVars, connVars, waitVars
    <2>7. CASE Cancelled(s)
        BY <2>7 DEF Cancelled, LeaveCancelled, serverVars, handVars, connVars,
            waitVars
    <2>8. CASE Return(s)
        BY <2>8 DEF Return, serverVars, handVars, connVars, waitVars
    <2>9. CASE CleanupEnd(s)
        BY <2>9 DEF CleanupEnd, LeaveCancelled, serverVars, handVars,
            connVars, waitVars
    <2>10. CASE Flushed(s)
        BY <2>10 DEF Flushed, serverVars, handVars, connVars, waitVars
    <2>11. QED
        BY <1>6, <2>1, <2>2, <2>3, <2>4, <2>5, <2>6, <2>7, <2>8, <2>9, <2>10
            DEF StreamStep
<1>7. CASE UNCHANGED vars
    BY <1>7 DEF vars, serverVars, handVars, connVars, taskVars, waitVars
<1>8. QED
    BY <1>1, <1>2, <1>3, <1>4, <1>5, <1>6, <1>7 DEF Next

-----------------------------------------------------------------------------

(* A task that can still be heedless of a close is in _tasks. *)
LEMMA OutOfReachLeaves ==
    ASSUME NoOrphanTask, NEW s \in Streams, Live(s), s \notin tasks
    PROVE  Leaving(s) /\ s \in reset
BY DEF NoOrphanTask

(* EventsProcessor.close() leaves no request of the connection undisturbed. *)
LEMMA CloseIsHeededBy ==
    ASSUME TypeOK, NoOrphanTask, NEW c \in Conns, ProcessorClose(c),
           UNCHANGED <<task, reset>>,
           NEW s \in Of(c), Live(s)
    PROVE  /\ Leaving(s)'
           /\ task'[s] = "exit" => s \in cancelReq' \cup reset'
BY OutOfReachLeaves
DEF ProcessorClose, CloseHandlers, CancelTasks, Leaving, Of, TypeOK

(* A step that delivers no CancelledError to s and does not move its task. *)
LEMMA UndisturbedHeeds ==
    ASSUME CloseIsHeeded, NEW s \in Streams, Live(s)', task'[s] = task[s],
           s \in cancelReq => s \in cancelReq',
           reset \subseteq reset',
           s \in stopped' => s \in stopped,
           link'[ConnOf[s]] \in {"closed", "lost"} =>
                link[ConnOf[s]] \in {"closed", "lost"}
    PROVE  /\ (s \in stopped => Leaving(s))'
           /\ (link[ConnOf[s]] \in {"closed", "lost"} =>
                 Leaving(s) /\ (task[s] = "exit" => s \in cancelReq \cup reset))'
BY DEF CloseIsHeeded, Leaving, Live

LEMMA NextHeeded ==
    TypeOK /\ TaskInv /\ ServerInv /\ CloseIsHeeded /\ [Next]_vars => CloseIsHeeded'
<1> SUFFICES ASSUME TypeOK, TaskInv, ServerInv, CloseIsHeeded, [Next]_vars,
                    NEW s \in Streams, Live(s)'
             PROVE  /\ (s \in stopped => Leaving(s))'
                    /\ (link[ConnOf[s]] \in {"closed", "lost"} =>
                          Leaving(s) /\ (task[s] = "exit" => s \in cancelReq \cup reset))'
    BY DEF CloseIsHeeded
<1> ConnOf[s] \in Conns
    BY ServerAssumption
<1>0. NoOrphanTask
    BY DEF TaskInv
<1>1. CASE ServerClose
    <2>1. s \in cancelReq \cup (tasks \cap {r \in Streams : Live(r)}) => s \in cancelReq'
        BY <1>1 DEF ServerClose, CloseHandlers, CancelTasks, ServerInv,
            ReapedHandlerIsIdle, TypeOK
    <2>2. UNCHANGED <<task, reset, link>> /\ Live(s)
        BY <1>1 DEF ServerClose, connVars, Live
    <2> QED
        BY <1>0, <2>1, <2>2, OutOfReachLeaves DEF CloseIsHeeded, Leaving
<1>2. CASE WaitClosed \/ ListenerClosed \/ WaitReturn \/ UNCHANGED vars
    <2> UNCHANGED <<task, cancelReq, reset, stopped, link>>
        BY <1>2 DEF WaitClosed, ListenerClosed, WaitReturn, vars, connVars, taskVars
    <2> QED
        BY UndisturbedHeeds DEF Live
<1>3. ASSUME NEW c \in Conns, ConnStep(c)
      PROVE  /\ (s \in stopped => Leaving(s))'
             /\ (link[ConnOf[s]] \in {"closed", "lost"} =>
                   Leaving(s) /\ (task[s] = "exit" => s \in cancelReq \cup reset))'
    <2>1. CASE ConnectionTerminated(c) \/ ConnectionLost(c)
        <3>1. /\ ProcessorClose(c)
              /\ UNCHANGED <<task, reset, stopped>> /\ cancelReq \subseteq cancelReq'
              /\ ConnOf[s] # c => link'[ConnOf[s]] = link[ConnOf[s]]
            BY <2>1 DEF ConnectionTerminated, ConnectionLost, ProcessorClose,
                CloseHandlers, CancelTasks, TypeOK
        <3>2. CASE ConnOf[s] = c
            BY <1>0, <3>1, <3>2, CloseIsHeededBy DEF Of, Live
        <3>3. CASE ConnOf[s] # c
            BY <3>1, <3>3, UndisturbedHeeds DEF Live
        <3> QED
            BY <3>2, <3>3
    <2>2. CASE ~(ConnectionTerminated(c) \/ ConnectionLost(c))
        <3> /\ UNCHANGED <<task, cancelReq, reset, stopped>>
            /\ link'[ConnOf[s]] \in {"closed", "lost"} => link'[ConnOf[s]] = link[ConnOf[s]]
            BY <1>3, <2>2 DEF ConnStep, Connect, EndBatch, KeepaliveTimeout, PauseWriting,
                ResumeWriting, HandlerWait, HandlerWaited, connVars, taskVars, TypeOK
        <3> QED
            BY UndisturbedHeeds DEF Live
    <2> QED
        BY <2>1, <2>2
<1>4. ASSUME NEW r \in Streams, StreamStep(r)
      PROVE  /\ (s \in stopped => Leaving(s))'
             /\ (link[ConnOf[s]] \in {"closed", "lost"} =>
                   Leaving(s) /\ (task[s] = "exit" => s \in cancelReq \cup reset))'
    <2>1. /\ reset \subseteq reset' /\ UNCHANGED stopped
          /\ link'[ConnOf[s]] \in {"closed", "lost"} => link'[ConnOf[s]] = link[ConnOf[s]]
          /\ r # s => task'[s] = task[s] /\ (s \in cancelReq => s \in cancelReq')
        BY <1>4 DEF StreamStep, RequestReceived, Accept, DataReceived, StreamReset,
            HandlerCancel, CancelTasks, Start, Read, DeadlineExpired, Cancelled,
            LeaveCancelled, Finish, Return, CleanupEnd, Flushed, Goto, connVars,
            taskVars, TypeOK
    <2>2. CASE r # s
        BY <2>1, <2>2, UndisturbedHeeds DEF Live
    <2>3. CASE r = s
        <3>1. CASE RequestReceived(s)
            BY <3>1, <2>1 DEF RequestReceived, Receiving, CanReceive, connVars,
                ServerInv, StoppedInReach
        <3>2. CASE DataReceived(s) \/ Read(s) \/ DeadlineExpired(s) \/ StreamReset(s)
            <4> UNCHANGED task /\ cancelReq \subseteq cancelReq'
                BY <3>2 DEF DataReceived, Read, DeadlineExpired, StreamReset,
                    HandlerCancel, CancelTasks, taskVars
            <4> QED
                BY <2>1, UndisturbedHeeds DEF Live
        <3>3. CASE Start(s) \/ Cancelled(s) \/ Return(s) \/ CleanupEnd(s) \/ Flushed(s)
            <4>1. UNCHANGED <<link, reset>>
                BY <3>3 DEF Start, Cancelled, Return, CleanupEnd, Flushed, connVars
            <4>2. /\ task'[s] \in {"abort", "body"} =>
                        task[s] = "created" /\ s \notin cancelReq
                  /\ task'[s] = "exit" => ~IsClosing(ConnOf[s])
                  /\ task'[s] \in {"abort", "body", "cleanup", "exit"}
                BY <3>3 DEF Start, Cancelled, Return, CleanupEnd, Flushed, Finish,
                    LeaveCancelled, Goto, TypeOK, Live, Phases
            <4> QED
                BY <2>1, <4>1, <4>2 DEF CloseIsHeeded, Leaving, Live, IsClosing
        <3> QED
            BY <1>4, <2>3, <3>1, <3>2, <3>3 DEF StreamStep
    <2> QED
        BY <2>2, <2>3
<1>5. QED
    BY <1>1, <1>2, <1>3, <1>4 DEF Next

-----------------------------------------------------------------------------

LEMMA InitInv == Init => TaskInv /\ ServerInv /\ CloseIsHeeded
BY DEF Init, TaskInv, RegisteredWhileLive, NoOrphanTask, KnownTasksExist,
    CancelledAreHit, ClosedMeansCancelled, CloseIsHeeded, ServerInv,
    ReapedHandlerIsIdle, OpenHasHandler, ClosingMeansClosed, CloseCancelsAll,
    StoppedInReach, WaitTracksStopped, Live, Finished

LEMMA InvIsInvariant == Spec => [](TypeOK /\ TaskInv /\ ServerInv /\ CloseIsHeeded)
<1>1. Init => TypeOK /\ TaskInv /\ ServerInv /\ CloseIsHeeded
    BY InitTypeOK, InitInv
<1>2. TypeOK /\ TaskInv /\ ServerInv /\ CloseIsHeeded /\ [Next]_vars
      => (TypeOK /\ TaskInv /\ ServerInv /\ CloseIsHeeded)'
    BY NextTypeOK, NextTaskInv, NextServerInv, NextHeeded
<1>3. QED
    BY <1>1, <1>2, PTL DEF Spec

(* A stream is registered exactly while its request can still run, or forever
   if the task was cancelled before its first step: release_stream() runs once
   and never early. *)
THEOREM ReleaseIsExact == Spec => []RegisteredWhileLive
<1>1. TaskInv => RegisteredWhileLive
    BY DEF TaskInv
<1>2. QED
    BY <1>1, InvIsInvariant, PTL

(* No running request is out of the reach of its handler, but one that was
   reset and is leaving. *)
THEOREM TasksAreTracked == Spec => []NoOrphanTask
<1>1. TaskInv => NoOrphanTask
    BY DEF TaskInv
<1>2. QED
    BY <1>1, InvIsInvariant, PTL

(* Closing a connection, for whichever reason, reaches all its requests. *)
THEOREM CloseReachesRequests == Spec => []ClosedMeansCancelled
<1>1. TaskInv => ClosedMeansCancelled
    BY DEF TaskInv
<1>2. QED
    BY <1>1, InvIsInvariant, PTL

(* After a close every request it concerns is leaving: no race with a reset, a
   deadline, an earlier cancellation or the end of the method lets one go on. *)
THEOREM ClosesAreHeeded == Spec => []CloseIsHeeded
BY InvIsInvariant, PTL

(* Handler.cancel() raises KeyError for dropped tasks only. *)
THEOREM ResetIsSafe == Spec => []ResetFindsTask
<1>1. TypeOK /\ TaskInv => ResetFindsTask
    BY DEF TypeOK, TaskInv, ResetFindsTask, RegisteredWhileLive, NoOrphanTask
<1>2. QED
    BY <1>1, InvIsInvariant, PTL

(* The server's collector removes idle handlers only. *)
THEOREM CollectorIsSafe == Spec => []ReapedHandlerIsIdle
<1>1. ServerInv => ReapedHandlerIsIdle
    BY DEF ServerInv
<1>2. QED
    BY <1>1, InvIsInvariant, PTL

(* Server.close() cancels every request there is. *)
THEOREM CloseIsComplete == Spec => []CloseCancelsAll
<1>1. ServerInv => CloseCancelsAll
    BY DEF ServerInv
<1>2. QED
    BY <1>1, InvIsInvariant, PTL

(* When wait_closed() returns, every request the close has stopped is over. *)
THEOREM WaitIsSound == Spec => []WaitClosedSound
<1>1. TypeOK /\ ServerInv => WaitClosedSound
    <2> SUFFICES ASSUME TypeOK, ServerInv, waiter = "done", NEW s \in stopped
                 PROVE  Finished(s)
        BY DEF WaitClosedSound
    <2>1. ConnOf[s] \in handlers /\ handlers \subseteq Conns
        BY DEF ServerInv, StoppedInReach, TypeOK
    <2>2. hwait[ConnOf[s]] = "done"
        BY <2>1 DEF ServerInv, WaitTracksStopped
    <2> QED
        BY <2>2 DEF ServerInv, WaitTracksStopped
<1>2. QED
    BY <1>1, InvIsInvariant, PTL

-----------------------------------------------------------------------------
(* The program of GracefulExit.                                            *)

(* Nothing but ServerClose writes srv. *)
LEMMA ConnStepKeepsServer ==
    ASSUME NEW c \in Conns, ConnStep(c)
    PROVE  srv' = srv
BY DEF ConnStep, Connect, EndBatch, ConnectionTerminated, ConnectionLost,
       KeepaliveTimeout, PauseWriting, ResumeWriting, HandlerWait, HandlerWaited,
       serverVars

LEMMA StreamStepKeepsServer ==
    ASSUME NEW s \in Streams, StreamStep(s)
    PROVE  srv' = srv
BY DEF StreamStep, RequestReceived, DataReceived, StreamReset, Start, Read,
       DeadlineExpired, Cancelled, Return, CleanupEnd, Flushed, serverVars

(* The server inside the program does what ServerRequests allows: the program
   only chooses when it is started, closed and waited for. *)
THEOREM ProgramRunsServer == ExitSpec => Spec
<1>1. ExitInit => Init
    BY DEF ExitInit
<1>2. [ExitNext]_allVars => [Next]_vars
    <2> SUFFICES ASSUME [ExitNext]_allVars PROVE [Next]_vars
        OBVIOUS
    <2>1. CASE StartServer
        BY <2>1 DEF StartServer
    <2>2. CASE CloseServer
        BY <2>2 DEF CloseServer, Next
    <2>3. CASE Signal
        BY <2>3 DEF Signal, FirstStage, Next
    <2>4. CASE ServerRuns
        BY <2>4 DEF ServerRuns, Next
    <2>5. ASSUME NEW o \in Others, StartOther(o) PROVE [Next]_vars
        BY <2>5 DEF StartOther
    <2>7. CASE LeaveBlock
        BY <2>7 DEF LeaveBlock
    <2>6. CASE UNCHANGED allVars
        BY <2>6 DEF allVars
    <2> QED
        BY <2>1, <2>2, <2>3, <2>4, <2>5, <2>6, <2>7 DEF ExitNext
<1> QED
    BY <1>1, <1>2, PTL DEF ExitSpec, Spec

(* A first stage that did not raise SystemExit has closed every server, and none
   is started after it. *)
THEOREM SignalIsHeeded == ExitSpec => []SignalStopsServers
<1>1. ExitInit => SignalStopsServers
    BY DEF ExitInit, SignalStopsServers
<1>2. SignalStopsServers /\ [ExitNext]_allVars => SignalStopsServers'
    <2> SUFFICES ASSUME SignalStopsServers, [ExitNext]_allVars
                 PROVE  SignalStopsServers'
        OBVIOUS
    <2> USE DEF SignalStopsServers
    <2>1. CASE StartServer
        BY <2>1 DEF StartServer, vars, serverVars
    <2>2. CASE CloseServer
        BY <2>2 DEF CloseServer, ServerClose, exitVars
    <2>3. CASE Signal
        <3>1. CASE FirstStage
            BY <2>3, <3>1 DEF Signal, FirstStage, CloseFails, ServerClose
        <3>2. CASE UNCHANGED <<vars, others, flag>>
            BY <2>3, <3>2 DEF Signal, vars, serverVars
        <3> QED
            BY <2>3, <3>1, <3>2 DEF Signal
    <2>4. CASE ServerRuns
        <3>1. srv' = srv
            BY <2>4, ConnStepKeepsServer, StreamStepKeepsServer
            DEF ServerRuns, WaitClosed, ListenerClosed, WaitReturn, serverVars
        <3> QED
            BY <2>4, <3>1 DEF ServerRuns, exitVars
    <2>5. ASSUME NEW o \in Others, StartOther(o) PROVE SignalStopsServers'
        BY <2>5 DEF StartOther, vars, serverVars
    <2>7. CASE LeaveBlock
        BY <2>7 DEF LeaveBlock, vars, serverVars
    <2>6. CASE UNCHANGED allVars
        BY <2>6 DEF allVars, exitVars, vars, serverVars
    <2> QED
        BY <2>1, <2>2, <2>3, <2>4, <2>5, <2>6, <2>7 DEF ExitNext
<1> QED
    BY <1>1, <1>2, PTL DEF ExitSpec

(* In the program, too, wait_closed() returns only when every request that the
   close stopped is over. *)
THEOREM ProgramWaitsForRequests == ExitSpec => []WaitClosedSound
BY ProgramRunsServer, WaitIsSound, PTL
=============================================================================
