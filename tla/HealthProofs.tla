---------------------------- MODULE HealthProofs ----------------------------
(***************************************************************************)
(* Proofs about Health, for any watchers, checks and poll tasks.           *)
(***************************************************************************)
EXTENDS Health, TLAPS

(* Every watcher that is told of the status has its event registered. *)
Registered == \A w \in Watchers : Watching(w) => w \in events

HealthInv ==
    TypeOK /\ OneCheckAtATime /\ PolledWhileWatched /\ WatcherUpToDate /\ Registered

LEMMA BackType == ASSUME NEW t PROVE Back(t) \in {"sleep", "none"}
BY DEF Back

LEMMA NobodyIsNoTask == Nobody \notin Pollers /\ Callers \cap Pollers = {}
BY HealthAssumption

LEMMA StatusType == Status \in {"SERVING", "NOT_SERVING", "UNKNOWN"}
BY DEF Status

LEMMA InitHealth == Init => HealthInv
<1> SUFFICES ASSUME Init PROVE HealthInv
    OBVIOUS
<1>1. TypeOK
    BY DEF Init, TypeOK, Values, Tasks, Checks
<1>2. OneCheckAtATime
    BY DEF Init, OneCheckAtATime, Tasks
<1>3. PolledWhileWatched
    BY DEF Init, PolledWhileWatched, Tasks
<1>4. WatcherUpToDate /\ Registered
    BY DEF Init, WatcherUpToDate, Registered, Watching
<1> QED
    BY <1>1, <1>2, <1>3, <1>4 DEF HealthInv

-----------------------------------------------------------------------------
(* Type correctness of a step.                                             *)

LEMMA NextTypeOK == TypeOK /\ [Next]_vars => TypeOK'
<1> SUFFICES ASSUME TypeOK, [Next]_vars PROVE TypeOK'
    OBVIOUS
<1> USE DEF checkVars, taskVars, watchVars
<1>1. ASSUME NEW t \in Tasks, Resume(t) PROVE TypeOK'
    BY <1>1, BackType DEF Resume, TypeOK
<1>2. ASSUME NEW t \in Tasks, Interrupted(t) PROVE TypeOK'
    <2>1. unlocked' \in BOOLEAN /\ overdue' \in BOOLEAN
        BY <1>2, Zenon DEF Interrupted, Unlock, TypeOK
    <2>2. task' \in [Tasks -> {"none", "start", "func", "lock", "woken", "sleep", "dead"}]
        BY <1>2 DEF Interrupted, Unlock, TypeOK
    <2> QED
        BY <1>2, <2>1, <2>2 DEF Interrupted, TypeOK
<1>3. ASSUME NEW t \in Tasks, NEW v \in Values, FuncDone(t, v) PROVE TypeOK'
    <2>1. unlocked' \in BOOLEAN /\ overdue' \in BOOLEAN /\ fresh' \in BOOLEAN
        BY <1>3, Zenon DEF FuncDone, Unlock
    <2>2. task' \in [Tasks -> {"none", "start", "func", "lock", "woken", "sleep", "dead"}]
        BY <1>3, BackType DEF FuncDone, Unlock, TypeOK
    <2>3. isSet' \in [Watchers -> SUBSET Checks]
        BY <1>3 DEF FuncDone, TypeOK, Checks
    <2> QED
        BY <1>3, <2>1, <2>2, <2>3 DEF FuncDone, TypeOK
<1>15. ASSUME NEW t \in Tasks, FuncCancelled(t) PROVE TypeOK'
    <2>1. unlocked' \in BOOLEAN /\ overdue' \in BOOLEAN
        BY <1>15, Zenon DEF FuncCancelled, Unlock
    <2>2. task' \in [Tasks -> {"none", "start", "func", "lock", "woken", "sleep", "dead"}]
        BY <1>15 DEF FuncCancelled, Unlock, TypeOK
    <2> QED
        BY <1>15, <2>1, <2>2 DEF FuncCancelled, TypeOK
<1>4. ASSUME NEW t \in Tasks, Enter(t),
             UNCHANGED <<value, fresh, external, pollTask, cancelled, watchVars>>
      PROVE  TypeOK'
    <2>1. unlocked' \in BOOLEAN /\ overdue' \in BOOLEAN
        BY <1>4, Zenon DEF Enter, TypeOK
    <2>2. task' \in [Tasks -> {"none", "start", "func", "lock", "woken", "sleep", "dead"}]
        BY <1>4, BackType DEF Enter, TypeOK
    <2> QED
        BY <1>4, <2>1, <2>2 DEF TypeOK
<1>5. ASSUME NEW c \in Callers, CancelCheck(c) PROVE TypeOK'
    BY <1>5 DEF CancelCheck, TypeOK, Tasks
<1>6. ASSUME NEW v \in Values, Set(v) PROVE TypeOK'
    BY <1>6 DEF Set, TypeOK, Checks
<1>7. ASSUME NEW w \in Watchers, Watch(w) PROVE TypeOK'
    <2>1. task' \in [Tasks -> {"none", "start", "func", "lock", "woken", "sleep", "dead"}]
          /\ pollTask' \in Pollers \cup {Nobody}
        BY <1>7 DEF Watch, TypeOK
    <2> QED
        BY <1>7, <2>1, StatusType DEF Watch, Tell, TypeOK
<1>8. ASSUME NEW w \in Watchers, Sent(w) PROVE TypeOK'
    BY <1>8 DEF Sent, TypeOK
<1>9. ASSUME NEW w \in Watchers, Wake(w) PROVE TypeOK'
    BY <1>9, StatusType DEF Wake, Tell, TypeOK
<1>10. ASSUME NEW w \in Watchers, Leave(w) PROVE TypeOK'
    <2>1. /\ cancelled' \subseteq Tasks /\ pollTask' \in Pollers \cup {Nobody}
          /\ task' \in [Tasks -> {"none", "start", "func", "lock", "woken", "sleep", "dead"}]
        BY <1>10 DEF Leave, Abandoned, TypeOK, Tasks
    <2> QED
        BY <1>10, <2>1 DEF Leave, TypeOK
<1>11. ASSUME NEW w \in Watchers, NEW c \in Checks, WaitEnds(w, c) PROVE TypeOK'
    BY <1>11 DEF WaitEnds, TypeOK
<1>12. CASE Timeout
    <2>1. overdue' \in BOOLEAN
        BY <1>12, Zenon DEF Timeout
    <2> QED
        BY <1>12, <2>1 DEF Timeout, TypeOK
<1>13. CASE Expire
    <2>1. fresh' \in BOOLEAN
        BY <1>13, Zenon DEF Expire
    <2> QED
        BY <1>13, <2>1 DEF Expire, TypeOK
<1>14. CASE UNCHANGED vars
    BY <1>14 DEF vars, TypeOK
<1> QED
    BY <1>1, <1>2, <1>3, <1>4, <1>5, <1>6, <1>7, <1>8, <1>9, <1>10, <1>11, <1>12,
       <1>13, <1>14, <1>15 DEF Next, Check, Poll, Tasks

-----------------------------------------------------------------------------
(* The lock.                                                               *)

(* Whoever ends the check frees the lock. *)
LEMMA UnlockKeepsOne ==
    ASSUME TypeOK, OneCheckAtATime, NEW t \in Tasks, task[t] = "func",
           NEW next \in {"sleep", "none", "dead"}, Unlock(t, next)
    PROVE  OneCheckAtATime'
<1>1. \A u \in Tasks : task'[u] # "func" /\ task'[u] # "lock"
    BY DEF Unlock, OneCheckAtATime, TypeOK
<1>2. unlocked'
    BY DEF Unlock
<1> QED
    BY <1>1, <1>2 DEF OneCheckAtATime

LEMMA EnterKeepsOne ==
    ASSUME TypeOK, OneCheckAtATime, NEW t \in Tasks, task[t] # "func", Enter(t)
    PROVE  OneCheckAtATime'
<1>1. CASE task' = [task EXCEPT ![t] = "func"] /\ unlocked /\ ~unlocked'
    BY <1>1 DEF OneCheckAtATime, TypeOK
<1>2. CASE task' = [task EXCEPT ![t] = Back(t)] /\ UNCHANGED unlocked
    BY <1>2, BackType DEF OneCheckAtATime, TypeOK
<1>3. CASE task' = [task EXCEPT ![t] = "lock"] /\ ~unlocked /\ UNCHANGED unlocked
    BY <1>3 DEF OneCheckAtATime, TypeOK
<1> QED
    BY <1>1, <1>2, <1>3 DEF Enter

LEMMA NextOneCheck == TypeOK /\ OneCheckAtATime /\ [Next]_vars => OneCheckAtATime'
<1> SUFFICES ASSUME TypeOK, OneCheckAtATime, [Next]_vars PROVE OneCheckAtATime'
    OBVIOUS
<1> USE DEF checkVars, taskVars, watchVars
<1>1. ASSUME NEW t \in Tasks, Resume(t) PROVE OneCheckAtATime'
    BY <1>1, BackType DEF Resume, OneCheckAtATime, TypeOK
<1>2. ASSUME NEW t \in Tasks, Interrupted(t) PROVE OneCheckAtATime'
    <2>1. CASE task[t] = "func"
        BY <1>2, <2>1, UnlockKeepsOne DEF Interrupted
    <2>2. CASE task[t] # "func"
        BY <1>2, <2>2 DEF Interrupted, OneCheckAtATime, TypeOK
    <2> QED
        BY <2>1, <2>2
<1>3. ASSUME NEW t \in Tasks, NEW v \in Values, FuncDone(t, v) PROVE OneCheckAtATime'
    BY <1>3, BackType, UnlockKeepsOne DEF FuncDone
<1>8. ASSUME NEW t \in Tasks, FuncCancelled(t) PROVE OneCheckAtATime'
    BY <1>8, UnlockKeepsOne DEF FuncCancelled
<1>9. ASSUME NEW w \in Watchers, Leave(w) PROVE OneCheckAtATime'
    <2>1. UNCHANGED unlocked
        BY <1>9 DEF Leave
    <2>2. \A t \in Tasks : /\ task'[t] = "func" <=> task[t] = "func"
                           /\ task'[t] = "lock" <=> task[t] = "lock"
        BY <1>9 DEF Leave
    <2> QED
        BY <2>1, <2>2 DEF OneCheckAtATime
<1>4. ASSUME NEW c \in Callers, Check(c) PROVE OneCheckAtATime'
    BY <1>4, EnterKeepsOne DEF Check, Tasks
<1>5. ASSUME NEW p \in Pollers, Poll(p) PROVE OneCheckAtATime'
    BY <1>5, EnterKeepsOne DEF Poll, Tasks
<1>6. ASSUME NEW w \in Watchers, Watch(w) PROVE OneCheckAtATime'
    BY <1>6 DEF Watch, OneCheckAtATime, TypeOK
<1>7. CASE UNCHANGED <<task, unlocked>>
    BY <1>7 DEF OneCheckAtATime
<1> QED
    BY <1>1, <1>2, <1>3, <1>4, <1>5, <1>6, <1>7, <1>8, <1>9
    DEF Next, CancelCheck, Set, Sent, Wake, WaitEnds, Timeout, Expire, vars

-----------------------------------------------------------------------------
(* The poll task.                                                          *)

LEMMA NextPolled ==
    TypeOK /\ PolledWhileWatched /\ [Next]_vars => PolledWhileWatched'
<1> SUFFICES ASSUME TypeOK, PolledWhileWatched, [Next]_vars PROVE PolledWhileWatched'
    OBVIOUS
<1> USE NobodyIsNoTask DEF checkVars, taskVars, watchVars, PolledWhileWatched, TypeOK, Tasks
<1>1. ASSUME NEW t \in Tasks, Resume(t) PROVE PolledWhileWatched'
    BY <1>1 DEF Resume, Back
<1>2. ASSUME NEW t \in Tasks, Interrupted(t) PROVE PolledWhileWatched'
    <2>1. UNCHANGED <<events, pollTask>> /\ cancelled' = cancelled \ {t} /\ t \in cancelled
        BY <1>2 DEF Interrupted
    <2>2. \A u \in Tasks : task'[u] = "none" <=> (u = t \/ task[u] = "none")
        BY <1>2 DEF Interrupted, Unlock
    <2> QED
        BY <2>1, <2>2
<1>3. ASSUME NEW t \in Tasks, NEW v \in Values, FuncDone(t, v) PROVE PolledWhileWatched'
    <2>1. UNCHANGED <<events, pollTask, cancelled>> /\ task[t] = "func"
        BY <1>3 DEF FuncDone
    <2>2. \A p \in Pollers : task'[p] = "none" <=> task[p] = "none"
        BY <1>3 DEF FuncDone, Unlock, Back
    <2> QED
        BY <2>1, <2>2
<1>10. ASSUME NEW t \in Tasks, FuncCancelled(t) PROVE PolledWhileWatched'
    <2>1. UNCHANGED <<events, pollTask, cancelled>> /\ task[t] = "func"
        BY <1>10 DEF FuncCancelled
    <2>2. \A p \in Pollers : task'[p] = "none" <=> task[p] = "none"
        BY <1>10 DEF FuncCancelled, Unlock
    <2> QED
        BY <2>1, <2>2
<1>4. ASSUME NEW c \in Callers, Check(c) PROVE PolledWhileWatched'
    <2>1. \A p \in Pollers : task'[p] = task[p]
        BY <1>4 DEF Check, Enter
    <2> QED
        BY <1>4, <2>1 DEF Check
<1>5. ASSUME NEW p \in Pollers, Poll(p) PROVE PolledWhileWatched'
    <2>1. \A q \in Pollers : task'[q] = "none" <=> task[q] = "none"
        BY <1>5 DEF Poll, Enter, Back
    <2> QED
        BY <1>5, <2>1 DEF Poll
<1>6. ASSUME NEW c \in Callers, CancelCheck(c) PROVE PolledWhileWatched'
    BY <1>6 DEF CancelCheck
<1>7. ASSUME NEW w \in Watchers, Watch(w) PROVE PolledWhileWatched'
    <2>1. CASE pollTask # Nobody
        BY <1>7, <2>1 DEF Watch
    <2>2. CASE pollTask = Nobody
        <3>1. PICK p \in Pollers :
                  /\ task[p] = "none" /\ p \notin cancelled
                  /\ pollTask' = p
                  /\ task' = [task EXCEPT ![p] = "start"]
            BY <1>7, <2>2 DEF Watch
        <3>2. events' # {} /\ UNCHANGED cancelled
            BY <1>7 DEF Watch
        <3> QED
            BY <2>2, <3>1, <3>2
    <2> QED
        BY <2>1, <2>2
<1>8. ASSUME NEW w \in Watchers, Leave(w) PROVE PolledWhileWatched'
    <2>1. CASE events = {w}
        BY <1>8, <2>1 DEF Leave, Abandoned
    <2>2. CASE events # {w}
        BY <1>8, <2>2 DEF Leave, Abandoned, Watching
    <2> QED
        BY <2>1, <2>2
<1>9. CASE UNCHANGED <<events, pollTask, task, cancelled>>
    BY <1>9
<1> QED
    BY <1>1, <1>2, <1>3, <1>4, <1>5, <1>6, <1>7, <1>8, <1>9, <1>10
    DEF Next, Set, Sent, Wake, WaitEnds, Timeout, Expire, vars

-----------------------------------------------------------------------------
(* The watchers.                                                           *)

LEMMA NextRegistered == TypeOK /\ Registered /\ [Next]_vars => Registered'
<1> SUFFICES ASSUME TypeOK, Registered, [Next]_vars PROVE Registered'
    OBVIOUS
<1> USE DEF checkVars, taskVars, watchVars, Registered, Watching, TypeOK
<1>1. ASSUME NEW w \in Watchers, Watch(w) PROVE Registered'
    BY <1>1 DEF Watch, Tell
<1>2. ASSUME NEW w \in Watchers, Sent(w) PROVE Registered'
    BY <1>2 DEF Sent
<1>3. ASSUME NEW w \in Watchers, Wake(w) PROVE Registered'
    BY <1>3 DEF Wake, Tell
<1>4. ASSUME NEW w \in Watchers, Leave(w) PROVE Registered'
    BY <1>4 DEF Leave
<1>5. CASE UNCHANGED <<events, watch>>
    BY <1>5
<1> QED
    BY <1>1, <1>2, <1>3, <1>4, <1>5
    DEF Next, Resume, Interrupted, FuncCancelled, FuncDone, Check, CancelCheck, Poll, Set, WaitEnds,
        Timeout, Expire, vars

(* The status depends on the two values alone. *)
LEMMA SameStatus == ASSUME UNCHANGED <<value, external>> PROVE Status' = Status
BY DEF Status

LEMMA NextUpToDate ==
    TypeOK /\ Registered /\ WatcherUpToDate /\ [Next]_vars => WatcherUpToDate'
<1> SUFFICES ASSUME TypeOK, Registered, WatcherUpToDate, [Next]_vars,
                    NEW w \in Watchers, Watching(w)', isSet'[w] = {}
             PROVE  message'[w] = Status'
    BY DEF WatcherUpToDate
<1> USE DEF checkVars, taskVars, watchVars, Watching
<1>1. ASSUME NEW t \in Tasks, NEW v \in Values, FuncDone(t, v) PROVE message'[w] = Status'
    <2>1. w \in events /\ UNCHANGED <<message, external, watch>>
        BY <1>1 DEF FuncDone, Registered
    <2>2. v = value /\ isSet[w] = {}
        BY <1>1, <2>1 DEF FuncDone, TypeOK
    <2> QED
        BY <1>1, <2>1, <2>2, SameStatus DEF FuncDone, WatcherUpToDate
<1>2. ASSUME NEW v \in Values, Set(v) PROVE message'[w] = Status'
    <2>1. UNCHANGED <<message, value, watch>>
        BY <1>2 DEF Set
    <2>2. v = external /\ isSet[w] = {}
        BY <1>2, <2>1 DEF Set, TypeOK
    <2> QED
        BY <1>2, <2>1, <2>2, SameStatus DEF Set, WatcherUpToDate
<1>3. ASSUME NEW u \in Watchers,
             Watch(u) \/ Wake(u) \/ Leave(u) \/ Sent(u)
                      \/ \E c \in Checks : WaitEnds(u, c)
      PROVE  message'[w] = Status'
    <2>1. Status' = Status
        BY <1>3, SameStatus DEF Watch, Wake, Leave, Sent, WaitEnds
    <2>2. CASE u = w /\ (Watch(u) \/ Wake(u))
        BY <2>1, <2>2 DEF Watch, Wake, Tell, TypeOK
    <2>3. CASE u # w \/ Leave(u) \/ Sent(u) \/ \E c \in Checks : WaitEnds(u, c)
        <3>1. message'[w] = message[w] /\ isSet[w] = {} /\ Watching(w)
            BY <1>3, <2>3 DEF Watch, Wake, Leave, Sent, WaitEnds, Tell, TypeOK
        <3> QED
            BY <2>1, <3>1 DEF WatcherUpToDate
    <2> QED
        BY <1>3, <2>2, <2>3
<1>4. CASE UNCHANGED <<value, external, watch, message, isSet>>
    BY <1>4, SameStatus DEF WatcherUpToDate
<1> QED
    BY <1>1, <1>2, <1>3, <1>4
    DEF Next, Resume, Interrupted, FuncCancelled, Unlock, Check, CancelCheck, Poll, Enter, Timeout, Expire, vars

-----------------------------------------------------------------------------

LEMMA HealthInvariant == Spec => []HealthInv
<1>1. HealthInv /\ [Next]_vars => HealthInv'
    BY NextTypeOK, NextOneCheck, NextPolled, NextRegistered, NextUpToDate DEF HealthInv
<1> QED
    BY InitHealth, <1>1, PTL DEF Spec

(* Every variable keeps its type; only poll tasks and checks are ever cancelled. *)
THEOREM HealthTypeCorrect == Spec => []TypeOK
BY HealthInvariant, PTL DEF HealthInv

(* The function of a check runs one call at a time, for any number of callers. *)
THEOREM ChecksDoNotOverlap == Spec => []OneCheckAtATime
BY HealthInvariant, PTL DEF HealthInv

(* A watched check has exactly one poll task that is not being cancelled, and it lives
   unless the function of the check has ended it. *)
THEOREM OnePollTask == Spec => []PolledWhileWatched
BY HealthInvariant, PTL DEF HealthInv

(* No change of a status is lost to a watcher. *)
THEOREM NoChangeIsLost == Spec => []WatcherUpToDate
BY HealthInvariant, PTL DEF HealthInv
=============================================================================
