------------------------------- MODULE Health -------------------------------
(***************************************************************************)
(* The health service (health/service.py) of a service with two checks     *)
(* (health/check.py): a ServiceCheck, whose function runs one call at a    *)
(* time and is polled while anybody watches, and a ServiceStatus, which    *)
(* the application sets.  Every Watch keeps an event per check and a task  *)
(* that waits for it.                                                      *)
(***************************************************************************)

CONSTANTS
    Watchers,   \* Watch requests
    Callers,    \* Check requests
    Pollers,    \* bound: poll tasks alive at the same time
    Nobody      \* no poll task

ASSUME HealthAssumption ==
    /\ Callers \cap Pollers = {}
    /\ Nobody \notin Pollers

Tasks == Callers \cup Pollers
Checks == {"check", "status"}
Values == {"up", "down", "unknown"}     \* True, False and None

VARIABLES
    value,      \* ServiceCheck._value
    fresh,      \* the last check is younger than check_ttl
    unlocked,   \* ServiceCheck._check_lock is set
    overdue,    \* check_timeout has passed since the lock was taken
    external,   \* ServiceStatus._value
    pollTask,   \* ServiceCheck._poll_task
    events,     \* the watchers that have an event in ServiceCheck._events
    task,       \* where a task is in __check__(): "none", "start", "func",
                \*   "lock" (in _check_lock.wait()), "woken", "sleep" (_poll()),
                \*   "dead" (a poll task that ended and still is _poll_task)
    cancelled,  \* tasks with a CancelledError on its way
    watch,      \* Watch: "out", "send" (in send_message()), "wait"
    message,    \* the status a watcher sent last
    isSet,      \* the events of a watcher that are set
    waitDone    \* the waits of a watcher that are done

checkVars == <<value, fresh, unlocked, overdue>>
taskVars  == <<pollTask, task, cancelled>>
watchVars == <<events, watch, message, isSet, waitDone>>
vars == <<checkVars, external, taskVars, watchVars>>

TypeOK ==
    /\ value \in Values
    /\ fresh \in BOOLEAN
    /\ unlocked \in BOOLEAN
    /\ overdue \in BOOLEAN
    /\ external \in Values
    /\ pollTask \in Pollers \cup {Nobody}
    /\ events \subseteq Watchers
    /\ task \in [Tasks -> {"none", "start", "func", "lock", "woken", "sleep", "dead"}]
    /\ cancelled \subseteq Tasks
    /\ watch \in [Watchers -> {"out", "send", "wait"}]
    /\ message \in [Watchers -> {"SERVING", "NOT_SERVING", "UNKNOWN"}]
    /\ isSet \in [Watchers -> SUBSET Checks]
    /\ waitDone \in [Watchers -> SUBSET Checks]

Init ==
    /\ value = "unknown"
    /\ fresh = FALSE
    /\ unlocked = TRUE
    /\ overdue = FALSE
    /\ external = "unknown"
    /\ pollTask = Nobody
    /\ events = {}
    /\ task = [t \in Tasks |-> "none"]
    /\ cancelled = {}
    /\ watch = [w \in Watchers |-> "out"]
    /\ message = [w \in Watchers |-> "UNKNOWN"]
    /\ isSet = [w \in Watchers |-> {}]
    /\ waitDone = [w \in Watchers |-> {}]

(* _status() *)
Status ==
    CASE {value, external} = {"unknown"} -> "UNKNOWN"
      [] {value, external} = {"up"}      -> "SERVING"
      [] OTHER                           -> "NOT_SERVING"

Watching(w) == watch[w] # "out"

-----------------------------------------------------------------------------
(* ServiceCheck                                                            *)

(* __check__() returns: _poll() sleeps for check_ttl, a Check is answered. *)
Back(t) == IF t \in Pollers THEN "sleep" ELSE "none"

(* A mutant: the lock is not looked at. *)
EnterMutant(t) ==
    /\ task' = [task EXCEPT ![t] = IF fresh THEN Back(t) ELSE "func"]
    /\ IF fresh THEN UNCHANGED <<unlocked, overdue>>
                ELSE unlocked' = FALSE /\ overdue' = FALSE

(* __check__() up to its first await. *)
Enter(t) ==
    \/ /\ fresh
       /\ task' = [task EXCEPT ![t] = Back(t)]
       /\ UNCHANGED <<unlocked, overdue>>
    \/ /\ ~fresh /\ ~unlocked
       /\ task' = [task EXCEPT ![t] = "lock"]
       /\ UNCHANGED <<unlocked, overdue>>
    \/ /\ ~fresh /\ unlocked
       /\ task' = [task EXCEPT ![t] = "func"]
       /\ unlocked' = FALSE
       /\ overdue' = FALSE

(* The `finally' block: _check_lock.set() wakes everyone who waits for it. *)
Unlock(t, next) ==
    /\ unlocked' = TRUE
    /\ overdue' = FALSE
    /\ task' = [u \in Tasks |-> IF u = t THEN next
                                ELSE IF task[u] = "lock" THEN "woken" ELSE task[u]]

Check(c) ==
    /\ task[c] = "none"
    /\ Enter(c)
    /\ UNCHANGED <<value, fresh, external, pollTask, cancelled, watchVars>>

Poll(p) ==
    /\ task[p] \in {"start", "sleep"} /\ p \notin cancelled
    /\ Enter(p)
    /\ UNCHANGED <<value, fresh, external, pollTask, cancelled, watchVars>>

(* The function returned v, or raised, which counts as "down". *)
FuncDone(t, v) ==
    /\ task[t] = "func" /\ t \notin cancelled
    /\ value' = v
    /\ fresh' = TRUE
    /\ Unlock(t, Back(t))
    /\ isSet' = [w \in Watchers |-> IF w \in events /\ v # value
                                    THEN isSet[w] \cup {"check"} ELSE isSet[w]]
    /\ UNCHANGED <<external, pollTask, cancelled, events, watch, message, waitDone>>

(* A task that waited for the check of another takes what there is. *)
Resume(t) ==
    /\ task[t] = "woken" /\ t \notin cancelled
    /\ task' = [task EXCEPT ![t] = Back(t)]
    /\ UNCHANGED <<checkVars, external, pollTask, cancelled, watchVars>>

(* The function raises a CancelledError of its own, of a task that it awaits: the
   lock is set without a value.  Nobody sees a poll task end. *)
FuncCancelled(t) ==
    /\ task[t] = "func" /\ t \notin cancelled
    /\ Unlock(t, IF t \in Pollers THEN "dead" ELSE "none")
    /\ UNCHANGED <<value, fresh, external, pollTask, cancelled, watchVars>>

(* The task is cancelled, which the function lets pass: the lock is set likewise. *)
Interrupted(t) ==
    /\ t \in cancelled
    /\ cancelled' = cancelled \ {t}
    /\ IF task[t] = "func" THEN Unlock(t, "none")
       ELSE task' = [task EXCEPT ![t] = "none"] /\ UNCHANGED <<unlocked, overdue>>
    /\ UNCHANGED <<value, fresh, external, pollTask, watchVars>>

(* The request of a Check is cancelled. *)
CancelCheck(c) ==
    /\ task[c] # "none"
    /\ cancelled' = cancelled \cup {c}
    /\ UNCHANGED <<checkVars, external, pollTask, task, watchVars>>

(* The timer of _check_wrapper.start(): nobody has entered the wrapper. *)
Timeout ==
    /\ ~unlocked
    /\ overdue' = TRUE
    /\ UNCHANGED <<value, fresh, unlocked, external, taskVars, watchVars>>

Expire ==
    /\ fresh' = FALSE
    /\ UNCHANGED <<value, unlocked, overdue, external, taskVars, watchVars>>

-----------------------------------------------------------------------------
(* ServiceStatus.set() *)
Set(v) ==
    /\ external' = v
    /\ isSet' = [w \in Watchers |-> IF Watching(w) /\ v # external
                                    THEN isSet[w] \cup {"status"} ELSE isSet[w]]
    /\ UNCHANGED <<checkVars, taskVars, events, watch, message, waitDone>>

-----------------------------------------------------------------------------
(* Watch                                                                   *)

Tell(w) ==
    /\ watch' = [watch EXCEPT ![w] = "send"]
    /\ message' = [message EXCEPT ![w] = Status]

(* Up to the first send_message(): __subscribe__() starts the poll task. *)
Watch(w) ==
    /\ watch[w] = "out"
    /\ events' = events \cup {w}
    /\ IF pollTask # Nobody
       THEN UNCHANGED <<pollTask, task>>
       ELSE \E p \in Pollers :
                /\ task[p] = "none" /\ p \notin cancelled
                /\ pollTask' = p
                /\ task' = [task EXCEPT ![p] = "start"]
    /\ isSet' = [isSet EXCEPT ![w] = {}]
    /\ waitDone' = [waitDone EXCEPT ![w] = {}]
    /\ Tell(w)
    /\ UNCHANGED <<checkVars, external, cancelled>>

(* A mutant: the events are cleared when the status has been sent. *)
SentMutant(w) ==
    /\ watch[w] = "send"
    /\ watch' = [watch EXCEPT ![w] = "wait"]
    /\ isSet' = [isSet EXCEPT ![w] = {}]
    /\ waitDone' = [waitDone EXCEPT ![w] = {}]
    /\ UNCHANGED <<checkVars, external, taskVars, events, message>>

Sent(w) ==
    /\ watch[w] = "send"
    /\ watch' = [watch EXCEPT ![w] = "wait"]
    /\ UNCHANGED <<checkVars, external, taskVars, events, message, isSet, waitDone>>

(* The task that runs event.wait() ends. *)
WaitEnds(w, c) ==
    /\ Watching(w)
    /\ c \in isSet[w] \ waitDone[w]
    /\ waitDone' = [waitDone EXCEPT ![w] = @ \cup {c}]
    /\ UNCHANGED <<checkVars, external, taskVars, events, watch, message, isSet>>

(* asyncio.wait() returns: _reset_waits(), then the status is read and sent. *)
Wake(w) ==
    /\ watch[w] = "wait"
    /\ waitDone[w] # {}
    /\ isSet' = [isSet EXCEPT ![w] = @ \ waitDone[w]]
    /\ waitDone' = [waitDone EXCEPT ![w] = {}]
    /\ Tell(w)
    /\ UNCHANGED <<checkVars, external, taskVars, events>>

(* A mutant: the poll task of the last watcher is only forgotten. *)
LeaveMutant(w) ==
    /\ Watching(w)
    /\ watch' = [watch EXCEPT ![w] = "out"]
    /\ events' = events \ {w}
    /\ pollTask' = IF events = {w} THEN Nobody ELSE pollTask
    /\ UNCHANGED <<checkVars, external, task, cancelled, message, isSet, waitDone>>

(* A mutant: _poll_task is read after it was reset. *)
SwapMutant(w) ==
    /\ Watching(w)
    /\ watch' = [watch EXCEPT ![w] = "out"]
    /\ events' = events \ {w}
    /\ pollTask' = IF events = {w} THEN Nobody ELSE pollTask
    /\ cancelled' = IF events = {w} THEN cancelled \cup {Nobody} ELSE cancelled
    /\ UNCHANGED <<checkVars, external, task, message, isSet, waitDone>>

(* The poll task that the last watcher leaves behind. *)
Abandoned(w) == {p \in Pollers : p = pollTask /\ events = {w}}

(* The request ends: __unsubscribe__() of the last watcher cancels the poll task,
   if there is one to cancel.  It then waits for the task and touches nothing else. *)
Leave(w) ==
    /\ Watching(w)
    /\ watch' = [watch EXCEPT ![w] = "out"]
    /\ events' = events \ {w}
    /\ pollTask' = IF events = {w} THEN Nobody ELSE pollTask
    /\ cancelled' = cancelled \cup {p \in Abandoned(w) : task[p] # "dead"}
    /\ task' = [t \in Tasks |-> IF t \in Abandoned(w) /\ task[t] = "dead"
                                THEN "none" ELSE task[t]]
    /\ UNCHANGED <<checkVars, external, message, isSet, waitDone>>

-----------------------------------------------------------------------------

Next ==
    \/ \E t \in Tasks : Resume(t) \/ Interrupted(t) \/ FuncCancelled(t)
    \/ \E t \in Tasks, v \in Values : FuncDone(t, v)
    \/ \E c \in Callers : Check(c) \/ CancelCheck(c)
    \/ \E p \in Pollers : Poll(p)
    \/ \E v \in Values : Set(v)
    \/ \E w \in Watchers :
           Watch(w) \/ Sent(w) \/ Wake(w) \/ Leave(w) \/ \E c \in Checks : WaitEnds(w, c)
    \/ Timeout \/ Expire

Spec == Init /\ [][Next]_vars

(* The event loop runs what is ready and the timer fires.  How long the function
   of a check takes is up to the application. *)
FairSpec ==
    /\ Spec
    /\ WF_vars(Timeout)
    /\ \A t \in Tasks : WF_vars(Resume(t)) /\ WF_vars(Interrupted(t))

-----------------------------------------------------------------------------
(* check.py:101-121.  The function runs one call at a time, whoever is cancelled
   while it waits, and the lock is free when it does not run.  Whoever waits for
   the lock waits for a run that will wake him: the lock was looked at and the
   wait begun without a gap, and whatever ends the run frees it. *)
OneCheckAtATime ==
    /\ \A t, u \in Tasks : task[t] = "func" /\ task[u] = "func" => t = u
    /\ unlocked <=> \A t \in Tasks : task[t] # "func"
    /\ unlocked => \A t \in Tasks : task[t] # "lock"

(* check.py:131-166.  A watched check has one poll task, which lives unless the
   function has ended it with a CancelledError of its own; every other one is being
   cancelled, also when a watcher arrives while the last one ends. *)
PolledWhileWatched ==
    /\ events = {} <=> pollTask = Nobody
    /\ \A p \in Pollers : task[p] # "none" => (p = pollTask <=> p \notin cancelled)
    /\ pollTask # Nobody => task[pollTask] # "none"

(* service.py:129-142.  A watcher that has nothing to wake it has sent the status
   that the checks have: no change is lost while it sends. *)
WatcherUpToDate ==
    \A w \in Watchers :
        Watching(w) /\ isSet[w] = {} => message[w] = Status

(* check.py:84, 110.  A check ends when its timeout has passed. *)
CheckTimeoutEnds == overdue ~> ~overdue
=============================================================================
