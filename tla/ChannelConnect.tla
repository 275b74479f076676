--------------------------- MODULE ChannelConnect ---------------------------
(***************************************************************************)
(* The client's Channel (client.py): concurrent calls share one            *)
(* connection, which __connect__() creates on demand under an              *)
(* asyncio.Lock, and which may be lost, closed by Channel.close() or       *)
(* aborted by the keepalive timer at any time.                             *)
(*                                                                         *)
(* asyncio.Lock hands itself over in order: while calls are queued a call  *)
(* that comes later cannot take a lock that has just been released.        *)
(***************************************************************************)
EXTENDS Naturals, Sequences, FiniteSets

CONSTANTS
    Calls,      \* calls of __connect__()
    Conns,      \* bound: the connections that can be created
    None        \* no connection, no call

ASSUME ChannelAssumption == None \notin Calls \cup Conns

VARIABLES
    pc,         \* where each call is, see Places
    queue,      \* Lock._waiters
    locked,     \* the call that holds the lock
    made,       \* the connection a call is making, once it is established
    protocol,   \* Channel._protocol
    state,      \* Channel._state
    conn        \* each connection: "none", "open", "closing" (the keepalive
                \*   timer closed the transport), "lost" (Handler.connection_lost)

vars == <<pc, queue, locked, made, protocol, state, conn>>

(* "queued": waiting for the lock, "creating": in _create_connection(),
   "got": returned a protocol, "raised": failed or cancelled. *)
Places == {"new", "queued", "creating", "got", "raised"}

TypeOK ==
    /\ pc \in [Calls -> Places]
    /\ queue \in Seq(Calls)
    /\ locked \in Calls \cup {None}
    /\ made \in [Calls -> Conns \cup {None}]
    /\ protocol \in Conns \cup {None}
    /\ state \in {"IDLE", "CONNECTING", "READY", "TRANSIENT_FAILURE"}
    /\ conn \in [Conns -> {"none", "open", "closing", "lost"}]

Init ==
    /\ pc = [p \in Calls |-> "new"]
    /\ queue = <<>>
    /\ locked = None
    /\ made = [p \in Calls |-> None]
    /\ protocol = None
    /\ state = "IDLE"
    /\ conn = [c \in Conns |-> "none"]

Goto(p, place) == pc' = [pc EXCEPT ![p] = place]

(* Channel._connected: only what the handler knows, not the transport. *)
Connected == protocol # None /\ conn[protocol] \in {"open", "closing"}

-----------------------------------------------------------------------------
(* __connect__()                                                           *)

(* A mutant: the channel is not checked again once the lock is held. *)
HoldLockUnchecked(p) ==
    /\ state' = "CONNECTING"
    /\ Goto(p, "creating") /\ locked' = p

(* The lock is held: the state changes, and only then the connection is
   checked again; a call that finds one leaves the lock at once. *)
HoldLock(p) ==
    /\ state' = "CONNECTING"
    /\ IF Connected
       THEN Goto(p, "got") /\ locked' = None
       ELSE Goto(p, "creating") /\ locked' = p

Connect(p) ==
    /\ pc[p] = "new"
    /\ \/ /\ Connected
          /\ Goto(p, "got")
          /\ UNCHANGED <<queue, locked, state>>
       \/ /\ ~Connected
          /\ locked = None /\ queue = <<>>
          /\ HoldLock(p)
          /\ UNCHANGED queue
       \/ /\ ~Connected
          /\ locked # None \/ queue # <<>>
          /\ queue' = Append(queue, p)
          /\ Goto(p, "queued")
          /\ UNCHANGED <<locked, state>>
    /\ UNCHANGED <<made, protocol, conn>>

(* The lock was released: its first waiter runs. *)
Acquire(p) ==
    /\ pc[p] = "queued" /\ locked = None
    /\ queue # <<>> /\ p = Head(queue)
    /\ queue' = Tail(queue)
    /\ HoldLock(p)
    /\ UNCHANGED <<made, protocol, conn>>

(* The transport is up and connection_made() was called; the call itself is
   resumed later. *)
Establish(p, c) ==
    /\ pc[p] = "creating" /\ made[p] = None
    /\ conn[c] = "none"
    /\ conn' = [conn EXCEPT ![c] = "open"]
    /\ made' = [made EXCEPT ![p] = c]
    /\ UNCHANGED <<pc, queue, locked, protocol, state>>

(* _create_connection() returns. *)
Created(p) ==
    /\ pc[p] = "creating" /\ made[p] # None
    /\ protocol' = made[p]
    /\ made' = [made EXCEPT ![p] = None]
    /\ state' = "READY"
    /\ locked' = None
    /\ Goto(p, "got")
    /\ UNCHANGED <<queue, conn>>

(* _create_connection() raises. *)
Failed(p) ==
    /\ pc[p] = "creating" /\ made[p] = None
    /\ state' = "TRANSIENT_FAILURE"
    /\ locked' = None
    /\ Goto(p, "raised")
    /\ UNCHANGED <<queue, made, protocol, conn>>

(* The call's task is cancelled, by its deadline for example.  CancelledError
   is no Exception: the state is left alone.  A transport that is already up
   is closed by create_connection(). *)
CancelQueued(p) ==
    /\ pc[p] = "queued"
    /\ \E i \in 1 .. Len(queue) :
          /\ queue[i] = p
          /\ queue' = SubSeq(queue, 1, i - 1) \o SubSeq(queue, i + 1, Len(queue))
    /\ Goto(p, "raised")
    /\ UNCHANGED <<locked, made, protocol, state, conn>>

(* A mutant: the lock was not taken with a context manager. *)
CancelCreatingMutant(p) ==
    /\ pc[p] = "creating"
    /\ Goto(p, "raised")
    /\ made' = [made EXCEPT ![p] = None]
    /\ conn' = [c \in Conns |-> IF c = made[p] THEN "lost" ELSE conn[c]]
    /\ UNCHANGED <<queue, locked, protocol, state>>

CancelCreating(p) ==
    /\ pc[p] = "creating"
    /\ locked' = None
    /\ Goto(p, "raised")
    /\ made' = [made EXCEPT ![p] = None]
    /\ conn' = [c \in Conns |-> IF c = made[p] THEN "lost" ELSE conn[c]]
    /\ UNCHANGED <<queue, protocol, state>>

-----------------------------------------------------------------------------
(* The connections.                                                        *)

(* connection_lost(), GOAWAY or a protocol error: EventsProcessor.close() sets
   Handler.connection_lost.  The channel is not told. *)
ConnectionLost(c) ==
    /\ conn[c] \in {"open", "closing"}
    /\ conn' = [conn EXCEPT ![c] = "lost"]
    /\ UNCHANGED <<pc, queue, locked, made, protocol, state>>

(* No ping was acknowledged in time: Connection.close(), without the handler. *)
PingTimeout(c) ==
    /\ conn[c] = "open"
    /\ conn' = [conn EXCEPT ![c] = "closing"]
    /\ UNCHANGED <<pc, queue, locked, made, protocol, state>>

(* A mutant: the protocol is forgotten and its connection stays open. *)
CloseMutant ==
    /\ protocol' = None
    /\ state' = "IDLE"
    /\ UNCHANGED <<pc, queue, locked, made, conn>>

(* A mutant: the state other gRPC implementations give a closed channel. *)
CloseShutdown ==
    /\ conn' = [c \in Conns |-> IF c = protocol THEN "lost" ELSE conn[c]]
    /\ protocol' = None
    /\ state' = "SHUTDOWN"
    /\ UNCHANGED <<pc, queue, locked, made>>

(* Channel.close(); it does not touch a connection that is being created. *)
Close ==
    /\ conn' = [c \in Conns |-> IF c = protocol THEN "lost" ELSE conn[c]]
    /\ protocol' = None
    /\ state' = "IDLE"
    /\ UNCHANGED <<pc, queue, locked, made>>

-----------------------------------------------------------------------------

Next ==
    \/ \E p \in Calls :
          \/ Connect(p) \/ Acquire(p) \/ Created(p) \/ Failed(p)
          \/ CancelQueued(p) \/ CancelCreating(p)
          \/ \E c \in Conns : Establish(p, c)
    \/ \E c \in Conns : ConnectionLost(c) \/ PingTimeout(c)
    \/ Close

(* The event loop resumes what is ready, and an attempt to connect ends one
   way or another, at the latest when the system gives up. *)
Fairness ==
    \A p \in Calls :
        /\ WF_vars(Acquire(p)) /\ WF_vars(Created(p))
        /\ WF_vars(Failed(p))

Spec == Init /\ [][Next]_vars
FairSpec == Spec /\ Fairness

-----------------------------------------------------------------------------
(* Safety.                                                                 *)

Creating(p) == pc[p] = "creating"
Live(c)     == conn[c] = "open"

(* client.py:743-754, 814-819.  The channel never has two live connections,
   whatever is lost, closed or cancelled while another is being created. *)
OneConnection == \A c, d \in Conns : Live(c) /\ Live(d) => c = d

(* client.py:748, 814-819.  No live connection is forgotten: it is the
   channel's, or a call is still making it. *)
NoStrayConnection ==
    \A c \in Conns :
        Live(c) => c = protocol \/ \E p \in Calls : Creating(p) /\ made[p] = c

(* client.py:744.  The lock is held by the call that creates a connection and
   by nobody else: one call at a time creates a connection, and failure and
   cancellation give the lock back. *)
LockMatches ==
    \A p \in Calls : locked = p <=> Creating(p)

(* client.py:743-754.  Lock._waiters are the calls that wait, each once, in spite
   of those that were cancelled in the middle of it. *)
QueueMatches ==
    /\ \A i, j \in 1 .. Len(queue) : queue[i] = queue[j] => i = j
    /\ \A p \in Calls :
          pc[p] = "queued" <=> \E i \in 1 .. Len(queue) : queue[i] = p

(* client.py:743-754.  A call that waits has somebody to wake it: the lock is
   held by a call that is creating a connection, or it is free and the first
   waiter is about to take it. *)
WaitersAreServed ==
    \A p \in Calls : pc[p] = "queued" =>
        \/ \E q \in Calls : locked = q /\ Creating(q)
        \/ locked = None /\ queue # <<>> /\ pc[Head(queue)] = "queued"

(* client.py:742-754.  Every call that waits returns or raises, in spite of
   the failure and cancellation of those ahead of it. *)
ConnectReturns ==
    \A p \in Calls : pc[p] \in {"queued", "creating"} ~> pc[p] \in {"got", "raised"}

-----------------------------------------------------------------------------
(* The facts that make OneConnection inductive. *)

AttemptMeansDisconnected == \A p \in Calls : Creating(p) => ~Connected

MadeWhileCreating ==
    \A p \in Calls : made[p] # None => Creating(p) /\ conn[made[p]] # "none"

ProtocolExists == protocol # None => conn[protocol] # "none"

ChannelInv ==
    /\ LockMatches
    /\ AttemptMeansDisconnected
    /\ MadeWhileCreating
    /\ ProtocolExists
    /\ NoStrayConnection
=============================================================================
