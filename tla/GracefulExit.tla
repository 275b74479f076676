---------------------------- MODULE GracefulExit ----------------------------
(***************************************************************************)
(* A program that runs the server of ServerRequests and others inside      *)
(* graceful_exit() (utils.py): it starts them, a signal closes them, and   *)
(* SystemExit ends the program where that fails.  What the program does    *)
(* when it is cancelled by SystemExit is its own affair, but it starts no  *)
(* server; the event loop still runs its requests.                         *)
(***************************************************************************)
EXTENDS ServerRequests

CONSTANT Others     \* the other servers given to graceful_exit()

VARIABLES
    start,      \* Server.start(): "new", "starting" (in create_server(), which
                \*   may accept connections already), "started"
    others,     \* each of the others: "new", "started", "closed"
    flag,       \* the flag of _exit_handler(): the first stage is over
    exiting,    \* SystemExit was raised
    inside      \* the program is inside the `with' block

exitVars == <<start, others, flag, exiting, inside>>
allVars == <<vars, exitVars>>

ExitInit ==
    /\ Init
    /\ start = "new"
    /\ others = [o \in Others |-> "new"]
    /\ flag = FALSE
    /\ exiting = FALSE
    /\ inside = TRUE

-----------------------------------------------------------------------------

StartServer ==
    /\ Idle /\ ~exiting
    /\ \/ start = "new" /\ start' = "starting"
       \/ start = "starting" /\ start' \in {"started", "new"}   \* or it fails
    /\ UNCHANGED <<vars, others, flag, exiting, inside>>

StartOther(o) ==
    /\ Idle /\ ~exiting
    /\ others[o] = "new"
    /\ others' = [others EXCEPT ![o] = "started"]
    /\ UNCHANGED <<vars, start, flag, exiting, inside>>

(* The program closes the server: Server.close() raises before it is started. *)
CloseServer == start = "started" /\ ServerClose /\ UNCHANGED exitVars

(* A mutant: the RuntimeError of a server that is not started is passed over. *)
CloseFailsMutant == FALSE

(* Some server is not started: its close() raises RuntimeError. *)
CloseFails == start # "started" \/ \E o \in Others : others[o] = "new"

(* _first_stage(): every server that is started is closed. *)
FirstStage ==
    /\ IF start = "started" THEN ServerClose ELSE UNCHANGED vars
    /\ others' = [o \in Others |-> IF others[o] = "new" THEN "new" ELSE "closed"]
    /\ exiting' = (exiting \/ CloseFails)
    /\ flag' = ~CloseFails

(* _exit_handler() *)
Signal ==
    /\ Idle /\ inside
    /\ \/ ~flag /\ FirstStage
       \/ flag /\ exiting' = TRUE /\ UNCHANGED <<vars, others, flag>>
    /\ UNCHANGED <<start, inside>>

(* The block is left: the signal handlers are removed. *)
LeaveBlock ==
    /\ Idle /\ inside
    /\ inside' = FALSE
    /\ UNCHANGED <<vars, start, others, flag, exiting>>

(* The server's own steps.  Connections are accepted, each with a handler, from
   create_server() on; wait_closed() raises before the server is started. *)
ServerRuns ==
    /\ \/ start = "started" /\ WaitClosed
       \/ ListenerClosed \/ WaitReturn
       \/ \E c \in Conns : ConnStep(c)
       \/ \E s \in Streams : StreamStep(s)
    /\ start = "new" => handlers' \subseteq handlers
    /\ UNCHANGED exitVars

ExitNext ==
    \/ StartServer \/ CloseServer \/ Signal \/ LeaveBlock \/ ServerRuns
    \/ \E o \in Others : StartOther(o)

ExitSpec == ExitInit /\ [][ExitNext]_allVars

(* The event loop is as fair as without the program. *)
FairExitSpec == ExitSpec /\ Fairness

-----------------------------------------------------------------------------
(* utils.py:114-146.  Once the first stage is over without SystemExit every
   server is closed: one that was being started cannot be left behind. *)
SignalStopsServers ==
    flag => /\ start = "started" /\ srv = "closed"
            /\ \A o \in Others : others[o] = "closed"
=============================================================================
