--------------------------- MODULE MCServerStream ---------------------------
(* Requests that fail at each stage, listeners that may raise and listeners that do
   not, timeouts on both sides of every change of unit, and one that has run out. *)
EXTENDS ServerStream

Plain(fault, entries, streaming, failing) ==
    [fault |-> fault, metadata |-> entries, streaming |-> streaming, failing |-> failing,
     timeout |-> NoTime, deadline |-> NoTime, before |-> 0, after |-> 0, transit |-> 1]

Timed(timeout, limit, before, after) ==
    [Plain("none", {"reserved"}, FALSE, {}) EXCEPT
        !.timeout = timeout, !.deadline = limit, !.before = before, !.after = after,
        !.transit = 2]

MCRequests ==
    {Plain("no-method", {}, FALSE, {}), Plain("method", {"garbled"}, FALSE, {}),
     Plain("no-path", {"text"}, TRUE, {}), Plain("path", {}, TRUE, {}),
     Plain("none", {"text", "garbled"}, FALSE, {}),
     Plain("none", {}, FALSE, {}), Plain("none", {}, FALSE, Listened),
     Plain("none", {"text", "binary"}, TRUE, {}), Plain("none", {}, TRUE, Listened),
     Timed(23, NoTime, 0, 3), Timed(80, 90, 3, 0), Timed(90, 83, 0, 9),
     Timed(NoTime, 171, 2, 1), Timed(7, 200, 6, 0)}
=============================================================================
