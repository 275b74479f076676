-------------------------- MODULE MCServerRequests --------------------------
(* Small instances of ServerRequests. *)
EXTENDS ServerRequests, TLC

CONSTANTS c1, r1, r2

(* Two requests of one connection: the second runs the handler's collector. *)
OneConn == (r1 :> c1) @@ (r2 :> c1)
=============================================================================
