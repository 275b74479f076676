---------------------------- MODULE MCClientCall ----------------------------
(* One or two calls, and a server that allows no stream or one. *)
EXTENDS ClientCall

CONSTANTS p1, p2
=============================================================================
