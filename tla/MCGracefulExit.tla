--------------------------- MODULE MCGracefulExit ---------------------------
(* One request on the first of two connections, and another server. *)
EXTENDS GracefulExit, TLC

CONSTANTS c1, c2, r1, other

(* The second connection runs the server's collector. *)
OneRequest == r1 :> c1
=============================================================================
