-------------------------- MODULE MCChannelConnect --------------------------
(* Three calls and two or three connections: one call creates a connection,
   one waits for the lock, one comes late or finds a connection lost. *)
EXTENDS ChannelConnect

CONSTANTS p1, p2, p3, c1, c2, c3
=============================================================================
