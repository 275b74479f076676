----------------------------- MODULE MCSendFlow -----------------------------
(* Two streams with messages larger than a window, a frame and the mark. *)
EXTENDS SendFlow, TLC

CONSTANTS s1, s2

MCSize == (s1 :> 4) @@ (s2 :> 3)
MCWindows == {0, 1, 3}
=============================================================================
