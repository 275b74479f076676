----------------------------- MODULE MCRecvFlow -----------------------------
(* Two streams whose windows are smaller than what is read from them. *)
EXTENDS RecvFlow, TLC

CONSTANTS s1, s2, StreamWindow, ConnWindow, Bytes1, Bytes2

MCTotal == (s1 :> Bytes1) @@ (s2 :> Bytes2)

MCLimit == [w \in {s1, s2} |-> StreamWindow] @@ (Conn :> ConnWindow)
=============================================================================
