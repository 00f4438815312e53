------------------------------ MODULE MCPCQueue ------------------------------
(* Two producers and two consumers over a ring of two slots. *)
EXTENDS PCQueue
CONSTANTS p1, p2, c1, c2, a, b
==============================================================================
