--------------------------- MODULE MCPLJVMServer ---------------------------
(* Two sessions, two event loops, and three connections, which netty deals  *)
(* to the event loops in turn.                                             *)
EXTENDS PLJVMServer

MCHome == [c \in Conns |-> 1 + (c % 2)]
=============================================================================
