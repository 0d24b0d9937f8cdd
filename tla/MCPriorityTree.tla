--------------------------- MODULE MCPriorityTree ---------------------------
(***************************************************************************)
(* Every tree that frames naming five streams can build.                   *)
(***************************************************************************)
EXTENDS PriorityTree, Integers

MCStreams == {1, 3, 5, 7, 9}
==============================================================================
