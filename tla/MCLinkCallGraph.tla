-------------------------- MODULE MCLinkCallGraph --------------------------
(* Three functions and up to three calls, over two units: enough for cycles *)
(* of every length, shared callees and calls that cross units.              *)
EXTENDS LinkCallGraph

CONSTANTS main, f, g

MCFunctions == {main, f, g}
=============================================================================
