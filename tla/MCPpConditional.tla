--------------------------- MODULE MCPpConditional ---------------------------
(* Every input of the conditional directives up to and beyond a nesting    *)
(* limit of 4 (maxIfNesting is 65 in the code; only reaching it matters).  *)
EXTENDS PpConditional

MCZeroPadding == {FALSE}
MCAnyPadding  == BOOLEAN
=============================================================================
