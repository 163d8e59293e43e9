------------------------------ MODULE OnceCache ------------------------------
(***************************************************************************)
(* What the built-in symbol-table cache promises its users.  A table is    *)
(* made when it is first needed and then shared, complete and unchanged,   *)
(* by every thread that asks for it; the tables go away all at once, and   *)
(* only when nobody holds one.                                             *)
(***************************************************************************)
CONSTANTS Threads, Keys, None

VARIABLES
    tables,  \* the keys whose table exists
    held     \* per thread: the key of the table it holds, or None

vars == <<tables, held>>

Init == tables = {} /\ held = [t \in Threads |-> None]

Make(k) == k \notin tables /\ tables' = tables \cup {k} /\ UNCHANGED held

Hold(t, k) ==
    /\ k \in tables
    /\ held[t] = None
    /\ held' = [held EXCEPT ![t] = k]
    /\ UNCHANGED tables

Drop(t) == held' = [held EXCEPT ![t] = None] /\ UNCHANGED tables

Clear == held = [t \in Threads |-> None] /\ tables' = {} /\ UNCHANGED held

Next ==
    \/ \E k \in Keys : Make(k) \/ \E t \in Threads : Hold(t, k)
    \/ \E t \in Threads : Drop(t)
    \/ Clear

Spec == Init /\ [][Next]_vars
=============================================================================
