----------------------------- MODULE OpenBindings -----------------------------
(***************************************************************************)
(* What mapping the bindings of one stage promises: the variables that     *)
(* declare a binding are placed first, wherever they say; then each of the *)
(* others gets the first gap, at or above the base of its resource type,   *)
(* that is open in its set.  Placing starts again with every stage.        *)
(***************************************************************************)
EXTENDS Integers

CONSTANTS Ids, Sets

VARIABLE placed  \* per variable placed: a Place

Place == [set : Sets, base : Nat, first : Nat, size : Nat \ {0}, open : BOOLEAN]

Slots(p) == p.first .. (p.first + p.size - 1)

\* no slot of the size slots from b is in use in the set
IsOpen(set, b, size) ==
    \A w \in DOMAIN placed : placed[w].set = set => Slots(placed[w]) \cap (b .. b + size - 1) = {}

Init == placed = [w \in {} |-> {}]

Restart == placed' = [w \in {} |-> {}]

Add(v) ==
    /\ v \notin DOMAIN placed /\ DOMAIN placed' = DOMAIN placed \cup {v}
    /\ placed' = [w \in DOMAIN placed \cup {v} |-> IF w = v THEN placed'[v] ELSE placed[w]]
    /\ placed'[v] \in Place

PlaceDeclared(v) ==
    /\ Add(v)
    /\ ~placed'[v].open
    /\ \A w \in DOMAIN placed : ~placed[w].open

PlaceOpen(v) ==
    /\ Add(v)
    /\ placed'[v].open
    /\ LET p == placed'[v] IN
         /\ p.base <= p.first
         /\ IsOpen(p.set, p.first, p.size)
         /\ \A b \in p.base .. p.first - 1 : ~IsOpen(p.set, b, p.size)

Next ==
    \/ \E v \in Ids : PlaceDeclared(v) \/ PlaceOpen(v)
    \/ Restart

Spec == Init /\ [][Next]_placed

(* A variable that got its place automatically shares it with no other     *)
(* variable of its set: getFreeSlot (iomapper.cpp:405) never takes a slot  *)
(* that is in use, and nothing is declared into it later.                  *)
OpenPlacesApart ==
    \A v, w \in DOMAIN placed :
        v # w /\ placed[v].open /\ placed[v].set = placed[w].set
          => Slots(placed[v]) \cap Slots(placed[w]) = {}
=============================================================================
