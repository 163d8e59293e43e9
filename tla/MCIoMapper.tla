----------------------------- MODULE MCIoMapper -----------------------------
(* A vertex and a fragment stage.  The fragment stage has every choice of   *)
(* three variables among declarations that alias, leave gaps of one slot,   *)
(* need two slots or end at the limit; the vertex stage has nothing to map, *)
(* cannot be mapped, or has inputs and outputs.                             *)
EXTENDS IoMapper

CONSTANTS main, f, g, h, ubo, texture

MCFunctions == {main, f, g, h}
MCIds == 1 .. 3
MCTypes == {ubo, texture}

Uniform(t, set, binding, size) ==
    [storage |-> "uniform", type |-> t, set |-> set, binding |-> binding, location |-> -1,
     size |-> size, locations |-> 1, locatable |-> FALSE]

Varying(st, location, n) ==
    [storage |-> st, type |-> ubo, set |-> -1, binding |-> -1, location |-> location,
     size |-> 1, locations |-> n, locatable |-> TRUE]

Plain == Uniform(ubo, -1, -1, 1)
PushConstant == [Plain EXCEPT !.storage = "push constant"]

Uniforms ==
    {Plain, Uniform(ubo, 1, -1, 1), Uniform(ubo, -1, -1, 2), Uniform(ubo, 0, 1, 1),
     Uniform(ubo, -1, 2, 1), Uniform(ubo, 1, 1, 2), Uniform(texture, -1, -1, 1),
     Uniform(texture, 1, -1, 1), Uniform(texture, -1, 1, 1), Uniform(texture, 0, 4, 1)}

\* main calls f, f calls g; h is dead
UnitOf(decl, bodyOf) ==
    [decl |-> decl, hasOneEntry |-> TRUE, bodies |-> MCFunctions,
     symbols |-> [x \in MCFunctions |-> {v \in MCIds : bodyOf[v] = x}],
     calls |-> [x \in MCFunctions |-> IF x = main THEN {f} ELSE IF x = g THEN {} ELSE {g}],
     autoBindings |-> TRUE, autoLocations |-> FALSE,
     shift |-> [t \in MCTypes |-> IF t = ubo THEN 0 ELSE 1],
     shiftForSet |-> [t \in MCTypes |-> [set \in Sets |-> -1]],
     resourceSet |-> -1, severalSets |-> FALSE]

AllLive  == [v \in MCIds |-> IF v = 1 THEN main ELSE IF v = 2 THEN f ELSE g]
LastDead == [v \in MCIds |-> IF v = 1 THEN g ELSE IF v = 2 THEN main ELSE h]

InsAndOuts ==
    [UnitOf([v \in MCIds |-> IF v = 1 THEN Varying("in", -1, 2) ELSE Varying("in", -1, 1)], AllLive)
       EXCEPT !.autoLocations = TRUE]
Mixed ==
    [UnitOf([v \in MCIds |-> IF v = 1 THEN Varying("out", 1, 1) ELSE
                             IF v = 2 THEN Varying("uniform", -1, 2) ELSE Varying("out", -1, 1)], AllLive)
       EXCEPT !.autoLocations = TRUE]
TooMany ==
    [UnitOf([v \in MCIds |-> Varying("out", -1, v + 3)], AllLive) EXCEPT !.autoLocations = TRUE]
NothingToDo ==
    [UnitOf([v \in MCIds |-> Plain], AllLive)
       EXCEPT !.autoBindings = FALSE, !.shift = [t \in MCTypes |-> 0]]
NamedSets == [NothingToDo EXCEPT !.severalSets = TRUE]
NoEntry == [UnitOf([v \in MCIds |-> Plain], AllLive) EXCEPT !.hasOneEntry = FALSE]

Fragments ==
    {UnitOf(decl, where) : decl \in [MCIds -> Uniforms], where \in {AllLive, LastDead}}

PerSet(u) ==
    [u EXCEPT !.shiftForSet = [t \in MCTypes |-> [set \in Sets |-> IF set = 1 THEN 2 ELSE -1]]]
ShiftOnly(u) == [u EXCEPT !.autoBindings = FALSE]
IntoSet(u) == [u EXCEPT !.resourceSet = 1]

Pair(vertex, fragment) == [s \in {0, 4} |-> IF s = 0 THEN vertex ELSE fragment]
Typical == UnitOf([v \in MCIds |-> IF v = 1 THEN Uniform(texture, 1, 1, 1) ELSE Plain], LastDead)
WithPush == UnitOf([v \in MCIds |-> IF v = 1 THEN PushConstant ELSE Plain], AllLive)
TooHigh == UnitOf([v \in MCIds |-> IF v = 1 THEN Uniform(texture, 0, 4, 1) ELSE Plain], AllLive)

MCPrograms ==
    {[s \in {4} |-> u] : u \in Fragments} \cup
    {Pair(v, Typical) : v \in {InsAndOuts, Mixed, TooMany, NothingToDo, NamedSets, NoEntry}} \cup
    {[s \in {4} |-> PerSet(u)] : u \in Fragments} \cup
    {Pair(InsAndOuts, ShiftOnly(Typical)), Pair(Typical, IntoSet(Typical)), Pair(Typical, WithPush),
     Pair(Typical, TooHigh)}

MovedPrograms == {[s \in {4} |-> IntoSet(u)] : u \in Fragments}
=============================================================================
