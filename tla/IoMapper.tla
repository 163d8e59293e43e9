------------------------------ MODULE IoMapper ------------------------------
(***************************************************************************)
(* TProgram::mapIO: for each linked stage in turn, TIoMapper::addStage     *)
(* collects the stage's variables, finds the live ones by working off the  *)
(* functions reached from the entry point (TLiveTraverser), gives every    *)
(* variable its place in the order of its declared layout, and writes the  *)
(* result into the tree's qualifiers, unless an error was met.             *)
(* A unit is one stage's tree and options; -1 stands for "not given", as   *)
(* newBinding and its like have it.  A sorted vector of slots is its set.  *)
(***************************************************************************)
EXTENDS Integers, FiniteSets

CONSTANTS
    Programs,       \* the linked programs: functions from stages to units
    Ids,            \* symbol ids
    Functions, Entry,
    ResourceTypes,  \* the classes the resolver tells apart
    BindingEnd,     \* layoutBindingEnd
    LocationEnd,    \* layoutLocationEnd, the highest value of the field
    SetEnd,         \* layoutSetEnd
    MaxCalls        \* bound: calls of mapIO

Sets  == 0 .. SetEnd - 1
InOut == {"in", "out"}
Storages == InOut \cup {"uniform"}

\* locatable: not a built-in, and for a uniform not a block or opaque either;
\* size: bindings an OpenGL array takes, else 1; locations: what its type takes
Decl == [storage : Storages \cup {"push constant", "other"}, type : ResourceTypes,
         set : Sets \cup {-1}, binding : -1 .. BindingEnd - 1, location : -1 .. LocationEnd - 1,
         size : Nat \ {0}, locations : Nat \ {0}, locatable : BOOLEAN]

\* shifts are below 2^31, so that as int they are what they were; sets are not negative
Unit == [decl : [Ids -> Decl],
         hasOneEntry : BOOLEAN,                   \* one entry point, no recursion, a tree
         bodies  : SUBSET Functions,
         symbols : [Functions -> SUBSET Ids],     \* mentioned outside if (false) branches
         calls   : [Functions -> SUBSET Functions],
         autoBindings : BOOLEAN, autoLocations : BOOLEAN,
         shift : [ResourceTypes -> Nat], shiftForSet : [ResourceTypes -> [Sets -> Nat \cup {-1}]],
         resourceSet : Nat \cup {-1},             \* the single --resource-set-binding
         severalSets : BOOLEAN]                   \* it is given per resource; HLSL's parser has used it

ASSUME IoMapperAssumption ==
    /\ Ids \subseteq Nat /\ IsFiniteSet(Ids) /\ Entry \in Functions
    /\ BindingEnd \in Nat \ {0} /\ LocationEnd \in Nat \ {0} /\ SetEnd \in Nat \ {0} /\ MaxCalls \in Nat
    /\ \A p \in Programs :
         DOMAIN p # {} /\ DOMAIN p \subseteq Nat /\ IsFiniteSet(DOMAIN p) /\ p \in [DOMAIN p -> Unit]

VARIABLES
    program,        \* the units as linked
    qualifiers,     \* their declarations, as mapIO rewrites them
    ioMapper,       \* whether TProgram has its mapper
    result,         \* of the last mapIO: "none", "true" or "false"
    calls,
    phase,          \* where addStage is: "idle", "stage", "live", "resolve"
    stage,
    functions, liveFunctions,      \* of the live traverser
    entries,        \* inVarMap, outVarMap and uniformVarMap
    pending,        \* the entries for_each has not reached
    slots,          \* per set, the slots in use
    base,           \* of getFreeSlot's loop; -1 outside it
    nextLocation,   \* per storage: nextInputLocation, nextOutputLocation, nextUniformLocation
    hadError

traverseVars == <<functions, liveFunctions>>
resolveVars  == <<pending, slots, base, nextLocation, hadError>>
programVars  == <<program, ioMapper, calls>>
vars == <<programVars, qualifiers, result, phase, stage, traverseVars, entries, resolveVars>>

unit == program[stage]
Unmapped == [live |-> FALSE, newBinding |-> -1, newSet |-> -1, newLocation |-> -1]

Init ==
    /\ program \in Programs
    /\ qualifiers = [s \in DOMAIN program |-> program[s].decl]
    /\ ioMapper = FALSE /\ result = "none" /\ calls = 0
    /\ phase = "idle" /\ stage = 0
    /\ functions = {} /\ liveFunctions = {} /\ entries = [v \in {} |-> Unmapped]
    /\ pending = {} /\ slots = [set \in Sets |-> {}] /\ base = -1
    /\ nextLocation = [st \in Storages |-> 0] /\ hadError = FALSE

-----------------------------------------------------------------------------
\* TProgram::mapIO

MayRetry == ~ioMapper \/ result = "false"
MayMap == ~ioMapper

\* the next stage, in the order of EShLanguage; after the last one mapIO is done
NextStageAfter(s) ==
    LET rest == {t \in DOMAIN program : t > s} IN
    IF rest = {}
    THEN phase' = "idle" /\ result' = "true" /\ UNCHANGED stage
    ELSE /\ phase' = "stage" /\ UNCHANGED result
         /\ stage' \in {t \in rest : \A u \in rest : t <= u}

mapIO ==
    /\ phase = "idle" /\ calls < MaxCalls /\ MayMap
    /\ ioMapper' = TRUE /\ calls' = calls + 1
    /\ NextStageAfter(-1)
    /\ UNCHANGED <<program, qualifiers, traverseVars, entries, resolveVars>>

mapIORefused ==
    /\ phase = "idle" /\ calls < MaxCalls /\ ~MayMap
    /\ result' = "false" /\ calls' = calls + 1
    /\ UNCHANGED <<program, ioMapper, qualifiers, phase, stage, traverseVars, entries, resolveVars>>

\* addStage returned false: the stages before this one stay mapped
GiveUp == phase' = "idle" /\ result' = "false" /\ UNCHANGED stage

-----------------------------------------------------------------------------
\* addStage: which variables, and which of them are live

SomethingToDo ==
    \/ unit.resourceSet # -1 \/ unit.severalSets \/ unit.autoBindings \/ unit.autoLocations
    \/ \E r \in ResourceTypes :
         unit.shift[r] # 0 \/ \E set \in Sets : unit.shiftForSet[r][set] # -1

SkipStage ==
    /\ phase = "stage" /\ ~SomethingToDo
    /\ NextStageAfter(stage)
    /\ UNCHANGED <<programVars, qualifiers, traverseVars, entries, resolveVars>>

RefuseStage ==
    /\ phase = "stage" /\ SomethingToDo /\ ~unit.hasOneEntry
    /\ GiveUp
    /\ UNCHANGED <<programVars, qualifiers, traverseVars, entries, resolveVars>>

\* The traversal of all code meets every declared variable among the linker objects.
GatherAll ==
    /\ phase = "stage" /\ SomethingToDo /\ unit.hasOneEntry
    /\ phase' = "live"
    /\ entries' = [v \in {w \in Ids : qualifiers[stage][w].storage \in Storages} |-> Unmapped]
    /\ functions' = {Entry} \cap unit.bodies
    /\ liveFunctions' = {}
    /\ UNCHANGED <<programVars, qualifiers, result, stage, resolveVars>>

\* addFunctionCall, for the calls in the body of f
DirectCalls(f) == IF f = Entry THEN unit.calls[f] \ liveFunctions ELSE {}
NewCalls(f) == unit.calls[f] \ liveFunctions

GatherLive(f) ==
    /\ phase = "live" /\ f \in functions
    /\ entries' = [v \in DOMAIN entries |->
                     [entries[v] EXCEPT !.live = @ \/ v \in unit.symbols[f]]]
    /\ functions' = (functions \ {f}) \cup (NewCalls(f) \cap unit.bodies)
    /\ liveFunctions' = liveFunctions \cup NewCalls(f)
    /\ UNCHANGED <<programVars, qualifiers, result, phase, stage, resolveVars>>

BeginResolve ==
    /\ phase = "live" /\ functions = {}
    /\ phase' = "resolve"
    /\ pending' = DOMAIN entries
    /\ slots' = [set \in Sets |-> {}] /\ base' = -1
    /\ nextLocation' = [st \in Storages |-> 0]
    /\ hadError' = FALSE
    /\ UNCHANGED <<programVars, qualifiers, result, stage, traverseVars, entries>>

-----------------------------------------------------------------------------
\* addStage: resolving, one variable after the other

declared(v) == qualifiers[stage][v]

\* TOrderByPriority
Points(v) == (IF declared(v).binding # -1 THEN 2 ELSE 0) + (IF declared(v).set # -1 THEN 1 ELSE 0)

PrecedesById(v, w) == v < w
Precedes(v, w) == Points(v) > Points(w) \/ (Points(v) = Points(w) /\ v < w)

\* inVarMap, then outVarMap, both by id, then uniformVarMap by priority
Before(v, w) ==
    LET a == declared(v).storage
        b == declared(w).storage
    IN  \/ a = "in" /\ b # "in"
        \/ a = "out" /\ b = "uniform"
        \/ a = b /\ a \in InOut /\ v < w
        \/ a = b /\ a = "uniform" /\ Precedes(v, w)

Current(v) == v \in pending /\ \A w \in pending \ {v} : Before(v, w)

LayoutSet(v) == IF declared(v).set # -1 THEN declared(v).set ELSE 0

resolveSet(v) ==
    IF declared(v).set # -1 THEN declared(v).set
    ELSE IF unit.resourceSet # -1 THEN unit.resourceSet ELSE 0

BaseBinding(v) ==
    LET forSet == unit.shiftForSet[declared(v).type][LayoutSet(v)] IN
    IF forSet # -1 THEN forSet ELSE unit.shift[declared(v).type]

NeedsLocation(v) ==
    unit.autoLocations /\ declared(v).location = -1 /\ declared(v).locatable

Advanced(v) == nextLocation[declared(v).storage] + declared(v).locations

Locate(v) ==
    nextLocation' = IF NeedsLocation(v)
                    THEN [nextLocation EXCEPT ![declared(v).storage] = Advanced(v)]
                    ELSE nextLocation

Location(v) == IF NeedsLocation(v) THEN nextLocation[declared(v).storage] ELSE -1

resolveInOut(v) ==
    /\ phase = "resolve" /\ Current(v) /\ declared(v).storage \in InOut
    /\ entries' = [entries EXCEPT ![v].newLocation = Location(v)]
    /\ Locate(v)
    /\ pending' = pending \ {v}
    /\ UNCHANGED <<programVars, qualifiers, result, phase, stage, traverseVars, slots, base, hadError>>

Resolving(v) == phase = "resolve" /\ Current(v) /\ declared(v).storage = "uniform"

AfterLimit(v, b) == b > BindingEnd \/ resolveSet(v) > SetEnd
OutOfRange(v, b) == b >= BindingEnd \/ resolveSet(v) >= SetEnd

\* TResolverUniformAdaptor, once resolveBinding has returned b
Settle(v, b) ==
    /\ entries' = [entries EXCEPT ![v] = [@ EXCEPT !.newBinding = b, !.newSet = resolveSet(v),
                                                   !.newLocation = Location(v)]]
    /\ Locate(v)
    /\ hadError' = (hadError \/ OutOfRange(v, b))
    /\ pending' = pending \ {v}
    /\ base' = -1
    /\ UNCHANGED <<programVars, qualifiers, result, phase, stage, traverseVars>>

RangeAt(v, b) == b .. b + declared(v).size - 1

reserveSlot(v, b) ==
    /\ slots' = [slots EXCEPT ![LayoutSet(v)] = @ \cup RangeAt(v, b)]
    /\ Settle(v, b)

resolveDeclared(v) ==
    /\ Resolving(v) /\ declared(v).binding # -1
    /\ reserveSlot(v, BaseBinding(v) + declared(v).binding)

WantsBinding(v) == declared(v).binding = -1 /\ entries[v].live /\ unit.autoBindings

leaveUnbound(v) ==
    /\ Resolving(v) /\ declared(v).binding = -1 /\ ~WantsBinding(v)
    /\ Settle(v, -1)
    /\ UNCHANGED slots

getFreeSlot(v) ==
    /\ Resolving(v) /\ WantsBinding(v) /\ base = -1
    /\ base' = BaseBinding(v)
    /\ UNCHANGED <<programVars, qualifiers, result, phase, stage, traverseVars, entries,
                   pending, slots, nextLocation, hadError>>

\* at, as the loop of getFreeSlot has it: the first slot in use that is not below base
IsAt(v, at) ==
    /\ at \in slots[LayoutSet(v)] /\ at >= base
    /\ \A x \in slots[LayoutSet(v)] : x >= base => at <= x

FitsOne(v, at) == at - base >= 1
Fits(v, at) == at - base >= declared(v).size

skipSlot(v, at) ==
    /\ Resolving(v) /\ base # -1 /\ IsAt(v, at) /\ ~Fits(v, at)
    /\ base' = at + 1
    /\ UNCHANGED <<programVars, qualifiers, result, phase, stage, traverseVars, entries,
                   pending, slots, nextLocation, hadError>>

takeSlot(v) ==
    /\ Resolving(v) /\ base # -1
    /\ \A at \in slots[LayoutSet(v)] : IsAt(v, at) => Fits(v, at)
    /\ reserveSlot(v, base)

\* what the bit field of a location holds; its highest value means none
InField(location) ==
    LET bits == location % (LocationEnd + 1) IN IF bits = LocationEnd THEN -1 ELSE bits

\* TVarSetTraverser::visitSymbol
Mapped(d, e) ==
    [d EXCEPT !.binding  = IF e.newBinding # -1 THEN e.newBinding ELSE @,
              !.set      = IF e.newSet # -1 THEN e.newSet ELSE @,
              !.location = IF e.newLocation # -1 THEN InField(e.newLocation) ELSE @]

applyStage ==
    /\ phase = "resolve" /\ pending = {} /\ ~hadError
    /\ qualifiers' = [qualifiers EXCEPT ![stage] =
         [v \in Ids |-> IF v \in DOMAIN entries THEN Mapped(@[v], entries[v]) ELSE @[v]]]
    /\ NextStageAfter(stage)
    /\ UNCHANGED <<programVars, traverseVars, entries, resolveVars>>

failStage ==
    /\ phase = "resolve" /\ pending = {} /\ hadError
    /\ GiveUp
    /\ UNCHANGED <<programVars, qualifiers, traverseVars, entries, resolveVars>>

Next ==
    \/ mapIO \/ mapIORefused
    \/ SkipStage \/ RefuseStage
    \/ GatherAll \/ BeginResolve
    \/ \E f \in functions : GatherLive(f)
    \/ \E v \in pending :
         \/ resolveInOut(v) \/ resolveDeclared(v) \/ leaveUnbound(v)
         \/ getFreeSlot(v) \/ takeSlot(v)
         \/ \E at \in slots[LayoutSet(v)] : skipSlot(v, at)
    \/ applyStage \/ failStage

Spec == Init /\ [][Next]_vars

-----------------------------------------------------------------------------
\* Properties

MapEntry == [live : BOOLEAN, newBinding : Nat \cup {-1}, newSet : Nat \cup {-1},
           newLocation : Nat \cup {-1}]

(* Types; in particular no binding or set that mapIO writes reaches the    *)
(* value that layoutBinding and layoutSet have when nothing was given,     *)
(* although it adds shifts to them and counts past slots in use            *)
(* (TResolverUniformAdaptor's range checks).                               *)
TypeOK ==
    /\ DOMAIN qualifiers = DOMAIN program
    /\ \A s \in DOMAIN qualifiers : qualifiers[s] \in [Ids -> Decl]
    /\ ioMapper \in BOOLEAN /\ hadError \in BOOLEAN
    /\ result \in {"none", "true", "false"} /\ calls \in 0 .. MaxCalls
    /\ phase \in {"idle", "stage", "live", "resolve"}
    /\ stage \in Nat /\ (phase # "idle" => stage \in DOMAIN program)
    /\ functions \subseteq Functions /\ liveFunctions \subseteq Functions
    /\ DOMAIN entries \subseteq Ids /\ entries \in [DOMAIN entries -> MapEntry]
    /\ pending \subseteq DOMAIN entries
    /\ slots \in [Sets -> SUBSET Nat] /\ base \in Nat \cup {-1}
    /\ nextLocation \in [Storages -> Nat]

\* the functions a run of the stage can enter
Reached ==
    {f \in Functions :
       \A S \in SUBSET Functions :
          /\ {Entry} \cap unit.bodies \subseteq S
          /\ \A g \in S : unit.calls[g] \cap unit.bodies \subseteq S
          => f \in S}

(* A variable counts as live exactly when a function that the entry point  *)
(* can reach mentions it: the live traverser's list, emptied and refilled  *)
(* as calls are met, misses no function and visits no dead one             *)
(* (iomapper.cpp:52, LiveTraverser.h:105).                                 *)
LiveIsReached ==
    phase = "resolve" =>
        \A v \in DOMAIN entries : entries[v].live <=> \E f \in Reached : v \in unit.symbols[f]

(* A declared binding is shifted by the base of its type once, however     *)
(* often mapIO is called, failed stages and refused calls included         *)
(* (ShaderLang.cpp:2024).                                                  *)
MappedOnce ==
    \A s \in DOMAIN program, v \in Ids :
        LET d == program[s].decl[v]
            set == IF d.set # -1 THEN d.set ELSE 0
            shift == IF program[s].shiftForSet[d.type][set] # -1
                     THEN program[s].shiftForSet[d.type][set] ELSE program[s].shift[d.type]
        IN  d.binding # -1 => qualifiers[s][v].binding \in {d.binding, d.binding + shift}

\* the slots a variable has after mapping, and what it got automatically
Bound(s, v) == qualifiers[s][v].storage = "uniform" /\ qualifiers[s][v].binding # -1
OpenBound(s, v) == Bound(s, v) /\ program[s].decl[v].binding = -1
Located(s, v) == qualifiers[s][v].location # -1 /\ program[s].decl[v].location = -1
SlotsOf(s, v) == qualifiers[s][v].binding .. qualifiers[s][v].binding + qualifiers[s][v].size - 1
LocationsOf(s, v) ==
    qualifiers[s][v].location .. qualifiers[s][v].location + qualifiers[s][v].locations - 1

\* the automatic locations of each list are within the field
LocationsFit(s) ==
    \A st \in Storages :
        LET wanting == {v \in Ids : LET d == program[s].decl[v] IN
                                   d.storage = st /\ d.location = -1 /\ d.locatable}
        IN  Cardinality(UNION {{v} \X (1 .. program[s].decl[v].locations) : v \in wanting}) <= LocationEnd

OpenBindingsApart(s) ==
    \A v, w \in Ids :
        /\ v # w /\ OpenBound(s, v) /\ Bound(s, w)
        /\ qualifiers[s][v].set = qualifiers[s][w].set
        => SlotsOf(s, v) \cap SlotsOf(s, w) = {}

LocationsApart(s) ==
    \A v, w \in Ids :
        /\ v # w /\ Located(s, v) /\ Located(s, w)
        /\ qualifiers[s][v].storage = qualifiers[s][w].storage
        => LocationsOf(s, v) \cap LocationsOf(s, w) = {}

(* In the tree that mapIO leaves, a binding that was given automatically   *)
(* overlaps no other binding of its set and an automatic location no other *)
(* automatic location; for stages whose descriptor set is not moved by an  *)
(* option, and whose locations fit their field, which nothing checks       *)
(* (iomapper.cpp:58, 191, 405, 464).                                       *)
AutomaticMappingsApart ==
    \A s \in DOMAIN program :
        /\ LocationsFit(s) => LocationsApart(s)
        /\ (program[s].resourceSet \in {-1, 0} => OpenBindingsApart(s))

(* "implicit live bindings are auto-numbered into the holes, using any     *)
(* open binding slot" (iomapper.cpp:58), whatever the options.             *)
OpenSlotsAreOpen == \A s \in DOMAIN program : OpenBindingsApart(s)

\* what the current stage has placed so far
Placed == {v \in DOMAIN entries \ pending :
             phase = "resolve" /\ declared(v).storage = "uniform" /\ entries[v].newBinding # -1}

PlaceOf(v) == [set |-> LayoutSet(v), base |-> BaseBinding(v), first |-> entries[v].newBinding,
               size |-> declared(v).size, open |-> declared(v).binding = -1]

Abstract == INSTANCE OpenBindings WITH placed <- [v \in Placed |-> PlaceOf(v)]

(* Resolving implements OpenBindings: declared bindings first, then for    *)
(* every live variable without one the first gap large enough for all of   *)
(* its slots, which getFreeSlot finds slot by slot over the stage's sorted *)
(* slots (iomapper.cpp:405).                                               *)
ImplementsOpenBindings == Abstract!Spec
=============================================================================
