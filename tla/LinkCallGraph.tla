--------------------------- MODULE LinkCallGraph ---------------------------
(***************************************************************************)
(* The call graph of a stage: parsing the compilation units records it     *)
(* (addToCallGraph), linking concatenates the units' graphs and bodies     *)
(* (TIntermediate::merge), and finalCheck looks for recursion with a       *)
(* depth-first search, then for missing bodies, and deletes the bodies     *)
(* nothing calls.  TCall objects are numbered by their place in callGraph; *)
(* their flags are sets of these numbers.                                  *)
(***************************************************************************)
EXTENDS Integers, Sequences

CONSTANTS
    Functions,     \* mangled names
    Entry,         \* the name the entry point has after renameShaderFunction
    Main,          \* "main(", the caller of calls at global scope
    NoFunction,    \* the empty name
    MaxUnits,      \* bound: compilation units of the stage
    MaxCalls       \* bound: calls recorded in all

ASSUME CallGraphAssumption ==
    /\ Entry \in Functions /\ Main \in Functions /\ NoFunction \notin Functions
    /\ MaxUnits \in Nat \ {0} /\ MaxCalls \in Nat

VARIABLES
    unitCalls,      \* the unit being parsed: its callGraph,
    unitBodies,     \* its functions with a body
    currentCaller,  \* and the function whose body is being parsed
    units,          \* how many units were merged
    callGraph, bodies, entryPointMangledName,  \* the stage's TIntermediate
    errors,         \* the kinds of link errors reported
    recursive,
    visited, currentPath, errorGiven,          \* flags of the TCalls
    stack,
    keepUncalled,   \* EShMsgKeepUncalled, given to finalCheck
    phase,
    initializers    \* not in the code: functions called at global scope

unitVars  == <<unitCalls, unitBodies, currentCaller>>
stageVars == <<units, callGraph, entryPointMangledName, initializers, keepUncalled>>
flagVars  == <<visited, currentPath, errorGiven, stack>>
vars == <<unitVars, stageVars, bodies, errors, recursive, flagVars, phase>>

Call   == [caller : Functions, callee : Functions]
Errors == {"entry points", "bodies", "no entry", "recursion", "no body"}

Init ==
    /\ unitCalls = <<>> /\ unitBodies = {} /\ currentCaller = NoFunction
    /\ units = 0 /\ callGraph = <<>> /\ bodies = {} /\ entryPointMangledName = NoFunction
    /\ errors = {} /\ recursive = FALSE
    /\ visited = {} /\ currentPath = {} /\ errorGiven = {} /\ stack = <<>>
    /\ keepUncalled = FALSE
    /\ phase = "parse"
    /\ initializers = {}

-----------------------------------------------------------------------------
\* Parsing a unit

handleFunctionDefinition(f) ==
    /\ phase = "parse" /\ units < MaxUnits
    /\ f \notin unitBodies
    /\ unitBodies' = unitBodies \cup {f}
    /\ currentCaller' = f
    /\ UNCHANGED <<unitCalls, stageVars, bodies, errors, recursive, flagVars, phase>>

(* New calls go to the front; a duplicate is looked for only among the      *)
(* calls in front that have the same caller.                                *)
Recorded(call) ==
    \E i \in DOMAIN unitCalls :
        unitCalls[i] = call /\ \A j \in 1..i : unitCalls[j].caller = call.caller

addToCallGraph(call) ==
    /\ phase = "parse" /\ units < MaxUnits
    /\ Len(callGraph) + Len(unitCalls) < MaxCalls
    /\ unitCalls' = IF Recorded(call) THEN unitCalls ELSE <<call>> \o unitCalls

CallInBody(g) ==
    /\ currentCaller # NoFunction
    /\ addToCallGraph([caller |-> currentCaller, callee |-> g])
    /\ UNCHANGED <<unitBodies, currentCaller, stageVars, bodies, errors, recursive, flagVars, phase>>

(* No body is being parsed any more.                                        *)
CallInInitializer(g) ==
    /\ addToCallGraph([caller |-> Main, callee |-> g])
    /\ currentCaller' = NoFunction
    /\ initializers' = initializers \cup {g}
    /\ UNCHANGED <<unitBodies, units, callGraph, entryPointMangledName, keepUncalled, bodies,
                   errors, recursive, flagVars, phase>>

-----------------------------------------------------------------------------
\* Linking

Replaced     == unitCalls
Concatenated == callGraph \o unitCalls

EntryOfUnit == Entry

Contradictions ==
    (IF bodies \cap unitBodies # {} THEN {"bodies"} ELSE {})
        \cup (IF Entry \in bodies \cap unitBodies THEN {"entry points"} ELSE {})

(* The unit is complete; mergeCallGraphs and mergeTrees add it to the       *)
(* stage.  A single unit is taken as it is, which is the same.              *)
merge ==
    /\ phase = "parse" /\ units < MaxUnits
    /\ units' = units + 1
    /\ callGraph' = Concatenated
    /\ bodies' = bodies \cup unitBodies
    /\ errors' = errors \cup Contradictions
    /\ entryPointMangledName' = IF Entry \in unitBodies THEN EntryOfUnit ELSE entryPointMangledName
    /\ unitCalls' = <<>> /\ unitBodies' = {} /\ currentCaller' = NoFunction
    /\ UNCHANGED <<recursive, flagVars, keepUncalled, phase, initializers>>

finalCheck(keep) ==
    /\ phase = "parse" /\ units > 0 /\ unitCalls = <<>> /\ unitBodies = {}
    /\ errors' = IF entryPointMangledName = NoFunction THEN errors \cup {"no entry"} ELSE errors
    /\ visited' = {} /\ currentPath' = {} /\ errorGiven' = {}
    /\ keepUncalled' = keep
    /\ phase' = "cycles"
    /\ UNCHANGED <<unitVars, units, callGraph, entryPointMangledName, initializers, bodies,
                   recursive, stack>>

-----------------------------------------------------------------------------
\* checkCallGraphCycles

Calls == DOMAIN callGraph
Follows(child, call) == callGraph[child].caller = callGraph[call].callee
First(S) == CHOOSE i \in S : \A j \in S : i <= j

newRoot ==
    /\ phase = "cycles" /\ stack = <<>> /\ Calls \ visited # {}
    /\ LET root == First(Calls \ visited) IN
         /\ currentPath' = currentPath \cup {root}
         /\ stack' = <<root>>
    /\ UNCHANGED <<unitVars, stageVars, bodies, errors, recursive, visited, errorGiven, phase>>

(* One turn of the loop: the calls of the callee are scanned up to the      *)
(* first that can be pushed; those met on the current path are recursion.   *)
CalleesAgain(call) == {c \in Calls : Follows(c, call)}
Callees(call)      == {c \in Calls \ visited : Follows(c, call)}

Pushable(call) == Callees(call) \ currentPath
Scanned(call)  == IF Pushable(call) = {} THEN Callees(call)
                  ELSE {c \in Callees(call) : c < First(Pushable(call))}

BackEdgesToTop(call) == Scanned(call) \cap {call}
BackEdges(call)      == Scanned(call) \cap currentPath

StillOnPath(call) == currentPath
OffPath(call)     == currentPath \ {call}

follow ==
    /\ phase = "cycles" /\ stack # <<>>
    /\ LET call == stack[Len(stack)] IN
         /\ errorGiven' = errorGiven \cup BackEdges(call)
         /\ recursive' = (recursive \/ BackEdges(call) # {})
         /\ errors' = IF BackEdges(call) # {} THEN errors \cup {"recursion"} ELSE errors
         /\ IF Pushable(call) # {}
            THEN /\ currentPath' = currentPath \cup {First(Pushable(call))}
                 /\ stack' = Append(stack, First(Pushable(call)))
                 /\ UNCHANGED visited
            ELSE /\ currentPath' = OffPath(call)
                 /\ visited' = visited \cup {call}
                 /\ stack' = SubSeq(stack, 1, Len(stack) - 1)
    /\ UNCHANGED <<unitVars, stageVars, bodies, phase>>

-----------------------------------------------------------------------------
\* checkCallGraphBodies

EntryCalls == {c \in Calls : callGraph[c].caller = entryPointMangledName}

cyclesDone ==
    /\ phase = "cycles" /\ stack = <<>> /\ Calls \subseteq visited
    /\ visited' = EntryCalls
    /\ phase' = "bodies"
    /\ UNCHANGED <<unitVars, stageVars, bodies, errors, recursive, currentPath, errorGiven, stack>>

(* Which unvisited call of a visited call's callee comes next is left open. *)
Reached == {c \in Calls \ visited : \E d \in visited : Follows(c, d)}

propagate ==
    /\ phase = "bodies"
    /\ \E c \in Reached : visited' = visited \cup {c}
    /\ UNCHANGED <<unitVars, stageVars, bodies, errors, recursive, currentPath, errorGiven, stack, phase>>

NotPropagated == TRUE
Propagated    == Reached = {}

VisitedCallees == {callGraph[c].callee : c \in visited}
CalledAtAll    == {callGraph[c].callee : c \in Calls} \cup {entryPointMangledName}
Reachable      == VisitedCallees \cup {entryPointMangledName}

deleteUncalled ==
    /\ phase = "bodies" /\ Propagated
    /\ errors' = IF VisitedCallees \subseteq bodies THEN errors ELSE errors \cup {"no body"}
    /\ bodies' = IF keepUncalled THEN bodies ELSE bodies \cap Reachable
    /\ phase' = "done"
    /\ UNCHANGED <<unitVars, stageVars, recursive, flagVars>>

-----------------------------------------------------------------------------
Parse == \/ \E f \in Functions : handleFunctionDefinition(f) \/ CallInBody(f) \/ CallInInitializer(f)
         \/ merge
Check == newRoot \/ follow \/ cyclesDone \/ propagate \/ deleteUncalled

Next == Parse \/ (\E keep \in BOOLEAN : finalCheck(keep)) \/ Check

(* The checks are one call that runs to its end.                            *)
Spec == Init /\ [][Next]_vars /\ WF_vars(Check)

-----------------------------------------------------------------------------
TypeOK ==
    /\ unitCalls \in Seq(Call) /\ unitBodies \subseteq Functions
    /\ currentCaller \in Functions \cup {NoFunction}
    /\ units \in 0..MaxUnits
    /\ callGraph \in Seq(Call) /\ bodies \subseteq Functions
    /\ entryPointMangledName \in {Entry, NoFunction}
    /\ errors \subseteq Errors /\ recursive \in BOOLEAN
    /\ visited \subseteq Calls /\ currentPath \subseteq Calls /\ errorGiven \subseteq Calls
    /\ stack \in Seq(Calls)
    /\ keepUncalled \in BOOLEAN
    /\ phase \in {"parse", "cycles", "bodies", "done"}
    /\ initializers \subseteq Functions

(* "currentPath will be true iff it is on the stack" (linkValidate.cpp:830):*)
(* the flag that tells a back edge from a new call marks exactly the calls  *)
(* of the search's path, each of which follows the one before and has not   *)
(* been left for good.                                                      *)
PathIsStack ==
    /\ currentPath = {stack[i] : i \in DOMAIN stack}
    /\ currentPath \cap visited = {} \/ phase \in {"bodies", "done"}
    /\ \A i, j \in DOMAIN stack : stack[i] = stack[j] => i = j
    /\ \A i \in 1..(Len(stack) - 1) : Follows(stack[i + 1], stack[i])

(* checkCallGraphCycles reports recursion if and only if there is any:      *)
(* functions, each of which calls one of them.                              *)
Calling(f, S) == \E c \in Calls : callGraph[c].caller = f /\ callGraph[c].callee \in S
Recursion == \E S \in SUBSET Functions : S # {} /\ \A f \in S : Calling(f, S)

RecursionIsFound ==
    /\ recursive => Recursion
    /\ phase \in {"bodies", "done"} /\ Recursion => recursive

(* The functions a shader runs: its entry point, what global initializers   *)
(* call, and what these call in turn.                                       *)
ClosedUnderCalls(S) == \A c \in Calls : callGraph[c].caller \in S => callGraph[c].callee \in S
Live == {f \in Functions : \A S \in SUBSET Functions :
            entryPointMangledName \in S /\ initializers \subseteq S /\ ClosedUnderCalls(S) => f \in S}

(* "Unreachable bodies are dead code" (linkValidate.cpp:876), and only      *)
(* they: no step deletes the body of a function that the shader runs ...    *)
LiveBodiesStay ==
    [][entryPointMangledName # NoFunction => bodies \cap Live \subseteq bodies']_vars

(* ... and in the end no other body is left, unless EShMsgKeepUncalled asks *)
(* for them.                                                                *)
DeadBodiesGo ==
    phase = "done" /\ entryPointMangledName # NoFunction /\ ~keepUncalled => bodies \subseteq Live

(* "Reachable ones with missing bodies are errors" (linkValidate.cpp:875),  *)
(* and only they: a stage that links has a body for everything it runs.     *)
MissingBodiesFound ==
    phase = "done" /\ entryPointMangledName # NoFunction => ("no body" \in errors <=> ~(Live \subseteq bodies))

(* The same for any entry point: what links without an error is complete.   *)
LinkedStageIsComplete ==
    phase = "done" /\ errors = {} => Live \subseteq bodies

(* "This algorithm always terminates" (linkValidate.cpp:837).               *)
ChecksEnd == phase = "cycles" ~> phase = "done"
=============================================================================
