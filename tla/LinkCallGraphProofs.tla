------------------------ MODULE LinkCallGraphProofs ------------------------
(***************************************************************************)
(* For every set of functions, number of units and call graph: the search  *)
(* of checkCallGraphCycles reports recursion exactly when there is any, and *)
(* checkCallGraphBodies keeps exactly the bodies the shader runs.          *)
(***************************************************************************)
EXTENDS LinkCallGraph, SequenceTheorems, WellFoundedInduction, TLAPS

\* The flags and the path are in use only while a check runs.
Idle ==
    /\ phase = "parse" => visited = {} /\ errorGiven = {} /\ ~recursive
    /\ phase # "parse" => unitCalls = <<>>
    /\ phase # "cycles" => stack = <<>> /\ currentPath = {}
    /\ phase # "done" => "no body" \notin errors

(* What the search has left for good is closed under calls and has no       *)
(* cycle, as long as no recursion was reported.                             *)
Closed(S)  == \A c \in S, d \in Calls : Follows(d, c) => d \in S
Acyclic(S) == \A T \in SUBSET S : T # {} => \E c \in T : \A d \in T : ~Follows(d, c)

Search ==
    /\ phase = "cycles" => currentPath \cap visited = {}
    /\ phase = "cycles" /\ ~recursive => Closed(visited) /\ Acyclic(visited)
    /\ recursive => Recursion
    /\ phase \in {"bodies", "done"} /\ ~recursive => ~Recursion

IInv == TypeOK /\ Idle /\ PathIsStack /\ Search

-----------------------------------------------------------------------------
\* First finds a call.
LEMMA LeastExists ==
    ASSUME NEW S, S \subseteq Nat, S # {}
    PROVE  First(S) \in S /\ \A j \in S : First(S) <= j
<1>1. PICK x \in S : \A y \in S : ~(<<y, x>> \in OpToRel(<, Nat))
  BY NatLessThanWellFounded, WFMin, Zenon
<1>2. ASSUME NEW y \in S PROVE ~(y < x)
  <2>1. <<y, x>> \in Nat \X Nat
    OBVIOUS
  <2>2. ASSUME y < x PROVE <<y, x>> \in OpToRel(<, Nat)
    BY <2>1, <2>2, Zenon DEF OpToRel
  <2> QED BY <1>1, <2>2, Zenon
<1>3. \A y \in S : x <= y
  BY <1>2
<1> QED BY <1>3 DEF First

\* The numbers of the calls
LEMMA CallsAre ==
    ASSUME TypeOK
    PROVE  /\ Len(callGraph) \in Nat /\ Calls = 1..Len(callGraph) /\ Calls \subseteq Nat
           /\ \A c \in Calls : callGraph[c].caller \in Functions /\ callGraph[c].callee \in Functions
           /\ Len(stack) \in Nat /\ DOMAIN stack = 1..Len(stack)
           /\ \A i \in 1..Len(stack) : stack[i] \in Calls
<1>1. callGraph \in Seq(Call) /\ stack \in Seq(Calls)
  BY DEF TypeOK
<1>2. Len(callGraph) \in Nat /\ Calls = 1..Len(callGraph)
  BY <1>1, LenProperties DEF Calls
<1>3. \A c \in Calls : callGraph[c] \in Call
  BY <1>1, <1>2, ElementOfSeq
<1>4. Len(stack) \in Nat /\ DOMAIN stack = 1..Len(stack) /\ \A i \in 1..Len(stack) : stack[i] \in Calls
  BY <1>1, LenProperties, ElementOfSeq
<1> QED BY <1>2, <1>3, <1>4 DEF Call

\* While the call graph stays, its calls stay.
LEMMA SameGraph ==
    ASSUME UNCHANGED callGraph
    PROVE  /\ Calls' = Calls
           /\ \A c, d : Follows(c, d)' <=> Follows(c, d)
           /\ Recursion' <=> Recursion
           /\ \A S : (Closed(S)' <=> Closed(S)) /\ (Acyclic(S)' <=> Acyclic(S))
BY DEF Calls, Follows, Recursion, Calling, Closed, Acyclic

-----------------------------------------------------------------------------
\* The empty path has no places.
LEMMA EmptySeqIs ==
    ASSUME NEW S
    PROVE  /\ <<>> \in Seq(S) /\ Len(<<>>) = 0 /\ DOMAIN <<>> = 1..0
           /\ 1..0 = {} /\ 1..(0 - 1) = {}
OBVIOUS

\* A TIntermediate starts without calls or flags.
LEMMA InitIInv == ASSUME CallGraphAssumption, Init PROVE IInv
<1>1. <<>> \in Seq(Call) /\ <<>> \in Seq(Calls) /\ Len(<<>>) = 0 /\ DOMAIN <<>> = 1..0
  BY EmptySeqIs, Zenon
<1>2. units \in 0..MaxUnits /\ recursive \in BOOLEAN /\ ~recursive
  <2>1. units = 0 /\ 0 \in 0..MaxUnits
    BY DEF Init, CallGraphAssumption
  <2>2. recursive = FALSE
    BY Zenon DEF Init
  <2> QED BY <2>1, <2>2, Zenon
<1>3. TypeOK
  BY <1>1, <1>2 DEF Init, TypeOK
<1>4. PathIsStack
  <2>1. stack = <<>> /\ currentPath = {} /\ visited = {}
    BY DEF Init
  <2> QED BY <1>1, <2>1 DEF PathIsStack
<1>5. phase = "parse" /\ visited = {} /\ errorGiven = {} /\ stack = <<>> /\ currentPath = {} /\ errors = {}
  BY DEF Init
<1>6. Idle
  BY <1>2, <1>5 DEF Idle
<1>7. Search
  BY <1>2, <1>5 DEF Search
<1> QED BY <1>3, <1>4, <1>6, <1>7 DEF IInv

(* Parsing and linking leave the flags alone, which are all clear.          *)
LEMMA ParseKeeps ==
    ASSUME CallGraphAssumption, IInv, phase = "parse", phase' = "parse",
           UNCHANGED <<recursive, visited, currentPath, errorGiven, stack>>, "no body" \notin errors'
    PROVE  Idle' /\ PathIsStack' /\ Search'
<1>1. stack = <<>> /\ currentPath = {} /\ visited = {} /\ errorGiven = {} /\ ~recursive
  BY DEF IInv, Idle
<1>2. stack' = <<>> /\ currentPath' = {} /\ visited' = {} /\ errorGiven' = {} /\ ~recursive'
  BY <1>1, Zenon
<1>3. Len(<<>>) = 0 /\ DOMAIN <<>> = 1..0
  BY EmptySeqIs, Zenon
<1>4. PathIsStack'
  <2>1. DOMAIN stack' = 1..0 /\ Len(stack') = 0
    BY <1>2, <1>3
  <2>3. DOMAIN stack' = {} /\ 1..(Len(stack') - 1) = {}
    BY <2>1, EmptySeqIs, Zenon
  <2> QED BY <1>2, <2>3 DEF PathIsStack
<1>5. Idle'
  BY <1>2 DEF Idle
<1>6. Search'
  BY <1>2 DEF Search
<1> QED BY <1>4, <1>5, <1>6

\* Parsing and linking keep the invariant.
LEMMA ParseIInv ==
    ASSUME CallGraphAssumption, IInv, Parse
    PROVE  IInv'
<1> USE DEF unitVars, stageVars, flagVars
<1>0. TypeOK /\ Idle /\ phase = "parse" /\ Calls = DOMAIN callGraph
  BY DEF IInv, Parse, handleFunctionDefinition, CallInBody, CallInInitializer, addToCallGraph, merge, Calls
<1>1. /\ stack = <<>> /\ currentPath = {} /\ visited = {} /\ errorGiven = {} /\ "no body" \notin errors
      /\ unitCalls \in Seq(Call) /\ callGraph \in Seq(Call)
  BY <1>0 DEF Idle, TypeOK
<1>2. ASSUME NEW f \in Functions, handleFunctionDefinition(f) PROVE IInv'
  <2>1. TypeOK'
    BY <1>0, <1>2, SameGraph DEF handleFunctionDefinition, TypeOK
  <2> QED BY <1>0, <1>1, <1>2, <2>1, ParseKeeps DEF handleFunctionDefinition, IInv
<1>3. ASSUME NEW call \in Call, addToCallGraph(call)
      PROVE  unitCalls' \in Seq(Call)
  <2>1. <<call>> \in Seq(Call)
    OBVIOUS
  <2>2. <<call>> \o unitCalls \in Seq(Call)
    BY <1>1, <2>1, ConcatProperties
  <2> QED BY <1>1, <1>3, <2>2 DEF addToCallGraph
<1>4. ASSUME NEW g \in Functions, CallInBody(g) PROVE IInv'
  <2>1. [caller |-> currentCaller, callee |-> g] \in Call
    BY <1>0, <1>4 DEF CallInBody, TypeOK, Call
  <2>2. unitCalls' \in Seq(Call)
    BY <1>3, <1>4, <2>1 DEF CallInBody
  <2>3. TypeOK'
    BY <1>0, <1>4, <2>2, SameGraph DEF CallInBody, TypeOK
  <2> QED BY <1>0, <1>1, <1>4, <2>3, ParseKeeps DEF CallInBody, IInv
<1>5. ASSUME NEW g \in Functions, CallInInitializer(g) PROVE IInv'
  <2>1. [caller |-> Main, callee |-> g] \in Call
    BY DEF CallGraphAssumption, Call
  <2>2. unitCalls' \in Seq(Call)
    BY <1>3, <1>5, <2>1 DEF CallInInitializer
  <2>3. TypeOK'
    BY <1>0, <1>5, <2>2, SameGraph DEF CallInInitializer, TypeOK
  <2> QED BY <1>0, <1>1, <1>5, <2>3, ParseKeeps DEF CallInInitializer, IInv
<1>6. ASSUME merge PROVE IInv'
  <2>1. callGraph' \in Seq(Call)
    BY <1>1, <1>6, ConcatProperties DEF merge, Concatenated
  <2>2. <<>> \in Seq(Call) /\ <<>> \in Seq(Calls')
    OBVIOUS
  <2>3. units' \in 0..MaxUnits
    BY <1>0, <1>6 DEF merge, TypeOK, CallGraphAssumption
  <2>4. errors' \subseteq Errors /\ "no body" \notin errors'
    BY <1>0, <1>1, <1>6 DEF merge, Contradictions, Errors, TypeOK
  <2>5. bodies' \subseteq Functions /\ entryPointMangledName' \in {Entry, NoFunction}
    BY <1>0, <1>6 DEF merge, EntryOfUnit, TypeOK
  <2>6. /\ unitCalls' = <<>> /\ unitBodies' = {} /\ currentCaller' = NoFunction
        /\ UNCHANGED <<recursive, visited, currentPath, errorGiven, stack, keepUncalled, phase, initializers>>
    BY <1>6 DEF merge
  <2>7. TypeOK'
    BY <1>0, <1>1, <2>1, <2>2, <2>3, <2>4, <2>5, <2>6 DEF TypeOK
  <2> QED BY <1>0, <2>4, <2>6, <2>7, ParseKeeps DEF IInv
<1> QED BY <1>2, <1>4, <1>5, <1>6 DEF Parse

-----------------------------------------------------------------------------
\* The steps of the search keep the path.

\* The places of a path, with and without its last call
LEMMA Places ==
    ASSUME NEW n \in Nat
    PROVE  /\ \A i \in 1..(n + 1) : i \in 1..n \/ i = n + 1
           /\ 1..n \subseteq 1..(n + 1) /\ n + 1 \in 1..(n + 1) /\ n + 1 \notin 1..n
           /\ \A i \in 1..n : (i \in 1..(n - 1) <=> i # n)
           /\ \A i \in 1..(n - 1) : i \in 1..n /\ i + 1 \in 1..n
           /\ n > 0 => n \in 1..n /\ n - 1 \in Nat /\ n - 1 \in 0..n
OBVIOUS

\* A call that follows the last one may go on the path.
LEMMA PushKeepsPath ==
    ASSUME TypeOK, PathIsStack, phase = "cycles", phase' = "cycles",
           NEW new \in Calls, new \notin currentPath, new \notin visited,
           UNCHANGED <<callGraph, visited>>, currentPath' = currentPath \cup {new},
           stack' = Append(stack, new),
           Len(stack) > 0 => Follows(new, stack[Len(stack)])
    PROVE  stack' \in Seq(Calls) /\ PathIsStack'
<1> DEFINE n == Len(stack)
<1>1. stack \in Seq(Calls)
  BY DEF TypeOK
<1>2. n \in Nat /\ DOMAIN stack = 1..n
  BY <1>1, LenProperties
<1>3. /\ stack' \in Seq(Calls) /\ Len(stack') = n + 1 /\ DOMAIN stack' = 1..(n + 1)
      /\ \A i \in 1..n : stack'[i] = stack[i]
      /\ stack'[n + 1] = new
  BY <1>1, <1>2, AppendProperties
<1>4. /\ currentPath = {stack[i] : i \in 1..n}
      /\ \A i, j \in 1..n : stack[i] = stack[j] => i = j
      /\ \A i \in 1..(n - 1) : Follows(stack[i + 1], stack[i])
      /\ currentPath \cap visited = {}
  BY <1>2 DEF PathIsStack
<1>5. n > 0 => Follows(new, stack[n])
  OBVIOUS
<1> HIDE DEF n
<1>6. currentPath' = {stack'[i] : i \in DOMAIN stack'}
  BY <1>2, <1>3, <1>4, Places
<1>7. currentPath' \cap visited' = {}
  BY <1>4
<1>8. ASSUME NEW i \in DOMAIN stack', NEW j \in DOMAIN stack', stack'[i] = stack'[j] PROVE i = j
  <2>1. \A k \in 1..n : stack[k] # new
    BY <1>4
  <2>2. (i \in 1..n \/ i = n + 1) /\ (j \in 1..n \/ j = n + 1)
    BY <1>2, <1>3, Places
  <2> QED BY <1>3, <1>4, <1>8, <2>1, <2>2
<1>9. ASSUME NEW i \in 1..(Len(stack') - 1) PROVE callGraph'[stack'[i + 1]].caller = callGraph'[stack'[i]].callee
  <2>1. i \in 1..n
    BY <1>2, <1>3
  <2>2. CASE i = n
    BY <1>2, <1>3, <1>5, <2>1, <2>2 DEF Follows
  <2>3. CASE i # n
    <3>1. i \in 1..(n - 1) /\ i + 1 \in 1..n
      BY <1>2, <2>1, <2>3, Places
    <3>2. Follows(stack[i + 1], stack[i])
      BY <1>4, <3>1
    <3> QED BY <1>3, <2>1, <3>1, <3>2 DEF Follows
  <2> QED BY <2>2, <2>3
<1> QED BY <1>3, <1>6, <1>7, <1>8, <1>9 DEF PathIsStack, Follows

\* The last call may leave the path.
LEMMA PopKeepsPath ==
    ASSUME TypeOK, PathIsStack, phase = "cycles", phase' = "cycles", Len(stack) > 0,
           UNCHANGED callGraph, visited' = visited \cup {stack[Len(stack)]},
           currentPath' = currentPath \ {stack[Len(stack)]},
           stack' = SubSeq(stack, 1, Len(stack) - 1)
    PROVE  stack' \in Seq(Calls) /\ PathIsStack'
<1> DEFINE n == Len(stack)
<1>1. stack \in Seq(Calls)
  BY DEF TypeOK
<1>2. n \in Nat /\ n > 0 /\ DOMAIN stack = 1..n
  BY <1>1, LenProperties
<1>3. /\ stack' \in Seq(Calls) /\ Len(stack') = n - 1 /\ DOMAIN stack' = 1..(n - 1)
      /\ \A i \in 1..(n - 1) : stack'[i] = stack[i]
  <2>1. 1 \in 1..(n + 1) /\ n - 1 \in 0..n
    BY <1>2
  <2>2. stack' = SubSeq(stack, 1, n - 1)
    OBVIOUS
  <2>3. stack' \in Seq(Calls) /\ Len(stack') = n - 1
    BY <1>1, <1>2, <2>2, SubSeqProperties
  <2>4. \A i \in 1..(n - 1) : stack'[i] = stack[i]
    BY <1>1, <1>2, <2>2, SubSeqProperties
  <2> QED BY <2>3, <2>4, LenProperties
<1>4. /\ currentPath = {stack[i] : i \in 1..n}
      /\ \A i, j \in 1..n : stack[i] = stack[j] => i = j
      /\ \A i \in 1..(n - 1) : Follows(stack[i + 1], stack[i])
      /\ currentPath \cap visited = {}
  BY <1>2 DEF PathIsStack
<1>5. currentPath' = currentPath \ {stack[n]} /\ visited' = visited \cup {stack[n]}
  OBVIOUS
<1> HIDE DEF n
<1>6. currentPath' = {stack'[i] : i \in DOMAIN stack'}
  <2>1. n \in 1..n /\ \A i \in 1..n : (i \in 1..(n - 1) <=> i # n)
    BY <1>2, Places
  <2>2. \A i \in 1..(n - 1) : i \in 1..n
    BY <1>2, Places
  <2>3. ASSUME NEW c \in currentPath' PROVE \E i \in DOMAIN stack' : c = stack'[i]
    <3>1. PICK i \in 1..n : c = stack[i] /\ c # stack[n]
      BY <1>4, <1>5, <2>3
    <3>2. i \in 1..(n - 1)
      BY <2>1, <3>1
    <3> QED BY <1>3, <3>1, <3>2
  <2>4. ASSUME NEW i \in DOMAIN stack' PROVE stack'[i] \in currentPath'
    BY <1>3, <1>4, <1>5, <2>1, <2>2
  <2> QED BY <2>3, <2>4
<1>7. currentPath' \cap visited' = {}
  BY <1>4, <1>5
<1>8. ASSUME NEW i \in DOMAIN stack', NEW j \in DOMAIN stack', stack'[i] = stack'[j] PROVE i = j
  BY <1>2, <1>3, <1>4, <1>8, Places
<1>9. ASSUME NEW i \in 1..(Len(stack') - 1) PROVE callGraph'[stack'[i + 1]].caller = callGraph'[stack'[i]].callee
  <2>1. i \in 1..(n - 1) /\ i + 1 \in 1..(n - 1)
    BY <1>2, <1>3
  <2> QED BY <1>3, <1>4, <2>1 DEF Follows
<1> QED BY <1>3, <1>6, <1>7, <1>8, <1>9 DEF PathIsStack, Follows

-----------------------------------------------------------------------------
\* What the search finds

(* A call on the path that follows its last call closes a cycle.            *)
LEMMA BackEdgeIsRecursion ==
    ASSUME TypeOK, PathIsStack, Len(stack) > 0,
           NEW back \in currentPath, Follows(back, stack[Len(stack)])
    PROVE  Recursion
<1> DEFINE n == Len(stack)
<1>1. /\ n \in Nat /\ n > 0 /\ DOMAIN stack = 1..n
      /\ \A i \in 1..n : stack[i] \in Calls
      /\ \A c \in Calls : callGraph[c].caller \in Functions /\ callGraph[c].callee \in Functions
  BY CallsAre
<1>2. PICK b \in 1..n : stack[b] = back
  BY <1>1 DEF PathIsStack
<1> HIDE DEF n
<1> DEFINE S == {callGraph[stack[j]].caller : j \in b..n}
<1>3. \A j \in b..n : j \in 1..n
  BY <1>1, <1>2
<1>4. S \in SUBSET Functions
  BY <1>1, <1>3
<1>5. callGraph[stack[b]].caller \in S /\ S # {}
  BY <1>1, <1>2
<1>6. ASSUME NEW f \in S PROVE Calling(f, S)
  <2>1. PICK j \in b..n : f = callGraph[stack[j]].caller
    OBVIOUS
  <2>2. CASE j = n
    BY <1>1, <1>2, <1>3, <1>5, <2>1, <2>2 DEF Calling, Follows, n
  <2>3. CASE j # n
    <3>1. j \in 1..(n - 1) /\ j + 1 \in b..n
      BY <1>1, <1>2, <2>1, <2>3
    <3>2. callGraph[stack[j + 1]].caller = callGraph[stack[j]].callee
      BY <3>1 DEF PathIsStack, Follows, n
    <3> QED BY <1>1, <1>3, <2>1, <3>1, <3>2 DEF Calling
  <2> QED BY <2>2, <2>3
<1> HIDE DEF S
<1> QED BY <1>4, <1>5, <1>6 DEF Recursion

(* Without a cycle of calls no set of functions calls itself.               *)
LEMMA AcyclicIsNoRecursion ==
    ASSUME TypeOK, Acyclic(Calls)
    PROVE  ~Recursion
<1>1. SUFFICES ASSUME NEW S \in SUBSET Functions, S # {}, \A f \in S : Calling(f, S) PROVE FALSE
  BY DEF Recursion
<1> DEFINE T == {c \in Calls : callGraph[c].caller \in S /\ callGraph[c].callee \in S}
<1>2. \A f \in S : \E c \in T : callGraph[c].caller = f
  BY <1>1 DEF Calling
<1>3. T # {} /\ T \in SUBSET Calls
  BY <1>1, <1>2
<1>4. PICK c \in T : \A d \in T : ~Follows(d, c)
  <2> HIDE DEF T
  <2> QED BY <1>3 DEF Acyclic
<1>5. callGraph[c].callee \in S
  OBVIOUS
<1>6. PICK d \in T : callGraph[d].caller = callGraph[c].callee
  BY <1>2, <1>5
<1> QED BY <1>4, <1>6 DEF Follows

(* A call all of whose callees' calls were left for good may be left too.   *)
LEMMA LeavingKeeps ==
    ASSUME NEW V, NEW call \in Calls, call \notin V, Closed(V), Acyclic(V),
           \A d \in Calls : Follows(d, call) => d \in V
    PROVE  Closed(V \cup {call}) /\ Acyclic(V \cup {call})
<1>1. Closed(V \cup {call})
  BY DEF Closed
<1>2. ASSUME NEW T \in SUBSET (V \cup {call}), T # {} PROVE \E c \in T : \A d \in T : ~Follows(d, c)
  <2>1. CASE T \cap V = {}
    <3>1. T = {call}
      BY <1>2, <2>1
    <3>2. ~Follows(call, call)
      OBVIOUS
    <3> QED BY <3>1, <3>2
  <2>2. CASE T \cap V # {}
    <3>1. PICK c \in T \cap V : \A d \in T \cap V : ~Follows(d, c)
      BY <2>2 DEF Acyclic
    <3>2. ~Follows(call, c)
      BY <3>1 DEF Closed
    <3> QED BY <3>1, <3>2
  <2> QED BY <2>1, <2>2
<1> QED BY <1>1, <1>2 DEF Acyclic

-----------------------------------------------------------------------------
\* Every step of the checks keeps the invariant.

\* finalCheck clears the flags before the search.
LEMMA FinalCheckIInv ==
    ASSUME CallGraphAssumption, IInv, NEW keep \in BOOLEAN, finalCheck(keep)
    PROVE  IInv'
<1>1. /\ phase = "parse" /\ phase' = "cycles" /\ stack' = stack /\ recursive' = recursive
      /\ visited' = {} /\ currentPath' = {} /\ errorGiven' = {} /\ callGraph' = callGraph
      /\ unitCalls' = unitCalls /\ unitCalls = <<>>
  BY Zenon DEF finalCheck, unitVars
<1>2. stack = <<>> /\ currentPath = {} /\ "no body" \notin errors /\ ~recursive
  BY <1>1 DEF IInv, Idle
<1>3. ~recursive'
  BY <1>1, <1>2, Zenon
<1>4. TypeOK'
  <2>1. keepUncalled' \in BOOLEAN
    BY DEF finalCheck
  <2>2. errors' \subseteq Errors
    BY DEF finalCheck, IInv, TypeOK, Errors
  <2>3. UNCHANGED <<unitCalls, unitBodies, currentCaller, units, callGraph, entryPointMangledName,
                    initializers, bodies, stack>>
    BY DEF finalCheck, unitVars
  <2>4. recursive' \in BOOLEAN
    <3>1. recursive \in BOOLEAN
      BY DEF IInv, TypeOK
    <3> QED BY <1>1, <3>1, Zenon
  <2>5. Calls' = Calls
    BY <2>3, SameGraph
  <2> QED BY <1>1, <2>1, <2>2, <2>3, <2>4, <2>5 DEF IInv, TypeOK
<1>5. PathIsStack'
  <2>1. DOMAIN stack' = {} /\ 1..(Len(stack') - 1) = {}
    BY <1>1, <1>2, EmptySeqIs, Zenon
  <2> QED BY <1>1, <2>1 DEF PathIsStack
<1>6. Idle'
  <2>1. "no body" \notin errors'
    BY <1>2 DEF finalCheck
  <2> QED BY <1>1, <2>1 DEF Idle
<1>7. Search'
  <2>1. Closed({})' /\ Acyclic({})'
    BY DEF Closed, Acyclic
  <2> QED BY <1>1, <1>3, <2>1 DEF Search
<1> QED BY <1>4, <1>5, <1>6, <1>7 DEF IInv

\* A new root starts a path of its own.
LEMMA NewRootIInv == ASSUME CallGraphAssumption, IInv, newRoot PROVE IInv'
<1> DEFINE root == First(Calls \ visited)
<1>1. /\ phase = "cycles" /\ phase' = "cycles" /\ stack = <<>>
      /\ currentPath' = currentPath \cup {root} /\ stack' = <<root>>
  BY DEF newRoot
<1>2. root \in Calls /\ root \notin visited
  <2>1. Calls \ visited # {} /\ Calls \ visited \subseteq Nat
    BY CallsAre DEF newRoot, IInv
  <2> QED BY <2>1, LeastExists
<1>3. /\ UNCHANGED <<unitCalls, unitBodies, currentCaller, units, callGraph, entryPointMangledName,
                     initializers, keepUncalled, bodies, errors, visited, errorGiven>>
      /\ recursive' = recursive
  BY Zenon DEF newRoot, unitVars, stageVars
<1> HIDE DEF root
<1>4. stack \in Seq(Calls) /\ Len(stack) = 0 /\ currentPath = {}
  <2>1. stack \in Seq(Calls) /\ Len(stack) = 0 /\ DOMAIN stack = {}
    BY <1>1, EmptySeqIs
  <2> QED BY <2>1 DEF IInv, PathIsStack
<1>5. stack' = Append(stack, root)
  BY <1>1
<1>6. stack' \in Seq(Calls) /\ PathIsStack'
  BY <1>1, <1>2, <1>3, <1>4, <1>5, PushKeepsPath DEF IInv
<1>7. Calls' = Calls /\ (Recursion' <=> Recursion) /\ (Closed(visited)' <=> Closed(visited))
      /\ (Acyclic(visited)' <=> Acyclic(visited))
  BY <1>3 DEF Calls, Follows, Recursion, Calling, Closed, Acyclic
<1>8. TypeOK'
  <2>1. recursive' \in BOOLEAN
    <3>1. recursive \in BOOLEAN
      BY DEF IInv, TypeOK
    <3> QED BY <1>3, <3>1, Zenon
  <2> QED BY <1>1, <1>2, <1>3, <1>6, <1>7, <2>1 DEF IInv, TypeOK
<1>9. Idle'
  BY <1>1, <1>3 DEF IInv, Idle
<1>10. Search'
  <2>1. currentPath' \cap visited' = {}
    BY <1>1, <1>2, <1>3, <1>4
  <2>2. (recursive => Recursion) /\ (~recursive => Closed(visited) /\ Acyclic(visited))
    BY <1>1, Zenon DEF IInv, Search
  <2>3. (recursive' => Recursion') /\ (~recursive' => Closed(visited)' /\ Acyclic(visited)')
    BY <1>3, <1>7, <2>2, Zenon
  <2> QED BY <1>1, <2>1, <2>3 DEF Search
<1> QED BY <1>6, <1>8, <1>9, <1>10 DEF IInv

(* A turn of the loop, whichever way it ends                                *)
LEMMA FollowSees ==
    ASSUME IInv, follow
    PROVE  LET call == stack[Len(stack)] IN
           /\ TypeOK /\ PathIsStack /\ phase = "cycles" /\ phase' = "cycles" /\ callGraph' = callGraph
           /\ Len(stack) > 0 /\ call \in Calls /\ call \in currentPath /\ call \notin visited
           /\ BackEdges(call) # {} => Recursion
           /\ recursive' <=> recursive \/ BackEdges(call) # {}
<1> DEFINE call == stack[Len(stack)]
<1>1. TypeOK /\ PathIsStack /\ phase = "cycles" /\ phase' = "cycles" /\ callGraph' = callGraph /\ stack # <<>>
  BY DEF IInv, follow, stageVars
<1>2. Len(stack) > 0
  BY <1>1, EmptySeq, LenProperties DEF TypeOK
<1>3. call \in Calls /\ call \in currentPath /\ call \notin visited
  <2>1. Len(stack) \in 1..Len(stack)
    BY <1>1, <1>2, CallsAre
  <2> QED BY <1>1, <2>1, CallsAre DEF PathIsStack
<1>4. ASSUME BackEdges(call) # {} PROVE Recursion
  <2>1. PICK back \in currentPath : Follows(back, call)
    BY <1>4 DEF BackEdges, Scanned, Callees
  <2> QED BY <1>1, <1>2, <2>1, BackEdgeIsRecursion
<1>5. recursive' <=> recursive \/ BackEdges(call) # {}
  BY Zenon DEF follow
<1> QED BY <1>1, <1>2, <1>3, <1>4, <1>5, Zenon

(* The rest of the state while the search goes on                           *)
LEMMA FollowTypes ==
    ASSUME IInv, follow, visited' \subseteq Calls, currentPath' \subseteq Calls, stack' \in Seq(Calls)
    PROVE  TypeOK' /\ Idle'
<1>1. /\ phase = "cycles" /\ phase' = "cycles"
      /\ UNCHANGED <<unitCalls, unitBodies, currentCaller, units, callGraph, entryPointMangledName,
                     initializers, keepUncalled, bodies>>
  BY DEF follow, unitVars, stageVars
<1>2. Calls' = Calls
  BY <1>1 DEF Calls
<1>3. recursive' \in BOOLEAN
  BY Zenon DEF follow
<1>4. errorGiven' \subseteq Calls
  BY DEF follow, IInv, TypeOK, BackEdges, Scanned, Callees
<1>5. errors' \subseteq Errors /\ ("no body" \notin errors => "no body" \notin errors')
  BY DEF follow, IInv, TypeOK, Errors
<1>6. TypeOK'
  BY <1>1, <1>2, <1>3, <1>4, <1>5 DEF IInv, TypeOK
<1>7. Idle'
  BY <1>1, <1>5 DEF IInv, Idle
<1> QED BY <1>6, <1>7

\* A turn of the loop
LEMMA FollowIInv == ASSUME CallGraphAssumption, IInv, follow PROVE IInv'
<1> DEFINE call == stack[Len(stack)]
<1>1. /\ TypeOK /\ PathIsStack /\ phase = "cycles" /\ phase' = "cycles" /\ callGraph' = callGraph
      /\ Len(stack) > 0 /\ call \in Calls /\ call \in currentPath /\ call \notin visited
      /\ BackEdges(call) # {} => Recursion
      /\ recursive' <=> recursive \/ BackEdges(call) # {}
  BY FollowSees, Zenon
<1>2. Calls' = Calls /\ (Recursion' <=> Recursion)
  BY <1>1, SameGraph
<1>3. currentPath \subseteq Calls /\ visited \subseteq Calls
  BY <1>1 DEF TypeOK
<1>4. recursive' => Recursion'
  <2>1. recursive => Recursion
    BY Zenon DEF IInv, Search
  <2> QED BY <1>1, <1>2, <2>1, Zenon
<1>5. ~recursive => Closed(visited) /\ Acyclic(visited)
  BY <1>1, Zenon DEF IInv, Search
<1>6. CASE Pushable(call) # {}
  <2> DEFINE new == First(Pushable(call))
  <2>1. new \in Pushable(call)
    <3>1. Pushable(call) \subseteq Nat
      BY <1>1, CallsAre DEF Pushable, Callees
    <3> QED BY <1>6, <3>1, LeastExists
  <2>2. currentPath' = currentPath \cup {new} /\ stack' = Append(stack, new) /\ visited' = visited
    BY <1>6 DEF follow
  <2> HIDE DEF new
  <2>3. new \in Calls /\ new \notin currentPath /\ new \notin visited /\ Follows(new, call)
    BY <2>1 DEF Pushable, Callees
  <2>4. stack' \in Seq(Calls) /\ PathIsStack'
    BY <1>1, <2>2, <2>3, PushKeepsPath
  <2>5. TypeOK' /\ Idle'
    BY <1>3, <2>2, <2>3, <2>4, FollowTypes
  <2>6. currentPath' \cap visited' = {}
    BY <1>1, <2>4 DEF PathIsStack
  <2>7. ~recursive' => Closed(visited)' /\ Acyclic(visited)'
    BY <1>1, <1>5, <2>2 DEF Closed, Acyclic, Calls, Follows
  <2>8. Search'
    BY <1>1, <1>4, <2>6, <2>7 DEF Search
  <2> QED BY <2>4, <2>5, <2>8 DEF IInv
<1>7. CASE Pushable(call) = {}
  <2>1. currentPath' = currentPath \ {call} /\ visited' = visited \cup {call}
        /\ stack' = SubSeq(stack, 1, Len(stack) - 1)
    BY <1>7 DEF follow, OffPath
  <2>2. stack' \in Seq(Calls) /\ PathIsStack'
    BY <1>1, <2>1, PopKeepsPath
  <2>3. TypeOK' /\ Idle'
    BY <1>1, <1>3, <2>1, <2>2, FollowTypes
  <2>4. currentPath' \cap visited' = {}
    BY <1>1, <2>2 DEF PathIsStack
  <2>5. ASSUME ~recursive' PROVE Closed(visited') /\ Acyclic(visited')
    <3>1. BackEdges(call) = {} /\ Closed(visited) /\ Acyclic(visited)
      BY <1>1, <1>5, <2>5, Zenon
    <3>2. \A d \in Calls : Follows(d, call) => d \in visited
      BY <1>7, <3>1 DEF BackEdges, Scanned, Pushable, Callees
    <3> QED BY <1>1, <2>1, <3>1, <3>2, LeavingKeeps
  <2>6. ~recursive' => Closed(visited)' /\ Acyclic(visited)'
    BY <1>1, <2>5 DEF Closed, Acyclic, Calls, Follows
  <2>7. Search'
    BY <1>1, <1>4, <2>4, <2>6 DEF Search
  <2> QED BY <2>2, <2>3, <2>7 DEF IInv
<1> QED BY <1>6, <1>7

(* After the search its verdict stays: neither the bodies nor the calls     *)
(* marked while they are looked for matter to it.                           *)
LEMMA VerdictStays ==
    ASSUME IInv, phase' \in {"bodies", "done"}, callGraph' = callGraph, recursive' = recursive,
           ~recursive => ~Recursion,
           unitCalls' = unitCalls, phase # "parse", stack' = <<>>, currentPath' = {},
           "no body" \notin errors' \/ phase' = "done"
    PROVE  Idle' /\ PathIsStack' /\ Search'
<1>1. unitCalls' = <<>>
  BY DEF IInv, Idle
<1>2. Idle'
  BY <1>1 DEF Idle
<1>3. PathIsStack'
  <2>1. DOMAIN stack' = {} /\ 1..(Len(stack') - 1) = {}
    BY EmptySeqIs, Zenon
  <2> QED BY <2>1 DEF PathIsStack
<1>4. Search'
  <2>1. recursive => Recursion
    BY Zenon DEF IInv, Search
  <2>2. Recursion' <=> Recursion
    BY SameGraph
  <2>3. (recursive' => Recursion') /\ (~recursive' => ~Recursion')
    BY <2>1, <2>2, Zenon
  <2> QED BY <2>3 DEF Search
<1> QED BY <1>2, <1>3, <1>4

\* The end of the search, when every call is visited
LEMMA CyclesDoneIInv == ASSUME CallGraphAssumption, IInv, cyclesDone PROVE IInv'
<1>1. /\ phase = "cycles" /\ phase' = "bodies" /\ stack = <<>> /\ visited' = EntryCalls
      /\ UNCHANGED <<unitCalls, unitBodies, currentCaller, units, callGraph, entryPointMangledName,
                     initializers, keepUncalled, bodies, errors, currentPath, errorGiven, stack>>
      /\ recursive' = recursive
  BY Zenon DEF cyclesDone, unitVars, stageVars
<1>2. TypeOK /\ visited = Calls /\ "no body" \notin errors
  BY <1>1 DEF cyclesDone, IInv, TypeOK, Idle
<1>3. currentPath = {}
  <2>1. DOMAIN stack = {}
    BY <1>1, EmptySeqIs, Zenon
  <2> QED BY <2>1 DEF IInv, PathIsStack
<1>4. ~recursive => ~Recursion
  <2>1. ~recursive => Acyclic(visited)
    BY <1>1, Zenon DEF IInv, Search
  <2>2. Acyclic(visited) => ~Recursion
    BY <1>2, AcyclicIsNoRecursion
  <2> QED BY <2>1, <2>2, Zenon
<1>5. TypeOK'
  <2>1. recursive' \in BOOLEAN
    <3>1. recursive \in BOOLEAN
      BY <1>2 DEF TypeOK
    <3> QED BY <1>1, <3>1, Zenon
  <2>2. Calls' = Calls /\ visited' \subseteq Calls
    BY <1>1 DEF Calls, EntryCalls
  <2> QED BY <1>1, <1>2, <2>1, <2>2 DEF TypeOK
<1>6. Idle' /\ PathIsStack' /\ Search'
  BY <1>1, <1>2, <1>3, <1>4, VerdictStays, Zenon
<1> QED BY <1>5, <1>6 DEF IInv

\* Marking a call as reached
LEMMA PropagateIInv == ASSUME CallGraphAssumption, IInv, propagate PROVE IInv'
<1>1. /\ phase = "bodies" /\ phase' = "bodies"
      /\ UNCHANGED <<unitCalls, unitBodies, currentCaller, units, callGraph, entryPointMangledName,
                     initializers, keepUncalled, bodies, errors, currentPath, errorGiven, stack>>
      /\ recursive' = recursive
  BY Zenon DEF propagate, unitVars, stageVars
<1>2. TypeOK /\ "no body" \notin errors /\ stack = <<>> /\ currentPath = {}
  BY <1>1 DEF IInv, Idle
<1>3. ~recursive => ~Recursion
  BY <1>1, Zenon DEF IInv, Search
<1>4. TypeOK'
  <2>1. recursive' \in BOOLEAN
    <3>1. recursive \in BOOLEAN
      BY <1>2 DEF TypeOK
    <3> QED BY <1>1, <3>1, Zenon
  <2>2. Calls' = Calls
    BY <1>1 DEF Calls
  <2>3. visited' \subseteq Calls
    BY <1>2 DEF propagate, Reached, TypeOK
  <2> QED BY <1>1, <1>2, <2>1, <2>2, <2>3 DEF TypeOK
<1>5. Idle' /\ PathIsStack' /\ Search'
  BY <1>1, <1>2, <1>3, VerdictStays, Zenon
<1> QED BY <1>4, <1>5 DEF IInv

\* Deleting the uncalled bodies
LEMMA DeleteIInv == ASSUME CallGraphAssumption, IInv, deleteUncalled PROVE IInv'
<1>1. /\ phase = "bodies" /\ phase' = "done"
      /\ UNCHANGED <<unitCalls, unitBodies, currentCaller, units, callGraph, entryPointMangledName,
                     initializers, keepUncalled, visited, currentPath, errorGiven, stack>>
      /\ recursive' = recursive
  BY Zenon DEF deleteUncalled, unitVars, stageVars, flagVars
<1>2. TypeOK /\ stack = <<>> /\ currentPath = {}
  BY <1>1 DEF IInv, Idle
<1>3. ~recursive => ~Recursion
  BY <1>1, Zenon DEF IInv, Search
<1>4. TypeOK'
  <2>1. recursive' \in BOOLEAN
    <3>1. recursive \in BOOLEAN
      BY <1>2 DEF TypeOK
    <3> QED BY <1>1, <3>1, Zenon
  <2>2. Calls' = Calls
    BY <1>1 DEF Calls
  <2>3. bodies' \subseteq Functions /\ errors' \subseteq Errors
    BY <1>2 DEF deleteUncalled, TypeOK, Errors
  <2> QED BY <1>1, <1>2, <2>1, <2>2, <2>3 DEF TypeOK
<1>5. Idle' /\ PathIsStack' /\ Search'
  BY <1>1, <1>2, <1>3, VerdictStays, Zenon
<1> QED BY <1>4, <1>5 DEF IInv

-----------------------------------------------------------------------------

\* Every step keeps the invariant, and so does stuttering.
LEMMA Inductive ==
    ASSUME CallGraphAssumption, IInv, [Next]_vars
    PROVE  IInv'
<1>1. CASE Parse
  BY <1>1, ParseIInv
<1>2. ASSUME NEW keep \in BOOLEAN, finalCheck(keep) PROVE IInv'
  BY <1>2, FinalCheckIInv
<1>3. CASE Check
  BY <1>3, NewRootIInv, FollowIInv, CyclesDoneIInv, PropagateIInv, DeleteIInv, Zenon DEF Check
<1>4. CASE UNCHANGED vars
  <2>1. UNCHANGED <<unitCalls, unitBodies, currentCaller, units, callGraph, entryPointMangledName,
                    initializers, keepUncalled, bodies, errors, recursive, visited, currentPath,
                    errorGiven, stack, phase>>
    BY <1>4, Zenon DEF vars, unitVars, stageVars, flagVars
  <2>2. TypeOK' <=> TypeOK
    BY <2>1, Zenon DEF TypeOK, Calls
  <2>3. Idle' <=> Idle
    BY <2>1, Zenon DEF Idle
  <2>4. PathIsStack' <=> PathIsStack
    BY <2>1, ZenonT(60) DEF PathIsStack, Follows
  <2>5. Recursion' <=> Recursion
    BY <2>1, Zenon DEF Recursion, Calling, Calls
  <2>6. Closed(visited)' <=> Closed(visited)
    BY <2>1, Zenon DEF Closed, Calls, Follows
  <2>7. Acyclic(visited)' <=> Acyclic(visited)
    BY <2>1, ZenonT(60) DEF Acyclic, Follows
  <2>8. Search' <=> Search
    BY <2>1, <2>5, <2>6, <2>7, Zenon DEF Search
  <2> QED BY <2>2, <2>3, <2>4, <2>8, Zenon DEF IInv
<1> QED BY <1>1, <1>2, <1>3, <1>4, Zenon DEF Next

\* The invariant holds in every reachable state.
LEMMA Invariance == Spec => []IInv
<1>1. Init => IInv
  BY CallGraphAssumption, InitIInv
<1>2. IInv /\ [Next]_vars => IInv'
  BY CallGraphAssumption, Inductive
<1> QED BY <1>1, <1>2, PTL DEF Spec

(* Every reachable state is well typed: the flags are of calls of the stage.*)
THEOREM TypeCorrect == Spec => []TypeOK
<1>1. IInv => TypeOK
  BY DEF IInv
<1> QED BY <1>1, Invariance, PTL

(* "currentPath will be true iff it is on the stack" (linkValidate.cpp:830) *)
THEOREM PathIsStackHolds == Spec => []PathIsStack
<1>1. IInv => PathIsStack
  BY DEF IInv
<1> QED BY <1>1, Invariance, PTL

(* checkCallGraphCycles reports recursion exactly when there is any, for    *)
(* every call graph.                                                        *)
THEOREM RecursionIsFoundHolds == Spec => []RecursionIsFound
<1>1. IInv => RecursionIsFound
  BY Zenon DEF IInv, Search, RecursionIsFound
<1> QED BY <1>1, Invariance, PTL

-----------------------------------------------------------------------------
(* checkCallGraphBodies, for an entry point that keeps the name Main, which *)
(* the calls of global initializers are recorded under                      *)

InitializersRecorded ==
    \A g \in initializers :
        \/ \E c \in Calls : callGraph[c] = [caller |-> Main, callee |-> g]
        \/ \E i \in DOMAIN unitCalls : unitCalls[i] = [caller |-> Main, callee |-> g]

EntryHasBody ==
    phase # "done" => entryPointMangledName = NoFunction \/ entryPointMangledName \in bodies

Marked ==
    phase = "bodies" =>
        /\ EntryCalls \subseteq visited
        /\ \A S \in SUBSET Functions : entryPointMangledName \in S /\ ClosedUnderCalls(S) =>
               VisitedCallees \subseteq S

BInv ==
    /\ IInv
    /\ InitializersRecorded
    /\ EntryHasBody
    /\ Marked
    /\ DeadBodiesGo /\ MissingBodiesFound

(* Where the marks have been propagated, they tell the live functions.      *)
LEMMA MarkedIsLive ==
    ASSUME CallGraphAssumption, Entry = Main, BInv, phase = "bodies", Propagated,
           entryPointMangledName # NoFunction
    PROVE  Live = Reachable
<1>1. TypeOK /\ unitCalls = <<>> /\ DOMAIN unitCalls = {}
  <2>1. TypeOK /\ unitCalls = <<>>
    BY DEF BInv, IInv, Idle
  <2> QED BY <2>1, EmptySeqIs, Zenon
<1>2. entryPointMangledName = Main /\ Main \in Functions
  BY <1>1 DEF TypeOK, CallGraphAssumption
<1>3. /\ visited \subseteq Calls
      /\ \A c \in Calls : callGraph[c].caller \in Functions /\ callGraph[c].callee \in Functions
  BY <1>1, CallsAre DEF TypeOK
<1>4. EntryCalls \subseteq visited
  BY DEF BInv, Marked
<1>5. Reachable \in SUBSET Functions /\ entryPointMangledName \in Reachable
  BY <1>2, <1>3 DEF Reachable, VisitedCallees
<1>6. initializers \subseteq Reachable
  <2>1. ASSUME NEW g \in initializers PROVE g \in VisitedCallees
    <3>1. PICK c \in Calls : callGraph[c] = [caller |-> Main, callee |-> g]
      BY <1>1 DEF BInv, InitializersRecorded
    <3>2. c \in EntryCalls /\ callGraph[c].callee = g
      BY <1>2, <3>1 DEF EntryCalls
    <3> QED BY <1>4, <3>2 DEF VisitedCallees
  <2> QED BY <2>1 DEF Reachable
<1>7. ClosedUnderCalls(Reachable)
  <2>1. SUFFICES ASSUME NEW c \in Calls, callGraph[c].caller \in Reachable PROVE c \in visited
    BY DEF ClosedUnderCalls, Reachable, VisitedCallees
  <2>2. CASE callGraph[c].caller = entryPointMangledName
    BY <1>4, <2>2 DEF EntryCalls
  <2>3. CASE callGraph[c].caller \in VisitedCallees
    <3>1. PICK d \in visited : Follows(c, d)
      BY <2>3 DEF VisitedCallees, Follows
    <3> QED BY <3>1 DEF Propagated, Reached
  <2> QED BY <2>1, <2>2, <2>3 DEF Reachable
<1>8. Live \subseteq Reachable
  BY <1>5, <1>6, <1>7 DEF Live
<1>9. ASSUME NEW f \in Reachable, NEW S \in SUBSET Functions,
             entryPointMangledName \in S, ClosedUnderCalls(S)
      PROVE  f \in S
  BY <1>9 DEF BInv, Marked, Reachable
<1> QED BY <1>5, <1>8, <1>9 DEF Live

\* Nothing is recorded at the start.
LEMMA InitBInv == ASSUME CallGraphAssumption, Init PROVE BInv
<1>1. IInv
  BY InitIInv
<1>2. phase = "parse" /\ initializers = {} /\ entryPointMangledName = NoFunction
  BY DEF Init
<1> QED BY <1>1, <1>2 DEF BInv, InitializersRecorded, EntryHasBody, Marked, DeadBodiesGo, MissingBodiesFound

(* Parsing records what initializers call; linking keeps it.                *)
LEMMA ParseRecords ==
    ASSUME CallGraphAssumption, BInv, Parse
    PROVE  InitializersRecorded'
<1>1. TypeOK /\ unitCalls \in Seq(Call) /\ callGraph \in Seq(Call)
  BY DEF BInv, IInv, TypeOK
<1>2. /\ Len(unitCalls) \in Nat /\ DOMAIN unitCalls = 1..Len(unitCalls)
      /\ Len(callGraph) \in Nat /\ Calls = 1..Len(callGraph)
  BY <1>1, LenProperties, CallsAre
<1>3. ASSUME NEW call \in Call, addToCallGraph(call), callGraph' = callGraph
      PROVE  /\ \A i \in DOMAIN unitCalls : \E k \in DOMAIN unitCalls' : unitCalls'[k] = unitCalls[i]
             /\ \E k \in DOMAIN unitCalls' : unitCalls'[k] = call
  <2>1. CASE Recorded(call)
    <3>1. unitCalls' = unitCalls
      BY <1>3, <2>1 DEF addToCallGraph
    <3> QED BY <2>1, <3>1 DEF Recorded
  <2>2. CASE ~Recorded(call)
    <3>1. unitCalls' = <<call>> \o unitCalls /\ <<call>> \in Seq(Call)
      BY <1>3, <2>2 DEF addToCallGraph
    <3>2. /\ Len(unitCalls') = 1 + Len(unitCalls)
          /\ DOMAIN unitCalls' = 1..(1 + Len(unitCalls))
          /\ unitCalls'[1] = call
          /\ \A i \in 1..Len(unitCalls) : unitCalls'[i + 1] = unitCalls[i]
      BY <1>1, <1>2, <3>1
    <3>3. /\ 1 \in 1..(1 + Len(unitCalls))
          /\ \A i \in 1..Len(unitCalls) : i + 1 \in 1..(1 + Len(unitCalls))
      BY <1>2
    <3> QED BY <1>2, <3>2, <3>3
  <2> QED BY <2>1, <2>2
<1>4. ASSUME NEW f \in Functions, handleFunctionDefinition(f) PROVE InitializersRecorded'
  <2>1. UNCHANGED <<unitCalls, callGraph, initializers>>
    BY <1>4 DEF handleFunctionDefinition, stageVars
  <2> QED BY <2>1 DEF BInv, InitializersRecorded, Calls
<1>5. ASSUME NEW g \in Functions, CallInBody(g) PROVE InitializersRecorded'
  <2>1. [caller |-> currentCaller, callee |-> g] \in Call
    BY <1>1, <1>5 DEF CallInBody, TypeOK, Call
  <2>2. UNCHANGED <<callGraph, initializers>> /\ addToCallGraph([caller |-> currentCaller, callee |-> g])
    BY <1>5 DEF CallInBody, stageVars
  <2>3. \A i \in DOMAIN unitCalls : \E k \in DOMAIN unitCalls' : unitCalls'[k] = unitCalls[i]
    BY <1>3, <2>1, <2>2
  <2> QED BY <2>2, <2>3 DEF BInv, InitializersRecorded, Calls
<1>6. ASSUME NEW g \in Functions, CallInInitializer(g) PROVE InitializersRecorded'
  <2>1. [caller |-> Main, callee |-> g] \in Call
    BY DEF CallGraphAssumption, Call
  <2>2. /\ callGraph' = callGraph /\ initializers' = initializers \cup {g}
        /\ addToCallGraph([caller |-> Main, callee |-> g])
    BY <1>6 DEF CallInInitializer
  <2>3. /\ \A i \in DOMAIN unitCalls : \E k \in DOMAIN unitCalls' : unitCalls'[k] = unitCalls[i]
        /\ \E k \in DOMAIN unitCalls' : unitCalls'[k] = [caller |-> Main, callee |-> g]
    BY <1>3, <2>1, <2>2
  <2> QED BY <2>2, <2>3 DEF BInv, InitializersRecorded, Calls
<1>7. ASSUME merge PROVE InitializersRecorded'
  <2>1. callGraph' = callGraph \o unitCalls /\ initializers' = initializers
    BY <1>7 DEF merge, Concatenated
  <2>2. /\ DOMAIN callGraph' = 1..(Len(callGraph) + Len(unitCalls))
        /\ \A i \in 1..Len(callGraph) : callGraph'[i] = callGraph[i]
        /\ \A i \in 1..Len(unitCalls) : callGraph'[i + Len(callGraph)] = unitCalls[i]
    BY <1>1, <1>2, <2>1
  <2>3. /\ \A i \in 1..Len(callGraph) : i \in 1..(Len(callGraph) + Len(unitCalls))
        /\ \A i \in 1..Len(unitCalls) : i + Len(callGraph) \in 1..(Len(callGraph) + Len(unitCalls))
    BY <1>2
  <2>4. /\ \A c \in Calls : \E k \in DOMAIN callGraph' : callGraph'[k] = callGraph[c]
        /\ \A i \in DOMAIN unitCalls : \E k \in DOMAIN callGraph' : callGraph'[k] = unitCalls[i]
    BY <1>2, <2>2, <2>3
  <2>5. ASSUME NEW g \in initializers', NEW call, call = [caller |-> Main, callee |-> g]
        PROVE  \E k \in DOMAIN callGraph' : callGraph'[k] = call
    <3>1. (\E c \in Calls : callGraph[c] = call) \/ (\E i \in DOMAIN unitCalls : unitCalls[i] = call)
      BY <2>1, <2>5, Zenon DEF BInv, InitializersRecorded
    <3> QED BY <2>4, <3>1, Zenon
  <2> QED BY <2>5, Zenon DEF InitializersRecorded, Calls
<1> QED BY <1>4, <1>5, <1>6, <1>7 DEF Parse

\* Parsing and linking keep what the bodies' check relies on.
LEMMA ParseBInv == ASSUME CallGraphAssumption, BInv, Parse PROVE BInv'
<1>1. phase = "parse" /\ phase' = "parse"
  BY DEF Parse, handleFunctionDefinition, CallInBody, CallInInitializer, addToCallGraph, merge
<1>2. EntryHasBody'
  <2>1. \/ UNCHANGED <<bodies, entryPointMangledName>>
        \/ merge
    BY DEF Parse, handleFunctionDefinition, CallInBody, CallInInitializer, stageVars
  <2>2. CASE UNCHANGED <<bodies, entryPointMangledName>>
    BY <1>1, <2>2 DEF BInv, EntryHasBody
  <2>3. CASE merge
    <3>1. bodies' = bodies \cup unitBodies
          /\ entryPointMangledName' = IF Entry \in unitBodies THEN Entry ELSE entryPointMangledName
      BY <2>3 DEF merge, EntryOfUnit
    <3> QED BY <1>1, <3>1 DEF BInv, EntryHasBody
  <2> QED BY <2>1, <2>2, <2>3
<1>3. IInv' /\ InitializersRecorded'
  BY ParseIInv, ParseRecords DEF BInv
<1>4. DeadBodiesGo' /\ MissingBodiesFound'
  BY <1>1 DEF DeadBodiesGo, MissingBodiesFound
<1> QED BY <1>1, <1>2, <1>3, <1>4 DEF BInv, Marked

\* So does the search for cycles.
LEMMA BeforeBodiesBInv ==
    ASSUME CallGraphAssumption, BInv, newRoot \/ follow \/ \E keep \in BOOLEAN : finalCheck(keep)
    PROVE  BInv'
<1>1. /\ UNCHANGED <<unitCalls, callGraph, initializers, bodies, entryPointMangledName>>
      /\ phase # "done" /\ phase' = "cycles"
  BY DEF newRoot, follow, finalCheck, unitVars, stageVars
<1>2. IInv'
  BY FinalCheckIInv, NewRootIInv, FollowIInv, Zenon DEF BInv
<1>3. InitializersRecorded' /\ EntryHasBody'
  BY <1>1 DEF BInv, InitializersRecorded, EntryHasBody, Calls
<1>4. DeadBodiesGo' /\ MissingBodiesFound' /\ Marked'
  BY <1>1 DEF DeadBodiesGo, MissingBodiesFound, Marked
<1> QED BY <1>2, <1>3, <1>4 DEF BInv

(* The calls of the entry point are marked first, then what they reach.     *)
LEMMA CyclesDoneBInv == ASSUME CallGraphAssumption, BInv, cyclesDone PROVE BInv'
<1>1. /\ UNCHANGED <<unitCalls, callGraph, initializers, bodies, entryPointMangledName>>
      /\ phase = "cycles" /\ phase' = "bodies" /\ visited' = EntryCalls
  BY DEF cyclesDone, unitVars, stageVars
<1>2. IInv'
  BY CyclesDoneIInv DEF BInv
<1>3. InitializersRecorded' /\ EntryHasBody'
  BY <1>1 DEF BInv, InitializersRecorded, EntryHasBody, Calls
<1>4. DeadBodiesGo' /\ MissingBodiesFound'
  BY <1>1 DEF DeadBodiesGo, MissingBodiesFound
<1>5. Marked'
  BY <1>1 DEF Marked, EntryCalls, ClosedUnderCalls, VisitedCallees, Calls
<1> QED BY <1>2, <1>3, <1>4, <1>5 DEF BInv

\* Only calls that the shader can reach are marked.
LEMMA PropagateBInv == ASSUME CallGraphAssumption, BInv, propagate PROVE BInv'
<1>1. /\ UNCHANGED <<unitCalls, callGraph, initializers, bodies, entryPointMangledName>>
      /\ phase = "bodies" /\ phase' = "bodies"
  BY DEF propagate, unitVars, stageVars
<1>2. PICK c \in Reached : visited' = visited \cup {c}
  BY DEF propagate
<1>3. IInv'
  BY PropagateIInv DEF BInv
<1>4. InitializersRecorded' /\ EntryHasBody'
  BY <1>1 DEF BInv, InitializersRecorded, EntryHasBody, Calls
<1>5. DeadBodiesGo' /\ MissingBodiesFound'
  BY <1>1 DEF DeadBodiesGo, MissingBodiesFound
<1>6. Marked'
  <2>1. EntryCalls' \subseteq visited'
    BY <1>1, <1>2 DEF BInv, Marked, EntryCalls, Calls
  <2>2. ASSUME NEW S \in SUBSET Functions, entryPointMangledName \in S, ClosedUnderCalls(S)
        PROVE  callGraph[c].callee \in S
    <3>1. PICK d \in visited : callGraph[c].caller = callGraph[d].callee
      BY <1>2 DEF Reached, Follows
    <3>2. callGraph[d].callee \in S
      BY <1>1, <2>2 DEF BInv, Marked, VisitedCallees
    <3> QED BY <1>2, <2>2, <3>1, <3>2 DEF ClosedUnderCalls, Reached
  <2>3. VisitedCallees' = VisitedCallees \cup {callGraph[c].callee}
    BY <1>1, <1>2 DEF VisitedCallees
  <2>4. ASSUME NEW S \in SUBSET Functions, entryPointMangledName' \in S, ClosedUnderCalls(S)'
        PROVE  VisitedCallees' \subseteq S
    <3>1. entryPointMangledName \in S /\ ClosedUnderCalls(S)
      BY <1>1, <2>4 DEF ClosedUnderCalls, Calls
    <3> QED BY <1>1, <2>2, <2>3, <3>1 DEF BInv, Marked
  <2> QED BY <2>1, <2>4 DEF Marked
<1> QED BY <1>3, <1>4, <1>5, <1>6 DEF BInv

\* The deletion: the marks tell what is live.
LEMMA DeleteBInv == ASSUME CallGraphAssumption, Entry = Main, BInv, deleteUncalled PROVE BInv'
<1>1. /\ UNCHANGED <<unitCalls, callGraph, initializers, entryPointMangledName, keepUncalled>>
      /\ phase = "bodies" /\ phase' = "done" /\ Propagated
      /\ errors' = IF VisitedCallees \subseteq bodies THEN errors ELSE errors \cup {"no body"}
      /\ bodies' = IF keepUncalled THEN bodies ELSE bodies \cap Reachable
  BY DEF deleteUncalled, unitVars, stageVars
<1>2. IInv'
  BY DeleteIInv DEF BInv
<1>3. InitializersRecorded' /\ EntryHasBody' /\ Marked'
  BY <1>1 DEF BInv, InitializersRecorded, EntryHasBody, Marked, Calls
<1>4. Live' = Live
  BY <1>1 DEF Live, ClosedUnderCalls, Calls
<1>5. ASSUME entryPointMangledName # NoFunction
      PROVE  Live = Reachable /\ entryPointMangledName \in bodies /\ "no body" \notin errors
  BY <1>1, <1>5, MarkedIsLive DEF BInv, EntryHasBody, IInv, Idle
<1>6. DeadBodiesGo'
  BY <1>1, <1>4, <1>5 DEF DeadBodiesGo
<1>7. MissingBodiesFound'
  <2>1. SUFFICES ASSUME entryPointMangledName # NoFunction
                 PROVE  "no body" \in errors' <=> ~(Live \subseteq bodies')
    BY <1>1, <1>4 DEF MissingBodiesFound
  <2>2. "no body" \in errors' <=> ~(VisitedCallees \subseteq bodies)
    BY <1>1, <1>5, <2>1
  <2>3. VisitedCallees \subseteq bodies <=> Live \subseteq bodies
    BY <1>5, <2>1 DEF Reachable
  <2>4. Live \subseteq bodies <=> Live \subseteq bodies'
    BY <1>1, <1>5, <2>1
  <2> QED BY <2>2, <2>3, <2>4
<1> QED BY <1>2, <1>3, <1>6, <1>7 DEF BInv

\* Every step keeps the second invariant.
LEMMA BInductive ==
    ASSUME CallGraphAssumption, Entry = Main, BInv, [Next]_vars
    PROVE  BInv'
<1>1. CASE UNCHANGED vars
  <2>1. UNCHANGED <<unitCalls, callGraph, initializers, keepUncalled, bodies, errors, visited,
                    entryPointMangledName, phase>>
    BY <1>1, Zenon DEF vars, unitVars, stageVars, flagVars
  <2>2. IInv'
    BY <1>1, Inductive DEF BInv
  <2>3. InitializersRecorded' /\ EntryHasBody'
    BY <2>1 DEF BInv, InitializersRecorded, EntryHasBody, Calls
  <2>4. Marked'
    BY <2>1, Zenon DEF BInv, Marked, EntryCalls, VisitedCallees, ClosedUnderCalls, Calls
  <2>5. Live' = Live
    BY <2>1 DEF Live, ClosedUnderCalls, Calls
  <2>6. DeadBodiesGo' /\ MissingBodiesFound'
    BY <2>1, <2>5 DEF BInv, DeadBodiesGo, MissingBodiesFound
  <2> QED BY <2>2, <2>3, <2>4, <2>6 DEF BInv
<1>2. CASE Next
  <2>1. \/ Parse \/ cyclesDone \/ propagate \/ deleteUncalled
        \/ newRoot \/ follow \/ \E keep \in BOOLEAN : finalCheck(keep)
    BY <1>2, Zenon DEF Next, Check
  <2> QED BY <2>1, ParseBInv, BeforeBodiesBInv, CyclesDoneBInv, PropagateBInv, DeleteBInv, Zenon
<1> QED BY <1>1, <1>2

\* The second invariant holds in every reachable state.
LEMMA BInvariance == ASSUME Entry = Main PROVE Spec => []BInv
<1>1. Init => BInv
  BY CallGraphAssumption, InitBInv
<1>2. BInv /\ [Next]_vars => BInv'
  BY CallGraphAssumption, BInductive
<1> QED BY <1>1, <1>2, PTL DEF Spec

(* What checkCallGraphBodies leaves is called from the entry point or a     *)
(* global initializer.                                                      *)
THEOREM DeadBodiesGoHolds == ASSUME Entry = Main PROVE Spec => []DeadBodiesGo
<1>1. BInv => DeadBodiesGo
  BY DEF BInv
<1> QED BY <1>1, BInvariance, PTL

(* checkCallGraphBodies reports a missing body exactly when the shader runs *)
(* a function that has none.                                                *)
THEOREM MissingBodiesFoundHolds == ASSUME Entry = Main PROVE Spec => []MissingBodiesFound
<1>1. BInv => MissingBodiesFound
  BY DEF BInv
<1> QED BY <1>1, BInvariance, PTL

(* No step, checkCallGraphBodies' deletion included, drops the body of a    *)
(* function that the shader runs.                                           *)
THEOREM LiveBodiesStayHolds == ASSUME Entry = Main PROVE Spec => LiveBodiesStay
<1>1. ASSUME BInv, [Next]_vars PROVE [entryPointMangledName # NoFunction => bodies \cap Live \subseteq bodies']_vars
  <2>1. CASE deleteUncalled
    <3>1. phase = "bodies" /\ Propagated /\ (bodies' = bodies \/ bodies' = bodies \cap Reachable)
      BY <2>1 DEF deleteUncalled
    <3> QED BY <1>1, <3>1, MarkedIsLive, CallGraphAssumption
  <2>2. CASE ~deleteUncalled
    <3>1. bodies \subseteq bodies'
      BY <1>1, <2>2 DEF Next, Parse, Check, handleFunctionDefinition, CallInBody, CallInInitializer, merge,
            finalCheck, newRoot, follow, cyclesDone, propagate, vars
    <3> QED BY <3>1
  <2> QED BY <2>1, <2>2
<1> QED BY <1>1, BInvariance, PTL DEF Spec, LiveBodiesStay

=============================================================================
