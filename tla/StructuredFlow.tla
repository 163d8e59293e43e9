--------------------------- MODULE StructuredFlow ---------------------------
(***************************************************************************)
(* How a function body becomes SPIR-V blocks.  TGlslangToSpvTraverser      *)
(* walks selections, switches, loops and jumps and calls spv::Builder,     *)
(* which appends instructions to the block at its build point; when the    *)
(* function is left, inReadableOrder decides which blocks are written and  *)
(* in which order.  Blocks are numbered as they are made; of their code    *)
(* the merges, branches, ends and the phis of && and || are kept.          *)
(***************************************************************************)
EXTENDS Integers, Sequences, FiniteSets, SequencesExt

CONSTANTS
    MaxBlocks,    \* bound: blocks of the function
    MaxSegments   \* bound: code segments and case values of a switch

ASSUME StructuredFlowAssumption == MaxBlocks \in Nat \ {0} /\ MaxSegments \in Nat

VARIABLES
    code,          \* per block: its control instructions
    blocks,        \* the function's blocks, as addBlock puts them
    buildPoint,
    loops,         \* Builder's stack of LoopBlocks
    switchMerges,  \* Builder's stack of merge blocks
    breakForLoop,  \* the traverser's: whether break leaves a loop
    nest,          \* the traverser's recursion: the constructs it is inside of
    phase,         \* "build", "order" or "done"
    emitted,       \* the blocks ReadableOrderTraverser has called back, in order
    delayed,       \* its delayed_
    frames         \* its recursion

builderVars == <<code, blocks, buildPoint>>
stackVars   == <<loops, switchMerges, breakForLoop>>
orderVars   == <<emitted, delayed, frames>>
vars == <<builderVars, stackVars, nest, phase, orderVars>>

Instr(op, targets) == [op |-> op, targets |-> targets]
Branches == {"Branch", "BranchConditional", "Switch"}
Merges   == {"SelectionMerge", "LoopMerge"}
Ends     == Branches \cup {"Return"}    \* OpReturn, OpReturnValue and OpKill alike

isTerminated(b) == code[b] # <<>> /\ Last(code[b]).op \in Ends

Init ==
    /\ code = << <<>> >> /\ blocks = <<1>> /\ buildPoint = 1
    /\ loops = <<>> /\ switchMerges = <<>> /\ breakForLoop = <<>> /\ nest = <<>>
    /\ phase = "build"
    /\ emitted = <<>> /\ delayed = {} /\ frames = <<>>

-----------------------------------------------------------------------------
\* The builder's steps

MayMake(n) == phase = "build" /\ Len(code) + n <= MaxBlocks

\* the number of the i-th block made by an action
New(i) == Len(code) + i

\* n blocks more, without code
Made(n) == code \o [i \in 1 .. n |-> <<>>]

\* instrs at the end of block b
Put(c, b, instrs) == [c EXCEPT ![b] = @ \o instrs]

\* a branch away, and a block without predecessor for the code that follows it
jump(instr) ==
    /\ MayMake(1)
    /\ code' = Put(Made(1), buildPoint, <<instr>>)
    /\ blocks' = Append(blocks, New(1)) /\ buildPoint' = New(1)

top == Last(nest)
Inside(kinds, places) == phase = "build" /\ nest # <<>> /\ top.kind \in kinds /\ top.place \in places

\* a statement may come here; an expression also in && and in a loop's test and terminal
Expression == nest # <<>> => top.place \notin {"head", "empty"}
Statement ==
    /\ Expression
    /\ \A i \in DOMAIN nest : nest[i].kind # "and" /\ nest[i].place \notin {"test", "terminal"}

SetTop(frame) == nest' = Append(Front(nest), frame)

-----------------------------------------------------------------------------
\* visitSelection and createShortCircuit

If(kind) ==
    /\ MayMake(2) /\ Expression
    /\ code' = Made(2)
    /\ blocks' = Append(blocks, New(1)) /\ buildPoint' = New(1)
    /\ nest' = Append(nest, [kind |-> kind, place |-> "then", header |-> buildPoint,
                             then |-> New(1), else |-> 0, merge |-> New(2)])
    /\ UNCHANGED <<stackVars, phase, orderVars>>

makeBeginElse ==
    /\ MayMake(1) /\ Inside({"if"}, {"then"})
    /\ code' = Put(Made(1), buildPoint, <<Instr("Branch", <<top.merge>>)>>)
    /\ blocks' = Append(blocks, New(1)) /\ buildPoint' = New(1)
    /\ SetTop([top EXCEPT !.place = "else", !.else = New(1)])
    /\ UNCHANGED <<stackVars, phase, orderVars>>

FirstPhiParents == <<top.header, top.then>>
\* the blocks from which the two operands of && and || reach their phi
PhiParents == <<top.header, buildPoint>>

FlowSplit ==
    <<Instr("SelectionMerge", <<top.merge>>),
      Instr("BranchConditional", <<top.then, IF top.else # 0 THEN top.else ELSE top.merge>>)>>

makeEndIf ==
    /\ Inside({"if", "and"}, {"then", "else"})
    /\ LET branched == Put(code, buildPoint, <<Instr("Branch", <<top.merge>>)>>)
           phi == IF top.kind = "and" THEN <<Instr("Phi", PhiParents)>> ELSE <<>>
       IN  code' = Put(Put(branched, top.header, FlowSplit), top.merge, phi)
    /\ blocks' = Append(blocks, top.merge) /\ buildPoint' = top.merge
    /\ nest' = Front(nest)
    /\ UNCHANGED <<stackVars, phase, orderVars>>

-----------------------------------------------------------------------------
\* visitSwitch: cases gives the segment of each case value, default its segment or 0

Segmentations ==
    {s \in [count : 0 .. MaxSegments, cases : SeqOf(1 .. MaxSegments, MaxSegments), default : 0 .. MaxSegments] :
        /\ {s.cases[i] : i \in DOMAIN s.cases} \cup ({s.default} \ {0}) = 1 .. s.count
        /\ \A i, j \in DOMAIN s.cases : i <= j => s.cases[i] <= s.cases[j]}

makeSwitch(s, lastEmpty) ==
    LET segment(i) == New(i)
        merge == New(s.count + 1)
        default == IF s.default # 0 THEN segment(s.default) ELSE merge
    IN
    /\ MayMake(s.count + 1) /\ Statement /\ (lastEmpty => s.count > 0)
    /\ code' = Put(Made(s.count + 1), buildPoint,
                   <<Instr("SelectionMerge", <<merge>>),
                     Instr("Switch", <<default>> \o [i \in DOMAIN s.cases |-> segment(s.cases[i])])>>)
    /\ switchMerges' = Append(switchMerges, merge)
    /\ breakForLoop' = Append(breakForLoop, FALSE)
    /\ nest' = Append(nest, [kind |-> "switch", place |-> "head", header |-> buildPoint, first |-> New(1),
                             count |-> s.count, next |-> 1, lastEmpty |-> lastEmpty, merge |-> merge])
    /\ UNCHANGED <<blocks, buildPoint, loops, phase, orderVars>>

\* nextSwitchSegment; a last segment without code is just a break
nextSwitchSegment ==
    LET segment == top.first + top.next - 1
        closed == IF top.next > 1 /\ ~isTerminated(buildPoint)
                  THEN Put(code, buildPoint, <<Instr("Branch", <<segment>>)>>) ELSE code
        isEmpty == top.lastEmpty /\ top.next = top.count
    IN
    /\ Inside({"switch"}, {"head", "segment"}) /\ top.next <= top.count
    /\ IF isEmpty
       THEN /\ MayMake(1)
            /\ code' = Put(closed, segment, <<Instr("Branch", <<Last(switchMerges)>>)>>) \o << <<>> >>
            /\ blocks' = blocks \o <<segment, New(1)>> /\ buildPoint' = New(1)
       ELSE code' = closed /\ blocks' = Append(blocks, segment) /\ buildPoint' = segment
    /\ SetTop([top EXCEPT !.next = @ + 1, !.place = IF isEmpty THEN "empty" ELSE "segment"])
    /\ UNCHANGED <<stackVars, phase, orderVars>>

endSwitch ==
    /\ Inside({"switch"}, {"head", "segment", "empty"}) /\ top.next > top.count
    /\ IF isTerminated(buildPoint)
       THEN code' = code /\ blocks' = Append(blocks, Last(switchMerges))
       ELSE /\ MayMake(1)
            /\ code' = Put(Made(1), buildPoint, <<Instr("Branch", <<Last(switchMerges)>>)>>)
            /\ blocks' = blocks \o <<New(1), Last(switchMerges)>>
    /\ buildPoint' = Last(switchMerges)
    /\ switchMerges' = Front(switchMerges)
    /\ breakForLoop' = Front(breakForLoop)
    /\ nest' = Front(nest)
    /\ UNCHANGED <<loops, phase, orderVars>>

-----------------------------------------------------------------------------
\* visitLoop

Loop(place) ==
    [kind |-> "loop", place |-> place, head |-> New(1), body |-> New(2), merge |-> New(3),
     continue_target |-> New(4), testFirst |-> place = "test"]

loopHeader(n, next) ==
    /\ MayMake(n) /\ Statement
    /\ code' = Put(Put(Made(n), buildPoint, <<Instr("Branch", <<New(1)>>)>>), New(1),
                   <<Instr("LoopMerge", <<New(3), New(4)>>), Instr("Branch", <<next>>)>>)
    /\ blocks' = blocks \o [i \in 1 .. n |-> New(i)]
    /\ buildPoint' = next
    /\ loops' = Append(loops, [merge |-> New(3), continue_target |-> New(4)])
    /\ UNCHANGED <<switchMerges, phase, orderVars>>

beginTestedLoop ==
    /\ loopHeader(5, New(5))
    /\ nest' = Append(nest, Loop("test"))
    /\ UNCHANGED breakForLoop

beginLoop ==
    /\ loopHeader(4, New(2))
    /\ nest' = Append(nest, Loop("body"))
    /\ breakForLoop' = Append(breakForLoop, TRUE)

endTest ==
    /\ Inside({"loop"}, {"test"})
    /\ code' = Put(code, buildPoint, <<Instr("BranchConditional", <<top.body, top.merge>>)>>)
    /\ buildPoint' = top.body
    /\ breakForLoop' = Append(breakForLoop, TRUE)
    /\ SetTop([top EXCEPT !.place = "body"])
    /\ UNCHANGED <<blocks, loops, switchMerges, phase, orderVars>>

AfterBody == Front(breakForLoop)

endBody ==
    /\ Inside({"loop"}, {"body"})
    /\ code' = Put(code, buildPoint, <<Instr("Branch", <<top.continue_target>>)>>)
    /\ buildPoint' = top.continue_target
    /\ breakForLoop' = AfterBody
    /\ SetTop([top EXCEPT !.place = "terminal"])
    /\ UNCHANGED <<blocks, loops, switchMerges, phase, orderVars>>

\* a loop that is not tested first may be tested at its end, or never
closeLoop(testLast) ==
    /\ Inside({"loop"}, {"terminal"}) /\ (testLast => ~top.testFirst)
    /\ code' = Put(code, buildPoint,
                   <<IF testLast THEN Instr("BranchConditional", <<top.head, top.merge>>)
                                 ELSE Instr("Branch", <<top.head>>)>>)
    /\ buildPoint' = top.merge
    /\ loops' = Front(loops)
    /\ nest' = Front(nest)
    /\ UNCHANGED <<blocks, switchMerges, breakForLoop, phase, orderVars>>

-----------------------------------------------------------------------------
\* visitBranch and leaveFunction

BreakTargetOfLoop == IF loops # <<>> THEN Last(loops).merge ELSE Last(switchMerges)
BreakTarget == IF Last(breakForLoop) THEN Last(loops).merge ELSE Last(switchMerges)

Break ==
    /\ Statement /\ breakForLoop # <<>>
    /\ jump(Instr("Branch", <<BreakTarget>>))
    /\ UNCHANGED <<stackVars, nest, phase, orderVars>>

Continue ==
    /\ Statement /\ loops # <<>>
    /\ jump(Instr("Branch", <<Last(loops).continue_target>>))
    /\ UNCHANGED <<stackVars, nest, phase, orderVars>>

ReturnOrDiscard ==
    /\ Statement
    /\ jump(Instr("Return", <<>>))
    /\ UNCHANGED <<stackVars, nest, phase, orderVars>>

leaveFunction ==
    /\ phase = "build" /\ nest = <<>>
    /\ code' = IF isTerminated(buildPoint) THEN code
               ELSE Put(code, buildPoint, <<Instr("Return", <<>>)>>)
    /\ phase' = "order"
    /\ UNCHANGED <<blocks, buildPoint, stackVars, nest, orderVars>>

-----------------------------------------------------------------------------
\* ReadableOrderTraverser::visit

Successors(b) ==
    FlattenSeq([i \in DOMAIN code[b] |-> IF code[b][i].op \in Branches THEN code[b][i].targets ELSE <<>>])

\* the merge instruction, the next to the last of the block, if any
getMergeInstruction(b) ==
    IF Len(code[b]) >= 2 /\ code[b][Len(code[b]) - 1].op \in Merges
    THEN code[b][Len(code[b]) - 1].targets ELSE <<>>

visited == {emitted[i] : i \in DOMAIN emitted}

ShutOnlyVisited(b, late) == b \in visited
Shut(b, late) == b \in visited \cup late

\* a call visit(b) from the frames below, while late is delayed_
visit(b, late, below) ==
    IF Shut(b, late)
    THEN delayed' = late /\ frames' = below /\ UNCHANGED emitted
    ELSE LET merge == getMergeInstruction(b) IN
         /\ emitted' = Append(emitted, b)
         /\ delayed' = late \cup {merge[i] : i \in DOMAIN merge}
         /\ frames' = Append(below, [block |-> b, todo |-> Successors(b), merge |-> merge])

Visiting == phase = "order" /\ frames # <<>>
frame == Last(frames)
Below(f) == Append(Front(frames), f)

visitEntry ==
    /\ phase = "order" /\ frames = <<>> /\ emitted = <<>>
    /\ visit(Head(blocks), {}, <<>>)
    /\ UNCHANGED <<builderVars, stackVars, nest, phase>>

visitSuccessor ==
    /\ Visiting /\ frame.todo # <<>>
    /\ visit(Head(frame.todo), delayed, Below([frame EXCEPT !.todo = Tail(@)]))
    /\ UNCHANGED <<builderVars, stackVars, nest, phase>>

NextMergeFirst(merge) == 1
\* after all successors the continue target, then the merge block
NextDelayed(merge) == Len(merge)

StillDelayed(b) == delayed
Undelayed(b) == delayed \ {b}

visitDelayed ==
    /\ Visiting /\ frame.todo = <<>> /\ frame.merge # <<>>
    /\ LET i == NextDelayed(frame.merge)
           b == frame.merge[i]
       IN  visit(b, Undelayed(b), Below([frame EXCEPT !.merge = RemoveAt(@, i)]))
    /\ UNCHANGED <<builderVars, stackVars, nest, phase>>

leaveVisit ==
    /\ Visiting /\ frame.todo = <<>> /\ frame.merge = <<>>
    /\ frames' = Front(frames)
    /\ phase' = IF Len(frames) = 1 THEN "done" ELSE phase
    /\ UNCHANGED <<builderVars, stackVars, nest, emitted, delayed>>

Next ==
    \/ \E kind \in {"if", "and"} : If(kind)
    \/ makeBeginElse \/ makeEndIf
    \/ \E s \in Segmentations, lastEmpty \in BOOLEAN : makeSwitch(s, lastEmpty)
    \/ nextSwitchSegment \/ endSwitch
    \/ beginTestedLoop \/ beginLoop \/ endTest \/ endBody
    \/ \E testLast \in BOOLEAN : closeLoop(testLast)
    \/ Break \/ Continue \/ ReturnOrDiscard \/ leaveFunction
    \/ visitEntry \/ visitSuccessor \/ visitDelayed \/ leaveVisit

Spec == Init /\ [][Next]_vars

-----------------------------------------------------------------------------
\* Properties

\* the constructs a break or a continue can leave, as the traverser is inside them
Enclosing(kinds) == {i \in DOMAIN nest : nest[i].kind \in kinds /\ nest[i].place \notin {"test", "terminal"}}
Innermost(kinds) == nest[Max(Enclosing(kinds))]

(* The three stacks that the traverser and the builder keep apart name the *)
(* construct that encloses the statement: a break goes to the merge block  *)
(* of the innermost loop or switch, a continue to the innermost loop's     *)
(* target, through every nesting of the two and of dead code               *)
(* (GlslangToSpv.cpp:2804, SpvBuilder.cpp:2435, 2492).                     *)
JumpsLeaveInnermost ==
    phase = "build" =>
        /\ Len(breakForLoop) = Cardinality(Enclosing({"loop", "switch"}))
        /\ Statement /\ breakForLoop # <<>> => BreakTarget = Innermost({"loop", "switch"}).merge
        /\ Statement /\ loops # <<>> => /\ Enclosing({"loop"}) # {}
                                       /\ Last(loops).continue_target = Innermost({"loop"}).continue_target

\* blocks reachable from the entry without passing through those of the set out
Reachable(out) ==
    LET reached[n \in 0 .. Len(code)] ==
            IF n = 0 THEN {1} \ out
            ELSE LET S == reached[n - 1] IN S \cup ((UNION {ToSet(Successors(b)) : b \in S}) \ out)
    IN  reached[Len(code)]

Place(b) == CHOOSE i \in DOMAIN emitted : emitted[i] = b

(* What is written is a complete function: each block once and one that    *)
(* the function owns once, ended by its only branch or end, all reachable  *)
(* blocks among them, and every block that a branch or merge names         *)
(* (spvIR.h:228, InReadableOrder.cpp:66).                                  *)
FunctionIsComplete ==
    phase = "done" =>
        /\ IsInjective(emitted) /\ IsInjective(blocks) /\ visited \subseteq ToSet(blocks)
        /\ Reachable({}) \subseteq visited
        /\ \A b \in visited : \A i \in DOMAIN code[b] :
             /\ code[b][i].op \in Ends <=> i = Len(code[b])
             /\ ToSet(code[b][i].targets) \subseteq visited
        /\ \A b \in visited : isTerminated(b)

\* per reachable block, the blocks it dominates
Dominated ==
    LET live == Reachable({}) IN [d \in live |-> live \ Reachable({d})]

(* A block is written after every block that dominates it, although merge  *)
(* and continue blocks wait for their turn (InReadableOrder.cpp:64).       *)
DominatorsFirst ==
    phase = "done" =>
        LET dominated == Dominated IN
        \A d \in DOMAIN dominated : \A b \in dominated[d] \ {d} : Place(d) < Place(b)

(* "Delays merge-block and continue-block processing until all the         *)
(* branches have been completed" (InReadableOrder.cpp:64): what a construct *)
(* holds, up to the exits of the constructs around it, is written between  *)
(* its header and its merge block.                                         *)
ConstructsTogether ==
    phase = "done" =>
        LET dominated == Dominated
            dominators(h) == {d \in DOMAIN dominated : h \in dominated[d]}
            exits(h) == ({getMergeInstruction(h)[1]} \cup
                         UNION {ToSet(getMergeInstruction(d)) : d \in dominators(h) \ {h}}) \ dominators(h)
        IN
        \A h \in DOMAIN dominated :
            LET merge == getMergeInstruction(h) IN
            merge # <<>> =>
                \A b \in dominated[h] \cap Reachable(exits(h)) : Place(b) < Place(merge[1])

(* The phi that joins the operands of && or || names the blocks that       *)
(* branch to it, also when an operand is made of several blocks itself     *)
(* (GlslangToSpv.cpp:7715).                                                *)
PhisNamePredecessors ==
    phase = "done" =>
        \A b \in visited : \A i \in DOMAIN code[b] :
            code[b][i].op = "Phi" =>
                ToSet(code[b][i].targets) = {p \in DOMAIN code : b \in ToSet(Successors(p))}
=============================================================================
