------------------------ MODULE StructuredFlowProofs ------------------------
(***************************************************************************)
(* The theorems about StructuredFlow.  Every step of the builder leads     *)
(* from a built graph (StructuredGraphProofs) to another, so that the      *)
(* graph of the code is structured when the function is left, and the      *)
(* recursion of ReadableOrderTraverser meets every block once, in order.   *)
(***************************************************************************)
EXTENDS StructuredGraphProofs


-----------------------------------------------------------------------------
\* The stacks, through the steps of the builder

StackInv ==
    /\ code \in Seq(Seq(Instruction)) /\ buildPoint \in Nat
    /\ Stacks(nest, breakForLoop, loops, switchMerges)

\* nothing is on the stacks when the function begins
LEMMA StackInit == Init => StackInv
<1>. SUFFICES ASSUME Init PROVE StackInv
  OBVIOUS
<1>1. code = << <<>> >> /\ buildPoint = 1 /\ loops = <<>> /\ switchMerges = <<>> /\ breakForLoop = <<>> /\ nest = <<>>
  BY DEF Init
<1>2. code \in Seq(Seq(Instruction))
  <2>1. <<>> \in Seq(Instruction)
    OBVIOUS
  <2>. QED  BY <1>1, <2>1
<1>3. ASSUME NEW V PROVE Tracks(<<>>, {}, V)
  <2>1. Lists(<<>>, {}) /\ Holds(<<>>, <<>>, V)
    BY DEF Lists, Holds
  <2>. QED  BY <2>1 DEF Tracks
<1>4. LeavableIn(nest) = {} /\ OfKind(nest, "loop") = {} /\ OfKind(nest, "switch") = {}
  BY <1>1 DEF LeavableIn, OfKind
<1>5. Stacks(nest, breakForLoop, loops, switchMerges)
  BY <1>1, <1>3, <1>4, Zenon, EmptySeq DEF Stacks
<1>. QED  BY <1>1, <1>2, <1>5 DEF StackInv

LEMMA TopFrame ==
    ASSUME StackInv, nest # <<>>
    PROVE  top \in Frame /\ nest \in Seq(Frame)
<1>1. nest \in Seq(Frame)
  BY DEF StackInv, Stacks
<1>. QED  BY <1>1, FrontFacts DEF top

\* a break or continue goes to the innermost construct that it can leave
LEMMA WhereJumpsGo ==
    ASSUME StackInv, Statement
    PROVE  /\ breakForLoop # <<>> =>
                \E i \in Enclosing({"loop", "switch"}) :
                    /\ \A j \in Enclosing({"loop", "switch"}) : j <= i
                    /\ i = Max(Enclosing({"loop", "switch"})) /\ BreakTarget = nest[i].merge
           /\ loops # <<>> =>
                \E i \in Enclosing({"loop"}) :
                    /\ \A j \in Enclosing({"loop"}) : j <= i
                    /\ i = Max(Enclosing({"loop"})) /\ Last(loops).continue_target = nest[i].continue_target
<1>. DEFINE L == LeavableIn(nest)
            K == OfKind(nest, "loop")
            W == OfKind(nest, "switch")
<1>1. nest \in Seq(Frame) /\ breakForLoop \in Seq(BOOLEAN) /\ loops \in Seq([merge : Nat, continue_target : Nat]) /\ switchMerges \in Seq(Nat)
      /\ Tracks(breakForLoop, L, BreakValue(nest)) /\ Tracks(loops, K, LoopValue(nest)) /\ Tracks(switchMerges, W, MergeValue(nest))
  BY DEF StackInv, Stacks
<1>2. \A i \in DOMAIN nest : nest[i].place \notin {"test", "terminal"}
  BY DEF Statement
<1>3. Enclosing({"loop", "switch"}) = L /\ Enclosing({"loop"}) = K /\ L = K \cup W /\ L \subseteq DOMAIN nest /\ K \subseteq L /\ W \subseteq L
  BY <1>2 DEF Enclosing, LeavableIn, Leavable, OfKind
<1>4. DOMAIN nest \subseteq Nat
  BY <1>1
<1>5. /\ \A i \in DOMAIN nest : BreakValue(nest)[i] = (nest[i].kind = "loop")
      /\ \A i \in DOMAIN nest : LoopValue(nest)[i] = LoopBlocks(nest[i])
      /\ \A i \in DOMAIN nest : MergeValue(nest)[i] = nest[i].merge
  BY DEF BreakValue, LoopValue, MergeValue
<1>6. \A i \in DOMAIN nest : (i \in K <=> nest[i].kind = "loop") /\ (i \in W <=> nest[i].kind = "switch")
  BY DEF OfKind
<1>. HIDE DEF L, K, W
<1>7. /\ breakForLoop = <<>> <=> L = {}
      /\ L # {} => Last(breakForLoop) = BreakValue(nest)[Max(L)] /\ Max(L) \in L /\ \A x \in L : x <= Max(L)
  BY <1>1, TracksLast
<1>8. /\ loops = <<>> <=> K = {}
      /\ K # {} => Last(loops) = LoopValue(nest)[Max(K)] /\ Max(K) \in K /\ \A x \in K : x <= Max(K)
  BY <1>1, TracksLast
<1>9. W # {} => Last(switchMerges) = MergeValue(nest)[Max(W)] /\ Max(W) \in W /\ \A x \in W : x <= Max(W)
  BY <1>1, TracksLast
<1>10. ASSUME breakForLoop # <<>> PROVE BreakTarget = nest[Max(L)].merge /\ Max(L) \in L /\ \A x \in L : x <= Max(L)
  <2>1. /\ Last(breakForLoop) = (nest[Max(L)].kind = "loop") /\ Max(L) \in L /\ (\A x \in L : x <= Max(L))
        /\ Max(L) \in Nat /\ Max(L) \in DOMAIN nest
    BY <1>3, <1>4, <1>5, <1>7, <1>10
  <2>2. CASE Max(L) \in K
    <3>1. Max(K) \in K /\ Max(K) \in Nat /\ Max(L) <= Max(K) /\ Last(loops) = LoopValue(nest)[Max(K)]
      BY <1>3, <1>4, <1>8, <2>2
    <3>2. Max(K) <= Max(L)
      BY <1>3, <2>1, <3>1
    <3>3. Max(K) = Max(L)
      BY <2>1, <3>1, <3>2
    <3>4. Last(breakForLoop) = TRUE
      BY <1>6, <2>1, <2>2
    <3>5. Last(loops).merge = nest[Max(L)].merge
      <4>1. Last(loops) = LoopBlocks(nest[Max(L)])
        BY <1>5, <2>1, <3>1, <3>3
      <4>. QED  BY <4>1 DEF LoopBlocks
    <3>. QED  BY <2>1, <3>4, <3>5 DEF BreakTarget
  <2>3. CASE Max(L) \notin K
    <3>0. Max(L) \in W
      BY <1>3, <2>1, <2>3
    <3>1. Max(W) \in W /\ Max(W) \in Nat /\ Max(L) <= Max(W) /\ Last(switchMerges) = MergeValue(nest)[Max(W)]
      BY <1>3, <1>4, <1>9, <3>0
    <3>2. Max(W) <= Max(L)
      BY <1>3, <2>1, <3>1
    <3>3. Max(W) = Max(L)
      BY <2>1, <3>1, <3>2
    <3>4. Last(breakForLoop) = FALSE
      BY <1>6, <2>1, <2>3
    <3>5. Last(switchMerges) = nest[Max(L)].merge
      BY <1>5, <2>1, <3>1, <3>3
    <3>. QED  BY <2>1, <3>4, <3>5 DEF BreakTarget
  <2>. QED  BY <2>2, <2>3
<1>11. ASSUME loops # <<>>
       PROVE  Last(loops).continue_target = nest[Max(K)].continue_target /\ Max(K) \in K /\ \A x \in K : x <= Max(K)
  <2>1. Last(loops) = LoopBlocks(nest[Max(K)]) /\ Max(K) \in K /\ \A x \in K : x <= Max(K)
    BY <1>3, <1>5, <1>8, <1>11
  <2>. QED  BY <2>1 DEF LoopBlocks
<1>. QED  BY <1>3, <1>10, <1>11

\* a jump adds to the code and makes a block
LEMMA JumpTyped ==
    ASSUME StackInv, NEW op \in {"Branch", "Return"}, NEW t \in Seq(Nat), jump(Instr(op, t))
    PROVE  code' \in Seq(Seq(Instruction)) /\ buildPoint' \in Nat
<1>1. <<Instr(op, t)>> \in Seq(Instruction)
  BY InstrSeq, Ops
<1>2. Made(1) \in Seq(Seq(Instruction)) /\ Len(code) \in Nat
  BY MadeFacts DEF StackInv
<1>3. code' = Put(Made(1), buildPoint, <<Instr(op, t)>>) /\ buildPoint' = Len(code) + 1
  BY DEF jump, New
<1>4. Put(Made(1), buildPoint, <<Instr(op, t)>>) \in Seq(Seq(Instruction))
  BY <1>1, <1>2, PutTyped
<1>. QED  BY <1>2, <1>3, <1>4

\* every step of the builder leaves the stacks in step with nest
LEMMA StackNext == StackInv /\ [Next]_vars => StackInv'
<1>. SUFFICES ASSUME StackInv, [Next]_vars PROVE StackInv'
  OBVIOUS
<1>t. code \in Seq(Seq(Instruction)) /\ buildPoint \in Nat /\ Len(code) \in Nat /\ nest \in Seq(Frame)
      /\ Stacks(nest, breakForLoop, loops, switchMerges)
  BY DEF StackInv, Stacks
<1>m. \A k \in Nat : Made(k) \in Seq(Seq(Instruction)) /\ Len(Made(k)) = Len(code) + k
  BY <1>t, MadeFacts
<1>n. \A i \in Nat : New(i) \in Nat
  BY <1>t DEF New
<1>p. ASSUME NEW c \in Seq(Seq(Instruction)), NEW b, NEW op \in Ends, NEW t \in Seq(Nat)
      PROVE  Put(c, b, <<Instr(op, t)>>) \in Seq(Seq(Instruction))
  BY InstrSeq, PutTyped, Ops
<1>1. ASSUME NEW kind \in {"if", "and"}, If(kind) PROVE StackInv'
  <2>. DEFINE f == [kind |-> kind, place |-> "then", header |-> buildPoint, then |-> New(1), else |-> 0, merge |-> New(2)]
  <2>1. f \in IfFrame /\ f.kind = kind
    BY <1>t, <1>n DEF IfFrame
  <2>2. f \in Frame /\ ~Leavable(f) /\ f.kind # "loop" /\ f.kind # "switch"
    BY <2>1 DEF Frame, Leavable
  <2>3. nest' = Append(nest, f) /\ code' = Made(2) /\ buildPoint' = New(1) /\ UNCHANGED stackVars
    BY <1>1 DEF If
  <2>. HIDE DEF f
  <2>4. Stacks(Append(nest, f), breakForLoop, loops, switchMerges)
    BY <1>t, <2>2, StacksPush
  <2>. QED  BY <1>m, <1>n, <2>3, <2>4 DEF StackInv, stackVars
<1>2. ASSUME makeBeginElse PROVE StackInv'
  <2>. DEFINE f == [top EXCEPT !.place = "else", !.else = New(1)]
  <2>1. nest # <<>> /\ top.kind \in {"if"} /\ nest' = Append(Front(nest), f) /\ buildPoint' = New(1) /\ UNCHANGED stackVars
        /\ code' = Put(Made(1), buildPoint, <<Instr("Branch", <<top.merge>>)>>)
    BY <1>2 DEF makeBeginElse, Inside, SetTop
  <2>2. top \in IfFrame /\ top.merge \in Nat /\ ~Leavable(top)
    BY <2>1, TopFrame, FrameKinds DEF IsIf
  <2>3. f \in IfFrame /\ f.kind = top.kind /\ f.merge = top.merge /\ f.kind # "loop" /\ ~Leavable(f)
    BY <1>n, <2>1, <2>2 DEF IfFrame, Leavable
  <2>4. f \in Frame
    BY <2>3 DEF Frame
  <2>. HIDE DEF f
  <2>5. Stacks(Append(Front(nest), f), breakForLoop, loops, switchMerges)
    BY <1>t, <2>1, <2>2, <2>3, <2>4, StacksSet DEF top
  <2>6. code' \in Seq(Seq(Instruction))
    <3>1. Made(1) \in Seq(Seq(Instruction)) /\ <<top.merge>> \in Seq(Nat)
      BY <1>m, <2>2
    <3>2. "Branch" \in Ends
      BY Ops
    <3>. QED  BY <1>p, <2>1, <3>1, <3>2
  <2>. QED  BY <1>n, <2>1, <2>5, <2>6 DEF StackInv, stackVars
<1>3. ASSUME makeEndIf PROVE StackInv'
  <2>. DEFINE branched == Put(code, buildPoint, <<Instr("Branch", <<top.merge>>)>>)
              phi == IF top.kind = "and" THEN <<Instr("Phi", PhiParents)>> ELSE <<>>
  <2>1. nest # <<>> /\ top.kind \in {"if", "and"} /\ nest' = Front(nest) /\ buildPoint' = top.merge /\ UNCHANGED stackVars
        /\ code' = Put(Put(branched, top.header, FlowSplit), top.merge, phi)
    BY <1>3 DEF makeEndIf, Inside
  <2>2. top \in IfFrame /\ top.merge \in Nat /\ ~Leavable(top)
    BY <2>1, TopFrame, FrameKinds DEF IsIf
  <2>3. top.header \in Nat /\ top.then \in Nat /\ top.else \in Nat
    BY <2>2 DEF IfFrame
  <2>4. branched \in Seq(Seq(Instruction))
    BY <1>t, <1>p, <2>2, Ops, NatTargets
  <2>5. FlowSplit \in Seq(Instruction)
    <3>1. <<top.then, IF top.else # 0 THEN top.else ELSE top.merge>> \in Seq(Nat) /\ <<top.merge>> \in Seq(Nat)
      BY <2>2, <2>3
    <3>. QED  BY <3>1, InstrSeq, Ops DEF FlowSplit
  <2>6. phi \in Seq(Instruction)
    <3>1. PhiParents \in Seq(Nat)
      BY <1>t, <2>3 DEF PhiParents
    <3>2. <<Instr("Phi", PhiParents)>> \in Seq(Instruction) /\ <<>> \in Seq(Instruction)
      BY <3>1, InstrSeq, Ops
    <3>. QED  BY <3>2
  <2>. HIDE DEF branched, phi
  <2>7. code' \in Seq(Seq(Instruction))
    BY <2>1, <2>4, <2>5, <2>6, PutTyped
  <2>8. Stacks(Front(nest), breakForLoop, loops, switchMerges)
    <3>1. top.kind # "loop" /\ top.kind # "switch"
      BY <2>1
    <3>. QED  BY <1>t, <2>1, <2>2, <3>1, StacksPop DEF top
  <2>. QED  BY <2>1, <2>2, <2>7, <2>8 DEF StackInv, stackVars
<1>4. ASSUME NEW s \in Segmentations, NEW lastEmpty \in BOOLEAN, makeSwitch(s, lastEmpty) PROVE StackInv'
  <2>. DEFINE segment(i) == New(i)
              merge == New(s.count + 1)
              default == IF s.default # 0 THEN segment(s.default) ELSE merge
              cases == [i \in DOMAIN s.cases |-> segment(s.cases[i])]
              f == [kind |-> "switch", place |-> "head", header |-> buildPoint, first |-> New(1),
                    count |-> s.count, next |-> 1, lastEmpty |-> lastEmpty, merge |-> merge]
  <2>1. /\ code' = Put(Made(s.count + 1), buildPoint, <<Instr("SelectionMerge", <<merge>>), Instr("Switch", <<default>> \o cases)>>)
        /\ switchMerges' = Append(switchMerges, merge) /\ breakForLoop' = Append(breakForLoop, FALSE)
        /\ nest' = Append(nest, f) /\ buildPoint' = buildPoint /\ loops' = loops
    BY <1>4 DEF makeSwitch
  <2>2. s.count \in Nat /\ s.default \in Nat /\ s.cases \in Seq(Nat)
    <3>1. s.count \in 0 .. MaxSegments /\ s.cases \in SeqOf(1 .. MaxSegments, MaxSegments) /\ s.default \in 0 .. MaxSegments
      BY DEF Segmentations
    <3>2. PICK m \in 0 .. MaxSegments : s.cases \in [1 .. m -> 1 .. MaxSegments]
      BY <3>1 DEF SeqOf
    <3>3. s.cases \in Seq(1 .. MaxSegments)
      <4>1. m \in Nat
        BY <3>2, StructuredFlowAssumption
      <4>. QED  BY <3>2, <4>1, Zenon, SeqDef
    <3>. QED  BY <3>1, <3>3, StructuredFlowAssumption
  <2>3. merge \in Nat /\ default \in Nat
    <3>1. s.count + 1 \in Nat
      BY <2>2
    <3>. QED  BY <1>n, <2>2, <3>1
  <2>4. cases \in Seq(Nat)
    <3>1. Len(s.cases) \in Nat /\ DOMAIN s.cases = 1 .. Len(s.cases) /\ \A i \in 1 .. Len(s.cases) : s.cases[i] \in Nat
      BY <2>2
    <3>2. \A i \in 1 .. Len(s.cases) : segment(s.cases[i]) \in Nat
      BY <1>n, <3>1
    <3>. QED  BY <3>1, <3>2
  <2>5. f \in SwitchFrame /\ f.kind = "switch" /\ f.merge = merge /\ f.place = "head"
    BY <1>t, <1>n, <2>2, <2>3 DEF SwitchFrame
  <2>6. f \in Frame /\ Leavable(f) /\ (f.kind = "loop") = FALSE
    BY <2>5 DEF Frame, Leavable
  <2>. HIDE DEF merge, default, cases, f
  <2>7. Stacks(nest', breakForLoop', loops', switchMerges')
    BY <1>t, <2>1, <2>5, <2>6, StacksPush
  <2>8. code' \in Seq(Seq(Instruction))
    <3>1. <<merge>> \in Seq(Nat) /\ <<default>> \o cases \in Seq(Nat)
      BY <2>3, <2>4
    <3>2. <<Instr("SelectionMerge", <<merge>>), Instr("Switch", <<default>> \o cases)>> \in Seq(Instruction)
      BY <3>1, InstrSeq, Ops
    <3>3. Made(s.count + 1) \in Seq(Seq(Instruction))
      <4>1. s.count + 1 \in Nat
        BY <2>2
      <4>. QED  BY <1>m, <4>1
    <3>. QED  BY <2>1, <3>2, <3>3, PutTyped
  <2>. QED  BY <1>t, <2>1, <2>7, <2>8 DEF StackInv
<1>5. ASSUME nextSwitchSegment PROVE StackInv'
  <2>. DEFINE segment == top.first + top.next - 1
              closed == IF top.next > 1 /\ ~isTerminated(buildPoint) THEN Put(code, buildPoint, <<Instr("Branch", <<segment>>)>>) ELSE code
              isEmpty == top.lastEmpty /\ top.next = top.count
              f == [top EXCEPT !.next = @ + 1, !.place = IF isEmpty THEN "empty" ELSE "segment"]
              filled == Put(closed, segment, <<Instr("Branch", <<Last(switchMerges)>>)>>)
  <2>1. nest # <<>> /\ top.kind \in {"switch"} /\ nest' = Append(Front(nest), f) /\ UNCHANGED stackVars /\ top.next <= top.count
        /\ IF isEmpty THEN code' = filled \o << <<>> >> /\ buildPoint' = New(1) ELSE code' = closed /\ buildPoint' = segment
    BY <1>5 DEF nextSwitchSegment, Inside, SetTop
  <2>2. top \in SwitchFrame /\ Leavable(top) /\ top.merge \in Nat
    BY <2>1, TopFrame, FrameKinds
  <2>3. top.first \in Nat /\ top.next \in Nat \ {0} /\ top.count \in Nat
    BY <2>2 DEF SwitchFrame
  <2>4. f \in SwitchFrame /\ f.kind = top.kind /\ f.merge = top.merge /\ f.kind = "switch" /\ f.place \in {"empty", "segment"}
    <3>. DEFINE place == IF isEmpty THEN "empty" ELSE "segment"
    <3>1. place \in {"empty", "segment"}
      OBVIOUS
    <3>2. top.next + 1 \in Nat \ {0}
      BY <2>3
    <3>. HIDE DEF isEmpty, place
    <3>3. f = [[top EXCEPT !.next = @ + 1] EXCEPT !.place = place]
      BY DEF place
    <3>4. top.kind = "switch"
      BY <2>1
    <3>. HIDE DEF f
    <3>. QED  BY <2>2, <3>1, <3>2, <3>3, <3>4 DEF SwitchFrame
  <2>5. f \in Frame /\ Leavable(f) /\ f.kind # "loop"
    BY <2>4 DEF Frame, Leavable
  <2>. HIDE DEF f
  <2>6. Stacks(nest', breakForLoop', loops', switchMerges')
    <3>1. Stacks(Append(Front(nest), f), breakForLoop, loops, switchMerges)
      BY <1>t, <2>1, <2>2, <2>4, <2>5, StacksSet DEF top
    <3>. QED  BY <2>1, <3>1 DEF stackVars
  <2>7. Last(switchMerges) \in Nat
    <3>1. switchMerges # <<>> /\ Last(switchMerges) = top.merge
      BY <1>t, <2>1, StacksPop DEF top
    <3>. QED  BY <2>2, <3>1
  <2>8. segment \in Nat
    BY <2>3
  <2>9. closed \in Seq(Seq(Instruction))
    BY <1>t, <1>p, <2>8, Ops, NatTargets
  <2>. HIDE DEF segment, closed
  <2>10. filled \o << <<>> >> \in Seq(Seq(Instruction))
    <3>1. filled \in Seq(Seq(Instruction))
      BY <1>p, <2>7, <2>9, Ops, NatTargets
    <3>2. << <<>> >> \in Seq(Seq(Instruction))
      <4>1. <<>> \in Seq(Instruction)
        OBVIOUS
      <4>. QED  BY <4>1
    <3>. QED  BY <3>1, <3>2, ConcatProperties
  <2>. HIDE DEF filled, isEmpty
  <2>11. code' \in Seq(Seq(Instruction)) /\ buildPoint' \in Nat
    BY <1>n, <2>1, <2>8, <2>9, <2>10
  <2>. QED  BY <2>6, <2>11 DEF StackInv
<1>6. ASSUME endSwitch PROVE StackInv'
  <2>1. /\ nest # <<>> /\ top.kind \in {"switch"} /\ nest' = Front(nest) /\ switchMerges' = Front(switchMerges)
        /\ breakForLoop' = Front(breakForLoop) /\ loops' = loops /\ buildPoint' = Last(switchMerges)
        /\ code' = code \/ code' = Put(Made(1), buildPoint, <<Instr("Branch", <<Last(switchMerges)>>)>>)
    BY <1>6 DEF endSwitch, Inside
  <2>2. Leavable(top) /\ top.merge \in Nat /\ top.kind = "switch" /\ top.kind # "loop"
    BY <2>1, TopFrame, FrameKinds
  <2>3. Stacks(nest', breakForLoop', loops', switchMerges') /\ switchMerges # <<>> /\ Last(switchMerges) = top.merge
    <3>1. /\ Stacks(Front(nest), Front(breakForLoop), loops, Front(switchMerges))
          /\ switchMerges # <<>> /\ Last(switchMerges) = top.merge
      BY <1>t, <2>1, <2>2, StacksPop DEF top
    <3>. QED  BY <2>1, <3>1
  <2>4. code' \in Seq(Seq(Instruction))
    <3>1. Put(Made(1), buildPoint, <<Instr("Branch", <<Last(switchMerges)>>)>>) \in Seq(Seq(Instruction))
      <4>1. Made(1) \in Seq(Seq(Instruction)) /\ <<Last(switchMerges)>> \in Seq(Nat) /\ "Branch" \in Ends
        BY <1>m, <2>2, <2>3, Ops
      <4>. QED  BY <1>p, <4>1
    <3>. QED  BY <1>t, <2>1, <3>1
  <2>. QED  BY <2>1, <2>2, <2>3, <2>4 DEF StackInv
<1>l. ASSUME NEW n \in {4, 5}, NEW next \in {New(2), New(5)}, NEW place \in {"test", "body"},
             loopHeader(n, next), nest' = Append(nest, Loop(place)),
             breakForLoop' = IF place = "body" THEN Append(breakForLoop, TRUE) ELSE breakForLoop
      PROVE  StackInv'
  <2>1. /\ code' = Put(Put(Made(n), buildPoint, <<Instr("Branch", <<New(1)>>)>>), New(1),
                       <<Instr("LoopMerge", <<New(3), New(4)>>), Instr("Branch", <<next>>)>>)
        /\ buildPoint' = next /\ loops' = Append(loops, [merge |-> New(3), continue_target |-> New(4)]) /\ switchMerges' = switchMerges
    BY <1>l DEF loopHeader
  <2>2. next \in Nat /\ New(1) \in Nat /\ New(2) \in Nat /\ New(3) \in Nat /\ New(4) \in Nat
    BY <1>n
  <2>3. code' \in Seq(Seq(Instruction))
    <3>1. Made(n) \in Seq(Seq(Instruction))
      BY <1>m
    <3>2. Put(Made(n), buildPoint, <<Instr("Branch", <<New(1)>>)>>) \in Seq(Seq(Instruction))
      BY <1>p, <2>2, <3>1, Ops, NatTargets
    <3>3. <<Instr("LoopMerge", <<New(3), New(4)>>), Instr("Branch", <<next>>)>> \in Seq(Instruction)
      BY <2>2, InstrSeq, Ops, NatTargets
    <3>. QED  BY <2>1, <3>2, <3>3, PutTyped
  <2>. DEFINE f == Loop(place)
  <2>4. f \in LoopFrame /\ f.kind = "loop" /\ f.place = place /\ LoopBlocks(f) = [merge |-> New(3), continue_target |-> New(4)]
    BY <2>2 DEF Loop, LoopFrame, LoopBlocks
  <2>5. f \in Frame /\ f.kind # "switch" /\ (Leavable(f) <=> place = "body") /\ (f.kind = "loop") = TRUE
    BY <2>4 DEF Frame, Leavable
  <2>. HIDE DEF f
  <2>6. Stacks(Append(nest, f), IF Leavable(f) THEN Append(breakForLoop, TRUE) ELSE breakForLoop, Append(loops, LoopBlocks(f)), switchMerges)
    BY <1>t, <2>4, <2>5, StacksPush
  <2>7. breakForLoop' = IF Leavable(f) THEN Append(breakForLoop, TRUE) ELSE breakForLoop
    BY <1>l, <2>5
  <2>8. Stacks(nest', breakForLoop', loops', switchMerges')
    BY <1>l, <2>1, <2>4, <2>6, <2>7, Zenon DEF f
  <2>. QED  BY <2>1, <2>2, <2>3, <2>8 DEF StackInv
<1>7. ASSUME beginTestedLoop PROVE StackInv'
  <2>1. loopHeader(5, New(5)) /\ nest' = Append(nest, Loop("test")) /\ breakForLoop' = breakForLoop
    BY <1>7 DEF beginTestedLoop
  <2>. QED  BY <1>l, <2>1
<1>8. ASSUME beginLoop PROVE StackInv'
  <2>1. loopHeader(4, New(2)) /\ nest' = Append(nest, Loop("body")) /\ breakForLoop' = Append(breakForLoop, TRUE)
    BY <1>8 DEF beginLoop
  <2>. QED  BY <1>l, <2>1
<1>9. ASSUME NEW p1 \in {"test", "body"}, NEW p2 \in {"body", "terminal"}, p1 # p2, nest # <<>>, top.kind \in {"loop"}, top.place = p1,
             nest' = Append(Front(nest), [top EXCEPT !.place = p2]), UNCHANGED <<loops, switchMerges>>,
             breakForLoop' = IF p1 = "body" THEN Front(breakForLoop) ELSE IF p2 = "body" THEN Append(breakForLoop, TRUE) ELSE breakForLoop
      PROVE  Stacks(nest', breakForLoop', loops', switchMerges')
  <2>. DEFINE f == [top EXCEPT !.place = p2]
  <2>1. top \in LoopFrame /\ top.kind = "loop"
    BY <1>9, TopFrame, FrameKinds
  <2>2. f \in LoopFrame /\ f.kind = top.kind /\ f.merge = top.merge /\ f.place = p2 /\ LoopBlocks(f) = LoopBlocks(top)
    BY <2>1 DEF LoopFrame, LoopBlocks
  <2>3. f \in Frame /\ (Leavable(f) <=> p2 = "body") /\ (Leavable(top) <=> p1 = "body") /\ (f.kind = "loop") = TRUE
    BY <1>9, <2>1, <2>2 DEF Frame, Leavable
  <2>. HIDE DEF f
  <2>4. /\ (Leavable(top) <=> Leavable(f)) => Stacks(Append(Front(nest), f), breakForLoop, loops, switchMerges)
        /\ ~Leavable(top) /\ Leavable(f) => Stacks(Append(Front(nest), f), Append(breakForLoop, TRUE), loops, switchMerges)
        /\ Leavable(top) /\ ~Leavable(f) => Stacks(Append(Front(nest), f), Front(breakForLoop), loops, switchMerges)
    BY <1>t, <1>9, <2>2, <2>3, StacksSet DEF top
  <2>. QED  BY <1>9, <2>3, <2>4 DEF f
<1>10. ASSUME endTest PROVE StackInv'
  <2>1. /\ nest # <<>> /\ top.kind \in {"loop"} /\ top.place \in {"test"} /\ nest' = Append(Front(nest), [top EXCEPT !.place = "body"])
        /\ UNCHANGED <<loops, switchMerges>> /\ breakForLoop' = Append(breakForLoop, TRUE) /\ buildPoint' = top.body
        /\ code' = Put(code, buildPoint, <<Instr("BranchConditional", <<top.body, top.merge>>)>>)
    BY <1>10 DEF endTest, Inside, SetTop
  <2>2. top.body \in Nat /\ top.merge \in Nat
    BY <2>1, TopFrame, FrameKinds
  <2>3. Stacks(nest', breakForLoop', loops', switchMerges')
    <3>1. top.place = "test"
      BY <2>1
    <3>. QED  BY <1>9, <2>1, <3>1
  <2>4. code' \in Seq(Seq(Instruction))
    <3>1. <<top.body, top.merge>> \in Seq(Nat) /\ "BranchConditional" \in Ends
      BY <2>2, Ops, NatTargets
    <3>. QED  BY <1>t, <1>p, <2>1, <3>1
  <2>. QED  BY <2>1, <2>2, <2>3, <2>4 DEF StackInv
<1>11. ASSUME endBody PROVE StackInv'
  <2>1. /\ nest # <<>> /\ top.kind \in {"loop"} /\ top.place \in {"body"} /\ nest' = Append(Front(nest), [top EXCEPT !.place = "terminal"])
        /\ UNCHANGED <<loops, switchMerges>> /\ breakForLoop' = Front(breakForLoop) /\ buildPoint' = top.continue_target
        /\ code' = Put(code, buildPoint, <<Instr("Branch", <<top.continue_target>>)>>)
    BY <1>11 DEF endBody, Inside, SetTop, AfterBody
  <2>2. top.continue_target \in Nat
    BY <2>1, TopFrame, FrameKinds
  <2>3. Stacks(nest', breakForLoop', loops', switchMerges')
    <3>1. top.place = "body"
      BY <2>1
    <3>. QED  BY <1>9, <2>1, <3>1
  <2>4. code' \in Seq(Seq(Instruction))
    BY <1>t, <1>p, <2>1, <2>2, Ops, NatTargets
  <2>. QED  BY <2>1, <2>2, <2>3, <2>4 DEF StackInv
<1>12. ASSUME NEW testLast \in BOOLEAN, closeLoop(testLast) PROVE StackInv'
  <2>. DEFINE instr == IF testLast THEN Instr("BranchConditional", <<top.head, top.merge>>) ELSE Instr("Branch", <<top.head>>)
  <2>1. /\ nest # <<>> /\ top.kind \in {"loop"} /\ top.place \in {"terminal"} /\ nest' = Front(nest)
        /\ UNCHANGED <<breakForLoop, switchMerges>> /\ loops' = Front(loops) /\ buildPoint' = top.merge
        /\ code' = Put(code, buildPoint, <<instr>>)
    BY <1>12 DEF closeLoop, Inside
  <2>2. top.head \in Nat /\ top.merge \in Nat /\ top.kind = "loop" /\ top.kind # "switch" /\ ~Leavable(top)
    BY <2>1, TopFrame, FrameKinds DEF Leavable
  <2>3. Stacks(nest', breakForLoop', loops', switchMerges')
    <3>1. Stacks(Front(nest), breakForLoop, Front(loops), switchMerges)
      BY <1>t, <2>1, <2>2, StacksPop DEF top
    <3>. QED  BY <2>1, <3>1
  <2>4. <<instr>> \in Seq(Instruction)
    <3>1. <<Instr("BranchConditional", <<top.head, top.merge>>)>> \in Seq(Instruction) /\ <<Instr("Branch", <<top.head>>)>> \in Seq(Instruction)
      BY <2>2, InstrSeq, Ops, NatTargets
    <3>. QED  BY <3>1
  <2>. HIDE DEF instr
  <2>5. code' \in Seq(Seq(Instruction))
    BY <1>t, <2>1, <2>4, PutTyped
  <2>. QED  BY <2>1, <2>2, <2>3, <2>5 DEF StackInv
<1>13. ASSUME Break PROVE StackInv'
  <2>1. jump(Instr("Branch", <<BreakTarget>>)) /\ UNCHANGED <<stackVars, nest>> /\ breakForLoop # <<>>
    BY <1>13 DEF Break
  <2>2. BreakTarget \in Nat
    <3>1. Statement
      BY <1>13 DEF Break
    <3>2. PICK i \in DOMAIN nest : BreakTarget = nest[i].merge
      BY <2>1, <3>1, WhereJumpsGo DEF Enclosing
    <3>3. nest[i] \in Frame
      BY <1>t, <3>2
    <3>. QED  BY <3>2, <3>3, FrameKinds
  <2>3. code' \in Seq(Seq(Instruction)) /\ buildPoint' \in Nat
    BY <2>1, <2>2, JumpTyped, NatTargets
  <2>. QED  BY <1>t, <2>1, <2>3 DEF StackInv, stackVars
<1>14. ASSUME Continue PROVE StackInv'
  <2>1. jump(Instr("Branch", <<Last(loops).continue_target>>)) /\ UNCHANGED <<stackVars, nest>> /\ loops # <<>>
    BY <1>14 DEF Continue
  <2>2. Last(loops).continue_target \in Nat
    <3>1. loops \in Seq([merge : Nat, continue_target : Nat])
      BY <1>t DEF Stacks
    <3>2. Last(loops) \in [merge : Nat, continue_target : Nat]
      BY <2>1, <3>1, FrontFacts
    <3>. QED  BY <3>2
  <2>3. code' \in Seq(Seq(Instruction)) /\ buildPoint' \in Nat
    BY <2>1, <2>2, JumpTyped, NatTargets
  <2>. QED  BY <1>t, <2>1, <2>3 DEF StackInv, stackVars
<1>15. ASSUME ReturnOrDiscard PROVE StackInv'
  <2>1. jump(Instr("Return", <<>>)) /\ UNCHANGED <<stackVars, nest>>
    BY <1>15 DEF ReturnOrDiscard
  <2>2. code' \in Seq(Seq(Instruction)) /\ buildPoint' \in Nat
    BY <2>1, JumpTyped, NatTargets
  <2>. QED  BY <1>t, <2>1, <2>2 DEF StackInv, stackVars
<1>16. ASSUME leaveFunction PROVE StackInv'
  <2>1. UNCHANGED <<buildPoint, stackVars, nest>> /\ (code' = code \/ code' = Put(code, buildPoint, <<Instr("Return", <<>>)>>))
    BY <1>16 DEF leaveFunction
  <2>2. code' \in Seq(Seq(Instruction))
    <3>1. <<>> \in Seq(Nat) /\ "Return" \in Ends
      BY Ops, NatTargets
    <3>. QED  BY <1>t, <1>p, <2>1, <3>1
  <2>. QED  BY <1>t, <2>1, <2>2 DEF StackInv, stackVars
<1>17. ASSUME visitEntry \/ visitSuccessor \/ visitDelayed \/ leaveVisit \/ UNCHANGED vars PROVE StackInv'
  <2>1. UNCHANGED <<builderVars, stackVars, nest>>
    BY <1>17 DEF visitEntry, visitSuccessor, visitDelayed, leaveVisit, vars
  <2>. QED  BY <1>t, <2>1 DEF StackInv, stackVars, builderVars
<1>. QED  BY <1>1, <1>2, <1>3, <1>4, <1>5, <1>6, <1>7, <1>8, <1>10, <1>11, <1>12, <1>13, <1>14, <1>15, <1>16, <1>17 DEF Next

(* Every break and continue leaves the construct that encloses it, through *)
(* every nesting of loops and switches: the builder's stacks of loops and  *)
(* of merge blocks and the traverser's record of which of them to ask      *)
(* (GlslangToSpv.cpp:2804) always agree.                                   *)
THEOREM JumpsLeaveInnermostHolds == Spec => []JumpsLeaveInnermost
<1>1. StackInv => JumpsLeaveInnermost
  <2>. SUFFICES ASSUME StackInv PROVE JumpsLeaveInnermost
    OBVIOUS
  <2>1. Len(breakForLoop) = Cardinality(Enclosing({"loop", "switch"}))
    <3>1. Tracks(breakForLoop, LeavableIn(nest), BreakValue(nest)) /\ breakForLoop \in Seq(BOOLEAN)
      BY DEF StackInv, Stacks
    <3>2. LeavableIn(nest) = Enclosing({"loop", "switch"})
      BY DEF LeavableIn, Leavable, Enclosing
    <3>. QED  BY <3>1, <3>2, TracksLast
  <2>2. Statement /\ breakForLoop # <<>> => BreakTarget = Innermost({"loop", "switch"}).merge
    BY WhereJumpsGo DEF Innermost
  <2>3. Statement /\ loops # <<>> => Enclosing({"loop"}) # {} /\ Last(loops).continue_target = Innermost({"loop"}).continue_target
    BY WhereJumpsGo DEF Innermost
  <2>. QED  BY <2>1, <2>2, <2>3 DEF JumpsLeaveInnermost
<1>. QED  BY <1>1, StackInit, StackNext, PTL DEF Spec

-----------------------------------------------------------------------------
\* The innermost construct ends

LEMMA IfFacts ==
    ASSUME NEW f, FrameOK(f), f.kind \in {"if", "and"}
    PROVE  /\ f \in IfFrame /\ IsIf(f) /\ ~Terminal(f) /\ f.place # "head" /\ Header(f) = f.header /\ First(f) = f.then /\ Cont(f) = 0
           /\ f.header \in Nat \ {0} /\ f.then \in Nat \ {0} /\ f.else \in Nat /\ f.merge \in Nat \ {0}
           /\ f.header < f.then /\ f.merge = f.then + 1 /\ (f.else # 0 => f.else > f.merge) /\ (f.kind = "and" => f.else = 0)
           /\ Names(f) = {f.header, f.merge} \cup ({f.then, f.else} \ {0}) /\ Await(f) = {f.merge} /\ Entries(f) = {f.then, f.else} \ {0}
<1>1. f \in IfFrame /\ IsIf(f)
  BY FrameKinds DEF FrameOK, IsIf
<1>2. f.header \in Nat /\ f.then \in Nat /\ f.else \in Nat /\ f.merge \in Nat /\ f.place \in {"then", "else"}
  BY <1>1 DEF IfFrame
<1>3. ~Terminal(f) /\ f.place # "head" /\ Header(f) = f.header /\ First(f) = f.then /\ Cont(f) = 0
  BY <1>2 DEF Terminal, Header, First, Cont
<1>4. f.header < f.then /\ f.merge = f.then + 1 /\ (f.else # 0 => f.else > f.merge) /\ (f.kind = "and" => f.else = 0) /\ f.header # 0
  BY <1>1, <1>3 DEF FrameOK
<1>5. Names(f) = {f.header, f.merge} \cup ({f.then, f.else} \ {0}) /\ Await(f) = {f.merge} /\ Entries(f) = {f.then, f.else} \ {0}
  <2>1. Header(f) = f.header /\ f.kind # "switch" /\ f.kind # "loop" /\ f.place # "test" /\ f.place # "body"
    BY <1>2, <1>3
  <2>. QED  BY <2>1 DEF Names, Await, Entries
<1>. QED  BY <1>1, <1>2, <1>3, <1>4, <1>5

ClosesIf(c, bp, c2, f) ==
    /\ c2 \in Seq(Seq(Instruction)) /\ Len(c2) = Len(c)
    /\ \A b \in 1 .. Len(c) : b \notin {bp, f.header} /\ (b # f.merge \/ f.kind # "and") => c2[b] = c[b]
    /\ EndsBy(c, c2, bp, {f.merge})
    /\ WellFormed(c2[f.header]) /\ Terminated(c2[f.header]) /\ MergeOf(c2[f.header]) = <<f.merge>>
    /\ PhiOf(c2[f.header]) = PhiOf(c[f.header]) /\ SuccOf(c2[f.header]) = {f.then, IF f.else # 0 THEN f.else ELSE f.merge}
    /\ f.kind = "and" => WellFormed(c2[f.merge]) /\ Fresh(c2[f.merge]) /\ PhiOf(c2[f.merge]) = <<f.header, bp>>

\* makeEndIf keeps the code built
LEMMA IfClosed ==
    ASSUME NEW g, NEW c, NEW ns, NEW bp, Built(g, c, ns, bp), ns # <<>>, NEW f, f = ns[Len(ns)], f.kind \in {"if", "and"},
           NEW c2, ClosesIf(c, bp, c2, f), NEW ns2, ns2 = Front(ns)
    PROVE  \E g2 : Built(g2, c2, ns2, f.merge)
<1>1. g.n = Len(c) /\ g.n \in Nat \ {0} /\ MaxBlocks \in Nat /\ g.n <= MaxBlocks /\ bp \in 1 .. g.n
  BY CodeFacts
<1>2. /\ Len(ns) \in DOMAIN ns /\ FrameOK(f) /\ FrameInv(g, c, f) /\ Names(f) \subseteq 1 .. g.n /\ f \in Frame
      /\ f.place # "head" => \A i \in DOMAIN ns : ns[i].place # "head"
  BY InnerFrame
<1>3. /\ IsIf(f) /\ ~Terminal(f) /\ f.place # "head" /\ Header(f) = f.header /\ First(f) = f.then /\ Cont(f) = 0
      /\ f.header \in Nat \ {0} /\ f.then \in Nat \ {0} /\ f.else \in Nat /\ f.merge \in Nat \ {0}
      /\ f.header < f.then /\ f.merge = f.then + 1 /\ (f.else # 0 => f.else > f.merge) /\ (f.kind = "and" => f.else = 0)
      /\ Names(f) = {f.header, f.merge} \cup ({f.then, f.else} \ {0}) /\ Await(f) = {f.merge} /\ Entries(f) = {f.then, f.else} \ {0}
  BY <1>2, IfFacts
<1>4. /\ f.header \in 1 .. g.n /\ f.merge \in 1 .. g.n /\ f.then \in 1 .. g.n /\ (f.else # 0 => f.else \in 1 .. g.n)
      /\ f.header # f.merge /\ f.then # f.merge /\ f.else # f.merge /\ f.header # f.then /\ f.header # f.else
  BY <1>2, <1>3
<1>5. \A i \in DOMAIN ns : ns[i].place # "head"
  BY <1>2, <1>3
<1>6. Fresh(c[bp]) /\ WellFormed(c[bp]) /\ bp # f.header /\ bp # f.merge
  <2>1. Fresh(c[bp]) /\ WellFormed(c[bp]) /\ bp \notin Headers(ns) /\ Point(g, f, bp)
    BY <1>2, <1>5, BuildPlace
  <2>2. f.header \in Headers(ns)
    BY <1>2, <1>3 DEF Headers
  <2>. QED  BY <1>3, <2>1, <2>2 DEF Point
<1>7. c[f.merge] = <<>> /\ Fresh(c[f.header]) /\ WellFormed(c[f.header])
  BY <1>2, <1>3, <1>4, CodeFacts DEF FrameInv
<1>t. /\ c2 \in Seq(Seq(Instruction)) /\ Len(c2) = Len(c)
      /\ \A b \in 1 .. Len(c) : b \notin {bp, f.header} /\ (b # f.merge \/ f.kind # "and") => c2[b] = c[b]
      /\ EndsBy(c, c2, bp, {f.merge})
      /\ WellFormed(c2[f.header]) /\ Terminated(c2[f.header]) /\ MergeOf(c2[f.header]) = <<f.merge>>
      /\ PhiOf(c2[f.header]) = PhiOf(c[f.header]) /\ SuccOf(c2[f.header]) = {f.then, IF f.else # 0 THEN f.else ELSE f.merge}
      /\ f.kind = "and" => WellFormed(c2[f.merge]) /\ Fresh(c2[f.merge]) /\ PhiOf(c2[f.merge]) = <<f.header, bp>>
  BY DEF ClosesIf
<1>8. WellFormed(c2[bp]) /\ Terminated(c2[bp]) /\ SuccOf(c2[bp]) = {f.merge} /\ MergeOf(c2[bp]) = <<>> /\ PhiOf(c2[bp]) = PhiOf(c[bp])
  BY <1>t DEF EndsBy
<1>9. Fresh(c2[f.merge]) /\ WellFormed(c2[f.merge]) /\ SuccOf(c2[f.merge]) = {} /\ MergeOf(c2[f.merge]) = <<>>
      /\ (f.kind # "and" => PhiOf(c2[f.merge]) = PhiOf(c[f.merge]))
  <2>1. CASE f.kind = "and"
    BY <1>t, <2>1, FreshBlock
  <2>2. CASE f.kind # "and"
    <3>1. c2[f.merge] = <<>>
      BY <1>1, <1>4, <1>6, <1>7, <1>t, <2>2
    <3>. QED  BY <1>7, <3>1, EmptyBlock
  <2>. QED  BY <2>1, <2>2
<1>. DEFINE D == {bp, f.header, f.merge}
<1>10. CodeChanges(g, c, c2, D)
  <2>1. \A b \in 1 .. g.n : b \notin D => c2[b] = c[b]
    BY <1>1, <1>t
  <2>2. \A b \in D : (b \in 1 .. g.n => Fresh(c[b])) /\ WellFormed(c2[b])
    BY <1>6, <1>7, <1>8, <1>9, <1>t, EmptyBlock
  <2>3. \A b \in D : SuccOf(c2[b]) \subseteq 1 .. Len(c2)
    <3>1. SuccOf(c2[bp]) \subseteq 1 .. Len(c2) /\ SuccOf(c2[f.header]) \subseteq 1 .. Len(c2) /\ SuccOf(c2[f.merge]) \subseteq 1 .. Len(c2)
      BY <1>1, <1>4, <1>8, <1>9, <1>t
    <3>. QED  BY <3>1
  <2>4. \A b \in 1 .. Len(c2) : ~(b > g.n)
    BY <1>1, <1>t
  <2>5. g.n <= Len(c2) /\ Len(c2) <= MaxBlocks
    BY <1>1, <1>t
  <2>. QED  BY <1>t, <2>1, <2>2, <2>3, <2>4, <2>5 DEF CodeChanges
<1>11. D \subseteq 1 .. g.n
  BY <1>1, <1>4
<1>. HIDE DEF D
<1>g. ASSUME NEW k0, k0 = 0 PROVE \E g2 : Built(g2, c2, ns2, f.merge)
  <2>1. Ending(g, ns, Len(c2), k0)
    BY <1>g DEF Ending
  <2>2. PICK g2 : Stepped(g, c, ns, bp, g2, c2, k0, D)
    BY <1>10, <1>11, <2>1, Steps, Zenon
  <2>3. \A p, b : NewEdge(g, g2, p, b) => \/ p = bp /\ b = f.merge
                                          \/ p = f.header /\ (b = f.then \/ b = (IF f.else # 0 THEN f.else ELSE f.merge))
    <3>1. \A p, b : NewEdge(g, g2, p, b) => p \in D /\ b \in SuccOf(c2[p])
      BY <2>2 DEF Stepped
    <3>2. \A p, b : NewEdge(g, g2, p, b) => (p = bp \/ p = f.header \/ p = f.merge) /\ b \in SuccOf(c2[p])
      BY <3>1 DEF D
    <3>. QED  BY <1>8, <1>9, <1>t, <3>2
  <2>4. Advances(g, c, ns, bp, g2, c2, k0) /\ g2.n = g.n
    BY <1>1, <1>t, <2>2 DEF Stepped
  <2>5. Grew(g, c, ns, g2, c2, k0) /\ \A h \in 1 .. g2.n : g2.mrg[h] # 0 => h \in 1 .. g.n /\ g.mrg[h] # 0
    BY <2>4 DEF Advances
  <2>6. Shape(g2, ns) /\ f.merge \in Owned(g2)
        /\ Enters(g2, bp, f.merge) /\ Leaves(g2, bp, f.merge) /\ Returns(g2, bp, f.merge)
    BY <1>3, <2>4, EdgeHere
  <2>7. Source(g2, ns, f.header)
    BY <1>3, <2>4 DEF Advances
  <2>8. Enters(g2, f.header, f.merge) /\ Leaves(g2, f.header, f.merge) /\ Returns(g2, f.header, f.merge)
    <3>1. \A j \in DOMAIN ns : j > Len(ns) => ~Terminal(ns[j])
      <4>1. ns \in Seq(Frame)
        BY CodeFacts
      <4>. QED  BY <4>1
    <3>2. ASSUME NEW i \in DOMAIN ns, i = Len(ns)
          PROVE  Enters(g2, f.header, ns[i].merge) /\ Leaves(g2, f.header, ns[i].merge) /\ Returns(g2, f.header, ns[i].merge)
      BY <2>6, <2>7, <3>1, <3>2, EdgeToMerge
    <3>. QED  BY <1>2, <3>2
  <2>9. ASSUME NEW e \in Entries(f)
        PROVE  /\ Enters(g2, f.header, e) /\ Leaves(g2, f.header, e) /\ Returns(g2, f.header, e)
               /\ ForwardFrom(g2, e, f.header) /\ Unowned(g, e) /\ e \in 1 .. g.n
    <3>1. e \in 1 .. g.n /\ e \in Names(f) /\ e # Header(f) /\ e # f.merge
      BY <1>3, <1>4
    <3>2. Unowned(g, e) /\ \A p \in 1 .. g.n : e \notin g.succ[p]
      <4>1. f.kind # "switch"
        OBVIOUS
      <4>. QED  BY <1>2, <4>1 DEF FrameInv
    <3>3. Unowned(g2, e)
      BY <2>5, <3>1, <3>2, UnownedStep
    <3>4. Enters(g2, f.header, e) /\ Leaves(g2, f.header, e) /\ Returns(g2, f.header, e)
      BY <1>3, <2>6, <2>7, <3>1, <3>3, EdgeToEntry
    <3>5. ASSUME NEW p \in 1 .. g2.n, e \in g2.succ[p] PROVE p = f.header
      <4>1. NewEdge(g, g2, p, e)
        <5>1. ~OldEdge(g, p, e)
          BY <2>4, <3>2, <3>5 DEF OldEdge
        <5>. QED  BY <3>5, <5>1 DEF NewEdge
      <4>. QED  BY <2>3, <3>1, <4>1
    <3>. QED  BY <3>1, <3>2, <3>4, <3>5 DEF ForwardFrom
  <2>10. \A p, b : NewEdge(g, g2, p, b) => \/ p = bp /\ b = f.merge
                                           \/ p = f.header /\ (b = f.merge \/ b \in Entries(f))
    BY <1>3, <2>3
  <2>11. EdgeOK(g, g2)
    <3>1. f.header \in 1 .. g2.n
      BY <1>4, <2>4
    <3>. QED  BY <2>6, <2>8, <2>9, <2>10, <3>1 DEF EdgeOK
  <2>12. \A b \in 1 .. g.n : b \notin {bp, f.header, f.merge} => c2[b] = c[b]
    BY <1>1, <1>t
  <2>13. ASSUME NEW j \in DOMAIN ns, j # Len(ns) PROVE Calm(g, c, g2, c2, ns[j])
    <3>1. \A b \in 1 .. g.n : c2[b] # c[b] => (b = bp /\ \A i \in DOMAIN ns : ns[i].place # "head") \/ b \in Names(f)
      BY <1>3, <1>5, <2>12
    <3>2. \A p, b : NewEdge(g, g2, p, b) => b \in Names(f) /\ b # Header(f)
      BY <1>3, <1>4, <2>3
    <3>3. Local(g, c, ns, bp, g2, c2, f)
      BY <3>1, <3>2 DEF Local
    <3>. QED  BY <2>5, <2>13, <3>3, CalmBelow, Zenon
  <2>14. Covered(c2, ns2, f.merge, bp) /\ Covered(c2, ns2, f.merge, f.merge) /\ Covered(c2, ns2, f.merge, f.header)
    BY <1>8, <1>t DEF Covered
  <2>15. \A b \in Entries(f) : Covered(c2, ns2, f.merge, b)
    <3>1. \A b \in Entries(f) : Covered(c, ns, bp, b)
      BY <1>2, <1>3 DEF Built, LiveInv
    <3>2. \A i \in DOMAIN ns : \/ i \in DOMAIN ns2 /\ ns2[i] = ns[i]
                               \/ /\ \A b \in Await(ns[i]) : Covered(c2, ns2, f.merge, b)
                                  /\ IsIf(ns[i]) => Covered(c2, ns2, f.merge, ns[i].header)
      <4>1. ns \in Seq(Frame)
        BY CodeFacts
      <4>2. ASSUME NEW i \in DOMAIN ns, i # Len(ns) PROVE i \in DOMAIN ns2 /\ ns2[i] = ns[i]
        <5>1. DOMAIN ns2 = 1 .. Len(ns) - 1 /\ \A k \in 1 .. Len(ns) - 1 : ns2[k] = ns[k]
          BY <4>1, FrontFacts
        <5>2. i \in 1 .. Len(ns) - 1
          BY <4>1, <4>2
        <5>. QED  BY <5>1, <5>2
      <4>3. ASSUME NEW i \in DOMAIN ns, i = Len(ns)
            PROVE  (\A b \in Await(ns[i]) : Covered(c2, ns2, f.merge, b)) /\ Covered(c2, ns2, f.merge, ns[i].header)
        BY <1>3, <2>14, <4>3
      <4>. QED  BY <4>2, <4>3
    <3>3. \A b \in Entries(f) : b \in 1 .. g.n
      BY <2>9
    <3>. QED  BY <2>5, <2>14, <3>1, <3>2, <3>3, CoverStep
  <2>16. MergeKnown(g2, c2, ns2, f.header)
    <3>1. g.mrg[f.header] = f.merge /\ g.cnt[f.header] = 0
      BY <1>2, <1>3 DEF FrameInv
    <3>2. g2.mrg[f.header] = f.merge /\ g2.cnt[f.header] = 0
      BY <1>3, <1>4, <2>5, <3>1, OldConstruct
    <3>. QED  BY <1>3, <1>t, <3>2 DEF MergeKnown
  <2>17. f.kind = "and" => Joins(g2, c2, f.merge, PhiOf(c2[f.merge]))
    <3>. SUFFICES ASSUME f.kind = "and" PROVE Joins(g2, c2, f.merge, PhiOf(c2[f.merge]))
      OBVIOUS
    <3>. DEFINE t == <<f.header, bp>>
    <3>1. PhiOf(c2[f.merge]) = t /\ Len(t) = 2 /\ t[1] = f.header /\ t[2] = bp
      BY <1>t
    <3>2. NoPredecessor(g, f.merge)
      BY <1>2 DEF FrameInv
    <3>3. ASSUME NEW p \in 1 .. g2.n, f.merge \in g2.succ[p] PROVE p \in {f.header, bp}
      <4>1. ~OldEdge(g, p, f.merge)
        BY <2>4, <3>2, <3>3 DEF OldEdge, NoPredecessor
      <4>2. NewEdge(g, g2, p, f.merge)
        BY <3>3, <4>1 DEF NewEdge
      <4>. QED  BY <2>3, <4>2
    <3>4. g2.succ[f.header] = {f.then, f.merge} /\ g2.succ[bp] = {f.merge}
      <4>1. f.header \in 1 .. g2.n /\ bp \in 1 .. g2.n
        BY <1>1, <1>4, <2>4
      <4>2. g2.succ[f.header] = SuccOf(c2[f.header]) /\ g2.succ[bp] = SuccOf(c2[bp])
        BY <2>5, <4>1 DEF Grew
      <4>. QED  BY <1>3, <1>8, <1>t, <4>2
    <3>5. Flow(g2, f.then, bp)
      <4>1. \A i \in DOMAIN ns : ns[i].kind = "and" => Flow(g, ns[i].then, IF i = Len(ns) THEN bp ELSE Header(ns[i + 1]))
        BY DEF Built, OperandInv
      <4>2. Flow(g, f.then, bp)
        BY <1>2, <4>1
      <4>. QED  BY <1>4, <2>5, <4>2, FlowStep
    <3>6. Flow(g2, f.header, bp)
      <4>1. ASSUME NEW S \in SUBSET (1 .. g2.n), FlowClosed(g2, S), f.header \in S PROVE bp \in S
        <5>1. f.then \in S
          BY <3>4, <4>1 DEF FlowClosed
        <5>. QED  BY <3>5, <4>1, <5>1 DEF Flow
      <4>. QED  BY <4>1 DEF Flow
    <3>7. \A p \in 1 .. g2.n : f.merge \in g2.succ[p] <=> p \in {t[1], t[2]}
      BY <3>1, <3>3, <3>4
    <3>8. MergeOf(c2[t[1]]) = <<f.merge>> /\ t[1] \in 1 .. g2.n /\ t[2] \in 1 .. g2.n /\ Flow(g2, t[1], t[2])
      BY <1>1, <1>4, <1>t, <2>4, <3>1, <3>6
    <3>. HIDE DEF t
    <3>. QED  BY <3>1, <3>7, <3>8, Zenon DEF Joins
  <2>18. EndsFrame(g, c, ns, bp, g2, c2, k0, ns2, f, f.merge)
    <3>1. \A b \in Await(f) : Covered(c2, ns2, f.merge, b)
      BY <1>3, <2>14
    <3>2. \A p, b : NewEdge(g, g2, p, b) => Covered(c2, ns2, f.merge, b) /\ (b > g.n \/ c[b] = <<>> \/ Unowned(g, b))
      BY <1>7, <2>9, <2>10, <2>14, <2>15
    <3>3. \A b \in g.n + 1 .. g2.n : FALSE
      BY <1>1, <2>4
    <3>4. \A b \in 1 .. g.n : \/ MergeOf(c2[b]) = MergeOf(c[b]) /\ ~(IsIf(f) /\ b = f.header)
                              \/ MergeKnown(g2, c2, ns2, b)
      <4>1. MergeOf(c[bp]) = <<>> /\ MergeOf(c[f.merge]) = <<>>
        BY <1>6, <1>7, FreshBlock, EmptyBlock
      <4>. QED  BY <1>8, <1>9, <2>12, <2>16, <4>1
    <3>5. \A b \in 1 .. g.n : PhiOf(c2[b]) = PhiOf(c[b]) \/ Joins(g2, c2, b, PhiOf(c2[b]))
      BY <1>8, <1>9, <1>t, <2>12, <2>17
    <3>. QED  BY <1>9, <2>5, <2>13, <2>14, <3>1, <3>2, <3>3, <3>4, <3>5 DEF EndsFrame
  <2>. QED  BY <1>g, <2>5, <2>11, <2>18, Ended, Zenon
<1>. QED  BY <1>g

\* a block with a merge instruction ends with a branch
LEMMA MergeEnds ==
    ASSUME NEW is, WellFormed(is), MergeOf(is) # <<>>
    PROVE  Terminated(is)
<1>1. Len(is) >= 2 /\ is[Len(is) - 1].op \in Merges /\ is \in Seq(Instruction)
  BY DEF MergeOf, WellFormed
<1>2. is[Len(is)].op \in Branches
  <2>1. Len(is) - 1 \in 1 .. Len(is)
    BY <1>1
  <2>. QED  BY <1>1, <2>1 DEF WellFormed
<1>. QED  BY <1>1, <1>2 DEF Terminated, Ends

\* the head of a loop being built branches to its body or test
LEMMA HeadEnds ==
    ASSUME NEW g, NEW c, NEW ns, NEW bp, Built(g, c, ns, bp), ns # <<>>, NEW f, f = ns[Len(ns)], f.kind = "loop"
    PROVE  Terminated(c[f.head]) /\ f.head \in 1 .. g.n
<1>1. /\ Len(ns) \in DOMAIN ns /\ FrameOK(f) /\ FrameInv(g, c, f) /\ Names(f) \subseteq 1 .. g.n
      /\ \A i \in DOMAIN ns : i # Len(ns) => i < Len(ns) /\ Within(g, ns[i], f)
  BY InnerFrame
<1>2. f.head \in Nat \ {0} /\ f.merge = f.head + 2 /\ f.head \in Names(f) /\ ~IsIf(f) /\ Header(f) = f.head
  BY <1>1, LoopFacts
<1>3. f.head \in 1 .. g.n /\ g.mrg[f.head] # 0
  BY <1>1, <1>2 DEF FrameInv
<1>4. ASSUME NEW i \in DOMAIN ns, IsIf(ns[i]), ns[i].header = f.head PROVE FALSE
  <2>1. i # Len(ns)
    BY <1>2, <1>4
  <2>2. FrameOK(ns[i])
    BY BuiltFrame
  <2>3. Header(ns[i]) = f.head /\ Header(ns[i]) \in Names(ns[i])
    BY <1>4, <2>2, FrameFacts DEF Header, IsIf
  <2>4. Header(ns[i]) < f.head
    BY <1>1, <2>1, <2>3 DEF Within
  <2>. QED  BY <1>2, <2>3, <2>4
<1>5. WellFormed(c[f.head]) /\ MergeOf(c[f.head]) # <<>>
  BY <1>3, <1>4 DEF Built, Matches
<1>. QED  BY <1>3, <1>5, MergeEnds

ClosesBy(g, c, ns, bp, g2, c2, k0, D, f, ns2) ==
    /\ ns # <<>> /\ f = ns[Len(ns)] /\ Stepped(g, c, ns, bp, g2, c2, k0, D) /\ EdgeOK(g, g2)
    /\ D = IF f.place = "head" THEN {} ELSE {bp}
    /\ \A d \in D : EndsBy(c, c2, d, SuccOf(c2[d])) /\ \A t \in SuccOf(c2[d]) : t = f.merge \/ (f.kind = "loop" /\ t = f.head)
    /\ Await(f) = {f.merge} /\ ~IsIf(f) /\ ns2 = Front(ns)

\* the innermost construct ends, with branches from D only
LEMMA ClosedBy ==
    ASSUME NEW g, NEW c, NEW ns, NEW bp, Built(g, c, ns, bp), NEW g2, NEW c2, NEW k0, k0 = 0, NEW D, NEW f, NEW ns2,
           ClosesBy(g, c, ns, bp, g2, c2, k0, D, f, ns2)
    PROVE  Built(g2, c2, ns2, f.merge)
<1>1. /\ ns # <<>> /\ f = ns[Len(ns)] /\ Stepped(g, c, ns, bp, g2, c2, k0, D) /\ EdgeOK(g, g2)
      /\ D = IF f.place = "head" THEN {} ELSE {bp}
      /\ \A d \in D : EndsBy(c, c2, d, SuccOf(c2[d])) /\ \A t \in SuccOf(c2[d]) : t = f.merge \/ (f.kind = "loop" /\ t = f.head)
      /\ Await(f) = {f.merge} /\ ~IsIf(f) /\ ns2 = Front(ns)
  BY DEF ClosesBy
<1>2. /\ Advances(g, c, ns, bp, g2, c2, k0)
      /\ g2.n = Len(c2) /\ g.n \in Nat \ {0} /\ g2.n \in Nat \ {0} /\ g.n <= g2.n /\ g2.n <= MaxBlocks /\ 1 .. g.n \subseteq 1 .. g2.n
      /\ \A p, b : NewEdge(g, g2, p, b) => p \in D /\ b \in SuccOf(c2[p]) /\ b \in 1 .. g2.n
      /\ \A b \in 1 .. g.n : b \notin D => c2[b] = c[b]
      /\ \A b \in D : b \in 1 .. g.n /\ Fresh(c[b]) /\ MergeOf(c[b]) = <<>>
      /\ \A b \in g.n + 1 .. g2.n : c2[b] = <<>> /\ MergeOf(c2[b]) = <<>> /\ PhiOf(c2[b]) = <<>>
  BY <1>1 DEF Stepped
<1>3. /\ Len(ns) \in DOMAIN ns /\ FrameOK(f) /\ FrameInv(g, c, f) /\ Names(f) \subseteq 1 .. g.n
      /\ f.place # "head" => \A i \in DOMAIN ns : ns[i].place # "head"
  BY <1>1, InnerFrame
<1>4. f.merge \in Names(f) /\ f.merge # Header(f) /\ c[f.merge] = <<>> /\ f.merge \in 1 .. g.n
  <2>1. f.merge \in Names(f) /\ f.merge # Header(f)
    BY <1>1, <1>3, FrameFacts
  <2>. QED  BY <1>1, <1>3, <2>1 DEF FrameInv
<1>5. f.merge \notin D
  <2>1. ASSUME f.place # "head" PROVE bp # f.merge
    <3>1. Point(g, f, bp)
      BY <1>1, <1>3, <2>1, BuildPlace
    <3>. QED  BY <1>1, <3>1 DEF Point
  <2>. QED  BY <1>1, <2>1
<1>6. f.kind = "loop" => /\ f.head \in 1 .. g.n /\ f.head \in Names(f) /\ Terminated(c[f.head]) /\ Unowned(g, f.head) /\ f.head \notin D
  <2>. SUFFICES ASSUME f.kind = "loop"
                PROVE  f.head \in 1 .. g.n /\ f.head \in Names(f) /\ Terminated(c[f.head]) /\ Unowned(g, f.head) /\ f.head \notin D
    OBVIOUS
  <2>1. Terminated(c[f.head]) /\ f.head \in 1 .. g.n
    BY <1>1, HeadEnds
  <2>2. f.head \in Names(f) /\ Unowned(g, f.head)
    BY <1>3, LoopFacts DEF FrameInv
  <2>3. f.head \notin D
    <3>1. WellFormed(c[f.head])
      BY <2>1, CodeFacts
    <3>. QED  BY <1>2, <2>1, <3>1, FreshBlock
  <2>. QED  BY <2>1, <2>2, <2>3
<1>7. ASSUME NEW p, NEW b, NewEdge(g, g2, p, b)
      PROVE  /\ b \in 1 .. g.n /\ b \in Names(f) /\ (b # Header(f) \/ f.kind = "loop") /\ Covered(c2, ns2, f.merge, b)
             /\ c[b] = <<>> \/ Unowned(g, b)
  <2>1. b = f.merge \/ (f.kind = "loop" /\ b = f.head)
    BY <1>1, <1>2, <1>7
  <2>2. CASE b = f.merge
    BY <1>4, <2>2 DEF Covered
  <2>3. CASE f.kind = "loop" /\ b = f.head
    BY <1>2, <1>6, <2>3 DEF Covered
  <2>. QED  BY <2>1, <2>2, <2>3
<1>8. Grew(g, c, ns, g2, c2, k0) /\ \A h \in 1 .. g2.n : g2.mrg[h] # 0 => h \in 1 .. g.n /\ g.mrg[h] # 0
  BY <1>2 DEF Advances
<1>9. ASSUME NEW j \in DOMAIN ns, j # Len(ns) PROVE Calm(g, c, g2, c2, ns[j])
  <2>1. \A b \in 1 .. g.n : c2[b] # c[b] => (b = bp /\ \A i \in DOMAIN ns : ns[i].place # "head") \/ b \in Names(f)
    BY <1>1, <1>2, <1>3
  <2>2. Local(g, c, ns, bp, g2, c2, f)
    BY <1>7, <2>1 DEF Local
  <2>. QED  BY <1>1, <1>8, <1>9, <2>2, CalmBelow, Zenon
<1>10. Covered(c2, ns2, f.merge, bp) /\ Covered(c2, ns2, f.merge, f.merge)
  <2>1. CASE f.place = "head"
    <3>1. Terminated(c[bp]) /\ bp \in 1 .. g.n
      BY <1>1, <1>3, <2>1 DEF Built, At
    <3>. QED  BY <1>1, <1>2, <2>1, <3>1 DEF Covered
  <2>2. CASE f.place # "head"
    BY <1>1, <2>2 DEF Covered, EndsBy
  <2>. QED  BY <2>1, <2>2
<1>11. ASSUME NEW b \in g.n + 1 .. g2.n PROVE Dead(g2, b)
  <2>1. b # 1 /\ ~(b \in 1 .. g.n) /\ b # 0
    BY <1>2
  <2>2. NoPredecessor(g2, b)
    <3>1. ASSUME NEW p \in 1 .. g2.n, b \in g2.succ[p] PROVE FALSE
      <4>1. OldEdge(g, p, b)
        BY <1>7, <2>1, <3>1 DEF NewEdge
      <4>2. p \in 1 .. g.n /\ b \in g.succ[p]
        BY <1>2, <4>1 DEF OldEdge
      <4>3. g.succ[p] \subseteq 1 .. g.n
        BY <4>2, CodeFacts
      <4>. QED  BY <2>1, <4>2, <4>3
    <3>. QED  BY <3>1 DEF NoPredecessor
  <2>3. Unowned(g2, b)
    <3>1. ASSUME NEW h \in 1 .. g2.n PROVE g2.mrg[h] # b /\ g2.cnt[h] # b
      <4>1. CASE g2.mrg[h] # 0
        <5>1. h \in 1 .. g.n /\ g.mrg[h] # 0
          BY <1>8, <4>1
        <5>2. g2.mrg[h] = g.mrg[h] /\ g2.cnt[h] = g.cnt[h]
          BY <1>8, <5>1, OldConstruct
        <5>3. g.mrg[h] \in 0 .. g.n /\ g.cnt[h] \in 0 .. g.n
          BY <5>1, CodeFacts, ConstructFacts
        <5>. QED  BY <1>2, <5>2, <5>3
      <4>2. CASE g2.mrg[h] = 0
        <5>1. Constructs(g2)
          BY <1>8, GrewFacts
        <5>2. g2.cnt[h] = 0
          BY <4>2, <5>1 DEF Constructs
        <5>. QED  BY <2>1, <4>2, <5>2
      <4>. QED  BY <4>1, <4>2
    <3>. QED  BY <3>1 DEF Unowned
  <2>. QED  BY <2>1, <2>2, <2>3 DEF Dead
<1>12. \A b \in 1 .. g.n : MergeOf(c2[b]) = MergeOf(c[b]) /\ PhiOf(c2[b]) = PhiOf(c[b])
  BY <1>1, <1>2 DEF EndsBy
<1>13. Fresh(c2[f.merge])
  BY <1>2, <1>4, <1>5, EmptyBlock
<1>14. EndsFrame(g, c, ns, bp, g2, c2, k0, ns2, f, f.merge)
  <2>1. \A b \in Await(f) : Covered(c2, ns2, f.merge, b)
    BY <1>1, <1>10
  <2>2. \A b \in g.n + 1 .. g2.n : (Covered(c2, ns2, f.merge, b) \/ Dead(g2, b)) /\ MergeOf(c2[b]) = <<>> /\ PhiOf(c2[b]) = <<>>
    BY <1>2, <1>11
  <2>. QED  BY <1>1, <1>7, <1>8, <1>9, <1>10, <1>12, <1>13, <2>1, <2>2 DEF EndsFrame
<1>. QED  BY <1>1, <1>8, <1>14, Ended, Zenon

EndsLoop(c, ns, bp, c2, f, T) ==
    /\ ns # <<>> /\ f = ns[Len(ns)] /\ f.kind = "loop" /\ f.place = "terminal" /\ Len(c2) = Len(c)
    /\ T \subseteq {f.head, f.merge} /\ EndsHere(c, bp, c2, T)

\* closeLoop keeps the code built
LEMMA LoopClosed ==
    ASSUME NEW g, NEW c, NEW ns, NEW bp, Built(g, c, ns, bp), NEW c2, NEW f, NEW T, EndsLoop(c, ns, bp, c2, f, T),
           NEW ns2, ns2 = Front(ns)
    PROVE  \E g2 : Built(g2, c2, ns2, f.merge)
<1>0. /\ ns # <<>> /\ f = ns[Len(ns)] /\ f.kind = "loop" /\ f.place = "terminal" /\ Len(c2) = Len(c)
      /\ T \subseteq {f.head, f.merge} /\ EndsHere(c, bp, c2, T)
  BY DEF EndsLoop
<1>. USE <1>0
<1>1. g.n = Len(c) /\ g.n \in Nat \ {0} /\ MaxBlocks \in Nat /\ g.n <= MaxBlocks /\ bp \in 1 .. g.n
  BY CodeFacts
<1>2. /\ Len(ns) \in DOMAIN ns /\ FrameOK(f) /\ FrameInv(g, c, f) /\ Names(f) \subseteq 1 .. g.n
      /\ \A i \in DOMAIN ns : ns[i].place # "head"
  BY InnerFrame
<1>3. /\ f.head \in Names(f) /\ f.merge \in Names(f) /\ Header(f) = f.head /\ Await(f) = {f.merge} /\ ~IsIf(f) /\ Terminal(f)
      /\ f.place # "head"
  BY <1>2, LoopFacts
<1>4. Fresh(c[bp])
  BY <1>2, BuildPlace
<1>t. /\ c2 \in Seq(Seq(Instruction)) /\ Len(c) <= Len(c2) /\ Len(c2) <= MaxBlocks
      /\ \A b \in 1 .. Len(c) : b # bp => c2[b] = c[b]
      /\ \A b \in 1 .. Len(c2) : b > Len(c) => c2[b] = <<>>
      /\ EndsBy(c, c2, bp, T) /\ WellFormed(c2[bp]) /\ SuccOf(c2[bp]) = T
  BY DEF EndsHere, EndsBy
<1>5. CodeChanges(g, c, c2, {bp})
  <2>1. T \subseteq 1 .. Len(c2)
    BY <1>1, <1>2, <1>3
  <2>. QED  BY <1>1, <1>4, <1>t, <2>1 DEF CodeChanges
<1>g. ASSUME NEW k0, k0 = 0 PROVE \E g2 : Built(g2, c2, ns2, f.merge)
  <2>1. Ending(g, ns, Len(c2), k0)
    BY <1>g DEF Ending
  <2>2. PICK g2 : Stepped(g, c, ns, bp, g2, c2, k0, {bp})
    <3>1. {bp} \subseteq 1 .. g.n
      BY <1>1
    <3>. QED  BY <1>5, <2>1, <3>1, Steps, Zenon
  <2>3. \A p, b : NewEdge(g, g2, p, b) => p = bp /\ b \in T
    <3>1. \A p, b : NewEdge(g, g2, p, b) => p \in {bp} /\ b \in SuccOf(c2[p])
      BY <2>2 DEF Stepped
    <3>. QED  BY <1>t, <3>1
  <2>4. Advances(g, c, ns, bp, g2, c2, k0)
    BY <2>2 DEF Stepped
  <2>5. Shape(g2, ns) /\ Source(g2, ns, bp) /\ f.merge \in Owned(g2)
        /\ Enters(g2, bp, f.merge) /\ Leaves(g2, bp, f.merge) /\ Returns(g2, bp, f.merge)
    BY <1>3, <2>4, EdgeHere
  <2>6. Enters(g2, bp, f.head) /\ Leaves(g2, bp, f.head) /\ Returns(g2, bp, f.head)
    BY <2>5, EdgeToHead
  <2>7. bp \in g2.region[f.head]
    <3>1. ASSUME NEW i \in DOMAIN ns, i = Len(ns) PROVE bp \in g2.region[Header(ns[i])]
      <4>1. PlaceIn(g2, ns[i], bp)
        BY <1>3, <2>5, <3>1 DEF Source
      <4>2. g2.region[Header(ns[i])] = Region(g2.n, ns[i])
        BY <2>5, ShapeFacts
      <4>. QED  BY <4>1, <4>2 DEF PlaceIn
    <3>. QED  BY <1>2, <1>3, <3>1
  <2>8. EdgeOK(g, g2)
    BY <2>3, <2>5, <2>6, <2>7 DEF EdgeOK
  <2>9. ClosesBy(g, c, ns, bp, g2, c2, k0, {bp}, f, ns2)
    <3>1. \A d \in {bp} : EndsBy(c, c2, d, SuccOf(c2[d])) /\ \A t \in SuccOf(c2[d]) : t = f.merge \/ (f.kind = "loop" /\ t = f.head)
      BY <1>t
    <3>. QED  BY <1>3, <2>2, <2>8, <3>1 DEF ClosesBy
  <2>. QED  BY <1>g, <2>9, ClosedBy, Zenon
<1>. QED  BY <1>g

\* the last segment breaks, if there is one; what follows it is then a new block
EndsSwitch(c, ns, bp, c2, f) ==
    /\ ns # <<>> /\ f = ns[Len(ns)] /\ f.kind = "switch" /\ f.next > f.count
    /\ IF f.place = "head" THEN c2 = c ELSE EndsHere(c, bp, c2, {f.merge})

\* endSwitch keeps the code built
LEMMA SwitchClosed ==
    ASSUME NEW g, NEW c, NEW ns, NEW bp, Built(g, c, ns, bp), NEW c2, NEW f, EndsSwitch(c, ns, bp, c2, f),
           NEW ns2, ns2 = Front(ns)
    PROVE  \E g2 : Built(g2, c2, ns2, f.merge)
<1>0. /\ ns # <<>> /\ f = ns[Len(ns)] /\ f.kind = "switch" /\ f.next > f.count
      /\ IF f.place = "head" THEN c2 = c ELSE EndsHere(c, bp, c2, {f.merge})
  BY DEF EndsSwitch
<1>. USE <1>0
<1>1. g.n = Len(c) /\ g.n \in Nat \ {0} /\ MaxBlocks \in Nat /\ g.n <= MaxBlocks /\ bp \in 1 .. g.n /\ c \in Seq(Seq(Instruction))
  BY CodeFacts
<1>2. /\ Len(ns) \in DOMAIN ns /\ FrameOK(f) /\ FrameInv(g, c, f) /\ Names(f) \subseteq 1 .. g.n
      /\ f.place # "head" => \A i \in DOMAIN ns : ns[i].place # "head"
  BY InnerFrame
<1>3. f.merge \in Names(f) /\ Await(f) = {f.merge} /\ ~IsIf(f)
  <2>1. f.merge \in Names(f) /\ Await(f) = {f.merge} \cup Segments(f) /\ ~IsIf(f) /\ f.next \in Nat /\ f.count \in Nat /\ f.first \in Nat
    BY <1>2, SwitchFacts
  <2>2. Segments(f) = {}
    BY <2>1 DEF Segments
  <2>. QED  BY <2>1, <2>2
<1>4. f.place # "head" => Fresh(c[bp])
  BY <1>2, BuildPlace
<1>t. f.place # "head" =>
        /\ c2 \in Seq(Seq(Instruction)) /\ Len(c) <= Len(c2) /\ Len(c2) <= MaxBlocks
        /\ \A b \in 1 .. Len(c) : b # bp => c2[b] = c[b]
        /\ \A b \in 1 .. Len(c2) : b > Len(c) => c2[b] = <<>>
        /\ EndsBy(c, c2, bp, {f.merge}) /\ WellFormed(c2[bp]) /\ SuccOf(c2[bp]) = {f.merge}
  BY DEF EndsHere, EndsBy
<1>d. ASSUME NEW D, D = IF f.place = "head" THEN {} ELSE {bp} PROVE \E g2 : Built(g2, c2, ns2, f.merge)
  <2>1. CodeChanges(g, c, c2, D)
    <3>1. CASE f.place = "head"
      <4>1. c2 = c /\ D = {}
        BY <1>d, <3>1
      <4>2. \A b \in 1 .. Len(c2) : ~(b > g.n)
        BY <1>1, <4>1
      <4>. QED  BY <1>1, <4>1, <4>2 DEF CodeChanges
    <3>2. CASE f.place # "head"
      <4>1. {f.merge} \subseteq 1 .. Len(c2) /\ D = {bp}
        BY <1>1, <1>2, <1>3, <1>d, <1>t, <3>2
      <4>. QED  BY <1>1, <1>4, <1>t, <3>2, <4>1 DEF CodeChanges
    <3>. QED  BY <3>1, <3>2
  <2>2. D \subseteq 1 .. g.n
    BY <1>1, <1>d
  <2>g. ASSUME NEW k0, k0 = 0 PROVE \E g2 : Built(g2, c2, ns2, f.merge)
    <3>1. Ending(g, ns, Len(c2), k0)
      BY <2>g DEF Ending
    <3>2. PICK g2 : Stepped(g, c, ns, bp, g2, c2, k0, D)
      BY <2>1, <2>2, <3>1, Steps, Zenon
    <3>3. \A p, b : NewEdge(g, g2, p, b) => p = bp /\ b = f.merge /\ f.place # "head"
      <4>1. \A p, b : NewEdge(g, g2, p, b) => p \in D /\ b \in SuccOf(c2[p])
        BY <3>2 DEF Stepped
      <4>. QED  BY <1>d, <1>t, <4>1
    <3>4. Advances(g, c, ns, bp, g2, c2, k0)
      BY <3>2 DEF Stepped
    <3>5. f.place # "head" => /\ f.merge \in Owned(g2)
                              /\ Enters(g2, bp, f.merge) /\ Leaves(g2, bp, f.merge) /\ Returns(g2, bp, f.merge)
      BY <3>4, EdgeHere
    <3>6. EdgeOK(g, g2)
      BY <3>3, <3>5 DEF EdgeOK
    <3>7. ClosesBy(g, c, ns, bp, g2, c2, k0, D, f, ns2)
      <4>1. \A d \in D : EndsBy(c, c2, d, SuccOf(c2[d])) /\ \A t \in SuccOf(c2[d]) : t = f.merge \/ (f.kind = "loop" /\ t = f.head)
        BY <1>d, <1>t
      <4>. QED  BY <1>3, <1>d, <3>2, <3>6, <4>1 DEF ClosesBy
    <3>. QED  BY <2>g, <3>7, ClosedBy, Zenon
  <2>. QED  BY <2>g
<1>. QED  BY <1>d

-----------------------------------------------------------------------------
\* A construct begins: its header is the build point, or the first block made

Begins(g, c, ns, bp, c2, D, f0, bp2) ==
    LET h0 == Header(f0)
        n2 == Len(c2)
    IN
    /\ \A i \in DOMAIN ns : ns[i].place \notin {"head", "empty"} /\ (ns[i].place \in {"test", "terminal"} \/ ns[i].kind = "and" => IsIf(f0))
    /\ f0 \in Frame /\ FrameOK(f0) /\ ~Terminal(f0) /\ Names(f0) \subseteq 1 .. n2
    /\ f0.kind = "loop" => h0 = g.n + 1
    /\ f0.kind # "loop" => h0 = bp /\ First(f0) = g.n + 1
    /\ CodeChanges(g, c, c2, D) /\ D = (IF IsIf(f0) THEN {} ELSE {bp, h0}) /\ D \cap Await(f0) = {}
    /\ ~IsIf(f0) => /\ Terminated(c2[h0]) /\ Terminated(c2[bp]) /\ PhiOf(c2[bp]) = PhiOf(c[bp])
                    /\ MergeOf(c2[h0]) = IF Cont(f0) = 0 THEN <<f0.merge>> ELSE <<f0.merge, Cont(f0)>>
                    /\ SuccOf(c2[h0]) \subseteq (First(f0) .. n2) \ {Cont(f0)}
    /\ f0.kind = "loop" => /\ PhiOf(c2[h0]) = <<>> /\ MergeOf(c2[bp]) = <<>> /\ SuccOf(c2[bp]) = {h0}
                           /\ SuccOf(c2[h0]) \cap Entries(f0) = {}
    /\ f0.kind = "switch" => Segments(f0) \subseteq SuccOf(c2[h0])
    /\ \A b \in g.n + 1 .. n2 : b \in D \cup Await(f0) \cup {bp2}
    /\ IF f0.place = "head" THEN f0.kind = "switch" /\ bp2 = bp ELSE bp2 \in Region(n2, f0) \ Await(f0) /\ c2[bp2] = <<>>
    /\ IsIf(f0) => bp2 = f0.then /\ f0.else = 0

\* a construct begins, with branches from D only
LEMMA Began ==
    ASSUME NEW g, NEW c, NEW ns, NEW bp, Built(g, c, ns, bp), NEW c2, NEW D, NEW f0, NEW bp2, Begins(g, c, ns, bp, c2, D, f0, bp2),
           NEW ns2, ns2 = Append(ns, f0)
    PROVE  \E g2 : Built(g2, c2, ns2, bp2)
<1>1. g.n = Len(c) /\ g.n \in Nat \ {0} /\ MaxBlocks \in Nat /\ g.n <= MaxBlocks /\ bp \in 1 .. g.n /\ ns \in Seq(Frame)
  BY CodeFacts
<1>h. ASSUME NEW h0, h0 = Header(f0), NEW m0, m0 = f0.merge, NEW c0, c0 = Cont(f0), NEW n2, n2 = Len(c2), NEW R0, R0 = Region(n2, f0),
             NEW k0, k0 = 0
      PROVE  \E g2 : Built(g2, c2, ns2, bp2)
  <2>1. /\ \A i \in DOMAIN ns : ns[i].place \notin {"head", "empty"} /\ (ns[i].place \in {"test", "terminal"} \/ ns[i].kind = "and" => IsIf(f0))
        /\ f0 \in Frame /\ FrameOK(f0) /\ ~Terminal(f0) /\ Names(f0) \subseteq 1 .. n2
        /\ f0.kind = "loop" => h0 = g.n + 1
        /\ f0.kind # "loop" => h0 = bp /\ First(f0) = g.n + 1
        /\ CodeChanges(g, c, c2, D) /\ D = (IF IsIf(f0) THEN {} ELSE {bp, h0}) /\ D \cap Await(f0) = {}
        /\ ~IsIf(f0) => /\ Terminated(c2[h0]) /\ Terminated(c2[bp]) /\ PhiOf(c2[bp]) = PhiOf(c[bp])
                        /\ MergeOf(c2[h0]) = IF c0 = 0 THEN <<m0>> ELSE <<m0, c0>>
                        /\ SuccOf(c2[h0]) \subseteq (First(f0) .. n2) \ {c0}
        /\ f0.kind = "loop" => /\ PhiOf(c2[h0]) = <<>> /\ MergeOf(c2[bp]) = <<>> /\ SuccOf(c2[bp]) = {h0}
                               /\ SuccOf(c2[h0]) \cap Entries(f0) = {}
        /\ f0.kind = "switch" => Segments(f0) \subseteq SuccOf(c2[h0])
        /\ \A b \in g.n + 1 .. n2 : b \in D \cup Await(f0) \cup {bp2}
    BY <1>h DEF Begins
  <2>2. /\ IF f0.place = "head" THEN f0.kind = "switch" /\ bp2 = bp ELSE bp2 \in R0 \ Await(f0) /\ c2[bp2] = <<>>
        /\ IsIf(f0) => bp2 = f0.then /\ f0.else = 0
    BY <1>h DEF Begins
  <2>3. /\ h0 \in Nat \ {0} /\ First(f0) \in Nat /\ m0 \in Nat /\ c0 \in Nat
        /\ h0 < First(f0) /\ First(f0) <= m0 /\ m0 # c0
        /\ Await(f0) \subseteq Names(f0) /\ Entries(f0) \subseteq Names(f0) /\ h0 \notin Await(f0) \cup Entries(f0)
        /\ c0 # 0 => c0 \in Names(f0) /\ c0 # h0 /\ c0 >= First(f0)
        /\ m0 \in Await(f0) /\ m0 \notin Entries(f0) /\ c0 \notin Entries(f0)
        /\ h0 \in Names(f0) /\ m0 \in Names(f0)
        /\ \A b \in Names(f0) : b = h0 \/ b >= First(f0)
        /\ f0.kind \in {"if", "and", "switch", "loop"}
    BY <1>h, <2>1, FrameFacts
  <2>4. h0 \in 1 .. n2 /\ (h0 = bp \/ h0 > g.n) /\ First(f0) > g.n /\ (IsIf(f0) => h0 = bp) /\ (c0 # 0 => f0.kind = "loop")
    <3>1. f0.kind = "loop" => First(f0) > g.n
      BY <1>1, <2>1, <2>3
    <3>2. c0 # 0 => f0.kind = "loop"
      BY <1>h DEF Cont
    <3>3. IsIf(f0) => f0.kind # "loop"
      BY DEF IsIf
    <3>. QED  BY <1>1, <2>1, <2>3, <3>1, <3>2, <3>3
  <2>5. n2 \in Nat /\ g.n <= n2 /\ n2 <= MaxBlocks /\ c2 \in Seq(Seq(Instruction))
        /\ (\A b \in 1 .. g.n : b \notin D => c2[b] = c[b])
        /\ (\A b \in D : (b \in 1 .. g.n => Fresh(c[b])) /\ WellFormed(c2[b]) /\ SuccOf(c2[b]) \subseteq 1 .. Len(c2))
        /\ \A b \in 1 .. n2 : b > g.n /\ b \notin D => c2[b] = <<>>
    BY <1>h, <2>1 DEF CodeChanges
  <2>6. m0 \in g.n + 1 .. n2 /\ R0 = (First(f0) .. n2) \ {m0} /\ R0 \subseteq g.n + 1 .. n2 /\ h0 \notin R0 /\ m0 \notin R0 \cup {h0}
        /\ (c0 = 0 \/ c0 \in R0)
    <3>1. m0 \in 1 .. n2 /\ (c0 # 0 => c0 \in 1 .. n2)
      BY <2>1, <2>3
    <3>2. R0 = (First(f0) .. n2) \ {m0}
      BY <1>h DEF Region
    <3>. QED  BY <1>1, <2>3, <2>4, <2>5, <3>1, <3>2
  <2>7. \A i \in DOMAIN ns : ns[i].place # "head"
    BY <2>1
  <2>8. /\ bp \in 1 .. g.n /\ Fresh(c[bp]) /\ WellFormed(c[bp]) /\ g.mrg[bp] = 0 /\ g.succ[bp] = {} /\ bp \notin Headers(ns)
        /\ \A i \in DOMAIN ns : Point(g, ns[i], bp) /\ bp \in g.region[Header(ns[i])]
    BY <2>7, BuildPlace
  <2>9. Opening(g, Len(c2), Headers(ns), h0, m0, c0, R0)
    <3>1. h0 <= g.n => h0 = bp
      BY <1>1, <2>4
    <3>2. h0 <= g.n => g.mrg[h0] = 0 /\ g.succ[h0] = {} /\ \A h \in Headers(ns) : h0 \in g.region[h]
      BY <2>8, <3>1 DEF Headers
    <3>. QED  BY <1>h, <2>4, <2>6, <3>2 DEF Opening
  <2>10. CodeGrows(g, c, c2)
    BY <2>1, CodeGrowsBy, Zenon
  <2>11. Ending(g, ns, Len(c2), k0)
    BY <1>h DEF Ending
  <2>12. PICK g2 : Growth(g, g2, c2, ns, h0, m0, c0, R0, k0)
    BY <2>9, <2>10, <2>11, Grows, Zenon
  <2>13. Grew(g, c, ns, g2, c2, k0) /\ Opens(g, g2, h0, m0, c0, R0)
    BY <2>9, <2>10, <2>11, <2>12, GrewFrom, Zenon
  <2>14. g2.n = n2 /\ 1 .. g.n \subseteq 1 .. g2.n /\ \A b \in 1 .. g2.n : g2.succ[b] = SuccOf(c2[b])
    <3>1. 1 .. g.n \subseteq 1 .. g2.n
      BY <2>13, GrewFacts, Zenon
    <3>. QED  BY <1>h, <2>13, <3>1 DEF Grew
  <2>15. /\ \A h \in 1 .. g2.n : g2.mrg[h] # 0 => h = h0 \/ (h \in 1 .. g.n /\ g.mrg[h] # 0)
         /\ g2.mrg[h0] = m0 /\ g2.cnt[h0] = c0 /\ g2.region[h0] = R0 /\ (h0 > g.n => g2.tail[h0] = MaxBlocks)
    BY <2>3, <2>13 DEF Opens
  <2>16. ASSUME NEW p, NEW b, NewEdge(g, g2, p, b)
         PROVE  /\ ~IsIf(f0) /\ p \in {bp, h0} /\ b \in SuccOf(c2[p]) /\ b \in g.n + 1 .. g2.n /\ b # c0 /\ (p = h0 <=> b \in R0 \cup {m0})
                /\ (p # h0 => f0.kind = "loop" /\ b = h0)
    <3>1. p \in 1 .. g2.n /\ b \in SuccOf(c2[p]) /\ (p \in 1 .. g.n => c2[p] # c[p]) /\ b \in 1 .. g2.n
      BY <2>13, <2>16, EdgeFrom
    <3>2. p \in D
      <4>1. ASSUME p \notin D PROVE FALSE
        <5>1. ~(p \in 1 .. g.n)
          BY <2>5, <3>1, <4>1
        <5>2. c2[p] = <<>>
          BY <1>1, <2>5, <2>14, <3>1, <4>1, <5>1
        <5>. QED  BY <3>1, <5>2, EmptyBlock
      <4>. QED  BY <4>1
    <3>3. ~IsIf(f0) /\ p \in {bp, h0}
      BY <2>1, <3>2
    <3>4. CASE p = h0
      <4>1. b \in (First(f0) .. n2) \ {c0}
        BY <2>1, <3>1, <3>3, <3>4
      <4>. QED  BY <1>1, <2>4, <2>5, <2>6, <2>14, <3>1, <3>3, <3>4, <4>1
    <3>5. CASE p # h0
      <4>1. p = bp /\ f0.kind = "loop" /\ b = h0
        BY <2>1, <3>1, <3>3, <3>5
      <4>. QED  BY <1>1, <2>1, <2>3, <2>4, <2>6, <2>14, <3>1, <3>3, <3>5, <4>1
    <3>. QED  BY <3>4, <3>5
  <2>17. EdgeOK(g, g2)
    <3>1. ASSUME NEW p, NEW b, NewEdge(g, g2, p, b)
          PROVE  /\ Enters(g2, p, b) /\ Leaves(g2, p, b) /\ Returns(g2, p, b)
                 /\ \E q \in 1 .. g2.n : ForwardFrom(g2, b, q)
      <4>1. p \in {bp, h0} /\ b \in g.n + 1 .. g2.n /\ b # c0 /\ (p = h0 <=> b \in R0 \cup {m0})
        BY <2>16, <3>1
      <4>2. h0 # 0 /\ (h0 = bp \/ h0 > g.n) /\ (c0 # 0 => h0 > g.n)
        BY <1>1, <2>1, <2>3, <2>4
      <4>3. Enters(g2, p, b) /\ Leaves(g2, p, b) /\ Returns(g2, p, b)
        <5>1. FromNew(g, c, ns, bp, g2, c2, h0, m0, c0, R0, k0, p, b)
          BY <1>h, <2>7, <2>9, <2>10, <2>12, <4>1, <4>2, Zenon DEF FromNew
        <5>2. MayEnter(g2, p, b)
          BY <5>1, EdgeInto, Zenon
        <5>. QED  BY <5>2 DEF MayEnter
      <4>4. ASSUME NEW r \in 1 .. g2.n, b \in g2.succ[r] PROVE r = p
        <5>1. ~OldEdge(g, r, b)
          <6>1. ASSUME OldEdge(g, r, b) PROVE FALSE
            <7>1. r \in 1 .. g.n /\ b \in g.succ[r]
              BY <1>1, <6>1 DEF OldEdge
            <7>2. g.succ[r] \subseteq 1 .. g.n
              BY <7>1, CodeFacts
            <7>. QED  BY <1>1, <4>1, <7>1, <7>2
          <6>. QED  BY <6>1
        <5>2. r \in {bp, h0} /\ (r = h0 <=> b \in R0 \cup {m0})
          BY <2>16, <4>4, <5>1 DEF NewEdge
        <5>. QED  BY <4>1, <5>2
      <4>5. p \in 1 .. g2.n
        BY <3>1 DEF NewEdge
      <4>. QED  BY <4>3, <4>4, <4>5 DEF ForwardFrom
    <3>. QED  BY <3>1, Zenon DEF EdgeOK
  <2>18. ASSUME NEW b \in g.n + 1 .. g2.n, b # m0, b # c0 PROVE Unowned(g2, b)
    <3>1. ASSUME NEW h \in 1 .. g2.n PROVE g2.mrg[h] # b /\ g2.cnt[h] # b
      <4>1. CASE h = h0
        BY <2>15, <2>18, <4>1
      <4>2. CASE h # h0 /\ g2.mrg[h] # 0
        <5>1. h \in 1 .. g.n /\ g.mrg[h] # 0
          BY <2>15, <4>2
        <5>2. g2.mrg[h] = g.mrg[h] /\ g2.cnt[h] = g.cnt[h]
          BY <2>13, <5>1, OldConstruct
        <5>3. g.mrg[h] \in 0 .. g.n /\ g.cnt[h] \in 0 .. g.n
          BY <5>1, CodeFacts, ConstructFacts
        <5>. QED  BY <1>1, <2>18, <5>2, <5>3
      <4>3. CASE g2.mrg[h] = 0
        <5>1. Constructs(g2)
          BY <2>13, GrewFacts
        <5>2. g2.cnt[h] = 0
          BY <4>3, <5>1 DEF Constructs
        <5>. QED  BY <1>1, <2>18, <4>3, <5>2
      <4>. QED  BY <4>1, <4>2, <4>3
    <3>. QED  BY <3>1 DEF Unowned
  <2>19. ASSUME NEW b \in g.n + 1 .. g2.n, NEW p \in 1 .. g2.n, b \in g2.succ[p] PROVE NewEdge(g, g2, p, b)
    <3>1. ASSUME OldEdge(g, p, b) PROVE FALSE
      <4>1. p \in 1 .. g.n /\ b \in g.succ[p]
        BY <1>1, <3>1 DEF OldEdge
      <4>2. g.succ[p] \subseteq 1 .. g.n
        BY <4>1, CodeFacts
      <4>. QED  BY <1>1, <2>19, <4>1, <4>2
    <3>. QED  BY <2>19, <3>1 DEF NewEdge
  <2>20. \A b \in Names(f0) : b # h0 => b \in g.n + 1 .. g2.n
    <3>1. \A b \in Names(f0) : b # h0 => b >= First(f0) /\ b \in 1 .. n2
      BY <2>1, <2>3
    <3>. QED  BY <1>1, <2>3, <2>4, <2>5, <2>14, <3>1
  <2>21. FrameInv(g2, c2, f0)
    <3>1. Names(f0) \subseteq 1 .. g2.n
      BY <2>1, <2>14
    <3>2. \A b \in Await(f0) : c2[b] = <<>>
      <4>1. \A b \in Await(f0) : b \in g.n + 1 .. g2.n /\ b \notin D
        BY <2>1, <2>3, <2>20
      <4>2. \A b \in g.n + 1 .. g2.n : b \in 1 .. n2 /\ b > g.n
        BY <1>1, <2>14
      <4>. QED  BY <2>5, <4>1, <4>2
    <3>3. IsIf(f0) => Fresh(c2[f0.header])
      <4>1. IsIf(f0) => f0.header = bp /\ D = {}
        BY <1>h, <2>1, <2>4 DEF IsIf, Header
      <4>. QED  BY <2>5, <2>8, <4>1
    <3>4. ASSUME NEW b \in Entries(f0)
          PROVE  Unowned(g2, b) /\ \A p \in 1 .. g2.n : b \in g2.succ[p] => f0.kind = "switch" /\ p = f0.header
      <4>1. b \in g.n + 1 .. g2.n /\ b # m0 /\ b # c0 /\ b # h0
        BY <2>3, <2>20
      <4>2. ASSUME NEW p \in 1 .. g2.n, b \in g2.succ[p] PROVE f0.kind = "switch" /\ p = f0.header
        <5>1. ~IsIf(f0) /\ b \in SuccOf(c2[p]) /\ (p # h0 => b = h0)
          BY <2>16, <2>19, <4>1, <4>2
        <5>2. p = h0
          BY <4>1, <5>1
        <5>3. f0.kind # "loop"
          BY <2>1, <5>1, <5>2
        <5>4. f0.kind = "switch"
          BY <2>3, <5>1, <5>3 DEF IsIf
        <5>. QED  BY <1>h, <5>2, <5>4 DEF Header
      <4>. QED  BY <2>18, <4>1, <4>2
    <3>5. f0.kind = "switch" => Segments(f0) \subseteq g2.succ[f0.header]
      <4>1. f0.kind = "switch" => f0.header = h0 /\ g2.succ[h0] = SuccOf(c2[h0])
        BY <1>h, <2>4, <2>14 DEF Header
      <4>. QED  BY <2>1, <4>1
    <3>6. f0.kind = "and" => NoPredecessor(g2, f0.merge)
      <4>1. m0 \in g.n + 1 .. g2.n
        BY <2>6, <2>14
      <4>2. f0.kind = "and" => IsIf(f0)
        BY DEF IsIf
      <4>3. IsIf(f0) => \A p \in 1 .. g2.n : m0 \notin g2.succ[p]
        BY <2>16, <2>19, <4>1
      <4>. QED  BY <1>h, <4>2, <4>3 DEF NoPredecessor
    <3>7. f0.kind = "loop" => Unowned(g2, f0.head) /\ g2.tail[f0.head] = MaxBlocks
      <4>1. f0.kind = "loop" => f0.head = h0 /\ h0 \in g.n + 1 .. g2.n /\ h0 # m0 /\ h0 # c0 /\ h0 > g.n
        BY <1>1, <1>h, <2>1, <2>3, <2>4, <2>14, SMTT(40) DEF Header
      <4>. QED  BY <2>15, <2>18, <4>1
    <3>8. g2.mrg[Header(f0)] = f0.merge /\ g2.cnt[Header(f0)] = Cont(f0) /\ g2.region[Header(f0)] = Region(g2.n, f0)
      BY <1>h, <2>14, <2>15
    <3>. QED  BY <2>1, <3>1, <3>2, <3>3, <3>4, <3>5, <3>6, <3>7, <3>8 DEF FrameInv
  <2>. DEFINE m == Len(ns) + 1
  <2>22. m \in DOMAIN ns2 /\ ns2[m] = f0 /\ \A i \in DOMAIN ns : i \in DOMAIN ns2 /\ ns2[i] = ns[i]
    BY <1>1, <2>1
  <2>. HIDE DEF m
  <2>23. Covered(c2, ns2, bp2, bp)
    <3>1. CASE IsIf(f0)
      <4>1. f0.header = bp
        BY <1>h, <2>4, <3>1 DEF IsIf, Header
      <4>. QED  BY <2>22, <3>1, <4>1 DEF Covered
    <3>2. CASE ~IsIf(f0)
      BY <2>1, <3>2 DEF Covered
    <3>. QED  BY <3>1, <3>2
  <2>24. ASSUME NEW b \in g.n + 1 .. g2.n PROVE Covered(c2, ns2, bp2, b)
    <3>1. b \in D \cup Await(f0) \cup {bp2}
      BY <2>1, <2>14
    <3>2. CASE b \in D
      <4>1. ~IsIf(f0) /\ b \in {bp, h0}
        BY <2>1, <3>2
      <4>. QED  BY <2>1, <4>1 DEF Covered
    <3>3. CASE b \in Await(f0)
      BY <2>22, <3>3 DEF Covered
    <3>. QED  BY <3>1, <3>2, <3>3 DEF Covered
  <2>25. ASSUME ~IsIf(f0) PROVE MergeKnown(g2, c2, ns2, h0)
    <3>1. m0 # 0 /\ MergeOf(c2[h0]) = IF c0 = 0 THEN <<m0>> ELSE <<m0, c0>>
      BY <1>1, <2>1, <2>6, <2>25
    <3>. QED  BY <2>15, <3>1 DEF MergeKnown
  <2>26. ASSUME NEW b \in g.n + 1 .. g2.n PROVE MergeKnown(g2, c2, ns2, b) /\ PhiOf(c2[b]) = <<>>
    <3>1. CASE b \in D
      <4>1. ~IsIf(f0) /\ b = h0 /\ f0.kind = "loop"
        BY <1>1, <2>1, <3>1
      <4>. QED  BY <2>1, <2>25, <4>1
    <3>2. CASE b \notin D
      <4>1. c2[b] = <<>>
        BY <1>1, <2>5, <2>14, <3>2
      <4>2. b # h0
        <5>1. h0 > g.n => f0.kind = "loop" /\ ~IsIf(f0)
          BY <1>1, <2>1, <2>3 DEF IsIf
        <5>. QED  BY <1>1, <2>1, <3>2, <5>1
      <4>3. g2.mrg[b] = 0 /\ g2.cnt[b] = 0
        <5>1. g2.mrg[b] = 0
          BY <1>1, <2>15, <4>2
        <5>2. Constructs(g2) /\ b \in 1 .. g2.n
          BY <1>1, <2>13, GrewFacts
        <5>. QED  BY <5>1, <5>2 DEF Constructs
      <4>. QED  BY <4>1, <4>3, EmptyBlock DEF MergeKnown
    <3>. QED  BY <3>1, <3>2
  <2>27. ASSUME NEW b \in 1 .. g.n
         PROVE  PhiOf(c2[b]) = PhiOf(c[b]) /\ ((MergeOf(c2[b]) = MergeOf(c[b]) /\ b # h0) \/ MergeKnown(g2, c2, ns2, b))
    <3>1. CASE b # bp
      <4>1. b # h0
        BY <1>1, <2>4, <3>1
      <4>. QED  BY <2>1, <2>5, <3>1, <4>1
    <3>2. CASE b = bp /\ f0.kind = "loop"
      <4>1. MergeOf(c[bp]) = <<>>
        BY <2>8, FreshBlock
      <4>2. ~IsIf(f0) /\ b # h0
        BY <1>1, <2>1, <3>2 DEF IsIf
      <4>. QED  BY <2>1, <3>2, <4>1, <4>2
    <3>3. CASE b = bp /\ f0.kind # "loop" /\ ~IsIf(f0)
      BY <2>1, <2>25, <3>3
    <3>4. CASE b = bp /\ IsIf(f0)
      <4>1. c2[bp] = c[bp] /\ MergeOf(c[bp]) = <<>> /\ bp = h0
        BY <2>1, <2>4, <2>5, <2>8, <3>4, FreshBlock
      <4>2. bp = f0.header
        BY <1>h, <3>4, <4>1 DEF Header, IsIf
      <4>3. c0 = 0
        BY <2>4, <3>4 DEF IsIf
      <4>4. MergeKnown(g2, c2, ns2, bp)
        BY <2>15, <2>22, <3>4, <4>1, <4>2, <4>3 DEF MergeKnown
      <4>. QED  BY <3>4, <4>1, <4>4
    <3>. QED  BY <3>1, <3>2, <3>3, <3>4
  <2>28. ASSUME NEW j \in DOMAIN ns PROVE Calm(g, c, g2, c2, ns[j])
    <3>1. ASSUME NEW b \in 1 .. g.n, c2[b] # c[b] PROVE b = bp
      BY <1>1, <2>1, <2>4, <2>5, <3>1
    <3>2. \A p, b : NewEdge(g, g2, p, b) => b \in g.n + 1 .. g2.n
      BY <2>16
    <3>3. Untouched(g, c, ns, bp, g2, c2, j)
      BY <2>7, <3>1, <3>2 DEF Untouched
    <3>. QED  BY <2>13, <3>3, Calmed, Zenon
  <2>29. bp2 \in 1 .. g2.n /\ (bp2 = bp \/ bp2 > g.n) /\ (f0.kind = "and" => bp2 = f0.then)
         /\ IF f0.place = "head" THEN bp2 = f0.header /\ Terminated(c2[bp2]) ELSE Point(g2, f0, bp2) /\ Fresh(c2[bp2])
    <3>1. CASE f0.place = "head"
      <4>1. f0.kind = "switch" /\ bp2 = bp /\ ~IsIf(f0) /\ f0.header = h0 /\ h0 = bp
        BY <1>h, <2>1, <2>2, <3>1 DEF Header, IsIf
      <4>. QED  BY <1>1, <2>1, <2>14, <3>1, <4>1
    <3>2. CASE f0.place # "head"
      <4>1. bp2 \in R0 /\ bp2 \notin Await(f0) /\ c2[bp2] = <<>>
        BY <2>2, <3>2
      <4>2. bp2 \in g.n + 1 .. g2.n
        BY <2>6, <2>14, <4>1
      <4>3. bp2 \in 1 .. g2.n /\ bp2 > g.n
        BY <1>1, <4>2
      <4>4. Point(g2, f0, bp2)
        BY <1>h, <2>1, <2>14, <4>1 DEF Point
      <4>5. f0.kind = "and" => bp2 = f0.then
        BY <2>2 DEF IsIf
      <4>. QED  BY <3>2, <4>1, <4>3, <4>4, <4>5, EmptyBlock
    <3>. QED  BY <3>1, <3>2
  <2>30. BeginsFrame(g, c, ns, bp, g2, c2, f0, ns2, bp2)
    <3>1. IsIf(f0) => \A b \in Entries(f0) : Covered(c2, ns2, bp2, b)
      BY <2>3, <2>20, <2>24
    <3>2. \A p, b : NewEdge(g, g2, p, b) => Covered(c2, ns2, bp2, b) /\ b > g.n
      BY <1>1, <2>16, <2>24
    <3>3. First(f0) > g.n /\ (f0.kind = "loop" => f0.head > g.n)
      <4>1. f0.kind = "loop" => f0.head = h0 /\ h0 > g.n
        BY <1>1, <1>h, <2>1 DEF Header
      <4>. QED  BY <2>4, <4>1
    <3>4. h0 = Header(f0) /\ Header(f0) = h0
      BY <1>h
    <3>. QED  BY <2>1, <2>4, <2>15, <2>21, <2>23, <2>24, <2>26, <2>27, <2>28, <2>29, <3>1, <3>2, <3>3, <3>4 DEF BeginsFrame
  <2>. QED  BY <1>h, <2>13, <2>17, <2>30, Begun, Zenon
<1>. QED  BY <1>h

\* a statement, or an expression, comes after what the constructs around it began with
LEMMA AllExpression ==
    ASSUME NEW g, NEW c, NEW ns, NEW bp, Built(g, c, ns, bp), ns # <<>> => ns[Len(ns)].place \notin {"head", "empty"}
    PROVE  \A i \in DOMAIN ns : ns[i].place \notin {"head", "empty"}
<1>1. CASE ns = <<>>
  BY <1>1
<1>2. CASE ns # <<>>
  <2>1. ASSUME NEW f, f = ns[Len(ns)] PROVE \A i \in DOMAIN ns : i # Len(ns) => ns[i].place \notin {"head", "empty"}
    BY <1>2, <2>1, InnerFrame
  <2>. QED  BY <1>2, <2>1
<1>. QED  BY <1>1, <1>2

BeginsIf(c, ns, bp, c2, kind, f0, bp2) ==
    /\ \A i \in DOMAIN ns : ns[i].place \notin {"head", "empty"}
    /\ c2 \in Seq(Seq(Instruction)) /\ Len(c2) = Len(c) + 2 /\ Len(c) + 2 <= MaxBlocks
    /\ \A b \in 1 .. Len(c) + 2 : c2[b] = IF b <= Len(c) THEN c[b] ELSE <<>>
    /\ kind \in {"if", "and"} /\ bp2 = Len(c) + 1
    /\ f0 = [kind |-> kind, place |-> "then", header |-> bp, then |-> Len(c) + 1, else |-> 0, merge |-> Len(c) + 2]

\* an If begins, and the code stays built
LEMMA IfBegun ==
    ASSUME NEW g, NEW c, NEW ns, NEW bp, Built(g, c, ns, bp), NEW c2, NEW kind, NEW f0, NEW bp2, BeginsIf(c, ns, bp, c2, kind, f0, bp2),
           NEW ns2, ns2 = Append(ns, f0)
    PROVE  \E g2 : Built(g2, c2, ns2, bp2)
<1>h. ASSUME NEW n, n = Len(c) PROVE Begins(g, c, ns, bp, c2, {}, f0, bp2)
  <2>1. g.n = n /\ n \in Nat \ {0} /\ bp \in 1 .. n
    BY <1>h, CodeFacts
  <2>2. /\ kind \in {"if", "and"} /\ f0 = [kind |-> kind, place |-> "then", header |-> bp, then |-> n + 1, else |-> 0, merge |-> n + 2]
        /\ bp2 = n + 1
    BY <1>h DEF BeginsIf
  <2>3. /\ c2 \in Seq(Seq(Instruction)) /\ Len(c2) = n + 2 /\ n + 2 <= MaxBlocks
        /\ \A b \in 1 .. n + 2 : c2[b] = IF b <= n THEN c[b] ELSE <<>>
    BY <1>h DEF BeginsIf
  <2>4. f0.kind = kind /\ f0.place = "then" /\ f0.header = bp /\ f0.then = n + 1 /\ f0.else = 0 /\ f0.merge = n + 2
    BY <2>2
  <2>5. f0 \in IfFrame
    BY <2>1, <2>2 DEF IfFrame
  <2>6. IsIf(f0) /\ f0 \in Frame /\ Header(f0) = bp /\ f0.kind # "loop" /\ f0.kind # "switch" /\ f0.place # "head"
    BY <2>2, <2>4, <2>5 DEF IsIf, Frame, Header
  <2>7. FrameOK(f0)
    BY <2>1, <2>2, <2>4, <2>6 DEF FrameOK
  <2>8. /\ ~Terminal(f0) /\ First(f0) = n + 1 /\ Names(f0) = {bp, n + 2} \cup ({n + 1, 0} \ {0}) /\ Await(f0) = {n + 2}
    BY <2>2, <2>4, <2>7, IfFacts
  <2>9. CodeChanges(g, c, c2, {})
    BY <2>1, <2>3, SMTT(40) DEF CodeChanges
  <2>10. \A b \in g.n + 1 .. Len(c2) : b \in {} \cup Await(f0) \cup {bp2}
    <3>1. \A b \in g.n + 1 .. n + 2 : b = n + 1 \/ b = n + 2
      BY <2>1
    <3>2. Len(c2) = n + 2 /\ bp2 = n + 1
      BY <2>2, <2>3
    <3>. QED  BY <2>8, <3>1, <3>2
  <2>11. bp2 \in Region(Len(c2), f0) \ Await(f0) /\ c2[bp2] = <<>>
    <3>1. Region(Len(c2), f0) = (n + 1 .. n + 2) \ {n + 2}
      BY <2>3, <2>4, <2>8 DEF Region
    <3>2. n + 1 # n + 2 /\ n + 1 \in n + 1 .. n + 2 /\ n + 1 \in 1 .. n + 2 /\ ~(n + 1 <= n)
      BY <2>1
    <3>3. bp2 = n + 1
      BY <2>2
    <3>4. c2[n + 1] = <<>>
      BY <2>3, <3>2
    <3>. QED  BY <2>8, <3>1, <3>2, <3>3, <3>4
  <2>12. Names(f0) \subseteq 1 .. Len(c2)
    BY <2>1, <2>3, <2>8, SMTT(40)
  <2>13. \A i \in DOMAIN ns : ns[i].place \notin {"head", "empty"} /\ (ns[i].place \in {"test", "terminal"} \/ ns[i].kind = "and" => IsIf(f0))
    BY <2>6 DEF BeginsIf
  <2>. QED  BY <2>1, <2>2, <2>4, <2>6, <2>7, <2>8, <2>9, <2>10, <2>11, <2>12, <2>13 DEF Begins
<1>. QED  BY <1>h, Began, Zenon

BeginsSwitch(c, ns, bp, c2, k, lastEmpty, f0) ==
    /\ \A i \in DOMAIN ns : ns[i].kind # "and" /\ ns[i].place \notin {"head", "empty", "test", "terminal"}
    /\ k \in Nat /\ lastEmpty \in BOOLEAN
    /\ c2 \in Seq(Seq(Instruction)) /\ Len(c2) = Len(c) + k + 1 /\ Len(c) + k + 1 <= MaxBlocks
    /\ \A b \in 1 .. Len(c) + k + 1 : b # bp => c2[b] = IF b <= Len(c) THEN c[b] ELSE <<>>
    /\ WellFormed(c2[bp]) /\ Terminated(c2[bp]) /\ PhiOf(c2[bp]) = PhiOf(c[bp]) /\ MergeOf(c2[bp]) = <<Len(c) + k + 1>>
    /\ SuccOf(c2[bp]) \subseteq Len(c) + 1 .. Len(c) + k + 1 /\ Len(c) + 1 .. Len(c) + k \subseteq SuccOf(c2[bp])
    /\ f0 = [kind |-> "switch", place |-> "head", header |-> bp, first |-> Len(c) + 1,
             count |-> k, next |-> 1, lastEmpty |-> lastEmpty, merge |-> Len(c) + k + 1]

\* makeSwitch keeps the code built
LEMMA SwitchBegun ==
    ASSUME NEW g, NEW c, NEW ns, NEW bp, Built(g, c, ns, bp), NEW c2, NEW k, NEW lastEmpty, NEW f0,
           BeginsSwitch(c, ns, bp, c2, k, lastEmpty, f0), NEW ns2, ns2 = Append(ns, f0)
    PROVE  \E g2 : Built(g2, c2, ns2, bp)
<1>h. ASSUME NEW n, n = Len(c) PROVE Begins(g, c, ns, bp, c2, {bp}, f0, bp)
  <2>1. g.n = n /\ n \in Nat \ {0} /\ bp \in 1 .. n
    BY <1>h, CodeFacts
  <2>2. f0 = [kind |-> "switch", place |-> "head", header |-> bp, first |-> n + 1,
              count |-> k, next |-> 1, lastEmpty |-> lastEmpty, merge |-> n + k + 1] /\ k \in Nat /\ lastEmpty \in BOOLEAN
    BY <1>h DEF BeginsSwitch
  <2>3. /\ c2 \in Seq(Seq(Instruction)) /\ Len(c2) = n + k + 1 /\ n + k + 1 <= MaxBlocks
        /\ \A b \in 1 .. n + k + 1 : b # bp => c2[b] = IF b <= n THEN c[b] ELSE <<>>
    BY <1>h DEF BeginsSwitch
  <2>4. /\ WellFormed(c2[bp]) /\ Terminated(c2[bp]) /\ PhiOf(c2[bp]) = PhiOf(c[bp]) /\ MergeOf(c2[bp]) = <<n + k + 1>>
        /\ SuccOf(c2[bp]) \subseteq n + 1 .. n + k + 1 /\ n + 1 .. n + k \subseteq SuccOf(c2[bp])
    BY <1>h DEF BeginsSwitch
  <2>5. \A i \in DOMAIN ns : ns[i].kind # "and" /\ ns[i].place \notin {"head", "empty", "test", "terminal"}
    BY DEF BeginsSwitch
  <2>6. /\ f0.kind = "switch" /\ f0.place = "head" /\ f0.header = bp /\ f0.first = n + 1 /\ f0.count = k /\ f0.next = 1
        /\ f0.lastEmpty = lastEmpty /\ f0.merge = n + k + 1
    BY <2>2
  <2>7. f0 \in SwitchFrame
    BY <2>1, <2>2 DEF SwitchFrame
  <2>8. ~IsIf(f0) /\ f0 \in Frame /\ Header(f0) = bp /\ f0.kind # "loop"
    BY <2>6, <2>7 DEF IsIf, Frame, Header
  <2>9. FrameOK(f0)
    BY <2>1, <2>2, <2>6, <2>8 DEF FrameOK
  <2>10. /\ ~Terminal(f0) /\ First(f0) = n + 1 /\ Cont(f0) = 0 /\ Names(f0) = {bp, n + k + 1} \cup ((n + 1) .. (n + 1 + k - 1))
         /\ Await(f0) = {n + k + 1} \cup Segments(f0) /\ Segments(f0) = (n + 1 + 1 - 1) .. (n + 1 + k - 1)
    BY <2>6, <2>9, SwitchFacts DEF Segments
  <2>11. Segments(f0) = n + 1 .. n + k /\ (n + 1) .. (n + 1 + k - 1) = n + 1 .. n + k
    BY <2>1, <2>2, <2>10
  <2>12. Fresh(c[bp])
    <3>1. \A i \in DOMAIN ns : ns[i].place # "head"
      BY <2>5
    <3>. QED  BY <3>1, BuildPlace
  <2>13. CodeChanges(g, c, c2, {bp})
    <3>1. SuccOf(c2[bp]) \subseteq 1 .. Len(c2)
      BY <2>1, <2>2, <2>3, <2>4
    <3>. QED  BY <2>1, <2>2, <2>3, <2>4, <2>12, <3>1, SMTT(40) DEF CodeChanges
  <2>14. \A b \in g.n + 1 .. Len(c2) : b \in {bp} \cup Await(f0) \cup {bp}
    <3>1. \A b \in g.n + 1 .. n + k + 1 : b \in n + 1 .. n + k \/ b = n + k + 1
      BY <2>1, <2>2
    <3>2. Len(c2) = n + k + 1
      BY <2>3
    <3>. QED  BY <2>10, <2>11, <3>1, <3>2
  <2>15. Names(f0) \subseteq 1 .. Len(c2) /\ {bp} \cap Await(f0) = {}
    <3>1. n + 1 .. n + k \subseteq 1 .. n + k + 1 /\ n + k + 1 \in 1 .. n + k + 1 /\ bp \in 1 .. n + k + 1
          /\ bp \notin n + 1 .. n + k /\ bp # n + k + 1
      BY <2>1, <2>2
    <3>2. Len(c2) = n + k + 1
      BY <2>3
    <3>3. Names(f0) = {bp, n + k + 1} \cup (n + 1 .. n + k) /\ Await(f0) = {n + k + 1} \cup (n + 1 .. n + k)
      BY <2>10, <2>11
    <3>. QED  BY <3>1, <3>2, <3>3
  <2>16. SuccOf(c2[bp]) \subseteq (First(f0) .. Len(c2)) \ {0}
    BY <2>1, <2>2, <2>3, <2>4, <2>10
  <2>17. \A i \in DOMAIN ns : ns[i].place \notin {"head", "empty"} /\ (ns[i].place \in {"test", "terminal"} \/ ns[i].kind = "and" => IsIf(f0))
    BY <2>5
  <2>18. {bp} = {bp, Header(f0)}
    BY <2>8
  <2>19. CodeChanges(g, c, c2, {bp, Header(f0)}) /\ {bp, Header(f0)} \cap Await(f0) = {}
    BY <2>13, <2>15, <2>18
  <2>20. Segments(f0) \subseteq SuccOf(c2[Header(f0)])
    BY <2>4, <2>8, <2>11
  <2>21. \A b \in g.n + 1 .. Len(c2) : b \in {bp, Header(f0)} \cup Await(f0) \cup {bp}
    BY <2>14, <2>18
  <2>22. Begins(g, c, ns, bp, c2, {bp, Header(f0)}, f0, bp)
    BY <2>1, <2>4, <2>6, <2>8, <2>9, <2>10, <2>15, <2>16, <2>17, <2>19, <2>20, <2>21 DEF Begins
  <2>. QED  BY <2>18, <2>22
<1>. QED  BY <1>h, Began, Zenon

BeginsLoop(c, ns, bp, c2, place, f0, next) ==
    /\ \A i \in DOMAIN ns : ns[i].kind # "and" /\ ns[i].place \notin {"head", "empty", "test", "terminal"}
    /\ place \in {"test", "body"} /\ c2 \in Seq(Seq(Instruction)) /\ Len(c2) <= MaxBlocks
    /\ place = "test" => Len(c2) = Len(c) + 5 /\ next = Len(c) + 5
    /\ place = "body" => Len(c2) = Len(c) + 4 /\ next = Len(c) + 2
    /\ \A b \in 1 .. Len(c2) : b \notin {bp, Len(c) + 1} => c2[b] = IF b <= Len(c) THEN c[b] ELSE <<>>
    /\ EndsBy(c, c2, bp, {Len(c) + 1})
    /\ WellFormed(c2[Len(c) + 1]) /\ Terminated(c2[Len(c) + 1]) /\ PhiOf(c2[Len(c) + 1]) = <<>>
    /\ MergeOf(c2[Len(c) + 1]) = <<Len(c) + 3, Len(c) + 4>> /\ SuccOf(c2[Len(c) + 1]) = {next}
    /\ f0 = [kind |-> "loop", place |-> place, head |-> Len(c) + 1, body |-> Len(c) + 2, merge |-> Len(c) + 3,
             continue_target |-> Len(c) + 4, testFirst |-> place = "test"]

\* the header of a loop keeps the code built
LEMMA LoopBegun ==
    ASSUME NEW g, NEW c, NEW ns, NEW bp, Built(g, c, ns, bp), NEW c2, NEW place, NEW f0, NEW next, NEW ns2, ns2 = Append(ns, f0),
           BeginsLoop(c, ns, bp, c2, place, f0, next)
    PROVE  \E g2 : Built(g2, c2, ns2, next)
<1>h. ASSUME NEW n, n = Len(c), NEW D, D = {bp, n + 1} PROVE Begins(g, c, ns, bp, c2, D, f0, next)
  <2>1. g.n = n /\ n \in Nat \ {0} /\ bp \in 1 .. n
    BY <1>h, CodeFacts
  <2>2. place \in {"test", "body"} /\ f0 = [kind |-> "loop", place |-> place, head |-> n + 1, body |-> n + 2, merge |-> n + 3,
                                            continue_target |-> n + 4, testFirst |-> place = "test"]
    BY <1>h DEF BeginsLoop
  <2>3. /\ f0.kind = "loop" /\ f0.place = place /\ f0.head = n + 1 /\ f0.body = n + 2 /\ f0.merge = n + 3
        /\ f0.continue_target = n + 4 /\ f0.testFirst = (place = "test")
    BY <2>2
  <2>4. f0 \in LoopFrame
    <3>1. (place = "test") \in BOOLEAN
      OBVIOUS
    <3>2. place \in {"test", "body", "terminal"} /\ n + 1 \in Nat /\ n + 2 \in Nat /\ n + 3 \in Nat /\ n + 4 \in Nat
      BY <2>1, <2>2
    <3>. DEFINE tf == place = "test"
    <3>3. tf \in BOOLEAN
      OBVIOUS
    <3>4. f0 = [kind |-> "loop", place |-> place, head |-> n + 1, body |-> n + 2, merge |-> n + 3,
                continue_target |-> n + 4, testFirst |-> tf]
      BY <2>2
    <3>. HIDE DEF tf
    <3>. QED  BY <3>2, <3>3, <3>4 DEF LoopFrame
  <2>5. ~IsIf(f0) /\ f0 \in Frame /\ Header(f0) = n + 1 /\ f0.kind # "switch" /\ f0.place # "head"
    BY <2>2, <2>3, <2>4 DEF IsIf, Frame, Header
  <2>6. FrameOK(f0)
    <3>1. n + 1 # 0 /\ n + 2 = n + 1 + 1 /\ n + 3 = n + 1 + 2 /\ n + 4 = n + 1 + 3
      BY <2>1
    <3>. QED  BY <2>3, <2>5, <3>1 DEF FrameOK
  <2>7. /\ First(f0) = n + 2 /\ Cont(f0) = n + 4 /\ Names(f0) = {n + 1, n + 3, n + 2, n + 4}
        /\ place = "test" => Await(f0) = {n + 3, n + 2, n + 4} /\ Entries(f0) = {n + 2}
        /\ place = "body" => Await(f0) = {n + 3, n + 4} /\ Entries(f0) = {}
        /\ ~Terminal(f0)
    <3>1. /\ First(f0) = f0.body /\ Cont(f0) = f0.continue_target /\ Names(f0) = {f0.head, f0.merge, f0.body, f0.continue_target}
          /\ f0.place = "test" => Await(f0) = {f0.merge, f0.body, f0.continue_target} /\ Entries(f0) = {f0.body}
          /\ f0.place = "body" => Await(f0) = {f0.merge, f0.continue_target} /\ Entries(f0) = {}
          /\ Terminal(f0) <=> f0.place = "terminal"
      BY <2>3, <2>6, LoopFacts
    <3>. QED  BY <2>2, <2>3, <3>1
  <2>8. /\ place = "test" => Len(c2) = n + 5 /\ next = n + 5
        /\ place = "body" => Len(c2) = n + 4 /\ next = n + 2
        /\ c2 \in Seq(Seq(Instruction)) /\ Len(c2) <= MaxBlocks
    BY <1>h DEF BeginsLoop
  <2>9. Len(c2) \in Nat /\ n + 4 <= Len(c2) /\ next \in n + 2 .. Len(c2) /\ next \notin {n + 3, n + 4}
        /\ \A b \in n + 1 .. Len(c2) : b \in {n + 1, n + 2, n + 3, n + 4, next}
    <3>1. CASE place = "test"
      BY <2>1, <2>8, <3>1
    <3>2. CASE place = "body"
      BY <2>1, <2>8, <3>2
    <3>. QED  BY <2>2, <3>1, <3>2
  <2>10. next \notin Await(f0) \cup Entries(f0)
    <3>1. CASE place = "test"
      <4>1. n + 5 \notin {n + 2, n + 3, n + 4}
        BY <2>1
      <4>2. Await(f0) = {n + 3, n + 2, n + 4} /\ Entries(f0) = {n + 2} /\ next = n + 5
        BY <2>7, <2>8, <3>1
      <4>. QED  BY <4>1, <4>2
    <3>2. CASE place = "body"
      <4>1. n + 2 \notin {n + 3, n + 4}
        BY <2>1
      <4>2. Await(f0) = {n + 3, n + 4} /\ Entries(f0) = {} /\ next = n + 2
        BY <2>7, <2>8, <3>2
      <4>. QED  BY <4>1, <4>2
    <3>. QED  BY <2>2, <3>1, <3>2
  <2>11. /\ \A b \in 1 .. Len(c2) : b \notin D => c2[b] = IF b <= n THEN c[b] ELSE <<>>
         /\ WellFormed(c2[n + 1]) /\ Terminated(c2[n + 1]) /\ PhiOf(c2[n + 1]) = <<>>
         /\ MergeOf(c2[n + 1]) = <<n + 3, n + 4>> /\ SuccOf(c2[n + 1]) = {next}
    BY <1>h DEF BeginsLoop
  <2>12. WellFormed(c2[bp]) /\ Terminated(c2[bp]) /\ MergeOf(c2[bp]) = <<>> /\ SuccOf(c2[bp]) = {n + 1} /\ PhiOf(c2[bp]) = PhiOf(c[bp])
    BY <1>h DEF BeginsLoop, EndsBy
  <2>13. \A i \in DOMAIN ns : ns[i].kind # "and" /\ ns[i].place \notin {"head", "empty", "test", "terminal"}
    BY DEF BeginsLoop
  <2>14. Fresh(c[bp])
    <3>1. \A i \in DOMAIN ns : ns[i].place # "head"
      BY <2>13
    <3>. QED  BY <3>1, BuildPlace
  <2>15. CodeChanges(g, c, c2, D)
    <3>1. \A b \in D : SuccOf(c2[b]) \subseteq 1 .. Len(c2)
      BY <1>h, <2>1, <2>9, <2>11, <2>12
    <3>2. \A b \in D : WellFormed(c2[b]) /\ (b \in 1 .. g.n => Fresh(c[b]))
      BY <1>h, <2>1, <2>11, <2>12, <2>14
    <3>3. \A b \in 1 .. g.n : b \in 1 .. Len(c2) /\ b <= n
      BY <2>1, <2>9
    <3>4. g.n <= Len(c2) /\ \A b \in 1 .. Len(c2) : b > g.n => ~(b <= n)
      BY <2>1, <2>9
    <3>. QED  BY <2>8, <2>11, <3>1, <3>2, <3>3, <3>4 DEF CodeChanges
  <2>16. \A b \in g.n + 1 .. Len(c2) : b \in D \cup Await(f0) \cup {next}
    <3>1. n + 2 \in Await(f0) \cup {next} /\ n + 3 \in Await(f0) /\ n + 4 \in Await(f0)
      BY <2>2, <2>7, <2>8
    <3>. QED  BY <1>h, <2>1, <2>9, <3>1
  <2>17. Names(f0) \subseteq 1 .. Len(c2) /\ D \cap Await(f0) = {}
    <3>1. Names(f0) \subseteq 1 .. Len(c2)
      BY <2>1, <2>7, <2>9
    <3>2. Await(f0) \subseteq {n + 2, n + 3, n + 4}
      BY <2>2, <2>7
    <3>. QED  BY <1>h, <2>1, <3>1, <3>2
  <2>18. SuccOf(c2[n + 1]) \subseteq (First(f0) .. Len(c2)) \ {Cont(f0)} /\ SuccOf(c2[n + 1]) \cap Entries(f0) = {}
    BY <2>7, <2>9, <2>10, <2>11
  <2>19. \A i \in DOMAIN ns : ns[i].place \notin {"head", "empty"} /\ (ns[i].place \in {"test", "terminal"} \/ ns[i].kind = "and" => IsIf(f0))
    BY <2>13
  <2>20. next \in Region(Len(c2), f0) \ Await(f0) /\ c2[next] = <<>>
    <3>1. Region(Len(c2), f0) = (n + 2 .. Len(c2)) \ {n + 3}
      BY <2>3, <2>7 DEF Region
    <3>2. next \notin D /\ next \in 1 .. Len(c2) /\ ~(next <= n)
      BY <1>h, <2>1, <2>9
    <3>. QED  BY <2>9, <2>10, <2>11, <3>1, <3>2
  <2>21. Header(f0) = g.n + 1 /\ Cont(f0) # 0 /\ D = {bp, Header(f0)}
    BY <1>h, <2>1, <2>5, <2>7
  <2>22. MergeOf(c2[Header(f0)]) = <<f0.merge, Cont(f0)>> /\ Terminated(c2[Header(f0)]) /\ PhiOf(c2[Header(f0)]) = <<>>
         /\ SuccOf(c2[Header(f0)]) \subseteq (First(f0) .. Len(c2)) \ {Cont(f0)} /\ SuccOf(c2[Header(f0)]) \cap Entries(f0) = {}
         /\ SuccOf(c2[bp]) = {Header(f0)}
    BY <2>3, <2>5, <2>7, <2>11, <2>12, <2>18
  <2>. QED  BY <2>3, <2>5, <2>6, <2>7, <2>12, <2>15, <2>16, <2>17, <2>19, <2>20, <2>21, <2>22 DEF Begins
<1>1. Begins(g, c, ns, bp, c2, {bp, Len(c) + 1}, f0, next)
  BY <1>h
<1>. QED  BY <1>1, Began, Zenon

\* the function ends
LEMMA FunctionFinished ==
    ASSUME NEW g, NEW c, NEW ns, NEW bp, ns = <<>>, Built(g, c, ns, bp), NEW c2, EndsHere(c, bp, c2, {}), Len(c2) = Len(c)
    PROVE  \E g2 : Finished(g2, c2)
<1>1. g.n = Len(c) /\ g.n \in Nat \ {0} /\ bp \in 1 .. g.n
  BY CodeFacts
<1>2. /\ Fresh(c[bp]) /\ g.mrg[bp] = 0 /\ g.succ[bp] = {} /\ MergeOf(c[bp]) = <<>>
  <2>1. \A i \in DOMAIN ns : ns[i].place # "head"
    OBVIOUS
  <2>2. Fresh(c[bp]) /\ g.mrg[bp] = 0 /\ g.succ[bp] = {} /\ WellFormed(c[bp])
    BY <2>1, BuildPlace
  <2>. QED  BY <2>2, FreshBlock
<1>3. /\ \A b \in 1 .. g.n : b # bp => c2[b] = c[b]
      /\ WellFormed(c2[bp]) /\ Terminated(c2[bp]) /\ SuccOf(c2[bp]) = {} /\ MergeOf(c2[bp]) = <<>> /\ PhiOf(c2[bp]) = PhiOf(c[bp])
      /\ c2 \in Seq(Seq(Instruction))
  BY <1>1 DEF EndsHere, EndsBy
<1>4. Structured(g) /\ Matches(g, c, ns) /\ LiveInv(g, c, ns, bp) /\ PhiInv(g, c)
  BY DEF Built
<1>5. Matches(g, c2, <<>>)
  <2>1. ASSUME NEW b \in 1 .. g.n
        PROVE  /\ WellFormed(c2[b]) /\ g.succ[b] = SuccOf(c2[b])
               /\ IF MergeOf(c2[b]) = <<>> THEN g.cnt[b] = 0 /\ g.mrg[b] = 0
                  ELSE g.mrg[b] # 0 /\ MergeOf(c2[b]) = IF g.cnt[b] = 0 THEN <<g.mrg[b]>> ELSE <<g.mrg[b], g.cnt[b]>>
    <3>1. /\ WellFormed(c[b]) /\ g.succ[b] = SuccOf(c[b])
          /\ IF MergeOf(c[b]) = <<>>
             THEN g.cnt[b] = 0 /\ (g.mrg[b] = 0 \/ \E i \in DOMAIN ns : IsIf(ns[i]) /\ ns[i].header = b)
             ELSE g.mrg[b] # 0 /\ MergeOf(c[b]) = IF g.cnt[b] = 0 THEN <<g.mrg[b]>> ELSE <<g.mrg[b], g.cnt[b]>>
      BY <1>4 DEF Matches
    <3>2. DOMAIN ns = {}
      OBVIOUS
    <3>3. CASE b # bp
      BY <1>3, <3>1, <3>2, <3>3
    <3>4. CASE b = bp
      BY <1>2, <1>3, <3>1, <3>2, <3>4
    <3>. QED  BY <3>3, <3>4
  <2>2. g.n = Len(c2)
    BY <1>1
  <2>. QED  BY <1>3, <2>1, <2>2 DEF Matches
<1>6. ASSUME NEW b \in 1 .. g.n PROVE Terminated(c2[b]) \/ Dead(g, b)
  <2>1. Covered(c, ns, bp, b) \/ Dead(g, b)
    BY <1>4 DEF LiveInv
  <2>2. Covered(c, ns, bp, b) => Terminated(c[b]) \/ b = bp
    BY DEF Covered
  <2>. QED  BY <1>3, <2>1, <2>2
<1>7. PhiInv(g, c2)
  <2>1. ASSUME NEW b \in 1 .. g.n, PhiOf(c2[b]) # <<>> PROVE Joins(g, c2, b, PhiOf(c2[b]))
    <3>1. PhiOf(c2[b]) = PhiOf(c[b])
      BY <1>3
    <3>2. Joins(g, c, b, PhiOf(c2[b]))
      BY <1>4, <2>1, <3>1 DEF PhiInv
    <3>3. ASSUME NEW t, Joins(g, c, b, t) PROVE Joins(g, c2, b, t)
      <4>1. /\ Len(t) = 2 /\ t[1] \in 1 .. g.n /\ t[2] \in 1 .. g.n
            /\ \A p \in 1 .. g.n : b \in g.succ[p] <=> p \in {t[1], t[2]}
            /\ MergeOf(c[t[1]]) = <<b>> /\ Flow(g, t[1], t[2])
        BY <3>3 DEF Joins
      <4>2. t[1] # bp
        BY <1>2, <4>1
      <4>3. MergeOf(c2[t[1]]) = <<b>>
        BY <1>3, <4>1, <4>2
      <4>. QED  BY <4>1, <4>3 DEF Joins
    <3>. QED  BY <3>2, <3>3
  <2>. QED  BY <2>1 DEF PhiInv
<1>. QED  BY <1>4, <1>5, <1>6, <1>7 DEF Finished
-----------------------------------------------------------------------------
\* The graph of the code, through the steps of the builder

BuildInv ==
    /\ phase = "build" => \E g : Built(g, code, nest, buildPoint)
    /\ phase # "build" => nest = <<>> /\ \E g : Finished(g, code)

\* c1 is the code with k blocks more
WithNew(c1, k) ==
    /\ c1 \in Seq(Seq(Instruction)) /\ Len(c1) = Len(code) + k /\ Len(c1) <= MaxBlocks
    /\ \A b \in 1 .. Len(c1) : c1[b] = IF b <= Len(code) THEN code[b] ELSE <<>>

\* makeNewBlock, k times
LEMMA MakesNew ==
    ASSUME code \in Seq(Seq(Instruction))
    PROVE  /\ \A k \in Nat : Len(code) + k <= MaxBlocks => WithNew(Made(k), k)
           /\ Len(code) <= MaxBlocks => WithNew(code, 0)
<1>1. Len(code) \in Nat
  OBVIOUS
<1>2. ASSUME NEW k \in Nat, Len(code) + k <= MaxBlocks PROVE WithNew(Made(k), k)
  BY <1>1, <1>2, MadeFacts DEF WithNew
<1>3. ASSUME Len(code) <= MaxBlocks PROVE WithNew(code, 0)
  BY <1>1, <1>3 DEF WithNew
<1>. QED  BY <1>2, <1>3

\* a branch or an end at the build point
LEMMA PutHere ==
    ASSUME NEW g, Built(g, code, nest, buildPoint), \A i \in DOMAIN nest : nest[i].place # "head",
           NEW c1, NEW k \in Nat, WithNew(c1, k), NEW op \in Ends, NEW t \in Seq(Nat), op = "Return" => t = <<>>
    PROVE  LET c2 == Put(c1, buildPoint, <<Instr(op, t)>>) IN
           /\ c2 \in Seq(Seq(Instruction)) /\ Len(c2) = Len(code) + k
           /\ EndsHere(code, buildPoint, c2, IF op \in Branches THEN ToSet(t) ELSE {})
<1>. DEFINE is == <<Instr(op, t)>>
            c2 == Put(c1, buildPoint, is)
            T  == IF op \in Branches THEN ToSet(t) ELSE {}
<1>1. Len(code) \in Nat /\ buildPoint \in 1 .. Len(code) /\ WellFormed(code[buildPoint]) /\ code \in Seq(Seq(Instruction))
  BY CodeFacts
<1>2. Fresh(code[buildPoint])
  BY DEF Built, At
<1>3. c1 \in Seq(Seq(Instruction)) /\ Len(c1) = Len(code) + k /\ Len(c1) <= MaxBlocks
      /\ \A b \in 1 .. Len(c1) : c1[b] = IF b <= Len(code) THEN code[b] ELSE <<>>
  BY DEF WithNew
<1>4. is \in Seq(Instruction)
  BY InstrSeq, Ops
<1>5. buildPoint \in 1 .. Len(c1)
  BY <1>1, <1>3
<1>6. c2 \in Seq(Seq(Instruction)) /\ Len(c2) = Len(c1) /\ \A d \in 1 .. Len(c1) : c2[d] = IF d = buildPoint THEN c1[d] \o is ELSE c1[d]
  <2>. HIDE DEF is
  <2>. QED  BY <1>3, <1>4, <1>5, PutFacts
<1>7. /\ \A b \in 1 .. Len(code) : b \in 1 .. Len(c1) /\ c1[b] = code[b]
      /\ \A b \in 1 .. Len(c1) : b > Len(code) => c1[b] = <<>> /\ b # buildPoint
      /\ Len(code) <= Len(c1)
  <2>1. \A b \in 1 .. Len(c1) : (b <= Len(code) => c1[b] = code[b]) /\ (~(b <= Len(code)) => c1[b] = <<>>)
    BY <1>3, Zenon
  <2>2. \A b \in 1 .. Len(code) : b \in 1 .. Len(c1) /\ b <= Len(code)
    BY <1>1, <1>3
  <2>3. \A b \in 1 .. Len(c1) : b > Len(code) => ~(b <= Len(code)) /\ b # buildPoint
    BY <1>1, <1>3
  <2>4. Len(code) <= Len(c1)
    BY <1>1, <1>3
  <2>. QED  BY <2>1, <2>2, <2>3, <2>4, Zenon
<1>. HIDE DEF c2, is, T
<1>8. c2[buildPoint] = code[buildPoint] \o is
  BY <1>1, <1>6, <1>7, Zenon
<1>9. EndsBy(code, c2, buildPoint, T)
  <2>1. LET is2 == code[buildPoint] \o <<Instr(op, t)>> IN
           /\ WellFormed(is2) /\ Terminated(is2) /\ MergeOf(is2) = <<>> /\ PhiOf(is2) = PhiOf(code[buildPoint])
           /\ SuccOf(is2) = IF op \in Branches THEN ToSet(t) ELSE {}
    BY <1>1, <1>2, PutEnd
  <2>. QED  BY <1>8, <2>1, Zenon DEF EndsBy, is, T
<1>10. \A b \in 1 .. Len(code) : b # buildPoint => c2[b] = code[b]
  BY <1>6, <1>7, Zenon
<1>11. \A b \in 1 .. Len(c2) : b > Len(code) => c2[b] = <<>>
  BY <1>6, <1>7, Zenon
<1>12. EndsHere(code, buildPoint, c2, T)
  BY <1>3, <1>6, <1>7, <1>9, <1>10, <1>11, Zenon DEF EndsHere
<1>. QED  BY <1>3, <1>6, <1>12, Zenon DEF c2, is, T

\* what is true of the whole state while the function is built
Building(g) ==
    /\ Built(g, code, nest, buildPoint) /\ code \in Seq(Seq(Instruction)) /\ Len(code) \in Nat /\ Len(code) <= MaxBlocks
    /\ buildPoint \in 1 .. Len(code) /\ nest \in Seq(Frame) /\ WellFormed(code[buildPoint])
    /\ (\A i \in DOMAIN nest : nest[i].place # "head") => Fresh(code[buildPoint]) /\ ~isTerminated(buildPoint)
    /\ nest # <<>> => /\ top = nest[Len(nest)] /\ Len(nest) \in DOMAIN nest
                      /\ top.place # "head" => \A i \in DOMAIN nest : nest[i].place # "head"
                      /\ top.place = "head" => isTerminated(buildPoint) /\ buildPoint = top.header

LEMMA BuildingFacts ==
    ASSUME BuildInv, phase = "build"
    PROVE  \E g : Building(g)
<1>1. PICK g : Built(g, code, nest, buildPoint)
  BY DEF BuildInv
<1>2. code \in Seq(Seq(Instruction)) /\ Len(code) \in Nat /\ Len(code) <= MaxBlocks /\ buildPoint \in 1 .. Len(code) /\ nest \in Seq(Frame)
      /\ WellFormed(code[buildPoint])
  BY <1>1, CodeFacts
<1>3. isTerminated(buildPoint) <=> Terminated(code[buildPoint])
  BY DEF isTerminated, Terminated, Last
<1>4. ASSUME \A i \in DOMAIN nest : nest[i].place # "head" PROVE Fresh(code[buildPoint]) /\ ~isTerminated(buildPoint)
  <2>1. Fresh(code[buildPoint])
    BY <1>1, <1>4 DEF Built, At
  <2>. QED  BY <1>2, <1>3, <2>1, FreshBlock
<1>5. ASSUME nest # <<>>
      PROVE  /\ top = nest[Len(nest)] /\ Len(nest) \in DOMAIN nest
             /\ top.place # "head" => \A i \in DOMAIN nest : nest[i].place # "head"
             /\ top.place = "head" => isTerminated(buildPoint) /\ buildPoint = top.header
  <2>1. top = nest[Len(nest)] /\ Len(nest) \in DOMAIN nest
    BY <1>2, <1>5 DEF top, Last
  <2>2. \A i \in DOMAIN nest : nest[i].place = "head" => i = Len(nest) /\ buildPoint = nest[i].header /\ Terminated(code[buildPoint])
    BY <1>1 DEF Built, At
  <2>. QED  BY <1>3, <2>1, <2>2
<1>. QED  BY <1>1, <1>2, <1>4, <1>5 DEF Building

\* the entry block alone is a built graph
LEMMA BuildInit == Init => BuildInv
<1>. SUFFICES ASSUME Init PROVE BuildInv
  OBVIOUS
<1>1. code = << <<>> >> /\ buildPoint = 1 /\ nest = <<>> /\ phase = "build"
  BY DEF Init
<1>. DEFINE g == [n |-> 1, succ |-> [b \in {1} |-> {}], mrg |-> [b \in {1} |-> 0], cnt |-> [b \in {1} |-> 0],
                  region |-> [b \in {1} |-> {}], tail |-> [b \in {1} |-> MaxBlocks]]
<1>2. /\ g.n = 1 /\ g.succ = [b \in {1} |-> {}] /\ g.mrg = [b \in {1} |-> 0] /\ g.cnt = [b \in {1} |-> 0]
      /\ g.region = [b \in {1} |-> {}] /\ g.tail = [b \in {1} |-> MaxBlocks]
  OBVIOUS
<1>. HIDE DEF g
<1>3. g.n = 1 /\ 1 .. g.n = {1} /\ (\A h \in 1 .. g.n : h = 1)
  BY <1>2
<1>4. g.succ[1] = {} /\ g.mrg[1] = 0 /\ g.cnt[1] = 0 /\ g.region[1] = {} /\ g.tail[1] = MaxBlocks
  BY <1>2
<1>5. Structured(g)
  <2>1. Typed(g)
    BY <1>2, <1>3, StructuredFlowAssumption DEF Typed
  <2>2. Constructs(g) /\ OneOwner(g) /\ OwnersInside(g) /\ Edges(g)
    BY <1>3, <1>4 DEF Constructs, OneOwner, OwnersInside, Edges
  <2>3. Forward(g)
    BY <1>3, <1>4 DEF Forward, ForwardFrom
  <2>. QED  BY <2>1, <2>2, <2>3 DEF Structured
<1>6. code \in Seq(Seq(Instruction)) /\ Len(code) = 1 /\ code[1] = <<>> /\ DOMAIN nest = {}
  <2>1. <<>> \in Seq(Instruction) /\ DOMAIN nest = {}
    BY <1>1
  <2>. QED  BY <1>1, <2>1
<1>7. Matches(g, code, nest)
  BY <1>3, <1>4, <1>6, EmptyBlock DEF Matches
<1>8. nest \in Seq(Frame) /\ g.n <= MaxBlocks
  BY <1>1, <1>3, StructuredFlowAssumption
<1>9. At(g, code, nest, buildPoint) /\ Closed(g, nest, buildPoint)
  BY <1>1, <1>3, <1>4, <1>6, EmptyBlock DEF At, Closed
<1>10. LiveInv(g, code, nest, buildPoint)
  BY <1>1, <1>3, <1>6 DEF LiveInv, Covered
<1>11. PhiInv(g, code) /\ OperandInv(g, nest, buildPoint)
  BY <1>3, <1>6, EmptyBlock DEF PhiInv, OperandInv
<1>12. Built(g, code, nest, buildPoint)
  BY <1>5, <1>6, <1>7, <1>8, <1>9, <1>10, <1>11, Zenon DEF Built
<1>. QED  BY <1>1, <1>12 DEF BuildInv

\* selections
LEMMA BuildSelection ==
    ASSUME StackInv, BuildInv, (\E kind \in {"if", "and"} : If(kind)) \/ makeBeginElse \/ makeEndIf
    PROVE  BuildInv'
<1>0. phase = "build" /\ phase' = phase
  BY DEF If, makeBeginElse, makeEndIf, MayMake, Inside
<1>g. PICK g : Building(g)
  BY <1>0, BuildingFacts
<1>1. /\ Built(g, code, nest, buildPoint) /\ code \in Seq(Seq(Instruction)) /\ Len(code) \in Nat /\ Len(code) <= MaxBlocks
      /\ buildPoint \in 1 .. Len(code) /\ nest \in Seq(Frame) /\ WellFormed(code[buildPoint])
      /\ (\A i \in DOMAIN nest : nest[i].place # "head") => Fresh(code[buildPoint]) /\ ~isTerminated(buildPoint)
      /\ nest # <<>> => /\ top = nest[Len(nest)] /\ Len(nest) \in DOMAIN nest
                        /\ top.place # "head" => \A i \in DOMAIN nest : nest[i].place # "head"
                        /\ top.place = "head" => isTerminated(buildPoint) /\ buildPoint = top.header
  BY <1>g DEF Building
<1>. SUFFICES \E g2 : Built(g2, code', nest', buildPoint')
  BY <1>0 DEF BuildInv
<1>2. ASSUME NEW kind \in {"if", "and"}, If(kind) PROVE \E g2 : Built(g2, code', nest', buildPoint')
  <2>. DEFINE n == Len(code)
              f == [kind |-> kind, place |-> "then", header |-> buildPoint, then |-> n + 1, else |-> 0, merge |-> n + 2]
              c2 == Made(2)
  <2>1. code' = c2 /\ buildPoint' = n + 1 /\ nest' = Append(nest, f) /\ n + 2 <= MaxBlocks
        /\ (nest # <<>> => top.place \notin {"head", "empty"})
    BY <1>2 DEF If, MayMake, Expression, New
  <2>2. \A i \in DOMAIN nest : nest[i].place \notin {"head", "empty"}
    BY <1>1, <2>1, AllExpression
  <2>3. WithNew(c2, 2)
    BY <1>1, <2>1, MakesNew
  <2>4. c2 \in Seq(Seq(Instruction)) /\ Len(c2) = n + 2 /\ \A b \in 1 .. n + 2 : c2[b] = IF b <= n THEN code[b] ELSE <<>>
    BY <2>3 DEF WithNew
  <2>. HIDE DEF c2
  <2>5. BeginsIf(code, nest, buildPoint, c2, kind, f, n + 1)
    BY <2>1, <2>2, <2>4, Zenon DEF BeginsIf
  <2>. HIDE DEF f
  <2>6. \E g2 : Built(g2, c2, nest', n + 1)
    BY <1>1, <2>1, <2>5, IfBegun, Zenon
  <2>. QED  BY <2>1, <2>6, Zenon
<1>3. ASSUME makeBeginElse PROVE \E g2 : Built(g2, code', nest', buildPoint')
  <2>. DEFINE n == Len(code)
              c2 == Put(Made(1), buildPoint, <<Instr("Branch", <<top.merge>>)>>)
              n1 == n + 1
              f2 == [top EXCEPT !.place = "else", !.else = n1]
  <2>1. /\ code' = c2 /\ buildPoint' = n1 /\ nest' = Append(Front(nest), f2) /\ n1 <= MaxBlocks
        /\ nest # <<>> /\ top.kind \in {"if"} /\ top.place \in {"then"}
    BY <1>3 DEF makeBeginElse, MayMake, Inside, SetTop, New
  <2>2. top.kind = "if" /\ top.place = "then" /\ top = nest[Len(nest)] /\ \A i \in DOMAIN nest : nest[i].place # "head"
    BY <1>1, <2>1
  <2>3. top.merge \in Nat
    BY <2>1, TopFrame, FrameKinds
  <2>4. <<top.merge>> \in Seq(Nat) /\ "Branch" \in Ends /\ "Branch" # "Return" /\ "Branch" \in Branches
    BY <2>3, Ops, NatTargets
  <2>5. WithNew(Made(1), 1)
    BY <1>1, <2>1, MakesNew
  <2>. DEFINE T == {top.merge}
  <2>6. c2 \in Seq(Seq(Instruction)) /\ Len(c2) = n + 1 /\ EndsHere(code, buildPoint, c2, T)
    <3>1. /\ c2 \in Seq(Seq(Instruction)) /\ Len(c2) = Len(code) + 1
          /\ EndsHere(code, buildPoint, c2, IF "Branch" \in Branches THEN ToSet(<<top.merge>>) ELSE {})
      BY <1>1, <2>2, <2>4, <2>5, PutHere
    <3>2. (IF "Branch" \in Branches THEN ToSet(<<top.merge>>) ELSE {}) = T
      BY <2>4, ToSetOf
    <3>. QED  BY <3>1, <3>2
  <2>. HIDE DEF c2, f2, T
  <2>7. Len(c2) = n1
    BY <2>6
  <2>. HIDE DEF n1
  <2>8. BeginsElse(code, nest, buildPoint, c2, n1, top, f2)
    <3>1. n1 = Len(code) + 1 /\ f2 = [top EXCEPT !.place = "else", !.else = n1] /\ T = {top.merge}
      BY DEF n1, f2, T
    <3>. QED  BY <2>1, <2>2, <2>6, <2>7, <3>1, Zenon DEF BeginsElse
  <2>9. \E g2 : Built(g2, c2, nest', n1)
    BY <1>1, <2>1, <2>8, ElseBuilt, Zenon
  <2>. QED  BY <2>1, <2>9, Zenon
<1>4. ASSUME makeEndIf PROVE \E g2 : Built(g2, code', nest', buildPoint')
  <2>. DEFINE branched == Put(code, buildPoint, <<Instr("Branch", <<top.merge>>)>>)
              phi == IF top.kind = "and" THEN <<Instr("Phi", PhiParents)>> ELSE <<>>
              split == Put(branched, top.header, FlowSplit)
              c2 == Put(split, top.merge, phi)
  <2>1. /\ code' = c2 /\ buildPoint' = top.merge /\ nest' = Front(nest)
        /\ nest # <<>> /\ top.kind \in {"if", "and"} /\ top.place \in {"then", "else"}
    BY <1>4 DEF makeEndIf, Inside
  <2>2. top = nest[Len(nest)] /\ (\A i \in DOMAIN nest : nest[i].place # "head") /\ Len(nest) \in DOMAIN nest
    BY <1>1, <2>1
  <2>3. /\ FrameOK(top) /\ FrameInv(g, code, top) /\ Point(g, top, buildPoint) /\ g.n = Len(code) /\ Names(top) \subseteq 1 .. g.n
    <3>1. FrameOK(top) /\ FrameInv(g, code, top) /\ Names(top) \subseteq 1 .. g.n
      BY <1>1, <2>1, <2>2, InnerFrame
    <3>2. Point(g, top, buildPoint)
      BY <1>1, <2>2 DEF Built, At
    <3>. QED  BY <1>1, <3>1, <3>2, CodeFacts
  <2>4. /\ IsIf(top) /\ top.header \in Nat \ {0} /\ top.then \in Nat \ {0} /\ top.else \in Nat /\ top.merge \in Nat \ {0}
        /\ top.header < top.then /\ top.then < top.merge /\ Await(top) = {top.merge} /\ First(top) = top.then
        /\ top.header \in Names(top) /\ top.merge \in Names(top)
    <3>1. /\ IsIf(top) /\ top.header \in Nat \ {0} /\ top.then \in Nat \ {0} /\ top.else \in Nat /\ top.merge \in Nat \ {0}
          /\ top.header < top.then /\ top.merge = top.then + 1 /\ Await(top) = {top.merge} /\ First(top) = top.then
          /\ Names(top) = {top.header, top.merge} \cup ({top.then, top.else} \ {0})
      BY <2>1, <2>3, IfFacts
    <3>. QED  BY <3>1
  <2>5. top.header \in 1 .. Len(code) /\ top.merge \in 1 .. Len(code) /\ top.header # top.merge
    BY <2>3, <2>4
  <2>6. buildPoint # top.merge /\ buildPoint # top.header
    BY <2>3, <2>4 DEF Point, Region
  <2>7. Fresh(code[top.header]) /\ code[top.merge] = <<>> /\ WellFormed(code[top.header])
    <3>1. Fresh(code[top.header]) /\ code[top.merge] = <<>>
      BY <2>3, <2>4 DEF FrameInv
    <3>2. WellFormed(code[top.header])
      BY <1>1, <2>3, <2>5, CodeFacts
    <3>. QED  BY <3>1, <3>2
  <2>. DEFINE other == IF top.else # 0 THEN top.else ELSE top.merge
  <2>8. other \in Nat /\ top.then \in Nat /\ top.merge \in Nat
    BY <2>4
  <2>. HIDE DEF other
  <2>9. /\ branched \in Seq(Seq(Instruction)) /\ Len(branched) = Len(code) /\ EndsHere(code, buildPoint, branched, {top.merge})
    <3>1. WithNew(code, 0)
      BY <1>1, MakesNew
    <3>2. <<top.merge>> \in Seq(Nat) /\ "Branch" \in Ends /\ "Branch" # "Return" /\ "Branch" \in Branches
      BY <2>8, Ops, NatTargets
    <3>3. /\ branched \in Seq(Seq(Instruction)) /\ Len(branched) = Len(code) + 0
          /\ EndsHere(code, buildPoint, branched, IF "Branch" \in Branches THEN ToSet(<<top.merge>>) ELSE {})
      BY <1>1, <2>2, <3>1, <3>2, PutHere
    <3>4. (IF "Branch" \in Branches THEN ToSet(<<top.merge>>) ELSE {}) = {top.merge} /\ Len(code) + 0 = Len(code)
      BY <1>1, <3>2, ToSetOf
    <3>. QED  BY <3>3, <3>4
  <2>. HIDE DEF branched
  <2>10. /\ FlowSplit = <<Instr("SelectionMerge", <<top.merge>>), Instr("BranchConditional", <<top.then, other>>)>>
         /\ <<top.merge>> \in Seq(Nat) /\ <<top.then, other>> \in Seq(Nat) /\ FlowSplit \in Seq(Instruction)
    BY <2>8, InstrSeq, Ops, NatTargets DEF FlowSplit, other
  <2>11. /\ split \in Seq(Seq(Instruction)) /\ Len(split) = Len(code)
         /\ \A d \in 1 .. Len(code) : split[d] = IF d = top.header THEN branched[d] \o FlowSplit ELSE branched[d]
    <3>1. top.header \in 1 .. Len(branched)
      BY <2>5, <2>9
    <3>2. /\ split \in Seq(Seq(Instruction)) /\ Len(split) = Len(branched)
          /\ \A d \in 1 .. Len(branched) : split[d] = IF d = top.header THEN branched[d] \o FlowSplit ELSE branched[d]
      BY <2>9, <2>10, <3>1, PutFacts, Zenon
    <3>. QED  BY <2>9, <3>2, Zenon
  <2>. HIDE DEF split
  <2>12. phi \in Seq(Instruction) /\ (top.kind = "and" => phi = <<Instr("Phi", <<top.header, buildPoint>>)>>) /\ (top.kind # "and" => phi = <<>>)
    <3>1. <<top.header, buildPoint>> \in Seq(Nat)
      BY <1>1, <2>4, NatTargets
    <3>2. <<Instr("Phi", <<top.header, buildPoint>>)>> \in Seq(Instruction) /\ <<>> \in Seq(Instruction)
      <4>1. <<>> \in Seq(Instruction)
        OBVIOUS
      <4>. QED  BY <3>1, <4>1, InstrSeq, Ops, Zenon
    <3>. QED  BY <3>2 DEF PhiParents
  <2>. HIDE DEF phi
  <2>13. /\ c2 \in Seq(Seq(Instruction)) /\ Len(c2) = Len(code)
         /\ \A d \in 1 .. Len(code) : c2[d] = IF d = top.merge THEN split[d] \o phi ELSE split[d]
    <3>1. top.merge \in 1 .. Len(split)
      BY <2>5, <2>11
    <3>2. /\ c2 \in Seq(Seq(Instruction)) /\ Len(c2) = Len(split)
          /\ \A d \in 1 .. Len(split) : c2[d] = IF d = top.merge THEN split[d] \o phi ELSE split[d]
      BY <2>11, <2>12, <3>1, PutFacts, Zenon
    <3>. QED  BY <2>11, <3>2, Zenon
  <2>. HIDE DEF c2
  <2>14. /\ \A b \in 1 .. Len(code) : b # buildPoint => branched[b] = code[b]
         /\ EndsBy(code, branched, buildPoint, {top.merge})
    BY <2>9 DEF EndsHere
  <2>15. c2[buildPoint] = branched[buildPoint]
    BY <1>1, <2>6, <2>11, <2>13, Zenon
  <2>16. c2[top.header] = code[top.header] \o FlowSplit
    BY <2>5, <2>6, <2>11, <2>13, <2>14, Zenon
  <2>17. c2[top.merge] = code[top.merge] \o phi
    <3>1. split[top.merge] = branched[top.merge]
      BY <2>5, <2>11, Zenon
    <3>2. branched[top.merge] = code[top.merge]
      BY <2>5, <2>6, <2>14, Zenon
    <3>. QED  BY <2>5, <2>13, <3>1, <3>2, Zenon
  <2>18. \A b \in 1 .. Len(code) : b \notin {buildPoint, top.header} /\ b # top.merge => c2[b] = code[b]
    BY <2>11, <2>13, <2>14, Zenon
  <2>19. top.kind # "and" => c2[top.merge] = code[top.merge]
    BY <2>7, <2>12, <2>17
  <2>20. EndsBy(code, c2, buildPoint, {top.merge})
    BY <2>14, <2>15, Zenon DEF EndsBy
  <2>21. /\ WellFormed(c2[top.header]) /\ Terminated(c2[top.header]) /\ MergeOf(c2[top.header]) = <<top.merge>>
         /\ PhiOf(c2[top.header]) = PhiOf(code[top.header]) /\ SuccOf(c2[top.header]) = {top.then, other}
    <3>1. LET is2 == code[top.header] \o <<Instr("SelectionMerge", <<top.merge>>), Instr("BranchConditional", <<top.then, other>>)>> IN
           /\ WellFormed(is2) /\ Terminated(is2) /\ MergeOf(is2) = <<top.merge>> /\ PhiOf(is2) = PhiOf(code[top.header])
           /\ SuccOf(is2) = ToSet(<<top.then, other>>)
      <4>1. <<top.merge>> # <<>> /\ "SelectionMerge" \in Merges /\ "BranchConditional" \in Branches
        BY Ops
      <4>. QED  BY <2>7, <2>10, <4>1, PutMerge, ZenonT(40)
    <3>2. ToSet(<<top.then, other>>) = {top.then, other}
      BY ToSetOf
    <3>. QED  BY <2>10, <2>16, <3>1, <3>2, Zenon
  <2>22. top.kind = "and" => WellFormed(c2[top.merge]) /\ Fresh(c2[top.merge]) /\ PhiOf(c2[top.merge]) = <<top.header, buildPoint>>
    <3>. SUFFICES ASSUME top.kind = "and"
                  PROVE  WellFormed(c2[top.merge]) /\ Fresh(c2[top.merge]) /\ PhiOf(c2[top.merge]) = <<top.header, buildPoint>>
      OBVIOUS
    <3>1. c2[top.merge] = <<Instr("Phi", <<top.header, buildPoint>>)>>
      BY <2>7, <2>12, <2>17
    <3>2. top.header \in Nat /\ buildPoint \in Nat
      BY <1>1, <2>4
    <3>. QED  BY <3>1, <3>2, PhiBlock, Zenon
  <2>23. ClosesIf(code, buildPoint, c2, top)
    BY <2>13, <2>18, <2>19, <2>20, <2>21, <2>22, Zenon DEF ClosesIf, other
  <2>24. \E g2 : Built(g2, c2, nest', top.merge)
    BY <1>1, <2>1, <2>2, <2>23, IfClosed, Zenon
  <2>. QED  BY <2>1, <2>24, Zenon
<1>. QED  BY <1>2, <1>3, <1>4

\* jumps and the end of the function
LEMMA BuildJump ==
    ASSUME StackInv, BuildInv, Break \/ Continue \/ ReturnOrDiscard
    PROVE  BuildInv'
<1>0. phase = "build" /\ phase' = phase /\ Statement
  BY DEF Break, Continue, ReturnOrDiscard, jump, MayMake
<1>g. PICK g : Building(g)
  BY <1>0, BuildingFacts
<1>1. /\ Built(g, code, nest, buildPoint) /\ code \in Seq(Seq(Instruction)) /\ Len(code) \in Nat /\ Len(code) <= MaxBlocks
      /\ nest # <<>> => top = nest[Len(nest)]
  BY <1>g DEF Building
<1>2. \A i \in DOMAIN nest : nest[i].kind # "and" /\ nest[i].place \notin {"head", "test", "terminal"}
  <2>1. \A i \in DOMAIN nest : nest[i].place \notin {"head", "empty"}
    BY <1>0, <1>1, AllExpression DEF Statement, Expression
  <2>. QED  BY <1>0, <2>1 DEF Statement
<1>3. \A i \in DOMAIN nest : nest[i].place # "head"
  BY <1>2
<1>. SUFFICES \E g2 : Built(g2, code', nest', buildPoint')
  BY <1>0 DEF BuildInv
<1>4. ASSUME NEW op \in {"Branch", "Return"}, NEW t \in Seq(Nat), op = "Return" => t = <<>>, jump(Instr(op, t)), nest' = nest,
             op = "Branch" => \A x \in ToSet(t) : \E i \in DOMAIN nest :
                 x = nest[i].merge \/ (nest[i].kind = "loop" /\ x = nest[i].continue_target)
      PROVE  \E g2 : Built(g2, code', nest', buildPoint')
  <2>. DEFINE n == Len(code) + 1
              c2 == Put(Made(1), buildPoint, <<Instr(op, t)>>)
              T == IF op \in Branches THEN ToSet(t) ELSE {}
  <2>1. code' = c2 /\ buildPoint' = n /\ n <= MaxBlocks
    BY <1>4 DEF jump, MayMake, New
  <2>2. op \in Ends
    BY Ops
  <2>3. WithNew(Made(1), 1)
    BY <1>1, <2>1, MakesNew
  <2>4. c2 \in Seq(Seq(Instruction)) /\ Len(c2) = n /\ EndsHere(code, buildPoint, c2, T)
    BY <1>1, <1>3, <1>4, <2>2, <2>3, PutHere
  <2>5. \A x \in T : \E i \in DOMAIN nest : x = nest[i].merge \/ (nest[i].kind = "loop" /\ x = nest[i].continue_target)
    <3>1. op = "Return" => op \notin Branches
      BY Ops
    <3>. QED  BY <1>4, <3>1
  <2>6. n \in 1 .. Len(c2) /\ n > Len(code) /\ n = Len(code) + 1
    BY <1>1, <2>4
  <2>. HIDE DEF c2, T, n
  <2>7. /\ \A b \in 1 .. Len(code) : b # buildPoint => c2[b] = code[b]
        /\ EndsBy(code, c2, buildPoint, T) /\ c2[n] = <<>>
    BY <2>4, <2>6, Zenon DEF EndsHere
  <2>8. JumpsTo(code, nest, buildPoint, c2, n, T)
    BY <1>2, <2>1, <2>4, <2>5, <2>6, <2>7, Zenon DEF JumpsTo
  <2>9. \E g2 : Built(g2, c2, nest, n)
    BY <1>1, <2>8, JumpBuilt, Zenon
  <2>. QED  BY <1>4, <2>1, <2>9, Zenon
<1>5. ASSUME Break PROVE \E g2 : Built(g2, code', nest', buildPoint')
  <2>1. jump(Instr("Branch", <<BreakTarget>>)) /\ nest' = nest /\ breakForLoop # <<>>
    BY <1>5 DEF Break
  <2>2. PICK i \in DOMAIN nest : BreakTarget = nest[i].merge
    BY <1>0, <2>1, WhereJumpsGo DEF Enclosing
  <2>3. BreakTarget \in Nat /\ nest[i] \in Frame
    BY <1>1, <2>2, FrameKinds DEF Built
  <2>4. <<BreakTarget>> \in Seq(Nat) /\ \A x \in ToSet(<<BreakTarget>>) : x = BreakTarget
    BY <2>3, NatTargets, ToSetOf
  <2>. QED  BY <1>4, <2>1, <2>2, <2>4
<1>6. ASSUME Continue PROVE \E g2 : Built(g2, code', nest', buildPoint')
  <2>. DEFINE target == Last(loops).continue_target
  <2>1. jump(Instr("Branch", <<target>>)) /\ nest' = nest /\ loops # <<>>
    BY <1>6 DEF Continue
  <2>2. PICK i \in DOMAIN nest : target = nest[i].continue_target /\ nest[i].kind \in {"loop"}
    BY <1>0, <2>1, WhereJumpsGo DEF Enclosing
  <2>3. target \in Nat /\ nest[i].kind = "loop"
    BY <1>1, <2>2, FrameKinds DEF Built
  <2>. HIDE DEF target
  <2>4. <<target>> \in Seq(Nat) /\ \A x \in ToSet(<<target>>) : x = target
    BY <2>3, NatTargets, ToSetOf
  <2>. QED  BY <1>4, <2>1, <2>2, <2>3, <2>4
<1>7. ASSUME ReturnOrDiscard PROVE \E g2 : Built(g2, code', nest', buildPoint')
  <2>1. jump(Instr("Return", <<>>)) /\ nest' = nest
    BY <1>7 DEF ReturnOrDiscard
  <2>. QED  BY <1>4, <2>1, NatTargets
<1>. QED  BY <1>5, <1>6, <1>7

\* leaveFunction finishes the graph
LEMMA BuildLeave ==
    ASSUME BuildInv, leaveFunction
    PROVE  BuildInv'
<1>0. phase = "build" /\ phase' = "order" /\ nest = <<>> /\ nest' = <<>>
  BY DEF leaveFunction
<1>g. PICK g : Building(g)
  BY <1>0, BuildingFacts
<1>1. DOMAIN nest = {}
  BY <1>0
<1>2. /\ Built(g, code, nest, buildPoint) /\ code \in Seq(Seq(Instruction)) /\ Len(code) \in Nat /\ Len(code) <= MaxBlocks
      /\ ~isTerminated(buildPoint) /\ \A i \in DOMAIN nest : nest[i].place # "head"
  BY <1>g, <1>1 DEF Building
<1>. DEFINE c2 == Put(code, buildPoint, <<Instr("Return", <<>>)>>)
<1>3. code' = c2
  BY <1>2 DEF leaveFunction
<1>4. WithNew(code, 0)
  BY <1>2, MakesNew
<1>5. "Return" \in Ends /\ "Return" \notin Branches /\ <<>> \in Seq(Nat)
  BY Ops, NatTargets
<1>6. EndsHere(code, buildPoint, c2, {}) /\ Len(c2) = Len(code)
  <2>1. /\ c2 \in Seq(Seq(Instruction)) /\ Len(c2) = Len(code) + 0
        /\ EndsHere(code, buildPoint, c2, IF "Return" \in Branches THEN ToSet(<<>>) ELSE {})
    BY <1>2, <1>4, <1>5, PutHere
  <2>. QED  BY <1>2, <1>5, <2>1
<1>. HIDE DEF c2
<1>7. \E g2 : Finished(g2, c2)
  BY <1>0, <1>2, <1>6, FunctionFinished, Zenon
<1>. QED  BY <1>0, <1>3, <1>7 DEF BuildInv

\* switches
LEMMA ToSetCons ==
    ASSUME NEW S, NEW d \in S, NEW s \in Seq(S)
    PROVE  ToSet(<<d>> \o s) = {d} \cup ToSet(s)
<1>. DEFINE w == <<d>> \o s
<1>1. /\ Len(s) \in Nat /\ DOMAIN s = 1 .. Len(s) /\ Len(w) = Len(s) + 1 /\ DOMAIN w = 1 .. Len(w)
      /\ w[1] = d /\ \A i \in 1 .. Len(s) : w[i + 1] = s[i]
  OBVIOUS
<1>. HIDE DEF w
<1>2. \A i \in DOMAIN w : i = 1 \/ (i - 1 \in 1 .. Len(s) /\ w[i] = s[i - 1])
  <2>1. \A i \in DOMAIN w : i = 1 \/ (i - 1 \in 1 .. Len(s) /\ (i - 1) + 1 = i)
    BY <1>1
  <2>2. ASSUME NEW i \in DOMAIN w, NEW j, j = i - 1, j \in 1 .. Len(s), j + 1 = i PROVE w[i] = s[j]
    BY <1>1, <2>2
  <2>. QED  BY <2>1, <2>2
<1>3. 1 \in DOMAIN w /\ \A i \in 1 .. Len(s) : i + 1 \in DOMAIN w
  BY <1>1
<1>4. ASSUME NEW x \in ToSet(w) PROVE x \in {d} \cup ToSet(s)
  <2>1. PICK i \in DOMAIN w : w[i] = x
    BY <1>4 DEF ToSet
  <2>. QED  BY <1>1, <1>2, <2>1 DEF ToSet
<1>5. d \in ToSet(w)
  BY <1>1, <1>3 DEF ToSet
<1>6. ASSUME NEW x \in ToSet(s) PROVE x \in ToSet(w)
  <2>1. PICK i \in DOMAIN s : s[i] = x
    BY <1>6 DEF ToSet
  <2>2. i + 1 \in DOMAIN w /\ w[i + 1] = x
    BY <1>1, <1>3, <2>1
  <2>. QED  BY <2>2, Zenon DEF ToSet
<1>7. ToSet(w) = {d} \cup ToSet(s)
  BY <1>4, <1>5, <1>6
<1>. QED  BY <1>7 DEF w

\* the segments that the values of a switch name, as blocks: those of default and cases
Targets(s, n) ==
    <<IF s.default # 0 THEN n + s.default ELSE n + (s.count + 1)>> \o [i \in DOMAIN s.cases |-> n + s.cases[i]]

\* the targets of OpSwitch are its segments and its merge block
LEMMA SegmentTargets ==
    ASSUME NEW s \in Segmentations, NEW n \in Nat, NEW t, t = Targets(s, n)
    PROVE  /\ s.count \in Nat /\ t \in Seq(Nat)
           /\ ToSet(t) \subseteq n + 1 .. n + s.count + 1 /\ n + 1 .. n + s.count \subseteq ToSet(t)
<1>. DEFINE d == IF s.default # 0 THEN n + s.default ELSE n + (s.count + 1)
            w == [i \in DOMAIN s.cases |-> n + s.cases[i]]
<1>1. /\ s.count \in 0 .. MaxSegments /\ s.cases \in SeqOf(1 .. MaxSegments, MaxSegments) /\ s.default \in 0 .. MaxSegments
      /\ {s.cases[i] : i \in DOMAIN s.cases} \cup ({s.default} \ {0}) = 1 .. s.count
  BY DEF Segmentations
<1>2. PICK m \in 0 .. MaxSegments : s.cases \in [1 .. m -> 1 .. MaxSegments]
  BY <1>1 DEF SeqOf
<1>3. m \in Nat /\ DOMAIN s.cases = 1 .. m /\ (\A i \in 1 .. m : s.cases[i] \in Nat) /\ s.count \in Nat /\ s.default \in Nat
  BY <1>1, <1>2, StructuredFlowAssumption
<1>d. d \in Nat /\ (s.default # 0 => d = n + s.default) /\ (s.default = 0 => d = n + (s.count + 1))
  BY <1>3
<1>4. w \in Seq(Nat) /\ DOMAIN w = 1 .. m /\ \A i \in 1 .. m : w[i] = n + s.cases[i]
  <2>2. w \in [1 .. m -> Nat] /\ \A i \in 1 .. m : w[i] = n + s.cases[i]
    BY <1>3
  <2>. HIDE DEF w
  <2>3. w \in Seq(Nat)
    BY <1>3, <2>2, Zenon, SeqDef
  <2>. QED  BY <2>2, <2>3
<1>5. /\ \A i \in 1 .. m : s.cases[i] \in 1 .. s.count
      /\ s.default # 0 => s.default \in 1 .. s.count
      /\ \A j \in 1 .. s.count : j = s.default \/ \E i \in 1 .. m : s.cases[i] = j
  BY <1>1, <1>3
<1>8. t = <<d>> \o w
  BY DEF Targets
<1>. HIDE DEF d, w
<1>6. d \in n + 1 .. n + s.count + 1 /\ \A i \in 1 .. m : w[i] \in n + 1 .. n + s.count + 1
  <2>1. d \in n + 1 .. n + s.count + 1
    <3>1. CASE s.default # 0
      BY <1>3, <1>d, <1>5, <3>1
    <3>2. CASE s.default = 0
      BY <1>3, <1>d, <3>2
    <3>. QED  BY <3>1, <3>2
  <2>2. ASSUME NEW i \in 1 .. m PROVE w[i] \in n + 1 .. n + s.count + 1
    <3>1. w[i] = n + s.cases[i] /\ s.cases[i] \in 1 .. s.count
      BY <1>4, <1>5
    <3>. QED  BY <1>3, <3>1
  <2>. QED  BY <2>1, <2>2
<1>7. ASSUME NEW b \in n + 1 .. n + s.count PROVE b = d \/ \E i \in 1 .. m : w[i] = b
  <2>1. b - n \in 1 .. s.count /\ n + (b - n) = b
    BY <1>3
  <2>2. CASE b - n = s.default
    <3>1. s.default # 0
      BY <2>1, <2>2
    <3>. QED  BY <1>d, <2>1, <2>2, <3>1
  <2>3. CASE \E i \in 1 .. m : s.cases[i] = b - n
    BY <1>4, <2>1, <2>3
  <2>. QED  BY <1>5, <2>1, <2>2, <2>3
<1>9. t \in Seq(Nat) /\ ToSet(t) = {d} \cup ToSet(w)
  <2>1. <<d>> \in Seq(Nat)
    BY <1>d
  <2>2. <<d>> \o w \in Seq(Nat)
    BY <1>4, <2>1, ConcatProperties
  <2>3. ToSet(<<d>> \o w) = {d} \cup ToSet(w)
    <3>1. d \in Nat /\ w \in Seq(Nat)
      BY <1>d, <1>4
    <3>. QED  BY <3>1, ToSetCons, ZenonT(40)
  <2>. QED  BY <1>8, <2>2, <2>3, Zenon
<1>10. ToSet(w) = {w[i] : i \in 1 .. m}
  BY <1>4 DEF ToSet
<1>. QED  BY <1>3, <1>6, <1>7, <1>9, <1>10

LEMMA BuildMakeSwitch ==
    ASSUME StackInv, BuildInv, NEW s \in Segmentations, NEW lastEmpty \in BOOLEAN, makeSwitch(s, lastEmpty)
    PROVE  BuildInv'
<1>. DEFINE n == Len(code)
            k == s.count
            t == Targets(s, n)
            mt == <<n + (k + 1)>>
            is == <<Instr("SelectionMerge", mt), Instr("Switch", t)>>
            c1 == Made(k + 1)
            c2 == Put(c1, buildPoint, is)
            f == [kind |-> "switch", place |-> "head", header |-> buildPoint, first |-> n + 1,
                  count |-> k, next |-> 1, lastEmpty |-> lastEmpty, merge |-> n + (k + 1)]
<1>0. /\ phase = "build" /\ phase' = phase /\ Statement /\ n + (k + 1) <= MaxBlocks
      /\ code' = c2 /\ buildPoint' = buildPoint /\ nest' = Append(nest, f)
  BY DEF makeSwitch, MayMake, New, Targets
<1>g. PICK g : Building(g)
  BY <1>0, BuildingFacts
<1>1. /\ Built(g, code, nest, buildPoint) /\ code \in Seq(Seq(Instruction)) /\ n \in Nat
      /\ buildPoint \in 1 .. n /\ WellFormed(code[buildPoint])
      /\ nest # <<>> => top = nest[Len(nest)]
      /\ (\A i \in DOMAIN nest : nest[i].place # "head") => Fresh(code[buildPoint])
  BY <1>g DEF Building
<1>s. Statement
  BY <1>0
<1>2. \A i \in DOMAIN nest : nest[i].kind # "and" /\ nest[i].place \notin {"head", "empty", "test", "terminal"}
  <2>0. nest # <<>> => nest[Len(nest)].place \notin {"head", "empty"}
    BY <1>s, <1>1, Zenon DEF Statement, Expression
  <2>1. \A i \in DOMAIN nest : nest[i].place \notin {"head", "empty"}
    BY <1>1, <2>0, AllExpression, Zenon
  <2>. QED  BY <1>s, <2>1 DEF Statement
<1>3. k \in Nat /\ t \in Seq(Nat) /\ ToSet(t) \subseteq n + 1 .. n + k + 1 /\ n + 1 .. n + k \subseteq ToSet(t)
  BY <1>1, SegmentTargets
<1>4. Fresh(code[buildPoint])
  BY <1>1, <1>2
<1>. HIDE DEF t
<1>5. n + (k + 1) \in Nat /\ n + (k + 1) = n + k + 1 /\ k + 1 \in Nat
  BY <1>1, <1>3
<1>6. mt \in Seq(Nat) /\ mt # <<>> /\ is \in Seq(Instruction)
  <2>1. mt \in Seq(Nat) /\ mt # <<>>
    BY <1>5, NatTargets
  <2>. HIDE DEF mt
  <2>2. "SelectionMerge" \in Ends \cup Merges \cup {"Phi"} /\ "Switch" \in Ends \cup Merges \cup {"Phi"}
    BY Ops
  <2>3. is \in Seq(Instruction)
    BY <1>3, <2>1, <2>2, InstrSeq, Zenon
  <2>. QED  BY <2>1, <2>3
<1>. HIDE DEF mt
<1>7. LET is2 == code[buildPoint] \o is IN
       /\ WellFormed(is2) /\ Terminated(is2) /\ MergeOf(is2) = mt /\ PhiOf(is2) = PhiOf(code[buildPoint])
       /\ SuccOf(is2) = ToSet(t)
  <2>1. "SelectionMerge" \in Merges /\ "Switch" \in Branches
    BY Ops
  <2>2. WellFormed(code[buildPoint]) /\ t \in Seq(Nat)
    BY <1>1, <1>3
  <2>. QED  BY <1>4, <1>6, <2>1, <2>2, PutMerge
<1>8. WithNew(c1, k + 1)
  BY <1>0, <1>1, <1>5, MakesNew
<1>. HIDE DEF is, c1
<1>9. /\ c1 \in Seq(Seq(Instruction)) /\ Len(c1) = n + (k + 1)
      /\ \A b \in 1 .. Len(c1) : c1[b] = IF b <= n THEN code[b] ELSE <<>>
  BY <1>8 DEF WithNew
<1>10. buildPoint \in 1 .. Len(c1) /\ buildPoint <= n
  <2>1. Len(c1) = n + (k + 1)
    BY <1>9
  <2>2. buildPoint \in 1 .. n /\ n \in Nat /\ k + 1 \in Nat
    BY <1>1, <1>5
  <2>. QED  BY <2>1, <2>2
<1>11. c2 \in Seq(Seq(Instruction)) /\ Len(c2) = Len(c1) /\ \A d \in 1 .. Len(c1) : c2[d] = IF d = buildPoint THEN c1[d] \o is ELSE c1[d]
  BY <1>6, <1>9, <1>10, PutFacts, Zenon
<1>. HIDE DEF c2
<1>12. c2[buildPoint] = code[buildPoint] \o is
  <2>1. c1[buildPoint] = code[buildPoint]
    BY <1>9, <1>10, Zenon
  <2>. QED  BY <1>10, <1>11, <2>1, Zenon
<1>13. \A b \in 1 .. Len(c1) : b # buildPoint => c2[b] = IF b <= n THEN code[b] ELSE <<>>
  BY <1>9, <1>11, Zenon
<1>. DEFINE m == n + k + 1
<1>14. m = n + (k + 1) /\ Len(c1) = m /\ Len(c2) = m /\ m <= MaxBlocks
  BY <1>0, <1>5, <1>9, <1>11
<1>15. f = [kind |-> "switch", place |-> "head", header |-> buildPoint, first |-> n + 1,
            count |-> k, next |-> 1, lastEmpty |-> lastEmpty, merge |-> m]
  BY <1>14, Zenon
<1>. HIDE DEF f
<1>16. /\ WellFormed(c2[buildPoint]) /\ Terminated(c2[buildPoint]) /\ PhiOf(c2[buildPoint]) = PhiOf(code[buildPoint])
       /\ MergeOf(c2[buildPoint]) = <<m>> /\ SuccOf(c2[buildPoint]) = ToSet(t)
  BY <1>7, <1>12, <1>14, Zenon DEF mt
<1>17. BeginsSwitch(code, nest, buildPoint, c2, k, lastEmpty, f)
  <2>1. \A b \in 1 .. m : b # buildPoint => c2[b] = IF b <= n THEN code[b] ELSE <<>>
    BY <1>13, <1>14, Zenon
  <2>2. SuccOf(c2[buildPoint]) \subseteq n + 1 .. m /\ n + 1 .. n + k \subseteq SuccOf(c2[buildPoint])
    BY <1>3, <1>16
  <2>. QED  BY <1>2, <1>3, <1>11, <1>14, <1>15, <1>16, <2>1, <2>2, Zenon DEF BeginsSwitch
<1>18. \E g2 : Built(g2, c2, nest', buildPoint)
  BY <1>0, <1>1, <1>17, SwitchBegun, Zenon
<1>. QED  BY <1>0, <1>18, Zenon DEF BuildInv

LEMMA BuildNextSegment ==
    ASSUME StackInv, BuildInv, nextSwitchSegment
    PROVE  BuildInv'
<1>. DEFINE n == Len(code)
            segment == top.first + top.next - 1
            closed == IF top.next > 1 /\ ~isTerminated(buildPoint) THEN Put(code, buildPoint, <<Instr("Branch", <<segment>>)>>) ELSE code
            isEmpty == top.lastEmpty /\ top.next = top.count
            place == IF isEmpty THEN "empty" ELSE "segment"
            f2 == [top EXCEPT !.next = @ + 1, !.place = place]
            filled == Put(closed, segment, <<Instr("Branch", <<Last(switchMerges)>>)>>)
            c2 == IF isEmpty THEN filled \o << <<>> >> ELSE closed
            bp2 == IF isEmpty THEN n + 1 ELSE segment
            H == IF top.place = "head" THEN {} ELSE {buildPoint}
            D == IF place = "empty" THEN (IF top.place = "head" THEN {segment} ELSE {buildPoint, segment})
                                    ELSE IF top.place = "head" THEN {} ELSE {buildPoint}
<1>0. /\ phase = "build" /\ phase' = phase /\ nest # <<>> /\ top.kind \in {"switch"} /\ top.next <= top.count
      /\ code' = c2 /\ buildPoint' = bp2 /\ nest' = Append(Front(nest), f2) /\ (isEmpty => n + 1 <= MaxBlocks)
  BY DEF nextSwitchSegment, Inside, SetTop, New, MayMake
<1>e. isEmpty => top.next = top.count
  OBVIOUS
<1>p. place \in {"segment", "empty"} /\ (place = "empty" <=> isEmpty)
  OBVIOUS
<1>. HIDE DEF isEmpty
<1>g. PICK g : Building(g)
  BY <1>0, BuildingFacts
<1>1. /\ Built(g, code, nest, buildPoint) /\ code \in Seq(Seq(Instruction)) /\ n \in Nat /\ n <= MaxBlocks
      /\ buildPoint \in 1 .. n /\ WellFormed(code[buildPoint])
      /\ top = nest[Len(nest)] /\ Len(nest) \in DOMAIN nest
      /\ top.place # "head" => \A i \in DOMAIN nest : nest[i].place # "head"
      /\ top.place # "head" => ~isTerminated(buildPoint)
      /\ top.place = "head" => isTerminated(buildPoint) /\ buildPoint = top.header
  BY <1>0, <1>g DEF Building
<1>k. top.kind = "switch"
  BY <1>0
<1>2. FrameOK(top) /\ FrameInv(g, code, top) /\ Names(top) \subseteq 1 .. g.n /\ g.n = n
  BY <1>0, <1>1, InnerFrame, CodeFacts
<1>3. /\ top.first \in Nat /\ top.count \in Nat /\ top.next \in Nat /\ top.merge \in Nat /\ top.next \in 1 .. top.count + 1
      /\ top.next = 1 <=> top.place = "head"
      /\ Await(top) = {top.merge} \cup Segments(top) /\ Names(top) = {top.header, top.merge} \cup (top.first .. (top.first + top.count - 1))
  BY <1>k, <1>2, SwitchFacts
<1>4. segment \in Nat /\ segment \in Segments(top) /\ segment \in Names(top) /\ (top.next > 1 <=> top.place # "head")
  BY <1>0, <1>3, SMTT(40) DEF Segments
<1>. HIDE DEF segment
<1>5. segment \in 1 .. n /\ segment \in Await(top) /\ code[segment] = <<>>
  BY <1>2, <1>3, <1>4 DEF FrameInv
<1>6. buildPoint # segment
  <2>1. CASE top.place = "head"
    <3>1. segment # top.header
      BY <1>2, <1>5, FrameFacts, <1>k DEF Header
    <3>. QED  BY <1>1, <2>1, <3>1
  <2>2. CASE top.place # "head"
    <3>1. Point(g, top, buildPoint)
      BY <1>1, <2>2 DEF Built, At
    <3>. QED  BY <1>5, <3>1 DEF Point
  <2>. QED  BY <2>1, <2>2
<1>7. Last(switchMerges) = top.merge
  <2>1. Stacks(nest, breakForLoop, loops, switchMerges)
    BY DEF StackInv
  <2>. QED  BY <1>0, <1>k, <2>1, StacksPop DEF top
<1>8. /\ closed \in Seq(Seq(Instruction)) /\ Len(closed) = n
      /\ \A b \in 1 .. n : b \notin H => closed[b] = code[b]
      /\ top.place # "head" => EndsBy(code, closed, buildPoint, {segment})
  <2>1. CASE top.place = "head"
    <3>1. closed = code
      BY <1>4, <2>1
    <3>. HIDE DEF closed
    <3>. QED  BY <1>1, <2>1, <3>1
  <2>2. CASE top.place # "head"
    <3>. DEFINE put == Put(code, buildPoint, <<Instr("Branch", <<segment>>)>>)
    <3>1. closed = put
      BY <1>1, <1>4, <2>2
    <3>2. WithNew(code, 0)
      BY <1>1, MakesNew
    <3>3. <<segment>> \in Seq(Nat) /\ "Branch" \in Ends /\ "Branch" # "Return" /\ "Branch" \in Branches
      BY <1>4, Ops, NatTargets
    <3>4. /\ put \in Seq(Seq(Instruction)) /\ Len(put) = n + 0
          /\ EndsHere(code, buildPoint, put, IF "Branch" \in Branches THEN ToSet(<<segment>>) ELSE {})
      BY <1>1, <2>2, <3>2, <3>3, PutHere
    <3>5. (IF "Branch" \in Branches THEN ToSet(<<segment>>) ELSE {}) = {segment} /\ n + 0 = n
      BY <1>1, <3>3, ToSetOf
    <3>. HIDE DEF closed, put
    <3>6. closed \in Seq(Seq(Instruction)) /\ Len(closed) = n /\ EndsHere(code, buildPoint, closed, {segment})
      BY <3>1, <3>4, <3>5
    <3>7. H = {buildPoint}
      BY <2>2
    <3>. HIDE DEF H
    <3>. QED  BY <3>6, <3>7 DEF EndsHere
  <2>. QED  BY <2>1, <2>2
<1>. HIDE DEF closed
<1>9. H \subseteq {buildPoint} /\ segment \notin H /\ D = H \cup (IF place = "empty" THEN {segment} ELSE {})
      /\ (buildPoint \in D <=> top.place # "head") /\ (segment \in D <=> place = "empty")
  BY <1>6, <1>p
<1>d. D = IF place = "empty" THEN (IF top.place = "head" THEN {segment} ELSE {buildPoint, segment})
                             ELSE IF top.place = "head" THEN {} ELSE {buildPoint}
  OBVIOUS
<1>. HIDE DEF H, D
<1>10. ASSUME isEmpty
       PROVE  /\ c2 \in Seq(Seq(Instruction)) /\ Len(c2) = n + 1 /\ c2[n + 1] = <<>>
              /\ \A b \in 1 .. n : b # segment => c2[b] = closed[b]
              /\ EndsBy(code, c2, segment, {top.merge})
  <2>. DEFINE is == <<Instr("Branch", <<top.merge>>)>>
  <2>1. c2 = filled \o << <<>> >> /\ filled = Put(closed, segment, is)
    BY <1>7, <1>10
  <2>. HIDE DEF filled, c2
  <2>2. <<top.merge>> \in Seq(Nat) /\ "Branch" \in Ends /\ "Branch" # "Return" /\ "Branch" \in Branches /\ is \in Seq(Instruction)
    BY <1>3, Ops, NatTargets, InstrSeq
  <2>3. LET is2 == code[segment] \o is IN
        /\ WellFormed(is2) /\ Terminated(is2) /\ MergeOf(is2) = <<>> /\ PhiOf(is2) = PhiOf(code[segment])
        /\ SuccOf(is2) = IF "Branch" \in Branches THEN ToSet(<<top.merge>>) ELSE {}
    BY <1>5, <2>2, PutEnd, EmptyBlock
  <2>. HIDE DEF is
  <2>4. segment \in 1 .. Len(closed)
    BY <1>5, <1>8
  <2>5. /\ filled \in Seq(Seq(Instruction)) /\ Len(filled) = Len(closed)
        /\ \A b \in 1 .. Len(closed) : filled[b] = IF b = segment THEN closed[b] \o is ELSE closed[b]
    BY <1>8, <2>1, <2>2, <2>4, PutFacts
  <2>6. << <<>> >> \in Seq(Seq(Instruction)) /\ Len(<< <<>> >>) = 1
    <3>1. <<>> \in Seq(Instruction)
      OBVIOUS
    <3>. QED  BY <3>1
  <2>7. Len(filled) = n
    BY <1>8, <2>5
  <2>8. c2 \in Seq(Seq(Instruction)) /\ Len(c2) = n + 1 /\ c2[n + 1] = <<>> /\ \A b \in 1 .. n : c2[b] = filled[b]
    <3>1. c2 \in Seq(Seq(Instruction))
      BY <2>1, <2>5, <2>6, ConcatProperties
    <3>2. Len(c2) = n + 1 /\ c2[n + 1] = <<>> /\ \A b \in 1 .. n : c2[b] = filled[b]
      <4>1. ASSUME NEW S, NEW s \in Seq(S), NEW e \in S
            PROVE  Len(s \o <<e>>) = Len(s) + 1 /\ (s \o <<e>>)[Len(s) + 1] = e /\ \A b \in 1 .. Len(s) : (s \o <<e>>)[b] = s[b]
        OBVIOUS
      <4>2. filled \in Seq(Seq(Instruction)) /\ <<>> \in Seq(Instruction)
        BY <2>5
      <4>. DEFINE e == <<>>
                  B == Seq(Instruction)
      <4>3. filled \in Seq(B) /\ e \in B
        BY <4>2
      <4>. HIDE DEF e, B
      <4>4. Len(filled \o <<e>>) = Len(filled) + 1 /\ (filled \o <<e>>)[Len(filled) + 1] = e
            /\ \A b \in 1 .. Len(filled) : (filled \o <<e>>)[b] = filled[b]
        BY <4>1, <4>3, SMTT(40)
      <4>5. c2 = filled \o <<e>> /\ e = <<>>
        BY <2>1, Zenon DEF e
      <4>6. Len(c2) = n + 1 /\ c2[n + 1] = e /\ \A b \in 1 .. n : c2[b] = filled[b]
        BY <2>7, <4>4, <4>5, Zenon
      <4>. QED  BY <4>5, <4>6, Zenon
    <3>. QED  BY <3>1, <3>2
  <2>9. c2[segment] = code[segment] \o is
    <3>1. closed[segment] = code[segment]
      BY <1>5, <1>8, <1>9
    <3>. QED  BY <1>5, <2>4, <2>5, <2>8, <3>1, Zenon
  <2>10. \A b \in 1 .. n : b # segment => c2[b] = closed[b]
    BY <1>8, <2>5, <2>8, Zenon
  <2>11. EndsBy(code, c2, segment, {top.merge})
    <3>1. (IF "Branch" \in Branches THEN ToSet(<<top.merge>>) ELSE {}) = {top.merge}
      BY <2>2, ToSetOf
    <3>. QED  BY <2>3, <2>9, <3>1, Zenon DEF EndsBy
  <2>. QED  BY <2>8, <2>10, <2>11
<1>11. ASSUME ~isEmpty PROVE c2 = closed /\ bp2 = segment
  BY <1>11
<1>12. isEmpty => bp2 = n + 1
  OBVIOUS
<1>. HIDE DEF c2, bp2, place
<1>13. ToSegment(code, buildPoint, c2, top, D, place, bp2)
  <2>1. segment = Segment(top)
    BY DEF segment, Segment
  <2>2. CASE isEmpty
    <3>1. place = "empty" /\ top.next = top.count /\ bp2 = n + 1 /\ Len(c2) = bp2 /\ c2[bp2] = <<>> /\ Len(c2) <= MaxBlocks
      BY <1>0, <1>e, <1>p, <1>10, <1>12, <2>2
    <3>2. \A b \in 1 .. n : b \notin D => c2[b] = code[b]
      BY <1>8, <1>9, <1>10, <2>2, <3>1
    <3>3. buildPoint \in D => EndsBy(code, c2, buildPoint, {segment})
      <4>1. c2[buildPoint] = closed[buildPoint]
        BY <1>1, <1>6, <1>10, <2>2
      <4>. QED  BY <1>8, <1>9, <4>1, Zenon DEF EndsBy
    <3>. QED  BY <1>d, <1>10, <2>1, <2>2, <3>1, <3>2, <3>3, Zenon DEF ToSegment
  <2>3. CASE ~isEmpty
    <3>1. place # "empty" /\ bp2 = segment /\ c2 = closed /\ Len(c2) = n /\ Len(c2) <= MaxBlocks /\ c2 \in Seq(Seq(Instruction))
      BY <1>1, <1>p, <1>8, <1>11, <2>3
    <3>2. \A b \in 1 .. n : b \notin D => c2[b] = code[b]
      BY <1>8, <1>9, <3>1
    <3>3. buildPoint \in D => EndsBy(code, c2, buildPoint, {segment})
      BY <1>8, <1>9, <3>1
    <3>. QED  BY <1>d, <1>9, <2>1, <3>1, <3>2, <3>3, Zenon DEF ToSegment
  <2>. QED  BY <2>2, <2>3
<1>14. f2 = [top EXCEPT !.next = @ + 1, !.place = place]
  OBVIOUS
<1>. HIDE DEF f2
<1>15. SwitchGoesOn(code, nest, buildPoint, c2, top, D, place, bp2, f2)
  BY <1>0, <1>1, <1>k, <1>p, <1>13, <1>14, Zenon DEF SwitchGoesOn
<1>16. \E g2 : Built(g2, c2, nest', bp2)
  BY <1>0, <1>1, <1>15, SegmentBuilt, Zenon
<1>. QED  BY <1>0, <1>16, Zenon DEF BuildInv

LEMMA BuildEndSwitch ==
    ASSUME StackInv, BuildInv, endSwitch
    PROVE  BuildInv'
<1>. DEFINE n == Len(code)
            put == Put(Made(1), buildPoint, <<Instr("Branch", <<Last(switchMerges)>>)>>)
            c2 == IF isTerminated(buildPoint) THEN code ELSE put
<1>0. /\ phase = "build" /\ phase' = phase /\ nest # <<>> /\ top.kind \in {"switch"} /\ top.next > top.count
      /\ code' = c2 /\ buildPoint' = Last(switchMerges) /\ nest' = Front(nest) /\ (isTerminated(buildPoint) \/ n + 1 <= MaxBlocks)
  BY DEF endSwitch, Inside, MayMake
<1>g. PICK g : Building(g)
  BY <1>0, BuildingFacts
<1>1. /\ Built(g, code, nest, buildPoint) /\ code \in Seq(Seq(Instruction)) /\ n \in Nat /\ n <= MaxBlocks
      /\ top = nest[Len(nest)] /\ Len(nest) \in DOMAIN nest
      /\ top.place # "head" => \A i \in DOMAIN nest : nest[i].place # "head"
      /\ top.place # "head" => ~isTerminated(buildPoint)
      /\ top.place = "head" => isTerminated(buildPoint) /\ buildPoint = top.header
  BY <1>0, <1>g DEF Building
<1>2. top.kind = "switch" /\ FrameOK(top)
  BY <1>0, <1>1, InnerFrame
<1>3. top.merge \in Nat
  BY <1>2, SwitchFacts
<1>4. Last(switchMerges) = top.merge
  <2>1. Stacks(nest, breakForLoop, loops, switchMerges)
    BY DEF StackInv
  <2>. QED  BY <1>0, <1>2, <2>1, StacksPop DEF top
<1>5. IF top.place = "head" THEN c2 = code ELSE EndsHere(code, buildPoint, c2, {top.merge})
  <2>1. ASSUME top.place # "head" PROVE EndsHere(code, buildPoint, c2, {top.merge})
    <3>1. c2 = put /\ n + 1 <= MaxBlocks
      BY <1>0, <1>1, <2>1
    <3>2. WithNew(Made(1), 1)
      BY <1>1, <3>1, MakesNew
    <3>3. <<top.merge>> \in Seq(Nat) /\ "Branch" \in Ends /\ "Branch" # "Return" /\ "Branch" \in Branches
      BY <1>3, Ops, NatTargets
    <3>4. EndsHere(code, buildPoint, put, IF "Branch" \in Branches THEN ToSet(<<top.merge>>) ELSE {})
      BY <1>1, <1>4, <2>1, <3>2, <3>3, PutHere
    <3>5. (IF "Branch" \in Branches THEN ToSet(<<top.merge>>) ELSE {}) = {top.merge}
      BY <3>3, ToSetOf
    <3>. HIDE DEF c2, put
    <3>. QED  BY <3>1, <3>4, <3>5
  <2>2. ASSUME top.place = "head" PROVE c2 = code
    BY <1>1, <2>2
  <2>. HIDE DEF c2
  <2>. QED  BY <2>1, <2>2
<1>. HIDE DEF c2
<1>6. EndsSwitch(code, nest, buildPoint, c2, top)
  BY <1>0, <1>1, <1>2, <1>5, Zenon DEF EndsSwitch
<1>7. \E g2 : Built(g2, c2, nest', top.merge)
  BY <1>0, <1>1, <1>6, SwitchClosed, Zenon
<1>. QED  BY <1>0, <1>4, <1>7, Zenon DEF BuildInv

\* loops
LEMMA HeadOfLoop ==
    ASSUME NEW mop \in Merges, NEW op \in Branches, NEW mt \in Seq(Nat), mt # <<>>, NEW t \in Seq(Nat)
    PROVE  LET is2 == <<>> \o <<Instr(mop, mt), Instr(op, t)>> IN
           /\ WellFormed(is2) /\ Terminated(is2) /\ MergeOf(is2) = mt /\ PhiOf(is2) = PhiOf(<<>>)
           /\ SuccOf(is2) = ToSet(t)
<1>. DEFINE e == <<>>
<1>1. WellFormed(e) /\ Fresh(e)
  BY EmptyBlock
<1>. HIDE DEF e
<1>2. LET is2 == e \o <<Instr(mop, mt), Instr(op, t)>> IN
      /\ WellFormed(is2) /\ Terminated(is2) /\ MergeOf(is2) = mt /\ PhiOf(is2) = PhiOf(e)
      /\ SuccOf(is2) = ToSet(t)
  BY <1>1, PutMerge, Zenon
<1>. QED  BY <1>2 DEF e

LoopStarts(place, k, next) ==
    /\ \/ place = "test" /\ k = 5 /\ next = New(5)
       \/ place = "body" /\ k = 4 /\ next = New(2)
    /\ loopHeader(k, next) /\ nest' = Append(nest, Loop(place))

LEMMA BuildLoopBegin ==
    ASSUME StackInv, BuildInv, NEW place, NEW k, NEW next, LoopStarts(place, k, next)
    PROVE  BuildInv'
<1>. DEFINE n == Len(code)
            c1 == Made(k)
            p1 == Put(c1, buildPoint, <<Instr("Branch", <<n + 1>>)>>)
            is == <<Instr("LoopMerge", <<n + 3, n + 4>>), Instr("Branch", <<next>>)>>
            c2 == Put(p1, n + 1, is)
            f == [kind |-> "loop", place |-> place, head |-> n + 1, body |-> n + 2, merge |-> n + 3,
                  continue_target |-> n + 4, testFirst |-> place = "test"]
<1>0. /\ phase = "build" /\ phase' = phase /\ n + k <= MaxBlocks
      /\ code' = c2 /\ buildPoint' = next /\ nest' = Append(nest, f)
  BY DEF LoopStarts, loopHeader, MayMake, New, Loop
<1>s. Statement
  BY DEF LoopStarts, loopHeader
<1>k. /\ k \in {4, 5} /\ k \in Nat /\ place \in {"test", "body"} /\ next \in {n + 2, n + 5}
      /\ place = "test" => k = 5 /\ next = n + 5
      /\ place = "body" => k = 4 /\ next = n + 2
  BY DEF LoopStarts, New
<1>g. PICK g : Building(g)
  BY <1>0, BuildingFacts
<1>1. /\ Built(g, code, nest, buildPoint) /\ code \in Seq(Seq(Instruction)) /\ n \in Nat
      /\ buildPoint \in 1 .. n
      /\ nest # <<>> => top = nest[Len(nest)]
  BY <1>g DEF Building
<1>2. \A i \in DOMAIN nest : nest[i].kind # "and" /\ nest[i].place \notin {"head", "empty", "test", "terminal"}
  <2>0. nest # <<>> => nest[Len(nest)].place \notin {"head", "empty"}
    BY <1>s, <1>1, Zenon DEF Statement, Expression
  <2>1. \A i \in DOMAIN nest : nest[i].place \notin {"head", "empty"}
    BY <1>1, <2>0, AllExpression, Zenon
  <2>. QED  BY <1>s, <2>1 DEF Statement
<1>3. \A i \in DOMAIN nest : nest[i].place # "head"
  BY <1>2
<1>4. n + 1 \in Nat /\ n + 3 \in Nat /\ n + 4 \in Nat /\ next \in Nat /\ n + 1 \in 1 .. n + k /\ buildPoint # n + 1 /\ n + k \in Nat
      /\ buildPoint \in 1 .. n + k /\ ~(n + 1 <= n)
  BY <1>1, <1>k
<1>5. WithNew(c1, k)
  BY <1>0, <1>1, <1>k, MakesNew
<1>6. <<n + 1>> \in Seq(Nat) /\ "Branch" \in Ends /\ "Branch" # "Return" /\ "Branch" \in Branches
  BY <1>4, Ops, NatTargets
<1>7. /\ p1 \in Seq(Seq(Instruction)) /\ Len(p1) = n + k /\ EndsHere(code, buildPoint, p1, {n + 1})
  <2>1. /\ p1 \in Seq(Seq(Instruction)) /\ Len(p1) = n + k
        /\ EndsHere(code, buildPoint, p1, IF "Branch" \in Branches THEN ToSet(<<n + 1>>) ELSE {})
    BY <1>1, <1>3, <1>5, <1>6, <1>k, PutHere
  <2>2. (IF "Branch" \in Branches THEN ToSet(<<n + 1>>) ELSE {}) = {n + 1}
    BY <1>6, ToSetOf
  <2>. HIDE DEF p1
  <2>. QED  BY <2>1, <2>2
<1>. HIDE DEF p1, f
<1>8. <<n + 3, n + 4>> \in Seq(Nat) /\ <<next>> \in Seq(Nat) /\ <<n + 3, n + 4>> # <<>> /\ ToSet(<<next>>) = {next}
  BY <1>4, NatTargets, ToSetOf
<1>9. "LoopMerge" \in Merges /\ "LoopMerge" \in Ends \cup Merges \cup {"Phi"} /\ "Branch" \in Ends \cup Merges \cup {"Phi"}
  BY Ops
<1>10. is \in Seq(Instruction)
  BY <1>8, <1>9, InstrSeq, Zenon
<1>11. LET is2 == <<>> \o is IN
       /\ WellFormed(is2) /\ Terminated(is2) /\ MergeOf(is2) = <<n + 3, n + 4>> /\ PhiOf(is2) = PhiOf(<<>>)
       /\ SuccOf(is2) = ToSet(<<next>>)
  BY <1>6, <1>8, <1>9, HeadOfLoop, Zenon
<1>. HIDE DEF is
<1>12. n + 1 \in 1 .. Len(p1)
  BY <1>4, <1>7
<1>13. c2 \in Seq(Seq(Instruction)) /\ Len(c2) = Len(p1) /\ \A d \in 1 .. Len(p1) : c2[d] = IF d = n + 1 THEN p1[d] \o is ELSE p1[d]
  BY <1>7, <1>10, <1>12, PutFacts, Zenon
<1>. HIDE DEF c2
<1>14. /\ \A b \in 1 .. n : b # buildPoint => p1[b] = code[b]
       /\ \A b \in 1 .. n + k : b > n => p1[b] = <<>>
       /\ EndsBy(code, p1, buildPoint, {n + 1})
  BY <1>7, Zenon DEF EndsHere
<1>15. c2[n + 1] = <<>> \o is
  <2>1. p1[n + 1] = <<>>
    BY <1>1, <1>4, <1>14
  <2>. QED  BY <1>12, <1>13, <2>1, Zenon
<1>16. EndsBy(code, c2, buildPoint, {n + 1})
  <2>1. c2[buildPoint] = p1[buildPoint]
    BY <1>4, <1>7, <1>13, Zenon
  <2>. QED  BY <1>14, <2>1, Zenon DEF EndsBy
<1>17. \A b \in 1 .. Len(c2) : b \notin {buildPoint, n + 1} => c2[b] = IF b <= n THEN code[b] ELSE <<>>
  <2>. SUFFICES ASSUME NEW b \in 1 .. n + k, b # buildPoint, b # n + 1 PROVE c2[b] = IF b <= n THEN code[b] ELSE <<>>
    BY <1>7, <1>13
  <2>1. c2[b] = p1[b]
    BY <1>7, <1>13, Zenon
  <2>2. b <= n => b \in 1 .. n
    BY <1>1, <1>4
  <2>3. ~(b <= n) => b > n
    BY <1>1, <1>4
  <2>. QED  BY <1>14, <2>1, <2>2, <2>3, Zenon
<1>18. Len(c2) = n + k /\ Len(c2) <= MaxBlocks
  BY <1>0, <1>7, <1>13
<1>19. /\ WellFormed(c2[n + 1]) /\ Terminated(c2[n + 1]) /\ PhiOf(c2[n + 1]) = <<>>
       /\ MergeOf(c2[n + 1]) = <<n + 3, n + 4>> /\ SuccOf(c2[n + 1]) = {next}
  BY <1>8, <1>11, <1>15, EmptyBlock, Zenon
<1>20. place = "test" => Len(c2) = n + 5 /\ next = n + 5
  BY <1>k, <1>18
<1>21. place = "body" => Len(c2) = n + 4 /\ next = n + 2
  BY <1>k, <1>18
<1>22. BeginsLoop(code, nest, buildPoint, c2, place, f, next)
  BY <1>k, <1>2, <1>13, <1>16, <1>17, <1>18, <1>19, <1>20, <1>21, Zenon DEF BeginsLoop, f
<1>23. \E g2 : Built(g2, c2, nest', next)
  BY <1>0, <1>1, <1>22, LoopBegun, Zenon
<1>. QED  BY <1>0, <1>23, Zenon DEF BuildInv

LEMMA BuildLoopTurn ==
    ASSUME StackInv, BuildInv, NEW testLast, endTest \/ endBody \/ closeLoop(testLast)
    PROVE  BuildInv'
<1>0. /\ phase = "build" /\ phase' = phase /\ nest # <<>> /\ top.kind \in {"loop"}
      /\ top.place \in {"test", "body", "terminal"}
  BY DEF endTest, endBody, closeLoop, Inside
<1>g. PICK g : Building(g)
  BY <1>0, BuildingFacts
<1>1. /\ Built(g, code, nest, buildPoint) /\ code \in Seq(Seq(Instruction)) /\ Len(code) \in Nat /\ Len(code) <= MaxBlocks
      /\ top = nest[Len(nest)] /\ \A i \in DOMAIN nest : nest[i].place # "head"
  BY <1>0, <1>g DEF Building
<1>2. top.kind = "loop" /\ top \in Frame
  BY <1>0, <1>1, <1>g, InnerFrame
<1>3. top.head \in Nat /\ top.body \in Nat /\ top.merge \in Nat /\ top.continue_target \in Nat
  BY <1>2, FrameKinds
<1>4. WithNew(code, 0)
  BY <1>1, MakesNew
<1>5. ASSUME NEW op \in Branches, NEW t \in Seq(Nat), NEW c2, c2 = Put(code, buildPoint, <<Instr(op, t)>>)
      PROVE  Len(c2) = Len(code) /\ EndsHere(code, buildPoint, c2, ToSet(t))
  <2>1. op \in Ends /\ op # "Return"
    BY Ops DEF Ends, Branches
  <2>2. /\ c2 \in Seq(Seq(Instruction)) /\ Len(c2) = Len(code) + 0
        /\ EndsHere(code, buildPoint, c2, IF op \in Branches THEN ToSet(t) ELSE {})
    BY <1>1, <1>4, <1>5, <2>1, PutHere
  <2>. QED  BY <1>1, <2>2
<1>6. "Branch" \in Branches /\ "BranchConditional" \in Branches
  BY DEF Branches
<1>7. ASSUME endTest PROVE \E g2 : Built(g2, code', nest', buildPoint')
  <2>. DEFINE f2 == [top EXCEPT !.place = "body"]
              t == <<top.body, top.merge>>
              c2 == Put(code, buildPoint, <<Instr("BranchConditional", t)>>)
  <2>1. top.place = "test" /\ code' = c2 /\ buildPoint' = top.body /\ nest' = Append(Front(nest), f2)
    BY <1>7 DEF endTest, Inside, SetTop
  <2>2. t \in Seq(Nat) /\ ToSet(t) = {top.body, top.merge}
    BY <1>3, NatTargets, ToSetOf
  <2>. HIDE DEF t, f2
  <2>3. Len(c2) = Len(code) /\ EndsHere(code, buildPoint, c2, {top.body, top.merge})
    BY <1>5, <1>6, <2>2
  <2>. HIDE DEF c2
  <2>4. LoopGoesOn(code, nest, buildPoint, c2, top, {top.body, top.merge}, "body", f2)
    BY <1>0, <1>1, <1>2, <2>3, Zenon DEF LoopGoesOn, f2
  <2>. QED  BY <1>1, <2>1, <2>4, TestBuilt, Zenon
<1>8. ASSUME endBody PROVE \E g2 : Built(g2, code', nest', buildPoint')
  <2>. DEFINE f2 == [top EXCEPT !.place = "terminal"]
              t == <<top.continue_target>>
              c2 == Put(code, buildPoint, <<Instr("Branch", t)>>)
  <2>1. top.place = "body" /\ code' = c2 /\ buildPoint' = top.continue_target /\ nest' = Append(Front(nest), f2)
    BY <1>8 DEF endBody, Inside, SetTop
  <2>2. t \in Seq(Nat) /\ ToSet(t) = {top.continue_target}
    BY <1>3, NatTargets, ToSetOf
  <2>. HIDE DEF t, f2
  <2>3. Len(c2) = Len(code) /\ EndsHere(code, buildPoint, c2, {top.continue_target})
    BY <1>5, <1>6, <2>2
  <2>. HIDE DEF c2
  <2>4. LoopGoesOn(code, nest, buildPoint, c2, top, {top.continue_target}, "terminal", f2)
    BY <1>0, <1>1, <1>2, <2>3, Zenon DEF LoopGoesOn, f2
  <2>. QED  BY <1>1, <2>1, <2>4, BodyBuilt, Zenon
<1>9. ASSUME closeLoop(testLast) PROVE \E g2 : Built(g2, code', nest', buildPoint')
  <2>. DEFINE op == IF testLast THEN "BranchConditional" ELSE "Branch"
              t == IF testLast THEN <<top.head, top.merge>> ELSE <<top.head>>
              c2 == Put(code, buildPoint, <<Instr(op, t)>>)
  <2>1. top.place = "terminal" /\ code' = c2 /\ buildPoint' = top.merge /\ nest' = Front(nest)
    <3>1. (IF testLast THEN Instr("BranchConditional", <<top.head, top.merge>>) ELSE Instr("Branch", <<top.head>>)) = Instr(op, t)
      OBVIOUS
    <3>. QED  BY <1>9, <3>1, Zenon DEF closeLoop, Inside
  <2>2. op \in Branches /\ t \in Seq(Nat) /\ ToSet(t) \subseteq {top.head, top.merge}
    <3>1. <<top.head, top.merge>> \in Seq(Nat) /\ ToSet(<<top.head, top.merge>>) = {top.head, top.merge}
      BY <1>3, NatTargets, ToSetOf
    <3>2. <<top.head>> \in Seq(Nat) /\ ToSet(<<top.head>>) = {top.head}
      BY <1>3, NatTargets, ToSetOf
    <3>. QED  BY <1>6, <3>1, <3>2
  <2>. HIDE DEF t, op
  <2>3. Len(c2) = Len(code) /\ EndsHere(code, buildPoint, c2, ToSet(t))
    BY <1>5, <2>2
  <2>. HIDE DEF c2
  <2>4. EndsLoop(code, nest, buildPoint, c2, top, ToSet(t))
    BY <1>0, <1>1, <1>2, <2>1, <2>2, <2>3, Zenon DEF EndsLoop
  <2>. QED  BY <1>1, <2>1, <2>4, LoopClosed, Zenon
<1>. QED  BY <1>0, <1>7, <1>8, <1>9, Zenon DEF BuildInv

\* every step keeps the graph of the code built
LEMMA BuildNext ==
    ASSUME StackInv, BuildInv, [Next]_vars
    PROVE  BuildInv'
<1>1. ASSUME NEW kind \in {"if", "and"}, If(kind) PROVE BuildInv'
  BY <1>1, BuildSelection
<1>2. ASSUME makeBeginElse \/ makeEndIf PROVE BuildInv'
  BY <1>2, BuildSelection
<1>3. ASSUME NEW s \in Segmentations, NEW lastEmpty \in BOOLEAN, makeSwitch(s, lastEmpty) PROVE BuildInv'
  BY <1>3, BuildMakeSwitch
<1>4. ASSUME nextSwitchSegment PROVE BuildInv'
  BY <1>4, BuildNextSegment
<1>5. ASSUME endSwitch PROVE BuildInv'
  BY <1>5, BuildEndSwitch
<1>6. ASSUME beginTestedLoop PROVE BuildInv'
  <2>1. LoopStarts("test", 5, New(5))
    BY <1>6, Zenon DEF beginTestedLoop, LoopStarts
  <2>. QED  BY <2>1, BuildLoopBegin
<1>7. ASSUME beginLoop PROVE BuildInv'
  <2>1. LoopStarts("body", 4, New(2))
    BY <1>7, Zenon DEF beginLoop, LoopStarts
  <2>. QED  BY <2>1, BuildLoopBegin
<1>8. ASSUME NEW testLast, endTest \/ endBody \/ closeLoop(testLast) PROVE BuildInv'
  BY <1>8, BuildLoopTurn
<1>9. ASSUME Break \/ Continue \/ ReturnOrDiscard PROVE BuildInv'
  BY <1>9, BuildJump
<1>10. ASSUME leaveFunction PROVE BuildInv'
  BY <1>10, BuildLeave
<1>11. ASSUME visitEntry \/ visitSuccessor \/ visitDelayed \/ leaveVisit PROVE BuildInv'
  <2>1. phase # "build" /\ phase' # "build" /\ code' = code /\ nest' = nest
    BY <1>11 DEF visitEntry, visitSuccessor, visitDelayed, leaveVisit, Visiting, builderVars
  <2>. QED  BY <2>1 DEF BuildInv
<1>12. ASSUME UNCHANGED vars PROVE BuildInv'
  BY <1>12 DEF BuildInv, vars, builderVars
<1>. QED  BY <1>1, <1>2, <1>3, <1>4, <1>5, <1>6, <1>7, <1>8, <1>9, <1>10, <1>11, <1>12, Zenon DEF Next
-----------------------------------------------------------------------------
(* The order of ReadableOrderTraverser over the edges of g: es are the     *)
(* blocks called back, late is delayed_, fs the frames of visit, and x the *)
(* block that a visit has been called for and has not yet met (0: none).   *)

\* x comes in s before the place j
Before(s, x, j) == \E i \in 1 .. j - 1 : s[i] = x

\* the merge block and the continue target of the construct that b heads
Delays(g, b) == IF g.mrg[b] = 0 THEN <<>> ELSE IF g.cnt[b] = 0 THEN <<g.mrg[b]>> ELSE <<g.mrg[b], g.cnt[b]>>

VisitFrame(n) == [block : 1 .. n, todo : Seq(1 .. n), merge : Seq(1 .. n)]

\* b may be written at the place j of es: its header and dominators, and for a merge block what leads on in the construct, come before
InPlace(g, es, j, b) ==
    /\ ~Dead(g, b)
    /\ \A h \in 1 .. g.n : g.mrg[h] # 0 /\ b \in g.region[h] \cup {g.mrg[h]} => Before(es, h, j)
    /\ \A d, R, Y : IsReachable(g, {}, R) /\ IsReachable(g, {d}, Y) /\ d \in R /\ b \in R \ Y /\ d # b => Before(es, d, j)
    /\ \A h \in 1 .. g.n : g.mrg[h] = b =>
         \A p \in 1 .. g.n : Before(es, p, j) /\ p \in g.region[h] \cup {h} =>
             \A s \in g.succ[p] \cap g.region[h] : Before(es, s, j)

\* a frame: its block is met, its successors still to come and what is delayed
FrameHolds(g, es, f) ==
    /\ Contains(es, f.block)
    /\ \A s : Contains(f.todo, s) => s \in g.succ[f.block]
    /\ f.merge # <<>> => g.mrg[f.block] # 0 /\ (f.merge = <<g.mrg[f.block]>> \/ f.merge = Delays(g, f.block))

\* what is left to do of the blocks met
Owed(g, es, late, fs, x) ==
    /\ \A b \in 1 .. g.n : Contains(es, b) => \A s \in g.succ[b] :
         \/ Contains(es, s) \/ s \in late \/ s = x
         \/ \E i \in 1 .. Len(fs) : fs[i].block = b /\ Contains(fs[i].todo, s)
    /\ \A h \in 1 .. g.n : Contains(es, h) => \A m \in {g.mrg[h], g.cnt[h]} \ {0} :
         \/ Contains(es, m) \/ m = x
         \/ \E i \in 1 .. Len(fs) : fs[i].block = h /\ Contains(fs[i].merge, m)

Traversal(g, es, late, fs, x) ==
    /\ Structured(g) /\ es \in Seq(1 .. g.n) /\ (es # <<>> => es[1] = 1) /\ fs \in Seq(VisitFrame(g.n))
    /\ \A i, j \in 1 .. Len(es) : es[i] = es[j] => i = j
    /\ \A j \in 1 .. Len(es) : InPlace(g, es, j, es[j])
    /\ \A i \in 1 .. Len(fs) : FrameHolds(g, es, fs[i])
    /\ \A i, j \in 1 .. Len(fs) : i < j => \E k \in 1 .. Len(es) : es[k] = fs[j].block /\ Before(es, fs[i].block, k)
    /\ \A m : m \in late <=> \E i \in 1 .. Len(fs) : Contains(fs[i].merge, m)
    /\ \A m \in late : ~Contains(es, m)
    /\ Owed(g, es, late, fs, x)

\* sequences
IsAppended(S, s, b, s2) ==
    /\ s2 \in Seq(S) /\ Len(s) \in Nat /\ Len(s2) = Len(s) + 1 /\ s2 # <<>> /\ s2[Len(s) + 1] = b
    /\ \A i \in 1 .. Len(s) : s2[i] = s[i] /\ i \in 1 .. Len(s2)
    /\ \A i \in 1 .. Len(s2) : i = Len(s) + 1 \/ i \in 1 .. Len(s)
    /\ \A x : Contains(s2, x) <=> Contains(s, x) \/ x = b
    /\ \A x : \A j \in 1 .. Len(s) + 1 : Before(s2, x, j) <=> Before(s, x, j)
    /\ \A x : Before(s2, x, Len(s) + 1) <=> Contains(s, x)

LEMMA Appended ==
    ASSUME NEW S, NEW s \in Seq(S), NEW b \in S
    PROVE  IsAppended(S, s, b, Append(s, b))
<1>. DEFINE s2 == Append(s, b)
<1>1. /\ s2 \in Seq(S) /\ Len(s) \in Nat /\ Len(s2) = Len(s) + 1 /\ s2 # <<>> /\ s2[Len(s) + 1] = b
      /\ \A i \in 1 .. Len(s) : s2[i] = s[i]
  OBVIOUS
<1>2. /\ \A i \in 1 .. Len(s) : i \in 1 .. Len(s2)
      /\ \A i \in 1 .. Len(s2) : i = Len(s) + 1 \/ i \in 1 .. Len(s)
      /\ Len(s) + 1 \in 1 .. Len(s2)
  BY <1>1
<1>3. \A x : Contains(s2, x) <=> Contains(s, x) \/ x = b
  BY <1>1, <1>2, Zenon DEF Contains
<1>4. \A j \in 1 .. Len(s) + 1 : \A i \in 1 .. j - 1 : i \in 1 .. Len(s)
  BY <1>1
<1>5. \A x : \A j \in 1 .. Len(s) + 1 : Before(s2, x, j) <=> Before(s, x, j)
  BY <1>1, <1>4, Zenon DEF Before
<1>6. 1 .. (Len(s) + 1) - 1 = 1 .. Len(s)
  BY <1>1
<1>7. \A x : Before(s2, x, Len(s) + 1) <=> Contains(s, x)
  BY <1>1, <1>6, Zenon DEF Before, Contains
<1>. HIDE DEF s2
<1>8. IsAppended(S, s, b, s2)
  BY <1>1, <1>2, <1>3, <1>5, <1>7, Zenon DEF IsAppended
<1>. QED  BY <1>8 DEF s2

\* the last member replaced
LEMMA FrontBack ==
    ASSUME NEW S, NEW s \in Seq(S), s # <<>>, NEW b \in S, NEW s2, s2 = Append(Front(s), b)
    PROVE  /\ s2 \in Seq(S) /\ Len(s) \in Nat \ {0} /\ Len(s2) = Len(s) /\ s2[Len(s)] = b /\ Last(s) = s[Len(s)] /\ Last(s) \in S
           /\ Len(s) \in 1 .. Len(s)
           /\ \A i \in 1 .. Len(s) : i # Len(s) => s2[i] = s[i] /\ i < Len(s)
<1>1. /\ Len(s) \in Nat \ {0} /\ Front(s) \in Seq(S) /\ Len(Front(s)) = Len(s) - 1 /\ Last(s) = s[Len(s)] /\ Last(s) \in S
      /\ \A i \in 1 .. Len(s) - 1 : Front(s)[i] = s[i]
  BY FrontFacts
<1>. DEFINE r == Front(s)
<1>. HIDE DEF r
<1>2. /\ Append(r, b) \in Seq(S) /\ Len(Append(r, b)) = Len(r) + 1 /\ Append(r, b)[Len(r) + 1] = b
      /\ \A i \in 1 .. Len(r) : Append(r, b)[i] = r[i]
  BY <1>1 DEF r
<1>3. Len(r) + 1 = Len(s) /\ Len(s) \in 1 .. Len(s) /\ \A i \in 1 .. Len(s) : i # Len(s) => i \in 1 .. Len(r) /\ i \in 1 .. Len(s) - 1 /\ i < Len(s)
  BY <1>1 DEF r
<1>4. s2 = Append(r, b) /\ \A i \in 1 .. Len(s) - 1 : r[i] = s[i]
  BY <1>1 DEF r
<1>. QED  BY <1>1, <1>2, <1>3, <1>4, Zenon

\* the first member taken off
LEMMA HeadTail ==
    ASSUME NEW S, NEW s \in Seq(S), s # <<>>
    PROVE  /\ Head(s) \in S /\ Tail(s) \in Seq(S) /\ Contains(s, Head(s))
           /\ \A x : Contains(s, x) <=> x = Head(s) \/ Contains(Tail(s), x)
<1>1. Len(s) \in Nat \ {0} /\ Head(s) = s[1] /\ Head(s) \in S /\ Tail(s) \in Seq(S) /\ Len(Tail(s)) = Len(s) - 1
      /\ \A i \in 1 .. Len(s) - 1 : Tail(s)[i] = s[i + 1]
  <2>1. Len(s) \in Nat \ {0} /\ Head(s) = s[1]
    OBVIOUS
  <2>2. Head(s) \in S
    BY <2>1
  <2>3. Tail(s) \in Seq(S) /\ Len(Tail(s)) = Len(s) - 1
    BY HeadTailProperties, Zenon
  <2>4. ASSUME NEW i \in 1 .. Len(s) - 1 PROVE Tail(s)[i] = s[i + 1]
    <3>1. \A k \in 1 .. Len(Tail(s)) : Tail(s)[k] = s[k + 1]
      BY HeadTailProperties, Zenon
    <3>. QED  BY <2>3, <3>1, Zenon
  <2>. QED  BY <2>1, <2>2, <2>3, <2>4
<1>2. 1 \in 1 .. Len(s) /\ \A i \in 1 .. Len(s) : i = 1 \/ (i - 1 \in 1 .. Len(s) - 1 /\ (i - 1) + 1 = i)
  BY <1>1
<1>3. \A i \in 1 .. Len(s) - 1 : i + 1 \in 1 .. Len(s)
  BY <1>1
<1>4. ASSUME NEW x, Contains(s, x) PROVE x = Head(s) \/ Contains(Tail(s), x)
  BY <1>1, <1>2, <1>4, SMTT(40) DEF Contains
<1>5. ASSUME NEW x, x = Head(s) \/ Contains(Tail(s), x) PROVE Contains(s, x)
  BY <1>1, <1>2, <1>3, <1>5, Zenon DEF Contains
<1>. QED  BY <1>1, <1>4, <1>5

LEMMA ContainsFew ==
    /\ \A x : ~Contains(<<>>, x)
    /\ \A m, x : Contains(<<m>>, x) <=> x = m
    /\ \A m, c, x : Contains(<<m, c>>, x) <=> x = m \/ x = c
<1>1. \A x : ~Contains(<<>>, x)
  BY DEF Contains
<1>2. ASSUME NEW m, NEW x PROVE Contains(<<m>>, x) <=> x = m
  BY DEF Contains
<1>3. ASSUME NEW m, NEW c, NEW x PROVE Contains(<<m, c>>, x) <=> x = m \/ x = c
  <2>1. Len(<<m, c>>) = 2 /\ <<m, c>>[1] = m /\ <<m, c>>[2] = c
    OBVIOUS
  <2>2. 1 \in 1 .. 2 /\ 2 \in 1 .. 2 /\ \A i \in 1 .. 2 : i = 1 \/ i = 2
    OBVIOUS
  <2>. QED  BY <2>1, <2>2, Zenon DEF Contains
<1>. QED  BY <1>1, <1>2, <1>3

LEMMA BeforeIn ==
    ASSUME NEW S, NEW s \in Seq(S), NEW x
    PROVE  /\ \A j \in 1 .. Len(s) + 1 : Before(s, x, j) => Contains(s, x)
           /\ Contains(s, x) => x \in S
<1>1. Len(s) \in Nat /\ \A i \in 1 .. Len(s) : s[i] \in S
  OBVIOUS
<1>2. \A j \in 1 .. Len(s) + 1 : \A i \in 1 .. j - 1 : i \in 1 .. Len(s)
  BY <1>1
<1>. QED  BY <1>1, <1>2, Zenon DEF Before, Contains

\* what a header delays is its construct's
LEMMA DelaysFacts ==
    ASSUME NEW g, Structured(g), NEW b \in 1 .. g.n
    PROVE  /\ Delays(g, b) \in Seq(1 .. g.n)
           /\ \A m : Contains(Delays(g, b), m) <=> m \in {g.mrg[b], g.cnt[b]} \ {0}
           /\ \A m \in {g.mrg[b], g.cnt[b]} \ {0} :
                m \in 1 .. g.n /\ m # b /\ m \in Owned(g) /\ g.mrg[b] # 0 /\ m \in g.region[b] \cup {g.mrg[b]}
           /\ Delays(g, b) # <<>> => g.mrg[b] # 0
<1>1. /\ g.mrg[b] \in 0 .. g.n /\ g.cnt[b] \in 0 .. g.n /\ (g.mrg[b] = 0 => g.cnt[b] = 0) /\ g.region[b] \subseteq 2 .. g.n /\ g.n \in Nat
      /\ g.mrg[b] # 0 => g.mrg[b] \in 1 .. g.n /\ g.mrg[b] \notin g.region[b] \cup {1, b} /\ b \notin g.region[b]
      /\ g.cnt[b] # 0 => g.cnt[b] \in g.region[b]
  BY ConstructFacts
<1>2. g.cnt[b] # 0 => g.cnt[b] \in 1 .. g.n
  BY <1>1
<1>3. CASE g.mrg[b] = 0
  <2>1. Delays(g, b) = <<>>
    BY <1>3 DEF Delays
  <2>2. <<>> \in Seq(1 .. g.n)
    OBVIOUS
  <2>. QED  BY <1>1, <1>3, <2>1, <2>2, ContainsFew
<1>4. CASE g.mrg[b] # 0 /\ g.cnt[b] = 0
  <2>. DEFINE m == g.mrg[b]
  <2>1. Delays(g, b) = <<m>> /\ m \in 1 .. g.n
    BY <1>1, <1>4 DEF Delays
  <2>2. ASSUME NEW S, NEW x \in S PROVE <<x>> \in Seq(S)
    OBVIOUS
  <2>3. Delays(g, b) \in Seq(1 .. g.n)
    BY <2>1, <2>2
  <2>4. \A x : Contains(Delays(g, b), x) <=> x = g.mrg[b]
    BY <2>1, ContainsFew
  <2>5. b \in 1 .. g.n /\ m \in Owned(g)
    BY <2>1 DEF Owned
  <2>. HIDE DEF m
  <2>. QED  BY <1>1, <1>4, <2>3, <2>4, <2>5 DEF m
<1>5. CASE g.mrg[b] # 0 /\ g.cnt[b] # 0
  <2>. DEFINE m == g.mrg[b]
              c == g.cnt[b]
  <2>1. Delays(g, b) = <<m, c>> /\ m \in 1 .. g.n /\ c \in 1 .. g.n
    BY <1>1, <1>2, <1>5 DEF Delays
  <2>2. ASSUME NEW S, NEW x \in S, NEW y \in S PROVE <<x, y>> \in Seq(S)
    OBVIOUS
  <2>3. Delays(g, b) \in Seq(1 .. g.n)
    BY <2>1, <2>2
  <2>4. \A x : Contains(Delays(g, b), x) <=> x = m \/ x = c
    BY <2>1, ContainsFew
  <2>5. m \in Owned(g) /\ c \in Owned(g)
    BY <2>1 DEF Owned
  <2>. HIDE DEF m, c
  <2>6. c # b /\ c \in g.region[b]
    BY <1>1, <1>5 DEF c
  <2>. QED  BY <1>1, <1>5, <2>1, <2>3, <2>4, <2>5, <2>6 DEF m, c
<1>. QED  BY <1>3, <1>4, <1>5

\* what has been met before the place j is all that counts
LEMMA InPlaceKept ==
    ASSUME NEW g, NEW es, NEW es2, NEW j, NEW j2, NEW b, InPlace(g, es, j, b), \A x : Before(es2, x, j2) <=> Before(es, x, j)
    PROVE  InPlace(g, es2, j2, b)
  BY Zenon DEF InPlace

\* visit(x) for a block that is not shut
Meets(g, es, late, fs, x, todo, es2, late2, fs2) ==
    /\ x \in 1 .. g.n /\ x \notin late /\ ~Contains(es, x) /\ InPlace(g, es, Len(es) + 1, x)
    /\ todo \in Seq(1 .. g.n) /\ \A s : Contains(todo, s) <=> s \in g.succ[x]
    /\ es = <<>> => x = 1
    /\ es2 = Append(es, x) /\ \A m : m \in late2 <=> m \in late \/ Contains(Delays(g, x), m)
    /\ fs2 = Append(fs, [block |-> x, todo |-> todo, merge |-> Delays(g, x)])

\* a block called back is in order, and its frame is owed its successors and delays
LEMMA Met ==
    ASSUME NEW g, NEW es, NEW late, NEW fs, NEW x, Traversal(g, es, late, fs, x),
           NEW todo, NEW es2, NEW late2, NEW fs2, Meets(g, es, late, fs, x, todo, es2, late2, fs2)
    PROVE  Traversal(g, es2, late2, fs2, 0)
<1>. DEFINE f == [block |-> x, todo |-> todo, merge |-> Delays(g, x)]
            n == Len(es) + 1
<1>0. /\ x \in 1 .. g.n /\ x \notin late /\ ~Contains(es, x) /\ InPlace(g, es, n, x)
      /\ todo \in Seq(1 .. g.n) /\ \A s : Contains(todo, s) <=> s \in g.succ[x]
      /\ es = <<>> => x = 1
      /\ es2 = Append(es, x) /\ \A m : m \in late2 <=> m \in late \/ Contains(Delays(g, x), m)
      /\ fs2 = Append(fs, f)
  BY DEF Meets
<1>t. /\ Structured(g) /\ es \in Seq(1 .. g.n) /\ (es # <<>> => es[1] = 1) /\ fs \in Seq(VisitFrame(g.n))
      /\ \A i, j \in 1 .. Len(es) : es[i] = es[j] => i = j
      /\ \A j \in 1 .. Len(es) : InPlace(g, es, j, es[j])
      /\ \A i \in 1 .. Len(fs) : FrameHolds(g, es, fs[i])
      /\ \A i, j \in 1 .. Len(fs) : i < j => \E k \in 1 .. Len(es) : es[k] = fs[j].block /\ Before(es, fs[i].block, k)
      /\ \A m : m \in late <=> \E i \in 1 .. Len(fs) : Contains(fs[i].merge, m)
      /\ \A m \in late : ~Contains(es, m)
      /\ Owed(g, es, late, fs, x)
  BY DEF Traversal
<1>d. /\ Delays(g, x) \in Seq(1 .. g.n)
      /\ \A m : Contains(Delays(g, x), m) <=> m \in {g.mrg[x], g.cnt[x]} \ {0}
      /\ \A m \in {g.mrg[x], g.cnt[x]} \ {0} : m \in 1 .. g.n /\ m # x /\ g.mrg[x] # 0 /\ m \in g.region[x] \cup {g.mrg[x]}
      /\ Delays(g, x) # <<>> => g.mrg[x] # 0
  BY <1>0, <1>t, DelaysFacts
<1>f. f \in VisitFrame(g.n) /\ f.block = x /\ f.todo = todo /\ f.merge = Delays(g, x)
  BY <1>0, <1>d DEF VisitFrame
<1>. HIDE DEF f
<1>a. es \in Seq(1 .. g.n) /\ x \in 1 .. g.n /\ es2 = Append(es, x)
  BY <1>0, <1>t
<1>b. fs \in Seq(VisitFrame(g.n)) /\ f \in VisitFrame(g.n) /\ fs2 = Append(fs, f)
  BY <1>0, <1>t, <1>f
<1>1. /\ es2 \in Seq(1 .. g.n) /\ Len(es) \in Nat /\ Len(es2) = n /\ es2 # <<>> /\ es2[n] = x
      /\ \A i \in 1 .. Len(es) : es2[i] = es[i] /\ i \in 1 .. Len(es2)
      /\ \A i \in 1 .. Len(es2) : i = n \/ i \in 1 .. Len(es)
      /\ \A y : Contains(es2, y) <=> Contains(es, y) \/ y = x
      /\ \A y : \A j \in 1 .. n : Before(es2, y, j) <=> Before(es, y, j)
      /\ \A y : Before(es2, y, n) <=> Contains(es, y)
  <2>1. IsAppended(1 .. g.n, es, x, es2)
    BY <1>a, Appended, Zenon
  <2>. QED  BY <2>1, Zenon DEF IsAppended
<1>2. /\ fs2 \in Seq(VisitFrame(g.n)) /\ Len(fs) \in Nat /\ Len(fs2) = Len(fs) + 1 /\ fs2[Len(fs) + 1] = f
      /\ \A i \in 1 .. Len(fs) : fs2[i] = fs[i] /\ i \in 1 .. Len(fs2)
      /\ \A i \in 1 .. Len(fs2) : i = Len(fs) + 1 \/ i \in 1 .. Len(fs)
  <2>1. IsAppended(VisitFrame(g.n), fs, f, fs2)
    BY <1>b, Appended, Zenon
  <2>. QED  BY <2>1, Zenon DEF IsAppended
<1>3. /\ es # <<>> => 1 \in 1 .. Len(es)
      /\ es = <<>> => n = 1
      /\ n \in 1 .. Len(es2) /\ Len(fs) + 1 \in 1 .. Len(fs2)
      /\ \A i \in 1 .. Len(es) : i \in 1 .. n /\ i # n
      /\ \A i \in 1 .. Len(fs) : ~(Len(fs) + 1 < i) /\ ~(Len(fs) + 1 < Len(fs) + 1)
  BY <1>t, <1>1, <1>2
<1>. HIDE DEF n
<1>4. es2[1] = 1
  BY <1>0, <1>t, <1>1, <1>3
<1>5. \A i, j \in 1 .. Len(es2) : es2[i] = es2[j] => i = j
  <2>1. \A i \in 1 .. Len(es) : es2[i] # x /\ es2[i] = es[i]
    BY <1>0, <1>1 DEF Contains
  <2>. QED  BY <1>t, <1>1, <2>1
<1>6. \A j \in 1 .. Len(es2) : InPlace(g, es2, j, es2[j])
  <2>1. ASSUME NEW j \in 1 .. Len(es) PROVE InPlace(g, es2, j, es2[j])
    <3>1. InPlace(g, es, j, es2[j]) /\ \A y : Before(es2, y, j) <=> Before(es, y, j)
      BY <1>t, <1>1, <1>3, <2>1
    <3>. QED  BY <3>1, InPlaceKept, Zenon
  <2>2. InPlace(g, es2, n, es2[n])
    <3>1. \A y : Before(es2, y, n) <=> Before(es, y, n)
      BY <1>1, <1>3
    <3>2. InPlace(g, es, n, x) /\ es2[n] = x
      BY <1>0, <1>1
    <3>. QED  BY <3>1, <3>2, InPlaceKept, Zenon
  <2>. QED  BY <1>1, <2>1, <2>2
<1>7. \A i \in 1 .. Len(fs2) : FrameHolds(g, es2, fs2[i])
  <2>1. ASSUME NEW i \in 1 .. Len(fs) PROVE FrameHolds(g, es2, fs2[i])
    BY <1>t, <1>1, <1>2, <2>1, Zenon DEF FrameHolds
  <2>2. FrameHolds(g, es2, fs2[Len(fs) + 1])
    BY <1>0, <1>1, <1>2, <1>d, <1>f, Zenon DEF FrameHolds
  <2>. QED  BY <1>2, <2>1, <2>2, Zenon
<1>8. \A i, j \in 1 .. Len(fs2) : i < j => \E k \in 1 .. Len(es2) : es2[k] = fs2[j].block /\ Before(es2, fs2[i].block, k)
  <2>. SUFFICES ASSUME NEW i \in 1 .. Len(fs2), NEW j \in 1 .. Len(fs2), i < j
                PROVE  \E k \in 1 .. Len(es2) : es2[k] = fs2[j].block /\ Before(es2, fs2[i].block, k)
    OBVIOUS
  <2>0. i \in 1 .. Len(fs)
    BY <1>2
  <2>1. CASE j \in 1 .. Len(fs)
    <3>1. PICK k \in 1 .. Len(es) : es[k] = fs[j].block /\ Before(es, fs[i].block, k)
      BY <1>t, <2>0, <2>1
    <3>2. fs2[i] = fs[i] /\ fs2[j] = fs[j] /\ k \in 1 .. Len(es2) /\ es2[k] = es[k] /\ (Before(es2, fs[i].block, k) <=> Before(es, fs[i].block, k))
      BY <1>1, <1>2, <1>3, <2>0, <2>1
    <3>. QED  BY <3>1, <3>2
  <2>2. CASE j = Len(fs) + 1
    <3>1. fs2[i] = fs[i] /\ Contains(es, fs[i].block) /\ Before(es2, fs[i].block, n)
      BY <1>t, <1>1, <1>2, <2>0 DEF FrameHolds
    <3>2. es2[n] = fs2[j].block /\ n \in 1 .. Len(es2)
      BY <1>1, <1>2, <1>3, <1>f, <2>2
    <3>. QED  BY <3>1, <3>2
  <2>. QED  BY <1>2, <2>1, <2>2
<1>9. \A m : m \in late2 <=> \E i \in 1 .. Len(fs2) : Contains(fs2[i].merge, m)
  <2>1. ASSUME NEW m, m \in late2 PROVE \E i \in 1 .. Len(fs2) : Contains(fs2[i].merge, m)
    <3>1. CASE m \in late
      BY <1>t, <1>2, <3>1
    <3>2. CASE Contains(Delays(g, x), m)
      BY <1>2, <1>3, <1>f, <3>2
    <3>. QED  BY <1>0, <2>1, <3>1, <3>2
  <2>2. ASSUME NEW m, NEW i \in 1 .. Len(fs2), Contains(fs2[i].merge, m) PROVE m \in late2
    <3>1. CASE i \in 1 .. Len(fs)
      <4>1. Contains(fs[i].merge, m)
        BY <1>2, <2>2, <3>1
      <4>. QED  BY <1>0, <1>t, <3>1, <4>1
    <3>2. CASE i = Len(fs) + 1
      <4>1. Contains(Delays(g, x), m)
        BY <1>2, <1>f, <2>2, <3>2
      <4>. QED  BY <1>0, <4>1
    <3>. QED  BY <1>2, <3>1, <3>2
  <2>. QED  BY <2>1, <2>2
<1>10. \A m \in late2 : ~Contains(es2, m)
  <2>1. ASSUME NEW m \in late PROVE ~Contains(es2, m)
    BY <1>0, <1>t, <1>1, <2>1
  <2>2. ASSUME NEW m, Contains(Delays(g, x), m), Contains(es2, m) PROVE FALSE
    <3>1. m \in {g.mrg[x], g.cnt[x]} \ {0} /\ m # x /\ g.mrg[x] # 0 /\ m \in g.region[x] \cup {g.mrg[x]} /\ Contains(es, m)
      BY <1>1, <1>d, <2>2
    <3>2. PICK j \in 1 .. Len(es) : es[j] = m
      BY <3>1 DEF Contains
    <3>3. Before(es, x, j) /\ j \in 1 .. Len(es) + 1
      BY <1>0, <1>1, <1>t, <3>1, <3>2 DEF InPlace
    <3>. QED  BY <1>0, <1>t, <3>3, BeforeIn, Zenon
  <2>. QED  BY <1>0, <2>1, <2>2
<1>11. Owed(g, es2, late2, fs2, 0)
  <2>1. ASSUME NEW b \in 1 .. g.n, Contains(es2, b), NEW s \in g.succ[b]
        PROVE  \/ Contains(es2, s) \/ s \in late2 \/ s = 0
               \/ \E i \in 1 .. Len(fs2) : fs2[i].block = b /\ Contains(fs2[i].todo, s)
    <3>1. CASE b = x
      <4>1. Contains(f.todo, s) /\ f.block = b
        BY <1>0, <1>f, <2>1, <3>1
      <4>. QED  BY <1>2, <1>3, <4>1
    <3>2. CASE Contains(es, b)
      <4>1. \/ Contains(es, s) \/ s \in late \/ s = x
            \/ \E i \in 1 .. Len(fs) : fs[i].block = b /\ Contains(fs[i].todo, s)
        BY <1>t, <2>1, <3>2 DEF Owed
      <4>. QED  BY <1>0, <1>1, <1>2, <4>1, Zenon
    <3>. QED  BY <1>1, <2>1, <3>1, <3>2
  <2>2. ASSUME NEW h \in 1 .. g.n, Contains(es2, h), NEW m \in {g.mrg[h], g.cnt[h]} \ {0}
        PROVE  \/ Contains(es2, m) \/ m = 0
               \/ \E i \in 1 .. Len(fs2) : fs2[i].block = h /\ Contains(fs2[i].merge, m)
    <3>1. CASE h = x
      <4>1. Contains(f.merge, m) /\ f.block = h
        BY <1>d, <1>f, <2>2, <3>1
      <4>. QED  BY <1>2, <1>3, <4>1
    <3>2. CASE Contains(es, h)
      <4>1. \/ Contains(es, m) \/ m = x
            \/ \E i \in 1 .. Len(fs) : fs[i].block = h /\ Contains(fs[i].merge, m)
        BY <1>t, <2>2, <3>2 DEF Owed
      <4>. QED  BY <1>1, <1>2, <4>1, Zenon
    <3>. QED  BY <1>1, <2>2, <3>1, <3>2
  <2>. QED  BY <2>1, <2>2 DEF Owed
<1>. QED  BY <1>t, <1>1, <1>2, <1>4, <1>5, <1>6, <1>7, <1>8, <1>9, <1>10, <1>11, Zenon DEF Traversal

\* where the traversal begins
LEMMA NothingMet ==
    ASSUME NEW g, Structured(g)
    PROVE  Traversal(g, <<>>, {}, <<>>, 1) /\ InPlace(g, <<>>, 1, 1) /\ 1 \in 1 .. g.n
<1>1. 1 \in 1 .. g.n /\ \A h \in 1 .. g.n : 1 \notin g.region[h] /\ g.mrg[h] # 1
  <2>1. Typed(g)
    BY DEF Structured
  <2>2. 1 \in 1 .. g.n
    BY <2>1 DEF Typed
  <2>. QED  BY <2>2, ConstructFacts
<1>2. \A d, Y : IsReachable(g, {d}, Y) /\ d # 1 => 1 \in Y
  BY DEF IsReachable
<1>3. InPlace(g, <<>>, 1, 1)
  BY <1>1, <1>2 DEF InPlace, Dead
<1>. DEFINE e == <<>>
<1>4. e \in Seq(1 .. g.n) /\ e \in Seq(VisitFrame(g.n)) /\ e = <<>> /\ \A i : i \notin 1 .. Len(e)
  OBVIOUS
<1>5. \A y : ~Contains(e, y)
  BY ContainsFew
<1>. HIDE DEF e
<1>6. Owed(g, e, {}, e, 1)
  BY <1>5 DEF Owed
<1>7. Traversal(g, e, {}, e, 1)
  BY <1>4, <1>6, Zenon DEF Traversal
<1>. QED  BY <1>1, <1>3, <1>7 DEF e

\* a block met is alive, after its headers and dominators
LEMMA EarlierFacts ==
    ASSUME NEW g, NEW es, NEW late, NEW fs, NEW x, Traversal(g, es, late, fs, x), NEW b, Contains(es, b)
    PROVE  /\ b \in 1 .. g.n /\ ~Dead(g, b)
           /\ \A h \in 1 .. g.n : g.mrg[h] # 0 /\ b \in g.region[h] \cup {g.mrg[h]} => Contains(es, h)
           /\ \A d, R, Y : IsReachable(g, {}, R) /\ IsReachable(g, {d}, Y) /\ d \in R /\ b \in R \ Y => Contains(es, d)
<1>1. es \in Seq(1 .. g.n) /\ \A j \in 1 .. Len(es) : InPlace(g, es, j, es[j])
  BY DEF Traversal
<1>2. PICK j \in 1 .. Len(es) : es[j] = b
  BY DEF Contains
<1>3. InPlace(g, es, j, b)
  BY <1>1, <1>2
<1>4. Len(es) \in Nat
  BY <1>1
<1>5. j \in 1 .. Len(es) + 1
  BY <1>4
<1>6. \A y : Before(es, y, j) => Contains(es, y)
  BY <1>1, <1>5, BeforeIn, Zenon
<1>7. b \in 1 .. g.n
  BY <1>1, BeforeIn, Zenon
<1>8. /\ ~Dead(g, b)
      /\ \A h \in 1 .. g.n : g.mrg[h] # 0 /\ b \in g.region[h] \cup {g.mrg[h]} => Contains(es, h)
  BY <1>3, <1>6, Zenon DEF InPlace
<1>9. ASSUME NEW d, NEW R, NEW Y, IsReachable(g, {}, R), IsReachable(g, {d}, Y), d \in R, b \in R \ Y PROVE Contains(es, d)
  <2>1. CASE d = b
    BY <2>1
  <2>2. CASE d # b
    BY <1>3, <1>6, <1>9, <2>2, Zenon DEF InPlace
  <2>. QED  BY <2>1, <2>2
<1>. QED  BY <1>7, <1>8, <1>9

\* a merge block or target whose construct has been met is met, or delayed
LEMMA OwedFacts ==
    ASSUME NEW g, NEW es, NEW late, NEW fs, Traversal(g, es, late, fs, 0)
    PROVE  /\ \A h \in 1 .. g.n : Contains(es, h) => \A m \in {g.mrg[h], g.cnt[h]} \ {0} : Contains(es, m) \/ m \in late
           /\ \A b \in 1 .. g.n : Contains(es, b) => \A s \in g.succ[b] :
                Contains(es, s) \/ s \in late \/ \E i \in 1 .. Len(fs) : fs[i].block = b /\ Contains(fs[i].todo, s)
<1>1. /\ Owed(g, es, late, fs, 0) /\ Structured(g)
      /\ \A m : m \in late <=> \E i \in 1 .. Len(fs) : Contains(fs[i].merge, m)
  BY DEF Traversal
<1>2. ASSUME NEW h \in 1 .. g.n, Contains(es, h), NEW m \in {g.mrg[h], g.cnt[h]} \ {0} PROVE Contains(es, m) \/ m \in late
  BY <1>1, <1>2 DEF Owed
<1>3. ASSUME NEW b \in 1 .. g.n, Contains(es, b), NEW s \in g.succ[b]
      PROVE  Contains(es, s) \/ s \in late \/ \E i \in 1 .. Len(fs) : fs[i].block = b /\ Contains(fs[i].todo, s)
  <2>1. s # 0
    BY <1>1, ConstructFacts
  <2>. QED  BY <1>1, <1>3, <2>1 DEF Owed
<1>. QED  BY <1>2, <1>3

\* what a successor of a met block needs to be written
LEMMA SuccessorInPlace ==
    ASSUME NEW g, NEW es, NEW late, NEW fs, Traversal(g, es, late, fs, 0),
           NEW p, Contains(es, p), NEW b \in g.succ[p], ~Contains(es, b), b \notin late
    PROVE  InPlace(g, es, Len(es) + 1, b)
<1>1. Structured(g) /\ es \in Seq(1 .. g.n) /\ (es # <<>> => es[1] = 1)
  BY DEF Traversal
<1>2. p \in 1 .. g.n /\ b \in 1 .. g.n
  <2>1. p \in 1 .. g.n
    BY EarlierFacts
  <2>. QED  BY <1>1, <2>1, ConstructFacts
<1>e. Enters(g, p, b)
  BY <1>1, <1>2 DEF Structured, Edges
<1>3. \A y : Before(es, y, Len(es) + 1) <=> Contains(es, y)
  <2>1. IsAppended(1 .. g.n, es, b, Append(es, b))
    BY <1>1, <1>2, Appended, Zenon
  <2>2. Len(es) + 1 \in 1 .. Len(es) + 1
    BY <1>1
  <2>. QED  BY <2>1, <2>2, Zenon DEF IsAppended
<1>4. ~Dead(g, b)
  BY <1>2 DEF Dead, NoPredecessor
<1>5. ASSUME NEW h \in 1 .. g.n, g.mrg[h] # 0, p \in g.region[h] \cup {h} PROVE Contains(es, h)
  BY <1>5, EarlierFacts
<1>6. ASSUME NEW h \in 1 .. g.n, g.mrg[h] # 0, b \in g.region[h] \cup {g.mrg[h]} PROVE Contains(es, h)
  BY <1>e, <1>5, <1>6 DEF Enters
<1>7. b \notin Owned(g)
  <2>1. ASSUME NEW h \in 1 .. g.n, b = g.mrg[h] \/ b = g.cnt[h] PROVE FALSE
    <3>1. b # 0 /\ (g.mrg[h] = 0 => g.cnt[h] = 0) /\ (g.cnt[h] # 0 => g.cnt[h] \in g.region[h])
      BY <1>1, <1>2, ConstructFacts
    <3>2. Contains(es, h)
      BY <1>6, <2>1, <3>1
    <3>3. Contains(es, b) \/ b \in late
      BY <2>1, <3>1, <3>2, OwedFacts
    <3>. QED  BY <3>3
  <2>. QED  BY <2>1 DEF Owned
<1>8. PICK q \in 1 .. g.n : ForwardFrom(g, b, q)
  BY <1>1, <1>2, <1>7 DEF Structured, Forward
<1>9. /\ \A r \in 1 .. g.n : b \in g.succ[r] => r = q \/ r \in g.region[b] \/ (r \in g.region[q] /\ b \in g.succ[q])
  BY <1>8 DEF ForwardFrom
<1>10. g.region[b] # {} => g.mrg[b] # 0
  BY <1>1, <1>2, ConstructFacts
<1>11. b \in g.succ[q] /\ Contains(es, q)
  <2>1. p \notin g.region[b]
    BY <1>2, <1>5, <1>10
  <2>2. p = q \/ (p \in g.region[q] /\ b \in g.succ[q])
    BY <1>2, <1>9, <2>1
  <2>3. g.region[q] # {} => g.mrg[q] # 0
    BY <1>1, ConstructFacts
  <2>. QED  BY <1>5, <2>2, <2>3
<1>12. ASSUME NEW d, NEW R, NEW Y, IsReachable(g, {}, R), IsReachable(g, {d}, Y), d \in R, b \in R \ Y, d # b PROVE Contains(es, d)
  <2>1. R \subseteq 1 .. g.n /\ 1 \in R /\ (\A z \in R : g.succ[z] \subseteq R) /\ (\A z \in Y : g.succ[z] \ {d} \subseteq Y)
    BY <1>12 DEF IsReachable
  <2>2. q \notin Y
    BY <1>11, <1>12, <2>1
  <2>3. q \in R
    <3>. SUFFICES ASSUME q \notin R PROVE FALSE
      OBVIOUS
    <3>. DEFINE S == R \ ({b} \cup g.region[b])
    <3>1. S \subseteq 1 .. g.n /\ b \notin S
      BY <2>1
    <3>2. 1 \in S
      <4>1. 1 \notin g.region[b]
        BY <1>1, <1>2, ConstructFacts
      <4>2. b # 1
        <5>1. es # <<>>
          BY ContainsFew
        <5>2. es[1] = 1 /\ 1 \in 1 .. Len(es)
          BY <1>1, <5>1
        <5>. QED  BY <5>2 DEF Contains
      <4>. QED  BY <2>1, <4>1, <4>2
    <3>3. ASSUME NEW z \in S, NEW s \in g.succ[z] PROVE s \in S
      <4>1. z \in R /\ z # b /\ z \notin g.region[b] /\ z \in 1 .. g.n /\ s \in R /\ Enters(g, z, s)
        BY <1>1, <2>1, <3>3 DEF Structured, Edges
      <4>2. s # b
        <5>. SUFFICES ASSUME s = b PROVE FALSE
          OBVIOUS
        <5>1. z \in g.region[q]
          BY <1>9, <3>3, <4>1
        <5>2. g.mrg[q] # 0
          BY <1>1, <5>1, ConstructFacts
        <5>3. R \cap g.region[q] = {}
          BY <1>1, <1>12, <5>2, HeaderFirst
        <5>. QED  BY <4>1, <5>1, <5>3
      <4>3. s \notin g.region[b]
        BY <1>2, <4>1 DEF Enters
      <4>. QED  BY <4>1, <4>2, <4>3
    <3>. HIDE DEF S
    <3>4. R \subseteq S
      BY <1>12, <3>1, <3>2, <3>3, InClosedAll
    <3>. QED  BY <1>12, <3>1, <3>4
  <2>. QED  BY <1>11, <1>12, <2>2, <2>3, EarlierFacts
<1>13. \A h \in 1 .. g.n : g.mrg[h] # b
  BY <1>2, <1>7 DEF Owned
<1>. QED  BY <1>3, <1>4, <1>6, <1>12, <1>13, Zenon DEF InPlace

\* above the frame of a header there is none of its construct
LEMMA InnermostFrame ==
    ASSUME NEW g, NEW es, NEW late, NEW fs, NEW x, Traversal(g, es, late, fs, x), fs # <<>>, NEW h, h = fs[Len(fs)].block,
           NEW i \in 1 .. Len(fs), fs[i].block \in g.region[h] \cup {h}
    PROVE  i = Len(fs) /\ fs[i].block = h
<1>1. /\ Structured(g) /\ es \in Seq(1 .. g.n) /\ fs \in Seq(VisitFrame(g.n))
      /\ \A k, j \in 1 .. Len(es) : es[k] = es[j] => k = j
      /\ \A j \in 1 .. Len(es) : InPlace(g, es, j, es[j])
      /\ \A k, j \in 1 .. Len(fs) : k < j => \E m \in 1 .. Len(es) : es[m] = fs[j].block /\ Before(es, fs[k].block, m)
  BY DEF Traversal
<1>2. Len(fs) \in 1 .. Len(fs) /\ Len(es) \in Nat /\ (i # Len(fs) => i < Len(fs))
  BY <1>1
<1>3. h \in 1 .. g.n
  <2>1. fs[Len(fs)] \in VisitFrame(g.n)
    BY <1>1, <1>2
  <2>. QED  BY <2>1 DEF VisitFrame
<1>4. ASSUME i # Len(fs) PROVE FALSE
  <2>1. PICK m \in 1 .. Len(es) : es[m] = h /\ Before(es, fs[i].block, m)
    BY <1>1, <1>2, <1>4
  <2>2. PICK j \in 1 .. m - 1 : es[j] = fs[i].block
    BY <2>1 DEF Before
  <2>3. j \in 1 .. Len(es) /\ j # m /\ j < m
    BY <1>2
  <2>4. CASE fs[i].block = h
    BY <1>1, <2>1, <2>2, <2>3, <2>4
  <2>5. CASE fs[i].block \in g.region[h]
    <3>1. g.mrg[h] # 0
      BY <1>1, <1>3, <2>5, ConstructFacts
    <3>2. Before(es, h, j)
      BY <1>1, <1>3, <2>2, <2>3, <2>5, <3>1 DEF InPlace
    <3>3. PICK k \in 1 .. j - 1 : es[k] = h
      BY <3>2 DEF Before
    <3>4. k \in 1 .. Len(es) /\ k # m
      BY <1>2, <2>3
    <3>. QED  BY <1>1, <2>1, <3>3, <3>4
  <2>. QED  BY <2>4, <2>5
<1>. QED  BY <1>4

\* when the successors of a header are done, all there is to do in the construct is its continue target
LEMMA AllInside ==
    ASSUME NEW g, NEW es, NEW late, NEW fs, Traversal(g, es, late, fs, 0), fs # <<>>, NEW f, f = fs[Len(fs)], f.todo = <<>>,
           NEW h, h = f.block, NEW p \in g.region[h] \cup {h}, Contains(es, p), NEW s \in g.succ[p] \cap g.region[h]
    PROVE  Contains(es, s) \/ (s = g.cnt[h] /\ Contains(f.merge, s))
<1>1. /\ Structured(g) /\ fs \in Seq(VisitFrame(g.n))
      /\ \A m : m \in late <=> \E i \in 1 .. Len(fs) : Contains(fs[i].merge, m)
      /\ \A i \in 1 .. Len(fs) : FrameHolds(g, es, fs[i])
  BY DEF Traversal
<1>2. Len(fs) \in 1 .. Len(fs)
  BY <1>1
<1>3. h \in 1 .. g.n /\ p \in 1 .. g.n
  <2>1. fs[Len(fs)] \in VisitFrame(g.n)
    BY <1>1, <1>2
  <2>2. h \in 1 .. g.n
    BY <2>1 DEF VisitFrame
  <2>. QED  BY <2>2, EarlierFacts
<1>4. Contains(es, s) \/ s \in late \/ \E i \in 1 .. Len(fs) : fs[i].block = p /\ Contains(fs[i].todo, s)
  BY <1>3, OwedFacts
<1>5. \A i \in 1 .. Len(fs) : fs[i].block \in g.region[h] \cup {h} => i = Len(fs) /\ fs[i].block = h
  <2>. SUFFICES ASSUME NEW i \in 1 .. Len(fs), fs[i].block \in g.region[h] \cup {h} PROVE i = Len(fs) /\ fs[i].block = h
    OBVIOUS
  <2>1. h = fs[Len(fs)].block
    OBVIOUS
  <2>. QED  BY <2>1, InnermostFrame, Zenon
<1>6. ASSUME NEW i \in 1 .. Len(fs), fs[i].block = p, Contains(fs[i].todo, s) PROVE FALSE
  <2>1. i = Len(fs)
    BY <1>5, <1>6
  <2>. QED  BY <1>6, <2>1, ContainsFew
<1>7. ASSUME NEW i \in 1 .. Len(fs), Contains(fs[i].merge, s) PROVE s = g.cnt[h] /\ Contains(f.merge, s)
  <2>. DEFINE k == fs[i].block
  <2>1. k \in 1 .. g.n
    <3>1. fs[i] \in VisitFrame(g.n)
      BY <1>1
    <3>. QED  BY <3>1 DEF VisitFrame
  <2>2. s \in {g.mrg[k], g.cnt[k]} \ {0}
    <3>1. fs[i].merge # <<>>
      BY <1>7, ContainsFew
    <3>2. g.mrg[k] # 0 /\ (fs[i].merge = <<g.mrg[k]>> \/ fs[i].merge = Delays(g, k))
      BY <1>1, <3>1 DEF FrameHolds
    <3>. HIDE DEF k
    <3>3. Contains(Delays(g, k), s) => s \in {g.mrg[k], g.cnt[k]} \ {0}
      BY <1>1, <2>1, DelaysFacts
    <3>4. Contains(<<g.mrg[k]>>, s) => s = g.mrg[k]
      BY ContainsFew
    <3>. QED  BY <1>7, <3>2, <3>3, <3>4
  <2>3. k \in g.region[h] \cup {h}
    BY <1>1, <1>3, <2>1, <2>2 DEF Structured, OwnersInside
  <2>4. i = Len(fs) /\ k = h
    BY <1>5, <2>3
  <2>5. g.mrg[h] \notin g.region[h] \/ g.mrg[h] = 0
    BY <1>1, <1>3, ConstructFacts
  <2>. QED  BY <1>7, <2>2, <2>4, <2>5
<1>. QED  BY <1>1, <1>4, <1>6, <1>7

\* the continue target is taken first, then the merge block
LEMMA TakeDelayed ==
    ASSUME NEW g, NEW es, NEW f, FrameHolds(g, es, f), f.merge # <<>>, NEW h, h = f.block
    PROVE  /\ g.mrg[h] # 0
           /\ \/ /\ f.merge = <<g.mrg[h]>> /\ f.merge[Len(f.merge)] = g.mrg[h]
                 /\ RemoveAt(f.merge, Len(f.merge)) = <<>>
              \/ /\ f.merge = <<g.mrg[h], g.cnt[h]>> /\ g.cnt[h] # 0 /\ f.merge[Len(f.merge)] = g.cnt[h]
                 /\ RemoveAt(f.merge, Len(f.merge)) = <<g.mrg[h]>>
<1>1. g.mrg[h] # 0 /\ (f.merge = <<g.mrg[h]>> \/ f.merge = Delays(g, h))
  BY DEF FrameHolds
<1>2. f.merge = <<g.mrg[h]>> \/ (f.merge = <<g.mrg[h], g.cnt[h]>> /\ g.cnt[h] # 0)
  BY <1>1 DEF Delays
<1>3. ASSUME NEW m PROVE /\ <<m>>[Len(<<m>>)] = m /\ RemoveAt(<<m>>, Len(<<m>>)) = <<>>
  <2>1. RemoveAt(<<m>>, 1) = SubSeq(<<m>>, 1, 0) \o SubSeq(<<m>>, 2, 1)
    BY DEF RemoveAt
  <2>2. SubSeq(<<m>>, 1, 0) = <<>> /\ SubSeq(<<m>>, 2, 1) = <<>>
    OBVIOUS
  <2>3. <<>> \o <<>> = <<>>
    OBVIOUS
  <2>. QED  BY <2>1, <2>2, <2>3
<1>4. ASSUME NEW m, NEW c PROVE <<m, c>>[Len(<<m, c>>)] = c /\ RemoveAt(<<m, c>>, Len(<<m, c>>)) = <<m>>
  <2>1. RemoveAt(<<m, c>>, 2) = SubSeq(<<m, c>>, 1, 1) \o SubSeq(<<m, c>>, 3, 2)
    BY DEF RemoveAt
  <2>2. SubSeq(<<m, c>>, 1, 1) = <<m>> /\ SubSeq(<<m, c>>, 3, 2) = <<>>
    <3>. DEFINE t == SubSeq(<<m, c>>, 1, 1)
    <3>1. t \in Seq({m, c}) /\ Len(t) = 1 /\ t[1] = m
      OBVIOUS
    <3>. HIDE DEF t
    <3>2. t = <<m>>
      BY <3>1
    <3>3. SubSeq(<<m, c>>, 3, 2) = <<>>
      OBVIOUS
    <3>. QED  BY <3>2, <3>3 DEF t
  <2>3. <<m>> \o <<>> = <<m>>
    OBVIOUS
  <2>. QED  BY <2>1, <2>2, <2>3
<1>5. CASE f.merge = <<g.mrg[h]>>
  <2>. DEFINE m == g.mrg[h]
  <2>1. f.merge = <<m>>
    BY <1>5
  <2>. HIDE DEF m
  <2>2. f.merge[Len(f.merge)] = m /\ RemoveAt(f.merge, Len(f.merge)) = <<>>
    BY <1>3, <2>1, Zenon
  <2>. QED  BY <1>1, <1>5, <2>2 DEF m
<1>6. CASE f.merge = <<g.mrg[h], g.cnt[h]>> /\ g.cnt[h] # 0
  <2>. DEFINE m == g.mrg[h]
              c == g.cnt[h]
              t == <<m, c>>
              e == <<m>>
  <2>1. f.merge = t
    BY <1>6
  <2>. HIDE DEF m, c
  <2>3. t[Len(t)] = c /\ RemoveAt(t, Len(t)) = e
    BY <1>4
  <2>. HIDE DEF t, e
  <2>4. f.merge[Len(f.merge)] = c /\ RemoveAt(f.merge, Len(f.merge)) = e
    BY <2>1, <2>3, Zenon
  <2>2. f.merge[Len(f.merge)] = c /\ RemoveAt(f.merge, Len(f.merge)) = <<m>>
    BY <2>4 DEF e
  <2>. QED  BY <1>1, <1>6, <2>2 DEF m, c
<1>. QED  BY <1>2, <1>5, <1>6

\* what a delayed block needs to be written
LEMMA DelayedInPlace ==
    ASSUME NEW g, NEW es, NEW late, NEW fs, Traversal(g, es, late, fs, 0), fs # <<>>, NEW f, f = fs[Len(fs)], f.todo = <<>>,
           f.merge # <<>>, NEW b, b = f.merge[Len(f.merge)]
    PROVE  InPlace(g, es, Len(es) + 1, b) /\ b \in 1 .. g.n /\ b \in late /\ ~Contains(es, b)
<1>. DEFINE h == f.block
<1>1. /\ Structured(g) /\ es \in Seq(1 .. g.n) /\ (es # <<>> => es[1] = 1) /\ fs \in Seq(VisitFrame(g.n))
      /\ \A i \in 1 .. Len(fs) : FrameHolds(g, es, fs[i])
      /\ \A m : m \in late <=> \E i \in 1 .. Len(fs) : Contains(fs[i].merge, m)
      /\ \A m \in late : ~Contains(es, m)
  BY DEF Traversal
<1>2. Len(fs) \in 1 .. Len(fs)
  BY <1>1
<1>3. f \in VisitFrame(g.n) /\ FrameHolds(g, es, f)
  BY <1>1, <1>2
<1>4. h \in 1 .. g.n /\ Contains(es, h) /\ f.merge \in Seq(1 .. g.n)
  BY <1>3 DEF VisitFrame, FrameHolds
<1>5. /\ g.mrg[h] # 0
      /\ \/ f.merge = <<g.mrg[h]>> /\ b = g.mrg[h]
         \/ f.merge = <<g.mrg[h], g.cnt[h]>> /\ g.cnt[h] # 0 /\ b = g.cnt[h]
  BY <1>3, TakeDelayed
<1>. HIDE DEF h
<1>6. /\ g.n \in Nat \ {0} /\ g.mrg[h] \in 0 .. g.n /\ g.cnt[h] \in 0 .. g.n
      /\ g.mrg[h] \in 1 .. g.n /\ g.mrg[h] \notin g.region[h] \cup {1, h} /\ h \notin g.region[h] /\ g.region[h] \subseteq 2 .. g.n
      /\ g.cnt[h] # 0 => g.cnt[h] \in g.region[h]
  BY <1>1, <1>4, <1>5, ConstructFacts
<1>7. b \in g.region[h] \cup {g.mrg[h]} /\ b # h /\ b # 1 /\ b \in 1 .. g.n /\ b # 0 /\ (b = g.mrg[h] \/ b = g.cnt[h])
  BY <1>5, <1>6
<1>8. Contains(f.merge, b) /\ b \in late /\ ~Contains(es, b)
  <2>1. Contains(f.merge, b)
    <3>. DEFINE m == g.mrg[h]
                c == g.cnt[h]
                t1 == <<m>>
                t2 == <<m, c>>
    <3>1. (f.merge = t1 /\ b = m) \/ (f.merge = t2 /\ b = c)
      BY <1>5
    <3>. HIDE DEF m, c
    <3>2. Contains(t1, m) /\ Contains(t2, c)
      BY ContainsFew
    <3>. HIDE DEF t1, t2
    <3>. QED  BY <3>1, <3>2, Zenon
  <2>. QED  BY <1>1, <1>2, <2>1
<1>9. \A y : Before(es, y, Len(es) + 1) <=> Contains(es, y)
  <2>1. IsAppended(1 .. g.n, es, b, Append(es, b))
    BY <1>1, <1>7, Appended, Zenon
  <2>2. Len(es) + 1 \in 1 .. Len(es) + 1
    BY <1>1
  <2>. QED  BY <2>1, <2>2, Zenon DEF IsAppended
<1>10. ~Dead(g, b)
  BY <1>4, <1>7 DEF Dead, Unowned
<1>11. \A k \in 1 .. g.n : b = g.mrg[k] \/ b = g.cnt[k] => k = h
  BY <1>1, <1>4, <1>5, <1>6, <1>7, SMTT(40) DEF Structured, OneOwner
<1>12. ASSUME NEW k \in 1 .. g.n, g.mrg[k] # 0, b \in g.region[k] \cup {g.mrg[k]} PROVE Contains(es, k)
  <2>1. CASE b = g.mrg[k]
    BY <1>4, <1>11, <2>1
  <2>2. CASE b \in g.region[k]
    <3>1. h \in g.region[k] \cup {k}
      BY <1>1, <1>4, <1>7, <2>2 DEF Structured, OwnersInside
    <3>. QED  BY <1>4, <1>12, <3>1, EarlierFacts
  <2>. QED  BY <1>12, <2>1, <2>2
<1>13. \A p \in g.region[h] \cup {h} : Contains(es, p) => \A s \in g.succ[p] \cap g.region[h] :
          Contains(es, s) \/ (s = g.cnt[h] /\ Contains(f.merge, s))
  <2>. SUFFICES ASSUME NEW p \in g.region[h] \cup {h}, Contains(es, p), NEW s \in g.succ[p] \cap g.region[h]
                PROVE  Contains(es, s) \/ (s = g.cnt[h] /\ Contains(f.merge, s))
    OBVIOUS
  <2>. QED  BY AllInside DEF h
<1>14. ASSUME NEW d, NEW R, NEW Y, IsReachable(g, {}, R), IsReachable(g, {d}, Y), d \in R, b \in R \ Y, d # b PROVE Contains(es, d)
  <2>. SUFFICES ASSUME ~Contains(es, d) PROVE FALSE
    OBVIOUS
  <2>1. R \subseteq 1 .. g.n /\ 1 \in R /\ (\A z \in R : g.succ[z] \subseteq R) /\ (\A z \in Y : g.succ[z] \ {d} \subseteq Y)
    BY <1>14 DEF IsReachable
  <2>2. \A z \in R : Contains(es, z) => z \in Y
    BY <1>14, EarlierFacts
  <2>3. \A z \in R : Contains(es, z) => b \notin g.succ[z]
    BY <1>14, <2>1, <2>2
  <2>. DEFINE S == {z \in R : z # b /\ (z \in g.region[h] => Contains(es, z))}
  <2>4. S \subseteq 1 .. g.n /\ b \notin S
    BY <2>1
  <2>5. 1 \in S
    BY <1>6, <1>7, <2>1
  <2>6. ASSUME NEW z \in S, NEW s \in g.succ[z] PROVE s \in S
    <3>1. z \in R /\ z \in 1 .. g.n /\ s \in R /\ Enters(g, z, s) /\ (z \in g.region[h] \cup {h} => Contains(es, z))
      BY <1>1, <1>4, <2>1, <2>6 DEF Structured, Edges
    <3>2. s # b
      BY <1>4, <1>7, <2>3, <2>6, <3>1 DEF Enters
    <3>3. ASSUME s \in g.region[h] PROVE Contains(es, s)
      <4>1. z \in g.region[h] \cup {h} /\ Contains(es, z)
        BY <1>4, <3>1, <3>3 DEF Enters
      <4>2. Contains(es, s) \/ (s = g.cnt[h] /\ Contains(f.merge, s))
        BY <1>13, <2>6, <3>3, <4>1
      <4>3. ASSUME s = g.cnt[h], Contains(f.merge, s) PROVE FALSE
        <5>1. CASE f.merge = <<g.mrg[h]>>
          <6>1. s = g.mrg[h]
            BY <4>3, <5>1, ContainsFew
          <6>. QED  BY <1>6, <3>3, <6>1
        <5>2. CASE b = g.cnt[h]
          BY <3>2, <4>3, <5>2
        <5>. QED  BY <1>5, <5>1, <5>2
      <4>. QED  BY <4>2, <4>3
    <3>. QED  BY <3>1, <3>2, <3>3
  <2>. HIDE DEF S
  <2>7. R \subseteq S
    BY <1>14, <2>4, <2>5, <2>6, InClosedAll
  <2>. QED  BY <1>14, <2>4, <2>7
<1>15. ASSUME NEW k \in 1 .. g.n, g.mrg[k] = b, NEW p \in 1 .. g.n, Contains(es, p), p \in g.region[k] \cup {k},
              NEW s \in g.succ[p] \cap g.region[k]
       PROVE  Contains(es, s)
  <2>1. k = h
    BY <1>11, <1>15
  <2>2. f.merge = <<g.mrg[h]>>
    <3>1. g.cnt[h] # 0 => b # g.cnt[h]
      BY <1>6, <1>15, <2>1
    <3>. QED  BY <1>5, <3>1
  <2>3. ~(s = g.cnt[h] /\ Contains(f.merge, s))
    <3>1. Contains(f.merge, s) => s = g.mrg[h]
      BY <2>2, ContainsFew
    <3>. QED  BY <1>6, <1>15, <2>1, <3>1
  <2>. QED  BY <1>13, <1>15, <2>1, <2>3
<1>. QED  BY <1>7, <1>8, <1>9, <1>10, <1>12, <1>14, <1>15, Zenon DEF InPlace

\* what a frame delays is its block's
LEMMA FrameDelays ==
    ASSUME NEW g, NEW es, NEW late, NEW fs, NEW x, Traversal(g, es, late, fs, x), NEW k \in 1 .. Len(fs), NEW m, Contains(fs[k].merge, m)
    PROVE  fs[k].block \in 1 .. g.n /\ m \in {g.mrg[fs[k].block], g.cnt[fs[k].block]} \ {0}
<1>. DEFINE q == fs[k].block
<1>1. /\ Structured(g) /\ fs \in Seq(VisitFrame(g.n)) /\ FrameHolds(g, es, fs[k])
  BY DEF Traversal
<1>2. fs[k] \in VisitFrame(g.n)
  BY <1>1
<1>3. q \in 1 .. g.n
  BY <1>2 DEF VisitFrame
<1>4. fs[k].merge # <<>>
  BY ContainsFew
<1>5. g.mrg[q] # 0 /\ (fs[k].merge = <<g.mrg[q]>> \/ fs[k].merge = Delays(g, q))
  BY <1>1, <1>4 DEF FrameHolds
<1>. HIDE DEF q
<1>6. Contains(Delays(g, q), m) => m \in {g.mrg[q], g.cnt[q]} \ {0}
  BY <1>1, <1>3, DelaysFacts
<1>7. Contains(<<g.mrg[q]>>, m) => m = g.mrg[q]
  BY ContainsFew
<1>. QED  BY <1>3, <1>5, <1>6, <1>7 DEF q

\* a visit that finds its block shut
LEMMA HandEmptied ==
    ASSUME NEW g, NEW es, NEW late, NEW fs, NEW b, Traversal(g, es, late, fs, b), Contains(es, b) \/ b \in late
    PROVE  Traversal(g, es, late, fs, 0)
<1>1. Owed(g, es, late, fs, b) /\ Structured(g) /\ \A m : m \in late <=> \E i \in 1 .. Len(fs) : Contains(fs[i].merge, m)
  BY DEF Traversal
<1>2. ASSUME NEW h \in 1 .. g.n, Contains(es, h), NEW m \in {g.mrg[h], g.cnt[h]} \ {0}
      PROVE  \/ Contains(es, m) \/ m = 0
             \/ \E i \in 1 .. Len(fs) : fs[i].block = h /\ Contains(fs[i].merge, m)
  <2>1. \/ Contains(es, m) \/ m = b
        \/ \E i \in 1 .. Len(fs) : fs[i].block = h /\ Contains(fs[i].merge, m)
    BY <1>1, <1>2 DEF Owed
  <2>2. ASSUME m \in late PROVE \E i \in 1 .. Len(fs) : fs[i].block = h /\ Contains(fs[i].merge, m)
    <3>1. PICK k \in 1 .. Len(fs) : Contains(fs[k].merge, m)
      BY <1>1, <2>2
    <3>. DEFINE q == fs[k].block
    <3>2. q \in 1 .. g.n /\ m \in {g.mrg[q], g.cnt[q]} \ {0}
      BY <3>1, FrameDelays, Zenon
    <3>3. q = h
      <4>. HIDE DEF q
      <4>. QED  BY <1>1, <1>2, <3>2 DEF Structured, OneOwner
    <3>. QED  BY <3>1, <3>3
  <2>. QED  BY <2>1, <2>2
<1>3. Owed(g, es, late, fs, 0)
  <2>1. ASSUME NEW p \in 1 .. g.n, Contains(es, p), NEW s \in g.succ[p]
        PROVE  \/ Contains(es, s) \/ s \in late \/ s = 0
               \/ \E i \in 1 .. Len(fs) : fs[i].block = p /\ Contains(fs[i].todo, s)
    BY <1>1, <2>1 DEF Owed
  <2>. QED  BY <1>2, <2>1 DEF Owed
<1>. QED  BY <1>3, Zenon DEF Traversal

\* the innermost frame of fs goes on as f2
GoesOn(g, es, late, fs, f2, late2, fs2, x) ==
    /\ fs # <<>> /\ f2 \in VisitFrame(g.n) /\ f2.block = fs[Len(fs)].block /\ fs2 = Append(Front(fs), f2)
    /\ FrameHolds(g, es, f2) /\ late2 \subseteq late
    /\ \A m : m \in late2 <=> Contains(f2.merge, m) \/ \E i \in 1 .. Len(fs) : i # Len(fs) /\ Contains(fs[i].merge, m)
    /\ \A s : Contains(fs[Len(fs)].todo, s) => s = x \/ Contains(f2.todo, s)
    /\ \A m : m \in late => m = x \/ m \in late2

IsReplaced(S, s, b, s2) ==
    /\ s2 \in Seq(S) /\ Len(s) \in Nat \ {0} /\ Len(s2) = Len(s) /\ s2[Len(s)] = b /\ Len(s) \in 1 .. Len(s)
    /\ \A i \in 1 .. Len(s) : i # Len(s) => s2[i] = s[i] /\ i < Len(s)

LEMMA Replaced ==
    ASSUME NEW S, NEW s \in Seq(S), s # <<>>, NEW b \in S
    PROVE  IsReplaced(S, s, b, Append(Front(s), b))
<1>1. /\ Len(s) \in Nat \ {0} /\ Front(s) \in Seq(S) /\ Len(Front(s)) = Len(s) - 1
      /\ \A i \in 1 .. Len(s) - 1 : Front(s)[i] = s[i]
  BY FrontFacts
<1>. DEFINE r == Front(s)
<1>. HIDE DEF r
<1>2. /\ Append(r, b) \in Seq(S) /\ Len(Append(r, b)) = Len(r) + 1 /\ Append(r, b)[Len(r) + 1] = b
      /\ \A i \in 1 .. Len(r) : Append(r, b)[i] = r[i]
  BY <1>1 DEF r
<1>3. Len(r) + 1 = Len(s) /\ Len(s) \in 1 .. Len(s) /\ \A i \in 1 .. Len(s) : i # Len(s) => i \in 1 .. Len(r) /\ i \in 1 .. Len(s) - 1 /\ i < Len(s)
  BY <1>1 DEF r
<1>4. \A i \in 1 .. Len(s) - 1 : r[i] = s[i]
  BY <1>1 DEF r
<1>. DEFINE s2 == Append(r, b)
<1>5. /\ s2 \in Seq(S) /\ Len(s2) = Len(s) /\ s2[Len(s)] = b
      /\ \A i \in 1 .. Len(r) : s2[i] = r[i]
  BY <1>2, <1>3, Zenon
<1>. HIDE DEF s2
<1>6. IsReplaced(S, s, b, s2)
  BY <1>1, <1>3, <1>4, <1>5, Zenon DEF IsReplaced
<1>. QED  BY <1>6 DEF s2, r

LEMMA FrameGoesOn ==
    ASSUME NEW g, NEW es, NEW late, NEW fs, Traversal(g, es, late, fs, 0),
           NEW f2, NEW late2, NEW fs2, NEW x, GoesOn(g, es, late, fs, f2, late2, fs2, x)
    PROVE  Traversal(g, es, late2, fs2, x)
<1>. DEFINE n == Len(fs)
<1>0. /\ fs # <<>> /\ f2 \in VisitFrame(g.n) /\ f2.block = fs[n].block /\ fs2 = Append(Front(fs), f2)
      /\ FrameHolds(g, es, f2) /\ late2 \subseteq late
      /\ \A m : m \in late2 <=> Contains(f2.merge, m) \/ \E i \in 1 .. n : i # n /\ Contains(fs[i].merge, m)
      /\ \A s : Contains(fs[n].todo, s) => s = x \/ Contains(f2.todo, s)
      /\ \A m : m \in late => m = x \/ m \in late2
  BY DEF GoesOn
<1>1. /\ Structured(g) /\ es \in Seq(1 .. g.n) /\ (es # <<>> => es[1] = 1) /\ fs \in Seq(VisitFrame(g.n))
      /\ \A i, j \in 1 .. Len(es) : es[i] = es[j] => i = j
      /\ \A j \in 1 .. Len(es) : InPlace(g, es, j, es[j])
      /\ \A i \in 1 .. n : FrameHolds(g, es, fs[i])
      /\ \A i, j \in 1 .. n : i < j => \E k \in 1 .. Len(es) : es[k] = fs[j].block /\ Before(es, fs[i].block, k)
      /\ \A m : m \in late <=> \E i \in 1 .. n : Contains(fs[i].merge, m)
      /\ \A m \in late : ~Contains(es, m)
  BY DEF Traversal
<1>2. /\ fs2 \in Seq(VisitFrame(g.n)) /\ Len(fs2) = n /\ fs2[n] = f2 /\ n \in 1 .. n
      /\ \A i \in 1 .. n : i # n => fs2[i] = fs[i]
  <2>1. IsReplaced(VisitFrame(g.n), fs, f2, Append(Front(fs), f2))
    BY <1>0, <1>1, Replaced, Zenon
  <2>2. IsReplaced(VisitFrame(g.n), fs, f2, fs2)
    BY <1>0, <2>1, Zenon
  <2>. QED  BY <2>2, Zenon DEF IsReplaced
<1>. HIDE DEF n
<1>3. \A i \in 1 .. n : fs2[i].block = fs[i].block
  BY <1>0, <1>2
<1>4. \A i \in 1 .. n : FrameHolds(g, es, fs2[i])
  BY <1>0, <1>1, <1>2
<1>5. \A i, j \in 1 .. n : i < j => \E k \in 1 .. Len(es) : es[k] = fs2[j].block /\ Before(es, fs2[i].block, k)
  BY <1>1, <1>3
<1>6. \A m : m \in late2 <=> \E i \in 1 .. n : Contains(fs2[i].merge, m)
  BY <1>0, <1>2
<1>7. Owed(g, es, late2, fs2, x)
  <2>1. ASSUME NEW b \in 1 .. g.n, Contains(es, b), NEW s \in g.succ[b]
        PROVE  \/ Contains(es, s) \/ s \in late2 \/ s = x
               \/ \E i \in 1 .. Len(fs2) : fs2[i].block = b /\ Contains(fs2[i].todo, s)
    <3>1. Contains(es, s) \/ s \in late \/ \E i \in 1 .. n : fs[i].block = b /\ Contains(fs[i].todo, s)
      BY <2>1, OwedFacts DEF n
    <3>2. CASE Contains(es, s) \/ s \in late
      BY <1>0, <3>2
    <3>3. ASSUME NEW i \in 1 .. n, fs[i].block = b, Contains(fs[i].todo, s), s # x
          PROVE  fs2[i].block = b /\ Contains(fs2[i].todo, s) /\ i \in 1 .. Len(fs2)
      BY <1>0, <1>2, <1>3, <3>3
    <3>. QED  BY <3>1, <3>2, <3>3
  <2>2. ASSUME NEW h \in 1 .. g.n, Contains(es, h), NEW m \in {g.mrg[h], g.cnt[h]} \ {0}
        PROVE  \/ Contains(es, m) \/ m = x
               \/ \E i \in 1 .. Len(fs2) : fs2[i].block = h /\ Contains(fs2[i].merge, m)
    <3>1. \/ Contains(es, m) \/ m = 0
          \/ \E i \in 1 .. n : fs[i].block = h /\ Contains(fs[i].merge, m)
      BY <2>2 DEF Traversal, Owed, n
    <3>2. ASSUME NEW i \in 1 .. n, fs[i].block = h, Contains(fs[i].merge, m), m # x
          PROVE  \E k \in 1 .. Len(fs2) : fs2[k].block = h /\ Contains(fs2[k].merge, m)
      <4>1. CASE i # n
        BY <1>2, <3>2, <4>1
      <4>2. CASE i = n
        <5>1. m \in late2
          BY <1>0, <1>1, <3>2
        <5>2. PICK k \in 1 .. n : Contains(fs2[k].merge, m)
          BY <1>6, <5>1
        <5>3. CASE k = n
          BY <1>2, <1>3, <3>2, <4>2, <5>2, <5>3
        <5>4. CASE k # n
          <6>1. Contains(fs[k].merge, m) /\ k \in 1 .. n
            BY <1>2, <5>2, <5>4
          <6>. DEFINE q == fs[k].block
          <6>2. q \in 1 .. g.n
            <7>1. fs[k] \in VisitFrame(g.n)
              BY <1>1, <1>2 DEF n
            <7>. QED  BY <7>1 DEF VisitFrame
          <6>3. m \in {g.mrg[q], g.cnt[q]} \ {0}
            BY <6>1, FrameDelays, Zenon DEF n
          <6>4. q = h
            <7>. HIDE DEF q
            <7>. QED  BY <1>1, <2>2, <6>2, <6>3 DEF Structured, OneOwner
          <6>. QED  BY <1>2, <1>3, <5>2, <6>4
        <5>. QED  BY <5>3, <5>4
      <4>. QED  BY <4>1, <4>2
    <3>. QED  BY <2>2, <3>1, <3>2
  <2>. QED  BY <2>1, <2>2 DEF Owed
<1>8. \A m \in late2 : ~Contains(es, m)
  BY <1>0, <1>1
<1>9. /\ \A i \in 1 .. Len(fs2) : FrameHolds(g, es, fs2[i])
      /\ \A i, j \in 1 .. Len(fs2) : i < j => \E k \in 1 .. Len(es) : es[k] = fs2[j].block /\ Before(es, fs2[i].block, k)
      /\ \A m : m \in late2 <=> \E i \in 1 .. Len(fs2) : Contains(fs2[i].merge, m)
  BY <1>2, <1>4, <1>5, <1>6, Zenon
<1>. QED  BY <1>1, <1>2, <1>7, <1>8, <1>9, Zenon DEF Traversal

TodoIs(n, f, t, f2)  == f2 \in VisitFrame(n) /\ f2.block = f.block /\ f2.todo = t /\ f2.merge = f.merge
MergeIs(n, f, t, f2) == f2 \in VisitFrame(n) /\ f2.block = f.block /\ f2.todo = f.todo /\ f2.merge = t

LEMMA FrameChanges ==
    ASSUME NEW n, NEW f \in VisitFrame(n), NEW t \in Seq(1 .. n)
    PROVE  TodoIs(n, f, t, [f EXCEPT !.todo = t]) /\ MergeIs(n, f, t, [f EXCEPT !.merge = t])
<1>1. TodoIs(n, f, t, [f EXCEPT !.todo = t])
  BY DEF VisitFrame, TodoIs
<1>2. MergeIs(n, f, t, [f EXCEPT !.merge = t])
  BY DEF VisitFrame, MergeIs
<1>. QED  BY <1>1, <1>2

\* the next successor of the innermost frame is taken in hand
LEMMA SuccessorTaken ==
    ASSUME NEW g, NEW es, NEW late, NEW fs, Traversal(g, es, late, fs, 0), fs # <<>>, NEW f, f = fs[Len(fs)], f.todo # <<>>,
           NEW b, b = Head(f.todo), NEW fs2, fs2 = Append(Front(fs), [f EXCEPT !.todo = Tail(@)])
    PROVE  /\ Traversal(g, es, late, fs2, b) /\ b \in 1 .. g.n
           /\ Contains(es, b) \/ b \in late => Traversal(g, es, late, fs2, 0)
           /\ ~Contains(es, b) /\ b \notin late => InPlace(g, es, Len(es) + 1, b)
<1>. DEFINE f2 == [f EXCEPT !.todo = Tail(@)]
<1>1. /\ Structured(g) /\ fs \in Seq(VisitFrame(g.n))
      /\ \A i \in 1 .. Len(fs) : FrameHolds(g, es, fs[i])
      /\ \A m : m \in late <=> \E i \in 1 .. Len(fs) : Contains(fs[i].merge, m)
  BY DEF Traversal
<1>2. Len(fs) \in 1 .. Len(fs)
  BY <1>1
<1>3. f \in VisitFrame(g.n) /\ FrameHolds(g, es, f)
  BY <1>1, <1>2
<1>4. f.block \in 1 .. g.n /\ f.todo \in Seq(1 .. g.n) /\ f.merge \in Seq(1 .. g.n)
      /\ f = [block |-> f.block, todo |-> f.todo, merge |-> f.merge]
  BY <1>3 DEF VisitFrame
<1>5. /\ b \in 1 .. g.n /\ Tail(f.todo) \in Seq(1 .. g.n) /\ Contains(f.todo, b)
      /\ \A x : Contains(f.todo, x) <=> x = b \/ Contains(Tail(f.todo), x)
  BY <1>4, HeadTail
<1>7. f2 \in VisitFrame(g.n) /\ f2.block = f.block /\ f2.todo = Tail(f.todo) /\ f2.merge = f.merge
  <2>. DEFINE tl == Tail(f.todo)
  <2>1. tl \in Seq(1 .. g.n) /\ f2 = [f EXCEPT !.todo = tl]
    BY <1>5
  <2>. HIDE DEF f2, tl
  <2>2. TodoIs(g.n, f, tl, [f EXCEPT !.todo = tl])
    BY <1>3, <2>1, FrameChanges
  <2>3. TodoIs(g.n, f, tl, f2)
    BY <2>1, <2>2
  <2>. QED  BY <2>3 DEF tl, TodoIs
<1>9. fs2 = Append(Front(fs), f2)
  OBVIOUS
<1>. HIDE DEF f2
<1>10. FrameHolds(g, es, f2)
  BY <1>3, <1>5, <1>7 DEF FrameHolds
<1>11. \A m : m \in late <=> Contains(f2.merge, m) \/ \E i \in 1 .. Len(fs) : i # Len(fs) /\ Contains(fs[i].merge, m)
  BY <1>1, <1>2, <1>7
<1>12. Contains(es, f.block) /\ b \in g.succ[f.block]
  BY <1>3, <1>5 DEF FrameHolds
<1>13. GoesOn(g, es, late, fs, f2, late, fs2, b)
  BY <1>5, <1>7, <1>9, <1>10, <1>11 DEF GoesOn
<1>14. Traversal(g, es, late, fs2, b)
  BY <1>13, FrameGoesOn, Zenon
<1>15. ASSUME Contains(es, b) \/ b \in late PROVE Traversal(g, es, late, fs2, 0)
  BY <1>14, <1>15, HandEmptied, Zenon
<1>16. ASSUME ~Contains(es, b), b \notin late PROVE InPlace(g, es, Len(es) + 1, b)
  BY <1>12, <1>16, SuccessorInPlace
<1>. QED  BY <1>5, <1>14, <1>15, <1>16

\* the block that a frame takes out of delayed_ is in no other frame's hands
TakesDelayed(g, es, late, fs, f, b, fs2) ==
    /\ Traversal(g, es, late, fs, 0) /\ fs # <<>> /\ f = fs[Len(fs)] /\ f.todo = <<>>
    /\ f.merge # <<>> /\ b = f.merge[Len(f.merge)]
    /\ fs2 = Append(Front(fs), [f EXCEPT !.merge = RemoveAt(@, Len(f.merge))])

\* the last delayed block of the innermost frame is taken in hand
LEMMA DelayedTaken ==
    ASSUME NEW g, NEW es, NEW late, NEW fs, NEW f, NEW b, NEW fs2, TakesDelayed(g, es, late, fs, f, b, fs2)
    PROVE  /\ Traversal(g, es, late \ {b}, fs2, b) /\ b \in 1 .. g.n
           /\ ~Contains(es, b) /\ InPlace(g, es, Len(es) + 1, b)
<1>. DEFINE r == RemoveAt(f.merge, Len(f.merge))
            f2 == [f EXCEPT !.merge = r]
            n == Len(fs)
            h == f.block
<1>0. /\ Traversal(g, es, late, fs, 0) /\ fs # <<>> /\ f = fs[Len(fs)] /\ f.todo = <<>>
      /\ f.merge # <<>> /\ b = f.merge[Len(f.merge)]
      /\ fs2 = Append(Front(fs), [f EXCEPT !.merge = RemoveAt(@, Len(f.merge))])
  BY DEF TakesDelayed
<1>. USE <1>0
<1>1. /\ Structured(g) /\ fs \in Seq(VisitFrame(g.n))
      /\ \A i \in 1 .. n : FrameHolds(g, es, fs[i])
      /\ \A m : m \in late <=> \E i \in 1 .. n : Contains(fs[i].merge, m)
  BY DEF Traversal
<1>2. n \in 1 .. n
  BY <1>1
<1>3. f \in VisitFrame(g.n) /\ FrameHolds(g, es, f)
  BY <1>1, <1>2
<1>4. h \in 1 .. g.n
  BY <1>3 DEF VisitFrame
<1>5. InPlace(g, es, Len(es) + 1, b) /\ b \in 1 .. g.n /\ b \in late /\ ~Contains(es, b)
  BY DelayedInPlace
<1>6. /\ g.mrg[h] # 0
      /\ \/ f.merge = <<g.mrg[h]>> /\ b = g.mrg[h] /\ r = <<>>
         \/ f.merge = <<g.mrg[h], g.cnt[h]>> /\ g.cnt[h] # 0 /\ b = g.cnt[h] /\ r = <<g.mrg[h]>>
  BY <1>3, TakeDelayed
<1>7. g.mrg[h] # g.cnt[h] /\ g.mrg[h] \in 1 .. g.n /\ b \in {g.mrg[h], g.cnt[h]} \ {0}
  <2>1. /\ g.mrg[h] # 0 => g.mrg[h] \in 1 .. g.n /\ g.mrg[h] \notin g.region[h] \cup {1, h}
        /\ g.cnt[h] # 0 => g.cnt[h] \in g.region[h]
        /\ g.n \in Nat /\ (g.mrg[h] = 0 => g.cnt[h] = 0)
    <3>. HIDE DEF h
    <3>. QED  BY <1>1, <1>4, ConstructFacts
  <2>. HIDE DEF h, r
  <2>2. g.mrg[h] \in 1 .. g.n /\ g.mrg[h] # g.cnt[h]
    BY <1>6, <2>1
  <2>. QED  BY <1>6, <2>2
<1>8. r \in Seq(1 .. g.n)
  <2>1. ASSUME NEW S, NEW x \in S PROVE <<x>> \in Seq(S) /\ <<>> \in Seq(S)
    OBVIOUS
  <2>. HIDE DEF r, h
  <2>. QED  BY <1>6, <1>7, <2>1
<1>9. f2 \in VisitFrame(g.n) /\ f2.block = h /\ f2.todo = f.todo /\ f2.merge = r
  <2>. HIDE DEF r
  <2>1. MergeIs(g.n, f, r, [f EXCEPT !.merge = r])
    BY <1>3, <1>8, FrameChanges
  <2>2. MergeIs(g.n, f, r, f2)
    BY <2>1
  <2>. QED  BY <2>2 DEF MergeIs
<1>10. fs2 = Append(Front(fs), f2)
  OBVIOUS
<1>11. /\ \A m : Contains(f.merge, m) => m = b \/ Contains(r, m)
       /\ \A m : Contains(r, m) => Contains(f.merge, m) /\ m # b /\ r = <<g.mrg[h]>>
  <2>. DEFINE mm == g.mrg[h]
              cc == g.cnt[h]
              fm == f.merge
  <2>. HIDE DEF r, h
  <2>1. mm # cc /\ \/ fm = <<mm>> /\ b = mm /\ r = <<>>
                   \/ fm = <<mm, cc>> /\ b = cc /\ r = <<mm>>
    BY <1>6, <1>7
  <2>. HIDE DEF mm, cc, fm
  <2>2. CASE fm = <<mm>> /\ b = mm /\ r = <<>>
    <3>1. \A m : (Contains(fm, m) <=> m = mm) /\ ~Contains(r, m)
      BY <2>2, ContainsFew
    <3>2. \A m : (Contains(fm, m) => m = b \/ Contains(r, m)) /\ (Contains(r, m) => Contains(fm, m) /\ m # b /\ r = <<mm>>)
      BY <2>2, <3>1, Zenon
    <3>. QED  BY <3>2 DEF fm, mm
  <2>3. CASE fm = <<mm, cc>> /\ b = cc /\ r = <<mm>>
    <3>1. \A m : (Contains(fm, m) <=> m = mm \/ m = cc) /\ (Contains(r, m) <=> m = mm)
      BY <2>3, ContainsFew
    <3>2. \A m : (Contains(fm, m) => m = b \/ Contains(r, m)) /\ (Contains(r, m) => Contains(fm, m) /\ m # b /\ r = <<mm>>)
      BY <2>1, <2>3, <3>1, Zenon
    <3>. QED  BY <3>2 DEF fm, mm
  <2>. QED  BY <2>1, <2>2, <2>3
<1>. HIDE DEF r, f2
<1>12. FrameHolds(g, es, f2)
  <2>1. f2.merge # <<>> => f2.merge = <<g.mrg[h]>>
    BY <1>6, <1>9
  <2>2. f2.block = f.block
    BY <1>9
  <2>. QED  BY <1>3, <1>6, <1>9, <2>1, <2>2 DEF FrameHolds
<1>13. ASSUME NEW i \in 1 .. n, i # n PROVE ~Contains(fs[i].merge, b)
  <2>1. SUFFICES ASSUME Contains(fs[i].merge, b) PROVE FALSE
    OBVIOUS
  <2>. DEFINE q == fs[i].block
  <2>2. q \in 1 .. g.n /\ b \in {g.mrg[q], g.cnt[q]} \ {0}
    BY <2>1, FrameDelays, Zenon
  <2>3. q = h
    <3>. HIDE DEF q, h
    <3>. QED  BY <1>1, <1>4, <1>7, <2>2 DEF Structured, OneOwner
  <2>4. h = fs[Len(fs)].block /\ fs[i].block \in g.region[h] \cup {h}
    BY <2>3
  <2>5. i = Len(fs)
    <3>. HIDE DEF h
    <3>. QED  BY <2>4, InnermostFrame
  <2>. QED  BY <1>13, <2>5
<1>14. ASSUME NEW m
       PROVE  m \in late \ {b} <=> Contains(f2.merge, m) \/ \E i \in 1 .. n : i # n /\ Contains(fs[i].merge, m)
  <2>1. ASSUME m \in late, m # b PROVE Contains(f2.merge, m) \/ \E i \in 1 .. n : i # n /\ Contains(fs[i].merge, m)
    <3>1. PICK i \in 1 .. n : Contains(fs[i].merge, m)
      BY <1>1, <2>1
    <3>2. CASE i = n
      BY <1>9, <1>11, <2>1, <3>1, <3>2
    <3>. QED  BY <3>1, <3>2
  <2>2. ASSUME Contains(f2.merge, m) PROVE m \in late /\ m # b
    <3>1. Contains(f.merge, m) /\ m # b
      BY <1>9, <1>11, <2>2
    <3>. QED  BY <1>1, <1>2, <3>1
  <2>3. ASSUME NEW i \in 1 .. n, i # n, Contains(fs[i].merge, m) PROVE m \in late /\ m # b
    BY <1>1, <1>13, <2>3
  <2>. QED  BY <2>1, <2>2, <2>3
<1>15. GoesOn(g, es, late, fs, f2, late \ {b}, fs2, b)
  <2>1. \A s : Contains(fs[Len(fs)].todo, s) => s = b \/ Contains(f2.todo, s)
    BY <1>9
  <2>. QED  BY <1>9, <1>10, <1>12, <1>14, <2>1 DEF GoesOn
<1>16. Traversal(g, es, late \ {b}, fs2, b)
  BY <1>15, FrameGoesOn, Zenon
<1>. QED  BY <1>5, <1>16

\* a visit that returns
LEMMA FrameLeft ==
    ASSUME NEW g, NEW es, NEW late, NEW fs, Traversal(g, es, late, fs, 0), fs # <<>>, fs[Len(fs)].todo = <<>>, fs[Len(fs)].merge = <<>>,
           NEW fs2, fs2 = Front(fs)
    PROVE  Traversal(g, es, late, fs2, 0)
<1>. DEFINE n == Len(fs)
<1>1. /\ Structured(g) /\ es \in Seq(1 .. g.n) /\ (es # <<>> => es[1] = 1) /\ fs \in Seq(VisitFrame(g.n))
      /\ \A i, j \in 1 .. Len(es) : es[i] = es[j] => i = j
      /\ \A j \in 1 .. Len(es) : InPlace(g, es, j, es[j])
      /\ \A i \in 1 .. n : FrameHolds(g, es, fs[i])
      /\ \A i, j \in 1 .. n : i < j => \E k \in 1 .. Len(es) : es[k] = fs[j].block /\ Before(es, fs[i].block, k)
      /\ \A m : m \in late <=> \E i \in 1 .. n : Contains(fs[i].merge, m)
      /\ \A m \in late : ~Contains(es, m)
      /\ Owed(g, es, late, fs, 0)
  BY DEF Traversal
<1>2. /\ fs2 \in Seq(VisitFrame(g.n)) /\ Len(fs2) = n - 1 /\ n \in Nat \ {0}
      /\ \A i \in 1 .. n - 1 : fs2[i] = fs[i]
  BY <1>1, FrontFacts
<1>3. /\ \A i \in 1 .. Len(fs2) : i \in 1 .. n /\ fs2[i] = fs[i]
      /\ \A i \in 1 .. n : i = n \/ i \in 1 .. Len(fs2)
  BY <1>2
<1>4. \A x : ~Contains(fs[n].todo, x) /\ ~Contains(fs[n].merge, x)
  BY ContainsFew
<1>. HIDE DEF n
<1>5. /\ \A i \in 1 .. Len(fs2) : FrameHolds(g, es, fs2[i])
      /\ \A i, j \in 1 .. Len(fs2) : i < j => \E k \in 1 .. Len(es) : es[k] = fs2[j].block /\ Before(es, fs2[i].block, k)
  <2>1. \A i \in 1 .. Len(fs2) : FrameHolds(g, es, fs2[i])
    BY <1>1, <1>3
  <2>2. ASSUME NEW i \in 1 .. Len(fs2), NEW j \in 1 .. Len(fs2), i < j
        PROVE  \E k \in 1 .. Len(es) : es[k] = fs2[j].block /\ Before(es, fs2[i].block, k)
    BY <1>1, <1>3, <2>2
  <2>. QED  BY <2>1, <2>2
<1>6. \A m : m \in late <=> \E i \in 1 .. Len(fs2) : Contains(fs2[i].merge, m)
  BY <1>1, <1>3, <1>4, Zenon
<1>7. Owed(g, es, late, fs2, 0)
  <2>1. ASSUME NEW b \in 1 .. g.n, Contains(es, b), NEW s \in g.succ[b]
        PROVE  \/ Contains(es, s) \/ s \in late \/ s = 0
               \/ \E i \in 1 .. Len(fs2) : fs2[i].block = b /\ Contains(fs2[i].todo, s)
    <3>1. \/ Contains(es, s) \/ s \in late \/ s = 0
          \/ \E i \in 1 .. n : fs[i].block = b /\ Contains(fs[i].todo, s)
      BY <1>1, <2>1, Zenon DEF Owed, n
    <3>. QED  BY <1>3, <1>4, <3>1, Zenon
  <2>2. ASSUME NEW h \in 1 .. g.n, Contains(es, h), NEW m \in {g.mrg[h], g.cnt[h]} \ {0}
        PROVE  \/ Contains(es, m) \/ m = 0
               \/ \E i \in 1 .. Len(fs2) : fs2[i].block = h /\ Contains(fs2[i].merge, m)
    <3>1. \/ Contains(es, m) \/ m = 0
          \/ \E i \in 1 .. n : fs[i].block = h /\ Contains(fs[i].merge, m)
      BY <1>1, <2>2, Zenon DEF Owed, n
    <3>. QED  BY <1>3, <1>4, <3>1, Zenon
  <2>. QED  BY <2>1, <2>2, Zenon DEF Owed
<1>. QED  BY <1>1, <1>2, <1>5, <1>6, <1>7, Zenon DEF Traversal
-----------------------------------------------------------------------------
\* The function's blocks: all those made, but for the ones that the constructs hold back

IsPending(ns, b) == \E i \in DOMAIN ns : b \in Pending(ns[i])

Distinct(s) == \A i, j \in 1 .. Len(s) : s[i] = s[j] => i = j

Own(bs, B, ns) ==
    /\ bs \in Seq(Nat) /\ bs # <<>> /\ bs[1] = 1 /\ Distinct(bs)
    /\ \A b : Contains(bs, b) <=> b \in B /\ ~IsPending(ns, b)

OwnInv == phase \in {"build", "order", "done"} /\ Own(blocks, DOMAIN code, nest)

IsConcat(bs, add, bs2) ==
    /\ bs2 \in Seq(Nat) /\ Len(bs) \in Nat /\ Len(add) \in Nat /\ Len(bs2) = Len(bs) + Len(add)
    /\ \A i \in 1 .. Len(bs) : bs2[i] = bs[i]
    /\ \A i \in 1 .. Len(bs2) : i \in 1 .. Len(bs) \/ (i - Len(bs) \in 1 .. Len(add) /\ bs2[i] = add[i - Len(bs)])
    /\ \A i \in 1 .. Len(add) : Len(bs) + i \in 1 .. Len(bs2) /\ bs2[Len(bs) + i] = add[i]

LEMMA Concatenated ==
    ASSUME NEW bs \in Seq(Nat), NEW add \in Seq(Nat)
    PROVE  IsConcat(bs, add, bs \o add)
<1>. DEFINE bs2 == bs \o add
<1>1. bs2 \in Seq(Nat) /\ Len(bs) \in Nat /\ Len(add) \in Nat /\ Len(bs2) = Len(bs) + Len(add)
      /\ \A i \in 1 .. Len(bs) + Len(add) : bs2[i] = IF i <= Len(bs) THEN bs[i] ELSE add[i - Len(bs)]
  BY ConcatProperties
<1>. HIDE DEF bs2
<1>2. \A i \in 1 .. Len(bs) : i \in 1 .. Len(bs) + Len(add) /\ i <= Len(bs)
  BY <1>1
<1>3. \A i \in 1 .. Len(bs2) : i \in 1 .. Len(bs) + Len(add) /\ (i \in 1 .. Len(bs) \/ (i - Len(bs) \in 1 .. Len(add) /\ ~(i <= Len(bs))))
  BY <1>1
<1>4. \A i \in 1 .. Len(add) : Len(bs) + i \in 1 .. Len(bs2) /\ Len(bs) + i \in 1 .. Len(bs) + Len(add)
                              /\ ~(Len(bs) + i <= Len(bs)) /\ (Len(bs) + i) - Len(bs) = i
  BY <1>1
<1>5. \A i \in 1 .. Len(bs) : bs2[i] = bs[i]
  BY <1>1, <1>2, Zenon
<1>6. \A i \in 1 .. Len(bs2) : i \in 1 .. Len(bs) \/ (i - Len(bs) \in 1 .. Len(add) /\ bs2[i] = add[i - Len(bs)])
  BY <1>1, <1>3, Zenon
<1>7. \A i \in 1 .. Len(add) : Len(bs) + i \in 1 .. Len(bs2) /\ bs2[Len(bs) + i] = add[i]
  BY <1>1, <1>4
<1>8. IsConcat(bs, add, bs2)
  BY <1>1, <1>5, <1>6, <1>7, Zenon DEF IsConcat
<1>. QED  BY <1>8 DEF bs2

\* blocks that are added to the function
LEMMA OwnStep ==
    ASSUME NEW bs, NEW B, NEW ns, Own(bs, B, ns), NEW add \in Seq(Nat), Distinct(add), \A b : Contains(add, b) => ~Contains(bs, b),
           NEW B2, NEW ns2, \A b : (b \in B2 /\ ~IsPending(ns2, b)) <=> (b \in B /\ ~IsPending(ns, b)) \/ Contains(add, b)
    PROVE  Own(bs \o add, B2, ns2)
<1>. DEFINE bs2 == bs \o add
<1>1. bs \in Seq(Nat) /\ bs # <<>> /\ bs[1] = 1 /\ Distinct(bs) /\ \A b : Contains(bs, b) <=> b \in B /\ ~IsPending(ns, b)
  BY DEF Own
<1>2. IsConcat(bs, add, bs2)
  BY <1>1, Concatenated
<1>. HIDE DEF bs2
<1>3. /\ bs2 \in Seq(Nat) /\ Len(bs) \in Nat /\ Len(add) \in Nat /\ Len(bs2) = Len(bs) + Len(add)
      /\ \A i \in 1 .. Len(bs) : bs2[i] = bs[i]
      /\ \A i \in 1 .. Len(bs2) : i \in 1 .. Len(bs) \/ (i - Len(bs) \in 1 .. Len(add) /\ bs2[i] = add[i - Len(bs)])
      /\ \A i \in 1 .. Len(add) : Len(bs) + i \in 1 .. Len(bs2) /\ bs2[Len(bs) + i] = add[i]
  BY <1>2, Zenon DEF IsConcat
<1>4. 1 \in 1 .. Len(bs) /\ Len(bs2) > 0 /\ \A i \in 1 .. Len(bs) : i \in 1 .. Len(bs2)
  BY <1>1, <1>3
<1>5. bs2 # <<>> /\ bs2[1] = 1
  BY <1>1, <1>3, <1>4
<1>6. ASSUME NEW b PROVE Contains(bs2, b) <=> Contains(bs, b) \/ Contains(add, b)
  <2>1. ASSUME Contains(bs2, b) PROVE Contains(bs, b) \/ Contains(add, b)
    BY <1>3, <2>1, ZenonT(40) DEF Contains
  <2>2. ASSUME Contains(bs, b) PROVE Contains(bs2, b)
    BY <1>3, <1>4, <2>2, Zenon DEF Contains
  <2>3. ASSUME Contains(add, b) PROVE Contains(bs2, b)
    BY <1>3, <2>3, Zenon DEF Contains
  <2>. QED  BY <2>1, <2>2, <2>3
<1>7. ASSUME NEW i \in 1 .. Len(bs2), NEW j \in 1 .. Len(bs2), bs2[i] = bs2[j] PROVE i = j
  <2>1. CASE i \in 1 .. Len(bs) /\ j \in 1 .. Len(bs)
    BY <1>1, <1>3, <1>7, <2>1 DEF Distinct
  <2>2. ASSUME NEW k \in 1 .. Len(bs), NEW l \in 1 .. Len(bs2), l \notin 1 .. Len(bs) PROVE bs2[k] # bs2[l]
    <3>1. Contains(bs, bs2[k]) /\ Contains(add, bs2[l])
      BY <1>3, <2>2, Zenon DEF Contains
    <3>. QED  BY <3>1
  <2>3. CASE i \notin 1 .. Len(bs) /\ j \notin 1 .. Len(bs)
    <3>1. i - Len(bs) \in 1 .. Len(add) /\ j - Len(bs) \in 1 .. Len(add) /\ add[i - Len(bs)] = add[j - Len(bs)]
      BY <1>3, <1>7, <2>3, Zenon
    <3>2. i - Len(bs) = j - Len(bs)
      BY <3>1, Zenon DEF Distinct
    <3>. QED  BY <1>3, <3>2
  <2>. QED  BY <1>7, <2>1, <2>2, <2>3
<1>8. Own(bs2, B2, ns2)
  BY <1>1, <1>3, <1>5, <1>6, <1>7 DEF Own, Distinct
<1>. QED  BY <1>8 DEF bs2

\* the blocks that the builder adds at a time are distinct
LEMMA FewBlocks ==
    /\ \A b \in Nat : <<b>> \in Seq(Nat) /\ Distinct(<<b>>)
    /\ \A a, b \in Nat : a # b => <<a, b>> \in Seq(Nat) /\ Distinct(<<a, b>>)
    /\ \A n, k \in Nat : LET s == [i \in 1 .. k |-> n + i] IN
           s \in Seq(Nat) /\ Distinct(s) /\ \A b : Contains(s, b) <=> b \in n + 1 .. n + k
<1>1. ASSUME NEW b \in Nat PROVE <<b>> \in Seq(Nat) /\ Distinct(<<b>>)
  BY DEF Distinct
<1>2. ASSUME NEW a \in Nat, NEW b \in Nat, a # b PROVE <<a, b>> \in Seq(Nat) /\ Distinct(<<a, b>>)
  <2>1. <<a, b>> \in Seq(Nat) /\ Len(<<a, b>>) = 2 /\ <<a, b>>[1] = a /\ <<a, b>>[2] = b
    OBVIOUS
  <2>2. \A i \in 1 .. 2 : i = 1 \/ i = 2
    OBVIOUS
  <2>. QED  BY <1>2, <2>1, <2>2, Zenon DEF Distinct
<1>3. ASSUME NEW n \in Nat, NEW k \in Nat
      PROVE  LET s == [i \in 1 .. k |-> n + i] IN
             s \in Seq(Nat) /\ Distinct(s) /\ \A b : Contains(s, b) <=> b \in n + 1 .. n + k
  <2>. DEFINE s == [i \in 1 .. k |-> n + i]
  <2>1. s \in Seq(Nat) /\ Len(s) = k /\ \A i \in 1 .. k : s[i] = n + i
    OBVIOUS
  <2>. HIDE DEF s
  <2>2. Distinct(s)
    BY <2>1 DEF Distinct
  <2>3. ASSUME NEW b, Contains(s, b) PROVE b \in n + 1 .. n + k
    BY <2>1, <2>3 DEF Contains
  <2>4. ASSUME NEW b \in n + 1 .. n + k PROVE Contains(s, b)
    <3>1. b - n \in 1 .. k /\ n + (b - n) = b
      BY <2>1
    <3>2. s[b - n] = b
      BY <2>1, <3>1
    <3>. QED  BY <2>1, <3>1, <3>2 DEF Contains
  <2>5. s \in Seq(Nat) /\ Distinct(s) /\ \A b : Contains(s, b) <=> b \in n + 1 .. n + k
    BY <2>1, <2>2, <2>3, <2>4, Zenon
  <2>. QED  BY <2>5 DEF s
<1>. QED  BY <1>1, <1>2, <1>3

\* what is pending, when a construct is opened, left or goes on
LEMMA PendingSteps ==
    ASSUME NEW S, NEW ns \in Seq(S)
    PROVE  /\ \A f, b : IsPending(Append(ns, f), b) <=> IsPending(ns, b) \/ b \in Pending(f)
           /\ ns # <<>> => \A b : IsPending(ns, b) <=> IsPending(Front(ns), b) \/ b \in Pending(ns[Len(ns)])
           /\ ns # <<>> => \A f, b : IsPending(Append(Front(ns), f), b) <=> IsPending(Front(ns), b) \/ b \in Pending(f)
<1>1. ASSUME NEW s \in Seq(S), NEW f, NEW b PROVE IsPending(Append(s, f), b) <=> IsPending(s, b) \/ b \in Pending(f)
  <2>. DEFINE s2 == Append(s, f)
  <2>1. Len(s) \in Nat /\ DOMAIN s = 1 .. Len(s) /\ DOMAIN s2 = 1 .. Len(s) + 1 /\ s2[Len(s) + 1] = f /\ \A i \in 1 .. Len(s) : s2[i] = s[i]
    <3>. DEFINE T == S \cup {f}
    <3>1. Len(s) \in Nat /\ s \in [1 .. Len(s) -> T] /\ f \in T
      OBVIOUS
    <3>. HIDE DEF T
    <3>2. s \in Seq(T)
      BY <3>1
    <3>. QED  BY <3>1, <3>2
  <2>. HIDE DEF s2
  <2>2. Len(s) + 1 \in DOMAIN s2 /\ (\A i \in DOMAIN s : i \in DOMAIN s2) /\ \A i \in DOMAIN s2 : i \in DOMAIN s \/ i = Len(s) + 1
    BY <2>1
  <2>3. IsPending(s2, b) <=> IsPending(s, b) \/ b \in Pending(f)
    BY <2>1, <2>2, Zenon DEF IsPending
  <2>. QED  BY <2>3 DEF s2
<1>2. ASSUME ns # <<>>, NEW b PROVE IsPending(ns, b) <=> IsPending(Front(ns), b) \/ b \in Pending(ns[Len(ns)])
  <2>. DEFINE r == Front(ns)
  <2>1. Len(ns) \in Nat \ {0} /\ DOMAIN r = 1 .. Len(ns) - 1 /\ DOMAIN ns = 1 .. Len(ns) /\ \A i \in 1 .. Len(ns) - 1 : r[i] = ns[i]
    BY <1>2, FrontFacts
  <2>. HIDE DEF r
  <2>2. Len(ns) \in DOMAIN ns /\ (\A i \in DOMAIN r : i \in DOMAIN ns) /\ \A i \in DOMAIN ns : i \in DOMAIN r \/ i = Len(ns)
    BY <2>1
  <2>3. IsPending(ns, b) <=> IsPending(r, b) \/ b \in Pending(ns[Len(ns)])
    BY <2>1, <2>2, Zenon DEF IsPending
  <2>. QED  BY <2>3 DEF r
<1>3. ns # <<>> => Front(ns) \in Seq(S)
  BY FrontFacts
<1>. QED  BY <1>1, <1>2, <1>3

\* what is pending has been made, that of the innermost construct last
LEMMA PendingHere ==
    ASSUME NEW g, Building(g)
    PROVE  /\ Len(code) \in Nat /\ DOMAIN code = 1 .. Len(code) /\ nest \in Seq(Frame)
           /\ \A b : IsPending(nest, b) => b \in 1 .. Len(code)
           /\ nest # <<>> => /\ FrameOK(top) /\ top = nest[Len(nest)]
                             /\ \A b : IsPending(Front(nest), b) => b < First(top) /\ b \in 1 .. Len(code)
                             /\ \A b : b \in Pending(top) => b >= First(top) /\ b \in 1 .. Len(code)
                             /\ First(top) \in Nat
<1>1. Built(g, code, nest, buildPoint) /\ code \in Seq(Seq(Instruction)) /\ Len(code) \in Nat /\ nest \in Seq(Frame)
      /\ (nest # <<>> => top = nest[Len(nest)] /\ Len(nest) \in DOMAIN nest)
  BY DEF Building
<1>2. g.n = Len(code) /\ DOMAIN code = 1 .. Len(code)
  BY <1>1, CodeFacts
<1>3. ASSUME NEW i \in DOMAIN nest, NEW b \in Pending(nest[i])
      PROVE  b \in 1 .. Len(code) /\ b \in Names(nest[i]) /\ b >= First(nest[i])
  <2>1. FrameOK(nest[i]) /\ Names(nest[i]) \subseteq 1 .. g.n
    BY <1>1, BuiltFrame
  <2>2. b \in Await(nest[i]) /\ b \in Names(nest[i]) /\ b # Header(nest[i])
    BY <2>1, <1>3, FrameFacts
  <2>3. b >= First(nest[i])
    BY <2>1, <2>2, FrameFacts
  <2>. QED  BY <1>2, <2>1, <2>2, <2>3
<1>4. ASSUME nest # <<>>
      PROVE  /\ FrameOK(top) /\ First(top) \in Nat
             /\ \A i \in DOMAIN nest : i # Len(nest) => \A b \in Names(nest[i]) : b < First(top)
             /\ DOMAIN Front(nest) = 1 .. Len(nest) - 1 /\ \A i \in 1 .. Len(nest) - 1 : Front(nest)[i] = nest[i]
  <2>1. FrameOK(top) /\ \A i \in DOMAIN nest : i # Len(nest) => Within(g, nest[i], top)
    BY <1>1, <1>4, InnerFrame
  <2>2. First(top) \in Nat
    BY <2>1, FrameFacts
  <2>3. DOMAIN Front(nest) = 1 .. Len(nest) - 1 /\ \A i \in 1 .. Len(nest) - 1 : Front(nest)[i] = nest[i]
    BY <1>1, <1>4, FrontFacts
  <2>. QED  BY <2>1, <2>2, <2>3 DEF Within
<1>5. ASSUME nest # <<>>, NEW b, IsPending(Front(nest), b) PROVE b < First(top) /\ b \in 1 .. Len(code)
  <2>1. PICK i \in 1 .. Len(nest) - 1 : b \in Pending(nest[i])
    BY <1>4, <1>5 DEF IsPending
  <2>2. i \in DOMAIN nest /\ i # Len(nest)
    BY <1>1, <1>5, <2>1
  <2>. QED  BY <1>3, <1>4, <1>5, <2>1, <2>2
<1>6. ASSUME nest # <<>>, NEW b \in Pending(top) PROVE b >= First(top) /\ b \in 1 .. Len(code)
  BY <1>1, <1>3, <1>6
<1>7. \A b : IsPending(nest, b) => b \in 1 .. Len(code)
  BY <1>3 DEF IsPending
<1>. QED  BY <1>1, <1>2, <1>4, <1>5, <1>6, <1>7

\* blocks are added, as the numbers and constructs of the code are after the step
LEMMA OwnAfter ==
    ASSUME OwnInv, NEW add \in Seq(Nat), Distinct(add), \A b : Contains(add, b) => b \notin DOMAIN code \/ IsPending(nest, b),
           NEW B2, NEW ns2,
           \A b : (b \in B2 /\ ~IsPending(ns2, b)) <=> (b \in DOMAIN code /\ ~IsPending(nest, b)) \/ Contains(add, b)
    PROVE  Own(blocks \o add, B2, ns2)
<1>1. Own(blocks, DOMAIN code, nest)
  BY DEF OwnInv
<1>2. \A b : Contains(add, b) => ~Contains(blocks, b)
  BY <1>1 DEF Own
<1>. HIDE DEF OwnInv
<1>. QED  BY <1>1, <1>2, OwnStep

\* no block is added
LEMMA OwnSame ==
    ASSUME OwnInv, NEW B2, NEW ns2, \A b : (b \in B2 /\ ~IsPending(ns2, b)) <=> (b \in DOMAIN code /\ ~IsPending(nest, b))
    PROVE  Own(blocks, B2, ns2)
<1>1. Own(blocks, DOMAIN code, nest)
  BY DEF OwnInv
<1>. QED  BY <1>1 DEF Own

LEMMA PutDomain == \A c, b, is : DOMAIN Put(c, b, is) = DOMAIN c
  BY DEF Put

\* selections own their blocks as they begin
LEMMA OwnIf ==
    ASSUME StackInv, BuildInv, OwnInv, (\E kind \in {"if", "and"} : If(kind)) \/ makeBeginElse \/ makeEndIf
    PROVE  OwnInv'
<1>. DEFINE n == Len(code)
<1>1. phase = "build" /\ phase' = phase
  BY DEF If, makeBeginElse, makeEndIf, MayMake, Inside
<1>g. PICK g : Building(g)
  BY <1>1, BuildingFacts
<1>2. /\ n \in Nat /\ DOMAIN code = 1 .. n /\ nest \in Seq(Frame)
      /\ \A b : IsPending(nest, b) => b \in 1 .. n
      /\ nest # <<>> => /\ FrameOK(top) /\ top = nest[Len(nest)]
                        /\ \A b : IsPending(Front(nest), b) => b < First(top) /\ b \in 1 .. n
                        /\ \A b : b \in Pending(top) => b >= First(top) /\ b \in 1 .. n
                        /\ First(top) \in Nat
  BY <1>g, PendingHere
<1>3. code \in Seq(Seq(Instruction))
  BY DEF StackInv
<1>4. \A k \in Nat : DOMAIN Made(k) = 1 .. n + k
  BY <1>3, MadeFacts
<1>5. <<n + 1>> \in Seq(Nat) /\ Distinct(<<n + 1>>) /\ \A b : Contains(<<n + 1>>, b) <=> b = n + 1
  BY <1>2, FewBlocks, ContainsFew
<1>6. ASSUME NEW kind \in {"if", "and"}, If(kind) PROVE OwnInv'
  <2>. DEFINE f == [kind |-> kind, place |-> "then", header |-> buildPoint, then |-> New(1), else |-> 0, merge |-> New(2)]
              ns2 == Append(nest, f)
              add == <<n + 1>>
  <2>1. code' = Made(2) /\ blocks' = Append(blocks, New(1)) /\ nest' = ns2
    BY <1>6 DEF If
  <2>2. Pending(f) = {n + 2}
    BY DEF Pending, New
  <2>3. blocks' = blocks \o add /\ DOMAIN code' = 1 .. n + 2
    <3>1. DOMAIN Made(2) = 1 .. n + 2
      BY <1>4
    <3>. HIDE DEF f
    <3>2. DOMAIN code' = 1 .. n + 2
      BY <2>1, <3>1, Zenon
    <3>3. blocks' = blocks \o add
      BY <2>1 DEF New, OwnInv, Own
    <3>. QED  BY <3>2, <3>3
  <2>. HIDE DEF f, add
  <2>4. \A b : IsPending(ns2, b) <=> IsPending(nest, b) \/ b \in Pending(f)
    BY <1>2, PendingSteps
  <2>. HIDE DEF ns2
  <2>5. \A b : (b \in 1 .. n + 2 /\ ~IsPending(ns2, b)) <=> (b \in DOMAIN code /\ ~IsPending(nest, b)) \/ Contains(add, b)
    <3>1. \A b : Contains(add, b) <=> b = n + 1
      BY <1>5 DEF add
    <3>. QED  BY <1>2, <2>2, <2>4, <3>1
  <2>6. Own(blocks \o add, 1 .. n + 2, ns2)
    <3>1. add \in Seq(Nat) /\ Distinct(add) /\ \A b : Contains(add, b) => b \notin DOMAIN code \/ IsPending(nest, b)
      BY <1>2, <1>5 DEF add
    <3>. QED  BY <2>5, <3>1, OwnAfter
  <2>. QED  BY <1>1, <2>1, <2>3, <2>6 DEF OwnInv
<1>7. ASSUME makeBeginElse PROVE OwnInv'
  <2>. DEFINE f == [top EXCEPT !.place = "else", !.else = New(1)]
              ns2 == Append(Front(nest), f)
              add == <<n + 1>>
              put == Put(Made(1), buildPoint, <<Instr("Branch", <<top.merge>>)>>)
  <2>1. code' = put /\ blocks' = Append(blocks, New(1)) /\ nest' = ns2 /\ nest # <<>> /\ top.kind \in {"if"}
    BY <1>7 DEF makeBeginElse, Inside, SetTop
  <2>2. Pending(f) = {top.merge} /\ Pending(top) = {top.merge}
    <3>1. top \in IfFrame
      BY <1>2, <2>1, IfFacts
    <3>2. f.kind = top.kind /\ f.merge = top.merge
      BY <3>1 DEF IfFrame
    <3>. HIDE DEF f
    <3>. QED  BY <2>1, <3>2 DEF Pending
  <2>3. blocks' = blocks \o add /\ DOMAIN code' = 1 .. n + 1
    <3>1. DOMAIN put = 1 .. n + 1
      <4>1. DOMAIN Made(1) = 1 .. n + 1
        BY <1>4
      <4>. QED  BY <4>1, PutDomain, Zenon
    <3>. HIDE DEF put
    <3>. QED  BY <2>1, <3>1 DEF New, OwnInv, Own
  <2>. HIDE DEF f, add
  <2>4. \A b : IsPending(ns2, b) <=> IsPending(nest, b)
    <3>1. \A b : IsPending(nest, b) <=> IsPending(Front(nest), b) \/ b \in Pending(nest[Len(nest)])
      BY <1>2, <2>1, PendingSteps
    <3>2. \A b : IsPending(ns2, b) <=> IsPending(Front(nest), b) \/ b \in Pending(f)
      BY <1>2, <2>1, PendingSteps
    <3>3. Pending(nest[Len(nest)]) = Pending(f)
      BY <1>2, <2>1, <2>2
    <3>. QED  BY <3>1, <3>2, <3>3, Zenon
  <2>. HIDE DEF ns2
  <2>5. \A b : (b \in 1 .. n + 1 /\ ~IsPending(ns2, b)) <=> (b \in DOMAIN code /\ ~IsPending(nest, b)) \/ Contains(add, b)
    <3>1. \A b : Contains(add, b) <=> b = n + 1
      BY <1>5 DEF add
    <3>. QED  BY <1>2, <2>4, <3>1
  <2>6. Own(blocks \o add, 1 .. n + 1, ns2)
    <3>1. add \in Seq(Nat) /\ Distinct(add) /\ \A b : Contains(add, b) => b \notin DOMAIN code \/ IsPending(nest, b)
      BY <1>2, <1>5 DEF add
    <3>. QED  BY <2>5, <3>1, OwnAfter
  <2>. QED  BY <1>1, <2>1, <2>3, <2>6 DEF OwnInv
<1>8. ASSUME makeEndIf PROVE OwnInv'
  <2>. DEFINE m == top.merge
              branched == Put(code, buildPoint, <<Instr("Branch", <<m>>)>>)
              phi == IF top.kind = "and" THEN <<Instr("Phi", PhiParents)>> ELSE <<>>
              split == Put(branched, top.header, FlowSplit)
              put == Put(split, m, phi)
              ns2 == Front(nest)
              add == <<m>>
  <2>1. code' = put /\ blocks' = Append(blocks, m) /\ nest' = ns2 /\ nest # <<>> /\ top.kind \in {"if", "and"}
    BY <1>8 DEF makeEndIf, Inside
  <2>2. Pending(top) = {m} /\ m \in Nat
    BY <1>2, <2>1, IfFacts DEF Pending
  <2>3. DOMAIN code' = 1 .. n
    <3>1. DOMAIN put = DOMAIN split /\ DOMAIN split = DOMAIN branched /\ DOMAIN branched = DOMAIN code
      BY PutDomain, Zenon
    <3>. HIDE DEF put, split, branched
    <3>. QED  BY <1>2, <2>1, <3>1
  <2>. HIDE DEF m
  <2>4. blocks' = blocks \o add
    BY <2>1, <2>2 DEF OwnInv, Own
  <2>5. add \in Seq(Nat) /\ Distinct(add) /\ \A b : Contains(add, b) <=> b = m
    BY <2>2, FewBlocks, ContainsFew
  <2>. HIDE DEF add
  <2>6. \A b : IsPending(nest, b) <=> IsPending(ns2, b) \/ b = m
    <3>1. \A b : IsPending(nest, b) <=> IsPending(ns2, b) \/ b \in Pending(nest[Len(nest)])
      BY <1>2, <2>1, PendingSteps
    <3>2. Pending(nest[Len(nest)]) = {m}
      BY <1>2, <2>1, <2>2
    <3>. QED  BY <3>1, <3>2
  <2>7. /\ m >= First(top) /\ m \in 1 .. n /\ First(top) \in Nat
        /\ \A b : IsPending(ns2, b) => b < First(top) /\ b \in 1 .. n
    BY <1>2, <2>1, <2>2
  <2>. HIDE DEF ns2
  <2>8. ~IsPending(ns2, m)
    BY <2>2, <2>7
  <2>9. \A b : (b \in DOMAIN code /\ ~IsPending(ns2, b)) <=> (b \in DOMAIN code /\ ~IsPending(nest, b)) \/ Contains(add, b)
    BY <1>2, <2>5, <2>6, <2>7, <2>8
  <2>10. Own(blocks \o add, DOMAIN code, ns2)
    <3>1. add \in Seq(Nat) /\ Distinct(add) /\ \A b : Contains(add, b) => b \notin DOMAIN code \/ IsPending(nest, b)
      BY <2>5, <2>6
    <3>. QED  BY <2>9, <3>1, OwnAfter
  <2>. QED  BY <1>1, <1>2, <2>1, <2>3, <2>4, <2>10 DEF OwnInv
<1>. QED  BY <1>6, <1>7, <1>8

LEMMA OwnMakeSwitch ==
    ASSUME StackInv, BuildInv, OwnInv, NEW s \in Segmentations, NEW lastEmpty \in BOOLEAN, makeSwitch(s, lastEmpty)
    PROVE  OwnInv'
<1>. DEFINE n == Len(code)
            k == s.count + 1
            merge == New(k)
            f == [kind |-> "switch", place |-> "head", header |-> buildPoint, first |-> New(1),
                  count |-> s.count, next |-> 1, lastEmpty |-> lastEmpty, merge |-> merge]
            default == IF s.default # 0 THEN New(s.default) ELSE merge
            is == <<Instr("SelectionMerge", <<merge>>),
                    Instr("Switch", <<default>> \o [i \in DOMAIN s.cases |-> New(s.cases[i])])>>
            put == Put(Made(k), buildPoint, is)
            ns2 == Append(nest, f)
<1>1. phase = "build" /\ phase' = phase /\ blocks' = blocks
  BY Zenon DEF makeSwitch, MayMake
<1>2. code' = put /\ nest' = ns2
  BY Zenon DEF makeSwitch
<1>g. PICK g : Building(g)
  BY <1>1, BuildingFacts
<1>3. /\ n \in Nat /\ DOMAIN code = 1 .. n /\ nest \in Seq(Frame)
      /\ \A b : IsPending(nest, b) => b \in 1 .. n
  BY <1>g, PendingHere
<1>4. s.count \in Nat /\ k \in Nat
  BY DEF Segmentations
<1>5. DOMAIN code' = 1 .. n + k
  <2>1. DOMAIN Made(k) = 1 .. n + k
    <3>. HIDE DEF k
    <3>1. code \in Seq(Seq(Instruction))
      BY DEF StackInv
    <3>2. Made(k) \in Seq(Seq(Instruction)) /\ Len(Made(k)) = n + k
      BY <1>4, <3>1, MadeFacts
    <3>. QED  BY <3>2
  <2>. HIDE DEF is
  <2>2. DOMAIN put = DOMAIN Made(k)
    BY PutDomain, Zenon
  <2>. HIDE DEF put
  <2>. QED  BY <1>2, <2>1, <2>2, Zenon
<1>6. Pending(f) = n + 1 .. n + k
  <2>1. f.kind = "switch" /\ f.first = n + 1 /\ f.count = s.count /\ f.next = 1 /\ f.merge = n + k
    BY DEF New
  <2>. HIDE DEF f, k
  <2>2. Pending(f) = {n + k} \cup ((n + 1) + 1 - 1 .. (n + 1) + s.count - 1)
    BY <2>1, Zenon DEF Pending, Segments
  <2>3. {n + k} \cup ((n + 1) + 1 - 1 .. (n + 1) + s.count - 1) = n + 1 .. n + k
    <3>1. ASSUME NEW a \in Nat, NEW c \in Nat PROVE {a + (c + 1)} \cup ((a + 1) + 1 - 1 .. (a + 1) + c - 1) = a + 1 .. a + (c + 1)
      OBVIOUS
    <3>. QED  BY <1>3, <1>4, <3>1 DEF k
  <2>. QED  BY <2>2, <2>3
<1>. HIDE DEF f, k
<1>7. \A b : IsPending(ns2, b) <=> IsPending(nest, b) \/ b \in Pending(f)
  BY <1>3, PendingSteps
<1>. HIDE DEF ns2
<1>8. \A b : (b \in 1 .. n + k /\ ~IsPending(ns2, b)) <=> (b \in DOMAIN code /\ ~IsPending(nest, b))
  BY <1>3, <1>4, <1>6, <1>7
<1>9. Own(blocks, 1 .. n + k, ns2)
  BY <1>8, OwnSame
<1>. QED  BY <1>1, <1>2, <1>5, <1>9 DEF OwnInv

LEMMA OwnNextSegment ==
    ASSUME StackInv, BuildInv, OwnInv, nextSwitchSegment
    PROVE  OwnInv'
<1>. DEFINE n == Len(code)
            segment == top.first + top.next - 1
            closed == IF top.next > 1 /\ ~isTerminated(buildPoint) THEN Put(code, buildPoint, <<Instr("Branch", <<segment>>)>>) ELSE code
            isEmpty == top.lastEmpty /\ top.next = top.count
            f2 == [top EXCEPT !.next = @ + 1, !.place = IF isEmpty THEN "empty" ELSE "segment"]
            filled == Put(closed, segment, <<Instr("Branch", <<Last(switchMerges)>>)>>)
            ns2 == Append(Front(nest), f2)
<1>0. /\ phase = "build" /\ phase' = phase /\ nest # <<>> /\ top.kind \in {"switch"} /\ top.next <= top.count
      /\ nest' = ns2
      /\ IF isEmpty THEN code' = filled \o << <<>> >> /\ blocks' = blocks \o <<segment, New(1)>>
                    ELSE code' = closed /\ blocks' = Append(blocks, segment)
  BY DEF nextSwitchSegment, Inside, SetTop
<1>. HIDE DEF isEmpty
<1>g. PICK g : Building(g)
  BY <1>0, BuildingFacts
<1>1. /\ n \in Nat /\ DOMAIN code = 1 .. n /\ nest \in Seq(Frame)
      /\ \A b : IsPending(nest, b) => b \in 1 .. n
      /\ FrameOK(top) /\ top = nest[Len(nest)]
      /\ \A b : IsPending(Front(nest), b) => b < First(top) /\ b \in 1 .. n
      /\ \A b : b \in Pending(top) => b >= First(top) /\ b \in 1 .. n
      /\ First(top) \in Nat
  BY <1>0, <1>g, PendingHere
<1>2. buildPoint \in 1 .. n /\ code \in Seq(Seq(Instruction))
  BY <1>g DEF Building
<1>3. /\ top \in SwitchFrame /\ top.first \in Nat /\ top.count \in Nat /\ top.next \in Nat /\ top.merge \in Nat /\ top.next \in 1 .. top.count + 1
      /\ First(top) = top.first /\ top.merge = top.first + top.count
  BY <1>0, <1>1, SwitchFacts
<1>4. /\ Pending(top) = {top.merge} \cup (segment .. (top.first + top.count - 1)) /\ segment \in Pending(top)
      /\ segment \in Nat /\ top.merge # segment /\ top.first <= segment
  <2>1. Pending(top) = {top.merge} \cup (segment .. (top.first + top.count - 1))
    BY <1>0 DEF Pending, Segments
  <2>2. segment \in Nat /\ top.merge # segment /\ top.first <= segment /\ segment \in segment .. (top.first + top.count - 1)
    <3>1. top.next <= top.count
      BY <1>0
    <3>2. ASSUME NEW a \in Nat, NEW c \in Nat, NEW x \in Nat, x \in 1 .. c + 1, x <= c
          PROVE  a + x - 1 \in Nat /\ a + c # a + x - 1 /\ a <= a + x - 1 /\ a + x - 1 \in (a + x - 1) .. (a + c - 1)
      BY <3>2
    <3>. QED  BY <1>3, <3>1, <3>2
  <2>. QED  BY <2>1, <2>2
<1>5. Pending(f2) = {top.merge} \cup (segment + 1 .. (top.first + top.count - 1))
  <2>1. f2.kind = top.kind /\ f2.merge = top.merge /\ f2.first = top.first /\ f2.count = top.count /\ f2.next = top.next + 1
    BY <1>3 DEF SwitchFrame
  <2>. HIDE DEF f2
  <2>2. Pending(f2) = {top.merge} \cup ((top.first + (top.next + 1) - 1) .. (top.first + top.count - 1))
    BY <1>0, <2>1 DEF Pending, Segments
  <2>3. top.first + (top.next + 1) - 1 = segment + 1
    BY <1>3
  <2>. QED  BY <2>2, <2>3
<1>. HIDE DEF segment, f2
<1>6. \A b : b \in Pending(top) <=> b \in Pending(f2) \/ b = segment
  BY <1>3, <1>4, <1>5
<1>7. segment \notin Pending(f2)
  BY <1>3, <1>4, <1>5
<1>8. /\ \A b : IsPending(nest, b) <=> IsPending(Front(nest), b) \/ b \in Pending(top)
      /\ \A b : IsPending(ns2, b) <=> IsPending(Front(nest), b) \/ b \in Pending(f2)
  <2>1. \A b : IsPending(nest, b) <=> IsPending(Front(nest), b) \/ b \in Pending(nest[Len(nest)])
    BY <1>0, <1>1, PendingSteps
  <2>2. \A b : IsPending(ns2, b) <=> IsPending(Front(nest), b) \/ b \in Pending(f2)
    BY <1>0, <1>1, PendingSteps
  <2>. QED  BY <1>1, <2>1, <2>2
<1>9. segment \in 1 .. n /\ ~IsPending(Front(nest), segment)
  BY <1>1, <1>3, <1>4, SMTT(40)
<1>. HIDE DEF ns2
<1>10. \A b : (IsPending(nest, b) <=> IsPending(ns2, b) \/ b = segment) /\ ~IsPending(ns2, segment)
  BY <1>6, <1>7, <1>8, <1>9
<1>11. closed \in Seq(Seq(Instruction)) /\ Len(closed) = n /\ DOMAIN closed = 1 .. n
  <2>. DEFINE is == <<Instr("Branch", <<segment>>)>>
              put == Put(code, buildPoint, is)
  <2>1. is \in Seq(Instruction)
    <3>1. <<segment>> \in Seq(Nat) /\ "Branch" \in Ends
      BY <1>4, Ops, NatTargets
    <3>. QED  BY <3>1, InstrSeq
  <2>. HIDE DEF is
  <2>2. put \in Seq(Seq(Instruction)) /\ Len(put) = n
    BY <1>2, <2>1, PutFacts
  <2>3. closed = code \/ closed = put
    BY DEF is
  <2>. HIDE DEF closed, put
  <2>4. closed \in Seq(Seq(Instruction)) /\ Len(closed) = n
    BY <1>2, <2>2, <2>3
  <2>. QED  BY <2>4
<1>. HIDE DEF closed
<1>12. CASE ~isEmpty
  <2>. DEFINE add == <<segment>>
  <2>1. blocks' = blocks \o add /\ DOMAIN code' = 1 .. n
    <3>1. code' = closed /\ blocks' = Append(blocks, segment)
      BY <1>0, <1>12
    <3>2. DOMAIN code' = 1 .. n
      BY <1>11, <3>1, Zenon
    <3>3. blocks \in Seq(Nat)
      BY DEF OwnInv, Own
    <3>4. Append(blocks, segment) = blocks \o <<segment>>
      BY <1>4, <3>3
    <3>. QED  BY <3>1, <3>2, <3>4
  <2>2. add \in Seq(Nat) /\ Distinct(add) /\ \A b : Contains(add, b) <=> b = segment
    BY <1>4, FewBlocks, ContainsFew
  <2>. HIDE DEF add
  <2>3. \A b : (b \in 1 .. n /\ ~IsPending(ns2, b)) <=> (b \in DOMAIN code /\ ~IsPending(nest, b)) \/ Contains(add, b)
    BY <1>1, <1>9, <1>10, <2>2
  <2>4. \A b : Contains(add, b) => b \notin DOMAIN code \/ IsPending(nest, b)
    BY <1>10, <2>2
  <2>5. Own(blocks \o add, 1 .. n, ns2)
    BY <2>2, <2>3, <2>4, OwnAfter
  <2>. QED  BY <1>0, <2>1, <2>5 DEF OwnInv
<1>13. CASE isEmpty
  <2>. DEFINE add == <<segment, n + 1>>
              is == <<Instr("Branch", <<Last(switchMerges)>>)>>
  <2>1. filled \in Seq(Seq(Instruction)) /\ Len(filled) = n
    <3>1. is \in Seq(Instruction)
      <4>1. Last(switchMerges) = top.merge
        <5>1. Stacks(nest, breakForLoop, loops, switchMerges)
          BY DEF StackInv
        <5>2. top.kind = "switch"
          BY <1>0
        <5>. QED  BY <1>0, <5>1, <5>2, StacksPop DEF top
      <4>2. <<Last(switchMerges)>> \in Seq(Nat) /\ "Branch" \in Ends
        BY <1>3, <4>1, Ops, NatTargets
      <4>. QED  BY <4>2, InstrSeq
    <3>. HIDE DEF is
    <3>2. Put(closed, segment, is) \in Seq(Seq(Instruction)) /\ Len(Put(closed, segment, is)) = n
      BY <1>9, <1>11, <3>1, PutFacts
    <3>. QED  BY <3>2 DEF is
  <2>. HIDE DEF filled
  <2>2. DOMAIN code' = 1 .. n + 1
    <3>1. code' = filled \o << <<>> >>
      BY <1>0, <1>13
    <3>2. DOMAIN (filled \o << <<>> >>) = 1 .. n + 1
      <4>1. << <<>> >> \in Seq(Seq(Instruction)) /\ Len(<< <<>> >>) = 1
        OBVIOUS
      <4>. DEFINE e == << <<>> >>
      <4>. HIDE DEF e
      <4>2. filled \o e \in Seq(Seq(Instruction)) /\ Len(filled \o e) = n + 1
        BY <2>1, <4>1, ConcatProperties DEF e
      <4>3. DOMAIN (filled \o e) = 1 .. n + 1
        BY <4>2
      <4>. QED  BY <4>3 DEF e
    <3>. QED  BY <3>1, <3>2
  <2>3. blocks' = blocks \o add
    BY <1>0, <1>13 DEF New
  <2>4. segment # n + 1 /\ n + 1 \in Nat
    BY <1>1, <1>9
  <2>5. add \in Seq(Nat) /\ Distinct(add) /\ \A b : Contains(add, b) <=> b = segment \/ b = n + 1
    <3>1. n + 1 \in Nat
      BY <1>1
    <3>. QED  BY <1>4, <2>4, <3>1, FewBlocks, ContainsFew
  <2>. HIDE DEF add
  <2>6. \A b : (b \in 1 .. n + 1 /\ ~IsPending(ns2, b)) <=> (b \in DOMAIN code /\ ~IsPending(nest, b)) \/ Contains(add, b)
    <3>1. ~IsPending(ns2, n + 1)
      BY <1>1, <1>10
    <3>2. \A b : b \in 1 .. n + 1 <=> b \in 1 .. n \/ b = n + 1
      BY <1>1
    <3>. QED  BY <1>1, <1>9, <1>10, <2>5, <3>1, <3>2
  <2>7. \A b : Contains(add, b) => b \notin DOMAIN code \/ IsPending(nest, b)
    <3>1. n + 1 \notin DOMAIN code
      BY <1>1
    <3>. QED  BY <1>10, <2>5, <3>1
  <2>8. Own(blocks \o add, 1 .. n + 1, ns2)
    BY <2>5, <2>6, <2>7, OwnAfter
  <2>. QED  BY <1>0, <2>2, <2>3, <2>8 DEF OwnInv
<1>. QED  BY <1>12, <1>13

LEMMA OwnEndSwitch ==
    ASSUME StackInv, BuildInv, OwnInv, endSwitch
    PROVE  OwnInv'
<1>. DEFINE n == Len(code)
            m == top.merge
            put == Put(Made(1), buildPoint, <<Instr("Branch", <<Last(switchMerges)>>)>>)
            ns2 == Front(nest)
<1>0. /\ phase = "build" /\ phase' = phase /\ nest # <<>> /\ top.kind = "switch" /\ top.next > top.count /\ nest' = ns2
      /\ \/ code' = code /\ blocks' = Append(blocks, Last(switchMerges))
         \/ code' = put /\ blocks' = blocks \o <<New(1), Last(switchMerges)>>
  BY DEF endSwitch, Inside
<1>g. PICK g : Building(g)
  BY <1>0, BuildingFacts
<1>1. /\ n \in Nat /\ DOMAIN code = 1 .. n /\ nest \in Seq(Frame)
      /\ \A b : IsPending(nest, b) => b \in 1 .. n
      /\ FrameOK(top) /\ top = nest[Len(nest)]
      /\ \A b : IsPending(Front(nest), b) => b < First(top) /\ b \in 1 .. n
      /\ \A b : b \in Pending(top) => b >= First(top) /\ b \in 1 .. n
      /\ First(top) \in Nat
  BY <1>0, <1>g, PendingHere
<1>2. top.first \in Nat /\ top.count \in Nat /\ top.next \in Nat /\ m \in Nat
  BY <1>0, <1>1, SwitchFacts
<1>3. Last(switchMerges) = m
  <2>1. Stacks(nest, breakForLoop, loops, switchMerges)
    BY DEF StackInv
  <2>. QED  BY <1>0, <2>1, StacksPop DEF top
<1>4. Pending(top) = {m}
  <2>1. Segments(top) = {}
    BY <1>0, <1>2 DEF Segments
  <2>. QED  BY <1>0, <2>1 DEF Pending
<1>5. DOMAIN put = 1 .. n + 1
  <2>1. code \in Seq(Seq(Instruction))
    BY DEF StackInv
  <2>2. Made(1) \in Seq(Seq(Instruction)) /\ Len(Made(1)) = n + 1
    BY <2>1, MadeFacts
  <2>3. DOMAIN Made(1) = 1 .. n + 1
    BY <2>2
  <2>. QED  BY <2>3, PutDomain, Zenon
<1>. HIDE DEF m, put
<1>6. \A b : IsPending(nest, b) <=> IsPending(ns2, b) \/ b = m
  <2>1. \A b : IsPending(nest, b) <=> IsPending(ns2, b) \/ b \in Pending(nest[Len(nest)])
    BY <1>0, <1>1, PendingSteps
  <2>2. Pending(nest[Len(nest)]) = {m}
    BY <1>1, <1>4
  <2>. QED  BY <2>1, <2>2
<1>7. m \in 1 .. n /\ ~IsPending(ns2, m) /\ \A b : IsPending(ns2, b) => b \in 1 .. n
  BY <1>1, <1>4
<1>. HIDE DEF ns2
<1>8. CASE code' = code /\ blocks' = Append(blocks, Last(switchMerges))
  <2>. DEFINE add == <<m>>
  <2>1. blocks' = blocks \o add
    <3>1. blocks \in Seq(Nat)
      BY DEF OwnInv, Own
    <3>. QED  BY <1>2, <1>3, <1>8, <3>1
  <2>2. add \in Seq(Nat) /\ Distinct(add) /\ \A b : Contains(add, b) <=> b = m
    BY <1>2, FewBlocks, ContainsFew DEF m
  <2>. HIDE DEF add
  <2>3. \A b : (b \in DOMAIN code /\ ~IsPending(ns2, b)) <=> (b \in DOMAIN code /\ ~IsPending(nest, b)) \/ Contains(add, b)
    BY <1>1, <1>6, <1>7, <2>2
  <2>4. \A b : Contains(add, b) => b \notin DOMAIN code \/ IsPending(nest, b)
    BY <1>6, <2>2
  <2>5. Own(blocks \o add, DOMAIN code, ns2)
    BY <2>2, <2>3, <2>4, OwnAfter
  <2>. QED  BY <1>0, <1>8, <2>1, <2>5 DEF OwnInv
<1>9. CASE code' = put /\ blocks' = blocks \o <<New(1), Last(switchMerges)>>
  <2>. DEFINE add == <<n + 1, m>>
  <2>1. blocks' = blocks \o add /\ DOMAIN code' = 1 .. n + 1
    BY <1>3, <1>5, <1>9 DEF New
  <2>2. m # n + 1 /\ n + 1 \in Nat
    BY <1>1, <1>7
  <2>3. add \in Seq(Nat) /\ Distinct(add) /\ \A b : Contains(add, b) <=> b = n + 1 \/ b = m
    BY <1>2, <2>2, FewBlocks, ContainsFew DEF m
  <2>. HIDE DEF add
  <2>4. \A b : (b \in 1 .. n + 1 /\ ~IsPending(ns2, b)) <=> (b \in DOMAIN code /\ ~IsPending(nest, b)) \/ Contains(add, b)
    <3>1. ~IsPending(ns2, n + 1)
      BY <1>1, <1>7
    <3>2. \A b : b \in 1 .. n + 1 <=> b \in 1 .. n \/ b = n + 1
      BY <1>1
    <3>. QED  BY <1>1, <1>6, <1>7, <2>3, <3>1, <3>2
  <2>5. \A b : Contains(add, b) => b \notin DOMAIN code \/ IsPending(nest, b)
    <3>1. n + 1 \notin DOMAIN code
      BY <1>1
    <3>. QED  BY <1>6, <2>3, <3>1
  <2>6. Own(blocks \o add, 1 .. n + 1, ns2)
    BY <2>3, <2>4, <2>5, OwnAfter
  <2>. QED  BY <1>0, <2>1, <2>6 DEF OwnInv
<1>. QED  BY <1>0, <1>8, <1>9

LEMMA OwnLoopBegin ==
    ASSUME StackInv, BuildInv, OwnInv, beginTestedLoop \/ beginLoop
    PROVE  OwnInv'
<1>. DEFINE n == Len(code)
<1>1. PICK k \in {4, 5}, place \in {"test", "body"}, next \in {New(2), New(5)} : loopHeader(k, next) /\ nest' = Append(nest, Loop(place))
  BY Zenon DEF beginTestedLoop, beginLoop
<1>. DEFINE is == <<Instr("LoopMerge", <<New(3), New(4)>>), Instr("Branch", <<next>>)>>
            first == Put(Made(k), buildPoint, <<Instr("Branch", <<New(1)>>)>>)
            put == Put(first, New(1), is)
            add == [i \in 1 .. k |-> n + i]
            f == Loop(place)
            ns2 == Append(nest, f)
<1>2. phase = "build" /\ phase' = phase /\ code' = put /\ blocks' = blocks \o add /\ nest' = ns2
  BY <1>1 DEF loopHeader, MayMake, New
<1>g. PICK g : Building(g)
  BY <1>2, BuildingFacts
<1>3. /\ n \in Nat /\ DOMAIN code = 1 .. n /\ nest \in Seq(Frame)
      /\ \A b : IsPending(nest, b) => b \in 1 .. n
  BY <1>g, PendingHere
<1>4. k \in Nat
  OBVIOUS
<1>5. DOMAIN code' = 1 .. n + k
  <2>1. code \in Seq(Seq(Instruction))
    BY DEF StackInv
  <2>2. Made(k) \in Seq(Seq(Instruction)) /\ Len(Made(k)) = n + k
    BY <1>4, <2>1, MadeFacts
  <2>3. DOMAIN Made(k) = 1 .. n + k
    BY <2>2
  <2>. HIDE DEF is
  <2>4. DOMAIN put = DOMAIN first /\ DOMAIN first = DOMAIN Made(k)
    BY PutDomain, Zenon
  <2>. HIDE DEF put, first
  <2>. QED  BY <1>2, <2>3, <2>4, Zenon
<1>6. Pending(f) = {}
  BY DEF Loop, Pending
<1>7. add \in Seq(Nat) /\ Distinct(add) /\ \A b : Contains(add, b) <=> b \in n + 1 .. n + k
  BY <1>3, <1>4, FewBlocks
<1>. HIDE DEF f, add
<1>8. \A b : IsPending(ns2, b) <=> IsPending(nest, b)
  <2>1. \A b : IsPending(ns2, b) <=> IsPending(nest, b) \/ b \in Pending(f)
    BY <1>3, PendingSteps
  <2>. QED  BY <1>6, <2>1
<1>. HIDE DEF ns2
<1>9. \A b : b \in 1 .. n + k <=> b \in 1 .. n \/ b \in n + 1 .. n + k
  BY <1>3, <1>4
<1>10. \A b : b \in n + 1 .. n + k => b \notin 1 .. n
  BY <1>3, <1>4
<1>11. \A b : (b \in 1 .. n + k /\ ~IsPending(ns2, b)) <=> (b \in DOMAIN code /\ ~IsPending(nest, b)) \/ Contains(add, b)
  BY <1>3, <1>7, <1>8, <1>9, <1>10, Zenon
<1>12. \A b : Contains(add, b) => b \notin DOMAIN code \/ IsPending(nest, b)
  BY <1>3, <1>7, <1>10, Zenon
<1>13. Own(blocks \o add, 1 .. n + k, ns2)
  BY <1>7, <1>11, <1>12, OwnAfter
<1>. QED  BY <1>2, <1>5, <1>13 DEF OwnInv

LEMMA OwnLoopTurn ==
    ASSUME StackInv, BuildInv, OwnInv, NEW testLast, endTest \/ endBody \/ closeLoop(testLast)
    PROVE  OwnInv'
<1>1. /\ phase = "build" /\ phase' = phase /\ blocks' = blocks /\ nest # <<>> /\ top.kind = "loop"
      /\ \/ \E place : nest' = Append(Front(nest), [top EXCEPT !.place = place])
         \/ nest' = Front(nest)
      /\ \E is : code' = Put(code, buildPoint, is)
  <2>1. CASE endTest
    BY <2>1, Zenon DEF endTest, Inside, SetTop
  <2>2. CASE endBody
    BY <2>2, Zenon DEF endBody, Inside, SetTop
  <2>3. CASE closeLoop(testLast)
    BY <2>3, Zenon DEF closeLoop, Inside
  <2>. QED  BY <2>1, <2>2, <2>3
<1>g. PICK g : Building(g)
  BY <1>1, BuildingFacts
<1>2. nest \in Seq(Frame) /\ FrameOK(top) /\ top = nest[Len(nest)]
  BY <1>1, <1>g, PendingHere
<1>3. top \in LoopFrame
  BY <1>1, <1>2, LoopFacts
<1>4. DOMAIN code' = DOMAIN code
  BY <1>1, PutDomain, Zenon
<1>5. \A b : b \notin Pending(top)
  BY <1>1 DEF Pending
<1>6. \A b : IsPending(nest, b) <=> IsPending(Front(nest), b)
  <2>1. \A b : IsPending(nest, b) <=> IsPending(Front(nest), b) \/ b \in Pending(nest[Len(nest)])
    BY <1>1, <1>2, PendingSteps
  <2>. QED  BY <1>2, <1>5, <2>1
<1>7. ASSUME NEW place PROVE \A b : IsPending(Append(Front(nest), [top EXCEPT !.place = place]), b) <=> IsPending(nest, b)
  <2>. DEFINE f2 == [top EXCEPT !.place = place]
  <2>1. \A b : b \notin Pending(f2)
    <3>1. f2.kind = top.kind
      BY <1>3 DEF LoopFrame
    <3>. HIDE DEF f2
    <3>. QED  BY <1>1, <3>1 DEF Pending
  <2>. HIDE DEF f2
  <2>2. \A b : IsPending(Append(Front(nest), f2), b) <=> IsPending(Front(nest), b) \/ b \in Pending(f2)
    BY <1>1, <1>2, PendingSteps
  <2>3. \A b : IsPending(Append(Front(nest), f2), b) <=> IsPending(nest, b)
    BY <1>6, <2>1, <2>2
  <2>. QED  BY <2>3 DEF f2
<1>8. \A b : IsPending(nest', b) <=> IsPending(nest, b)
  BY <1>1, <1>6, <1>7
<1>. DEFINE ns2 == nest'
<1>9. \A b : (b \in DOMAIN code /\ ~IsPending(ns2, b)) <=> (b \in DOMAIN code /\ ~IsPending(nest, b))
  BY <1>8
<1>10. Own(blocks, DOMAIN code, ns2)
  <2>. HIDE DEF ns2
  <2>. QED  BY <1>9, OwnSame
<1>. QED  BY <1>1, <1>4, <1>10 DEF OwnInv

LEMMA OwnJump ==
    ASSUME StackInv, BuildInv, OwnInv, Break \/ Continue \/ ReturnOrDiscard
    PROVE  OwnInv'
<1>. DEFINE n == Len(code)
            add == <<n + 1>>
<1>1. phase = "build" /\ phase' = phase /\ nest' = nest /\ \E instr : jump(instr)
  BY Zenon DEF Break, Continue, ReturnOrDiscard, jump, MayMake
<1>2. PICK instr : jump(instr)
  BY <1>1
<1>3. code' = Put(Made(1), buildPoint, <<instr>>) /\ blocks' = Append(blocks, n + 1)
  BY <1>2 DEF jump, New
<1>g. PICK g : Building(g)
  BY <1>1, BuildingFacts
<1>4. /\ n \in Nat /\ DOMAIN code = 1 .. n /\ nest \in Seq(Frame)
      /\ \A b : IsPending(nest, b) => b \in 1 .. n
  BY <1>g, PendingHere
<1>5. DOMAIN code' = 1 .. n + 1
  <2>1. code \in Seq(Seq(Instruction))
    BY DEF StackInv
  <2>2. Made(1) \in Seq(Seq(Instruction)) /\ Len(Made(1)) = n + 1
    BY <2>1, MadeFacts
  <2>3. DOMAIN Made(1) = 1 .. n + 1
    BY <2>2
  <2>. QED  BY <1>3, <2>3, PutDomain, Zenon
<1>6. blocks' = blocks \o add
  <2>1. blocks \in Seq(Nat)
    BY DEF OwnInv, Own
  <2>. QED  BY <1>3, <1>4, <2>1
<1>7. add \in Seq(Nat) /\ Distinct(add) /\ \A b : Contains(add, b) <=> b = n + 1
  BY <1>4, FewBlocks, ContainsFew
<1>. HIDE DEF add
<1>8. \A b : (b \in 1 .. n + 1 /\ ~IsPending(nest, b)) <=> (b \in DOMAIN code /\ ~IsPending(nest, b)) \/ Contains(add, b)
  <2>1. n + 1 \notin 1 .. n /\ \A b : b \in 1 .. n + 1 <=> b \in 1 .. n \/ b = n + 1
    BY <1>4
  <2>. QED  BY <1>4, <1>7, <2>1
<1>9. \A b : Contains(add, b) => b \notin DOMAIN code \/ IsPending(nest, b)
  <2>1. n + 1 \notin 1 .. n
    BY <1>4
  <2>. QED  BY <1>4, <1>7, <2>1
<1>10. Own(blocks \o add, 1 .. n + 1, nest)
  BY <1>7, <1>8, <1>9, OwnAfter
<1>. QED  BY <1>1, <1>5, <1>6, <1>10 DEF OwnInv

\* the entry block is the function's
LEMMA OwnInit == Init => OwnInv
<1>. SUFFICES ASSUME Init PROVE OwnInv
  OBVIOUS
<1>1. phase = "build" /\ blocks = <<1>> /\ nest = <<>> /\ code = << <<>> >>
  BY DEF Init
<1>2. DOMAIN code = {1} /\ DOMAIN nest = {}
  BY <1>1
<1>3. <<1>> \in Seq(Nat) /\ Distinct(<<1>>) /\ <<1>> # <<>> /\ <<1>>[1] = 1 /\ \A b : Contains(<<1>>, b) <=> b = 1
  BY FewBlocks, ContainsFew
<1>4. \A b : ~IsPending(nest, b)
  BY <1>2 DEF IsPending
<1>. QED  BY <1>1, <1>2, <1>3, <1>4 DEF OwnInv, Own

\* every step adds the blocks that its construct stops holding
LEMMA OwnNext ==
    ASSUME StackInv, BuildInv, OwnInv, [Next]_vars
    PROVE  OwnInv'
<1>1. ASSUME NEW kind \in {"if", "and"}, If(kind) PROVE OwnInv'
  BY <1>1, OwnIf
<1>2. ASSUME makeBeginElse \/ makeEndIf PROVE OwnInv'
  BY <1>2, OwnIf
<1>3. ASSUME NEW s \in Segmentations, NEW lastEmpty \in BOOLEAN, makeSwitch(s, lastEmpty) PROVE OwnInv'
  BY <1>3, OwnMakeSwitch
<1>4. ASSUME nextSwitchSegment PROVE OwnInv'
  BY <1>4, OwnNextSegment
<1>5. ASSUME endSwitch PROVE OwnInv'
  BY <1>5, OwnEndSwitch
<1>6. ASSUME beginTestedLoop \/ beginLoop PROVE OwnInv'
  BY <1>6, OwnLoopBegin
<1>7. ASSUME NEW testLast, endTest \/ endBody \/ closeLoop(testLast) PROVE OwnInv'
  BY <1>7, OwnLoopTurn
<1>8. ASSUME Break \/ Continue \/ ReturnOrDiscard PROVE OwnInv'
  BY <1>8, OwnJump
<1>9. ASSUME leaveFunction PROVE OwnInv'
  <2>1. phase' = "order" /\ blocks' = blocks /\ nest' = nest
    BY <1>9 DEF leaveFunction
  <2>2. DOMAIN code' = DOMAIN code
    BY <1>9, PutDomain, Zenon DEF leaveFunction
  <2>. QED  BY <2>1, <2>2 DEF OwnInv
<1>10. ASSUME visitEntry \/ visitSuccessor \/ visitDelayed \/ leaveVisit PROVE OwnInv'
  <2>1. phase' \in {"order", "done"} /\ blocks' = blocks /\ nest' = nest /\ code' = code
    BY <1>10 DEF visitEntry, visitSuccessor, visitDelayed, leaveVisit, Visiting, builderVars
  <2>. QED  BY <2>1 DEF OwnInv
<1>11. ASSUME UNCHANGED vars PROVE OwnInv'
  BY <1>11 DEF OwnInv, vars, builderVars
<1>. QED  BY <1>1, <1>2, <1>3, <1>4, <1>5, <1>6, <1>7, <1>8, <1>9, <1>10, <1>11, Zenon DEF Next
-----------------------------------------------------------------------------
\* The traversal, step by step

OrderInv ==
    /\ phase = "build" => emitted = <<>> /\ frames = <<>> /\ delayed = {}
    /\ phase # "build" =>
         \E g : /\ Finished(g, code)
                /\ \/ phase = "order" /\ emitted = <<>> /\ frames = <<>> /\ delayed = {}
                   \/ /\ Traversal(g, emitted, delayed, frames, 0) /\ emitted # <<>>
                      /\ phase \in {"order", "done"} /\ (frames = <<>> <=> phase = "done")

LEMMA ContainsIs ==
    ASSUME NEW S, NEW s \in Seq(S), NEW x
    PROVE  /\ Contains(s, x) <=> x \in ToSet(s)
           /\ Contains(s, x) <=> x \in {s[i] : i \in DOMAIN s}
<1>1. DOMAIN s = 1 .. Len(s)
  OBVIOUS
<1>2. x \in {s[i] : i \in DOMAIN s} <=> \E i \in DOMAIN s : s[i] = x
  OBVIOUS
<1>. QED  BY <1>1, <1>2 DEF Contains, ToSet

LEMMA SeqOfMembers ==
    ASSUME NEW S, NEW T, NEW s \in Seq(S), ToSet(s) \subseteq T
    PROVE  s \in Seq(T)
<1>1. \A i \in 1 .. Len(s) : s[i] \in T
  BY DEF ToSet
<1>2. Len(s) \in Nat /\ s \in [1 .. Len(s) -> T]
  BY <1>1
<1>. QED  BY <1>2

\* what the traversal reads of the code is what the graph says
LEMMA FinishedFacts ==
    ASSUME NEW g, Finished(g, code)
    PROVE  /\ CodeInv /\ g.n \in Nat \ {0} /\ Blocks = 1 .. g.n /\ Len(code) = g.n /\ Structured(g)
           /\ \A b \in 1 .. g.n :
                /\ Successors(b) \in Seq(1 .. g.n) /\ \A s : Contains(Successors(b), s) <=> s \in g.succ[b]
                /\ ToSet(Successors(b)) = g.succ[b] /\ SuccOf(code[b]) = g.succ[b]
                /\ getMergeInstruction(b) = Delays(g, b) /\ MergeOf(code[b]) = Delays(g, b) /\ WellFormed(code[b])
<1>1. Structured(g) /\ Matches(g, code, <<>>)
  BY DEF Finished
<1>2. /\ code \in Seq(Seq(Instruction)) /\ g.n = Len(code)
      /\ \A b \in 1 .. g.n :
            /\ WellFormed(code[b]) /\ g.succ[b] = SuccOf(code[b])
            /\ IF MergeOf(code[b]) = <<>> THEN g.cnt[b] = 0 /\ g.mrg[b] = 0
               ELSE g.mrg[b] # 0 /\ MergeOf(code[b]) = IF g.cnt[b] = 0 THEN <<g.mrg[b]>> ELSE <<g.mrg[b], g.cnt[b]>>
  <2>1. DOMAIN <<>> = {}
    OBVIOUS
  <2>. QED  BY <1>1, <2>1 DEF Matches
<1>3. g.n \in Nat \ {0} /\ Blocks = 1 .. g.n
  BY <1>1, <1>2 DEF Structured, Typed, Blocks
<1>4. ASSUME NEW b \in 1 .. g.n PROVE MergeOf(code[b]) = Delays(g, b)
  BY <1>2, Zenon DEF Delays
<1>5. ASSUME NEW b \in 1 .. g.n PROVE SuccOf(code[b]) \subseteq 1 .. g.n
  <2>1. g.succ[b] \subseteq 1 .. g.n
    BY <1>1, ConstructFacts
  <2>. QED  BY <1>2, <2>1, Zenon
<1>6. ASSUME NEW b \in 1 .. g.n PROVE ToSet(Delays(g, b)) \subseteq 1 .. g.n
  <2>1. Delays(g, b) \in Seq(1 .. g.n)
    BY <1>1, DelaysFacts
  <2>2. \A m : Contains(Delays(g, b), m) => m \in 1 .. g.n
    BY <2>1, BeforeIn
  <2>. QED  BY <2>1, <2>2, ContainsIs
<1>7. CodeInv
  BY <1>2, <1>3, <1>4, <1>5, <1>6 DEF CodeInv
<1>8. ASSUME NEW b \in 1 .. g.n
      PROVE  /\ Successors(b) \in Seq(1 .. g.n) /\ \A s : Contains(Successors(b), s) <=> s \in g.succ[b]
             /\ ToSet(Successors(b)) = g.succ[b] /\ getMergeInstruction(b) = Delays(g, b)
  <2>1. /\ Successors(b) \in Seq(Nat) /\ ToSet(Successors(b)) = g.succ[b]
        /\ getMergeInstruction(b) = Delays(g, b)
    BY <1>2, <1>3, <1>4, <1>7, SuccessorsAre
  <2>2. Successors(b) \in Seq(1 .. g.n)
    <3>. DEFINE s == Successors(b)
    <3>1. s \in Seq(Nat) /\ ToSet(s) \subseteq 1 .. g.n
      BY <1>2, <1>5, <2>1, Zenon
    <3>. HIDE DEF s
    <3>2. s \in Seq(1 .. g.n)
      BY <3>1, SeqOfMembers
    <3>. QED  BY <3>2 DEF s
  <2>3. \A s : Contains(Successors(b), s) <=> s \in ToSet(Successors(b))
    BY <2>1, ContainsIs
  <2>. QED  BY <2>1, <2>2, <2>3
<1>. QED  BY <1>1, <1>2, <1>3, <1>4, <1>7, <1>8

\* a call of visit
LEMMA Visits ==
    ASSUME NEW g, Finished(g, code), NEW b \in 1 .. g.n, NEW late, NEW below, Traversal(g, emitted, late, below, b),
           emitted = <<>> => b = 1 /\ late = {}, ~Contains(emitted, b) /\ b \notin late => InPlace(g, emitted, Len(emitted) + 1, b),
           visit(b, late, below)
    PROVE  /\ Traversal(g, emitted', delayed', frames', 0) /\ emitted' # <<>>
           /\ below # <<>> \/ emitted = <<>> => frames' # <<>>
<1>1. emitted \in Seq(1 .. g.n) /\ below \in Seq(VisitFrame(g.n))
  BY DEF Traversal
<1>2. b \in visited <=> Contains(emitted, b)
  BY <1>1, ContainsIs DEF visited
<1>3. CASE Shut(b, late)
  <2>1. delayed' = late /\ frames' = below /\ emitted' = emitted /\ (Contains(emitted, b) \/ b \in late)
    BY <1>2, <1>3 DEF visit, Shut
  <2>2. Traversal(g, emitted, late, below, 0)
    BY <2>1, HandEmptied, Zenon
  <2>3. emitted # <<>>
    BY <2>1, ContainsFew
  <2>. QED  BY <2>1, <2>2, <2>3
<1>4. CASE ~Shut(b, late)
  <2>. DEFINE todo == Successors(b)
              es2 == Append(emitted, b)
              late2 == late \cup {getMergeInstruction(b)[i] : i \in DOMAIN getMergeInstruction(b)}
              fs2 == Append(below, [block |-> b, todo |-> todo, merge |-> getMergeInstruction(b)])
  <2>1. delayed' = late2 /\ frames' = fs2 /\ emitted' = es2 /\ ~Contains(emitted, b) /\ b \notin late
    BY <1>2, <1>4 DEF visit, Shut
  <2>2. todo \in Seq(1 .. g.n) /\ (\A s : Contains(todo, s) <=> s \in g.succ[b]) /\ getMergeInstruction(b) = Delays(g, b)
    BY FinishedFacts
  <2>3. Delays(g, b) \in Seq(1 .. g.n)
    BY DelaysFacts DEF Finished
  <2>4. \A m : m \in late2 <=> m \in late \/ Contains(Delays(g, b), m)
    <3>1. \A m : Contains(Delays(g, b), m) <=> m \in {Delays(g, b)[i] : i \in DOMAIN Delays(g, b)}
      BY <2>3, ContainsIs
    <3>. QED  BY <2>2, <3>1
  <2>5. fs2 = Append(below, [block |-> b, todo |-> todo, merge |-> Delays(g, b)])
    BY <2>2
  <2>6. es2 # <<>> /\ fs2 # <<>>
    BY <1>1, SMTT(40)
  <2>7. es2 = Append(emitted, b)
    OBVIOUS
  <2>. HIDE DEF todo, es2, late2, fs2
  <2>8. Meets(g, emitted, late, below, b, todo, es2, late2, fs2)
    BY <2>1, <2>2, <2>4, <2>5, <2>7, Zenon DEF Meets
  <2>9. Traversal(g, es2, late2, fs2, 0)
    BY <2>8, Met, Zenon
  <2>. QED  BY <2>1, <2>6, <2>9
<1>. QED  BY <1>3, <1>4

\* how visit is called: from what frames, with what in delayed_
LEMMA OrderVisits ==
    ASSUME OrderInv, OwnInv, visitEntry \/ visitSuccessor \/ visitDelayed
    PROVE  OrderInv'
<1>1. phase = "order" /\ phase' = "order" /\ code' = code
  BY DEF visitEntry, visitSuccessor, visitDelayed, Visiting, builderVars
<1>2. PICK g : /\ Finished(g, code)
               /\ \/ emitted = <<>> /\ frames = <<>> /\ delayed = {}
                  \/ Traversal(g, emitted, delayed, frames, 0) /\ emitted # <<>> /\ frames # <<>>
  BY <1>1 DEF OrderInv
<1>3. Structured(g)
  BY <1>2 DEF Finished
<1>4. SUFFICES Traversal(g, emitted', delayed', frames', 0) /\ emitted' # <<>> /\ frames' # <<>>
  BY <1>1, <1>2 DEF OrderInv
<1>5. CASE visitEntry
  <2>1. emitted = <<>> /\ frames = <<>> /\ visit(Head(blocks), {}, <<>>)
    BY <1>5 DEF visitEntry
  <2>2. Head(blocks) = 1
    BY DEF OwnInv, Own
  <2>3. Traversal(g, emitted, {}, <<>>, 1) /\ InPlace(g, emitted, Len(emitted) + 1, 1) /\ 1 \in 1 .. g.n
    <3>1. Traversal(g, <<>>, {}, <<>>, 1) /\ InPlace(g, <<>>, 1, 1) /\ 1 \in 1 .. g.n
      BY <1>3, NothingMet
    <3>2. Len(emitted) + 1 = 1
      BY <2>1
    <3>. QED  BY <2>1, <3>1, <3>2, Zenon
  <2>. QED  BY <1>2, <2>1, <2>2, <2>3, Visits
<1>6. CASE visitSuccessor
  <2>. DEFINE f   == Last(frames)
              b   == Head(f.todo)
              fs2 == Append(Front(frames), [f EXCEPT !.todo = Tail(@)])
  <2>1. frames # <<>> /\ f.todo # <<>> /\ visit(b, delayed, fs2)
    BY <1>6 DEF visitSuccessor, Visiting, frame, Below
  <2>2. Traversal(g, emitted, delayed, frames, 0) /\ emitted # <<>>
    BY <1>2, <2>1
  <2>3. frames \in Seq(VisitFrame(g.n))
    BY <2>2 DEF Traversal
  <2>4. f = frames[Len(frames)] /\ Front(frames) \in Seq(VisitFrame(g.n))
    BY <2>1, <2>3, FrontFacts
  <2>5. fs2 # <<>>
    BY <2>4
  <2>6. fs2 = Append(Front(frames), [f EXCEPT !.todo = Tail(@)]) /\ b = Head(f.todo)
    OBVIOUS
  <2>. HIDE DEF f, b, fs2
  <2>7. /\ Traversal(g, emitted, delayed, fs2, b) /\ b \in 1 .. g.n
        /\ ~Contains(emitted, b) /\ b \notin delayed => InPlace(g, emitted, Len(emitted) + 1, b)
    BY <2>1, <2>2, <2>4, <2>6, SuccessorTaken
  <2>. QED  BY <1>2, <2>1, <2>2, <2>5, <2>7, Visits
<1>7. CASE visitDelayed
  <2>. DEFINE f   == Last(frames)
              b   == f.merge[Len(f.merge)]
              fs2 == Append(Front(frames), [f EXCEPT !.merge = RemoveAt(@, Len(f.merge))])
  <2>1. frames # <<>> /\ f.todo = <<>> /\ f.merge # <<>> /\ visit(b, delayed \ {b}, fs2)
    BY <1>7 DEF visitDelayed, Visiting, frame, Below, NextDelayed, Undelayed
  <2>2. Traversal(g, emitted, delayed, frames, 0) /\ emitted # <<>>
    BY <1>2, <2>1
  <2>3. frames \in Seq(VisitFrame(g.n))
    BY <2>2 DEF Traversal
  <2>4. f = frames[Len(frames)] /\ Front(frames) \in Seq(VisitFrame(g.n))
    BY <2>1, <2>3, FrontFacts
  <2>5. fs2 # <<>>
    <3>. DEFINE f2 == [f EXCEPT !.merge = RemoveAt(@, Len(f.merge))]
    <3>. HIDE DEF f2
    <3>1. Append(Front(frames), f2) # <<>>
      <4>. DEFINE r == Front(frames)
      <4>. HIDE DEF r
      <4>1. Append(r, f2) # <<>>
        BY <2>4 DEF r
      <4>. QED  BY <4>1 DEF r
    <3>. QED  BY <3>1 DEF f2
  <2>6. fs2 = Append(Front(frames), [f EXCEPT !.merge = RemoveAt(@, Len(f.merge))]) /\ b = f.merge[Len(f.merge)]
    OBVIOUS
  <2>. HIDE DEF f, b, fs2
  <2>7. /\ Traversal(g, emitted, delayed \ {b}, fs2, b) /\ b \in 1 .. g.n
        /\ ~Contains(emitted, b) /\ InPlace(g, emitted, Len(emitted) + 1, b)
    <3>1. TakesDelayed(g, emitted, delayed, frames, f, b, fs2)
      BY <2>1, <2>2, <2>4, <2>6, Zenon DEF TakesDelayed
    <3>. QED  BY <3>1, DelayedTaken, Zenon
  <2>. QED  BY <1>2, <2>1, <2>2, <2>5, <2>7, Visits
<1>. QED  BY <1>5, <1>6, <1>7

\* so does each return
LEMMA OrderLeave ==
    ASSUME OrderInv, leaveVisit
    PROVE  OrderInv'
<1>1. /\ phase = "order" /\ frames # <<>> /\ code' = code /\ emitted' = emitted /\ delayed' = delayed
      /\ Last(frames).todo = <<>> /\ Last(frames).merge = <<>> /\ frames' = Front(frames)
      /\ phase' = IF Len(frames) = 1 THEN "done" ELSE phase
  BY DEF leaveVisit, Visiting, builderVars, frame
<1>2. PICK g : Finished(g, code) /\ Traversal(g, emitted, delayed, frames, 0) /\ emitted # <<>>
  BY <1>1 DEF OrderInv
<1>3. frames \in Seq(VisitFrame(g.n))
  BY <1>2 DEF Traversal
<1>4. /\ Last(frames) = frames[Len(frames)] /\ Front(frames) \in Seq(VisitFrame(g.n))
      /\ Len(Front(frames)) = Len(frames) - 1 /\ Len(frames) \in Nat
  BY <1>1, <1>3, FrontFacts
<1>. DEFINE fs2 == Front(frames)
<1>5. fs2 = Front(frames) /\ (fs2 = <<>> <=> Len(frames) = 1)
  BY <1>4
<1>. HIDE DEF fs2
<1>6. Traversal(g, emitted, delayed, fs2, 0)
  BY <1>1, <1>2, <1>4, <1>5, FrameLeft
<1>7. frames' = fs2 /\ phase' \in {"order", "done"} /\ (fs2 = <<>> <=> phase' = "done") /\ phase' # "build"
  BY <1>1, <1>5
<1>8. Traversal(g, emitted', delayed', frames', 0) /\ emitted' # <<>> /\ Finished(g, code')
  BY <1>1, <1>2, <1>6, <1>7
<1>. QED  BY <1>7, <1>8 DEF OrderInv

\* every step keeps the traversal in order
LEMMA OrderNext ==
    ASSUME OrderInv, OwnInv, BuildInv', [Next]_vars
    PROVE  OrderInv'
<1>1. CASE visitEntry \/ visitSuccessor \/ visitDelayed
  BY <1>1, OrderVisits
<1>2. CASE leaveVisit
  BY <1>2, OrderLeave
<1>3. CASE UNCHANGED vars
  BY <1>3 DEF OrderInv, vars, builderVars, orderVars
<1>4. CASE leaveFunction
  <2>1. phase = "build" /\ phase' = "order" /\ emitted' = emitted /\ frames' = frames /\ delayed' = delayed
    BY <1>4 DEF leaveFunction, orderVars
  <2>2. \E g : Finished(g, code')
    BY <2>1 DEF BuildInv
  <2>. QED  BY <2>1, <2>2 DEF OrderInv
<1>5. ASSUME phase = "build", phase' = phase, UNCHANGED orderVars PROVE OrderInv'
  BY <1>5 DEF OrderInv, orderVars
<1>6. ASSUME NEW kind \in {"if", "and"}, If(kind) PROVE OrderInv'
  BY <1>5, <1>6, Zenon DEF If, MayMake
<1>7. ASSUME NEW s \in Segmentations, NEW lastEmpty \in BOOLEAN, makeSwitch(s, lastEmpty) PROVE OrderInv'
  BY <1>5, <1>7, Zenon DEF makeSwitch, MayMake
<1>8. ASSUME makeBeginElse \/ makeEndIf \/ nextSwitchSegment \/ endSwitch PROVE OrderInv'
  BY <1>5, <1>8, Zenon DEF makeBeginElse, makeEndIf, nextSwitchSegment, endSwitch, MayMake, Inside
<1>9. ASSUME NEW testLast \in BOOLEAN, beginTestedLoop \/ beginLoop \/ endTest \/ endBody \/ closeLoop(testLast) PROVE OrderInv'
  BY <1>5, <1>9, Zenon DEF beginTestedLoop, beginLoop, loopHeader, endTest, endBody, closeLoop, MayMake, Inside
<1>10. ASSUME Break \/ Continue \/ ReturnOrDiscard PROVE OrderInv'
  BY <1>5, <1>10, Zenon DEF Break, Continue, ReturnOrDiscard, jump, MayMake
<1>. QED  BY <1>1, <1>2, <1>3, <1>4, <1>6, <1>7, <1>8, <1>9, <1>10, Zenon DEF Next
-----------------------------------------------------------------------------
\* The inductive invariant, and what it says when the traversal is over

FlowInv == StackInv /\ BuildInv /\ OwnInv /\ OrderInv

\* the four parts of FlowInv are an invariant: each step keeps them
LEMMA FlowAlways == Spec => []FlowInv
<1>1. Init => FlowInv
  <2>1. Init => OrderInv
    BY DEF Init, OrderInv
  <2>. QED  BY <2>1, StackInit, BuildInit, OwnInit DEF FlowInv
<1>2. FlowInv /\ [Next]_vars => FlowInv'
  <2>. SUFFICES ASSUME StackInv, BuildInv, OwnInv, OrderInv, [Next]_vars PROVE FlowInv'
    BY Zenon DEF FlowInv
  <2>1. StackInv'
    BY StackNext, Zenon
  <2>2. BuildInv'
    BY BuildNext, Zenon
  <2>3. OwnInv'
    BY OwnNext, Zenon
  <2>4. OrderInv'
    BY <2>2, OrderNext, Zenon
  <2>. QED  BY <2>1, <2>2, <2>3, <2>4, Zenon DEF FlowInv
<1>. QED  BY <1>1, <1>2, PTL DEF Spec

\* what Reachable computes is what the graph says
LEMMA ReachableIs ==
    ASSUME NEW g, Finished(g, code), NEW out
    PROVE  IsReachable(g, out, Reachable(out))
<1>. DEFINE R == Reachable(out)
<1>1. CodeInv /\ g.n \in Nat \ {0} /\ Blocks = 1 .. g.n /\ \A b \in 1 .. g.n : SuccOf(code[b]) = g.succ[b]
  BY FinishedFacts
<1>2. Blocks # {}
  BY <1>1
<1>3. /\ R \subseteq Blocks \ out /\ {1} \ out \subseteq R /\ Follows(R, out)
      /\ \A S : {1} \ out \subseteq S /\ Follows(S, out) => R \subseteq S
  BY <1>1, <1>2, ReachableIsLeast
<1>. HIDE DEF R
<1>4. \A S \in SUBSET (1 .. g.n) : Follows(S, out) <=> \A p \in S : g.succ[p] \ out \subseteq S
  <2>. SUFFICES ASSUME NEW S \in SUBSET (1 .. g.n) PROVE Follows(S, out) <=> \A p \in S : g.succ[p] \ out \subseteq S
    OBVIOUS
  <2>1. \A p \in S : p \in S \cap Blocks /\ SuccOf(code[p]) = g.succ[p]
    BY <1>1
  <2>2. \A p \in S \cap Blocks : p \in S /\ SuccOf(code[p]) = g.succ[p]
    BY <1>1
  <2>. QED  BY <2>1, <2>2, Zenon DEF Follows
<1>5. R \in SUBSET (1 .. g.n)
  BY <1>1, <1>3
<1>6. IsReachable(g, out, R)
  BY <1>1, <1>3, <1>4, <1>5 DEF IsReachable
<1>. QED  BY <1>6 DEF R

\* a function written in the order that the traversal leaves
Written(g) ==
    /\ Finished(g, code) /\ emitted \in Seq(1 .. g.n) /\ Distinct(emitted) /\ 1 \in visited
    /\ \A b : b \in visited <=> Contains(emitted, b)
    /\ visited \in SUBSET (1 .. g.n) /\ FlowClosed(g, visited) /\ \A b \in visited : ~Dead(g, b)
    /\ \A j \in 1 .. Len(emitted) : InPlace(g, emitted, j, emitted[j])
    /\ blocks \in Seq(Nat) /\ Distinct(blocks) /\ \A b \in 1 .. g.n : Contains(blocks, b)

LEMMA DoneFacts ==
    ASSUME FlowInv, phase = "done"
    PROVE  \E g : Written(g)
<1>1. PICK g : Finished(g, code) /\ Traversal(g, emitted, delayed, frames, 0) /\ emitted # <<>> /\ frames = <<>>
  BY DEF FlowInv, OrderInv
<1>2. nest = <<>> /\ Own(blocks, DOMAIN code, nest)
  BY DEF FlowInv, BuildInv, OwnInv
<1>3. g.n \in Nat \ {0} /\ DOMAIN code = 1 .. g.n /\ Structured(g)
  BY <1>1, FinishedFacts DEF Blocks
<1>4. \A b \in 1 .. g.n : Contains(blocks, b)
  BY <1>2, <1>3 DEF Own, IsPending
<1>5. /\ emitted \in Seq(1 .. g.n) /\ Distinct(emitted) /\ emitted[1] = 1
      /\ \A j \in 1 .. Len(emitted) : InPlace(g, emitted, j, emitted[j])
      /\ Owed(g, emitted, delayed, frames, 0)
      /\ \A m : m \in delayed => \E i \in 1 .. Len(frames) : Contains(frames[i].merge, m)
  BY <1>1 DEF Traversal, Distinct
<1>6. \A i : i \notin 1 .. Len(frames)
  BY <1>1
<1>7. \A b : b \in visited <=> Contains(emitted, b)
  BY <1>5, ContainsIs DEF visited
<1>8. 1 \in visited
  <2>1. Contains(emitted, emitted[1])
    BY <1>1, <1>5 DEF Contains
  <2>. QED  BY <1>5, <1>7, <2>1
<1>9. visited \in SUBSET (1 .. g.n)
  <2>1. \A b : Contains(emitted, b) => b \in 1 .. g.n
    BY <1>5, BeforeIn
  <2>. QED  BY <1>7, <2>1
<1>10. FlowClosed(g, visited)
  <2>. SUFFICES ASSUME NEW p \in visited
                PROVE  g.succ[p] \subseteq visited /\ (g.mrg[p] # 0 => g.mrg[p] \in visited) /\ (g.cnt[p] # 0 => g.cnt[p] \in visited)
    BY DEF FlowClosed
  <2>1. p \in 1 .. g.n /\ Contains(emitted, p)
    BY <1>7, <1>9
  <2>2. \A s \in g.succ[p] : Contains(emitted, s) \/ s = 0
    BY <1>5, <1>6, <2>1, Zenon DEF Owed
  <2>3. \A m \in {g.mrg[p], g.cnt[p]} \ {0} : Contains(emitted, m)
    <3>1. \A m \in {g.mrg[p], g.cnt[p]} \ {0} : Contains(emitted, m) \/ m = 0
      BY <1>5, <1>6, <2>1, Zenon DEF Owed
    <3>. QED  BY <3>1
  <2>4. g.succ[p] \subseteq 1 .. g.n
    BY <1>3, <2>1, ConstructFacts
  <2>. QED  BY <1>7, <2>2, <2>3, <2>4
<1>11. \A b \in visited : ~Dead(g, b)
  <2>. SUFFICES ASSUME NEW b \in visited PROVE ~Dead(g, b)
    OBVIOUS
  <2>1. PICK j \in 1 .. Len(emitted) : emitted[j] = b
    BY <1>7 DEF Contains
  <2>. QED  BY <1>5, <2>1 DEF InPlace
<1>12. blocks \in Seq(Nat) /\ Distinct(blocks)
  BY <1>2 DEF Own
<1>13. Written(g)
  BY <1>1, <1>4, <1>5, <1>7, <1>8, <1>9, <1>10, <1>11, <1>12, Zenon DEF Written
<1>. QED  BY <1>13

\* the phi at the head of a block
LEMMA PhiFacts ==
    ASSUME NEW g, Written(g), NEW b \in visited, NEW i \in DOMAIN code[b], code[b][i].op = "Phi", NEW t, t = code[b][i].targets
    PROVE  /\ t[1] \in 1 .. g.n /\ t[2] \in 1 .. g.n /\ ToSet(t) = {t[1], t[2]} /\ g.mrg[t[1]] = b /\ Flow(g, t[1], t[2])
           /\ \A p \in 1 .. g.n : b \in g.succ[p] <=> p \in {t[1], t[2]}
<1>1. b \in 1 .. g.n /\ Finished(g, code)
  BY Zenon DEF Written
<1>2. WellFormed(code[b]) /\ Structured(g) /\ \A p \in 1 .. g.n : MergeOf(code[p]) = Delays(g, p)
  BY <1>1, FinishedFacts
<1>3. i = 1 /\ t # <<>> /\ t \in Seq(Nat) /\ code[b] # <<>>
  <2>1. code[b] \in Seq(Instruction) /\ \A k \in 1 .. Len(code[b]) : code[b][k].op = "Phi" => k = 1 /\ code[b][k].targets # <<>>
    BY <1>2, Zenon DEF WellFormed
  <2>. DEFINE is == code[b]
  <2>2. is \in Seq(Instruction)
    BY <2>1
  <2>. HIDE DEF is
  <2>3. DOMAIN is = 1 .. Len(is) /\ \A k \in DOMAIN is : is[k] \in Instruction
    BY <2>2
  <2>4. i \in 1 .. Len(code[b]) /\ code[b][i] \in Instruction
    BY <2>3, Zenon DEF is
  <2>5. t \in Seq(Nat)
    BY <2>4 DEF Instruction
  <2>6. code[b] # <<>>
    <3>1. i \in 1 .. Len(is)
      BY <2>4 DEF is
    <3>2. is # <<>>
      BY <2>2, <3>1
    <3>. QED  BY <3>2 DEF is
  <2>. QED  BY <2>1, <2>4, <2>5, <2>6, Zenon
<1>4. PhiOf(code[b]) = t
  BY <1>3 DEF PhiOf
<1>5. Joins(g, code, b, t)
  BY <1>1, <1>3, <1>4, Zenon DEF Finished, PhiInv
<1>6. Len(t) = 2 /\ t[1] \in 1 .. g.n /\ t[2] \in 1 .. g.n /\ MergeOf(code[t[1]]) = <<b>> /\ Flow(g, t[1], t[2])
      /\ \A p \in 1 .. g.n : b \in g.succ[p] <=> p \in {t[1], t[2]}
  BY <1>5, Zenon DEF Joins
<1>7. ToSet(t) = {t[1], t[2]}
  <2>1. DOMAIN t = {1, 2}
    BY <1>3, <1>6
  <2>. QED  BY <2>1 DEF ToSet
<1>8. g.mrg[t[1]] = b
  <2>1. Delays(g, t[1]) = <<b>>
    BY <1>2, <1>6, Zenon
  <2>. QED  BY <2>1 DEF Delays
<1>. QED  BY <1>6, <1>7, <1>8, Zenon

\* a phi's block has the two predecessors that the phi names
LEMMA PhisNamed == FlowInv => PhisNamePredecessors
<1>. SUFFICES ASSUME FlowInv, phase = "done", NEW b \in visited, NEW i \in DOMAIN code[b], code[b][i].op = "Phi"
              PROVE  ToSet(code[b][i].targets) = {p \in DOMAIN code : b \in ToSet(Successors(p))}
  BY Zenon DEF PhisNamePredecessors
<1>. DEFINE t == code[b][i].targets
<1>1. PICK g : Written(g)
  BY DoneFacts
<1>2. DOMAIN code = 1 .. g.n /\ \A p \in 1 .. g.n : ToSet(Successors(p)) = g.succ[p]
  BY <1>1, FinishedFacts DEF Written, Blocks
<1>3. /\ ToSet(t) = {t[1], t[2]} /\ t[1] \in 1 .. g.n /\ t[2] \in 1 .. g.n
      /\ \A p \in 1 .. g.n : b \in g.succ[p] <=> p \in {t[1], t[2]}
  BY <1>1, PhiFacts
<1>. HIDE DEF t
<1>5. ToSet(t) = {p \in DOMAIN code : b \in ToSet(Successors(p))}
  BY <1>2, <1>3
<1>. QED  BY <1>5 DEF t

\* where a written block is
LEMMA PlaceFacts ==
    ASSUME NEW g, Written(g), NEW b \in visited
    PROVE  /\ InPlace(g, emitted, Place(b), b) /\ b \in 1 .. g.n
           /\ \A d : Before(emitted, d, Place(b)) => d \in visited /\ Place(d) < Place(b)
<1>. DEFINE j == Place(b)
<1>1. emitted \in Seq(1 .. g.n) /\ (\A d : d \in visited <=> Contains(emitted, d)) /\ b \in 1 .. g.n
  BY Zenon DEF Written
<1>2. DOMAIN emitted = 1 .. Len(emitted) /\ Len(emitted) \in Nat
  BY <1>1
<1>3. \A d \in visited : Place(d) \in 1 .. Len(emitted) /\ emitted[Place(d)] = d
  <2>. SUFFICES ASSUME NEW d \in visited PROVE Place(d) \in 1 .. Len(emitted) /\ emitted[Place(d)] = d
    OBVIOUS
  <2>1. \E k \in DOMAIN emitted : emitted[k] = d
    BY DEF visited
  <2>. QED  BY <1>2, <2>1, Zenon DEF Place
<1>4. j \in 1 .. Len(emitted) /\ emitted[j] = b
  BY <1>3, Zenon
<1>. HIDE DEF j
<1>5. InPlace(g, emitted, j, b)
  BY <1>4, Zenon DEF Written
<1>6. ASSUME NEW d, Before(emitted, d, j) PROVE d \in visited /\ Place(d) < j
  <2>1. PICK k \in 1 .. j - 1 : emitted[k] = d
    BY <1>6, Zenon DEF Before
  <2>2. k \in 1 .. Len(emitted) /\ k < j
    BY <1>2, <1>4, <2>1
  <2>3. d \in visited
    BY <1>2, <2>1, <2>2 DEF visited
  <2>4. Place(d) \in 1 .. Len(emitted) /\ emitted[Place(d)] = d
    BY <1>3, <2>3, Zenon
  <2>5. Place(d) = k
    BY <2>1, <2>2, <2>4, Zenon DEF Written, Distinct
  <2>. QED  BY <2>2, <2>3, <2>5
<1>. QED  BY <1>1, <1>5, <1>6 DEF j

\* a block that can be reached has been called back
LEMMA ReachableIsWritten ==
    ASSUME NEW g, Written(g)
    PROVE  Reachable({}) \subseteq visited
<1>. DEFINE R == Reachable({})
<1>1. IsReachable(g, {}, R)
  BY ReachableIs, Zenon DEF Written
<1>2. visited \subseteq 1 .. g.n /\ 1 \in visited
  BY DEF Written
<1>3. \A p \in visited : \A b \in g.succ[p] : b \in visited
  BY DEF Written, FlowClosed
<1>. HIDE DEF R
<1>4. R \subseteq visited
  BY <1>1, <1>2, <1>3, InClosedAll
<1>. QED  BY <1>4 DEF R

\* each block is written after its dominators
LEMMA InOrder == FlowInv => DominatorsFirst
<1>. SUFFICES ASSUME FlowInv, phase = "done", NEW d \in Reachable({}), NEW b \in Reachable({}) \ Reachable({d}), b # d
              PROVE  Place(d) < Place(b)
  BY DEF DominatorsFirst, Dominated
<1>1. PICK g : Written(g)
  BY DoneFacts
<1>2. IsReachable(g, {}, Reachable({})) /\ IsReachable(g, {d}, Reachable({d})) /\ Reachable({}) \subseteq visited
  BY <1>1, ReachableIs, ReachableIsWritten, Zenon DEF Written
<1>3. b \in visited
  BY <1>2
<1>4. InPlace(g, emitted, Place(b), b) /\ \A e : Before(emitted, e, Place(b)) => Place(e) < Place(b)
  BY <1>1, <1>3, PlaceFacts
<1>5. Before(emitted, d, Place(b))
  BY <1>2, <1>4, Zenon DEF InPlace
<1>. QED  BY <1>4, <1>5

\* what is written is the function's blocks, all that can be reached, once each
LEMMA IsComplete == FlowInv => FunctionIsComplete
<1>. SUFFICES ASSUME FlowInv, phase = "done"
              PROVE  /\ IsInjective(emitted) /\ IsInjective(blocks) /\ visited \subseteq ToSet(blocks)
                     /\ Reachable({}) \subseteq visited
                     /\ \A b \in visited : \A i \in DOMAIN code[b] :
                          /\ code[b][i].op \in Ends <=> i = Len(code[b])
                          /\ ToSet(code[b][i].targets) \subseteq visited
                     /\ \A b \in visited : isTerminated(b)
  BY Zenon DEF FunctionIsComplete
<1>1. PICK g : Written(g)
  BY DoneFacts
<1>2. IsInjective(emitted)
  <2>1. DOMAIN emitted = 1 .. Len(emitted)
    BY <1>1 DEF Written
  <2>. QED  BY <1>1, <2>1, Zenon DEF Written, Distinct, IsInjective
<1>3. IsInjective(blocks) /\ visited \subseteq ToSet(blocks)
  <2>1. blocks \in Seq(Nat) /\ Distinct(blocks) /\ (\A b \in 1 .. g.n : Contains(blocks, b)) /\ visited \subseteq 1 .. g.n
    BY <1>1 DEF Written
  <2>2. DOMAIN blocks = 1 .. Len(blocks)
    BY <2>1
  <2>3. IsInjective(blocks)
    BY <2>1, <2>2, Zenon DEF Distinct, IsInjective
  <2>4. \A b : Contains(blocks, b) <=> b \in ToSet(blocks)
    BY <2>1, ContainsIs
  <2>. QED  BY <2>1, <2>3, <2>4
<1>4. Reachable({}) \subseteq visited
  BY <1>1, ReachableIsWritten
<1>5. \A b \in visited : isTerminated(b)
  <2>. SUFFICES ASSUME NEW b \in visited PROVE isTerminated(b)
    OBVIOUS
  <2>1. b \in 1 .. g.n /\ Terminated(code[b])
    BY <1>1 DEF Written, Finished
  <2>2. code[b] # <<>> /\ code[b][Len(code[b])].op \in Ends
    BY <2>1, Zenon DEF Terminated
  <2>. QED  BY <2>2 DEF isTerminated, Last
<1>6. ASSUME NEW b \in visited, NEW i \in DOMAIN code[b]
      PROVE  /\ code[b][i].op \in Ends <=> i = Len(code[b])
             /\ ToSet(code[b][i].targets) \subseteq visited
  <2>. DEFINE is == code[b]
              t == is[i].targets
  <2>1. b \in 1 .. g.n /\ Finished(g, code) /\ FlowClosed(g, visited) /\ visited \subseteq 1 .. g.n
    BY <1>1 DEF Written
  <2>2. /\ WellFormed(is) /\ Structured(g) /\ SuccOf(is) = g.succ[b] /\ MergeOf(is) = Delays(g, b)
    BY <2>1, FinishedFacts
  <2>3. is # <<>> /\ is[Len(is)].op \in Ends
    BY <1>5, Zenon DEF isTerminated, Last
  <2>. HIDE DEF is
  <2>4. is \in Seq(Instruction)
    BY <2>2, Zenon DEF WellFormed
  <2>5. i \in 1 .. Len(is) /\ Len(is) \in Nat /\ is[i] \in Instruction
    <3>1. DOMAIN is = 1 .. Len(is) /\ Len(is) \in Nat /\ \A k \in DOMAIN is : is[k] \in Instruction
      BY <2>4
    <3>. QED  BY <3>1, Zenon DEF is
  <2>6. is[i].op \in Ends \cup Merges \cup {"Phi"} /\ is[i].targets \in Seq(Nat)
    BY <2>5 DEF Instruction
  <2>7. is[i].op \in Ends <=> i = Len(is)
    BY <2>2, <2>3, <2>5, Zenon DEF WellFormed
  <2>8. g.succ[b] \subseteq visited /\ (g.mrg[b] # 0 => g.mrg[b] \in visited) /\ (g.cnt[b] # 0 => g.cnt[b] \in visited)
    BY <2>1, Zenon DEF FlowClosed
  <2>9. CASE is[i].op \in Branches
    <3>1. i = Len(is)
      BY <2>7, <2>9 DEF Ends
    <3>2. SuccOf(is) = ToSet(is[i].targets)
      BY <2>3, <2>9, <3>1, Zenon DEF SuccOf
    <3>. QED  BY <2>2, <2>7, <2>8, <3>2, Zenon DEF is
  <2>10. CASE is[i].op = "Return"
    <3>1. is[i].targets = <<>>
      BY <2>2, <2>5, <2>10, Zenon DEF WellFormed
    <3>2. ToSet(is[i].targets) = {}
      BY <3>1, ToSetOf
    <3>. QED  BY <2>7, <3>2 DEF is
  <2>11. CASE is[i].op \in Merges
    <3>1. i = Len(is) - 1
      BY <2>2, <2>5, <2>11, Zenon DEF WellFormed
    <3>2. Len(is) >= 2
      BY <2>5, <3>1
    <3>3. MergeOf(is) = is[i].targets
      BY <2>11, <3>1, <3>2, Zenon DEF MergeOf
    <3>4. Delays(g, b) \in Seq(1 .. g.n) /\ \A m : Contains(Delays(g, b), m) <=> m \in {g.mrg[b], g.cnt[b]} \ {0}
      BY <2>1, <2>2, DelaysFacts
    <3>5. \A m : m \in ToSet(Delays(g, b)) => Contains(Delays(g, b), m)
      BY <3>4, ContainsIs
    <3>6. ToSet(Delays(g, b)) \subseteq visited
      BY <2>8, <3>4, <3>5
    <3>. QED  BY <2>2, <2>7, <3>3, <3>6, Zenon DEF is
  <2>12. CASE is[i].op = "Phi"
    <3>1. t[1] \in 1 .. g.n /\ ToSet(t) = {t[1], t[2]} /\ g.mrg[t[1]] = b /\ Flow(g, t[1], t[2])
      BY <1>1, <2>12, PhiFacts DEF is
    <3>. HIDE DEF t
    <3>2. InPlace(g, emitted, Place(b), b) /\ \A d : Before(emitted, d, Place(b)) => d \in visited
      BY <1>1, PlaceFacts
    <3>3. g.mrg[t[1]] # 0 /\ b \in g.region[t[1]] \cup {g.mrg[t[1]]}
      BY <2>1, <3>1
    <3>4. t[1] \in visited
      BY <3>1, <3>2, <3>3, Zenon DEF InPlace
    <3>5. t[2] \in visited
      BY <2>1, <3>1, <3>4 DEF Flow
    <3>6. ToSet(t) \subseteq visited
      BY <3>1, <3>4, <3>5
    <3>. QED  BY <2>7, <3>6, Zenon DEF is, t
  <2>13. is[i].op \in Branches \/ is[i].op = "Return" \/ is[i].op \in Merges \/ is[i].op = "Phi"
    BY <2>6 DEF Ends
  <2>. QED  BY <2>9, <2>10, <2>11, <2>12, <2>13, Zenon
<1>. QED  BY <1>2, <1>3, <1>4, <1>5, <1>6, Zenon

\* the header of a construct is reached without its merge block
LEMMA HeaderBeforeMerge ==
    ASSUME NEW g, Structured(g), NEW R, IsReachable(g, {}, R), NEW h \in R, g.mrg[h] # 0,
           NEW Y, IsReachable(g, {g.mrg[h]}, Y)
    PROVE  h \in Y
<1>. DEFINE m == g.mrg[h]
<1>1. h \in 1 .. g.n /\ R \subseteq 1 .. g.n
  BY DEF IsReachable
<1>2. m \in 1 .. g.n /\ m # 1 /\ 1 \in 1 .. g.n /\ \A p \in 1 .. g.n : g.succ[p] \subseteq 1 .. g.n
  BY <1>1, ConstructFacts
<1>3. Y \subseteq 1 .. g.n /\ 1 \in Y /\ \A p \in Y : g.succ[p] \ {m} \subseteq Y
  BY <1>2 DEF IsReachable
<1>4. SUFFICES ASSUME h \notin Y PROVE FALSE
  OBVIOUS
<1>5. Y \cap g.region[h] = {}
  BY <1>1, <1>4, HeaderFirst
<1>6. \A p \in Y : \A b \in g.succ[p] : b \in Y
  <2>. SUFFICES ASSUME NEW p \in Y, NEW b \in g.succ[p] PROVE b \in Y
    OBVIOUS
  <2>1. Enters(g, p, b)
    BY <1>3 DEF Structured, Edges
  <2>2. b = g.mrg[h] => p \in g.region[h] \cup {h}
    BY <1>1, <2>1, Zenon DEF Enters
  <2>3. b # m
    BY <1>4, <1>5, <2>2
  <2>. QED  BY <1>3, <2>3
<1>7. R \subseteq Y
  BY <1>3, <1>6, InClosedAll
<1>. QED  BY <1>4, <1>7

(* Where a construct may be left to: its merge block, and the merge blocks *)
(* and the continue targets of those around it.                            *)
LeftTo(g, h, X) ==
    /\ g.mrg[h] \in X
    /\ \A k \in 1 .. g.n : h \in g.region[k] =>
         g.mrg[k] \in X /\ (g.cnt[k] # 0 /\ g.cnt[k] # h /\ h \notin TailOf(g, k) => g.cnt[k] \in X)

\* what the construct holds up to there is met before its merge block is written
LEMMA HeldTogether ==
    ASSUME NEW g, Structured(g), NEW R, IsReachable(g, {}, R), NEW h \in R, g.mrg[h] # 0, NEW Y, IsReachable(g, {h}, Y),
           NEW X, LeftTo(g, h, X), NEW Z, IsReachable(g, X, Z), NEW es, NEW j, InPlace(g, es, j, g.mrg[h])
    PROVE  \A b \in Z \ Y : Before(es, b, j)
<1>. DEFINE H == {p \in g.region[h] \cup {h} : Before(es, p, j)}
            S == Y \cup H
<1>1. h \in 1 .. g.n
  BY DEF IsReachable
<1>2. /\ 1 \in 1 .. g.n /\ g.region[h] \subseteq 1 .. g.n /\ h \notin g.region[h] /\ g.mrg[h] \in 1 .. g.n
      /\ \A p \in 1 .. g.n : g.succ[p] \subseteq 1 .. g.n
  BY <1>1, ConstructFacts
<1>3. Y \subseteq 1 .. g.n /\ {1} \ {h} \subseteq Y /\ \A p \in Y : g.succ[p] \ {h} \subseteq Y
  BY DEF IsReachable
<1>4. h \in H
  BY <1>1, Zenon DEF InPlace
<1>5. \A p \in H : p \in 1 .. g.n /\ p \in g.region[h] \cup {h} /\ Before(es, p, j)
  BY <1>1, <1>2
<1>6. \A p \in H : \A s \in g.succ[p] \cap g.region[h] : s \in H
  <2>1. \A p \in H : \A s \in g.succ[p] \cap g.region[h] : Before(es, s, j)
    BY <1>1, <1>5, Zenon DEF InPlace
  <2>. QED  BY <2>1
<1>. HIDE DEF H
<1>7. \A p \in S : \A s \in g.succ[p] \ X : s \in S
  <2>. SUFFICES ASSUME NEW p \in S, NEW s \in g.succ[p], s \notin X PROVE s \in S
    OBVIOUS
  <2>1. CASE p \in Y
    BY <1>3, <1>4, <2>1
  <2>2. CASE p \in H
    <3>1. Leaves(g, p, s)
      BY <1>5, <2>2 DEF Structured, Edges
    <3>2. \/ s \in g.region[h] \cup {h, g.mrg[h]}
          \/ \E k \in 1 .. g.n : h \in g.region[k] /\ (s = g.mrg[k] \/ (s = g.cnt[k] /\ h # s /\ h \notin TailOf(g, k)))
      BY <1>1, <1>5, <2>2, <3>1, Zenon DEF Leaves
    <3>3. ASSUME NEW k \in 1 .. g.n, h \in g.region[k], s = g.mrg[k] \/ (s = g.cnt[k] /\ h # s /\ h \notin TailOf(g, k))
          PROVE  FALSE
      <4>1. s \in 1 .. g.n
        BY <1>2, <1>5, <2>2
      <4>2. s # 0
        <5>1. g.n \in Nat
          BY <1>1, ConstructFacts
        <5>. QED  BY <4>1, <5>1
      <4>. QED  BY <3>3, <4>2, Zenon DEF LeftTo
    <3>4. s # g.mrg[h]
      BY Zenon DEF LeftTo
    <3>5. s \in g.region[h] \/ s = h
      BY <3>2, <3>3, <3>4
    <3>. QED  BY <1>4, <1>6, <2>2, <3>5
  <2>. QED  BY <2>1, <2>2
<1>8. S \subseteq 1 .. g.n /\ {1} \ X \subseteq S
  BY <1>3, <1>4, <1>5
<1>. HIDE DEF S
<1>9. Z \subseteq S
  BY <1>7, <1>8, InClosed, ZenonT(40)
<1>. QED  BY <1>5, <1>9 DEF S

\* the exits of the construct that h heads, in the function's blocks
IsExits(g, h, X) ==
    \A s : s \in X <=>
        /\ s = g.mrg[h] \/ \E d \in Reachable({}) : h \notin Reachable({d}) /\ d # h /\ s \in {g.mrg[d], g.cnt[d]} \ {0}
        /\ ~(s \in Reachable({}) /\ h \notin Reachable({s}))

\* the exits that ConstructsTogether allows hold what h may be left to
LEMMA ExitsLeave ==
    ASSUME NEW g, Finished(g, code), NEW h \in Reachable({}), g.mrg[h] # 0, NEW X, IsExits(g, h, X)
    PROVE  LeftTo(g, h, X)
<1>. DEFINE R == Reachable({})
<1>1. Structured(g) /\ IsReachable(g, {}, R) /\ \A d : IsReachable(g, {d}, Reachable({d}))
  BY ReachableIs, Zenon DEF Finished
<1>2. h \in 1 .. g.n
  BY <1>1 DEF IsReachable
<1>3. g.mrg[h] \in X
  <2>1. h \in Reachable({g.mrg[h]})
    BY <1>1, HeaderBeforeMerge, Zenon
  <2>. QED  BY <2>1, Zenon DEF IsExits
<1>4. ASSUME NEW k \in 1 .. g.n, h \in g.region[k]
      PROVE  g.mrg[k] \in X /\ (g.cnt[k] # 0 /\ g.cnt[k] # h /\ h \notin TailOf(g, k) => g.cnt[k] \in X)
  <2>1. g.mrg[k] # 0 /\ k # h
    BY <1>1, <1>4, ConstructFacts
  <2>2. k \in R
    BY <1>1, <1>4, <2>1, HeaderFirst
  <2>3. k \notin Reachable({k})
    BY <1>1 DEF IsReachable
  <2>4. h \notin Reachable({k})
    BY <1>1, <1>4, <2>1, <2>3, HeaderFirst
  <2>5. h \in Reachable({g.mrg[k]})
    BY <1>1, <1>4, <2>1, MergeIsNoDominator, Zenon
  <2>6. g.mrg[k] \in X
    <3>1. g.mrg[k] \in {g.mrg[k], g.cnt[k]} \ {0}
      BY <2>1
    <3>. QED  BY <2>1, <2>2, <2>4, <2>5, <3>1, Zenon DEF IsExits
  <2>7. ASSUME g.cnt[k] # 0, g.cnt[k] # h, h \notin TailOf(g, k) PROVE g.cnt[k] \in X
    <3>1. h \in Reachable({g.cnt[k]})
      BY <1>1, <1>4, <2>7, ContinueIsNoDominator, Zenon
    <3>2. g.cnt[k] \in {g.mrg[k], g.cnt[k]} \ {0}
      BY <2>7
    <3>. QED  BY <2>1, <2>2, <2>4, <3>1, <3>2, Zenon DEF IsExits
  <2>. QED  BY <2>6, <2>7
<1>. QED  BY <1>3, <1>4, Zenon DEF LeftTo

\* the blocks of a construct are written between its header and its merge block
LEMMA AreTogether == FlowInv => ConstructsTogether
<1>. DEFINE R == Reachable({})
            dominators(h) == {d \in DOMAIN Dominated : h \in Dominated[d]}
            exits(h) == ({getMergeInstruction(h)[1]} \cup
                         UNION {ToSet(getMergeInstruction(d)) : d \in dominators(h) \ {h}}) \ dominators(h)
<1>1. DOMAIN Dominated = R /\ \A d \in R : Dominated[d] = R \ Reachable({d})
  BY DEF Dominated
<1>. SUFFICES ASSUME FlowInv, phase = "done", NEW h \in DOMAIN Dominated, getMergeInstruction(h) # <<>>,
                     NEW b \in Dominated[h] \cap Reachable(exits(h))
              PROVE  Place(b) < Place(getMergeInstruction(h)[1])
  BY Zenon DEF ConstructsTogether
<1>. DEFINE m == getMergeInstruction(h)[1]
            X == exits(h)
<1>2. PICK g : Written(g)
  BY DoneFacts
<1>3. h \in R /\ b \in R /\ b \notin Reachable({h}) /\ b \in Reachable(X)
  BY <1>1
<1>4. R \subseteq visited /\ visited \subseteq 1 .. g.n /\ FlowClosed(g, visited) /\ Finished(g, code) /\ Structured(g)
  BY <1>2, ReachableIsWritten DEF Written, Finished
<1>5. \A d \in R : d \in 1 .. g.n /\ getMergeInstruction(d) = Delays(g, d)
  BY <1>4, FinishedFacts
<1>6. g.mrg[h] # 0 /\ m = g.mrg[h]
  BY <1>3, <1>5 DEF Delays
<1>7. m \in visited
  BY <1>3, <1>4, <1>6 DEF FlowClosed
<1>8. \A d \in R : \A s : s \in ToSet(getMergeInstruction(d)) <=> s \in {g.mrg[d], g.cnt[d]} \ {0}
  <2>. SUFFICES ASSUME NEW d \in R, NEW s PROVE s \in ToSet(Delays(g, d)) <=> s \in {g.mrg[d], g.cnt[d]} \ {0}
    BY <1>5, Zenon
  <2>1. Delays(g, d) \in Seq(1 .. g.n) /\ (Contains(Delays(g, d), s) <=> s \in {g.mrg[d], g.cnt[d]} \ {0})
    BY <1>4, <1>5, DelaysFacts
  <2>. QED  BY <2>1, ContainsIs
<1>9. \A d : d \in dominators(h) <=> d \in R /\ h \notin Reachable({d})
  BY <1>1, <1>3
<1>10. \A s : s \in X <=> /\ s = m \/ \E d \in dominators(h) \ {h} : s \in ToSet(getMergeInstruction(d))
                          /\ s \notin dominators(h)
  OBVIOUS
<1>. HIDE DEF dominators, X, R
<1>11. \A s : s \in X <=>
           /\ s = g.mrg[h] \/ \E d \in R : h \notin Reachable({d}) /\ d # h /\ s \in {g.mrg[d], g.cnt[d]} \ {0}
           /\ ~(s \in R /\ h \notin Reachable({s}))
  <2>1. \A s : (\E d \in dominators(h) \ {h} : s \in ToSet(getMergeInstruction(d)))
               <=> \E d \in R : h \notin Reachable({d}) /\ d # h /\ s \in {g.mrg[d], g.cnt[d]} \ {0}
    BY <1>8, <1>9, Zenon
  <2>. QED  BY <1>6, <1>9, <1>10, <2>1, Zenon
<1>12. LeftTo(g, h, X)
  <2>1. IsExits(g, h, X)
    BY <1>11, Zenon DEF IsExits, R
  <2>. QED  BY <1>3, <1>4, <1>6, <2>1, ExitsLeave, Zenon DEF R
<1>13. IsReachable(g, {}, R) /\ IsReachable(g, {h}, Reachable({h})) /\ IsReachable(g, X, Reachable(X))
  BY <1>4, ReachableIs, Zenon DEF R
<1>14. InPlace(g, emitted, Place(m), m) /\ \A d : Before(emitted, d, Place(m)) => Place(d) < Place(m)
  BY <1>2, <1>7, PlaceFacts
<1>15. Before(emitted, b, Place(m))
  <2>. DEFINE j == Place(m)
  <2>1. InPlace(g, emitted, j, g.mrg[h])
    BY <1>6, <1>14, Zenon
  <2>. HIDE DEF j
  <2>2. \A e \in Reachable(X) \ Reachable({h}) : Before(emitted, e, j)
    BY <1>3, <1>4, <1>6, <1>12, <1>13, <2>1, HeldTogether, Zenon
  <2>. QED  BY <1>3, <2>2 DEF j
<1>. QED  BY <1>14, <1>15

-----------------------------------------------------------------------------
\* The theorems

(* What the traversal writes is a complete function: every block once, one *)
(* that the function owns and whose only branch or end is its last         *)
(* instruction, and with it the blocks that can be reached and those that  *)
(* its branches, merges and phis name (spvIR.h:228, InReadableOrder.cpp:66)*)
THEOREM FunctionIsCompleteHolds == Spec => []FunctionIsComplete
  BY FlowAlways, IsComplete, PTL

(* A block is written after every block that dominates it, although the    *)
(* traversal holds merge blocks and continue targets back and follows the  *)
(* other edges first (InReadableOrder.cpp:64).                             *)
THEOREM DominatorsFirstHolds == Spec => []DominatorsFirst
  BY FlowAlways, InOrder, PTL

(* What is inside of a construct is written before its merge block, for    *)
(* every nesting of selections, switches, loops and jumps out of them: all *)
(* that its header dominates up to the exits of the constructs around it   *)
(* (InReadableOrder.cpp:64).                                               *)
THEOREM ConstructsTogetherHolds == Spec => []ConstructsTogether
  BY FlowAlways, AreTogether, PTL

(* The phi of && and || names the two blocks that branch to it, whatever   *)
(* blocks its second operand is made of (GlslangToSpv.cpp:7715).           *)
THEOREM PhisNamePredecessorsHolds == Spec => []PhisNamePredecessors
  BY FlowAlways, PhisNamed, PTL
=============================================================================
