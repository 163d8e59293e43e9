------------------------ MODULE StructuredGraphProofs -----------------------
(***************************************************************************)
(* The graph of the code that the builder of StructuredFlow makes: blocks, *)
(* their branches, and the constructs with their merge blocks and continue *)
(* targets.  Structured says what an edge may be, Built what holds of the  *)
(* graph and of the constructs around the build point while the function   *)
(* is built.  The lemmas say what dominators are in such a graph, how a    *)
(* built graph grows with its code, and that the steps that go on with the *)
(* innermost construct lead from a built graph to another.                 *)
(***************************************************************************)
EXTENDS StructuredFlow, FiniteSetTheorems, SequenceTheorems, WellFoundedInduction, TLAPS

\* a set of naturals that is not empty has a least member
LEMMA Least ==
    ASSUME NEW S, S \subseteq Nat, S # {}
    PROVE  \E m \in S : \A k \in S : m <= k
<1>1. PICK m \in S : \A k \in S : ~(<<k, m>> \in OpToRel(<, Nat))
  BY NatLessThanWellFounded, WFMin, Zenon
<1>2. ASSUME NEW k \in S PROVE ~(k < m)
  <2>1. <<k, m>> \in Nat \X Nat
    OBVIOUS
  <2>2. ASSUME k < m PROVE <<k, m>> \in OpToRel(<, Nat)
    BY <2>1, <2>2, Zenon DEF OpToRel
  <2>. QED  BY <1>1, <2>2, Zenon
<1>. QED  BY <1>2

(* A sequence of sequences that are empty but for the last.                *)
LEMMA FlattenLast ==
    ASSUME NEW S, NEW s \in Seq(Seq(S)), s # <<>>, \A i \in 1 .. Len(s) - 1 : s[i] = <<>>
    PROVE  FlattenSeq(s) = s[Len(s)]
<1>. DEFINE n == Len(s)
            g == [i \in 1 .. n |-> IF i < n THEN <<>> ELSE s[n]]
            Body(f) == [i \in 1 .. n |-> IF i = 1 THEN s[i] ELSE f[i - 1] \o s[i]]
            flat == CHOOSE f : f = Body(f)
<1>1. n \in Nat \ {0} /\ s[n] \in Seq(S) /\ \A i \in 1 .. n : s[i] \in Seq(S)
  OBVIOUS
<1>2. \A t \in Seq(S) : <<>> \o t = t
  OBVIOUS
<1>3. g = Body(g)
  <2>1. ASSUME NEW i \in 1 .. n PROVE g[i] = IF i = 1 THEN s[i] ELSE g[i - 1] \o s[i]
    <3>1. CASE i = 1
      BY <1>1, <3>1
    <3>2. CASE i # 1
      <4>1. i - 1 \in 1 .. n /\ i - 1 < n
        BY <1>1, <3>2
      <4>2. g[i - 1] = <<>>
        BY <4>1
      <4>3. s[i] \in Seq(S) /\ g[i] = s[i]
        BY <1>1
      <4>. HIDE DEF g
      <4>. QED  BY <1>2, <3>2, <4>2, <4>3
    <3>. QED  BY <3>1, <3>2
  <2>. HIDE DEF g
  <2>2. Body(g) = [i \in 1 .. n |-> g[i]]
    BY <2>1
  <2>3. g = [i \in 1 .. n |-> g[i]]
    BY DEF g
  <2>. QED  BY <2>2, <2>3
<1>4. flat = Body(flat)
  <2>. HIDE DEF g, Body
  <2>. QED  BY <1>3
<1>5. FlattenSeq(s) = flat[n]
  BY <1>1, Zenon DEF FlattenSeq
<1>. HIDE DEF flat
<1>6. \A i \in 1 .. n : flat[i] = IF i = 1 THEN s[i] ELSE flat[i - 1] \o s[i]
  BY <1>4
<1>. DEFINE odd == {i \in 1 .. n : flat[i] # s[i]}
<1>7. ASSUME odd # {} PROVE FALSE
  <2>1. PICK m \in odd : \A k \in odd : m <= k
    <3>1. odd \subseteq Nat
      OBVIOUS
    <3>. HIDE DEF odd
    <3>. QED  BY <1>7, <3>1, Least
  <2>2. m \in 1 .. n /\ flat[m] # s[m] /\ m # 1 /\ flat[m] = flat[m - 1] \o s[m]
    BY <1>6, <2>1
  <2>3. m - 1 \in 1 .. n - 1 /\ m - 1 \in 1 .. n
    BY <1>1, <2>2
  <2>4. flat[m - 1] = <<>>
    BY <2>1, <2>3
  <2>. QED  BY <1>1, <1>2, <2>2, <2>4
<1>. QED  BY <1>1, <1>5, <1>7
-----------------------------------------------------------------------------
\* Blocks

Blocks      == DOMAIN code
Instruction == [op : Ends \cup Merges \cup {"Phi"}, targets : Seq(Nat)]

\* phis come first, a merge instruction next to last, and a branch or end is the last
WellFormed(is) ==
    /\ is \in Seq(Instruction)
    /\ \A i \in 1 .. Len(is) :
         /\ is[i].op \in Ends => i = Len(is)
         /\ is[i].op \in Merges => i = Len(is) - 1 /\ is[Len(is)].op \in Branches /\ is[i].targets # <<>>
         /\ is[i].op = "Phi" => i = 1 /\ is[i].targets # <<>>
         /\ is[i].op = "Return" => is[i].targets = <<>>

Terminated(is) == is # <<>> /\ is[Len(is)].op \in Ends
SuccOf(is)  == IF is # <<>> /\ is[Len(is)].op \in Branches THEN ToSet(is[Len(is)].targets) ELSE {}
MergeOf(is) == IF Len(is) >= 2 /\ is[Len(is) - 1].op \in Merges THEN is[Len(is) - 1].targets ELSE <<>>

PhiOf(is)   == IF is # <<>> /\ is[1].op = "Phi" THEN is[1].targets ELSE <<>>
Fresh(is)   == is = <<>> \/ (Len(is) = 1 /\ is[1].op = "Phi")

CodeInv ==
    /\ code \in Seq(Seq(Instruction))
    /\ \A b \in Blocks : WellFormed(code[b]) /\ SuccOf(code[b]) \subseteq Blocks /\ ToSet(MergeOf(code[b])) \subseteq Blocks

\* what post-processing and the traversal read of a block
LEMMA SuccessorsAre ==
    ASSUME CodeInv, NEW b \in Blocks
    PROVE  /\ Successors(b) \in Seq(Nat) /\ ToSet(Successors(b)) = SuccOf(code[b])
           /\ getMergeInstruction(b) = MergeOf(code[b])
<1>. DEFINE is == code[b]
            s == [i \in DOMAIN is |-> IF is[i].op \in Branches THEN is[i].targets ELSE <<>>]
<1>1. is \in Seq(Instruction) /\ WellFormed(is)
  BY DEF CodeInv, WellFormed
<1>2. getMergeInstruction(b) = MergeOf(is)
  BY DEF getMergeInstruction, MergeOf
<1>3. Successors(b) = FlattenSeq(s)
  BY DEF Successors
<1>4. CASE is = <<>>
  <2>1. s = <<>> /\ Len(s) = 0
    BY <1>4
  <2>2. Successors(b) = <<>>
    BY <1>3, <2>1 DEF FlattenSeq
  <2>. QED  BY <1>2, <1>4, <2>2 DEF SuccOf, ToSet
<1>5. CASE is # <<>>
  <2>1. s \in Seq(Seq(Nat)) /\ s # <<>> /\ Len(s) = Len(is) /\ Len(is) \in Nat \ {0}
    <3>1. Len(is) \in Nat \ {0} /\ DOMAIN is = 1 .. Len(is)
      BY <1>1, <1>5
    <3>2. ASSUME NEW i \in 1 .. Len(is) PROVE s[i] \in Seq(Nat)
      <4>1. is[i] \in Instruction
        BY <1>1, ElementOfSeq
      <4>2. is[i].targets \in Seq(Nat) /\ <<>> \in Seq(Nat)
        BY <4>1 DEF Instruction
      <4>. QED  BY <3>1, <4>2
    <3>3. DOMAIN s = 1 .. Len(is)
      BY <3>1
    <3>. HIDE DEF s
    <3>4. s \in Seq(Seq(Nat)) /\ Len(s) = Len(is)
      <4>1. s = [i \in 1 .. Len(is) |-> s[i]]
        BY <3>3 DEF s
      <4>2. s \in [1 .. Len(is) -> Seq(Nat)]
        BY <3>2, <4>1
      <4>. QED  BY <3>1, <3>3, <4>2
    <3>. QED  BY <3>1, <3>4
  <2>2. \A i \in 1 .. Len(s) - 1 : s[i] = <<>>
    BY <1>1, <2>1 DEF WellFormed, Ends
  <2>3. s[Len(s)] = IF is[Len(is)].op \in Branches THEN is[Len(is)].targets ELSE <<>>
    BY <2>1
  <2>4. Successors(b) = s[Len(s)] /\ s[Len(s)] \in Seq(Nat)
    <3>. HIDE DEF s
    <3>. QED  BY <1>3, <2>1, <2>2, FlattenLast
  <2>. HIDE DEF s
  <2>5. ToSet(<<>>) = {}
    BY DEF ToSet
  <2>. QED  BY <1>2, <1>5, <2>3, <2>4, <2>5 DEF SuccOf
<1>. QED  BY <1>4, <1>5

-----------------------------------------------------------------------------
\* Reachable is the least set that contains the entry and the successors outside out

Follows(S, out) == \A p \in S \cap Blocks : SuccOf(code[p]) \ out \subseteq S

\* what Reachable computes, step by step, is the least set that is closed under branches
LEMMA ReachableIsLeast ==
    ASSUME CodeInv, Blocks # {}, NEW out
    PROVE  /\ Reachable(out) \subseteq Blocks \ out /\ {1} \ out \subseteq Reachable(out)
           /\ Follows(Reachable(out), out)
           /\ \A S : {1} \ out \subseteq S /\ Follows(S, out) => Reachable(out) \subseteq S
<1>. DEFINE n == Len(code)
            More(S) == S \cup ((UNION {ToSet(Successors(b)) : b \in S}) \ out)
            Body(f) == [i \in 0 .. n |-> IF i = 0 THEN {1} \ out ELSE More(f[i - 1])]
            reached == CHOOSE f : f = Body(f)
<1>1. n \in Nat \ {0} /\ Blocks = 1 .. n
  BY DEF CodeInv, Blocks
<1>2. Reachable(out) = reached[n]
  BY Zenon DEF Reachable
<1>3. ASSUME NEW S \in SUBSET Blocks PROVE S \subseteq More(S) /\ More(S) \subseteq S \cup (Blocks \ out)
                                          /\ UNION {ToSet(Successors(b)) : b \in S} = UNION {SuccOf(code[b]) : b \in S}
  <2>1. \A b \in S : ToSet(Successors(b)) = SuccOf(code[b]) /\ SuccOf(code[b]) \subseteq Blocks
    BY SuccessorsAre DEF CodeInv
  <2>. QED  BY <2>1
<1>4. ASSUME NEW S \in SUBSET Blocks, NEW U, S \subseteq U, Follows(U, out) PROVE More(S) \subseteq U
  BY <1>3, <1>4 DEF Follows
<1>5. ASSUME NEW S \in SUBSET Blocks, More(S) = S PROVE Follows(S, out)
  BY <1>3, <1>5 DEF Follows
<1>6. More({}) = {}
  OBVIOUS
<1>. HIDE DEF More
<1>. DEFINE Defined(m) == \E f : f = [i \in 0 .. m |-> IF i = 0 THEN {1} \ out ELSE More(f[i - 1])]
            odd == {m \in 0 .. n : ~Defined(m)}
<1>7. ASSUME odd # {} PROVE FALSE
  <2>1. PICK m \in odd : \A k \in odd : m <= k
    <3>1. odd \subseteq Nat
      BY <1>1
    <3>. HIDE DEF odd
    <3>. QED  BY <1>7, <3>1, Least
  <2>2. m \in 0 .. n
    OBVIOUS
  <2>3. CASE m = 0
    <3>. DEFINE f == [i \in 0 .. 0 |-> {1} \ out]
    <3>1. f = [i \in 0 .. 0 |-> IF i = 0 THEN {1} \ out ELSE More(f[i - 1])]
      OBVIOUS
    <3>. QED  BY <2>3, <3>1
  <2>4. CASE m # 0
    <3>1. m - 1 \in 0 .. n /\ m - 1 \notin odd
      <4>1. m - 1 \in 0 .. n /\ ~(m <= m - 1)
        BY <1>1, <2>2, <2>4
      <4>. HIDE DEF odd
      <4>. QED  BY <2>1, <4>1
    <3>2. PICK f : f = [i \in 0 .. m - 1 |-> IF i = 0 THEN {1} \ out ELSE More(f[i - 1])]
      BY <3>1
    <3>. DEFINE g == [i \in 0 .. m |-> IF i < m THEN f[i] ELSE More(f[m - 1])]
    <3>3. ASSUME NEW i \in 0 .. m PROVE g[i] = IF i = 0 THEN {1} \ out ELSE More(g[i - 1])
      <4>1. CASE i = m
        BY <2>2, <2>4, <4>1
      <4>2. CASE i # m
        <5>1. i \in 0 .. m - 1 /\ i < m
          BY <2>2, <4>2
        <5>2. g[i] = IF i = 0 THEN {1} \ out ELSE More(f[i - 1])
          BY <3>2, <5>1
        <5>. QED  BY <2>2, <5>1, <5>2
      <4>. QED  BY <4>1, <4>2
    <3>4. g = [i \in 0 .. m |-> g[i]]
      OBVIOUS
    <3>. HIDE DEF g
    <3>5. g = [i \in 0 .. m |-> IF i = 0 THEN {1} \ out ELSE More(g[i - 1])]
      BY <3>3, <3>4
    <3>6. Defined(m)
      BY <3>5
    <3>. QED  BY <3>6
  <2>. QED  BY <2>3, <2>4
<1>8. Defined(n)
  <2>1. n \in 0 .. n
    BY <1>1
  <2>2. n \notin odd
    <3>. HIDE DEF odd
    <3>. QED  BY <1>7
  <2>. QED  BY <2>1, <2>2
<1>9. reached = Body(reached)
  BY <1>8
<1>10. reached[0] = {1} \ out /\ \A i \in 1 .. n : reached[i] = More(reached[i - 1])
  <2>. HIDE DEF reached
  <2>1. 0 \in 0 .. n /\ \A i \in 1 .. n : i \in 0 .. n /\ i # 0
    BY <1>1
  <2>2. \A i \in 0 .. n : reached[i] = IF i = 0 THEN {1} \ out ELSE More(reached[i - 1])
    BY <1>9
  <2>. QED  BY <2>1, <2>2
<1>. HIDE DEF reached
<1>11. ASSUME NEW P, P \subseteq 0 .. n, 0 \in P, \A i \in 1 .. n : i - 1 \in P => i \in P PROVE P = 0 .. n
  <2>1. CASE (0 .. n) \ P # {}
    <3>1. PICK m \in (0 .. n) \ P : \A k \in (0 .. n) \ P : m <= k
      <4>. DEFINE rest == (0 .. n) \ P
      <4>1. rest \subseteq Nat
        BY <1>1
      <4>. HIDE DEF rest
      <4>2. rest # {}
        BY <2>1 DEF rest
      <4>3. \E m \in rest : \A k \in rest : m <= k
        BY <4>1, <4>2, Least
      <4>. QED  BY <4>3 DEF rest
    <3>2. m \in 1 .. n /\ m - 1 \in 0 .. n /\ ~(m <= m - 1)
      BY <1>1, <1>11, <3>1
    <3>. QED  BY <1>11, <3>1, <3>2
  <2>. QED  BY <1>11, <2>1
<1>12. \A i \in 0 .. n : reached[i] \subseteq Blocks \ out
  <2>. DEFINE P == {i \in 0 .. n : reached[i] \subseteq Blocks \ out}
  <2>1. 0 \in P
    BY <1>1, <1>10
  <2>2. ASSUME NEW i \in 1 .. n, i - 1 \in P PROVE i \in P
    BY <1>1, <1>3, <1>10, <2>2
  <2>. HIDE DEF P
  <2>3. P = 0 .. n
    <3>1. P \subseteq 0 .. n
      BY DEF P
    <3>. QED  BY <1>11, <2>1, <2>2, <3>1
  <2>. QED  BY <2>3 DEF P
<1>13. ASSUME NEW S, {1} \ out \subseteq S, Follows(S, out) PROVE reached[n] \subseteq S
  <2>. DEFINE P == {i \in 0 .. n : reached[i] \subseteq S}
  <2>1. 0 \in P
    BY <1>1, <1>10, <1>13
  <2>2. ASSUME NEW i \in 1 .. n, i - 1 \in P PROVE i \in P
    <3>1. i - 1 \in 0 .. n /\ i \in 0 .. n /\ reached[i - 1] \subseteq S /\ reached[i - 1] \in SUBSET Blocks
      BY <1>1, <1>12, <2>2
    <3>. QED  BY <1>4, <1>10, <1>13, <3>1
  <2>3. P \subseteq 0 .. n
    OBVIOUS
  <2>. HIDE DEF P
  <2>4. P = 0 .. n
    BY <1>11, <2>1, <2>2, <2>3
  <2>5. n \in P
    BY <1>1, <2>4
  <2>. QED  BY <2>5 DEF P
<1>14. \A i \in 0 .. n : {1} \ out \subseteq reached[i]
  <2>. DEFINE P == {i \in 0 .. n : {1} \ out \subseteq reached[i]}
  <2>1. 0 \in P
    BY <1>1, <1>10
  <2>2. ASSUME NEW i \in 1 .. n, i - 1 \in P PROVE i \in P
    <3>1. i - 1 \in 0 .. n /\ i \in 0 .. n /\ {1} \ out \subseteq reached[i - 1] /\ reached[i - 1] \in SUBSET Blocks
      BY <1>1, <1>12, <2>2
    <3>. QED  BY <1>3, <1>10, <3>1
  <2>3. P \subseteq 0 .. n
    OBVIOUS
  <2>. HIDE DEF P
  <2>4. P = 0 .. n
    BY <1>11, <2>1, <2>2, <2>3
  <2>. QED  BY <2>4 DEF P
\* the sets grow until one of the steps adds nothing, at the latest after n of them
<1>15. \E k \in 1 .. n : reached[k] = reached[k - 1]
  <2>. SUFFICES ASSUME \A k \in 1 .. n : reached[k] # reached[k - 1] PROVE FALSE
    OBVIOUS
  <2>1. IsFiniteSet(Blocks) /\ Cardinality(Blocks) = n
    <3>1. IsFiniteSet(1 .. n) /\ Cardinality(1 .. n) = IF 1 > n THEN 0 ELSE n - 1 + 1
      BY <1>1, FS_Interval
    <3>. QED  BY <1>1, <3>1
  <2>2. \A i \in 0 .. n : IsFiniteSet(reached[i]) /\ Cardinality(reached[i]) \in Nat
    BY <1>12, <2>1, FS_Subset, FS_CardinalityType
  <2>3. Cardinality(reached[0]) > 0
    <3>1. reached[0] # {}
      <4>1. 0 \in 0 .. n /\ 1 \in 1 .. n /\ 1 - 1 = 0
        BY <1>1
      <4>. QED  BY <1>6, <1>10, <4>1
    <3>2. 0 \in 0 .. n
      BY <1>1
    <3>. QED  BY <2>2, <3>1, <3>2, FS_EmptySet
  <2>. DEFINE P == {i \in 0 .. n : Cardinality(reached[i]) > i}
  <2>4. 0 \in P
    BY <1>1, <2>3
  <2>5. ASSUME NEW i \in 1 .. n, i - 1 \in P PROVE i \in P
    <3>1. i - 1 \in 0 .. n /\ i \in 0 .. n /\ Cardinality(reached[i - 1]) > i - 1
      BY <1>1, <2>5
    <3>2. reached[i - 1] \subseteq reached[i] /\ reached[i - 1] # reached[i]
      BY <1>3, <1>10, <1>12, <3>1
    <3>3. Cardinality(reached[i - 1]) < Cardinality(reached[i])
      BY <2>2, <3>1, <3>2, FS_Subset
    <3>. QED  BY <1>1, <2>2, <3>1, <3>3
  <2>6. P \subseteq 0 .. n
    OBVIOUS
  <2>. HIDE DEF P
  <2>7. P = 0 .. n
    BY <1>11, <2>4, <2>5, <2>6
  <2>8. n \in 0 .. n
    BY <1>1
  <2>9. Cardinality(reached[n]) > n
    BY <2>7, <2>8 DEF P
  <2>10. Cardinality(reached[n]) <= n
    BY <1>12, <2>1, <2>8, FS_Subset
  <2>. QED  BY <1>1, <2>2, <2>8, <2>9, <2>10
<1>16. More(reached[n]) = reached[n]
  <2>1. PICK k \in 1 .. n : reached[k] = reached[k - 1]
    BY <1>15
  <2>. DEFINE P == {i \in 0 .. n : i >= k => reached[i] = reached[k]}
  <2>2. 0 \in P
    BY <1>1
  <2>3. ASSUME NEW i \in 1 .. n, i - 1 \in P PROVE i \in P
    <3>1. CASE i <= k
      BY <1>1, <3>1
    <3>2. CASE i > k
      <4>1. reached[i - 1] = reached[k] /\ reached[i] = More(reached[k]) /\ reached[k] = More(reached[k])
        BY <1>1, <1>10, <2>1, <2>3, <3>2
      <4>. QED  BY <1>1, <4>1
    <3>. QED  BY <1>1, <3>1, <3>2
  <2>4. P \subseteq 0 .. n
    OBVIOUS
  <2>. HIDE DEF P
  <2>5. P = 0 .. n
    BY <1>11, <2>2, <2>3, <2>4
  <2>6. n \in 0 .. n /\ k <= n
    BY <1>1
  <2>7. reached[n] = reached[k]
    BY <2>5, <2>6 DEF P
  <2>. QED  BY <1>10, <2>1, <2>7
<1>17. n \in 0 .. n
  BY <1>1
<1>18. Follows(reached[n], out)
  BY <1>5, <1>12, <1>16, <1>17
<1>. QED  BY <1>2, <1>12, <1>13, <1>14, <1>17, <1>18

-----------------------------------------------------------------------------
(* Structured graphs: g.succ are the edges between the nodes 1 .. g.n.  A  *)
(* construct is named by its header h: g.mrg[h] is its merge block,        *)
(* g.cnt[h] its continue target (0 for none), g.region[h] the blocks made  *)
(* for it but for the merge block; those of them above g.tail[h] follow    *)
(* the continue target.                                                    *)

Typed(g) ==
    /\ g.n \in Nat \ {0}
    /\ g.succ \in [1 .. g.n -> SUBSET (1 .. g.n)]
    /\ g.mrg \in [1 .. g.n -> 0 .. g.n] /\ g.cnt \in [1 .. g.n -> 0 .. g.n]
    /\ g.region \in [1 .. g.n -> SUBSET (2 .. g.n)] /\ g.tail \in [1 .. g.n -> Nat]

Constructs(g) ==
    \A h \in 1 .. g.n :
        /\ g.mrg[h] = 0 => g.region[h] = {} /\ g.cnt[h] = 0
        /\ g.mrg[h] # 0 => g.mrg[h] \notin g.region[h] \cup {1, h} /\ h \notin g.region[h]
        /\ g.cnt[h] # 0 => g.cnt[h] \in g.region[h]

OneOwner(g) ==
    \A h, k \in 1 .. g.n :
        /\ g.mrg[h] = g.mrg[k] /\ g.mrg[h] # 0 => h = k
        /\ g.cnt[h] = g.cnt[k] /\ g.cnt[h] # 0 => h = k
        /\ g.mrg[h] # 0 => g.mrg[h] # g.cnt[k]

\* the blocks that a construct merges to or continues at belong to what the construct belongs to
OwnersInside(g) ==
    \A h, k \in 1 .. g.n : g.mrg[k] \in g.region[h] \/ g.cnt[k] \in g.region[h] => k \in g.region[h] \cup {h}

TailOf(g, h) == {b \in g.region[h] : b > g.tail[h]}

\* What an edge from p to b may be:
\* the blocks of a construct are entered from its header, its merge block and target from within
Enters(g, p, b) ==
    \A h \in 1 .. g.n :
        /\ b \in g.region[h] => p \in g.region[h] \cup {h}
        /\ b = g.mrg[h] => p \in g.region[h] \cup {h}
        /\ b = g.cnt[h] => p \in g.region[h]
\* a construct is left to its merge block, its loop's head, or what encloses it
Leaves(g, p, b) ==
    \A h \in 1 .. g.n : g.mrg[h] # 0 /\ p \in g.region[h] \cup {h} =>
        \/ b \in g.region[h] \cup {h, g.mrg[h]}
        \/ \E k \in 1 .. g.n : h \in g.region[k] /\ (b = g.mrg[k] \/ (b = g.cnt[k] /\ h # b /\ h \notin TailOf(g, k)))
\* what follows the continue target leads to the loop's head or merge block
Returns(g, p, b) ==
    \A h \in 1 .. g.n : g.cnt[h] # 0 =>
        /\ b \in TailOf(g, h) => p \in TailOf(g, h) \cup {g.cnt[h]}
        /\ p \in TailOf(g, h) \cup {g.cnt[h]} => b \in TailOf(g, h) \cup {h, g.mrg[h]}

Edges(g) ==
    \A p \in 1 .. g.n : \A b \in g.succ[p] : Enters(g, p, b) /\ Leaves(g, p, b) /\ Returns(g, p, b)

Owned(g) == {b \in 1 .. g.n : \E h \in 1 .. g.n : b = g.mrg[h] \/ b = g.cnt[h]}

\* any other block has one predecessor, but for back edges and segments that fall through
ForwardFrom(g, b, q) ==
    \A p \in 1 .. g.n : b \in g.succ[p] => p = q \/ p \in g.region[b] \/ (p \in g.region[q] /\ b \in g.succ[q])
Forward(g) == \A b \in (1 .. g.n) \ Owned(g) : \E q \in 1 .. g.n : ForwardFrom(g, b, q)

Structured(g) ==
    Typed(g) /\ Constructs(g) /\ OneOwner(g) /\ OwnersInside(g) /\ Edges(g) /\ Forward(g)

\* what Reachable computes, over the edges of g
IsReachable(g, out, R) ==
    /\ R \subseteq (1 .. g.n) \ out /\ {1} \ out \subseteq R
    /\ \A p \in R : g.succ[p] \ out \subseteq R
    /\ \A S \in SUBSET (1 .. g.n) : {1} \ out \subseteq S /\ (\A p \in S : g.succ[p] \ out \subseteq S) => R \subseteq S

\* what can be reached is in every set that is closed under branches
LEMMA InClosed ==
    ASSUME NEW g, NEW out, NEW R, IsReachable(g, out, R), NEW S, S \subseteq 1 .. g.n, {1} \ out \subseteq S,
           \A p \in S : \A b \in g.succ[p] \ out : b \in S
    PROVE  R \subseteq S
<1>1. \A p \in S : g.succ[p] \ out \subseteq S
  OBVIOUS
<1>. QED  BY <1>1, Zenon DEF IsReachable

LEMMA InClosedAll ==
    ASSUME NEW g, NEW R, IsReachable(g, {}, R), NEW S, S \subseteq 1 .. g.n, 1 \in S,
           \A p \in S : \A b \in g.succ[p] : b \in S
    PROVE  R \subseteq S
<1>1. {1} \ {} \subseteq S /\ \A p \in S : g.succ[p] \ {} \subseteq S
  OBVIOUS
<1>. QED  BY <1>1, Zenon DEF IsReachable

\* a construct: its header, its blocks, its merge block and continue target
LEMMA ConstructFacts ==
    ASSUME NEW g, Structured(g), NEW h \in 1 .. g.n
    PROVE  /\ g.n \in Nat \ {0} /\ 1 \in 1 .. g.n /\ g.succ[h] \subseteq 1 .. g.n /\ g.mrg[h] \in 0 .. g.n /\ g.cnt[h] \in 0 .. g.n
           /\ g.region[h] \subseteq 2 .. g.n /\ g.tail[h] \in Nat /\ TailOf(g, h) \subseteq g.region[h]
           /\ g.mrg[h] = 0 => g.region[h] = {} /\ g.cnt[h] = 0
           /\ g.mrg[h] # 0 => g.mrg[h] \in 1 .. g.n /\ g.mrg[h] \notin g.region[h] \cup {1, h} /\ h \notin g.region[h]
           /\ g.cnt[h] # 0 => g.cnt[h] \in g.region[h]
           /\ 1 \notin g.region[h] /\ g.mrg[h] # 1 /\ g.cnt[h] # 1
<1>1. /\ g.n \in Nat \ {0} /\ g.succ[h] \in SUBSET (1 .. g.n) /\ g.mrg[h] \in 0 .. g.n /\ g.cnt[h] \in 0 .. g.n
      /\ g.region[h] \in SUBSET (2 .. g.n) /\ g.tail[h] \in Nat
  BY DEF Structured, Typed
<1>2. /\ g.mrg[h] = 0 => g.region[h] = {} /\ g.cnt[h] = 0
      /\ g.mrg[h] # 0 => g.mrg[h] \notin g.region[h] \cup {1, h} /\ h \notin g.region[h]
      /\ g.cnt[h] # 0 => g.cnt[h] \in g.region[h]
  BY DEF Structured, Constructs
<1>. QED  BY <1>1, <1>2 DEF TailOf

\* where the header is not reached, nothing of the construct is
LEMMA HeaderFirst ==
    ASSUME NEW g, Structured(g), NEW out, NEW R, IsReachable(g, out, R), NEW h \in 1 .. g.n, h \notin R, g.mrg[h] # 0
    PROVE  R \cap g.region[h] = {} /\ g.mrg[h] \notin R
<1>. DEFINE S == R \ (g.region[h] \cup {g.mrg[h]})
<1>1. R \subseteq 1 .. g.n /\ {1} \ out \subseteq R /\ \A p \in R : g.succ[p] \ out \subseteq R
  BY DEF IsReachable
<1>2. 1 \notin g.region[h] /\ g.mrg[h] # 1
  BY ConstructFacts
<1>3. ASSUME NEW p \in S, NEW b \in g.succ[p] \ out PROVE b \in S
  <2>1. p \in 1 .. g.n /\ p \notin g.region[h] \cup {h} /\ b \in R
    BY <1>1
  <2>2. Enters(g, p, b)
    BY <2>1 DEF Structured, Edges
  <2>. QED  BY <2>1, <2>2 DEF Enters
<1>4. S \subseteq 1 .. g.n /\ {1} \ out \subseteq S
  BY <1>1, <1>2
<1>5. R \subseteq S
  <2>. HIDE DEF S
  <2>. QED  BY <1>3, <1>4, InClosed
<1>. QED  BY <1>5

\* where block b of a construct, or its continue target, is passed by, the header is reached
LEMMA HeaderReached ==
    ASSUME NEW g, Structured(g), NEW R, IsReachable(g, {}, R), NEW h \in 1 .. g.n, g.mrg[h] # 0,
           NEW b \in g.region[h] \cup {g.mrg[h]}, b = g.mrg[h] \/ b = g.cnt[h],
           NEW Y, IsReachable(g, {b}, Y), R \cap g.region[h] # {}
    PROVE  h \in Y
<1>. SUFFICES ASSUME h \notin Y PROVE FALSE
  OBVIOUS
<1>1. Y \cap g.region[h] = {} /\ g.mrg[h] \notin Y
  BY HeaderFirst
<1>2. Y \subseteq 1 .. g.n /\ {1} \ {b} \subseteq Y /\ \A p \in Y : g.succ[p] \ {b} \subseteq Y
  BY DEF IsReachable
<1>3. ASSUME NEW p \in Y, NEW d \in g.succ[p] PROVE d \in Y
  <2>1. CASE d # b
    BY <1>2, <2>1
  <2>2. CASE d = b
    <3>1. Enters(g, p, d) /\ p \in 1 .. g.n
      BY <1>2 DEF Structured, Edges
    <3>2. p \in g.region[h] \cup {h}
      BY <2>2, <3>1 DEF Enters
    <3>. QED  BY <1>1, <3>2
  <2>. QED  BY <2>1, <2>2
<1>4. 1 \in Y
  <2>1. b # 1
    BY ConstructFacts
  <2>. QED  BY <1>2, <2>1
<1>5. R \subseteq Y
  BY <1>2, <1>3, <1>4, InClosedAll
<1>. QED  BY <1>1, <1>5

\* inside of a construct nothing needs its merge block
LEMMA MergeIsNoDominator ==
    ASSUME NEW g, Structured(g), NEW R, IsReachable(g, {}, R), NEW k \in 1 .. g.n, g.mrg[k] # 0,
           NEW Y, IsReachable(g, {g.mrg[k]}, Y), NEW h \in g.region[k], h \in R
    PROVE  h \in Y
<1>. DEFINE S == Y \cup ((1 .. g.n) \ g.region[k])
<1>1. Y \subseteq 1 .. g.n /\ \A p \in Y : g.succ[p] \ {g.mrg[k]} \subseteq Y
  BY DEF IsReachable
<1>2. /\ g.mrg[k] \in 1 .. g.n /\ g.mrg[k] \notin g.region[k] /\ 1 \notin g.region[k] /\ 1 \in 1 .. g.n
      /\ \A p \in 1 .. g.n : g.succ[p] \subseteq 1 .. g.n
  BY ConstructFacts
<1>3. k \in Y
  BY HeaderReached
<1>4. ASSUME NEW p \in S, NEW b \in g.succ[p] PROVE b \in S
  <2>1. p \in 1 .. g.n /\ b \in 1 .. g.n
    BY <1>1, <1>2
  <2>2. CASE p \in Y
    BY <1>1, <1>2, <2>1, <2>2
  <2>3. CASE p \notin Y /\ b \in g.region[k]
    <3>1. Enters(g, p, b)
      BY <2>1 DEF Structured, Edges
    <3>. QED  BY <1>3, <2>3, <3>1 DEF Enters
  <2>. QED  BY <2>1, <2>2, <2>3
<1>5. S \subseteq 1 .. g.n /\ 1 \in S
  BY <1>1, <1>2
<1>6. R \subseteq S
  <2>. HIDE DEF S
  <2>. QED  BY <1>4, <1>5, InClosedAll
<1>. QED  BY <1>6

\* and before the continue target nothing needs that
LEMMA ContinueIsNoDominator ==
    ASSUME NEW g, Structured(g), NEW R, IsReachable(g, {}, R), NEW k \in 1 .. g.n, g.cnt[k] # 0,
           NEW Y, IsReachable(g, {g.cnt[k]}, Y), NEW h \in g.region[k], h # g.cnt[k], h \notin TailOf(g, k), h \in R
    PROVE  h \in Y
<1>. DEFINE T == TailOf(g, k) \cup {g.cnt[k]}
            S == (Y \cup ((1 .. g.n) \ g.region[k])) \cup T
<1>1. Y \subseteq 1 .. g.n /\ \A p \in Y : g.succ[p] \ {g.cnt[k]} \subseteq Y
  BY DEF IsReachable
<1>2. /\ g.mrg[k] # 0 /\ g.mrg[k] \in 1 .. g.n /\ g.mrg[k] \notin g.region[k] /\ 1 \notin g.region[k] /\ 1 \in 1 .. g.n
      /\ k \notin g.region[k] /\ g.cnt[k] \in g.region[k] /\ T \subseteq 1 .. g.n
  BY ConstructFacts
<1>3. \A p \in 1 .. g.n : g.succ[p] \subseteq 1 .. g.n
  BY ConstructFacts
<1>4. k \in Y
  BY <1>2, HeaderReached
<1>5. ASSUME NEW p \in S, NEW b \in g.succ[p] PROVE b \in S
  <2>1. p \in 1 .. g.n
    BY <1>1, <1>2
  <2>2. b \in 1 .. g.n /\ Enters(g, p, b) /\ Returns(g, p, b)
    BY <1>3, <2>1 DEF Structured, Edges
  <2>3. CASE p \in Y
    BY <1>1, <2>3
  <2>4. CASE p \in T
    BY <1>2, <2>2, <2>4 DEF Returns
  <2>5. CASE p \notin Y /\ p \notin T /\ b \in g.region[k]
    BY <1>4, <2>2, <2>5 DEF Enters
  <2>. QED  BY <2>2, <2>3, <2>4, <2>5
<1>6. S \subseteq 1 .. g.n /\ 1 \in S
  BY <1>1, <1>2
<1>7. R \subseteq S
  <2>. HIDE DEF S
  <2>. QED  BY <1>5, <1>6, InClosedAll
<1>. QED  BY <1>7

-----------------------------------------------------------------------------
(* How a graph grows: g2 has the nodes and edges of g; its constructs are  *)
(* those of g, with blocks added, and at most one more, whose header is h0.*)

Plain(g2, h) == g2.mrg[h] = 0 /\ g2.cnt[h] = 0 /\ g2.region[h] = {}
Kept(g, g2, h) ==
    /\ g2.mrg[h] = g.mrg[h] /\ g2.cnt[h] = g.cnt[h]
    /\ g.mrg[h] = 0 => g2.region[h] = {}
    /\ \A b \in 1 .. g.n : /\ b \in g2.region[h] <=> b \in g.region[h]
                           /\ b \in g.region[h] => (b > g2.tail[h] <=> b > g.tail[h])
Opened(g, g2, h0) ==
    /\ h0 <= g.n => g.mrg[h0] = 0 /\ g.succ[h0] = {}
    /\ g2.mrg[h0] > g.n /\ g2.mrg[h0] \notin g2.region[h0] \cup {h0} /\ h0 \notin g2.region[h0]
    /\ g2.cnt[h0] # 0 => g2.cnt[h0] \in g2.region[h0]
    /\ \A b \in g2.region[h0] : b > g.n
    /\ \A h \in 1 .. g2.n : g2.mrg[h0] \in g2.region[h] \/ g2.cnt[h0] \in g2.region[h] => h0 \in g2.region[h] \cup {h}

Extends(g, g2, h0) ==
    /\ Typed(g2) /\ g.n <= g2.n
    /\ \A p \in 1 .. g.n : g.succ[p] \subseteq g2.succ[p]
    /\ \A h \in 1 .. g2.n :
         IF h = h0 THEN Opened(g, g2, h0) ELSE IF h <= g.n THEN Kept(g, g2, h) ELSE Plain(g2, h)

OldEdge(g, p, b) == p <= g.n /\ b \in g.succ[p]

\* what g2 is at h, a construct of g that is kept, the one opened, or none
LEMMA ExtendsFacts ==
    ASSUME NEW g, NEW g2, NEW h0, Structured(g), Extends(g, g2, h0), NEW h \in 1 .. g2.n
    PROVE  /\ h = h0 => Opened(g, g2, h0)
           /\ h # h0 /\ h <= g.n => Kept(g, g2, h) /\ h \in 1 .. g.n
           /\ h # h0 /\ ~(h <= g.n) => Plain(g2, h)
           /\ g.n \in Nat \ {0} /\ g2.n \in Nat \ {0} /\ g.n <= g2.n /\ 1 .. g.n \subseteq 1 .. g2.n
           /\ g2.succ[h] \in SUBSET (1 .. g2.n) /\ g2.mrg[h] \in 0 .. g2.n /\ g2.cnt[h] \in 0 .. g2.n
           /\ g2.region[h] \in SUBSET (2 .. g2.n) /\ g2.tail[h] \in Nat
<1>1. g.n \in Nat \ {0} /\ g2.n \in Nat \ {0} /\ g.n <= g2.n
  BY DEF Structured, Extends, Typed
<1>2. /\ g2.succ[h] \in SUBSET (1 .. g2.n) /\ g2.mrg[h] \in 0 .. g2.n /\ g2.cnt[h] \in 0 .. g2.n
      /\ g2.region[h] \in SUBSET (2 .. g2.n) /\ g2.tail[h] \in Nat
  BY DEF Extends, Typed
<1>3. /\ h = h0 => Opened(g, g2, h0)
      /\ h # h0 /\ h <= g.n => Kept(g, g2, h)
      /\ h # h0 /\ ~(h <= g.n) => Plain(g2, h)
  BY Zenon DEF Extends
<1>. QED  BY <1>1, <1>2, <1>3

\* the constructs stay nested when one is opened
LEMMA ConstructsStep ==
    ASSUME NEW g, NEW g2, NEW h0, Structured(g), Extends(g, g2, h0)
    PROVE  Constructs(g2)
<1>. SUFFICES ASSUME NEW h \in 1 .. g2.n
              PROVE  /\ g2.mrg[h] = 0 => g2.region[h] = {} /\ g2.cnt[h] = 0
                     /\ g2.mrg[h] # 0 => g2.mrg[h] \notin g2.region[h] \cup {1, h} /\ h \notin g2.region[h]
                     /\ g2.cnt[h] # 0 => g2.cnt[h] \in g2.region[h]
  BY DEF Constructs
<1>1. CASE h = h0
  <2>1. Opened(g, g2, h) /\ g.n \in Nat \ {0} /\ g2.mrg[h] \in Nat
    BY <1>1, ExtendsFacts
  <2>. QED  BY <2>1 DEF Opened
<1>2. CASE h # h0 /\ h <= g.n
  <2>1. Kept(g, g2, h) /\ h \in 1 .. g.n
    BY <1>2, ExtendsFacts
  <2>2. /\ g.mrg[h] \in 0 .. g.n /\ g.cnt[h] \in 0 .. g.n
        /\ g.mrg[h] = 0 => g.region[h] = {} /\ g.cnt[h] = 0
        /\ g.mrg[h] # 0 => g.mrg[h] \in 1 .. g.n /\ g.mrg[h] \notin g.region[h] \cup {1, h} /\ h \notin g.region[h]
        /\ g.cnt[h] # 0 => g.cnt[h] \in g.region[h] /\ g.cnt[h] \in 1 .. g.n
    BY <2>1, ConstructFacts
  <2>. QED  BY <2>1, <2>2 DEF Kept
<1>3. CASE h # h0 /\ ~(h <= g.n)
  BY <1>3, ExtendsFacts DEF Plain
<1>. QED  BY <1>1, <1>2, <1>3

\* a merge block or target of g2 is one of g, or new
LEMMA OwnersStep ==
    ASSUME NEW g, NEW g2, NEW h0, Structured(g), Extends(g, g2, h0), NEW h \in 1 .. g2.n
    PROVE  /\ h # h0 /\ g2.mrg[h] # 0 => h \in 1 .. g.n /\ g.mrg[h] = g2.mrg[h] /\ g2.mrg[h] \in 1 .. g.n /\ Kept(g, g2, h)
           /\ h # h0 /\ g2.cnt[h] # 0 => h \in 1 .. g.n /\ g.cnt[h] = g2.cnt[h] /\ g2.cnt[h] \in 1 .. g.n /\ Kept(g, g2, h)
           /\ h = h0 => g2.mrg[h] > g.n /\ g2.mrg[h] # g2.cnt[h] /\ (g2.cnt[h] # 0 => g2.cnt[h] > g.n)
<1>1. CASE h = h0
  <2>1. Opened(g, g2, h) /\ g.n \in Nat \ {0} /\ g2.mrg[h] \in Nat
    BY <1>1, ExtendsFacts
  <2>. QED  BY <1>1, <2>1 DEF Opened
<1>2. CASE h # h0 /\ h <= g.n
  <2>1. Kept(g, g2, h) /\ h \in 1 .. g.n
    BY <1>2, ExtendsFacts
  <2>2. g.mrg[h] \in 0 .. g.n /\ g.cnt[h] \in 0 .. g.n
    BY <2>1, ConstructFacts
  <2>3. g2.mrg[h] = g.mrg[h] /\ g2.cnt[h] = g.cnt[h]
    BY <2>1 DEF Kept
  <2>. QED  BY <1>2, <2>1, <2>2, <2>3
<1>3. CASE h # h0 /\ ~(h <= g.n)
  BY <1>3, ExtendsFacts DEF Plain
<1>. QED  BY <1>1, <1>2, <1>3

\* no block is the merge block or target of two constructs
LEMMA OneOwnerStep ==
    ASSUME NEW g, NEW g2, NEW h0, Structured(g), Extends(g, g2, h0)
    PROVE  OneOwner(g2)
<1>. SUFFICES ASSUME NEW h \in 1 .. g2.n, NEW k \in 1 .. g2.n
              PROVE  /\ g2.mrg[h] = g2.mrg[k] /\ g2.mrg[h] # 0 => h = k
                     /\ g2.cnt[h] = g2.cnt[k] /\ g2.cnt[h] # 0 => h = k
                     /\ g2.mrg[h] # 0 => g2.mrg[h] # g2.cnt[k]
  BY DEF OneOwner
<1>1. g.n \in Nat /\ g2.mrg[h] \in Nat /\ g2.mrg[k] \in Nat /\ g2.cnt[h] \in Nat /\ g2.cnt[k] \in Nat
  BY ExtendsFacts
<1>2. CASE h = h0 /\ k = h0
  BY <1>2, OwnersStep
<1>3. CASE h = h0 /\ k # h0
  BY <1>1, <1>3, OwnersStep
<1>4. CASE h # h0 /\ k = h0
  <2>1. g2.mrg[k] > g.n /\ (g2.cnt[k] # 0 => g2.cnt[k] > g.n)
    BY <1>4, OwnersStep
  <2>2. (g2.mrg[h] # 0 => g2.mrg[h] \in 1 .. g.n) /\ (g2.cnt[h] # 0 => g2.cnt[h] \in 1 .. g.n)
    BY <1>4, OwnersStep
  <2>. QED  BY <1>1, <2>1, <2>2
<1>5. CASE h # h0 /\ k # h0
  <2>1. g2.mrg[h] # 0 => h \in 1 .. g.n /\ g.mrg[h] = g2.mrg[h]
    BY <1>5, OwnersStep
  <2>2. g2.cnt[h] # 0 => h \in 1 .. g.n /\ g.cnt[h] = g2.cnt[h]
    BY <1>5, OwnersStep
  <2>3. g2.mrg[k] # 0 => k \in 1 .. g.n /\ g.mrg[k] = g2.mrg[k]
    BY <1>5, OwnersStep
  <2>4. g2.cnt[k] # 0 => k \in 1 .. g.n /\ g.cnt[k] = g2.cnt[k]
    BY <1>5, OwnersStep
  <2>. QED  BY <2>1, <2>2, <2>3, <2>4 DEF Structured, OneOwner
<1>. QED  BY <1>2, <1>3, <1>4, <1>5

\* a merge block or target stays inside what its construct is inside of
LEMMA OwnersInsideStep ==
    ASSUME NEW g, NEW g2, NEW h0, Structured(g), Extends(g, g2, h0)
    PROVE  OwnersInside(g2)
<1>. SUFFICES ASSUME NEW h \in 1 .. g2.n, NEW k \in 1 .. g2.n, NEW c \in g2.region[h], c = g2.mrg[k] \/ c = g2.cnt[k]
              PROVE  k \in g2.region[h] \cup {h}
  BY DEF OwnersInside
<1>1. c # 0 /\ c \in Nat
  BY ExtendsFacts
<1>2. CASE k = h0
  <2>1. Opened(g, g2, h0)
    BY <1>2, ExtendsFacts
  <2>. QED  BY <1>2, <2>1 DEF Opened
<1>3. CASE k # h0
  <2>1. k \in 1 .. g.n /\ c \in 1 .. g.n /\ (c = g.mrg[k] \/ c = g.cnt[k])
    BY <1>1, <1>3, OwnersStep
  <2>2. g.n \in Nat
    BY ExtendsFacts
  <2>3. h # h0
    <3>1. h = h0 => Opened(g, g2, h0)
      BY ExtendsFacts
    <3>. QED  BY <2>1, <2>2, <3>1 DEF Opened
  <2>4. h \in 1 .. g.n /\ Kept(g, g2, h)
    <3>1. ~(h <= g.n) => Plain(g2, h)
      BY <2>3, ExtendsFacts
    <3>2. h <= g.n
      BY <3>1 DEF Plain
    <3>. QED  BY <2>3, <3>2, ExtendsFacts
  <2>5. c \in g.region[h]
    BY <2>1, <2>4 DEF Kept
  <2>6. k \in g.region[h] \cup {h}
    BY <2>1, <2>4, <2>5 DEF Structured, OwnersInside
  <2>. QED  BY <2>1, <2>4, <2>6 DEF Kept
<1>. QED  BY <1>2, <1>3

\* what an edge of g was, it is in g2
LEMMA OldEdgeStep ==
    ASSUME NEW g, NEW g2, NEW h0, Structured(g), Extends(g, g2, h0), NEW p \in 1 .. g.n, NEW b \in g.succ[p]
    PROVE  Enters(g2, p, b) /\ Leaves(g2, p, b) /\ Returns(g2, p, b)
<1>1. g.n \in Nat \ {0} /\ g2.n \in Nat \ {0} /\ g.n <= g2.n /\ 1 .. g.n \subseteq 1 .. g2.n /\ b \in 1 .. g.n /\ p \in 1 .. g2.n
  <2>1. b \in 1 .. g.n /\ g.n \in Nat \ {0}
    BY ConstructFacts
  <2>2. 1 \in 1 .. g2.n
    BY DEF Structured, Extends, Typed
  <2>. QED  BY <2>1, <2>2, ExtendsFacts
<1>2. Enters(g, p, b) /\ Leaves(g, p, b) /\ Returns(g, p, b)
  BY DEF Structured, Edges
\* it is not of a new construct
<1>3. ASSUME NEW h \in 1 .. g2.n, h = h0
      PROVE  p \notin g2.region[h] /\ b \notin g2.region[h] /\ b # g2.mrg[h] /\ b # g2.cnt[h] /\ p # h /\ p # g2.cnt[h]
  <2>1. Opened(g, g2, h)
    BY <1>3, ExtendsFacts
  <2>2. p # h
    BY <1>1, <2>1 DEF Opened
  <2>3. g2.mrg[h] > g.n /\ \A c \in g2.region[h] : c > g.n
    BY <2>1 DEF Opened
  <2>4. g2.cnt[h] # 0 => g2.cnt[h] \in g2.region[h]
    BY <2>1 DEF Opened
  <2>. QED  BY <1>1, <2>2, <2>3, <2>4
<1>4. ASSUME NEW h \in 1 .. g2.n, h # h0, ~(h <= g.n)
      PROVE  g2.mrg[h] = 0 /\ g2.cnt[h] = 0 /\ g2.region[h] = {} /\ p # h
  BY <1>1, <1>4, ExtendsFacts DEF Plain
<1>5. ASSUME NEW h \in 1 .. g2.n, h # h0, h <= g.n
      PROVE  /\ h \in 1 .. g.n /\ g2.mrg[h] = g.mrg[h] /\ g2.cnt[h] = g.cnt[h]
             /\ \A c \in 1 .. g.n : (c \in g2.region[h] <=> c \in g.region[h]) /\ (c \in TailOf(g2, h) <=> c \in TailOf(g, h))
  BY <1>1, <1>5, ExtendsFacts DEF Kept, TailOf
<1>6. Enters(g2, p, b)
  <2>. SUFFICES ASSUME NEW h \in 1 .. g2.n
                PROVE  /\ b \in g2.region[h] => p \in g2.region[h] \cup {h}
                       /\ b = g2.mrg[h] => p \in g2.region[h] \cup {h}
                       /\ b = g2.cnt[h] => p \in g2.region[h]
    BY DEF Enters
  <2>1. CASE h # h0 /\ h <= g.n
    BY <1>1, <1>2, <1>5, <2>1 DEF Enters
  <2>. QED  BY <1>1, <1>3, <1>4, <2>1
<1>7. Leaves(g2, p, b)
  <2>. SUFFICES ASSUME NEW h \in 1 .. g2.n, g2.mrg[h] # 0, p \in g2.region[h] \cup {h}
                PROVE  \/ b \in g2.region[h] \cup {h, g2.mrg[h]}
                       \/ \E k \in 1 .. g2.n : h \in g2.region[k] /\ (b = g2.mrg[k] \/ (b = g2.cnt[k] /\ h # b /\ h \notin TailOf(g2, k)))
    BY DEF Leaves
  <2>1. h # h0 /\ h <= g.n
    BY <1>3, <1>4
  <2>2. h \in 1 .. g.n /\ g.mrg[h] # 0 /\ p \in g.region[h] \cup {h} /\ g2.mrg[h] = g.mrg[h]
    BY <1>5, <2>1
  <2>3. CASE b \in g.region[h] \cup {h, g.mrg[h]}
    BY <1>1, <1>5, <2>1, <2>3
  <2>4. CASE \E k \in 1 .. g.n : h \in g.region[k] /\ (b = g.mrg[k] \/ (b = g.cnt[k] /\ h # b /\ h \notin TailOf(g, k)))
    <3>1. PICK k \in 1 .. g.n : h \in g.region[k] /\ (b = g.mrg[k] \/ (b = g.cnt[k] /\ h # b /\ h \notin TailOf(g, k)))
      BY <2>4
    <3>2. k \in 1 .. g2.n /\ k <= g.n
      BY <1>1
    <3>3. k # h0
      <4>1. g.mrg[k] # 0
        BY <3>1, ConstructFacts
      <4>2. k = h0 => Opened(g, g2, k)
        BY <3>2, ExtendsFacts
      <4>. QED  BY <3>2, <4>1, <4>2 DEF Opened
    <3>. QED  BY <1>5, <2>2, <3>1, <3>2, <3>3
  <2>. QED  BY <1>2, <2>2, <2>3, <2>4 DEF Leaves
<1>8. Returns(g2, p, b)
  <2>. SUFFICES ASSUME NEW h \in 1 .. g2.n, g2.cnt[h] # 0
                PROVE  /\ b \in TailOf(g2, h) => p \in TailOf(g2, h) \cup {g2.cnt[h]}
                       /\ p \in TailOf(g2, h) \cup {g2.cnt[h]} => b \in TailOf(g2, h) \cup {h, g2.mrg[h]}
    BY DEF Returns
  <2>1. CASE h # h0 /\ h <= g.n
    BY <1>1, <1>2, <1>5, <2>1 DEF Returns
  <2>2. CASE h = h0
    BY <1>3, <2>2 DEF TailOf
  <2>. QED  BY <1>4, <2>1, <2>2
<1>. QED  BY <1>6, <1>7, <1>8

\* a node keeps its one predecessor
SamePredecessors(g, g2, b) == b <= g.n /\ \A p \in 1 .. g2.n : b \in g2.succ[p] => OldEdge(g, p, b) \/ p \in g2.region[b]

\* a graph that is extended stays structured, if its new edges and blocks are as they should be
LEMMA GraphStep ==
    ASSUME NEW g, NEW g2, NEW h0, Structured(g), Extends(g, g2, h0),
           \A p \in 1 .. g2.n : \A b \in g2.succ[p] :
               OldEdge(g, p, b) \/ (Enters(g2, p, b) /\ Leaves(g2, p, b) /\ Returns(g2, p, b)),
           \A b \in 1 .. g2.n : \/ b \in Owned(g2) \/ SamePredecessors(g, g2, b)
                               \/ \E q \in 1 .. g2.n : ForwardFrom(g2, b, q)
    PROVE  Structured(g2)
<1>1. Typed(g2)
  BY DEF Extends
<1>2. Edges(g2)
  <2>. SUFFICES ASSUME NEW p \in 1 .. g2.n, NEW b \in g2.succ[p], OldEdge(g, p, b)
                PROVE  Enters(g2, p, b) /\ Leaves(g2, p, b) /\ Returns(g2, p, b)
    BY DEF Edges
  <2>1. p \in 1 .. g.n /\ b \in g.succ[p]
    BY DEF OldEdge, Structured, Typed
  <2>. QED  BY <2>1, OldEdgeStep
<1>3. Forward(g2)
  <2>. SUFFICES ASSUME NEW b \in 1 .. g2.n, b \notin Owned(g2), SamePredecessors(g, g2, b)
                PROVE  \E q \in 1 .. g2.n : ForwardFrom(g2, b, q)
    BY DEF Forward
  <2>1. b \in 1 .. g.n /\ 1 .. g.n \subseteq 1 .. g2.n /\ g.n <= g2.n /\ g.n \in Nat
    BY ExtendsFacts DEF SamePredecessors
  <2>2. b \notin Owned(g)
    <3>1. ASSUME NEW h \in 1 .. g.n, b = g.mrg[h] \/ b = g.cnt[h] PROVE FALSE
      <4>1. h \in 1 .. g2.n /\ h <= g.n /\ g.mrg[h] # 0
        BY <2>1, <3>1, ConstructFacts
      <4>2. h # h0
        <5>1. h = h0 => Opened(g, g2, h)
          BY <4>1, ExtendsFacts
        <5>. QED  BY <4>1, <5>1 DEF Opened
      <4>3. Kept(g, g2, h)
        BY <4>1, <4>2, ExtendsFacts
      <4>. QED  BY <3>1, <4>1, <4>3 DEF Owned, Kept
    <3>. QED  BY <3>1 DEF Owned
  <2>3. PICK q \in 1 .. g.n : ForwardFrom(g, b, q)
    BY <2>1, <2>2 DEF Structured, Forward
  <2>4. \A h \in 1 .. g.n : g.region[h] \subseteq g2.region[h]
    <3>. SUFFICES ASSUME NEW h \in 1 .. g.n, NEW c \in g.region[h] PROVE c \in g2.region[h]
      OBVIOUS
    <3>1. h \in 1 .. g2.n /\ h <= g.n /\ g.mrg[h] # 0 /\ c \in 1 .. g.n
      BY <2>1, ConstructFacts
    <3>2. h # h0
      <4>1. h = h0 => Opened(g, g2, h)
        BY <3>1, ExtendsFacts
      <4>. QED  BY <3>1, <4>1 DEF Opened
    <3>3. Kept(g, g2, h)
      BY <3>1, <3>2, ExtendsFacts
    <3>. QED  BY <3>1, <3>3 DEF Kept
  <2>5. g.succ[q] \subseteq g2.succ[q]
    BY DEF Extends
  <2>6. ForwardFrom(g2, b, q)
    <3>. SUFFICES ASSUME NEW p \in 1 .. g2.n, b \in g2.succ[p], p \notin g2.region[b]
                  PROVE  p = q \/ (p \in g2.region[q] /\ b \in g2.succ[q])
      BY DEF ForwardFrom
    <3>1. p \in 1 .. g.n /\ b \in g.succ[p]
      BY <2>1 DEF SamePredecessors, OldEdge
    <3>2. p \notin g.region[b]
      BY <2>1, <2>4
    <3>. QED  BY <2>3, <2>4, <2>5, <3>1, <3>2 DEF ForwardFrom
  <2>. QED  BY <2>1, <2>6
<1>. QED  BY <1>1, <1>2, <1>3, ConstructsStep, OneOwnerStep, OwnersInsideStep DEF Structured

-----------------------------------------------------------------------------
\* What the builder puts at the end of a block

LEMMA EmptyBlock ==
    /\ WellFormed(<<>>) /\ Fresh(<<>>) /\ ~Terminated(<<>>)
    /\ SuccOf(<<>>) = {} /\ MergeOf(<<>>) = <<>> /\ PhiOf(<<>>) = <<>>
BY DEF WellFormed, Fresh, Terminated, SuccOf, MergeOf, PhiOf

\* a block that is empty but for a phi has no branch yet
LEMMA FreshBlock ==
    ASSUME NEW is, WellFormed(is), Fresh(is)
    PROVE  is \in Seq(Instruction) /\ Len(is) \in {0, 1} /\ ~Terminated(is) /\ SuccOf(is) = {} /\ MergeOf(is) = <<>>
<1>1. is \in Seq(Instruction) /\ Len(is) \in {0, 1} /\ (is # <<>> => Len(is) = 1 /\ is[1].op = "Phi" /\ is[1].targets # <<>>)
  BY DEF WellFormed, Fresh
<1>. QED  BY <1>1 DEF Terminated, SuccOf, MergeOf, Branches, Ends

\* an instruction is what Instr says
LEMMA InstrType ==
    ASSUME NEW op \in Ends \cup Merges \cup {"Phi"}, NEW t \in Seq(Nat)
    PROVE  Instr(op, t) \in Instruction /\ Instr(op, t).op = op /\ Instr(op, t).targets = t
BY DEF Instr, Instruction

\* a block that starts with its phi
LEMMA PhiBlock ==
    ASSUME NEW p \in Nat, NEW q \in Nat
    PROVE  LET is == <<Instr("Phi", <<p, q>>)>> IN WellFormed(is) /\ Fresh(is) /\ PhiOf(is) = <<p, q>>
<1>. DEFINE is == <<Instr("Phi", <<p, q>>)>>
<1>1. Instr("Phi", <<p, q>>) = [op |-> "Phi", targets |-> <<p, q>>] /\ <<p, q>> \in Seq(Nat)
  BY DEF Instr
<1>2. is \in Seq(Instruction) /\ Len(is) = 1 /\ is[1].op = "Phi" /\ is[1].targets = <<p, q>> /\ is # <<>>
  <2>. DEFINE i1 == Instr("Phi", <<p, q>>)
  <2>1. i1 \in Instruction /\ i1.op = "Phi" /\ i1.targets = <<p, q>>
    BY <1>1, InstrType
  <2>. HIDE DEF i1
  <2>2. is = <<i1>>
    BY DEF i1
  <2>. HIDE DEF is
  <2>. QED  BY <2>1, <2>2
<1>. HIDE DEF is
<1>3. is # <<>>
  BY <1>2
<1>4. WellFormed(is)
  BY <1>2, <1>3 DEF WellFormed, Ends, Branches, Merges
<1>. QED  BY <1>2, <1>3, <1>4 DEF Fresh, PhiOf, is

\* a branch or an end, at the end of a fresh block
LEMMA PutEnd ==
    ASSUME NEW is, WellFormed(is), Fresh(is), NEW op \in Ends, NEW t \in Seq(Nat), op = "Return" => t = <<>>
    PROVE  LET is2 == is \o <<Instr(op, t)>> IN
           /\ WellFormed(is2) /\ Terminated(is2) /\ MergeOf(is2) = <<>> /\ PhiOf(is2) = PhiOf(is)
           /\ SuccOf(is2) = IF op \in Branches THEN ToSet(t) ELSE {}
<1>. DEFINE i1 == Instr(op, t)
            is2 == is \o <<i1>>
<1>1. is \in Seq(Instruction) /\ Len(is) \in {0, 1} /\ (is # <<>> => Len(is) = 1 /\ is[1].op = "Phi" /\ is[1].targets # <<>>)
  BY FreshBlock DEF Fresh, WellFormed
<1>2. i1 \in Instruction /\ i1.op = op /\ i1.targets = t
  BY InstrType
<1>. HIDE DEF i1
<1>3. is2 \in Seq(Instruction) /\ Len(is2) = Len(is) + 1 /\ is2[Len(is2)] = i1 /\ (is # <<>> => is2[1] = is[1])
  BY <1>1, <1>2
<1>4. is2 # <<>>
  BY <1>1, <1>3
<1>. HIDE DEF is2
<1>5. op # "Phi" /\ op \notin Merges /\ "Phi" \notin Ends \cup Merges
  BY DEF Ends, Branches, Merges
<1>6. WellFormed(is2)
  <2>1. ASSUME NEW i \in 1 .. Len(is2) PROVE (i = Len(is2) /\ is2[i] = i1) \/ (i = 1 /\ is2[i].op = "Phi" /\ is2[i].targets # <<>>)
    <3>1. CASE is = <<>>
      BY <1>1, <1>3, <3>1
    <3>2. CASE is # <<>>
      <4>1. Len(is) = 1 /\ is[1].op = "Phi" /\ is[1].targets # <<>> /\ is2[1] = is[1]
        BY <1>1, <1>3, <3>2
      <4>2. Len(is2) = 2
        BY <1>3, <4>1
      <4>3. i = 1 \/ i = 2
        BY <4>2
      <4>. QED  BY <1>3, <4>1, <4>2, <4>3
    <3>. QED  BY <3>1, <3>2
  <2>2. ASSUME NEW i \in 1 .. Len(is2)
        PROVE  /\ is2[i].op \in Ends => i = Len(is2)
               /\ is2[i].op \in Merges => i = Len(is2) - 1 /\ is2[Len(is2)].op \in Branches /\ is2[i].targets # <<>>
               /\ is2[i].op = "Phi" => i = 1 /\ is2[i].targets # <<>>
               /\ is2[i].op = "Return" => is2[i].targets = <<>>
    BY <1>2, <1>5, <2>1
  <2>. QED  BY <1>3, <2>2 DEF WellFormed
<1>7. Terminated(is2) /\ SuccOf(is2) = IF op \in Branches THEN ToSet(t) ELSE {}
  BY <1>2, <1>3, <1>4 DEF Terminated, SuccOf
<1>8. MergeOf(is2) = <<>>
  <2>1. CASE Len(is2) >= 2
    <3>1. Len(is2) - 1 = 1 /\ is2[1].op = "Phi"
      <4>1. Len(is) = 1 /\ is # <<>>
        BY <1>1, <1>3, <2>1
      <4>. QED  BY <1>1, <1>3, <4>1
    <3>. QED  BY <1>5, <3>1 DEF MergeOf
  <2>. QED  BY <2>1 DEF MergeOf
<1>9. PhiOf(is2) = PhiOf(is)
  BY <1>1, <1>2, <1>3, <1>4, <1>5 DEF PhiOf
<1>. QED  BY <1>6, <1>7, <1>8, <1>9 DEF is2, i1

\* a merge instruction and a branch, at the end of a fresh block
LEMMA PutMerge ==
    ASSUME NEW is, WellFormed(is), Fresh(is), NEW mop \in Merges, NEW mt \in Seq(Nat), mt # <<>>,
           NEW op \in Branches, NEW t \in Seq(Nat)
    PROVE  LET is2 == is \o <<Instr(mop, mt), Instr(op, t)>> IN
           /\ WellFormed(is2) /\ Terminated(is2) /\ MergeOf(is2) = mt /\ PhiOf(is2) = PhiOf(is)
           /\ SuccOf(is2) = ToSet(t)
<1>. DEFINE i1 == Instr(mop, mt)
            i2 == Instr(op, t)
            is2 == is \o <<i1, i2>>
<1>1. is \in Seq(Instruction) /\ Len(is) \in {0, 1} /\ (is # <<>> => Len(is) = 1 /\ is[1].op = "Phi" /\ is[1].targets # <<>>)
  BY FreshBlock DEF Fresh, WellFormed
<1>2. i1 \in Instruction /\ i1.op = mop /\ i1.targets = mt
  BY InstrType
<1>3. i2 \in Instruction /\ i2.op = op /\ i2.targets = t
  BY InstrType DEF Ends
<1>. HIDE DEF i1, i2
<1>4. is2 \in Seq(Instruction) /\ Len(is2) = Len(is) + 2 /\ is2[Len(is2)] = i2 /\ is2[Len(is2) - 1] = i1 /\ (is # <<>> => is2[1] = is[1])
  BY <1>1, <1>2, <1>3
<1>5. is2 # <<>>
  BY <1>1, <1>4
<1>. HIDE DEF is2
<1>6. op # "Phi" /\ op \notin Merges /\ op \in Ends /\ op # "Return" /\ mop # "Return" /\ mop # "Phi" /\ mop \notin Ends /\ mop \notin Branches /\ "Phi" \notin Ends \cup Merges
  BY DEF Ends, Branches, Merges
<1>7. WellFormed(is2)
  <2>1. ASSUME NEW i \in 1 .. Len(is2)
        PROVE  \/ i = Len(is2) /\ is2[i] = i2
               \/ i = Len(is2) - 1 /\ is2[i] = i1
               \/ i = 1 /\ is2[i].op = "Phi" /\ is2[i].targets # <<>>
    <3>1. CASE is = <<>>
      BY <1>1, <1>4, <3>1
    <3>2. CASE is # <<>>
      <4>1. Len(is) = 1 /\ is[1].op = "Phi" /\ is[1].targets # <<>> /\ is2[1] = is[1]
        BY <1>1, <1>4, <3>2
      <4>2. Len(is2) = 3
        BY <1>4, <4>1
      <4>3. i = 1 \/ i = 2 \/ i = 3
        BY <4>2
      <4>4. is2[3] = i2 /\ is2[2] = i1
        <5>1. Len(is2) - 1 = 2
          BY <4>2
        <5>. QED  BY <1>4, <4>2, <5>1, Zenon
      <4>. QED  BY <4>1, <4>2, <4>3, <4>4
    <3>. QED  BY <3>1, <3>2
  <2>2. ASSUME NEW i \in 1 .. Len(is2)
        PROVE  /\ is2[i].op \in Ends => i = Len(is2)
               /\ is2[i].op \in Merges => i = Len(is2) - 1 /\ is2[Len(is2)].op \in Branches /\ is2[i].targets # <<>>
               /\ is2[i].op = "Phi" => i = 1 /\ is2[i].targets # <<>>
               /\ is2[i].op = "Return" => is2[i].targets = <<>>
    <3>1. CASE i = Len(is2) /\ is2[i] = i2
      BY <1>3, <1>6, <3>1
    <3>2. CASE i = Len(is2) - 1 /\ is2[i] = i1
      BY <1>2, <1>3, <1>4, <1>6, <3>2
    <3>3. CASE i = 1 /\ is2[i].op = "Phi" /\ is2[i].targets # <<>>
      BY <1>6, <3>3
    <3>. QED  BY <2>1, <3>1, <3>2, <3>3
  <2>. QED  BY <1>4, <2>2 DEF WellFormed
<1>8. Terminated(is2) /\ SuccOf(is2) = ToSet(t)
  BY <1>3, <1>4, <1>5, <1>6 DEF Terminated, SuccOf
<1>9. MergeOf(is2) = mt
  BY <1>1, <1>2, <1>4, <1>6 DEF MergeOf
<1>10. PhiOf(is2) = PhiOf(is)
  BY <1>1, <1>2, <1>4, <1>5, <1>6 DEF PhiOf
<1>. QED  BY <1>7, <1>8, <1>9, <1>10 DEF is2, i1, i2

\* the members of the lists of targets that are built
LEMMA ToSetOf ==
    /\ \A x : ToSet(<<x>>) = {x}
    /\ \A x, y : ToSet(<<x, y>>) = {x, y}
    /\ ToSet(<<>>) = {}
BY DEF ToSet

\* makeNewBlock: the blocks made are empty, the others stay
LEMMA MadeFacts ==
    ASSUME code \in Seq(Seq(Instruction)), NEW k \in Nat
    PROVE  /\ Made(k) \in Seq(Seq(Instruction)) /\ Len(Made(k)) = Len(code) + k
           /\ \A b \in 1 .. Len(code) + k : Made(k)[b] = IF b <= Len(code) THEN code[b] ELSE <<>>
<1>. DEFINE more == [i \in 1 .. k |-> <<>>]
<1>1. <<>> \in Seq(Instruction)
  OBVIOUS
<1>2. more \in Seq(Seq(Instruction)) /\ Len(more) = k /\ \A i \in 1 .. k : more[i] = <<>>
  BY <1>1
<1>3. Made(k) = code \o more
  BY DEF Made
<1>. HIDE DEF more
<1>4. Made(k) \in Seq(Seq(Instruction)) /\ Len(Made(k)) = Len(code) + k
  BY <1>2, <1>3, ConcatProperties
<1>5. ASSUME NEW b \in 1 .. Len(code) + k PROVE Made(k)[b] = IF b <= Len(code) THEN code[b] ELSE <<>>
  <2>1. CASE b <= Len(code)
    BY <1>2, <1>3, <2>1
  <2>2. CASE ~(b <= Len(code))
    <3>1. b - Len(code) \in 1 .. k
      BY <2>2
    <3>2. Made(k)[b] = more[b - Len(code)]
      BY <1>2, <1>3, <2>2
    <3>. QED  BY <1>2, <2>2, <3>1, <3>2
  <2>. QED  BY <2>1, <2>2
<1>. QED  BY <1>4, <1>5

\* addInstruction: only the block it is added to changes
LEMMA PutFacts ==
    ASSUME NEW c \in Seq(Seq(Instruction)), NEW b \in 1 .. Len(c), NEW is \in Seq(Instruction)
    PROVE  /\ Put(c, b, is) \in Seq(Seq(Instruction)) /\ Len(Put(c, b, is)) = Len(c)
           /\ \A d \in 1 .. Len(c) : Put(c, b, is)[d] = IF d = b THEN c[d] \o is ELSE c[d]
<1>1. c[b] \o is \in Seq(Instruction)
  <2>1. c[b] \in Seq(Instruction)
    BY ElementOfSeq
  <2>. QED  BY <2>1
<1>2. Put(c, b, is) = [c EXCEPT ![b] = c[b] \o is]
  BY DEF Put
<1>. QED  BY <1>1, <1>2

-----------------------------------------------------------------------------
(* The constructs being built.  A frame of nest has its header and merge   *)
(* block; the blocks made for it are numbered from First(f) on; those of   *)
(* Await(f) are empty until the traverser comes to them, and those of      *)
(* Entries(f) are entered from the header or, the body of a tested loop,   *)
(* from the test, when that is written.                                    *)

IfFrame     == [kind : {"if", "and"}, place : {"then", "else"}, header : Nat, then : Nat, else : Nat, merge : Nat]
SwitchFrame == [kind : {"switch"}, place : {"head", "segment", "empty"}, header : Nat, first : Nat,
                count : Nat, next : Nat \ {0}, lastEmpty : BOOLEAN, merge : Nat]
LoopFrame   == [kind : {"loop"}, place : {"test", "body", "terminal"}, head : Nat, body : Nat, merge : Nat,
                continue_target : Nat, testFirst : BOOLEAN]
Frame       == IfFrame \cup SwitchFrame \cup LoopFrame

IsIf(f) == f.kind \in {"if", "and"}

Header(f) == IF f.kind = "loop" THEN f.head ELSE f.header
First(f)  == IF f.kind = "loop" THEN f.body ELSE IF f.kind = "switch" THEN f.first ELSE f.then
Cont(f)   == IF f.kind = "loop" THEN f.continue_target ELSE 0
Region(n, f) == (First(f) .. n) \ {f.merge}
Terminal(f)  == f.place = "terminal"

\* segments of a switch that are still to come
Segments(f) == (f.first + f.next - 1) .. (f.first + f.count - 1)
Await(f) ==
    {f.merge} \cup
    IF f.kind = "switch" THEN Segments(f)
    ELSE IF f.place = "test" THEN {f.body, f.continue_target}
    ELSE IF f.place = "body" THEN {f.continue_target} ELSE {}
Entries(f) ==
    IF f.kind = "switch" THEN Segments(f)
    ELSE IF f.place = "test" THEN {f.body}
    ELSE IF f.kind = "loop" THEN {} ELSE {f.then, f.else} \ {0}
Names(f) ==
    {Header(f), f.merge} \cup
    IF f.kind = "switch" THEN f.first .. (f.first + f.count - 1)
    ELSE IF f.kind = "loop" THEN {f.body, f.continue_target} ELSE {f.then, f.else} \ {0}
\* blocks that the function does not own yet
Pending(f) == IF f.kind = "loop" THEN {} ELSE IF f.kind = "switch" THEN {f.merge} \cup Segments(f) ELSE {f.merge}

FrameOK(f) ==
    /\ f \in Frame /\ Header(f) # 0
    /\ IsIf(f) => /\ f.header < f.then /\ f.merge = f.then + 1 /\ (f.else # 0 => f.else > f.merge)
                  /\ f.else # 0 <=> f.place = "else"
                  /\ f.kind = "and" => f.else = 0
    /\ f.kind = "switch" => /\ f.header < f.first /\ f.merge = f.first + f.count /\ f.next \in 1 .. f.count + 1
                            /\ f.next = 1 <=> f.place = "head"
                            /\ f.place = "empty" => f.next = f.count + 1
    /\ f.kind = "loop" => f.body = f.head + 1 /\ f.merge = f.head + 2 /\ f.continue_target = f.head + 3

\* what the names of a frame's blocks are to each other
LEMMA FrameFacts ==
    ASSUME NEW f, FrameOK(f)
    PROVE  /\ Header(f) \in Nat \ {0} /\ First(f) \in Nat /\ f.merge \in Nat /\ Cont(f) \in Nat
           /\ Header(f) < First(f) /\ First(f) <= f.merge /\ f.merge # Cont(f)
           /\ Await(f) \subseteq Names(f) /\ Entries(f) \subseteq Names(f) /\ Header(f) \notin Await(f) \cup Entries(f)
           /\ Cont(f) # 0 => Cont(f) \in Names(f) /\ Cont(f) # Header(f) /\ Cont(f) >= First(f)
           /\ f.merge \in Await(f) /\ f.merge \notin Entries(f) /\ Cont(f) \notin Entries(f)
           /\ Names(f) \subseteq Nat \ {0} /\ Header(f) \in Names(f) /\ Pending(f) \subseteq Await(f)
           /\ \A b \in Names(f) : b = Header(f) \/ b >= First(f)
           /\ f.kind \in {"if", "and", "switch", "loop"} /\ (Terminal(f) => f.kind = "loop")
<1>. USE DEF FrameOK, IsIf, Header, First, Cont, Terminal, Names, Await, Entries, Pending, Segments
<1>1. CASE f \in IfFrame
  <2>1. f.kind \in {"if", "and"} /\ f.kind # "loop" /\ f.kind # "switch" /\ f.place \in {"then", "else"}
        /\ f.header \in Nat /\ f.then \in Nat /\ f.else \in Nat /\ f.merge \in Nat
    BY <1>1 DEF IfFrame
  <2>. QED  BY <2>1
<1>2. CASE f \in SwitchFrame
  <2>1. f.kind = "switch" /\ f.place \in {"head", "segment", "empty"}
        /\ f.header \in Nat /\ f.first \in Nat /\ f.count \in Nat /\ f.next \in Nat /\ f.merge \in Nat
    BY <1>2 DEF SwitchFrame
  <2>. QED  BY <2>1
<1>3. CASE f \in LoopFrame
  <2>1. f.kind = "loop" /\ f.place \in {"test", "body", "terminal"}
        /\ f.head \in Nat /\ f.body \in Nat /\ f.merge \in Nat /\ f.continue_target \in Nat
    BY <1>3 DEF LoopFrame
  <2>. QED  BY <2>1
<1>. QED  BY <1>1, <1>2, <1>3 DEF Frame

-----------------------------------------------------------------------------
\* What holds of the function and its graph g while it is built: c is code, ns nest, bp buildPoint

Unowned(g, b) == \A h \in 1 .. g.n : g.mrg[h] # b /\ g.cnt[h] # b
NoPredecessor(g, b) == \A p \in 1 .. g.n : b \notin g.succ[p]
Dead(g, b) == b # 1 /\ NoPredecessor(g, b) /\ Unowned(g, b)

\* the graph is that of the code; the header of a selection being built has no instruction yet
Matches(g, c, ns) ==
    /\ c \in Seq(Seq(Instruction)) /\ g.n = Len(c)
    /\ \A b \in 1 .. g.n :
        /\ WellFormed(c[b]) /\ g.succ[b] = SuccOf(c[b])
        /\ IF MergeOf(c[b]) = <<>>
           THEN g.cnt[b] = 0 /\ (g.mrg[b] = 0 \/ \E i \in DOMAIN ns : IsIf(ns[i]) /\ ns[i].header = b)
           ELSE g.mrg[b] # 0 /\ MergeOf(c[b]) = IF g.cnt[b] = 0 THEN <<g.mrg[b]>> ELSE <<g.mrg[b], g.cnt[b]>>

FrameInv(g, c, f) ==
    /\ Names(f) \subseteq 1 .. g.n
    /\ \A b \in Await(f) : c[b] = <<>>
    /\ IsIf(f) => Fresh(c[f.header])
    /\ g.mrg[Header(f)] = f.merge /\ g.cnt[Header(f)] = Cont(f) /\ g.region[Header(f)] = Region(g.n, f)
    /\ \A b \in Entries(f) : Unowned(g, b) /\ \A p \in 1 .. g.n : b \in g.succ[p] => f.kind = "switch" /\ p = f.header
    /\ f.kind = "switch" => Segments(f) \subseteq g.succ[f.header]
    /\ f.kind = "and" => NoPredecessor(g, f.merge)
    /\ f.kind = "loop" => /\ Unowned(g, f.head)
                          /\ IF Terminal(f) THEN g.tail[f.head] <= g.n /\ \A b \in Names(f) : b <= g.tail[f.head]
                             ELSE g.tail[f.head] = MaxBlocks

\* a block that the frame holds, as the header of a construct inside of it is, or the build point
Point(g, f, b) == b \in Region(g.n, f) \ Await(f) /\ (Terminal(f) => b > g.tail[f.head] \/ b = f.continue_target)

Within(g, e, f) ==
    /\ \A b \in Names(e) : b < First(f) /\ (f.kind = "loop" => b < f.head)
    /\ Point(g, e, Header(f))
    /\ Terminal(e) => First(f) > g.tail[e.head]
    /\ e.place \in {"test", "terminal"} \/ e.kind = "and" => IsIf(f)
    /\ e.place \notin {"head", "empty"}

At(g, c, ns, bp) ==
    /\ bp \in 1 .. g.n
    /\ \A i \in DOMAIN ns : IF ns[i].place = "head" THEN i = Len(ns) /\ bp = ns[i].header /\ Terminated(c[bp])
                            ELSE Point(g, ns[i], bp)
    /\ (\A i \in DOMAIN ns : ns[i].place # "head") => Fresh(c[bp])

\* nothing that is built now belongs to a construct left behind
Closed(g, ns, bp) ==
    \A h \in 1 .. g.n :
        g.mrg[h] # 0 => \/ \E i \in DOMAIN ns : h = Header(ns[i])
                        \/ bp \notin g.region[h] /\ \A i \in DOMAIN ns : Names(ns[i]) \cap g.region[h] = {}

\* a block has its end, or will be given one
Covered(c, ns, bp, b) ==
    \/ Terminated(c[b]) \/ b = bp
    \/ \E i \in DOMAIN ns : b \in Await(ns[i]) \/ (IsIf(ns[i]) /\ b = ns[i].header)
LiveInv(g, c, ns, bp) ==
    /\ \A b \in 1 .. g.n : Covered(c, ns, bp, b) \/ Dead(g, b)
    /\ \A i \in DOMAIN ns : IsIf(ns[i]) => \A b \in Entries(ns[i]) : Covered(c, ns, bp, b)

\* every set closed under branches and merges that holds a holds b
FlowClosed(g, S) ==
    \A p \in S : g.succ[p] \subseteq S /\ (g.mrg[p] # 0 => g.mrg[p] \in S) /\ (g.cnt[p] # 0 => g.cnt[p] \in S)
Flow(g, a, b) == \A S \in SUBSET (1 .. g.n) : FlowClosed(g, S) /\ a \in S => b \in S

Joins(g, c, b, t) ==
    /\ Len(t) = 2 /\ t[1] \in 1 .. g.n /\ t[2] \in 1 .. g.n
    /\ \A p \in 1 .. g.n : b \in g.succ[p] <=> p \in {t[1], t[2]}
    /\ MergeOf(c[t[1]]) = <<b>> /\ Flow(g, t[1], t[2])
PhiInv(g, c) == \A b \in 1 .. g.n : PhiOf(c[b]) # <<>> => Joins(g, c, b, PhiOf(c[b]))
OperandInv(g, ns, bp) ==
    \A i \in DOMAIN ns : ns[i].kind = "and" => Flow(g, ns[i].then, IF i = Len(ns) THEN bp ELSE Header(ns[i + 1]))

Built(g, c, ns, bp) ==
    /\ Structured(g) /\ Matches(g, c, ns) /\ ns \in Seq(Frame) /\ g.n <= MaxBlocks
    /\ \A i \in DOMAIN ns : FrameOK(ns[i]) /\ FrameInv(g, c, ns[i])
    /\ \A i, j \in DOMAIN ns : i < j => Within(g, ns[i], ns[j])
    /\ At(g, c, ns, bp) /\ Closed(g, ns, bp) /\ LiveInv(g, c, ns, bp)
    /\ PhiInv(g, c) /\ OperandInv(g, ns, bp)

Finished(g, c) ==
    /\ Structured(g) /\ Matches(g, c, <<>>)
    /\ \A b \in 1 .. g.n : Terminated(c[b]) \/ Dead(g, b)
    /\ PhiInv(g, c)

-----------------------------------------------------------------------------
(* The graph after a step of the builder: the blocks made belong to the    *)
(* constructs H, and a construct with header h0 may have been opened; the  *)
(* body of the loop at k0 may have ended.                                  *)

Grown(g, g2, c2, H, h0, m0, c0, R0, k0) ==
    /\ g2.n = Len(c2)
    /\ \A h \in 1 .. g2.n :
        /\ g2.succ[h] = SuccOf(c2[h])
        /\ g2.mrg[h] = IF h = h0 THEN m0 ELSE IF h <= g.n THEN g.mrg[h] ELSE 0
        /\ g2.cnt[h] = IF h = h0 THEN c0 ELSE IF h <= g.n THEN g.cnt[h] ELSE 0
        /\ g2.region[h] = IF h = h0 THEN R0 ELSE IF h \in H THEN g.region[h] \cup (g.n + 1 .. g2.n)
                          ELSE IF h <= g.n THEN g.region[h] ELSE {}
        /\ g2.tail[h] = IF h = k0 THEN g.n ELSE IF h <= g.n THEN g.tail[h] ELSE MaxBlocks

Opening(g, n2, H, h0, m0, c0, R0) ==
    \/ h0 = 0
    \/ /\ h0 \in 1 .. n2 /\ (h0 <= g.n => g.mrg[h0] = 0 /\ g.succ[h0] = {} /\ \A h \in H : h0 \in g.region[h])
       /\ m0 \in g.n + 1 .. n2 /\ m0 \notin R0 \cup {h0} /\ R0 \subseteq g.n + 1 .. n2 /\ h0 \notin R0
       /\ c0 = 0 \/ c0 \in R0

\* there is a graph of the code c2, if the edges of g are still there
LEMMA Grow ==
    ASSUME NEW g, Structured(g), NEW c2, Len(c2) \in Nat, g.n <= Len(c2),
           \A b \in 1 .. Len(c2) : SuccOf(c2[b]) \subseteq 1 .. Len(c2),
           \A p \in 1 .. g.n : g.succ[p] \subseteq SuccOf(c2[p]),
           NEW H, H \subseteq 1 .. g.n, \A h \in H : g.mrg[h] # 0,
           NEW h0, NEW m0, NEW c0, NEW R0, Opening(g, Len(c2), H, h0, m0, c0, R0),
           NEW k0, k0 # 0 => k0 \in 1 .. g.n /\ g.tail[k0] >= g.n
    PROVE  \E g2 : Grown(g, g2, c2, H, h0, m0, c0, R0, k0) /\ Extends(g, g2, h0)
<1>. DEFINE n2 == Len(c2)
            S2 == [h \in 1 .. n2 |-> SuccOf(c2[h])]
            M2 == [h \in 1 .. n2 |-> IF h = h0 THEN m0 ELSE IF h <= g.n THEN g.mrg[h] ELSE 0]
            C2 == [h \in 1 .. n2 |-> IF h = h0 THEN c0 ELSE IF h <= g.n THEN g.cnt[h] ELSE 0]
            Q2 == [h \in 1 .. n2 |-> IF h = h0 THEN R0 ELSE IF h \in H THEN g.region[h] \cup (g.n + 1 .. n2)
                                     ELSE IF h <= g.n THEN g.region[h] ELSE {}]
            T2 == [h \in 1 .. n2 |-> IF h = k0 THEN g.n ELSE IF h <= g.n THEN g.tail[h] ELSE MaxBlocks]
            g2 == [n |-> n2, succ |-> S2, mrg |-> M2, cnt |-> C2, region |-> Q2, tail |-> T2]
<1>1. g2.n = n2 /\ g2.succ = S2 /\ g2.mrg = M2 /\ g2.cnt = C2 /\ g2.region = Q2 /\ g2.tail = T2
  OBVIOUS
<1>2. g.n \in Nat \ {0} /\ MaxBlocks \in Nat /\ n2 \in Nat \ {0} /\ g.n <= n2
  BY StructuredFlowAssumption DEF Structured, Typed
<1>3. \A h \in 1 .. g.n : /\ g.mrg[h] \in 0 .. g.n /\ g.cnt[h] \in 0 .. g.n /\ g.region[h] \subseteq 2 .. g.n /\ g.tail[h] \in Nat
                          /\ g.succ[h] \subseteq 1 .. g.n /\ (g.mrg[h] = 0 => g.region[h] = {})
  BY ConstructFacts
<1>4. /\ h0 \in 1 .. n2 => m0 \in g.n + 1 .. n2 /\ c0 \in 0 .. n2 /\ R0 \subseteq g.n + 1 .. n2
  BY <1>2 DEF Opening
<1>5. ASSUME NEW h \in 1 .. n2
      PROVE  /\ S2[h] \in SUBSET (1 .. n2) /\ M2[h] \in 0 .. n2 /\ C2[h] \in 0 .. n2
             /\ Q2[h] \in SUBSET (2 .. n2) /\ T2[h] \in Nat
  <2>1. h <= g.n => h \in 1 .. g.n
    BY <1>2
  <2>2. M2[h] \in 0 .. n2 /\ C2[h] \in 0 .. n2
    BY <1>2, <1>3, <1>4, <2>1
  <2>3. Q2[h] \in SUBSET (2 .. n2)
    <3>1. h \in H => h <= g.n
      BY <1>2
    <3>2. g.n + 1 .. n2 \subseteq 2 .. n2 /\ 2 .. g.n \subseteq 2 .. n2
      BY <1>2
    <3>. QED  BY <1>3, <1>4, <2>1, <3>1, <3>2
  <2>. QED  BY <1>2, <1>3, <2>1, <2>2, <2>3
<1>. HIDE DEF S2, M2, C2, Q2, T2, g2
<1>6. Typed(g2)
  <2>1. S2 = [h \in 1 .. n2 |-> S2[h]] /\ M2 = [h \in 1 .. n2 |-> M2[h]] /\ C2 = [h \in 1 .. n2 |-> C2[h]]
        /\ Q2 = [h \in 1 .. n2 |-> Q2[h]] /\ T2 = [h \in 1 .. n2 |-> T2[h]]
    BY DEF S2, M2, C2, Q2, T2
  <2>2. S2 \in [1 .. n2 -> SUBSET (1 .. n2)]
    BY <1>5, <2>1, Zenon
  <2>3. M2 \in [1 .. n2 -> 0 .. n2]
    BY <1>5, <2>1, Zenon
  <2>4. C2 \in [1 .. n2 -> 0 .. n2]
    BY <1>5, <2>1, Zenon
  <2>5. Q2 \in [1 .. n2 -> SUBSET (2 .. n2)]
    BY <1>5, <2>1, Zenon
  <2>6. T2 \in [1 .. n2 -> Nat]
    BY <1>5, <2>1, Zenon
  <2>. HIDE DEF n2
  <2>. QED  BY <1>1, <1>2, <2>2, <2>3, <2>4, <2>5, <2>6, Zenon DEF Typed
<1>7. Grown(g, g2, c2, H, h0, m0, c0, R0, k0)
  BY <1>1 DEF Grown, S2, M2, C2, Q2, T2
<1>8. ASSUME NEW h \in 1 .. n2, h # h0, h <= g.n PROVE Kept(g, g2, h)
  <2>1. h \in 1 .. g.n
    BY <1>2, <1>8
  <2>2. g2.mrg[h] = g.mrg[h] /\ g2.cnt[h] = g.cnt[h]
        /\ g2.region[h] = (IF h \in H THEN g.region[h] \cup (g.n + 1 .. n2) ELSE g.region[h])
        /\ g2.tail[h] = IF h = k0 THEN g.n ELSE g.tail[h]
    BY <1>1, <1>8 DEF M2, C2, Q2, T2
  <2>3. \A b \in 1 .. g.n : b \notin g.n + 1 .. n2
    BY <1>2
  <2>4. ASSUME NEW b \in 1 .. g.n, h = k0 PROVE ~(b > g2.tail[h]) /\ ~(b > g.tail[h])
    BY <1>2, <1>3, <2>1, <2>2, <2>4
  <2>. QED  BY <1>3, <2>1, <2>2, <2>3, <2>4 DEF Kept
<1>9. ASSUME NEW h \in 1 .. n2, h # h0, ~(h <= g.n) PROVE Plain(g2, h)
  <2>1. h \notin H
    BY <1>2, <1>9
  <2>. QED  BY <1>1, <1>9, <2>1 DEF Plain, M2, C2, Q2
<1>10. ASSUME h0 \in 1 .. n2 PROVE Opened(g, g2, h0)
  <2>1. g2.mrg[h0] = m0 /\ g2.cnt[h0] = c0 /\ g2.region[h0] = R0
    BY <1>1, <1>10 DEF M2, C2, Q2
  <2>2. /\ h0 <= g.n => g.mrg[h0] = 0 /\ g.succ[h0] = {} /\ \A h \in H : h0 \in g.region[h]
        /\ m0 \in g.n + 1 .. n2 /\ m0 \notin R0 \cup {h0} /\ R0 \subseteq g.n + 1 .. n2 /\ h0 \notin R0
        /\ c0 = 0 \/ c0 \in R0
    BY <1>2, <1>10 DEF Opening
  <2>3. ASSUME NEW h \in 1 .. n2, m0 \in g2.region[h] \/ c0 \in g2.region[h], h # h0 PROVE h0 \in g2.region[h]
    <3>1. c0 # 0 => c0 \in g.n + 1 .. n2
      BY <2>2
    <3>2. 0 \notin g2.region[h]
      BY <1>1, <1>2, <1>5, <2>3
    <3>3. h \in H
      <4>1. SUFFICES ASSUME h \notin H PROVE FALSE
        OBVIOUS
      <4>2. h <= g.n => g2.region[h] \subseteq 2 .. g.n
        BY <1>1, <1>2, <1>3, <2>3, <4>1 DEF Q2
      <4>3. ~(h <= g.n) => g2.region[h] = {}
        BY <1>1, <2>3, <4>1 DEF Q2
      <4>. QED  BY <1>2, <2>2, <2>3, <3>1, <3>2, <4>2, <4>3, SMTT(40)
    <3>4. g2.region[h] = g.region[h] \cup (g.n + 1 .. n2)
      BY <1>1, <2>3, <3>3 DEF Q2
    <3>. QED  BY <1>2, <1>10, <2>2, <3>3, <3>4
  <2>4. \A b \in R0 : b > g.n
    BY <1>2, <2>2
  <2>5. m0 > g.n /\ \A h \in 1 .. n2 : m0 \in g2.region[h] \/ c0 \in g2.region[h] => h0 \in g2.region[h] \cup {h}
    BY <1>2, <2>2, <2>3
  <2>. QED  BY <1>1, <2>1, <2>2, <2>4, <2>5 DEF Opened
<1>11. Extends(g, g2, h0)
  <2>1. \A h \in 1 .. g2.n : IF h = h0 THEN Opened(g, g2, h0) ELSE IF h <= g.n THEN Kept(g, g2, h) ELSE Plain(g2, h)
    BY <1>1, <1>8, <1>9, <1>10
  <2>2. \A p \in 1 .. g.n : g.succ[p] \subseteq g2.succ[p]
    BY <1>1, <1>2 DEF S2
  <2>. QED  BY <1>1, <1>2, <1>6, <2>1, <2>2 DEF Extends
<1>. QED  BY <1>7, <1>11

-----------------------------------------------------------------------------
(* Branches among the constructs fs being built.  A block belongs to the   *)
(* first of them, up to its level: the build point to all, a merge block   *)
(* to those around its construct.                                          *)

PlaceIn(g, f, p) ==
    /\ p \in Region(g.n, f)
    /\ f.kind = "loop" => IF Terminal(f) THEN p > g.tail[f.head] \/ p = f.continue_target ELSE p # f.continue_target

Inside2(g, e, f) ==
    /\ \A b \in Names(e) : b < First(f) /\ (f.kind = "loop" => b < f.head)
    /\ PlaceIn(g, e, Header(f))
    /\ Terminal(e) => First(f) > g.tail[e.head]

Shape(g, fs) ==
    /\ Typed(g) /\ Constructs(g) /\ OneOwner(g) /\ fs \in Seq(Frame)
    /\ \A i \in DOMAIN fs :
        /\ FrameOK(fs[i]) /\ Names(fs[i]) \subseteq 1 .. g.n
        /\ g.mrg[Header(fs[i])] = fs[i].merge /\ g.cnt[Header(fs[i])] = Cont(fs[i])
        /\ g.region[Header(fs[i])] = Region(g.n, fs[i])
        /\ fs[i].kind = "loop" => Unowned(g, fs[i].head) /\ (~Terminal(fs[i]) => TailOf(g, fs[i].head) = {})
    /\ \A i, j \in DOMAIN fs : i < j => Inside2(g, fs[i], fs[j])
    /\ \A h \in 1 .. g.n : g.mrg[h] # 0 => \/ \E i \in DOMAIN fs : h = Header(fs[i])
                                           \/ \A i \in DOMAIN fs : Names(fs[i]) \cap g.region[h] = {}

Source(g, fs, p) ==
    /\ p \in 1 .. g.n
    /\ \A j \in DOMAIN fs : PlaceIn(g, fs[j], p) \/ (j = Len(fs) /\ p = Header(fs[j]) /\ ~Terminal(fs[j]))
    /\ \A h \in 1 .. g.n : g.mrg[h] # 0 /\ p \in g.region[h] \cup {h} => \E i \in DOMAIN fs : h = Header(fs[i])

Level(g, fs, l, b) ==
    /\ b \in 1 .. g.n /\ l \in 0 .. Len(fs)
    /\ \A h \in 1 .. g.n : g.mrg[h] # 0 => (b \in g.region[h] <=> \E j \in 1 .. l : h = Header(fs[j]))

\* what a frame and its construct in the graph have to do with each other
LEMMA ShapeFacts ==
    ASSUME NEW g, NEW fs, Shape(g, fs), NEW i \in DOMAIN fs
    PROVE  /\ i \in 1 .. Len(fs) /\ Len(fs) \in Nat /\ g.n \in Nat \ {0} /\ DOMAIN fs = 1 .. Len(fs)
           /\ FrameOK(fs[i]) /\ Header(fs[i]) \in 1 .. g.n /\ fs[i].merge \in 1 .. g.n /\ Names(fs[i]) \subseteq 1 .. g.n
           /\ g.mrg[Header(fs[i])] = fs[i].merge /\ g.mrg[Header(fs[i])] # 0 /\ g.cnt[Header(fs[i])] = Cont(fs[i])
           /\ g.region[Header(fs[i])] = Region(g.n, fs[i]) /\ First(fs[i]) \in Nat
           /\ g.region[Header(fs[i])] \subseteq 2 .. g.n /\ g.tail[Header(fs[i])] \in Nat
           /\ fs[i].kind = "loop" => Header(fs[i]) = fs[i].head /\ Cont(fs[i]) = fs[i].continue_target
           /\ Cont(fs[i]) # 0 => fs[i].kind = "loop"
<1>1. FrameOK(fs[i]) /\ Names(fs[i]) \subseteq 1 .. g.n /\ g.n \in Nat \ {0} /\ fs \in Seq(Frame)
  BY DEF Shape, Typed
<1>2. Header(fs[i]) \in 1 .. g.n /\ fs[i].merge \in 1 .. g.n /\ fs[i].merge # 0 /\ First(fs[i]) \in Nat
  BY <1>1, FrameFacts
<1>3. g.mrg[Header(fs[i])] = fs[i].merge /\ g.cnt[Header(fs[i])] = Cont(fs[i]) /\ g.region[Header(fs[i])] = Region(g.n, fs[i])
  BY DEF Shape
<1>4. g.region[Header(fs[i])] \in SUBSET (2 .. g.n) /\ g.tail[Header(fs[i])] \in Nat
  BY <1>2 DEF Shape, Typed
<1>5. i \in 1 .. Len(fs) /\ Len(fs) \in Nat /\ DOMAIN fs = 1 .. Len(fs)
  BY <1>1
<1>6. /\ fs[i].kind = "loop" => Header(fs[i]) = fs[i].head /\ Cont(fs[i]) = fs[i].continue_target
      /\ Cont(fs[i]) # 0 => fs[i].kind = "loop"
  BY DEF Header, Cont
<1>. QED  BY <1>1, <1>2, <1>3, <1>4, <1>5, <1>6

\* two frames are of different constructs
LEMMA HeadersIncrease ==
    ASSUME NEW g, NEW fs, Shape(g, fs), NEW i \in DOMAIN fs, NEW j \in DOMAIN fs, Header(fs[i]) = Header(fs[j])
    PROVE  i = j
<1>1. ASSUME NEW k \in DOMAIN fs, NEW l \in DOMAIN fs, k < l PROVE Header(fs[k]) < Header(fs[l])
  <2>1. Inside2(g, fs[k], fs[l])
    BY <1>1 DEF Shape
  <2>2. Header(fs[l]) >= First(fs[k])
    BY <2>1, ShapeFacts DEF Inside2, PlaceIn, Region
  <2>3. Header(fs[k]) < First(fs[k]) /\ Header(fs[k]) \in Nat /\ First(fs[k]) \in Nat /\ Header(fs[l]) \in Nat
    BY ShapeFacts, FrameFacts
  <2>. QED  BY <2>2, <2>3
<1>2. i \in Nat /\ j \in Nat
  BY ShapeFacts
<1>3. CASE i < j
  BY <1>1, <1>3, ShapeFacts
<1>4. CASE j < i
  BY <1>1, <1>4, ShapeFacts
<1>. QED  BY <1>2, <1>3, <1>4

\* the level of the blocks a frame names
LEMMA NamesLevel ==
    ASSUME NEW g, NEW fs, Shape(g, fs), NEW i \in DOMAIN fs, NEW b \in Names(fs[i])
    PROVE  /\ b \in {Header(fs[i]), fs[i].merge} => Level(g, fs, i - 1, b)
           /\ b \notin {Header(fs[i]), fs[i].merge} => Level(g, fs, i, b)
<1>. DEFINE l == IF b \in {Header(fs[i]), fs[i].merge} THEN i - 1 ELSE i
<1>1. i \in 1 .. Len(fs) /\ Len(fs) \in Nat /\ DOMAIN fs = 1 .. Len(fs) /\ g.n \in Nat \ {0} /\ FrameOK(fs[i]) /\ b \in 1 .. g.n
  BY ShapeFacts
<1>2. ASSUME NEW j \in DOMAIN fs PROVE b \in g.region[Header(fs[j])] <=> j <= l
  <2>1. j \in 1 .. Len(fs) /\ g.region[Header(fs[j])] = Region(g.n, fs[j]) /\ First(fs[j]) \in Nat /\ FrameOK(fs[j])
    BY ShapeFacts
  <2>2. CASE j = i
    <3>1. Header(fs[i]) < First(fs[i]) /\ First(fs[i]) <= fs[i].merge /\ Header(fs[i]) \in Nat /\ fs[i].merge \in Nat
          /\ (b = Header(fs[i]) \/ b >= First(fs[i]))
      BY <1>1, FrameFacts
    <3>. QED  BY <1>1, <2>1, <2>2, <3>1 DEF Region
  <2>3. CASE j < i
    <3>1. Inside2(g, fs[j], fs[i])
      BY <2>3 DEF Shape
    <3>2. fs[j].merge < First(fs[i]) /\ First(fs[j]) <= fs[j].merge /\ fs[j].merge \in Nat /\ First(fs[i]) \in Nat
      <4>1. fs[j].merge \in Names(fs[j]) /\ First(fs[j]) <= fs[j].merge /\ fs[j].merge \in Nat
        BY <2>1, FrameFacts
      <4>2. First(fs[i]) \in Nat
        BY <1>1, FrameFacts
      <4>. QED  BY <3>1, <4>1, <4>2 DEF Inside2
    <3>3. Header(fs[i]) \in Region(g.n, fs[j])
      BY <3>1 DEF Inside2, PlaceIn
    <3>4. b = Header(fs[i]) \/ b >= First(fs[i])
      BY <1>1, FrameFacts
    <3>5. b \in Region(g.n, fs[j])
      BY <1>1, <2>1, <3>2, <3>3, <3>4 DEF Region
    <3>. QED  BY <1>1, <2>1, <2>3, <3>5
  <2>4. CASE i < j
    <3>1. Inside2(g, fs[i], fs[j])
      BY <2>4 DEF Shape
    <3>2. b < First(fs[j])
      BY <3>1 DEF Inside2
    <3>. QED  BY <1>1, <2>1, <2>4, <3>2 DEF Region
  <2>. QED  BY <1>1, <2>1, <2>2, <2>3, <2>4
<1>3. l \in 0 .. Len(fs) /\ 1 .. l \subseteq DOMAIN fs
  BY <1>1
<1>. HIDE DEF l
<1>4. ASSUME NEW h \in 1 .. g.n, g.mrg[h] # 0
      PROVE  b \in g.region[h] <=> \E j \in 1 .. l : h = Header(fs[j])
  <2>1. CASE \E j \in DOMAIN fs : h = Header(fs[j])
    <3>1. PICK j \in DOMAIN fs : h = Header(fs[j])
      BY <2>1
    <3>2. \A k \in 1 .. l : h = Header(fs[k]) => k = j
      BY <1>3, <3>1, HeadersIncrease
    <3>3. j \in 1 .. Len(fs)
      BY <1>1
    <3>. QED  BY <1>2, <1>3, <3>1, <3>2, <3>3
  <2>2. CASE ~ \E j \in DOMAIN fs : h = Header(fs[j])
    <3>1. b \notin g.region[h]
      BY <1>4, <2>2 DEF Shape
    <3>. QED  BY <1>3, <2>2, <3>1
  <2>. QED  BY <2>1, <2>2
<1>5. Level(g, fs, l, b)
  BY <1>1, <1>3, <1>4 DEF Level
<1>. QED  BY <1>5 DEF l

\* numbers of frames around the level l
LEMMA Ranges ==
    ASSUME NEW m \in Nat, NEW l \in 0 .. m
    PROVE  /\ l < m => l + 1 \in 1 .. m
           /\ l > 0 => l \in 1 .. m
           /\ \A j \in 1 .. m : /\ j > l => l + 1 \in 1 .. m /\ l # m
                                /\ j <= l => j \in 1 .. l
                                /\ l + 1 = m /\ j > l => j = l + 1
                                /\ j > l /\ l > 0 => l \in 1 .. m
OBVIOUS

\* an edge from where code is being built, to a block that a frame names or that is new
LEMMA EdgeCore ==
    ASSUME NEW g, NEW fs, Shape(g, fs), NEW p, Source(g, fs, p), NEW l, NEW b, Level(g, fs, l, b),
           \A h \in 1 .. g.n : /\ b = g.mrg[h] => l < Len(fs) /\ h = Header(fs[l + 1])
                               /\ b = g.cnt[h] => l > 0 /\ h = Header(fs[l]) /\ PlaceIn(g, fs[l], p),
           \/ l = Len(fs) \/ b = fs[l + 1].merge \/ (l + 1 = Len(fs) /\ b = Header(fs[l + 1]))
           \/ /\ l > 0 /\ b = g.cnt[Header(fs[l])]
              /\ \A j \in DOMAIN fs : j > l => Header(fs[j]) # b /\ Header(fs[j]) \notin TailOf(g, Header(fs[l])),
           \A j \in DOMAIN fs : Terminal(fs[j]) => b \in TailOf(g, fs[j].head) \cup {fs[j].head, fs[j].merge}
    PROVE  Enters(g, p, b) /\ Leaves(g, p, b) /\ Returns(g, p, b)
<1>1. p \in 1 .. g.n /\ b \in 1 .. g.n /\ l \in 0 .. Len(fs) /\ Len(fs) \in Nat /\ DOMAIN fs = 1 .. Len(fs) /\ 1 .. l \subseteq DOMAIN fs
  <2>1. fs \in Seq(Frame) /\ p \in 1 .. g.n /\ b \in 1 .. g.n /\ l \in 0 .. Len(fs)
    BY DEF Source, Level, Shape
  <2>. QED  BY <2>1
<1>m. ASSUME NEW j \in DOMAIN fs
      PROVE  j \in 1 .. Len(fs) /\ (j > l => l + 1 \in DOMAIN fs /\ l # Len(fs)) /\ (j <= l => j \in 1 .. l)
             /\ (l + 1 = Len(fs) /\ j > l => j = l + 1) /\ (j > l /\ l > 0 => l \in DOMAIN fs)
  <2>1. j \in 1 .. Len(fs)
    BY <1>1, Zenon
  <2>. QED  BY <1>1, <2>1, Ranges, Zenon
<1>l. (l < Len(fs) => l + 1 \in DOMAIN fs) /\ (l > 0 => l \in DOMAIN fs)
  BY <1>1, Ranges, Zenon
\* the constructs that hold the source, and those that hold the target
<1>2. ASSUME NEW h \in 1 .. g.n, g.mrg[h] # 0, p \in g.region[h] \cup {h}
      PROVE  \E j \in DOMAIN fs : h = Header(fs[j])
  BY <1>2 DEF Source
<1>3. ASSUME NEW j \in DOMAIN fs
      PROVE  \/ PlaceIn(g, fs[j], p) /\ p \in g.region[Header(fs[j])]
             \/ (j = Len(fs) /\ p = Header(fs[j]) /\ ~Terminal(fs[j]) /\ p \notin g.region[Header(fs[j])])
  <2>1. Header(fs[j]) \notin g.region[Header(fs[j])]
    <3>1. Header(fs[j]) \in 1 .. g.n /\ g.mrg[Header(fs[j])] # 0
      BY ShapeFacts
    <3>. QED  BY <3>1 DEF Shape, Constructs
  <2>. QED  BY <2>1, ShapeFacts DEF Source, PlaceIn
<1>4. ASSUME NEW h \in 1 .. g.n, b \in g.region[h] PROVE g.mrg[h] # 0 /\ \E j \in 1 .. l : h = Header(fs[j])
  <2>1. g.mrg[h] # 0
    BY <1>4 DEF Shape, Constructs
  <2>. QED  BY <1>4, <2>1 DEF Level
<1>5. ASSUME NEW j \in 1 .. l PROVE b \in g.region[Header(fs[j])] /\ j \in DOMAIN fs
  <2>1. j \in DOMAIN fs
    BY <1>1
  <2>2. Header(fs[j]) \in 1 .. g.n /\ g.mrg[Header(fs[j])] # 0
    BY <2>1, ShapeFacts
  <2>. QED  BY <2>1, <2>2 DEF Level
<1>6. Enters(g, p, b)
  <2>. SUFFICES ASSUME NEW h \in 1 .. g.n
                PROVE  /\ b \in g.region[h] => p \in g.region[h] \cup {h}
                       /\ b = g.mrg[h] => p \in g.region[h] \cup {h}
                       /\ b = g.cnt[h] => p \in g.region[h]
    BY DEF Enters
  <2>1. ASSUME NEW j \in DOMAIN fs, h = Header(fs[j]) PROVE p \in g.region[h] \cup {h}
    BY <1>3, <2>1
  <2>2. b = g.mrg[h] => l + 1 \in DOMAIN fs /\ h = Header(fs[l + 1])
    BY <1>l
  <2>3. b = g.cnt[h] => l \in DOMAIN fs /\ h = Header(fs[l]) /\ PlaceIn(g, fs[l], p)
    BY <1>l
  <2>4. ASSUME NEW j \in DOMAIN fs, PlaceIn(g, fs[j], p) PROVE p \in g.region[Header(fs[j])]
    BY <2>4, ShapeFacts DEF PlaceIn
  <2>. QED  BY <1>1, <1>4, <2>1, <2>2, <2>3, <2>4
<1>7. Leaves(g, p, b)
  <2>. SUFFICES ASSUME NEW h \in 1 .. g.n, g.mrg[h] # 0, p \in g.region[h] \cup {h}
                PROVE  \/ b \in g.region[h] \cup {h, g.mrg[h]}
                       \/ \E k \in 1 .. g.n : h \in g.region[k] /\ (b = g.mrg[k] \/ (b = g.cnt[k] /\ h # b /\ h \notin TailOf(g, k)))
    BY DEF Leaves
  <2>1. PICK j \in DOMAIN fs : h = Header(fs[j])
    BY <1>2
  <2>2. CASE j <= l
    <3>1. j \in 1 .. l
      BY <1>m, <2>2
    <3>. QED  BY <1>5, <2>1, <3>1
  <2>3. CASE j > l /\ l + 1 \in DOMAIN fs /\ b = fs[l + 1].merge
    <3>1. Header(fs[l + 1]) \in 1 .. g.n /\ g.mrg[Header(fs[l + 1])] = b
      BY <2>3, ShapeFacts
    <3>2. CASE j = l + 1
      BY <2>1, <3>1, <3>2
    <3>3. CASE j > l + 1
      <4>1. Inside2(g, fs[l + 1], fs[j])
        BY <2>3, <3>3 DEF Shape
      <4>2. h \in g.region[Header(fs[l + 1])]
        BY <2>1, <2>3, <4>1, ShapeFacts DEF Inside2, PlaceIn
      <4>. QED  BY <3>1, <4>2
    <3>. QED  BY <1>1, <2>3, <3>2, <3>3
  <2>4. CASE l + 1 = Len(fs) /\ b = Header(fs[l + 1]) /\ j > l
    <3>1. j = l + 1
      BY <1>m, <2>4
    <3>. QED  BY <2>1, <2>4, <3>1
  <2>5. CASE j > l /\ l > 0 /\ b = g.cnt[Header(fs[l])] /\ h # b /\ h \notin TailOf(g, Header(fs[l]))
    <3>1. l \in DOMAIN fs /\ l < j
      BY <1>m, <2>5
    <3>2. Header(fs[l]) \in 1 .. g.n
      BY <3>1, ShapeFacts
    <3>3. Inside2(g, fs[l], fs[j])
      BY <3>1 DEF Shape
    <3>4. h \in g.region[Header(fs[l])]
      BY <2>1, <3>1, <3>3, ShapeFacts DEF Inside2, PlaceIn
    <3>. QED  BY <2>5, <3>2, <3>4
  <2>6. j > l => l + 1 \in DOMAIN fs /\ l # Len(fs)
    BY <1>m
  <2>7. CASE j > l
    BY <2>1, <2>3, <2>4, <2>5, <2>6, <2>7
  <2>8. j > l \/ j <= l
    BY <1>1, <1>m
  <2>. QED  BY <2>2, <2>7, <2>8
<1>8. Returns(g, p, b)
  <2>. SUFFICES ASSUME NEW h \in 1 .. g.n, g.cnt[h] # 0
                PROVE  /\ b \in TailOf(g, h) => p \in TailOf(g, h) \cup {g.cnt[h]}
                       /\ p \in TailOf(g, h) \cup {g.cnt[h]} => b \in TailOf(g, h) \cup {h, g.mrg[h]}
    BY DEF Returns
  <2>1. g.mrg[h] # 0 /\ g.cnt[h] \in g.region[h]
    BY DEF Shape, Constructs
  <2>2. CASE ~ \E j \in DOMAIN fs : h = Header(fs[j])
    <3>1. p \notin g.region[h]
      BY <1>2, <2>1, <2>2
    <3>2. b \notin g.region[h]
      BY <1>1, <1>4, <2>2
    <3>. QED  BY <2>1, <3>1, <3>2 DEF TailOf
  <2>3. ASSUME NEW j \in DOMAIN fs, h = Header(fs[j])
        PROVE  /\ b \in TailOf(g, h) => p \in TailOf(g, h) \cup {g.cnt[h]}
               /\ p \in TailOf(g, h) \cup {g.cnt[h]} => b \in TailOf(g, h) \cup {h, g.mrg[h]}
    <3>1. fs[j].kind = "loop" /\ h = fs[j].head /\ g.cnt[h] = fs[j].continue_target /\ g.mrg[h] = fs[j].merge
      BY <2>3, ShapeFacts
    <3>2. CASE Terminal(fs[j])
      <4>1. PlaceIn(g, fs[j], p) /\ p \in g.region[h]
        BY <1>3, <2>3, <3>2
      <4>2. p > g.tail[h] \/ p = g.cnt[h]
        BY <3>1, <3>2, <4>1 DEF PlaceIn
      <4>. QED  BY <3>1, <3>2, <4>1, <4>2 DEF TailOf
    <3>3. CASE ~Terminal(fs[j])
      <4>1. TailOf(g, h) = {}
        BY <3>1, <3>3 DEF Shape
      <4>2. p # g.cnt[h]
        <5>1. CASE PlaceIn(g, fs[j], p)
          BY <3>1, <3>3, <5>1 DEF PlaceIn
        <5>2. CASE p \notin g.region[h]
          BY <2>1, <5>2
        <5>. QED  BY <1>3, <2>3, <5>1, <5>2
      <4>. QED  BY <4>1, <4>2
    <3>. QED  BY <3>2, <3>3
  <2>. QED  BY <2>2, <2>3
<1>. QED  BY <1>6, <1>7, <1>8

-----------------------------------------------------------------------------
(* The stacks for break and continue: each holds a value per frame of nest *)
(* of its kind, in the order of the frames.                                *)

LEMMA FrontFacts ==
    ASSUME NEW S, NEW s \in Seq(S), s # <<>>
    PROVE  /\ Len(s) \in Nat \ {0} /\ Front(s) \in Seq(S) /\ Len(Front(s)) = Len(s) - 1 /\ Last(s) = s[Len(s)] /\ Last(s) \in S
           /\ DOMAIN Front(s) = 1 .. Len(s) - 1 /\ \A i \in 1 .. Len(s) - 1 : Front(s)[i] = s[i]
<1>1. Len(s) \in Nat \ {0} /\ Len(s) \in DOMAIN s /\ s[Len(s)] \in S /\ Len(s) - 1 \in 0 .. Len(s)
  BY EmptySeq, LenProperties
<1>2. Front(s) \in Seq(S) /\ Len(Front(s)) = Len(s) - 1 /\ \A i \in 1 .. Len(s) - 1 : Front(s)[i] = s[i]
  <2>. DEFINE m == Len(s) - 1
              u == SubSeq(s, 1, m)
  <2>1. m \in Nat /\ \A i \in 1 .. m : i \in 1 .. Len(s) /\ s[i] \in S
    BY <1>1
  <2>. HIDE DEF m
  <2>2. u \in Seq(S) /\ Len(u) = (IF 1 <= m THEN m - 1 + 1 ELSE 0) /\ \A i \in 1 .. m - 1 + 1 : u[i] = s[1 + i - 1]
    BY <2>1, SubSeqProperties
  <2>. HIDE DEF u
  <2>3. Len(u) = m /\ \A i \in 1 .. m : u[i] = s[i]
    BY <2>1, <2>2
  <2>. QED  BY <2>2, <2>3 DEF Front, u, m
<1>. QED  BY <1>1, <1>2 DEF Last

Lists(w, S) ==
    /\ w \in Seq(Nat) /\ (\A i \in 1 .. Len(w) : w[i] \in S) /\ (\A x \in S : \E i \in 1 .. Len(w) : w[i] = x)
    /\ \A i, j \in 1 .. Len(w) : i < j => w[i] < w[j]
Holds(stack, w, value) == Len(stack) = Len(w) /\ \A i \in 1 .. Len(w) : stack[i] = value[w[i]]
Tracks(stack, S, value) == \E w : Lists(w, S) /\ Holds(stack, w, value)

\* entries that are not of the set may change
LEMMA TracksKept ==
    ASSUME NEW stack, NEW S, NEW v1, NEW v2, Tracks(stack, S, v1), \A x \in S : v1[x] = v2[x]
    PROVE  Tracks(stack, S, v2)
<1>1. PICK w : Lists(w, S) /\ Holds(stack, w, v1)
  BY DEF Tracks
<1>2. \A i \in 1 .. Len(w) : w[i] \in S
  BY <1>1 DEF Lists
<1>3. Holds(stack, w, v2)
  BY <1>1, <1>2 DEF Holds
<1>. QED  BY <1>1, <1>3 DEF Tracks

\* an entry is pushed for the largest number
LEMMA TracksPush ==
    ASSUME NEW V, NEW stack \in Seq(V), NEW S, NEW v1, NEW v2, Tracks(stack, S, v1), \A x \in S : v1[x] = v2[x],
           NEW n \in Nat, \A x \in S : x < n, v2[n] \in V
    PROVE  Tracks(Append(stack, v2[n]), S \cup {n}, v2)
<1>1. PICK w : Lists(w, S) /\ Holds(stack, w, v1)
  BY DEF Tracks
<1>2. w \in Seq(Nat) /\ Len(w) \in Nat /\ \A i \in 1 .. Len(w) : w[i] \in S /\ w[i] \in Nat
  BY <1>1 DEF Lists
<1>. DEFINE u == Append(w, n)
<1>3. u \in Seq(Nat) /\ Len(u) = Len(w) + 1 /\ u[Len(w) + 1] = n /\ \A i \in 1 .. Len(w) : u[i] = w[i]
  BY <1>2
<1>. HIDE DEF u
<1>e. \A i \in 1 .. Len(w) + 1 : i = Len(w) + 1 \/ i \in 1 .. Len(w)
  BY <1>2
<1>4. (\A i \in 1 .. Len(u) : u[i] \in S \cup {n}) /\ (\A x \in S \cup {n} : \E i \in 1 .. Len(u) : u[i] = x)
  <2>1. \A x \in S : \E i \in 1 .. Len(w) : w[i] = x
    BY <1>1 DEF Lists
  <2>2. \A i \in 1 .. Len(w) : i \in 1 .. Len(u)
    BY <1>2, <1>3
  <2>3. Len(w) + 1 \in 1 .. Len(u)
    BY <1>2, <1>3
  <2>. QED  BY <1>2, <1>3, <1>e, <2>1, <2>2, <2>3
<1>5. ASSUME NEW i \in 1 .. Len(u), NEW j \in 1 .. Len(u), i < j PROVE u[i] < u[j]
  <2>1. i \in 1 .. Len(w)
    BY <1>2, <1>3, <1>5
  <2>2. CASE j \in 1 .. Len(w)
    BY <1>1, <1>3, <1>5, <2>1, <2>2 DEF Lists
  <2>3. CASE j = Len(w) + 1
    BY <1>2, <1>3, <2>1, <2>3
  <2>. QED  BY <1>3, <1>e, <2>2, <2>3
<1>6. Holds(Append(stack, v2[n]), u, v2)
  <2>1. Len(stack) = Len(w) /\ \A i \in 1 .. Len(w) : stack[i] = v2[w[i]]
    BY <1>1, <1>2 DEF Holds
  <2>2. Len(stack) \in Nat /\ Append(stack, v2[n])[Len(stack) + 1] = v2[n] /\ Len(Append(stack, v2[n])) = Len(stack) + 1
        /\ \A i \in 1 .. Len(stack) : Append(stack, v2[n])[i] = stack[i]
    BY AppendProperties
  <2>. QED  BY <1>2, <1>3, <1>e, <2>1, <2>2 DEF Holds
<1>7. Lists(u, S \cup {n})
  BY <1>3, <1>4, <1>5 DEF Lists
<1>. QED  BY <1>6, <1>7, Zenon DEF Tracks

\* the last entry is that of the largest number
LEMMA TracksLast ==
    ASSUME NEW V, NEW stack \in Seq(V), NEW S, NEW v1, Tracks(stack, S, v1)
    PROVE  /\ stack = <<>> <=> S = {}
           /\ IsFiniteSet(S) /\ Cardinality(S) = Len(stack)
           /\ S # {} => /\ Last(stack) = v1[Max(S)] /\ Max(S) \in S /\ \A x \in S : x <= Max(S)
<1>1. PICK w : Lists(w, S) /\ Holds(stack, w, v1)
  BY DEF Tracks
<1>2. w \in Seq(Nat) /\ Len(w) \in Nat /\ (\A x \in S : \E i \in 1 .. Len(w) : w[i] = x) /\ \A i \in 1 .. Len(w) : w[i] \in S /\ w[i] \in Nat
  BY <1>1 DEF Lists
<1>3. Len(stack) = Len(w) /\ Len(stack) \in Nat /\ (stack = <<>> <=> Len(stack) = 0)
  BY <1>1 DEF Holds
<1>4. stack = <<>> <=> S = {}
  <2>1. 1 \in 1 .. Len(w) \/ Len(w) = 0
    BY <1>2
  <2>2. \A i \in 1 .. 0 : FALSE
    OBVIOUS
  <2>. QED  BY <1>2, <1>3, <2>1, <2>2
<1>5. IsFiniteSet(S) /\ Cardinality(S) = Len(stack)
  <2>1. w \in [1 .. Len(w) -> S]
    BY <1>2
  <2>2. ExistsBijection(1 .. Len(w), S)
    <3>1. w \in Surjection(1 .. Len(w), S)
      BY <1>2, <2>1 DEF Surjection
    <3>2. w \in Injection(1 .. Len(w), S)
      <4>1. ASSUME NEW i \in 1 .. Len(w), NEW j \in 1 .. Len(w), w[i] = w[j] PROVE i = j
        BY <1>1, <1>2, <4>1 DEF Lists
      <4>2. DOMAIN w = 1 .. Len(w)
        BY <1>2
      <4>. QED  BY <2>1, <4>1, <4>2 DEF Injection, IsInjective
    <3>. QED  BY <3>1, <3>2 DEF ExistsBijection, Bijection
  <2>3. IsFiniteSet(S)
    BY <1>2, <2>2, FS_NatBijection
  <2>. QED  BY <1>2, <1>3, <2>2, <2>3, FS_CountingElements
<1>6. ASSUME S # {} PROVE Last(stack) = v1[Max(S)] /\ Max(S) \in S /\ \A x \in S : x <= Max(S)
  <2>1. Len(w) \in 1 .. Len(w)
    BY <1>2, <1>6
  <2>. DEFINE m == w[Len(w)]
  <2>2. m \in S /\ \A x \in S : x <= m
    BY <1>1, <1>2, <2>1 DEF Lists
  <2>3. S \subseteq Nat
    BY <1>2
  <2>4. Max(S) = m
    <3>. HIDE DEF m
    <3>1. Max(S) \in S /\ \A y \in S : Max(S) >= y
      BY <2>2, <2>3 DEF Max
    <3>2. m \in Nat /\ Max(S) \in Nat
      BY <2>2, <2>3, <3>1
    <3>. QED  BY <2>2, <3>1, <3>2
  <2>5. Last(stack) = v1[m]
    BY <1>1, <1>3, <2>1 DEF Holds, Last
  <2>. QED  BY <2>2, <2>4, <2>5
<1>. QED  BY <1>4, <1>5, <1>6

\* the last entry is popped
LEMMA TracksPop ==
    ASSUME NEW V, NEW stack \in Seq(V), NEW S, NEW v1, NEW v2, Tracks(stack, S, v1),
           NEW n \in S, \A x \in S : x <= n, \A x \in S \ {n} : v1[x] = v2[x]
    PROVE  stack # <<>> /\ Last(stack) = v1[n] /\ Tracks(Front(stack), S \ {n}, v2)
<1>1. PICK w : Lists(w, S) /\ Holds(stack, w, v1)
  BY DEF Tracks
<1>2. w \in Seq(Nat) /\ Len(w) \in Nat /\ (\A x \in S : \E i \in 1 .. Len(w) : w[i] = x) /\ \A i \in 1 .. Len(w) : w[i] \in S /\ w[i] \in Nat
  BY <1>1 DEF Lists
<1>3. w # <<>> /\ Len(w) # 0
  BY <1>2
<1>4. w[Len(w)] = n
  <2>1. PICK i \in 1 .. Len(w) : w[i] = n
    BY <1>2
  <2>2. i < Len(w) => w[i] < w[Len(w)]
    BY <1>1, <1>2, <1>3 DEF Lists
  <2>3. Len(w) \in 1 .. Len(w) /\ w[Len(w)] \in S /\ w[Len(w)] \in Nat /\ n \in Nat
    BY <1>2, <1>3, <2>1
  <2>4. i = Len(w) \/ i < Len(w)
    BY <1>2, <2>1
  <2>5. w[Len(w)] <= n
    BY <2>3
  <2>. QED  BY <2>1, <2>2, <2>3, <2>4, <2>5
<1>5. Len(stack) = Len(w) /\ stack # <<>>
  <2>1. Len(stack) = Len(w)
    BY <1>1 DEF Holds
  <2>. QED  BY <1>3, <2>1
<1>. DEFINE u == Front(w)
<1>6. u \in Seq(Nat) /\ Len(u) = Len(w) - 1 /\ \A i \in 1 .. Len(w) - 1 : u[i] = w[i]
  BY <1>2, <1>3, FrontFacts
<1>. HIDE DEF u
<1>e. /\ \A i \in 1 .. Len(w) : i = Len(w) \/ i \in 1 .. Len(w) - 1
      /\ \A i \in 1 .. Len(w) - 1 : i \in 1 .. Len(w) /\ i < Len(w)
      /\ Len(w) \in 1 .. Len(w)
  BY <1>2, <1>3
<1>7. \A i \in 1 .. Len(w) - 1 : w[i] \in S \ {n}
  <2>1. ASSUME NEW i \in 1 .. Len(w) - 1 PROVE w[i] < w[Len(w)]
    BY <1>1, <1>e DEF Lists
  <2>2. ASSUME NEW i \in 1 .. Len(w) - 1 PROVE w[i] \in S /\ w[i] # n
    <3>1. w[i] \in S /\ w[i] \in Nat /\ w[Len(w)] \in Nat
      BY <1>2, <1>e
    <3>2. w[i] # w[Len(w)]
      BY <2>1, <3>1
    <3>. QED  BY <1>4, <3>1, <3>2
  <2>. QED  BY <2>2
<1>8. Lists(u, S \ {n})
  <2>1. ASSUME NEW i \in 1 .. Len(u), NEW j \in 1 .. Len(u), i < j PROVE u[i] < u[j]
    BY <1>1, <1>6, <1>e, <2>1 DEF Lists
  <2>2. \A i \in 1 .. Len(u) : u[i] \in S \ {n}
    BY <1>6, <1>7
  <2>3. ASSUME NEW x \in S \ {n} PROVE \E i \in 1 .. Len(u) : u[i] = x
    BY <1>2, <1>4, <1>6, <1>e
  <2>. QED  BY <1>6, <2>1, <2>2, <2>3 DEF Lists
<1>9. Holds(Front(stack), u, v2)
  <2>2. Len(Front(stack)) = Len(w) - 1 /\ \A i \in 1 .. Len(w) - 1 : Front(stack)[i] = stack[i]
    BY <1>5, FrontFacts
  <2>3. \A i \in 1 .. Len(w) - 1 : stack[i] = v1[w[i]] /\ v1[w[i]] = v2[w[i]]
    BY <1>1, <1>7, <1>e DEF Holds
  <2>. QED  BY <1>6, <2>2, <2>3 DEF Holds
<1>10. Last(stack) = v1[n]
  <2>1. stack[Len(w)] = v1[w[Len(w)]]
    BY <1>1, <1>e DEF Holds
  <2>. QED  BY <1>4, <1>5, <2>1 DEF Last
<1>. QED  BY <1>5, <1>8, <1>9, <1>10 DEF Tracks

LoopBlocks(f)  == [merge |-> f.merge, continue_target |-> f.continue_target]
Leavable(f)    == f.kind \in {"loop", "switch"} /\ f.place \notin {"test", "terminal"}
LeavableIn(ns) == {i \in DOMAIN ns : Leavable(ns[i])}
OfKind(ns, k)  == {i \in DOMAIN ns : ns[i].kind = k}
BreakValue(ns) == [i \in DOMAIN ns |-> ns[i].kind = "loop"]
LoopValue(ns)  == [i \in DOMAIN ns |-> LoopBlocks(ns[i])]
MergeValue(ns) == [i \in DOMAIN ns |-> ns[i].merge]

Stacks(ns, bs, ls, sm) ==
    /\ ns \in Seq(Frame) /\ bs \in Seq(BOOLEAN)
    /\ ls \in Seq([merge : Nat, continue_target : Nat]) /\ sm \in Seq(Nat)
    /\ Tracks(bs, LeavableIn(ns), BreakValue(ns))
    /\ Tracks(ls, OfKind(ns, "loop"), LoopValue(ns))
    /\ Tracks(sm, OfKind(ns, "switch"), MergeValue(ns))

\* what a frame holds, by its kind
LEMMA FrameKinds ==
    ASSUME NEW f \in Frame
    PROVE  /\ f.merge \in Nat /\ f.kind \in {"if", "and", "switch", "loop"}
           /\ f.kind = "loop" => f \in LoopFrame /\ f.continue_target \in Nat /\ f.head \in Nat /\ f.body \in Nat
                                 /\ LoopBlocks(f) \in [merge : Nat, continue_target : Nat] /\ f.place \in {"test", "body", "terminal"}
           /\ f.kind = "switch" => f \in SwitchFrame /\ Leavable(f)
           /\ IsIf(f) => f \in IfFrame
           /\ (IsIf(f) => ~Leavable(f))
<1>1. CASE f \in IfFrame
  <2>1. f.kind \in {"if", "and"} /\ f.merge \in Nat
    BY <1>1 DEF IfFrame
  <2>. QED  BY <1>1, <2>1 DEF IsIf, Leavable
<1>2. CASE f \in SwitchFrame
  <2>1. f.kind = "switch" /\ f.place \in {"head", "segment", "empty"} /\ f.merge \in Nat
    BY <1>2 DEF SwitchFrame
  <2>. QED  BY <1>2, <2>1 DEF IsIf, Leavable
<1>3. CASE f \in LoopFrame
  <2>1. f.kind = "loop" /\ f.merge \in Nat /\ f.continue_target \in Nat /\ f.head \in Nat /\ f.body \in Nat /\ f.place \in {"test", "body", "terminal"}
    BY <1>3 DEF LoopFrame
  <2>. QED  BY <1>3, <2>1 DEF IsIf, LoopBlocks
<1>. QED  BY <1>1, <1>2, <1>3 DEF Frame

\* a construct begins: push_back on the stacks of its kind
LEMMA StacksPush ==
    ASSUME NEW ns, NEW bs, NEW ls, NEW sm, Stacks(ns, bs, ls, sm), NEW f \in Frame
    PROVE  Stacks(Append(ns, f), IF Leavable(f) THEN Append(bs, f.kind = "loop") ELSE bs,
                  IF f.kind = "loop" THEN Append(ls, LoopBlocks(f)) ELSE ls,
                  IF f.kind = "switch" THEN Append(sm, f.merge) ELSE sm)
<1>. DEFINE ns2 == Append(ns, f)
            n == Len(ns) + 1
<1>1. ns \in Seq(Frame) /\ bs \in Seq(BOOLEAN) /\ ls \in Seq([merge : Nat, continue_target : Nat]) /\ sm \in Seq(Nat)
      /\ Tracks(bs, LeavableIn(ns), BreakValue(ns)) /\ Tracks(ls, OfKind(ns, "loop"), LoopValue(ns))
      /\ Tracks(sm, OfKind(ns, "switch"), MergeValue(ns))
  BY DEF Stacks
<1>2. n \in Nat /\ DOMAIN ns = 1 .. Len(ns) /\ n \notin DOMAIN ns /\ \A i \in DOMAIN ns : i < n
  BY <1>1
<1>3. ns2 \in Seq(Frame) /\ DOMAIN ns2 = DOMAIN ns \cup {n} /\ ns2[n] = f /\ \A i \in DOMAIN ns : ns2[i] = ns[i]
  <2>1. ns2 \in Seq(Frame) /\ Len(ns2) = n /\ ns2[n] = f /\ \A i \in 1 .. Len(ns) : ns2[i] = ns[i]
    BY <1>1, AppendProperties
  <2>2. DOMAIN ns2 = 1 .. n
    BY <2>1
  <2>. QED  BY <1>1, <1>2, <2>1, <2>2
<1>. HIDE DEF ns2, n
<1>4. LeavableIn(ns2) = IF Leavable(f) THEN LeavableIn(ns) \cup {n} ELSE LeavableIn(ns)
  BY <1>2, <1>3 DEF LeavableIn
<1>5. \A k : OfKind(ns2, k) = IF f.kind = k THEN OfKind(ns, k) \cup {n} ELSE OfKind(ns, k)
  BY <1>2, <1>3 DEF OfKind
<1>6. ASSUME NEW i \in DOMAIN ns
      PROVE  BreakValue(ns)[i] = BreakValue(ns2)[i] /\ LoopValue(ns)[i] = LoopValue(ns2)[i] /\ MergeValue(ns)[i] = MergeValue(ns2)[i]
  BY <1>3 DEF BreakValue, LoopValue, MergeValue
<1>7. BreakValue(ns2)[n] = (f.kind = "loop") /\ LoopValue(ns2)[n] = LoopBlocks(f) /\ MergeValue(ns2)[n] = f.merge
  BY <1>3 DEF BreakValue, LoopValue, MergeValue
<1>8. LeavableIn(ns) \subseteq DOMAIN ns /\ \A k : OfKind(ns, k) \subseteq DOMAIN ns
  BY DEF LeavableIn, OfKind
<1>a. ASSUME NEW S, S \subseteq DOMAIN ns
      PROVE  /\ \A x \in S : x < n
             /\ \A x \in S : BreakValue(ns)[x] = BreakValue(ns2)[x]
             /\ \A x \in S : LoopValue(ns)[x] = LoopValue(ns2)[x]
             /\ \A x \in S : MergeValue(ns)[x] = MergeValue(ns2)[x]
  BY <1>2, <1>6, <1>a, Zenon
<1>9. Tracks(IF Leavable(f) THEN Append(bs, f.kind = "loop") ELSE bs, LeavableIn(ns2), BreakValue(ns2))
  <2>. DEFINE S == LeavableIn(ns)
  <2>0. S \subseteq DOMAIN ns
    BY <1>8
  <2>1. (\A x \in S : x < n) /\ \A x \in S : BreakValue(ns)[x] = BreakValue(ns2)[x]
    BY <1>a, <2>0, Zenon
  <2>. HIDE DEF S
  <2>2. Tracks(bs, S, BreakValue(ns))
    BY <1>1 DEF S
  <2>3. CASE Leavable(f)
    <3>1. BreakValue(ns2)[n] \in BOOLEAN
      BY <1>7, Zenon
    <3>2. Tracks(Append(bs, BreakValue(ns2)[n]), S \cup {n}, BreakValue(ns2))
      BY <1>1, <1>2, <2>1, <2>2, <3>1, TracksPush, Zenon
    <3>. QED  BY <1>4, <1>7, <2>3, <3>2, Zenon DEF S
  <2>4. CASE ~Leavable(f)
    <3>1. Tracks(bs, S, BreakValue(ns2))
      BY <2>1, <2>2, TracksKept, Zenon
    <3>. QED  BY <1>4, <2>4, <3>1, Zenon DEF S
  <2>. QED  BY <2>3, <2>4
<1>10. Tracks(IF f.kind = "loop" THEN Append(ls, LoopBlocks(f)) ELSE ls, OfKind(ns2, "loop"), LoopValue(ns2))
  <2>. DEFINE S == OfKind(ns, "loop")
  <2>0. S \subseteq DOMAIN ns
    BY <1>8
  <2>1. (\A x \in S : x < n) /\ \A x \in S : LoopValue(ns)[x] = LoopValue(ns2)[x]
    BY <1>a, <2>0, Zenon
  <2>. HIDE DEF S
  <2>2. Tracks(ls, S, LoopValue(ns))
    BY <1>1 DEF S
  <2>3. CASE f.kind = "loop"
    <3>1. LoopValue(ns2)[n] \in [merge : Nat, continue_target : Nat]
      BY <1>7, <2>3, FrameKinds
    <3>2. Tracks(Append(ls, LoopValue(ns2)[n]), S \cup {n}, LoopValue(ns2))
      BY <1>1, <1>2, <2>1, <2>2, <3>1, TracksPush, Zenon
    <3>. QED  BY <1>5, <1>7, <2>3, <3>2, Zenon DEF S
  <2>4. CASE f.kind # "loop"
    <3>1. Tracks(ls, S, LoopValue(ns2))
      BY <2>1, <2>2, TracksKept, Zenon
    <3>. QED  BY <1>5, <2>4, <3>1, Zenon DEF S
  <2>. QED  BY <2>3, <2>4
<1>11. Tracks(IF f.kind = "switch" THEN Append(sm, f.merge) ELSE sm, OfKind(ns2, "switch"), MergeValue(ns2))
  <2>. DEFINE S == OfKind(ns, "switch")
  <2>0. S \subseteq DOMAIN ns
    BY <1>8
  <2>1. (\A x \in S : x < n) /\ \A x \in S : MergeValue(ns)[x] = MergeValue(ns2)[x]
    BY <1>a, <2>0, Zenon
  <2>. HIDE DEF S
  <2>2. Tracks(sm, S, MergeValue(ns))
    BY <1>1 DEF S
  <2>3. CASE f.kind = "switch"
    <3>1. MergeValue(ns2)[n] \in Nat
      BY <1>7, FrameKinds
    <3>2. Tracks(Append(sm, MergeValue(ns2)[n]), S \cup {n}, MergeValue(ns2))
      BY <1>1, <1>2, <2>1, <2>2, <3>1, TracksPush, Zenon
    <3>. QED  BY <1>5, <1>7, <2>3, <3>2, Zenon DEF S
  <2>4. CASE f.kind # "switch"
    <3>1. Tracks(sm, S, MergeValue(ns2))
      BY <2>1, <2>2, TracksKept, Zenon
    <3>. QED  BY <1>5, <2>4, <3>1, Zenon DEF S
  <2>. QED  BY <2>3, <2>4
<1>12. /\ (IF Leavable(f) THEN Append(bs, f.kind = "loop") ELSE bs) \in Seq(BOOLEAN)
       /\ (IF f.kind = "loop" THEN Append(ls, LoopBlocks(f)) ELSE ls) \in Seq([merge : Nat, continue_target : Nat])
       /\ (IF f.kind = "switch" THEN Append(sm, f.merge) ELSE sm) \in Seq(Nat)
  <2>1. (f.kind = "loop") \in BOOLEAN /\ f.merge \in Nat /\ (f.kind = "loop" => LoopBlocks(f) \in [merge : Nat, continue_target : Nat])
    BY FrameKinds
  <2>. QED  BY <1>1, <2>1, AppendProperties
<1>. QED  BY <1>3, <1>9, <1>10, <1>11, <1>12, Zenon DEF Stacks, ns2

\* a construct ends: pop_back on the stacks of its kind
LEMMA StacksPop ==
    ASSUME NEW ns, NEW bs, NEW ls, NEW sm, Stacks(ns, bs, ls, sm), ns # <<>>, NEW f, f = Last(ns)
    PROVE  /\ Stacks(Front(ns), IF Leavable(f) THEN Front(bs) ELSE bs,
                     IF f.kind = "loop" THEN Front(ls) ELSE ls, IF f.kind = "switch" THEN Front(sm) ELSE sm)
           /\ Leavable(f) => bs # <<>> /\ Last(bs) = (f.kind = "loop")
           /\ f.kind = "loop" => ls # <<>> /\ Last(ls) = LoopBlocks(f)
           /\ f.kind = "switch" => sm # <<>> /\ Last(sm) = f.merge
<1>. DEFINE ns2 == Front(ns)
            n == Len(ns)
<1>1. ns \in Seq(Frame) /\ bs \in Seq(BOOLEAN) /\ ls \in Seq([merge : Nat, continue_target : Nat]) /\ sm \in Seq(Nat)
      /\ Tracks(bs, LeavableIn(ns), BreakValue(ns)) /\ Tracks(ls, OfKind(ns, "loop"), LoopValue(ns))
      /\ Tracks(sm, OfKind(ns, "switch"), MergeValue(ns))
  BY DEF Stacks
<1>2. n \in Nat \ {0} /\ ns2 \in Seq(Frame) /\ DOMAIN ns2 = 1 .. n - 1 /\ f = ns[n] /\ \A i \in 1 .. n - 1 : ns2[i] = ns[i]
  BY <1>1, FrontFacts
<1>3. DOMAIN ns = 1 .. n /\ n \in DOMAIN ns /\ DOMAIN ns2 = DOMAIN ns \ {n} /\ \A i \in DOMAIN ns : i <= n
  <2>1. DOMAIN ns = 1 .. n
    BY <1>1
  <2>. QED  BY <1>2, <2>1
<1>. HIDE DEF ns2, n
<1>k. \A i \in DOMAIN ns2 : ns2[i] = ns[i]
  BY <1>2
<1>4. LeavableIn(ns2) = LeavableIn(ns) \ {n} /\ (Leavable(f) <=> n \in LeavableIn(ns))
  BY <1>2, <1>3, <1>k DEF LeavableIn
<1>5. \A k : OfKind(ns2, k) = OfKind(ns, k) \ {n} /\ (f.kind = k <=> n \in OfKind(ns, k))
  BY <1>2, <1>3, <1>k DEF OfKind
<1>6. ASSUME NEW i \in DOMAIN ns2
      PROVE  BreakValue(ns)[i] = BreakValue(ns2)[i] /\ LoopValue(ns)[i] = LoopValue(ns2)[i] /\ MergeValue(ns)[i] = MergeValue(ns2)[i]
  BY <1>3, <1>k DEF BreakValue, LoopValue, MergeValue
<1>7. BreakValue(ns)[n] = (f.kind = "loop") /\ LoopValue(ns)[n] = LoopBlocks(f) /\ MergeValue(ns)[n] = f.merge
  BY <1>2, <1>3 DEF BreakValue, LoopValue, MergeValue
<1>8. LeavableIn(ns) \subseteq DOMAIN ns /\ \A k : OfKind(ns, k) \subseteq DOMAIN ns
  BY DEF LeavableIn, OfKind
<1>a. ASSUME NEW S, S \subseteq DOMAIN ns
      PROVE  /\ \A x \in S : x <= n
             /\ \A x \in S \ {n} : BreakValue(ns)[x] = BreakValue(ns2)[x]
             /\ \A x \in S \ {n} : LoopValue(ns)[x] = LoopValue(ns2)[x]
             /\ \A x \in S \ {n} : MergeValue(ns)[x] = MergeValue(ns2)[x]
  <2>1. \A x \in S \ {n} : x \in DOMAIN ns2
    BY <1>3, <1>a
  <2>. QED  BY <1>3, <1>6, <1>a, <2>1, Zenon
<1>b. ASSUME NEW S, n \notin S PROVE S \ {n} = S
  BY <1>b
<1>9. Tracks(IF Leavable(f) THEN Front(bs) ELSE bs, LeavableIn(ns2), BreakValue(ns2)) /\ (Leavable(f) => bs # <<>> /\ Last(bs) = (f.kind = "loop"))
  <2>. DEFINE S == LeavableIn(ns)
  <2>0. S \subseteq DOMAIN ns
    BY <1>8
  <2>1. (\A x \in S : x <= n) /\ \A x \in S \ {n} : BreakValue(ns)[x] = BreakValue(ns2)[x]
    BY <1>a, <2>0, Zenon
  <2>2. Tracks(bs, S, BreakValue(ns)) /\ LeavableIn(ns2) = S \ {n} /\ (Leavable(f) <=> n \in S)
    BY <1>1, <1>4
  <2>. HIDE DEF S
  <2>3. CASE Leavable(f)
    <3>1. n \in S
      BY <2>2, <2>3
    <3>2. bs # <<>> /\ Last(bs) = BreakValue(ns)[n] /\ Tracks(Front(bs), S \ {n}, BreakValue(ns2))
      BY <1>1, <2>1, <2>2, <3>1, TracksPop, Zenon
    <3>. QED  BY <1>7, <2>2, <2>3, <3>2, Zenon
  <2>4. CASE ~Leavable(f)
    <3>0. n \notin S
      BY <2>2, <2>4
    <3>1. S \ {n} = S
      BY <1>b, <3>0, Zenon
    <3>2. Tracks(bs, S, BreakValue(ns2))
      BY <2>1, <2>2, <3>1, TracksKept, Zenon
    <3>. QED  BY <2>2, <2>4, <3>1, <3>2, Zenon
  <2>. QED  BY <2>3, <2>4
<1>10. Tracks(IF f.kind = "loop" THEN Front(ls) ELSE ls, OfKind(ns2, "loop"), LoopValue(ns2)) /\ (f.kind = "loop" => ls # <<>> /\ Last(ls) = LoopBlocks(f))
  <2>. DEFINE S == OfKind(ns, "loop")
  <2>0. S \subseteq DOMAIN ns
    BY <1>8
  <2>1. (\A x \in S : x <= n) /\ \A x \in S \ {n} : LoopValue(ns)[x] = LoopValue(ns2)[x]
    BY <1>a, <2>0, Zenon
  <2>2. Tracks(ls, S, LoopValue(ns)) /\ OfKind(ns2, "loop") = S \ {n} /\ (f.kind = "loop" <=> n \in S)
    BY <1>1, <1>5
  <2>. HIDE DEF S
  <2>3. CASE f.kind = "loop"
    <3>1. n \in S
      BY <2>2, <2>3
    <3>2. ls # <<>> /\ Last(ls) = LoopValue(ns)[n] /\ Tracks(Front(ls), S \ {n}, LoopValue(ns2))
      BY <1>1, <2>1, <2>2, <3>1, TracksPop, Zenon
    <3>. QED  BY <1>7, <2>2, <2>3, <3>2, Zenon
  <2>4. CASE f.kind # "loop"
    <3>0. n \notin S
      BY <2>2, <2>4
    <3>1. S \ {n} = S
      BY <1>b, <3>0, Zenon
    <3>2. Tracks(ls, S, LoopValue(ns2))
      BY <2>1, <2>2, <3>1, TracksKept, Zenon
    <3>. QED  BY <2>2, <2>4, <3>1, <3>2, Zenon
  <2>. QED  BY <2>3, <2>4
<1>11. Tracks(IF f.kind = "switch" THEN Front(sm) ELSE sm, OfKind(ns2, "switch"), MergeValue(ns2)) /\ (f.kind = "switch" => sm # <<>> /\ Last(sm) = f.merge)
  <2>. DEFINE S == OfKind(ns, "switch")
  <2>0. S \subseteq DOMAIN ns
    BY <1>8
  <2>1. (\A x \in S : x <= n) /\ \A x \in S \ {n} : MergeValue(ns)[x] = MergeValue(ns2)[x]
    BY <1>a, <2>0, Zenon
  <2>2. Tracks(sm, S, MergeValue(ns)) /\ OfKind(ns2, "switch") = S \ {n} /\ (f.kind = "switch" <=> n \in S)
    BY <1>1, <1>5
  <2>. HIDE DEF S
  <2>3. CASE f.kind = "switch"
    <3>1. n \in S
      BY <2>2, <2>3
    <3>2. sm # <<>> /\ Last(sm) = MergeValue(ns)[n] /\ Tracks(Front(sm), S \ {n}, MergeValue(ns2))
      BY <1>1, <2>1, <2>2, <3>1, TracksPop, Zenon
    <3>. QED  BY <1>7, <2>2, <2>3, <3>2, Zenon
  <2>4. CASE f.kind # "switch"
    <3>0. n \notin S
      BY <2>2, <2>4
    <3>1. S \ {n} = S
      BY <1>b, <3>0, Zenon
    <3>2. Tracks(sm, S, MergeValue(ns2))
      BY <2>1, <2>2, <3>1, TracksKept, Zenon
    <3>. QED  BY <2>2, <2>4, <3>1, <3>2, Zenon
  <2>. QED  BY <2>3, <2>4
<1>12. /\ (IF Leavable(f) THEN Front(bs) ELSE bs) \in Seq(BOOLEAN)
       /\ (IF f.kind = "loop" THEN Front(ls) ELSE ls) \in Seq([merge : Nat, continue_target : Nat])
       /\ (IF f.kind = "switch" THEN Front(sm) ELSE sm) \in Seq(Nat)
  <2>1. Leavable(f) => Front(bs) \in Seq(BOOLEAN)
    BY <1>1, <1>9, FrontFacts
  <2>2. f.kind = "loop" => Front(ls) \in Seq([merge : Nat, continue_target : Nat])
    BY <1>1, <1>10, FrontFacts
  <2>3. f.kind = "switch" => Front(sm) \in Seq(Nat)
    BY <1>1, <1>11, FrontFacts
  <2>. QED  BY <1>1, <2>1, <2>2, <2>3
<1>. QED  BY <1>2, <1>9, <1>10, <1>11, <1>12, Zenon DEF Stacks, ns2

\* a last member taken off and put back
LEMMA PutBack ==
    ASSUME NEW S, NEW s \in Seq(S), s # <<>>
    PROVE  Append(Front(s), Last(s)) = s
<1>1. Len(s) \in Nat \ {0} /\ Front(s) \in Seq(S) /\ Len(Front(s)) = Len(s) - 1 /\ Last(s) = s[Len(s)] /\ Last(s) \in S
      /\ \A i \in 1 .. Len(s) - 1 : Front(s)[i] = s[i]
  BY FrontFacts
<1>. DEFINE u == Append(Front(s), Last(s))
<1>2. u \in Seq(S) /\ Len(u) = Len(s) /\ u[Len(s)] = s[Len(s)] /\ \A i \in 1 .. Len(s) - 1 : u[i] = s[i]
  <2>1. u \in Seq(S) /\ Len(u) = Len(Front(s)) + 1 /\ u[Len(Front(s)) + 1] = Last(s) /\ \A i \in 1 .. Len(Front(s)) : u[i] = Front(s)[i]
    BY <1>1, AppendProperties
  <2>2. Len(Front(s)) + 1 = Len(s)
    BY <1>1
  <2>. HIDE DEF u
  <2>. QED  BY <1>1, <2>1, <2>2
<1>. HIDE DEF u
<1>3. \A i \in 1 .. Len(s) : u[i] = s[i]
  <2>1. \A i \in 1 .. Len(s) : i = Len(s) \/ i \in 1 .. Len(s) - 1
    BY <1>1
  <2>. QED  BY <1>2, <2>1
<1>4. u = s
  BY <1>2, <1>3, SeqEqual
<1>. QED  BY <1>4 DEF u

\* a loop's test or body ends: it enters or leaves breakForLoop only
LEMMA StacksSet ==
    ASSUME NEW ns, NEW bs, NEW ls, NEW sm, Stacks(ns, bs, ls, sm), ns # <<>>,
           NEW f \in Frame, f.kind = Last(ns).kind, f.merge = Last(ns).merge, f.kind = "loop" => LoopBlocks(f) = LoopBlocks(Last(ns))
    PROVE  /\ (Leavable(Last(ns)) <=> Leavable(f)) => Stacks(Append(Front(ns), f), bs, ls, sm)
           /\ ~Leavable(Last(ns)) /\ Leavable(f) => Stacks(Append(Front(ns), f), Append(bs, f.kind = "loop"), ls, sm)
           /\ Leavable(Last(ns)) /\ ~Leavable(f) => Stacks(Append(Front(ns), f), Front(bs), ls, sm)
<1>. DEFINE e == Last(ns)
            bs1 == IF Leavable(e) THEN Front(bs) ELSE bs
            ls1 == IF e.kind = "loop" THEN Front(ls) ELSE ls
            sm1 == IF e.kind = "switch" THEN Front(sm) ELSE sm
<1>1. /\ Stacks(Front(ns), bs1, ls1, sm1)
      /\ Leavable(e) => bs # <<>> /\ Last(bs) = (e.kind = "loop")
      /\ e.kind = "loop" => ls # <<>> /\ Last(ls) = LoopBlocks(e)
      /\ e.kind = "switch" => sm # <<>> /\ Last(sm) = e.merge
  BY StacksPop
<1>2. bs \in Seq(BOOLEAN) /\ ls \in Seq([merge : Nat, continue_target : Nat]) /\ sm \in Seq(Nat)
  BY DEF Stacks
<1>3. Leavable(e) => Append(Front(bs), f.kind = "loop") = bs
  BY <1>1, <1>2, PutBack, Zenon
<1>4. ASSUME f.kind = "loop" PROVE Append(Front(ls), LoopBlocks(f)) = ls
  <2>1. ls # <<>> /\ Last(ls) = LoopBlocks(f)
    BY <1>1, <1>4
  <2>. QED  BY <1>2, <2>1, PutBack, Zenon
<1>5. f.kind = "switch" => Append(Front(sm), f.merge) = sm
  BY <1>1, <1>2, PutBack, Zenon
<1>6. (IF f.kind = "loop" THEN Append(ls1, LoopBlocks(f)) ELSE ls1) = ls /\ (IF f.kind = "switch" THEN Append(sm1, f.merge) ELSE sm1) = sm
  BY <1>4, <1>5
<1>. HIDE DEF bs1, ls1, sm1
<1>7. Stacks(Append(Front(ns), f), IF Leavable(f) THEN Append(bs1, f.kind = "loop") ELSE bs1, ls, sm)
  <2>1. Stacks(Append(Front(ns), f), IF Leavable(f) THEN Append(bs1, f.kind = "loop") ELSE bs1,
               IF f.kind = "loop" THEN Append(ls1, LoopBlocks(f)) ELSE ls1, IF f.kind = "switch" THEN Append(sm1, f.merge) ELSE sm1)
    BY <1>1, StacksPush, Zenon
  <2>. QED  BY <1>6, <2>1, Zenon
<1>8. (Leavable(e) => bs1 = Front(bs)) /\ (~Leavable(e) => bs1 = bs)
  BY DEF bs1
<1>. QED  BY <1>3, <1>7, <1>8, Zenon

\* an addition to any block, made or not, leaves code
LEMMA PutTyped ==
    ASSUME NEW c \in Seq(Seq(Instruction)), NEW b, NEW is \in Seq(Instruction)
    PROVE  Put(c, b, is) \in Seq(Seq(Instruction)) /\ Len(Put(c, b, is)) = Len(c)
<1>1. CASE b \in DOMAIN c
  <2>1. b \in 1 .. Len(c)
    BY <1>1
  <2>. QED  BY <2>1, PutFacts
<1>2. CASE b \notin DOMAIN c
  <2>1. Put(c, b, is) = c
    BY <1>2 DEF Put
  <2>. QED  BY <2>1
<1>. QED  BY <1>1, <1>2

\* the sequences of instructions that the builder adds
LEMMA InstrSeq ==
    /\ \A op \in Ends \cup Merges \cup {"Phi"} : \A t \in Seq(Nat) : <<Instr(op, t)>> \in Seq(Instruction)
    /\ \A o1, o2 \in Ends \cup Merges \cup {"Phi"} : \A t1, t2 \in Seq(Nat) : <<Instr(o1, t1), Instr(o2, t2)>> \in Seq(Instruction)
<1>1. \A op \in Ends \cup Merges \cup {"Phi"} : \A t \in Seq(Nat) : Instr(op, t) \in Instruction
  BY InstrType, Zenon
<1>. QED  BY <1>1

\* which instruction is of which kind
LEMMA Ops ==
    /\ "Branch" \in Branches /\ "BranchConditional" \in Branches /\ "Switch" \in Branches
    /\ "SelectionMerge" \in Merges /\ "LoopMerge" \in Merges /\ "Return" \in Ends
    /\ Branches \subseteq Ends /\ Ends \subseteq Ends \cup Merges \cup {"Phi"} /\ Merges \subseteq Ends \cup Merges \cup {"Phi"}
    /\ "Phi" \in Ends \cup Merges \cup {"Phi"} /\ "Return" \notin Branches
BY DEF Branches, Merges, Ends

\* the lists of targets that the builder makes
LEMMA NatTargets ==
    /\ <<>> \in Seq(Nat) /\ (\A x \in Nat : <<x>> \in Seq(Nat)) /\ (\A x, y \in Nat : <<x, y>> \in Seq(Nat))
OBVIOUS

-----------------------------------------------------------------------------
(* A step of the builder takes the code c to c2: blocks may be added, and  *)
(* a block gets its end only when it has none.                             *)

Headers(ns) == {Header(ns[i]) : i \in DOMAIN ns}

CodeGrows(g, c, c2) ==
    /\ c2 \in Seq(Seq(Instruction)) /\ g.n <= Len(c2) /\ Len(c2) <= MaxBlocks
    /\ \A b \in 1 .. Len(c2) : WellFormed(c2[b]) /\ SuccOf(c2[b]) \subseteq 1 .. Len(c2)
    /\ \A b \in 1 .. g.n : c2[b] = c[b] \/ Fresh(c[b])

\* the body of the loop at k0 ends
Ending(g, ns, n2, k0) ==
    \/ k0 = 0
    \/ /\ n2 = g.n /\ k0 \in 1 .. g.n /\ g.tail[k0] >= g.n
       /\ \A i \in DOMAIN ns : ns[i].kind = "loop" /\ ns[i].head = k0 => ~Terminal(ns[i])

Growth(g, g2, c2, ns, h0, m0, c0, R0, k0) ==
    Grown(g, g2, c2, Headers(ns), h0, m0, c0, R0, k0) /\ Extends(g, g2, h0) /\ Shape(g2, ns)

\* what is true of one frame while the function is built
LEMMA BuiltFrame ==
    ASSUME NEW g, NEW c, NEW ns, NEW bp, Built(g, c, ns, bp), NEW i \in DOMAIN ns
    PROVE  /\ Len(ns) \in Nat /\ DOMAIN ns = 1 .. Len(ns) /\ i \in 1 .. Len(ns) /\ ns[i] \in Frame
           /\ FrameOK(ns[i]) /\ FrameInv(g, c, ns[i]) /\ Names(ns[i]) \subseteq 1 .. g.n
           /\ Header(ns[i]) \in 1 .. g.n /\ Header(ns[i]) # 0 /\ ns[i].merge \in 1 .. g.n /\ First(ns[i]) \in Nat
           /\ g.mrg[Header(ns[i])] = ns[i].merge /\ g.mrg[Header(ns[i])] # 0
           /\ g.cnt[Header(ns[i])] = Cont(ns[i]) /\ g.region[Header(ns[i])] = Region(g.n, ns[i])
           /\ ns[i].kind = "loop" => Header(ns[i]) = ns[i].head /\ Cont(ns[i]) = ns[i].continue_target
           /\ g.n \in Nat \ {0} /\ Header(ns[i]) \in Headers(ns) /\ g.tail[Header(ns[i])] \in Nat
<1>1. ns \in Seq(Frame) /\ FrameOK(ns[i]) /\ FrameInv(g, c, ns[i]) /\ Structured(g)
  BY DEF Built
<1>2. g.n \in Nat \ {0} /\ Names(ns[i]) \subseteq 1 .. g.n
  BY <1>1 DEF FrameInv, Structured, Typed
<1>3. Header(ns[i]) \in 1 .. g.n /\ ns[i].merge \in 1 .. g.n /\ First(ns[i]) \in Nat /\ Header(ns[i]) # 0
  BY <1>1, <1>2, FrameFacts
<1>4. /\ g.mrg[Header(ns[i])] = ns[i].merge /\ g.cnt[Header(ns[i])] = Cont(ns[i]) /\ g.region[Header(ns[i])] = Region(g.n, ns[i])
  BY <1>1 DEF FrameInv
<1>5. ns[i].kind = "loop" => Header(ns[i]) = ns[i].head /\ Cont(ns[i]) = ns[i].continue_target
  BY DEF Header, Cont
<1>6. Len(ns) \in Nat /\ DOMAIN ns = 1 .. Len(ns) /\ i \in 1 .. Len(ns) /\ ns[i] \in Frame
  BY <1>1
<1>7. g.tail[Header(ns[i])] \in Nat
  BY <1>1, <1>3, ConstructFacts
<1>. QED  BY <1>1, <1>2, <1>3, <1>4, <1>5, <1>6, <1>7 DEF Headers

\* the graph grown, at one block
LEMMA GrownAt ==
    ASSUME NEW g, NEW g2, NEW c2, NEW H, NEW h0, NEW m0, NEW c0, NEW R0, NEW k0, Grown(g, g2, c2, H, h0, m0, c0, R0, k0),
           g.n \in Nat, NEW h \in 1 .. g2.n
    PROVE  /\ g2.n = Len(c2) /\ g2.succ[h] = SuccOf(c2[h])
           /\ h = h0 => g2.mrg[h] = m0 /\ g2.cnt[h] = c0 /\ g2.region[h] = R0
           /\ h # h0 /\ h <= g.n => /\ h \in 1 .. g.n /\ g2.mrg[h] = g.mrg[h] /\ g2.cnt[h] = g.cnt[h]
                                    /\ h \in H => g2.region[h] = g.region[h] \cup (g.n + 1 .. g2.n)
                                    /\ h \notin H => g2.region[h] = g.region[h]
           /\ h # h0 /\ ~(h <= g.n) => g2.mrg[h] = 0 /\ g2.cnt[h] = 0 /\ (h \notin H => g2.region[h] = {})
           /\ h = k0 => g2.tail[h] = g.n
           /\ h # k0 /\ h <= g.n => g2.tail[h] = g.tail[h]
           /\ h # k0 /\ ~(h <= g.n) => g2.tail[h] = MaxBlocks
<1>1. h <= g.n => h \in 1 .. g.n
  OBVIOUS
<1>2. g2.n = Len(c2) /\ g2.succ[h] = SuccOf(c2[h])
  BY Zenon DEF Grown
<1>3. h = h0 => g2.mrg[h] = m0 /\ g2.cnt[h] = c0 /\ g2.region[h] = R0
  BY Zenon DEF Grown
<1>4. h # h0 /\ h <= g.n => /\ g2.mrg[h] = g.mrg[h] /\ g2.cnt[h] = g.cnt[h]
                            /\ h \in H => g2.region[h] = g.region[h] \cup (g.n + 1 .. g2.n)
                            /\ h \notin H => g2.region[h] = g.region[h]
  BY Zenon DEF Grown
<1>5. h # h0 /\ ~(h <= g.n) => g2.mrg[h] = 0 /\ g2.cnt[h] = 0 /\ (h \notin H => g2.region[h] = {})
  BY Zenon DEF Grown
<1>6. /\ h = k0 => g2.tail[h] = g.n
      /\ h # k0 /\ h <= g.n => g2.tail[h] = g.tail[h]
      /\ h # k0 /\ ~(h <= g.n) => g2.tail[h] = MaxBlocks
  BY Zenon DEF Grown
<1>. QED  BY <1>1, <1>2, <1>3, <1>4, <1>5, <1>6

\* the graph grows with the code, while the function is built
LEMMA Grows ==
    ASSUME NEW g, NEW c, NEW ns, NEW bp, Built(g, c, ns, bp), NEW c2, CodeGrows(g, c, c2),
           NEW h0, NEW m0, NEW c0, NEW R0, Opening(g, Len(c2), Headers(ns), h0, m0, c0, R0),
           NEW k0, Ending(g, ns, Len(c2), k0)
    PROVE  \E g2 : Growth(g, g2, c2, ns, h0, m0, c0, R0, k0)
<1>1. Structured(g) /\ Matches(g, c, ns) /\ Closed(g, ns, bp) /\ ns \in Seq(Frame)
  BY DEF Built
<1>2. c2 \in Seq(Seq(Instruction)) /\ Len(c2) \in Nat /\ g.n <= Len(c2) /\ g.n \in Nat \ {0} /\ Len(c2) <= MaxBlocks /\ MaxBlocks \in Nat
  BY <1>1, StructuredFlowAssumption DEF CodeGrows, Structured, Typed
<1>3. ASSUME NEW p \in 1 .. g.n PROVE g.succ[p] \subseteq SuccOf(c2[p])
  <2>1. WellFormed(c[p]) /\ g.succ[p] = SuccOf(c[p])
    BY <1>1 DEF Matches
  <2>2. CASE c2[p] = c[p]
    BY <2>1, <2>2
  <2>3. CASE Fresh(c[p])
    BY <2>1, <2>3, FreshBlock
  <2>. QED  BY <2>2, <2>3 DEF CodeGrows
<1>4. Headers(ns) \subseteq 1 .. g.n /\ \A h \in Headers(ns) : g.mrg[h] # 0
  <2>1. ASSUME NEW i \in DOMAIN ns PROVE Header(ns[i]) \in 1 .. g.n /\ g.mrg[Header(ns[i])] # 0
    BY BuiltFrame
  <2>. QED  BY <2>1 DEF Headers
<1>5. \E g2 : Grown(g, g2, c2, Headers(ns), h0, m0, c0, R0, k0) /\ Extends(g, g2, h0)
  <2>1. k0 # 0 => k0 \in 1 .. g.n /\ g.tail[k0] >= g.n
    BY DEF Ending
  <2>2. \A b \in 1 .. Len(c2) : SuccOf(c2[b]) \subseteq 1 .. Len(c2)
    BY DEF CodeGrows
  <2>. QED  BY <1>1, <1>2, <1>3, <1>4, <2>1, <2>2, Grow
<1>6. PICK g2 : Grown(g, g2, c2, Headers(ns), h0, m0, c0, R0, k0) /\ Extends(g, g2, h0)
  BY <1>5
<1>g. ASSUME NEW h \in 1 .. g2.n
      PROVE  /\ h = h0 => g2.mrg[h] = m0 /\ g2.cnt[h] = c0 /\ g2.region[h] = R0
             /\ h # h0 /\ h <= g.n => h \in 1 .. g.n /\ g2.mrg[h] = g.mrg[h] /\ g2.cnt[h] = g.cnt[h]
             /\ h # h0 /\ ~(h <= g.n) => g2.mrg[h] = 0 /\ g2.cnt[h] = 0
  <2>1. g.n \in Nat
    BY <1>2
  <2>. QED  BY <1>6, <2>1, GrownAt
<1>7. Typed(g2) /\ Constructs(g2) /\ OneOwner(g2) /\ g2.n = Len(c2)
  BY <1>1, <1>6, ConstructsStep, OneOwnerStep DEF Extends, Grown
<1>8. ASSUME NEW h \in 1 .. g.n, g.mrg[h] # 0
      PROVE  /\ h # h0 /\ h \in 1 .. g2.n /\ h <= g.n /\ g2.mrg[h] = g.mrg[h] /\ g2.cnt[h] = g.cnt[h]
             /\ g2.region[h] = IF h \in Headers(ns) THEN g.region[h] \cup (g.n + 1 .. g2.n) ELSE g.region[h]
             /\ g2.tail[h] = IF h = k0 THEN g.n ELSE g.tail[h]
  <2>1. h # h0
    BY <1>8 DEF Opening
  <2>2. h \in 1 .. g2.n /\ h <= g.n
    BY <1>2, <1>7
  <2>. QED  BY <1>6, <2>1, <2>2 DEF Grown
<1>9. ASSUME NEW b, Unowned(g, b), b \in 1 .. g.n PROVE Unowned(g2, b)
  <2>. SUFFICES ASSUME NEW h \in 1 .. g2.n PROVE g2.mrg[h] # b /\ g2.cnt[h] # b
    BY DEF Unowned
  <2>1. CASE h = h0
    <3>1. g2.mrg[h] = m0 /\ g2.cnt[h] = c0 /\ b # 0
      <4>1. g2.mrg[h] = m0 /\ g2.cnt[h] = c0
        BY <1>g, <2>1
      <4>. QED  BY <1>2, <1>9, <4>1
    <3>2. m0 \in g.n + 1 .. Len(c2) /\ R0 \subseteq g.n + 1 .. Len(c2) /\ (c0 = 0 \/ c0 \in R0)
      BY <1>2, <1>7, <2>1 DEF Opening
    <3>3. b \notin g.n + 1 .. Len(c2)
      BY <1>2, <1>9
    <3>. QED  BY <3>1, <3>2, <3>3
  <2>2. CASE h # h0 /\ h <= g.n
    <3>1. h \in 1 .. g.n /\ g2.mrg[h] = g.mrg[h] /\ g2.cnt[h] = g.cnt[h]
      BY <1>g, <2>2
    <3>. QED  BY <1>9, <3>1 DEF Unowned
  <2>3. CASE h # h0 /\ ~(h <= g.n)
    <3>1. g2.mrg[h] = 0 /\ g2.cnt[h] = 0 /\ b # 0
      <4>1. g2.mrg[h] = 0 /\ g2.cnt[h] = 0
        BY <1>g, <2>3
      <4>. QED  BY <1>2, <1>9, <4>1
    <3>. QED  BY <3>1
  <2>. QED  BY <2>1, <2>2, <2>3
<1>10. ASSUME NEW i \in DOMAIN ns
       PROVE  /\ FrameOK(ns[i]) /\ Names(ns[i]) \subseteq 1 .. g2.n
              /\ g2.mrg[Header(ns[i])] = ns[i].merge /\ g2.cnt[Header(ns[i])] = Cont(ns[i])
              /\ g2.region[Header(ns[i])] = Region(g2.n, ns[i])
              /\ ns[i].kind = "loop" => Unowned(g2, ns[i].head) /\ (~Terminal(ns[i]) => TailOf(g2, ns[i].head) = {})
  <2>1. /\ FrameOK(ns[i]) /\ FrameInv(g, c, ns[i]) /\ Names(ns[i]) \subseteq 1 .. g.n
        /\ Header(ns[i]) \in 1 .. g.n /\ ns[i].merge \in 1 .. g.n /\ First(ns[i]) \in Nat
        /\ g.mrg[Header(ns[i])] = ns[i].merge /\ g.mrg[Header(ns[i])] # 0
        /\ g.cnt[Header(ns[i])] = Cont(ns[i]) /\ g.region[Header(ns[i])] = Region(g.n, ns[i])
        /\ Header(ns[i]) \in Headers(ns)
    BY BuiltFrame
  <2>2. /\ g2.mrg[Header(ns[i])] = ns[i].merge /\ g2.cnt[Header(ns[i])] = Cont(ns[i])
        /\ g2.region[Header(ns[i])] = g.region[Header(ns[i])] \cup (g.n + 1 .. g2.n)
        /\ g2.tail[Header(ns[i])] = IF Header(ns[i]) = k0 THEN g.n ELSE g.tail[Header(ns[i])]
    BY <1>8, <2>1
  <2>3. First(ns[i]) <= ns[i].merge
    BY <2>1, FrameFacts
  <2>4. g2.region[Header(ns[i])] = Region(g2.n, ns[i])
    <3>. DEFINE Glued(a, m, n1, n2) == ((a .. n1) \ {m}) \cup (n1 + 1 .. n2) = (a .. n2) \ {m}
    <3>1. \A a, m, n1, n2 \in Nat : a <= m /\ m <= n1 /\ n1 <= n2 => Glued(a, m, n1, n2)
      OBVIOUS
    <3>. HIDE DEF Glued
    <3>2. /\ g.n \in Nat /\ g2.n \in Nat /\ g.n <= g2.n /\ ns[i].merge \in Nat /\ ns[i].merge <= g.n
          /\ First(ns[i]) \in Nat /\ First(ns[i]) <= ns[i].merge
      BY <1>2, <1>7, <2>1, <2>3
    <3>3. g.region[Header(ns[i])] = (First(ns[i]) .. g.n) \ {ns[i].merge}
      BY <2>1, Zenon DEF Region
    <3>4. Glued(First(ns[i]), ns[i].merge, g.n, g2.n)
      BY <3>1, <3>2
    <3>. QED  BY <2>2, <3>3, <3>4, Zenon DEF Glued, Region
  <2>5. ASSUME ns[i].kind = "loop" PROVE Unowned(g2, ns[i].head) /\ (~Terminal(ns[i]) => TailOf(g2, ns[i].head) = {})
    <3>1. Header(ns[i]) = ns[i].head
      BY <2>5 DEF Header
    <3>2. Unowned(g, ns[i].head) /\ (~Terminal(ns[i]) => g.tail[ns[i].head] = MaxBlocks)
      BY <2>1, <2>5 DEF FrameInv
    <3>3. Unowned(g2, ns[i].head)
      BY <1>9, <2>1, <3>1, <3>2
    <3>4. ASSUME ~Terminal(ns[i]), NEW b \in g2.region[ns[i].head] PROVE ~(b > g2.tail[ns[i].head])
      <4>1. b \in 1 .. g2.n
        <5>1. ns[i].head \in 1 .. g2.n
          BY <1>2, <1>7, <2>1, <3>1
        <5>2. g2.region[ns[i].head] \in SUBSET (2 .. g2.n)
          BY <1>7, <5>1 DEF Typed
        <5>. QED  BY <1>2, <1>7, <3>4, <5>2
      <4>2. g2.tail[ns[i].head] = MaxBlocks \/ (g2.tail[ns[i].head] = g.n /\ g2.n = g.n)
        BY <1>2, <1>7, <2>1, <2>2, <3>1, <3>2, <3>4 DEF Ending
      <4>. QED  BY <1>2, <1>7, <4>1, <4>2
    <3>. QED  BY <3>3, <3>4 DEF TailOf
  <2>6. Names(ns[i]) \subseteq 1 .. g2.n
    BY <1>2, <1>7, <2>1
  <2>. QED  BY <2>1, <2>2, <2>4, <2>5, <2>6
<1>11. ASSUME NEW i \in DOMAIN ns, NEW j \in DOMAIN ns, i < j PROVE Inside2(g2, ns[i], ns[j])
  <2>1. Within(g, ns[i], ns[j]) /\ Point(g, ns[i], Header(ns[j]))
    BY <1>11 DEF Built, Within
  <2>2. FrameOK(ns[i]) /\ FrameInv(g, c, ns[i]) /\ Header(ns[i]) \in 1 .. g.n /\ g.mrg[Header(ns[i])] # 0
    BY BuiltFrame
  <2>3. Region(g.n, ns[i]) \subseteq Region(g2.n, ns[i])
    <3>1. First(ns[i]) \in Nat
      BY BuiltFrame
    <3>. QED  BY <1>2, <1>7, <3>1 DEF Region
  <2>4. Terminal(ns[i]) => ns[i].kind = "loop" /\ Header(ns[i]) = ns[i].head /\ g2.tail[ns[i].head] = g.tail[ns[i].head]
    <3>1. Terminal(ns[i]) => ns[i].kind = "loop"
      BY <2>2, FrameFacts
    <3>2. ns[i].kind = "loop" => Header(ns[i]) = ns[i].head
      BY DEF Header
    <3>3. Terminal(ns[i]) => ns[i].head # k0
      BY <2>2, <3>1, <3>2 DEF Ending
    <3>. QED  BY <1>8, <2>2, <3>1, <3>2, <3>3
  <2>5. ns[i].kind = "loop" /\ ~Terminal(ns[i]) => ns[i].continue_target \in Await(ns[i])
    <3>1. ns[i].kind = "loop" => ns[i].place \in {"test", "body", "terminal"}
      BY <2>2, FrameKinds DEF FrameOK
    <3>. QED  BY <3>1 DEF Await, Terminal
  <2>6. PlaceIn(g2, ns[i], Header(ns[j]))
    BY <2>1, <2>3, <2>4, <2>5 DEF Point, PlaceIn
  <2>. QED  BY <2>1, <2>4, <2>6 DEF Inside2, Within
<1>12. ASSUME NEW h \in 1 .. g2.n, g2.mrg[h] # 0
       PROVE  (\E i \in DOMAIN ns : h = Header(ns[i])) \/ \A i \in DOMAIN ns : Names(ns[i]) \cap g2.region[h] = {}
  <2>1. CASE h = h0
    <3>1. g2.region[h] = R0 /\ R0 \subseteq g.n + 1 .. Len(c2)
      <4>1. g2.region[h] = R0
        BY <1>g, <2>1
      <4>2. h0 # 0
        BY <1>2, <1>7, <2>1
      <4>. QED  BY <4>1, <4>2 DEF Opening
    <3>2. ASSUME NEW i \in DOMAIN ns PROVE Names(ns[i]) \cap g2.region[h] = {}
      <4>1. Names(ns[i]) \subseteq 1 .. g.n
        BY BuiltFrame
      <4>. QED  BY <1>2, <3>1, <4>1
    <3>. QED  BY <3>2
  <2>2. CASE h # h0
    <3>1. h \in 1 .. g.n /\ g.mrg[h] # 0
      <4>1. /\ h <= g.n => h \in 1 .. g.n /\ g2.mrg[h] = g.mrg[h]
            /\ ~(h <= g.n) => g2.mrg[h] = 0
        BY <1>g, <2>2
      <4>. QED  BY <1>12, <4>1
    <3>2. CASE h \in Headers(ns)
      BY <3>2 DEF Headers
    <3>3. CASE h \notin Headers(ns)
      <4>1. g2.region[h] = g.region[h]
        BY <1>8, <3>1, <3>3
      <4>. QED  BY <1>1, <3>1, <3>3, <4>1 DEF Closed, Headers
    <3>. QED  BY <3>2, <3>3
  <2>. QED  BY <2>1, <2>2
<1>13. Shape(g2, ns)
  BY <1>1, <1>7, <1>10, <1>11, <1>12, Zenon DEF Shape
<1>. QED  BY <1>6, <1>13 DEF Growth

\* where a branch may come from

LEMMA PointPlace ==
    ASSUME NEW g, NEW f, FrameOK(f), NEW b, Point(g, f, b)
    PROVE  PlaceIn(g, f, b)
<1>1. f.kind = "loop" /\ ~Terminal(f) => f.continue_target \in Await(f)
  <2>1. f.kind = "loop" => f.place \in {"test", "body", "terminal"}
    BY FrameKinds DEF FrameOK
  <2>. QED  BY <2>1 DEF Await, Terminal
<1>. QED  BY <1>1 DEF Point, PlaceIn

\* the names of a frame are inside the frames around it
LEMMA BelowPoint ==
    ASSUME NEW g, g.n \in Nat, NEW e, NEW f, FrameOK(e), FrameOK(f), Within(g, e, f), NEW b \in Names(f), b \in 1 .. g.n,
           e.kind = "loop" => g.tail[e.head] \in Nat
    PROVE  Point(g, e, b) /\ (b >= First(f) => b \notin Names(e))
<1>1. Header(f) \in Names(f) /\ (b = Header(f) \/ b >= First(f)) /\ First(f) \in Nat
  BY FrameFacts
<1>2. First(e) <= e.merge /\ e.merge \in Names(e) /\ First(e) \in Nat /\ e.merge \in Nat /\ Await(e) \subseteq Names(e) /\ Header(e) < First(e)
      /\ Header(e) \in Nat /\ (Terminal(e) => e.kind = "loop") /\ Header(e) \in Names(e)
      /\ Names(e) \subseteq Nat /\ (\A x \in Names(e) : x = Header(e) \/ x >= First(e))
  BY FrameFacts
<1>3. /\ \A x \in Names(e) : x < First(f)
      /\ Point(g, e, Header(f)) /\ (Terminal(e) => First(f) > g.tail[e.head])
  BY DEF Within
<1>4. CASE b >= First(f)
  <2>1. b \notin Names(e) /\ b \in Region(g.n, e)
    <3>1. b \notin Names(e)
      <4>1. ASSUME b \in Names(e) PROVE FALSE
        <5>1. b < First(f)
          BY <1>3, <4>1
        <5>. QED  BY <1>1, <1>4, <5>1
      <4>. QED  BY <4>1
    <3>2. e.merge < First(f)
      BY <1>2, <1>3
    <3>. QED  BY <1>1, <1>2, <1>4, <3>1, <3>2 DEF Region
  <2>2. Terminal(e) => b > g.tail[e.head]
    <3>1. ASSUME Terminal(e) PROVE b > g.tail[e.head]
      <4>1. First(f) > g.tail[e.head] /\ b >= First(f)
        BY <1>3, <1>4, <3>1
      <4>2. g.tail[e.head] \in Nat
        BY <1>2, <3>1
      <4>. QED  BY <1>1, <4>1, <4>2
    <3>. QED  BY <3>1
  <2>. QED  BY <1>2, <2>1, <2>2 DEF Point
<1>5. CASE b = Header(f)
  <2>1. Header(f) < First(f) /\ Header(f) \in Nat
    BY FrameFacts
  <2>2. ~(b >= First(f))
    BY <1>1, <1>5, <2>1
  <2>. QED  BY <1>3, <1>5, <2>2
<1>. QED  BY <1>1, <1>4, <1>5

\* the blocks that a branch may be put at are places in every open construct
LEMMA SourceFrom ==
    ASSUME NEW g, NEW c, NEW ns, NEW bp, Built(g, c, ns, bp), NEW g2, NEW c2, g.n <= Len(c2), Len(c2) \in Nat,
           NEW h0, NEW m0, NEW c0, NEW R0, NEW k0, Opening(g, Len(c2), Headers(ns), h0, m0, c0, R0),
           Ending(g, ns, Len(c2), k0), Growth(g, g2, c2, ns, h0, m0, c0, R0, k0),
           NEW p \in 1 .. g.n, p # h0,
           \A j \in DOMAIN ns : Point(g, ns[j], p) \/ PlaceIn(g, ns[j], p) \/ (j = Len(ns) /\ p = Header(ns[j]) /\ ~Terminal(ns[j])),
           \A h \in 1 .. g.n : g.mrg[h] # 0 /\ p \in g.region[h] \cup {h} => h \in Headers(ns)
    PROVE  Source(g2, ns, p)
<1>1. Grown(g, g2, c2, Headers(ns), h0, m0, c0, R0, k0) /\ g2.n = Len(c2) /\ g.n \in Nat
  <2>1. g.n \in Nat
    BY DEF Built, Structured, Typed
  <2>. QED  BY <2>1 DEF Growth, Grown
<1>2. p \in 1 .. g2.n
  BY <1>1
<1>3. ASSUME NEW j \in DOMAIN ns, PlaceIn(g, ns[j], p) PROVE PlaceIn(g2, ns[j], p)
  <2>1. FrameOK(ns[j]) /\ First(ns[j]) \in Nat /\ Header(ns[j]) \in 1 .. g.n
        /\ (ns[j].kind = "loop" => Header(ns[j]) = ns[j].head) /\ g.mrg[Header(ns[j])] # 0
    BY BuiltFrame
  <2>2. p \in Region(g2.n, ns[j])
    BY <1>1, <1>3, <2>1 DEF PlaceIn, Region
  <2>3. Terminal(ns[j]) /\ ns[j].kind = "loop" => g2.tail[ns[j].head] = g.tail[ns[j].head]
    <3>1. ASSUME Terminal(ns[j]), ns[j].kind = "loop" PROVE g2.tail[ns[j].head] = g.tail[ns[j].head]
      <4>1. ns[j].head # k0
        BY <2>1, <3>1 DEF Ending
      <4>2. ns[j].head \in 1 .. g2.n /\ ns[j].head <= g.n
        BY <1>1, <2>1, <3>1
      <4>. QED  BY <1>1, <4>1, <4>2, GrownAt
    <3>. QED  BY <3>1
  <2>. QED  BY <1>3, <2>2, <2>3 DEF PlaceIn
<1>4. ASSUME NEW j \in DOMAIN ns PROVE PlaceIn(g2, ns[j], p) \/ (j = Len(ns) /\ p = Header(ns[j]) /\ ~Terminal(ns[j]))
  <2>1. FrameOK(ns[j])
    BY BuiltFrame
  <2>. QED  BY <1>3, <2>1, PointPlace
<1>5. ASSUME NEW h \in 1 .. g2.n, g2.mrg[h] # 0, p \in g2.region[h] \cup {h} PROVE \E i \in DOMAIN ns : h = Header(ns[i])
  <2>1. SUFFICES h \in Headers(ns)
    BY DEF Headers
  <2>2. SUFFICES ASSUME h \notin Headers(ns) PROVE FALSE
    OBVIOUS
  <2>3. h # h0
    <3>1. ASSUME h = h0 PROVE FALSE
      <4>1. g2.region[h] = R0
        BY <1>1, <3>1, GrownAt
      <4>2. R0 \subseteq g.n + 1 .. Len(c2)
        BY <1>1, <3>1 DEF Opening
      <4>3. p \notin g.n + 1 .. Len(c2)
        BY <1>1
      <4>. QED  BY <1>5, <3>1, <4>1, <4>2, <4>3
    <3>. QED  BY <3>1
  <2>4. h <= g.n
    BY <1>1, <1>5, <2>3, GrownAt
  <2>5. h \in 1 .. g.n /\ g2.mrg[h] = g.mrg[h] /\ g2.region[h] = g.region[h]
    BY <1>1, <2>2, <2>3, <2>4, GrownAt
  <2>. QED  BY <1>5, <2>2, <2>5
<1>. QED  BY <1>2, <1>4, <1>5 DEF Source

\* the build point, the header of the innermost construct, and a segment of it
LEMMA Sources ==
    ASSUME NEW g, NEW c, NEW ns, NEW bp, Built(g, c, ns, bp), NEW g2, NEW c2, g.n <= Len(c2), Len(c2) \in Nat,
           NEW h0, NEW m0, NEW c0, NEW R0, NEW k0, Opening(g, Len(c2), Headers(ns), h0, m0, c0, R0),
           Ending(g, ns, Len(c2), k0), Growth(g, g2, c2, ns, h0, m0, c0, R0, k0)
    PROVE  /\ bp # h0 /\ (\A i \in DOMAIN ns : ns[i].place # "head") => Source(g2, ns, bp)
           /\ ns # <<>> /\ ~Terminal(ns[Len(ns)]) => Source(g2, ns, Header(ns[Len(ns)]))
           /\ ns # <<>> /\ ns[Len(ns)].kind = "switch" => \A b \in Segments(ns[Len(ns)]) : b # h0 => Source(g2, ns, b)
<1>1. Structured(g) /\ Matches(g, c, ns) /\ At(g, c, ns, bp) /\ Closed(g, ns, bp) /\ g.n \in Nat /\ ns \in Seq(Frame)
  BY DEF Built, Structured, Typed
<1>2. ASSUME NEW b \in 1 .. g.n, Fresh(c[b]), g.mrg[b] # 0 PROVE b \in Headers(ns)
  <2>1. WellFormed(c[b])
    BY <1>1 DEF Matches
  <2>2. MergeOf(c[b]) = <<>>
    BY <1>2, <2>1, FreshBlock
  <2>3. PICK i \in DOMAIN ns : IsIf(ns[i]) /\ ns[i].header = b
    BY <1>1, <1>2, <2>2 DEF Matches
  <2>4. Header(ns[i]) = b
    BY <2>3 DEF Header, IsIf
  <2>. QED  BY <2>4 DEF Headers
<1>3. ASSUME bp # h0, \A i \in DOMAIN ns : ns[i].place # "head" PROVE Source(g2, ns, bp)
  <2>1. bp \in 1 .. g.n /\ Fresh(c[bp]) /\ \A i \in DOMAIN ns : Point(g, ns[i], bp)
    BY <1>1, <1>3 DEF At
  <2>2. ASSUME NEW h \in 1 .. g.n, g.mrg[h] # 0, bp \in g.region[h] \cup {h} PROVE h \in Headers(ns)
    <3>1. CASE h = bp
      BY <1>2, <2>1, <2>2, <3>1
    <3>2. CASE bp \in g.region[h]
      BY <1>1, <2>2, <3>2 DEF Closed, Headers
    <3>. QED  BY <2>2, <3>1, <3>2
  <2>. QED  BY <1>3, <2>1, <2>2, SourceFrom
<1>4. ASSUME ns # <<>>
      PROVE  /\ ~Terminal(ns[Len(ns)]) => Source(g2, ns, Header(ns[Len(ns)]))
             /\ ns[Len(ns)].kind = "switch" => \A b \in Segments(ns[Len(ns)]) : b # h0 => Source(g2, ns, b)
  <2>. DEFINE l == Len(ns)
              f == ns[l]
  <2>1. l \in DOMAIN ns /\ DOMAIN ns = 1 .. l /\ l \in Nat
    BY <1>1, <1>4
  <2>. HIDE DEF l
  <2>2. FrameOK(f) /\ FrameInv(g, c, f) /\ Names(f) \subseteq 1 .. g.n /\ Header(f) \in Headers(ns) /\ Header(f) \in Names(f)
        /\ g.mrg[Header(f)] # 0 /\ g.region[Header(f)] = Region(g.n, f) /\ First(f) \in Nat /\ Header(f) \in 1 .. g.n
    BY <2>1, BuiltFrame, FrameFacts
  <2>3. ASSUME NEW b \in Names(f), NEW j \in DOMAIN ns, j # l PROVE Point(g, ns[j], b)
    <3>1. j < l
      BY <2>1, <2>3
    <3>2. Within(g, ns[j], f)
      BY <2>1, <3>1 DEF Built
    <3>3. FrameOK(ns[j]) /\ (ns[j].kind = "loop" => g.tail[ns[j].head] \in Nat)
      <4>1. FrameOK(ns[j]) /\ g.tail[Header(ns[j])] \in Nat /\ (ns[j].kind = "loop" => Header(ns[j]) = ns[j].head)
        BY BuiltFrame
      <4>. QED  BY <4>1
    <3>. QED  BY <1>1, <2>2, <2>3, <3>2, <3>3, BelowPoint
  <2>4. ASSUME NEW b \in Names(f), NEW h \in 1 .. g.n, g.mrg[h] # 0, b \in g.region[h] PROVE h \in Headers(ns)
    BY <1>1, <2>1, <2>4 DEF Closed, Headers
  <2>5. ASSUME ~Terminal(f) PROVE Source(g2, ns, Header(f))
    <3>1. Header(f) # h0
      BY <2>2 DEF Opening
    <3>2. \A j \in DOMAIN ns : Point(g, ns[j], Header(f)) \/ (j = Len(ns) /\ Header(f) = Header(ns[j]) /\ ~Terminal(ns[j]))
      BY <2>2, <2>3, <2>5 DEF l
    <3>3. \A h \in 1 .. g.n : g.mrg[h] # 0 /\ Header(f) \in g.region[h] \cup {h} => h \in Headers(ns)
      BY <2>2, <2>4
    <3>. QED  BY <2>2, <3>1, <3>2, <3>3, SourceFrom
  <2>6. ASSUME f.kind = "switch", NEW b \in Segments(f), b # h0 PROVE Source(g2, ns, b)
    <3>1. b \in Await(f) /\ b \in Entries(f)
      BY <2>6 DEF Await, Entries
    <3>2. b \in Names(f) /\ b \in 1 .. g.n /\ b # f.merge /\ b # Header(f) /\ b >= First(f)
      BY <2>2, <3>1, FrameFacts
    <3>3. PlaceIn(g, f, b)
      BY <1>1, <2>2, <2>6, <3>2 DEF PlaceIn, Region
    <3>4. \A j \in DOMAIN ns : Point(g, ns[j], b) \/ PlaceIn(g, ns[j], b)
      BY <2>3, <3>2, <3>3 DEF l
    <3>5. ASSUME NEW h \in 1 .. g.n, g.mrg[h] # 0, b \in g.region[h] \cup {h} PROVE h \in Headers(ns)
      <4>1. CASE h = b
        <5>1. Fresh(c[b])
          BY <2>2, <3>1 DEF FrameInv, Fresh
        <5>. QED  BY <1>2, <3>5, <4>1, <5>1
      <4>2. CASE b \in g.region[h]
        BY <2>4, <3>2, <3>5, <4>2
      <4>. QED  BY <3>5, <4>1, <4>2
    <3>. QED  BY <2>6, <3>2, <3>4, <3>5, SourceFrom
  <2>. QED  BY <2>5, <2>6 DEF l
<1>. QED  BY <1>3, <1>4

-----------------------------------------------------------------------------
\* Where the branches of the builder go

\* what a frame names is behind the continue target of the loops around it whose bodies have ended
LEMMA InTail ==
    ASSUME NEW g, NEW fs, Shape(g, fs), NEW i \in DOMAIN fs, NEW j \in DOMAIN fs, j < i, Terminal(fs[j]),
           NEW b \in Names(fs[i]), b # Header(fs[i]) \/ fs[i].kind = "loop"
    PROVE  b \in TailOf(g, fs[j].head)
<1>1. FrameOK(fs[i]) /\ FrameOK(fs[j]) /\ g.n \in Nat /\ Names(fs[i]) \subseteq 1 .. g.n /\ First(fs[i]) \in Nat
      /\ g.region[Header(fs[j])] = Region(g.n, fs[j]) /\ First(fs[j]) \in Nat /\ g.tail[Header(fs[j])] \in Nat
  BY ShapeFacts
<1>2. fs[j].kind = "loop" /\ Header(fs[j]) = fs[j].head
  BY <1>1, FrameFacts DEF Header
<1>3. Inside2(g, fs[j], fs[i])
  BY DEF Shape
<1>4. fs[j].merge \in Names(fs[j]) /\ fs[j].continue_target \in Names(fs[j]) /\ First(fs[j]) <= fs[j].merge /\ fs[j].merge \in Nat
      /\ Names(fs[j]) \subseteq Nat
  <2>1. fs[j].continue_target \in Names(fs[j])
    BY <1>2 DEF Names
  <2>. QED  BY <1>1, <2>1, FrameFacts
<1>5. fs[j].merge < First(fs[i]) /\ First(fs[i]) > g.tail[fs[j].head]
  BY <1>3, <1>4 DEF Inside2
<1>6. (b = Header(fs[i]) \/ b >= First(fs[i])) /\ b \in Nat
  BY <1>1, FrameFacts
<1>7. CASE b >= First(fs[i])
  <2>1. b \in Region(g.n, fs[j])
    BY <1>1, <1>4, <1>5, <1>6, <1>7 DEF Region
  <2>2. b > g.tail[fs[j].head]
    BY <1>1, <1>2, <1>5, <1>6, <1>7
  <2>. QED  BY <1>1, <1>2, <2>1, <2>2 DEF TailOf
<1>8. CASE b = Header(fs[i]) /\ fs[i].kind = "loop"
  <2>1. b = fs[i].head /\ fs[j].continue_target < b
    BY <1>3, <1>4, <1>8 DEF Inside2, Header
  <2>2. PlaceIn(g, fs[j], b)
    BY <1>3, <1>8 DEF Inside2
  <2>3. b \in Region(g.n, fs[j]) /\ b > g.tail[fs[j].head]
    BY <1>2, <1>4, <2>1, <2>2 DEF PlaceIn
  <2>. QED  BY <1>1, <1>2, <2>3 DEF TailOf
<1>. QED  BY <1>6, <1>7, <1>8

\* to the merge block of an open construct
LEMMA EdgeToMerge ==
    ASSUME NEW g, NEW fs, Shape(g, fs), NEW p, Source(g, fs, p), NEW i \in DOMAIN fs,
           \A j \in DOMAIN fs : j > i => ~Terminal(fs[j])
    PROVE  LET b == fs[i].merge IN Enters(g, p, b) /\ Leaves(g, p, b) /\ Returns(g, p, b)
<1>. DEFINE b == fs[i].merge
            l == i - 1
<1>1. i \in 1 .. Len(fs) /\ Len(fs) \in Nat /\ DOMAIN fs = 1 .. Len(fs) /\ FrameOK(fs[i]) /\ Header(fs[i]) \in 1 .. g.n
      /\ g.mrg[Header(fs[i])] = b /\ b # 0 /\ b \in 1 .. g.n
  BY ShapeFacts
<1>2. l < Len(fs) /\ l + 1 = i
  BY <1>1
<1>3. b \in Names(fs[i]) /\ b # Header(fs[i])
  BY <1>1, FrameFacts
<1>4. Level(g, fs, l, b)
  BY <1>3, NamesLevel
<1>5. ASSUME NEW h \in 1 .. g.n PROVE (b = g.mrg[h] => h = Header(fs[i])) /\ b # g.cnt[h]
  <2>1. OneOwner(g)
    BY DEF Shape
  <2>2. b = g.mrg[h] => h = Header(fs[i])
    BY <1>1, <2>1 DEF OneOwner
  <2>3. b # g.cnt[h]
    BY <1>1, <2>1 DEF OneOwner
  <2>. QED  BY <2>2, <2>3
<1>6. ASSUME NEW j \in DOMAIN fs, Terminal(fs[j]) PROVE b \in TailOf(g, fs[j].head) \cup {fs[j].head, fs[j].merge}
  <2>1. CASE j = i
    BY <2>1
  <2>2. CASE j < i
    BY <1>3, <1>6, <2>2, InTail
  <2>3. j = i \/ j < i
    BY <1>1, <1>6
  <2>. QED  BY <2>1, <2>2, <2>3
<1>. HIDE DEF b, l
<1>7. /\ \A h \in 1 .. g.n : /\ b = g.mrg[h] => l < Len(fs) /\ h = Header(fs[l + 1])
                             /\ b = g.cnt[h] => l > 0 /\ h = Header(fs[l]) /\ PlaceIn(g, fs[l], p)
      /\ b = fs[l + 1].merge
  BY <1>2, <1>5 DEF b
<1>8. Enters(g, p, b) /\ Leaves(g, p, b) /\ Returns(g, p, b)
  BY <1>4, <1>6, <1>7, EdgeCore
<1>. QED  BY <1>8 DEF b

\* to the continue target of a loop whose body is being built
LEMMA EdgeToCont ==
    ASSUME NEW g, NEW fs, Shape(g, fs), NEW p, Source(g, fs, p), NEW i \in DOMAIN fs, fs[i].kind = "loop", PlaceIn(g, fs[i], p),
           \A j \in DOMAIN fs : j >= i => ~Terminal(fs[j])
    PROVE  LET b == fs[i].continue_target IN Enters(g, p, b) /\ Leaves(g, p, b) /\ Returns(g, p, b)
<1>. DEFINE b == fs[i].continue_target
<1>1. i \in 1 .. Len(fs) /\ Len(fs) \in Nat /\ DOMAIN fs = 1 .. Len(fs) /\ FrameOK(fs[i]) /\ Header(fs[i]) \in 1 .. g.n
      /\ Cont(fs[i]) = b /\ g.cnt[Header(fs[i])] = b /\ Header(fs[i]) = fs[i].head
  BY ShapeFacts
<1>2. b # 0 /\ b \in Names(fs[i]) /\ b # Header(fs[i]) /\ b # fs[i].merge
  <2>1. b # 0
    <3>1. fs[i].head \in 1 .. g.n /\ b = fs[i].head + 3
      BY <1>1 DEF FrameOK
    <3>. QED  BY <3>1
  <2>. QED  BY <1>1, <2>1, FrameFacts
<1>3. Level(g, fs, i, b)
  BY <1>2, NamesLevel
<1>4. ASSUME NEW h \in 1 .. g.n PROVE b # g.mrg[h] /\ (b = g.cnt[h] => h = Header(fs[i]))
  <2>1. OneOwner(g)
    BY DEF Shape
  <2>2. b = g.cnt[h] => h = Header(fs[i])
    BY <1>1, <1>2, <2>1 DEF OneOwner
  <2>3. b # g.mrg[h]
    BY <1>1, <1>2, <2>1 DEF OneOwner
  <2>. QED  BY <2>2, <2>3
<1>5. ASSUME NEW j \in DOMAIN fs, j > i PROVE Header(fs[j]) # b /\ Header(fs[j]) \notin TailOf(g, Header(fs[i]))
  <2>1. ~Terminal(fs[i]) /\ TailOf(g, fs[i].head) = {}
    BY <1>1 DEF Shape
  <2>2. Inside2(g, fs[i], fs[j])
    BY <1>5 DEF Shape
  <2>3. Header(fs[j]) # b
    BY <2>1, <2>2 DEF Inside2, PlaceIn
  <2>. QED  BY <1>1, <2>1, <2>3
<1>6. ASSUME NEW j \in DOMAIN fs, Terminal(fs[j]) PROVE b \in TailOf(g, fs[j].head) \cup {fs[j].head, fs[j].merge}
  <2>1. j < i
    BY <1>1, <1>6
  <2>. QED  BY <1>2, <1>6, <2>1, InTail
<1>. HIDE DEF b
<1>7. /\ \A h \in 1 .. g.n : /\ b = g.mrg[h] => i < Len(fs) /\ h = Header(fs[i + 1])
                             /\ b = g.cnt[h] => i > 0 /\ h = Header(fs[i]) /\ PlaceIn(g, fs[i], p)
      /\ i > 0 /\ b = g.cnt[Header(fs[i])]
  BY <1>1, <1>4
<1>8. Enters(g, p, b) /\ Leaves(g, p, b) /\ Returns(g, p, b)
  BY <1>3, <1>5, <1>6, <1>7, EdgeCore
<1>. QED  BY <1>8 DEF b

\* back to the head of a loop
LEMMA EdgeToHead ==
    ASSUME NEW g, NEW fs, Shape(g, fs), NEW p, Source(g, fs, p), fs # <<>>, fs[Len(fs)].kind = "loop"
    PROVE  LET b == fs[Len(fs)].head IN Enters(g, p, b) /\ Leaves(g, p, b) /\ Returns(g, p, b)
<1>. DEFINE i == Len(fs)
            b == fs[i].head
            l == i - 1
<1>1. i \in Nat /\ i \in DOMAIN fs /\ DOMAIN fs = 1 .. Len(fs) /\ l + 1 = i /\ l + 1 = Len(fs)
  BY DEF Shape
<1>. HIDE DEF i, l
<1>2. FrameOK(fs[i]) /\ Header(fs[i]) = b /\ b \in Names(fs[i]) /\ Unowned(g, b)
  <2>1. FrameOK(fs[i]) /\ Unowned(g, b)
    BY <1>1 DEF Shape, i
  <2>2. Header(fs[i]) = b
    BY DEF Header, i
  <2>. QED  BY <2>1, <2>2, FrameFacts
<1>3. Level(g, fs, l, b)
  BY <1>1, <1>2, NamesLevel DEF l
<1>4. ASSUME NEW j \in DOMAIN fs, Terminal(fs[j]) PROVE b \in TailOf(g, fs[j].head) \cup {fs[j].head, fs[j].merge}
  <2>1. CASE j = i
    BY <2>1
  <2>2. CASE j < i
    BY <1>1, <1>2, <1>4, <2>2, InTail DEF i
  <2>3. j = i \/ j < i
    BY <1>1 DEF i
  <2>. QED  BY <2>1, <2>2, <2>3
<1>5. \A h \in 1 .. g.n : b # g.mrg[h] /\ b # g.cnt[h]
  BY <1>2 DEF Unowned
<1>6. l + 1 = Len(fs) /\ b = Header(fs[l + 1])
  BY <1>1, <1>2
<1>. HIDE DEF b
<1>7. Enters(g, p, b) /\ Leaves(g, p, b) /\ Returns(g, p, b)
  BY <1>3, <1>4, <1>5, <1>6, EdgeCore
<1>. QED  BY <1>7 DEF b, i

\* into a construct from its header
LEMMA EdgeToEntry ==
    ASSUME NEW g, NEW fs, Shape(g, fs), NEW p, Source(g, fs, p), fs # <<>>, ~Terminal(fs[Len(fs)]),
           NEW b \in Names(fs[Len(fs)]), b \notin {Header(fs[Len(fs)]), fs[Len(fs)].merge}, Unowned(g, b)
    PROVE  Enters(g, p, b) /\ Leaves(g, p, b) /\ Returns(g, p, b)
<1>. DEFINE i == Len(fs)
<1>1. i \in Nat /\ i \in DOMAIN fs /\ DOMAIN fs = 1 .. Len(fs)
  BY DEF Shape
<1>. HIDE DEF i
<1>2. Level(g, fs, i, b)
  BY <1>1, NamesLevel DEF i
<1>3. ASSUME NEW j \in DOMAIN fs, Terminal(fs[j]) PROVE b \in TailOf(g, fs[j].head) \cup {fs[j].head, fs[j].merge}
  <2>1. j # i
    BY <1>3 DEF i
  <2>2. j < i
    BY <1>1, <2>1 DEF i
  <2>. QED  BY <1>1, <1>3, <2>2, InTail DEF i
<1>4. \A h \in 1 .. g.n : b # g.mrg[h] /\ b # g.cnt[h]
  BY DEF Unowned
<1>5. i = Len(fs)
  BY DEF i
<1>. QED  BY <1>2, <1>3, <1>4, <1>5, EdgeCore

-----------------------------------------------------------------------------
(* What a step from g to g2, and from the code c to c2, does to the        *)
(* constructs: those of the frames ns get the blocks made, the loop at k0  *)
(* ends its body, and a construct opened has new blocks only.              *)

Grew(g, c, ns, g2, c2, k0) ==
    /\ CodeGrows(g, c, c2) /\ g2.n = Len(c2) /\ Ending(g, ns, g2.n, k0) /\ Shape(g2, ns)
    /\ \E h0 : Extends(g, g2, h0)
    /\ \A h \in 1 .. g2.n : g2.succ[h] = SuccOf(c2[h])
    /\ \A h \in 1 .. g.n : g.mrg[h] # 0 =>
         /\ h \in 1 .. g2.n /\ g2.mrg[h] = g.mrg[h] /\ g2.cnt[h] = g.cnt[h]
         /\ g2.region[h] = IF h \in Headers(ns) THEN g.region[h] \cup (g.n + 1 .. g2.n) ELSE g.region[h]
         /\ g2.tail[h] = IF h = k0 THEN g.n ELSE g.tail[h]
    /\ \A h \in 1 .. g2.n : g2.mrg[h] # 0 =>
         \/ h \in 1 .. g.n /\ g.mrg[h] # 0
         \/ /\ g2.mrg[h] > g.n /\ (g2.cnt[h] = 0 \/ g2.cnt[h] > g.n) /\ (\A b \in g2.region[h] : b > g.n)
            /\ h \notin Headers(ns) /\ (h \in 1 .. g.n => \A k \in Headers(ns) : h \in g.region[k])

\* only the construct at h0 is new
Opens(g, g2, h0, m0, c0, R0) ==
    /\ \A h \in 1 .. g2.n : g2.mrg[h] # 0 => h = h0 \/ (h \in 1 .. g.n /\ g.mrg[h] # 0)
    /\ h0 # 0 => g2.mrg[h0] = m0 /\ g2.cnt[h0] = c0 /\ g2.region[h0] = R0 /\ h0 \in 1 .. g2.n
    /\ h0 # 0 /\ h0 > g.n => g2.tail[h0] = MaxBlocks

\* a graph grown is grown in the sense of the parts of Built
LEMMA GrewFrom ==
    ASSUME NEW g, NEW c, NEW ns, NEW bp, Built(g, c, ns, bp), NEW c2, CodeGrows(g, c, c2), NEW g2,
           NEW h0, NEW m0, NEW c0, NEW R0, Opening(g, Len(c2), Headers(ns), h0, m0, c0, R0),
           NEW k0, Ending(g, ns, Len(c2), k0), Growth(g, g2, c2, ns, h0, m0, c0, R0, k0)
    PROVE  Grew(g, c, ns, g2, c2, k0) /\ Opens(g, g2, h0, m0, c0, R0)
<1>1. g.n \in Nat \ {0} /\ g2.n = Len(c2) /\ g2.n \in Nat /\ g.n <= g2.n /\ Grown(g, g2, c2, Headers(ns), h0, m0, c0, R0, k0)
      /\ Structured(g) /\ Extends(g, g2, h0) /\ Shape(g2, ns)
  <2>1. g.n \in Nat \ {0} /\ Structured(g)
    BY DEF Built, Structured, Typed
  <2>2. Grown(g, g2, c2, Headers(ns), h0, m0, c0, R0, k0) /\ Extends(g, g2, h0) /\ Shape(g2, ns)
    BY DEF Growth
  <2>3. g2.n = Len(c2)
    BY <2>2 DEF Grown
  <2>. QED  BY <2>1, <2>2, <2>3 DEF CodeGrows
<1>2. Headers(ns) \subseteq 1 .. g.n /\ \A h \in Headers(ns) : g.mrg[h] # 0
  <2>1. ASSUME NEW i \in DOMAIN ns PROVE Header(ns[i]) \in 1 .. g.n /\ g.mrg[Header(ns[i])] # 0
    BY BuiltFrame
  <2>. QED  BY <2>1 DEF Headers
<1>g. ASSUME NEW h \in 1 .. g2.n
      PROVE  /\ g2.succ[h] = SuccOf(c2[h])
             /\ h = h0 => g2.mrg[h] = m0 /\ g2.cnt[h] = c0 /\ g2.region[h] = R0
             /\ h # h0 /\ h <= g.n => /\ h \in 1 .. g.n /\ g2.mrg[h] = g.mrg[h] /\ g2.cnt[h] = g.cnt[h]
                                      /\ h \in Headers(ns) => g2.region[h] = g.region[h] \cup (g.n + 1 .. g2.n)
                                      /\ h \notin Headers(ns) => g2.region[h] = g.region[h]
             /\ h # h0 /\ ~(h <= g.n) => g2.mrg[h] = 0 /\ g2.cnt[h] = 0
             /\ h = k0 => g2.tail[h] = g.n
             /\ h # k0 /\ h <= g.n => g2.tail[h] = g.tail[h]
             /\ h # k0 /\ ~(h <= g.n) => g2.tail[h] = MaxBlocks
  <2>1. g.n \in Nat
    BY <1>1
  <2>. QED  BY <1>1, <2>1, GrownAt
<1>3. ASSUME NEW h \in 1 .. g.n, g.mrg[h] # 0
      PROVE  /\ h \in 1 .. g2.n /\ g2.mrg[h] = g.mrg[h] /\ g2.cnt[h] = g.cnt[h]
             /\ g2.region[h] = IF h \in Headers(ns) THEN g.region[h] \cup (g.n + 1 .. g2.n) ELSE g.region[h]
             /\ g2.tail[h] = IF h = k0 THEN g.n ELSE g.tail[h]
  <2>1. h # h0
    BY <1>3 DEF Opening
  <2>2. h \in 1 .. g2.n /\ h <= g.n
    BY <1>1
  <2>. QED  BY <1>g, <2>1, <2>2
<1>4. ASSUME h0 # 0
      PROVE  /\ h0 \in 1 .. g2.n /\ g2.mrg[h0] = m0 /\ g2.cnt[h0] = c0 /\ g2.region[h0] = R0
             /\ m0 > g.n /\ (c0 = 0 \/ c0 > g.n) /\ (\A b \in R0 : b > g.n) /\ h0 \notin Headers(ns)
             /\ h0 \in 1 .. g.n => \A k \in Headers(ns) : h0 \in g.region[k]
             /\ h0 > g.n => g2.tail[h0] = MaxBlocks
  <2>1. /\ h0 \in 1 .. g2.n /\ (h0 <= g.n => g.mrg[h0] = 0 /\ \A k \in Headers(ns) : h0 \in g.region[k])
        /\ m0 \in g.n + 1 .. g2.n /\ R0 \subseteq g.n + 1 .. g2.n /\ (c0 = 0 \/ c0 \in R0)
    BY <1>1, <1>4 DEF Opening
  <2>2. g2.mrg[h0] = m0 /\ g2.cnt[h0] = c0 /\ g2.region[h0] = R0
    BY <1>g, <2>1
  <2>3. h0 \notin Headers(ns)
    <3>1. h0 \in Headers(ns) => h0 <= g.n /\ g.mrg[h0] # 0
      BY <1>1, <1>2
    <3>. QED  BY <2>1, <3>1
  <2>4. h0 > g.n => g2.tail[h0] = MaxBlocks
    <3>1. ASSUME h0 > g.n PROVE h0 # k0 /\ ~(h0 <= g.n)
      BY <1>1, <2>1, <3>1 DEF Ending
    <3>. QED  BY <1>g, <2>1, <3>1
  <2>5. \A b \in g.n + 1 .. g2.n : b > g.n
    BY <1>1
  <2>6. h0 \in 1 .. g.n => h0 <= g.n
    OBVIOUS
  <2>. QED  BY <2>1, <2>2, <2>3, <2>4, <2>5, <2>6
<1>5. ASSUME NEW h \in 1 .. g2.n, g2.mrg[h] # 0 PROVE h = h0 \/ (h \in 1 .. g.n /\ g.mrg[h] # 0)
  BY <1>g, <1>5
<1>6. ASSUME NEW h \in 1 .. g2.n, g2.mrg[h] # 0
      PROVE  \/ h \in 1 .. g.n /\ g.mrg[h] # 0
             \/ /\ g2.mrg[h] > g.n /\ (g2.cnt[h] = 0 \/ g2.cnt[h] > g.n) /\ (\A b \in g2.region[h] : b > g.n)
                /\ h \notin Headers(ns) /\ (h \in 1 .. g.n => \A k \in Headers(ns) : h \in g.region[k])
  <2>1. CASE h = h0
    <3>1. h0 # 0
      BY <1>1, <2>1
    <3>. QED  BY <1>4, <2>1, <3>1
  <2>2. CASE h \in 1 .. g.n /\ g.mrg[h] # 0
    BY <2>2
  <2>. QED  BY <1>5, <1>6, <2>1, <2>2
<1>7. Grew(g, c, ns, g2, c2, k0)
  <2>1. \A h \in 1 .. g2.n : g2.succ[h] = SuccOf(c2[h])
    BY <1>g
  <2>2. Ending(g, ns, g2.n, k0)
    BY <1>1
  <2>3. \E h : Extends(g, g2, h)
    BY <1>1
  <2>. QED  BY <1>1, <1>3, <1>6, <2>1, <2>2, <2>3, Zenon DEF Grew
<1>. QED  BY <1>4, <1>5, <1>7 DEF Opens

\* the build point and what the constructs being built name belong to them only
LEMMA BuildPlace ==
    ASSUME NEW g, NEW c, NEW ns, NEW bp, Built(g, c, ns, bp), \A i \in DOMAIN ns : ns[i].place # "head"
    PROVE  /\ bp \in 1 .. g.n /\ Fresh(c[bp]) /\ WellFormed(c[bp]) /\ g.mrg[bp] = 0 /\ g.succ[bp] = {} /\ bp \notin Headers(ns)
           /\ \A i \in DOMAIN ns : Point(g, ns[i], bp) /\ bp \in g.region[Header(ns[i])]
           /\ \A h \in 1 .. g.n : bp \in g.region[h] => h \in Headers(ns)
<1>1. Structured(g) /\ Matches(g, c, ns) /\ At(g, c, ns, bp) /\ Closed(g, ns, bp) /\ ns \in Seq(Frame) /\ g.n \in Nat
  BY DEF Built, Structured, Typed
<1>2. bp \in 1 .. g.n /\ Fresh(c[bp]) /\ \A i \in DOMAIN ns : Point(g, ns[i], bp)
  BY <1>1 DEF At
<1>3. WellFormed(c[bp]) /\ g.succ[bp] = {} /\ MergeOf(c[bp]) = <<>>
  <2>1. WellFormed(c[bp]) /\ g.succ[bp] = SuccOf(c[bp])
    BY <1>1, <1>2 DEF Matches
  <2>. QED  BY <1>2, <2>1, FreshBlock
<1>4. ASSUME NEW i \in DOMAIN ns PROVE bp \in g.region[Header(ns[i])] /\ bp # Header(ns[i])
  <2>1. g.region[Header(ns[i])] = Region(g.n, ns[i]) /\ FrameOK(ns[i])
    BY BuiltFrame
  <2>2. Header(ns[i]) < First(ns[i]) /\ Header(ns[i]) \in Nat /\ First(ns[i]) \in Nat
    BY <2>1, FrameFacts
  <2>3. bp \in Region(g.n, ns[i])
    BY <1>2 DEF Point
  <2>. QED  BY <1>1, <2>1, <2>2, <2>3 DEF Region
<1>5. g.mrg[bp] = 0
  <2>1. ASSUME g.mrg[bp] # 0 PROVE FALSE
    <3>1. PICK i \in DOMAIN ns : IsIf(ns[i]) /\ ns[i].header = bp
      BY <1>1, <1>2, <1>3, <2>1 DEF Matches
    <3>. QED  BY <1>4, <3>1 DEF Header, IsIf
  <2>. QED  BY <2>1
<1>6. ASSUME NEW h \in 1 .. g.n, bp \in g.region[h] PROVE h \in Headers(ns)
  <2>1. g.mrg[h] # 0
    BY <1>1, <1>6, ConstructFacts
  <2>. QED  BY <1>1, <1>6, <2>1 DEF Closed, Headers
<1>. QED  BY <1>2, <1>3, <1>4, <1>5, <1>6 DEF Headers

\* into the blocks just made
FromNew(g, c, ns, bp, g2, c2, h0, m0, c0, R0, k0, p, b) ==
    /\ Built(g, c, ns, bp) /\ (\A i \in DOMAIN ns : ns[i].place # "head") /\ CodeGrows(g, c, c2)
    /\ h0 # 0 /\ k0 = 0 /\ Opening(g, Len(c2), Headers(ns), h0, m0, c0, R0) /\ Growth(g, g2, c2, ns, h0, m0, c0, R0, k0)
    /\ (h0 = bp \/ h0 > g.n) /\ (c0 # 0 => h0 > g.n)
    /\ p \in {bp, h0} /\ b \in g.n + 1 .. g2.n /\ b # c0 /\ (p = h0 <=> b \in R0 \cup {m0})
MayEnter(g2, p, b) == Enters(g2, p, b) /\ Leaves(g2, p, b) /\ Returns(g2, p, b)

\* from the build point, or a new header, into the blocks just made
LEMMA EdgeInto ==
    ASSUME NEW g, NEW c, NEW ns, NEW bp, NEW g2, NEW c2, NEW h0, NEW m0, NEW c0, NEW R0, NEW k0, NEW p, NEW b,
           FromNew(g, c, ns, bp, g2, c2, h0, m0, c0, R0, k0, p, b)
    PROVE  MayEnter(g2, p, b)
<1>. SUFFICES ASSUME Built(g, c, ns, bp), \A i \in DOMAIN ns : ns[i].place # "head", CodeGrows(g, c, c2),
                     h0 # 0, k0 = 0, Opening(g, Len(c2), Headers(ns), h0, m0, c0, R0), Growth(g, g2, c2, ns, h0, m0, c0, R0, k0),
                     h0 = bp \/ h0 > g.n, c0 # 0 => h0 > g.n,
                     p \in {bp, h0}, b \in g.n + 1 .. g2.n, b # c0, p = h0 <=> b \in R0 \cup {m0}
              PROVE  Enters(g2, p, b) /\ Leaves(g2, p, b) /\ Returns(g2, p, b)
  BY Zenon DEF FromNew, MayEnter
<1>1. g.n \in Nat \ {0} /\ g2.n \in Nat /\ g.n <= g2.n /\ Structured(g) /\ Shape(g2, ns)
  <2>1. Structured(g) /\ g.n \in Nat \ {0}
    BY DEF Built, Structured, Typed
  <2>. QED  BY <2>1 DEF Growth, Grown, CodeGrows
<1>e. Ending(g, ns, Len(c2), k0)
  BY DEF Ending
<1>2. /\ Grew(g, c, ns, g2, c2, k0)
      /\ \A h \in 1 .. g2.n : g2.mrg[h] # 0 => h = h0 \/ (h \in 1 .. g.n /\ g.mrg[h] # 0)
      /\ g2.mrg[h0] = m0 /\ g2.cnt[h0] = c0 /\ g2.region[h0] = R0 /\ h0 \in 1 .. g2.n
      /\ h0 > g.n => g2.tail[h0] = MaxBlocks
  <2>1. Grew(g, c, ns, g2, c2, k0) /\ Opens(g, g2, h0, m0, c0, R0)
    BY <1>e, GrewFrom, Zenon
  <2>. QED  BY <2>1 DEF Opens
<1>3. /\ bp \in 1 .. g.n /\ bp \notin Headers(ns) /\ g.mrg[bp] = 0
      /\ \A i \in DOMAIN ns : Point(g, ns[i], bp) /\ bp \in g.region[Header(ns[i])]
      /\ \A h \in 1 .. g.n : bp \in g.region[h] => h \in Headers(ns)
  BY BuildPlace
<1>4. m0 \in g.n + 1 .. g2.n /\ m0 \notin R0 \cup {h0} /\ R0 \subseteq g.n + 1 .. g2.n /\ h0 \notin R0 /\ (c0 = 0 \/ c0 \in R0)
  BY <1>2 DEF Opening, Grew
<1>5. p \in 1 .. g2.n /\ p \notin R0 /\ p # 0
  BY <1>1, <1>2, <1>3, <1>4
\* the constructs of the frames hold both ends
<1>6. ASSUME NEW h \in Headers(ns)
      PROVE  /\ h \in 1 .. g.n /\ h \in 1 .. g2.n /\ g2.mrg[h] # 0 /\ g2.mrg[h] <= g.n /\ g2.cnt[h] <= g.n /\ p \in g2.region[h] /\ b \in g2.region[h]
             /\ g2.cnt[h] # 0 => (p \in TailOf(g2, h) \cup {g2.cnt[h]} <=> b \in TailOf(g2, h)) /\ p # h
  <2>1. PICK i \in DOMAIN ns : h = Header(ns[i])
    BY DEF Headers
  <2>2. h \in 1 .. g.n /\ g.mrg[h] = ns[i].merge /\ g.mrg[h] # 0 /\ g.cnt[h] = Cont(ns[i]) /\ FrameInv(g, c, ns[i]) /\ FrameOK(ns[i])
        /\ (ns[i].kind = "loop" => h = ns[i].head /\ Cont(ns[i]) = ns[i].continue_target)
    BY <2>1, BuiltFrame
  <2>3. /\ h \in 1 .. g2.n /\ g2.mrg[h] = g.mrg[h] /\ g2.cnt[h] = g.cnt[h] /\ g2.region[h] = g.region[h] \cup (g.n + 1 .. g2.n)
        /\ g2.tail[h] = g.tail[h]
    <3>1. h # k0
      BY <2>2
    <3>. QED  BY <1>2, <2>2, <3>1 DEF Grew
  <2>4. g.mrg[h] <= g.n /\ g.cnt[h] <= g.n /\ g.tail[h] \in Nat
    BY <1>1, <2>2, ConstructFacts
  <2>5. b \in g2.region[h]
    BY <2>3
  <2>6. p \in g2.region[h]
    <3>1. bp \in g2.region[h]
      BY <1>3, <2>1, <2>3
    <3>2. h0 > g.n => h0 \in g2.region[h]
      BY <1>1, <1>2, <2>3
    <3>. QED  BY <3>1, <3>2
  <2>7. ASSUME g.cnt[h] # 0 PROVE (p \in TailOf(g2, h) \cup {g2.cnt[h]} <=> b \in TailOf(g2, h)) /\ p # h
    <3>1. ns[i].kind = "loop" /\ h = ns[i].head /\ g.cnt[h] = ns[i].continue_target
      BY <2>2, <2>7 DEF Cont
    <3>2. CASE Terminal(ns[i])
      <4>1. g.tail[h] <= g.n
        BY <2>2, <3>1, <3>2 DEF FrameInv
      <4>2. b > g2.tail[h]
        BY <1>1, <2>3, <2>4, <4>1
      <4>3. p \in TailOf(g2, h) \cup {g2.cnt[h]}
        <5>1. CASE p = bp
          BY <1>3, <2>3, <2>6, <3>1, <3>2, <5>1 DEF Point, TailOf
        <5>2. CASE p > g.n
          BY <1>1, <1>5, <2>3, <2>4, <2>6, <4>1, <5>2 DEF TailOf
        <5>. QED  BY <5>1, <5>2
      <4>. QED  BY <2>5, <2>1, <1>3, <1>1, <2>2, <4>2, <4>3 DEF TailOf, Headers
    <3>3. CASE ~Terminal(ns[i])
      <4>1. TailOf(g2, h) = {}
        BY <1>1, <3>1, <3>3 DEF Shape
      <4>2. p # g2.cnt[h]
        <5>1. ns[i].continue_target \in Await(ns[i])
          <6>1. ns[i].place \in {"test", "body", "terminal"}
            BY <2>2, <3>1, FrameKinds DEF FrameOK
          <6>. QED  BY <3>1, <3>3, <6>1 DEF Await, Terminal
        <5>2. bp # g.cnt[h]
          BY <1>3, <3>1, <5>1 DEF Point
        <5>3. h0 > g.n => h0 # g.cnt[h]
          BY <1>1, <1>2, <2>4
        <5>. QED  BY <2>3, <5>2, <5>3
      <4>3. p # h
        BY <1>1, <1>3, <2>1, <2>2 DEF Headers
      <4>. QED  BY <4>1, <4>2, <4>3
    <3>. QED  BY <3>2, <3>3
  <2>. QED  BY <2>2, <2>3, <2>4, <2>5, <2>6, <2>7
\* no other construct but the one opened holds either
<1>7. ASSUME NEW h \in 1 .. g2.n, h \notin Headers(ns), h # h0
      PROVE  b \notin g2.region[h] /\ b # g2.mrg[h] /\ b # g2.cnt[h] /\ (g2.mrg[h] # 0 => p \notin g2.region[h] \cup {h}) /\ (g2.cnt[h] # 0 => g2.mrg[h] # 0)
  <2>1. Constructs(g2)
    BY <1>1 DEF Shape
  <2>2. CASE g2.mrg[h] = 0
    BY <1>1, <2>1, <2>2 DEF Constructs
  <2>3. CASE g2.mrg[h] # 0
    <3>1. h \in 1 .. g.n /\ g.mrg[h] # 0
      BY <1>2, <1>7, <2>3
    <3>2. g2.mrg[h] = g.mrg[h] /\ g2.cnt[h] = g.cnt[h] /\ g2.region[h] = g.region[h]
      BY <1>2, <1>7, <3>1 DEF Grew
    <3>3. g.mrg[h] <= g.n /\ g.cnt[h] <= g.n /\ g.region[h] \subseteq 2 .. g.n /\ g.mrg[h] \in Nat /\ g.cnt[h] \in Nat
      BY <1>1, <3>1, ConstructFacts
    <3>4. b > g.n /\ ~(b <= g.n) /\ b \notin 2 .. g.n
      BY <1>1
    <3>5. p \notin g.region[h] \cup {h}
      <4>1. bp \notin g.region[h] \cup {h}
        BY <1>3, <1>7, <3>1
      <4>2. h0 > g.n => h0 \notin g.region[h]
        BY <1>1, <1>2, <3>3
      <4>. QED  BY <1>7, <4>1, <4>2
    <3>. QED  BY <2>3, <3>2, <3>3, <3>4, <3>5
  <2>. QED  BY <2>2, <2>3
\* the construct opened
<1>8. /\ b # g2.cnt[h0] /\ (b \in g2.region[h0] \cup {g2.mrg[h0]} <=> p = h0) /\ p \notin g2.region[h0]
      /\ g2.cnt[h0] # 0 => TailOf(g2, h0) = {} /\ p # g2.cnt[h0]
  <2>1. ASSUME c0 # 0 PROVE TailOf(g2, h0) = {} /\ p # c0
    <3>1. \A d \in R0 : ~(d > MaxBlocks)
      <4>1. g2.n <= MaxBlocks /\ MaxBlocks \in Nat
        BY StructuredFlowAssumption, <1>2 DEF Grew, CodeGrows
      <4>. QED  BY <1>1, <1>4, <4>1
    <3>. QED  BY <1>2, <1>4, <1>5, <2>1, <3>1 DEF TailOf
  <2>. QED  BY <1>2, <1>5, <2>1
<1>9. Enters(g2, p, b)
  <2>1. ASSUME NEW h \in 1 .. g2.n
        PROVE  /\ b \in g2.region[h] => p \in g2.region[h] \cup {h}
               /\ b = g2.mrg[h] => p \in g2.region[h] \cup {h}
               /\ b = g2.cnt[h] => p \in g2.region[h]
    <3>1. CASE h = h0
      BY <1>8, <3>1
    <3>2. CASE h \in Headers(ns)
      BY <1>6, <3>2
    <3>3. CASE h # h0 /\ h \notin Headers(ns)
      BY <1>7, <3>3
    <3>. QED  BY <3>1, <3>2, <3>3
  <2>. QED  BY <2>1 DEF Enters
<1>10. Leaves(g2, p, b)
  <2>1. ASSUME NEW h \in 1 .. g2.n, g2.mrg[h] # 0, p \in g2.region[h] \cup {h} PROVE b \in g2.region[h] \cup {h, g2.mrg[h]}
    <3>1. CASE h = h0
      BY <1>8, <2>1, <3>1
    <3>2. CASE h \in Headers(ns)
      BY <1>6, <3>2
    <3>3. CASE h # h0 /\ h \notin Headers(ns)
      BY <1>7, <2>1, <3>3
    <3>. QED  BY <3>1, <3>2, <3>3
  <2>. QED  BY <2>1 DEF Leaves
<1>11. Returns(g2, p, b)
  <2>1. ASSUME NEW h \in 1 .. g2.n, g2.cnt[h] # 0
        PROVE  /\ b \in TailOf(g2, h) => p \in TailOf(g2, h) \cup {g2.cnt[h]}
               /\ p \in TailOf(g2, h) \cup {g2.cnt[h]} => b \in TailOf(g2, h) \cup {h, g2.mrg[h]}
    <3>1. CASE h = h0
      BY <1>8, <2>1, <3>1
    <3>2. CASE h \in Headers(ns)
      BY <1>6, <2>1, <3>2
    <3>3. CASE h # h0 /\ h \notin Headers(ns)
      <4>1. g2.cnt[h] \in g2.region[h] /\ p \notin g2.region[h] /\ b \notin g2.region[h]
        <5>1. Constructs(g2)
          BY <1>1 DEF Shape
        <5>2. g2.cnt[h] \in g2.region[h]
          BY <1>1, <2>1, <5>1 DEF Constructs
        <5>. QED  BY <1>7, <2>1, <3>3, <5>2
      <4>. QED  BY <4>1 DEF TailOf
    <3>. QED  BY <3>1, <3>2, <3>3
  <2>. QED  BY <2>1 DEF Returns
<1>. QED  BY <1>9, <1>10, <1>11

-----------------------------------------------------------------------------
\* The parts of Built, through such a step

NewEdge(g, g2, p, b) == p \in 1 .. g2.n /\ b \in g2.succ[p] /\ ~OldEdge(g, p, b)

\* the graph after the step, at the blocks and constructs of the one before it
LEMMA GrewFacts ==
    ASSUME NEW g, NEW c, NEW ns, NEW bp, Built(g, c, ns, bp), NEW g2, NEW c2, NEW k0, Grew(g, c, ns, g2, c2, k0)
    PROVE  /\ g.n \in Nat \ {0} /\ g2.n \in Nat \ {0} /\ g.n <= g2.n /\ g2.n = Len(c2) /\ g2.n <= MaxBlocks /\ MaxBlocks \in Nat
           /\ 1 .. g.n \subseteq 1 .. g2.n /\ Structured(g) /\ Shape(g2, ns) /\ Typed(g2) /\ Constructs(g2) /\ OneOwner(g2)
           /\ ns \in Seq(Frame) /\ DOMAIN ns = 1 .. Len(ns) /\ Len(ns) \in Nat
           /\ c2 \in Seq(Seq(Instruction)) /\ c \in Seq(Seq(Instruction))
           /\ \A b \in 1 .. g.n : c2[b] = c[b] \/ Fresh(c[b])
           /\ \A b \in 1 .. g.n : WellFormed(c[b]) /\ g.succ[b] = SuccOf(c[b])
<1>1. Structured(g) /\ g.n \in Nat \ {0} /\ ns \in Seq(Frame) /\ Matches(g, c, ns)
  BY DEF Built, Structured, Typed
<1>2. CodeGrows(g, c, c2) /\ g2.n = Len(c2) /\ Shape(g2, ns)
  BY DEF Grew
<1>3. Typed(g2) /\ Constructs(g2) /\ OneOwner(g2) /\ g2.n \in Nat \ {0}
  BY <1>2 DEF Shape, Typed
<1>4. g.n <= g2.n /\ g2.n <= MaxBlocks /\ MaxBlocks \in Nat /\ c2 \in Seq(Seq(Instruction))
      /\ \A b \in 1 .. g.n : c2[b] = c[b] \/ Fresh(c[b])
  BY <1>2, StructuredFlowAssumption DEF CodeGrows
<1>5. c \in Seq(Seq(Instruction)) /\ \A b \in 1 .. g.n : WellFormed(c[b]) /\ g.succ[b] = SuccOf(c[b])
  BY <1>1 DEF Matches
<1>6. 1 .. g.n \subseteq 1 .. g2.n
  BY <1>1, <1>3, <1>4
<1>7. DOMAIN ns = 1 .. Len(ns) /\ Len(ns) \in Nat
  BY <1>1
<1>. QED  BY <1>1, <1>2, <1>3, <1>4, <1>5, <1>6, <1>7

\* old constructs stay, and only new blocks become owned
LEMMA OldConstruct ==
    ASSUME NEW g, NEW c, NEW ns, NEW bp, Built(g, c, ns, bp), NEW g2, NEW c2, NEW k0, Grew(g, c, ns, g2, c2, k0),
           NEW h \in 1 .. g.n, g.mrg[h] # 0
    PROVE  /\ h \in 1 .. g2.n /\ g2.mrg[h] = g.mrg[h] /\ g2.cnt[h] = g.cnt[h]
           /\ h \in Headers(ns) => g2.region[h] = g.region[h] \cup (g.n + 1 .. g2.n)
           /\ h \notin Headers(ns) => g2.region[h] = g.region[h]
           /\ h = k0 => g2.tail[h] = g.n
           /\ h # k0 => g2.tail[h] = g.tail[h]
BY Zenon DEF Grew

\* a block that is no construct's merge block or target stays so
LEMMA UnownedStep ==
    ASSUME NEW g, NEW c, NEW ns, NEW bp, Built(g, c, ns, bp), NEW g2, NEW c2, NEW k0, Grew(g, c, ns, g2, c2, k0),
           NEW b \in 1 .. g.n, Unowned(g, b)
    PROVE  Unowned(g2, b)
<1>. SUFFICES ASSUME NEW h \in 1 .. g2.n PROVE g2.mrg[h] # b /\ g2.cnt[h] # b
  BY DEF Unowned
<1>1. g.n \in Nat /\ Constructs(g2)
  BY GrewFacts
<1>2. g2.cnt[h] # 0 => g2.mrg[h] # 0
  BY <1>1 DEF Constructs
<1>3. CASE g2.mrg[h] # 0 /\ h \in 1 .. g.n /\ g.mrg[h] # 0
  <2>1. g2.mrg[h] = g.mrg[h] /\ g2.cnt[h] = g.cnt[h]
    BY <1>3, OldConstruct
  <2>. QED  BY <1>3, <2>1 DEF Unowned
<1>4. CASE g2.mrg[h] > g.n /\ (g2.cnt[h] = 0 \/ g2.cnt[h] > g.n)
  BY <1>1, <1>4
<1>5. g2.mrg[h] # 0 => (h \in 1 .. g.n /\ g.mrg[h] # 0) \/ (g2.mrg[h] > g.n /\ (g2.cnt[h] = 0 \/ g2.cnt[h] > g.n))
  BY Zenon DEF Grew
<1>6. CASE g2.mrg[h] = 0
  BY <1>1, <1>2, <1>6
<1>. QED  BY <1>3, <1>4, <1>5, <1>6

\* where a leads on to b, by branches or merges, it still does
LEMMA FlowStep ==
    ASSUME NEW g, NEW c, NEW ns, NEW bp, Built(g, c, ns, bp), NEW g2, NEW c2, NEW k0, Grew(g, c, ns, g2, c2, k0),
           NEW a \in 1 .. g.n, NEW b, Flow(g, a, b)
    PROVE  Flow(g2, a, b)
<1>. SUFFICES ASSUME NEW T \in SUBSET (1 .. g2.n), FlowClosed(g2, T), a \in T PROVE b \in T
  BY DEF Flow
<1>. DEFINE S == T \cap (1 .. g.n)
<1>1. Structured(g) /\ g.n \in Nat
  BY GrewFacts
<1>2. PICK h0 : Extends(g, g2, h0)
  BY DEF Grew
<1>3. ASSUME NEW p \in S PROVE g.succ[p] \subseteq S /\ (g.mrg[p] # 0 => g.mrg[p] \in S) /\ (g.cnt[p] # 0 => g.cnt[p] \in S)
  <2>1. g.succ[p] \subseteq 1 .. g.n /\ g.mrg[p] \in 0 .. g.n /\ g.cnt[p] \in 0 .. g.n /\ (g.mrg[p] = 0 => g.cnt[p] = 0)
    BY <1>1, ConstructFacts
  <2>2. g.succ[p] \subseteq g2.succ[p]
    BY <1>2 DEF Extends
  <2>3. g.mrg[p] # 0 => g2.mrg[p] = g.mrg[p] /\ g2.cnt[p] = g.cnt[p]
    BY OldConstruct
  <2>4. g2.succ[p] \subseteq T /\ (g2.mrg[p] # 0 => g2.mrg[p] \in T) /\ (g2.cnt[p] # 0 => g2.cnt[p] \in T)
    BY DEF FlowClosed
  <2>. QED  BY <1>1, <2>1, <2>2, <2>3, <2>4
<1>4. S \in SUBSET (1 .. g.n) /\ a \in S
  OBVIOUS
<1>. HIDE DEF S
<1>5. FlowClosed(g, S)
  BY <1>3 DEF FlowClosed
<1>6. b \in S
  BY <1>4, <1>5 DEF Flow
<1>. QED  BY <1>6 DEF S

\* the merge instruction of a block that keeps it
MergeKnown(g, c, ns, b) ==
    IF MergeOf(c[b]) = <<>>
    THEN g.cnt[b] = 0 /\ (g.mrg[b] = 0 \/ \E i \in DOMAIN ns : IsIf(ns[i]) /\ ns[i].header = b)
    ELSE g.mrg[b] # 0 /\ MergeOf(c[b]) = IF g.cnt[b] = 0 THEN <<g.mrg[b]>> ELSE <<g.mrg[b], g.cnt[b]>>

\* a merge instruction stays the one of its block
LEMMA MergeStep ==
    ASSUME NEW g, NEW c, NEW ns, NEW bp, Built(g, c, ns, bp), NEW g2, NEW c2, NEW k0, Grew(g, c, ns, g2, c2, k0), NEW ns2,
           NEW b \in 1 .. g.n, MergeOf(c2[b]) = MergeOf(c[b]), g.mrg[b] = 0 => g2.mrg[b] = 0,
           \A i \in DOMAIN ns : IsIf(ns[i]) /\ ns[i].header = b => \E j \in DOMAIN ns2 : IsIf(ns2[j]) /\ ns2[j].header = b
    PROVE  MergeKnown(g2, c2, ns2, b)
<1>1. MergeKnown(g, c, ns, b)
  BY DEF Built, Matches, MergeKnown
<1>2. g.mrg[b] # 0 => g2.mrg[b] = g.mrg[b] /\ g2.cnt[b] = g.cnt[b]
  BY OldConstruct
<1>3. g2.mrg[b] = 0 => g2.cnt[b] = 0
  <2>1. Constructs(g2) /\ b \in 1 .. g2.n
    BY GrewFacts
  <2>. QED  BY <2>1 DEF Constructs
<1>4. CASE MergeOf(c[b]) = <<>>
  BY <1>1, <1>2, <1>3, <1>4 DEF MergeKnown
<1>5. CASE MergeOf(c[b]) # <<>>
  BY <1>1, <1>2, <1>5 DEF MergeKnown
<1>. QED  BY <1>4, <1>5

\* the graph is still that of the code
LEMMA MatchesStep ==
    ASSUME NEW g, NEW c, NEW ns, NEW bp, Built(g, c, ns, bp), NEW g2, NEW c2, NEW k0, Grew(g, c, ns, g2, c2, k0), NEW ns2,
           \A b \in 1 .. g2.n : MergeKnown(g2, c2, ns2, b)
    PROVE  Matches(g2, c2, ns2)
<1>1. c2 \in Seq(Seq(Instruction)) /\ g2.n = Len(c2) /\ \A b \in 1 .. g2.n : WellFormed(c2[b]) /\ g2.succ[b] = SuccOf(c2[b])
  BY DEF Grew, CodeGrows
<1>. QED  BY <1>1 DEF Matches, MergeKnown

\* a phi still names the predecessors of its block
LEMMA PhiStep ==
    ASSUME NEW g, NEW c, NEW ns, NEW bp, Built(g, c, ns, bp), NEW g2, NEW c2, NEW k0, Grew(g, c, ns, g2, c2, k0),
           \A p, b : NewEdge(g, g2, p, b) => b > g.n \/ c[b] = <<>> \/ Unowned(g, b),
           \A b \in 1 .. g2.n : PhiOf(c2[b]) # <<>> =>
               (b \in 1 .. g.n /\ PhiOf(c2[b]) = PhiOf(c[b])) \/ Joins(g2, c2, b, PhiOf(c2[b]))
    PROVE  PhiInv(g2, c2)
<1>. SUFFICES ASSUME NEW b \in 1 .. g.n, PhiOf(c2[b]) # <<>>, PhiOf(c2[b]) = PhiOf(c[b]) PROVE Joins(g2, c2, b, PhiOf(c[b]))
  BY DEF PhiInv
<1>. DEFINE t == PhiOf(c[b])
<1>1. Joins(g, c, b, t)
  BY DEF Built, PhiInv
<1>. HIDE DEF t
<1>2. /\ Len(t) = 2 /\ t[1] \in 1 .. g.n /\ t[2] \in 1 .. g.n
      /\ \A p \in 1 .. g.n : b \in g.succ[p] <=> p \in {t[1], t[2]}
      /\ MergeOf(c[t[1]]) = <<b>> /\ Flow(g, t[1], t[2])
  BY <1>1 DEF Joins
<1>3. /\ g.n \in Nat /\ g2.n \in Nat /\ 1 .. g.n \subseteq 1 .. g2.n /\ g.n <= g2.n /\ Structured(g)
      /\ \A d \in 1 .. g.n : c2[d] = c[d] \/ Fresh(c[d])
      /\ \A d \in 1 .. g.n : WellFormed(c[d])
  BY GrewFacts
<1>4. c[b] # <<>>
  BY EmptyBlock DEF t
<1>5. MergeOf(c[t[1]]) # <<>> /\ MergeOf(c[t[1]])[1] = b
  BY <1>2
<1>6. ~Unowned(g, b)
  <2>1. MergeKnown(g, c, ns, t[1])
    BY <1>2 DEF Built, Matches, MergeKnown
  <2>2. g.mrg[t[1]] = b
    BY <1>5, <2>1 DEF MergeKnown
  <2>. QED  BY <1>2, <2>2 DEF Unowned
<1>7. MergeOf(c2[t[1]]) = <<b>>
  <2>1. ~Fresh(c[t[1]])
    <3>1. WellFormed(c[t[1]])
      BY <1>2, <1>3
    <3>. QED  BY <1>5, <3>1, FreshBlock
  <2>2. c2[t[1]] = c[t[1]]
    BY <1>2, <1>3, <2>1
  <2>. QED  BY <1>2, <2>2
<1>8. \A p : ~NewEdge(g, g2, p, b)
  BY <1>3, <1>4, <1>6
<1>9. PICK h0 : Extends(g, g2, h0)
  BY DEF Grew
<1>10. ASSUME NEW p \in 1 .. g2.n PROVE b \in g2.succ[p] <=> p \in {t[1], t[2]}
  <2>1. b \in g2.succ[p] => p \in {t[1], t[2]}
    <3>1. ASSUME b \in g2.succ[p] PROVE p \in 1 .. g.n /\ b \in g.succ[p]
      <4>1. OldEdge(g, p, b)
        BY <1>8, <3>1 DEF NewEdge
      <4>. QED  BY <1>3, <4>1 DEF OldEdge
    <3>. QED  BY <1>2, <3>1
  <2>2. p \in {t[1], t[2]} => b \in g2.succ[p]
    <3>1. p \in {t[1], t[2]} => p \in 1 .. g.n /\ b \in g.succ[p]
      BY <1>2
    <3>2. p \in 1 .. g.n => g.succ[p] \subseteq g2.succ[p]
      BY <1>9 DEF Extends
    <3>. QED  BY <3>1, <3>2
  <2>. QED  BY <2>1, <2>2
<1>11. Flow(g2, t[1], t[2])
  BY <1>2, FlowStep
<1>. QED  BY <1>2, <1>3, <1>7, <1>10, <1>11 DEF Joins, t

\* a block still has its end, will be given one, or cannot be reached
LEMMA LiveStep ==
    ASSUME NEW g, NEW c, NEW ns, NEW bp, Built(g, c, ns, bp), NEW g2, NEW c2, NEW k0, Grew(g, c, ns, g2, c2, k0), NEW ns2, NEW bp2,
           \A b \in 1 .. g.n : Covered(c, ns, bp, b) => Covered(c2, ns2, bp2, b),
           \A p, b : NewEdge(g, g2, p, b) => Covered(c2, ns2, bp2, b),
           \A b \in g.n + 1 .. g2.n : Covered(c2, ns2, bp2, b) \/ Dead(g2, b),
           NEW b \in 1 .. g2.n
    PROVE  Covered(c2, ns2, bp2, b) \/ Dead(g2, b)
<1>1. g.n \in Nat /\ g2.n \in Nat /\ g.n <= g2.n /\ Structured(g)
  BY GrewFacts
<1>2. CASE b \in 1 .. g.n /\ ~Covered(c2, ns2, bp2, b)
  <2>1. Dead(g, b)
    BY <1>2 DEF Built, LiveInv
  <2>2. Unowned(g2, b)
    BY <1>2, <2>1, UnownedStep DEF Dead
  <2>3. ASSUME NEW p \in 1 .. g2.n, b \in g2.succ[p] PROVE FALSE
    <3>1. OldEdge(g, p, b)
      BY <1>2, <2>3 DEF NewEdge
    <3>2. p \in 1 .. g.n
      BY <1>1, <3>1 DEF OldEdge
    <3>. QED  BY <2>1, <3>1, <3>2 DEF OldEdge, Dead, NoPredecessor
  <2>. QED  BY <2>1, <2>2, <2>3 DEF Dead, NoPredecessor
<1>3. b \in 1 .. g.n \/ b \in g.n + 1 .. g2.n
  BY <1>1
<1>. QED  BY <1>2, <1>3

\* what is built next was named, or is new, and is not of a construct that ends here
LeavesClosed(g, ns, bp, g2, ns2, bp2) ==
    /\ \A h \in 1 .. g2.n : g2.mrg[h] # 0 => h \in Headers(ns2) \/ (h \in 1 .. g.n /\ g.mrg[h] # 0)
    /\ \A h \in Headers(ns) : h \in Headers(ns2) \/ (bp2 \notin g2.region[h] /\ \A i \in DOMAIN ns2 : Names(ns2[i]) \cap g2.region[h] = {})
    /\ bp2 \in g.n + 1 .. g2.n \/ bp2 = bp \/ \E j \in DOMAIN ns : bp2 \in Names(ns[j])
    /\ \A i \in DOMAIN ns2 : \A b \in Names(ns2[i]) : b \in g.n + 1 .. g2.n \/ b = bp \/ \E j \in DOMAIN ns : b \in Names(ns[j])

\* a construct left behind still holds nothing that is being built
LEMMA ClosedStep ==
    ASSUME NEW g, NEW c, NEW ns, NEW bp, Built(g, c, ns, bp), NEW g2, NEW c2, NEW k0, Grew(g, c, ns, g2, c2, k0), NEW ns2, NEW bp2,
           LeavesClosed(g, ns, bp, g2, ns2, bp2)
    PROVE  Closed(g2, ns2, bp2)
<1>. SUFFICES ASSUME NEW h \in 1 .. g2.n, g2.mrg[h] # 0, h \notin Headers(ns2)
              PROVE  bp2 \notin g2.region[h] /\ \A i \in DOMAIN ns2 : Names(ns2[i]) \cap g2.region[h] = {}
  BY DEF Closed, Headers
<1>l. /\ \A k \in 1 .. g2.n : g2.mrg[k] # 0 => k \in Headers(ns2) \/ (k \in 1 .. g.n /\ g.mrg[k] # 0)
      /\ \A k \in Headers(ns) : k \in Headers(ns2) \/ (bp2 \notin g2.region[k] /\ \A i \in DOMAIN ns2 : Names(ns2[i]) \cap g2.region[k] = {})
      /\ bp2 \in g.n + 1 .. g2.n \/ bp2 = bp \/ \E j \in DOMAIN ns : bp2 \in Names(ns[j])
      /\ \A i \in DOMAIN ns2 : \A b \in Names(ns2[i]) : b \in g.n + 1 .. g2.n \/ b = bp \/ \E j \in DOMAIN ns : b \in Names(ns[j])
  BY DEF LeavesClosed
<1>1. h \in 1 .. g.n /\ g.mrg[h] # 0 /\ g.n \in Nat /\ g2.n \in Nat /\ Structured(g)
  BY <1>l, GrewFacts
<1>2. CASE h \in Headers(ns)
  BY <1>l, <1>2
<1>3. CASE h \notin Headers(ns)
  <2>1. g2.region[h] = g.region[h] /\ g.region[h] \subseteq 2 .. g.n
    BY <1>1, <1>3, OldConstruct, ConstructFacts
  <2>2. bp \notin g.region[h] /\ \A i \in DOMAIN ns : Names(ns[i]) \cap g.region[h] = {}
    BY <1>1, <1>3 DEF Built, Closed, Headers
  <2>3. \A b \in g.n + 1 .. g2.n : b \notin 2 .. g.n
    BY <1>1
  <2>. QED  BY <1>l, <2>1, <2>2, <2>3
<1>. QED  BY <1>2, <1>3

-----------------------------------------------------------------------------
\* The frames, through such a step

\* f becomes f2
Turns(g, g2, k0, f, f2) ==
    /\ FrameOK(f2) /\ f2.kind = f.kind /\ Header(f2) = Header(f) /\ First(f2) = First(f) /\ f2.merge = f.merge /\ Cont(f2) = Cont(f)
    /\ Names(f2) \subseteq Names(f) \cup (g.n + 1 .. g2.n)
    /\ Await(f2) \subseteq Await(f)
    /\ \A b \in Entries(f2) : b \in Entries(f) \/ (b \in g.n + 1 .. g2.n /\ Unowned(g2, b))
    /\ f2.kind = "switch" => Segments(f2) \subseteq Segments(f)
    /\ f2.kind = "loop" => (Terminal(f2) <=> Terminal(f) \/ k0 = Header(f))

\* neither the blocks that f awaits get code nor those it enters predecessors
Calm(g, c, g2, c2, f) ==
    /\ \A b \in Await(f) : c2[b] = c[b]
    /\ IsIf(f) => c2[f.header] = c[f.header]
    /\ \A p, b : NewEdge(g, g2, p, b) => b \notin Entries(f) /\ (f.kind = "and" => b # f.merge)

\* a frame that stays as it was
LEMMA TurnsSame ==
    ASSUME NEW g, NEW g2, NEW k0, NEW f, FrameOK(f), k0 # Header(f)
    PROVE  Turns(g, g2, k0, f, f)
BY DEF Turns

\* what a frame says of the graph and the code still holds
LEMMA FrameStep ==
    ASSUME NEW g, NEW c, NEW ns, NEW bp, Built(g, c, ns, bp), NEW g2, NEW c2, NEW k0, Grew(g, c, ns, g2, c2, k0),
           NEW i \in DOMAIN ns, NEW f2, Turns(g, g2, k0, ns[i], f2), Calm(g, c, g2, c2, f2)
    PROVE  FrameInv(g2, c2, f2)
<1>. DEFINE f == ns[i]
            h == Header(f)
<1>1. /\ g.n \in Nat \ {0} /\ g2.n \in Nat \ {0} /\ g.n <= g2.n /\ Shape(g2, ns) /\ 1 .. g.n \subseteq 1 .. g2.n
      /\ Structured(g) /\ Typed(g2)
  BY GrewFacts
<1>2. /\ FrameOK(f) /\ FrameInv(g, c, f) /\ h \in 1 .. g.n /\ g.mrg[h] # 0 /\ Names(f) \subseteq 1 .. g.n
      /\ (f.kind = "loop" => h = f.head) /\ g.tail[h] \in Nat /\ f.merge \in 1 .. g.n
  BY BuiltFrame
<1>3. /\ FrameOK(f2) /\ f2.kind = f.kind /\ Header(f2) = h /\ First(f2) = First(f) /\ f2.merge = f.merge /\ Cont(f2) = Cont(f)
      /\ Names(f2) \subseteq Names(f) \cup (g.n + 1 .. g2.n) /\ Await(f2) \subseteq Await(f)
  BY DEF Turns
<1>4. g2.mrg[h] = f.merge /\ g2.cnt[h] = Cont(f) /\ g2.region[h] = Region(g2.n, f)
      /\ (f.kind = "loop" => Unowned(g2, f.head))
  BY <1>1 DEF Shape
<1>t. (h = k0 => g2.tail[h] = g.n) /\ (h # k0 => g2.tail[h] = g.tail[h])
  BY <1>2, OldConstruct
<1>o. ASSUME NEW p \in 1 .. g2.n, NEW b, OldEdge(g, p, b) PROVE p \in 1 .. g.n /\ b \in g.succ[p] /\ b \in 1 .. g.n
  <2>1. p \in 1 .. g.n /\ b \in g.succ[p]
    BY <1>1, <1>o DEF OldEdge
  <2>. QED  BY <1>1, <2>1, ConstructFacts
<1>. HIDE DEF h
<1>5. Names(f2) \subseteq 1 .. g2.n
  BY <1>1, <1>2, <1>3
<1>6. \A b \in Await(f2) : c2[b] = <<>>
  BY <1>2, <1>3 DEF Calm, FrameInv
<1>7. IsIf(f2) => Fresh(c2[f2.header])
  <2>1. ASSUME IsIf(f2) PROVE Fresh(c2[f2.header])
    <3>1. IsIf(f) /\ f2.header = f.header
      BY <1>3, <2>1 DEF IsIf, Header, h
    <3>. QED  BY <1>2, <2>1, <3>1 DEF Calm, FrameInv
  <2>. QED  BY <2>1
<1>8. g2.mrg[Header(f2)] = f2.merge /\ g2.cnt[Header(f2)] = Cont(f2) /\ g2.region[Header(f2)] = Region(g2.n, f2)
  <2>1. Region(g2.n, f2) = Region(g2.n, f)
    BY <1>3 DEF Region
  <2>. QED  BY <1>3, <1>4, <2>1
<1>9. ASSUME NEW b \in Entries(f2)
      PROVE  Unowned(g2, b) /\ \A p \in 1 .. g2.n : b \in g2.succ[p] => f2.kind = "switch" /\ p = f2.header
  <2>1. CASE b \in Entries(f)
    <3>1. b \in 1 .. g.n
      BY <1>2, <2>1, FrameFacts
    <3>2. Unowned(g, b) /\ \A p \in 1 .. g.n : b \in g.succ[p] => f.kind = "switch" /\ p = f.header
      BY <1>2, <2>1 DEF FrameInv
    <3>3. Unowned(g2, b)
      BY <3>1, <3>2, UnownedStep
    <3>4. ASSUME NEW p \in 1 .. g2.n, b \in g2.succ[p] PROVE f2.kind = "switch" /\ p = f2.header
      <4>1. OldEdge(g, p, b)
        BY <1>9, <3>4 DEF Calm, NewEdge
      <4>2. f.kind = "switch" /\ p = f.header
        BY <1>o, <3>2, <4>1
      <4>. QED  BY <1>3, <4>2 DEF Header, h
    <3>. QED  BY <3>3, <3>4
  <2>2. CASE b \in g.n + 1 .. g2.n /\ Unowned(g2, b)
    <3>1. ASSUME NEW p \in 1 .. g2.n, b \in g2.succ[p] PROVE FALSE
      <4>1. OldEdge(g, p, b)
        BY <1>9, <3>1 DEF Calm, NewEdge
      <4>. QED  BY <1>1, <1>o, <2>2, <4>1
    <3>. QED  BY <2>2, <3>1
  <2>. QED  BY <2>1, <2>2 DEF Turns
<1>10. f2.kind = "switch" => Segments(f2) \subseteq g2.succ[f2.header]
  <2>1. ASSUME f2.kind = "switch" PROVE Segments(f2) \subseteq g2.succ[f2.header]
    <3>1. f2.header = h /\ f.header = h /\ f.kind = "switch"
      BY <1>3, <2>1 DEF Header, h
    <3>2. Segments(f2) \subseteq Segments(f) /\ Segments(f) \subseteq g.succ[h]
      BY <1>2, <2>1, <3>1 DEF Turns, FrameInv
    <3>3. PICK h0 : Extends(g, g2, h0)
      BY DEF Grew
    <3>4. g.succ[h] \subseteq g2.succ[h]
      BY <1>2, <3>3 DEF Extends
    <3>. QED  BY <3>1, <3>2, <3>4
  <2>. QED  BY <2>1
<1>11. f2.kind = "and" => NoPredecessor(g2, f2.merge)
  <2>1. ASSUME f2.kind = "and", NEW p \in 1 .. g2.n, f2.merge \in g2.succ[p] PROVE FALSE
    <3>1. OldEdge(g, p, f2.merge)
      BY <2>1 DEF Calm, NewEdge
    <3>2. NoPredecessor(g, f.merge)
      BY <1>2, <1>3, <2>1 DEF FrameInv
    <3>. QED  BY <1>o, <1>3, <3>1, <3>2 DEF NoPredecessor
  <2>. QED  BY <2>1 DEF NoPredecessor
<1>12. f2.kind = "loop" => /\ Unowned(g2, f2.head)
                           /\ IF Terminal(f2) THEN g2.tail[f2.head] <= g2.n /\ \A b \in Names(f2) : b <= g2.tail[f2.head]
                              ELSE g2.tail[f2.head] = MaxBlocks
  <2>. SUFFICES ASSUME f2.kind = "loop"
                PROVE  /\ Unowned(g2, f2.head)
                       /\ IF Terminal(f2) THEN g2.tail[f2.head] <= g2.n /\ \A b \in Names(f2) : b <= g2.tail[f2.head]
                          ELSE g2.tail[f2.head] = MaxBlocks
    OBVIOUS
  <2>1. f.kind = "loop" /\ f2.head = h /\ f.head = h
    BY <1>3 DEF Header, h
  <2>2. Names(f2) = Names(f)
    BY <1>3, <2>1 DEF Names, First, Cont, Header
  <2>3. IF Terminal(f) THEN g.tail[h] <= g.n /\ \A b \in Names(f) : b <= g.tail[h] ELSE g.tail[h] = MaxBlocks
    BY <1>2, <2>1 DEF FrameInv
  <2>4. Terminal(f2) <=> Terminal(f) \/ k0 = h
    BY DEF Turns, h
  <2>5. k0 = h => ~Terminal(f) /\ g2.n = g.n
    BY <1>2, <2>1 DEF Grew, Ending
  <2>6. CASE k0 = h
    <3>1. g2.tail[h] = g.n /\ \A b \in Names(f) : b <= g.n
      BY <1>1, <1>2, <1>t, <2>6
    <3>. QED  BY <1>1, <1>4, <2>1, <2>2, <2>4, <2>6, <3>1
  <2>7. CASE k0 # h
    <3>1. g2.tail[h] = g.tail[h]
      BY <1>t, <2>7
    <3>. QED  BY <1>1, <1>2, <1>4, <2>1, <2>2, <2>3, <2>4, <2>7, <3>1
  <2>. QED  BY <2>6, <2>7
<1>. QED  BY <1>5, <1>6, <1>7, <1>8, <1>9, <1>10, <1>11, <1>12 DEF FrameInv

\* new blocks, and those that the frame held, are held by it
LEMMA PointStep ==
    ASSUME NEW g, NEW c, NEW ns, NEW bp, Built(g, c, ns, bp), NEW g2, NEW c2, NEW k0, Grew(g, c, ns, g2, c2, k0),
           NEW i \in DOMAIN ns, NEW f2, Turns(g, g2, k0, ns[i], f2), k0 # Header(ns[i]),
           NEW b, b \in g.n + 1 .. g2.n \/ (b \in 1 .. g.n /\ Point(g, ns[i], b))
    PROVE  Point(g2, f2, b)
<1>. DEFINE f == ns[i]
            h == Header(f)
<1>1. g.n \in Nat \ {0} /\ g2.n \in Nat \ {0} /\ g.n <= g2.n /\ Structured(g)
  BY GrewFacts
<1>2. /\ FrameOK(f) /\ FrameInv(g, c, f) /\ h \in 1 .. g.n /\ g.mrg[h] # 0 /\ Names(f) \subseteq 1 .. g.n
      /\ (f.kind = "loop" => h = f.head) /\ g.tail[h] \in Nat /\ First(f) \in Nat /\ f.merge \in 1 .. g.n
  BY BuiltFrame
<1>3. /\ FrameOK(f2) /\ f2.kind = f.kind /\ Header(f2) = h /\ First(f2) = First(f) /\ f2.merge = f.merge /\ Cont(f2) = Cont(f)
      /\ Await(f2) \subseteq Await(f) /\ (f2.kind = "loop" => (Terminal(f2) <=> Terminal(f) \/ k0 = h))
  BY DEF Turns
<1>4. Await(f) \subseteq Names(f) /\ First(f) <= f.merge /\ (Terminal(f2) => f2.kind = "loop")
  BY <1>2, <1>3, FrameFacts
<1>5. g2.tail[h] = g.tail[h]
  BY <1>2, OldConstruct
<1>6. f2.kind = "loop" => f2.head = h /\ f2.continue_target = f.continue_target
  BY <1>3 DEF Header, Cont
<1>7. CASE b \in g.n + 1 .. g2.n
  <2>1. b \in Region(g2.n, f2) \ Await(f2)
    BY <1>1, <1>2, <1>3, <1>4, <1>7 DEF Region
  <2>2. Terminal(f2) => b > g2.tail[f2.head]
    <3>1. ASSUME Terminal(f2) PROVE b > g2.tail[f2.head]
      <4>1. Terminal(f) /\ f.kind = "loop" /\ f2.head = h /\ f.head = h
        BY <1>2, <1>3, <1>4, <1>6, <3>1
      <4>2. g.tail[h] <= g.n
        BY <1>2, <4>1 DEF FrameInv
      <4>. QED  BY <1>1, <1>2, <1>5, <1>7, <4>1, <4>2
    <3>. QED  BY <3>1
  <2>. QED  BY <2>1, <2>2 DEF Point
<1>8. CASE b \in 1 .. g.n /\ Point(g, f, b)
  <2>1. b \in Region(g2.n, f2) \ Await(f2)
    BY <1>1, <1>2, <1>3, <1>8 DEF Region, Point
  <2>2. Terminal(f2) => b > g2.tail[f2.head] \/ b = f2.continue_target
    BY <1>2, <1>3, <1>4, <1>5, <1>6, <1>8 DEF Point
  <2>. QED  BY <2>1, <2>2 DEF Point
<1>. QED  BY <1>7, <1>8

\* a frame that is inside of another stays so
LEMMA WithinStep ==
    ASSUME NEW g, NEW c, NEW ns, NEW bp, Built(g, c, ns, bp), NEW g2, NEW c2, NEW k0, Grew(g, c, ns, g2, c2, k0),
           NEW i \in DOMAIN ns, k0 # Header(ns[i]),
           NEW f2, \/ \E j \in DOMAIN ns : i < j /\ Turns(g, g2, k0, ns[j], f2)
                   \/ /\ FrameOK(f2) /\ First(f2) > g.n /\ (f2.kind = "loop" => f2.head > g.n)
                      /\ Header(f2) \in g.n + 1 .. g2.n \/ (Header(f2) \in 1 .. g.n /\ Point(g, ns[i], Header(f2)))
                      /\ ns[i].place \in {"test", "terminal"} \/ ns[i].kind = "and" => IsIf(f2)
                      /\ ns[i].place \notin {"head", "empty"}
    PROVE  Within(g2, ns[i], f2)
<1>. DEFINE e == ns[i]
            h == Header(e)
<1>1. g.n \in Nat \ {0} /\ g2.n \in Nat \ {0} /\ g.n <= g2.n /\ Structured(g)
  BY GrewFacts
<1>2. /\ FrameOK(e) /\ FrameInv(g, c, e) /\ h \in 1 .. g.n /\ g.mrg[h] # 0 /\ Names(e) \subseteq 1 .. g.n
      /\ (e.kind = "loop" => h = e.head) /\ g.tail[h] \in Nat /\ (Terminal(e) => e.kind = "loop")
  BY BuiltFrame, FrameFacts
<1>3. g2.tail[h] = g.tail[h]
  BY <1>2, OldConstruct
<1>4. Turns(g, g2, k0, e, e)
  BY <1>2, TurnsSame
<1>5. ASSUME NEW j \in DOMAIN ns, i < j, Turns(g, g2, k0, ns[j], f2) PROVE Within(g2, e, f2)
  <2>1. Within(g, e, ns[j]) /\ FrameOK(ns[j]) /\ Header(ns[j]) \in 1 .. g.n
    BY <1>5, BuiltFrame DEF Built
  <2>2. f2.kind = ns[j].kind /\ Header(f2) = Header(ns[j]) /\ First(f2) = First(ns[j])
    BY <1>5 DEF Turns
  <2>3. Point(g2, e, Header(f2))
    <3>1. Point(g, e, Header(ns[j]))
      BY <2>1 DEF Within
    <3>. QED  BY <1>4, <2>1, <2>2, <3>1, PointStep
  <2>4. f2.kind = "loop" => f2.head = ns[j].head
    BY <2>2 DEF Header
  <2>5. Terminal(e) => First(f2) > g2.tail[e.head]
    BY <1>2, <1>3, <2>1, <2>2 DEF Within
  <2>6. IsIf(ns[j]) => IsIf(f2)
    BY <2>2 DEF IsIf
  <2>. QED  BY <2>1, <2>2, <2>3, <2>4, <2>5, <2>6 DEF Within
<1>6. ASSUME FrameOK(f2), First(f2) > g.n, f2.kind = "loop" => f2.head > g.n,
             Header(f2) \in g.n + 1 .. g2.n \/ (Header(f2) \in 1 .. g.n /\ Point(g, e, Header(f2))),
             e.place \in {"test", "terminal"} \/ e.kind = "and" => IsIf(f2), e.place \notin {"head", "empty"}
      PROVE  Within(g2, e, f2)
  <2>1. First(f2) \in Nat /\ Header(f2) \in Nat /\ (f2.kind = "loop" => f2.head \in Nat)
    <3>1. First(f2) \in Nat /\ Header(f2) \in Nat
      BY <1>6, FrameFacts
    <3>. QED  BY <3>1 DEF Header
  <2>2. \A b \in Names(e) : b < First(f2) /\ (f2.kind = "loop" => b < f2.head)
    BY <1>1, <1>2, <1>6, <2>1
  <2>3. Point(g2, e, Header(f2))
    BY <1>4, <1>6, PointStep
  <2>4. ASSUME Terminal(e) PROVE First(f2) > g2.tail[e.head]
    <3>1. g.tail[h] <= g.n /\ h = e.head
      BY <1>2, <2>4 DEF FrameInv
    <3>. QED  BY <1>1, <1>2, <1>3, <1>6, <2>1, <3>1
  <2>. QED  BY <1>6, <2>2, <2>3, <2>4 DEF Within
<1>. QED  BY <1>5, <1>6

\* what one frame names is not what another awaits
LEMMA Apart ==
    ASSUME NEW g, NEW c, NEW ns, NEW bp, Built(g, c, ns, bp), NEW i \in DOMAIN ns, NEW j \in DOMAIN ns, i # j, NEW b \in Names(ns[i])
    PROVE  /\ j < i => Point(g, ns[j], b) /\ b \notin Await(ns[j]) /\ b # Header(ns[j])
           /\ b # Header(ns[i]) \/ (ns[i].kind = "loop" /\ j < i) => b \notin Entries(ns[j]) \cup Await(ns[j]) \cup {ns[j].merge}
<1>1. g.n \in Nat /\ i \in Nat /\ j \in Nat
  BY BuiltFrame
<1>2. FrameOK(ns[i]) /\ b \in 1 .. g.n /\ (b = Header(ns[i]) \/ b >= First(ns[i])) /\ First(ns[i]) \in Nat
  BY BuiltFrame, FrameFacts
<1>3. /\ FrameOK(ns[j]) /\ g.tail[Header(ns[j])] \in Nat /\ (ns[j].kind = "loop" => Header(ns[j]) = ns[j].head)
      /\ ns[j].merge \in Names(ns[j]) /\ Entries(ns[j]) \cup Await(ns[j]) \subseteq Names(ns[j]) /\ First(ns[j]) \in Nat /\ Header(ns[j]) \in Nat
      /\ Header(ns[j]) \notin Entries(ns[j]) \cup Await(ns[j]) \cup {ns[j].merge} /\ Header(ns[j]) < First(ns[j])
      /\ \A x \in Names(ns[j]) : x = Header(ns[j]) \/ x >= First(ns[j])
  <2>1. /\ FrameOK(ns[j]) /\ g.tail[Header(ns[j])] \in Nat /\ (ns[j].kind = "loop" => Header(ns[j]) = ns[j].head)
    BY BuiltFrame
  <2>2. ns[j].merge \in Await(ns[j])
    BY DEF Await
  <2>. QED  BY <2>1, <2>2, FrameFacts
<1>4. CASE j < i
  <2>1. Within(g, ns[j], ns[i])
    BY <1>4 DEF Built
  <2>2. Point(g, ns[j], b) /\ (b >= First(ns[i]) => b \notin Names(ns[j]))
    BY <1>1, <1>2, <1>3, <2>1, BelowPoint
  <2>3. b \notin Await(ns[j]) /\ b # Header(ns[j])
    BY <1>1, <1>3, <2>2 DEF Point, Region
  <2>4. ns[i].kind = "loop" /\ b = Header(ns[i]) => b \notin Names(ns[j])
    <3>1. ASSUME ns[i].kind = "loop", b = Header(ns[i]), b \in Names(ns[j]) PROVE FALSE
      <4>1. b < ns[i].head /\ b = ns[i].head
        BY <2>1, <3>1 DEF Within, Header
      <4>. QED  BY <1>2, <4>1
    <3>. QED  BY <3>1
  <2>. QED  BY <1>2, <1>3, <2>2, <2>3, <2>4
<1>5. CASE i < j
  <2>1. Within(g, ns[i], ns[j])
    BY <1>5 DEF Built
  <2>2. b < First(ns[j])
    BY <2>1 DEF Within
  <2>. QED  BY <1>1, <1>2, <1>3, <1>5, <2>2
<1>. QED  BY <1>1, <1>4, <1>5

\* blocks written and edges added, as far as they may concern the frame j
Untouched(g, c, ns, bp, g2, c2, j) ==
    /\ \A b \in 1 .. g.n : c2[b] # c[b] => \/ b = bp /\ \A i \in DOMAIN ns : ns[i].place # "head"
                                          \/ \E i \in DOMAIN ns : i > j /\ b \in Names(ns[i])
    /\ \A p, b : NewEdge(g, g2, p, b) =>
         \/ b \in g.n + 1 .. g2.n
         \/ \E i \in DOMAIN ns : i # j /\ b \in Names(ns[i]) /\ (b # Header(ns[i]) \/ (ns[i].kind = "loop" /\ j < i))
         \/ b \notin Entries(ns[j]) /\ (ns[j].kind = "and" => b # ns[j].merge)

\* a step elsewhere leaves what a frame says of its blocks
LEMMA Calmed ==
    ASSUME NEW g, NEW c, NEW ns, NEW bp, Built(g, c, ns, bp), NEW g2, NEW c2, NEW k0, Grew(g, c, ns, g2, c2, k0), NEW j \in DOMAIN ns,
           Untouched(g, c, ns, bp, g2, c2, j)
    PROVE  Calm(g, c, g2, c2, ns[j])
<1>0. /\ \A b \in 1 .. g.n : c2[b] # c[b] => \/ b = bp /\ \A i \in DOMAIN ns : ns[i].place # "head"
                                            \/ \E i \in DOMAIN ns : i > j /\ b \in Names(ns[i])
      /\ \A p, b : NewEdge(g, g2, p, b) =>
           \/ b \in g.n + 1 .. g2.n
           \/ \E i \in DOMAIN ns : i # j /\ b \in Names(ns[i]) /\ (b # Header(ns[i]) \/ (ns[i].kind = "loop" /\ j < i))
           \/ b \notin Entries(ns[j]) /\ (ns[j].kind = "and" => b # ns[j].merge)
  BY Zenon DEF Untouched
<1>. USE <1>0
<1>1. g.n \in Nat /\ g2.n \in Nat
  BY GrewFacts
<1>2. FrameOK(ns[j]) /\ Names(ns[j]) \subseteq 1 .. g.n /\ Header(ns[j]) \in 1 .. g.n /\ j \in Nat /\ g.region[Header(ns[j])] = Region(g.n, ns[j])
  BY BuiltFrame
<1>3. Await(ns[j]) \subseteq Names(ns[j]) /\ Entries(ns[j]) \subseteq Names(ns[j]) /\ ns[j].merge \in Names(ns[j]) /\ Header(ns[j]) < First(ns[j])
      /\ First(ns[j]) \in Nat /\ Header(ns[j]) \in Nat
  <2>1. ns[j].merge \in Await(ns[j])
    BY DEF Await
  <2>. QED  BY <1>2, <2>1, FrameFacts
<1>4. ASSUME NEW b \in 1 .. g.n, c2[b] # c[b] PROVE b \notin Await(ns[j]) /\ b # Header(ns[j])
  <2>1. CASE b = bp /\ \A i \in DOMAIN ns : ns[i].place # "head"
    <3>1. Point(g, ns[j], b)
      BY <2>1, BuildPlace
    <3>. QED  BY <1>1, <1>3, <3>1 DEF Point, Region
  <2>2. CASE \E i \in DOMAIN ns : i > j /\ b \in Names(ns[i])
    <3>1. PICK i \in DOMAIN ns : i > j /\ b \in Names(ns[i])
      BY <2>2
    <3>2. i # j /\ j < i
      <4>1. i \in Nat
        BY BuiltFrame
      <4>. QED  BY <1>2, <3>1, <4>1
    <3>. QED  BY <3>1, <3>2, Apart
  <2>. QED  BY <1>4, <2>1, <2>2
<1>5. ASSUME NEW p, NEW b, NewEdge(g, g2, p, b) PROVE b \notin Entries(ns[j]) /\ (ns[j].kind = "and" => b # ns[j].merge)
  <2>1. CASE b \in g.n + 1 .. g2.n
    <3>1. b \notin 1 .. g.n
      BY <1>1, <2>1
    <3>. QED  BY <1>2, <1>3, <3>1
  <2>2. CASE \E i \in DOMAIN ns : i # j /\ b \in Names(ns[i]) /\ (b # Header(ns[i]) \/ (ns[i].kind = "loop" /\ j < i))
    BY <2>2, Apart
  <2>. QED  BY <1>5, <2>1, <2>2
<1>6. IsIf(ns[j]) => c2[ns[j].header] = c[ns[j].header]
  <2>1. IsIf(ns[j]) => Header(ns[j]) = ns[j].header
    BY DEF IsIf, Header
  <2>. QED  BY <1>2, <1>4, <2>1
<1>. QED  BY <1>2, <1>3, <1>4, <1>5, <1>6 DEF Calm

\* a block that has its end keeps it
LEMMA CoverStep ==
    ASSUME NEW g, NEW c, NEW ns, NEW bp, Built(g, c, ns, bp), NEW g2, NEW c2, NEW k0, Grew(g, c, ns, g2, c2, k0), NEW ns2, NEW bp2,
           Covered(c2, ns2, bp2, bp),
           \A i \in DOMAIN ns : \/ i \in DOMAIN ns2 /\ ns2[i] = ns[i]
                                \/ /\ \A b \in Await(ns[i]) : Covered(c2, ns2, bp2, b)
                                   /\ IsIf(ns[i]) => Covered(c2, ns2, bp2, ns[i].header),
           NEW b \in 1 .. g.n, Covered(c, ns, bp, b)
    PROVE  Covered(c2, ns2, bp2, b)
<1>1. CASE Terminated(c[b])
  <2>1. WellFormed(c[b]) /\ (c2[b] = c[b] \/ Fresh(c[b]))
    BY GrewFacts
  <2>2. c2[b] = c[b]
    BY <1>1, <2>1, FreshBlock
  <2>. QED  BY <1>1, <2>2 DEF Covered
<1>2. CASE b = bp
  BY <1>2
<1>3. ASSUME NEW i \in DOMAIN ns, b \in Await(ns[i]) \/ (IsIf(ns[i]) /\ b = ns[i].header) PROVE Covered(c2, ns2, bp2, b)
  <2>1. CASE i \in DOMAIN ns2 /\ ns2[i] = ns[i]
    BY <1>3, <2>1 DEF Covered
  <2>2. CASE ~(i \in DOMAIN ns2 /\ ns2[i] = ns[i])
    BY <1>3, <2>2
  <2>. QED  BY <2>1, <2>2
<1>. QED  BY <1>1, <1>2, <1>3 DEF Covered

-----------------------------------------------------------------------------
\* Built, through a step that keeps the number of frames, ends one or begins one

EdgeOK(g, g2) ==
    \A p, b : NewEdge(g, g2, p, b) =>
        /\ Enters(g2, p, b) /\ Leaves(g2, p, b) /\ Returns(g2, p, b)
        /\ b \in Owned(g2) \/ p \in g2.region[b] \/ \E q \in 1 .. g2.n : ForwardFrom(g2, b, q)

\* the graph of the code after the step is structured
LEMMA StructuredStep ==
    ASSUME NEW g, NEW c, NEW ns, NEW bp, Built(g, c, ns, bp), NEW g2, NEW c2, NEW k0, Grew(g, c, ns, g2, c2, k0), EdgeOK(g, g2)
    PROVE  Structured(g2)
<1>1. g.n \in Nat \ {0} /\ g2.n \in Nat \ {0} /\ g.n <= g2.n /\ Structured(g)
  BY GrewFacts
<1>2. PICK h0 : Extends(g, g2, h0)
  BY DEF Grew
<1>3. ASSUME NEW p \in 1 .. g2.n, NEW b \in g2.succ[p], ~OldEdge(g, p, b) PROVE Enters(g2, p, b) /\ Leaves(g2, p, b) /\ Returns(g2, p, b)
  BY <1>3 DEF EdgeOK, NewEdge
<1>4. ASSUME NEW b \in 1 .. g2.n, b \notin Owned(g2), ~ \E q \in 1 .. g2.n : ForwardFrom(g2, b, q) PROVE SamePredecessors(g, g2, b)
  <2>1. \A p \in 1 .. g2.n : b \in g2.succ[p] => OldEdge(g, p, b) \/ p \in g2.region[b]
    BY <1>4 DEF EdgeOK, NewEdge
  <2>2. ASSUME ~(b <= g.n) PROVE FALSE
    <3>1. ASSUME NEW p \in 1 .. g2.n, OldEdge(g, p, b) PROVE FALSE
      <4>1. p \in 1 .. g.n /\ b \in g.succ[p]
        BY <1>1, <3>1 DEF OldEdge
      <4>2. b \in 1 .. g.n
        BY <1>1, <4>1, ConstructFacts
      <4>. QED  BY <2>2, <4>2
    <3>2. ForwardFrom(g2, b, 1)
      BY <2>1, <3>1 DEF ForwardFrom
    <3>. QED  BY <1>1, <1>4, <3>2
  <2>. QED  BY <2>1, <2>2 DEF SamePredecessors
<1>. QED  BY <1>1, <1>2, <1>3, <1>4, GraphStep

\* the second operand of && or || begins in a block of the function
LEMMA AndThen ==
    ASSUME NEW g, NEW c, NEW ns, NEW bp, Built(g, c, ns, bp), NEW i \in DOMAIN ns, ns[i].kind = "and"
    PROVE  ns[i].then \in 1 .. g.n
<1>1. FrameOK(ns[i]) /\ Names(ns[i]) \subseteq 1 .. g.n
  BY BuiltFrame
<1>2. ns[i].then # 0
  <2>1. IsIf(ns[i])
    BY DEF IsIf
  <2>2. ns[i].header < ns[i].then /\ Header(ns[i]) \in Nat /\ Header(ns[i]) = ns[i].header
    BY <1>1, <2>1, FrameFacts DEF FrameOK, Header, IsIf
  <2>. QED  BY <2>2
<1>3. ns[i].then \in Names(ns[i])
  BY <1>2 DEF Names
<1>. QED  BY <1>1, <1>3

\* no frame begins or ends, the innermost may change
LEMMA BuiltSame ==
    ASSUME NEW g, NEW c, NEW ns, NEW bp, Built(g, c, ns, bp), NEW g2, NEW c2, NEW k0, Grew(g, c, ns, g2, c2, k0), EdgeOK(g, g2),
           \A h \in 1 .. g2.n : g2.mrg[h] # 0 => h \in 1 .. g.n /\ g.mrg[h] # 0,
           NEW ns2 \in Seq(Frame), Len(ns2) = Len(ns), NEW bp2,
           \A i \in DOMAIN ns : /\ i # Len(ns) => ns2[i] = ns[i] /\ k0 # Header(ns[i])
                                /\ Turns(g, g2, k0, ns[i], ns2[i]) /\ Calm(g, c, g2, c2, ns2[i]),
           ns # <<>> => ns2[Len(ns)].kind # "and",
           At(g2, c2, ns2, bp2), bp2 \in g.n + 1 .. g2.n \/ \E j \in DOMAIN ns : bp2 \in Names(ns[j]),
           Covered(c2, ns2, bp2, bp),
           \A i \in DOMAIN ns : \/ ns2[i] = ns[i]
                                \/ /\ \A b \in Await(ns[i]) : Covered(c2, ns2, bp2, b)
                                   /\ IsIf(ns[i]) => Covered(c2, ns2, bp2, ns[i].header),
           \A p, b : NewEdge(g, g2, p, b) => Covered(c2, ns2, bp2, b) /\ (b \in g.n + 1 .. g2.n \/ c[b] = <<>> \/ Unowned(g, b)),
           \A b \in g.n + 1 .. g2.n : Covered(c2, ns2, bp2, b) /\ MergeOf(c2[b]) = <<>> /\ PhiOf(c2[b]) = <<>>,
           \A b \in 1 .. g.n : MergeOf(c2[b]) = MergeOf(c[b]) /\ PhiOf(c2[b]) = PhiOf(c[b])
    PROVE  Built(g2, c2, ns2, bp2)
<1>1. /\ g.n \in Nat \ {0} /\ g2.n \in Nat \ {0} /\ g.n <= g2.n /\ g2.n <= MaxBlocks /\ ns \in Seq(Frame) /\ Constructs(g2)
      /\ DOMAIN ns = 1 .. Len(ns) /\ Len(ns) \in Nat
  BY GrewFacts
<1>2. DOMAIN ns2 = DOMAIN ns /\ DOMAIN ns2 = 1 .. Len(ns2)
  BY <1>1
<1>3. Structured(g2)
  BY StructuredStep
<1>n. ASSUME NEW b \in 1 .. g2.n, b \notin 1 .. g.n PROVE b \in g.n + 1 .. g2.n
  BY <1>1, <1>n
<1>4. Matches(g2, c2, ns2)
  <2>1. ASSUME NEW b \in 1 .. g2.n PROVE MergeKnown(g2, c2, ns2, b)
    <3>1. CASE b \in 1 .. g.n
      <4>1. \A i \in DOMAIN ns : IsIf(ns[i]) /\ ns[i].header = b => \E j \in DOMAIN ns2 : IsIf(ns2[j]) /\ ns2[j].header = b
        <5>1. ASSUME NEW i \in DOMAIN ns, IsIf(ns[i]), ns[i].header = b PROVE IsIf(ns2[i]) /\ ns2[i].header = b
          BY <5>1 DEF Turns, IsIf, Header
        <5>. QED  BY <1>2, <5>1
      <4>2. g.mrg[b] = 0 => g2.mrg[b] = 0
        OBVIOUS
      <4>3. MergeOf(c2[b]) = MergeOf(c[b])
        BY <3>1
      <4>. QED  BY <3>1, <4>1, <4>2, <4>3, MergeStep
    <3>2. CASE b \notin 1 .. g.n
      <4>1. MergeOf(c2[b]) = <<>> /\ g2.mrg[b] = 0
        BY <1>n, <3>2
      <4>2. g2.cnt[b] = 0
        BY <4>1, <1>1 DEF Constructs
      <4>. QED  BY <4>1, <4>2 DEF MergeKnown
    <3>. QED  BY <3>1, <3>2
  <2>. QED  BY <2>1, MatchesStep
<1>5. ASSUME NEW i \in DOMAIN ns2 PROVE FrameOK(ns2[i]) /\ FrameInv(g2, c2, ns2[i])
  <2>1. i \in DOMAIN ns /\ Turns(g, g2, k0, ns[i], ns2[i]) /\ Calm(g, c, g2, c2, ns2[i])
    BY <1>2
  <2>2. FrameInv(g2, c2, ns2[i])
    BY <2>1, FrameStep
  <2>. QED  BY <2>1, <2>2 DEF Turns
<1>6. ASSUME NEW i \in DOMAIN ns2, NEW j \in DOMAIN ns2, i < j PROVE Within(g2, ns2[i], ns2[j])
  <2>1. i \in DOMAIN ns /\ j \in DOMAIN ns /\ i # Len(ns)
    BY <1>1, <1>2, <1>6
  <2>2. ns2[i] = ns[i] /\ k0 # Header(ns[i]) /\ Turns(g, g2, k0, ns[j], ns2[j])
    BY <2>1
  <2>3. Within(g2, ns[i], ns2[j])
    BY <1>6, <2>1, <2>2, WithinStep
  <2>. QED  BY <2>2, <2>3
<1>7. ASSUME NEW b \in 1 .. g.n, Covered(c, ns, bp, b) PROVE Covered(c2, ns2, bp2, b)
  <2>1. \A i \in DOMAIN ns : \/ i \in DOMAIN ns2 /\ ns2[i] = ns[i]
                             \/ /\ \A d \in Await(ns[i]) : Covered(c2, ns2, bp2, d)
                                /\ IsIf(ns[i]) => Covered(c2, ns2, bp2, ns[i].header)
    BY <1>2
  <2>. QED  BY <1>7, <2>1, CoverStep
<1>8. LiveInv(g2, c2, ns2, bp2)
  <2>1. ASSUME NEW b \in 1 .. g2.n PROVE Covered(c2, ns2, bp2, b) \/ Dead(g2, b)
    BY <1>7, LiveStep
  <2>2. ASSUME NEW i \in DOMAIN ns2, IsIf(ns2[i]), NEW b \in Entries(ns2[i]) PROVE Covered(c2, ns2, bp2, b)
    <3>1. i \in DOMAIN ns /\ IsIf(ns[i]) /\ (b \in Entries(ns[i]) \/ b \in g.n + 1 .. g2.n)
      BY <1>2, <2>2 DEF Turns, IsIf
    <3>2. b \in Entries(ns[i]) => b \in 1 .. g.n /\ Covered(c, ns, bp, b)
      <4>1. FrameOK(ns[i]) /\ Names(ns[i]) \subseteq 1 .. g.n
        BY <3>1, BuiltFrame
      <4>2. Entries(ns[i]) \subseteq Names(ns[i])
        BY <4>1, FrameFacts
      <4>. QED  BY <3>1, <4>1, <4>2 DEF Built, LiveInv
    <3>. QED  BY <1>7, <3>1, <3>2
  <2>. QED  BY <2>1, <2>2 DEF LiveInv
<1>9. PhiInv(g2, c2)
  <2>1. ASSUME NEW p, NEW b, NewEdge(g, g2, p, b) PROVE b > g.n \/ c[b] = <<>> \/ Unowned(g, b)
    BY <1>1, <2>1
  <2>2. ASSUME NEW b \in 1 .. g2.n, PhiOf(c2[b]) # <<>> PROVE b \in 1 .. g.n /\ PhiOf(c2[b]) = PhiOf(c[b])
    BY <1>n, <2>2
  <2>. QED  BY <2>1, <2>2, PhiStep
<1>10. Closed(g2, ns2, bp2)
  <2>1. \A h \in Headers(ns) : h \in Headers(ns2)
    <3>1. ASSUME NEW i \in DOMAIN ns PROVE Header(ns[i]) = Header(ns2[i]) /\ i \in DOMAIN ns2
      BY <1>2 DEF Turns
    <3>. QED  BY <3>1 DEF Headers
  <2>2. \A i \in DOMAIN ns2 : \A b \in Names(ns2[i]) : b \in g.n + 1 .. g2.n \/ b = bp \/ \E j \in DOMAIN ns : b \in Names(ns[j])
    <3>1. ASSUME NEW i \in DOMAIN ns PROVE Names(ns2[i]) \subseteq Names(ns[i]) \cup (g.n + 1 .. g2.n)
      BY DEF Turns
    <3>. QED  BY <1>2, <3>1
  <2>3. bp2 \in g.n + 1 .. g2.n \/ bp2 = bp \/ \E j \in DOMAIN ns : bp2 \in Names(ns[j])
    OBVIOUS
  <2>4. \A h \in 1 .. g2.n : g2.mrg[h] # 0 => h \in Headers(ns2) \/ (h \in 1 .. g.n /\ g.mrg[h] # 0)
    OBVIOUS
  <2>5. LeavesClosed(g, ns, bp, g2, ns2, bp2)
    BY <2>1, <2>2, <2>3, <2>4, Zenon DEF LeavesClosed
  <2>. QED  BY <2>5, ClosedStep, Zenon
<1>11. OperandInv(g2, ns2, bp2)
  <2>. SUFFICES ASSUME NEW i \in DOMAIN ns2, ns2[i].kind = "and" PROVE Flow(g2, ns2[i].then, IF i = Len(ns2) THEN bp2 ELSE Header(ns2[i + 1]))
    BY DEF OperandInv
  <2>1. i \in DOMAIN ns /\ i # Len(ns) /\ i + 1 \in DOMAIN ns /\ ns2[i] = ns[i]
    <3>1. i \in 1 .. Len(ns)
      BY <1>1, <1>2
    <3>2. i # Len(ns)
      <4>1. ns # <<>>
        BY <3>1
      <4>. QED  BY <4>1
    <3>. QED  BY <1>1, <3>1, <3>2
  <2>2. Flow(g, ns[i].then, Header(ns[i + 1]))
    BY <2>1 DEF Built, OperandInv
  <2>3. Header(ns2[i + 1]) = Header(ns[i + 1])
    BY <2>1 DEF Turns
  <2>4. ns[i].then \in 1 .. g.n
    BY <2>1, AndThen
  <2>5. Flow(g2, ns[i].then, Header(ns[i + 1]))
    BY <2>2, <2>4, FlowStep
  <2>. QED  BY <2>1, <2>3, <2>5
<1>. QED  BY <1>1, <1>3, <1>4, <1>5, <1>6, <1>8, <1>9, <1>10, <1>11 DEF Built

\* the innermost frame ends, and its merge block is next
LEMMA BuiltPop ==
    ASSUME NEW g, NEW c, NEW ns, NEW bp, Built(g, c, ns, bp), NEW g2, NEW c2, NEW k0, k0 = 0,
           Grew(g, c, ns, g2, c2, k0), EdgeOK(g, g2),
           \A h \in 1 .. g2.n : g2.mrg[h] # 0 => h \in 1 .. g.n /\ g.mrg[h] # 0,
           ns # <<>>, NEW ns2, ns2 = Front(ns), NEW f, f = ns[Len(ns)], NEW bp2, bp2 = f.merge,
           \A j \in DOMAIN ns : j # Len(ns) => Calm(g, c, g2, c2, ns[j]),
           Fresh(c2[f.merge]), Covered(c2, ns2, bp2, bp),
           \A b \in Await(f) : Covered(c2, ns2, bp2, b),
           IsIf(f) => Covered(c2, ns2, bp2, f.header),
           \A p, b : NewEdge(g, g2, p, b) => Covered(c2, ns2, bp2, b) /\ (b > g.n \/ c[b] = <<>> \/ Unowned(g, b)),
           \A b \in g.n + 1 .. g2.n : (Covered(c2, ns2, bp2, b) \/ Dead(g2, b)) /\ MergeOf(c2[b]) = <<>> /\ PhiOf(c2[b]) = <<>>,
           \A b \in 1 .. g.n : \/ MergeOf(c2[b]) = MergeOf(c[b]) /\ ~(IsIf(f) /\ b = f.header)
                               \/ MergeKnown(g2, c2, ns2, b),
           \A b \in 1 .. g.n : PhiOf(c2[b]) = PhiOf(c[b]) \/ Joins(g2, c2, b, PhiOf(c2[b]))
    PROVE  Built(g2, c2, ns2, bp2)
<1>. DEFINE l == Len(ns)
<1>1. /\ g.n \in Nat \ {0} /\ g2.n \in Nat \ {0} /\ g.n <= g2.n /\ g2.n <= MaxBlocks /\ ns \in Seq(Frame) /\ Constructs(g2)
      /\ DOMAIN ns = 1 .. Len(ns) /\ Len(ns) \in Nat /\ Shape(g2, ns)
  BY GrewFacts
<1>2. /\ l \in Nat \ {0} /\ l \in DOMAIN ns /\ ns2 \in Seq(Frame) /\ Len(ns2) = l - 1 /\ DOMAIN ns2 = 1 .. l - 1
      /\ \A i \in 1 .. l - 1 : ns2[i] = ns[i]
  <2>1. l \in Nat \ {0} /\ ns2 \in Seq(Frame) /\ Len(ns2) = l - 1 /\ DOMAIN ns2 = 1 .. l - 1 /\ \A i \in 1 .. l - 1 : ns2[i] = ns[i]
    BY <1>1, FrontFacts
  <2>. QED  BY <1>1, <2>1
<1>3. ASSUME NEW i \in DOMAIN ns2 PROVE i \in DOMAIN ns /\ i # Len(ns) /\ i < l /\ ns2[i] = ns[i] /\ i \in Nat
  BY <1>1, <1>2
<1>d. ASSUME NEW i \in DOMAIN ns, i # l PROVE i \in DOMAIN ns2
  BY <1>1, <1>2, <1>d
<1>. HIDE DEF l
<1>f. /\ FrameOK(f) /\ FrameInv(g, c, f) /\ Names(f) \subseteq 1 .. g.n /\ Header(f) \in 1 .. g.n /\ Header(f) # 0 /\ f.merge \in 1 .. g.n
      /\ First(f) \in Nat /\ g.mrg[Header(f)] = f.merge /\ g.mrg[Header(f)] # 0 /\ f.merge \in Names(f) /\ f.merge # Header(f) /\ l = Len(ns)
      /\ (IsIf(f) => f.header = Header(f))
  <2>1. /\ FrameOK(f) /\ FrameInv(g, c, f) /\ Names(f) \subseteq 1 .. g.n /\ Header(f) \in 1 .. g.n /\ Header(f) # 0 /\ f.merge \in 1 .. g.n
        /\ First(f) \in Nat /\ g.mrg[Header(f)] = f.merge /\ g.mrg[Header(f)] # 0
    BY <1>2, BuiltFrame DEF l
  <2>2. f.merge \in Names(f) /\ f.merge # Header(f)
    <3>1. f.merge \in Await(f)
      BY DEF Await
    <3>. QED  BY <2>1, <3>1, FrameFacts
  <2>3. IsIf(f) => f.header = Header(f)
    BY DEF IsIf, Header
  <2>. QED  BY <2>1, <2>2, <2>3 DEF l
<1>4. Structured(g2)
  BY StructuredStep
<1>n. ASSUME NEW b \in 1 .. g2.n, b \notin 1 .. g.n PROVE b \in g.n + 1 .. g2.n
  BY <1>1, <1>n
<1>5. ASSUME NEW i \in DOMAIN ns2
      PROVE  /\ FrameOK(ns[i]) /\ k0 # Header(ns[i]) /\ Turns(g, g2, k0, ns[i], ns[i]) /\ FrameInv(g2, c2, ns[i]) /\ Within(g, ns[i], f)
             /\ Header(ns[i]) # Header(f)
  <2>1. i \in DOMAIN ns /\ i # Len(ns) /\ i < l
    BY <1>3
  <2>2. FrameOK(ns[i]) /\ k0 # Header(ns[i])
    BY <2>1, BuiltFrame
  <2>3. Turns(g, g2, k0, ns[i], ns[i])
    BY <2>2, TurnsSame
  <2>4. FrameInv(g2, c2, ns[i])
    BY <2>1, <2>3, FrameStep
  <2>5. Within(g, ns[i], f)
    BY <1>2, <2>1 DEF Built, l
  <2>6. Header(ns[i]) # Header(f)
    <3>1. Header(f) \in Region(g.n, ns[i])
      BY <2>5 DEF Within, Point
    <3>2. Header(ns[i]) < First(ns[i]) /\ First(ns[i]) \in Nat /\ Header(ns[i]) \in Nat
      BY <2>2, FrameFacts
    <3>. QED  BY <1>1, <3>1, <3>2 DEF Region
  <2>. QED  BY <2>2, <2>3, <2>4, <2>5, <2>6
<1>6. ASSUME NEW i \in DOMAIN ns2, NEW j \in DOMAIN ns2, i < j PROVE Within(g2, ns[i], ns[j])
  <2>1. i \in DOMAIN ns /\ j \in DOMAIN ns
    BY <1>3
  <2>2. Turns(g, g2, k0, ns[j], ns[j]) /\ k0 # Header(ns[i])
    BY <1>5
  <2>. QED  BY <1>6, <2>1, <2>2, WithinStep
<1>7. At(g2, c2, ns2, bp2)
  <2>1. ASSUME NEW i \in DOMAIN ns2 PROVE ns[i].place # "head" /\ Point(g2, ns[i], bp2)
    <3>1. i \in DOMAIN ns /\ i # Len(ns) /\ i < l
      BY <1>3
    <3>2. Point(g, ns[i], f.merge)
      BY <1>2, <1>f, <3>1, Apart
    <3>3. Turns(g, g2, k0, ns[i], ns[i]) /\ k0 # Header(ns[i])
      BY <1>5
    <3>4. Point(g2, ns[i], bp2)
      BY <1>f, <3>1, <3>2, <3>3, PointStep
    <3>5. ns[i].place # "head"
      BY <1>5 DEF Within
    <3>. QED  BY <3>4, <3>5
  <2>2. bp2 \in 1 .. g2.n
    BY <1>1, <1>f
  <2>. QED  BY <1>3, <2>1, <2>2 DEF At
<1>8. Matches(g2, c2, ns2)
  <2>1. ASSUME NEW b \in 1 .. g2.n PROVE MergeKnown(g2, c2, ns2, b)
    <3>1. CASE b \in 1 .. g.n /\ ~MergeKnown(g2, c2, ns2, b)
      <4>1. MergeOf(c2[b]) = MergeOf(c[b]) /\ ~(IsIf(f) /\ b = f.header)
        BY <3>1
      <4>2. \A i \in DOMAIN ns : IsIf(ns[i]) /\ ns[i].header = b => \E j \in DOMAIN ns2 : IsIf(ns2[j]) /\ ns2[j].header = b
        BY <1>3, <1>d, <1>f, <4>1
      <4>3. g.mrg[b] = 0 => g2.mrg[b] = 0
        OBVIOUS
      <4>. QED  BY <3>1, <4>1, <4>2, <4>3, MergeStep
    <3>2. CASE b \notin 1 .. g.n
      <4>1. MergeOf(c2[b]) = <<>> /\ g2.mrg[b] = 0
        BY <1>n, <3>2
      <4>2. g2.cnt[b] = 0
        BY <4>1, <1>1 DEF Constructs
      <4>. QED  BY <4>1, <4>2 DEF MergeKnown
    <3>. QED  BY <3>1, <3>2
  <2>. QED  BY <2>1, MatchesStep
<1>9. ASSUME NEW b \in 1 .. g.n, Covered(c, ns, bp, b) PROVE Covered(c2, ns2, bp2, b)
  <2>1. \A i \in DOMAIN ns : \/ i \in DOMAIN ns2 /\ ns2[i] = ns[i]
                             \/ /\ \A d \in Await(ns[i]) : Covered(c2, ns2, bp2, d)
                                /\ IsIf(ns[i]) => Covered(c2, ns2, bp2, ns[i].header)
    BY <1>3, <1>d, <1>f
  <2>. QED  BY <1>9, <2>1, CoverStep
<1>10. LiveInv(g2, c2, ns2, bp2)
  <2>1. ASSUME NEW b \in 1 .. g2.n PROVE Covered(c2, ns2, bp2, b) \/ Dead(g2, b)
    <3>1. \A b1 \in 1 .. g.n : Covered(c, ns, bp, b1) => Covered(c2, ns2, bp2, b1)
      BY <1>9
    <3>. QED  BY <3>1, LiveStep
  <2>2. ASSUME NEW i \in DOMAIN ns2, IsIf(ns2[i]), NEW b \in Entries(ns2[i]) PROVE Covered(c2, ns2, bp2, b)
    <3>1. i \in DOMAIN ns /\ IsIf(ns[i]) /\ b \in Entries(ns[i])
      BY <1>3, <2>2
    <3>2. FrameOK(ns[i]) /\ Names(ns[i]) \subseteq 1 .. g.n
      BY <3>1, BuiltFrame
    <3>3. Entries(ns[i]) \subseteq Names(ns[i])
      BY <3>2, FrameFacts
    <3>4. b \in 1 .. g.n /\ Covered(c, ns, bp, b)
      BY <3>1, <3>2, <3>3 DEF Built, LiveInv
    <3>. QED  BY <1>9, <3>4
  <2>. QED  BY <2>1, <2>2 DEF LiveInv
<1>11. PhiInv(g2, c2)
  <2>1. ASSUME NEW p, NEW b, NewEdge(g, g2, p, b) PROVE b > g.n \/ c[b] = <<>> \/ Unowned(g, b)
    BY <2>1
  <2>2. ASSUME NEW b \in 1 .. g2.n, PhiOf(c2[b]) # <<>> PROVE (b \in 1 .. g.n /\ PhiOf(c2[b]) = PhiOf(c[b])) \/ Joins(g2, c2, b, PhiOf(c2[b]))
    BY <1>n, <2>2
  <2>. QED  BY <2>1, <2>2, PhiStep
<1>12. Closed(g2, ns2, bp2)
  <2>1. g2.region[Header(f)] = Region(g2.n, f)
    <3>1. \A i \in DOMAIN ns : g2.region[Header(ns[i])] = Region(g2.n, ns[i])
      BY <1>1 DEF Shape
    <3>. QED  BY <1>2, <1>f, <3>1
  <2>2. bp2 \notin Region(g2.n, f)
    BY DEF Region
  <2>3. ASSUME NEW i \in DOMAIN ns2 PROVE Names(ns2[i]) \cap Region(g2.n, f) = {}
    <3>1. \A b \in Names(ns[i]) : b < First(f)
      BY <1>5 DEF Within
    <3>2. \A b \in Region(g2.n, f) : ~(b < First(f))
      BY <1>1, <1>f DEF Region
    <3>. QED  BY <1>3, <3>1, <3>2
  <2>4. \A h \in Headers(ns) : h \in Headers(ns2) \/ (bp2 \notin g2.region[h] /\ \A i \in DOMAIN ns2 : Names(ns2[i]) \cap g2.region[h] = {})
    <3>1. ASSUME NEW i \in DOMAIN ns PROVE Header(ns[i]) \in Headers(ns2) \/ Header(ns[i]) = Header(f)
      BY <1>3, <1>d, <1>f DEF Headers
    <3>. QED  BY <2>1, <2>2, <2>3, <3>1 DEF Headers
  <2>5. \A i \in DOMAIN ns2 : \A b \in Names(ns2[i]) : b \in g.n + 1 .. g2.n \/ b = bp \/ \E j \in DOMAIN ns : b \in Names(ns[j])
    BY <1>3
  <2>6. bp2 \in g.n + 1 .. g2.n \/ bp2 = bp \/ \E j \in DOMAIN ns : bp2 \in Names(ns[j])
    BY <1>2, <1>f
  <2>7. \A h \in 1 .. g2.n : g2.mrg[h] # 0 => h \in Headers(ns2) \/ (h \in 1 .. g.n /\ g.mrg[h] # 0)
    OBVIOUS
  <2>8. LeavesClosed(g, ns, bp, g2, ns2, bp2)
    BY <2>4, <2>5, <2>6, <2>7, Zenon DEF LeavesClosed
  <2>. QED  BY <2>8, ClosedStep, Zenon
<1>13. OperandInv(g2, ns2, bp2)
  <2>. SUFFICES ASSUME NEW i \in DOMAIN ns2, ns2[i].kind = "and" PROVE Flow(g2, ns2[i].then, IF i = Len(ns2) THEN bp2 ELSE Header(ns2[i + 1]))
    BY DEF OperandInv
  <2>1. i \in DOMAIN ns /\ i # Len(ns) /\ i + 1 \in DOMAIN ns /\ ns2[i] = ns[i] /\ (i # Len(ns2) => i + 1 \in DOMAIN ns2 /\ ns2[i + 1] = ns[i + 1])
        /\ (i = Len(ns2) => i + 1 = l)
    BY <1>1, <1>2, <1>3, <1>f
  <2>2. Flow(g, ns[i].then, Header(ns[i + 1]))
    BY <2>1 DEF Built, OperandInv
  <2>3. ns[i].then \in 1 .. g.n
    BY <2>1, AndThen
  <2>4. Flow(g2, ns[i].then, Header(ns[i + 1]))
    BY <2>2, <2>3, FlowStep
  <2>5. i = Len(ns2) => Flow(g2, ns[i].then, f.merge)
    <3>1. SUFFICES ASSUME i = Len(ns2), NEW S \in SUBSET (1 .. g2.n), FlowClosed(g2, S), ns[i].then \in S PROVE f.merge \in S
      BY DEF Flow
    <3>2. Header(f) \in S
      BY <1>f, <2>1, <2>4, <3>1 DEF Flow
    <3>3. g2.mrg[Header(f)] = f.merge /\ f.merge # 0
      BY <1>f, OldConstruct
    <3>. QED  BY <3>1, <3>2, <3>3 DEF FlowClosed
  <2>. QED  BY <2>1, <2>4, <2>5
<1>14. ASSUME NEW i \in DOMAIN ns2 PROVE FrameOK(ns2[i]) /\ FrameInv(g2, c2, ns2[i])
  BY <1>3, <1>5
<1>15. ASSUME NEW i \in DOMAIN ns2, NEW j \in DOMAIN ns2, i < j PROVE Within(g2, ns2[i], ns2[j])
  BY <1>3, <1>6, <1>15
<1>. QED  BY <1>1, <1>2, <1>4, <1>7, <1>8, <1>10, <1>11, <1>12, <1>13, <1>14, <1>15 DEF Built

\* a frame begins
LEMMA BuiltPush ==
    ASSUME NEW g, NEW c, NEW ns, NEW bp, Built(g, c, ns, bp), NEW g2, NEW c2, NEW k0, k0 = 0,
           Grew(g, c, ns, g2, c2, k0), EdgeOK(g, g2),
           NEW f0 \in Frame, FrameOK(f0), FrameInv(g2, c2, f0), First(f0) > g.n, f0.kind = "loop" => f0.head > g.n,
           Header(f0) = bp \/ Header(f0) > g.n, IsIf(f0) => Header(f0) = bp,
           NEW ns2, ns2 = Append(ns, f0),
           \A i \in DOMAIN ns : ns[i].place \notin {"head", "empty"} /\ (ns[i].place \in {"test", "terminal"} \/ ns[i].kind = "and" => IsIf(f0)),
           \A h \in 1 .. g2.n : g2.mrg[h] # 0 => h = Header(f0) \/ (h \in 1 .. g.n /\ g.mrg[h] # 0),
           \A j \in DOMAIN ns : Calm(g, c, g2, c2, ns[j]),
           NEW bp2 \in 1 .. g2.n, bp2 = bp \/ bp2 > g.n, f0.kind = "and" => bp2 = f0.then,
           IF f0.place = "head" THEN bp2 = f0.header /\ Terminated(c2[bp2]) ELSE Point(g2, f0, bp2) /\ Fresh(c2[bp2]),
           Covered(c2, ns2, bp2, bp),
           IsIf(f0) => \A b \in Entries(f0) : Covered(c2, ns2, bp2, b),
           \A p, b : NewEdge(g, g2, p, b) => Covered(c2, ns2, bp2, b) /\ b > g.n,
           \A b \in g.n + 1 .. g2.n : (Covered(c2, ns2, bp2, b) \/ Dead(g2, b)) /\ MergeKnown(g2, c2, ns2, b) /\ PhiOf(c2[b]) = <<>>,
           \A b \in 1 .. g.n : PhiOf(c2[b]) = PhiOf(c[b]) /\ ((MergeOf(c2[b]) = MergeOf(c[b]) /\ b # Header(f0)) \/ MergeKnown(g2, c2, ns2, b))
    PROVE  Built(g2, c2, ns2, bp2)
<1>. DEFINE n == Len(ns) + 1
<1>1. /\ g.n \in Nat \ {0} /\ g2.n \in Nat \ {0} /\ g.n <= g2.n /\ g2.n <= MaxBlocks /\ ns \in Seq(Frame) /\ Constructs(g2)
      /\ DOMAIN ns = 1 .. Len(ns) /\ Len(ns) \in Nat
  BY GrewFacts
<1>2. /\ n \in Nat \ {0} /\ ns2 \in Seq(Frame) /\ Len(ns2) = n /\ DOMAIN ns2 = 1 .. n /\ ns2[n] = f0 /\ \A i \in DOMAIN ns : ns2[i] = ns[i]
  BY <1>1
<1>3. ASSUME NEW i \in DOMAIN ns PROVE i \in DOMAIN ns2 /\ i # n /\ i < n /\ ns2[i] = ns[i]
  BY <1>1, <1>2
<1>d. n \in DOMAIN ns2 /\ \A i \in DOMAIN ns2 : i = n \/ i \in DOMAIN ns
  BY <1>1, <1>2
<1>e. \A i \in DOMAIN ns2 : \A j \in DOMAIN ns2 : i < j => i \in DOMAIN ns
  BY <1>1, <1>2
<1>. HIDE DEF n
<1>4. Structured(g2)
  BY StructuredStep
<1>n. /\ \A b \in 1 .. g2.n : b \notin 1 .. g.n => b \in g.n + 1 .. g2.n
      /\ \A b \in 1 .. g2.n : b > g.n => b \in g.n + 1 .. g2.n
  BY <1>1
<1>f. /\ Header(f0) \in 1 .. g2.n /\ Names(f0) \subseteq 1 .. g2.n /\ Header(f0) # 0
      /\ \A b \in Names(f0) : b = bp \/ b \in g.n + 1 .. g2.n
  <2>1. Names(f0) \subseteq 1 .. g2.n /\ First(f0) \in Nat /\ Header(f0) \in Names(f0) /\ Header(f0) # 0
        /\ \A b \in Names(f0) : b = Header(f0) \/ b >= First(f0)
    BY FrameFacts DEF FrameInv
  <2>. QED  BY <1>1, <2>1
<1>5. ASSUME NEW i \in DOMAIN ns
      PROVE  /\ FrameOK(ns[i]) /\ k0 # Header(ns[i]) /\ Turns(g, g2, k0, ns[i], ns[i]) /\ FrameInv(g2, c2, ns[i])
             /\ Point(g, ns[i], bp) /\ bp \in 1 .. g.n
  <2>1. FrameOK(ns[i]) /\ k0 # Header(ns[i])
    BY BuiltFrame
  <2>2. Turns(g, g2, k0, ns[i], ns[i])
    BY <2>1, TurnsSame
  <2>3. FrameInv(g2, c2, ns[i])
    BY <2>2, FrameStep
  <2>. QED  BY <2>1, <2>2, <2>3, BuildPlace
<1>6. ASSUME NEW i \in DOMAIN ns2, NEW j \in DOMAIN ns2, i < j PROVE Within(g2, ns2[i], ns2[j])
  <2>1. i \in DOMAIN ns /\ ns2[i] = ns[i] /\ k0 # Header(ns[i])
    BY <1>3, <1>5, <1>6, <1>e
  <2>2. CASE j \in DOMAIN ns
    <3>1. Turns(g, g2, k0, ns[j], ns[j]) /\ ns2[j] = ns[j]
      BY <1>3, <1>5, <2>2
    <3>2. Within(g2, ns[i], ns[j])
      BY <1>6, <2>1, <2>2, <3>1, WithinStep
    <3>. QED  BY <2>1, <3>1, <3>2
  <2>3. CASE j = n
    <3>1. Header(f0) \in g.n + 1 .. g2.n \/ (Header(f0) \in 1 .. g.n /\ Point(g, ns[i], Header(f0)))
      BY <1>5, <1>f, <1>n, <2>1
    <3>2. Within(g2, ns[i], f0)
      BY <2>1, <3>1, WithinStep
    <3>. QED  BY <1>2, <2>1, <2>3, <3>2
  <2>. QED  BY <1>d, <2>2, <2>3
<1>7. At(g2, c2, ns2, bp2)
  <2>1. ASSUME NEW i \in DOMAIN ns PROVE ns2[i].place # "head" /\ Point(g2, ns2[i], bp2)
    <3>1. bp2 \in g.n + 1 .. g2.n \/ (bp2 \in 1 .. g.n /\ Point(g, ns[i], bp2))
      BY <1>5, <1>n
    <3>2. Turns(g, g2, k0, ns[i], ns[i]) /\ k0 # Header(ns[i])
      BY <1>5
    <3>3. Point(g2, ns[i], bp2)
      BY <3>1, <3>2, PointStep
    <3>. QED  BY <1>3, <3>3
  <2>2. ASSUME NEW i \in DOMAIN ns2
        PROVE  IF ns2[i].place = "head" THEN i = Len(ns2) /\ bp2 = ns2[i].header /\ Terminated(c2[bp2]) ELSE Point(g2, ns2[i], bp2)
    BY <1>2, <1>d, <2>1
  <2>3. (\A i \in DOMAIN ns2 : ns2[i].place # "head") => Fresh(c2[bp2])
    BY <1>2, <1>d
  <2>. QED  BY <2>2, <2>3 DEF At
<1>8. Matches(g2, c2, ns2)
  <2>1. ASSUME NEW b \in 1 .. g2.n PROVE MergeKnown(g2, c2, ns2, b)
    <3>1. CASE b \in 1 .. g.n /\ ~MergeKnown(g2, c2, ns2, b)
      <4>1. MergeOf(c2[b]) = MergeOf(c[b]) /\ b # Header(f0)
        BY <3>1
      <4>2. \A i \in DOMAIN ns : IsIf(ns[i]) /\ ns[i].header = b => \E j \in DOMAIN ns2 : IsIf(ns2[j]) /\ ns2[j].header = b
        BY <1>3
      <4>3. g.mrg[b] = 0 => g2.mrg[b] = 0
        BY <4>1
      <4>. QED  BY <3>1, <4>1, <4>2, <4>3, MergeStep
    <3>. QED  BY <1>n, <3>1
  <2>. QED  BY <2>1, MatchesStep
<1>9. ASSUME NEW b \in 1 .. g.n, Covered(c, ns, bp, b) PROVE Covered(c2, ns2, bp2, b)
  <2>1. \A i \in DOMAIN ns : \/ i \in DOMAIN ns2 /\ ns2[i] = ns[i]
                             \/ /\ \A d \in Await(ns[i]) : Covered(c2, ns2, bp2, d)
                                /\ IsIf(ns[i]) => Covered(c2, ns2, bp2, ns[i].header)
    BY <1>3
  <2>. QED  BY <1>9, <2>1, CoverStep
<1>10. LiveInv(g2, c2, ns2, bp2)
  <2>1. ASSUME NEW b \in 1 .. g2.n PROVE Covered(c2, ns2, bp2, b) \/ Dead(g2, b)
    <3>1. \A b1 \in 1 .. g.n : Covered(c, ns, bp, b1) => Covered(c2, ns2, bp2, b1)
      BY <1>9
    <3>2. \A b1 \in g.n + 1 .. g2.n : Covered(c2, ns2, bp2, b1) \/ Dead(g2, b1)
      OBVIOUS
    <3>3. \A p, b1 : NewEdge(g, g2, p, b1) => Covered(c2, ns2, bp2, b1)
      OBVIOUS
    <3>. QED  BY <3>1, <3>2, <3>3, LiveStep
  <2>2. ASSUME NEW i \in DOMAIN ns2, IsIf(ns2[i]), NEW b \in Entries(ns2[i]) PROVE Covered(c2, ns2, bp2, b)
    <3>1. CASE i \in DOMAIN ns
      <4>1. ns2[i] = ns[i] /\ IsIf(ns[i]) /\ b \in Entries(ns[i])
        BY <1>3, <2>2, <3>1
      <4>2. FrameOK(ns[i]) /\ Names(ns[i]) \subseteq 1 .. g.n
        BY <3>1, BuiltFrame
      <4>3. Entries(ns[i]) \subseteq Names(ns[i])
        BY <4>2, FrameFacts
      <4>4. b \in 1 .. g.n /\ Covered(c, ns, bp, b)
        BY <3>1, <4>1, <4>2, <4>3 DEF Built, LiveInv
      <4>. QED  BY <1>9, <4>4
    <3>2. CASE i = n
      BY <1>2, <2>2, <3>2
    <3>. QED  BY <1>d, <3>1, <3>2
  <2>. QED  BY <2>1, <2>2 DEF LiveInv
<1>11. PhiInv(g2, c2)
  <2>1. ASSUME NEW p, NEW b, NewEdge(g, g2, p, b) PROVE b > g.n \/ c[b] = <<>> \/ Unowned(g, b)
    BY <2>1
  <2>2. ASSUME NEW b \in 1 .. g2.n, PhiOf(c2[b]) # <<>> PROVE b \in 1 .. g.n /\ PhiOf(c2[b]) = PhiOf(c[b])
    BY <1>n, <2>2
  <2>. QED  BY <2>1, <2>2, PhiStep
<1>12. Closed(g2, ns2, bp2)
  <2>1. \A h \in Headers(ns) : h \in Headers(ns2)
    BY <1>3 DEF Headers
  <2>2. Header(f0) \in Headers(ns2)
    BY <1>2, <1>d DEF Headers
  <2>3. \A i \in DOMAIN ns2 : \A b \in Names(ns2[i]) : b \in g.n + 1 .. g2.n \/ b = bp \/ \E j \in DOMAIN ns : b \in Names(ns[j])
    <3>1. ASSUME NEW i \in DOMAIN ns2, NEW b \in Names(ns2[i]) PROVE b \in g.n + 1 .. g2.n \/ b = bp \/ \E j \in DOMAIN ns : b \in Names(ns[j])
      <4>1. CASE i \in DOMAIN ns
        BY <1>3, <4>1
      <4>2. CASE i = n
        BY <1>2, <1>f, <4>2
      <4>. QED  BY <1>d, <4>1, <4>2
    <3>. QED  BY <3>1
  <2>4. bp2 \in g.n + 1 .. g2.n \/ bp2 = bp \/ \E j \in DOMAIN ns : bp2 \in Names(ns[j])
    BY <1>n
  <2>5. \A h \in 1 .. g2.n : g2.mrg[h] # 0 => h \in Headers(ns2) \/ (h \in 1 .. g.n /\ g.mrg[h] # 0)
    BY <2>2
  <2>6. \A h \in Headers(ns) : h \in Headers(ns2) \/ (bp2 \notin g2.region[h] /\ \A i \in DOMAIN ns2 : Names(ns2[i]) \cap g2.region[h] = {})
    BY <2>1
  <2>7. LeavesClosed(g, ns, bp, g2, ns2, bp2)
    BY <2>3, <2>4, <2>5, <2>6, Zenon DEF LeavesClosed
  <2>. QED  BY <2>7, ClosedStep, Zenon
<1>13. OperandInv(g2, ns2, bp2)
  <2>. SUFFICES ASSUME NEW i \in DOMAIN ns2, ns2[i].kind = "and" PROVE Flow(g2, ns2[i].then, IF i = Len(ns2) THEN bp2 ELSE Header(ns2[i + 1]))
    BY DEF OperandInv
  <2>1. CASE i = n
    BY <1>2, <2>1 DEF Flow
  <2>2. CASE i \in DOMAIN ns
    <3>1. i # Len(ns2) /\ ns2[i] = ns[i] /\ ns[i].then \in 1 .. g.n
      BY <1>2, <1>3, <2>2, AndThen
    <3>2. CASE i = Len(ns)
      <4>1. ns2[i + 1] = f0 /\ Flow(g, ns[i].then, bp) /\ IsIf(f0)
        BY <1>2, <2>2, <3>1, <3>2 DEF n, Built, OperandInv
      <4>2. Flow(g2, ns[i].then, bp)
        BY <3>1, <4>1, FlowStep
      <4>. QED  BY <3>1, <4>1, <4>2
    <3>3. CASE i # Len(ns)
      <4>1. i + 1 \in DOMAIN ns
        BY <1>1, <2>2, <3>3
      <4>2. ns2[i + 1] = ns[i + 1]
        BY <1>3, <4>1
      <4>3. Flow(g, ns[i].then, Header(ns[i + 1]))
        BY <2>2, <3>1, <3>3 DEF Built, OperandInv
      <4>4. Flow(g2, ns[i].then, Header(ns[i + 1]))
        BY <3>1, <4>3, FlowStep
      <4>. QED  BY <3>1, <4>2, <4>4
    <3>. QED  BY <3>2, <3>3
  <2>. QED  BY <1>d, <2>1, <2>2
<1>14. ASSUME NEW i \in DOMAIN ns2 PROVE FrameOK(ns2[i]) /\ FrameInv(g2, c2, ns2[i])
  <2>1. CASE i \in DOMAIN ns
    BY <1>3, <1>5, <2>1
  <2>2. CASE i = n
    BY <1>2, <2>2
  <2>. QED  BY <1>d, <2>1, <2>2
<1>. QED  BY <1>1, <1>2, <1>4, <1>6, <1>7, <1>8, <1>10, <1>11, <1>12, <1>13, <1>14 DEF Built

\* the same, as predicates
KeepsFrames(g, c, ns, bp, g2, c2, k0, ns2, bp2) ==
    /\ \A h \in 1 .. g2.n : g2.mrg[h] # 0 => h \in 1 .. g.n /\ g.mrg[h] # 0
    /\ ns2 \in Seq(Frame) /\ Len(ns2) = Len(ns)
    /\ \A i \in DOMAIN ns : /\ i # Len(ns) => ns2[i] = ns[i] /\ k0 # Header(ns[i])
                            /\ Turns(g, g2, k0, ns[i], ns2[i]) /\ Calm(g, c, g2, c2, ns2[i])
    /\ ns # <<>> => ns2[Len(ns)].kind # "and"
    /\ At(g2, c2, ns2, bp2) /\ (bp2 \in g.n + 1 .. g2.n \/ \E j \in DOMAIN ns : bp2 \in Names(ns[j]))
    /\ Covered(c2, ns2, bp2, bp)
    /\ \A i \in DOMAIN ns : \/ ns2[i] = ns[i]
                            \/ /\ \A b \in Await(ns[i]) : Covered(c2, ns2, bp2, b)
                               /\ IsIf(ns[i]) => Covered(c2, ns2, bp2, ns[i].header)
    /\ \A p, b : NewEdge(g, g2, p, b) => Covered(c2, ns2, bp2, b) /\ (b \in g.n + 1 .. g2.n \/ c[b] = <<>> \/ Unowned(g, b))
    /\ \A b \in g.n + 1 .. g2.n : Covered(c2, ns2, bp2, b) /\ MergeOf(c2[b]) = <<>> /\ PhiOf(c2[b]) = <<>>
    /\ \A b \in 1 .. g.n : MergeOf(c2[b]) = MergeOf(c[b]) /\ PhiOf(c2[b]) = PhiOf(c[b])

\* the same as BuiltSame
LEMMA Keeping ==
    ASSUME NEW g, NEW c, NEW ns, NEW bp, Built(g, c, ns, bp), NEW g2, NEW c2, NEW k0, Grew(g, c, ns, g2, c2, k0), EdgeOK(g, g2),
           NEW ns2, NEW bp2, KeepsFrames(g, c, ns, bp, g2, c2, k0, ns2, bp2)
    PROVE  Built(g2, c2, ns2, bp2)
BY BuiltSame DEF KeepsFrames

EndsFrame(g, c, ns, bp, g2, c2, k0, ns2, f, bp2) ==
    /\ \A h \in 1 .. g2.n : g2.mrg[h] # 0 => h \in 1 .. g.n /\ g.mrg[h] # 0
    /\ ns # <<>> /\ ns2 = Front(ns) /\ f = ns[Len(ns)] /\ bp2 = f.merge
    /\ \A j \in DOMAIN ns : j # Len(ns) => Calm(g, c, g2, c2, ns[j])
    /\ Fresh(c2[f.merge]) /\ Covered(c2, ns2, bp2, bp)
    /\ \A b \in Await(f) : Covered(c2, ns2, bp2, b)
    /\ IsIf(f) => Covered(c2, ns2, bp2, f.header)
    /\ \A p, b : NewEdge(g, g2, p, b) => Covered(c2, ns2, bp2, b) /\ (b > g.n \/ c[b] = <<>> \/ Unowned(g, b))
    /\ \A b \in g.n + 1 .. g2.n : (Covered(c2, ns2, bp2, b) \/ Dead(g2, b)) /\ MergeOf(c2[b]) = <<>> /\ PhiOf(c2[b]) = <<>>
    /\ \A b \in 1 .. g.n : \/ MergeOf(c2[b]) = MergeOf(c[b]) /\ ~(IsIf(f) /\ b = f.header)
                           \/ MergeKnown(g2, c2, ns2, b)
    /\ \A b \in 1 .. g.n : PhiOf(c2[b]) = PhiOf(c[b]) \/ Joins(g2, c2, b, PhiOf(c2[b]))

\* the same as BuiltPop
LEMMA Ended ==
    ASSUME NEW g, NEW c, NEW ns, NEW bp, Built(g, c, ns, bp), NEW g2, NEW c2, NEW k0, k0 = 0, Grew(g, c, ns, g2, c2, k0), EdgeOK(g, g2),
           NEW ns2, NEW f, NEW bp2, EndsFrame(g, c, ns, bp, g2, c2, k0, ns2, f, bp2)
    PROVE  Built(g2, c2, ns2, bp2)
BY BuiltPop, Zenon DEF EndsFrame

BeginsFrame(g, c, ns, bp, g2, c2, f0, ns2, bp2) ==
    /\ f0 \in Frame /\ FrameOK(f0) /\ FrameInv(g2, c2, f0) /\ First(f0) > g.n /\ (f0.kind = "loop" => f0.head > g.n)
    /\ (Header(f0) = bp \/ Header(f0) > g.n) /\ (IsIf(f0) => Header(f0) = bp) /\ ns2 = Append(ns, f0)
    /\ \A i \in DOMAIN ns : ns[i].place \notin {"head", "empty"} /\ (ns[i].place \in {"test", "terminal"} \/ ns[i].kind = "and" => IsIf(f0))
    /\ \A h \in 1 .. g2.n : g2.mrg[h] # 0 => h = Header(f0) \/ (h \in 1 .. g.n /\ g.mrg[h] # 0)
    /\ \A j \in DOMAIN ns : Calm(g, c, g2, c2, ns[j])
    /\ bp2 \in 1 .. g2.n /\ (bp2 = bp \/ bp2 > g.n) /\ (f0.kind = "and" => bp2 = f0.then)
    /\ IF f0.place = "head" THEN bp2 = f0.header /\ Terminated(c2[bp2]) ELSE Point(g2, f0, bp2) /\ Fresh(c2[bp2])
    /\ Covered(c2, ns2, bp2, bp)
    /\ IsIf(f0) => \A b \in Entries(f0) : Covered(c2, ns2, bp2, b)
    /\ \A p, b : NewEdge(g, g2, p, b) => Covered(c2, ns2, bp2, b) /\ b > g.n
    /\ \A b \in g.n + 1 .. g2.n : (Covered(c2, ns2, bp2, b) \/ Dead(g2, b)) /\ MergeKnown(g2, c2, ns2, b) /\ PhiOf(c2[b]) = <<>>
    /\ \A b \in 1 .. g.n : PhiOf(c2[b]) = PhiOf(c[b]) /\ ((MergeOf(c2[b]) = MergeOf(c[b]) /\ b # Header(f0)) \/ MergeKnown(g2, c2, ns2, b))

\* the same as BuiltPush
LEMMA Begun ==
    ASSUME NEW g, NEW c, NEW ns, NEW bp, Built(g, c, ns, bp), NEW g2, NEW c2, NEW k0, k0 = 0, Grew(g, c, ns, g2, c2, k0), EdgeOK(g, g2),
           NEW f0, NEW ns2, NEW bp2, BeginsFrame(g, c, ns, bp, g2, c2, f0, ns2, bp2)
    PROVE  Built(g2, c2, ns2, bp2)
BY BuiltPush, Zenon DEF BeginsFrame

-----------------------------------------------------------------------------
\* A step that opens no construct: its graph, and where its branches may come from

Advances(g, c, ns, bp, g2, c2, k0) ==
    /\ Grew(g, c, ns, g2, c2, k0)
    /\ \A h \in 1 .. g2.n : g2.mrg[h] # 0 => h \in 1 .. g.n /\ g.mrg[h] # 0
    /\ (\A i \in DOMAIN ns : ns[i].place # "head") => Source(g2, ns, bp)
    /\ ns # <<>> /\ ~Terminal(ns[Len(ns)]) => Source(g2, ns, Header(ns[Len(ns)]))
    /\ ns # <<>> /\ ns[Len(ns)].kind = "switch" => \A b \in Segments(ns[Len(ns)]) : Source(g2, ns, b)

\* the graph after a step that opens no construct
LEMMA Advance ==
    ASSUME NEW g, NEW c, NEW ns, NEW bp, Built(g, c, ns, bp), NEW c2, CodeGrows(g, c, c2), NEW k0, Ending(g, ns, Len(c2), k0)
    PROVE  \E g2 : Advances(g, c, ns, bp, g2, c2, k0)
<1>g. ASSUME NEW h0, h0 = 0, NEW m0, NEW c0, NEW R0 PROVE \E g2 : Advances(g, c, ns, bp, g2, c2, k0)
  <2>1. Opening(g, Len(c2), Headers(ns), h0, m0, c0, R0)
    BY <1>g DEF Opening
  <2>2. PICK g2 : Growth(g, g2, c2, ns, h0, m0, c0, R0, k0)
    BY <2>1, Grows, Zenon
  <2>3. Grew(g, c, ns, g2, c2, k0) /\ Opens(g, g2, h0, m0, c0, R0)
    BY <2>1, <2>2, GrewFrom, Zenon
  <2>4. g.n <= Len(c2) /\ Len(c2) \in Nat
    BY DEF CodeGrows
  <2>5. /\ bp # h0 /\ (\A i \in DOMAIN ns : ns[i].place # "head") => Source(g2, ns, bp)
        /\ ns # <<>> /\ ~Terminal(ns[Len(ns)]) => Source(g2, ns, Header(ns[Len(ns)]))
        /\ ns # <<>> /\ ns[Len(ns)].kind = "switch" => \A b \in Segments(ns[Len(ns)]) : b # h0 => Source(g2, ns, b)
    BY <2>1, <2>2, <2>4, Sources, Zenon
  <2>6. bp # h0
    BY <1>g DEF Built, At
  <2>7. ASSUME NEW h \in 1 .. g2.n, g2.mrg[h] # 0 PROVE h \in 1 .. g.n /\ g.mrg[h] # 0
    BY <1>g, <2>3, <2>7 DEF Opens
  <2>8. ns # <<>> /\ ns[Len(ns)].kind = "switch" => \A b \in Segments(ns[Len(ns)]) : b # h0
    <3>1. ASSUME ns # <<>>, ns[Len(ns)].kind = "switch", NEW b \in Segments(ns[Len(ns)]) PROVE b # 0
      <4>1. ns \in Seq(Frame)
        BY DEF Built
      <4>2. Len(ns) \in DOMAIN ns
        BY <3>1, <4>1
      <4>3. FrameOK(ns[Len(ns)])
        BY <4>2, BuiltFrame
      <4>4. b \in Entries(ns[Len(ns)])
        BY <3>1 DEF Entries
      <4>. QED  BY <4>3, <4>4, FrameFacts
    <3>. QED  BY <1>g, <3>1
  <2>. QED  BY <2>3, <2>5, <2>6, <2>7, <2>8 DEF Advances
<1>. QED  BY <1>g

\* only a block that has changed has new branches
LEMMA EdgeFrom ==
    ASSUME NEW g, NEW c, NEW ns, NEW bp, Built(g, c, ns, bp), NEW g2, NEW c2, NEW k0, Grew(g, c, ns, g2, c2, k0),
           NEW p, NEW b, NewEdge(g, g2, p, b)
    PROVE  p \in 1 .. g2.n /\ b \in SuccOf(c2[p]) /\ (p \in 1 .. g.n => c2[p] # c[p]) /\ b \in 1 .. g2.n
<1>1. p \in 1 .. g2.n /\ b \in g2.succ[p] /\ ~OldEdge(g, p, b) /\ g.n \in Nat
  BY GrewFacts DEF NewEdge
<1>2. g2.succ[p] = SuccOf(c2[p])
  BY <1>1 DEF Grew
<1>3. p \in 1 .. g.n => c2[p] # c[p]
  <2>1. p \in 1 .. g.n => g.succ[p] = SuccOf(c[p])
    BY GrewFacts
  <2>. QED  BY <1>1, <1>2, <2>1 DEF OldEdge
<1>4. g2.succ[p] \in SUBSET (1 .. g2.n)
  <2>1. Typed(g2)
    BY GrewFacts
  <2>. QED  BY <1>1, <2>1 DEF Typed
<1>. QED  BY <1>1, <1>2, <1>3, <1>4

\* block b gets its end, with the successors T
EndsBy(c, c2, b, T) ==
    /\ WellFormed(c2[b]) /\ Terminated(c2[b]) /\ SuccOf(c2[b]) = T
    /\ MergeOf(c2[b]) = <<>> /\ PhiOf(c2[b]) = PhiOf(c[b])

\* the code is that of the graph
LEMMA CodeFacts ==
    ASSUME NEW g, NEW c, NEW ns, NEW bp, Built(g, c, ns, bp)
    PROVE  /\ g.n = Len(c) /\ g.n \in Nat \ {0} /\ c \in Seq(Seq(Instruction)) /\ ns \in Seq(Frame) /\ g.n <= MaxBlocks /\ MaxBlocks \in Nat
           /\ Structured(g) /\ bp \in 1 .. g.n
           /\ \A b \in 1 .. g.n : WellFormed(c[b]) /\ SuccOf(c[b]) \subseteq 1 .. g.n /\ g.succ[b] = SuccOf(c[b])
<1>1. Structured(g) /\ Matches(g, c, ns) /\ ns \in Seq(Frame) /\ g.n <= MaxBlocks /\ bp \in 1 .. g.n
  BY DEF Built, At
<1>2. g.n = Len(c) /\ c \in Seq(Seq(Instruction)) /\ \A b \in 1 .. g.n : WellFormed(c[b]) /\ g.succ[b] = SuccOf(c[b])
  BY <1>1 DEF Matches
<1>3. g.n \in Nat \ {0} /\ \A b \in 1 .. g.n : g.succ[b] \subseteq 1 .. g.n
  BY <1>1, ConstructFacts DEF Structured, Typed
<1>. QED  BY <1>1, <1>2, <1>3, StructuredFlowAssumption

\* the blocks of D get ends, or a phi; the others stay, and new ones are empty or have their end
CodeChanges(g, c, c2, D) ==
    /\ c2 \in Seq(Seq(Instruction)) /\ g.n <= Len(c2) /\ Len(c2) <= MaxBlocks
    /\ \A b \in 1 .. g.n : b \notin D => c2[b] = c[b]
    /\ \A b \in D : (b \in 1 .. g.n => Fresh(c[b])) /\ WellFormed(c2[b]) /\ SuccOf(c2[b]) \subseteq 1 .. Len(c2)
    /\ \A b \in 1 .. Len(c2) : b > g.n /\ b \notin D => c2[b] = <<>>

\* code that changes in D only has all the branches it had
LEMMA CodeGrowsBy ==
    ASSUME NEW g, NEW c, NEW ns, NEW bp, Built(g, c, ns, bp), NEW c2, NEW D, CodeChanges(g, c, c2, D)
    PROVE  CodeGrows(g, c, c2)
<1>c. /\ c2 \in Seq(Seq(Instruction)) /\ g.n <= Len(c2) /\ Len(c2) <= MaxBlocks
      /\ \A b \in 1 .. g.n : b \notin D => c2[b] = c[b]
      /\ \A b \in D : (b \in 1 .. g.n => Fresh(c[b])) /\ WellFormed(c2[b]) /\ SuccOf(c2[b]) \subseteq 1 .. Len(c2)
      /\ \A b \in 1 .. Len(c2) : b > g.n /\ b \notin D => c2[b] = <<>>
  BY DEF CodeChanges
<1>1. g.n \in Nat /\ Len(c2) \in Nat /\ \A b \in 1 .. g.n : WellFormed(c[b]) /\ SuccOf(c[b]) \subseteq 1 .. g.n
  BY <1>c, CodeFacts
<1>2. ASSUME NEW b \in 1 .. Len(c2) PROVE WellFormed(c2[b]) /\ SuccOf(c2[b]) \subseteq 1 .. Len(c2)
  <2>1. CASE b \in D
    BY <1>c, <2>1
  <2>2. CASE b \notin D /\ b \in 1 .. g.n
    <3>1. 1 .. g.n \subseteq 1 .. Len(c2)
      BY <1>1, <1>c
    <3>. QED  BY <1>1, <1>c, <2>2, <3>1
  <2>3. CASE b \notin D /\ b > g.n
    BY <1>c, <2>3, EmptyBlock
  <2>. QED  BY <1>1, <2>1, <2>2, <2>3
<1>. QED  BY <1>2, <1>c DEF CodeGrows

-----------------------------------------------------------------------------
\* The steps of the builder, from the code c to c2

\* a jump out of a statement: break, continue, return
JumpsTo(c, ns, bp, c2, n, T) ==
    /\ \A i \in DOMAIN ns : ns[i].kind # "and" /\ ns[i].place \notin {"head", "test", "terminal"}
    /\ c2 \in Seq(Seq(Instruction)) /\ n = Len(c) + 1 /\ Len(c2) = n /\ n <= MaxBlocks /\ c2[n] = <<>>
    /\ \A b \in 1 .. Len(c) : b # bp => c2[b] = c[b]
    /\ EndsBy(c, c2, bp, T)
    /\ \A t \in T : \E i \in DOMAIN ns : t = ns[i].merge \/ (ns[i].kind = "loop" /\ t = ns[i].continue_target)

\* a jump keeps the code built
LEMMA JumpBuilt ==
    ASSUME NEW g, NEW c, NEW ns, NEW bp, Built(g, c, ns, bp), NEW c2, NEW n, NEW T, JumpsTo(c, ns, bp, c2, n, T)
    PROVE  \E g2 : Built(g2, c2, ns, n)
<1>0. /\ \A i \in DOMAIN ns : ns[i].kind # "and" /\ ns[i].place \notin {"head", "test", "terminal"}
      /\ c2 \in Seq(Seq(Instruction)) /\ n = Len(c) + 1 /\ Len(c2) = n /\ n <= MaxBlocks /\ c2[n] = <<>>
      /\ \A b \in 1 .. Len(c) : b # bp => c2[b] = c[b]
      /\ EndsBy(c, c2, bp, T)
      /\ \A t \in T : \E i \in DOMAIN ns : t = ns[i].merge \/ (ns[i].kind = "loop" /\ t = ns[i].continue_target)
  BY DEF JumpsTo
<1>1. /\ g.n = Len(c) /\ g.n \in Nat \ {0} /\ c \in Seq(Seq(Instruction)) /\ ns \in Seq(Frame) /\ bp \in 1 .. g.n /\ Fresh(c[bp])
      /\ n \in Nat /\ 1 .. g.n \subseteq 1 .. n /\ bp # n /\ DOMAIN ns = 1 .. Len(ns) /\ Len(ns) \in Nat
      /\ \A b \in 1 .. n : b > g.n => b = n
  <2>1. /\ g.n = Len(c) /\ g.n \in Nat \ {0} /\ c \in Seq(Seq(Instruction)) /\ ns \in Seq(Frame) /\ bp \in 1 .. g.n
    BY CodeFacts
  <2>2. Fresh(c[bp])
    BY <1>0, BuildPlace
  <2>3. n = Len(c) + 1
    BY <1>0
  <2>. QED  BY <2>1, <2>2, <2>3
<1>. USE <1>0
<1>2. \A i \in DOMAIN ns : ns[i].place # "head" /\ ~Terminal(ns[i])
  BY DEF Terminal
\* what the targets are
<1>t. ASSUME NEW i \in DOMAIN ns, NEW t, t = ns[i].merge \/ (ns[i].kind = "loop" /\ t = ns[i].continue_target)
      PROVE  /\ t \in Await(ns[i]) /\ t \in 1 .. g.n /\ c[t] = <<>> /\ t \in Names(ns[i]) /\ t # Header(ns[i]) /\ t \notin Entries(ns[i])
             /\ ns[i].kind # "and"
  <2>1. FrameOK(ns[i]) /\ FrameInv(g, c, ns[i]) /\ Names(ns[i]) \subseteq 1 .. g.n /\ ns[i] \in Frame
    BY BuiltFrame
  <2>2. ns[i].kind = "loop" => Cont(ns[i]) = ns[i].continue_target /\ ns[i].place = "body"
    BY <2>1, FrameKinds DEF Cont
  <2>3. t \in Await(ns[i])
    BY <1>t, <2>2 DEF Await
  <2>4. t \in Names(ns[i]) /\ t # Header(ns[i]) /\ t \notin Entries(ns[i])
    BY <1>t, <2>1, <2>2, <2>3, FrameFacts
  <2>. QED  BY <2>1, <2>3, <2>4 DEF FrameInv
<1>3. T \subseteq 1 .. g.n
  BY <1>t
<1>c. CodeGrows(g, c, c2)
  <2>1. \A b \in {bp} : (b \in 1 .. g.n => Fresh(c[b])) /\ WellFormed(c2[b]) /\ SuccOf(c2[b]) \subseteq 1 .. Len(c2)
    BY <1>1, <1>3 DEF EndsBy
  <2>2. \A b \in 1 .. g.n : b \notin {bp} => c2[b] = c[b]
    BY <1>1
  <2>3. \A b \in 1 .. Len(c2) : b > g.n /\ b \notin {bp} => c2[b] = <<>>
    BY <1>1
  <2>4. g.n <= Len(c2) /\ Len(c2) <= MaxBlocks
    BY <1>1
  <2>5. CodeChanges(g, c, c2, {bp})
    BY <2>1, <2>2, <2>3, <2>4 DEF CodeChanges
  <2>. QED  BY <2>5, CodeGrowsBy, Zenon
<1>g. ASSUME NEW k0, k0 = 0 PROVE \E g2 : Built(g2, c2, ns, n)
  <2>1. Ending(g, ns, Len(c2), k0)
    BY <1>g DEF Ending
  <2>2. PICK g2 : Advances(g, c, ns, bp, g2, c2, k0)
    BY <1>c, <2>1, Advance, Zenon
  <2>3. /\ Grew(g, c, ns, g2, c2, k0) /\ Source(g2, ns, bp) /\ Shape(g2, ns) /\ g2.n = n
        /\ \A h \in 1 .. g2.n : g2.mrg[h] # 0 => h \in 1 .. g.n /\ g.mrg[h] # 0
    BY <1>2, <2>2 DEF Advances, Grew
  <2>4. ASSUME NEW p, NEW b, NewEdge(g, g2, p, b) PROVE p = bp /\ b \in T
    <3>1. p \in 1 .. n /\ b \in SuccOf(c2[p]) /\ (p \in 1 .. g.n => c2[p] # c[p])
      BY <2>3, <2>4, EdgeFrom
    <3>2. p # n
      BY <3>1, EmptyBlock
    <3>3. p = bp
      BY <1>1, <3>1, <3>2
    <3>. QED  BY <3>1, <3>3 DEF EndsBy
  <2>5. EdgeOK(g, g2)
    <3>1. ASSUME NEW t \in T PROVE Enters(g2, bp, t) /\ Leaves(g2, bp, t) /\ Returns(g2, bp, t) /\ t \in Owned(g2)
      <4>1. PICK i \in DOMAIN ns : t = ns[i].merge \/ (ns[i].kind = "loop" /\ t = ns[i].continue_target)
        OBVIOUS
      <4>2. Header(ns[i]) \in 1 .. g2.n /\ g2.mrg[Header(ns[i])] = ns[i].merge /\ g2.cnt[Header(ns[i])] = Cont(ns[i])
            /\ (ns[i].kind = "loop" => Cont(ns[i]) = ns[i].continue_target) /\ t \in 1 .. g2.n
        <5>1. Header(ns[i]) \in 1 .. g2.n /\ g2.mrg[Header(ns[i])] = ns[i].merge /\ g2.cnt[Header(ns[i])] = Cont(ns[i])
              /\ (ns[i].kind = "loop" => Cont(ns[i]) = ns[i].continue_target)
          BY <2>3, ShapeFacts
        <5>2. t \in 1 .. n
          BY <1>1, <1>t, <4>1
        <5>. QED  BY <2>3, <5>1, <5>2
      <4>3. t \in Owned(g2)
        BY <4>1, <4>2 DEF Owned
      <4>4. CASE t = ns[i].merge
        BY <1>2, <2>3, <4>3, <4>4, EdgeToMerge
      <4>5. CASE ns[i].kind = "loop" /\ t = ns[i].continue_target
        <5>1. PlaceIn(g2, ns[i], bp)
          <6>1. bp # Header(ns[i])
            BY <1>2, BuildPlace DEF Headers
          <6>. QED  BY <2>3, <6>1 DEF Source
        <5>. QED  BY <1>2, <2>3, <4>3, <4>5, <5>1, EdgeToCont
      <4>. QED  BY <4>1, <4>4, <4>5
    <3>. QED  BY <2>4, <3>1 DEF EdgeOK
  <2>6. ASSUME NEW i \in DOMAIN ns PROVE Turns(g, g2, k0, ns[i], ns[i]) /\ k0 # Header(ns[i])
    <3>1. FrameOK(ns[i]) /\ k0 # Header(ns[i])
      BY <1>g, BuiltFrame
    <3>. QED  BY <3>1, TurnsSame
  <2>7. ASSUME NEW j \in DOMAIN ns PROVE Calm(g, c, g2, c2, ns[j])
    <3>1. ASSUME NEW b \in 1 .. g.n, c2[b] # c[b] PROVE b = bp
      BY <1>1, <3>1
    <3>2. ASSUME NEW p, NEW b, NewEdge(g, g2, p, b)
          PROVE  \/ b \in g.n + 1 .. g2.n
                 \/ \E i \in DOMAIN ns : i # j /\ b \in Names(ns[i]) /\ (b # Header(ns[i]) \/ (ns[i].kind = "loop" /\ j < i))
                 \/ b \notin Entries(ns[j]) /\ (ns[j].kind = "and" => b # ns[j].merge)
      <4>1. PICK i \in DOMAIN ns : b = ns[i].merge \/ (ns[i].kind = "loop" /\ b = ns[i].continue_target)
        BY <2>4, <3>2
      <4>2. b \in Names(ns[i]) /\ b # Header(ns[i]) /\ b \notin Entries(ns[i]) /\ ns[i].kind # "and"
        BY <1>t, <4>1
      <4>. QED  BY <4>2
    <3>3. Untouched(g, c, ns, bp, g2, c2, j)
      BY <1>2, <3>1, <3>2 DEF Untouched
    <3>. QED  BY <2>3, <3>3, Calmed, Zenon
  <2>8. At(g2, c2, ns, n)
    <3>1. ASSUME NEW i \in DOMAIN ns PROVE Point(g2, ns[i], n)
      <4>1. n \in g.n + 1 .. g2.n
        BY <1>1, <2>3
      <4>. QED  BY <2>3, <2>6, <4>1, PointStep
    <3>2. n \in 1 .. g2.n
      BY <1>1, <2>3
    <3>. QED  BY <1>2, <3>1, <3>2, EmptyBlock DEF At
  <2>9. Covered(c2, ns, n, bp) /\ Covered(c2, ns, n, n)
    BY DEF EndsBy, Covered
  <2>10. ASSUME NEW p, NEW b, NewEdge(g, g2, p, b) PROVE Covered(c2, ns, n, b) /\ (b \in g.n + 1 .. g2.n \/ c[b] = <<>> \/ Unowned(g, b))
    <3>1. PICK i \in DOMAIN ns : b = ns[i].merge \/ (ns[i].kind = "loop" /\ b = ns[i].continue_target)
      BY <2>4, <2>10
    <3>2. b \in Await(ns[i]) /\ c[b] = <<>>
      BY <1>t, <3>1
    <3>. QED  BY <3>2 DEF Covered
  <2>11. \A b \in g.n + 1 .. g2.n : Covered(c2, ns, n, b) /\ MergeOf(c2[b]) = <<>> /\ PhiOf(c2[b]) = <<>>
    <3>1. \A b \in g.n + 1 .. g2.n : b = n
      BY <1>1, <2>3
    <3>. QED  BY <2>9, <3>1, EmptyBlock
  <2>12. \A b \in 1 .. g.n : MergeOf(c2[b]) = MergeOf(c[b]) /\ PhiOf(c2[b]) = PhiOf(c[b])
    <3>1. MergeOf(c[bp]) = <<>>
      BY <1>1, CodeFacts, FreshBlock
    <3>. QED  BY <1>1, <3>1 DEF EndsBy
  <2>13. n \in g.n + 1 .. g2.n
    BY <1>1, <2>3
  <2>14. ns # <<>> => ns[Len(ns)].kind # "and"
    <3>1. ns # <<>> => Len(ns) \in DOMAIN ns
      BY <1>1
    <3>. QED  BY <3>1
  <2>15. KeepsFrames(g, c, ns, bp, g2, c2, k0, ns, n)
    BY <1>1, <2>3, <2>6, <2>7, <2>8, <2>9, <2>10, <2>11, <2>12, <2>13, <2>14, Zenon DEF KeepsFrames
  <2>. QED  BY <2>3, <2>5, <2>15, Keeping, Zenon
<1>. QED  BY <1>g

-----------------------------------------------------------------------------
\* The innermost construct goes on

LastSet(s, x, s2) ==
    /\ s2 \in Seq(Frame) /\ Len(s2) = Len(s) /\ s2[Len(s)] = x /\ DOMAIN s2 = DOMAIN s
    /\ \A i \in DOMAIN s : i # Len(s) => s2[i] = s[i]

\* only the last frame changes
LEMMA SetLast ==
    ASSUME NEW s \in Seq(Frame), s # <<>>, NEW x \in Frame, NEW s2, s2 = Append(Front(s), x)
    PROVE  LastSet(s, x, s2)
<1>1. Len(s) \in Nat \ {0} /\ Front(s) \in Seq(Frame) /\ Len(Front(s)) = Len(s) - 1 /\ \A i \in 1 .. Len(s) - 1 : Front(s)[i] = s[i]
  BY FrontFacts
<1>2. DOMAIN s = 1 .. Len(s)
  OBVIOUS
<1>3. s2 \in Seq(Frame) /\ Len(s2) = Len(s) /\ s2[Len(s)] = x /\ \A i \in 1 .. Len(s) - 1 : s2[i] = Front(s)[i]
  BY <1>1
<1>4. DOMAIN s2 = 1 .. Len(s)
  BY <1>3
<1>5. \A i \in DOMAIN s : i # Len(s) => i \in 1 .. Len(s) - 1 /\ i < Len(s)
  BY <1>1, <1>2
<1>. QED  BY <1>1, <1>2, <1>3, <1>4, <1>5 DEF LastSet

\* the innermost construct and those around it
LEMMA InnerFrame ==
    ASSUME NEW g, NEW c, NEW ns, NEW bp, Built(g, c, ns, bp), ns # <<>>, NEW f, f = ns[Len(ns)]
    PROVE  /\ Len(ns) \in DOMAIN ns /\ DOMAIN ns = 1 .. Len(ns) /\ Len(ns) \in Nat \ {0} /\ f = Last(ns)
           /\ FrameOK(f) /\ FrameInv(g, c, f) /\ Names(f) \subseteq 1 .. g.n /\ f \in Frame
           /\ \A i \in DOMAIN ns : i # Len(ns) => i < Len(ns) /\ Within(g, ns[i], f) /\ ns[i].place \notin {"head", "empty"}
           /\ f.place # "head" => \A i \in DOMAIN ns : ns[i].place # "head"
<1>1. ns \in Seq(Frame)
  BY DEF Built
<1>2. Len(ns) \in DOMAIN ns /\ DOMAIN ns = 1 .. Len(ns) /\ Len(ns) \in Nat \ {0} /\ f = Last(ns) /\ f \in Frame
  <2>1. Len(ns) \in Nat \ {0} /\ Last(ns) = ns[Len(ns)] /\ Last(ns) \in Frame
    BY <1>1, FrontFacts, Zenon
  <2>2. DOMAIN ns = 1 .. Len(ns)
    BY <1>1
  <2>. QED  BY <2>1, <2>2
<1>3. FrameOK(f) /\ FrameInv(g, c, f) /\ Names(f) \subseteq 1 .. g.n
  <2>1. \A i \in DOMAIN ns : FrameOK(ns[i]) /\ FrameInv(g, c, ns[i]) /\ Names(ns[i]) \subseteq 1 .. g.n
    BY BuiltFrame
  <2>. QED  BY <1>2, <2>1
<1>4. ASSUME NEW i \in DOMAIN ns, i # Len(ns) PROVE i < Len(ns) /\ Within(g, ns[i], f) /\ ns[i].place \notin {"head", "empty"}
  <2>1. i < Len(ns)
    BY <1>2, <1>4
  <2>2. Within(g, ns[i], f)
    BY <1>2, <2>1 DEF Built
  <2>. QED  BY <2>1, <2>2 DEF Within
<1>. QED  BY <1>2, <1>3, <1>4

\* what a step does to the code outside the innermost construct
Local(g, c, ns, bp, g2, c2, f) ==
    /\ \A b \in 1 .. g.n : c2[b] # c[b] => (b = bp /\ \A i \in DOMAIN ns : ns[i].place # "head") \/ b \in Names(f)
    /\ \A p, b : NewEdge(g, g2, p, b) => b \in g.n + 1 .. g2.n \/ (b \in Names(f) /\ (b # Header(f) \/ f.kind = "loop"))

\* the constructs around the innermost are not touched
LEMMA CalmBelow ==
    ASSUME NEW g, NEW c, NEW ns, NEW bp, Built(g, c, ns, bp), NEW g2, NEW c2, NEW k0, Grew(g, c, ns, g2, c2, k0),
           ns # <<>>, NEW f, f = ns[Len(ns)], Local(g, c, ns, bp, g2, c2, f), NEW j \in DOMAIN ns, j # Len(ns)
    PROVE  Calm(g, c, g2, c2, ns[j])
<1>1. Len(ns) \in DOMAIN ns /\ j < Len(ns) /\ Len(ns) > j
  <2>1. Len(ns) \in DOMAIN ns /\ j < Len(ns) /\ Len(ns) \in Nat /\ DOMAIN ns = 1 .. Len(ns)
    BY InnerFrame
  <2>. QED  BY <2>1
<1>2. \A b \in 1 .. g.n : c2[b] # c[b] => \/ b = bp /\ \A i \in DOMAIN ns : ns[i].place # "head"
                                          \/ \E i \in DOMAIN ns : i > j /\ b \in Names(ns[i])
  BY <1>1 DEF Local
<1>3. \A p, b : NewEdge(g, g2, p, b) =>
        \/ b \in g.n + 1 .. g2.n
        \/ \E i \in DOMAIN ns : i # j /\ b \in Names(ns[i]) /\ (b # Header(ns[i]) \/ (ns[i].kind = "loop" /\ j < i))
        \/ b \notin Entries(ns[j]) /\ (ns[j].kind = "and" => b # ns[j].merge)
  BY <1>1 DEF Local
<1>4. Untouched(g, c, ns, bp, g2, c2, j)
  BY <1>2, <1>3, Zenon DEF Untouched
<1>. QED  BY <1>4, Calmed, Zenon

\* f becomes f2, and the build point bp2
TurnsTop(g, c, ns, bp, g2, c2, k0, f, f2, ns2, bp2) ==
    /\ ns # <<>> /\ f = ns[Len(ns)] /\ Advances(g, c, ns, bp, g2, c2, k0) /\ (k0 = 0 \/ k0 = Header(f)) /\ EdgeOK(g, g2)
    /\ f2 \in Frame /\ Turns(g, g2, k0, f, f2) /\ Calm(g, c, g2, c2, f2) /\ f2.kind # "and" /\ Local(g, c, ns, bp, g2, c2, f)
    /\ ns2 = Append(Front(ns), f2) /\ (bp2 \in g.n + 1 .. g2.n \/ bp2 \in Names(f))
    /\ Point(g2, f2, bp2) /\ Fresh(c2[bp2]) /\ f2.place # "head"
    /\ Covered(c2, ns2, bp2, bp) /\ \A b \in Await(f) : Covered(c2, ns2, bp2, b)
    /\ \A p, b : NewEdge(g, g2, p, b) => Covered(c2, ns2, bp2, b) /\ (b \in g.n + 1 .. g2.n \/ c[b] = <<>> \/ Unowned(g, b))
    /\ \A b \in g.n + 1 .. g2.n : Covered(c2, ns2, bp2, b) /\ MergeOf(c2[b]) = <<>> /\ PhiOf(c2[b]) = <<>>
    /\ \A b \in 1 .. g.n : MergeOf(c2[b]) = MergeOf(c[b]) /\ PhiOf(c2[b]) = PhiOf(c[b])

\* the innermost construct turns, and the code stays built
LEMMA TurnedTop ==
    ASSUME NEW g, NEW c, NEW ns, NEW bp, Built(g, c, ns, bp), NEW g2, NEW c2, NEW k0, NEW f, NEW f2, NEW ns2, NEW bp2,
           TurnsTop(g, c, ns, bp, g2, c2, k0, f, f2, ns2, bp2)
    PROVE  Built(g2, c2, ns2, bp2)
<1>1. /\ ns # <<>> /\ f = ns[Len(ns)] /\ Grew(g, c, ns, g2, c2, k0) /\ (k0 = 0 \/ k0 = Header(f)) /\ EdgeOK(g, g2)
      /\ f2 \in Frame /\ Turns(g, g2, k0, f, f2) /\ Calm(g, c, g2, c2, f2) /\ f2.kind # "and" /\ Local(g, c, ns, bp, g2, c2, f)
      /\ ns2 = Append(Front(ns), f2) /\ (bp2 \in g.n + 1 .. g2.n \/ bp2 \in Names(f))
      /\ Point(g2, f2, bp2) /\ Fresh(c2[bp2]) /\ f2.place # "head"
      /\ Covered(c2, ns2, bp2, bp) /\ \A b \in Await(f) : Covered(c2, ns2, bp2, b)
  BY DEF TurnsTop, Advances
<1>2. /\ \A h \in 1 .. g2.n : g2.mrg[h] # 0 => h \in 1 .. g.n /\ g.mrg[h] # 0
      /\ \A p, b : NewEdge(g, g2, p, b) => Covered(c2, ns2, bp2, b) /\ (b \in g.n + 1 .. g2.n \/ c[b] = <<>> \/ Unowned(g, b))
      /\ \A b \in g.n + 1 .. g2.n : Covered(c2, ns2, bp2, b) /\ MergeOf(c2[b]) = <<>> /\ PhiOf(c2[b]) = <<>>
      /\ \A b \in 1 .. g.n : MergeOf(c2[b]) = MergeOf(c[b]) /\ PhiOf(c2[b]) = PhiOf(c[b])
  BY DEF TurnsTop, Advances
<1>3. /\ Len(ns) \in DOMAIN ns /\ DOMAIN ns = 1 .. Len(ns) /\ FrameOK(f) /\ Names(f) \subseteq 1 .. g.n
      /\ \A i \in DOMAIN ns : i # Len(ns) => i < Len(ns) /\ ns[i].place \notin {"head", "empty"}
  BY <1>1, InnerFrame
<1>4. ns \in Seq(Frame) /\ g.n \in Nat \ {0} /\ g2.n \in Nat /\ g.n <= g2.n
  BY <1>1, GrewFacts
<1>5. /\ ns2 \in Seq(Frame) /\ Len(ns2) = Len(ns) /\ ns2[Len(ns)] = f2 /\ DOMAIN ns2 = DOMAIN ns
      /\ \A i \in DOMAIN ns : i # Len(ns) => ns2[i] = ns[i]
  <2>1. ns # <<>> /\ f2 \in Frame /\ ns2 = Append(Front(ns), f2) /\ ns \in Seq(Frame)
    BY <1>1, <1>4
  <2>2. LastSet(ns, f2, ns2)
    BY <2>1, SetLast, Zenon
  <2>. QED  BY <2>2 DEF LastSet
<1>6. ASSUME NEW i \in DOMAIN ns, i # Len(ns)
      PROVE  k0 # Header(ns[i]) /\ Turns(g, g2, k0, ns[i], ns[i]) /\ Calm(g, c, g2, c2, ns[i]) /\ Point(g2, ns[i], bp2)
  <2>1. FrameOK(ns[i]) /\ Header(ns[i]) # 0
    BY BuiltFrame
  <2>2. Header(f) # Header(ns[i])
    <3>1. Header(f) \in Names(f)
      BY <1>3, FrameFacts
    <3>. QED  BY <1>1, <1>3, <1>6, <3>1, Apart
  <2>3. k0 # Header(ns[i])
    BY <1>1, <2>1, <2>2
  <2>4. Turns(g, g2, k0, ns[i], ns[i])
    BY <2>1, <2>3, TurnsSame
  <2>5. Calm(g, c, g2, c2, ns[i])
    BY <1>1, <1>6, CalmBelow, Zenon
  <2>6. bp2 \in g.n + 1 .. g2.n \/ (bp2 \in 1 .. g.n /\ Point(g, ns[i], bp2))
    BY <1>1, <1>3, <1>6, Apart
  <2>7. Point(g2, ns[i], bp2)
    BY <1>1, <2>3, <2>4, <2>6, PointStep
  <2>. QED  BY <2>3, <2>4, <2>5, <2>7
<1>7. At(g2, c2, ns2, bp2)
  <2>1. bp2 \in 1 .. g2.n
    BY <1>1, <1>3, <1>4
  <2>2. \A i \in DOMAIN ns2 : ns2[i].place # "head" /\ Point(g2, ns2[i], bp2)
    BY <1>1, <1>3, <1>5, <1>6
  <2>. QED  BY <1>1, <2>1, <2>2 DEF At
<1>8. \A i \in DOMAIN ns : /\ i # Len(ns) => ns2[i] = ns[i] /\ k0 # Header(ns[i])
                           /\ Turns(g, g2, k0, ns[i], ns2[i]) /\ Calm(g, c, g2, c2, ns2[i])
  BY <1>1, <1>5, <1>6
<1>9. bp2 \in g.n + 1 .. g2.n \/ \E j \in DOMAIN ns : bp2 \in Names(ns[j])
  BY <1>1, <1>3
<1>10. \A i \in DOMAIN ns : \/ ns2[i] = ns[i]
                            \/ /\ \A b \in Await(ns[i]) : Covered(c2, ns2, bp2, b)
                               /\ IsIf(ns[i]) => Covered(c2, ns2, bp2, ns[i].header)
  <2>1. ASSUME IsIf(f) PROVE Covered(c2, ns2, bp2, f.header)
    <3>1. IsIf(f2) /\ f2.header = f.header
      BY <1>1, <2>1 DEF Turns, IsIf, Header
    <3>. QED  BY <1>3, <1>5, <3>1 DEF Covered
  <2>. QED  BY <1>1, <1>5, <2>1
<1>11. KeepsFrames(g, c, ns, bp, g2, c2, k0, ns2, bp2)
  BY <1>1, <1>2, <1>5, <1>7, <1>8, <1>9, <1>10, Zenon DEF KeepsFrames
<1>. QED  BY <1>1, <1>11, Keeping, Zenon

\* The blocks of D, all of them old, get ends, or a phi; the rest stays
Stepped(g, c, ns, bp, g2, c2, k0, D) ==
    /\ Advances(g, c, ns, bp, g2, c2, k0)
    /\ g2.n = Len(c2) /\ g.n \in Nat \ {0} /\ g2.n \in Nat \ {0} /\ g.n <= g2.n /\ g2.n <= MaxBlocks /\ 1 .. g.n \subseteq 1 .. g2.n
    /\ \A p, b : NewEdge(g, g2, p, b) => p \in D /\ b \in SuccOf(c2[p]) /\ b \in 1 .. g2.n
    /\ \A b \in 1 .. g.n : b \notin D => c2[b] = c[b]
    /\ \A b \in D : b \in 1 .. g.n /\ Fresh(c[b]) /\ MergeOf(c[b]) = <<>>
    /\ \A b \in g.n + 1 .. g2.n : c2[b] = <<>> /\ MergeOf(c2[b]) = <<>> /\ PhiOf(c2[b]) = <<>>

\* the graph after a step that changes D only
LEMMA Steps ==
    ASSUME NEW g, NEW c, NEW ns, NEW bp, Built(g, c, ns, bp), NEW c2, NEW D, D \subseteq 1 .. g.n, CodeChanges(g, c, c2, D),
           NEW k0, Ending(g, ns, Len(c2), k0)
    PROVE  \E g2 : Stepped(g, c, ns, bp, g2, c2, k0, D)
<1>1. CodeGrows(g, c, c2)
  BY CodeGrowsBy, Zenon
<1>2. PICK g2 : Advances(g, c, ns, bp, g2, c2, k0)
  BY <1>1, Advance, Zenon
<1>3. Grew(g, c, ns, g2, c2, k0)
  BY <1>2 DEF Advances
<1>4. g2.n = Len(c2) /\ g.n \in Nat \ {0} /\ g2.n \in Nat \ {0} /\ g.n <= g2.n /\ g2.n <= MaxBlocks /\ 1 .. g.n \subseteq 1 .. g2.n
  BY <1>3, GrewFacts
<1>5. /\ \A b \in 1 .. g.n : b \notin D => c2[b] = c[b]
      /\ \A b \in D : b \in 1 .. g.n /\ Fresh(c[b])
      /\ \A b \in 1 .. Len(c2) : b > g.n /\ b \notin D => c2[b] = <<>>
  BY DEF CodeChanges
<1>6. \A b \in D : MergeOf(c[b]) = <<>>
  BY <1>5, CodeFacts, FreshBlock
<1>7. \A b \in g.n + 1 .. g2.n : c2[b] = <<>> /\ MergeOf(c2[b]) = <<>> /\ PhiOf(c2[b]) = <<>>
  <2>1. \A b \in g.n + 1 .. g2.n : b \in 1 .. Len(c2) /\ b > g.n /\ b \notin 1 .. g.n
    BY <1>4
  <2>. QED  BY <1>5, <2>1, EmptyBlock
<1>8. ASSUME NEW p, NEW b, NewEdge(g, g2, p, b) PROVE p \in D /\ b \in SuccOf(c2[p]) /\ b \in 1 .. g2.n
  <2>1. p \in 1 .. g2.n /\ b \in SuccOf(c2[p]) /\ (p \in 1 .. g.n => c2[p] # c[p]) /\ b \in 1 .. g2.n
    BY <1>3, <1>8, EdgeFrom
  <2>2. ~(p \in g.n + 1 .. g2.n)
    BY <1>7, <2>1, EmptyBlock
  <2>3. p \in 1 .. g.n
    BY <1>4, <2>1, <2>2
  <2>. QED  BY <1>5, <2>1, <2>3
<1>. QED  BY <1>2, <1>4, <1>5, <1>6, <1>7, <1>8, Zenon DEF Stepped

\* blocks that f awaits are entered, from the build point or such a block, and the rest still waits
TurnsBy(g, c, ns, bp, g2, c2, k0, D, f, f2, ns2, bp2) ==
    /\ ns # <<>> /\ f = ns[Len(ns)] /\ Stepped(g, c, ns, bp, g2, c2, k0, D) /\ (k0 = 0 \/ k0 = Header(f)) /\ EdgeOK(g, g2)
    /\ D \subseteq {bp} \cup Await(f) /\ (bp \in D \/ f.place = "head") /\ (f.place = "head" => bp \notin D)
    /\ \A d \in D : EndsBy(c, c2, d, SuccOf(c2[d])) /\ SuccOf(c2[d]) \subseteq Await(f)
    /\ f2 \in Frame /\ Turns(g, g2, k0, f, f2) /\ f2.kind # "and" /\ f2.place # "head" /\ ns2 = Append(Front(ns), f2)
    /\ bp2 \in g.n + 1 .. g2.n \/ bp2 \in Await(f)
    /\ bp2 \notin D /\ (\A b \in g.n + 1 .. g2.n : b = bp2) /\ Point(g2, f2, bp2)
    /\ Await(f) \subseteq Await(f2) \cup {bp2} \cup D /\ D \cap Await(f2) = {}
    /\ \A d \in D : SuccOf(c2[d]) \cap Entries(f2) = {}

\* the code stays built, if the innermost construct turns by such a step
LEMMA TurnedBy ==
    ASSUME NEW g, NEW c, NEW ns, NEW bp, Built(g, c, ns, bp), NEW g2, NEW c2, NEW k0, NEW D, NEW f, NEW f2, NEW ns2, NEW bp2,
           TurnsBy(g, c, ns, bp, g2, c2, k0, D, f, f2, ns2, bp2)
    PROVE  Built(g2, c2, ns2, bp2)
<1>1. /\ ns # <<>> /\ f = ns[Len(ns)] /\ Stepped(g, c, ns, bp, g2, c2, k0, D) /\ (k0 = 0 \/ k0 = Header(f)) /\ EdgeOK(g, g2)
      /\ D \subseteq {bp} \cup Await(f) /\ (bp \in D \/ f.place = "head") /\ (f.place = "head" => bp \notin D)
      /\ \A d \in D : EndsBy(c, c2, d, SuccOf(c2[d])) /\ SuccOf(c2[d]) \subseteq Await(f)
      /\ f2 \in Frame /\ Turns(g, g2, k0, f, f2) /\ f2.kind # "and" /\ f2.place # "head" /\ ns2 = Append(Front(ns), f2)
      /\ bp2 \in g.n + 1 .. g2.n \/ bp2 \in Await(f)
      /\ bp2 \notin D /\ (\A b \in g.n + 1 .. g2.n : b = bp2) /\ Point(g2, f2, bp2)
      /\ Await(f) \subseteq Await(f2) \cup {bp2} \cup D /\ D \cap Await(f2) = {}
      /\ \A d \in D : SuccOf(c2[d]) \cap Entries(f2) = {}
  BY DEF TurnsBy
<1>2. /\ Advances(g, c, ns, bp, g2, c2, k0)
      /\ g2.n = Len(c2) /\ g.n \in Nat \ {0} /\ g2.n \in Nat \ {0} /\ g.n <= g2.n /\ g2.n <= MaxBlocks /\ 1 .. g.n \subseteq 1 .. g2.n
      /\ \A p, b : NewEdge(g, g2, p, b) => p \in D /\ b \in SuccOf(c2[p]) /\ b \in 1 .. g2.n
      /\ \A b \in 1 .. g.n : b \notin D => c2[b] = c[b]
      /\ \A b \in D : b \in 1 .. g.n /\ Fresh(c[b]) /\ MergeOf(c[b]) = <<>>
      /\ \A b \in g.n + 1 .. g2.n : c2[b] = <<>> /\ MergeOf(c2[b]) = <<>> /\ PhiOf(c2[b]) = <<>>
  BY <1>1 DEF Stepped
<1>3. /\ Len(ns) \in DOMAIN ns /\ DOMAIN ns = 1 .. Len(ns) /\ FrameOK(f) /\ FrameInv(g, c, f) /\ Names(f) \subseteq 1 .. g.n /\ f \in Frame
      /\ \A i \in DOMAIN ns : i # Len(ns) => i < Len(ns) /\ ns[i].place \notin {"head", "empty"}
      /\ f.place # "head" => \A i \in DOMAIN ns : ns[i].place # "head"
  BY <1>1, InnerFrame
<1>4. Await(f) \subseteq Names(f) /\ Header(f) \notin Await(f) /\ Header(f) \in Names(f)
  BY <1>3, FrameFacts
<1>5. \A b \in Await(f) : c[b] = <<>> /\ b \in 1 .. g.n /\ b # Header(f)
  BY <1>3, <1>4 DEF FrameInv
<1>6. Await(f2) \subseteq Await(f) /\ f2.kind = f.kind /\ Header(f2) = Header(f) /\ (IsIf(f2) => f2.header = Header(f))
  BY <1>1 DEF Turns, IsIf, Header
<1>7. Header(f) \notin D
  <2>1. CASE f.place = "head"
    BY <1>1, <1>5, <2>1
  <2>2. CASE f.place # "head"
    <3>1. bp \notin Headers(ns)
      BY <1>3, <2>2, BuildPlace
    <3>2. Header(f) \in Headers(ns)
      BY <1>1, <1>3 DEF Headers
    <3>. QED  BY <1>1, <1>5, <3>1, <3>2
  <2>. QED  BY <2>1, <2>2
<1>8. Calm(g, c, g2, c2, f2)
  <2>1. \A b \in Await(f2) : c2[b] = c[b]
    BY <1>1, <1>2, <1>5, <1>6
  <2>2. IsIf(f2) => c2[f2.header] = c[f2.header]
    BY <1>2, <1>3, <1>4, <1>6, <1>7
  <2>3. \A p, b : NewEdge(g, g2, p, b) => b \notin Entries(f2)
    BY <1>1, <1>2
  <2>. QED  BY <1>1, <2>1, <2>2, <2>3 DEF Calm
<1>9. Local(g, c, ns, bp, g2, c2, f)
  <2>1. ASSUME NEW b \in 1 .. g.n, c2[b] # c[b] PROVE (b = bp /\ \A i \in DOMAIN ns : ns[i].place # "head") \/ b \in Names(f)
    BY <1>1, <1>2, <1>3, <1>4, <2>1
  <2>2. ASSUME NEW p, NEW b, NewEdge(g, g2, p, b) PROVE b \in Names(f) /\ b # Header(f)
    BY <1>1, <1>2, <1>4, <1>5, <2>2
  <2>. QED  BY <2>1, <2>2 DEF Local
<1>10. f2 = ns2[Len(ns)] /\ Len(ns) \in DOMAIN ns2
  <2>1. ns \in Seq(Frame)
    BY CodeFacts
  <2>2. LastSet(ns, f2, ns2)
    BY <1>1, <2>1, SetLast, Zenon
  <2>. QED  BY <1>3, <2>2 DEF LastSet
<1>11. \A d \in D : Terminated(c2[d]) /\ MergeOf(c2[d]) = <<>> /\ PhiOf(c2[d]) = PhiOf(c[d])
  BY <1>1 DEF EndsBy
<1>12. \A b \in Await(f) : Covered(c2, ns2, bp2, b)
  BY <1>1, <1>10, <1>11 DEF Covered
<1>13. Covered(c2, ns2, bp2, bp)
  <2>1. CASE bp \in D
    BY <1>11, <2>1 DEF Covered
  <2>2. CASE f.place = "head"
    <3>1. Terminated(c[bp]) /\ bp \in 1 .. g.n
      BY <1>1, <1>3, <2>2 DEF Built, At
    <3>. QED  BY <1>1, <1>2, <2>2, <3>1 DEF Covered
  <2>. QED  BY <1>1, <2>1, <2>2
<1>14. Fresh(c2[bp2])
  <2>1. CASE bp2 \in g.n + 1 .. g2.n
    BY <1>2, <2>1, EmptyBlock
  <2>2. CASE bp2 \in Await(f)
    BY <1>1, <1>2, <1>5, <2>2, EmptyBlock
  <2>. QED  BY <1>1, <2>1, <2>2
<1>15. /\ \A p, b : NewEdge(g, g2, p, b) => Covered(c2, ns2, bp2, b) /\ (b \in g.n + 1 .. g2.n \/ c[b] = <<>> \/ Unowned(g, b))
       /\ \A b \in g.n + 1 .. g2.n : Covered(c2, ns2, bp2, b) /\ MergeOf(c2[b]) = <<>> /\ PhiOf(c2[b]) = <<>>
       /\ \A b \in 1 .. g.n : MergeOf(c2[b]) = MergeOf(c[b]) /\ PhiOf(c2[b]) = PhiOf(c[b])
  <2>1. ASSUME NEW p, NEW b, NewEdge(g, g2, p, b) PROVE Covered(c2, ns2, bp2, b) /\ c[b] = <<>>
    BY <1>1, <1>2, <1>5, <1>12, <2>1
  <2>2. \A b \in g.n + 1 .. g2.n : Covered(c2, ns2, bp2, b)
    BY <1>1 DEF Covered
  <2>3. \A b \in 1 .. g.n : MergeOf(c2[b]) = MergeOf(c[b]) /\ PhiOf(c2[b]) = PhiOf(c[b])
    BY <1>2, <1>11
  <2>. QED  BY <1>2, <2>1, <2>2, <2>3
<1>16. bp2 \in g.n + 1 .. g2.n \/ bp2 \in Names(f)
  BY <1>1, <1>4
<1>17. TurnsTop(g, c, ns, bp, g2, c2, k0, f, f2, ns2, bp2)
  BY <1>1, <1>2, <1>8, <1>9, <1>12, <1>13, <1>14, <1>15, <1>16, Zenon DEF TurnsTop
<1>. QED  BY <1>17, TurnedTop, Zenon

\* only the build point gets an end
EndsHere(c, bp, c2, T) ==
    /\ c2 \in Seq(Seq(Instruction)) /\ Len(c) <= Len(c2) /\ Len(c2) <= MaxBlocks
    /\ \A b \in 1 .. Len(c) : b # bp => c2[b] = c[b]
    /\ \A b \in 1 .. Len(c2) : b > Len(c) => c2[b] = <<>>
    /\ EndsBy(c, c2, bp, T)

\* the graph after a branch from the build point to blocks that f awaits
LEMMA StepHere ==
    ASSUME NEW g, NEW c, NEW ns, NEW bp, Built(g, c, ns, bp), ns # <<>>, NEW f, f = ns[Len(ns)], f.place # "head",
           NEW c2, NEW T, EndsHere(c, bp, c2, T), T \subseteq Await(f), NEW k0, Ending(g, ns, Len(c2), k0)
    PROVE  \E g2 : Stepped(g, c, ns, bp, g2, c2, k0, {bp})
<1>1. FrameOK(f) /\ Names(f) \subseteq 1 .. g.n /\ \A i \in DOMAIN ns : ns[i].place # "head"
  BY InnerFrame
<1>2. T \subseteq 1 .. g.n
  BY <1>1, FrameFacts
<1>3. bp \in 1 .. g.n /\ Fresh(c[bp])
  BY <1>1, BuildPlace
<1>4. g.n = Len(c) /\ g.n \in Nat \ {0}
  BY CodeFacts
<1>5. /\ c2 \in Seq(Seq(Instruction)) /\ Len(c) <= Len(c2) /\ Len(c2) <= MaxBlocks
      /\ \A b \in 1 .. Len(c) : b # bp => c2[b] = c[b]
      /\ \A b \in 1 .. Len(c2) : b > Len(c) => c2[b] = <<>>
      /\ WellFormed(c2[bp]) /\ SuccOf(c2[bp]) = T
  BY DEF EndsHere, EndsBy
<1>6. T \subseteq 1 .. Len(c2)
  BY <1>2, <1>4, <1>5
<1>7. CodeChanges(g, c, c2, {bp})
  BY <1>3, <1>4, <1>5, <1>6 DEF CodeChanges
<1>8. {bp} \subseteq 1 .. g.n
  BY <1>3
<1>. QED  BY <1>7, <1>8, Steps, Zenon

\* such a step ends the build point only
OnlyHere(g, c, bp, g2, c2, T, f) ==
    /\ \A p, b : NewEdge(g, g2, p, b) => p = bp /\ b \in T
    /\ \A d \in {bp} : EndsBy(c, c2, d, SuccOf(c2[d])) /\ SuccOf(c2[d]) = T /\ SuccOf(c2[d]) \subseteq Await(f)

LEMMA HereFacts ==
    ASSUME NEW g, NEW c, NEW ns, NEW bp, NEW g2, NEW c2, NEW k0, Stepped(g, c, ns, bp, g2, c2, k0, {bp}), NEW T, EndsHere(c, bp, c2, T),
           ns # <<>>, NEW f, f = ns[Len(ns)], T \subseteq Await(f)
    PROVE  OnlyHere(g, c, bp, g2, c2, T, f)
<1>1. EndsBy(c, c2, bp, T) /\ SuccOf(c2[bp]) = T
  BY DEF EndsHere, EndsBy
<1>2. \A p, b : NewEdge(g, g2, p, b) => p \in {bp} /\ b \in SuccOf(c2[p])
  BY DEF Stepped
<1>. QED  BY <1>1, <1>2 DEF OnlyHere

\* where the build point may lead
LEMMA EdgeHere ==
    ASSUME NEW g, NEW c, NEW ns, NEW bp, Built(g, c, ns, bp), NEW g2, NEW c2, NEW k0, Advances(g, c, ns, bp, g2, c2, k0),
           ns # <<>>, NEW f, f = ns[Len(ns)], f.place # "head"
    PROVE  /\ Shape(g2, ns) /\ Source(g2, ns, bp) /\ f.merge \in Owned(g2)
           /\ Enters(g2, bp, f.merge) /\ Leaves(g2, bp, f.merge) /\ Returns(g2, bp, f.merge)
<1>1. Len(ns) \in DOMAIN ns /\ DOMAIN ns = 1 .. Len(ns) /\ Len(ns) \in Nat /\ \A i \in DOMAIN ns : ns[i].place # "head"
  BY InnerFrame
<1>2. Shape(g2, ns) /\ Source(g2, ns, bp)
  BY <1>1 DEF Advances, Grew
<1>3. \A j \in DOMAIN ns : j > Len(ns) => ~Terminal(ns[j])
  BY <1>1
<1>4. ASSUME NEW i \in DOMAIN ns, i = Len(ns)
      PROVE  /\ ns[i].merge \in Owned(g2)
             /\ Enters(g2, bp, ns[i].merge) /\ Leaves(g2, bp, ns[i].merge) /\ Returns(g2, bp, ns[i].merge)
  <2>1. Header(ns[i]) \in 1 .. g2.n /\ g2.mrg[Header(ns[i])] = ns[i].merge /\ ns[i].merge \in 1 .. g2.n
    BY <1>2, ShapeFacts
  <2>2. Enters(g2, bp, ns[i].merge) /\ Leaves(g2, bp, ns[i].merge) /\ Returns(g2, bp, ns[i].merge)
    BY <1>2, <1>3, <1>4, EdgeToMerge
  <2>. QED  BY <2>1, <2>2 DEF Owned
<1>. QED  BY <1>1, <1>2, <1>4

\* the second branch of a selection begins, in block n
BeginsElse(c, ns, bp, c2, n, f, f2) ==
    /\ ns # <<>> /\ f = ns[Len(ns)] /\ f.kind = "if" /\ f.place = "then" /\ n = Len(c) + 1 /\ Len(c2) = n
    /\ EndsHere(c, bp, c2, {f.merge}) /\ f2 = [f EXCEPT !.place = "else", !.else = n]

\* makeBeginElse keeps the code built
LEMMA ElseBuilt ==
    ASSUME NEW g, NEW c, NEW ns, NEW bp, Built(g, c, ns, bp), NEW c2, NEW n, NEW f, NEW f2, BeginsElse(c, ns, bp, c2, n, f, f2),
           NEW ns2, ns2 = Append(Front(ns), f2)
    PROVE  \E g2 : Built(g2, c2, ns2, n)
<1>. DEFINE T == {f.merge}
<1>0. /\ ns # <<>> /\ f = ns[Len(ns)] /\ f.kind = "if" /\ f.place = "then" /\ n = Len(c) + 1 /\ Len(c2) = n
      /\ EndsHere(c, bp, c2, T) /\ f2 = [f EXCEPT !.place = "else", !.else = n] /\ T = {f.merge}
  BY DEF BeginsElse
<1>. HIDE DEF T
<1>. USE <1>0
<1>1. g.n = Len(c) /\ g.n \in Nat \ {0}
  BY CodeFacts
<1>2. /\ Len(ns) \in DOMAIN ns /\ FrameOK(f) /\ FrameInv(g, c, f) /\ Names(f) \subseteq 1 .. g.n /\ f \in Frame
      /\ \A i \in DOMAIN ns : ns[i].place # "head"
  BY InnerFrame
<1>3. f \in IfFrame /\ IsIf(f) /\ ~Terminal(f)
  BY <1>2, FrameKinds DEF IsIf, Terminal
<1>4. /\ f.header \in Nat /\ f.then \in Nat /\ f.merge \in Nat /\ f.header < f.then /\ f.merge = f.then + 1 /\ f.else = 0 /\ f.header # 0
      /\ f.else \in Nat
  BY <1>2, <1>3 DEF FrameOK, IfFrame, Header
<1>5. f2 \in IfFrame /\ f2.kind = "if" /\ f2.place = "else" /\ f2.header = f.header /\ f2.then = f.then /\ f2.else = n /\ f2.merge = f.merge
  <2>1. n \in Nat
    BY <1>1
  <2>2. f2 = [kind |-> f.kind, place |-> "else", header |-> f.header, then |-> f.then, else |-> n, merge |-> f.merge]
    BY <1>3 DEF IfFrame
  <2>. QED  BY <1>4, <2>1, <2>2 DEF IfFrame
<1>6. /\ Names(f) = {f.header, f.merge} \cup ({f.then, f.else} \ {0}) /\ Await(f) = {f.merge} /\ Entries(f) = {f.then, f.else} \ {0}
      /\ Header(f) = f.header /\ First(f) = f.then /\ Cont(f) = 0
  BY <1>3, FrameFacts DEF IsIf, Names, Await, Entries, Header, First, Cont
<1>7. /\ Names(f2) = {f.header, f.merge} \cup ({f.then, n} \ {0}) /\ Await(f2) = {f.merge} /\ Entries(f2) = {f.then, n} \ {0}
      /\ Header(f2) = f.header /\ First(f2) = f.then /\ Cont(f2) = 0
  BY <1>5 DEF Names, Await, Entries, Header, First, Cont
<1>8. f.merge \in 1 .. g.n /\ f.merge < n /\ n \in Nat
  <2>1. f.merge \in 1 .. g.n
    BY <1>2, <1>6, Zenon
  <2>. QED  BY <1>1, <2>1
<1>9. FrameOK(f2)
  BY <1>4, <1>5, <1>7, <1>8 DEF FrameOK, Frame, IsIf
<1>g. ASSUME NEW k0, k0 = 0 PROVE \E g2 : Built(g2, c2, ns2, n)
  <2>1. Ending(g, ns, Len(c2), k0)
    BY <1>g DEF Ending
  <2>2. T \subseteq Await(f)
    BY <1>6
  <2>3. PICK g2 : Stepped(g, c, ns, bp, g2, c2, k0, {bp})
    <3>1. f.place # "head"
      OBVIOUS
    <3>. QED  BY <2>1, <2>2, <3>1, StepHere, Zenon
  <2>4. /\ \A p, b : NewEdge(g, g2, p, b) => p = bp /\ b \in T
        /\ \A d \in {bp} : EndsBy(c, c2, d, SuccOf(c2[d])) /\ SuccOf(c2[d]) = T /\ SuccOf(c2[d]) \subseteq Await(f)
    <3>1. OnlyHere(g, c, bp, g2, c2, T, f)
      BY <2>2, <2>3, HereFacts, Zenon
    <3>. QED  BY <3>1 DEF OnlyHere
  <2>5. Advances(g, c, ns, bp, g2, c2, k0) /\ g2.n = n /\ \A h \in 1 .. g2.n : g2.mrg[h] # 0 => h \in 1 .. g.n /\ g.mrg[h] # 0
    BY <2>3 DEF Stepped, Advances
  <2>6. Grew(g, c, ns, g2, c2, k0)
    BY <2>5 DEF Advances
  <2>7. f.merge \in Owned(g2) /\ Enters(g2, bp, f.merge) /\ Leaves(g2, bp, f.merge) /\ Returns(g2, bp, f.merge)
    BY <2>5, EdgeHere
  <2>8. EdgeOK(g, g2)
    BY <2>4, <2>7 DEF EdgeOK
  <2>9. Unowned(g2, n)
    <3>1. ASSUME NEW h \in 1 .. g2.n PROVE g2.mrg[h] # n /\ g2.cnt[h] # n
      <4>1. CASE g2.mrg[h] # 0
        <5>1. h \in 1 .. g.n /\ g.mrg[h] # 0
          BY <2>5, <4>1
        <5>2. g2.mrg[h] = g.mrg[h] /\ g2.cnt[h] = g.cnt[h]
          BY <2>6, <5>1, OldConstruct
        <5>3. g.mrg[h] \in 0 .. g.n /\ g.cnt[h] \in 0 .. g.n
          BY <5>1, CodeFacts, ConstructFacts
        <5>. QED  BY <1>1, <1>8, <5>2, <5>3
      <4>2. CASE g2.mrg[h] = 0
        <5>1. Constructs(g2)
          BY <2>6, GrewFacts
        <5>2. g2.cnt[h] = 0
          BY <4>2, <5>1 DEF Constructs
        <5>. QED  BY <1>1, <4>2, <5>2
      <4>. QED  BY <4>1, <4>2
    <3>. QED  BY <3>1 DEF Unowned
  <2>10. n \in g.n + 1 .. g2.n /\ \A b \in g.n + 1 .. g2.n : b = n
    BY <1>1, <2>5
  <2>11. Turns(g, g2, k0, f, f2)
    <3>1. \A b \in Entries(f2) : b \in Entries(f) \/ (b \in g.n + 1 .. g2.n /\ Unowned(g2, b))
      BY <1>6, <1>7, <2>9, <2>10
    <3>2. Names(f2) \subseteq Names(f) \cup (g.n + 1 .. g2.n)
      BY <1>6, <1>7, <2>10
    <3>. QED  BY <1>5, <1>6, <1>7, <1>9, <3>1, <3>2 DEF Turns
  <2>12. Point(g2, f2, n)
    <3>1. k0 # Header(f)
      BY <1>4, <1>6, <1>g
    <3>2. ASSUME NEW i \in DOMAIN ns, i = Len(ns) PROVE Point(g2, f2, n)
      <4>1. Turns(g, g2, k0, ns[i], f2) /\ k0 # Header(ns[i])
        BY <2>11, <3>1, <3>2
      <4>. QED  BY <2>6, <2>10, <4>1, PointStep
    <3>. QED  BY <1>2, <3>2
  <2>13. TurnsBy(g, c, ns, bp, g2, c2, k0, {bp}, f, f2, ns2, n)
    <3>1. bp \in 1 .. g.n /\ Point(g, f, bp)
      BY <1>2, BuildPlace
    <3>2. bp \notin Await(f)
      BY <3>1 DEF Point
    <3>3. f2 \in Frame /\ f2.kind # "and" /\ f2.place # "head"
      BY <1>5 DEF Frame
    <3>4. n \notin {bp}
      BY <1>1, <3>1
    <3>5. \A d \in {bp} : SuccOf(c2[d]) \cap Entries(f2) = {}
      BY <1>4, <1>7, <1>8, <2>4
    <3>6. Await(f) \subseteq Await(f2) \cup {n} \cup {bp} /\ {bp} \cap Await(f2) = {} /\ {bp} \subseteq {bp} \cup Await(f) /\ bp \in {bp} /\ f.place # "head"
      BY <1>6, <1>7, <3>2
    <3>. QED  BY <1>g, <2>3, <2>4, <2>8, <2>10, <2>11, <2>12, <3>3, <3>4, <3>5, <3>6 DEF TurnsBy
  <2>. QED  BY <2>13, TurnedBy, Zenon
<1>. QED  BY <1>g

\* a loop's blocks, by where in it code is built
LEMMA LoopFacts ==
    ASSUME NEW f, FrameOK(f), f.kind = "loop"
    PROVE  /\ f \in LoopFrame /\ f.head \in Nat \ {0} /\ f.body = f.head + 1 /\ f.merge = f.head + 2 /\ f.continue_target = f.head + 3
           /\ f.place \in {"test", "body", "terminal"} /\ ~IsIf(f) /\ Header(f) = f.head /\ First(f) = f.body /\ Cont(f) = f.continue_target
           /\ Names(f) = {f.head, f.merge, f.body, f.continue_target}
           /\ f.place = "test" => Await(f) = {f.merge, f.body, f.continue_target} /\ Entries(f) = {f.body}
           /\ f.place = "body" => Await(f) = {f.merge, f.continue_target} /\ Entries(f) = {}
           /\ f.place = "terminal" => Await(f) = {f.merge} /\ Entries(f) = {}
           /\ Terminal(f) <=> f.place = "terminal"
           /\ f.testFirst \in BOOLEAN
<1>1. f \in LoopFrame /\ f.place \in {"test", "body", "terminal"}
  BY FrameKinds DEF FrameOK
<1>2. f.head \in Nat \ {0} /\ f.body = f.head + 1 /\ f.merge = f.head + 2 /\ f.continue_target = f.head + 3 /\ f.testFirst \in BOOLEAN
  BY <1>1 DEF FrameOK, Header, LoopFrame
<1>3. ~IsIf(f) /\ Header(f) = f.head /\ First(f) = f.body /\ Cont(f) = f.continue_target /\ (Terminal(f) <=> f.place = "terminal")
  BY DEF IsIf, Header, First, Cont, Terminal
<1>4. Names(f) = {f.head, f.merge, f.body, f.continue_target}
  BY <1>3 DEF Names
<1>5. /\ f.place = "test" => Await(f) = {f.merge, f.body, f.continue_target} /\ Entries(f) = {f.body}
      /\ f.place = "body" => Await(f) = {f.merge, f.continue_target} /\ Entries(f) = {}
      /\ f.place = "terminal" => Await(f) = {f.merge} /\ Entries(f) = {}
  BY DEF Await, Entries
<1>. QED  BY <1>1, <1>2, <1>3, <1>4, <1>5

\* the loop goes on at another place
LEMMA LoopTurn ==
    ASSUME NEW f, FrameOK(f), f.kind = "loop", NEW place \in {"test", "body", "terminal"}, NEW f2, f2 = [f EXCEPT !.place = place]
    PROVE  /\ FrameOK(f2) /\ f2 \in Frame /\ f2.kind = "loop" /\ f2.place = place /\ Header(f2) = Header(f) /\ First(f2) = First(f)
           /\ f2.merge = f.merge /\ Cont(f2) = Cont(f) /\ Names(f2) = Names(f) /\ f2.head = f.head /\ f2.body = f.body
           /\ f2.continue_target = f.continue_target
<1>1. /\ f \in LoopFrame /\ f.head \in Nat \ {0} /\ f.body = f.head + 1 /\ f.merge = f.head + 2 /\ f.continue_target = f.head + 3
      /\ f.testFirst \in BOOLEAN /\ Names(f) = {f.head, f.merge, f.body, f.continue_target}
      /\ Header(f) = f.head /\ First(f) = f.body /\ Cont(f) = f.continue_target
  BY LoopFacts
<1>2. f2 = [kind |-> f.kind, place |-> place, head |-> f.head, body |-> f.body, merge |-> f.merge,
            continue_target |-> f.continue_target, testFirst |-> f.testFirst]
  BY <1>1 DEF LoopFrame
<1>3. f2.kind = "loop" /\ f2.place = place /\ f2.head = f.head /\ f2.body = f.body /\ f2.merge = f.merge
      /\ f2.continue_target = f.continue_target /\ f2.testFirst = f.testFirst
  BY <1>2
<1>4. f2 \in LoopFrame
  BY <1>1, <1>2 DEF LoopFrame
<1>5. Header(f2) = f.head /\ First(f2) = f.body /\ Cont(f2) = f.continue_target
  BY <1>3 DEF Header, First, Cont
<1>6. FrameOK(f2)
  BY <1>1, <1>3, <1>4, <1>5 DEF FrameOK, Frame, IsIf
<1>7. Names(f2) = Names(f)
  <2>1. Names(f2) = {f2.head, f2.merge, f2.body, f2.continue_target}
    BY <1>3, <1>6, LoopFacts
  <2>. QED  BY <1>1, <1>3, <2>1
<1>. QED  BY <1>1, <1>3, <1>4, <1>5, <1>6, <1>7 DEF Frame

\* the code of the loop f goes on at another place, with a branch to T
LoopGoesOn(c, ns, bp, c2, f, T, place, f2) ==
    /\ ns # <<>> /\ f = ns[Len(ns)] /\ f.kind = "loop" /\ Len(c2) = Len(c) /\ EndsHere(c, bp, c2, T)
    /\ f2 = [f EXCEPT !.place = place]

\* endTest keeps the code built
LEMMA TestBuilt ==
    ASSUME NEW g, NEW c, NEW ns, NEW bp, Built(g, c, ns, bp), NEW f, f.place = "test", NEW T, T = {f.body, f.merge},
           NEW c2, NEW f2, LoopGoesOn(c, ns, bp, c2, f, T, "body", f2), NEW ns2, ns2 = Append(Front(ns), f2)
    PROVE  \E g2 : Built(g2, c2, ns2, f.body)
<1>0. /\ ns # <<>> /\ f = ns[Len(ns)] /\ f.kind = "loop" /\ Len(c2) = Len(c) /\ EndsHere(c, bp, c2, T)
      /\ f2 = [f EXCEPT !.place = "body"]
  BY DEF LoopGoesOn
<1>. USE <1>0
<1>1. g.n = Len(c) /\ g.n \in Nat \ {0}
  BY CodeFacts
<1>2. /\ Len(ns) \in DOMAIN ns /\ FrameOK(f) /\ FrameInv(g, c, f) /\ Names(f) \subseteq 1 .. g.n /\ f \in Frame
      /\ \A i \in DOMAIN ns : ns[i].place # "head"
  BY InnerFrame
<1>3. /\ f.head \in Nat \ {0} /\ f.body = f.head + 1 /\ f.merge = f.head + 2 /\ f.continue_target = f.head + 3
      /\ Header(f) = f.head /\ First(f) = f.body /\ Cont(f) = f.continue_target
      /\ Names(f) = {f.head, f.merge, f.body, f.continue_target}
      /\ Await(f) = {f.merge, f.body, f.continue_target} /\ Entries(f) = {f.body} /\ ~Terminal(f)
  BY <1>2, LoopFacts
<1>4. /\ FrameOK(f2) /\ f2 \in Frame /\ f2.kind = "loop" /\ f2.place = "body" /\ Header(f2) = Header(f) /\ First(f2) = First(f)
      /\ f2.merge = f.merge /\ Cont(f2) = Cont(f) /\ Names(f2) = Names(f) /\ f2.continue_target = f.continue_target
  BY <1>2, LoopTurn
<1>5. Await(f2) = {f.merge, f.continue_target} /\ Entries(f2) = {} /\ ~Terminal(f2)
  BY <1>4, LoopFacts
<1>6. f.body \in 1 .. g.n /\ f.merge \in 1 .. g.n
  BY <1>2, <1>3
<1>g. ASSUME NEW k0, k0 = 0 PROVE \E g2 : Built(g2, c2, ns2, f.body)
  <2>1. Ending(g, ns, Len(c2), k0)
    BY <1>g DEF Ending
  <2>2. T \subseteq Await(f)
    BY <1>3
  <2>3. PICK g2 : Stepped(g, c, ns, bp, g2, c2, k0, {bp})
    <3>1. f.place # "head"
      OBVIOUS
    <3>. QED  BY <2>1, <2>2, <3>1, StepHere, Zenon
  <2>4. /\ \A p, b : NewEdge(g, g2, p, b) => p = bp /\ b \in T
        /\ \A d \in {bp} : EndsBy(c, c2, d, SuccOf(c2[d])) /\ SuccOf(c2[d]) = T /\ SuccOf(c2[d]) \subseteq Await(f)
    <3>1. OnlyHere(g, c, bp, g2, c2, T, f)
      BY <2>2, <2>3, HereFacts, Zenon
    <3>. QED  BY <3>1 DEF OnlyHere
  <2>5. Advances(g, c, ns, bp, g2, c2, k0) /\ g2.n = g.n
    BY <1>1, <2>3 DEF Stepped
  <2>6. Grew(g, c, ns, g2, c2, k0)
    BY <2>5 DEF Advances
  <2>7. Shape(g2, ns) /\ Source(g2, ns, bp) /\ f.merge \in Owned(g2)
        /\ Enters(g2, bp, f.merge) /\ Leaves(g2, bp, f.merge) /\ Returns(g2, bp, f.merge)
    BY <2>5, EdgeHere
  <2>8. Enters(g2, bp, f.body) /\ Leaves(g2, bp, f.body) /\ Returns(g2, bp, f.body)
    <3>1. Unowned(g, f.body)
      BY <1>2, <1>3 DEF FrameInv
    <3>2. Unowned(g2, f.body)
      BY <1>6, <2>6, <3>1, UnownedStep
    <3>3. f.body \in Names(f) /\ f.body \notin {Header(f), f.merge}
      BY <1>3
    <3>. QED  BY <1>3, <2>7, <3>2, <3>3, EdgeToEntry
  <2>9. ForwardFrom(g2, f.body, bp)
    <3>1. ASSUME NEW p \in 1 .. g2.n, f.body \in g2.succ[p] PROVE p = bp
      <4>1. CASE NewEdge(g, g2, p, f.body)
        BY <2>4, <4>1
      <4>2. CASE OldEdge(g, p, f.body)
        BY <1>2, <1>3, <4>2 DEF FrameInv, OldEdge
      <4>. QED  BY <3>1, <4>1, <4>2 DEF NewEdge
    <3>. QED  BY <3>1 DEF ForwardFrom
  <2>10. bp \in 1 .. g2.n
    BY <2>7 DEF Source
  <2>11. EdgeOK(g, g2)
    BY <2>4, <2>7, <2>8, <2>9, <2>10 DEF EdgeOK
  <2>12. k0 # Header(f)
    BY <1>3, <1>g
  <2>13. Turns(g, g2, k0, f, f2)
    BY <1>3, <1>4, <1>5, <2>12 DEF Turns
  <2>14. Point(g2, f2, f.body)
    <3>1. f.body \in First(f2) .. g2.n
      BY <1>1, <1>3, <1>4, <1>6, <2>5
    <3>2. f.body # f2.merge /\ f.body \notin Await(f2)
      <4>. DEFINE t == f.body
                  m == f.merge
                  d == f.continue_target
      <4>1. t # m /\ t # d
        BY <1>3
      <4>2. f2.merge = m /\ Await(f2) = {m, d}
        BY <1>4, <1>5, Zenon
      <4>. HIDE DEF t, m, d
      <4>3. t # f2.merge /\ t \notin Await(f2)
        BY <4>1, <4>2, Zenon
      <4>. QED  BY <4>3 DEF t
    <3>. QED  BY <1>5, <3>1, <3>2, Zenon DEF Point, Region
  <2>15. TurnsBy(g, c, ns, bp, g2, c2, k0, {bp}, f, f2, ns2, f.body)
    <3>1. bp \in 1 .. g.n /\ Point(g, f, bp)
      BY <1>2, BuildPlace
    <3>2. bp \notin Await(f)
      BY <3>1 DEF Point
    <3>3. f2.kind # "and" /\ f2.place # "head" /\ f.place # "head"
      BY <1>4
    <3>4. f.body \notin {bp} /\ f.body \in Await(f)
      BY <1>3, <3>2
    <3>5. \A d \in {bp} : SuccOf(c2[d]) \cap Entries(f2) = {}
      BY <1>5
    <3>6. Await(f) \subseteq Await(f2) \cup {f.body} \cup {bp} /\ {bp} \cap Await(f2) = {} /\ {bp} \subseteq {bp} \cup Await(f) /\ bp \in {bp}
      BY <1>3, <1>5, <3>2, ZenonT(40)
    <3>7. \A b \in g.n + 1 .. g2.n : b = f.body
      BY <1>1, <2>5
    <3>. QED  BY <1>4, <1>g, <2>3, <2>4, <2>11, <2>13, <2>14, <3>3, <3>4, <3>5, <3>6, <3>7 DEF TurnsBy
  <2>. QED  BY <2>15, TurnedBy, Zenon
<1>. QED  BY <1>g

\* endBody keeps the code built
LEMMA BodyBuilt ==
    ASSUME NEW g, NEW c, NEW ns, NEW bp, Built(g, c, ns, bp), NEW f, f.place = "body", NEW T, T = {f.continue_target},
           NEW c2, NEW f2, LoopGoesOn(c, ns, bp, c2, f, T, "terminal", f2), NEW ns2, ns2 = Append(Front(ns), f2)
    PROVE  \E g2 : Built(g2, c2, ns2, f.continue_target)
<1>0. /\ ns # <<>> /\ f = ns[Len(ns)] /\ f.kind = "loop" /\ Len(c2) = Len(c) /\ EndsHere(c, bp, c2, T)
      /\ f2 = [f EXCEPT !.place = "terminal"]
  BY DEF LoopGoesOn
<1>. USE <1>0
<1>1. g.n = Len(c) /\ g.n \in Nat \ {0} /\ MaxBlocks \in Nat /\ g.n <= MaxBlocks
  BY CodeFacts
<1>2. /\ Len(ns) \in DOMAIN ns /\ FrameOK(f) /\ FrameInv(g, c, f) /\ Names(f) \subseteq 1 .. g.n /\ f \in Frame
      /\ \A i \in DOMAIN ns : i # Len(ns) => i < Len(ns) /\ Within(g, ns[i], f)
      /\ \A i \in DOMAIN ns : ns[i].place # "head"
  BY InnerFrame
<1>3. /\ f.head \in Nat \ {0} /\ f.body = f.head + 1 /\ f.merge = f.head + 2 /\ f.continue_target = f.head + 3
      /\ Header(f) = f.head /\ First(f) = f.body /\ Cont(f) = f.continue_target
      /\ Names(f) = {f.head, f.merge, f.body, f.continue_target}
      /\ Await(f) = {f.merge, f.continue_target} /\ Entries(f) = {} /\ ~Terminal(f)
  BY <1>2, LoopFacts
<1>4. /\ FrameOK(f2) /\ f2 \in Frame /\ f2.kind = "loop" /\ f2.place = "terminal" /\ Header(f2) = Header(f) /\ First(f2) = First(f)
      /\ f2.merge = f.merge /\ Cont(f2) = Cont(f) /\ Names(f2) = Names(f) /\ f2.continue_target = f.continue_target
  BY <1>2, LoopTurn
<1>5. Await(f2) = {f.merge} /\ Entries(f2) = {} /\ Terminal(f2)
  <2>1. FrameOK(f2) /\ f2.kind = "loop" /\ f2.place = "terminal"
    BY <1>4
  <2>2. Await(f2) = {f2.merge} /\ Entries(f2) = {} /\ Terminal(f2)
    BY <2>1, LoopFacts
  <2>. QED  BY <1>4, <2>2
<1>6. f.head \in 1 .. g.n /\ f.merge \in 1 .. g.n /\ f.continue_target \in 1 .. g.n
  BY <1>2, <1>3
<1>7. ASSUME NEW i \in DOMAIN ns, ns[i].kind = "loop", ns[i].head = f.head PROVE ~Terminal(ns[i])
  <2>1. CASE i = Len(ns)
    BY <1>3, <2>1
  <2>2. CASE i # Len(ns)
    <3>1. FrameOK(ns[i]) /\ Header(ns[i]) = f.head
      BY <1>7, BuiltFrame DEF Header
    <3>2. Header(ns[i]) \in Names(ns[i])
      BY <3>1, FrameFacts
    <3>3. Header(ns[i]) < f.head
      BY <1>2, <2>2, <3>2 DEF Within
    <3>. QED  BY <1>3, <3>1, <3>3
  <2>. QED  BY <2>1, <2>2
<1>g. ASSUME NEW k0, k0 = f.head PROVE \E g2 : Built(g2, c2, ns2, f.continue_target)
  <2>1. Ending(g, ns, Len(c2), k0)
    <3>1. g.tail[f.head] = MaxBlocks
      BY <1>2, <1>3 DEF FrameInv
    <3>2. g.tail[k0] >= g.n
      BY <1>1, <1>g, <3>1
    <3>. QED  BY <1>1, <1>6, <1>7, <1>g, <3>2 DEF Ending
  <2>2. T \subseteq Await(f)
    BY <1>3
  <2>3. PICK g2 : Stepped(g, c, ns, bp, g2, c2, k0, {bp})
    <3>1. f.place # "head"
      OBVIOUS
    <3>. QED  BY <2>1, <2>2, <3>1, StepHere, Zenon
  <2>4. /\ \A p, b : NewEdge(g, g2, p, b) => p = bp /\ b \in T
        /\ \A d \in {bp} : EndsBy(c, c2, d, SuccOf(c2[d])) /\ SuccOf(c2[d]) = T /\ SuccOf(c2[d]) \subseteq Await(f)
    <3>1. OnlyHere(g, c, bp, g2, c2, T, f)
      BY <2>2, <2>3, HereFacts, Zenon
    <3>. QED  BY <3>1 DEF OnlyHere
  <2>5. Advances(g, c, ns, bp, g2, c2, k0) /\ g2.n = g.n
    BY <1>1, <2>3 DEF Stepped
  <2>6. Grew(g, c, ns, g2, c2, k0)
    BY <2>5 DEF Advances
  <2>7. Shape(g2, ns) /\ Source(g2, ns, bp)
    BY <2>5, EdgeHere
  <2>8. /\ f.continue_target \in Owned(g2)
        /\ Enters(g2, bp, f.continue_target) /\ Leaves(g2, bp, f.continue_target) /\ Returns(g2, bp, f.continue_target)
    <3>1. ASSUME NEW i \in DOMAIN ns, i = Len(ns)
          PROVE  LET b == ns[i].continue_target IN Enters(g2, bp, b) /\ Leaves(g2, bp, b) /\ Returns(g2, bp, b) /\ b \in Owned(g2)
      <4>1. bp # Header(ns[i])
        <5>1. bp \notin Headers(ns)
          BY <1>2, BuildPlace
        <5>. QED  BY <5>1 DEF Headers
      <4>2. PlaceIn(g2, ns[i], bp)
        BY <2>7, <4>1 DEF Source
      <4>3. ns[i].kind = "loop" /\ ~Terminal(ns[i])
        BY <1>3, <3>1
      <4>4. \A j \in DOMAIN ns : j >= i => ~Terminal(ns[j])
        <5>1. \A j \in DOMAIN ns : j # Len(ns) => j < Len(ns)
          BY <1>2
        <5>2. ns \in Seq(Frame)
          BY CodeFacts
        <5>. QED  BY <3>1, <4>3, <5>1, <5>2
      <4>5. Header(ns[i]) \in 1 .. g2.n /\ g2.cnt[Header(ns[i])] = ns[i].continue_target /\ Names(ns[i]) \subseteq 1 .. g2.n
        BY <2>7, <4>3, ShapeFacts
      <4>6. ns[i].continue_target \in 1 .. g2.n
        BY <1>6, <2>5, <3>1
      <4>. QED  BY <2>7, <4>2, <4>3, <4>4, <4>5, <4>6, EdgeToCont DEF Owned
    <3>. QED  BY <1>2, <3>1
  <2>11. EdgeOK(g, g2)
    BY <2>4, <2>8 DEF EdgeOK
  <2>12. k0 = Header(f)
    BY <1>3, <1>g
  <2>13. Turns(g, g2, k0, f, f2)
    BY <1>3, <1>4, <1>5, <2>12 DEF Turns
  <2>14. Point(g2, f2, f.continue_target)
    <3>1. f.continue_target \in First(f2) .. g2.n
      BY <1>1, <1>3, <1>4, <1>6, <2>5
    <3>2. f.continue_target # f2.merge /\ f.continue_target \notin Await(f2)
      <4>. DEFINE t == f.continue_target
                  m == f.merge
      <4>1. t # m
        BY <1>3
      <4>2. f2.merge = m /\ Await(f2) = {m}
        BY <1>4, <1>5, Zenon
      <4>. HIDE DEF t, m
      <4>3. t # f2.merge /\ t \notin Await(f2)
        BY <4>1, <4>2, Zenon
      <4>. QED  BY <4>3 DEF t
    <3>. QED  BY <1>4, <3>1, <3>2, Zenon DEF Point, Region
  <2>15. TurnsBy(g, c, ns, bp, g2, c2, k0, {bp}, f, f2, ns2, f.continue_target)
    <3>1. bp \in 1 .. g.n /\ Point(g, f, bp)
      BY <1>2, BuildPlace
    <3>2. bp \notin Await(f)
      BY <3>1 DEF Point
    <3>3. f2.kind # "and" /\ f2.place # "head" /\ f.place # "head"
      BY <1>4
    <3>4. f.continue_target \notin {bp} /\ f.continue_target \in Await(f)
      BY <1>3, <3>2
    <3>5. \A d \in {bp} : SuccOf(c2[d]) \cap Entries(f2) = {}
      BY <1>5
    <3>6. Await(f) \subseteq Await(f2) \cup {f.continue_target} \cup {bp} /\ {bp} \cap Await(f2) = {} /\ {bp} \subseteq {bp} \cup Await(f) /\ bp \in {bp}
      BY <1>3, <1>5, <3>2
    <3>7. \A b \in g.n + 1 .. g2.n : b = f.continue_target
      BY <1>1, <2>5
    <3>. QED  BY <1>4, <2>12, <2>3, <2>4, <2>11, <2>13, <2>14, <3>3, <3>4, <3>5, <3>6, <3>7 DEF TurnsBy
  <2>. QED  BY <2>15, TurnedBy, Zenon
<1>. QED  BY <1>g

\* a switch's blocks, by how many of its segments have begun
LEMMA SwitchFacts ==
    ASSUME NEW f, FrameOK(f), f.kind = "switch"
    PROVE  /\ f \in SwitchFrame /\ f.header \in Nat \ {0} /\ f.first \in Nat /\ f.count \in Nat /\ f.next \in Nat /\ f.merge \in Nat
           /\ f.lastEmpty \in BOOLEAN /\ f.place \in {"head", "segment", "empty"}
           /\ f.header < f.first /\ f.merge = f.first + f.count /\ f.next \in 1 .. f.count + 1
           /\ f.next = 1 <=> f.place = "head"
           /\ f.place = "empty" => f.next = f.count + 1
           /\ ~IsIf(f) /\ ~Terminal(f) /\ Header(f) = f.header /\ First(f) = f.first /\ Cont(f) = 0
           /\ Names(f) = {f.header, f.merge} \cup (f.first .. (f.first + f.count - 1))
           /\ Await(f) = {f.merge} \cup Segments(f) /\ Entries(f) = Segments(f)
<1>1. f \in SwitchFrame
  BY FrameKinds DEF FrameOK
<1>2. /\ f.header \in Nat /\ f.first \in Nat /\ f.count \in Nat /\ f.next \in Nat /\ f.merge \in Nat
      /\ f.lastEmpty \in BOOLEAN /\ f.place \in {"head", "segment", "empty"}
  BY <1>1 DEF SwitchFrame
<1>3. ~IsIf(f) /\ ~Terminal(f) /\ Header(f) = f.header /\ First(f) = f.first /\ Cont(f) = 0
  BY <1>2 DEF IsIf, Terminal, Header, First, Cont
<1>4. /\ f.header < f.first /\ f.merge = f.first + f.count /\ f.next \in 1 .. f.count + 1
      /\ f.next = 1 <=> f.place = "head"
      /\ f.place = "empty" => f.next = f.count + 1
      /\ f.header # 0
  BY <1>3 DEF FrameOK
<1>5. Names(f) = {f.header, f.merge} \cup (f.first .. (f.first + f.count - 1))
  BY <1>3 DEF Names
<1>6. Await(f) = {f.merge} \cup Segments(f) /\ Entries(f) = Segments(f)
  BY DEF Await, Entries
<1>. QED  BY <1>1, <1>2, <1>3, <1>4, <1>5, <1>6

\* the switch goes on to its next segment
SwitchTurned(f, place, f2, segment) ==
    /\ FrameOK(f2) /\ f2 \in Frame /\ f2.kind = "switch" /\ f2.place = place /\ Header(f2) = Header(f) /\ First(f2) = First(f)
    /\ f2.merge = f.merge /\ Cont(f2) = Cont(f) /\ Names(f2) = Names(f) /\ f2.header = f.header
    /\ Segments(f2) = Segments(f) \ {segment} /\ segment \in Segments(f) /\ segment # f.merge /\ f.merge \notin Segments(f)
    /\ segment \in Names(f) /\ segment # Header(f) /\ segment >= First(f) /\ segment \in Nat

LEMMA SwitchTurn ==
    ASSUME NEW f, FrameOK(f), f.kind = "switch", f.next <= f.count, NEW place \in {"segment", "empty"}, place = "empty" => f.next = f.count,
           NEW f2, f2 = [f EXCEPT !.next = @ + 1, !.place = place], NEW segment, segment = f.first + f.next - 1
    PROVE  SwitchTurned(f, place, f2, segment)
<1>1. /\ f \in SwitchFrame /\ f.header \in Nat \ {0} /\ f.first \in Nat /\ f.count \in Nat /\ f.next \in Nat /\ f.merge \in Nat
      /\ f.lastEmpty \in BOOLEAN /\ f.header < f.first /\ f.merge = f.first + f.count /\ f.next \in 1 .. f.count + 1
      /\ Names(f) = {f.header, f.merge} \cup (f.first .. (f.first + f.count - 1))
      /\ Header(f) = f.header /\ First(f) = f.first /\ Cont(f) = 0
  BY SwitchFacts
<1>2. f2 = [kind |-> f.kind, place |-> place, header |-> f.header, first |-> f.first, count |-> f.count, next |-> f.next + 1,
            lastEmpty |-> f.lastEmpty, merge |-> f.merge]
  BY <1>1 DEF SwitchFrame
<1>3. f2.kind = "switch" /\ f2.place = place /\ f2.header = f.header /\ f2.first = f.first /\ f2.count = f.count
      /\ f2.next = f.next + 1 /\ f2.lastEmpty = f.lastEmpty /\ f2.merge = f.merge
  BY <1>2
<1>4. f2 \in SwitchFrame
  <2>1. f.next + 1 \in Nat \ {0}
    BY <1>1
  <2>. QED  BY <1>1, <1>2, <2>1 DEF SwitchFrame
<1>5. Header(f2) = f.header /\ First(f2) = f.first /\ Cont(f2) = 0
  BY <1>3 DEF Header, First, Cont
<1>6. FrameOK(f2)
  <2>1. /\ f2.next \in 1 .. f2.count + 1 /\ f2.next # 1 /\ f2.place # "head"
        /\ f2.place = "empty" => f2.next = f2.count + 1
        /\ f2.header < f2.first /\ f2.merge = f2.first + f2.count
    BY <1>1, <1>3
  <2>. QED  BY <1>1, <1>3, <1>4, <1>5, <2>1 DEF FrameOK, Frame, IsIf
<1>7. Names(f2) = Names(f)
  <2>1. Names(f2) = {f2.header, f2.merge} \cup (f2.first .. (f2.first + f2.count - 1))
    BY <1>3, <1>6, SwitchFacts
  <2>. QED  BY <1>1, <1>3, <2>1
<1>8. /\ Segments(f2) = Segments(f) \ {segment} /\ segment \in Segments(f) /\ segment # f.merge /\ f.merge \notin Segments(f)
      /\ segment \in Names(f) /\ segment # Header(f) /\ segment >= First(f) /\ segment \in Nat
  <2>1. segment \in Nat /\ segment >= f.first /\ segment <= f.first + f.count - 1
    BY <1>1
  <2>2. Segments(f) = segment .. (f.first + f.count - 1)
    BY DEF Segments
  <2>3. Segments(f2) = segment + 1 .. (f.first + f.count - 1)
    BY <1>1, <1>3 DEF Segments
  <2>. QED  BY <1>1, <2>1, <2>2, <2>3, SMTT(40)
<1>. QED  BY <1>1, <1>3, <1>4, <1>5, <1>6, <1>7, <1>8 DEF Frame, SwitchTurned

Segment(f) == f.first + f.next - 1

\* the code of a step to the next segment
ToSegment(c, bp, c2, f, D, place, bp2) ==
    /\ c2 \in Seq(Seq(Instruction)) /\ Len(c2) <= MaxBlocks
    /\ \A b \in 1 .. Len(c) : b \notin D => c2[b] = c[b]
    /\ D = IF place = "empty" THEN (IF f.place = "head" THEN {Segment(f)} ELSE {bp, Segment(f)})
                              ELSE IF f.place = "head" THEN {} ELSE {bp}
    /\ bp \in D => EndsBy(c, c2, bp, {Segment(f)})
    /\ Segment(f) \in D => EndsBy(c, c2, Segment(f), {f.merge})
    /\ IF place = "empty" THEN bp2 = Len(c) + 1 /\ Len(c2) = bp2 /\ c2[bp2] = <<>> /\ f.next = f.count
                          ELSE bp2 = Segment(f) /\ Len(c2) = Len(c)

SwitchGoesOn(c, ns, bp, c2, f, D, place, bp2, f2) ==
    /\ ns # <<>> /\ f = ns[Len(ns)] /\ f.kind = "switch" /\ f.next <= f.count /\ place \in {"segment", "empty"}
    /\ ToSegment(c, bp, c2, f, D, place, bp2) /\ f2 = [f EXCEPT !.next = @ + 1, !.place = place]

\* nextSwitchSegment keeps the code built
LEMMA SegmentBuilt ==
    ASSUME NEW g, NEW c, NEW ns, NEW bp, Built(g, c, ns, bp), NEW f, NEW place, NEW c2, NEW D, NEW bp2, NEW f2,
           SwitchGoesOn(c, ns, bp, c2, f, D, place, bp2, f2), NEW ns2, ns2 = Append(Front(ns), f2)
    PROVE  \E g2 : Built(g2, c2, ns2, bp2)
<1>0. /\ ns # <<>> /\ f = ns[Len(ns)] /\ f.kind = "switch" /\ f.next <= f.count /\ place \in {"segment", "empty"}
      /\ ToSegment(c, bp, c2, f, D, place, bp2) /\ f2 = [f EXCEPT !.next = @ + 1, !.place = place]
  BY DEF SwitchGoesOn
<1>. USE <1>0
<1>1. g.n = Len(c) /\ g.n \in Nat \ {0} /\ MaxBlocks \in Nat /\ g.n <= MaxBlocks /\ bp \in 1 .. g.n
  BY CodeFacts
<1>2. /\ Len(ns) \in DOMAIN ns /\ FrameOK(f) /\ FrameInv(g, c, f) /\ Names(f) \subseteq 1 .. g.n /\ f \in Frame
      /\ f.place # "head" => \A i \in DOMAIN ns : ns[i].place # "head"
  BY InnerFrame
<1>. DEFINE s == Segment(f)
<1>s. s = f.first + f.next - 1
  BY DEF Segment
<1>. HIDE DEF s
<1>t. /\ c2 \in Seq(Seq(Instruction)) /\ Len(c2) <= MaxBlocks
      /\ \A b \in 1 .. Len(c) : b \notin D => c2[b] = c[b]
      /\ D = IF place = "empty" THEN (IF f.place = "head" THEN {s} ELSE {bp, s}) ELSE IF f.place = "head" THEN {} ELSE {bp}
      /\ bp \in D => EndsBy(c, c2, bp, {s})
      /\ s \in D => EndsBy(c, c2, s, {f.merge})
      /\ place = "empty" => bp2 = g.n + 1 /\ Len(c2) = bp2 /\ c2[bp2] = <<>> /\ f.next = f.count
      /\ place # "empty" => bp2 = s /\ Len(c2) = g.n
  BY <1>1 DEF ToSegment, s
<1>3. /\ Header(f) = f.header /\ First(f) = f.first /\ Cont(f) = 0 /\ ~Terminal(f) /\ f.place \in {"head", "segment", "empty"}
      /\ Await(f) = {f.merge} \cup Segments(f) /\ Entries(f) = Segments(f) /\ f.merge \in Names(f) /\ f.header \in Names(f) /\ First(f) \in Nat
  BY <1>2, SwitchFacts
<1>4. /\ FrameOK(f2) /\ f2 \in Frame /\ f2.kind = "switch" /\ f2.place = place /\ Header(f2) = Header(f) /\ First(f2) = First(f)
      /\ f2.merge = f.merge /\ Cont(f2) = Cont(f) /\ Names(f2) = Names(f)
      /\ Segments(f2) = Segments(f) \ {s} /\ s \in Segments(f) /\ s # f.merge /\ f.merge \notin Segments(f)
      /\ s \in Names(f) /\ s # Header(f) /\ s >= First(f) /\ s \in Nat
  <2>1. SwitchTurned(f, place, f2, s)
    BY <1>2, <1>s, <1>t, SwitchTurn, Zenon
  <2>. QED  BY <2>1 DEF SwitchTurned
<1>5. Await(f2) = {f.merge} \cup Segments(f2) /\ Entries(f2) = Segments(f2) /\ ~Terminal(f2)
  <2>1. Await(f2) = {f2.merge} \cup Segments(f2) /\ Entries(f2) = Segments(f2) /\ ~Terminal(f2)
    BY <1>4, SwitchFacts
  <2>. QED  BY <1>4, <2>1
<1>6. f.header \in 1 .. g.n /\ f.merge \in 1 .. g.n /\ s \in 1 .. g.n /\ f.header # s
  BY <1>2, <1>3, <1>4
<1>7. c[s] = <<>> /\ s \in Await(f) /\ f.merge \in Await(f) /\ f.header \notin Await(f)
  <2>1. s \in Await(f) /\ f.merge \in Await(f)
    BY <1>3, <1>4
  <2>2. Header(f) \notin Await(f)
    BY <1>2, FrameFacts
  <2>. QED  BY <1>2, <1>3, <2>1, <2>2 DEF FrameInv
<1>8. /\ f.place = "head" => bp = f.header
      /\ f.place # "head" => Fresh(c[bp]) /\ bp \notin Await(f) /\ bp # f.header
  <2>1. CASE f.place = "head"
    BY <1>2, <2>1 DEF Built, At
  <2>2. CASE f.place # "head"
    <3>1. Fresh(c[bp]) /\ Point(g, f, bp) /\ bp \notin Headers(ns)
      BY <1>2, <2>2, BuildPlace
    <3>2. f.header \in Headers(ns)
      BY <1>2, <1>3 DEF Headers
    <3>. QED  BY <2>2, <3>1, <3>2 DEF Point
  <2>. QED  BY <2>1, <2>2
<1>9. bp # s /\ (f.place = "head" => bp \notin D) /\ (f.place # "head" => bp \in D) /\ (s \in D <=> place = "empty") /\ D \subseteq {bp, s} /\ f.header \notin D
  <2>1. bp # s
    BY <1>6, <1>7, <1>8
  <2>. QED  BY <1>6, <1>8, <1>t, <2>1
<1>10. D \subseteq 1 .. g.n
  BY <1>1, <1>6, <1>9
<1>11. ASSUME NEW d \in D
       PROVE  /\ EndsBy(c, c2, d, SuccOf(c2[d])) /\ WellFormed(c2[d]) /\ Fresh(c[d])
              /\ (d = bp /\ SuccOf(c2[d]) = {s} /\ f.place # "head") \/ (d = s /\ SuccOf(c2[d]) = {f.merge})
  <2>1. CASE d = bp
    BY <1>8, <1>9, <1>t, <2>1 DEF EndsBy
  <2>2. CASE d = s
    BY <1>7, <1>t, <2>2, EmptyBlock DEF EndsBy
  <2>. QED  BY <1>9, <2>1, <2>2
<1>12. CodeChanges(g, c, c2, D)
  <2>1. g.n <= Len(c2) /\ \A b \in 1 .. Len(c2) : b > g.n => c2[b] = <<>>
    BY <1>1, <1>t, SMTT(40)
  <2>2. \A d \in D : SuccOf(c2[d]) \subseteq 1 .. Len(c2)
    <3>1. \A d \in D : SuccOf(c2[d]) = {s} \/ SuccOf(c2[d]) = {f.merge}
      BY <1>11
    <3>2. s \in 1 .. Len(c2) /\ f.merge \in 1 .. Len(c2)
      <4>1. Len(c2) \in Nat
        BY <1>t
      <4>. QED  BY <1>1, <1>6, <2>1, <4>1
    <3>. QED  BY <3>1, <3>2
  <2>. QED  BY <1>1, <1>11, <1>t, <2>1, <2>2 DEF CodeChanges
<1>g. ASSUME NEW k0, k0 = 0 PROVE \E g2 : Built(g2, c2, ns2, bp2)
  <2>1. Ending(g, ns, Len(c2), k0)
    BY <1>g DEF Ending
  <2>3. PICK g2 : Stepped(g, c, ns, bp, g2, c2, k0, D)
    BY <1>10, <1>12, <2>1, Steps, Zenon
  <2>4. \A p, b : NewEdge(g, g2, p, b) => (p = bp /\ b = s /\ f.place # "head") \/ (p = s /\ b = f.merge)
    <3>1. \A p, b : NewEdge(g, g2, p, b) => p \in D /\ b \in SuccOf(c2[p])
      BY <2>3 DEF Stepped
    <3>. QED  BY <1>11, <3>1
  <2>5. Advances(g, c, ns, bp, g2, c2, k0) /\ g2.n = Len(c2) /\ g2.n \in Nat /\ g.n <= g2.n /\ \A b \in 1 .. g.n : b \notin D => c2[b] = c[b]
    BY <2>3 DEF Stepped
  <2>6. Grew(g, c, ns, g2, c2, k0)
    BY <2>5 DEF Advances
  <2>7. Shape(g2, ns) /\ Source(g2, ns, s) /\ (f.place # "head" => Source(g2, ns, bp))
    BY <1>2, <1>4, <2>5 DEF Advances, Grew
  <2>8. ASSUME NEW i \in DOMAIN ns, i = Len(ns)
        PROVE  /\ ns[i].merge \in Owned(g2)
               /\ Enters(g2, s, ns[i].merge) /\ Leaves(g2, s, ns[i].merge) /\ Returns(g2, s, ns[i].merge)
               /\ f.place # "head" => bp \in g2.region[f.header]
    <3>1. Header(ns[i]) \in 1 .. g2.n /\ g2.mrg[Header(ns[i])] = ns[i].merge /\ ns[i].merge \in 1 .. g2.n
          /\ g2.region[Header(ns[i])] = Region(g2.n, ns[i])
      BY <2>7, ShapeFacts
    <3>2. \A j \in DOMAIN ns : j > i => ~Terminal(ns[j])
      <4>1. ns \in Seq(Frame)
        BY CodeFacts
      <4>. QED  BY <2>8, <4>1
    <3>3. Enters(g2, s, ns[i].merge) /\ Leaves(g2, s, ns[i].merge) /\ Returns(g2, s, ns[i].merge)
      BY <2>7, <3>2, EdgeToMerge
    <3>4. ASSUME f.place # "head" PROVE bp \in g2.region[f.header]
      <4>1. PlaceIn(g2, ns[i], bp)
        BY <1>3, <1>8, <2>7, <2>8, <3>4 DEF Source
      <4>. QED  BY <1>3, <2>8, <3>1, <4>1 DEF PlaceIn
    <3>. QED  BY <3>1, <3>3, <3>4 DEF Owned
  <2>9. ASSUME f.place # "head"
        PROVE  /\ Enters(g2, bp, s) /\ Leaves(g2, bp, s) /\ Returns(g2, bp, s) /\ ForwardFrom(g2, s, f.header) /\ f.header \in 1 .. g2.n
    <3>1. Unowned(g, s)
      BY <1>2, <1>3, <1>4 DEF FrameInv
    <3>2. Unowned(g2, s)
      BY <1>6, <2>6, <3>1, UnownedStep
    <3>3. s \in Names(f) /\ s \notin {Header(f), f.merge}
      BY <1>4
    <3>4. Enters(g2, bp, s) /\ Leaves(g2, bp, s) /\ Returns(g2, bp, s)
      BY <1>3, <2>7, <2>9, <3>2, <3>3, EdgeToEntry
    <3>5. bp \in g2.region[f.header]
      BY <1>2, <2>8, <2>9
    <3>6. s \in g2.succ[f.header]
      <4>1. s \in g.succ[f.header]
        BY <1>2, <1>4 DEF FrameInv
      <4>2. g.succ[f.header] = SuccOf(c[f.header])
        BY <1>6, CodeFacts, SMTT(40)
      <4>3. g2.succ[f.header] = SuccOf(c2[f.header])
        BY <1>1, <1>6, <2>5, <2>6 DEF Grew
      <4>. QED  BY <1>6, <1>9, <2>5, <4>1, <4>2, <4>3
    <3>7. ASSUME NEW p \in 1 .. g2.n, s \in g2.succ[p] PROVE p = f.header \/ p = bp
      <4>1. CASE NewEdge(g, g2, p, s)
        BY <1>4, <2>4, <4>1
      <4>2. CASE OldEdge(g, p, s)
        <5>1. p \in 1 .. g.n /\ s \in g.succ[p]
          BY <1>1, <4>2 DEF OldEdge
        <5>. QED  BY <1>2, <1>3, <1>4, <5>1 DEF FrameInv
      <4>. QED  BY <3>7, <4>1, <4>2 DEF NewEdge
    <3>8. f.header \in 1 .. g2.n
      BY <1>1, <1>6, <2>5
    <3>. QED  BY <3>4, <3>5, <3>6, <3>7, <3>8 DEF ForwardFrom
  <2>11. EdgeOK(g, g2)
    <3>1. f.merge \in Owned(g2) /\ Enters(g2, s, f.merge) /\ Leaves(g2, s, f.merge) /\ Returns(g2, s, f.merge)
      BY <1>2, <2>8
    <3>. QED  BY <2>4, <2>9, <3>1 DEF EdgeOK
  <2>12. k0 # Header(f)
    BY <1>3, <1>6, <1>g
  <2>13. Turns(g, g2, k0, f, f2)
    BY <1>3, <1>4, <1>5, <2>12 DEF Turns
  <2>14. Point(g2, f2, bp2) /\ bp2 \notin D /\ (bp2 \in g.n + 1 .. g2.n \/ bp2 \in Await(f)) /\ \A b \in g.n + 1 .. g2.n : b = bp2
    <3>1. CASE place = "empty"
      <4>1. bp2 = g.n + 1 /\ g2.n = bp2
        BY <1>t, <2>5, <3>1
      <4>2. bp2 \in First(f2) .. g2.n /\ \A b \in 1 .. g.n : b # bp2
        BY <1>1, <1>3, <1>4, <1>6, <4>1
      <4>3. bp2 # f2.merge /\ bp2 \notin Await(f2)
        <5>1. Await(f2) \subseteq Names(f2)
          BY <1>4, FrameFacts
        <5>. QED  BY <1>2, <1>4, <1>6, <4>2, <5>1
      <4>. QED  BY <1>1, <1>5, <1>10, <4>1, <4>2, <4>3 DEF Point, Region
    <3>2. CASE place # "empty"
      <4>1. bp2 = s /\ g2.n = g.n
        BY <1>t, <2>5, <3>2
      <4>2. s \in First(f2) .. g2.n
        BY <1>1, <1>3, <1>4, <1>6, <4>1
      <4>3. s # f2.merge /\ s \notin Await(f2)
        BY <1>4, <1>5
      <4>. QED  BY <1>1, <1>5, <1>7, <1>9, <3>2, <4>1, <4>2, <4>3 DEF Point, Region
    <3>. QED  BY <3>1, <3>2
  <2>15. TurnsBy(g, c, ns, bp, g2, c2, k0, D, f, f2, ns2, bp2)
    <3>1. \A d \in D : EndsBy(c, c2, d, SuccOf(c2[d])) /\ SuccOf(c2[d]) \subseteq Await(f) /\ SuccOf(c2[d]) \cap Entries(f2) = {}
      <4>1. \A d \in D : EndsBy(c, c2, d, SuccOf(c2[d])) /\ (SuccOf(c2[d]) = {s} \/ SuccOf(c2[d]) = {f.merge})
        BY <1>11
      <4>2. s \in Await(f) /\ f.merge \in Await(f) /\ s \notin Entries(f2) /\ f.merge \notin Entries(f2)
        BY <1>4, <1>5, <1>7
      <4>3. \A T : T = {s} \/ T = {f.merge} => T \subseteq Await(f) /\ T \cap Entries(f2) = {}
        BY <4>2, Zenon
      <4>. QED  BY <4>1, <4>3, Zenon
    <3>2. D \subseteq {bp} \cup Await(f) /\ (bp \in D \/ f.place = "head") /\ (f.place = "head" => bp \notin D)
      BY <1>7, <1>9
    <3>3. f2.kind # "and" /\ f2.place # "head"
      BY <1>4
    <3>4. s = bp2 \/ s \in D
      BY <1>9, <1>t
    <3>5. Await(f) \subseteq Await(f2) \cup {bp2} \cup D
      BY <1>3, <1>4, <1>5, <3>4
    <3>6. D \cap Await(f2) = {}
      BY <1>3, <1>4, <1>5, <1>8, <1>9
    <3>. QED  BY <1>4, <1>g, <2>3, <2>11, <2>13, <2>14, <3>1, <3>2, <3>3, <3>5, <3>6 DEF TurnsBy
  <2>. QED  BY <2>15, TurnedBy, Zenon
<1>. QED  BY <1>g
=============================================================================
