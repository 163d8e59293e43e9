-------------------------- MODULE PpExpansionProofs --------------------------
(***************************************************************************)
(* Macro expansion does what C defines, for any macros and any source.     *)
(* First, the definition: the equation of Expansion has a solution for     *)
(* every table, as no text gives way to others for ever.  Then the         *)
(* preprocessor: what it has put out, and the expansion of what its inputs *)
(* still hold above the call it looks at, are at every step the expansion  *)
(* of the source; and so for every argument that is scanned.               *)
(***************************************************************************)
EXTENDS PpMacrosProofs, WellFoundedInduction

\* a set of naturals that is not empty has a least member
LEMMA Least ==
    ASSUME NEW S, S \subseteq Nat, S # {}
    PROVE  \E m \in S : \A k \in S : m <= k
<1>1. PICK m \in S : \A k \in S : ~(<<k, m>> \in OpToRel(<, Nat))
  BY NatLessThanWellFounded, WFMin, Zenon
<1>2. ASSUME NEW k \in S PROVE ~(k < m)
  <2>1. <<k, m>> \in Nat \X Nat
    OBVIOUS
  <2>2. ASSUME k < m PROVE <<k, m>> \in OpToRel(<, Nat)
    BY <2>1, <2>2, Zenon DEF OpToRel
  <2>. QED  BY <1>1, <2>2, Zenon
<1>. QED  BY <1>2

-----------------------------------------------------------------------------
\* Texts

LEMMA Members ==
    ASSUME NEW a \in Text
    PROVE  /\ Len(a) \in Nat /\ DOMAIN a = 1 .. Len(a) /\ <<>> \in Text /\ (Len(a) = 0 <=> a = <<>>)
           /\ \A i \in 1 .. Len(a) : a[i] \in [atom : STRING, hide : SUBSET STRING]
BY LenProperties, EmptySeq DEF Text

LEMMA SameText ==
    ASSUME NEW a \in Text, NEW b \in Text, Len(a) = Len(b), \A i \in 1 .. Len(a) : a[i] = b[i]
    PROVE  a = b
BY SeqEqual DEF Text

LEMMA PartText ==
    ASSUME NEW s \in Text, NEW m \in Nat \ {0}, NEW n \in Nat, n <= Len(s)
    PROVE  /\ SubSeq(s, m, n) \in Text
           /\ Len(SubSeq(s, m, n)) = IF m <= n THEN n - m + 1 ELSE 0
           /\ \A i \in 1 .. n - m + 1 : SubSeq(s, m, n)[i] = s[m + i - 1]
<1>1. \A i \in m .. n : s[i] \in [atom : STRING, hide : SUBSET STRING]
  BY Members
<1>. QED  BY <1>1, SubSeqProperties DEF Text

(* Concatenation, of which the lemmas below use what the next three say and *)
(* nothing else.                                                            *)
a ++ b == a \o b

LEMMA Joins ==
    ASSUME NEW a \in Text, NEW b \in Text
    PROVE  /\ a ++ b \in Text /\ <<>> \in Text /\ a ++ <<>> = a /\ <<>> ++ a = a
           /\ Len(a) \in Nat /\ Len(a ++ b) = Len(a) + Len(b) /\ (Len(a) = 0 <=> a = <<>>)
           /\ a ++ b = <<>> => a = <<>> /\ b = <<>>
<1>1. a \o b \in Text /\ Len(a \o b) = Len(a) + Len(b)
  BY DEF Text
<1>2. a \o <<>> = a /\ <<>> \o a = a
  BY ConcatEmptySeq DEF Text
<1>3. a \o b = <<>> => a = <<>> /\ b = <<>>
  BY ConcatSimplifications DEF Text
<1>. QED  BY <1>1, <1>2, <1>3, Members DEF ++

LEMMA JoinsRegroup ==
    ASSUME NEW a \in Text, NEW b \in Text, NEW c \in Text
    PROVE  (a ++ b) ++ c = a ++ (b ++ c)
<1>1. (a \o b) \o c = a \o (b \o c)
  BY ConcatAssociative DEF Text
<1>. QED  BY <1>1 DEF ++

LEMMA JoinMembers ==
    ASSUME NEW a \in Text, NEW b \in Text
    PROVE  /\ \A i \in 1 .. Len(a) : (a ++ b)[i] = a[i]
           /\ \A i \in 1 .. Len(b) : (a ++ b)[Len(a) + i] = b[i]
<1>. DEFINE Tok == [atom : STRING, hide : SUBSET STRING]
<1>1. a \in Seq(Tok) /\ b \in Seq(Tok)
  BY DEF Text
<1>. HIDE DEF Tok
<1>2. /\ Len(a) \in Nat /\ Len(b) \in Nat
      /\ \A i \in 1 .. Len(a) + Len(b) : (a \o b)[i] = IF i <= Len(a) THEN a[i] ELSE b[i - Len(a)]
  BY <1>1, ConcatProperties, LenProperties
<1>3. \A i \in 1 .. Len(b) : (a \o b)[Len(a) + i] = b[i]
  BY <1>2
<1>4. \A i \in 1 .. Len(a) : (a \o b)[i] = a[i]
  BY <1>2
<1>. QED  BY <1>3, <1>4 DEF ++

\* Of two ways to cut a text in two, one has the shorter first part.
LEMMA CutTwice ==
    ASSUME NEW a \in Text, NEW b \in Text, NEW c \in Text, NEW d \in Text,
           a ++ b = c ++ d, Len(a) <= Len(c)
    PROVE  \E e \in Text : c = a ++ e /\ b = e ++ d
<1>. DEFINE e == SubSeq(c, Len(a) + 1, Len(c))
<1>0. Len(a) \in Nat /\ Len(b) \in Nat /\ Len(c) \in Nat /\ Len(d) \in Nat /\ Len(a) + Len(b) = Len(c) + Len(d)
  <2>1. Len(a) \in Nat /\ Len(b) \in Nat /\ Len(c) \in Nat /\ Len(d) \in Nat
    BY Members
  <2>2. Len(a ++ b) = Len(a) + Len(b) /\ Len(c ++ d) = Len(c) + Len(d)
    BY Joins, Zenon
  <2>. QED  BY <2>1, <2>2
<1>1. e \in Text /\ Len(e) = Len(c) - Len(a) /\ \A i \in 1 .. Len(e) : e[i] = c[Len(a) + i]
  BY <1>0, PartText
<1>. HIDE DEF e
<1>2. a ++ e \in Text /\ Len(a ++ e) = Len(c) /\ e ++ d \in Text /\ Len(e ++ d) = Len(b)
  <2>1. a ++ e \in Text /\ Len(a ++ e) = Len(a) + Len(e)
    BY <1>1, Joins, Zenon
  <2>2. e ++ d \in Text /\ Len(e ++ d) = Len(e) + Len(d)
    BY <1>1, Joins, Zenon
  <2>. QED  BY <1>0, <1>1, <2>1, <2>2
<1>3. c = a ++ e
  <2>1. ASSUME NEW i \in 1 .. Len(c) PROVE (a ++ e)[i] = c[i]
    <3>1. CASE i <= Len(a)
      <4>0. i \in 1 .. Len(a)
        BY <1>0, <3>1
      <4>1. (a ++ e)[i] = a[i] /\ (a ++ b)[i] = a[i]
        BY <1>1, <4>0, JoinMembers, Zenon
      <4>2. (c ++ d)[i] = c[i]
        BY JoinMembers
      <4>. QED  BY <4>1, <4>2
    <3>2. CASE ~(i <= Len(a))
      <4>1. i - Len(a) \in 1 .. Len(e) /\ Len(a) + (i - Len(a)) = i
        BY <1>0, <1>1, <3>2
      <4>2. (a ++ e)[Len(a) + (i - Len(a))] = e[i - Len(a)]
        BY <1>1, <4>1, JoinMembers
      <4>. QED  BY <1>1, <4>1, <4>2
    <3>. QED  BY <3>1, <3>2
  <2>. QED  BY <1>2, <2>1, SameText
<1>4. a ++ b = a ++ (e ++ d)
  BY <1>1, <1>3, JoinsRegroup
<1>5. b = e ++ d
  <2>1. ASSUME NEW i \in 1 .. Len(b) PROVE b[i] = (e ++ d)[i]
    <3>1. (a ++ b)[Len(a) + i] = b[i]
      BY JoinMembers
    <3>2. i \in 1 .. Len(e ++ d) /\ e ++ d \in Text
      BY <1>2
    <3>3. (a ++ (e ++ d))[Len(a) + i] = (e ++ d)[i]
      BY <3>2, JoinMembers
    <3>. QED  BY <1>4, <3>1, <3>3
  <2>. QED  BY <1>2, <2>1, SameText
<1>. QED  BY <1>1, <1>3, <1>5

\* every token may not be expanded by the macros of names
Carry(w, names) == \A i \in 1 .. Len(w) : names \subseteq w[i].hide

LEMMA Carried ==
    ASSUME NEW a \in Text, NEW b \in Text, NEW names
    PROVE  (Carry(a ++ b, names) <=> Carry(a, names) /\ Carry(b, names)) /\ Carry(<<>>, names)
<1>1. /\ Len(a) \in Nat /\ Len(b) \in Nat /\ Len(a ++ b) = Len(a) + Len(b)
      /\ \A i \in 1 .. Len(a) : (a ++ b)[i] = a[i]
      /\ \A i \in 1 .. Len(b) : (a ++ b)[Len(a) + i] = b[i]
  BY Joins, JoinMembers
<1>2. ASSUME Carry(a ++ b, names) PROVE Carry(a, names) /\ Carry(b, names)
  <2>1. \A i \in 1 .. Len(a) : i \in 1 .. Len(a ++ b) /\ (a ++ b)[i] = a[i]
    BY <1>1
  <2>2. \A i \in 1 .. Len(b) : Len(a) + i \in 1 .. Len(a ++ b) /\ (a ++ b)[Len(a) + i] = b[i]
    BY <1>1
  <2>. QED  BY <1>2, <2>1, <2>2 DEF Carry
<1>3. ASSUME Carry(a, names), Carry(b, names) PROVE Carry(a ++ b, names)
  <2>1. SUFFICES ASSUME NEW i \in 1 .. Len(a) + Len(b) PROVE names \subseteq (a ++ b)[i].hide
    BY <1>1 DEF Carry
  <2>2. CASE i <= Len(a)
    BY <1>1, <1>3, <2>2 DEF Carry
  <2>3. CASE ~(i <= Len(a))
    <3>1. i - Len(a) \in 1 .. Len(b) /\ Len(a) + (i - Len(a)) = i
      BY <1>1, <2>3
    <3>. QED  BY <1>1, <1>3, <2>3, <3>1 DEF Carry
  <2>. QED  BY <2>2, <2>3
<1>4. Carry(<<>>, names)
  BY DEF Carry
<1>. QED  BY <1>2, <1>3, <1>4

-----------------------------------------------------------------------------
\* Expansion ends

(* What the expansion of s asks the expansion of: a part that follows its   *)
(* first token, or what stands in place of a call and what follows the call.*)
PartOf(k, s) == \E a \in Text, b \in Text : a # <<>> /\ s = a ++ (k ++ b)
InPlaceOf(names, w, a) ==
    a # <<>> /\ \E f \in names \ a[1].hide : Carry(w, (a[1].hide \cap a[Len(a)].hide) \cup {f})
AfterCall(names, k, s) == \E w \in Text, a \in Text, b \in Text : s = a ++ b /\ k = w ++ b /\ InPlaceOf(names, w, a)
Asks(names) == {p \in Text \X Text : PartOf(p[1], p[2]) \/ AfterCall(names, p[1], p[2])}

\* the tokens of w all come out of one macro more than the ones of names
OneDeeper(names, w, C) == w = <<>> \/ \E f \in names \ C : Carry(w, C \cup {f})

(* In texts each of which asks another one, w and r give way to v and a     *)
(* shorter end of r, v having what hides both w and the part of r it has.   *)
Dominates(names, w, p, v) ==
    \A C \in SUBSET names :
        /\ Carry(w, C) /\ Carry(p, C) => Carry(v, C)
        /\ OneDeeper(names, w, C) /\ Carry(p, C) => OneDeeper(names, v, C)
GivesWay(names, texts, w, r) ==
    \E v \in Text, p \in Text, e \in Text, q \in Text :
        /\ r = p ++ (e ++ q) /\ p ++ q # <<>>
        /\ v ++ e \in texts
        /\ Dominates(names, w, p, v)

Covers(names, w, v) == \A C \in SUBSET names :
    (Carry(w, C) => Carry(v, C)) /\ (OneDeeper(names, w, C) => OneDeeper(names, v, C))

LEMMA DeeperParts ==
    ASSUME NEW names, NEW C, NEW a \in Text, NEW b \in Text, OneDeeper(names, a ++ b, C)
    PROVE  OneDeeper(names, a, C) /\ Carry(a, C) /\ Carry(b, C)
<1>1. CASE a ++ b = <<>>
  <2>1. a = <<>> /\ b = <<>>
    BY <1>1, Joins
  <2>. QED  BY <2>1, Carried DEF OneDeeper
<1>2. CASE a ++ b # <<>>
  <2>1. PICK f \in names \ C : Carry(a ++ b, C \cup {f})
    BY <1>2 DEF OneDeeper
  <2>2. Carry(a, C \cup {f}) /\ Carry(b, C \cup {f})
    BY <2>1, Carried
  <2>. QED  BY <2>2 DEF Carry, OneDeeper
<1>. QED  BY <1>1, <1>2

\* Covering a part of a text, and the rest of it by itself.
LEMMA CoversRest ==
    ASSUME NEW names, NEW w \in Text, NEW p \in Text, NEW v \in Text, NEW e \in Text,
           Dominates(names, w, p, v)
    PROVE  Covers(names, w ++ (p ++ e), v ++ e)
<1>1. p ++ e \in Text /\ w ++ (p ++ e) \in Text /\ v ++ e \in Text
  BY Joins
<1>2. ASSUME NEW C \in SUBSET names, Carry(w ++ (p ++ e), C) PROVE Carry(v ++ e, C)
  <2>1. Carry(w, C) /\ Carry(p ++ e, C)
    BY <1>1, <1>2, Carried
  <2>2. Carry(p, C) /\ Carry(e, C)
    BY <2>1, Carried
  <2>3. Carry(v, C)
    BY <2>1, <2>2 DEF Dominates
  <2>. QED  BY <2>2, <2>3, Carried
<1>3. ASSUME NEW C \in SUBSET names, OneDeeper(names, w ++ (p ++ e), C) PROVE OneDeeper(names, v ++ e, C)
  <2>1. CASE w ++ (p ++ e) = <<>>
    <3>1. w = <<>> /\ p ++ e = <<>>
      BY <1>1, <2>1, Joins
    <3>2. p = <<>> /\ e = <<>>
      BY <3>1, Joins
    <3>3. OneDeeper(names, w, C) /\ Carry(p, C)
      BY <3>1, <3>2, Carried DEF OneDeeper
    <3>4. v ++ e = v
      BY <3>2, Joins
    <3>. QED  BY <3>3, <3>4 DEF Dominates
  <2>2. CASE w ++ (p ++ e) # <<>>
    <3>1. PICK f \in names \ C : Carry(w ++ (p ++ e), C \cup {f})
      BY <1>3, <2>2 DEF OneDeeper
    <3>2. C \cup {f} \in SUBSET names
      OBVIOUS
    <3>3. Carry(v ++ e, C \cup {f})
      BY <1>2, <3>1, <3>2
    <3>. QED  BY <3>3 DEF OneDeeper
  <2>. QED  BY <2>1, <2>2
<1>. QED  BY <1>2, <1>3 DEF Covers

LEMMA GivesWayCovered ==
    ASSUME NEW names, NEW texts, NEW w \in Text, NEW v \in Text, NEW r \in Text, NEW q \in Text,
           Covers(names, w, v), GivesWay(names, texts, v, r)
    PROVE  GivesWay(names, texts, w, r ++ q)
<1>1. PICK v1 \in Text, p1 \in Text, e1 \in Text, q1 \in Text :
        r = p1 ++ (e1 ++ q1) /\ p1 ++ q1 # <<>> /\ v1 ++ e1 \in texts /\ Dominates(names, v, p1, v1)
  BY DEF GivesWay
<1>2. q1 ++ q \in Text /\ e1 ++ q1 \in Text
  BY Joins
<1>3. r ++ q = p1 ++ (e1 ++ (q1 ++ q))
  <2>1. r ++ q = p1 ++ ((e1 ++ q1) ++ q)
    BY <1>1, <1>2, JoinsRegroup
  <2>2. (e1 ++ q1) ++ q = e1 ++ (q1 ++ q)
    BY <1>1, JoinsRegroup
  <2>. QED  BY <2>1, <2>2
<1>4. p1 ++ (q1 ++ q) # <<>>
  BY <1>1, <1>2, Joins
<1>5. Dominates(names, w, p1, v1)
  BY <1>1 DEF Dominates, Covers
<1>. QED  BY <1>1, <1>2, <1>3, <1>4, <1>5 DEF GivesWay

LEMMA NothingGivesWay ==
    ASSUME NEW names, NEW texts, NEW w \in Text
    PROVE  ~GivesWay(names, texts, w, <<>>)
<1>1. SUFFICES ASSUME NEW p \in Text, NEW e \in Text, NEW q \in Text, <<>> = p ++ (e ++ q), p ++ q # <<>>
               PROVE FALSE
  BY DEF GivesWay
<1>2. p = <<>> /\ e ++ q = <<>>
  BY <1>1, Joins
<1>3. q = <<>>
  BY <1>2, Joins
<1>. QED  BY <1>1, <1>2, <1>3, Joins

\* An expansion that asks for another one gives way to it, its text being at the front.
LEMMA AskingGivesWay ==
    ASSUME NEW names, NEW texts, NEW s \in Text, NEW k \in texts, <<k, s>> \in Asks(names)
    PROVE  GivesWay(names, texts, <<>>, s)
<1>1. CASE PartOf(k, s)
  <2>1. PICK a \in Text, b \in Text : a # <<>> /\ s = a ++ (k ++ b)
    BY <1>1 DEF PartOf
  <2>2. k \in Text /\ <<>> \in Text /\ <<>> ++ k = k /\ a ++ b # <<>>
    BY <2>1, Joins DEF Asks
  <2>3. Dominates(names, <<>>, a, <<>>)
    BY DEF Dominates, OneDeeper
  <2>. QED  BY <2>1, <2>2, <2>3 DEF GivesWay
<1>2. CASE AfterCall(names, k, s)
  <2>1. PICK w \in Text, a \in Text, b \in Text : s = a ++ b /\ k = w ++ b /\ InPlaceOf(names, w, a)
    BY <1>2 DEF AfterCall
  <2>2. <<>> \in Text /\ b ++ <<>> = b /\ a ++ <<>> = a /\ a # <<>>
    BY <2>1, Joins DEF InPlaceOf
  <2>3. PICK f \in names \ a[1].hide : Carry(w, (a[1].hide \cap a[Len(a)].hide) \cup {f})
    BY <2>1 DEF InPlaceOf
  <2>4. ASSUME NEW C \in SUBSET names, Carry(a, C)
        PROVE  Carry(w, C) /\ OneDeeper(names, w, C)
    <3>1. Len(a) \in Nat /\ Len(a) # 0
      BY <2>2, Joins
    <3>2. C \subseteq a[1].hide /\ C \subseteq a[Len(a)].hide
      BY <2>4, <3>1 DEF Carry
    <3>3. C \cup {f} \subseteq (a[1].hide \cap a[Len(a)].hide) \cup {f} /\ f \in names \ C
      BY <3>2
    <3>4. Carry(w, C \cup {f})
      BY <2>3, <3>3 DEF Carry
    <3>. QED  BY <3>3, <3>4 DEF Carry, OneDeeper
  <2>5. Dominates(names, <<>>, a, w)
    BY <2>4 DEF Dominates
  <2>. QED  BY <2>1, <2>2, <2>5 DEF GivesWay
<1>. QED  BY <1>1, <1>2 DEF Asks

(* What gives way to the part x of x ++ r as well may be asked of x and a   *)
(* shorter one.                                                             *)
LEMMA Absorbed ==
    ASSUME NEW names, NEW texts, texts \subseteq Text, NEW C \in SUBSET names,
           NEW w \in Text, NEW x \in Text, NEW r \in Text,
           OneDeeper(names, w, C), Carry(x, C), GivesWay(names, texts, w, x ++ r),
           \A u \in Text, y \in Text, t \in Text :
               Len(y) < Len(x) /\ OneDeeper(names, u, C) /\ Carry(y, C) /\ (u ++ y) ++ t \in texts
                   => GivesWay(names, texts, u ++ y, t)
    PROVE  GivesWay(names, texts, w ++ x, r)
<1>1. PICK v \in Text, p \in Text, e \in Text, q \in Text :
        /\ x ++ r = p ++ (e ++ q) /\ p ++ q # <<>>
        /\ v ++ e \in texts
        /\ Dominates(names, w, p, v)
  BY DEF GivesWay
<1>2. /\ <<>> \in Text /\ w ++ x \in Text /\ v ++ e \in Text /\ e ++ q \in Text /\ Len(x) \in Nat /\ Len(p) \in Nat
      /\ Len(e) \in Nat
  BY Joins
<1>3. CASE Len(x) < Len(p)
  <2>1. PICK d \in Text : p = x ++ d /\ r = d ++ (e ++ q)
    <3>1. Len(x) <= Len(p)
      BY <1>2, <1>3
    <3>. QED  BY <1>1, <1>2, <3>1, CutTwice
  <2>2. d # <<>>
    BY <1>3, <2>1, Joins
  <2>3. d ++ q # <<>>
    BY <2>2, Joins
  <2>4. ASSUME NEW D \in SUBSET names, Carry(d, D)
        PROVE  /\ Carry(w ++ x, D) => Carry(v, D)
               /\ OneDeeper(names, w ++ x, D) => OneDeeper(names, v, D)
    <3>1. Carry(w ++ x, D) => Carry(w, D) /\ Carry(p, D)
      BY <2>1, <2>4, Carried
    <3>2. OneDeeper(names, w ++ x, D) => OneDeeper(names, w, D) /\ Carry(p, D)
      BY <2>1, <2>4, Carried, DeeperParts
    <3>. QED  BY <1>1, <3>1, <3>2 DEF Dominates
  <2>5. Dominates(names, w ++ x, d, v)
    BY <2>4 DEF Dominates
  <2>. QED  BY <1>1, <2>1, <2>3, <2>5 DEF GivesWay
<1>4. CASE Len(p) <= Len(x)
  <2>1. PICK d \in Text : x = p ++ d /\ e ++ q = d ++ r
    BY <1>1, <1>2, <1>4, CutTwice
  <2>2. Len(x) = Len(p) + Len(d) /\ Len(d) \in Nat /\ (Len(p) = 0 <=> p = <<>>) /\ v ++ d \in Text
    BY <2>1, Joins
  <2>3. Carry(p, C) /\ Carry(d, C)
    BY <2>1, Carried
  <2>4. OneDeeper(names, v, C)
    BY <1>1, <2>3 DEF Dominates
  <2>5. Covers(names, w ++ x, v ++ d)
    BY <1>1, <2>1, CoversRest
  <2>6. ASSUME NEW t \in Text, p = <<>>, e = d ++ t, r = t ++ q
        PROVE  GivesWay(names, texts, w ++ x, r)
    <3>1. <<>> ++ q # <<>> /\ r = <<>> ++ (t ++ q)
      BY <1>1, <1>2, <2>6, Joins
    <3>2. (v ++ d) ++ t \in texts
      BY <1>1, <2>1, <2>6, JoinsRegroup
    <3>3. Dominates(names, w ++ x, <<>>, v ++ d)
      BY <2>5 DEF Covers, Dominates
    <3>. QED  BY <1>1, <1>2, <2>2, <3>1, <3>2, <3>3 DEF GivesWay
  <2>7. CASE Len(d) <= Len(e)
    <3>1. PICK t \in Text : e = d ++ t /\ r = t ++ q
      BY <1>1, <2>1, <2>7, CutTwice
    <3>2. CASE p = <<>>
      BY <2>6, <3>1, <3>2
    <3>3. CASE p # <<>>
      <4>1. Len(d) < Len(x)
        BY <1>2, <2>2, <3>3
      <4>2. (v ++ d) ++ t \in texts
        BY <1>1, <2>1, <3>1, JoinsRegroup
      <4>3. GivesWay(names, texts, v ++ d, t)
        BY <2>3, <2>4, <4>1, <4>2
      <4>. QED  BY <1>2, <2>2, <2>5, <3>1, <4>3, GivesWayCovered
    <3>. QED  BY <3>2, <3>3
  <2>8. CASE Len(e) < Len(d)
    <3>1. PICK t \in Text : d = e ++ t /\ q = t ++ r
      <4>1. Len(e) <= Len(d)
        BY <1>2, <2>2, <2>8
      <4>. QED  BY <1>1, <2>1, <4>1, CutTwice
    <3>2. Len(e) < Len(x)
      BY <1>2, <2>2, <2>8
    <3>3. Carry(e, C)
      BY <2>3, <3>1, Carried
    <3>4. (v ++ e) ++ <<>> \in texts
      BY <1>1, <1>2, Joins
    <3>5. GivesWay(names, texts, v ++ e, <<>>)
      BY <1>2, <2>4, <3>2, <3>3, <3>4
    <3>. QED  BY <1>2, <3>5, NothingGivesWay
  <2>. QED  BY <1>2, <2>2, <2>7, <2>8
<1>. QED  BY <1>2, <1>3, <1>4

\* In texts each of which asks another one, what is hidden by C gives way.
Yields(names, texts, C) ==
    \A w \in Text : \A r \in Text : Carry(w, C) /\ w ++ r \in texts => GivesWay(names, texts, w, r)
YieldsUpTo(names, texts, C, n) ==
    \A w \in Text : \A x \in Text : \A r \in Text :
        Len(x) = n /\ OneDeeper(names, w, C) /\ Carry(x, C) /\ (w ++ x) ++ r \in texts
            => GivesWay(names, texts, w ++ x, r)

LEMMA YieldsByLength ==
    ASSUME NEW names, NEW texts, texts \subseteq Text,
           \A s \in texts : \E k \in texts : <<k, s>> \in Asks(names),
           NEW C \in SUBSET names, \A f \in names \ C : Yields(names, texts, C \cup {f})
    PROVE  \A n \in Nat : YieldsUpTo(names, texts, C, n)
<1>. DEFINE Bad == {n \in Nat : ~YieldsUpTo(names, texts, C, n)}
<1>1. SUFFICES ASSUME Bad # {} PROVE FALSE
  OBVIOUS
<1>2. PICK n \in Bad : \A k \in Bad : n <= k
  BY <1>1, Least
<1>3. n \in Nat /\ \A k \in Nat : k < n => YieldsUpTo(names, texts, C, k)
  BY <1>2
<1>4. ASSUME NEW w \in Text, NEW x \in Text, NEW r \in Text,
             Len(x) = n, OneDeeper(names, w, C), Carry(x, C), (w ++ x) ++ r \in texts
      PROVE  GivesWay(names, texts, w ++ x, r)
  <2>1. x ++ r \in Text /\ (w ++ x) ++ r = w ++ (x ++ r) /\ <<>> \in Text
    BY Joins, JoinsRegroup
  <2>2. GivesWay(names, texts, w, x ++ r)
    <3>1. CASE w = <<>>
      <4>1. x ++ r \in texts
        BY <1>4, <2>1, <3>1, Joins
      <4>2. PICK k \in texts : <<k, x ++ r>> \in Asks(names)
        BY <4>1
      <4>. QED  BY <2>1, <3>1, <4>2, AskingGivesWay
    <3>2. CASE w # <<>>
      <4>1. PICK f \in names \ C : Carry(w, C \cup {f})
        BY <1>4, <3>2 DEF OneDeeper
      <4>2. Yields(names, texts, C \cup {f})
        BY <4>1
      <4>. QED  BY <1>4, <2>1, <4>1, <4>2 DEF Yields
    <3>. QED  BY <3>1, <3>2
  <2>3. ASSUME NEW u \in Text, NEW y \in Text, NEW t \in Text,
               Len(y) < Len(x), OneDeeper(names, u, C), Carry(y, C), (u ++ y) ++ t \in texts
        PROVE  GivesWay(names, texts, u ++ y, t)
    <3>1. Len(y) \in Nat
      BY Members
    <3>. QED  BY <1>3, <1>4, <2>3, <3>1 DEF YieldsUpTo
  <2>. QED  BY <1>4, <2>2, <2>3, Absorbed
<1>5. YieldsUpTo(names, texts, C, n)
  BY <1>4 DEF YieldsUpTo
<1>. QED  BY <1>2, <1>5

LEMMA AllYield ==
    ASSUME NEW names, IsFiniteSet(names), NEW texts, texts \subseteq Text,
           \A s \in texts : \E k \in texts : <<k, s>> \in Asks(names)
    PROVE  \A C \in SUBSET names : Yields(names, texts, C)
<1>. DEFINE Size(C) == Cardinality(names \ C)
            Bad == {n \in Nat : \E C \in SUBSET names : ~Yields(names, texts, C) /\ Size(C) = n}
<1>1. \A C \in SUBSET names : Size(C) \in Nat
  BY FS_Difference, FS_CardinalityType
<1>2. SUFFICES ASSUME Bad # {} PROVE FALSE
  BY <1>1
<1>3. PICK n \in Bad : \A k \in Bad : n <= k
  BY <1>2, Least
<1>4. PICK C \in SUBSET names : ~Yields(names, texts, C) /\ Size(C) = n
  BY <1>3
<1>5. ASSUME NEW f \in names \ C PROVE Yields(names, texts, C \cup {f})
  <2>1. names \ (C \cup {f}) = (names \ C) \ {f} /\ f \in names \ C /\ C \cup {f} \in SUBSET names
    BY <1>5
  <2>2. IsFiniteSet(names \ C)
    BY FS_Difference
  <2>3. Size(C \cup {f}) = Size(C) - 1
    <3>1. Cardinality((names \ C) \ {f}) = Cardinality(names \ C) - 1
      BY <2>1, <2>2, FS_RemoveElement, Zenon
    <3>. QED  BY <2>1, <3>1, Zenon
  <2>. HIDE DEF Size
  <2>. QED  BY <1>1, <1>3, <1>4, <2>1, <2>3
<1>6. \A m \in Nat : YieldsUpTo(names, texts, C, m)
  BY <1>4, <1>5, YieldsByLength
<1>7. ASSUME NEW w \in Text, NEW r \in Text, Carry(w, C), w ++ r \in texts
      PROVE  GivesWay(names, texts, w, r)
  <2>1. <<>> \in Text /\ <<>> ++ w = w /\ Len(w) \in Nat /\ OneDeeper(names, <<>>, C)
    BY Joins DEF OneDeeper
  <2>2. YieldsUpTo(names, texts, C, Len(w))
    BY <1>6, <2>1
  <2>. QED  BY <1>7, <2>1, <2>2 DEF YieldsUpTo
<1>. QED  BY <1>4, <1>7 DEF Yields

(* Expansion ends: every set of texts has one whose expansion asks for the  *)
(* expansion of none of the others, so no text leads to others for ever,    *)
(* recursive macros included ("no recursive expansions", Pp.cpp:1195).      *)
LEMMA ExpansionEnds ==
    ASSUME NEW names, IsFiniteSet(names), NEW texts, texts \subseteq Text, texts # {}
    PROVE  \E s \in texts : \A k \in texts : <<k, s>> \notin Asks(names)
<1>1. SUFFICES ASSUME \A s \in texts : \E k \in texts : <<k, s>> \in Asks(names)
               PROVE  FALSE
  OBVIOUS
<1>2. PICK s \in texts : TRUE
  OBVIOUS
<1>3. s \in Text /\ <<>> \in Text /\ s ++ <<>> = s /\ Carry(s, {})
  BY <1>2, Joins DEF Carry
<1>4. Yields(names, texts, {})
  BY <1>1, AllYield
<1>. QED  BY <1>2, <1>3, <1>4, NothingGivesWay DEF Yields

-----------------------------------------------------------------------------
\* Texts put together from pieces

\* f holds what the first n texts of ss make, one after the other
Makes(f, ss, n) == f \in [1 .. n -> Text] /\ \A i \in 1 .. n : f[i] = IF i = 1 THEN ss[i] ELSE f[i - 1] ++ ss[i]

LEMMA MakesUpTo ==
    ASSUME NEW ss \in Seq(Text)
    PROVE  \A n \in 1 .. Len(ss) : \E f : Makes(f, ss, n)
<1>. DEFINE Bad == {n \in 1 .. Len(ss) : ~(\E f : Makes(f, ss, n))}
<1>0. Len(ss) \in Nat /\ \A i \in 1 .. Len(ss) : ss[i] \in Text
  OBVIOUS
<1>1. SUFFICES ASSUME Bad # {} PROVE FALSE
  OBVIOUS
<1>2. PICK n \in Bad : \A k \in Bad : n <= k
  <2>1. Bad \subseteq Nat
    OBVIOUS
  <2>. QED  BY <1>1, <2>1, Least, Zenon
<1>3. n \in 1 .. Len(ss) /\ ~(\E f : Makes(f, ss, n))
  BY <1>2
<1>4. CASE n = 1
  <2>. DEFINE f == [i \in 1 .. n |-> ss[1]]
  <2>1. Makes(f, ss, n)
    BY <1>0, <1>3, <1>4 DEF Makes
  <2>. QED  BY <1>3, <2>1
<1>5. CASE n # 1
  <2>1. n - 1 \in 1 .. Len(ss) /\ ~(n <= n - 1) /\ n - 1 \in Nat
    BY <1>0, <1>3, <1>5
  <2>2. n - 1 \notin Bad
    BY <1>2, <2>1, Zenon
  <2>3. PICK f : Makes(f, ss, n - 1)
    BY <2>1, <2>2
  <2>. DEFINE g == [i \in 1 .. n |-> IF i = n THEN f[n - 1] ++ ss[n] ELSE f[i]]
  <2>4. f[n - 1] \in Text /\ ss[n] \in Text
    BY <1>0, <1>3, <2>1, <2>3 DEF Makes
  <2>5. f[n - 1] ++ ss[n] \in Text
    BY <2>4, Joins
  <2>6. \A i \in 1 .. n : i = n \/ i \in 1 .. n - 1
    BY <1>3
  <2>7. g \in [1 .. n -> Text]
    BY <2>3, <2>5, <2>6 DEF Makes
  <2>8. ASSUME NEW i \in 1 .. n PROVE g[i] = IF i = 1 THEN ss[i] ELSE g[i - 1] ++ ss[i]
    <3>1. CASE i = n
      <4>1. i # 1 /\ i - 1 \in 1 .. n /\ i - 1 # n
        BY <1>3, <1>5, <3>1
      <4>. QED  BY <3>1, <4>1
    <3>2. CASE i # n
      <4>1. i \in 1 .. n - 1 /\ (i # 1 => i - 1 \in 1 .. n /\ i - 1 # n)
        BY <1>3, <3>2
      <4>. QED  BY <2>3, <3>2, <4>1 DEF Makes
    <3>. QED  BY <3>1, <3>2
  <2>. HIDE DEF g
  <2>9. Makes(g, ss, n)
    BY <2>7, <2>8 DEF Makes
  <2>. QED  BY <1>3, <2>9
<1>. QED  BY <1>4, <1>5

LEMMA MakesOnce ==
    ASSUME NEW ss \in Seq(Text), NEW f, NEW g, NEW n \in 1 .. Len(ss), Makes(f, ss, n),
           \A i \in 1 .. n : g[i] = IF i = 1 THEN ss[i] ELSE g[i - 1] ++ ss[i]
    PROVE  \A i \in 1 .. n : g[i] = f[i]
<1>. DEFINE Bad == {i \in 1 .. n : g[i] # f[i]}
<1>1. SUFFICES ASSUME Bad # {} PROVE FALSE
  OBVIOUS
<1>2. PICK m \in Bad : \A k \in Bad : m <= k
  <2>1. Bad \subseteq Nat
    OBVIOUS
  <2>. QED  BY <1>1, <2>1, Least, Zenon
<1>3. m \in 1 .. n /\ g[m] # f[m]
  BY <1>2
<1>4. m # 1
  BY <1>3 DEF Makes
<1>5. m - 1 \in 1 .. n /\ ~(m <= m - 1)
  BY <1>3, <1>4
<1>6. g[m - 1] = f[m - 1]
  BY <1>2, <1>5
<1>. QED  BY <1>3, <1>4, <1>6 DEF Makes

LEMMA FlattenMakes ==
    ASSUME NEW ss \in Seq(Text), ss # <<>>
    PROVE  Len(ss) \in 1 .. Len(ss) /\ \E f : Makes(f, ss, Len(ss)) /\ FlattenSeq(ss) = f[Len(ss)]
<1>. DEFINE n == Len(ss)
            Body(f) == [i \in 1 .. n |-> IF i = 1 THEN ss[i] ELSE f[i - 1] \o ss[i]]
            flat == CHOOSE f : f = Body(f)
<1>1. n \in Nat \ {0} /\ n \in 1 .. Len(ss)
  BY EmptySeq
<1>. HIDE DEF n
<1>2. PICK f : Makes(f, ss, n)
  BY <1>1, MakesUpTo
<1>3. f = Body(f)
  BY <1>2 DEF Makes, ++
<1>4. flat = Body(flat)
  <2>. HIDE DEF Body
  <2>. QED  BY <1>3
<1>5. FlattenSeq(ss) = flat[n]
  BY <1>1, Zenon DEF FlattenSeq, n
<1>. HIDE DEF flat
<1>6. \A i \in 1 .. n : flat[i] = IF i = 1 THEN ss[i] ELSE flat[i - 1] ++ ss[i]
  BY <1>4 DEF ++
<1>. HIDE DEF Body
<1>7. flat[n] = f[n]
  <2>1. n \in 1 .. n
    BY <1>1
  <2>. QED  BY <1>1, <1>2, <1>6, <2>1, MakesOnce
<1>. QED  BY <1>1, <1>2, <1>5, <1>7 DEF n

LEMMA FlattenText ==
    ASSUME NEW ss \in Seq(Text)
    PROVE  FlattenSeq(ss) \in Text /\ (ss = <<>> => FlattenSeq(ss) = <<>>)
<1>1. CASE ss = <<>>
  BY <1>1, Members DEF FlattenSeq, Text
<1>2. CASE ss # <<>>
  BY <1>2, FlattenMakes DEF Makes
<1>. QED  BY <1>1, <1>2

(* The first piece comes first.                                             *)
LEMMA FlattenHead ==
    ASSUME NEW ss \in Seq(Text), ss # <<>>
    PROVE  Head(ss) \in Text /\ Tail(ss) \in Seq(Text) /\ FlattenSeq(Tail(ss)) \in Text
           /\ FlattenSeq(ss) = Head(ss) ++ FlattenSeq(Tail(ss))
<1>. DEFINE n == Len(ss)
            rest == Tail(ss)
<1>1. /\ n \in Nat \ {0} /\ Head(ss) = ss[1] /\ ss[1] \in Text
      /\ rest \in Seq(Text) /\ Len(rest) = n - 1 /\ \A i \in 1 .. n - 1 : rest[i] = ss[i + 1]
  BY EmptySeq, HeadTailProperties
<1>. HIDE DEF rest
<1>0. rest = <<>> <=> Len(rest) = 0
  BY <1>1, EmptySeq
<1>2. PICK f : Makes(f, ss, n) /\ FlattenSeq(ss) = f[n]
  BY FlattenMakes
<1>3. CASE n = 1
  <2>1. rest = <<>>
    BY <1>0, <1>1, <1>3
  <2>2. FlattenSeq(rest) = <<>>
    BY <1>1, <2>1, FlattenText
  <2>3. FlattenSeq(ss) = ss[1]
    BY <1>2, <1>3 DEF Makes
  <2>. QED  BY <1>1, <2>2, <2>3, Joins, FlattenText DEF rest
<1>4. CASE n # 1
  <2>0. rest # <<>>
    BY <1>0, <1>1, <1>4
  <2>1. PICK g : Makes(g, rest, n - 1) /\ FlattenSeq(rest) = g[n - 1]
    BY <1>1, <2>0, FlattenMakes
  <2>2. ASSUME NEW i \in 1 .. n - 1
        PROVE  g[i] \in Text /\ g[i] = IF i = 1 THEN ss[2] ELSE g[i - 1] ++ ss[i + 1]
    <3>1. rest[i] = ss[i + 1] /\ (i = 1 => rest[i] = ss[2])
      BY <1>1
    <3>2. g \in [1 .. n - 1 -> Text] /\ g[i] = IF i = 1 THEN rest[i] ELSE g[i - 1] ++ rest[i]
      BY <2>1, Zenon DEF Makes
    <3>3. g[i] \in Text
      BY <3>2
    <3>. QED  BY <3>1, <3>2, <3>3
  <2>. DEFINE h == [i \in 1 .. n |-> IF i = 1 THEN ss[1] ELSE ss[1] ++ g[i - 1]]
  <2>3. ASSUME NEW i \in 1 .. n PROVE h[i] = IF i = 1 THEN ss[i] ELSE h[i - 1] ++ ss[i]
    <3>1. CASE i = 1
      BY <3>1
    <3>2. CASE i = 2
      <4>1. h[2] = ss[1] ++ g[1] /\ h[1] = ss[1]
        BY <1>1, <1>4
      <4>2. 1 \in 1 .. n - 1
        BY <1>1, <1>4
      <4>3. g[1] = ss[2]
        BY <2>2, <4>2
      <4>. HIDE DEF h
      <4>. QED  BY <3>2, <4>1, <4>3
    <3>3. CASE i # 1 /\ i # 2
      <4>1. i - 1 \in 1 .. n - 1 /\ i - 2 \in 1 .. n - 1 /\ i - 1 \in 1 .. n /\ i - 1 # 1 /\ (i - 1) - 1 = i - 2 /\ (i - 1) + 1 = i
        BY <1>1, <3>3
      <4>2. h[i] = ss[1] ++ g[i - 1] /\ h[i - 1] = ss[1] ++ g[i - 2]
        BY <3>3, <4>1
      <4>3. g[i - 1] = g[i - 2] ++ ss[i]
        BY <2>2, <4>1
      <4>4. ss[i] \in Text /\ g[i - 2] \in Text
        BY <2>2, <4>1
      <4>. HIDE DEF h
      <4>. QED  BY <1>1, <3>3, <4>2, <4>3, <4>4, JoinsRegroup
    <3>. QED  BY <3>1, <3>2, <3>3
  <2>. HIDE DEF h
  <2>4. n \in 1 .. n
    BY <1>1
  <2>5. h[n] = f[n]
    BY <1>2, <2>3, <2>4, MakesOnce
  <2>6. h[n] = ss[1] ++ g[n - 1]
    BY <1>4, <2>4 DEF h
  <2>. QED  BY <1>1, <1>2, <2>1, <2>5, <2>6, FlattenText DEF rest
<1>. QED  BY <1>3, <1>4

-----------------------------------------------------------------------------
\* What a macro puts in place of its call

TextToken == [atom : STRING, hide : SUBSET STRING]

\* A text that is not empty is its first token and the rest.
LEMMA First ==
    ASSUME NEW t \in TextToken, NEW r \in Text
    PROVE  /\ <<t>> \in Text /\ Len(<<t>>) = 1 /\ <<t>>[1] = t /\ <<t>> # <<>>
           /\ <<t>> ++ r \in Text /\ <<t>> ++ r # <<>> /\ (<<t>> ++ r)[1] = t
           /\ Head(<<t>> ++ r) = t /\ Tail(<<t>> ++ r) = r
<1>1. <<t>> \in Text /\ Len(<<t>>) = 1 /\ <<t>>[1] = t /\ <<t>> # <<>>
  BY DEF Text, TextToken
<1>2. <<t>> ++ r \in Text /\ <<t>> ++ r # <<>> /\ (<<t>> ++ r)[1] = t /\ Len(<<t>> ++ r) = Len(r) + 1 /\ Len(r) \in Nat
  <2>1. <<t>> ++ r \in Text /\ <<t>> ++ r # <<>> /\ Len(<<t>> ++ r) = Len(r) + 1 /\ Len(r) \in Nat
    <3>. DEFINE one == <<t>>
    <3>1. one \in Text /\ Len(one) = 1 /\ one # <<>>
      BY <1>1
    <3>. HIDE DEF one
    <3>2. one ++ r \in Text /\ Len(r) \in Nat /\ Len(one ++ r) = Len(one) + Len(r) /\ (one ++ r = <<>> => one = <<>>)
      BY <3>1, Joins
    <3>. QED  BY <3>1, <3>2 DEF one
  <2>2. (<<t>> ++ r)[1] = t
    BY <1>1, JoinMembers
  <2>. QED  BY <2>1, <2>2
<1>. DEFINE s == <<t>> ++ r
<1>3. s \in Text /\ s # <<>> /\ s[1] = t /\ Len(s) = Len(r) + 1 /\ \A i \in 1 .. Len(r) : s[i + 1] = r[i]
  <2>1. ASSUME NEW i \in 1 .. Len(r) PROVE s[i + 1] = r[i]
    <3>1. s[1 + i] = r[i]
      BY <1>1, JoinMembers
    <3>. QED  BY <3>1
  <2>. QED  BY <1>2, <2>1
<1>. HIDE DEF s
<1>4. Head(s) = t /\ Tail(s) \in Text /\ Len(Tail(s)) = Len(r) /\ \A i \in 1 .. Len(r) : Tail(s)[i] = s[i + 1]
  <2>1. s \in Seq(TextToken)
    BY <1>3 DEF Text, TextToken
  <2>2. Head(s) = s[1]
    BY <1>3, <2>1
  <2>3. Tail(s) \in Seq(TextToken) /\ Len(Tail(s)) = Len(s) - 1 /\ \A i \in 1 .. Len(Tail(s)) : Tail(s)[i] = s[i + 1]
    BY <1>3, <2>1, HeadTailProperties
  <2>. QED  BY <1>2, <1>3, <2>2, <2>3 DEF Text, TextToken
<1>5. Tail(s) = r
  BY <1>3, <1>4, SameText
<1>. QED  BY <1>1, <1>2, <1>4, <1>5 DEF s

LEMMA Begins ==
    ASSUME NEW s \in Text, s # <<>>
    PROVE  /\ Head(s) \in TextToken /\ Tail(s) \in Text /\ s = <<Head(s)>> ++ Tail(s)
           /\ Head(s) = s[1] /\ Len(s) = Len(Tail(s)) + 1 /\ Len(Tail(s)) \in Nat
<1>1. s \in Seq(TextToken)
  BY DEF Text, TextToken
<1>2. Head(s) \in TextToken /\ Tail(s) \in Text /\ Len(Tail(s)) = Len(s) - 1
  BY <1>1, HeadTailProperties DEF Text, TextToken
<1>3. Len(s) \in Nat \ {0} /\ Head(s) = s[1]
  BY <1>1, EmptySeq
<1>4. s = <<Head(s)>> \o Tail(s)
  <2>1. SubSeq(s, 1, Len(s)) = s
    BY <1>1, SubSeqFull
  <2>2. 1 \in 1 .. Len(s) /\ Len(s) \in 1 .. Len(s)
    BY <1>3
  <2>3. SubSeq(s, 1, Len(s)) = <<s[1]>> \o SubSeq(s, 1 + 1, Len(s))
    BY <1>1, <2>2, SubSeqRecursiveFirst
  <2>4. Tail(s) = SubSeq(s, 2, Len(s))
    BY <1>1, TailIsSubSeq
  <2>5. 1 + 1 = 2
    OBVIOUS
  <2>. QED  BY <1>3, <2>1, <2>3, <2>4, <2>5
<1>. QED  BY <1>2, <1>3, <1>4 DEF ++

IsTable(defs) ==
    /\ IsFiniteSet(DOMAIN defs) /\ DOMAIN defs \subseteq STRING
    /\ \A m \in DOMAIN defs :
         /\ defs[m].functionLike \in BOOLEAN /\ defs[m].args \in Seq(STRING) /\ defs[m].body \in Seq(STRING)
         /\ ~defs[m].functionLike => defs[m].args = <<>>

\* the arguments of def are texts
Gives(def, given) == def.args \in Seq(STRING) /\ \A k \in DOMAIN def.args : given[k] \in Text

LEMMA PieceText ==
    ASSUME NEW def, NEW given, Gives(def, given), NEW atom \in STRING
    PROVE  Piece(def, given, atom) \in Text
<1>. DEFINE at == {k \in DOMAIN def.args : def.args[k] = atom}
<1>1. CASE at = {}
  <2>1. [atom |-> atom, hide |-> {}] \in TextToken /\ <<>> \in Text
    BY Joins DEF TextToken, Text
  <2>. QED  BY <1>1, <2>1, First DEF Piece
<1>2. CASE at # {}
  <2>1. (CHOOSE k \in at : TRUE) \in DOMAIN def.args
    BY <1>2
  <2>. QED  BY <1>2, <2>1 DEF Piece, Gives
<1>. QED  BY <1>1, <1>2

\* What atoms stand for begins with what the first one does.
LEMMA PiecesText ==
    ASSUME NEW def, NEW given, Gives(def, given), NEW atoms \in Seq(STRING)
    PROVE  /\ Pieces(def, given, atoms) \in Text /\ (atoms = <<>> => Pieces(def, given, atoms) = <<>>)
           /\ atoms # <<>> =>
                /\ Piece(def, given, Head(atoms)) \in Text /\ Pieces(def, given, Tail(atoms)) \in Text
                /\ Pieces(def, given, atoms) = Piece(def, given, Head(atoms)) ++ Pieces(def, given, Tail(atoms))
<1>. DEFINE P(as) == [i \in DOMAIN as |-> Piece(def, given, as[i])]
<1>1. ASSUME NEW as \in Seq(STRING) PROVE P(as) \in Seq(Text) /\ Len(P(as)) = Len(as) /\ Len(as) \in Nat
  <2>1. Len(as) \in Nat /\ DOMAIN as = 1 .. Len(as)
    BY LenProperties
  <2>2. \A i \in 1 .. Len(as) : Piece(def, given, as[i]) \in Text
    BY PieceText, ElementOfSeq
  <2>3. P(as) = [i \in 1 .. Len(as) |-> Piece(def, given, as[i])]
    BY <2>1
  <2>. DEFINE n == Len(as)
  <2>. HIDE DEF n
  <2>4. P(as) = [i \in 1 .. n |-> Piece(def, given, as[i])] /\ n \in Nat /\ \A i \in 1 .. n : Piece(def, given, as[i]) \in Text
    BY <2>1, <2>2, <2>3 DEF n
  <2>5. \A f : f = P(as) => f \in [1 .. n -> Text]
    BY <2>4, Zenon
  <2>6. \A f \in [1 .. n -> Text] : f \in Seq(Text) /\ Len(f) = n
    BY <2>4
  <2>7. P(as) \in Seq(Text) /\ Len(P(as)) = n
    BY <2>5, <2>6, Zenon
  <2>. QED  BY <2>1, <2>7 DEF n
<1>2. Pieces(def, given, atoms) = FlattenSeq(P(atoms))
  BY DEF Pieces
<1>3. CASE atoms = <<>>
  <2>1. P(atoms) = <<>>
    BY <1>3
  <2>. QED  BY <1>1, <1>2, <1>3, <2>1, FlattenText
<1>4. CASE atoms # <<>>
  <2>1. Tail(atoms) \in Seq(STRING) /\ Head(atoms) = atoms[1] /\ Len(Tail(atoms)) = Len(atoms) - 1
        /\ \A i \in 1 .. Len(Tail(atoms)) : Tail(atoms)[i] = atoms[i + 1]
    BY <1>4, HeadTailProperties
  <2>2. Len(atoms) \in Nat \ {0} /\ DOMAIN atoms = 1 .. Len(atoms) /\ DOMAIN Tail(atoms) = 1 .. Len(atoms) - 1
    BY <1>4, <2>1, EmptySeq, LenProperties
  <2>. DEFINE a == P(atoms)
              b == P(Tail(atoms))
  <2>3. a \in Seq(Text) /\ b \in Seq(Text) /\ Len(a) = Len(atoms) /\ Len(b) = Len(atoms) - 1
    BY <1>1, <2>1
  <2>4. \A i \in 1 .. Len(atoms) - 1 : b[i] = Piece(def, given, atoms[i + 1])
    BY <2>1, <2>2
  <2>5. \A i \in 1 .. Len(atoms) : a[i] = Piece(def, given, atoms[i])
    BY <2>2
  <2>. HIDE DEF a, b
  <2>6. a # <<>>
    BY <2>2, <2>3
  <2>7. Tail(a) = b
    <3>1. Tail(a) \in Seq(Text) /\ Len(Tail(a)) = Len(b) /\ \A i \in 1 .. Len(Tail(a)) : Tail(a)[i] = a[i + 1]
      BY <2>3, <2>6, HeadTailProperties
    <3>2. \A i \in 1 .. Len(Tail(a)) : Tail(a)[i] = b[i]
      BY <2>2, <2>3, <2>4, <2>5, <3>1
    <3>. QED  BY <2>3, <3>1, <3>2, SeqEqual
  <2>8. Head(a) = Piece(def, given, Head(atoms))
    BY <2>1, <2>2, <2>3, <2>5, <2>6
  <2>9. FlattenSeq(a) = Head(a) ++ FlattenSeq(Tail(a)) /\ Head(a) \in Text /\ FlattenSeq(Tail(a)) \in Text
    BY <2>3, <2>6, FlattenHead
  <2>10. FlattenSeq(b) = Pieces(def, given, Tail(atoms)) /\ FlattenSeq(a) = Pieces(def, given, atoms)
    BY DEF Pieces, a, b
  <2>11. FlattenSeq(a) \in Text
    BY <2>3, FlattenText
  <2>. QED  BY <1>4, <2>7, <2>8, <2>9, <2>10, <2>11
<1>. QED  BY <1>3, <1>4

LEMMA HiddenText ==
    ASSUME NEW hide \in SUBSET STRING, NEW a \in Text
    PROVE  /\ Hidden(a, hide) \in Text /\ Len(Hidden(a, hide)) = Len(a) /\ Hidden(<<>>, hide) = <<>>
           /\ \A i \in 1 .. Len(a) : Hidden(a, hide)[i] = [a[i] EXCEPT !.hide = @ \cup hide]
           /\ Carry(Hidden(a, hide), hide)
<1>1. Len(a) \in Nat /\ DOMAIN a = 1 .. Len(a) /\ \A i \in 1 .. Len(a) : a[i] \in [atom : STRING, hide : SUBSET STRING]
  BY Members
<1>2. \A i \in 1 .. Len(a) : [a[i] EXCEPT !.hide = @ \cup hide] \in [atom : STRING, hide : SUBSET STRING]
  BY <1>1
<1>3. Hidden(a, hide) = [i \in 1 .. Len(a) |-> [a[i] EXCEPT !.hide = @ \cup hide]]
  BY <1>1 DEF Hidden
<1>4. Hidden(a, hide) \in Text /\ Len(Hidden(a, hide)) = Len(a)
  BY <1>1, <1>2, <1>3 DEF Text
<1>5. \A i \in 1 .. Len(a) : Hidden(a, hide)[i] = [a[i] EXCEPT !.hide = @ \cup hide]
  BY <1>3
<1>6. Hidden(<<>>, hide) = <<>>
  BY DEF Hidden
<1>7. ASSUME NEW i \in 1 .. Len(a) PROVE hide \subseteq Hidden(a, hide)[i].hide
  <2>1. a[i] \in [atom : STRING, hide : SUBSET STRING]
    BY <1>1
  <2>2. [a[i] EXCEPT !.hide = @ \cup hide].hide = a[i].hide \cup hide
    BY <2>1
  <2>. QED  BY <1>5, <2>2
<1>. QED  BY <1>4, <1>5, <1>6, <1>7 DEF Carry

LEMMA HiddenJoin ==
    ASSUME NEW hide \in SUBSET STRING, NEW a \in Text, NEW b \in Text
    PROVE  Hidden(a ++ b, hide) = Hidden(a, hide) ++ Hidden(b, hide)
<1>. DEFINE ha == Hidden(a, hide)
            hb == Hidden(b, hide)
            s == Hidden(a ++ b, hide)
            t == ha ++ hb
<1>1. /\ a ++ b \in Text /\ Len(a ++ b) = Len(a) + Len(b) /\ Len(a) \in Nat /\ Len(b) \in Nat
  BY Joins
<1>2. ha \in Text /\ hb \in Text /\ Len(ha) = Len(a) /\ Len(hb) = Len(b)
  BY HiddenText
<1>. HIDE DEF ha, hb
<1>3. s \in Text /\ t \in Text /\ Len(s) = Len(a) + Len(b) /\ Len(t) = Len(a) + Len(b)
  <2>1. s \in Text /\ Len(s) = Len(a ++ b)
    BY <1>1, HiddenText
  <2>2. t \in Text /\ Len(t) = Len(ha) + Len(hb)
    BY <1>2, Joins
  <2>. QED  BY <1>1, <1>2, <2>1, <2>2
<1>4. ASSUME NEW i \in 1 .. Len(s) PROVE s[i] = t[i]
  <2>1. s[i] = [(a ++ b)[i] EXCEPT !.hide = @ \cup hide]
    BY <1>1, <1>3, HiddenText
  <2>2. CASE i <= Len(a)
    <3>1. i \in 1 .. Len(a)
      BY <1>1, <1>3, <2>2
    <3>2. (a ++ b)[i] = a[i] /\ t[i] = ha[i]
      <4>1. (a ++ b)[i] = a[i]
        BY <3>1, JoinMembers
      <4>2. \A k \in 1 .. Len(ha) : (ha ++ hb)[k] = ha[k]
        BY <1>2, JoinMembers, Zenon
      <4>. QED  BY <1>2, <3>1, <4>1, <4>2
    <3>3. Hidden(a, hide)[i] = [a[i] EXCEPT !.hide = @ \cup hide]
      BY <3>1, HiddenText
    <3>. QED  BY <2>1, <3>2, <3>3 DEF ha
  <2>3. CASE ~(i <= Len(a))
    <3>1. PICK j \in 1 .. Len(b) : i = Len(a) + j
      <4>1. i - Len(a) \in 1 .. Len(b) /\ i = Len(a) + (i - Len(a))
        BY <1>1, <1>3, <2>3
      <4>. QED  BY <4>1
    <3>2. (a ++ b)[i] = b[j]
      BY <3>1, JoinMembers
    <3>3. t[i] = hb[j]
      <4>1. \A k \in 1 .. Len(hb) : (ha ++ hb)[Len(ha) + k] = hb[k]
        BY <1>2, JoinMembers, Zenon
      <4>. QED  BY <1>2, <3>1, <4>1
    <3>4. Hidden(b, hide)[j] = [b[j] EXCEPT !.hide = @ \cup hide]
      BY <3>1, HiddenText
    <3>. QED  BY <2>1, <3>2, <3>3, <3>4 DEF hb
  <2>. QED  BY <2>2, <2>3
<1>. HIDE DEF s, t
<1>5. s = t
  BY <1>3, <1>4, SameText
<1>. QED  BY <1>5 DEF s, t, ha, hb

LEMMA SubstitutedText ==
    ASSUME NEW def, def.body \in Seq(STRING), NEW given, Gives(def, given), NEW hide \in SUBSET STRING
    PROVE  Substituted(def, given, hide) \in Text /\ Carry(Substituted(def, given, hide), hide)
<1>1. Pieces(def, given, def.body) \in Text
  BY PiecesText
<1>. QED  BY <1>1, HiddenText DEF Substituted

\* The first of some places, 0 if there is none.
LEMMA ClosingPlace ==
    ASSUME NEW s \in Text
    PROVE  /\ Closing(s) \in 0 .. Len(s) /\ Len(s) \in Nat
           /\ Closing(s) # 0 =>
                /\ s # <<>> /\ s[1].atom = "(" /\ s[Closing(s)].atom = ")" /\ Nesting(s, Closing(s)) = 0
                /\ \A j \in 1 .. Closing(s) - 1 : ~(s[j].atom = ")" /\ Nesting(s, j) = 0)
           /\ Closing(s) = 0 => \A j \in 1 .. Len(s) : ~(s[1].atom = "(" /\ s[j].atom = ")" /\ Nesting(s, j) = 0)
<1>. DEFINE at == {i \in DOMAIN s : s[1].atom = "(" /\ s[i].atom = ")" /\ Nesting(s, i) = 0}
<1>1. Len(s) \in Nat /\ DOMAIN s = 1 .. Len(s) /\ (Len(s) = 0 <=> s = <<>>)
  BY Members
<1>2. CASE at = {}
  <2>1. Closing(s) = 0
    BY <1>2 DEF Closing
  <2>. QED  BY <1>1, <1>2, <2>1
<1>3. CASE at # {}
  <2>1. at \subseteq Nat
    BY <1>1
  <2>2. \E i \in at : \A j \in at : i <= j
    <3>. HIDE DEF at
    <3>. QED  BY <1>3, <2>1, Least, Zenon
  <2>3. Closing(s) = CHOOSE i \in at : \A j \in at : i <= j
    BY <1>3 DEF Closing
  <2>4. Closing(s) \in at /\ \A j \in at : Closing(s) <= j
    <3>. HIDE DEF at
    <3>. QED  BY <2>2, <2>3
  <2>5. ASSUME NEW j \in 1 .. Closing(s) - 1 PROVE j \notin at
    BY <1>1, <2>4
  <2>6. Closing(s) \in 1 .. Len(s) /\ s[1].atom = "(" /\ s[Closing(s)].atom = ")" /\ Nesting(s, Closing(s)) = 0
    BY <1>1, <2>4
  <2>7. ASSUME NEW j \in 1 .. Closing(s) - 1 PROVE ~(s[j].atom = ")" /\ Nesting(s, j) = 0)
    <3>1. j \in DOMAIN s
      BY <1>1, <2>6
    <3>. QED  BY <2>5, <2>6, <3>1
  <2>. QED  BY <1>1, <2>6, <2>7
<1>. QED  BY <1>2, <1>3

\* the cuts up to c
UpTo(cuts, c) == {d \in cuts : d <= c}

LEMMA UpTos ==
    ASSUME NEW b \in Nat, NEW cuts \in SUBSET (1 .. b), NEW c
    PROVE  /\ IsFiniteSet(cuts) /\ IsFiniteSet(UpTo(cuts, c))
           /\ Cardinality(cuts) \in Nat /\ Cardinality(UpTo(cuts, c)) \in Nat
           /\ Cardinality(UpTo(cuts, c)) <= Cardinality(cuts)
<1>1. IsFiniteSet(1 .. b)
  BY FS_Interval
<1>2. IsFiniteSet(cuts)
  BY <1>1, FS_Subset
<1>3. UpTo(cuts, c) \subseteq cuts
  BY DEF UpTo
<1>. QED  BY <1>2, <1>3, FS_Subset, FS_CardinalityType

\* The k-th cut is one of the cuts, and the only one with as many up to it.
LEMMA CutIn ==
    ASSUME NEW b \in Nat, NEW cuts \in SUBSET (1 .. b), NEW k \in 1 .. Cardinality(cuts)
    PROVE  /\ Cut(cuts, k) \in cuts /\ Cardinality(UpTo(cuts, Cut(cuts, k))) = k
           /\ \A c \in cuts : Cardinality(UpTo(cuts, c)) = k => Cut(cuts, k) = c
<1>1. Cut(cuts, k) = CHOOSE c \in cuts : Cardinality(UpTo(cuts, c)) = k
  BY DEF Cut, UpTo
<1>2. \A i \in Nat : IsFiniteSet(UpTo(cuts, i)) /\ Cardinality(UpTo(cuts, i)) \in Nat
  BY UpTos
<1>n. \A d \in cuts : d \in Nat /\ 1 <= d /\ d <= b
  OBVIOUS
<1>0. k \in Nat \ {0} /\ Cardinality(cuts) \in Nat /\ k <= Cardinality(cuts)
  <2>1. Cardinality(cuts) \in Nat
    BY UpTos
  <2>. QED  BY <2>1
<1>3. PICK m \in cuts : Cardinality(UpTo(cuts, m)) = k
  <2>. DEFINE S == {i \in Nat : k <= Cardinality(UpTo(cuts, i))}
  <2>1. UpTo(cuts, b) = cuts
    BY <1>n DEF UpTo
  <2>2. b \in S
    BY <1>0, <2>1
  <2>3. PICK m \in S : \A i \in S : m <= i
    <3>1. S \subseteq Nat
      OBVIOUS
    <3>. HIDE DEF S
    <3>. QED  BY <2>2, <3>1, Least, Zenon
  <2>4. m \in Nat /\ k <= Cardinality(UpTo(cuts, m))
    BY <2>3
  <2>5. m # 0
    <3>1. ASSUME m = 0 PROVE UpTo(cuts, m) = {}
      <4>1. \A d \in cuts : ~(d <= m)
        BY <1>n, <3>1
      <4>. QED  BY <4>1, Zenon DEF UpTo
    <3>. QED  BY <1>0, <2>4, <3>1, FS_EmptySet
  <2>6. m - 1 \in Nat /\ m - 1 \notin S
    BY <2>3, <2>4, <2>5
  <2>7. Cardinality(UpTo(cuts, m - 1)) < k
    BY <1>0, <1>2, <2>6
  <2>8. m \in cuts
    <3>1. ASSUME m \notin cuts PROVE UpTo(cuts, m) = UpTo(cuts, m - 1)
      <4>1. ASSUME NEW d \in cuts PROVE d <= m <=> d <= m - 1
        BY <1>n, <2>4, <3>1
      <4>. QED  BY <4>1, Zenon DEF UpTo
    <3>. QED  BY <1>0, <1>2, <2>4, <2>6, <2>7, <3>1
  <2>9. UpTo(cuts, m) \subseteq UpTo(cuts, m - 1) \cup {m}
    <3>1. ASSUME NEW d \in cuts, d <= m, d # m PROVE d <= m - 1
      BY <1>n, <2>4, <3>1
    <3>. HIDE DEF S
    <3>. QED  BY <3>1 DEF UpTo
  <2>10. Cardinality(UpTo(cuts, m)) <= Cardinality(UpTo(cuts, m - 1)) + 1
    <3>. HIDE DEF S
    <3>. QED  BY <1>2, <2>6, <2>9, Counted
  <2>. QED  BY <1>0, <1>2, <2>4, <2>6, <2>7, <2>8, <2>10
<1>4. ASSUME NEW c \in cuts, NEW d \in cuts, c < d
      PROVE  Cardinality(UpTo(cuts, c)) < Cardinality(UpTo(cuts, d))
  <2>1. c \in Nat /\ d \in Nat
    OBVIOUS
  <2>2. UpTo(cuts, c) \subseteq UpTo(cuts, d) \ {d} /\ d \in UpTo(cuts, d)
    <3>1. ASSUME NEW e \in cuts, e <= c PROVE e <= d /\ e # d
      BY <1>n, <1>4, <2>1, <3>1
    <3>2. d <= d
      BY <2>1
    <3>. QED  BY <3>1, <3>2, Zenon DEF UpTo
  <2>3. Cardinality(UpTo(cuts, c)) <= Cardinality(UpTo(cuts, d)) - 1
    BY <1>2, <2>1, <2>2, Counted
  <2>. QED  BY <1>2, <2>1, <2>3
<1>5. ASSUME NEW c \in cuts, NEW d \in cuts, Cardinality(UpTo(cuts, c)) = k, Cardinality(UpTo(cuts, d)) = k
      PROVE  c = d
  <2>1. ~(c < d) /\ ~(d < c)
    <3>1. ASSUME c < d PROVE FALSE
      BY <1>0, <1>4, <1>5, <3>1
    <3>2. ASSUME d < c PROVE FALSE
      BY <1>0, <1>4, <1>5, <3>2
    <3>. QED  BY <3>1, <3>2
  <2>. QED  BY <2>1
<1>6. Cut(cuts, k) \in cuts /\ Cardinality(UpTo(cuts, Cut(cuts, k))) = k
  BY <1>1, <1>3
<1>. QED  BY <1>5, <1>6

\* One more cut, behind the others.
CutsAnd(cuts, e) == cuts \cup {e}

LEMMA CutMore ==
    ASSUME NEW b \in Nat, NEW cuts \in SUBSET (1 .. b), NEW e \in Nat, b < e
    PROVE  /\ CutsAnd(cuts, e) \in SUBSET (1 .. e) /\ Cardinality(CutsAnd(cuts, e)) = Cardinality(cuts) + 1
           /\ Cardinality(cuts) \in Nat
           /\ \A k \in 1 .. Cardinality(cuts) : Cut(CutsAnd(cuts, e), k) = Cut(cuts, k)
           /\ Cut(CutsAnd(cuts, e), Cardinality(cuts) + 1) = e
<1>. DEFINE more == CutsAnd(cuts, e)
<1>1. more \in SUBSET (1 .. e) /\ e \notin cuts /\ more = cuts \cup {e} /\ \A d \in cuts : d \in Nat /\ d < e
  BY DEF CutsAnd
<1>2. IsFiniteSet(cuts) /\ Cardinality(cuts) \in Nat
  BY UpTos
<1>3. Cardinality(more) = Cardinality(cuts) + 1
  BY <1>1, <1>2, FS_AddElement
<1>. HIDE DEF more
<1>4. ASSUME NEW k \in 1 .. Cardinality(cuts) PROVE Cut(more, k) = Cut(cuts, k)
  <2>1. Cut(cuts, k) \in cuts /\ Cardinality(UpTo(cuts, Cut(cuts, k))) = k
    BY CutIn
  <2>2. UpTo(more, Cut(cuts, k)) = UpTo(cuts, Cut(cuts, k)) /\ Cut(cuts, k) \in more
    <3>1. ~(e <= Cut(cuts, k))
      <4>1. Cut(cuts, k) \in Nat /\ Cut(cuts, k) < e
        BY <1>1, <2>1
      <4>. QED  BY <4>1
    <3>. QED  BY <1>1, <2>1, <3>1 DEF UpTo
  <2>3. k \in 1 .. Cardinality(more)
    BY <1>2, <1>3
  <2>4. \A c \in more : Cardinality(UpTo(more, c)) = k => Cut(more, k) = c
    BY <1>1, <2>3, CutIn
  <2>. QED  BY <2>1, <2>2, <2>4
<1>5. Cut(more, Cardinality(cuts) + 1) = e
  <2>1. UpTo(more, e) = more /\ e \in more
    <3>1. \A d \in more : d <= e
      BY <1>1
    <3>. QED  BY <1>1, <3>1 DEF UpTo
  <2>2. Cardinality(cuts) + 1 \in 1 .. Cardinality(more)
    BY <1>2, <1>3
  <2>3. \A c \in more : Cardinality(UpTo(more, c)) = Cardinality(cuts) + 1 => Cut(more, Cardinality(cuts) + 1) = c
    BY <1>1, <2>2, CutIn
  <2>. QED  BY <1>3, <2>1, <2>3
<1>. QED  BY <1>1, <1>2, <1>3, <1>4, <1>5 DEF more

LEMMA CutText ==
    ASSUME NEW s \in Text, NEW n \in 0 .. Len(s)
    PROVE  /\ SubSeq(s, 1, n) \in Text /\ SubSeq(s, n + 1, Len(s)) \in Text /\ Len(SubSeq(s, 1, n)) = n
           /\ s = SubSeq(s, 1, n) ++ SubSeq(s, n + 1, Len(s))
<1>1. Len(s) \in Nat /\ s \in Seq(TextToken)
  BY Members DEF Text, TextToken
<1>2. SubSeq(s, 1, n) \in Text /\ SubSeq(s, n + 1, Len(s)) \in Text /\ Len(SubSeq(s, 1, n)) = n
  <2>1. n \in Nat /\ n <= Len(s) /\ n + 1 \in Nat \ {0} /\ Len(s) <= Len(s)
    BY <1>1
  <2>2. SubSeq(s, n + 1, Len(s)) \in Text
    BY <1>1, <2>1, PartText
  <2>3. SubSeq(s, 1, n) \in Text /\ Len(SubSeq(s, 1, n)) = IF 1 <= n THEN n - 1 + 1 ELSE 0
    BY <1>1, <2>1, PartText
  <2>. QED  BY <2>1, <2>2, <2>3
<1>3. SubSeq(s, 1, n) \o SubSeq(s, n + 1, Len(s)) = SubSeq(s, 1, Len(s))
  <2>1. 1 \in 1 .. Len(s) + 1 /\ n \in 1 - 1 .. Len(s) /\ Len(s) \in n .. Len(s)
    BY <1>1
  <2>. QED  BY <1>1, <2>1, ConcatAdjacentSubSeq
<1>4. SubSeq(s, 1, Len(s)) = s
  BY <1>1, SubSeqFull
<1>. QED  BY <1>2, <1>3, <1>4 DEF ++

LEMMA MiddleText ==
    ASSUME NEW s \in Text, NEW m \in Nat \ {0}, NEW n \in Nat, n <= Len(s)
    PROVE  SubSeq(s, m, n) \in Text /\ \E a \in Text, b \in Text : s = a ++ (SubSeq(s, m, n) ++ b)
<1>1. Len(s) \in Nat /\ s \in Seq(TextToken)
  BY Members DEF Text, TextToken
<1>2. SubSeq(s, m, n) \in Text
  BY PartText
<1>3. CASE n < m
  <2>1. SubSeq(s, m, n) = <<>>
    BY <1>3, SubSeqEmpty
  <2>2. s = s ++ (<<>> ++ <<>>) /\ <<>> \in Text
    BY Joins
  <2>. QED  BY <1>2, <2>1, <2>2
<1>4. CASE ~(n < m)
  <2>1. m - 1 \in 0 .. Len(s) /\ m - 1 + 1 = m
    BY <1>1, <1>4
  <2>2. SubSeq(s, 1, m - 1) \in Text /\ s = SubSeq(s, 1, m - 1) ++ SubSeq(s, m, Len(s))
    BY <2>1, CutText
  <2>3. m \in 1 .. Len(s) + 1 /\ n \in m - 1 .. Len(s) /\ Len(s) \in n .. Len(s)
    BY <1>1, <1>4
  <2>4. SubSeq(s, m, n) \o SubSeq(s, n + 1, Len(s)) = SubSeq(s, m, Len(s))
    BY <1>1, <2>3, ConcatAdjacentSubSeq
  <2>5. SubSeq(s, n + 1, Len(s)) \in Text
    <3>1. n \in 0 .. Len(s)
      BY <1>1
    <3>. QED  BY <3>1, CutText
  <2>6. s = SubSeq(s, 1, m - 1) ++ (SubSeq(s, m, n) ++ SubSeq(s, n + 1, Len(s)))
    BY <2>2, <2>4 DEF ++
  <2>. QED  BY <1>2, <2>2, <2>5, <2>6
<1>. QED  BY <1>3, <1>4

(* The cuts are places of the text, and the texts between them are parts.   *)
LEMMA CutPlaces ==
    ASSUME NEW s \in Text, Closing(s) # 0
    PROVE  /\ Cuts(s, Closing(s)) \in SUBSET (1 .. Closing(s)) /\ Closing(s) \in 1 .. Len(s) /\ Len(s) \in Nat
           /\ Cardinality(Cuts(s, Closing(s))) \in Nat
           /\ \A k \in Nat \ {0} : k < Cardinality(Cuts(s, Closing(s))) =>
                /\ Argument(s, Cuts(s, Closing(s)), k) \in Text
                /\ \E a \in Text, b \in Text : s = a ++ (Argument(s, Cuts(s, Closing(s)), k) ++ b)
<1>. DEFINE c    == Closing(s)
            cuts == Cuts(s, c)
<1>1. c \in 1 .. Len(s) /\ Len(s) \in Nat /\ c \in Nat
  <2>1. c \in 0 .. Len(s) /\ Len(s) \in Nat
    BY ClosingPlace
  <2>. QED  BY <2>1
<1>2. cuts \in SUBSET (1 .. c)
  <2>1. {1, c} \subseteq 1 .. c
    BY <1>1
  <2>2. 2 .. c - 1 \subseteq 1 .. c
    BY <1>1
  <2>. HIDE DEF c
  <2>. QED  BY <2>1, <2>2, Zenon DEF Cuts
<1>. HIDE DEF cuts
<1>3. Cardinality(cuts) \in Nat
  BY <1>1, <1>2, UpTos
<1>4. ASSUME NEW k \in Nat \ {0}, k < Cardinality(cuts)
      PROVE  Argument(s, cuts, k) \in Text /\ \E a \in Text, b \in Text : s = a ++ (Argument(s, cuts, k) ++ b)
  <2>1. k \in 1 .. Cardinality(cuts) /\ k + 1 \in 1 .. Cardinality(cuts)
    BY <1>3, <1>4
  <2>2. Cut(cuts, k) \in cuts /\ Cut(cuts, k + 1) \in cuts
    BY <1>1, <1>2, <2>1, CutIn
  <2>3. Cut(cuts, k) + 1 \in Nat \ {0} /\ Cut(cuts, k + 1) - 1 \in Nat /\ Cut(cuts, k + 1) - 1 <= Len(s)
    <3>. DEFINE m == Cut(cuts, k)
                n == Cut(cuts, k + 1)
    <3>1. m \in 1 .. c /\ n \in 1 .. c
      BY <1>2, <2>2
    <3>. HIDE DEF m, n
    <3>2. m + 1 \in Nat \ {0} /\ n - 1 \in Nat /\ n - 1 <= Len(s)
      BY <1>1, <3>1
    <3>. QED  BY <3>2 DEF m, n
  <2>. QED  BY <2>3, MiddleText DEF Argument
<1>. QED  BY <1>1, <1>2, <1>3, <1>4 DEF cuts

(* The meaning of a text depends on what its expansion asks for, and is one.*)
LEMMA RuleLocal ==
    ASSUME NEW defs, IsTable(defs), NEW s \in Text, NEW E, NEW F,
           \A k \in Text : <<k, s>> \in Asks(DOMAIN defs) => E[k] = F[k] /\ E[k] \in Text
    PROVE  Rule(defs, E, s) = Rule(defs, F, s) /\ Rule(defs, E, s) \in Text
<1>1. CASE s = <<>>
  BY <1>1, Joins DEF Rule
<1>2. CASE s # <<>>
  <2>. DEFINE t       == Head(s)
              rest    == Tail(s)
              def     == defs[t.atom]
              closing == Closing(rest)
  <2>1. t \in TextToken /\ rest \in Text /\ s = <<t>> ++ rest /\ t.atom \in STRING /\ t.hide \in SUBSET STRING
    BY <1>2, Begins DEF TextToken
  <2>2. <<t>> \in Text /\ <<t>> # <<>> /\ <<t>>[1] = t /\ Len(<<t>>) = 1 /\ <<>> \in Text
    BY <2>1, First, Joins
  <2>. HIDE DEF t, rest
  <2>3. CASE t.atom \notin DOMAIN defs \/ t.atom \in t.hide \/ (def.functionLike /\ closing = 0)
    <3>1. Rule(defs, E, s) = <<t>> ++ E[rest] /\ Rule(defs, F, s) = <<t>> ++ F[rest]
      BY <1>2, <2>3 DEF Rule, ++, t, rest
    <3>2. <<rest, s>> \in Asks(DOMAIN defs)
      <4>1. s = <<t>> ++ (rest ++ <<>>)
        BY <2>1, Joins
      <4>2. PartOf(rest, s)
        BY <2>2, <4>1 DEF PartOf
      <4>. QED  BY <2>1, <4>2 DEF Asks
    <3>3. E[rest] = F[rest] /\ E[rest] \in Text
      BY <2>1, <3>2
    <3>4. <<t>> ++ E[rest] \in Text
      BY <2>2, <3>3, Joins
    <3>. QED  BY <3>1, <3>3, <3>4
  <2>4. ASSUME t.atom \in DOMAIN defs, t.atom \notin t.hide,
               NEW w \in Text, NEW a \in Text, NEW b \in Text, s = a ++ b, a # <<>>, a[1] = t,
               Carry(w, (t.hide \cap a[Len(a)].hide) \cup {t.atom})
        PROVE  E[w ++ b] = F[w ++ b] /\ E[w ++ b] \in Text
    <3>1. InPlaceOf(DOMAIN defs, w, a)
      BY <2>4 DEF InPlaceOf
    <3>2. AfterCall(DOMAIN defs, w ++ b, s)
      BY <2>4, <3>1 DEF AfterCall
    <3>3. w ++ b \in Text
      BY Joins
    <3>. QED  BY <3>2, <3>3 DEF Asks
  <2>5. CASE t.atom \in DOMAIN defs /\ t.atom \notin t.hide /\ ~def.functionLike
    <3>. DEFINE w == Substituted(def, <<>>, t.hide \cup {t.atom})
    <3>1. Rule(defs, E, s) = E[w ++ rest] /\ Rule(defs, F, s) = F[w ++ rest]
      BY <1>2, <2>5 DEF Rule, ++, t, rest
    <3>2. def.body \in Seq(STRING) /\ Gives(def, <<>>) /\ t.hide \cup {t.atom} \in SUBSET STRING
      <4>1. def.args = <<>> /\ def.body \in Seq(STRING) /\ def.args \in Seq(STRING)
        BY <2>5 DEF IsTable
      <4>. QED  BY <2>1, <4>1 DEF Gives
    <3>3. w \in Text /\ Carry(w, t.hide \cup {t.atom})
      BY <3>2, SubstitutedText
    <3>. HIDE DEF w
    <3>4. Carry(w, (t.hide \cap <<t>>[Len(<<t>>)].hide) \cup {t.atom})
      BY <2>2, <3>3
    <3>5. E[w ++ rest] = F[w ++ rest] /\ E[w ++ rest] \in Text
      BY <2>1, <2>2, <2>4, <2>5, <3>3, <3>4
    <3>. QED  BY <3>1, <3>5
  <2>6. CASE t.atom \in DOMAIN defs /\ t.atom \notin t.hide /\ def.functionLike /\ closing # 0
    <3>. DEFINE cuts == Cuts(rest, closing)
                hide == (t.hide \cap rest[closing].hide) \cup {t.atom}
                b    == SubSeq(rest, closing + 1, Len(rest))
                a    == <<t>> ++ SubSeq(rest, 1, closing)
                G(f) == GivenTexts(def, f, rest, closing)
                W(f) == Substituted(def, G(f), hide)
    <3>1. Rule(defs, E, s) = E[W(E) ++ b] /\ Rule(defs, F, s) = F[W(F) ++ b]
      BY <1>2, <2>6 DEF Rule, ++, t, rest
    <3>2. closing \in 1 .. Len(rest) /\ Len(rest) \in Nat /\ closing \in 0 .. Len(rest) /\ Cardinality(cuts) \in Nat
          /\ \A k \in Nat \ {0} : k < Cardinality(cuts) =>
                /\ Argument(rest, cuts, k) \in Text
                /\ \E x \in Text, y \in Text : rest = x ++ (Argument(rest, cuts, k) ++ y)
      <4>1. closing \in 1 .. Len(rest) /\ Len(rest) \in Nat /\ Cardinality(cuts) \in Nat
          /\ \A k \in Nat \ {0} : k < Cardinality(cuts) =>
                /\ Argument(rest, cuts, k) \in Text
                /\ \E x \in Text, y \in Text : rest = x ++ (Argument(rest, cuts, k) ++ y)
        BY <2>1, <2>6, CutPlaces
      <4>. QED  BY <4>1
    <3>3. def.args \in Seq(STRING) /\ def.body \in Seq(STRING) /\ DOMAIN def.args = 1 .. Len(def.args) /\ Len(def.args) \in Nat
      <4>1. def.args \in Seq(STRING) /\ def.body \in Seq(STRING)
        BY <2>6 DEF IsTable
      <4>. QED  BY <4>1, LenProperties
    <3>4. ASSUME NEW k \in DOMAIN def.args, k < Cardinality(cuts)
          PROVE  E[Argument(rest, cuts, k)] = F[Argument(rest, cuts, k)] /\ E[Argument(rest, cuts, k)] \in Text
      <4>. DEFINE arg == Argument(rest, cuts, k)
      <4>1. k \in Nat \ {0}
        BY <3>3
      <4>2. arg \in Text /\ \E x \in Text, y \in Text : rest = x ++ (arg ++ y)
        BY <3>2, <3>4, <4>1
      <4>. HIDE DEF arg
      <4>3. PICK x \in Text, y \in Text : rest = x ++ (arg ++ y)
        BY <4>2
      <4>4. s = (<<t>> ++ x) ++ (arg ++ y) /\ <<t>> ++ x \in Text /\ <<t>> ++ x # <<>>
        <5>1. arg ++ y \in Text
          BY <4>2, Joins
        <5>. DEFINE one == <<t>>
        <5>2. one \in Text /\ one # <<>> /\ s = one ++ rest
          BY <2>1, <2>2
        <5>. HIDE DEF one
        <5>3. one ++ x \in Text /\ one ++ x # <<>>
          BY <5>2, Joins
        <5>4. (one ++ x) ++ (arg ++ y) = one ++ (x ++ (arg ++ y))
          BY <5>1, <5>2, JoinsRegroup
        <5>. QED  BY <4>3, <5>2, <5>3, <5>4 DEF one
      <4>5. PartOf(arg, s)
        BY <4>4 DEF PartOf
      <4>6. <<arg, s>> \in Asks(DOMAIN defs)
        BY <4>2, <4>5 DEF Asks
      <4>. QED  BY <4>2, <4>6 DEF arg
    <3>5. G(E) = G(F)
      BY <3>4 DEF GivenTexts
    <3>6. Gives(def, G(E))
      <4>1. \A k \in DOMAIN def.args : G(E)[k] = IF k < Cardinality(cuts) THEN E[Argument(rest, cuts, k)] ELSE <<>>
        BY DEF GivenTexts
      <4>2. ASSUME NEW k \in DOMAIN def.args PROVE G(E)[k] \in Text
        BY <2>2, <3>4, <4>1
      <4>. HIDE DEF G
      <4>. QED  BY <3>3, <4>2 DEF Gives
    <3>7. SubSeq(rest, 1, closing) \in Text /\ b \in Text /\ rest = SubSeq(rest, 1, closing) ++ b
          /\ Len(SubSeq(rest, 1, closing)) = closing
      BY <2>1, <3>2, CutText
    <3>8. SubSeq(rest, 1, closing)[closing] = rest[closing] /\ rest[closing].hide \in SUBSET STRING
      <4>1. closing \in 1 .. closing - 1 + 1 /\ 1 + closing - 1 = closing /\ 1 \in Nat \ {0} /\ closing \in Nat /\ closing <= Len(rest)
        BY <3>2
      <4>2. \A i \in 1 .. closing - 1 + 1 : SubSeq(rest, 1, closing)[i] = rest[1 + i - 1]
        BY <2>1, <4>1, PartText
      <4>3. rest[closing] \in [atom : STRING, hide : SUBSET STRING]
        BY <2>1, <3>2, Members
      <4>. QED  BY <4>1, <4>2, <4>3
    <3>9. hide \in SUBSET STRING
      BY <2>1, <3>8
    <3>10. W(E) \in Text /\ Carry(W(E), hide)
      <4>. HIDE DEF hide, G
      <4>. QED  BY <3>3, <3>6, <3>9, SubstitutedText
    <3>11. a \in Text /\ a # <<>> /\ a[1] = t /\ a[Len(a)] = rest[closing] /\ s = a ++ b
      <4>. DEFINE one == <<t>>
                  p   == SubSeq(rest, 1, closing)
      <4>1. one \in Text /\ Len(one) = 1 /\ p \in Text /\ Len(p) = closing /\ p[closing] = rest[closing] /\ rest = p ++ b
        BY <2>2, <3>7, <3>8
      <4>2. a \in Text /\ a # <<>> /\ a[1] = t
        BY <2>1, <4>1, First
      <4>3. s = one ++ rest
        BY <2>1
      <4>. HIDE DEF one, p
      <4>4. Len(one ++ p) = 1 + closing
        <5>1. Len(one ++ p) = Len(one) + Len(p)
          BY <4>1, Joins
        <5>. QED  BY <4>1, <5>1
      <4>5. \A i \in 1 .. Len(p) : (one ++ p)[Len(one) + i] = p[i]
        BY <4>1, JoinMembers, Zenon
      <4>6. (one ++ p)[1 + closing] = p[closing]
        BY <3>2, <4>1, <4>5
      <4>7. s = (one ++ p) ++ b
        BY <3>7, <4>1, <4>3, JoinsRegroup
      <4>. QED  BY <4>1, <4>2, <4>4, <4>6, <4>7 DEF one, p
    <3>. HIDE DEF W, a, b
    <3>12. E[W(E) ++ b] = F[W(E) ++ b] /\ E[W(E) ++ b] \in Text
      <4>1. Carry(W(E), (t.hide \cap a[Len(a)].hide) \cup {t.atom})
        BY <3>10, <3>11
      <4>. HIDE DEF hide
      <4>. QED  BY <2>4, <2>6, <3>7, <3>10, <3>11, <4>1
    <3>. QED  BY <3>1, <3>5, <3>12 DEF W
  <2>. QED  BY <2>3, <2>5, <2>6
<1>. QED  BY <1>1, <1>2

(* If a function follows the rule on all texts, the expansion does.         *)
LEMMA Unfolds ==
    ASSUME NEW defs, NEW f, f = [tokens \in Text |-> Rule(defs, f, tokens)]
    PROVE  Expansion(defs) = [tokens \in Text |-> Rule(defs, Expansion(defs), tokens)]
<1>. DEFINE E == CHOOSE g : g = [tokens \in Text |-> Rule(defs, g, tokens)]
<1>1. E = [tokens \in Text |-> Rule(defs, E, tokens)]
  OBVIOUS
<1>2. Expansion(defs) = E
  BY DEF Expansion
<1>. QED  BY <1>1, <1>2

(* f follows the rule on texts that hold whatever they ask for.             *)
Follows(defs, f, texts) ==
    /\ texts \in SUBSET Text
    /\ \A s \in texts : \A k \in Text : <<k, s>> \in Asks(DOMAIN defs) => k \in texts
    /\ f \in [texts -> Text] /\ \A s \in texts : f[s] = Rule(defs, f, s)

LEMMA FollowsOnce ==
    ASSUME NEW defs, IsTable(defs), NEW f, NEW texts, Follows(defs, f, texts),
           NEW g, NEW others, Follows(defs, g, others)
    PROVE  \A s \in texts \cap others : f[s] = g[s]
<1>. DEFINE Bad == {s \in texts \cap others : f[s] # g[s]}
<1>1. SUFFICES ASSUME Bad # {} PROVE FALSE
  OBVIOUS
<1>2. Bad \subseteq Text /\ IsFiniteSet(DOMAIN defs)
  BY DEF Follows, IsTable
<1>3. PICK s \in Bad : \A k \in Bad : <<k, s>> \notin Asks(DOMAIN defs)
  <2>. HIDE DEF Bad
  <2>. QED  BY <1>1, <1>2, ExpansionEnds
<1>4. s \in texts /\ s \in others /\ s \in Text /\ f[s] # g[s]
  BY <1>2, <1>3
<1>5. ASSUME NEW k \in Text, <<k, s>> \in Asks(DOMAIN defs) PROVE f[k] = g[k] /\ f[k] \in Text
  <2>1. k \in texts /\ k \in others
    BY <1>4, <1>5 DEF Follows
  <2>2. k \notin Bad
    BY <1>3, <1>5
  <2>3. f[k] \in Text
    BY <2>1 DEF Follows
  <2>. QED  BY <2>1, <2>2, <2>3
<1>6. Rule(defs, f, s) = Rule(defs, g, s)
  BY <1>4, <1>5, RuleLocal
<1>. QED  BY <1>4, <1>6 DEF Follows

(* What ExpandsAsDefined compares the output of tokenize (Pp.cpp:1163) with *)
(* exists for every table: the expansion of a text is a text, and it is     *)
(* what the rule says of it.                                                *)
THEOREM ExpansionFollows ==
    ASSUME NEW defs, IsTable(defs)
    PROVE  Expansion(defs) \in [Text -> Text] /\ \A s \in Text : Expansion(defs)[s] = Rule(defs, Expansion(defs), s)
<1>. DEFINE Good == {s \in Text : \E texts, f : Follows(defs, f, texts) /\ s \in texts}
            F    == [s \in Good |-> CHOOSE v : \E texts, f : Follows(defs, f, texts) /\ s \in texts /\ v = f[s]]
<1>1. ASSUME NEW texts, NEW f, Follows(defs, f, texts), NEW s \in texts
      PROVE  s \in Good /\ F[s] = f[s]
  <2>1. s \in Good
    BY <1>1 DEF Follows
  <2>2. \E v, us, g : Follows(defs, g, us) /\ s \in us /\ v = g[s]
    BY <1>1
  <2>3. PICK us, g : Follows(defs, g, us) /\ s \in us /\ F[s] = g[s]
    BY <2>1, <2>2
  <2>4. g[s] = f[s]
    BY <1>1, <2>3, FollowsOnce
  <2>. QED  BY <2>1, <2>3, <2>4
<1>2. Follows(defs, F, Good)
  <2>1. ASSUME NEW s \in Good
        PROVE  /\ \A k \in Text : <<k, s>> \in Asks(DOMAIN defs) => k \in Good
               /\ F[s] \in Text /\ F[s] = Rule(defs, F, s)
    <3>1. PICK texts, f : Follows(defs, f, texts) /\ s \in texts
      OBVIOUS
    <3>2. ASSUME NEW k \in Text, <<k, s>> \in Asks(DOMAIN defs)
          PROVE  k \in Good /\ f[k] = F[k] /\ f[k] \in Text
      <4>1. k \in texts
        BY <3>1, <3>2 DEF Follows
      <4>2. f[k] \in Text
        BY <3>1, <4>1 DEF Follows
      <4>. HIDE DEF Good, F
      <4>. QED  BY <1>1, <3>1, <4>1, <4>2
    <3>3. F[s] = f[s] /\ f[s] \in Text /\ f[s] = Rule(defs, f, s)
      <4>1. f[s] \in Text /\ f[s] = Rule(defs, f, s)
        BY <3>1 DEF Follows
      <4>. QED  BY <1>1, <3>1, <4>1
    <3>4. Rule(defs, f, s) = Rule(defs, F, s)
      <4>1. s \in Text
        OBVIOUS
      <4>. HIDE DEF Good, F
      <4>. QED  BY <3>2, <4>1, RuleLocal
    <3>. HIDE DEF Good, F
    <3>. QED  BY <3>2, <3>3, <3>4
  <2>2. Good \in SUBSET Text
    OBVIOUS
  <2>3. F \in [Good -> Text]
    <3>1. \A s \in Good : F[s] \in Text
      BY <2>1
    <3>. DEFINE V(s) == CHOOSE v : \E texts, f : Follows(defs, f, texts) /\ s \in texts /\ v = f[s]
    <3>2. F = [s \in Good |-> V(s)]
      OBVIOUS
    <3>. HIDE DEF Good, F, V
    <3>. QED  BY <3>1, <3>2
  <2>. HIDE DEF Good, F
  <2>. QED  BY <2>1, <2>2, <2>3 DEF Follows
<1>3. Good = Text
  <2>. DEFINE Bad == Text \ Good
  <2>1. SUFFICES ASSUME Bad # {} PROVE FALSE
    OBVIOUS
  <2>2. PICK s \in Bad : \A k \in Bad : <<k, s>> \notin Asks(DOMAIN defs)
    <3>1. Bad \subseteq Text /\ IsFiniteSet(DOMAIN defs)
      BY DEF IsTable
    <3>. HIDE DEF Bad
    <3>. QED  BY <2>1, <3>1, ExpansionEnds
  <2>3. s \in Text /\ s \notin Good
    OBVIOUS
  <2>. DEFINE more == Good \cup {s}
              h    == [r \in more |-> IF r = s THEN Rule(defs, F, s) ELSE F[r]]
  <2>4. s \notin Good => ~Follows(defs, h, more)
    <3>1. s \in more
      OBVIOUS
    <3>. HIDE DEF h, more
    <3>. QED  BY <1>1, <3>1
  <2>. HIDE DEF Good, F
  <2>5. ASSUME NEW k \in Text, <<k, s>> \in Asks(DOMAIN defs) PROVE k \in Good /\ F[k] \in Text /\ h[k] = F[k]
    <3>1. k \in Good
      BY <2>2, <2>5
    <3>2. F[k] \in Text
      BY <1>2, <3>1 DEF Follows
    <3>3. h[k] = F[k]
      BY <2>3, <3>1
    <3>. QED  BY <3>1, <3>2, <3>3
  <2>6. h[s] = Rule(defs, F, s) /\ s \in more
    OBVIOUS
  <2>7. ASSUME NEW r \in Good PROVE h[r] = F[r] /\ r \in more
    BY <2>3
  <2>8. DOMAIN h = more /\ h = [r \in more |-> h[r]]
    OBVIOUS
  <2>9. \A r \in more : r \in Good \/ r = s
    OBVIOUS
  <2>10. more \in SUBSET Text
    BY <1>2, <2>3 DEF Follows
  <2>. HIDE DEF h, more
  <2>11. Rule(defs, F, s) = Rule(defs, h, s) /\ Rule(defs, F, s) \in Text
    BY <2>3, <2>5, RuleLocal
  <2>12. ASSUME NEW r \in more
         PROVE  /\ h[r] \in Text /\ h[r] = Rule(defs, h, r)
                /\ \A k \in Text : <<k, r>> \in Asks(DOMAIN defs) => k \in more
    <3>1. CASE r = s
      BY <2>5, <2>6, <2>7, <2>11, <3>1
    <3>2. CASE r \in Good
      <4>1. r \in Text /\ F[r] \in Text /\ F[r] = Rule(defs, F, r)
            /\ \A k \in Text : <<k, r>> \in Asks(DOMAIN defs) => k \in Good
        BY <1>2, <3>2 DEF Follows
      <4>2. ASSUME NEW k \in Text, <<k, r>> \in Asks(DOMAIN defs)
            PROVE  F[k] = h[k] /\ F[k] \in Text /\ k \in more
        <5>1. k \in Good
          BY <4>1, <4>2
        <5>2. F[k] \in Text
          BY <1>2, <5>1 DEF Follows
        <5>. QED  BY <2>7, <5>1, <5>2
      <4>3. Rule(defs, F, r) = Rule(defs, h, r)
        BY <4>1, <4>2, RuleLocal
      <4>. QED  BY <2>7, <3>2, <4>1, <4>2, <4>3
    <3>. QED  BY <2>9, <3>1, <3>2
  <2>13. h \in [more -> Text]
    BY <2>8, <2>12
  <2>14. Follows(defs, h, more)
    BY <2>10, <2>12, <2>13 DEF Follows
  <2>. QED  BY <2>3, <2>4, <2>14
<1>. HIDE DEF Good, F
<1>4. F \in [Text -> Text] /\ \A s \in Text : F[s] = Rule(defs, F, s)
  BY <1>2, <1>3 DEF Follows
<1>5. F = [tokens \in Text |-> Rule(defs, F, tokens)]
  BY <1>4
<1>. DEFINE X == Expansion(defs)
<1>6. X = [tokens \in Text |-> Rule(defs, X, tokens)]
  BY <1>5, Unfolds
<1>. HIDE DEF X
<1>7. \A s \in Text : X[s] = Rule(defs, X, s)
  BY <1>6
<1>8. \A s \in Text : X[s] \in Text
  <2>. DEFINE Bad == {s \in Text : X[s] \notin Text}
  <2>1. SUFFICES ASSUME Bad # {} PROVE FALSE
    OBVIOUS
  <2>2. PICK s \in Bad : \A k \in Bad : <<k, s>> \notin Asks(DOMAIN defs)
    <3>1. Bad \subseteq Text /\ IsFiniteSet(DOMAIN defs)
      BY DEF IsTable
    <3>. HIDE DEF Bad
    <3>. QED  BY <2>1, <3>1, ExpansionEnds
  <2>3. s \in Text /\ X[s] \notin Text
    OBVIOUS
  <2>4. ASSUME NEW k \in Text, <<k, s>> \in Asks(DOMAIN defs) PROVE X[k] = X[k] /\ X[k] \in Text
    BY <2>2, <2>4
  <2>5. Rule(defs, X, s) \in Text
    BY <2>3, <2>4, RuleLocal
  <2>. QED  BY <1>7, <2>3, <2>5
<1>9. X \in [Text -> Text]
  <2>1. DOMAIN X = Text /\ X = [s \in Text |-> X[s]]
    BY <1>6
  <2>. QED  BY <1>8, <2>1
<1>. QED  BY <1>7, <1>9 DEF X

LEMMA ExpandsText ==
    ASSUME NEW defs, IsTable(defs)
    PROVE  /\ <<>> \in Text /\ Expansion(defs)[<<>>] = <<>>
           /\ \A s \in Text : Expansion(defs)[s] \in Text
<1>1. <<>> \in Text
  BY DEF Text
<1>. QED  BY <1>1, ExpansionFollows DEF Rule

\* A token that is no macro, or no call of one, is kept.
LEMMA ExpandsKept ==
    ASSUME NEW defs, IsTable(defs), NEW t \in TextToken, NEW r \in Text,
           \/ t.atom \notin DOMAIN defs \/ t.atom \in t.hide
           \/ defs[t.atom].functionLike /\ Closing(r) = 0
    PROVE  Expansion(defs)[<<t>> ++ r] = <<t>> ++ Expansion(defs)[r]
<1>. DEFINE s == <<t>> ++ r
<1>1. s \in Text /\ s # <<>> /\ Head(s) = t /\ Tail(s) = r
  BY First
<1>2. Expansion(defs)[s] = Rule(defs, Expansion(defs), s)
  BY <1>1, ExpansionFollows
<1>. HIDE DEF s
<1>3. Rule(defs, Expansion(defs), s) = <<t>> ++ Expansion(defs)[r]
  BY <1>1 DEF Rule, ++
<1>. QED  BY <1>2, <1>3 DEF s

LEMMA ExpandsObject ==
    ASSUME NEW defs, IsTable(defs), NEW t \in TextToken, NEW r \in Text,
           t.atom \in DOMAIN defs, t.atom \notin t.hide, ~defs[t.atom].functionLike
    PROVE  Expansion(defs)[<<t>> ++ r] =
             Expansion(defs)[Substituted(defs[t.atom], <<>>, t.hide \cup {t.atom}) ++ r]
<1>. DEFINE s == <<t>> ++ r
<1>1. s \in Text /\ s # <<>> /\ Head(s) = t /\ Tail(s) = r
  BY First
<1>2. Expansion(defs)[s] = Rule(defs, Expansion(defs), s)
  BY <1>1, ExpansionFollows
<1>. HIDE DEF s
<1>3. Rule(defs, Expansion(defs), s) = Expansion(defs)[Substituted(defs[t.atom], <<>>, t.hide \cup {t.atom}) ++ r]
  BY <1>1 DEF Rule, ++
<1>. QED  BY <1>2, <1>3 DEF s

LEMMA ExpandsCall ==
    ASSUME NEW defs, IsTable(defs), NEW t \in TextToken, NEW r \in Text,
           t.atom \in DOMAIN defs, t.atom \notin t.hide, defs[t.atom].functionLike, Closing(r) # 0
    PROVE  Expansion(defs)[<<t>> ++ r] =
             Expansion(defs)[Substituted(defs[t.atom], GivenTexts(defs[t.atom], Expansion(defs), r, Closing(r)),
                                         (t.hide \cap r[Closing(r)].hide) \cup {t.atom})
                               ++ SubSeq(r, Closing(r) + 1, Len(r))]
<1>. DEFINE s == <<t>> ++ r
<1>1. s \in Text /\ s # <<>> /\ Head(s) = t /\ Tail(s) = r
  BY First
<1>2. Expansion(defs)[s] = Rule(defs, Expansion(defs), s)
  BY <1>1, ExpansionFollows
<1>. HIDE DEF s
<1>3. Rule(defs, Expansion(defs), s) =
             Expansion(defs)[Substituted(defs[t.atom], GivenTexts(defs[t.atom], Expansion(defs), r, Closing(r)),
                                         (t.hide \cap r[Closing(r)].hide) \cup {t.atom})
                               ++ SubSeq(r, Closing(r) + 1, Len(r))]
  BY <1>1 DEF Rule, ++
<1>. QED  BY <1>2, <1>3 DEF s

LEMMA UnbrokenText ==
    ASSUME NEW s \in Text
    PROVE  /\ Unbroken(s) \in Text /\ (s = <<>> => Unbroken(s) = <<>>)
           /\ s # <<>> =>
                /\ Unbroken(Tail(s)) \in Text /\ Head(s) \in TextToken
                /\ Unbroken(s) = IF Head(s).atom = "\n" THEN Unbroken(Tail(s)) ELSE <<Head(s)>> ++ Unbroken(Tail(s))
<1>. DEFINE P(i) == IF s[i].atom = "\n" THEN <<>> ELSE <<s[i]>>
            ps == [i \in DOMAIN s |-> P(i)]
<1>1. Len(s) \in Nat /\ DOMAIN s = 1 .. Len(s) /\ \A i \in 1 .. Len(s) : s[i] \in TextToken
  BY Members DEF TextToken
<1>2. ASSUME NEW i \in 1 .. Len(s) PROVE P(i) \in Text
  BY <1>1, First, Joins
<1>3. ps \in Seq(Text) /\ Len(ps) = Len(s) /\ \A i \in 1 .. Len(s) : ps[i] = P(i)
  <2>1. ps = [i \in 1 .. Len(s) |-> P(i)]
    BY <1>1
  <2>. HIDE DEF P
  <2>2. ps \in [1 .. Len(s) -> Text] /\ \A i \in 1 .. Len(s) : ps[i] = P(i)
    BY <1>2, <2>1
  <2>. HIDE DEF ps
  <2>. QED  BY <1>1, <2>2
<1>4. Unbroken(s) = FlattenSeq(ps)
  BY DEF Unbroken
<1>. HIDE DEF ps
<1>5. FlattenSeq(ps) \in Text /\ (ps = <<>> => FlattenSeq(ps) = <<>>)
  BY <1>3, FlattenText
<1>6. s = <<>> => ps = <<>>
  BY <1>3
<1>7. ASSUME s # <<>>
      PROVE  /\ Unbroken(Tail(s)) \in Text /\ Head(s) \in TextToken
             /\ Unbroken(s) = IF Head(s).atom = "\n" THEN Unbroken(Tail(s)) ELSE <<Head(s)>> ++ Unbroken(Tail(s))
  <2>. DEFINE r == Tail(s)
              rs == [i \in DOMAIN r |-> IF r[i].atom = "\n" THEN <<>> ELSE <<r[i]>>]
  <2>1. r \in Text /\ Head(s) \in TextToken /\ Head(s) = s[1] /\ Len(s) = Len(r) + 1 /\ Len(r) \in Nat
        /\ \A i \in 1 .. Len(r) : r[i] = s[i + 1]
    <3>1. s \in Seq(TextToken)
      BY DEF Text, TextToken
    <3>. QED  BY <1>7, <3>1, Begins, HeadTailProperties
  <2>2. DOMAIN r = 1 .. Len(r)
    BY <2>1, Members
  <2>. HIDE DEF r
  <2>3. rs = [i \in 1 .. Len(r) |-> P(i + 1)]
    BY <2>1, <2>2
  <2>4. \A i \in 1 .. Len(r) : P(i + 1) = ps[i + 1]
    BY <1>3, <2>1
  <2>. HIDE DEF rs
  <2>5. Tail(ps) \in Seq(Text) /\ ps # <<>> /\ Head(ps) = ps[1] /\ Len(Tail(ps)) = Len(r)
        /\ \A i \in 1 .. Len(r) : Tail(ps)[i] = ps[i + 1]
    <3>1. ps # <<>>
      BY <1>3, <2>1
    <3>2. Tail(ps) \in Seq(Text) /\ Len(Tail(ps)) = Len(ps) - 1 /\ \A i \in 1 .. Len(Tail(ps)) : Tail(ps)[i] = ps[i + 1]
      BY <1>3, <3>1, HeadTailProperties
    <3>. QED  BY <1>3, <2>1, <3>1, <3>2
  <2>6. rs = Tail(ps)
    <3>1. Tail(ps) = [i \in 1 .. Len(r) |-> Tail(ps)[i]]
      <4>1. DOMAIN Tail(ps) = 1 .. Len(r) /\ Tail(ps) \in [1 .. Len(r) -> Text]
        BY <2>5, LenProperties
      <4>. QED  BY <4>1
    <3>2. \A i \in 1 .. Len(r) : Tail(ps)[i] = P(i + 1)
      BY <2>4, <2>5
    <3>. HIDE DEF P
    <3>. QED  BY <2>3, <3>1, <3>2
  <2>7. FlattenSeq(ps) = Head(ps) ++ FlattenSeq(Tail(ps)) /\ FlattenSeq(Tail(ps)) \in Text
    BY <1>3, <2>5, FlattenHead
  <2>8. Unbroken(r) = FlattenSeq(Tail(ps))
    BY <2>6 DEF Unbroken, rs
  <2>9. Head(ps) = P(1)
    BY <1>3, <2>1, <2>5
  <2>10. <<>> ++ FlattenSeq(Tail(ps)) = FlattenSeq(Tail(ps))
    BY <2>7, Joins
  <2>. QED  BY <1>4, <2>1, <2>7, <2>8, <2>9, <2>10 DEF r
<1>. QED  BY <1>4, <1>5, <1>6, <1>7

LEMMA UnbrokenPlain ==
    ASSUME NEW s \in Text, \A i \in 1 .. Len(s) : s[i].atom # "\n"
    PROVE  Unbroken(s) = s
<1>. DEFINE Flat(r) == \A i \in 1 .. Len(r) : r[i].atom # "\n"
            Bad == {n \in Nat : \E r \in Text : Len(r) = n /\ Flat(r) /\ Unbroken(r) # r}
<1>1. SUFFICES ASSUME Bad # {} PROVE FALSE
  <2>1. ASSUME Unbroken(s) # s PROVE Len(s) \in Bad
    BY <2>1, Members
  <2>. QED  BY <2>1
<1>2. PICK n \in Bad : \A k \in Bad : n <= k
  <2>1. Bad \subseteq Nat
    OBVIOUS
  <2>. HIDE DEF Bad
  <2>. QED  BY <1>1, <2>1, Least, Zenon
<1>3. PICK r \in Text : Len(r) = n /\ Flat(r) /\ Unbroken(r) # r
  OBVIOUS
<1>4. r # <<>>
  BY <1>3, UnbrokenText
<1>5. Head(r) \in TextToken /\ Tail(r) \in Text /\ r = <<Head(r)>> ++ Tail(r) /\ Head(r) = r[1]
      /\ Len(r) = Len(Tail(r)) + 1 /\ Len(Tail(r)) \in Nat
  BY <1>4, Begins
<1>6. \A i \in 1 .. Len(Tail(r)) : Tail(r)[i] = r[i + 1]
  BY <1>4, HeadTailProperties DEF Text
<1>7. r[1].atom # "\n" /\ Flat(Tail(r))
  BY <1>3, <1>5, <1>6
<1>8. Unbroken(r) = <<Head(r)>> ++ Unbroken(Tail(r))
  BY <1>4, <1>5, <1>7, UnbrokenText
<1>9. Unbroken(Tail(r)) # Tail(r)
  BY <1>3, <1>5, <1>8
<1>10. Len(Tail(r)) \in Bad /\ ~(n <= Len(Tail(r)))
  <2>. DEFINE q == Tail(r)
  <2>1. q \in Text /\ Len(q) \in Nat /\ Flat(q) /\ Unbroken(q) # q /\ n = Len(q) + 1
    BY <1>3, <1>5, <1>7, <1>9
  <2>. HIDE DEF q
  <2>2. Len(q) \in Bad /\ ~(n <= Len(q))
    BY <2>1
  <2>. QED  BY <2>2 DEF q
<1>. QED  BY <1>2, <1>10

-----------------------------------------------------------------------------
\* What the inputs hold

LEMMA MacroTable ==
    ASSUME TypeInv
    PROVE  IsTable(macroDefs)
<1>1. macroDefs \in Tables
  BY DEF TypeInv
<1>2. IsFiniteSet(DOMAIN macroDefs) /\ DOMAIN macroDefs \subseteq STRING
  BY <1>1, MacroAssumption
<1>3. ASSUME NEW m \in DOMAIN macroDefs
      PROVE  /\ macroDefs[m].functionLike \in BOOLEAN /\ macroDefs[m].args \in Seq(STRING)
             /\ macroDefs[m].body \in Seq(STRING) /\ (~macroDefs[m].functionLike => macroDefs[m].args = <<>>)
  <2>1. macroDefs[m].body \in Seq(STRING \ Reserved)
    BY <1>3, Macros
  <2>2. macroDefs[m].body \in Seq(STRING)
    BY <2>1, SeqMonotonic
  <2>. QED  BY <1>3, <2>2, Macros
<1>. QED  BY <1>2, <1>3 DEF IsTable

LEMMA TokenTexts ==
    /\ \A s \in Seq(SourceToken) : s \in Text
    /\ \A s \in Seq(PlainToken) : s \in Text /\ s \in Seq(SourceToken) /\ \A i \in 1 .. Len(s) : s[i].atom # "\n" /\ s[i] \in PlainToken
    /\ SourceToken \subseteq TextToken /\ PlainToken \subseteq TextToken /\ <<>> \in Text
    /\ \A t \in PlainToken : t.atom # "\n"
<1>1. SourceToken \subseteq TextToken /\ PlainToken \subseteq TextToken
  BY DEF SourceToken, PlainToken, TextToken
<1>2. \A s \in Seq(SourceToken) : s \in Text
  BY <1>1, SeqMonotonic DEF Text, TextToken
<1>3. \A t \in PlainToken : t.atom # "\n"
  BY DEF PlainToken, Reserved
<1>4. ASSUME NEW s \in Seq(PlainToken)
      PROVE  s \in Text /\ s \in Seq(SourceToken) /\ \A i \in 1 .. Len(s) : s[i].atom # "\n" /\ s[i] \in PlainToken
  <2>1. s \in Text
    BY <1>1, SeqMonotonic DEF Text, TextToken
  <2>2. \A i \in 1 .. Len(s) : s[i] \in PlainToken
    BY ElementOfSeq
  <2>. QED  BY <1>3, <2>1, <2>2, TokenSets
<1>5. <<>> \in Text
  BY DEF Text
<1>. QED  BY <1>1, <1>2, <1>3, <1>4, <1>5

InputText(defs, in, pos) ==
    IF in.kind = "macro"
    THEN Hidden(Pieces(defs[in.mac], in.args, SubSeq(defs[in.mac].body, pos[in.mac], Len(defs[in.mac].body))), in.hide)
    ELSE Unbroken(in.rest)

\* x[i] is what the inputs up to the i-th hold above the last marker
Holds(defs, s, pos, x) ==
    /\ x \in [0 .. Len(s) -> Text] /\ x[0] = <<>>
    /\ \A i \in 1 .. Len(s) : x[i] = IF Live(s[i]) THEN <<>> ELSE InputText(defs, s[i], pos) ++ x[i - 1]
Ahead(defs, s, pos) == CHOOSE x : Holds(defs, s, pos, x)

Positions(defs) == [DOMAIN defs -> Nat \ {0}]

LEMMA InputTexts ==
    ASSUME NEW defs, IsTable(defs), NEW pos \in Positions(defs), NEW in \in Input(defs), ~Live(in)
    PROVE  InputText(defs, in, pos) \in Text
<1>1. CASE in.kind = "macro"
  <2>1. in.mac \in DOMAIN defs /\ in.args \in Arguments /\ in.hide \in SUBSET STRING /\ Len(in.args) = Len(defs[in.mac].args)
    BY <1>1 DEF Input, TokenInput, MacroInput
  <2>. DEFINE b == defs[in.mac].body
              n == pos[in.mac]
  <2>2. b \in Seq(STRING) /\ n \in Nat \ {0} /\ defs[in.mac].args \in Seq(STRING)
    BY <2>1 DEF IsTable, Positions
  <2>3. SubSeq(b, n, Len(b)) \in Seq(STRING)
    <3>. HIDE DEF b, n
    <3>1. Len(b) \in Nat /\ \A i \in n .. Len(b) : b[i] \in STRING
      BY <2>2
    <3>. QED  BY <2>2, <3>1, SubSeqProperties
  <2>4. Gives(defs[in.mac], in.args)
    <3>1. DOMAIN defs[in.mac].args = 1 .. Len(defs[in.mac].args)
      BY <2>2, LenProperties
    <3>2. \A k \in 1 .. Len(in.args) : in.args[k] \in Seq(PlainToken)
      BY <2>1, ElementOfSeq DEF Arguments
    <3>. QED  BY <2>1, <2>2, <3>1, <3>2, TokenTexts DEF Gives
  <2>. HIDE DEF b, n
  <2>5. Pieces(defs[in.mac], in.args, SubSeq(b, n, Len(b))) \in Text
    BY <2>3, <2>4, PiecesText
  <2>. QED  BY <1>1, <2>1, <2>5, HiddenText DEF InputText, b, n
<1>2. CASE in.kind # "macro"
  <2>1. in.rest \in Seq(SourceToken) /\ in.rest \in Text
    BY <1>2, TokenTexts DEF Input, TokenInput, MacroInput, Live
  <2>. QED  BY <1>2, <2>1, UnbrokenText DEF InputText
<1>. QED  BY <1>1, <1>2

LEMMA HoldsSome ==
    ASSUME NEW defs, IsTable(defs), NEW pos \in Positions(defs), NEW s \in Seq(Input(defs))
    PROVE  \E x : Holds(defs, s, pos, x)
<1>. DEFINE I(i)    == InputText(defs, s[i], pos)
            Up(x, n) == /\ x \in [0 .. n -> Text] /\ x[0] = <<>>
                        /\ \A i \in 1 .. n : x[i] = IF Live(s[i]) THEN <<>> ELSE I(i) ++ x[i - 1]
            Bad == {n \in 0 .. Len(s) : ~\E x : Up(x, n)}
<1>1. Len(s) \in Nat /\ \A i \in 1 .. Len(s) : ~Live(s[i]) => I(i) \in Text
  BY InputTexts
<1>2. Bad = {}
  <2>1. SUFFICES ASSUME Bad # {} PROVE FALSE
    OBVIOUS
  <2>2. Bad \subseteq Nat
    OBVIOUS
  <2>3. PICK n \in Bad : \A k \in Bad : n <= k
    <3>. HIDE DEF Bad
    <3>. QED  BY <2>1, <2>2, Least, Zenon
  <2>4. n \in 0 .. Len(s) /\ n \in Nat /\ ~\E x : Up(x, n)
    BY <1>1, <2>3
  <2>5. n # 0
    <3>1. Up([i \in 0 .. 0 |-> <<>>], 0)
      <4>1. <<>> \in Text
        BY TokenTexts
      <4>. QED  BY <4>1
    <3>. HIDE DEF Up
    <3>. QED  BY <2>4, <3>1
  <2>6. n - 1 \in 0 .. Len(s) /\ n - 1 \notin Bad
    <3>1. n - 1 \in 0 .. Len(s) /\ ~(n <= n - 1)
      BY <1>1, <2>4, <2>5
    <3>. HIDE DEF Bad
    <3>. QED  BY <2>3, <3>1
  <2>7. PICK x : Up(x, n - 1)
    BY <2>6
  <2>. DEFINE y == [i \in 0 .. n |-> IF i = n THEN IF Live(s[n]) THEN <<>> ELSE I(n) ++ x[n - 1] ELSE x[i]]
  <2>8. \A i \in 0 .. n - 1 : x[i] \in Text
    BY <2>7
  <2>9. y[n] \in Text /\ y[n] = IF Live(s[n]) THEN <<>> ELSE I(n) ++ x[n - 1]
    <3>1. ~Live(s[n]) => I(n) \in Text
      BY <1>1, <2>4, <2>5
    <3>2. n - 1 \in 0 .. n - 1
      BY <2>4, <2>5
    <3>3. y[n] = IF Live(s[n]) THEN <<>> ELSE I(n) ++ x[n - 1]
      BY <2>4
    <3>. HIDE DEF I, Up, y
    <3>. QED  BY <2>8, <3>1, <3>2, <3>3, Joins, TokenTexts
  <2>10. \A i \in 0 .. n - 1 : y[i] = x[i]
    BY <2>4
  <2>11. Up(y, n)
    <3>1. y = [i \in 0 .. n |-> y[i]]
      OBVIOUS
    <3>. HIDE DEF y, I
    <3>2. ASSUME NEW i \in 0 .. n PROVE y[i] \in Text
      <4>1. i = n \/ i \in 0 .. n - 1
        BY <2>4
      <4>. QED  BY <2>8, <2>9, <2>10, <4>1
    <3>3. y[0] = <<>>
      BY <2>4, <2>5, <2>7, <2>10
    <3>4. ASSUME NEW i \in 1 .. n PROVE y[i] = IF Live(s[i]) THEN <<>> ELSE I(i) ++ y[i - 1]
      <4>1. CASE i = n
        <5>1. y[n - 1] = x[n - 1]
          BY <2>4, <2>5, <2>10
        <5>. QED  BY <2>9, <4>1, <5>1
      <4>2. CASE i # n
        <5>1. i \in 1 .. n - 1 /\ i \in 0 .. n - 1 /\ i - 1 \in 0 .. n - 1
          BY <2>4, <4>2
        <5>2. y[i] = x[i] /\ y[i - 1] = x[i - 1]
          BY <2>10, <5>1
        <5>. QED  BY <2>7, <5>1, <5>2
      <4>. QED  BY <4>1, <4>2
    <3>. QED  BY <3>1, <3>2, <3>3, <3>4
  <2>. QED  BY <2>4, <2>11
<1>3. Len(s) \notin Bad /\ Len(s) \in 0 .. Len(s)
  BY <1>1, <1>2
<1>4. PICK x : Up(x, Len(s))
  BY <1>3
<1>. QED  BY <1>4 DEF Holds

LEMMA AheadHolds ==
    ASSUME NEW defs, IsTable(defs), NEW pos \in Positions(defs), NEW s \in Seq(Input(defs))
    PROVE  /\ Ahead(defs, s, pos) \in [0 .. Len(s) -> Text] /\ Ahead(defs, s, pos)[0] = <<>> /\ Len(s) \in Nat
           /\ \A i \in 1 .. Len(s) : Ahead(defs, s, pos)[i] =
                IF Live(s[i]) THEN <<>> ELSE InputText(defs, s[i], pos) ++ Ahead(defs, s, pos)[i - 1]
<1>1. \E x : Holds(defs, s, pos, x)
  BY HoldsSome
<1>2. Holds(defs, s, pos, Ahead(defs, s, pos))
  BY <1>1 DEF Ahead
<1>. QED  BY <1>2 DEF Holds

\* It depends on these inputs and their places in their bodies alone.
LEMMA AheadSame ==
    ASSUME NEW defs, IsTable(defs), NEW pos \in Positions(defs), NEW s \in Seq(Input(defs)),
           NEW cur \in Positions(defs), NEW r \in Seq(Input(defs)), NEW m \in Nat, m <= Len(s), m <= Len(r),
           \A i \in 1 .. m : r[i] = s[i] /\ (s[i].kind = "macro" => cur[s[i].mac] = pos[s[i].mac])
    PROVE  \A i \in 0 .. m : Ahead(defs, r, cur)[i] = Ahead(defs, s, pos)[i]
<1>. DEFINE x == Ahead(defs, s, pos)
            y == Ahead(defs, r, cur)
            Bad == {i \in 0 .. m : y[i] # x[i]}
<1>1. /\ Len(s) \in Nat /\ Len(r) \in Nat
      /\ x[0] = <<>> /\ y[0] = <<>>
      /\ \A i \in 1 .. Len(s) : x[i] = (IF Live(s[i]) THEN <<>> ELSE InputText(defs, s[i], pos) ++ x[i - 1])
      /\ \A i \in 1 .. Len(r) : y[i] = (IF Live(r[i]) THEN <<>> ELSE InputText(defs, r[i], cur) ++ y[i - 1])
  BY AheadHolds
<1>. HIDE DEF x, y
<1>2. SUFFICES ASSUME Bad # {} PROVE FALSE
  BY DEF x, y
<1>3. PICK n \in Bad : \A k \in Bad : n <= k
  <2>1. Bad \subseteq Nat
    OBVIOUS
  <2>. HIDE DEF Bad
  <2>. QED  BY <1>2, <2>1, Least, Zenon
<1>4. n \in 0 .. m /\ y[n] # x[n]
  BY <1>3
<1>5. n # 0
  BY <1>1, <1>4
<1>6. n \in 1 .. m /\ n \in 1 .. Len(s) /\ n \in 1 .. Len(r) /\ n - 1 \in 0 .. m /\ n - 1 \notin Bad
  BY <1>1, <1>3, <1>4, <1>5
<1>7. y[n - 1] = x[n - 1]
  BY <1>6
<1>8. r[n] = s[n] /\ InputText(defs, r[n], cur) = InputText(defs, s[n], pos)
  <2>1. r[n] = s[n] /\ (s[n].kind = "macro" => cur[s[n].mac] = pos[s[n].mac])
    BY <1>6
  <2>. QED  BY <2>1 DEF InputText
<1>. HIDE DEF Bad
<1>. QED  BY <1>1, <1>4, <1>6, <1>7, <1>8

\* An input more holds its own text before the others'.
LEMMA AheadAdded ==
    ASSUME NEW defs, IsTable(defs), NEW pos \in Positions(defs), NEW s \in Seq(Input(defs)),
           NEW cur \in Positions(defs), NEW in \in Input(defs),
           \A i \in 1 .. Len(s) : s[i].kind = "macro" => cur[s[i].mac] = pos[s[i].mac]
    PROVE  LET r == Append(s, in) IN
           /\ r \in Seq(Input(defs)) /\ Len(r) = Len(s) + 1 /\ Len(s) \in Nat
           /\ \A i \in 0 .. Len(s) : Ahead(defs, r, cur)[i] = Ahead(defs, s, pos)[i]
           /\ Ahead(defs, r, cur)[Len(s) + 1] =
                IF Live(in) THEN <<>> ELSE InputText(defs, in, cur) ++ Ahead(defs, s, pos)[Len(s)]
<1>. DEFINE r == Append(s, in)
            n == Len(s)
<1>1. r \in Seq(Input(defs)) /\ Len(r) = n + 1 /\ n \in Nat /\ r[n + 1] = in /\ \A i \in 1 .. n : r[i] = s[i]
  BY Appended
<1>. HIDE DEF r
<1>2. \A i \in 0 .. n : Ahead(defs, r, cur)[i] = Ahead(defs, s, pos)[i]
  <2>1. n <= Len(s) /\ n <= Len(r)
    BY <1>1
  <2>. QED  BY <1>1, <2>1, AheadSame, SMTT(30)
<1>3. Ahead(defs, r, cur)[n + 1] = IF Live(in) THEN <<>> ELSE InputText(defs, in, cur) ++ Ahead(defs, r, cur)[n]
  <2>1. n + 1 \in 1 .. Len(r) /\ (n + 1) - 1 = n
    BY <1>1
  <2>2. Ahead(defs, r, cur)[n + 1] = IF Live(r[n + 1]) THEN <<>> ELSE InputText(defs, r[n + 1], cur) ++ Ahead(defs, r, cur)[n + 1 - 1]
    BY <1>1, <2>1, AheadHolds
  <2>. QED  BY <1>1, <2>1, <2>2
<1>4. n \in 0 .. n
  BY <1>1
<1>. QED  BY <1>1, <1>2, <1>3, <1>4 DEF r

(* The text of a macro at an atom of its body.                              *)
LEMMA MacroText ==
    ASSUME NEW defs, IsTable(defs), NEW pos \in Positions(defs), NEW in \in MacroInput(defs),
           NEW cur \in Positions(defs), cur[in.mac] = pos[in.mac] + 1
    PROVE  LET def  == defs[in.mac]
               n    == pos[in.mac]
           IN
           /\ ~Live(in) /\ in \in Input(defs) /\ in.hide \in SUBSET STRING /\ Gives(def, in.args)
           /\ n > Len(def.body) => InputText(defs, in, pos) = <<>>
           /\ n <= Len(def.body) =>
                /\ InputText(defs, in, cur) \in Text
                /\ Hidden(Piece(def, in.args, def.body[n]), in.hide) \in Text
                /\ InputText(defs, in, pos) = Hidden(Piece(def, in.args, def.body[n]), in.hide) ++ InputText(defs, in, cur)
<1>. DEFINE def  == defs[in.mac]
            n    == pos[in.mac]
            b    == def.body
            rest == SubSeq(b, n, Len(b))
            tail == SubSeq(b, n + 1, Len(b))
<1>1. in.mac \in DOMAIN defs /\ in.args \in Arguments /\ in.hide \in SUBSET STRING /\ Len(in.args) = Len(def.args)
      /\ in.kind = "macro" /\ in \in Input(defs)
  BY DEF Input, MacroInput
<1>2. b \in Seq(STRING) /\ n \in Nat \ {0} /\ def.args \in Seq(STRING) /\ Len(b) \in Nat
  BY <1>1 DEF IsTable, Positions
<1>3. Gives(def, in.args)
  <2>1. DOMAIN def.args = 1 .. Len(def.args)
    BY <1>2, LenProperties
  <2>2. \A k \in 1 .. Len(in.args) : in.args[k] \in Seq(PlainToken)
    BY <1>1, ElementOfSeq DEF Arguments
  <2>. QED  BY <1>1, <1>2, <2>1, <2>2, TokenTexts DEF Gives
<1>4. ~Live(in)
  BY <1>1 DEF Live
<1>5. InputText(defs, in, pos) = Hidden(Pieces(def, in.args, rest), in.hide)
  BY <1>1 DEF InputText
<1>6. InputText(defs, in, cur) = Hidden(Pieces(def, in.args, tail), in.hide)
  BY <1>1 DEF InputText
<1>. HIDE DEF b, n, rest, tail
<1>7. ASSUME n > Len(b) PROVE InputText(defs, in, pos) = <<>>
  <2>1. rest = <<>>
    BY <1>2, <1>7, SubSeqEmpty DEF rest
  <2>2. rest \in Seq(STRING)
    BY <2>1
  <2>3. Pieces(def, in.args, rest) = <<>>
    BY <1>3, <2>1, <2>2, PiecesText
  <2>. QED  BY <1>1, <1>5, <2>3, HiddenText, TokenTexts
<1>8. ASSUME n <= Len(b)
      PROVE  /\ InputText(defs, in, cur) \in Text
             /\ Hidden(Piece(def, in.args, b[n]), in.hide) \in Text
             /\ InputText(defs, in, pos) = Hidden(Piece(def, in.args, b[n]), in.hide) ++ InputText(defs, in, cur)
  <2>1. n \in 1 .. Len(b) /\ Len(b) \in n .. Len(b)
    BY <1>2, <1>8
  <2>2. Head(rest) = b[n] /\ Tail(rest) = tail
    BY <1>2, <2>1, HeadTailOfSubSeq DEF rest, tail
  <2>3. rest \in Seq(STRING) /\ Len(rest) = Len(b) - n + 1
    <3>1. \A i \in n .. Len(b) : b[i] \in STRING
      BY <1>2
    <3>2. n \in Int /\ Len(b) \in Int /\ n <= Len(b)
      BY <1>2, <1>8
    <3>. QED  BY <3>1, <3>2, SubSeqProperties DEF rest
  <2>4. rest # <<>>
    BY <1>2, <1>8, <2>3
  <2>. DEFINE p == Piece(def, in.args, b[n])
              q == Pieces(def, in.args, tail)
  <2>5. p \in Text /\ q \in Text /\ Pieces(def, in.args, rest) = p ++ q
    BY <1>3, <2>2, <2>3, <2>4, PiecesText
  <2>. HIDE DEF p, q
  <2>6. Hidden(p ++ q, in.hide) = Hidden(p, in.hide) ++ Hidden(q, in.hide)
    BY <1>1, <2>5, HiddenJoin
  <2>7. Hidden(p, in.hide) \in Text /\ Hidden(q, in.hide) \in Text
    BY <1>1, <2>5, HiddenText
  <2>. QED  BY <1>5, <1>6, <2>5, <2>6, <2>7 DEF p, q
<1>. QED  BY <1>1, <1>3, <1>4, <1>7, <1>8 DEF b, n

LEMMA RestOnTop ==
    ASSUME TypeInv, inputStack # <<>>, top.kind # "macro"
    PROVE  Rest[Len(inputStack)] = [top EXCEPT !.rest = Tail(@)]
<1>. DEFINE left == [top EXCEPT !.rest = Tail(@)]
<1>1. Rest = Append(Front(inputStack), left)
  BY DEF Rest
<1>. HIDE DEF left
<1>2. Front(inputStack) \in Seq(Input(macroDefs)) /\ Len(Front(inputStack)) = Len(inputStack) - 1 /\ Len(inputStack) \in Nat \ {0}
  BY Popped DEF TypeInv
<1>3. Rest[Len(Front(inputStack)) + 1] = left
  BY <1>1, <1>2
<1>. QED  BY <1>2, <1>3 DEF left

\* the inputs below the top, whose macros are others than the one on top
LEMMA Below ==
    ASSUME TypeInv, BusyInv, inputStack # <<>>, top.kind = "macro"
    PROVE  \A i \in 1 .. Len(inputStack) - 1 : inputStack[i].kind = "macro" => inputStack[i].mac # top.mac /\ inputStack[i].mac \in DOMAIN macroDefs
<1>1. inputStack \in Seq(Input(macroDefs)) /\ Len(inputStack) \in Nat \ {0} /\ top = inputStack[Len(inputStack)]
  BY DEF TypeInv, top, Last
<1>2. ASSUME NEW i \in 1 .. Len(inputStack) - 1, inputStack[i].kind = "macro"
      PROVE  inputStack[i].mac # top.mac /\ inputStack[i].mac \in DOMAIN macroDefs
  <2>0. i \in 1 .. Len(inputStack) /\ Len(inputStack) \in 1 .. Len(inputStack) /\ i # Len(inputStack)
    BY <1>1
  <2>1. inputStack[i] \in Input(macroDefs)
    BY <1>1, <2>0
  <2>2. inputStack[i].mac \in DOMAIN macroDefs
    BY <1>2, <2>1 DEF Input, TokenInput, MacroInput
  <2>3. i \in MacroAt(inputStack, inputStack[i].mac)
    BY <1>2, <2>0 DEF MacroAt
  <2>4. ASSUME inputStack[i].mac = top.mac PROVE FALSE
    <3>1. Len(inputStack) \in MacroAt(inputStack, inputStack[i].mac)
      BY <1>1, <2>0, <2>4 DEF MacroAt
    <3>. QED  BY <2>0, <2>2, <2>3, <3>1 DEF BusyInv, Sole
  <2>. QED  BY <2>2, <2>4
<1>. QED  BY <1>2

Before == Ahead(macroDefs, inputStack, currentPos)
After  == Ahead(macroDefs, Rest, Moved)

(* Taking the token takes it from the text.                                 *)
LEMMA TextRead ==
    ASSUME IInv, Scanned, Ready
    PROVE  /\ Len(inputStack) \in Nat /\ \A i \in 0 .. Len(inputStack) : Before[i] \in Text /\ After[i] \in Text
           /\ \A i \in 0 .. Len(inputStack) : i < Len(inputStack) => After[i] = Before[i]
           /\ inputStack = <<>> => Before[Len(inputStack)] = <<>> /\ After[Len(inputStack)] = <<>>
           /\ inputStack # <<>> =>
                /\ Len(inputStack) - 1 \in 0 .. Len(inputStack)
                /\ token = Marker =>
                     Before[Len(inputStack)] = <<>> /\ After[Len(inputStack)] = Before[Len(inputStack) - 1]
                /\ token # Marker => token \in SourceToken /\ token \in TextToken /\
                     Before[Len(inputStack)] =
                       IF token.atom = "\n" THEN After[Len(inputStack)] ELSE <<token>> ++ After[Len(inputStack)]
<1>. DEFINE n == Len(inputStack)
<1>0. TypeInv /\ BusyInv /\ IsTable(macroDefs) /\ macroDefs \in Tables
  BY MacroTable DEF IInv, TypeInv
<1>1. /\ inputStack \in Seq(Input(macroDefs)) /\ Rest \in Seq(Input(macroDefs)) /\ Len(Rest) = n /\ n \in Nat
      /\ currentPos \in Positions(macroDefs) /\ Moved \in Positions(macroDefs)
      /\ \A i \in 1 .. n : i < n => Rest[i] = inputStack[i]
  BY <1>0 DEF TypeInv, Scanned, Positions
<1>2. /\ Before \in [0 .. n -> Text] /\ Before[0] = <<>>
      /\ \A i \in 1 .. n : Before[i] = (IF Live(inputStack[i]) THEN <<>> ELSE InputText(macroDefs, inputStack[i], currentPos) ++ Before[i - 1])
      /\ After \in [0 .. n -> Text] /\ After[0] = <<>>
      /\ \A i \in 1 .. n : After[i] = (IF Live(Rest[i]) THEN <<>> ELSE InputText(macroDefs, Rest[i], Moved) ++ After[i - 1])
  <2>1. /\ Before \in [0 .. n -> Text] /\ Before[0] = <<>>
        /\ \A i \in 1 .. n : Before[i] = (IF Live(inputStack[i]) THEN <<>> ELSE InputText(macroDefs, inputStack[i], currentPos) ++ Before[i - 1])
    BY <1>0, <1>1, AheadHolds DEF Before
  <2>2. /\ After \in [0 .. Len(Rest) -> Text] /\ After[0] = <<>>
        /\ \A i \in 1 .. Len(Rest) : After[i] = (IF Live(Rest[i]) THEN <<>> ELSE InputText(macroDefs, Rest[i], Moved) ++ After[i - 1])
    BY <1>0, <1>1, AheadHolds DEF After
  <2>. QED  BY <1>1, <2>1, <2>2
<1>3. \A i \in 0 .. n : Before[i] \in Text /\ After[i] \in Text
  BY <1>2
<1>4. CASE inputStack = <<>>
  <2>1. n = 0
    BY <1>4
  <2>. QED  BY <1>1, <1>2, <1>3, <1>4, <2>1
<1>5. CASE inputStack # <<>>
  <2>1. n \in Nat \ {0} /\ top = inputStack[n] /\ top \in Input(macroDefs) /\ n \in 1 .. n /\ n - 1 \in 0 .. n /\ n - 1 < n
        /\ n - 1 <= Len(Rest) /\ n - 1 <= n /\ n - 1 \in Nat
    <3>1. n # 0
      BY <1>1, <1>5, EmptySeq
    <3>. QED  BY <1>1, <1>5, <3>1 DEF Scanned
  <2>2. \A i \in 0 .. n - 1 : After[i] = Before[i]
    <3>1. ASSUME NEW i \in 1 .. n - 1
          PROVE  Rest[i] = inputStack[i] /\ (inputStack[i].kind = "macro" => Moved[inputStack[i].mac] = currentPos[inputStack[i].mac])
      <4>1. Rest[i] = inputStack[i]
        BY <1>1, <2>1
      <4>2. CASE top.kind = "macro"
        <5>1. inputStack[i].kind = "macro" => inputStack[i].mac # top.mac /\ inputStack[i].mac \in DOMAIN macroDefs
          BY <1>0, <1>5, <4>2, Below
        <5>. QED  BY <1>5, <4>1, <4>2, <5>1 DEF Scanned
      <4>3. CASE top.kind # "macro"
        BY <1>5, <4>1, <4>3 DEF Scanned
      <4>. QED  BY <4>2, <4>3
    <3>. DEFINE m == n - 1
    <3>2. m \in Nat /\ m <= n /\ m <= Len(Rest)
      BY <2>1
    <3>. HIDE DEF m
    <3>3. \A i \in 0 .. m : Ahead(macroDefs, Rest, Moved)[i] = Ahead(macroDefs, inputStack, currentPos)[i]
      <4>1. ASSUME NEW i \in 1 .. m
            PROVE  Rest[i] = inputStack[i] /\ (inputStack[i].kind = "macro" => Moved[inputStack[i].mac] = currentPos[inputStack[i].mac])
        BY <3>1 DEF m
      <4>. QED  BY <1>0, <1>1, <3>2, <4>1, AheadSame, SMTT(30)
    <3>. QED  BY <3>3 DEF Before, After, m
  <2>3. \A i \in 0 .. n : i < n => After[i] = Before[i]
    <3>1. \A i \in 0 .. n : i < n => i \in 0 .. n - 1
      BY <2>1
    <3>. QED  BY <2>2, <3>1
  <2>4. After[n - 1] = Before[n - 1] /\ Before[n - 1] \in Text /\ After[n] \in Text
    BY <1>3, <2>1, <2>3
  <2>5. CASE top.kind = "macro"
    <3>. DEFINE def  == macroDefs[top.mac]
                atom == body[currentPos[top.mac]]
    <3>1. top \in MacroInput(macroDefs) /\ top.mac \in DOMAIN macroDefs /\ top.hide \in SUBSET STRING
      BY <2>1, <2>5 DEF Input, TokenInput, MacroInput
    <3>2. ~AtEnd /\ Parameter = 0 /\ body = def.body /\ token = Token(atom, top.hide) /\ Rest = inputStack
          /\ Moved = [currentPos EXCEPT ![top.mac] = @ + 1]
      BY <1>5, <2>5 DEF Ready, body, token, Rest, Moved
    <3>3. Moved[top.mac] = currentPos[top.mac] + 1
      BY <1>1, <3>1, <3>2 DEF Positions
    <3>4. currentPos[top.mac] <= Len(def.body)
      <4>1. def.body \in Seq(STRING) /\ currentPos[top.mac] \in Nat
        BY <1>0, <1>1, <3>1 DEF IsTable, Positions
      <4>. QED  BY <2>5, <3>2, <4>1 DEF AtEnd, body
    <3>5. Piece(def, top.args, atom) = <<[atom |-> atom, hide |-> {}]>>
      <4>. DEFINE at == {k \in DOMAIN def.args : def.args[k] = atom}
      <4>1. Parameter = IF at # {} THEN CHOOSE i \in at : TRUE ELSE 0
        BY <2>5 DEF Parameter
      <4>2. at = {}
        <5>1. ASSUME at # {} PROVE FALSE
          <6>1. (CHOOSE i \in at : TRUE) \in at
            BY <5>1
          <6>2. 0 \in at
            BY <3>2, <4>1, <5>1, <6>1
          <6>3. DOMAIN def.args = 1 .. Len(def.args) /\ Len(def.args) \in Nat
            BY <1>0, <3>1, LenProperties DEF IsTable
          <6>. QED  BY <6>2, <6>3
        <5>. QED  BY <5>1
      <4>. QED  BY <4>2, Zenon DEF Piece
    <3>6. token \in PlainToken /\ token \in SourceToken /\ token \in TextToken /\ token # Marker /\ token.atom # "\n"
      <4>1. token \in PlainToken
        BY <1>5, <2>5 DEF Scanned
      <4>. QED  BY <4>1, TokenSets, TokenTexts
    <3>7. Hidden(<<[atom |-> atom, hide |-> {}]>>, top.hide) = <<token>>
      <4>1. token = [atom |-> atom, hide |-> top.hide]
        BY <3>2 DEF Token
      <4>2. [[atom |-> atom, hide |-> {}] EXCEPT !.hide = @ \cup top.hide] = [atom |-> atom, hide |-> top.hide]
        OBVIOUS
      <4>. DEFINE one == <<[atom |-> atom, hide |-> {}]>>
      <4>3. DOMAIN one = 1 .. 1 /\ one[1] = [atom |-> atom, hide |-> {}]
        OBVIOUS
      <4>4. Hidden(one, top.hide) = [i \in 1 .. 1 |-> [one[i] EXCEPT !.hide = @ \cup top.hide]]
        BY <4>3 DEF Hidden
      <4>5. \A i \in 1 .. 1 : [one[i] EXCEPT !.hide = @ \cup top.hide] = token
        BY <4>1, <4>2, <4>3
      <4>. HIDE DEF one
      <4>6. Hidden(one, top.hide) = [i \in 1 .. 1 |-> token]
        BY <4>4, <4>5
      <4>7. [i \in 1 .. 1 |-> token] = <<token>>
        OBVIOUS
      <4>. QED  BY <4>6, <4>7 DEF one
    <3>8. /\ ~Live(top)
          /\ InputText(macroDefs, top, Moved) \in Text
          /\ InputText(macroDefs, top, currentPos) = Hidden(Piece(def, top.args, def.body[currentPos[top.mac]]), top.hide) ++ InputText(macroDefs, top, Moved)
      BY <1>0, <1>1, <3>1, <3>3, <3>4, MacroText
    <3>9. InputText(macroDefs, top, currentPos) = <<token>> ++ InputText(macroDefs, top, Moved)
      BY <3>2, <3>5, <3>7, <3>8
    <3>10. Before[n] = InputText(macroDefs, top, currentPos) ++ Before[n - 1] /\ After[n] = InputText(macroDefs, top, Moved) ++ Before[n - 1]
      <4>1. Rest[n] = top
        BY <2>1, <3>2
      <4>. QED  BY <1>2, <2>1, <2>4, <3>8, <4>1
    <3>11. <<token>> \in Text
      BY <3>6, First, TokenTexts
    <3>. DEFINE one == <<token>>
                it  == InputText(macroDefs, top, Moved)
    <3>12. one \in Text /\ it \in Text /\ Before[n] = (one ++ it) ++ Before[n - 1] /\ After[n] = it ++ Before[n - 1]
      BY <3>8, <3>9, <3>10, <3>11
    <3>. HIDE DEF one, it
    <3>13. Before[n] = one ++ After[n]
      BY <2>4, <3>12, JoinsRegroup
    <3>. QED  BY <1>1, <1>3, <1>5, <2>1, <2>3, <3>6, <3>13 DEF one
  <2>6. CASE top.kind # "macro"
    <3>1. top.rest # <<>> /\ top \in TokenInput /\ token = Head(top.rest)
      BY <1>5, <2>1, <2>6 DEF Ready, AtEnd, Input, MacroInput, token
    <3>. DEFINE left == [top EXCEPT !.rest = Tail(@)]
    <3>2. Rest[n] = left /\ left.rest = Tail(top.rest) /\ left.kind = top.kind
      <4>1. Rest[n] = left
        BY <1>0, <1>5, <2>6, RestOnTop
      <4>. QED  BY <3>1, <4>1 DEF TokenInput
    <3>. HIDE DEF left
    <3>3. InputText(macroDefs, Rest[n], Moved) = Unbroken(Tail(top.rest)) /\ InputText(macroDefs, top, currentPos) = Unbroken(top.rest)
      BY <2>6, <3>2 DEF InputText
    <3>4. ~Live(Rest[n]) /\ IF Live(top) THEN token = Marker /\ Rest[n].rest = <<>> ELSE token \in SourceToken
      BY <1>5, <2>6 DEF Scanned
    <3>5. After[n] = Unbroken(Tail(top.rest)) ++ Before[n - 1]
      BY <1>2, <2>1, <2>4, <3>3, <3>4
    <3>6. CASE Live(top)
      <4>1. Tail(top.rest) = <<>>
        BY <3>2, <3>4, <3>6
      <4>2. Unbroken(Tail(top.rest)) = <<>>
        BY <4>1, UnbrokenText, TokenTexts
      <4>3. After[n] = Before[n - 1]
        BY <2>4, <3>5, <4>2, Joins
      <4>4. Before[n] = <<>>
        BY <1>2, <2>1, <3>6
      <4>. QED  BY <1>1, <1>3, <1>5, <2>1, <2>3, <3>4, <3>6, <4>3, <4>4
    <3>7. CASE ~Live(top)
      <4>1. top.rest \in Seq(SourceToken)
        BY <2>6, <3>1, <3>7 DEF TokenInput, Live
      <4>2. token \in SourceToken /\ token # Marker /\ token \in TextToken
        BY <3>4, <3>7, TokenSets, TokenTexts
      <4>3. Before[n] = Unbroken(top.rest) ++ Before[n - 1]
        BY <1>2, <2>1, <3>3, <3>7
      <4>4. /\ Unbroken(Tail(top.rest)) \in Text
            /\ Unbroken(top.rest) = IF token.atom = "\n" THEN Unbroken(Tail(top.rest)) ELSE <<token>> ++ Unbroken(Tail(top.rest))
        BY <3>1, <4>1, TokenTexts, UnbrokenText
      <4>. DEFINE one == <<token>>
                  it  == Unbroken(Tail(top.rest))
      <4>5. one \in Text /\ it \in Text /\ After[n] = it ++ Before[n - 1]
            /\ Before[n] = (IF token.atom = "\n" THEN it ELSE one ++ it) ++ Before[n - 1]
        BY <3>5, <4>2, <4>3, <4>4, First
      <4>. HIDE DEF one, it
      <4>6. token.atom # "\n" => Before[n] = one ++ After[n]
        BY <2>4, <4>5, JoinsRegroup
      <4>7. token.atom = "\n" => Before[n] = After[n]
        BY <4>5
      <4>. QED  BY <1>1, <1>3, <1>5, <2>1, <2>3, <4>2, <4>6, <4>7 DEF one
    <3>. QED  BY <3>6, <3>7
  <2>. QED  BY <2>5, <2>6
<1>. QED  BY <1>4, <1>5

-----------------------------------------------------------------------------
\* What hides, and what a scan reads up to

\* the macros that the first j inputs come out of are all hidden by hide
Under(s, j, hide) == \A i \in 1 .. j : s[i].kind = "macro" => s[i].hide \subseteq hide
TokensUnder(s, j, tokens) == \A q \in 1 .. Len(tokens) : Under(s, j, tokens[q].hide)

(* A token may not be expanded by the macros whose inputs are on the stack. *)
HidesAt(s, j) ==
    /\ s[j].kind = "macro" => s[j].mac \in s[j].hide /\ Under(s, j - 1, s[j].hide)
    /\ s[j].kind # "macro" => Live(s[j]) \/ TokensUnder(s, j - 1, s[j].rest)
Hides(s) == \A j \in 1 .. Len(s) : HidesAt(s, j)

LEMMA HidesAdded ==
    ASSUME NEW table, NEW s \in Seq(Input(table)), NEW x \in Input(table)
    PROVE  /\ \A h : Under(Append(s, x), Len(s) + 1, h) <=> Under(s, Len(s), h) /\ (x.kind = "macro" => x.hide \subseteq h)
           /\ Hides(s) /\ (x.kind = "macro" => x.mac \in x.hide /\ Under(s, Len(s), x.hide))
                /\ (x.kind # "macro" => Live(x) \/ TokensUnder(s, Len(s), x.rest)) => Hides(Append(s, x))
<1>. DEFINE r == Append(s, x)
            n == Len(s)
<1>1. Len(r) = n + 1 /\ n \in Nat /\ r[n + 1] = x /\ \A i \in 1 .. n : r[i] = s[i]
  BY Appended
<1>. HIDE DEF r, n
<1>2. \A j \in 0 .. n : \A h : Under(r, j, h) <=> Under(s, j, h)
  <2>1. \A j \in 0 .. n : \A i \in 1 .. j : i \in 1 .. n
    BY <1>1
  <2>. QED  BY <1>1, <2>1 DEF Under
<1>3. \A h : Under(r, n + 1, h) <=> Under(s, n, h) /\ (x.kind = "macro" => x.hide \subseteq h)
  <2>1. \A i \in 1 .. n + 1 : i \in 1 .. n \/ i = n + 1
    BY <1>1
  <2>2. n + 1 \in 1 .. n + 1 /\ \A i \in 1 .. n : i \in 1 .. n + 1
    BY <1>1
  <2>. QED  BY <1>1, <2>1, <2>2 DEF Under
<1>4. ASSUME Hides(s), x.kind = "macro" => x.mac \in x.hide /\ Under(s, n, x.hide),
             x.kind # "macro" => Live(x) \/ TokensUnder(s, n, x.rest)
      PROVE  Hides(r)
  <2>1. ASSUME NEW j \in 1 .. n + 1 PROVE HidesAt(r, j)
    <3>1. CASE j = n + 1
      <4>1. (n + 1) - 1 = n /\ n \in 0 .. n
        BY <1>1
      <4>. QED  BY <1>1, <1>2, <1>4, <3>1, <4>1 DEF HidesAt, TokensUnder
    <3>2. CASE j # n + 1
      <4>1. j \in 1 .. n /\ j - 1 \in 0 .. n
        BY <1>1, <3>2
      <4>2. HidesAt(s, j) /\ r[j] = s[j]
        BY <1>1, <1>4, <4>1 DEF Hides, n
      <4>3. \A h : Under(r, j - 1, h) <=> Under(s, j - 1, h)
        BY <1>2, <4>1
      <4>. QED  BY <4>2, <4>3 DEF HidesAt, TokensUnder
    <3>. QED  BY <3>1, <3>2
  <2>. QED  BY <1>1, <2>1 DEF Hides
<1>. QED  BY <1>3, <1>4 DEF r, n

LEMMA HidesTaken ==
    ASSUME TypeInv, Scanned, Hides(inputStack)
    PROVE  /\ Hides(Rest) /\ \A h : Under(Rest, Len(Rest), h) <=> Under(inputStack, Len(inputStack), h)
           /\ Ready /\ token \in SourceToken => Under(inputStack, Len(inputStack), token.hide)
<1>. DEFINE n == Len(inputStack)
<1>1. /\ n \in Nat /\ Len(Rest) = n /\ \A i \in 1 .. n : i < n => Rest[i] = inputStack[i]
      /\ \A i \in 1 .. n : Rest[i].kind = inputStack[i].kind /\ (Rest[i].kind = "macro" => Rest[i] = inputStack[i])
      /\ \A i \in 1 .. n : Rest[i] \in Input(macroDefs) /\ inputStack[i] \in Input(macroDefs)
  <2>1. \A i \in 1 .. n : inputStack[i] \in Input(macroDefs)
    BY DEF TypeInv
  <2>. QED  BY <2>1, Rests DEF Scanned
<1>. HIDE DEF n
<1>2. \A j \in 0 .. n : \A h : Under(Rest, j, h) <=> Under(inputStack, j, h)
  <2>1. \A j \in 0 .. n : \A i \in 1 .. j : i \in 1 .. n
    BY <1>1
  <2>. QED  BY <1>1, <2>1 DEF Under
<1>3. ASSUME NEW j \in 1 .. n PROVE HidesAt(Rest, j)
  <2>1. HidesAt(inputStack, j) /\ j - 1 \in 0 .. n
    BY <1>1 DEF Hides, n
  <2>2. \A h : Under(Rest, j - 1, h) <=> Under(inputStack, j - 1, h)
    BY <1>2, <2>1
  <2>3. CASE Rest[j] = inputStack[j]
    BY <2>1, <2>2, <2>3 DEF HidesAt, TokensUnder
  <2>4. CASE Rest[j] # inputStack[j]
    <3>1. j = n /\ Rest[j].kind # "macro" /\ inputStack[j].kind # "macro" /\ inputStack # <<>> /\ top = inputStack[n] /\ top \in Input(macroDefs)
      BY <1>1, <2>4 DEF Scanned, n
    <3>2. Rest[n] = [top EXCEPT !.rest = Tail(@)] /\ top \in TokenInput
      BY <3>1, RestOnTop DEF n, Input, MacroInput
    <3>3. Rest[n].rest = Tail(top.rest)
      BY <3>2 DEF TokenInput
    <3>4. CASE Live(top)
      <4>1. Rest[n].rest = <<>>
        BY <3>1, <3>4 DEF Scanned, n
      <4>2. TokensUnder(Rest, j - 1, Rest[n].rest)
        BY <4>1 DEF TokensUnder
      <4>. QED  BY <3>1, <4>2 DEF HidesAt
    <3>5. CASE ~Live(top)
      <4>1. TokensUnder(inputStack, j - 1, top.rest) /\ top.rest \in Seq(SourceToken)
        BY <2>1, <3>1, <3>2, <3>5 DEF HidesAt, TokenInput, Live
      <4>2. CASE top.rest = <<>>
        <5>1. Rest[n] = inputStack[n] \/ Tail(top.rest) = Tail(<<>>)
          BY <4>2
        <5>2. Rest[n].rest \in Seq(SourceToken) \cup {<<Marker>>}
          BY <1>1, <3>1 DEF Input, TokenInput, MacroInput
        <5>. QED  BY <2>1, <2>2, <3>1, <3>2, <3>3, <4>1, <4>2 DEF HidesAt, TokensUnder
      <4>3. CASE top.rest # <<>>
        <5>1. Len(top.rest) \in Nat \ {0} /\ Len(Tail(top.rest)) = Len(top.rest) - 1
              /\ \A q \in 1 .. Len(Tail(top.rest)) : Tail(top.rest)[q] = top.rest[q + 1] /\ q + 1 \in 1 .. Len(top.rest)
          BY <4>1, <4>3
        <5>2. TokensUnder(Rest, j - 1, Tail(top.rest))
          <6>. HIDE DEF n
          <6>. QED  BY <2>2, <4>1, <5>1 DEF TokensUnder
        <5>. QED  BY <3>1, <3>3, <5>2 DEF HidesAt
      <4>. QED  BY <4>2, <4>3
    <3>. QED  BY <3>4, <3>5
  <2>. QED  BY <2>3, <2>4
<1>4. ASSUME Ready, token \in SourceToken PROVE Under(inputStack, n, token.hide)
  <2>1. inputStack # <<>> /\ n \in 1 .. n /\ top = inputStack[n] /\ top \in Input(macroDefs)
    <3>1. inputStack # <<>>
      BY <1>4, TokenSets DEF Scanned
    <3>2. n # 0
      BY <3>1, EmptySeq DEF n, TypeInv
    <3>. QED  BY <1>1, <3>1, <3>2 DEF Scanned, n
  <2>2. HidesAt(inputStack, n) /\ n - 1 \in 0 .. n
    BY <1>1, <2>1 DEF Hides, n
  <2>3. \A h : Under(inputStack, n - 1, h) /\ (top.kind = "macro" => top.hide \subseteq h) => Under(inputStack, n, h)
    <3>1. \A i \in 1 .. n : i \in 1 .. n - 1 \/ i = n
      BY <1>1
    <3>. QED  BY <2>1, <3>1 DEF Under
  <2>4. CASE top.kind = "macro"
    <3>1. token.hide = top.hide
      BY <2>1, <2>4 DEF token, Token
    <3>2. Under(inputStack, n - 1, top.hide)
      BY <2>1, <2>2, <2>4 DEF HidesAt
    <3>. QED  BY <2>3, <3>1, <3>2
  <2>5. CASE top.kind # "macro"
    <3>1. ~Live(top) /\ top.rest # <<>> /\ token = Head(top.rest) /\ top \in TokenInput
      BY <1>4, <2>1, <2>5, TokenSets DEF Scanned, Ready, AtEnd, token, Input, MacroInput
    <3>2. TokensUnder(inputStack, n - 1, top.rest) /\ top.rest \in Seq(SourceToken)
      BY <2>1, <2>2, <2>5, <3>1 DEF HidesAt, TokenInput, Live
    <3>3. 1 \in 1 .. Len(top.rest) /\ token = top.rest[1]
      BY <3>1, <3>2
    <3>. QED  BY <2>3, <2>5, <3>2, <3>3 DEF TokensUnder
  <2>. QED  BY <2>4, <2>5
<1>5. n \in 0 .. n
  BY <1>1
<1>. QED  BY <1>1, <1>2, <1>3, <1>4, <1>5 DEF n, Hides

LEMMA HidesPopped ==
    ASSUME NEW table, NEW s \in Seq(Input(table)), s # <<>>
    PROVE  /\ \A h : Under(s, Len(s), h) => Under(Front(s), Len(Front(s)), h)
           /\ Hides(s) => Hides(Front(s))
<1>. DEFINE r == Front(s)
            n == Len(s)
<1>1. Len(r) = n - 1 /\ n \in Nat \ {0} /\ \A i \in 1 .. n - 1 : r[i] = s[i]
  BY Popped
<1>. HIDE DEF r, n
<1>2. \A j \in 0 .. n - 1 : \A i \in 1 .. j : i \in 1 .. n - 1
  BY <1>1
<1>3. \A j \in 0 .. n - 1 : \A h : Under(s, j, h) <=> Under(r, j, h)
  BY <1>1, <1>2 DEF Under
<1>4. \A h : Under(s, n, h) => Under(r, n - 1, h)
  <2>1. \A i \in 1 .. n - 1 : i \in 1 .. n
    BY <1>1
  <2>. QED  BY <1>1, <2>1 DEF Under
<1>5. ASSUME Hides(s), NEW j \in 1 .. n - 1 PROVE HidesAt(r, j)
  <2>1. HidesAt(s, j) /\ j - 1 \in 0 .. n - 1 /\ r[j] = s[j]
    <3>1. j \in 1 .. n
      BY <1>1
    <3>. QED  BY <1>1, <1>5, <3>1 DEF Hides, n
  <2>2. \A h : Under(r, j - 1, h) <=> Under(s, j - 1, h)
    BY <1>3, <2>1
  <2>. QED  BY <2>1, <2>2 DEF HidesAt, TokensUnder
<1>. QED  BY <1>1, <1>4, <1>5 DEF Hides, r, n

(* The last scan's own marker is still to be read, above inputs that are    *)
(* used up, and is the only one above the inputs it started on.             *)
Spent(in) == in.kind # "macro" /\ in.rest = <<>>
MarkedAt(s, lo, p) ==
    /\ p \in 1 .. Len(s) /\ lo < p /\ Live(s[p])
    /\ \A i \in 1 .. Len(s) : (lo < i /\ i < p => Spent(s[i])) /\ (p < i => ~Live(s[i]))
Marked(s, lo) == \E p \in 1 .. Len(s) : MarkedAt(s, lo, p)

LEMMA MarkedAdded ==
    ASSUME NEW table, NEW s \in Seq(Input(table)), NEW x \in Input(table), NEW lo \in Nat, Marked(s, lo), ~Live(x)
    PROVE  Marked(Append(s, x), lo)
<1>. DEFINE r == Append(s, x)
            n == Len(s)
<1>1. Len(r) = n + 1 /\ n \in Nat /\ r[n + 1] = x /\ \A i \in 1 .. n : r[i] = s[i]
  BY Appended
<1>2. PICK p \in 1 .. n : MarkedAt(s, lo, p)
  BY DEF Marked
<1>. HIDE DEF r, n
<1>3. \A i \in 1 .. n + 1 : i \in 1 .. n \/ i = n + 1
  BY <1>1
<1>4. p \in 1 .. n + 1
  BY <1>1
<1>5. p \in 1 .. n /\ lo < p /\ Live(s[p]) /\ \A i \in 1 .. n : (lo < i /\ i < p => Spent(s[i])) /\ (p < i => ~Live(s[i]))
  BY <1>2 DEF MarkedAt, n
<1>6. ~(n + 1 < p)
  BY <1>1
<1>7. MarkedAt(r, lo, p)
  BY <1>1, <1>3, <1>4, <1>5, <1>6 DEF MarkedAt
<1>. QED  BY <1>1, <1>4, <1>7 DEF r, Marked

LEMMA MarkedPopped ==
    ASSUME NEW table, NEW s \in Seq(Input(table)), s # <<>>, NEW lo \in Nat, Marked(s, lo), ~Live(Last(s))
    PROVE  Marked(Front(s), lo)
<1>. DEFINE r == Front(s)
            n == Len(s)
<1>1. Len(r) = n - 1 /\ n \in Nat \ {0} /\ \A i \in 1 .. n - 1 : r[i] = s[i]
  BY Popped
<1>2. PICK p \in 1 .. n : MarkedAt(s, lo, p)
  BY DEF Marked
<1>. HIDE DEF r, n
<1>5. p \in 1 .. n /\ lo < p /\ Live(s[p]) /\ \A i \in 1 .. n : (lo < i /\ i < p => Spent(s[i])) /\ (p < i => ~Live(s[i]))
  BY <1>2 DEF MarkedAt, n
<1>6. p # n
  BY <1>5 DEF Last, n
<1>7. p \in 1 .. n - 1 /\ \A i \in 1 .. n - 1 : i \in 1 .. n
  BY <1>1, <1>6
<1>8. MarkedAt(r, lo, p)
  BY <1>1, <1>5, <1>7 DEF MarkedAt
<1>. QED  BY <1>1, <1>7, <1>8 DEF r, Marked

LEMMA MarkedTaken ==
    ASSUME TypeInv, Scanned, Ready, NEW lo \in Nat, Marked(inputStack, lo)
    PROVE  /\ inputStack # <<>> /\ Len(inputStack) \in Nat \ {0}
           /\ token # Marker => Marked(Rest, lo) /\ token \in SourceToken
           /\ token = Marker =>
                /\ lo < Len(inputStack) /\ Live(top) /\ token.hide = {}
                /\ \A i \in 1 .. Len(Rest) : lo < i => Spent(Rest[i])
<1>. DEFINE n == Len(inputStack)
<1>1. PICK p \in 1 .. n : MarkedAt(inputStack, lo, p)
  BY DEF Marked
<1>2. /\ n \in Nat /\ Len(Rest) = n /\ \A i \in 1 .. n : i < n => Rest[i] = inputStack[i]
      /\ \A i \in 1 .. n : Rest[i].kind = inputStack[i].kind /\ (Live(Rest[i]) => Live(inputStack[i]) /\ (i = n => token # Marker))
      /\ token = Marker => inputStack # <<>> /\ Live(inputStack[n])
  BY Rests DEF Scanned
<1>3. p \in 1 .. n /\ lo < p /\ Live(inputStack[p])
      /\ \A i \in 1 .. n : (lo < i /\ i < p => Spent(inputStack[i])) /\ (p < i => ~Live(inputStack[i]))
  BY <1>1 DEF MarkedAt
<1>4. inputStack # <<>> /\ n \in Nat \ {0} /\ n \in 1 .. n /\ top = inputStack[n]
  BY <1>2, <1>3 DEF top, Last
<1>5. token \in SourceToken \/ token = Marker
  BY <1>4, TokenKinds
<1>. HIDE DEF n
<1>6. ASSUME token # Marker PROVE Marked(Rest, lo)
  <2>1. p # n
    <3>1. ASSUME p = n PROVE FALSE
      <4>1. Live(top)
        BY <1>3, <1>4, <3>1
      <4>2. top.kind # "macro"
        BY <4>1 DEF Live
      <4>. QED  BY <1>4, <1>6, <4>1, <4>2 DEF Scanned
    <3>. QED  BY <3>1
  <2>2. p < n
    BY <1>2, <1>3, <2>1
  <2>3. \A i \in 1 .. n : lo < i /\ i < p => Spent(Rest[i])
    <3>1. \A i \in 1 .. n : i < p => i < n
      BY <1>2, <1>3
    <3>. QED  BY <1>2, <1>3, <3>1
  <2>4. MarkedAt(Rest, lo, p)
    BY <1>2, <1>3, <2>2, <2>3 DEF MarkedAt
  <2>. QED  BY <1>2, <1>3, <2>4 DEF Marked
<1>7. ASSUME token = Marker
      PROVE  lo < n /\ Live(top) /\ token.hide = {} /\ \A i \in 1 .. n : lo < i => Spent(Rest[i])
  <2>1. Live(inputStack[n])
    BY <1>2, <1>7
  <2>2. p = n
    BY <1>2, <1>3, <1>4, <2>1
  <2>3. Spent(Rest[n])
    <3>1. top.kind # "macro" /\ Live(top)
      BY <1>4, <2>1 DEF Live
    <3>2. Rest[n].rest = <<>> /\ Rest[n].kind = top.kind
      BY <1>4, <3>1 DEF Scanned, n
    <3>. QED  BY <3>1, <3>2 DEF Spent
  <2>4. \A i \in 1 .. n : i < n => Rest[i] = inputStack[i]
    BY <1>2
  <2>5. \A i \in 1 .. n : i < n \/ i = n
    BY <1>2
  <2>6. token.hide = {}
    BY <1>7 DEF Marker, Token
  <2>. QED  BY <1>3, <1>4, <2>1, <2>2, <2>3, <2>4, <2>5, <2>6
<1>. QED  BY <1>2, <1>4, <1>5, <1>6, <1>7 DEF n

\* A marker on top of inputs that are used up is the scan's.
LEMMA MarkedOnTop ==
    ASSUME NEW table, NEW s \in Seq(Input(table)), NEW x \in Input(table), NEW lo \in Nat, lo <= Len(s),
           \A i \in 1 .. Len(s) : lo < i => Spent(s[i]), Live(x)
    PROVE  Marked(Append(s, x), lo)
<1>. DEFINE r == Append(s, x)
            n == Len(s)
<1>1. Len(r) = n + 1 /\ n \in Nat /\ r[n + 1] = x /\ \A i \in 1 .. n : r[i] = s[i]
  BY Appended
<1>. HIDE DEF r, n
<1>2. n + 1 \in 1 .. n + 1 /\ lo < n + 1
  BY <1>1 DEF n
<1>3. \A i \in 1 .. n + 1 : (i < n + 1 => i \in 1 .. n) /\ ~(n + 1 < i)
  BY <1>1
<1>4. \A i \in 1 .. n : lo < i => Spent(s[i])
  BY DEF n
<1>5. MarkedAt(r, lo, n + 1)
  BY <1>1, <1>2, <1>3, <1>4 DEF MarkedAt
<1>. QED  BY <1>1, <1>2, <1>5 DEF r, Marked

LEMMA TwoAdded ==
    ASSUME NEW S, NEW s \in Seq(S), NEW x \in S, NEW y \in S
    PROVE  s \o <<x, y>> = Append(Append(s, x), y)
OBVIOUS

\* A marker and an argument above the inputs.
LEMMA ScanInputs ==
    ASSUME NEW table, NEW s \in Seq(Input(table)), NEW arg \in Seq(PlainToken)
    PROVE  LET r == s \o <<tMarkerInput, Tokens(arg)>> IN
           /\ r \in Seq(Input(table)) /\ Len(r) = Len(s) + 2 /\ Len(s) \in Nat
           /\ Marked(r, Len(s))
           /\ \A h : Under(s, Len(s), h) => Under(r, Len(r), h)
           /\ Hides(s) /\ TokensUnder(s, Len(s), arg) => Hides(r)
<1>. DEFINE m == Append(s, tMarkerInput)
            r == Append(m, Tokens(arg))
<1>0. /\ tMarkerInput \in Input(table) /\ Live(tMarkerInput) /\ tMarkerInput.kind # "macro"
      /\ Tokens(arg) \in Input(table) /\ ~Live(Tokens(arg)) /\ Tokens(arg).kind # "macro" /\ Tokens(arg).rest = arg
  BY NewInputs
<1>1. /\ m \in Seq(Input(table)) /\ Len(m) = Len(s) + 1 /\ Len(s) \in Nat
  BY <1>0, Appended
<1>2. s \o <<tMarkerInput, Tokens(arg)>> = r
  BY <1>0, TwoAdded
<1>3. \A h : Under(s, Len(s), h) => Under(m, Len(m), h)
  BY <1>0, <1>1, HidesAdded
<1>4. Hides(s) => Hides(m)
  BY <1>0, <1>1, HidesAdded
<1>5. Marked(m, Len(s))
  <2>1. \A i \in 1 .. Len(s) : Len(s) < i => Spent(s[i])
    BY <1>1
  <2>2. Len(s) <= Len(s)
    BY <1>1
  <2>. QED  BY <1>0, <1>1, <2>1, <2>2, MarkedOnTop
<1>. HIDE DEF m
<1>6. r \in Seq(Input(table)) /\ Len(r) = Len(m) + 1
  BY <1>0, <1>1, Appended
<1>7. Marked(r, Len(s))
  BY <1>0, <1>1, <1>5, MarkedAdded
<1>8. \A h : Under(m, Len(m), h) => Under(r, Len(r), h)
  <2>1. \A h : Under(r, Len(m) + 1, h) <=> Under(m, Len(m), h) /\ (Tokens(arg).kind = "macro" => Tokens(arg).hide \subseteq h)
    BY <1>0, <1>1, HidesAdded
  <2>. QED  BY <1>0, <1>6, <2>1
<1>9. ASSUME Hides(s), TokensUnder(s, Len(s), arg) PROVE Hides(r)
  <2>1. TokensUnder(m, Len(m), arg)
    BY <1>3, <1>9 DEF TokensUnder
  <2>2. Hides(m)
    BY <1>4, <1>9
  <2>. QED  BY <1>0, <1>1, <2>1, <2>2, HidesAdded
<1>. HIDE DEF r
<1>10. Len(r) = Len(s) + 2
  BY <1>1, <1>6
<1>. QED  BY <1>1, <1>2, <1>3, <1>6, <1>7, <1>8, <1>9, <1>10

\* Inputs that are used up hold nothing.
LEMMA AheadSpent ==
    ASSUME NEW defs, IsTable(defs), NEW pos \in Positions(defs), NEW s \in Seq(Input(defs)),
           NEW lo \in Nat, lo <= Len(s), \A i \in 1 .. Len(s) : lo < i => Spent(s[i])
    PROVE  Ahead(defs, s, pos)[Len(s)] = Ahead(defs, s, pos)[lo]
<1>. DEFINE x == Ahead(defs, s, pos)
            n == Len(s)
            Bad == {i \in 0 .. n : lo <= i /\ x[i] # x[lo]}
<1>1. /\ n \in Nat /\ x \in [0 .. n -> Text]
      /\ \A i \in 1 .. n : x[i] = (IF Live(s[i]) THEN <<>> ELSE InputText(defs, s[i], pos) ++ x[i - 1])
  BY AheadHolds
<1>. HIDE DEF x, n
<1>2. SUFFICES ASSUME Bad # {} PROVE FALSE
  <2>1. n \in 0 .. n /\ lo <= n
    BY <1>1 DEF n
  <2>. QED  BY <2>1 DEF x, n
<1>3. PICK k \in Bad : \A j \in Bad : k <= j
  <2>1. Bad \subseteq Nat
    OBVIOUS
  <2>. HIDE DEF Bad
  <2>. QED  BY <1>2, <2>1, Least, Zenon
<1>4. k \in 0 .. n /\ lo <= k /\ x[k] # x[lo]
  BY <1>3
<1>5. k # lo
  BY <1>4
<1>6. k \in 1 .. n /\ lo < k /\ k - 1 \in 0 .. n /\ lo <= k - 1 /\ ~(k <= k - 1)
  BY <1>1, <1>4, <1>5
<1>7. x[k - 1] = x[lo]
  BY <1>3, <1>6
<1>8. Spent(s[k])
  BY <1>6 DEF n
<1>9. ~Live(s[k]) /\ InputText(defs, s[k], pos) = <<>>
  <2>1. s[k].rest = <<>> /\ s[k].kind # "macro"
    BY <1>8 DEF Spent
  <2>2. Unbroken(<<>>) = <<>>
    BY UnbrokenText, TokenTexts
  <2>. QED  BY <2>1, <2>2 DEF Live, InputText
<1>10. x[k - 1] \in Text
  BY <1>1, <1>6
<1>. HIDE DEF Bad
<1>11. x[k] = x[k - 1]
  BY <1>1, <1>6, <1>9, <1>10, Joins
<1>. QED  BY <1>4, <1>7, <1>11

(* The end of an input takes nothing from the text.                         *)
LEMMA TextPopped ==
    ASSUME IInv, inputStack # <<>>, AtEnd
    PROVE  /\ Ahead(macroDefs, Front(inputStack), currentPos)[Len(Front(inputStack))] = Before[Len(inputStack)]
           /\ ~Live(top)
<1>. DEFINE n == Len(inputStack)
            r == Front(inputStack)
<1>0. TypeInv /\ IsTable(macroDefs)
  BY MacroTable DEF IInv
<1>1. /\ inputStack \in Seq(Input(macroDefs)) /\ currentPos \in Positions(macroDefs)
      /\ r \in Seq(Input(macroDefs)) /\ Len(r) = n - 1 /\ n \in Nat \ {0} /\ \A i \in 1 .. n - 1 : r[i] = inputStack[i]
  BY <1>0, Popped DEF TypeInv, Positions
<1>2. top = inputStack[n] /\ top \in Input(macroDefs) /\ n \in 1 .. n /\ n - 1 \in 0 .. n
  BY <1>1 DEF top, Last
<1>3. Before \in [0 .. n -> Text] /\ Before[n] = IF Live(top) THEN <<>> ELSE InputText(macroDefs, top, currentPos) ++ Before[n - 1]
  BY <1>0, <1>1, <1>2, AheadHolds DEF Before
<1>. HIDE DEF r, n
<1>4. ~Live(top) /\ InputText(macroDefs, top, currentPos) = <<>>
  <2>1. CASE top.kind = "macro"
    <3>1. top \in MacroInput(macroDefs) /\ top.mac \in DOMAIN macroDefs
      BY <1>2, <2>1 DEF Input, TokenInput, MacroInput
    <3>2. currentPos[top.mac] > Len(macroDefs[top.mac].body)
      BY <2>1 DEF AtEnd, body
    <3>. DEFINE cur == [currentPos EXCEPT ![top.mac] = @ + 1]
    <3>3. cur \in Positions(macroDefs) /\ cur[top.mac] = currentPos[top.mac] + 1
      BY <1>1, <3>1 DEF Positions
    <3>. HIDE DEF cur
    <3>4. InputText(macroDefs, top, currentPos) = <<>>
      BY <1>0, <1>1, <3>1, <3>2, <3>3, MacroText
    <3>. QED  BY <2>1, <3>4 DEF Live
  <2>2. CASE top.kind # "macro"
    <3>1. top.rest = <<>>
      BY <2>2 DEF AtEnd
    <3>2. Unbroken(<<>>) = <<>>
      BY UnbrokenText, TokenTexts
    <3>. QED  BY <2>2, <3>1, <3>2 DEF Live, InputText
  <2>. QED  BY <2>1, <2>2
<1>5. Before[n] = Before[n - 1]
  BY <1>2, <1>3, <1>4, Joins
<1>6. Ahead(macroDefs, r, currentPos)[n - 1] = Before[n - 1]
  <2>. DEFINE m == n - 1
  <2>1. m \in Nat /\ m <= Len(inputStack) /\ m <= Len(r) /\ m \in 0 .. m
    BY <1>1 DEF n
  <2>2. \A i \in 1 .. m : r[i] = inputStack[i]
    BY <1>1
  <2>. HIDE DEF m
  <2>3. \A i \in 0 .. m : Ahead(macroDefs, r, currentPos)[i] = Ahead(macroDefs, inputStack, currentPos)[i]
    BY <1>0, <1>1, <2>1, <2>2, AheadSame
  <2>. QED  BY <2>1, <2>3 DEF m, Before
<1>. QED  BY <1>1, <1>4, <1>5, <1>6 DEF r, n

\* the positions when the body of m is to be read from its beginning
Begun(pos, m) == [pos EXCEPT ![m] = 1]

(* A macro pushed stands for its body, over what was there.                 *)
LEMMA TextPushed ==
    ASSUME NEW defs, IsTable(defs), NEW pos \in Positions(defs), NEW s \in Seq(Input(defs)),
           NEW m, NEW args, NEW hide, tMacroInput(m, args, hide) \in MacroInput(defs), MacroAt(s, m) = {}
    PROVE  /\ Substituted(defs[m], args, hide) \in Text /\ Len(s) \in Nat
           /\ Ahead(defs, Append(s, tMacroInput(m, args, hide)), Begun(pos, m))[Len(s) + 1] =
                Substituted(defs[m], args, hide) ++ Ahead(defs, s, pos)[Len(s)]
<1>. DEFINE x   == tMacroInput(m, args, hide)
            cur == Begun(pos, m)
<1>1. x.kind = "macro" /\ x.mac = m /\ x.args = args /\ x.hide = hide /\ ~Live(x) /\ x \in Input(defs)
  BY DEF tMacroInput, Live, Input
<1>2. m \in DOMAIN defs /\ x \in MacroInput(defs)
  BY <1>1 DEF MacroInput
<1>. HIDE DEF x
<1>3. cur \in Positions(defs) /\ cur[m] = 1 /\ \A k \in DOMAIN defs : k # m => cur[k] = pos[k]
  BY <1>2 DEF Positions, Begun
<1>. HIDE DEF cur
<1>4. \A i \in 1 .. Len(s) : s[i].kind = "macro" => cur[s[i].mac] = pos[s[i].mac]
  <2>1. ASSUME NEW i \in 1 .. Len(s), s[i].kind = "macro" PROVE cur[s[i].mac] = pos[s[i].mac]
    <3>1. s[i] \in Input(defs)
      OBVIOUS
    <3>2. s[i].mac \in DOMAIN defs
      BY <2>1, <3>1 DEF Input, TokenInput, MacroInput
    <3>3. s[i].mac # m
      BY <2>1 DEF MacroAt
    <3>. QED  BY <1>3, <3>2, <3>3
  <2>. QED  BY <2>1
<1>5. /\ Len(s) \in Nat
      /\ Ahead(defs, Append(s, x), cur)[Len(s) + 1] = IF Live(x) THEN <<>> ELSE InputText(defs, x, cur) ++ Ahead(defs, s, pos)[Len(s)]
  BY <1>1, <1>3, <1>4, AheadAdded
<1>6. InputText(defs, x, cur) = Substituted(defs[m], args, hide)
  <2>1. defs[m].body \in Seq(STRING)
    BY <1>2 DEF IsTable
  <2>2. SubSeq(defs[m].body, 1, Len(defs[m].body)) = defs[m].body
    BY <2>1
  <2>. QED  BY <1>1, <1>3, <2>2 DEF InputText, Substituted
<1>7. InputText(defs, x, cur) \in Text
  BY <1>1, <1>3, InputTexts
<1>. QED  BY <1>1, <1>5, <1>6, <1>7 DEF x, cur

(* An argument is expanded on its own.                                      *)
LEMMA TextScan ==
    ASSUME NEW defs, IsTable(defs), NEW pos \in Positions(defs), NEW s \in Seq(Input(defs)), NEW arg \in Seq(PlainToken)
    PROVE  Ahead(defs, s \o <<tMarkerInput, Tokens(arg)>>, pos)[Len(s) + 2] = arg
<1>. DEFINE m == Append(s, tMarkerInput)
            x == Tokens(arg)
<1>0. /\ tMarkerInput \in Input(defs) /\ Live(tMarkerInput)
      /\ x \in Input(defs) /\ ~Live(x) /\ x.kind # "macro" /\ x.rest = arg
  BY NewInputs
<1>1. s \o <<tMarkerInput, Tokens(arg)>> = Append(m, x)
  BY <1>0, TwoAdded
<1>2. /\ m \in Seq(Input(defs)) /\ Len(m) = Len(s) + 1 /\ Len(s) \in Nat
      /\ Ahead(defs, m, pos)[Len(s) + 1] = <<>>
  BY <1>0, AheadAdded
<1>. HIDE DEF m, x
<1>3. Ahead(defs, Append(m, x), pos)[Len(m) + 1] = InputText(defs, x, pos) ++ Ahead(defs, m, pos)[Len(m)]
  BY <1>0, <1>2, AheadAdded
<1>4. InputText(defs, x, pos) = arg /\ arg \in Text
  <2>1. arg \in Text /\ \A i \in 1 .. Len(arg) : arg[i].atom # "\n"
    BY TokenTexts
  <2>. QED  BY <1>0, <2>1, UnbrokenPlain DEF InputText
<1>5. (Len(s) + 1) + 1 = Len(s) + 2
  BY <1>2
<1>. QED  BY <1>1, <1>2, <1>3, <1>4, <1>5, Joins

(* A token that is put back is there again.                                 *)
LEMMA TextPutBack ==
    ASSUME NEW defs, IsTable(defs), NEW pos \in Positions(defs), NEW s \in Seq(Input(defs)), NEW t
    PROVE  /\ t \in PlainToken =>
                Ahead(defs, Append(s, Tokens(<<t>>)), pos)[Len(s) + 1] = <<t>> ++ Ahead(defs, s, pos)[Len(s)]
           /\ t = Marker => Ahead(defs, Append(s, Tokens(<<t>>)), pos)[Len(s) + 1] = <<>>
<1>. DEFINE x == Tokens(<<t>>)
<1>1. ASSUME t \in PlainToken
      PROVE  Ahead(defs, Append(s, x), pos)[Len(s) + 1] = <<t>> ++ Ahead(defs, s, pos)[Len(s)]
  <2>0. <<t>> \in Seq(PlainToken)
    BY <1>1
  <2>1. <<t>> \in Seq(PlainToken) /\ <<t>> \in Text /\ t.atom # "\n"
    BY <1>1, <2>0, TokenTexts
  <2>2. x \in Input(defs) /\ ~Live(x) /\ x.kind # "macro" /\ x.rest = <<t>>
    BY <2>1, NewInputs
  <2>3. InputText(defs, x, pos) = <<t>>
    <3>1. \A i \in 1 .. Len(<<t>>) : <<t>>[i].atom # "\n"
      BY <2>1
    <3>. QED  BY <2>1, <2>2, <3>1, UnbrokenPlain DEF InputText
  <2>. HIDE DEF x
  <2>. QED  BY <2>2, <2>3, AheadAdded
<1>2. ASSUME t = Marker
      PROVE  Ahead(defs, Append(s, x), pos)[Len(s) + 1] = <<>>
  <2>1. x \in Input(defs) /\ Live(x)
    BY <1>2, NewInputs
  <2>. HIDE DEF x
  <2>. QED  BY <2>1, AheadAdded
<1>. QED  BY <1>1, <1>2

(* An argument that is read stands for its parameter.                       *)
LEMMA TextArgument ==
    ASSUME IInv, inputStack # <<>>, ~AtEnd, Parameter # 0
    PROVE  LET x == Tokens(Within(top.args[Parameter], top.hide)) IN
           Ahead(macroDefs, Append(inputStack, x), Moved)[Len(inputStack) + 1] = Before[Len(inputStack)]
<1>. DEFINE n    == Len(inputStack)
            arg  == Within(top.args[Parameter], top.hide)
            x    == Tokens(arg)
            def  == macroDefs[top.mac]
            atom == def.body[currentPos[top.mac]]
<1>0. TypeInv /\ BusyInv /\ IsTable(macroDefs) /\ ArgumentScanned
  BY MacroTable, ArgumentScannedHolds DEF IInv
<1>1. /\ inputStack \in Seq(Input(macroDefs)) /\ currentPos \in Positions(macroDefs) /\ Moved \in Positions(macroDefs)
      /\ top.kind = "macro" /\ top \in MacroInput(macroDefs) /\ top = inputStack[n] /\ n \in Nat \ {0} /\ n \in 1 .. n
      /\ top.mac \in DOMAIN macroDefs /\ top.args \in Arguments /\ top.hide \in SUBSET STRING
      /\ Len(top.args) = Len(def.args) /\ ~Live(top)
      /\ n - 1 \in Nat /\ n - 1 <= n
  <2>1. /\ inputStack \in Seq(Input(macroDefs)) /\ currentPos \in Positions(macroDefs) /\ Moved \in Positions(macroDefs)
        /\ top.kind = "macro" /\ top \in MacroInput(macroDefs) /\ top = inputStack[n] /\ n \in Nat
    BY <1>0 DEF TypeInv, ArgumentScanned, Positions
  <2>2. n # 0
    BY <1>0, EmptySeq DEF TypeInv
  <2>. QED  BY <2>1, <2>2 DEF MacroInput, Live
<1>2. def.args \in Seq(STRING) /\ def.body \in Seq(STRING)
  BY <1>0, <1>1 DEF IsTable
<1>3. arg \in Seq(PlainToken) /\ x \in Input(macroDefs) /\ ~Live(x) /\ x.kind # "macro" /\ x.rest = arg
  <2>1. x \in [kind : {"tokens"}, rest : Seq(PlainToken)]
    BY <1>0 DEF ArgumentScanned
  <2>2. arg \in Seq(PlainToken)
    BY <2>1 DEF Tokens
  <2>. QED  BY <2>2, NewInputs
<1>4. Piece(def, top.args, atom) = top.args[Parameter]
  <2>. DEFINE at == {k \in DOMAIN def.args : def.args[k] = atom}
  <2>1. Parameter = IF at # {} THEN CHOOSE i \in at : TRUE ELSE 0
    BY <1>1 DEF Parameter, body
  <2>2. at # {} /\ Parameter = CHOOSE i \in at : TRUE
    BY <2>1
  <2>3. at = {} \/ Piece(def, top.args, atom) = top.args[CHOOSE k \in at : TRUE]
    BY Zenon DEF Piece
  <2>. QED  BY <2>2, <2>3
<1>5. Hidden(Piece(def, top.args, atom), top.hide) = arg
  BY <1>4 DEF Hidden, Within
<1>6. Moved[top.mac] = currentPos[top.mac] + 1 /\ currentPos[top.mac] <= Len(def.body)
  <2>1. Moved = [currentPos EXCEPT ![top.mac] = @ + 1]
    BY <1>1 DEF Moved
  <2>2. ~(currentPos[top.mac] > Len(def.body))
    BY <1>1 DEF AtEnd, body
  <2>. QED  BY <1>1, <1>2, <2>1, <2>2 DEF Positions
<1>. HIDE DEF n, def, arg, x
<1>7. InputText(macroDefs, top, Moved) \in Text /\ arg \in Text
      /\ InputText(macroDefs, top, currentPos) = arg ++ InputText(macroDefs, top, Moved)
  <2>1. /\ InputText(macroDefs, top, Moved) \in Text
        /\ InputText(macroDefs, top, currentPos) = Hidden(Piece(def, top.args, atom), top.hide) ++ InputText(macroDefs, top, Moved)
    BY <1>0, <1>1, <1>6, MacroText DEF def
  <2>. QED  BY <1>3, <1>5, <2>1, TokenTexts
<1>. DEFINE y == Ahead(macroDefs, inputStack, Moved)
<1>8. /\ Before \in [0 .. n -> Text] /\ Before[n] = InputText(macroDefs, top, currentPos) ++ Before[n - 1]
      /\ y[n] = InputText(macroDefs, top, Moved) ++ y[n - 1] /\ Before[n - 1] \in Text
  <2>1. Before \in [0 .. n -> Text] /\ Before[n] = InputText(macroDefs, top, currentPos) ++ Before[n - 1]
    BY <1>0, <1>1, AheadHolds DEF Before, n
  <2>2. y[n] = InputText(macroDefs, top, Moved) ++ y[n - 1]
    BY <1>0, <1>1, AheadHolds DEF n
  <2>3. n - 1 \in 0 .. n
    BY <1>1
  <2>. QED  BY <2>1, <2>2, <2>3
<1>9. y[n - 1] = Before[n - 1]
  <2>. DEFINE m == n - 1
  <2>1. m \in Nat /\ m <= Len(inputStack) /\ m \in 0 .. m
    BY <1>1 DEF n
  <2>2. ASSUME NEW i \in 1 .. m, inputStack[i].kind = "macro" PROVE Moved[inputStack[i].mac] = currentPos[inputStack[i].mac]
    <3>1. inputStack[i].mac # top.mac /\ inputStack[i].mac \in DOMAIN macroDefs
      BY <1>0, <1>1, <2>2, Below DEF n
    <3>. QED  BY <1>0, <3>1 DEF ArgumentScanned
  <2>. HIDE DEF m
  <2>3. \A i \in 0 .. m : Ahead(macroDefs, inputStack, Moved)[i] = Ahead(macroDefs, inputStack, currentPos)[i]
    BY <1>0, <1>1, <2>1, <2>2, AheadSame
  <2>. QED  BY <2>1, <2>3 DEF m, Before
<1>10. Ahead(macroDefs, Append(inputStack, x), Moved)[n + 1] = InputText(macroDefs, x, Moved) ++ y[n]
  BY <1>0, <1>1, <1>3, AheadAdded DEF n
<1>11. InputText(macroDefs, x, Moved) = arg
  <2>1. \A i \in 1 .. Len(arg) : arg[i].atom # "\n"
    BY <1>3, TokenTexts
  <2>. QED  BY <1>3, <1>7, <2>1, UnbrokenPlain DEF InputText
<1>. DEFINE it == InputText(macroDefs, top, Moved)
            left == Before[n - 1]
<1>12. it \in Text /\ left \in Text /\ Before[n] = (arg ++ it) ++ left /\ y[n] = it ++ left
  BY <1>7, <1>8, <1>9
<1>. HIDE DEF it, left, y
<1>13. arg ++ y[n] = Before[n]
  BY <1>7, <1>12, JoinsRegroup
<1>. QED  BY <1>10, <1>11, <1>13 DEF n, x, arg

-----------------------------------------------------------------------------
\* What is still to come out

\* what stands for a call whose argument is scanned, and what follows it
GivenBy(defs, f) ==
    [k \in DOMAIN f.args |-> IF k < f.arg THEN f.args[k] ELSE Expansion(defs)[f.args[k]]]
CallText(defs, f) == Substituted(defs[f.name.atom], GivenBy(defs, f), f.hide \cup {f.name.atom})
ScanText(defs, f) == CallText(defs, f) ++ Ahead(defs, f.outer, f.outerPos)[Len(f.outer)]

\* what the k-th call has collected, in the output w for none, and what it is to collect
Done(es, w, k) == IF k = 0 THEN w ELSE es[k].expanded
Aim(defs, src, es, k) == Expansion(defs)[IF k = 0 THEN src ELSE es[k].args[es[k].arg]]

(* What is collected, and the expansion of the call to be replaced and of   *)
(* what follows it, are what is to be collected.                            *)
ScanFits(defs, src, es, w, k) ==
    /\ ~es[k].tossing
    /\ Under(es[k].outer, Len(es[k].outer), es[k].hide)
    /\ \A a \in es[k].arg .. Len(es[k].args) : TokensUnder(es[k].outer, Len(es[k].outer), es[k].args[a])
    /\ k > 1 => Marked(es[k].outer, Len(es[k - 1].outer))
    /\ Done(es, w, k - 1) ++ Expansion(defs)[ScanText(defs, es[k])] = Aim(defs, src, es, k - 1)

SameCall(f, g) ==
    /\ f.name = g.name /\ f.args = g.args /\ f.arg = g.arg /\ f.hide = g.hide
    /\ f.outer = g.outer /\ f.outerPos = g.outerPos /\ f.tossing = g.tossing

\* the first m calls of es and fs, and what all but the last of them have collected
Alike(es, fs, w, v, m) ==
    /\ m > 0 => v = w
    /\ \A k \in 1 .. m : SameCall(es[k], fs[k]) /\ (k < m => fs[k].expanded = es[k].expanded)

LEMMA ScansSame ==
    ASSUME NEW defs, NEW src, NEW es, NEW fs, NEW w, NEW v, NEW m \in Nat, Alike(es, fs, w, v, m),
           \A k \in 1 .. m : ScanFits(defs, src, es, w, k)
    PROVE  /\ \A k \in 1 .. m : ScanFits(defs, src, fs, v, k)
           /\ \A k \in 0 .. m : Aim(defs, src, fs, k) = Aim(defs, src, es, k)
<1>0. (m > 0 => v = w) /\ \A k \in 1 .. m : SameCall(es[k], fs[k]) /\ (k < m => fs[k].expanded = es[k].expanded)
  BY DEF Alike
<1>1. \A k \in 0 .. m : Aim(defs, src, fs, k) = Aim(defs, src, es, k)
  <2>1. \A k \in 0 .. m : k = 0 \/ k \in 1 .. m
    OBVIOUS
  <2>. QED  BY <1>0, <2>1 DEF Aim, SameCall
<1>2. ASSUME NEW k \in 1 .. m PROVE ScanFits(defs, src, fs, v, k)
  <2>1. k - 1 \in 0 .. m /\ (k > 1 => k - 1 \in 1 .. m /\ k - 1 < m) /\ (k - 1 = 0 \/ k > 1) /\ v = w
    BY <1>0
  <2>2. Aim(defs, src, fs, k - 1) = Aim(defs, src, es, k - 1)
    BY <1>1, <2>1
  <2>3. Done(fs, v, k - 1) = Done(es, w, k - 1)
    BY <1>0, <2>1 DEF Done
  <2>4. k > 1 => fs[k - 1].outer = es[k - 1].outer
    BY <1>0, <2>1 DEF SameCall
  <2>5. /\ fs[k].name = es[k].name /\ fs[k].args = es[k].args /\ fs[k].arg = es[k].arg /\ fs[k].hide = es[k].hide
        /\ fs[k].outer = es[k].outer /\ fs[k].outerPos = es[k].outerPos /\ fs[k].tossing = es[k].tossing
    BY <1>0 DEF SameCall
  <2>6. ScanText(defs, fs[k]) = ScanText(defs, es[k])
    BY <2>5 DEF ScanText, CallText, GivenBy
  <2>7. ScanFits(defs, src, es, w, k)
    OBVIOUS
  <2>. QED  BY <2>2, <2>3, <2>4, <2>5, <2>6, <2>7 DEF ScanFits
<1>. QED  BY <1>1, <1>2

\* what the parentheses and the comma are for
Opens(t)  == t.atom = "("
Closes(t) == t.atom = ")"
Parts(t)  == t.atom = ","

LEMMA OneOf ==
    ASSUME NEW t
    PROVE  ~(Opens(t) /\ Closes(t)) /\ ~(Opens(t) /\ Parts(t)) /\ ~(Closes(t) /\ Parts(t))
BY Zenon DEF Opens, Closes, Parts

\* the call and its arguments, g being what has been read of them
Commas(g) == {1} \cup {i \in 2 .. Len(g) : Parts(g[i]) /\ Nesting(g, i) = 1}
Gathered(g, args, nest) ==
    /\ g \in Text /\ g # <<>> /\ Opens(g[1]) /\ \A i \in 1 .. Len(g) : Nesting(g, i) >= 1
    /\ nest = Nesting(g, Len(g)) - 1
    /\ Cardinality(Commas(g)) = Len(args)
    /\ \A k \in 1 .. Len(args) :
         args[k] = SubSeq(g, Cut(Commas(g), k) + 1, IF k < Len(args) THEN Cut(Commas(g), k + 1) - 1 ELSE Len(g))
Looks(es) == es # <<>> /\ es[Len(es)].at \in {"paren", "args"}
OpenText(es, g) ==
    IF ~Looks(es) THEN <<>>
    ELSE IF es[Len(es)].at = "args" THEN <<es[Len(es)].name>> ++ g ELSE <<es[Len(es)].name>>
OpenFits(defs, es, s, g) ==
    Looks(es) =>
        /\ defs[es[Len(es)].name.atom].functionLike
        /\ Under(s, Len(s), es[Len(es)].name.hide)
        /\ es[Len(es)].at = "args" =>
             /\ \A a \in 1 .. Len(es[Len(es)].args) : TokensUnder(s, Len(s), es[Len(es)].args[a])
             /\ Gathered(g, es[Len(es)].args, es[Len(es)].nest)

InputsFit(es, s) == Hides(s) /\ (Depth(es) > 0 => Marked(s, Len(es[Depth(es)].outer)))

SourceText == Unbroken([i \in DOMAIN source |-> Token(source[i], {})])
TextFits(es, s, pos, w, g) ==
    Done(es, w, Depth(es)) ++ Expansion(macroDefs)[OpenText(es, g) ++ Ahead(macroDefs, s, pos)[Len(s)]]
        = Aim(macroDefs, SourceText, es, Depth(es))

\* w is the output, with the macros it has come out of
Fits(es, s, pos, w, g) ==
    /\ w \in Text /\ g \in Text
    /\ \A k \in 1 .. Depth(es) : ScanFits(macroDefs, SourceText, es, w, k)
    /\ InputsFit(es, s)
    /\ OpenFits(macroDefs, es, s, g)
    /\ TextFits(es, s, pos, w, g)

\* Nothing that is out of the ordinary has happened.
Sound ==
    /\ ~errors /\ ~recursed /\ ~At("recover")
    /\ \A k \in 1 .. Len(expansions) :
         expansions[k].at \in {"args", "prescan"} => expansions[k].name.atom \notin expansions[k].name.hide
\* The source holds no directive, and until an error nothing is read as one.
Directs(t) == t.atom = "#"
NoLines == \A i \in DOMAIN source : source[i] # "#"
NoDirective(s) == s # <<>> /\ s[1].kind # "macro" => \A q \in 1 .. Len(s[1].rest) : ~Directs(s[1].rest[q])
SourceInv == NoLines /\ ~errors => undef = {} /\ ~At("undef") /\ NoDirective(inputStack)

OverInv == over => errors \/ (inputStack = <<>> /\ expansions = <<>>)
Collected(w) == output = [i \in DOMAIN w |-> w[i].atom]
SoundInv ==
    Sound /\ NoLines =>
        \E w \in Text, g \in Text : Collected(w) /\ Fits(expansions, inputStack, currentPos, w, g)

-----------------------------------------------------------------------------
\* The sets of texts

LEMMA TextTypes ==
    ASSUME TypeInv
    PROVE  /\ IsTable(macroDefs) /\ currentPos \in Positions(macroDefs) /\ inputStack \in Seq(Input(macroDefs))
           /\ Nested(expansions, macroDefs) /\ Depth(expansions) \in Nat
           /\ \A k \in 1 .. Depth(expansions) :
                /\ expansions[k].expanded \in Text /\ expansions[k].arg \in 1 .. Len(expansions[k].args)
                /\ expansions[k].args \in Arguments /\ expansions[k] \in Scan(macroDefs)
                /\ \A a \in 1 .. Len(expansions[k].args) : expansions[k].args[a] \in Seq(PlainToken) /\ expansions[k].args[a] \in Text
           /\ \A w \in Text : \A k \in 0 .. Depth(expansions) : Done(expansions, w, k) \in Text
<1>1. IsTable(macroDefs) /\ currentPos \in Positions(macroDefs) /\ inputStack \in Seq(Input(macroDefs))
      /\ Nested(expansions, macroDefs)
  BY MacroTable DEF TypeInv, Positions
<1>2. Depth(expansions) \in Nat /\ \A k \in 1 .. Depth(expansions) : expansions[k] \in Scan(macroDefs)
  BY <1>1, Depths
<1>3. ASSUME NEW k \in 1 .. Depth(expansions)
      PROVE  /\ expansions[k].expanded \in Text /\ expansions[k].arg \in 1 .. Len(expansions[k].args)
             /\ expansions[k].args \in Arguments /\ expansions[k] \in Scan(macroDefs)
             /\ \A a \in 1 .. Len(expansions[k].args) : expansions[k].args[a] \in Seq(PlainToken) /\ expansions[k].args[a] \in Text
  <2>1. expansions[k] \in Scan(macroDefs)
    BY <1>2
  <2>2. /\ expansions[k].expanded \in Seq(SourceToken) /\ expansions[k].arg \in Nat \ {0}
        /\ expansions[k].args \in Arguments /\ expansions[k].arg <= Len(expansions[k].args)
    BY <2>1 DEF Scan
  <2>3. \A a \in 1 .. Len(expansions[k].args) : expansions[k].args[a] \in Seq(PlainToken)
    BY <2>2, ElementOfSeq DEF Arguments
  <2>4. Len(expansions[k].args) \in Nat
    BY <2>2 DEF Arguments
  <2>. QED  BY <2>1, <2>2, <2>3, <2>4, TokenTexts
<1>4. \A k \in 0 .. Depth(expansions) : k = 0 \/ k \in 1 .. Depth(expansions)
  BY <1>2
<1>. QED  BY <1>1, <1>2, <1>3, <1>4 DEF Done

LEMMA SourceTexts ==
    ASSUME NEW tokens \in Seq(SourceToken)
    PROVE  Unbroken(tokens) \in Text
BY TokenTexts, UnbrokenText

LEMMA InputsTaken ==
    ASSUME TypeInv, Scanned, Ready, InputsFit(expansions, inputStack)
    PROVE  /\ Hides(Rest) /\ \A h : Under(Rest, Len(Rest), h) <=> Under(inputStack, Len(inputStack), h)
           /\ token \in SourceToken => InputsFit(expansions, Rest) /\ Under(inputStack, Len(inputStack), token.hide)
           /\ token = Marker /\ Depth(expansions) > 0 => \A i \in 1 .. Len(Rest) : Len(expansions[Depth(expansions)].outer) < i => Spent(Rest[i])
           /\ Depth(expansions) > 0 => token # EndOfInput
<1>1. /\ Hides(Rest) /\ \A h : Under(Rest, Len(Rest), h) <=> Under(inputStack, Len(inputStack), h)
      /\ token \in SourceToken => Under(inputStack, Len(inputStack), token.hide)
  BY HidesTaken DEF InputsFit
<1>. DEFINE lo == Len(expansions[Depth(expansions)].outer)
<1>2. ASSUME Depth(expansions) > 0
      PROVE  /\ token \in SourceToken => Marked(Rest, lo)
             /\ token = Marker => \A i \in 1 .. Len(Rest) : lo < i => Spent(Rest[i])
             /\ token # EndOfInput
  <2>1. Depth(expansions) \in 1 .. Depth(expansions)
    BY <1>2, TextTypes
  <2>2. expansions[Depth(expansions)] \in Scan(macroDefs)
    BY <2>1, TextTypes
  <2>3. lo \in Nat /\ Marked(inputStack, lo)
    BY <1>2, <2>2 DEF Scan, InputsFit
  <2>. HIDE DEF lo
  <2>4. /\ token # Marker => Marked(Rest, lo) /\ token \in SourceToken
        /\ token = Marker => \A i \in 1 .. Len(Rest) : lo < i => Spent(Rest[i])
    BY <2>3, MarkedTaken
  <2>. QED  BY <2>4, TokenSets
<1>3. token \in SourceToken => InputsFit(expansions, Rest)
  BY <1>1, <1>2 DEF InputsFit
<1>. QED  BY <1>1, <1>2, <1>3

LEMMA UndersSame ==
    ASSUME NEW s, NEW r, \A h : Under(s, Len(s), h) => Under(r, Len(r), h)
    PROVE  /\ \A tokens : TokensUnder(s, Len(s), tokens) => TokensUnder(r, Len(r), tokens)
           /\ \A defs, es, g : OpenFits(defs, es, s, g) => OpenFits(defs, es, r, g)
<1>1. \A tokens : TokensUnder(s, Len(s), tokens) => TokensUnder(r, Len(r), tokens)
  BY DEF TokensUnder
<1>. QED  BY <1>1 DEF OpenFits

-----------------------------------------------------------------------------
\* The steps of a sound expansion

Meant(w, g) ==
    /\ IInv /\ Sound /\ NoLines /\ SourceInv /\ OverInv
    /\ Collected(w) /\ Fits(expansions, inputStack, currentPos, w, g)

\* of Meant, what the steps need all the time
LEMMA MeantFits ==
    ASSUME NEW w, NEW g, Meant(w, g)
    PROVE  /\ IInv /\ TypeInv /\ w \in Text /\ g \in Text /\ IsTable(macroDefs)
           /\ InputsFit(expansions, inputStack) /\ Hides(inputStack) /\ OpenFits(macroDefs, expansions, inputStack, g)
           /\ \A k \in 1 .. Depth(expansions) : ScanFits(macroDefs, SourceText, expansions, w, k)
           /\ Done(expansions, w, Depth(expansions)) ++ Expansion(macroDefs)[OpenText(expansions, g) ++ Before[Len(inputStack)]]
                = Aim(macroDefs, SourceText, expansions, Depth(expansions))
BY MacroTable DEF Meant, IInv, Fits, TextFits, InputsFit, Before

(* The calls' part: the scans are the same, but for what the last one has   *)
(* collected.                                                               *)
LEMMA FitsWith ==
    ASSUME NEW w, NEW g, Meant(w, g), NEW fs, Depth(fs) = Depth(expansions),
           NEW v \in Text, Alike(expansions, fs, w, v, Depth(expansions)), NEW h \in Text,
           NEW s, NEW pos, Hides(s),
           Depth(expansions) > 0 => Marked(s, Len(expansions[Depth(expansions)].outer)),
           OpenFits(macroDefs, fs, s, h),
           Done(fs, v, Depth(fs)) ++ Expansion(macroDefs)[OpenText(fs, h) ++ Ahead(macroDefs, s, pos)[Len(s)]]
               = Done(expansions, w, Depth(expansions))
                   ++ Expansion(macroDefs)[OpenText(expansions, g) ++ Before[Len(inputStack)]]
    PROVE  Fits(fs, s, pos, v, h)
<1>. DEFINE d == Depth(expansions)
<1>1. d \in Nat /\ TypeInv
  BY MeantFits, TextTypes
<1>2. \A k \in 1 .. d : ScanFits(macroDefs, SourceText, expansions, w, k)
  BY MeantFits
<1>. HIDE DEF d
<1>3. /\ \A k \in 1 .. d : ScanFits(macroDefs, SourceText, fs, v, k)
      /\ \A k \in 0 .. d : Aim(macroDefs, SourceText, fs, k) = Aim(macroDefs, SourceText, expansions, k)
  <2>1. Alike(expansions, fs, w, v, d)
    BY DEF d
  <2>. DEFINE src == SourceText
  <2>3. \A k \in 1 .. d : ScanFits(macroDefs, src, expansions, w, k)
    BY <1>2
  <2>. HIDE DEF src
  <2>4. /\ \A k \in 1 .. d : ScanFits(macroDefs, src, fs, v, k)
        /\ \A k \in 0 .. d : Aim(macroDefs, src, fs, k) = Aim(macroDefs, src, expansions, k)
    BY <1>1, <2>1, <2>3, ScansSame, Zenon
  <2>. QED  BY <2>4 DEF src
<1>4. InputsFit(fs, s)
  <2>1. d > 0 => fs[d].outer = expansions[d].outer
    <3>1. d > 0 => d \in 1 .. d
      BY <1>1
    <3>. QED  BY <3>1 DEF Alike, SameCall, d
  <2>. QED  BY <2>1 DEF InputsFit, d
<1>5. d \in 0 .. d
  BY <1>1
<1>6. TextFits(fs, s, pos, v, h)
  <2>1. Aim(macroDefs, SourceText, fs, d) = Aim(macroDefs, SourceText, expansions, d)
    BY <1>3, <1>5
  <2>2. Done(expansions, w, d) ++ Expansion(macroDefs)[OpenText(expansions, g) ++ Before[Len(inputStack)]]
          = Aim(macroDefs, SourceText, expansions, d)
    BY MeantFits DEF d
  <2>. QED  BY <2>1, <2>2 DEF TextFits, d
<1>. QED  BY <1>3, <1>4, <1>6 DEF Fits, d

\* The scans stay as they are.
LEMMA AllSame ==
    ASSUME NEW es, NEW w
    PROVE  Alike(es, es, w, w, Depth(es))
BY DEF Alike, SameCall

LEMMA PopFits ==
    ASSUME NEW w, NEW g, Meant(w, g), popInput
    PROVE  Fits(expansions', inputStack', currentPos', w, g)
<1>1. /\ inputStack # <<>> /\ AtEnd /\ inputStack' = Front(inputStack) /\ currentPos' = currentPos
      /\ expansions' = expansions
  BY DEF popInput
<1>2. inputStack \in Seq(Input(macroDefs)) /\ w \in Text /\ g \in Text
  BY MeantFits, TextTypes
<1>3. Ahead(macroDefs, Front(inputStack), currentPos)[Len(Front(inputStack))] = Before[Len(inputStack)] /\ ~Live(Last(inputStack))
  BY <1>1, MeantFits, TextPopped DEF top
<1>4. Hides(Front(inputStack)) /\ \A h : Under(inputStack, Len(inputStack), h) => Under(Front(inputStack), Len(Front(inputStack)), h)
  BY <1>1, <1>2, MeantFits, HidesPopped
<1>5. Depth(expansions) > 0 => Marked(Front(inputStack), Len(expansions[Depth(expansions)].outer))
  <2>1. ASSUME Depth(expansions) > 0 PROVE Marked(Front(inputStack), Len(expansions[Depth(expansions)].outer))
    <3>1. Depth(expansions) \in 1 .. Depth(expansions)
      BY <2>1, MeantFits, TextTypes
    <3>2. expansions[Depth(expansions)] \in Scan(macroDefs)
      BY <3>1, MeantFits, TextTypes
    <3>3. Len(expansions[Depth(expansions)].outer) \in Nat
      BY <3>2 DEF Scan
    <3>4. Marked(inputStack, Len(expansions[Depth(expansions)].outer))
      BY <2>1, MeantFits DEF InputsFit
    <3>. QED  BY <1>1, <1>2, <1>3, <3>3, <3>4, MarkedPopped
  <2>. QED  BY <2>1
<1>6. OpenFits(macroDefs, expansions, Front(inputStack), g)
  BY <1>4, MeantFits, UndersSame
<1>7. Fits(expansions, Front(inputStack), currentPos, w, g)
  BY <1>2, <1>3, <1>4, <1>5, <1>6, AllSame, FitsWith
<1>. QED  BY <1>1, <1>7

LEMMA ArgumentFits ==
    ASSUME NEW w, NEW g, Meant(w, g), scanArgument
    PROVE  Fits(expansions', inputStack', currentPos', w, g)
<1>. DEFINE arg == Within(top.args[Parameter], top.hide)
            x   == Tokens(arg)
            n   == Len(inputStack)
<1>1. /\ inputStack # <<>> /\ ~AtEnd /\ Parameter # 0 /\ inputStack' = Append(inputStack, x) /\ currentPos' = Moved
      /\ expansions' = expansions
  BY DEF scanArgument
<1>2. inputStack \in Seq(Input(macroDefs)) /\ w \in Text /\ g \in Text /\ TypeInv /\ n \in Nat
  BY MeantFits, TextTypes
<1>3. ArgumentScanned
  BY <1>1, <1>2, ArgumentScannedHolds
<1>4. arg \in Seq(PlainToken) /\ x \in Input(macroDefs) /\ ~Live(x) /\ x.kind # "macro" /\ x.rest = arg
  <2>1. x \in [kind : {"tokens"}, rest : Seq(PlainToken)]
    BY <1>3 DEF ArgumentScanned
  <2>2. arg \in Seq(PlainToken)
    BY <2>1 DEF Tokens
  <2>. QED  BY <2>2, NewInputs
<1>5. TokensUnder(inputStack, n, arg)
  <2>1. top = inputStack[n] /\ top.kind = "macro" /\ top \in MacroInput(macroDefs) /\ n # 0
    BY <1>1, <1>2, <1>3, EmptySeq DEF ArgumentScanned
  <2>2. Under(inputStack, n - 1, top.hide)
    <3>1. n \in 1 .. n
      BY <1>2, <2>1
    <3>2. HidesAt(inputStack, n)
      BY <3>1, MeantFits DEF Hides
    <3>. QED  BY <2>1, <3>2 DEF HidesAt
  <2>3. \A q \in 1 .. Len(arg) : top.hide \subseteq arg[q].hide
    <3>1. DOMAIN arg = DOMAIN top.args[Parameter] /\ DOMAIN arg = 1 .. Len(arg)
      BY <1>4, LenProperties DEF Within
    <3>2. top.args[Parameter] \in Seq(PlainToken)
      <4>1. top.args \in Seq(Seq(PlainToken)) /\ Parameter \in 1 .. Len(top.args)
        <5>. DEFINE at == {i \in DOMAIN macroDefs[top.mac].args : macroDefs[top.mac].args[i] = body[currentPos[top.mac]]}
        <5>1. Parameter = IF at # {} THEN CHOOSE i \in at : TRUE ELSE 0
          BY <2>1 DEF Parameter
        <5>2. Parameter \in at
          BY <1>1, <5>1
        <5>3. Parameter \in DOMAIN macroDefs[top.mac].args
          BY <5>2
        <5>4. macroDefs[top.mac].args \in Seq(STRING) /\ Len(top.args) = Len(macroDefs[top.mac].args) /\ top.args \in Arguments
          BY <2>1, MeantFits DEF MacroInput, IsTable
        <5>. QED  BY <5>3, <5>4, LenProperties DEF Arguments
      <4>. QED  BY <4>1, ElementOfSeq
    <3>3. \A q \in DOMAIN arg : arg[q] = [top.args[Parameter][q] EXCEPT !.hide = @ \cup top.hide] /\ top.args[Parameter][q] \in PlainToken
      <4>1. \A q \in DOMAIN top.args[Parameter] : top.args[Parameter][q] \in PlainToken
        BY <3>2, ElementOfSeq, LenProperties
      <4>. QED  BY <3>1, <4>1 DEF Within
    <3>4. \A q \in DOMAIN arg : arg[q].hide = top.args[Parameter][q].hide \cup top.hide
      BY <3>3 DEF PlainToken
    <3>. HIDE DEF arg
    <3>. QED  BY <3>1, <3>4
  <2>4. \A i \in 1 .. n : i \in 1 .. n - 1 \/ i = n
    BY <1>2
  <2>. HIDE DEF arg, n
  <2>5. ASSUME NEW q \in 1 .. Len(arg) PROVE Under(inputStack, n, arg[q].hide)
    <3>1. top.hide \subseteq arg[q].hide
      BY <2>3
    <3>. QED  BY <2>1, <2>2, <2>4, <3>1 DEF Under
  <2>. QED  BY <2>5 DEF TokensUnder
<1>. HIDE DEF arg, x
<1>6. Len(Append(inputStack, x)) = n + 1
  BY <1>2, <1>4
<1>7. /\ Hides(Append(inputStack, x))
      /\ \A h : Under(inputStack, n, h) => Under(Append(inputStack, x), n + 1, h)
  BY <1>2, <1>4, <1>5, MeantFits, HidesAdded
<1>8. Depth(expansions) > 0 => Marked(Append(inputStack, x), Len(expansions[Depth(expansions)].outer))
  <2>1. ASSUME Depth(expansions) > 0 PROVE Marked(Append(inputStack, x), Len(expansions[Depth(expansions)].outer))
    <3>1. Depth(expansions) \in 1 .. Depth(expansions)
      BY <2>1, MeantFits, TextTypes
    <3>2. expansions[Depth(expansions)] \in Scan(macroDefs)
      BY <3>1, MeantFits, TextTypes
    <3>3. Len(expansions[Depth(expansions)].outer) \in Nat
      BY <3>2 DEF Scan
    <3>4. Marked(inputStack, Len(expansions[Depth(expansions)].outer))
      BY <2>1, MeantFits DEF InputsFit
    <3>. QED  BY <1>2, <1>4, <3>3, <3>4, MarkedAdded
  <2>. QED  BY <2>1
<1>9. OpenFits(macroDefs, expansions, Append(inputStack, x), g)
  <2>. DEFINE r == Append(inputStack, x)
  <2>1. \A h : Under(inputStack, Len(inputStack), h) => Under(r, Len(r), h)
    BY <1>6, <1>7
  <2>2. OpenFits(macroDefs, expansions, inputStack, g)
    BY MeantFits
  <2>. HIDE DEF r
  <2>3. OpenFits(macroDefs, expansions, r, g)
    BY <2>1, <2>2, UndersSame, Zenon
  <2>. QED  BY <2>3 DEF r
<1>10. Ahead(macroDefs, Append(inputStack, x), Moved)[n + 1] = Before[n]
  BY <1>1, MeantFits, TextArgument DEF x, arg
<1>. HIDE DEF n
<1>11. Fits(expansions, Append(inputStack, x), Moved, w, g)
  <2>1. Ahead(macroDefs, Append(inputStack, x), Moved)[Len(Append(inputStack, x))] = Before[Len(inputStack)]
    BY <1>6, <1>10 DEF n
  <2>. QED  BY <1>2, <1>7, <1>8, <1>9, <2>1, AllSame, FitsWith
<1>. QED  BY <1>1, <1>11

-----------------------------------------------------------------------------
\* The arguments of a call

LEMMA NestingStep ==
    ASSUME NEW s \in Text, NEW i \in 1 .. Len(s)
    PROVE  /\ Nesting(s, i) \in Int /\ Nesting(s, i - 1) \in Int
           /\ Opens(s[i]) => Nesting(s, i) = Nesting(s, i - 1) + 1
           /\ Closes(s[i]) => Nesting(s, i) = Nesting(s, i - 1) - 1
           /\ ~Opens(s[i]) /\ ~Closes(s[i]) => Nesting(s, i) = Nesting(s, i - 1)
<1>. DEFINE In(a, n) == {j \in 1 .. n : s[j].atom = a}
<1>0. i \in Nat \ {0} /\ i - 1 \in Nat /\ i \notin 1 .. i - 1 /\ \A j \in 1 .. i : j = i \/ j \in 1 .. i - 1
  BY Members
<1>1. ASSUME NEW a, NEW n \in Nat PROVE IsFiniteSet(In(a, n)) /\ Cardinality(In(a, n)) \in Nat
  <2>1. IsFiniteSet(1 .. n) /\ In(a, n) \subseteq 1 .. n
    BY FS_Interval
  <2>. QED  BY <2>1, FS_Subset, FS_CardinalityType
<1>2. ASSUME NEW a
      PROVE  Cardinality(In(a, i)) = Cardinality(In(a, i - 1)) + IF s[i].atom = a THEN 1 ELSE 0
  <2>1. CASE s[i].atom = a
    <3>1. In(a, i) = In(a, i - 1) \cup {i}
      <4>1. \A j \in 1 .. i - 1 : j \in 1 .. i
        BY <1>0
      <4>2. i \in 1 .. i
        BY <1>0
      <4>. QED  BY <1>0, <2>1, <4>1, <4>2
    <3>2. i \notin In(a, i - 1)
      BY <1>0
    <3>3. IsFiniteSet(In(a, i - 1)) /\ Cardinality(In(a, i - 1)) \in Nat
      BY <1>0, <1>1
    <3>. HIDE DEF In
    <3>. QED  BY <2>1, <3>1, <3>2, <3>3, FS_AddElement
  <2>2. CASE s[i].atom # a
    <3>1. In(a, i) = In(a, i - 1)
      <4>1. \A j \in 1 .. i - 1 : j \in 1 .. i
        BY <1>0
      <4>. QED  BY <1>0, <2>2, <4>1
    <3>2. Cardinality(In(a, i - 1)) \in Nat
      BY <1>0, <1>1
    <3>. HIDE DEF In
    <3>. QED  BY <2>2, <3>1, <3>2
  <2>. QED  BY <2>1, <2>2
<1>. DEFINE open  == "("
            close == ")"
<1>3. /\ Nesting(s, i) = Cardinality(In(open, i)) - Cardinality(In(close, i))
      /\ Nesting(s, i - 1) = Cardinality(In(open, i - 1)) - Cardinality(In(close, i - 1))
  BY Zenon DEF Nesting
<1>4. /\ Opens(s[i]) <=> s[i].atom = open
      /\ Closes(s[i]) <=> s[i].atom = close
      /\ ~(s[i].atom = open /\ s[i].atom = close)
  BY Zenon DEF Opens, Closes
<1>. HIDE DEF open, close
<1>5. /\ Cardinality(In(open, i)) \in Nat /\ Cardinality(In(close, i)) \in Nat
      /\ Cardinality(In(open, i - 1)) \in Nat /\ Cardinality(In(close, i - 1)) \in Nat
  BY <1>0, <1>1
<1>6. /\ Cardinality(In(open, i)) = Cardinality(In(open, i - 1)) + IF s[i].atom = open THEN 1 ELSE 0
      /\ Cardinality(In(close, i)) = Cardinality(In(close, i - 1)) + IF s[i].atom = close THEN 1 ELSE 0
  BY <1>2
<1>. HIDE DEF In
<1>. QED  BY <1>3, <1>4, <1>5, <1>6, SMTT(30)

\* What follows does not matter.
LEMMA NestingPrefix ==
    ASSUME NEW g \in Text, NEW r \in Text
    PROVE  /\ \A i \in 0 .. Len(g) : Nesting(g ++ r, i) = Nesting(g, i)
           /\ \A i \in 1 .. Len(g) : (g ++ r)[i] = g[i]
           /\ Len(g) \in Nat /\ Len(g ++ r) = Len(g) + Len(r) /\ Len(r) \in Nat
<1>. DEFINE s == g ++ r
<1>1. Len(g) \in Nat /\ Len(r) \in Nat /\ Len(s) = Len(g) + Len(r) /\ \A i \in 1 .. Len(g) : s[i] = g[i]
  BY Joins, JoinMembers
<1>. HIDE DEF s
<1>2. ASSUME NEW i \in 0 .. Len(g) PROVE Nesting(s, i) = Nesting(g, i)
  <2>1. \A j \in 1 .. i : s[j] = g[j]
    BY <1>1
  <2>2. \A a : {j \in 1 .. i : s[j].atom = a} = {j \in 1 .. i : g[j].atom = a}
    BY <2>1
  <2>. QED  BY <2>2 DEF Nesting
<1>. QED  BY <1>1, <1>2 DEF s

LEMMA NestingNext ==
    ASSUME NEW g \in Text, NEW t \in TextToken, NEW r \in Text
    PROVE  /\ g ++ (<<t>> ++ r) \in Text /\ Len(g ++ (<<t>> ++ r)) = Len(g) + 1 + Len(r) /\ Len(g) \in Nat /\ Len(r) \in Nat
           /\ \A i \in 1 .. Len(g) : (g ++ (<<t>> ++ r))[i] = g[i]
           /\ (g ++ (<<t>> ++ r))[Len(g) + 1] = t
           /\ \A i \in 0 .. Len(g) : Nesting(g ++ (<<t>> ++ r), i) = Nesting(g, i)
           /\ Nesting(g, Len(g)) \in Int
           /\ Opens(t) => Nesting(g ++ (<<t>> ++ r), Len(g) + 1) = Nesting(g, Len(g)) + 1
           /\ Closes(t) => Nesting(g ++ (<<t>> ++ r), Len(g) + 1) = Nesting(g, Len(g)) - 1
           /\ ~Opens(t) /\ ~Closes(t) => Nesting(g ++ (<<t>> ++ r), Len(g) + 1) = Nesting(g, Len(g))
<1>. DEFINE u == <<t>> ++ r
            s == g ++ u
            n == Len(g)
<1>1. u \in Text /\ u[1] = t /\ Len(u) = 1 + Len(r) /\ Len(r) \in Nat
  <2>1. <<t>> \in Text /\ Len(<<t>>) = 1 /\ u \in Text /\ u[1] = t
    BY First
  <2>. DEFINE one == <<t>>
  <2>2. one \in Text /\ Len(one) = 1
    BY <2>1
  <2>. HIDE DEF one
  <2>3. Len(one ++ r) = Len(one) + Len(r) /\ Len(r) \in Nat
    BY <2>2, Joins
  <2>. QED  BY <2>1, <2>2, <2>3 DEF one
<1>. HIDE DEF u
<1>2. /\ s \in Text /\ \A i \in 0 .. n : Nesting(s, i) = Nesting(g, i)
      /\ \A i \in 1 .. n : s[i] = g[i]
      /\ n \in Nat /\ Len(s) = n + Len(u)
  BY <1>1, NestingPrefix, Joins
<1>3. s[n + 1] = t
  <2>1. 1 \in 1 .. Len(u)
    BY <1>1
  <2>. QED  BY <1>1, <2>1, JoinMembers
<1>. HIDE DEF s, n
<1>4. n + 1 \in 1 .. Len(s) /\ (n + 1) - 1 = n /\ n \in 0 .. n
  BY <1>1, <1>2
<1>5. /\ Nesting(s, n + 1) \in Int /\ Nesting(s, n) \in Int
      /\ Opens(s[n + 1]) => Nesting(s, n + 1) = Nesting(s, n) + 1
      /\ Closes(s[n + 1]) => Nesting(s, n + 1) = Nesting(s, n) - 1
      /\ ~Opens(s[n + 1]) /\ ~Closes(s[n + 1]) => Nesting(s, n + 1) = Nesting(s, n)
  BY <1>2, <1>4, NestingStep
<1>6. Nesting(s, n) = Nesting(g, n)
  BY <1>2, <1>4
<1>7. /\ Opens(t) => Nesting(s, n + 1) = Nesting(g, n) + 1
      /\ Closes(t) => Nesting(s, n + 1) = Nesting(g, n) - 1
      /\ ~Opens(t) /\ ~Closes(t) => Nesting(s, n + 1) = Nesting(g, n)
  BY <1>3, <1>5, <1>6
<1>8. Len(s) = n + 1 + Len(r)
  BY <1>1, <1>2
<1>. QED  BY <1>1, <1>2, <1>3, <1>5, <1>6, <1>7, <1>8 DEF s, u, n

\* Parts of a text that lie in its first part.
LEMMA PartOfFirst ==
    ASSUME NEW g \in Text, NEW r \in Text, NEW a \in Nat \ {0}, NEW b \in Nat, b <= Len(g)
    PROVE  SubSeq(g ++ r, a, b) = SubSeq(g, a, b)
<1>. DEFINE s == g ++ r
<1>0. s \in Text /\ Len(g) \in Nat /\ Len(r) \in Nat /\ Len(s) = Len(g) + Len(r)
  BY Joins
<1>1. s \in Text /\ Len(g) \in Nat /\ b <= Len(s) /\ \A i \in 1 .. Len(g) : s[i] = g[i]
  <2>1. \A i \in 1 .. Len(g) : s[i] = g[i]
    BY JoinMembers
  <2>. HIDE DEF s
  <2>. QED  BY <1>0, <2>1
<1>. HIDE DEF s
<1>2. /\ SubSeq(s, a, b) \in Text /\ Len(SubSeq(s, a, b)) = (IF a <= b THEN b - a + 1 ELSE 0)
      /\ \A i \in 1 .. b - a + 1 : SubSeq(s, a, b)[i] = s[a + i - 1]
      /\ SubSeq(g, a, b) \in Text /\ Len(SubSeq(g, a, b)) = (IF a <= b THEN b - a + 1 ELSE 0)
      /\ \A i \in 1 .. b - a + 1 : SubSeq(g, a, b)[i] = g[a + i - 1]
  BY <1>1, PartText
<1>3. \A i \in 1 .. Len(SubSeq(g, a, b)) : i \in 1 .. b - a + 1 /\ a + i - 1 \in 1 .. Len(g)
  BY <1>1, <1>2
<1>4. \A i \in 1 .. Len(SubSeq(g, a, b)) : SubSeq(s, a, b)[i] = SubSeq(g, a, b)[i]
  BY <1>1, <1>2, <1>3
<1>5. SubSeq(s, a, b) = SubSeq(g, a, b)
  BY <1>2, <1>4, SameText
<1>. QED  BY <1>5 DEF s

\* The part up to the end, with one token more.
LEMMA PartAndNext ==
    ASSUME NEW g \in Text, NEW t \in TextToken, NEW a \in Nat \ {0}, a <= Len(g) + 1
    PROVE  SubSeq(g ++ <<t>>, a, Len(g) + 1) = Append(SubSeq(g, a, Len(g)), t)
BY DEF ++, Text, TextToken

LEMMA CommasText ==
    ASSUME NEW g \in Text, g # <<>>
    PROVE  Commas(g) \in SUBSET (1 .. Len(g)) /\ IsFiniteSet(Commas(g)) /\ Cardinality(Commas(g)) \in Nat /\ Len(g) \in Nat \ {0}
<1>1. Len(g) \in Nat \ {0}
  BY Members
<1>2. Commas(g) \in SUBSET (1 .. Len(g))
  <2>1. 1 \in 1 .. Len(g) /\ \A i \in 2 .. Len(g) : i \in 1 .. Len(g)
    BY <1>1
  <2>. QED  BY <2>1 DEF Commas
<1>. QED  BY <1>1, <1>2, UpTos

LEMMA GatheredBegins ==
    ASSUME NEW t \in TextToken, Opens(t)
    PROVE  Gathered(<<t>>, << <<>> >>, 0)
<1>. DEFINE g == <<t>>
<1>1. g \in Text /\ Len(g) = 1 /\ g # <<>> /\ g[1] = t
  BY First, TokenTexts
<1>2. Nesting(g, 1) = 1
  <2>1. Nesting(g, 0) = 0
    <3>1. \A a : {j \in 1 .. 0 : g[j].atom = a} = {}
      OBVIOUS
    <3>. HIDE DEF g
    <3>. QED  BY <3>1, FS_EmptySet DEF Nesting
  <2>2. 1 \in 1 .. Len(g) /\ 1 - 1 = 0
    BY <1>1
  <2>. HIDE DEF g
  <2>. QED  BY <1>1, <2>1, <2>2, NestingStep
<1>. HIDE DEF g
<1>3. Commas(g) = {1}
  BY <1>1 DEF Commas
<1>4. {1} \in SUBSET (1 .. 1) /\ Cardinality({1}) = 1
  BY FS_Singleton
<1>5. Cut({1}, 1) = 1
  <2>1. 1 \in 1 .. Cardinality({1}) /\ 1 \in Nat
    BY <1>4
  <2>2. Cut({1}, 1) \in {1}
    BY <1>4, <2>1, CutIn
  <2>. QED  BY <2>2
<1>6. SubSeq(g, 2, 1) = <<>>
  <2>1. 2 \in Nat \ {0} /\ 1 \in Nat /\ 1 <= Len(g) /\ ~(2 <= 1)
    BY <1>1
  <2>2. SubSeq(g, 2, 1) \in Text /\ Len(SubSeq(g, 2, 1)) = IF 2 <= 1 THEN 1 - 2 + 1 ELSE 0
    BY <1>1, <2>1, PartText
  <2>. QED  BY <2>1, <2>2, Members
<1>. DEFINE args == << <<>> >>
<1>7. Len(args) = 1 /\ args[1] = <<>>
  OBVIOUS
<1>. HIDE DEF args
<1>8. \A k \in 1 .. Len(args) : args[k] = SubSeq(g, Cut(Commas(g), k) + 1, IF k < Len(args) THEN Cut(Commas(g), k + 1) - 1 ELSE Len(g))
  <2>1. \A k \in 1 .. Len(args) : k = 1 /\ ~(k < Len(args))
    BY <1>7
  <2>2. Cut(Commas(g), 1) + 1 = 2 /\ Len(g) = 1
    BY <1>1, <1>3, <1>5
  <2>. QED  BY <1>6, <1>7, <2>1, <2>2
<1>9. \A i \in 1 .. Len(g) : Nesting(g, i) >= 1
  BY <1>1, <1>2
<1>10. Gathered(g, args, 0)
  BY <1>1, <1>2, <1>3, <1>4, <1>7, <1>8, <1>9 DEF Gathered
<1>. QED  BY <1>10 DEF g, args

\* what Gathered says, with the places of the commas
LEMMA GatheredParts ==
    ASSUME NEW g, NEW args, NEW nest, Gathered(g, args, nest), Len(args) \in Nat
    PROVE  /\ g \in Text /\ g # <<>> /\ Len(g) \in Nat \ {0} /\ nest \in Nat /\ nest + 1 = Nesting(g, Len(g))
           /\ Commas(g) \in SUBSET (1 .. Len(g)) /\ Cardinality(Commas(g)) = Len(args)
           /\ \A k \in 1 .. Len(args) : Cut(Commas(g), k) \in 1 .. Len(g)
           /\ \A k \in 1 .. Len(args) :
                args[k] = SubSeq(g, Cut(Commas(g), k) + 1, IF k < Len(args) THEN Cut(Commas(g), k + 1) - 1 ELSE Len(g))
<1>1. /\ g \in Text /\ g # <<>> /\ Opens(g[1]) /\ \A i \in 1 .. Len(g) : Nesting(g, i) >= 1
      /\ nest = Nesting(g, Len(g)) - 1
      /\ Cardinality(Commas(g)) = Len(args)
      /\ \A k \in 1 .. Len(args) :
           args[k] = SubSeq(g, Cut(Commas(g), k) + 1, IF k < Len(args) THEN Cut(Commas(g), k + 1) - 1 ELSE Len(g))
  BY DEF Gathered
<1>2. Commas(g) \in SUBSET (1 .. Len(g)) /\ Len(g) \in Nat \ {0} /\ Len(g) \in Nat
  BY <1>1, CommasText
<1>3. Len(g) \in 1 .. Len(g)
  BY <1>2
<1>4. Nesting(g, Len(g)) \in Int /\ Nesting(g, Len(g)) >= 1
  BY <1>1, <1>3, NestingStep
<1>5. \A k \in 1 .. Len(args) : Cut(Commas(g), k) \in Commas(g)
  <2>1. ASSUME NEW k \in 1 .. Cardinality(Commas(g)) PROVE Cut(Commas(g), k) \in Commas(g)
    BY <1>2, CutIn
  <2>. QED  BY <1>1, <2>1
<1>6. \A k \in 1 .. Len(args) : Cut(Commas(g), k) \in 1 .. Len(g)
  BY <1>2, <1>5
<1>7. nest \in Nat /\ nest + 1 = Nesting(g, Len(g))
  BY <1>1, <1>4
<1>. QED  BY <1>1, <1>2, <1>6, <1>7

\* The cuts of a text that goes on.
LEMMA CommasNext ==
    ASSUME NEW g \in Text, g # <<>>, NEW t \in TextToken, NEW r \in Text
    PROVE  /\ \A n \in Nat : n <= Len(g) =>
                {i \in 2 .. n : Parts((g ++ (<<t>> ++ r))[i]) /\ Nesting(g ++ (<<t>> ++ r), i) = 1}
                    = {i \in 2 .. n : Parts(g[i]) /\ Nesting(g, i) = 1}
           /\ Parts(t) /\ Nesting(g, Len(g)) = 1 => Commas(g ++ <<t>>) = Commas(g) \cup {Len(g) + 1}
           /\ ~Parts(t) \/ Nesting(g, Len(g)) # 1 => Commas(g ++ <<t>>) = Commas(g)
<1>. DEFINE n == Len(g)
<1>1. ASSUME NEW q \in Text
      PROVE  /\ \A m \in Nat : m <= n =>
                  {i \in 2 .. m : Parts((g ++ (<<t>> ++ q))[i]) /\ Nesting(g ++ (<<t>> ++ q), i) = 1}
                    = {i \in 2 .. m : Parts(g[i]) /\ Nesting(g, i) = 1}
             /\ n \in Nat \ {0}
  <2>. DEFINE s == g ++ (<<t>> ++ q)
  <2>1. /\ n \in Nat /\ \A i \in 1 .. n : s[i] = g[i]
        /\ \A i \in 0 .. n : Nesting(s, i) = Nesting(g, i)
    BY NestingNext, SMTT(30)
  <2>. HIDE DEF s
  <2>2. \A m \in Nat : m <= n => \A i \in 2 .. m : i \in 1 .. n /\ i \in 0 .. n
    BY <2>1
  <2>3. \A m \in Nat : m <= n => {i \in 2 .. m : Parts(s[i]) /\ Nesting(s, i) = 1} = {i \in 2 .. m : Parts(g[i]) /\ Nesting(g, i) = 1}
    BY <2>1, <2>2
  <2>. QED  BY <2>3, Members DEF s
<1>. DEFINE s == g ++ <<t>>
<1>2. g ++ (<<t>> ++ <<>>) = s
  BY First, Joins
<1>3. <<>> \in Text
  BY Members
<1>4. /\ Len(s) = n + 1 /\ s[n + 1] = t
      /\ Parts(t) => Nesting(s, n + 1) = Nesting(g, n)
  <2>. DEFINE e == <<>>
  <2>0. e \in Text /\ Len(e) = 0 /\ g ++ (<<t>> ++ e) = s
    BY <1>2, <1>3
  <2>. HIDE DEF e, s
  <2>1. /\ Len(g ++ (<<t>> ++ e)) = Len(g) + 1 + Len(e)
        /\ (g ++ (<<t>> ++ e))[Len(g) + 1] = t
        /\ Nesting(g, Len(g)) \in Int /\ Len(g) \in Nat
    BY <2>0, NestingNext, ZenonT(60)
  <2>2. Parts(t) => Nesting(g ++ (<<t>> ++ e), Len(g) + 1) = Nesting(g, Len(g))
    <3>1. ~Opens(t) /\ ~Closes(t) => Nesting(g ++ (<<t>> ++ e), Len(g) + 1) = Nesting(g, Len(g))
      BY <2>0, NestingNext, SMTT(30)
    <3>. QED  BY <3>1, OneOf
  <2>3. Len(g) + 1 + Len(e) = Len(g) + 1
    BY <2>0, <2>1
  <2>. QED  BY <2>0, <2>1, <2>2, <2>3, Zenon
<1>5. {i \in 2 .. n : Parts(s[i]) /\ Nesting(s, i) = 1} = {i \in 2 .. n : Parts(g[i]) /\ Nesting(g, i) = 1} /\ n \in Nat \ {0}
  <2>1. n \in Nat /\ n <= n
    BY Members
  <2>2. {i \in 2 .. n : Parts((g ++ (<<t>> ++ <<>>))[i]) /\ Nesting(g ++ (<<t>> ++ <<>>), i) = 1} = {i \in 2 .. n : Parts(g[i]) /\ Nesting(g, i) = 1}
        /\ n \in Nat \ {0}
    BY <1>1, <1>3, <2>1
  <2>. HIDE DEF s, n
  <2>. QED  BY <1>2, <2>2
<1>. DEFINE Last1 == IF Parts(t) /\ Nesting(g, n) = 1 THEN {n + 1} ELSE {}
            In(m) == {i \in 2 .. m : Parts(s[i]) /\ Nesting(s, i) = 1}
<1>a. n \in Nat \ {0}
  BY <1>5
<1>. HIDE DEF s, n
<1>6. In(n + 1) = In(n) \cup Last1
  <2>1. \A i \in 2 .. n + 1 : i \in 2 .. n \/ i = n + 1
    BY <1>a
  <2>2. n + 1 \in 2 .. n + 1 /\ \A i \in 2 .. n : i \in 2 .. n + 1
    BY <1>a
  <2>3. (Parts(s[n + 1]) /\ Nesting(s, n + 1) = 1) <=> (Parts(t) /\ Nesting(g, n) = 1)
    BY <1>4
  <2>. QED  BY <2>1, <2>2, <2>3
<1>7. Commas(s) = {1} \cup In(n + 1)
  BY <1>4 DEF Commas
<1>8. Commas(s) = Commas(g) \cup Last1
  <2>1. Commas(g) = {1} \cup In(n)
    BY <1>5 DEF Commas, n
  <2>. QED  BY <1>6, <1>7, <2>1
<1>. QED  BY <1>1, <1>8 DEF s, n

LEMMA CutsParts ==
    ASSUME NEW s, NEW c
    PROVE  Cuts(s, c) = {1, c} \cup {i \in 2 .. c - 1 : Parts(s[i]) /\ Nesting(s, i) = 1}
BY Zenon DEF Cuts, Parts

LEMMA ClosingParts ==
    ASSUME NEW s \in Text
    PROVE  /\ Closing(s) \in 0 .. Len(s) /\ Len(s) \in Nat
           /\ Closing(s) # 0 =>
                /\ s # <<>> /\ Opens(s[1]) /\ Closes(s[Closing(s)]) /\ Nesting(s, Closing(s)) = 0
                /\ \A j \in 1 .. Closing(s) - 1 : ~(Closes(s[j]) /\ Nesting(s, j) = 0)
           /\ Closing(s) = 0 => \A j \in 1 .. Len(s) : ~(Opens(s[1]) /\ Closes(s[j]) /\ Nesting(s, j) = 0)
BY ClosingPlace, Zenon DEF Opens, Closes

LEMMA EndOfText ==
    ASSUME NEW p \in Text, NEW a \in Text
    PROVE  SubSeq(p ++ a, Len(p) + 1, Len(p ++ a)) = a
BY DEF ++, Text, TextToken

LEMMA NoText ==
    ASSUME NEW s \in Text, NEW n \in Nat, n <= Len(s)
    PROVE  SubSeq(s, n + 1, n) = <<>>
<1>1. n + 1 \in Nat \ {0} /\ ~(n + 1 <= n)
  OBVIOUS
<1>2. SubSeq(s, n + 1, n) \in Text /\ Len(SubSeq(s, n + 1, n)) = IF n + 1 <= n THEN n - (n + 1) + 1 ELSE 0
  BY <1>1, PartText
<1>. QED  BY <1>1, <1>2, Members

\* The arguments that are complete lie in the first part of the text.
LEMMA GatheredArguments ==
    ASSUME NEW g, NEW args, NEW nest, Gathered(g, args, nest), Len(args) \in Nat, NEW r \in Text
    PROVE  LET cuts == CutsAnd(Commas(g), Len(g) + 1) IN
           /\ Cardinality(cuts) = Len(args) + 1 /\ Cut(cuts, Len(args) + 1) = Len(g) + 1
           /\ \A k \in 1 .. Len(args) : Argument(g ++ r, cuts, k) = args[k]
<1>. DEFINE n    == Len(g)
            m    == Len(args)
            C    == Commas(g)
            e    == n + 1
            cuts == CutsAnd(Commas(g), Len(g) + 1)
            s    == g ++ r
<1>1. /\ g \in Text /\ n \in Nat \ {0} /\ n \in Nat /\ m \in Nat
      /\ C \in SUBSET (1 .. n) /\ Cardinality(C) = m
      /\ \A k \in 1 .. m : Cut(C, k) \in 1 .. n
      /\ \A k \in 1 .. m : args[k] = SubSeq(g, Cut(C, k) + 1, IF k < m THEN Cut(C, k + 1) - 1 ELSE n)
  BY GatheredParts
<1>2. e \in Nat /\ n < e
  BY <1>1
<1>a. cuts = CutsAnd(C, e)
  OBVIOUS
<1>. HIDE DEF n, m, C, e, cuts
<1>3. /\ Cardinality(cuts) = Cardinality(C) + 1
      /\ \A k \in 1 .. Cardinality(C) : Cut(cuts, k) = Cut(C, k)
      /\ Cut(cuts, Cardinality(C) + 1) = n + 1
  <2>0. n \in Nat /\ C \in SUBSET (1 .. n) /\ e \in Nat /\ n < e
    BY <1>1, <1>2
  <2>1. Cardinality(CutsAnd(C, e)) = Cardinality(C) + 1
    BY <2>0, CutMore
  <2>2. \A k \in 1 .. Cardinality(C) : Cut(CutsAnd(C, e), k) = Cut(C, k)
    BY <2>0, CutMore
  <2>3. Cut(CutsAnd(C, e), Cardinality(C) + 1) = e
    BY <2>0, CutMore
  <2>. QED  BY <1>a, <2>1, <2>2, <2>3 DEF e
<1>4. Cardinality(cuts) = m + 1 /\ Cut(cuts, m + 1) = n + 1 /\ \A k \in 1 .. m : Cut(cuts, k) = Cut(C, k)
  BY <1>1, <1>3
<1>5. ASSUME NEW k \in 1 .. m PROVE Argument(s, cuts, k) = args[k]
  <2>. DEFINE a == Cut(C, k) + 1
              b == IF k < m THEN Cut(C, k + 1) - 1 ELSE n
  <2>1. a = Cut(cuts, k) + 1 /\ a \in Nat \ {0}
    <3>1. Cut(C, k) \in 1 .. n /\ Cut(cuts, k) = Cut(C, k)
      BY <1>1, <1>4
    <3>2. Cut(C, k) \in Nat
      BY <1>1, <3>1
    <3>. QED  BY <3>1, <3>2
  <2>2. b = Cut(cuts, k + 1) - 1 /\ b \in Nat /\ b <= n
    <3>1. CASE k < m
      <4>1. k + 1 \in 1 .. m
        BY <1>1, <3>1
      <4>2. Cut(C, k + 1) \in 1 .. n /\ Cut(cuts, k + 1) = Cut(C, k + 1)
        BY <1>1, <1>4, <4>1
      <4>3. b = Cut(C, k + 1) - 1
        BY <3>1
      <4>4. Cut(C, k + 1) - 1 \in Nat /\ Cut(C, k + 1) - 1 <= n
        BY <1>1, <4>2
      <4>. QED  BY <4>2, <4>3, <4>4
    <3>2. CASE ~(k < m)
      <4>1. k + 1 = m + 1
        BY <1>1, <3>2
      <4>2. Cut(cuts, k + 1) = n + 1
        BY <1>4, <4>1
      <4>. QED  BY <1>1, <3>2, <4>2
    <3>. QED  BY <3>1, <3>2
  <2>3. args[k] = SubSeq(g, a, b)
    BY <1>1
  <2>. HIDE DEF a, b
  <2>4. SubSeq(s, a, b) = SubSeq(g, a, b)
    <3>1. g \in Text /\ a \in Nat \ {0} /\ b \in Nat /\ b <= Len(g)
      BY <1>1, <2>1, <2>2, Zenon DEF n
    <3>. HIDE DEF s
    <3>2. SubSeq(g ++ r, a, b) = SubSeq(g, a, b)
      BY <3>1, PartOfFirst, ZenonT(40)
    <3>. QED  BY <3>2, Zenon DEF s
  <2>5. Argument(s, cuts, k) = SubSeq(s, Cut(cuts, k) + 1, Cut(cuts, k + 1) - 1)
    BY DEF Argument
  <2>. QED  BY <2>1, <2>2, <2>3, <2>4, <2>5
<1>. QED  BY <1>4, <1>5 DEF n, m, C, cuts

\* what holds of a text that goes on, whatever the next token is
LEMMA GatheredGoesOn ==
    ASSUME NEW g, NEW args, NEW nest, Gathered(g, args, nest), Len(args) \in Nat, NEW t \in TextToken
    PROVE  /\ g ++ <<t>> \in Text /\ g ++ <<t>> # <<>> /\ Opens((g ++ <<t>>)[1]) /\ Len(g ++ <<t>>) = Len(g) + 1
           /\ <<t>> \in Text
           /\ \A i \in 1 .. Len(g) : Nesting(g ++ <<t>>, i) >= 1
           /\ Opens(t) => Nesting(g ++ <<t>>, Len(g) + 1) = nest + 2
           /\ Closes(t) => Nesting(g ++ <<t>>, Len(g) + 1) = nest
           /\ ~Opens(t) /\ ~Closes(t) => Nesting(g ++ <<t>>, Len(g) + 1) = nest + 1
<1>. DEFINE n == Len(g)
            e == <<>>
            s == g ++ <<t>>
<1>1. /\ g \in Text /\ n \in Nat \ {0} /\ n \in Nat /\ nest \in Nat /\ nest + 1 = Nesting(g, n)
      /\ Opens(g[1]) /\ \A i \in 1 .. n : Nesting(g, i) >= 1
  BY GatheredParts DEF Gathered
<1>2. e \in Text /\ Len(e) = 0 /\ <<t>> \in Text /\ g ++ (<<t>> ++ e) = s
  <2>1. e \in Text
    BY TokenTexts
  <2>2. <<t>> \in Text
    BY <2>1, First
  <2>3. <<t>> ++ e = <<t>>
    BY <2>2, Joins
  <2>. QED  BY <2>1, <2>2, <2>3
<1>. HIDE DEF n, e, s
<1>3. /\ s \in Text /\ Len(s) = n + 1 + Len(e)
      /\ \A i \in 1 .. n : s[i] = g[i]
      /\ \A i \in 0 .. n : Nesting(s, i) = Nesting(g, i)
  <2>1. /\ g ++ (<<t>> ++ e) \in Text /\ Len(g ++ (<<t>> ++ e)) = n + 1 + Len(e)
        /\ \A i \in 1 .. n : (g ++ (<<t>> ++ e))[i] = g[i]
        /\ \A i \in 0 .. n : Nesting(g ++ (<<t>> ++ e), i) = Nesting(g, i)
    BY <1>1, <1>2, NestingNext, ZenonT(60) DEF n
  <2>. QED  BY <1>2, <2>1
<1>4. /\ Opens(t) => Nesting(s, n + 1) = Nesting(g, n) + 1
      /\ Closes(t) => Nesting(s, n + 1) = Nesting(g, n) - 1
      /\ ~Opens(t) /\ ~Closes(t) => Nesting(s, n + 1) = Nesting(g, n)
  <2>1. /\ Opens(t) => Nesting(g ++ (<<t>> ++ e), n + 1) = Nesting(g, n) + 1
        /\ Closes(t) => Nesting(g ++ (<<t>> ++ e), n + 1) = Nesting(g, n) - 1
        /\ ~Opens(t) /\ ~Closes(t) => Nesting(g ++ (<<t>> ++ e), n + 1) = Nesting(g, n)
    BY <1>1, <1>2, NestingNext, ZenonT(60) DEF n
  <2>. QED  BY <1>2, <2>1
<1>5. Len(s) = n + 1
  BY <1>1, <1>2, <1>3
<1>6. s # <<>>
  <2>1. Len(s) # 0
    BY <1>1, <1>5
  <2>. QED  BY <1>3, <2>1, Members
<1>7. Opens(s[1])
  <2>1. 1 \in 1 .. n
    BY <1>1
  <2>. QED  BY <1>1, <1>3, <2>1
<1>8. \A i \in 1 .. n : Nesting(s, i) >= 1
  <2>1. \A i \in 1 .. n : i \in 0 .. n
    BY <1>1
  <2>. QED  BY <1>1, <1>3, <2>1
<1>9. /\ Opens(t) => Nesting(s, n + 1) = nest + 2
      /\ Closes(t) => Nesting(s, n + 1) = nest
      /\ ~Opens(t) /\ ~Closes(t) => Nesting(s, n + 1) = nest + 1
  <2>1. Nesting(g, n) = nest + 1
    BY <1>1
  <2>. QED  BY <1>1, <1>4, <2>1
<1>. QED  BY <1>2, <1>3, <1>5, <1>6, <1>7, <1>8, <1>9 DEF n, s

LEMMA GatheredNext ==
    ASSUME NEW g, NEW args \in Seq(Text), Gathered(g, args, 0), NEW t \in TextToken, Parts(t)
    PROVE  Gathered(g ++ <<t>>, Append(args, <<>>), 0)
<1>. DEFINE n == Len(g)
            m == Len(args)
            h == g ++ <<t>>
            more == Append(args, <<>>)
<1>1. /\ h \in Text /\ h # <<>> /\ Opens(h[1]) /\ Len(h) = n + 1 /\ <<t>> \in Text
      /\ \A i \in 1 .. n : Nesting(h, i) >= 1
      /\ Nesting(h, n + 1) = 1
  <2>1. Len(args) \in Nat /\ ~Opens(t) /\ ~Closes(t)
    <3>1. ~Opens(t) /\ ~Closes(t)
      BY OneOf
    <3>2. Len(args) \in Nat
      OBVIOUS
    <3>. QED  BY <3>1, <3>2
  <2>2. Nesting(h, n + 1) = 0 + 1
    BY <2>1, GatheredGoesOn
  <2>. QED  BY <2>1, <2>2, GatheredGoesOn
<1>2. g \in Text /\ g # <<>> /\ n \in Nat \ {0} /\ Nesting(g, n) = 1 /\ m \in Nat
  <2>1. m \in Nat
    OBVIOUS
  <2>2. g \in Text /\ g # <<>> /\ n \in Nat \ {0} /\ 0 + 1 = Nesting(g, n)
    BY <2>1, GatheredParts
  <2>. QED  BY <2>1, <2>2
<1>3. Commas(h) = Commas(g) \cup {n + 1}
  BY <1>2, TokenTexts, CommasNext
<1>4. /\ Cardinality(Commas(h)) = m + 1 /\ Cut(Commas(h), m + 1) = n + 1
      /\ \A k \in 1 .. m : Argument(h, Commas(h), k) = args[k]
  <2>. DEFINE cuts == Commas(h)
              one  == <<t>>
  <2>1. cuts = CutsAnd(Commas(g), Len(g) + 1) /\ one \in Text /\ Len(args) \in Nat /\ h = g ++ one
    BY <1>1, <1>2, <1>3 DEF CutsAnd
  <2>. HIDE DEF cuts, one, h
  <2>2. /\ Cardinality(cuts) = Len(args) + 1 /\ Cut(cuts, Len(args) + 1) = Len(g) + 1
        /\ \A k \in 1 .. Len(args) : Argument(g ++ one, cuts, k) = args[k]
    BY <2>1, GatheredArguments
  <2>. QED  BY <2>1, <2>2 DEF cuts
<1>5. Len(more) = m + 1 /\ (\A k \in 1 .. m : more[k] = args[k]) /\ more[m + 1] = <<>>
  OBVIOUS
<1>. HIDE DEF n, m, h, more
<1>6. \A i \in 1 .. Len(h) : Nesting(h, i) >= 1
  <2>1. \A i \in 1 .. n + 1 : i \in 1 .. n \/ i = n + 1
    BY <1>2
  <2>. QED  BY <1>1, <2>1
<1>7. ASSUME NEW k \in 1 .. Len(more)
      PROVE  more[k] = SubSeq(h, Cut(Commas(h), k) + 1, IF k < Len(more) THEN Cut(Commas(h), k + 1) - 1 ELSE Len(h))
  <2>1. CASE k = m + 1
    <3>1. SubSeq(h, (n + 1) + 1, n + 1) = <<>>
      <4>1. n + 1 \in Nat /\ n + 1 <= Len(h)
        BY <1>1, <1>2
      <4>. QED  BY <1>1, <4>1, NoText
    <3>2. ~(k < Len(more)) /\ Cut(Commas(h), k) = n + 1 /\ Len(h) = n + 1 /\ more[k] = <<>>
      BY <1>1, <1>2, <1>4, <1>5, <2>1
    <3>. QED  BY <3>1, <3>2
  <2>2. CASE k # m + 1
    <3>1. k \in 1 .. m /\ k < Len(more)
      BY <1>2, <1>5, <2>2
    <3>. QED  BY <1>4, <1>5, <3>1 DEF Argument
  <2>. QED  BY <2>1, <2>2
<1>8. 0 = Nesting(h, Len(h)) - 1
  BY <1>1
<1>. QED  BY <1>1, <1>4, <1>5, <1>6, <1>7, <1>8 DEF Gathered, h, more

LEMMA GatheredMore ==
    ASSUME NEW g, NEW args \in Seq(Text), args # <<>>, NEW nest, Gathered(g, args, nest), NEW t \in TextToken,
           ~(nest = 0 /\ (Parts(t) \/ Closes(t)))
    PROVE  Gathered(g ++ <<t>>, Append(Front(args), Append(args[Len(args)], t)),
                    IF Opens(t) THEN nest + 1 ELSE IF Closes(t) THEN nest - 1 ELSE nest)
<1>. DEFINE n == Len(g)
            m == Len(args)
            h == g ++ <<t>>
            C == Commas(g)
            more == Append(Front(args), Append(args[m], t))
            nest2 == IF Opens(t) THEN nest + 1 ELSE IF Closes(t) THEN nest - 1 ELSE nest
<1>0. m \in Nat \ {0} /\ m \in Nat
  BY EmptySeq
<1>1. /\ h \in Text /\ h # <<>> /\ Opens(h[1]) /\ Len(h) = n + 1 /\ <<t>> \in Text
      /\ \A i \in 1 .. n : Nesting(h, i) >= 1
      /\ Opens(t) => Nesting(h, n + 1) = nest + 2
      /\ Closes(t) => Nesting(h, n + 1) = nest
      /\ ~Opens(t) /\ ~Closes(t) => Nesting(h, n + 1) = nest + 1
  BY <1>0, GatheredGoesOn
<1>2. /\ g \in Text /\ g # <<>> /\ n \in Nat \ {0} /\ nest \in Nat /\ nest + 1 = Nesting(g, n)
      /\ C \in SUBSET (1 .. n) /\ Cardinality(C) = m
      /\ \A k \in 1 .. m : Cut(C, k) \in 1 .. n
      /\ \A k \in 1 .. m : args[k] = SubSeq(g, Cut(C, k) + 1, IF k < m THEN Cut(C, k + 1) - 1 ELSE n)
  BY <1>0, GatheredParts
<1>3. Commas(h) = C
  <2>1. ~Parts(t) \/ Nesting(g, n) # 1
    BY <1>2
  <2>. QED  BY <1>2, <2>1, TokenTexts, CommasNext
<1>4. Len(more) = m /\ (\A k \in 1 .. m : k < m => more[k] = args[k]) /\ more[m] = Append(args[m], t)
  <2>. DEFINE S == Text \cup {Append(args[m], t)}
  <2>1. args \in Seq(S) /\ Append(args[m], t) \in S
    BY SeqMonotonic
  <2>. DEFINE x == Append(args[m], t)
  <2>. HIDE DEF S, x
  <2>2. Len(Append(Front(args), x)) = Len(args) /\ Append(Front(args), x)[Len(args)] = x
        /\ \A i \in 1 .. Len(args) : i < Len(args) => Append(Front(args), x)[i] = args[i]
    BY <2>1, Replaced DEF x
  <2>. QED  BY <2>2 DEF x
<1>. HIDE DEF n, m, h, C, more, nest2
<1>6. \A i \in 1 .. Len(h) : Nesting(h, i) >= 1
  <2>1. \A i \in 1 .. n + 1 : i \in 1 .. n \/ i = n + 1
    BY <1>2
  <2>2. Nesting(h, n + 1) >= 1
    BY <1>1, <1>2
  <2>. QED  BY <1>1, <2>1, <2>2
<1>7. ASSUME NEW k \in 1 .. m
      PROVE  more[k] = SubSeq(h, Cut(C, k) + 1, IF k < m THEN Cut(C, k + 1) - 1 ELSE Len(h))
  <2>0. Cut(C, k) \in 1 .. n /\ Cut(C, k) + 1 \in Nat \ {0} /\ Cut(C, k) + 1 <= n + 1
    <3>1. Cut(C, k) \in 1 .. n
      BY <1>2
    <3>. QED  BY <1>2, <3>1
  <2>1. CASE k = m
    <3>1. SubSeq(h, Cut(C, k) + 1, n + 1) = Append(SubSeq(g, Cut(C, k) + 1, n), t)
      BY <1>2, <2>0, PartAndNext DEF h, n
    <3>2. ~(k < m) /\ args[k] = SubSeq(g, Cut(C, k) + 1, n)
      BY <1>0, <1>2, <2>1
    <3>. QED  BY <1>1, <1>4, <2>1, <3>1, <3>2
  <2>2. CASE k # m
    <3>1. k < m /\ k + 1 \in 1 .. m
      BY <1>0, <2>2
    <3>2. Cut(C, k + 1) \in 1 .. n
      BY <1>2, <3>1
    <3>3. Cut(C, k + 1) - 1 \in Nat /\ Cut(C, k + 1) - 1 <= n
      BY <1>2, <3>2
    <3>4. SubSeq(h, Cut(C, k) + 1, Cut(C, k + 1) - 1) = SubSeq(g, Cut(C, k) + 1, Cut(C, k + 1) - 1)
      BY <1>1, <1>2, <2>0, <3>3, PartOfFirst, ZenonT(60) DEF h, n
    <3>5. more[k] = args[k] /\ args[k] = SubSeq(g, Cut(C, k) + 1, Cut(C, k + 1) - 1)
      BY <1>2, <1>4, <3>1
    <3>. QED  BY <3>1, <3>4, <3>5
  <2>. QED  BY <2>1, <2>2
<1>8. nest2 = Nesting(h, Len(h)) - 1
  BY <1>1, <1>2 DEF nest2
<1>9. Gathered(h, more, nest2)
  BY <1>1, <1>2, <1>3, <1>4, <1>6, <1>7, <1>8 DEF Gathered
<1>. QED  BY <1>9 DEF h, more, m, nest2

(* The ')' of the call, and the arguments before it.                        *)
LEMMA GatheredCloses ==
    ASSUME NEW g, NEW args, Len(args) \in Nat, Gathered(g, args, 0), NEW t \in TextToken, Closes(t), NEW a \in Text
    PROVE  LET s == g ++ (<<t>> ++ a) IN
           /\ s \in Text /\ Closing(s) = Len(g) + 1 /\ Closing(s) # 0 /\ s[Closing(s)] = t
           /\ SubSeq(s, Closing(s) + 1, Len(s)) = a
           /\ Cardinality(Cuts(s, Closing(s))) = Len(args) + 1
           /\ \A k \in 1 .. Len(args) : Argument(s, Cuts(s, Closing(s)), k) = args[k]
<1>. DEFINE u == <<t>> ++ a
            s == g ++ u
            n == Len(g)
<1>1. /\ g \in Text /\ g # <<>> /\ n \in Nat \ {0} /\ Nesting(g, n) = 1 /\ Opens(g[1])
      /\ \A i \in 1 .. n : Nesting(g, i) >= 1
  <2>1. g \in Text /\ g # <<>> /\ n \in Nat \ {0} /\ 0 + 1 = Nesting(g, n)
    BY GatheredParts
  <2>2. Opens(g[1]) /\ \A i \in 1 .. n : Nesting(g, i) >= 1
    BY DEF Gathered
  <2>. QED  BY <2>1, <2>2
<1>2. /\ s \in Text /\ Len(s) = n + 1 + Len(a) /\ Len(a) \in Nat
      /\ \A i \in 1 .. n : s[i] = g[i]
      /\ s[n + 1] = t
      /\ \A i \in 0 .. n : Nesting(s, i) = Nesting(g, i)
      /\ Nesting(s, n + 1) = Nesting(g, n) - 1
  <2>1. g \in Text
    BY <1>1
  <2>2. s \in Text /\ Len(s) = n + 1 + Len(a) /\ Len(a) \in Nat
    BY <2>1, NestingNext, SMTT(30)
  <2>3. /\ \A i \in 1 .. n : s[i] = g[i]
        /\ s[n + 1] = t
        /\ \A i \in 0 .. n : Nesting(s, i) = Nesting(g, i)
    BY <2>1, NestingNext, ZenonT(60)
  <2>4. Nesting(s, n + 1) = Nesting(g, n) - 1
    BY <2>1, NestingNext, SMTT(30)
  <2>. QED  BY <2>2, <2>3, <2>4
<1>3. u \in Text /\ <<t>> \in Text /\ Len(<<t>>) = 1
  BY First
<1>4. \A m \in Nat : m <= n =>
        {i \in 2 .. m : Parts(s[i]) /\ Nesting(s, i) = 1} = {i \in 2 .. m : Parts(g[i]) /\ Nesting(g, i) = 1}
  BY <1>1, CommasNext
<1>5. SubSeq(s, (n + 1) + 1, Len(s)) = a
  <2>. DEFINE one == <<t>>
              p == g ++ one
  <2>1. one \in Text /\ Len(one) = 1 /\ s = g ++ (one ++ a)
    BY <1>3
  <2>. HIDE DEF one, s
  <2>2. p \in Text /\ Len(p) = n + 1 /\ s = p ++ a
    <3>0. p \in Text
      BY <1>1, <2>1, Joins
    <3>1. p \in Text /\ Len(p) = n + 1
      <4>1. Len(p) = n + Len(one)
        BY <1>1, <2>1, Joins
      <4>. QED  BY <2>1, <3>0, <4>1
    <3>2. p ++ a = g ++ (one ++ a)
      BY <1>1, <2>1, JoinsRegroup
    <3>. QED  BY <2>1, <3>1, <3>2
  <2>. HIDE DEF p
  <2>3. SubSeq(p ++ a, Len(p) + 1, Len(p ++ a)) = a
    BY <2>2, EndOfText
  <2>. QED  BY <2>2, <2>3
<1>. HIDE DEF u, s
<1>6. Closing(s) = n + 1
  <2>. HIDE DEF n
  <2>0. 1 \in 1 .. n /\ n + 1 \in 1 .. Len(s)
    BY <1>1, <1>2
  <2>1. Opens(s[1]) /\ Closes(s[n + 1]) /\ Nesting(s, n + 1) = 0
    BY <1>1, <1>2, <2>0
  <2>2. \A i \in 1 .. n : Nesting(s, i) # 0
    <3>1. \A i \in 1 .. n : i \in 0 .. n
      BY <1>1
    <3>. QED  BY <1>1, <1>2, <3>1
  <2>3. Closing(s) # 0
    BY <1>2, <2>0, <2>1, ClosingParts
  <2>4. /\ Closing(s) \in 0 .. Len(s) /\ Nesting(s, Closing(s)) = 0
        /\ \A j \in 1 .. Closing(s) - 1 : ~(Closes(s[j]) /\ Nesting(s, j) = 0)
    BY <1>2, <2>3, ClosingParts
  <2>5. ~(Closing(s) \in 1 .. n)
    BY <2>2, <2>4
  <2>6. ~(n + 1 \in 1 .. Closing(s) - 1)
    BY <2>1, <2>4
  <2>. QED  BY <1>1, <1>2, <2>3, <2>4, <2>5, <2>6
<1>7. Cuts(s, n + 1) = Commas(g) \cup {n + 1}
  <2>1. (n + 1) - 1 = n /\ n \in Nat /\ n <= n
    BY <1>1
  <2>2. {i \in 2 .. n : Parts(s[i]) /\ Nesting(s, i) = 1} = {i \in 2 .. n : Parts(g[i]) /\ Nesting(g, i) = 1}
    BY <1>4, <2>1
  <2>. HIDE DEF n
  <2>3. Cuts(s, n + 1) = {1, n + 1} \cup {i \in 2 .. (n + 1) - 1 : Parts(s[i]) /\ Nesting(s, i) = 1}
    BY CutsParts
  <2>4. Commas(g) = {1} \cup {i \in 2 .. n : Parts(g[i]) /\ Nesting(g, i) = 1}
    BY DEF Commas, n
  <2>. QED  BY <2>1, <2>2, <2>3, <2>4
<1>8. /\ Cardinality(Cuts(s, n + 1)) = Len(args) + 1
      /\ \A k \in 1 .. Len(args) : Argument(s, Cuts(s, n + 1), k) = args[k]
  <2>. DEFINE cuts == CutsAnd(Commas(g), Len(g) + 1)
  <2>1. /\ Cardinality(cuts) = Len(args) + 1
        /\ \A k \in 1 .. Len(args) : Argument(g ++ u, cuts, k) = args[k]
    <3>1. cuts = CutsAnd(Commas(g), Len(g) + 1)
      OBVIOUS
    <3>. HIDE DEF cuts
    <3>. QED  BY <1>3, <3>1, GatheredArguments
  <2>. HIDE DEF cuts, n
  <2>2. Cuts(s, n + 1) = cuts
    BY <1>7 DEF cuts, CutsAnd, n
  <2>. QED  BY <2>1, <2>2 DEF s
<1>9. n + 1 # 0
  BY <1>1
<1>. QED  BY <1>2, <1>5, <1>6, <1>8, <1>9 DEF s, u

-----------------------------------------------------------------------------
\* The steps that read a token

\* what the inputs hold, before and after the token has been taken
Coming == Before[Len(inputStack)]
Left   == After[Len(inputStack)]

LEMMA Reads ==
    ASSUME NEW w, NEW g, Meant(w, g), Ready
    PROVE  /\ Scanned /\ Coming \in Text /\ Left \in Text /\ Len(Rest) = Len(inputStack)
           /\ Left = Ahead(macroDefs, Rest, Moved)[Len(Rest)]
           /\ token = EndOfInput => inputStack = <<>> /\ Coming = <<>> /\ Left = <<>> /\ Depth(expansions) = 0
           /\ token = Marker => Coming = <<>>
           /\ token \in SourceToken =>
                token \in TextToken /\ Coming = IF token.atom = "\n" THEN Left ELSE <<token>> ++ Left
           /\ token \in SourceToken \/ token = Marker \/ token = EndOfInput
<1>. DEFINE n == Len(inputStack)
<1>1. IInv /\ TypeInv /\ InputsFit(expansions, inputStack) /\ Depth(expansions) \in Nat
  BY MeantFits, TextTypes
<1>2. Scanned
  BY <1>1, ScannedHolds
<1>3. /\ n \in Nat /\ \A i \in 0 .. n : Before[i] \in Text /\ After[i] \in Text
      /\ inputStack = <<>> => Before[n] = <<>> /\ After[n] = <<>>
      /\ inputStack # <<>> =>
           /\ token = Marker => Before[n] = <<>>
           /\ token # Marker => token \in SourceToken /\ token \in TextToken /\
                Before[n] = IF token.atom = "\n" THEN After[n] ELSE <<token>> ++ After[n]
  BY <1>1, <1>2, TextRead
<1>4. n \in 0 .. n /\ Len(Rest) = n
  BY <1>2, <1>3 DEF Scanned
<1>5. /\ token \in SourceToken \/ token = Marker \/ token = EndOfInput
      /\ token = EndOfInput <=> inputStack = <<>>
  BY <1>2, TokenKinds
<1>6. token = EndOfInput => Depth(expansions) = 0
  BY <1>1, <1>2, InputsTaken
<1>7. Marker # EndOfInput /\ Marker \notin SourceToken /\ EndOfInput \notin SourceToken
  BY TokenSets
<1>. HIDE DEF n
<1>8. token = Marker => Before[n] = <<>>
  BY <1>3, <1>5, <1>7
<1>9. token \in SourceToken =>
        token \in TextToken /\ Before[n] = IF token.atom = "\n" THEN After[n] ELSE <<token>> ++ After[n]
  BY <1>3, <1>5, <1>7
<1>10. Left = Ahead(macroDefs, Rest, Moved)[Len(Rest)]
  BY <1>4 DEF Left, After, n
<1>11. Coming = Before[n] /\ Left = After[n]
  BY DEF Coming, Left, n
<1>. QED  BY <1>2, <1>3, <1>4, <1>5, <1>6, <1>8, <1>9, <1>10, <1>11 DEF n

(* A token is taken, and the calls collect it or look at it.                *)
LEMMA ReadFits ==
    ASSUME NEW w, NEW g, Meant(w, g), Ready, token \in SourceToken,
           NEW fs, Depth(fs) = Depth(expansions),
           NEW v \in Text, Alike(expansions, fs, w, v, Depth(expansions)), NEW h \in Text,
           OpenFits(macroDefs, fs, Rest, h),
           Done(fs, v, Depth(fs)) ++ Expansion(macroDefs)[OpenText(fs, h) ++ Left]
               = Done(expansions, w, Depth(expansions)) ++ Expansion(macroDefs)[OpenText(expansions, g) ++ Coming]
    PROVE  Fits(fs, Rest, Moved, v, h)
<1>1. TypeInv /\ InputsFit(expansions, inputStack) /\ Scanned /\ Left = Ahead(macroDefs, Rest, Moved)[Len(Rest)]
  BY MeantFits, Reads
<1>2. InputsFit(expansions, Rest)
  BY <1>1, InputsTaken
<1>3. Hides(Rest) /\ (Depth(expansions) > 0 => Marked(Rest, Len(expansions[Depth(expansions)].outer)))
  BY <1>2 DEF InputsFit
<1>4. Done(fs, v, Depth(fs)) ++ Expansion(macroDefs)[OpenText(fs, h) ++ Ahead(macroDefs, Rest, Moved)[Len(Rest)]]
        = Done(expansions, w, Depth(expansions)) ++ Expansion(macroDefs)[OpenText(expansions, g) ++ Before[Len(inputStack)]]
  BY <1>1 DEF Coming
<1>. QED  BY <1>3, <1>4, FitsWith

\* What a token taken leaves of a call that looks for its arguments.
LEMMA TakenOpenFits ==
    ASSUME NEW w, NEW g, Meant(w, g), Ready
    PROVE  /\ OpenFits(macroDefs, expansions, Rest, g)
           /\ \A hide : Under(inputStack, Len(inputStack), hide) <=> Under(Rest, Len(Rest), hide)
           /\ token \in SourceToken => Under(Rest, Len(Rest), token.hide)
<1>1. TypeInv /\ InputsFit(expansions, inputStack) /\ Scanned /\ OpenFits(macroDefs, expansions, inputStack, g)
  BY MeantFits, Reads
<1>2. /\ \A hide : Under(Rest, Len(Rest), hide) <=> Under(inputStack, Len(inputStack), hide)
      /\ token \in SourceToken => Under(inputStack, Len(inputStack), token.hide)
  BY <1>1, InputsTaken
<1>3. OpenFits(macroDefs, expansions, Rest, g)
  BY <1>1, <1>2, UndersSame
<1>. QED  BY <1>2, <1>3

(* A line's end is skipped.                                                 *)
LEMMA SkipFits ==
    ASSUME NEW w, NEW g, Meant(w, g), SkipNewLine \/ TokenizeNewLine
    PROVE  Fits(expansions', inputStack', currentPos', w, g)
<1>1. /\ Ready /\ token.atom = "\n" /\ inputStack' = Rest /\ currentPos' = Moved /\ expansions' = expansions
  BY DEF SkipNewLine, TokenizeNewLine, Taken, Tokenizing
<1>2. token \in SourceToken
  BY <1>1, Reads, TokenSets
<1>3. Left = Coming /\ w \in Text /\ g \in Text
  BY <1>1, <1>2, Reads, MeantFits
<1>4. OpenFits(macroDefs, expansions, Rest, g)
  BY <1>1, TakenOpenFits
<1>5. Fits(expansions, Rest, Moved, w, g)
  BY <1>1, <1>2, <1>3, <1>4, AllSame, ReadFits
<1>. QED  BY <1>1, <1>5

-----------------------------------------------------------------------------
\* How the calls change

LEMMA SameBelow ==
    ASSUME NEW es, NEW fs, NEW w, NEW m \in Nat, \A k \in 1 .. m : fs[k] = es[k]
    PROVE  Alike(es, fs, w, w, m) /\ Done(fs, w, m) = Done(es, w, m)
<1>1. m = 0 \/ m \in 1 .. m
  OBVIOUS
<1>. QED  BY <1>1 DEF Alike, SameCall, Done

LEMMA CallAdded ==
    ASSUME NEW es, NEW table, Nested(es, table), Depth(es) = Len(es), NEW f, f.at \notin {"prescan", "undef"}, NEW w
    PROVE  LET fs == Append(es, f) IN
           /\ Depth(fs) = Depth(es) /\ fs # <<>> /\ fs[Len(fs)] = f
           /\ Alike(es, fs, w, w, Depth(es)) /\ Done(fs, w, Depth(fs)) = Done(es, w, Depth(es))
<1>. DEFINE S  == Frame(table) \cup {f}
            fs == Append(es, f)
<1>1. es \in Seq(S) /\ f \in S /\ Depth(es) \in Nat
  BY SeqMonotonic, Depths DEF Nested
<1>. HIDE DEF S
<1>2. Len(fs) = Len(es) + 1 /\ fs[Len(es) + 1] = f /\ fs # <<>> /\ \A k \in 1 .. Len(es) : fs[k] = es[k]
  BY <1>1, Appended
<1>. HIDE DEF fs
<1>3. Depth(fs) = Depth(es)
  BY <1>1, <1>2 DEF Depth
<1>4. Alike(es, fs, w, w, Depth(es)) /\ Done(fs, w, Depth(es)) = Done(es, w, Depth(es))
  BY <1>1, <1>2, SameBelow
<1>5. fs[Len(fs)] = f /\ fs # <<>>
  BY <1>2
<1>. QED  BY <1>3, <1>4, <1>5 DEF fs

LEMMA CallContinued ==
    ASSUME TypeInv, expansions # <<>>, call.at # "prescan", NEW f, f.at \notin {"prescan", "undef"}, NEW w
    PROVE  LET fs == Append(Return, f) IN
           /\ Depth(fs) = Depth(expansions) /\ fs # <<>> /\ fs[Len(fs)] = f
           /\ Alike(expansions, fs, w, w, Depth(expansions)) /\ Done(fs, w, Depth(fs)) = Done(expansions, w, Depth(expansions))
           /\ Depth(Return) = Depth(expansions)
           /\ Alike(expansions, Return, w, w, Depth(expansions)) /\ Done(Return, w, Depth(Return)) = Done(expansions, w, Depth(expansions))
           /\ ~Looks(Return)
<1>. DEFINE n == Len(expansions)
            fs == Append(Return, f)
<1>1. /\ n \in Nat \ {0} /\ call = expansions[n] /\ Len(Return) = n - 1
      /\ \A k \in 1 .. n : k < n => Return[k] = expansions[k] /\ Return[k] \in Scan(macroDefs)
      /\ Nested(Return, macroDefs) /\ Depth(Return) = Len(Return)
  BY Calls
<1>2. Depth(expansions) = n - 1 /\ n - 1 \in Nat
  BY <1>1 DEF Depth
<1>3. /\ Depth(fs) = Depth(Return) /\ fs # <<>> /\ fs[Len(fs)] = f
  BY <1>1, CallAdded
<1>4. \A k \in 1 .. n - 1 : fs[k] = expansions[k] /\ Return[k] = expansions[k]
  <2>. DEFINE S  == Frame(macroDefs) \cup {f}
  <2>1. Return \in Seq(S) /\ f \in S
    BY <1>1, SeqMonotonic DEF Nested
  <2>. HIDE DEF S
  <2>2. \A k \in 1 .. Len(Return) : fs[k] = Return[k]
    BY <2>1, Appended
  <2>3. \A k \in 1 .. n - 1 : k \in 1 .. Len(Return) /\ k \in 1 .. n /\ k < n
    BY <1>1
  <2>. HIDE DEF fs
  <2>. QED  BY <1>1, <2>2, <2>3
<1>5. ~Looks(Return)
  <2>1. ASSUME Return # <<>> PROVE Return[Len(Return)].at = "prescan"
    <3>1. Len(Return) # 0
      BY <1>1, <2>1, EmptySeq DEF Nested
    <3>2. Len(Return) \in 1 .. n /\ Len(Return) < n
      BY <1>1, <3>1
    <3>. QED  BY <1>1, <3>2 DEF Scan
  <2>. QED  BY <2>1 DEF Looks
<1>. HIDE DEF fs, n
<1>6. /\ Alike(expansions, fs, w, w, n - 1) /\ Done(fs, w, n - 1) = Done(expansions, w, n - 1)
  BY <1>2, <1>4, SameBelow
<1>7. /\ Alike(expansions, Return, w, w, n - 1) /\ Done(Return, w, n - 1) = Done(expansions, w, n - 1)
  BY <1>2, <1>4, SameBelow
<1>. QED  BY <1>1, <1>2, <1>3, <1>5, <1>6, <1>7 DEF fs

(* A token is kept by the last of calls that are all scans, or put out.     *)
LEMMA TokenKept ==
    ASSUME NEW es, NEW table, Nested(es, table), Depth(es) = Len(es), NEW t \in SourceToken, Keep(es, t),
           NEW w \in Text, Collected(w)
    PROVE  \E v \in Text :
             /\ Collected(v)' /\ Depth(expansions') = Depth(es) /\ ~Looks(expansions')
             /\ Alike(es, expansions', w, v, Depth(es))
             /\ Done(expansions', v, Depth(expansions')) = Done(es, w, Depth(es)) ++ <<t>>
<1>1. t \in TextToken /\ Len(es) \in Nat
  BY TokenTexts, Depths
<1>2. CASE es = <<>>
  <2>. DEFINE v == Append(w, t)
  <2>1. v = w ++ <<t>> /\ v \in Text
    BY <1>1 DEF ++, Text, TextToken
  <2>2. output' = Append(output, t.atom) /\ expansions' = <<>>
    BY <1>2 DEF Keep
  <2>3. Collected(v)'
    <3>1. output = [i \in DOMAIN w |-> w[i].atom]
      BY DEF Collected
    <3>2. output' = [i \in DOMAIN v |-> v[i].atom]
      BY <1>1, <2>2, <3>1 DEF Text, TextToken
    <3>. QED  BY <3>2 DEF Collected
  <2>4. Depth(es) = 0 /\ Depth(expansions') = 0 /\ ~Looks(expansions')
    BY <1>2, <2>2 DEF Depth, Looks
  <2>. HIDE DEF v
  <2>5. Alike(es, expansions', w, v, 0) /\ Done(expansions', v, 0) = v /\ Done(es, w, 0) = w
    BY DEF Alike, Done
  <2>. QED  BY <2>1, <2>3, <2>4, <2>5
<1>3. CASE es # <<>>
  <2>. DEFINE n == Len(es)
              f == [es[n] EXCEPT !.expanded = Append(@, t)]
  <2>0. n \in Nat \ {0} /\ n \in 1 .. Depth(es) /\ es[n] = Last(es)
    BY <1>1, <1>3, EmptySeq DEF Nested, Last
  <2>1. expansions' = Append(Front(es), f) /\ output' = output
    BY <1>3, <2>0 DEF Keep
  <2>2. es[n] \in Scan(table)
    BY <2>0, Depths
  <2>3. /\ f.expanded = Append(es[n].expanded, t) /\ es[n].expanded \in Seq(SourceToken) /\ SameCall(es[n], f)
        /\ f.at = "prescan"
    BY <2>2 DEF Scan, SameCall
  <2>4. es[n].expanded \in Text /\ Append(es[n].expanded, t) = es[n].expanded ++ <<t>>
    <3>1. es[n].expanded \in Text
      BY <2>3, TokenTexts
    <3>. QED  BY <1>1, <3>1, SMTT(30) DEF ++, Text, TextToken
  <2>5. es \in Seq(Frame(table) \cup {f})
    BY SeqMonotonic DEF Nested
  <2>. DEFINE S == Frame(table) \cup {f}
              r == Append(Front(es), f)
  <2>6. es \in Seq(S) /\ f \in S
    BY <2>5
  <2>. HIDE DEF S, f
  <2>7. Len(r) = n /\ r[n] = f /\ r # <<>> /\ \A i \in 1 .. n : i < n => r[i] = es[i]
    BY <1>3, <2>6, Replaced
  <2>. HIDE DEF r, n
  <2>8. Depth(r) = n /\ ~Looks(r) /\ Depth(es) = n
    BY <2>3, <2>7 DEF Depth, Looks, n
  <2>9. Alike(es, r, w, w, n)
    <3>1. \A k \in 1 .. n : k = n \/ k < n
      BY <2>0
    <3>. QED  BY <2>3, <2>7, <3>1 DEF Alike, SameCall
  <2>10. Done(r, w, n) = Done(es, w, n) ++ <<t>>
    BY <2>0, <2>3, <2>4, <2>7 DEF Done
  <2>11. Collected(w)'
    BY <2>1 DEF Collected
  <2>12. expansions' = r
    BY <2>1 DEF r
  <2>. QED  BY <2>8, <2>9, <2>10, <2>11, <2>12
<1>. QED  BY <1>2, <1>3

-----------------------------------------------------------------------------
\* The steps that keep a token

LEMMA AllScans ==
    ASSUME TypeInv, expansions = <<>> \/ At("prescan")
    PROVE  Depth(expansions) = Len(expansions) /\ ~Looks(expansions) /\ Nested(expansions, macroDefs)
<1>1. expansions # <<>> => call = expansions[Len(expansions)]
  BY Calls
<1>2. Nested(expansions, macroDefs)
  BY DEF TypeInv
<1>. QED  BY <1>1, <1>2 DEF Depth, Looks, At

(* A busy macro is on the stack, and its tokens and those of its arguments  *)
(* may not be expanded by it.                                               *)
LEMMA Hiding ==
    ASSUME NEW w, NEW g, Meant(w, g), Ready, token \in SourceToken, ~Expandable(token)
    PROVE  token.atom \notin DOMAIN macroDefs \/ token.atom \in token.hide
<1>1. IInv /\ TypeInv /\ undef = {} /\ InputsFit(expansions, inputStack) /\ Scanned /\ Hides(inputStack)
  BY MeantFits, Reads DEF Meant, Sound, SourceInv, InputsFit
<1>2. SUFFICES ASSUME token.atom \in DOMAIN macroDefs PROVE token.atom \in token.hide
  OBVIOUS
<1>3. token.atom \in busy
  BY <1>1, <1>2 DEF Expandable
<1>4. MacroAt(inputStack, token.atom) # {}
  BY <1>1, <1>2, <1>3 DEF IInv, BusyInv, Sole
<1>5. PICK i \in 1 .. Len(inputStack) : inputStack[i].kind = "macro" /\ inputStack[i].mac = token.atom
  BY <1>4 DEF MacroAt
<1>6. token.atom \in inputStack[i].hide
  BY <1>1, <1>5 DEF Hides, HidesAt
<1>7. inputStack[i].hide \subseteq token.hide
  <2>1. Under(inputStack, Len(inputStack), token.hide)
    BY <1>1, InputsTaken
  <2>. QED  BY <1>5, <2>1 DEF Under
<1>. QED  BY <1>6, <1>7

\* No line ends within an argument.
LEMMA NoBreak ==
    ASSUME NEW w, NEW g, Meant(w, g), Ready, token \in SourceToken, Depth(expansions) > 0
    PROVE  token.atom # "\n" /\ token \in PlainToken
<1>1. IInv /\ TypeInv /\ InputsFit(expansions, inputStack) /\ Scanned
  BY MeantFits, Reads
<1>2. Marked(Rest, Len(expansions[Depth(expansions)].outer)) /\ Len(Rest) \in Nat
  BY <1>1, InputsTaken DEF InputsFit, Scanned
<1>3. PICK p \in 1 .. Len(Rest) : Live(Rest[p])
  BY <1>2 DEF Marked, MarkedAt
<1>4. p \in LiveAbove(Rest, 0)
  BY <1>2, <1>3 DEF LiveAbove
<1>5. token \in PlainToken
  BY <1>1, <1>4, TakenPlaces DEF IInv, LineInv
<1>. QED  BY <1>5, TokenTexts

LEMMA TokenFits ==
    ASSUME NEW w, NEW g, Meant(w, g), PrescanToken \/ TokenizeToken
    PROVE  \E v \in Text, h \in Text : Collected(v)' /\ Fits(expansions', inputStack', currentPos', v, h)
<1>1. /\ Ready /\ inputStack' = Rest /\ currentPos' = Moved /\ ~Expandable(token) /\ Keep(expansions, token)
      /\ expansions = <<>> \/ At("prescan")
  BY DEF PrescanToken, TokenizeToken, Prescanning, Tokenizing, Taken
<1>2. /\ TypeInv /\ w \in Text /\ g \in Text /\ IsTable(macroDefs) /\ Collected(w)
      /\ Done(expansions, w, Depth(expansions)) \in Text
  <2>1. TypeInv /\ w \in Text /\ g \in Text /\ IsTable(macroDefs) /\ Collected(w)
    BY MeantFits DEF Meant
  <2>2. Depth(expansions) \in Nat
    BY <2>1, TextTypes
  <2>3. Depth(expansions) \in 0 .. Depth(expansions)
    BY <2>2
  <2>. QED  BY <2>1, <2>3, TextTypes
<1>3. Depth(expansions) = Len(expansions) /\ ~Looks(expansions) /\ Nested(expansions, macroDefs)
  BY <1>1, <1>2, AllScans
<1>4. token \in SourceToken /\ token.atom # "\n"
  <2>1. token # Marker /\ token # EndOfInput /\ (At("prescan") \/ token.atom # "\n")
    BY DEF PrescanToken, TokenizeToken, Tokenizing, EndsArgument, Prescanning
  <2>2. token \in SourceToken
    BY <1>1, <2>1, Reads
  <2>3. At("prescan") => Depth(expansions) > 0
    <3>1. expansions # <<>> => Len(expansions) \in Nat \ {0}
      BY <1>2, Calls
    <3>. QED  BY <1>3, <3>1 DEF At
  <2>. QED  BY <1>1, <2>1, <2>2, <2>3, NoBreak
<1>5. token \in TextToken /\ Coming = <<token>> ++ Left /\ Left \in Text /\ Coming \in Text
  BY <1>1, <1>4, Reads
<1>6. PICK v \in Text :
        /\ Collected(v)' /\ Depth(expansions') = Depth(expansions) /\ ~Looks(expansions')
        /\ Alike(expansions, expansions', w, v, Depth(expansions))
        /\ Done(expansions', v, Depth(expansions')) = Done(expansions, w, Depth(expansions)) ++ <<token>>
  BY <1>1, <1>2, <1>3, <1>4, TokenKept
<1>7. Expansion(macroDefs)[Coming] = <<token>> ++ Expansion(macroDefs)[Left] /\ Expansion(macroDefs)[Left] \in Text
  <2>1. token.atom \notin DOMAIN macroDefs \/ token.atom \in token.hide
    BY <1>1, <1>4, Hiding
  <2>. QED  BY <1>2, <1>5, <2>1, ExpandsKept, ExpandsText
<1>8. OpenText(expansions, g) = <<>> /\ OpenText(expansions', g) = <<>> /\ OpenFits(macroDefs, expansions', Rest, g)
  BY <1>3, <1>6 DEF OpenText, OpenFits
<1>9. <<>> ++ Coming = Coming /\ <<>> ++ Left = Left
  BY <1>5, Joins
<1>10. Done(expansions', v, Depth(expansions')) ++ Expansion(macroDefs)[OpenText(expansions', g) ++ Left]
         = Done(expansions, w, Depth(expansions)) ++ Expansion(macroDefs)[OpenText(expansions, g) ++ Coming]
  <2>. DEFINE d   == Done(expansions, w, Depth(expansions))
              e   == Expansion(macroDefs)[Left]
              one == <<token>>
  <2>1. d \in Text /\ e \in Text /\ one \in Text
    BY <1>2, <1>5, <1>7, First
  <2>. HIDE DEF d, e, one
  <2>2. (d ++ one) ++ e = d ++ (one ++ e)
    BY <2>1, JoinsRegroup
  <2>. QED  BY <1>6, <1>7, <1>8, <1>9, <2>2 DEF d, e, one
<1>11. Fits(expansions', Rest, Moved, v, g)
  BY <1>1, <1>2, <1>4, <1>6, <1>8, <1>10, ReadFits
<1>. QED  BY <1>1, <1>2, <1>6, <1>11

(* What does not begin with '(' is no call.                                 *)
LEMMA NoClosing ==
    ASSUME NEW s \in Text, s # <<>> => ~Opens(s[1])
    PROVE  Closing(s) = 0
BY ClosingParts

LEMMA NoCallFits ==
    ASSUME NEW w, NEW g, Meant(w, g), NoCall
    PROVE  \E v \in Text, h \in Text : Collected(v)' /\ Fits(expansions', inputStack', currentPos', v, h)
<1>1. /\ Ready /\ At("paren") /\ expansions # <<>> /\ ~Opens(token) /\ token.atom # "\n"
      /\ inputStack' = (IF token = EndOfInput THEN Rest ELSE Append(Rest, Tokens(<<token>>)))
      /\ currentPos' = Moved /\ Keep(Return, call.name)
  <2>1. /\ Ready /\ At("paren") /\ token.atom \notin {"(", "\n"}
        /\ inputStack' = (IF token = EndOfInput THEN Rest ELSE Append(Rest, Tokens(<<token>>)))
        /\ currentPos' = Moved /\ Keep(Return, call.name)
    BY Zenon DEF NoCall
  <2>2. ~Opens(token) /\ token.atom # "\n"
    BY <2>1, Zenon DEF Opens
  <2>3. expansions # <<>>
    BY <2>1, Zenon DEF At
  <2>. QED  BY <2>1, <2>2, <2>3, Zenon
<1>2. /\ TypeInv /\ w \in Text /\ g \in Text /\ IsTable(macroDefs) /\ Collected(w)
      /\ Done(expansions, w, Depth(expansions)) \in Text /\ Depth(expansions) \in Nat
      /\ InputsFit(expansions, inputStack) /\ OpenFits(macroDefs, expansions, inputStack, g)
  <2>1. /\ TypeInv /\ w \in Text /\ g \in Text /\ IsTable(macroDefs) /\ Collected(w)
        /\ InputsFit(expansions, inputStack) /\ OpenFits(macroDefs, expansions, inputStack, g)
    BY MeantFits DEF Meant
  <2>2. Depth(expansions) \in Nat
    BY <2>1, TextTypes
  <2>3. Depth(expansions) \in 0 .. Depth(expansions)
    BY <2>2
  <2>. QED  BY <2>1, <2>2, <2>3, TextTypes
<1>. DEFINE name == call.name
<1>3. /\ call = expansions[Len(expansions)] /\ call \in Opening(macroDefs) /\ call.at = "paren"
      /\ name \in PlainToken /\ name.atom \in DOMAIN macroDefs
  BY <1>1, <1>2, Calls, CallKinds DEF Opening, Name, At
<1>4. /\ Looks(expansions) /\ OpenText(expansions, g) = <<name>> /\ macroDefs[name.atom].functionLike
  <2>1. Looks(expansions)
    BY <1>1, <1>3 DEF Looks
  <2>2. OpenText(expansions, g) = <<name>>
    BY <1>3, <2>1 DEF OpenText
  <2>3. macroDefs[name.atom].functionLike
    BY <1>2, <1>3, <2>1 DEF OpenFits
  <2>. QED  BY <2>1, <2>2, <2>3
<1>5. name \in SourceToken /\ name \in TextToken
  BY <1>3, TokenTexts, TokenSets
<1>6. /\ Nested(Return, macroDefs) /\ Depth(Return) = Len(Return) /\ Depth(Return) = Depth(expansions)
      /\ Alike(expansions, Return, w, w, Depth(expansions)) /\ Done(Return, w, Depth(Return)) = Done(expansions, w, Depth(expansions))
  <2>1. Nested(Return, macroDefs) /\ Depth(Return) = Len(Return)
    BY <1>1, <1>2, Calls
  <2>2. call.at # "prescan" /\ call.at \notin {"prescan", "undef"}
    BY <1>3
  <2>. QED  BY <1>1, <1>2, <2>1, <2>2, CallContinued
<1>7. PICK v \in Text :
        /\ Collected(v)' /\ Depth(expansions') = Depth(Return) /\ ~Looks(expansions')
        /\ Alike(Return, expansions', w, v, Depth(Return))
        /\ Done(expansions', v, Depth(expansions')) = Done(Return, w, Depth(Return)) ++ <<name>>
  BY <1>1, <1>2, <1>5, <1>6, TokenKept
<1>8. Alike(expansions, expansions', w, v, Depth(expansions)) /\ Depth(expansions') = Depth(expansions)
  BY <1>6, <1>7 DEF Alike, SameCall
<1>9. Coming \in Text /\ Left \in Text /\ (Coming # <<>> => ~Opens(Coming[1]))
  <2>1. Coming \in Text /\ Left \in Text
    BY <1>1, Reads
  <2>2. token \in SourceToken => Coming = <<token>> ++ Left /\ token \in TextToken
    BY <1>1, Reads
  <2>3. token \in SourceToken => Coming[1] = token
    BY <2>1, <2>2, First
  <2>. QED  BY <1>1, <2>1, <2>3, Reads
<1>10. Expansion(macroDefs)[<<name>> ++ Coming] = <<name>> ++ Expansion(macroDefs)[Coming] /\ Expansion(macroDefs)[Coming] \in Text
  <2>1. Closing(Coming) = 0
    BY <1>9, NoClosing
  <2>. QED  BY <1>2, <1>4, <1>5, <1>9, <2>1, ExpandsKept, ExpandsText
<1>11. ASSUME NEW s, Ahead(macroDefs, s, Moved)[Len(s)] = Coming, Hides(s),
              Depth(expansions) > 0 => Marked(s, Len(expansions[Depth(expansions)].outer))
       PROVE  Fits(expansions', s, Moved, v, g)
  <2>1. OpenText(expansions', g) = <<>> /\ OpenFits(macroDefs, expansions', s, g) /\ <<>> ++ Coming = Coming
    BY <1>7, <1>9, Joins DEF OpenText, OpenFits
  <2>2. Done(expansions', v, Depth(expansions')) ++ Expansion(macroDefs)[OpenText(expansions', g) ++ Coming]
          = Done(expansions, w, Depth(expansions)) ++ Expansion(macroDefs)[OpenText(expansions, g) ++ Coming]
    <3>. DEFINE d   == Done(expansions, w, Depth(expansions))
                e   == Expansion(macroDefs)[Coming]
                one == <<name>>
    <3>1. d \in Text /\ e \in Text /\ one \in Text
      BY <1>2, <1>5, <1>10, First, TokenTexts
    <3>. HIDE DEF d, e, one
    <3>2. (d ++ one) ++ e = d ++ (one ++ e)
      BY <3>1, JoinsRegroup
    <3>. QED  BY <1>4, <1>6, <1>7, <1>10, <2>1, <3>2 DEF d, e, one
  <2>3. Done(expansions', v, Depth(expansions')) ++ Expansion(macroDefs)[OpenText(expansions', g) ++ Ahead(macroDefs, s, Moved)[Len(s)]]
          = Done(expansions, w, Depth(expansions)) ++ Expansion(macroDefs)[OpenText(expansions, g) ++ Before[Len(inputStack)]]
    BY <1>11, <2>2 DEF Coming
  <2>. QED  BY <1>2, <1>8, <1>11, <2>1, <2>3, FitsWith
<1>12. /\ Scanned /\ Len(Rest) = Len(inputStack) /\ Left = Ahead(macroDefs, Rest, Moved)[Len(Rest)]
       /\ Rest \in Seq(Input(macroDefs)) /\ Moved \in Positions(macroDefs)
  BY <1>1, Reads DEF Scanned, Positions
<1>13. Hides(Rest)
  BY <1>1, <1>2, <1>12, InputsTaken
<1>14. Depth(expansions) > 0 => Len(expansions[Depth(expansions)].outer) \in Nat
  <2>1. ASSUME Depth(expansions) > 0 PROVE Len(expansions[Depth(expansions)].outer) \in Nat
    <3>1. Depth(expansions) \in 1 .. Depth(expansions)
      BY <1>2, <2>1
    <3>2. expansions[Depth(expansions)] \in Scan(macroDefs)
      BY <1>2, <3>1, TextTypes
    <3>. QED  BY <3>2 DEF Scan
  <2>. QED  BY <2>1
<1>15. CASE token = EndOfInput
  <2>1. Coming = Left /\ Depth(expansions) = 0 /\ inputStack' = Rest
    BY <1>1, <1>15, Reads
  <2>2. Fits(expansions', Rest, Moved, v, g)
    BY <1>11, <1>12, <1>13, <2>1
  <2>. QED  BY <1>1, <1>2, <1>7, <2>1, <2>2
<1>16. CASE token # EndOfInput
  <2>. DEFINE x == Tokens(<<token>>)
              s == Append(Rest, x)
  <2>1. inputStack' = s
    BY <1>1, <1>16
  <2>2. x \in Input(macroDefs) /\ x.kind # "macro" /\ x.rest = <<token>> /\ (token = Marker => Live(x)) /\ (token # Marker => ~Live(x) /\ token \in PlainToken)
    <3>1. CASE token = Marker
      BY <3>1, NewInputs
    <3>2. CASE token # Marker
      <4>1. token \in SourceToken
        BY <1>1, <1>16, <3>2, Reads
      <4>2. token \in PlainToken
        BY <1>1, <1>12, <4>1, TokenKinds
      <4>3. <<token>> \in Seq(PlainToken)
        BY <4>2
      <4>. QED  BY <3>2, <4>2, <4>3, NewInputs
    <3>. QED  BY <3>1, <3>2
  <2>3. Live(x) \/ TokensUnder(Rest, Len(Rest), x.rest)
    <3>1. CASE token = Marker
      BY <2>2, <3>1
    <3>2. CASE token # Marker
      <4>1. Under(Rest, Len(Rest), token.hide)
        BY <1>1, <2>2, <3>2, TakenOpenFits, TokenSets
      <4>2. Len(<<token>>) = 1 /\ <<token>>[1] = token
        OBVIOUS
      <4>3. TokensUnder(Rest, Len(Rest), <<token>>)
        BY <4>1, <4>2 DEF TokensUnder
      <4>. QED  BY <2>2, <4>3
    <3>. QED  BY <3>1, <3>2
  <2>4. Len(s) = Len(Rest) + 1
    BY <1>12
  <2>5. Ahead(macroDefs, s, Moved)[Len(s)] = Coming
    <3>1. CASE token = Marker
      <4>1. Ahead(macroDefs, s, Moved)[Len(Rest) + 1] = <<>>
        BY <1>2, <1>12, <3>1, TextPutBack
      <4>2. Coming = <<>>
        BY <1>1, <3>1, Reads
      <4>. QED  BY <2>4, <4>1, <4>2
    <3>2. CASE token # Marker
      <4>1. Ahead(macroDefs, s, Moved)[Len(Rest) + 1] = <<token>> ++ Ahead(macroDefs, Rest, Moved)[Len(Rest)]
        BY <1>2, <1>12, <2>2, <3>2, TextPutBack
      <4>2. token \in SourceToken
        BY <2>2, <3>2, TokenSets
      <4>3. Coming = <<token>> ++ Left
        BY <1>1, <4>2, Reads
      <4>. QED  BY <1>12, <2>4, <4>1, <4>3
    <3>. QED  BY <3>1, <3>2
  <2>. HIDE DEF x
  <2>6. Hides(s)
    BY <1>12, <1>13, <2>2, <2>3, HidesAdded
  <2>7. ASSUME Depth(expansions) > 0 PROVE Marked(s, Len(expansions[Depth(expansions)].outer))
    <3>. DEFINE lo == Len(expansions[Depth(expansions)].outer)
    <3>1. lo \in Nat /\ Marked(inputStack, lo)
      BY <1>2, <1>14, <2>7 DEF InputsFit
    <3>. HIDE DEF lo
    <3>2. CASE token = Marker
      <4>1. lo < Len(inputStack) /\ \A i \in 1 .. Len(Rest) : lo < i => Spent(Rest[i])
        BY <1>1, <1>2, <1>12, <3>1, <3>2, MarkedTaken
      <4>2. lo <= Len(Rest)
        BY <1>12, <3>1, <4>1 DEF Scanned
      <4>3. Live(x)
        BY <2>2, <3>2
      <4>4. Marked(Append(Rest, x), lo)
        BY <1>12, <2>2, <3>1, <4>1, <4>2, <4>3, MarkedOnTop
      <4>. QED  BY <4>4 DEF lo
    <3>3. CASE token # Marker
      <4>1. Marked(Rest, lo)
        BY <1>1, <1>2, <1>12, <3>1, <3>3, MarkedTaken
      <4>2. ~Live(x)
        BY <2>2, <3>3
      <4>3. Marked(Append(Rest, x), lo)
        BY <1>12, <2>2, <3>1, <4>1, <4>2, MarkedAdded
      <4>. QED  BY <4>3 DEF lo
    <3>. QED  BY <3>2, <3>3
  <2>. HIDE DEF s
  <2>8. Fits(expansions', s, Moved, v, g)
    BY <1>11, <2>5, <2>6, <2>7
  <2>. QED  BY <1>1, <1>2, <1>7, <2>1, <2>8
<1>. QED  BY <1>15, <1>16

-----------------------------------------------------------------------------
\* The steps that begin a call and gather its arguments

\* what the lemmas below use of Meant
LEMMA MeantTypes ==
    ASSUME NEW w, NEW g, Meant(w, g)
    PROVE  /\ TypeInv /\ w \in Text /\ g \in Text /\ IsTable(macroDefs) /\ Collected(w) /\ ~At("recover")
           /\ Depth(expansions) \in Nat /\ Done(expansions, w, Depth(expansions)) \in Text
<1>1. TypeInv /\ w \in Text /\ g \in Text /\ IsTable(macroDefs) /\ Collected(w) /\ ~At("recover")
  BY MeantFits DEF Meant, Sound
<1>2. Depth(expansions) \in Nat
  BY <1>1, TextTypes
<1>3. Depth(expansions) \in 0 .. Depth(expansions)
  BY <1>2
<1>. QED  BY <1>1, <1>2, <1>3, TextTypes

LEMMA ExpandableToken ==
    ASSUME NEW w, NEW g, Meant(w, g), Ready, Expandable(token)
    PROVE  /\ token \in SourceToken /\ token \in PlainToken /\ token \in Name(macroDefs)
           /\ token.atom # "\n" /\ token.atom \in DOMAIN macroDefs /\ token.atom \notin busy
           /\ Coming = <<token>> ++ Left /\ Coming \in Text /\ Left \in Text /\ token \in TextToken
<1>1. TypeInv
  BY MeantTypes
<1>2. token.atom \in DOMAIN macroDefs /\ token.atom \notin busy
  BY DEF Expandable
<1>3. token.atom \in STRING \ Reserved
  BY <1>1, <1>2, Macros
<1>4. token # Marker /\ token # EndOfInput /\ token.atom # "\n"
  BY <1>3, TokenSets DEF Reserved
<1>5. token \in SourceToken
  BY <1>4, Reads
<1>6. token \in PlainToken
  BY <1>4, <1>5, Reads, TokenKinds
<1>. QED  BY <1>2, <1>4, <1>5, <1>6, Reads DEF Name

\* The name of a function-like macro: a call may follow.
LEMMA MacroLooks ==
    ASSUME NEW w, NEW g, Meant(w, g), PrescanMacro \/ TokenizeMacro, macroDefs[token.atom].functionLike
    PROVE  Fits(expansions', inputStack', currentPos', w, g) /\ output' = output
<1>1. /\ Ready /\ Expandable(token) /\ MacroExpand /\ (expansions = <<>> \/ At("prescan"))
  BY DEF PrescanMacro, TokenizeMacro, Prescanning, Tokenizing
<1>. DEFINE f == [at |-> "paren", name |-> token]
<1>2. inputStack' = Rest /\ currentPos' = Moved /\ output' = output /\ expansions' = Append(expansions, f)
  BY <1>1 DEF MacroExpand, Taken
<1>3. /\ TypeInv /\ w \in Text /\ g \in Text /\ Done(expansions, w, Depth(expansions)) \in Text /\ Depth(expansions) \in Nat
  BY MeantTypes
<1>4. Depth(expansions) = Len(expansions) /\ ~Looks(expansions) /\ Nested(expansions, macroDefs)
  BY <1>1, <1>3, AllScans
<1>5. /\ token \in SourceToken /\ token.atom \in DOMAIN macroDefs
      /\ Coming = <<token>> ++ Left /\ Coming \in Text /\ Left \in Text
  BY <1>1, ExpandableToken
<1>6. f.at = "paren" /\ f.name = token
  OBVIOUS
<1>. DEFINE fs == Append(expansions, f)
<1>. HIDE DEF f
<1>7. /\ Depth(fs) = Depth(expansions) /\ fs # <<>> /\ fs[Len(fs)] = f
      /\ Alike(expansions, fs, w, w, Depth(expansions)) /\ Done(fs, w, Depth(fs)) = Done(expansions, w, Depth(expansions))
  <2>1. f.at \notin {"prescan", "undef"}
    BY <1>6
  <2>. QED  BY <1>4, <2>1, CallAdded
<1>. HIDE DEF fs
<1>8. Looks(fs) /\ OpenText(fs, g) = <<token>>
  BY <1>6, <1>7 DEF Looks, OpenText
<1>9. OpenText(expansions, g) = <<>> /\ <<>> ++ Coming = Coming
  BY <1>4, <1>5, Joins DEF OpenText
<1>10. OpenFits(macroDefs, fs, Rest, g)
  <2>1. Under(Rest, Len(Rest), token.hide)
    BY <1>1, <1>5, TakenOpenFits
  <2>. QED  BY <1>6, <1>7, <2>1 DEF OpenFits
<1>11. Done(fs, w, Depth(fs)) ++ Expansion(macroDefs)[OpenText(fs, g) ++ Left]
         = Done(expansions, w, Depth(expansions)) ++ Expansion(macroDefs)[OpenText(expansions, g) ++ Coming]
  BY <1>5, <1>7, <1>8, <1>9
<1>12. Fits(fs, Rest, Moved, w, g)
  BY <1>1, <1>3, <1>5, <1>7, <1>10, <1>11, ReadFits
<1>. QED  BY <1>2, <1>12 DEF fs

(* The call is looked at further: its '(' is read, or a token of its        *)
(* arguments.                                                               *)
LEMMA GatherFits ==
    ASSUME NEW w, NEW g, Meant(w, g), Ready, token \in SourceToken, token.atom # "\n",
           expansions # <<>>, call.at \in {"paren", "args"},
           NEW f, f.at = "args", f.name = call.name, NEW h \in Text,
           h = IF call.at = "args" THEN g ++ <<token>> ELSE <<token>>,
           call.at = "args" => g # <<>>,
           Gathered(h, f.args, f.nest),
           \A a \in 1 .. Len(f.args) : TokensUnder(Rest, Len(Rest), f.args[a])
    PROVE  Fits(Append(Return, f), Rest, Moved, w, h)
<1>1. /\ TypeInv /\ w \in Text /\ g \in Text /\ Done(expansions, w, Depth(expansions)) \in Text /\ Depth(expansions) \in Nat
      /\ OpenFits(macroDefs, expansions, inputStack, g)
  BY MeantTypes, MeantFits
<1>2. call = expansions[Len(expansions)] /\ Looks(expansions)
  BY <1>1, Calls DEF Looks
<1>3. call.name \in TextToken
  <2>1. call \in Opening(macroDefs) \cup Gathering(macroDefs)
    BY <1>1, CallKinds DEF At
  <2>2. call.name \in PlainToken
    BY <2>1 DEF Opening, Gathering, Name
  <2>. QED  BY <2>2, TokenTexts
<1>4. /\ macroDefs[call.name.atom].functionLike /\ Under(Rest, Len(Rest), call.name.hide)
  <2>1. OpenFits(macroDefs, expansions, Rest, g)
    BY TakenOpenFits
  <2>. QED  BY <1>2, <2>1 DEF OpenFits
<1>5. Coming = <<token>> ++ Left /\ Coming \in Text /\ Left \in Text /\ token \in TextToken
  BY Reads
<1>. DEFINE fs == Append(Return, f)
<1>6. /\ Depth(fs) = Depth(expansions) /\ fs # <<>> /\ fs[Len(fs)] = f
      /\ Alike(expansions, fs, w, w, Depth(expansions)) /\ Done(fs, w, Depth(fs)) = Done(expansions, w, Depth(expansions))
  <2>1. f.at \notin {"prescan", "undef"} /\ call.at # "prescan"
    OBVIOUS
  <2>. QED  BY <1>1, <2>1, CallContinued
<1>. HIDE DEF fs
<1>7. OpenFits(macroDefs, fs, Rest, h)
  BY <1>4, <1>6 DEF OpenFits
<1>8. Looks(fs) /\ OpenText(fs, h) = <<call.name>> ++ h
  BY <1>6 DEF Looks, OpenText
<1>9. (<<call.name>> ++ h) ++ Left = OpenText(expansions, g) ++ Coming
  <2>. DEFINE name == <<call.name>>
              one  == <<token>>
  <2>1. name \in Text /\ one \in Text
    BY <1>1, <1>3, <1>5, First
  <2>2. Coming = one ++ Left /\ h = (IF call.at = "args" THEN g ++ one ELSE one)
        /\ OpenText(expansions, g) = IF call.at = "args" THEN name ++ g ELSE name
    BY <1>2, <1>5 DEF OpenText
  <2>. HIDE DEF name, one
  <2>3. CASE call.at = "args"
    <3>1. h = g ++ one /\ OpenText(expansions, g) = name ++ g
      BY <2>2, <2>3
    <3>2. (name ++ (g ++ one)) ++ Left = name ++ ((g ++ one) ++ Left)
      <4>1. g ++ one \in Text
        BY <1>1, <2>1, Joins
      <4>. QED  BY <1>5, <2>1, <4>1, JoinsRegroup
    <3>3. (g ++ one) ++ Left = g ++ (one ++ Left)
      BY <1>1, <1>5, <2>1, JoinsRegroup
    <3>4. one ++ Left \in Text
      BY <1>5, <2>1, Joins
    <3>5. (name ++ g) ++ (one ++ Left) = name ++ (g ++ (one ++ Left))
      BY <1>1, <2>1, <3>4, JoinsRegroup
    <3>. QED  BY <2>2, <3>1, <3>2, <3>3, <3>5 DEF name
  <2>4. CASE call.at # "args"
    <3>1. (name ++ one) ++ Left = name ++ (one ++ Left)
      BY <1>5, <2>1, JoinsRegroup
    <3>. QED  BY <2>2, <2>4, <3>1 DEF name
  <2>. QED  BY <2>3, <2>4
<1>10. Done(fs, w, Depth(fs)) ++ Expansion(macroDefs)[OpenText(fs, h) ++ Left]
         = Done(expansions, w, Depth(expansions)) ++ Expansion(macroDefs)[OpenText(expansions, g) ++ Coming]
  BY <1>6, <1>8, <1>9
<1>11. Fits(fs, Rest, Moved, w, h)
  BY <1>1, <1>6, <1>7, <1>10, ReadFits
<1>. QED  BY <1>11 DEF fs

LEMMA BeginsFits ==
    ASSUME NEW w, NEW g, Meant(w, g), CallBegins
    PROVE  \E h \in Text : Fits(expansions', inputStack', currentPos', w, h)
<1>. DEFINE f == [at |-> "args", name |-> call.name, args |-> << <<>> >>, nest |-> 0, recorded |-> FALSE]
<1>1. /\ Ready /\ At("paren") /\ Opens(token) /\ inputStack' = Rest /\ currentPos' = Moved
      /\ expansions' = Append(Return, f)
  BY Zenon DEF CallBegins, Opens, Continue, Taken
<1>2. expansions # <<>> /\ call.at = "paren"
  BY <1>1 DEF At
<1>3. token \in SourceToken /\ token.atom # "\n"
  <2>1. token.atom # "\n" /\ token.atom # "marker" /\ token.atom # "end of input"
    BY <1>1, Zenon DEF Opens
  <2>2. token # Marker /\ token # EndOfInput
    BY <2>1, TokenSets
  <2>. QED  BY <1>1, <2>1, <2>2, Reads
<1>4. token \in TextToken
  BY <1>1, <1>3, Reads
<1>5. <<token>> \in Text
  BY <1>4, First, TokenTexts
<1>6. f.at = "args" /\ f.name = call.name /\ f.nest = 0 /\ f.args = << <<>> >>
  OBVIOUS
<1>. HIDE DEF f
<1>7. Gathered(<<token>>, f.args, f.nest)
  BY <1>1, <1>4, <1>6, GatheredBegins
<1>8. \A a \in 1 .. Len(f.args) : TokensUnder(Rest, Len(Rest), f.args[a])
  <2>1. \A a \in 1 .. Len(f.args) : Len(f.args[a]) = 0
    BY <1>6
  <2>. QED  BY <2>1 DEF TokensUnder
<1>. DEFINE h == <<token>>
<1>9. h = (IF call.at = "args" THEN g ++ <<token>> ELSE <<token>>) /\ (call.at = "args" => g # <<>>)
      /\ call.at \in {"paren", "args"}
  BY <1>2
<1>10. h \in Text /\ Gathered(h, f.args, f.nest)
  BY <1>5, <1>7
<1>. HIDE DEF h
<1>11. Fits(Append(Return, f), Rest, Moved, w, h)
  BY <1>1, <1>2, <1>3, <1>6, <1>8, <1>9, <1>10, GatherFits
<1>. QED  BY <1>1, <1>10, <1>11

\* what is known of a call whose arguments are gathered
LEMMA Gathers ==
    ASSUME NEW w, NEW g, Meant(w, g), InArgs
    PROVE  /\ Ready /\ expansions # <<>> /\ call.at = "args" /\ call \in Gathering(macroDefs)
           /\ token \in SourceToken /\ token \in PlainToken /\ token \in TextToken /\ token.atom # "\n"
           /\ Coming = <<token>> ++ Left /\ Coming \in Text /\ Left \in Text
           /\ Gathered(g, call.args, call.nest) /\ g # <<>> /\ g \in Text /\ g ++ <<token>> \in Text
           /\ call.args \in Seq(Text) /\ call.args \in Arguments /\ call.args # <<>>
           /\ \A a \in 1 .. Len(call.args) : TokensUnder(Rest, Len(Rest), call.args[a])
           /\ Under(Rest, Len(Rest), token.hide) /\ Under(Rest, Len(Rest), call.name.hide)
           /\ macroDefs[call.name.atom].functionLike
           /\ OpenText(expansions, g) = <<call.name>> ++ g /\ call.name \in TextToken /\ call.name \in Name(macroDefs)
           /\ call.name.atom \notin call.name.hide
           /\ Depth(expansions) = Len(expansions) - 1
<1>1. /\ Ready /\ expansions # <<>> /\ call.at = "args" /\ ~EndsArgument(token) /\ token.atom # "\n"
  BY DEF InArgs, At
<1>2. /\ TypeInv /\ g \in Text
  BY MeantTypes
<1>3. call \in Gathering(macroDefs) /\ call = expansions[Len(expansions)] /\ Len(expansions) \in 1 .. Len(expansions)
  BY <1>1, <1>2, Calls, CallKinds DEF At
<1>4. /\ call.args \in Arguments /\ call.args # <<>> /\ call.name \in PlainToken /\ call.name.atom \in DOMAIN macroDefs
      /\ call.name \in Name(macroDefs)
  BY <1>3 DEF Gathering, Name
<1>5. call.args \in Seq(Text)
  <2>1. Seq(PlainToken) \subseteq Text
    BY TokenTexts
  <2>. DEFINE S == Seq(PlainToken)
  <2>2. call.args \in Seq(S) /\ S \subseteq Text
    BY <1>4, <2>1 DEF Arguments
  <2>. HIDE DEF S
  <2>. QED  BY <2>2, SeqMonotonic
<1>6. Looks(expansions)
  BY <1>1, <1>3 DEF Looks
<1>7. OpenFits(macroDefs, expansions, Rest, g)
  BY <1>1, TakenOpenFits
<1>8. /\ Gathered(g, call.args, call.nest) /\ Under(Rest, Len(Rest), call.name.hide) /\ macroDefs[call.name.atom].functionLike
      /\ \A a \in 1 .. Len(call.args) : TokensUnder(Rest, Len(Rest), call.args[a])
  BY <1>1, <1>3, <1>6, <1>7 DEF OpenFits
<1>9. token \in SourceToken /\ token \in PlainToken /\ token \in TextToken
  <2>1. token # Marker /\ token # EndOfInput
    BY <1>1 DEF EndsArgument
  <2>2. token \in SourceToken
    BY <1>1, <2>1, Reads
  <2>. QED  BY <1>1, <2>2, Reads, TokenKinds
<1>10. Coming = <<token>> ++ Left /\ Coming \in Text /\ Left \in Text
  BY <1>1, <1>9, Reads
<1>11. g # <<>>
  BY <1>8 DEF Gathered
<1>12. g ++ <<token>> \in Text
  BY <1>2, <1>9, First, TokenTexts, Joins
<1>13. Under(Rest, Len(Rest), token.hide)
  BY <1>1, <1>9, TakenOpenFits
<1>14. OpenText(expansions, g) = <<call.name>> ++ g
  BY <1>1, <1>3, <1>6 DEF OpenText
<1>15. call.name.atom \notin call.name.hide
  BY <1>1, <1>3 DEF Meant, Sound
<1>16. call.name \in TextToken
  BY <1>4, TokenTexts
<1>17. Depth(expansions) = Len(expansions) - 1
  BY <1>1, <1>3 DEF Depth
<1>. QED  BY <1>1, <1>2, <1>3, <1>4, <1>5, <1>8, <1>9, <1>10, <1>11, <1>12, <1>13, <1>14, <1>15, <1>16, <1>17

LEMMA NextArgumentFits ==
    ASSUME NEW w, NEW g, Meant(w, g), NextArgument
    PROVE  \E h \in Text : Fits(expansions', inputStack', currentPos', w, h)
<1>. DEFINE f == [call EXCEPT !.args = Append(@, <<>>)]
            h == g ++ <<token>>
<1>1. /\ InArgs /\ call.nest = 0 /\ Parts(token) /\ inputStack' = Rest /\ currentPos' = Moved
      /\ expansions' = Append(Return, f)
  BY Zenon DEF NextArgument, Parts, Continue, Taken
<1>2. /\ Ready /\ expansions # <<>> /\ call.at = "args" /\ call \in Gathering(macroDefs)
      /\ token \in SourceToken /\ token \in TextToken /\ token.atom # "\n"
      /\ Gathered(g, call.args, 0) /\ g # <<>> /\ g \in Text /\ h \in Text
      /\ call.args \in Seq(Text)
      /\ \A a \in 1 .. Len(call.args) : TokensUnder(Rest, Len(Rest), call.args[a])
  BY <1>1, Gathers
<1>3. f.at = "args" /\ f.name = call.name /\ f.nest = 0 /\ f.args = Append(call.args, <<>>)
  BY <1>1, <1>2 DEF Gathering
<1>4. Gathered(h, Append(call.args, <<>>), 0)
  BY <1>1, <1>2, GatheredNext
<1>5. Gathered(h, f.args, f.nest)
  BY <1>3, <1>4
<1>. HIDE DEF h, f
<1>6. \A a \in 1 .. Len(f.args) : TokensUnder(Rest, Len(Rest), f.args[a])
  <2>1. Len(f.args) = Len(call.args) + 1 /\ f.args[Len(call.args) + 1] = <<>> /\ \A a \in 1 .. Len(call.args) : f.args[a] = call.args[a]
    BY <1>2, <1>3
  <2>2. \A a \in 1 .. Len(f.args) : a \in 1 .. Len(call.args) \/ a = Len(call.args) + 1
    BY <1>2, <2>1
  <2>3. TokensUnder(Rest, Len(Rest), <<>>)
    BY DEF TokensUnder
  <2>. QED  BY <1>2, <2>1, <2>2, <2>3
<1>7. h = (IF call.at = "args" THEN g ++ <<token>> ELSE <<token>>) /\ call.at \in {"paren", "args"}
  BY <1>2 DEF h
<1>8. Fits(Append(Return, f), Rest, Moved, w, h)
  BY <1>2, <1>3, <1>5, <1>6, <1>7, GatherFits
<1>. QED  BY <1>1, <1>2, <1>8 DEF f, h

LEMMA RecordFits ==
    ASSUME NEW w, NEW g, Meant(w, g), Record
    PROVE  \E h \in Text : Fits(expansions', inputStack', currentPos', w, h)
<1>. DEFINE f == [call EXCEPT !.args = Append(Front(@), Append(Last(@), token)), !.nest = Nest, !.recorded = TRUE]
            h == g ++ <<token>>
<1>1. /\ InArgs /\ ~(call.nest = 0 /\ (Parts(token) \/ Closes(token))) /\ inputStack' = Rest /\ currentPos' = Moved
      /\ expansions' = Append(Return, f)
  <2>1. /\ InArgs /\ ~(call.nest = 0 /\ token.atom \in {",", ")"}) /\ inputStack' = Rest /\ currentPos' = Moved
        /\ expansions' = Append(Return, f)
    BY Zenon DEF Record, Continue, Taken
  <2>2. (Parts(token) \/ Closes(token)) => token.atom \in {",", ")"}
    BY Zenon DEF Parts, Closes
  <2>. QED  BY <2>1, <2>2, Zenon
<1>2. /\ Ready /\ expansions # <<>> /\ call.at = "args" /\ call \in Gathering(macroDefs)
      /\ token \in SourceToken /\ token \in TextToken /\ token.atom # "\n"
      /\ Gathered(g, call.args, call.nest) /\ g # <<>> /\ g \in Text /\ h \in Text
      /\ call.args \in Seq(Text) /\ call.args # <<>>
      /\ Under(Rest, Len(Rest), token.hide)
      /\ \A a \in 1 .. Len(call.args) : TokensUnder(Rest, Len(Rest), call.args[a])
  BY <1>1, Gathers
<1>3. f.at = "args" /\ f.name = call.name /\ f.nest = Nest /\ f.args = Append(Front(call.args), Append(call.args[Len(call.args)], token))
  BY <1>2 DEF Gathering, Last
<1>4. Nest = IF Opens(token) THEN call.nest + 1 ELSE IF Closes(token) THEN call.nest - 1 ELSE call.nest
  BY Zenon DEF Nest, Opens, Closes
<1>5. Gathered(h, f.args, f.nest)
  BY <1>1, <1>2, <1>3, <1>4, GatheredMore
<1>. HIDE DEF h, f
<1>6. \A a \in 1 .. Len(f.args) : TokensUnder(Rest, Len(Rest), f.args[a])
  <2>. DEFINE m == Len(call.args)
              x == Append(call.args[m], token)
              S == Text \cup {x}
  <2>1. call.args \in Seq(S) /\ x \in S /\ f.args = Append(Front(call.args), x)
    BY <1>2, <1>3, SeqMonotonic
  <2>2. TokensUnder(Rest, Len(Rest), x)
    <3>1. m \in 1 .. m
      BY <1>2, EmptySeq
    <3>2. call.args[m] \in Text /\ TokensUnder(Rest, Len(Rest), call.args[m])
      BY <1>2, <3>1, ElementOfSeq
    <3>3. Len(x) = Len(call.args[m]) + 1 /\ x[Len(x)] = token /\ \A q \in 1 .. Len(call.args[m]) : x[q] = call.args[m][q]
      BY <1>2, <3>2 DEF Text, TextToken
    <3>4. \A q \in 1 .. Len(x) : q \in 1 .. Len(call.args[m]) \/ q = Len(x)
      BY <3>2, <3>3 DEF Text
    <3>. HIDE DEF x, m
    <3>. QED  BY <1>2, <3>2, <3>3, <3>4 DEF TokensUnder
  <2>. HIDE DEF S, x
  <2>3. Len(f.args) = m /\ f.args[m] = x /\ \A i \in 1 .. m : i < m => f.args[i] = call.args[i]
    BY <1>2, <2>1, Replaced
  <2>4. \A a \in 1 .. m : a < m \/ a = m
    BY <1>2
  <2>. QED  BY <1>2, <2>2, <2>3, <2>4
<1>7. h = (IF call.at = "args" THEN g ++ <<token>> ELSE <<token>>) /\ call.at \in {"paren", "args"}
  BY <1>2 DEF h
<1>8. Fits(Append(Return, f), Rest, Moved, w, h)
  BY <1>2, <1>3, <1>5, <1>6, <1>7, GatherFits
<1>. QED  BY <1>1, <1>2, <1>8 DEF f, h

-----------------------------------------------------------------------------
\* The steps that expand a macro without parameters

LEMMA UnderMore ==
    ASSUME NEW s, NEW j, NEW hide, NEW more, Under(s, j, hide), hide \subseteq more
    PROVE  Under(s, j, more)
BY DEF Under

LEMMA NoParameters ==
    ASSUME NEW def, def.args = <<>>, NEW a, NEW b, NEW hide
    PROVE  Substituted(def, a, hide) = Substituted(def, b, hide)
<1>1. \A atom : {k \in DOMAIN def.args : def.args[k] = atom} = {}
  OBVIOUS
<1>2. \A atom : Piece(def, a, atom) = Piece(def, b, atom)
  BY <1>1 DEF Piece
<1>. QED  BY <1>2 DEF Substituted, Pieces

(* The macro of a call is pushed above what is left of the inputs.          *)
LEMMA PushFits ==
    ASSUME NEW w, NEW g, Meant(w, g), Ready, token \in SourceToken,
           NEW m \in DOMAIN macroDefs, m \notin busy, macroDefs[m].args = <<>>,
           NEW hide \in SUBSET STRING, m \in hide, Under(Rest, Len(Rest), hide),
           NEW fs, Depth(fs) = Depth(expansions), Alike(expansions, fs, w, w, Depth(expansions)), ~Looks(fs),
           Done(fs, w, Depth(fs)) ++ Expansion(macroDefs)[Substituted(macroDefs[m], <<>>, hide) ++ Left]
               = Done(expansions, w, Depth(expansions)) ++ Expansion(macroDefs)[OpenText(expansions, g) ++ Coming]
    PROVE  Fits(fs, Append(Rest, tMacroInput(m, <<>>, hide)), Begun(Moved, m), w, g)
<1>. DEFINE x == tMacroInput(m, <<>>, hide)
            s == Append(Rest, x)
            pos == Begun(Moved, m)
<1>1. /\ TypeInv /\ w \in Text /\ g \in Text /\ IsTable(macroDefs) /\ Depth(expansions) \in Nat
      /\ InputsFit(expansions, inputStack) /\ IInv
  BY MeantTypes, MeantFits
<1>2. /\ Scanned /\ Left = Ahead(macroDefs, Rest, Moved)[Len(Rest)] /\ Left \in Text
      /\ Rest \in Seq(Input(macroDefs)) /\ Moved \in Positions(macroDefs)
  BY Reads DEF Scanned, Positions
<1>3. x \in MacroInput(macroDefs) /\ x \in Input(macroDefs) /\ x.kind = "macro" /\ x.mac = m /\ x.hide = hide
  <2>1. m \in STRING
    BY <1>1 DEF IsTable
  <2>2. <<>> \in Arguments /\ Len(<<>>) = Len(macroDefs[m].args)
    BY DEF Arguments
  <2>3. x \in [kind : {"macro"}, mac : STRING, args : Arguments, hide : SUBSET STRING]
    BY <2>1, <2>2 DEF tMacroInput
  <2>4. x.kind = "macro" /\ x.mac = m /\ x.hide = hide /\ x.args = <<>>
    BY DEF tMacroInput
  <2>. HIDE DEF x
  <2>. QED  BY <2>2, <2>3, <2>4 DEF MacroInput, Input
<1>4. MacroAt(Rest, m) = {}
  <2>1. MacroAt(inputStack, m) = {}
    BY <1>1 DEF IInv, BusyInv, Sole
  <2>. QED  BY <1>1, <1>2, <2>1, TakenPlaces DEF IInv, LineInv
<1>5. Ahead(macroDefs, s, pos)[Len(Rest) + 1] = Substituted(macroDefs[m], <<>>, hide) ++ Left
      /\ Substituted(macroDefs[m], <<>>, hide) \in Text
  <2>. DEFINE none == <<>>
  <2>1. tMacroInput(m, none, hide) \in MacroInput(macroDefs)
    BY <1>3
  <2>. HIDE DEF none
  <2>2. IsTable(macroDefs) /\ Moved \in Positions(macroDefs) /\ Rest \in Seq(Input(macroDefs)) /\ MacroAt(Rest, m) = {}
    BY <1>1, <1>2, <1>4
  <2>3. Substituted(macroDefs[m], none, hide) \in Text
    BY <2>1, <2>2, TextPushed
  <2>4. Ahead(macroDefs, Append(Rest, tMacroInput(m, none, hide)), Begun(Moved, m))[Len(Rest) + 1]
          = Substituted(macroDefs[m], none, hide) ++ Ahead(macroDefs, Rest, Moved)[Len(Rest)]
    BY <2>1, <2>2, TextPushed
  <2>. QED  BY <1>2, <2>3, <2>4 DEF none
<1>6. InputsFit(expansions, Rest)
  BY <1>1, <1>2, InputsTaken
<1>. HIDE DEF x, pos
<1>7. Hides(s)
  <2>1. Hides(Rest)
    BY <1>6 DEF InputsFit
  <2>. QED  BY <1>2, <1>3, <2>1, HidesAdded
<1>8. ASSUME Depth(expansions) > 0 PROVE Marked(s, Len(expansions[Depth(expansions)].outer))
  <2>1. Depth(expansions) \in 1 .. Depth(expansions)
    BY <1>1, <1>8
  <2>2. expansions[Depth(expansions)] \in Scan(macroDefs)
    BY <1>1, <2>1, TextTypes
  <2>3. Len(expansions[Depth(expansions)].outer) \in Nat /\ Marked(Rest, Len(expansions[Depth(expansions)].outer))
    BY <1>6, <1>8, <2>2 DEF Scan, InputsFit
  <2>4. ~Live(x)
    BY <1>3 DEF Live
  <2>. QED  BY <1>2, <1>3, <2>3, <2>4, MarkedAdded
<1>9. Len(s) = Len(Rest) + 1
  BY <1>2, <1>3
<1>. HIDE DEF s
<1>10. OpenText(fs, g) = <<>> /\ OpenFits(macroDefs, fs, s, g)
  BY DEF OpenText, OpenFits
<1>11. OpenText(fs, g) ++ Ahead(macroDefs, s, pos)[Len(s)] = Substituted(macroDefs[m], <<>>, hide) ++ Left
  <2>1. Substituted(macroDefs[m], <<>>, hide) ++ Left \in Text
    BY <1>2, <1>5, Joins
  <2>. QED  BY <1>5, <1>9, <1>10, <2>1, Joins
<1>12. Done(fs, w, Depth(fs)) ++ Expansion(macroDefs)[OpenText(fs, g) ++ Ahead(macroDefs, s, pos)[Len(s)]]
         = Done(expansions, w, Depth(expansions)) ++ Expansion(macroDefs)[OpenText(expansions, g) ++ Before[Len(inputStack)]]
  BY <1>11 DEF Coming
<1>13. Fits(fs, s, pos, w, g)
  BY <1>1, <1>7, <1>8, <1>10, <1>12, FitsWith
<1>. QED  BY <1>13 DEF s, x, pos

LEMMA ObjectFits ==
    ASSUME NEW w, NEW g, Meant(w, g), PrescanMacro \/ TokenizeMacro, ~macroDefs[token.atom].functionLike, ~recursed'
    PROVE  Fits(expansions', inputStack', currentPos', w, g) /\ output' = output
<1>. DEFINE m == token.atom
            hide == token.hide \cup {m}
<1>1. /\ Ready /\ Expandable(token) /\ MacroExpand /\ (expansions = <<>> \/ At("prescan"))
  BY DEF PrescanMacro, TokenizeMacro, Prescanning, Tokenizing
<1>2. /\ inputStack' = Append(Rest, tMacroInput(m, <<>>, hide)) /\ currentPos' = Begun(Moved, m)
      /\ expansions' = expansions /\ output' = output /\ m \notin token.hide
  BY <1>1 DEF MacroExpand, Push, Begun
<1>3. /\ TypeInv /\ w \in Text /\ g \in Text /\ IsTable(macroDefs)
  BY MeantTypes
<1>4. Depth(expansions) = Len(expansions) /\ ~Looks(expansions)
  BY <1>1, <1>3, AllScans
<1>5. /\ token \in SourceToken /\ token \in TextToken /\ m \in DOMAIN macroDefs /\ m \notin busy /\ m # "\n"
      /\ Coming = <<token>> ++ Left /\ Coming \in Text /\ Left \in Text
  BY <1>1, ExpandableToken
<1>6. macroDefs[m].args = <<>>
  BY <1>3, <1>5 DEF IsTable
<1>7. hide \in SUBSET STRING /\ m \in hide /\ Under(Rest, Len(Rest), hide)
  <2>1. Under(Rest, Len(Rest), token.hide)
    BY <1>1, <1>5, TakenOpenFits
  <2>2. token.hide \subseteq hide /\ hide \in SUBSET STRING
    BY <1>5 DEF TextToken
  <2>. QED  BY <2>1, <2>2, UnderMore
<1>8. Expansion(macroDefs)[<<token>> ++ Left] = Expansion(macroDefs)[Substituted(macroDefs[m], <<>>, hide) ++ Left]
  BY <1>2, <1>3, <1>5, ExpandsObject
<1>9. OpenText(expansions, g) = <<>> /\ <<>> ++ Coming = Coming
  BY <1>4, <1>5, Joins DEF OpenText
<1>. HIDE DEF hide
<1>10. Fits(expansions, Append(Rest, tMacroInput(m, <<>>, hide)), Begun(Moved, m), w, g)
  <2>1. Alike(expansions, expansions, w, w, Depth(expansions))
    BY AllSame
  <2>. HIDE DEF m
  <2>2. Done(expansions, w, Depth(expansions)) ++ Expansion(macroDefs)[Substituted(macroDefs[m], <<>>, hide) ++ Left]
          = Done(expansions, w, Depth(expansions)) ++ Expansion(macroDefs)[OpenText(expansions, g) ++ Coming]
    BY <1>5, <1>8, <1>9
  <2>. QED  BY <1>1, <1>4, <1>5, <1>6, <1>7, <2>1, <2>2, PushFits
<1>. QED  BY <1>2, <1>10 DEF hide

(* What a call stands for, when its ')' has been read.                      *)
LEMMA CallMeaning ==
    ASSUME NEW w, NEW g, Meant(w, g), InArgs, Closes(token), call.nest = 0, NEW given,
           \A k \in DOMAIN Params : k <= Len(call.args),
           given = [k \in DOMAIN Params |-> Expansion(macroDefs)[call.args[k]]]
    PROVE  Expansion(macroDefs)[OpenText(expansions, g) ++ Coming]
             = Expansion(macroDefs)[Substituted(macroDefs[call.name.atom], given,
                                                   (call.name.hide \cap token.hide) \cup {call.name.atom}) ++ Left]
<1>. DEFINE name == call.name
            def  == macroDefs[name.atom]
            u    == <<token>> ++ Left
            s    == g ++ u
<1>1. /\ Ready /\ token \in TextToken /\ Coming = u /\ Left \in Text /\ Coming \in Text
      /\ Gathered(g, call.args, 0) /\ g \in Text /\ call.args \in Seq(Text)
      /\ def.functionLike /\ OpenText(expansions, g) = <<name>> ++ g
      /\ name \in TextToken /\ name \in Name(macroDefs) /\ name.atom \notin name.hide
  BY Gathers
<1>2. IsTable(macroDefs)
  BY MeantTypes
<1>3. name.atom \in DOMAIN macroDefs /\ def.args \in Seq(STRING) /\ Len(call.args) \in Nat
  BY <1>1, <1>2 DEF Name, IsTable
<1>4. /\ s \in Text /\ Closing(s) # 0 /\ s[Closing(s)] = token /\ SubSeq(s, Closing(s) + 1, Len(s)) = Left
      /\ Cardinality(Cuts(s, Closing(s))) = Len(call.args) + 1
      /\ \A k \in 1 .. Len(call.args) : Argument(s, Cuts(s, Closing(s)), k) = call.args[k]
  BY <1>1, <1>3, GatheredCloses, SMTT(30)
<1>5. OpenText(expansions, g) ++ Coming = <<name>> ++ s
  <2>. DEFINE one == <<name>>
  <2>1. one \in Text /\ u \in Text
    BY <1>1, First
  <2>. HIDE DEF one, u
  <2>2. (one ++ g) ++ u = one ++ (g ++ u)
    BY <1>1, <2>1, JoinsRegroup
  <2>. QED  BY <1>1, <2>2 DEF one
<1>. HIDE DEF s, u
<1>6. Expansion(macroDefs)[<<name>> ++ s]
        = Expansion(macroDefs)[Substituted(def, GivenTexts(def, Expansion(macroDefs), s, Closing(s)),
                                           (name.hide \cap token.hide) \cup {name.atom}) ++ Left]
  <2>. HIDE DEF name
  <2>0. /\ IsTable(macroDefs) /\ name \in TextToken /\ s \in Text /\ name.atom \in DOMAIN macroDefs
        /\ name.atom \notin name.hide /\ macroDefs[name.atom].functionLike /\ Closing(s) # 0
    BY <1>1, <1>2, <1>3, <1>4
  <2>1. Expansion(macroDefs)[<<name>> ++ s]
          = Expansion(macroDefs)[Substituted(def, GivenTexts(def, Expansion(macroDefs), s, Closing(s)),
                                             (name.hide \cap s[Closing(s)].hide) \cup {name.atom})
                                   ++ SubSeq(s, Closing(s) + 1, Len(s))]
    BY <2>0, ExpandsCall, Zenon
  <2>. QED  BY <1>4, <2>1
<1>7. GivenTexts(def, Expansion(macroDefs), s, Closing(s)) = given
  <2>. DEFINE cuts == Cuts(s, Closing(s))
              E == Expansion(macroDefs)
              D == DOMAIN def.args
  <2>1. GivenTexts(def, E, s, Closing(s)) = [k \in D |-> IF k < Cardinality(cuts) THEN E[Argument(s, cuts, k)] ELSE <<>>]
    BY DEF GivenTexts
  <2>2. \A k \in D : k < Cardinality(cuts) /\ Argument(s, cuts, k) = call.args[k]
    <3>1. \A k \in D : k \in 1 .. Len(call.args)
      BY <1>3 DEF Params
    <3>2. \A k \in 1 .. Len(call.args) : k < Len(call.args) + 1
      BY <1>3
    <3>. QED  BY <1>4, <3>1, <3>2
  <2>3. given = [k \in D |-> E[call.args[k]]]
    BY DEF Params
  <2>. HIDE DEF cuts, E, D
  <2>4. GivenTexts(def, E, s, Closing(s)) = given
    BY <2>1, <2>2, <2>3
  <2>. QED  BY <2>4 DEF E
<1>. QED  BY <1>5, <1>6, <1>7

LEMMA PlainCallFits ==
    ASSUME NEW w, NEW g, Meant(w, g), CloseCall, Params = <<>>
    PROVE  Fits(expansions', inputStack', currentPos', w, g) /\ output' = output
<1>. DEFINE name   == call.name
            m      == name.atom
            inside == name.hide \cap token.hide
            hide   == inside \cup {m}
<1>1. InArgs /\ Closes(token) /\ call.nest = 0 /\ Push(Rest, Return, name, <<>>, inside)
  <2>1. InArgs /\ Closes(token) /\ call.nest = 0 /\ Called(Given, token.hide)
    BY Zenon DEF CloseCall, Closes
  <2>2. Push(Rest, Return, name, <<>>, inside)
    BY <2>1 DEF Called
  <2>. QED  BY <2>1, <2>2
<1>2. /\ inputStack' = Append(Rest, tMacroInput(m, <<>>, hide)) /\ currentPos' = Begun(Moved, m)
      /\ expansions' = Return /\ output' = output
  BY <1>1 DEF Push, Begun
<1>3. /\ Ready /\ expansions # <<>> /\ call.at = "args" /\ token \in SourceToken /\ token \in TextToken
      /\ name \in TextToken /\ name \in Name(macroDefs) /\ Under(Rest, Len(Rest), token.hide) /\ Under(Rest, Len(Rest), name.hide)
  BY <1>1, Gathers
<1>4. /\ TypeInv /\ w \in Text /\ g \in Text /\ IsTable(macroDefs)
  BY MeantTypes
<1>5. m \in DOMAIN macroDefs /\ m \notin busy /\ macroDefs[m].args = <<>>
  <2>1. m \in DOMAIN macroDefs
    BY <1>3 DEF Name
  <2>2. OpenInv
    BY MeantFits DEF IInv
  <2>3. m \notin busy
    BY <1>3, <2>2 DEF OpenInv
  <2>. QED  BY <2>1, <2>3 DEF Params
<1>6. hide \in SUBSET STRING /\ m \in hide /\ Under(Rest, Len(Rest), hide)
  <2>1. hide \in SUBSET STRING
    BY <1>3 DEF TextToken
  <2>2. Under(Rest, Len(Rest), inside)
    BY <1>3 DEF Under
  <2>. QED  BY <2>1, <2>2, UnderMore
<1>7. /\ Depth(Return) = Depth(expansions) /\ ~Looks(Return)
      /\ Alike(expansions, Return, w, w, Depth(expansions)) /\ Done(Return, w, Depth(Return)) = Done(expansions, w, Depth(expansions))
  <2>1. call.at # "prescan" /\ call.at \notin {"prescan", "undef"}
    BY <1>3
  <2>. QED  BY <1>3, <1>4, <2>1, CallContinued
<1>8. Expansion(macroDefs)[OpenText(expansions, g) ++ Coming]
        = Expansion(macroDefs)[Substituted(macroDefs[m], <<>>, hide) ++ Left]
  <2>. DEFINE given == [k \in DOMAIN Params |-> Expansion(macroDefs)[call.args[k]]]
  <2>1. \A k \in DOMAIN Params : k <= Len(call.args)
    OBVIOUS
  <2>. HIDE DEF given
  <2>2. Expansion(macroDefs)[OpenText(expansions, g) ++ Coming]
          = Expansion(macroDefs)[Substituted(macroDefs[m], given, hide) ++ Left]
    BY <1>1, <2>1, CallMeaning DEF given
  <2>3. Substituted(macroDefs[m], given, hide) = Substituted(macroDefs[m], <<>>, hide)
    BY <1>5, NoParameters
  <2>. QED  BY <2>2, <2>3
<1>. HIDE DEF hide, m
<1>9. Fits(Return, Append(Rest, tMacroInput(m, <<>>, hide)), Begun(Moved, m), w, g)
  <2>1. Done(Return, w, Depth(Return)) ++ Expansion(macroDefs)[Substituted(macroDefs[m], <<>>, hide) ++ Left]
          = Done(expansions, w, Depth(expansions)) ++ Expansion(macroDefs)[OpenText(expansions, g) ++ Coming]
    BY <1>7, <1>8
  <2>. QED  BY <1>3, <1>5, <1>6, <1>7, <2>1, PushFits
<1>. QED  BY <1>2, <1>9

-----------------------------------------------------------------------------
\* The steps that begin an argument

\* a marker and the argument, above the inputs s
Scanning(s, arg) == s \o <<tMarkerInput, Tokens(arg)>>

LEMMA ScanningText ==
    ASSUME NEW table, IsTable(table), NEW s \in Seq(Input(table)), NEW arg \in Seq(PlainToken), NEW pos \in Positions(table)
    PROVE  LET r == Scanning(s, arg) IN
           /\ Marked(r, Len(s)) /\ Len(s) \in Nat /\ (Hides(s) /\ TokensUnder(s, Len(s), arg) => Hides(r))
           /\ Ahead(table, r, pos)[Len(r)] = arg
BY ScanInputs, TextScan DEF Scanning

(* An argument is scanned, and what it expands to is the call's to be.      *)
LEMMA ScanAddedFits ==
    ASSUME NEW w, NEW g, Meant(w, g), NEW es, Nested(es, macroDefs),
           \A k \in 1 .. Len(es) : ScanFits(macroDefs, SourceText, es, w, k),
           NEW f \in Scan(macroDefs), f.expanded = <<>>, ~f.tossing,
           Hides(f.outer), Under(f.outer, Len(f.outer), f.hide),
           \A a \in f.arg .. Len(f.args) : TokensUnder(f.outer, Len(f.outer), f.args[a]),
           Len(es) > 0 => Marked(f.outer, Len(es[Len(es)].outer)),
           Done(es, w, Len(es)) ++ Expansion(macroDefs)[ScanText(macroDefs, f)] = Aim(macroDefs, SourceText, es, Len(es))
    PROVE  Fits(Append(es, f), Scanning(f.outer, f.args[f.arg]), f.outerPos, w, <<>>)
<1>. DEFINE fs  == Append(es, f)
            d   == Len(es)
            arg == f.args[f.arg]
            r   == Scanning(f.outer, arg)
<1>1. /\ d \in Nat /\ Len(fs) = d + 1 /\ fs[d + 1] = f /\ fs # <<>> /\ \A k \in 1 .. d : fs[k] = es[k]
  <2>1. es \in Seq(Frame(macroDefs)) /\ f \in Frame(macroDefs)
    BY DEF Nested, Frame
  <2>. QED  BY <2>1, Appended
<1>2. /\ f.at = "prescan" /\ f.outer \in Seq(Input(macroDefs)) /\ f.outerPos \in Positions(macroDefs)
      /\ f.arg \in Nat /\ f.arg \in f.arg .. Len(f.args) /\ arg \in Seq(PlainToken) /\ f.arg \in 1 .. Len(f.args)
  BY DEF Scan, Positions, Arguments
<1>3. /\ w \in Text /\ g \in Text /\ IsTable(macroDefs)
  BY MeantTypes
<1>. HIDE DEF fs
<1>4. Depth(fs) = d + 1 /\ ~Looks(fs)
  BY <1>1, <1>2 DEF Depth, Looks
<1>5. Alike(es, fs, w, w, d) /\ Done(fs, w, d) = Done(es, w, d)
  BY <1>1, SameBelow
<1>6. /\ \A k \in 1 .. d : ScanFits(macroDefs, SourceText, fs, w, k)
      /\ Aim(macroDefs, SourceText, fs, d) = Aim(macroDefs, SourceText, es, d)
  <2>1. \A k \in 1 .. d : ScanFits(macroDefs, SourceText, es, w, k)
    OBVIOUS
  <2>2. d \in 0 .. d
    BY <1>1
  <2>. HIDE DEF d
  <2>. QED  BY <1>1, <1>5, <2>1, <2>2, ScansSame
<1>7. ScanFits(macroDefs, SourceText, fs, w, d + 1)
  <2>1. d + 1 > 1 => Marked(f.outer, Len(fs[(d + 1) - 1].outer))
    <3>1. ASSUME d > 0 PROVE fs[d] = es[d] /\ Marked(f.outer, Len(es[d].outer))
      BY <1>1, <3>1
    <3>2. (d + 1) - 1 = d /\ (d + 1 > 1 <=> d > 0)
      BY <1>1
    <3>. QED  BY <3>1, <3>2
  <2>2. (d + 1) - 1 = d
    BY <1>1
  <2>3. Done(fs, w, (d + 1) - 1) ++ Expansion(macroDefs)[ScanText(macroDefs, f)] = Aim(macroDefs, SourceText, fs, (d + 1) - 1)
    BY <1>5, <1>6, <2>2
  <2>. HIDE DEF d
  <2>. QED  BY <1>1, <2>1, <2>3 DEF ScanFits
<1>8. \A k \in 1 .. Depth(fs) : ScanFits(macroDefs, SourceText, fs, w, k)
  <2>1. \A k \in 1 .. d + 1 : k \in 1 .. d \/ k = d + 1
    BY <1>1
  <2>. QED  BY <1>4, <1>6, <1>7, <2>1
<1>9. Marked(r, Len(f.outer)) /\ Hides(r) /\ Ahead(macroDefs, r, f.outerPos)[Len(r)] = arg
  <2>1. TokensUnder(f.outer, Len(f.outer), arg)
    BY <1>2
  <2>. HIDE DEF arg
  <2>. QED  BY <1>2, <1>3, <2>1, ScanningText
<1>. HIDE DEF r
<1>10. InputsFit(fs, r)
  BY <1>1, <1>4, <1>9 DEF InputsFit
<1>11. OpenFits(macroDefs, fs, r, <<>>) /\ OpenText(fs, <<>>) = <<>>
  BY <1>4 DEF OpenFits, OpenText
<1>12. TextFits(fs, r, f.outerPos, w, <<>>)
  <2>1. arg \in Text /\ <<>> \in Text /\ Expansion(macroDefs)[arg] \in Text
    BY <1>2, <1>3, TokenTexts, ExpandsText
  <2>2. <<>> ++ arg = arg /\ <<>> ++ Expansion(macroDefs)[arg] = Expansion(macroDefs)[arg]
    BY <2>1, Joins
  <2>3. Done(fs, w, Depth(fs)) = <<>>
    BY <1>1, <1>4 DEF Done
  <2>4. Aim(macroDefs, SourceText, fs, Depth(fs)) = Expansion(macroDefs)[arg]
    BY <1>1, <1>4 DEF Aim
  <2>. QED  BY <1>9, <1>11, <2>2, <2>3, <2>4 DEF TextFits
<1>13. <<>> \in Text
  BY TokenTexts
<1>14. Fits(fs, r, f.outerPos, w, <<>>)
  BY <1>3, <1>8, <1>10, <1>11, <1>12, <1>13 DEF Fits
<1>. QED  BY <1>14 DEF fs, r

(* The first argument of a call.                                            *)
LEMMA FirstScanFits ==
    ASSUME NEW w, NEW g, Meant(w, g), CloseCall, Params # <<>>, ~errors'
    PROVE  Fits(expansions', inputStack', currentPos', w, <<>>) /\ output' = output
<1>. DEFINE name   == call.name
            inside == name.hide \cap token.hide
            args   == [i \in DOMAIN Params |-> IF i <= Len(call.args) THEN call.args[i] ELSE <<>>]
            given  == [k \in DOMAIN Params |-> Expansion(macroDefs)[call.args[k]]]
            f      == [at |-> "prescan", name |-> name, args |-> args, hide |-> inside, arg |-> 1,
                       expanded |-> <<>>, tossing |-> FALSE, outer |-> Rest, outerPos |-> Moved]
            m      == name.atom
<1>1. InArgs /\ Closes(token) /\ call.nest = 0 /\ Prescan(Rest, 1, args, name, inside) /\ ~(Given < Len(Params))
  <2>1. InArgs /\ Closes(token) /\ call.nest = 0 /\ Called(Given, token.hide) /\ errors' = (errors \/ Given < Len(Params))
    BY Zenon DEF CloseCall, Closes
  <2>2. Prescan(Rest, 1, args, name, inside)
    BY <2>1, Zenon DEF Called
  <2>. QED  BY <2>1, <2>2
<1>2. inputStack' = Scanning(Rest, args[1]) /\ currentPos' = Moved /\ expansions' = Append(Return, f) /\ output' = output
  BY <1>1 DEF Prescan, Scanning, Continue
<1>3. /\ Ready /\ expansions # <<>> /\ call.at = "args" /\ token \in SourceToken /\ token \in TextToken
      /\ name \in TextToken /\ name \in Name(macroDefs)
      /\ Under(Rest, Len(Rest), name.hide) /\ Under(Rest, Len(Rest), token.hide)
      /\ \A a \in 1 .. Len(call.args) : TokensUnder(Rest, Len(Rest), call.args[a])
      /\ call.args \in Arguments /\ Depth(expansions) = Len(expansions) - 1
  BY <1>1, Gathers
<1>4. /\ TypeInv /\ w \in Text /\ g \in Text /\ IsTable(macroDefs) /\ Depth(expansions) \in Nat
      /\ InputsFit(expansions, inputStack) /\ Scanned
      /\ Left = Ahead(macroDefs, Rest, Moved)[Len(Rest)]
      /\ Rest \in Seq(Input(macroDefs)) /\ Moved \in Positions(macroDefs)
  BY <1>3, MeantTypes, MeantFits, Reads DEF Scanned, Positions
<1>5. /\ Params \in Seq(STRING) /\ Len(Params) \in Nat \ {0} /\ DOMAIN Params = 1 .. Len(Params)
      /\ Params = macroDefs[m].args
  <2>1. Params \in Seq(STRING) /\ Params = macroDefs[m].args
    BY <1>3, <1>4 DEF Params, Name, IsTable
  <2>. QED  BY <2>1
<1>6. Len(call.args) \in Nat /\ Len(Params) <= Len(call.args)
  <2>1. Given = 0 \/ Given = Len(call.args)
    BY DEF Given
  <2>2. Len(call.args) \in Nat
    BY <1>3 DEF Arguments
  <2>. QED  BY <1>1, <1>5, <2>1, <2>2
<1>7. \A k \in DOMAIN Params : k <= Len(call.args) /\ k \in 1 .. Len(call.args) /\ args[k] = call.args[k]
  BY <1>5, <1>6
<1>8. args \in Arguments /\ Len(args) = Len(Params) /\ DOMAIN args = DOMAIN Params
  <2>1. \A i \in 1 .. Len(Params) : args[i] \in Seq(PlainToken)
    BY <1>3, <1>5, <1>7 DEF Arguments
  <2>2. args = [i \in 1 .. Len(Params) |-> args[i]] /\ DOMAIN args = DOMAIN Params
    BY <1>5
  <2>. HIDE DEF args
  <2>3. args \in Seq(Seq(PlainToken)) /\ Len(args) = Len(Params)
    <3>. DEFINE P == Seq(PlainToken)
                l == Len(Params)
    <3>1. l \in Nat /\ args = [i \in 1 .. l |-> args[i]] /\ \A i \in 1 .. l : args[i] \in P
      BY <1>5, <2>1, <2>2
    <3>. HIDE DEF P, l
    <3>2. args \in [1 .. l -> P]
      BY <3>1
    <3>3. args \in Seq(P) /\ Len(args) = l
      BY <3>1, <3>2
    <3>. QED  BY <3>3, Zenon DEF P, l
  <2>. QED  BY <2>2, <2>3 DEF Arguments
<1>9. Expansion(macroDefs)[OpenText(expansions, g) ++ Coming]
        = Expansion(macroDefs)[Substituted(macroDefs[m], given, inside \cup {m}) ++ Left]
  <2>1. \A k \in DOMAIN Params : k <= Len(call.args)
    BY <1>7
  <2>. HIDE DEF given
  <2>. QED  BY <1>1, <2>1, CallMeaning DEF given
<1>10. /\ f.at = "prescan" /\ f.name = name /\ f.args = args /\ f.hide = inside /\ f.arg = 1 /\ f.expanded = <<>>
       /\ f.tossing = FALSE /\ f.outer = Rest /\ f.outerPos = Moved
  OBVIOUS
<1>11. GivenBy(macroDefs, f) = given
  <2>. HIDE DEF f, args
  <2>1. \A k \in DOMAIN args : ~(k < 1) /\ args[k] = call.args[k]
    BY <1>5, <1>7, <1>8
  <2>. QED  BY <1>8, <1>10, <2>1 DEF GivenBy
<1>12. f \in Scan(macroDefs)
  <2>1. inside \in SUBSET STRING
    BY <1>3 DEF TextToken
  <2>2. <<>> \in Seq(SourceToken)
    OBVIOUS
  <2>3. f \in [at : {"prescan"}, name : Name(macroDefs), args : Arguments, hide : SUBSET STRING,
            arg : Nat \ {0}, expanded : Seq(SourceToken), tossing : BOOLEAN,
            outer : Seq(Input(macroDefs)), outerPos : [DOMAIN macroDefs -> Nat \ {0}]]
    <3>. HIDE DEF args, inside, name
    <3>. QED  BY <1>3, <1>4, <1>8, <2>1, <2>2 DEF Positions
  <2>. HIDE DEF f
  <2>4. Len(f.args) = Len(macroDefs[f.name.atom].args) /\ f.arg <= Len(f.args)
    BY <1>5, <1>8, <1>10
  <2>. QED  BY <2>3, <2>4 DEF Scan
<1>. HIDE DEF f, given, args
<1>13. ScanText(macroDefs, f) = Substituted(macroDefs[m], given, inside \cup {m}) ++ Left
  BY <1>4, <1>10, <1>11 DEF ScanText, CallText
<1>14. InputsFit(expansions, Rest)
  BY <1>3, <1>4, InputsTaken
<1>15. Nested(Return, macroDefs) /\ Len(Return) = Depth(expansions) /\ Depth(Return) = Len(Return)
       /\ \A k \in 1 .. Len(Return) : Return[k] = expansions[k]
  <2>1. Len(expansions) \in Nat
    BY <1>3, <1>4, Calls
  <2>. QED  BY <1>3, <1>4, <2>1, Calls
<1>16. /\ Alike(expansions, Return, w, w, Depth(expansions))
       /\ Done(Return, w, Depth(expansions)) = Done(expansions, w, Depth(expansions))
  BY <1>4, <1>15, SameBelow
<1>17. /\ \A k \in 1 .. Len(Return) : ScanFits(macroDefs, SourceText, Return, w, k)
       /\ Aim(macroDefs, SourceText, Return, Len(Return)) = Aim(macroDefs, SourceText, expansions, Depth(expansions))
  <2>1. \A k \in 1 .. Depth(expansions) : ScanFits(macroDefs, SourceText, expansions, w, k)
    BY MeantFits
  <2>2. Depth(expansions) \in 0 .. Depth(expansions)
    BY <1>4
  <2>. QED  BY <1>4, <1>15, <1>16, <2>1, <2>2, ScansSame
<1>18. Hides(f.outer) /\ Under(f.outer, Len(f.outer), f.hide)
  BY <1>3, <1>10, <1>14 DEF InputsFit, Under
<1>19. \A a \in f.arg .. Len(f.args) : TokensUnder(f.outer, Len(f.outer), f.args[a])
  <2>1. \A a \in 1 .. Len(Params) : TokensUnder(Rest, Len(Rest), args[a])
    BY <1>3, <1>5, <1>7
  <2>. QED  BY <1>8, <1>10, <2>1
<1>20. Len(Return) > 0 => Marked(f.outer, Len(Return[Len(Return)].outer))
  BY <1>4, <1>10, <1>14, <1>15 DEF InputsFit
<1>21. Done(Return, w, Len(Return)) ++ Expansion(macroDefs)[ScanText(macroDefs, f)] = Aim(macroDefs, SourceText, Return, Len(Return))
  BY <1>9, <1>13, <1>15, <1>16, <1>17, MeantFits DEF Coming
<1>22. Fits(Append(Return, f), Scanning(f.outer, f.args[f.arg]), f.outerPos, w, <<>>)
  BY <1>10, <1>12, <1>15, <1>17, <1>18, <1>19, <1>20, <1>21, ScanAddedFits
<1>. QED  BY <1>2, <1>10, <1>22

-----------------------------------------------------------------------------
\* The steps that end an argument

\* the arguments with the one that has been scanned, expanded
NextArgs == [call.args EXCEPT ![call.arg] = call.expanded]

(* An argument's scan is the last call, and reads its marker.               *)
LEMMA ScanEndRead ==
    ASSUME NEW w, NEW g, Meant(w, g), EndPrescan
    PROVE  /\ Ready /\ At("prescan") /\ expansions # <<>> /\ token = Marker
           /\ Depth(expansions) = Len(expansions) /\ Depth(expansions) \in Nat \ {0} /\ call = expansions[Depth(expansions)]
           /\ call \in Scan(macroDefs) /\ ScanFits(macroDefs, SourceText, expansions, w, Depth(expansions))
           /\ IF call.arg < Len(NextArgs)
              THEN Prescan(Rest, call.arg + 1, NextArgs, call.name, call.hide)
              ELSE Push(Rest, Return, call.name, NextArgs, call.hide)
<1>1. /\ Ready /\ At("prescan") /\ expansions # <<>>
      /\ IF call.tossing THEN EndsToss(token) ELSE EndsArgument(token)
  BY DEF EndPrescan, Prescanning, At
<1>2. TypeInv /\ Nested(expansions, macroDefs) /\ Depth(expansions) \in Nat
  BY MeantTypes, TextTypes
<1>3. Len(expansions) \in Nat \ {0} /\ call = expansions[Len(expansions)] /\ call \in Scan(macroDefs)
  BY <1>1, <1>2, Calls, CallKinds
<1>4. Depth(expansions) = Len(expansions)
  BY <1>1, <1>3 DEF Depth, At
<1>5. ScanFits(macroDefs, SourceText, expansions, w, Depth(expansions))
  <2>1. Depth(expansions) \in 1 .. Depth(expansions)
    BY <1>3, <1>4
  <2>. QED  BY <2>1, MeantFits
<1>6. token = Marker
  <2>1. ~call.tossing
    BY <1>3, <1>4, <1>5 DEF ScanFits
  <2>2. token \notin SourceToken
    BY <1>1, <2>1, TokenSets DEF EndsArgument, SourceToken
  <2>3. token # EndOfInput
    BY <1>1, <1>3, <1>4, Reads
  <2>. QED  BY <1>1, <2>2, <2>3, Reads
<1>7. IF call.arg < Len(NextArgs)
      THEN Prescan(Rest, call.arg + 1, NextArgs, call.name, call.hide)
      ELSE Push(Rest, Return, call.name, NextArgs, call.hide)
  BY <1>6 DEF EndPrescan, NextArgs
<1>. QED  BY <1>1, <1>3, <1>4, <1>5, <1>6, <1>7

\* The inputs that the others are above of hold what they do alone.
StartsWith(r, cur, s, pos) ==
    Len(s) <= Len(r) /\ \A i \in 1 .. Len(s) : r[i] = s[i] /\ (s[i].kind = "macro" => cur[s[i].mac] = pos[s[i].mac])

LEMMA AheadBegins ==
    ASSUME NEW defs, IsTable(defs), NEW pos \in Positions(defs), NEW s \in Seq(Input(defs)),
           NEW cur \in Positions(defs), NEW r \in Seq(Input(defs)), StartsWith(r, cur, s, pos)
    PROVE  Ahead(defs, r, cur)[Len(s)] = Ahead(defs, s, pos)[Len(s)]
<1>. DEFINE m == Len(s)
<1>1. m \in Nat /\ m <= Len(s) /\ m <= Len(r) /\ m \in 0 .. m
  BY DEF StartsWith
<1>2. \A i \in 1 .. m : r[i] = s[i] /\ (s[i].kind = "macro" => cur[s[i].mac] = pos[s[i].mac])
  BY DEF StartsWith
<1>. HIDE DEF m
<1>3. \A i \in 0 .. m : Ahead(defs, r, cur)[i] = Ahead(defs, s, pos)[i]
  BY <1>1, <1>2, AheadSame
<1>. QED  BY <1>1, <1>3 DEF m

(* What the scan has collected is the argument's expansion, and what it has *)
(* left of the inputs holds what the ones it started on do.                 *)
LEMMA ScanEnded ==
    ASSUME NEW w, NEW g, Meant(w, g), EndPrescan
    PROVE  /\ call.expanded = Expansion(macroDefs)[call.args[call.arg]]
           /\ Left = Ahead(macroDefs, call.outer, call.outerPos)[Len(call.outer)]
           /\ \A h : Under(call.outer, Len(call.outer), h) => Under(Rest, Len(Rest), h)
           /\ \A lo \in Nat : Marked(call.outer, lo) => Marked(Rest, lo)
           /\ Hides(Rest) /\ Rest \in Seq(Input(macroDefs)) /\ Moved \in Positions(macroDefs)
           /\ Left = Ahead(macroDefs, Rest, Moved)[Len(Rest)] /\ Left \in Text
<1>. DEFINE d  == Depth(expansions)
            lo == Len(call.outer)
<1>1. /\ Ready /\ At("prescan") /\ expansions # <<>> /\ token = Marker /\ d = Len(expansions) /\ d \in Nat \ {0}
      /\ call = expansions[d] /\ call \in Scan(macroDefs)
  BY ScanEndRead
<1>2. /\ IInv /\ TypeInv /\ IsTable(macroDefs) /\ InputsFit(expansions, inputStack) /\ w \in Text
  BY MeantFits
<1>3. /\ Scanned /\ Coming = <<>> /\ Left \in Text /\ Left = Ahead(macroDefs, Rest, Moved)[Len(Rest)]
      /\ Rest \in Seq(Input(macroDefs)) /\ Moved \in Positions(macroDefs) /\ Len(Rest) = Len(inputStack)
  BY <1>1, Reads DEF Scanned, Positions
<1>4. call.expanded = Expansion(macroDefs)[call.args[call.arg]]
  <2>1. ~Looks(expansions)
    BY <1>1, <1>2, AllScans
  <2>2. Expansion(macroDefs)[<<>>] = <<>> /\ <<>> \in Text /\ <<>> ++ <<>> = <<>>
    BY <1>2, ExpandsText, Joins
  <2>3. Expansion(macroDefs)[OpenText(expansions, g) ++ Before[Len(inputStack)]] = <<>>
    BY <1>3, <2>1, <2>2 DEF OpenText, Coming
  <2>4. Done(expansions, w, d) = call.expanded /\ call.expanded \in Text
    <3>1. d \in 1 .. d
      BY <1>1
    <3>. HIDE DEF d
    <3>2. call.expanded \in Text
      BY <1>1, <1>2, <3>1, TextTypes DEF d
    <3>. QED  BY <1>1, <3>2 DEF Done
  <2>5. Aim(macroDefs, SourceText, expansions, d) = Expansion(macroDefs)[call.args[call.arg]]
    BY <1>1 DEF Aim
  <2>6. call.expanded ++ <<>> = call.expanded
    BY <2>2, <2>4, Joins
  <2>. QED  BY <2>3, <2>4, <2>5, <2>6, MeantFits
<1>5. /\ call.outer \in Seq(Input(macroDefs)) /\ lo \in Nat /\ call.outerPos \in Positions(macroDefs)
  BY <1>1 DEF Scan, Positions
<1>6. /\ inputStack # <<>> /\ lo < Len(inputStack) /\ Live(top) /\ Len(inputStack) \in Nat
      /\ \A i \in 1 .. Len(Rest) : lo < i => Spent(Rest[i])
  BY <1>1, <1>2, <1>3, <1>5, MarkedTaken DEF InputsFit
<1>7. Moved = currentPos
  BY <1>3, <1>6 DEF Scanned, Live
<1>8. Unchanged(call, inputStack, currentPos)
  <2>1. Untroubled
    BY <1>1 DEF Meant, Sound, Untroubled
  <2>2. d \in 1 .. d
    BY <1>1
  <2>3. Inside(expansions, inputStack, currentPos)
    BY <1>2, <2>1 DEF IInv, InsideInv
  <2>. QED  BY <1>1, <2>2, <2>3 DEF Inside
<1>9. \A i \in 1 .. lo : Rest[i] = call.outer[i] /\ (call.outer[i].kind = "macro" => Moved[call.outer[i].mac] = call.outerPos[call.outer[i].mac])
  BY <1>3, <1>5, <1>6, <1>7, <1>8 DEF Unchanged, Scanned
<1>10. lo <= Len(Rest) /\ Len(Rest) \in Nat
  BY <1>3, <1>5, <1>6
<1>11. \A i \in 1 .. Len(Rest) : i \in 1 .. lo \/ lo < i
  BY <1>5, <1>10
<1>12. Left = Ahead(macroDefs, call.outer, call.outerPos)[lo]
  <2>1. Ahead(macroDefs, Rest, Moved)[Len(Rest)] = Ahead(macroDefs, Rest, Moved)[lo]
    <3>. HIDE DEF lo
    <3>. QED  BY <1>2, <1>3, <1>5, <1>6, <1>10, AheadSpent
  <2>2. StartsWith(Rest, Moved, call.outer, call.outerPos)
    BY <1>9, <1>10 DEF StartsWith
  <2>3. Ahead(macroDefs, Rest, Moved)[lo] = Ahead(macroDefs, call.outer, call.outerPos)[lo]
    BY <1>2, <1>3, <1>5, <2>2, AheadBegins
  <2>. QED  BY <1>3, <2>1, <2>3
<1>13. \A h : Under(call.outer, lo, h) => Under(Rest, Len(Rest), h)
  BY <1>6, <1>9, <1>11 DEF Under, Spent
<1>14. \A low \in Nat : Marked(call.outer, low) => Marked(Rest, low)
  <2>1. ASSUME NEW low \in Nat, Marked(call.outer, low) PROVE Marked(Rest, low)
    <3>1. PICK p \in 1 .. lo : MarkedAt(call.outer, low, p)
      BY <2>1 DEF Marked
    <3>2. p \in 1 .. Len(Rest) /\ low < p /\ Live(Rest[p])
      BY <1>5, <1>9, <1>10, <3>1 DEF MarkedAt
    <3>3. ASSUME NEW i \in 1 .. Len(Rest) PROVE (low < i /\ i < p => Spent(Rest[i])) /\ (p < i => ~Live(Rest[i]))
      <4>1. CASE i \in 1 .. lo
        BY <1>9, <3>1, <4>1 DEF MarkedAt
      <4>2. CASE lo < i
        <5>1. ~(i < p)
          BY <1>5, <3>1, <4>2
        <5>2. ~Live(Rest[i])
          <6>1. <<Marker>> # <<>> /\ Spent(Rest[i])
            BY <1>6, <4>2
          <6>. QED  BY <6>1 DEF Spent, Live
        <5>. QED  BY <5>1, <5>2
      <4>. QED  BY <1>11, <4>1, <4>2
    <3>. QED  BY <3>2, <3>3 DEF Marked, MarkedAt
  <2>. QED  BY <2>1
<1>15. Hides(Rest)
  BY <1>1, <1>2, <1>3, InputsTaken
<1>. QED  BY <1>3, <1>4, <1>12, <1>13, <1>14, <1>15

(* The arguments up to the one scanned are expanded.                        *)
LEMMA NextArgsGiven ==
    ASSUME NEW w, NEW g, Meant(w, g), EndPrescan
    PROVE  /\ NextArgs \in Arguments /\ Len(NextArgs) = Len(call.args) /\ Len(call.args) \in Nat
           /\ call.arg \in Nat \ {0} /\ call.arg <= Len(call.args)
           /\ \A k \in 1 .. Len(call.args) : k # call.arg => NextArgs[k] = call.args[k]
           /\ NextArgs[call.arg] = Expansion(macroDefs)[call.args[call.arg]]
<1>1. call \in Scan(macroDefs) /\ token = Marker /\ At("prescan") /\ Ready
  BY ScanEndRead
<1>2. call.args \in Arguments /\ call.arg \in Nat \ {0} /\ call.arg <= Len(call.args)
  BY <1>1 DEF Scan
<1>3. call.expanded \in Seq(PlainToken)
  BY <1>1, MeantFits, Reads, CollectedPlain DEF IInv, Plain
<1>4. NextArgs \in Arguments /\ Len(NextArgs) = Len(call.args)
      /\ \A k \in 1 .. Len(call.args) : NextArgs[k] = IF k = call.arg THEN call.expanded ELSE call.args[k]
  BY <1>2, <1>3 DEF NextArgs, Arguments
<1>5. call.expanded = Expansion(macroDefs)[call.args[call.arg]]
  BY ScanEnded
<1>. QED  BY <1>2, <1>4, <1>5 DEF Arguments

(* The calls around the scan that ends.                                     *)
LEMMA AroundScan ==
    ASSUME NEW w, NEW g, Meant(w, g), EndPrescan
    PROVE  /\ Nested(Return, macroDefs) /\ Len(Return) = Depth(expansions) - 1 /\ Depth(Return) = Len(Return) /\ Len(Return) \in Nat
           /\ ~Looks(Return)
           /\ \A k \in 1 .. Len(Return) : ScanFits(macroDefs, SourceText, Return, w, k)
           /\ Len(Return) > 0 => Marked(Rest, Len(Return[Len(Return)].outer)) /\ Len(Return[Len(Return)].outer) \in Nat
           /\ Done(Return, w, Len(Return)) ++ Expansion(macroDefs)[CallText(macroDefs, call) ++ Left]
                = Aim(macroDefs, SourceText, Return, Len(Return))
           /\ Under(Rest, Len(Rest), call.hide)
           /\ \A a \in call.arg .. Len(call.args) : TokensUnder(Rest, Len(Rest), call.args[a])
<1>. DEFINE d == Depth(expansions)
            m == Len(Return)
<1>1. /\ Ready /\ At("prescan") /\ expansions # <<>> /\ d = Len(expansions) /\ d \in Nat \ {0} /\ call = expansions[d]
      /\ call \in Scan(macroDefs) /\ ScanFits(macroDefs, SourceText, expansions, w, d)
  BY ScanEndRead
<1>2. TypeInv /\ w \in Text
  BY MeantTypes
<1>3. /\ Nested(Return, macroDefs) /\ m = d - 1 /\ Depth(Return) = m /\ m \in Nat
      /\ \A k \in 1 .. m : Return[k] = expansions[k]
  BY <1>1, <1>2, Calls
<1>4. ~Looks(Return)
  <2>1. ASSUME Return # <<>> PROVE Return[m].at = "prescan"
    <3>1. m > 0 /\ Return[m] \in Scan(macroDefs)
      BY <1>1, <1>2, <1>3, <2>1, Calls DEF Nested
    <3>. QED  BY <3>1 DEF Scan
  <2>. QED  BY <2>1 DEF Looks
<1>5. Alike(expansions, Return, w, w, m) /\ Done(Return, w, m) = Done(expansions, w, m)
  BY <1>3, SameBelow
<1>6. /\ \A k \in 1 .. m : ScanFits(macroDefs, SourceText, Return, w, k)
      /\ Aim(macroDefs, SourceText, Return, m) = Aim(macroDefs, SourceText, expansions, m)
  <2>1. \A k \in 1 .. m : ScanFits(macroDefs, SourceText, expansions, w, k)
    BY <1>1, <1>3, MeantFits
  <2>2. m \in 0 .. m
    BY <1>3
  <2>. HIDE DEF m
  <2>. QED  BY <1>3, <1>5, <2>1, <2>2, ScansSame
<1>7. /\ Left = Ahead(macroDefs, call.outer, call.outerPos)[Len(call.outer)]
      /\ \A h : Under(call.outer, Len(call.outer), h) => Under(Rest, Len(Rest), h)
      /\ \A lo \in Nat : Marked(call.outer, lo) => Marked(Rest, lo)
  BY ScanEnded
<1>8. /\ Under(call.outer, Len(call.outer), call.hide)
      /\ \A a \in call.arg .. Len(call.args) : TokensUnder(call.outer, Len(call.outer), call.args[a])
      /\ d > 1 => Marked(call.outer, Len(expansions[d - 1].outer))
      /\ Done(expansions, w, d - 1) ++ Expansion(macroDefs)[ScanText(macroDefs, call)] = Aim(macroDefs, SourceText, expansions, d - 1)
  BY <1>1 DEF ScanFits
<1>9. m > 0 => Marked(Rest, Len(Return[m].outer)) /\ Len(Return[m].outer) \in Nat
  <2>1. ASSUME m > 0 PROVE Marked(Rest, Len(Return[m].outer)) /\ Len(Return[m].outer) \in Nat
    <3>1. m \in 1 .. m /\ d > 1 /\ d - 1 = m
      BY <1>1, <1>3, <2>1
    <3>2. Return[m] = expansions[m] /\ Return[m] \in Scan(macroDefs)
      BY <1>1, <1>2, <1>3, <3>1, Calls
    <3>3. Len(Return[m].outer) \in Nat
      BY <3>2 DEF Scan
    <3>. QED  BY <1>7, <1>8, <3>1, <3>2, <3>3
  <2>. QED  BY <2>1
<1>10. Done(Return, w, m) ++ Expansion(macroDefs)[CallText(macroDefs, call) ++ Left] = Aim(macroDefs, SourceText, Return, m)
  BY <1>3, <1>5, <1>6, <1>7, <1>8 DEF ScanText
<1>11. \A a \in call.arg .. Len(call.args) : TokensUnder(Rest, Len(Rest), call.args[a])
  BY <1>7, <1>8, UndersSame
<1>. QED  BY <1>3, <1>4, <1>6, <1>7, <1>8, <1>9, <1>10, <1>11

(* The next argument of the call is begun.                                  *)
LEMMA NextScanFits ==
    ASSUME NEW w, NEW g, Meant(w, g), EndPrescan, call.arg < Len(NextArgs)
    PROVE  Fits(expansions', inputStack', currentPos', w, <<>>) /\ output' = output
<1>. DEFINE n == call.arg + 1
            f == [at |-> "prescan", name |-> call.name, args |-> NextArgs, hide |-> call.hide, arg |-> n,
                  expanded |-> <<>>, tossing |-> FALSE, outer |-> Rest, outerPos |-> Moved]
<1>1. Prescan(Rest, n, NextArgs, call.name, call.hide) /\ call \in Scan(macroDefs)
  BY ScanEndRead
<1>2. inputStack' = Scanning(Rest, NextArgs[n]) /\ currentPos' = Moved /\ expansions' = Append(Return, f) /\ output' = output
  BY <1>1 DEF Prescan, Scanning, Continue
<1>3. /\ NextArgs \in Arguments /\ Len(NextArgs) = Len(call.args) /\ Len(call.args) \in Nat
      /\ call.arg \in Nat \ {0} /\ call.arg <= Len(call.args)
      /\ \A k \in 1 .. Len(call.args) : k # call.arg => NextArgs[k] = call.args[k]
      /\ NextArgs[call.arg] = Expansion(macroDefs)[call.args[call.arg]]
  BY NextArgsGiven
<1>4. /\ Hides(Rest) /\ Rest \in Seq(Input(macroDefs)) /\ Moved \in Positions(macroDefs)
      /\ Left = Ahead(macroDefs, Rest, Moved)[Len(Rest)]
  BY ScanEnded
<1>5. /\ f.at = "prescan" /\ f.name = call.name /\ f.args = NextArgs /\ f.hide = call.hide /\ f.arg = n /\ f.expanded = <<>>
      /\ f.tossing = FALSE /\ f.outer = Rest /\ f.outerPos = Moved
  OBVIOUS
<1>6. f \in Scan(macroDefs)
  <2>1. f \in [at : {"prescan"}, name : Name(macroDefs), args : Arguments, hide : SUBSET STRING,
            arg : Nat \ {0}, expanded : Seq(SourceToken), tossing : BOOLEAN,
            outer : Seq(Input(macroDefs)), outerPos : [DOMAIN macroDefs -> Nat \ {0}]]
    <3>1. call.name \in Name(macroDefs) /\ call.hide \in SUBSET STRING /\ n \in Nat \ {0}
      BY <1>1, <1>3 DEF Scan
    <3>. HIDE DEF n
    <3>. QED  BY <1>3, <1>4, <3>1 DEF Positions
  <2>. HIDE DEF f
  <2>2. Len(call.args) = Len(macroDefs[call.name.atom].args)
    BY <1>1 DEF Scan
  <2>3. Len(f.args) = Len(macroDefs[f.name.atom].args) /\ f.arg <= Len(f.args)
    BY <1>3, <1>5, <2>2
  <2>. QED  BY <2>1, <2>3 DEF Scan
<1>7. DOMAIN NextArgs = 1 .. Len(call.args) /\ DOMAIN call.args = 1 .. Len(call.args)
  <2>1. call.args \in Arguments
    BY <1>1 DEF Scan
  <2>. QED  BY <1>3, <2>1 DEF Arguments
<1>. HIDE DEF f
<1>8. GivenBy(macroDefs, f) = GivenBy(macroDefs, call)
  <2>1. \A k \in 1 .. Len(call.args) :
          (IF k < n THEN NextArgs[k] ELSE Expansion(macroDefs)[NextArgs[k]])
            = IF k < call.arg THEN call.args[k] ELSE Expansion(macroDefs)[call.args[k]]
    <3>1. ASSUME NEW k \in 1 .. Len(call.args)
          PROVE  (IF k < n THEN NextArgs[k] ELSE Expansion(macroDefs)[NextArgs[k]])
                    = IF k < call.arg THEN call.args[k] ELSE Expansion(macroDefs)[call.args[k]]
      <4>1. CASE k = call.arg
        BY <1>3, <4>1
      <4>2. CASE k # call.arg
        BY <1>3, <4>2
      <4>. QED  BY <4>1, <4>2
    <3>. QED  BY <3>1
  <2>. QED  BY <1>5, <1>7, <2>1 DEF GivenBy
<1>9. ScanText(macroDefs, f) = CallText(macroDefs, call) ++ Left
  BY <1>4, <1>5, <1>8 DEF ScanText, CallText
<1>10. /\ Nested(Return, macroDefs) /\ Len(Return) \in Nat
       /\ \A k \in 1 .. Len(Return) : ScanFits(macroDefs, SourceText, Return, w, k)
       /\ Len(Return) > 0 => Marked(Rest, Len(Return[Len(Return)].outer))
       /\ Done(Return, w, Len(Return)) ++ Expansion(macroDefs)[CallText(macroDefs, call) ++ Left]
            = Aim(macroDefs, SourceText, Return, Len(Return))
       /\ Under(Rest, Len(Rest), call.hide)
       /\ \A a \in call.arg .. Len(call.args) : TokensUnder(Rest, Len(Rest), call.args[a])
  BY AroundScan
<1>11. \A a \in f.arg .. Len(f.args) : TokensUnder(f.outer, Len(f.outer), f.args[a])
  BY <1>3, <1>5, <1>10
<1>12. Done(Return, w, Len(Return)) ++ Expansion(macroDefs)[ScanText(macroDefs, f)] = Aim(macroDefs, SourceText, Return, Len(Return))
  BY <1>9, <1>10
<1>13. Hides(f.outer) /\ Under(f.outer, Len(f.outer), f.hide) /\ (Len(Return) > 0 => Marked(f.outer, Len(Return[Len(Return)].outer)))
  BY <1>4, <1>5, <1>10
<1>14. Fits(Append(Return, f), Scanning(f.outer, f.args[f.arg]), f.outerPos, w, <<>>)
  BY <1>5, <1>6, <1>10, <1>11, <1>12, <1>13, ScanAddedFits
<1>. QED  BY <1>2, <1>5, <1>14

(* All arguments are expanded: the macro is pushed.                         *)
LEMMA LastScanFits ==
    ASSUME NEW w, NEW g, Meant(w, g), EndPrescan, ~(call.arg < Len(NextArgs))
    PROVE  Fits(expansions', inputStack', currentPos', w, <<>>) /\ output' = output
<1>. DEFINE m    == call.name.atom
            hide == call.hide \cup {m}
            x    == tMacroInput(m, NextArgs, hide)
            s    == Append(Rest, x)
<1>1. Push(Rest, Return, call.name, NextArgs, call.hide) /\ call \in Scan(macroDefs) /\ Ready /\ At("prescan") /\ token = Marker
  BY ScanEndRead
<1>2. inputStack' = s /\ currentPos' = Begun(Moved, m) /\ expansions' = Return /\ output' = output
  BY <1>1 DEF Push, Begun
<1>3. /\ NextArgs \in Arguments /\ Len(NextArgs) = Len(call.args) /\ Len(call.args) \in Nat
      /\ call.arg \in Nat \ {0} /\ call.arg <= Len(call.args)
      /\ \A k \in 1 .. Len(call.args) : k # call.arg => NextArgs[k] = call.args[k]
      /\ NextArgs[call.arg] = Expansion(macroDefs)[call.args[call.arg]]
  BY NextArgsGiven
<1>4. /\ Hides(Rest) /\ Rest \in Seq(Input(macroDefs)) /\ Moved \in Positions(macroDefs)
      /\ Left = Ahead(macroDefs, Rest, Moved)[Len(Rest)] /\ Left \in Text
  BY ScanEnded
<1>5. /\ Depth(Return) = Len(Return) /\ ~Looks(Return) /\ Len(Return) \in Nat
      /\ \A k \in 1 .. Len(Return) : ScanFits(macroDefs, SourceText, Return, w, k)
      /\ Len(Return) > 0 => Marked(Rest, Len(Return[Len(Return)].outer)) /\ Len(Return[Len(Return)].outer) \in Nat
      /\ Done(Return, w, Len(Return)) ++ Expansion(macroDefs)[CallText(macroDefs, call) ++ Left]
           = Aim(macroDefs, SourceText, Return, Len(Return))
      /\ Under(Rest, Len(Rest), call.hide)
  BY AroundScan
<1>6. /\ IInv /\ TypeInv /\ IsTable(macroDefs) /\ w \in Text
  BY MeantFits
<1>7. Scanned
  BY <1>1, <1>6, ScannedHolds
<1>8. call.args \in Arguments /\ m \in STRING /\ m \in DOMAIN macroDefs /\ Len(call.args) = Len(macroDefs[m].args) /\ call.hide \in SUBSET STRING
  BY <1>1, <1>6 DEF Scan, Name, PlainToken
<1>9. NextArgs = GivenBy(macroDefs, call)
  <2>1. DOMAIN NextArgs = 1 .. Len(call.args) /\ DOMAIN call.args = 1 .. Len(call.args)
        /\ NextArgs = [k \in DOMAIN NextArgs |-> NextArgs[k]]
    BY <1>3, <1>8 DEF Arguments
  <2>2. \A k \in 1 .. Len(call.args) :
          NextArgs[k] = IF k < call.arg THEN call.args[k] ELSE Expansion(macroDefs)[call.args[k]]
    <3>1. ASSUME NEW k \in 1 .. Len(call.args)
          PROVE  NextArgs[k] = IF k < call.arg THEN call.args[k] ELSE Expansion(macroDefs)[call.args[k]]
      <4>1. CASE k = call.arg
        BY <1>3, <4>1
      <4>2. CASE k # call.arg
        BY <1>3, <4>2
      <4>. QED  BY <4>1, <4>2
    <3>. QED  BY <3>1
  <2>. QED  BY <2>1, <2>2 DEF GivenBy
<1>10. CallText(macroDefs, call) = Substituted(macroDefs[m], NextArgs, hide)
  BY <1>9 DEF CallText
<1>11. x \in MacroInput(macroDefs) /\ x \in Input(macroDefs) /\ x.kind = "macro" /\ x.mac = m /\ x.hide = hide
  <2>1. x \in [kind : {"macro"}, mac : STRING, args : Arguments, hide : SUBSET STRING]
    BY <1>3, <1>8 DEF tMacroInput
  <2>2. x.kind = "macro" /\ x.mac = m /\ x.hide = hide /\ x.args = NextArgs
    BY DEF tMacroInput
  <2>. HIDE DEF x
  <2>. QED  BY <1>3, <1>8, <2>1, <2>2 DEF MacroInput, Input
<1>12. MacroAt(Rest, m) = {}
  <2>1. ScanEnds
    BY <1>1 DEF ScanEnds
  <2>2. MacroAt(inputStack, m) = {}
    BY <1>6, <1>7, <2>1, EndedScan
  <2>. QED  BY <1>6, <1>7, <2>2, TakenPlaces DEF IInv, LineInv
<1>13. /\ Substituted(macroDefs[m], NextArgs, hide) \in Text
       /\ Ahead(macroDefs, s, Begun(Moved, m))[Len(Rest) + 1] = Substituted(macroDefs[m], NextArgs, hide) ++ Left
  <2>1. tMacroInput(m, NextArgs, hide) \in MacroInput(macroDefs)
    BY <1>11
  <2>. HIDE DEF hide
  <2>2. Substituted(macroDefs[m], NextArgs, hide) \in Text
    BY <1>4, <1>6, <1>12, <2>1, TextPushed
  <2>3. Ahead(macroDefs, Append(Rest, tMacroInput(m, NextArgs, hide)), Begun(Moved, m))[Len(Rest) + 1]
          = Substituted(macroDefs[m], NextArgs, hide) ++ Ahead(macroDefs, Rest, Moved)[Len(Rest)]
    BY <1>4, <1>6, <1>12, <2>1, TextPushed
  <2>. QED  BY <1>4, <2>2, <2>3
<1>14. Hides(s)
  <2>1. m \in hide /\ Under(Rest, Len(Rest), hide)
    BY <1>5, UnderMore
  <2>. HIDE DEF x, hide
  <2>. QED  BY <1>4, <1>11, <2>1, HidesAdded
<1>15. Len(Return) > 0 => Marked(s, Len(Return[Len(Return)].outer))
  <2>1. ~Live(x)
    BY <1>11 DEF Live
  <2>. HIDE DEF x
  <2>. QED  BY <1>4, <1>5, <1>11, <2>1, MarkedAdded
<1>16. Len(s) = Len(Rest) + 1
  BY <1>4, <1>11
<1>. HIDE DEF s, x, hide
<1>17. OpenText(Return, <<>>) = <<>> /\ OpenFits(macroDefs, Return, s, <<>>)
  BY <1>5 DEF OpenText, OpenFits
<1>18. TextFits(Return, s, Begun(Moved, m), w, <<>>)
  <2>1. Substituted(macroDefs[m], NextArgs, hide) ++ Left \in Text
    BY <1>4, <1>13, Joins
  <2>2. <<>> ++ (Substituted(macroDefs[m], NextArgs, hide) ++ Left) = Substituted(macroDefs[m], NextArgs, hide) ++ Left
    BY <2>1, Joins
  <2>. QED  BY <1>5, <1>10, <1>13, <1>16, <1>17, <2>2 DEF TextFits
<1>19. InputsFit(Return, s)
  BY <1>5, <1>14, <1>15 DEF InputsFit
<1>20. <<>> \in Text
  BY TokenTexts
<1>21. Fits(Return, s, Begun(Moved, m), w, <<>>)
  BY <1>5, <1>6, <1>17, <1>18, <1>19, <1>20 DEF Fits
<1>. QED  BY <1>2, <1>21

-----------------------------------------------------------------------------
\* What every step leaves of the flags and the calls

LEMMA Flags ==
    ASSUME Next
    PROVE  /\ UNCHANGED <<source, macroDefs>> /\ (errors => errors') /\ (recursed => recursed')
           /\ ~over /\ (over' => errors' \/ TokenizeEnd) /\ (undef' = undef \/ CPPundef)
<1>. DEFINE Goal == /\ UNCHANGED <<source, macroDefs>> /\ (errors => errors') /\ (recursed => recursed')
                    /\ ~over /\ (over' => errors' \/ TokenizeEnd) /\ (undef' = undef \/ CPPundef)
<1>. USE DEF macroVars
<1>1. ASSUME Quiet, ~over PROVE Goal
  BY <1>1 DEF Quiet
<1>2. ASSUME Ready PROVE ~over
  BY <1>2 DEF Ready
<1>3. CASE popInput \/ scanArgument
  BY <1>3 DEF popInput, scanArgument
<1>4. CASE CallBegins \/ NoCall \/ NextArgument \/ Record \/ Excess \/ SkipExcess
  <2>1. Ready /\ Quiet
    BY <1>4, Zenon DEF CallBegins, NoCall, NextArgument, Record, Excess, Recover, SkipExcess, InArgs
  <2>. QED  BY <1>1, <1>2, <2>1
<1>5. CASE SkipNewLine \/ PrescanToken \/ Toss \/ TokenizeToken \/ TokenizeNewLine \/ readCPPline
  <2>1. Ready /\ Quiet
    BY <1>5, Zenon DEF SkipNewLine, PrescanToken, Toss, TokenizeToken, TokenizeNewLine, readCPPline, Prescanning, Tokenizing
  <2>. QED  BY <1>1, <1>2, <2>1
<1>6. CASE BadCall \/ ExcessUnclosed
  <2>1. Ready /\ Fail
    BY <1>6, Zenon DEF BadCall, ExcessUnclosed
  <2>. QED  BY <1>2, <2>1 DEF Fail
<1>7. ASSUME NEW inputs, NEW frames, NEW name, NEW args, NEW hide, Push(inputs, frames, name, args, hide), errors => errors', ~over
      PROVE  Goal
  BY <1>7 DEF Push
<1>8. ASSUME NEW inputs, NEW i, NEW args, NEW name, NEW hide, Prescan(inputs, i, args, name, hide), errors => errors', ~over
      PROVE  Goal
  BY <1>8 DEF Prescan
<1>9. CASE CloseCall \/ EndExcess
  <2>1. Ready /\ (errors => errors') /\ \E given : Called(given, token.hide)
    BY <1>9, Zenon DEF CloseCall, EndExcess, InArgs
  <2>2. ~over
    BY <1>2, <2>1
  <2>. QED  BY <1>7, <1>8, <2>1, <2>2, Zenon DEF Called
<1>10. CASE EndPrescan
  <2>1. Ready /\ errors' = errors
    BY <1>10 DEF EndPrescan, Prescanning
  <2>2. ~over
    BY <1>2, <2>1
  <2>3. \E a, i : Prescan(Rest, i, a, call.name, call.hide) \/ Push(Rest, Return, call.name, a, call.hide)
    <3>. DEFINE a == IF token = Marker THEN [call.args EXCEPT ![call.arg] = call.expanded] ELSE call.args
    <3>1. IF call.arg < Len(a) THEN Prescan(Rest, call.arg + 1, a, call.name, call.hide)
          ELSE Push(Rest, Return, call.name, a, call.hide)
      BY <1>10, Zenon DEF EndPrescan
    <3>. HIDE DEF a
    <3>. QED  BY <3>1
  <2>. QED  BY <1>7, <1>8, <2>1, <2>2, <2>3
<1>11. CASE PrescanMacro \/ TokenizeMacro
  <2>1. Ready /\ MacroExpand
    BY <1>11, Zenon DEF PrescanMacro, TokenizeMacro, Prescanning, Tokenizing
  <2>2. ~over
    BY <1>2, <2>1
  <2>3. Quiet \/ (Push(Rest, expansions, token, <<>>, token.hide) /\ errors' = errors)
    BY <2>1, Zenon DEF MacroExpand
  <2>. QED  BY <1>1, <1>7, <2>2, <2>3
<1>12. CASE CPPundef \/ StrayDirective \/ TokenizeEnd
  BY <1>2, <1>12 DEF CPPundef, StrayDirective, TokenizeEnd, Tokenizing
<1>. QED  BY <1>3, <1>4, <1>5, <1>6, <1>9, <1>10, <1>11, <1>12, Zenon DEF Next

\* The calls after a step that reports nothing, in a source without directives.
Added == \E f : f.at = "paren" /\ expansions' = Append(expansions, f) /\ (expansions = <<>> \/ call.at = "prescan")
Continued ==
    /\ expansions # <<>>
    /\ \E f : /\ Continue(f)
              /\ f.at = "recover" \/ (f.at \in {"args", "prescan"} /\ f.name = call.name /\ call.at # "recover")
Returned ==
    /\ expansions # <<>> /\ expansions' = Return
    /\ call.at = "paren" \/ (call.at \in {"args", "prescan"} /\ (call.name.atom \in call.name.hide => recursed'))
Collects(es) == es # <<>> /\ \E x : Last(es).at = "prescan" /\ expansions' = Append(Front(es), [Last(es) EXCEPT !.expanded = x])
CallsStep ==
    \/ expansions' = expansions \/ Added \/ Continued \/ Returned
    \/ Collects(expansions)
    \/ expansions # <<>> /\ call.at = "paren" /\ Collects(Return)

LEMMA NothingDirects ==
    ASSUME IInv, SourceInv, NoLines, ~errors
    PROVE  ~readCPPline /\ ~CPPundef
<1>1. ~At("undef") /\ NoDirective(inputStack)
  BY DEF SourceInv
<1>2. ASSUME readCPPline PROVE FALSE
  <2>1. Ready /\ Directs(token) /\ newLine
    BY <1>2, Zenon DEF readCPPline, Tokenizing, Directs
  <2>2. TypeInv /\ Len(inputStack) <= 1 /\ \A i \in 1 .. Len(inputStack) : inputStack[i].kind # "macro"
    BY <2>1 DEF IInv, LineInv
  <2>3. inputStack # <<>>
    <3>1. ~Directs(EndOfInput)
      BY Zenon DEF Directs, EndOfInput, Token
    <3>. QED  BY <2>1, <3>1 DEF token
  <2>4. top = inputStack[1] /\ top.kind # "macro" /\ inputStack \in Seq(Input(macroDefs)) /\ top \in Input(macroDefs)
    BY <2>2, <2>3 DEF TypeInv, top, Last
  <2>5. top.rest # <<>> /\ token = Head(top.rest)
    BY <2>1, <2>3, <2>4 DEF Ready, AtEnd, token
  <2>6. token = top.rest[1] /\ 1 \in 1 .. Len(top.rest)
    <3>1. top.rest \in Seq(SourceToken) \cup {<<Marker>>}
      BY <2>4 DEF Input, TokenInput, MacroInput
    <3>. QED  BY <2>5, <3>1
  <2>. QED  BY <1>1, <2>1, <2>3, <2>4, <2>6 DEF NoDirective
<1>. QED  BY <1>1, <1>2 DEF CPPundef

LEMMA KeepCollects ==
    ASSUME NEW es, NEW t, Keep(es, t)
    PROVE  /\ es = <<>> => expansions' = es
           /\ es # <<>> /\ Last(es).at = "prescan" => Collects(es)
BY DEF Keep, Collects

LEMMA PushReturns ==
    ASSUME expansions # <<>>, call.at \in {"args", "prescan"},
           NEW args, NEW hide, Push(Rest, Return, call.name, args, hide)
    PROVE  Returned
BY DEF Push, Returned

LEMMA PrescanContinues ==
    ASSUME expansions # <<>>, call.at \in {"args", "prescan"},
           NEW i, NEW args, NEW hide, Prescan(Rest, i, args, call.name, hide)
    PROVE  Continued
<1>. DEFINE f == [at |-> "prescan", name |-> call.name, args |-> args, hide |-> hide, arg |-> i,
                  expanded |-> <<>>, tossing |-> FALSE, outer |-> Rest, outerPos |-> Moved]
<1>1. Continue(f)
  BY DEF Prescan
<1>2. f.at = "prescan" /\ f.name = call.name
  OBVIOUS
<1>. HIDE DEF f
<1>. QED  BY <1>1, <1>2 DEF Continued

LEMMA StepCalls ==
    ASSUME IInv, Next, SourceInv, NoLines, ~errors'
    PROVE  CallsStep
<1>0. TypeInv /\ ~errors /\ ~readCPPline /\ ~CPPundef
  BY Flags, NothingDirects DEF IInv
<1>1. ASSUME NEW place, At(place) PROVE expansions # <<>> /\ call.at = place
  BY <1>1 DEF At
<1>2. CASE popInput \/ scanArgument \/ SkipNewLine \/ Toss \/ TokenizeNewLine \/ TokenizeEnd
  <2>1. expansions' = expansions
    BY <1>2 DEF popInput, scanArgument, SkipNewLine, Toss, TokenizeNewLine, TokenizeEnd
  <2>. QED  BY <2>1 DEF CallsStep
<1>3. CASE BadCall \/ ExcessUnclosed \/ EndExcess \/ StrayDirective
  <2>1. errors'
    BY <1>3, Zenon DEF BadCall, ExcessUnclosed, EndExcess, StrayDirective, Fail
  <2>. QED  BY <2>1
<1>4. CASE CallBegins
  <2>. DEFINE f == [at |-> "args", name |-> call.name, args |-> << <<>> >>, nest |-> 0, recorded |-> FALSE]
  <2>1. expansions # <<>> /\ call.at = "paren" /\ Continue(f)
    BY <1>1, <1>4, Zenon DEF CallBegins
  <2>2. f.at = "args" /\ f.name = call.name
    OBVIOUS
  <2>. HIDE DEF f
  <2>. QED  BY <2>1, <2>2 DEF CallsStep, Continued
<1>5. CASE NoCall
  <2>1. expansions # <<>> /\ call.at = "paren" /\ Keep(Return, call.name)
    BY <1>1, <1>5, Zenon DEF NoCall
  <2>2. CASE Return = <<>>
    BY <2>1, <2>2, KeepCollects DEF CallsStep, Returned
  <2>3. CASE Return # <<>>
    <3>1. Last(Return).at = "prescan"
      <4>1. Return \in Seq(Frame(macroDefs)) /\ Len(Return) = Len(expansions) - 1 /\ Len(expansions) \in Nat \ {0}
            /\ \A k \in 1 .. Len(expansions) : k < Len(expansions) => Return[k] \in Scan(macroDefs)
        BY <1>0, <2>1, Calls
      <4>2. Last(Return) = Return[Len(Return)] /\ Len(Return) \in 1 .. Len(expansions) /\ Len(Return) < Len(expansions)
        BY <2>3, <4>1 DEF Last
      <4>. QED  BY <4>1, <4>2 DEF Scan
    <3>. QED  BY <2>1, <2>3, <3>1, KeepCollects DEF CallsStep
  <2>. QED  BY <2>2, <2>3
<1>6. CASE Excess
  <2>. DEFINE f == [at |-> "recover", name |-> call.name, args |-> call.args, depth |-> AtFirst]
  <2>1. expansions # <<>> /\ Continue(f)
    BY <1>1, <1>6, Zenon DEF Excess, InArgs, Recover
  <2>2. f.at = "recover"
    OBVIOUS
  <2>. HIDE DEF f
  <2>. QED  BY <2>1, <2>2 DEF CallsStep, Continued
<1>7. CASE NextArgument \/ Record
  <2>1. At("args") /\ \E args, nest, recorded :
          Continue([call EXCEPT !.args = args]) \/ Continue([call EXCEPT !.args = args, !.nest = nest, !.recorded = recorded])
    BY <1>7, Zenon DEF NextArgument, Record, InArgs
  <2>2. expansions # <<>> /\ call.at = "args" /\ call \in Gathering(macroDefs)
    BY <1>0, <1>1, <2>1, CallKinds
  <2>3. \A args, nest, recorded :
          /\ [call EXCEPT !.args = args].at = "args" /\ [call EXCEPT !.args = args].name = call.name
          /\ [call EXCEPT !.args = args, !.nest = nest, !.recorded = recorded].at = "args"
          /\ [call EXCEPT !.args = args, !.nest = nest, !.recorded = recorded].name = call.name
    BY <2>2 DEF Gathering
  <2>4. \E f : Continue(f) /\ f.at = "args" /\ f.name = call.name
    <3>1. PICK args, nest, recorded :
            Continue([call EXCEPT !.args = args]) \/ Continue([call EXCEPT !.args = args, !.nest = nest, !.recorded = recorded])
      BY <2>1
    <3>. DEFINE e == [call EXCEPT !.args = args]
                f == [call EXCEPT !.args = args, !.nest = nest, !.recorded = recorded]
    <3>2. e.at = "args" /\ e.name = call.name /\ f.at = "args" /\ f.name = call.name
      BY <2>3
    <3>3. Continue(e) \/ Continue(f)
      BY <3>1
    <3>. HIDE DEF e, f
    <3>. QED  BY <3>2, <3>3
  <2>. QED  BY <2>2, <2>4 DEF CallsStep, Continued
<1>8. CASE SkipExcess
  <2>1. At("recover") /\ \E depth : Continue([call EXCEPT !.depth = depth])
    BY <1>8, Zenon DEF SkipExcess
  <2>2. expansions # <<>> /\ call.at = "recover" /\ call \in Recovering(macroDefs)
    BY <1>0, <1>1, <2>1, CallKinds
  <2>3. \A depth : [call EXCEPT !.depth = depth].at = "recover"
    BY <2>2 DEF Recovering
  <2>. QED  BY <2>1, <2>2, <2>3 DEF CallsStep, Continued
<1>9. CASE CloseCall
  <2>1. At("args") /\ Called(Given, token.hide)
    BY <1>9, Zenon DEF CloseCall, InArgs
  <2>2. expansions # <<>> /\ call.at \in {"args", "prescan"}
    BY <1>1, <2>1
  <2>3. \E i, args, hide : Push(Rest, Return, call.name, args, hide) \/ Prescan(Rest, i, args, call.name, hide)
    BY <2>1, Zenon DEF Called
  <2>. QED  BY <2>2, <2>3, PushReturns, PrescanContinues DEF CallsStep
<1>10. CASE EndPrescan
  <2>1. expansions # <<>> /\ call.at \in {"args", "prescan"}
    BY <1>1, <1>10 DEF EndPrescan, Prescanning
  <2>2. \E a, i : Prescan(Rest, i, a, call.name, call.hide) \/ Push(Rest, Return, call.name, a, call.hide)
    <3>. DEFINE a == IF token = Marker THEN [call.args EXCEPT ![call.arg] = call.expanded] ELSE call.args
    <3>1. IF call.arg < Len(a) THEN Prescan(Rest, call.arg + 1, a, call.name, call.hide)
          ELSE Push(Rest, Return, call.name, a, call.hide)
      BY <1>10, Zenon DEF EndPrescan
    <3>. HIDE DEF a
    <3>. QED  BY <3>1
  <2>. QED  BY <2>1, <2>2, PushReturns, PrescanContinues DEF CallsStep
<1>11. CASE PrescanMacro \/ TokenizeMacro
  <2>. DEFINE f == [at |-> "paren", name |-> token]
  <2>1. MacroExpand /\ (expansions = <<>> \/ call.at = "prescan")
    BY <1>1, <1>11, Zenon DEF PrescanMacro, TokenizeMacro, Prescanning, Tokenizing
  <2>2. expansions' = Append(expansions, f) \/ Push(Rest, expansions, token, <<>>, token.hide)
    BY <2>1, Zenon DEF MacroExpand
  <2>3. f.at = "paren"
    OBVIOUS
  <2>. HIDE DEF f
  <2>. QED  BY <2>1, <2>2, <2>3 DEF CallsStep, Added, Push
<1>12. CASE PrescanToken
  <2>1. expansions # <<>> /\ call.at = "prescan" /\ Keep(expansions, token)
    BY <1>1, <1>12 DEF PrescanToken, Prescanning
  <2>. QED  BY <2>1, KeepCollects DEF CallsStep, call
<1>13. CASE TokenizeToken
  <2>1. expansions = <<>> /\ Keep(expansions, token)
    BY <1>13, Zenon DEF TokenizeToken, Tokenizing
  <2>. QED  BY <2>1, KeepCollects DEF CallsStep
<1>. QED  BY <1>0, <1>2, <1>3, <1>4, <1>5, <1>6, <1>7, <1>8, <1>9, <1>10, <1>11, <1>12, <1>13, Zenon DEF Next

LEMMA AnyAppended ==
    ASSUME NEW S, NEW s \in Seq(S), NEW x
    PROVE  LET r == Append(s, x) IN
           /\ Len(r) = Len(s) + 1 /\ r[Len(s) + 1] = x /\ r # <<>> /\ Len(s) \in Nat /\ Last(r) = x
           /\ \A i \in 1 .. Len(s) : r[i] = s[i]
<1>1. s \in Seq(S \cup {x}) /\ x \in S \cup {x}
  OBVIOUS
<1>2. LET r == Append(s, x) IN
      /\ Len(r) = Len(s) + 1 /\ r[Len(s) + 1] = x /\ r # <<>> /\ Len(s) \in Nat
      /\ \A i \in 1 .. Len(s) : r[i] = s[i]
  BY <1>1, Appended
<1>. QED  BY <1>2 DEF Last

\* A call that looks for its arguments, or is scanned, is no recursive one.
NamedAnew(f) == f.at \in {"args", "prescan"} => f.name.atom \notin f.name.hide
Names(es) == \A k \in 1 .. Len(es) : NamedAnew(es[k])

LEMMA NamesReplaced ==
    ASSUME NEW S, NEW es \in Seq(S), es # <<>>, NEW f, NamedAnew(f) => NamedAnew(Last(es))
    PROVE  Names(Append(Front(es), f)) => Names(es)
<1>. DEFINE n == Len(es)
            r == Append(Front(es), f)
<1>1. /\ Front(es) \in Seq(S) /\ Len(Front(es)) = n - 1 /\ n \in Nat \ {0}
      /\ \A i \in 1 .. n - 1 : Front(es)[i] = es[i]
  BY Popped
<1>2. /\ Len(r) = (n - 1) + 1 /\ r[(n - 1) + 1] = f /\ \A i \in 1 .. n - 1 : r[i] = Front(es)[i]
  BY <1>1, AnyAppended
<1>3. Len(r) = n /\ r[n] = f /\ Last(es) = es[n]
  BY <1>1, <1>2 DEF Last
<1>4. \A i \in 1 .. n : i = n \/ (i \in 1 .. n - 1 /\ r[i] = es[i])
  BY <1>1, <1>2
<1>. HIDE DEF r, n
<1>5. ASSUME Names(r), NEW k \in 1 .. n PROVE NamedAnew(es[k])
  <2>1. NamedAnew(r[k])
    BY <1>3, <1>5 DEF Names
  <2>. QED  BY <1>3, <1>4, <2>1
<1>. QED  BY <1>5 DEF Names, n, r

LEMMA NamesFront ==
    ASSUME NEW S, NEW es \in Seq(S), es # <<>>, NamedAnew(Last(es))
    PROVE  Names(Front(es)) => Names(es)
<1>. DEFINE n == Len(es)
<1>1. /\ Len(Front(es)) = n - 1 /\ n \in Nat \ {0} /\ Last(es) = es[n]
      /\ \A i \in 1 .. n - 1 : Front(es)[i] = es[i]
  BY Popped DEF Last
<1>2. \A i \in 1 .. n : i = n \/ i \in 1 .. n - 1
  BY <1>1
<1>. QED  BY <1>1, <1>2 DEF Names

LEMMA CallsStepKeeps ==
    ASSUME TypeInv, CallsStep
    PROVE  /\ ~At("undef") => ~At("undef")'
           /\ ~At("recover")' /\ ~recursed' /\ Names(expansions') => ~At("recover") /\ Names(expansions)
<1>. DEFINE F == Frame(macroDefs)
            Goal == /\ ~At("undef") => ~At("undef")'
                    /\ ~At("recover")' /\ ~recursed' /\ Names(expansions') => ~At("recover") /\ Names(expansions)
<1>1. expansions \in Seq(F) /\ Nested(expansions, macroDefs)
  BY DEF TypeInv, Nested
<1>2. ASSUME expansions # <<>>
      PROVE  /\ Return \in Seq(F) /\ call = Last(expansions) /\ (Return # <<>> => Last(Return).at = "prescan" /\ Last(Return) \in Scan(macroDefs))
  <2>1. Return \in Seq(F) /\ Len(Return) = Len(expansions) - 1 /\ Len(expansions) \in Nat \ {0}
        /\ \A k \in 1 .. Len(expansions) : k < Len(expansions) => Return[k] \in Scan(macroDefs)
    BY <1>2, Calls
  <2>2. ASSUME Return # <<>> PROVE Last(Return) = Return[Len(Return)] /\ Len(Return) \in 1 .. Len(expansions) /\ Len(Return) < Len(expansions)
    BY <2>1, <2>2 DEF Last
  <2>. QED  BY <2>1, <2>2 DEF Scan, call
<1>3. CASE expansions' = expansions
  BY <1>3 DEF At, call
<1>4. ASSUME NEW f, expansions' = Append(expansions, f), f.at = "paren", expansions = <<>> \/ call.at = "prescan" PROVE Goal
  <2>1. expansions' # <<>> /\ Last(expansions') = f /\ Names(Append(expansions, f)) => Names(expansions)
    <3>1. /\ Len(expansions') = Len(expansions) + 1 /\ expansions' # <<>> /\ Len(expansions) \in Nat /\ Last(expansions') = f
          /\ \A i \in 1 .. Len(expansions) : expansions'[i] = expansions[i]
      BY <1>1, <1>4, AnyAppended
    <3>2. \A i \in 1 .. Len(expansions) : i \in 1 .. Len(expansions')
      BY <3>1
    <3>. QED  BY <1>4, <3>1, <3>2 DEF Names
  <2>2. expansions' # <<>> /\ Last(expansions') = f
    BY <1>1, <1>4, AnyAppended
  <2>. QED  BY <1>4, <2>1, <2>2 DEF At, call
<1>5. ASSUME expansions # <<>>, NEW f, Continue(f),
             f.at = "recover" \/ (f.at \in {"args", "prescan"} /\ f.name = call.name /\ call.at # "recover") PROVE Goal
  <2>1. expansions' = Append(Return, f) /\ Return = Front(expansions)
    BY <1>5 DEF Continue, Return
  <2>2. expansions' # <<>> /\ Last(expansions') = f
    BY <1>2, <1>5, <2>1, AnyAppended
  <2>3. CASE f.at = "recover"
    BY <2>2, <2>3 DEF At, call
  <2>4. CASE f.at \in {"args", "prescan"} /\ f.name = call.name /\ call.at # "recover"
    <3>1. NamedAnew(f) => NamedAnew(Last(expansions))
      BY <1>2, <1>5, <2>4 DEF NamedAnew
    <3>2. Names(expansions') => Names(expansions)
      BY <1>1, <1>5, <2>1, <3>1, NamesReplaced
    <3>. QED  BY <2>2, <2>4, <3>2 DEF At, call
  <2>. QED  BY <1>5, <2>3, <2>4
<1>6. CASE Returned
  <2>1. /\ expansions # <<>> /\ expansions' = Return
        /\ call.at = "paren" \/ (call.at \in {"args", "prescan"} /\ (call.name.atom \in call.name.hide => recursed'))
    BY <1>6 DEF Returned
  <2>2. ~At("undef")'
    BY <1>2, <2>1 DEF At, call
  <2>3. ~At("recover")
    BY <2>1 DEF At
  <2>4. ASSUME ~recursed', Names(expansions') PROVE Names(expansions)
    <3>1. NamedAnew(Last(expansions))
      BY <1>2, <2>1, <2>4 DEF NamedAnew
    <3>. QED  BY <1>1, <2>1, <2>4, <3>1, NamesFront DEF Return
  <2>. QED  BY <2>2, <2>3, <2>4
<1>7. ASSUME NEW es \in Seq(F), es # <<>>, Last(es) \in Scan(macroDefs), Collects(es)
      PROVE  ~At("undef")' /\ (Names(expansions') => Names(es))
  <2>1. PICK x : expansions' = Append(Front(es), [Last(es) EXCEPT !.expanded = x])
    BY <1>7 DEF Collects
  <2>. DEFINE f == [Last(es) EXCEPT !.expanded = x]
  <2>2. f.at = "prescan" /\ f.name = Last(es).name /\ Last(es).at = "prescan"
    BY <1>7 DEF Scan
  <2>. HIDE DEF f
  <2>3. expansions' = Append(Front(es), f) /\ Front(es) \in Seq(F)
    BY <1>7, <2>1, Popped DEF f
  <2>4. expansions' # <<>> /\ Last(expansions') = f
    BY <2>3, AnyAppended
  <2>5. NamedAnew(f) => NamedAnew(Last(es))
    BY <2>2 DEF NamedAnew
  <2>6. Names(expansions') => Names(es)
    <3>. HIDE DEF F
    <3>. QED  BY <1>7, <2>3, <2>5, NamesReplaced
  <2>. QED  BY <2>2, <2>4, <2>6 DEF At, call
<1>8. CASE Collects(expansions)
  <2>1. expansions # <<>> /\ Last(expansions).at = "prescan"
    BY <1>8 DEF Collects
  <2>2. Last(expansions) \in Scan(macroDefs) /\ ~At("recover")
    BY <2>1, CallKinds DEF At, call
  <2>. QED  BY <1>1, <1>7, <1>8, <2>1, <2>2
<1>9. CASE expansions # <<>> /\ call.at = "paren" /\ Collects(Return)
  <2>1. Return # <<>> /\ Return \in Seq(F) /\ Last(Return) \in Scan(macroDefs) /\ ~At("recover")
    BY <1>2, <1>9 DEF Collects, At
  <2>2. NamedAnew(Last(expansions))
    BY <1>2, <1>9 DEF NamedAnew
  <2>3. Names(Return) => Names(expansions)
    BY <1>1, <1>9, <2>2, NamesFront DEF Return
  <2>. QED  BY <1>7, <1>9, <2>1, <2>3
<1>. QED  BY <1>3, <1>4, <1>5, <1>6, <1>8, <1>9 DEF CallsStep, Added, Continued

(* Nothing that is out of the ordinary was so before.                       *)
LEMMA SoundBefore ==
    ASSUME IInv, Next, SourceInv, NoLines, Sound'
    PROVE  Sound
<1>1. ~errors' /\ ~recursed' /\ ~At("recover")' /\ Names(expansions')
  BY DEF Sound, Names, NamedAnew
<1>2. ~errors /\ ~recursed /\ TypeInv
  BY <1>1, Flags DEF IInv
<1>3. CallsStep
  BY <1>1, StepCalls
<1>4. ~At("recover") /\ Names(expansions)
  BY <1>1, <1>2, <1>3, CallsStepKeeps
<1>. QED  BY <1>2, <1>4 DEF Sound, Names, NamedAnew

-----------------------------------------------------------------------------
\* What is left of the source holds no directive

LEMMA BottomAdded ==
    ASSUME NEW S, NEW s \in Seq(S), NEW x, NoDirective(s), s # <<>> \/ x.kind = "macro" \/ x = tMarkerInput
    PROVE  NoDirective(Append(s, x)) /\ Append(s, x) # <<>>
<1>1. Append(s, x) # <<>> /\ Len(s) \in Nat /\ Append(s, x)[Len(s) + 1] = x /\ \A i \in 1 .. Len(s) : Append(s, x)[i] = s[i]
  BY AnyAppended
<1>2. CASE s # <<>>
  <2>1. 1 \in 1 .. Len(s)
    BY <1>2
  <2>. QED  BY <1>1, <1>2, <2>1 DEF NoDirective
<1>3. CASE s = <<>>
  <2>1. Append(s, x)[1] = x
    BY <1>1, <1>3
  <2>2. \A q \in 1 .. Len(tMarkerInput.rest) : ~Directs(tMarkerInput.rest[q])
    <3>1. tMarkerInput.rest = <<Marker>> /\ Len(<<Marker>>) = 1 /\ <<Marker>>[1] = Marker
      BY DEF tMarkerInput
    <3>2. ~Directs(Marker)
      BY Zenon DEF Directs, Marker, Token
    <3>3. \A q \in 1 .. Len(tMarkerInput.rest) : tMarkerInput.rest[q] = Marker
      BY <3>1
    <3>. QED  BY <3>2, <3>3
  <2>. HIDE DEF tMarkerInput
  <2>. QED  BY <1>1, <1>3, <2>1, <2>2 DEF NoDirective
<1>. QED  BY <1>2, <1>3

LEMMA BottomKept ==
    ASSUME TypeInv, NoDirective(inputStack)
    PROVE  /\ inputStack # <<>> => NoDirective(Front(inputStack))
           /\ Ready => NoDirective(Rest)
<1>1. inputStack \in Seq(Input(macroDefs)) /\ Len(inputStack) \in Nat /\ (inputStack # <<>> => Len(inputStack) \in Nat \ {0})
  BY DEF TypeInv
<1>2. ASSUME inputStack # <<>> PROVE NoDirective(Front(inputStack))
  <2>1. /\ Front(inputStack) \in Seq(Input(macroDefs)) /\ Len(Front(inputStack)) = Len(inputStack) - 1
        /\ \A i \in 1 .. Len(inputStack) - 1 : Front(inputStack)[i] = inputStack[i]
    BY <1>1, <1>2, Popped
  <2>2. Front(inputStack) # <<>> => 1 \in 1 .. Len(inputStack) - 1
    BY <1>1, <2>1
  <2>. QED  BY <1>2, <2>1, <2>2 DEF NoDirective
<1>3. ASSUME Ready PROVE NoDirective(Rest)
  <2>1. Scanned
    BY <1>3, ScannedHolds
  <2>2. CASE inputStack = <<>> \/ top.kind = "macro"
    <3>1. Rest = inputStack
      BY <2>2 DEF Rest
    <3>. QED  BY <3>1
  <2>3. CASE inputStack # <<>> /\ top.kind # "macro"
    <3>1. Len(inputStack) > 1 \/ Len(inputStack) = 1
      <4>1. \A n \in Nat \ {0} : n > 1 \/ n = 1
        OBVIOUS
      <4>2. Len(inputStack) \in Nat \ {0}
        BY <1>1, <2>3
      <4>. QED  BY <4>1, <4>2
    <3>2. CASE Len(inputStack) > 1
      <4>1. 1 \in 1 .. Len(inputStack) /\ 1 < Len(inputStack)
        BY <1>1, <3>2
      <4>2. Rest[1] = inputStack[1]
        BY <2>1, <4>1 DEF Scanned
      <4>. QED  BY <2>3, <4>2 DEF NoDirective
    <3>3. CASE Len(inputStack) = 1
      <4>1. Rest[1] = [top EXCEPT !.rest = Tail(@)] /\ top = inputStack[1] /\ top \in Input(macroDefs)
        BY <2>1, <2>3, <3>3, RestOnTop DEF Scanned
      <4>2. Rest[1].rest = Tail(top.rest) /\ top.rest # <<>> /\ top.rest \in Seq(SourceToken) \cup {<<Marker>>}
        BY <1>3, <2>3, <4>1 DEF Input, TokenInput, MacroInput, Ready, AtEnd
      <4>. DEFINE r == top.rest
      <4>3. r \in Seq(SourceToken \cup {Marker}) /\ r # <<>>
        <5>1. CASE r \in Seq(SourceToken)
          BY <4>2, <5>1
        <5>2. CASE r = <<Marker>>
          BY <5>2
        <5>. QED  BY <4>2, <5>1, <5>2
      <4>. HIDE DEF r
      <4>4. \A q \in 1 .. Len(Tail(r)) : q + 1 \in 1 .. Len(r) /\ Tail(r)[q] = r[q + 1]
        BY <4>3
      <4>5. \A q \in 1 .. Len(r) : ~Directs(r[q])
        BY <2>3, <4>1 DEF NoDirective, r
      <4>6. \A q \in 1 .. Len(Tail(r)) : ~Directs(Tail(r)[q])
        BY <4>4, <4>5
      <4>7. Rest[1].rest = Tail(r)
        BY <4>2 DEF r
      <4>. QED  BY <4>6, <4>7 DEF NoDirective
    <3>. QED  BY <3>1, <3>2, <3>3
  <2>. QED  BY <2>2, <2>3
<1>. QED  BY <1>2, <1>3

\* The inputs after a step.
InputsStep ==
    \/ inputStack # <<>> /\ inputStack' = Front(inputStack)
    \/ inputStack # <<>> /\ \E x : inputStack' = Append(inputStack, x)
    \/ /\ Ready
       /\ \/ inputStack' = Rest
          \/ \E x : (inputStack # <<>> \/ x.kind = "macro") /\ inputStack' = Append(Rest, x)
          \/ \E arg \in Seq(PlainToken) : inputStack' = Rest \o <<tMarkerInput, Tokens(arg)>>

LEMMA StepInputs ==
    ASSUME IInv, Next
    PROVE  InputsStep
<1>0. TypeInv /\ MarkInv /\ OpenInv
  BY DEF IInv
<1>1. Ready => Scanned
  BY <1>0, ScannedHolds
<1>2. CASE popInput
  BY <1>2 DEF popInput, InputsStep
<1>3. CASE scanArgument
  BY <1>3 DEF scanArgument, InputsStep
<1>4. ASSUME Ready, NEW name, NEW args, NEW hide, Pushing(Rest, name, args, hide) PROVE InputsStep
  <2>. DEFINE x == tMacroInput(name.atom, args, hide)
  <2>1. inputStack' = Append(Rest, x) /\ x.kind = "macro"
    BY <1>4 DEF Pushing, tMacroInput
  <2>. HIDE DEF x
  <2>. QED  BY <1>4, <2>1 DEF InputsStep
<1>5. ASSUME Ready, Reading \/ PuttingBack \/ Expanding PROVE InputsStep
  <2>1. CASE Reading
    BY <1>5, <2>1 DEF Reading, Untouched, InputsStep
  <2>2. CASE PuttingBack
    BY <1>5, <2>2 DEF PuttingBack, Untouched, InputsStep
  <2>3. CASE Expanding
    BY <1>4, <1>5, <2>3 DEF Expanding
  <2>. QED  BY <1>5, <2>1, <2>2, <2>3
<1>6. ASSUME Ready, NEW name, Beginning(name) PROVE InputsStep
  BY <1>6 DEF Beginning, InputsStep
<1>7. CASE SkipNewLine \/ Toss \/ TokenizeNewLine \/ StrayDirective \/ TokenizeEnd \/ readCPPline \/ CPPundef
  BY <1>0, <1>5, <1>7, ReadsOnly DEF Reading, Untouched
<1>8. CASE CallBegins \/ BadCall \/ Excess \/ NextArgument \/ Record \/ SkipExcess \/ ExcessUnclosed
  <2>1. Ready
    BY <1>8, Zenon DEF CallBegins, BadCall, Excess, NextArgument, Record, SkipExcess, ExcessUnclosed, InArgs
  <2>. QED  BY <1>0, <1>1, <1>5, <1>8, <2>1, ReadsCall
<1>9. CASE PrescanToken \/ TokenizeToken \/ PrescanMacro \/ TokenizeMacro
  <2>1. Ready
    BY <1>9, Zenon DEF PrescanToken, TokenizeToken, PrescanMacro, TokenizeMacro, Prescanning, Tokenizing
  <2>. QED  BY <1>0, <1>1, <1>5, <1>9, <2>1, ReadsToken, StartsMacro
<1>10. CASE NoCall
  <2>1. Ready
    BY <1>10, Zenon DEF NoCall
  <2>. QED  BY <1>0, <1>1, <1>5, <1>10, <2>1, EndsLook
<1>11. CASE CloseCall \/ EndExcess
  <2>1. Ready
    BY <1>11, Zenon DEF CloseCall, EndExcess, InArgs
  <2>. QED  BY <1>0, <1>1, <1>5, <1>6, <1>11, <2>1, EndsCall DEF FirstScan
<1>12. CASE EndPrescan
  <2>1. Ready
    BY <1>12 DEF EndPrescan, Prescanning
  <2>. QED  BY <1>0, <1>1, <1>4, <1>6, <1>12, <2>1, EndsArgumentScan DEF NextScan, LastScan
<1>. QED  BY <1>2, <1>3, <1>7, <1>8, <1>9, <1>10, <1>11, <1>12, Zenon DEF Next

LEMMA NextSource ==
    ASSUME IInv, Next, SourceInv
    PROVE  SourceInv'
<1>. SUFFICES ASSUME NoLines', ~errors' PROVE undef' = {} /\ ~At("undef")' /\ NoDirective(inputStack')
  BY DEF SourceInv
<1>1. NoLines /\ ~errors /\ TypeInv
  BY Flags DEF NoLines, IInv
<1>2. undef = {} /\ ~At("undef") /\ NoDirective(inputStack)
  BY <1>1 DEF SourceInv
<1>3. undef' = {}
  BY <1>1, <1>2, Flags, NothingDirects
<1>4. ~At("undef")'
  BY <1>1, <1>2, StepCalls, CallsStepKeeps
<1>5. NoDirective(inputStack')
  <2>1. inputStack \in Seq(Input(macroDefs))
    BY <1>1 DEF TypeInv
  <2>2. CASE inputStack # <<>> /\ inputStack' = Front(inputStack)
    BY <1>1, <1>2, <2>2, BottomKept
  <2>3. CASE inputStack # <<>> /\ \E x : inputStack' = Append(inputStack, x)
    BY <1>2, <2>1, <2>3, BottomAdded
  <2>4. ASSUME Ready PROVE Rest \in Seq(Input(macroDefs)) /\ NoDirective(Rest) /\ (inputStack # <<>> => Rest # <<>>)
    <3>1. Rest \in Seq(Input(macroDefs)) /\ Len(Rest) = Len(inputStack)
      BY <1>1, <2>4, ScannedHolds DEF Scanned
    <3>. QED  BY <1>1, <1>2, <2>1, <2>4, <3>1, BottomKept
  <2>5. ASSUME Ready, NEW x, inputStack # <<>> \/ x.kind = "macro", inputStack' = Append(Rest, x) PROVE NoDirective(inputStack')
    BY <2>4, <2>5, BottomAdded
  <2>6. ASSUME Ready, NEW arg \in Seq(PlainToken), inputStack' = Rest \o <<tMarkerInput, Tokens(arg)>> PROVE NoDirective(inputStack')
    <3>1. Rest \in Seq(Input(macroDefs)) /\ tMarkerInput \in Input(macroDefs) /\ Tokens(arg) \in Input(macroDefs)
      <4>1. tMarkerInput \in Input(macroDefs)
        BY NewInputs
      <4>2. Tokens(arg) \in Input(macroDefs)
        BY NewInputs
      <4>. QED  BY <2>4, <2>6, <4>1, <4>2
    <3>. DEFINE x == tMarkerInput
                y == Tokens(arg)
                r == Append(Rest, x)
    <3>2. NoDirective(r) /\ r # <<>>
      BY <2>4, <2>6, <3>1, BottomAdded
    <3>3. r \in Seq(Input(macroDefs))
      BY <3>1
    <3>4. Rest \o <<x, y>> = Append(r, y)
      <4>. HIDE DEF x, y
      <4>. QED  BY <3>1, TwoAdded DEF x, y
    <3>. HIDE DEF r, y
    <3>5. NoDirective(Append(r, y))
      BY <3>2, <3>3, BottomAdded
    <3>. QED  BY <2>6, <3>4, <3>5 DEF y
  <2>. QED  BY <2>2, <2>3, <2>4, <2>5, <2>6, StepInputs DEF InputsStep
<1>. QED  BY <1>3, <1>4, <1>5

LEMMA NextOver ==
    ASSUME IInv, Next, OverInv
    PROVE  OverInv'
<1>1. ASSUME TokenizeEnd PROVE inputStack' = <<>> /\ expansions' = <<>>
  <2>1. Ready /\ token = EndOfInput /\ expansions' = <<>> /\ inputStack' = Rest
    BY <1>1 DEF TokenizeEnd, Tokenizing, Taken
  <2>2. inputStack = <<>>
    BY <2>1, ScannedHolds, TokenKinds DEF IInv
  <2>. QED  BY <2>1, <2>2 DEF Rest
<1>. QED  BY <1>1, Flags DEF OverInv

-----------------------------------------------------------------------------
\* What comes out is what is defined

LEMMA FitsThen ==
    ASSUME UNCHANGED <<source, macroDefs>>, NEW w, NEW g, Fits(expansions', inputStack', currentPos', w, g)
    PROVE  Fits(expansions, inputStack, currentPos, w, g)'
<1>1. SourceText' = SourceText
  BY DEF SourceText
<1>. HIDE DEF SourceText
<1>. QED  BY <1>1 DEF Fits, TextFits

SpecInv == IInv /\ SourceInv /\ OverInv /\ SoundInv

LEMMA StepFits ==
    ASSUME NEW w, NEW g, Meant(w, g), Next, Sound'
    PROVE  \E v \in Text, h \in Text : Collected(v)' /\ Fits(expansions', inputStack', currentPos', v, h)
<1>. DEFINE Goal == \E v \in Text, h \in Text : Collected(v)' /\ Fits(expansions', inputStack', currentPos', v, h)
<1>1. /\ IInv /\ TypeInv /\ NoLines /\ SourceInv /\ ~errors /\ ~At("recover") /\ Collected(w) /\ w \in Text /\ g \in Text
      /\ ~errors' /\ ~recursed' /\ ~At("recover")'
  BY MeantFits DEF Meant, Sound
<1>2. ASSUME NEW h, Fits(expansions', inputStack', currentPos', w, h), output' = output PROVE Goal
  <2>1. Collected(w)'
    BY <1>1, <1>2 DEF Collected
  <2>2. h \in Text
    BY <1>2 DEF Fits
  <2>. QED  BY <1>1, <1>2, <2>1, <2>2
<1>3. CASE popInput
  BY <1>2, <1>3, PopFits DEF popInput
<1>4. CASE scanArgument
  BY <1>2, <1>4, ArgumentFits DEF scanArgument
<1>5. CASE SkipNewLine \/ TokenizeNewLine
  BY <1>2, <1>5, SkipFits DEF SkipNewLine, TokenizeNewLine
<1>6. CASE CallBegins \/ NextArgument \/ Record
  <2>1. output' = output
    BY <1>6, Zenon DEF CallBegins, NextArgument, Record
  <2>2. \E h : Fits(expansions', inputStack', currentPos', w, h)
    BY <1>6, BeginsFits, NextArgumentFits, RecordFits
  <2>. QED  BY <1>2, <2>1, <2>2
<1>7. CASE NoCall
  BY <1>7, NoCallFits
<1>8. CASE PrescanToken \/ TokenizeToken
  BY <1>8, TokenFits
<1>9. CASE BadCall \/ ExcessUnclosed \/ EndExcess \/ StrayDirective
  <2>1. errors'
    BY <1>9, Zenon DEF BadCall, ExcessUnclosed, EndExcess, StrayDirective, Fail
  <2>. QED  BY <1>1, <2>1
<1>10. CASE Excess
  <2>. DEFINE f == [at |-> "recover", name |-> call.name, args |-> call.args, depth |-> AtFirst]
  <2>1. At("args") /\ Continue(f)
    BY <1>10, Zenon DEF Excess, InArgs, Recover
  <2>2. f.at = "recover"
    OBVIOUS
  <2>. HIDE DEF f
  <2>3. Return \in Seq(Frame(macroDefs)) /\ expansions' = Append(Return, f)
    BY <1>1, <2>1, Calls DEF At, Continue
  <2>4. expansions' # <<>> /\ Last(expansions') = f
    BY <2>3, AnyAppended
  <2>. QED  BY <1>1, <2>2, <2>4 DEF At, call
<1>11. CASE SkipExcess
  <2>1. At("recover")
    BY <1>11, Zenon DEF SkipExcess
  <2>. QED  BY <1>1, <2>1
<1>12. CASE CloseCall
  BY <1>1, <1>2, <1>12, PlainCallFits, FirstScanFits
<1>13. CASE PrescanMacro \/ TokenizeMacro
  BY <1>1, <1>2, <1>13, MacroLooks, ObjectFits
<1>14. CASE Toss
  <2>1. At("prescan") /\ call.tossing
    BY <1>14 DEF Toss, Prescanning
  <2>2. Depth(expansions) = Len(expansions) /\ Len(expansions) \in Nat \ {0} /\ call = expansions[Len(expansions)]
    BY <1>1, <2>1, Calls DEF At, Depth
  <2>3. Depth(expansions) \in 1 .. Depth(expansions)
    BY <2>2
  <2>4. ScanFits(macroDefs, SourceText, expansions, w, Depth(expansions))
    BY <2>3, MeantFits
  <2>. QED  BY <2>1, <2>2, <2>4 DEF ScanFits
<1>15. CASE EndPrescan
  BY <1>2, <1>15, NextScanFits, LastScanFits
<1>16. CASE readCPPline \/ CPPundef
  BY <1>1, <1>16, NothingDirects
<1>17. CASE TokenizeEnd
  <2>1. Ready /\ token = EndOfInput /\ expansions' = expansions /\ inputStack' = Rest /\ currentPos' = Moved /\ output' = output
    BY <1>17 DEF TokenizeEnd, Tokenizing, Taken
  <2>2. inputStack = <<>>
    BY <1>1, <2>1, ScannedHolds, TokenKinds
  <2>3. inputStack' = inputStack /\ currentPos' = currentPos
    BY <2>1, <2>2 DEF Rest, Moved
  <2>4. Fits(expansions', inputStack', currentPos', w, g)
    BY <2>1, <2>3 DEF Meant
  <2>. QED  BY <1>2, <2>1, <2>4
<1>. QED  BY <1>3, <1>4, <1>5, <1>6, <1>7, <1>8, <1>9, <1>10, <1>11, <1>12, <1>13, <1>14, <1>15, <1>16, <1>17, Zenon DEF Next

LEMMA NextSpecInv == SpecInv /\ [Next]_vars => SpecInv'
<1>1. ASSUME SpecInv, Next PROVE SpecInv'
  <2>1. IInv /\ SourceInv /\ OverInv /\ SoundInv
    BY <1>1 DEF SpecInv
  <2>2. IInv' /\ SourceInv' /\ OverInv'
    BY <1>1, <2>1, NextIInv, NextSource, NextOver
  <2>3. UNCHANGED <<source, macroDefs>>
    BY <1>1, Flags
  <2>4. ASSUME Sound', NoLines' PROVE \E v \in Text, h \in Text : (Collected(v) /\ Fits(expansions, inputStack, currentPos, v, h))'
    <3>1. NoLines
      BY <2>3, <2>4 DEF NoLines
    <3>2. Sound
      BY <1>1, <2>1, <2>4, <3>1, SoundBefore
    <3>3. PICK w \in Text, g \in Text : Collected(w) /\ Fits(expansions, inputStack, currentPos, w, g)
      BY <2>1, <3>1, <3>2 DEF SoundInv
    <3>4. Meant(w, g)
      BY <2>1, <3>1, <3>2, <3>3 DEF Meant
    <3>5. PICK v \in Text, h \in Text : Collected(v)' /\ Fits(expansions', inputStack', currentPos', v, h)
      BY <1>1, <2>4, <3>4, StepFits
    <3>. QED  BY <2>3, <3>5, FitsThen
  <2>5. SoundInv'
    BY <2>4 DEF SoundInv
  <2>. QED  BY <2>2, <2>5 DEF SpecInv
<1>2. ASSUME SpecInv, UNCHANGED vars PROVE SpecInv'
  <2>1. IInv'
    BY <1>2, NextIInv DEF SpecInv
  <2>2. /\ UNCHANGED <<source, macroDefs, undef, currentPos, inputStack, expansions, output, errors, over, recursed>>
        /\ SourceInv /\ OverInv /\ SoundInv
    BY <1>2 DEF SpecInv, vars, macroVars
  <2>3. NoLines' = NoLines /\ Sound' = Sound /\ (\A place : At(place)' = At(place)) /\ \A v : Collected(v)' = Collected(v)
    BY <2>2 DEF NoLines, Sound, At, call, Collected
  <2>4. SourceInv' /\ OverInv'
    BY <2>2, <2>3 DEF SourceInv, OverInv
  <2>5. SoundInv'
    <3>1. ASSUME Sound', NoLines' PROVE \E v \in Text, h \in Text : (Collected(v) /\ Fits(expansions, inputStack, currentPos, v, h))'
      <4>1. PICK w \in Text, g \in Text : Collected(w) /\ Fits(expansions, inputStack, currentPos, w, g)
        BY <2>2, <2>3, <3>1 DEF SoundInv
      <4>2. Fits(expansions', inputStack', currentPos', w, g)
        BY <2>2, <4>1
      <4>. QED  BY <2>2, <2>3, <4>1, <4>2, FitsThen
    <3>. QED  BY <3>1 DEF SoundInv
  <2>. QED  BY <2>1, <2>4, <2>5 DEF SpecInv
<1>. QED  BY <1>1, <1>2

-----------------------------------------------------------------------------
\* The beginning, and the end

SourceTokens == [i \in DOMAIN source |-> Token(source[i], {})]

LEMMA Begin ==
    ASSUME Init
    PROVE  /\ IInv /\ TypeInv /\ IsTable(macroDefs) /\ currentPos \in Positions(macroDefs)
           /\ SourceTokens \in Seq(SourceToken) /\ inputStack \in Seq(Input(macroDefs))
           /\ Len(inputStack) = 1 /\ inputStack[1].kind # "macro" /\ inputStack[1].rest = SourceTokens
           /\ undef = {} /\ expansions = <<>> /\ output = <<>> /\ ~errors /\ ~over /\ ~recursed
<1>1. IInv /\ TypeInv /\ IsTable(macroDefs)
  BY InitIInv, TextTypes DEF IInv
<1>2. /\ macroDefs \in Tables /\ source \in Sources /\ inputStack = <<Tokens(SourceTokens)>>
      /\ undef = {} /\ expansions = <<>> /\ output = <<>> /\ ~errors /\ ~over /\ ~recursed
  BY DEF Init, SourceTokens
<1>3. SourceTokens \in Seq(SourceToken)
  <2>. DEFINE A == STRING \ {"marker", "end of input"}
  <2>1. source \in Seq(A)
    BY <1>2, MacroAssumption DEF MacroAssumption
  <2>2. \A a \in A : Token(a, {}) \in SourceToken
    BY DEF Token, SourceToken
  <2>3. Len(source) \in Nat /\ DOMAIN source = 1 .. Len(source) /\ \A i \in 1 .. Len(source) : source[i] \in A
    BY <2>1, LenProperties
  <2>. HIDE DEF A
  <2>4. SourceTokens = [i \in 1 .. Len(source) |-> Token(source[i], {})]
    BY <2>3 DEF SourceTokens
  <2>5. SourceTokens \in [1 .. Len(source) -> SourceToken]
    BY <2>2, <2>3, <2>4
  <2>. QED  BY <2>3, <2>5
<1>4. Len(inputStack) = 1 /\ inputStack[1].kind # "macro" /\ inputStack[1].rest = SourceTokens
  <2>1. Tokens(SourceTokens).kind = "tokens" /\ Tokens(SourceTokens).rest = SourceTokens
    BY DEF Tokens
  <2>. QED  BY <1>2, <2>1
<1>. QED  BY <1>1, <1>2, <1>3, <1>4, TextTypes

LEMMA BeginFits ==
    ASSUME Init
    PROVE  Fits(expansions, inputStack, currentPos, <<>>, <<>>)
<1>. DEFINE s == inputStack
            x == Ahead(macroDefs, s, currentPos)
<1>1. /\ IInv /\ TypeInv /\ IsTable(macroDefs) /\ currentPos \in Positions(macroDefs)
      /\ SourceTokens \in Seq(SourceToken) /\ s \in Seq(Input(macroDefs))
      /\ Len(s) = 1 /\ s[1].kind # "macro" /\ s[1].rest = SourceTokens /\ expansions = <<>>
  BY Begin
<1>2. Depth(expansions) = 0 /\ ~Looks(expansions) /\ OpenText(expansions, <<>>) = <<>>
  BY <1>1 DEF Depth, Looks, OpenText
<1>3. <<>> \in Text /\ SourceText \in Text /\ SourceText = Unbroken(SourceTokens)
  BY <1>1, SourceTexts, TokenTexts DEF SourceText, SourceTokens
<1>4. ~Live(s[1])
  <2>1. SourceTokens # <<Marker>>
    <3>1. SUFFICES ASSUME SourceTokens = <<Marker>> PROVE FALSE
      OBVIOUS
    <3>2. SourceTokens[1] \in SourceToken /\ SourceTokens[1] = Marker
      <4>1. Len(SourceTokens) = 1 /\ SourceTokens[1] = Marker
        BY <3>1
      <4>2. 1 \in 1 .. Len(SourceTokens) /\ SourceTokens \in Seq(SourceToken)
        BY <1>1, <4>1
      <4>. HIDE DEF SourceTokens
      <4>. QED  BY <4>1, <4>2, ElementOfSeq
    <3>. QED  BY <3>2, TokenSets
  <2>. QED  BY <1>1, <2>1 DEF Live
<1>5. x[1] = SourceText
  <2>. HIDE DEF s
  <2>1. /\ x \in [0 .. Len(s) -> Text] /\ x[0] = <<>>
        /\ \A i \in 1 .. Len(s) : x[i] = IF Live(s[i]) THEN <<>> ELSE InputText(macroDefs, s[i], currentPos) ++ x[i - 1]
    BY <1>1, AheadHolds
  <2>. HIDE DEF x
  <2>2. x[1] = InputText(macroDefs, s[1], currentPos) ++ x[1 - 1] /\ 1 - 1 = 0
    BY <1>1, <1>4, <2>1
  <2>3. InputText(macroDefs, s[1], currentPos) = SourceText
    BY <1>1, <1>3 DEF InputText
  <2>. HIDE DEF SourceText
  <2>4. x[1] = SourceText ++ <<>>
    BY <2>1, <2>2, <2>3
  <2>. QED  BY <1>3, <2>4, Joins
<1>6. Hides(s)
  <2>1. TokensUnder(s, 0, s[1].rest)
    BY DEF TokensUnder, Under
  <2>2. \A j \in 1 .. Len(s) : j = 1 /\ j - 1 = 0
    BY <1>1
  <2>3. HidesAt(s, 1)
    BY <1>1, <2>1 DEF HidesAt
  <2>. QED  BY <2>2, <2>3 DEF Hides
<1>7. TextFits(expansions, s, currentPos, <<>>, <<>>)
  <2>1. Expansion(macroDefs)[SourceText] \in Text /\ <<>> ++ SourceText = SourceText
    BY <1>1, <1>3, ExpandsText, Joins
  <2>2. <<>> ++ Expansion(macroDefs)[SourceText] = Expansion(macroDefs)[SourceText]
    <3>. DEFINE e == Expansion(macroDefs)[SourceText]
    <3>1. e \in Text
      BY <2>1
    <3>. HIDE DEF e
    <3>2. <<>> ++ e = e
      BY <1>3, <3>1, Joins
    <3>. QED  BY <3>2 DEF e
  <2>. HIDE DEF SourceText
  <2>3. Done(expansions, <<>>, Depth(expansions)) = <<>> /\ Aim(macroDefs, SourceText, expansions, Depth(expansions)) = Expansion(macroDefs)[SourceText]
    BY <1>2 DEF Done, Aim
  <2>4. Ahead(macroDefs, s, currentPos)[Len(s)] = SourceText
    BY <1>1, <1>5
  <2>. QED  BY <1>2, <2>1, <2>2, <2>3, <2>4 DEF TextFits
<1>. QED  BY <1>2, <1>3, <1>6, <1>7 DEF Fits, InputsFit, OpenFits

LEMMA InitSpecInv == Init => SpecInv
<1>. SUFFICES ASSUME Init PROVE SpecInv
  OBVIOUS
<1>1. /\ IInv /\ undef = {} /\ expansions = <<>> /\ output = <<>> /\ ~over
      /\ SourceTokens \in Seq(SourceToken) /\ inputStack[1].rest = SourceTokens
  BY Begin
<1>2. SourceInv
  <2>1. ASSUME NoLines PROVE NoDirective(inputStack)
    <3>1. DOMAIN SourceTokens = DOMAIN source /\ DOMAIN SourceTokens = 1 .. Len(SourceTokens)
      BY <1>1, LenProperties DEF SourceTokens
    <3>2. ASSUME NEW q \in 1 .. Len(SourceTokens) PROVE ~Directs(SourceTokens[q])
      <4>1. q \in DOMAIN source
        BY <3>1
      <4>2. SourceTokens[q].atom = source[q]
        BY <4>1 DEF SourceTokens, Token
      <4>. QED  BY <2>1, <4>1, <4>2, Zenon DEF NoLines, Directs
    <3>. QED  BY <1>1, <3>2 DEF NoDirective
  <2>. QED  BY <1>1, <2>1 DEF SourceInv, At
<1>3. OverInv
  BY <1>1 DEF OverInv
<1>4. SoundInv
  <2>1. Collected(<<>>)
    BY <1>1 DEF Collected
  <2>2. <<>> \in Text
    BY TokenTexts
  <2>. QED  BY <2>1, <2>2, BeginFits DEF SoundInv
<1>. QED  BY <1>1, <1>2, <1>3, <1>4 DEF SpecInv

LEMMA DefinedAtEnd == SpecInv => ExpandsAsDefined
<1>. SUFFICES ASSUME SpecInv, over, ~errors, ~recursed, \A i \in DOMAIN source : source[i] # "#"
              PROVE  output = Meaning(macroDefs, source)
  BY Zenon DEF ExpandsAsDefined
<1>1. NoLines
  BY Zenon DEF NoLines
<1>2. IInv /\ SoundInv /\ inputStack = <<>> /\ expansions = <<>>
  BY DEF SpecInv, OverInv
<1>3. IsTable(macroDefs) /\ currentPos \in Positions(macroDefs) /\ inputStack \in Seq(Input(macroDefs))
  BY <1>2, TextTypes DEF IInv
<1>4. Sound
  BY <1>2 DEF Sound, At
<1>5. PICK w \in Text, g \in Text : Collected(w) /\ Fits(expansions, inputStack, currentPos, w, g)
  BY <1>1, <1>2, <1>4 DEF SoundInv
<1>6. w = Expansion(macroDefs)[SourceText]
  <2>1. TextFits(expansions, inputStack, currentPos, w, g)
    BY <1>5 DEF Fits
  <2>2. Depth(expansions) = 0 /\ OpenText(expansions, g) = <<>> /\ Len(inputStack) = 0
    BY <1>2 DEF Depth, OpenText, Looks
  <2>3. Ahead(macroDefs, inputStack, currentPos)[0] = <<>>
    BY <1>3, AheadHolds
  <2>4. <<>> \in Text /\ Expansion(macroDefs)[<<>>] = <<>>
    BY <1>3, ExpandsText
  <2>5. <<>> ++ <<>> = <<>> /\ w ++ <<>> = w
    BY <1>5, <2>4, Joins
  <2>. HIDE DEF SourceText
  <2>6. Done(expansions, w, 0) = w /\ Aim(macroDefs, SourceText, expansions, 0) = Expansion(macroDefs)[SourceText]
    BY DEF Done, Aim
  <2>. QED  BY <2>1, <2>2, <2>3, <2>4, <2>5, <2>6 DEF TextFits
<1>7. SourceText = Unbroken([i \in DOMAIN source |-> [atom |-> source[i], hide |-> {}]])
  BY DEF SourceText, Token
<1>8. output = [i \in DOMAIN w |-> w[i].atom]
  BY <1>5 DEF Collected
<1>. HIDE DEF SourceText
<1>. QED  BY <1>6, <1>7, <1>8, Zenon DEF Meaning

(* What comes out is what C defines, for every table and every source      *)
(* without an error and without a macro expanded within itself: one busy   *)
(* bit for each macro is as good as a set of hidden names on each token    *)
(* (Pp.cpp:1163, 1195).                                                    *)
THEOREM ExpandsAsDefinedHolds == Spec => []ExpandsAsDefined
<1>1. Init => SpecInv
  BY InitSpecInv
<1>2. SpecInv /\ [Next]_vars => SpecInv'
  BY NextSpecInv
<1>3. SpecInv => ExpandsAsDefined
  BY DefinedAtEnd
<1>. QED  BY <1>1, <1>2, <1>3, PTL DEF Spec
=============================================================================
