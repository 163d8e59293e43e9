--------------------------- MODULE PpMacrosProofs ---------------------------
(***************************************************************************)
(* Theorems about PpMacros, for any macros and any source: a macro is busy *)
(* exactly while its one input is on the stack, and the expansion of an    *)
(* argument stays above its marker until an error gets in its way.         *)
(***************************************************************************)
EXTENDS PpMacros, FiniteSetTheorems, SequenceTheorems, TLAPS

PlainToken  == [atom : STRING \ Reserved, hide : SUBSET STRING]
SourceToken == [atom : STRING \ {"marker", "end of input"}, hide : SUBSET STRING]
Arguments   == Seq(Seq(PlainToken))

(* Inputs and calls name macros of the table, with as many arguments.       *)
TokenInput  == [kind : {"tokens", "marker"}, rest : Seq(SourceToken) \cup {<<Marker>>}]
MacroInput(table) ==
    {in \in [kind : {"macro"}, mac : STRING, args : Arguments, hide : SUBSET STRING] :
        in.mac \in DOMAIN table /\ Len(in.args) = Len(table[in.mac].args)}
Input(table) == TokenInput \cup MacroInput(table)

Name(table) == {n \in PlainToken : n.atom \in DOMAIN table}
Opening(table)    == [at : {"paren"}, name : Name(table)]
Gathering(table)  == [at : {"args"}, name : Name(table), args : Arguments \ {<<>>}, nest : Int, recorded : BOOLEAN]
Recovering(table) == [at : {"recover"}, name : Name(table), args : Arguments \ {<<>>}, depth : Int]
Scan(table) ==
    {s \in [at : {"prescan"}, name : Name(table), args : Arguments, hide : SUBSET STRING,
            arg : Nat \ {0}, expanded : Seq(SourceToken), tossing : BOOLEAN,
            outer : Seq(Input(table)), outerPos : [DOMAIN table -> Nat \ {0}]] :
        Len(s.args) = Len(table[s.name.atom].args) /\ s.arg <= Len(s.args)}
Frame(table) == [at : {"undef"}] \cup Opening(table) \cup Gathering(table) \cup Recovering(table) \cup Scan(table)

\* All calls but the last are scans of an argument.
Nested(calls, table) ==
    /\ calls \in Seq(Frame(table))
    /\ \A k \in 1 .. Len(calls) : k < Len(calls) => calls[k].at = "prescan"
    /\ \A k \in 1 .. Len(calls) : calls[k].at = "undef" => Len(calls) = 1

TypeInv ==
    /\ macroDefs \in Tables
    /\ busy \in SUBSET DOMAIN macroDefs
    /\ currentPos \in [DOMAIN macroDefs -> Nat \ {0}]
    /\ inputStack \in Seq(Input(macroDefs))
    /\ Nested(expansions, macroDefs)
    /\ newLine \in BOOLEAN /\ errors \in BOOLEAN

-----------------------------------------------------------------------------
\* What scanToken finds and leaves

Live(input) == input.kind # "macro" /\ input.rest = <<Marker>>

LEMMA Macros ==
    ASSUME TypeInv, NEW m \in DOMAIN macroDefs
    PROVE  /\ m \in STRING \ Reserved /\ macroDefs[m].functionLike \in BOOLEAN
           /\ macroDefs[m].args \in Seq(STRING) /\ macroDefs[m].body \in Seq(STRING \ Reserved)
           /\ ~macroDefs[m].functionLike => macroDefs[m].args = <<>>
BY MacroAssumption DEF MacroAssumption, TypeInv

LEMMA TokenSets ==
    /\ Marker \notin SourceToken /\ EndOfInput \notin SourceToken /\ Marker # EndOfInput
    /\ PlainToken \subseteq SourceToken /\ <<Marker>> \notin Seq(SourceToken)
    /\ Marker.atom = "marker" /\ EndOfInput.atom = "end of input"
    /\ \A s \in Seq(PlainToken) : s \in Seq(SourceToken)
<1>1. Marker \notin SourceToken /\ EndOfInput \notin SourceToken /\ Marker # EndOfInput /\ PlainToken \subseteq SourceToken
      /\ Marker.atom = "marker" /\ EndOfInput.atom = "end of input"
  BY DEF Marker, EndOfInput, Token, SourceToken, PlainToken, Reserved
<1>2. ASSUME <<Marker>> \in Seq(SourceToken) PROVE FALSE
  <2>1. Len(<<Marker>>) = 1 /\ <<Marker>>[1] = Marker
    OBVIOUS
  <2>2. <<Marker>>[1] \in SourceToken
    BY <1>2, <2>1
  <2>. QED  BY <1>1, <2>1, <2>2
<1>3. ASSUME NEW s \in Seq(PlainToken) PROVE s \in Seq(SourceToken)
  BY <1>1, SeqMonotonic, Zenon
<1>. QED  BY <1>1, <1>2, <1>3

LEMMA Popped ==
    ASSUME NEW S, NEW s \in Seq(S), s # <<>>
    PROVE  /\ Front(s) \in Seq(S) /\ Len(Front(s)) = Len(s) - 1 /\ Len(s) \in Nat \ {0}
           /\ \A i \in 1 .. Len(s) - 1 : Front(s)[i] = s[i]
<1>. DEFINE n == Len(s) - 1
<1>1. Len(s) \in Nat \ {0} /\ n \in Int /\ n >= 0 /\ 1 \in Int
  OBVIOUS
<1>2. \A i \in 1 .. n : s[i] \in S
  OBVIOUS
<1>3. /\ SubSeq(s, 1, n) \in Seq(S)
      /\ Len(SubSeq(s, 1, n)) = IF 1 <= n THEN n - 1 + 1 ELSE 0
      /\ \A i \in 1 .. n - 1 + 1 : SubSeq(s, 1, n)[i] = s[1 + i - 1]
  <2>. HIDE DEF n
  <2>. QED  BY <1>1, <1>2, SubSeqProperties
<1>4. Front(s) = SubSeq(s, 1, n)
  BY Zenon DEF Front
<1>5. ASSUME NEW i \in 1 .. n PROVE SubSeq(s, 1, n)[i] = s[i]
  <2>. HIDE DEF n
  <2>. QED  BY <1>1, <1>3
<1>. HIDE DEF n
<1>6. Len(SubSeq(s, 1, n)) = n
  BY <1>1, <1>3
<1>. QED  BY <1>1, <1>3, <1>4, <1>5, <1>6 DEF n

LEMMA Replaced ==
    ASSUME NEW S, NEW s \in Seq(S), s # <<>>, NEW x \in S
    PROVE  LET r == Append(Front(s), x) IN
           /\ r \in Seq(S) /\ Len(r) = Len(s) /\ r[Len(s)] = x /\ r # <<>>
           /\ \A i \in 1 .. Len(s) : i < Len(s) => r[i] = s[i]
<1>1. /\ Front(s) \in Seq(S) /\ Len(Front(s)) = Len(s) - 1 /\ Len(s) \in Nat \ {0}
      /\ \A i \in 1 .. Len(s) - 1 : Front(s)[i] = s[i]
  BY Popped
<1>2. \A i \in 1 .. Len(s) : i < Len(s) => i \in 1 .. Len(s) - 1
  BY <1>1
<1>. QED  BY <1>1, <1>2

LEMMA Appended ==
    ASSUME NEW S, NEW s \in Seq(S), NEW x \in S
    PROVE  LET r == Append(s, x) IN
           /\ r \in Seq(S) /\ Len(r) = Len(s) + 1 /\ r[Len(s) + 1] = x /\ r # <<>> /\ Len(s) \in Nat
           /\ \A i \in 1 .. Len(s) : r[i] = s[i]
OBVIOUS

(* The token comes from the top input, which it leaves without a marker;    *)
(* the inputs below it are as they were.                                    *)
Scanned ==
    /\ Rest \in Seq(Input(macroDefs)) /\ Len(Rest) = Len(inputStack)
    /\ Moved \in [DOMAIN macroDefs -> Nat \ {0}]
    /\ \A i \in 1 .. Len(inputStack) : i < Len(inputStack) => Rest[i] = inputStack[i]
    /\ inputStack = <<>> => token = EndOfInput
    /\ inputStack # <<>> => top \in Input(macroDefs) /\ top = inputStack[Len(inputStack)]
    /\ inputStack # <<>> /\ top.kind = "macro" =>
         /\ Rest = inputStack /\ token \in PlainToken
         /\ \A m \in DOMAIN macroDefs : m # top.mac => Moved[m] = currentPos[m]
    /\ inputStack # <<>> /\ top.kind # "macro" =>
         /\ Moved = currentPos
         /\ Rest[Len(inputStack)] \in TokenInput /\ ~Live(Rest[Len(inputStack)])
         /\ Rest[Len(inputStack)].kind = top.kind
         /\ IF Live(top) THEN token = Marker /\ Rest[Len(inputStack)].rest = <<>> ELSE token \in SourceToken
         /\ top.rest \in Seq(PlainToken) => Rest[Len(inputStack)].rest \in Seq(PlainToken) /\ token \in PlainToken

LEMMA ScannedHolds ==
    ASSUME TypeInv, Ready
    PROVE  Scanned
<1>1. CASE inputStack = <<>>
  BY <1>1 DEF Scanned, Rest, token, Moved, TypeInv
<1>2. ASSUME inputStack # <<>> PROVE Scanned
  <2>. DEFINE n == Len(inputStack)
  <2>1. n \in Nat \ {0} /\ top = inputStack[n] /\ top \in Input(macroDefs) /\ ~AtEnd /\ Parameter = 0 /\ Last(inputStack) = top
        /\ inputStack \in Seq(Input(macroDefs))
    BY <1>2 DEF TypeInv, top, Last, Ready
  <2>2. ASSUME top.kind = "macro" PROVE Scanned
    <3>1. /\ top.mac \in DOMAIN macroDefs /\ top \in MacroInput(macroDefs)
          /\ currentPos[top.mac] \in Nat \ {0} /\ currentPos \in [DOMAIN macroDefs -> Nat \ {0}]
      BY <2>1, <2>2 DEF TypeInv, Input, TokenInput, MacroInput
    <3>2. body \in Seq(STRING \ Reserved) /\ currentPos[top.mac] <= Len(body)
      BY <2>1, <2>2, <3>1, Macros DEF AtEnd, body
    <3>3. body[currentPos[top.mac]] \in STRING \ Reserved
      BY <3>1, <3>2
    <3>4. token \in PlainToken
      BY <1>2, <2>2, <3>1, <3>3 DEF token, Token, PlainToken, MacroInput
    <3>5. Rest = inputStack /\ Moved = [currentPos EXCEPT ![top.mac] = @ + 1]
      BY <1>2, <2>2 DEF Rest, Moved
    <3>6. Moved \in [DOMAIN macroDefs -> Nat \ {0}] /\ \A m \in DOMAIN macroDefs : m # top.mac => Moved[m] = currentPos[m]
      BY <3>1, <3>5
    <3>. QED  BY <1>2, <2>1, <2>2, <3>4, <3>5, <3>6, Zenon DEF Scanned
  <2>3. ASSUME top.kind # "macro" PROVE Scanned
    <3>1. top \in TokenInput /\ top.rest # <<>>
      BY <2>1, <2>3 DEF Input, MacroInput, AtEnd
    <3>2. Moved = currentPos /\ token = Head(top.rest) /\ Rest = Append(Front(inputStack), [top EXCEPT !.rest = Tail(@)])
      BY <1>2, <2>3 DEF Moved, token, Rest
    <3>. DEFINE left == [top EXCEPT !.rest = Tail(@)]
    <3>3. left \in TokenInput /\ ~Live(left) /\ left.kind = top.kind /\ left.rest = Tail(top.rest)
      <4>1. CASE top.rest = <<Marker>>
        <5>1. Tail(top.rest) = <<>> /\ <<>> \in Seq(SourceToken) /\ <<>> # <<Marker>>
          BY <4>1
        <5>. QED  BY <3>1, <5>1 DEF TokenInput, Live
      <4>2. CASE top.rest \in Seq(SourceToken)
        <5>1. Tail(top.rest) \in Seq(SourceToken)
          BY <3>1, <4>2, HeadTailProperties
        <5>2. Tail(top.rest) # <<Marker>>
          BY <5>1, TokenSets
        <5>. QED  BY <3>1, <5>1, <5>2 DEF TokenInput, Live
      <4>. QED  BY <3>1, <4>1, <4>2 DEF TokenInput
    <3>4. IF Live(top) THEN token = Marker /\ left.rest = <<>> ELSE token \in SourceToken
      <4>1. CASE top.rest = <<Marker>>
        <5>1. Head(top.rest) = Marker /\ Tail(top.rest) = <<>>
          BY <4>1
        <5>. QED  BY <2>3, <3>2, <3>3, <4>1, <5>1 DEF Live
      <4>2. CASE top.rest \in Seq(SourceToken)
        <5>1. Head(top.rest) \in SourceToken /\ top.rest # <<Marker>>
          BY <3>1, <4>2, HeadTailProperties, TokenSets
        <5>. QED  BY <3>2, <5>1 DEF Live
      <4>. QED  BY <3>1, <4>1, <4>2 DEF TokenInput
    <3>5. top.rest \in Seq(PlainToken) => left.rest \in Seq(PlainToken) /\ token \in PlainToken
      BY <3>1, <3>2, <3>3
    <3>6. left \in Input(macroDefs)
      BY <3>3 DEF Input
    <3>. HIDE DEF left
    <3>7. Rest \in Seq(Input(macroDefs)) /\ Len(Rest) = n /\ Rest[n] = left /\ \A i \in 1 .. n : i < n => Rest[i] = inputStack[i]
      <4>1. Rest = Append(Front(inputStack), left)
        BY <3>2 DEF left
      <4>. QED  BY <1>2, <2>1, <3>6, <4>1, Replaced
    <3>8. currentPos \in [DOMAIN macroDefs -> Nat \ {0}]
      BY DEF TypeInv
    <3>. QED  BY <1>2, <2>1, <2>3, <3>2, <3>3, <3>4, <3>5, <3>7, <3>8, Zenon DEF Scanned
  <2>. QED  BY <2>2, <2>3
<1>. QED  BY <1>1, <1>2

(* scanArgument reads a parameter of the macro on top.                      *)
ArgumentScanned ==
    /\ top.kind = "macro" /\ top \in MacroInput(macroDefs) /\ top = inputStack[Len(inputStack)]
    /\ Moved \in [DOMAIN macroDefs -> Nat \ {0}]
    /\ \A m \in DOMAIN macroDefs : m # top.mac => Moved[m] = currentPos[m]
    /\ Tokens(Within(top.args[Parameter], top.hide)) \in [kind : {"tokens"}, rest : Seq(PlainToken)]

LEMMA ArgumentScannedHolds ==
    ASSUME TypeInv, inputStack # <<>>, ~AtEnd, Parameter # 0
    PROVE  ArgumentScanned
<1>1. top = inputStack[Len(inputStack)] /\ top \in Input(macroDefs) /\ top.kind = "macro"
  BY DEF TypeInv, top, Last, Parameter
<1>2. top \in MacroInput(macroDefs) /\ top.mac \in DOMAIN macroDefs /\ currentPos \in [DOMAIN macroDefs -> Nat \ {0}]
      /\ top.args \in Arguments /\ Len(top.args) = Len(macroDefs[top.mac].args) /\ top.hide \in SUBSET STRING
  BY <1>1 DEF TypeInv, Input, TokenInput, MacroInput
<1>3. Moved = [currentPos EXCEPT ![top.mac] = @ + 1]
  BY <1>1 DEF Moved
<1>4. Parameter \in DOMAIN macroDefs[top.mac].args
  BY <1>1, Zenon DEF Parameter
<1>5. macroDefs[top.mac].args \in Seq(STRING)
  BY <1>2, Macros
<1>6. top.args[Parameter] \in Seq(PlainToken)
  BY <1>2, <1>4, <1>5 DEF Arguments
<1>7. ASSUME NEW s \in Seq(PlainToken), NEW h \in SUBSET STRING PROVE Within(s, h) \in Seq(PlainToken)
  <2>1. DOMAIN s = 1 .. Len(s) /\ Len(s) \in Nat
    OBVIOUS
  <2>2. \A i \in 1 .. Len(s) : [s[i] EXCEPT !.hide = @ \cup h] \in PlainToken
    <3>. TAKE i \in 1 .. Len(s)
    <3>1. s[i] \in PlainToken
      OBVIOUS
    <3>. QED  BY <3>1 DEF PlainToken
  <2>. QED  BY <2>1, <2>2 DEF Within
<1>8. Within(top.args[Parameter], top.hide) \in Seq(PlainToken)
  BY <1>2, <1>6, <1>7
<1>. QED  BY <1>1, <1>2, <1>3, <1>8 DEF ArgumentScanned, Tokens

-----------------------------------------------------------------------------
\* The calls under way

\* how many of the calls es are scans of an argument
Depth(es) == IF es = <<>> THEN 0 ELSE IF es[Len(es)].at = "prescan" THEN Len(es) ELSE Len(es) - 1

LEMMA Calls ==
    ASSUME TypeInv, expansions # <<>>
    PROVE  /\ Len(expansions) \in Nat \ {0} /\ call = expansions[Len(expansions)] /\ call \in Frame(macroDefs)
           /\ Return \in Seq(Frame(macroDefs)) /\ Len(Return) = Len(expansions) - 1
           /\ \A k \in 1 .. Len(expansions) : k < Len(expansions) => Return[k] = expansions[k] /\ Return[k] \in Scan(macroDefs)
           /\ Nested(Return, macroDefs) /\ Depth(Return) = Len(Return)
<1>1. Len(expansions) \in Nat \ {0} /\ call = expansions[Len(expansions)] /\ call \in Frame(macroDefs)
      /\ expansions \in Seq(Frame(macroDefs))
  BY DEF TypeInv, Nested, call, Last
<1>2. /\ Return \in Seq(Frame(macroDefs)) /\ Len(Return) = Len(expansions) - 1
      /\ \A k \in 1 .. Len(expansions) - 1 : Return[k] = expansions[k]
  BY <1>1, Popped DEF Return
<1>3. \A k \in 1 .. Len(expansions) : k < Len(expansions) => Return[k] = expansions[k] /\ Return[k].at = "prescan"
  BY <1>1, <1>2 DEF TypeInv, Nested
<1>4. \A k \in 1 .. Len(expansions) : k < Len(expansions) => Return[k] \in Scan(macroDefs)
  <2>. TAKE k \in 1 .. Len(expansions)
  <2>. HAVE k < Len(expansions)
  <2>1. Return[k] \in Frame(macroDefs) /\ Return[k].at = "prescan"
    BY <1>1, <1>2, <1>3
  <2>. QED  BY <2>1 DEF Frame, Opening, Gathering, Recovering
<1>5. \A k \in 1 .. Len(Return) : Return[k].at = "prescan"
  BY <1>1, <1>2, <1>3
<1>6. Nested(Return, macroDefs) /\ Depth(Return) = Len(Return)
  BY <1>1, <1>2, <1>5 DEF Nested, Depth
<1>. QED  BY <1>1, <1>2, <1>3, <1>4, <1>6

LEMMA CallKinds ==
    ASSUME TypeInv, expansions # <<>>
    PROVE  /\ At("paren") => call \in Opening(macroDefs)
           /\ At("args") => call \in Gathering(macroDefs)
           /\ At("recover") => call \in Recovering(macroDefs)
           /\ At("prescan") => call \in Scan(macroDefs)
<1>1. call \in Frame(macroDefs)
  BY Calls
<1>. QED  BY <1>1 DEF At, Frame, Opening, Gathering, Recovering, Scan

(* Replacing the last of some calls, and what editing a scan leaves alone.  *)
LEMMA CallReplaced ==
    ASSUME NEW es, NEW table, Nested(es, table), es # <<>>, NEW f \in Frame(table)
    PROVE  LET r == Append(Front(es), f) IN
           /\ (f.at = "undef" => Len(es) = 1) => Nested(r, table)
           /\ Len(r) = Len(es) /\ r[Len(es)] = f /\ Len(es) \in Nat \ {0} /\ r # <<>>
           /\ \A k \in 1 .. Len(es) : k < Len(es) => r[k] = es[k]
<1>. DEFINE r == Append(Front(es), f)
<1>1. /\ es \in Seq(Frame(table)) /\ \A k \in 1 .. Len(es) : k < Len(es) => es[k].at = "prescan"
      /\ \A k \in 1 .. Len(es) : es[k].at = "undef" => Len(es) = 1
  BY DEF Nested
<1>2. /\ r \in Seq(Frame(table)) /\ Len(r) = Len(es) /\ r[Len(es)] = f /\ r # <<>> /\ Len(es) \in Nat \ {0}
      /\ \A k \in 1 .. Len(es) : k < Len(es) => r[k] = es[k]
  BY <1>1, Replaced
<1>. HIDE DEF r
<1>3. (f.at = "undef" => Len(es) = 1) => Nested(r, table)
  BY <1>1, <1>2 DEF Nested
<1>. QED  BY <1>2, <1>3 DEF r

SameScan(f, g) == f.name = g.name /\ f.outer = g.outer /\ f.outerPos = g.outerPos
Plain(f) == f.expanded \in Seq(PlainToken)

LEMMA ScanEdited ==
    ASSUME NEW table, NEW f \in Scan(table)
    PROVE  /\ LET g == [f EXCEPT !.tossing = TRUE] IN
                g \in Scan(table) /\ SameScan(f, g) /\ (Plain(f) => Plain(g))
           /\ \A t \in SourceToken : LET g == [f EXCEPT !.expanded = Append(@, t)] IN
                g \in Scan(table) /\ SameScan(f, g) /\ (Plain(f) /\ t \in PlainToken => Plain(g))
<1>1. f.expanded \in Seq(SourceToken)
  BY DEF Scan
<1>2. \A t \in SourceToken : Append(f.expanded, t) \in Seq(SourceToken) /\ (Plain(f) /\ t \in PlainToken => Append(f.expanded, t) \in Seq(PlainToken))
  BY <1>1 DEF Plain
<1>. QED  BY <1>2 DEF Scan, SameScan, Plain

(* What a step that reads the token t leaves of the scans: all but what     *)
(* they have collected; and the last may have collected a line's end.       *)
SameScans(es, fs, t) ==
    /\ Depth(fs) = Depth(es)
    /\ \A k \in 1 .. Depth(es) :
         /\ SameScan(es[k], fs[k])
         /\ Plain(es[k]) => Plain(fs[k]) \/ (k = Depth(es) /\ t \in SourceToken \ PlainToken)

LEMMA Depths ==
    ASSUME NEW es, NEW table, Nested(es, table)
    PROVE  /\ Depth(es) \in Nat /\ Depth(es) <= Len(es) /\ Len(es) \in Nat
           /\ \A k \in 1 .. Depth(es) : es[k] \in Scan(table) /\ es[k].at = "prescan"
           /\ Depth(es) = Len(es) \/ (Depth(es) = Len(es) - 1 /\ es # <<>> /\ es[Len(es)].at # "prescan")
<1>1. es \in Seq(Frame(table)) /\ \A k \in 1 .. Len(es) : k < Len(es) => es[k].at = "prescan"
  BY DEF Nested
<1>2. /\ Depth(es) \in Nat /\ Depth(es) <= Len(es) /\ Len(es) \in Nat
      /\ Depth(es) = Len(es) \/ (Depth(es) = Len(es) - 1 /\ es # <<>> /\ es[Len(es)].at # "prescan")
      /\ \A k \in 1 .. Depth(es) : es[k].at = "prescan" /\ es[k] \in Frame(table)
  BY <1>1 DEF Depth
<1>3. \A k \in 1 .. Depth(es) : es[k] \in Scan(table)
  BY <1>2 DEF Frame, Opening, Gathering, Recovering
<1>. QED  BY <1>2, <1>3

(* Editing the last of some calls that are all scans.                       *)
LEMMA LastEdited ==
    ASSUME NEW es, NEW table, Nested(es, table), es # <<>>, Depth(es) = Len(es), NEW t,
           NEW g \in Scan(table), SameScan(es[Len(es)], g),
           Plain(es[Len(es)]) => Plain(g) \/ t \in SourceToken \ PlainToken
    PROVE  LET r == Append(Front(es), g) IN
           Nested(r, table) /\ SameScans(es, r, t) /\ Depth(r) = Len(r)
<1>. DEFINE n == Len(es)
            r == Append(Front(es), g)
<1>1. g \in Frame(table) /\ g.at = "prescan" /\ n \in Nat \ {0}
  BY DEF Frame, Scan, Nested
<1>2. /\ Nested(r, table) /\ Len(r) = n /\ r[n] = g /\ r # <<>>
      /\ \A k \in 1 .. n : k < n => r[k] = es[k]
  BY <1>1, CallReplaced
<1>. HIDE DEF r
<1>. QED  BY <1>1, <1>2 DEF SameScans, SameScan, Depth, r

LEMMA Kept ==
    ASSUME NEW es, NEW table, Nested(es, table), Depth(es) = Len(es), NEW t \in SourceToken, Keep(es, t)
    PROVE  Nested(expansions', table) /\ SameScans(es, expansions', t) /\ Depth(expansions') = Len(expansions')
<1>1. CASE es = <<>>
  BY <1>1 DEF Keep, SameScans, SameScan, Depth
<1>2. CASE es # <<>>
  <2>. DEFINE f == es[Len(es)]
  <2>1. Len(es) \in Nat \ {0} /\ Last(es) = f
    BY <1>2 DEF Nested, Last
  <2>2. f \in Scan(table)
    <3>1. Len(es) \in 1 .. Depth(es)
      BY <2>1
    <3>. QED  BY <3>1, Depths
  <2>3. expansions' = Append(Front(es), [f EXCEPT !.expanded = Append(@, t)])
    BY <1>2, <2>1 DEF Keep
  <2>. DEFINE g == [f EXCEPT !.expanded = Append(@, t)]
  <2>4. g \in Scan(table) /\ SameScan(f, g) /\ (Plain(f) /\ t \in PlainToken => Plain(g))
    <3>. HIDE DEF f
    <3>. QED  BY <2>2, ScanEdited
  <2>. HIDE DEF g
  <2>5. expansions' = Append(Front(es), g)
    BY <2>3 DEF g
  <2>. QED  BY <1>2, <2>4, <2>5, LastEdited
<1>. QED  BY <1>1, <1>2

(* Calls that are replaced by, or given, one that is no scan.               *)
LEMMA SameReplaced ==
    ASSUME NEW es, NEW table, Nested(es, table), es # <<>>, Depth(es) = Len(es) - 1, NEW f \in Frame(table), NEW t,
           f.at \notin {"prescan", "undef"}
    PROVE  LET r == Append(Front(es), f) IN
           Nested(r, table) /\ SameScans(es, r, t) /\ r # <<>> /\ r[Len(r)] = f
<1>. DEFINE n == Len(es)
            r == Append(Front(es), f)
<1>1. /\ Nested(r, table) /\ Len(r) = n /\ r[n] = f /\ r # <<>> /\ n \in Nat \ {0}
      /\ \A k \in 1 .. n : k < n => r[k] = es[k]
  BY CallReplaced
<1>. HIDE DEF r
<1>. QED  BY <1>1 DEF SameScans, SameScan, Depth, r

LEMMA SameAppended ==
    ASSUME NEW es, NEW table, Nested(es, table), Depth(es) = Len(es), NEW f \in Frame(table), NEW t,
           f.at # "prescan", f.at = "undef" => es = <<>>
    PROVE  LET r == Append(es, f) IN
           Nested(r, table) /\ SameScans(es, r, t) /\ r # <<>> /\ r[Len(r)] = f
<1>. DEFINE r == Append(es, f)
<1>1. /\ r \in Seq(Frame(table)) /\ Len(r) = Len(es) + 1 /\ r[Len(es) + 1] = f /\ r # <<>> /\ Len(es) \in Nat
      /\ \A k \in 1 .. Len(es) : r[k] = es[k]
  BY Appended DEF Nested
<1>2. /\ \A k \in 1 .. Len(es) : es[k].at = "prescan"
  BY Depths
<1>. HIDE DEF r
<1>3. Nested(r, table)
  BY <1>1, <1>2 DEF Nested
<1>. QED  BY <1>1, <1>3 DEF SameScans, SameScan, Depth, r

LEMMA SameDropped ==
    ASSUME TypeInv, expansions # <<>>, call.at # "prescan", NEW t
    PROVE  SameScans(expansions, Return, t)
BY Calls DEF SameScans, SameScan, Depth
-----------------------------------------------------------------------------
\* The invariant

LiveAbove(s, p) == {i \in 1 .. Len(s) : i > p /\ Live(s[i])}

(* A scan has its macro off the stack when it starts, and one marker of its *)
(* own above that.  So where its macro is on the stack, the markers above   *)
(* are those of later scans; and when the scan is the last and reads a      *)
(* marker, its macro is off the stack again.  A line's end is collected     *)
(* only from the source, with no marker left.                               *)
MacroAt(s, m) == {i \in 1 .. Len(s) : s[i].kind = "macro" /\ s[i].mac = m}
Places(f, s)  == MacroAt(s, f.name.atom) \cup (IF Plain(f) THEN {} ELSE {0})
Marks(es, s) ==
    \A k \in 1 .. Depth(es) :
        \A p \in Places(es[k], s) : Cardinality(LiveAbove(s, p)) <= Depth(es) - k
MarkInv == Marks(expansions, inputStack)

\* A call that looks for its arguments is of no busy macro; a directive begins a line.
OpenInv ==
    /\ expansions # <<>> /\ call.at \in {"paren", "args", "recover"} => call.name.atom \notin busy
    /\ At("undef") => newLine

Sole(b, s) ==
    \A m \in DOMAIN macroDefs : (m \in b <=> MacroAt(s, m) # {}) /\ \A i, j \in MacroAt(s, m) : i = j
BusyInv == Sole(busy, inputStack)

\* Line ends are in the source only, and after one no macro is on the stack.
Lines(s) ==
    \A i \in 1 .. Len(s) :
        i > 1 /\ s[i].kind # "macro" => s[i].rest \in Seq(PlainToken) \/ s[i].rest = <<Marker>>
LineInv ==
    /\ Lines(inputStack)
    /\ newLine => /\ expansions = <<>> \/ At("undef")
                  /\ Len(inputStack) <= 1 /\ \A i \in 1 .. Len(inputStack) : inputStack[i].kind # "macro"

(* Each scan's marker is above the inputs it started on and at or below     *)
(* those that the next one started on.                                      *)
Untroubled == ~errors /\ ~At("recover")
Ceiling(es, s, k) == IF k < Depth(es) THEN Len(es[k + 1].outer) ELSE Len(s)
Unchanged(f, s, pos) ==
    \A i \in 1 .. Len(f.outer) :
        s[i] = f.outer[i] /\ (f.outer[i].kind = "macro" => pos[f.outer[i].mac] = f.outerPos[f.outer[i].mac])
Inside(es, s, pos) ==
    \A k \in 1 .. Depth(es) :
        /\ Ceiling(es, s, k) <= Len(s) /\ Unchanged(es[k], s, pos)
        /\ \E p \in 1 .. Ceiling(es, s, k) : p > Len(es[k].outer) /\ Live(s[p])
InsideInv == Untroubled => Inside(expansions, inputStack, currentPos)

IInv == TypeInv /\ MarkInv /\ OpenInv /\ BusyInv /\ LineInv /\ InsideInv


-----------------------------------------------------------------------------
\* Every step is one of these

(* A token is read, and the calls start, end or collect, but no macro is    *)
(* expanded and no argument is begun.                                       *)
Untouched(s) ==
    /\ Ready /\ inputStack' = s /\ currentPos' = Moved /\ busy' = busy
    /\ SameScans(expansions, expansions', token)

Reading ==
    /\ Untouched(Rest)
    /\ Untroubled' => Untroubled /\ (Depth(expansions) = 0 \/ token # Marker)

PuttingBack ==
    /\ Untouched(Append(Rest, Tokens(<<token>>)))
    /\ inputStack # <<>> /\ (token \in PlainToken \/ token = Marker)
    /\ Untroubled' => Untroubled

\* A macro that is not busy is expanded, its input above s.
Pushing(s, name, args, hide) ==
    /\ inputStack' = Append(s, tMacroInput(name.atom, args, hide))
    /\ tMacroInput(name.atom, args, hide) \in MacroInput(macroDefs)
    /\ busy' = busy \cup {name.atom}
    /\ currentPos' = [Moved EXCEPT ![name.atom] = 1]
    /\ Untroubled' => Untroubled

Expanding ==
    /\ Ready
    /\ \E name \in Name(macroDefs), args \in Arguments, hide \in SUBSET STRING :
         /\ name.atom \notin busy
         /\ token \in PlainToken
         /\ Pushing(Rest, name, args, hide)
    /\ SameScans(expansions, expansions', token)

\* An argument is begun, by a call that has gathered it or after another one.
Beginning(name) ==
    /\ \E arg \in Seq(PlainToken) : inputStack' = Rest \o <<tMarkerInput, Tokens(arg)>>
    /\ currentPos' = Moved /\ busy' = busy
    /\ expansions' # <<>> /\ expansions'[Len(expansions')].at = "prescan"
    /\ LET f == expansions'[Len(expansions')] IN
       f.name = name /\ f.outer = Rest /\ f.outerPos = Moved /\ Plain(f)
    /\ Untroubled' => Untroubled

FirstScan ==
    /\ Ready /\ expansions # <<>> /\ token \in PlainToken
    /\ call.name.atom \notin busy /\ call \in Gathering(macroDefs) \cup Recovering(macroDefs)
    /\ Beginning(call.name)
    /\ Len(expansions') = Len(expansions)
    /\ \A k \in 1 .. Len(expansions) - 1 : expansions'[k] = expansions[k]

ScanEnds == Ready /\ At("prescan") /\ (inputStack = <<>> \/ token = Marker)

NextScan ==
    /\ ScanEnds /\ Beginning(call.name)
    /\ Len(expansions') = Len(expansions)
    /\ \A k \in 1 .. Len(expansions) - 1 : expansions'[k] = expansions[k]

LastScan ==
    /\ ScanEnds /\ expansions' = Return
    /\ \E args \in Arguments, hide \in SUBSET STRING : Pushing(Rest, call.name, args, hide)

\* what the next three lemmas conclude of the calls
CallsInv == Nested(expansions, macroDefs) /\ OpenInv

(* When the calls stay as they are.                                         *)
LEMMA CallsSame ==
    ASSUME TypeInv, OpenInv, UNCHANGED <<macroDefs, expansions, busy>>, ~At("undef") \/ UNCHANGED newLine
    PROVE  CallsInv' /\ \A t : SameScans(expansions, expansions', t)
BY DEF TypeInv, CallsInv, OpenInv, Nested, Frame, Input, MacroInput, Name, Opening, Gathering, Recovering, Scan,
       call, Last, SameScans, SameScan, At

(* When the last call, no scan, becomes another that is none.               *)
LEMMA CallsContinue ==
    ASSUME TypeInv, OpenInv, UNCHANGED <<macroDefs, busy>>, expansions # <<>>,
           call \in Opening(macroDefs) \cup Gathering(macroDefs) \cup Recovering(macroDefs),
           NEW f \in Gathering(macroDefs) \cup Recovering(macroDefs), f.name = call.name, Continue(f), NEW t
    PROVE  CallsInv' /\ SameScans(expansions, expansions', t) /\ (f.at = "recover" => At("recover")')
<1>1. f \in Frame(macroDefs) /\ f.at \in {"args", "recover"} /\ call.at \in {"paren", "args", "recover"}
  BY DEF Frame, Gathering, Recovering, Opening
<1>2. Nested(expansions, macroDefs) /\ Depth(expansions) = Len(expansions) - 1
  BY <1>1, Calls DEF TypeInv, Depth
<1>3. expansions' = Append(Front(expansions), f)
  BY DEF Continue, Return
<1>4. Nested(expansions', macroDefs) /\ SameScans(expansions, expansions', t)
      /\ expansions' # <<>> /\ expansions'[Len(expansions')] = f
  BY <1>1, <1>2, <1>3, SameReplaced
<1>5. call' = f
  BY <1>4 DEF call, Last
<1>6. call.name.atom \notin busy
  BY <1>1 DEF OpenInv
<1>7. (f.at = "recover" => At("recover")') /\ ~At("undef")' /\ OpenInv'
  <2>1. expansions' # <<>> /\ call' = f /\ f.at \in {"args", "recover"} /\ f.name = call.name /\ busy' = busy
    BY <1>1, <1>4, <1>5
  <2>. QED  BY <1>6, <2>1 DEF OpenInv, At
<1>. QED  BY <1>4, <1>7 DEF CallsInv

(* When it is dropped.                                                      *)
LEMMA CallsDrop ==
    ASSUME TypeInv, UNCHANGED macroDefs, expansions # <<>>, call.at # "prescan", expansions' = Return, NEW t
    PROVE  CallsInv' /\ SameScans(expansions, expansions', t) /\ ~At("recover")'
<1>1. Nested(Return, macroDefs) /\ Depth(Return) = Len(Return)
  BY Calls
<1>2. expansions' # <<>> => expansions'[Len(expansions')].at = "prescan"
  BY <1>1 DEF Depth, Nested
<1>3. expansions' # <<>> => call' = expansions'[Len(expansions')]
  BY DEF call, Last
<1>. QED  BY <1>1, <1>2, <1>3, SameDropped DEF CallsInv, OpenInv, At

(* When it fails, and the scan that it was in tosses the rest.              *)
LEMMA CallsFail ==
    ASSUME TypeInv, UNCHANGED macroDefs, expansions # <<>>, call.at # "prescan", Fail, NEW t
    PROVE  CallsInv' /\ SameScans(expansions, expansions', t)
<1>1. Nested(Return, macroDefs) /\ Depth(Return) = Len(Return) /\ SameScans(expansions, Return, t)
  BY Calls, SameDropped
<1>2. CASE Return = <<>>
  BY <1>1, <1>2, CallsDrop DEF Fail
<1>3. CASE Return # <<>>
  <2>. DEFINE f == Return[Len(Return)]
              g == [f EXCEPT !.tossing = TRUE]
  <2>1. Len(Return) \in Nat \ {0} /\ Last(Return) = f
    BY <1>1, <1>3 DEF Nested, Last
  <2>2. f \in Scan(macroDefs)
    <3>1. Len(Return) \in 1 .. Depth(Return)
      BY <1>1, <2>1
    <3>. QED  BY <1>1, <3>1, Depths
  <2>3. g \in Scan(macroDefs) /\ SameScan(f, g) /\ (Plain(f) => Plain(g))
    <3>. HIDE DEF f
    <3>. QED  BY <2>2, ScanEdited
  <2>4. expansions' = Append(Front(Return), g)
    BY <1>3, <2>1 DEF Fail
  <2>. HIDE DEF g
  <2>5. Nested(expansions', macroDefs) /\ SameScans(Return, expansions', t) /\ Depth(expansions') = Len(expansions')
    BY <1>1, <1>3, <2>3, <2>4, LastEdited
  <2>6. SameScans(expansions, expansions', t)
    <3>1. Depth(Return) \in Nat
      BY <1>1, Depths
    <3>. QED  BY <1>1, <2>5, <3>1 DEF SameScans, SameScan
  <2>7. expansions' # <<>> => call' = expansions'[Len(expansions')] /\ call'.at = "prescan"
    BY <2>5 DEF call, Last, Depth, Nested
  <2>. QED  BY <2>5, <2>6, <2>7 DEF CallsInv, OpenInv, At
<1>. QED  BY <1>2, <1>3

(* The steps that only read.                                                *)
LEMMA ReadsOnly ==
    ASSUME TypeInv, OpenInv,
           SkipNewLine \/ Toss \/ TokenizeNewLine \/ StrayDirective \/ TokenizeEnd \/ readCPPline \/ CPPundef
    PROVE  Reading /\ CallsInv' /\ UNCHANGED macroDefs
<1>. USE DEF Taken, Quiet, macroVars
<1>1. CASE SkipNewLine \/ Toss \/ TokenizeNewLine
  <2>1. /\ Ready /\ inputStack' = Rest /\ currentPos' = Moved /\ busy' = busy
        /\ UNCHANGED <<macroDefs, expansions, errors>> /\ token # Marker /\ ~At("undef")
    <3>1. token.atom = "\n" \/ ~EndsToss(token)
      BY <1>1 DEF SkipNewLine, Toss, TokenizeNewLine
    <3>2. token # Marker
      BY <3>1, TokenSets DEF EndsToss
    <3>. QED  BY <1>1, <3>2 DEF SkipNewLine, Toss, TokenizeNewLine, Tokenizing, Prescanning, At
  <2>. QED  BY <2>1, CallsSame DEF Reading, Untouched, Untroubled, At, call
<1>2. CASE StrayDirective \/ TokenizeEnd
  <2>1. /\ Ready /\ inputStack' = Rest /\ currentPos' = Moved /\ busy' = busy /\ expansions = <<>>
        /\ UNCHANGED <<macroDefs, expansions>> /\ (errors' = TRUE \/ errors' = errors)
    BY <1>2 DEF StrayDirective, TokenizeEnd, Tokenizing
  <2>. QED  BY <2>1, CallsSame DEF Reading, Untouched, Untroubled, At, call, Depth
<1>3. CASE readCPPline
  <2>. DEFINE f == [at |-> "undef"]
  <2>1. /\ Ready /\ inputStack' = Rest /\ currentPos' = Moved /\ UNCHANGED <<busy, macroDefs, errors>> /\ expansions = <<>>
        /\ expansions' = Append(expansions, f) /\ newLine'
    BY <1>3 DEF readCPPline, Tokenizing
  <2>2. f \in Frame(macroDefs) /\ f.at = "undef" /\ Nested(expansions, macroDefs) /\ Depth(expansions) = Len(expansions)
    BY <2>1 DEF Frame, TypeInv, Depth
  <2>. HIDE DEF f
  <2>3. Nested(expansions', macroDefs) /\ SameScans(expansions, expansions', token)
        /\ expansions' # <<>> /\ expansions'[Len(expansions')] = f
    BY <2>1, <2>2, SameAppended
  <2>4. call' = f
    BY <2>3 DEF call, Last
  <2>. QED  BY <2>1, <2>2, <2>3, <2>4 DEF Reading, Untouched, Untroubled, At, Depth, CallsInv, OpenInv
<1>4. CASE CPPundef
  <2>1. /\ Ready /\ inputStack' = Rest /\ currentPos' = Moved /\ UNCHANGED <<busy, macroDefs, errors>>
        /\ expansions # <<>> /\ call.at = "undef" /\ expansions' = <<>>
    BY <1>4 DEF CPPundef, At
  <2>2. Len(expansions) = 1
    BY <2>1, Calls DEF TypeInv, Nested
  <2>3. Return = <<>> /\ Depth(expansions) = 0
    BY <2>1, <2>2, Calls DEF Depth
  <2>. QED  BY <2>1, <2>3, CallsDrop DEF Reading, Untouched, Untroubled, At
<1>. QED  BY <1>1, <1>2, <1>3, <1>4

(* The steps of a call that looks for its arguments.                        *)
LEMMA ReadsCall ==
    ASSUME TypeInv, OpenInv, Scanned,
           CallBegins \/ BadCall \/ Excess \/ NextArgument \/ Record \/ SkipExcess \/ ExcessUnclosed
    PROVE  Reading /\ CallsInv' /\ UNCHANGED macroDefs
<1>. USE DEF Taken, Quiet, macroVars
<1>0. token \in SourceToken \/ token = Marker \/ token = EndOfInput
  BY TokenSets DEF Scanned, PlainToken
<1>1. ASSUME NEW f \in Gathering(macroDefs) \cup Recovering(macroDefs), f.name = call.name, Continue(f),
             Ready, Taken, Quiet, At("paren") \/ At("args") \/ At("recover"),
             f.at = "recover" \/ (token # Marker /\ ~At("recover"))
      PROVE  Reading /\ CallsInv' /\ UNCHANGED macroDefs
  <2>1. expansions # <<>> /\ call \in Opening(macroDefs) \cup Gathering(macroDefs) \cup Recovering(macroDefs)
    BY <1>1, CallKinds DEF At
  <2>2. CallsInv' /\ SameScans(expansions, expansions', token) /\ (f.at = "recover" => At("recover")')
    BY <1>1, <2>1, CallsContinue
  <2>. QED  BY <1>1, <2>2 DEF Reading, Untouched, Untroubled
<1>2. ASSUME Ready, Taken, Fail, At("args") \/ At("recover") PROVE Reading /\ CallsInv' /\ UNCHANGED macroDefs
  <2>1. expansions # <<>> /\ call.at # "prescan" /\ errors' = TRUE /\ busy' = busy /\ macroDefs' = macroDefs
    BY <1>2 DEF At, Fail
  <2>2. CallsInv' /\ SameScans(expansions, expansions', token)
    BY <1>2, <2>1, CallsFail
  <2>. QED  BY <1>2, <2>1, <2>2 DEF Reading, Untouched, Untroubled
<1>3. CASE CallBegins
  <2>. DEFINE f == [at |-> "args", name |-> call.name, args |-> << <<>> >>, nest |-> 0, recorded |-> FALSE]
  <2>1. call \in Opening(macroDefs)
    BY <1>3, CallKinds DEF CallBegins, At
  <2>2. << <<>> >> \in Arguments \ {<<>>}
    BY DEF Arguments
  <2>3. f \in Gathering(macroDefs)
    BY <2>1, <2>2 DEF Opening, Gathering
  <2>4. f.name = call.name /\ Continue(f) /\ token # Marker /\ ~At("recover")
    BY <1>3, TokenSets DEF CallBegins, At
  <2>. HIDE DEF f
  <2>. QED  BY <1>1, <1>3, <2>3, <2>4 DEF CallBegins
<1>4. CASE NextArgument \/ Record
  <2>1. /\ Ready /\ Taken /\ Quiet /\ At("args") /\ ~At("recover") /\ token # Marker /\ token \in PlainToken
    <3>1. Ready /\ Taken /\ Quiet /\ At("args") /\ ~EndsArgument(token) /\ token.atom # "\n"
      BY <1>4 DEF NextArgument, Record, InArgs
    <3>2. token # Marker /\ token # EndOfInput
      BY <3>1, TokenSets DEF EndsArgument
    <3>3. token \in PlainToken
      BY <1>0, <3>1, <3>2 DEF SourceToken, PlainToken, Reserved
    <3>. QED  BY <3>1, <3>2, <3>3 DEF At
  <2>2. call \in Gathering(macroDefs)
    BY <2>1, CallKinds DEF At
  <2>3. call.args \in Arguments \ {<<>>} /\ Len(call.args) \in Nat \ {0} /\ call.nest \in Int /\ Nest \in Int
    BY <2>2 DEF Gathering, Arguments, Nest
  <2>4. CASE NextArgument
    <3>1. Append(call.args, <<>>) \in Arguments \ {<<>>}
      BY <2>3 DEF Arguments
    <3>2. [call EXCEPT !.args = Append(@, <<>>)] \in Gathering(macroDefs)
          /\ [call EXCEPT !.args = Append(@, <<>>)].name = call.name
      BY <2>2, <3>1 DEF Gathering
    <3>. QED  BY <1>1, <2>1, <2>4, <3>2 DEF NextArgument
  <2>5. CASE Record
    <3>. DEFINE a == Append(Front(call.args), Append(Last(call.args), token))
    <3>1. Last(call.args) \in Seq(PlainToken)
      <4>1. Len(call.args) \in 1 .. Len(call.args) /\ call.args \in Seq(Seq(PlainToken))
        BY <2>3 DEF Arguments
      <4>. QED  BY <4>1, ElementOfSeq DEF Last
    <3>2. Append(Last(call.args), token) \in Seq(PlainToken)
      BY <2>1, <3>1
    <3>3. a \in Arguments \ {<<>>}
      <4>1. call.args \in Seq(Seq(PlainToken)) /\ call.args # <<>>
        BY <2>3 DEF Arguments
      <4>2. a \in Seq(Seq(PlainToken)) /\ a # <<>>
        <5>. DEFINE x == Append(Last(call.args), token)
        <5>1. x \in Seq(PlainToken)
          BY <3>2
        <5>. HIDE DEF x
        <5>2. Append(Front(call.args), x) \in Seq(Seq(PlainToken)) /\ Append(Front(call.args), x) # <<>>
          BY <4>1, <5>1, Replaced
        <5>. QED  BY <5>2 DEF x
      <4>. QED  BY <4>2 DEF Arguments
    <3>. HIDE DEF a
    <3>. DEFINE f == [call EXCEPT !.args = a, !.nest = Nest, !.recorded = TRUE]
    <3>4. f \in Gathering(macroDefs) /\ f.name = call.name
      BY <2>2, <2>3, <3>3 DEF Gathering
    <3>5. Continue(f)
      BY <2>5 DEF Record, a
    <3>. HIDE DEF f
    <3>. QED  BY <1>1, <2>1, <3>4, <3>5
  <2>. QED  BY <1>4, <2>4, <2>5
<1>5. CASE Excess
  <2>. DEFINE f == [at |-> "recover", name |-> call.name, args |-> call.args, depth |-> AtFirst]
  <2>1. Ready /\ Taken /\ Quiet /\ At("args") /\ Continue(f)
    BY <1>5 DEF Excess, InArgs, Recover
  <2>2. call \in Gathering(macroDefs)
    BY <2>1, CallKinds DEF At
  <2>3. f \in Recovering(macroDefs) /\ f.name = call.name /\ f.at = "recover"
    BY <2>2 DEF Gathering, Recovering, AtFirst
  <2>. HIDE DEF f
  <2>. QED  BY <1>1, <2>1, <2>3
<1>6. CASE SkipExcess
  <2>. DEFINE d == IF token.atom \in {")", "}"} THEN call.depth - 1 ELSE Deeper
              f == [call EXCEPT !.depth = d]
  <2>1. Ready /\ Taken /\ Quiet /\ At("recover") /\ Continue(f)
    BY <1>6 DEF SkipExcess
  <2>2. call \in Recovering(macroDefs)
    BY <2>1, CallKinds DEF At
  <2>3. d \in Int
    <3>. DEFINE n == call.depth
    <3>1. n \in Int
      BY <2>2, Zenon DEF Recovering
    <3>. HIDE DEF n
    <3>2. n + 1 \in Int /\ n - 1 \in Int
      BY <3>1
    <3>. QED  BY <3>1, <3>2, Zenon DEF Deeper, n
  <2>. HIDE DEF d
  <2>4. f \in Recovering(macroDefs) /\ f.name = call.name /\ f.at = "recover"
    BY <2>2, <2>3 DEF Recovering
  <2>. HIDE DEF f
  <2>. QED  BY <1>1, <2>1, <2>4
<1>7. CASE BadCall \/ ExcessUnclosed
  BY <1>2, <1>7 DEF BadCall, ExcessUnclosed
<1>. QED  BY <1>3, <1>4, <1>5, <1>6, <1>7

(* Calls that are scans alone are in order.                                 *)
LEMMA ScansAlone ==
    ASSUME Nested(expansions', macroDefs'), Depth(expansions') = Len(expansions')
    PROVE  CallsInv' /\ ~At("recover")'
<1>1. expansions' # <<>> => call' = expansions'[Len(expansions')]
  BY DEF call, Last
<1>2. expansions' # <<>> => expansions'[Len(expansions')].at = "prescan"
  BY DEF Depth, Nested
<1>. QED  BY <1>1, <1>2 DEF CallsInv, OpenInv, At

(* The steps that keep a token, for the output or an argument.              *)
LEMMA ReadsToken ==
    ASSUME TypeInv, Scanned, PrescanToken \/ TokenizeToken
    PROVE  Reading /\ CallsInv' /\ UNCHANGED macroDefs
<1>. USE DEF Taken, Quiet, macroVars
<1>1. /\ Ready /\ inputStack' = Rest /\ currentPos' = Moved /\ UNCHANGED <<busy, macroDefs, errors>>
      /\ Keep(expansions, token) /\ ~EndsArgument(token) /\ ~At("recover") /\ (expansions = <<>> \/ At("prescan"))
  BY DEF PrescanToken, TokenizeToken, Prescanning, Tokenizing, EndsArgument, At
<1>2. token \in SourceToken /\ token # Marker
  <2>1. token \in SourceToken \/ token = Marker \/ token = EndOfInput
    BY TokenSets DEF Scanned, PlainToken
  <2>. QED  BY <1>1, <2>1 DEF EndsArgument
<1>3. Nested(expansions, macroDefs) /\ Depth(expansions) = Len(expansions)
  <2>1. expansions # <<>> => call = expansions[Len(expansions)]
    BY DEF call, Last
  <2>. QED  BY <1>1, <2>1 DEF TypeInv, Depth, At
<1>4. Nested(expansions', macroDefs) /\ SameScans(expansions, expansions', token) /\ Depth(expansions') = Len(expansions')
  BY <1>1, <1>2, <1>3, Kept
<1>. QED  BY <1>1, <1>2, <1>4, ScansAlone DEF Reading, Untouched, Untroubled

(* The name of a macro: of a function-like one, a call may follow.          *)
LEMMA StartsMacro ==
    ASSUME TypeInv, Scanned, PrescanMacro \/ TokenizeMacro
    PROVE  (Reading \/ Expanding) /\ CallsInv' /\ UNCHANGED macroDefs
<1>. USE DEF macroVars
<1>1. /\ Ready /\ Expandable(token) /\ MacroExpand /\ ~At("recover") /\ (expansions = <<>> \/ At("prescan"))
  BY DEF PrescanMacro, TokenizeMacro, Prescanning, Tokenizing, At
<1>2. token.atom \in DOMAIN macroDefs /\ token.atom \notin busy
  BY <1>1 DEF Expandable
<1>3. token.atom \in STRING \ Reserved
  BY <1>2, Macros
<1>4. token \in PlainToken
  <2>1. token \in SourceToken \/ token = Marker \/ token = EndOfInput
    BY TokenSets DEF Scanned, PlainToken
  <2>. QED  BY <1>3, <2>1, TokenSets DEF SourceToken, PlainToken, Reserved
<1>5. token \in Name(macroDefs) /\ token # Marker
  BY <1>2, <1>4, TokenSets DEF Name
<1>6. Nested(expansions, macroDefs) /\ Depth(expansions) = Len(expansions)
  <2>1. expansions # <<>> => call = expansions[Len(expansions)]
    BY DEF call, Last
  <2>. QED  BY <1>1, <2>1 DEF TypeInv, Depth, At
<1>7. CASE macroDefs[token.atom].functionLike
  <2>. DEFINE f == [at |-> "paren", name |-> token]
  <2>1. /\ inputStack' = Rest /\ currentPos' = Moved /\ UNCHANGED <<busy, macroDefs, errors>>
        /\ expansions' = Append(expansions, f)
    BY <1>1, <1>7 DEF MacroExpand, Taken, Quiet
  <2>2. f \in Frame(macroDefs) /\ f.at = "paren" /\ f.name = token
    BY <1>5 DEF Frame, Opening
  <2>. HIDE DEF f
  <2>3. Nested(expansions', macroDefs) /\ SameScans(expansions, expansions', token)
        /\ expansions' # <<>> /\ expansions'[Len(expansions')] = f
    BY <1>6, <2>1, <2>2, SameAppended
  <2>4. call' = f
    BY <2>3 DEF call, Last
  <2>. QED  BY <1>1, <1>2, <1>5, <2>1, <2>2, <2>3, <2>4 DEF Reading, Untouched, Untroubled, At, CallsInv, OpenInv
<1>8. CASE ~macroDefs[token.atom].functionLike
  <2>1. /\ Push(Rest, expansions, token, <<>>, token.hide) /\ UNCHANGED <<macroDefs, errors>>
    BY <1>1, <1>8 DEF MacroExpand, Push
  <2>. DEFINE in == tMacroInput(token.atom, <<>>, token.hide \cup {token.atom})
  <2>2. in \in MacroInput(macroDefs) /\ <<>> \in Arguments /\ token.hide \cup {token.atom} \in SUBSET STRING
    <3>1. macroDefs[token.atom].args = <<>>
      BY <1>2, <1>8, Macros
    <3>2. <<>> \in Arguments /\ Len(<<>>) = 0 /\ token.hide \cup {token.atom} \in SUBSET STRING /\ token.atom \in STRING
      BY <1>4 DEF Arguments, PlainToken
    <3>. QED  BY <1>2, <3>1, <3>2 DEF MacroInput, tMacroInput
  <2>3. Pushing(Rest, token, <<>>, token.hide \cup {token.atom})
    BY <2>1, <2>2, <1>1 DEF Pushing, Push, Untroubled
  <2>4. expansions' = expansions
    BY <2>1 DEF Push
  <2>5. SameScans(expansions, expansions', token)
    BY <2>4 DEF SameScans, SameScan
  <2>6. CallsInv'
    BY <1>6, <2>1, <2>4, ScansAlone
  <2>7. Expanding
    BY <1>1, <1>2, <1>4, <1>5, <2>2, <2>3, <2>5 DEF Expanding
  <2>. QED  BY <2>1, <2>6, <2>7
<1>. QED  BY <1>7, <1>8

LEMMA TokenKinds ==
    ASSUME Scanned
    PROVE  /\ token \in SourceToken \/ token = Marker \/ token = EndOfInput
           /\ token = EndOfInput <=> inputStack = <<>>
           /\ token \in SourceToken /\ token.atom # "\n" => token \in PlainToken
BY TokenSets DEF Scanned, SourceToken, PlainToken, Reserved

(* A name that no '(' follows is kept, and what was read is put back.       *)
LEMMA EndsLook ==
    ASSUME TypeInv, Scanned, NoCall
    PROVE  (Reading \/ PuttingBack) /\ CallsInv' /\ UNCHANGED macroDefs
<1>1. /\ Ready /\ expansions # <<>> /\ call.at = "paren" /\ ~At("recover") /\ At("paren") /\ token.atom # "\n"
      /\ inputStack' = IF token = EndOfInput THEN Rest ELSE Append(Rest, Tokens(<<token>>))
      /\ currentPos' = Moved /\ Keep(Return, call.name) /\ UNCHANGED <<busy, macroDefs, errors>>
  BY DEF NoCall, At, Quiet, macroVars
<1>2. call.name \in PlainToken /\ call.name \in SourceToken
  BY <1>1, CallKinds, TokenSets DEF Opening, Name
<1>3. Nested(Return, macroDefs) /\ Depth(Return) = Len(Return) /\ SameScans(expansions, Return, token)
  BY <1>1, Calls, SameDropped
<1>4. Nested(expansions', macroDefs) /\ SameScans(Return, expansions', call.name) /\ Depth(expansions') = Len(expansions')
  BY <1>1, <1>2, <1>3, Kept
<1>5. SameScans(expansions, expansions', token)
  <2>1. Depth(Return) \in Nat
    BY <1>3, Depths
  <2>. QED  BY <1>2, <1>3, <1>4, <2>1 DEF SameScans, SameScan
<1>6. CallsInv' /\ ~At("recover")'
  BY <1>1, <1>4, ScansAlone
<1>7. CASE token = EndOfInput
  BY <1>1, <1>5, <1>6, <1>7, TokenSets DEF Reading, Untouched, Untroubled
<1>8. CASE token # EndOfInput
  BY <1>1, <1>5, <1>6, <1>8, TokenKinds DEF PuttingBack, Untouched, Untroubled
<1>. QED  BY <1>7, <1>8

LEMMA ScanBegins ==
    ASSUME TypeInv, Scanned, expansions # <<>>, Untroubled' => Untroubled,
           NEW name \in Name(macroDefs), NEW args \in Arguments, Len(args) = Len(macroDefs[name.atom].args),
           NEW i \in 1 .. Len(args), NEW hide \in SUBSET STRING, Prescan(Rest, i, args, name, hide)
    PROVE  /\ Beginning(name) /\ CallsInv' /\ UNCHANGED macroDefs
           /\ Len(expansions') = Len(expansions)
           /\ \A k \in 1 .. Len(expansions) - 1 : expansions'[k] = expansions[k]
<1>. DEFINE f == [at |-> "prescan", name |-> name, args |-> args, hide |-> hide, arg |-> i,
                  expanded |-> <<>>, tossing |-> FALSE, outer |-> Rest, outerPos |-> Moved]
<1>1. /\ inputStack' = Rest \o <<tMarkerInput, Tokens(args[i])>> /\ currentPos' = Moved
      /\ expansions' = Append(Front(expansions), f) /\ UNCHANGED <<macroDefs, busy>>
  BY DEF Prescan, Continue, Return, macroVars
<1>2. args[i] \in Seq(PlainToken) /\ i \in Nat \ {0} /\ i <= Len(args)
  BY DEF Arguments
<1>3. f \in Scan(macroDefs) /\ f.name = name /\ f.outer = Rest /\ f.outerPos = Moved /\ Plain(f) /\ f.at = "prescan"
  BY <1>2 DEF Scan, Scanned, Plain
<1>. HIDE DEF f
<1>4. f \in Frame(macroDefs) /\ Nested(expansions, macroDefs)
  BY <1>3 DEF Frame, TypeInv
<1>5. /\ Nested(expansions', macroDefs) /\ Len(expansions') = Len(expansions) /\ Len(expansions) \in Nat \ {0}
      /\ expansions'[Len(expansions)] = f /\ expansions' # <<>>
      /\ \A k \in 1 .. Len(expansions) : k < Len(expansions) => expansions'[k] = expansions[k]
  BY <1>1, <1>3, <1>4, CallReplaced
<1>6. CallsInv'
  BY <1>1, <1>3, <1>5, ScansAlone DEF Depth
<1>7. Beginning(name)
  BY <1>1, <1>2, <1>3, <1>5, Zenon DEF Beginning
<1>8. \A k \in 1 .. Len(expansions) - 1 : expansions'[k] = expansions[k]
  BY <1>5
<1>. QED  BY <1>1, <1>5, <1>6, <1>7, <1>8

LEMMA MacroPushed ==
    ASSUME TypeInv, Scanned, expansions # <<>>, Untroubled' => Untroubled,
           NEW name \in Name(macroDefs), NEW args \in Arguments, Len(args) = Len(macroDefs[name.atom].args),
           NEW hide \in SUBSET STRING, Push(Rest, Return, name, args, hide)
    PROVE  /\ Pushing(Rest, name, args, hide \cup {name.atom}) /\ hide \cup {name.atom} \in SUBSET STRING
           /\ expansions' = Return /\ CallsInv' /\ UNCHANGED macroDefs
<1>1. name.atom \in STRING /\ name.atom \in DOMAIN macroDefs
  BY DEF Name, PlainToken
<1>. DEFINE h == hide \cup {name.atom}
<1>2. h \in SUBSET STRING
  BY <1>1
<1>3. /\ inputStack' = Append(Rest, tMacroInput(name.atom, args, h)) /\ busy' = busy \cup {name.atom}
      /\ currentPos' = [Moved EXCEPT ![name.atom] = 1] /\ expansions' = Return /\ UNCHANGED macroDefs
  BY DEF Push, macroVars
<1>. HIDE DEF h
<1>4. tMacroInput(name.atom, args, h) \in MacroInput(macroDefs)
  BY <1>1, <1>2 DEF MacroInput, tMacroInput
<1>5. Pushing(Rest, name, args, h)
  BY <1>3, <1>4 DEF Pushing
<1>6. CallsInv'
  BY <1>3, Calls, ScansAlone
<1>. QED  BY <1>2, <1>3, <1>5, <1>6 DEF h

(* The end of a call: its first argument is begun, or it has none.          *)
LEMMA EndsCall ==
    ASSUME TypeInv, OpenInv, Scanned, CloseCall \/ EndExcess
    PROVE  (Expanding \/ FirstScan) /\ CallsInv' /\ UNCHANGED macroDefs
<1>1. /\ Ready /\ expansions # <<>> /\ call.at \in {"args", "recover"} /\ token.atom = ")"
      /\ (\E given : Called(given, token.hide)) /\ (Untroubled' => Untroubled)
  <2>1. CASE CloseCall
    <3>1. errors' = (errors \/ Given < Len(Params)) /\ ~At("recover")
      BY <2>1 DEF CloseCall, InArgs, At
    <3>. QED  BY <2>1, <3>1 DEF CloseCall, InArgs, At, Untroubled
  <2>2. CASE EndExcess
    BY <2>2 DEF EndExcess, At, Untroubled
  <2>. QED  BY <2>1, <2>2
<1>2. call \in Gathering(macroDefs) \cup Recovering(macroDefs)
  BY <1>1, CallKinds DEF At
<1>3. call.name \in Name(macroDefs) /\ call.args \in Arguments /\ call.name.atom \notin busy
      /\ call.name.atom \in DOMAIN macroDefs /\ call.name.hide \in SUBSET STRING
  BY <1>1, <1>2 DEF Gathering, Recovering, OpenInv, Name, PlainToken
<1>4. token \in PlainToken
  BY <1>1, TokenKinds, TokenSets
<1>. DEFINE hide == call.name.hide \cap token.hide
<1>5. hide \in SUBSET STRING
  BY <1>3
<1>6. Params \in Seq(STRING) /\ Params = macroDefs[call.name.atom].args
  BY <1>3, Macros DEF Params
<1>7. CASE Params = <<>>
  <2>1. Push(Rest, Return, call.name, <<>>, hide)
    BY <1>1, <1>7, Zenon DEF Called
  <2>2. <<>> \in Arguments /\ Len(<<>>) = Len(macroDefs[call.name.atom].args)
    BY <1>6, <1>7 DEF Arguments
  <2>. HIDE DEF hide
  <2>3. /\ Pushing(Rest, call.name, <<>>, hide \cup {call.name.atom}) /\ hide \cup {call.name.atom} \in SUBSET STRING
        /\ expansions' = Return /\ CallsInv' /\ UNCHANGED macroDefs
    BY <1>1, <1>3, <1>5, <2>1, <2>2, MacroPushed
  <2>4. SameScans(expansions, Return, token)
    BY <1>1, SameDropped
  <2>. QED  BY <1>1, <1>3, <1>4, <2>2, <2>3, <2>4 DEF Expanding
<1>8. CASE Params # <<>>
  <2>. DEFINE args == [i \in DOMAIN Params |-> IF i <= Len(call.args) THEN call.args[i] ELSE <<>>]
  <2>1. Prescan(Rest, 1, args, call.name, hide)
    BY <1>1, <1>8, Zenon DEF Called
  <2>2. args \in Arguments /\ Len(args) = Len(macroDefs[call.name.atom].args) /\ 1 \in 1 .. Len(args)
    <3>1. DOMAIN Params = 1 .. Len(Params) /\ Len(Params) \in Nat \ {0}
      BY <1>6, <1>8
    <3>2. \A i \in 1 .. Len(Params) : args[i] \in Seq(PlainToken)
      BY <1>3, <3>1 DEF Arguments
    <3>3. args \in Seq(Seq(PlainToken)) /\ Len(args) = Len(Params)
      BY <3>1, <3>2
    <3>. QED  BY <1>6, <3>1, <3>3 DEF Arguments
  <2>. HIDE DEF hide, args
  <2>3. /\ Beginning(call.name) /\ CallsInv' /\ UNCHANGED macroDefs
        /\ Len(expansions') = Len(expansions)
        /\ \A k \in 1 .. Len(expansions) - 1 : expansions'[k] = expansions[k]
    BY <1>1, <1>3, <1>5, <2>1, <2>2, ScanBegins
  <2>. QED  BY <1>1, <1>2, <1>3, <1>4, <2>3 DEF FirstScan
<1>. QED  BY <1>7, <1>8

LEMMA LiveAboves ==
    ASSUME NEW table, NEW s \in Seq(Input(table)), NEW p
    PROVE  IsFiniteSet(LiveAbove(s, p)) /\ Cardinality(LiveAbove(s, p)) \in Nat
           /\ (Cardinality(LiveAbove(s, p)) = 0 => LiveAbove(s, p) = {})
<1>1. Len(s) \in Nat /\ IsFiniteSet(1 .. Len(s)) /\ LiveAbove(s, p) \subseteq 1 .. Len(s)
  BY FS_Interval DEF LiveAbove
<1>2. IsFiniteSet(LiveAbove(s, p))
  BY <1>1, FS_Subset
<1>. QED  BY <1>2, FS_CardinalityType, FS_EmptySet

\* A scan that reads its marker has collected no line's end.
LEMMA CollectedPlain ==
    ASSUME TypeInv, MarkInv, Scanned, At("prescan"), token = Marker
    PROVE  Plain(call)
<1>. SUFFICES ASSUME ~Plain(call) PROVE FALSE
  OBVIOUS
<1>. DEFINE n == Len(expansions)
<1>1. call = expansions[n] /\ n \in Nat \ {0} /\ Depth(expansions) = n
  BY Calls DEF At, Depth
<1>2. 0 \in Places(expansions[n], inputStack)
  BY <1>1 DEF Places
<1>3. Cardinality(LiveAbove(inputStack, 0)) <= n - n
  BY <1>1, <1>2 DEF MarkInv, Marks
<1>4. LiveAbove(inputStack, 0) = {}
  BY <1>1, <1>3, LiveAboves DEF TypeInv
<1>5. inputStack # <<>> /\ Live(top) /\ top = inputStack[Len(inputStack)]
  BY TokenSets, TokenKinds DEF Scanned, Live, PlainToken
<1>6. Len(inputStack) \in LiveAbove(inputStack, 0)
  BY <1>5 DEF LiveAbove, TypeInv
<1>. QED  BY <1>4, <1>6

(* The end of an argument: the next one is begun, or the macro is expanded. *)
LEMMA EndsArgumentScan ==
    ASSUME TypeInv, MarkInv, Scanned, EndPrescan
    PROVE  (NextScan \/ LastScan) /\ CallsInv' /\ UNCHANGED macroDefs
<1>. DEFINE args == IF token = Marker THEN [call.args EXCEPT ![call.arg] = call.expanded] ELSE call.args
<1>1. /\ Ready /\ At("prescan") /\ expansions # <<>>
      /\ (EndsArgument(token) \/ EndsToss(token)) /\ UNCHANGED errors
      /\ IF call.arg < Len(args) THEN Prescan(Rest, call.arg + 1, args, call.name, call.hide)
         ELSE Push(Rest, Return, call.name, args, call.hide)
  BY DEF EndPrescan, Prescanning, At
<1>2. call \in Scan(macroDefs)
  BY <1>1, CallKinds
<1>3. /\ call.name \in Name(macroDefs) /\ call.hide \in SUBSET STRING /\ call.arg \in Nat \ {0} /\ call.args \in Arguments
      /\ Len(call.args) = Len(macroDefs[call.name.atom].args) /\ call.arg <= Len(call.args)
  BY <1>2 DEF Scan
<1>4. token = Marker \/ inputStack = <<>>
  <2>1. token \in SourceToken => ~EndsArgument(token) /\ ~EndsToss(token)
    BY TokenSets DEF EndsArgument, EndsToss, SourceToken
  <2>. QED  BY <1>1, <2>1, TokenKinds
<1>5. ScanEnds
  BY <1>1, <1>4 DEF ScanEnds
<1>6. token = Marker => Plain(call)
  BY <1>1, CollectedPlain
<1>7. args \in Arguments /\ Len(args) = Len(call.args)
  <2>1. CASE token = Marker
    <3>1. call.expanded \in Seq(PlainToken)
      BY <1>6, <2>1 DEF Plain
    <3>2. args = [call.args EXCEPT ![call.arg] = call.expanded]
      BY <2>1
    <3>. QED  BY <1>3, <3>1, <3>2 DEF Arguments
  <2>. QED  BY <1>3, <2>1
<1>8. Untroubled' => Untroubled
  BY <1>1 DEF Untroubled, At
<1>. HIDE DEF args
<1>9. CASE call.arg < Len(args)
  <2>1. call.arg + 1 \in 1 .. Len(args)
    BY <1>3, <1>7, <1>9 DEF Arguments
  <2>2. Prescan(Rest, call.arg + 1, args, call.name, call.hide)
    BY <1>1, <1>9
  <2>3. /\ Beginning(call.name) /\ CallsInv' /\ UNCHANGED macroDefs
        /\ Len(expansions') = Len(expansions)
        /\ \A k \in 1 .. Len(expansions) - 1 : expansions'[k] = expansions[k]
    BY <1>1, <1>3, <1>7, <1>8, <2>1, <2>2, ScanBegins
  <2>. QED  BY <1>5, <2>3 DEF NextScan
<1>10. CASE ~(call.arg < Len(args))
  <2>1. Push(Rest, Return, call.name, args, call.hide)
    BY <1>1, <1>10
  <2>2. /\ Pushing(Rest, call.name, args, call.hide \cup {call.name.atom}) /\ call.hide \cup {call.name.atom} \in SUBSET STRING
        /\ expansions' = Return /\ CallsInv' /\ UNCHANGED macroDefs
    BY <1>1, <1>3, <1>7, <1>8, <2>1, MacroPushed
  <2>. QED  BY <1>5, <1>7, <2>2 DEF LastScan
<1>. QED  BY <1>9, <1>10

-----------------------------------------------------------------------------
\* How the inputs change

\* The macros and the markers of the inputs once the token has been taken.
LEMMA Rests ==
    ASSUME TypeInv, Scanned
    PROVE  /\ Len(inputStack) \in Nat /\ Rest \in Seq(Input(macroDefs)) /\ Len(Rest) = Len(inputStack)
           /\ \A i \in 1 .. Len(inputStack) :
                /\ Rest[i] \in Input(macroDefs) /\ Rest[i].kind = inputStack[i].kind
                /\ Rest[i].kind = "macro" => Rest[i] = inputStack[i]
                /\ Live(Rest[i]) => Live(inputStack[i]) /\ (i = Len(inputStack) => token # Marker)
           /\ token = Marker => inputStack # <<>> /\ Live(inputStack[Len(inputStack)])
<1>1. Len(inputStack) \in Nat /\ Rest \in Seq(Input(macroDefs)) /\ Len(Rest) = Len(inputStack)
  BY DEF TypeInv, Scanned
<1>2. token = Marker => inputStack # <<>> /\ Live(inputStack[Len(inputStack)])
  BY TokenSets DEF Scanned, Live
<1>3. ASSUME NEW i \in 1 .. Len(inputStack)
      PROVE  /\ Rest[i] \in Input(macroDefs) /\ Rest[i].kind = inputStack[i].kind
             /\ Rest[i].kind = "macro" => Rest[i] = inputStack[i]
             /\ Live(Rest[i]) => Live(inputStack[i]) /\ (i = Len(inputStack) => token # Marker)
  <2>1. Rest[i] \in Input(macroDefs)
    BY <1>1, ElementOfSeq
  <2>2. CASE i < Len(inputStack)
    BY <1>3, <2>1, <2>2 DEF Scanned
  <2>3. CASE i = Len(inputStack)
    <3>1. inputStack # <<>> /\ top = inputStack[i]
      BY <1>1, <2>3 DEF Scanned
    <3>2. CASE top.kind = "macro"
      <4>1. Rest[i] = inputStack[i] /\ ~Live(Rest[i])
        BY <3>1, <3>2 DEF Scanned, Live
      <4>. QED  BY <2>1, <4>1
    <3>3. CASE top.kind # "macro"
      <4>1. ~Live(Rest[i]) /\ Rest[i].kind = top.kind
        BY <2>3, <3>1, <3>3 DEF Scanned
      <4>. QED  BY <2>1, <3>1, <3>3, <4>1
    <3>. QED  BY <3>2, <3>3
  <2>. QED  BY <1>1, <2>2, <2>3
<1>. QED  BY <1>1, <1>2, <1>3

LEMMA Counted ==
    ASSUME NEW S, IsFiniteSet(S), NEW T, NEW x, NEW y
    PROVE  /\ Cardinality(S) \in Nat
           /\ T \subseteq S => Cardinality(T) <= Cardinality(S)
           /\ T \subseteq S \cup {y} => Cardinality(T) <= Cardinality(S) + 1
           /\ x \in S /\ T \subseteq S \ {x} => Cardinality(T) <= Cardinality(S) - 1
           /\ x \in S /\ T \subseteq (S \ {x}) \cup {y} => Cardinality(T) <= Cardinality(S)
<1>1. Cardinality(S) \in Nat
  BY FS_CardinalityType
<1>2. ASSUME NEW A, IsFiniteSet(A), NEW B, B \subseteq A PROVE Cardinality(B) <= Cardinality(A)
  BY <1>2, FS_Subset
<1>3. ASSUME NEW A, IsFiniteSet(A)
      PROVE  IsFiniteSet(A \cup {y}) /\ Cardinality(A \cup {y}) <= Cardinality(A) + 1
  <2>1. Cardinality(A) \in Nat
    BY <1>3, FS_CardinalityType
  <2>2. IsFiniteSet(A \cup {y}) /\ Cardinality(A \cup {y}) = IF y \in A THEN Cardinality(A) ELSE Cardinality(A) + 1
    BY <1>3, FS_AddElement, Zenon
  <2>. QED  BY <2>1, <2>2
<1>4. ASSUME x \in S PROVE IsFiniteSet(S \ {x}) /\ Cardinality(S \ {x}) = Cardinality(S) - 1
  BY <1>4, FS_RemoveElement
<1>5. T \subseteq S \cup {y} => Cardinality(T) <= Cardinality(S) + 1
  <2>1. IsFiniteSet(S \cup {y}) /\ Cardinality(S \cup {y}) <= Cardinality(S) + 1
    BY <1>3
  <2>2. T \subseteq S \cup {y} => Cardinality(T) <= Cardinality(S \cup {y})
    BY <1>2, <2>1
  <2>3. Cardinality(S \cup {y}) \in Nat
    BY <2>1, FS_CardinalityType
  <2>4. T \subseteq S \cup {y} => Cardinality(T) \in Nat
    BY <2>1, FS_Subset, FS_CardinalityType
  <2>. QED  BY <1>1, <2>1, <2>2, <2>3, <2>4
<1>6. x \in S /\ T \subseteq S \ {x} => Cardinality(T) <= Cardinality(S) - 1
  BY <1>2, <1>4
<1>7. x \in S /\ T \subseteq (S \ {x}) \cup {y} => Cardinality(T) <= Cardinality(S)
  <2>. SUFFICES ASSUME x \in S, T \subseteq (S \ {x}) \cup {y} PROVE Cardinality(T) <= Cardinality(S)
    OBVIOUS
  <2>. DEFINE A == S \ {x}
  <2>1. IsFiniteSet(A) /\ Cardinality(A) = Cardinality(S) - 1
    BY <1>4
  <2>. HIDE DEF A
  <2>2. IsFiniteSet(A \cup {y}) /\ Cardinality(A \cup {y}) <= Cardinality(A) + 1
    BY <1>3, <2>1
  <2>3. T \subseteq A \cup {y}
    BY DEF A
  <2>4. IsFiniteSet(T) /\ Cardinality(T) <= Cardinality(A \cup {y})
    BY <2>2, <2>3, FS_Subset
  <2>5. Cardinality(T) \in Nat /\ Cardinality(A \cup {y}) \in Nat
    BY <2>2, <2>4, FS_CardinalityType
  <2>. QED  BY <1>1, <2>1, <2>2, <2>4, <2>5
<1>8. T \subseteq S => Cardinality(T) <= Cardinality(S)
  BY <1>2
<1>. QED  BY <1>1, <1>5, <1>6, <1>7, <1>8


(* Markers stay in their bounds when no macro comes back under one and when *)
(* the scans stay the same.                                                 *)
LEMMA SameMarks ==
    ASSUME NEW table, NEW es, Nested(es, table), NEW s \in Seq(Input(table)), Marks(es, s),
           NEW fs, NEW t, SameScans(es, fs, t), NEW r,
           \A m : \A p \in MacroAt(r, m) : p \in MacroAt(s, m) \/ LiveAbove(r, p) = {},
           \A p \in Nat : p = 0 \/ (p \in 1 .. Len(s) /\ s[p].kind = "macro") =>
               Cardinality(LiveAbove(r, p)) <= Cardinality(LiveAbove(s, p)),
           t \in SourceToken \ PlainToken => LiveAbove(r, 0) = {},
           \A p \in Nat : IsFiniteSet(LiveAbove(r, p))
    PROVE  Marks(fs, r)
<1>. SUFFICES ASSUME NEW k \in 1 .. Depth(fs), NEW p \in Places(fs[k], r)
              PROVE  Cardinality(LiveAbove(r, p)) <= Depth(fs) - k
  BY DEF Marks
<1>1. Depth(es) \in Nat /\ Depth(fs) = Depth(es) /\ k \in 1 .. Depth(es) /\ fs[k].name = es[k].name
  BY Depths DEF SameScans, SameScan
<1>2. Plain(es[k]) => Plain(fs[k]) \/ (k = Depth(es) /\ t \in SourceToken \ PlainToken)
  BY <1>1 DEF SameScans
<1>3. \A q \in Nat : Cardinality(LiveAbove(s, q)) \in Nat
  BY LiveAboves
<1>4. \A q \in Nat : Cardinality(LiveAbove(r, q)) \in Nat
  BY FS_CardinalityType
<1>5. ASSUME NEW q, LiveAbove(r, q) = {} PROVE Cardinality(LiveAbove(r, q)) <= Depth(fs) - k
  BY <1>1, <1>5, FS_EmptySet
<1>6. ASSUME NEW q \in Nat, q = 0 \/ (q \in 1 .. Len(s) /\ s[q].kind = "macro"), q \in Places(es[k], s)
      PROVE  Cardinality(LiveAbove(r, q)) <= Depth(fs) - k
  <2>1. Cardinality(LiveAbove(s, q)) <= Depth(es) - k
    BY <1>1, <1>6 DEF Marks
  <2>2. Cardinality(LiveAbove(r, q)) <= Cardinality(LiveAbove(s, q))
    BY <1>6, Zenon
  <2>3. Cardinality(LiveAbove(r, q)) \in Nat /\ Cardinality(LiveAbove(s, q)) \in Nat
    BY <1>3, <1>4
  <2>. QED  BY <1>1, <2>1, <2>2, <2>3
<1>7. CASE p \in MacroAt(r, fs[k].name.atom)
  <2>1. CASE LiveAbove(r, p) = {}
    BY <1>5, <2>1
  <2>2. CASE p \in MacroAt(s, fs[k].name.atom)
    <3>1. p \in Places(es[k], s) /\ p \in 1 .. Len(s) /\ s[p].kind = "macro"
      BY <1>1, <2>2 DEF Places, MacroAt
    <3>. QED  BY <1>6, <3>1
  <2>. QED  BY <1>7, <2>1, <2>2
<1>8. CASE p = 0 /\ ~Plain(fs[k])
  <2>1. CASE Plain(es[k])
    BY <1>2, <1>5, <1>8, <2>1
  <2>2. CASE ~Plain(es[k])
    <3>1. 0 \in Places(es[k], s)
      BY <2>2 DEF Places
    <3>. QED  BY <1>6, <1>8, <3>1
  <2>. QED  BY <2>1, <2>2
<1>. QED  BY <1>7, <1>8 DEF Places

(* What all steps leave of the scans that they do not end: the inputs they  *)
(* started on, and the markers above them but for one on top.               *)
LEMMA StaysInside ==
    ASSUME TypeInv, BusyInv, Inside(expansions, inputStack, currentPos),
           NEW fs, NEW d \in Nat, d <= Depth(expansions),
           \A k \in 1 .. d : SameScan(expansions[k], fs[k]),
           NEW r, \A i \in 1 .. Len(inputStack) : i < Len(inputStack) => r[i] = inputStack[i],
           NEW pos, \A m \in busy : pos[m] = currentPos[m] \/ (inputStack # <<>> /\ top.kind = "macro" /\ m = top.mac)
    PROVE  \A k \in 1 .. d :
             /\ Len(fs[k].outer) \in Nat /\ Len(fs[k].outer) < Len(inputStack) /\ Unchanged(fs[k], r, pos)
             /\ Ceiling(expansions, inputStack, k) \in Nat /\ Ceiling(expansions, inputStack, k) <= Len(inputStack)
             /\ k < Depth(expansions) => Ceiling(expansions, inputStack, k) < Len(inputStack)
             /\ \E p \in 1 .. Ceiling(expansions, inputStack, k) :
                  p > Len(fs[k].outer) /\ Live(inputStack[p]) /\ (p < Len(inputStack) => Live(r[p]))
<1>. DEFINE n == Len(inputStack)
<1>1. n \in Nat /\ inputStack \in Seq(Input(macroDefs))
      /\ Depth(expansions) \in Nat /\ \A k \in 1 .. Depth(expansions) : expansions[k] \in Scan(macroDefs)
  BY Depths DEF TypeInv
<1>2. ASSUME NEW k \in 1 .. Depth(expansions)
      PROVE  Len(expansions[k].outer) \in Nat /\ Len(expansions[k].outer) < n
             /\ Ceiling(expansions, inputStack, k) \in Nat /\ Ceiling(expansions, inputStack, k) <= n
             /\ expansions[k].outer \in Seq(Input(macroDefs))
  <2>1. \A j \in 1 .. Depth(expansions) : expansions[j].outer \in Seq(Input(macroDefs)) /\ Len(expansions[j].outer) \in Nat
    BY <1>1 DEF Scan
  <2>2. Ceiling(expansions, inputStack, k) \in Nat
    BY <1>1, <2>1 DEF Ceiling
  <2>3. Ceiling(expansions, inputStack, k) <= n
    BY DEF Inside
  <2>4. PICK p \in 1 .. Ceiling(expansions, inputStack, k) : p > Len(expansions[k].outer)
    BY DEF Inside
  <2>. QED  BY <1>1, <2>1, <2>2, <2>3, <2>4
<1>. SUFFICES ASSUME NEW k \in 1 .. d
              PROVE  /\ Len(fs[k].outer) \in Nat /\ Len(fs[k].outer) < n /\ Unchanged(fs[k], r, pos)
                     /\ Ceiling(expansions, inputStack, k) \in Nat /\ Ceiling(expansions, inputStack, k) <= n
                     /\ k < Depth(expansions) => Ceiling(expansions, inputStack, k) < n
                     /\ \E p \in 1 .. Ceiling(expansions, inputStack, k) :
                          p > Len(fs[k].outer) /\ Live(inputStack[p]) /\ (p < n => Live(r[p]))
  OBVIOUS
<1>3. k \in 1 .. Depth(expansions) /\ fs[k].outer = expansions[k].outer /\ fs[k].outerPos = expansions[k].outerPos
  BY <1>1 DEF SameScan
<1>. DEFINE outer == expansions[k].outer
            c == Ceiling(expansions, inputStack, k)
<1>4. Len(outer) \in Nat /\ Len(outer) < n /\ c \in Nat /\ c <= n /\ outer \in Seq(Input(macroDefs))
  BY <1>2, <1>3
<1>5. k < Depth(expansions) => c < n
  <2>1. k < Depth(expansions) => k + 1 \in 1 .. Depth(expansions)
    BY <1>1, <1>3
  <2>. QED  BY <1>2, <2>1 DEF Ceiling
<1>6. \E p \in 1 .. c : p > Len(fs[k].outer) /\ Live(inputStack[p]) /\ (p < n => Live(r[p]))
  <2>1. PICK p \in 1 .. c : p > Len(outer) /\ Live(inputStack[p])
    BY <1>3 DEF Inside
  <2>2. p < n => r[p] = inputStack[p]
    BY <1>1, <1>4, <2>1
  <2>. QED  BY <1>3, <2>1, <2>2
<1>7. Unchanged(fs[k], r, pos)
  <2>. SUFFICES ASSUME NEW i \in 1 .. Len(outer)
                PROVE  r[i] = outer[i] /\ (outer[i].kind = "macro" => pos[outer[i].mac] = fs[k].outerPos[outer[i].mac])
    BY <1>3 DEF Unchanged
  <2>1. i \in 1 .. n /\ i < n
    BY <1>1, <1>4
  <2>2. inputStack[i] = outer[i] /\ (outer[i].kind = "macro" => currentPos[outer[i].mac] = fs[k].outerPos[outer[i].mac])
    BY <1>3 DEF Inside, Unchanged
  <2>3. r[i] = outer[i]
    BY <2>1, <2>2
  <2>4. ASSUME outer[i].kind = "macro" PROVE pos[outer[i].mac] = currentPos[outer[i].mac]
    <3>. DEFINE m == outer[i].mac
    <3>1. m \in DOMAIN macroDefs
      <4>1. outer[i] \in Input(macroDefs)
        BY <1>4, ElementOfSeq
      <4>. QED  BY <2>4, <4>1 DEF Input, TokenInput, MacroInput
    <3>2. i \in MacroAt(inputStack, m)
      BY <2>1, <2>2, <2>4 DEF MacroAt
    <3>3. m \in busy /\ \A a, b \in MacroAt(inputStack, m) : a = b
      BY <3>1, <3>2 DEF BusyInv, Sole
    <3>4. ASSUME inputStack # <<>>, top.kind = "macro", m = top.mac PROVE FALSE
      <4>1. n \in MacroAt(inputStack, m)
        BY <1>1, <3>4 DEF MacroAt, top, Last
      <4>. QED  BY <2>1, <3>2, <3>3, <4>1
    <3>. QED  BY <3>3, <3>4
  <2>. QED  BY <2>2, <2>3, <2>4
<1>. QED  BY <1>3, <1>4, <1>5, <1>6, <1>7

\* The places of macros and markers once the token has been taken ...
LEMMA TakenPlaces ==
    ASSUME TypeInv, Scanned, Lines(inputStack)
    PROVE  /\ \A m : MacroAt(Rest, m) = MacroAt(inputStack, m)
           /\ \A p \in Nat : LiveAbove(Rest, p) \subseteq LiveAbove(inputStack, p)
           /\ \A p \in Nat : token = Marker /\ p < Len(inputStack) =>
                /\ Len(inputStack) \in LiveAbove(inputStack, p)
                /\ LiveAbove(Rest, p) \subseteq LiveAbove(inputStack, p) \ {Len(inputStack)}
           /\ token = Marker => \A p \in Nat :
                p = 0 \/ (p \in 1 .. Len(inputStack) /\ inputStack[p].kind = "macro") => p < Len(inputStack)
           /\ Lines(Rest)
           /\ token \in SourceToken \ PlainToken =>
                Len(inputStack) = 1 /\ inputStack[1].kind # "macro" /\ LiveAbove(Rest, 0) = {}
<1>. DEFINE n == Len(inputStack)
<1>1. /\ n \in Nat /\ Rest \in Seq(Input(macroDefs)) /\ Len(Rest) = n
      /\ \A i \in 1 .. n :
           /\ Rest[i] \in Input(macroDefs) /\ Rest[i].kind = inputStack[i].kind
           /\ Rest[i].kind = "macro" => Rest[i] = inputStack[i]
           /\ Live(Rest[i]) => Live(inputStack[i]) /\ (i = n => token # Marker)
      /\ token = Marker => inputStack # <<>> /\ Live(inputStack[n])
  BY Rests
<1>2. \A m : MacroAt(Rest, m) = MacroAt(inputStack, m)
  <2>. TAKE m
  <2>1. ASSUME NEW i \in 1 .. n PROVE Rest[i].kind = "macro" /\ Rest[i].mac = m <=> inputStack[i].kind = "macro" /\ inputStack[i].mac = m
    BY <1>1
  <2>. QED  BY <1>1, <2>1, Zenon DEF MacroAt
<1>3. \A p \in Nat : LiveAbove(Rest, p) \subseteq LiveAbove(inputStack, p)
  BY <1>1 DEF LiveAbove
<1>4. token = Marker => n \in 1 .. n /\ Live(inputStack[n]) /\ ~Live(Rest[n])
  <2>1. token = Marker => n # 0
    BY <1>1 DEF TypeInv
  <2>2. token = Marker => n \in 1 .. n
    BY <1>1, <2>1
  <2>. QED  BY <1>1, <2>2
<1>5. \A p \in Nat : token = Marker /\ p < n => n \in LiveAbove(inputStack, p) /\ n \notin LiveAbove(Rest, p)
  BY <1>1, <1>4 DEF LiveAbove
<1>6. ASSUME token = Marker, NEW p \in Nat, p = 0 \/ (p \in 1 .. n /\ inputStack[p].kind = "macro") PROVE p < n
  <2>1. n # 0 /\ inputStack[n].kind # "macro"
    BY <1>4, <1>6 DEF Live
  <2>. QED  BY <1>1, <1>6, <2>1
<1>7. Lines(Rest)
  <2>. SUFFICES ASSUME NEW i \in 1 .. n, i > 1, Rest[i].kind # "macro"
                PROVE  Rest[i].rest \in Seq(PlainToken) \/ Rest[i].rest = <<Marker>>
    BY <1>1 DEF Lines
  <2>1. inputStack[i].kind # "macro" /\ (inputStack[i].rest \in Seq(PlainToken) \/ inputStack[i].rest = <<Marker>>)
    BY <1>1 DEF Lines
  <2>2. CASE i < n
    BY <2>1, <2>2 DEF Scanned
  <2>3. CASE i = n
    <3>1. inputStack # <<>> /\ top = inputStack[n] /\ top.kind # "macro"
      BY <1>1, <2>1, <2>3 DEF Scanned
    <3>2. CASE top.rest = <<Marker>>
      <4>1. Rest[n].rest = <<>>
        BY <3>1, <3>2 DEF Scanned, Live
      <4>. QED  BY <2>3, <4>1
    <3>3. CASE top.rest \in Seq(PlainToken)
      BY <2>3, <3>1, <3>3 DEF Scanned
    <3>. QED  BY <2>1, <2>3, <3>1, <3>2, <3>3
  <2>. QED  BY <1>1, <2>2, <2>3
<1>8. ASSUME token \in SourceToken \ PlainToken
      PROVE  n = 1 /\ inputStack[1].kind # "macro" /\ LiveAbove(Rest, 0) = {}
  <2>1. token # Marker /\ token # EndOfInput
    BY <1>8, TokenSets
  <2>2. inputStack # <<>> /\ top.kind # "macro" /\ top = inputStack[n] /\ ~Live(top) /\ top.rest \notin Seq(PlainToken)
        /\ ~Live(Rest[n])
    BY <1>8, <2>1 DEF Scanned
  <2>3. n # 0 /\ ~(n > 1)
    BY <1>1, <2>2 DEF Lines, Live, TypeInv
  <2>4. n = 1
    BY <1>1, <2>3
  <2>. QED  BY <1>1, <2>2, <2>4 DEF LiveAbove
<1>. QED  BY <1>2, <1>3, <1>5, <1>6, <1>7, <1>8

\* ... and once an input has been added.
Adds(r, s, x) ==
    /\ Len(s) \in Nat /\ Len(r) = Len(s) + 1 /\ r[Len(s) + 1] = x /\ \A i \in 1 .. Len(s) : r[i] = s[i]
    /\ \A m : MacroAt(r, m) = MacroAt(s, m) \cup (IF x.kind = "macro" /\ x.mac = m THEN {Len(s) + 1} ELSE {})
    /\ \A p \in Nat : LiveAbove(r, p) \subseteq LiveAbove(s, p) \cup (IF Live(x) THEN {Len(s) + 1} ELSE {})
    /\ LiveAbove(r, Len(s) + 1) = {}

LEMMA AddedPlaces ==
    ASSUME NEW table, NEW s \in Seq(Input(table)), NEW x \in Input(table)
    PROVE  /\ Append(s, x) \in Seq(Input(table)) /\ Adds(Append(s, x), s, x)
           /\ Lines(s) /\ (x.kind # "macro" => x.rest \in Seq(PlainToken) \/ x.rest = <<Marker>>) => Lines(Append(s, x))
<1>. DEFINE r == Append(s, x)
            n == Len(s)
<1>1. r \in Seq(Input(table)) /\ Len(r) = n + 1 /\ n \in Nat /\ r[n + 1] = x /\ \A i \in 1 .. n : r[i] = s[i]
  BY Appended
<1>. HIDE DEF r
<1>2. 1 .. n + 1 = (1 .. n) \cup {n + 1} /\ n + 1 \notin 1 .. n
  BY <1>1
<1>3. ASSUME NEW m PROVE MacroAt(r, m) = MacroAt(s, m) \cup (IF x.kind = "macro" /\ x.mac = m THEN {n + 1} ELSE {})
  BY <1>1, <1>2, Zenon DEF MacroAt
<1>4. ASSUME NEW p \in Nat PROVE LiveAbove(r, p) \subseteq LiveAbove(s, p) \cup (IF Live(x) THEN {n + 1} ELSE {})
  BY <1>1, <1>2, Zenon DEF LiveAbove
<1>5. LiveAbove(r, n + 1) = {}
  BY <1>1 DEF LiveAbove
<1>6. ASSUME Lines(s), x.kind # "macro" => x.rest \in Seq(PlainToken) \/ x.rest = <<Marker>> PROVE Lines(r)
  BY <1>1, <1>2, <1>6, Zenon DEF Lines
<1>7. Adds(r, s, x)
  BY <1>1, <1>3, <1>4, <1>5, Zenon DEF Adds
<1>. QED  BY <1>1, <1>6, <1>7 DEF r

(* The scans that a step keeps stay inside.                                 *)
LEMMA SameInside ==
    ASSUME TypeInv, BusyInv, Inside(expansions, inputStack, currentPos),
           NEW fs, NEW t, SameScans(expansions, fs, t),
           NEW r, \A i \in 1 .. Len(inputStack) : i < Len(inputStack) => r[i] = inputStack[i],
           Len(r) \in Nat, Len(r) >= Len(inputStack) - 1,
           Depth(expansions) > 0 /\ inputStack # <<>> /\ Live(top) => \E q \in Len(inputStack) .. Len(r) : Live(r[q]),
           NEW pos, \A m \in busy : pos[m] = currentPos[m] \/ (inputStack # <<>> /\ top.kind = "macro" /\ m = top.mac)
    PROVE  Inside(fs, r, pos)
<1>. DEFINE n == Len(inputStack)
            d == Depth(expansions)
<1>1. n \in Nat /\ d \in Nat /\ Depth(fs) = d /\ \A k \in 1 .. d : SameScan(expansions[k], fs[k])
      /\ (n # 0 => inputStack # <<>> /\ top = inputStack[n])
  BY Depths DEF TypeInv, SameScans, top, Last
<1>2. \A k \in 1 .. d :
             /\ Len(fs[k].outer) \in Nat /\ Len(fs[k].outer) < n /\ Unchanged(fs[k], r, pos)
             /\ Ceiling(expansions, inputStack, k) \in Nat /\ Ceiling(expansions, inputStack, k) <= n
             /\ k < d => Ceiling(expansions, inputStack, k) < n
             /\ \E p \in 1 .. Ceiling(expansions, inputStack, k) :
                  p > Len(fs[k].outer) /\ Live(inputStack[p]) /\ (p < n => Live(r[p]))
  <2>1. d <= Depth(expansions)
    BY <1>1
  <2>. HIDE DEF d
  <2>. QED  BY <1>1, <2>1, StaysInside DEF d
<1>. SUFFICES ASSUME NEW k \in 1 .. d
              PROVE  /\ Ceiling(fs, r, k) <= Len(r) /\ Unchanged(fs[k], r, pos)
                     /\ \E p \in 1 .. Ceiling(fs, r, k) : p > Len(fs[k].outer) /\ Live(r[p])
  BY <1>1 DEF Inside
<1>. DEFINE c == Ceiling(expansions, inputStack, k)
<1>3. /\ Len(fs[k].outer) \in Nat /\ Len(fs[k].outer) < n /\ Unchanged(fs[k], r, pos)
      /\ c \in Nat /\ c <= n /\ (k < d => c < n)
  BY <1>2
<1>4. PICK p \in 1 .. c : p > Len(fs[k].outer) /\ Live(inputStack[p]) /\ (p < n => Live(r[p]))
  BY <1>2
<1>5. CASE k < d
  <2>1. k + 1 \in 1 .. d
    BY <1>1, <1>5
  <2>2. Ceiling(fs, r, k) = c
    BY <1>1, <1>5, <2>1 DEF Ceiling, SameScan
  <2>. QED  BY <1>1, <1>3, <1>4, <1>5, <2>2
<1>6. CASE k = d
  <2>1. Ceiling(fs, r, k) = Len(r)
    BY <1>1, <1>6 DEF Ceiling
  <2>2. CASE p < n
    BY <1>1, <1>3, <1>4, <2>1, <2>2
  <2>3. CASE p = n
    <3>1. \E q \in n .. Len(r) : Live(r[q])
      BY <1>1, <1>3, <1>4, <1>6, <2>3
    <3>. QED  BY <1>1, <1>3, <2>1, <3>1
  <2>. QED  BY <1>1, <1>3, <1>4, <2>2, <2>3
<1>. QED  BY <1>1, <1>5, <1>6

\* what every step keeps
Keeps ==
    /\ inputStack \in Seq(Input(macroDefs)) /\ currentPos \in [DOMAIN macroDefs -> Nat \ {0}]
    /\ busy \in SUBSET DOMAIN macroDefs
    /\ MarkInv /\ BusyInv /\ Lines(inputStack) /\ InsideInv

\* The positions once the token has been taken.
LEMMA MovedPositions ==
    ASSUME TypeInv, Scanned
    PROVE  \A m \in busy : Moved[m] = currentPos[m] \/ (inputStack # <<>> /\ top.kind = "macro" /\ m = top.mac)
<1>. SUFFICES ASSUME NEW m \in busy PROVE Moved[m] = currentPos[m] \/ (inputStack # <<>> /\ top.kind = "macro" /\ m = top.mac)
  OBVIOUS
<1>1. m \in DOMAIN macroDefs
  BY DEF TypeInv
<1>2. CASE inputStack = <<>>
  BY <1>2 DEF Moved
<1>3. CASE inputStack # <<>>
  BY <1>1, <1>3 DEF Scanned
<1>. QED  BY <1>2, <1>3

LEMMA ReadingKeeps ==
    ASSUME IInv, Scanned, Reading, UNCHANGED macroDefs
    PROVE  Keeps'
<1>. DEFINE n == Len(inputStack)
<1>0. TypeInv /\ MarkInv /\ BusyInv /\ Lines(inputStack) /\ InsideInv
  BY DEF IInv, LineInv
<1>1. /\ inputStack' = Rest /\ currentPos' = Moved /\ busy' = busy /\ SameScans(expansions, expansions', token)
      /\ (Untroubled' => Untroubled /\ (Depth(expansions) = 0 \/ token # Marker))
  BY DEF Reading, Untouched
<1>2. /\ \A m : MacroAt(Rest, m) = MacroAt(inputStack, m)
      /\ \A p \in Nat : LiveAbove(Rest, p) \subseteq LiveAbove(inputStack, p)
      /\ Lines(Rest) /\ (token \in SourceToken \ PlainToken => LiveAbove(Rest, 0) = {})
  BY <1>0, TakenPlaces
<1>3. n \in Nat /\ Rest \in Seq(Input(macroDefs)) /\ Len(Rest) = n /\ Moved \in [DOMAIN macroDefs -> Nat \ {0}]
      /\ \A i \in 1 .. n : i < n => Rest[i] = inputStack[i]
  BY <1>0 DEF TypeInv, Scanned
<1>4. BusyInv'
  BY <1>0, <1>1, <1>2, Zenon DEF BusyInv, Sole
<1>5. MarkInv'
  <2>1. Nested(expansions, macroDefs) /\ inputStack \in Seq(Input(macroDefs)) /\ Marks(expansions, inputStack)
    BY <1>0 DEF TypeInv, MarkInv
  <2>2. \A p \in Nat : Cardinality(LiveAbove(Rest, p)) <= Cardinality(LiveAbove(inputStack, p))
    <3>. TAKE p \in Nat
    <3>1. IsFiniteSet(LiveAbove(inputStack, p))
      BY <2>1, LiveAboves
    <3>. QED  BY <1>2, <3>1, Counted
  <2>3. \A p \in Nat : IsFiniteSet(LiveAbove(Rest, p))
    BY <1>3, LiveAboves
  <2>4. \A m : \A p \in MacroAt(Rest, m) : p \in MacroAt(inputStack, m) \/ LiveAbove(Rest, p) = {}
    BY <1>2
  <2>5. Marks(expansions', Rest)
    BY <1>1, <1>2, <2>1, <2>2, <2>3, <2>4, SameMarks
  <2>. QED  BY <1>1, <2>5 DEF MarkInv
<1>6. InsideInv'
  <2>. SUFFICES ASSUME Untroubled' PROVE Inside(expansions', Rest, Moved)
    BY <1>1 DEF InsideInv
  <2>1. Inside(expansions, inputStack, currentPos)
    BY <1>0, <1>1 DEF InsideInv
  <2>2. \A m \in busy : Moved[m] = currentPos[m] \/ (inputStack # <<>> /\ top.kind = "macro" /\ m = top.mac)
    BY <1>0, MovedPositions
  <2>3. Depth(expansions) > 0 /\ inputStack # <<>> /\ Live(top) => \E q \in Len(inputStack) .. Len(Rest) : Live(Rest[q])
    <3>1. inputStack # <<>> /\ Live(top) => token = Marker
      BY DEF Scanned, Live
    <3>. QED  BY <1>1, <3>1
  <2>4. Len(Rest) \in Nat /\ Len(Rest) >= n - 1
    BY <1>3
  <2>. HIDE DEF n
  <2>. QED  BY <1>0, <1>1, <1>3, <2>1, <2>2, <2>3, <2>4, SameInside DEF n
<1>. QED  BY <1>0, <1>1, <1>2, <1>3, <1>4, <1>5, <1>6 DEF Keeps, TypeInv

LEMMA NewInputs ==
    ASSUME NEW table
    PROVE  /\ \A s \in Seq(PlainToken) : Tokens(s) \in Input(table) /\ ~Live(Tokens(s)) /\ Tokens(s).kind # "macro" /\ Tokens(s).rest = s
           /\ \A in \in {tMarkerInput, Tokens(<<Marker>>)} : in \in Input(table) /\ Live(in) /\ in.kind # "macro" /\ in.rest = <<Marker>>
<1>1. ASSUME NEW s \in Seq(PlainToken)
      PROVE  Tokens(s) \in Input(table) /\ ~Live(Tokens(s)) /\ Tokens(s).kind # "macro" /\ Tokens(s).rest = s
  <2>1. s \in Seq(SourceToken) /\ s # <<Marker>>
    BY TokenSets
  <2>. QED  BY <2>1 DEF Tokens, Live, Input, TokenInput
<1>2. Tokens(<<Marker>>) = [kind |-> "tokens", rest |-> <<Marker>>]
  BY DEF Tokens
<1>3. ASSUME NEW in \in {tMarkerInput, Tokens(<<Marker>>)}
      PROVE  in \in Input(table) /\ Live(in) /\ in.kind # "macro" /\ in.rest = <<Marker>>
  <2>1. in.kind \in {"tokens", "marker"} /\ in.rest = <<Marker>> /\ in = [kind |-> in.kind, rest |-> in.rest]
    BY <1>2 DEF tMarkerInput
  <2>2. in \in TokenInput
    BY <2>1, Zenon DEF TokenInput
  <2>. QED  BY <2>1, <2>2 DEF Live, Input
<1>. QED  BY <1>1, <1>3

LEMMA PopKeeps ==
    ASSUME IInv, popInput
    PROVE  Keeps' /\ CallsInv' /\ UNCHANGED macroDefs
<1>. DEFINE n == Len(inputStack)
            r == Front(inputStack)
<1>0. TypeInv /\ MarkInv /\ BusyInv /\ Lines(inputStack) /\ InsideInv /\ OpenInv
  BY DEF IInv, LineInv
<1>1. /\ inputStack # <<>> /\ AtEnd /\ inputStack' = r /\ busy' = NoLongerBusy
      /\ UNCHANGED <<macroDefs, currentPos, newLine, expansions, errors>>
  BY DEF popInput, macroVars
<1>2. inputStack \in Seq(Input(macroDefs)) /\ Nested(expansions, macroDefs) /\ currentPos \in [DOMAIN macroDefs -> Nat \ {0}]
      /\ busy \in SUBSET DOMAIN macroDefs
  BY <1>0 DEF TypeInv
<1>3. r \in Seq(Input(macroDefs)) /\ Len(r) = n - 1 /\ n \in Nat \ {0} /\ \A i \in 1 .. n - 1 : r[i] = inputStack[i]
  BY <1>1, <1>2, Popped
<1>4. top = inputStack[n] /\ ~Live(top)
  <2>1. <<>> # <<Marker>>
    OBVIOUS
  <2>. QED  BY <1>1, <2>1 DEF top, Last, Live, AtEnd
<1>5. busy' \subseteq busy /\ (top.kind = "macro" => busy' = busy \ {top.mac}) /\ (top.kind # "macro" => busy' = busy)
  BY <1>1 DEF NoLongerBusy
<1>. HIDE DEF r
<1>6. \A m : MacroAt(r, m) = MacroAt(inputStack, m) \ {n}
  BY <1>3 DEF MacroAt
<1>7. \A p \in Nat : LiveAbove(r, p) \subseteq LiveAbove(inputStack, p)
  BY <1>3 DEF LiveAbove
<1>8. Lines(r)
  <2>1. \A i \in 1 .. n - 1 : i \in 1 .. n
    BY <1>3
  <2>. QED  BY <1>0, <1>3, <2>1, Zenon DEF Lines
<1>9. BusyInv'
  <2>. SUFFICES ASSUME NEW m \in DOMAIN macroDefs
                PROVE  (m \in busy' <=> MacroAt(r, m) # {}) /\ \A i, j \in MacroAt(r, m) : i = j
    BY <1>1, Zenon DEF BusyInv, Sole
  <2>1. (m \in busy <=> MacroAt(inputStack, m) # {}) /\ \A i, j \in MacroAt(inputStack, m) : i = j
    BY <1>0 DEF BusyInv, Sole
  <2>2. n \in MacroAt(inputStack, m) <=> top.kind = "macro" /\ top.mac = m
    BY <1>3, <1>4 DEF MacroAt
  <2>3. MacroAt(r, m) = MacroAt(inputStack, m) \ {n}
    BY <1>6
  <2>4. CASE top.kind = "macro" /\ top.mac = m
    <3>1. MacroAt(r, m) = {} /\ m \notin busy'
      BY <1>5, <2>1, <2>2, <2>3, <2>4
    <3>. QED  BY <3>1
  <2>5. CASE ~(top.kind = "macro" /\ top.mac = m)
    <3>1. MacroAt(r, m) = MacroAt(inputStack, m) /\ (m \in busy' <=> m \in busy)
      BY <1>5, <2>2, <2>3, <2>5
    <3>. QED  BY <2>1, <3>1
  <2>. QED  BY <2>4, <2>5
<1>10. SameScans(expansions, expansions', EndOfInput) /\ EndOfInput \notin SourceToken
  BY <1>1, TokenSets DEF SameScans, SameScan
<1>11. MarkInv'
  <2>1. Marks(expansions, inputStack)
    BY <1>0 DEF MarkInv
  <2>2. \A p \in Nat : Cardinality(LiveAbove(r, p)) <= Cardinality(LiveAbove(inputStack, p))
    <3>. TAKE p \in Nat
    <3>1. IsFiniteSet(LiveAbove(inputStack, p))
      BY <1>2, LiveAboves
    <3>. QED  BY <1>7, <3>1, Counted
  <2>3. \A p \in Nat : IsFiniteSet(LiveAbove(r, p))
    BY <1>3, LiveAboves
  <2>4. \A m : \A p \in MacroAt(r, m) : p \in MacroAt(inputStack, m) \/ LiveAbove(r, p) = {}
    BY <1>6
  <2>5. Marks(expansions', r)
    BY <1>2, <1>10, <2>1, <2>2, <2>3, <2>4, SameMarks
  <2>. QED  BY <1>1, <2>5 DEF MarkInv
<1>12. InsideInv'
  <2>. SUFFICES ASSUME Untroubled' PROVE Inside(expansions', r, currentPos)
    BY <1>1 DEF InsideInv
  <2>1. Inside(expansions, inputStack, currentPos)
    BY <1>0, <1>1 DEF InsideInv, Untroubled, At, call
  <2>2. Len(r) \in Nat /\ Len(r) >= Len(inputStack) - 1 /\ \A i \in 1 .. Len(inputStack) : i < Len(inputStack) => r[i] = inputStack[i]
    BY <1>3
  <2>. HIDE DEF n
  <2>3. Depth(expansions) > 0 /\ inputStack # <<>> /\ Live(top) => \E q \in Len(inputStack) .. Len(r) : Live(r[q])
    BY <1>4
  <2>. QED  BY <1>0, <1>10, <2>1, <2>2, <2>3, SameInside
<1>13. CallsInv'
  <2>1. Nested(expansions', macroDefs')
    BY <1>1, <1>2
  <2>2. OpenInv'
    BY <1>0, <1>1, <1>5 DEF OpenInv, call, At
  <2>. QED  BY <2>1, <2>2 DEF CallsInv
<1>14. busy' \in SUBSET DOMAIN macroDefs /\ inputStack' = r /\ currentPos' = currentPos /\ macroDefs' = macroDefs
  BY <1>1, <1>2, <1>5
<1>15. Lines(inputStack)'
  BY <1>8, <1>14
<1>16. /\ inputStack' \in Seq(Input(macroDefs')) /\ currentPos' \in [DOMAIN macroDefs' -> Nat \ {0}]
       /\ busy' \in SUBSET DOMAIN macroDefs'
  BY <1>2, <1>3, <1>14
<1>. QED  BY <1>9, <1>11, <1>12, <1>13, <1>14, <1>15, <1>16, Zenon DEF Keeps

LEMMA ArgumentKeeps ==
    ASSUME IInv, scanArgument
    PROVE  Keeps' /\ CallsInv' /\ UNCHANGED macroDefs
<1>. DEFINE n == Len(inputStack)
            x == Tokens(Within(top.args[Parameter], top.hide))
            r == Append(inputStack, x)
<1>0. TypeInv /\ MarkInv /\ BusyInv /\ Lines(inputStack) /\ InsideInv /\ OpenInv
  BY DEF IInv, LineInv
<1>1. /\ inputStack # <<>> /\ inputStack' = r /\ currentPos' = Moved
      /\ UNCHANGED <<macroDefs, busy, newLine, expansions, errors>> /\ ~AtEnd /\ Parameter # 0
  BY DEF scanArgument, macroVars
<1>2. inputStack \in Seq(Input(macroDefs)) /\ Nested(expansions, macroDefs) /\ busy \in SUBSET DOMAIN macroDefs
  BY <1>0 DEF TypeInv
<1>3. /\ top.kind = "macro" /\ Moved \in [DOMAIN macroDefs -> Nat \ {0}]
      /\ \A m \in DOMAIN macroDefs : m # top.mac => Moved[m] = currentPos[m]
      /\ Within(top.args[Parameter], top.hide) \in Seq(PlainToken)
  <2>1. ArgumentScanned
    BY <1>0, <1>1, ArgumentScannedHolds
  <2>. QED  BY <2>1 DEF ArgumentScanned, Tokens
<1>4. x \in Input(macroDefs) /\ ~Live(x) /\ x.kind # "macro" /\ x.rest \in Seq(PlainToken)
  BY <1>3, NewInputs
<1>. HIDE DEF x
<1>5. r \in Seq(Input(macroDefs)) /\ Adds(r, inputStack, x) /\ Lines(r)
  BY <1>0, <1>2, <1>4, AddedPlaces
<1>. HIDE DEF r
<1>6. \A m : MacroAt(r, m) = MacroAt(inputStack, m)
  BY <1>4, <1>5 DEF Adds
<1>7. \A p \in Nat : LiveAbove(r, p) \subseteq LiveAbove(inputStack, p)
  BY <1>4, <1>5 DEF Adds
<1>8. BusyInv'
  BY <1>0, <1>1, <1>6, Zenon DEF BusyInv, Sole
<1>9. SameScans(expansions, expansions', EndOfInput) /\ EndOfInput \notin SourceToken
  BY <1>1, TokenSets DEF SameScans, SameScan
<1>10. MarkInv'
  <2>1. Marks(expansions, inputStack)
    BY <1>0 DEF MarkInv
  <2>2. \A p \in Nat : Cardinality(LiveAbove(r, p)) <= Cardinality(LiveAbove(inputStack, p))
    <3>. TAKE p \in Nat
    <3>1. IsFiniteSet(LiveAbove(inputStack, p))
      BY <1>2, LiveAboves
    <3>. QED  BY <1>7, <3>1, Counted
  <2>3. \A p \in Nat : IsFiniteSet(LiveAbove(r, p))
    BY <1>5, LiveAboves
  <2>4. \A m : \A p \in MacroAt(r, m) : p \in MacroAt(inputStack, m) \/ LiveAbove(r, p) = {}
    BY <1>6
  <2>5. Marks(expansions', r)
    BY <1>2, <1>9, <2>1, <2>2, <2>3, <2>4, SameMarks
  <2>. QED  BY <1>1, <2>5 DEF MarkInv
<1>11. InsideInv'
  <2>. SUFFICES ASSUME Untroubled' PROVE Inside(expansions', r, Moved)
    BY <1>1 DEF InsideInv
  <2>1. Inside(expansions, inputStack, currentPos)
    BY <1>0, <1>1 DEF InsideInv, Untroubled, At, call
  <2>2. Len(r) \in Nat /\ Len(r) >= Len(inputStack) - 1 /\ \A i \in 1 .. Len(inputStack) : i < Len(inputStack) => r[i] = inputStack[i]
    BY <1>5 DEF Adds
  <2>3. ~Live(top)
    BY <1>3 DEF Live
  <2>4. \A m \in busy : Moved[m] = currentPos[m] \/ (inputStack # <<>> /\ top.kind = "macro" /\ m = top.mac)
    BY <1>1, <1>2, <1>3
  <2>. HIDE DEF n
  <2>5. Depth(expansions) > 0 /\ inputStack # <<>> /\ Live(top) => \E q \in Len(inputStack) .. Len(r) : Live(r[q])
    BY <2>3
  <2>. QED  BY <1>0, <1>9, <2>1, <2>2, <2>4, <2>5, SameInside
<1>12. CallsInv'
  BY <1>0, <1>1, CallsSame
<1>13. /\ inputStack' \in Seq(Input(macroDefs')) /\ currentPos' \in [DOMAIN macroDefs' -> Nat \ {0}]
       /\ busy' \in SUBSET DOMAIN macroDefs' /\ Lines(inputStack)'
  BY <1>1, <1>2, <1>3, <1>5
<1>. QED  BY <1>1, <1>8, <1>10, <1>11, <1>12, <1>13, Zenon DEF Keeps

LEMMA PuttingBackKeeps ==
    ASSUME IInv, Scanned, PuttingBack, UNCHANGED macroDefs
    PROVE  Keeps'
<1>. DEFINE n == Len(inputStack)
            x == Tokens(<<token>>)
            r == Append(Rest, x)
<1>0. TypeInv /\ MarkInv /\ BusyInv /\ Lines(inputStack) /\ InsideInv
  BY DEF IInv, LineInv
<1>1. /\ inputStack' = r /\ currentPos' = Moved /\ busy' = busy /\ SameScans(expansions, expansions', token)
      /\ inputStack # <<>> /\ (token \in PlainToken \/ token = Marker) /\ (Untroubled' => Untroubled)
  BY DEF PuttingBack, Untouched
<1>2. /\ \A m : MacroAt(Rest, m) = MacroAt(inputStack, m)
      /\ \A p \in Nat : LiveAbove(Rest, p) \subseteq LiveAbove(inputStack, p)
      /\ \A p \in Nat : token = Marker /\ p < n => n \in LiveAbove(inputStack, p) /\ LiveAbove(Rest, p) \subseteq LiveAbove(inputStack, p) \ {n}
      /\ token = Marker => \A p \in Nat : p = 0 \/ (p \in 1 .. n /\ inputStack[p].kind = "macro") => p < n
      /\ Lines(Rest)
  BY <1>0, TakenPlaces
<1>3. n \in Nat /\ Rest \in Seq(Input(macroDefs)) /\ Len(Rest) = n /\ Moved \in [DOMAIN macroDefs -> Nat \ {0}]
      /\ (\A i \in 1 .. n : i < n => Rest[i] = inputStack[i])
      /\ inputStack \in Seq(Input(macroDefs)) /\ Nested(expansions, macroDefs) /\ busy \in SUBSET DOMAIN macroDefs
  BY <1>0 DEF TypeInv, Scanned
<1>4. /\ x \in Input(macroDefs) /\ x.kind # "macro" /\ (x.rest \in Seq(PlainToken) \/ x.rest = <<Marker>>)
      /\ Live(x) <=> token = Marker
  <2>1. CASE token \in PlainToken
    <3>. DEFINE s == <<token>>
    <3>1. s \in Seq(PlainToken) /\ token # Marker
      <4>1. token # Marker
        BY <2>1, TokenSets, Zenon
      <4>2. <<token>> \in Seq(PlainToken)
        BY <2>1
      <4>. QED  BY <4>1, <4>2
    <3>2. x = Tokens(s)
      OBVIOUS
    <3>. HIDE DEF s, x
    <3>. QED  BY <3>1, <3>2, NewInputs
  <2>2. CASE token = Marker
    <3>1. x \in {tMarkerInput, Tokens(<<Marker>>)}
      BY <2>2
    <3>. QED  BY <2>2, <3>1, NewInputs
  <2>. QED  BY <1>1, <2>1, <2>2
<1>. HIDE DEF x
<1>5. r \in Seq(Input(macroDefs)) /\ Adds(r, Rest, x) /\ Lines(r)
  BY <1>2, <1>3, <1>4, AddedPlaces
<1>. HIDE DEF r
<1>6. \A m : MacroAt(r, m) = MacroAt(inputStack, m)
  <2>1. \A m : MacroAt(r, m) = MacroAt(Rest, m) \cup (IF x.kind = "macro" /\ x.mac = m THEN {Len(Rest) + 1} ELSE {})
    BY <1>5, Zenon DEF Adds
  <2>2. \A m : MacroAt(r, m) = MacroAt(Rest, m)
    BY <1>4, <2>1
  <2>. QED  BY <1>2, <2>2
<1>7. BusyInv'
  BY <1>0, <1>1, <1>6, Zenon DEF BusyInv, Sole
<1>8. MarkInv'
  <2>1. Marks(expansions, inputStack)
    BY <1>0 DEF MarkInv
  <2>2. \A p \in Nat : p = 0 \/ (p \in 1 .. n /\ inputStack[p].kind = "macro") =>
          Cardinality(LiveAbove(r, p)) <= Cardinality(LiveAbove(inputStack, p))
    <3>. TAKE p \in Nat
    <3>. HAVE p = 0 \/ (p \in 1 .. n /\ inputStack[p].kind = "macro")
    <3>1. IsFiniteSet(LiveAbove(inputStack, p))
      BY <1>3, LiveAboves
    <3>2. CASE token = Marker
      <4>1. n \in LiveAbove(inputStack, p) /\ LiveAbove(r, p) \subseteq (LiveAbove(inputStack, p) \ {n}) \cup {n + 1}
        BY <1>2, <1>3, <1>4, <1>5, <3>2 DEF Adds
      <4>. QED  BY <3>1, <4>1, Counted
    <3>3. CASE token # Marker
      <4>1. LiveAbove(r, p) \subseteq LiveAbove(inputStack, p)
        BY <1>2, <1>3, <1>4, <1>5, <3>3 DEF Adds
      <4>. QED  BY <3>1, <4>1, Counted
    <3>. QED  BY <3>2, <3>3
  <2>3. \A p \in Nat : IsFiniteSet(LiveAbove(r, p))
    BY <1>5, LiveAboves
  <2>4. \A m : \A p \in MacroAt(r, m) : p \in MacroAt(inputStack, m) \/ LiveAbove(r, p) = {}
    BY <1>6
  <2>5. token \notin SourceToken \ PlainToken
    BY <1>1, TokenSets
  <2>. HIDE DEF n
  <2>6. Marks(expansions', r)
    BY <1>1, <1>3, <2>1, <2>2, <2>3, <2>4, <2>5, SameMarks DEF n
  <2>. QED  BY <1>1, <2>6 DEF MarkInv
<1>9. InsideInv'
  <2>. SUFFICES ASSUME Untroubled' PROVE Inside(expansions', r, Moved)
    BY <1>1 DEF InsideInv
  <2>1. Inside(expansions, inputStack, currentPos)
    BY <1>0, <1>1 DEF InsideInv
  <2>2. \A m \in busy : Moved[m] = currentPos[m] \/ (inputStack # <<>> /\ top.kind = "macro" /\ m = top.mac)
    BY <1>0, MovedPositions
  <2>3. Live(top) => token = Marker
    BY <1>1 DEF Scanned, Live
  <2>4. Depth(expansions) > 0 /\ inputStack # <<>> /\ Live(top) => \E q \in Len(inputStack) .. Len(r) : Live(r[q])
    <3>1. Live(top) => Live(r[n + 1]) /\ n + 1 \in n .. Len(r)
      BY <1>3, <1>4, <1>5, <2>3 DEF Adds
    <3>. QED  BY <3>1
  <2>5. Len(r) \in Nat /\ Len(r) >= Len(inputStack) - 1 /\ \A i \in 1 .. Len(inputStack) : i < Len(inputStack) => r[i] = inputStack[i]
    BY <1>3, <1>5 DEF Adds
  <2>. HIDE DEF n
  <2>. QED  BY <1>0, <1>1, <2>1, <2>2, <2>4, <2>5, SameInside
<1>10. /\ inputStack' \in Seq(Input(macroDefs')) /\ currentPos' \in [DOMAIN macroDefs' -> Nat \ {0}]
       /\ busy' \in SUBSET DOMAIN macroDefs' /\ Lines(inputStack)'
  BY <1>1, <1>3, <1>5
<1>. QED  BY <1>7, <1>8, <1>9, <1>10, Zenon DEF Keeps

(* A macro that is not on the stack is expanded.                            *)
LEMMA MacroAdded ==
    ASSUME IInv, Scanned, NEW name, NEW args, NEW hide, Pushing(Rest, name, args, hide), UNCHANGED macroDefs,
           MacroAt(inputStack, name.atom) = {}
    PROVE  /\ inputStack' \in Seq(Input(macroDefs')) /\ currentPos' \in [DOMAIN macroDefs' -> Nat \ {0}]
           /\ busy' \in SUBSET DOMAIN macroDefs' /\ Lines(inputStack)' /\ BusyInv'
           /\ Len(inputStack') = Len(inputStack) + 1 /\ Len(inputStack) \in Nat
           /\ \A i \in 1 .. Len(inputStack) : inputStack'[i] = Rest[i]
           /\ \A m : \A p \in MacroAt(inputStack', m) : p \in MacroAt(inputStack, m) \/ LiveAbove(inputStack', p) = {}
           /\ \A p \in Nat : LiveAbove(inputStack', p) \subseteq LiveAbove(Rest, p)
           /\ \A m \in busy : currentPos'[m] = currentPos[m] \/ (inputStack # <<>> /\ top.kind = "macro" /\ m = top.mac)
<1>. DEFINE n == Len(inputStack)
            x == tMacroInput(name.atom, args, hide)
            r == Append(Rest, x)
<1>0. TypeInv /\ BusyInv /\ Lines(inputStack)
  BY DEF IInv, LineInv
<1>1. /\ inputStack' = r /\ x \in MacroInput(macroDefs) /\ busy' = busy \cup {name.atom}
      /\ currentPos' = [Moved EXCEPT ![name.atom] = 1]
  BY DEF Pushing
<1>2. (\A m : MacroAt(Rest, m) = MacroAt(inputStack, m)) /\ Lines(Rest)
  BY <1>0, TakenPlaces
<1>3. /\ n \in Nat /\ Rest \in Seq(Input(macroDefs)) /\ Len(Rest) = n /\ Moved \in [DOMAIN macroDefs -> Nat \ {0}]
      /\ busy \in SUBSET DOMAIN macroDefs
  BY <1>0 DEF TypeInv, Scanned
<1>4. x.kind = "macro" /\ x.mac = name.atom /\ ~Live(x) /\ name.atom \in DOMAIN macroDefs /\ x \in Input(macroDefs)
  <2>1. x.kind = "macro" /\ x.mac = name.atom
    BY DEF tMacroInput
  <2>. HIDE DEF x
  <2>. QED  BY <1>1, <2>1 DEF MacroInput, Live, Input
<1>. HIDE DEF x
<1>5. r \in Seq(Input(macroDefs)) /\ Adds(r, Rest, x) /\ Lines(r)
  BY <1>2, <1>3, <1>4, AddedPlaces
<1>. HIDE DEF r
<1>6. /\ Len(r) = n + 1 /\ \A i \in 1 .. n : r[i] = Rest[i]
      /\ \A m : MacroAt(r, m) = MacroAt(inputStack, m) \cup (IF name.atom = m THEN {n + 1} ELSE {})
      /\ \A p \in Nat : LiveAbove(r, p) \subseteq LiveAbove(Rest, p)
      /\ LiveAbove(r, n + 1) = {}
  BY <1>2, <1>3, <1>4, <1>5 DEF Adds
<1>7. name.atom \notin busy
  BY <1>0, <1>4 DEF BusyInv, Sole
<1>8. BusyInv'
  <2>. SUFFICES ASSUME NEW m \in DOMAIN macroDefs
                PROVE  (m \in busy' <=> MacroAt(r, m) # {}) /\ \A i, j \in MacroAt(r, m) : i = j
    BY <1>1, Zenon DEF BusyInv, Sole
  <2>1. (m \in busy <=> MacroAt(inputStack, m) # {}) /\ \A i, j \in MacroAt(inputStack, m) : i = j
    BY <1>0 DEF BusyInv, Sole
  <2>2. CASE m = name.atom
    <3>1. MacroAt(r, m) = {n + 1} /\ m \in busy'
      BY <1>1, <1>6, <2>2
    <3>. QED  BY <3>1
  <2>3. CASE m # name.atom
    <3>1. MacroAt(r, m) = MacroAt(inputStack, m) /\ (m \in busy' <=> m \in busy)
      BY <1>1, <1>6, <2>3
    <3>. QED  BY <2>1, <3>1
  <2>. QED  BY <2>2, <2>3
<1>9. \A m : \A p \in MacroAt(r, m) : p \in MacroAt(inputStack, m) \/ LiveAbove(r, p) = {}
  BY <1>6
<1>10. ASSUME NEW m \in busy
       PROVE  currentPos'[m] = currentPos[m] \/ (inputStack # <<>> /\ top.kind = "macro" /\ m = top.mac)
  <2>1. m # name.atom /\ m \in DOMAIN macroDefs
    BY <1>3, <1>7
  <2>2. currentPos'[m] = Moved[m]
    BY <1>1, <1>3, <2>1
  <2>. QED  BY <1>0, <2>2, MovedPositions
<1>11. currentPos' \in [DOMAIN macroDefs -> Nat \ {0}]
  <2>1. \A S, T : \A f \in [S -> T], a \in S, v \in T : [f EXCEPT ![a] = v] \in [S -> T]
    OBVIOUS
  <2>2. 1 \in Nat \ {0}
    OBVIOUS
  <2>. QED  BY <1>1, <1>3, <1>4, <2>1, <2>2, Zenon
<1>12. busy' \in SUBSET DOMAIN macroDefs
  BY <1>1, <1>3, <1>4
<1>. QED  BY <1>1, <1>3, <1>5, <1>6, <1>8, <1>9, <1>10, <1>11, <1>12

LEMMA ExpandingKeeps ==
    ASSUME IInv, Scanned, Expanding, UNCHANGED macroDefs
    PROVE  Keeps'
<1>. DEFINE n == Len(inputStack)
<1>0. TypeInv /\ MarkInv /\ BusyInv /\ Lines(inputStack) /\ InsideInv
  BY DEF IInv, LineInv
<1>1. SameScans(expansions, expansions', token) /\ token \in PlainToken
  BY DEF Expanding
<1>2. PICK name \in Name(macroDefs), args \in Arguments, hide \in SUBSET STRING :
        name.atom \notin busy /\ Pushing(Rest, name, args, hide)
  BY DEF Expanding
<1>3. MacroAt(inputStack, name.atom) = {}
  BY <1>0, <1>2 DEF BusyInv, Sole, Name
<1>4. /\ inputStack' \in Seq(Input(macroDefs')) /\ currentPos' \in [DOMAIN macroDefs' -> Nat \ {0}]
      /\ busy' \in SUBSET DOMAIN macroDefs' /\ Lines(inputStack)' /\ BusyInv'
      /\ Len(inputStack') = n + 1 /\ n \in Nat
      /\ \A i \in 1 .. n : inputStack'[i] = Rest[i]
      /\ \A m : \A p \in MacroAt(inputStack', m) : p \in MacroAt(inputStack, m) \/ LiveAbove(inputStack', p) = {}
      /\ \A p \in Nat : LiveAbove(inputStack', p) \subseteq LiveAbove(Rest, p)
      /\ \A m \in busy : currentPos'[m] = currentPos[m] \/ (inputStack # <<>> /\ top.kind = "macro" /\ m = top.mac)
  BY <1>2, <1>3, MacroAdded
<1>5. \A p \in Nat : LiveAbove(inputStack', p) \subseteq LiveAbove(inputStack, p)
  BY <1>0, <1>4, TakenPlaces
<1>6. inputStack \in Seq(Input(macroDefs)) /\ Nested(expansions, macroDefs) /\ (\A i \in 1 .. n : i < n => Rest[i] = inputStack[i])
  BY <1>0 DEF TypeInv, Scanned
<1>7. token \notin SourceToken \ PlainToken /\ token # Marker
  BY <1>1, TokenSets, Zenon
<1>8. MarkInv'
  <2>1. Marks(expansions, inputStack)
    BY <1>0 DEF MarkInv
  <2>2. \A p \in Nat : Cardinality(LiveAbove(inputStack', p)) <= Cardinality(LiveAbove(inputStack, p))
    <3>. TAKE p \in Nat
    <3>1. IsFiniteSet(LiveAbove(inputStack, p))
      BY <1>6, LiveAboves
    <3>. QED  BY <1>5, <3>1, Counted
  <2>3. \A p \in Nat : IsFiniteSet(LiveAbove(inputStack', p))
    BY <1>4, LiveAboves
  <2>4. Marks(expansions', inputStack')
    BY <1>1, <1>4, <1>6, <1>7, <2>1, <2>2, <2>3, SameMarks
  <2>. QED  BY <2>4 DEF MarkInv
<1>9. InsideInv'
  <2>. SUFFICES ASSUME Untroubled' PROVE Inside(expansions', inputStack', currentPos')
    BY DEF InsideInv
  <2>1. Inside(expansions, inputStack, currentPos)
    BY <1>0, <1>2 DEF InsideInv, Pushing
  <2>2. inputStack # <<>> => ~Live(top)
    BY <1>7 DEF Scanned, Live
  <2>3. Len(inputStack') \in Nat /\ Len(inputStack') >= n - 1 /\ \A i \in 1 .. n : i < n => inputStack'[i] = inputStack[i]
    BY <1>4, <1>6
  <2>4. Depth(expansions) > 0 /\ inputStack # <<>> /\ Live(top) => \E q \in n .. Len(inputStack') : Live(inputStack'[q])
    BY <2>2
  <2>5. \A m \in busy : currentPos'[m] = currentPos[m] \/ (inputStack # <<>> /\ top.kind = "macro" /\ m = top.mac)
    BY <1>4
  <2>. QED  BY <1>0, <1>1, <2>1, <2>3, <2>4, <2>5, SameInside
<1>. QED  BY <1>4, <1>8, <1>9, Zenon DEF Keeps

(* An argument is begun.                                                    *)
LEMMA ScanAdded ==
    ASSUME IInv, Scanned, NEW name, Beginning(name), UNCHANGED macroDefs
    PROVE  /\ inputStack' \in Seq(Input(macroDefs)) /\ Lines(inputStack')
           /\ Len(inputStack') = Len(inputStack) + 2 /\ Len(inputStack) \in Nat
           /\ \A i \in 1 .. Len(inputStack) : inputStack'[i] = Rest[i]
           /\ Live(inputStack'[Len(inputStack) + 1])
           /\ \A m : MacroAt(inputStack', m) = MacroAt(inputStack, m)
           /\ \A p \in Nat : LiveAbove(inputStack', p) \subseteq LiveAbove(Rest, p) \cup {Len(inputStack) + 1}
<1>. DEFINE n == Len(inputStack)
            s == Append(Rest, tMarkerInput)
<1>0. TypeInv /\ BusyInv /\ Lines(inputStack)
  BY DEF IInv, LineInv
<1>1. PICK arg \in Seq(PlainToken) : inputStack' = Rest \o <<tMarkerInput, Tokens(arg)>>
  BY DEF Beginning
<1>. DEFINE x == Tokens(arg)
            r == Append(s, x)
<1>2. (\A m : MacroAt(Rest, m) = MacroAt(inputStack, m)) /\ Lines(Rest)
  BY <1>0, TakenPlaces
<1>3. n \in Nat /\ Rest \in Seq(Input(macroDefs)) /\ Len(Rest) = n
  BY <1>0 DEF TypeInv, Scanned
<1>4. /\ tMarkerInput \in Input(macroDefs) /\ Live(tMarkerInput) /\ tMarkerInput.kind # "macro" /\ tMarkerInput.rest = <<Marker>>
      /\ x \in Input(macroDefs) /\ ~Live(x) /\ x.kind # "macro" /\ x.rest \in Seq(PlainToken)
  BY NewInputs
<1>. HIDE DEF x
<1>5. inputStack' = r
  <2>1. \A S : \A t \in Seq(S), a \in S, b \in S : t \o <<a, b>> = Append(Append(t, a), b)
    OBVIOUS
  <2>. QED  BY <1>1, <1>3, <1>4, <2>1 DEF x
<1>6. s \in Seq(Input(macroDefs)) /\ Adds(s, Rest, tMarkerInput) /\ Lines(s)
  BY <1>2, <1>3, <1>4, AddedPlaces
<1>. HIDE DEF s
<1>7. r \in Seq(Input(macroDefs)) /\ Adds(r, s, x) /\ Lines(r)
  BY <1>4, <1>6, AddedPlaces
<1>. HIDE DEF r
<1>8. /\ Len(s) = n + 1 /\ s[n + 1] = tMarkerInput /\ \A i \in 1 .. n : s[i] = Rest[i]
      /\ \A m : MacroAt(s, m) = MacroAt(inputStack, m)
      /\ \A p \in Nat : LiveAbove(s, p) \subseteq LiveAbove(Rest, p) \cup {n + 1}
  BY <1>2, <1>3, <1>4, <1>6 DEF Adds
<1>9. /\ Len(r) = n + 2 /\ \A i \in 1 .. n + 1 : r[i] = s[i]
      /\ \A m : MacroAt(r, m) = MacroAt(s, m)
      /\ \A p \in Nat : LiveAbove(r, p) \subseteq LiveAbove(s, p)
  BY <1>3, <1>4, <1>7, <1>8 DEF Adds
<1>10. (\A i \in 1 .. n : r[i] = Rest[i]) /\ r[n + 1] = tMarkerInput
  BY <1>3, <1>8, <1>9
<1>11. \A m : MacroAt(r, m) = MacroAt(inputStack, m)
  BY <1>8, <1>9
<1>12. \A p \in Nat : LiveAbove(r, p) \subseteq LiveAbove(Rest, p) \cup {n + 1}
  BY <1>8, <1>9
<1>13. Live(r[n + 1])
  BY <1>4, <1>10
<1>. QED  BY <1>3, <1>5, <1>7, <1>9, <1>10, <1>11, <1>12, <1>13, Zenon

LEMMA BeginningKeeps ==
    ASSUME IInv, Scanned, UNCHANGED macroDefs, NEW name, Beginning(name), expansions # <<>>,
           Len(expansions') = Len(expansions), \A k \in 1 .. Len(expansions) - 1 : expansions'[k] = expansions[k],
           MacroAt(inputStack, name.atom) = {},
           Depth(expansions) = Len(expansions) - 1 => token \in PlainToken,
           Depth(expansions) = Len(expansions) => inputStack = <<>> \/ token = Marker
    PROVE  Keeps'
<1>. DEFINE n == Len(inputStack)
            N == Len(expansions)
            r == inputStack'
            fs == expansions'
<1>0. TypeInv /\ MarkInv /\ BusyInv /\ Lines(inputStack) /\ InsideInv
  BY DEF IInv, LineInv
<1>1. /\ currentPos' = Moved /\ busy' = busy /\ (Untroubled' => Untroubled)
      /\ fs # <<>> /\ fs[Len(fs)].at = "prescan" /\ fs[N].name = name /\ fs[N].outer = Rest /\ fs[N].outerPos = Moved /\ Plain(fs[N])
  BY DEF Beginning
<1>2. /\ r \in Seq(Input(macroDefs)) /\ Lines(r) /\ Len(r) = n + 2 /\ n \in Nat
      /\ \A i \in 1 .. n : r[i] = Rest[i]
      /\ Live(r[n + 1])
      /\ \A m : MacroAt(r, m) = MacroAt(inputStack, m)
      /\ \A p \in Nat : LiveAbove(r, p) \subseteq LiveAbove(Rest, p) \cup {n + 1}
  BY ScanAdded
<1>3. /\ inputStack \in Seq(Input(macroDefs)) /\ Nested(expansions, macroDefs) /\ busy \in SUBSET DOMAIN macroDefs
      /\ Rest \in Seq(Input(macroDefs)) /\ Len(Rest) = n /\ Moved \in [DOMAIN macroDefs -> Nat \ {0}]
      /\ (\A i \in 1 .. n : i < n => Rest[i] = inputStack[i])
  BY <1>0 DEF TypeInv, Scanned
<1>4. N \in Nat \ {0} /\ Depth(fs) = N /\ Depth(expansions) \in {N - 1, N}
      /\ \A k \in 1 .. N : k < N => fs[k] = expansions[k]
  <2>1. N \in Nat /\ N # 0
    BY <1>3 DEF Nested
  <2>2. Depth(expansions) \in {N - 1, N}
    BY <1>3, Depths
  <2>. QED  BY <1>1, <2>1, <2>2 DEF Depth
<1>5. /\ \A p \in Nat : LiveAbove(Rest, p) \subseteq LiveAbove(inputStack, p)
      /\ \A p \in Nat : token = Marker /\ p < n => n \in LiveAbove(inputStack, p) /\ LiveAbove(Rest, p) \subseteq LiveAbove(inputStack, p) \ {n}
      /\ token = Marker => \A p \in Nat : p = 0 \/ (p \in 1 .. n /\ inputStack[p].kind = "macro") => p < n
  BY <1>0, TakenPlaces
<1>6. BusyInv'
  BY <1>0, <1>1, <1>2, Zenon DEF BusyInv, Sole
<1>7. MarkInv'
  <2>. SUFFICES ASSUME NEW k \in 1 .. N, NEW p \in Places(fs[k], r)
                PROVE  Cardinality(LiveAbove(r, p)) <= N - k
    BY <1>4 DEF MarkInv, Marks
  <2>1. CASE k = N
    <3>1. Places(fs[k], r) = {}
      BY <1>1, <1>2, <2>1 DEF Places
    <3>. QED  BY <3>1
  <2>2. CASE k < N
    <3>. DEFINE d == Depth(expansions)
                S == LiveAbove(inputStack, p)
    <3>1. fs[k] = expansions[k] /\ k \in 1 .. d
      BY <1>4, <2>2
    <3>2. p \in Places(expansions[k], inputStack)
      BY <1>2, <3>1 DEF Places
    <3>3. p \in Nat /\ (p = 0 \/ (p \in 1 .. n /\ inputStack[p].kind = "macro"))
      BY <1>2, <3>2 DEF Places, MacroAt
    <3>4. Cardinality(S) <= d - k
      BY <1>0, <3>1, <3>2 DEF MarkInv, Marks
    <3>5. IsFiniteSet(S) /\ Cardinality(S) \in Nat /\ IsFiniteSet(LiveAbove(r, p)) /\ Cardinality(LiveAbove(r, p)) \in Nat
      BY <1>2, <1>3, LiveAboves
    <3>6. LiveAbove(r, p) \subseteq S \cup {n + 1}
      BY <1>2, <1>5, <3>3
    <3>7. Cardinality(LiveAbove(r, p)) <= Cardinality(S) + 1
      <4>. HIDE DEF S
      <4>. QED  BY <3>5, <3>6, Counted
    <3>8. CASE d = N - 1
      <4>. HIDE DEF S, d
      <4>. QED  BY <1>4, <3>4, <3>5, <3>7, <3>8
    <3>9. CASE d = N /\ token = Marker
      <4>1. n \in S /\ LiveAbove(r, p) \subseteq (S \ {n}) \cup {n + 1}
        BY <1>2, <1>5, <3>3, <3>9
      <4>2. Cardinality(LiveAbove(r, p)) <= Cardinality(S)
        <5>. HIDE DEF S
        <5>. QED  BY <3>5, <4>1, Counted
      <4>. HIDE DEF S, d
      <4>. QED  BY <1>4, <3>4, <3>5, <3>9, <4>2
    <3>10. CASE d = N /\ inputStack = <<>>
      <4>1. S = {}
        BY <3>10 DEF LiveAbove
      <4>2. Cardinality(S) = 0
        BY <4>1, FS_EmptySet
      <4>. HIDE DEF S, d
      <4>. QED  BY <1>4, <2>2, <3>5, <3>7, <4>2
    <3>. QED  BY <1>4, <3>8, <3>9, <3>10
  <2>. QED  BY <1>4, <2>1, <2>2
<1>8. InsideInv'
  <2>. SUFFICES ASSUME Untroubled' PROVE Inside(fs, r, Moved)
    BY <1>1 DEF InsideInv
  <2>1. Inside(expansions, inputStack, currentPos)
    BY <1>0, <1>1 DEF InsideInv
  <2>. DEFINE d == N - 1
  <2>2. d \in Nat /\ d <= Depth(expansions) /\ \A k \in 1 .. d : SameScan(expansions[k], fs[k])
    BY <1>4 DEF SameScan
  <2>3. \A m \in busy : Moved[m] = currentPos[m] \/ (inputStack # <<>> /\ top.kind = "macro" /\ m = top.mac)
    BY <1>0, MovedPositions
  <2>4. \A i \in 1 .. n : i < n => r[i] = inputStack[i]
    BY <1>2, <1>3
  <2>5. \A k \in 1 .. d :
             /\ Len(fs[k].outer) \in Nat /\ Len(fs[k].outer) < n /\ Unchanged(fs[k], r, Moved)
             /\ Ceiling(expansions, inputStack, k) \in Nat /\ Ceiling(expansions, inputStack, k) <= n
             /\ k < Depth(expansions) => Ceiling(expansions, inputStack, k) < n
             /\ \E p \in 1 .. Ceiling(expansions, inputStack, k) :
                  p > Len(fs[k].outer) /\ Live(inputStack[p]) /\ (p < n => Live(r[p]))
    <3>. HIDE DEF d
    <3>. QED  BY <1>0, <2>1, <2>2, <2>3, <2>4, StaysInside
  <2>. SUFFICES ASSUME NEW k \in 1 .. N
                PROVE  /\ Ceiling(fs, r, k) <= Len(r) /\ Unchanged(fs[k], r, Moved)
                       /\ \E p \in 1 .. Ceiling(fs, r, k) : p > Len(fs[k].outer) /\ Live(r[p])
    BY <1>4 DEF Inside
  <2>6. CASE k = N
    <3>1. Ceiling(fs, r, k) = n + 2 /\ Len(fs[k].outer) = n
      BY <1>1, <1>2, <1>3, <1>4, <2>6 DEF Ceiling
    <3>2. Unchanged(fs[k], r, Moved)
      BY <1>1, <1>2, <1>3, <2>6 DEF Unchanged
    <3>3. n + 1 \in 1 .. n + 2 /\ n + 1 > n
      BY <1>2
    <3>. QED  BY <1>2, <3>1, <3>2, <3>3
  <2>7. CASE k < N
    <3>. DEFINE c == Ceiling(expansions, inputStack, k)
    <3>1. k \in 1 .. d /\ (k < d => k + 1 \in 1 .. N /\ k + 1 < N)
      BY <1>4, <2>7
    <3>2. /\ Len(fs[k].outer) \in Nat /\ Len(fs[k].outer) < n /\ Unchanged(fs[k], r, Moved)
          /\ c \in Nat /\ c <= n /\ (k < Depth(expansions) => c < n)
      BY <2>5, <3>1
    <3>3. PICK p \in 1 .. c : p > Len(fs[k].outer) /\ Live(inputStack[p]) /\ (p < n => Live(r[p]))
      BY <2>5, <3>1
    <3>4. Ceiling(fs, r, k) \in Nat /\ c <= Ceiling(fs, r, k) /\ Ceiling(fs, r, k) <= n
      <4>1. CASE k < d
        <5>1. Ceiling(fs, r, k) = Len(expansions[k + 1].outer) /\ c = Len(expansions[k + 1].outer)
          BY <1>4, <2>7, <3>1, <4>1 DEF Ceiling
        <5>. QED  BY <3>2, <5>1
      <4>2. CASE k = d
        <5>1. Ceiling(fs, r, k) = n
          BY <1>1, <1>3, <1>4, <2>7, <4>2 DEF Ceiling
        <5>. QED  BY <1>2, <3>2, <5>1
      <4>. QED  BY <1>4, <3>1, <4>1, <4>2
    <3>5. p < n
      <4>1. CASE k < Depth(expansions)
        BY <1>2, <3>2, <3>3, <4>1
      <4>2. CASE k = Depth(expansions)
        <5>1. token \in PlainToken /\ token # Marker
          <6>1. token \in PlainToken
            BY <1>4, <2>7, <4>2
          <6>. QED  BY <6>1, TokenSets, Zenon
        <5>2. inputStack # <<>> => top = inputStack[n] /\ ~Live(top)
          BY <5>1 DEF Scanned, Live
        <5>3. inputStack # <<>>
          BY <3>2
        <5>. QED  BY <1>2, <3>2, <3>3, <5>2, <5>3
      <4>. QED  BY <2>2, <3>1, <4>1, <4>2, <1>4
    <3>. HIDE DEF c
    <3>. QED  BY <1>2, <3>2, <3>3, <3>4, <3>5, SMTT(30)
  <2>. QED  BY <1>4, <2>6, <2>7
<1>9. /\ inputStack' \in Seq(Input(macroDefs')) /\ currentPos' \in [DOMAIN macroDefs' -> Nat \ {0}]
      /\ busy' \in SUBSET DOMAIN macroDefs' /\ Lines(inputStack)'
  BY <1>1, <1>2, <1>3
<1>. QED  BY <1>6, <1>7, <1>8, <1>9, Zenon DEF Keeps

\* The macro whose last argument has been scanned is not on the stack.
LEMMA EndedScan ==
    ASSUME IInv, Scanned, ScanEnds
    PROVE  MacroAt(inputStack, call.name.atom) = {}
<1>. DEFINE n == Len(inputStack)
            N == Len(expansions)
<1>0. TypeInv /\ MarkInv /\ Lines(inputStack) /\ expansions # <<>> /\ At("prescan")
  BY DEF IInv, LineInv, ScanEnds, At
<1>1. N \in Nat \ {0} /\ call = expansions[N] /\ Depth(expansions) = N
  BY <1>0, Calls DEF At, Depth
<1>. SUFFICES ASSUME NEW p \in MacroAt(inputStack, call.name.atom) PROVE FALSE
  OBVIOUS
<1>2. p \in 1 .. n /\ inputStack[p].kind = "macro" /\ p \in Places(expansions[N], inputStack) /\ p \in Nat /\ inputStack # <<>>
  BY <1>1 DEF MacroAt, Places
<1>3. token = Marker
  BY <1>2 DEF ScanEnds
<1>4. p < n
  BY <1>0, <1>2, <1>3, TakenPlaces
<1>5. n \in LiveAbove(inputStack, p)
  BY <1>0, <1>2, <1>3, <1>4, TakenPlaces
<1>6. Cardinality(LiveAbove(inputStack, p)) <= N - N
  BY <1>0, <1>1, <1>2 DEF MarkInv, Marks
<1>7. LiveAbove(inputStack, p) = {}
  BY <1>0, <1>1, <1>6, LiveAboves DEF TypeInv
<1>. QED  BY <1>5, <1>7

LEMMA LastScanKeeps ==
    ASSUME IInv, Scanned, LastScan, UNCHANGED macroDefs
    PROVE  Keeps'
<1>. DEFINE n == Len(inputStack)
            N == Len(expansions)
            r == inputStack'
            fs == expansions'
            d == N - 1
<1>0. TypeInv /\ MarkInv /\ BusyInv /\ Lines(inputStack) /\ InsideInv /\ ScanEnds /\ expansions # <<>> /\ At("prescan")
  BY DEF IInv, LineInv, LastScan, ScanEnds, At
<1>1. PICK args \in Arguments, hide \in SUBSET STRING : Pushing(Rest, call.name, args, hide)
  BY DEF LastScan
<1>2. MacroAt(inputStack, call.name.atom) = {}
  BY <1>0, EndedScan
<1>3. /\ inputStack' \in Seq(Input(macroDefs')) /\ currentPos' \in [DOMAIN macroDefs' -> Nat \ {0}]
      /\ busy' \in SUBSET DOMAIN macroDefs' /\ Lines(inputStack)' /\ BusyInv'
      /\ Len(r) = n + 1 /\ n \in Nat
      /\ \A i \in 1 .. n : r[i] = Rest[i]
      /\ \A m : \A p \in MacroAt(r, m) : p \in MacroAt(inputStack, m) \/ LiveAbove(r, p) = {}
      /\ \A p \in Nat : LiveAbove(r, p) \subseteq LiveAbove(Rest, p)
      /\ \A m \in busy : currentPos'[m] = currentPos[m] \/ (inputStack # <<>> /\ top.kind = "macro" /\ m = top.mac)
  BY <1>1, <1>2, MacroAdded
<1>4. fs = Return
  BY DEF LastScan
<1>5. /\ N \in Nat \ {0} /\ Depth(expansions) = N /\ Depth(fs) = d /\ Len(fs) = d
      /\ \A k \in 1 .. N : k < N => fs[k] = expansions[k]
  BY <1>0, <1>4, Calls DEF At, Depth
<1>6. /\ \A p \in Nat : LiveAbove(Rest, p) \subseteq LiveAbove(inputStack, p)
      /\ \A p \in Nat : token = Marker /\ p < n => n \in LiveAbove(inputStack, p) /\ LiveAbove(Rest, p) \subseteq LiveAbove(inputStack, p) \ {n}
      /\ token = Marker => \A p \in Nat : p = 0 \/ (p \in 1 .. n /\ inputStack[p].kind = "macro") => p < n
  BY <1>0, TakenPlaces
<1>7. inputStack \in Seq(Input(macroDefs)) /\ (\A i \in 1 .. n : i < n => Rest[i] = inputStack[i])
  BY <1>0 DEF TypeInv, Scanned
<1>8. MarkInv'
  <2>. SUFFICES ASSUME NEW k \in 1 .. d, NEW p \in Places(fs[k], r)
                PROVE  Cardinality(LiveAbove(r, p)) <= d - k
    BY <1>5 DEF MarkInv, Marks
  <2>. DEFINE S == LiveAbove(inputStack, p)
  <2>1. fs[k] = expansions[k] /\ k \in 1 .. N /\ d \in Nat
    BY <1>5
  <2>2. CASE LiveAbove(r, p) = {}
    <3>1. Cardinality(LiveAbove(r, p)) = 0
      BY <2>2, FS_EmptySet
    <3>. QED  BY <2>1, <3>1
  <2>3. CASE p \in Places(expansions[k], inputStack)
    <3>1. p \in Nat /\ (p = 0 \/ (p \in 1 .. n /\ inputStack[p].kind = "macro"))
      BY <1>3, <2>3 DEF Places, MacroAt
    <3>2. Cardinality(S) <= N - k
      BY <1>0, <1>5, <2>1, <2>3 DEF MarkInv, Marks
    <3>3. IsFiniteSet(S) /\ Cardinality(S) \in Nat /\ IsFiniteSet(LiveAbove(r, p)) /\ Cardinality(LiveAbove(r, p)) \in Nat
      BY <1>3, <1>7, LiveAboves
    <3>4. CASE token = Marker
      <4>1. n \in S /\ LiveAbove(r, p) \subseteq S \ {n}
        BY <1>3, <1>6, <3>1, <3>4
      <4>2. Cardinality(LiveAbove(r, p)) <= Cardinality(S) - 1
        <5>. HIDE DEF S
        <5>. QED  BY <3>3, <4>1, Counted
      <4>. HIDE DEF S
      <4>. QED  BY <1>5, <3>2, <3>3, <4>2
    <3>5. CASE inputStack = <<>>
      <4>1. S = {} /\ LiveAbove(r, p) \subseteq S
        BY <1>3, <1>6, <3>1, <3>5 DEF LiveAbove
      <4>. QED  BY <2>2, <4>1
    <3>. QED  BY <1>0, <3>4, <3>5 DEF ScanEnds
  <2>. QED  BY <1>3, <2>1, <2>2, <2>3 DEF Places
<1>9. InsideInv'
  <2>. SUFFICES ASSUME Untroubled' PROVE Inside(fs, r, currentPos')
    BY DEF InsideInv
  <2>1. Inside(expansions, inputStack, currentPos)
    BY <1>0, <1>1 DEF InsideInv, Pushing
  <2>2. d \in Nat /\ d <= Depth(expansions) /\ \A k \in 1 .. d : SameScan(expansions[k], fs[k])
    BY <1>5 DEF SameScan
  <2>3. \A i \in 1 .. n : i < n => r[i] = inputStack[i]
    BY <1>3, <1>7
  <2>4. \A k \in 1 .. d :
             /\ Len(fs[k].outer) \in Nat /\ Len(fs[k].outer) < n /\ Unchanged(fs[k], r, currentPos')
             /\ Ceiling(expansions, inputStack, k) \in Nat /\ Ceiling(expansions, inputStack, k) <= n
             /\ k < Depth(expansions) => Ceiling(expansions, inputStack, k) < n
             /\ \E p \in 1 .. Ceiling(expansions, inputStack, k) :
                  p > Len(fs[k].outer) /\ Live(inputStack[p]) /\ (p < n => Live(r[p]))
    <3>. HIDE DEF d
    <3>. QED  BY <1>0, <1>3, <2>1, <2>2, <2>3, StaysInside
  <2>. SUFFICES ASSUME NEW k \in 1 .. d
                PROVE  /\ Ceiling(fs, r, k) <= Len(r) /\ Unchanged(fs[k], r, currentPos')
                       /\ \E p \in 1 .. Ceiling(fs, r, k) : p > Len(fs[k].outer) /\ Live(r[p])
    BY <1>5 DEF Inside
  <2>. DEFINE c == Ceiling(expansions, inputStack, k)
  <2>5. k < Depth(expansions) /\ (k < d => k + 1 \in 1 .. N /\ k + 1 < N)
    BY <1>5
  <2>6. /\ Len(fs[k].outer) \in Nat /\ Len(fs[k].outer) < n /\ Unchanged(fs[k], r, currentPos')
        /\ c \in Nat /\ c < n
    BY <2>4, <2>5
  <2>7. PICK p \in 1 .. c : p > Len(fs[k].outer) /\ Live(inputStack[p]) /\ (p < n => Live(r[p]))
    BY <2>4
  <2>8. Ceiling(fs, r, k) \in Nat /\ c <= Ceiling(fs, r, k) /\ Ceiling(fs, r, k) <= n + 1
    <3>1. CASE k < d
      <4>1. Ceiling(fs, r, k) = Len(expansions[k + 1].outer) /\ c = Len(expansions[k + 1].outer)
        BY <1>5, <2>5, <3>1 DEF Ceiling
      <4>. QED  BY <1>3, <2>6, <4>1
    <3>2. CASE k = d
      <4>1. Ceiling(fs, r, k) = n + 1
        BY <1>3, <1>5, <3>2 DEF Ceiling
      <4>. QED  BY <1>3, <2>6, <4>1
    <3>. QED  BY <1>5, <3>1, <3>2
  <2>. HIDE DEF c
  <2>. QED  BY <1>3, <2>6, <2>7, <2>8
<1>. QED  BY <1>3, <1>8, <1>9, Zenon DEF Keeps

(* Line ends, and the flags.                                                *)
LEMMA NewLines ==
    ASSUME IInv, Next
    PROVE  /\ newLine' \in BOOLEAN /\ errors' \in BOOLEAN
           /\ newLine' => /\ expansions' = <<>> \/ At("undef")'
                          /\ Len(inputStack') <= 1 /\ \A i \in 1 .. Len(inputStack') : inputStack'[i].kind # "macro"
<1>0. /\ TypeInv /\ Lines(inputStack) /\ OpenInv /\ newLine \in BOOLEAN /\ errors \in BOOLEAN
      /\ newLine => /\ expansions = <<>> \/ At("undef")
                    /\ Len(inputStack) <= 1 /\ \A i \in 1 .. Len(inputStack) : inputStack[i].kind # "macro"
  BY DEF IInv, LineInv, TypeInv
<1>. DEFINE Goal == /\ newLine' \in BOOLEAN /\ errors' \in BOOLEAN
                    /\ newLine' => /\ expansions' = <<>> \/ At("undef")'
                                   /\ Len(inputStack') <= 1 /\ \A i \in 1 .. Len(inputStack') : inputStack'[i].kind # "macro"
<1>. USE DEF Quiet, Taken, macroVars
<1>1. ASSUME newLine' = FALSE, errors' \in BOOLEAN PROVE Goal
  BY <1>1
<1>2. CASE TokenizeMacro
  <2>1. newLine' = FALSE /\ errors' = errors
    BY <1>2, Zenon DEF TokenizeMacro, MacroExpand
  <2>. QED  BY <1>0, <1>1, <2>1
<1>3. CASE TokenizeToken
  BY <1>0, <1>1, <1>3 DEF TokenizeToken
<1>4. ASSUME At("paren") \/ At("args") \/ At("recover") \/ At("prescan"), newLine' = newLine, errors' \in BOOLEAN PROVE Goal
  <2>1. newLine = FALSE
    BY <1>0, <1>4 DEF At
  <2>. QED  BY <1>1, <1>4, <2>1
<1>5. CASE CallBegins \/ NoCall \/ SkipNewLine \/ NextArgument \/ Record \/ SkipExcess
  BY <1>0, <1>4, <1>5 DEF CallBegins, NoCall, SkipNewLine, NextArgument, Record, InArgs, SkipExcess
<1>6. CASE Excess
  BY <1>0, <1>4, <1>6 DEF Excess, InArgs, Recover
<1>7. CASE BadCall \/ ExcessUnclosed
  BY <1>4, <1>7 DEF BadCall, ExcessUnclosed, Fail
<1>8. CASE CloseCall \/ EndExcess
  <2>1. errors' \in BOOLEAN /\ newLine' = newLine /\ (At("args") \/ At("recover"))
    BY <1>8, Zenon DEF CloseCall, EndExcess, InArgs
  <2>. QED  BY <1>4, <2>1
<1>9. CASE PrescanMacro
  <2>1. newLine' = newLine /\ errors' = errors /\ At("prescan")
    BY <1>9, Zenon DEF PrescanMacro, Prescanning, MacroExpand
  <2>. QED  BY <1>0, <1>4, <2>1
<1>10. CASE PrescanToken \/ Toss \/ EndPrescan
  BY <1>0, <1>4, <1>10 DEF PrescanToken, Toss, EndPrescan, Prescanning
<1>11. CASE popInput
  <2>1. /\ inputStack # <<>> /\ inputStack' = Front(inputStack) /\ UNCHANGED <<newLine, errors, expansions>>
    BY <1>11 DEF popInput
  <2>2. Len(inputStack') = Len(inputStack) - 1 /\ Len(inputStack) \in Nat \ {0}
        /\ \A i \in 1 .. Len(inputStack) - 1 : inputStack'[i] = inputStack[i]
    BY <1>0, <2>1, Popped DEF TypeInv
  <2>3. At("undef") => At("undef")'
    BY <2>1 DEF At, call
  <2>. QED  BY <1>0, <2>1, <2>2, <2>3
<1>12. CASE scanArgument
  <2>1. inputStack # <<>> /\ top.kind = "macro" /\ UNCHANGED <<newLine, errors>>
    BY <1>12 DEF scanArgument, Parameter
  <2>2. Len(inputStack) \in 1 .. Len(inputStack) /\ top = inputStack[Len(inputStack)]
    BY <1>0, <2>1 DEF TypeInv, top, Last
  <2>3. newLine = FALSE
    BY <1>0, <2>1, <2>2
  <2>. QED  BY <1>0, <1>1, <2>1, <2>3
<1>13. ASSUME Ready PROVE \A i \in 1 .. Len(inputStack) : Len(Rest) = Len(inputStack) /\ Rest[i].kind = inputStack[i].kind
  BY <1>0, <1>13, ScannedHolds, Rests
<1>14. CASE TokenizeNewLine
  <2>1. Scanned
    BY <1>0, <1>14, ScannedHolds DEF TokenizeNewLine, Tokenizing
  <2>2. token \in SourceToken \ PlainToken
    <3>1. token.atom = "\n"
      BY <1>14 DEF TokenizeNewLine
    <3>2. token \notin PlainToken /\ token # Marker /\ token # EndOfInput
      BY <3>1, TokenSets DEF PlainToken, Reserved
    <3>. QED  BY <2>1, <3>2, TokenKinds
  <2>3. Len(inputStack) = 1 /\ inputStack[1].kind # "macro"
    BY <1>0, <2>1, <2>2, TakenPlaces
  <2>4. Ready /\ inputStack' = Rest /\ expansions' = <<>> /\ newLine' = TRUE /\ errors' = errors
    BY <1>14 DEF TokenizeNewLine, Tokenizing
  <2>5. Len(Rest) = 1 /\ Rest[1].kind # "macro"
    BY <1>13, <2>3, <2>4
  <2>. QED  BY <1>0, <2>4, <2>5
<1>15. CASE readCPPline \/ CPPundef \/ StrayDirective \/ TokenizeEnd
  <2>1. Ready /\ inputStack' = Rest /\ newLine' = newLine /\ errors' \in BOOLEAN
    BY <1>0, <1>15 DEF readCPPline, CPPundef, StrayDirective, TokenizeEnd, Tokenizing
  <2>2. expansions' = <<>> \/ At("undef")'
    <3>1. CASE readCPPline
      <4>1. expansions' = <<[at |-> "undef"]>>
        BY <3>1 DEF readCPPline
      <4>2. expansions' # <<>> /\ call' = [at |-> "undef"]
        BY <4>1 DEF call, Last
      <4>. QED  BY <4>2 DEF At
    <3>2. CASE CPPundef \/ StrayDirective \/ TokenizeEnd
      BY <3>2 DEF CPPundef, StrayDirective, TokenizeEnd, Tokenizing
    <3>. QED  BY <1>15, <3>1, <3>2
  <2>3. Len(Rest) = Len(inputStack) /\ Len(inputStack) \in Nat
    BY <1>0, <2>1, ScannedHolds DEF TypeInv, Scanned
  <2>4. newLine => Len(Rest) <= 1 /\ \A i \in 1 .. Len(Rest) : Rest[i].kind # "macro"
    BY <1>0, <1>13, <2>1, <2>3
  <2>. QED  BY <1>0, <2>1, <2>2, <2>4
<1>. QED  BY <1>2, <1>3, <1>5, <1>6, <1>7, <1>8, <1>9, <1>10, <1>11, <1>12, <1>14, <1>15 DEF Next

-----------------------------------------------------------------------------
\* The invariant holds

LEMMA InitIInv == Init => IInv
<1>. SUFFICES ASSUME Init PROVE IInv
  OBVIOUS
<1>. DEFINE rest == [i \in DOMAIN source |-> Token(source[i], {})]
<1>1. /\ macroDefs \in Tables /\ source \in Sources /\ busy = {} /\ currentPos = [m \in DOMAIN macroDefs |-> 1]
      /\ inputStack = <<Tokens(rest)>> /\ expansions = <<>> /\ newLine = TRUE /\ errors = FALSE
  BY DEF Init
<1>2. rest \in Seq(SourceToken)
  <2>. DEFINE A == STRING \ {"marker", "end of input"}
  <2>1. source \in Seq(A)
    BY <1>1, MacroAssumption DEF MacroAssumption
  <2>2. \A a \in A : Token(a, {}) \in SourceToken
    BY DEF Token, SourceToken
  <2>. HIDE DEF A
  <2>3. DOMAIN source = 1 .. Len(source) /\ Len(source) \in Nat /\ \A i \in 1 .. Len(source) : source[i] \in A
    BY <2>1
  <2>4. \A i \in 1 .. Len(source) : Token(source[i], {}) \in SourceToken
    BY <2>2, <2>3
  <2>. QED  BY <2>3, <2>4
<1>. DEFINE in == Tokens(rest)
<1>3. in \in Input(macroDefs) /\ in.kind # "macro"
  <2>. HIDE DEF rest
  <2>. QED  BY <1>2 DEF Tokens, Input, TokenInput
<1>. HIDE DEF in
<1>4. inputStack \in Seq(Input(macroDefs)) /\ Len(inputStack) = 1 /\ inputStack[1] = in
  BY <1>1, <1>3 DEF in
<1>5. Depth(expansions) = 0 /\ Nested(expansions, macroDefs)
  BY <1>1 DEF Depth, Nested
<1>6. TypeInv
  <2>1. currentPos \in [DOMAIN macroDefs -> Nat \ {0}]
    BY <1>1
  <2>2. newLine \in BOOLEAN /\ errors \in BOOLEAN /\ busy \in SUBSET DOMAIN macroDefs
    BY <1>1
  <2>. QED  BY <1>1, <1>4, <1>5, <2>1, <2>2, Zenon DEF TypeInv
<1>7. MarkInv /\ InsideInv
  BY <1>5 DEF MarkInv, Marks, InsideInv, Inside
<1>8. OpenInv
  BY <1>1 DEF OpenInv, At
<1>9. BusyInv
  BY <1>1, <1>3, <1>4 DEF BusyInv, Sole, MacroAt
<1>10. LineInv
  BY <1>1, <1>3, <1>4 DEF LineInv, Lines
<1>. QED  BY <1>6, <1>7, <1>8, <1>9, <1>10 DEF IInv

LEMMA NextIInv == IInv /\ [Next]_vars => IInv'
<1>1. ASSUME IInv, Next PROVE IInv'
  <2>0. TypeInv /\ MarkInv /\ OpenInv /\ BusyInv
    BY <1>1 DEF IInv
  <2>1. ASSUME Keeps', CallsInv', UNCHANGED macroDefs PROVE IInv'
    <3>1. macroDefs' \in Tables
      BY <2>0, <2>1 DEF TypeInv
    <3>2. TypeInv'
      BY <1>1, <2>1, <3>1, NewLines DEF TypeInv, Keeps, CallsInv
    <3>3. LineInv'
      BY <1>1, <2>1, NewLines DEF LineInv, Keeps
    <3>. QED  BY <2>1, <3>2, <3>3 DEF IInv, Keeps, CallsInv
  <2>2. Ready => Scanned
    BY <2>0, ScannedHolds
  <2>3. CASE popInput
    BY <1>1, <2>1, <2>3, PopKeeps
  <2>4. CASE scanArgument
    BY <1>1, <2>1, <2>4, ArgumentKeeps
  <2>5. ASSUME Ready, Reading \/ PuttingBack \/ Expanding, CallsInv', UNCHANGED macroDefs PROVE IInv'
    BY <1>1, <2>1, <2>2, <2>5, ReadingKeeps, PuttingBackKeeps, ExpandingKeeps
  <2>6. CASE SkipNewLine \/ Toss \/ TokenizeNewLine \/ StrayDirective \/ TokenizeEnd \/ readCPPline \/ CPPundef
    <3>1. Reading /\ CallsInv' /\ UNCHANGED macroDefs
      BY <2>0, <2>6, ReadsOnly
    <3>. QED  BY <2>5, <3>1 DEF Reading, Untouched
  <2>7. CASE CallBegins \/ BadCall \/ Excess \/ NextArgument \/ Record \/ SkipExcess \/ ExcessUnclosed
    <3>1. Ready
      BY <2>7 DEF CallBegins, BadCall, Excess, NextArgument, Record, SkipExcess, ExcessUnclosed, InArgs
    <3>. QED  BY <2>0, <2>2, <2>5, <2>7, <3>1, ReadsCall
  <2>8. CASE PrescanToken \/ TokenizeToken
    <3>1. Ready
      BY <2>8 DEF PrescanToken, TokenizeToken, Prescanning, Tokenizing
    <3>. QED  BY <2>0, <2>2, <2>5, <2>8, <3>1, ReadsToken
  <2>9. CASE PrescanMacro \/ TokenizeMacro
    <3>1. Ready
      BY <2>9 DEF PrescanMacro, TokenizeMacro, Prescanning, Tokenizing
    <3>. QED  BY <2>0, <2>2, <2>5, <2>9, <3>1, StartsMacro
  <2>10. CASE NoCall
    <3>1. Ready
      BY <2>10 DEF NoCall
    <3>. QED  BY <2>0, <2>2, <2>5, <2>10, <3>1, EndsLook
  <2>11. CASE CloseCall \/ EndExcess
    <3>1. Ready
      BY <2>11 DEF CloseCall, EndExcess, InArgs
    <3>2. (Expanding \/ FirstScan) /\ CallsInv' /\ UNCHANGED macroDefs
      BY <2>0, <2>2, <2>11, <3>1, EndsCall
    <3>3. CASE FirstScan
      <4>1. /\ expansions # <<>> /\ token \in PlainToken /\ call.name.atom \notin busy /\ Beginning(call.name)
            /\ call \in Gathering(macroDefs) \cup Recovering(macroDefs)
            /\ Len(expansions') = Len(expansions)
            /\ \A k \in 1 .. Len(expansions) - 1 : expansions'[k] = expansions[k]
        BY <3>3 DEF FirstScan
      <4>2. MacroAt(inputStack, call.name.atom) = {}
        BY <2>0, <4>1 DEF BusyInv, Sole, Gathering, Recovering, Name
      <4>3. Depth(expansions) # Len(expansions)
        <5>1. call.at # "prescan" /\ call = expansions[Len(expansions)] /\ Len(expansions) \in Nat
          BY <2>0, <4>1, Calls DEF Gathering, Recovering
        <5>. QED  BY <4>1, <5>1 DEF Depth
      <4>4. Keeps'
        BY <1>1, <2>2, <3>1, <3>2, <4>1, <4>2, <4>3, BeginningKeeps
      <4>. QED  BY <2>1, <3>2, <4>4
    <3>. QED  BY <2>5, <3>1, <3>2, <3>3
  <2>12. CASE EndPrescan
    <3>1. Ready
      BY <2>12 DEF EndPrescan, Prescanning
    <3>2. (NextScan \/ LastScan) /\ CallsInv' /\ UNCHANGED macroDefs
      BY <2>0, <2>2, <2>12, <3>1, EndsArgumentScan
    <3>3. CASE NextScan
      <4>1. /\ ScanEnds /\ Beginning(call.name) /\ expansions # <<>> /\ (inputStack = <<>> \/ token = Marker)
            /\ Len(expansions') = Len(expansions)
            /\ \A k \in 1 .. Len(expansions) - 1 : expansions'[k] = expansions[k]
        BY <3>3 DEF NextScan, ScanEnds, At
      <4>2. MacroAt(inputStack, call.name.atom) = {}
        BY <1>1, <2>2, <3>1, <4>1, EndedScan
      <4>3. Depth(expansions) # Len(expansions) - 1
        <5>1. call.at = "prescan" /\ call = expansions[Len(expansions)] /\ Len(expansions) \in Nat
          BY <2>0, <4>1, Calls DEF ScanEnds, At
        <5>. QED  BY <4>1, <5>1 DEF Depth
      <4>4. Keeps'
        BY <1>1, <2>2, <3>1, <3>2, <4>1, <4>2, <4>3, BeginningKeeps
      <4>. QED  BY <2>1, <3>2, <4>4
    <3>4. CASE LastScan
      BY <1>1, <2>1, <2>2, <3>1, <3>2, <3>4, LastScanKeeps
    <3>. QED  BY <3>2, <3>3, <3>4
  <2>. QED  BY <1>1, <2>3, <2>4, <2>6, <2>7, <2>8, <2>9, <2>10, <2>11, <2>12 DEF Next
<1>2. ASSUME IInv, UNCHANGED vars PROVE IInv'
  BY <1>2 DEF IInv, TypeInv, MarkInv, OpenInv, BusyInv, Sole, LineInv, InsideInv, Untroubled, At, call, vars, macroVars
<1>. QED  BY <1>1, <1>2

(* A macro's busy bit (Pp.cpp:1131, 1315) says that its one tMacroInput is  *)
(* on the stack, for any macros and source: errors, speculative scans and   *)
(* calls left open leave no bit behind, and none is set when a directive    *)
(* could change the macro.                                                  *)
THEOREM BusyIsOnStackHolds == Spec => []BusyIsOnStack
<1>1. IInv => BusyIsOnStack
  <2>. SUFFICES ASSUME IInv PROVE BusyIsOnStack
    OBVIOUS
  <2>1. TypeInv /\ OpenInv /\ BusyInv /\ LineInv
    BY DEF IInv
  <2>2. \A m : OnStack(m) = MacroAt(inputStack, m)
    BY <2>1 DEF OnStack, MacroAt, TypeInv
  <2>3. At("undef") => busy = {}
    <3>. SUFFICES ASSUME At("undef"), NEW m \in busy PROVE FALSE
      OBVIOUS
    <3>1. \A i \in 1 .. Len(inputStack) : inputStack[i].kind # "macro"
      BY <2>1 DEF OpenInv, LineInv
    <3>2. MacroAt(inputStack, m) # {}
      BY <2>1 DEF BusyInv, Sole, TypeInv
    <3>. QED  BY <3>1, <3>2 DEF MacroAt
  <2>. QED  BY <2>1, <2>2, <2>3 DEF BusyIsOnStack, BusyInv, Sole
<1>. QED  BY <1>1, InitIInv, NextIInv, PTL DEF Spec

(* Until an error, the expansion of an argument leaves the inputs below its *)
(* marker and their places in the bodies alone (PrescanMacroArg,            *)
(* Pp.cpp:1015), for any macros and source.                                 *)
THEOREM PrescanStaysInsideHolds == Spec => []PrescanStaysInside
<1>1. IInv => PrescanStaysInside
  <2>. SUFFICES ASSUME IInv, Untroubled, NEW k \in DOMAIN expansions, expansions[k].at = "prescan"
                PROVE  LET outer == expansions[k].outer IN
                       /\ Len(inputStack) > Len(outer) /\ SubSeq(inputStack, 1, Len(outer)) = outer
                       /\ \A i \in DOMAIN outer :
                            outer[i].kind = "macro" =>
                                currentPos[outer[i].mac] = expansions[k].outerPos[outer[i].mac]
    BY DEF PrescanStaysInside, Untroubled
  <2>. DEFINE outer == expansions[k].outer
  <2>1. TypeInv /\ Inside(expansions, inputStack, currentPos) /\ Nested(expansions, macroDefs)
    BY DEF IInv, InsideInv, TypeInv
  <2>2. k \in 1 .. Depth(expansions)
    BY <2>1 DEF Nested, Depth
  <2>3. outer \in Seq(Input(macroDefs)) /\ Len(outer) \in Nat /\ DOMAIN outer = 1 .. Len(outer)
    <3>1. expansions[k] \in Scan(macroDefs)
      BY <2>1, <2>2, Depths
    <3>. QED  BY <3>1 DEF Scan
  <2>4. inputStack \in Seq(Input(macroDefs)) /\ Len(inputStack) \in Nat
    BY <2>1 DEF TypeInv
  <2>5. Len(inputStack) > Len(outer)
    <3>1. /\ Len(outer) \in Nat /\ Len(outer) < Len(inputStack)
      <4>1. \A j \in 1 .. Depth(expansions) : SameScan(expansions[j], expansions[j])
        BY DEF SameScan
      <4>2. Depth(expansions) \in Nat /\ Depth(expansions) <= Depth(expansions)
        BY <2>1, Depths
      <4>. QED  BY <2>1, <2>2, <4>1, <4>2, StaysInside DEF IInv
    <3>. QED  BY <2>4, <3>1
  <2>6. Unchanged(expansions[k], inputStack, currentPos)
    BY <2>1, <2>2 DEF Inside
  <2>7. SubSeq(inputStack, 1, Len(outer)) = outer
    <3>. DEFINE s == SubSeq(inputStack, 1, Len(outer))
    <3>1. s \in Seq(Input(macroDefs)) /\ Len(s) = Len(outer) /\ \A i \in 1 .. Len(outer) : s[i] = inputStack[i]
      BY <2>3, <2>4, <2>5
    <3>2. \A i \in 1 .. Len(outer) : s[i] = outer[i]
      BY <2>6, <3>1 DEF Unchanged
    <3>. HIDE DEF s, outer
    <3>. QED  BY <2>3, <3>1, <3>2, SeqEqual DEF s
  <2>. QED  BY <2>3, <2>5, <2>6, <2>7 DEF Unchanged
<1>. QED  BY <1>1, InitIInv, NextIInv, PTL DEF Spec
=============================================================================
