------------------------- MODULE PpConditionalProofs -------------------------
(***************************************************************************)
(* For every nesting limit: PpConditional's counters stay in range and     *)
(* agree, and it implements ConditionalGroups, when the bytes after        *)
(* elseSeen happen to be zero.                                             *)
(***************************************************************************)
EXTENDS PpConditional, TLAPS

\* How the counters move together, with the errors that let them drift apart
Nesting ==
    /\ depth <= ifdepth
    /\ skipping = "no" => depth = 0
    /\ skipping = "else" => depth < ifdepth
    /\ elsetracker <= ifdepth
    /\ ifdepth - strays <= elsetracker
    /\ skipping # "no" /\ depth = ifdepth => elsetracker = ifdepth /\ strays = 1
    /\ strays = 1 => error

NoElseLeft == ~error => \A i \in Slots : i > ifdepth => ~elseSeen[i]

NoElseYet == ~error /\ skipping = "else" => ~elseSeen[ifdepth - depth]

\* The conjuncts of TypeOK about numbers, and those about flags
Counters ==
    /\ ifdepth \in 0..(MaxNesting + 1)
    /\ elsetracker \in -1..(MaxNesting + 1)
    /\ skipping \in {"no", "else", "endif"}
    /\ depth \in 0..(MaxNesting + 1)
    /\ strays \in 0..MaxStray

Flags ==
    /\ line \in Lines
    /\ elseSeen \in [Slots -> BOOLEAN]
    /\ kept \in BOOLEAN
    /\ error \in BOOLEAN
    /\ ended \in BOOLEAN

IInv == Counters /\ Nesting

-----------------------------------------------------------------------------
LEMMA InitIInv == ASSUME ConditionalAssumption PROVE Init => IInv
BY DEF ConditionalAssumption, Init, IInv, Counters, Nesting

(* CPPif keeps the counters together, called from readCPPline or from       *)
(* CPPelse at the #elif it looks for; so does CPPifdef.                     *)
LEMMA CPPifStep ==
    ASSUME ConditionalAssumption, IInv,
           NEW d \in Int, NEW e \in Int, NEW c, NEW wrong, CPPif(d, e, c, wrong),
           \/ skipping = "no" /\ d = ifdepth /\ e = elsetracker
           \/ skipping = "else" /\ depth = 0 /\ d = ifdepth - 1 /\ e = elsetracker - 1
    PROVE  IInv'
<1> USE DEF ConditionalAssumption, IInv, Counters, Nesting, CPPif, EnterGroup, IfLimit
<1>1. CASE IfLimit(d, e)
  BY <1>1 DEF Stop
<1>2. CASE ~IfLimit(d, e)
  BY <1>2 DEF Report
<1> QED BY <1>1, <1>2

LEMMA CPPifdefStep ==
    ASSUME ConditionalAssumption, IInv, skipping = "no",
           NEW c, CPPifdef(ifdepth, elsetracker, c)
    PROVE  IInv'
<1> USE DEF ConditionalAssumption, IInv, Counters, Nesting, CPPifdef, EnterGroup, IfdefLimit
<1>1. CASE IfdefLimit(ifdepth, elsetracker)
  BY <1>1 DEF Stop
<1>2. CASE ~IfdefLimit(ifdepth, elsetracker)
  BY <1>2 DEF Report
<1> QED BY <1>1, <1>2

LEMMA StepIInv == ASSUME ConditionalAssumption, IInv, [Next]_vars PROVE IInv'
<1> USE DEF ConditionalAssumption
<1>0. CASE UNCHANGED vars
  BY <1>0 DEF IInv, Counters, Nesting, vars
<1>1. CASE skipping = "no" /\ ReadText
  BY <1>1 DEF IInv, Counters, Nesting, ReadText
<1>2. CASE skipping = "no" /\ ReadIf
  <2>1. CASE CPPif(ifdepth, elsetracker, line'.cond, FALSE)
    <3>1. ifdepth \in Int /\ elsetracker \in Int
      BY DEF IInv, Counters
    <3> QED BY Zenon, <1>2, <2>1, <3>1, CPPifStep
  <2>2. CASE CPPifdef(ifdepth, elsetracker, line'.cond)
    BY <1>2, <2>2, CPPifdefStep
  <2> QED BY <1>2, <2>1, <2>2 DEF ReadIf
<1>3. CASE skipping = "no" /\ ReadElse
  BY <1>3 DEF IInv, Counters, Nesting, ReadElse, Stray, Report, SkipTo
<1>4. CASE skipping = "no" /\ ReadElif
  BY <1>4 DEF IInv, Counters, Nesting, ReadElif, Stray, Report, SkipTo
<1>5. CASE skipping = "no" /\ ReadEndif
  BY <1>5 DEF IInv, Counters, Nesting, ReadEndif, InSomeGroup, Report
<1>6. CASE skipping # "no" /\ SkipText
  BY <1>6 DEF IInv, Counters, Nesting, SkipText
<1>7. CASE skipping # "no" /\ SkipIf
  BY <1>7 DEF IInv, Counters, Nesting, SkipIf, Stop, IfLimit, Deeper
<1>8. CASE skipping # "no" /\ SkipEndif
  BY <1>8 DEF IInv, Counters, Nesting, SkipEndif
<1>9. CASE skipping # "no" /\ SkipElse
  BY <1>9 DEF IInv, Counters, Nesting, SkipElse, Report, Matches
<1>10. CASE skipping # "no" /\ SkipElif
  <2>1. CASE Matches
    <3>1. CPPif(ifdepth - 1, elsetracker - 1, line'.cond, elseSeen[elsetracker])
      BY <1>10, <2>1 DEF SkipElif, Matches, IInv, Counters, Nesting
    <3> QED
      BY <2>1, <3>1, CPPifStep DEF IInv, Counters, Matches
  <2>2. CASE ~Matches
    BY <1>10, <2>2 DEF SkipElif, Report, IInv, Counters, Nesting
  <2> QED BY <2>1, <2>2
<1>11. CASE ReadEnd
  BY <1>11 DEF IInv, Counters, Nesting, ReadEnd, Report
<1> QED
  BY <1>0, <1>1, <1>2, <1>3, <1>4, <1>5, <1>6, <1>7, <1>8, <1>9, <1>10, <1>11 DEF Next, Read, Skip

-----------------------------------------------------------------------------
LEMMA InitFlags == Init => Flags
<1> SUFFICES ASSUME Init PROVE Flags
  OBVIOUS
<1>1. line \in Lines
  BY DEF Init, Lines, Kinds
<1>2. elseSeen \in [Slots -> BOOLEAN]
  BY Zenon DEF Init
<1> QED BY <1>1, <1>2 DEF Flags, Init

LEMMA EnterFlags ==
    ASSUME Flags, NEW d, NEW e, NEW c, NEW wrong, NEW tooDeep, EnterGroup(tooDeep, d, e, c, wrong)
    PROVE  kept' \in BOOLEAN /\ error' \in BOOLEAN /\ ended' \in BOOLEAN
BY Zenon DEF Flags, EnterGroup, Stop, Report

LEMMA StepFlags == ASSUME Flags, [Next]_vars PROVE Flags'
<1>0. CASE UNCHANGED vars
  BY <1>0 DEF Flags, vars
<1>1. CASE Next
  <2>1. line' \in Lines
    BY <1>1 DEF Next
  <2>2. elseSeen' \in [Slots -> BOOLEAN]
    BY <1>1 DEF Flags, Next, Read, Skip, ReadText, ReadIf, ReadElse, ReadElif, ReadEndif, ReadEnd,
                SkipText, SkipIf, SkipEndif, SkipElse, SkipElif, Forgotten
  <2>3. kept' \in BOOLEAN /\ error' \in BOOLEAN /\ ended' \in BOOLEAN
    <3>1. CASE ReadText \/ SkipText \/ ReadElse \/ ReadElif \/ ReadEndif \/ ReadEnd \/ SkipEndif \/ SkipElse
      BY Zenon, <3>1 DEF Flags, ReadText, SkipText, ReadElse, ReadElif, ReadEndif, ReadEnd, SkipEndif,
                         SkipElse, Report
    <3>2. CASE ReadIf
      BY Zenon, <3>2, EnterFlags DEF ReadIf, CPPif, CPPifdef
    <3>3. CASE SkipIf
      BY Zenon, <3>3 DEF SkipIf, Stop, Flags
    <3>4. CASE SkipElif
      BY Zenon, <3>4, EnterFlags DEF SkipElif, CPPif, Report, Flags
    <3> QED BY Zenon, <1>1, <3>1, <3>2, <3>3, <3>4 DEF Next, Read, Skip
  <2> QED BY <2>1, <2>2, <2>3 DEF Flags
<1> QED BY <1>0, <1>1

(* CPPelse's and readCPPline's counters stay in range, whatever the limit,  *)
(* the padding and the input (with at most one stray #else or #elif).       *)
THEOREM TypeCorrect == ASSUME ConditionalAssumption PROVE Spec => []TypeOK
<1>1. Init => IInv /\ Flags
  BY InitIInv, InitFlags
<1>2. IInv /\ Flags /\ [Next]_vars => IInv' /\ Flags'
  BY StepIInv, StepFlags
<1>3. IInv /\ Flags => TypeOK
  BY DEF IInv, Counters, Flags, TypeOK
<1> QED BY <1>1, <1>2, <1>3, PTL DEF Spec

-----------------------------------------------------------------------------
\* The state while no error was reported, as far as the stack is concerned
Legal == ~error /\ IInv /\ Flags /\ NoElseLeft /\ NoElseYet

LEMMA InSync ==
    ASSUME ConditionalAssumption, Legal
    PROVE  /\ ifdepth \in Nat /\ elsetracker = ifdepth /\ depth \in Nat
           /\ ifdepth \in Slots
           /\ skipping \in {"no", "else", "endif"}
           /\ skipping = "no" => depth = 0
           /\ skipping # "no" => depth < ifdepth
BY DEF ConditionalAssumption, Legal, IInv, Counters, Nesting, Slots

LEMMA ErrorStays == ASSUME Next, error PROVE error'
BY Zenon DEF Next, Read, Skip, ReadText, ReadIf, ReadElse, ReadElif, ReadEndif, ReadEnd, SkipText, SkipIf,
       SkipEndif, SkipElse, SkipElif, CPPif, CPPifdef, EnterGroup, Stop, Report

LEMMA InitNoElse == ASSUME ConditionalAssumption, Padding = {FALSE} PROVE Init => NoElseLeft /\ NoElseYet
BY Zenon DEF Init, NoElseLeft, NoElseYet

LEMMA StepNoElseLeft ==
    ASSUME ConditionalAssumption, IInv, Flags, NoElseLeft, NoElseYet, [Next]_vars
    PROVE  NoElseLeft'
<1>0. CASE UNCHANGED vars
  BY <1>0 DEF NoElseLeft, vars
<1>1. ASSUME Next, ~error', NEW i \in Slots, i > ifdepth' PROVE ~elseSeen'[i]
  <2> USE <1>1
  <2>0. Legal
    BY ErrorStays DEF Legal
  <2>1. /\ ifdepth \in Nat /\ elsetracker = ifdepth /\ elseSeen \in [Slots -> BOOLEAN] /\ i \in Int
        /\ i > ifdepth => ~elseSeen[i]
        /\ ifdepth' \in Int
    BY <2>0, InSync, StepIInv DEF Legal, Flags, NoElseLeft, Slots, IInv, Counters
  <2>2. CASE UNCHANGED elseSeen /\ ifdepth' >= ifdepth
    BY <2>1, <2>2
  <2>3. CASE elseSeen' = [elseSeen EXCEPT ![elsetracker] = TRUE] /\ ifdepth' = ifdepth
    <3>1. i # elsetracker /\ i > ifdepth
      BY <2>1, <2>3
    <3> QED BY Zenon, <2>1, <2>3, <3>1
  <2>4. CASE elseSeen' = Forgotten(elsetracker) /\ ifdepth' >= ifdepth - 1
    <3>1. i = elsetracker \/ i > ifdepth
      BY <2>1, <2>4
    <3> QED BY Zenon, <2>1, <2>4, <3>1 DEF Forgotten
  <2>5. \/ UNCHANGED elseSeen /\ ifdepth' >= ifdepth
        \/ elseSeen' = [elseSeen EXCEPT ![elsetracker] = TRUE] /\ ifdepth' = ifdepth
        \/ elseSeen' = Forgotten(elsetracker) /\ ifdepth' >= ifdepth - 1
    <3>1. CASE ReadText \/ ReadElse \/ ReadElif \/ ReadEnd \/ SkipText \/ SkipElse
      BY <2>1, <3>1 DEF ReadText, ReadElse, ReadElif, ReadEnd, SkipText, SkipElse
    <3>2. CASE ReadIf
      BY <2>1, <3>2 DEF ReadIf, CPPif, CPPifdef, EnterGroup, Stop
    <3>3. CASE ReadEndif
      BY <2>1, <3>3 DEF ReadEndif
    <3>4. CASE SkipIf
      BY <2>1, <3>4 DEF SkipIf
    <3>5. CASE SkipEndif
      BY <2>1, <3>5 DEF SkipEndif
    <3>6. CASE SkipElif
      BY <2>1, <3>6 DEF SkipElif, CPPif, EnterGroup, Stop
    <3> QED BY <3>1, <3>2, <3>3, <3>4, <3>5, <3>6 DEF Next, Read, Skip
  <2> QED BY <2>2, <2>3, <2>4, <2>5
<1> QED BY <1>0, <1>1 DEF NoElseLeft

LEMMA StepNoElseYet ==
    ASSUME ConditionalAssumption, IInv, Flags, NoElseLeft, NoElseYet, [Next]_vars
    PROVE  NoElseYet'
<1>0. CASE UNCHANGED vars
  BY <1>0 DEF NoElseYet, vars
<1>1. ASSUME Next, ~error', skipping' = "else" PROVE ~elseSeen'[ifdepth' - depth']
  <2> USE <1>1
  <2>0. Legal
    BY ErrorStays DEF Legal
  <2>1. /\ ifdepth \in Nat /\ elsetracker = ifdepth /\ ifdepth \in Slots
        /\ elseSeen \in [Slots -> BOOLEAN]
        /\ depth \in Nat
        /\ skipping # "no" => depth < ifdepth /\ ifdepth - depth \in Slots
        /\ skipping = "else" => ~elseSeen[ifdepth - depth]
    BY <2>0, InSync DEF Legal, Flags, Slots, NoElseYet
  <2>2. CASE skipping = "no" /\ Read
    <3>1. ReadIf
      BY <2>2 DEF Read, ReadText, ReadElse, ReadElif, ReadEndif, SkipTo
    <3>2. ifdepth' = ifdepth + 1 /\ depth' = 0 /\ UNCHANGED elseSeen
      BY <3>1 DEF ReadIf, CPPif, CPPifdef, EnterGroup, Stop
    <3>3. ifdepth + 1 \in Slots /\ ifdepth + 1 > ifdepth
      BY <2>1, <3>2, StepIInv DEF IInv, Counters, Slots
    <3>4. ~elseSeen[ifdepth + 1]
      BY Zenon, <2>0, <3>3 DEF Legal, NoElseLeft
    <3>5. ifdepth' - depth' = ifdepth + 1
      BY <2>1, <3>2
    <3> QED BY Zenon, <3>2, <3>4, <3>5
  <2>3. CASE skipping # "no" /\ (SkipText \/ SkipIf)
    <3>1. ifdepth' - depth' = ifdepth - depth /\ UNCHANGED <<elseSeen, skipping>>
      BY <2>1, <2>3 DEF SkipText, SkipIf, Stop, Deeper
    <3> QED BY Zenon, <2>1, <3>1
  <2>4. CASE skipping # "no" /\ SkipEndif
    <3>1. ifdepth' - depth' = ifdepth - depth /\ UNCHANGED skipping /\ ifdepth # ifdepth - depth
      BY <2>1, <2>4 DEF SkipEndif
    <3>2. elseSeen' = Forgotten(ifdepth)
      BY <2>1, <2>4 DEF SkipEndif
    <3> QED BY Zenon, <2>1, <3>1, <3>2 DEF Forgotten
  <2>5. CASE skipping # "no" /\ SkipElse
    <3>1. ifdepth' - depth' = ifdepth - depth /\ UNCHANGED skipping /\ ifdepth # ifdepth - depth
      BY <2>1, <2>5 DEF SkipElse, Matches
    <3>2. elseSeen' = [elseSeen EXCEPT ![ifdepth] = TRUE]
      BY <2>1, <2>5 DEF SkipElse
    <3> QED BY Zenon, <2>1, <3>1, <3>2
  <2>6. CASE skipping # "no" /\ SkipElif /\ ~Matches
    BY <2>1, <2>6 DEF SkipElif
  <2>7. CASE skipping # "no" /\ SkipElif /\ Matches
    <3>1. ifdepth' - depth' = ifdepth /\ elseSeen' = Forgotten(ifdepth)
      BY <2>1, <2>7 DEF SkipElif, CPPif, EnterGroup, Stop
    <3> QED BY Zenon, <2>1, <3>1 DEF Forgotten
  <2>8. CASE ReadEnd
    BY <2>1, <2>8 DEF ReadEnd
  <2> QED BY <2>2, <2>3, <2>4, <2>5, <2>6, <2>7, <2>8 DEF Next, Skip
<1> QED BY <1>0, <1>1 DEF NoElseYet

(* The counters agree with each other for every limit, if the bytes that    *)
(* follow elseSeen are zero.                                                *)
THEOREM CountersAgreeHolds ==
    ASSUME ConditionalAssumption, Padding = {FALSE} PROVE Spec => []CountersAgree
<1> DEFINE Inv == IInv /\ Flags /\ NoElseLeft /\ NoElseYet
<1>1. Init => Inv
  BY InitIInv, InitFlags, InitNoElse
<1>2. Inv /\ [Next]_vars => Inv'
  BY StepIInv, StepFlags, StepNoElseLeft, StepNoElseYet
<1>3. Inv => CountersAgree
  BY InSync DEF CountersAgree, Legal, NoElseLeft, NoElseYet
<1> QED BY <1>1, <1>2, <1>3, PTL DEF Spec

-----------------------------------------------------------------------------
(* Refinement.  Before the first error ConditionalGroups' variables are     *)
(* n = ifdepth, group = Stack; from the first error on it waits.            *)

\* The innermost group is taking its section exactly when CPPelse does not skip.
LEMMA ActiveIsReading ==
    ASSUME ConditionalAssumption, Legal
    PROVE  Groups!Active <=> skipping = "no"
<1>1. CASE ifdepth = 0
  BY <1>1, InSync DEF Groups!Active, Legal
<1>2. CASE ifdepth # 0
  <2>1. ifdepth \in 1..ifdepth /\ Groups!Active <=> Section(ifdepth) = "taking"
    BY <1>2, InSync DEF Groups!Active, Legal, Stack
  <2> QED BY <1>2, <2>1, InSync DEF Section, Skipped
<1> QED BY <1>1, <1>2

\* What Stack says of group i
LEMMA StackAt ==
    ASSUME ConditionalAssumption, Legal, NEW i \in 1..ifdepth
    PROVE  Stack[i].section = Section(i) /\ Stack[i].elseSeen = elseSeen[i]
BY DEF Stack

\* What a line must be for ConditionalGroups to refuse it, in PpConditional's terms
Refusable(l) ==
    \/ l.kind \in {"else", "elif", "endif"} /\ ifdepth = 0
    \/ l.kind \in {"else", "elif"} /\ ifdepth > 0 /\ elseSeen[ifdepth]
    \/ l.kind \in {"if", "ifdef"} /\ skipping = "no" /\ l.cond = "bad"
    \/ l.kind = "elif" /\ ifdepth > 0 /\ Matches /\ l.cond = "bad"
    \/ l.kind = "end" /\ ifdepth > 0

LEMMA IllegalMeans ==
    ASSUME ConditionalAssumption, Legal, NEW l
    PROVE  Groups!Illegal(l) <=> Refusable(l)
<1>1. CASE ifdepth = 0
  <2>1. Groups!Evaluated(l) <=> l.kind \in {"if", "ifdef"} /\ skipping = "no"
    BY <1>1, ActiveIsReading DEF Groups!Evaluated, Groups!Opens, Legal
  <2> QED BY <1>1, <2>1 DEF Groups!Illegal, Refusable, Legal
<1>2. CASE ifdepth # 0
  <2>1. ifdepth > 0 /\ ifdepth \in 1..ifdepth
    BY <1>2, InSync
  <2>2. Stack[ifdepth].elseSeen = elseSeen[ifdepth] /\ Stack[ifdepth].section = Section(ifdepth)
    BY Zenon, <2>1, StackAt
  <2>3. Section(ifdepth) = "waiting" <=> Matches
    BY <2>1, InSync DEF Section, Skipped, Matches
  <2>4. Groups!Evaluated(l) <=> \/ l.kind \in {"if", "ifdef"} /\ skipping = "no"
                                \/ l.kind = "elif" /\ Matches
    BY <2>1, <2>2, <2>3, ActiveIsReading DEF Groups!Evaluated, Groups!Opens, Legal
  <2> QED BY <1>2, <2>1, <2>2, <2>4 DEF Groups!Illegal, Refusable, Legal
<1> QED BY <1>1, <1>2

(* The first error CPPif, CPPifdef, CPPelse or readCPPline reports is at a  *)
(* line ConditionalGroups refuses.                                          *)
LEMMA ErrorRefused ==
    ASSUME ConditionalAssumption, Legal, Next, error'
    PROVE  Groups!Refused(line')
<1> SUFFICES \/ Refusable(line')
             \/ ifdepth >= MaxNesting /\ line'.kind \in {"if", "ifdef", "elif"}
  BY IllegalMeans DEF Groups!Refused, Legal
<1> USE DEF ConditionalAssumption
<1>0. /\ ifdepth \in Nat /\ depth \in Nat /\ elsetracker = ifdepth /\ ~error /\ ifdepth \in Slots
      /\ skipping # "no" => depth < ifdepth
      /\ ifdepth = 0 \/ ifdepth > 0
  BY InSync DEF Legal
<1>1. CASE skipping = "no" /\ ReadIf
  <2>1. line'.kind \in {"if", "ifdef"}
    BY <1>1 DEF ReadIf
  <2>2. CASE IfLimit(ifdepth, elsetracker) \/ IfdefLimit(ifdepth, elsetracker)
    BY <1>0, <2>1, <2>2 DEF IfLimit, IfdefLimit
  <2>3. CASE ~IfLimit(ifdepth, elsetracker) /\ ~IfdefLimit(ifdepth, elsetracker)
    <3>1. line'.cond = "bad"
      BY Zenon, <1>0, <1>1, <2>3 DEF ReadIf, CPPif, CPPifdef, EnterGroup, Report
    <3> QED BY <1>1, <2>1, <3>1 DEF Refusable
  <2> QED BY <2>2, <2>3
<1>2. CASE skipping = "no" /\ (ReadElse \/ ReadElif \/ ReadEndif)
  BY Zenon, <1>0, <1>2 DEF ReadElse, ReadElif, ReadEndif, Report, Refusable
<1>3. CASE skipping # "no" /\ SkipIf
  BY <1>0, <1>3 DEF SkipIf, IfLimit
<1>4. CASE skipping # "no" /\ SkipElse
  BY Zenon, <1>0, <1>4 DEF SkipElse, Report, Refusable
<1>5. CASE skipping # "no" /\ SkipElif
  <2>0. line'.kind = "elif" /\ ifdepth > 0
    BY <1>0, <1>5 DEF SkipElif, Legal, IInv, Counters
  <2>1. CASE ~Matches
    BY Zenon, <1>0, <1>5, <2>0, <2>1 DEF SkipElif, Report, Refusable
  <2>2. CASE Matches
    <3>1. CPPif(ifdepth - 1, elsetracker - 1, line'.cond, elseSeen[elsetracker])
      BY <1>5, <2>0, <2>2 DEF SkipElif
    <3>2. CASE IfLimit(ifdepth - 1, elsetracker - 1)
      BY <1>0, <2>0, <3>2 DEF IfLimit
    <3>3. CASE ~IfLimit(ifdepth - 1, elsetracker - 1)
      BY Zenon, <1>0, <2>0, <2>2, <3>1, <3>3 DEF CPPif, EnterGroup, Report, Refusable
    <3> QED BY <3>2, <3>3
  <2> QED BY <2>1, <2>2
<1>6. CASE ReadEnd
  BY <1>0, <1>6 DEF ReadEnd, Report, Refusable
<1>7. ~(ReadText \/ SkipText \/ SkipEndif)
  BY <1>0 DEF ReadText, SkipText, SkipEndif
<1> QED BY <1>1, <1>2, <1>3, <1>4, <1>5, <1>6, <1>7 DEF Next, Read, Skip

(* A line read without an error is legal for ConditionalGroups.             *)
LEMMA NoErrorLegal ==
    ASSUME ConditionalAssumption, Legal, Next, ~error'
    PROVE  ~Groups!Illegal(line')
<1> SUFFICES ~Refusable(line')
  BY IllegalMeans
<1> USE DEF ConditionalAssumption
<1>0. /\ ifdepth \in Nat /\ depth \in Nat /\ elsetracker = ifdepth /\ ~error /\ ifdepth \in Slots
      /\ skipping # "no" => depth < ifdepth
      /\ ifdepth = 0 \/ ifdepth > 0
  BY InSync DEF Legal
<1>1. CASE skipping = "no" /\ (ReadText \/ ReadIf)
  BY <1>0, <1>1 DEF ReadText, ReadIf, CPPif, CPPifdef, EnterGroup, Stop, Report, Refusable
<1>2. CASE skipping = "no" /\ (ReadElse \/ ReadElif \/ ReadEndif)
  <2>1. ifdepth # 0
    BY Zenon, <1>0, <1>2 DEF ReadElse, ReadElif, ReadEndif, Report
  <2>2. ~ReadEndif => ~elseSeen[ifdepth]
    BY Zenon, <1>0, <1>2 DEF ReadElse, ReadElif, Report
  <2> QED BY <1>0, <1>2, <2>1, <2>2 DEF ReadElse, ReadElif, ReadEndif, Refusable, Matches
<1>3. CASE skipping # "no" /\ (SkipText \/ SkipIf \/ SkipEndif)
  BY <1>0, <1>3 DEF SkipText, SkipIf, SkipEndif, Refusable
<1>4. CASE skipping # "no" /\ SkipElse
  <2>1. ~Matches => ~elseSeen[ifdepth]
    BY Zenon, <1>0, <1>4 DEF SkipElse, Report
  <2>2. Matches => ~elseSeen[ifdepth]
    BY <1>0 DEF Matches, Legal, NoElseYet
  <2> QED BY <1>0, <1>4, <2>1, <2>2 DEF SkipElse, Refusable
<1>5. CASE skipping # "no" /\ SkipElif
  <2>0. ifdepth > 0 /\ line'.kind = "elif"
    BY <1>0, <1>5 DEF SkipElif, Legal, IInv, Counters
  <2>1. ~elseSeen[ifdepth] /\ (Matches => line'.cond # "bad")
    <3>1. CASE ~Matches
      BY Zenon, <1>0, <1>5, <3>1 DEF SkipElif, Report
    <3>2. CASE Matches
      <4>1. CPPif(ifdepth - 1, elsetracker - 1, line'.cond, elseSeen[elsetracker])
        BY <1>5, <2>0, <3>2 DEF SkipElif
      <4> QED BY Zenon, <1>0, <3>2, <4>1 DEF CPPif, EnterGroup, Stop, Report
    <3> QED BY <3>1, <3>2
  <2> QED BY <1>0, <2>0, <2>1 DEF Refusable
<1>6. CASE ReadEnd
  BY <1>0, <1>6 DEF ReadEnd, Report, Refusable
<1> QED BY <1>1, <1>2, <1>3, <1>4, <1>5, <1>6 DEF Next, Read, Skip

\* What a line that is read without an error does to the stack
LEMMA SameStack ==
    ASSUME ConditionalAssumption, Legal, Legal',
           ifdepth' = ifdepth,
           \A i \in 1..ifdepth : Section(i)' = Section(i) /\ elseSeen'[i] = elseSeen[i]
    PROVE  Stack' = Stack
BY DEF Stack

LEMMA TopChanges ==
    ASSUME ConditionalAssumption, Legal, Legal', NEW section, NEW seen,
           ifdepth > 0, ifdepth' = ifdepth,
           \A i \in 1..(ifdepth - 1) : Section(i)' = Section(i) /\ elseSeen'[i] = elseSeen[i],
           Section(ifdepth)' = section, elseSeen'[ifdepth] = seen
    PROVE  Stack' = [Stack EXCEPT ![ifdepth] = [section |-> section, elseSeen |-> seen]]
<1>1. ifdepth \in Nat
  BY InSync
<1>2. ASSUME NEW i \in 1..ifdepth
      PROVE  Stack'[i] = [Stack EXCEPT ![ifdepth] = [section |-> section, elseSeen |-> seen]][i]
  <2>1. Stack'[i] = [section |-> Section(i)', elseSeen |-> elseSeen'[i]]
    BY <1>1 DEF Stack
  <2>2. CASE i = ifdepth
    BY <2>1, <2>2 DEF Stack
  <2>3. CASE i # ifdepth
    <3>1. i \in 1..(ifdepth - 1)
      BY <1>1, <2>3
    <3> QED BY <2>1, <2>3, <3>1 DEF Stack
  <2> QED BY <2>2, <2>3
<1> QED BY <1>2 DEF Stack

LEMMA Pushed ==
    ASSUME ConditionalAssumption, Legal, Legal', NEW section, NEW k,
           k = ifdepth + 1, ifdepth' = k,
           \A i \in 1..ifdepth : Section(i)' = Section(i) /\ elseSeen'[i] = elseSeen[i],
           Section(k)' = section, ~elseSeen'[k]
    PROVE  Stack' = [i \in 1..k |-> IF i = k THEN [section |-> section, elseSeen |-> FALSE]
                                             ELSE Stack[i]]
<1>1. ifdepth \in Nat
  BY InSync
<1>2. elseSeen'[k] = FALSE
  <2>1. k \in Slots
    BY <1>1 DEF Legal, IInv, Counters, Slots
  <2> QED BY Zenon, <2>1 DEF Legal, Flags
<1>3. ASSUME NEW i \in 1..k
      PROVE  [section |-> Section(i)', elseSeen |-> elseSeen'[i]]
             = IF i = k THEN [section |-> section, elseSeen |-> FALSE] ELSE Stack[i]
  <2>1. CASE i = k
    BY Zenon, <1>2, <2>1
  <2>2. CASE i # k
    <3>1. i \in 1..ifdepth
      BY <1>1, <2>2
    <3> QED BY <2>2, <3>1 DEF Stack
  <2> QED BY <2>1, <2>2
<1> QED BY <1>3 DEF Stack

LEMMA Popped ==
    ASSUME ConditionalAssumption, Legal, Legal',
           ifdepth' = ifdepth - 1,
           \A i \in 1..(ifdepth - 1) : Section(i)' = Section(i) /\ elseSeen'[i] = elseSeen[i]
    PROVE  Stack' = [i \in 1..(ifdepth - 1) |-> Stack[i]]
<1>1. ifdepth \in Nat
  BY InSync
<1>2. \A i \in 1..(ifdepth - 1) : i \in 1..ifdepth
  BY <1>1
<1> QED BY <1>2 DEF Stack

\* The mapped variables before and after a line that is read without an error
LEMMA Mapped ==
    ASSUME ConditionalAssumption, Legal, Legal'
    PROVE  /\ (IF error THEN 0 ELSE ifdepth) = ifdepth
           /\ (IF error THEN 0 ELSE ifdepth)' = ifdepth'
           /\ (IF error THEN [i \in 1..0 |-> [section |-> "dead", elseSeen |-> FALSE]] ELSE Stack) = Stack
           /\ (IF error THEN [i \in 1..0 |-> [section |-> "dead", elseSeen |-> FALSE]] ELSE Stack)' = Stack'
           /\ (~error /\ kept) = kept
           /\ (~error /\ kept)' = kept'
BY DEF Legal, Flags

LEMMA TextRefines ==
    ASSUME ConditionalAssumption, Legal, Legal', 
           (ReadText /\ skipping = "no") \/ (SkipText /\ skipping # "no")
    PROVE  Groups!Text(line')
<1>1. line'.kind = "text" /\ ifdepth' = ifdepth /\ UNCHANGED <<skipping, depth, elseSeen, error, ended>>
  BY DEF ReadText, SkipText
<1>2. kept' = (skipping = "no")
  BY DEF ReadText, SkipText
<1>3. Stack' = Stack
  BY <1>1, SameStack DEF Section, Skipped
<1>4. kept' = Groups!Active
  <2>1. Groups!Active \in BOOLEAN
    BY Zenon DEF Groups!Active
  <2> QED BY Zenon, <1>2, <2>1, ActiveIsReading
<1> QED BY <1>1, <1>3, <1>4, Mapped DEF Groups!Text

LEMMA OpenRefines ==
    ASSUME ConditionalAssumption, Legal, Legal', Next,
           (ReadIf /\ skipping = "no") \/ (SkipIf /\ skipping # "no")
    PROVE  Groups!Open(line')
<1>k. PICK k : k = ifdepth + 1
  OBVIOUS
<1>0. /\ k = ifdepth + 1
      /\ ifdepth \in Nat /\ depth \in Nat
      /\ skipping # "no" => depth < ifdepth
      /\ ~error'
  BY <1>k, InSync DEF Legal
<1>1. line'.kind \in {"if", "ifdef"}
  BY DEF ReadIf, SkipIf
<1>2. ifdepth' = k /\ UNCHANGED <<elseSeen, kept, ended>>
  BY <1>0 DEF ReadIf, CPPif, CPPifdef, EnterGroup, SkipIf, Stop
<1>3. ~elseSeen'[k]
  <2>1. k \in Slots /\ k > ifdepth
    BY <1>0, <1>2 DEF Legal, IInv, Counters, Slots
  <2> QED BY Zenon, <1>2, <2>1 DEF Legal, NoElseLeft
<1>4. CASE skipping = "no"
  <2>1. line'.cond \in {"true", "false"}
    <3>1. line'.cond # "bad"
      BY Zenon, <1>0, <1>4 DEF ReadIf, CPPif, CPPifdef, EnterGroup, Stop, Report
    <3> QED BY <3>1 DEF Next, Lines
  <2>2. depth' = 0 /\ skipping' = IF line'.cond = "false" THEN "else" ELSE "no"
    BY <1>0, <1>4 DEF ReadIf, CPPif, CPPifdef, EnterGroup, Stop
  <2>3. \A i \in 1..ifdepth : Section(i)' = "taking" /\ Section(i) = "taking"
    BY <1>0, <1>2, <1>4, <2>2 DEF Section, Skipped
  <2>4. ASSUME NEW j, j = k
        PROVE  Section(j)' = IF line'.cond = "true" THEN "taking" ELSE "waiting"
    BY <1>0, <1>2, <2>1, <2>2, <2>4 DEF Section, Skipped
  <2>5. Groups!Opened(line'.cond) = [section |-> IF line'.cond = "true" THEN "taking" ELSE "waiting",
                                    elseSeen |-> FALSE]
    BY <1>4, ActiveIsReading DEF Groups!Opened
  <2>6. Stack' = [i \in 1..k |-> IF i = k THEN Groups!Opened(line'.cond) ELSE Stack[i]]
    BY <1>0, <1>2, <1>3, <2>3, <2>4, <2>5, Pushed
  <2> QED BY <1>0, <1>1, <1>2, <2>6, Mapped DEF Groups!Open, Groups!Opens, Next, Legal
<1>5. CASE skipping # "no"
  <2>1. UNCHANGED skipping /\ depth' = depth + 1
    BY <1>0, <1>5 DEF SkipIf, Stop, Deeper
  <2>2. \A i \in 1..ifdepth : Section(i)' = Section(i)
    BY <1>0, <1>2, <1>5, <2>1 DEF Section, Skipped
  <2>3. ASSUME NEW j, j = k
        PROVE  Section(j)' = "dead"
    BY <1>0, <1>2, <1>5, <2>1, <2>3 DEF Section, Skipped
  <2>4. Groups!Opened(line'.cond) = [section |-> "dead", elseSeen |-> FALSE]
    BY <1>5, ActiveIsReading DEF Groups!Opened
  <2>5. Stack' = [i \in 1..k |-> IF i = k THEN Groups!Opened(line'.cond) ELSE Stack[i]]
    BY <1>0, <1>2, <1>3, <2>2, <2>3, <2>4, Pushed
  <2> QED BY <1>0, <1>1, <1>2, <2>5, Mapped DEF Groups!Open, Groups!Opens, Next, Legal
<1> QED BY <1>4, <1>5

\* Where the entries of the groups below the innermost one are in elseSeen
LEMMA BelowTop ==
    ASSUME ConditionalAssumption, Legal, NEW i \in 1..(ifdepth - 1)
    PROVE  i \in Slots /\ i # ifdepth
BY InSync DEF Slots

LEMMA ElifRefines ==
    ASSUME ConditionalAssumption, Legal, Legal', Next,
           (ReadElif /\ skipping = "no") \/ (SkipElif /\ skipping # "no")
    PROVE  Groups!Elif(line')
<1>0. /\ ifdepth \in Nat /\ depth \in Nat /\ elsetracker = ifdepth
      /\ skipping = "no" => depth = 0
      /\ skipping # "no" => depth < ifdepth
      /\ skipping \in {"no", "else", "endif"}
      /\ ~error'
  BY InSync DEF Legal
<1>1. line'.kind = "elif" /\ line' \in Lines
  BY DEF ReadElif, SkipElif, Next
<1>2. ~Groups!Illegal(line')
  BY NoErrorLegal, <1>0
<1>3. ifdepth > 0 /\ ~elseSeen[ifdepth] /\ (Matches => line'.cond # "bad")
  BY <1>0, <1>1, <1>2, IllegalMeans DEF Refusable
<1>4. ifdepth' = ifdepth /\ elseSeen' = elseSeen /\ UNCHANGED <<kept, ended>>
  <2>1. CASE skipping = "no"
    BY <2>1 DEF ReadElif, SkipElif
  <2>2. CASE skipping # "no" /\ ~Matches
    BY <2>2 DEF ReadElif, SkipElif
  <2>3. CASE skipping # "no" /\ Matches
    <3>1. CPPif(ifdepth - 1, ifdepth - 1, line'.cond, elseSeen[ifdepth]) /\ elseSeen' = Forgotten(ifdepth)
      BY <1>0, <1>3, <2>3 DEF SkipElif
    <3>2. Forgotten(ifdepth) = elseSeen
      BY <1>0, <1>3 DEF Forgotten, Legal, Flags
    <3> QED BY <1>0, <3>1, <3>2 DEF CPPif, EnterGroup, Stop
  <2> QED BY <2>1, <2>2, <2>3
<1>5. Section(ifdepth)' = Groups!Following(Section(ifdepth), line'.cond)
      /\ \A i \in 1..(ifdepth - 1) : Section(i)' = Section(i)
  <2>1. CASE skipping = "no"
    <3>1. skipping' = "endif" /\ depth' = 0
      BY <2>1 DEF ReadElif, SkipElif, SkipTo
    <3> QED BY <1>0, <1>3, <1>4, <2>1, <3>1 DEF Section, Skipped, Groups!Following
  <2>2. CASE skipping # "no" /\ ~Matches
    <3>1. UNCHANGED <<skipping, depth>>
      BY <2>2 DEF SkipElif
    <3> QED BY <1>0, <1>3, <1>4, <2>2, <3>1 DEF Section, Skipped, Groups!Following, Matches
  <2>3. CASE skipping # "no" /\ Matches
    <3>1. CPPif(ifdepth - 1, ifdepth - 1, line'.cond, elseSeen[ifdepth])
      BY <1>0, <1>3, <2>3 DEF SkipElif
    <3>2. depth' = 0 /\ skipping' = IF line'.cond = "false" THEN "else" ELSE "no"
      BY <1>0, <3>1 DEF CPPif, EnterGroup, Stop
    <3>3. line'.cond \in {"true", "false"}
      BY <1>1, <1>3, <2>3 DEF Lines
    <3> QED BY <1>0, <1>3, <1>4, <2>3, <3>2, <3>3 DEF Section, Skipped, Groups!Following, Matches
  <2> QED BY <2>1, <2>2, <2>3
<1>6. Stack' = [Stack EXCEPT ![ifdepth] = [section  |-> Groups!Following(Section(ifdepth), line'.cond),
                                          elseSeen |-> elseSeen[ifdepth]]]
  BY <1>3, <1>4, <1>5, TopChanges
<1>7. Stack' = [Stack EXCEPT ![ifdepth].section = Groups!Following(@, line'.cond)]
  <2>1. ifdepth \in 1..ifdepth
    BY <1>0, <1>3
  <2> QED BY <1>6, <2>1 DEF Stack
<1> QED BY <1>0, <1>1, <1>4, <1>7, Mapped DEF Groups!Elif, Legal

LEMMA ElseRefines ==
    ASSUME ConditionalAssumption, Legal, Legal', Next,
           (ReadElse /\ skipping = "no") \/ (SkipElse /\ skipping # "no")
    PROVE  Groups!Else(line')
<1>0. /\ ifdepth \in Nat /\ depth \in Nat /\ elsetracker = ifdepth /\ ifdepth \in Slots
      /\ skipping = "no" => depth = 0
      /\ skipping # "no" => depth < ifdepth
      /\ skipping \in {"no", "else", "endif"}
      /\ ~error'
  BY InSync DEF Legal
<1>1. line'.kind = "else"
  BY DEF ReadElse, SkipElse
<1>3. ifdepth > 0
  BY <1>0, <1>1, NoErrorLegal, IllegalMeans DEF Refusable
<1>4. /\ ifdepth' = ifdepth /\ elseSeen' = [elseSeen EXCEPT ![ifdepth] = TRUE]
      /\ UNCHANGED <<kept, ended>>
  BY <1>0 DEF ReadElse, SkipElse
<1>5. Section(ifdepth)' = Groups!Following(Section(ifdepth), "true")
      /\ \A i \in 1..(ifdepth - 1) : Section(i)' = Section(i)
  <2>1. CASE skipping = "no"
    <3>1. skipping' = "endif" /\ depth' = 0
      BY <2>1 DEF ReadElse, SkipElse, SkipTo
    <3> QED BY <1>0, <1>3, <1>4, <2>1, <3>1 DEF Section, Skipped, Groups!Following
  <2>2. CASE skipping # "no"
    <3>1. depth' = depth /\ skipping' = IF Matches THEN "no" ELSE skipping
      BY <2>2 DEF SkipElse
    <3> QED BY <1>0, <1>3, <1>4, <2>2, <3>1 DEF Section, Skipped, Groups!Following, Matches
  <2> QED BY <2>1, <2>2
<1>6. /\ elseSeen'[ifdepth] = TRUE
      /\ \A i \in 1..(ifdepth - 1) : elseSeen'[i] = elseSeen[i]
  BY Zenon, <1>0, <1>4, BelowTop DEF Legal, Flags
<1>7. Stack' = [Stack EXCEPT ![ifdepth] = [section  |-> Groups!Following(Section(ifdepth), "true"),
                                          elseSeen |-> TRUE]]
  BY <1>3, <1>4, <1>5, <1>6, TopChanges
<1>8. Stack' = [Stack EXCEPT ![ifdepth] = [section  |-> Groups!Following(@.section, "true"),
                                          elseSeen |-> TRUE]]
  <2>1. ifdepth \in 1..ifdepth
    BY <1>0, <1>3
  <2> QED BY <1>7, <2>1 DEF Stack
<1> QED BY <1>0, <1>1, <1>4, <1>8, Mapped DEF Groups!Else, Legal

LEMMA EndifRefines ==
    ASSUME ConditionalAssumption, Legal, Legal', Next,
           (ReadEndif /\ skipping = "no") \/ (SkipEndif /\ skipping # "no")
    PROVE  Groups!Endif(line')
<1>0. /\ ifdepth \in Nat /\ depth \in Nat /\ elsetracker = ifdepth /\ ifdepth \in Slots
      /\ skipping = "no" => depth = 0
      /\ skipping # "no" => depth < ifdepth
      /\ skipping \in {"no", "else", "endif"}
      /\ ~error'
  BY InSync DEF Legal
<1>1. line'.kind = "endif"
  BY DEF ReadEndif, SkipEndif
<1>3. ifdepth > 0
  BY <1>0, <1>1, NoErrorLegal, IllegalMeans DEF Refusable
<1>4. ifdepth' = ifdepth - 1 /\ elseSeen' = Forgotten(ifdepth) /\ UNCHANGED <<kept, ended>>
  BY <1>0, <1>3 DEF ReadEndif, SkipEndif, InSomeGroup
<1>5. \A i \in 1..(ifdepth - 1) : Section(i)' = Section(i)
  <2>1. CASE skipping = "no"
    <3>1. UNCHANGED <<skipping, depth>>
      BY <2>1 DEF ReadEndif, SkipEndif
    <3> QED BY <2>1, <3>1 DEF Section
  <2>2. CASE skipping # "no" /\ depth = 0
    <3>1. skipping' = "no"
      BY <2>2 DEF SkipEndif
    <3> QED BY <1>0, <2>2, <3>1 DEF Section, Skipped
  <2>3. CASE skipping # "no" /\ depth # 0
    <3>1. UNCHANGED skipping /\ depth' = depth - 1
      BY <2>3 DEF SkipEndif
    <3>2. Skipped' = Skipped
      BY <1>0, <1>4, <3>1 DEF Skipped
    <3> QED BY <3>1, <3>2 DEF Section
  <2> QED BY <2>1, <2>2, <2>3
<1>6. \A i \in 1..(ifdepth - 1) : elseSeen'[i] = elseSeen[i]
  BY Zenon, <1>0, <1>4, BelowTop DEF Forgotten, Legal, Flags
<1>7. Stack' = [i \in 1..(ifdepth - 1) |-> Stack[i]]
  BY <1>4, <1>5, <1>6, Popped
<1> QED BY <1>0, <1>1, <1>4, <1>7, Mapped DEF Groups!Endif, Legal

LEMMA EndRefines ==
    ASSUME ConditionalAssumption, Legal, Legal', ReadEnd
    PROVE  Groups!End(line')
<1>1. Stack' = Stack
  BY SameStack DEF ReadEnd, Section, Skipped
<1> QED BY <1>1, Mapped DEF ReadEnd, Groups!End, Legal

\* A line read without an error is a legal line of ConditionalGroups.
LEMMA LegalRefines ==
    ASSUME ConditionalAssumption, Legal, Legal', Next
    PROVE  Groups!Legal(line')
<1>1. ~Groups!Illegal(line')
  BY NoErrorLegal DEF Legal
<1>2. CASE skipping = "no" /\ Read
  BY Zenon, <1>1, <1>2, TextRefines, OpenRefines, ElifRefines, ElseRefines, EndifRefines DEF Read, Groups!Legal
<1>3. CASE skipping # "no" /\ Skip
  BY Zenon, <1>1, <1>3, TextRefines, OpenRefines, ElifRefines, ElseRefines, EndifRefines DEF Skip, Groups!Legal
<1>4. CASE ReadEnd
  BY Zenon, <1>1, <1>4, EndRefines DEF Groups!Legal
<1> QED BY <1>2, <1>3, <1>4 DEF Next

LEMMA StepRefines ==
    ASSUME ConditionalAssumption, IInv /\ Flags /\ NoElseLeft /\ NoElseYet,
           (IInv /\ Flags /\ NoElseLeft /\ NoElseYet)', [Next]_vars
    PROVE  [Groups!Next]_(Groups!vars)
<1>1. CASE UNCHANGED vars
  BY <1>1 DEF vars, Groups!vars, Stack, Section, Skipped
<1>2. CASE Next
  <2>1. line' \in Lines /\ ~ended
    BY <1>2 DEF Next
  <2>2. CASE error
    <3>1. error'
      BY <1>2, <2>2, ErrorStays
    <3> QED BY <2>1, <2>2, <3>1 DEF Groups!Next
  <2>3. CASE ~error /\ error'
    <3>1. Groups!Refused(line')
      BY <1>2, <2>3, ErrorRefused DEF Legal
    <3>2. Groups!Bad(line')
      BY <2>3, <3>1 DEF Groups!Bad, Groups!Empty
    <3> QED BY <2>1, <2>3, <3>2 DEF Groups!Next
  <2>4. CASE ~error /\ ~error'
    <3>1. Groups!Legal(line')
      BY <1>2, <2>4, LegalRefines DEF Legal
    <3> QED BY <2>1, <2>4, <3>1 DEF Groups!Next
  <2> QED BY <2>2, <2>3, <2>4
<1> QED BY <1>1, <1>2

LEMMA InitRefines == ASSUME ConditionalAssumption, Init PROVE Groups!Init
<1>1. ifdepth = 0 /\ ~error /\ ~ended /\ ~kept /\ line = [kind |-> "text", cond |-> "true"]
  BY DEF Init
<1>2. Stack = Groups!Empty
  BY <1>1 DEF Stack, Groups!Empty
<1> QED BY <1>1, <1>2 DEF Groups!Init

(* readCPPline, CPPif, CPPifdef and CPPelse implement a stack of            *)
(* conditional groups, for every nesting limit: until the first error the   *)
(* text passed on is what the groups keep, and an error is reported at the  *)
(* first illegal line and at no earlier one, except where the limit is met. *)
(* As above, the bytes after elseSeen are taken to be zero.                 *)
THEOREM ImplementsConditionalGroupsHolds ==
    ASSUME ConditionalAssumption, Padding = {FALSE} PROVE Spec => ImplementsConditionalGroups
<1> DEFINE Inv == IInv /\ Flags /\ NoElseLeft /\ NoElseYet
<1>1. Init => Inv /\ Groups!Init
  BY InitIInv, InitFlags, InitNoElse, InitRefines
<1>2. Inv /\ [Next]_vars => Inv'
  BY StepIInv, StepFlags, StepNoElseLeft, StepNoElseYet
<1>3. Inv /\ Inv' /\ [Next]_vars => [Groups!Next]_(Groups!vars)
  BY StepRefines
<1> QED BY <1>1, <1>2, <1>3, PTL DEF Spec, ImplementsConditionalGroups, Groups!Spec
=============================================================================
