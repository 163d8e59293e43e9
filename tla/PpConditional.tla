---------------------------- MODULE PpConditional ----------------------------
(***************************************************************************)
(* The preprocessor's conditional directives: readCPPline, CPPif, CPPifdef *)
(* and CPPelse, which skips lines until the directive it looks for.  One   *)
(* step reads one line.  The code keeps no stack: a nesting depth, a       *)
(* counter that follows it (elsetracker) and, per counter value, whether   *)
(* #else was seen; what it skips is the state of a loop in CPPelse.        *)
(***************************************************************************)
EXTENDS Integers

CONSTANTS
    MaxNesting,  \* maxIfNesting
    Padding,     \* what the bytes after elseSeen may hold at the start
    MaxStray     \* bound: #else and #elif lines read at ifdepth 0

ASSUME ConditionalAssumption ==
    /\ MaxNesting \in Nat \ {0}
    /\ Padding \subseteq BOOLEAN /\ Padding # {}
    /\ MaxStray \in {0, 1}

VARIABLES
    line,         \* the line just read
    ifdepth,
    elsetracker,
    elseSeen,     \* the array and the padding after it that the code reaches
    skipping,     \* "no", or CPPelse's matchelse: looking for "else" or "endif"
    depth,        \* CPPelse's depth: groups opened since it started to skip
    kept,         \* the last text line was passed on
    error,        \* an error was reported
    ended,        \* EndOfInput was returned
    strays

vars == <<line, ifdepth, elsetracker, elseSeen, skipping, depth, kept, error, ended, strays>>

Kinds == {"text", "if", "ifdef", "elif", "else", "endif", "end"}
Lines == [kind : Kinds, cond : {"true", "false", "bad"}]

(* elseSeen has MaxNesting entries, from 0.  The limits below let           *)
(* elsetracker reach MaxNesting + 1; the padding up to elsetracker itself   *)
(* is never initialized.                                                    *)
Slots == 0..(MaxNesting + 1)

Init ==
    /\ line = [kind |-> "text", cond |-> "true"]
    /\ ifdepth = 0
    /\ elsetracker = 0
    /\ elseSeen \in {s \in [Slots -> BOOLEAN] :
                        \A i \in Slots : IF i < MaxNesting THEN ~s[i] ELSE s[i] \in Padding}
    /\ skipping = "no"
    /\ depth = 0
    /\ kept = FALSE
    /\ error = FALSE
    /\ ended = FALSE
    /\ strays = 0

-----------------------------------------------------------------------------
\* The limits: CPPif and CPPelse refuse at maxIfNesting, CPPifdef beyond it.
IfLimit(d, e)    == d >= MaxNesting \/ e >= MaxNesting
IfdefLimit(d, e) == d > MaxNesting \/ e > MaxNesting

\* The group that ends forgets its #else.
StaleElse(e) == elseSeen
Forgotten(e) == [elseSeen EXCEPT ![e] = FALSE]

\* A nested #if met while skipping; the #endif that ends it.
Flat   == 0
Deeper == depth + 1

\* #endif outside every group changes nothing.
InSomeGroup == ifdepth > 0

-----------------------------------------------------------------------------
Report(e) == IF e THEN error' = TRUE ELSE UNCHANGED error

Stop ==
    /\ error' = TRUE
    /\ ended' = TRUE
    /\ UNCHANGED <<skipping, depth, kept, strays>>

(* CPPif and CPPifdef with the counters at d and e: beyond the limit they   *)
(* end the input, else they open a group, and skip it when the condition c  *)
(* is false.  wrong: the caller has an error to report.                     *)
EnterGroup(tooDeep, d, e, c, wrong) ==
    IF tooDeep
    THEN Stop /\ ifdepth' = d /\ elsetracker' = e
    ELSE /\ ifdepth' = d + 1
         /\ elsetracker' = e + 1
         /\ skipping' = IF c = "false" THEN "else" ELSE "no"
         /\ depth' = 0
         /\ Report(wrong \/ c = "bad")
         /\ UNCHANGED <<kept, ended, strays>>

CPPif(d, e, c, wrong) == EnterGroup(IfLimit(d, e), d, e, c, wrong)
CPPifdef(d, e, c)     == EnterGroup(IfdefLimit(d, e), d, e, c, FALSE)

SkipTo(what) == skipping' = what /\ depth' = 0

-----------------------------------------------------------------------------
\* Lines that readCPPline or the parser sees

ReadText ==
    /\ line'.kind = "text"
    /\ kept' = TRUE
    /\ UNCHANGED <<ifdepth, elsetracker, elseSeen, skipping, depth, error, ended, strays>>

ReadIf ==
    /\ \/ line'.kind = "if" /\ CPPif(ifdepth, elsetracker, line'.cond, FALSE)
       \/ line'.kind = "ifdef" /\ CPPifdef(ifdepth, elsetracker, line'.cond)
    /\ UNCHANGED elseSeen

Stray == IF ifdepth = 0 THEN strays < MaxStray /\ strays' = strays + 1 ELSE UNCHANGED strays

ReadElse ==
    /\ line'.kind = "else"
    /\ Stray
    /\ Report(elseSeen[elsetracker] \/ ifdepth = 0)
    /\ elseSeen' = [elseSeen EXCEPT ![elsetracker] = TRUE]
    /\ SkipTo("endif")
    /\ UNCHANGED <<ifdepth, elsetracker, kept, ended>>

ReadElif ==
    /\ line'.kind = "elif"
    /\ Stray
    /\ Report(elseSeen[elsetracker] \/ ifdepth = 0)
    /\ SkipTo("endif")
    /\ UNCHANGED <<ifdepth, elsetracker, elseSeen, kept, ended>>

ReadEndif ==
    /\ line'.kind = "endif"
    /\ Report(ifdepth = 0)
    /\ IF InSomeGroup
       THEN /\ elseSeen' = Forgotten(elsetracker)
            /\ elsetracker' = elsetracker - 1
            /\ ifdepth' = ifdepth - 1
       ELSE UNCHANGED <<ifdepth, elsetracker, elseSeen>>
    /\ UNCHANGED <<skipping, depth, kept, ended, strays>>

-----------------------------------------------------------------------------
\* Lines that CPPelse reads

SkipText ==
    /\ line'.kind = "text"
    /\ kept' = FALSE
    /\ UNCHANGED <<ifdepth, elsetracker, elseSeen, skipping, depth, error, ended, strays>>

SkipIf ==
    /\ line'.kind \in {"if", "ifdef"}
    /\ IF IfLimit(ifdepth, elsetracker)
       THEN Stop /\ UNCHANGED <<ifdepth, elsetracker>>
       ELSE /\ depth' = Deeper
            /\ ifdepth' = ifdepth + 1
            /\ elsetracker' = elsetracker + 1
            /\ UNCHANGED <<skipping, kept, error, ended, strays>>
    /\ UNCHANGED elseSeen

SkipEndif ==
    /\ line'.kind = "endif"
    /\ elseSeen' = Forgotten(elsetracker)
    /\ elsetracker' = elsetracker - 1
    /\ IF depth = 0
       THEN /\ skipping' = "no"
            /\ ifdepth' = IF ifdepth > 0 THEN ifdepth - 1 ELSE ifdepth
            /\ UNCHANGED depth
       ELSE /\ depth' = depth - 1
            /\ ifdepth' = ifdepth - 1
            /\ UNCHANGED skipping
    /\ UNCHANGED <<kept, error, ended, strays>>

\* The #else or #elif that matchelse looks for
Matches == skipping = "else" /\ depth = 0

SkipElse ==
    /\ line'.kind = "else"
    /\ elseSeen' = [elseSeen EXCEPT ![elsetracker] = TRUE]
    /\ skipping' = IF Matches THEN "no" ELSE skipping
    /\ Report(~Matches /\ elseSeen[elsetracker])
    /\ UNCHANGED <<ifdepth, elsetracker, depth, kept, ended, strays>>

(* A matching #elif leaves the group and CPPif enters it again, which looks *)
(* at the nesting limit once more.                                          *)
SkipElif ==
    /\ line'.kind = "elif"
    /\ IF Matches
       THEN LET d == IF ifdepth > 0 THEN ifdepth - 1 ELSE ifdepth
                e == IF ifdepth > 0 THEN elsetracker - 1 ELSE elsetracker
            IN  /\ elseSeen' = IF ifdepth > 0 THEN Forgotten(elsetracker) ELSE elseSeen
                /\ CPPif(d, e, line'.cond, elseSeen[elsetracker])
       ELSE /\ Report(elseSeen[elsetracker])
            /\ UNCHANGED <<ifdepth, elsetracker, elseSeen, skipping, depth, kept, ended, strays>>

-----------------------------------------------------------------------------
\* missingEndifCheck, at the end of the input
ReadEnd ==
    /\ line'.kind = "end"
    /\ Report(ifdepth > 0)
    /\ ended' = TRUE
    /\ UNCHANGED <<ifdepth, elsetracker, elseSeen, skipping, depth, kept, strays>>

Read == ReadText \/ ReadIf \/ ReadElse \/ ReadElif \/ ReadEndif
Skip == SkipText \/ SkipIf \/ SkipElse \/ SkipElif \/ SkipEndif

Next ==
    /\ ~ended
    /\ line' \in Lines
    /\ \/ skipping = "no" /\ Read
       \/ skipping # "no" /\ Skip
       \/ ReadEnd

Spec == Init /\ [][Next]_vars

-----------------------------------------------------------------------------
TypeOK ==
    /\ line \in Lines
    /\ ifdepth \in 0..(MaxNesting + 1)
    /\ elsetracker \in -1..(MaxNesting + 1)
    /\ elseSeen \in [Slots -> BOOLEAN]
    /\ skipping \in {"no", "else", "endif"}
    /\ depth \in 0..(MaxNesting + 1)
    /\ kept \in BOOLEAN
    /\ error \in BOOLEAN
    /\ ended \in BOOLEAN
    /\ strays \in 0..MaxStray

(* The counters that stand for the missing stack agree as long as the input *)
(* is legal: elsetracker is the nesting depth, what CPPelse has opened is   *)
(* nested in the group it skips, no #else of a group that has ended is left *)
(* behind for the next group at the same depth, and the group whose next    *)
(* section CPPelse looks for has had no #else.                              *)
CountersAgree ==
    ~error =>
        /\ elsetracker = ifdepth
        /\ skipping # "no" => depth < ifdepth
        /\ \A i \in Slots : i > ifdepth => ~elseSeen[i]
        /\ skipping = "else" => ~elseSeen[ifdepth - depth]

(* "Keep a track of whether an else has been seen at a particular depth"    *)
(* (PpContext.h:390): an #else or #elif is reported as following an #else   *)
(* only if one was read in its group.  No #else has been read in a group    *)
(* that has just been opened.                                               *)
NewGroupHasNoElse == [][ifdepth' > ifdepth => ~elseSeen'[elsetracker']]_vars

(* The directives implement a stack of conditional groups, up to the first  *)
(* error reported: the same text is kept, and the same line is the first    *)
(* illegal one.                                                             *)
Skipped == ifdepth - depth
Section(i) ==
    IF skipping = "no" \/ i < Skipped THEN "taking"
    ELSE IF i > Skipped THEN "dead"
    ELSE IF skipping = "else" THEN "waiting" ELSE "done"

Stack == [i \in 1..ifdepth |-> [section |-> Section(i), elseSeen |-> elseSeen[i]]]

Groups == INSTANCE ConditionalGroups WITH
    Limit   <- MaxNesting,
    n       <- IF error THEN 0 ELSE ifdepth,
    group   <- IF error THEN [i \in 1..0 |-> [section |-> "dead", elseSeen |-> FALSE]] ELSE Stack,
    kept    <- ~error /\ kept,
    verdict <- IF error THEN "bad" ELSE IF ended THEN "done" ELSE "ok"
ImplementsConditionalGroups == Groups!Spec
=============================================================================
