-------------------------- MODULE ConditionalGroups --------------------------
(***************************************************************************)
(* What conditional inclusion means, line by line: a stack of #if groups,  *)
(* each with one section that may be taken, and the lines that no sequence *)
(* of groups allows.  A text line is kept when the innermost group is in   *)
(* the section it takes.  Up to and including the first illegal line all   *)
(* is determined; nothing is promised after it.                            *)
(***************************************************************************)
EXTENDS Integers

CONSTANTS
    Limit,  \* nesting an implementation must support; deeper it may refuse
    Lines   \* records [kind, cond]; cond matters to "if", "ifdef" and "elif"

VARIABLES
    line,     \* the last line read
    n, group, \* the open groups, outermost first: group \in [1..n -> Groups]
    kept,     \* the last text line was kept
    verdict   \* "ok", "bad" after an illegal line, "done" after a legal end

vars == <<line, n, group, kept, verdict>>

Groups == [section : {"taking", "waiting", "done", "dead"}, elseSeen : BOOLEAN]

Empty == [i \in 1..0 |-> [section |-> "dead", elseSeen |-> FALSE]]
Active == n = 0 \/ group[n].section = "taking"

Init == line = [kind |-> "text", cond |-> "true"] /\ n = 0 /\ group = Empty /\ kept = FALSE /\ verdict = "ok"

Opens(l) == l.kind \in {"if", "ifdef"}

\* The condition of l is evaluated, and has no value.
Evaluated(l) == \/ Opens(l) /\ Active
                \/ l.kind = "elif" /\ n > 0 /\ group[n].section = "waiting"

Illegal(l) ==
    \/ l.kind \in {"else", "elif", "endif"} /\ n = 0
    \/ l.kind \in {"else", "elif"} /\ n > 0 /\ group[n].elseSeen
    \/ Evaluated(l) /\ l.cond = "bad"
    \/ l.kind = "end" /\ n > 0

Opened(c) == [section  |-> IF ~Active THEN "dead" ELSE IF c = "true" THEN "taking" ELSE "waiting",
              elseSeen |-> FALSE]

\* The section that follows a group's current one when the next condition is c.
Following(section, c) ==
    CASE section = "taking"  -> "done"
      [] section = "waiting" -> IF c = "true" THEN "taking" ELSE "waiting"
      [] OTHER               -> section

Text(l)  == l.kind = "text" /\ kept' = Active /\ UNCHANGED <<n, group, verdict>>

Open(l)  == /\ Opens(l)
            /\ n' = n + 1
            /\ group' = [i \in 1..(n + 1) |-> IF i = n + 1 THEN Opened(l.cond) ELSE group[i]]
            /\ UNCHANGED <<kept, verdict>>

Elif(l)  == /\ l.kind = "elif"
            /\ group' = [group EXCEPT ![n].section = Following(@, l.cond)]
            /\ UNCHANGED <<n, kept, verdict>>

Else(l)  == /\ l.kind = "else"
            /\ group' = [group EXCEPT ![n] = [section |-> Following(@.section, "true"), elseSeen |-> TRUE]]
            /\ UNCHANGED <<n, kept, verdict>>

Endif(l) == /\ l.kind = "endif"
            /\ n' = n - 1
            /\ group' = [i \in 1..(n - 1) |-> group[i]]
            /\ UNCHANGED <<kept, verdict>>

End(l)   == l.kind = "end" /\ verdict' = "done" /\ UNCHANGED <<n, group, kept>>

Legal(l) == ~Illegal(l) /\ (Text(l) \/ Open(l) \/ Elif(l) \/ Else(l) \/ Endif(l) \/ End(l))

(* An illegal line, or one that nests too deep for the implementation.      *)
Refused(l) == Illegal(l) \/ (n >= Limit /\ l.kind \in {"if", "ifdef", "elif"})
Bad(l) == Refused(l) /\ verdict' = "bad" /\ n' = 0 /\ group' = Empty /\ kept' = FALSE

Next == \E l \in Lines :
            /\ line' = l
            /\ \/ verdict = "ok" /\ (Legal(l) \/ Bad(l))
               \/ verdict = "bad" /\ UNCHANGED <<n, group, kept, verdict>>

Spec == Init /\ [][Next]_vars
==============================================================================
