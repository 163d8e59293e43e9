--------------------------- MODULE MacroReference ---------------------------
(***************************************************************************)
(* What macro expansion means in C: every token carries the macros it must *)
(* not be expanded by any more.  An expansion adds its macro to the tokens *)
(* it puts in place of the call, and the arguments are expanded first, on  *)
(* their own.                                                              *)
(***************************************************************************)
EXTENDS Naturals, Integers, FiniteSets, Sequences, SequencesExt

Text == Seq([atom : STRING, hide : SUBSET STRING])

Hidden(tokens, hide) == [i \in DOMAIN tokens |-> [tokens[i] EXCEPT !.hide = @ \cup hide]]

\* how deep the parentheses are nested at the i-th token
Nesting(tokens, i) ==
    Cardinality({j \in 1 .. i : tokens[j].atom = "("}) - Cardinality({j \in 1 .. i : tokens[j].atom = ")"})

\* the place of the ')' of a text that begins with its '(', 0 if there is none
Closing(tokens) ==
    LET at == {i \in DOMAIN tokens :
                 tokens[1].atom = "(" /\ tokens[i].atom = ")" /\ Nesting(tokens, i) = 0}
    IN  IF at = {} THEN 0 ELSE CHOOSE i \in at : \A j \in at : i <= j

\* the parentheses and the commas between which the arguments are
Cuts(tokens, closing) ==
    {1, closing} \cup {i \in 2 .. closing - 1 : tokens[i].atom = "," /\ Nesting(tokens, i) = 1}
Cut(cuts, k) == CHOOSE c \in cuts : Cardinality({d \in cuts : d <= c}) = k
Argument(tokens, cuts, k) == SubSeq(tokens, Cut(cuts, k) + 1, Cut(cuts, k + 1) - 1)

GivenTexts(def, expanded, tokens, closing) ==
    LET cuts == Cuts(tokens, closing) IN
    [k \in DOMAIN def.args |-> IF k < Cardinality(cuts) THEN expanded[Argument(tokens, cuts, k)] ELSE <<>>]

\* what stands for the atom, given the expanded arguments
Piece(def, given, atom) ==
    LET at == {k \in DOMAIN def.args : def.args[k] = atom} IN
    IF at = {} THEN <<[atom |-> atom, hide |-> {}]>> ELSE given[CHOOSE k \in at : TRUE]
Pieces(def, given, atoms) == FlattenSeq([i \in DOMAIN atoms |-> Piece(def, given, atoms[i])])
Substituted(def, given, hide) == Hidden(Pieces(def, given, def.body), hide)

\* the first token is kept, or expanded if it may be; expanded tells of every other text
Rule(defs, expanded, tokens) ==
    IF tokens = <<>> THEN <<>>
    ELSE
    LET t       == Head(tokens)
        rest    == Tail(tokens)
        def     == defs[t.atom]
        closing == Closing(rest)
    IN
    IF t.atom \notin DOMAIN defs \/ t.atom \in t.hide \/ (def.functionLike /\ closing = 0)
    THEN <<t>> \o expanded[rest]
    ELSE IF def.functionLike
    THEN expanded[Substituted(def, GivenTexts(def, expanded, rest, closing),
                              (t.hide \cap rest[closing].hide) \cup {t.atom})
                    \o SubSeq(rest, closing + 1, Len(rest))]
    ELSE expanded[Substituted(def, <<>>, t.hide \cup {t.atom}) \o rest]

Expansion(defs) ==
    LET expanded[tokens \in Text] == Rule(defs, expanded, tokens) IN expanded

\* line ends are no part of a text
Unbroken(tokens) ==
    FlattenSeq([i \in DOMAIN tokens |-> IF tokens[i].atom = "\n" THEN <<>> ELSE <<tokens[i]>>])

\* the atoms that the source, without directives, stands for
Meaning(defs, source) ==
    LET tokens == [i \in DOMAIN source |-> [atom |-> source[i], hide |-> {}]]
        result == Expansion(defs)[Unbroken(tokens)]
    IN  [i \in DOMAIN result |-> result[i].atom]
=============================================================================
