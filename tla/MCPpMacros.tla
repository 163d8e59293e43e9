------------------------------ MODULE MCPpMacros ------------------------------
(* Tables in which macros of both kinds name themselves and each other, and *)
(* every source of up to Length tokens over the names and the punctuation,  *)
(* also within a call, beside some longer ones.                             *)
EXTENDS PpMacros

CONSTANT Length

Object(b)      == [functionLike |-> FALSE, args |-> <<>>, body |-> b]
Function(a, b) == [functionLike |-> TRUE, args |-> a, body |-> b]
Table(o, f)    == [m \in {"o", "f"} |-> IF m = "o" THEN o ELSE f]

MCTables ==
    {Table(Object(<<"o", "1">>), Function(<<"x">>, <<"x">>)),
     Table(Object(<<"f">>), Function(<<"x">>, <<"x", "o">>)),
     Table(Object(<<"f", "(", "o", ")">>), Function(<<"x", "y">>, <<"y", "f", "x">>)),
     Table(Object(<<"f", "(">>), Function(<<>>, <<"1">>)),
     Table(Object(<<>>), Function(<<"x">>, <<"f", "(", "x", ")", "x">>)),
     Table(Object(<<"f", "(", "1", ",", "1">>), Function(<<"x">>, <<"x">>)),
     Table(Object(<<"f", "(", "1">>), Function(<<"x">>, <<"o", ")", "x">>))}

Atoms == {"o", "f", "1", "(", ")", ",", "\n"}

Longer ==
    {<<"f", "(", "o", "(", "1", ")", ")">>, <<"f", "(", "f", ")", "(", "1", ")">>,
     <<"f", "(", "f", "(", "o", ")", ",", "f", ")", "(", "1", ")">>,
     <<"f", "(", "o", ",", "(", "1", ",", "o", ")", ")">>,
     <<"o", "o", ")", ")", "(", "1", ")">>, <<"f", "\n", "(", "\n", "o", ")", "f", "(", ")">>,
     <<"f", "(", "o", "1", ",", "o", ",", "f", "(", "1", ")", ")", "1">>,
     <<"#", "o", "\n", "f", "(", "o", ")", "\n", "#", "f", "\n", "f", "(", "o", ")">>,
     <<"f", "(", "1", ",", "1", ",", "{", "1", ")", "}", ")", "o">>,
     <<"f", "(", "1", ",", "1", ",", "}", "(", ")", "(", "o", ")">>, <<"f", "(", "}", "o", "(", ")", "1">>,
     <<"f", "\n", "#", "o", "\n", "o">>, <<"o", "\n", "#", "o", "\n", "o">>,
     <<"f", "(", "o", "\n", "#", "o", "\n", ")">>}

CallOf(inside) == <<"f", "(">> \o inside \o <<")">>

MCSources ==
    Longer \cup SeqOf(Atoms, Length) \cup {CallOf(s) : s \in SeqOf(Atoms \ {"\n"}, Length)}

=============================================================================
