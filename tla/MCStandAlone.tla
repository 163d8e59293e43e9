---------------------------- MODULE MCStandAlone ----------------------------
(* glslangValidator on three files: two share their cache key, one is   *)
(* for a source this build has no built-ins for.                           *)
EXTENDS StandAlone, TLC

CONSTANTS m, w1, w2, k1, hlsl, f1, f2, f3

MCThreads     == {m, w1, w2}
MCClients     == {m}
MCWorkers     == {w1, w2}
MCKeys        == {k1, hlsl}
MCUnbuildable == {hlsl}
MCItems       == <<f1, f2, f3>>
MCKeyOf       == (f1 :> k1) @@ (f2 :> hlsl) @@ (f3 :> k1)

\* singleMain's mode for independent files
MCScript      == <<"init", "init", "final", "run", "print", "final">>
=============================================================================
