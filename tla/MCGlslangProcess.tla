-------------------------- MODULE MCGlslangProcess --------------------------
(* One client and two workers sharing the caches of two keys that can be    *)
(* built and one that cannot.                                              *)
EXTENDS GlslangProcess

CONSTANTS m, w1, w2, k1, k2, hlsl

MCThreads     == {m, w1, w2}
MCClients     == {m}
MCKeys        == {k1, k2, hlsl}
MCUnbuildable == {hlsl}

=============================================================================
