--------------------------- MODULE MCAotArtifacts ---------------------------
(***************************************************************************)
(* Instances of AotArtifacts: the loaders of the repository.               *)
(***************************************************************************)
EXTENDS AotArtifacts

\* SM100 blk64 BF16 and FP8, SM90 and SM120, FP8 blk128; strict or not.
Repository ==
    {l \in Loader : <<l.key, l.keeps>> \in {<<"stat", "nothing">>, <<"stat", "token">>,
                                           <<"path", "nothing">>, <<"path", "generation">>}}

\* SM100 blk64 FP8, falling back to JIT.
Fast == {[key |-> "stat", keeps |-> "token", strict |-> FALSE]}
=============================================================================
