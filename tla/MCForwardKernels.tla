---------------------------- MODULE MCForwardKernels ----------------------------
\* Rows with a masked block, a late maximum, a score just over each threshold;
\* tiles without blocks, with one, two and three.
EXTENDS ForwardKernels

NegInf == -100

Sm90L(scores, tma_o, empty_ok) ==
    [kernel |-> "sm90", scores |-> scores, tma_o |-> tma_o, empty_ok |-> empty_ok]
Sm120L(scores, variant) == [kernel |-> "sm120", scores |-> scores, variant |-> variant]
Blk128L(warps, tiles) ==
    [kernel |-> "blk128", tiles |-> tiles, kv_stage |-> 4, warps |-> warps]
FusedPvL(warps, tiles, sm103) ==
    [kernel |-> "fused_pv", tiles |-> tiles, kv_stage |-> 4, warps |-> warps, sm103 |-> sm103]

One == {"a"}
Two == {"a", "b"}

\* Streams of a tile take its blocks by turns, from the last: here 0 then 20,
\* which rescales, next to one with masked blocks only; and 0 then 1, which
\* stays below each threshold, next to 0 then 20.
Late == <<20, NegInf, 0>>
Near == <<1, 20, 0, 0>>

MCLaunches ==
    {Sm90L(<<2, NegInf, 0>>, TRUE, FALSE), Sm90L(<<0, 1>>, FALSE, TRUE), Sm90L(<<>>, TRUE, TRUE)}
    \cup {Sm120L(<<2, NegInf, 0>>, "bf16"), Sm120L(<<0, 3, 2, 1>>, "sage"),
          Sm120L(<<NegInf>>, "fp8"), Sm120L(<<>>, "bf16")}
    \cup {Blk128L(One, <<Late, <<>>, <<3>>>>), Blk128L(Two, <<<<>>>>), FusedPvL(Two, <<<<>>>>, FALSE)}
    \cup {FusedPvL(One, <<Near, <<3>>>>, FALSE), FusedPvL(One, <<<<>>, <<3>>>>, FALSE),
          FusedPvL(One, <<<<1, 2, 0, 0>>>>, TRUE), FusedPvL(One, <<<<>>, <<NegInf, 0>>>>, TRUE)}
===============================================================================
