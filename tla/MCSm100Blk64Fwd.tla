---- MODULE MCSm100Blk64Fwd ----
(* Sm100Blk64Fwd with small work lists.  8, 12 and 20 blocks are 2, 4 and 6 *)
(* groups: no rescaling of O, one pair of rescalings, and the steady state. *)
EXTENDS Sm100Blk64Fwd

L(warps, work, fp8, persistent) ==
    [warps |-> warps, work |-> work, fp8 |-> fp8, persistent |-> persistent]

\* For a pair of warps: an FP8 tile with rescaling, and BF16 tiles of which the
\* lower warp writes the other's rows.  For one warp: longer lists, where every
\* buffer and barrier is reused, and CTAs of a single tile.
MCLaunches ==
    {L({0, 1}, <<12>>, TRUE, TRUE), L({0, 1}, <<0, 0>>, FALSE, TRUE),
     L({0}, <<0, 20, 8, 0>>, FALSE, TRUE), L({0}, <<12, 8>>, TRUE, TRUE),
     L({0}, <<12>>, TRUE, FALSE), L({0}, <<0>>, FALSE, FALSE)}
====
