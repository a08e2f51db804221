---- MODULE MCSm100Blk64Bwd ----
(* Sm100Blk64Bwd with small lists of Q blocks.                              *)
EXTENDS Sm100Blk64Bwd

L(edges, seqlen_q, compute, reduce, chunks) ==
    [edges |-> edges, seqlen_q |-> seqlen_q,
     compute |-> compute, reduce |-> reduce, chunks |-> chunks]

\* Three pairs with padding: both stages of Q and every parity bit are reused,
\* once with two compute warps and once with two reduce warps that store dQ in
\* two pieces; a single pair with two of each; no work at all.  The sequence
\* ends with a whole block.
MCAligned ==
    {L(<<4, 0, 2, 1, 3>>, 320, {0, 1}, {0}, 1),
     L(<<4, 0, 2, 1, 3>>, 320, {0}, {0, 1}, 2),
     L(<<1, 0>>, 128, {0, 1}, {0, 1}, 2),
     L(<<>>, 128, {0, 1}, {0, 1}, 1)}

\* The last block of the sequence is half full, and the list is odd.
MCRagged == {L(<<0, 1, 2>>, 160, {0}, {0}, 1)}
====
