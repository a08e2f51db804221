--------------------------- MODULE MCBackwardKernels ---------------------------
\* Lists of one to four Q blocks, and none.
EXTENDS BackwardKernels

CONSTANTS w0, w1

All == Sm90!Products

Sm90L(edges, warps, lockstep) ==
    [kernel |-> "sm90", edges |-> edges, warps |-> warps, lockstep |-> lockstep]
Blk128L(edges, warps, reduce, chunks, accum) ==
    [kernel |-> "blk128", edges |-> edges, warps |-> warps, reduce |-> reduce,
     chunks |-> chunks, accum |-> accum]

\* On Hopper: three stages of Q are reused by the fourth block; two warps, that
\* wait for each other at every WGMMA, or not at those of dQ and dK; and the list
\* of one block, on which V is not held.  On Blackwell: two stages are reused by the
\* third block; dQ in two chunks, or of two reduce warps.
MCLaunches ==
    {Sm90L(<<4, 2, 7, 1>>, {w0}, All), Sm90L(<<4, 2>>, {w0, w1}, All),
     Sm90L(<<4, 2>>, {w0, w1}, All \ {"dQ", "dK"}),
     Sm90L(<<4>>, {w0}, All), Sm90L(<<4>>, {w0, w1}, All), Sm90L(<<>>, {w0}, All)}
    \cup {Blk128L(<<4, 2, 7>>, {w0}, {w0}, 1, FALSE), Blk128L(<<4>>, {w0}, {w0}, 2, TRUE),
          Blk128L(<<4>>, {w0}, {w0, w1}, 1, FALSE), Blk128L(<<>>, {w0}, {w0}, 1, FALSE),
          Blk128L(<<>>, {w0, w1}, {w0, w1}, 1, TRUE)}
===============================================================================
