-------------------------------- MODULE SplitKv --------------------------------
(***************************************************************************)
(* How the n sparse K/V blocks of a query row are cut into splits that     *)
(* different CTAs work on.  The boundaries are computed twice: inside the  *)
(* kernel for uniform counts (get_tile_block_count_and_offset) and on the  *)
(* host, as a tensor, for variable counts and for the SM90 kernel          *)
(* (_build_sm100_blk64_kv_split_offsets).                                  *)
(***************************************************************************)
EXTENDS Integers

Smaller(a, b) == IF a < b THEN a ELSE b

\* Whole groups of eight blocks that every split gets.
AlignedBase(n, splits) == ((n \div splits) \div 8) * 8
Remainder(n, splits) == n - AlignedBase(n, splits) * splits

\* A bug for the runs to find: the remainder is given out one block at a time.
OffsetByOne(n, splits, i) ==
    IF AlignedBase(n, splits) > 0
    THEN AlignedBase(n, splits) * i + Smaller(Remainder(n, splits), i)
    ELSE (n * i + splits - 1) \div splits

\* The first block of split i; the blocks of split i end where split i+1 starts.
Offset(n, splits, i) ==
    IF AlignedBase(n, splits) > 0
    THEN AlignedBase(n, splits) * i + Smaller(Remainder(n, splits), i * 8)
    ELSE (n * i + splits - 1) \div splits

\* get_tile_block_count_and_offset: the blocks of split i.
BlocksOf(n, splits, i) == Offset(n, splits, i) .. Offset(n, splits, i + 1) - 1

\* The host clamps the aligned boundaries to the count.
HostOffset(n, splits, i) ==
    IF AlignedBase(n, splits) = 0
    THEN (n * i + splits - 1) \div splits
    ELSE Smaller(AlignedBase(n, splits) * i + Smaller(Remainder(n, splits), i * 8), n)
===============================================================================
