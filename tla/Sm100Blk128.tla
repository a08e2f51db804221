------------------------------- MODULE Sm100Blk128 -------------------------------
(***************************************************************************)
(* What the two forward kernels of csrc/fwd/sm100_blk128/ share: BF16      *)
(* (bsa_fwd_sm100.py, module Sm100Blk128Fwd) and FP8 with the fused        *)
(* denominator (bsa_fwd_sm100_fp8.py with bsa_fwd_sm100_fp8_fused_pv.py,   *)
(* module Sm100Blk128FusedPv).  A CTA takes query tiles one after the      *)
(* other.  A load warp brings Q and a ring of K and V blocks, an MMA warp  *)
(* feeds the tensor core, two softmax warpgroups take the blocks of a tile *)
(* by turns, a correction warpgroup rescales the two partial outputs and   *)
(* adds them, and an epilogue warp stores the tile.  This module has the   *)
(* load warp, the copies, the tensor core's queue and the epilogue.        *)
(*                                                                         *)
(* A tile of raw blocks is worked through in an even number of steps: with *)
(* an odd one the first step is a phantom, which loads the last block once *)
(* more and is masked away.                                                *)
(***************************************************************************)
EXTENDS Integers, Sequences, FiniteSets, Mbarrier, OnlineSoftmax

VARIABLES
    launch,     \* [tiles : Seq(Seq(score of the row in each block)), kv_stage : Nat,
                \*  warps : the warps of a warpgroup, sm103 : BOOLEAN], never changed
    bar,        \* mbarriers and named barriers
    smem,       \* Q, the K/V ring, the statistics between warpgroups, the O tile
    inflight,   \* TMA copies under way
    tmem,       \* S, P, O (and its denominator) of each warp's rows
    tc,         \* the tensor core's queue
    warp,       \* registers of each role
    out         \* what each piece of O and LSE is

vars == <<launch, bar, smem, inflight, tmem, tc, warp, out>>

Warps == launch.warps               \* warp w of each warpgroup has the same rows
Stage == 0 .. 1                     \* s_stage: one softmax warpgroup each
Slot == 0 .. launch.kv_stage - 1
Tiles == 1 .. Len(launch.tiles)
Raw(t) == Len(launch.tiles[t])
HasWork(t) == Raw(t) > 0
N(t) == 2 * ((Raw(t) + 1) \div 2)   \* block_iter_count

\* Step j of a tile, from 0, takes logical block N - 1 - j; get_n_block_idx
\* clamps the phantom's index to the last block there is.
Logical(t, j) == N(t) - 1 - j
Clamped(t, i) == IF i < Raw(t) THEN i ELSE Raw(t) - 1
Score(t, i) == IF i < Raw(t) THEN launch.tiles[t][i + 1] ELSE NegInf

Tag(k, t, i) == [k |-> k, tile |-> t, i |-> i]
Nothing == Tag("none", 0, 0)

Count == Cardinality(Warps)

\* The barriers both kernels have, with the arrivals a phase takes, in warps.
SharedBars ==
    [q_full |-> 1, q_empty |-> 1, epi_full |-> Count, epi_empty |-> 1]
SharedBarId ==
    {<<name, 0>> : name \in DOMAIN SharedBars}
    \cup {<<name, s>> : name \in {"kv_full", "kv_empty"}, s \in Slot}
    \cup {<<name, g>> : name \in {"s_full", "o_acc", "sm_stats"}, g \in Stage}
SharedArrivals(b) ==
    IF b[1] \in DOMAIN SharedBars THEN SharedBars[b[1]]
    ELSE IF b[1] = "sm_stats" THEN Count ELSE 1

\* arrive_and_wait: a warp arrives, remembers the phase it arrived in, and goes
\* on when that is over.
Met(b, me) == Passed(bar[b], me.par)

-----------------------------------------------------------------------------
(* Load warp.                                                              *)

\* K[N-1], Q, K[N-2], {V[N-1-i], K[N-3-i]}, V[1], V[0].
Item(n, j) ==
    IF j = 1 THEN [k |-> "Q", i |-> 0]
    ELSE IF j <= 2 THEN [k |-> "K", i |-> n - 1 - j \div 2]
    ELSE IF j % 2 = 1 /\ j < 2 * n THEN [k |-> "V", i |-> n - 1 - (j - 3) \div 2]
    ELSE IF j = 2 * n THEN [k |-> "V", i |-> 0]
    ELSE [k |-> "K", i |-> n - 3 - (j - 4) \div 2]

LoadInit == [tile |-> 1, j |-> 0, kv |-> 0, q |-> 0, done |-> FALSE]

LoadSkip ==
    LET ld == warp.load IN
    /\ ld.tile \in Tiles /\ ~HasWork(ld.tile)
    /\ warp' = [warp EXCEPT !.load.tile = @ + 1]
    /\ UNCHANGED <<launch, bar, smem, inflight, tmem, tc, out>>

\* producer_acquire, then the copy: load_Q, load_KV.
LoadCopy ==
    LET ld == warp.load
        t == ld.tile
        item == Item(N(t), ld.j)
        s == ld.kv % launch.kv_stage
        next == IF ld.j = 2 * N(t) THEN [ld EXCEPT !.tile = @ + 1, !.j = 0]
                ELSE [ld EXCEPT !.j = @ + 1]
    IN  /\ t \in Tiles /\ HasWork(t)
        /\ IF item.k = "Q"
           THEN /\ Passed(bar[<<"q_empty", 0>>], EmptyPhase(ld.q, 1))
                /\ bar' = ExpectAt(bar, <<"q_full", 0>>, 1)
                /\ smem' = [smem EXCEPT !.q = 0]
                /\ inflight' = inflight \cup {[slot |-> -1, tag |-> Tag("Q", t, 0)]}
                /\ warp' = [warp EXCEPT !.load = [next EXCEPT !.q = @ + 1]]
           ELSE /\ Passed(bar[<<"kv_empty", s>>], EmptyPhase(ld.kv, launch.kv_stage))
                /\ bar' = ExpectAt(bar, <<"kv_full", s>>, 1)
                /\ smem' = [smem EXCEPT !.kv[s] = Nothing]
                /\ inflight' = inflight \cup
                     {[slot |-> s, tag |-> Tag(item.k, t, Clamped(t, item.i))]}
                /\ warp' = [warp EXCEPT !.load = [next EXCEPT !.kv = @ + 1]]
        /\ UNCHANGED <<launch, tmem, tc, out>>

\* producer_tail of K/V, then of Q.
LoadTail ==
    LET ld == warp.load
        last == ld.kv + launch.kv_stage - 1
    IN  /\ ld.tile \notin Tiles /\ ~ld.done
        /\ Passed(bar[<<"kv_empty", last % launch.kv_stage>>], EmptyPhase(last, launch.kv_stage))
        /\ Passed(bar[<<"q_empty", 0>>], EmptyPhase(ld.q, 1))
        /\ warp' = [warp EXCEPT !.load.done = TRUE]
        /\ UNCHANGED <<launch, bar, smem, inflight, tmem, tc, out>>

Load == LoadSkip \/ LoadCopy \/ LoadTail

\* The bytes of a copy have arrived; the store of an O tile has been written.
Land(c) ==
    /\ c \in inflight
    /\ inflight' = inflight \ {c}
    /\ CASE c.tag.k = "Q" -> /\ smem' = [smem EXCEPT !.q = c.tag.tile]
                             /\ bar' = ReceivedAt(bar, <<"q_full", 0>>) /\ UNCHANGED out
         [] c.tag.k = "O" -> /\ out' = [out EXCEPT ![<<"o", c.tag.tile, 0>>] =
                                  IF smem.o = [w \in Warps |-> c.tag.tile] THEN "exact" ELSE "wrong"]
                             /\ UNCHANGED <<bar, smem>>
         [] OTHER -> /\ smem' = [smem EXCEPT !.kv[c.slot] = c.tag]
                     /\ bar' = ReceivedAt(bar, <<"kv_full", c.slot>>) /\ UNCHANGED out
    /\ UNCHANGED <<launch, tmem, tc, warp>>

-----------------------------------------------------------------------------
(* Tensor core.                                                            *)

\* An operation and the mbarriers committed after it.
Op(do, g, slot, first, arrive) ==
    [do |-> do, g |-> g, slot |-> slot, first |-> first, arrive |-> arrive, p |-> g]
Commit(arrive) == Op("none", 0, 0, FALSE, arrive)

\* S = Q K: the block's scores, if both operands are of one tile.
Scores(slot) ==
    IF smem.kv[slot].k = "K" /\ smem.kv[slot].tile = smem.q
    THEN [smem.kv[slot] EXCEPT !.k = "S"] ELSE Nothing

-----------------------------------------------------------------------------
(* Correction of the last step of a tile, and the epilogue warp.           *)

\* One row of the tile from its two streams: g has maximum max[g] (NegInf when
\* its sum is zero), and terms relative to it, with the bias of P.
Total(t, max, terms, bias) ==
    LET top == Larger(max[0], max[1])
        All == UNION {TermOf(i, Score(t, i), Safe(top) - bias) : i \in 0 .. Raw(t) - 1}
    IN  UNION {Rescaled(terms[g], max[g], Safe(top)) : g \in Stage} = All

\* Here O leaves the correction warp: the tile's number if it is right, else -1.
Finished(t, right) == IF right THEN t ELSE -1

EpInit == [pc |-> "wait", tile |-> 1]

\* epilogue_s2g
EpilogueStore ==
    /\ warp.ep.pc = "wait" /\ warp.ep.tile \in Tiles
    /\ Passed(bar[<<"epi_full", 0>>], FullPhase(warp.ep.tile - 1, 1))
    /\ inflight' = inflight \cup {[slot |-> -1, tag |-> Tag("O", warp.ep.tile, 0)]}
    /\ warp' = [warp EXCEPT !.ep.pc = "drain"]
    /\ UNCHANGED <<launch, bar, smem, tmem, tc, out>>

\* cp_async_bulk_wait_group(read), then the tile's memory is given back.
EpilogueRelease ==
    /\ warp.ep.pc = "drain" /\ \A c \in inflight : c.tag.k # "O"
    /\ bar' = ArriveAt(bar, {<<"epi_empty", 0>>})
    /\ warp' = [warp EXCEPT !.ep = [pc |-> "wait", tile |-> warp.ep.tile + 1]]
    /\ UNCHANGED <<launch, smem, inflight, tmem, tc, out>>

Epilogue == EpilogueStore \/ EpilogueRelease

OutInit == [i \in ({"o"} \X Tiles \X {0}) \cup ({"lse"} \X Tiles \X Warps) |-> "unwritten"]

-----------------------------------------------------------------------------

InSlot(s) == {c \in inflight : c.slot = s}

(* Until the tensor core has executed an operation, the tiles in shared      *)
(* memory it reads stay: K with the Q of its own tile, or V.                 *)
SharedOperandsHeld ==
    \A n \in DOMAIN tc :
        LET op == tc[n] IN
        op.do # "none" =>
            /\ InSlot(op.slot) = {}
            /\ IF op.do = "QK" THEN Scores(op.slot) # Nothing ELSE smem.kv[op.slot].k = "V"
===============================================================================
