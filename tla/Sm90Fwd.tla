-------------------------------- MODULE Sm90Fwd --------------------------------
(***************************************************************************)
(* One CTA of the Hopper forward kernel of csrc/fwd/sm90_blk64/            *)
(* bsa_fwd_sm90.py: one warpgroup, whose warps all run the same program    *)
(* and whose warp 0 also issues the TMA copies.  Q, K and V have one       *)
(* shared-memory tile each and a "full" mbarrier, but no "empty" one:      *)
(* nothing tells warp 0 that the other warps are done with a tile.  What   *)
(* stands in for it is WGMMA, which starts when the whole warpgroup has    *)
(* arrived at it and is over for all of them at once.                      *)
(*                                                                         *)
(* The CTA has the blocks DOMAIN launch.scores of its row's list (those of *)
(* its split, for kernel_split) and takes them from the last to the first. *)
(***************************************************************************)
EXTENDS Integers, Sequences, FiniteSets, Mbarrier, OnlineSoftmax

CONSTANTS Warps   \* the warps of the warpgroup

VARIABLES
    launch,     \* [scores : Seq(score of the row in each block),
                \*  tma_o : BOOLEAN, empty_ok : BOOLEAN], never changed
    bar,        \* Q, K and V barriers, and sync_threads
    smem,       \* the three tiles: the block they hold, 0 for none
    inflight,   \* TMA copies under way
    tc,         \* the product WGMMA is computing, or "none"
    warp,       \* registers of each warp
    out         \* what each warp's rows of O and LSE are

vars == <<launch, bar, smem, inflight, tc, warp, out>>

Leader == CHOOSE w \in Warps : TRUE
N == Len(launch.scores)
Block(j) == N - j            \* the block of iteration j, from 0

\* process_tile: the variant compiled for non-empty rows does not ask.
ProcessTile == launch.empty_ok => N > 0

Init ==
    /\ bar = [Q |-> Fresh(1), K |-> Fresh(1), V |-> Fresh(1),
              sync |-> Fresh(Cardinality(Warps))]
    /\ smem = [q |-> [w \in Warps |-> "none"], k |-> 0, v |-> 0,
               o |-> [w \in Warps |-> EmptyRow]]
    /\ inflight = {} /\ tc = "none"
    /\ warp = [w \in Warps |-> [pc |-> IF ProcessTile THEN "load" ELSE "final",
                                j |-> 0, s |-> 0, syncs |-> 0, row |-> EmptyRow]]
    /\ out = [i \in {"o", "lse"} \X Warps |-> "unwritten"]

-----------------------------------------------------------------------------
(* The warps.                                                              *)

Go(w, pc) == warp' = [warp EXCEPT ![w].pc = pc]

\* A copy starts: the tile is no longer what it was.
Start(tile, b) ==
    /\ bar' = ExpectAt(bar, tile, 1)
    /\ inflight' = inflight \cup {[tile |-> tile, block |-> b]}
    /\ smem' = CASE tile = "K" -> [smem EXCEPT !.k = 0]
                 [] tile = "V" -> [smem EXCEPT !.v = 0]

\* Warp 0 loads Q and the last block's K; then all warps meet.
Load(w) ==
    /\ warp[w].pc = "load"
    /\ IF w = Leader
       THEN /\ bar' = ExpectAt(ExpectAt(bar, "Q", 1), "K", 1)
            /\ inflight' = {[tile |-> "Q", block |-> 0], [tile |-> "K", block |-> Block(0)]}
       ELSE UNCHANGED <<bar, inflight>>
    /\ Go(w, "sync")
    /\ UNCHANGED <<launch, smem, tc, out>>

SyncArrive(w) ==
    /\ warp[w].pc = "sync"
    /\ bar' = ArriveAt(bar, {"sync"})
    /\ warp' = [warp EXCEPT ![w].pc = "q", ![w].syncs = @ + 1]
    /\ UNCHANGED <<launch, smem, inflight, tc, out>>

WaitQ(w) ==
    /\ warp[w].pc = "q" /\ Passed(bar.sync, 0) /\ Passed(bar.Q, 0)
    /\ Go(w, IF w = Leader THEN "v" ELSE "k")
    /\ UNCHANGED <<launch, bar, smem, inflight, tc, out>>

\* Top of the loop: warp 0 loads the V of this block.
LoadV(w) ==
    /\ warp[w].pc = "v"
    /\ Start("V", Block(warp[w].j))
    /\ Go(w, "k")
    /\ UNCHANGED <<launch, tc, out>>

\* After the wait, warpgroup.fence(): the warp has joined the next product.
WaitK(w) ==
    /\ warp[w].pc = "k" /\ Passed(bar.K, warp[w].j % 2)
    /\ Go(w, "qk")
    /\ UNCHANGED <<launch, bar, smem, inflight, tc, out>>

WaitV(w) ==
    /\ warp[w].pc = "p" /\ Passed(bar.V, warp[w].j % 2)
    /\ Go(w, "pv")
    /\ UNCHANGED <<launch, bar, smem, inflight, tc, out>>

\* A bug for the runs to find: the next K is loaded before S is there.
LoadKEarly(w) ==
    /\ warp[w].pc = "qk" /\ w = Leader /\ warp[w].j + 1 < N
    /\ inflight = {} /\ smem.k # 0
    /\ Start("K", Block(warp[w].j + 1))
    /\ UNCHANGED <<launch, tc, warp, out>>

\* wait_group(0) has returned: warp 0 loads the K of the next block, if any.
LoadK(w) ==
    /\ warp[w].pc = "next"
    /\ IF w = Leader /\ warp[w].j + 1 < N
       THEN Start("K", Block(warp[w].j + 1))
       ELSE UNCHANGED <<bar, inflight, smem>>
    /\ Go(w, "softmax")
    /\ UNCHANGED <<launch, tc, out>>

\* mask, get_prev_ratio_and_update_max_and_rescale_sum, inc_softmax, rescale.
Softmax(w) ==
    LET me == warp[w] IN
    /\ me.pc = "softmax"
    /\ warp' = [warp EXCEPT ![w].pc = "p",
                  ![w].row = IF me.s = 0 THEN [me.row EXCEPT !.p = {Broken}]
                             ELSE Update(me.row, me.s, launch.scores[me.s])]
    /\ UNCHANGED <<launch, bar, smem, inflight, tc, out>>

-----------------------------------------------------------------------------
(* WGMMA: starts when every warp has come to it, ends for all at once.     *)

AllAt(pc) == \A w \in Warps : warp[w].pc = pc

WgmmaStart ==
    /\ tc = "none"
    /\ \/ AllAt("qk") /\ tc' = "QK"
       \/ AllAt("pv") /\ tc' = "PV"
    /\ UNCHANGED <<launch, bar, smem, inflight, warp, out>>

QReady == \A w \in Warps : smem.q[w] = "Q"

WgmmaEnd ==
    /\ tc # "none" /\ tc' = "none"
    /\ warp' = [w \in Warps |->
          LET me == warp[w] IN
          IF tc = "QK"
          THEN [me EXCEPT !.pc = "next", !.s = IF QReady THEN smem.k ELSE 0]
          ELSE [me EXCEPT !.pc = IF me.j + 1 = N THEN "final"
                                 ELSE IF w = Leader THEN "v" ELSE "k",
                          !.j = @ + 1, !.s = 0,
                          !.row = AddPV(@, smem.v = me.s)]]
    /\ UNCHANGED <<launch, bar, smem, inflight, out>>

-----------------------------------------------------------------------------
(* Epilogue.                                                               *)

\* Only the empty-safe finaliser divides a row without any score by anything
\* but its sum, which is 0.
Status(row) ==
    IF Exact(row, launch.scores) /\ (row.sum = {} => launch.empty_ok)
    THEN "exact" ELSE "wrong"

\* LSE goes to global memory; O through shared memory, where Q was, or directly.
Final(w) ==
    /\ warp[w].pc = "final"
    /\ IF launch.tma_o
       THEN /\ smem' = [smem EXCEPT !.q[w] = "O", !.o[w] = warp[w].row]
            /\ out' = [out EXCEPT ![<<"lse", w>>] = Status(warp[w].row)]
            /\ bar' = ArriveAt(bar, {"sync"})
            /\ warp' = [warp EXCEPT ![w].pc = "store", ![w].syncs = @ + 1]
       ELSE /\ out' = [out EXCEPT ![<<"lse", w>>] = Status(warp[w].row),
                                  ![<<"o", w>>] = Status(warp[w].row)]
            /\ Go(w, "done") /\ UNCHANGED <<smem, bar>>
    /\ UNCHANGED <<launch, inflight, tc>>

\* After sync_threads warp 0 issues the TMA store and waits until it has read O.
Store(w) ==
    /\ warp[w].pc = "store" /\ Passed(bar.sync, (warp[w].syncs - 1) % 2)
    /\ inflight' = IF w = Leader THEN inflight \cup {[tile |-> "O", block |-> 0]} ELSE inflight
    /\ Go(w, IF w = Leader THEN "drain" ELSE "done")
    /\ UNCHANGED <<launch, bar, smem, tc, out>>

Drain(w) ==
    /\ warp[w].pc = "drain" /\ \A c \in inflight : c.tile # "O"
    /\ Go(w, "done")
    /\ UNCHANGED <<launch, bar, smem, inflight, tc, out>>

\* A copy is complete; the one of O has read the tile and written global memory.
Land(c) ==
    /\ c \in inflight /\ inflight' = inflight \ {c}
    /\ IF c.tile = "O"
       THEN /\ out' = [i \in DOMAIN out |->
                 IF i[1] # "o" THEN out[i]
                 ELSE IF smem.q[i[2]] = "O" THEN Status(smem.o[i[2]]) ELSE "wrong"]
            /\ UNCHANGED <<bar, smem>>
       ELSE /\ bar' = ReceivedAt(bar, c.tile)
            /\ smem' = CASE c.tile = "Q" -> [smem EXCEPT !.q = [w \in Warps |-> "Q"]]
                         [] c.tile = "K" -> [smem EXCEPT !.k = c.block]
                         [] c.tile = "V" -> [smem EXCEPT !.v = c.block]
            /\ UNCHANGED out
    /\ UNCHANGED <<launch, tc, warp>>

Exited == \A w \in Warps : warp[w].pc = "done"

Step(w) ==
    \/ Load(w) \/ SyncArrive(w) \/ WaitQ(w) \/ LoadV(w) \/ WaitK(w) \/ LoadK(w)
    \/ Softmax(w) \/ WaitV(w) \/ Final(w) \/ Store(w) \/ Drain(w)

Next ==
    \/ \E w \in Warps : Step(w)
    \/ WgmmaStart \/ WgmmaEnd
    \/ \E c \in inflight : Land(c)

-----------------------------------------------------------------------------
(* Properties                                                              *)

(* While WGMMA computes, the tiles it reads stay what they were when the     *)
(* warps joined it: no "empty" barrier keeps the next TMA copy away, only    *)
(* that warp 0 issues it after its own wait_group(0).                        *)
OperandsHeld ==
    /\ tc = "QK" => QReady /\ \A w \in Warps : smem.k = Block(warp[w].j)
    /\ tc = "PV" => \A w \in Warps : smem.v = warp[w].s /\ smem.v # 0
===============================================================================
