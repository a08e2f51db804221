----------------------------- MODULE Sm100Blk128Fwd -----------------------------
(***************************************************************************)
(* The BF16 forward kernel csrc/fwd/sm100_blk128/bsa_fwd_sm100.py: the     *)
(* MMA warp, the softmax warpgroups and the correction warpgroup.          *)
(*                                                                         *)
(* Softmax warp w of group g owns rows of S[g], turns them into P in place *)
(* and hands statistics to correction warp w in one slot of sScale per     *)
(* group: a rescale factor while the tile goes on, the sum and maximum at  *)
(* its end.  A named barrier of the two warps says the slot is written,    *)
(* the mbarrier sm_stats that it has been read.                            *)
(***************************************************************************)
EXTENDS Sm100Blk128

RescaleThreshold == 8   \* SoftmaxSm100.create(rescale_threshold)

StatsBar(g, w) == <<"stats_named", g, w>>
BarId ==
    SharedBarId \cup {<<name, g>> : name \in {"spo_empty", "p_last"}, g \in Stage}
    \cup {StatsBar(g, w) : g \in Stage, w \in Warps}
Arrivals(b) ==
    CASE b[1] = "spo_empty" -> 2 * Count     \* softmax_correction_threads
      [] b[1] = "p_last" -> Count            \* softmax_warps
      [] b[1] = "stats_named" -> 2
      [] OTHER -> SharedArrivals(b)

NoStats == [k |-> "none", tile |-> 0, from |-> 0, to |-> 0, sum |-> {}]
NoRow == [tag |-> Nothing, p |-> {}]

Init ==
    /\ bar = [b \in BarId |-> Fresh(Arrivals(b))]
    /\ smem = [q |-> 0, kv |-> [s \in Slot |-> Nothing], o |-> [w \in Warps |-> 0],
               stats |-> [g \in Stage |-> [w \in Warps |-> NoStats]]]
    /\ inflight = {} /\ tc = <<>> /\ out = OutInit
    /\ tmem = [s |-> [g \in Stage |-> [w \in Warps |-> NoRow]],
               o |-> [g \in Stage |-> [w \in Warps |-> {}]]]
    /\ warp = [load |-> LoadInit, ep |-> EpInit,
               mma |-> [pc |-> "tile", tile |-> 1, j |-> 0, kv |-> 0, q |-> 0, v |-> 0,
                        spo |-> [g \in Stage |-> 0]],
               sm |-> [g \in Stage |-> [w \in Warps |->
                         [pc |-> "tile", tile |-> 1, n |-> 0, s |-> 0, stats |-> 0,
                          row |-> EmptyRow]]],
               co |-> [w \in Warps |->
                         [pc |-> "start", tile |-> 1, j |-> 0, o |-> 0, par |-> 0,
                          max |-> [g \in Stage |-> NegInf],
                          sum |-> [g \in Stage |-> {}]]]]

-----------------------------------------------------------------------------
(* MMA warp: S0, S1, {PV, QK} of the two stages by turns, PV0, PV1.        *)

mma == warp.mma
Mma_(new, ops) ==
    /\ warp' = [warp EXCEPT !.mma = new] /\ tc' = tc \o ops
    /\ UNCHANGED <<launch, bar, smem, inflight, tmem, out>>

KvReady == Passed(bar[<<"kv_full", mma.kv % launch.kv_stage>>], FullPhase(mma.kv, launch.kv_stage))

MmaTile ==
    /\ mma.pc = "tile" /\ mma.tile \in Tiles
    /\ IF HasWork(mma.tile)
       THEN /\ Passed(bar[<<"q_full", 0>>], FullPhase(mma.q, 1))
            /\ Mma_([mma EXCEPT !.pc = "s", !.j = 0, !.q = @ + 1], <<>>)
       ELSE Mma_([mma EXCEPT !.tile = @ + 1], <<>>)

\* Q is given back when the QKs are issued: before the last two PVs.
ReleaseQ(j) == IF j = N(mma.tile) - 2 THEN <<Commit({<<"q_empty", 0>>})>> ELSE <<>>

MmaS ==
    LET s == mma.kv % launch.kv_stage IN
    /\ mma.pc = "s" /\ KvReady
    /\ Mma_([mma EXCEPT !.pc = IF mma.j = 1 THEN "v" ELSE "s", !.j = 1 - @, !.kv = @ + 1],
            <<Op("QK", mma.j, s, TRUE, {<<"s_full", mma.j>>, <<"kv_empty", s>>})>>
            \o (IF mma.j = 1 THEN ReleaseQ(0) ELSE <<>>))

MmaV ==
    /\ mma.pc = "v" /\ KvReady
    /\ Mma_([mma EXCEPT !.pc = "pv", !.v = mma.kv % launch.kv_stage, !.kv = @ + 1], <<>>)

\* Three quarters of P are written and O is rescaled.
MmaPv ==
    LET g == mma.j % 2 IN
    /\ mma.pc = "pv" /\ Passed(bar[<<"spo_empty", g>>], mma.spo[g])
    /\ Mma_([mma EXCEPT !.pc = "rest"], <<Op("PV1", g, mma.v, mma.j < 2, {})>>)

\* gemm_ptx_partial waits for the rest of P between two of its instructions.
MmaRest ==
    LET g == mma.j % 2
        last == mma.j >= N(mma.tile) - 2
        op(arrive) == Op("PV2", g, mma.v, FALSE, arrive)
        flip(m) == [m EXCEPT !.spo[g] = 1 - @]
    IN  /\ mma.pc = "rest" /\ Passed(bar[<<"p_last", g>>], mma.spo[g])
        /\ IF ~last THEN Mma_([mma EXCEPT !.pc = "k"], <<op({})>>)
           ELSE Mma_(flip(IF g = 0 THEN [mma EXCEPT !.pc = "v", !.j = @ + 1]
                          ELSE [mma EXCEPT !.pc = "tile", !.tile = @ + 1]),
                     <<op({<<"o_acc", g>>, <<"kv_empty", mma.v>>})>>)

\* The next QK of the stage overwrites S and P; S is committed with it.
MmaK ==
    LET g == mma.j % 2
        s == mma.kv % launch.kv_stage
    IN  /\ mma.pc = "k" /\ KvReady
        /\ Mma_([mma EXCEPT !.pc = "v", !.j = @ + 1, !.kv = @ + 1, !.spo[g] = 1 - @],
                <<Op("QK", g, s, TRUE, {<<"s_full", g>>}),
                  Commit({<<"kv_empty", mma.v>>, <<"kv_empty", s>>})>> \o ReleaseQ(mma.j + 1))

Mma == MmaTile \/ MmaS \/ MmaV \/ MmaPv \/ MmaRest \/ MmaK

\* The tensor core executes the operation at the head of its queue.
TensorCore ==
    LET op == Head(tc)
        v == smem.kv[op.slot]
    IN  /\ tc # <<>>
        /\ tc' = Tail(tc)
        /\ tmem' = CASE op.do = "QK" ->
                          [tmem EXCEPT !.s[op.g] = [w \in Warps |-> [NoRow EXCEPT !.tag = Scores(op.slot)]]]
                     [] op.do = "PV1" ->   \* three quarters of the sum; the rest completes it
                          [tmem EXCEPT !.o[op.g] = [w \in Warps |->
                             IF tmem.s[op.g][w].tag.k \notin {"P1", "P"} THEN {Broken}
                             ELSE IF op.first THEN {} ELSE @[w]]]
                     [] op.do = "PV2" -> [tmem EXCEPT !.o[op.g] = [w \in Warps |->
                             LET s == tmem.s[op.g][w]
                             IN  IF s.tag.k = "P" /\ v = [s.tag EXCEPT !.k = "V"]
                                 THEN Plus(@[w], s.p) ELSE @[w] \cup {Broken}]]
                     [] OTHER -> tmem
        /\ bar' = ArriveAt(bar, op.arrive)
        /\ UNCHANGED <<launch, smem, inflight, warp, out>>

-----------------------------------------------------------------------------
(* Softmax warp w of group g.                                              *)

Sm_(g, w, new) == warp' = [warp EXCEPT !.sm[g][w] = new]
StatsFree(g, me) == Passed(bar[<<"sm_stats", g>>], EmptyPhase(me.stats, 1))
NextTile(me) == [me EXCEPT !.pc = "tile", !.tile = @ + 1]

\* The slot is acquired at every tile, to stay in sync with correction; a tile
\* without blocks only gives the signal.
SoftmaxTile(g, w) ==
    LET me == warp.sm[g][w]
        got == [me EXCEPT !.stats = @ + 1]
    IN  /\ me.pc = "tile" /\ StatsFree(g, me)
        /\ IF me.tile \notin Tiles
           THEN Sm_(g, w, [me EXCEPT !.pc = "done"]) /\ UNCHANGED bar
           ELSE IF HasWork(me.tile)
           THEN Sm_(g, w, [got EXCEPT !.pc = "s", !.n = 0, !.row = EmptyRow]) /\ UNCHANGED bar
           ELSE Sm_(g, w, NextTile(got)) /\ bar' = ArriveAt(bar, {StatsBar(g, w)})
        /\ UNCHANGED <<launch, smem, inflight, tmem, tc, out>>

\* Scores are read, the row's maximum updated, the rescale factor published.
SoftmaxS(g, w) ==
    LET me == warp.sm[g][w]
        i == Logical(me.tile, 2 * me.n + g)
        tag == tmem.s[g][w].tag
        row == LazyUpdate(me.row, i, Score(me.tile, i), RescaleThreshold)
        ok == tag = Tag("S", me.tile, Clamped(me.tile, i))
    IN  /\ me.pc = "s" /\ Passed(bar[<<"s_full", g>>], me.s)
        /\ Sm_(g, w, [me EXCEPT !.pc = "p1", !.s = 1 - @,
                                !.row = IF ok THEN row ELSE [row EXCEPT !.sum = {Broken}, !.p = {Broken}]])
        /\ smem' = IF me.n = 0 THEN smem
                   ELSE [smem EXCEPT !.stats[g][w] =
                           [NoStats EXCEPT !.k = "scale", !.tile = me.tile,
                                           !.from = me.row.max, !.to = Safe(row.max)]]
        /\ bar' = ArriveAt(bar, {StatsBar(g, w)})
        /\ UNCHANGED <<launch, inflight, tmem, tc, out>>

\* split_P_arrive: after three quarters of P.
SoftmaxP1(g, w) ==
    LET me == warp.sm[g][w]
        i == Clamped(me.tile, Logical(me.tile, 2 * me.n + g))
    IN  /\ me.pc = "p1"
        /\ tmem' = [tmem EXCEPT !.s[g][w] = [tag |-> Tag("P1", me.tile, i), p |-> me.row.p]]
        /\ bar' = ArriveAt(bar, {<<"spo_empty", g>>})
        /\ Sm_(g, w, [me EXCEPT !.pc = "p2"])
        /\ UNCHANGED <<launch, smem, inflight, tc, out>>

SoftmaxP2(g, w) ==
    LET me == warp.sm[g][w] IN
    /\ me.pc = "p2"
    /\ tmem' = [tmem EXCEPT !.s[g][w].tag.k = "P"]
    /\ bar' = ArriveAt(bar, {<<"p_last", g>>})
    /\ Sm_(g, w, [me EXCEPT !.pc = "acquire"])
    /\ UNCHANGED <<launch, smem, inflight, tc, out>>

SoftmaxAcquire(g, w) ==
    LET me == warp.sm[g][w] IN
    /\ me.pc = "acquire" /\ StatsFree(g, me)
    /\ Sm_(g, w, [me EXCEPT !.pc = IF me.n + 1 < N(me.tile) \div 2 THEN "s" ELSE "sum",
                            !.n = @ + 1, !.stats = @ + 1])
    /\ UNCHANGED <<launch, bar, smem, inflight, tmem, tc, out>>

SoftmaxSum(g, w) ==
    LET me == warp.sm[g][w] IN
    /\ me.pc = "sum"
    /\ smem' = [smem EXCEPT !.stats[g][w] =
                  [NoStats EXCEPT !.k = "sum", !.tile = me.tile, !.to = me.row.max, !.sum = me.row.sum]]
    /\ bar' = ArriveAt(bar, {StatsBar(g, w)})
    /\ Sm_(g, w, NextTile(me))
    /\ UNCHANGED <<launch, inflight, tmem, tc, out>>

Softmax(g, w) ==
    \/ SoftmaxTile(g, w) \/ SoftmaxS(g, w) \/ SoftmaxP1(g, w) \/ SoftmaxP2(g, w)
    \/ SoftmaxAcquire(g, w) \/ SoftmaxSum(g, w)

-----------------------------------------------------------------------------
(* Correction warp w: it meets the softmax warps at steps j = 0, 1, ... of *)
(* the tile (stage j % 2), and twice more for the sums.                    *)

Co_(w, new) == warp' = [warp EXCEPT !.co[w] = new]

\* The first PVs of the CTA find O free.
CorrectionStart(w) ==
    /\ warp.co[w].pc = "start"
    /\ bar' = ArriveAt(bar, {<<"spo_empty", g>> : g \in Stage})
    /\ Co_(w, [warp.co[w] EXCEPT !.pc = "arrive"])
    /\ UNCHANGED <<launch, smem, inflight, tmem, tc, out>>

CorrectionArrive(w) ==
    LET me == warp.co[w]
        b == StatsBar(me.j % 2, w)
    IN  /\ me.pc = "arrive" /\ me.tile \in Tiles
        /\ bar' = ArriveAt(bar, {b})
        /\ Co_(w, [me EXCEPT !.pc = "met", !.par = bar[b].par])
        /\ UNCHANGED <<launch, smem, inflight, tmem, tc, out>>

\* What is released at the meeting of step j: the first signal of stage 0 needs
\* no correction; a factor frees the slot of the other stage; a sum its own.
\* The statistic read is one of this tile, of the kind that is due.
CorrectionMet(w) ==
    LET me == warp.co[w]
        g == me.j % 2
        n == IF HasWork(me.tile) THEN N(me.tile) ELSE 0
        slot == smem.stats[g][w]
        stale == slot.tile # me.tile \/ slot.k # IF me.j < n THEN "scale" ELSE "sum"
        Rescale == [tmem EXCEPT !.o[g][w] = IF stale THEN {Broken} ELSE Rescaled(@, slot.from, slot.to)]
    IN  /\ me.pc = "met" /\ Met(StatsBar(g, w), me)
        /\ IF me.j < n
           THEN /\ bar' = ArriveAt(bar,
                     (IF me.j >= 2 THEN {<<"spo_empty", g>>} ELSE {})
                     \cup (IF me.j # 1 THEN {<<"sm_stats", IF me.j = 0 THEN 0 ELSE 1 - g>>} ELSE {})
                     \cup (IF me.j = n - 1 THEN {<<"sm_stats", 1>>} ELSE {}))
                /\ tmem' = IF me.j >= 2 THEN Rescale ELSE tmem
                /\ Co_(w, [me EXCEPT !.pc = "arrive", !.j = @ + 1])
           ELSE /\ bar' = ArriveAt(bar, {<<"sm_stats", g>>})
                /\ Co_(w, [me EXCEPT !.pc = IF me.j = n + 1 THEN "o" ELSE "arrive", !.j = @ + 1,
                             !.sum[g] = IF n = 0 THEN {} ELSE IF stale THEN {Broken} ELSE slot.sum,
                             !.max[g] = IF n = 0 \/ slot.sum = {} THEN NegInf ELSE slot.to])
                /\ UNCHANGED tmem
        /\ UNCHANGED <<launch, smem, inflight, tc, out>>

\* Both O accumulators are final and the O tile is free: they are combined, or
\* zero is written; then O is given back to the MMA warp for the next tile.
CorrectionCombine(w) ==
    LET me == warp.co[w]
        t == me.tile
        work == HasWork(t)
        exact(terms) == Total(t, me.max, terms, 0)
    IN  /\ me.pc = "o"
        /\ work => \A g \in Stage : Passed(bar[<<"o_acc", g>>], FullPhase(me.o, 1))
        /\ Passed(bar[<<"epi_empty", 0>>], EmptyPhase(t - 1, 1))
        /\ smem' = [smem EXCEPT !.o[w] = Finished(t, work =>
              exact(me.sum) /\ exact([g \in Stage |-> tmem.o[g][w]]))]
        /\ bar' = ArriveAt(bar, {<<"epi_full", 0>>}
                      \cup (IF work THEN {<<"spo_empty", g>> : g \in Stage} ELSE {}))
        /\ out' = [out EXCEPT ![<<"lse", t, w>>] = IF exact(me.sum) THEN "exact" ELSE "wrong"]
        /\ Co_(w, [me EXCEPT !.pc = "arrive", !.tile = t + 1, !.j = 0,
                             !.o = IF work THEN @ + 1 ELSE @])
        /\ UNCHANGED <<launch, inflight, tmem, tc>>

CorrectionTail(w) ==
    /\ warp.co[w].pc = "arrive" /\ warp.co[w].tile \notin Tiles
    /\ Passed(bar[<<"epi_empty", 0>>], EmptyPhase(Len(launch.tiles), 1))
    /\ Co_(w, [warp.co[w] EXCEPT !.pc = "done"])
    /\ UNCHANGED <<launch, bar, smem, inflight, tmem, tc, out>>

Correction(w) ==
    \/ CorrectionStart(w) \/ CorrectionArrive(w) \/ CorrectionMet(w)
    \/ CorrectionCombine(w) \/ CorrectionTail(w)

-----------------------------------------------------------------------------

Exited ==
    /\ warp.load.done /\ mma.tile \notin Tiles /\ warp.ep.tile \notin Tiles
    /\ \A w \in Warps : warp.co[w].pc = "done" /\ \A g \in Stage : warp.sm[g][w].pc = "done"

Next ==
    \/ Load \/ Mma \/ TensorCore \/ Epilogue
    \/ \E c \in inflight : Land(c)
    \/ \E g \in Stage, w \in Warps : Softmax(g, w)
    \/ \E w \in Warps : Correction(w)

-----------------------------------------------------------------------------
(* Properties                                                              *)

(* Shared memory is held for the tensor core, and so is tensor memory: no QK *)
(* is queued on a stage whose P some warp has still to write, and no PV on   *)
(* an O that a correction warp is about to rescale or combine.               *)
OperandsHeld ==
    /\ SharedOperandsHeld
    /\ \A n \in DOMAIN tc : \A w \in Warps :
          /\ tc[n].do = "QK" => warp.sm[tc[n].g][w].pc \notin {"p1", "p2"}
          /\ tc[n].do \in {"PV1", "PV2"} =>
                LET me == warp.co[w] IN
                ~(me.pc = "met" /\ me.j % 2 = tc[n].g /\ me.j \in 2 .. N(me.tile) - 1
                  /\ Met(StatsBar(me.j % 2, w), me))
===============================================================================
