--------------------------- MODULE Sm100Blk128FusedPv ---------------------------
(***************************************************************************)
(* The FP8 forward kernel csrc/fwd/sm100_blk128/bsa_fwd_sm100_fp8_fused_pv *)
(* .py: the MMA warp, the softmax warpgroups and the correction warpgroup. *)
(*                                                                         *)
(* It differs from BF16 where the ownership is most delicate.  There is    *)
(* one S tile for both streams: its rows are read into registers, a named  *)
(* barrier (id 12, 160 threads) tells the MMA warp, and the QK of the next *)
(* step is issued BEFORE the PV of this one.  The denominator is 16 more   *)
(* columns of O, accumulated by PV from the rounded P.  Two builds:        *)
(*   SM100  P has three slots, taken in turn by both streams, each with an *)
(*          mbarrier; row maxima have two slots per stream, signalled on   *)
(*          barriers of both whole warpgroups; s_p_o counts correction     *)
(*          warps only, and they have no credit to begin with;             *)
(*   SM103  P has a slot per stream and waits for the stream's previous PV; *)
(*          rescale factors have one slot, acquired and released.          *)
(***************************************************************************)
EXTENDS Sm100Blk128

Sm100 == ~launch.sm103       \* double_buffer_stats, triple_buffer_p

RescaleThresholdOfBf16 == 8   \* a bug for the runs to find
RescaleThreshold == 1   \* log2(448 / 128) = 1.8; a launch's scores are whole
Bias == 7               \* P * 128
MaxFp8 == 8             \* 448 = 2^8.8

SRead == <<"s_read", 0>>                 \* id 12
MaxBar(g, slot) == <<"max", g, slot>>    \* ids 3 .. 6
FinalBar(g) == <<"final", g>>            \* ids 11, 13
StatsBar(g, w) == <<"stats_named", g, w>>
Generation == 0 .. 1
PSlot == IF Sm100 THEN 0 .. 2 ELSE Stage

BarId ==
    SharedBarId \cup {SRead} \cup {<<"spo_empty", g>> : g \in Stage}
    \cup (IF Sm100 THEN {MaxBar(g, s) : g \in Stage, s \in Generation}
                        \cup {FinalBar(g) : g \in Stage} \cup {<<"p_ready", s>> : s \in PSlot}
          ELSE {StatsBar(g, w) : g \in Stage, w \in Warps})
Arrivals(b) ==
    CASE b[1] = "s_read" -> Count + 1       \* a warpgroup and the MMA warp
      [] b[1] \in {"max", "final"} -> 2 * Count
      [] b[1] = "p_ready" -> Count
      [] b[1] = "stats_named" -> 2
      [] b[1] = "spo_empty" -> IF Sm100 THEN Count ELSE 2 * Count
      [] OTHER -> SharedArrivals(b)

NoP == [tag |-> Nothing, p |-> {}]
NoO == [o |-> {}, den |-> {}]
NoStats == [k |-> "none", tile |-> 0, n |-> 0, from |-> 0, to |-> 0]

Init ==
    /\ bar = [b \in BarId |-> Fresh(Arrivals(b))]
    /\ smem = [q |-> 0, kv |-> [s \in Slot |-> Nothing], o |-> [w \in Warps |-> 0],
               kscale |-> [g \in Stage |-> [s \in Generation |-> Nothing]],
               stats |-> [g \in Stage |-> [s \in Generation |-> [w \in Warps |-> NoStats]]]]
    /\ inflight = {} /\ tc = <<>> /\ out = OutInit
    /\ tmem = [s |-> Nothing, p |-> [s \in PSlot |-> [w \in Warps |-> NoP]],
               o |-> [g \in Stage |-> [w \in Warps |-> NoO]]]
    /\ warp = [load |-> LoadInit, ep |-> EpInit,
               mma |-> [pc |-> "tile", tile |-> 1, j |-> 0, kv |-> 0, q |-> 0, v |-> 0,
                        par |-> 0, p |-> 0, phase |-> [g \in Stage |-> 0]],
               sm |-> [g \in Stage |-> [w \in Warps |->
                         [pc |-> "tile", tile |-> 1, n |-> 0, s |-> 0, stats |-> 0, par |-> 0,
                          p |-> g, s_i |-> Nothing, row |-> EmptyRow]]],
               co |-> [w \in Warps |->
                         [pc |-> "start", tile |-> 1, j |-> 0, o |-> 0, par |-> 0, again |-> FALSE,
                          scale |-> NoStats,
                          max |-> [g \in Stage |-> NegInf],
                          den |-> [g \in Stage |-> {}]]]]

-----------------------------------------------------------------------------
(* MMA warp.                                                               *)

mma == warp.mma
Mma_(new, ops) == warp' = [warp EXCEPT !.mma = new] /\ tc' = tc \o ops

KvReady == Passed(bar[<<"kv_full", mma.kv % launch.kv_stage>>], FullPhase(mma.kv, launch.kv_stage))

MmaTile ==
    /\ mma.pc = "tile" /\ mma.tile \in Tiles
    /\ IF HasWork(mma.tile)
       THEN /\ Passed(bar[<<"q_full", 0>>], FullPhase(mma.q, 1))
            /\ Mma_([mma EXCEPT !.pc = "k", !.j = 0, !.q = @ + 1], <<>>)
       ELSE Mma_([mma EXCEPT !.tile = @ + 1], <<>>)
    /\ UNCHANGED <<launch, bar, smem, inflight, tmem, out>>

\* QK j follows: in the loop V j - 2 is waited for before K j.  From the second
\* QK on, all warps of the stream before must have read the one S tile.
MmaV ==
    /\ mma.pc = "v" /\ KvReady
    /\ Mma_([mma EXCEPT !.pc = IF mma.j < N(mma.tile) THEN "k" ELSE "pv",
                        !.v = mma.kv % launch.kv_stage, !.kv = @ + 1], <<>>)
    /\ UNCHANGED <<launch, bar, smem, inflight, tmem, out>>

MmaK ==
    /\ mma.pc = "k" /\ KvReady
    /\ IF mma.j = 0
       THEN Mma_([mma EXCEPT !.pc = "qk"], <<>>) /\ UNCHANGED bar
       ELSE /\ bar' = ArriveAt(bar, {SRead})
            /\ Mma_([mma EXCEPT !.pc = "qk", !.par = bar[SRead].par], <<>>)
    /\ UNCHANGED <<launch, smem, inflight, tmem, out>>

\* The scales of K go to the generation this step's softmax will look at.
MmaQK ==
    LET g == mma.j % 2
        s == mma.kv % launch.kv_stage
        scale == Tag("scale", mma.tile, Clamped(mma.tile, Logical(mma.tile, mma.j)))
        slot == IF mma.j < 2 THEN mma.phase[g] ELSE 1 - mma.phase[g]
    IN  /\ mma.pc = "qk"
        /\ mma.j > 0 => Met(SRead, mma)
        /\ smem' = [smem EXCEPT !.kscale[g][slot] = scale]
        /\ Mma_([mma EXCEPT !.pc = IF mma.j >= 2 THEN "pv" ELSE IF mma.j = 0 THEN "k"
                                   ELSE IF N(mma.tile) = 2 THEN "drain" ELSE "v",
                            !.j = @ + 1, !.kv = @ + 1],
                <<Op("QK", g, s, TRUE, {<<"s_full", g>>} \cup
                       IF mma.j < 2 THEN {<<"kv_empty", s>>} ELSE {})>>)
        /\ UNCHANGED <<launch, bar, inflight, tmem, out>>

\* The PV of step i: O is rescaled and P is written.  In the loop i = j - 3 (j
\* has been advanced), and K of the QK before it is given back with V.
MmaPV ==
    LET n == N(mma.tile)
        final == mma.j >= n /\ mma.v = (mma.kv - 1) % launch.kv_stage
        i == IF final THEN mma.j - 2 ELSE mma.j - 3
        g == i % 2
        p == IF Sm100 THEN mma.p % 3 ELSE g
        k == (mma.kv - 1) % launch.kv_stage
        lastStep == mma.j = n /\ ~final
        new == [mma EXCEPT !.p = (@ + 1) % 6, !.phase[g] = 1 - @]
    IN  /\ mma.pc = "pv"
        /\ Passed(bar[<<"spo_empty", g>>], mma.phase[g])
        /\ Sm100 => Passed(bar[<<"p_ready", p>>], mma.p \div 3)
        /\ Mma_(IF ~final THEN [new EXCEPT !.pc = IF lastStep THEN "drain" ELSE "v"]
                ELSE IF i = n - 1 THEN [new EXCEPT !.pc = "tile", !.tile = @ + 1]
                ELSE [new EXCEPT !.pc = "v", !.j = @ + 1],
                <<[Op("PV", g, mma.v, i < 2, {<<"o_acc", g>>}) EXCEPT !.p = p],
                  Commit({<<"kv_empty", mma.v>>} \cup IF final THEN {} ELSE {<<"kv_empty", k>>})>>)
        /\ UNCHANGED <<launch, bar, smem, inflight, tmem, out>>

\* After the loop: the last read of S is waited for, then Q is given back.
MmaDrain ==
    \/ /\ mma.pc = "drain"
       /\ bar' = ArriveAt(bar, {SRead})
       /\ Mma_([mma EXCEPT !.pc = "q", !.par = bar[SRead].par], <<>>)
       /\ UNCHANGED <<launch, smem, inflight, tmem, out>>
    \/ /\ mma.pc = "q" /\ Met(SRead, mma)
       /\ Mma_([mma EXCEPT !.pc = "v"], <<Commit({<<"q_empty", 0>>})>>)
       /\ UNCHANGED <<launch, bar, smem, inflight, tmem, out>>

Mma == MmaTile \/ MmaV \/ MmaK \/ MmaQK \/ MmaPV \/ MmaDrain

\* PV adds the rounded P times V to O, and times one to the denominator.
Accumulate(op, w, terms, operand) ==
    LET p == tmem.p[op.p][w] IN
    IF p.tag.k = "P" /\ operand = [p.tag EXCEPT !.k = "V"]
    THEN Plus(IF op.first THEN {} ELSE terms, p.p) ELSE terms \cup {Broken}

TensorCore ==
    LET op == Head(tc)
        v == smem.kv[op.slot]
    IN  /\ tc # <<>>
        /\ tc' = Tail(tc)
        /\ tmem' = CASE op.do = "QK" -> [tmem EXCEPT !.s = Scores(op.slot)]
                     [] op.do = "PV" -> [tmem EXCEPT !.o[op.g] = [w \in Warps |->
                          [o |-> Accumulate(op, w, @[w].o, v), den |-> Accumulate(op, w, @[w].den, v)]]]
                     [] OTHER -> tmem
        /\ bar' = ArriveAt(bar, op.arrive)
        /\ UNCHANGED <<launch, smem, inflight, warp, out>>

-----------------------------------------------------------------------------
(* Softmax warp w of group g.                                              *)

Sm_(g, w, new) == warp' = [warp EXCEPT !.sm[g][w] = new]
StatsFree(g, me) == Passed(bar[<<"sm_stats", g>>], EmptyPhase(me.stats, 1))
Signal(g, w) == IF Sm100 THEN FinalBar(g) ELSE StatsBar(g, w)
NextTile(me) == [me EXCEPT !.pc = "tile", !.tile = @ + 1]

SoftmaxTile(g, w) ==
    LET me == warp.sm[g][w]
        got == [me EXCEPT !.stats = @ + 1]
    IN  /\ me.pc = "tile" /\ StatsFree(g, me)
        /\ IF me.tile \notin Tiles
           THEN Sm_(g, w, [me EXCEPT !.pc = "done"]) /\ UNCHANGED bar
           ELSE IF HasWork(me.tile)
           THEN Sm_(g, w, [got EXCEPT !.pc = "s", !.n = 0, !.row = EmptyRow]) /\ UNCHANGED bar
           ELSE Sm_(g, w, NextTile(got)) /\ bar' = ArriveAt(bar, {Signal(g, w)})
        /\ UNCHANGED <<launch, smem, inflight, tmem, tc, out>>

SoftmaxWait(g, w) ==
    LET me == warp.sm[g][w] IN
    /\ me.pc = "s" /\ Passed(bar[<<"s_full", g>>], me.s)
    /\ Sm_(g, w, [me EXCEPT !.pc = "read"])
    /\ UNCHANGED <<launch, bar, smem, inflight, tmem, tc, out>>

\* The raw scores are in registers: the S tile may be overwritten.
SoftmaxRead(g, w) ==
    LET me == warp.sm[g][w] IN
    /\ me.pc = "read"
    /\ Sm_(g, w, [me EXCEPT !.pc = "max", !.s_i = tmem.s])
    /\ bar' = ArriveAt(bar, {SRead})
    /\ UNCHANGED <<launch, smem, inflight, tmem, tc, out>>

\* The scales of K may be read as late as here.  SM100 publishes the maximum
\* itself, SM103 the rescale factor when it is not the first and the slot is free.
SoftmaxMax(g, w) ==
    LET me == warp.sm[g][w]
        i == Logical(me.tile, 2 * me.n + g)
        row == LazyUpdate(me.row, i, Score(me.tile, i), RescaleThreshold)
        here == Clamped(me.tile, i)
        ok == /\ me.s_i = Tag("S", me.tile, here)
              /\ smem.kscale[g][me.s] = Tag("scale", me.tile, here)
        stat == [k |-> "max", tile |-> me.tile, n |-> me.n,
                 from |-> me.row.max, to |-> IF Sm100 THEN row.max ELSE Safe(row.max)]
        first == me.n = 0
        p == {<<x[1], x[2] + Bias>> : x \in row.p}
    IN  /\ me.pc = "max"
        /\ (~Sm100 /\ ~first) => StatsFree(g, me)
        /\ smem' = IF Sm100 THEN [smem EXCEPT !.stats[g][me.s][w] = stat]
                   ELSE IF first THEN smem ELSE [smem EXCEPT !.stats[g][0][w] = stat]
        /\ bar' = ArriveAt(bar, {IF Sm100 THEN MaxBar(g, me.s) ELSE StatsBar(g, w)})
        /\ Sm_(g, w, [me EXCEPT !.pc = "p", !.row = [row EXCEPT !.p = IF ok THEN p ELSE {Broken}],
                                !.stats = IF Sm100 \/ first THEN @ ELSE @ + 1])
        /\ UNCHANGED <<launch, inflight, tmem, tc, out>>

\* A bug for the runs to find: P is written with two slots instead of three.
SoftmaxPTwoSlots(g, w) ==
    LET me == warp.sm[g][w]
        here == Clamped(me.tile, Logical(me.tile, 2 * me.n + g))
        p == IF Sm100 THEN me.p % 3 ELSE g
        first == me.n = 0
    IN  /\ me.pc = "p"
        /\ tmem' = [tmem EXCEPT !.p[g][w] =
                      [tag |-> Tag("P", me.tile, here), p |-> me.row.p]]
        /\ bar' = ArriveAt(bar, {IF Sm100 THEN <<"p_ready", p>> ELSE <<"spo_empty", g>>})
        /\ Sm_(g, w, [me EXCEPT !.pc = IF me.n + 1 < N(me.tile) \div 2 THEN "s" ELSE "sum",
                                !.n = @ + 1, !.s = 1 - @, !.p = (@ + 2) % 6])
        /\ UNCHANGED <<launch, smem, inflight, tc, out>>

\* P: on SM100 a slot in turn with no wait, "S_i completion covers the previous
\* owner of P[i % 3]"; on SM103 the stream's slot, once its previous PV is done.
SoftmaxP(g, w) ==
    LET me == warp.sm[g][w]
        here == Clamped(me.tile, Logical(me.tile, 2 * me.n + g))
        p == IF Sm100 THEN me.p % 3 ELSE g
        first == me.n = 0
    IN  /\ me.pc = "p"
        /\ (~Sm100 /\ ~first) => Passed(bar[<<"o_acc", g>>], 1 - me.s)
        /\ tmem' = [tmem EXCEPT !.p[p][w] =
                      [tag |-> Tag("P", me.tile, here), p |-> me.row.p]]
        /\ bar' = ArriveAt(bar, {IF Sm100 THEN <<"p_ready", p>> ELSE <<"spo_empty", g>>})
        /\ Sm_(g, w, [me EXCEPT !.pc = IF me.n + 1 < N(me.tile) \div 2 THEN "s" ELSE "sum",
                                !.n = @ + 1, !.s = 1 - @, !.p = (@ + 2) % 6])
        /\ UNCHANGED <<launch, smem, inflight, tc, out>>

\* The final payload reuses the slots of the maxima: on SM100 after a meeting
\* with the correction warps, on SM103 after an acquire.
SoftmaxSum(g, w) ==
    LET me == warp.sm[g][w]
        final == [NoStats EXCEPT !.k = "final", !.tile = me.tile, !.to = me.row.max]
    IN  \/ /\ me.pc = "sum" /\ Sm100
           /\ bar' = ArriveAt(bar, {FinalBar(g)})
           /\ Sm_(g, w, [me EXCEPT !.pc = "drained", !.par = bar[FinalBar(g)].par])
           /\ UNCHANGED <<launch, smem, inflight, tmem, tc, out>>
        \/ /\ \/ Sm100 /\ me.pc = "drained" /\ Met(FinalBar(g), me)
              \/ ~Sm100 /\ me.pc = "sum" /\ StatsFree(g, me)
           /\ smem' = [smem EXCEPT !.stats[g] = [s \in Generation |-> [@[s] EXCEPT ![w] = final]]]
           /\ bar' = ArriveAt(bar, {Signal(g, w)})
           /\ Sm_(g, w, IF Sm100 THEN NextTile(me) ELSE NextTile([me EXCEPT !.stats = @ + 1]))
           /\ UNCHANGED <<launch, inflight, tmem, tc, out>>

Softmax(g, w) ==
    \/ SoftmaxTile(g, w) \/ SoftmaxWait(g, w) \/ SoftmaxRead(g, w) \/ SoftmaxMax(g, w)
    \/ SoftmaxP(g, w) \/ SoftmaxSum(g, w)

-----------------------------------------------------------------------------
(* Correction warp w.                                                      *)

Co_(w, new) == warp' = [warp EXCEPT !.co[w] = new]

CorrectionStart(w) ==
    /\ warp.co[w].pc = "start"
    /\ bar' = IF Sm100 THEN bar ELSE ArriveAt(bar, {<<"spo_empty", g>> : g \in Stage})
    /\ Co_(w, [warp.co[w] EXCEPT !.pc = "arrive"])
    /\ UNCHANGED <<launch, smem, inflight, tmem, tc, out>>

\* Step j of a tile is about stage j % 2, as in BF16; the last two meetings are
\* about the final payload, for which SM100 meets twice.
Steps(t) == IF HasWork(t) THEN N(t) ELSE 0
Generation_(me) == (me.o + me.j \div 2) % 2     \* o_corr_consumer_phase, or its opposite
MeetingBar(me, w) ==
    LET g == me.j % 2 IN
    IF ~Sm100 THEN StatsBar(g, w)
    ELSE IF me.j < Steps(me.tile) THEN MaxBar(g, Generation_(me)) ELSE FinalBar(g)

CorrectionArrive(w) ==
    LET me == warp.co[w] IN
    /\ me.pc = "arrive" /\ me.tile \in Tiles
    /\ bar' = ArriveAt(bar, {MeetingBar(me, w)})
    /\ Co_(w, [me EXCEPT !.pc = "met", !.par = bar[MeetingBar(me, w)].par])
    /\ UNCHANGED <<launch, smem, inflight, tmem, tc, out>>

\* The first maximum of a stream is kept (SM100) or only acknowledged (SM103).
\* SM100 gives O back here: the first PV of the tile may start.
CorrectionFirst(w) ==
    LET me == warp.co[w]
        g == me.j % 2
        slot == smem.stats[g][Generation_(me)][w]
    IN  /\ me.pc = "met" /\ me.j < 2 /\ HasWork(me.tile) /\ Met(MeetingBar(me, w), me)
        /\ bar' = ArriveAt(bar, {IF Sm100 THEN <<"spo_empty", g>> ELSE <<"sm_stats", g>>})
        /\ Co_(w, [me EXCEPT !.pc = "arrive", !.j = @ + 1, !.max[g] = slot.to])
        /\ UNCHANGED <<launch, smem, inflight, tmem, tc, out>>

\* A later maximum, or rescale factor, is read.
CorrectionScale(w) ==
    LET me == warp.co[w]
        g == me.j % 2
        slot == smem.stats[g][IF Sm100 THEN Generation_(me) ELSE 0][w]
        due == slot.k = "max" /\ slot.tile = me.tile /\ slot.n = me.j \div 2
        from == IF Sm100 THEN me.max[g] ELSE slot.from
    IN  /\ me.pc = "met" /\ me.j \in 2 .. Steps(me.tile) - 1 /\ Met(MeetingBar(me, w), me)
        /\ bar' = IF Sm100 THEN bar ELSE ArriveAt(bar, {<<"sm_stats", g>>})
        /\ Co_(w, [me EXCEPT !.pc = "rescale", !.max[g] = slot.to,
                             !.scale = [slot EXCEPT !.from = from, !.to = Safe(@),
                                                    !.k = IF due THEN "max" ELSE "stale"]])
        /\ UNCHANGED <<launch, smem, inflight, tmem, tc, out>>

\* "An early S publication no longer proves previous PV completion": it is
\* waited for, then O and its denominator are rescaled.
CorrectionRescale(w) ==
    LET me == warp.co[w]
        g == me.j % 2
        Rescale(terms) == IF me.scale.k = "max" THEN Rescaled(terms, me.scale.from, me.scale.to) ELSE {Broken}
    IN  /\ me.pc = "rescale" /\ Passed(bar[<<"o_acc", g>>], Generation_([me EXCEPT !.j = @ - 2]))
        /\ tmem' = [tmem EXCEPT !.o[g][w] = [o |-> Rescale(@.o), den |-> Rescale(@.den)]]
        /\ bar' = ArriveAt(bar, {<<"spo_empty", g>>})
        /\ Co_(w, [me EXCEPT !.pc = "arrive", !.j = @ + 1])
        /\ UNCHANGED <<launch, smem, inflight, tc, out>>

\* SM100, first of the two final meetings: all scales have been read.
CorrectionDrain(w) ==
    LET me == warp.co[w] IN
    /\ me.pc = "met" /\ me.j >= Steps(me.tile) /\ Met(MeetingBar(me, w), me)
    /\ Sm100 /\ HasWork(me.tile) /\ ~me.again
    /\ Co_(w, [me EXCEPT !.pc = "arrive", !.again = TRUE])
    /\ UNCHANGED <<launch, bar, smem, inflight, tmem, tc, out>>

\* The final maximum, and the denominator once the stream's last PV is done.
CorrectionFinal(w) ==
    LET me == warp.co[w]
        g == me.j % 2
        work == HasWork(me.tile)
        slot == smem.stats[g][1][w]
        due == slot.k = "final" /\ slot.tile = me.tile
        den == tmem.o[g][w].den
    IN  /\ me.pc = "met" /\ me.j >= Steps(me.tile) /\ Met(MeetingBar(me, w), me)
        /\ (Sm100 /\ work) => me.again
        /\ work => Passed(bar[<<"o_acc", g>>], Generation_([me EXCEPT !.j = Steps(me.tile) - 2]))
        /\ bar' = ArriveAt(bar, {<<"sm_stats", g>>})
        /\ Co_(w, [me EXCEPT !.pc = IF g = 1 THEN "o" ELSE "arrive", !.j = @ + 1, !.again = FALSE,
                             !.den[g] = IF ~work THEN {} ELSE IF due THEN den ELSE {Broken},
                             !.max[g] = IF ~work \/ den = {} THEN NegInf ELSE slot.to])
        /\ UNCHANGED <<launch, smem, inflight, tmem, tc, out>>

CorrectionCombine(w) ==
    LET me == warp.co[w]
        t == me.tile
        work == HasWork(t)
        exact(terms) == Total(t, me.max, terms, Bias)
    IN  /\ me.pc = "o" /\ Passed(bar[<<"epi_empty", 0>>], EmptyPhase(t - 1, 1))
        /\ smem' = [smem EXCEPT !.o[w] = Finished(t, work =>
              exact(me.den) /\ exact([g \in Stage |-> tmem.o[g][w].o]))]
        /\ bar' = ArriveAt(bar, {<<"epi_full", 0>>}
                      \cup (IF work /\ ~Sm100 THEN {<<"spo_empty", g>> : g \in Stage} ELSE {}))
        /\ out' = [out EXCEPT ![<<"lse", t, w>>] = IF exact(me.den) THEN "exact" ELSE "wrong"]
        /\ Co_(w, [me EXCEPT !.pc = "arrive", !.tile = t + 1, !.j = 0, !.o = @ + Steps(t) \div 2])
        /\ UNCHANGED <<launch, inflight, tmem, tc>>

CorrectionTail(w) ==
    /\ warp.co[w].pc = "arrive" /\ warp.co[w].tile \notin Tiles
    /\ Passed(bar[<<"epi_empty", 0>>], EmptyPhase(Len(launch.tiles), 1))
    /\ Co_(w, [warp.co[w] EXCEPT !.pc = "done"])
    /\ UNCHANGED <<launch, bar, smem, inflight, tmem, tc, out>>

Correction(w) ==
    \/ CorrectionStart(w) \/ CorrectionArrive(w) \/ CorrectionFirst(w) \/ CorrectionScale(w)
    \/ CorrectionRescale(w) \/ CorrectionDrain(w) \/ CorrectionFinal(w)
    \/ CorrectionCombine(w) \/ CorrectionTail(w)

-----------------------------------------------------------------------------

Exited ==
    /\ warp.load.done /\ mma.tile \notin Tiles /\ warp.ep.tile \notin Tiles
    /\ \A w \in Warps : warp.co[w].pc = "done" /\ \A g \in Stage : warp.sm[g][w].pc = "done"

Next ==
    \/ Load \/ Mma \/ TensorCore \/ Epilogue
    \/ \E c \in inflight : Land(c)
    \/ \E g \in Stage, w \in Warps : Softmax(g, w)
    \/ \E w \in Warps : Correction(w)

-----------------------------------------------------------------------------
(* Properties                                                              *)

(* Shared and tensor memory are held for the tensor core: S is not computed  *)
(* anew while a warp has still to read it, and no PV is queued whose P slot  *)
(* a warp is about to write for a later step, although nobody releases it.   *)
OperandsHeld ==
    /\ SharedOperandsHeld
    /\ \A n \in DOMAIN tc : \A w \in Warps :
          /\ tc[n].do = "QK" => \A g \in Stage : warp.sm[g][w].pc # "read"
          /\ tc[n].do = "PV" =>
                /\ tmem.p[tc[n].p][w].tag = [smem.kv[tc[n].slot] EXCEPT !.k = "P"]
                /\ warp.co[w].pc = "rescale" => warp.co[w].j % 2 # tc[n].g \/ tc[n].first
                   \/ ~Passed(bar[<<"o_acc", tc[n].g>>], Generation_([warp.co[w] EXCEPT !.j = @ - 2]))

(* P is written times 128 and relative to a maximum that may be stale: it is *)
(* never larger than what FP8 holds.                                         *)
PFitsFp8 ==
    \A g \in Stage, w \in Warps : \A x \in warp.sm[g][w].row.p : x[2] <= MaxFp8
===============================================================================
