---------------------------- MODULE Sm100Blk64Fwd ----------------------------
(***************************************************************************)
(* One CTA of the warp-specialised forward kernel of                       *)
(* csrc/fwd/sm100_blk64/bsa_fwd_sm100.py: a load warp, an MMA warp, two    *)
(* softmax warpgroups, a correction warpgroup and an epilogue warp, which  *)
(* share shared memory (Q, a ring of K/V slots) and tensor memory (two     *)
(* S/P stages, two O stages) and are kept apart by mbarriers and named     *)
(* barriers only.  TMA copies and tensor-core operations are asynchronous: *)
(* a copy lands in its own step, and the tensor core executes a queue of   *)
(* operations in issue order, arriving on the committed mbarriers when the *)
(* operation before the commit is done.                                    *)
(*                                                                         *)
(* A memory region holds a tag that says whose data it is, so data flow    *)
(* through the kernel as they do in the code and a result that mixed the   *)
(* wrong pieces carries the wrong tag.  K/V groups are numbered as in the  *)
(* code and taken from the last to the first.                              *)
(***************************************************************************)
EXTENDS Integers, Sequences, FiniteSets

CONSTANTS
    Launches   \* [work : Seq(raw block counts of the CTA's tiles),
               \*  warps : the warps of a warpgroup that share output rows,
               \*  fp8 : BOOLEAN, persistent : BOOLEAN]

ASSUME LaunchesAssumption ==
    \A l \in Launches : /\ IsFiniteSet(l.warps) /\ l.warps # {}
                        /\ l.work \in Seq(Nat) /\ Len(l.work) > 0
                        /\ l.fp8 \in BOOLEAN /\ l.persistent \in BOOLEAN
                        /\ ~l.persistent => Len(l.work) = 1

VARIABLES
    launch,                 \* the launch this CTA belongs to, never changed
    bar,                    \* [BarId -> mbarrier]
    named,                  \* sm_stats_barrier: arrivals of softmax warp (g, w)
    sQ, kv, inflight,       \* smem tiles, and the TMA copies under way
    kScale,                 \* FP8: the K scales published for each S stage
    sp, o,                  \* TMEM: S/P stage rows, O stage rows
    sScale,                 \* smem slot softmax (g, w) -> correction w
    oStats, exch, sO, out,  \* epilogue exchange, O tile, global memory
    tc,                     \* the tensor core's queue
    ld, mm, sm, co, ep      \* registers of each role

memory == <<sQ, kv, inflight, kScale, sp, o, sScale, oStats, exch, sO, out>>
vars == <<launch, bar, named, memory, tc, ld, mm, sm, co, ep>>

-----------------------------------------------------------------------------
(* Work.                                                                   *)

KvStages == 3               \* _setup_attributes: kv_stage
Slot == 0 .. KvStages - 1
Stage == 0 .. 1             \* s_stage
Tiles == 1 .. Len(launch.work)
Warps == launch.warps

\* ((raw + 7) & ~7) // 4: groups of four sparse blocks, an even number.
Groups(raw) == (((raw + 7) \div 8) * 8) \div 4
N(t) == Groups(launch.work[t])
HasWork(t) == launch.work[t] > 0

\* separate_epi_smem: otherwise the epilogue's buffers lie on top of the K/V
\* ring, and with several tiles pipeline_load_epi keeps them apart.
AliasEpilogue == ~(launch.fp8 /\ launch.persistent)
HasLoadEpi == launch.persistent /\ AliasEpilogue

\* Issue order of the loads of a tile with n groups: K, K, {V, K}, V, V.
LoadItem(n, j) ==
    IF j < 2 THEN [k |-> "K", grp |-> n - 1 - j]
    ELSE IF j >= 2 * n - 2 THEN [k |-> "V", grp |-> 2 * n - 1 - j]
    ELSE IF j % 2 = 0 THEN [k |-> "V", grp |-> n - 1 - (j - 2) \div 2]
    ELSE [k |-> "K", grp |-> n - 3 - (j - 2) \div 2]

-----------------------------------------------------------------------------
(* Tags.                                                                   *)

Tag(k, t, g) == [k |-> k, tile |-> t, grp |-> g]
Nothing == Tag("none", 0, 0)
NoScale == [k |-> "none", tile |-> 0, n |-> 0]
NoAcc == [tile |-> 0, acc |-> {}, scaled |-> 0]
Broken == -1   \* a tile number no tile has: a result of the wrong pieces

-----------------------------------------------------------------------------
(* mbarriers.                                                              *)

QFull == <<"q_full", 0>>
QEmpty == <<"q_empty", 0>>
KvFull(s) == <<"kv_full", s>>
KvEmpty(s) == <<"kv_empty", s>>
SpoFull(g) == <<"spo_full", g>>
SpoEmpty(g) == <<"spo_empty", g>>
LastSplit(g) == <<"p_lastsplit", g>>
OAcc(g) == <<"o_acc", g>>
StatsEmpty(g) == <<"sm_stats", g>>
EpiFull == <<"epi_full", 0>>
EpiEmpty == <<"epi_empty", 0>>
LoadEpiFull == <<"load_epi_full", 0>>
LoadEpiEmpty == <<"load_epi_empty", 0>>
Reduce == <<"reduce", 0>>

BarId ==
    {QFull, QEmpty, EpiFull, EpiEmpty, LoadEpiFull, LoadEpiEmpty, Reduce}
    \cup {KvFull(s) : s \in Slot} \cup {KvEmpty(s) : s \in Slot}
    \cup {SpoFull(g) : g \in Stage} \cup {SpoEmpty(g) : g \in Stage}
    \cup {LastSplit(g) : g \in Stage} \cup {OAcc(g) : g \in Stage}
    \cup {StatsEmpty(g) : g \in Stage}

\* A bug for the runs to find: the reduce barrier created for one warp.
ExpectedAlone(b) ==
    CASE b[1] = "spo_empty" -> 2 * Cardinality(Warps)
      [] b[1] \in {"p_lastsplit", "sm_stats", "epi_full"} -> Cardinality(Warps)
      [] OTHER -> 1

\* Arrivals that complete a phase, in warps: the groups given to create().
Expected(b) ==
    CASE b[1] = "spo_empty" -> 2 * Cardinality(Warps)
      [] b[1] \in {"p_lastsplit", "sm_stats", "epi_full", "reduce"} ->
            Cardinality(Warps)
      [] OTHER -> 1

\* mbarrier.try_wait.parity: the phase of this parity is over.
Done(b, phase) == bar[b].par # phase

Arrive(bars) ==
    bar' = [b \in BarId |->
              IF b \notin bars THEN bar[b]
              ELSE IF bar[b].left = 1
                   THEN [par |-> 1 - bar[b].par, left |-> Expected(b)]
                   ELSE [bar[b] EXCEPT !.left = @ - 1]]

\* PipelineStateSimple of the K/V ring (module MbarPipeline).
IndexOf(i) == i % KvStages
PhaseOf(i) == (i \div KvStages) % 2

-----------------------------------------------------------------------------

Init ==
    /\ launch \in Launches
    /\ bar = [b \in BarId |-> [par |-> 0, left |-> Expected(b)]]
    /\ named = [g \in Stage |-> [w \in Warps |-> 0]]
    /\ sQ = 0 /\ kv = [s \in Slot |-> Nothing] /\ inflight = {}
    /\ kScale = [g \in Stage |-> Nothing]
    /\ sp = [g \in Stage |-> [w \in Warps |-> Nothing]]
    /\ o = [g \in Stage |-> [w \in Warps |-> NoAcc]]
    /\ sScale = [g \in Stage |-> [w \in Warps |-> NoScale]]
    /\ oStats = [w \in Warps |-> 0] /\ exch = [w \in Warps |-> 0]
    /\ sO = [w \in Warps |-> 0]
    /\ out = [t \in Tiles |-> [w \in Warps |-> 0]]
    /\ tc = <<>>
    /\ ld = [pc |-> "tile", tile |-> 1, j |-> 0, kv |-> KvStages, q |-> 1, epi |-> 0]
    /\ mm = [pc |-> "tile", tile |-> 1, j |-> 0, kv |-> 0, q |-> 0, v |-> 0,
             spo |-> [g \in Stage |-> 0]]
    /\ sm = [g \in Stage |-> [w \in Warps |->
                [pc |-> "tile", tile |-> 1, n |-> 0, s |-> 0, stats |-> 1,
                 score |-> Nothing]]]
    /\ co = [w \in Warps |->
                [pc |-> "start", tile |-> 1, j |-> 0, oacc |-> 0, epi |-> 1,
                 scale |-> NoScale, ok |-> TRUE]]
    /\ ep = [pc |-> "tile", tile |-> 1, epi |-> 0, ld |-> 1]

-----------------------------------------------------------------------------
(* Load warp and TMA.                                                      *)

\* A copy into slot 0 or 1 of the ring destroys what the epilogue had there.
Overwrite(s) ==
    /\ exch' = IF AliasEpilogue /\ s = 0 THEN [w \in Warps |-> Broken] ELSE exch
    /\ sO' = IF AliasEpilogue /\ s = 1 THEN [w \in Warps |-> Broken] ELSE sO

LoadQ ==
    /\ ld.pc = "tile" /\ ld.tile \in Tiles /\ HasWork(ld.tile)
    /\ Done(QEmpty, ld.q)
    /\ sQ' = 0
    /\ inflight' = inflight \cup {[to |-> "Q", slot |-> 0, tag |-> Tag("Q", ld.tile, 0)]}
    /\ ld' = [ld EXCEPT !.pc = "kv", !.j = 0, !.q = 1 - @]
    /\ UNCHANGED <<launch, bar, named, kv, kScale, sp, o, sScale, oStats, exch,
                   sO, out, tc, mm, sm, co, ep>>

\* load_K_group, load_V_group: the j-th group of the tile.
LoadKV ==
    LET s == IndexOf(ld.kv)
        item == LoadItem(N(ld.tile), ld.j)
    IN  /\ ld.pc = "kv"
        /\ Done(KvEmpty(s), PhaseOf(ld.kv))
        /\ kv' = [kv EXCEPT ![s] = Nothing]
        /\ inflight' = inflight \cup
             {[to |-> "KV", slot |-> s, tag |-> Tag(item.k, ld.tile, item.grp)]}
        /\ Overwrite(s)
        /\ ld' = [ld EXCEPT !.pc = IF ld.j + 1 = 2 * N(ld.tile) THEN "epi" ELSE "kv",
                            !.j = @ + 1, !.kv = @ + 1]
        /\ UNCHANGED <<launch, bar, named, sQ, kScale, sp, o, sScale, oStats,
                       out, tc, mm, sm, co, ep>>

LoadSkip ==
    /\ ld.pc = "tile" /\ ld.tile \in Tiles /\ ~HasWork(ld.tile)
    /\ ld' = [ld EXCEPT !.pc = "epi"]
    /\ UNCHANGED <<launch, bar, named, memory, tc, mm, sm, co, ep>>

\* A bug for the runs to find: the load warp does not wait for the epilogue.
LoadEpiFree ==
    /\ ld.pc = "epi"
    /\ ld' = [ld EXCEPT !.pc = "tile", !.tile = @ + 1]
    /\ UNCHANGED <<launch, bar, named, memory, tc, mm, sm, co, ep>>

\* The epilogue has stored the tile.
LoadEpi ==
    /\ ld.pc = "epi"
    /\ IF HasLoadEpi
       THEN /\ Done(LoadEpiFull, ld.epi)
            /\ Arrive({LoadEpiEmpty})
            /\ ld' = [ld EXCEPT !.pc = "tile", !.tile = @ + 1, !.epi = 1 - @]
       ELSE ld' = [ld EXCEPT !.pc = "tile", !.tile = @ + 1] /\ UNCHANGED bar
    /\ UNCHANGED <<launch, named, memory, tc, mm, sm, co, ep>>

\* producer_tail: the last stage used is released; then the same for Q.
LoadTail ==
    LET last == ld.kv + KvStages - 1 IN
    /\ \/ /\ ld.pc = "tile" /\ ld.tile \notin Tiles
          /\ Done(KvEmpty(IndexOf(last)), PhaseOf(last))
          /\ ld' = [ld EXCEPT !.pc = "qtail"]
       \/ /\ ld.pc = "qtail" /\ Done(QEmpty, ld.q)
          /\ ld' = [ld EXCEPT !.pc = "done"]
    /\ UNCHANGED <<launch, bar, named, memory, tc, mm, sm, co, ep>>

Load == LoadQ \/ LoadKV \/ LoadSkip \/ LoadEpi \/ LoadTail

\* All the bytes of a copy have arrived: the barrier's transaction completes.
Land(c) ==
    /\ c \in inflight
    /\ inflight' = inflight \ {c}
    /\ IF c.to = "Q"
       THEN sQ' = c.tag.tile /\ Arrive({QFull}) /\ UNCHANGED <<kv, exch, sO>>
       ELSE /\ kv' = [kv EXCEPT ![c.slot] = c.tag]
            /\ Overwrite(c.slot)
            /\ Arrive({KvFull(c.slot)})
            /\ UNCHANGED sQ
    /\ UNCHANGED <<launch, named, kScale, sp, o, sScale, oStats, out, tc, ld,
                   mm, sm, co, ep>>

-----------------------------------------------------------------------------
(* MMA warp: issues operations, each with the barriers committed after it.  *)

Op(do, g, s, first, arrive) ==
    [do |-> do, g |-> g, slot |-> s, first |-> first, arrive |-> arrive]

\* A bug for the runs to find: Q is released one step early.
ReleaseQEarly(j) ==
    IF j = N(mm.tile) - 3 THEN <<Op("none", 0, 0, FALSE, {QEmpty})>> ELSE <<>>

\* The j-th PV of a tile works on stage j % 2; Q is released before the last two.
ReleaseQ(j) ==
    IF j = N(mm.tile) - 2 THEN <<Op("none", 0, 0, FALSE, {QEmpty})>> ELSE <<>>

\* publish_k_scales, store_k_scale
PublishScale(g, grp) ==
    kScale' = IF launch.fp8
              THEN [kScale EXCEPT ![g] = Tag("scale", mm.tile, grp)]
              ELSE kScale

MmaQ ==
    /\ mm.pc = "tile" /\ mm.tile \in Tiles /\ HasWork(mm.tile)
    /\ Done(QFull, mm.q)
    /\ PublishScale(0, N(mm.tile) - 1)
    /\ mm' = [mm EXCEPT !.pc = "s", !.j = 0, !.q = 1 - @]
    /\ UNCHANGED <<launch, bar, named, sQ, kv, inflight, sp, o, sScale, oStats,
                   exch, sO, out, tc, ld, sm, co, ep>>

MmaSkip ==
    /\ mm.pc = "tile" /\ mm.tile \in Tiles /\ ~HasWork(mm.tile)
    /\ mm' = [mm EXCEPT !.tile = @ + 1]
    /\ UNCHANGED <<launch, bar, named, memory, tc, ld, sm, co, ep>>

\* The prologue: S0, then S1.
MmaS ==
    LET s == IndexOf(mm.kv) IN
    /\ mm.pc = "s"
    /\ Done(KvFull(s), PhaseOf(mm.kv))
    /\ tc' = tc \o <<Op("QK", mm.j, s, FALSE, {SpoFull(mm.j), KvEmpty(s)})>>
                \o (IF mm.j = 1 THEN ReleaseQ(0) ELSE <<>>)
    /\ IF mm.j = 0
       THEN /\ mm' = [mm EXCEPT !.j = 1, !.kv = @ + 1]
            /\ PublishScale(1, N(mm.tile) - 2)
       ELSE mm' = [mm EXCEPT !.pc = "spo", !.j = 0, !.kv = @ + 1] /\ UNCHANGED kScale
    /\ UNCHANGED <<launch, bar, named, sQ, kv, inflight, sp, o, sScale, oStats,
                   exch, sO, out, ld, sm, co, ep>>

\* A bug for the runs to find: the scales are published before the wait.
MmaSpoEarly ==
    /\ mm.pc = "spo"
    /\ IF mm.j < N(mm.tile) - 2
       THEN PublishScale(mm.j % 2, N(mm.tile) - 3 - mm.j) ELSE UNCHANGED kScale
    /\ mm' = [mm EXCEPT !.pc = "v"]
    /\ UNCHANGED <<launch, bar, named, sQ, kv, inflight, sp, o, sScale, oStats,
                   exch, sO, out, tc, ld, sm, co, ep>>

\* The first part of P is in TMEM and O is rescaled.
MmaSpo ==
    LET g == mm.j % 2 IN
    /\ mm.pc = "spo"
    /\ Done(SpoEmpty(g), mm.spo[g])
    /\ IF mm.j < N(mm.tile) - 2
       THEN PublishScale(g, N(mm.tile) - 3 - mm.j) ELSE UNCHANGED kScale
    /\ mm' = [mm EXCEPT !.pc = "v"]
    /\ UNCHANGED <<launch, bar, named, sQ, kv, inflight, sp, o, sScale, oStats,
                   exch, sO, out, tc, ld, sm, co, ep>>

\* ws_pv_gemm, up to its wait for the rest of P.
MmaV ==
    LET s == IndexOf(mm.kv) IN
    /\ mm.pc = "v"
    /\ Done(KvFull(s), PhaseOf(mm.kv))
    /\ tc' = Append(tc, Op("PV1", mm.j % 2, s, mm.j < 2, {}))
    /\ mm' = [mm EXCEPT !.pc = "pv", !.v = s, !.kv = @ + 1]
    /\ UNCHANGED <<launch, bar, named, memory, ld, sm, co, ep>>

\* A bug for the runs to find: no wait for the rest of P.
MmaPvEarly ==
    /\ mm.pc = "pv"
    /\ tc' = Append(tc, Op("PV2", mm.j % 2, mm.v, FALSE, {KvEmpty(mm.v)} \cup
                           IF mm.j >= N(mm.tile) - 2 THEN {OAcc(mm.j % 2)} ELSE {}))
    /\ mm' = IF mm.j < N(mm.tile) - 2 THEN [mm EXCEPT !.pc = "k"]
             ELSE IF mm.j < N(mm.tile) - 1 THEN [mm EXCEPT !.pc = "spo", !.j = @ + 1]
             ELSE [mm EXCEPT !.pc = "tile", !.tile = @ + 1,
                             !.spo = [h \in Stage |-> 1 - @[h]]]
    /\ UNCHANGED <<launch, bar, named, memory, ld, sm, co, ep>>

\* The rest of ws_pv_gemm; the last PV of a stage also commits O.
MmaPv ==
    LET g == mm.j % 2
        n == N(mm.tile)
        oDone == IF mm.j >= n - 2 THEN {OAcc(g)} ELSE {}
    IN  /\ mm.pc = "pv"
        /\ Done(LastSplit(g), mm.spo[g])
        /\ tc' = Append(tc, Op("PV2", g, mm.v, FALSE, {KvEmpty(mm.v)} \cup oDone))
        /\ mm' = IF mm.j < n - 2 THEN [mm EXCEPT !.pc = "k"]
                 ELSE IF mm.j < n - 1 THEN [mm EXCEPT !.pc = "spo", !.j = @ + 1]
                 ELSE [mm EXCEPT !.pc = "tile", !.tile = @ + 1,
                                 !.spo = [h \in Stage |-> 1 - @[h]]]
        /\ UNCHANGED <<launch, bar, named, memory, ld, sm, co, ep>>

\* The next S of this stage.
MmaK ==
    LET g == mm.j % 2
        s == IndexOf(mm.kv)
    IN  /\ mm.pc = "k"
        /\ Done(KvFull(s), PhaseOf(mm.kv))
        /\ tc' = tc \o <<Op("QK", g, s, FALSE, {SpoFull(g), KvEmpty(s)})>>
                    \o ReleaseQ(mm.j + 1)
        /\ mm' = [mm EXCEPT !.pc = "spo", !.j = @ + 1, !.kv = @ + 1,
                            !.spo[g] = 1 - @]
        /\ UNCHANGED <<launch, bar, named, memory, ld, sm, co, ep>>

\* A bug for the runs to find: the MMA warp frees TMEM when it is done itself.
MmaFreeEarly ==
    /\ mm.pc = "tile" /\ mm.tile \notin Tiles
    /\ mm' = [mm EXCEPT !.pc = "done"]
    /\ UNCHANGED <<launch, bar, named, memory, tc, ld, sm, co, ep>>

\* TMEM is freed when its users have arrived (FP8: when every warp has).
MmaFree ==
    /\ mm.pc = "tile" /\ mm.tile \notin Tiles
    /\ \A w \in Warps : co[w].pc = "done" /\ \A g \in Stage : sm[g][w].pc = "done"
    /\ launch.fp8 => ld.pc = "done" /\ ep.tile \notin Tiles
    /\ mm' = [mm EXCEPT !.pc = "done"]
    /\ UNCHANGED <<launch, bar, named, memory, tc, ld, sm, co, ep>>

Mma == MmaQ \/ MmaSkip \/ MmaS \/ MmaSpo \/ MmaV \/ MmaPv \/ MmaK \/ MmaFree

-----------------------------------------------------------------------------
(* Tensor core: the operation at the head of its queue.                    *)

\* S = Q K^T overwrites the stage, the rows of every warp.
Scores(op) ==
    LET block == kv[op.slot] IN
    sp' = [sp EXCEPT ![op.g] = [w \in Warps |->
             IF block.k = "K" /\ block.tile = sQ
             THEN Tag("S", sQ, block.grp) ELSE Tag("S", Broken, 0)]]

\* What a warp's O rows become when a part of P (tagged one of kinds) is used.
Accumulated(acc, p, v, kinds, first) ==
    IF ~(p.k \in kinds /\ v.k = "V" /\ v.tile = p.tile)
       \/ (~first /\ acc.tile # p.tile)
    THEN [acc EXCEPT !.tile = Broken]
    ELSE IF first THEN [tile |-> p.tile, acc |-> {}, scaled |-> 0]
    ELSE IF kinds = {"P"}
         THEN [acc EXCEPT !.acc = @ \cup {<<p.grp, v.grp, acc.scaled>>}]
         ELSE acc

PV(op, kinds) ==
    o' = [o EXCEPT ![op.g] = [w \in Warps |->
            Accumulated(@[w], sp[op.g][w], kv[op.slot], kinds, op.first)]]

TensorCore ==
    /\ tc # <<>>
    /\ LET op == Head(tc) IN
       /\ \/ op.do = "QK" /\ Scores(op) /\ UNCHANGED o
          \/ op.do = "PV1" /\ PV(op, {"P1", "P"}) /\ UNCHANGED sp
          \/ op.do = "PV2" /\ PV(op, {"P"}) /\ UNCHANGED sp
          \/ op.do = "none" /\ UNCHANGED <<sp, o>>
       /\ Arrive(op.arrive)
    /\ tc' = Tail(tc)
    /\ UNCHANGED <<launch, named, sQ, kv, inflight, kScale, sScale, oStats, exch,
                   sO, out, ld, mm, sm, co, ep>>

-----------------------------------------------------------------------------
(* Softmax warp w of warpgroup g.                                          *)

\* named_barrier_arrive: does not wait for the correction warp.
Signal(g, w) == named' = [named EXCEPT ![g][w] = @ + 1]

\* Every tile starts by acquiring the statistics slot, empty ones included.
SoftmaxTile(g, w) ==
    LET me == sm[g][w] IN
    /\ me.pc = "tile" /\ me.tile \in Tiles
    /\ Done(StatsEmpty(g), me.stats)
    /\ IF HasWork(me.tile)
       THEN /\ sm' = [sm EXCEPT ![g][w] = [@ EXCEPT !.pc = "s", !.n = 0,
                                                    !.stats = 1 - me.stats]]
            /\ UNCHANGED named
       ELSE /\ sm' = [sm EXCEPT ![g][w] = [@ EXCEPT !.tile = me.tile + 1,
                                                    !.stats = 1 - me.stats]]
            /\ Signal(g, w)
    /\ UNCHANGED <<launch, bar, memory, tc, ld, mm, co, ep>>

\* softmax_step: read S; the first step needs no correction of O.
SoftmaxScore(g, w) ==
    LET me == sm[g][w]
        s == sp[g][w]
        scaled == launch.fp8 => kScale[g] = Tag("scale", s.tile, s.grp)
    IN  /\ me.pc = "s"
        /\ Done(SpoFull(g), me.s)
        /\ sm' = [sm EXCEPT ![g][w] =
                    [@ EXCEPT !.pc = IF me.n = 0 THEN "p1" ELSE "scale",
                              !.score = IF scaled THEN s ELSE Nothing]]
        /\ IF me.n = 0 THEN Signal(g, w) ELSE UNCHANGED named
        /\ UNCHANGED <<launch, bar, memory, tc, ld, mm, co, ep>>

\* A bug for the runs to find: the statistics slot is not acquired.
SoftmaxScaleEarly(g, w) ==
    LET me == sm[g][w] IN
    /\ me.pc = "scale"
    /\ sScale' = [sScale EXCEPT ![g][w] =
                    [k |-> "scale", tile |-> me.tile, n |-> me.n]]
    /\ Signal(g, w)
    /\ sm' = [sm EXCEPT ![g][w] = [@ EXCEPT !.pc = "p1", !.stats = 1 - me.stats]]
    /\ UNCHANGED <<launch, bar, sQ, kv, inflight, kScale, sp, o, oStats, exch,
                   sO, out, tc, ld, mm, co, ep>>

SoftmaxScale(g, w) ==
    LET me == sm[g][w] IN
    /\ me.pc = "scale"
    /\ Done(StatsEmpty(g), me.stats)
    /\ sScale' = [sScale EXCEPT ![g][w] =
                    [k |-> "scale", tile |-> me.tile, n |-> me.n]]
    /\ Signal(g, w)
    /\ sm' = [sm EXCEPT ![g][w] = [@ EXCEPT !.pc = "p1", !.stats = 1 - me.stats]]
    /\ UNCHANGED <<launch, bar, sQ, kv, inflight, kScale, sp, o, oStats, exch,
                   sO, out, tc, ld, mm, co, ep>>

\* The first columns of P replace S in TMEM and are announced early.
SoftmaxP1(g, w) ==
    LET me == sm[g][w] IN
    /\ me.pc = "p1"
    /\ sp' = [sp EXCEPT ![g][w] = Tag("P1", me.score.tile, me.score.grp)]
    /\ Arrive({SpoEmpty(g)})
    /\ sm' = [sm EXCEPT ![g][w] = [@ EXCEPT !.pc = "p2"]]
    /\ UNCHANGED <<launch, named, sQ, kv, inflight, kScale, o, sScale, oStats,
                   exch, sO, out, tc, ld, mm, co, ep>>

SoftmaxP2(g, w) ==
    LET me == sm[g][w] IN
    /\ me.pc = "p2"
    /\ sp' = [sp EXCEPT ![g][w] = Tag("P", me.score.tile, me.score.grp)]
    /\ Arrive({LastSplit(g)})
    /\ sm' = [sm EXCEPT ![g][w] =
                [@ EXCEPT !.pc = IF 2 * (me.n + 1) = N(me.tile) THEN "sum" ELSE "s",
                          !.n = me.n + 1, !.s = 1 - me.s]]
    /\ UNCHANGED <<launch, named, sQ, kv, inflight, kScale, o, sScale, oStats,
                   exch, sO, out, tc, ld, mm, co, ep>>

\* row_sum and row_max go through the slot of the last scale.
SoftmaxSum(g, w) ==
    LET me == sm[g][w] IN
    /\ me.pc = "sum"
    /\ Done(StatsEmpty(g), me.stats)
    /\ sScale' = [sScale EXCEPT ![g][w] =
                    [k |-> "sum", tile |-> me.tile, n |-> me.n]]
    /\ Signal(g, w)
    /\ sm' = [sm EXCEPT ![g][w] = [@ EXCEPT !.pc = "tile", !.tile = me.tile + 1,
                                            !.stats = 1 - me.stats]]
    /\ UNCHANGED <<launch, bar, sQ, kv, inflight, kScale, sp, o, oStats, exch,
                   sO, out, tc, ld, mm, co, ep>>

SoftmaxTail(g, w) ==
    LET me == sm[g][w] IN
    /\ me.pc = "tile" /\ me.tile \notin Tiles
    /\ Done(StatsEmpty(g), me.stats)
    /\ sm' = [sm EXCEPT ![g][w] = [@ EXCEPT !.pc = "done"]]
    /\ UNCHANGED <<launch, bar, named, memory, tc, ld, mm, co, ep>>

Softmax(g, w) ==
    \/ SoftmaxTile(g, w) \/ SoftmaxScore(g, w) \/ SoftmaxScale(g, w)
    \/ SoftmaxP1(g, w) \/ SoftmaxP2(g, w) \/ SoftmaxSum(g, w)
    \/ SoftmaxTail(g, w)

-----------------------------------------------------------------------------
(* Correction warp w.                                                      *)

\* named_barrier_wait: meets softmax warp (g, w).
Meet(g, w) == named[g][w] = 1 /\ named' = [named EXCEPT ![g][w] = 0]

CorrectionStart(w) ==
    /\ co[w].pc = "start"
    /\ Arrive({SpoEmpty(g) : g \in Stage})
    /\ co' = [co EXCEPT ![w] = [@ EXCEPT !.pc = "tile"]]
    /\ UNCHANGED <<launch, named, memory, tc, ld, mm, sm, ep>>

\* The first statistics of a tile need no correction.
CorrectionFirst(w) ==
    LET me == co[w] IN
    /\ me.pc \in {"tile", "second"} /\ me.tile \in Tiles /\ HasWork(me.tile)
    /\ IF me.pc = "tile"
       THEN /\ Meet(0, w)
            /\ Arrive({StatsEmpty(0)})
            /\ co' = [co EXCEPT ![w] = [@ EXCEPT !.pc = "second"]]
       ELSE /\ Meet(1, w)
            /\ IF N(me.tile) = 2
               THEN /\ Arrive({StatsEmpty(1)})
                    /\ co' = [co EXCEPT ![w] = [@ EXCEPT !.pc = "sum", !.j = 0]]
               ELSE /\ co' = [co EXCEPT ![w] = [@ EXCEPT !.pc = "scale", !.j = 0]]
                    /\ UNCHANGED bar
    /\ UNCHANGED <<launch, memory, tc, ld, mm, sm, ep>>

CorrectionScale(w) ==
    LET me == co[w]
        g == me.j % 2
    IN  /\ me.pc = "scale"
        /\ Meet(g, w)
        /\ co' = [co EXCEPT ![w] = [@ EXCEPT !.pc = "rescale",
                                             !.scale = sScale[g][w]]]
        /\ UNCHANGED <<launch, bar, memory, tc, ld, mm, sm, ep>>

\* correction_rescale, which a scale of 1 makes the identity; the other
\* stage's slot is given back, and after the last pair this stage's too.
CorrectionRescale(w) ==
    LET me == co[w]
        g == me.j % 2
        last == me.j + 1 = N(me.tile) - 2
        right == me.scale.k = "scale" /\ me.scale.tile = me.tile
    IN  /\ me.pc = "rescale"
        /\ o' = [o EXCEPT ![g][w].scaled = IF right THEN me.scale.n ELSE Broken]
        /\ Arrive({SpoEmpty(g), StatsEmpty(1 - g)}
                  \cup (IF last THEN {StatsEmpty(1)} ELSE {}))
        /\ co' = [co EXCEPT ![w] = IF last THEN [@ EXCEPT !.pc = "sum", !.j = 0]
                                   ELSE [@ EXCEPT !.pc = "scale", !.j = me.j + 1]]
        /\ UNCHANGED <<launch, named, sQ, kv, inflight, kScale, sp, sScale,
                       oStats, exch, sO, out, tc, ld, mm, sm, ep>>

\* row_sum and row_max of stage j.
CorrectionSum(w) ==
    LET me == co[w]
        sum == [k |-> "sum", tile |-> me.tile, n |-> N(me.tile) \div 2]
    IN  /\ me.pc = "sum"
        /\ Meet(me.j, w)
        /\ Arrive({StatsEmpty(me.j)})
        /\ co' = [co EXCEPT ![w] =
                    [@ EXCEPT !.ok = me.ok /\ sScale[me.j][w] = sum,
                              !.j = 1 - me.j,
                              !.pc = IF me.j = 1 THEN "oacc" ELSE "sum"]]
        /\ UNCHANGED <<launch, memory, tc, ld, mm, sm, ep>>

CorrectionWaitO(w) ==
    LET me == co[w] IN
    /\ me.pc = "oacc"
    /\ Done(OAcc(me.j), me.oacc)
    /\ co' = [co EXCEPT ![w] = [@ EXCEPT !.j = 1 - me.j,
                                         !.pc = IF me.j = 1 THEN "epi" ELSE "oacc"]]
    /\ UNCHANGED <<launch, bar, named, memory, tc, ld, mm, sm, ep>>

\* A bug for the runs to find: an empty tile keeps the statistics slots.
CorrectionEmptyKeeps(w) ==
    LET me == co[w] IN
    /\ me.pc = "tile" /\ me.tile \in Tiles /\ ~HasWork(me.tile)
    /\ Meet(me.j, w)
    /\ co' = [co EXCEPT ![w] = [@ EXCEPT !.j = 1 - me.j,
                                         !.pc = IF me.j = 1 THEN "epi" ELSE "tile"]]
    /\ UNCHANGED <<launch, bar, memory, tc, ld, mm, sm, ep>>

\* An empty tile: meet the one signal of each stage.
CorrectionEmpty(w) ==
    LET me == co[w] IN
    /\ me.pc = "tile" /\ me.tile \in Tiles /\ ~HasWork(me.tile)
    /\ Meet(me.j, w)
    /\ Arrive({StatsEmpty(me.j)})
    /\ co' = [co EXCEPT ![w] = [@ EXCEPT !.j = 1 - me.j,
                                         !.pc = IF me.j = 1 THEN "epi" ELSE "tile"]]
    /\ UNCHANGED <<launch, memory, tc, ld, mm, sm, ep>>

\* correction_epilogue_combine_ws_raw: exchange of the row statistics.
CorrectionStats(w) ==
    LET me == co[w] IN
    /\ me.pc = "epi"
    /\ Done(EpiEmpty, me.epi)
    /\ oStats' = [oStats EXCEPT ![w] = me.tile]
    /\ Arrive({Reduce})
    /\ co' = [co EXCEPT ![w] = [@ EXCEPT !.pc = "combine"]]
    /\ UNCHANGED <<launch, named, sQ, kv, inflight, kScale, sp, o, sScale, exch,
                   sO, out, tc, ld, mm, sm, ep>>

\* The contributions stage g of tile t needs: its groups, each with its own P,
\* V and number of corrections applied before.
Contributions(t, g) ==
    {<<N(t) - 1 - (2 * n + g), N(t) - 1 - (2 * n + g), n>> :
        n \in 0 .. (N(t) \div 2 - 1)}

\* Both O stages are read and their sum goes to the exchange buffer.
CorrectionCombine(w) ==
    LET me == co[w]
        t == me.tile
        right == /\ me.ok
                 /\ \A v \in Warps : oStats[v] = t
                 /\ HasWork(t) => \A g \in Stage :
                       o[g][w].tile = t /\ o[g][w].acc = Contributions(t, g)
    IN  /\ me.pc = "combine"
        /\ Done(Reduce, 0)
        /\ exch' = [exch EXCEPT ![w] = IF right THEN t ELSE Broken]
        /\ kv' = IF AliasEpilogue THEN [kv EXCEPT ![0] = Nothing] ELSE kv
        /\ Arrive({Reduce})
        /\ co' = [co EXCEPT ![w] = [@ EXCEPT !.pc = "store"]]
        /\ UNCHANGED <<launch, named, sQ, inflight, kScale, sp, o, sScale, oStats,
                       sO, out, tc, ld, mm, sm, ep>>

\* The rows a warp writes to the O tile: BF16 leaves it to the lower warp.
Leader == CHOOSE w \in Warps : TRUE
Drains(w) == IF launch.fp8 THEN {w} ELSE IF w = Leader THEN Warps ELSE {}

CorrectionStore(w) ==
    LET me == co[w]
        t == me.tile
        right == \A v \in Warps : exch[v] = t
    IN  /\ me.pc = "store"
        /\ Done(Reduce, 1)
        /\ sO' = [v \in Warps |-> IF v \notin Drains(w) THEN sO[v]
                                  ELSE IF right THEN t ELSE Broken]
        /\ kv' = IF AliasEpilogue /\ Drains(w) # {}
                 THEN [kv EXCEPT ![1] = Nothing] ELSE kv
        /\ Arrive({EpiFull} \cup
                  (IF HasWork(t) THEN {SpoEmpty(g) : g \in Stage} ELSE {}))
        /\ co' = [co EXCEPT ![w] = [@ EXCEPT !.pc = "tile", !.tile = t + 1,
                                             !.ok = TRUE, !.epi = 1 - me.epi,
                                             !.oacc = IF HasWork(t) THEN 1 - me.oacc ELSE me.oacc]]
        /\ UNCHANGED <<launch, named, sQ, inflight, kScale, sp, o, sScale, oStats,
                       exch, out, tc, ld, mm, sm, ep>>

CorrectionTail(w) ==
    /\ co[w].pc = "tile" /\ co[w].tile \notin Tiles
    /\ Done(EpiEmpty, co[w].epi)
    /\ co' = [co EXCEPT ![w] = [@ EXCEPT !.pc = "done"]]
    /\ UNCHANGED <<launch, bar, named, memory, tc, ld, mm, sm, ep>>

Correction(w) ==
    \/ CorrectionStart(w) \/ CorrectionFirst(w) \/ CorrectionScale(w)
    \/ CorrectionRescale(w) \/ CorrectionSum(w) \/ CorrectionWaitO(w)
    \/ CorrectionEmpty(w) \/ CorrectionStats(w) \/ CorrectionCombine(w)
    \/ CorrectionStore(w) \/ CorrectionTail(w)

-----------------------------------------------------------------------------
(* Epilogue warp.                                                          *)

EpilogueStore ==
    /\ ep.pc = "tile" /\ ep.tile \in Tiles
    /\ Done(EpiFull, ep.epi)
    /\ out' = [out EXCEPT ![ep.tile] = sO]
    /\ Arrive({EpiEmpty})
    /\ ep' = [ep EXCEPT !.pc = "ld", !.epi = 1 - @]
    /\ UNCHANGED <<launch, named, sQ, kv, inflight, kScale, sp, o, sScale, oStats,
                   exch, sO, tc, ld, mm, sm, co>>

EpilogueSignal ==
    /\ ep.pc = "ld"
    /\ IF HasLoadEpi
       THEN /\ Done(LoadEpiEmpty, ep.ld)
            /\ Arrive({LoadEpiFull})
            /\ ep' = [ep EXCEPT !.pc = "tile", !.tile = @ + 1, !.ld = 1 - @]
       ELSE ep' = [ep EXCEPT !.pc = "tile", !.tile = @ + 1] /\ UNCHANGED bar
    /\ UNCHANGED <<launch, named, memory, tc, ld, mm, sm, co>>

Epilogue == EpilogueStore \/ EpilogueSignal

-----------------------------------------------------------------------------

\* Every warp has returned from its role.
Exited ==
    /\ ld.pc = "done" /\ mm.pc = "done" /\ ep.pc = "tile" /\ ep.tile \notin Tiles
    /\ \A w \in Warps : co[w].pc = "done" /\ \A g \in Stage : sm[g][w].pc = "done"

Terminating == Exited /\ tc = <<>> /\ inflight = {} /\ UNCHANGED vars

Next ==
    \/ Load \/ Mma \/ TensorCore \/ Epilogue
    \/ \E c \in inflight : Land(c)
    \/ \E g \in Stage, w \in Warps : Softmax(g, w)
    \/ \E w \in Warps : Correction(w)
    \/ Terminating

Spec == Init /\ [][Next]_vars

\* The hardware does not stop while a warp, a copy or an MMA can go on.  No
\* step repeats, so it need not be fair to each of them.
Fairness == WF_vars(Next)

FairSpec == Spec /\ Fairness

-----------------------------------------------------------------------------
(* Properties                                                              *)

Queued == {tc[i] : i \in DOMAIN tc}
InKvSlot(s) == {c \in inflight : c.to = "KV" /\ c.slot = s}

(* From the moment an MMA is issued until the tensor core has executed it,   *)
(* its operands stay in shared memory: neither a TMA copy nor the epilogue,  *)
(* which in BF16 lies on top of the ring, touches the slots it reads.  The   *)
(* code relies on the order of tcgen05.commit and consumer_release for it.   *)
OperandsHeld ==
    \A op \in Queued \ {x \in Queued : x.do = "none"} :
        /\ InKvSlot(op.slot) = {}
        /\ IF op.do = "QK"
           THEN /\ kv[op.slot].k = "K" /\ kv[op.slot].tile = sQ
                /\ ~\E c \in inflight : c.to = "Q"
           ELSE kv[op.slot].k = "V"

(* The K/V ring is reused for the epilogue's exchange buffer and O tile    *)
(* with no barrier on the ring itself: only pipeline_load_epi keeps the load *)
(* warp, which runs ahead by nature, out of it until the O tile is stored.   *)
EpilogueOwnsRing ==
    (AliasEpilogue /\ \E w \in Warps :
        \/ co[w].pc = "store"
        \/ co[w].tile = ep.tile + 1 /\ ep.pc = "tile")
    => /\ \A s \in Slot : InKvSlot(s) = {}
       /\ \A op \in Queued : op.do = "none"

(* Tensor memory is never used by the tensor core and a warp at once: no     *)
(* QK is queued on a stage whose P some warp has still to write, and no PV   *)
(* on an O stage a correction warp is rescaling or combining.  The combine   *)
(* of an empty tile must keep out of tensor memory altogether, for the MMA   *)
(* warp may be at work on the next tile: all its lanes vote first.           *)
TmemExclusive ==
    \A op \in Queued : \A w \in Warps :
        /\ op.do = "QK" => sm[op.g][w].pc \notin {"scale", "p1", "p2"}
        /\ op.do \in {"PV1", "PV2"} =>
             /\ ~(co[w].pc = "combine" /\ HasWork(co[w].tile))
             /\ co[w].pc = "rescale" => co[w].j % 2 # op.g

(* The one slot per softmax warp carries first scales, then the row sum, and *)
(* the named barrier has no count: a second arrival before the correction    *)
(* warp came would be lost, and a slot rewritten early would be read as the  *)
(* wrong statistic.  So there is at most one signal, and when the correction *)
(* warp meets it the slot holds what that step reads.                        *)
StatsHandedOver ==
    \A g \in Stage, w \in Warps :
        /\ named[g][w] <= 1
        /\ (named[g][w] = 1 /\ co[w].pc = "scale" /\ co[w].j % 2 = g) =>
             sScale[g][w] = [k |-> "scale", tile |-> co[w].tile,
                             n |-> co[w].j \div 2 + 1]
        /\ (named[g][w] = 1 /\ co[w].pc = "sum" /\ co[w].j = g) =>
             sScale[g][w].k = "sum" /\ sScale[g][w].tile = co[w].tile

(* FP8: scores are multiplied by the scales of the very K group they come    *)
(* from.  The scales of a stage go through one plain smem buffer, published  *)
(* by the MMA warp ahead of the QK and with no barrier of its own.           *)
ScalesMatchScores ==
    launch.fp8 => \A g \in Stage, w \in Warps :
        (sm[g][w].pc = "s" /\ Done(SpoFull(g), sm[g][w].s)) =>
            kScale[g] = Tag("scale", sp[g][w].tile, sp[g][w].grp)

(* "There's no dangling mbarrier at the end": when TMEM is freed the tensor  *)
(* core has nothing left that would write it or arrive on an mbarrier, and   *)
(* when the CTA has exited no copy is still on its way into its memory.      *)
NothingDangling ==
    /\ mm.pc = "done" => tc = <<>>
    /\ Exited => inflight = {}

\* Every tile is stored once, in order, with exactly its own contributions.
Contract == INSTANCE TileOutputContract
ImplementsContract == Contract!Spec

(* Every warp leaves its role with all tiles stored: no cycle of waits       *)
(* between the six roles, whatever the mix of empty and non-empty tiles.     *)
EveryTileStored == <>(Exited /\ \A t \in Tiles : out[t] = Contract!Answer(t))
===============================================================================
