--------------------- MODULE Sm100Blk64FwdControlProofs ---------------------
(***************************************************************************)
(* TLAPS proofs about the control of Sm100Blk64Fwd, for every list of      *)
(* tiles, every number of sparse blocks in each of them and every number   *)
(* of warps.  Control is the inductive invariant: how far each role is     *)
(* follows from its registers, the phase of each mbarrier is how often its *)
(* arrivals have been complete, and no role is further ahead of another    *)
(* than its waits allow.                                                   *)
(***************************************************************************)
EXTENDS Sm100Blk64Fwd, FiniteSetTheorems, TLAPS

-----------------------------------------------------------------------------
(* The tiles of a launch l: the steps that each stage takes for the tiles     *)
(* before t, and how many of those tiles have work.  A tile of n groups takes *)
(* n steps, n \div 2 on each stage; step k of a stage is counted over all     *)
(* tiles, and so is item i of the K/V ring.                                   *)

Half(l, t) == (l.work[t] + 7) \div 8
Before(l, t) == UNION {{u} \X (0 .. Half(l, u) - 1) : u \in 1 .. t - 1}
Steps(l, t) == Cardinality(Before(l, t))
Works(l, t) == Cardinality({u \in 1 .. t - 1 : Half(l, u) > 0})

TileAt(l, k) ==
    CHOOSE t \in 1 .. Len(l.work) : Steps(l, t) <= k /\ k < Steps(l, t + 1)

\* What a stage holds of step k, and the K/V group that is item i.
StepTag(l, kind, g, k) ==
    Tag(kind, TileAt(l, k), 2 * Half(l, TileAt(l, k)) - 1 - (2 * (k - Steps(l, TileAt(l, k))) + g))
ItemOf(l, i, t) == LoadItem(2 * Half(l, t), i - 4 * Steps(l, t))
Item(l, i) ==
    Tag(ItemOf(l, i, TileAt(l, i \div 4)).k, TileAt(l, i \div 4), ItemOf(l, i, TileAt(l, i \div 4)).grp)

KvCopy(l, i) == [to |-> "KV", slot |-> IndexOf(i), tag |-> Item(l, i)]
QCopy(t) == [to |-> "Q", slot |-> 0, tag |-> Tag("Q", t, 0)]

-----------------------------------------------------------------------------
(* How far each role is, from its registers; "if" is 1 when c holds.         *)

If(c) == IF c THEN 1 ELSE 0
OnStage(c, g) == (c + 1 - g) \div 2   \* of c alternating between the stages

\* Load warp: K/V items and Q tiles it has started to copy.
KvLoads(d) == d.kv - KvStages
QLoads(l, d) == Works(l, IF d.pc \in {"kv", "epi"} THEN d.tile + 1 ELSE d.tile)

\* MMA warp and tensor core: QKs, first and second parts of PV, releases of Q,
\* and last PVs of a stage.  In tile t: q, u, v, r and x of them.
At(l, t, q, u, v, r, x) ==
    [qk |-> 2 * Steps(l, t) + q, pv1 |-> 2 * Steps(l, t) + u, pv2 |-> 2 * Steps(l, t) + v,
     rel |-> Works(l, t) + r, last |-> 2 * Works(l, t) + x]

Issued(l, m) ==
    LET n == 2 * Half(l, m.tile) IN
    IF m.pc \in {"tile", "done"} THEN At(l, m.tile, 0, 0, 0, 0, 0)
    ELSE IF m.pc = "s" THEN At(l, m.tile, m.j, 0, 0, 0, 0)
    ELSE At(l, m.tile, IF m.j + 2 < n THEN m.j + 2 ELSE n, m.j + If(m.pc \in {"pv", "k"}),
            m.j + If(m.pc = "k"), If(m.j >= n - 2), If(m.j = n - 1))
QTaken(l, m) == Works(l, m.tile) + If(m.pc \notin {"tile", "done"})
\* P it has waited for on stage g, and K scales it has published for it.
PTaken(l, m, g) == OnStage(Issued(l, m).pv1, g) + If(m.pc = "v" /\ g = m.j % 2)
Published(l, m, g) ==
    OnStage(Issued(l, m).qk, g) + If(m.pc = "s" /\ g = m.j)
    + If(m.pc \in {"v", "pv", "k"} /\ m.j < 2 * Half(l, m.tile) - 2 /\ g = m.j % 2)

\* A softmax warp: scores it has read, P it has announced and stored,
\* statistics slots it has acquired and signals it has given.
Stored(l, s) == Steps(l, s.tile) + (IF s.pc \in {"tile", "done"} THEN 0 ELSE s.n)
Reads(l, s) == Stored(l, s) + If(s.pc \in {"scale", "p1", "p2"})
Announced(l, s) == Stored(l, s) + If(s.pc = "p2")
Acquired(l, s) ==
    Steps(l, s.tile) + s.tile - 1
    + (IF s.pc \in {"tile", "done"} THEN 0 ELSE IF s.pc = "s" /\ s.n = 0 THEN 1
       ELSE s.n + If(s.pc \in {"p1", "p2"}))
Signals(l, s) ==
    Steps(l, s.tile) + s.tile - 1
    + (IF s.pc \in {"tile", "done"} THEN 0 ELSE s.n + If(s.pc \in {"p1", "p2"}))

\* A correction warp: the times it has let the MMA warp have O of stage g, met
\* the softmax warp, returned its slot and waited for the last PV.
AfterSteps == {"sum", "oacc", "epi", "combine", "store"}
Lets(l, c, g) ==
    IF c.pc = "start" THEN 0
    ELSE 1 + Steps(l, c.tile)
         + (IF c.pc \in {"scale", "rescale"} THEN OnStage(c.j, g)
            ELSE IF c.pc \in AfterSteps /\ Half(l, c.tile) > 0 THEN Half(l, c.tile) - 1 ELSE 0)
Meets(l, c, g) ==
    Steps(l, c.tile) + c.tile - 1
    + (IF c.pc \in {"start", "tile", "done"} THEN If(c.j > g)
       ELSE IF c.pc = "second" THEN 1 - g
       ELSE IF c.pc \in {"scale", "rescale"}
            THEN 1 + OnStage(c.j + If(c.pc = "rescale"), g)
       ELSE Half(l, c.tile) + If(c.pc # "sum" \/ c.j > g))
Returns(l, c, g) ==
    Steps(l, c.tile) + c.tile - 1
    + (IF c.pc \in {"start", "tile", "done"} THEN If(c.j > g)
       ELSE IF c.pc = "second" THEN 1 - g
       ELSE IF c.pc \in {"scale", "rescale"} THEN (1 - g) + OnStage(c.j, 1 - g)
       ELSE Half(l, c.tile) + If(c.pc # "sum" \/ c.j > g))
Waited(l, c, g) ==
    Works(l, c.tile)
    + If(\/ c.pc = "oacc" /\ c.j > g
         \/ c.pc \in {"epi", "combine", "store"} /\ Half(l, c.tile) > 0)
Reduced(c) == 2 * (c.tile - 1) + If(c.pc \in {"combine", "store"}) + If(c.pc = "store")

\* The epilogue warp.
OStored(e) == e.tile - 1 + If(e.pc = "ld")

-----------------------------------------------------------------------------
(* The tensor core's queue: the operations between P and P2, one by one.     *)

Point == [qk : Nat, pv1 : Nat, pv2 : Nat, rel : Nat, last : Nat]
Slots(P) == P.qk + P.pv2          \* K/V items it is done with

\* The operation after point P, in a tile of n groups, after q, u, v, r and x.
QKOp(P) ==
    Op("QK", P.qk % 2, IndexOf(Slots(P)), FALSE, {SpoFull(P.qk % 2), KvEmpty(IndexOf(Slots(P)))})
InQK(n, q, u, v, r, x) == q < n /\ u = v /\ ((v = 0 /\ q <= 1) \/ q = v + 1) /\ r = 0 /\ x = 0
InRelease(n, q, u, v, r, x) == q = n /\ v = n - 2 /\ u = v /\ r = 0 /\ x = 0
InPV(n, q, v, r, x) ==
    v < n /\ q = (IF v + 2 < n THEN v + 2 ELSE n) /\ r = If(v >= n - 2) /\ x = If(v = n - 1)
InTile(n, q, u, v, r, x) ==
    \/ InQK(n, q, u, v, r, x)
    \/ InRelease(n, q, u, v, r, x)
    \/ InPV(n, q, v, r, x) /\ u \in {v, v + 1}

QKStep(P, op, P2) ==
    /\ op = Op("QK", P.qk % 2, IndexOf(Slots(P)), FALSE,
               {SpoFull(P.qk % 2), KvEmpty(IndexOf(Slots(P)))})
    /\ P2 = [P EXCEPT !.qk = @ + 1]
ReleaseStep(P, op, P2) ==
    op = Op("none", 0, 0, FALSE, {QEmpty}) /\ P2 = [P EXCEPT !.rel = @ + 1]
PV1Step(P, op, P2, first) ==
    op = Op("PV1", P.pv2 % 2, IndexOf(Slots(P)), first, {}) /\ P2 = [P EXCEPT !.pv1 = @ + 1]
PV2Step(P, op, P2, last) ==
    /\ op = Op("PV2", P.pv2 % 2, IndexOf(Slots(P)), FALSE,
               {KvEmpty(IndexOf(Slots(P)))} \cup (IF last THEN {OAcc(P.pv2 % 2)} ELSE {}))
    /\ P2 = [P EXCEPT !.pv2 = @ + 1, !.last = @ + If(last)]

StepIn(l, t, q, u, v, r, x, P, op, P2) ==
    LET n == 2 * Half(l, t) IN
    /\ P = At(l, t, q, u, v, r, x) /\ Half(l, t) > 0
    /\ \/ InQK(n, q, u, v, r, x) /\ QKStep(P, op, P2)
       \/ InRelease(n, q, u, v, r, x) /\ ReleaseStep(P, op, P2)
       \/ InPV(n, q, v, r, x) /\ u = v /\ PV1Step(P, op, P2, v < 2)
       \/ InPV(n, q, v, r, x) /\ u = v + 1 /\ PV2Step(P, op, P2, v >= n - 2)
Step(l, P, op, P2) ==
    \E t \in 1 .. Len(l.work), q, u, v, r, x \in Nat : StepIn(l, t, q, u, v, r, x, P, op, P2)

\* Where the program of the MMA warp can be.
Placed(l, P) ==
    \E t \in 1 .. Len(l.work) + 1, q, u, v, r, x \in Nat :
        /\ P = At(l, t, q, u, v, r, x)
        /\ \/ q = 0 /\ u = 0 /\ v = 0 /\ r = 0 /\ x = 0
           \/ /\ t <= Len(l.work) /\ Half(l, t) > 0
              /\ InTile(2 * Half(l, t), q, u, v, r, x)

Ahead(P, P2) ==
    /\ P.qk <= P2.qk /\ P.pv1 <= P2.pv1 /\ P.pv2 <= P2.pv2
    /\ P.rel <= P2.rel /\ P.last <= P2.last

\* st: the points before, between and after the operations of the queue.
Queue(st) ==
    /\ st \in Seq(Point) /\ Len(st) = Len(tc) + 1
    /\ st[Len(st)] = Issued(launch, mm)
    /\ \A x \in 1 .. Len(tc) : Step(launch, st[x], tc[x], st[x + 1])
    /\ \A x, y \in 1 .. Len(st) : x <= y => Ahead(st[x], st[y])
Operation ==
    [do : {"QK", "PV1", "PV2", "none"}, g : Stage, slot : Slot, first : BOOLEAN,
     arrive : SUBSET BarId]

-----------------------------------------------------------------------------
(* The barriers.                                                           *)

Phases(x, n) == x = [par |-> n % 2, left |-> 1]     \* one arrival each
\* Every member of S arrives once a phase; A[w] is how often w has.
AllOf(x, S, A) ==
    \E p \in Nat :
        /\ x = [par |-> p % 2, left |-> Cardinality({w \in S : A[w] = p})]
        /\ \E w \in S : A[w] = p
        /\ \A w \in S : A[w] \in {p, p + 1}

-----------------------------------------------------------------------------
(* The invariant.                                                           *)

Registers == launch \in Launches /\ DOMAIN bar = BarId /\ tc \in Seq(Operation)

LoadRole ==
    /\ ld \in [pc : {"tile", "kv", "epi", "qtail", "done"}, tile : Nat, j : Nat, kv : Nat,
               q : {0, 1}, epi : {0, 1}]
    /\ ld.tile \in 1 .. Len(launch.work) + 1
    /\ ld.pc \in {"kv", "epi"} => ld.tile <= Len(launch.work)
    /\ ld.pc \in {"qtail", "done"} => ld.tile = Len(launch.work) + 1
    /\ ld.pc = "kv" => ld.j < 4 * Half(launch, ld.tile)
    /\ ld.kv = KvStages + (IF ld.pc = "kv" THEN 4 * Steps(launch, ld.tile) + ld.j
                           ELSE IF ld.pc = "epi" THEN 4 * Steps(launch, ld.tile + 1)
                           ELSE 4 * Steps(launch, ld.tile))
    /\ ld.q = (QLoads(launch, ld) + 1) % 2
    /\ HasLoadEpi => ld.epi = (ld.tile + 1) % 2

MmaRole ==
    /\ mm \in [pc : {"tile", "s", "spo", "v", "pv", "k", "done"}, tile : Nat, j : Nat, kv : Nat,
               q : {0, 1}, v : Nat, spo : [Stage -> {0, 1}]]
    /\ mm.tile \in 1 .. Len(launch.work) + 1
    /\ mm.pc \notin {"tile", "done"} => mm.tile <= Len(launch.work) /\ Half(launch, mm.tile) > 0
    /\ mm.pc = "done" => mm.tile = Len(launch.work) + 1
    /\ mm.pc = "s" => mm.j < 2
    /\ mm.pc \in {"spo", "v", "pv"} => mm.j < 2 * Half(launch, mm.tile)
    /\ mm.pc = "k" => mm.j < 2 * Half(launch, mm.tile) - 2
    /\ mm.kv = Issued(launch, mm).qk + Issued(launch, mm).pv1
    /\ mm.pc = "pv" => mm.v = IndexOf(mm.kv - 1)
    /\ mm.q = QTaken(launch, mm) % 2
    /\ \A g \in Stage :
         mm.spo[g] = (Steps(launch, mm.tile)
                      + (IF mm.pc \in {"tile", "done", "s"} THEN 0
                         ELSE OnStage(IF mm.j < 2 * Half(launch, mm.tile) - 2 THEN mm.j
                                      ELSE 2 * Half(launch, mm.tile) - 2, g))) % 2

\* The K/V ring and the Q tile.  e: the point the tensor core has reached.
Flying(i) == If(i >= 0 /\ KvCopy(launch, i) \in inflight)
QFlying == \E c \in inflight : c.to = "Q"
KvRing(e) ==
    /\ mm.kv <= KvLoads(ld) /\ KvLoads(ld) <= Slots(e) + KvStages
    /\ \A i \in KvLoads(ld) .. KvLoads(ld) + KvStages - 1 :
         Phases(bar[KvFull(IndexOf(i))], (i \div KvStages) - Flying(i - KvStages))
    /\ \A i \in Slots(e) .. Slots(e) + KvStages - 1 :
         Phases(bar[KvEmpty(IndexOf(i))], i \div KvStages)
QTile(e) ==
    /\ QTaken(launch, mm) <= QLoads(launch, ld) /\ QLoads(launch, ld) <= e.rel + 1
    /\ Phases(bar[QFull], QLoads(launch, ld) - If(QFlying))
    /\ Phases(bar[QEmpty], e.rel)
InFlight ==
    \A c \in inflight :
        \/ \E i \in mm.kv .. KvLoads(ld) - 1 : c = KvCopy(launch, i)
        \/ /\ QLoads(launch, ld) > QTaken(launch, mm)
           /\ \E t \in 1 .. Len(launch.work) :
                c = QCopy(t) /\ Half(launch, t) > 0 /\ Works(launch, t) + 1 = QLoads(launch, ld)

\* The tensor core's barriers.
ByTensorCore(e) ==
    \A g \in Stage :
        /\ Phases(bar[SpoFull(g)], OnStage(e.qk, g))
        /\ Phases(bar[OAcc(g)], OnStage(e.last, g))

\* The softmax warps, between the QKs done and the P the MMA warp waits for.
SoftmaxRole(s) ==
    /\ s \in [pc : {"tile", "s", "scale", "p1", "p2", "sum", "done"}, tile : Nat, n : Nat,
              s : {0, 1}, stats : {0, 1}, score : {s.score}]
    /\ s.tile \in 1 .. Len(launch.work) + 1
    /\ s.pc \notin {"tile", "done"} => s.tile <= Len(launch.work) /\ Half(launch, s.tile) > 0
    /\ s.pc = "done" => s.tile = Len(launch.work) + 1
    /\ s.pc \in {"s", "scale", "p1", "p2"} => s.n < Half(launch, s.tile)
    /\ s.pc = "scale" => s.n > 0
    /\ s.pc = "sum" => s.n = Half(launch, s.tile)
    /\ s.s = Stored(launch, s) % 2
    /\ s.stats = (Acquired(launch, s) + 1) % 2

Rows(f, S, T) == f = [x \in S |-> [y \in T |-> f[x][y]]]
Stores(g) == [w \in Warps |-> Stored(launch, sm[g][w])]
Scores2P(e) ==
    /\ Rows(sm, Stage, Warps)
    /\ \A g \in Stage, w \in Warps :
         /\ SoftmaxRole(sm[g][w])
         /\ Reads(launch, sm[g][w]) <= OnStage(e.qk, g)
         /\ OnStage(Issued(launch, mm).pv2, g) <= Stored(launch, sm[g][w])
         /\ PTaken(launch, mm, g) <= Announced(launch, sm[g][w])
    /\ \A g \in Stage : AllOf(bar[LastSplit(g)], Warps, Stores(g))

\* The correction warps.
CorrectionRole(c) ==
    /\ c \in [pc : {"start", "tile", "second", "scale", "rescale", "sum", "oacc", "epi",
                    "combine", "store", "done"}, tile : Nat, j : Nat, oacc : {0, 1},
              epi : {0, 1}, scale : {c.scale}, ok : {c.ok}]
    /\ c.tile \in 1 .. Len(launch.work) + 1
    /\ c.pc \notin {"start", "tile", "done"} => c.tile <= Len(launch.work)
    /\ c.pc \in {"second", "scale", "rescale", "sum", "oacc"} => Half(launch, c.tile) > 0
    /\ c.pc = "start" => c.tile = 1
    /\ c.pc = "done" => c.tile = Len(launch.work) + 1
    /\ c.pc = "tile" => c.j < 2
    /\ (c.pc = "tile" /\ c.tile <= Len(launch.work) /\ Half(launch, c.tile) > 0) => c.j = 0
    /\ (c.pc = "tile" /\ c.tile > Len(launch.work)) => c.j = 0
    /\ c.pc \in {"scale", "rescale"} => c.j < 2 * Half(launch, c.tile) - 2
    /\ c.pc \in {"sum", "oacc"} => c.j < 2
    /\ c.pc \in {"start", "second", "epi", "combine", "store", "done"} => c.j = 0
    /\ c.oacc = Works(launch, c.tile) % 2
    /\ c.epi = c.tile % 2

Corrections ==
    /\ co \in [Warps -> {co[w] : w \in Warps}]
    /\ \A w \in Warps : CorrectionRole(co[w])

Participants == {"softmax", "correction"} \X Warps
Frees(g) ==
    [x \in Participants |->
       IF x[1] = "softmax" THEN Announced(launch, sm[g][x[2]]) ELSE Lets(launch, co[x[2]], g)]
OFree ==
    /\ \A g \in Stage : AllOf(bar[SpoEmpty(g)], Participants, Frees(g))
    /\ \A g \in Stage, w \in Warps : PTaken(launch, mm, g) <= Lets(launch, co[w], g)

Returned(g) == [w \in Warps |-> Returns(launch, co[w], g)]
Statistics ==
    /\ named \in [Stage -> [Warps -> Nat]]
    /\ \A g \in Stage, w \in Warps :
         /\ Signals(launch, sm[g][w]) = Meets(launch, co[w], g) + named[g][w]
         /\ \A v \in Warps : Acquired(launch, sm[g][w]) <= Returns(launch, co[v], g) + 1
    /\ \A g \in Stage : AllOf(bar[StatsEmpty(g)], Warps, Returned(g))

ODone(e) == \A g \in Stage, w \in Warps : Waited(launch, co[w], g) <= OnStage(e.last, g)

TilesStored == [w \in Warps |-> co[w].tile - 1]
Reductions == [w \in Warps |-> Reduced(co[w])]
OTile ==
    /\ ep \in [pc : {"tile", "ld"}, tile : Nat, epi : {0, 1}, ld : {0, 1}]
    /\ ep.tile \in 1 .. Len(launch.work) + 1
    /\ ep.pc = "ld" => ep.tile <= Len(launch.work)
    /\ ep.epi = OStored(ep) % 2
    /\ HasLoadEpi => ep.ld = ep.tile % 2
    /\ \A w \in Warps :
         /\ OStored(ep) <= co[w].tile - 1 /\ co[w].tile - 1 <= OStored(ep) + 1
         /\ co[w].pc \in {"combine", "store", "done"} => OStored(ep) = co[w].tile - 1
    /\ AllOf(bar[EpiFull], Warps, TilesStored)
    /\ AllOf(bar[Reduce], Warps, Reductions)
    /\ Phases(bar[EpiEmpty], OStored(ep))

LoadEpiTurn ==
    HasLoadEpi => /\ ld.tile <= ep.tile /\ ep.tile <= ld.tile + 1
                  /\ Phases(bar[LoadEpiFull], ep.tile - 1)
                  /\ Phases(bar[LoadEpiEmpty], ld.tile - 1)

Control(st) ==
    /\ Registers /\ LoadRole /\ MmaRole /\ Queue(st)
    /\ KvRing(st[1]) /\ QTile(st[1]) /\ InFlight /\ ByTensorCore(st[1])
    /\ Scores2P(st[1]) /\ Corrections /\ OFree /\ Statistics /\ ODone(st[1]) /\ OTile
    /\ LoadEpiTurn

-----------------------------------------------------------------------------
(* What a launch is.                                                        *)

LEMMA Eighths ==
    ASSUME NEW raw \in Nat
    PROVE  /\ (raw + 7) \div 8 \in Nat /\ (raw > 0 <=> (raw + 7) \div 8 > 0)
           /\ Groups(raw) = 2 * ((raw + 7) \div 8)
<1> DEFINE x == (raw + 7) \div 8
<1>1. x \in Nat /\ (raw > 0 <=> x > 0)
  OBVIOUS
<1>2. (x * 8) \div 4 = 2 * x
  BY <1>1
<1> QED BY <1>1, <1>2 DEF Groups

LEMMA LaunchFacts ==
    ASSUME NEW l \in Launches
    PROVE  /\ IsFiniteSet(l.warps) /\ l.warps # {} /\ Len(l.work) \in Nat /\ Len(l.work) > 0
           /\ l.fp8 \in BOOLEAN /\ l.persistent \in BOOLEAN
           /\ ~l.persistent => Len(l.work) = 1
           /\ \A t \in 1 .. Len(l.work) :
                /\ l.work[t] \in Nat /\ Half(l, t) \in Nat /\ (l.work[t] > 0 <=> Half(l, t) > 0)
                /\ Groups(l.work[t]) = 2 * Half(l, t)
<1>1. l.work \in Seq(Nat) /\ Len(l.work) > 0 /\ Len(l.work) \in Nat
  BY LaunchesAssumption
<1>2. \A t \in 1 .. Len(l.work) : l.work[t] \in Nat
  BY <1>1
<1>3. ASSUME NEW t \in 1 .. Len(l.work)
      PROVE  /\ Half(l, t) \in Nat /\ (l.work[t] > 0 <=> Half(l, t) > 0)
             /\ Groups(l.work[t]) = 2 * Half(l, t)
  BY <1>2, Eighths DEF Half
<1> QED BY <1>1, <1>2, <1>3, LaunchesAssumption

\* Steps and tiles with work, counted up to the next tile.
LEMMA BeforeFinite ==
    ASSUME NEW l \in Launches, NEW t \in 1 .. Len(l.work) + 1
    PROVE  IsFiniteSet(Before(l, t))
<1> DEFINE f == [u \in 1 .. t - 1 |-> {u} \X (0 .. Half(l, u) - 1)]
           S == {{u} \X (0 .. Half(l, u) - 1) : u \in 1 .. t - 1}
<1>1. IsFiniteSet(1 .. t - 1)
  BY LaunchFacts, FS_Interval
<1>2. S = {f[u] : u \in 1 .. t - 1}
  OBVIOUS
<1>3. IsFiniteSet(S)
  <2> HIDE DEF S
  <2>1. f \in [1 .. t - 1 -> S]
    BY <1>2
  <2>2. \A y \in S : \E u \in 1 .. t - 1 : f[u] = y
    BY <1>2
  <2>3. f \in Surjection(1 .. t - 1, S)
    BY <2>1, <2>2, <1>2, Zenon DEF Surjection
  <2> HIDE DEF f
  <2> QED BY <2>3, <1>1, FS_Surjection
<1>4. \A x \in S : IsFiniteSet(x)
  <2>1. ASSUME NEW u \in 1 .. t - 1
        PROVE  IsFiniteSet({u} \X (0 .. Half(l, u) - 1))
    <3>1. u \in 1 .. Len(l.work)
      BY LaunchFacts
    <3>3. Half(l, u) \in Nat /\ 0 \in Int /\ Half(l, u) - 1 \in Int
      BY <3>1, LaunchFacts
    <3>4. IsFiniteSet(0 .. Half(l, u) - 1)
      BY <3>3, FS_Interval
    <3>2. IsFiniteSet({u}) /\ IsFiniteSet(0 .. Half(l, u) - 1)
      BY <3>4, FS_Singleton
    <3> QED BY <3>2, FS_Product
  <2> QED BY <2>1
<1>5. IsFiniteSet(UNION S)
  <2> HIDE DEF S
  <2> QED BY <1>3, <1>4, FS_UNION
<1> QED BY <1>5 DEF Before

LEMMA NextTile ==
    ASSUME NEW l \in Launches, NEW t \in 1 .. Len(l.work)
    PROVE  /\ Steps(l, t) \in Nat /\ Steps(l, t + 1) \in Nat
           /\ Steps(l, t + 1) = Steps(l, t) + Half(l, t)
           /\ Works(l, t) \in Nat /\ Works(l, t + 1) \in Nat
           /\ Works(l, t + 1) = Works(l, t) + If(Half(l, t) > 0)
<1> DEFINE new == {t} \X (0 .. Half(l, t) - 1)
           W(u) == {v \in 1 .. u - 1 : Half(l, v) > 0}
<1>1. Len(l.work) \in Nat /\ t + 1 \in 1 .. Len(l.work) + 1 /\ Half(l, t) \in Nat
  BY LaunchFacts
<1>2. IsFiniteSet(Before(l, t)) /\ IsFiniteSet(Before(l, t + 1))
  BY <1>1, BeforeFinite
<1>3. 1 .. (t + 1) - 1 = (1 .. t - 1) \cup {t}
  BY <1>1
<1>4. Before(l, t + 1) = Before(l, t) \cup new
  <2>1. Before(l, t + 1) = UNION {{u} \X (0 .. Half(l, u) - 1) : u \in (1 .. t - 1) \cup {t}}
    BY <1>3 DEF Before
  <2> QED BY <2>1, Zenon DEF Before
<1>5. Before(l, t) \cap new = {}
  BY <1>1 DEF Before
<1>6. IsFiniteSet(new) /\ Cardinality(new) = Half(l, t)
  <2>1. IsFiniteSet({t}) /\ Cardinality({t}) = 1
    BY FS_Singleton
  <2>4. 0 \in Int /\ Half(l, t) - 1 \in Int
    BY <1>1
  <2>5. /\ IsFiniteSet(0 .. Half(l, t) - 1)
        /\ Cardinality(0 .. Half(l, t) - 1)
             = IF 0 > Half(l, t) - 1 THEN 0 ELSE (Half(l, t) - 1) - 0 + 1
    BY <2>4, FS_Interval
  <2>2. IsFiniteSet(0 .. Half(l, t) - 1) /\ Cardinality(0 .. Half(l, t) - 1) = Half(l, t)
    BY <1>1, <2>5
  <2>3. IsFiniteSet(new) /\ Cardinality(new) = Cardinality({t}) * Cardinality(0 .. Half(l, t) - 1)
    BY <2>1, <2>2, FS_Product
  <2> HIDE DEF new
  <2> QED BY <1>1, <2>1, <2>2, <2>3
<1>7. Cardinality(Before(l, t)) \in Nat /\ Cardinality(Before(l, t + 1)) \in Nat
  BY <1>2, FS_CardinalityType
<1>8. Cardinality(Before(l, t + 1)) = Cardinality(Before(l, t)) + Half(l, t)
  <2> HIDE DEF new
  <2>1. Cardinality(Before(l, t) \cup new)
          = Cardinality(Before(l, t)) + Cardinality(new) - Cardinality(Before(l, t) \cap new)
    BY <1>2, <1>6, FS_Union
  <2>2. Cardinality(Before(l, t) \cap new) = 0
    BY <1>5, FS_EmptySet
  <2>3. Cardinality(Before(l, t + 1)) = Cardinality(Before(l, t) \cup new)
    BY <1>4
  <2> QED BY <1>1, <1>6, <1>7, <2>1, <2>2, <2>3
<1>9. IsFiniteSet(W(t)) /\ Cardinality(W(t)) \in Nat
  <2>1. IsFiniteSet(1 .. t - 1)
    BY <1>1, FS_Interval
  <2>2. IsFiniteSet(W(t))
    BY <2>1, FS_Subset
  <2> QED BY <2>2, FS_CardinalityType
<1>10. Cardinality(W(t + 1)) = Cardinality(W(t)) + If(Half(l, t) > 0)
  <2>1. CASE Half(l, t) > 0
    <3>1. W(t + 1) = W(t) \cup {t} /\ t \notin W(t)
      BY <1>1, <1>3, <2>1
    <3> HIDE DEF W
    <3> QED BY <3>1, <1>9, <2>1, FS_AddElement DEF If
  <2>2. CASE ~(Half(l, t) > 0)
    <3>1. W(t + 1) = W(t)
      BY <1>1, <1>3, <2>2
    <3> HIDE DEF W
    <3> QED BY <3>1, <1>9, <2>2 DEF If
  <2> QED BY <2>1, <2>2
<1>11. Cardinality(W(t + 1)) \in Nat
  <2> HIDE DEF W
  <2> QED BY <1>9, <1>10 DEF If
<1> QED BY <1>7, <1>8, <1>9, <1>10, <1>11 DEF Steps, Works

LEMMA FirstTile ==
    ASSUME NEW l \in Launches
    PROVE  Steps(l, 1) = 0 /\ Works(l, 1) = 0
<1>1. 1 .. 1 - 1 = {}
  OBVIOUS
<1>2. Before(l, 1) = {} /\ {u \in 1 .. 1 - 1 : Half(l, u) > 0} = {}
  BY <1>1 DEF Before
<1> QED BY <1>2, FS_EmptySet DEF Steps, Works

LEMMA TileCounts ==
    ASSUME NEW l \in Launches, NEW t \in 1 .. Len(l.work) + 1
    PROVE  Steps(l, t) \in Nat /\ Works(l, t) \in Nat
<1>1. Len(l.work) \in Nat /\ Len(l.work) > 0
  BY LaunchFacts
<1>2. CASE t = Len(l.work) + 1
  BY <1>1, <1>2, NextTile
<1>3. CASE t # Len(l.work) + 1
  BY <1>1, <1>3, NextTile
<1> QED BY <1>2, <1>3

LEMMA Later ==
    ASSUME NEW l \in Launches, NEW t \in 1 .. Len(l.work) + 1, NEW u \in 1 .. Len(l.work) + 1, t <= u
    PROVE  Steps(l, t) <= Steps(l, u) /\ Works(l, t) <= Works(l, u)
<1>1. 1 .. t - 1 \subseteq 1 .. u - 1
  BY LaunchFacts
<1>2. Before(l, t) \subseteq Before(l, u)
  BY <1>1 DEF Before
<1>3. IsFiniteSet(1 .. u - 1)
  BY LaunchFacts, FS_Interval
<1> DEFINE W(x) == {v \in 1 .. x - 1 : Half(l, v) > 0}
<1>4. W(t) \subseteq W(u) /\ IsFiniteSet(W(u))
  <2>1. W(u) \subseteq 1 .. u - 1
    OBVIOUS
  <2>2. IsFiniteSet(W(u))
    BY <1>3, <2>1, FS_Subset
  <2> QED BY <1>1, <2>2
<1>5. Cardinality(Before(l, t)) <= Cardinality(Before(l, u))
  BY <1>2, BeforeFinite, FS_Subset
<1>6. Cardinality(W(t)) <= Cardinality(W(u))
  <2> HIDE DEF W
  <2> QED BY <1>4, FS_Subset
<1> QED BY <1>5, <1>6 DEF Steps, Works

\* A later tile, with everything of this one before it.
LEMMA Past ==
    ASSUME NEW l \in Launches, NEW t \in 1 .. Len(l.work), NEW u \in 1 .. Len(l.work) + 1, t < u
    PROVE  /\ Steps(l, t) + Half(l, t) <= Steps(l, u)
           /\ Works(l, t) + If(Half(l, t) > 0) <= Works(l, u)
<1>1. t + 1 \in 1 .. Len(l.work) + 1 /\ t + 1 <= u
  BY LaunchFacts
<1> QED BY <1>1, Later, NextTile

LEMMA TileIs ==
    ASSUME NEW l \in Launches, NEW t \in 1 .. Len(l.work), NEW k \in Nat,
           Steps(l, t) <= k, k < Steps(l, t) + Half(l, t)
    PROVE  TileAt(l, k) = t
<1>1. Steps(l, t) \in Nat /\ Half(l, t) \in Nat
  BY LaunchFacts, NextTile
<1>2. Steps(l, t) <= k /\ k < Steps(l, t + 1)
  BY NextTile
<1>3. ASSUME NEW u \in 1 .. Len(l.work), Steps(l, u) <= k, k < Steps(l, u + 1)
      PROVE  u = t
  <2>1. Steps(l, u) \in Nat /\ Steps(l, u + 1) = Steps(l, u) + Half(l, u) /\ Half(l, u) \in Nat
    BY NextTile, LaunchFacts
  <2>2. t \in 1 .. Len(l.work) + 1 /\ u \in 1 .. Len(l.work) + 1 /\ Len(l.work) \in Nat
    BY LaunchFacts
  <2>3. ~(t < u)
    BY <1>1, <1>3, <2>1, <2>2, Past
  <2>4. ~(u < t)
    BY <1>1, <1>3, <2>1, <2>2, Past
  <2> QED BY <2>2, <2>3, <2>4
<1> QED BY <1>2, <1>3 DEF TileAt

\* A tile with work is known by the number of those before it.
LEMMA WorkIs ==
    ASSUME NEW l \in Launches, NEW t \in 1 .. Len(l.work), NEW u \in 1 .. Len(l.work),
           Half(l, t) > 0, Half(l, u) > 0, Works(l, t) = Works(l, u)
    PROVE  t = u
<1>1. t \in 1 .. Len(l.work) + 1 /\ u \in 1 .. Len(l.work) + 1 /\ Len(l.work) \in Nat
  BY LaunchFacts
<1>2. Works(l, t) \in Nat
  BY NextTile
<1>3. ~(t < u) /\ ~(u < t)
  BY <1>1, <1>2, Past DEF If
<1> QED BY <1>1, <1>3

-----------------------------------------------------------------------------
(* Barriers.                                                               *)

LEMMA Parity ==
    ASSUME NEW n \in Nat
    PROVE  /\ n % 2 \in {0, 1} /\ (n + 1) % 2 = 1 - (n % 2) /\ (n + 2) % 2 = n % 2
           /\ n \div 2 \in Nat /\ (n + 2) \div 2 = (n \div 2) + 1
  OBVIOUS

\* The barriers by name, and the arrivals that a phase of them takes.
LEMMA BarNames ==
    /\ QFull \in BarId /\ QFull[1] = "q_full" /\ Expected(QFull) = 1
    /\ QEmpty \in BarId /\ QEmpty[1] = "q_empty" /\ Expected(QEmpty) = 1
    /\ \A s \in Slot : KvFull(s) \in BarId /\ KvFull(s)[1] = "kv_full" /\ Expected(KvFull(s)) = 1
    /\ \A s \in Slot : KvEmpty(s) \in BarId /\ KvEmpty(s)[1] = "kv_empty" /\ Expected(KvEmpty(s)) = 1
    /\ \A g \in Stage : SpoFull(g) \in BarId /\ SpoFull(g)[1] = "spo_full" /\ Expected(SpoFull(g)) = 1
    /\ \A g \in Stage : OAcc(g) \in BarId /\ OAcc(g)[1] = "o_acc" /\ Expected(OAcc(g)) = 1
    /\ EpiEmpty \in BarId /\ EpiEmpty[1] = "epi_empty" /\ Expected(EpiEmpty) = 1
    /\ LoadEpiFull \in BarId /\ LoadEpiFull[1] = "load_epi_full" /\ Expected(LoadEpiFull) = 1
    /\ LoadEpiEmpty \in BarId /\ LoadEpiEmpty[1] = "load_epi_empty" /\ Expected(LoadEpiEmpty) = 1
  BY DEF BarId, QFull, QEmpty, KvFull, KvEmpty, SpoFull, OAcc, EpiEmpty, LoadEpiFull,
         LoadEpiEmpty, Expected

LEMMA WarpBarNames ==
    /\ \A g \in Stage : /\ SpoEmpty(g) \in BarId /\ SpoEmpty(g)[1] = "spo_empty"
                        /\ Expected(SpoEmpty(g)) = 2 * Cardinality(Warps)
    /\ \A g \in Stage : /\ LastSplit(g) \in BarId /\ LastSplit(g)[1] = "p_lastsplit"
                        /\ Expected(LastSplit(g)) = Cardinality(Warps)
    /\ \A g \in Stage : /\ StatsEmpty(g) \in BarId /\ StatsEmpty(g)[1] = "sm_stats"
                        /\ Expected(StatsEmpty(g)) = Cardinality(Warps)
    /\ EpiFull \in BarId /\ EpiFull[1] = "epi_full" /\ Expected(EpiFull) = Cardinality(Warps)
    /\ Reduce \in BarId /\ Reduce[1] = "reduce" /\ Expected(Reduce) = Cardinality(Warps)
  BY DEF BarId, SpoEmpty, LastSplit, StatsEmpty, EpiFull, Reduce, Expected

\* Barriers of two stages or slots are two barriers.
LEMMA BarDiffer ==
    /\ \A s, t : s # t => KvFull(s) # KvFull(t) /\ KvEmpty(s) # KvEmpty(t) /\ SpoFull(s) # SpoFull(t)
                          /\ OAcc(s) # OAcc(t) /\ SpoEmpty(s) # SpoEmpty(t)
                          /\ LastSplit(s) # LastSplit(t) /\ StatsEmpty(s) # StatsEmpty(t)
  BY DEF KvFull, KvEmpty, SpoFull, OAcc, SpoEmpty, LastSplit, StatsEmpty

\* One arrival at each of a set of barriers.
Arrived(b) ==
    IF bar[b].left = 1 THEN [par |-> 1 - bar[b].par, left |-> Expected(b)]
    ELSE [bar[b] EXCEPT !.left = @ - 1]
LEMMA ArriveEffect ==
    ASSUME NEW bars, Arrive(bars)
    PROVE  /\ DOMAIN bar' = BarId
           /\ \A b \in BarId : b \in bars => bar'[b] = Arrived(b)
           /\ \A b \in BarId : b \notin bars => bar'[b] = bar[b]
  BY DEF Arrive, Arrived

\* The barriers with these names are as they were.
Still(names) == \A b \in BarId : b[1] \in names => bar'[b] = bar[b]

LEMMA StillSame ==
    ASSUME bar' = bar, DOMAIN bar = BarId
    PROVE  DOMAIN bar' = BarId /\ \A names : Still(names)
  BY DEF Still

LEMMA StillArrive ==
    ASSUME NEW bars, Arrive(bars), NEW names, \A b \in bars : b[1] \notin names
    PROVE  Still(names)
  BY ArriveEffect DEF Still

LEMMA PhaseArrive ==
    ASSUME NEW b, NEW n \in Nat, Phases(bar[b], n), Expected(b) = 1
    PROVE  Phases(Arrived(b), n + 1)
<1>1. bar[b].left = 1 /\ bar[b].par = n % 2
  BY DEF Phases
<1>2. Arrived(b) = [par |-> 1 - (n % 2), left |-> 1]
  BY <1>1 DEF Arrived
<1> QED BY <1>2, Parity DEF Phases

\* Who waits for phase q to end, and has.
LEMMA PhaseWait ==
    ASSUME NEW b, NEW n \in Int, NEW q \in Nat, Phases(bar[b], n), Done(b, q % 2),
           n = q \/ n = q + 1
    PROVE  n = q + 1
  BY DEF Phases, Done

LEMMA PhaseFree ==
    ASSUME NEW b, NEW n \in Int, NEW q \in Nat, Phases(bar[b], n), Done(b, (q + 1) % 2),
           n = q \/ n = q - 1
    PROVE  n = q
<1>1. CASE n = q - 1
  <2>1. (q + 1) % 2 = n % 2
    BY <1>1
  <2> QED BY <1>1, <2>1 DEF Phases, Done
<1> QED BY <1>1

\* A warp w of S arrives that no other is behind of.
LEMMA AllArrive ==
    ASSUME NEW b, NEW S, IsFiniteSet(S), NEW A, NEW B, NEW w \in S,
           \A v \in S : A[v] \in Nat, B[w] = A[w] + 1, \A v \in S : v # w => B[v] = A[v],
           \A v \in S : A[v] >= A[w],
           AllOf(bar[b], S, A), Expected(b) = Cardinality(S)
    PROVE  AllOf(Arrived(b), S, B)
<1>1. PICK p \in Nat :
        /\ bar[b] = [par |-> p % 2, left |-> Cardinality({v \in S : A[v] = p})]
        /\ \E v \in S : A[v] = p
        /\ \A v \in S : A[v] \in {p, p + 1}
  BY DEF AllOf
<1>2. A[w] = p /\ B[w] = p + 1
  BY <1>1
<1> DEFINE T == {v \in S : A[v] = p}
           U == {v \in S : B[v] = p}
<1>3. U = T \ {w} /\ w \in T
  BY <1>2
<1>4. IsFiniteSet(T) /\ IsFiniteSet(U)
  BY FS_Subset
<1>5. /\ Cardinality(T) \in Nat /\ Cardinality(U) \in Nat /\ Cardinality(T) - 1 = Cardinality(U)
      /\ (Cardinality(U) = 0 <=> U = {})
  <2> HIDE DEF T, U
  <2>1. Cardinality(T) \in Nat /\ Cardinality(U) \in Nat
    BY <1>4, FS_CardinalityType
  <2>2. Cardinality(T \ {w}) = Cardinality(T) - 1
    BY <1>3, <1>4, FS_RemoveElement
  <2>3. Cardinality(U) = 0 <=> U = {}
    BY <1>4, FS_EmptySet
  <2> QED BY <1>3, <2>1, <2>2, <2>3
<1>6. [bar[b] EXCEPT !.left = @ - 1] = [par |-> p % 2, left |-> Cardinality(U)]
  BY <1>1, <1>5
<1>7. \A v \in S : B[v] \in {p, p + 1}
  BY <1>1, <1>2
<1>8. CASE U # {}
  <2>1. bar[b].left # 1
    BY <1>1, <1>5, <1>8
  <2>2. Arrived(b) = [par |-> p % 2, left |-> Cardinality(U)]
    BY <1>6, <2>1 DEF Arrived
  <2>3. \E v \in S : B[v] = p
    BY <1>8
  <2> QED BY <1>7, <2>2, <2>3 DEF AllOf
<1>9. CASE U = {}
  <2>1. \A v \in S : B[v] = p + 1
    BY <1>7, <1>9
  <2>2. S = {v \in S : B[v] = p + 1}
    BY <2>1
  <2>3. bar[b].left = 1 /\ bar[b].par = p % 2
    BY <1>1, <1>5, <1>9
  <2>4. Arrived(b) = [par |-> 1 - (p % 2), left |-> Cardinality(S)]
    BY <2>3 DEF Arrived
  <2>5. Arrived(b) = [par |-> (p + 1) % 2, left |-> Cardinality({v \in S : B[v] = p + 1})]
    BY <2>2, <2>4, Parity
  <2>6. \A v \in S : B[v] \in {p + 1, (p + 1) + 1}
    BY <2>1
  <2>7. \E v \in S : B[v] = p + 1
    BY <2>1
  <2>8. p + 1 \in Nat
    OBVIOUS
  <2> HIDE DEF T, U
  <2> QED BY <2>5, <2>6, <2>7, <2>8 DEF AllOf
<1> QED BY <1>8, <1>9

\* The same members with the same arrivals.
LEMMA AllSame ==
    ASSUME NEW x, NEW S, NEW A, NEW B, \A v \in S : B[v] = A[v], AllOf(x, S, A)
    PROVE  AllOf(x, S, B)
<1>1. \A p : {v \in S : A[v] = p} = {v \in S : B[v] = p}
  OBVIOUS
<1> QED BY <1>1 DEF AllOf

LEMMA AllWait ==
    ASSUME NEW b, NEW S, NEW A, NEW q \in Nat, AllOf(bar[b], S, A), Done(b, q % 2),
           \A w \in S : A[w] \in Int /\ A[w] >= q, \E w \in S : A[w] <= q + 1
    PROVE  \A w \in S : A[w] >= q + 1
<1>1. PICK p \in Nat : /\ bar[b].par = p % 2
                       /\ \E v \in S : A[v] = p
                       /\ \A v \in S : A[v] \in {p, p + 1}
  BY DEF AllOf
<1>2. p = q \/ p = q + 1
  BY <1>1
<1>3. p # q
  BY <1>1 DEF Done
<1> QED BY <1>1, <1>2, <1>3

LEMMA AllFree ==
    ASSUME NEW b, NEW S, NEW A, NEW q \in Nat, AllOf(bar[b], S, A), Done(b, (q + 1) % 2),
           \A w \in S : A[w] \in Int /\ A[w] >= q - 1, \E w \in S : A[w] <= q
    PROVE  \A w \in S : A[w] >= q
<1>1. PICK p \in Nat : /\ bar[b].par = p % 2
                       /\ \E v \in S : A[v] = p
                       /\ \A v \in S : A[v] \in {p, p + 1}
  BY DEF AllOf
<1>2. p = q \/ p = q - 1
  BY <1>1
<1>3. CASE p = q - 1
  <2>1. (q + 1) % 2 = p % 2
    BY <1>3
  <2> QED BY <1>1, <2>1 DEF Done
<1>4. CASE p = q
  BY <1>1, <1>4
<1> QED BY <1>2, <1>3, <1>4

\* Every member's arrivals are within one of another's.
LEMMA AllNear ==
    ASSUME NEW x, NEW S, NEW A, AllOf(x, S, A), NEW v \in S, NEW w \in S
    PROVE  A[v] \in Nat /\ A[w] <= A[v] + 1
  BY DEF AllOf

\* A step that arrives at these barriers only.
Moves(bars) ==
    /\ DOMAIN bar' = BarId
    /\ \A b \in BarId : bar'[b] = IF b \in bars THEN Arrived(b) ELSE bar[b]

LEMMA MovesArrive ==
    ASSUME NEW bars, Arrive(bars)
    PROVE  Moves(bars)
  BY ArriveEffect DEF Moves

LEMMA MovesNone ==
    ASSUME Registers, bar' = bar
    PROVE  Moves({})
  BY DEF Registers, Moves

LEMMA MovesStill ==
    ASSUME NEW bars, Moves(bars), NEW names, \A b \in bars : b[1] \notin names
    PROVE  Still(names)
  BY DEF Moves, Still

\* One of those a barrier expects arrives, or none.
LEMMA AllStep ==
    ASSUME NEW b \in BarId, NEW bars, Moves(bars), NEW S, IsFiniteSet(S), NEW A, NEW B, NEW w \in S,
           Expected(b) = Cardinality(S), AllOf(bar[b], S, A), \A v \in S : v # w => B[v] = A[v],
           \/ b \in bars /\ B[w] = A[w] + 1 /\ \A v \in S : A[v] >= A[w]
           \/ b \notin bars /\ B[w] = A[w]
    PROVE  AllOf(bar'[b], S, B)
<1>1. \A v \in S : A[v] \in Nat
  BY AllNear
<1>2. CASE b \in bars /\ B[w] = A[w] + 1 /\ \A v \in S : A[v] >= A[w]
  <2>1. AllOf(Arrived(b), S, B)
    BY <1>1, <1>2, AllArrive
  <2> QED BY <1>2, <2>1 DEF Moves
<1>3. CASE b \notin bars /\ B[w] = A[w]
  <2>1. AllOf(bar[b], S, B)
    BY <1>3, AllSame
  <2> QED BY <1>3, <2>1 DEF Moves
<1> QED BY <1>2, <1>3

-----------------------------------------------------------------------------
(* Points of the program.                                                   *)

LEMMA Alternate ==
    ASSUME NEW g \in Stage, NEW c \in Nat
    PROVE  /\ OnStage(c, g) \in Nat
           /\ OnStage(c + 1, g) = OnStage(c, g) + If(g = c % 2)
           /\ OnStage(c, g) <= OnStage(c + 1, g) /\ OnStage(c + 2, g) = OnStage(c, g) + 1
  BY DEF OnStage, If, Stage

LEMMA AlternateFrom ==
    ASSUME NEW g \in Stage, NEW a \in Nat, NEW c \in Nat, NEW d, d = 2 * a + c
    PROVE  OnStage(d, g) = a + OnStage(c, g)
  BY DEF OnStage, Stage

LEMMA AlternateKeeps ==
    ASSUME NEW g \in Stage, NEW c \in Nat, NEW d \in Nat, c <= d
    PROVE  OnStage(c, g) <= OnStage(d, g)
  BY DEF OnStage, Stage

LEMMA PlacedAt ==
    ASSUME NEW l \in Launches, NEW t \in 1 .. Len(l.work), Half(l, t) > 0,
           NEW q \in Nat, NEW u \in Nat, NEW v \in Nat, NEW r \in Nat, NEW x \in Nat,
           InTile(2 * Half(l, t), q, u, v, r, x)
    PROVE  Placed(l, At(l, t, q, u, v, r, x))
<1>1. t \in 1 .. Len(l.work) + 1 /\ t <= Len(l.work)
  BY LaunchFacts
<1> QED BY <1>1 DEF Placed

LEMMA PlacedFacts ==
    ASSUME NEW l \in Launches, NEW P, Placed(l, P)
    PROVE  /\ P \in Point /\ P.qk <= P.pv2 + 2 /\ P.pv2 <= P.pv1 /\ P.pv1 <= P.pv2 + 1
           /\ P.pv1 <= P.qk /\ Slots(P) \in Nat
<1>1. PICK t \in 1 .. Len(l.work) + 1, q \in Nat, u \in Nat, v \in Nat, r \in Nat, x \in Nat :
        /\ P = At(l, t, q, u, v, r, x)
        /\ \/ q = 0 /\ u = 0 /\ v = 0 /\ r = 0 /\ x = 0
           \/ /\ t <= Len(l.work) /\ Half(l, t) > 0
              /\ InTile(2 * Half(l, t), q, u, v, r, x)
  BY DEF Placed
<1>2. Steps(l, t) \in Nat /\ Works(l, t) \in Nat
  BY TileCounts
<1>3. q <= v + 2 /\ v <= u /\ u <= v + 1 /\ u <= q
  <2>1. CASE q = 0 /\ u = 0 /\ v = 0 /\ r = 0 /\ x = 0
    BY <2>1
  <2>2. CASE t <= Len(l.work) /\ Half(l, t) > 0 /\ InTile(2 * Half(l, t), q, u, v, r, x)
    <3>1. Half(l, t) \in Nat /\ Half(l, t) > 0
      BY <2>2, LaunchFacts
    <3> QED BY <2>2, <3>1 DEF InTile, InQK, InRelease, InPV
  <2> QED BY <1>1, <2>1, <2>2
<1>4. /\ P = [qk |-> 2 * Steps(l, t) + q, pv1 |-> 2 * Steps(l, t) + u, pv2 |-> 2 * Steps(l, t) + v,
              rel |-> Works(l, t) + r, last |-> 2 * Works(l, t) + x]
  BY <1>1 DEF At
<1>5. P \in Point
  <2>1. /\ 2 * Steps(l, t) + q \in Nat /\ 2 * Steps(l, t) + u \in Nat /\ 2 * Steps(l, t) + v \in Nat
    BY <1>2
  <2>2. Works(l, t) + r \in Nat
    BY <1>2
  <2>3. 2 * Works(l, t) + x \in Nat
    BY <1>2
  <2> QED BY <1>4, <2>1, <2>2, <2>3 DEF Point
<1>6. /\ P.qk = 2 * Steps(l, t) + q /\ P.pv1 = 2 * Steps(l, t) + u /\ P.pv2 = 2 * Steps(l, t) + v
  BY <1>4
<1> QED BY <1>2, <1>3, <1>5, <1>6 DEF Slots

LEMMA StepPlaced ==
    ASSUME NEW l \in Launches, NEW P, NEW op, NEW P2, Step(l, P, op, P2)
    PROVE  Placed(l, P)
<1>1. PICK t \in 1 .. Len(l.work), q \in Nat, u \in Nat, v \in Nat, r \in Nat, x \in Nat :
        StepIn(l, t, q, u, v, r, x, P, op, P2)
  BY DEF Step
<1>2. InTile(2 * Half(l, t), q, u, v, r, x)
  BY <1>1 DEF StepIn, InTile
<1>3. P = At(l, t, q, u, v, r, x) /\ Half(l, t) > 0
  BY <1>1 DEF StepIn
<1> QED BY <1>2, <1>3, PlacedAt

\* No steps between two tiles, no work between them.
LEMMA NoWorkBetween ==
    ASSUME NEW l \in Launches, NEW t \in 1 .. Len(l.work) + 1, NEW u \in 1 .. Len(l.work) + 1,
           t <= u, Steps(l, t) = Steps(l, u)
    PROVE  Works(l, t) = Works(l, u)
<1> DEFINE W(x) == {v \in 1 .. x - 1 : Half(l, v) > 0}
<1>1. Before(l, t) \subseteq Before(l, u)
  <2>1. 1 .. t - 1 \subseteq 1 .. u - 1
    BY LaunchFacts
  <2> QED BY <2>1 DEF Before
<1>2. Before(l, t) = Before(l, u)
  <2>1. IsFiniteSet(Before(l, u)) /\ Cardinality(Before(l, t)) = Cardinality(Before(l, u))
    BY BeforeFinite DEF Steps
  <2> QED BY <1>1, <2>1, FS_Subset
<1>3. W(t) = W(u)
  <2>1. ASSUME NEW v \in W(u)
        PROVE  v \in W(t)
    <3>1. v \in 1 .. u - 1 /\ v \in 1 .. Len(l.work) /\ Half(l, v) > 0 /\ Half(l, v) \in Nat
      BY <2>1, LaunchFacts
    <3>2. <<v, 0>> \in {v} \X (0 .. Half(l, v) - 1)
      BY <3>1
    <3>3. <<v, 0>> \in Before(l, t)
      BY <1>2, <3>1, <3>2 DEF Before
    <3>4. PICK y \in 1 .. t - 1 : <<v, 0>> \in {y} \X (0 .. Half(l, y) - 1)
      BY <3>3 DEF Before
    <3> QED BY <3>1, <3>4
  <2>2. W(t) \subseteq W(u)
    BY LaunchFacts
  <2> QED BY <2>1, <2>2
<1> QED BY <1>3 DEF Works

\* The last PVs of a tile on a stage, and all of its PVs there.
LEMMA LastMeansAll ==
    ASSUME NEW l \in Launches, NEW P, Placed(l, P), NEW g \in Stage, NEW t \in 1 .. Len(l.work),
           Half(l, t) > 0, OnStage(P.last, g) >= Works(l, t) + 1
    PROVE  OnStage(P.pv2, g) >= Steps(l, t) + Half(l, t)
<1>1. PICK y \in 1 .. Len(l.work) + 1, q \in Nat, u \in Nat, v \in Nat, r \in Nat, x \in Nat :
        /\ P = At(l, y, q, u, v, r, x)
        /\ \/ q = 0 /\ u = 0 /\ v = 0 /\ r = 0 /\ x = 0
           \/ /\ y <= Len(l.work) /\ Half(l, y) > 0
              /\ InTile(2 * Half(l, y), q, u, v, r, x)
  BY DEF Placed
<1>2. /\ Steps(l, y) \in Nat /\ Works(l, y) \in Nat /\ Steps(l, t) \in Nat /\ Works(l, t) \in Nat
      /\ Half(l, t) \in Nat
  <2>1. Len(l.work) \in Nat
    BY LaunchFacts
  <2> QED BY <2>1, TileCounts, NextTile, LaunchFacts
<1>3. P.last = 2 * Works(l, y) + x /\ P.pv2 = 2 * Steps(l, y) + v
  BY <1>1 DEF At
<1>4. OnStage(P.last, g) = Works(l, y) + OnStage(x, g) /\ OnStage(P.pv2, g) = Steps(l, y) + OnStage(v, g)
  <2>1. \A a, c \in Nat : OnStage(2 * a + c, g) = a + OnStage(c, g)
    BY AlternateFrom
  <2>2. /\ OnStage(2 * Works(l, y) + x, g) = Works(l, y) + OnStage(x, g)
        /\ OnStage(2 * Steps(l, y) + v, g) = Steps(l, y) + OnStage(v, g)
    BY <1>2, <2>1
  <2> QED BY <1>3, <2>2
<1>5. OnStage(x, g) \in Nat /\ OnStage(v, g) \in Nat
  BY Alternate
<1>6. x = 0 \/ (x = 1 /\ y <= Len(l.work) /\ Half(l, y) > 0 /\ v = 2 * Half(l, y) - 1)
  BY <1>1 DEF InTile, InQK, InRelease, InPV, If
<1>7. OnStage(0, g) = 0 /\ OnStage(1, g) <= 1
  BY DEF OnStage, Stage
<1>8. CASE t < y
  <2>1. Steps(l, t) + Half(l, t) <= Steps(l, y)
    BY <1>8, Past
  <2> QED BY <1>2, <1>4, <1>5, <2>1
<1>9. CASE y < t
  <2>1. y \in 1 .. Len(l.work) /\ t \in 1 .. Len(l.work) + 1
    BY <1>9, LaunchFacts
  <2>2. Works(l, y) + If(Half(l, y) > 0) <= Works(l, t)
    BY <1>9, <2>1, Past
  <2>3. Works(l, y) + OnStage(x, g) <= Works(l, t)
    BY <1>2, <1>5, <1>6, <1>7, <2>2 DEF If
  <2> QED BY <1>2, <1>4, <1>5, <2>3
<1>10. CASE y = t
  <2>1. OnStage(x, g) >= 1
    BY <1>2, <1>4, <1>5, <1>10
  <2>2. x = 1 /\ v = 2 * Half(l, t) - 1
    BY <1>6, <1>7, <1>10, <2>1
  <2>3. g = 0
    BY <2>1, <2>2 DEF OnStage, Stage
  <2>4. OnStage(v, g) = Half(l, t)
    BY <1>2, <2>2, <2>3 DEF OnStage
  <2> QED BY <1>2, <1>4, <1>10, <2>4
<1>11. Len(l.work) \in Nat
  BY LaunchFacts
<1> QED BY <1>8, <1>9, <1>10, <1>11

LEMMA AllBeforeLast ==
    ASSUME NEW l \in Launches, NEW P, Placed(l, P), NEW g \in Stage, NEW t \in 1 .. Len(l.work) + 1,
           OnStage(P.pv2, g) <= Steps(l, t)
    PROVE  OnStage(P.last, g) <= Works(l, t)
<1>1. PICK y \in 1 .. Len(l.work) + 1, q \in Nat, u \in Nat, v \in Nat, r \in Nat, x \in Nat :
        /\ P = At(l, y, q, u, v, r, x)
        /\ \/ q = 0 /\ u = 0 /\ v = 0 /\ r = 0 /\ x = 0
           \/ /\ y <= Len(l.work) /\ Half(l, y) > 0
              /\ InTile(2 * Half(l, y), q, u, v, r, x)
  BY DEF Placed
<1>2. Steps(l, y) \in Nat /\ Works(l, y) \in Nat /\ Steps(l, t) \in Nat /\ Works(l, t) \in Nat
  BY TileCounts
<1>3. P.last = 2 * Works(l, y) + x /\ P.pv2 = 2 * Steps(l, y) + v
  BY <1>1 DEF At
<1>4. OnStage(P.last, g) = Works(l, y) + OnStage(x, g) /\ OnStage(P.pv2, g) = Steps(l, y) + OnStage(v, g)
  <2>1. \A a, c \in Nat : OnStage(2 * a + c, g) = a + OnStage(c, g)
    BY AlternateFrom
  <2>2. /\ OnStage(2 * Works(l, y) + x, g) = Works(l, y) + OnStage(x, g)
        /\ OnStage(2 * Steps(l, y) + v, g) = Steps(l, y) + OnStage(v, g)
    BY <1>2, <2>1
  <2> QED BY <1>3, <2>2
<1>5. OnStage(x, g) \in Nat /\ OnStage(v, g) \in Nat
  BY Alternate
<1>6. x = 0 \/ (x = 1 /\ y <= Len(l.work) /\ Half(l, y) > 0 /\ v = 2 * Half(l, y) - 1)
  BY <1>1 DEF InTile, InQK, InRelease, InPV, If
<1>7. OnStage(0, g) = 0 /\ OnStage(1, g) <= 1
  BY DEF OnStage, Stage
<1>8. Len(l.work) \in Nat
  BY LaunchFacts
<1>9. CASE y < t
  <2>1. y \in 1 .. Len(l.work) /\ Works(l, y) + If(Half(l, y) > 0) <= Works(l, t)
    BY <1>8, <1>9, Past
  <2>2. Works(l, y) + OnStage(x, g) <= Works(l, t)
    BY <1>2, <1>5, <1>6, <1>7, <2>1 DEF If
  <2> QED BY <1>2, <1>4, <1>5, <2>2
<1>10. CASE t <= y
  <2>1. Steps(l, t) <= Steps(l, y)
    BY <1>10, Later
  <2>2. Steps(l, t) = Steps(l, y) /\ OnStage(v, g) = 0
    BY <1>2, <1>4, <1>5, <2>1
  <2>3. Works(l, t) = Works(l, y)
    BY <1>10, <2>2, NoWorkBetween
  <2>4. OnStage(x, g) = 0
    <3>1. CASE x = 0
      BY <1>7, <3>1
    <3>2. CASE x = 1 /\ g = 1
      BY <3>2 DEF OnStage
    <3>3. CASE x = 1 /\ g = 0
      <4>1. v \in Nat /\ v >= 1
        BY <1>6, <3>3, LaunchFacts
      <4>2. OnStage(1, g) <= OnStage(v, g)
        BY <4>1, AlternateKeeps
      <4>3. OnStage(1, g) = 1
        BY <3>3 DEF OnStage
      <4> QED BY <1>5, <2>2, <4>2, <4>3
    <3> QED BY <1>6, <3>1, <3>2, <3>3 DEF Stage
  <2>5. OnStage(P.last, g) = Works(l, t)
    BY <1>2, <1>4, <2>3, <2>4
  <2> QED BY <1>2, <2>5
<1> QED BY <1>8, <1>9, <1>10

\* The program ends when its last PV is done.
LEMMA AllDone ==
    ASSUME NEW l \in Launches, NEW P, Placed(l, P), OnStage(P.pv2, 1) >= Steps(l, Len(l.work) + 1)
    PROVE  P = At(l, Len(l.work) + 1, 0, 0, 0, 0, 0)
<1>1. PICK y \in 1 .. Len(l.work) + 1, q \in Nat, u \in Nat, v \in Nat, r \in Nat, x \in Nat :
        /\ P = At(l, y, q, u, v, r, x)
        /\ \/ q = 0 /\ u = 0 /\ v = 0 /\ r = 0 /\ x = 0
           \/ /\ y <= Len(l.work) /\ Half(l, y) > 0
              /\ InTile(2 * Half(l, y), q, u, v, r, x)
  BY DEF Placed
<1>0. Len(l.work) \in Nat /\ Len(l.work) + 1 \in 1 .. Len(l.work) + 1 /\ 1 \in Stage
  BY LaunchFacts DEF Stage
<1> DEFINE z == Len(l.work) + 1
<1>2. Steps(l, y) \in Nat /\ Works(l, y) \in Nat /\ Steps(l, z) \in Nat /\ Works(l, z) \in Nat
  BY <1>0, TileCounts
<1>3. P.pv2 = 2 * Steps(l, y) + v
  BY <1>1 DEF At
<1>4. OnStage(P.pv2, 1) = Steps(l, y) + OnStage(v, 1)
  BY <1>0, <1>2, <1>3, AlternateFrom
<1>5. CASE y <= Len(l.work) /\ Half(l, y) > 0 /\ InTile(2 * Half(l, y), q, u, v, r, x)
  <2>0. y \in 1 .. Len(l.work) /\ y < z /\ z \in 1 .. Len(l.work) + 1
    BY <1>0, <1>5
  <2>1. Half(l, y) \in Nat /\ Steps(l, y) + Half(l, y) <= Steps(l, z)
    BY <2>0, Past, LaunchFacts
  <2>2. v <= 2 * Half(l, y) - 1
    BY <1>5, <2>1 DEF InTile, InQK, InRelease, InPV
  <2>3. OnStage(v, 1) < Half(l, y)
    BY <2>1, <2>2 DEF OnStage
  <2>4. OnStage(v, 1) \in Nat
    BY <1>0, Alternate
  <2> QED BY <1>2, <1>4, <2>1, <2>3, <2>4
<1>6. CASE q = 0 /\ u = 0 /\ v = 0 /\ r = 0 /\ x = 0
  <2>1. OnStage(0, 1) = 0
    BY DEF OnStage
  <2>2. Steps(l, y) <= Steps(l, z)
    BY <1>0, Later
  <2>3. Steps(l, y) = Steps(l, z)
    BY <1>2, <1>4, <1>6, <2>1, <2>2
  <2>4. Works(l, y) = Works(l, z)
    BY <1>0, <2>3, NoWorkBetween
  <2> QED BY <1>1, <1>6, <2>3, <2>4 DEF At
<1> QED BY <1>1, <1>5, <1>6

\* The stage of item j of those that alternate.
LEMMA OwnStage ==
    ASSUME NEW j \in Nat, NEW g, g = j % 2
    PROVE  /\ g \in Stage /\ j \div 2 \in Nat /\ j = 2 * (j \div 2) + g
           /\ OnStage(j, g) = j \div 2 /\ OnStage(j, 1 - g) = (j \div 2) + g
           /\ OnStage(j + 1, g) = (j \div 2) + 1 /\ OnStage(j + 1, 1 - g) = (j \div 2) + g
<1> DEFINE a == j \div 2
<1>1. a \in Nat /\ j = 2 * a + g /\ g \in {0, 1}
  OBVIOUS
<1> HIDE DEF a
<1>2. /\ (2 * a + g + 1 - g) \div 2 = a /\ (2 * a + g + 1 - (1 - g)) \div 2 = a + g
      /\ (2 * a + g + 1 + 1 - g) \div 2 = a + 1 /\ (2 * a + g + 1 + 1 - (1 - g)) \div 2 = a + g
  <2>1. CASE g = 0
    BY <1>1, <2>1
  <2>2. CASE g = 1
    BY <1>1, <2>2
  <2> QED BY <1>1, <2>1, <2>2
<1>3. OnStage(j, g) = a /\ OnStage(j, 1 - g) = a + g /\ OnStage(j + 1, g) = a + 1 /\ OnStage(j + 1, 1 - g) = a + g
  BY <1>1, <1>2 DEF OnStage
<1> QED BY <1>1, <1>3 DEF a, Stage

-----------------------------------------------------------------------------
(* The roles, seen from the invariant.                                      *)

LEMMA Tile ==
    ASSUME Registers, NEW t
    PROVE  /\ launch \in Launches /\ Len(launch.work) \in Nat /\ Len(launch.work) > 0
           /\ Tiles = 1 .. Len(launch.work)
           /\ IsFiniteSet(Warps) /\ Warps # {}
           /\ t \in 1 .. Len(launch.work) + 1 => Steps(launch, t) \in Nat /\ Works(launch, t) \in Nat
           /\ t \in 1 .. Len(launch.work) =>
                /\ Half(launch, t) \in Nat /\ N(t) = 2 * Half(launch, t)
                /\ HasWork(t) <=> Half(launch, t) > 0
                /\ t + 1 \in 1 .. Len(launch.work) + 1
                /\ Steps(launch, t + 1) \in Nat /\ Works(launch, t + 1) \in Nat
                /\ Steps(launch, t + 1) = Steps(launch, t) + Half(launch, t)
                /\ Works(launch, t + 1) = Works(launch, t) + If(Half(launch, t) > 0)
           /\ (t \in 1 .. Len(launch.work) + 1 /\ t \notin Tiles) => t = Len(launch.work) + 1
<1>1. launch \in Launches
  BY DEF Registers
<1>2. /\ Len(launch.work) \in Nat /\ Len(launch.work) > 0 /\ IsFiniteSet(Warps) /\ Warps # {}
      /\ Tiles = 1 .. Len(launch.work)
  BY <1>1, LaunchFacts DEF Warps, Tiles
<1>3. t \in 1 .. Len(launch.work) + 1 => Steps(launch, t) \in Nat /\ Works(launch, t) \in Nat
  BY <1>1, TileCounts
<1>4. ASSUME t \in 1 .. Len(launch.work)
      PROVE  /\ Half(launch, t) \in Nat /\ N(t) = 2 * Half(launch, t)
             /\ HasWork(t) <=> Half(launch, t) > 0
             /\ t + 1 \in 1 .. Len(launch.work) + 1
             /\ Steps(launch, t + 1) \in Nat /\ Works(launch, t + 1) \in Nat
             /\ Steps(launch, t + 1) = Steps(launch, t) + Half(launch, t)
             /\ Works(launch, t + 1) = Works(launch, t) + If(Half(launch, t) > 0)
  <2>1. /\ Steps(launch, t + 1) \in Nat /\ Works(launch, t + 1) \in Nat
        /\ Steps(launch, t + 1) = Steps(launch, t) + Half(launch, t)
        /\ Works(launch, t + 1) = Works(launch, t) + If(Half(launch, t) > 0)
    BY <1>1, <1>4, NextTile
  <2>2. t + 1 \in 1 .. Len(launch.work) + 1
    BY <1>2, <1>4
  <2>3. /\ Half(launch, t) \in Nat /\ (launch.work[t] > 0 <=> Half(launch, t) > 0)
        /\ Groups(launch.work[t]) = 2 * Half(launch, t)
    BY <1>1, <1>4, LaunchFacts
  <2> QED BY <2>1, <2>2, <2>3 DEF N, HasWork
<1>5. (t \in 1 .. Len(launch.work) + 1 /\ t \notin Tiles) => t = Len(launch.work) + 1
  BY <1>2
<1> QED BY <1>1, <1>2, <1>3, <1>4, <1>5, Zenon

LEMMA LoadCounts ==
    ASSUME Registers, LoadRole
    PROVE  /\ KvLoads(ld) \in Nat /\ ld.kv = KvLoads(ld) + 3 /\ QLoads(launch, ld) \in Nat
           /\ ld.tile \in Nat
<1>1. ld.tile \in 1 .. Len(launch.work) + 1 /\ ld.j \in Nat /\ ld.kv \in Nat
  BY DEF LoadRole
<1>2. Steps(launch, ld.tile) \in Nat /\ Works(launch, ld.tile) \in Nat
  BY <1>1, Tile
<1>3. CASE ld.pc \in {"kv", "epi"}
  <2>1. ld.tile \in 1 .. Len(launch.work)
    BY <1>1, <1>3, Tile DEF LoadRole
  <2>2. Steps(launch, ld.tile + 1) \in Nat /\ Works(launch, ld.tile + 1) \in Nat
    BY <2>1, Tile
  <2>3. ld.kv \in Nat /\ ld.kv >= 3
    BY <1>1, <1>2, <1>3, <2>2 DEF LoadRole, KvStages
  <2> QED BY <1>1, <1>3, <2>2, <2>3 DEF KvLoads, QLoads, KvStages
<1>4. CASE ld.pc \notin {"kv", "epi"}
  <2>1. ld.kv \in Nat /\ ld.kv >= 3
    BY <1>1, <1>2, <1>4 DEF LoadRole, KvStages
  <2> QED BY <1>1, <1>2, <1>4, <2>1 DEF KvLoads, QLoads, KvStages
<1> QED BY <1>3, <1>4

\* The MMA warp is at a point of its program.
LEMMA IssuedPlaced ==
    ASSUME Registers, MmaRole
    PROVE  Placed(launch, Issued(launch, mm))
<1> DEFINE l == launch
           n == 2 * Half(l, mm.tile)
           j == mm.j
<1>1. mm.tile \in 1 .. Len(l.work) + 1 /\ j \in Nat /\ Len(l.work) \in Nat
  BY Tile DEF MmaRole
<1>2. CASE mm.pc \in {"tile", "done"}
  <2>1. Issued(l, mm) = At(l, mm.tile, 0, 0, 0, 0, 0) /\ 0 \in Nat
    BY <1>2 DEF Issued
  <2> QED BY <1>1, <2>1 DEF Placed
<1>3. CASE mm.pc \notin {"tile", "done"}
  <2>1. mm.tile \in 1 .. Len(l.work) /\ Half(l, mm.tile) > 0 /\ Half(l, mm.tile) \in Nat
    BY <1>1, <1>3, Tile DEF MmaRole
  <2>2. CASE mm.pc = "s"
    <3>1. j < 2
      BY <2>2 DEF MmaRole
    <3>2. InTile(n, j, 0, 0, 0, 0)
      BY <1>1, <2>1, <3>1 DEF InTile, InQK
    <3>3. Issued(l, mm) = At(l, mm.tile, j, 0, 0, 0, 0)
      BY <2>2 DEF Issued
    <3> QED BY <1>1, <2>1, <3>2, <3>3, Tile, PlacedAt
  <2>3. CASE mm.pc # "s"
    <3>1. mm.pc \in {"spo", "v", "pv", "k"}
      BY <1>3, <2>3 DEF MmaRole
    <3>2. mm.pc = "k" => j < n - 2
      BY DEF MmaRole
    <3>3. j < n
      BY <1>1, <2>1, <3>1, <3>2 DEF MmaRole
    <3> DEFINE q == IF j + 2 < n THEN j + 2 ELSE n
               u == j + If(mm.pc \in {"pv", "k"})
               v == j + If(mm.pc = "k")
               r == If(j >= n - 2)
               x == If(j = n - 1)
    <3>4. Issued(l, mm) = At(l, mm.tile, q, u, v, r, x)
      BY <1>3, <2>3 DEF Issued
    <3>5. n \in Nat /\ n >= 2
      BY <2>1
    <3>6. q \in Nat /\ u \in Nat /\ v \in Nat /\ r \in Nat /\ x \in Nat
      BY <1>1, <3>5 DEF If
    <3>7. InTile(n, q, u, v, r, x)
      <4> HIDE DEF n
      <4>1. CASE mm.pc = "k"
        <5>1. u = j + 1 /\ v = j + 1 /\ r = 0 /\ x = 0 /\ q = j + 2 /\ q < n
          BY <1>1, <3>2, <3>5, <4>1 DEF If
        <5> QED BY <1>1, <3>5, <5>1 DEF InTile, InQK
      <4>2. CASE mm.pc # "k"
        <5>1. v = j /\ u \in {j, j + 1}
          BY <1>1, <4>2 DEF If
        <5> QED BY <1>1, <3>3, <3>5, <5>1 DEF InTile, InPV
      <4> QED BY <4>1, <4>2
    <3>8. launch \in Launches
      BY Tile
    <3> HIDE DEF q, u, v, r, x
    <3>9. Placed(launch, At(launch, mm.tile, q, u, v, r, x))
      BY <2>1, <3>6, <3>7, <3>8, PlacedAt, Zenon
    <3> QED BY <3>4, <3>9
  <2> QED BY <2>2, <2>3
<1> QED BY <1>2, <1>3

\* The tensor core follows the MMA warp.
LEMMA QueueFacts ==
    ASSUME Registers, MmaRole, NEW st, Queue(st)
    PROVE  /\ Len(tc) \in Nat /\ Len(st) = Len(tc) + 1 /\ \A x \in 1 .. Len(tc) + 1 : st[x] \in Point
           /\ Issued(launch, mm) \in Point /\ st[1] \in Point
           /\ Ahead(st[1], Issued(launch, mm)) /\ Placed(launch, st[1])
<1>1. Len(tc) \in Nat /\ Len(st) = Len(tc) + 1 /\ st \in Seq(Point) /\ Len(st) \in Nat
  BY DEF Registers, Queue
<1>2. \A x \in 1 .. Len(tc) + 1 : st[x] \in Point
  BY <1>1
<1>3. st[Len(tc) + 1] = Issued(launch, mm) /\ Ahead(st[1], st[Len(tc) + 1])
  BY <1>1 DEF Queue
<1>4. Placed(launch, st[1])
  <2>1. CASE Len(tc) = 0
    BY <1>3, <2>1, IssuedPlaced
  <2>2. CASE Len(tc) > 0
    <3>1. 1 \in 1 .. Len(tc)
      BY <1>1, <2>2
    <3>2. Step(launch, st[1], tc[1], st[1 + 1])
      BY <3>1 DEF Queue
    <3> QED BY <3>2, StepPlaced DEF Registers
  <2> QED BY <1>1, <2>1, <2>2
<1> QED BY <1>1, <1>2, <1>3, <1>4

LEMMA MmaCounts ==
    ASSUME Registers, MmaRole
    PROVE  /\ mm.kv \in Nat /\ Slots(Issued(launch, mm)) \in Nat
           /\ Slots(Issued(launch, mm)) <= mm.kv
           /\ QTaken(launch, mm) \in Nat /\ Issued(launch, mm).rel <= QTaken(launch, mm)
           /\ mm.tile \in Nat
<1>1. Placed(launch, Issued(launch, mm)) /\ launch \in Launches
  BY IssuedPlaced, Tile
<1> DEFINE P == Issued(launch, mm)
<1>2. /\ P \in Point /\ P.pv2 <= P.pv1 /\ Slots(P) \in Nat
  BY <1>1, PlacedFacts
<1>3. mm.kv = P.qk + P.pv1
  BY DEF MmaRole
<1>4. Slots(P) <= mm.kv /\ mm.kv \in Nat
  <2> HIDE DEF P
  <2> QED BY <1>2, <1>3 DEF Slots, Point
<1>5. mm.tile \in 1 .. Len(launch.work) + 1 /\ Works(launch, mm.tile) \in Nat
  BY Tile DEF MmaRole
<1>6. P.rel = Works(launch, mm.tile) + (IF mm.pc \in {"tile", "done", "s"} THEN 0
                                        ELSE If(mm.j >= 2 * Half(launch, mm.tile) - 2))
  BY DEF Issued, At
<1>7. QTaken(launch, mm) \in Nat /\ P.rel <= QTaken(launch, mm)
  BY <1>5, <1>6 DEF QTaken, If
<1> QED BY <1>2, <1>4, <1>5, <1>7, Tile

LEMMA StageCounts ==
    ASSUME Registers, MmaRole, NEW st, Queue(st), NEW g \in Stage
    PROVE  /\ OnStage(st[1].qk, g) \in Nat /\ OnStage(st[1].last, g) \in Nat
           /\ OnStage(st[1].pv1, g) \in Nat /\ OnStage(st[1].pv2, g) \in Nat
           /\ OnStage(Issued(launch, mm).qk, g) \in Nat
           /\ OnStage(Issued(launch, mm).pv1, g) \in Nat
           /\ OnStage(Issued(launch, mm).pv2, g) \in Nat /\ PTaken(launch, mm, g) \in Nat
           /\ OnStage(st[1].qk, g) <= OnStage(Issued(launch, mm).qk, g)
           /\ OnStage(st[1].pv2, g) <= OnStage(Issued(launch, mm).pv2, g)
           /\ OnStage(st[1].pv1, g) <= OnStage(Issued(launch, mm).pv1, g)
           /\ OnStage(Issued(launch, mm).qk, g) <= OnStage(Issued(launch, mm).pv2, g) + 1
           /\ OnStage(Issued(launch, mm).pv2, g) <= OnStage(Issued(launch, mm).pv1, g)
           /\ OnStage(Issued(launch, mm).pv1, g) <= PTaken(launch, mm, g)
<1> DEFINE P == Issued(launch, mm)
           e == st[1]
<1>1. P \in Point /\ e \in Point /\ Ahead(e, P)
  BY QueueFacts
<1>2. P.qk <= P.pv2 + 2 /\ P.pv2 <= P.pv1
  BY IssuedPlaced, Tile, PlacedFacts
<1>3. /\ P.qk \in Nat /\ P.pv1 \in Nat /\ P.pv2 \in Nat /\ P.pv2 + 2 \in Nat
      /\ e.qk \in Nat /\ e.pv2 \in Nat /\ e.last \in Nat /\ e.pv1 \in Nat
      /\ e.qk <= P.qk /\ e.pv2 <= P.pv2 /\ e.pv1 <= P.pv1
  BY <1>1 DEF Point, Ahead
<1> HIDE DEF P, e
<1>4. /\ OnStage(e.qk, g) \in Nat /\ OnStage(e.last, g) \in Nat
      /\ OnStage(e.pv1, g) \in Nat /\ OnStage(e.pv2, g) \in Nat
      /\ OnStage(P.qk, g) \in Nat /\ OnStage(P.pv1, g) \in Nat /\ OnStage(P.pv2, g) \in Nat
  BY <1>3, Alternate
<1>5. OnStage(P.qk, g) <= OnStage(P.pv2, g) + 1
  <2>1. OnStage(P.qk, g) <= OnStage(P.pv2 + 2, g)
    BY <1>2, <1>3, AlternateKeeps
  <2>2. OnStage(P.pv2 + 2, g) = OnStage(P.pv2, g) + 1
    BY <1>3, Alternate
  <2> QED BY <2>1, <2>2
<1>6. /\ OnStage(e.qk, g) <= OnStage(P.qk, g) /\ OnStage(e.pv2, g) <= OnStage(P.pv2, g)
      /\ OnStage(e.pv1, g) <= OnStage(P.pv1, g)
      /\ OnStage(P.pv2, g) <= OnStage(P.pv1, g)
  BY <1>2, <1>3, AlternateKeeps
<1>7. PTaken(launch, mm, g) = OnStage(P.pv1, g) + If(mm.pc = "v" /\ g = mm.j % 2)
  BY DEF PTaken, P
<1>8. PTaken(launch, mm, g) \in Nat /\ OnStage(P.pv1, g) <= PTaken(launch, mm, g)
  BY <1>4, <1>7 DEF If
<1> QED BY <1>4, <1>5, <1>6, <1>8 DEF P, e

\* A softmax warp reads before it announces, acquires before it signals.
LEMMA SoftmaxCounts ==
    ASSUME Registers, NEW s, SoftmaxRole(s)
    PROVE  /\ Stored(launch, s) \in Nat /\ Reads(launch, s) \in Nat /\ Announced(launch, s) \in Nat
           /\ Acquired(launch, s) \in Nat /\ Signals(launch, s) \in Nat
           /\ Stored(launch, s) <= Announced(launch, s) /\ Announced(launch, s) <= Reads(launch, s)
           /\ Signals(launch, s) <= Acquired(launch, s)
<1>1. s.tile \in 1 .. Len(launch.work) + 1 /\ s.n \in Nat /\ s.tile \in Nat /\ s.tile >= 1
  BY Tile DEF SoftmaxRole
<1>2. Steps(launch, s.tile) \in Nat
  BY <1>1, Tile
<1>3. s.pc \in {"tile", "s", "scale", "p1", "p2", "sum", "done"} /\ (s.pc = "scale" => s.n > 0)
  BY DEF SoftmaxRole
<1>4. Stored(launch, s) \in Nat
  BY <1>1, <1>2 DEF Stored
<1>5. /\ Reads(launch, s) \in Nat /\ Announced(launch, s) \in Nat
      /\ Stored(launch, s) <= Announced(launch, s) /\ Announced(launch, s) <= Reads(launch, s)
  BY <1>4 DEF Reads, Announced, If
<1>6. Signals(launch, s) \in Nat /\ Acquired(launch, s) \in Nat /\ Signals(launch, s) <= Acquired(launch, s)
  BY <1>1, <1>2 DEF Signals, Acquired, If
<1> QED BY <1>4, <1>5, <1>6

\* What a signal of step m of tile t says about the scores read.
LEMMA SignalMeansRead ==
    ASSUME Registers, NEW s, SoftmaxRole(s), NEW t \in 1 .. Len(launch.work), NEW m \in Nat,
           1 <= m, m <= Half(launch, t), Signals(launch, s) >= Steps(launch, t) + (t - 1) + m
    PROVE  Reads(launch, s) >= Steps(launch, t) + m
<1> DEFINE u == s.tile
<1>1. /\ u \in 1 .. Len(launch.work) + 1 /\ s.n \in Nat /\ Len(launch.work) \in Nat
      /\ t \in 1 .. Len(launch.work) + 1 /\ launch \in Launches
  BY Tile DEF SoftmaxRole
<1>2. Steps(launch, u) \in Nat /\ Steps(launch, t) \in Nat /\ Half(launch, t) \in Nat
  BY <1>1, Tile
<1>3. Stored(launch, s) \in Nat /\ Reads(launch, s) >= Stored(launch, s) /\ Stored(launch, s) >= Steps(launch, u)
  BY <1>1, <1>2 DEF Stored, Reads, If
<1>4. CASE t < u
  <2>1. Steps(launch, t) + Half(launch, t) <= Steps(launch, u)
    BY <1>1, <1>4, Past, Tile
  <2> QED BY <1>2, <1>3, <2>1, SoftmaxCounts
<1>5. CASE u < t
  <2>0. u \in 1 .. Len(launch.work)
    BY <1>1, <1>5
  <2>1. Steps(launch, u) + Half(launch, u) <= Steps(launch, t) /\ Half(launch, u) \in Nat
    BY <1>1, <1>5, <2>0, Past, Tile
  <2>2. Signals(launch, s) <= Steps(launch, u) + (u - 1) + Half(launch, u)
    <3>1. CASE s.pc \in {"tile", "done"}
      BY <1>1, <1>2, <2>1, <3>1 DEF Signals
    <3>2. CASE s.pc \notin {"tile", "done"}
      <4>1. Signals(launch, s) = Steps(launch, u) + u - 1 + (s.n + If(s.pc \in {"p1", "p2"}))
        BY <3>2 DEF Signals
      <4>2. s.n + If(s.pc \in {"p1", "p2"}) <= Half(launch, u)
        BY <1>1, <2>1, <3>2 DEF If, SoftmaxRole
      <4>3. s.n + If(s.pc \in {"p1", "p2"}) \in Nat
        BY <1>1 DEF If
      <4> QED BY <1>1, <1>2, <2>1, <4>1, <4>2, <4>3
    <3> QED BY <3>1, <3>2
  <2>3. Signals(launch, s) \in Nat
    BY SoftmaxCounts
  <2> QED BY <1>1, <1>2, <1>5, <2>1, <2>2, <2>3
<1>6. CASE u = t
  <2>1. s.pc \notin {"tile", "done"}
    BY <1>1, <1>2, <1>6 DEF Signals
  <2>2. s.n + If(s.pc \in {"p1", "p2"}) >= m
    BY <1>1, <1>2, <1>6, <2>1 DEF Signals, If
  <2> QED BY <1>1, <1>2, <1>6, <2>1, <2>2 DEF Reads, Stored, If
<1> QED BY <1>1, <1>4, <1>5, <1>6

\* A correction warp meets the softmax warp before it returns the slot.
LEMMA CorrectionCounts ==
    ASSUME Registers, NEW c, CorrectionRole(c), NEW g \in Stage
    PROVE  /\ Lets(launch, c, g) \in Nat /\ Meets(launch, c, g) \in Nat
           /\ Returns(launch, c, g) \in Nat /\ Waited(launch, c, g) \in Nat
           /\ Reduced(c) \in Nat /\ Reduced(c) >= 2 * (c.tile - 1)
           /\ Returns(launch, c, g) <= Meets(launch, c, g) /\ c.tile \in Nat /\ c.tile >= 1
<1>1. c.tile \in 1 .. Len(launch.work) + 1 /\ c.j \in Nat /\ c.tile \in Nat /\ c.tile >= 1
  BY Tile DEF CorrectionRole
<1>2. Steps(launch, c.tile) \in Nat /\ Works(launch, c.tile) \in Nat
  BY <1>1, Tile
<1>3. c.pc \notin {"start", "tile", "done"} => Half(launch, c.tile) \in Nat
  BY <1>1, Tile DEF CorrectionRole
<1>4. c.pc \in AfterSteps => Half(launch, c.tile) \in Nat
  BY <1>3 DEF AfterSteps
<1>5. /\ OnStage(c.j, g) \in Nat /\ OnStage(c.j, 1 - g) \in Nat
      /\ OnStage(c.j + If(c.pc = "rescale"), g) \in Nat /\ g \in {0, 1} /\ 1 - g \in Stage
      /\ OnStage(c.j + If(c.pc = "rescale"), g) >= OnStage(c.j, g)
      /\ OnStage(c.j, 1 - g) <= OnStage(c.j, g) + g
  <2>1. c.j + 1 \in Nat /\ c.j + If(c.pc = "rescale") \in {c.j, c.j + 1} /\ g \in {0, 1} /\ 1 - g \in Stage
    BY <1>1 DEF If, Stage
  <2>2. OnStage(c.j, g) \in Nat /\ OnStage(c.j + 1, g) \in Nat /\ OnStage(c.j, 1 - g) \in Nat
    BY <1>1, <2>1, Alternate
  <2>3. OnStage(c.j, g) <= OnStage(c.j + 1, g)
    BY <1>1, Alternate
  <2>4. OnStage(c.j, 1) <= OnStage(c.j, 0) /\ OnStage(c.j, 0) <= OnStage(c.j, 1) + 1
    BY <1>1 DEF OnStage
  <2>5. OnStage(c.j, 1 - g) <= OnStage(c.j, g) + g
    <3>1. CASE g = 0
      BY <1>1, <2>2, <2>4, <3>1
    <3>2. CASE g = 1
      BY <1>1, <2>2, <2>4, <3>2
    <3> QED BY <2>1, <3>1, <3>2
  <2> QED BY <2>1, <2>2, <2>3, <2>5
<1>6. Lets(launch, c, g) \in Nat
  BY <1>1, <1>2, <1>4, <1>5 DEF Lets
<1>7. Waited(launch, c, g) \in Nat /\ Reduced(c) \in Nat /\ Reduced(c) >= 2 * (c.tile - 1)
  <2>1. Waited(launch, c, g) \in Nat
    BY <1>2 DEF Waited, If
  <2>2. Reduced(c) \in Nat /\ Reduced(c) >= 2 * (c.tile - 1)
    BY <1>1 DEF Reduced, If
  <2> QED BY <2>1, <2>2
<1>8. CASE c.pc \in {"start", "tile", "done"}
  <2>1. /\ Meets(launch, c, g) = Steps(launch, c.tile) + c.tile - 1 + If(c.j > g)
        /\ Returns(launch, c, g) = Meets(launch, c, g)
    BY <1>8 DEF Meets, Returns
  <2> QED BY <1>1, <1>2, <1>6, <1>7, <2>1 DEF If
<1>9. CASE c.pc = "second"
  <2>1. /\ Meets(launch, c, g) = Steps(launch, c.tile) + c.tile - 1 + (1 - g)
        /\ Returns(launch, c, g) = Meets(launch, c, g)
    BY <1>9 DEF Meets, Returns
  <2>2. 1 - g \in Nat
    BY <1>5
  <2> QED BY <1>1, <1>2, <1>6, <1>7, <2>1, <2>2
<1>10. CASE c.pc \in {"scale", "rescale"}
  <2>1. Meets(launch, c, g)
          = Steps(launch, c.tile) + c.tile - 1 + (1 + OnStage(c.j + If(c.pc = "rescale"), g))
    BY <1>10 DEF Meets
  <2>2. Returns(launch, c, g)
          = Steps(launch, c.tile) + c.tile - 1 + ((1 - g) + OnStage(c.j, 1 - g))
    BY <1>10 DEF Returns
  <2> DEFINE a == OnStage(c.j, 1 - g)
             b == OnStage(c.j + If(c.pc = "rescale"), g)
             d == OnStage(c.j, g)
             s == Steps(launch, c.tile)
  <2>3. a \in Nat /\ b \in Nat /\ d \in Nat /\ g \in Nat /\ g <= 1 /\ b >= d /\ a <= d + g
    BY <1>5
  <2> HIDE DEF a, b, d, s
  <2>4. Meets(launch, c, g) = s + c.tile - 1 + (1 + b) /\ Returns(launch, c, g) = s + c.tile - 1 + ((1 - g) + a)
    BY <2>1, <2>2 DEF a, b, s
  <2>5. s \in Nat
    BY <1>2 DEF s
  <2>6. (1 - g) + a \in Nat /\ 1 + b \in Nat /\ (1 - g) + a <= 1 + b
    BY <2>3
  <2>7. s + c.tile - 1 \in Nat
    BY <1>1, <2>5
  <2> HIDE DEF a, b, d, s
  <2>8. /\ Meets(launch, c, g) \in Nat /\ Returns(launch, c, g) \in Nat
        /\ Returns(launch, c, g) <= Meets(launch, c, g)
    BY <2>4, <2>6, <2>7
  <2> QED BY <1>1, <1>6, <1>7, <2>8
<1>11. CASE c.pc \notin {"start", "tile", "done", "second", "scale", "rescale"}
  <2>1. Meets(launch, c, g) = Returns(launch, c, g)
    BY <1>11 DEF Meets, Returns
  <2>2. /\ Meets(launch, c, g) = Steps(launch, c.tile) + c.tile - 1
                                 + (Half(launch, c.tile) + If(c.pc # "sum" \/ c.j > g))
        /\ Half(launch, c.tile) \in Nat
    BY <1>3, <1>11 DEF Meets
  <2>3. If(c.pc # "sum" \/ c.j > g) \in Nat
    BY DEF If
  <2>4. Meets(launch, c, g) \in Nat
    BY <1>1, <1>2, <2>2, <2>3
  <2> QED BY <1>1, <1>6, <1>7, <2>1, <2>4
<1> QED BY <1>1, <1>6, <1>7, <1>8, <1>9, <1>10, <1>11

-----------------------------------------------------------------------------
(* What a step that leaves these variables alone keeps.                     *)

LEMMA LoadFrame == ASSUME LoadRole, launch' = launch, ld' = ld PROVE LoadRole'
  BY DEF LoadRole, HasLoadEpi, AliasEpilogue

LEMMA MmaFrame == ASSUME MmaRole, launch' = launch, mm' = mm PROVE MmaRole'
  BY DEF MmaRole

LEMMA QueueFrame ==
    ASSUME NEW st, Queue(st), launch' = launch, tc' = tc, mm' = mm PROVE Queue(st)'
  BY DEF Queue

LEMMA KvFrame ==
    ASSUME NEW e, KvRing(e), launch' = launch, ld' = ld, inflight' = inflight,
           mm'.kv <= KvLoads(ld), Still({"kv_full", "kv_empty"})
    PROVE  KvRing(e)'
<1>1. \A i \in Int : IndexOf(i) \in Slot
  BY DEF IndexOf, Slot, KvStages
<1>2. \A s \in Slot : bar'[KvFull(s)] = bar[KvFull(s)] /\ bar'[KvEmpty(s)] = bar[KvEmpty(s)]
  BY BarNames DEF Still
<1>3. \A i : Flying(i)' = Flying(i)
  BY DEF Flying
<1> QED BY <1>1, <1>2, <1>3 DEF KvRing

LEMMA QFrame ==
    ASSUME NEW e, QTile(e), launch' = launch, ld' = ld, inflight' = inflight,
           QTaken(launch, mm') <= QLoads(launch, ld), Still({"q_full", "q_empty"})
    PROVE  QTile(e)'
<1>1. bar'[QFull] = bar[QFull] /\ bar'[QEmpty] = bar[QEmpty]
  BY BarNames DEF Still
<1>2. QFlying' = QFlying
  BY DEF QFlying
<1> QED BY <1>1, <1>2 DEF QTile

LEMMA FlightFrame ==
    ASSUME InFlight, launch' = launch, ld' = ld, inflight' = inflight, mm' = mm PROVE InFlight'
  BY DEF InFlight

LEMMA CoreFrame ==
    ASSUME NEW e, ByTensorCore(e), Still({"spo_full", "o_acc"}) PROVE ByTensorCore(e)'
<1>1. \A g \in Stage : bar'[SpoFull(g)] = bar[SpoFull(g)] /\ bar'[OAcc(g)] = bar[OAcc(g)]
  BY BarNames DEF Still
<1> QED BY <1>1 DEF ByTensorCore

LEMMA ScoresFrame ==
    ASSUME NEW e, Scores2P(e), launch' = launch, sm' = sm, mm' = mm, Still({"p_lastsplit"})
    PROVE  Scores2P(e)'
<1>1. \A g \in Stage : bar'[LastSplit(g)] = bar[LastSplit(g)]
  BY WarpBarNames DEF Still
<1>2. Warps' = Warps
  BY DEF Warps
<1>3. \A g : Stores(g)' = Stores(g)
  BY <1>2 DEF Stores
<1>4. \A s : SoftmaxRole(s)' = SoftmaxRole(s)
  BY DEF SoftmaxRole
<1> QED BY <1>1, <1>2, <1>3, <1>4 DEF Scores2P

LEMMA CorrectionFrame == ASSUME Corrections, launch' = launch, co' = co PROVE Corrections'
<1>1. Warps' = Warps
  BY DEF Warps
<1>2. \A c : CorrectionRole(c)' = CorrectionRole(c)
  BY DEF CorrectionRole
<1> QED BY <1>1, <1>2 DEF Corrections

LEMMA FreeFrame ==
    ASSUME OFree, launch' = launch, sm' = sm, co' = co, mm' = mm, Still({"spo_empty"})
    PROVE  OFree'
<1>1. \A g \in Stage : bar'[SpoEmpty(g)] = bar[SpoEmpty(g)]
  BY WarpBarNames DEF Still
<1>2. Warps' = Warps /\ Participants' = Participants
  BY DEF Warps, Participants
<1>3. \A g : Frees(g)' = Frees(g)
  BY <1>2 DEF Frees
<1> QED BY <1>1, <1>2, <1>3 DEF OFree

LEMMA StatFrame ==
    ASSUME Statistics, launch' = launch, sm' = sm, co' = co, named' = named, Still({"sm_stats"})
    PROVE  Statistics'
<1>1. \A g \in Stage : bar'[StatsEmpty(g)] = bar[StatsEmpty(g)]
  BY WarpBarNames DEF Still
<1>2. Warps' = Warps
  BY DEF Warps
<1>3. \A g : Returned(g)' = Returned(g)
  BY <1>2 DEF Returned
<1> QED BY <1>1, <1>2, <1>3 DEF Statistics

LEMMA ODoneFrame == ASSUME NEW e, ODone(e), launch' = launch, co' = co PROVE ODone(e)'
  BY DEF ODone, Warps

LEMMA OTileFrame ==
    ASSUME OTile, launch' = launch, co' = co, ep' = ep, Still({"epi_full", "reduce", "epi_empty"})
    PROVE  OTile'
<1>1. bar'[EpiFull] = bar[EpiFull] /\ bar'[Reduce] = bar[Reduce] /\ bar'[EpiEmpty] = bar[EpiEmpty]
  BY BarNames, WarpBarNames DEF Still
<1>2. Warps' = Warps /\ HasLoadEpi' = HasLoadEpi
  BY DEF Warps, HasLoadEpi, AliasEpilogue
<1>3. TilesStored' = TilesStored /\ Reductions' = Reductions
  BY <1>2 DEF TilesStored, Reductions
<1> QED BY <1>1, <1>2, <1>3 DEF OTile

LEMMA TurnFrame ==
    ASSUME LoadEpiTurn, launch' = launch, ld' = ld, ep' = ep, Still({"load_epi_full", "load_epi_empty"})
    PROVE  LoadEpiTurn'
<1>1. bar'[LoadEpiFull] = bar[LoadEpiFull] /\ bar'[LoadEpiEmpty] = bar[LoadEpiEmpty]
  BY BarNames DEF Still
<1>2. HasLoadEpi' = HasLoadEpi
  BY DEF HasLoadEpi, AliasEpilogue
<1> QED BY <1>1, <1>2 DEF LoadEpiTurn

-----------------------------------------------------------------------------
(* The correction warps.  A turn of warp w leaves it with registers c and    *)
(* arrives at bars: at each barrier when the count that barrier keeps of w   *)
(* goes up, and then as one of those that are furthest behind.               *)

\* Registers of one of several.
LEMMA Update ==
    ASSUME NEW f, NEW S, f \in [S -> {f[x] : x \in S}], NEW w \in S, NEW c, NEW f2,
           f2 = [f EXCEPT ![w] = c]
    PROVE  f2 \in [S -> {f2[x] : x \in S}] /\ f2[w] = c /\ \A v \in S : v # w => f2[v] = f[v]
  OBVIOUS

\* Of softmax warps and correction warps, as many again as there are warps.
LEMMA ParticipantsTwice ==
    ASSUME Registers
    PROVE  /\ IsFiniteSet(Participants) /\ \A g \in Stage : Expected(SpoEmpty(g)) = Cardinality(Participants)
           /\ \A w \in Warps : <<"softmax", w>> \in Participants /\ <<"correction", w>> \in Participants
           /\ \A x \in Participants : x[1] \in {"softmax", "correction"} /\ x[2] \in Warps /\ x = <<x[1], x[2]>>
           /\ Cardinality(Warps) \in Nat
<1>1. IsFiniteSet({"softmax", "correction"}) /\ Cardinality({"softmax", "correction"}) = 2
  <2>1. IsFiniteSet({"softmax"}) /\ Cardinality({"softmax"}) = 1
    BY FS_Singleton
  <2>2. {"softmax", "correction"} = {"softmax"} \cup {"correction"} /\ "correction" \notin {"softmax"}
    OBVIOUS
  <2> QED BY <2>1, <2>2, FS_AddElement
<1>2. IsFiniteSet(Warps) /\ Cardinality(Warps) \in Nat
  BY Tile, FS_CardinalityType
<1>3. /\ IsFiniteSet(Participants)
      /\ Cardinality(Participants) = Cardinality({"softmax", "correction"}) * Cardinality(Warps)
  BY <1>1, <1>2, FS_Product DEF Participants
<1>4. Cardinality(Participants) = 2 * Cardinality(Warps)
  BY <1>1, <1>2, <1>3
<1>5. \A g \in Stage : Expected(SpoEmpty(g)) = Cardinality(Participants)
  BY <1>4, WarpBarNames
<1>6. /\ \A w \in Warps : <<"softmax", w>> \in Participants /\ <<"correction", w>> \in Participants
      /\ \A x \in Participants : x[1] \in {"softmax", "correction"} /\ x[2] \in Warps /\ x = <<x[1], x[2]>>
  BY DEF Participants
<1> QED BY <1>2, <1>3, <1>5, <1>6

Released == {"spo_empty", "sm_stats", "epi_full", "reduce"}

\* The count of O that the MMA warp may use: it is the furthest behind.
FreesO(w, c, e, bars) ==
    \A g \in Stage :
        \/ /\ SpoEmpty(g) \in bars /\ Lets(launch, c, g) = Lets(launch, co[w], g) + 1
           /\ Lets(launch, co[w], g) <= OnStage(Issued(launch, mm).pv2, g)
        \/ SpoEmpty(g) \notin bars /\ Lets(launch, c, g) = Lets(launch, co[w], g)

LEMMA FreesOStep ==
    ASSUME NEW st, Control(st), NEW w \in Warps, NEW c, co' = [co EXCEPT ![w] = c],
           launch' = launch, mm' = mm, sm' = sm, NEW bars, Moves(bars), FreesO(w, c, st[1], bars)
    PROVE  OFree'
<1>1. Registers /\ MmaRole /\ Queue(st) /\ Corrections /\ Scores2P(st[1]) /\ OFree
  BY DEF Control
<1>2. /\ Warps' = Warps /\ Participants' = Participants
  BY DEF Warps, Participants
<1>3. co'[w] = c /\ \A v \in Warps : v # w => co'[v] = co[v]
  BY <1>1 DEF Corrections
<1>4. ASSUME NEW g \in Stage
      PROVE  AllOf(bar'[SpoEmpty(g)], Participants, Frees(g)')
  <2> DEFINE A == Frees(g)
             B == Frees(g)'
             me == <<"correction", w>>
  <2>1. \A x \in Participants :
          /\ x[1] = "softmax" => A[x] = Announced(launch, sm[g][x[2]]) /\ B[x] = A[x]
          /\ x[1] # "softmax" => /\ A[x] = Lets(launch, co[x[2]], g)
                                 /\ B[x] = Lets(launch, co'[x[2]], g)
    BY <1>2 DEF Frees
  <2>2. me \in Participants /\ me[1] # "softmax" /\ me[2] = w
    BY <1>1, ParticipantsTwice
  <2>3. A[me] = Lets(launch, co[w], g) /\ B[me] = Lets(launch, c, g)
    BY <1>3, <2>1, <2>2
  <2>4. \A x \in Participants : x # me => B[x] = A[x]
    <3> SUFFICES ASSUME NEW x \in Participants, x # me, x[1] # "softmax"
                 PROVE  B[x] = A[x]
      BY <2>1
    <3>1. x[1] = "correction" /\ x[2] \in Warps /\ x[2] # w
      BY <1>1, ParticipantsTwice
    <3> QED BY <1>3, <2>1, <3>1
  <2>5. \A x \in Participants : A[x] >= PTaken(launch, mm, g)
    <3> SUFFICES ASSUME NEW x \in Participants
                 PROVE  A[x] >= PTaken(launch, mm, g)
      OBVIOUS
    <3>1. PICK v \in Warps : x[2] = v
      BY <1>1, ParticipantsTwice
    <3>2. PTaken(launch, mm, g) <= Announced(launch, sm[g][v]) /\ SoftmaxRole(sm[g][v])
      BY <1>1 DEF Scores2P
    <3>3. PTaken(launch, mm, g) <= Lets(launch, co[v], g) /\ CorrectionRole(co[v])
      BY <1>1 DEF OFree, Corrections
    <3>4. PTaken(launch, mm, g) \in Nat
      BY <1>1, StageCounts
    <3>5. Announced(launch, sm[g][v]) \in Nat /\ Lets(launch, co[v], g) \in Nat
      BY <1>1, <3>2, <3>3, SoftmaxCounts, CorrectionCounts
    <3> QED BY <2>1, <3>1, <3>2, <3>3, <3>4, <3>5
  <2>6. AllOf(bar[SpoEmpty(g)], Participants, A) /\ SpoEmpty(g) \in BarId
    BY <1>1, WarpBarNames DEF OFree
  <2>7. IsFiniteSet(Participants) /\ Expected(SpoEmpty(g)) = Cardinality(Participants)
    BY <1>1, ParticipantsTwice
  <2>8. \/ SpoEmpty(g) \in bars /\ B[me] = A[me] + 1 /\ \A x \in Participants : A[x] >= A[me]
        \/ SpoEmpty(g) \notin bars /\ B[me] = A[me]
    <3>1. CASE /\ SpoEmpty(g) \in bars /\ Lets(launch, c, g) = Lets(launch, co[w], g) + 1
               /\ Lets(launch, co[w], g) <= OnStage(Issued(launch, mm).pv2, g)
      <4>1. /\ OnStage(Issued(launch, mm).pv2, g) <= PTaken(launch, mm, g)
            /\ OnStage(Issued(launch, mm).pv2, g) \in Nat /\ PTaken(launch, mm, g) \in Nat
        <5> HIDE DEF A, B, me
        <5> QED BY <1>1, StageCounts
      <4>2. Lets(launch, co[w], g) \in Nat
        BY <1>1, CorrectionCounts DEF Corrections
      <4>3. \A x \in Participants : A[x] \in Nat
        BY <2>6, AllNear
      <4>4. \A x \in Participants : A[x] >= A[me]
        <5> HIDE DEF A, B, me
        <5> QED BY <2>3, <2>5, <3>1, <4>1, <4>2, <4>3
      <4> QED BY <2>3, <3>1, <4>4
    <3>2. CASE SpoEmpty(g) \notin bars /\ Lets(launch, c, g) = Lets(launch, co[w], g)
      BY <2>3, <3>2
    <3> QED BY <3>1, <3>2 DEF FreesO
  <2> HIDE DEF A, B, me
  <2>9. AllOf(bar'[SpoEmpty(g)], Participants, B)
    BY <2>2, <2>4, <2>6, <2>7, <2>8, AllStep
  <2> QED BY <2>9 DEF B
<1>5. ASSUME NEW g \in Stage, NEW v \in Warps
      PROVE  PTaken(launch, mm, g) <= Lets(launch, co'[v], g)
  <2>1. PTaken(launch, mm, g) <= Lets(launch, co[v], g) /\ PTaken(launch, mm, g) \in Nat
    BY <1>1, StageCounts DEF OFree
  <2>2. Lets(launch, co[v], g) \in Nat
    BY <1>1, CorrectionCounts DEF Corrections
  <2>3. CASE v = w
    <3>1. Lets(launch, c, g) >= Lets(launch, co[w], g)
      BY <2>2, <2>3 DEF FreesO
    <3>2. Lets(launch, c, g) \in Nat
      BY <2>2, <2>3 DEF FreesO
    <3> QED BY <1>3, <2>1, <2>2, <2>3, <3>1, <3>2
  <2>4. CASE v # w
    BY <1>3, <2>1, <2>4
  <2> QED BY <2>3, <2>4
<1> QED BY <1>2, <1>4, <1>5 DEF OFree

\* The statistics slots: a slot is returned after its signal was met.
MeetsStats(w, c, bars) ==
    /\ \A g \in Stage, v \in Warps : v # w => named'[g][v] = named[g][v]
    /\ \A g \in Stage :
         /\ \/ Meets(launch, c, g) = Meets(launch, co[w], g) /\ named'[g][w] = named[g][w]
            \/ Meets(launch, c, g) = Meets(launch, co[w], g) + 1 /\ named[g][w] = 1 /\ named'[g][w] = 0
         /\ \/ /\ StatsEmpty(g) \in bars /\ Returns(launch, c, g) = Returns(launch, co[w], g) + 1
               /\ Meets(launch, c, g) >= Returns(launch, co[w], g) + 1
            \/ StatsEmpty(g) \notin bars /\ Returns(launch, c, g) = Returns(launch, co[w], g)

LEMMA MeetsStatsStep ==
    ASSUME NEW st, Control(st), NEW w \in Warps, NEW c, co' = [co EXCEPT ![w] = c], CorrectionRole(c),
           launch' = launch, sm' = sm, NEW bars, Moves(bars), MeetsStats(w, c, bars),
           named' \in [Stage -> [Warps -> Nat]]
    PROVE  Statistics'
<1>1. Registers /\ Corrections /\ Scores2P(st[1]) /\ Statistics
  BY DEF Control
<1>2. Warps' = Warps
  BY DEF Warps
<1>3. co'[w] = c /\ \A v \in Warps : v # w => co'[v] = co[v]
  BY <1>1 DEF Corrections
<1>4. ASSUME NEW g \in Stage, NEW v \in Warps
      PROVE  /\ Meets(launch, co[v], g) \in Nat /\ Returns(launch, co[v], g) \in Nat
             /\ Signals(launch, sm[g][v]) \in Nat /\ Acquired(launch, sm[g][v]) \in Nat
             /\ Signals(launch, sm[g][v]) <= Acquired(launch, sm[g][v])
             /\ Meets(launch, c, g) \in Nat /\ Returns(launch, c, g) \in Nat
             /\ named[g][v] \in Nat /\ named'[g][v] \in Nat
  <2>1. CorrectionRole(co[v]) /\ SoftmaxRole(sm[g][v])
    BY <1>1 DEF Corrections, Scores2P
  <2>2. named[g][v] \in Nat /\ named'[g][v] \in Nat
    BY <1>1 DEF Statistics
  <2> QED BY <1>1, <2>1, <2>2, CorrectionCounts, SoftmaxCounts
<1>5. ASSUME NEW g \in Stage, NEW v \in Warps
      PROVE  Signals(launch, sm[g][v]) = Meets(launch, co'[v], g) + named'[g][v]
  <2>1. Signals(launch, sm[g][v]) = Meets(launch, co[v], g) + named[g][v]
    BY <1>1 DEF Statistics
  <2>2. CASE v = w
    BY <1>3, <1>4, <2>1, <2>2 DEF MeetsStats
  <2>3. CASE v # w
    BY <1>3, <2>1, <2>3 DEF MeetsStats
  <2> QED BY <2>2, <2>3
<1>6. ASSUME NEW g \in Stage
      PROVE  AllOf(bar'[StatsEmpty(g)], Warps, Returned(g)')
  <2> DEFINE A == Returned(g)
             B == Returned(g)'
  <2>1. \A v \in Warps : A[v] = Returns(launch, co[v], g) /\ B[v] = Returns(launch, co'[v], g)
    BY <1>2 DEF Returned
  <2>2. A[w] = Returns(launch, co[w], g) /\ B[w] = Returns(launch, c, g) /\ \A v \in Warps : v # w => B[v] = A[v]
    BY <1>3, <2>1
  <2>3. AllOf(bar[StatsEmpty(g)], Warps, A) /\ IsFiniteSet(Warps)
    BY <1>1, Tile DEF Statistics
  <2>4. StatsEmpty(g) \in BarId /\ Expected(StatsEmpty(g)) = Cardinality(Warps)
    BY WarpBarNames
  <2>5. ASSUME Meets(launch, c, g) >= Returns(launch, co[w], g) + 1, NEW v \in Warps
        PROVE  A[v] >= A[w]
    <3>1. Signals(launch, sm[g][w]) >= Returns(launch, co[w], g) + 1
      <4>1. Signals(launch, sm[g][w]) = Meets(launch, c, g) + named'[g][w]
        BY <1>3, <1>5
      <4> QED BY <1>4, <2>5, <4>1
    <3>2. Acquired(launch, sm[g][w]) <= Returns(launch, co[v], g) + 1
      BY <1>1 DEF Statistics
    <3>3. /\ Signals(launch, sm[g][w]) <= Acquired(launch, sm[g][w])
          /\ Signals(launch, sm[g][w]) \in Nat /\ Acquired(launch, sm[g][w]) \in Nat
          /\ Returns(launch, co[v], g) \in Nat /\ Returns(launch, co[w], g) \in Nat
      BY <1>4
    <3>4. Returns(launch, co[v], g) >= Returns(launch, co[w], g)
      BY <3>1, <3>2, <3>3
    <3> QED BY <2>1, <3>4
  <2>6. \/ StatsEmpty(g) \in bars /\ B[w] = A[w] + 1 /\ \A v \in Warps : A[v] >= A[w]
        \/ StatsEmpty(g) \notin bars /\ B[w] = A[w]
    <3> HIDE DEF A, B
    <3> QED BY <2>2, <2>5 DEF MeetsStats
  <2> HIDE DEF A, B
  <2>7. AllOf(bar'[StatsEmpty(g)], Warps, B)
    BY <2>2, <2>3, <2>4, <2>6, AllStep
  <2> QED BY <2>7 DEF B
<1>7. ASSUME NEW g \in Stage, NEW u \in Warps, NEW v \in Warps
      PROVE  Acquired(launch, sm[g][u]) <= Returns(launch, co'[v], g) + 1
  <2>1. Acquired(launch, sm[g][u]) <= Returns(launch, co[v], g) + 1
    BY <1>1 DEF Statistics
  <2>2. Returns(launch, co[v], g) <= Returns(launch, co'[v], g)
    <3>1. CASE v = w
      BY <1>3, <1>4, <3>1 DEF MeetsStats
    <3>2. CASE v # w
      BY <1>3, <1>4, <3>2
    <3> QED BY <3>1, <3>2
  <2>3. Returns(launch, co'[v], g) \in Nat
    <3>1. CASE v = w
      BY <1>3, <1>4, <3>1
    <3>2. CASE v # w
      BY <1>3, <1>4, <3>2
    <3> QED BY <3>1, <3>2
  <2> QED BY <1>4, <2>1, <2>2, <2>3
<1> QED BY <1>2, <1>5, <1>6, <1>7 DEF Statistics

\* The O tile: reductions of one tile before the next, stores before the epilogue.
StoresTile(w, c, bars) ==
    /\ OStored(ep) <= c.tile - 1 /\ c.tile - 1 <= OStored(ep) + 1
    /\ c.pc \in {"combine", "store", "done"} => OStored(ep) = c.tile - 1
    /\ \/ EpiFull \in bars /\ c.tile = co[w].tile + 1 /\ OStored(ep) = co[w].tile - 1
       \/ EpiFull \notin bars /\ c.tile = co[w].tile
    /\ \/ /\ Reduce \in bars /\ Reduced(c) = Reduced(co[w]) + 1
          /\ \A v \in Warps : Reduced(co[v]) >= Reduced(co[w])
       \/ Reduce \notin bars /\ Reduced(c) = Reduced(co[w])

LEMMA StoresTileStep ==
    ASSUME NEW st, Control(st), NEW w \in Warps, NEW c, co' = [co EXCEPT ![w] = c], CorrectionRole(c),
           launch' = launch, ep' = ep, NEW bars, Moves(bars), StoresTile(w, c, bars),
           Still({"epi_empty"})
    PROVE  OTile'
<1>1. Registers /\ Corrections /\ OTile
  BY DEF Control
<1>2. Warps' = Warps /\ HasLoadEpi' = HasLoadEpi /\ IsFiniteSet(Warps)
  BY <1>1, Tile DEF Warps, HasLoadEpi, AliasEpilogue
<1>3. co'[w] = c /\ \A v \in Warps : v # w => co'[v] = co[v]
  BY <1>1 DEF Corrections
<1>4. bar'[EpiEmpty] = bar[EpiEmpty]
  BY BarNames DEF Still
<1>5. \A v \in Warps : co[v].tile \in Nat /\ Reduced(co[v]) \in Nat
  BY <1>1, CorrectionCounts DEF Corrections, Stage
<1>6. \A v \in Warps : co[v].tile - 1 >= OStored(ep) /\ OStored(ep) \in Int
  <2>1. ep.tile \in Nat
    BY <1>1 DEF OTile
  <2> QED BY <1>1, <2>1 DEF OTile, OStored, If
<1>7. AllOf(bar'[EpiFull], Warps, TilesStored')
  <2> DEFINE A == TilesStored
             B == TilesStored'
  <2>1. \A v \in Warps : A[v] = co[v].tile - 1 /\ B[v] = co'[v].tile - 1
    BY <1>2 DEF TilesStored
  <2>2. B[w] = c.tile - 1 /\ \A v \in Warps : v # w => B[v] = A[v]
    BY <1>3, <2>1
  <2>3. AllOf(bar[EpiFull], Warps, A) /\ EpiFull \in BarId /\ Expected(EpiFull) = Cardinality(Warps)
    BY <1>1, WarpBarNames DEF OTile
  <2>4. \/ EpiFull \in bars /\ B[w] = A[w] + 1 /\ \A v \in Warps : A[v] >= A[w]
        \/ EpiFull \notin bars /\ B[w] = A[w]
    <3> HIDE DEF A, B
    <3> QED BY <1>5, <1>6, <2>1, <2>2 DEF StoresTile
  <2> HIDE DEF A, B
  <2>5. AllOf(bar'[EpiFull], Warps, B)
    BY <1>2, <2>2, <2>3, <2>4, AllStep
  <2> QED BY <2>5 DEF B
<1>8. AllOf(bar'[Reduce], Warps, Reductions')
  <2> DEFINE A == Reductions
             B == Reductions'
  <2>1. \A v \in Warps : A[v] = Reduced(co[v]) /\ B[v] = Reduced(co'[v])
    BY <1>2 DEF Reductions, Reduced
  <2>2. B[w] = Reduced(c) /\ \A v \in Warps : v # w => B[v] = A[v]
    BY <1>3, <2>1
  <2>3. AllOf(bar[Reduce], Warps, A) /\ Reduce \in BarId /\ Expected(Reduce) = Cardinality(Warps)
    BY <1>1, WarpBarNames DEF OTile
  <2>4. \/ Reduce \in bars /\ B[w] = A[w] + 1 /\ \A v \in Warps : A[v] >= A[w]
        \/ Reduce \notin bars /\ B[w] = A[w]
    <3> HIDE DEF A, B
    <3> QED BY <2>1, <2>2 DEF StoresTile
  <2> HIDE DEF A, B
  <2>5. AllOf(bar'[Reduce], Warps, B)
    BY <1>2, <2>2, <2>3, <2>4, AllStep
  <2> QED BY <2>5 DEF B
<1>9. ASSUME NEW v \in Warps
      PROVE  /\ OStored(ep) <= co'[v].tile - 1 /\ co'[v].tile - 1 <= OStored(ep) + 1
             /\ co'[v].pc \in {"combine", "store", "done"} => OStored(ep) = co'[v].tile - 1
  <2>1. CASE v = w
    BY <1>3, <2>1 DEF StoresTile
  <2>2. CASE v # w
    BY <1>1, <1>3, <2>2 DEF OTile
  <2> QED BY <2>1, <2>2
<1> QED BY <1>1, <1>2, <1>4, <1>7, <1>8, <1>9 DEF OTile

\* A turn of correction warp w keeps the invariant.
LEMMA CorrectionTurn ==
    ASSUME NEW st, Control(st), NEW w \in Warps, NEW c, co' = [co EXCEPT ![w] = c], CorrectionRole(c),
           UNCHANGED <<launch, inflight, tc, ld, mm, sm, ep>>, NEW bars, Moves(bars),
           \A b \in bars : b[1] \in Released,
           FreesO(w, c, st[1], bars), MeetsStats(w, c, bars), StoresTile(w, c, bars),
           \A g \in Stage : Waited(launch, c, g) <= OnStage(st[1].last, g),
           named' \in [Stage -> [Warps -> Nat]]
    PROVE  Control(st)'
<1>1. ASSUME NEW names, names \cap Released = {}
      PROVE  Still(names)
  BY <1>1, MovesStill
<1>2. Registers' /\ LoadRole' /\ MmaRole' /\ Queue(st)'
  BY LoadFrame, MmaFrame, QueueFrame DEF Control, Registers, Moves
<1>3. /\ Still({"kv_full", "kv_empty"}) /\ Still({"q_full", "q_empty"}) /\ Still({"spo_full", "o_acc"})
      /\ Still({"p_lastsplit"}) /\ Still({"epi_empty"}) /\ Still({"load_epi_full", "load_epi_empty"})
  BY <1>1 DEF Released
<1>4. KvRing(st[1])' /\ QTile(st[1])'
  <2>1. mm'.kv <= KvLoads(ld) /\ QTaken(launch, mm') <= QLoads(launch, ld)
    BY DEF Control, KvRing, QTile
  <2> QED BY <1>3, <2>1, KvFrame, QFrame DEF Control
<1>5. InFlight' /\ ByTensorCore(st[1])' /\ Scores2P(st[1])' /\ LoadEpiTurn'
  BY <1>3, FlightFrame, CoreFrame, ScoresFrame, TurnFrame DEF Control
<1>6. OFree' /\ Statistics' /\ OTile'
  BY <1>3, FreesOStep, MeetsStatsStep, StoresTileStep
<1>7. Corrections /\ Warps' = Warps
  BY DEF Control, Warps
<1>8. co'[w] = c /\ \A v \in Warps : v # w => co'[v] = co[v]
  BY <1>7 DEF Corrections
<1>9. Corrections'
  <2>1. co' \in [Warps -> {co'[v] : v \in Warps}]
    BY <1>7, Update DEF Corrections
  <2>2. \A x : CorrectionRole(x)' = CorrectionRole(x)
    BY DEF CorrectionRole
  <2> QED BY <1>7, <1>8, <2>1, <2>2 DEF Corrections
<1>10. ODone(st[1])'
  <2>1. ODone(st[1])
    BY DEF Control
  <2> QED BY <1>7, <1>8, <2>1 DEF ODone
<1> QED BY <1>2, <1>4, <1>5, <1>6, <1>9, <1>10 DEF Control

\* What the invariant says of correction warp w.
LEMMA CorrectionSees ==
    ASSUME NEW st, Control(st), NEW w \in Warps
    PROVE  /\ Registers /\ CorrectionRole(co[w]) /\ Corrections /\ named \in [Stage -> [Warps -> Nat]]
           /\ OStored(ep) \in Nat
           /\ OStored(ep) <= co[w].tile - 1 /\ co[w].tile - 1 <= OStored(ep) + 1
           /\ co[w].pc \in {"combine", "store", "done"} => OStored(ep) = co[w].tile - 1
           /\ \A g \in Stage : /\ Waited(launch, co[w], g) <= OnStage(st[1].last, g)
                               /\ Waited(launch, co[w], g) \in Nat /\ OnStage(st[1].last, g) \in Nat
<1>1. Registers /\ MmaRole /\ Queue(st) /\ Corrections /\ Statistics /\ OTile /\ ODone(st[1])
  BY DEF Control
<1>2. CorrectionRole(co[w]) /\ named \in [Stage -> [Warps -> Nat]]
  BY <1>1 DEF Corrections, Statistics
<1>3. /\ OStored(ep) <= co[w].tile - 1 /\ co[w].tile - 1 <= OStored(ep) + 1
      /\ co[w].pc \in {"combine", "store", "done"} => OStored(ep) = co[w].tile - 1
      /\ ep.tile \in 1 .. Len(launch.work) + 1
  BY <1>1 DEF OTile
<1>4. OStored(ep) \in Nat
  BY <1>1, <1>3, Tile DEF OStored, If
<1>5. ASSUME NEW g \in Stage
      PROVE  /\ Waited(launch, co[w], g) <= OnStage(st[1].last, g)
             /\ Waited(launch, co[w], g) \in Nat /\ OnStage(st[1].last, g) \in Nat
  BY <1>1, <1>2, CorrectionCounts, StageCounts DEF ODone
<1> QED BY <1>1, <1>2, <1>3, <1>4, <1>5

\* What the invariant says of softmax warp w of stage g.
LEMMA SoftmaxSees ==
    ASSUME NEW st, Control(st), NEW g \in Stage, NEW w \in Warps
    PROVE  /\ Registers /\ SoftmaxRole(sm[g][w]) /\ named[g][w] \in Nat
           /\ Reads(launch, sm[g][w]) <= OnStage(st[1].qk, g)
           /\ OnStage(Issued(launch, mm).pv2, g) <= Stored(launch, sm[g][w])
           /\ PTaken(launch, mm, g) <= Announced(launch, sm[g][w])
           /\ Signals(launch, sm[g][w]) = Meets(launch, co[w], g) + named[g][w]
           /\ \A v \in Warps : Acquired(launch, sm[g][w]) <= Returns(launch, co[v], g) + 1
           /\ Stored(launch, sm[g][w]) \in Nat /\ Reads(launch, sm[g][w]) \in Nat
           /\ Announced(launch, sm[g][w]) \in Nat
           /\ Acquired(launch, sm[g][w]) \in Nat /\ Signals(launch, sm[g][w]) \in Nat
           /\ Stored(launch, sm[g][w]) <= Announced(launch, sm[g][w])
           /\ Announced(launch, sm[g][w]) <= Reads(launch, sm[g][w])
           /\ Signals(launch, sm[g][w]) <= Acquired(launch, sm[g][w])
<1>1. Registers /\ Scores2P(st[1]) /\ Statistics
  BY DEF Control
<1>2. /\ SoftmaxRole(sm[g][w])
      /\ Reads(launch, sm[g][w]) <= OnStage(st[1].qk, g)
      /\ OnStage(Issued(launch, mm).pv2, g) <= Stored(launch, sm[g][w])
      /\ PTaken(launch, mm, g) <= Announced(launch, sm[g][w])
  BY <1>1 DEF Scores2P
<1>3. /\ Signals(launch, sm[g][w]) = Meets(launch, co[w], g) + named[g][w] /\ named[g][w] \in Nat
      /\ \A v \in Warps : Acquired(launch, sm[g][w]) <= Returns(launch, co[v], g) + 1
  BY <1>1 DEF Statistics
<1> QED BY <1>1, <1>2, <1>3, SoftmaxCounts

\* Before it has a tile to reduce a warp leaves the O tile to the others.
LEMMA SameTile ==
    ASSUME NEW st, Control(st), NEW w \in Warps, NEW c, CorrectionRole(c), c.tile = co[w].tile,
           c.pc \notin {"combine", "store", "done"}, co[w].pc \notin {"combine", "store"},
           NEW bars, \A b \in bars : b[1] \in {"spo_empty", "sm_stats"}
    PROVE  StoresTile(w, c, bars)
<1>1. EpiFull \notin bars /\ Reduce \notin bars
  BY WarpBarNames
<1>2. Reduced(c) = Reduced(co[w])
  BY DEF Reduced
<1> QED BY <1>1, <1>2, CorrectionSees DEF StoresTile

\* The epilogue warp has stored the tile before.
LEMMA EpiFree ==
    ASSUME NEW st, Control(st), NEW w \in Warps, Done(EpiEmpty, co[w].epi)
    PROVE  OStored(ep) = co[w].tile - 1
<1>1. /\ CorrectionRole(co[w]) /\ OStored(ep) \in Nat
      /\ OStored(ep) <= co[w].tile - 1 /\ co[w].tile - 1 <= OStored(ep) + 1
  BY CorrectionSees
<1>2. co[w].tile \in Nat /\ co[w].tile >= 1 /\ co[w].epi = co[w].tile % 2
  BY <1>1, CorrectionSees, CorrectionCounts DEF CorrectionRole, Stage
<1> DEFINE q == co[w].tile - 1
<1>3. q \in Nat /\ (q + 1) % 2 = co[w].epi /\ (OStored(ep) = q \/ OStored(ep) = q - 1)
  BY <1>1, <1>2
<1>4. Phases(bar[EpiEmpty], OStored(ep))
  BY DEF Control, OTile
<1> HIDE DEF q
<1>5. OStored(ep) = q
  <2>1. Done(EpiEmpty, (q + 1) % 2)
    BY <1>3
  <2>2. OStored(ep) \in Int
    BY <1>1
  <2> QED BY <1>3, <1>4, <2>1, <2>2, PhaseFree
<1> QED BY <1>5 DEF q

LEMMA StartStep ==
    ASSUME NEW st, Control(st), NEW w \in Warps, CorrectionStart(w)
    PROVE  Control(st)'
<1> DEFINE me == co[w]
           c == [me EXCEPT !.pc = "tile"]
           bars == {SpoEmpty(g) : g \in Stage}
<1>1. Registers /\ CorrectionRole(me) /\ named \in [Stage -> [Warps -> Nat]] /\ MmaRole /\ Queue(st)
  BY CorrectionSees DEF Control
<1>2. me.pc = "start" /\ me.tile = 1 /\ me.j = 0
  BY <1>1 DEF CorrectionStart, CorrectionRole
<1>3. c.pc = "tile" /\ c.tile = 1 /\ c.j = 0 /\ CorrectionRole(c)
  BY <1>1, <1>2 DEF CorrectionRole
<1>4. co' = [co EXCEPT ![w] = c] /\ Moves(bars)
  BY MovesArrive DEF CorrectionStart
<1>5. (\A g \in Stage : SpoEmpty(g) \in bars) /\ \A b \in bars : b[1] = "spo_empty"
  BY WarpBarNames
<1> HIDE DEF c, bars
<1>6. FreesO(w, c, st[1], bars)
  <2>1. \A g \in Stage : Lets(launch, me, g) = 0 /\ Lets(launch, c, g) = 1
    <3>1. Steps(launch, 1) = 0
      BY <1>1, Tile, FirstTile
    <3> QED BY <1>2, <1>3, <3>1 DEF Lets, AfterSteps
  <2>2. \A g \in Stage : OnStage(Issued(launch, mm).pv2, g) \in Nat
    BY <1>1, StageCounts
  <2> QED BY <1>5, <2>1, <2>2 DEF FreesO
<1>7. MeetsStats(w, c, bars)
  <2>1. \A g \in Stage : Meets(launch, me, g) = Meets(launch, c, g) /\ Returns(launch, me, g) = Returns(launch, c, g)
    BY <1>2, <1>3 DEF Meets, Returns
  <2>2. named' = named /\ \A g \in Stage : StatsEmpty(g) \notin bars
    BY <1>5, WarpBarNames DEF CorrectionStart
  <2> QED BY <2>1, <2>2 DEF MeetsStats
<1>8. StoresTile(w, c, bars)
  BY <1>2, <1>3, <1>5, SameTile
<1>9. \A g \in Stage : Waited(launch, c, g) <= OnStage(st[1].last, g)
  <2>1. \A g \in Stage : Waited(launch, c, g) = Waited(launch, me, g)
    BY <1>2, <1>3 DEF Waited
  <2> QED BY <2>1, CorrectionSees
<1>10. /\ UNCHANGED <<launch, inflight, tc, ld, mm, sm, ep>> /\ named' \in [Stage -> [Warps -> Nat]]
  BY <1>1 DEF CorrectionStart, memory
<1>11. \A b \in bars : b[1] \in Released
  BY <1>5 DEF Released
<1> QED BY <1>3, <1>4, <1>6, <1>7, <1>8, <1>9, <1>10, <1>11, CorrectionTurn

LEMMA CorrectionTailStep ==
    ASSUME NEW st, Control(st), NEW w \in Warps, CorrectionTail(w)
    PROVE  Control(st)'
<1> DEFINE me == co[w]
           c == [me EXCEPT !.pc = "done"]
<1>1. Registers /\ CorrectionRole(me) /\ named \in [Stage -> [Warps -> Nat]]
  BY CorrectionSees
<1>2. me.pc = "tile" /\ me.tile = Len(launch.work) + 1 /\ me.j = 0 /\ Len(launch.work) \in Nat
  <2>1. me.pc = "tile" /\ me.tile = Len(launch.work) + 1 /\ Len(launch.work) \in Nat
    BY <1>1, Tile DEF CorrectionTail, CorrectionRole
  <2> QED BY <1>1, <2>1 DEF CorrectionRole
<1>3. c.pc = "done" /\ c.tile = me.tile /\ c.j = 0 /\ CorrectionRole(c)
  BY <1>1, <1>2 DEF CorrectionRole
<1>4. co' = [co EXCEPT ![w] = c] /\ Moves({})
  BY <1>1, MovesNone DEF CorrectionTail
<1> HIDE DEF c
<1>6. FreesO(w, c, st[1], {})
  BY <1>2, <1>3 DEF Lets, AfterSteps, FreesO
<1>7. MeetsStats(w, c, {})
  BY <1>2, <1>3 DEF Meets, Returns, MeetsStats, CorrectionTail
<1>8. StoresTile(w, c, {})
  <2>1. OStored(ep) = me.tile - 1
    BY EpiFree DEF CorrectionTail
  <2>2. Reduced(c) = Reduced(me)
    BY <1>2, <1>3 DEF Reduced
  <2> QED BY <1>3, <2>1, <2>2, CorrectionSees DEF StoresTile
<1>9. \A g \in Stage : Waited(launch, c, g) <= OnStage(st[1].last, g)
  <2>1. \A g \in Stage : Waited(launch, c, g) = Waited(launch, me, g)
    BY <1>2, <1>3 DEF Waited
  <2> QED BY <2>1, CorrectionSees
<1>10. /\ UNCHANGED <<launch, inflight, tc, ld, mm, sm, ep>> /\ named' \in [Stage -> [Warps -> Nat]]
  BY <1>1 DEF CorrectionTail, memory
<1> QED BY <1>3, <1>4, <1>6, <1>7, <1>8, <1>9, <1>10, CorrectionTurn

\* A meeting: one arrival at the named barrier is consumed.
LEMMA MeetEffect ==
    ASSUME named \in [Stage -> [Warps -> Nat]], NEW g \in Stage, NEW w \in Warps, Meet(g, w)
    PROVE  /\ named[g][w] = 1 /\ named'[g][w] = 0 /\ named' \in [Stage -> [Warps -> Nat]]
           /\ \A h \in Stage, v \in Warps : (h # g \/ v # w) => named'[h][v] = named[h][v]
<1>1. named[g][w] = 1 /\ named' = [named EXCEPT ![g] = [@ EXCEPT ![w] = 0]]
  BY DEF Meet
<1>2. named'[g] = [named[g] EXCEPT ![w] = 0] /\ \A h \in Stage : h # g => named'[h] = named[h]
  BY <1>1
<1>3. named'[g][w] = 0 /\ \A v \in Warps : v # w => named'[g][v] = named[g][v]
  BY <1>2
<1> QED BY <1>1, <1>2, <1>3

\* Of the slots it returns, a warp has met every signal.
LEMMA MeetsOne ==
    ASSUME named \in [Stage -> [Warps -> Nat]], NEW g \in Stage, NEW w \in Warps, Meet(g, w), NEW c, NEW bars,
           \A h \in Stage : Meets(launch, co[w], h) \in Nat /\ Returns(launch, co[w], h) \in Nat,
           \A h \in Stage : Meets(launch, c, h) = Meets(launch, co[w], h) + If(h = g),
           \A h \in Stage : Returns(launch, c, h) = Returns(launch, co[w], h) + If(StatsEmpty(h) \in bars),
           \A h \in Stage : StatsEmpty(h) \in bars => h = g /\ Returns(launch, co[w], h) <= Meets(launch, co[w], h)
    PROVE  MeetsStats(w, c, bars)
<1>1. /\ named[g][w] = 1 /\ named'[g][w] = 0
      /\ \A h \in Stage, v \in Warps : (h # g \/ v # w) => named'[h][v] = named[h][v]
  BY MeetEffect
<1>2. ASSUME NEW h \in Stage
      PROVE  \/ Meets(launch, c, h) = Meets(launch, co[w], h) /\ named'[h][w] = named[h][w]
             \/ Meets(launch, c, h) = Meets(launch, co[w], h) + 1 /\ named[h][w] = 1 /\ named'[h][w] = 0
  BY <1>1 DEF If
<1>3. ASSUME NEW h \in Stage
      PROVE  \/ /\ StatsEmpty(h) \in bars /\ Returns(launch, c, h) = Returns(launch, co[w], h) + 1
                /\ Meets(launch, c, h) >= Returns(launch, co[w], h) + 1
             \/ StatsEmpty(h) \notin bars /\ Returns(launch, c, h) = Returns(launch, co[w], h)
  <2>1. CASE StatsEmpty(h) \in bars
    <3>1. h = g /\ Meets(launch, c, h) = Meets(launch, co[w], h) + 1
      BY <2>1 DEF If
    <3> QED BY <2>1, <3>1 DEF If
  <2>2. CASE StatsEmpty(h) \notin bars
    BY <2>2 DEF If
  <2> QED BY <2>1, <2>2
<1> QED BY <1>1, <1>2, <1>3 DEF MeetsStats

\* The registers of a correction warp, wherever it is.
CorrectionRegisters(c) ==
    c \in [pc : {"start", "tile", "second", "scale", "rescale", "sum", "oacc", "epi",
                 "combine", "store", "done"}, tile : Nat, j : Nat, oacc : {0, 1},
           epi : {0, 1}, scale : {c.scale}, ok : {c.ok}]

LEMMA RegistersMove ==
    ASSUME NEW me, CorrectionRole(me), NEW p, NEW j \in Nat, NEW x, NEW k,
           p \in {"start", "tile", "second", "scale", "rescale", "sum", "oacc", "epi",
                  "combine", "store", "done"}
    PROVE  /\ CorrectionRegisters([me EXCEPT !.pc = p])
           /\ CorrectionRegisters([me EXCEPT !.pc = p, !.j = j])
           /\ CorrectionRegisters([me EXCEPT !.pc = p, !.scale = x])
           /\ CorrectionRegisters([me EXCEPT !.ok = k, !.j = j, !.pc = p])
           /\ CorrectionRegisters([me EXCEPT !.j = j, !.pc = p])
<1> USE DEF CorrectionRegisters
<1>0. CorrectionRegisters(me)
  BY DEF CorrectionRole
<1>1. CorrectionRegisters([me EXCEPT !.pc = p])
  BY <1>0
<1>2. CorrectionRegisters([me EXCEPT !.pc = p, !.j = j])
  BY <1>0
<1>3. CorrectionRegisters([me EXCEPT !.pc = p, !.scale = x])
  BY <1>0
<1>4. CorrectionRegisters([me EXCEPT !.ok = k, !.j = j, !.pc = p])
  BY <1>0
<1>5. CorrectionRegisters([me EXCEPT !.j = j, !.pc = p])
  BY <1>0
<1> QED BY <1>1, <1>2, <1>3, <1>4, <1>5

\* It moves on within a tile.
LEMMA RoleMove ==
    ASSUME Registers, NEW me, CorrectionRole(me), me.tile \in 1 .. Len(launch.work),
           NEW c, CorrectionRegisters(c), c.tile = me.tile, c.oacc = me.oacc, c.epi = me.epi,
           \/ Half(launch, me.tile) > 0 /\ c.pc \in {"scale", "rescale"} /\ c.j < 2 * Half(launch, me.tile) - 2
           \/ Half(launch, me.tile) > 0 /\ c.pc \in {"sum", "oacc"} /\ c.j < 2
           \/ Half(launch, me.tile) > 0 /\ c.pc = "second" /\ c.j = 0
           \/ c.pc \in {"epi", "combine", "store"} /\ c.j = 0
           \/ ~(Half(launch, me.tile) > 0) /\ c.pc = "tile" /\ c.j < 2
    PROVE  CorrectionRole(c)
<1>1. /\ c.tile \in 1 .. Len(launch.work) + 1 /\ c.tile <= Len(launch.work)
      /\ c.oacc = Works(launch, c.tile) % 2 /\ c.epi = c.tile % 2
  BY Tile DEF CorrectionRole
<1>2. /\ c.pc \notin {"start", "done"}
      /\ c.pc \in {"second", "scale", "rescale", "sum", "oacc"} => Half(launch, c.tile) > 0
      /\ c.pc = "tile" => ~(Half(launch, c.tile) > 0) /\ c.j < 2
      /\ c.pc \in {"scale", "rescale"} => c.j < 2 * Half(launch, c.tile) - 2
      /\ c.pc \in {"sum", "oacc"} => c.j < 2
      /\ c.pc \in {"second", "epi", "combine", "store"} => c.j = 0
  OBVIOUS
<1>3. Len(launch.work) \in Nat
  BY Tile
<1> QED BY <1>1, <1>2, <1>3 DEF CorrectionRole, CorrectionRegisters

LEMMA FirstStep ==
    ASSUME NEW st, Control(st), NEW w \in Warps, CorrectionFirst(w)
    PROVE  Control(st)'
<1> DEFINE me == co[w]
           h == Half(launch, me.tile)
           s == Steps(launch, me.tile)
<1>1. Registers /\ CorrectionRole(me) /\ named \in [Stage -> [Warps -> Nat]]
  BY CorrectionSees
<1>2. /\ me.tile \in 1 .. Len(launch.work) /\ N(me.tile) = 2 * h /\ h \in Nat /\ h > 0 /\ s \in Nat
      /\ me.j = 0 /\ me.tile \in Nat /\ me.tile >= 1 /\ me.pc \in {"tile", "second"}
  <2>1. me.tile \in 1 .. Len(launch.work) /\ HasWork(me.tile) /\ me.pc \in {"tile", "second"}
    BY <1>1, Tile DEF CorrectionFirst
  <2>2. N(me.tile) = 2 * h /\ h \in Nat /\ h > 0 /\ s \in Nat /\ me.tile \in 1 .. Len(launch.work) + 1
    BY <1>1, <2>1, Tile DEF CorrectionRole
  <2>3. me.j = 0 /\ me.tile \in Nat /\ me.tile >= 1
    BY <1>1, <2>1, <2>2 DEF CorrectionRole
  <2> QED BY <2>1, <2>2, <2>3
<1> DEFINE c == IF me.pc = "tile" THEN [me EXCEPT !.pc = "second"]
                ELSE IF N(me.tile) = 2 THEN [me EXCEPT !.pc = "sum", !.j = 0]
                ELSE [me EXCEPT !.pc = "scale", !.j = 0]
           g == IF me.pc = "tile" THEN 0 ELSE 1
           bars == IF me.pc = "tile" THEN {StatsEmpty(0)}
                   ELSE IF N(me.tile) = 2 THEN {StatsEmpty(1)} ELSE {}
<1>3. co' = [co EXCEPT ![w] = c] /\ Moves(bars) /\ Meet(g, w)
  <2>1. CASE me.pc = "tile"
    BY <2>1, MovesArrive DEF CorrectionFirst
  <2>2. CASE me.pc # "tile" /\ N(me.tile) = 2
    BY <1>1, <2>2, MovesArrive DEF CorrectionFirst
  <2>3. CASE me.pc # "tile" /\ N(me.tile) # 2
    <3>1. bars = {} /\ bar' = bar
      BY <2>3 DEF CorrectionFirst
    <3>2. co' = [co EXCEPT ![w] = c] /\ Meet(g, w)
      BY <2>3 DEF CorrectionFirst
    <3> HIDE DEF bars
    <3> QED BY <1>1, <3>1, <3>2, MovesNone
  <2> QED BY <2>1, <2>2, <2>3
<1>4. /\ c.tile = me.tile /\ c.j = 0
      /\ c.pc = (IF me.pc = "tile" THEN "second" ELSE IF h = 1 THEN "sum" ELSE "scale")
      /\ CorrectionRole(c)
  <2>2. c.pc = (IF me.pc = "tile" THEN "second" ELSE IF h = 1 THEN "sum" ELSE "scale")
    BY <1>1, <1>2 DEF CorrectionRole
  <2>3. c.tile = me.tile /\ c.j = 0 /\ c.oacc = me.oacc /\ c.epi = me.epi
    BY <1>1, <1>2 DEF CorrectionRole
  <2>5. CorrectionRegisters(c)
    <3>1. /\ CorrectionRegisters([me EXCEPT !.pc = "second"])
          /\ CorrectionRegisters([me EXCEPT !.pc = "sum", !.j = 0])
          /\ CorrectionRegisters([me EXCEPT !.pc = "scale", !.j = 0])
      BY <1>1, RegistersMove
    <3> QED BY <3>1
  <2> HIDE DEF c
  <2>4. CorrectionRole(c)
    <3>1. CASE me.pc = "tile"
      BY <1>1, <1>2, <2>2, <2>3, <2>5, <3>1, RoleMove
    <3>2. CASE me.pc # "tile" /\ h = 1
      BY <1>1, <1>2, <2>2, <2>3, <2>5, <3>2, RoleMove
    <3>3. CASE me.pc # "tile" /\ h # 1
      <4>1. 0 < 2 * Half(launch, me.tile) - 2 /\ c.pc = "scale"
        BY <1>2, <2>2, <3>3
      <4> QED BY <1>1, <1>2, <2>3, <2>5, <4>1, RoleMove
    <3> QED BY <3>1, <3>2, <3>3
  <2> QED BY <2>2, <2>3, <2>4
<1>5. /\ \A b \in bars : b[1] = "sm_stats" /\ b \in {StatsEmpty(0), StatsEmpty(1)}
      /\ \A x \in Stage : (StatsEmpty(x) \in bars) <=> (x = g /\ (me.pc = "tile" \/ h = 1))
      /\ g \in Stage
  BY <1>2, BarDiffer DEF StatsEmpty, Stage
<1>6. \A x \in Stage :
        /\ Lets(launch, c, x) = Lets(launch, me, x)
        /\ Waited(launch, c, x) = Waited(launch, me, x)
        /\ Meets(launch, me, x) = s + me.tile - 1 + (IF me.pc = "tile" THEN 0 ELSE 1 - x)
        /\ Returns(launch, me, x) = Meets(launch, me, x)
        /\ Meets(launch, c, x) = s + me.tile - 1 + (IF me.pc = "tile" THEN 1 - x ELSE 1)
        /\ Returns(launch, c, x) = s + me.tile - 1 + (IF me.pc = "tile" THEN 1 - x
                                                        ELSE IF h = 1 THEN 1 ELSE 1 - x)
  <2> HIDE DEF c, bars
  <2> SUFFICES ASSUME NEW x \in Stage
               PROVE  /\ Lets(launch, c, x) = Lets(launch, me, x)
                      /\ Waited(launch, c, x) = Waited(launch, me, x)
                      /\ Meets(launch, me, x) = s + me.tile - 1 + (IF me.pc = "tile" THEN 0 ELSE 1 - x)
                      /\ Returns(launch, me, x) = Meets(launch, me, x)
                      /\ Meets(launch, c, x) = s + me.tile - 1 + (IF me.pc = "tile" THEN 1 - x ELSE 1)
                      /\ Returns(launch, c, x) = s + me.tile - 1 + (IF me.pc = "tile" THEN 1 - x
                                                                      ELSE IF h = 1 THEN 1 ELSE 1 - x)
    OBVIOUS
  <2>1. OnStage(0, x) = 0 /\ OnStage(0, 1 - x) = 0 /\ x \in {0, 1} /\ If(0 > x) = 0 /\ 1 - x \in {0, 1}
    BY DEF OnStage, Stage, If
  <2>2. CASE me.pc = "tile"
    BY <1>2, <1>4, <2>1, <2>2 DEF Lets, Waited, Meets, Returns, AfterSteps
  <2>3. CASE me.pc # "tile" /\ h = 1
    <3>1. me.pc = "second" /\ c.pc = "sum"
      BY <1>2, <1>4, <2>3
    <3> QED BY <1>2, <1>4, <2>1, <2>3, <3>1 DEF Lets, Waited, Meets, Returns, AfterSteps
  <2>4. CASE me.pc # "tile" /\ h # 1
    <3>1. me.pc = "second" /\ c.pc = "scale" /\ If(c.pc = "rescale") = 0
      BY <1>2, <1>4, <2>4 DEF If
    <3> QED BY <1>2, <1>4, <2>1, <2>4, <3>1 DEF Lets, Waited, Meets, Returns, AfterSteps
  <2> QED BY <2>2, <2>3, <2>4
<1>20. Meet(g, w) /\ g \in Stage
  BY <1>3, <1>5
<1>21. c.pc \in {"second", "sum", "scale"}
  BY <1>4
<1>22. (me.pc = "tile" => g = 0) /\ (me.pc # "tile" => g = 1)
  OBVIOUS
<1>23. me.pc \notin {"combine", "store"}
  BY <1>2
<1> HIDE DEF c, bars, g
<1>7. FreesO(w, c, st[1], bars)
  <2>1. \A x \in Stage : SpoEmpty(x) \notin bars
    BY <1>5, WarpBarNames
  <2> QED BY <1>6, <2>1 DEF FreesO
<1>8. MeetsStats(w, c, bars)
  <2> HIDE DEF s, h
  <2>0. s + me.tile - 1 \in Nat
    BY <1>2
  <2>1. \A x \in Stage :
          /\ Meets(launch, me, x) \in Nat /\ Returns(launch, me, x) \in Nat
          /\ Meets(launch, c, x) = Meets(launch, me, x) + If(x = g)
    <3> SUFFICES ASSUME NEW x \in Stage
                 PROVE  /\ Meets(launch, me, x) \in Nat /\ Returns(launch, me, x) \in Nat
                        /\ Meets(launch, c, x) = Meets(launch, me, x) + If(x = g)
      OBVIOUS
    <3>1. x \in {0, 1}
      BY DEF Stage
    <3> QED BY <1>6, <1>22, <2>0, <3>1 DEF If
  <2>2. \A x \in Stage :
          /\ Returns(launch, c, x) = Returns(launch, me, x) + If(StatsEmpty(x) \in bars)
          /\ StatsEmpty(x) \in bars => x = g /\ Returns(launch, me, x) <= Meets(launch, me, x)
    <3> SUFFICES ASSUME NEW x \in Stage
                 PROVE  /\ Returns(launch, c, x) = Returns(launch, me, x) + If(StatsEmpty(x) \in bars)
                        /\ StatsEmpty(x) \in bars => x = g /\ Returns(launch, me, x) <= Meets(launch, me, x)
      OBVIOUS
    <3>1. x \in {0, 1}
      BY DEF Stage
    <3>2. If(StatsEmpty(x) \in bars) = (IF x = g /\ (me.pc = "tile" \/ h = 1) THEN 1 ELSE 0)
      BY <1>5 DEF If
    <3>3. Returns(launch, c, x) = Returns(launch, me, x) + If(StatsEmpty(x) \in bars)
      BY <1>6, <1>22, <2>0, <3>1, <3>2
    <3>4. StatsEmpty(x) \in bars => x = g /\ Returns(launch, me, x) <= Meets(launch, me, x)
      BY <1>5, <1>6, <2>1
    <3> QED BY <3>3, <3>4
  <2> QED BY <1>1, <1>20, <2>1, <2>2, MeetsOne
<1>9. StoresTile(w, c, bars)
  BY <1>4, <1>5, <1>21, <1>23, SameTile
<1>10. \A x \in Stage : Waited(launch, c, x) <= OnStage(st[1].last, x)
  BY <1>6, CorrectionSees
<1>11. /\ UNCHANGED <<launch, inflight, tc, ld, mm, sm, ep>> /\ named' \in [Stage -> [Warps -> Nat]]
  BY <1>1, <1>20, MeetEffect DEF CorrectionFirst, memory
<1>12. \A b \in bars : b[1] \in Released
  BY <1>5 DEF Released
<1> QED BY <1>3, <1>4, <1>7, <1>8, <1>9, <1>10, <1>11, <1>12, CorrectionTurn

LEMMA ScaleStep ==
    ASSUME NEW st, Control(st), NEW w \in Warps, CorrectionScale(w)
    PROVE  Control(st)'
<1> DEFINE me == co[w]
           g == me.j % 2
           c == [me EXCEPT !.pc = "rescale", !.scale = sScale[g][w]]
           h == Half(launch, me.tile)
           s == Steps(launch, me.tile)
<1>1. Registers /\ CorrectionRole(me) /\ named \in [Stage -> [Warps -> Nat]]
  BY CorrectionSees
<1>2. /\ me.pc = "scale" /\ me.tile \in 1 .. Len(launch.work) /\ h > 0 /\ me.j < 2 * h - 2 /\ me.j \in Nat
      /\ s \in Nat /\ me.tile \in Nat /\ me.tile >= 1
  <2>1. me.pc = "scale" /\ me.tile \in 1 .. Len(launch.work) /\ h > 0 /\ me.j < 2 * h - 2 /\ me.j \in Nat
    BY <1>1, Tile DEF CorrectionScale, CorrectionRole
  <2>2. s \in Nat /\ me.tile \in Nat /\ me.tile >= 1
    BY <1>1, <2>1, Tile DEF CorrectionRole
  <2> QED BY <2>1, <2>2
<1>3. co' = [co EXCEPT ![w] = c] /\ Moves({}) /\ Meet(g, w) /\ g \in Stage
  BY <1>1, <1>2, MovesNone DEF CorrectionScale, Stage
<1>4. /\ c.pc = "rescale" /\ c.tile = me.tile /\ c.j = me.j /\ CorrectionRole(c)
  <2>1. CorrectionRegisters(c)
    BY <1>1, RegistersMove
  <2>2. c.pc = "rescale" /\ c.tile = me.tile /\ c.j = me.j /\ c.oacc = me.oacc /\ c.epi = me.epi
    BY <1>1 DEF CorrectionRole
  <2> HIDE DEF c
  <2> QED BY <1>1, <1>2, <2>1, <2>2, RoleMove
<1> HIDE DEF c
<1>5. ASSUME NEW x \in Stage
      PROVE  /\ Meets(launch, me, x) \in Nat /\ Returns(launch, me, x) \in Nat
             /\ Meets(launch, c, x) = Meets(launch, me, x) + If(x = g)
             /\ Returns(launch, c, x) = Returns(launch, me, x)
  <2>1. Meets(launch, me, x) \in Nat /\ Returns(launch, me, x) \in Nat
    BY <1>1, CorrectionCounts
  <2>2. Returns(launch, c, x) = Returns(launch, me, x)
    BY <1>2, <1>4 DEF Returns
  <2>3. If(me.pc = "rescale") = 0 /\ If(c.pc = "rescale") = 1
    BY <1>2, <1>4 DEF If
  <2>4. /\ Meets(launch, me, x) = s + me.tile - 1 + (1 + OnStage(me.j, x))
        /\ Meets(launch, c, x) = s + me.tile - 1 + (1 + OnStage(me.j + 1, x))
    <3>1. Meets(launch, me, x) = s + me.tile - 1 + (1 + OnStage(me.j + If(me.pc = "rescale"), x))
      BY <1>2 DEF Meets
    <3>2. Meets(launch, c, x) = s + me.tile - 1 + (1 + OnStage(me.j + If(c.pc = "rescale"), x))
      BY <1>2, <1>4 DEF Meets
    <3>3. me.j + 0 = me.j
      BY <1>2
    <3> QED BY <2>3, <3>1, <3>2, <3>3
  <2>5. OnStage(me.j + 1, x) = OnStage(me.j, x) + If(x = g) /\ OnStage(me.j, x) \in Nat
    BY <1>2, Alternate
  <2>6. If(x = g) \in Nat
    BY DEF If
  <2> DEFINE d == If(x = g)
             a == OnStage(me.j, x)
             b == s + me.tile - 1
  <2>8. b \in Nat
    BY <1>2
  <2> HIDE DEF g, s, h, me
  <2>7. Meets(launch, c, x) = Meets(launch, me, x) + d
    <3>1. Meets(launch, me, x) = b + (1 + a) /\ Meets(launch, c, x) = b + (1 + (a + d)) /\ a \in Nat /\ d \in Nat
      BY <2>4, <2>5, <2>6
    <3> HIDE DEF a, b, d
    <3> QED BY <2>8, <3>1
  <2> QED BY <2>1, <2>2, <2>7 DEF me
<1>6. FreesO(w, c, st[1], {})
  BY <1>2, <1>4 DEF Lets, AfterSteps, FreesO
<1>7. MeetsStats(w, c, {})
  <2> HIDE DEF g
  <2>1. \A x \in Stage : Returns(launch, c, x) = Returns(launch, me, x) + If(StatsEmpty(x) \in {})
    BY <1>5 DEF If
  <2> QED BY <1>1, <1>3, <1>5, <2>1, MeetsOne
<1>8. StoresTile(w, c, {})
  BY <1>2, <1>4, SameTile
<1>9. \A x \in Stage : Waited(launch, c, x) <= OnStage(st[1].last, x)
  <2>1. \A x \in Stage : Waited(launch, c, x) = Waited(launch, me, x)
    BY <1>2, <1>4 DEF Waited
  <2> QED BY <2>1, CorrectionSees
<1>10. /\ UNCHANGED <<launch, inflight, tc, ld, mm, sm, ep>> /\ named' \in [Stage -> [Warps -> Nat]]
  BY <1>1, <1>3, MeetEffect DEF CorrectionScale, memory
<1> QED BY <1>3, <1>4, <1>6, <1>7, <1>8, <1>9, <1>10, CorrectionTurn

\* The softmax warp is one step ahead, so the tensor core is done with O.
LEMMA RescaleAhead ==
    ASSUME NEW st, Control(st), NEW w \in Warps, co[w].pc = "rescale", NEW g \in Stage, g = co[w].j % 2
    PROVE  /\ Lets(launch, co[w], g) + 1 <= OnStage(st[1].qk, g)
           /\ Lets(launch, co[w], g) <= OnStage(Issued(launch, mm).pv2, g)
<1> DEFINE me == co[w]
           h == Half(launch, me.tile)
           s == Steps(launch, me.tile)
           m == OnStage(me.j, g) + 2
<1>1. Registers /\ CorrectionRole(me) /\ MmaRole /\ Queue(st)
  BY CorrectionSees DEF Control
<1>2. /\ me.tile \in 1 .. Len(launch.work) /\ h > 0 /\ h \in Nat /\ me.j < 2 * h - 2 /\ me.j \in Nat
      /\ s \in Nat /\ me.tile \in Nat
  <2>1. me.tile \in 1 .. Len(launch.work) /\ h > 0 /\ me.j < 2 * h - 2 /\ me.j \in Nat
    BY <1>1, Tile DEF CorrectionRole
  <2>2. s \in Nat /\ me.tile \in Nat /\ h \in Nat
    BY <1>1, <2>1, Tile DEF CorrectionRole
  <2> QED BY <2>1, <2>2
<1>3. OnStage(me.j, g) \in Nat /\ OnStage(me.j, g) + 2 <= h
  <2>1. OnStage(me.j, g) = me.j \div 2 /\ me.j \div 2 \in Nat
    BY <1>2, OwnStage
  <2>2. 2 * (me.j \div 2) <= me.j
    BY <1>2
  <2> QED BY <1>2, <2>1, <2>2
<1>4. Meets(launch, me, g) = s + me.tile - 1 + (1 + (OnStage(me.j, g) + 1))
  <2>1. Meets(launch, me, g) = s + me.tile - 1 + (1 + OnStage(me.j + 1, g))
    BY DEF Meets, If
  <2>2. OnStage(me.j + 1, g) = OnStage(me.j, g) + 1
    BY <1>2, Alternate DEF If
  <2> QED BY <2>1, <2>2
<1>5. /\ SoftmaxRole(sm[g][w]) /\ Signals(launch, sm[g][w]) = Meets(launch, me, g) + named[g][w]
      /\ named[g][w] \in Nat /\ Reads(launch, sm[g][w]) <= OnStage(st[1].qk, g)
  BY SoftmaxSees
<1>6. Reads(launch, sm[g][w]) >= s + m
  <2>1. m \in Nat /\ 1 <= m /\ m <= h
    BY <1>2, <1>3
  <2>2. Signals(launch, sm[g][w]) >= s + (me.tile - 1) + m
    <3> HIDE DEF s, h, me
    <3>1. s + me.tile - 1 + (1 + (OnStage(me.j, g) + 1)) = s + (me.tile - 1) + m
      BY <1>2, <1>3
    <3>2. s + (me.tile - 1) + m \in Int
      BY <1>2, <1>3
    <3> QED BY <1>4, <1>5, <3>1, <3>2
  <2> QED BY <1>1, <1>2, <1>5, <2>1, <2>2, SignalMeansRead
<1>7. Lets(launch, me, g) = 1 + s + OnStage(me.j, g)
  BY DEF Lets
<1>8. /\ OnStage(st[1].qk, g) \in Nat /\ OnStage(Issued(launch, mm).pv2, g) \in Nat
      /\ OnStage(Issued(launch, mm).qk, g) \in Nat
      /\ OnStage(st[1].qk, g) <= OnStage(Issued(launch, mm).qk, g)
      /\ OnStage(Issued(launch, mm).qk, g) <= OnStage(Issued(launch, mm).pv2, g) + 1
  BY <1>1, StageCounts
<1>9. Reads(launch, sm[g][w]) \in Nat
  BY <1>1, <1>5, SoftmaxCounts
<1>10. Lets(launch, me, g) + 1 <= Reads(launch, sm[g][w]) /\ Lets(launch, me, g) \in Nat
  <2> HIDE DEF s, h, me
  <2> QED BY <1>2, <1>3, <1>6, <1>7, <1>9
<1> HIDE DEF me
<1>11. Lets(launch, me, g) + 1 <= OnStage(st[1].qk, g)
  BY <1>5, <1>8, <1>9, <1>10
<1>12. Lets(launch, me, g) <= OnStage(Issued(launch, mm).pv2, g)
  BY <1>8, <1>10, <1>11
<1> QED BY <1>11, <1>12 DEF me

LEMMA RescaleStep ==
    ASSUME NEW st, Control(st), NEW w \in Warps, CorrectionRescale(w)
    PROVE  Control(st)'
<1> DEFINE me == co[w]
           g == me.j % 2
           a == me.j \div 2
           last == me.j + 1 = N(me.tile) - 2
           c == IF last THEN [me EXCEPT !.pc = "sum", !.j = 0]
                ELSE [me EXCEPT !.pc = "scale", !.j = me.j + 1]
           bars == {SpoEmpty(g), StatsEmpty(1 - g)} \cup (IF last THEN {StatsEmpty(1)} ELSE {})
           h == Half(launch, me.tile)
           s == Steps(launch, me.tile)
           b == s + me.tile - 1
<1>1. Registers /\ CorrectionRole(me) /\ named \in [Stage -> [Warps -> Nat]]
  BY CorrectionSees
<1>2. /\ me.pc = "rescale" /\ me.tile \in 1 .. Len(launch.work) /\ h > 0 /\ me.j < 2 * h - 2 /\ me.j \in Nat
      /\ s \in Nat /\ h \in Nat /\ N(me.tile) = 2 * h /\ b \in Nat
  <2>1. me.pc = "rescale" /\ me.tile \in 1 .. Len(launch.work) /\ h > 0 /\ me.j < 2 * h - 2 /\ me.j \in Nat
    BY <1>1, Tile DEF CorrectionRescale, CorrectionRole
  <2>2. s \in Nat /\ me.tile \in Nat /\ me.tile >= 1 /\ h \in Nat /\ N(me.tile) = 2 * h
    BY <1>1, <2>1, Tile DEF CorrectionRole
  <2> QED BY <2>1, <2>2
<1>3. co' = [co EXCEPT ![w] = c] /\ Moves(bars)
  <2>1. Arrive(bars)
    BY DEF CorrectionRescale
  <2>4. co' = [co EXCEPT ![w] = c]
    <3>1. CASE last
      BY <3>1 DEF CorrectionRescale
    <3>2. CASE ~last
      BY <3>2, Zenon DEF CorrectionRescale
    <3> QED BY <3>1, <3>2
  <2> HIDE DEF bars, c
  <2> QED BY <2>1, <2>4, MovesArrive
<1>4. /\ g \in Stage /\ a \in Nat /\ me.j = 2 * a + g
      /\ OnStage(me.j, g) = a /\ OnStage(me.j, 1 - g) = a + g
      /\ OnStage(me.j + 1, g) = a + 1 /\ OnStage(me.j + 1, 1 - g) = a + g
  BY <1>2, OwnStage
<1>5. last <=> (g = 1 /\ a = h - 2)
  <2>1. last <=> me.j + 1 = 2 * h - 2
    BY <1>2
  <2>2. g \in {0, 1} /\ me.j = 2 * a + g /\ a \in Nat /\ h \in Nat
    BY <1>2, <1>4 DEF Stage
  <2> HIDE DEF g, a, h, last, me
  <2>3. CASE g = 0
    BY <2>1, <2>2, <2>3
  <2>4. CASE g = 1
    BY <2>1, <2>2, <2>4
  <2> QED BY <2>2, <2>3, <2>4
<1>6. /\ c.tile = me.tile /\ c.pc = (IF last THEN "sum" ELSE "scale") /\ c.j = (IF last THEN 0 ELSE me.j + 1)
      /\ CorrectionRole(c)
  <2>1. CASE last
    <3>1. CorrectionRegisters([me EXCEPT !.pc = "sum", !.j = 0])
      BY <1>1, RegistersMove
    <3>2. c = [me EXCEPT !.pc = "sum", !.j = 0]
      BY <2>1
    <3>3. c.tile = me.tile /\ c.pc = "sum" /\ c.j = 0 /\ c.oacc = me.oacc /\ c.epi = me.epi
      BY <1>1, <3>2 DEF CorrectionRole
    <3> HIDE DEF c
    <3>4. CorrectionRegisters(c) /\ 0 < 2
      BY <3>1, <3>2
    <3>5. CorrectionRole(c)
      BY <1>1, <1>2, <3>3, <3>4, RoleMove
    <3> QED BY <2>1, <3>3, <3>5
  <2>2. CASE ~last
    <3>0. me.j + 1 \in Nat /\ me.j + 1 < 2 * h - 2
      BY <1>2, <2>2
    <3>1. CorrectionRegisters([me EXCEPT !.pc = "scale", !.j = me.j + 1])
      BY <1>1, <3>0, RegistersMove
    <3>2. c = [me EXCEPT !.pc = "scale", !.j = me.j + 1]
      BY <1>1, <2>2 DEF CorrectionRole
    <3>3. c.tile = me.tile /\ c.pc = "scale" /\ c.j = me.j + 1 /\ c.oacc = me.oacc /\ c.epi = me.epi
      BY <1>1, <3>2 DEF CorrectionRole
    <3> HIDE DEF c
    <3>4. CorrectionRegisters(c)
      BY <3>1, <3>2
    <3>5. CorrectionRole(c)
      BY <1>1, <1>2, <3>0, <3>3, <3>4, RoleMove
    <3> QED BY <2>2, <3>3, <3>5
  <2> QED BY <2>1, <2>2
<1>7. /\ SpoEmpty(g) \in bars /\ SpoEmpty(1 - g) \notin bars /\ StatsEmpty(1 - g) \in bars
      /\ StatsEmpty(g) \in bars <=> last
      /\ \A y \in bars : y[1] \in {"spo_empty", "sm_stats"}
  <2>1. g \in {0, 1}
    BY <1>4 DEF Stage
  <2> QED BY <1>5, <2>1 DEF SpoEmpty, StatsEmpty
<1> HIDE DEF c, bars
<1>8. If(me.pc = "rescale") = 1 /\ If(c.pc = "rescale") = 0
  BY <1>2, <1>6 DEF If
<1>9. ASSUME NEW x \in Stage
      PROVE  /\ Lets(launch, me, x) = 1 + s + OnStage(me.j, x)
             /\ Lets(launch, c, x) = 1 + s + (IF last THEN h - 1 ELSE OnStage(me.j + 1, x))
             /\ Meets(launch, me, x) = b + (1 + OnStage(me.j + 1, x))
             /\ Meets(launch, c, x) = b + (IF last THEN h ELSE 1 + OnStage(me.j + 1, x))
             /\ Returns(launch, me, x) = b + ((1 - x) + OnStage(me.j, 1 - x))
             /\ Returns(launch, c, x) = b + (IF last THEN h ELSE (1 - x) + OnStage(me.j + 1, 1 - x))
             /\ Waited(launch, c, x) = Waited(launch, me, x)
  <2>1. /\ Lets(launch, me, x) = 1 + s + OnStage(me.j, x)
        /\ Meets(launch, me, x) = b + (1 + OnStage(me.j + 1, x))
        /\ Returns(launch, me, x) = b + ((1 - x) + OnStage(me.j, 1 - x))
    BY <1>2, <1>8 DEF Lets, Meets, Returns
  <2>2. CASE last
    <3>1. c.pc = "sum" /\ c.j = 0 /\ c.tile = me.tile /\ h > 0
      BY <1>2, <1>6, <2>2
    <3>2. If(c.pc # "sum" \/ c.j > x) = 0
      BY <3>1 DEF If, Stage
    <3>3. h + 0 = h /\ 1 + s + (h - 1) = 1 + s + h - 1
      BY <1>2
    <3>4. Lets(launch, c, x) = 1 + s + (h - 1)
      BY <3>1, <3>3 DEF Lets, AfterSteps
    <3>5. Meets(launch, c, x) = b + h /\ Returns(launch, c, x) = b + h
      BY <3>1, <3>2, <3>3 DEF Meets, Returns
    <3>6. Waited(launch, c, x) = Waited(launch, me, x)
      BY <1>2, <3>1 DEF Waited
    <3> QED BY <2>1, <2>2, <3>4, <3>5, <3>6
  <2>3. CASE ~last
    <3>1. c.pc = "scale" /\ c.j = me.j + 1 /\ c.tile = me.tile /\ c.j + 0 = me.j + 1
      BY <1>2, <1>6, <2>3
    <3>2. Lets(launch, c, x) = 1 + s + OnStage(me.j + 1, x)
      BY <3>1 DEF Lets
    <3>3. /\ Meets(launch, c, x) = b + (1 + OnStage(me.j + 1, x))
          /\ Returns(launch, c, x) = b + ((1 - x) + OnStage(me.j + 1, 1 - x))
      BY <1>8, <3>1 DEF Meets, Returns
    <3>4. Waited(launch, c, x) = Waited(launch, me, x)
      BY <1>2, <3>1 DEF Waited
    <3> QED BY <2>1, <2>3, <3>2, <3>3, <3>4
  <2> QED BY <2>2, <2>3
<1>10. g \in {0, 1} /\ 1 - g \in Stage /\ 1 - (1 - g) = g /\ (\A x \in Stage : x = g \/ x = 1 - g)
  BY <1>4 DEF Stage
<1>11. /\ Lets(launch, c, g) = Lets(launch, me, g) + 1 /\ Lets(launch, c, 1 - g) = Lets(launch, me, 1 - g)
       /\ \A x \in Stage : Meets(launch, c, x) = Meets(launch, me, x)
       /\ Returns(launch, c, 1 - g) = Returns(launch, me, 1 - g) + 1
       /\ Meets(launch, c, 1 - g) >= Returns(launch, me, 1 - g) + 1
       /\ Returns(launch, c, g) = Returns(launch, me, g) + If(last)
       /\ last => Meets(launch, c, g) >= Returns(launch, me, g) + 1
  <2> DEFINE LastOne == last
  <2>1. /\ Lets(launch, me, g) = 1 + s + a
        /\ Lets(launch, me, 1 - g) = 1 + s + (a + g)
        /\ Lets(launch, c, g) = 1 + s + (IF LastOne THEN h - 1 ELSE a + 1)
        /\ Lets(launch, c, 1 - g) = 1 + s + (IF LastOne THEN h - 1 ELSE a + g)
        /\ Meets(launch, me, g) = b + (1 + (a + 1))
        /\ Meets(launch, me, 1 - g) = b + (1 + (a + g))
        /\ Meets(launch, c, g) = b + (IF LastOne THEN h ELSE 1 + (a + 1))
        /\ Meets(launch, c, 1 - g) = b + (IF LastOne THEN h ELSE 1 + (a + g))
        /\ Returns(launch, me, g) = b + ((1 - g) + (a + g))
        /\ Returns(launch, me, 1 - g) = b + (g + a)
        /\ Returns(launch, c, g) = b + (IF LastOne THEN h ELSE (1 - g) + (a + g))
        /\ Returns(launch, c, 1 - g) = b + (IF LastOne THEN h ELSE g + (a + 1))
    BY <1>4, <1>9, <1>10
  <2>2. LastOne <=> (g = 1 /\ a = h - 2)
    BY <1>5
  <2>3. b \in Nat /\ s \in Nat /\ h \in Nat /\ a \in Nat /\ g \in {0, 1} /\ LastOne \in BOOLEAN
    BY <1>2, <1>4, <1>10
  <2> HIDE DEF LastOne, b, s, h, a, g, me
  <2>4. CASE LastOne
    <3>1. \A x \in Stage : Meets(launch, c, x) = Meets(launch, me, x)
      BY <1>10, <2>1, <2>2, <2>3, <2>4
    <3>2. If(LastOne) = 1
      BY <2>4 DEF If
    <3> QED BY <2>1, <2>2, <2>3, <2>4, <3>1, <3>2 DEF LastOne
  <2>5. CASE ~LastOne
    <3>1. \A x \in Stage : Meets(launch, c, x) = Meets(launch, me, x)
      BY <1>10, <2>1, <2>3, <2>5
    <3>2. If(LastOne) = 0
      BY <2>5 DEF If
    <3> QED BY <2>1, <2>3, <2>5, <3>1, <3>2 DEF LastOne
  <2> QED BY <2>4, <2>5
<1>20. /\ named' = named /\ UNCHANGED <<launch, inflight, tc, ld, mm, sm, ep>>
       /\ me.pc \notin {"combine", "store"} /\ c.pc \in {"sum", "scale"}
  BY <1>2, <1>6 DEF CorrectionRescale
<1>12. FreesO(w, c, st[1], bars)
  <2>1. Lets(launch, me, g) <= OnStage(Issued(launch, mm).pv2, g)
    BY <1>2, <1>4, RescaleAhead
  <2> HIDE DEF g
  <2> QED BY <1>7, <1>10, <1>11, <2>1 DEF FreesO
<1>13. MeetsStats(w, c, bars)
  <2>1. CASE last
    <3>1. If(last) = 1
      BY <2>1 DEF If
    <3> HIDE DEF last, g
    <3> QED BY <1>7, <1>10, <1>11, <1>20, <2>1, <3>1 DEF MeetsStats
  <2>2. CASE ~last
    <3>1. If(last) = 0 /\ Returns(launch, me, g) \in Nat
      BY <1>1, <1>4, <2>2, CorrectionCounts DEF If
    <3> HIDE DEF last, g
    <3> QED BY <1>7, <1>10, <1>11, <1>20, <2>2, <3>1 DEF MeetsStats
  <2> QED BY <2>1, <2>2
<1>14. StoresTile(w, c, bars)
  BY <1>6, <1>7, <1>20, SameTile
<1>15. \A x \in Stage : Waited(launch, c, x) <= OnStage(st[1].last, x)
  BY <1>9, CorrectionSees
<1>16. \A y \in bars : y[1] \in Released
  BY <1>7 DEF Released
<1> QED BY <1>1, <1>3, <1>6, <1>12, <1>13, <1>14, <1>15, <1>16, <1>20, CorrectionTurn

LEMMA SumStep ==
    ASSUME NEW st, Control(st), NEW w \in Warps, CorrectionSum(w)
    PROVE  Control(st)'
<1> DEFINE me == co[w]
           g == me.j
           sum == [k |-> "sum", tile |-> me.tile, n |-> N(me.tile) \div 2]
           c == [me EXCEPT !.ok = me.ok /\ sScale[me.j][w] = sum, !.j = 1 - me.j,
                           !.pc = IF me.j = 1 THEN "oacc" ELSE "sum"]
           h == Half(launch, me.tile)
           b == Steps(launch, me.tile) + me.tile - 1
<1>1. Registers /\ CorrectionRole(me) /\ named \in [Stage -> [Warps -> Nat]]
  BY CorrectionSees
<1>2. /\ me.pc = "sum" /\ me.tile \in 1 .. Len(launch.work) /\ h > 0 /\ h \in Nat /\ b \in Nat
      /\ g \in {0, 1} /\ g \in Stage
  <2>1. me.pc = "sum" /\ me.tile \in 1 .. Len(launch.work) /\ h > 0 /\ g \in {0, 1}
    <3>1. me.pc = "sum" /\ me.tile \in 1 .. Len(launch.work) /\ h > 0
      BY <1>1, Tile DEF CorrectionSum, CorrectionRole
    <3>2. me.j \in Nat /\ me.j < 2
      BY <1>1, <3>1 DEF CorrectionRole
    <3> QED BY <3>1, <3>2
  <2>2. h \in Nat /\ Steps(launch, me.tile) \in Nat /\ me.tile \in Nat /\ me.tile >= 1
    BY <1>1, <2>1, Tile DEF CorrectionRole
  <2> QED BY <2>1, <2>2 DEF Stage
<1>3. co' = [co EXCEPT ![w] = c] /\ Moves({StatsEmpty(g)}) /\ Meet(g, w)
  <2>1. co' = [co EXCEPT ![w] = c] /\ Meet(g, w) /\ Arrive({StatsEmpty(g)})
    BY DEF CorrectionSum
  <2> QED BY <2>1, MovesArrive
<1>4. /\ c.tile = me.tile /\ c.pc = (IF g = 1 THEN "oacc" ELSE "sum") /\ c.j = 1 - g /\ CorrectionRole(c)
  <2>1. CorrectionRegisters(c)
    <3> DEFINE k == me.ok /\ sScale[me.j][w] = sum
               i == 1 - me.j
               p == IF me.j = 1 THEN "oacc" ELSE "sum"
    <3>1. i \in Nat /\ p \in {"oacc", "sum"}
      BY <1>2
    <3>2. c = [me EXCEPT !.ok = k, !.j = i, !.pc = p]
      OBVIOUS
    <3> HIDE DEF k, i, p, c
    <3>3. CorrectionRegisters([me EXCEPT !.ok = k, !.j = i, !.pc = p])
      BY <1>1, <3>1 DEF CorrectionRole, CorrectionRegisters
    <3> QED BY <3>2, <3>3
  <2>2. /\ c.tile = me.tile /\ c.pc = (IF g = 1 THEN "oacc" ELSE "sum") /\ c.j = 1 - g
        /\ c.oacc = me.oacc /\ c.epi = me.epi
    BY <1>1 DEF CorrectionRole
  <2> HIDE DEF c
  <2>3. c.pc \in {"sum", "oacc"} /\ c.j < 2
    BY <1>2, <2>2
  <2> QED BY <1>1, <1>2, <2>1, <2>2, <2>3, RoleMove
<1> HIDE DEF c
<1>5. ASSUME NEW x \in Stage
      PROVE  /\ Meets(launch, me, x) \in Nat /\ Returns(launch, me, x) \in Nat
             /\ Meets(launch, c, x) = Meets(launch, me, x) + If(x = g)
             /\ Returns(launch, c, x) = Returns(launch, me, x) + If(x = g)
             /\ Returns(launch, me, x) = Meets(launch, me, x)
             /\ Lets(launch, c, x) = Lets(launch, me, x)
             /\ Waited(launch, c, x) = Waited(launch, me, x)
  <2>1. Meets(launch, me, x) \in Nat /\ Returns(launch, me, x) \in Nat
    BY <1>1, CorrectionCounts
  <2>2. /\ Meets(launch, me, x) = b + (h + If(g > x)) /\ Returns(launch, me, x) = b + (h + If(g > x))
    BY <1>2 DEF Meets, Returns
  <2>3. /\ Meets(launch, c, x) = b + (h + If(c.pc # "sum" \/ c.j > x))
        /\ Returns(launch, c, x) = b + (h + If(c.pc # "sum" \/ c.j > x))
    BY <1>4 DEF Meets, Returns
  <2>4. If(c.pc # "sum" \/ c.j > x) = If(g > x) + If(x = g) /\ If(g > x) \in Nat /\ If(x = g) \in Nat
    BY <1>2, <1>4 DEF If, Stage
  <2>5. Lets(launch, c, x) = Lets(launch, me, x)
    BY <1>2, <1>4 DEF Lets, AfterSteps
  <2>6. Waited(launch, c, x) = Waited(launch, me, x)
    <3>3. Waited(launch, me, x) = Works(launch, me.tile) + 0
      BY <1>2 DEF Waited, If
    <3>4. Waited(launch, c, x) = Works(launch, c.tile) + 0
      <4>1. CASE g = 0
        BY <1>4, <4>1 DEF Waited, If
      <4>2. CASE g = 1
        <5>1. c.pc = "oacc" /\ c.j = 0 /\ ~(0 > x)
          BY <1>4, <4>2 DEF Stage
        <5> QED BY <5>1 DEF Waited, If
      <4> QED BY <1>2, <4>1, <4>2
    <3> QED BY <1>4, <3>3, <3>4
  <2> DEFINE i == If(g > x)
             k == If(x = g)
  <2>7. b + (h + (i + k)) = b + (h + i) + k
    <3>1. i \in Nat /\ k \in Nat
      BY <2>4
    <3> HIDE DEF i, k, b, h
    <3> QED BY <1>2, <3>1
  <2> QED BY <2>1, <2>2, <2>3, <2>4, <2>5, <2>6, <2>7
<1>6. FreesO(w, c, st[1], {StatsEmpty(g)})
  <2>1. \A x \in Stage : SpoEmpty(x) \notin {StatsEmpty(g)}
    BY DEF SpoEmpty, StatsEmpty
  <2> QED BY <1>5, <2>1 DEF FreesO
<1>7. MeetsStats(w, c, {StatsEmpty(g)})
  <2>1. \A x \in Stage : StatsEmpty(x) \in {StatsEmpty(g)} <=> x = g
    BY BarDiffer
  <2>2. \A x \in Stage : If(StatsEmpty(x) \in {StatsEmpty(g)}) = If(x = g)
    BY <2>1 DEF If
  <2>3. \A x \in Stage : Returns(launch, c, x) = Returns(launch, me, x) + If(StatsEmpty(x) \in {StatsEmpty(g)})
    BY <1>5, <2>2
  <2>4. \A x \in Stage : StatsEmpty(x) \in {StatsEmpty(g)} => x = g /\ Returns(launch, me, x) <= Meets(launch, me, x)
    BY <1>5, <2>1
  <2>5. \A x \in Stage : /\ Meets(launch, me, x) \in Nat /\ Returns(launch, me, x) \in Nat
                           /\ Meets(launch, c, x) = Meets(launch, me, x) + If(x = g)
    BY <1>5
  <2> DEFINE bars == {StatsEmpty(g)}
  <2> HIDE DEF g, bars
  <2>6. MeetsStats(w, c, bars)
    BY <1>1, <1>2, <1>3, <2>3, <2>4, <2>5, MeetsOne DEF bars
  <2> QED BY <2>6 DEF bars
<1>8. StoresTile(w, c, {StatsEmpty(g)})
  <2>1. \A y \in {StatsEmpty(g)} : y[1] \in {"spo_empty", "sm_stats"}
    BY DEF StatsEmpty
  <2>2. c.pc \notin {"combine", "store", "done"} /\ me.pc \notin {"combine", "store"}
    BY <1>2, <1>4
  <2> QED BY <1>4, <2>1, <2>2, SameTile
<1>9. \A x \in Stage : Waited(launch, c, x) <= OnStage(st[1].last, x)
  BY <1>5, CorrectionSees
<1>10. /\ UNCHANGED <<launch, inflight, tc, ld, mm, sm, ep>> /\ named' \in [Stage -> [Warps -> Nat]]
  BY <1>1, <1>2, <1>3, MeetEffect DEF CorrectionSum, memory
<1>11. \A y \in {StatsEmpty(g)} : y[1] \in Released
  BY DEF StatsEmpty, Released
<1> HIDE DEF g
<1> QED BY <1>3, <1>4, <1>6, <1>7, <1>8, <1>9, <1>10, <1>11, CorrectionTurn

LEMMA EmptyStep ==
    ASSUME NEW st, Control(st), NEW w \in Warps, CorrectionEmpty(w)
    PROVE  Control(st)'
<1> DEFINE me == co[w]
           g == me.j
           c == [me EXCEPT !.j = 1 - me.j, !.pc = IF me.j = 1 THEN "epi" ELSE "tile"]
           h == Half(launch, me.tile)
           b == Steps(launch, me.tile) + me.tile - 1
<1>1. Registers /\ CorrectionRole(me) /\ named \in [Stage -> [Warps -> Nat]]
  BY CorrectionSees
<1>2. /\ me.pc = "tile" /\ me.tile \in 1 .. Len(launch.work) /\ ~(h > 0) /\ h = 0 /\ b \in Nat
      /\ g \in {0, 1} /\ g \in Stage
  <2>1. me.pc = "tile" /\ me.tile \in 1 .. Len(launch.work) /\ ~(h > 0) /\ g \in {0, 1}
    <3>1. me.pc = "tile" /\ me.tile \in 1 .. Len(launch.work) /\ ~(h > 0)
      BY <1>1, Tile DEF CorrectionEmpty, CorrectionRole
    <3>2. me.j \in Nat /\ me.j < 2
      BY <1>1, <3>1 DEF CorrectionRole
    <3> QED BY <3>1, <3>2
  <2>2. h \in Nat /\ Steps(launch, me.tile) \in Nat /\ me.tile \in Nat /\ me.tile >= 1
    BY <1>1, <2>1, Tile DEF CorrectionRole
  <2> QED BY <2>1, <2>2 DEF Stage
<1>3. co' = [co EXCEPT ![w] = c] /\ Moves({StatsEmpty(g)}) /\ Meet(g, w)
  <2>1. co' = [co EXCEPT ![w] = c] /\ Meet(g, w) /\ Arrive({StatsEmpty(g)})
    BY DEF CorrectionEmpty
  <2> QED BY <2>1, MovesArrive
<1>4. /\ c.tile = me.tile /\ c.pc = (IF g = 1 THEN "epi" ELSE "tile") /\ c.j = 1 - g /\ CorrectionRole(c)
  <2>1. CorrectionRegisters(c)
    <3>1. 1 - me.j \in Nat
      BY <1>2
    <3> QED BY <1>1, <3>1, RegistersMove
  <2>2. /\ c.tile = me.tile /\ c.pc = (IF g = 1 THEN "epi" ELSE "tile") /\ c.j = 1 - g
        /\ c.oacc = me.oacc /\ c.epi = me.epi
    BY <1>1 DEF CorrectionRole
  <2> HIDE DEF c
  <2>3. (c.pc = "epi" /\ c.j = 0) \/ (c.pc = "tile" /\ c.j < 2)
    BY <1>2, <2>2
  <2>4. CorrectionRole(c)
    <3>1. CASE c.pc = "epi" /\ c.j = 0
      BY <1>1, <1>2, <2>1, <2>2, <3>1, RoleMove
    <3>2. CASE c.pc = "tile" /\ c.j < 2
      BY <1>1, <1>2, <2>1, <2>2, <3>2, RoleMove
    <3> QED BY <2>3, <3>1, <3>2
  <2> QED BY <2>2, <2>4
<1> HIDE DEF c
<1>5. ASSUME NEW x \in Stage
      PROVE  /\ Meets(launch, me, x) \in Nat /\ Returns(launch, me, x) \in Nat
             /\ Meets(launch, c, x) = Meets(launch, me, x) + If(x = g)
             /\ Returns(launch, c, x) = Returns(launch, me, x) + If(x = g)
             /\ Returns(launch, me, x) = Meets(launch, me, x)
             /\ Lets(launch, c, x) = Lets(launch, me, x)
             /\ Waited(launch, c, x) = Waited(launch, me, x)
  <2>1. Meets(launch, me, x) \in Nat /\ Returns(launch, me, x) \in Nat
    BY <1>1, CorrectionCounts
  <2>2. Meets(launch, me, x) = b + If(g > x) /\ Returns(launch, me, x) = b + If(g > x)
    BY <1>2 DEF Meets, Returns
  <2>3. Meets(launch, c, x) = b + (If(g > x) + If(x = g)) /\ Returns(launch, c, x) = b + (If(g > x) + If(x = g))
    <3>1. CASE g = 0
      <4>1. c.pc = "tile" /\ c.j = 1 /\ If(1 > x) = If(g > x) + If(x = g)
        BY <1>4, <3>1 DEF If, Stage
      <4> QED BY <1>4, <4>1 DEF Meets, Returns
    <3>2. CASE g = 1
      <4>1. c.pc = "epi" /\ 0 + 1 = If(g > x) + If(x = g) /\ If(c.pc # "sum" \/ c.j > x) = 1
        BY <1>4, <3>2 DEF If, Stage
      <4> QED BY <1>2, <1>4, <4>1 DEF Meets, Returns
    <3> QED BY <1>2, <3>1, <3>2
  <2>4. If(g > x) \in Nat /\ If(x = g) \in Nat
    BY DEF If
  <2>5. Lets(launch, c, x) = Lets(launch, me, x)
    BY <1>2, <1>4 DEF Lets, AfterSteps
  <2>6. Waited(launch, c, x) = Waited(launch, me, x)
    BY <1>2, <1>4 DEF Waited
  <2> DEFINE i == If(g > x)
             k == If(x = g)
  <2>7. b + (i + k) = b + i + k
    <3>1. i \in Nat /\ k \in Nat
      BY <2>4
    <3> HIDE DEF i, k, b
    <3> QED BY <1>2, <3>1
  <2> QED BY <2>1, <2>2, <2>3, <2>4, <2>5, <2>6, <2>7
<1>6. FreesO(w, c, st[1], {StatsEmpty(g)})
  <2>1. \A x \in Stage : SpoEmpty(x) \notin {StatsEmpty(g)}
    BY DEF SpoEmpty, StatsEmpty
  <2> QED BY <1>5, <2>1 DEF FreesO
<1>7. MeetsStats(w, c, {StatsEmpty(g)})
  <2>1. \A x \in Stage : StatsEmpty(x) \in {StatsEmpty(g)} <=> x = g
    BY BarDiffer
  <2>2. \A x \in Stage : If(StatsEmpty(x) \in {StatsEmpty(g)}) = If(x = g)
    BY <2>1 DEF If
  <2>3. \A x \in Stage : Returns(launch, c, x) = Returns(launch, me, x) + If(StatsEmpty(x) \in {StatsEmpty(g)})
    BY <1>5, <2>2
  <2>4. \A x \in Stage : StatsEmpty(x) \in {StatsEmpty(g)} => x = g /\ Returns(launch, me, x) <= Meets(launch, me, x)
    BY <1>5, <2>1
  <2>5. \A x \in Stage : /\ Meets(launch, me, x) \in Nat /\ Returns(launch, me, x) \in Nat
                           /\ Meets(launch, c, x) = Meets(launch, me, x) + If(x = g)
    BY <1>5
  <2> DEFINE bars == {StatsEmpty(g)}
  <2> HIDE DEF g, bars
  <2>6. MeetsStats(w, c, bars)
    BY <1>1, <1>2, <1>3, <2>3, <2>4, <2>5, MeetsOne DEF bars
  <2> QED BY <2>6 DEF bars
<1>8. StoresTile(w, c, {StatsEmpty(g)})
  <2>1. \A y \in {StatsEmpty(g)} : y[1] \in {"spo_empty", "sm_stats"}
    BY DEF StatsEmpty
  <2>2. c.pc \notin {"combine", "store", "done"} /\ me.pc \notin {"combine", "store"}
    BY <1>2, <1>4
  <2> QED BY <1>4, <2>1, <2>2, SameTile
<1>9. \A x \in Stage : Waited(launch, c, x) <= OnStage(st[1].last, x)
  BY <1>5, CorrectionSees
<1>10. /\ UNCHANGED <<launch, inflight, tc, ld, mm, sm, ep>> /\ named' \in [Stage -> [Warps -> Nat]]
  BY <1>1, <1>2, <1>3, MeetEffect DEF CorrectionEmpty, memory
<1>11. \A y \in {StatsEmpty(g)} : y[1] \in Released
  BY DEF StatsEmpty, Released
<1> HIDE DEF g
<1> QED BY <1>3, <1>4, <1>6, <1>7, <1>8, <1>9, <1>10, <1>11, CorrectionTurn

\* The tensor core has done the last PV of the tile on stage j, and no later one.
LEMMA WaitOStep ==
    ASSUME NEW st, Control(st), NEW w \in Warps, CorrectionWaitO(w)
    PROVE  Control(st)'
<1> DEFINE me == co[w]
           g == me.j
           c == [me EXCEPT !.j = 1 - me.j, !.pc = IF me.j = 1 THEN "epi" ELSE "oacc"]
           h == Half(launch, me.tile)
           s == Steps(launch, me.tile)
           q == Works(launch, me.tile)
<1>1. Registers /\ CorrectionRole(me) /\ named \in [Stage -> [Warps -> Nat]] /\ MmaRole /\ Queue(st)
      /\ ByTensorCore(st[1]) /\ OFree
  BY CorrectionSees DEF Control
<1>2. /\ me.pc = "oacc" /\ me.tile \in 1 .. Len(launch.work) /\ h > 0 /\ h \in Nat /\ s \in Nat /\ q \in Nat
      /\ g \in {0, 1} /\ g \in Stage /\ launch \in Launches
      /\ me.tile + 1 \in 1 .. Len(launch.work) + 1
      /\ Steps(launch, me.tile + 1) = s + h /\ Works(launch, me.tile + 1) = q + 1
  <2>1. me.pc = "oacc" /\ me.tile \in 1 .. Len(launch.work) /\ h > 0 /\ g \in {0, 1}
    <3>1. me.pc = "oacc" /\ me.tile \in 1 .. Len(launch.work) /\ h > 0
      BY <1>1, Tile DEF CorrectionWaitO, CorrectionRole
    <3>2. me.j \in Nat /\ me.j < 2
      BY <1>1, <3>1 DEF CorrectionRole
    <3> QED BY <3>1, <3>2
  <2>2. /\ h \in Nat /\ s \in Nat /\ q \in Nat /\ launch \in Launches /\ me.tile + 1 \in 1 .. Len(launch.work) + 1
        /\ Steps(launch, me.tile + 1) = s + h /\ Works(launch, me.tile + 1) = q + If(h > 0)
    BY <1>1, <2>1, Tile DEF CorrectionRole
  <2>3. If(h > 0) = 1
    BY <2>1 DEF If
  <2> QED BY <2>1, <2>2, <2>3 DEF Stage
<1>3. co' = [co EXCEPT ![w] = c] /\ Moves({}) /\ Done(OAcc(g), q % 2)
  <2>1. co' = [co EXCEPT ![w] = c] /\ Done(OAcc(g), me.oacc) /\ bar' = bar
    BY DEF CorrectionWaitO
  <2>2. me.oacc = q % 2
    BY <1>1 DEF CorrectionRole
  <2> QED BY <1>1, <2>1, <2>2, MovesNone
<1>4. /\ c.tile = me.tile /\ c.pc = (IF g = 1 THEN "epi" ELSE "oacc") /\ c.j = 1 - g /\ CorrectionRole(c)
  <2>1. CorrectionRegisters(c)
    <3>1. 1 - me.j \in Nat
      BY <1>2
    <3> QED BY <1>1, <3>1, RegistersMove
  <2>2. /\ c.tile = me.tile /\ c.pc = (IF g = 1 THEN "epi" ELSE "oacc") /\ c.j = 1 - g
        /\ c.oacc = me.oacc /\ c.epi = me.epi
    BY <1>1 DEF CorrectionRole
  <2> HIDE DEF c
  <2>3. (c.pc = "epi" /\ c.j = 0) \/ (c.pc = "oacc" /\ c.j < 2)
    BY <1>2, <2>2
  <2>4. CorrectionRole(c)
    <3>1. CASE c.pc = "epi" /\ c.j = 0
      BY <1>1, <1>2, <2>1, <2>2, <3>1, RoleMove
    <3>2. CASE c.pc = "oacc" /\ c.j < 2
      BY <1>1, <1>2, <2>1, <2>2, <3>2, RoleMove
    <3> QED BY <2>3, <3>1, <3>2
  <2> QED BY <2>2, <2>4
<1> HIDE DEF c
<1>5. ASSUME NEW x \in Stage
      PROVE  /\ Meets(launch, c, x) = Meets(launch, me, x) /\ Returns(launch, c, x) = Returns(launch, me, x)
             /\ Lets(launch, c, x) = Lets(launch, me, x) /\ Lets(launch, me, x) = s + h
             /\ Waited(launch, c, x) = (IF x = g THEN q + 1 ELSE Waited(launch, me, x))
             /\ Waited(launch, me, g) = q
  <2>1. If(me.pc # "sum" \/ me.j > x) = 1 /\ If(c.pc # "sum" \/ c.j > x) = 1
    BY <1>2, <1>4 DEF If
  <2>2. Meets(launch, c, x) = Meets(launch, me, x) /\ Returns(launch, c, x) = Returns(launch, me, x)
    BY <1>2, <1>4, <2>1 DEF Meets, Returns
  <2>3. Lets(launch, c, x) = Lets(launch, me, x) /\ Lets(launch, me, x) = 1 + s + (h - 1)
    BY <1>2, <1>4 DEF Lets, AfterSteps
  <2>4. 1 + s + (h - 1) = s + h
    BY <1>2
  <2>5. /\ Waited(launch, me, g) = q
        /\ Waited(launch, c, x) = (IF x = g THEN q + 1 ELSE Waited(launch, me, x))
    <3>1. x \in {0, 1} /\ q + 0 = q
      BY <1>2 DEF Stage
    <3>2. Waited(launch, me, x) = q + If(g > x) /\ Waited(launch, me, g) = q + If(g > g)
      <4>1. ASSUME NEW y
            PROVE  If((me.pc = "oacc" /\ me.j > y) \/ (me.pc \in {"epi", "combine", "store"} /\ h > 0)) = If(g > y)
        BY <1>2 DEF If
      <4> QED BY <4>1 DEF Waited
    <3>3. Waited(launch, c, x) = q + If((g = 0 /\ 1 > x) \/ g = 1)
      <4>1. CASE g = 0
        <5>1. c.pc = "oacc" /\ c.j = 1 /\ c.tile = me.tile
          BY <1>4, <4>1
        <5>2. Waited(launch, c, x) = q + (IF 1 > x THEN 1 ELSE 0)
          BY <5>1 DEF Waited, If
        <5> QED BY <4>1, <5>2 DEF If
      <4>2. CASE g = 1
        <5>1. c.pc = "epi" /\ c.tile = me.tile /\ Half(launch, c.tile) > 0
          BY <1>2, <1>4, <4>2
        <5>2. Waited(launch, c, x) = q + 1
          BY <5>1 DEF Waited, If
        <5> QED BY <4>2, <5>2 DEF If
      <4> QED BY <1>2, <4>1, <4>2
    <3>4. If(g > g) = 0 /\ If((g = 0 /\ 1 > x) \/ g = 1) = (IF x = g THEN 1 ELSE If(g > x))
      BY <1>2, <3>1 DEF If
    <3> QED BY <3>1, <3>2, <3>3, <3>4
  <2> QED BY <2>2, <2>3, <2>4, <2>5
<1>6. OnStage(st[1].last, g) = q + 1
  <2>1. Phases(bar[OAcc(g)], OnStage(st[1].last, g))
    BY <1>1, <1>2 DEF ByTensorCore
  <2>2. OnStage(st[1].last, g) >= q /\ OnStage(st[1].last, g) \in Nat
    BY <1>2, <1>5, CorrectionSees
  <2>3. PTaken(launch, mm, g) <= s + h
    <3>1. PTaken(launch, mm, g) <= Lets(launch, me, g)
      BY <1>1, <1>2 DEF OFree
    <3> QED BY <1>2, <1>5, <3>1
  <2>4. OnStage(st[1].pv2, g) <= s + h
    <3> HIDE DEF g, s, h
    <3> QED BY <1>1, <1>2, <2>3, StageCounts
  <2>5. Placed(launch, st[1])
    BY <1>1, QueueFacts
  <2>6. OnStage(st[1].last, g) <= q + 1
    <3>1. OnStage(st[1].pv2, g) <= Steps(launch, me.tile + 1)
      BY <1>2, <2>4
    <3> HIDE DEF g
    <3> QED BY <1>2, <2>5, <3>1, AllBeforeLast
  <2> DEFINE n == OnStage(st[1].last, g)
  <2>7. n = q \/ n = q + 1
    <3> HIDE DEF q
    <3> QED BY <1>2, <2>2, <2>6
  <2> HIDE DEF n, q, g
  <2>8. n \in Int /\ Phases(bar[OAcc(g)], n)
    BY <2>1, <2>2 DEF n
  <2>9. n = q + 1
    BY <1>2, <1>3, <2>7, <2>8, PhaseWait
  <2> QED BY <2>9 DEF n
<1>7. FreesO(w, c, st[1], {})
  BY <1>5 DEF FreesO
<1>8. MeetsStats(w, c, {})
  <2>1. named' = named
    BY DEF CorrectionWaitO
  <2> QED BY <1>5, <2>1 DEF MeetsStats
<1>9. StoresTile(w, c, {})
  <2>2. c.pc \notin {"combine", "store", "done"} /\ me.pc \notin {"combine", "store"}
    BY <1>2, <1>4
  <2> QED BY <1>4, <2>2, SameTile
<1>10. \A x \in Stage : Waited(launch, c, x) <= OnStage(st[1].last, x)
  <2> SUFFICES ASSUME NEW x \in Stage PROVE Waited(launch, c, x) <= OnStage(st[1].last, x)
    OBVIOUS
  <2>1. CASE x = g
    BY <1>2, <1>5, <1>6, <2>1
  <2>2. CASE x # g
    BY <1>5, <2>2, CorrectionSees
  <2> QED BY <2>1, <2>2
<1>11. /\ UNCHANGED <<launch, inflight, tc, ld, mm, sm, ep>> /\ named' \in [Stage -> [Warps -> Nat]]
  BY <1>1 DEF CorrectionWaitO, memory
<1> QED BY <1>3, <1>4, <1>7, <1>8, <1>9, <1>10, <1>11, CorrectionTurn

\* Between the epilogue's steps a warp stays in its tile.
LEMMA EpilogueSame ==
    ASSUME Registers, NEW me, CorrectionRole(me), me.pc \in {"epi", "combine"}, NEW p \in {"combine", "store"},
           NEW c, c = [me EXCEPT !.pc = p]
    PROVE  /\ c.tile = me.tile /\ c.pc = p /\ CorrectionRole(c) /\ me.tile \in Nat /\ me.tile >= 1
           /\ \A x \in Stage : /\ Meets(launch, c, x) = Meets(launch, me, x)
                               /\ Returns(launch, c, x) = Returns(launch, me, x)
                               /\ Lets(launch, c, x) = Lets(launch, me, x)
                               /\ Waited(launch, c, x) = Waited(launch, me, x)
<1>1. me.tile \in 1 .. Len(launch.work) /\ me.j = 0 /\ me.tile \in Nat /\ me.tile >= 1
  BY Tile DEF CorrectionRole
<1>2. CorrectionRegisters(c)
  BY <1>1, RegistersMove
<1>3. c.tile = me.tile /\ c.pc = p /\ c.j = 0 /\ c.oacc = me.oacc /\ c.epi = me.epi
  BY <1>1 DEF CorrectionRole
<1>4. CorrectionRole(c)
  BY <1>1, <1>2, <1>3, RoleMove
<1>5. ASSUME NEW x \in Stage
      PROVE  /\ Meets(launch, c, x) = Meets(launch, me, x)
             /\ Returns(launch, c, x) = Returns(launch, me, x)
             /\ Lets(launch, c, x) = Lets(launch, me, x)
             /\ Waited(launch, c, x) = Waited(launch, me, x)
  <2>1. If(me.pc # "sum" \/ me.j > x) = 1 /\ If(c.pc # "sum" \/ c.j > x) = 1
    BY <1>3 DEF If
  <2>2. Meets(launch, c, x) = Meets(launch, me, x) /\ Returns(launch, c, x) = Returns(launch, me, x)
    BY <1>3, <2>1 DEF Meets, Returns
  <2>3. Lets(launch, c, x) = Lets(launch, me, x)
    BY <1>3 DEF Lets, AfterSteps
  <2>4. Waited(launch, c, x) = Waited(launch, me, x)
    BY <1>3 DEF Waited
  <2> QED BY <2>2, <2>3, <2>4
<1> QED BY <1>1, <1>3, <1>4, <1>5

LEMMA StatsStep ==
    ASSUME NEW st, Control(st), NEW w \in Warps, CorrectionStats(w)
    PROVE  Control(st)'
<1> DEFINE me == co[w]
           c == [me EXCEPT !.pc = "combine"]
           bars == {Reduce}
<1>1. Registers /\ CorrectionRole(me) /\ named \in [Stage -> [Warps -> Nat]] /\ me.pc = "epi"
  BY CorrectionSees DEF CorrectionStats
<1>2. co' = [co EXCEPT ![w] = c] /\ Moves(bars) /\ named' = named
  BY MovesArrive DEF CorrectionStats
<1>3. /\ c.tile = me.tile /\ c.pc = "combine" /\ CorrectionRole(c) /\ me.tile \in Nat /\ me.tile >= 1
      /\ \A x \in Stage : /\ Meets(launch, c, x) = Meets(launch, me, x)
                          /\ Returns(launch, c, x) = Returns(launch, me, x)
                          /\ Lets(launch, c, x) = Lets(launch, me, x)
                          /\ Waited(launch, c, x) = Waited(launch, me, x)
  BY <1>1, EpilogueSame
<1> HIDE DEF c
<1>4. OStored(ep) = me.tile - 1
  BY EpiFree DEF CorrectionStats
<1>5. /\ Reduced(me) = 2 * (me.tile - 1) /\ Reduced(c) = Reduced(me) + 1
  <2>1. Reduced(me) = 2 * (me.tile - 1) + 0 + 0 /\ Reduced(c) = 2 * (me.tile - 1) + 1 + 0
    BY <1>1, <1>3 DEF Reduced, If
  <2> QED BY <1>3, <2>1
<1>6. \A v \in Warps : Reduced(co[v]) >= Reduced(me)
  <2> SUFFICES ASSUME NEW v \in Warps PROVE Reduced(co[v]) >= Reduced(me)
    OBVIOUS
  <2>1. OStored(ep) <= co[v].tile - 1 /\ CorrectionRole(co[v]) /\ 0 \in Stage
    BY CorrectionSees DEF Stage
  <2>2. Reduced(co[v]) \in Nat /\ Reduced(co[v]) >= 2 * (co[v].tile - 1) /\ co[v].tile \in Nat
    BY <1>1, <2>1, CorrectionCounts
  <2> QED BY <1>3, <1>4, <1>5, <2>1, <2>2
<1>7. /\ Reduce \in bars /\ EpiFull \notin bars /\ \A x \in Stage : SpoEmpty(x) \notin bars /\ StatsEmpty(x) \notin bars
      /\ \A y \in bars : y[1] \in Released
  BY WarpBarNames DEF Released
<1> HIDE DEF bars
<1>8. FreesO(w, c, st[1], bars)
  BY <1>3, <1>7 DEF FreesO
<1>9. MeetsStats(w, c, bars)
  BY <1>2, <1>3, <1>7 DEF MeetsStats
<1>10. StoresTile(w, c, bars)
  BY <1>3, <1>4, <1>5, <1>6, <1>7 DEF StoresTile
<1>11. \A x \in Stage : Waited(launch, c, x) <= OnStage(st[1].last, x)
  BY <1>3, CorrectionSees
<1>12. /\ UNCHANGED <<launch, inflight, tc, ld, mm, sm, ep>> /\ named' \in [Stage -> [Warps -> Nat]]
  BY <1>1, <1>2 DEF CorrectionStats
<1> QED BY <1>2, <1>3, <1>7, <1>8, <1>9, <1>10, <1>11, <1>12, CorrectionTurn

\* Every warp has given its statistics of this tile to the others.
LEMMA AllReduced ==
    ASSUME NEW st, Control(st), NEW w \in Warps, co[w].pc = "combine", Done(Reduce, 0)
    PROVE  \A v \in Warps : Reduced(co[v]) >= Reduced(co[w])
<1> DEFINE me == co[w]
           q == 2 * (me.tile - 1)
<1>1. Registers /\ CorrectionRole(me) /\ OStored(ep) = me.tile - 1
  BY CorrectionSees
<1>2. me.tile \in Nat /\ me.tile >= 1
  BY <1>1, CorrectionCounts DEF CorrectionRole, Stage
<1>3. q \in Nat /\ q % 2 = 0 /\ Reduced(me) = q + 1
  <2>1. Reduced(me) = q + 1 + 0
    BY DEF Reduced, If
  <2> QED BY <1>2, <2>1
<1>4. \A v \in Warps : Reductions[v] = Reduced(co[v]) /\ Reductions[v] \in Int /\ Reductions[v] >= q
  <2> SUFFICES ASSUME NEW v \in Warps
               PROVE  Reductions[v] = Reduced(co[v]) /\ Reductions[v] \in Int /\ Reductions[v] >= q
    OBVIOUS
  <2>1. OStored(ep) <= co[v].tile - 1 /\ CorrectionRole(co[v]) /\ 0 \in Stage
    BY CorrectionSees DEF Stage
  <2>2. Reduced(co[v]) \in Nat /\ Reduced(co[v]) >= 2 * (co[v].tile - 1) /\ co[v].tile \in Nat
    BY <1>1, <2>1, CorrectionCounts
  <2>3. Reductions[v] = Reduced(co[v])
    BY DEF Reductions
  <2> QED BY <1>1, <1>2, <2>1, <2>2, <2>3
<1>5. AllOf(bar[Reduce], Warps, Reductions)
  BY DEF Control, OTile
<1> HIDE DEF q, me
<1>6. \E v \in Warps : Reductions[v] <= q + 1
  <2>1. Reductions[w] = q + 1
    BY <1>3, <1>4 DEF me
  <2> QED BY <1>3, <2>1
<1>7. \A v \in Warps : Reductions[v] >= q + 1
  <2>1. Done(Reduce, q % 2)
    BY <1>3
  <2> QED BY <1>3, <1>4, <1>5, <1>6, <2>1, AllWait
<1> QED BY <1>3, <1>4, <1>7 DEF me

LEMMA CombineStep ==
    ASSUME NEW st, Control(st), NEW w \in Warps, CorrectionCombine(w)
    PROVE  Control(st)'
<1> DEFINE me == co[w]
           c == [me EXCEPT !.pc = "store"]
           bars == {Reduce}
<1>1. /\ Registers /\ CorrectionRole(me) /\ named \in [Stage -> [Warps -> Nat]] /\ me.pc = "combine"
      /\ Done(Reduce, 0)
  BY CorrectionSees DEF CorrectionCombine
<1>2. co' = [co EXCEPT ![w] = c] /\ Moves(bars) /\ named' = named
  BY MovesArrive DEF CorrectionCombine
<1>3. /\ c.tile = me.tile /\ c.pc = "store" /\ CorrectionRole(c) /\ me.tile \in Nat /\ me.tile >= 1
      /\ \A x \in Stage : /\ Meets(launch, c, x) = Meets(launch, me, x)
                          /\ Returns(launch, c, x) = Returns(launch, me, x)
                          /\ Lets(launch, c, x) = Lets(launch, me, x)
                          /\ Waited(launch, c, x) = Waited(launch, me, x)
  BY <1>1, EpilogueSame
<1> HIDE DEF c
<1>4. OStored(ep) = me.tile - 1
  BY <1>1, CorrectionSees
<1>5. Reduced(c) = Reduced(me) + 1
  <2>1. Reduced(me) = 2 * (me.tile - 1) + 1 + 0 /\ Reduced(c) = 2 * (me.tile - 1) + 1 + 1
    BY <1>1, <1>3 DEF Reduced, If
  <2> QED BY <1>3, <2>1
<1>6. \A v \in Warps : Reduced(co[v]) >= Reduced(me)
  BY <1>1, AllReduced
<1>7. /\ Reduce \in bars /\ EpiFull \notin bars /\ \A x \in Stage : SpoEmpty(x) \notin bars /\ StatsEmpty(x) \notin bars
      /\ \A y \in bars : y[1] \in Released
  BY WarpBarNames DEF Released
<1> HIDE DEF bars
<1>8. FreesO(w, c, st[1], bars)
  BY <1>3, <1>7 DEF FreesO
<1>9. MeetsStats(w, c, bars)
  BY <1>2, <1>3, <1>7 DEF MeetsStats
<1>10. StoresTile(w, c, bars)
  BY <1>3, <1>4, <1>5, <1>6, <1>7 DEF StoresTile
<1>11. \A x \in Stage : Waited(launch, c, x) <= OnStage(st[1].last, x)
  BY <1>3, CorrectionSees
<1>12. /\ UNCHANGED <<launch, inflight, tc, ld, mm, sm, ep>> /\ named' \in [Stage -> [Warps -> Nat]]
  BY <1>1, <1>2 DEF CorrectionCombine
<1> QED BY <1>2, <1>3, <1>7, <1>8, <1>9, <1>10, <1>11, <1>12, CorrectionTurn

\* The tile is left: O goes back to the MMA warp, which is done with its PVs.
LEMMA StoreStep ==
    ASSUME NEW st, Control(st), NEW w \in Warps, CorrectionStore(w)
    PROVE  Control(st)'
<1> DEFINE me == co[w]
           t == me.tile
           c == [me EXCEPT !.pc = "tile", !.tile = t + 1, !.ok = TRUE, !.epi = 1 - me.epi,
                           !.oacc = IF HasWork(t) THEN 1 - me.oacc ELSE me.oacc]
           bars == {EpiFull} \cup (IF HasWork(t) THEN {SpoEmpty(g) : g \in Stage} ELSE {})
           h == Half(launch, t)
           s == Steps(launch, t)
           q == Works(launch, t)
<1>1. /\ Registers /\ CorrectionRole(me) /\ named \in [Stage -> [Warps -> Nat]] /\ MmaRole /\ Queue(st)
      /\ OStored(ep) = t - 1 /\ OStored(ep) \in Nat /\ me.pc = "store"
  BY CorrectionSees DEF Control, CorrectionStore
<1>2. /\ t \in 1 .. Len(launch.work) /\ h \in Nat /\ s \in Nat /\ q \in Nat /\ launch \in Launches
      /\ t + 1 \in 1 .. Len(launch.work) + 1 /\ t \in Nat /\ t >= 1 /\ (HasWork(t) <=> h > 0)
      /\ Steps(launch, t + 1) = s + h /\ Works(launch, t + 1) = q + If(h > 0)
      /\ me.j = 0
  <2>1. t \in 1 .. Len(launch.work) /\ t \in Nat /\ t >= 1 /\ me.j = 0
    BY <1>1, Tile DEF CorrectionRole
  <2>2. /\ h \in Nat /\ s \in Nat /\ q \in Nat /\ launch \in Launches /\ t + 1 \in 1 .. Len(launch.work) + 1
        /\ Steps(launch, t + 1) = s + h /\ Works(launch, t + 1) = q + If(h > 0) /\ (HasWork(t) <=> h > 0)
    BY <1>1, <2>1, Tile DEF CorrectionRole
  <2> QED BY <2>1, <2>2
<1>3. co' = [co EXCEPT ![w] = c] /\ Moves(bars) /\ named' = named
  <2>1. co' = [co EXCEPT ![w] = c] /\ named' = named /\ Arrive(bars)
    BY DEF CorrectionStore
  <2> QED BY <2>1, MovesArrive
<1>4. c.tile = t + 1 /\ c.pc = "tile" /\ c.j = 0 /\ CorrectionRole(c)
  <2>1. me.epi = t % 2 /\ me.oacc = q % 2 /\ me.oacc \in {0, 1} /\ me.epi \in {0, 1}
    BY <1>1 DEF CorrectionRole
  <2>2. /\ 1 - me.epi = (t + 1) % 2 /\ 1 - me.epi \in {0, 1}
        /\ (IF HasWork(t) THEN 1 - me.oacc ELSE me.oacc) = Works(launch, t + 1) % 2
        /\ (IF HasWork(t) THEN 1 - me.oacc ELSE me.oacc) \in {0, 1}
    <3>1. (t + 1) % 2 = 1 - (t % 2) /\ (q + 1) % 2 = 1 - (q % 2)
      BY <1>2, Parity
    <3>2. CASE h > 0
      <4>1. Works(launch, t + 1) = q + 1
        BY <1>2, <3>2 DEF If
      <4>2. (IF HasWork(t) THEN 1 - me.oacc ELSE me.oacc) = 1 - me.oacc
        BY <1>2, <3>2
      <4>3. 1 - me.oacc = Works(launch, t + 1) % 2
        <5> DEFINE i == me.oacc
                   k == Works(launch, t + 1)
        <5>1. i = q % 2 /\ k = q + 1 /\ (q + 1) % 2 = 1 - (q % 2) /\ q \in Nat
          BY <1>2, <2>1, <3>1, <4>1
        <5> HIDE DEF i, k, q
        <5>2. 1 - i = k % 2
          BY <5>1
        <5> QED BY <5>2 DEF i, k
      <4>4. t \in Nat /\ q \in Nat
        BY <1>2
      <4> DEFINE i == me.oacc
                 e == me.epi
                 z == IF HasWork(t) THEN 1 - me.oacc ELSE me.oacc
      <4> HIDE DEF q, h, t, i, e, z
      <4>5. (1 - e) = (t + 1) % 2 /\ 1 - e \in {0, 1}
        BY <2>1, <3>1, <4>4 DEF e
      <4>6. z = Works(launch, t + 1) % 2 /\ z \in {0, 1}
        BY <2>1, <4>2, <4>3 DEF z, i
      <4> QED BY <4>5, <4>6 DEF e, z
    <3>3. CASE ~(h > 0)
      <4>1. Works(launch, t + 1) = q
        BY <1>2, <3>3 DEF If
      <4>2. (IF HasWork(t) THEN 1 - me.oacc ELSE me.oacc) = me.oacc
        BY <1>2, <3>3
      <4>3. me.oacc = Works(launch, t + 1) % 2
        BY <2>1, <4>1
      <4>4. t \in Nat /\ q \in Nat
        BY <1>2
      <4> DEFINE i == me.oacc
                 e == me.epi
                 z == IF HasWork(t) THEN 1 - me.oacc ELSE me.oacc
      <4> HIDE DEF q, h, t, i, e, z
      <4>5. (1 - e) = (t + 1) % 2 /\ 1 - e \in {0, 1}
        BY <2>1, <3>1, <4>4 DEF e
      <4>6. z = Works(launch, t + 1) % 2 /\ z \in {0, 1}
        BY <2>1, <4>2, <4>3 DEF z, i
      <4> QED BY <4>5, <4>6 DEF e, z
    <3> QED BY <3>2, <3>3
  <2> DEFINE oa == IF HasWork(t) THEN 1 - me.oacc ELSE me.oacc
             ee == 1 - me.epi
  <2>3. oa = Works(launch, t + 1) % 2 /\ oa \in {0, 1} /\ ee = (t + 1) % 2 /\ ee \in {0, 1}
    BY <2>2
  <2>4. c = [me EXCEPT !.pc = "tile", !.tile = t + 1, !.ok = TRUE, !.epi = ee, !.oacc = oa]
    OBVIOUS
  <2> HIDE DEF oa, ee, c
  <2>5. /\ c.tile = t + 1 /\ c.pc = "tile" /\ c.j = 0 /\ c.oacc = oa /\ c.epi = ee
        /\ CorrectionRegisters(c)
    <3>1. t + 1 \in Nat
      BY <1>2
    <3>2. CorrectionRegisters([me EXCEPT !.pc = "tile", !.tile = t + 1, !.ok = TRUE, !.epi = ee, !.oacc = oa])
      BY <1>1, <2>3, <3>1 DEF CorrectionRole, CorrectionRegisters
    <3> QED BY <1>1, <1>2, <2>4, <3>2 DEF CorrectionRole
  <2>6. CorrectionRole(c)
    BY <1>2, <2>3, <2>5 DEF CorrectionRole, CorrectionRegisters
  <2> QED BY <2>5, <2>6
<1>5. /\ EpiFull \in bars /\ Reduce \notin bars
      /\ \A x \in Stage : StatsEmpty(x) \notin bars /\ (SpoEmpty(x) \in bars <=> h > 0)
      /\ \A y \in bars : y[1] \in Released
  <2>1. \A y \in bars : y = EpiFull \/ (h > 0 /\ \E x \in Stage : y = SpoEmpty(x))
    BY <1>2
  <2>2. EpiFull \in bars /\ \A x \in Stage : h > 0 => SpoEmpty(x) \in bars
    BY <1>2
  <2> HIDE DEF bars, h
  <2> QED BY <2>1, <2>2 DEF EpiFull, Reduce, StatsEmpty, SpoEmpty, Released
<1> HIDE DEF c, bars
<1>6. ASSUME NEW x \in Stage
      PROVE  /\ Lets(launch, c, x) = s + h + 1
             /\ Lets(launch, me, x) = (IF h > 0 THEN s + h ELSE s + h + 1)
             /\ Meets(launch, c, x) = Meets(launch, me, x)
             /\ Returns(launch, c, x) = Returns(launch, me, x)
             /\ Waited(launch, c, x) = Waited(launch, me, x)
             /\ Waited(launch, me, x) = q + If(h > 0)
  <2>1. Lets(launch, c, x) = s + h + 1
    BY <1>2, <1>4 DEF Lets, AfterSteps
  <2>2. Lets(launch, me, x) = 1 + s + (IF h > 0 THEN h - 1 ELSE 0)
    BY <1>1, <1>2 DEF Lets, AfterSteps
  <2>3. /\ Meets(launch, c, x) = s + h + (t + 1) - 1 + 0 /\ Returns(launch, c, x) = s + h + (t + 1) - 1 + 0
    BY <1>2, <1>4 DEF Meets, Returns, If, Stage
  <2>4. /\ Meets(launch, me, x) = s + t - 1 + (h + 1) /\ Returns(launch, me, x) = s + t - 1 + (h + 1)
    BY <1>1 DEF Meets, Returns, If
  <2>5. Waited(launch, c, x) = q + If(h > 0) + 0
    BY <1>2, <1>4 DEF Waited, If
  <2>6. Waited(launch, me, x) = q + If(h > 0)
    BY <1>1 DEF Waited, If
  <2>7. q + If(h > 0) + 0 = q + If(h > 0)
    BY <1>2 DEF If
  <2> HIDE DEF s, h, t, q
  <2> QED BY <1>2, <2>1, <2>2, <2>3, <2>4, <2>5, <2>6, <2>7
<1>7. FreesO(w, c, st[1], bars)
  <2> SUFFICES ASSUME NEW x \in Stage
               PROVE  \/ /\ SpoEmpty(x) \in bars /\ Lets(launch, c, x) = Lets(launch, me, x) + 1
                         /\ Lets(launch, me, x) <= OnStage(Issued(launch, mm).pv2, x)
                      \/ SpoEmpty(x) \notin bars /\ Lets(launch, c, x) = Lets(launch, me, x)
    BY DEF FreesO
  <2>1. CASE h > 0
    <3>1. Waited(launch, me, x) <= OnStage(st[1].last, x) /\ Waited(launch, me, x) = q + 1
      BY <1>6, <2>1, CorrectionSees DEF If
    <3>2. Placed(launch, st[1])
      BY <1>1, QueueFacts
    <3>3. OnStage(st[1].last, x) >= q + 1
      <4>1. OnStage(st[1].last, x) \in Nat
        BY CorrectionSees
      <4> HIDE DEF q
      <4> QED BY <1>2, <3>1, <4>1
    <3>4. OnStage(st[1].pv2, x) >= s + h
      BY <1>2, <2>1, <3>2, <3>3, LastMeansAll
    <3>5. /\ OnStage(st[1].pv2, x) <= OnStage(Issued(launch, mm).pv2, x)
          /\ OnStage(st[1].pv2, x) \in Nat /\ OnStage(Issued(launch, mm).pv2, x) \in Nat
      BY <1>1, StageCounts
    <3> HIDE DEF s, h
    <3> QED BY <1>2, <1>5, <1>6, <2>1, <3>4, <3>5
  <2>2. CASE ~(h > 0)
    BY <1>5, <1>6, <2>2
  <2> QED BY <2>1, <2>2
<1>8. MeetsStats(w, c, bars)
  BY <1>3, <1>5, <1>6 DEF MeetsStats
<1>9. StoresTile(w, c, bars)
  <2>1. Reduced(c) = Reduced(me)
    <3>1. Reduced(me) = 2 * (t - 1) + 1 + 1
      BY <1>1 DEF Reduced, If
    <3>2. Reduced(c) = 2 * (c.tile - 1) + 0 + 0
      BY <1>4 DEF Reduced, If
    <3> QED BY <1>2, <1>4, <3>1, <3>2
  <2> QED BY <1>1, <1>2, <1>4, <1>5, <2>1 DEF StoresTile
<1>10. \A x \in Stage : Waited(launch, c, x) <= OnStage(st[1].last, x)
  BY <1>6, CorrectionSees
<1>11. /\ UNCHANGED <<launch, inflight, tc, ld, mm, sm, ep>> /\ named' \in [Stage -> [Warps -> Nat]]
  BY <1>1, <1>3 DEF CorrectionStore
<1> QED BY <1>3, <1>4, <1>5, <1>7, <1>8, <1>9, <1>10, <1>11, CorrectionTurn

\* Every step of a correction warp.
LEMMA CorrectionStep ==
    ASSUME NEW st, Control(st), NEW w \in Warps, Correction(w)
    PROVE  Control(st)'
BY StartStep, FirstStep, ScaleStep, RescaleStep, SumStep, WaitOStep, EmptyStep, StatsStep, CombineStep,
   StoreStep, CorrectionTailStep DEF Correction

-----------------------------------------------------------------------------
(* Softmax warps.                                                          *)

Put(f, a, b, c) == [f EXCEPT ![a][b] = c]
LEMMA UpdateTwo ==
    ASSUME NEW f, NEW S, NEW T, Rows(f, S, T),
           NEW a \in S, NEW b \in T, NEW c, NEW f2, f2 = Put(f, a, b, c)
    PROVE  /\ Rows(f2, S, T) /\ f2[a][b] = c
           /\ \A x \in S, y \in T : (x # a \/ y # b) => f2[x][y] = f[x][y]
<1>1. DOMAIN f = S /\ \A x \in S : f[x] = [y \in T |-> f[x][y]] /\ DOMAIN f[x] = T
  BY DEF Rows
<1>2. /\ f2 = [x \in S |-> f2[x]] /\ f2[a] = [f[a] EXCEPT ![b] = c] /\ \A x \in S : x # a => f2[x] = f[x]
  BY <1>1 DEF Put
<1>3. DOMAIN f[a] = T
  BY <1>1
<1>4. f2[a][b] = c /\ \A x \in S, y \in T : (x # a \/ y # b) => f2[x][y] = f[x][y]
  BY <1>2, <1>3
<1>5. \A x \in S : f2[x] = [y \in T |-> f2[x][y]]
  <2> SUFFICES ASSUME NEW x \in S PROVE f2[x] = [y \in T |-> f2[x][y]]
    OBVIOUS
  <2>1. CASE x = a
    BY <1>2, <1>3, <2>1
  <2>2. CASE x # a
    BY <1>1, <1>2, <2>2
  <2> QED BY <2>1, <2>2
<1> QED BY <1>2, <1>4, <1>5 DEF Rows

\* A warp at work on a step is the furthest behind in it.
LEMMA SoftmaxBehind ==
    ASSUME NEW st, Control(st), NEW g \in Stage, NEW w \in Warps, sm[g][w].pc \in {"scale", "p1", "p2"}
    PROVE  /\ Stored(launch, sm[g][w]) <= OnStage(Issued(launch, mm).pv2, g)
           /\ Stored(launch, sm[g][w]) <= PTaken(launch, mm, g)
           /\ \A v \in Warps : Stored(launch, sm[g][w]) <= Stored(launch, sm[g][v])
<1>1. Registers /\ MmaRole /\ Queue(st)
  BY DEF Control
<1>2. Reads(launch, sm[g][w]) = Stored(launch, sm[g][w]) + 1 /\ Stored(launch, sm[g][w]) \in Nat
  BY SoftmaxSees DEF Reads, If
<1>3. Reads(launch, sm[g][w]) <= OnStage(st[1].qk, g)
  BY SoftmaxSees
<1>4. /\ OnStage(st[1].qk, g) \in Nat /\ OnStage(Issued(launch, mm).pv2, g) \in Nat
      /\ OnStage(Issued(launch, mm).qk, g) \in Nat /\ PTaken(launch, mm, g) \in Nat
      /\ OnStage(Issued(launch, mm).pv1, g) \in Nat
      /\ OnStage(st[1].qk, g) <= OnStage(Issued(launch, mm).qk, g)
      /\ OnStage(Issued(launch, mm).qk, g) <= OnStage(Issued(launch, mm).pv2, g) + 1
      /\ OnStage(Issued(launch, mm).pv2, g) <= OnStage(Issued(launch, mm).pv1, g)
      /\ OnStage(Issued(launch, mm).pv1, g) <= PTaken(launch, mm, g)
  BY <1>1, StageCounts
<1>5. Stored(launch, sm[g][w]) <= OnStage(Issued(launch, mm).pv2, g)
  BY <1>2, <1>3, <1>4
<1>6. Stored(launch, sm[g][w]) <= PTaken(launch, mm, g)
  BY <1>2, <1>4, <1>5
<1>7. ASSUME NEW v \in Warps
      PROVE  Stored(launch, sm[g][w]) <= Stored(launch, sm[g][v])
  <2>1. OnStage(Issued(launch, mm).pv2, g) <= Stored(launch, sm[g][v]) /\ Stored(launch, sm[g][v]) \in Nat
    BY SoftmaxSees
  <2> QED BY <1>2, <1>4, <1>5, <2>1
<1> QED BY <1>5, <1>6, <1>7

\* It has acquired a statistics slot that every correction warp has returned.
LEMMA StatsFree ==
    ASSUME NEW st, Control(st), NEW g \in Stage, NEW w \in Warps, Done(StatsEmpty(g), sm[g][w].stats)
    PROVE  \A v \in Warps : /\ Acquired(launch, sm[g][w]) <= Returns(launch, co[v], g)
                            /\ Returns(launch, co[v], g) \in Nat
<1> DEFINE q == Acquired(launch, sm[g][w])
           A == Returned(g)
<1>1. Registers /\ Corrections /\ Statistics
  BY DEF Control
<1>2. q \in Nat /\ sm[g][w].stats = (q + 1) % 2
  BY SoftmaxSees DEF SoftmaxRole
<1>3. AllOf(bar[StatsEmpty(g)], Warps, A)
  BY <1>1 DEF Statistics
<1>4. ASSUME NEW v \in Warps
      PROVE  A[v] = Returns(launch, co[v], g) /\ A[v] \in Nat /\ A[v] >= q - 1
  <2>1. CorrectionRole(co[v])
    BY <1>1 DEF Corrections
  <2>2. Returns(launch, co[v], g) \in Nat
    BY <1>1, <2>1, CorrectionCounts
  <2>3. q <= Returns(launch, co[v], g) + 1
    BY SoftmaxSees
  <2>4. A[v] = Returns(launch, co[v], g)
    BY DEF Returned
  <2> HIDE DEF q, A
  <2> QED BY <1>2, <2>2, <2>3, <2>4
<1>5. A[w] <= q
  <2>1. CorrectionRole(co[w])
    BY <1>1 DEF Corrections
  <2>2. /\ Returns(launch, co[w], g) <= Meets(launch, co[w], g) /\ Meets(launch, co[w], g) \in Nat
        /\ Returns(launch, co[w], g) \in Nat
    BY <1>1, <2>1, CorrectionCounts
  <2>3. /\ Signals(launch, sm[g][w]) = Meets(launch, co[w], g) + named[g][w] /\ named[g][w] \in Nat
        /\ Signals(launch, sm[g][w]) <= q /\ Signals(launch, sm[g][w]) \in Nat
    BY SoftmaxSees
  <2>4. A[w] = Returns(launch, co[w], g)
    BY <1>4
  <2> HIDE DEF q, A
  <2> QED BY <1>2, <2>2, <2>3, <2>4
<1> HIDE DEF q, A
<1>6. \A v \in Warps : A[v] >= q
  <2>1. Done(StatsEmpty(g), (q + 1) % 2)
    BY <1>2
  <2>2. \A v \in Warps : A[v] \in Int /\ A[v] >= q - 1
    BY <1>4
  <2>3. \E v \in Warps : A[v] <= q
    BY <1>5
  <2> QED BY <1>2, <1>3, <2>1, <2>2, <2>3, AllFree
<1>7. ASSUME NEW v \in Warps
      PROVE  q <= Returns(launch, co[v], g) /\ Returns(launch, co[v], g) \in Nat
  <2>1. A[v] >= q /\ A[v] = Returns(launch, co[v], g) /\ A[v] \in Nat
    BY <1>4, <1>6
  <2> QED BY <1>2, <2>1
<1> QED BY <1>7 DEF q

\* What a turn of a softmax warp of stage g changes: it becomes s2 and arrives
\* on these barriers.
PAnnounced == {"spo_empty", "p_lastsplit"}
SoftmaxTurnOf(g, w, s2, bars) ==
    LET me == sm[g][w] IN
    /\ bars \subseteq {SpoEmpty(g), LastSplit(g)}
    /\ \/ LastSplit(g) \notin bars /\ Stored(launch, s2) = Stored(launch, me)
       \/ /\ LastSplit(g) \in bars /\ me.pc \in {"scale", "p1", "p2"}
          /\ Stored(launch, s2) = Stored(launch, me) + 1
    /\ \/ SpoEmpty(g) \notin bars /\ Announced(launch, s2) = Announced(launch, me)
       \/ /\ SpoEmpty(g) \in bars /\ me.pc \in {"scale", "p1"}
          /\ Announced(launch, s2) = Announced(launch, me) + 1
    /\ \/ named' = named /\ Signals(launch, s2) = Signals(launch, me)
       \/ Signal(g, w) /\ Signals(launch, s2) = Signals(launch, me) + 1

LEMMA PStep ==
    ASSUME NEW st, Control(st), NEW g \in Stage, NEW w \in Warps, NEW s2, sm' = Put(sm, g, w, s2),
           SoftmaxRole(s2), UNCHANGED <<launch, mm>>, NEW bars, Moves(bars), SoftmaxTurnOf(g, w, s2, bars),
           Reads(launch, s2) <= OnStage(st[1].qk, g)
    PROVE  Scores2P(st[1])'
<1>1. Registers /\ Scores2P(st[1]) /\ MmaRole /\ Queue(st)
  BY DEF Control
<1>2. Warps' = Warps
  BY DEF Warps
<1>3. /\ Rows(sm', Stage, Warps) /\ sm'[g][w] = s2
      /\ \A x \in Stage, y \in Warps : (x # g \/ y # w) => sm'[x][y] = sm[x][y]
  <2>1. Rows(sm, Stage, Warps)
    BY <1>1 DEF Scores2P
  <2> QED BY <2>1, UpdateTwo
<1>4. /\ Stored(launch, s2) \in Nat /\ Announced(launch, s2) \in Nat
      /\ Stored(launch, sm[g][w]) \in Nat /\ Announced(launch, sm[g][w]) \in Nat
      /\ Stored(launch, s2) >= Stored(launch, sm[g][w]) /\ Announced(launch, s2) >= Announced(launch, sm[g][w])
  <2>1. /\ Stored(launch, s2) \in Nat /\ Announced(launch, s2) \in Nat
        /\ Stored(launch, sm[g][w]) \in Nat /\ Announced(launch, sm[g][w]) \in Nat
    BY <1>1, SoftmaxCounts, SoftmaxSees
  <2> QED BY <2>1 DEF SoftmaxTurnOf
<1>5. ASSUME NEW x \in Stage, NEW y \in Warps
      PROVE  /\ SoftmaxRole(sm'[x][y])
             /\ Reads(launch, sm'[x][y]) <= OnStage(st[1].qk, x)
             /\ OnStage(Issued(launch, mm).pv2, x) <= Stored(launch, sm'[x][y])
             /\ PTaken(launch, mm, x) <= Announced(launch, sm'[x][y])
  <2>1. CASE x = g /\ y = w
    <3>1. sm'[x][y] = s2
      BY <1>3, <2>1
    <3>2. SoftmaxRole(sm'[x][y])
      BY <3>1
    <3>3. /\ OnStage(Issued(launch, mm).pv2, g) <= Stored(launch, sm[g][w])
          /\ PTaken(launch, mm, g) <= Announced(launch, sm[g][w])
          /\ OnStage(Issued(launch, mm).pv2, g) \in Nat /\ PTaken(launch, mm, g) \in Nat
      BY <1>1, SoftmaxSees, StageCounts
    <3>4. /\ OnStage(Issued(launch, mm).pv2, g) <= Stored(launch, s2)
          /\ PTaken(launch, mm, g) <= Announced(launch, s2)
      BY <1>4, <3>3
    <3> QED BY <2>1, <3>1, <3>2, <3>4
  <2>2. CASE ~(x = g /\ y = w)
    <3>1. sm'[x][y] = sm[x][y]
      BY <1>3, <2>2
    <3>2. /\ SoftmaxRole(sm[x][y])
          /\ Reads(launch, sm[x][y]) <= OnStage(st[1].qk, x)
          /\ OnStage(Issued(launch, mm).pv2, x) <= Stored(launch, sm[x][y])
          /\ PTaken(launch, mm, x) <= Announced(launch, sm[x][y])
      BY SoftmaxSees
    <3> QED BY <3>1, <3>2
  <2> QED BY <2>1, <2>2
<1>6. ASSUME NEW x \in Stage
      PROVE  AllOf(bar'[LastSplit(x)], Warps, Stores(x)')
  <2> DEFINE A == Stores(x)
             B == Stores(x)'
  <2>1. \A y \in Warps : A[y] = Stored(launch, sm[x][y]) /\ B[y] = Stored(launch, sm'[x][y])
    BY <1>2 DEF Stores
  <2>2. AllOf(bar[LastSplit(x)], Warps, A) /\ IsFiniteSet(Warps)
    <3>1. AllOf(bar[LastSplit(x)], Warps, Stores(x))
      BY <1>1 DEF Scores2P
    <3> QED BY <1>1, <3>1, Tile
  <2>3. LastSplit(x) \in BarId /\ Expected(LastSplit(x)) = Cardinality(Warps)
    BY WarpBarNames
  <2>4. CASE x # g
    <3>1. LastSplit(x) \notin bars
      BY <2>4, BarDiffer DEF SoftmaxTurnOf, SpoEmpty, LastSplit
    <3>2. \A y \in Warps : B[y] = A[y]
      BY <1>3, <2>1, <2>4
    <3> HIDE DEF A, B
    <3>3. AllOf(bar'[LastSplit(x)], Warps, B)
      BY <2>2, <2>3, <3>1, <3>2, AllStep
    <3> QED BY <3>3 DEF B
  <2>5. CASE x = g
    <3>1. \A y \in Warps : y # w => B[y] = A[y]
      BY <1>3, <2>1
    <3>2. A[w] = Stored(launch, sm[g][w]) /\ B[w] = Stored(launch, s2)
      BY <1>3, <2>1, <2>5
    <3>3. \/ LastSplit(x) \in bars /\ B[w] = A[w] + 1 /\ \A y \in Warps : A[y] >= A[w]
          \/ LastSplit(x) \notin bars /\ B[w] = A[w]
      <4>1. CASE LastSplit(g) \notin bars
        BY <2>5, <3>2, <4>1 DEF SoftmaxTurnOf
      <4>2. CASE LastSplit(g) \in bars
        <5>1. \A y \in Warps : Stored(launch, sm[g][w]) <= Stored(launch, sm[g][y])
          BY <4>2, SoftmaxBehind DEF SoftmaxTurnOf
        <5>2. \A y \in Warps : A[y] >= A[w]
          BY <1>4, <2>1, <2>5, <5>1, SoftmaxSees
        <5> QED BY <2>5, <3>2, <4>2, <5>2 DEF SoftmaxTurnOf
      <4> QED BY <4>1, <4>2
    <3> HIDE DEF A, B
    <3>4. AllOf(bar'[LastSplit(x)], Warps, B)
      BY <2>2, <2>3, <3>1, <3>3, AllStep
    <3> QED BY <3>4 DEF B
  <2> QED BY <2>4, <2>5
<1>7. \A s : SoftmaxRole(s)' = SoftmaxRole(s)
  BY DEF SoftmaxRole
<1> QED BY <1>2, <1>3, <1>5, <1>6, <1>7 DEF Scores2P

LEMMA PFreesStep ==
    ASSUME NEW st, Control(st), NEW g \in Stage, NEW w \in Warps, NEW s2, sm' = Put(sm, g, w, s2),
           SoftmaxRole(s2), UNCHANGED <<launch, mm, co>>, NEW bars, Moves(bars), SoftmaxTurnOf(g, w, s2, bars)
    PROVE  OFree'
<1>1. Registers /\ Scores2P(st[1]) /\ MmaRole /\ Queue(st) /\ OFree /\ Corrections
  BY DEF Control
<1>2. Warps' = Warps /\ Participants' = Participants
  BY DEF Warps, Participants
<1>3. /\ sm'[g][w] = s2
      /\ \A x \in Stage, y \in Warps : (x # g \/ y # w) => sm'[x][y] = sm[x][y]
  <2>1. Rows(sm, Stage, Warps)
    BY <1>1 DEF Scores2P
  <2> QED BY <2>1, UpdateTwo
<1>4. ASSUME NEW x \in Stage
      PROVE  AllOf(bar'[SpoEmpty(x)], Participants, Frees(x)')
  <2> DEFINE A == Frees(x)
             B == Frees(x)'
             me == <<"softmax", w>>
  <2>1. \A y \in Participants :
          /\ y[1] = "softmax" => /\ A[y] = Announced(launch, sm[x][y[2]])
                                 /\ B[y] = Announced(launch, sm'[x][y[2]])
          /\ y[1] # "softmax" => A[y] = Lets(launch, co[y[2]], x) /\ B[y] = A[y]
    BY <1>2 DEF Frees
  <2>2. me \in Participants /\ me[1] = "softmax" /\ me[2] = w
    BY <1>1, ParticipantsTwice
  <2>4. \A y \in Participants : (y # me \/ x # g) => B[y] = A[y]
    <3> SUFFICES ASSUME NEW y \in Participants, y # me \/ x # g, y[1] = "softmax"
                 PROVE  B[y] = A[y]
      BY <2>1
    <3>1. y = <<y[1], y[2]>> /\ y[2] \in Warps
      BY <1>1, ParticipantsTwice
    <3>2. y[2] # w \/ x # g
      BY <3>1
    <3> QED BY <1>3, <2>1, <3>1, <3>2
  <2>5. \A y \in Participants : A[y] >= PTaken(launch, mm, x)
    <3> SUFFICES ASSUME NEW y \in Participants
                 PROVE  A[y] >= PTaken(launch, mm, x)
      OBVIOUS
    <3>1. PICK v \in Warps : y[2] = v
      BY <1>1, ParticipantsTwice
    <3>2. PTaken(launch, mm, x) <= Announced(launch, sm[x][v]) /\ SoftmaxRole(sm[x][v])
      BY <1>1 DEF Scores2P
    <3>3. PTaken(launch, mm, x) <= Lets(launch, co[v], x) /\ CorrectionRole(co[v])
      BY <1>1 DEF OFree, Corrections
    <3>4. PTaken(launch, mm, x) \in Nat
      BY <1>1, StageCounts
    <3>5. Announced(launch, sm[x][v]) \in Nat /\ Lets(launch, co[v], x) \in Nat
      BY <1>1, <3>2, <3>3, SoftmaxCounts, CorrectionCounts
    <3> QED BY <2>1, <3>1, <3>2, <3>3, <3>4, <3>5
  <2>6. AllOf(bar[SpoEmpty(x)], Participants, A) /\ SpoEmpty(x) \in BarId
    BY <1>1, WarpBarNames DEF OFree
  <2>7. IsFiniteSet(Participants) /\ Expected(SpoEmpty(x)) = Cardinality(Participants)
    BY <1>1, ParticipantsTwice
  <2>8. \/ SpoEmpty(x) \in bars /\ B[me] = A[me] + 1 /\ \A y \in Participants : A[y] >= A[me]
        \/ SpoEmpty(x) \notin bars /\ B[me] = A[me]
    <3>1. CASE x # g
      <4>1. SpoEmpty(x) \notin bars
        BY <3>1, BarDiffer DEF SoftmaxTurnOf, SpoEmpty, LastSplit
      <4> QED BY <2>2, <2>4, <3>1, <4>1
    <3>2. CASE x = g
      <4>1. A[me] = Announced(launch, sm[g][w]) /\ B[me] = Announced(launch, s2)
        BY <1>3, <2>1, <2>2, <3>2
      <4>2. CASE SpoEmpty(g) \notin bars
        BY <3>2, <4>1, <4>2 DEF SoftmaxTurnOf
      <4>3. CASE SpoEmpty(g) \in bars
        <5>1. sm[g][w].pc \in {"scale", "p1"} /\ Announced(launch, s2) = Announced(launch, sm[g][w]) + 1
          BY <4>3 DEF SoftmaxTurnOf
        <5>2. Announced(launch, sm[g][w]) = Stored(launch, sm[g][w]) + 0 /\ Stored(launch, sm[g][w]) \in Nat
          <6>1. Stored(launch, sm[g][w]) \in Nat /\ If(sm[g][w].pc = "p2") = 0
            BY <5>1, SoftmaxSees DEF If
          <6> QED BY <6>1 DEF Announced
        <5>3. Stored(launch, sm[g][w]) <= PTaken(launch, mm, g)
          BY <5>1, SoftmaxBehind
        <5>4. PTaken(launch, mm, g) \in Nat
          BY <1>1, StageCounts
        <5>5. \A y \in Participants : A[y] \in Nat
          BY <2>6, AllNear
        <5>6. \A y \in Participants : A[y] >= A[me]
          <6> HIDE DEF A, B, me
          <6> QED BY <2>5, <3>2, <4>1, <5>2, <5>3, <5>4, <5>5
        <5> QED BY <3>2, <4>1, <4>3, <5>1, <5>6
      <4> QED BY <4>2, <4>3
    <3> QED BY <3>1, <3>2
  <2> HIDE DEF A, B, me
  <2>9. AllOf(bar'[SpoEmpty(x)], Participants, B)
    BY <2>2, <2>4, <2>6, <2>7, <2>8, AllStep
  <2> QED BY <2>9 DEF B
<1>5. ASSUME NEW x \in Stage, NEW v \in Warps
      PROVE  PTaken(launch, mm, x) <= Lets(launch, co[v], x)
  BY <1>1 DEF OFree
<1> QED BY <1>2, <1>4, <1>5 DEF OFree

LEMMA SignalsStep ==
    ASSUME NEW st, Control(st), NEW g \in Stage, NEW w \in Warps, NEW s2, sm' = Put(sm, g, w, s2),
           SoftmaxRole(s2), UNCHANGED <<launch, co>>, NEW bars, Moves(bars), SoftmaxTurnOf(g, w, s2, bars),
           \A v \in Warps : Acquired(launch, s2) <= Returns(launch, co[v], g) + 1
    PROVE  Statistics'
<1>1. Registers /\ Scores2P(st[1]) /\ Statistics /\ named \in [Stage -> [Warps -> Nat]]
  BY DEF Control, Statistics
<1>2. Warps' = Warps
  BY DEF Warps
<1>3. /\ sm'[g][w] = s2
      /\ \A x \in Stage, y \in Warps : (x # g \/ y # w) => sm'[x][y] = sm[x][y]
  <2>1. Rows(sm, Stage, Warps)
    BY <1>1 DEF Scores2P
  <2> QED BY <2>1, UpdateTwo
<1>4. \/ named' = named /\ Signals(launch, s2) = Signals(launch, sm[g][w])
      \/ /\ named' = [named EXCEPT ![g][w] = named[g][w] + 1]
         /\ Signals(launch, s2) = Signals(launch, sm[g][w]) + 1
  BY DEF SoftmaxTurnOf, Signal
<1>5. named' \in [Stage -> [Warps -> Nat]]
  <2>1. named[g][w] \in Nat
    BY <1>1
  <2> QED BY <1>1, <1>4, <2>1
<1>6. ASSUME NEW x \in Stage, NEW y \in Warps
      PROVE  Signals(launch, sm'[x][y]) = Meets(launch, co[y], x) + named'[x][y]
  <2>1. Signals(launch, sm[x][y]) = Meets(launch, co[y], x) + named[x][y] /\ named[x][y] \in Nat
        /\ Signals(launch, sm[x][y]) \in Nat
    BY SoftmaxSees
  <2>2. CASE x = g /\ y = w
    <3>1. \/ named'[g][w] = named[g][w] /\ Signals(launch, s2) = Signals(launch, sm[g][w])
          \/ /\ named'[g][w] = named[g][w] + 1 /\ Signals(launch, s2) = Signals(launch, sm[g][w]) + 1
      BY <1>1, <1>4
    <3>2. Meets(launch, co[w], g) \in Nat
      <4>1. CorrectionRole(co[w])
        BY DEF Control, Corrections
      <4> QED BY <1>1, <4>1, CorrectionCounts
    <3>3. sm'[x][y] = s2
      BY <1>3, <2>2
    <3> QED BY <2>1, <2>2, <3>1, <3>2, <3>3
  <2>3. CASE ~(x = g /\ y = w)
    <3>1. named'[x][y] = named[x][y]
      BY <1>1, <1>4, <2>3
    <3> QED BY <1>3, <2>1, <2>3, <3>1
  <2> QED BY <2>2, <2>3
<1>7. ASSUME NEW x \in Stage, NEW y \in Warps, NEW v \in Warps
      PROVE  Acquired(launch, sm'[x][y]) <= Returns(launch, co[v], x) + 1
  <2>1. CASE x = g /\ y = w
    BY <1>3, <2>1
  <2>2. CASE ~(x = g /\ y = w)
    BY <1>3, <2>2, SoftmaxSees
  <2> QED BY <2>1, <2>2
<1>8. ASSUME NEW x \in Stage
      PROVE  AllOf(bar'[StatsEmpty(x)], Warps, Returned(x)')
  <2>1. StatsEmpty(x) \notin bars /\ StatsEmpty(x) \in BarId
    BY WarpBarNames DEF SoftmaxTurnOf, SpoEmpty, LastSplit
  <2>2. bar'[StatsEmpty(x)] = bar[StatsEmpty(x)]
    BY <2>1 DEF Moves
  <2>3. Returned(x)' = Returned(x)
    BY <1>2 DEF Returned
  <2> QED BY <1>1, <2>2, <2>3 DEF Statistics
<1> QED BY <1>2, <1>5, <1>6, <1>7, <1>8 DEF Statistics

\* A turn of a softmax warp keeps the invariant.
LEMMA SoftmaxTurn ==
    ASSUME NEW st, Control(st), NEW g \in Stage, NEW w \in Warps, NEW s2, sm' = Put(sm, g, w, s2),
           SoftmaxRole(s2), UNCHANGED <<launch, inflight, tc, ld, mm, co, ep>>, NEW bars, Moves(bars),
           SoftmaxTurnOf(g, w, s2, bars), Reads(launch, s2) <= OnStage(st[1].qk, g),
           \A v \in Warps : Acquired(launch, s2) <= Returns(launch, co[v], g) + 1
    PROVE  Control(st)'
<1>0. \A b \in bars : b[1] \in PAnnounced
  BY DEF SoftmaxTurnOf, PAnnounced, SpoEmpty, LastSplit
<1>1. ASSUME NEW names, names \cap PAnnounced = {}
      PROVE  Still(names)
  BY <1>0, <1>1, MovesStill
<1>2. Registers' /\ LoadRole' /\ MmaRole' /\ Queue(st)'
  BY LoadFrame, MmaFrame, QueueFrame DEF Control, Registers, Moves
<1>3. /\ Still({"kv_full", "kv_empty"}) /\ Still({"q_full", "q_empty"}) /\ Still({"spo_full", "o_acc"})
      /\ Still({"epi_full", "reduce", "epi_empty"}) /\ Still({"load_epi_full", "load_epi_empty"})
  BY <1>1 DEF PAnnounced
<1>4. KvRing(st[1])' /\ QTile(st[1])'
  <2>1. mm'.kv <= KvLoads(ld) /\ QTaken(launch, mm') <= QLoads(launch, ld)
    BY DEF Control, KvRing, QTile
  <2> QED BY <1>3, <2>1, KvFrame, QFrame DEF Control
<1>5. InFlight' /\ ByTensorCore(st[1])' /\ Corrections' /\ LoadEpiTurn' /\ ODone(st[1])' /\ OTile'
  BY <1>3, FlightFrame, CoreFrame, CorrectionFrame, TurnFrame, ODoneFrame, OTileFrame DEF Control
<1>6. OFree' /\ Statistics' /\ Scores2P(st[1])'
  BY PStep, PFreesStep, SignalsStep
<1> QED BY <1>2, <1>4, <1>5, <1>6 DEF Control

SoftmaxRegisters(s) ==
    s \in [pc : {"tile", "s", "scale", "p1", "p2", "sum", "done"}, tile : Nat, n : Nat,
           s : {0, 1}, stats : {0, 1}, score : {s.score}]

LEMMA Other ==
    ASSUME NEW n \in Nat, NEW x, x = n % 2
    PROVE  1 - x = (n + 1) % 2 /\ 1 - x \in {0, 1} /\ x = (n + 2) % 2
BY Parity

\* What a softmax warp has of the tile it is in.
LEMMA SoftmaxIs ==
    ASSUME NEW st, Control(st), NEW g \in Stage, NEW w \in Warps
    PROVE  LET me == sm[g][w] IN
           /\ Registers /\ SoftmaxRole(me) /\ SoftmaxRegisters(me)
           /\ me.tile \in 1 .. Len(launch.work) + 1 /\ me.tile \in Nat /\ me.tile >= 1
           /\ me.n \in Nat /\ Steps(launch, me.tile) \in Nat /\ Steps(launch, me.tile) + me.tile - 1 \in Nat
           /\ me.s \in {0, 1} /\ me.stats \in {0, 1}
           /\ (me.tile \in Tiles \/ me.pc \notin {"tile", "done"}) =>
                /\ me.tile \in 1 .. Len(launch.work) /\ me.tile + 1 \in 1 .. Len(launch.work) + 1
                /\ Half(launch, me.tile) \in Nat /\ N(me.tile) = 2 * Half(launch, me.tile)
                /\ HasWork(me.tile) <=> Half(launch, me.tile) > 0
                /\ Steps(launch, me.tile + 1) = Steps(launch, me.tile) + Half(launch, me.tile)
<1> DEFINE me == sm[g][w]
<1>1. Registers /\ SoftmaxRole(me)
  BY SoftmaxSees
<1>2. SoftmaxRegisters(me) /\ me.tile \in 1 .. Len(launch.work) + 1 /\ Len(launch.work) \in Nat
  BY <1>1, Tile DEF SoftmaxRole, SoftmaxRegisters
<1>3. me.tile \in Nat /\ me.tile >= 1 /\ me.n \in Nat /\ me.s \in {0, 1} /\ me.stats \in {0, 1}
  BY <1>2 DEF SoftmaxRegisters
<1>4. Steps(launch, me.tile) \in Nat
  BY <1>1, <1>2, Tile
<1>5. Steps(launch, me.tile) + me.tile - 1 \in Nat
  <2> HIDE DEF me
  <2> QED BY <1>3, <1>4
<1>6. ASSUME me.tile \in Tiles \/ me.pc \notin {"tile", "done"}
      PROVE  /\ me.tile \in 1 .. Len(launch.work) /\ me.tile + 1 \in 1 .. Len(launch.work) + 1
             /\ Half(launch, me.tile) \in Nat /\ N(me.tile) = 2 * Half(launch, me.tile)
             /\ HasWork(me.tile) <=> Half(launch, me.tile) > 0
             /\ Steps(launch, me.tile + 1) = Steps(launch, me.tile) + Half(launch, me.tile)
  <2>1. me.tile \in 1 .. Len(launch.work)
    BY <1>1, <1>2, <1>3, <1>6, Tile DEF SoftmaxRole
  <2> QED BY <1>1, <2>1, Tile
<1> QED BY <1>1, <1>2, <1>3, <1>4, <1>5, <1>6

LEMMA SoftmaxTileStep ==
    ASSUME NEW st, Control(st), NEW g \in Stage, NEW w \in Warps, SoftmaxTile(g, w)
    PROVE  Control(st)'
<1> DEFINE me == sm[g][w]
           t == me.tile
           h == Half(launch, t)
           s == Steps(launch, t)
           b == s + t - 1
<1>1. /\ Registers /\ SoftmaxRole(me) /\ SoftmaxRegisters(me) /\ me.pc = "tile"
      /\ t \in 1 .. Len(launch.work) /\ t + 1 \in 1 .. Len(launch.work) + 1 /\ h \in Nat /\ s \in Nat /\ b \in Nat
      /\ HasWork(t) <=> h > 0
      /\ Steps(launch, t + 1) = s + h /\ t \in Nat /\ t >= 1 /\ me.stats \in {0, 1} /\ me.n \in Nat
  BY SoftmaxIs DEF SoftmaxTile
<1>2. /\ Stored(launch, me) = s /\ Reads(launch, me) = s /\ Announced(launch, me) = s
      /\ Acquired(launch, me) = b /\ Signals(launch, me) = b
  <2>1. s + 0 = s /\ s + 0 + 0 = s /\ b + 0 = b
    BY <1>1
  <2> QED BY <1>1, <2>1 DEF Stored, Reads, Announced, Acquired, Signals, If
<1>3. me.s = s % 2 /\ me.stats = (b + 1) % 2
  BY <1>1, <1>2 DEF SoftmaxRole
<1>4. 1 - me.stats = (b + 2) % 2 /\ 1 - me.stats \in {0, 1}
  <2>1. b + 1 \in Nat /\ b + 1 + 1 = b + 2
    BY <1>1
  <2> HIDE DEF b, me
  <2> QED BY <1>3, <2>1, Other
<1>5. \A v \in Warps : b <= Returns(launch, co[v], g) /\ Returns(launch, co[v], g) \in Nat
  BY <1>2, StatsFree DEF SoftmaxTile
<1>6. UNCHANGED <<launch, inflight, tc, ld, mm, co, ep>> /\ Moves({})
  BY <1>1, MovesNone DEF SoftmaxTile, memory
<1>7. s <= OnStage(st[1].qk, g)
  BY <1>2, SoftmaxSees
<1>8. CASE h > 0
  <2> DEFINE x == 1 - me.stats
             s2 == [me EXCEPT !.pc = "s", !.n = 0, !.stats = x]
  <2>1. sm' = Put(sm, g, w, s2) /\ named' = named
    BY <1>1, <1>8 DEF SoftmaxTile, Put
  <2> HIDE DEF x
  <2>2. /\ s2.pc = "s" /\ s2.n = 0 /\ s2.stats = x /\ s2.tile = t /\ s2.s = me.s
        /\ SoftmaxRegisters(s2)
    <3>1. x \in {0, 1}
      BY <1>4 DEF x
    <3> QED BY <1>1, <3>1 DEF SoftmaxRegisters
  <2> HIDE DEF s2
  <2>3. /\ Stored(launch, s2) = s /\ Reads(launch, s2) = s /\ Announced(launch, s2) = s
        /\ Acquired(launch, s2) = b + 1 /\ Signals(launch, s2) = b
    <3>1. s + 0 = s /\ s + 0 + 0 = s /\ b + (0 + 0) = b
      BY <1>1
    <3> QED BY <2>2, <3>1 DEF Stored, Reads, Announced, Acquired, Signals, If
  <2>4. SoftmaxRole(s2)
    <3>1. s2.stats = (b + 1 + 1) % 2
      <4>1. b + 1 + 1 = b + 2
        BY <1>1
      <4> QED BY <1>4, <2>2, <4>1 DEF x
    <3> QED BY <1>1, <1>3, <1>8, <2>2, <2>3, <3>1 DEF SoftmaxRole, SoftmaxRegisters
  <2>5. SoftmaxTurnOf(g, w, s2, {})
    BY <1>2, <2>1, <2>3 DEF SoftmaxTurnOf
  <2>6. \A v \in Warps : Acquired(launch, s2) <= Returns(launch, co[v], g) + 1
    <3> HIDE DEF b
    <3> QED BY <1>1, <1>5, <2>3
  <2>7. Reads(launch, s2) <= OnStage(st[1].qk, g)
    BY <1>7, <2>3
  <2> QED BY <1>6, <2>1, <2>4, <2>5, <2>6, <2>7, SoftmaxTurn
<1>9. CASE ~(h > 0)
  <2> DEFINE x == 1 - me.stats
             u == me.tile + 1
             s2 == [me EXCEPT !.tile = u, !.stats = x]
  <2>1. sm' = Put(sm, g, w, s2) /\ Signal(g, w)
    BY <1>1, <1>9 DEF SoftmaxTile, Put
  <2>2. x \in {0, 1} /\ u \in Nat /\ u = t + 1 /\ u \in 1 .. Len(launch.work) + 1 /\ u - 1 = t
        /\ Steps(launch, u) = s
    <3>1. h = 0 /\ s + h = s
      BY <1>1, <1>9
    <3>2. Steps(launch, t + 1) = s
      BY <1>1, <3>1
    <3>3. me.tile + 1 - 1 = me.tile /\ me.tile + 1 \in Nat
      BY <1>1
    <3> QED BY <1>1, <1>4, <3>2, <3>3
  <2> HIDE DEF x, u
  <2>3. /\ s2.pc = "tile" /\ s2.n = me.n /\ s2.stats = x /\ s2.tile = u /\ s2.s = me.s
        /\ SoftmaxRegisters(s2)
    BY <1>1, <2>2 DEF SoftmaxRegisters
  <2> HIDE DEF s2
  <2>4. /\ Stored(launch, s2) = s /\ Reads(launch, s2) = s /\ Announced(launch, s2) = s
        /\ Acquired(launch, s2) = b + 1 /\ Signals(launch, s2) = b + 1
    <3>1. s + 0 = s /\ s + 0 + 0 = s /\ s + u - 1 + 0 = b + 1
      <4>1. s \in Nat /\ t \in Nat /\ u = t + 1
        BY <1>1, <2>2
      <4> HIDE DEF s, t
      <4> QED BY <4>1
    <3> QED BY <2>2, <2>3, <3>1 DEF Stored, Reads, Announced, Acquired, Signals, If
  <2>5. SoftmaxRole(s2)
    <3>1. s2.stats = (b + 1 + 1) % 2
      <4>1. b + 1 + 1 = b + 2
        BY <1>1
      <4> QED BY <1>4, <2>3, <4>1 DEF x
    <3> QED BY <1>1, <1>3, <2>2, <2>3, <2>4, <3>1 DEF SoftmaxRole, SoftmaxRegisters
  <2>6. SoftmaxTurnOf(g, w, s2, {})
    BY <1>2, <2>1, <2>4 DEF SoftmaxTurnOf
  <2>7. \A v \in Warps : Acquired(launch, s2) <= Returns(launch, co[v], g) + 1
    <3> HIDE DEF b
    <3> QED BY <1>1, <1>5, <2>4
  <2>8. Reads(launch, s2) <= OnStage(st[1].qk, g)
    BY <1>7, <2>4
  <2> QED BY <1>6, <2>1, <2>5, <2>6, <2>7, <2>8, SoftmaxTurn
<1> QED BY <1>8, <1>9

\* The scores of its next step are there: no QK runs further ahead than one.
LEMMA ScoreReady ==
    ASSUME NEW st, Control(st), NEW g \in Stage, NEW w \in Warps, sm[g][w].pc = "s",
           Done(SpoFull(g), sm[g][w].s)
    PROVE  OnStage(st[1].qk, g) = Stored(launch, sm[g][w]) + 1
<1> DEFINE q == Stored(launch, sm[g][w])
           n == OnStage(st[1].qk, g)
<1>1. Registers /\ MmaRole /\ Queue(st) /\ ByTensorCore(st[1])
  BY DEF Control
<1>2. q \in Nat /\ sm[g][w].s = q % 2 /\ Reads(launch, sm[g][w]) = q + 0 /\ Reads(launch, sm[g][w]) <= n
  <2>1. SoftmaxRole(sm[g][w]) /\ q \in Nat /\ Reads(launch, sm[g][w]) <= n
    BY SoftmaxSees
  <2>2. If(sm[g][w].pc \in {"scale", "p1", "p2"}) = 0
    BY DEF If
  <2>3. Reads(launch, sm[g][w]) = q + 0
    BY <2>2, Zenon DEF Reads
  <2> QED BY <2>1, <2>3 DEF SoftmaxRole
<1>3. /\ n \in Nat /\ OnStage(Issued(launch, mm).pv2, g) \in Nat
      /\ OnStage(Issued(launch, mm).qk, g) \in Nat
      /\ n <= OnStage(Issued(launch, mm).qk, g)
      /\ OnStage(Issued(launch, mm).qk, g) <= OnStage(Issued(launch, mm).pv2, g) + 1
      /\ OnStage(Issued(launch, mm).pv2, g) <= q
  BY <1>1, StageCounts, SoftmaxSees
<1>4. Phases(bar[SpoFull(g)], n)
  BY <1>1 DEF ByTensorCore
<1> HIDE DEF q, n
<1>5. n = q \/ n = q + 1
  BY <1>2, <1>3
<1>6. n = q + 1
  <2>1. Done(SpoFull(g), q % 2) /\ n \in Int
    BY <1>2, <1>3
  <2> QED BY <1>2, <1>4, <1>5, <2>1, PhaseWait
<1> QED BY <1>6 DEF n, q

LEMMA SoftmaxScoreStep ==
    ASSUME NEW st, Control(st), NEW g \in Stage, NEW w \in Warps, SoftmaxScore(g, w)
    PROVE  Control(st)'
<1> DEFINE me == sm[g][w]
           t == me.tile
           h == Half(launch, t)
           s == Steps(launch, t)
           b == s + t - 1
           n == me.n
           x == IF launch.fp8 => kScale[g] = Tag("scale", sp[g][w].tile, sp[g][w].grp) THEN sp[g][w] ELSE Nothing
           p == IF me.n = 0 THEN "p1" ELSE "scale"
           s2 == [me EXCEPT !.pc = p, !.score = x]
<1>1. /\ Registers /\ SoftmaxRole(me) /\ SoftmaxRegisters(me) /\ me.pc = "s"
      /\ t \in 1 .. Len(launch.work) /\ h \in Nat /\ s \in Nat /\ b \in Nat
      /\ t \in Nat /\ t >= 1 /\ n \in Nat
  BY SoftmaxIs DEF SoftmaxScore
<1>2. /\ Stored(launch, me) = s + n /\ Announced(launch, me) = s + n
      /\ Acquired(launch, me) = b + (IF n = 0 THEN 1 ELSE n) /\ Signals(launch, me) = b + n
  <2>1. n + 0 = n /\ s + n + 0 = s + n
    BY <1>1
  <2> QED BY <1>1, <2>1 DEF Stored, Announced, Acquired, Signals, If
<1>3. OnStage(st[1].qk, g) = s + n + 1
  BY <1>2, ScoreReady DEF SoftmaxScore
<1>4. UNCHANGED <<launch, inflight, tc, ld, mm, co, ep>> /\ Moves({})
  BY <1>1, MovesNone DEF SoftmaxScore, memory
<1>5. /\ sm' = Put(sm, g, w, s2) /\ (n = 0 => Signal(g, w)) /\ (n # 0 => named' = named)
  BY DEF SoftmaxScore, Put
<1>6. p \in {"p1", "scale"} /\ (p = "p1" <=> n = 0)
  OBVIOUS
<1> HIDE DEF x, p
<1>7. /\ s2.pc = p /\ s2.n = n /\ s2.stats = me.stats /\ s2.tile = t /\ s2.s = me.s
      /\ SoftmaxRegisters(s2)
  BY <1>1, <1>6 DEF SoftmaxRegisters
<1> HIDE DEF s2
<1>8. /\ Stored(launch, s2) = s + n /\ Reads(launch, s2) = s + n + 1 /\ Announced(launch, s2) = s + n
      /\ Acquired(launch, s2) = b + (IF n = 0 THEN 1 ELSE n)
      /\ Signals(launch, s2) = b + (IF n = 0 THEN 1 ELSE n)
  <2>1. n + 0 = n /\ s + n + 0 = s + n
    BY <1>1
  <2>2. /\ Stored(launch, s2) = s + n /\ Reads(launch, s2) = s + n + 1 /\ Announced(launch, s2) = s + n
    BY <1>6, <1>7, <2>1 DEF Stored, Reads, Announced, If
  <2>3. CASE n = 0
    <3>1. 0 + 1 = 1 /\ p = "p1"
      BY <1>6, <2>3
    <3> QED BY <1>7, <2>2, <2>3, <3>1 DEF Acquired, Signals, If
  <2>4. CASE n # 0
    <3>1. p = "scale"
      BY <1>6, <2>4
    <3> QED BY <1>7, <2>1, <2>2, <2>4, <3>1 DEF Acquired, Signals, If
  <2> QED BY <2>3, <2>4
<1>9. SoftmaxRole(s2)
  <2>1. /\ s2.s = Stored(launch, s2) % 2 /\ s2.stats = (Acquired(launch, s2) + 1) % 2
    BY <1>1, <1>2, <1>7, <1>8 DEF SoftmaxRole
  <2>2. h > 0 /\ n < h /\ t <= Len(launch.work) /\ t \in 1 .. Len(launch.work) + 1
    BY <1>1, Tile DEF SoftmaxRole
  <2>3. s2.pc = "scale" => n > 0
    BY <1>1, <1>6, <1>7
  <2> QED BY <1>6, <1>7, <2>1, <2>2, <2>3 DEF SoftmaxRole, SoftmaxRegisters
<1>10. SoftmaxTurnOf(g, w, s2, {})
  <2>1. CASE n = 0
    <3>1. Signal(g, w) /\ Signals(launch, s2) = Signals(launch, me) + 1
      BY <1>1, <1>2, <1>5, <1>8, <2>1
    <3> QED BY <1>2, <1>8, <3>1 DEF SoftmaxTurnOf
  <2>2. CASE n # 0
    <3>1. named' = named /\ Signals(launch, s2) = Signals(launch, me)
      BY <1>2, <1>5, <1>8, <2>2
    <3> QED BY <1>2, <1>8, <3>1 DEF SoftmaxTurnOf
  <2> QED BY <2>1, <2>2
<1>11. \A v \in Warps : Acquired(launch, s2) <= Returns(launch, co[v], g) + 1
  <2>1. Acquired(launch, s2) = Acquired(launch, me)
    BY <1>2, <1>8
  <2> QED BY <2>1, SoftmaxSees
<1>12. Reads(launch, s2) <= OnStage(st[1].qk, g)
  <2>1. s \in Nat /\ n \in Nat
    BY <1>1
  <2> HIDE DEF s, n
  <2>2. s + n + 1 <= s + n + 1
    BY <2>1
  <2> QED BY <1>3, <1>8, <2>2
<1> QED BY <1>4, <1>5, <1>9, <1>10, <1>11, <1>12, SoftmaxTurn

LEMMA SoftmaxScaleStep ==
    ASSUME NEW st, Control(st), NEW g \in Stage, NEW w \in Warps, SoftmaxScale(g, w)
    PROVE  Control(st)'
<1> DEFINE me == sm[g][w]
           t == me.tile
           s == Steps(launch, t)
           b == s + t - 1
           n == me.n
           x == 1 - me.stats
           s2 == [me EXCEPT !.pc = "p1", !.stats = x]
<1>1. /\ Registers /\ SoftmaxRole(me) /\ SoftmaxRegisters(me) /\ me.pc = "scale"
      /\ t \in 1 .. Len(launch.work) /\ s \in Nat /\ b \in Nat /\ n \in Nat
  BY SoftmaxIs DEF SoftmaxScale
<1>2. /\ Stored(launch, me) = s + n /\ Announced(launch, me) = s + n /\ Reads(launch, me) = s + n + 1
      /\ Acquired(launch, me) = b + n /\ Signals(launch, me) = b + n
  <2>1. n + 0 = n /\ s + n + 0 = s + n
    BY <1>1
  <2> QED BY <1>1, <2>1 DEF Stored, Announced, Reads, Acquired, Signals, If
<1>3. x = (b + n + 1 + 1) % 2 /\ x \in {0, 1}
  <2>1. me.stats = (b + n + 1) % 2 /\ b + n + 1 \in Nat
    <3>1. me.stats = (b + n + 1) % 2
      BY <1>1, <1>2 DEF SoftmaxRole
    <3> HIDE DEF b, n
    <3> QED BY <1>1, <3>1
  <2> HIDE DEF b, n, me
  <2> QED BY <2>1, Other
<1>4. UNCHANGED <<launch, inflight, tc, ld, mm, co, ep>> /\ Moves({})
  BY <1>1, MovesNone DEF SoftmaxScale
<1>5. sm' = Put(sm, g, w, s2) /\ Signal(g, w)
  BY DEF SoftmaxScale, Put
<1>6. \A v \in Warps : b + n <= Returns(launch, co[v], g) /\ Returns(launch, co[v], g) \in Nat
  BY <1>2, StatsFree DEF SoftmaxScale
<1> HIDE DEF x
<1>7. /\ s2.pc = "p1" /\ s2.n = n /\ s2.stats = x /\ s2.tile = t /\ s2.s = me.s
      /\ SoftmaxRegisters(s2)
  BY <1>1, <1>3 DEF SoftmaxRegisters
<1> HIDE DEF s2
<1>8. /\ Stored(launch, s2) = s + n /\ Reads(launch, s2) = s + n + 1 /\ Announced(launch, s2) = s + n
      /\ Acquired(launch, s2) = b + n + 1 /\ Signals(launch, s2) = b + n + 1
  <2>1. s + n + 0 = s + n /\ b + (n + 1) = b + n + 1
    BY <1>1
  <2> QED BY <1>7, <2>1 DEF Stored, Reads, Announced, Acquired, Signals, If
<1>9. SoftmaxRole(s2)
  <2>1. /\ s2.s = Stored(launch, s2) % 2 /\ s2.stats = (Acquired(launch, s2) + 1) % 2
    BY <1>1, <1>2, <1>3, <1>7, <1>8 DEF SoftmaxRole
  <2>2. Half(launch, t) > 0 /\ n < Half(launch, t) /\ t <= Len(launch.work) /\ t \in 1 .. Len(launch.work) + 1
    BY <1>1, Tile DEF SoftmaxRole
  <2> QED BY <1>7, <2>1, <2>2 DEF SoftmaxRole, SoftmaxRegisters
<1>10. SoftmaxTurnOf(g, w, s2, {})
  BY <1>2, <1>5, <1>8 DEF SoftmaxTurnOf
<1>11. \A v \in Warps : Acquired(launch, s2) <= Returns(launch, co[v], g) + 1
  <2> HIDE DEF b, n
  <2> QED BY <1>1, <1>6, <1>8
<1>12. Reads(launch, s2) <= OnStage(st[1].qk, g)
  BY <1>2, <1>8, SoftmaxSees
<1> QED BY <1>4, <1>5, <1>9, <1>10, <1>11, <1>12, SoftmaxTurn

LEMMA SoftmaxP1Step ==
    ASSUME NEW st, Control(st), NEW g \in Stage, NEW w \in Warps, SoftmaxP1(g, w)
    PROVE  Control(st)'
<1> DEFINE me == sm[g][w]
           t == me.tile
           s == Steps(launch, t)
           b == s + t - 1
           n == me.n
           s2 == [me EXCEPT !.pc = "p2"]
<1>1. /\ Registers /\ SoftmaxRole(me) /\ SoftmaxRegisters(me) /\ me.pc = "p1"
      /\ t \in 1 .. Len(launch.work) /\ s \in Nat /\ b \in Nat /\ n \in Nat
  BY SoftmaxIs DEF SoftmaxP1
<1>2. /\ Stored(launch, me) = s + n /\ Announced(launch, me) = s + n /\ Reads(launch, me) = s + n + 1
      /\ Acquired(launch, me) = b + (n + 1) /\ Signals(launch, me) = b + (n + 1)
  <2>1. s + n + 0 = s + n
    BY <1>1
  <2> QED BY <1>1, <2>1 DEF Stored, Announced, Reads, Acquired, Signals, If
<1>4. UNCHANGED <<launch, inflight, tc, ld, mm, co, ep>> /\ Moves({SpoEmpty(g)})
  BY <1>1, MovesArrive DEF SoftmaxP1
<1>5. sm' = Put(sm, g, w, s2) /\ named' = named
  BY DEF SoftmaxP1, Put
<1>7. /\ s2.pc = "p2" /\ s2.n = n /\ s2.stats = me.stats /\ s2.tile = t /\ s2.s = me.s
      /\ SoftmaxRegisters(s2)
  BY <1>1 DEF SoftmaxRegisters
<1> HIDE DEF s2
<1>8. /\ Stored(launch, s2) = s + n /\ Reads(launch, s2) = s + n + 1 /\ Announced(launch, s2) = s + n + 1
      /\ Acquired(launch, s2) = b + (n + 1) /\ Signals(launch, s2) = b + (n + 1)
  BY <1>7 DEF Stored, Reads, Announced, Acquired, Signals, If
<1>9. SoftmaxRole(s2)
  <2>1. /\ s2.s = Stored(launch, s2) % 2 /\ s2.stats = (Acquired(launch, s2) + 1) % 2
    BY <1>1, <1>2, <1>7, <1>8 DEF SoftmaxRole
  <2>2. Half(launch, t) > 0 /\ n < Half(launch, t) /\ t <= Len(launch.work) /\ t \in 1 .. Len(launch.work) + 1
    BY <1>1, Tile DEF SoftmaxRole
  <2> QED BY <1>7, <2>1, <2>2 DEF SoftmaxRole, SoftmaxRegisters
<1>10. SoftmaxTurnOf(g, w, s2, {SpoEmpty(g)})
  <2>1. LastSplit(g) \notin {SpoEmpty(g)}
    BY DEF LastSplit, SpoEmpty
  <2> QED BY <1>1, <1>2, <1>5, <1>8, <2>1 DEF SoftmaxTurnOf
<1>11. \A v \in Warps : Acquired(launch, s2) <= Returns(launch, co[v], g) + 1
  <2>1. Acquired(launch, s2) = Acquired(launch, me)
    BY <1>2, <1>8
  <2> QED BY <2>1, SoftmaxSees
<1>12. Reads(launch, s2) <= OnStage(st[1].qk, g)
  BY <1>2, <1>8, SoftmaxSees
<1> QED BY <1>4, <1>5, <1>9, <1>10, <1>11, <1>12, SoftmaxTurn

LEMMA SoftmaxP2Step ==
    ASSUME NEW st, Control(st), NEW g \in Stage, NEW w \in Warps, SoftmaxP2(g, w)
    PROVE  Control(st)'
<1> DEFINE me == sm[g][w]
           t == me.tile
           h == Half(launch, t)
           s == Steps(launch, t)
           b == s + t - 1
           n == me.n
           p == IF 2 * (me.n + 1) = N(me.tile) THEN "sum" ELSE "s"
           m == me.n + 1
           x == 1 - me.s
           s2 == [me EXCEPT !.pc = p, !.n = m, !.s = x]
<1>1. /\ Registers /\ SoftmaxRole(me) /\ SoftmaxRegisters(me) /\ me.pc = "p2"
      /\ t \in 1 .. Len(launch.work) /\ h \in Nat /\ N(t) = 2 * h /\ s \in Nat /\ b \in Nat /\ n \in Nat
  BY SoftmaxIs DEF SoftmaxP2
<1>2. /\ Stored(launch, me) = s + n /\ Announced(launch, me) = s + n + 1 /\ Reads(launch, me) = s + n + 1
      /\ Acquired(launch, me) = b + (n + 1) /\ Signals(launch, me) = b + (n + 1)
  BY <1>1 DEF Stored, Announced, Reads, Acquired, Signals, If
<1>3. x = (s + n + 1) % 2 /\ x \in {0, 1}
  <2>1. me.s = (s + n) % 2
    BY <1>1, <1>2 DEF SoftmaxRole
  <2>2. s \in Nat /\ n \in Nat
    BY <1>1
  <2> HIDE DEF s, n, me
  <2>3. s + n \in Nat
    BY <2>2
  <2> QED BY <2>1, <2>3, Other
<1>4. UNCHANGED <<launch, inflight, tc, ld, mm, co, ep>> /\ Moves({LastSplit(g)})
  BY <1>1, MovesArrive DEF SoftmaxP2
<1>5. sm' = Put(sm, g, w, s2) /\ named' = named
  BY DEF SoftmaxP2, Put
<1>6. /\ n < h /\ h > 0 /\ m \in Nat /\ m = n + 1 /\ m > 0 /\ m <= h
      /\ p \in {"sum", "s"} /\ (p = "sum" <=> m = h)
  <2>1. n < h /\ h > 0
    BY <1>1 DEF SoftmaxRole
  <2>2. 2 * (n + 1) = 2 * h <=> m = h
    <3>1. n \in Nat /\ h \in Nat /\ m = n + 1
      BY <1>1
    <3> HIDE DEF n, h, m
    <3> QED BY <3>1
  <2>3. p \in {"sum", "s"} /\ (p = "sum" <=> m = h)
    BY <1>1, <2>2
  <2> QED BY <1>1, <2>1, <2>3
<1> HIDE DEF x, p, m
<1>7. /\ s2.pc = p /\ s2.n = m /\ s2.stats = me.stats /\ s2.tile = t /\ s2.s = x
      /\ SoftmaxRegisters(s2)
  BY <1>1, <1>3, <1>6 DEF SoftmaxRegisters
<1> HIDE DEF s2
<1>8. /\ Stored(launch, s2) = s + m /\ Reads(launch, s2) = s + m /\ Announced(launch, s2) = s + m
      /\ Acquired(launch, s2) = b + m /\ Signals(launch, s2) = b + m
  <2>1. s + m + 0 = s + m /\ m + 0 = m /\ m # 0 /\ s2.pc \in {"sum", "s"}
    BY <1>1, <1>6, <1>7
  <2> QED BY <1>7, <2>1 DEF Stored, Reads, Announced, Acquired, Signals, If
<1>9. SoftmaxRole(s2)
  <2>1. s + m = s + n + 1 /\ b + m = b + (n + 1)
    BY <1>1, <1>6
  <2>2. /\ s2.s = Stored(launch, s2) % 2 /\ s2.stats = (Acquired(launch, s2) + 1) % 2
    BY <1>1, <1>2, <1>3, <1>7, <1>8, <2>1 DEF SoftmaxRole
  <2>3. t <= Len(launch.work) /\ t \in 1 .. Len(launch.work) + 1
    BY <1>1, Tile
  <2>4. (p = "s" => m < h) /\ (p = "sum" => m = h)
    BY <1>1, <1>6
  <2> QED BY <1>6, <1>7, <2>2, <2>3, <2>4 DEF SoftmaxRole, SoftmaxRegisters
<1>10. SoftmaxTurnOf(g, w, s2, {LastSplit(g)})
  <2>1. SpoEmpty(g) \notin {LastSplit(g)}
    BY DEF LastSplit, SpoEmpty
  <2>2. s + m = s + n + 1 /\ b + m = b + (n + 1)
    BY <1>1, <1>6
  <2> QED BY <1>1, <1>2, <1>5, <1>8, <2>1, <2>2 DEF SoftmaxTurnOf
<1>11. \A v \in Warps : Acquired(launch, s2) <= Returns(launch, co[v], g) + 1
  <2>1. Acquired(launch, s2) = Acquired(launch, me)
    BY <1>2, <1>6, <1>8
  <2> QED BY <2>1, SoftmaxSees
<1>12. Reads(launch, s2) <= OnStage(st[1].qk, g)
  <2>1. s + m = s + n + 1
    BY <1>1, <1>6
  <2> QED BY <1>2, <1>8, <2>1, SoftmaxSees
<1> QED BY <1>4, <1>5, <1>9, <1>10, <1>11, <1>12, SoftmaxTurn

LEMMA SoftmaxSumStep ==
    ASSUME NEW st, Control(st), NEW g \in Stage, NEW w \in Warps, SoftmaxSum(g, w)
    PROVE  Control(st)'
<1> DEFINE me == sm[g][w]
           t == me.tile
           h == Half(launch, t)
           s == Steps(launch, t)
           b == s + t - 1
           u == me.tile + 1
           x == 1 - me.stats
           s2 == [me EXCEPT !.pc = "tile", !.tile = u, !.stats = x]
<1>1. /\ Registers /\ SoftmaxRole(me) /\ SoftmaxRegisters(me) /\ me.pc = "sum"
      /\ t \in 1 .. Len(launch.work) /\ s \in Nat /\ b \in Nat /\ h \in Nat /\ me.n = h /\ t \in Nat
      /\ t + 1 \in 1 .. Len(launch.work) + 1 /\ Steps(launch, t + 1) = s + h /\ me.n \in Nat
  BY SoftmaxIs DEF SoftmaxSum, SoftmaxRole
<1>2. /\ Stored(launch, me) = s + h /\ Announced(launch, me) = s + h /\ Reads(launch, me) = s + h
      /\ Acquired(launch, me) = b + h /\ Signals(launch, me) = b + h
  <2>1. h + 0 = h /\ s + h + 0 = s + h
    BY <1>1
  <2> QED BY <1>1, <2>1 DEF Stored, Announced, Reads, Acquired, Signals, If
<1>3. x = (b + h + 1 + 1) % 2 /\ x \in {0, 1}
  <2>1. me.stats = (b + h + 1) % 2 /\ b + h + 1 \in Nat
    <3>1. me.stats = (b + h + 1) % 2
      BY <1>1, <1>2 DEF SoftmaxRole
    <3> HIDE DEF b, h
    <3> QED BY <1>1, <3>1
  <2> HIDE DEF b, h, me
  <2> QED BY <2>1, Other
<1>4. UNCHANGED <<launch, inflight, tc, ld, mm, co, ep>> /\ Moves({})
  BY <1>1, MovesNone DEF SoftmaxSum
<1>5. sm' = Put(sm, g, w, s2) /\ Signal(g, w)
  BY DEF SoftmaxSum, Put
<1>6. \A v \in Warps : b + h <= Returns(launch, co[v], g) /\ Returns(launch, co[v], g) \in Nat
  BY <1>2, StatsFree DEF SoftmaxSum
<1>13. u \in Nat /\ u \in 1 .. Len(launch.work) + 1 /\ Steps(launch, u) = s + h /\ s + h + u - 1 = b + h + 1
  <2>1. u \in Nat /\ u \in 1 .. Len(launch.work) + 1 /\ Steps(launch, u) = s + h
    BY <1>1
  <2>2. s + h + u - 1 = b + h + 1
    <3>1. s \in Nat /\ h \in Nat /\ t \in Nat /\ u = t + 1 /\ b = s + t - 1
      BY <1>1
    <3> HIDE DEF s, h, t, u, b
    <3> QED BY <3>1
  <2> QED BY <2>1, <2>2
<1> HIDE DEF x, u
<1>7. /\ s2.pc = "tile" /\ s2.n = me.n /\ s2.stats = x /\ s2.tile = u /\ s2.s = me.s
      /\ SoftmaxRegisters(s2)
  BY <1>1, <1>3, <1>13 DEF SoftmaxRegisters
<1> HIDE DEF s2
<1>8. /\ Stored(launch, s2) = s + h /\ Reads(launch, s2) = s + h /\ Announced(launch, s2) = s + h
      /\ Acquired(launch, s2) = b + h + 1 /\ Signals(launch, s2) = b + h + 1
  <2>1. s + h + 0 = s + h /\ s + h + 0 + 0 = s + h /\ b + h + 1 + 0 = b + h + 1
    BY <1>1
  <2> QED BY <1>7, <1>13, <2>1 DEF Stored, Reads, Announced, Acquired, Signals, If
<1>9. SoftmaxRole(s2)
  <2>1. /\ s2.s = Stored(launch, s2) % 2 /\ s2.stats = (Acquired(launch, s2) + 1) % 2
    BY <1>1, <1>2, <1>3, <1>7, <1>8 DEF SoftmaxRole
  <2> QED BY <1>7, <1>13, <2>1 DEF SoftmaxRole, SoftmaxRegisters
<1>10. SoftmaxTurnOf(g, w, s2, {})
  BY <1>2, <1>5, <1>8 DEF SoftmaxTurnOf
<1>11. \A v \in Warps : Acquired(launch, s2) <= Returns(launch, co[v], g) + 1
  <2> HIDE DEF b, h
  <2> QED BY <1>1, <1>6, <1>8
<1>12. Reads(launch, s2) <= OnStage(st[1].qk, g)
  BY <1>2, <1>8, SoftmaxSees
<1> QED BY <1>4, <1>5, <1>9, <1>10, <1>11, <1>12, SoftmaxTurn

LEMMA SoftmaxTailStep ==
    ASSUME NEW st, Control(st), NEW g \in Stage, NEW w \in Warps, SoftmaxTail(g, w)
    PROVE  Control(st)'
<1> DEFINE me == sm[g][w]
           t == me.tile
           s2 == [me EXCEPT !.pc = "done"]
<1>1. /\ Registers /\ SoftmaxRole(me) /\ SoftmaxRegisters(me) /\ me.pc = "tile"
      /\ t \in 1 .. Len(launch.work) + 1 /\ t \notin Tiles
  BY SoftmaxIs DEF SoftmaxTail
<1>2. t = Len(launch.work) + 1
  BY <1>1, Tile
<1>4. UNCHANGED <<launch, inflight, tc, ld, mm, co, ep>> /\ Moves({})
  BY <1>1, MovesNone DEF SoftmaxTail, memory
<1>5. sm' = Put(sm, g, w, s2) /\ named' = named
  BY DEF SoftmaxTail, Put
<1>7. /\ s2.pc = "done" /\ s2.n = me.n /\ s2.stats = me.stats /\ s2.tile = t /\ s2.s = me.s
      /\ SoftmaxRegisters(s2)
  BY <1>1 DEF SoftmaxRegisters
<1> HIDE DEF s2
<1>8. /\ Stored(launch, s2) = Stored(launch, me) /\ Reads(launch, s2) = Reads(launch, me)
      /\ Announced(launch, s2) = Announced(launch, me)
      /\ Acquired(launch, s2) = Acquired(launch, me) /\ Signals(launch, s2) = Signals(launch, me)
  BY <1>1, <1>7 DEF Stored, Reads, Announced, Acquired, Signals, If
<1>9. SoftmaxRole(s2)
  <2>1. /\ s2.s = Stored(launch, s2) % 2 /\ s2.stats = (Acquired(launch, s2) + 1) % 2
    BY <1>1, <1>7, <1>8 DEF SoftmaxRole
  <2> QED BY <1>1, <1>2, <1>7, <2>1 DEF SoftmaxRole, SoftmaxRegisters
<1>10. SoftmaxTurnOf(g, w, s2, {})
  BY <1>5, <1>8 DEF SoftmaxTurnOf
<1>11. \A v \in Warps : Acquired(launch, s2) <= Returns(launch, co[v], g) + 1
  BY <1>8, SoftmaxSees
<1>12. Reads(launch, s2) <= OnStage(st[1].qk, g)
  BY <1>8, SoftmaxSees
<1> QED BY <1>4, <1>5, <1>9, <1>10, <1>11, <1>12, SoftmaxTurn

\* Every step of a softmax warp.
LEMMA SoftmaxStep ==
    ASSUME NEW st, Control(st), NEW g \in Stage, NEW w \in Warps, Softmax(g, w)
    PROVE  Control(st)'
BY SoftmaxTileStep, SoftmaxScoreStep, SoftmaxScaleStep, SoftmaxP1Step, SoftmaxP2Step, SoftmaxSumStep,
   SoftmaxTailStep DEF Softmax

-----------------------------------------------------------------------------
(* The load warp.                                                           *)

\* Items of the ring that are less than three apart have slots of their own.
LEMMA Ring ==
    ASSUME NEW i \in Int
    PROVE  /\ IndexOf(i) \in Slot /\ IndexOf(i + 3) = IndexOf(i) /\ IndexOf(i - 3) = IndexOf(i)
           /\ (i + 3) \div 3 = (i \div 3) + 1 /\ i \div 3 \in Int
           /\ IndexOf(i + 1) # IndexOf(i) /\ IndexOf(i + 2) # IndexOf(i)
  BY DEF IndexOf, KvStages, Slot

LEMMA RingApart ==
    ASSUME NEW i \in Int, NEW k \in Int, i # k, i <= k + 2, k <= i + 2
    PROVE  IndexOf(i) # IndexOf(k)
<1>1. k = i + 1 \/ k = i + 2 \/ i = k + 1 \/ i = k + 2
  OBVIOUS
<1> QED BY <1>1, Ring

LEMMA RingOne ==
    ASSUME NEW i \in Int
    PROVE  Flying(i) \in {0, 1} /\ ((i >= 0 /\ KvCopy(launch, i) \in inflight) <=> Flying(i) = 1)
  BY DEF Flying, If

\* A step of the load warp touches no barrier but the epilogue's.
LEMMA LoadTurn ==
    ASSUME NEW st, Control(st), UNCHANGED <<launch, named, tc, mm, sm, co, ep>>,
           NEW bars, Moves(bars), bars \subseteq {LoadEpiEmpty},
           LoadRole', KvRing(st[1])', QTile(st[1])', InFlight', LoadEpiTurn'
    PROVE  Control(st)'
<1>1. ASSUME NEW names, "load_epi_empty" \notin names
      PROVE  Still(names)
  <2>1. \A b \in bars : b[1] \notin names
    BY <1>1 DEF LoadEpiEmpty
  <2> QED BY <2>1, MovesStill
<1>2. Registers' /\ MmaRole' /\ Queue(st)' /\ Corrections'
  BY MmaFrame, QueueFrame, CorrectionFrame DEF Control, Registers, Moves
<1>3. ByTensorCore(st[1])' /\ Scores2P(st[1])' /\ OFree'
  BY <1>1, CoreFrame, ScoresFrame, FreeFrame DEF Control
<1>4. Statistics' /\ ODone(st[1])' /\ OTile'
  BY <1>1, StatFrame, ODoneFrame, OTileFrame DEF Control
<1> QED BY <1>2, <1>3, <1>4 DEF Control

\* What the load warp has loaded is still the same.
LEMMA LoadKeeps ==
    ASSUME NEW st, Control(st), UNCHANGED <<launch, inflight, mm>>, NEW bars, Moves(bars),
           bars \subseteq {LoadEpiEmpty}, KvLoads(ld') = KvLoads(ld),
           QLoads(launch, ld') = QLoads(launch, ld)
    PROVE  KvRing(st[1])' /\ QTile(st[1])' /\ InFlight'
<1>1. ASSUME NEW names, "load_epi_empty" \notin names
      PROVE  Still(names)
  <2>1. \A b \in bars : b[1] \notin names
    BY <1>1 DEF LoadEpiEmpty
  <2> QED BY <2>1, MovesStill
<1>2. Still({"kv_full", "kv_empty"}) /\ Still({"q_full", "q_empty"})
  BY <1>1
<1>3. KvRing(st[1]) /\ QTile(st[1]) /\ InFlight
  BY DEF Control
<1>4. \A i \in Int : IndexOf(i) \in Slot
  BY DEF IndexOf, Slot, KvStages
<1>5. \A s \in Slot : bar'[KvFull(s)] = bar[KvFull(s)] /\ bar'[KvEmpty(s)] = bar[KvEmpty(s)]
  BY <1>2, BarNames DEF Still
<1>6. bar'[QFull] = bar[QFull] /\ bar'[QEmpty] = bar[QEmpty]
  BY <1>2, BarNames DEF Still
<1>7. (\A i : Flying(i)' = Flying(i)) /\ QFlying' = QFlying /\ (\A l, i : KvCopy(l, i)' = KvCopy(l, i))
      /\ \A t : QCopy(t)' = QCopy(t)
  BY DEF Flying, QFlying, KvCopy, QCopy
<1>8. KvRing(st[1])'
  BY <1>3, <1>4, <1>5, <1>7 DEF KvRing
<1>9. QTile(st[1])'
  BY <1>3, <1>6, <1>7 DEF QTile
<1>10. InFlight'
  BY <1>3, <1>7 DEF InFlight
<1> QED BY <1>8, <1>9, <1>10

\* What the invariant says of the load warp.
LEMMA LoadSees ==
    ASSUME NEW st, Control(st)
    PROVE  /\ Registers /\ LoadRole /\ MmaRole /\ Queue(st)
           /\ KvLoads(ld) \in Nat /\ ld.kv = KvLoads(ld) + 3 /\ QLoads(launch, ld) \in Nat
           /\ mm.kv \in Nat /\ mm.kv <= KvLoads(ld) /\ QTaken(launch, mm) \in Nat
           /\ Slots(st[1]) \in Nat /\ Slots(st[1]) <= mm.kv /\ KvLoads(ld) <= Slots(st[1]) + 3
           /\ st[1].rel \in Nat /\ st[1].rel <= QTaken(launch, mm)
           /\ QTaken(launch, mm) <= QLoads(launch, ld) /\ QLoads(launch, ld) <= st[1].rel + 1
           /\ ld.tile \in 1 .. Len(launch.work) + 1
<1>1. Registers /\ LoadRole /\ MmaRole /\ Queue(st) /\ KvRing(st[1]) /\ QTile(st[1])
  BY DEF Control
<1>2. /\ KvLoads(ld) \in Nat /\ ld.kv = KvLoads(ld) + 3 /\ QLoads(launch, ld) \in Nat
      /\ mm.kv \in Nat /\ QTaken(launch, mm) \in Nat /\ Slots(Issued(launch, mm)) <= mm.kv
      /\ Issued(launch, mm).rel <= QTaken(launch, mm)
  BY <1>1, LoadCounts, MmaCounts
<1>3. st[1] \in Point /\ Issued(launch, mm) \in Point /\ Ahead(st[1], Issued(launch, mm))
  BY <1>1, QueueFacts
<1>4. Slots(st[1]) \in Nat /\ Slots(st[1]) <= mm.kv /\ st[1].rel \in Nat /\ st[1].rel <= QTaken(launch, mm)
  BY <1>2, <1>3 DEF Slots, Ahead, Point
<1>5. /\ mm.kv <= KvLoads(ld) /\ KvLoads(ld) <= Slots(st[1]) + 3
      /\ QTaken(launch, mm) <= QLoads(launch, ld) /\ QLoads(launch, ld) <= st[1].rel + 1
  BY <1>1 DEF KvRing, QTile, KvStages
<1> QED BY <1>1, <1>2, <1>4, <1>5 DEF LoadRole

LEMMA LoadQStep ==
    ASSUME NEW st, Control(st), LoadQ
    PROVE  Control(st)'
<1> DEFINE t == ld.tile
           c == [to |-> "Q", slot |-> 0, tag |-> Tag("Q", t, 0)]
           q == QLoads(launch, ld)
           e == st[1]
           x == 1 - ld.q
           d == [ld EXCEPT !.pc = "kv", !.j = 0, !.q = x]
<1>1. /\ Registers /\ LoadRole /\ MmaRole /\ Queue(st) /\ KvRing(e) /\ QTile(e) /\ InFlight /\ LoadEpiTurn
      /\ q \in Nat /\ e.rel \in Nat /\ e.rel <= QTaken(launch, mm) /\ QTaken(launch, mm) <= q
      /\ q <= e.rel + 1 /\ QTaken(launch, mm) \in Nat
  BY LoadSees DEF Control
<1>2. /\ t \in 1 .. Len(launch.work) /\ Half(launch, t) \in Nat /\ Half(launch, t) > 0
      /\ ld.pc = "tile" /\ q = Works(launch, t) /\ Works(launch, t + 1) = q + 1 /\ Steps(launch, t) \in Nat
      /\ launch \in Launches /\ t \in Nat /\ Len(launch.work) \in Nat
  <2>1. t \in 1 .. Len(launch.work) /\ launch \in Launches /\ Half(launch, t) > 0 /\ Half(launch, t) \in Nat
        /\ Len(launch.work) \in Nat
    BY <1>1, Tile DEF LoadQ
  <2>2. ld.pc = "tile" /\ q = Works(launch, t)
    BY DEF LoadQ, QLoads
  <2> QED BY <2>1, <2>2, NextTile DEF If
<1>3. q = e.rel /\ QTaken(launch, mm) = q
  <2>1. Done(QEmpty, (q + 1) % 2)
    BY <1>1 DEF LoadQ, LoadRole
  <2>2. Phases(bar[QEmpty], e.rel) /\ e.rel \in Int /\ (e.rel = q \/ e.rel = q - 1)
    BY <1>1 DEF QTile
  <2>3. e.rel = q
    BY <1>1, <2>1, <2>2, PhaseFree
  <2> QED BY <1>1, <2>3
<1>4. ~QFlying
  <2>1. \A k \in inflight : \E i \in mm.kv .. KvLoads(ld) - 1 : k = KvCopy(launch, i)
    BY <1>1, <1>3 DEF InFlight
  <2> QED BY <2>1 DEF QFlying, KvCopy
<1>5. /\ UNCHANGED <<launch, named, tc, mm, sm, co, ep>> /\ Moves({}) /\ ld' = d
      /\ inflight' = inflight \cup {c}
  BY <1>1, MovesNone DEF LoadQ
<1>6. x = (q + 2) % 2 /\ x \in {0, 1}
  <2>1. ld.q = (q + 1) % 2
    BY <1>1 DEF LoadRole
  <2> HIDE DEF q
  <2> QED BY <1>1, <2>1
<1> HIDE DEF x
<1>7. /\ d.pc = "kv" /\ d.tile = t /\ d.j = 0 /\ d.kv = ld.kv /\ d.q = x /\ d.epi = ld.epi
      /\ d \in [pc : {"tile", "kv", "epi", "qtail", "done"}, tile : Nat, j : Nat, kv : Nat,
                q : {0, 1}, epi : {0, 1}]
  BY <1>1, <1>6 DEF LoadRole
<1> HIDE DEF d
<1>8. KvLoads(d) = KvLoads(ld) /\ QLoads(launch, d) = q + 1
  BY <1>2, <1>7 DEF KvLoads, QLoads
<1>9. LoadRole'
  <2>1. ld.kv = 3 + 4 * Steps(launch, t) /\ (HasLoadEpi => ld.epi = (t + 1) % 2)
    BY <1>1, <1>2 DEF LoadRole, KvStages
  <2>2. ld.kv = 3 + (4 * Steps(launch, t) + 0)
    BY <1>2, <2>1
  <2>3. d.q = (QLoads(launch, d) + 1) % 2
    BY <1>1, <1>6, <1>7, <1>8
  <2>4. 0 < 4 * Half(launch, t) /\ t \in 1 .. Len(launch.work) + 1 /\ t <= Len(launch.work)
    BY <1>2
  <2>5. HasLoadEpi' = HasLoadEpi
    BY <1>5 DEF HasLoadEpi, AliasEpilogue
  <2> QED BY <1>5, <1>7, <2>1, <2>2, <2>3, <2>4, <2>5 DEF LoadRole, KvStages
<1>10. \A i \in Int : IndexOf(i) \in Slot
  BY Ring
<1>11. bar' = bar
  BY DEF LoadQ
<1>12. \A i : Flying(i)' = Flying(i)
  <2>1. \A i : KvCopy(launch, i) # c
    BY DEF KvCopy
  <2>2. \A i : KvCopy(launch, i)' = KvCopy(launch, i)
    BY <1>5
  <2> HIDE DEF c
  <2> QED BY <1>5, <2>1, <2>2 DEF Flying
<1>13. KvRing(e)'
  <2>1. KvLoads(ld') = KvLoads(ld) /\ mm' = mm
    BY <1>5, <1>8
  <2> HIDE DEF e
  <2> QED BY <1>1, <1>11, <1>12, <2>1 DEF KvRing
<1>14. QFlying'
  <2>1. c \in inflight' /\ c.to = "Q"
    BY <1>5
  <2> QED BY <2>1, Zenon DEF QFlying
<1>15. QTile(e)'
  <2>1. If(QFlying) = 0 /\ If(QFlying') = 1
    BY <1>4, <1>14 DEF If
  <2>2. QLoads(launch', ld') = q + 1 /\ QTaken(launch', mm') = QTaken(launch, mm)
    BY <1>5, <1>8
  <2>3. QLoads(launch', ld') - 1 = q - 0 /\ QTaken(launch, mm) <= q + 1 /\ q + 1 <= e.rel + 1
    BY <1>1, <1>3, <2>2
  <2>4. Phases(bar[QFull], q - 0) /\ Phases(bar[QEmpty], e.rel)
    BY <1>1, <2>1 DEF QTile
  <2>5. Phases(bar'[QFull], QLoads(launch', ld') - If(QFlying')) /\ Phases(bar'[QEmpty], e.rel)
    BY <1>11, <2>1, <2>3, <2>4
  <2> HIDE DEF e, q
  <2> QED BY <2>2, <2>3, <2>5 DEF QTile
<1>16. InFlight'
  <2>1. \A k \in inflight : \E i \in mm.kv .. KvLoads(ld) - 1 : k = KvCopy(launch, i)
    BY <1>1, <1>3 DEF InFlight
  <2>2. c = QCopy(t) /\ Works(launch, t) + 1 = QLoads(launch, d)
    BY <1>2, <1>8 DEF QCopy
  <2>3. QLoads(launch, d) > QTaken(launch, mm)
    BY <1>1, <1>3, <1>8
  <2>4. KvLoads(ld') = KvLoads(ld) /\ ld' = d /\ mm' = mm /\ launch' = launch /\ inflight' = inflight \cup {c}
    BY <1>5, <1>8
  <2>5. \A i : KvCopy(launch', i) = KvCopy(launch, i)
    BY <2>4
  <2> HIDE DEF c, d
  <2>6. ASSUME NEW k \in inflight'
        PROVE  \/ \E i \in mm'.kv .. KvLoads(ld') - 1 : k = KvCopy(launch', i)
               \/ /\ QLoads(launch', ld') > QTaken(launch', mm')
                  /\ \E u \in 1 .. Len(launch'.work) :
                       k = QCopy(u) /\ Half(launch', u) > 0 /\ Works(launch', u) + 1 = QLoads(launch', ld')
    <3>1. CASE k = c
      BY <1>2, <2>2, <2>3, <2>4, <3>1
    <3>2. CASE k \in inflight
      BY <2>1, <2>4, <2>5, <3>2
    <3> QED BY <2>4, <3>1, <3>2
  <2> QED BY <2>6 DEF InFlight, QCopy
<1>17. LoadEpiTurn'
  <2>1. HasLoadEpi' = HasLoadEpi /\ ld'.tile = ld.tile /\ ep' = ep
    BY <1>5, <1>7 DEF HasLoadEpi, AliasEpilogue
  <2> QED BY <1>1, <1>11, <2>1 DEF LoadEpiTurn
<1> QED BY <1>5, <1>9, <1>13, <1>15, <1>16, <1>17, LoadTurn

\* The j-th item of tile t.
LEMMA ItemIs ==
    ASSUME NEW l \in Launches, NEW t \in 1 .. Len(l.work), NEW j \in Nat, j < 4 * Half(l, t), NEW i,
           i = 4 * Steps(l, t) + j
    PROVE  /\ i \in Nat /\ TileAt(l, i \div 4) = t
           /\ Item(l, i) = Tag(LoadItem(2 * Half(l, t), j).k, t, LoadItem(2 * Half(l, t), j).grp)
<1> DEFINE s == Steps(l, t)
           h == Half(l, t)
<1>1. s \in Nat /\ h \in Nat
  BY NextTile, LaunchFacts
<1>2. i \in Nat /\ i \div 4 \in Nat /\ i \div 4 = s + (j \div 4) /\ j \div 4 \in Nat /\ j \div 4 < h /\ i - 4 * s = j
  <2>1. i = 4 * s + j /\ j < 4 * h
    OBVIOUS
  <2> HIDE DEF s, h
  <2> QED BY <1>1, <2>1
<1>3. s <= i \div 4 /\ i \div 4 < s + h
  <2> HIDE DEF s, h
  <2> QED BY <1>1, <1>2
<1>4. TileAt(l, i \div 4) = t
  BY <1>2, <1>3, TileIs
<1> QED BY <1>2, <1>4 DEF Item, ItemOf

LEMMA LoadKVStep ==
    ASSUME NEW st, Control(st), LoadKV
    PROVE  Control(st)'
<1>0. PICK K : K = KvLoads(ld)
  OBVIOUS
<1> DEFINE t == ld.tile
           h == Half(launch, t)
           e == st[1]
           S == Slots(e)
           c == KvCopy(launch, K)
           p == IF ld.j + 1 = 2 * N(ld.tile) THEN "epi" ELSE "kv"
           j == ld.j + 1
           v == ld.kv + 1
           d == [ld EXCEPT !.pc = p, !.j = j, !.kv = v]
<1>1. /\ Registers /\ LoadRole /\ MmaRole /\ Queue(st) /\ KvRing(e) /\ QTile(e) /\ InFlight /\ LoadEpiTurn
      /\ K \in Nat /\ mm.kv \in Nat /\ S \in Nat /\ S <= mm.kv /\ mm.kv <= K /\ K <= S + 3 /\ ld.kv = K + 3
  BY <1>0, LoadSees DEF Control
<1>2. /\ ld.pc = "kv" /\ t \in 1 .. Len(launch.work) /\ h \in Nat /\ N(t) = 2 * h /\ launch \in Launches
      /\ ld.j \in Nat /\ ld.j < 4 * h /\ h > 0 /\ t \in Nat /\ Steps(launch, t) \in Nat
      /\ Steps(launch, t + 1) = Steps(launch, t) + h /\ Len(launch.work) \in Nat
      /\ Works(launch, t + 1) \in Nat
  <2>1. ld.pc = "kv" /\ t \in 1 .. Len(launch.work) /\ ld.j \in Nat /\ ld.j < 4 * h /\ launch \in Launches
    BY <1>1, Tile DEF LoadKV, LoadRole
  <2>2. h \in Nat /\ N(t) = 2 * h /\ Len(launch.work) \in Nat
    BY <1>1, <2>1, Tile
  <2>3. h > 0
    <3> HIDE DEF h
    <3> QED BY <2>1, <2>2
  <2> QED BY <2>1, <2>2, <2>3, NextTile
<1>3. K = 4 * Steps(launch, t) + ld.j
  <2>1. ld.kv = 3 + (4 * Steps(launch, t) + ld.j) /\ ld.kv = K + 3
    BY <1>1, <1>2 DEF LoadRole, KvStages
  <2> DEFINE s == Steps(launch, t)
             y == ld.j
             z == ld.kv
  <2>2. s \in Nat /\ y \in Nat /\ K \in Nat /\ z = 3 + (4 * s + y) /\ z = K + 3
    BY <1>1, <1>2, <2>1
  <2> HIDE DEF s, y, z
  <2>3. K = 4 * s + y
    BY <2>2
  <2> QED BY <2>3 DEF s, y
<1>4. K <= S + 2
  <2> SUFFICES ASSUME K = S + 3 PROVE FALSE
    BY <1>1
  <2>1. Phases(bar[KvEmpty(IndexOf(S))], S \div 3)
    BY <1>1 DEF KvRing, KvStages
  <2>2. Done(KvEmpty(IndexOf(K + 3)), ((K + 3) \div 3) % 2)
    BY <1>1 DEF LoadKV, PhaseOf, KvStages
  <2>3. IndexOf(K + 3) = IndexOf(S) /\ ((K + 3) \div 3) % 2 = (S \div 3) % 2 /\ S \div 3 \in Int
    <3> HIDE DEF S
    <3> QED BY <1>1 DEF IndexOf, KvStages
  <2> QED BY <2>1, <2>2, <2>3 DEF Phases, Done
<1>5. ~(K - 3 >= 0 /\ KvCopy(launch, K - 3) \in inflight)
  <2> SUFFICES ASSUME K - 3 >= 0, KvCopy(launch, K - 3) \in inflight PROVE FALSE
    OBVIOUS
  <2>1. \E i \in mm.kv .. K - 1 : KvCopy(launch, K - 3) = KvCopy(launch, i)
    BY <1>0, <1>1 DEF InFlight, KvCopy, QCopy
  <2>2. PICK i \in mm.kv .. K - 1 : KvCopy(launch, K - 3) = KvCopy(launch, i)
    BY <2>1
  <2>3. IndexOf(K - 3) = IndexOf(i)
    BY <2>2 DEF KvCopy
  <2> HIDE DEF S
  <2>4. i \in Int /\ K - 3 \in Int /\ K - 3 # i /\ i <= K - 3 + 2 /\ K - 3 <= i + 2
    BY <1>1, <1>4
  <2> QED BY <2>3, <2>4, RingApart
<1>6. \A i \in (K - 2) .. (K - 1) : KvCopy(launch, i) # c
  <2>1. \A i \in (K - 2) .. (K - 1) : IndexOf(i) # IndexOf(K)
    <3>1. ASSUME NEW i \in (K - 2) .. (K - 1) PROVE IndexOf(i) # IndexOf(K)
      <4>1. i \in Int /\ K \in Int /\ i # K /\ i <= K + 2 /\ K <= i + 2
        BY <1>1
      <4> QED BY <4>1, RingApart
    <3> QED BY <3>1
  <2> QED BY <2>1 DEF KvCopy
<1>7. inflight' = inflight \cup {c}
  <2>1. Item(launch, K) = Tag(LoadItem(2 * h, ld.j).k, t, LoadItem(2 * h, ld.j).grp)
    <3>1. launch \in Launches /\ t \in 1 .. Len(launch.work) /\ ld.j \in Nat /\ ld.j < 4 * Half(launch, t)
          /\ K = 4 * Steps(launch, t) + ld.j
      BY <1>2, <1>3
    <3> HIDE DEF t, h
    <3>2. Item(launch, K) = Tag(LoadItem(2 * Half(launch, t), ld.j).k, t, LoadItem(2 * Half(launch, t), ld.j).grp)
      BY <3>1, ItemIs
    <3> QED BY <3>2 DEF h
  <2>2. IndexOf(ld.kv) = IndexOf(K)
    <3> QED BY <1>1, Ring
  <2> QED BY <1>2, <2>1, <2>2 DEF LoadKV, KvCopy
<1>8. /\ UNCHANGED <<launch, named, tc, mm, sm, co, ep>> /\ Moves({}) /\ ld' = d /\ bar' = bar
  BY <1>1, MovesNone DEF LoadKV
<1>9. p \in {"epi", "kv"} /\ (p = "epi" <=> j = 4 * h) /\ j \in Nat /\ j = ld.j + 1 /\ v = K + 4 /\ v \in Nat
      /\ j <= 4 * h
  <2>1. j = ld.j + 1 /\ v = ld.kv + 1
    OBVIOUS
  <2>2. p \in {"epi", "kv"} /\ (p = "epi" <=> j = 4 * h)
    <3>1. 2 * N(t) = 4 * h
      <4> HIDE DEF h
      <4> QED BY <1>2
    <3> HIDE DEF h, j
    <3> QED BY <2>1, <3>1 DEF t
  <2>3. j \in Nat /\ v = K + 4 /\ v \in Nat /\ j <= 4 * h
    <3> DEFINE y == ld.j
               z == ld.kv
    <3>1. j = y + 1 /\ v = z + 1 /\ z = K + 3 /\ K \in Nat /\ y \in Nat /\ y < 4 * h /\ h \in Nat
      BY <1>1, <1>2
    <3> HIDE DEF y, z, j, v, h
    <3> QED BY <3>1
  <2> QED BY <2>1, <2>2, <2>3
<1> HIDE DEF p, j, v
<1>10. /\ d.pc = p /\ d.tile = t /\ d.j = j /\ d.kv = v /\ d.q = ld.q /\ d.epi = ld.epi
       /\ d \in [pc : {"tile", "kv", "epi", "qtail", "done"}, tile : Nat, j : Nat, kv : Nat,
                 q : {0, 1}, epi : {0, 1}]
  BY <1>1, <1>9 DEF LoadRole
<1> HIDE DEF d, c
<1>11. KvLoads(d) = K + 1 /\ QLoads(launch, d) = QLoads(launch, ld)
  <2>1. KvLoads(d) = v - 3
    BY <1>10 DEF KvLoads, KvStages
  <2>2. v - 3 = K + 1
    <3> QED BY <1>1, <1>9
  <2>3. QLoads(launch, d) = QLoads(launch, ld)
    BY <1>2, <1>9, <1>10 DEF QLoads
  <2> QED BY <2>1, <2>2, <2>3
<1>12. LoadRole'
  <2>1. d.q = (QLoads(launch, d) + 1) % 2 /\ (HasLoadEpi => d.epi = (t + 1) % 2)
    BY <1>1, <1>10, <1>11 DEF LoadRole
  <2>2. t \in 1 .. Len(launch.work) + 1 /\ t <= Len(launch.work)
    BY <1>2
  <2>3. CASE p = "kv"
    <3>1. j < 4 * h /\ v = 3 + (4 * Steps(launch, t) + j)
      <4>1. v = K + 4 /\ j = ld.j + 1 /\ K = 4 * Steps(launch, t) + ld.j /\ j # 4 * h /\ j <= 4 * h
        BY <1>3, <1>9, <2>3
      <4> DEFINE s == Steps(launch, t)
                 y == ld.j
      <4>2. v = K + 4 /\ j = y + 1 /\ K = 4 * s + y /\ j # 4 * h /\ j <= 4 * h /\ s \in Nat /\ h \in Nat
            /\ y \in Nat /\ j \in Nat
        BY <1>2, <1>9, <4>1
      <4> HIDE DEF s, h, y
      <4>3. j < 4 * h /\ v = 3 + (4 * s + j)
        BY <4>2
      <4> QED BY <4>3 DEF s
    <3>2. HasLoadEpi' = HasLoadEpi
      BY <1>8 DEF HasLoadEpi, AliasEpilogue
    <3> QED BY <1>8, <1>10, <2>1, <2>2, <2>3, <3>1, <3>2 DEF LoadRole, KvStages
  <2>4. CASE p = "epi"
    <3>1. v = 3 + 4 * Steps(launch, t + 1)
      <4>1. v = K + 4 /\ j = ld.j + 1 /\ K = 4 * Steps(launch, t) + ld.j /\ j = 4 * h
            /\ Steps(launch, t + 1) = Steps(launch, t) + h
        BY <1>2, <1>3, <1>9, <2>4
      <4> DEFINE s == Steps(launch, t)
                 s2 == Steps(launch, t + 1)
                 y == ld.j
      <4>2. v = K + 4 /\ j = y + 1 /\ K = 4 * s + y /\ j = 4 * h /\ s2 = s + h /\ s \in Nat /\ y \in Nat
            /\ h \in Nat
        BY <1>2, <4>1
      <4> HIDE DEF s, s2, h, y
      <4>3. v = 3 + 4 * s2
        BY <4>2
      <4> QED BY <4>3 DEF s2
    <3>2. HasLoadEpi' = HasLoadEpi
      BY <1>8 DEF HasLoadEpi, AliasEpilogue
    <3> QED BY <1>8, <1>10, <2>1, <2>2, <2>4, <3>1, <3>2 DEF LoadRole, KvStages
  <2> QED BY <1>9, <2>3, <2>4
<1>13. \A i \in K - 2 .. K - 1 : Flying(i)' = Flying(i)
  <2>1. \A i : KvCopy(launch, i)' = KvCopy(launch, i)
    BY <1>8
  <2> QED BY <1>6, <1>7, <2>1 DEF Flying
<1>14. /\ Flying(K - 3) = 0 /\ Flying(K)' = 1 /\ KvLoads(ld)' = K + 1
  <2>1. Flying(K - 3) = 0
    BY <1>5 DEF Flying, If
  <2>2. K >= 0 /\ KvCopy(launch, K)' \in inflight'
    BY <1>1, <1>7, <1>8 DEF c
  <2>3. Flying(K)' = 1
    BY <2>2 DEF Flying, If
  <2> QED BY <1>8, <1>11, <2>1, <2>3
<1>15. KvRing(e)'
  <2>1. mm'.kv <= K + 1 /\ K + 1 <= S + 3
    <3> HIDE DEF S
    <3> QED BY <1>1, <1>4, <1>8
  <2>2. ASSUME NEW i \in K + 1 .. K + 3
        PROVE  Phases(bar'[KvFull(IndexOf(i))], (i \div 3) - Flying(i - 3)')
    <3>1. CASE i = K + 3
      <4>1. IndexOf(i) = IndexOf(K) /\ (i \div 3) - 1 = (K \div 3) - 0
        BY <1>1, <3>1, Ring
      <4>2. Phases(bar[KvFull(IndexOf(K))], (K \div 3) - Flying(K - 3))
        BY <1>0, <1>1 DEF KvRing, KvStages
      <4>3. i - 3 = K
        BY <1>1, <3>1
      <4> QED BY <1>8, <1>14, <4>1, <4>2, <4>3
    <3>2. CASE i # K + 3
      <4>1. i \in K .. K + 2 /\ i - 3 \in K - 2 .. K - 1
        BY <1>1, <3>2
      <4>2. Phases(bar[KvFull(IndexOf(i))], (i \div 3) - Flying(i - 3))
        BY <1>0, <1>1, <4>1 DEF KvRing, KvStages
      <4> QED BY <1>8, <1>13, <4>1, <4>2
    <3> QED BY <3>1, <3>2
  <2>3. \A i \in S .. S + 2 : Phases(bar'[KvEmpty(IndexOf(i))], i \div 3)
    BY <1>1, <1>8 DEF KvRing, KvStages
  <2>4. K + 1 .. K + 1 + 3 - 1 = K + 1 .. K + 3 /\ S .. S + 3 - 1 = S .. S + 2
    <3> HIDE DEF S
    <3> QED BY <1>1
  <2> HIDE DEF e, d
  <2> QED BY <1>14, <2>1, <2>2, <2>3, <2>4 DEF KvRing, KvStages, S
<1>16. QTile(e)'
  <2>1. c.to = "KV"
    BY DEF c, KvCopy
  <2>2. QFlying' = QFlying
    BY <1>7, <2>1 DEF QFlying
  <2>3. QLoads(launch', ld') = QLoads(launch, ld) /\ QTaken(launch', mm') = QTaken(launch, mm)
    BY <1>8, <1>11
  <2> QED BY <1>1, <1>8, <2>2, <2>3 DEF QTile
<1>17. InFlight'
  <2>1. /\ QLoads(launch', ld') = QLoads(launch, ld) /\ QTaken(launch', mm') = QTaken(launch, mm)
        /\ KvLoads(ld') = K + 1 /\ launch' = launch /\ mm' = mm
    BY <1>8, <1>11
  <2>2. ASSUME NEW k \in inflight'
        PROVE  \/ \E i \in mm'.kv .. KvLoads(ld') - 1 : k = KvCopy(launch', i)
               \/ /\ QLoads(launch', ld') > QTaken(launch', mm')
                  /\ \E u \in 1 .. Len(launch'.work) :
                       k = QCopy(u) /\ Half(launch', u) > 0 /\ Works(launch', u) + 1 = QLoads(launch', ld')
    <3>1. CASE k = c
      <4>1. K \in mm'.kv .. KvLoads(ld') - 1
        BY <1>1, <2>1
      <4> QED BY <2>1, <3>1, <4>1 DEF c
    <3>2. CASE k \in inflight
      <4>1. \A i \in mm.kv .. K - 1 : i \in mm'.kv .. KvLoads(ld') - 1
        BY <1>1, <2>1
      <4>2. \/ \E i \in mm.kv .. K - 1 : k = KvCopy(launch, i)
            \/ /\ QLoads(launch, ld) > QTaken(launch, mm)
               /\ \E u \in 1 .. Len(launch.work) :
                    k = QCopy(u) /\ Half(launch, u) > 0 /\ Works(launch, u) + 1 = QLoads(launch, ld)
        BY <1>0, <1>1, <3>2 DEF InFlight
      <4> QED BY <2>1, <4>1, <4>2
    <3> QED BY <1>7, <3>1, <3>2
  <2> QED BY <2>2 DEF InFlight, QCopy
<1>18. LoadEpiTurn'
  <2>1. HasLoadEpi' = HasLoadEpi /\ ld'.tile = ld.tile /\ ep' = ep
    BY <1>8, <1>10 DEF HasLoadEpi, AliasEpilogue
  <2> QED BY <1>1, <1>8, <2>1 DEF LoadEpiTurn
<1> QED BY <1>8, <1>12, <1>15, <1>16, <1>17, <1>18, LoadTurn

LoadRegisters(d) ==
    d \in [pc : {"tile", "kv", "epi", "qtail", "done"}, tile : Nat, j : Nat, kv : Nat,
           q : {0, 1}, epi : {0, 1}]

LEMMA LoadSkipStep ==
    ASSUME NEW st, Control(st), LoadSkip
    PROVE  Control(st)'
<1> DEFINE t == ld.tile
           d == [ld EXCEPT !.pc = "epi"]
<1>1. /\ Registers /\ LoadRole /\ LoadEpiTurn /\ LoadRegisters(ld)
  BY LoadSees DEF Control, LoadRole, LoadRegisters
<1>2. /\ ld.pc = "tile" /\ t \in 1 .. Len(launch.work) /\ Steps(launch, t + 1) = Steps(launch, t) + 0
      /\ Works(launch, t + 1) = Works(launch, t) + 0 /\ Steps(launch, t) \in Nat /\ Works(launch, t) \in Nat
      /\ t \in 1 .. Len(launch.work) + 1 /\ t <= Len(launch.work)
  <2>1. ld.pc = "tile" /\ t \in 1 .. Len(launch.work) /\ launch \in Launches /\ Half(launch, t) = 0
        /\ Len(launch.work) \in Nat
    BY <1>1, Tile DEF LoadSkip
  <2> QED BY <2>1, NextTile DEF If
<1>3. Steps(launch, t + 1) = Steps(launch, t) /\ Works(launch, t + 1) = Works(launch, t)
  BY <1>2
<1>4. UNCHANGED <<launch, named, inflight, tc, mm, sm, co, ep>> /\ Moves({}) /\ ld' = d
  BY <1>1, MovesNone DEF LoadSkip, memory
<1>5. /\ d.pc = "epi" /\ d.tile = t /\ d.kv = ld.kv /\ d.q = ld.q /\ d.epi = ld.epi /\ LoadRegisters(d)
  BY <1>1 DEF LoadRegisters
<1> HIDE DEF d
<1>6. KvLoads(d) = KvLoads(ld) /\ QLoads(launch, d) = QLoads(launch, ld)
  BY <1>2, <1>3, <1>5 DEF KvLoads, QLoads
<1>7. HasLoadEpi' = HasLoadEpi
  BY <1>4 DEF HasLoadEpi, AliasEpilogue
<1>8. LoadRole'
  <2>1. ld.kv = KvStages + 4 * Steps(launch, t) /\ ld.q = (QLoads(launch, ld) + 1) % 2
        /\ (HasLoadEpi => ld.epi = (t + 1) % 2)
    BY <1>1, <1>2 DEF LoadRole
  <2> QED BY <1>2, <1>3, <1>4, <1>5, <1>6, <1>7, <2>1 DEF LoadRole, LoadRegisters
<1>9. LoadEpiTurn'
  <2>1. bar' = bar
    BY DEF LoadSkip
  <2> QED BY <1>1, <1>4, <1>5, <1>7, <2>1 DEF LoadEpiTurn
<1>10. KvRing(st[1])' /\ QTile(st[1])' /\ InFlight'
  <2>1. UNCHANGED <<launch, inflight, mm>> /\ KvLoads(ld') = KvLoads(ld) /\ QLoads(launch, ld') = QLoads(launch, ld)
    BY <1>4, <1>6
  <2> QED BY <1>4, <2>1, LoadKeeps
<1> QED BY <1>4, <1>8, <1>9, <1>10, LoadTurn

LEMMA LoadEpiStep ==
    ASSUME NEW st, Control(st), LoadEpi
    PROVE  Control(st)'
<1> DEFINE t == ld.tile
           x == IF HasLoadEpi THEN 1 - ld.epi ELSE ld.epi
           u == ld.tile + 1
           bars == IF HasLoadEpi THEN {LoadEpiEmpty} ELSE {}
           d == [ld EXCEPT !.pc = "tile", !.tile = u, !.epi = x]
<1>1. /\ Registers /\ LoadRole /\ LoadEpiTurn /\ LoadRegisters(ld) /\ OTile
  BY LoadSees DEF Control, LoadRole, LoadRegisters
<1>2. /\ ld.pc = "epi" /\ t \in 1 .. Len(launch.work) /\ t \in Nat /\ u = t + 1 /\ u \in Nat
      /\ u \in 1 .. Len(launch.work) + 1 /\ t >= 1
  <2>1. ld.pc = "epi" /\ t \in 1 .. Len(launch.work) /\ Len(launch.work) \in Nat
    BY <1>1, Tile DEF LoadEpi, LoadRole
  <2> QED BY <2>1
<1>3. UNCHANGED <<launch, named, inflight, tc, mm, sm, co, ep>> /\ ld' = d /\ Moves(bars)
  <2>1. UNCHANGED <<launch, named, inflight, tc, mm, sm, co, ep>>
    BY DEF LoadEpi, memory
  <2>2. CASE HasLoadEpi
    BY <1>1, <2>1, <2>2, MovesArrive DEF LoadEpi
  <2>3. CASE ~HasLoadEpi
    <3>1. d = [ld EXCEPT !.pc = "tile", !.tile = u]
      BY <1>1, <2>3 DEF LoadRegisters
    <3>2. bar' = bar
      BY <2>3 DEF LoadEpi
    <3> QED BY <1>1, <2>1, <2>3, <3>1, <3>2, MovesNone DEF LoadEpi
  <2> QED BY <2>2, <2>3
<1>4. x \in {0, 1} /\ (HasLoadEpi => x = (u + 1) % 2)
  <2>1. ld.epi \in {0, 1} /\ (HasLoadEpi => ld.epi = (t + 1) % 2)
    BY <1>1 DEF LoadRole
  <2> DEFINE y == ld.epi
  <2>2. y \in {0, 1} /\ (HasLoadEpi => y = (t + 1) % 2) /\ x = IF HasLoadEpi THEN 1 - y ELSE y
    BY <2>1
  <2> HIDE DEF x, y, t, u
  <2> QED BY <1>2, <2>2
<1> HIDE DEF x, u
<1>5. /\ d.pc = "tile" /\ d.tile = u /\ d.kv = ld.kv /\ d.q = ld.q /\ d.epi = x /\ LoadRegisters(d)
  BY <1>1, <1>2, <1>4 DEF LoadRegisters
<1> HIDE DEF d
<1>6. KvLoads(d) = KvLoads(ld) /\ QLoads(launch, d) = QLoads(launch, ld)
  BY <1>2, <1>5 DEF KvLoads, QLoads
<1>7. HasLoadEpi' = HasLoadEpi
  BY <1>3 DEF HasLoadEpi, AliasEpilogue
<1>8. LoadRole'
  <2>1. ld.kv = KvStages + 4 * Steps(launch, u) /\ ld.q = (QLoads(launch, ld) + 1) % 2
    BY <1>1, <1>2 DEF LoadRole
  <2> QED BY <1>2, <1>3, <1>4, <1>5, <1>6, <1>7, <2>1 DEF LoadRole, LoadRegisters
<1>9. LoadEpiTurn'
  <2> SUFFICES ASSUME HasLoadEpi
               PROVE  /\ u <= ep.tile /\ ep.tile <= u + 1
                      /\ Phases(bar'[LoadEpiFull], ep.tile - 1) /\ Phases(bar'[LoadEpiEmpty], u - 1)
    BY <1>3, <1>5, <1>7 DEF LoadEpiTurn
  <2>1. /\ t <= ep.tile /\ ep.tile <= t + 1 /\ ep.tile \in Nat
        /\ Phases(bar[LoadEpiFull], ep.tile - 1) /\ Phases(bar[LoadEpiEmpty], t - 1)
    BY <1>1 DEF LoadEpiTurn, OTile
  <2>2. ep.tile = t + 1
    <3>1. ld.epi = (t + 1) % 2 /\ Done(LoadEpiFull, ld.epi)
      BY <1>1 DEF LoadRole, LoadEpi
    <3>2. Done(LoadEpiFull, (t - 1) % 2) /\ t - 1 \in Nat /\ ep.tile - 1 \in Int
          /\ (ep.tile - 1 = t - 1 \/ ep.tile - 1 = t - 1 + 1)
      <4>1. (t + 1) % 2 = (t - 1) % 2
        <5> HIDE DEF t
        <5> QED BY <1>2
      <4>2. Done(LoadEpiFull, (t - 1) % 2)
        BY <3>1, <4>1
      <4> DEFINE w == ep.tile
      <4>3. w \in Nat /\ t <= w /\ w <= t + 1
        BY <2>1
      <4> HIDE DEF t, w
      <4>4. t - 1 \in Nat /\ w - 1 \in Int /\ (w - 1 = t - 1 \/ w - 1 = t - 1 + 1)
        BY <1>2, <4>3
      <4> QED BY <4>2, <4>4 DEF w
    <3>3. ep.tile - 1 = t - 1 + 1
      BY <2>1, <3>2, PhaseWait
    <3> DEFINE w == ep.tile
    <3>4. w \in Nat /\ w - 1 = t - 1 + 1
      BY <2>1, <3>3
    <3> HIDE DEF t, w
    <3>5. w = t + 1
      BY <1>2, <3>4
    <3> QED BY <3>5 DEF w
  <2>3. bar'[LoadEpiFull] = bar[LoadEpiFull] /\ bar'[LoadEpiEmpty] = Arrived(LoadEpiEmpty)
    BY <1>3, BarNames DEF Moves, LoadEpiFull, LoadEpiEmpty
  <2>4. t - 1 \in Nat /\ u - 1 = t - 1 + 1 /\ u <= t + 1
    <3> HIDE DEF t
    <3> QED BY <1>2
  <2>5. Expected(LoadEpiEmpty) = 1
    BY BarNames
  <2>6. Phases(bar'[LoadEpiEmpty], t - 1 + 1)
    BY <2>1, <2>3, <2>4, <2>5, PhaseArrive
  <2>7. u <= ep.tile /\ ep.tile <= u + 1
    <3> HIDE DEF t
    <3> QED BY <1>2, <2>2
  <2> QED BY <2>1, <2>3, <2>4, <2>6, <2>7
<1>10. KvRing(st[1])' /\ QTile(st[1])' /\ InFlight'
  <2>1. UNCHANGED <<launch, inflight, mm>> /\ KvLoads(ld') = KvLoads(ld) /\ QLoads(launch, ld') = QLoads(launch, ld)
        /\ bars \subseteq {LoadEpiEmpty}
    BY <1>3, <1>6
  <2> HIDE DEF bars
  <2> QED BY <1>3, <2>1, LoadKeeps
<1>11. bars \subseteq {LoadEpiEmpty}
  OBVIOUS
<1> HIDE DEF bars
<1> QED BY <1>3, <1>8, <1>9, <1>10, <1>11, LoadTurn

LEMMA LoadTailStep ==
    ASSUME NEW st, Control(st), LoadTail
    PROVE  Control(st)'
<1>1. /\ Registers /\ LoadRole /\ LoadEpiTurn /\ LoadRegisters(ld)
  BY LoadSees DEF Control, LoadRole, LoadRegisters
<1>2. PICK p \in {"qtail", "done"} : ld' = [ld EXCEPT !.pc = p]
  BY DEF LoadTail
<1> DEFINE d == [ld EXCEPT !.pc = p]
<1>3. ld.pc \in {"tile", "qtail"} /\ ld.tile = Len(launch.work) + 1
  <2>1. ld.tile \in 1 .. Len(launch.work) + 1 /\ Len(launch.work) \in Nat
        /\ (ld.pc = "qtail" => ld.tile = Len(launch.work) + 1)
    BY <1>1, Tile DEF LoadRole
  <2>2. ld.pc = "tile" => ld.tile \notin 1 .. Len(launch.work)
    BY <1>1, Tile DEF LoadTail
  <2>3. ld.pc \in {"tile", "qtail"}
    BY DEF LoadTail
  <2> QED BY <2>1, <2>2, <2>3
<1>4. UNCHANGED <<launch, named, inflight, tc, mm, sm, co, ep>> /\ Moves({}) /\ ld' = d
  BY <1>1, <1>2, MovesNone DEF LoadTail, memory
<1>5. /\ d.pc = p /\ d.tile = ld.tile /\ d.kv = ld.kv /\ d.q = ld.q /\ d.epi = ld.epi /\ LoadRegisters(d)
  BY <1>1 DEF LoadRegisters
<1> HIDE DEF d
<1>6. KvLoads(d) = KvLoads(ld) /\ QLoads(launch, d) = QLoads(launch, ld)
  BY <1>3, <1>5 DEF KvLoads, QLoads
<1>7. HasLoadEpi' = HasLoadEpi
  BY <1>4 DEF HasLoadEpi, AliasEpilogue
<1>8. LoadRole'
  <2>1. ld.kv = KvStages + 4 * Steps(launch, ld.tile) /\ ld.q = (QLoads(launch, ld) + 1) % 2
        /\ (HasLoadEpi => ld.epi = (ld.tile + 1) % 2) /\ ld.tile \in 1 .. Len(launch.work) + 1
    BY <1>1, <1>3 DEF LoadRole
  <2> QED BY <1>3, <1>4, <1>5, <1>6, <1>7, <2>1 DEF LoadRole, LoadRegisters
<1>9. LoadEpiTurn'
  <2>1. bar' = bar
    BY DEF LoadTail
  <2> QED BY <1>1, <1>4, <1>5, <1>7, <2>1 DEF LoadEpiTurn
<1>10. KvRing(st[1])' /\ QTile(st[1])' /\ InFlight'
  <2>1. UNCHANGED <<launch, inflight, mm>> /\ KvLoads(ld') = KvLoads(ld) /\ QLoads(launch, ld') = QLoads(launch, ld)
    BY <1>4, <1>6
  <2> QED BY <1>4, <2>1, LoadKeeps
<1> QED BY <1>4, <1>8, <1>9, <1>10, LoadTurn

\* Every step of the load warp.
LEMMA LoadStep ==
    ASSUME NEW st, Control(st), Load
    PROVE  Control(st)'
BY LoadQStep, LoadKVStep, LoadSkipStep, LoadEpiStep, LoadTailStep DEF Load

-----------------------------------------------------------------------------
(* The TMA copies.                                                          *)

\* A copy that lands touches its own barrier.
LEMMA LandTurn ==
    ASSUME NEW st, Control(st), UNCHANGED <<launch, named, tc, ld, mm, sm, co, ep>>,
           NEW bars, Moves(bars), \A b \in bars : b[1] \in {"q_full", "kv_full"},
           inflight' \subseteq inflight, KvRing(st[1])', QTile(st[1])'
    PROVE  Control(st)'
<1>1. ASSUME NEW names, names \cap {"q_full", "kv_full"} = {}
      PROVE  Still(names)
  <2>1. \A b \in bars : b[1] \notin names
    BY <1>1
  <2> QED BY <2>1, MovesStill
<1>2. Registers' /\ LoadRole' /\ MmaRole' /\ Queue(st)' /\ Corrections'
  BY LoadFrame, MmaFrame, QueueFrame, CorrectionFrame DEF Control, Registers, Moves
<1>3. ByTensorCore(st[1])' /\ Scores2P(st[1])' /\ OFree'
  BY <1>1, CoreFrame, ScoresFrame, FreeFrame DEF Control
<1>4. Statistics' /\ ODone(st[1])' /\ OTile' /\ LoadEpiTurn'
  BY <1>1, StatFrame, ODoneFrame, OTileFrame, TurnFrame DEF Control
<1>5. InFlight'
  <2>1. InFlight
    BY DEF Control
  <2>2. (\A l, i : KvCopy(l, i)' = KvCopy(l, i)) /\ \A t : QCopy(t)' = QCopy(t)
    BY DEF KvCopy, QCopy
  <2> QED BY <2>1, <2>2 DEF InFlight
<1> QED BY <1>2, <1>3, <1>4, <1>5 DEF Control

LEMMA LandQStep ==
    ASSUME NEW st, Control(st), NEW c \in inflight, c.to = "Q", Land(c)
    PROVE  Control(st)'
<1> DEFINE e == st[1]
           q == QLoads(launch, ld)
<1>1. /\ Registers /\ KvRing(e) /\ QTile(e) /\ InFlight /\ q \in Nat /\ launch \in Launches
  BY LoadSees DEF Control, Registers
<1>2. /\ UNCHANGED <<launch, named, tc, ld, mm, sm, co, ep>> /\ Moves({QFull}) /\ inflight' = inflight \ {c}
  BY MovesArrive DEF Land
<1>3. QFlying /\ ~QFlying'
  <2>1. ASSUME NEW k \in inflight, k.to = "Q"
        PROVE  \E t \in 1 .. Len(launch.work) : k = QCopy(t) /\ Half(launch, t) > 0 /\ Works(launch, t) + 1 = q
    BY <1>1, <2>1 DEF InFlight, KvCopy
  <2>2. PICK t \in 1 .. Len(launch.work) : c = QCopy(t) /\ Half(launch, t) > 0 /\ Works(launch, t) + 1 = q
    BY <2>1
  <2>3. ASSUME NEW k \in inflight, k.to = "Q"
        PROVE  k = c
    <3>1. PICK u \in 1 .. Len(launch.work) : k = QCopy(u) /\ Half(launch, u) > 0 /\ Works(launch, u) + 1 = q
      BY <2>1, <2>3
    <3>2. Works(launch, t) \in Nat /\ Works(launch, u) \in Nat
      BY <1>1, NextTile
    <3>3. Works(launch, t) = Works(launch, u)
      BY <2>2, <3>1, <3>2
    <3>4. t = u
      BY <1>1, <2>2, <3>1, <3>3, WorkIs
    <3> QED BY <2>2, <3>1, <3>4
  <2>4. \A k \in inflight' : k.to # "Q"
    BY <1>2, <2>3
  <2> QED BY <2>4 DEF QFlying
<1>4. bar'[QFull] = Arrived(QFull) /\ bar'[QEmpty] = bar[QEmpty] /\ Expected(QFull) = 1
  BY <1>2, BarNames DEF Moves, QFull, QEmpty
<1>5. QTile(e)'
  <2>1. If(QFlying) = 1 /\ If(QFlying') = 0
    BY <1>3 DEF If
  <2>2. q - 1 \in Nat /\ q - 1 + 1 = q - 0
    <3>1. q >= 1
      <4>1. PICK t \in 1 .. Len(launch.work) : Works(launch, t) + 1 = q
        BY <1>1 DEF InFlight, KvCopy
      <4>2. Works(launch, t) \in Nat
        BY <1>1, NextTile
      <4> QED BY <4>1, <4>2
    <3> HIDE DEF q
    <3> QED BY <1>1, <3>1
  <2>3. Phases(bar[QFull], q - 1)
    BY <1>1, <2>1 DEF QTile
  <2>4. Phases(bar'[QFull], q - If(QFlying'))
    BY <1>4, <2>1, <2>2, <2>3, PhaseArrive
  <2>5. QLoads(launch', ld') = q /\ QTaken(launch', mm') = QTaken(launch, mm)
    BY <1>2
  <2> HIDE DEF e
  <2> QED BY <1>1, <1>4, <2>4, <2>5 DEF QTile
<1>6. KvRing(e)'
  <2>1. \A i : KvCopy(launch, i) # c
    BY DEF KvCopy
  <2>2. \A i : KvCopy(launch, i)' = KvCopy(launch, i)
    BY <1>2 DEF KvCopy
  <2>3. \A i : Flying(i)' = Flying(i)
    BY <1>2, <2>1, <2>2 DEF Flying
  <2>4. \A s \in Slot : bar'[KvFull(s)] = bar[KvFull(s)] /\ bar'[KvEmpty(s)] = bar[KvEmpty(s)]
    BY <1>2, BarNames DEF Moves, QFull
  <2>5. \A i \in Int : IndexOf(i) \in Slot
    BY Ring
  <2> HIDE DEF e
  <2> QED BY <1>1, <1>2, <2>3, <2>4, <2>5 DEF KvRing
<1>7. (\A b \in {QFull} : b[1] \in {"q_full", "kv_full"}) /\ inflight' \subseteq inflight
  BY <1>2 DEF QFull
<1> QED BY <1>2, <1>5, <1>6, <1>7, LandTurn

LEMMA LandKVStep ==
    ASSUME NEW st, Control(st), NEW c \in inflight, c.to # "Q", Land(c)
    PROVE  Control(st)'
<1> DEFINE e == st[1]
           S == Slots(e)
<1>0. PICK K : K = KvLoads(ld)
  OBVIOUS
<1>1. /\ Registers /\ KvRing(e) /\ QTile(e) /\ InFlight /\ K \in Nat /\ mm.kv \in Nat /\ S \in Nat
      /\ S <= mm.kv /\ mm.kv <= K /\ K <= S + 3
  BY <1>0, LoadSees DEF Control
<1>2. PICK k \in mm.kv .. K - 1 : c = KvCopy(launch, k)
  BY <1>0, <1>1 DEF InFlight, QCopy
<1>3. k \in Nat /\ k + 3 \in K .. K + 2 /\ IndexOf(k) \in Slot
  <2>1. k \in Int
    BY <1>1, <1>2
  <2>2. IndexOf(k) \in Slot
    BY <2>1, Ring
  <2> HIDE DEF S
  <2> QED BY <1>1, <1>2, <2>2
<1> DEFINE b == KvFull(IndexOf(k))
<1>4. /\ UNCHANGED <<launch, named, tc, ld, mm, sm, co, ep>> /\ Moves({b}) /\ inflight' = inflight \ {c}
  <2>1. c.slot = IndexOf(k)
    BY <1>2 DEF KvCopy
  <2> QED BY <2>1, MovesArrive DEF Land
<1>5. ASSUME NEW i \in K .. K + 2, i # k + 3
      PROVE  IndexOf(i) # IndexOf(k) /\ KvCopy(launch, i - 3) # c
  <2>1. i \in Int /\ k + 3 \in Int /\ i <= k + 3 + 2 /\ k + 3 <= i + 2 /\ k \in Int
    BY <1>1, <1>3
  <2>2. IndexOf(i) # IndexOf(k + 3)
    BY <1>5, <2>1, RingApart
  <2>3. IndexOf(k + 3) = IndexOf(k) /\ IndexOf(i - 3) = IndexOf(i)
    BY <2>1, Ring
  <2> QED BY <1>2, <2>2, <2>3 DEF KvCopy
<1>6. Flying(k) = 1 /\ Flying(k)' = 0
  <2>1. KvCopy(launch, k)' = c
    BY <1>2, <1>4 DEF KvCopy
  <2>2. c \notin inflight' /\ KvCopy(launch, k) \in inflight /\ k >= 0
    BY <1>2, <1>3, <1>4
  <2>3. Flying(k) = 1
    BY <2>2 DEF Flying, If
  <2>4. Flying(k)' = 0
    BY <2>1, <2>2 DEF Flying, If
  <2> QED BY <2>3, <2>4
<1>7. \A i \in K .. K + 2 : i # k + 3 => Flying(i - 3)' = Flying(i - 3)
  <2>1. \A i : KvCopy(launch, i)' = KvCopy(launch, i)
    BY <1>4 DEF KvCopy
  <2> QED BY <1>4, <1>5, <2>1 DEF Flying
<1>8. /\ bar'[b] = Arrived(b) /\ Expected(b) = 1
      /\ \A s \in Slot : s # IndexOf(k) => bar'[KvFull(s)] = bar[KvFull(s)]
      /\ \A s \in Slot : bar'[KvEmpty(s)] = bar[KvEmpty(s)]
      /\ bar'[QFull] = bar[QFull] /\ bar'[QEmpty] = bar[QEmpty]
  BY <1>3, <1>4, BarNames DEF Moves, KvFull, KvEmpty, QFull, QEmpty
<1>9. KvRing(e)'
  <2>1. ASSUME NEW i \in K .. K + 2
        PROVE  Phases(bar'[KvFull(IndexOf(i))], (i \div 3) - Flying(i - 3)')
    <3>1. Phases(bar[KvFull(IndexOf(i))], (i \div 3) - Flying(i - 3)) /\ i \in Int /\ IndexOf(i) \in Slot
      <4>1. i \in Int
        BY <1>1
      <4>2. IndexOf(i) \in Slot
        BY <4>1, Ring
      <4> QED BY <1>0, <1>1, <4>1, <4>2 DEF KvRing, KvStages
    <3>2. CASE i = k + 3
      <4>1. i - 3 = k /\ (i \div 3) - 1 \in Nat /\ (i \div 3) - 1 + 1 = (i \div 3) - 0
        BY <1>3, <3>2
      <4>2. IndexOf(i) = IndexOf(k)
        BY <1>3, <3>2, Ring
      <4>3. Phases(bar[b], (i \div 3) - 1)
        BY <1>6, <3>1, <4>1, <4>2
      <4>4. Phases(bar'[b], (i \div 3) - 0)
        BY <1>8, <4>1, <4>3, PhaseArrive
      <4> QED BY <1>6, <4>1, <4>2, <4>4
    <3>3. CASE i # k + 3
      BY <1>5, <1>7, <1>8, <3>1, <3>3
    <3> QED BY <3>2, <3>3
  <2>2. K .. K + 3 - 1 = K .. K + 2
    BY <1>1
  <2>3. \A i \in S .. S + 3 - 1 : Phases(bar'[KvEmpty(IndexOf(i))], i \div 3)
    <3>1. \A i \in S .. S + 3 - 1 : IndexOf(i) \in Slot
      <4> HIDE DEF S
      <4> QED BY <1>1, Ring
    <3> QED BY <1>1, <1>8, <3>1 DEF KvRing, KvStages
  <2>4. KvLoads(ld') = K /\ mm' = mm
    BY <1>0, <1>4
  <2> HIDE DEF e
  <2> QED BY <1>1, <2>1, <2>2, <2>3, <2>4 DEF KvRing, KvStages, S
<1>10. QTile(e)'
  <2>1. c.to = "KV"
    BY <1>2 DEF KvCopy
  <2>2. QFlying' = QFlying
    BY <1>4, <2>1 DEF QFlying
  <2> HIDE DEF e
  <2> QED BY <1>1, <1>4, <1>8, <2>2 DEF QTile
<1>11. (\A x \in {b} : x[1] \in {"q_full", "kv_full"}) /\ inflight' \subseteq inflight
  BY <1>4 DEF KvFull
<1> QED BY <1>4, <1>9, <1>10, <1>11, LandTurn

LEMMA LandStep ==
    ASSUME NEW st, Control(st), NEW c \in inflight, Land(c)
    PROVE  Control(st)'
BY LandQStep, LandKVStep

-----------------------------------------------------------------------------
(* The tensor core.                                                         *)

\* What an operation adds to the counts, and the barriers it arrives at.
Adds(P, P2, q, u, v, r, x) ==
    P2.qk = P.qk + q /\ P2.pv1 = P.pv1 + u /\ P2.pv2 = P.pv2 + v /\ P2.rel = P.rel + r /\ P2.last = P.last + x
Effect(P, op, P2) ==
    \/ op.do = "QK" /\ op.arrive = {SpoFull(P.qk % 2), KvEmpty(IndexOf(Slots(P)))} /\ Adds(P, P2, 1, 0, 0, 0, 0)
    \/ op.do = "none" /\ op.arrive = {QEmpty} /\ Adds(P, P2, 0, 0, 0, 1, 0)
    \/ op.do = "PV1" /\ op.arrive = {} /\ Adds(P, P2, 0, 1, 0, 0, 0)
    \/ op.do = "PV2" /\ op.arrive = {KvEmpty(IndexOf(Slots(P)))} /\ Adds(P, P2, 0, 0, 1, 0, 0)
    \/ /\ op.do = "PV2" /\ op.arrive = {KvEmpty(IndexOf(Slots(P))), OAcc(P.last % 2)}
       /\ Adds(P, P2, 0, 0, 1, 0, 1)

LEMMA StepEffect ==
    ASSUME NEW l \in Launches, NEW P \in Point, NEW op, NEW P2, Step(l, P, op, P2)
    PROVE  Effect(P, op, P2)
<1>1. PICK t \in 1 .. Len(l.work), q, u, v, r, x \in Nat : StepIn(l, t, q, u, v, r, x, P, op, P2)
  BY DEF Step
<1> DEFINE n == 2 * Half(l, t)
<1>2. P = At(l, t, q, u, v, r, x) /\ Half(l, t) > 0 /\ Half(l, t) \in Nat /\ Steps(l, t) \in Nat /\ Works(l, t) \in Nat
  BY <1>1, LaunchFacts, NextTile DEF StepIn
<1>3. /\ P.qk \in Nat /\ P.pv1 \in Nat /\ P.pv2 \in Nat /\ P.rel \in Nat /\ P.last \in Nat
      /\ \A y \in Nat : y + 0 = y
  BY DEF Point
<1>4. CASE InQK(n, q, u, v, r, x) /\ QKStep(P, op, P2)
  <2>1. Adds(P, P2, 1, 0, 0, 0, 0)
    BY <1>3, <1>4 DEF QKStep, Adds, Point
  <2> QED BY <1>4, <2>1 DEF QKStep, Effect, Op
<1>5. CASE InRelease(n, q, u, v, r, x) /\ ReleaseStep(P, op, P2)
  <2>1. Adds(P, P2, 0, 0, 0, 1, 0)
    BY <1>3, <1>5 DEF ReleaseStep, Adds, Point
  <2> QED BY <1>5, <2>1 DEF ReleaseStep, Effect, Op
<1>6. CASE InPV(n, q, v, r, x) /\ PV1Step(P, op, P2, v < 2)
  <2>1. Adds(P, P2, 0, 1, 0, 0, 0)
    BY <1>3, <1>6 DEF PV1Step, Adds, Point
  <2> QED BY <1>6, <2>1 DEF PV1Step, Effect, Op
<1>7. CASE InPV(n, q, v, r, x) /\ u = v + 1 /\ PV2Step(P, op, P2, v >= n - 2)
  <2>1. CASE v >= n - 2
    <3>1. Adds(P, P2, 0, 0, 1, 0, 1)
      BY <1>3, <1>7, <2>1 DEF PV2Step, Adds, Point, If
    <3>2. P.pv2 % 2 = P.last % 2
      <4> DEFINE s == Steps(l, t)
                 w == Works(l, t)
                 h == Half(l, t)
      <4>1. P.pv2 = 2 * s + v /\ P.last = 2 * w + x /\ s \in Nat /\ w \in Nat /\ h \in Nat
        BY <1>2 DEF At
      <4>2. x = If(v = 2 * h - 1) /\ v < 2 * h /\ v >= 2 * h - 2
        BY <1>7, <2>1 DEF InPV
      <4> HIDE DEF s, w, h
      <4>3. CASE v = 2 * h - 1
        BY <4>1, <4>2, <4>3 DEF If
      <4>4. CASE v = 2 * h - 2
        BY <4>1, <4>2, <4>4 DEF If
      <4> QED BY <4>1, <4>2, <4>3, <4>4
    <3>3. op.do = "PV2" /\ op.arrive = {KvEmpty(IndexOf(Slots(P)))} \cup {OAcc(P.pv2 % 2)}
      BY <1>7, <2>1 DEF PV2Step, Op
    <3>4. op.arrive = {KvEmpty(IndexOf(Slots(P))), OAcc(P.last % 2)}
      BY <3>2, <3>3
    <3> QED BY <3>1, <3>3, <3>4 DEF Effect
  <2>2. CASE ~(v >= n - 2)
    <3>1. Adds(P, P2, 0, 0, 1, 0, 0)
      BY <1>3, <1>7, <2>2 DEF PV2Step, Adds, Point, If
    <3>3. op.do = "PV2" /\ op.arrive = {KvEmpty(IndexOf(Slots(P)))} \cup {}
      BY <1>7, <2>2 DEF PV2Step, Op
    <3> QED BY <3>1, <3>3 DEF Effect
  <2> QED BY <2>1, <2>2
<1> QED BY <1>1, <1>4, <1>5, <1>6, <1>7 DEF StepIn

LEMMA TailQueue ==
    ASSUME NEW st, Queue(st), tc \in Seq(Operation), tc # <<>>, tc' = Tail(tc), UNCHANGED <<launch, mm>>
    PROVE  /\ Queue(Tail(st))' /\ Tail(st)[1] = st[2] /\ Step(launch, st[1], tc[1], st[2])
           /\ Ahead(st[1], st[2]) /\ st[2] \in Point /\ tc' \in Seq(Operation) /\ tc[1] \in Operation
<1> DEFINE n == Len(tc)
           s == Tail(st)
<1>1. n \in Nat /\ n > 0 /\ st \in Seq(Point) /\ Len(st) = n + 1 /\ 1 \in 1 .. n
  BY DEF Queue
<1>2. /\ tc' \in Seq(Operation) /\ tc[1] \in Operation /\ Len(tc') = n - 1
      /\ \A x \in 1 .. n - 1 : tc'[x] = tc[x + 1]
  BY <1>1
<1>3. s \in Seq(Point) /\ Len(s) = n /\ \A x \in 1 .. n : s[x] = st[x + 1]
  BY <1>1
<1>4. s[Len(s)] = Issued(launch, mm)
  BY <1>1, <1>3 DEF Queue
<1>5. /\ \A x \in 1 .. n : Step(launch, st[x], tc[x], st[x + 1])
      /\ \A x, y \in 1 .. n + 1 : x <= y => Ahead(st[x], st[y])
  BY <1>1 DEF Queue
<1>6. \A x \in 1 .. n - 1 : Step(launch, s[x], tc'[x], s[x + 1])
  <2>1. \A x \in 1 .. n - 1 : x \in 1 .. n /\ x + 1 \in 1 .. n
    BY <1>1
  <2> HIDE DEF n, s
  <2> QED BY <1>2, <1>3, <1>5, <2>1
<1>7. \A x, y \in 1 .. n : x <= y => Ahead(s[x], s[y])
  <2>1. \A x, y \in 1 .. n : x + 1 \in 1 .. n + 1 /\ (x <= y => x + 1 <= y + 1)
    BY <1>1
  <2> HIDE DEF n, s
  <2> QED BY <1>3, <1>5, <2>1
<1>8. Queue(s)'
  <2>1. n = n - 1 + 1
    BY <1>1
  <2>2. launch' = launch /\ mm' = mm
    OBVIOUS
  <2> HIDE DEF n, s
  <2> QED BY <1>2, <1>3, <1>4, <1>6, <1>7, <2>1, <2>2 DEF Queue
<1>9. s[1] = st[2]
  <2>1. 1 + 1 = 2
    OBVIOUS
  <2> HIDE DEF s, n
  <2> QED BY <1>1, <1>3, <2>1
<1>10. Step(launch, st[1], tc[1], st[2]) /\ Ahead(st[1], st[2]) /\ st[2] \in Point
  <2>1. 1 + 1 = 2 /\ 1 \in 1 .. n + 1 /\ 2 \in 1 .. n + 1
    BY <1>1
  <2> HIDE DEF n
  <2> QED BY <1>1, <1>5, <2>1
<1> QED BY <1>2, <1>8, <1>9, <1>10

CoreReleases == {"kv_empty", "q_empty", "spo_full", "o_acc"}

LEMMA CoreBars ==
    ASSUME NEW P \in Point, NEW op, NEW P2, Effect(P, op, P2)
    PROVE  /\ \A b \in op.arrive : b[1] \in CoreReleases
           /\ \A s \in Slot : KvEmpty(s) \in op.arrive <=> op.do \in {"QK", "PV2"} /\ s = IndexOf(Slots(P))
           /\ QEmpty \in op.arrive <=> op.do = "none"
           /\ \A g \in Stage : SpoFull(g) \in op.arrive <=> op.do = "QK" /\ g = P.qk % 2
           /\ \A g \in Stage : OAcc(g) \in op.arrive <=> P2.last = P.last + 1 /\ g = P.last % 2
<1>1. P.last \in Nat /\ P.last + 0 # P.last + 1
  BY DEF Point
<1> QED
  BY <1>1 DEF Effect, Adds, CoreReleases, KvEmpty, QEmpty, SpoFull, OAcc

LEMMA CoreKv ==
    ASSUME NEW st, Control(st), UNCHANGED <<launch, ld, mm, inflight>>, NEW op, NEW P2 \in Point,
           Effect(st[1], op, P2), Moves(op.arrive)
    PROVE  KvRing(P2)'
<1> DEFINE P == st[1]
           S == Slots(P)
           S2 == Slots(P2)
<1>0. PICK K : K = KvLoads(ld)
  OBVIOUS
<1>1. /\ KvRing(P) /\ K \in Nat /\ S \in Nat /\ mm.kv \in Nat /\ mm.kv <= K /\ K <= S + 3 /\ P \in Point
      /\ S2 \in Nat
  <2>1. P \in Point
    BY LoadSees, QueueFacts
  <2>2. S2 \in Nat
    BY DEF Slots, Point
  <2> QED BY <1>0, <2>1, <2>2, LoadSees DEF Control
<1>2. S2 = S + If(op.do \in {"QK", "PV2"})
  <2>1. P.qk \in Nat /\ P.pv2 \in Nat
    BY <1>1 DEF Point
  <2>2. \/ op.do = "QK" /\ P2.qk = P.qk + 1 /\ P2.pv2 = P.pv2 + 0
        \/ op.do = "none" /\ P2.qk = P.qk + 0 /\ P2.pv2 = P.pv2 + 0
        \/ op.do = "PV1" /\ P2.qk = P.qk + 0 /\ P2.pv2 = P.pv2 + 0
        \/ op.do = "PV2" /\ P2.qk = P.qk + 0 /\ P2.pv2 = P.pv2 + 1
    BY DEF Effect, Adds
  <2> DEFINE a == P.qk
             b == P.pv2
             c == P2.qk
             d == P2.pv2
  <2> HIDE DEF a, b, c, d, P
  <2> QED BY <2>1, <2>2 DEF Slots, If, a, b, c, d
<1>3. /\ \A s \in Slot : bar'[KvFull(s)] = bar[KvFull(s)]
      /\ \A s \in Slot : bar'[KvEmpty(s)] = IF op.do \in {"QK", "PV2"} /\ s = IndexOf(S)
                                            THEN Arrived(KvEmpty(s)) ELSE bar[KvEmpty(s)]
  <2>1. \A s \in Slot : KvFull(s) \notin op.arrive
    BY <1>1, CoreBars DEF CoreReleases, KvFull
  <2>2. \A s \in Slot : KvEmpty(s) \in op.arrive <=> op.do \in {"QK", "PV2"} /\ s = IndexOf(S)
    BY <1>1, CoreBars
  <2> HIDE DEF S
  <2> QED BY <2>1, <2>2, BarNames DEF Moves
<1>4. \A i \in Int : IndexOf(i) \in Slot
  BY Ring
<1>5. \A i : Flying(i)' = Flying(i)
  BY DEF Flying
<1>6. ASSUME NEW i \in S2 .. S2 + 2
      PROVE  Phases(bar'[KvEmpty(IndexOf(i))], i \div 3)
  <2>1. i \in Int /\ IndexOf(i) \in Slot
    BY <1>1, <1>4
  <2>2. \A k \in S .. S + 2 : Phases(bar[KvEmpty(IndexOf(k))], k \div 3)
    BY <1>1 DEF KvRing, KvStages
  <2>3. CASE op.do \notin {"QK", "PV2"}
    <3>1. i \in S .. S + 2
      BY <1>1, <1>2, <2>3 DEF If
    <3> QED BY <1>3, <2>1, <2>2, <2>3, <3>1
  <2>4. CASE op.do \in {"QK", "PV2"} /\ i = S + 3
    <3>1. IndexOf(i) = IndexOf(S) /\ i \div 3 = (S \div 3) + 1 /\ S \div 3 \in Nat /\ S \in S .. S + 2
      <4> HIDE DEF S
      <4> QED BY <1>1, <2>4, Ring
    <3>2. Phases(bar[KvEmpty(IndexOf(S))], S \div 3)
      BY <2>2, <3>1
    <3>3. Expected(KvEmpty(IndexOf(S))) = 1
      BY <2>1, <3>1, BarNames
    <3>4. Phases(Arrived(KvEmpty(IndexOf(S))), (S \div 3) + 1)
      BY <3>1, <3>2, <3>3, PhaseArrive
    <3>5. bar'[KvEmpty(IndexOf(i))] = Arrived(KvEmpty(IndexOf(S)))
      BY <1>3, <2>1, <2>4, <3>1
    <3> QED BY <3>1, <3>4, <3>5
  <2>5. CASE op.do \in {"QK", "PV2"} /\ i # S + 3
    <3>1. i \in S + 1 .. S + 3
      BY <1>1, <1>2, <2>5 DEF If
    <3>2. i \in S .. S + 2 /\ i \in Int /\ S \in Int /\ i # S /\ i <= S + 2 /\ S <= i + 2
      <4> HIDE DEF S
      <4> QED BY <1>1, <2>5, <3>1
    <3>3. IndexOf(i) # IndexOf(S)
      BY <3>2, RingApart
    <3> QED BY <1>3, <2>1, <2>2, <3>2, <3>3
  <2> QED BY <2>3, <2>4, <2>5
<1>7. K <= S2 + 3 /\ S2 .. S2 + 3 - 1 = S2 .. S2 + 2
  <2>1. S <= S2
    BY <1>1, <1>2 DEF If
  <2> HIDE DEF S, S2
  <2> QED BY <1>1, <2>1
<1>8. ASSUME NEW i \in K .. K + 3 - 1
      PROVE  Phases(bar'[KvFull(IndexOf(i))], (i \div 3) - Flying(i - 3)')
  <2>1. i \in Int
    BY <1>1
  <2> QED BY <1>0, <1>1, <1>3, <1>4, <1>5, <2>1 DEF KvRing, KvStages
<1>9. KvLoads(ld') = K /\ mm'.kv <= K
  BY <1>0, <1>1
<1> HIDE DEF P
<1> QED BY <1>6, <1>7, <1>8, <1>9 DEF KvRing, KvStages, S2

LEMMA CoreQ ==
    ASSUME NEW st, Control(st), UNCHANGED <<launch, ld, mm, inflight>>, NEW op, NEW P2 \in Point,
           Effect(st[1], op, P2), Moves(op.arrive)
    PROVE  QTile(P2)'
<1> DEFINE P == st[1]
           q == QLoads(launch, ld)
<1>1. QTile(P) /\ P \in Point /\ P.rel \in Nat /\ q \in Nat /\ q <= P.rel + 1
  BY LoadSees, QueueFacts DEF Control
<1>2. /\ bar'[QFull] = bar[QFull] /\ Expected(QEmpty) = 1
      /\ bar'[QEmpty] = IF op.do = "none" THEN Arrived(QEmpty) ELSE bar[QEmpty]
  <2>1. QFull \notin op.arrive /\ (QEmpty \in op.arrive <=> op.do = "none")
    BY <1>1, CoreBars DEF CoreReleases, QFull
  <2> QED BY <2>1, BarNames DEF Moves
<1>3. \/ op.do = "none" /\ P2.rel = P.rel + 1
      \/ op.do # "none" /\ P2.rel = P.rel
  <2>1. P.rel + 0 = P.rel
    BY <1>1
  <2> QED BY <2>1 DEF Effect, Adds
<1>4. Phases(bar'[QEmpty], P2.rel)
  <2>1. Phases(bar[QEmpty], P.rel)
    BY <1>1 DEF QTile
  <2> QED BY <1>1, <1>2, <1>3, <2>1, PhaseArrive
<1>5. q <= P2.rel + 1
  <2> DEFINE a == P.rel
             b == P2.rel
  <2>1. a \in Nat /\ q <= a + 1 /\ (b = a + 1 \/ b = a)
    BY <1>1, <1>3
  <2> HIDE DEF a, b, q
  <2>2. q <= b + 1
    BY <1>1, <2>1
  <2> QED BY <2>2 DEF b
<1>6. QFlying' = QFlying /\ QLoads(launch', ld') = q /\ QTaken(launch', mm') = QTaken(launch, mm)
  BY DEF QFlying
<1> HIDE DEF P
<1> QED BY <1>1, <1>2, <1>4, <1>5, <1>6 DEF QTile

LEMMA CoreStage ==
    ASSUME NEW st, Control(st), NEW op, NEW P2 \in Point, Effect(st[1], op, P2), Moves(op.arrive)
    PROVE  ByTensorCore(P2)'
<1> DEFINE P == st[1]
<1>1. ByTensorCore(P) /\ P \in Point /\ P.qk \in Nat /\ P.last \in Nat
  BY LoadSees, QueueFacts DEF Control, Point
<1>2. ASSUME NEW g \in Stage
      PROVE  Phases(bar'[SpoFull(g)], OnStage(P2.qk, g)) /\ Phases(bar'[OAcc(g)], OnStage(P2.last, g))
  <2>1. /\ Expected(SpoFull(g)) = 1 /\ Expected(OAcc(g)) = 1
        /\ bar'[SpoFull(g)] = IF op.do = "QK" /\ g = P.qk % 2 THEN Arrived(SpoFull(g)) ELSE bar[SpoFull(g)]
        /\ bar'[OAcc(g)] = IF P2.last = P.last + 1 /\ g = P.last % 2 THEN Arrived(OAcc(g)) ELSE bar[OAcc(g)]
    BY <1>1, CoreBars, BarNames DEF Moves
  <2>2. /\ Phases(bar[SpoFull(g)], OnStage(P.qk, g)) /\ Phases(bar[OAcc(g)], OnStage(P.last, g))
    BY <1>1 DEF ByTensorCore
  <2>3. /\ OnStage(P.qk, g) \in Nat /\ OnStage(P.last, g) \in Nat
        /\ OnStage(P.qk + 1, g) = OnStage(P.qk, g) + If(g = P.qk % 2)
        /\ OnStage(P.last + 1, g) = OnStage(P.last, g) + If(g = P.last % 2)
    BY <1>1, Alternate
  <2>4. /\ (op.do = "QK" /\ P2.qk = P.qk + 1) \/ (op.do # "QK" /\ P2.qk = P.qk)
        /\ P2.last = P.last + 1 \/ P2.last = P.last
    <3>1. P.qk + 0 = P.qk /\ P.last + 0 = P.last
      BY <1>1
    <3> HIDE DEF P
    <3>2. \/ op.do = "QK" /\ P2.qk = P.qk + 1 /\ P2.last = P.last + 0
          \/ op.do = "none" /\ P2.qk = P.qk + 0 /\ P2.last = P.last + 0
          \/ op.do = "PV1" /\ P2.qk = P.qk + 0 /\ P2.last = P.last + 0
          \/ op.do = "PV2" /\ P2.qk = P.qk + 0 /\ P2.last = P.last + 0
          \/ op.do = "PV2" /\ P2.qk = P.qk + 0 /\ P2.last = P.last + 1
      BY DEF Effect, Adds, P
    <3> QED BY <3>1, <3>2
  <2>5. Phases(bar'[SpoFull(g)], OnStage(P2.qk, g))
    <3>1. CASE op.do = "QK" /\ g = P.qk % 2
      BY <2>1, <2>2, <2>3, <2>4, <3>1, PhaseArrive DEF If
    <3>2. CASE op.do = "QK" /\ g # P.qk % 2
      <4>1. OnStage(P.qk + 1, g) = OnStage(P.qk, g)
        BY <2>3, <3>2 DEF If
      <4> QED BY <2>1, <2>2, <2>4, <3>2, <4>1
    <3>3. CASE op.do # "QK"
      BY <2>1, <2>2, <2>4, <3>3
    <3> QED BY <3>1, <3>2, <3>3
  <2>6. Phases(bar'[OAcc(g)], OnStage(P2.last, g))
    <3>1. CASE P2.last = P.last + 1 /\ g = P.last % 2
      BY <2>1, <2>2, <2>3, <3>1, PhaseArrive DEF If
    <3>2. CASE P2.last = P.last + 1 /\ g # P.last % 2
      <4>1. OnStage(P.last + 1, g) = OnStage(P.last, g)
        BY <2>3, <3>2 DEF If
      <4> QED BY <2>1, <2>2, <3>2, <4>1
    <3>3. CASE P2.last = P.last
      <4>1. P.last # P.last + 1
        BY <1>1
      <4> QED BY <2>1, <2>2, <3>3, <4>1
    <3> QED BY <2>4, <3>1, <3>2, <3>3
  <2> QED BY <2>5, <2>6
<1> HIDE DEF P
<1> QED BY <1>2 DEF ByTensorCore

LEMMA TensorCoreStep ==
    ASSUME NEW st, Control(st), TensorCore
    PROVE  Control(Tail(st))'
<1> DEFINE P == st[1]
           P2 == st[2]
           op == tc[1]
<1>1. /\ Registers /\ MmaRole /\ Queue(st) /\ InFlight /\ Scores2P(P) /\ ODone(P) /\ P \in Point /\ launch \in Launches
  BY LoadSees, QueueFacts DEF Control, Registers
<1>2. /\ UNCHANGED <<launch, named, inflight, ld, mm, sm, co, ep>> /\ tc' = Tail(tc) /\ tc # <<>>
      /\ tc \in Seq(Operation) /\ Moves(op.arrive)
  <2>1. Head(tc) = tc[1]
    BY <1>1 DEF Registers, TensorCore
  <2> QED BY <1>1, <2>1, MovesArrive DEF TensorCore, Registers
<1>3. /\ Queue(Tail(st))' /\ Tail(st)[1] = P2 /\ Step(launch, P, op, P2)
      /\ Ahead(P, P2) /\ P2 \in Point /\ tc' \in Seq(Operation)
  BY <1>1, <1>2, TailQueue
<1>4. Effect(P, op, P2)
  BY <1>1, <1>3, StepEffect
<1>5. ASSUME NEW names, names \cap CoreReleases = {}
      PROVE  Still(names)
  <2>1. \A b \in op.arrive : b[1] \notin names
    BY <1>1, <1>4, <1>5, CoreBars
  <2> QED BY <1>2, <2>1, MovesStill
<1>6. KvRing(P2)' /\ QTile(P2)' /\ ByTensorCore(P2)'
  BY <1>2, <1>3, <1>4, CoreKv, CoreQ, CoreStage
<1>7. /\ Still({"p_lastsplit"}) /\ Still({"spo_empty"}) /\ Still({"sm_stats"})
      /\ Still({"epi_full", "reduce", "epi_empty"}) /\ Still({"load_epi_full", "load_epi_empty"})
  BY <1>5 DEF CoreReleases
<1>8. Registers' /\ LoadRole' /\ MmaRole' /\ Corrections' /\ InFlight'
  <2>1. LoadRole' /\ MmaRole' /\ Corrections' /\ InFlight'
    BY <1>2, LoadFrame, MmaFrame, CorrectionFrame, FlightFrame DEF Control
  <2>2. Registers'
    BY <1>1, <1>2, <1>3 DEF Registers, Moves
  <2> QED BY <2>1, <2>2
<1>9. OFree' /\ Statistics' /\ OTile' /\ LoadEpiTurn'
  BY <1>2, <1>7, FreeFrame, StatFrame, OTileFrame, TurnFrame DEF Control
<1>10. \A g \in Stage : /\ OnStage(P.qk, g) <= OnStage(P2.qk, g) /\ OnStage(P.last, g) <= OnStage(P2.last, g)
                        /\ OnStage(P.qk, g) \in Nat /\ OnStage(P2.qk, g) \in Nat
                        /\ OnStage(P.last, g) \in Nat /\ OnStage(P2.last, g) \in Nat
  BY <1>1, <1>3, AlternateKeeps, Alternate DEF Ahead, Point
<1>11. Scores2P(P2)
  <2>1. \A g \in Stage, w \in Warps : Reads(launch, sm[g][w]) \in Nat /\ Reads(launch, sm[g][w]) <= OnStage(P2.qk, g)
    <3> SUFFICES ASSUME NEW g \in Stage, NEW w \in Warps
                 PROVE  Reads(launch, sm[g][w]) \in Nat /\ Reads(launch, sm[g][w]) <= OnStage(P2.qk, g)
      OBVIOUS
    <3>1. Reads(launch, sm[g][w]) \in Nat /\ Reads(launch, sm[g][w]) <= OnStage(P.qk, g)
      BY SoftmaxSees
    <3> QED BY <1>10, <3>1
  <2> HIDE DEF P, P2
  <2> QED BY <1>1, <2>1 DEF Scores2P
<1>12. ODone(P2)
  <2> SUFFICES ASSUME NEW g \in Stage, NEW w \in Warps
               PROVE  Waited(launch, co[w], g) <= OnStage(P2.last, g)
    BY DEF ODone
  <2>1. Waited(launch, co[w], g) \in Nat /\ Waited(launch, co[w], g) <= OnStage(P.last, g)
    BY CorrectionSees
  <2> QED BY <1>10, <2>1
<1>13. Scores2P(P2)' /\ ODone(P2)'
  <2> HIDE DEF P, P2
  <2> QED BY <1>2, <1>7, <1>11, <1>12, ScoresFrame, ODoneFrame
<1> HIDE DEF P, P2
<1> QED BY <1>3, <1>6, <1>8, <1>9, <1>13 DEF Control

-----------------------------------------------------------------------------
(* The epilogue warp.                                                       *)

LEMMA EpilogueTurn ==
    ASSUME NEW st, Control(st), UNCHANGED <<launch, named, inflight, tc, ld, mm, sm, co>>,
           NEW bars, Moves(bars), bars \subseteq {EpiEmpty, LoadEpiFull}, OTile', LoadEpiTurn'
    PROVE  Control(st)'
<1>1. ASSUME NEW names, names \cap {"epi_empty", "load_epi_full"} = {}
      PROVE  Still(names)
  <2>1. \A b \in bars : b[1] \notin names
    BY <1>1 DEF EpiEmpty, LoadEpiFull
  <2> QED BY <2>1, MovesStill
<1>2. Registers' /\ LoadRole' /\ MmaRole' /\ Queue(st)' /\ Corrections' /\ InFlight'
  BY LoadFrame, MmaFrame, QueueFrame, CorrectionFrame, FlightFrame DEF Control, Registers, Moves
<1>3. ByTensorCore(st[1])' /\ Scores2P(st[1])' /\ OFree'
  BY <1>1, CoreFrame, ScoresFrame, FreeFrame DEF Control
<1>4. Statistics' /\ ODone(st[1])'
  BY <1>1, StatFrame, ODoneFrame DEF Control
<1>5. KvRing(st[1])' /\ QTile(st[1])'
  <2>1. mm'.kv <= KvLoads(ld) /\ QTaken(launch, mm') <= QLoads(launch, ld)
    BY LoadSees
  <2>2. Still({"kv_full", "kv_empty"}) /\ Still({"q_full", "q_empty"})
    BY <1>1
  <2> QED BY <2>1, <2>2, KvFrame, QFrame DEF Control
<1> QED BY <1>2, <1>3, <1>4, <1>5 DEF Control

EpilogueRegisters(e) == e \in [pc : {"tile", "ld"}, tile : Nat, epi : {0, 1}, ld : {0, 1}]

LEMMA EpilogueSees ==
    ASSUME NEW st, Control(st)
    PROVE  /\ Registers /\ OTile /\ LoadEpiTurn /\ LoadRole /\ EpilogueRegisters(ep)
           /\ ep.tile \in 1 .. Len(launch.work) + 1 /\ ep.tile \in Nat /\ Len(launch.work) \in Nat
           /\ OStored(ep) \in Nat
           /\ \A w \in Warps : co[w].tile \in Nat /\ co[w].tile >= 1 /\ TilesStored[w] = co[w].tile - 1
<1>1. Registers /\ OTile /\ LoadEpiTurn /\ LoadRole
  BY DEF Control
<1>2. Len(launch.work) \in Nat /\ Warps # {}
  BY <1>1, Tile
<1>3. \A w \in Warps : co[w].tile \in Nat /\ co[w].tile >= 1
  <2> SUFFICES ASSUME NEW w \in Warps PROVE co[w].tile \in Nat /\ co[w].tile >= 1
    OBVIOUS
  <2>1. CorrectionRole(co[w])
    BY CorrectionSees
  <2>2. 0 \in Stage
    BY DEF Stage
  <2> QED BY <1>1, <2>1, <2>2, CorrectionCounts
<1>4. OStored(ep) \in Nat
  BY <1>2, CorrectionSees
<1> QED BY <1>1, <1>2, <1>3, <1>4 DEF OTile, EpilogueRegisters, TilesStored

LEMMA EpilogueStoreStep ==
    ASSUME NEW st, Control(st), EpilogueStore
    PROVE  Control(st)'
<1> DEFINE t == ep.tile
           x == 1 - ep.epi
           e == [ep EXCEPT !.pc = "ld", !.epi = x]
<1>1. /\ Registers /\ OTile /\ LoadEpiTurn /\ EpilogueRegisters(ep) /\ t \in 1 .. Len(launch.work) + 1
      /\ t \in Nat /\ Len(launch.work) \in Nat /\ ep.pc = "tile"
      /\ \A w \in Warps : co[w].tile \in Nat /\ co[w].tile >= 1 /\ TilesStored[w] = co[w].tile - 1
  BY EpilogueSees DEF EpilogueStore
<1>2. t <= Len(launch.work) /\ t - 1 \in Nat /\ OStored(ep) = t - 1
  <2>1. t \in 1 .. Len(launch.work)
    BY <1>1, Tile DEF EpilogueStore
  <2>2. OStored(ep) = t - 1 + 0
    BY <1>1 DEF OStored, If
  <2> HIDE DEF t
  <2> QED BY <1>1, <2>1, <2>2
<1>3. \A w \in Warps : co[w].tile - 1 = t
  <2>1. \A w \in Warps : TilesStored[w] \in Int /\ TilesStored[w] >= t - 1 /\ TilesStored[w] <= t - 1 + 1
    BY <1>1, <1>2 DEF OTile
  <2>2. AllOf(bar[EpiFull], Warps, TilesStored) /\ Done(EpiFull, (t - 1) % 2) /\ Warps # {}
    BY <1>1, <1>2, Tile DEF OTile, EpilogueStore
  <2> DEFINE A == TilesStored
  <2>3. \E w \in Warps : A[w] <= t - 1 + 1
    BY <2>1, <2>2
  <2> HIDE DEF A, t
  <2>4. \A w \in Warps : A[w] >= t - 1 + 1
    BY <1>2, <2>1, <2>2, <2>3, AllWait DEF A
  <2>5. \A w \in Warps : A[w] = t
    BY <1>1, <2>1, <2>4 DEF A
  <2> QED BY <1>1, <2>5 DEF A
<1>4. /\ UNCHANGED <<launch, named, inflight, tc, ld, mm, sm, co>> /\ ep' = e /\ Moves({EpiEmpty})
  BY MovesArrive DEF EpilogueStore
<1>5. x = t % 2 /\ x \in {0, 1}
  <2>1. ep.epi = (t - 1) % 2
    BY <1>1, <1>2 DEF OTile
  <2> DEFINE y == ep.epi
  <2>2. y = (t - 1) % 2 /\ x = 1 - y /\ t \in Nat /\ t - 1 \in Nat
    BY <1>1, <1>2, <2>1
  <2> HIDE DEF t, x, y
  <2> QED BY <2>2
<1> HIDE DEF x
<1>6. e.pc = "ld" /\ e.tile = t /\ e.epi = x /\ e.ld = ep.ld /\ EpilogueRegisters(e)
  BY <1>1, <1>5 DEF EpilogueRegisters
<1> HIDE DEF e
<1>7. OStored(e) = t
  <2>1. OStored(e) = t - 1 + 1
    BY <1>6 DEF OStored, If
  <2> HIDE DEF t
  <2> QED BY <1>1, <2>1
<1>8. /\ bar'[EpiFull] = bar[EpiFull] /\ bar'[Reduce] = bar[Reduce] /\ bar'[EpiEmpty] = Arrived(EpiEmpty)
      /\ bar'[LoadEpiFull] = bar[LoadEpiFull] /\ bar'[LoadEpiEmpty] = bar[LoadEpiEmpty]
      /\ Expected(EpiEmpty) = 1
  BY <1>4, BarNames, WarpBarNames DEF Moves, EpiFull, Reduce, EpiEmpty, LoadEpiFull, LoadEpiEmpty
<1>9. /\ Warps' = Warps /\ HasLoadEpi' = HasLoadEpi /\ TilesStored' = TilesStored /\ Reductions' = Reductions
  BY <1>4 DEF Warps, HasLoadEpi, AliasEpilogue, TilesStored, Reductions
<1>10. OTile'
  <2>1. Phases(bar'[EpiEmpty], t)
    <3>1. Phases(bar[EpiEmpty], t - 1) /\ t - 1 + 1 = t
      <4>1. t - 1 + 1 = t
        <5> HIDE DEF t
        <5> QED BY <1>1
      <4> QED BY <1>1, <1>2, <4>1 DEF OTile
    <3> QED BY <1>2, <1>8, <3>1, PhaseArrive
  <2>2. \A w \in Warps : /\ t <= co[w].tile - 1 /\ co[w].tile - 1 <= t + 1
                         /\ co[w].pc \in {"combine", "store", "done"} => t = co[w].tile - 1
    <3> HIDE DEF t
    <3> QED BY <1>1, <1>3
  <2> QED BY <1>1, <1>2, <1>4, <1>5, <1>6, <1>7, <1>8, <1>9, <2>1, <2>2 DEF OTile, EpilogueRegisters
<1>11. LoadEpiTurn'
  BY <1>1, <1>4, <1>6, <1>8, <1>9 DEF LoadEpiTurn
<1>12. {EpiEmpty} \subseteq {EpiEmpty, LoadEpiFull}
  OBVIOUS
<1> QED BY <1>4, <1>10, <1>11, <1>12, EpilogueTurn

LEMMA EpilogueSignalStep ==
    ASSUME NEW st, Control(st), EpilogueSignal
    PROVE  Control(st)'
<1> DEFINE t == ep.tile
           u == ep.tile + 1
           x == IF HasLoadEpi THEN 1 - ep.ld ELSE ep.ld
           bars == IF HasLoadEpi THEN {LoadEpiFull} ELSE {}
           e == [ep EXCEPT !.pc = "tile", !.tile = u, !.ld = x]
<1>1. /\ Registers /\ OTile /\ LoadEpiTurn /\ LoadRole /\ EpilogueRegisters(ep) /\ t \in 1 .. Len(launch.work) + 1
      /\ t \in Nat /\ t >= 1 /\ Len(launch.work) \in Nat /\ ep.pc = "ld"
  BY EpilogueSees DEF EpilogueSignal
<1>2. t <= Len(launch.work) /\ t - 1 \in Nat /\ OStored(ep) = t /\ u = t + 1 /\ u \in Nat
      /\ u \in 1 .. Len(launch.work) + 1
  <2>1. t <= Len(launch.work)
    BY <1>1 DEF OTile
  <2>2. OStored(ep) = t - 1 + 1 /\ u = t + 1
    BY <1>1 DEF OStored, If
  <2> HIDE DEF t, u
  <2> QED BY <1>1, <2>1, <2>2
<1>3. UNCHANGED <<launch, named, inflight, tc, ld, mm, sm, co>> /\ ep' = e /\ Moves(bars)
  <2>1. UNCHANGED <<launch, named, inflight, tc, ld, mm, sm, co>>
    BY DEF EpilogueSignal, memory
  <2>2. CASE HasLoadEpi
    BY <1>1, <2>1, <2>2, MovesArrive DEF EpilogueSignal
  <2>3. CASE ~HasLoadEpi
    <3>1. e = [ep EXCEPT !.pc = "tile", !.tile = u]
      BY <1>1, <2>3 DEF EpilogueRegisters
    <3>2. bar' = bar
      BY <2>3 DEF EpilogueSignal
    <3> QED BY <1>1, <2>1, <2>3, <3>1, <3>2, MovesNone DEF EpilogueSignal
  <2> QED BY <2>2, <2>3
<1>4. x \in {0, 1} /\ (HasLoadEpi => x = u % 2)
  <2> DEFINE y == ep.ld
  <2>1. y \in {0, 1} /\ (HasLoadEpi => y = t % 2) /\ x = IF HasLoadEpi THEN 1 - y ELSE y
    BY <1>1 DEF OTile
  <2> HIDE DEF x, y, t, u
  <2> QED BY <1>1, <1>2, <2>1
<1> HIDE DEF x, u
<1>5. e.pc = "tile" /\ e.tile = u /\ e.epi = ep.epi /\ e.ld = x /\ EpilogueRegisters(e)
  BY <1>1, <1>2, <1>4 DEF EpilogueRegisters
<1> HIDE DEF e
<1>6. OStored(e) = t
  <2>1. OStored(e) = u - 1 + 0
    BY <1>5 DEF OStored, If
  <2> HIDE DEF t
  <2> QED BY <1>1, <1>2, <2>1
<1>7. /\ bar'[EpiFull] = bar[EpiFull] /\ bar'[Reduce] = bar[Reduce] /\ bar'[EpiEmpty] = bar[EpiEmpty]
      /\ bar'[LoadEpiEmpty] = bar[LoadEpiEmpty] /\ Expected(LoadEpiFull) = 1
      /\ HasLoadEpi => bar'[LoadEpiFull] = Arrived(LoadEpiFull)
  BY <1>3, BarNames, WarpBarNames DEF Moves, EpiFull, Reduce, EpiEmpty, LoadEpiFull, LoadEpiEmpty
<1>8. /\ Warps' = Warps /\ HasLoadEpi' = HasLoadEpi /\ TilesStored' = TilesStored /\ Reductions' = Reductions
  BY <1>3 DEF Warps, HasLoadEpi, AliasEpilogue, TilesStored, Reductions
<1>9. OTile'
  BY <1>1, <1>2, <1>3, <1>4, <1>5, <1>6, <1>7, <1>8 DEF OTile, EpilogueRegisters
<1>10. LoadEpiTurn'
  <2> SUFFICES ASSUME HasLoadEpi
               PROVE  /\ ld.tile <= u /\ u <= ld.tile + 1
                      /\ Phases(bar'[LoadEpiFull], u - 1) /\ Phases(bar'[LoadEpiEmpty], ld.tile - 1)
    BY <1>3, <1>5, <1>8 DEF LoadEpiTurn
  <2> DEFINE v == ld.tile
  <2>1. /\ v <= t /\ t <= v + 1 /\ v \in Nat
        /\ Phases(bar[LoadEpiFull], t - 1) /\ Phases(bar[LoadEpiEmpty], v - 1)
    BY <1>1 DEF LoadEpiTurn, LoadRole
  <2>2. v = t
    <3>1. Done(LoadEpiEmpty, t % 2)
      BY <1>1 DEF OTile, EpilogueSignal
    <3> HIDE DEF t, v
    <3>2. t - 1 + 1 = t /\ v - 1 \in Int /\ (v - 1 = t - 1 \/ v - 1 = t - 1 - 1)
      BY <1>1, <2>1
    <3>3. v - 1 = t - 1
      BY <1>2, <2>1, <3>1, <3>2, PhaseFree
    <3> QED BY <1>1, <2>1, <3>3
  <2>3. Phases(bar'[LoadEpiFull], t - 1 + 1)
    BY <1>2, <1>7, <2>1, PhaseArrive
  <2>4. t - 1 + 1 = u - 1 /\ v <= u /\ u <= v + 1
    <3> HIDE DEF t, v
    <3> QED BY <1>1, <1>2, <2>2
  <2> QED BY <1>7, <2>1, <2>3, <2>4
<1>11. bars \subseteq {EpiEmpty, LoadEpiFull}
  OBVIOUS
<1> HIDE DEF bars
<1> QED BY <1>3, <1>9, <1>10, <1>11, EpilogueTurn

LEMMA EpilogueStep ==
    ASSUME NEW st, Control(st), Epilogue
    PROVE  Control(st)'
BY EpilogueStoreStep, EpilogueSignalStep DEF Epilogue

-----------------------------------------------------------------------------
(* The MMA warp.                                                            *)

\* A queue q whose points are st, the last of them P.
Chain(l, st, q, P) ==
    /\ st \in Seq(Point) /\ Len(st) = Len(q) + 1 /\ st[Len(st)] = P
    /\ \A x \in 1 .. Len(q) : Step(l, st[x], q[x], st[x + 1])
    /\ \A x, y \in 1 .. Len(st) : x <= y => Ahead(st[x], st[y])

LEMMA QueueChain ==
    ASSUME NEW st
    PROVE  Queue(st) <=> Chain(launch, st, tc, Issued(launch, mm))
  BY DEF Queue, Chain

LEMMA AheadOf ==
    ASSUME NEW P \in Point, NEW P2 \in Point, NEW P3 \in Point, Ahead(P, P2), Ahead(P2, P3)
    PROVE  Ahead(P, P3) /\ Ahead(P3, P3)
  BY DEF Ahead, Point

LEMMA ChainAppend ==
    ASSUME NEW l, NEW st, NEW q \in Seq(Operation), NEW P, Chain(l, st, q, P), NEW P2 \in Point, NEW op,
           Step(l, P, op, P2), Ahead(P, P2)
    PROVE  Chain(l, Append(st, P2), Append(q, op), P2) /\ Append(st, P2)[1] = st[1]
<1> DEFINE s == Append(st, P2)
           r == Append(q, op)
           n == Len(q)
<1>1. n \in Nat /\ st \in Seq(Point) /\ Len(st) = n + 1 /\ st[n + 1] = P /\ \A x \in 1 .. n + 1 : st[x] \in Point
  BY DEF Chain
<1>2. s \in Seq(Point) /\ Len(s) = n + 2 /\ s[n + 2] = P2 /\ \A x \in 1 .. n + 1 : s[x] = st[x]
  BY <1>1
<1>3. Len(r) = n + 1 /\ r[n + 1] = op /\ \A x \in 1 .. n : r[x] = q[x]
  BY <1>1
<1>4. /\ \A x \in 1 .. n : Step(l, st[x], q[x], st[x + 1])
      /\ \A x, y \in 1 .. n + 1 : x <= y => Ahead(st[x], st[y])
  BY <1>1 DEF Chain
<1>5. \A x \in 1 .. n + 1 : Step(l, s[x], r[x], s[x + 1])
  <2> SUFFICES ASSUME NEW x \in 1 .. n + 1 PROVE Step(l, s[x], r[x], s[x + 1])
    OBVIOUS
  <2>1. CASE x = n + 1
    <3>1. x + 1 = n + 2 /\ x \in 1 .. n + 1
      BY <1>1, <2>1
    <3> HIDE DEF s, r, n
    <3> QED BY <1>1, <1>2, <1>3, <2>1, <3>1
  <2>2. CASE x # n + 1
    <3>1. x \in 1 .. n /\ x + 1 \in 1 .. n + 1
      BY <1>1, <2>2
    <3> HIDE DEF s, r, n
    <3> QED BY <1>2, <1>3, <1>4, <3>1
  <2> QED BY <2>1, <2>2
<1>6. \A x, y \in 1 .. n + 2 : x <= y => Ahead(s[x], s[y])
  <2> SUFFICES ASSUME NEW x \in 1 .. n + 2, NEW y \in 1 .. n + 2, x <= y PROVE Ahead(s[x], s[y])
    OBVIOUS
  <2>1. Ahead(P2, P2) /\ \A z \in 1 .. n + 1 : Ahead(st[z], P2)
    <3> SUFFICES ASSUME NEW z \in 1 .. n + 1 PROVE Ahead(P2, P2) /\ Ahead(st[z], P2)
      <4>1. 1 \in 1 .. n + 1
        BY <1>1
      <4> QED BY <4>1
    <3>1. n + 1 \in 1 .. n + 1 /\ z <= n + 1
      BY <1>1
    <3>2. Ahead(st[z], P) /\ st[z] \in Point /\ P \in Point
      <4> HIDE DEF n
      <4> QED BY <1>1, <1>4, <3>1
    <3> QED BY <3>2, AheadOf
  <2>2. CASE y = n + 2 /\ x = n + 2
    BY <1>2, <2>1, <2>2
  <2>3. CASE y = n + 2 /\ x # n + 2
    <3>1. x \in 1 .. n + 1
      BY <1>1, <2>3
    <3> HIDE DEF s, n
    <3> QED BY <1>2, <2>1, <2>3, <3>1
  <2>4. CASE y # n + 2
    <3>1. x \in 1 .. n + 1 /\ y \in 1 .. n + 1
      BY <1>1, <2>4
    <3> HIDE DEF s, n
    <3> QED BY <1>2, <1>4, <3>1
  <2> QED BY <2>2, <2>3, <2>4
<1>7. n + 2 = n + 1 + 1 /\ 1 \in 1 .. n + 1
  BY <1>1
<1> HIDE DEF s, r, n
<1>8. Chain(l, s, r, P2)
  BY <1>2, <1>3, <1>5, <1>6, <1>7 DEF Chain
<1>9. s[1] = st[1]
  BY <1>2, <1>7
<1> QED BY <1>8, <1>9 DEF s, r

\* No step of the MMA warp arrives anywhere: its operations do.
LEMMA MmaTurn ==
    ASSUME NEW st, Control(st), UNCHANGED <<launch, bar, named, inflight, ld, sm, co, ep>>,
           tc' \in Seq(Operation), MmaRole', NEW s, Queue(s)', s[1] = st[1],
           mm'.kv <= KvLoads(ld), QTaken(launch, mm') <= QLoads(launch, ld), InFlight',
           \A g \in Stage, w \in Warps :
               /\ OnStage(Issued(launch, mm').pv2, g) <= Stored(launch, sm[g][w])
               /\ PTaken(launch, mm', g) <= Announced(launch, sm[g][w])
               /\ PTaken(launch, mm', g) <= Lets(launch, co[w], g)
    PROVE  Control(s)'
<1>1. Registers /\ DOMAIN bar = BarId
  BY DEF Control, Registers
<1>2. \A names : Still(names)
  BY <1>1, StillSame
<1>3. Registers' /\ LoadRole' /\ Corrections'
  BY <1>1, LoadFrame, CorrectionFrame DEF Control, Registers
<1>4. KvRing(s[1])' /\ QTile(s[1])'
  BY <1>2, KvFrame, QFrame DEF Control
<1>5. ByTensorCore(s[1])' /\ Statistics' /\ ODone(s[1])' /\ OTile' /\ LoadEpiTurn'
  BY <1>2, CoreFrame, StatFrame, ODoneFrame, OTileFrame, TurnFrame DEF Control
<1>6. Warps' = Warps /\ Participants' = Participants
  BY DEF Warps, Participants
<1>7. Scores2P(s[1])'
  <2>1. Scores2P(s[1])
    BY DEF Control
  <2>2. \A g : Stores(g)' = Stores(g)
    BY <1>6 DEF Stores
  <2>3. \A x : SoftmaxRole(x)' = SoftmaxRole(x)
    BY DEF SoftmaxRole
  <2> QED BY <1>6, <2>1, <2>2, <2>3 DEF Scores2P
<1>8. OFree'
  <2>1. OFree
    BY DEF Control
  <2>2. \A g : Frees(g)' = Frees(g)
    BY <1>6 DEF Frees
  <2> QED BY <1>6, <2>1, <2>2 DEF OFree
<1> QED BY <1>3, <1>4, <1>5, <1>7, <1>8 DEF Control

\* The copies that are not on their way any more.
LEMMA FlightTaken ==
    ASSUME NEW st, Control(st), UNCHANGED <<launch, inflight, ld>>,
           \/ mm'.kv = mm.kv
           \/ mm'.kv = mm.kv + 1 /\ Flying(mm.kv) = 0,
           \/ QTaken(launch, mm') = QTaken(launch, mm)
           \/ ~QFlying
    PROVE  InFlight'
<1>1. InFlight /\ mm.kv \in Nat /\ KvLoads(ld) \in Nat
  BY LoadSees DEF Control
<1>2. (\A l, i : KvCopy(l, i)' = KvCopy(l, i)) /\ \A t : QCopy(t)' = QCopy(t)
  BY DEF KvCopy, QCopy
<1> SUFFICES ASSUME NEW c \in inflight
             PROVE  \/ \E i \in mm'.kv .. KvLoads(ld) - 1 : c = KvCopy(launch, i)
                    \/ /\ QLoads(launch, ld) > QTaken(launch, mm')
                       /\ \E t \in 1 .. Len(launch.work) :
                            c = QCopy(t) /\ Half(launch, t) > 0 /\ Works(launch, t) + 1 = QLoads(launch, ld)
  BY <1>2 DEF InFlight
<1>3. CASE c.to = "Q"
  <2>1. QFlying
    BY <1>3 DEF QFlying
  <2> QED BY <1>1, <1>3, <2>1 DEF InFlight, KvCopy
<1>4. CASE c.to # "Q"
  <2>1. PICK i \in mm.kv .. KvLoads(ld) - 1 : c = KvCopy(launch, i)
    BY <1>1, <1>4 DEF InFlight, QCopy
  <2>2. CASE mm'.kv = mm.kv
    BY <2>1, <2>2
  <2>3. CASE mm'.kv = mm.kv + 1 /\ Flying(mm.kv) = 0
    <3>1. i # mm.kv
      <4>1. i >= 0 /\ KvCopy(launch, i) \in inflight
        BY <1>1, <2>1
      <4> QED BY <2>3, <4>1 DEF Flying, If
    <3>2. i \in mm'.kv .. KvLoads(ld) - 1
      BY <1>1, <2>1, <2>3, <3>1
    <3> QED BY <2>1, <3>2
  <2> QED BY <2>2, <2>3
<1> QED BY <1>3, <1>4

\* The K/V item it waits for is there.
LEMMA KvWait ==
    ASSUME NEW st, Control(st), Done(KvFull(IndexOf(mm.kv)), PhaseOf(mm.kv))
    PROVE  mm.kv + 1 <= KvLoads(ld) /\ Flying(mm.kv) = 0
<1>0. PICK k, K : k = mm.kv /\ K = KvLoads(ld)
  OBVIOUS
<1>1. KvRing(st[1]) /\ InFlight /\ k \in Nat /\ K \in Nat /\ k <= K /\ K <= k + 3
  BY <1>0, LoadSees DEF Control
<1>2. \A i \in K .. K + 2 : Phases(bar[KvFull(IndexOf(i))], (i \div 3) - Flying(i - 3))
  BY <1>0, <1>1 DEF KvRing, KvStages
<1>3. bar[KvFull(IndexOf(k))].par # (k \div 3) % 2
  BY <1>0 DEF Done, PhaseOf, KvStages
<1>4. K # k
  <2> SUFFICES ASSUME K = k PROVE FALSE
    OBVIOUS
  <2>1. Flying(k - 3) = 0
    <3> SUFFICES ASSUME k - 3 >= 0, KvCopy(launch, k - 3) \in inflight PROVE FALSE
      BY DEF Flying, If
    <3>1. \E i \in k .. K - 1 : TRUE
      BY <1>0, <1>1 DEF InFlight, KvCopy, QCopy
    <3> QED BY <1>1, <3>1
  <2>2. Phases(bar[KvFull(IndexOf(k))], (k \div 3) - 0)
    BY <1>1, <1>2, <2>1
  <2>3. (k \div 3) - 0 = k \div 3
    BY <1>1
  <2> QED BY <1>3, <2>2, <2>3 DEF Phases
<1>5. Flying(k) = 0
  <2> SUFFICES ASSUME Flying(k) = 1 PROVE FALSE
    BY <1>1, RingOne
  <2>1. PICK i : i = k + 3
    OBVIOUS
  <2>2. i \in K .. K + 2 /\ i - 3 = k /\ IndexOf(i) = IndexOf(k) /\ (i \div 3) - 1 = k \div 3
    BY <1>1, <1>4, <2>1, Ring
  <2>3. Phases(bar[KvFull(IndexOf(i))], (i \div 3) - Flying(i - 3))
    BY <1>2, <2>2
  <2>4. Phases(bar[KvFull(IndexOf(k))], k \div 3)
    BY <2>2, <2>3
  <2> QED BY <1>3, <2>4 DEF Phases
<1> QED BY <1>0, <1>1, <1>4, <1>5

\* The Q tile it waits for is there.
LEMMA QWait ==
    ASSUME NEW st, Control(st), Done(QFull, mm.q)
    PROVE  QLoads(launch, ld) = QTaken(launch, mm) + 1 /\ ~QFlying
<1> DEFINE q == QTaken(launch, mm)
           k == QLoads(launch, ld)
<1>1. /\ QTile(st[1]) /\ InFlight /\ q \in Nat /\ k \in Nat /\ q <= k /\ k <= q + 1 /\ mm.q = q % 2
  <2>1. /\ QTile(st[1]) /\ InFlight /\ q \in Nat /\ k \in Nat /\ q <= k /\ k <= st[1].rel + 1
        /\ st[1].rel \in Nat /\ st[1].rel <= q /\ mm.q = q % 2
    BY LoadSees DEF Control, MmaRole
  <2> HIDE DEF q, k
  <2> QED BY <2>1
<1>2. Phases(bar[QFull], k - If(QFlying))
  BY <1>1 DEF QTile
<1>3. k = q => ~QFlying
  <2> SUFFICES ASSUME k = q, QFlying PROVE FALSE
    OBVIOUS
  <2>1. k > q
    BY <1>1 DEF InFlight, KvCopy, QFlying
  <2> HIDE DEF k, q
  <2> QED BY <1>1, <2>1
<1>4. ~QFlying /\ k # q
  <2>1. CASE QFlying
    <3>1. k = q + 1
      <4>1. k # q
        BY <1>3, <2>1
      <4> HIDE DEF k, q
      <4> QED BY <1>1, <4>1
    <3>2. k - If(QFlying) = q
      <4>1. If(QFlying) = 1
        BY <2>1 DEF If
      <4> HIDE DEF k, q
      <4> QED BY <1>1, <3>1, <4>1
    <3>3. Phases(bar[QFull], q)
      BY <1>2, <3>2
    <3> QED BY <1>1, <3>3 DEF Phases, Done
  <2>2. CASE ~QFlying /\ k = q
    <3>1. k - If(QFlying) = q
      <4>1. If(QFlying) = 0
        BY <2>2 DEF If
      <4> HIDE DEF k, q
      <4> QED BY <1>1, <2>2, <4>1
    <3>3. Phases(bar[QFull], q)
      BY <1>2, <3>1, Zenon
    <3> QED BY <1>1, <3>3 DEF Phases, Done
  <2> QED BY <2>1, <2>2
<1>5. k = q + 1
  <2>1. k # q
    BY <1>4
  <2> HIDE DEF k, q
  <2> QED BY <1>1, <2>1
<1> QED BY <1>4, <1>5

\* The operations that the program issues, from point to point.
LEMMA AtPoint ==
    ASSUME NEW l \in Launches, NEW t \in 1 .. Len(l.work) + 1,
           NEW q \in Nat, NEW u \in Nat, NEW v \in Nat, NEW r \in Nat, NEW x \in Nat
    PROVE  At(l, t, q, u, v, r, x) \in Point /\ Steps(l, t) \in Nat /\ Works(l, t) \in Nat
<1>1. Steps(l, t) \in Nat /\ Works(l, t) \in Nat
  BY TileCounts
<1>2. /\ 2 * Steps(l, t) + q \in Nat /\ 2 * Steps(l, t) + u \in Nat /\ 2 * Steps(l, t) + v \in Nat
      /\ Works(l, t) + r \in Nat /\ 2 * Works(l, t) + x \in Nat
  <2> DEFINE s == Steps(l, t)
             w == Works(l, t)
  <2>1. s \in Nat /\ w \in Nat
    BY <1>1
  <2> HIDE DEF s, w
  <2>2. 2 * s + q \in Nat /\ 2 * s + u \in Nat /\ 2 * s + v \in Nat /\ w + r \in Nat /\ 2 * w + x \in Nat
    BY <2>1
  <2> QED BY <2>2 DEF s, w
<1> QED BY <1>1, <1>2 DEF At, Point

LEMMA PointFacts ==
    ASSUME NEW P \in Point
    PROVE  /\ P.qk \in Nat /\ P.pv1 \in Nat /\ P.pv2 \in Nat /\ P.rel \in Nat /\ P.last \in Nat
           /\ P.qk % 2 \in Stage /\ P.pv2 % 2 \in Stage /\ Slots(P) \in Int
<1>1. P.qk \in Nat /\ P.pv1 \in Nat /\ P.pv2 \in Nat /\ P.rel \in Nat /\ P.last \in Nat
  BY DEF Point
<1> QED BY <1>1 DEF Stage, Slots

Issues(l, P, op, P2) == Step(l, P, op, P2) /\ Ahead(P, P2) /\ P2 \in Point /\ op \in Operation

LEMMA QKAt ==
    ASSUME NEW l \in Launches, NEW t \in 1 .. Len(l.work), Half(l, t) > 0,
           NEW q \in Nat, NEW u \in Nat, NEW v \in Nat, NEW r \in Nat, NEW x \in Nat,
           InQK(2 * Half(l, t), q, u, v, r, x)
    PROVE  LET P == At(l, t, q, u, v, r, x) IN
           Issues(l, P, Op("QK", P.qk % 2, IndexOf(Slots(P)), FALSE,
                           {SpoFull(P.qk % 2), KvEmpty(IndexOf(Slots(P)))}), At(l, t, q + 1, u, v, r, x))
<1> DEFINE P == At(l, t, q, u, v, r, x)
           P2 == At(l, t, q + 1, u, v, r, x)
           op == Op("QK", P.qk % 2, IndexOf(Slots(P)), FALSE, {SpoFull(P.qk % 2), KvEmpty(IndexOf(Slots(P)))})
           s == Steps(l, t)
<1>1. t \in 1 .. Len(l.work) + 1 /\ q + 1 \in Nat
  BY LaunchFacts
<1>2. P \in Point /\ P2 \in Point /\ P.qk = 2 * s + q /\ P2.qk = 2 * s + (q + 1) /\ s \in Nat
  <2>0. P2 \in Point
    BY <1>1, AtPoint
  <2>1. P \in Point /\ P2 \in Point /\ s \in Nat
    BY <1>1, <2>0, AtPoint
  <2>2. P.qk = 2 * s + q /\ P2.qk = 2 * s + (q + 1)
    BY DEF At
  <2> QED BY <2>1, <2>2
<1>3. P2.qk = P.qk + 1
  <2>1. P.qk \in Nat
    BY <1>2, PointFacts
  <2> HIDE DEF s, P, P2
  <2> QED BY <1>2, <2>1
<1>4. P2 = [P EXCEPT !.qk = P.qk + 1]
  BY <1>3 DEF At
<1>5. Ahead(P, P2)
  <2>1. P2.pv1 = P.pv1 /\ P2.pv2 = P.pv2 /\ P2.rel = P.rel /\ P2.last = P.last
    BY DEF At
  <2>2. P.qk \in Nat /\ P.pv1 \in Nat /\ P.pv2 \in Nat /\ P.rel \in Nat /\ P.last \in Nat
    BY <1>2, PointFacts
  <2>3. P.qk <= P2.qk
    <3> HIDE DEF P, P2
    <3> QED BY <1>3, <2>2
  <2> HIDE DEF P, P2
  <2> QED BY <2>1, <2>2, <2>3 DEF Ahead
<1>6. op \in Operation
  <2>1. P.qk % 2 \in Stage /\ Slots(P) \in Int
    BY <1>2, PointFacts
  <2> DEFINE g == P.qk % 2
             i == IndexOf(Slots(P))
  <2>2. g \in Stage /\ i \in Slot
    BY <2>1, Ring
  <2> HIDE DEF g, i
  <2> QED BY <2>2, BarNames DEF Op, Operation, g, i
<1>7. Step(l, P, op, P2)
  <2>1. QKStep(P, op, P2)
    <3> HIDE DEF P, P2
    <3> QED BY <1>4 DEF QKStep
  <2>2. StepIn(l, t, q, u, v, r, x, P, op, P2)
    BY <2>1 DEF StepIn
  <2> QED BY <2>2 DEF Step
<1> QED BY <1>2, <1>5, <1>6, <1>7 DEF Issues

LEMMA ReleaseAt ==
    ASSUME NEW l \in Launches, NEW t \in 1 .. Len(l.work), Half(l, t) > 0,
           NEW q \in Nat, NEW u \in Nat, NEW v \in Nat, NEW r \in Nat, NEW x \in Nat,
           InRelease(2 * Half(l, t), q, u, v, r, x)
    PROVE  Issues(l, At(l, t, q, u, v, r, x), Op("none", 0, 0, FALSE, {QEmpty}), At(l, t, q, u, v, r + 1, x))
<1> DEFINE P == At(l, t, q, u, v, r, x)
           P2 == At(l, t, q, u, v, r + 1, x)
           op == Op("none", 0, 0, FALSE, {QEmpty})
           w == Works(l, t)
<1>1. t \in 1 .. Len(l.work) + 1 /\ r + 1 \in Nat
  BY LaunchFacts
<1>2. P \in Point /\ P2 \in Point /\ P.rel = w + r /\ P2.rel = w + (r + 1) /\ w \in Nat
  <2>0. P2 \in Point
    BY <1>1, AtPoint
  <2>1. P \in Point /\ P2 \in Point /\ w \in Nat
    BY <1>1, <2>0, AtPoint
  <2>2. P.rel = w + r /\ P2.rel = w + (r + 1)
    BY DEF At
  <2> QED BY <2>1, <2>2
<1>3. P2.rel = P.rel + 1
  <2>1. P.rel \in Nat
    BY <1>2, PointFacts
  <2> HIDE DEF w, P, P2
  <2> QED BY <1>2, <2>1
<1>4. P2 = [P EXCEPT !.rel = P.rel + 1]
  BY <1>3 DEF At
<1>5. Ahead(P, P2)
  <2>1. P2.qk = P.qk /\ P2.pv1 = P.pv1 /\ P2.pv2 = P.pv2 /\ P2.last = P.last
    BY DEF At
  <2>2. P.qk \in Nat /\ P.pv1 \in Nat /\ P.pv2 \in Nat /\ P.rel \in Nat /\ P.last \in Nat
    BY <1>2, PointFacts
  <2>3. P.rel <= P2.rel
    <3> HIDE DEF P, P2
    <3> QED BY <1>3, <2>2
  <2> HIDE DEF P, P2
  <2> QED BY <2>1, <2>2, <2>3 DEF Ahead
<1>6. op \in Operation
  BY BarNames DEF Op, Operation, Stage, Slot, KvStages
<1>7. Step(l, P, op, P2)
  <2>1. ReleaseStep(P, op, P2)
    <3> HIDE DEF P, P2
    <3> QED BY <1>4 DEF ReleaseStep
  <2>2. StepIn(l, t, q, u, v, r, x, P, op, P2)
    BY <2>1 DEF StepIn
  <2> QED BY <2>2 DEF Step
<1> QED BY <1>2, <1>5, <1>6, <1>7 DEF Issues

LEMMA PV1At ==
    ASSUME NEW l \in Launches, NEW t \in 1 .. Len(l.work), Half(l, t) > 0,
           NEW q \in Nat, NEW v \in Nat, NEW r \in Nat, NEW x \in Nat,
           InPV(2 * Half(l, t), q, v, r, x)
    PROVE  LET P == At(l, t, q, v, v, r, x) IN
           Issues(l, P, Op("PV1", P.pv2 % 2, IndexOf(Slots(P)), v < 2, {}), At(l, t, q, v + 1, v, r, x))
<1> DEFINE P == At(l, t, q, v, v, r, x)
           P2 == At(l, t, q, v + 1, v, r, x)
           op == Op("PV1", P.pv2 % 2, IndexOf(Slots(P)), v < 2, {})
           s == Steps(l, t)
<1>1. t \in 1 .. Len(l.work) + 1 /\ v + 1 \in Nat
  BY LaunchFacts
<1>2. P \in Point /\ P2 \in Point /\ P.pv1 = 2 * s + v /\ P2.pv1 = 2 * s + (v + 1) /\ s \in Nat
  <2>1. P \in Point /\ P2 \in Point /\ s \in Nat
    BY <1>1, AtPoint
  <2>2. P.pv1 = 2 * s + v /\ P2.pv1 = 2 * s + (v + 1)
    BY DEF At
  <2> QED BY <2>1, <2>2
<1>3. P2.pv1 = P.pv1 + 1
  <2>1. P.pv1 \in Nat
    BY <1>2, PointFacts
  <2> HIDE DEF s, P, P2
  <2> QED BY <1>2, <2>1
<1>4. P2 = [P EXCEPT !.pv1 = P.pv1 + 1]
  BY <1>3 DEF At
<1>5. Ahead(P, P2)
  <2>1. P2.qk = P.qk /\ P2.pv2 = P.pv2 /\ P2.rel = P.rel /\ P2.last = P.last
    BY DEF At
  <2>2. P.qk \in Nat /\ P.pv1 \in Nat /\ P.pv2 \in Nat /\ P.rel \in Nat /\ P.last \in Nat
    BY <1>2, PointFacts
  <2>3. P.pv1 <= P2.pv1
    <3> HIDE DEF P, P2
    <3> QED BY <1>3, <2>2
  <2> HIDE DEF P, P2
  <2> QED BY <2>1, <2>2, <2>3 DEF Ahead
<1>6. op \in Operation
  <2>1. P.pv2 % 2 \in Stage /\ Slots(P) \in Int
    BY <1>2, PointFacts
  <2> DEFINE g == P.pv2 % 2
             i == IndexOf(Slots(P))
  <2>2. g \in Stage /\ i \in Slot
    BY <2>1, Ring
  <2> HIDE DEF g, i
  <2> QED BY <2>2 DEF Op, Operation, g, i
<1>7. Step(l, P, op, P2)
  <2>1. PV1Step(P, op, P2, v < 2)
    <3> HIDE DEF P, P2
    <3> QED BY <1>4 DEF PV1Step
  <2>2. StepIn(l, t, q, v, v, r, x, P, op, P2)
    BY <2>1 DEF StepIn
  <2> QED BY <2>2 DEF Step
<1> QED BY <1>2, <1>5, <1>6, <1>7 DEF Issues

LEMMA PV2At ==
    ASSUME NEW l \in Launches, NEW t \in 1 .. Len(l.work), Half(l, t) > 0,
           NEW q \in Nat, NEW v \in Nat, NEW r \in Nat, NEW x \in Nat, NEW last \in BOOLEAN,
           InPV(2 * Half(l, t), q, v, r, x), last <=> v >= 2 * Half(l, t) - 2
    PROVE  LET P == At(l, t, q, v + 1, v, r, x) IN
           Issues(l, P, Op("PV2", P.pv2 % 2, IndexOf(Slots(P)), FALSE,
                           {KvEmpty(IndexOf(Slots(P)))} \cup (IF last THEN {OAcc(P.pv2 % 2)} ELSE {})),
                  At(l, t, q, v + 1, v + 1, r, x + If(last)))
<1> DEFINE P == At(l, t, q, v + 1, v, r, x)
           y == If(last)
           P2 == At(l, t, q, v + 1, v + 1, r, x + y)
           op == Op("PV2", P.pv2 % 2, IndexOf(Slots(P)), FALSE,
                    {KvEmpty(IndexOf(Slots(P)))} \cup (IF last THEN {OAcc(P.pv2 % 2)} ELSE {}))
           s == Steps(l, t)
           w == Works(l, t)
<1>1. t \in 1 .. Len(l.work) + 1 /\ v + 1 \in Nat /\ y \in {0, 1} /\ x + y \in Nat
  BY LaunchFacts DEF If
<1> HIDE DEF y
<1>2. P \in Point /\ P2 \in Point /\ P.pv2 = 2 * s + v /\ P.last = 2 * w + x /\ P2.pv2 = 2 * s + (v + 1) /\ P2.last = 2 * w + (x + y) /\ s \in Nat /\ w \in Nat
  <2>0. P2 \in Point
    <3> DEFINE z == x + y
    <3>1. z \in Nat
      BY <1>1
    <3> HIDE DEF z
    <3>2. At(l, t, q, v + 1, v + 1, r, z) \in Point
      BY <1>1, <3>1, AtPoint
    <3> QED BY <3>2 DEF z
  <2>3. P \in Point
    BY <1>1, AtPoint
  <2>1. P \in Point /\ P2 \in Point /\ s \in Nat /\ w \in Nat
    BY <1>1, <2>0, <2>3, TileCounts
  <2>2. P.pv2 = 2 * s + v /\ P.last = 2 * w + x /\ P2.pv2 = 2 * s + (v + 1) /\ P2.last = 2 * w + (x + y)
    BY DEF At
  <2> QED BY <2>1, <2>2
<1>3. P2.pv2 = P.pv2 + 1 /\ P2.last = P.last + y
  <2> HIDE DEF s, w, P, P2
  <2> QED BY <1>1, <1>2
<1>4. P2 = [P EXCEPT !.pv2 = P.pv2 + 1, !.last = P.last + y]
  <2> DEFINE a == P2.pv2
             b == P2.last
  <2>1. a = P.pv2 + 1 /\ b = P.last + y
    BY <1>3
  <2>2. P2 = [P EXCEPT !.pv2 = a, !.last = b]
    <3> DEFINE c == 2 * s + (v + 1)
               d == 2 * w + (x + y)
               h == 2 * s + v
               m == 2 * w + x
               z == Works(l, t) + r
               f == 2 * Steps(l, t) + q
               y1 == 2 * Steps(l, t) + (v + 1)
    <3>1. a = c /\ b = d
      BY <1>2
    <3>2. P = [qk |-> f, pv1 |-> y1, pv2 |-> h, rel |-> z, last |-> m]
      BY DEF At
    <3>3. P2 = [qk |-> f, pv1 |-> y1, pv2 |-> c, rel |-> z, last |-> d]
      BY DEF At
    <3> HIDE DEF a, b, c, d, h, m, z, f, y1, P, P2
    <3> DEFINE R == [P EXCEPT !.pv2 = a]
    <3>4. R = [qk |-> f, pv1 |-> y1, pv2 |-> a, rel |-> z, last |-> m]
      BY <3>2
    <3>5. [P EXCEPT !.pv2 = a, !.last = b] = [R EXCEPT !.last = b]
      BY <3>2
    <3> HIDE DEF R
    <3>6. [R EXCEPT !.last = b] = [qk |-> f, pv1 |-> y1, pv2 |-> a, rel |-> z, last |-> b]
      BY <3>4
    <3> QED BY <3>1, <3>3, <3>5, <3>6
  <2> HIDE DEF a, b, P, P2
  <2> QED BY <2>1, <2>2
<1>5. Ahead(P, P2)
  <2>1. P2.qk = P.qk /\ P2.pv1 = P.pv1 /\ P2.rel = P.rel
    BY DEF At
  <2>2. P.qk \in Nat /\ P.pv1 \in Nat /\ P.pv2 \in Nat /\ P.rel \in Nat /\ P.last \in Nat
    BY <1>2, PointFacts
  <2>3. P.pv2 <= P2.pv2 /\ P.last <= P2.last
    <3> HIDE DEF P, P2
    <3> QED BY <1>1, <1>3, <2>2
  <2> HIDE DEF P, P2
  <2> QED BY <2>1, <2>2, <2>3 DEF Ahead
<1>6. op \in Operation
  <2>1. P.pv2 % 2 \in Stage /\ Slots(P) \in Int
    BY <1>2, PointFacts
  <2> DEFINE g == P.pv2 % 2
             i == IndexOf(Slots(P))
  <2>2. g \in Stage /\ i \in Slot
    BY <2>1, Ring
  <2> HIDE DEF g, i
  <2> QED BY <2>2, BarNames DEF Op, Operation, g, i
<1>7. Step(l, P, op, P2)
  <2>1. PV2Step(P, op, P2, last)
    <3> HIDE DEF P, P2
    <3> QED BY <1>4 DEF PV2Step, y
  <2>2. PV2Step(P, op, P2, v >= 2 * Half(l, t) - 2)
    <3>1. last = (v >= 2 * Half(l, t) - 2)
      OBVIOUS
    <3> QED BY <2>1, <3>1
  <2>3. StepIn(l, t, q, v + 1, v, r, x, P, op, P2)
    BY <2>2 DEF StepIn
  <2> QED BY <1>1, <2>3 DEF Step
<1> QED BY <1>2, <1>5, <1>6, <1>7 DEF Issues, y

MmaRegisters(m) ==
    m \in [pc : {"tile", "s", "spo", "v", "pv", "k", "done"}, tile : Nat, j : Nat, kv : Nat,
           q : {0, 1}, v : Nat, spo : [Stage -> {0, 1}]]

LEMMA MmaSees ==
    ASSUME NEW st, Control(st)
    PROVE  /\ Registers /\ MmaRole /\ Queue(st) /\ InFlight /\ MmaRegisters(mm) /\ launch \in Launches
           /\ Len(launch.work) \in Nat /\ mm.tile \in 1 .. Len(launch.work) + 1 /\ mm.j \in Nat /\ mm.kv \in Nat
           /\ Steps(launch, mm.tile) \in Nat /\ Works(launch, mm.tile) \in Nat
           /\ Issued(launch, mm) \in Point /\ Issued(launch, mm).pv1 \in Nat /\ Issued(launch, mm).pv2 \in Nat
           /\ mm.kv = Issued(launch, mm).qk + Issued(launch, mm).pv1
           /\ mm.pc \notin {"tile", "done"} =>
                /\ mm.tile \in 1 .. Len(launch.work) /\ Half(launch, mm.tile) \in Nat
                /\ Half(launch, mm.tile) > 0 /\ N(mm.tile) = 2 * Half(launch, mm.tile)
<1>1. Registers /\ MmaRole /\ Queue(st) /\ InFlight
  BY DEF Control
<1>2. /\ launch \in Launches /\ Len(launch.work) \in Nat /\ mm.tile \in 1 .. Len(launch.work) + 1
      /\ mm.j \in Nat /\ mm.kv \in Nat /\ MmaRegisters(mm)
  BY <1>1, Tile DEF MmaRole, MmaRegisters
<1>3. Steps(launch, mm.tile) \in Nat /\ Works(launch, mm.tile) \in Nat
  BY <1>1, <1>2, Tile
<1>4. Issued(launch, mm) \in Point
  BY <1>1, QueueFacts
<1>5. mm.kv = Issued(launch, mm).qk + Issued(launch, mm).pv1
  BY <1>1 DEF MmaRole
<1>6. mm.pc \notin {"tile", "done"} =>
        /\ mm.tile \in 1 .. Len(launch.work) /\ Half(launch, mm.tile) \in Nat
        /\ Half(launch, mm.tile) > 0 /\ N(mm.tile) = 2 * Half(launch, mm.tile)
  <2> SUFFICES ASSUME mm.pc \notin {"tile", "done"}
               PROVE  /\ mm.tile \in 1 .. Len(launch.work) /\ Half(launch, mm.tile) \in Nat
                      /\ Half(launch, mm.tile) > 0 /\ N(mm.tile) = 2 * Half(launch, mm.tile)
    OBVIOUS
  <2>1. mm.tile <= Len(launch.work) /\ Half(launch, mm.tile) > 0
    BY <1>1 DEF MmaRole
  <2>2. mm.tile \in 1 .. Len(launch.work)
    BY <1>2, <2>1
  <2> QED BY <1>1, <2>1, <2>2, Tile
<1>7. Issued(launch, mm).pv1 \in Nat /\ Issued(launch, mm).pv2 \in Nat
  BY <1>4, PointFacts
<1> QED BY <1>1, <1>2, <1>3, <1>4, <1>5, <1>6, <1>7

\* It has issued no operation, one, or two.
LEMMA IssueNone ==
    ASSUME NEW st, Control(st), UNCHANGED <<launch, tc>>, Issued(launch, mm') = Issued(launch, mm)
    PROVE  Queue(st)' /\ tc' \in Seq(Operation)
<1>1. Queue(st) /\ tc \in Seq(Operation)
  BY DEF Control, Registers
<1> QED BY <1>1 DEF Queue

LEMMA IssueOne ==
    ASSUME NEW st, Control(st), UNCHANGED launch, NEW op, tc' = Append(tc, op), NEW P2,
           Issues(launch, Issued(launch, mm), op, P2), Issued(launch, mm') = P2
    PROVE  tc' \in Seq(Operation) /\ \E s : Queue(s)' /\ s[1] = st[1]
<1>1. Queue(st) /\ tc \in Seq(Operation)
  BY DEF Control, Registers
<1>2. PICK l, P, q, op1, P1 : l = launch /\ P = Issued(launch, mm) /\ q = tc /\ op1 = op /\ P1 = P2
  OBVIOUS
<1>3. Chain(l, st, q, P) /\ q \in Seq(Operation)
  BY <1>1, <1>2, QueueChain
<1>4. P1 \in Point /\ op1 \in Operation /\ Step(l, P, op1, P1) /\ Ahead(P, P1)
  BY <1>2 DEF Issues
<1>5. PICK s : s = Append(st, P1)
  OBVIOUS
<1>6. Chain(l, s, Append(q, op1), P1) /\ s[1] = st[1]
  BY <1>3, <1>4, <1>5, ChainAppend
<1>7. launch' = l /\ tc' = Append(q, op1) /\ Issued(launch', mm') = P1
  BY <1>2
<1>8. Queue(s)'
  BY <1>6, <1>7 DEF Queue, Chain
<1>9. tc' \in Seq(Operation)
  BY <1>3, <1>4, <1>7
<1> QED BY <1>6, <1>8, <1>9

LEMMA IssueTwo ==
    ASSUME NEW st, Control(st), UNCHANGED launch, NEW op, NEW op2, tc' = Append(Append(tc, op), op2),
           NEW P2, NEW P3, Issues(launch, Issued(launch, mm), op, P2), Issues(launch, P2, op2, P3),
           Issued(launch, mm') = P3
    PROVE  tc' \in Seq(Operation) /\ \E s : Queue(s)' /\ s[1] = st[1]
<1>1. Queue(st) /\ tc \in Seq(Operation)
  BY DEF Control, Registers
<1>2. PICK l, P, q, q1, o1, o2, P1, R :
        /\ l = launch /\ P = Issued(launch, mm) /\ q = tc /\ q1 = Append(tc, op)
        /\ o1 = op /\ P1 = P2 /\ o2 = op2 /\ R = P3
  OBVIOUS
<1>3. Chain(l, st, q, P) /\ q \in Seq(Operation)
  BY <1>1, <1>2, QueueChain
<1>4. /\ P1 \in Point /\ o1 \in Operation /\ Step(l, P, o1, P1) /\ Ahead(P, P1)
      /\ R \in Point /\ o2 \in Operation /\ Step(l, P1, o2, R) /\ Ahead(P1, R)
  BY <1>2 DEF Issues
<1>5. PICK s1, s : s1 = Append(st, P1) /\ s = Append(s1, R)
  OBVIOUS
<1>6. Chain(l, s1, q1, P1) /\ s1[1] = st[1]
  BY <1>2, <1>3, <1>4, <1>5, ChainAppend
<1>7. q1 \in Seq(Operation)
  BY <1>2, <1>3, <1>4
<1>8. Chain(l, s, Append(q1, o2), R) /\ s[1] = s1[1]
  BY <1>4, <1>5, <1>6, <1>7, ChainAppend
<1>9. launch' = l /\ tc' = Append(q1, o2) /\ Issued(launch', mm') = R
  BY <1>2
<1>10. Queue(s)'
  BY <1>8, <1>9 DEF Queue, Chain
<1>11. tc' \in Seq(Operation)
  BY <1>4, <1>7, <1>9
<1> QED BY <1>6, <1>8, <1>10, <1>11

\* What the counts of P say of the warps it waits for.
LEMMA MmaWaits ==
    ASSUME NEW st, Control(st), NEW g \in Stage, NEW w \in Warps
    PROVE  /\ OnStage(Issued(launch, mm).pv2, g) \in Nat /\ PTaken(launch, mm, g) \in Nat
           /\ Stored(launch, sm[g][w]) \in Nat /\ Announced(launch, sm[g][w]) \in Nat
           /\ OnStage(Issued(launch, mm).pv2, g) <= Stored(launch, sm[g][w])
           /\ PTaken(launch, mm, g) <= Announced(launch, sm[g][w])
           /\ Stored(launch, sm[g][w]) <= Announced(launch, sm[g][w])
           /\ Announced(launch, sm[g][w]) <= OnStage(Issued(launch, mm).pv2, g) + 1
           /\ Lets(launch, co[w], g) \in Nat /\ PTaken(launch, mm, g) <= Lets(launch, co[w], g)
<1>1. Registers /\ MmaRole /\ Queue(st) /\ Scores2P(st[1]) /\ OFree /\ Corrections
  BY DEF Control
<1>2. /\ SoftmaxRole(sm[g][w]) /\ Reads(launch, sm[g][w]) <= OnStage(st[1].qk, g)
      /\ OnStage(Issued(launch, mm).pv2, g) <= Stored(launch, sm[g][w])
      /\ PTaken(launch, mm, g) <= Announced(launch, sm[g][w])
  BY <1>1 DEF Scores2P
<1>3. /\ OnStage(st[1].qk, g) \in Nat /\ OnStage(Issued(launch, mm).qk, g) \in Nat
      /\ OnStage(st[1].qk, g) <= OnStage(Issued(launch, mm).qk, g)
      /\ OnStage(Issued(launch, mm).pv2, g) \in Nat /\ PTaken(launch, mm, g) \in Nat
      /\ OnStage(Issued(launch, mm).qk, g) <= OnStage(Issued(launch, mm).pv2, g) + 1
  BY <1>1, StageCounts
<1>4. /\ Stored(launch, sm[g][w]) \in Nat /\ Reads(launch, sm[g][w]) \in Nat /\ Announced(launch, sm[g][w]) \in Nat
      /\ Stored(launch, sm[g][w]) <= Announced(launch, sm[g][w])
      /\ Announced(launch, sm[g][w]) <= Reads(launch, sm[g][w])
  BY <1>1, <1>2, SoftmaxCounts
<1>5. Lets(launch, co[w], g) \in Nat /\ PTaken(launch, mm, g) <= Lets(launch, co[w], g)
  BY <1>1, CorrectionCounts DEF OFree, Corrections
<1>6. Announced(launch, sm[g][w]) <= OnStage(Issued(launch, mm).pv2, g) + 1
  BY <1>2, <1>3, <1>4
<1> QED BY <1>2, <1>3, <1>4, <1>5, <1>6

\* The first part of P is there and O is free: everyone has said so.
LEMMA SpoWait ==
    ASSUME NEW st, Control(st), NEW g \in Stage, NEW q \in Nat, Done(SpoEmpty(g), q % 2),
           PTaken(launch, mm, g) = q, OnStage(Issued(launch, mm).pv2, g) = q
    PROVE  \A w \in Warps : Announced(launch, sm[g][w]) >= q + 1 /\ Lets(launch, co[w], g) >= q + 1
<1> DEFINE A == Frees(g)
<1>1. AllOf(bar[SpoEmpty(g)], Participants, A) /\ Registers
  BY DEF Control, OFree
<1>2. /\ \A x \in Participants : x[1] \in {"softmax", "correction"} /\ x[2] \in Warps
      /\ \A w \in Warps : <<"softmax", w>> \in Participants /\ <<"correction", w>> \in Participants
  BY <1>1, ParticipantsTwice
<1>3. \A w \in Warps : A[<<"softmax", w>>] = Announced(launch, sm[g][w])
                       /\ A[<<"correction", w>>] = Lets(launch, co[w], g)
  BY <1>2 DEF Frees
<1>4. \A x \in Participants : A[x] = Announced(launch, sm[g][x[2]]) \/ A[x] = Lets(launch, co[x[2]], g)
  BY <1>2 DEF Frees
<1> HIDE DEF A
<1>5. \A w \in Warps : /\ Announced(launch, sm[g][w]) \in Nat /\ Announced(launch, sm[g][w]) >= q
                       /\ Announced(launch, sm[g][w]) <= q + 1
                       /\ Lets(launch, co[w], g) \in Nat /\ Lets(launch, co[w], g) >= q
  BY MmaWaits
<1>6. \A x \in Participants : A[x] \in Int /\ A[x] >= q
  BY <1>2, <1>4, <1>5
<1>7. \E x \in Participants : A[x] <= q + 1
  <2>1. PICK w : w \in Warps
    BY <1>1, Tile
  <2> QED BY <1>2, <1>3, <1>5, <2>1
<1>8. \A x \in Participants : A[x] >= q + 1
  BY <1>1, <1>6, <1>7, AllWait
<1> QED BY <1>2, <1>3, <1>8

\* The rest of P is there.
LEMMA PWait ==
    ASSUME NEW st, Control(st), NEW g \in Stage, NEW q \in Nat, Done(LastSplit(g), q % 2),
           OnStage(Issued(launch, mm).pv2, g) = q
    PROVE  \A w \in Warps : Stored(launch, sm[g][w]) >= q + 1
<1> DEFINE A == Stores(g)
<1>1. AllOf(bar[LastSplit(g)], Warps, A) /\ Registers
  BY DEF Control, Scores2P
<1>2. \A w \in Warps : A[w] = Stored(launch, sm[g][w])
  BY DEF Stores
<1> HIDE DEF A
<1>3. \A w \in Warps : /\ Stored(launch, sm[g][w]) \in Nat /\ Announced(launch, sm[g][w]) \in Nat
                       /\ Stored(launch, sm[g][w]) >= q
                       /\ Stored(launch, sm[g][w]) <= Announced(launch, sm[g][w])
                       /\ Announced(launch, sm[g][w]) <= q + 1
  BY MmaWaits
<1>4. \A w \in Warps : A[w] \in Int /\ A[w] >= q /\ A[w] <= q + 1
  BY <1>2, <1>3
<1>5. \E w \in Warps : A[w] <= q + 1
  BY <1>1, <1>4, Tile
<1>6. \A w \in Warps : A[w] >= q + 1
  BY <1>1, <1>4, <1>5, AllWait
<1> QED BY <1>2, <1>6

\* It waits for no P and issues no PV.
LEMMA MmaKeeps ==
    ASSUME NEW st, Control(st), NEW m, Issued(launch, m).pv1 = Issued(launch, mm).pv1,
           Issued(launch, m).pv2 = Issued(launch, mm).pv2, m.pc # "v", mm.pc # "v"
    PROVE  \A g \in Stage, w \in Warps :
               /\ OnStage(Issued(launch, m).pv2, g) <= Stored(launch, sm[g][w])
               /\ PTaken(launch, m, g) <= Announced(launch, sm[g][w])
               /\ PTaken(launch, m, g) <= Lets(launch, co[w], g)
<1>1. \A g : PTaken(launch, m, g) = PTaken(launch, mm, g)
  BY DEF PTaken, If
<1>2. \A g \in Stage, w \in Warps :
        /\ OnStage(Issued(launch, mm).pv2, g) <= Stored(launch, sm[g][w])
        /\ PTaken(launch, mm, g) <= Announced(launch, sm[g][w])
        /\ PTaken(launch, mm, g) <= Lets(launch, co[w], g)
  BY MmaWaits
<1> QED BY <1>1, <1>2


LEMMA MmaQStep ==
    ASSUME NEW st, Control(st), MmaQ
    PROVE  Control(st)'
<1> DEFINE t == mm.tile
           q == QTaken(launch, mm)
           x == 1 - mm.q
           m == [mm EXCEPT !.pc = "s", !.j = 0, !.q = x]
<1>1. /\ Registers /\ MmaRole /\ MmaRegisters(mm) /\ mm.kv \in Nat /\ launch \in Launches
      /\ mm.kv = Issued(launch, mm).qk + Issued(launch, mm).pv1
  BY MmaSees
<1>2. mm.pc = "tile" /\ t \in 1 .. Len(launch.work) /\ Half(launch, t) > 0 /\ Done(QFull, mm.q) /\ t <= Len(launch.work)
  BY <1>1, Tile DEF MmaQ
<1>3. UNCHANGED <<launch, bar, named, inflight, tc, ld, sm, co, ep>> /\ mm' = m
  BY DEF MmaQ
<1>4. QLoads(launch, ld) = q + 1 /\ ~QFlying /\ q \in Nat
  BY <1>2, QWait, LoadSees
<1>5. q = Works(launch, t) /\ mm.q = q % 2 /\ Works(launch, t) \in Nat
  <2>1. q = Works(launch, t) + 0 /\ mm.q = q % 2 /\ Works(launch, t) \in Nat
    BY <1>1, <1>2, MmaSees DEF QTaken, If, MmaRole
  <2> HIDE DEF q
  <2> QED BY <2>1
<1>6. x \in {0, 1} /\ x = (q + 1) % 2
  <2> DEFINE y == mm.q
  <2>1. y = q % 2 /\ x = 1 - y
    BY <1>5
  <2> HIDE DEF q, y, x
  <2> QED BY <1>4, <2>1
<1> HIDE DEF x
<1>7. /\ m.pc = "s" /\ m.tile = t /\ m.j = 0 /\ m.kv = mm.kv /\ m.q = x /\ m.spo = mm.spo /\ MmaRegisters(m)
  BY <1>1, <1>6 DEF MmaRegisters
<1> HIDE DEF m
<1>8. Issued(launch, m) = Issued(launch, mm)
  BY <1>2, <1>7 DEF Issued
<1>9. QTaken(launch, m) = q + 1
  <2>1. QTaken(launch, m) = Works(launch, t) + 1
    BY <1>7 DEF QTaken, If
  <2> HIDE DEF q
  <2> QED BY <1>5, <2>1
<1>10. MmaRole'
  <2>1. \A g \in Stage : m.spo[g] = (Steps(launch, t) + 0) % 2
    BY <1>1, <1>2, <1>7 DEF MmaRole
  <2> QED BY <1>1, <1>2, <1>3, <1>6, <1>7, <1>8, <1>9, <2>1 DEF MmaRole, MmaRegisters
<1>11. Queue(st)' /\ tc' \in Seq(Operation)
  <2>1. UNCHANGED <<launch, tc>> /\ Issued(launch, mm') = Issued(launch, mm)
    BY <1>3, <1>8
  <2> QED BY <2>1, IssueNone
<1>12. InFlight'
  <2>1. UNCHANGED <<launch, inflight, ld>> /\ mm'.kv = mm.kv
    BY <1>3, <1>7
  <2> QED BY <1>4, <2>1, FlightTaken
<1>13. mm'.kv <= KvLoads(ld) /\ QTaken(launch, mm') <= QLoads(launch, ld)
  <2>1. mm.kv <= KvLoads(ld)
    BY LoadSees
  <2>2. QTaken(launch, m) <= QLoads(launch, ld)
    <3> HIDE DEF q
    <3> QED BY <1>4, <1>9
  <2> QED BY <1>3, <1>7, <2>1, <2>2
<1>14. \A g \in Stage, w \in Warps :
           /\ OnStage(Issued(launch, mm').pv2, g) <= Stored(launch, sm[g][w])
           /\ PTaken(launch, mm', g) <= Announced(launch, sm[g][w])
           /\ PTaken(launch, mm', g) <= Lets(launch, co[w], g)
  BY <1>2, <1>3, <1>7, <1>8, MmaKeeps
<1>15. UNCHANGED <<launch, bar, named, inflight, ld, sm, co, ep>> /\ st[1] = st[1]
  BY <1>3
<1> QED BY <1>10, <1>11, <1>12, <1>13, <1>14, <1>15, MmaTurn

\* No operation is issued and nothing is waited for.
LEMMA MmaSame ==
    ASSUME NEW st, Control(st), UNCHANGED <<launch, bar, named, inflight, tc, ld, sm, co, ep>>, NEW m, mm' = m,
           MmaRole', m.kv = mm.kv, Issued(launch, m) = Issued(launch, mm),
           QTaken(launch, m) = QTaken(launch, mm), m.pc # "v", mm.pc # "v"
    PROVE  Control(st)'
<1>1. Queue(st)' /\ tc' \in Seq(Operation)
  <2>1. UNCHANGED <<launch, tc>> /\ Issued(launch, mm') = Issued(launch, mm)
    OBVIOUS
  <2> QED BY <2>1, IssueNone
<1>2. mm'.kv = mm.kv /\ QTaken(launch, mm') = QTaken(launch, mm)
  OBVIOUS
<1>3. InFlight'
  BY <1>2, FlightTaken
<1>4. mm'.kv <= KvLoads(ld) /\ QTaken(launch, mm') <= QLoads(launch, ld)
  BY <1>2, LoadSees
<1>5. \A g \in Stage, w \in Warps :
           /\ OnStage(Issued(launch, mm').pv2, g) <= Stored(launch, sm[g][w])
           /\ PTaken(launch, mm', g) <= Announced(launch, sm[g][w])
           /\ PTaken(launch, mm', g) <= Lets(launch, co[w], g)
  BY MmaKeeps
<1> QED BY <1>1, <1>3, <1>4, <1>5, MmaTurn

LEMMA MmaSkipStep ==
    ASSUME NEW st, Control(st), MmaSkip
    PROVE  Control(st)'
<1> DEFINE t == mm.tile
           u == mm.tile + 1
           m == [mm EXCEPT !.tile = u]
<1>1. /\ Registers /\ MmaRole /\ MmaRegisters(mm) /\ launch \in Launches
  BY MmaSees
<1>2. /\ mm.pc = "tile" /\ t \in 1 .. Len(launch.work) /\ u = t + 1 /\ u \in 1 .. Len(launch.work) + 1 /\ u \in Nat
      /\ Steps(launch, u) = Steps(launch, t) /\ Works(launch, u) = Works(launch, t)
  <2>1. mm.pc = "tile" /\ t \in 1 .. Len(launch.work) /\ Half(launch, t) = 0 /\ Len(launch.work) \in Nat
    BY <1>1, Tile DEF MmaSkip
  <2>2. Steps(launch, t + 1) = Steps(launch, t) + 0 /\ Works(launch, t + 1) = Works(launch, t) + 0
        /\ Steps(launch, t) \in Nat /\ Works(launch, t) \in Nat
    BY <1>1, <2>1, NextTile DEF If
  <2> QED BY <2>1, <2>2
<1>3. UNCHANGED <<launch, bar, named, inflight, tc, ld, sm, co, ep>> /\ mm' = m
  BY DEF MmaSkip, memory
<1> HIDE DEF u
<1>4. /\ m.pc = "tile" /\ m.tile = u /\ m.kv = mm.kv /\ m.q = mm.q /\ m.spo = mm.spo /\ MmaRegisters(m)
  BY <1>1, <1>2 DEF MmaRegisters
<1> HIDE DEF m
<1>5. Issued(launch, m) = Issued(launch, mm)
  BY <1>2, <1>4 DEF Issued, At
<1>6. QTaken(launch, m) = QTaken(launch, mm)
  BY <1>2, <1>4 DEF QTaken
<1>7. MmaRole'
  <2>1. /\ \A g \in Stage : mm.spo[g] = (Steps(launch, t) + 0) % 2
        /\ mm.q = QTaken(launch, mm) % 2 /\ mm.kv = Issued(launch, mm).qk + Issued(launch, mm).pv1
    BY <1>1, <1>2 DEF MmaRole
  <2> QED BY <1>2, <1>3, <1>4, <1>5, <1>6, <2>1 DEF MmaRole, MmaRegisters
<1>8. m.pc # "v" /\ mm.pc # "v"
  BY <1>2, <1>4
<1> QED BY <1>3, <1>4, <1>5, <1>6, <1>7, <1>8, MmaSame

LEMMA MmaFreeStep ==
    ASSUME NEW st, Control(st), MmaFree
    PROVE  Control(st)'
<1> DEFINE t == mm.tile
           m == [mm EXCEPT !.pc = "done"]
<1>1. /\ Registers /\ MmaRole /\ MmaRegisters(mm) /\ launch \in Launches
  BY MmaSees
<1>2. mm.pc = "tile" /\ t \in 1 .. Len(launch.work) + 1 /\ t = Len(launch.work) + 1
  <2>1. mm.pc = "tile" /\ t \in 1 .. Len(launch.work) + 1 /\ t \notin 1 .. Len(launch.work) /\ Len(launch.work) \in Nat
    BY <1>1, Tile, MmaSees DEF MmaFree
  <2> QED BY <2>1
<1>3. UNCHANGED <<launch, bar, named, inflight, tc, ld, sm, co, ep>> /\ mm' = m
  BY DEF MmaFree, memory
<1>4. /\ m.pc = "done" /\ m.tile = t /\ m.kv = mm.kv /\ m.q = mm.q /\ m.spo = mm.spo /\ MmaRegisters(m)
  BY <1>1, <1>2 DEF MmaRegisters
<1> HIDE DEF m
<1>5. Issued(launch, m) = Issued(launch, mm)
  BY <1>2, <1>4 DEF Issued
<1>6. QTaken(launch, m) = QTaken(launch, mm)
  BY <1>2, <1>4 DEF QTaken
<1>7. MmaRole'
  <2>1. /\ \A g \in Stage : mm.spo[g] = (Steps(launch, t) + 0) % 2
        /\ mm.q = QTaken(launch, mm) % 2 /\ mm.kv = Issued(launch, mm).qk + Issued(launch, mm).pv1
    BY <1>1, <1>2 DEF MmaRole
  <2> QED BY <1>2, <1>3, <1>4, <1>5, <1>6, <2>1 DEF MmaRole, MmaRegisters
<1>8. m.pc # "v" /\ mm.pc # "v"
  BY <1>2, <1>4
<1> QED BY <1>3, <1>4, <1>5, <1>6, <1>7, <1>8, MmaSame

\* The parity it waits with for the j-th P of a tile.
LEMMA SpoIs ==
    ASSUME NEW st, Control(st), mm.pc \in {"spo", "v", "pv"}, NEW g, g = mm.j % 2
    PROVE  /\ g \in Stage /\ mm.j < 2 * Half(launch, mm.tile)
           /\ mm.spo[g] = OnStage(2 * Steps(launch, mm.tile) + mm.j, g) % 2
<1> DEFINE j == mm.j
           n == 2 * Half(launch, mm.tile)
           h == Half(launch, mm.tile)
           s == Steps(launch, mm.tile)
           c == IF j < n - 2 THEN j ELSE n - 2
<1>1. MmaRole /\ j \in Nat /\ h \in Nat /\ h > 0 /\ s \in Nat /\ n = 2 * h
  BY MmaSees
<1>2. j < n
  BY <1>1 DEF MmaRole
<1>3. g \in Stage /\ OnStage(j, g) = j \div 2
  BY <1>1, OwnStage
<1>4. mm.spo[g] = (s + OnStage(c, g)) % 2
  BY <1>1, <1>3 DEF MmaRole
<1>5. OnStage(c, g) = OnStage(j, g)
  <2>1. CASE j < n - 2
    BY <2>1
  <2>2. CASE ~(j < n - 2)
    <3> HIDE DEF j, n, h, s
    <3>1. c = 2 * (h - 1) + 0 /\ h - 1 \in Nat
      BY <1>1, <2>2
    <3>2. j \in {n - 2, n - 1} /\ j \div 2 = h - 1
      BY <1>1, <1>2, <2>2
    <3>3. OnStage(c, g) = (h - 1) + OnStage(0, g)
      BY <1>3, <3>1, AlternateFrom
    <3>4. OnStage(0, g) = 0
      BY <1>3 DEF OnStage, Stage
    <3> QED BY <1>1, <1>3, <3>2, <3>3, <3>4
  <2> QED BY <2>1, <2>2
<1>6. OnStage(2 * s + j, g) = s + OnStage(j, g)
  <2> HIDE DEF s, j
  <2>1. 2 * s + j = 2 * s + j
    OBVIOUS
  <2> QED BY <1>1, <1>3, AlternateFrom
<1> QED BY <1>2, <1>3, <1>4, <1>5, <1>6

\* The point it is at from the wait for the j-th P on.
LEMMA IssuedFrom ==
    ASSUME NEW m, m.pc \in {"spo", "v", "pv", "k"}
    PROVE  LET n == 2 * Half(launch, m.tile) IN
           Issued(launch, m) =
             At(launch, m.tile, IF m.j + 2 < n THEN m.j + 2 ELSE n, m.j + If(m.pc \in {"pv", "k"}),
                m.j + If(m.pc = "k"), If(m.j >= n - 2), If(m.j = n - 1))
  BY DEF Issued

LEMMA MmaSpoStep ==
    ASSUME NEW st, Control(st), MmaSpo
    PROVE  Control(st)'
<1> DEFINE t == mm.tile
           j == mm.j
           g == mm.j % 2
           m == [mm EXCEPT !.pc = "v"]
           P == Issued(launch, mm)
           q == OnStage(P.pv2, g)
<1>1. /\ Registers /\ MmaRole /\ MmaRegisters(mm) /\ launch \in Launches /\ j \in Nat
      /\ Steps(launch, t) \in Nat
      /\ t \in 1 .. Len(launch.work) /\ Half(launch, t) \in Nat /\ Half(launch, t) > 0 /\ mm.pc = "spo"
  BY MmaSees DEF MmaSpo
<1>2. UNCHANGED <<launch, bar, named, inflight, tc, ld, sm, co, ep>> /\ mm' = m
  BY DEF MmaSpo
<1>3. /\ m.pc = "v" /\ m.tile = t /\ m.j = j /\ m.kv = mm.kv /\ m.q = mm.q /\ m.spo = mm.spo /\ MmaRegisters(m)
  BY <1>1 DEF MmaRegisters
<1> HIDE DEF m
<1>4. P.pv1 = 2 * Steps(launch, t) + (j + 0) /\ P.pv2 = 2 * Steps(launch, t) + (j + 0)
  <2>1. If(mm.pc \in {"pv", "k"}) = 0 /\ If(mm.pc = "k") = 0
    BY <1>1 DEF If
  <2>2. PICK c, r, x : P = At(launch, t, c, j + 0, j + 0, r, x)
    BY <1>1, <2>1, IssuedFrom
  <2> HIDE DEF P
  <2> QED BY <2>2 DEF At
<1>5. g \in Stage /\ Done(SpoEmpty(g), q % 2) /\ q \in Nat /\ PTaken(launch, mm, g) = q /\ P.pv1 = P.pv2
      /\ j < 2 * Half(launch, t)
  <2>1. g \in Stage /\ mm.spo[g] = OnStage(2 * Steps(launch, t) + j, g) % 2 /\ Done(SpoEmpty(g), mm.spo[g])
        /\ j < 2 * Half(launch, t)
    BY <1>1, SpoIs DEF MmaSpo
  <2>2. 2 * Steps(launch, t) + j = P.pv2 /\ P.pv1 = P.pv2
    BY <1>1, <1>4
  <2>3. q \in Nat
    BY <2>1, <1>1, MmaSees, Alternate
  <2>4. PTaken(launch, mm, g) = q + 0
    BY <1>1, <2>2 DEF PTaken, If
  <2> HIDE DEF P
  <2> QED BY <2>1, <2>2, <2>3, <2>4
<1>6. \A w \in Warps : Announced(launch, sm[g][w]) >= q + 1 /\ Lets(launch, co[w], g) >= q + 1
  <2> HIDE DEF q, g
  <2>1. OnStage(Issued(launch, mm).pv2, g) = q
    BY DEF q
  <2> QED BY <1>5, <2>1, SpoWait
<1>7. Issued(launch, m) = Issued(launch, mm)
  BY <1>1, <1>3, IssuedFrom DEF If
<1>8. QTaken(launch, m) = QTaken(launch, mm)
  BY <1>1, <1>3 DEF QTaken
<1>9. MmaRole'
  <2>1. /\ mm.q = QTaken(launch, mm) % 2 /\ mm.kv = Issued(launch, mm).qk + Issued(launch, mm).pv1
        /\ t <= Len(launch.work) /\ t \in 1 .. Len(launch.work) + 1
        /\ \A h \in Stage : mm.spo[h] =
             (Steps(launch, t) + OnStage(IF j < 2 * Half(launch, t) - 2 THEN j
                                         ELSE 2 * Half(launch, t) - 2, h)) % 2
    BY <1>1 DEF MmaRole
  <2> QED BY <1>1, <1>2, <1>3, <1>5, <1>7, <1>8, <2>1 DEF MmaRole, MmaRegisters
<1>10. Queue(st)' /\ tc' \in Seq(Operation)
  <2>1. UNCHANGED <<launch, tc>> /\ Issued(launch, mm') = Issued(launch, mm)
    BY <1>2, <1>7
  <2> QED BY <2>1, IssueNone
<1>11. UNCHANGED <<launch, inflight, ld>> /\ mm'.kv = mm.kv /\ QTaken(launch, mm') = QTaken(launch, mm)
  BY <1>2, <1>3, <1>8
<1>12. InFlight'
  BY <1>11, FlightTaken
<1>13. mm'.kv <= KvLoads(ld) /\ QTaken(launch, mm') <= QLoads(launch, ld)
  BY <1>11, LoadSees
<1>14. \A h \in Stage, w \in Warps :
           /\ OnStage(Issued(launch, mm').pv2, h) <= Stored(launch, sm[h][w])
           /\ PTaken(launch, mm', h) <= Announced(launch, sm[h][w])
           /\ PTaken(launch, mm', h) <= Lets(launch, co[w], h)
  <2> SUFFICES ASSUME NEW h \in Stage, NEW w \in Warps
               PROVE  /\ OnStage(Issued(launch, mm').pv2, h) <= Stored(launch, sm[h][w])
                      /\ PTaken(launch, mm', h) <= Announced(launch, sm[h][w])
                      /\ PTaken(launch, mm', h) <= Lets(launch, co[w], h)
    OBVIOUS
  <2>1. /\ OnStage(P.pv2, h) <= Stored(launch, sm[h][w]) /\ PTaken(launch, mm, h) \in Nat
        /\ PTaken(launch, mm, h) <= Announced(launch, sm[h][w])
        /\ PTaken(launch, mm, h) <= Lets(launch, co[w], h)
    BY MmaWaits
  <2>2. CASE h = g
    <3>1. PTaken(launch, m, h) = q + 1
      BY <1>3, <1>5, <1>7, <2>2 DEF PTaken, If
    <3> QED BY <1>2, <1>6, <1>7, <2>1, <2>2, <3>1
  <2>3. CASE h # g
    <3>1. PTaken(launch, m, h) = PTaken(launch, mm, h)
      BY <1>1, <1>3, <1>7, <2>3 DEF PTaken, If
    <3> QED BY <1>2, <1>7, <2>1, <3>1
  <2> QED BY <2>2, <2>3
<1>15. UNCHANGED <<launch, bar, named, inflight, ld, sm, co, ep>> /\ st[1] = st[1]
  BY <1>2
<1> QED BY <1>9, <1>10, <1>12, <1>13, <1>14, <1>15, MmaTurn

\* The point at the j-th PV of a tile: c, r and x of it are those of InPV.
LEMMA PVPoint ==
    ASSUME NEW st, Control(st), mm.pc \in {"spo", "v", "pv"}
    PROVE  \E c, r, x \in Nat :
             /\ InPV(2 * Half(launch, mm.tile), c, mm.j, r, x)
             /\ Issued(launch, mm) = At(launch, mm.tile, c, mm.j + If(mm.pc = "pv"), mm.j, r, x)
             /\ \A m : (m.tile = mm.tile /\ m.j = mm.j) =>
                  /\ m.pc = "pv" => Issued(launch, m) = At(launch, mm.tile, c, mm.j + 1, mm.j, r, x)
                  /\ m.pc = "k" => Issued(launch, m) = At(launch, mm.tile, c, mm.j + 1, mm.j + 1, r, x)
<1> DEFINE n == 2 * Half(launch, mm.tile)
           j == mm.j
           c == IF j + 2 < n THEN j + 2 ELSE n
           r == If(j >= n - 2)
           x == If(j = n - 1)
<1>1. j \in Nat /\ j < n /\ n \in Nat
  BY MmaSees, SpoIs
<1>2. c \in Nat /\ r \in Nat /\ x \in Nat /\ InPV(n, c, j, r, x)
  <2> HIDE DEF n, j
  <2> QED BY <1>1 DEF InPV, If
<1>3. Issued(launch, mm) = At(launch, mm.tile, c, j + If(mm.pc = "pv"), j, r, x)
  <2>1. If(mm.pc \in {"pv", "k"}) = If(mm.pc = "pv") /\ If(mm.pc = "k") = 0
    BY DEF If
  <2>2. Issued(launch, mm) = At(launch, mm.tile, c, j + If(mm.pc = "pv"), j + 0, r, x)
    BY <2>1, IssuedFrom
  <2>3. j + 0 = j
    BY <1>1
  <2> HIDE DEF c, r, x, j
  <2> QED BY <2>2, <2>3
<1>4. ASSUME NEW m, m.tile = mm.tile, m.j = mm.j, m.pc = "pv"
      PROVE  Issued(launch, m) = At(launch, mm.tile, c, j + 1, j, r, x)
  <2>1. If(m.pc \in {"pv", "k"}) = 1 /\ If(m.pc = "k") = 0
    BY <1>4 DEF If
  <2>2. Issued(launch, m) = At(launch, mm.tile, c, j + 1, j + 0, r, x)
    BY <1>4, <2>1, IssuedFrom
  <2>3. j + 0 = j
    BY <1>1
  <2> HIDE DEF c, r, x, j
  <2> QED BY <2>2, <2>3
<1>5. ASSUME NEW m, m.tile = mm.tile, m.j = mm.j, m.pc = "k"
      PROVE  Issued(launch, m) = At(launch, mm.tile, c, j + 1, j + 1, r, x)
  <2>1. If(m.pc \in {"pv", "k"}) = 1 /\ If(m.pc = "k") = 1
    BY <1>5 DEF If
  <2> QED BY <1>5, <2>1, IssuedFrom
<1> HIDE DEF c, r, x
<1> QED BY <1>2, <1>3, <1>4, <1>5

LEMMA SamePoint ==
    ASSUME NEW P \in Point, NEW s \in Nat, NEW j \in Nat, P.pv2 = 2 * s + j
    PROVE  P.pv2 % 2 = j % 2 /\ (P.pv1 = P.pv2 => Slots(P) = P.qk + P.pv1)
           /\ (P.pv1 = P.pv2 + 1 => Slots(P) = P.qk + P.pv1 - 1)
  BY DEF Slots, Point

LEMMA MmaVStep ==
    ASSUME NEW st, Control(st), MmaV
    PROVE  \E s : Control(s)' /\ s[1] = st[1]
<1> DEFINE t == mm.tile
           j == mm.j
           k == mm.kv + 1
           i == IndexOf(mm.kv)
           m == [mm EXCEPT !.pc = "pv", !.v = i, !.kv = k]
           P == Issued(launch, mm)
<1>1. /\ Registers /\ MmaRole /\ MmaRegisters(mm) /\ launch \in Launches /\ j \in Nat /\ mm.kv \in Nat /\ k \in Nat
      /\ Steps(launch, t) \in Nat /\ P \in Point /\ mm.kv = P.qk + P.pv1
      /\ t \in 1 .. Len(launch.work) /\ Half(launch, t) \in Nat /\ Half(launch, t) > 0 /\ mm.pc = "v"
  BY MmaSees DEF MmaV
<1>2. /\ UNCHANGED <<launch, bar, named, inflight, ld, sm, co, ep>> /\ mm' = m
      /\ tc' = Append(tc, Op("PV1", j % 2, i, j < 2, {})) /\ Done(KvFull(i), PhaseOf(mm.kv))
  BY DEF MmaV, memory
<1>3. i \in Nat /\ i = IndexOf(k - 1)
  <2>0. mm.kv \in Nat /\ mm.kv \in Int
    BY <1>1
  <2>1. k - 1 = mm.kv
    BY <2>0
  <2>2. IndexOf(mm.kv) \in Slot
    BY <2>0, Ring
  <2> QED BY <2>1, <2>2 DEF Slot, KvStages
<1> HIDE DEF i
<1>4. /\ m.pc = "pv" /\ m.tile = t /\ m.j = j /\ m.kv = k /\ m.v = i /\ m.q = mm.q /\ m.spo = mm.spo
      /\ MmaRegisters(m)
  <2> HIDE DEF k
  <2> QED BY <1>1, <1>3 DEF MmaRegisters
<1> HIDE DEF m
<1>5. PICK c \in Nat, r \in Nat, x \in Nat :
        /\ InPV(2 * Half(launch, t), c, j, r, x) /\ P = At(launch, t, c, j + If(mm.pc = "pv"), j, r, x)
        /\ Issued(launch, m) = At(launch, t, c, j + 1, j, r, x)
  BY <1>1, <1>4, PVPoint
<1>6. P = At(launch, t, c, j, j, r, x)
  <2>1. If(mm.pc = "pv") = 0 /\ j + 0 = j
    BY <1>1 DEF If
  <2> HIDE DEF P, j, t
  <2> QED BY <1>5, <2>1
<1> DEFINE P2 == At(launch, t, c, j + 1, j, r, x)
<1>7. P.pv2 = 2 * Steps(launch, t) + j /\ P.pv1 = P.pv2
  <2> HIDE DEF P
  <2> QED BY <1>6 DEF At
<1>8. P2.pv2 = P.pv2 /\ P2.qk = P.qk /\ P2.pv1 = P.pv1 + 1
  <2>1. P2.pv2 = P.pv2 /\ P2.qk = P.qk /\ P2.pv1 = 2 * Steps(launch, t) + (j + 1) /\ P.pv1 = 2 * Steps(launch, t) + j
    <3> HIDE DEF P
    <3> QED BY <1>6 DEF At
  <2> DEFINE s == Steps(launch, t)
  <2>2. s \in Nat /\ j \in Nat
    BY <1>1
  <2> HIDE DEF s, j, P, P2
  <2> QED BY <2>1, <2>2 DEF s
<1>9. Slots(P) = mm.kv /\ P.pv2 % 2 = j % 2 /\ P.pv1 % 2 = j % 2 /\ P.pv1 \in Nat
  <2> DEFINE s == Steps(launch, t)
  <2>1. s \in Nat /\ P.pv2 = 2 * s + j /\ P.pv1 \in Nat
    BY <1>1, <1>7, PointFacts
  <2> HIDE DEF s, j, P
  <2> QED BY <1>1, <1>7, <2>1, SamePoint
<1>10. Issues(launch, P, Op("PV1", j % 2, i, j < 2, {}), P2)
  <2>1. LET R == At(launch, t, c, j, j, r, x) IN
        Issues(launch, R, Op("PV1", R.pv2 % 2, IndexOf(Slots(R)), j < 2, {}), At(launch, t, c, j + 1, j, r, x))
    BY <1>1, <1>5, PV1At
  <2>2. Issues(launch, P, Op("PV1", P.pv2 % 2, IndexOf(Slots(P)), j < 2, {}), P2)
    <3> HIDE DEF P, j, t
    <3> QED BY <1>6, <2>1 DEF P2
  <2> HIDE DEF P, P2, j, t
  <2> QED BY <1>9, <2>2 DEF i
<1>11. tc' \in Seq(Operation) /\ \E s : Queue(s)' /\ s[1] = st[1]
  <2>1. UNCHANGED launch /\ Issued(launch, mm') = P2
    BY <1>2, <1>5
  <2> DEFINE op == Op("PV1", j % 2, i, j < 2, {})
  <2>2. tc' = Append(tc, op) /\ Issues(launch, Issued(launch, mm), op, P2)
    BY <1>2, <1>10
  <2> HIDE DEF op, P2
  <2> QED BY <2>1, <2>2, IssueOne
<1>12. PICK s : Queue(s)' /\ s[1] = st[1]
  BY <1>11
<1>13. QTaken(launch, m) = QTaken(launch, mm)
  BY <1>1, <1>4 DEF QTaken
<1>14. mm.kv + 1 <= KvLoads(ld) /\ Flying(mm.kv) = 0
  BY <1>2, KvWait DEF i
<1>15. MmaRole'
  <2>1. /\ mm.q = QTaken(launch, mm) % 2
        /\ t <= Len(launch.work) /\ t \in 1 .. Len(launch.work) + 1
        /\ j < 2 * Half(launch, t)
        /\ \A h \in Stage : mm.spo[h] =
             (Steps(launch, t) + OnStage(IF j < 2 * Half(launch, t) - 2 THEN j
                                         ELSE 2 * Half(launch, t) - 2, h)) % 2
    BY <1>1 DEF MmaRole
  <2>2. k = Issued(launch, m).qk + Issued(launch, m).pv1
    <3>1. k = P2.qk + P2.pv1
      <4>1. P.qk \in Nat /\ P.pv1 \in Nat /\ mm.kv = P.qk + P.pv1
        BY <1>1, PointFacts
      <4> HIDE DEF P, P2
      <4> QED BY <1>8, <4>1
    <3> QED BY <1>5, <3>1
  <2> HIDE DEF k
  <2> QED BY <1>1, <1>2, <1>3, <1>4, <1>13, <2>1, <2>2 DEF MmaRole, MmaRegisters
<1>16. InFlight'
  <2>1. UNCHANGED <<launch, inflight, ld>> /\ mm'.kv = mm.kv + 1 /\ QTaken(launch, mm') = QTaken(launch, mm)
    BY <1>2, <1>4, <1>13
  <2> QED BY <1>14, <2>1, FlightTaken
<1>17. mm'.kv <= KvLoads(ld) /\ QTaken(launch, mm') <= QLoads(launch, ld)
  <2>1. QTaken(launch, mm) <= QLoads(launch, ld)
    BY LoadSees
  <2> QED BY <1>2, <1>4, <1>13, <1>14, <2>1
<1>18. \A h \in Stage, w \in Warps :
           /\ OnStage(Issued(launch, mm').pv2, h) <= Stored(launch, sm[h][w])
           /\ PTaken(launch, mm', h) <= Announced(launch, sm[h][w])
           /\ PTaken(launch, mm', h) <= Lets(launch, co[w], h)
  <2> SUFFICES ASSUME NEW h \in Stage, NEW w \in Warps
               PROVE  /\ OnStage(Issued(launch, mm').pv2, h) <= Stored(launch, sm[h][w])
                      /\ PTaken(launch, mm', h) <= Announced(launch, sm[h][w])
                      /\ PTaken(launch, mm', h) <= Lets(launch, co[w], h)
    OBVIOUS
  <2>1. /\ OnStage(P.pv2, h) <= Stored(launch, sm[h][w])
        /\ PTaken(launch, mm, h) <= Announced(launch, sm[h][w])
        /\ PTaken(launch, mm, h) <= Lets(launch, co[w], h)
    BY MmaWaits
  <2>2. Issued(launch, m).pv2 = P.pv2 /\ Issued(launch, m).pv1 = P.pv1 + 1
    BY <1>5, <1>8
  <2>3. PTaken(launch, m, h) = PTaken(launch, mm, h)
    <3>1. OnStage(P.pv1 + 1, h) = OnStage(P.pv1, h) + If(h = j % 2) /\ OnStage(P.pv1 + 1, h) \in Nat
      BY <1>9, Alternate
    <3>2. PTaken(launch, mm, h) = OnStage(P.pv1, h) + If(h = j % 2)
      BY <1>1 DEF PTaken, If
    <3>3. PTaken(launch, m, h) = OnStage(P.pv1 + 1, h) + 0
      BY <1>4, <2>2 DEF PTaken, If
    <3> QED BY <3>1, <3>2, <3>3
  <2> QED BY <1>2, <2>1, <2>2, <2>3
<1>19. UNCHANGED <<launch, bar, named, inflight, ld, sm, co, ep>>
  BY <1>2
<1>20. Control(s)'
  BY <1>11, <1>12, <1>15, <1>16, <1>17, <1>18, <1>19, MmaTurn
<1> QED BY <1>12, <1>20

\* The operation that uses the rest of P, and the point after it.
RestOp ==
    Op("PV2", mm.j % 2, mm.v, FALSE,
       {KvEmpty(mm.v)} \cup (IF mm.j >= N(mm.tile) - 2 THEN {OAcc(mm.j % 2)} ELSE {}))

LEMMA PvIssue ==
    ASSUME NEW st, Control(st), MmaPv
    PROVE  \E c, r, x \in Nat :
             /\ InPV(2 * Half(launch, mm.tile), c, mm.j, r, x)
             /\ Issues(launch, Issued(launch, mm), RestOp,
                       At(launch, mm.tile, c, mm.j + 1, mm.j + 1, r, x + If(mm.j >= 2 * Half(launch, mm.tile) - 2)))
             /\ \A m : (m.tile = mm.tile /\ m.j = mm.j /\ m.pc = "k") =>
                         Issued(launch, m) = At(launch, mm.tile, c, mm.j + 1, mm.j + 1, r, x)
             /\ Issued(launch, mm) = At(launch, mm.tile, c, mm.j + 1, mm.j, r, x)
<1> DEFINE t == mm.tile
           j == mm.j
           n == 2 * Half(launch, mm.tile)
           P == Issued(launch, mm)
           last == j >= n - 2
<1>1. /\ MmaRole /\ launch \in Launches /\ j \in Nat /\ mm.kv \in Nat
      /\ Steps(launch, t) \in Nat /\ P \in Point /\ mm.kv = P.qk + P.pv1 /\ N(t) = n
      /\ t \in 1 .. Len(launch.work) /\ Half(launch, t) \in Nat /\ Half(launch, t) > 0 /\ mm.pc = "pv"
  BY MmaSees DEF MmaPv
<1>2. PICK c \in Nat, r \in Nat, x \in Nat :
        /\ InPV(n, c, j, r, x) /\ P = At(launch, t, c, j + If(mm.pc = "pv"), j, r, x)
        /\ \A m : (m.tile = t /\ m.j = j /\ m.pc = "k") =>
                    Issued(launch, m) = At(launch, t, c, j + 1, j + 1, r, x)
  BY <1>1, PVPoint
<1>3. P = At(launch, t, c, j + 1, j, r, x)
  <2>1. If(mm.pc = "pv") = 1
    BY <1>1 DEF If
  <2> HIDE DEF P, j, t, n
  <2> QED BY <1>2, <2>1
<1>4. P.pv2 = 2 * Steps(launch, t) + j /\ P.pv1 = P.pv2 + 1
  <2>1. P.pv2 = 2 * Steps(launch, t) + j /\ P.pv1 = 2 * Steps(launch, t) + (j + 1)
    <3> HIDE DEF P
    <3> QED BY <1>3 DEF At
  <2> DEFINE s == Steps(launch, t)
  <2>2. s \in Nat
    BY <1>1
  <2> HIDE DEF s, j, P
  <2> QED BY <1>1, <2>1, <2>2 DEF s
<1>5. Slots(P) = mm.kv - 1 /\ P.pv2 % 2 = j % 2
  <2> DEFINE s == Steps(launch, t)
  <2>1. s \in Nat /\ P.pv2 = 2 * s + j
    BY <1>1, <1>4
  <2>2. P \in Point /\ j \in Nat /\ mm.kv = P.qk + P.pv1 /\ P.pv1 = P.pv2 + 1
    BY <1>1, <1>4
  <2> HIDE DEF s, j, P
  <2>3. P.pv2 % 2 = j % 2 /\ Slots(P) = P.qk + P.pv1 - 1
    BY <2>1, <2>2, SamePoint
  <2>4. P.qk \in Nat /\ P.pv1 \in Nat /\ mm.kv \in Nat
    BY <1>1, <2>2, PointFacts
  <2>5. Slots(P) = mm.kv - 1
    BY <2>2, <2>3, <2>4
  <2> QED BY <2>3, <2>5
<1>6. mm.v = IndexOf(Slots(P))
  <2>1. mm.v = IndexOf(mm.kv - 1)
    BY <1>1 DEF MmaRole
  <2> HIDE DEF P
  <2> QED BY <1>5, <2>1
<1>7. last \in BOOLEAN /\ (last <=> j >= 2 * Half(launch, t) - 2)
  OBVIOUS
<1>8. LET R == At(launch, t, c, j + 1, j, r, x) IN
      Issues(launch, R, Op("PV2", R.pv2 % 2, IndexOf(Slots(R)), FALSE,
                           {KvEmpty(IndexOf(Slots(R)))} \cup (IF last THEN {OAcc(R.pv2 % 2)} ELSE {})),
             At(launch, t, c, j + 1, j + 1, r, x + If(last)))
  <2> HIDE DEF last
  <2> QED BY <1>1, <1>2, <1>7, PV2At
<1>9. Issues(launch, P, Op("PV2", P.pv2 % 2, IndexOf(Slots(P)), FALSE,
                           {KvEmpty(IndexOf(Slots(P)))} \cup (IF last THEN {OAcc(P.pv2 % 2)} ELSE {})),
             At(launch, t, c, j + 1, j + 1, r, x + If(last)))
  <2> HIDE DEF P, j, t, last
  <2> QED BY <1>3, <1>8
<1>10. Issues(launch, P, RestOp, At(launch, t, c, j + 1, j + 1, r, x + If(last)))
  <2>1. RestOp = Op("PV2", j % 2, mm.v, FALSE, {KvEmpty(mm.v)} \cup (IF last THEN {OAcc(j % 2)} ELSE {}))
    BY <1>1 DEF RestOp
  <2> HIDE DEF P, j, t, last
  <2> QED BY <1>5, <1>6, <1>9, <2>1
<1> QED BY <1>2, <1>3, <1>10

LEMMA PvTurn ==
    ASSUME NEW st, Control(st), MmaPv, NEW m, mm' = m, MmaRole', m.kv = mm.kv,
           NEW P2, Issues(launch, Issued(launch, mm), RestOp, P2), Issued(launch, m) = P2,
           P2.pv1 = Issued(launch, mm).pv1, P2.pv2 = Issued(launch, mm).pv2 + 1,
           QTaken(launch, m) = QTaken(launch, mm), m.pc # "v"
    PROVE  \E s : Control(s)' /\ s[1] = st[1]
<1> DEFINE j == mm.j
           g == mm.j % 2
           P == Issued(launch, mm)
           q == OnStage(P.pv2, g)
<1>1. /\ P \in Point /\ P.pv2 \in Nat /\ P.pv1 \in Nat /\ mm.pc = "pv" /\ j \in Nat
  BY MmaSees DEF MmaPv
<1>2. UNCHANGED <<launch, bar, named, inflight, ld, sm, co, ep>> /\ tc' = Append(tc, RestOp)
  BY DEF MmaPv, memory, RestOp
<1>3. g \in Stage /\ Done(LastSplit(g), q % 2) /\ q \in Nat /\ P.pv2 % 2 = g
  <2>1. g \in Stage /\ mm.spo[g] = OnStage(2 * Steps(launch, mm.tile) + j, g) % 2 /\ Done(LastSplit(g), mm.spo[g])
    BY <1>1, SpoIs DEF MmaPv
  <2>2. P.pv2 = 2 * Steps(launch, mm.tile) + j /\ Steps(launch, mm.tile) \in Nat
    <3>1. PICK c, u, r, x : P = At(launch, mm.tile, c, u, j, r, x)
      BY <1>1, PVPoint
    <3>2. P.pv2 = 2 * Steps(launch, mm.tile) + j
      <4> HIDE DEF P
      <4> QED BY <3>1 DEF At
    <3> QED BY <3>2, MmaSees
  <2>3. q \in Nat
    BY <1>1, <2>1, Alternate
  <2>4. P.pv2 % 2 = j % 2
    <3> DEFINE s == Steps(launch, mm.tile)
    <3>1. s \in Nat /\ P.pv2 = 2 * s + j
      BY <2>2
    <3> HIDE DEF s, j, P
    <3> QED BY <1>1, <3>1, SamePoint
  <2> HIDE DEF P
  <2> QED BY <2>1, <2>2, <2>3, <2>4
<1>4. \A w \in Warps : Stored(launch, sm[g][w]) >= q + 1
  <2> HIDE DEF q, g
  <2>1. OnStage(Issued(launch, mm).pv2, g) = q
    BY DEF q
  <2> QED BY <1>3, <2>1, PWait
<1>5. PICK s : tc' \in Seq(Operation) /\ Queue(s)' /\ s[1] = st[1]
  <2>1. UNCHANGED launch /\ Issued(launch, mm') = P2
    BY <1>2
  <2> QED BY <1>2, <2>1, IssueOne
<1>6. InFlight'
  <2>1. UNCHANGED <<launch, inflight, ld>> /\ mm'.kv = mm.kv /\ QTaken(launch, mm') = QTaken(launch, mm)
    BY <1>2
  <2> QED BY <2>1, FlightTaken
<1>7. mm'.kv <= KvLoads(ld) /\ QTaken(launch, mm') <= QLoads(launch, ld)
  BY LoadSees
<1>8. \A h \in Stage, w \in Warps :
           /\ OnStage(Issued(launch, mm').pv2, h) <= Stored(launch, sm[h][w])
           /\ PTaken(launch, mm', h) <= Announced(launch, sm[h][w])
           /\ PTaken(launch, mm', h) <= Lets(launch, co[w], h)
  <2> SUFFICES ASSUME NEW h \in Stage, NEW w \in Warps
               PROVE  /\ OnStage(Issued(launch, mm').pv2, h) <= Stored(launch, sm[h][w])
                      /\ PTaken(launch, mm', h) <= Announced(launch, sm[h][w])
                      /\ PTaken(launch, mm', h) <= Lets(launch, co[w], h)
    OBVIOUS
  <2>1. /\ OnStage(P.pv2, h) <= Stored(launch, sm[h][w]) /\ OnStage(P.pv2, h) \in Nat
        /\ PTaken(launch, mm, h) <= Announced(launch, sm[h][w])
        /\ PTaken(launch, mm, h) <= Lets(launch, co[w], h)
    BY MmaWaits
  <2>2. PTaken(launch, m, h) = PTaken(launch, mm, h)
    BY <1>1 DEF PTaken, If
  <2>3. OnStage(P.pv2 + 1, h) = OnStage(P.pv2, h) + If(h = P.pv2 % 2)
    BY <1>1, Alternate
  <2>4. OnStage(P.pv2 + 1, h) <= Stored(launch, sm[h][w])
    <3>1. CASE h = g
      <4>1. OnStage(P.pv2 + 1, h) = q + 1
        BY <1>3, <2>3, <3>1 DEF If
      <4> QED BY <1>4, <3>1, <4>1
    <3>2. CASE h # g
      <4>1. OnStage(P.pv2 + 1, h) = OnStage(P.pv2, h) + 0
        BY <1>3, <2>3, <3>2 DEF If
      <4> HIDE DEF P
      <4> QED BY <2>1, <4>1
    <3> QED BY <3>1, <3>2
  <2> QED BY <2>1, <2>2, <2>4
<1>9. Control(s)'
  BY <1>2, <1>5, <1>6, <1>7, <1>8, MmaTurn
<1> QED BY <1>5, <1>9

LEMMA MmaPvStep ==
    ASSUME NEW st, Control(st), MmaPv
    PROVE  \E s : Control(s)' /\ s[1] = st[1]
<1> DEFINE t == mm.tile
           j == mm.j
           h == Half(launch, mm.tile)
           n == 2 * Half(launch, mm.tile)
           P == Issued(launch, mm)
           m == mm'
<1>1. /\ Registers /\ MmaRole /\ MmaRegisters(mm) /\ launch \in Launches /\ j \in Nat /\ mm.kv \in Nat
      /\ Steps(launch, t) \in Nat /\ Works(launch, t) \in Nat /\ P \in Point /\ mm.kv = P.qk + P.pv1 /\ N(t) = n
      /\ t \in 1 .. Len(launch.work) /\ h \in Nat /\ h > 0 /\ mm.pc = "pv"
  BY MmaSees DEF MmaPv
<1>2. j < n /\ n = 2 * h
  BY <1>1, SpoIs
<1>3. /\ mm.q = QTaken(launch, mm) % 2 /\ t <= Len(launch.work) /\ t \in 1 .. Len(launch.work) + 1
      /\ \A g \in Stage : mm.spo[g] = (Steps(launch, t) + OnStage(IF j < n - 2 THEN j ELSE n - 2, g)) % 2
  BY <1>1 DEF MmaRole
<1>4. PICK c \in Nat, r \in Nat, x \in Nat :
        /\ InPV(n, c, j, r, x)
        /\ Issues(launch, P, RestOp, At(launch, t, c, j + 1, j + 1, r, x + If(j >= n - 2)))
        /\ \A d : (d.tile = t /\ d.j = j /\ d.pc = "k") =>
                    Issued(launch, d) = At(launch, t, c, j + 1, j + 1, r, x)
        /\ P = At(launch, t, c, j + 1, j, r, x)
  BY PvIssue
<1> DEFINE P2 == At(launch, t, c, j + 1, j + 1, r, x + If(j >= n - 2))
<1>5. P2.qk = P.qk /\ P2.pv1 = P.pv1 /\ P2.pv2 = P.pv2 + 1
  <2>1. /\ P2.qk = P.qk /\ P2.pv1 = P.pv1 /\ P2.pv2 = 2 * Steps(launch, t) + (j + 1)
        /\ P.pv2 = 2 * Steps(launch, t) + j
    <3> HIDE DEF P
    <3> QED BY <1>4 DEF At
  <2> DEFINE s == Steps(launch, t)
  <2>2. s \in Nat
    BY <1>1
  <2> HIDE DEF s, j, P, P2
  <2> QED BY <1>1, <2>1, <2>2 DEF s
<1>6. launch' = launch
  BY DEF MmaPv
\* What is left to show of the registers it goes on with.
<1>7. ASSUME NEW d, mm' = d, MmaRegisters(d), d.kv = mm.kv, d.q = mm.q, Issued(launch, d) = P2,
             QTaken(launch, d) = QTaken(launch, mm), d.pc \in {"tile", "spo", "k"},
             d.tile \in 1 .. Len(launch.work) + 1,
             d.pc # "tile" => d.tile = t,
             d.pc = "spo" => d.j < n, d.pc = "k" => d.j < n - 2,
             \A g \in Stage :
               d.spo[g] = (Steps(launch, d.tile)
                           + (IF d.pc = "tile" THEN 0
                              ELSE OnStage(IF d.j < n - 2 THEN d.j ELSE n - 2, g))) % 2
      PROVE  \E s : Control(s)' /\ s[1] = st[1]
  <2>1. MmaRole'
    <3>1. d.kv = Issued(launch, d).qk + Issued(launch, d).pv1
      BY <1>1, <1>5, <1>7
    <3> HIDE DEF P2, P
    <3>2. /\ d.pc \notin {"tile", "done"} => d.tile <= Len(launch.work) /\ Half(launch, d.tile) > 0
          /\ d.pc # "done" /\ d.pc # "s" /\ d.pc # "v" /\ d.pc # "pv"
          /\ d.pc = "spo" => d.j < 2 * Half(launch, d.tile)
          /\ d.pc = "k" => d.j < 2 * Half(launch, d.tile) - 2
          /\ d.q = QTaken(launch, d) % 2
      BY <1>1, <1>3, <1>7
    <3>3. \A g \in Stage :
            d.spo[g] = (Steps(launch, d.tile)
                        + (IF d.pc \in {"tile", "done", "s"} THEN 0
                           ELSE OnStage(IF d.j < 2 * Half(launch, d.tile) - 2 THEN d.j
                                        ELSE 2 * Half(launch, d.tile) - 2, g))) % 2
      BY <1>7
    <3> QED BY <1>6, <1>7, <3>1, <3>2, <3>3 DEF MmaRole, MmaRegisters
  <2>2. Issues(launch, Issued(launch, mm), RestOp, P2) /\ d.pc # "v"
    BY <1>4, <1>7
  <2>3. P2.pv1 = Issued(launch, mm).pv1 /\ P2.pv2 = Issued(launch, mm).pv2 + 1
    BY <1>5
  <2> HIDE DEF P2, P
  <2> QED BY <1>7, <2>1, <2>2, <2>3, PvTurn
<1>8. CASE j < n - 2
  <2> DEFINE d == [mm EXCEPT !.pc = "k"]
  <2>1. mm' = d
    BY <1>1, <1>8 DEF MmaPv
  <2>2. MmaRegisters(d) /\ d.pc = "k" /\ d.tile = t /\ d.j = j /\ d.kv = mm.kv /\ d.q = mm.q /\ d.spo = mm.spo
    BY <1>1 DEF MmaRegisters
  <2> HIDE DEF d
  <2>3. Issued(launch, d) = P2
    <3>1. x + If(j >= n - 2) = x
      <4>1. If(j >= n - 2) = 0
        <5> HIDE DEF n, j
        <5>1. n \in Nat
          BY <1>1, <1>2
        <5> QED BY <1>1, <1>8, <5>1 DEF If
      <4> QED BY <4>1
    <3> DEFINE y == x + If(j >= n - 2)
    <3>2. Issued(launch, d) = At(launch, t, c, j + 1, j + 1, r, x) /\ y = x
      BY <1>4, <2>2, <3>1
    <3> HIDE DEF y, t, j
    <3> QED BY <3>2 DEF y
  <2>4. QTaken(launch, d) = QTaken(launch, mm)
    BY <1>1, <2>2 DEF QTaken
  <2> HIDE DEF P2
  <2>5. \A g \in Stage :
          d.spo[g] = (Steps(launch, d.tile)
                      + (IF d.pc = "tile" THEN 0 ELSE OnStage(IF d.j < n - 2 THEN d.j ELSE n - 2, g))) % 2
    BY <1>3, <2>2
  <2> QED BY <1>3, <1>7, <1>8, <2>1, <2>2, <2>3, <2>4, <2>5
<1>9. CASE j = n - 2
  <2> DEFINE k == j + 1
             d == [mm EXCEPT !.pc = "spo", !.j = k]
  <2>0. ~(j < n - 2) /\ j < n - 1 /\ k \in Nat /\ n \in Nat /\ k = n - 1 /\ k < n /\ ~(k < n - 2) /\ j >= n - 2
    <3>1. n \in Nat /\ k = j + 1
      BY <1>1, <1>2
    <3> HIDE DEF k, n, j
    <3> QED BY <1>1, <1>9, <3>1
  <2>1. mm' = d
    BY <1>1, <2>0 DEF MmaPv
  <2>2. MmaRegisters(d) /\ d.pc = "spo" /\ d.tile = t /\ d.j = k /\ d.kv = mm.kv /\ d.q = mm.q /\ d.spo = mm.spo
    <3> HIDE DEF k
    <3> QED BY <1>1, <2>0 DEF MmaRegisters
  <2> HIDE DEF d
  <2>3. Issued(launch, d) = P2
    <3> DEFINE a == IF k + 2 < n THEN k + 2 ELSE n
    <3>1. Issued(launch, d) = At(launch, t, a, k + 0, k + 0, If(k >= n - 2), If(k = n - 1))
      <4>1. If(d.pc \in {"pv", "k"}) = 0 /\ If(d.pc = "k") = 0
        BY <2>2 DEF If
      <4> HIDE DEF k
      <4> QED BY <2>2, <4>1, IssuedFrom
    <3>2. a = c /\ If(k >= n - 2) = r /\ If(k = n - 1) = x + If(j >= n - 2) /\ k + 0 = j + 1
      <4>1. c = (IF j + 2 < n THEN j + 2 ELSE n) /\ r = If(j >= n - 2) /\ x = If(j = n - 1) /\ k = j + 1
        BY <1>4 DEF InPV
      <4> HIDE DEF k, n, j
      <4>2. c = n /\ r = 1 /\ x = 0
        BY <1>1, <1>9, <2>0, <4>1 DEF If
      <4>3. If(k >= n - 2) = 1 /\ If(k = n - 1) = 1 /\ If(j >= n - 2) = 1
        BY <1>1, <2>0, <4>1 DEF If
      <4>4. a = n
        BY <2>0
      <4> QED BY <1>1, <2>0, <4>1, <4>2, <4>3, <4>4
    <3> DEFINE y == x + If(j >= n - 2)
               z == j + 1
               b == If(k >= n - 2)
               f == If(k = n - 1)
               e == k + 0
    <3>3. Issued(launch, d) = At(launch, t, a, e, e, b, f) /\ a = c /\ b = r /\ f = y /\ e = z
      BY <3>1, <3>2
    <3>4. P2 = At(launch, t, c, z, z, r, y)
      OBVIOUS
    <3> HIDE DEF y, z, b, f, e, a, t, P2
    <3> QED BY <3>3, <3>4
  <2>4. QTaken(launch, d) = QTaken(launch, mm)
    BY <1>1, <2>2 DEF QTaken
  <2> HIDE DEF P2
  <2>5. \A g \in Stage :
          d.spo[g] = (Steps(launch, d.tile)
                      + (IF d.pc = "tile" THEN 0 ELSE OnStage(IF d.j < n - 2 THEN d.j ELSE n - 2, g))) % 2
    <3> HIDE DEF k
    <3> QED BY <1>3, <2>0, <2>2
  <2> HIDE DEF k
  <2> QED BY <1>3, <1>7, <2>0, <2>1, <2>2, <2>3, <2>4, <2>5
<1>10. CASE j = n - 1
  <2> DEFINE u == t + 1
             spo == [g \in Stage |-> 1 - mm.spo[g]]
             d == [mm EXCEPT !.pc = "tile", !.tile = u, !.spo = spo]
  <2>0. /\ ~(j < n - 2) /\ ~(j < n - 1) /\ j >= n - 2 /\ n \in Nat /\ j + 1 = n /\ ~(j + 2 < n)
        /\ If(j >= n - 2) = 1 /\ If(j = n - 1) = 1
    <3>1. n \in Nat
      BY <1>1, <1>2
    <3> HIDE DEF n, j
    <3> QED BY <1>1, <1>10, <3>1 DEF If
  <2>1. mm' = d
    BY <1>1, <2>0 DEF MmaPv
  <2>2. /\ u \in 1 .. Len(launch.work) + 1 /\ u \in Nat /\ Steps(launch, u) = Steps(launch, t) + h
        /\ Works(launch, u) = Works(launch, t) + 1
    <3>1. Steps(launch, u) = Steps(launch, t) + h /\ Works(launch, u) = Works(launch, t) + If(h > 0) /\ If(h > 0) = 1
      BY <1>1, NextTile DEF If
    <3>2. u \in 1 .. Len(launch.work) + 1 /\ u \in Nat
      BY <1>1, Tile
    <3> QED BY <3>1, <3>2
  <2>3. spo \in [Stage -> {0, 1}] /\ \A g \in Stage : spo[g] = 1 - mm.spo[g]
    <3>1. mm.spo \in [Stage -> {0, 1}]
      BY <1>1 DEF MmaRegisters
    <3>2. \A g \in Stage : 1 - mm.spo[g] \in {0, 1}
      BY <3>1
    <3> QED BY <3>2
  <2> HIDE DEF u, spo
  <2>4. MmaRegisters(d) /\ d.pc = "tile" /\ d.tile = u /\ d.j = j /\ d.kv = mm.kv /\ d.q = mm.q /\ d.spo = spo
    BY <1>1, <2>2, <2>3 DEF MmaRegisters
  <2> HIDE DEF d
  <2>5. Issued(launch, d) = P2
    <3>1. Issued(launch, d) = At(launch, u, 0, 0, 0, 0, 0)
      BY <2>4 DEF Issued
    <3>2. c = n /\ r = 1 /\ x = 1
      BY <1>4, <2>0 DEF InPV
    <3> DEFINE s == Steps(launch, t)
               w == Works(launch, t)
               a == Steps(launch, u)
               b == Works(launch, u)
               y == x + If(j >= n - 2)
               z == j + 1
    <3>3. /\ a = s + h /\ b = w + 1 /\ s \in Nat /\ w \in Nat /\ h \in Nat /\ y = 2 /\ z = 2 * h /\ n = 2 * h
          /\ c = 2 * h
      BY <1>1, <1>2, <2>0, <2>2, <3>2
    <3>4. P2 = [qk |-> 2 * s + c, pv1 |-> 2 * s + z, pv2 |-> 2 * s + z, rel |-> w + r, last |-> 2 * w + y]
      BY DEF At
    <3>5. Issued(launch, d) = [qk |-> 2 * a + 0, pv1 |-> 2 * a + 0, pv2 |-> 2 * a + 0, rel |-> b + 0, last |-> 2 * b + 0]
      BY <3>1 DEF At
    <3> HIDE DEF s, w, a, b, y, z, n, h, P2
    <3>6. /\ 2 * a + 0 = 2 * s + c /\ 2 * a + 0 = 2 * s + z /\ b + 0 = w + r /\ 2 * b + 0 = 2 * w + y
      BY <3>2, <3>3
    <3> QED BY <3>4, <3>5, <3>6
  <2>6. QTaken(launch, d) = QTaken(launch, mm)
    <3>1. QTaken(launch, d) = Works(launch, u) + 0 /\ QTaken(launch, mm) = Works(launch, t) + 1
      BY <1>1, <2>4 DEF QTaken, If
    <3> DEFINE w == Works(launch, t)
               b == Works(launch, u)
    <3>2. b = w + 1 /\ w \in Nat
      BY <1>1, <2>2
    <3> HIDE DEF b, w
    <3> QED BY <3>1, <3>2 DEF b, w
  <2> HIDE DEF P2
  <2>7. \A g \in Stage : d.spo[g] = (Steps(launch, u) + 0) % 2
    <3> SUFFICES ASSUME NEW g \in Stage PROVE d.spo[g] = (Steps(launch, u) + 0) % 2
      OBVIOUS
    <3> DEFINE s == Steps(launch, t)
               a == Steps(launch, u)
               y == mm.spo[g]
               v == OnStage(n - 2, g)
    <3>1. y = (s + v) % 2 /\ a = s + h /\ d.spo[g] = 1 - y /\ s \in Nat /\ h \in Nat
      BY <1>1, <1>3, <2>0, <2>2, <2>3, <2>4
    <3>2. v = h - 1
      <4>1. g \in {0, 1} /\ n = 2 * h /\ h \in Nat /\ h > 0
        BY <1>1, <1>2 DEF Stage
      <4> HIDE DEF n, h
      <4> QED BY <4>1 DEF OnStage
    <3>3. h > 0
      BY <1>1
    <3> HIDE DEF s, a, y, v, h
    <3> QED BY <3>1, <3>2, <3>3 DEF a
  <2>8. \A g \in Stage :
          d.spo[g] = (Steps(launch, d.tile)
                      + (IF d.pc = "tile" THEN 0 ELSE OnStage(IF d.j < n - 2 THEN d.j ELSE n - 2, g))) % 2
    BY <2>4, <2>7
  <2> QED BY <1>7, <2>1, <2>2, <2>4, <2>5, <2>6, <2>8
<1>11. j < n - 2 \/ j = n - 2 \/ j = n - 1
  <2>1. n \in Nat
    BY <1>1, <1>2
  <2> HIDE DEF n, j
  <2> QED BY <1>1, <1>2, <2>1
<1> QED BY <1>8, <1>9, <1>10, <1>11

\* The prologue: the first two QKs of a tile, and Q released if there are no more.
LEMMA MmaSStep ==
    ASSUME NEW st, Control(st), MmaS
    PROVE  \E s : Control(s)' /\ s[1] = st[1]
<1> DEFINE t == mm.tile
           j == mm.j
           n == 2 * Half(launch, mm.tile)
           k == mm.kv + 1
           i == IndexOf(mm.kv)
           P == Issued(launch, mm)
           op == Op("QK", j, i, FALSE, {SpoFull(j), KvEmpty(i)})
           rel == Op("none", 0, 0, FALSE, {QEmpty})
           P2 == At(launch, t, j + 1, 0, 0, 0, 0)
           P3 == At(launch, t, j + 1, 0, 0, 1, 0)
<1>1. /\ Registers /\ MmaRole /\ MmaRegisters(mm) /\ launch \in Launches /\ j \in Nat /\ mm.kv \in Nat /\ k \in Nat
      /\ Steps(launch, t) \in Nat /\ Works(launch, t) \in Nat /\ P \in Point /\ mm.kv = P.qk + P.pv1 /\ N(t) = n
      /\ t \in 1 .. Len(launch.work) /\ Half(launch, t) \in Nat /\ Half(launch, t) > 0 /\ mm.pc = "s"
  BY MmaSees DEF MmaS
<1>2. /\ mm.q = QTaken(launch, mm) % 2 /\ t <= Len(launch.work) /\ t \in 1 .. Len(launch.work) + 1
      /\ \A g \in Stage : mm.spo[g] = (Steps(launch, t) + 0) % 2
      /\ j < 2
  BY <1>1 DEF MmaRole
<1>3. P = At(launch, t, j, 0, 0, 0, 0)
  BY <1>1 DEF Issued
<1>4. /\ UNCHANGED <<launch, bar, named, inflight, ld, sm, co, ep>> /\ Done(KvFull(i), PhaseOf(mm.kv))
      /\ tc' = tc \o <<op>> \o (IF j = 1 THEN ReleaseQ(0) ELSE <<>>)
      /\ j = 0 => mm' = [mm EXCEPT !.j = 1, !.kv = k]
      /\ j # 0 => mm' = [mm EXCEPT !.pc = "spo", !.j = 0, !.kv = k]
  BY DEF MmaS
<1>5. mm.kv + 1 <= KvLoads(ld) /\ Flying(mm.kv) = 0
  BY <1>4, KvWait
<1>6. n \in Nat /\ n >= 2 /\ j \in {0, 1} /\ j + 1 \in Nat
  <2> DEFINE h == Half(launch, t)
  <2>1. n = 2 * h /\ h \in Nat /\ h > 0 /\ j \in Nat /\ j < 2
    BY <1>1, <1>2
  <2> HIDE DEF h, n, j
  <2> QED BY <2>1
<1>7. P.qk % 2 = j /\ Slots(P) = mm.kv /\ P.pv1 = P.pv2 /\ P2.qk = P.qk + 1 /\ P2.pv1 = P.pv1 /\ P2.pv2 = P.pv2
  <2> DEFINE s == Steps(launch, t)
  <2>1. P.qk = 2 * s + j /\ P.pv1 = 2 * s + 0 /\ P.pv2 = 2 * s + 0
    <3> HIDE DEF P
    <3> QED BY <1>3 DEF At
  <2>2. P2.qk = 2 * s + (j + 1) /\ P2.pv1 = 2 * s + 0 /\ P2.pv2 = 2 * s + 0
    BY DEF At
  <2>3. s \in Nat /\ j \in {0, 1} /\ mm.kv = P.qk + P.pv1
    BY <1>1, <1>6
  <2> HIDE DEF s, P, P2, j
  <2> QED BY <2>1, <2>2, <2>3 DEF Slots
<1>8. Issues(launch, P, op, P2)
  <2>1. InQK(n, j, 0, 0, 0, 0) /\ 0 \in Nat
    <3> HIDE DEF n, j
    <3> QED BY <1>6 DEF InQK
  <2>2. LET R == At(launch, t, j, 0, 0, 0, 0) IN
        Issues(launch, R, Op("QK", R.qk % 2, IndexOf(Slots(R)), FALSE,
                             {SpoFull(R.qk % 2), KvEmpty(IndexOf(Slots(R)))}), At(launch, t, j + 1, 0, 0, 0, 0))
    BY <1>1, <2>1, QKAt
  <2>3. Issues(launch, P, Op("QK", P.qk % 2, IndexOf(Slots(P)), FALSE,
                             {SpoFull(P.qk % 2), KvEmpty(IndexOf(Slots(P)))}), P2)
    <3> HIDE DEF P, j, t
    <3> QED BY <1>3, <2>2 DEF P2
  <2> HIDE DEF P, P2, j, t
  <2> QED BY <1>7, <2>3
\* What is left to show of the registers it goes on with.
<1>9. ASSUME NEW d, mm' = d, MmaRegisters(d), d.kv = k, d.q = mm.q, d.spo = mm.spo, d.tile = t,
             QTaken(launch, d) = QTaken(launch, mm), d.pc \in {"s", "spo"}, d.j < 2,
             d.pc = "spo" => d.j = 0,
             Issued(launch, d).qk = P.qk + 1, Issued(launch, d).pv1 = P.pv1, Issued(launch, d).pv2 = P.pv2,
             NEW s, tc' \in Seq(Operation), Queue(s)', s[1] = st[1]
      PROVE  Control(s)' /\ s[1] = st[1]
  <2>1. MmaRole'
    <3>1. d.kv = Issued(launch, d).qk + Issued(launch, d).pv1
      <4> DEFINE a == Issued(launch, d).qk
                 b == Issued(launch, d).pv1
      <4>1. a = P.qk + 1 /\ b = P.pv1 /\ P.qk \in Nat /\ P.pv1 \in Nat /\ mm.kv = P.qk + P.pv1 /\ d.kv = mm.kv + 1
        BY <1>1, <1>9, PointFacts
      <4> HIDE DEF a, b, P
      <4>2. d.kv = a + b
        BY <4>1
      <4> QED BY <4>2 DEF a, b
    <3>2. d.pc = "spo" => d.j < 2 * Half(launch, d.tile)
      <4> HIDE DEF n
      <4> QED BY <1>6, <1>9 DEF n
    <3>3. \A g \in Stage :
            d.spo[g] = (Steps(launch, d.tile)
                        + (IF d.pc \in {"tile", "done", "s"} THEN 0
                           ELSE OnStage(IF d.j < 2 * Half(launch, d.tile) - 2 THEN d.j
                                        ELSE 2 * Half(launch, d.tile) - 2, g))) % 2
      <4> SUFFICES ASSUME NEW g \in Stage
                   PROVE  d.spo[g] = (Steps(launch, d.tile)
                            + (IF d.pc \in {"tile", "done", "s"} THEN 0
                               ELSE OnStage(IF d.j < 2 * Half(launch, d.tile) - 2 THEN d.j
                                            ELSE 2 * Half(launch, d.tile) - 2, g))) % 2
        OBVIOUS
      <4>1. d.spo[g] = (Steps(launch, t) + 0) % 2
        BY <1>2, <1>9
      <4>2. CASE d.pc = "s"
        BY <1>9, <4>1, <4>2
      <4>3. CASE d.pc = "spo"
        <5>1. (IF d.j < n - 2 THEN d.j ELSE n - 2) = 0
          <6> HIDE DEF n
          <6> QED BY <1>6, <1>9, <4>3
        <5>2. OnStage(0, g) = 0
          BY DEF OnStage, Stage
        <5>3. OnStage(IF d.j < 2 * Half(launch, d.tile) - 2 THEN d.j ELSE 2 * Half(launch, d.tile) - 2, g) = 0
          BY <1>9, <5>1, <5>2
        <5> QED BY <1>9, <4>1, <4>3, <5>3
      <4> QED BY <1>9, <4>2, <4>3
    <3>4. d.q = QTaken(launch, d) % 2
      BY <1>2, <1>9
    <3>5. d.tile \in 1 .. Len(launch.work) + 1 /\ d.tile <= Len(launch.work) /\ Half(launch, d.tile) > 0
      BY <1>1, <1>2, <1>9
    <3> HIDE DEF P, k
    <3> QED BY <1>4, <1>9, <3>1, <3>2, <3>3, <3>4, <3>5 DEF MmaRole, MmaRegisters
  <2>2. InFlight'
    <3>1. UNCHANGED <<launch, inflight, ld>> /\ mm'.kv = mm.kv + 1 /\ QTaken(launch, mm') = QTaken(launch, mm)
      BY <1>4, <1>9
    <3> QED BY <1>5, <3>1, FlightTaken
  <2>3. mm'.kv <= KvLoads(ld) /\ QTaken(launch, mm') <= QLoads(launch, ld)
    <3>1. QTaken(launch, mm) <= QLoads(launch, ld)
      BY LoadSees
    <3> QED BY <1>5, <1>9, <3>1
  <2>4. \A g \in Stage, w \in Warps :
           /\ OnStage(Issued(launch, mm').pv2, g) <= Stored(launch, sm[g][w])
           /\ PTaken(launch, mm', g) <= Announced(launch, sm[g][w])
           /\ PTaken(launch, mm', g) <= Lets(launch, co[w], g)
    <3>1. d.pc # "v" /\ mm.pc # "v"
      BY <1>1, <1>9
    <3> QED BY <1>9, <3>1, MmaKeeps
  <2>5. UNCHANGED <<launch, bar, named, inflight, ld, sm, co, ep>>
    BY <1>4
  <2>6. Control(s)'
    BY <1>9, <2>1, <2>2, <2>3, <2>4, <2>5, MmaTurn
  <2> QED BY <1>9, <2>6
<1>10. tc \in Seq(Operation) /\ UNCHANGED launch
  BY <1>1, <1>4 DEF Registers
<1>11. CASE j = 0
  <2> DEFINE d == [mm EXCEPT !.j = 1, !.kv = k]
  <2>1. mm' = d
    BY <1>4, <1>11
  <2>2. MmaRegisters(d) /\ d.pc = "s" /\ d.j = 1 /\ d.kv = k /\ d.q = mm.q /\ d.spo = mm.spo /\ d.tile = t
    <3> HIDE DEF k
    <3> QED BY <1>1 DEF MmaRegisters
  <2> HIDE DEF d
  <2>3. Issued(launch, d) = P2
    <3>1. j + 1 = 1
      BY <1>11
    <3> HIDE DEF j, t
    <3> QED BY <2>2, <3>1 DEF Issued
  <2>4. QTaken(launch, d) = QTaken(launch, mm)
    BY <1>1, <2>2 DEF QTaken
  <2>5. tc' = Append(tc, op)
    <3>1. tc' = tc \o <<op>> \o <<>>
      BY <1>4, <1>11
    <3> HIDE DEF op
    <3> QED BY <1>10, <3>1
  <2>6. PICK s : tc' \in Seq(Operation) /\ Queue(s)' /\ s[1] = st[1]
    <3>1. Issues(launch, Issued(launch, mm), op, P2) /\ Issued(launch, mm') = P2
      BY <1>8, <2>1, <2>3
    <3> HIDE DEF op, P2
    <3> QED BY <1>10, <2>5, <3>1, IssueOne
  <2>7. Issued(launch, d).qk = P.qk + 1 /\ Issued(launch, d).pv1 = P.pv1 /\ Issued(launch, d).pv2 = P.pv2
    <3> HIDE DEF P, P2
    <3> QED BY <1>7, <2>3
  <2>8. d.pc \in {"s", "spo"} /\ d.j < 2 /\ d.pc # "spo"
    BY <2>2
  <2> HIDE DEF P, P2, k
  <2> QED BY <1>9, <2>1, <2>2, <2>4, <2>6, <2>7, <2>8
<1>12. CASE j = 1
  <2> DEFINE d == [mm EXCEPT !.pc = "spo", !.j = 0, !.kv = k]
  <2>1. mm' = d
    BY <1>4, <1>12
  <2>2. MmaRegisters(d) /\ d.pc = "spo" /\ d.j = 0 /\ d.kv = k /\ d.q = mm.q /\ d.spo = mm.spo /\ d.tile = t
    <3> HIDE DEF k
    <3> QED BY <1>1 DEF MmaRegisters
  <2> HIDE DEF d
  <2>3. Issued(launch, d) = IF n = 2 THEN P3 ELSE P2
    <3> DEFINE a == IF 0 + 2 < n THEN 0 + 2 ELSE n
    <3>1. Issued(launch, d) = At(launch, t, a, 0 + 0, 0 + 0, If(0 >= n - 2), If(0 = n - 1))
      <4>1. If(d.pc \in {"pv", "k"}) = 0 /\ If(d.pc = "k") = 0
        BY <2>2 DEF If
      <4>2. Issued(launch, d) =
              At(launch, d.tile, IF d.j + 2 < 2 * Half(launch, d.tile) THEN d.j + 2 ELSE 2 * Half(launch, d.tile),
                 d.j + If(d.pc \in {"pv", "k"}), d.j + If(d.pc = "k"),
                 If(d.j >= 2 * Half(launch, d.tile) - 2), If(d.j = 2 * Half(launch, d.tile) - 1))
        <5>1. d.pc \notin {"tile", "done"} /\ d.pc # "s"
          BY <2>2
        <5> QED BY <5>1 DEF Issued
      <4> QED BY <2>2, <4>1, <4>2
    <3>2. a = 2 /\ If(0 >= n - 2) = (IF n = 2 THEN 1 ELSE 0) /\ If(0 = n - 1) = 0 /\ j + 1 = 2
      <4>1. j + 1 = 2
        BY <1>12
      <4> HIDE DEF n, j
      <4> QED BY <1>6, <4>1 DEF If
    <3> HIDE DEF a, n, j, t
    <3> QED BY <3>1, <3>2
  <2>4. QTaken(launch, d) = QTaken(launch, mm)
    BY <1>1, <2>2 DEF QTaken
  <2>5. tc' = (tc \o <<op>>) \o ReleaseQ(0) /\ (ReleaseQ(0) = IF n = 2 THEN <<rel>> ELSE <<>>)
    <3>1. ReleaseQ(0) = IF 0 = n - 2 THEN <<rel>> ELSE <<>>
      BY <1>1 DEF ReleaseQ
    <3>2. 0 = n - 2 <=> n = 2
      <4> HIDE DEF n
      <4> QED BY <1>6
    <3>3. tc' = (tc \o <<op>>) \o ReleaseQ(0)
      BY <1>4, <1>12
    <3> QED BY <3>1, <3>2, <3>3
  <2>6. \E s : tc' \in Seq(Operation) /\ Queue(s)' /\ s[1] = st[1]
    <3>1. CASE n # 2
      <4>1. tc' = Append(tc, op)
        <5>1. tc' = (tc \o <<op>>) \o <<>>
          BY <2>5, <3>1
        <5> HIDE DEF op
        <5> QED BY <1>10, <5>1
      <4>2. Issues(launch, Issued(launch, mm), op, P2) /\ Issued(launch, mm') = P2
        BY <1>8, <2>1, <2>3, <3>1
      <4> HIDE DEF op, P2
      <4> QED BY <1>10, <4>1, <4>2, IssueOne
    <3>2. CASE n = 2
      <4>1. tc' = Append(Append(tc, op), rel)
        <5>1. tc' = (tc \o <<op>>) \o <<rel>>
          BY <2>5, <3>2
        <5>2. op \in Operation
          BY <1>8 DEF Issues
        <5> DEFINE q == Append(tc, op)
        <5> HIDE DEF op, rel
        <5>3. tc \o <<op>> = q /\ q \in Seq(Operation)
          BY <1>10, <5>2
        <5>4. tc' = q \o <<rel>>
          BY <5>1, <5>3
        <5> HIDE DEF q
        <5>5. tc' = Append(q, rel)
          BY <5>3, <5>4
        <5> QED BY <5>5 DEF q
      <4>2. Issues(launch, P2, rel, P3)
        <5>1. InRelease(n, j + 1, 0, 0, 0, 0) /\ 0 \in Nat /\ 0 + 1 = 1
          <6> HIDE DEF n, j
          <6> QED BY <1>6, <1>12, <3>2 DEF InRelease
        <5> DEFINE a == j + 1
                   b == 0 + 1
        <5>2. a \in Nat /\ InRelease(n, a, 0, 0, 0, 0)
          BY <1>6, <5>1
        <5> HIDE DEF a
        <5>3. Issues(launch, At(launch, t, a, 0, 0, 0, 0), rel, At(launch, t, a, 0, 0, 0 + 1, 0))
          BY <1>1, <5>1, <5>2, ReleaseAt
        <5>4. b = 1
          OBVIOUS
        <5>5. Issues(launch, At(launch, t, a, 0, 0, 0, 0), rel, At(launch, t, a, 0, 0, b, 0))
          BY <5>3
        <5> HIDE DEF b
        <5> QED BY <5>4, <5>5 DEF a
      <4>3. Issues(launch, Issued(launch, mm), op, P2) /\ Issued(launch, mm') = P3
        BY <1>8, <2>1, <2>3, <3>2
      <4> HIDE DEF op, rel, P2, P3
      <4> QED BY <1>10, <4>1, <4>2, <4>3, IssueTwo
    <3> QED BY <3>1, <3>2
  <2>7. Issued(launch, d).qk = P.qk + 1 /\ Issued(launch, d).pv1 = P.pv1 /\ Issued(launch, d).pv2 = P.pv2
    <3>1. P3.qk = P2.qk /\ P3.pv1 = P2.pv1 /\ P3.pv2 = P2.pv2
      BY DEF At
    <3> HIDE DEF P, P2, P3
    <3> QED BY <1>7, <2>3, <3>1
  <2>8. d.pc \in {"s", "spo"} /\ d.j < 2 /\ d.j = 0
    BY <2>2
  <2> HIDE DEF P, P2, k
  <2> QED BY <1>9, <2>1, <2>2, <2>4, <2>6, <2>7, <2>8
<1> QED BY <1>6, <1>11, <1>12

\* The next QK of a stage, and Q released after the last of them.
LEMMA MmaKStep ==
    ASSUME NEW st, Control(st), MmaK
    PROVE  \E s : Control(s)' /\ s[1] = st[1]
<1> DEFINE t == mm.tile
           j == mm.j
           g == mm.j % 2
           n == 2 * Half(launch, mm.tile)
           k == mm.kv + 1
           i == IndexOf(mm.kv)
           P == Issued(launch, mm)
           op == Op("QK", g, i, FALSE, {SpoFull(g), KvEmpty(i)})
           rel == Op("none", 0, 0, FALSE, {QEmpty})
           u == j + 1
           a == j + 2
           f == j + 3
           P2 == At(launch, t, f, u, u, 0, 0)
           P3 == At(launch, t, f, u, u, 1, 0)
           spo == [mm.spo EXCEPT ![g] = 1 - mm.spo[g]]
           d == [mm EXCEPT !.pc = "spo", !.j = u, !.kv = k, !.spo = spo]
<1>1. /\ Registers /\ MmaRole /\ MmaRegisters(mm) /\ launch \in Launches /\ j \in Nat /\ mm.kv \in Nat /\ k \in Nat
      /\ Steps(launch, t) \in Nat /\ Works(launch, t) \in Nat /\ P \in Point /\ mm.kv = P.qk + P.pv1 /\ N(t) = n
      /\ t \in 1 .. Len(launch.work) /\ Half(launch, t) \in Nat /\ Half(launch, t) > 0 /\ mm.pc = "k"
  BY MmaSees DEF MmaK
<1>2. /\ mm.q = QTaken(launch, mm) % 2 /\ t <= Len(launch.work) /\ t \in 1 .. Len(launch.work) + 1
      /\ \A h \in Stage : mm.spo[h] = (Steps(launch, t) + OnStage(IF j < n - 2 THEN j ELSE n - 2, h)) % 2
      /\ j < n - 2
  BY <1>1 DEF MmaRole
<1>3. /\ n \in Nat /\ u \in Nat /\ a \in Nat /\ f \in Nat /\ a < n /\ f <= n /\ u = j + 1 /\ a = u + 1 /\ f = a + 1
      /\ u < n /\ g \in Stage /\ (u = n - 2 <=> f = n) /\ u <= n - 2
  <2> DEFINE h == Half(launch, t)
  <2>1. n = 2 * h /\ h \in Nat /\ j \in Nat /\ j < n - 2 /\ g = j % 2 /\ u = j + 1 /\ a = j + 2 /\ f = j + 3
    BY <1>1, <1>2
  <2> HIDE DEF h, n, j, u, a, f, g
  <2> QED BY <2>1 DEF Stage
<1>4. P = At(launch, t, a, u, u, 0, 0)
  <2>1. If(mm.pc \in {"pv", "k"}) = 1 /\ If(mm.pc = "k") = 1
    BY <1>1 DEF If
  <2>2. P = At(launch, t, IF j + 2 < n THEN j + 2 ELSE n, j + 1, j + 1, If(j >= n - 2), If(j = n - 1))
    BY <1>1, <2>1, IssuedFrom
  <2>3. (IF j + 2 < n THEN j + 2 ELSE n) = a /\ If(j >= n - 2) = 0 /\ If(j = n - 1) = 0
    <3>1. a = j + 2 /\ n \in Nat /\ j \in Nat /\ j < n - 2
      BY <1>1, <1>2, <1>3
    <3> HIDE DEF n, j, a
    <3>2. j + 2 < n /\ ~(j >= n - 2) /\ j # n - 1
      BY <3>1
    <3> QED BY <3>1, <3>2 DEF If
  <2> HIDE DEF P, n, a, t
  <2> QED BY <2>2, <2>3
<1>5. /\ UNCHANGED <<launch, bar, named, inflight, ld, sm, co, ep>> /\ Done(KvFull(i), PhaseOf(mm.kv))
      /\ tc' = tc \o <<op>> \o ReleaseQ(j + 1)
      /\ mm' = d
  BY DEF MmaK, memory
<1>6. mm.kv + 1 <= KvLoads(ld) /\ Flying(mm.kv) = 0
  BY <1>5, KvWait
<1>7. /\ P.qk % 2 = g /\ Slots(P) = mm.kv /\ P2.qk = P.qk + 1 /\ P2.pv1 = P.pv1 /\ P2.pv2 = P.pv2
  <2> DEFINE s == Steps(launch, t)
  <2>1. P.qk = 2 * s + a /\ P.pv1 = 2 * s + u /\ P.pv2 = 2 * s + u
    <3> HIDE DEF P
    <3> QED BY <1>4 DEF At
  <2>2. P2.qk = 2 * s + f /\ P2.pv1 = 2 * s + u /\ P2.pv2 = 2 * s + u
    BY DEF At
  <2>3. s \in Nat /\ g = j % 2 /\ mm.kv = P.qk + P.pv1
    BY <1>1
  <2>4. j \in Nat /\ u = j + 1 /\ a = u + 1 /\ f = a + 1
    BY <1>1, <1>3
  <2> HIDE DEF s, P, P2, j, g, u, a, f
  <2> QED BY <2>1, <2>2, <2>3, <2>4 DEF Slots
<1> HIDE DEF u, a, f
<1>8. Issues(launch, P, op, P2)
  <2>1. InQK(n, a, u, u, 0, 0) /\ 0 \in Nat
    <3> HIDE DEF n, j
    <3> QED BY <1>3 DEF InQK
  <2>2. LET R == At(launch, t, a, u, u, 0, 0) IN
        Issues(launch, R, Op("QK", R.qk % 2, IndexOf(Slots(R)), FALSE,
                             {SpoFull(R.qk % 2), KvEmpty(IndexOf(Slots(R)))}), At(launch, t, a + 1, u, u, 0, 0))
    BY <1>1, <1>3, <2>1, QKAt
  <2>3. Issues(launch, P, Op("QK", P.qk % 2, IndexOf(Slots(P)), FALSE,
                             {SpoFull(P.qk % 2), KvEmpty(IndexOf(Slots(P)))}), P2)
    <3>1. f = a + 1
      BY <1>3
    <3> HIDE DEF P, t
    <3> QED BY <1>4, <2>2, <3>1 DEF P2
  <2> HIDE DEF P, P2, g, t
  <2> QED BY <1>7, <2>3
<1>9. spo \in [Stage -> {0, 1}] /\ \A h \in Stage : spo[h] = IF h = g THEN 1 - mm.spo[g] ELSE mm.spo[h]
  <2>1. mm.spo \in [Stage -> {0, 1}]
    BY <1>1 DEF MmaRegisters
  <2>2. 1 - mm.spo[g] \in {0, 1}
    BY <1>3, <2>1
  <2> HIDE DEF g
  <2> QED BY <1>3, <2>1, <2>2
<1> HIDE DEF spo
<1>10. MmaRegisters(d) /\ d.pc = "spo" /\ d.j = u /\ d.kv = k /\ d.q = mm.q /\ d.spo = spo /\ d.tile = t
  <2> HIDE DEF k
  <2> QED BY <1>1, <1>3, <1>9 DEF MmaRegisters
<1> HIDE DEF d
<1>11. tc \in Seq(Operation) /\ UNCHANGED launch
  BY <1>1, <1>5 DEF Registers
<1>12. QTaken(launch, d) = QTaken(launch, mm)
  BY <1>1, <1>10 DEF QTaken
<1>13. Issued(launch, d) = IF u = n - 2 THEN P3 ELSE P2
  <2> DEFINE c == IF u + 2 < n THEN u + 2 ELSE n
  <2>1. Issued(launch, d) = At(launch, t, c, u + 0, u + 0, If(u >= n - 2), If(u = n - 1))
    <3>1. If(d.pc \in {"pv", "k"}) = 0 /\ If(d.pc = "k") = 0
      BY <1>10 DEF If
    <3>2. Issued(launch, d) =
            At(launch, d.tile, IF d.j + 2 < 2 * Half(launch, d.tile) THEN d.j + 2 ELSE 2 * Half(launch, d.tile),
               d.j + If(d.pc \in {"pv", "k"}), d.j + If(d.pc = "k"),
               If(d.j >= 2 * Half(launch, d.tile) - 2), If(d.j = 2 * Half(launch, d.tile) - 1))
      <4>1. d.pc \notin {"tile", "done"} /\ d.pc # "s"
        BY <1>10
      <4> QED BY <4>1 DEF Issued
    <3> QED BY <1>10, <3>1, <3>2
  <2>2. c = f /\ If(u >= n - 2) = (IF u = n - 2 THEN 1 ELSE 0) /\ If(u = n - 1) = 0 /\ u + 0 = u
    <3> HIDE DEF n, j
    <3> QED BY <1>3 DEF If
  <2> HIDE DEF c, n, j, t
  <2> QED BY <2>1, <2>2
<1>14. tc' = (tc \o <<op>>) \o ReleaseQ(j + 1) /\ (ReleaseQ(j + 1) = IF u = n - 2 THEN <<rel>> ELSE <<>>)
  <2>1. ReleaseQ(j + 1) = IF j + 1 = n - 2 THEN <<rel>> ELSE <<>>
    BY <1>1 DEF ReleaseQ
  <2>2. j + 1 = u
    BY <1>3
  <2>3. tc' = (tc \o <<op>>) \o ReleaseQ(j + 1)
    BY <1>5
  <2> HIDE DEF rel, op, n, j
  <2> QED BY <2>1, <2>2, <2>3
<1>15. \E s : tc' \in Seq(Operation) /\ Queue(s)' /\ s[1] = st[1]
  <2>1. CASE u # n - 2
    <3>1. tc' = Append(tc, op)
      <4>1. tc' = (tc \o <<op>>) \o <<>>
        BY <1>14, <2>1
      <4> HIDE DEF op
      <4> QED BY <1>11, <4>1
    <3>2. Issues(launch, Issued(launch, mm), op, P2) /\ Issued(launch, mm') = P2
      BY <1>5, <1>8, <1>13, <2>1
    <3> HIDE DEF op, P2
    <3> QED BY <1>11, <3>1, <3>2, IssueOne
  <2>2. CASE u = n - 2
    <3>1. tc' = Append(Append(tc, op), rel)
      <4>1. tc' = (tc \o <<op>>) \o <<rel>>
        BY <1>14, <2>2
      <4>2. op \in Operation
        BY <1>8 DEF Issues
      <4> DEFINE q == Append(tc, op)
      <4> HIDE DEF op, rel
      <4>3. tc \o <<op>> = q /\ q \in Seq(Operation)
        BY <1>11, <4>2
      <4>4. tc' = q \o <<rel>>
        BY <4>1, <4>3
      <4> HIDE DEF q
      <4>5. tc' = Append(q, rel)
        BY <4>3, <4>4
      <4> QED BY <4>5 DEF q
    <3>2. Issues(launch, P2, rel, P3)
      <4>1. InRelease(n, f, u, u, 0, 0) /\ 0 \in Nat
        <5> HIDE DEF n, j
        <5> QED BY <1>3, <2>2 DEF InRelease
      <4> DEFINE b == 0 + 1
      <4>2. Issues(launch, At(launch, t, f, u, u, 0, 0), rel, At(launch, t, f, u, u, 0 + 1, 0))
        BY <1>1, <1>3, <4>1, ReleaseAt
      <4>3. b = 1
        OBVIOUS
      <4>4. Issues(launch, At(launch, t, f, u, u, 0, 0), rel, At(launch, t, f, u, u, b, 0))
        BY <4>2
      <4> HIDE DEF b
      <4> QED BY <4>3, <4>4
    <3>3. Issues(launch, Issued(launch, mm), op, P2) /\ Issued(launch, mm') = P3
      BY <1>5, <1>8, <1>13, <2>2
    <3> HIDE DEF op, rel, P2, P3
    <3> QED BY <1>11, <3>1, <3>2, <3>3, IssueTwo
  <2> QED BY <2>1, <2>2
<1>16. Issued(launch, d).qk = P.qk + 1 /\ Issued(launch, d).pv1 = P.pv1 /\ Issued(launch, d).pv2 = P.pv2
  <2>1. P3.qk = P2.qk /\ P3.pv1 = P2.pv1 /\ P3.pv2 = P2.pv2
    BY DEF At
  <2> HIDE DEF P, P2, P3
  <2> QED BY <1>7, <1>13, <2>1
<1>17. MmaRole'
  <2>1. d.kv = Issued(launch, d).qk + Issued(launch, d).pv1
    <3> DEFINE x == Issued(launch, d).qk
               y == Issued(launch, d).pv1
    <3>1. x = P.qk + 1 /\ y = P.pv1 /\ P.qk \in Nat /\ P.pv1 \in Nat /\ mm.kv = P.qk + P.pv1 /\ d.kv = mm.kv + 1
      BY <1>1, <1>10, <1>16, PointFacts
    <3> HIDE DEF x, y, P
    <3>2. d.kv = x + y
      BY <3>1
    <3> QED BY <3>2 DEF x, y
  <2>2. \A h \in Stage : d.spo[h] = (Steps(launch, t) + OnStage(IF u < n - 2 THEN u ELSE n - 2, h)) % 2
    <3> SUFFICES ASSUME NEW h \in Stage
                 PROVE  d.spo[h] = (Steps(launch, t) + OnStage(IF u < n - 2 THEN u ELSE n - 2, h)) % 2
      OBVIOUS
    <3> DEFINE s == Steps(launch, t)
               x == OnStage(j, h)
               y == OnStage(u, h)
               z == mm.spo[h]
    <3>1. (IF u < n - 2 THEN u ELSE n - 2) = u
      <4> HIDE DEF n
      <4> QED BY <1>3
    <3>2. y = x + If(h = g) /\ x \in Nat
      BY <1>1, <1>3, Alternate DEF u
    <3>3. z = (s + x) % 2 /\ s \in Nat
      BY <1>1, <1>2
    <3>4. d.spo[h] = IF h = g THEN 1 - z ELSE z
      BY <1>9, <1>10
    <3>5. d.spo[h] = (s + y) % 2
      <4>1. CASE h = g
        <5>1. y = x + 1 /\ d.spo[h] = 1 - z
          BY <3>2, <3>4, <4>1 DEF If
        <5> HIDE DEF s, x, y, z
        <5> QED BY <3>2, <3>3, <5>1
      <4>2. CASE h # g
        <5>1. y = x + 0 /\ d.spo[h] = z
          BY <3>2, <3>4, <4>2 DEF If
        <5> HIDE DEF s, x, y, z
        <5> QED BY <3>2, <3>3, <5>1
      <4> QED BY <4>1, <4>2
    <3> QED BY <3>1, <3>5
  <2>3. d.q = QTaken(launch, d) % 2
    BY <1>2, <1>10, <1>12
  <2> HIDE DEF P, k
  <2> QED BY <1>1, <1>2, <1>3, <1>5, <1>10, <2>1, <2>2, <2>3 DEF MmaRole, MmaRegisters
<1>18. InFlight'
  <2>1. UNCHANGED <<launch, inflight, ld>> /\ mm'.kv = mm.kv + 1 /\ QTaken(launch, mm') = QTaken(launch, mm)
    BY <1>5, <1>10, <1>12
  <2> QED BY <1>6, <2>1, FlightTaken
<1>19. mm'.kv <= KvLoads(ld) /\ QTaken(launch, mm') <= QLoads(launch, ld)
  <2>1. QTaken(launch, mm) <= QLoads(launch, ld)
    BY LoadSees
  <2> QED BY <1>5, <1>6, <1>10, <1>12, <2>1
<1>20. \A h \in Stage, w \in Warps :
         /\ OnStage(Issued(launch, mm').pv2, h) <= Stored(launch, sm[h][w])
         /\ PTaken(launch, mm', h) <= Announced(launch, sm[h][w])
         /\ PTaken(launch, mm', h) <= Lets(launch, co[w], h)
  <2>1. d.pc # "v" /\ mm.pc # "v"
    BY <1>1, <1>10
  <2> QED BY <1>5, <1>16, <2>1, MmaKeeps
<1>21. PICK s : tc' \in Seq(Operation) /\ Queue(s)' /\ s[1] = st[1]
  BY <1>15
<1>22. UNCHANGED <<launch, bar, named, inflight, ld, sm, co, ep>>
  BY <1>5
<1>23. Control(s)'
  BY <1>17, <1>18, <1>19, <1>20, <1>21, <1>22, MmaTurn
<1> QED BY <1>21, <1>23

LEMMA MmaStep ==
    ASSUME NEW st, Control(st), Mma
    PROVE  \E s : Control(s)' /\ s[1] = st[1]
<1>1. CASE MmaQ
  BY <1>1, MmaQStep
<1>2. CASE MmaSkip
  BY <1>2, MmaSkipStep
<1>3. CASE MmaS
  BY <1>3, MmaSStep
<1>4. CASE MmaSpo
  BY <1>4, MmaSpoStep
<1>5. CASE MmaV
  BY <1>5, MmaVStep
<1>6. CASE MmaPv
  BY <1>6, MmaPvStep
<1>7. CASE MmaK
  BY <1>7, MmaKStep
<1>8. CASE MmaFree
  BY <1>8, MmaFreeStep
<1> QED BY <1>1, <1>2, <1>3, <1>4, <1>5, <1>6, <1>7, <1>8 DEF Mma

-----------------------------------------------------------------------------
(* The start, and the invariant.                                           *)

LEMMA PhaseStart ==
    ASSUME NEW b, bar[b] = [par |-> 0, left |-> Expected(b)], Expected(b) = 1
    PROVE  Phases(bar[b], 0)
  BY DEF Phases

LEMMA AllStart ==
    ASSUME NEW b, bar[b] = [par |-> 0, left |-> Expected(b)], NEW S, S # {}, Expected(b) = Cardinality(S),
           NEW A, \A w \in S : A[w] = 0
    PROVE  AllOf(bar[b], S, A)
<1>1. {w \in S : A[w] = 0} = S
  OBVIOUS
<1>2. \E w \in S : A[w] = 0
  OBVIOUS
<1>3. 0 % 2 = 0 /\ 0 \in Nat
  OBVIOUS
<1>4. \A w \in S : A[w] \in {0, 0 + 1}
  OBVIOUS
<1>5. bar[b] = [par |-> 0 % 2, left |-> Cardinality({w \in S : A[w] = 0})]
  BY <1>1, <1>3
<1> QED BY <1>2, <1>3, <1>4, <1>5 DEF AllOf

LEMMA StartFacts ==
    ASSUME Init
    PROVE  /\ Registers /\ launch \in Launches /\ tc = <<>> /\ inflight = {}
           /\ \A b \in BarId : bar[b] = [par |-> 0, left |-> Expected(b)]
           /\ Steps(launch, 1) = 0 /\ Works(launch, 1) = 0 /\ 1 \in 1 .. Len(launch.work) + 1
           /\ At(launch, 1, 0, 0, 0, 0, 0) = [qk |-> 0, pv1 |-> 0, pv2 |-> 0, rel |-> 0, last |-> 0]
           /\ \A g \in Stage : OnStage(0, g) = 0
           /\ KvLoads(ld) = 0 /\ QLoads(launch, ld) = 0 /\ QTaken(launch, mm) = 0
           /\ Issued(launch, mm) = At(launch, 1, 0, 0, 0, 0, 0)
           /\ \A g \in Stage : PTaken(launch, mm, g) = 0
<1>1. launch \in Launches /\ tc = <<>> /\ inflight = {} /\ DOMAIN bar = BarId
      /\ \A b \in BarId : bar[b] = [par |-> 0, left |-> Expected(b)]
  BY DEF Init
<1>2. Registers
  BY <1>1 DEF Registers
<1>3. Steps(launch, 1) = 0 /\ Works(launch, 1) = 0
  BY <1>1, FirstTile
<1>4. 1 \in 1 .. Len(launch.work) + 1
  BY <1>1, LaunchFacts
<1>5. At(launch, 1, 0, 0, 0, 0, 0) = [qk |-> 0, pv1 |-> 0, pv2 |-> 0, rel |-> 0, last |-> 0]
  BY <1>3 DEF At
<1>6. \A g \in Stage : OnStage(0, g) = 0
  BY DEF OnStage, Stage
<1>7. ld.pc = "tile" /\ ld.tile = 1 /\ ld.kv = KvStages /\ mm.pc = "tile" /\ mm.tile = 1
  BY DEF Init
<1>8. KvLoads(ld) = 0
  BY <1>7 DEF KvLoads, KvStages
<1>9. QLoads(launch, ld) = 0
  BY <1>3, <1>7 DEF QLoads
<1>10. QTaken(launch, mm) = 0
  BY <1>3, <1>7 DEF QTaken, If
<1>11. Issued(launch, mm) = At(launch, 1, 0, 0, 0, 0, 0)
  BY <1>7 DEF Issued
<1>12. \A g \in Stage : PTaken(launch, mm, g) = 0
  <2> SUFFICES ASSUME NEW g \in Stage PROVE PTaken(launch, mm, g) = 0
    OBVIOUS
  <2>1. Issued(launch, mm).pv1 = 0
    BY <1>5, <1>11
  <2>2. PTaken(launch, mm, g) = OnStage(0, g) + 0
    BY <1>7, <2>1 DEF PTaken, If
  <2> QED BY <1>6, <2>2
<1> QED BY <1>1, <1>2, <1>3, <1>4, <1>5, <1>6, <1>8, <1>9, <1>10, <1>11, <1>12

LEMMA StartRoles ==
    ASSUME Init
    PROVE  /\ LoadRole /\ MmaRole
           /\ \A g \in Stage, w \in Warps :
                /\ SoftmaxRole(sm[g][w]) /\ Stored(launch, sm[g][w]) = 0 /\ Reads(launch, sm[g][w]) = 0
                /\ Announced(launch, sm[g][w]) = 0 /\ Signals(launch, sm[g][w]) = 0
                /\ Acquired(launch, sm[g][w]) = 0
           /\ \A w \in Warps : CorrectionRole(co[w]) /\ co[w].tile = 1 /\ co[w].pc = "start" /\ Reduced(co[w]) = 0
           /\ \A g \in Stage, w \in Warps :
                /\ Lets(launch, co[w], g) = 0 /\ Meets(launch, co[w], g) = 0
                /\ Returns(launch, co[w], g) = 0 /\ Waited(launch, co[w], g) = 0
<1>1. /\ Steps(launch, 1) = 0 /\ Works(launch, 1) = 0 /\ 1 \in 1 .. Len(launch.work) + 1
      /\ At(launch, 1, 0, 0, 0, 0, 0) = [qk |-> 0, pv1 |-> 0, pv2 |-> 0, rel |-> 0, last |-> 0]
      /\ \A g \in Stage : OnStage(0, g) = 0
      /\ QLoads(launch, ld) = 0 /\ QTaken(launch, mm) = 0
      /\ Issued(launch, mm) = At(launch, 1, 0, 0, 0, 0, 0)
  BY StartFacts
<1>2. LoadRole
  <2>1. ld = [pc |-> "tile", tile |-> 1, j |-> 0, kv |-> KvStages, q |-> 1, epi |-> 0]
    BY DEF Init
  <2>2. KvStages \in Nat /\ (1 + 1) % 2 = 0 /\ (0 + 1) % 2 = 1 /\ KvStages + 4 * 0 = KvStages
    BY DEF KvStages
  <2> QED BY <1>1, <2>1, <2>2 DEF LoadRole
<1>3. MmaRole
  <2>1. /\ mm = [pc |-> "tile", tile |-> 1, j |-> 0, kv |-> 0, q |-> 0, v |-> 0, spo |-> [g \in Stage |-> 0]]
    BY DEF Init
  <2>2. Issued(launch, mm).qk = 0 /\ Issued(launch, mm).pv1 = 0
    BY <1>1
  <2>3. 0 % 2 = 0 /\ (0 + 0) % 2 = 0 /\ 0 + 0 = 0 /\ \A g \in Stage : [h \in Stage |-> 0][g] = 0
    OBVIOUS
  <2>4. [g \in Stage |-> 0] \in [Stage -> {0, 1}]
    OBVIOUS
  <2> QED BY <1>1, <2>1, <2>2, <2>3, <2>4 DEF MmaRole
<1>4. ASSUME NEW g \in Stage, NEW w \in Warps
      PROVE  /\ SoftmaxRole(sm[g][w]) /\ Stored(launch, sm[g][w]) = 0 /\ Reads(launch, sm[g][w]) = 0
             /\ Announced(launch, sm[g][w]) = 0 /\ Signals(launch, sm[g][w]) = 0
             /\ Acquired(launch, sm[g][w]) = 0
  <2> DEFINE s == sm[g][w]
  <2>1. s = [pc |-> "tile", tile |-> 1, n |-> 0, s |-> 0, stats |-> 1, score |-> Nothing]
    BY <1>4 DEF Init
  <2> HIDE DEF s
  <2>2. Stored(launch, s) = 0
    BY <1>1, <2>1 DEF Stored
  <2>3. Reads(launch, s) = 0 /\ Announced(launch, s) = 0
    BY <2>1, <2>2 DEF Reads, Announced, If
  <2>4. Signals(launch, s) = 0 /\ Acquired(launch, s) = 0
    BY <1>1, <2>1 DEF Signals, Acquired
  <2>5. SoftmaxRole(s)
    <3>1. 0 % 2 = 0 /\ (0 + 1) % 2 = 1
      OBVIOUS
    <3> QED BY <1>1, <2>1, <2>2, <2>4, <3>1 DEF SoftmaxRole
  <2> QED BY <2>2, <2>3, <2>4, <2>5 DEF s
<1>5. ASSUME NEW w \in Warps
      PROVE  CorrectionRole(co[w]) /\ co[w].tile = 1 /\ co[w].pc = "start" /\ Reduced(co[w]) = 0
  <2> DEFINE c == co[w]
  <2>1. c = [pc |-> "start", tile |-> 1, j |-> 0, oacc |-> 0, epi |-> 1, scale |-> NoScale, ok |-> TRUE]
    BY <1>5 DEF Init
  <2> HIDE DEF c
  <2>2. Reduced(c) = 0
    BY <2>1 DEF Reduced, If
  <2>3. CorrectionRole(c)
    <3>1. 0 % 2 = 0 /\ 1 % 2 = 1
      OBVIOUS
    <3> QED BY <1>1, <2>1, <3>1 DEF CorrectionRole
  <2> QED BY <2>1, <2>2, <2>3 DEF c
<1>6. ASSUME NEW g \in Stage, NEW w \in Warps
      PROVE  /\ Lets(launch, co[w], g) = 0 /\ Meets(launch, co[w], g) = 0
             /\ Returns(launch, co[w], g) = 0 /\ Waited(launch, co[w], g) = 0
  <2> DEFINE c == co[w]
  <2>1. c.pc = "start" /\ c.tile = 1 /\ c.j = 0
    BY <1>6 DEF Init
  <2> HIDE DEF c
  <2>2. ~(0 > g)
    BY DEF Stage
  <2>3. Lets(launch, c, g) = 0 /\ Waited(launch, c, g) = 0
    BY <1>1, <2>1 DEF Lets, Waited, If
  <2>4. Meets(launch, c, g) = 0 /\ Returns(launch, c, g) = 0
    BY <1>1, <2>1, <2>2 DEF Meets, Returns, If
  <2> QED BY <2>3, <2>4 DEF c
<1> QED BY <1>2, <1>3, <1>4, <1>5, <1>6

LEMMA StartControl ==
    ASSUME Init
    PROVE  \E st : Control(st)
<1> DEFINE e == At(launch, 1, 0, 0, 0, 0, 0)
<1>1. /\ Registers /\ launch \in Launches /\ tc = <<>> /\ inflight = {}
      /\ e = [qk |-> 0, pv1 |-> 0, pv2 |-> 0, rel |-> 0, last |-> 0]
      /\ \A g \in Stage : OnStage(0, g) = 0
      /\ KvLoads(ld) = 0 /\ QLoads(launch, ld) = 0 /\ QTaken(launch, mm) = 0
      /\ Issued(launch, mm) = e
      /\ \A g \in Stage : PTaken(launch, mm, g) = 0
  BY StartFacts
<1>2. \A b \in BarId : bar[b] = [par |-> 0, left |-> Expected(b)]
  BY StartFacts
<1>3. /\ LoadRole /\ MmaRole
      /\ \A g \in Stage, w \in Warps :
           /\ SoftmaxRole(sm[g][w]) /\ Stored(launch, sm[g][w]) = 0 /\ Reads(launch, sm[g][w]) = 0
           /\ Announced(launch, sm[g][w]) = 0 /\ Signals(launch, sm[g][w]) = 0
           /\ Acquired(launch, sm[g][w]) = 0
  BY StartRoles
<1>4. \A w \in Warps : CorrectionRole(co[w]) /\ co[w].tile = 1 /\ co[w].pc = "start" /\ Reduced(co[w]) = 0
  BY StartRoles
<1>5. \A g \in Stage, w \in Warps :
         /\ Lets(launch, co[w], g) = 0 /\ Meets(launch, co[w], g) = 0
         /\ Returns(launch, co[w], g) = 0 /\ Waited(launch, co[w], g) = 0
  BY StartRoles
<1>6. Warps # {} /\ IsFiniteSet(Warps)
  BY <1>1, Tile
<1>7. /\ e.qk = 0 /\ e.pv1 = 0 /\ e.pv2 = 0 /\ e.rel = 0 /\ e.last = 0 /\ Slots(e) = 0 /\ e \in Point
  <2> HIDE DEF e
  <2> QED BY <1>1 DEF Slots, Point
<1> HIDE DEF e
<1>8. PICK st : st = <<e>>
  OBVIOUS
<1>9. st[1] = e
  BY <1>8
<1>10. Queue(st)
  <2>1. Ahead(e, e)
    BY <1>7 DEF Ahead
  <2>2. st \in Seq(Point) /\ Len(st) = 1 /\ Len(tc) = 0
    BY <1>1, <1>7, <1>8
  <2>3. st[Len(st)] = Issued(launch, mm)
    BY <1>1, <1>9, <2>2
  <2>4. \A x, y \in 1 .. Len(st) : x <= y => Ahead(st[x], st[y])
    BY <1>9, <2>1, <2>2
  <2> QED BY <2>2, <2>3, <2>4 DEF Queue
<1>11. KvRing(e)
  <2>1. mm.kv = 0
    BY DEF Init
  <2>2. ASSUME NEW i \in 0 .. 2 PROVE /\ i \in Int /\ IndexOf(i) \in Slot /\ i \div 3 = 0 /\ Flying(i - 3) = 0
    <3>1. i \in Int /\ i \div 3 = 0 /\ ~(i - 3 >= 0)
      BY <2>2
    <3> QED BY <3>1, Ring DEF Flying, If
  <2>3. \A i \in 0 .. 2 : Phases(bar[KvFull(IndexOf(i))], (i \div 3) - Flying(i - 3))
    <3> SUFFICES ASSUME NEW i \in 0 .. 2 PROVE Phases(bar[KvFull(IndexOf(i))], (i \div 3) - Flying(i - 3))
      OBVIOUS
    <3>1. (i \div 3) - Flying(i - 3) = 0 /\ IndexOf(i) \in Slot
      BY <2>2
    <3>2. Phases(bar[KvFull(IndexOf(i))], 0)
      BY <1>2, <3>1, BarNames, PhaseStart
    <3> QED BY <3>1, <3>2
  <2>4. \A i \in 0 .. 2 : Phases(bar[KvEmpty(IndexOf(i))], i \div 3)
    <3> SUFFICES ASSUME NEW i \in 0 .. 2 PROVE Phases(bar[KvEmpty(IndexOf(i))], i \div 3)
      OBVIOUS
    <3>1. Phases(bar[KvEmpty(IndexOf(i))], 0)
      BY <1>2, <2>2, BarNames, PhaseStart
    <3> QED BY <2>2, <3>1
  <2> QED BY <1>1, <1>7, <2>1, <2>3, <2>4 DEF KvRing, KvStages
<1>12. QTile(e) /\ InFlight
  <2>1. ~QFlying
    BY <1>1 DEF QFlying
  <2>2. QLoads(launch, ld) - If(QFlying) = 0
    <3>1. If(QFlying) = 0
      BY <2>1 DEF If
    <3> QED BY <1>1, <3>1
  <2>3. Phases(bar[QFull], 0) /\ Phases(bar[QEmpty], 0)
    BY <1>2, BarNames, PhaseStart
  <2> QED BY <1>1, <1>7, <2>2, <2>3 DEF QTile, InFlight
<1>13. ByTensorCore(e)
  <2>1. \A g \in Stage : Phases(bar[SpoFull(g)], 0) /\ Phases(bar[OAcc(g)], 0)
    BY <1>2, BarNames, PhaseStart
  <2> QED BY <1>1, <1>7, <2>1 DEF ByTensorCore
<1>14. Scores2P(e)
  <2>1. Rows(sm, Stage, Warps)
    BY DEF Init, Rows
  <2>2. \A g \in Stage : AllOf(bar[LastSplit(g)], Warps, Stores(g))
    <3> SUFFICES ASSUME NEW g \in Stage PROVE AllOf(bar[LastSplit(g)], Warps, Stores(g))
      OBVIOUS
    <3>1. \A w \in Warps : Stores(g)[w] = 0
      BY <1>3 DEF Stores
    <3> QED BY <1>2, <1>6, <3>1, WarpBarNames, AllStart
  <2>3. OnStage(e.qk, 0) = 0 /\ OnStage(e.qk, 1) = 0
    BY <1>1, <1>7 DEF Stage
  <2>4. \A g \in Stage : OnStage(e.qk, g) = 0 /\ OnStage(Issued(launch, mm).pv2, g) = 0
    BY <1>1, <1>7
  <2> QED BY <1>1, <1>3, <2>1, <2>2, <2>4 DEF Scores2P
<1>15. Corrections
  <2>1. co \in [Warps -> {co[w] : w \in Warps}]
    BY DEF Init
  <2> QED BY <1>4, <2>1 DEF Corrections
<1>16. OFree
  <2>1. \A g \in Stage : AllOf(bar[SpoEmpty(g)], Participants, Frees(g))
    <3> SUFFICES ASSUME NEW g \in Stage PROVE AllOf(bar[SpoEmpty(g)], Participants, Frees(g))
      OBVIOUS
    <3>1. /\ \A x \in Participants : x[1] \in {"softmax", "correction"} /\ x[2] \in Warps
          /\ \A w \in Warps : <<"softmax", w>> \in Participants
          /\ Expected(SpoEmpty(g)) = Cardinality(Participants)
      BY <1>1, ParticipantsTwice
    <3>2. \A x \in Participants : Frees(g)[x] = 0
      BY <1>3, <1>5, <3>1 DEF Frees
    <3>3. Participants # {} /\ SpoEmpty(g) \in BarId
      BY <1>6, <3>1, WarpBarNames
    <3> QED BY <1>2, <3>1, <3>2, <3>3, AllStart
  <2> QED BY <1>1, <1>5, <2>1 DEF OFree
<1>17. Statistics
  <2>1. named \in [Stage -> [Warps -> Nat]] /\ \A g \in Stage, w \in Warps : named[g][w] = 0
    BY DEF Init
  <2>2. \A g \in Stage : AllOf(bar[StatsEmpty(g)], Warps, Returned(g))
    <3> SUFFICES ASSUME NEW g \in Stage PROVE AllOf(bar[StatsEmpty(g)], Warps, Returned(g))
      OBVIOUS
    <3>1. \A w \in Warps : Returned(g)[w] = 0
      BY <1>5 DEF Returned
    <3> QED BY <1>2, <1>6, <3>1, WarpBarNames, AllStart
  <2> QED BY <1>3, <1>5, <2>1, <2>2 DEF Statistics
<1>18. ODone(e)
  BY <1>1, <1>5, <1>7 DEF ODone
<1>19. ep = [pc |-> "tile", tile |-> 1, epi |-> 0, ld |-> 1] /\ ld.tile = 1
  BY DEF Init
<1>20. OTile
  <2>1. OStored(ep) = 0
    BY <1>19 DEF OStored, If
  <2>2. AllOf(bar[EpiFull], Warps, TilesStored) /\ AllOf(bar[Reduce], Warps, Reductions)
    <3>1. (\A w \in Warps : TilesStored[w] = 0) /\ \A w \in Warps : Reductions[w] = 0
      BY <1>4 DEF TilesStored, Reductions
    <3> QED BY <1>2, <1>6, <3>1, WarpBarNames, AllStart
  <2>3. Phases(bar[EpiEmpty], 0)
    BY <1>2, BarNames, PhaseStart
  <2>4. \A w \in Warps : /\ 0 <= co[w].tile - 1 /\ co[w].tile - 1 <= 0 + 1
                         /\ co[w].pc \notin {"combine", "store", "done"}
    BY <1>4
  <2>5. 1 \in 1 .. Len(launch.work) + 1 /\ 0 % 2 = 0 /\ 1 % 2 = 1
    BY StartFacts
  <2>6. ep \in [pc : {"tile", "ld"}, tile : Nat, epi : {0, 1}, ld : {0, 1}]
    BY <1>19
  <2> QED BY <1>19, <2>1, <2>2, <2>3, <2>4, <2>5, <2>6 DEF OTile
<1>21. LoadEpiTurn
  <2>1. Phases(bar[LoadEpiFull], 0) /\ Phases(bar[LoadEpiEmpty], 0)
    BY <1>2, BarNames, PhaseStart
  <2>2. ld.tile <= ep.tile /\ ep.tile <= ld.tile + 1 /\ ep.tile - 1 = 0 /\ ld.tile - 1 = 0
    BY <1>19
  <2> QED BY <2>1, <2>2 DEF LoadEpiTurn
<1>22. Control(st)
  <2>1. KvRing(st[1]) /\ QTile(st[1]) /\ ByTensorCore(st[1]) /\ Scores2P(st[1]) /\ ODone(st[1])
    BY <1>9, <1>11, <1>12, <1>13, <1>14, <1>18, Zenon
  <2> QED BY <1>1, <1>3, <1>10, <1>12, <1>15, <1>16, <1>17, <1>20, <1>21, <2>1 DEF Control
<1> QED BY <1>22

LEMMA ControlStutter ==
    ASSUME NEW st, Control(st), UNCHANGED vars
    PROVE  Control(st)'
<1>1. /\ Registers /\ LoadRole /\ MmaRole /\ Queue(st)
      /\ KvRing(st[1]) /\ QTile(st[1]) /\ InFlight /\ ByTensorCore(st[1])
      /\ Scores2P(st[1]) /\ Corrections /\ OFree /\ Statistics /\ ODone(st[1]) /\ OTile
      /\ LoadEpiTurn
  BY DEF Control
<1>2. UNCHANGED <<launch, bar, named, inflight, tc, ld, mm, sm, co, ep>>
  BY DEF vars, memory
<1>3. Registers' /\ DOMAIN bar = BarId
  BY <1>1, <1>2 DEF Registers
<1>4. \A names : Still(names)
  BY <1>2, <1>3, StillSame
<1>5. mm'.kv <= KvLoads(ld) /\ QTaken(launch, mm') <= QLoads(launch, ld)
  BY <1>2, LoadSees
<1>6. LoadRole' /\ MmaRole' /\ Queue(st)' /\ InFlight' /\ Corrections' /\ ODone(st[1])'
  BY <1>1, <1>2, LoadFrame, MmaFrame, QueueFrame, FlightFrame, CorrectionFrame, ODoneFrame
<1>7. KvRing(st[1])'
  BY <1>1, <1>2, <1>4, <1>5, KvFrame
<1>8. QTile(st[1])'
  BY <1>1, <1>2, <1>4, <1>5, QFrame
<1>9. ByTensorCore(st[1])' /\ Scores2P(st[1])'
  BY <1>1, <1>2, <1>4, CoreFrame, ScoresFrame
<1>10. OFree' /\ Statistics'
  BY <1>1, <1>2, <1>4, FreeFrame, StatFrame
<1>11. OTile' /\ LoadEpiTurn'
  BY <1>1, <1>2, <1>4, OTileFrame, TurnFrame
<1> QED BY <1>3, <1>6, <1>7, <1>8, <1>9, <1>10, <1>11 DEF Control

\* The point the queue begins at moves with the tensor core only.
LEMMA ControlStep ==
    ASSUME NEW st, Control(st), [Next]_vars
    PROVE  \E s : Control(s)' /\ (s[1] = st[1] \/ (TensorCore /\ s = Tail(st)))
<1>1. CASE UNCHANGED vars
  BY <1>1, ControlStutter
<1>2. CASE Load
  BY <1>2, LoadStep
<1>3. CASE Mma
  BY <1>3, MmaStep
<1>4. CASE TensorCore
  <2>1. PICK s : s = Tail(st)
    OBVIOUS
  <2>2. Control(s)'
    BY <1>4, <2>1, TensorCoreStep
  <2> QED BY <1>4, <2>1, <2>2
<1>5. CASE Epilogue
  BY <1>5, EpilogueStep
<1>6. CASE \E c \in inflight : Land(c)
  BY <1>6, LandStep
<1>7. CASE \E g \in Stage, w \in Warps : Softmax(g, w)
  BY <1>7, SoftmaxStep
<1>8. CASE \E w \in Warps : Correction(w)
  BY <1>8, CorrectionStep
<1>9. CASE Terminating
  <2>1. UNCHANGED vars
    BY <1>9 DEF Terminating
  <2> QED BY <2>1, ControlStutter
<1> QED BY <1>1, <1>2, <1>3, <1>4, <1>5, <1>6, <1>7, <1>8, <1>9 DEF Next

(* The control of the CTA, for every launch: at any moment there is a way to *)
(* read the tensor core's queue as the next operations of the MMA warp's     *)
(* program, such that every mbarrier's phase is the number of times its      *)
(* users have arrived on it, and every warp is as far behind the ones it     *)
(* waits for as the code needs: no barrier is ever a phase out of step.      *)
ControlInvariant == \E st : Control(st)

THEOREM ControlHolds == Spec => []ControlInvariant
<1>1. Init => ControlInvariant
  BY StartControl DEF ControlInvariant
<1>2. ControlInvariant /\ [Next]_vars => ControlInvariant'
  BY ControlStep DEF ControlInvariant
<1> QED BY <1>1, <1>2, PTL DEF Spec
=============================================================================
