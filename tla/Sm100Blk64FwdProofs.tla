------------------------ MODULE Sm100Blk64FwdProofs ------------------------
(***************************************************************************)
(* TLAPS proofs about what Sm100Blk64Fwd promises, for every list of       *)
(* tiles, every number of sparse blocks in each of them and every number   *)
(* of warps: consequences of Control, and what the buffers hold.           *)
(***************************************************************************)
EXTENDS Sm100Blk64FwdControlProofs


-----------------------------------------------------------------------------
(* What the memory holds.                                                   *)

QData ==
    (QLoads(launch, ld) > 0 /\ ~QFlying) =>
        /\ sQ \in 1 .. Len(launch.work) /\ Half(launch, sQ) > 0
        /\ Works(launch, sQ) + 1 = QLoads(launch, ld)
KvData(e) ==
    /\ DOMAIN kv = Slot
    /\ \A i \in Slots(e) .. KvLoads(ld) - 1 : Flying(i) = 0 => kv[IndexOf(i)] = Item(launch, i)
ScaleData ==
    /\ DOMAIN kScale = Stage
    /\ launch.fp8 => \A g \in Stage :
         Published(launch, mm, g) > 0 =>
             kScale[g] = StepTag(launch, "scale", g, Published(launch, mm, g) - 1)
\* Row x of stage g, of softmax warp s, after c QKs on that stage.
SpRow(s, x, g, c) ==
    LET k == Stored(launch, s)
    IN  /\ s.pc = "p2" => x = StepTag(launch, "P1", g, k)
        /\ (s.pc # "p2" /\ c = k + 1) => x = StepTag(launch, "S", g, k)
        /\ (s.pc # "p2" /\ c = k /\ k > 0) => x = StepTag(launch, "P", g, k - 1)
        /\ s.pc \in {"scale", "p1", "p2"} => s.score = StepTag(launch, "S", g, k)
SpData(e) ==
    /\ Rows(sp, Stage, Warps)
    /\ \A g \in Stage, w \in Warps : SpRow(sm[g][w], sp[g][w], g, OnStage(e.qk, g))
\* What softmax warp s left in its slot x: a scale, later its row sum.
SlotOf(s, x) ==
    /\ (s.pc \in {"p1", "p2"} /\ s.n > 0) => x = [k |-> "scale", tile |-> s.tile, n |-> s.n]
    /\ (s.pc \in {"s", "scale", "sum"} /\ s.n > 1) => x = [k |-> "scale", tile |-> s.tile, n |-> s.n - 1]
    /\ (s.pc \in {"tile", "done"} /\ s.tile > 1 /\ Half(launch, s.tile - 1) > 0) =>
         x = [k |-> "sum", tile |-> s.tile - 1, n |-> Half(launch, s.tile - 1)]
StatData ==
    /\ Rows(sScale, Stage, Warps)
    /\ \A g \in Stage, w \in Warps : SlotOf(sm[g][w], sScale[g][w])
\* A correction warp has the statistics its step is for.
CorrectionRow(c) ==
    /\ c.ok = TRUE
    /\ c.pc = "rescale" => c.scale = [k |-> "scale", tile |-> c.tile, n |-> c.j \div 2 + 1]
CorrectionData == \A w \in Warps : CorrectionRow(co[w])

-----------------------------------------------------------------------------
(* What the control keeps apart.                                           *)

\* The operation x of the queue.
LEMMA InQueue ==
    ASSUME NEW st, Control(st), NEW x \in DOMAIN tc
    PROVE  /\ st[x] \in Point /\ st[x + 1] \in Point /\ Placed(launch, st[x])
           /\ Step(launch, st[x], tc[x], st[x + 1]) /\ Effect(st[x], tc[x], st[x + 1])
           /\ Ahead(st[1], st[x]) /\ Ahead(st[x + 1], Issued(launch, mm))
<1>1. Registers /\ MmaRole /\ Queue(st) /\ launch \in Launches
  BY DEF Control, Registers
<1>2. Len(tc) \in Nat /\ Len(st) = Len(tc) + 1 /\ (\A y \in 1 .. Len(tc) + 1 : st[y] \in Point)
  BY <1>1, QueueFacts
<1>3. x \in 1 .. Len(tc)
  BY <1>1 DEF Registers
<1>4. x + 1 \in 1 .. Len(st) /\ x \in 1 .. Len(st) /\ 1 \in 1 .. Len(st) /\ Len(st) \in 1 .. Len(st)
  BY <1>2, <1>3
<1>5. Step(launch, st[x], tc[x], st[x + 1]) /\ st[Len(st)] = Issued(launch, mm)
  BY <1>1, <1>3 DEF Queue
<1>6. \A i, j \in 1 .. Len(st) : i <= j => Ahead(st[i], st[j])
  BY <1>1 DEF Queue
<1>7. Ahead(st[1], st[x])
  <2>1. 1 <= x
    BY <1>3
  <2> QED BY <1>4, <1>6, <2>1
<1>8. Ahead(st[x + 1], st[Len(st)])
  <2>1. x + 1 <= Len(st)
    BY <1>2, <1>3
  <2> DEFINE y == x + 1
             z == Len(st)
  <2>2. y \in 1 .. Len(st) /\ z \in 1 .. Len(st) /\ y <= z
    BY <1>4, <2>1
  <2> HIDE DEF y, z
  <2>3. Ahead(st[y], st[z])
    BY <1>6, <2>2
  <2> QED BY <2>3 DEF y, z
<1>9. st[x] \in Point /\ st[x + 1] \in Point
  BY <1>2, <1>4
<1>10. Effect(st[x], tc[x], st[x + 1])
  BY <1>1, <1>5, <1>9, StepEffect
<1>11. Placed(launch, st[x])
  BY <1>1, <1>5, StepPlaced
<1> QED BY <1>5, <1>7, <1>8, <1>9, <1>10, <1>11

\* Its stage and its slot.
LEMMA StageOfOp ==
    ASSUME NEW l \in Launches, NEW P, NEW op, NEW P2, Step(l, P, op, P2)
    PROVE  /\ op.do \in {"QK", "PV1", "PV2", "none"}
           /\ op.do = "QK" => op.g = P.qk % 2
           /\ op.do \in {"PV1", "PV2"} => op.g = P.pv2 % 2
           /\ op.do # "none" => op.slot = IndexOf(Slots(P))
  BY DEF Step, StepIn, QKStep, ReleaseStep, PV1Step, PV2Step, Op

\* A QK counts on its stage.
LEMMA QKCounts ==
    ASSUME NEW st, Control(st), NEW x \in DOMAIN tc, tc[x].do = "QK", NEW g \in Stage, g = tc[x].g
    PROVE  OnStage(st[1].qk, g) + 1 <= OnStage(Issued(launch, mm).qk, g)
<1>1. /\ st[x] \in Point /\ st[x + 1] \in Point /\ Step(launch, st[x], tc[x], st[x + 1])
      /\ Effect(st[x], tc[x], st[x + 1]) /\ Ahead(st[1], st[x]) /\ Ahead(st[x + 1], Issued(launch, mm))
  BY InQueue
<1>2. launch \in Launches /\ st[1] \in Point /\ Issued(launch, mm) \in Point
  <2>1. Registers /\ MmaRole /\ Queue(st)
    BY DEF Control
  <2> QED BY <2>1, QueueFacts DEF Registers
<1>3. g = st[x].qk % 2
  BY <1>1, <1>2, StageOfOp
<1>4. st[x + 1].qk = st[x].qk + 1
  BY <1>1 DEF Effect, Adds
<1> DEFINE a == st[1].qk
           b == st[x].qk
           c == Issued(launch, mm).qk
<1>5. a \in Nat /\ b \in Nat /\ c \in Nat /\ a <= b /\ b + 1 <= c /\ g = b % 2
  BY <1>1, <1>2, <1>3, <1>4 DEF Point, Ahead
<1> HIDE DEF a, b, c
<1>6. OnStage(b + 1, g) = OnStage(b, g) + 1 /\ OnStage(b, g) \in Nat
  BY <1>5, Alternate DEF If
<1>7. OnStage(a, g) <= OnStage(b, g) /\ OnStage(b + 1, g) <= OnStage(c, g)
  <2>1. b + 1 \in Nat
    BY <1>5
  <2> QED BY <1>5, <2>1, AlternateKeeps
<1>8. OnStage(a, g) + 1 <= OnStage(c, g)
  <2>1. OnStage(a, g) \in Nat /\ OnStage(c, g) \in Nat
    BY <1>5, Alternate
  <2> QED BY <1>6, <1>7, <2>1
<1> QED BY <1>8 DEF a, c

\* A PV counts on its stage, and the QK after the next PV there is not issued.
LEMMA PVCounts ==
    ASSUME NEW st, Control(st), NEW x \in DOMAIN tc, tc[x].do \in {"PV1", "PV2"}, NEW g \in Stage,
           g = tc[x].g
    PROVE  /\ OnStage(st[1].qk, g) <= OnStage(Issued(launch, mm).pv1, g)
           /\ st[1].pv2 + 1 <= Issued(launch, mm).pv1
<1>1. /\ st[x] \in Point /\ st[x + 1] \in Point /\ Step(launch, st[x], tc[x], st[x + 1])
      /\ Effect(st[x], tc[x], st[x + 1]) /\ Ahead(st[1], st[x]) /\ Ahead(st[x + 1], Issued(launch, mm))
      /\ Placed(launch, st[x])
  BY InQueue
<1>2. launch \in Launches /\ st[1] \in Point /\ Issued(launch, mm) \in Point
  <2>1. Registers /\ MmaRole /\ Queue(st)
    BY DEF Control
  <2> QED BY <2>1, QueueFacts DEF Registers
<1>3. g = st[x].pv2 % 2
  BY <1>1, <1>2, StageOfOp
<1>4. st[x].qk <= st[x].pv2 + 2 /\ st[x].pv2 <= st[x].pv1
  BY <1>1, <1>2, PlacedFacts
<1>5. st[x + 1].pv1 >= st[x].pv2 + 1
  <2>1. tc[x].do = "PV1" => st[x + 1].pv1 = st[x].pv1 + 1
    BY <1>1 DEF Effect, Adds
  <2>2. tc[x].do = "PV2" => st[x + 1].pv2 = st[x].pv2 + 1
    BY <1>1 DEF Effect, Adds
  <2>3. st[x + 1].pv2 <= st[x + 1].pv1
    <3>1. x = Len(tc) \/ x + 1 \in DOMAIN tc
      <4>1. tc \in Seq(Operation)
        BY DEF Control, Registers
      <4> QED BY <4>1
    <3>2. CASE x + 1 \in DOMAIN tc
      <4>1. PICK y : y = x + 1
        OBVIOUS
      <4>2. Placed(launch, st[y])
        BY <3>2, <4>1, InQueue
      <4>3. st[y].pv2 <= st[y].pv1
        BY <1>2, <4>2, PlacedFacts
      <4> QED BY <4>1, <4>3
    <3>3. CASE x = Len(tc)
      <4>1. Registers /\ MmaRole /\ Queue(st)
        BY DEF Control
      <4>2. st[x + 1] = Issued(launch, mm)
        BY <3>3, <4>1 DEF Queue
      <4>3. Placed(launch, Issued(launch, mm))
        BY <4>1, IssuedPlaced
      <4> QED BY <1>2, <4>2, <4>3, PlacedFacts
    <3> QED BY <3>1, <3>2, <3>3
  <2>4. st[x].pv1 \in Nat /\ st[x].pv2 \in Nat /\ st[x + 1].pv1 \in Nat /\ st[x + 1].pv2 \in Nat
    BY <1>1 DEF Point
  <2> QED BY <1>4, <2>1, <2>2, <2>3, <2>4
<1> DEFINE a == st[1].qk
           b == st[x].qk
           v == st[x].pv2
           d == st[1].pv2
           c == Issued(launch, mm).pv1
<1>6. /\ a \in Nat /\ b \in Nat /\ c \in Nat /\ v \in Nat /\ d \in Nat
      /\ a <= b /\ b <= v + 2 /\ v + 1 <= c /\ d <= v /\ g = v % 2
  <2>1. a \in Nat /\ b \in Nat /\ c \in Nat /\ v \in Nat /\ d \in Nat
    BY <1>1, <1>2 DEF Point
  <2>2. a <= b /\ d <= v
    BY <1>1 DEF Ahead
  <2>3. v + 1 <= c
    <3>1. st[x + 1].pv1 <= c /\ st[x + 1].pv1 \in Nat
      BY <1>1 DEF Ahead, Point
    <3>2. v + 1 <= st[x + 1].pv1
      BY <1>5, <2>1, <3>1
    <3> HIDE DEF v, c
    <3> QED BY <2>1, <3>1, <3>2
  <2> QED BY <1>3, <1>4, <2>1, <2>2, <2>3
<1> HIDE DEF a, b, c, d, v
<1>7. OnStage(v + 1, g) = OnStage(v, g) + 1 /\ OnStage(v + 2, g) = OnStage(v, g) + 1 /\ OnStage(v, g) \in Nat
  BY <1>6, Alternate DEF If
<1>8. OnStage(a, g) <= OnStage(v + 2, g) /\ OnStage(v + 1, g) <= OnStage(c, g)
  <2>1. v + 1 \in Nat /\ v + 2 \in Nat /\ a <= v + 2
    BY <1>6
  <2> QED BY <1>6, <2>1, AlternateKeeps
<1>9. OnStage(a, g) <= OnStage(c, g)
  <2>1. OnStage(a, g) \in Nat /\ OnStage(c, g) \in Nat
    BY <1>6, Alternate
  <2> QED BY <1>7, <1>8, <2>1
<1>10. d + 1 <= c
  BY <1>6
<1> QED BY <1>9, <1>10 DEF a, c, d

\* QKs before a softmax warp is done with its scores.
LEMMA NoScoresEarly ==
    ASSUME NEW st, Control(st), NEW x \in DOMAIN tc, tc[x].do = "QK", NEW g \in Stage, g = tc[x].g,
           NEW w \in Warps
    PROVE  sm[g][w].pc \notin {"scale", "p1", "p2"}
<1> SUFFICES ASSUME sm[g][w].pc \in {"scale", "p1", "p2"} PROVE FALSE
  OBVIOUS
<1>1. Registers /\ MmaRole /\ Queue(st)
  BY DEF Control
<1>2. /\ Reads(launch, sm[g][w]) <= OnStage(st[1].qk, g)
      /\ OnStage(Issued(launch, mm).pv2, g) <= Stored(launch, sm[g][w])
      /\ Stored(launch, sm[g][w]) \in Nat
  BY SoftmaxSees
<1>3. Reads(launch, sm[g][w]) = Stored(launch, sm[g][w]) + 1
  BY DEF Reads, If
<1>4. OnStage(st[1].qk, g) + 1 <= OnStage(Issued(launch, mm).qk, g)
  BY QKCounts
<1>5. /\ OnStage(Issued(launch, mm).qk, g) <= OnStage(Issued(launch, mm).pv2, g) + 1
      /\ OnStage(st[1].qk, g) \in Nat /\ OnStage(Issued(launch, mm).pv2, g) \in Nat
      /\ OnStage(Issued(launch, mm).qk, g) \in Nat
  BY <1>1, StageCounts
<1> QED BY <1>2, <1>3, <1>4, <1>5

\* PVs of a stage while a correction warp is at its O.
LEMMA NoPVWhileRescaled ==
    ASSUME NEW st, Control(st), NEW x \in DOMAIN tc, tc[x].do \in {"PV1", "PV2"}, NEW g \in Stage,
           g = tc[x].g, NEW w \in Warps, co[w].pc = "rescale"
    PROVE  co[w].j % 2 # g
<1> SUFFICES ASSUME co[w].j % 2 = g PROVE FALSE
  OBVIOUS
<1>1. Registers /\ MmaRole /\ Queue(st)
  BY DEF Control
<1>2. Lets(launch, co[w], g) + 1 <= OnStage(st[1].qk, g)
  BY RescaleAhead
<1>3. PTaken(launch, mm, g) <= Lets(launch, co[w], g) /\ Lets(launch, co[w], g) \in Nat
  BY MmaWaits
<1>4. OnStage(st[1].qk, g) <= OnStage(Issued(launch, mm).pv1, g)
  BY PVCounts
<1>5. /\ OnStage(Issued(launch, mm).pv1, g) <= PTaken(launch, mm, g) /\ PTaken(launch, mm, g) \in Nat
      /\ OnStage(st[1].qk, g) \in Nat /\ OnStage(Issued(launch, mm).pv1, g) \in Nat
  BY <1>1, StageCounts
<1> QED BY <1>2, <1>3, <1>4, <1>5

\* After the last PV of the tile t on both stages, its PVs are done.
LEMMA TileDone ==
    ASSUME NEW P \in Point, NEW s \in Nat, OnStage(P.pv2, 0) >= s, OnStage(P.pv2, 1) >= s
    PROVE  P.pv2 >= 2 * s
<1> DEFINE c == P.pv2
<1>1. c \in Nat
  BY DEF Point
<1> HIDE DEF c
<1>2. (c + 1 - 1) \div 2 >= s
  BY DEF c, OnStage
<1>3. (c + 1 - 1) = c
  BY <1>1
<1>4. c >= 2 * s
  BY <1>1, <1>2, <1>3
<1> QED BY <1>4 DEF c

LEMMA NoPVWhileCombined ==
    ASSUME NEW st, Control(st), NEW x \in DOMAIN tc, tc[x].do \in {"PV1", "PV2"}, tc[x].g \in Stage,
           NEW w \in Warps, co[w].pc = "combine", HasWork(co[w].tile)
    PROVE  FALSE
<1> DEFINE t == co[w].tile
           s == Steps(launch, t) + Half(launch, t)
           c == Issued(launch, mm).pv1
<1>1. Registers /\ MmaRole /\ Queue(st) /\ launch \in Launches
  BY DEF Control, Registers
<1>2. /\ t \in 1 .. Len(launch.work) /\ Half(launch, t) > 0 /\ Half(launch, t) \in Nat
      /\ Steps(launch, t) \in Nat /\ Works(launch, t) \in Nat
  <2>1. CorrectionRole(co[w])
    BY CorrectionSees
  <2>2. t \in 1 .. Len(launch.work)
    BY <1>1, <2>1, Tile DEF CorrectionRole
  <2> QED BY <1>1, <2>2, Tile
<1>3. st[1] \in Point /\ Issued(launch, mm) \in Point /\ Placed(launch, st[1])
  BY <1>1, QueueFacts
<1>4. \A g \in Stage : OnStage(st[1].pv2, g) >= s
  <2> SUFFICES ASSUME NEW g \in Stage PROVE OnStage(st[1].pv2, g) >= s
    OBVIOUS
  <2>1. Waited(launch, co[w], g) <= OnStage(st[1].last, g) /\ OnStage(st[1].last, g) \in Nat
    BY CorrectionSees
  <2>2. Waited(launch, co[w], g) = Works(launch, t) + 1
    BY <1>2 DEF Waited, If
  <2>3. OnStage(st[1].last, g) >= Works(launch, t) + 1
    BY <1>2, <2>1, <2>2
  <2> HIDE DEF t
  <2> QED BY <1>1, <1>2, <1>3, <2>3, LastMeansAll
<1>5. \A g \in Stage : OnStage(c, g) <= s
  <2> SUFFICES ASSUME NEW g \in Stage PROVE OnStage(c, g) <= s
    OBVIOUS
  <2>1. PTaken(launch, mm, g) <= Lets(launch, co[w], g) /\ PTaken(launch, mm, g) \in Nat
    BY MmaWaits
  <2>2. OnStage(c, g) <= PTaken(launch, mm, g) /\ OnStage(c, g) \in Nat
    BY <1>1, StageCounts
  <2>3. Lets(launch, co[w], g) = 1 + Steps(launch, t) + (Half(launch, t) - 1)
    BY <1>2 DEF Lets, AfterSteps
  <2>4. Lets(launch, co[w], g) = s
    BY <1>2, <2>3
  <2> HIDE DEF s
  <2>5. s \in Int
    BY <1>2 DEF s
  <2> QED BY <2>1, <2>2, <2>4, <2>5
<1>6. s \in Nat
  BY <1>2
<1>7. st[1].pv2 + 1 <= c
  BY PVCounts
<1>8. c \in Nat /\ st[1].pv2 \in Nat
  BY <1>3 DEF Point
<1> HIDE DEF s
<1>9. st[1].pv2 >= 2 * s
  <2>1. 0 \in Stage /\ 1 \in Stage
    BY DEF Stage
  <2> QED BY <1>3, <1>4, <1>6, <2>1, TileDone
<1> HIDE DEF c
<1>10. c <= 2 * s
  <2>1. (c + 1 - 0) \div 2 <= s
    <3>1. OnStage(c, 0) <= s
      BY <1>5 DEF Stage
    <3> QED BY <3>1 DEF OnStage
  <2>2. c + 1 - 0 = c + 1
    BY <1>8
  <2> QED BY <1>6, <1>8, <2>1, <2>2
<1> QED BY <1>6, <1>7, <1>8, <1>9, <1>10

LEMMA ControlTmem ==
    ASSUME NEW st, Control(st)
    PROVE  TmemExclusive
<1> SUFFICES ASSUME NEW op \in Queued, NEW w \in Warps
             PROVE  /\ op.do = "QK" => sm[op.g][w].pc \notin {"scale", "p1", "p2"}
                    /\ op.do \in {"PV1", "PV2"} =>
                         /\ ~(co[w].pc = "combine" /\ HasWork(co[w].tile))
                         /\ co[w].pc = "rescale" => co[w].j % 2 # op.g
  BY DEF TmemExclusive
<1>1. PICK x \in DOMAIN tc : op = tc[x]
  BY DEF Queued
<1>2. op \in Operation
  <2>1. tc \in Seq(Operation)
    BY DEF Control, Registers
  <2> QED BY <1>1, <2>1
<1>3. op.g \in Stage
  BY <1>2 DEF Operation
<1>4. ASSUME op.do = "QK" PROVE sm[op.g][w].pc \notin {"scale", "p1", "p2"}
  BY <1>1, <1>3, <1>4, NoScoresEarly
<1>5. ASSUME op.do \in {"PV1", "PV2"}, co[w].pc = "combine", HasWork(co[w].tile) PROVE FALSE
  BY <1>1, <1>3, <1>5, NoPVWhileCombined
<1>6. ASSUME op.do \in {"PV1", "PV2"}, co[w].pc = "rescale" PROVE co[w].j % 2 # op.g
  BY <1>1, <1>3, <1>6, NoPVWhileRescaled
<1> QED BY <1>4, <1>5, <1>6

(* Tensor memory is never used by the tensor core and a warp at once, for    *)
(* every launch: no QK is queued on a stage whose P a warp has still to      *)
(* write, and no PV on an O stage that is being rescaled or combined.        *)
THEOREM TmemExclusiveHolds == Spec => []TmemExclusive
<1>1. ControlInvariant => TmemExclusive
  BY ControlTmem DEF ControlInvariant
<1> QED BY <1>1, ControlHolds, PTL

\* No work between two tiles, no steps between them.
LEMMA NoStepsBetween ==
    ASSUME NEW l \in Launches, NEW t \in 1 .. Len(l.work) + 1, NEW u \in 1 .. Len(l.work) + 1,
           t <= u, Works(l, t) = Works(l, u)
    PROVE  Steps(l, t) = Steps(l, u)
<1> DEFINE W(x) == {v \in 1 .. x - 1 : Half(l, v) > 0}
<1>1. 1 .. t - 1 \subseteq 1 .. u - 1 /\ u - 1 \in Nat /\ 1 .. u - 1 \subseteq 1 .. Len(l.work)
  BY LaunchFacts
<1>2. W(t) = W(u)
  <2>1. W(t) \subseteq W(u)
    BY <1>1
  <2>2. IsFiniteSet(1 .. u - 1)
    BY <1>1, FS_Interval
  <2>3. IsFiniteSet(W(u))
    <3>1. W(u) \subseteq 1 .. u - 1
      OBVIOUS
    <3> QED BY <2>2, <3>1, FS_Subset
  <2>4. Cardinality(W(t)) = Cardinality(W(u))
    BY DEF Works
  <2> QED BY <2>1, <2>3, <2>4, FS_Subset
<1>3. Before(l, u) \subseteq Before(l, t)
  <2> SUFFICES ASSUME NEW x \in Before(l, u) PROVE x \in Before(l, t)
    OBVIOUS
  <2>1. PICK v \in 1 .. u - 1 : x \in {v} \X (0 .. Half(l, v) - 1)
    BY DEF Before
  <2>2. Half(l, v) \in Nat /\ Half(l, v) > 0
    <3>1. Half(l, v) \in Nat
      BY <1>1, LaunchFacts
    <3>2. 0 .. Half(l, v) - 1 # {}
      BY <2>1
    <3> QED BY <3>1, <3>2
  <2>3. v \in 1 .. t - 1
    BY <1>2, <2>2
  <2> QED BY <2>1, <2>3 DEF Before
<1>4. Before(l, t) \subseteq Before(l, u)
  <2> SUFFICES ASSUME NEW x \in Before(l, t) PROVE x \in Before(l, u)
    OBVIOUS
  <2>1. PICK v \in 1 .. t - 1 : x \in {v} \X (0 .. Half(l, v) - 1)
    BY DEF Before
  <2>2. v \in 1 .. u - 1
    BY <1>1
  <2> QED BY <2>1, <2>2 DEF Before
<1>5. Before(l, t) = Before(l, u)
  BY <1>3, <1>4
<1> QED BY <1>5 DEF Steps

\* As many last PVs as tiles with work before t: all their operations are done.
LEMMA TilesDone ==
    ASSUME NEW l \in Launches, NEW P, Placed(l, P), NEW t \in 1 .. Len(l.work) + 1,
           OnStage(P.last, 1) >= Works(l, t)
    PROVE  P.qk >= 2 * Steps(l, t) /\ P.pv2 >= 2 * Steps(l, t)
<1>0. Len(l.work) \in Nat /\ 1 \in Stage
  BY LaunchFacts DEF Stage
<1>1. PICK y \in 1 .. Len(l.work) + 1, q \in Nat, u \in Nat, v \in Nat, r \in Nat, x \in Nat :
        /\ P = At(l, y, q, u, v, r, x)
        /\ \/ q = 0 /\ u = 0 /\ v = 0 /\ r = 0 /\ x = 0
           \/ /\ y <= Len(l.work) /\ Half(l, y) > 0
              /\ InTile(2 * Half(l, y), q, u, v, r, x)
  BY DEF Placed
<1>2. /\ Steps(l, y) \in Nat /\ Works(l, y) \in Nat /\ Steps(l, t) \in Nat /\ Works(l, t) \in Nat
  BY TileCounts
<1>3. P.last = 2 * Works(l, y) + x /\ P.pv2 = 2 * Steps(l, y) + v /\ P.qk = 2 * Steps(l, y) + q
  BY <1>1 DEF At
<1>4. x \in {0, 1}
  BY <1>1 DEF InTile, InQK, InRelease, InPV, If
<1>5. OnStage(P.last, 1) = Works(l, y)
  <2>1. OnStage(P.last, 1) = Works(l, y) + OnStage(x, 1)
    BY <1>0, <1>2, <1>3, AlternateFrom
  <2>2. OnStage(x, 1) = 0
    BY <1>4 DEF OnStage
  <2> QED BY <1>2, <2>1, <2>2
<1>6. Steps(l, y) >= Steps(l, t)
  <2>1. CASE t <= y
    BY <2>1, Later
  <2>2. CASE y < t
    <3>1. Works(l, y) <= Works(l, t)
      BY <2>2, Later
    <3>2. Works(l, y) = Works(l, t)
      BY <1>2, <1>5, <3>1
    <3>3. Steps(l, y) = Steps(l, t)
      BY <2>2, <3>2, NoStepsBetween
    <3> QED BY <1>2, <3>3
  <2> QED BY <2>1, <2>2
<1> QED BY <1>2, <1>3, <1>6

\* When the tensor core has done what was issued, its queue is empty.
LEMMA NothingQueued ==
    ASSUME NEW st, Control(st), NEW op \in Queued, op.do # "none",
           Slots(st[1]) >= mm.kv
    PROVE  FALSE
<1>1. PICK x \in DOMAIN tc : op = tc[x]
  BY DEF Queued
<1>2. /\ st[x] \in Point /\ st[x + 1] \in Point /\ Step(launch, st[x], tc[x], st[x + 1])
      /\ Effect(st[x], tc[x], st[x + 1]) /\ Ahead(st[1], st[x]) /\ Ahead(st[x + 1], Issued(launch, mm))
      /\ Placed(launch, st[x])
  BY InQueue
<1>3. Registers /\ MmaRole /\ Queue(st) /\ launch \in Launches
  BY DEF Control, Registers
<1>4. st[1] \in Point /\ Issued(launch, mm) \in Point /\ Placed(launch, st[1])
  BY <1>3, QueueFacts
<1>5. st[1].pv2 <= st[1].pv1
  BY <1>3, <1>4, PlacedFacts
<1>6. mm.kv = Issued(launch, mm).qk + Issued(launch, mm).pv1
  BY <1>3 DEF MmaRole
<1> DEFINE a == st[1]
           b == st[x]
           c == st[x + 1]
           d == Issued(launch, mm)
<1>7. /\ a.qk \in Nat /\ a.pv1 \in Nat /\ a.pv2 \in Nat /\ b.qk \in Nat /\ b.pv1 \in Nat /\ b.pv2 \in Nat
      /\ c.qk \in Nat /\ c.pv1 \in Nat /\ c.pv2 \in Nat /\ d.qk \in Nat /\ d.pv1 \in Nat
  BY <1>2, <1>4 DEF Point
<1>8. /\ a.qk <= b.qk /\ a.pv1 <= b.pv1 /\ a.pv2 <= b.pv2 /\ c.qk <= d.qk /\ c.pv1 <= d.pv1
  BY <1>2 DEF Ahead
<1>9. a.qk + a.pv2 >= d.qk + d.pv1
  BY <1>6 DEF Slots
<1>10. b.qk <= c.qk /\ b.pv1 <= c.pv1
  BY <1>2, <1>7 DEF Effect, Adds
<1>11. CASE op.do = "QK"
  <2>1. c.qk = b.qk + 1
    BY <1>1, <1>2, <1>11 DEF Effect, Adds
  <2> HIDE DEF a, b, c, d
  <2> QED BY <1>5, <1>7, <1>8, <1>9, <1>10, <2>1 DEF a
<1>12. CASE op.do \in {"PV1", "PV2"}
  <2>1. st[1].pv2 + 1 <= d.pv1
    <3>1. op.g \in Stage
      <4>1. tc \in Seq(Operation)
        BY <1>3 DEF Registers
      <4>2. op \in Operation
        BY <1>1, <4>1
      <4> QED BY <4>2 DEF Operation
    <3> QED BY <1>1, <1>12, <3>1, PVCounts
  <2> HIDE DEF b, c, d
  <2> QED BY <1>7, <1>8, <1>9, <1>10, <2>1
<1> QED BY <1>1, <1>2, <1>3, <1>11, <1>12, StageOfOp

\* The load warp is not ahead of a tile the epilogue has not stored.
LEMMA LoadsBehind ==
    ASSUME NEW st, Control(st), AliasEpilogue, NEW t \in 1 .. Len(launch.work), ep.tile <= t
    PROVE  KvLoads(ld) <= 4 * Steps(launch, t + 1)
<1>1. Registers /\ LoadRole /\ LoadEpiTurn /\ launch \in Launches /\ ep.tile \in Nat
  BY EpilogueSees DEF Registers
<1>2. /\ Len(launch.work) \in Nat /\ ld.tile \in 1 .. Len(launch.work) + 1 /\ t + 1 \in 1 .. Len(launch.work) + 1
      /\ ld.pc \in {"kv", "epi"} => ld.tile \in 1 .. Len(launch.work)
  BY <1>1, Tile DEF LoadRole
<1>3. KvLoads(ld) <= 4 * Steps(launch, IF ld.pc \in {"kv", "epi"} THEN ld.tile + 1 ELSE ld.tile)
  <2>1. /\ ld.kv = KvStages + (IF ld.pc = "kv" THEN 4 * Steps(launch, ld.tile) + ld.j
                               ELSE IF ld.pc = "epi" THEN 4 * Steps(launch, ld.tile + 1)
                               ELSE 4 * Steps(launch, ld.tile))
        /\ (ld.pc = "kv" => ld.j < 4 * Half(launch, ld.tile)) /\ ld.j \in Nat
    BY <1>1 DEF LoadRole
  <2>2. KvLoads(ld) = ld.kv - KvStages /\ KvStages = 3
    BY DEF KvLoads, KvStages
  <2>3. CASE ld.pc = "kv"
    <3>1. /\ Steps(launch, ld.tile + 1) = Steps(launch, ld.tile) + Half(launch, ld.tile)
          /\ Steps(launch, ld.tile) \in Nat /\ Half(launch, ld.tile) \in Nat
      BY <1>1, <1>2, <2>3, Tile
    <3>2. KvLoads(ld) = 4 * Steps(launch, ld.tile) + ld.j
      BY <2>1, <2>2, <2>3, <3>1
    <3>3. KvLoads(ld) <= 4 * Steps(launch, ld.tile + 1)
      BY <2>1, <2>3, <3>1, <3>2
    <3> QED BY <2>3, <3>3
  <2>4. CASE ld.pc = "epi"
    <3>1. Steps(launch, ld.tile + 1) \in Nat
      BY <1>1, <1>2, <2>4, Tile
    <3>2. KvLoads(ld) = 4 * Steps(launch, ld.tile + 1)
      BY <2>1, <2>2, <2>4, <3>1
    <3> QED BY <2>4, <3>1, <3>2
  <2>5. CASE ld.pc \notin {"kv", "epi"}
    <3>1. Steps(launch, ld.tile) \in Nat
      BY <1>1, <1>2, Tile
    <3>2. KvLoads(ld) = 4 * Steps(launch, ld.tile)
      BY <2>1, <2>2, <2>5, <3>1
    <3> QED BY <2>5, <3>1, <3>2
  <2> QED BY <2>3, <2>4, <2>5
<1> DEFINE u == IF ld.pc \in {"kv", "epi"} THEN ld.tile + 1 ELSE ld.tile
<1>4. u \in 1 .. Len(launch.work) + 1
  BY <1>2
<1>5. u <= t + 1
  <2>1. CASE HasLoadEpi
    <3>1. ld.tile <= ep.tile
      BY <1>1, <2>1 DEF LoadEpiTurn
    <3> QED BY <1>1, <1>2, <3>1
  <2>2. CASE ~HasLoadEpi
    <3>1. Len(launch.work) = 1
      BY <1>1, <2>2, LaunchFacts DEF HasLoadEpi
    <3> QED BY <1>4, <3>1
  <2> QED BY <2>1, <2>2
<1>6. Steps(launch, u) <= Steps(launch, t + 1) /\ Steps(launch, u) \in Nat /\ Steps(launch, t + 1) \in Nat
  <2> HIDE DEF u
  <2>1. Steps(launch, u) \in Nat /\ Steps(launch, t + 1) \in Nat
    BY <1>1, <1>2, <1>4, TileCounts
  <2>2. PICK v \in 1 .. Len(launch.work) + 1 : v = t + 1
    BY <1>2
  <2>3. Steps(launch, u) <= Steps(launch, v)
    BY <1>1, <1>4, <1>5, <2>2, Later
  <2> QED BY <2>1, <2>2, <2>3
<1>7. KvLoads(ld) <= 4 * Steps(launch, u) /\ KvLoads(ld) \in Nat
  BY <1>1, <1>3, LoadCounts
<1> HIDE DEF u
<1> QED BY <1>6, <1>7

\* The tile t is stored or being stored by a correction warp, and not in global
\* memory yet: the ring is the epilogue's.
LEMMA RingIsFree ==
    ASSUME NEW st, Control(st), AliasEpilogue, NEW t \in 1 .. Len(launch.work), ep.tile <= t,
           NEW w \in Warps, Waited(launch, co[w], 1) >= Works(launch, t + 1)
    PROVE  Slots(st[1]) >= mm.kv /\ KvLoads(ld) = mm.kv
<1>1. Registers /\ launch \in Launches /\ MmaRole /\ Queue(st)
  BY DEF Control, Registers
<1>2. KvLoads(ld) <= 4 * Steps(launch, t + 1)
  BY LoadsBehind
<1>3. t + 1 \in 1 .. Len(launch.work) + 1 /\ Steps(launch, t + 1) \in Nat /\ Works(launch, t + 1) \in Nat
  BY <1>1, Tile
<1>4. OnStage(st[1].last, 1) >= Works(launch, t + 1)
  <2>1. 1 \in Stage
    BY DEF Stage
  <2>2. /\ Waited(launch, co[w], 1) <= OnStage(st[1].last, 1)
        /\ Waited(launch, co[w], 1) \in Nat /\ OnStage(st[1].last, 1) \in Nat
    BY <2>1, CorrectionSees
  <2> QED BY <1>3, <2>2
<1>5. Placed(launch, st[1]) /\ st[1] \in Point
  BY <1>1, QueueFacts
<1>6. PICK v \in 1 .. Len(launch.work) + 1 : v = t + 1
  BY <1>3
<1>7. st[1].qk >= 2 * Steps(launch, v) /\ st[1].pv2 >= 2 * Steps(launch, v)
  BY <1>1, <1>4, <1>5, <1>6, TilesDone
<1>8. Slots(st[1]) >= 4 * Steps(launch, t + 1)
  <2>1. st[1].qk \in Nat /\ st[1].pv2 \in Nat
    BY <1>5 DEF Point
  <2> QED BY <1>3, <1>6, <1>7, <2>1 DEF Slots
<1>9. /\ KvLoads(ld) \in Nat /\ mm.kv \in Nat /\ mm.kv <= KvLoads(ld)
      /\ Slots(st[1]) \in Nat /\ Slots(st[1]) <= mm.kv
  BY LoadSees
<1> QED BY <1>2, <1>3, <1>8, <1>9

\* What a correction warp has waited for when its tile is ready to be stored.
LEMMA WaitedTile ==
    ASSUME NEW st, Control(st), NEW w \in Warps
    PROVE  /\ Waited(launch, co[w], 1) >= Works(launch, co[w].tile)
           /\ co[w].pc \in {"epi", "combine", "store"} =>
                /\ co[w].tile \in 1 .. Len(launch.work)
                /\ Waited(launch, co[w], 1) >= Works(launch, co[w].tile + 1)
<1> DEFINE me == co[w]
<1>1. Registers /\ CorrectionRole(me)
  BY CorrectionSees
<1>2. me.tile \in 1 .. Len(launch.work) + 1 /\ Works(launch, me.tile) \in Nat
  BY <1>1, Tile DEF CorrectionRole
<1>3. Waited(launch, me, 1) >= Works(launch, me.tile)
  <2>1. Waited(launch, me, 1) \in {Works(launch, me.tile) + 0, Works(launch, me.tile) + 1}
    BY DEF Waited, If
  <2> HIDE DEF me
  <2> QED BY <1>2, <2>1
<1>4. ASSUME me.pc \in {"epi", "combine", "store"}
      PROVE  /\ me.tile \in 1 .. Len(launch.work)
             /\ Waited(launch, me, 1) >= Works(launch, me.tile + 1)
  <2>1. me.tile \in 1 .. Len(launch.work)
    BY <1>1, <1>4, Tile DEF CorrectionRole
  <2>2. Works(launch, me.tile + 1) = Works(launch, me.tile) + If(Half(launch, me.tile) > 0)
        /\ Works(launch, me.tile + 1) \in Nat
    BY <1>1, <2>1, Tile
  <2>3. Waited(launch, me, 1) = Works(launch, me.tile) + If(Half(launch, me.tile) > 0)
    BY <1>4 DEF Waited, If
  <2> QED BY <2>1, <2>2, <2>3
<1> QED BY <1>3, <1>4

LEMMA ControlRing ==
    ASSUME NEW st, Control(st)
    PROVE  EpilogueOwnsRing
<1> SUFFICES ASSUME AliasEpilogue, NEW w \in Warps,
                    \/ co[w].pc = "store"
                    \/ co[w].tile = ep.tile + 1 /\ ep.pc = "tile"
             PROVE  /\ \A s \in Slot : InKvSlot(s) = {}
                    /\ \A op \in Queued : op.do = "none"
  BY DEF EpilogueOwnsRing
<1>1. Registers /\ CorrectionRole(co[w]) /\ launch \in Launches /\ InFlight /\ Len(launch.work) \in Nat
  BY CorrectionSees, LaunchFacts DEF Control, Registers
<1>2. Slots(st[1]) >= mm.kv /\ KvLoads(ld) = mm.kv
  <2>1. CASE co[w].pc = "store"
    <3>1. OStored(ep) = co[w].tile - 1
      BY <2>1, CorrectionSees
    <3>2. /\ co[w].tile \in 1 .. Len(launch.work)
          /\ Waited(launch, co[w], 1) >= Works(launch, co[w].tile + 1)
      BY <2>1, WaitedTile
    <3>3. ep.tile <= co[w].tile
      <4>1. ep.tile \in Nat
        BY EpilogueSees
      <4> QED BY <3>1, <3>2, <4>1 DEF OStored, If
    <3>4. PICK t \in 1 .. Len(launch.work) : t = co[w].tile
      BY <3>2
    <3>5. ep.tile <= t /\ Waited(launch, co[w], 1) >= Works(launch, t + 1)
      BY <3>2, <3>3, <3>4
    <3> QED BY <3>5, RingIsFree
  <2>2. CASE co[w].tile = ep.tile + 1 /\ ep.pc = "tile"
    <3>1. /\ ep.tile \in Nat /\ ep.tile \in 1 .. Len(launch.work) + 1 /\ co[w].tile \in 1 .. Len(launch.work) + 1
      BY <1>1, EpilogueSees DEF CorrectionRole
    <3>2. PICK t \in 1 .. Len(launch.work) : t = ep.tile
      BY <1>1, <2>2, <3>1
    <3>3. ep.tile <= t /\ co[w].tile = t + 1
      BY <2>2, <3>2
    <3>4. Waited(launch, co[w], 1) >= Works(launch, t + 1)
      BY <3>3, WaitedTile
    <3> QED BY <3>3, <3>4, RingIsFree
  <2> QED BY <2>1, <2>2
<1>3. \A s \in Slot : InKvSlot(s) = {}
  <2> SUFFICES ASSUME NEW s \in Slot, NEW c \in InKvSlot(s) PROVE FALSE
    OBVIOUS
  <2>1. c \in inflight /\ c.to = "KV"
    BY DEF InKvSlot
  <2>2. ~\E i \in mm.kv .. KvLoads(ld) - 1 : TRUE
    <3>1. mm.kv \in Nat
      BY LoadSees
    <3> QED BY <1>2, <3>1
  <2>3. \E t : c = QCopy(t)
    BY <1>1, <2>1, <2>2 DEF InFlight
  <2> QED BY <2>1, <2>3 DEF QCopy
<1>4. \A op \in Queued : op.do = "none"
  BY <1>2, NothingQueued
<1> QED BY <1>3, <1>4

(* Where the epilogue's buffers lie on top of the K/V ring, no copy is under *)
(* way and no operation that reads the ring is queued from the moment a      *)
(* correction warp writes the O tile until the epilogue warp has stored it:  *)
(* pipeline_load_epi keeps the load warp, which runs ahead, out of the ring. *)
THEOREM EpilogueOwnsRingHolds == Spec => []EpilogueOwnsRing
<1>1. ControlInvariant => EpilogueOwnsRing
  BY ControlRing DEF ControlInvariant
<1> QED BY <1>1, ControlHolds, PTL

\* TMEM is freed when the warps that use it have left their roles.
MmaDone == mm.pc = "done" => \A w \in Warps : co[w].pc = "done"

LEMMA LaunchKept ==
    ASSUME [Next]_vars
    PROVE  launch' = launch
<1>1. CASE Load \/ TensorCore \/ Epilogue \/ \E c \in inflight : Land(c)
  BY <1>1 DEF Load, LoadQ, LoadKV, LoadSkip, LoadEpi, LoadTail, TensorCore, Epilogue, EpilogueStore,
              EpilogueSignal, Land
<1>2. CASE Mma
  BY <1>2 DEF Mma, MmaQ, MmaSkip, MmaS, MmaSpo, MmaV, MmaPv, MmaK, MmaFree
<1>3. CASE \E g \in Stage, v \in Warps : Softmax(g, v)
  BY <1>3 DEF Softmax, SoftmaxTile, SoftmaxScore, SoftmaxScale, SoftmaxP1, SoftmaxP2, SoftmaxSum, SoftmaxTail
<1>4. CASE \E v \in Warps : Correction(v)
  BY <1>4 DEF Correction, CorrectionStart, CorrectionFirst, CorrectionScale, CorrectionRescale, CorrectionSum,
     CorrectionWaitO, CorrectionEmpty, CorrectionStats, CorrectionCombine, CorrectionStore, CorrectionTail
<1>5. CASE Terminating \/ UNCHANGED vars
  BY <1>5 DEF Terminating, vars
<1> QED BY <1>1, <1>2, <1>3, <1>4, <1>5 DEF Next

LEMMA MmaDoneStep ==
    ASSUME NEW st, Control(st), MmaDone, [Next]_vars
    PROVE  MmaDone'
<1> SUFFICES ASSUME mm'.pc = "done", NEW w \in Warps' PROVE co'[w].pc = "done"
  BY DEF MmaDone
<1>1. Registers /\ MmaRegisters(mm) /\ Corrections
  BY MmaSees DEF Control
<1>2. launch' = launch
  BY LaunchKept
<1>3. w \in Warps
  BY <1>2 DEF Warps
<1>4. CASE UNCHANGED <<mm, co>>
  BY <1>3, <1>4 DEF MmaDone
<1>5. CASE Mma
  <2>1. CASE MmaFree
    BY <1>3, <2>1 DEF MmaFree
  <2>2. CASE ~MmaFree
    <3>1. mm'.pc # "done"
      <4>1. mm.pc # "done"
        BY <1>5, <2>2 DEF Mma, MmaQ, MmaSkip, MmaS, MmaSpo, MmaV, MmaPv, MmaK
      <4>2. \A x, y, z : [mm EXCEPT !.pc = x].pc = x /\ [mm EXCEPT !.tile = y].pc = mm.pc
                         /\ [mm EXCEPT !.j = y, !.kv = z].pc = mm.pc
        BY <1>1 DEF MmaRegisters
      <4> QED BY <1>1, <1>5, <2>2, <4>1, <4>2 DEF Mma, MmaQ, MmaSkip, MmaS, MmaSpo, MmaV, MmaPv, MmaK, MmaRegisters
    <3> QED BY <3>1
  <2> QED BY <2>1, <2>2
<1>6. CASE \E v \in Warps : Correction(v)
  <2>1. PICK v \in Warps : Correction(v)
    BY <1>6
  <2>2. mm' = mm
    BY <2>1 DEF Correction, CorrectionStart, CorrectionFirst, CorrectionScale, CorrectionRescale, CorrectionSum,
         CorrectionWaitO, CorrectionEmpty, CorrectionStats, CorrectionCombine, CorrectionStore, CorrectionTail
  <2>3. co[v].pc = "done"
    BY <2>2 DEF MmaDone
  <2> QED BY <2>1, <2>3 DEF Correction, CorrectionStart, CorrectionFirst, CorrectionScale, CorrectionRescale, CorrectionSum,
         CorrectionWaitO, CorrectionEmpty, CorrectionStats, CorrectionCombine, CorrectionStore, CorrectionTail
<1>7. CASE Load \/ TensorCore \/ Epilogue \/ \E c \in inflight : Land(c)
  BY <1>4, <1>7 DEF Load, LoadQ, LoadKV, LoadSkip, LoadEpi, LoadTail, TensorCore, Epilogue, EpilogueStore,
         EpilogueSignal, Land
<1>8. CASE \E g \in Stage, v \in Warps : Softmax(g, v)
  BY <1>4, <1>8 DEF Softmax, SoftmaxTile, SoftmaxScore, SoftmaxScale, SoftmaxP1, SoftmaxP2, SoftmaxSum, SoftmaxTail
<1>9. CASE Terminating \/ UNCHANGED vars
  BY <1>4, <1>9 DEF Terminating, vars
<1> QED BY <1>5, <1>6, <1>7, <1>8, <1>9 DEF Next

LEMMA MmaDoneHolds == Spec => []MmaDone
<1>1. Init => MmaDone
  BY DEF Init, MmaDone
<1>2. ControlInvariant /\ MmaDone /\ [Next]_vars => MmaDone'
  BY MmaDoneStep DEF ControlInvariant
<1> QED BY <1>1, <1>2, ControlHolds, PTL DEF Spec

LEMMA ControlDangling ==
    ASSUME NEW st, Control(st), MmaDone
    PROVE  NothingDangling
<1>1. /\ Registers /\ launch \in Launches /\ MmaRole /\ Queue(st) /\ LoadRole /\ InFlight
      /\ Len(launch.work) \in Nat /\ Len(launch.work) + 1 \in 1 .. Len(launch.work) + 1
  BY LaunchFacts DEF Control, Registers
<1> DEFINE z == Len(launch.work) + 1
<1>2. Steps(launch, z) \in Nat /\ Works(launch, z) \in Nat
  BY <1>1, TileCounts
<1>3. ASSUME mm.pc = "done" PROVE tc = <<>>
  <2>1. PICK w \in Warps : co[w].pc = "done"
    <3>1. Warps # {}
      BY <1>1, Tile
    <3> QED BY <1>3, <3>1 DEF MmaDone
  <2>2. co[w].tile = z
    <3>1. CorrectionRole(co[w])
      BY CorrectionSees
    <3> QED BY <2>1, <3>1 DEF CorrectionRole
  <2>3. OnStage(st[1].last, 1) >= Works(launch, z)
    <3>1. 1 \in Stage
      BY DEF Stage
    <3>2. /\ Waited(launch, co[w], 1) <= OnStage(st[1].last, 1)
          /\ Waited(launch, co[w], 1) \in Nat /\ OnStage(st[1].last, 1) \in Nat
      BY <3>1, CorrectionSees
    <3>3. Waited(launch, co[w], 1) >= Works(launch, z)
      BY <2>2, WaitedTile
    <3> QED BY <1>2, <3>2, <3>3
  <2>4. Placed(launch, st[1]) /\ st[1] \in Point
    BY <1>1, QueueFacts
  <2>5. st[1].pv2 >= 2 * Steps(launch, z)
    <3> HIDE DEF z
    <3>1. z \in 1 .. Len(launch.work) + 1
      BY <1>1 DEF z
    <3> QED BY <1>1, <2>3, <2>4, <3>1, TilesDone
  <2>6. st[1] = At(launch, z, 0, 0, 0, 0, 0)
    <3>1. OnStage(st[1].pv2, 1) >= Steps(launch, z)
      <4> DEFINE c == st[1].pv2
                 s == Steps(launch, z)
      <4>1. c \in Nat /\ s \in Nat /\ c >= 2 * s
        BY <1>2, <2>4, <2>5 DEF Point
      <4> HIDE DEF c, s
      <4>2. (c + 1 - 1) \div 2 >= s
        BY <4>1
      <4> QED BY <4>2 DEF OnStage, c, s
    <3> QED BY <1>1, <2>4, <3>1, AllDone
  <2>7. Issued(launch, mm) = At(launch, z, 0, 0, 0, 0, 0)
    BY <1>1, <1>3 DEF MmaRole, Issued
  <2>8. ASSUME tc # <<>> PROVE FALSE
    <3>1. 1 \in DOMAIN tc
      <4>1. tc \in Seq(Operation)
        BY <1>1 DEF Registers
      <4> QED BY <2>8, <4>1
    <3>2. PICK y : y = 1
      OBVIOUS
    <3>3. /\ st[y] \in Point /\ st[y + 1] \in Point
          /\ Effect(st[y], tc[y], st[y + 1]) /\ Ahead(st[y + 1], Issued(launch, mm))
      BY <3>1, <3>2, InQueue
    <3> DEFINE a == st[y]
               b == st[y + 1]
    <3>4. a = Issued(launch, mm)
      BY <2>6, <2>7, <3>2
    <3>5. b.qk <= a.qk /\ b.pv1 <= a.pv1 /\ b.pv2 <= a.pv2 /\ b.rel <= a.rel
      BY <3>3, <3>4 DEF Ahead
    <3>6. /\ a.qk \in Nat /\ a.pv1 \in Nat /\ a.pv2 \in Nat /\ a.rel \in Nat
          /\ b.qk \in Nat /\ b.pv1 \in Nat /\ b.pv2 \in Nat /\ b.rel \in Nat
      BY <3>3 DEF Point
    <3>7. b.qk = a.qk + 1 \/ b.pv1 = a.pv1 + 1 \/ b.pv2 = a.pv2 + 1 \/ b.rel = a.rel + 1
      BY <3>3 DEF Effect, Adds
    <3> HIDE DEF a, b
    <3> QED BY <3>5, <3>6, <3>7
  <2> QED BY <2>8
<1>4. ASSUME Exited PROVE inflight = {}
  <2>1. ld.pc = "done" /\ mm.pc = "done"
    BY <1>4 DEF Exited
  <2>2. ld.tile = z /\ mm.tile = z
    BY <1>1, <2>1 DEF LoadRole, MmaRole
  <2>3. ld.kv = KvStages + 4 * Steps(launch, z)
    BY <1>1, <2>1, <2>2 DEF LoadRole
  <2>4. KvLoads(ld) = 4 * Steps(launch, z)
    BY <1>2, <2>3 DEF KvLoads, KvStages
  <2>5. mm.kv = 4 * Steps(launch, z)
    <3>1. Issued(launch, mm) = At(launch, z, 0, 0, 0, 0, 0)
      BY <2>1, <2>2 DEF Issued
    <3>2. mm.kv = Issued(launch, mm).qk + Issued(launch, mm).pv1
      BY <1>1 DEF MmaRole
    <3>3. Issued(launch, mm).qk = 2 * Steps(launch, z) + 0 /\ Issued(launch, mm).pv1 = 2 * Steps(launch, z) + 0
      BY <3>1 DEF At
    <3> QED BY <1>2, <3>2, <3>3
  <2>6. QLoads(launch, ld) = Works(launch, z) /\ QTaken(launch, mm) = Works(launch, z) + 0
    BY <2>1, <2>2 DEF QLoads, QTaken, If
  <2>7. ~\E i \in mm.kv .. KvLoads(ld) - 1 : TRUE
    BY <1>2, <2>4, <2>5
  <2>8. ~(QLoads(launch, ld) > QTaken(launch, mm))
    BY <1>2, <2>6
  <2> QED BY <1>1, <2>7, <2>8 DEF InFlight
<1> QED BY <1>3, <1>4 DEF NothingDangling

(* "There's no dangling mbarrier at the end", for every launch: when TMEM is *)
(* freed the tensor core's queue is empty, and when the CTA has exited no    *)
(* copy is on its way.                                                       *)
THEOREM NothingDanglingHolds == Spec => []NothingDangling
<1>1. ControlInvariant /\ MmaDone => NothingDangling
  BY ControlDangling DEF ControlInvariant
<1> QED BY <1>1, ControlHolds, MmaDoneHolds, PTL

-----------------------------------------------------------------------------
(* The statistics slots.                                                   *)

\* The signals a softmax warp has given say where it is.
LEMMA SignalIs ==
    ASSUME Registers, NEW s, SoftmaxRole(s), NEW t \in 1 .. Len(launch.work) + 1, NEW m \in Nat,
           t \in 1 .. Len(launch.work) => m <= Half(launch, t), t = Len(launch.work) + 1 => m = 0,
           Signals(launch, s) = Steps(launch, t) + (t - 1) + m
    PROVE  /\ s.tile = t
           /\ s.pc \in {"tile", "done"} => m = 0
           /\ s.pc \notin {"tile", "done"} => s.n + If(s.pc \in {"p1", "p2"}) = m
<1> DEFINE u == s.tile
           d == IF s.pc \in {"tile", "done"} THEN 0 ELSE s.n + If(s.pc \in {"p1", "p2"})
<1>1. /\ u \in 1 .. Len(launch.work) + 1 /\ s.n \in Nat /\ Len(launch.work) \in Nat /\ launch \in Launches
  BY Tile DEF SoftmaxRole
<1>2. Steps(launch, u) \in Nat /\ Steps(launch, t) \in Nat
  BY <1>1, TileCounts
<1>3. d \in Nat /\ (u \in 1 .. Len(launch.work) => d <= Half(launch, u)) /\ (u = Len(launch.work) + 1 => d = 0)
  <2>1. s.pc \notin {"tile", "done"} => u \in 1 .. Len(launch.work)
    BY <1>1 DEF SoftmaxRole
  <2>2. u \in 1 .. Len(launch.work) => Half(launch, u) \in Nat
    BY <1>1, Tile
  <2>3. s.pc \notin {"tile", "done"} => s.n + If(s.pc \in {"p1", "p2"}) <= Half(launch, u)
    BY <1>1, <2>1, <2>2 DEF If, SoftmaxRole
  <2> QED BY <1>1, <2>1, <2>2, <2>3 DEF If
<1>4. Signals(launch, s) = Steps(launch, u) + u - 1 + d
  BY DEF Signals
<1> HIDE DEF d
<1>5. CASE u < t
  <2>1. u \in 1 .. Len(launch.work)
    BY <1>1, <1>5
  <2>2. Steps(launch, u) + Half(launch, u) <= Steps(launch, t) /\ Half(launch, u) \in Nat
    BY <1>1, <1>5, <2>1, Past, LaunchFacts
  <2> QED BY <1>1, <1>2, <1>3, <1>4, <1>5, <2>1, <2>2
<1>6. CASE t < u
  <2>1. t \in 1 .. Len(launch.work)
    BY <1>1, <1>6
  <2>2. Steps(launch, t) + Half(launch, t) <= Steps(launch, u) /\ Half(launch, t) \in Nat
    BY <1>1, <1>6, <2>1, Past, LaunchFacts
  <2> QED BY <1>1, <1>2, <1>3, <1>4, <1>6, <2>1, <2>2
<1>7. CASE u = t
  <2>1. d = m
    BY <1>1, <1>2, <1>3, <1>4, <1>7
  <2> QED BY <1>7, <2>1 DEF d
<1> QED BY <1>1, <1>5, <1>6, <1>7

LEMMA OneSignal ==
    ASSUME NEW st, Control(st), NEW g \in Stage, NEW w \in Warps
    PROVE  named[g][w] <= 1
<1>1. /\ Signals(launch, sm[g][w]) = Meets(launch, co[w], g) + named[g][w] /\ named[g][w] \in Nat
      /\ Acquired(launch, sm[g][w]) <= Returns(launch, co[w], g) + 1
      /\ Acquired(launch, sm[g][w]) \in Nat /\ Signals(launch, sm[g][w]) \in Nat
      /\ Signals(launch, sm[g][w]) <= Acquired(launch, sm[g][w])
  BY SoftmaxSees
<1>2. /\ Returns(launch, co[w], g) <= Meets(launch, co[w], g)
      /\ Returns(launch, co[w], g) \in Nat /\ Meets(launch, co[w], g) \in Nat
  BY CorrectionSees, CorrectionCounts
<1> QED BY <1>1, <1>2

\* The slot when a scale is met, and when the row sum is.
LEMMA ScaleMet ==
    ASSUME NEW st, Control(st), StatData, NEW g \in Stage, NEW w \in Warps, named[g][w] = 1,
           co[w].pc = "scale", co[w].j % 2 = g
    PROVE  sScale[g][w] = [k |-> "scale", tile |-> co[w].tile, n |-> co[w].j \div 2 + 1]
<1> DEFINE t == co[w].tile
           h == Half(launch, t)
           i == co[w].j \div 2
           s == sm[g][w]
<1>1. Registers /\ CorrectionRole(co[w]) /\ SoftmaxRole(s) /\ Signals(launch, s) = Meets(launch, co[w], g) + 1
  BY CorrectionSees, SoftmaxSees
<1>2. t \in 1 .. Len(launch.work) /\ h \in Nat /\ h > 0 /\ co[w].j \in Nat /\ co[w].j < 2 * h - 2
  <2>1. t \in 1 .. Len(launch.work) /\ h > 0 /\ co[w].j \in Nat /\ co[w].j < 2 * h - 2
    BY <1>1, Tile DEF CorrectionRole
  <2> QED BY <1>1, <2>1, Tile
<1>3. i \in Nat /\ i + 2 <= h /\ OnStage(co[w].j, g) = i
  <2>1. i \in Nat /\ OnStage(co[w].j, g) = i
    BY <1>2, OwnStage
  <2>2. 2 * i <= co[w].j
    BY <1>2
  <2> HIDE DEF h, i
  <2> QED BY <1>2, <2>1, <2>2
<1>4. Meets(launch, co[w], g) = Steps(launch, t) + t - 1 + (1 + i)
  <2>1. Meets(launch, co[w], g) = Steps(launch, t) + t - 1 + (1 + OnStage(co[w].j + 0, g))
    BY DEF Meets, If
  <2>2. co[w].j + 0 = co[w].j
    BY <1>2
  <2> QED BY <1>3, <2>1, <2>2
<1>5. /\ s.tile = t /\ s.pc \notin {"tile", "done"} /\ s.n + If(s.pc \in {"p1", "p2"}) = i + 2
  <2>1. PICK u \in 1 .. Len(launch.work) + 1 : u = t
    BY <1>1, <1>2, Tile
  <2>2. PICK m \in Nat : m = i + 2
    BY <1>3
  <2>3. Steps(launch, t) \in Nat /\ Len(launch.work) \in Nat
    BY <1>1, <1>2, Tile
  <2>4. Signals(launch, s) = Steps(launch, u) + (u - 1) + m
    <3> DEFINE a == Steps(launch, t)
               y == Signals(launch, s)
    <3>1. y = a + t - 1 + (1 + i) + 1 /\ t \in Nat /\ a \in Nat /\ i \in Nat
      BY <1>1, <1>2, <1>3, <1>4, <2>3
    <3> HIDE DEF a, y, i, t
    <3>2. y = a + (t - 1) + m
      BY <2>2, <3>1
    <3> QED BY <2>1, <3>2 DEF a, y, t
  <2>5. m <= Half(launch, u) /\ u # Len(launch.work) + 1 /\ m > 0
    <3>1. u # Len(launch.work) + 1
      BY <1>2, <2>1, <2>3
    <3> HIDE DEF i
    <3> QED BY <1>3, <2>1, <2>2, <3>1
  <2> HIDE DEF s
  <2>6. s.tile = u /\ s.pc \notin {"tile", "done"} /\ s.n + If(s.pc \in {"p1", "p2"}) = m
    BY <1>1, <2>4, <2>5, SignalIs
  <2> QED BY <2>1, <2>2, <2>6
<1>6. SlotOf(s, sScale[g][w]) /\ s.n \in Nat /\ s.pc \in {"s", "scale", "p1", "p2", "sum"}
  BY <1>1, <1>5 DEF StatData, SoftmaxRole
<1> HIDE DEF s, i
<1>7. CASE s.pc \in {"p1", "p2"}
  <2>1. s.n = i + 1 /\ s.n > 0
    BY <1>3, <1>5, <1>6, <1>7 DEF If
  <2> QED BY <1>5, <1>6, <1>7, <2>1 DEF SlotOf, i
<1>8. CASE s.pc \in {"s", "scale", "sum"}
  <2>1. s.n - 1 = i + 1 /\ s.n > 1
    BY <1>3, <1>5, <1>6, <1>8 DEF If
  <2> QED BY <1>5, <1>6, <1>8, <2>1 DEF SlotOf, i
<1> QED BY <1>6, <1>7, <1>8

LEMMA SumMet ==
    ASSUME NEW st, Control(st), StatData, NEW g \in Stage, NEW w \in Warps, named[g][w] = 1,
           co[w].pc = "sum", co[w].j = g
    PROVE  sScale[g][w] = [k |-> "sum", tile |-> co[w].tile, n |-> Half(launch, co[w].tile)]
<1> DEFINE t == co[w].tile
           h == Half(launch, t)
           s == sm[g][w]
           b == Steps(launch, t + 1)
<1>1. /\ Registers /\ CorrectionRole(co[w]) /\ SoftmaxRole(s) /\ Signals(launch, s) = Meets(launch, co[w], g) + 1
      /\ Acquired(launch, s) <= Returns(launch, co[w], g) + 1
      /\ Acquired(launch, s) \in Nat
  BY CorrectionSees, SoftmaxSees
<1>2. /\ t \in 1 .. Len(launch.work) /\ h \in Nat /\ h > 0 /\ t + 1 \in 1 .. Len(launch.work) + 1
      /\ Steps(launch, t) \in Nat /\ b = Steps(launch, t) + h /\ b \in Nat
  <2>1. t \in 1 .. Len(launch.work) /\ h > 0
    BY <1>1, Tile DEF CorrectionRole
  <2> QED BY <1>1, <2>1, Tile
<1>3. Meets(launch, co[w], g) = b + t - 1 /\ Returns(launch, co[w], g) = b + t - 1
  <2>1. ~(co[w].j > g) /\ co[w].pc = "sum"
    BY DEF Stage
  <2>2. /\ Meets(launch, co[w], g) = Steps(launch, t) + t - 1 + (h + 0)
        /\ Returns(launch, co[w], g) = Steps(launch, t) + t - 1 + (h + 0)
    BY <2>1 DEF Meets, Returns, If
  <2> HIDE DEF h, b
  <2> QED BY <1>2, <2>2
<1>4. PICK u \in 1 .. Len(launch.work) + 1 : u = t + 1
  BY <1>2
<1>5. s.tile = u /\ (s.pc \notin {"tile", "done"} => s.n + If(s.pc \in {"p1", "p2"}) = 0)
  <2>1. Signals(launch, s) = Steps(launch, u) + (u - 1) + 0
    <3>1. Signals(launch, s) = b + t - 1 + 1
      BY <1>1, <1>3
    <3> HIDE DEF b, s
    <3>2. Signals(launch, s) = b + (u - 1) + 0
      BY <1>2, <1>4, <3>1
    <3> QED BY <1>4, <3>2 DEF b
  <2>2. u \in 1 .. Len(launch.work) => 0 <= Half(launch, u)
    BY <1>1, Tile
  <2>3. PICK m \in Nat : m = 0
    OBVIOUS
  <2> HIDE DEF s
  <2> QED BY <1>1, <2>1, <2>2, <2>3, SignalIs
<1>6. s.pc \in {"tile", "done"}
  <2> SUFFICES ASSUME s.pc \notin {"tile", "done"} PROVE FALSE
    OBVIOUS
  <2>1. s.n + If(s.pc \in {"p1", "p2"}) = 0 /\ s.n \in Nat
    BY <1>1, <1>5 DEF SoftmaxRole
  <2>2. s.n = 0 /\ s.pc \notin {"p1", "p2"}
    BY <2>1 DEF If
  <2>3. s.pc = "s"
    <3>1. /\ s.pc \in {"tile", "s", "scale", "p1", "p2", "sum", "done"}
          /\ (s.pc = "scale" => s.n > 0) /\ (s.pc = "sum" => s.n = Half(launch, s.tile))
          /\ Half(launch, s.tile) > 0
      BY <1>1 DEF SoftmaxRole
    <3> QED BY <2>2, <3>1
  <2>4. Acquired(launch, s) = Steps(launch, u) + u - 1 + 1
    BY <1>5, <2>2, <2>3 DEF Acquired
  <2>5. Acquired(launch, s) = b + u - 1 + 1
    BY <1>4, <2>4
  <2>6. Acquired(launch, s) <= b + t - 1 + 1
    BY <1>1, <1>3
  <2>7. t \in Nat /\ b \in Nat
    BY <1>2
  <2> HIDE DEF b, s, t
  <2> QED BY <1>4, <2>5, <2>6, <2>7
<1>7. SlotOf(s, sScale[g][w])
  BY DEF StatData
<1>8. s.tile > 1 /\ s.tile - 1 = t
  BY <1>2, <1>4, <1>5
<1> HIDE DEF s
<1> QED BY <1>2, <1>6, <1>7, <1>8 DEF SlotOf

LEMMA SlotStep ==
    ASSUME NEW st, Control(st), StatData, NEW g \in Stage, NEW w \in Warps, NEW s2,
           sm' = Put(sm, g, w, s2), launch' = launch, NEW x, SlotOf(s2, x),
           (sScale' = sScale /\ x = sScale[g][w]) \/ sScale' = Put(sScale, g, w, x)
    PROVE  StatData'
<1>1. Rows(sm, Stage, Warps) /\ Rows(sScale, Stage, Warps)
  BY DEF Control, Scores2P, StatData
<1>2. Warps' = Warps /\ Stage' = Stage /\ \A s, y : SlotOf(s, y)' <=> SlotOf(s, y)
  BY DEF Warps, Stage, SlotOf, Half
<1>3. \A f : Rows(f, Stage, Warps)' <=> Rows(f, Stage, Warps)
  BY <1>2 DEF Rows
<1>4. sm'[g][w] = s2 /\ \A h \in Stage, v \in Warps : (h # g \/ v # w) => sm'[h][v] = sm[h][v]
  BY <1>1, UpdateTwo
<1>5. /\ Rows(sScale', Stage, Warps) /\ sScale'[g][w] = x
      /\ \A h \in Stage, v \in Warps : (h # g \/ v # w) => sScale'[h][v] = sScale[h][v]
  <2>1. CASE sScale' = sScale /\ x = sScale[g][w]
    BY <1>1, <2>1
  <2>2. CASE sScale' = Put(sScale, g, w, x)
    BY <1>1, <2>2, UpdateTwo
  <2> QED BY <2>1, <2>2
<1>6. \A h \in Stage, v \in Warps : SlotOf(sm'[h][v], sScale'[h][v])
  <2> SUFFICES ASSUME NEW h \in Stage, NEW v \in Warps PROVE SlotOf(sm'[h][v], sScale'[h][v])
    OBVIOUS
  <2>1. CASE h = g /\ v = w
    BY <1>4, <1>5, <2>1
  <2>2. CASE h # g \/ v # w
    BY <1>4, <1>5, <2>2 DEF StatData
  <2> QED BY <2>1, <2>2
<1> QED BY <1>2, <1>5, <1>6 DEF StatData, Rows, SlotOf

LEMMA SoftmaxSlots ==
    ASSUME NEW st, Control(st), StatData, NEW g \in Stage, NEW w \in Warps, Softmax(g, w)
    PROVE  StatData'
<1> DEFINE me == sm[g][w]
           x == sScale[g][w]
           y == 1 - me.stats
<1>1. /\ Registers /\ SoftmaxRole(me) /\ SoftmaxRegisters(me) /\ SlotOf(me, x) /\ me.n \in Nat
      /\ me.tile \in Nat /\ me.tile >= 1
  BY SoftmaxIs DEF StatData
<1>2. CASE SoftmaxTile(g, w)
  <2>1. me.pc = "tile" /\ me.tile \in Tiles /\ launch' = launch /\ sScale' = sScale
    BY <1>2 DEF SoftmaxTile, memory
  <2>2. CASE HasWork(me.tile)
    <3> DEFINE s2 == [me EXCEPT !.pc = "s", !.n = 0, !.stats = y]
    <3>1. sm' = Put(sm, g, w, s2)
      BY <1>2, <2>2 DEF SoftmaxTile, Put
    <3>2. s2.pc = "s" /\ s2.n = 0
      BY <1>1 DEF SoftmaxRegisters
    <3> HIDE DEF s2
    <3>3. SlotOf(s2, x)
      BY <3>2 DEF SlotOf
    <3> QED BY <2>1, <3>1, <3>3, SlotStep
  <2>3. CASE ~HasWork(me.tile)
    <3> DEFINE u == me.tile + 1
               s2 == [me EXCEPT !.tile = u, !.stats = y]
    <3>1. sm' = Put(sm, g, w, s2)
      BY <1>2, <2>3 DEF SoftmaxTile, Put
    <3>2. s2.pc = "tile" /\ s2.tile = u
      BY <1>1, <2>1 DEF SoftmaxRegisters
    <3>3. u - 1 = me.tile /\ ~(Half(launch, me.tile) > 0)
      BY <1>1, <2>1, <2>3, Tile
    <3> HIDE DEF s2, u
    <3>4. SlotOf(s2, x)
      BY <3>2, <3>3 DEF SlotOf
    <3> QED BY <2>1, <3>1, <3>4, SlotStep
  <2> QED BY <2>2, <2>3
<1>3. CASE SoftmaxScore(g, w)
  <2> DEFINE p == IF me.n = 0 THEN "p1" ELSE "scale"
  <2>1. me.pc = "s" /\ launch' = launch /\ sScale' = sScale
    BY <1>3 DEF SoftmaxScore, memory
  <2>2. PICK z : sm' = [sm EXCEPT ![g][w] = [@ EXCEPT !.pc = p, !.score = z]]
    BY <1>3 DEF SoftmaxScore
  <2> DEFINE s2 == [me EXCEPT !.pc = p, !.score = z]
  <2>3. sm' = Put(sm, g, w, s2)
    BY <2>2 DEF Put
  <2>4. s2.pc = p /\ s2.n = me.n /\ s2.tile = me.tile
    BY <1>1 DEF SoftmaxRegisters
  <2> HIDE DEF s2
  <2>5. SlotOf(s2, x)
    BY <1>1, <2>1, <2>4 DEF SlotOf
  <2> QED BY <2>1, <2>3, <2>5, SlotStep
<1>4. CASE SoftmaxScale(g, w)
  <2> DEFINE s2 == [me EXCEPT !.pc = "p1", !.stats = y]
             z == [k |-> "scale", tile |-> me.tile, n |-> me.n]
  <2>1. launch' = launch /\ sScale' = Put(sScale, g, w, z) /\ sm' = Put(sm, g, w, s2)
    BY <1>4 DEF SoftmaxScale, Put
  <2>2. s2.pc = "p1" /\ s2.n = me.n /\ s2.tile = me.tile
    BY <1>1 DEF SoftmaxRegisters
  <2> HIDE DEF s2
  <2>3. SlotOf(s2, z)
    BY <2>2 DEF SlotOf
  <2> QED BY <2>1, <2>3, SlotStep
<1>5. CASE SoftmaxP1(g, w)
  <2> DEFINE s2 == [me EXCEPT !.pc = "p2"]
  <2>1. launch' = launch /\ sScale' = sScale /\ sm' = Put(sm, g, w, s2) /\ me.pc = "p1"
    BY <1>5 DEF SoftmaxP1, Put
  <2>2. s2.pc = "p2" /\ s2.n = me.n /\ s2.tile = me.tile
    BY <1>1 DEF SoftmaxRegisters
  <2> HIDE DEF s2
  <2>3. SlotOf(s2, x)
    BY <1>1, <2>1, <2>2 DEF SlotOf
  <2> QED BY <2>1, <2>3, SlotStep
<1>6. CASE SoftmaxP2(g, w)
  <2> DEFINE p == IF 2 * (me.n + 1) = N(me.tile) THEN "sum" ELSE "s"
             m == me.n + 1
             q == 1 - me.s
             s2 == [me EXCEPT !.pc = p, !.n = m, !.s = q]
  <2>1. launch' = launch /\ sScale' = sScale /\ sm' = Put(sm, g, w, s2) /\ me.pc = "p2"
    BY <1>6 DEF SoftmaxP2, Put
  <2>2. s2.pc = p /\ s2.n = m /\ s2.tile = me.tile /\ p \in {"s", "sum"}
    BY <1>1 DEF SoftmaxRegisters
  <2>3. m - 1 = me.n /\ (m > 1 => me.n > 0)
    BY <1>1
  <2> HIDE DEF s2, p, m
  <2>4. SlotOf(s2, x)
    BY <1>1, <2>1, <2>2, <2>3 DEF SlotOf
  <2> QED BY <2>1, <2>4, SlotStep
<1>7. CASE SoftmaxSum(g, w)
  <2> DEFINE u == me.tile + 1
             s2 == [me EXCEPT !.pc = "tile", !.tile = u, !.stats = y]
             z == [k |-> "sum", tile |-> me.tile, n |-> me.n]
  <2>1. launch' = launch /\ sScale' = Put(sScale, g, w, z) /\ sm' = Put(sm, g, w, s2) /\ me.pc = "sum"
    BY <1>7 DEF SoftmaxSum, Put
  <2>2. s2.pc = "tile" /\ s2.tile = u
    BY <1>1 DEF SoftmaxRegisters
  <2>3. u - 1 = me.tile /\ me.n = Half(launch, me.tile)
    BY <1>1, <2>1 DEF SoftmaxRole
  <2> HIDE DEF s2, u
  <2>4. SlotOf(s2, z)
    BY <2>2, <2>3 DEF SlotOf
  <2> QED BY <2>1, <2>4, SlotStep
<1>8. CASE SoftmaxTail(g, w)
  <2> DEFINE s2 == [me EXCEPT !.pc = "done"]
  <2>1. launch' = launch /\ sScale' = sScale /\ sm' = Put(sm, g, w, s2) /\ me.pc = "tile"
    BY <1>8 DEF SoftmaxTail, Put, memory
  <2>2. s2.pc = "done" /\ s2.n = me.n /\ s2.tile = me.tile
    BY <1>1 DEF SoftmaxRegisters
  <2> HIDE DEF s2
  <2>3. SlotOf(s2, x)
    BY <1>1, <2>1, <2>2 DEF SlotOf
  <2> QED BY <2>1, <2>3, SlotStep
<1> QED BY <1>2, <1>3, <1>4, <1>5, <1>6, <1>7, <1>8 DEF Softmax

\* Nobody else writes a statistics slot.
LEMMA SlotsKept ==
    ASSUME StatData, UNCHANGED <<launch, sm, sScale>>
    PROVE  StatData'
  BY DEF StatData, Rows, SlotOf, Warps, Stage, Half

LEMMA StatDataStep ==
    ASSUME NEW st, Control(st), StatData, [Next]_vars
    PROVE  StatData'
<1>1. CASE Load \/ TensorCore \/ Epilogue \/ \E c \in inflight : Land(c)
  <2>1. UNCHANGED <<launch, sm, sScale>>
    BY <1>1 DEF Load, LoadQ, LoadKV, LoadSkip, LoadEpi, LoadTail, TensorCore, Epilogue, EpilogueStore,
                EpilogueSignal, Land, memory
  <2> QED BY <2>1, SlotsKept
<1>2. CASE Mma
  <2>1. UNCHANGED <<launch, sm, sScale>>
    BY <1>2 DEF Mma, MmaQ, MmaSkip, MmaS, MmaSpo, MmaV, MmaPv, MmaK, MmaFree, memory
  <2> QED BY <2>1, SlotsKept
<1>3. CASE \E g \in Stage, w \in Warps : Softmax(g, w)
  BY <1>3, SoftmaxSlots
<1>4. CASE \E w \in Warps : Correction(w)
  <2>1. UNCHANGED <<launch, sm, sScale>>
    BY <1>4 DEF Correction, CorrectionStart, CorrectionFirst, CorrectionScale, CorrectionRescale, CorrectionSum,
       CorrectionWaitO, CorrectionEmpty, CorrectionStats, CorrectionCombine, CorrectionStore, CorrectionTail, memory
  <2> QED BY <2>1, SlotsKept
<1>5. CASE Terminating \/ UNCHANGED vars
  <2>1. UNCHANGED <<launch, sm, sScale>>
    BY <1>5 DEF Terminating, vars, memory
  <2> QED BY <2>1, SlotsKept
<1> QED BY <1>1, <1>2, <1>3, <1>4, <1>5 DEF Next

LEMMA StatDataHolds == Spec => []StatData
<1>1. Init => StatData
  <2> SUFFICES ASSUME Init PROVE StatData
    OBVIOUS
  <2>1. Rows(sScale, Stage, Warps)
    BY DEF Init, Rows
  <2>2. \A g \in Stage, w \in Warps : sm[g][w].pc = "tile" /\ sm[g][w].tile = 1
    BY DEF Init
  <2> QED BY <2>1, <2>2 DEF StatData, SlotOf
<1>2. ControlInvariant /\ StatData /\ [Next]_vars => StatData'
  BY StatDataStep DEF ControlInvariant
<1> QED BY <1>1, <1>2, ControlHolds, PTL DEF Spec

(* A softmax warp's one statistics slot, for every launch: the named barrier *)
(* never holds two signals, so none is lost, and the slot a correction warp  *)
(* is about to read holds the very scale, or row sum, that its step is for.  *)
THEOREM StatsHandedOverHolds == Spec => []StatsHandedOver
<1>1. ControlInvariant /\ StatData => StatsHandedOver
  <2> SUFFICES ASSUME NEW st, Control(st), StatData, NEW g \in Stage, NEW w \in Warps
               PROVE  /\ named[g][w] <= 1
                      /\ (named[g][w] = 1 /\ co[w].pc = "scale" /\ co[w].j % 2 = g) =>
                           sScale[g][w] = [k |-> "scale", tile |-> co[w].tile, n |-> co[w].j \div 2 + 1]
                      /\ (named[g][w] = 1 /\ co[w].pc = "sum" /\ co[w].j = g) =>
                           sScale[g][w].k = "sum" /\ sScale[g][w].tile = co[w].tile
    BY DEF ControlInvariant, StatsHandedOver
  <2>1. named[g][w] <= 1
    BY OneSignal
  <2>2. (named[g][w] = 1 /\ co[w].pc = "scale" /\ co[w].j % 2 = g) =>
           sScale[g][w] = [k |-> "scale", tile |-> co[w].tile, n |-> co[w].j \div 2 + 1]
    BY ScaleMet
  <2>3. (named[g][w] = 1 /\ co[w].pc = "sum" /\ co[w].j = g) =>
           sScale[g][w].k = "sum" /\ sScale[g][w].tile = co[w].tile
    <3>1. ASSUME named[g][w] = 1, co[w].pc = "sum", co[w].j = g
          PROVE  sScale[g][w] = [k |-> "sum", tile |-> co[w].tile, n |-> Half(launch, co[w].tile)]
      BY <3>1, SumMet
    <3> QED BY <3>1
  <2> QED BY <2>1, <2>2, <2>3
<1> QED BY <1>1, ControlHolds, StatDataHolds, PTL

-----------------------------------------------------------------------------
(* What the tensor core reads.                                             *)

\* A QK of tile t: the K group it reads and the step it is.
LEMMA QKItem ==
    ASSUME NEW l \in Launches, NEW t \in 1 .. Len(l.work), Half(l, t) > 0, NEW q \in Nat, NEW v \in Nat,
           q < 2 * Half(l, t), (v = 0 /\ q <= 1) \/ q = v + 1, NEW P \in Point,
           P.qk = 2 * Steps(l, t) + q, P.pv2 = 2 * Steps(l, t) + v
    PROVE  /\ Item(l, Slots(P)) = Tag("K", t, 2 * Half(l, t) - 1 - q)
           /\ P.qk % 2 = q % 2 /\ P.qk \div 2 = Steps(l, t) + (q \div 2)
<1> DEFINE s == Steps(l, t)
           h == Half(l, t)
           j == q + v
           i == Slots(P)
<1>1. s \in Nat /\ h \in Nat
  BY NextTile, LaunchFacts
<1>2. i = P.qk + P.pv2 /\ P.qk = 2 * s + q /\ P.pv2 = 2 * s + v /\ h > 0 /\ q < 2 * h
  BY DEF Slots
<1> HIDE DEF s, h, i
<1>3. j \in Nat /\ j < 4 * h /\ i = 4 * s + j
  BY <1>1, <1>2
<1>4. LoadItem(2 * h, j) = [k |-> "K", grp |-> 2 * h - 1 - q]
  <2>1. CASE v = 0 /\ q <= 1
    <3>1. j < 2 /\ 2 * h - 1 - j = 2 * h - 1 - q
      BY <2>1
    <3> QED BY <3>1 DEF LoadItem
  <2>2. CASE q = v + 1 /\ v > 0
    <3>1. /\ j = 2 * v + 1 /\ ~(j < 2) /\ ~(j >= 2 * (2 * h) - 2) /\ j % 2 # 0
          /\ 2 * h - 3 - (j - 2) \div 2 = 2 * h - 1 - q
      BY <1>1, <1>2, <2>2
    <3> HIDE DEF j
    <3> QED BY <3>1 DEF LoadItem
  <2> QED BY <2>1, <2>2
<1>5. P.qk % 2 = q % 2 /\ P.qk \div 2 = s + (q \div 2)
  BY <1>1, <1>2
<1>6. Item(l, i) = Tag(LoadItem(2 * h, j).k, t, LoadItem(2 * h, j).grp)
  <2> HIDE DEF j
  <2>1. j < 4 * Half(l, t) /\ i = 4 * Steps(l, t) + j /\ j \in Nat
    BY <1>3 DEF s, h
  <2> QED BY <2>1, ItemIs DEF h
<1> HIDE DEF j
<1>7. Item(l, i) = Tag("K", t, 2 * h - 1 - q)
  BY <1>4, <1>6
<1> QED BY <1>5, <1>7 DEF s, h, i

LEMMA Index ==
    ASSUME NEW s \in Nat, NEW h \in Nat, NEW q \in Nat, NEW v \in Nat, q <= 2 * h, v < 2 * h, NEW i,
           i = 2 * s + q + (2 * s + v)
    PROVE  q + v \in Nat /\ q + v < 4 * h /\ i = 4 * s + (q + v)
  OBVIOUS

\* A PV of tile t: the V group it reads.
LEMMA PVItem ==
    ASSUME NEW l \in Launches, NEW t \in 1 .. Len(l.work), Half(l, t) > 0, NEW q \in Nat, NEW v \in Nat,
           NEW r, NEW x, InPV(2 * Half(l, t), q, v, r, x), NEW P \in Point,
           P.qk = 2 * Steps(l, t) + q, P.pv2 = 2 * Steps(l, t) + v
    PROVE  /\ Item(l, Slots(P)) = Tag("V", t, 2 * Half(l, t) - 1 - v)
           /\ P.pv2 % 2 = v % 2 /\ P.pv2 \div 2 = Steps(l, t) + (v \div 2)
<1> DEFINE s == Steps(l, t)
           h == Half(l, t)
           j == q + v
           i == Slots(P)
<1>1. s \in Nat /\ h \in Nat
  BY NextTile, LaunchFacts
<1>2. /\ i = P.qk + P.pv2 /\ P.qk = 2 * s + q /\ P.pv2 = 2 * s + v /\ h > 0 /\ v < 2 * h
      /\ q = IF v + 2 < 2 * h THEN v + 2 ELSE 2 * h
  BY DEF Slots, InPV
<1> HIDE DEF s, h, i
<1>3. j \in Nat /\ j < 4 * h /\ i = 4 * s + j
  <2>1. q <= 2 * h
    BY <1>1, <1>2
  <2>2. i = 2 * s + q + (2 * s + v)
    BY <1>2
  <2>3. v < 2 * h
    BY <1>2
  <2>4. q + v \in Nat /\ q + v < 4 * h /\ i = 4 * s + (q + v)
    BY <1>1, <2>1, <2>2, <2>3, Index
  <2> QED BY <2>4
<1>4. LoadItem(2 * h, j) = [k |-> "V", grp |-> 2 * h - 1 - v]
  <2>1. CASE v + 2 < 2 * h
    <3>1. /\ j = 2 * v + 2 /\ ~(j < 2) /\ ~(j >= 2 * (2 * h) - 2) /\ j % 2 = 0
          /\ 2 * h - 1 - (j - 2) \div 2 = 2 * h - 1 - v
      BY <1>1, <1>2, <2>1
    <3> HIDE DEF j
    <3> QED BY <3>1 DEF LoadItem
  <2>2. CASE ~(v + 2 < 2 * h)
    <3>1. /\ j = 2 * h + v /\ ~(j < 2) /\ j >= 2 * (2 * h) - 2 /\ 2 * (2 * h) - 1 - j = 2 * h - 1 - v
      BY <1>1, <1>2, <2>2
    <3> HIDE DEF j
    <3> QED BY <3>1 DEF LoadItem
  <2> QED BY <2>1, <2>2
<1>5. P.pv2 % 2 = v % 2 /\ P.pv2 \div 2 = s + (v \div 2)
  <2>1. P.pv2 = 2 * s + v
    BY <1>2
  <2> QED BY <1>1, <2>1
<1>6. Item(l, i) = Tag(LoadItem(2 * h, j).k, t, LoadItem(2 * h, j).grp)
  <2> HIDE DEF j
  <2>1. j < 4 * Half(l, t) /\ i = 4 * Steps(l, t) + j /\ j \in Nat
    BY <1>3 DEF s, h
  <2> QED BY <2>1, ItemIs DEF h
<1> HIDE DEF j
<1>7. Item(l, i) = Tag("V", t, 2 * h - 1 - v)
  BY <1>4, <1>6
<1> QED BY <1>5, <1>7 DEF s, h, i

\* The tag of step c \div 2 on stage c % 2, where c is the c-th of tile t.
LEMMA TagIs ==
    ASSUME NEW l \in Launches, NEW t \in 1 .. Len(l.work), NEW c \in Nat, c < 2 * Half(l, t), NEW k,
           k = Steps(l, t) + (c \div 2), NEW g, g = c % 2, NEW kind
    PROVE  /\ StepTag(l, kind, g, k) = Tag(kind, t, 2 * Half(l, t) - 1 - c)
           /\ TileAt(l, k) = t /\ k \in Nat
<1> DEFINE s == Steps(l, t)
           h == Half(l, t)
<1>1. s \in Nat /\ h \in Nat
  BY NextTile, LaunchFacts
<1>2. k = s + (c \div 2) /\ c < 2 * h
  OBVIOUS
<1> HIDE DEF s, h
<1>3. k \in Nat /\ s <= k /\ k < s + h /\ 2 * h - 1 - (2 * (k - s) + g) = 2 * h - 1 - c
  BY <1>1, <1>2
<1>4. TileAt(l, k) = t
  BY <1>3, TileIs DEF s, h
<1> QED BY <1>3, <1>4 DEF StepTag, s, h

\* The operation x of the queue: its item of the ring is there, and stays.
LEMMA OperandThere ==
    ASSUME NEW st, Control(st), NEW x \in DOMAIN tc, tc[x].do # "none"
    PROVE  /\ Slots(st[x]) \in Nat /\ Slots(st[1]) <= Slots(st[x]) /\ Slots(st[x]) < mm.kv
           /\ tc[x].slot = IndexOf(Slots(st[x])) /\ Flying(Slots(st[x])) = 0
           /\ InKvSlot(tc[x].slot) = {}
<1>1. /\ st[x] \in Point /\ st[x + 1] \in Point /\ Step(launch, st[x], tc[x], st[x + 1])
      /\ Effect(st[x], tc[x], st[x + 1]) /\ Ahead(st[1], st[x]) /\ Ahead(st[x + 1], Issued(launch, mm))
      /\ Placed(launch, st[x])
  BY InQueue
<1>2. Registers /\ MmaRole /\ Queue(st) /\ launch \in Launches /\ InFlight
  BY DEF Control, Registers
<1>3. st[1] \in Point /\ Issued(launch, mm) \in Point
  BY <1>2, QueueFacts
<1>4. Slots(st[x]) \in Nat /\ st[x].pv2 <= st[x].pv1
  BY <1>1, <1>2, PlacedFacts
<1>5. tc[x].slot = IndexOf(Slots(st[x])) /\ tc[x].do \in {"QK", "PV1", "PV2"}
  BY <1>1, <1>2, StageOfOp
<1>6. tc[x].do \in {"PV1", "PV2"} => st[x].pv2 + 1 <= Issued(launch, mm).pv1
  <2> SUFFICES ASSUME tc[x].do \in {"PV1", "PV2"} PROVE st[x].pv2 + 1 <= Issued(launch, mm).pv1
    OBVIOUS
  <2>1. tc[x].do = "PV1" => st[x + 1].pv1 = st[x].pv1 + 1
    BY <1>1 DEF Effect, Adds
  <2>2. tc[x].do = "PV2" => st[x + 1].pv1 = st[x].pv1 /\ st[x].pv1 = st[x].pv2 + 1
    <3> SUFFICES ASSUME tc[x].do = "PV2" PROVE st[x + 1].pv1 = st[x].pv1 /\ st[x].pv1 = st[x].pv2 + 1
      OBVIOUS
    <3>1. PICK t \in 1 .. Len(launch.work), q \in Nat, u \in Nat, v \in Nat, r \in Nat, y \in Nat :
            StepIn(launch, t, q, u, v, r, y, st[x], tc[x], st[x + 1])
      BY <1>1 DEF Step
    <3>2. PV2Step(st[x], tc[x], st[x + 1], v >= 2 * Half(launch, t) - 2) /\ u = v + 1 /\ st[x] = At(launch, t, q, u, v, r, y)
      BY <3>1 DEF StepIn, QKStep, ReleaseStep, PV1Step, Op
    <3>3. st[x + 1].pv1 = st[x].pv1
      BY <1>1, <3>2 DEF PV2Step, Point
    <3>4. Steps(launch, t) \in Nat
      BY <1>2, NextTile
    <3>5. st[x].pv1 = 2 * Steps(launch, t) + u /\ st[x].pv2 = 2 * Steps(launch, t) + v
      BY <3>2 DEF At
    <3> QED BY <3>2, <3>3, <3>4, <3>5
  <2> DEFINE a == st[x].pv2
             b == st[x].pv1
             c == st[x + 1].pv1
             d == Issued(launch, mm).pv1
  <2>3. /\ a \in Nat /\ b \in Nat /\ c \in Nat /\ d \in Nat /\ c <= d /\ a <= b
        /\ (c = b + 1 \/ (c = b /\ b = a + 1))
    BY <1>1, <1>3, <1>4, <2>1, <2>2 DEF Ahead, Point
  <2> HIDE DEF a, b, c, d
  <2>4. a + 1 <= d
    BY <2>3
  <2> QED BY <2>4 DEF a, d
<1>7. tc[x].do = "QK" => st[x].qk + 1 <= Issued(launch, mm).qk
  <2>1. tc[x].do = "QK" => st[x + 1].qk = st[x].qk + 1
    BY <1>1 DEF Effect, Adds
  <2> QED BY <1>1, <2>1 DEF Ahead
<1> DEFINE a == st[1]
           b == st[x]
           d == Issued(launch, mm)
<1>8. /\ a.qk \in Nat /\ a.pv2 \in Nat /\ b.qk \in Nat /\ b.pv1 \in Nat /\ b.pv2 \in Nat
      /\ d.qk \in Nat /\ d.pv1 \in Nat /\ a.qk <= b.qk /\ a.pv2 <= b.pv2
      /\ b.qk <= d.qk /\ b.pv1 <= d.pv1 /\ b.pv2 <= b.pv1
  <2>1. st[x + 1].qk \in Nat /\ st[x + 1].pv1 \in Nat /\ b.qk <= st[x + 1].qk /\ b.pv1 <= st[x + 1].pv1
    BY <1>1 DEF Effect, Adds, Point
  <2> QED BY <1>1, <1>3, <1>4, <2>1 DEF Ahead, Point
<1>9. mm.kv = d.qk + d.pv1
  BY <1>2 DEF MmaRole
<1>10. Slots(a) <= Slots(b) /\ Slots(b) < mm.kv
  <2> HIDE DEF a, b, d
  <2>1. a.qk + a.pv2 <= b.qk + b.pv2
    BY <1>8
  <2>2. b.qk + b.pv2 < d.qk + d.pv1
    <3>1. CASE tc[x].do = "QK"
      <4>1. b.qk + 1 <= d.qk
        BY <1>7, <3>1 DEF b, d
      <4> QED BY <1>8, <4>1
    <3>2. CASE tc[x].do # "QK"
      <4>1. b.pv2 + 1 <= d.pv1
        BY <1>5, <1>6, <3>2 DEF b, d
      <4> QED BY <1>8, <4>1
    <3> QED BY <3>1, <3>2
  <2> QED BY <1>9, <2>1, <2>2 DEF Slots
<1> HIDE DEF a, b, d
<1>11. PICK i \in Nat : i = Slots(st[x])
  BY <1>4
<1>12. \A c \in inflight : c.to = "KV" => c.slot # IndexOf(i)
  <2> SUFFICES ASSUME NEW c \in inflight, c.to = "KV" PROVE c.slot # IndexOf(i)
    OBVIOUS
  <2>1. PICK k \in mm.kv .. KvLoads(ld) - 1 : c = KvCopy(launch, k)
    BY <1>2 DEF InFlight, QCopy
  <2>2. /\ KvLoads(ld) \in Nat /\ mm.kv \in Nat /\ Slots(st[1]) \in Nat /\ KvLoads(ld) <= Slots(st[1]) + 3
    BY LoadSees
  <2>3. i < k /\ k <= i + 2 /\ k \in Int
    <3>1. Slots(st[1]) <= i /\ i < mm.kv
      BY <1>10, <1>11 DEF a, b
    <3> QED BY <2>2, <3>1
  <2>4. IndexOf(i) # IndexOf(k)
    BY <2>3, RingApart
  <2> QED BY <2>1, <2>4 DEF KvCopy
<1>13. Flying(i) = 0
  <2>1. KvCopy(launch, i) \notin inflight
    BY <1>12 DEF KvCopy
  <2> QED BY <2>1 DEF Flying, If
<1>14. InKvSlot(tc[x].slot) = {}
  BY <1>5, <1>11, <1>12 DEF InKvSlot
<1> QED BY <1>4, <1>5, <1>10, <1>11, <1>13, <1>14 DEF a, b

\* The MMA warp has taken the Q of the tile of a QK it has issued.
LEMMA QTakenFor ==
    ASSUME NEW st, Control(st), NEW t \in 1 .. Len(launch.work), Half(launch, t) > 0,
           Issued(launch, mm).qk > 2 * Steps(launch, t)
    PROVE  QTaken(launch, mm) >= Works(launch, t) + 1
<1>1. Registers /\ MmaRole /\ launch \in Launches /\ mm.tile \in 1 .. Len(launch.work) + 1
  BY MmaSees
<1>2. PICK u \in 1 .. Len(launch.work) + 1 : u = mm.tile
  BY <1>1
<1>3. /\ Steps(launch, u) \in Nat /\ Works(launch, u) \in Nat /\ Works(launch, t) \in Nat /\ Steps(launch, t) \in Nat
  BY <1>1, TileCounts, NextTile
<1>4. Len(launch.work) \in Nat
  BY <1>1, LaunchFacts
<1>5. CASE u < t
  <2>1. u \in 1 .. Len(launch.work) /\ Half(launch, u) \in Nat
    <3>1. u \in 1 .. Len(launch.work)
      BY <1>4, <1>5
    <3> QED BY <1>1, <3>1, LaunchFacts
  <2>2. Steps(launch, u) + Half(launch, u) <= Steps(launch, t)
    <3>1. t \in 1 .. Len(launch.work) + 1
      BY <1>4
    <3> QED BY <1>1, <1>5, <2>1, <3>1, Past
  <2>3. PICK c \in Nat : Issued(launch, mm).qk = 2 * Steps(launch, u) + c /\ c <= 2 * Half(launch, u)
    <3> DEFINE n == 2 * Half(launch, u)
    <3>1. CASE mm.pc \in {"tile", "done"}
      <4>1. Issued(launch, mm).qk = 2 * Steps(launch, u) + 0
        BY <1>2, <3>1 DEF Issued, At
      <4> QED BY <2>1, <4>1
    <3>2. CASE mm.pc = "s"
      <4>1. Issued(launch, mm).qk = 2 * Steps(launch, u) + mm.j
        BY <1>2, <3>2 DEF Issued, At
      <4>2. mm.j \in Nat /\ mm.j < 2 /\ Half(launch, u) > 0
        BY <1>1, <1>2, <3>2 DEF MmaRole
      <4>3. mm.j <= 2 * Half(launch, u)
        BY <2>1, <4>2
      <4> QED BY <4>1, <4>2, <4>3
    <3>3. CASE mm.pc \notin {"tile", "done", "s"}
      <4> DEFINE c == IF mm.j + 2 < n THEN mm.j + 2 ELSE n
      <4>1. Issued(launch, mm).qk = 2 * Steps(launch, u) + c
        BY <1>2, <3>3 DEF Issued, At
      <4>2. c \in Nat /\ c <= n
        <5>1. mm.j \in Nat /\ n \in Nat
          BY <1>1, <2>1 DEF MmaRole
        <5> HIDE DEF n
        <5> QED BY <5>1
      <4> QED BY <4>1, <4>2
    <3> QED BY <3>1, <3>2, <3>3
  <2> QED BY <1>3, <2>1, <2>2, <2>3
<1>6. CASE u = t
  <2>1. mm.pc \notin {"tile", "done"}
    <3> SUFFICES ASSUME mm.pc \in {"tile", "done"} PROVE FALSE
      OBVIOUS
    <3>1. Issued(launch, mm).qk = 2 * Steps(launch, t) + 0
      BY <1>2, <1>6 DEF Issued, At
    <3> QED BY <1>3, <3>1
  <2> QED BY <1>2, <1>3, <1>6, <2>1 DEF QTaken, If
<1>7. CASE t < u
  <2>1. Works(launch, t) + 1 <= Works(launch, u)
    BY <1>1, <1>7, Past DEF If
  <2>2. QTaken(launch, mm) \in {Works(launch, u) + 0, Works(launch, u) + 1}
    BY <1>2 DEF QTaken, If
  <2> QED BY <1>3, <2>1, <2>2
<1> QED BY <1>4, <1>5, <1>6, <1>7

\* What a QK in the queue reads: the K group of its step, and the Q of its tile.
LEMMA QKReads ==
    ASSUME NEW st, Control(st), QData, KvData(st[1]), NEW x \in DOMAIN tc, tc[x].do = "QK"
    PROVE  /\ tc[x].g = st[x].qk % 2
           /\ kv[tc[x].slot] = StepTag(launch, "K", st[x].qk % 2, st[x].qk \div 2)
           /\ TileAt(launch, st[x].qk \div 2) = sQ
           /\ ~QFlying
<1>1. /\ st[x] \in Point /\ st[x + 1] \in Point /\ Step(launch, st[x], tc[x], st[x + 1])
      /\ Effect(st[x], tc[x], st[x + 1]) /\ Ahead(st[1], st[x]) /\ Ahead(st[x + 1], Issued(launch, mm))
  BY InQueue
<1>2. Registers /\ MmaRole /\ Queue(st) /\ launch \in Launches /\ InFlight /\ Issued(launch, mm) \in Point
  BY QueueFacts DEF Control, Registers
<1>3. PICK t \in 1 .. Len(launch.work), q \in Nat, u \in Nat, v \in Nat, r \in Nat, y \in Nat :
        StepIn(launch, t, q, u, v, r, y, st[x], tc[x], st[x + 1])
  BY <1>1 DEF Step
<1>4. /\ InQK(2 * Half(launch, t), q, u, v, r, y) /\ Half(launch, t) > 0
      /\ st[x] = At(launch, t, q, u, v, r, y) /\ QKStep(st[x], tc[x], st[x + 1])
  BY <1>3 DEF StepIn, ReleaseStep, PV1Step, PV2Step, Op
<1>5. /\ st[x].qk = 2 * Steps(launch, t) + q /\ st[x].pv2 = 2 * Steps(launch, t) + v
      /\ st[x].rel = Works(launch, t) + r
  BY <1>4 DEF At
<1>6. q < 2 * Half(launch, t) /\ ((v = 0 /\ q <= 1) \/ q = v + 1) /\ r = 0
  BY <1>4 DEF InQK
<1>7. /\ Item(launch, Slots(st[x])) = Tag("K", t, 2 * Half(launch, t) - 1 - q)
      /\ st[x].qk % 2 = q % 2 /\ st[x].qk \div 2 = Steps(launch, t) + (q \div 2)
  BY <1>1, <1>2, <1>4, <1>5, <1>6, QKItem
<1>8. /\ StepTag(launch, "K", st[x].qk % 2, st[x].qk \div 2) = Tag("K", t, 2 * Half(launch, t) - 1 - q)
      /\ TileAt(launch, st[x].qk \div 2) = t
  <2>1. PICK g : g = q % 2
    OBVIOUS
  <2>2. PICK k : k = Steps(launch, t) + (q \div 2)
    OBVIOUS
  <2>3. StepTag(launch, "K", g, k) = Tag("K", t, 2 * Half(launch, t) - 1 - q) /\ TileAt(launch, k) = t
    BY <1>2, <1>6, <2>1, <2>2, TagIs
  <2> QED BY <1>7, <2>1, <2>2, <2>3
<1>9. kv[tc[x].slot] = Item(launch, Slots(st[x]))
  <2>1. /\ Slots(st[x]) \in Nat /\ Slots(st[1]) <= Slots(st[x]) /\ Slots(st[x]) < mm.kv
        /\ tc[x].slot = IndexOf(Slots(st[x])) /\ Flying(Slots(st[x])) = 0
    <3>1. tc[x].do # "none"
      OBVIOUS
    <3> QED BY <3>1, OperandThere
  <2>2. KvLoads(ld) \in Nat /\ mm.kv \in Nat /\ mm.kv <= KvLoads(ld) /\ Slots(st[1]) \in Nat
    BY LoadSees
  <2>3. Slots(st[x]) \in Slots(st[1]) .. KvLoads(ld) - 1
    BY <2>1, <2>2
  <2> QED BY <2>1, <2>3 DEF KvData
<1>10. QLoads(launch, ld) = Works(launch, t) + 1 /\ QTaken(launch, mm) = QLoads(launch, ld)
       /\ Works(launch, t) \in Nat
  <2>1. Works(launch, t) \in Nat /\ Steps(launch, t) \in Nat
    BY <1>2, NextTile
  <2>2. Issued(launch, mm).qk > 2 * Steps(launch, t)
    <3>1. st[x + 1].qk = st[x].qk + 1 /\ st[x + 1].qk <= Issued(launch, mm).qk /\ Issued(launch, mm).qk \in Nat
      BY <1>1, <1>2 DEF Effect, Adds, Ahead, Point
    <3> QED BY <1>5, <2>1, <3>1
  <2>3. QTaken(launch, mm) >= Works(launch, t) + 1
    BY <1>4, <2>2, QTakenFor
  <2>4. /\ QTaken(launch, mm) \in Nat /\ QLoads(launch, ld) \in Nat /\ st[1].rel \in Nat
        /\ QTaken(launch, mm) <= QLoads(launch, ld) /\ QLoads(launch, ld) <= st[1].rel + 1
    BY LoadSees
  <2>5. st[1].rel <= Works(launch, t)
    BY <1>1, <1>5, <1>6, <2>1 DEF Ahead
  <2> QED BY <2>1, <2>3, <2>4, <2>5
<1>11. ~QFlying
  <2>1. \A c \in inflight : c.to # "Q"
    <3>1. QTaken(launch, mm) \in Nat
      BY <1>2, MmaCounts
    <3>2. ~(QLoads(launch, ld) > QTaken(launch, mm))
      BY <1>10, <3>1
    <3> QED BY <1>2, <3>2 DEF InFlight, KvCopy
  <2> QED BY <2>1 DEF QFlying
<1>12. sQ = t
  <2>1. sQ \in 1 .. Len(launch.work) /\ Half(launch, sQ) > 0 /\ Works(launch, sQ) + 1 = QLoads(launch, ld)
    BY <1>10, <1>11 DEF QData
  <2>2. Works(launch, sQ) = Works(launch, t)
    <3>1. Works(launch, sQ) \in Nat
      BY <1>2, <2>1, NextTile
    <3> QED BY <1>10, <2>1, <3>1
  <2> QED BY <1>2, <1>4, <2>1, <2>2, WorkIs
<1>13. tc[x].g = st[x].qk % 2
  BY <1>1, <1>2, StageOfOp
<1> QED BY <1>7, <1>8, <1>9, <1>11, <1>12, <1>13

\* What a PV in the queue reads: the V group of its step.
LEMMA PVReads ==
    ASSUME NEW st, Control(st), KvData(st[1]), NEW x \in DOMAIN tc, tc[x].do \in {"PV1", "PV2"}
    PROVE  /\ tc[x].g = st[x].pv2 % 2
           /\ kv[tc[x].slot] = StepTag(launch, "V", st[x].pv2 % 2, st[x].pv2 \div 2)
<1>1. /\ st[x] \in Point /\ st[x + 1] \in Point /\ Step(launch, st[x], tc[x], st[x + 1])
  BY InQueue
<1>2. launch \in Launches
  BY DEF Control, Registers
<1>3. PICK t \in 1 .. Len(launch.work), q \in Nat, u \in Nat, v \in Nat, r \in Nat, y \in Nat :
        StepIn(launch, t, q, u, v, r, y, st[x], tc[x], st[x + 1])
  BY <1>1 DEF Step
<1>4. /\ InPV(2 * Half(launch, t), q, v, r, y) /\ Half(launch, t) > 0
      /\ st[x] = At(launch, t, q, u, v, r, y)
  BY <1>3 DEF StepIn, QKStep, ReleaseStep, Op
<1>5. /\ st[x].qk = 2 * Steps(launch, t) + q /\ st[x].pv2 = 2 * Steps(launch, t) + v
  BY <1>4 DEF At
<1>6. /\ Item(launch, Slots(st[x])) = Tag("V", t, 2 * Half(launch, t) - 1 - v)
      /\ st[x].pv2 % 2 = v % 2 /\ st[x].pv2 \div 2 = Steps(launch, t) + (v \div 2)
  BY <1>1, <1>2, <1>4, <1>5, PVItem
<1>7. StepTag(launch, "V", st[x].pv2 % 2, st[x].pv2 \div 2) = Tag("V", t, 2 * Half(launch, t) - 1 - v)
  <2>1. PICK g : g = v % 2
    OBVIOUS
  <2>2. PICK k : k = Steps(launch, t) + (v \div 2)
    OBVIOUS
  <2>3. v < 2 * Half(launch, t)
    BY <1>4 DEF InPV
  <2>4. StepTag(launch, "V", g, k) = Tag("V", t, 2 * Half(launch, t) - 1 - v)
    BY <1>2, <2>1, <2>2, <2>3, TagIs
  <2> QED BY <1>6, <2>1, <2>2, <2>4
<1>8. kv[tc[x].slot] = Item(launch, Slots(st[x]))
  <2>1. /\ Slots(st[x]) \in Nat /\ Slots(st[1]) <= Slots(st[x]) /\ Slots(st[x]) < mm.kv
        /\ tc[x].slot = IndexOf(Slots(st[x])) /\ Flying(Slots(st[x])) = 0
    <3>1. tc[x].do # "none"
      OBVIOUS
    <3> QED BY <3>1, OperandThere
  <2>2. KvLoads(ld) \in Nat /\ mm.kv \in Nat /\ mm.kv <= KvLoads(ld) /\ Slots(st[1]) \in Nat
    BY LoadSees
  <2>3. Slots(st[x]) \in Slots(st[1]) .. KvLoads(ld) - 1
    BY <2>1, <2>2
  <2> QED BY <2>1, <2>3 DEF KvData
<1>9. tc[x].g = st[x].pv2 % 2
  BY <1>1, <1>2, StageOfOp
<1> QED BY <1>6, <1>7, <1>8, <1>9

LEMMA ControlOperands ==
    ASSUME NEW st, Control(st), QData, KvData(st[1])
    PROVE  OperandsHeld
<1> SUFFICES ASSUME NEW op \in Queued, op.do # "none"
             PROVE  /\ InKvSlot(op.slot) = {}
                    /\ IF op.do = "QK"
                       THEN /\ kv[op.slot].k = "K" /\ kv[op.slot].tile = sQ
                            /\ ~\E c \in inflight : c.to = "Q"
                       ELSE kv[op.slot].k = "V"
  BY DEF OperandsHeld
<1>1. PICK x \in DOMAIN tc : op = tc[x]
  BY DEF Queued
<1>2. InKvSlot(op.slot) = {}
  BY <1>1, OperandThere
<1>3. CASE op.do = "QK"
  <2>1. /\ kv[op.slot] = StepTag(launch, "K", st[x].qk % 2, st[x].qk \div 2)
        /\ TileAt(launch, st[x].qk \div 2) = sQ /\ ~QFlying
    BY <1>1, <1>3, QKReads
  <2>2. kv[op.slot].k = "K" /\ kv[op.slot].tile = sQ
    BY <2>1 DEF StepTag, Tag
  <2> QED BY <1>2, <1>3, <2>1, <2>2 DEF QFlying
<1>4. CASE op.do # "QK"
  <2>1. op.do \in {"PV1", "PV2"}
    <3>1. Step(launch, st[x], tc[x], st[x + 1]) /\ launch \in Launches
      BY InQueue DEF Control, Registers
    <3> QED BY <1>1, <1>4, <3>1, StageOfOp
  <2>2. kv[op.slot] = StepTag(launch, "V", st[x].pv2 % 2, st[x].pv2 \div 2)
    BY <1>1, <2>1, PVReads
  <2> QED BY <1>2, <1>4, <2>2 DEF StepTag, Tag
<1> QED BY <1>3, <1>4

-----------------------------------------------------------------------------
(* The Q tile and the ring hold what the loads put there.                  *)

LEMMA OperandsKept ==
    ASSUME NEW e, QData, KvData(e), UNCHANGED <<launch, sQ, kv, inflight>>, KvLoads(ld') = KvLoads(ld),
           QLoads(launch, ld') = QLoads(launch, ld), NEW e2, Slots(e) \in Nat, Slots(e2) \in Nat,
           Slots(e) <= Slots(e2), KvLoads(ld) \in Nat
    PROVE  QData' /\ KvData(e2)'
<1>1. QData'
  <2>1. QFlying' = QFlying
    BY DEF QFlying
  <2> QED BY <2>1 DEF QData
<1>2. KvData(e2)'
  <2>1. \A i : Flying(i)' = Flying(i)
    BY DEF Flying, KvCopy
  <2>2. \A i \in Slots(e2) .. KvLoads(ld) - 1 : i \in Slots(e) .. KvLoads(ld) - 1
    OBVIOUS
  <2>3. \A i \in Slots(e2) .. KvLoads(ld) - 1 : Flying(i)' = 0 => kv'[IndexOf(i)] = Item(launch, i)
    BY <2>1, <2>2 DEF KvData
  <2>4. KvLoads(ld)' = KvLoads(ld)
    OBVIOUS
  <2> QED BY <2>3, <2>4 DEF KvData
<1> QED BY <1>1, <1>2

LEMMA LoadQOperands ==
    ASSUME NEW st, Control(st), QData, KvData(st[1]), LoadQ
    PROVE  QData' /\ KvData(st[1])'
<1>1. PICK c : c = [to |-> "Q", slot |-> 0, tag |-> Tag("Q", ld.tile, 0)]
  OBVIOUS
<1>2. c.to = "Q" /\ inflight' = inflight \cup {c} /\ UNCHANGED <<launch, kv>>
  BY <1>1 DEF LoadQ
<1>3. QData'
  <2>1. QFlying'
    BY <1>2 DEF QFlying
  <2> QED BY <2>1 DEF QData
<1>4. KvLoads(ld)' = KvLoads(ld)
  BY DEF LoadQ, KvLoads
<1>5. \A i : Flying(i)' = Flying(i)
  BY <1>2 DEF Flying, KvCopy
<1> QED BY <1>2, <1>3, <1>4, <1>5 DEF KvData

LEMMA LoadKVOperands ==
    ASSUME NEW st, Control(st), QData, KvData(st[1]), LoadKV
    PROVE  QData' /\ KvData(st[1])'
<1> DEFINE S == Slots(st[1])
<1>1. PICK K \in Nat : K = KvLoads(ld)
  BY LoadSees
<1>2. /\ LoadRole /\ LoadRole' /\ KvRing(st[1])' /\ InFlight' /\ Registers
  BY LoadKVStep DEF Control
<1>3. /\ S \in Nat /\ S <= mm.kv /\ mm.kv \in Nat /\ mm.kv <= K /\ ld.kv = K + 3
  BY <1>1, LoadSees
<1>4. PICK c : /\ c.to = "KV" /\ c.slot = IndexOf(ld.kv) /\ inflight' = inflight \cup {c}
  <2> DEFINE c == [to |-> "KV", slot |-> IndexOf(ld.kv),
                   tag |-> Tag(LoadItem(N(ld.tile), ld.j).k, ld.tile, LoadItem(N(ld.tile), ld.j).grp)]
  <2>1. inflight' = inflight \cup {c}
    BY DEF LoadKV
  <2> QED BY <2>1
<1>5. c.slot = IndexOf(K)
  BY <1>3, <1>4, Ring
<1>6. UNCHANGED <<launch, mm, sQ>> /\ kv' = [kv EXCEPT ![IndexOf(ld.kv)] = Nothing]
  BY DEF LoadKV
<1>7. KvLoads(ld)' = K + 1 /\ QLoads(launch, ld)' = QLoads(launch, ld)
  <2>1. /\ ld.pc = "kv" /\ ld'.kv = ld.kv + 1 /\ ld'.pc \in {"kv", "epi"} /\ ld'.tile = ld.tile
    <3>1. ld \in [pc : {"tile", "kv", "epi", "qtail", "done"}, tile : Nat, j : Nat, kv : Nat,
                  q : {0, 1}, epi : {0, 1}]
      BY <1>2 DEF LoadRole
    <3>2. ld' = [ld EXCEPT !.pc = IF ld.j + 1 = 2 * N(ld.tile) THEN "epi" ELSE "kv",
                           !.j = ld.j + 1, !.kv = ld.kv + 1]
      BY DEF LoadKV
    <3>3. ld.pc = "kv"
      BY DEF LoadKV
    <3> QED BY <3>1, <3>2, <3>3
  <2>2. KvLoads(ld)' = (K + 3) + 1 - 3
    <3>1. ld'.kv = (K + 3) + 1
      BY <1>3, <2>1
    <3>2. KvLoads(ld)' = ld'.kv - 3
      BY DEF KvLoads, KvStages
    <3> QED BY <3>1, <3>2
  <2>3. QLoads(launch, ld)' = QLoads(launch, ld)
    BY <1>6, <2>1 DEF QLoads
  <2>4. (K + 3) + 1 - 3 = K + 1
    OBVIOUS
  <2> QED BY <2>2, <2>3, <2>4
<1>8. K <= S + 2
  <2>1. KvLoads(ld)' <= S + KvStages
    BY <1>2 DEF KvRing
  <2> HIDE DEF S
  <2> QED BY <1>3, <1>7, <2>1 DEF KvStages
<1>9. \A i \in S .. K - 1 : IndexOf(i) # IndexOf(K)
  <2> SUFFICES ASSUME NEW i \in S .. K - 1 PROVE IndexOf(i) # IndexOf(K)
    OBVIOUS
  <2> HIDE DEF S
  <2>1. i \in Int /\ K \in Int /\ i # K /\ i <= K + 2 /\ K <= i + 2
    BY <1>3, <1>8
  <2> QED BY <2>1, RingApart
<1>10. \A i \in S .. K - 1 : Flying(i)' = Flying(i)
  <2> SUFFICES ASSUME NEW i \in S .. K - 1 PROVE Flying(i)' = Flying(i)
    OBVIOUS
  <2>1. KvCopy(launch, i) # c /\ KvCopy(launch, i)' = KvCopy(launch, i)
    BY <1>5, <1>6, <1>9 DEF KvCopy
  <2> QED BY <1>4, <2>1 DEF Flying
<1>11. Flying(K)' = 1
  <2>1. c \in inflight'
    BY <1>4
  <2>2. \E i \in mm'.kv .. KvLoads(ld)' - 1 : c = KvCopy(launch, i)'
    BY <1>2, <1>4, <2>1 DEF InFlight, QCopy
  <2>3. PICK i \in mm.kv .. K : c = KvCopy(launch, i)'
    <3>1. mm'.kv .. KvLoads(ld)' - 1 = mm.kv .. K
      BY <1>3, <1>6, <1>7
    <3> QED BY <2>2, <3>1
  <2>4. IndexOf(i) = IndexOf(K)
    BY <1>5, <2>3 DEF KvCopy
  <2>5. i = K
    <3> SUFFICES ASSUME i # K PROVE FALSE
      OBVIOUS
    <3>1. i \in S .. K - 1
      <4> HIDE DEF S
      <4> QED BY <1>3
    <3> QED BY <1>9, <2>4, <3>1
  <2>6. K >= 0 /\ KvCopy(launch, K)' \in inflight'
    BY <2>1, <2>3, <2>5
  <2> QED BY <2>6 DEF Flying, If
<1>12. KvData(st[1])'
  <2>1. ASSUME NEW i \in S .. K, Flying(i)' = 0
        PROVE  kv'[IndexOf(i)] = Item(launch, i)
    <3>1. i # K
      BY <1>11, <2>1
    <3>2. i \in S .. K - 1
      <4> HIDE DEF S
      <4> QED BY <1>3, <3>1
    <3>3. Flying(i) = 0
      BY <1>10, <2>1, <3>2
    <3>4. kv[IndexOf(i)] = Item(launch, i)
      BY <1>1, <3>2, <3>3 DEF KvData
    <3>5. IndexOf(i) # IndexOf(ld.kv) /\ IndexOf(i) \in Slot
      <4>1. i \in Int
        OBVIOUS
      <4> QED BY <1>4, <1>5, <1>9, <3>2, <4>1, Ring
    <3> QED BY <1>6, <3>4, <3>5 DEF KvData
  <2>2. DOMAIN kv' = Slot
    BY <1>6 DEF KvData
  <2>3. S .. KvLoads(ld)' - 1 = S .. K
    <3> HIDE DEF S
    <3> QED BY <1>3, <1>7
  <2>4. \A i \in S .. KvLoads(ld)' - 1 : Flying(i)' = 0 => kv'[IndexOf(i)] = Item(launch', i)
    BY <1>6, <2>1, <2>3
  <2> QED BY <2>2, <2>4 DEF KvData
<1>13. QData'
  <2>1. QFlying' = QFlying
    BY <1>4 DEF QFlying
  <2> QED BY <1>6, <1>7, <2>1 DEF QData
<1> QED BY <1>12, <1>13

\* The load warp's other steps copy nothing.
LEMMA LoadOperands ==
    ASSUME NEW st, Control(st), QData, KvData(st[1]), Load
    PROVE  QData' /\ KvData(st[1])'
<1>1. ASSUME LoadSkip \/ LoadEpi \/ LoadTail
      PROVE  QData' /\ KvData(st[1])'
  <2>1. Registers /\ LoadRole /\ LoadRegisters(ld) /\ KvLoads(ld) \in Nat /\ Slots(st[1]) \in Nat
        /\ launch \in Launches /\ Len(launch.work) \in Nat
    BY LoadSees, LaunchFacts DEF Control, LoadRole, LoadRegisters, Registers
  <2>2. UNCHANGED <<launch, sQ, kv, inflight>>
    BY <1>1 DEF LoadSkip, LoadEpi, LoadTail, memory
  <2>3. KvLoads(ld') = KvLoads(ld) /\ QLoads(launch, ld') = QLoads(launch, ld)
    <3>1. CASE LoadSkip
      <4>1. ld.tile \in 1 .. Len(launch.work) /\ Half(launch, ld.tile) = 0 /\ ld.pc = "tile"
        BY <2>1, <3>1, Tile DEF LoadSkip
      <4>2. Works(launch, ld.tile + 1) = Works(launch, ld.tile) + 0 /\ Works(launch, ld.tile) \in Nat
        BY <2>1, <4>1, NextTile DEF If
      <4>3. ld'.kv = ld.kv /\ ld'.pc = "epi" /\ ld'.tile = ld.tile
        BY <2>1, <3>1 DEF LoadSkip, LoadRegisters
      <4>4. Works(launch, ld.tile + 1) = Works(launch, ld.tile)
        BY <4>2
      <4> QED BY <4>1, <4>3, <4>4 DEF KvLoads, QLoads
    <3>2. CASE LoadEpi
      <4>1. ld'.kv = ld.kv /\ ld'.pc = "tile" /\ ld'.tile = ld.tile + 1 /\ ld.pc = "epi"
        BY <2>1, <3>2 DEF LoadEpi, LoadRegisters
      <4> QED BY <4>1 DEF KvLoads, QLoads
    <3>3. CASE LoadTail
      <4>1. ld'.kv = ld.kv /\ ld'.pc \in {"qtail", "done"} /\ ld'.tile = ld.tile /\ ld.pc \in {"tile", "qtail"}
        BY <2>1, <3>3 DEF LoadTail, LoadRegisters
      <4> QED BY <4>1 DEF KvLoads, QLoads
    <3> QED BY <1>1, <3>1, <3>2, <3>3
  <2>4. Slots(st[1]) <= Slots(st[1])
    BY <2>1
  <2> QED BY <2>1, <2>2, <2>3, <2>4, OperandsKept
<1> QED BY <1>1, LoadQOperands, LoadKVOperands DEF Load

LEMMA LandOperands ==
    ASSUME NEW st, Control(st), QData, KvData(st[1]), NEW c \in inflight, Land(c)
    PROVE  QData' /\ KvData(st[1])'
<1> DEFINE S == Slots(st[1])
<1>1. PICK K \in Nat : K = KvLoads(ld)
  BY LoadSees
<1>2. UNCHANGED <<launch, ld>> /\ inflight' = inflight \ {c} /\ InFlight
      /\ S \in Nat /\ S <= mm.kv /\ mm.kv \in Nat /\ mm.kv <= K /\ K <= S + 3
  BY <1>1, LoadSees DEF Land, Control
<1>3. KvLoads(ld)' = K /\ QLoads(launch, ld)' = QLoads(launch, ld)
  BY <1>1, <1>2
<1>4. CASE c.to = "Q"
  <2>1. PICK t \in 1 .. Len(launch.work) :
          c = QCopy(t) /\ Half(launch, t) > 0 /\ Works(launch, t) + 1 = QLoads(launch, ld)
    BY <1>2, <1>4 DEF InFlight, KvCopy
  <2>2. sQ' = t /\ kv' = kv
    BY <1>4, <2>1 DEF Land, QCopy, Tag
  <2>3. QData'
    BY <1>2, <1>3, <2>1, <2>2 DEF QData
  <2>4. \A i : Flying(i)' = Flying(i)
    BY <1>2, <1>4 DEF Flying, KvCopy
  <2> QED BY <1>1, <1>2, <1>3, <2>2, <2>3, <2>4 DEF KvData
<1>5. CASE c.to # "Q"
  <2>1. PICK k \in mm.kv .. K - 1 : c = KvCopy(launch, k)
    BY <1>1, <1>2, <1>5 DEF InFlight, QCopy
  <2>2. c.slot = IndexOf(k) /\ c.tag = Item(launch, k) /\ c.to = "KV"
    BY <2>1 DEF KvCopy
  <2>3. sQ' = sQ /\ kv' = [kv EXCEPT ![IndexOf(k)] = Item(launch, k)]
    BY <1>5, <2>2 DEF Land
  <2>4. QData'
    <3>1. QFlying' = QFlying
      BY <1>2, <2>2 DEF QFlying
    <3> QED BY <1>2, <1>3, <2>3, <3>1 DEF QData
  <2>5. ASSUME NEW i \in S .. K - 1, Flying(i)' = 0
        PROVE  kv'[IndexOf(i)] = Item(launch, i)
    <3>1. IndexOf(i) \in Slot /\ IndexOf(k) \in Slot /\ i \in Int
      BY <1>2, Ring
    <3>2. CASE i = k
      BY <2>3, <3>1, <3>2 DEF KvData
    <3>3. CASE i # k
      <4>1. IndexOf(i) # IndexOf(k)
        <5> HIDE DEF S
        <5>1. i \in Int /\ k \in Int /\ i <= k + 2 /\ k <= i + 2
          BY <1>2
        <5> QED BY <3>3, <5>1, RingApart
      <4>2. KvCopy(launch, i) # c
        BY <2>2, <4>1 DEF KvCopy
      <4>3. Flying(i) = 0
        BY <1>2, <2>5, <4>2 DEF Flying, KvCopy
      <4> QED BY <1>1, <2>3, <3>1, <4>1, <4>3 DEF KvData
    <3> QED BY <3>2, <3>3
  <2>6. DOMAIN kv' = Slot
    BY <2>3 DEF KvData
  <2> QED BY <1>2, <1>3, <2>4, <2>5, <2>6 DEF KvData
<1> QED BY <1>4, <1>5

\* A correction warp writes where K/V slots are only when the ring is its own.
LEMMA CorrectionOperands ==
    ASSUME NEW st, Control(st), QData, KvData(st[1]), NEW w \in Warps, Correction(w)
    PROVE  QData' /\ KvData(st[1])'
<1>1. UNCHANGED <<launch, sQ, inflight, ld>>
  BY DEF Correction, CorrectionStart, CorrectionFirst, CorrectionScale, CorrectionRescale, CorrectionSum,
         CorrectionWaitO, CorrectionEmpty, CorrectionStats, CorrectionCombine, CorrectionStore,
         CorrectionTail, memory
<1>2. KvLoads(ld) \in Nat /\ Slots(st[1]) \in Nat /\ Slots(st[1]) <= Slots(st[1])
  BY LoadSees
<1>3. CASE kv' = kv
  <2>1. KvLoads(ld') = KvLoads(ld) /\ QLoads(launch, ld') = QLoads(launch, ld)
    BY <1>1
  <2> QED BY <1>1, <1>2, <1>3, <2>1, OperandsKept
<1>4. CASE kv' # kv
  <2>1. /\ co[w].pc \in {"combine", "store"} /\ AliasEpilogue
        /\ \E s \in {0, 1} : kv' = [kv EXCEPT ![s] = Nothing]
    <3>1. CorrectionCombine(w) \/ CorrectionStore(w)
      BY <1>4 DEF Correction, CorrectionStart, CorrectionFirst, CorrectionScale, CorrectionRescale,
                  CorrectionSum, CorrectionWaitO, CorrectionEmpty, CorrectionStats, CorrectionTail, memory
    <3>2. CASE CorrectionCombine(w)
      <4>1. co[w].pc = "combine" /\ kv' = IF AliasEpilogue THEN [kv EXCEPT ![0] = Nothing] ELSE kv
        BY <3>2 DEF CorrectionCombine
      <4> QED BY <1>4, <4>1
    <3>3. CASE CorrectionStore(w)
      <4>1. co[w].pc = "store" /\ kv' = IF AliasEpilogue /\ Drains(w) # {} THEN [kv EXCEPT ![1] = Nothing] ELSE kv
        BY <3>3 DEF CorrectionStore
      <4> QED BY <1>4, <4>1
    <3> QED BY <3>1, <3>2, <3>3
  <2>2. /\ co[w].tile \in 1 .. Len(launch.work)
        /\ Waited(launch, co[w], 1) >= Works(launch, co[w].tile + 1)
    BY <2>1, WaitedTile
  <2>3. PICK t \in 1 .. Len(launch.work) : t = co[w].tile
    BY <2>2
  <2>4. ep.tile <= t
    <3>1. OStored(ep) = co[w].tile - 1 /\ ep.tile \in Nat
      BY <2>1, CorrectionSees, EpilogueSees
    <3> QED BY <2>3, <3>1 DEF OStored, If
  <2>5. Slots(st[1]) >= mm.kv /\ KvLoads(ld) = mm.kv
    BY <2>1, <2>2, <2>3, <2>4, RingIsFree
  <2>6. KvLoads(ld)' = KvLoads(ld)
    BY <1>1
  <2>7. \A i \in Slots(st[1]) .. KvLoads(ld)' - 1 : FALSE
    BY <1>2, <2>5, <2>6
  <2>8. DOMAIN kv' = Slot
    BY <2>1 DEF KvData
  <2>9. QData'
    <3>1. QFlying' = QFlying
      BY <1>1 DEF QFlying
    <3> QED BY <1>1, <3>1 DEF QData
  <2> QED BY <2>7, <2>8, <2>9 DEF KvData
<1> QED BY <1>3, <1>4

\* The point the tensor core reaches by a step.
Reaches(st, e) == \/ TensorCore /\ e = st[2]
                  \/ ~TensorCore /\ e = st[1]

LEMMA ControlReaches ==
    ASSUME NEW st, Control(st), [Next]_vars
    PROVE  \E s : Control(s)' /\ Reaches(st, s[1])
<1>1. CASE TensorCore
  <2>1. Control(Tail(st))'
    BY <1>1, TensorCoreStep
  <2>2. Tail(st)[1] = st[2]
    <3>1. Registers /\ Queue(st) /\ tc # <<>> /\ tc' = Tail(tc) /\ UNCHANGED <<launch, mm>>
      BY <1>1 DEF TensorCore, Control
    <3>2. tc \in Seq(Operation)
      BY <3>1 DEF Registers
    <3> QED BY <3>1, <3>2, TailQueue
  <2> QED BY <1>1, <2>1, <2>2 DEF Reaches
<1>2. CASE ~TensorCore
  BY <1>2, ControlStep DEF Reaches
<1> QED BY <1>1, <1>2

LEMMA SlotsAhead ==
    ASSUME NEW st, Control(st), TensorCore
    PROVE  Slots(st[1]) \in Nat /\ Slots(st[2]) \in Nat /\ Slots(st[1]) <= Slots(st[2])
<1>1. Registers /\ MmaRole /\ Queue(st) /\ tc # <<>> /\ tc' = Tail(tc) /\ UNCHANGED <<launch, mm>>
  BY DEF TensorCore, Control
<1>2. tc \in Seq(Operation)
  BY <1>1 DEF Registers
<1>3. Ahead(st[1], st[2]) /\ st[2] \in Point
  BY <1>1, <1>2, TailQueue
<1>4. st[1] \in Point
  BY <1>1, QueueFacts
<1> QED BY <1>3, <1>4 DEF Slots, Ahead, Point

LEMMA OperandsStep ==
    ASSUME NEW st, Control(st), QData, KvData(st[1]), [Next]_vars, NEW e, Reaches(st, e)
    PROVE  QData' /\ KvData(e)'
<1>1. KvLoads(ld) \in Nat /\ Slots(st[1]) \in Nat /\ Slots(st[1]) <= Slots(st[1])
  BY LoadSees
<1>2. ASSUME UNCHANGED <<launch, ld, sQ, kv, inflight>>, Slots(e) \in Nat, Slots(st[1]) <= Slots(e)
      PROVE  QData' /\ KvData(e)'
  <2>1. KvLoads(ld') = KvLoads(ld) /\ QLoads(launch, ld') = QLoads(launch, ld)
    BY <1>2
  <2> QED BY <1>1, <1>2, <2>1, OperandsKept
<1>3. CASE TensorCore
  <2>1. UNCHANGED <<launch, ld, sQ, kv, inflight>>
    BY <1>3 DEF TensorCore
  <2>2. e = st[2]
    BY <1>3 DEF Reaches
  <2> QED BY <1>2, <1>3, <2>1, <2>2, SlotsAhead
<1>4. CASE ~TensorCore
  <2>1. e = st[1]
    BY <1>4 DEF Reaches
  <2>2. CASE Load
    BY <2>1, <2>2, LoadOperands
  <2>3. CASE \E c \in inflight : Land(c)
    BY <2>1, <2>3, LandOperands
  <2>4. CASE \E w \in Warps : Correction(w)
    BY <2>1, <2>4, CorrectionOperands
  <2>5. CASE Mma \/ Epilogue \/ UNCHANGED vars
    <3>1. UNCHANGED <<launch, ld, sQ, kv, inflight>>
      BY <2>5 DEF Mma, MmaQ, MmaSkip, MmaS, MmaSpo, MmaV, MmaPv, MmaK, MmaFree, Epilogue,
                  EpilogueStore, EpilogueSignal, memory, vars
    <3> QED BY <1>1, <1>2, <2>1, <3>1
  <2>6. CASE \E g \in Stage, w \in Warps : Softmax(g, w)
    <3>1. UNCHANGED <<launch, ld, sQ, kv, inflight>>
      BY <2>6 DEF Softmax, SoftmaxTile, SoftmaxScore, SoftmaxScale, SoftmaxP1, SoftmaxP2, SoftmaxSum,
                  SoftmaxTail, memory
    <3> QED BY <1>1, <1>2, <2>1, <3>1
  <2> QED BY <1>4, <2>2, <2>3, <2>4, <2>5, <2>6 DEF Next, Terminating
<1> QED BY <1>3, <1>4

OperandsInvariant == \E st : Control(st) /\ QData /\ KvData(st[1])

LEMMA OperandsHold == Spec => []OperandsInvariant
<1>1. Init => OperandsInvariant
  <2> SUFFICES ASSUME Init PROVE OperandsInvariant
    OBVIOUS
  <2>1. PICK st : Control(st)
    BY StartControl
  <2>2. KvLoads(ld) = 0 /\ QLoads(launch, ld) = 0
    BY StartFacts
  <2>3. Slots(st[1]) \in Nat /\ DOMAIN kv = Slot
    BY <2>1, LoadSees DEF Init
  <2> QED BY <2>1, <2>2, <2>3 DEF OperandsInvariant, QData, KvData
<1>2. OperandsInvariant /\ [Next]_vars => OperandsInvariant'
  <2> SUFFICES ASSUME OperandsInvariant, [Next]_vars PROVE OperandsInvariant'
    OBVIOUS
  <2>1. PICK st : Control(st) /\ QData /\ KvData(st[1])
    BY DEF OperandsInvariant
  <2>2. PICK s : Control(s)' /\ Reaches(st, s[1])
    BY <2>1, ControlReaches
  <2>3. QData' /\ KvData(s[1])'
    BY <2>1, <2>2, OperandsStep
  <2> QED BY <2>2, <2>3 DEF OperandsInvariant
<1> QED BY <1>1, <1>2, PTL DEF Spec

(* From the moment an operation is issued until the tensor core has executed *)
(* it, the slot of the ring it reads holds a K group, of the tile whose Q is *)
(* in shared memory, or a V group, and no copy is under way to it: it is the *)
(* order of tcgen05.commit and consumer_release that keeps the TMA warp and  *)
(* the epilogue out.                                                         *)
THEOREM OperandsHeldHolds == Spec => []OperandsHeld
<1>1. OperandsInvariant => OperandsHeld
  BY ControlOperands DEF OperandsInvariant
<1> QED BY <1>1, OperandsHold, PTL

-----------------------------------------------------------------------------
(* The K scales.                                                           *)

\* The scales that have been published, of both stages.
ScalesAt(l, m) ==
    2 * Steps(l, m.tile)
    + (IF m.pc \in {"tile", "done"} THEN 0
       ELSE IF m.pc = "s" THEN m.j + 1
       ELSE IF m.j + 2 + If(m.pc # "spo") < 2 * Half(l, m.tile) THEN m.j + 2 + If(m.pc # "spo")
       ELSE 2 * Half(l, m.tile))

MmaPlace(l, m) ==
    /\ m.tile \in 1 .. Len(l.work) + 1 /\ m.j \in Nat
    /\ m.pc \in {"tile", "s", "spo", "v", "pv", "k", "done"}
    /\ m.pc \notin {"tile", "done"} => m.tile \in 1 .. Len(l.work) /\ Half(l, m.tile) > 0
    /\ m.pc = "s" => m.j < 2
    /\ m.pc \in {"spo", "v", "pv"} => m.j < 2 * Half(l, m.tile)
    /\ m.pc = "k" => m.j < 2 * Half(l, m.tile) - 2

LEMMA PlaceOf ==
    ASSUME Registers, MmaRole
    PROVE  MmaPlace(launch, mm)
<1>1. launch \in Launches /\ Len(launch.work) \in Nat
  BY LaunchFacts DEF Registers
<1>2. mm.pc \notin {"tile", "done"} => mm.tile \in 1 .. Len(launch.work) /\ Half(launch, mm.tile) > 0
  BY <1>1 DEF MmaRole
<1> QED BY <1>2 DEF MmaRole, MmaPlace

LEMMA PublishedIs ==
    ASSUME NEW l \in Launches, NEW m, MmaPlace(l, m), NEW g \in Stage
    PROVE  /\ ScalesAt(l, m) \in Nat /\ Published(l, m, g) = OnStage(ScalesAt(l, m), g)
           /\ OnStage(Issued(l, m).qk, g) <= Published(l, m, g)
           /\ Published(l, m, g) <= PTaken(l, m, g) + 1
           /\ OnStage(Issued(l, m).qk, g) \in Nat /\ PTaken(l, m, g) \in Nat
<1> DEFINE s == Steps(l, m.tile)
           h == Half(l, m.tile)
           n == 2 * h
           j == m.j
<1>1. s \in Nat /\ j \in Nat /\ m.pc \in {"tile", "s", "spo", "v", "pv", "k", "done"}
  BY TileCounts DEF MmaPlace
<1>2. CASE m.pc \in {"tile", "done"}
  <2>1. Issued(l, m).qk = 2 * s + 0 /\ Issued(l, m).pv1 = 2 * s + 0
    BY <1>2 DEF Issued, At
  <2>2. Published(l, m, g) = OnStage(2 * s + 0, g) + 0 + 0 /\ PTaken(l, m, g) = OnStage(2 * s + 0, g) + 0
    BY <1>2, <2>1 DEF Published, PTaken, If
  <2>3. ScalesAt(l, m) = 2 * s + 0
    BY <1>2 DEF ScalesAt
  <2> HIDE DEF s
  <2>4. OnStage(2 * s + 0, g) \in Nat /\ 2 * s + 0 \in Nat
    <3>1. 2 * s + 0 \in Nat
      BY <1>1
    <3> QED BY <3>1, Alternate
  <2> QED BY <2>1, <2>2, <2>3, <2>4
<1>3. CASE m.pc = "s"
  <2>1. Issued(l, m).qk = 2 * s + j /\ Issued(l, m).pv1 = 2 * s + 0
    BY <1>3 DEF Issued, At
  <2>2. Published(l, m, g) = OnStage(2 * s + j, g) + If(g = j) + 0 /\ PTaken(l, m, g) = OnStage(2 * s + 0, g) + 0
    BY <1>3, <2>1 DEF Published, PTaken, If
  <2>3. ScalesAt(l, m) = 2 * s + (j + 1)
    BY <1>3 DEF ScalesAt
  <2>4. j < 2
    BY <1>3 DEF MmaPlace
  <2> HIDE DEF s, j
  <2>5. /\ OnStage(2 * s + j, g) = s + OnStage(j, g) /\ OnStage(2 * s + 0, g) = s + OnStage(0, g)
        /\ OnStage(2 * s + (j + 1), g) = s + OnStage(j + 1, g)
    <3>1. j + 1 \in Nat /\ 0 \in Nat
      BY <1>1
    <3> QED BY <1>1, <3>1, AlternateFrom
  <2>6. /\ OnStage(0, g) = 0 /\ OnStage(j, g) \in {0, 1} /\ OnStage(j, g) + If(g = j) = OnStage(j + 1, g)
        /\ OnStage(j + 1, g) \in {0, 1} /\ OnStage(j, g) <= OnStage(j + 1, g) /\ If(g = j) \in {0, 1}
    BY <1>1, <2>4 DEF OnStage, If, Stage
  <2>7. ScalesAt(l, m) \in Nat
    BY <1>1, <2>3
  <2> QED BY <1>1, <2>1, <2>2, <2>3, <2>5, <2>6, <2>7
<1>4. CASE m.pc \in {"spo", "v", "pv", "k"}
  <2> DEFINE f == If(m.pc # "spo")
             q == IF j + 2 < n THEN j + 2 ELSE n
             c == IF j + 2 + f < n THEN j + 2 + f ELSE n
             u == j + If(m.pc \in {"pv", "k"})
             b == If(m.pc \in {"v", "pv", "k"} /\ j < n - 2 /\ g = j % 2)
             a == If(m.pc = "v" /\ g = j % 2)
  <2>1. Issued(l, m).qk = 2 * s + q /\ Issued(l, m).pv1 = 2 * s + u
    <3>1. Issued(l, m) = At(l, m.tile, q, u, j + If(m.pc = "k"), If(j >= n - 2), If(j = n - 1))
      BY <1>4 DEF Issued
    <3> HIDE DEF q, u
    <3> QED BY <3>1 DEF At
  <2>2. Published(l, m, g) = OnStage(2 * s + q, g) + 0 + b /\ PTaken(l, m, g) = OnStage(2 * s + u, g) + a
    BY <1>4, <2>1 DEF Published, PTaken, If
  <2>3. ScalesAt(l, m) = 2 * s + c
    BY <1>4 DEF ScalesAt
  <2>4. h \in Nat /\ j < n /\ (m.pc = "k" => j < n - 2) /\ h > 0
    <3>1. h \in Nat /\ h > 0 /\ (m.pc \in {"spo", "v", "pv"} => j < n) /\ (m.pc = "k" => j < n - 2)
      BY <1>4, LaunchFacts DEF MmaPlace
    <3> HIDE DEF h, j
    <3> QED BY <1>1, <1>4, <3>1
  <2> HIDE DEF s, h, j
  <2>5. q \in Nat /\ c \in Nat /\ u \in Nat /\ f \in {0, 1} /\ b \in {0, 1} /\ a \in {0, 1} /\ q <= u + 2
    BY <1>1, <2>4 DEF If
  <2>6. OnStage(2 * s + q, g) = s + OnStage(q, g) /\ OnStage(2 * s + c, g) = s + OnStage(c, g)
        /\ OnStage(2 * s + u, g) = s + OnStage(u, g)
    <3> HIDE DEF q, c, u
    <3>1. OnStage(2 * s + q, g) = s + OnStage(q, g)
      BY <1>1, <2>5, AlternateFrom
    <3>2. OnStage(2 * s + c, g) = s + OnStage(c, g)
      BY <1>1, <2>5, AlternateFrom
    <3>3. OnStage(2 * s + u, g) = s + OnStage(u, g)
      BY <1>1, <2>5, AlternateFrom
    <3> QED BY <3>1, <3>2, <3>3
  <2>7. OnStage(q, g) \in Nat /\ OnStage(u, g) \in Nat /\ OnStage(c, g) \in Nat
    <3> HIDE DEF q, c, u
    <3> QED BY <2>5, Alternate
  <2>8. OnStage(q, g) + b = OnStage(c, g)
    <3>1. CASE m.pc = "spo" \/ ~(j < n - 2)
      <4>1. c = q
        BY <1>1, <2>4, <3>1 DEF If
      <4>2. b = 0
        BY <3>1 DEF If
      <4> HIDE DEF b, c, q
      <4> QED BY <2>7, <4>1, <4>2
    <3>2. CASE m.pc # "spo" /\ j < n - 2
      <4>1. q = j + 2 /\ c = j + 2 + 1
        BY <1>1, <2>4, <3>2 DEF If
      <4>2. b = If(g = j % 2)
        BY <1>4, <3>2 DEF If
      <4>3. OnStage(j + 2 + 1, g) = OnStage(j + 2, g) + If(g = (j + 2) % 2) /\ (j + 2) % 2 = j % 2
        <5>1. j + 2 \in Nat /\ (j + 2) % 2 = j % 2
          BY <1>1
        <5> QED BY <5>1, Alternate
      <4> HIDE DEF b, c, q
      <4> QED BY <4>1, <4>2, <4>3
    <3> QED BY <3>1, <3>2
  <2>9. OnStage(c, g) <= OnStage(u, g) + a + 1
    <3>1. CASE m.pc \in {"spo", "pv", "k"}
      <4>1. c <= u + 2
        BY <1>1, <1>4, <2>4, <3>1 DEF If
      <4>2. OnStage(c, g) <= OnStage(u + 2, g) /\ OnStage(u + 2, g) = OnStage(u, g) + 1
        <5>1. u + 2 \in Nat
          BY <2>5
        <5> HIDE DEF c, u
        <5> QED BY <2>5, <4>1, <5>1, Alternate, AlternateKeeps
      <4>3. a = 0
        BY <3>1 DEF If
      <4> HIDE DEF c, u, a
      <4> QED BY <2>7, <4>2, <4>3
    <3>2. CASE m.pc = "v"
      <4>1. c <= j + 1 + 2 /\ u = j + 0 /\ a = If(g = j % 2)
        BY <1>1, <2>4, <3>2 DEF If
      <4>2. OnStage(c, g) <= OnStage(j + 1 + 2, g) /\ OnStage(j + 1 + 2, g) = OnStage(j + 1, g) + 1
            /\ OnStage(j + 1, g) = OnStage(j, g) + If(g = j % 2)
        <5>1. j + 1 \in Nat /\ j + 1 + 2 \in Nat
          BY <1>1
        <5>2. c \in Nat /\ c <= j + 1 + 2
          BY <2>5, <4>1
        <5> HIDE DEF c
        <5> QED BY <1>1, <5>1, <5>2, Alternate, AlternateKeeps
      <4>3. u = j
        BY <1>1, <4>1
      <4> HIDE DEF c, u, a
      <4> QED BY <2>5, <2>7, <4>1, <4>2, <4>3 DEF If
    <3> QED BY <1>4, <3>1, <3>2
  <2> HIDE DEF q, c, u, b, a
  <2>10. ScalesAt(l, m) \in Nat
    BY <1>1, <2>3, <2>5
  <2>11. Published(l, m, g) = OnStage(2 * s + c, g)
    BY <1>1, <2>2, <2>5, <2>6, <2>7, <2>8
  <2>12. Published(l, m, g) <= PTaken(l, m, g) + 1
    BY <1>1, <2>2, <2>5, <2>6, <2>7, <2>8, <2>9
  <2> QED BY <1>1, <2>1, <2>2, <2>3, <2>5, <2>6, <2>7, <2>10, <2>11, <2>12
<1> QED BY <1>1, <1>2, <1>3, <1>4

LEMMA ScaleTurn ==
    ASSUME Registers, MmaRole, ScaleData, launch' = launch, MmaPlace(launch, mm'),
           \/ ScalesAt(launch, mm') = ScalesAt(launch, mm) /\ kScale' = kScale
           \/ /\ ScalesAt(launch, mm') = ScalesAt(launch, mm) + 1
              /\ kScale' = IF launch.fp8
                           THEN [kScale EXCEPT ![ScalesAt(launch, mm) % 2] =
                                   StepTag(launch, "scale", ScalesAt(launch, mm) % 2, ScalesAt(launch, mm) \div 2)]
                           ELSE kScale
    PROVE  ScaleData'
<1> DEFINE P(g) == Published(launch, mm, g)
           Q(g) == Published(launch, mm', g)
<1>1. launch \in Launches /\ MmaPlace(launch, mm)
  BY PlaceOf DEF Registers
<1>2. PICK C \in Nat : C = ScalesAt(launch, mm)
  <2>1. 0 \in Stage
    BY DEF Stage
  <2> QED BY <1>1, <2>1, PublishedIs
<1>3. ASSUME NEW g \in Stage
      PROVE  /\ P(g) = OnStage(C, g) /\ P(g) \in Nat
             /\ Q(g) = OnStage(ScalesAt(launch, mm'), g)
  <2>1. P(g) = OnStage(C, g)
    BY <1>1, <1>2, PublishedIs
  <2>2. OnStage(C, g) \in Nat
    BY Alternate
  <2>3. Q(g) = OnStage(ScalesAt(launch, mm'), g)
    BY <1>1, PublishedIs
  <2> QED BY <2>1, <2>2, <2>3
<1>4. DOMAIN kScale' = Stage
  BY DEF ScaleData
<1>5. ASSUME launch.fp8, NEW g \in Stage, Q(g) > 0
      PROVE  kScale'[g] = StepTag(launch, "scale", g, Q(g) - 1)
  <2>1. CASE ScalesAt(launch, mm') = C /\ kScale' = kScale
    <3>1. Q(g) = P(g)
      BY <1>3, <2>1
    <3> QED BY <1>5, <2>1, <3>1 DEF ScaleData
  <2>2. CASE /\ ScalesAt(launch, mm') = C + 1
             /\ kScale' = IF launch.fp8
                          THEN [kScale EXCEPT ![C % 2] = StepTag(launch, "scale", C % 2, C \div 2)]
                          ELSE kScale
    <3>1. kScale' = [kScale EXCEPT ![C % 2] = StepTag(launch, "scale", C % 2, C \div 2)]
      BY <1>5, <2>2
    <3>2. C % 2 \in Stage /\ DOMAIN kScale = Stage
      BY OwnStage DEF ScaleData
    <3>3. Q(g) = OnStage(C + 1, g)
      BY <1>3, <2>2
    <3>4. CASE g = C % 2
      <4>1. OnStage(C + 1, g) = (C \div 2) + 1 /\ C \div 2 \in Nat
        BY <3>4, OwnStage
      <4>2. Q(g) - 1 = C \div 2
        BY <3>3, <4>1
      <4> QED BY <3>1, <3>2, <3>4, <4>2
    <3>5. CASE g # C % 2
      <4>1. OnStage(C + 1, g) = OnStage(C, g) + 0 /\ OnStage(C, g) \in Nat
        BY <3>5, Alternate DEF If
      <4>2. Q(g) = P(g)
        BY <1>3, <3>3, <4>1
      <4>3. kScale'[g] = kScale[g]
        BY <3>1, <3>2, <3>5
      <4> QED BY <1>5, <4>2, <4>3 DEF ScaleData
    <3> QED BY <3>4, <3>5
  <2> QED BY <1>2, <2>1, <2>2
<1> HIDE DEF P, Q
<1>6. \A g \in Stage : Q(g) = Published(launch, mm, g)'
  BY DEF Q
<1> QED BY <1>4, <1>5, <1>6 DEF ScaleData

LEMMA ScalesPublished ==
    ASSUME NEW l \in Launches, NEW t \in 1 .. Len(l.work), NEW c \in Nat, c < 2 * Half(l, t),
           NEW C, C = 2 * Steps(l, t) + c, NEW grp, grp = 2 * Half(l, t) - 1 - c
    PROVE  Tag("scale", t, grp) = StepTag(l, "scale", C % 2, C \div 2) /\ C % 2 = c % 2
<1>1. PICK s \in Nat : s = Steps(l, t)
  BY NextTile
<1>2. C = 2 * s + c
  BY <1>1
<1>3. C % 2 = c % 2 /\ C \div 2 = s + (c \div 2)
  BY <1>2
<1>4. PICK k : k = s + (c \div 2)
  OBVIOUS
<1>5. PICK g : g = c % 2
  OBVIOUS
<1>6. StepTag(l, "scale", g, k) = Tag("scale", t, 2 * Half(l, t) - 1 - c)
  <2>1. k = Steps(l, t) + (c \div 2)
    BY <1>1, <1>4
  <2> QED BY <1>5, <2>1, TagIs
<1> QED BY <1>3, <1>4, <1>5, <1>6

LEMMA MmaScales ==
    ASSUME NEW st, Control(st), ScaleData, Mma
    PROVE  ScaleData'
<1> DEFINE t == mm.tile
           h == Half(launch, t)
           s == Steps(launch, t)
           j == mm.j
<1>1. /\ Registers /\ MmaRole /\ MmaRegisters(mm) /\ launch \in Launches /\ Len(launch.work) \in Nat
      /\ mm.tile \in 1 .. Len(launch.work) + 1 /\ j \in Nat /\ s \in Nat /\ mm.tile \in Nat
      /\ mm.pc \notin {"tile", "done"} =>
           /\ t \in 1 .. Len(launch.work) /\ h \in Nat /\ h > 0 /\ N(t) = 2 * h
  BY MmaSees
<1>2. MmaPlace(launch, mm')
  <2>1. \E u : Control(u)'
    BY MmaStep
  <2>2. MmaRole' /\ launch' = launch
    <3>1. launch' = launch
      BY DEF Mma, MmaQ, MmaSkip, MmaS, MmaSpo, MmaV, MmaPv, MmaK, MmaFree
    <3> QED BY <2>1, <3>1 DEF Control
  <2>3. mm'.pc \notin {"tile", "done"} => mm'.tile \in 1 .. Len(launch.work) /\ Half(launch, mm'.tile) > 0
    BY <1>1, <2>2 DEF MmaRole
  <2> QED BY <2>2, <2>3 DEF MmaRole, MmaPlace
<1>3. launch' = launch
  BY DEF Mma, MmaQ, MmaSkip, MmaS, MmaSpo, MmaV, MmaPv, MmaK, MmaFree
<1>4. ASSUME ScalesAt(launch, mm') = ScalesAt(launch, mm), kScale' = kScale
      PROVE  ScaleData'
  BY <1>1, <1>2, <1>3, <1>4, ScaleTurn
<1>5. ASSUME NEW c \in Nat, ScalesAt(launch, mm) = 2 * s + c, ScalesAt(launch, mm') = 2 * s + (c + 1),
             c < 2 * h, t \in 1 .. Len(launch.work), NEW g, g = c % 2, NEW grp, grp = 2 * h - 1 - c,
             PublishScale(g, grp)
      PROVE  ScaleData'
  <2>1. PICK C : C = 2 * s + c
    OBVIOUS
  <2>2. Tag("scale", t, grp) = StepTag(launch, "scale", C % 2, C \div 2) /\ C % 2 = c % 2
    <3>1. launch \in Launches /\ t \in 1 .. Len(launch.work) /\ c < 2 * Half(launch, t)
          /\ C = 2 * Steps(launch, t) + c /\ grp = 2 * Half(launch, t) - 1 - c
      BY <1>1, <1>5, <2>1
    <3> HIDE DEF t, h, s
    <3> QED BY <3>1, ScalesPublished
  <2>3. kScale' = IF launch.fp8 THEN [kScale EXCEPT ![C % 2] = StepTag(launch, "scale", C % 2, C \div 2)]
                  ELSE kScale
    BY <1>5, <2>2 DEF PublishScale
  <2>4. ScalesAt(launch, mm') = ScalesAt(launch, mm) + 1
    <3> HIDE DEF s
    <3> QED BY <1>1, <1>5
  <2>5. ScalesAt(launch, mm) = C
    BY <1>5, <2>1
  <2> QED BY <1>1, <1>2, <1>3, <2>3, <2>4, <2>5, ScaleTurn
<1>6. CASE MmaQ
  <2>1. mm.pc = "tile" /\ t \in 1 .. Len(launch.work) /\ h \in Nat /\ h > 0 /\ N(t) = 2 * h
    BY <1>1, <1>6, Tile DEF MmaQ
  <2>2. mm'.pc = "s" /\ mm'.j = 0 /\ mm'.tile = t
    BY <1>1, <1>6 DEF MmaQ, MmaRegisters
  <2>3. ScalesAt(launch, mm) = 2 * s + 0 /\ ScalesAt(launch, mm') = 2 * s + (0 + 1)
    BY <2>1, <2>2 DEF ScalesAt
  <2>4. PublishScale(0, N(t) - 1) /\ 0 < 2 * h /\ N(t) - 1 = 2 * h - 1 - 0 /\ 0 = 0 % 2
    <3>1. PublishScale(0, N(t) - 1)
      BY <1>6 DEF MmaQ
    <3> HIDE DEF h
    <3> QED BY <2>1, <3>1
  <2> QED BY <1>5, <2>1, <2>3, <2>4
<1>7. CASE MmaSkip
  <2>1. mm.pc = "tile" /\ t \in 1 .. Len(launch.work) /\ h \in Nat /\ ~(h > 0)
    BY <1>1, <1>7, Tile DEF MmaSkip
  <2>2. mm'.pc = "tile" /\ mm'.tile = t + 1 /\ kScale' = kScale
    BY <1>1, <1>7, <2>1 DEF MmaSkip, MmaRegisters, memory
  <2>3. Steps(launch, t + 1) = s
    <3>1. Steps(launch, t + 1) = s + h
      BY <1>1, <2>1, NextTile
    <3> HIDE DEF s, h
    <3> QED BY <1>1, <2>1, <3>1
  <2>4. ScalesAt(launch, mm') = ScalesAt(launch, mm)
    BY <2>1, <2>2, <2>3 DEF ScalesAt
  <2> QED BY <1>4, <2>2, <2>4
<1>8. CASE MmaFree
  <2>1. mm.pc = "tile" /\ mm'.pc = "done" /\ mm'.tile = t /\ kScale' = kScale
    BY <1>1, <1>8 DEF MmaFree, MmaRegisters, memory
  <2>2. ScalesAt(launch, mm') = ScalesAt(launch, mm)
    BY <2>1 DEF ScalesAt
  <2> QED BY <1>4, <2>1, <2>2
<1>9. CASE MmaS
  <2>1. mm.pc = "s" /\ j \in {0, 1} /\ t \in 1 .. Len(launch.work) /\ h \in Nat /\ h > 0 /\ N(t) = 2 * h
    BY <1>1, <1>9 DEF MmaS, MmaRole
  <2>2. CASE j = 0
    <3>1. mm'.pc = "s" /\ mm'.j = 1 /\ mm'.tile = t
      BY <1>1, <1>9, <2>1, <2>2 DEF MmaS, MmaRegisters
    <3>2. ScalesAt(launch, mm) = 2 * s + 1 /\ ScalesAt(launch, mm') = 2 * s + (1 + 1)
      BY <2>1, <2>2, <3>1 DEF ScalesAt
    <3>3. PublishScale(1, N(t) - 2) /\ 1 < 2 * h /\ N(t) - 2 = 2 * h - 1 - 1 /\ 1 = 1 % 2
      <4>1. PublishScale(1, N(t) - 2)
        BY <1>9, <2>2 DEF MmaS
      <4> HIDE DEF h
      <4> QED BY <2>1, <4>1
    <3> QED BY <1>5, <2>1, <3>2, <3>3
  <2>3. CASE j = 1
    <3>1. mm'.pc = "spo" /\ mm'.j = 0 /\ mm'.tile = t /\ kScale' = kScale
      <4>1. mm' = [mm EXCEPT !.pc = "spo", !.j = 0, !.kv = mm.kv + 1] /\ kScale' = kScale
        BY <1>9, <2>3 DEF MmaS
      <4> QED BY <1>1, <4>1 DEF MmaRegisters
    <3>2. ScalesAt(launch, mm') = 2 * s + 2
      <4>1. ScalesAt(launch, mm') = 2 * s + (IF 0 + 2 + 0 < 2 * h THEN 0 + 2 + 0 ELSE 2 * h)
        BY <3>1 DEF ScalesAt, If
      <4>2. (IF 0 + 2 + 0 < 2 * h THEN 0 + 2 + 0 ELSE 2 * h) = 2
        <5> HIDE DEF h
        <5> QED BY <2>1
      <4> QED BY <4>1, <4>2
    <3>3. ScalesAt(launch, mm) = 2 * s + 2
      BY <2>1, <2>3 DEF ScalesAt
    <3> QED BY <1>4, <3>1, <3>2, <3>3
  <2> QED BY <2>1, <2>2, <2>3
<1>10. CASE MmaSpo
  <2>1. /\ mm.pc = "spo" /\ t \in 1 .. Len(launch.work) /\ h \in Nat /\ h > 0 /\ N(t) = 2 * h
        /\ j < 2 * h
    BY <1>1, <1>10 DEF MmaSpo, MmaRole
  <2>2. mm'.pc = "v" /\ mm'.j = j /\ mm'.tile = t
    BY <1>1, <1>10 DEF MmaSpo, MmaRegisters
  <2>3. /\ ScalesAt(launch, mm) = 2 * s + (IF j + 2 + 0 < 2 * h THEN j + 2 + 0 ELSE 2 * h)
        /\ ScalesAt(launch, mm') = 2 * s + (IF j + 2 + 1 < 2 * h THEN j + 2 + 1 ELSE 2 * h)
    BY <2>1, <2>2 DEF ScalesAt, If
  <2>4. CASE j < N(t) - 2
    <3>1. PublishScale(j % 2, N(t) - 3 - j)
      BY <1>10, <2>4 DEF MmaSpo
    <3>2. /\ (IF j + 2 + 0 < 2 * h THEN j + 2 + 0 ELSE 2 * h) = j + 2
          /\ (IF j + 2 + 1 < 2 * h THEN j + 2 + 1 ELSE 2 * h) = j + 2 + 1
          /\ j + 2 < 2 * h /\ j + 2 \in Nat /\ j % 2 = (j + 2) % 2 /\ N(t) - 3 - j = 2 * h - 1 - (j + 2)
      <4> DEFINE n == N(t)
      <4>1. n = 2 * h /\ j < n - 2
        BY <2>1, <2>4
      <4> HIDE DEF h, j, n
      <4> QED BY <1>1, <2>1, <4>1 DEF n
    <3>3. PICK c \in Nat : c = j + 2
      BY <3>2
    <3>4. PICK grp : grp = N(t) - 3 - j
      OBVIOUS
    <3>5. ScalesAt(launch, mm) = 2 * s + c /\ ScalesAt(launch, mm') = 2 * s + (c + 1)
      BY <2>3, <3>2, <3>3
    <3>6. PICK g : g = j % 2
      OBVIOUS
    <3>7. c < 2 * h /\ g = c % 2 /\ grp = 2 * h - 1 - c /\ PublishScale(g, grp)
      BY <3>1, <3>2, <3>3, <3>4, <3>6
    <3> QED BY <1>5, <2>1, <3>5, <3>7
  <2>5. CASE ~(j < N(t) - 2)
    <3>1. kScale' = kScale
      BY <1>10, <2>5 DEF MmaSpo
    <3>2. /\ (IF j + 2 + 0 < 2 * h THEN j + 2 + 0 ELSE 2 * h) = 2 * h
          /\ (IF j + 2 + 1 < 2 * h THEN j + 2 + 1 ELSE 2 * h) = 2 * h
      <4> DEFINE n == N(t)
      <4>1. n = 2 * h /\ ~(j < n - 2)
        BY <2>1, <2>5
      <4> HIDE DEF h, j, n
      <4> QED BY <1>1, <2>1, <4>1 DEF n
    <3> QED BY <1>4, <2>3, <3>1, <3>2
  <2> QED BY <2>4, <2>5
<1>11. CASE MmaV
  <2>1. mm.pc = "v" /\ mm'.pc = "pv" /\ mm'.j = j /\ mm'.tile = t /\ kScale' = kScale
    BY <1>1, <1>11 DEF MmaV, MmaRegisters, memory
  <2>2. ScalesAt(launch, mm') = ScalesAt(launch, mm)
    BY <2>1 DEF ScalesAt, If
  <2> QED BY <1>4, <2>1, <2>2
<1>12. CASE MmaPv
  <2>1. /\ mm.pc = "pv" /\ t \in 1 .. Len(launch.work) /\ h \in Nat /\ h > 0 /\ N(t) = 2 * h
        /\ j < 2 * h /\ kScale' = kScale
    BY <1>1, <1>12 DEF MmaPv, MmaRole, memory
  <2>2. ScalesAt(launch, mm) = 2 * s + (IF j + 2 + 1 < 2 * h THEN j + 2 + 1 ELSE 2 * h)
    BY <2>1 DEF ScalesAt, If
  <2>3. CASE j < N(t) - 2
    <3>1. mm'.pc = "k" /\ mm'.j = j /\ mm'.tile = t
      BY <1>1, <1>12, <2>3 DEF MmaPv, MmaRegisters
    <3>2. ScalesAt(launch, mm') = 2 * s + (IF j + 2 + 1 < 2 * h THEN j + 2 + 1 ELSE 2 * h)
      BY <3>1 DEF ScalesAt, If
    <3> QED BY <1>4, <2>1, <2>2, <3>2
  <2>4. CASE ~(j < N(t) - 2) /\ j < N(t) - 1
    <3>1. mm'.pc = "spo" /\ mm'.j = j + 1 /\ mm'.tile = t
      BY <1>1, <1>12, <2>4 DEF MmaPv, MmaRegisters
    <3>2. ScalesAt(launch, mm') = 2 * s + (IF j + 1 + 2 + 0 < 2 * h THEN j + 1 + 2 + 0 ELSE 2 * h)
      BY <3>1 DEF ScalesAt, If
    <3>3. j + 1 + 2 + 0 = j + 2 + 1
      <4> HIDE DEF j
      <4> QED BY <1>1
    <3> QED BY <1>4, <2>1, <2>2, <3>2, <3>3
  <2>5. CASE ~(j < N(t) - 2) /\ ~(j < N(t) - 1)
    <3>1. mm'.pc = "tile" /\ mm'.tile = t + 1
      BY <1>1, <1>12, <2>5 DEF MmaPv, MmaRegisters
    <3>2. ScalesAt(launch, mm') = 2 * Steps(launch, t + 1) + 0 /\ Steps(launch, t + 1) = s + h
      BY <1>1, <2>1, <3>1, NextTile DEF ScalesAt
    <3>3. (IF j + 2 + 1 < 2 * h THEN j + 2 + 1 ELSE 2 * h) = 2 * h
      <4> DEFINE n == N(t)
      <4>1. n = 2 * h /\ ~(j < n - 2)
        BY <2>1, <2>5
      <4> HIDE DEF h, j, n
      <4> QED BY <1>1, <2>1, <4>1
    <3>4. 2 * (s + h) + 0 = 2 * s + 2 * h
      <4> HIDE DEF s, h
      <4> QED BY <1>1, <2>1
    <3> QED BY <1>4, <2>1, <2>2, <3>2, <3>3, <3>4
  <2> QED BY <2>3, <2>4, <2>5
<1>13. CASE MmaK
  <2>1. mm.pc = "k" /\ kScale' = kScale
    BY <1>13 DEF MmaK, memory
  <2>2. mm'.pc = "spo" /\ mm'.j = j + 1 /\ mm'.tile = t
    BY <1>1, <1>13 DEF MmaK, MmaRegisters
  <2>3. /\ ScalesAt(launch, mm) = 2 * s + (IF j + 2 + 1 < 2 * h THEN j + 2 + 1 ELSE 2 * h)
        /\ ScalesAt(launch, mm') = 2 * s + (IF j + 1 + 2 + 0 < 2 * h THEN j + 1 + 2 + 0 ELSE 2 * h)
    BY <2>1, <2>2 DEF ScalesAt, If
  <2>4. j + 1 + 2 + 0 = j + 2 + 1
    <3> HIDE DEF j
    <3> QED BY <1>1
  <2> QED BY <1>4, <2>1, <2>3, <2>4
<1> QED BY <1>6, <1>7, <1>8, <1>9, <1>10, <1>11, <1>12, <1>13 DEF Mma

-----------------------------------------------------------------------------
(* Scores and P.                                                           *)

LEMMA SpStep ==
    ASSUME NEW st, Control(st), SpData(st[1]), NEW g \in Stage, NEW w \in Warps, NEW s2,
           sm' = Put(sm, g, w, s2), launch' = launch, NEW x, SpRow(s2, x, g, OnStage(st[1].qk, g)),
           (sp' = sp /\ x = sp[g][w]) \/ sp' = Put(sp, g, w, x)
    PROVE  SpData(st[1])'
<1> DEFINE c(h) == OnStage(st[1].qk, h)
<1>1. Rows(sm, Stage, Warps) /\ Rows(sp, Stage, Warps)
  BY DEF Control, Scores2P, SpData
<1>2. Warps' = Warps /\ Stage' = Stage /\ \A s, y, h, n : SpRow(s, y, h, n)' <=> SpRow(s, y, h, n)
  BY DEF Warps, Stage, SpRow
<1>3. \A f : Rows(f, Stage, Warps)' <=> Rows(f, Stage, Warps)
  BY <1>2 DEF Rows
<1>4. sm'[g][w] = s2 /\ \A h \in Stage, v \in Warps : (h # g \/ v # w) => sm'[h][v] = sm[h][v]
  BY <1>1, UpdateTwo
<1>5. /\ Rows(sp', Stage, Warps) /\ sp'[g][w] = x
      /\ \A h \in Stage, v \in Warps : (h # g \/ v # w) => sp'[h][v] = sp[h][v]
  <2>1. CASE sp' = sp /\ x = sp[g][w]
    BY <1>1, <2>1
  <2>2. CASE sp' = Put(sp, g, w, x)
    BY <1>1, <2>2, UpdateTwo
  <2> QED BY <2>1, <2>2
<1>6. \A h \in Stage, v \in Warps : SpRow(sm'[h][v], sp'[h][v], h, c(h))
  <2> SUFFICES ASSUME NEW h \in Stage, NEW v \in Warps PROVE SpRow(sm'[h][v], sp'[h][v], h, c(h))
    OBVIOUS
  <2>1. CASE h = g /\ v = w
    BY <1>4, <1>5, <2>1
  <2>2. CASE h # g \/ v # w
    BY <1>4, <1>5, <2>2 DEF SpData
  <2> QED BY <2>1, <2>2
<1> QED BY <1>2, <1>5, <1>6 DEF SpData, Rows, SpRow

\* The scales a softmax warp reads are those of the scores it reads.
LEMMA ScoresScaled ==
    ASSUME NEW st, Control(st), ScaleData, SpData(st[1]), NEW g \in Stage, NEW w \in Warps,
           sm[g][w].pc = "s", Done(SpoFull(g), sm[g][w].s)
    PROVE  /\ OnStage(st[1].qk, g) = Stored(launch, sm[g][w]) + 1
           /\ sp[g][w] = StepTag(launch, "S", g, Stored(launch, sm[g][w]))
           /\ launch.fp8 => kScale[g] = Tag("scale", sp[g][w].tile, sp[g][w].grp)
<1> DEFINE s == sm[g][w]
<1>1. PICK k : k = Stored(launch, s)
  OBVIOUS
<1>2. OnStage(st[1].qk, g) = k + 1
  BY <1>1, ScoreReady
<1>3. /\ k \in Nat /\ PTaken(launch, mm, g) <= Announced(launch, s) /\ Announced(launch, s) = k
  <2>1. Announced(launch, s) = Stored(launch, s) + 0
    BY DEF Announced, If
  <2>2. Stored(launch, s) \in Nat /\ PTaken(launch, mm, g) <= Announced(launch, s)
    BY SoftmaxSees
  <2> HIDE DEF s
  <2> QED BY <1>1, <2>1, <2>2
<1>4. sp[g][w] = StepTag(launch, "S", g, k)
  BY <1>1, <1>2 DEF SpData, SpRow
<1>5. Published(launch, mm, g) = k + 1
  <2>1. launch \in Launches /\ MmaPlace(launch, mm) /\ Registers /\ MmaRole /\ Queue(st)
    BY PlaceOf DEF Control, Registers
  <2>2. /\ OnStage(Issued(launch, mm).qk, g) <= Published(launch, mm, g)
        /\ Published(launch, mm, g) <= PTaken(launch, mm, g) + 1
        /\ PTaken(launch, mm, g) \in Nat
    BY <2>1, PublishedIs
  <2>3. Published(launch, mm, g) \in Nat
    <3>1. ScalesAt(launch, mm) \in Nat /\ Published(launch, mm, g) = OnStage(ScalesAt(launch, mm), g)
      BY <2>1, PublishedIs
    <3> QED BY <3>1, Alternate
  <2>4. OnStage(st[1].qk, g) <= OnStage(Issued(launch, mm).qk, g) /\ OnStage(Issued(launch, mm).qk, g) \in Nat
    BY <2>1, StageCounts
  <2> QED BY <1>2, <1>3, <2>2, <2>3, <2>4
<1>6. ASSUME launch.fp8
      PROVE  kScale[g] = Tag("scale", sp[g][w].tile, sp[g][w].grp)
  <2>1. Published(launch, mm, g) > 0 /\ Published(launch, mm, g) - 1 = k
    BY <1>3, <1>5
  <2>2. kScale[g] = StepTag(launch, "scale", g, k)
    BY <1>6, <2>1 DEF ScaleData
  <2> QED BY <1>4, <2>2 DEF StepTag, Tag
<1> QED BY <1>1, <1>2, <1>4, <1>6

LEMMA SoftmaxSp ==
    ASSUME NEW st, Control(st), ScaleData, SpData(st[1]), NEW g \in Stage, NEW w \in Warps, Softmax(g, w)
    PROVE  SpData(st[1])'
<1> DEFINE me == sm[g][w]
           x == sp[g][w]
           c == OnStage(st[1].qk, g)
           k == Stored(launch, me)
           y == 1 - me.stats
<1>1. /\ Registers /\ SoftmaxRole(me) /\ SoftmaxRegisters(me) /\ SpRow(me, x, g, c) /\ me.n \in Nat
      /\ me.tile \in Nat /\ me.tile >= 1 /\ k \in Nat /\ c \in Nat
      /\ Reads(launch, me) <= c /\ c <= k + 1
  <2>1. /\ Registers /\ SoftmaxRole(me) /\ SoftmaxRegisters(me) /\ SpRow(me, x, g, c) /\ me.n \in Nat
        /\ me.tile \in Nat /\ me.tile >= 1
    BY SoftmaxIs DEF SpData
  <2>2. /\ k \in Nat /\ Reads(launch, me) <= c /\ OnStage(Issued(launch, mm).pv2, g) <= k
    BY SoftmaxSees
  <2>3. /\ c \in Nat /\ c <= OnStage(Issued(launch, mm).qk, g) /\ OnStage(Issued(launch, mm).qk, g) \in Nat
        /\ OnStage(Issued(launch, mm).qk, g) <= OnStage(Issued(launch, mm).pv2, g) + 1
        /\ OnStage(Issued(launch, mm).pv2, g) \in Nat
    BY StageCounts DEF Control
  <2> HIDE DEF me, x, c, k
  <2> QED BY <2>1, <2>2, <2>3
<1>2. CASE SoftmaxTile(g, w)
  <2>1. me.pc = "tile" /\ me.tile \in Tiles /\ launch' = launch /\ sp' = sp /\ k = Steps(launch, me.tile) + 0
    BY <1>2 DEF SoftmaxTile, memory, Stored
  <2>2. CASE HasWork(me.tile)
    <3> DEFINE s2 == [me EXCEPT !.pc = "s", !.n = 0, !.stats = y]
    <3>1. sm' = Put(sm, g, w, s2)
      BY <1>2, <2>2 DEF SoftmaxTile, Put
    <3>2. s2.pc = "s" /\ s2.n = 0 /\ s2.tile = me.tile
      BY <1>1 DEF SoftmaxRegisters
    <3> HIDE DEF s2
    <3>3. Stored(launch, s2) = k
      BY <2>1, <3>2 DEF Stored
    <3>4. SpRow(s2, x, g, c)
      BY <1>1, <2>1, <3>2, <3>3 DEF SpRow
    <3> HIDE DEF x
    <3> QED BY <2>1, <3>1, <3>4, SpStep DEF x
  <2>3. CASE ~HasWork(me.tile)
    <3> DEFINE u == me.tile + 1
               s2 == [me EXCEPT !.tile = u, !.stats = y]
    <3>1. sm' = Put(sm, g, w, s2)
      BY <1>2, <2>3 DEF SoftmaxTile, Put
    <3>2. s2.pc = "tile" /\ s2.tile = u
      BY <1>1, <2>1 DEF SoftmaxRegisters
    <3>3. Steps(launch, u) = Steps(launch, me.tile) + 0
      <4>1. ~(Half(launch, me.tile) > 0) /\ Half(launch, me.tile) \in Nat
            /\ Steps(launch, u) = Steps(launch, me.tile) + Half(launch, me.tile)
        BY <1>1, <2>1, <2>3, Tile
      <4>2. Half(launch, me.tile) = 0
        BY <4>1
      <4> QED BY <4>1, <4>2
    <3> HIDE DEF s2, u
    <3>4. Stored(launch, s2) = Steps(launch, u) + 0 /\ Steps(launch, me.tile) \in Nat
      BY <1>1, <3>2, Tile DEF Stored, SoftmaxRole
    <3>5. Stored(launch, s2) = k
      BY <2>1, <3>3, <3>4
    <3>6. SpRow(s2, x, g, c)
      BY <1>1, <2>1, <3>2, <3>5 DEF SpRow
    <3> HIDE DEF x
    <3> QED BY <2>1, <3>1, <3>6, SpStep DEF x
  <2> QED BY <2>2, <2>3
<1>3. CASE SoftmaxScore(g, w)
  <2> DEFINE p == IF me.n = 0 THEN "p1" ELSE "scale"
  <2>1. me.pc = "s" /\ launch' = launch /\ sp' = sp /\ Done(SpoFull(g), me.s)
    BY <1>3 DEF SoftmaxScore, memory
  <2>2. /\ c = k + 1 /\ x = StepTag(launch, "S", g, k)
        /\ launch.fp8 => kScale[g] = Tag("scale", x.tile, x.grp)
    BY <2>1, ScoresScaled
  <2>3. sm' = [sm EXCEPT ![g][w] = [@ EXCEPT !.pc = p, !.score = x]]
    BY <1>3, <2>2 DEF SoftmaxScore
  <2> DEFINE s2 == [me EXCEPT !.pc = p, !.score = x]
  <2>4. sm' = Put(sm, g, w, s2)
    BY <2>3 DEF Put
  <2>5. s2.pc = p /\ s2.n = me.n /\ s2.tile = me.tile /\ s2.score = x
    BY <1>1 DEF SoftmaxRegisters
  <2>6. p \in {"p1", "scale"}
    OBVIOUS
  <2> HIDE DEF s2, p
  <2>7. Stored(launch, s2) = k
    BY <2>1, <2>5, <2>6 DEF Stored
  <2> HIDE DEF x, c, k
  <2>8. SpRow(s2, x, g, c)
    BY <1>1, <2>2, <2>5, <2>6, <2>7 DEF SpRow
  <2> QED BY <2>1, <2>4, <2>8, SpStep DEF x, c
<1>4. CASE SoftmaxScale(g, w)
  <2> DEFINE s2 == [me EXCEPT !.pc = "p1", !.stats = y]
  <2>1. launch' = launch /\ sp' = sp /\ sm' = Put(sm, g, w, s2) /\ me.pc = "scale"
    BY <1>4 DEF SoftmaxScale, Put
  <2>2. s2.pc = "p1" /\ s2.n = me.n /\ s2.tile = me.tile /\ s2.score = me.score
    BY <1>1 DEF SoftmaxRegisters
  <2> HIDE DEF s2
  <2>3. Stored(launch, s2) = k
    BY <2>1, <2>2 DEF Stored
  <2>4. SpRow(s2, x, g, c)
    BY <1>1, <2>1, <2>2, <2>3 DEF SpRow
  <2> HIDE DEF x
  <2> QED BY <2>1, <2>4, SpStep DEF x
<1>5. CASE SoftmaxP1(g, w)
  <2> DEFINE s2 == [me EXCEPT !.pc = "p2"]
             z == Tag("P1", me.score.tile, me.score.grp)
  <2>1. launch' = launch /\ sp' = Put(sp, g, w, z) /\ sm' = Put(sm, g, w, s2) /\ me.pc = "p1"
    BY <1>5 DEF SoftmaxP1, Put
  <2>2. s2.pc = "p2" /\ s2.n = me.n /\ s2.tile = me.tile /\ s2.score = me.score
    BY <1>1 DEF SoftmaxRegisters
  <2>3. me.score = StepTag(launch, "S", g, k)
    BY <1>1, <2>1 DEF SpRow
  <2>4. z = StepTag(launch, "P1", g, k)
    BY <2>3 DEF StepTag, Tag
  <2> HIDE DEF s2, z
  <2>5. Stored(launch, s2) = k
    BY <2>1, <2>2 DEF Stored
  <2>6. SpRow(s2, z, g, c)
    BY <2>2, <2>3, <2>4, <2>5 DEF SpRow
  <2> QED BY <2>1, <2>6, SpStep
<1>6. CASE SoftmaxP2(g, w)
  <2> DEFINE p == IF 2 * (me.n + 1) = N(me.tile) THEN "sum" ELSE "s"
             m == me.n + 1
             q == 1 - me.s
             s2 == [me EXCEPT !.pc = p, !.n = m, !.s = q]
             z == Tag("P", me.score.tile, me.score.grp)
  <2>1. launch' = launch /\ sp' = Put(sp, g, w, z) /\ sm' = Put(sm, g, w, s2) /\ me.pc = "p2"
    BY <1>6 DEF SoftmaxP2, Put
  <2>2. s2.pc = p /\ s2.n = m /\ s2.tile = me.tile /\ p \in {"s", "sum"}
    BY <1>1 DEF SoftmaxRegisters
  <2>3. me.score = StepTag(launch, "S", g, k)
    BY <1>1, <2>1 DEF SpRow
  <2>4. z = StepTag(launch, "P", g, k)
    BY <2>3 DEF StepTag, Tag
  <2>5. c = k + 1
    <3>1. Reads(launch, me) = k + 1
      BY <2>1 DEF Reads, If
    <3> HIDE DEF me, k, c
    <3> QED BY <1>1, <3>1
  <2> HIDE DEF s2, z, p
  <2>6. Stored(launch, s2) = k + 1
    <3>1. Stored(launch, s2) = Steps(launch, me.tile) + m /\ k = Steps(launch, me.tile) + me.n
      BY <2>1, <2>2 DEF Stored
    <3>2. Steps(launch, me.tile) \in Nat
      BY <1>1, Tile DEF SoftmaxRole
    <3> HIDE DEF k, me
    <3> QED BY <1>1, <3>1, <3>2
  <2> HIDE DEF c, k
  <2>7. SpRow(s2, z, g, c)
    <3>1. PICK K : K = k + 1
      OBVIOUS
    <3>2. K - 1 = k /\ c # K + 1 /\ Stored(launch, s2) = K
      BY <1>1, <2>5, <2>6, <3>1
    <3>3. s2.pc \in {"s", "sum"}
      BY <2>2
    <3> QED BY <2>4, <3>2, <3>3 DEF SpRow
  <2> QED BY <2>1, <2>7, SpStep DEF c
<1>7. CASE SoftmaxSum(g, w)
  <2> DEFINE u == me.tile + 1
             s2 == [me EXCEPT !.pc = "tile", !.tile = u, !.stats = y]
  <2>1. launch' = launch /\ sp' = sp /\ sm' = Put(sm, g, w, s2) /\ me.pc = "sum"
    BY <1>7 DEF SoftmaxSum, Put
  <2>2. s2.pc = "tile" /\ s2.tile = u
    BY <1>1 DEF SoftmaxRegisters
  <2>3. Steps(launch, u) = Steps(launch, me.tile) + me.n
    <3>1. me.tile \in 1 .. Len(launch.work) /\ me.n = Half(launch, me.tile)
      BY <1>1, <2>1, Tile DEF SoftmaxRole
    <3> QED BY <1>1, <3>1, Tile
  <2>4. Steps(launch, u) \in Nat
    <3>1. me.tile \in 1 .. Len(launch.work)
      BY <1>1, <2>1, Tile DEF SoftmaxRole
    <3> QED BY <1>1, <3>1, Tile
  <2> HIDE DEF s2, u
  <2>5. Stored(launch, s2) = Steps(launch, u) + 0 /\ k = Steps(launch, me.tile) + me.n
    BY <2>1, <2>2 DEF Stored
  <2>6. Stored(launch, s2) = k
    BY <2>3, <2>4, <2>5
  <2>7. SpRow(s2, x, g, c)
    BY <1>1, <2>1, <2>2, <2>6 DEF SpRow
  <2> HIDE DEF x
  <2> QED BY <2>1, <2>7, SpStep DEF x
<1>8. CASE SoftmaxTail(g, w)
  <2> DEFINE s2 == [me EXCEPT !.pc = "done"]
  <2>1. launch' = launch /\ sp' = sp /\ sm' = Put(sm, g, w, s2) /\ me.pc = "tile"
    BY <1>8 DEF SoftmaxTail, Put, memory
  <2>2. s2.pc = "done" /\ s2.tile = me.tile
    BY <1>1 DEF SoftmaxRegisters
  <2> HIDE DEF s2
  <2>3. Stored(launch, s2) = k
    BY <2>1, <2>2 DEF Stored
  <2>4. SpRow(s2, x, g, c)
    BY <1>1, <2>1, <2>2, <2>3 DEF SpRow
  <2> HIDE DEF x
  <2> QED BY <2>1, <2>4, SpStep DEF x
<1> QED BY <1>2, <1>3, <1>4, <1>5, <1>6, <1>7, <1>8 DEF Softmax

LEMMA SpKept ==
    ASSUME NEW e, SpData(e), NEW e2, e2.qk = e.qk, UNCHANGED <<launch, sm, sp>>
    PROVE  SpData(e2)'
  BY DEF SpData, SpRow, Rows, Warps, Stage

\* The tensor core puts the scores of the next step on a stage no warp is still at work on.
LEMMA QKScores ==
    ASSUME NEW st, Control(st), QData, KvData(st[1]), SpData(st[1]), TensorCore, tc[1].do = "QK"
    PROVE  SpData(st[2])'
<1> DEFINE a == st[1].qk % 2
           n == st[1].qk \div 2
           c(h) == OnStage(st[1].qk, h)
           d(h) == OnStage(st[2].qk, h)
<1>1. Registers /\ MmaRole /\ Queue(st) /\ tc # <<>> /\ 1 \in DOMAIN tc /\ Head(tc) = tc[1]
  <2>1. tc \in Seq(Operation) /\ tc # <<>>
    BY DEF Control, Registers, TensorCore
  <2> QED BY <2>1 DEF Control
<1>2. UNCHANGED <<launch, sm>> /\ Scores(tc[1])
  BY <1>1 DEF TensorCore
<1>3. /\ tc[1].g = a /\ kv[tc[1].slot] = StepTag(launch, "K", a, n) /\ TileAt(launch, n) = sQ
  BY <1>1, QKReads
<1>4. st[1] \in Point /\ st[2] \in Point /\ st[2].qk = st[1].qk + 1
  <2>1. st[1] \in Point /\ st[1 + 1] \in Point /\ Effect(st[1], tc[1], st[1 + 1])
    BY <1>1, InQueue
  <2> QED BY <2>1 DEF Effect, Adds
<1>5. /\ a \in Stage /\ n \in Nat /\ c(a) = n /\ d(a) = n + 1
      /\ \A h \in Stage : h # a => d(h) = c(h)
  <2>1. PICK q \in Nat : q = st[1].qk /\ st[2].qk = q + 1
    BY <1>4 DEF Point
  <2>2. a \in Stage /\ n \in Nat /\ OnStage(q, a) = n /\ OnStage(q + 1, a) = n + 1
    BY <2>1, OwnStage
  <2>3. ASSUME NEW h \in Stage, h # a PROVE OnStage(q + 1, h) = OnStage(q, h)
    <3>1. OnStage(q + 1, h) = OnStage(q, h) + 0 /\ OnStage(q, h) \in Nat
      BY <2>1, <2>3, Alternate DEF If
    <3> QED BY <3>1
  <2> QED BY <2>1, <2>2, <2>3
<1> DEFINE x == StepTag(launch, "S", a, n)
<1>6. sp' = [sp EXCEPT ![a] = [w \in Warps |-> x]]
  <2> DEFINE block == StepTag(launch, "K", a, n)
  <2>1. block.k = "K" /\ block.tile = sQ /\ Tag("S", sQ, block.grp) = x
    BY <1>3 DEF StepTag, Tag
  <2> HIDE DEF block, x, a, n
  <2>2. kv[tc[1].slot] = block
    BY <1>3 DEF block
  <2> QED BY <1>2, <1>3, <2>1, <2>2 DEF Scores
<1> HIDE DEF x, a, n
<1>7. Rows(sp, Stage, Warps) /\ DOMAIN sp = Stage
  BY DEF SpData, Rows
<1>8. Rows(sp', Stage, Warps)
  BY <1>5, <1>6, <1>7 DEF Rows
<1>9. ASSUME NEW h \in Stage, NEW w \in Warps
      PROVE  SpRow(sm[h][w], sp'[h][w], h, d(h))
  <2>1. SpRow(sm[h][w], sp[h][w], h, c(h))
    BY DEF SpData
  <2>2. CASE h # a
    <3>1. sp'[h][w] = sp[h][w] /\ d(h) = c(h)
      BY <1>5, <1>6, <1>7, <2>2
    <3> QED BY <2>1, <3>1
  <2>3. CASE h = a
    <3>1. sm[h][w].pc \notin {"scale", "p1", "p2"}
      BY <1>1, <1>3, <2>3, NoScoresEarly
    <3>2. PICK k : k = Stored(launch, sm[h][w])
      OBVIOUS
    <3>3. k \in Nat /\ k <= n
      <4>1. /\ k \in Nat /\ k <= Announced(launch, sm[h][w])
            /\ Announced(launch, sm[h][w]) <= Reads(launch, sm[h][w]) /\ Announced(launch, sm[h][w]) \in Nat
            /\ Reads(launch, sm[h][w]) \in Nat /\ Reads(launch, sm[h][w]) <= n
        BY <1>5, <2>3, <3>2, SoftmaxSees
      <4> QED BY <1>5, <4>1
    <3>4. sp'[h][w] = x
      BY <1>5, <1>6, <1>7, <2>3
    <3>5. d(h) = n + 1 /\ (d(h) = k + 1 => k = n) /\ d(h) # k
      BY <1>5, <2>3, <3>3
    <3>6. d(h) = k + 1 => sp'[h][w] = StepTag(launch, "S", h, k)
      BY <2>3, <3>4, <3>5 DEF x
    <3> HIDE DEF d
    <3> QED BY <3>1, <3>2, <3>5, <3>6 DEF SpRow
  <2> QED BY <2>2, <2>3
<1> QED BY <1>2, <1>8, <1>9 DEF SpData, SpRow, Rows, Warps, Stage

LEMMA TensorCoreSp ==
    ASSUME NEW st, Control(st), QData, KvData(st[1]), SpData(st[1]), TensorCore
    PROVE  SpData(st[2])'
<1>1. 1 \in DOMAIN tc /\ Head(tc) = tc[1]
  <2>1. tc \in Seq(Operation) /\ tc # <<>>
    BY DEF Control, Registers, TensorCore
  <2> QED BY <2>1
<1>2. CASE tc[1].do = "QK"
  BY <1>2, QKScores
<1>3. CASE tc[1].do # "QK"
  <2>1. UNCHANGED <<launch, sm, sp>>
    BY <1>1, <1>3 DEF TensorCore
  <2>2. st[2].qk = st[1].qk
    <3>1. st[1] \in Point /\ st[1 + 1] \in Point /\ Effect(st[1], tc[1], st[1 + 1])
      BY <1>1, InQueue
    <3> QED BY <1>3, <3>1 DEF Effect, Adds, Point
  <2> QED BY <2>1, <2>2, SpKept
<1> QED BY <1>2, <1>3

LEMMA ScoresStep ==
    ASSUME NEW st, Control(st), QData, KvData(st[1]), ScaleData, SpData(st[1]), [Next]_vars,
           NEW e, Reaches(st, e)
    PROVE  ScaleData' /\ SpData(e)'
<1>1. ASSUME UNCHANGED <<launch, mm, kScale>> PROVE ScaleData'
  BY <1>1 DEF ScaleData, Stage
<1>2. CASE TensorCore
  <2>1. UNCHANGED <<launch, mm, kScale>> /\ e = st[2]
    BY <1>2 DEF TensorCore, Reaches
  <2> QED BY <1>1, <1>2, <2>1, TensorCoreSp
<1>3. CASE ~TensorCore
  <2>1. e = st[1]
    BY <1>3 DEF Reaches
  <2>2. CASE Mma
    <3>1. UNCHANGED <<launch, sm, sp>>
      BY <2>2 DEF Mma, MmaQ, MmaSkip, MmaS, MmaSpo, MmaV, MmaPv, MmaK, MmaFree, memory
    <3>2. ScaleData'
      BY <2>2, MmaScales
    <3> QED BY <2>1, <3>1, <3>2, SpKept
  <2>3. CASE \E g \in Stage, w \in Warps : Softmax(g, w)
    <3>1. UNCHANGED <<launch, mm, kScale>>
      BY <2>3 DEF Softmax, SoftmaxTile, SoftmaxScore, SoftmaxScale, SoftmaxP1, SoftmaxP2, SoftmaxSum,
                  SoftmaxTail, memory
    <3> QED BY <1>1, <2>1, <2>3, <3>1, SoftmaxSp
  <2>4. CASE \/ Load \/ Epilogue \/ \E c \in inflight : Land(c)
    <3>1. UNCHANGED <<launch, mm, kScale, sm, sp>>
      BY <2>4 DEF Load, LoadQ, LoadKV, LoadSkip, LoadEpi, LoadTail, Epilogue, EpilogueStore,
                  EpilogueSignal, Land, memory
    <3> QED BY <1>1, <2>1, <3>1, SpKept
  <2>5. CASE \E w \in Warps : Correction(w)
    <3>1. UNCHANGED <<launch, mm, kScale, sm, sp>>
      BY <2>5 DEF Correction, CorrectionStart, CorrectionFirst, CorrectionScale, CorrectionRescale,
                  CorrectionSum, CorrectionWaitO, CorrectionEmpty, CorrectionStats, CorrectionCombine,
                  CorrectionStore, CorrectionTail, memory
    <3> QED BY <1>1, <2>1, <3>1, SpKept
  <2>6. CASE UNCHANGED vars
    <3>1. UNCHANGED <<launch, mm, kScale, sm, sp>>
      BY <2>6 DEF vars, memory
    <3> QED BY <1>1, <2>1, <3>1, SpKept
  <2> QED BY <1>3, <2>2, <2>3, <2>4, <2>5, <2>6 DEF Next, Terminating
<1> QED BY <1>2, <1>3

ScoresInvariant == \E st : Control(st) /\ QData /\ KvData(st[1]) /\ ScaleData /\ SpData(st[1])

LEMMA ScoresStart == Init => ScoresInvariant
<1> SUFFICES ASSUME Init PROVE ScoresInvariant
  OBVIOUS
<1>1. PICK st : Control(st)
  BY StartControl
<1>2. KvLoads(ld) = 0 /\ QLoads(launch, ld) = 0
  BY StartFacts
<1>3. Slots(st[1]) \in Nat /\ DOMAIN kv = Slot
  BY <1>1, LoadSees DEF Init
<1>4. QData /\ KvData(st[1])
  BY <1>1, <1>2, <1>3 DEF QData, KvData
<1>5. ScaleData
  <2>1. DOMAIN kScale = Stage
    BY DEF Init
  <2>2. \A g \in Stage : Published(launch, mm, g) = 0
    <3> SUFFICES ASSUME NEW g \in Stage PROVE Published(launch, mm, g) = 0
      OBVIOUS
    <3>1. launch \in Launches /\ MmaPlace(launch, mm) /\ Registers
      BY <1>1, PlaceOf DEF Control, Registers
    <3>2. ScalesAt(launch, mm) = 2 * Steps(launch, 1) + 0 /\ Steps(launch, 1) = 0 /\ OnStage(0, g) = 0
      BY StartFacts DEF Init, ScalesAt
    <3>3. ScalesAt(launch, mm) = 0
      BY <3>2
    <3> QED BY <3>1, <3>2, <3>3, PublishedIs
  <2> QED BY <2>1, <2>2 DEF ScaleData
<1>6. SpData(st[1])
  <2>1. Rows(sp, Stage, Warps)
    BY DEF Init, Rows
  <2>2. ASSUME NEW g \in Stage, NEW w \in Warps PROVE SpRow(sm[g][w], sp[g][w], g, OnStage(st[1].qk, g))
    <3>1. sm[g][w].pc = "tile" /\ Stored(launch, sm[g][w]) = 0
      BY StartRoles DEF Init
    <3>2. OnStage(st[1].qk, g) = 0
      <4>1. Registers /\ MmaRole /\ Queue(st) /\ Issued(launch, mm).qk = 0 /\ OnStage(0, g) = 0
        BY <1>1, StartFacts DEF Control
      <4>2. OnStage(st[1].qk, g) \in Nat /\ OnStage(st[1].qk, g) <= OnStage(Issued(launch, mm).qk, g)
        BY <4>1, StageCounts
      <4> QED BY <4>1, <4>2
    <3> QED BY <3>1, <3>2 DEF SpRow
  <2> QED BY <2>1, <2>2 DEF SpData
<1> QED BY <1>1, <1>4, <1>5, <1>6 DEF ScoresInvariant

LEMMA ScoresHold == Spec => []ScoresInvariant
<1>1. Init => ScoresInvariant
  BY ScoresStart
<1>2. ScoresInvariant /\ [Next]_vars => ScoresInvariant'
  <2> SUFFICES ASSUME ScoresInvariant, [Next]_vars PROVE ScoresInvariant'
    OBVIOUS
  <2>1. PICK st : Control(st) /\ QData /\ KvData(st[1]) /\ ScaleData /\ SpData(st[1])
    BY DEF ScoresInvariant
  <2>2. PICK s : Control(s)' /\ Reaches(st, s[1])
    BY <2>1, ControlReaches
  <2>3. QData' /\ KvData(s[1])'
    BY <2>1, <2>2, OperandsStep
  <2>4. ScaleData' /\ SpData(s[1])'
    BY <2>1, <2>2, ScoresStep
  <2> QED BY <2>2, <2>3, <2>4 DEF ScoresInvariant
<1> QED BY <1>1, <1>2, PTL DEF Spec

(* FP8, for every launch: the scales a softmax warp multiplies its scores by *)
(* are those of the very K group the scores come from, though they pass      *)
(* through one plain buffer per stage that has no barrier of its own: the    *)
(* MMA warp publishes the next scales only when it has waited for the P that *)
(* the softmax warps make after reading the last.                            *)
THEOREM ScalesMatchScoresHolds == Spec => []ScalesMatchScores
<1>1. ScoresInvariant => ScalesMatchScores
  <2> SUFFICES ASSUME NEW st, Control(st), ScaleData, SpData(st[1]), launch.fp8, NEW g \in Stage, NEW w \in Warps,
                      sm[g][w].pc = "s", Done(SpoFull(g), sm[g][w].s)
               PROVE  kScale[g] = Tag("scale", sp[g][w].tile, sp[g][w].grp)
    BY DEF ScoresInvariant, ScalesMatchScores
  <2> QED BY ScoresScaled
<1> QED BY <1>1, ScoresHold, PTL

-----------------------------------------------------------------------------
(* What a correction warp works with.                                      *)

LEMMA RowStep ==
    ASSUME NEW st, Control(st), CorrectionData, NEW w \in Warps, NEW c, co' = [co EXCEPT ![w] = c],
           launch' = launch, CorrectionRow(c)
    PROVE  CorrectionData'
<1>1. co'[w] = c /\ \A v \in Warps : v # w => co'[v] = co[v]
  BY Update DEF Control, Corrections
<1>2. Warps' = Warps
  BY DEF Warps
<1>3. \A v \in Warps : CorrectionRow(co'[v])
  BY <1>1 DEF CorrectionData
<1> QED BY <1>2, <1>3 DEF CorrectionData, CorrectionRow

LEMMA CorrectionRows ==
    ASSUME NEW st, Control(st), StatData, CorrectionData, NEW w \in Warps, Correction(w)
    PROVE  CorrectionData'
<1> DEFINE me == co[w]
<1>1. Registers /\ CorrectionRole(me) /\ CorrectionRegisters(me) /\ CorrectionRow(me)
      /\ named \in [Stage -> [Warps -> Nat]]
  BY CorrectionSees DEF CorrectionData, CorrectionRole, CorrectionRegisters
<1>2. me.ok = TRUE
  BY <1>1 DEF CorrectionRow
<1>3. ASSUME NEW c, co' = [co EXCEPT ![w] = c], launch' = launch, c.ok = TRUE, c.pc # "rescale"
      PROVE  CorrectionData'
  <2>1. CorrectionRow(c)
    BY <1>3 DEF CorrectionRow
  <2> QED BY <1>3, <2>1, RowStep
<1>4. launch' = launch
  BY DEF Correction, CorrectionStart, CorrectionFirst, CorrectionScale, CorrectionRescale,
         CorrectionSum, CorrectionWaitO, CorrectionEmpty, CorrectionStats, CorrectionCombine,
         CorrectionStore, CorrectionTail
<1>5. CASE CorrectionStart(w) \/ CorrectionStats(w) \/ CorrectionCombine(w) \/ CorrectionTail(w)
  <2>1. PICK p \in {"tile", "combine", "store", "done"} : co' = [co EXCEPT ![w] = [me EXCEPT !.pc = p]]
    BY <1>5 DEF CorrectionStart, CorrectionStats, CorrectionCombine, CorrectionTail
  <2> DEFINE c == [me EXCEPT !.pc = p]
  <2>2. c.ok = me.ok /\ c.pc = p
    BY <1>1 DEF CorrectionRegisters
  <2>3. co' = [co EXCEPT ![w] = c]
    BY <2>1
  <2> HIDE DEF c
  <2> QED BY <1>2, <1>3, <1>4, <2>2, <2>3
<1>6. CASE CorrectionFirst(w)
  <2>1. \/ co' = [co EXCEPT ![w] = [me EXCEPT !.pc = "second"]]
        \/ \E p \in {"sum", "scale"} : co' = [co EXCEPT ![w] = [me EXCEPT !.pc = p, !.j = 0]]
    BY <1>6 DEF CorrectionFirst
  <2>2. CASE co' = [co EXCEPT ![w] = [me EXCEPT !.pc = "second"]]
    <3> DEFINE c == [me EXCEPT !.pc = "second"]
    <3>1. c.ok = me.ok /\ c.pc = "second" /\ co' = [co EXCEPT ![w] = c]
      BY <1>1, <2>2 DEF CorrectionRegisters
    <3> HIDE DEF c
    <3> QED BY <1>2, <1>3, <1>4, <3>1
  <2>3. CASE \E p \in {"sum", "scale"} : co' = [co EXCEPT ![w] = [me EXCEPT !.pc = p, !.j = 0]]
    <3>1. PICK p \in {"sum", "scale"} : co' = [co EXCEPT ![w] = [me EXCEPT !.pc = p, !.j = 0]]
      BY <2>3
    <3> DEFINE c == [me EXCEPT !.pc = p, !.j = 0]
    <3>2. c.ok = me.ok /\ c.pc = p /\ co' = [co EXCEPT ![w] = c]
      BY <1>1, <3>1 DEF CorrectionRegisters
    <3> HIDE DEF c
    <3> QED BY <1>2, <1>3, <1>4, <3>2
  <2> QED BY <2>1, <2>2, <2>3
<1>7. CASE CorrectionScale(w)
  <2> DEFINE g == me.j % 2
             x == sScale[g][w]
             c == [me EXCEPT !.pc = "rescale", !.scale = x]
  <2>1. me.pc = "scale" /\ Meet(g, w) /\ co' = [co EXCEPT ![w] = c]
    BY <1>7 DEF CorrectionScale
  <2>2. g \in Stage
    BY <1>1 DEF CorrectionRole, Stage
  <2>3. named[g][w] = 1
    BY <2>1 DEF Meet
  <2>4. x = [k |-> "scale", tile |-> me.tile, n |-> me.j \div 2 + 1]
    BY <2>1, <2>2, <2>3, ScaleMet
  <2>5. c.ok = me.ok /\ c.pc = "rescale" /\ c.scale = x /\ c.tile = me.tile /\ c.j = me.j
    BY <1>1 DEF CorrectionRegisters
  <2> HIDE DEF c, x
  <2>6. CorrectionRow(c)
    BY <1>2, <2>4, <2>5 DEF CorrectionRow
  <2> QED BY <1>4, <2>1, <2>6, RowStep
<1>8. CASE CorrectionRescale(w)
  <2>0. PICK p \in {"sum", "scale"} : \E j : co' = [co EXCEPT ![w] = [me EXCEPT !.pc = p, !.j = j]]
    BY <1>8 DEF CorrectionRescale
  <2>1. PICK j : co' = [co EXCEPT ![w] = [me EXCEPT !.pc = p, !.j = j]]
    BY <2>0
  <2> DEFINE c == [me EXCEPT !.pc = p, !.j = j]
  <2>2. c.ok = me.ok /\ c.pc = p /\ co' = [co EXCEPT ![w] = c]
    BY <1>1, <2>1 DEF CorrectionRegisters
  <2> HIDE DEF c
  <2> QED BY <1>2, <1>3, <1>4, <2>2
<1>9. CASE CorrectionSum(w)
  <2> DEFINE z == [k |-> "sum", tile |-> me.tile, n |-> N(me.tile) \div 2]
             k == me.ok /\ sScale[me.j][w] = z
             p == IF me.j = 1 THEN "oacc" ELSE "sum"
             j == 1 - me.j
             c == [me EXCEPT !.ok = k, !.j = j, !.pc = p]
  <2>1. me.pc = "sum" /\ Meet(me.j, w) /\ co' = [co EXCEPT ![w] = c]
    BY <1>9 DEF CorrectionSum
  <2>2. me.j \in Stage /\ me.tile \in 1 .. Len(launch.work)
    <3>1. me.j \in Nat /\ me.j < 2 /\ me.tile \in Nat /\ 1 <= me.tile /\ me.tile <= Len(launch.work)
      BY <1>1, <2>1 DEF CorrectionRole, CorrectionRegisters
    <3>2. Len(launch.work) \in Nat
      BY <1>1, LaunchFacts
    <3> QED BY <3>1, <3>2 DEF Stage
  <2>3. named[me.j][w] = 1
    BY <2>1 DEF Meet
  <2>4. sScale[me.j][w] = [k |-> "sum", tile |-> me.tile, n |-> Half(launch, me.tile)]
    BY <2>1, <2>2, <2>3, SumMet
  <2>5. N(me.tile) \div 2 = Half(launch, me.tile)
    <3>1. N(me.tile) = 2 * Half(launch, me.tile) /\ Half(launch, me.tile) \in Nat
      BY <1>1, <2>2, Tile
    <3> QED BY <3>1
  <2>6. k = TRUE
    BY <1>2, <2>4, <2>5
  <2>7. c.ok = k /\ c.pc = p
    BY <1>1 DEF CorrectionRegisters
  <2>8. p # "rescale"
    OBVIOUS
  <2> HIDE DEF c, k, p
  <2> QED BY <1>3, <1>4, <2>1, <2>6, <2>7, <2>8
<1>10. CASE CorrectionWaitO(w) \/ CorrectionEmpty(w)
  <2>0. PICK p \in {"oacc", "epi", "tile"} : \E j : co' = [co EXCEPT ![w] = [me EXCEPT !.j = j, !.pc = p]]
    BY <1>10 DEF CorrectionWaitO, CorrectionEmpty
  <2>1. PICK j : co' = [co EXCEPT ![w] = [me EXCEPT !.j = j, !.pc = p]]
    BY <2>0
  <2> DEFINE c == [me EXCEPT !.j = j, !.pc = p]
  <2>2. c.ok = me.ok /\ c.pc = p /\ co' = [co EXCEPT ![w] = c]
    BY <1>1, <2>1 DEF CorrectionRegisters
  <2> HIDE DEF c
  <2> QED BY <1>2, <1>3, <1>4, <2>2
<1>11. CASE CorrectionStore(w)
  <2>1. PICK t, e, a : co' = [co EXCEPT ![w] = [me EXCEPT !.pc = "tile", !.tile = t, !.ok = TRUE, !.epi = e,
                                                          !.oacc = a]]
    BY <1>11 DEF CorrectionStore
  <2> DEFINE c == [me EXCEPT !.pc = "tile", !.tile = t, !.ok = TRUE, !.epi = e, !.oacc = a]
  <2>2. c.ok = TRUE /\ c.pc = "tile" /\ co' = [co EXCEPT ![w] = c]
    BY <1>1, <2>1 DEF CorrectionRegisters
  <2> HIDE DEF c
  <2> QED BY <1>3, <1>4, <2>2
<1> QED BY <1>5, <1>6, <1>7, <1>8, <1>9, <1>10, <1>11 DEF Correction

LEMMA CorrectionDataStep ==
    ASSUME NEW st, Control(st), StatData, CorrectionData, [Next]_vars
    PROVE  CorrectionData'
<1>1. CASE \E w \in Warps : Correction(w)
  BY <1>1, CorrectionRows
<1>2. CASE Load \/ TensorCore \/ Epilogue \/ (\E c \in inflight : Land(c)) \/ Terminating \/ UNCHANGED vars
  <2>1. UNCHANGED <<launch, co>>
    BY <1>2 DEF Load, LoadQ, LoadKV, LoadSkip, LoadEpi, LoadTail, TensorCore, Epilogue, EpilogueStore,
                EpilogueSignal, Land, Terminating, vars
  <2> QED BY <2>1 DEF CorrectionData, Warps
<1>3. CASE Mma
  <2>1. UNCHANGED <<launch, co>>
    BY <1>3 DEF Mma, MmaQ, MmaSkip, MmaS, MmaSpo, MmaV, MmaPv, MmaK, MmaFree
  <2> QED BY <2>1 DEF CorrectionData, Warps
<1>4. CASE \E g \in Stage, w \in Warps : Softmax(g, w)
  <2>1. UNCHANGED <<launch, co>>
    BY <1>4 DEF Softmax, SoftmaxTile, SoftmaxScore, SoftmaxScale, SoftmaxP1, SoftmaxP2, SoftmaxSum, SoftmaxTail
  <2> QED BY <2>1 DEF CorrectionData, Warps
<1> QED BY <1>1, <1>2, <1>3, <1>4 DEF Next

LEMMA CorrectionDataHolds == Spec => []CorrectionData
<1>1. Init => CorrectionData
  BY DEF Init, CorrectionData, CorrectionRow
<1>2. ControlInvariant /\ StatData /\ CorrectionData /\ [Next]_vars => CorrectionData'
  BY CorrectionDataStep DEF ControlInvariant
<1> QED BY <1>1, <1>2, ControlHolds, StatDataHolds, PTL DEF Spec

-----------------------------------------------------------------------------
(* What the O stages hold.                                                  *)

\* Row x of an O stage, after the first part of k PVs and the second of d of
\* them, corrected n - 1 times.
Sums(l, t, g, m) ==
    {<<2 * Half(l, t) - 1 - (2 * n + g), 2 * Half(l, t) - 1 - (2 * n + g), n>> : n \in 0 .. m - 1}
AccOf(l, g, k, done, lets) ==
    LET t == TileAt(l, k) 
        m == lets - 1 - Steps(l, t)
    IN  [tile |-> t, acc |-> Sums(l, t, g, k - Steps(l, t) + If(done)),
         scaled |-> IF m < Half(l, t) THEN m ELSE Half(l, t) - 1]
ORow(x, g, k, d, n) == k > 0 => x = AccOf(launch, g, k - 1, d = k, n)
OData(e) ==
    /\ Rows(o, Stage, Warps)
    /\ \A g \in Stage, w \in Warps :
         ORow(o[g][w], g, OnStage(e.pv1, g), OnStage(e.pv2, g), Lets(launch, co[w], g))

-----------------------------------------------------------------------------
(* The PV the tensor core executes.                                        *)

\* A correction warp lets the MMA warp have O no more often than there are scores.
LEMMA LetsBound ==
    ASSUME NEW st, Control(st), NEW g \in Stage, NEW w \in Warps
    PROVE  \/ Lets(launch, co[w], g) <= Steps(launch, co[w].tile) + 1
           \/ Lets(launch, co[w], g) <= OnStage(st[1].qk, g)
<1> DEFINE c == co[w]
           s == Steps(launch, c.tile)
           h == Half(launch, c.tile)
<1>1. Registers /\ CorrectionRole(c)
  BY CorrectionSees
<1>2. /\ Signals(launch, sm[g][w]) = Meets(launch, c, g) + named[g][w] /\ named[g][w] \in Nat
      /\ SoftmaxRole(sm[g][w]) /\ Reads(launch, sm[g][w]) <= OnStage(st[1].qk, g)
  BY SoftmaxSees
<1>3. Meets(launch, c, g) \in Nat /\ Reads(launch, sm[g][w]) \in Nat /\ Signals(launch, sm[g][w]) \in Nat
  BY <1>1, <1>2, CorrectionCounts, SoftmaxCounts
<1>4. c.tile \in 1 .. Len(launch.work) + 1 /\ s \in Nat /\ c.tile \in Nat /\ c.tile >= 1
  <2>1. c.tile \in 1 .. Len(launch.work) + 1
    BY <1>1 DEF CorrectionRole
  <2> QED BY <1>1, <2>1, Tile
<1>5. OnStage(st[1].qk, g) \in Nat
  <2>1. MmaRole /\ Queue(st)
    BY DEF Control
  <2> QED BY <1>1, <2>1, StageCounts
<1>6. ASSUME NEW m \in Nat, c.tile \in 1 .. Len(launch.work), 1 <= m, m <= h,
             Meets(launch, c, g) >= s + c.tile - 1 + m, Lets(launch, c, g) = s + m
      PROVE  Lets(launch, c, g) <= OnStage(st[1].qk, g)
  <2> HIDE DEF c, s, h
  <2>1. Signals(launch, sm[g][w]) >= s + (c.tile - 1) + m
    BY <1>2, <1>3, <1>4, <1>6
  <2>2. Reads(launch, sm[g][w]) >= s + m
    BY <1>1, <1>2, <1>6, <2>1, SignalMeansRead DEF s, h
  <2> QED BY <1>2, <1>3, <1>4, <1>5, <1>6, <2>2
<1>7. CASE c.pc \in {"start", "tile", "second", "done"}
  <2>1. Lets(launch, c, g) = 0 \/ Lets(launch, c, g) = 1 + s + 0
    BY <1>7 DEF Lets, AfterSteps
  <2> HIDE DEF c, s
  <2> QED BY <1>4, <2>1 DEF c, s
<1>8. CASE c.pc \in {"scale", "rescale"}
  <2> DEFINE m == 1 + OnStage(c.j, g)
  <2>1. /\ c.tile \in 1 .. Len(launch.work) /\ c.j \in Nat /\ c.j < 2 * h - 2 /\ h \in Nat
    <3>1. c.tile \in 1 .. Len(launch.work)
      BY <1>1, <1>4, <1>8 DEF CorrectionRole
    <3> QED BY <1>1, <1>8, <3>1, Tile DEF CorrectionRole
  <2>2. OnStage(c.j, g) \in Nat /\ OnStage(c.j, g) <= OnStage(c.j + 1, g)
    BY <2>1, Alternate
  <2>3. OnStage(c.j, g) <= h - 1
    <3>1. PICK j \in Nat : j = c.j /\ j <= 2 * h - 3
      BY <2>1
    <3> HIDE DEF c, h
    <3>2. (j + 1 - g) \div 2 <= h - 1
      BY <2>1, <3>1 DEF Stage
    <3> QED BY <3>1, <3>2 DEF OnStage
  <2>4. Lets(launch, c, g) = 1 + s + OnStage(c.j, g)
    BY <1>8 DEF Lets
  <2>5. Meets(launch, c, g) = s + c.tile - 1 + (1 + OnStage(c.j + If(c.pc = "rescale"), g))
    BY <1>8 DEF Meets
  <2>6. OnStage(c.j + If(c.pc = "rescale"), g) >= OnStage(c.j, g)
    <3>1. CASE c.pc = "rescale"
      <4>1. If(c.pc = "rescale") = 1
        BY <3>1 DEF If
      <4> QED BY <2>2, <4>1
    <3>2. CASE c.pc # "rescale"
      <4>1. c.j + If(c.pc = "rescale") = c.j
        BY <2>1, <3>2 DEF If
      <4> QED BY <2>2, <4>1
    <3> QED BY <3>1, <3>2
  <2> DEFINE a == OnStage(c.j, g)
             b == OnStage(c.j + If(c.pc = "rescale"), g)
  <2>7. b \in Nat
    <3>1. c.j + If(c.pc = "rescale") \in Nat
      BY <2>1 DEF If
    <3> QED BY <3>1, Alternate
  <2> HIDE DEF c, s, h, a, b
  <2>8. 1 + a \in Nat /\ 1 <= 1 + a /\ 1 + a <= h
    BY <2>1, <2>2, <2>3 DEF a
  <2>9. Meets(launch, c, g) >= s + c.tile - 1 + (1 + a)
    BY <1>4, <2>2, <2>5, <2>6, <2>7 DEF a, b
  <2>10. Lets(launch, c, g) = s + (1 + a)
    BY <1>4, <2>2, <2>4 DEF a
  <2>11. Lets(launch, c, g) <= OnStage(st[1].qk, g)
    BY <1>6, <2>1, <2>8, <2>9, <2>10
  <2> QED BY <2>11 DEF c
<1>9. CASE c.pc \in AfterSteps
  <2>1. c.tile \in 1 .. Len(launch.work) /\ h \in Nat
    <3>1. c.tile \in 1 .. Len(launch.work)
      BY <1>1, <1>4, <1>9 DEF CorrectionRole, AfterSteps
    <3> QED BY <1>1, <3>1, Tile
  <2>2. CASE h > 0
    <3>1. Lets(launch, c, g) = 1 + s + (h - 1)
      BY <1>9, <2>2 DEF Lets, AfterSteps
    <3>2. Meets(launch, c, g) = s + c.tile - 1 + (h + If(c.pc # "sum" \/ c.j > g))
      BY <1>9 DEF Meets, AfterSteps
    <3>3. If(c.pc # "sum" \/ c.j > g) \in {0, 1}
      BY DEF If
    <3> DEFINE i == If(c.pc # "sum" \/ c.j > g)
    <3> HIDE DEF c, s, h, i
    <3>4. Meets(launch, c, g) >= s + c.tile - 1 + h /\ Lets(launch, c, g) = s + h /\ 1 <= h
      BY <1>4, <2>1, <2>2, <3>1, <3>2, <3>3 DEF i
    <3>5. Lets(launch, c, g) <= OnStage(st[1].qk, g)
      BY <1>6, <2>1, <3>4
    <3> QED BY <3>5 DEF c
  <2>3. CASE ~(h > 0)
    <3>1. Lets(launch, c, g) = 1 + s + 0
      BY <1>9, <2>3 DEF Lets, AfterSteps
    <3> HIDE DEF c, s
    <3> QED BY <1>4, <3>1 DEF c, s
  <2> QED BY <2>2, <2>3
<1> QED BY <1>1, <1>7, <1>8, <1>9 DEF CorrectionRole, AfterSteps

\* Step n of stage g in tile t: the PV the tensor core has reached.
HeadPV(st, g, t, n) ==
    /\ t \in 1 .. Len(launch.work) /\ tc[1].do \in {"PV1", "PV2"} /\ tc[1].g = g
    /\ n < Half(launch, t) /\ Half(launch, t) \in Nat
    /\ 2 * (Steps(launch, t) + n) + g = st[1].pv2
    /\ OnStage(st[1].pv2, g) = Steps(launch, t) + n
    /\ kv[tc[1].slot] = StepTag(launch, "V", g, Steps(launch, t) + n)
    /\ OnStage(st[1].qk, g) = Steps(launch, t) + n + 1 /\ st[2].qk = st[1].qk
    /\ \A h \in Stage : h # g => /\ OnStage(st[2].pv1, h) = OnStage(st[1].pv1, h)
                                 /\ OnStage(st[2].pv2, h) = OnStage(st[1].pv2, h)
    /\ tc[1].do = "PV1" => /\ tc[1].first <=> n = 0
                           /\ OnStage(st[1].pv1, g) = Steps(launch, t) + n
                           /\ OnStage(st[2].pv1, g) = Steps(launch, t) + n + 1
                           /\ OnStage(st[2].pv2, g) = Steps(launch, t) + n
    /\ tc[1].do = "PV2" => /\ tc[1].first = FALSE
                           /\ OnStage(st[1].pv1, g) = Steps(launch, t) + n + 1
                           /\ OnStage(st[2].pv1, g) = Steps(launch, t) + n + 1
                           /\ OnStage(st[2].pv2, g) = Steps(launch, t) + n + 1

LEMMA PVHeadIs ==
    ASSUME NEW st, Control(st), KvData(st[1]), 1 \in DOMAIN tc, tc[1].do \in {"PV1", "PV2"}
    PROVE  \E g \in Stage, t \in 1 .. Len(launch.work), n \in Nat : HeadPV(st, g, t, n)
<1>1. /\ st[1] \in Point /\ st[2] \in Point /\ Step(launch, st[1], tc[1], st[2])
  <2>1. /\ st[1] \in Point /\ st[1 + 1] \in Point /\ Step(launch, st[1], tc[1], st[1 + 1])
    BY InQueue
  <2> QED BY <2>1
<1>2. Registers /\ launch \in Launches
  BY DEF Control, Registers
<1>3. PICK t \in 1 .. Len(launch.work), q \in Nat, u \in Nat, v \in Nat, r \in Nat, y \in Nat :
        StepIn(launch, t, q, u, v, r, y, st[1], tc[1], st[2])
  BY <1>1 DEF Step
<1> DEFINE h == Half(launch, t)
           s == Steps(launch, t)
           g == v % 2
           n == v \div 2
<1>4. /\ InPV(2 * h, q, v, r, y) /\ h > 0 /\ st[1] = At(launch, t, q, u, v, r, y)
      /\ \/ tc[1].do = "PV1" /\ u = v /\ PV1Step(st[1], tc[1], st[2], v < 2)
         \/ tc[1].do = "PV2" /\ u = v + 1 /\ PV2Step(st[1], tc[1], st[2], v >= 2 * h - 2)
  BY <1>3 DEF StepIn, QKStep, ReleaseStep, Op, PV1Step, PV2Step
<1>5. st[1].qk = 2 * s + q /\ st[1].pv1 = 2 * s + u /\ st[1].pv2 = 2 * s + v
  BY <1>4 DEF At
<1>6. s \in Nat /\ h \in Nat
  BY <1>2, NextTile, LaunchFacts
<1>7. v < 2 * h /\ q = IF v + 2 < 2 * h THEN v + 2 ELSE 2 * h
  BY <1>4 DEF InPV
<1>8. /\ g \in Stage /\ n \in Nat /\ v = 2 * n + g /\ OnStage(v, g) = n /\ OnStage(v + 1, g) = n + 1
      /\ \A i \in Stage : i # g => OnStage(v + 1, i) = OnStage(v, i)
  <2> HIDE DEF g, n
  <2>1. /\ g \in Stage /\ n \in Nat /\ v = 2 * n + g /\ OnStage(v, g) = n /\ OnStage(v + 1, g) = n + 1
    BY OwnStage DEF g, n
  <2>2. ASSUME NEW i \in Stage, i # g PROVE OnStage(v + 1, i) = OnStage(v, i)
    <3>1. OnStage(v + 1, i) = OnStage(v, i) + 0 /\ OnStage(v, i) \in Nat
      BY <2>2, Alternate DEF If, g
    <3> QED BY <3>1
  <2> QED BY <2>1, <2>2
<1> HIDE DEF g, n, h, s
<1>9. n < h
  <2>1. g = 0 \/ g = 1
    BY <1>8 DEF Stage
  <2> QED BY <1>6, <1>7, <1>8, <2>1
<1>10. OnStage(q, g) = n + 1
  <2>1. g = 0 \/ g = 1
    BY <1>8 DEF Stage
  <2>2. CASE v + 2 < 2 * h
    <3>1. q = 2 * n + g + 2
      BY <1>7, <1>8, <2>2
    <3>2. (2 * n + 0 + 2 + 1 - 0) \div 2 = n + 1 /\ (2 * n + 1 + 2 + 1 - 1) \div 2 = n + 1
      BY <1>8
    <3> QED BY <2>1, <3>1, <3>2 DEF OnStage
  <2>3. CASE ~(v + 2 < 2 * h)
    <3>1. q = 2 * h /\ h = n + 1
      BY <1>6, <1>7, <1>8, <1>9, <2>1, <2>3
    <3>2. (2 * (n + 1) + 1 - 0) \div 2 = n + 1 /\ (2 * (n + 1) + 1 - 1) \div 2 = n + 1
      BY <1>8
    <3> QED BY <2>1, <3>1, <3>2 DEF OnStage
  <2> QED BY <2>2, <2>3
<1>11. ASSUME NEW i \in Stage, NEW c \in Nat, NEW d, d = 2 * s + c
       PROVE  OnStage(d, i) = s + OnStage(c, i)
  BY <1>6, <1>11, AlternateFrom
<1>12. OnStage(st[1].pv2, g) = s + n /\ OnStage(st[1].qk, g) = s + (n + 1)
  BY <1>5, <1>8, <1>10, <1>11
<1>13. \A i \in Stage : i # g => OnStage(2 * s + (v + 1), i) = OnStage(2 * s + v, i)
  <2> SUFFICES ASSUME NEW i \in Stage, i # g PROVE OnStage(2 * s + (v + 1), i) = OnStage(2 * s + v, i)
    OBVIOUS
  <2>1. OnStage(2 * s + (v + 1), i) = s + OnStage(v + 1, i)
    <3>1. v + 1 \in Nat
      OBVIOUS
    <3> QED BY <1>11, <3>1
  <2>2. OnStage(2 * s + v, i) = s + OnStage(v, i)
    BY <1>11
  <2> QED BY <1>8, <2>1, <2>2
<1>14. OnStage(2 * s + (v + 1), g) = s + (n + 1) /\ OnStage(2 * s + v, g) = s + n
  <2>1. OnStage(2 * s + (v + 1), g) = s + OnStage(v + 1, g)
    <3>1. v + 1 \in Nat
      OBVIOUS
    <3> QED BY <1>8, <1>11, <3>1
  <2>2. OnStage(2 * s + v, g) = s + OnStage(v, g)
    BY <1>8, <1>11
  <2> QED BY <1>8, <2>1, <2>2
<1>15. st[2].qk = st[1].qk
  BY <1>1, <1>4 DEF PV1Step, PV2Step, Point
<1>16. st[1].pv2 % 2 = g /\ st[1].pv2 \div 2 = s + n
  <2>1. g = 0 \/ g = 1
    BY <1>8 DEF Stage
  <2>2. st[1].pv2 = 2 * (s + n) + g
    BY <1>5, <1>6, <1>8, <2>1
  <2>3. s + n \in Nat
    BY <1>6, <1>8
  <2> DEFINE a == s + n
  <2> HIDE DEF a
  <2>4. (2 * a + 0) % 2 = 0 /\ (2 * a + 1) % 2 = 1 /\ (2 * a + 0) \div 2 = a /\ (2 * a + 1) \div 2 = a
    BY <2>3 DEF a
  <2> QED BY <2>1, <2>2, <2>4 DEF a
<1>17. tc[1].g = g /\ kv[tc[1].slot] = StepTag(launch, "V", g, s + n)
  BY <1>16, PVReads
<1>18. ASSUME tc[1].do = "PV1"
       PROVE  /\ tc[1].first <=> n = 0
              /\ st[1].pv1 = 2 * s + v /\ st[2].pv1 = 2 * s + (v + 1) /\ st[2].pv2 = 2 * s + v
  <2>1. u = v /\ tc[1].first = (v < 2) /\ st[2] = [st[1] EXCEPT !.pv1 = @ + 1]
    BY <1>4, <1>18 DEF PV1Step, PV2Step, Op
  <2>2. st[2].pv1 = st[1].pv1 + 1 /\ st[2].pv2 = st[1].pv2
    BY <1>1, <2>1 DEF Point
  <2>3. v < 2 <=> n = 0
    <3>1. g = 0 \/ g = 1
      BY <1>8 DEF Stage
    <3> QED BY <1>8, <3>1
  <2>4. tc[1].first <=> n = 0
    BY <2>1, <2>3
  <2>5. st[1].pv1 = 2 * s + v /\ st[2].pv1 = 2 * s + (v + 1) /\ st[2].pv2 = 2 * s + v
    BY <1>5, <1>6, <2>1, <2>2
  <2> QED BY <2>4, <2>5
<1>19. ASSUME tc[1].do = "PV2"
       PROVE  /\ tc[1].first = FALSE
              /\ st[1].pv1 = 2 * s + (v + 1) /\ st[2].pv1 = 2 * s + (v + 1) /\ st[2].pv2 = 2 * s + (v + 1)
  <2>1. /\ u = v + 1 /\ tc[1].first = FALSE
        /\ st[2] = [st[1] EXCEPT !.pv2 = @ + 1, !.last = @ + If(v >= 2 * h - 2)]
    BY <1>4, <1>19 DEF PV1Step, PV2Step, Op
  <2>2. st[2].pv2 = st[1].pv2 + 1 /\ st[2].pv1 = st[1].pv1
    BY <1>1, <2>1 DEF Point
  <2> QED BY <1>5, <1>6, <2>1, <2>2
<1>20. \A i \in Stage : i # g => /\ OnStage(st[2].pv1, i) = OnStage(st[1].pv1, i)
                                 /\ OnStage(st[2].pv2, i) = OnStage(st[1].pv2, i)
  BY <1>4, <1>5, <1>13, <1>18, <1>19
<1>21. s + (n + 1) = s + n + 1
  BY <1>6, <1>8
<1>22. 2 * (s + n) + g = st[1].pv2
  <2>1. g = 0 \/ g = 1
    BY <1>8 DEF Stage
  <2> QED BY <1>5, <1>6, <1>8, <2>1
<1>23. HeadPV(st, g, t, n)
  BY <1>4, <1>6, <1>9, <1>12, <1>14, <1>15, <1>17, <1>18, <1>19, <1>20, <1>21, <1>22 DEF HeadPV, h, s
<1> QED BY <1>8, <1>23

LEMMA LetsAtPV ==
    ASSUME NEW st, Control(st), 1 \in DOMAIN tc, NEW g \in Stage, NEW t \in 1 .. Len(launch.work),
           NEW n \in Nat, HeadPV(st, g, t, n), NEW w \in Warps
    PROVE  Lets(launch, co[w], g) = Steps(launch, t) + n + 1
<1> DEFINE s == Steps(launch, t)
           L == Lets(launch, co[w], g)
           c == co[w]
<1>1. Registers /\ MmaRole /\ Queue(st) /\ launch \in Launches
  BY DEF Control, Registers
<1>2. /\ s \in Nat /\ Half(launch, t) \in Nat /\ n < Half(launch, t) /\ Steps(launch, t + 1) = s + Half(launch, t)
      /\ t + 1 \in 1 .. Len(launch.work) + 1
  BY <1>1, NextTile, LaunchFacts DEF HeadPV
<1>3. st[1] \in Point /\ Placed(launch, st[1]) /\ Issued(launch, mm) \in Point
  BY <1>1, QueueFacts
<1>4. CorrectionRole(c) /\ c.tile \in 1 .. Len(launch.work) + 1 /\ L \in Nat /\ Steps(launch, c.tile) \in Nat
  <2>1. CorrectionRole(c) /\ c.tile \in 1 .. Len(launch.work) + 1
    BY CorrectionSees DEF CorrectionRole
  <2> QED BY <1>1, <2>1, CorrectionCounts, Tile
<1>5. L >= s + n + 1
  <2>1. st[1].pv2 + 1 <= Issued(launch, mm).pv1
    <3>1. tc[1].do \in {"PV1", "PV2"} /\ tc[1].g = g
      BY DEF HeadPV
    <3> QED BY <3>1, PVCounts
  <2>2. PICK m \in Nat : m = Issued(launch, mm).pv1
    BY <1>3 DEF Point
  <2>3. OnStage(m, g) <= PTaken(launch, mm, g) /\ PTaken(launch, mm, g) <= L /\ PTaken(launch, mm, g) \in Nat
    BY <1>1, <2>2, StageCounts, MmaWaits
  <2>0. 2 * (s + n) + g = st[1].pv2
    BY DEF HeadPV
  <2> DEFINE d == 2 * (s + n) + g + 1
  <2>4. OnStage(d, g) = s + n + 1 /\ d \in Nat
    <3> HIDE DEF s
    <3>1. g = 0 \/ g = 1
      BY DEF Stage
    <3>2. (2 * (s + n) + 0 + 1 + 1 - 0) \div 2 = s + n + 1 /\ (2 * (s + n) + 1 + 1 + 1 - 1) \div 2 = s + n + 1
      BY <1>2
    <3>3. CASE g = 0
      BY <1>2, <3>2, <3>3 DEF OnStage
    <3>4. CASE g = 1
      BY <1>2, <3>2, <3>4 DEF OnStage
    <3> QED BY <3>1, <3>3, <3>4
  <2>5. d <= m
    BY <2>0, <2>1, <2>2
  <2> HIDE DEF d, s, L
  <2>6. OnStage(d, g) <= OnStage(m, g) /\ OnStage(m, g) \in Nat
    BY <2>4, <2>5, AlternateKeeps, Alternate
  <2> QED BY <1>2, <1>4, <2>3, <2>4, <2>6
<1>6. c.tile <= t
  <2> SUFFICES ASSUME ~(c.tile <= t) PROVE FALSE
    OBVIOUS
  <2>1. t + 1 <= c.tile
    BY <1>4
  <2>2. Works(launch, t + 1) <= Works(launch, c.tile)
    BY <1>1, <1>2, <1>4, <2>1, Later
  <2>3. Waited(launch, c, 1) >= Works(launch, c.tile)
    BY WaitedTile
  <2>4. Waited(launch, c, 1) <= OnStage(st[1].last, 1) /\ Waited(launch, c, 1) \in Nat
        /\ OnStage(st[1].last, 1) \in Nat
    <3>1. 1 \in Stage
      BY DEF Stage
    <3> QED BY <3>1, CorrectionSees
  <2>5. Works(launch, c.tile) \in Nat /\ Works(launch, t + 1) \in Nat
    BY <1>1, <1>2, <1>4, TileCounts
  <2>6. OnStage(st[1].last, 1) >= Works(launch, t + 1)
    BY <2>2, <2>3, <2>4, <2>5
  <2>7. st[1].pv2 >= 2 * Steps(launch, t + 1)
    BY <1>1, <1>2, <1>3, <2>6, TilesDone
  <2>8. (g = 0 \/ g = 1) /\ 2 * (s + n) + g = st[1].pv2
    BY DEF Stage, HeadPV
  <2> QED BY <1>2, <2>7, <2>8
<1>7. Steps(launch, c.tile) <= s
  <2>1. t \in 1 .. Len(launch.work) + 1
    BY <1>1, LaunchFacts
  <2> QED BY <1>1, <1>4, <1>6, <2>1, Later
<1>8. L <= Steps(launch, c.tile) + 1 \/ L <= s + n + 1
  BY LetsBound DEF HeadPV
<1> HIDE DEF s, L, c
<1>9. L = s + n + 1
  BY <1>2, <1>4, <1>5, <1>7, <1>8
<1> QED BY <1>9 DEF s, L, c

\* The P a PV finds on its stage: its first part, and all of it for the second part.
LEMMA PAtPV ==
    ASSUME NEW st, Control(st), SpData(st[1]), 1 \in DOMAIN tc, NEW g \in Stage,
           NEW t \in 1 .. Len(launch.work), NEW n \in Nat, HeadPV(st, g, t, n),
           NEW w \in Warps
    PROVE  \/ sp[g][w] = StepTag(launch, "P", g, Steps(launch, t) + n)
           \/ tc[1].do = "PV1" /\ sp[g][w] = StepTag(launch, "P1", g, Steps(launch, t) + n)
<1> DEFINE k == Steps(launch, t) + n
           s == sm[g][w]
           S == Stored(launch, s)
           A == Announced(launch, s)
           R == Reads(launch, s)
<1>1. Registers /\ MmaRole /\ Queue(st) /\ launch \in Launches /\ SoftmaxRole(s)
  BY SoftmaxSees DEF Control, Registers
<1>2. k \in Nat
  BY <1>1, NextTile
<1>3. S \in Nat /\ A \in Nat /\ R \in Nat /\ S <= A /\ A <= R
  BY <1>1, SoftmaxCounts
<1>4. R <= k + 1
  BY SoftmaxSees DEF HeadPV
<1>5. st[1] \in Point /\ st[2] \in Point /\ Issued(launch, mm) \in Point /\ Ahead(st[2], Issued(launch, mm))
  <2>1. st[1] \in Point /\ st[1 + 1] \in Point /\ Ahead(st[1 + 1], Issued(launch, mm))
    BY InQueue
  <2> QED BY <1>1, <2>1, QueueFacts
<1>6. A >= k + 1
  <2>1. OnStage(st[2].pv1, g) = k + 1
    BY DEF HeadPV
  <2>2. st[2].pv1 \in Nat /\ Issued(launch, mm).pv1 \in Nat /\ st[2].pv1 <= Issued(launch, mm).pv1
    BY <1>5 DEF Point, Ahead
  <2>3. OnStage(st[2].pv1, g) <= OnStage(Issued(launch, mm).pv1, g)
    BY <2>2, AlternateKeeps
  <2>4. /\ OnStage(Issued(launch, mm).pv1, g) <= PTaken(launch, mm, g) /\ PTaken(launch, mm, g) <= A
        /\ OnStage(Issued(launch, mm).pv1, g) \in Nat /\ PTaken(launch, mm, g) \in Nat
    BY <1>1, StageCounts, SoftmaxSees
  <2> HIDE DEF k, A
  <2> QED BY <1>2, <1>3, <2>1, <2>3, <2>4
<1>7. SpRow(s, sp[g][w], g, k + 1)
  BY DEF SpData, HeadPV
<1>8. CASE s.pc = "p2"
  <2>1. A = S + 1
    BY <1>8 DEF Announced, If
  <2>2. S = k
    <3> HIDE DEF A, S, R, k
    <3> QED BY <1>2, <1>3, <1>4, <1>6, <2>1
  <2>3. tc[1].do = "PV1"
    <3> SUFFICES ASSUME tc[1].do = "PV2" PROVE FALSE
      BY DEF HeadPV
    <3>1. OnStage(st[2].pv2, g) = k + 1
      BY DEF HeadPV
    <3>2. st[2].pv2 \in Nat /\ Issued(launch, mm).pv2 \in Nat /\ st[2].pv2 <= Issued(launch, mm).pv2
      BY <1>5 DEF Point, Ahead
    <3>3. OnStage(st[2].pv2, g) <= OnStage(Issued(launch, mm).pv2, g)
      BY <3>2, AlternateKeeps
    <3>4. OnStage(Issued(launch, mm).pv2, g) <= S /\ OnStage(Issued(launch, mm).pv2, g) \in Nat
      BY <1>1, StageCounts, SoftmaxSees
    <3> HIDE DEF k, S
    <3> QED BY <1>2, <1>3, <2>2, <3>1, <3>3, <3>4
  <2>4. sp[g][w] = StepTag(launch, "P1", g, S)
    BY <1>7, <1>8 DEF SpRow
  <2> QED BY <2>2, <2>3, <2>4
<1>9. CASE s.pc # "p2"
  <2>1. A = S + 0
    BY <1>9 DEF Announced, If
  <2>2. S = k + 1 /\ S - 1 = k
    <3> HIDE DEF A, S, R, k
    <3> QED BY <1>2, <1>3, <1>4, <1>6, <2>1
  <2>3. k + 1 > 0
    BY <1>2
  <2>4. sp[g][w] = StepTag(launch, "P", g, S - 1)
    <3> HIDE DEF k, s
    <3> QED BY <1>7, <1>9, <2>2, <2>3 DEF SpRow, s, S
  <2> QED BY <2>2, <2>4
<1> QED BY <1>8, <1>9

\* O after n + 1 steps of tile t, or with the first part of the last of them only.
LEMMA AccIs ==
    ASSUME NEW l \in Launches, NEW t \in 1 .. Len(l.work), NEW n \in Nat, n < Half(l, t), NEW g \in Stage,
           NEW d, NEW L, NEW k, k = Steps(l, t) + n
    PROVE  AccOf(l, g, k, d, L) =
             [tile |-> t, acc |-> Sums(l, t, g, n + If(d)),
              scaled |-> IF L - 1 - Steps(l, t) < Half(l, t) THEN L - 1 - Steps(l, t) ELSE Half(l, t) - 1]
<1>1. Steps(l, t) \in Nat /\ Half(l, t) \in Nat
  BY NextTile, LaunchFacts
<1>2. k \in Nat /\ Steps(l, t) <= k /\ k < Steps(l, t) + Half(l, t) /\ k - Steps(l, t) = n
  BY <1>1
<1>3. TileAt(l, k) = t
  BY <1>2, TileIs
<1> QED BY <1>2, <1>3 DEF AccOf

LEMMA SumsGrow ==
    ASSUME NEW l, NEW t, NEW g, NEW n \in Nat
    PROVE  /\ Sums(l, t, g, 0) = {}
           /\ Sums(l, t, g, n + 1) = Sums(l, t, g, n) \cup
                {<<2 * Half(l, t) - 1 - (2 * n + g), 2 * Half(l, t) - 1 - (2 * n + g), n>>}
<1> DEFINE e(i) == <<2 * Half(l, t) - 1 - (2 * i + g), 2 * Half(l, t) - 1 - (2 * i + g), i>>
<1>1. \A m : Sums(l, t, g, m) = {e(i) : i \in 0 .. m - 1}
  BY DEF Sums
<1> HIDE DEF e
<1>2. 0 .. 0 - 1 = {} /\ 0 .. n + 1 - 1 = (0 .. n - 1) \cup {n}
  OBVIOUS
<1>3. Sums(l, t, g, 0) = {} /\ Sums(l, t, g, n + 1) = Sums(l, t, g, n) \cup {e(n)}
  <2>1. {e(i) : i \in (0 .. n - 1) \cup {n}} = {e(i) : i \in 0 .. n - 1} \cup {e(n)}
    OBVIOUS
  <2>2. {e(i) : i \in {}} = {}
    OBVIOUS
  <2>3. Sums(l, t, g, n + 1) = {e(i) : i \in 0 .. n + 1 - 1} /\ Sums(l, t, g, n) = {e(i) : i \in 0 .. n - 1}
        /\ Sums(l, t, g, 0) = {e(i) : i \in 0 .. 0 - 1}
    BY <1>1
  <2> QED BY <1>2, <2>1, <2>2, <2>3
<1> QED BY <1>3 DEF e

\* O of tile t, corrected n times, with m of its steps accumulated.
StepsDone(l, t, g, n, m) == [tile |-> t, acc |-> Sums(l, t, g, m), scaled |-> n]

LEMMA AccAround ==
    ASSUME NEW l \in Launches, NEW t \in 1 .. Len(l.work), NEW n \in Nat, n < Half(l, t), NEW g \in Stage,
           NEW L, L = Steps(l, t) + n + 1, NEW x, NEW k, k = Steps(l, t) + n
    PROVE  /\ n > 0 => AccOf(l, g, k - 1, k = k, L) = StepsDone(l, t, g, n, n)
           /\ AccOf(l, g, (k + 1) - 1, k = k + 1, L) = StepsDone(l, t, g, n, n)
           /\ AccOf(l, g, (k + 1) - 1, k + 1 = k + 1, L) = StepsDone(l, t, g, n, n + 1)
           /\ k + 1 > 0 /\ (n > 0 => k > 0)
<1>1. Steps(l, t) \in Nat /\ Half(l, t) \in Nat
  BY NextTile, LaunchFacts
<1>2. k \in Nat /\ (k + 1) - 1 = Steps(l, t) + n
  BY <1>1
<1>3. L - 1 - Steps(l, t) = n
  BY <1>1
<1>4. If(k = k) = 1 /\ If(k = k + 1) = 0 /\ If(k + 1 = k + 1) = 1
  BY <1>2 DEF If
<1>5. ASSUME n > 0 PROVE AccOf(l, g, k - 1, k = k, L) = StepsDone(l, t, g, n, n)
  <2>1. n - 1 \in Nat /\ n - 1 < Half(l, t) /\ k - 1 = Steps(l, t) + (n - 1) /\ (n - 1) + 1 = n
    BY <1>1, <1>5
  <2>2. AccOf(l, g, k - 1, k = k, L) =
          [tile |-> t, acc |-> Sums(l, t, g, (n - 1) + If(k = k)),
           scaled |-> IF L - 1 - Steps(l, t) < Half(l, t) THEN L - 1 - Steps(l, t) ELSE Half(l, t) - 1]
    BY <2>1, AccIs
  <2> QED BY <1>3, <1>4, <2>1, <2>2 DEF StepsDone
<1>6. AccOf(l, g, (k + 1) - 1, k = k + 1, L) = StepsDone(l, t, g, n, n)
  <2>1. AccOf(l, g, (k + 1) - 1, k = k + 1, L) =
          [tile |-> t, acc |-> Sums(l, t, g, n + If(k = k + 1)),
           scaled |-> IF L - 1 - Steps(l, t) < Half(l, t) THEN L - 1 - Steps(l, t) ELSE Half(l, t) - 1]
    BY <1>2, AccIs
  <2>2. n + 0 = n
    OBVIOUS
  <2> QED BY <1>3, <1>4, <2>1, <2>2 DEF StepsDone
<1>7. AccOf(l, g, (k + 1) - 1, k + 1 = k + 1, L) = StepsDone(l, t, g, n, n + 1)
  <2>1. AccOf(l, g, (k + 1) - 1, k + 1 = k + 1, L) =
          [tile |-> t, acc |-> Sums(l, t, g, n + If(k + 1 = k + 1)),
           scaled |-> IF L - 1 - Steps(l, t) < Half(l, t) THEN L - 1 - Steps(l, t) ELSE Half(l, t) - 1]
    BY <1>2, AccIs
  <2> QED BY <1>3, <1>4, <2>1 DEF StepsDone
<1> QED BY <1>1, <1>2, <1>5, <1>6, <1>7

\* What the two parts of a PV do with the right operands.
KindsOf(do) == IF do = "PV1" THEN {"P1", "P"} ELSE {"P"}

LEMMA FirstPart ==
    ASSUME NEW acc, NEW p, NEW v, NEW kinds, p.k \in kinds, v.k = "V", v.tile = p.tile, NEW first, first
    PROVE  Accumulated(acc, p, v, kinds, first) = [tile |-> p.tile, acc |-> {}, scaled |-> 0]
  BY DEF Accumulated

LEMMA LaterPart ==
    ASSUME NEW acc, NEW p, NEW v, NEW kinds, p.k \in kinds, v.k = "V", v.tile = p.tile, NEW first, ~first,
           acc.tile = p.tile, "P1" \in kinds
    PROVE  Accumulated(acc, p, v, kinds, first) = acc
  BY DEF Accumulated

LEMMA SecondPart ==
    ASSUME NEW t, NEW A, NEW n, NEW p, NEW v, NEW kinds, p.k \in kinds, v.k = "V", v.tile = p.tile,
           NEW first, ~first, t = p.tile, kinds = {"P"}, NEW acc, acc = [tile |-> t, acc |-> A, scaled |-> n],
           NEW B, B = A \cup {<<p.grp, v.grp, n>>}
    PROVE  Accumulated(acc, p, v, kinds, first) = [tile |-> t, acc |-> B, scaled |-> n]
<1>1. acc.tile = p.tile /\ acc.scaled = n
  OBVIOUS
<1>2. Accumulated(acc, p, v, kinds, first) = [acc EXCEPT !.acc = @ \cup {<<p.grp, v.grp, acc.scaled>>}]
  BY <1>1 DEF Accumulated
<1> DEFINE E == {<<p.grp, v.grp, acc.scaled>>}
<1>3. E = {<<p.grp, v.grp, n>>}
  BY <1>1
<1> HIDE DEF E
<1>4. [acc EXCEPT !.acc = @ \cup E] = [tile |-> t, acc |-> A \cup E, scaled |-> n]
  OBVIOUS
<1> QED BY <1>2, <1>3, <1>4 DEF E

LEMMA PVRow ==
    ASSUME NEW st, Control(st), SpData(st[1]), OData(st[1]), 1 \in DOMAIN tc, NEW g \in Stage,
           NEW t, NEW n \in Nat, HeadPV(st, g, t, n),
           NEW w \in Warps, NEW kinds, kinds = KindsOf(tc[1].do)
    PROVE  ORow(Accumulated(o[g][w], sp[g][w], kv[tc[1].slot], kinds, tc[1].first), g,
                OnStage(st[2].pv1, g), OnStage(st[2].pv2, g), Lets(launch, co[w], g))
<1> DEFINE k == Steps(launch, t) + n
           L == Lets(launch, co[w], g)
           x == o[g][w]
           p == sp[g][w]
           v == kv[tc[1].slot]
           G == 2 * Half(launch, t) - 1 - (2 * n + g)
<1>1. /\ launch \in Launches /\ n < Half(launch, t) /\ Half(launch, t) \in Nat
      /\ Steps(launch, t) \in Nat /\ t \in 1 .. Len(launch.work)
  <2>1. Registers /\ n < Half(launch, t) /\ t \in 1 .. Len(launch.work)
    BY DEF HeadPV, Control
  <2> QED BY <2>1, Tile
<1>2. L = Steps(launch, t) + n + 1
  BY <1>1, LetsAtPV
<1>3. \A kind : StepTag(launch, kind, g, k) = Tag(kind, t, G)
  <2> SUFFICES ASSUME NEW kind PROVE StepTag(launch, kind, g, k) = Tag(kind, t, G)
    OBVIOUS
  <2>1. g = 0 \/ g = 1
    BY DEF Stage
  <2>2. PICK c \in Nat : c = 2 * n + g
    BY <2>1
  <2>3. c < 2 * Half(launch, t) /\ c \div 2 = n /\ c % 2 = g
    <3>1. (2 * n + 0) \div 2 = n /\ (2 * n + 1) \div 2 = n /\ (2 * n + 0) % 2 = 0 /\ (2 * n + 1) % 2 = 1
      OBVIOUS
    <3>2. c < 2 * Half(launch, t)
      BY <1>1, <2>1, <2>2
    <3> QED BY <2>1, <2>2, <3>1, <3>2
  <2>4. k = Steps(launch, t) + (c \div 2) /\ g = c % 2
    BY <2>3
  <2> HIDE DEF k
  <2>5. StepTag(launch, kind, g, k) = Tag(kind, t, 2 * Half(launch, t) - 1 - c)
    <3>1. c < 2 * Half(launch, t) /\ launch \in Launches /\ t \in 1 .. Len(launch.work)
      BY <1>1, <2>3
    <3> QED BY <2>4, <3>1, TagIs
  <2> QED BY <2>2, <2>5
<1>4. v.k = "V" /\ v.tile = t /\ v.grp = G
  <2>1. v = StepTag(launch, "V", g, k)
    BY DEF HeadPV
  <2> HIDE DEF v, k, G
  <2>2. v = Tag("V", t, G)
    BY <1>3, <2>1
  <2> QED BY <2>2 DEF Tag
<1>5. p.k \in kinds /\ p.tile = t /\ p.grp = G
  <2>1. \/ p = StepTag(launch, "P", g, k)
        \/ tc[1].do = "PV1" /\ p = StepTag(launch, "P1", g, k)
    BY <1>1, PAtPV
  <2> HIDE DEF p, k, G
  <2>2. \/ p = Tag("P", t, G)
        \/ tc[1].do = "PV1" /\ p = Tag("P1", t, G)
    BY <1>3, <2>1
  <2> QED BY <2>2 DEF Tag, KindsOf
<1>6. /\ n > 0 => AccOf(launch, g, k - 1, k = k, L) = StepsDone(launch, t, g, n, n) /\ k > 0
      /\ AccOf(launch, g, (k + 1) - 1, k = k + 1, L) = StepsDone(launch, t, g, n, n)
      /\ AccOf(launch, g, (k + 1) - 1, k + 1 = k + 1, L) = StepsDone(launch, t, g, n, n + 1)
      /\ k + 1 > 0
  <2> HIDE DEF L
  <2> QED BY <1>1, <1>2, AccAround
<1>7. ORow(x, g, OnStage(st[1].pv1, g), OnStage(st[1].pv2, g), L)
  BY DEF OData
<1> HIDE DEF k, L, x, p, v, G
<1>8. CASE tc[1].do = "PV1"
  <2>1. /\ tc[1].first <=> n = 0
        /\ OnStage(st[1].pv1, g) = k /\ OnStage(st[1].pv2, g) = k
        /\ OnStage(st[2].pv1, g) = k + 1 /\ OnStage(st[2].pv2, g) = k
        /\ tc[1].first \in BOOLEAN
    <3>1. tc[1] \in Operation
      BY DEF Control, Registers
    <3> QED BY <1>8, <3>1 DEF HeadPV, k, Operation
  <2>2. "P1" \in kinds
    BY <1>8 DEF KindsOf
  <2>3. CASE n = 0
    <3>1. Accumulated(x, p, v, kinds, tc[1].first) = [tile |-> t, acc |-> {}, scaled |-> 0]
      <4>1. tc[1].first /\ v.tile = p.tile
        BY <1>4, <1>5, <2>1, <2>3
      <4>2. Accumulated(x, p, v, kinds, tc[1].first) = [tile |-> p.tile, acc |-> {}, scaled |-> 0]
        BY <1>4, <1>5, <4>1, FirstPart
      <4> QED BY <1>5, <4>2
    <3>2. StepsDone(launch, t, g, n, n) = [tile |-> t, acc |-> {}, scaled |-> 0]
      BY <2>3, SumsGrow DEF StepsDone
    <3> QED BY <1>6, <2>1, <3>1, <3>2 DEF ORow, L, x, p, v
  <2>4. CASE n > 0
    <3>1. x = StepsDone(launch, t, g, n, n)
      BY <1>6, <1>7, <2>1, <2>4 DEF ORow
    <3>2. Accumulated(x, p, v, kinds, tc[1].first) = x
      <4>1. ~tc[1].first /\ v.tile = p.tile
        BY <1>4, <1>5, <2>1, <2>4
      <4>2. x.tile = p.tile
        BY <1>5, <3>1 DEF StepsDone
      <4>3. p.k \in kinds /\ v.k = "V"
        BY <1>4, <1>5
      <4> QED BY <2>2, <4>1, <4>2, <4>3, LaterPart
    <3> QED BY <1>6, <2>1, <3>1, <3>2 DEF ORow, L, x, p, v
  <2> QED BY <2>3, <2>4
<1>9. CASE tc[1].do = "PV2"
  <2>1. /\ tc[1].first = FALSE
        /\ OnStage(st[1].pv1, g) = k + 1 /\ OnStage(st[1].pv2, g) = k
        /\ OnStage(st[2].pv1, g) = k + 1 /\ OnStage(st[2].pv2, g) = k + 1
    BY <1>9 DEF HeadPV, k
  <2>2. kinds = {"P"}
    BY <1>9 DEF KindsOf
  <2>3. x = StepsDone(launch, t, g, n, n)
    BY <1>6, <1>7, <2>1 DEF ORow
  <2> DEFINE A == Sums(launch, t, g, n)
             B == Sums(launch, t, g, n + 1)
  <2>4. B = A \cup {<<G, G, n>>}
    <3>1. B = A \cup {<<2 * Half(launch, t) - 1 - (2 * n + g), 2 * Half(launch, t) - 1 - (2 * n + g), n>>}
      BY SumsGrow
    <3> QED BY <3>1 DEF G
  <2>5. /\ x = [tile |-> t, acc |-> A, scaled |-> n]
        /\ StepsDone(launch, t, g, n, n + 1) = [tile |-> t, acc |-> B, scaled |-> n]
    BY <2>3 DEF StepsDone
  <2> HIDE DEF A, B
  <2>6. v.tile = p.tile /\ ~tc[1].first /\ t = p.tile
    BY <1>4, <1>5, <2>1
  <2>7. p.k \in kinds /\ v.k = "V" /\ x = [tile |-> t, acc |-> A, scaled |-> n]
        /\ B = A \cup {<<p.grp, v.grp, n>>}
    BY <1>4, <1>5, <2>4, <2>5
  <2>8. Accumulated(x, p, v, kinds, tc[1].first) = StepsDone(launch, t, g, n, n + 1)
    <3>1. Accumulated(x, p, v, kinds, tc[1].first) = [tile |-> t, acc |-> B, scaled |-> n]
      BY <2>2, <2>6, <2>7, SecondPart
    <3> QED BY <2>5, <3>1
  <2> QED BY <1>6, <2>1, <2>8 DEF ORow, L, x, p, v
<1> QED BY <1>8, <1>9 DEF HeadPV

LEMMA TensorCoreO ==
    ASSUME NEW st, Control(st), KvData(st[1]), SpData(st[1]), OData(st[1]), TensorCore
    PROVE  OData(st[2])'
<1>1. Registers /\ MmaRole /\ Queue(st) /\ tc # <<>> /\ 1 \in DOMAIN tc /\ Head(tc) = tc[1]
  <2>1. tc \in Seq(Operation) /\ tc # <<>>
    BY DEF Control, Registers, TensorCore
  <2> QED BY <2>1 DEF Control
<1>2. /\ UNCHANGED <<launch, co>>
      /\ \/ tc[1].do \in {"QK", "none"} /\ o' = o
         \/ tc[1].do = "PV1" /\ PV(tc[1], {"P1", "P"})
         \/ tc[1].do = "PV2" /\ PV(tc[1], {"P"})
  BY <1>1 DEF TensorCore
<1>3. Warps' = Warps
  BY <1>2 DEF Warps
<1>4. Rows(o, Stage, Warps) /\ DOMAIN o = Stage
  BY DEF OData, Rows
<1> SUFFICES /\ Rows(o', Stage, Warps)
             /\ \A h \in Stage, w \in Warps :
                  ORow(o'[h][w], h, OnStage(st[2].pv1, h), OnStage(st[2].pv2, h), Lets(launch, co[w], h))
  BY <1>2, <1>3 DEF OData, ORow
<1>5. CASE tc[1].do \in {"QK", "none"} /\ o' = o
  <2>1. st[1] \in Point /\ st[2] \in Point /\ Effect(st[1], tc[1], st[2])
    <3>1. st[1] \in Point /\ st[1 + 1] \in Point /\ Effect(st[1], tc[1], st[1 + 1])
      BY <1>1, InQueue
    <3> QED BY <3>1
  <2>2. st[2].pv1 = st[1].pv1 /\ st[2].pv2 = st[1].pv2
    BY <1>5, <2>1 DEF Effect, Adds, Point
  <2> QED BY <1>5, <2>2 DEF OData
<1>6. CASE tc[1].do \in {"PV1", "PV2"}
  <2>1. PICK g \in Stage, t \in 1 .. Len(launch.work), n \in Nat :
          HeadPV(st, g, t, n)
    BY <1>1, <1>6, PVHeadIs
  <2>2. PICK kinds : kinds = KindsOf(tc[1].do)
    OBVIOUS
  <2> DEFINE row(w) == Accumulated(o[g][w], sp[g][w], kv[tc[1].slot], kinds, tc[1].first)
  <2>3. o' = [o EXCEPT ![g] = [w \in Warps |-> row(w)]]
    <3>1. PV(tc[1], kinds)
      BY <1>2, <1>6, <2>2 DEF KindsOf
    <3>2. tc[1].g = g
      BY <2>1 DEF HeadPV
    <3> QED BY <3>1, <3>2 DEF PV
  <2>4. \A w \in Warps : ORow(row(w), g, OnStage(st[2].pv1, g), OnStage(st[2].pv2, g), Lets(launch, co[w], g))
    BY <1>1, <2>1, <2>2, PVRow
  <2> HIDE DEF row
  <2>5. /\ \A w \in Warps : o'[g][w] = row(w)
        /\ \A h \in Stage : h # g => o'[h] = o[h]
        /\ DOMAIN o' = Stage
    BY <1>4, <2>3
  <2>6. Rows(o', Stage, Warps)
    BY <1>4, <2>3 DEF Rows
  <2>7. ASSUME NEW h \in Stage, NEW w \in Warps, h # g
        PROVE  ORow(o'[h][w], h, OnStage(st[2].pv1, h), OnStage(st[2].pv2, h), Lets(launch, co[w], h))
    <3>1. OnStage(st[2].pv1, h) = OnStage(st[1].pv1, h) /\ OnStage(st[2].pv2, h) = OnStage(st[1].pv2, h)
      BY <2>1, <2>7 DEF HeadPV
    <3>2. ORow(o[h][w], h, OnStage(st[1].pv1, h), OnStage(st[1].pv2, h), Lets(launch, co[w], h))
      BY DEF OData
    <3> QED BY <2>5, <2>7, <3>1, <3>2
  <2> QED BY <2>4, <2>5, <2>6, <2>7
<1> QED BY <1>2, <1>5, <1>6

-----------------------------------------------------------------------------
(* O and the correction warps.                                             *)

\* A row of O for w on stage g after a step of w.
OFits(st, w, c, x, g) ==
    ORow(x, g, OnStage(st[1].pv1, g), OnStage(st[1].pv2, g), Lets(launch, c, g))

LEMMA OStep ==
    ASSUME NEW st, Control(st), OData(st[1]), NEW w \in Warps, NEW c, co' = [co EXCEPT ![w] = c],
           launch' = launch,
           \/ o' = o /\ \A g \in Stage : OFits(st, w, c, o[g][w], g)
           \/ \E g \in Stage : \E x : /\ o' = Put(o, g, w, x) /\ OFits(st, w, c, x, g)
                                      /\ \A h \in Stage : h # g => OFits(st, w, c, o[h][w], h)
    PROVE  OData(st[1])'
<1>1. co'[w] = c /\ \A v \in Warps : v # w => co'[v] = co[v]
  BY Update DEF Control, Corrections
<1>2. Warps' = Warps
  BY DEF Warps
<1>3. Rows(o, Stage, Warps)
  BY DEF OData
<1>4. /\ Rows(o', Stage, Warps)
      /\ \A g \in Stage : OFits(st, w, c, o'[g][w], g)
      /\ \A g \in Stage, v \in Warps : v # w => o'[g][v] = o[g][v]
  <2>1. CASE o' = o /\ \A g \in Stage : OFits(st, w, c, o[g][w], g)
    BY <1>3, <2>1
  <2>2. ASSUME NEW g \in Stage, NEW x, o' = Put(o, g, w, x), OFits(st, w, c, x, g),
               \A h \in Stage : h # g => OFits(st, w, c, o[h][w], h)
        PROVE  /\ Rows(o', Stage, Warps)
               /\ \A h \in Stage : OFits(st, w, c, o'[h][w], h)
               /\ \A h \in Stage, v \in Warps : v # w => o'[h][v] = o[h][v]
    <3>1. /\ Rows(o', Stage, Warps) /\ o'[g][w] = x
          /\ \A h \in Stage, v \in Warps : (h # g \/ v # w) => o'[h][v] = o[h][v]
      BY <1>3, <2>2, UpdateTwo
    <3> QED BY <2>2, <3>1
  <2> QED BY <2>1, <2>2
<1>5. ASSUME NEW g \in Stage, NEW v \in Warps
      PROVE  ORow(o'[g][v], g, OnStage(st[1].pv1, g), OnStage(st[1].pv2, g), Lets(launch, co'[v], g))
  <2>1. CASE v = w
    BY <1>1, <1>4, <2>1 DEF OFits
  <2>2. CASE v # w
    BY <1>1, <1>4, <2>2 DEF OData
  <2> QED BY <2>1, <2>2
<1> QED BY <1>2, <1>4, <1>5 DEF OData, ORow, OFits

\* The steps of a correction warp that let the MMA warp have nothing.
LEMMA LetsOf ==
    ASSUME NEW me, NEW c, NEW g \in Stage, c.tile = me.tile,
           \/ me.pc \in {"tile", "second"} /\ c.pc \in {"second", "done"}
           \/ me.pc = "tile" /\ c.pc = "tile"
           \/ me.pc \in AfterSteps /\ c.pc \in AfterSteps
           \/ me.pc = "second" /\ c.pc = "sum" /\ Half(launch, me.tile) = 1
           \/ me.pc = "second" /\ c.pc = "scale" /\ c.j = 0
           \/ me.pc = "scale" /\ c.pc = "rescale" /\ c.j = me.j
           \/ me.pc = "tile" /\ c.pc = "epi" /\ ~(Half(launch, me.tile) > 0)
    PROVE  Lets(launch, c, g) = Lets(launch, me, g)
<1> DEFINE L(d) == 1 + Steps(launch, d.tile)
                   + (IF d.pc \in {"scale", "rescale"} THEN OnStage(d.j, g)
                      ELSE IF d.pc \in AfterSteps /\ Half(launch, d.tile) > 0 THEN Half(launch, d.tile) - 1
                      ELSE 0)
<1>1. me.pc # "start" /\ c.pc # "start" /\ Lets(launch, me, g) = L(me) /\ Lets(launch, c, g) = L(c)
  BY DEF Lets, AfterSteps
<1>2. OnStage(0, g) = 0
  BY DEF OnStage, Stage
<1>3. L(c) = L(me)
  <2>1. CASE \/ me.pc \in {"tile", "second"} /\ c.pc \in {"second", "done"}
             \/ me.pc = "tile" /\ c.pc = "tile"
    BY <2>1 DEF AfterSteps
  <2>2. CASE me.pc \in AfterSteps /\ c.pc \in AfterSteps
    BY <2>2 DEF AfterSteps
  <2>3. CASE me.pc = "second" /\ c.pc = "sum" /\ Half(launch, me.tile) = 1
    BY <2>3 DEF AfterSteps
  <2>4. CASE me.pc = "second" /\ c.pc = "scale" /\ c.j = 0
    BY <1>2, <2>4 DEF AfterSteps
  <2>5. CASE me.pc = "scale" /\ c.pc = "rescale" /\ c.j = me.j
    BY <2>5 DEF AfterSteps
  <2>6. CASE me.pc = "tile" /\ c.pc = "epi" /\ ~(Half(launch, me.tile) > 0)
    BY <2>6 DEF AfterSteps
  <2> QED BY <2>1, <2>2, <2>3, <2>4, <2>5, <2>6
<1> QED BY <1>1, <1>3

\* Steps of a correction warp that do not let the MMA warp have more of O.
Quiet(w) ==
    \/ CorrectionFirst(w) \/ CorrectionScale(w) \/ CorrectionSum(w) \/ CorrectionWaitO(w)
    \/ CorrectionEmpty(w) \/ CorrectionStats(w) \/ CorrectionCombine(w) \/ CorrectionTail(w)

LEMMA QuietStep ==
    ASSUME NEW st, Control(st), OData(st[1]), NEW w \in Warps, Quiet(w)
    PROVE  OData(st[1])'
<1> DEFINE me == co[w]
<1>1. Registers /\ CorrectionRole(me) /\ CorrectionRegisters(me)
  BY CorrectionSees DEF CorrectionRole, CorrectionRegisters
<1>2. launch' = launch /\ o' = o
  BY DEF Quiet, CorrectionFirst, CorrectionScale, CorrectionSum, CorrectionWaitO, CorrectionEmpty,
         CorrectionStats, CorrectionCombine, CorrectionTail, memory
<1>3. ASSUME NEW c, co' = [co EXCEPT ![w] = c], \A g \in Stage : Lets(launch, c, g) = Lets(launch, me, g)
      PROVE  OData(st[1])'
  <2>1. \A g \in Stage : OFits(st, w, me, o[g][w], g)
    BY DEF OFits, OData
  <2>2. \A g \in Stage : OFits(st, w, c, o[g][w], g)
    BY <1>3, <2>1 DEF OFits
  <2> QED BY <1>2, <1>3, <2>2, OStep
<1>4. CASE CorrectionStats(w) \/ CorrectionCombine(w)
  <2>1. PICK p \in {"combine", "store"} : co' = [co EXCEPT ![w] = [me EXCEPT !.pc = p]] /\ me.pc \in {"epi", "combine"}
    BY <1>4 DEF CorrectionStats, CorrectionCombine
  <2> DEFINE c == [me EXCEPT !.pc = p]
  <2>2. c.tile = me.tile /\ c.pc = p
    BY <1>1 DEF CorrectionRegisters
  <2>3. me.pc \in AfterSteps /\ p \in AfterSteps
    BY <2>1 DEF AfterSteps
  <2>4. co' = [co EXCEPT ![w] = c]
    BY <2>1
  <2> HIDE DEF c
  <2>5. \A g \in Stage : Lets(launch, c, g) = Lets(launch, me, g)
    BY <2>2, <2>3, LetsOf
  <2> QED BY <1>3, <2>4, <2>5
<1>5. CASE CorrectionTail(w)
  <2> DEFINE c == [me EXCEPT !.pc = "done"]
  <2>1. me.pc = "tile" /\ co' = [co EXCEPT ![w] = c]
    BY <1>5 DEF CorrectionTail
  <2>2. c.tile = me.tile /\ c.pc = "done"
    BY <1>1 DEF CorrectionRegisters
  <2> HIDE DEF c
  <2>3. \A g \in Stage : Lets(launch, c, g) = Lets(launch, me, g)
    BY <2>1, <2>2, LetsOf
  <2> QED BY <1>3, <2>1, <2>3
<1>6. CASE CorrectionFirst(w)
  <2>0. me.tile \in Tiles /\ Tiles = 1 .. Len(launch.work) /\ N(me.tile) = 2 * Half(launch, me.tile)
        /\ Half(launch, me.tile) \in Nat
    <3>1. me.tile \in Tiles
      BY <1>6 DEF CorrectionFirst
    <3> QED BY <1>1, <3>1, Tile
  <2>1. \/ me.pc = "tile" /\ co' = [co EXCEPT ![w] = [me EXCEPT !.pc = "second"]]
        \/ \E p \in {"sum", "scale"} : /\ me.pc = "second" /\ co' = [co EXCEPT ![w] = [me EXCEPT !.pc = p, !.j = 0]]
                                       /\ p = "sum" => N(me.tile) = 2
    BY <1>6 DEF CorrectionFirst
  <2>2. CASE me.pc = "tile" /\ co' = [co EXCEPT ![w] = [me EXCEPT !.pc = "second"]]
    <3> DEFINE c == [me EXCEPT !.pc = "second"]
    <3>1. c.tile = me.tile /\ c.pc = "second" /\ co' = [co EXCEPT ![w] = c]
      BY <1>1, <2>2 DEF CorrectionRegisters
    <3> HIDE DEF c
    <3>2. \A g \in Stage : Lets(launch, c, g) = Lets(launch, me, g)
      BY <2>2, <3>1, LetsOf
    <3> QED BY <1>3, <3>1, <3>2
  <2>3. ASSUME NEW p \in {"sum", "scale"}, me.pc = "second", co' = [co EXCEPT ![w] = [me EXCEPT !.pc = p, !.j = 0]],
               p = "sum" => N(me.tile) = 2
        PROVE  OData(st[1])'
    <3> DEFINE c == [me EXCEPT !.pc = p, !.j = 0]
    <3>1. c.tile = me.tile /\ c.pc = p /\ c.j = 0 /\ co' = [co EXCEPT ![w] = c]
      BY <1>1, <2>3 DEF CorrectionRegisters
    <3> HIDE DEF c
    <3>2. p = "sum" => Half(launch, me.tile) = 1
      BY <2>0, <2>3
    <3>3. \A g \in Stage : Lets(launch, c, g) = Lets(launch, me, g)
      <4>1. CASE p = "sum"
        BY <2>3, <3>1, <3>2, <4>1, LetsOf
      <4>2. CASE p = "scale"
        BY <2>3, <3>1, <4>2, LetsOf
      <4> QED BY <4>1, <4>2
    <3> QED BY <1>3, <3>1, <3>3
  <2> QED BY <2>1, <2>2, <2>3
<1>7. CASE CorrectionScale(w)
  <2> DEFINE x == sScale[me.j % 2][w]
             c == [me EXCEPT !.pc = "rescale", !.scale = x]
  <2>1. me.pc = "scale" /\ co' = [co EXCEPT ![w] = c]
    BY <1>7 DEF CorrectionScale
  <2> HIDE DEF x
  <2>2. c.tile = me.tile /\ c.pc = "rescale" /\ c.j = me.j
    BY <1>1 DEF CorrectionRegisters
  <2> HIDE DEF c
  <2>3. \A g \in Stage : Lets(launch, c, g) = Lets(launch, me, g)
    BY <2>1, <2>2, LetsOf
  <2> QED BY <1>3, <2>1, <2>3
<1>8. CASE CorrectionSum(w)
  <2>1. PICK p \in {"oacc", "sum"} : \E k, j : co' = [co EXCEPT ![w] = [me EXCEPT !.ok = k, !.j = j, !.pc = p]]
    BY <1>8 DEF CorrectionSum
  <2>2. PICK k, j : co' = [co EXCEPT ![w] = [me EXCEPT !.ok = k, !.j = j, !.pc = p]]
    BY <2>1
  <2> DEFINE c == [me EXCEPT !.ok = k, !.j = j, !.pc = p]
  <2>3. c.tile = me.tile /\ c.pc = p /\ me.pc = "sum" /\ co' = [co EXCEPT ![w] = c]
    BY <1>1, <1>8, <2>2 DEF CorrectionRegisters, CorrectionSum
  <2> HIDE DEF c
  <2>4. me.pc \in AfterSteps /\ c.pc \in AfterSteps
    BY <2>1, <2>3 DEF AfterSteps
  <2>5. \A g \in Stage : Lets(launch, c, g) = Lets(launch, me, g)
    BY <2>3, <2>4, LetsOf
  <2> QED BY <1>3, <2>3, <2>5
<1>9. CASE CorrectionWaitO(w)
  <2>1. PICK p \in {"oacc", "epi"} : \E j : co' = [co EXCEPT ![w] = [me EXCEPT !.j = j, !.pc = p]]
    BY <1>9 DEF CorrectionWaitO
  <2>2. PICK j : co' = [co EXCEPT ![w] = [me EXCEPT !.j = j, !.pc = p]]
    BY <2>1
  <2> DEFINE c == [me EXCEPT !.j = j, !.pc = p]
  <2>3. c.tile = me.tile /\ c.pc = p /\ me.pc = "oacc" /\ co' = [co EXCEPT ![w] = c]
    BY <1>1, <1>9, <2>2 DEF CorrectionRegisters, CorrectionWaitO
  <2> HIDE DEF c
  <2>4. me.pc \in AfterSteps /\ c.pc \in AfterSteps
    BY <2>1, <2>3 DEF AfterSteps
  <2>5. \A g \in Stage : Lets(launch, c, g) = Lets(launch, me, g)
    BY <2>3, <2>4, LetsOf
  <2> QED BY <1>3, <2>3, <2>5
<1>10. CASE CorrectionEmpty(w)
  <2>1. PICK p \in {"epi", "tile"} : \E j : co' = [co EXCEPT ![w] = [me EXCEPT !.j = j, !.pc = p]]
    BY <1>10 DEF CorrectionEmpty
  <2>2. PICK j : co' = [co EXCEPT ![w] = [me EXCEPT !.j = j, !.pc = p]]
    BY <2>1
  <2> DEFINE c == [me EXCEPT !.j = j, !.pc = p]
  <2>3. c.tile = me.tile /\ c.pc = p /\ me.pc = "tile" /\ co' = [co EXCEPT ![w] = c]
    BY <1>1, <1>10, <2>2 DEF CorrectionRegisters, CorrectionEmpty
  <2> HIDE DEF c
  <2>4. ~(Half(launch, me.tile) > 0)
    <3>1. me.tile \in Tiles /\ ~HasWork(me.tile)
      BY <1>10 DEF CorrectionEmpty
    <3> QED BY <1>1, <3>1, Tile
  <2>5. \A g \in Stage : Lets(launch, c, g) = Lets(launch, me, g)
    <3>1. CASE p = "epi"
      BY <2>3, <2>4, <3>1, LetsOf
    <3>2. CASE p = "tile"
      BY <2>3, <3>2, LetsOf
    <3> QED BY <3>1, <3>2
  <2> QED BY <1>3, <2>3, <2>5
<1> QED BY <1>4, <1>5, <1>6, <1>7, <1>8, <1>9, <1>10 DEF Quiet

\* How far the tensor core is with O, against what a correction warp lets it have.
LEMMA OPoint ==
    ASSUME NEW st, Control(st), NEW g \in Stage, NEW w \in Warps
    PROVE  /\ OnStage(st[1].pv1, g) \in Nat /\ OnStage(st[1].pv2, g) \in Nat
           /\ OnStage(st[1].qk, g) \in Nat /\ Lets(launch, co[w], g) \in Nat
           /\ OnStage(st[1].pv2, g) <= OnStage(st[1].pv1, g)
           /\ OnStage(st[1].pv1, g) <= Lets(launch, co[w], g)
           /\ OnStage(st[1].qk, g) <= OnStage(st[1].pv2, g) + 1
<1>1. Registers /\ MmaRole /\ Queue(st) /\ launch \in Launches
  BY DEF Control, Registers
<1>2. /\ st[1] \in Point /\ Issued(launch, mm) \in Point /\ Placed(launch, st[1])
      /\ Ahead(st[1], Issued(launch, mm))
  BY <1>1, QueueFacts
<1>3. /\ st[1].qk \in Nat /\ st[1].pv1 \in Nat /\ st[1].pv2 \in Nat /\ Issued(launch, mm).pv1 \in Nat
      /\ st[1].pv1 <= Issued(launch, mm).pv1
  BY <1>2 DEF Point, Ahead
<1>4. st[1].qk <= st[1].pv2 + 2 /\ st[1].pv2 <= st[1].pv1
  BY <1>1, <1>2, PlacedFacts
<1>5. /\ OnStage(st[1].pv1, g) \in Nat /\ OnStage(st[1].pv2, g) \in Nat /\ OnStage(st[1].qk, g) \in Nat
      /\ OnStage(st[1].pv2 + 2, g) = OnStage(st[1].pv2, g) + 1
  BY <1>3, Alternate
<1>6. OnStage(st[1].pv2, g) <= OnStage(st[1].pv1, g)
  BY <1>3, <1>4, AlternateKeeps
<1>7. OnStage(st[1].qk, g) <= OnStage(st[1].pv2 + 2, g)
  <2>1. st[1].pv2 + 2 \in Nat
    BY <1>3
  <2> QED BY <1>3, <1>4, <2>1, AlternateKeeps
<1>8. /\ OnStage(st[1].pv1, g) <= OnStage(Issued(launch, mm).pv1, g)
  BY <1>3, AlternateKeeps
<1>9. /\ OnStage(Issued(launch, mm).pv1, g) <= PTaken(launch, mm, g)
      /\ OnStage(Issued(launch, mm).pv1, g) \in Nat /\ PTaken(launch, mm, g) \in Nat
  BY <1>1, StageCounts
<1>10. Lets(launch, co[w], g) \in Nat /\ PTaken(launch, mm, g) <= Lets(launch, co[w], g)
  BY MmaWaits
<1>11. OnStage(st[1].pv1, g) <= Lets(launch, co[w], g)
  BY <1>5, <1>8, <1>9, <1>10
<1> QED BY <1>5, <1>6, <1>7, <1>10, <1>11

\* The row of an O stage on which both parts of m steps of tile t are done.
LEMMA SettledRow ==
    ASSUME NEW l \in Launches, NEW t \in 1 .. Len(l.work), NEW m \in Nat, 0 < m, m <= Half(l, t),
           NEW g \in Stage, NEW L, NEW k, k = Steps(l, t) + m
    PROVE  /\ k > 0
           /\ AccOf(l, g, k - 1, k = k, L) =
                [tile |-> t, acc |-> Sums(l, t, g, m),
                 scaled |-> IF L - 1 - Steps(l, t) < Half(l, t) THEN L - 1 - Steps(l, t)
                            ELSE Half(l, t) - 1]
<1> DEFINE n == m - 1
           d == k = k
           z == IF L - 1 - Steps(l, t) < Half(l, t) THEN L - 1 - Steps(l, t) ELSE Half(l, t) - 1
<1>1. Steps(l, t) \in Nat /\ Half(l, t) \in Nat
  BY NextTile, LaunchFacts
<1>2. n \in Nat /\ n < Half(l, t) /\ k - 1 = Steps(l, t) + n /\ k > 0
  BY <1>1
<1>3. If(d) = 1 /\ n + 1 = m
  BY DEF If
<1> HIDE DEF n, d
<1>4. AccOf(l, g, k - 1, d, L) = [tile |-> t, acc |-> Sums(l, t, g, n + If(d)), scaled |-> z]
  BY <1>2, AccIs
<1>5. n + If(d) = m
  BY <1>3
<1>6. AccOf(l, g, k - 1, d, L) = [tile |-> t, acc |-> Sums(l, t, g, m), scaled |-> z]
  BY <1>4, <1>5
<1> QED BY <1>2, <1>6 DEF d

\* What O holds for w while the tensor core may not go on with it: m steps of tile t.
SettledAt(st, t, g, m) ==
    /\ OnStage(st[1].pv1, g) = Steps(launch, t) + m
    /\ OnStage(st[1].pv2, g) = Steps(launch, t) + m
Settled(t, g, m) == [tile |-> t, acc |-> Sums(launch, t, g, m), scaled |-> m - 1]

LEMMA OSettled ==
    ASSUME NEW st, Control(st), OData(st[1]), NEW g \in Stage, NEW w \in Warps,
           NEW t \in 1 .. Len(launch.work), NEW m \in Nat, 0 < m, m <= Half(launch, t),
           SettledAt(st, t, g, m), Lets(launch, co[w], g) = Steps(launch, t) + m
    PROVE  o[g][w] = Settled(t, g, m)
<1>1. launch \in Launches
  BY DEF Control, Registers
<1>2. Steps(launch, t) \in Nat /\ Half(launch, t) \in Nat
  BY <1>1, NextTile, LaunchFacts
<1> DEFINE k == Steps(launch, t) + m
           L == Lets(launch, co[w], g)
<1>3. ORow(o[g][w], g, k, k, L)
  BY DEF OData, SettledAt
<1>4. L - 1 - Steps(launch, t) = m - 1 /\ m - 1 < Half(launch, t)
  BY <1>2
<1>5. k > 0 /\ AccOf(launch, g, k - 1, k = k, L) =
                [tile |-> t, acc |-> Sums(launch, t, g, m),
                 scaled |-> IF L - 1 - Steps(launch, t) < Half(launch, t) THEN L - 1 - Steps(launch, t)
                            ELSE Half(launch, t) - 1]
  BY <1>1, SettledRow
<1> HIDE DEF k, L
<1>6. o[g][w] = AccOf(launch, g, k - 1, k = k, L)
  BY <1>3, <1>5 DEF ORow
<1> QED BY <1>4, <1>5, <1>6 DEF Settled

\* Such a row stays right when w has let the MMA warp have O once more.
LEMMA OSettles ==
    ASSUME NEW st, Control(st), NEW g \in Stage, NEW w \in Warps,
           NEW t \in 1 .. Len(launch.work), NEW m \in Nat, 0 < m, m <= Half(launch, t),
           SettledAt(st, t, g, m), NEW c, Lets(launch, c, g) = Steps(launch, t) + m + 1,
           NEW n, n = IF m < Half(launch, t) THEN m ELSE m - 1, NEW x,
           x = [tile |-> t, acc |-> Sums(launch, t, g, m), scaled |-> n]
    PROVE  OFits(st, w, c, x, g)
<1>1. launch \in Launches
  BY DEF Control, Registers
<1>2. Steps(launch, t) \in Nat /\ Half(launch, t) \in Nat
  BY <1>1, NextTile, LaunchFacts
<1> DEFINE k == Steps(launch, t) + m
           L == Lets(launch, c, g)
           z == IF L - 1 - Steps(launch, t) < Half(launch, t) THEN L - 1 - Steps(launch, t)
                ELSE Half(launch, t) - 1
<1>3. L - 1 - Steps(launch, t) = m
  BY <1>2
<1>4. z = n
  BY <1>2, <1>3
<1>5. k > 0 /\ AccOf(launch, g, k - 1, k = k, L) = [tile |-> t, acc |-> Sums(launch, t, g, m), scaled |-> z]
  BY <1>1, SettledRow
<1>6. OFits(st, w, c, x, g) <=> ORow(x, g, k, k, L)
  BY DEF OFits, SettledAt
<1> HIDE DEF k, L, z
<1>7. x = AccOf(launch, g, k - 1, k = k, L)
  BY <1>4, <1>5
<1> QED BY <1>6, <1>7 DEF ORow

\* At the end of a tile with work O holds all of its steps.
LEMMA OAtEnd ==
    ASSUME NEW st, Control(st), OData(st[1]), NEW g \in Stage, NEW w \in Warps,
           co[w].pc \in {"epi", "combine", "store"}, Half(launch, co[w].tile) > 0
    PROVE  /\ co[w].tile \in 1 .. Len(launch.work)
           /\ SettledAt(st, co[w].tile, g, Half(launch, co[w].tile))
           /\ o[g][w] = Settled(co[w].tile, g, Half(launch, co[w].tile))
<1> DEFINE me == co[w]
           t == me.tile
           h == Half(launch, t)
           s == Steps(launch, t)
<1>1. Registers /\ CorrectionRole(me) /\ MmaRole /\ Queue(st) /\ launch \in Launches
  BY CorrectionSees DEF Control, Registers
<1>2. t \in 1 .. Len(launch.work) /\ h \in Nat /\ s \in Nat /\ Works(launch, t) \in Nat
  <2>1. t \in 1 .. Len(launch.work)
    BY <1>1, Tile DEF CorrectionRole
  <2> QED BY <1>1, <2>1, NextTile, LaunchFacts
<1>3. Lets(launch, me, g) = s + h
  <2>1. Lets(launch, me, g) = 1 + s + (h - 1)
    BY DEF Lets, AfterSteps
  <2> HIDE DEF h, s, me
  <2> QED BY <1>2, <2>1
<1>4. OnStage(st[1].last, g) >= Works(launch, t) + 1
  <2>1. Waited(launch, me, g) = Works(launch, t) + 1
    BY DEF Waited, If
  <2>2. Waited(launch, me, g) <= OnStage(st[1].last, g)
    BY CorrectionSees
  <2> QED BY <2>1, <2>2
<1>5. OnStage(st[1].pv2, g) >= s + h
  <2>1. Placed(launch, st[1])
    BY <1>1, QueueFacts
  <2> QED BY <1>1, <1>2, <1>4, <2>1, LastMeansAll
<1>6. OnStage(st[1].pv1, g) = s + h /\ OnStage(st[1].pv2, g) = s + h
  <2>1. /\ OnStage(st[1].pv1, g) \in Nat /\ OnStage(st[1].pv2, g) \in Nat
        /\ OnStage(st[1].pv2, g) <= OnStage(st[1].pv1, g)
        /\ OnStage(st[1].pv1, g) <= Lets(launch, me, g)
    BY OPoint
  <2> HIDE DEF s, h, me
  <2> QED BY <1>2, <1>3, <1>5, <2>1
<1>7. SettledAt(st, t, g, h)
  BY <1>6 DEF SettledAt
<1>8. 0 < h /\ h <= h
  BY <1>2
<1> HIDE DEF s, h, t
<1>9. o[g][w] = Settled(t, g, h)
  BY <1>2, <1>3, <1>7, <1>8, OSettled DEF s, h
<1> QED BY <1>2, <1>7, <1>9 DEF h, t

LEMMA StartO ==
    ASSUME NEW st, Control(st), OData(st[1]), NEW w \in Warps, CorrectionStart(w)
    PROVE  OData(st[1])'
<1> DEFINE me == co[w]
           c == [me EXCEPT !.pc = "tile"]
<1>1. launch' = launch /\ o' = o /\ co' = [co EXCEPT ![w] = c] /\ me.pc = "start"
  BY DEF CorrectionStart, memory
<1>2. ASSUME NEW g \in Stage PROVE OFits(st, w, c, o[g][w], g)
  <2>1. Lets(launch, me, g) = 0
    BY <1>1 DEF Lets
  <2>2. OnStage(st[1].pv1, g) \in Nat /\ OnStage(st[1].pv1, g) <= Lets(launch, me, g)
    BY OPoint
  <2> HIDE DEF me, c
  <2>3. ~(OnStage(st[1].pv1, g) > 0)
    BY <2>1, <2>2
  <2> QED BY <2>3 DEF OFits, ORow
<1> HIDE DEF c
<1> QED BY <1>1, <1>2, OStep

LEMMA StoreO ==
    ASSUME NEW st, Control(st), OData(st[1]), NEW w \in Warps, CorrectionStore(w)
    PROVE  OData(st[1])'
<1> DEFINE me == co[w]
           t == me.tile
           h == Half(launch, t)
           s == Steps(launch, t)
           c == [me EXCEPT !.pc = "tile", !.tile = t + 1, !.ok = TRUE, !.epi = 1 - me.epi,
                           !.oacc = IF HasWork(t) THEN 1 - me.oacc ELSE me.oacc]
<1>1. Registers /\ CorrectionRole(me) /\ CorrectionRegisters(me) /\ launch \in Launches
  BY CorrectionSees DEF CorrectionRole, CorrectionRegisters, Registers
<1>2. launch' = launch /\ o' = o /\ co' = [co EXCEPT ![w] = c] /\ me.pc = "store"
  BY DEF CorrectionStore
<1>3. c.tile = t + 1 /\ c.pc = "tile"
  BY <1>1 DEF CorrectionRegisters
<1> HIDE DEF c
<1>4. t \in 1 .. Len(launch.work) /\ h \in Nat /\ s \in Nat /\ Steps(launch, t + 1) = s + h
  <2>1. t \in 1 .. Len(launch.work)
    BY <1>1, <1>2, Tile DEF CorrectionRole
  <2> QED BY <1>1, <2>1, NextTile, LaunchFacts
<1>5. ASSUME NEW g \in Stage PROVE OFits(st, w, c, o[g][w], g)
  <2>1. Lets(launch, c, g) = s + h + 1
    <3>1. Lets(launch, c, g) = 1 + (s + h) + 0
      BY <1>3, <1>4 DEF Lets, AfterSteps
    <3> HIDE DEF s, h
    <3> QED BY <1>4, <3>1
  <2>2. CASE h > 0
    <3>1. SettledAt(st, t, g, h) /\ o[g][w] = Settled(t, g, h)
      BY <1>2, <2>2, OAtEnd
    <3>2. 0 < h /\ h <= h /\ h - 1 = IF h < Half(launch, t) THEN h ELSE h - 1
      BY <1>4, <2>2
    <3>3. o[g][w] = [tile |-> t, acc |-> Sums(launch, t, g, h), scaled |-> h - 1]
      BY <3>1 DEF Settled
    <3> DEFINE n == h - 1
               x == o[g][w]
    <3> HIDE DEF n, x, h, t, s
    <3>4. OFits(st, w, c, x, g)
      BY <1>4, <2>1, <3>1, <3>2, <3>3, OSettles DEF n, x, s, h
    <3> QED BY <3>4 DEF x
  <2>3. CASE ~(h > 0)
    <3>1. h = 0
      BY <1>4, <2>3
    <3>2. Lets(launch, me, g) = 1 + s + 0
      BY <1>2, <2>3 DEF Lets, AfterSteps
    <3>3. Lets(launch, c, g) = Lets(launch, me, g)
      <4> HIDE DEF s, h, me
      <4> QED BY <1>4, <2>1, <3>1, <3>2
    <3> QED BY <3>3 DEF OFits, OData
  <2> QED BY <2>2, <2>3
<1> QED BY <1>2, <1>5, OStep

LEMMA RescaleO ==
    ASSUME NEW st, Control(st), CorrectionData, OData(st[1]), NEW w \in Warps, CorrectionRescale(w)
    PROVE  OData(st[1])'
<1> DEFINE me == co[w]
           g == me.j % 2
           a == me.j \div 2
           last == me.j + 1 = N(me.tile) - 2
           c == IF last THEN [me EXCEPT !.pc = "sum", !.j = 0]
                ELSE [me EXCEPT !.pc = "scale", !.j = me.j + 1]
           t == me.tile
           h == Half(launch, t)
           s == Steps(launch, t)
           x == [o[g][w] EXCEPT !.scaled = a + 1]
<1>1. Registers /\ CorrectionRole(me) /\ CorrectionRegisters(me) /\ launch \in Launches
  BY CorrectionSees DEF CorrectionRole, CorrectionRegisters, Registers
<1>2. /\ me.pc = "rescale" /\ t \in 1 .. Len(launch.work) /\ h > 0 /\ me.j < 2 * h - 2 /\ me.j \in Nat
      /\ s \in Nat /\ h \in Nat /\ N(t) = 2 * h
  <2>1. me.pc = "rescale" /\ t \in 1 .. Len(launch.work) /\ h > 0 /\ me.j < 2 * h - 2 /\ me.j \in Nat
    BY <1>1, Tile DEF CorrectionRescale, CorrectionRole
  <2> QED BY <1>1, <2>1, Tile
<1>3. me.scale = [k |-> "scale", tile |-> t, n |-> a + 1]
  BY <1>2 DEF CorrectionData, CorrectionRow
<1>4. /\ launch' = launch /\ co' = [co EXCEPT ![w] = c]
      /\ o' = [o EXCEPT ![g][w].scaled = IF me.scale.k = "scale" /\ me.scale.tile = t
                                         THEN me.scale.n ELSE Broken]
  <2>1. CASE last
    BY <2>1 DEF CorrectionRescale
  <2>2. CASE ~last
    BY <2>2, Zenon DEF CorrectionRescale
  <2> QED BY <2>1, <2>2
<1>5. /\ g \in Stage /\ a \in Nat /\ me.j = 2 * a + g
      /\ OnStage(me.j, g) = a /\ OnStage(me.j, 1 - g) = a + g
      /\ OnStage(me.j + 1, g) = a + 1 /\ OnStage(me.j + 1, 1 - g) = a + g
  BY <1>2, OwnStage
<1>6. g \in {0, 1} /\ 1 - g \in Stage /\ (\A i \in Stage : i = g \/ i = 1 - g)
  BY <1>5 DEF Stage
<1>7. a + 1 < h /\ (last => g = 1 /\ a = h - 2)
  <2>1. last <=> me.j + 1 = 2 * h - 2
    BY <1>2
  <2> HIDE DEF g, a, h, last, me
  <2>2. CASE g = 0
    BY <1>2, <1>5, <2>1, <2>2
  <2>3. CASE g = 1
    BY <1>2, <1>5, <2>1, <2>3
  <2> QED BY <1>6, <2>2, <2>3
<1>8. c.tile = t /\ c.pc = (IF last THEN "sum" ELSE "scale") /\ c.j = (IF last THEN 0 ELSE me.j + 1)
  <2>1. CASE last
    <3>1. c = [me EXCEPT !.pc = "sum", !.j = 0]
      BY <2>1
    <3> QED BY <1>1, <2>1, <3>1 DEF CorrectionRegisters
  <2>2. CASE ~last
    <3>1. c = [me EXCEPT !.pc = "scale", !.j = me.j + 1]
      BY <2>2
    <3> QED BY <1>1, <2>2, <3>1 DEF CorrectionRegisters
  <2> QED BY <2>1, <2>2
<1> HIDE DEF c
<1>9. /\ Lets(launch, me, g) = 1 + s + a /\ Lets(launch, me, 1 - g) = 1 + s + (a + g)
      /\ Lets(launch, c, g) = 1 + s + (a + 1) /\ Lets(launch, c, 1 - g) = 1 + s + (a + g)
  <2>1. /\ Lets(launch, me, g) = 1 + s + OnStage(me.j, g)
        /\ Lets(launch, me, 1 - g) = 1 + s + OnStage(me.j, 1 - g)
    BY <1>2 DEF Lets
  <2>2. CASE last
    <3>1. /\ Lets(launch, c, g) = 1 + s + (h - 1) /\ Lets(launch, c, 1 - g) = 1 + s + (h - 1)
      BY <1>2, <1>8, <2>2 DEF Lets, AfterSteps
    <3>2. h - 1 = a + 1 /\ a + g = h - 1
      <4>1. g = 1 /\ a = h - 2 /\ h \in Nat
        BY <1>2, <1>7, <2>2
      <4> HIDE DEF g, a, h
      <4> QED BY <1>5, <4>1
    <3> QED BY <1>5, <2>1, <3>1, <3>2
  <2>3. CASE ~last
    <3>1. /\ Lets(launch, c, g) = 1 + s + OnStage(me.j + 1, g)
          /\ Lets(launch, c, 1 - g) = 1 + s + OnStage(me.j + 1, 1 - g)
      BY <1>8, <2>3 DEF Lets
    <3> QED BY <1>5, <2>1, <3>1
  <2> QED BY <2>2, <2>3
<1>10. OnStage(st[1].pv1, g) = s + (a + 1) /\ OnStage(st[1].pv2, g) = s + (a + 1)
  <2>1. Lets(launch, me, g) + 1 <= OnStage(st[1].qk, g)
    BY <1>2, <1>5, RescaleAhead
  <2>2. /\ OnStage(st[1].pv1, g) \in Nat /\ OnStage(st[1].pv2, g) \in Nat /\ OnStage(st[1].qk, g) \in Nat
        /\ OnStage(st[1].pv2, g) <= OnStage(st[1].pv1, g)
        /\ OnStage(st[1].pv1, g) <= Lets(launch, me, g)
        /\ OnStage(st[1].qk, g) <= OnStage(st[1].pv2, g) + 1
    BY <1>5, OPoint
  <2> DEFINE L == Lets(launch, me, g)
  <2>3. L = 1 + s + a
    BY <1>9
  <2> HIDE DEF s, a, g, me, L
  <2> QED BY <1>2, <1>5, <2>1, <2>2, <2>3 DEF L
<1> DEFINE m == a + 1
<1>11. /\ m \in Nat /\ 0 < m /\ m <= h /\ SettledAt(st, t, g, m)
       /\ Lets(launch, me, g) = s + m /\ Lets(launch, c, g) = s + m + 1
  <2>1. m \in Nat /\ 0 < m /\ m <= h
    <3>1. a \in Nat /\ h \in Nat /\ a + 1 < h
      BY <1>2, <1>5, <1>7
    <3> HIDE DEF a, h
    <3> QED BY <3>1
  <2>2. SettledAt(st, t, g, m)
    BY <1>10 DEF SettledAt
  <2>3. 1 + s + a = s + m /\ 1 + s + (a + 1) = s + m + 1
    <3>1. a \in Nat /\ s \in Nat
      BY <1>2, <1>5
    <3> HIDE DEF a, s
    <3> QED BY <3>1
  <2> QED BY <1>9, <2>1, <2>2, <2>3
<1> HIDE DEF m
<1>12. o[g][w] = Settled(t, g, m)
  <2>1. /\ t \in 1 .. Len(launch.work) /\ m \in Nat /\ 0 < m /\ m <= Half(launch, t)
        /\ SettledAt(st, t, g, m) /\ Lets(launch, co[w], g) = Steps(launch, t) + m /\ g \in Stage
    BY <1>2, <1>5, <1>11
  <2> HIDE DEF x, t, h, s, g
  <2> QED BY <2>1, OSettled
<1>13. x = [tile |-> t, acc |-> Sums(launch, t, g, m), scaled |-> m]
  BY <1>12 DEF Settled, m
<1>14. o' = Put(o, g, w, x)
  <2>1. me.scale.k = "scale" /\ me.scale.tile = t /\ me.scale.n = a + 1
    BY <1>3
  <2>2. o' = [o EXCEPT ![g][w].scaled = a + 1]
    BY <1>4, <2>1
  <2> QED BY <2>2 DEF Put
<1>15. OFits(st, w, c, x, g)
  <2>1. m = IF m < Half(launch, t) THEN m ELSE m - 1
    BY <1>7 DEF m
  <2> HIDE DEF x, t, h, s, g
  <2> QED BY <1>2, <1>5, <1>11, <1>13, <2>1, OSettles DEF h, s
<1>16. \A i \in Stage : i # g => OFits(st, w, c, o[i][w], i)
  <2> SUFFICES ASSUME NEW i \in Stage, i # g PROVE OFits(st, w, c, o[i][w], i)
    OBVIOUS
  <2>1. Lets(launch, c, i) = Lets(launch, me, i)
    BY <1>6, <1>9
  <2> QED BY <2>1 DEF OFits, OData
<1> HIDE DEF x, g
<1> QED BY <1>4, <1>5, <1>14, <1>15, <1>16, OStep

LEMMA CorrectionO ==
    ASSUME NEW st, Control(st), CorrectionData, OData(st[1]), NEW w \in Warps, Correction(w)
    PROVE  OData(st[1])'
<1>1. CASE Quiet(w)
  BY <1>1, QuietStep
<1>2. CASE CorrectionStart(w)
  BY <1>2, StartO
<1>3. CASE CorrectionRescale(w)
  BY <1>3, RescaleO
<1>4. CASE CorrectionStore(w)
  BY <1>4, StoreO
<1> QED BY <1>1, <1>2, <1>3, <1>4 DEF Correction, Quiet

LEMMA OStepKept ==
    ASSUME NEW st, Control(st), CorrectionData, KvData(st[1]), SpData(st[1]), OData(st[1]), [Next]_vars,
           NEW e, Reaches(st, e)
    PROVE  OData(e)'
<1>1. CASE TensorCore
  <2>1. e = st[2]
    BY <1>1 DEF Reaches
  <2> QED BY <1>1, <2>1, TensorCoreO
<1>2. CASE ~TensorCore
  <2>1. e = st[1]
    BY <1>2 DEF Reaches
  <2>2. ASSUME UNCHANGED <<launch, co, o>> PROVE OData(e)'
    BY <2>1, <2>2 DEF OData, ORow, Rows, Warps, Stage
  <2>3. CASE \E w \in Warps : Correction(w)
    BY <2>1, <2>3, CorrectionO
  <2>4. CASE Mma
    <3>1. UNCHANGED <<launch, co, o>>
      BY <2>4 DEF Mma, MmaQ, MmaSkip, MmaS, MmaSpo, MmaV, MmaPv, MmaK, MmaFree, memory
    <3> QED BY <2>2, <3>1
  <2>5. CASE \E g \in Stage, w \in Warps : Softmax(g, w)
    <3>1. UNCHANGED <<launch, co, o>>
      BY <2>5 DEF Softmax, SoftmaxTile, SoftmaxScore, SoftmaxScale, SoftmaxP1, SoftmaxP2, SoftmaxSum,
                  SoftmaxTail, memory
    <3> QED BY <2>2, <3>1
  <2>6. CASE Load \/ Epilogue \/ (\E c \in inflight : Land(c)) \/ UNCHANGED vars
    <3>1. UNCHANGED <<launch, co, o>>
      BY <2>6 DEF Load, LoadQ, LoadKV, LoadSkip, LoadEpi, LoadTail, Epilogue, EpilogueStore,
                  EpilogueSignal, Land, memory, vars
    <3> QED BY <2>2, <3>1
  <2> QED BY <1>2, <2>3, <2>4, <2>5, <2>6 DEF Next, Terminating
<1> QED BY <1>1, <1>2

OInvariant ==
    \E st : Control(st) /\ QData /\ KvData(st[1]) /\ ScaleData /\ SpData(st[1]) /\ OData(st[1])

LEMMA OHolds == Spec => []OInvariant
<1>1. Init => OInvariant
  <2> SUFFICES ASSUME Init PROVE OInvariant
    OBVIOUS
  <2>1. PICK st : Control(st) /\ QData /\ KvData(st[1]) /\ ScaleData /\ SpData(st[1])
    BY ScoresStart DEF ScoresInvariant
  <2>2. OData(st[1])
    <3>1. Rows(o, Stage, Warps)
      BY DEF Init, Rows
    <3>2. ASSUME NEW g \in Stage, NEW w \in Warps PROVE OnStage(st[1].pv1, g) = 0
      <4>1. Lets(launch, co[w], g) = 0
        BY DEF Init, Lets
      <4>2. OnStage(st[1].pv1, g) \in Nat /\ OnStage(st[1].pv1, g) <= Lets(launch, co[w], g)
        BY <2>1, OPoint
      <4> QED BY <4>1, <4>2
    <3> QED BY <3>1, <3>2 DEF OData, ORow
  <2> QED BY <2>1, <2>2 DEF OInvariant
<1>2. CorrectionData /\ OInvariant /\ [Next]_vars => OInvariant'
  <2> SUFFICES ASSUME CorrectionData, OInvariant, [Next]_vars PROVE OInvariant'
    OBVIOUS
  <2>1. PICK st : Control(st) /\ QData /\ KvData(st[1]) /\ ScaleData /\ SpData(st[1]) /\ OData(st[1])
    BY DEF OInvariant
  <2>2. PICK s : Control(s)' /\ Reaches(st, s[1])
    BY <2>1, ControlReaches
  <2>3. QData' /\ KvData(s[1])'
    BY <2>1, <2>2, OperandsStep
  <2>4. ScaleData' /\ SpData(s[1])'
    BY <2>1, <2>2, ScoresStep
  <2>5. OData(s[1])'
    BY <2>1, <2>2, OStepKept
  <2> QED BY <2>2, <2>3, <2>4, <2>5 DEF OInvariant
<1> QED BY <1>1, <1>2, CorrectionDataHolds, PTL DEF Spec

-----------------------------------------------------------------------------
(* What the epilogue's buffers hold.                                        *)

\* The warp that writes w's rows of the O tile.
DrainedBy(w) == IF launch.fp8 THEN w ELSE Leader
Combined(c) == c.pc \in {"combine", "store"}
ExchangeData ==
    /\ oStats = [w \in Warps |-> co[w].tile - If(~Combined(co[w]))]
    /\ \A v, w \in Warps : Reduced(co[v]) >= 2 * (co[w].tile - 1)
    /\ exch = [w \in Warps |-> exch[w]]
    /\ \A v, w \in Warps :
         (co[w].pc = "store" /\ Reduced(co[v]) >= 2 * co[w].tile) => exch[v] = co[w].tile
OTileData ==
    /\ sO = [w \in Warps |-> sO[w]]
    /\ \A w \in Warps : co[DrainedBy(w)].tile - 1 > OStored(ep) => sO[w] = OStored(ep) + 1
OutData ==
    out = [t \in Tiles |-> [w \in Warps |-> IF t <= OStored(ep) THEN t ELSE 0]]

LEMMA LeaderDrains ==
    ASSUME launch \in Launches
    PROVE  /\ Leader \in Warps /\ \A w \in Warps : DrainedBy(w) \in Warps
           /\ \A v, w \in Warps : v \in Drains(w) <=> DrainedBy(v) = w
<1>1. \E w \in Warps : TRUE
  BY LaunchFacts DEF Warps
<1>2. Leader \in Warps
  BY <1>1 DEF Leader
<1> QED BY <1>2 DEF DrainedBy, Drains

LEMMA SameLeader ==
    ASSUME launch' = launch
    PROVE  Warps' = Warps /\ \A w : DrainedBy(w)' = DrainedBy(w)
<1>1. Warps' = Warps
  BY DEF Warps
<1>2. Leader' = Leader
  BY <1>1 DEF Leader
<1> QED BY <1>1, <1>2 DEF DrainedBy

\* The registers of the correction warps these say something about.
SameTurn(c, d) == d.tile = c.tile /\ (d.pc = "store" <=> c.pc = "store") /\ (Combined(d) <=> Combined(c))

LEMMA TurnCounts ==
    ASSUME NEW c, NEW d, SameTurn(c, d)
    PROVE  Reduced(d) = Reduced(c) /\ d.tile - If(~Combined(d)) = c.tile - If(~Combined(c))
<1>1. If(~Combined(d)) = If(~Combined(c)) /\ If(Combined(d)) = If(Combined(c)) /\ If(d.pc = "store") = If(c.pc = "store")
  BY DEF SameTurn, If
<1>2. Reduced(d) = 2 * (d.tile - 1) + If(Combined(d)) + If(d.pc = "store")
      /\ Reduced(c) = 2 * (c.tile - 1) + If(Combined(c)) + If(c.pc = "store")
  BY DEF Reduced, Combined
<1> QED BY <1>1, <1>2 DEF SameTurn

LEMMA ExchangeKept ==
    ASSUME ExchangeData, \A v \in Warps : SameTurn(co[v], co'[v]), UNCHANGED <<launch, oStats>>,
           \/ exch' = exch
           \/ exch' = [v \in Warps |-> exch'[v]] /\ \A v \in Warps : co[v].pc # "store"
    PROVE  ExchangeData'
<1>1. Warps' = Warps
  BY DEF Warps
<1>2. \A v \in Warps : /\ Reduced(co[v])' = Reduced(co[v]) /\ co'[v].tile = co[v].tile
                       /\ co'[v].tile - If(~Combined(co'[v])) = co[v].tile - If(~Combined(co[v]))
                       /\ co'[v].pc = "store" <=> co[v].pc = "store"
  <2> SUFFICES ASSUME NEW v \in Warps
               PROVE  /\ Reduced(co[v])' = Reduced(co[v]) /\ co'[v].tile = co[v].tile
                      /\ co'[v].tile - If(~Combined(co'[v])) = co[v].tile - If(~Combined(co[v]))
                      /\ co'[v].pc = "store" <=> co[v].pc = "store"
    OBVIOUS
  <2>1. Reduced(co[v])' = Reduced(co'[v])
    BY DEF Reduced
  <2> QED BY <2>1, TurnCounts DEF SameTurn
<1>3. oStats' = [w \in Warps' |-> co'[w].tile - If(~Combined(co'[w]))]
  BY <1>1, <1>2 DEF ExchangeData
<1>4. \A v, w \in Warps' : Reduced(co[v])' >= 2 * (co'[w].tile - 1)
  BY <1>1, <1>2 DEF ExchangeData
<1>5. exch' = [w \in Warps' |-> exch'[w]]
  BY <1>1 DEF ExchangeData
<1>6. \A v, w \in Warps' :
         (co'[w].pc = "store" /\ Reduced(co[v])' >= 2 * co'[w].tile) => exch'[v] = co'[w].tile
  BY <1>1, <1>2 DEF ExchangeData
<1> QED BY <1>3, <1>4, <1>5, <1>6 DEF ExchangeData

LEMMA OTileKept ==
    ASSUME launch \in Launches, OTileData, \A v \in Warps : co'[v].tile = co[v].tile,
           launch' = launch, OStored(ep)' = OStored(ep),
           \/ sO' = sO
           \/ sO' = [v \in Warps |-> sO'[v]] /\ \A v \in Warps : ~(co[v].tile - 1 > OStored(ep))
    PROVE  OTileData'
<1>1. Warps' = Warps /\ \A w \in Warps : DrainedBy(w)' = DrainedBy(w) /\ DrainedBy(w) \in Warps
  BY SameLeader, LeaderDrains
<1>2. sO' = [w \in Warps' |-> sO'[w]]
  BY <1>1 DEF OTileData
<1>3. \A w \in Warps' : co'[DrainedBy(w)'].tile - 1 > OStored(ep)' => sO'[w] = OStored(ep)' + 1
  BY <1>1 DEF OTileData
<1> QED BY <1>2, <1>3 DEF OTileData

LEMMA OutKept ==
    ASSUME OutData, UNCHANGED <<launch, out>>, OStored(ep)' = OStored(ep)
    PROVE  OutData'
  BY DEF OutData, Tiles, Warps

\* While the epilogue's buffers are in use no copy is on its way to the ring.
InEpilogue(w) == co[w].pc = "store" \/ co[w].tile - 1 > OStored(ep)
RingFree == (AliasEpilogue /\ \E w \in Warps : InEpilogue(w)) => \A c \in inflight : c.to # "KV"

LEMMA RingOwned ==
    ASSUME NEW st, Control(st)
    PROVE  RingFree
<1> SUFFICES ASSUME AliasEpilogue, NEW w \in Warps, InEpilogue(w), NEW c \in inflight, c.to = "KV"
             PROVE  FALSE
  BY DEF RingFree
<1>1. Registers /\ CorrectionRole(co[w]) /\ launch \in Launches /\ InFlight /\ Len(launch.work) \in Nat
  BY CorrectionSees, LaunchFacts DEF Control, Registers
<1>2. KvLoads(ld) = mm.kv
  <2>1. CASE co[w].pc = "store"
    <3>1. OStored(ep) = co[w].tile - 1
      BY <2>1, CorrectionSees
    <3>2. /\ co[w].tile \in 1 .. Len(launch.work)
          /\ Waited(launch, co[w], 1) >= Works(launch, co[w].tile + 1)
      BY <2>1, WaitedTile
    <3>3. ep.tile <= co[w].tile
      <4>1. ep.tile \in Nat
        BY EpilogueSees
      <4> QED BY <3>1, <3>2, <4>1 DEF OStored, If
    <3>4. PICK t \in 1 .. Len(launch.work) : t = co[w].tile
      BY <3>2
    <3>5. ep.tile <= t /\ Waited(launch, co[w], 1) >= Works(launch, t + 1)
      BY <3>2, <3>3, <3>4
    <3> QED BY <3>5, RingIsFree
  <2>2. CASE co[w].tile - 1 > OStored(ep)
    <3>1. /\ ep.tile \in Nat /\ co[w].tile \in Nat /\ co[w].tile \in 1 .. Len(launch.work) + 1
          /\ OStored(ep) \in Nat /\ ep.tile >= 1
      BY <1>1, EpilogueSees DEF CorrectionRole
    <3>2. ep.tile <= co[w].tile - 1
      BY <2>2, <3>1 DEF OStored, If
    <3>3. PICK t \in 1 .. Len(launch.work) : t = co[w].tile - 1
      BY <1>1, <3>1, <3>2
    <3>4. ep.tile <= t /\ co[w].tile = t + 1
      BY <3>1, <3>2, <3>3
    <3>5. Waited(launch, co[w], 1) >= Works(launch, t + 1)
      BY <3>4, WaitedTile
    <3> QED BY <3>4, <3>5, RingIsFree
  <2> QED BY <2>1, <2>2 DEF InEpilogue
<1>3. ~\E i \in mm.kv .. KvLoads(ld) - 1 : TRUE
  <2>1. mm.kv \in Nat
    BY LoadSees
  <2> QED BY <1>2, <2>1
<1>4. \E t : c = QCopy(t)
  BY <1>1, <1>3 DEF InFlight
<1> QED BY <1>4 DEF QCopy

LEMMA RingFreeHolds == Spec => []RingFree
<1>1. ControlInvariant => RingFree
  BY RingOwned DEF ControlInvariant
<1> QED BY <1>1, ControlHolds, PTL

\* A copy to the ring starts or lands: nothing of the epilogue is there.
LEMMA OverwriteKeeps ==
    ASSUME launch \in Launches, ExchangeData, OTileData, NEW s, Overwrite(s),
           UNCHANGED <<launch, co, ep, oStats>>,
           AliasEpilogue => \A w \in Warps : ~InEpilogue(w)
    PROVE  ExchangeData' /\ OTileData'
<1>1. OStored(ep)' = OStored(ep) /\ \A v \in Warps : SameTurn(co[v], co'[v]) /\ co'[v].tile = co[v].tile
  BY DEF OStored, SameTurn
<1>2. exch' = exch \/ (exch' = [v \in Warps |-> exch'[v]] /\ \A v \in Warps : co[v].pc # "store")
  BY DEF Overwrite, InEpilogue
<1>3. sO' = sO \/ (sO' = [v \in Warps |-> sO'[v]] /\ \A v \in Warps : ~(co[v].tile - 1 > OStored(ep)))
  BY DEF Overwrite, InEpilogue
<1> QED BY <1>1, <1>2, <1>3, ExchangeKept, OTileKept

LEMMA LoadOverwrites ==
    ASSUME launch \in Launches, RingFree', ExchangeData, OTileData, LoadKV
    PROVE  ExchangeData' /\ OTileData'
<1>1. /\ UNCHANGED <<launch, co, ep, oStats>> /\ \E c \in inflight' : c.to = "KV"
      /\ Overwrite(IndexOf(ld.kv))
  <2> DEFINE copy == [to |-> "KV", slot |-> IndexOf(ld.kv),
                      tag |-> Tag(LoadItem(N(ld.tile), ld.j).k, ld.tile, LoadItem(N(ld.tile), ld.j).grp)]
  <2>1. /\ UNCHANGED <<launch, co, ep, oStats>> /\ inflight' = inflight \cup {copy}
        /\ Overwrite(IndexOf(ld.kv))
    BY DEF LoadKV
  <2>2. copy.to = "KV"
    OBVIOUS
  <2> HIDE DEF copy
  <2>3. copy \in inflight'
    BY <2>1
  <2> QED BY <2>1, <2>2, <2>3
<1>2. AliasEpilogue => \A w \in Warps : ~InEpilogue(w)
  <2>1. AliasEpilogue' = AliasEpilogue /\ Warps' = Warps /\ \A w : InEpilogue(w)' <=> InEpilogue(w)
    BY <1>1 DEF AliasEpilogue, Warps, InEpilogue, OStored
  <2> QED BY <1>1, <2>1 DEF RingFree
<1> QED BY <1>1, <1>2, OverwriteKeeps

LEMMA LandOverwrites ==
    ASSUME NEW st, Control(st), RingFree, ExchangeData, OTileData, NEW c \in inflight, Land(c)
    PROVE  ExchangeData' /\ OTileData'
<1>1. launch \in Launches /\ InFlight
  BY DEF Control, Registers
<1>2. c.to = "KV" \/ c.to = "Q"
  BY <1>1 DEF InFlight, KvCopy, QCopy
<1>3. UNCHANGED <<launch, co, ep, oStats>>
  BY DEF Land
<1>4. CASE c.to = "Q"
  <2>1. UNCHANGED <<exch, sO>>
    BY <1>4 DEF Land
  <2>2. OStored(ep)' = OStored(ep) /\ \A v \in Warps : SameTurn(co[v], co'[v]) /\ co'[v].tile = co[v].tile
    BY <1>3 DEF OStored, SameTurn
  <2> QED BY <1>1, <1>3, <2>1, <2>2, ExchangeKept, OTileKept
<1>5. CASE c.to = "KV"
  <2>1. Overwrite(c.slot)
    BY <1>5 DEF Land
  <2>2. AliasEpilogue => \A w \in Warps : ~InEpilogue(w)
    BY <1>5 DEF RingFree
  <2> QED BY <1>1, <1>3, <2>1, <2>2, OverwriteKeeps
<1> QED BY <1>2, <1>4, <1>5

\* A correction warp that neither exchanges statistics nor stores.
LEMMA TurnsKeep ==
    ASSUME launch \in Launches, ExchangeData, OTileData, OutData, \A v \in Warps : SameTurn(co[v], co'[v]),
           UNCHANGED <<launch, ep, oStats, exch, sO, out>>
    PROVE  ExchangeData' /\ OTileData' /\ OutData'
<1>1. OStored(ep)' = OStored(ep) /\ \A v \in Warps : co'[v].tile = co[v].tile
  BY DEF OStored, SameTurn
<1> QED BY <1>1, ExchangeKept, OTileKept, OutKept

Early(w) ==
    \/ CorrectionStart(w) \/ CorrectionFirst(w) \/ CorrectionScale(w) \/ CorrectionRescale(w)
    \/ CorrectionSum(w) \/ CorrectionWaitO(w) \/ CorrectionEmpty(w) \/ CorrectionTail(w)

LEMMA EarlyKeeps ==
    ASSUME NEW st, Control(st), ExchangeData, OTileData, OutData, NEW w \in Warps, Early(w)
    PROVE  ExchangeData' /\ OTileData' /\ OutData'
<1> DEFINE me == co[w]
<1>1. Registers /\ launch \in Launches /\ CorrectionRole(me) /\ CorrectionRegisters(me) /\ Corrections
  BY CorrectionSees DEF CorrectionRole, CorrectionRegisters, Registers
<1>2. UNCHANGED <<launch, ep, oStats, exch, sO, out>>
  BY DEF Early, CorrectionStart, CorrectionFirst, CorrectionScale, CorrectionRescale, CorrectionSum,
         CorrectionWaitO, CorrectionEmpty, CorrectionTail, memory
<1>3. ASSUME NEW c, co' = [co EXCEPT ![w] = c], c.tile = me.tile, ~Combined(c), ~Combined(me)
      PROVE  \A v \in Warps : SameTurn(co[v], co'[v])
  <2>1. co'[w] = c /\ \A v \in Warps : v # w => co'[v] = co[v]
    BY <1>1, <1>3, Update DEF Corrections
  <2> QED BY <1>3, <2>1 DEF SameTurn, Combined
<1>4. \A v \in Warps : SameTurn(co[v], co'[v])
  <2>1. CASE CorrectionStart(w) \/ CorrectionTail(w)
    <3>1. PICK p \in {"tile", "done"} : co' = [co EXCEPT ![w] = [me EXCEPT !.pc = p]]
      BY <2>1 DEF CorrectionStart, CorrectionTail
    <3> DEFINE c == [me EXCEPT !.pc = p]
    <3>2. c.tile = me.tile /\ ~Combined(c) /\ ~Combined(me) /\ co' = [co EXCEPT ![w] = c]
      BY <1>1, <2>1, <3>1 DEF CorrectionRegisters, Combined, CorrectionStart, CorrectionTail
    <3> HIDE DEF c
    <3> QED BY <1>3, <3>2
  <2>2. CASE CorrectionFirst(w)
    <3>1. ~Combined(me) /\ \E p \in {"second", "sum", "scale"}, j \in {0, me.j} :
             co' = [co EXCEPT ![w] = [me EXCEPT !.pc = p, !.j = j]]
      <4>1. ~Combined(me)
        BY <2>2 DEF CorrectionFirst, Combined
      <4>2. [me EXCEPT !.pc = "second"] = [me EXCEPT !.pc = "second", !.j = me.j]
        BY <1>1 DEF CorrectionRegisters
      <4> QED BY <2>2, <4>1, <4>2 DEF CorrectionFirst
    <3>2. PICK p \in {"second", "sum", "scale"}, j \in {0, me.j} :
             co' = [co EXCEPT ![w] = [me EXCEPT !.pc = p, !.j = j]]
      BY <3>1
    <3> DEFINE c == [me EXCEPT !.pc = p, !.j = j]
    <3>3. c.tile = me.tile /\ ~Combined(c) /\ co' = [co EXCEPT ![w] = c]
      BY <1>1, <3>2 DEF CorrectionRegisters, Combined
    <3> HIDE DEF c
    <3> QED BY <1>3, <3>1, <3>3
  <2>3. CASE CorrectionScale(w)
    <3> DEFINE c == [me EXCEPT !.pc = "rescale", !.scale = sScale[me.j % 2][w]]
    <3>1. c.tile = me.tile /\ ~Combined(c) /\ ~Combined(me) /\ co' = [co EXCEPT ![w] = c]
      BY <1>1, <2>3 DEF CorrectionRegisters, Combined, CorrectionScale
    <3> HIDE DEF c
    <3> QED BY <1>3, <3>1
  <2>4. CASE CorrectionRescale(w)
    <3>1. ~Combined(me) /\ \E p \in {"sum", "scale"}, j \in {0, me.j + 1} :
             co' = [co EXCEPT ![w] = [me EXCEPT !.pc = p, !.j = j]]
      BY <2>4 DEF CorrectionRescale, Combined
    <3>2. PICK p \in {"sum", "scale"}, j \in {0, me.j + 1} :
             co' = [co EXCEPT ![w] = [me EXCEPT !.pc = p, !.j = j]]
      BY <3>1
    <3> DEFINE c == [me EXCEPT !.pc = p, !.j = j]
    <3>3. c.tile = me.tile /\ ~Combined(c) /\ co' = [co EXCEPT ![w] = c]
      BY <1>1, <3>2 DEF CorrectionRegisters, Combined
    <3> HIDE DEF c
    <3> QED BY <1>3, <3>1, <3>3
  <2>5. CASE CorrectionSum(w)
    <3>1. PICK k : co' = [co EXCEPT ![w] = [me EXCEPT !.ok = k, !.j = 1 - me.j,
                                            !.pc = IF me.j = 1 THEN "oacc" ELSE "sum"]]
      BY <2>5 DEF CorrectionSum
    <3> DEFINE c == [me EXCEPT !.ok = k, !.j = 1 - me.j, !.pc = IF me.j = 1 THEN "oacc" ELSE "sum"]
    <3>2. c.tile = me.tile /\ ~Combined(c) /\ ~Combined(me) /\ co' = [co EXCEPT ![w] = c]
      BY <1>1, <2>5, <3>1 DEF CorrectionRegisters, Combined, CorrectionSum
    <3> HIDE DEF c
    <3> QED BY <1>3, <3>2
  <2>6. CASE CorrectionWaitO(w) \/ CorrectionEmpty(w)
    <3>1. ~Combined(me) /\ \E p \in {"epi", "oacc", "tile"} :
             co' = [co EXCEPT ![w] = [me EXCEPT !.j = 1 - me.j, !.pc = p]]
      BY <2>6 DEF CorrectionWaitO, CorrectionEmpty, Combined
    <3>2. PICK p \in {"epi", "oacc", "tile"} :
             co' = [co EXCEPT ![w] = [me EXCEPT !.j = 1 - me.j, !.pc = p]]
      BY <3>1
    <3> DEFINE c == [me EXCEPT !.j = 1 - me.j, !.pc = p]
    <3>3. c.tile = me.tile /\ ~Combined(c) /\ co' = [co EXCEPT ![w] = c]
      BY <1>1, <3>2 DEF CorrectionRegisters, Combined
    <3> HIDE DEF c
    <3> QED BY <1>3, <3>1, <3>3
  <2> QED BY <2>1, <2>2, <2>3, <2>4, <2>5, <2>6 DEF Early
<1> QED BY <1>1, <1>2, <1>4, TurnsKeep

\* How far correction warp w is.
LEMMA TurnOf ==
    ASSUME NEW st, Control(st), NEW w \in Warps
    PROVE  /\ co[w].tile \in Nat /\ co[w].tile >= 1 /\ OStored(ep) \in Nat /\ Reduced(co[w]) \in Nat
           /\ OStored(ep) <= co[w].tile - 1 /\ co[w].tile - 1 <= OStored(ep) + 1
           /\ Combined(co[w]) => OStored(ep) = co[w].tile - 1
           /\ Reduced(co[w]) = IF co[w].pc = "store" THEN 2 * co[w].tile
                               ELSE IF co[w].pc = "combine" THEN 2 * co[w].tile - 1 ELSE 2 * co[w].tile - 2
<1> DEFINE c == co[w]
<1>1. /\ Registers /\ CorrectionRole(c) /\ OStored(ep) \in Nat
      /\ OStored(ep) <= c.tile - 1 /\ c.tile - 1 <= OStored(ep) + 1
      /\ Combined(c) => OStored(ep) = c.tile - 1
  BY CorrectionSees DEF Combined
<1>2. c.tile \in Nat /\ c.tile >= 1 /\ Reduced(c) \in Nat
  <2>1. 0 \in Stage
    BY DEF Stage
  <2> QED BY <1>1, <2>1, CorrectionCounts
<1>3. CASE c.pc = "store"
  <2>1. Reduced(c) = 2 * (c.tile - 1) + 1 + 1
    BY <1>3 DEF Reduced, If
  <2> QED BY <1>1, <1>2, <1>3, <2>1
<1>4. CASE c.pc = "combine"
  <2>1. Reduced(c) = 2 * (c.tile - 1) + 1 + 0
    BY <1>4 DEF Reduced, If
  <2> QED BY <1>1, <1>2, <1>4, <2>1
<1>5. CASE c.pc \notin {"combine", "store"}
  <2>1. Reduced(c) = 2 * (c.tile - 1) + 0 + 0
    BY <1>5 DEF Reduced, If
  <2> QED BY <1>1, <1>2, <1>5, <2>1
<1> QED BY <1>3, <1>4, <1>5

\* Warp w exchanges its statistics.
LEMMA StatsKeeps ==
    ASSUME NEW st, Control(st), ExchangeData, OTileData, OutData, NEW w \in Warps, CorrectionStats(w)
    PROVE  ExchangeData' /\ OTileData' /\ OutData'
<1> DEFINE me == co[w]
           t == me.tile
           c == [me EXCEPT !.pc = "combine"]
<1>1. Registers /\ launch \in Launches /\ CorrectionRegisters(me) /\ Corrections
  BY CorrectionSees DEF CorrectionRole, CorrectionRegisters, Registers
<1>2. /\ UNCHANGED <<launch, ep, exch, sO, out>> /\ me.pc = "epi" /\ co' = [co EXCEPT ![w] = c]
      /\ oStats' = [oStats EXCEPT ![w] = t] /\ Done(EpiEmpty, me.epi)
  BY DEF CorrectionStats
<1>3. c.tile = t /\ c.pc = "combine"
  BY <1>1 DEF CorrectionRegisters
<1> HIDE DEF c
<1>4. co'[w] = c /\ \A v \in Warps : v # w => co'[v] = co[v]
  BY <1>1, <1>2, Update DEF Corrections
<1>5. t \in Nat /\ OStored(ep) = t - 1 /\ Reduced(me) = 2 * t - 2
  BY <1>2, EpiFree, TurnOf
<1>6. Reduced(c) = 2 * t - 1
  <2>1. Reduced(c) = 2 * (t - 1) + 1 + 0
    BY <1>3 DEF Reduced, If
  <2> HIDE DEF t
  <2> QED BY <1>5, <2>1
<1>7. \A v \in Warps : Reduced(co'[v]) >= Reduced(co[v]) /\ Reduced(co'[v]) \in Nat /\ co'[v].tile = co[v].tile
                       /\ co[v].tile \in Nat /\ Reduced(co[v]) \in Nat
                       /\ (co'[v].pc = "store" => v # w)
  <2> SUFFICES ASSUME NEW v \in Warps
               PROVE  Reduced(co'[v]) >= Reduced(co[v]) /\ Reduced(co'[v]) \in Nat /\ co'[v].tile = co[v].tile
                       /\ co[v].tile \in Nat /\ Reduced(co[v]) \in Nat
                       /\ (co'[v].pc = "store" => v # w)
    OBVIOUS
  <2>1. Reduced(co[v]) \in Nat /\ co[v].tile \in Nat
    BY TurnOf
  <2>2. CASE v = w
    <3>1. 2 * t - 1 >= 2 * t - 2 /\ 2 * t - 1 \in Nat
      <4>1. t >= 1
        BY TurnOf
      <4> HIDE DEF t
      <4> QED BY <1>5, <4>1
    <3> QED BY <1>3, <1>4, <1>5, <1>6, <2>1, <2>2, <3>1
  <2>3. CASE v # w
    BY <1>4, <2>1, <2>3
  <2> QED BY <2>2, <2>3
<1>8. Warps' = Warps /\ OStored(ep)' = OStored(ep) /\ \A v \in Warps : Reduced(co[v])' = Reduced(co'[v])
  BY <1>2 DEF Warps, OStored, Reduced
<1>9. ExchangeData'
  <2>1. oStats' = [v \in Warps' |-> co'[v].tile - If(~Combined(co'[v]))]
    <3>1. oStats' = [v \in Warps |-> IF v = w THEN t ELSE co[v].tile - If(~Combined(co[v]))]
      BY <1>2 DEF ExchangeData
    <3>2. t = co'[w].tile - If(~Combined(co'[w]))
      <4>1. If(~Combined(c)) = 0
        BY <1>3 DEF Combined, If
      <4> QED BY <1>3, <1>4, <1>5, <4>1
    <3> HIDE DEF t
    <3> QED BY <1>4, <1>8, <3>1, <3>2
  <2>2. \A u, v \in Warps' : Reduced(co[u])' >= 2 * (co'[v].tile - 1)
    <3> SUFFICES ASSUME NEW u \in Warps, NEW v \in Warps PROVE Reduced(co'[u]) >= 2 * (co'[v].tile - 1)
      BY <1>8
    <3>1. Reduced(co[u]) >= 2 * (co[v].tile - 1)
      BY DEF ExchangeData
    <3> QED BY <1>7, <3>1
  <2>3. \A u, v \in Warps' :
          (co'[v].pc = "store" /\ Reduced(co[u])' >= 2 * co'[v].tile) => exch'[u] = co'[v].tile
    <3> SUFFICES ASSUME NEW u \in Warps, NEW v \in Warps, co'[v].pc = "store",
                        Reduced(co'[u]) >= 2 * co'[v].tile
                 PROVE  exch'[u] = co'[v].tile
      BY <1>8
    <3>1. v # w /\ co'[v] = co[v]
      BY <1>4, <1>7
    <3>2. co[v].tile = t
      <4>1. OStored(ep) = co[v].tile - 1 /\ co[v].tile \in Nat
        BY <3>1, TurnOf DEF Combined
      <4> QED BY <1>5, <4>1
    <3>3. u # w
      <4>1. ~(2 * t - 1 >= 2 * t)
        <5> HIDE DEF t
        <5> QED BY <1>5
      <4> QED BY <1>4, <1>6, <3>1, <3>2, <4>1
    <3>4. co'[u] = co[u]
      BY <1>4, <3>3
    <3> QED BY <1>2, <3>1, <3>4 DEF ExchangeData
  <2> QED BY <1>2, <1>8, <2>1, <2>2, <2>3 DEF ExchangeData
<1>10. OTileData' /\ OutData'
  BY <1>1, <1>2, <1>7, <1>8, OTileKept, OutKept
<1> QED BY <1>9, <1>10

\* A tile is combined: both halves of it are there, from every warp.
LEMMA CombinesRight ==
    ASSUME NEW st, Control(st), CorrectionData, OData(st[1]), ExchangeData, NEW w \in Warps,
           CorrectionCombine(w)
    PROVE  /\ co[w].ok /\ \A v \in Warps : oStats[v] = co[w].tile
           /\ HasWork(co[w].tile) =>
                \A g \in Stage : /\ o[g][w].tile = co[w].tile
                                 /\ o[g][w].acc = Contributions(co[w].tile, g)
<1> DEFINE me == co[w]
           t == me.tile
<1>1. Registers /\ launch \in Launches /\ CorrectionRole(me) /\ me.pc = "combine" /\ Done(Reduce, 0)
  BY CorrectionSees DEF Registers, CorrectionCombine
<1>2. t \in Nat /\ t >= 1 /\ OStored(ep) = t - 1 /\ Reduced(me) = 2 * t - 1
  BY <1>1, TurnOf DEF Combined
<1>3. ASSUME NEW v \in Warps PROVE oStats[v] = t
  <2>1. Reduced(co[v]) >= 2 * t - 1
    BY <1>1, <1>2, AllReduced
  <2>2. 2 * t - 1 >= 2 * (co[v].tile - 1)
    BY <1>2 DEF ExchangeData
  <2>3. /\ co[v].tile \in Nat
        /\ Reduced(co[v]) = IF co[v].pc = "store" THEN 2 * co[v].tile
                            ELSE IF co[v].pc = "combine" THEN 2 * co[v].tile - 1 ELSE 2 * co[v].tile - 2
    BY TurnOf
  <2> DEFINE u == co[v].tile
             r == Reduced(co[v])
  <2>4. r >= 2 * t - 1 /\ 2 * t - 1 >= 2 * (u - 1) /\ u \in Nat /\ t \in Nat
        /\ (r = 2 * u \/ r = 2 * u - 1 \/ r = 2 * u - 2)
    BY <1>2, <2>1, <2>2, <2>3
  <2>5. u = t /\ r # 2 * u - 2
    <3> HIDE DEF u, r, t
    <3> QED BY <2>4
  <2>6. Combined(co[v])
    BY <2>3, <2>5 DEF Combined
  <2>7. oStats[v] = u - If(~Combined(co[v]))
    BY DEF ExchangeData
  <2>8. If(~Combined(co[v])) = 0
    BY <2>6 DEF If
  <2> HIDE DEF u
  <2> QED BY <2>4, <2>5, <2>7, <2>8
<1>4. ASSUME HasWork(t), NEW g \in Stage PROVE o[g][w].tile = t /\ o[g][w].acc = Contributions(t, g)
  <2>1. t \in 1 .. Len(launch.work)
    BY <1>1, Tile DEF CorrectionRole
  <2>2. Half(launch, t) > 0 /\ Half(launch, t) \in Nat /\ N(t) = 2 * Half(launch, t)
    BY <1>1, <1>4, <2>1, Tile
  <2>3. o[g][w] = Settled(t, g, Half(launch, t))
    BY <1>1, <2>2, OAtEnd
  <2> DEFINE h == Half(launch, t)
  <2>4. N(t) \div 2 = h
    <3> DEFINE n == N(t)
    <3>1. n = 2 * h /\ h \in Nat
      BY <2>2
    <3> HIDE DEF h, n
    <3>2. n \div 2 = h
      BY <3>1
    <3> QED BY <3>2 DEF n
  <2>5. Contributions(t, g) = Sums(launch, t, g, h)
    <3>1. Contributions(t, g) = {<<2 * h - 1 - (2 * n + g), 2 * h - 1 - (2 * n + g), n>> : n \in 0 .. (h - 1)}
      BY <2>2, <2>4 DEF Contributions
    <3> QED BY <3>1 DEF Sums
  <2> HIDE DEF h
  <2> QED BY <2>3, <2>5 DEF Settled, h
<1>5. me.ok
  BY DEF CorrectionData, CorrectionRow
<1> QED BY <1>3, <1>4, <1>5

LEMMA CombineKeeps ==
    ASSUME NEW st, Control(st), CorrectionData, OData(st[1]), ExchangeData, OTileData, OutData,
           NEW w \in Warps, CorrectionCombine(w)
    PROVE  ExchangeData' /\ OTileData' /\ OutData'
<1> DEFINE me == co[w]
           t == me.tile
           c == [me EXCEPT !.pc = "store"]
<1>1. Registers /\ launch \in Launches /\ CorrectionRegisters(me) /\ Corrections
  BY CorrectionSees DEF CorrectionRole, CorrectionRegisters, Registers
<1>2. /\ UNCHANGED <<launch, ep, oStats, sO, out>> /\ me.pc = "combine" /\ co' = [co EXCEPT ![w] = c]
      /\ exch' = [exch EXCEPT ![w] = t]
  <2>1. /\ UNCHANGED <<launch, ep, oStats, sO, out>> /\ me.pc = "combine" /\ co' = [co EXCEPT ![w] = c]
    BY DEF CorrectionCombine
  <2> DEFINE right == /\ me.ok
                      /\ \A v \in Warps : oStats[v] = t
                      /\ HasWork(t) => \A g \in Stage :
                            o[g][w].tile = t /\ o[g][w].acc = Contributions(t, g)
  <2>2. right
    BY CombinesRight
  <2>3. exch' = [exch EXCEPT ![w] = IF right THEN t ELSE Broken]
    BY DEF CorrectionCombine
  <2> HIDE DEF right
  <2> QED BY <2>1, <2>2, <2>3
<1>3. c.tile = t /\ c.pc = "store"
  BY <1>1 DEF CorrectionRegisters
<1> HIDE DEF c
<1>4. co'[w] = c /\ \A v \in Warps : v # w => co'[v] = co[v]
  BY <1>1, <1>2, Update DEF Corrections
<1>5. t \in Nat /\ t >= 1 /\ OStored(ep) = t - 1 /\ Reduced(me) = 2 * t - 1
  BY <1>2, TurnOf DEF Combined
<1>6. Reduced(c) = 2 * t
  <2>1. Reduced(c) = 2 * (t - 1) + 1 + 1
    BY <1>3 DEF Reduced, If
  <2> HIDE DEF t
  <2> QED BY <1>5, <2>1
<1>7. \A v \in Warps : Reduced(co'[v]) >= Reduced(co[v]) /\ Reduced(co'[v]) \in Nat /\ co'[v].tile = co[v].tile
                       /\ co[v].tile \in Nat /\ Reduced(co[v]) \in Nat
  <2> SUFFICES ASSUME NEW v \in Warps
               PROVE  Reduced(co'[v]) >= Reduced(co[v]) /\ Reduced(co'[v]) \in Nat /\ co'[v].tile = co[v].tile
                       /\ co[v].tile \in Nat /\ Reduced(co[v]) \in Nat
    OBVIOUS
  <2>1. Reduced(co[v]) \in Nat /\ co[v].tile \in Nat
    BY TurnOf
  <2>2. CASE v = w
    <3>1. 2 * t >= 2 * t - 1 /\ 2 * t \in Nat
      <4> HIDE DEF t
      <4> QED BY <1>5
    <3> QED BY <1>3, <1>4, <1>5, <1>6, <2>1, <2>2, <3>1
  <2>3. CASE v # w
    BY <1>4, <2>1, <2>3
  <2> QED BY <2>2, <2>3
<1>8. Warps' = Warps /\ OStored(ep)' = OStored(ep) /\ \A v \in Warps : Reduced(co[v])' = Reduced(co'[v])
  BY <1>2 DEF Warps, OStored, Reduced
\* A warp that is as far as w has combined this tile too.
<1>9. ASSUME NEW u \in Warps, u # w, Reduced(co[u]) >= 2 * t PROVE exch[u] = t
  <2>1. 2 * t - 1 >= 2 * (co[u].tile - 1)
    BY <1>5 DEF ExchangeData
  <2>2. /\ co[u].tile \in Nat
        /\ Reduced(co[u]) = IF co[u].pc = "store" THEN 2 * co[u].tile
                            ELSE IF co[u].pc = "combine" THEN 2 * co[u].tile - 1 ELSE 2 * co[u].tile - 2
    BY TurnOf
  <2> DEFINE n == co[u].tile
             r == Reduced(co[u])
  <2>3. r >= 2 * t /\ 2 * t - 1 >= 2 * (n - 1) /\ n \in Nat /\ t \in Nat
        /\ (r = 2 * n \/ r = 2 * n - 1 \/ r = 2 * n - 2)
    BY <1>5, <1>9, <2>1, <2>2
  <2>4. n = t /\ r = 2 * n /\ r # 2 * n - 1 /\ r # 2 * n - 2
    <3> HIDE DEF n, r, t
    <3> QED BY <2>3
  <2>5. co[u].pc = "store"
    BY <2>2, <2>4
  <2> QED BY <1>9, <2>4, <2>5 DEF ExchangeData
<1>10. ExchangeData'
  <2>1. oStats' = [v \in Warps' |-> co'[v].tile - If(~Combined(co'[v]))]
    <3>1. \A v \in Warps : co'[v].tile = co[v].tile /\ (Combined(co'[v]) <=> Combined(co[v]))
      BY <1>2, <1>3, <1>4 DEF Combined
    <3>2. \A v \in Warps : co'[v].tile - If(~Combined(co'[v])) = co[v].tile - If(~Combined(co[v]))
      BY <3>1 DEF If
    <3> QED BY <1>2, <1>8, <3>2 DEF ExchangeData
  <2>2. \A u, v \in Warps' : Reduced(co[u])' >= 2 * (co'[v].tile - 1)
    <3> SUFFICES ASSUME NEW u \in Warps, NEW v \in Warps PROVE Reduced(co'[u]) >= 2 * (co'[v].tile - 1)
      BY <1>8
    <3>1. Reduced(co[u]) >= 2 * (co[v].tile - 1)
      BY DEF ExchangeData
    <3> QED BY <1>7, <3>1
  <2>3. exch' = [v \in Warps |-> exch'[v]] /\ exch'[w] = t /\ \A u \in Warps : u # w => exch'[u] = exch[u]
    <3>1. exch = [v \in Warps |-> exch[v]]
      BY DEF ExchangeData
    <3> HIDE DEF t
    <3> QED BY <1>2, <3>1
  <2>4. \A u, v \in Warps' :
          (co'[v].pc = "store" /\ Reduced(co[u])' >= 2 * co'[v].tile) => exch'[u] = co'[v].tile
    <3> SUFFICES ASSUME NEW u \in Warps, NEW v \in Warps, co'[v].pc = "store",
                        Reduced(co'[u]) >= 2 * co'[v].tile
                 PROVE  exch'[u] = co'[v].tile
      BY <1>8
    <3>1. co'[v].tile = t
      <4>1. CASE v = w
        BY <1>3, <1>4, <4>1
      <4>2. CASE v # w
        <5>1. OStored(ep) = co[v].tile - 1 /\ co[v].tile \in Nat /\ co'[v].tile = co[v].tile
          BY <1>4, <4>2, TurnOf DEF Combined
        <5> QED BY <1>5, <5>1
      <4> QED BY <4>1, <4>2
    <3>2. CASE u = w
      BY <2>3, <3>1, <3>2
    <3>3. CASE u # w
      <4>1. Reduced(co[u]) >= 2 * t
        BY <1>4, <3>1, <3>3
      <4> QED BY <1>9, <2>3, <3>1, <3>3, <4>1
    <3> QED BY <3>2, <3>3
  <2> QED BY <1>8, <2>1, <2>2, <2>3, <2>4 DEF ExchangeData
<1>11. OTileData' /\ OutData'
  BY <1>1, <1>2, <1>7, <1>8, OTileKept, OutKept
<1> QED BY <1>10, <1>11

\* Every warp has combined the tile w stores.
LEMMA AllCombined ==
    ASSUME NEW st, Control(st), NEW w \in Warps, co[w].pc = "store", Done(Reduce, 1)
    PROVE  \A v \in Warps : Reduced(co[v]) >= 2 * co[w].tile
<1> DEFINE t == co[w].tile
           q == 2 * t - 1
           A == Reductions
<1>1. t \in Nat /\ t >= 1 /\ Reduced(co[w]) = 2 * t
  BY TurnOf
<1>2. q \in Nat /\ q % 2 = 1 /\ 2 * t = q + 1
  <2> HIDE DEF t
  <2> QED BY <1>1
<1>3. AllOf(bar[Reduce], Warps, A)
  BY DEF Control, OTile
<1>4. \A v \in Warps : A[v] = Reduced(co[v]) /\ Reduced(co[v]) \in Nat
  BY TurnOf DEF Reductions
<1> HIDE DEF A, q, t
<1>5. A[w] = q + 1
  BY <1>1, <1>2, <1>4 DEF t
<1>6. \A v \in Warps : A[v] \in Int /\ A[v] >= q
  <2> SUFFICES ASSUME NEW v \in Warps PROVE A[v] \in Int /\ A[v] >= q
    OBVIOUS
  <2>1. A[v] \in Nat /\ A[w] <= A[v] + 1
    BY <1>3, AllNear
  <2> QED BY <1>2, <1>5, <2>1
<1>7. \A v \in Warps : A[v] >= q + 1
  <2>1. Done(Reduce, q % 2) /\ \E v \in Warps : A[v] <= q + 1
    BY <1>2, <1>5
  <2> QED BY <1>2, <1>3, <1>6, <2>1, AllWait
<1> QED BY <1>2, <1>4, <1>7 DEF t

\* Warp w writes its rows of the O tile and goes to the next tile.
LEMMA StoreKeeps ==
    ASSUME NEW st, Control(st), ExchangeData, OTileData, OutData, NEW w \in Warps, CorrectionStore(w)
    PROVE  ExchangeData' /\ OTileData' /\ OutData'
<1> DEFINE me == co[w]
           t == me.tile
           c == [me EXCEPT !.pc = "tile", !.tile = t + 1, !.ok = TRUE, !.epi = 1 - me.epi,
                           !.oacc = IF HasWork(t) THEN 1 - me.oacc ELSE me.oacc]
<1>1. Registers /\ launch \in Launches /\ CorrectionRegisters(me) /\ Corrections
  BY CorrectionSees DEF CorrectionRole, CorrectionRegisters, Registers
<1>2. /\ UNCHANGED <<launch, ep, oStats, exch, out>> /\ me.pc = "store" /\ co' = [co EXCEPT ![w] = c]
      /\ Done(Reduce, 1)
  BY DEF CorrectionStore
<1>3. t \in Nat /\ t >= 1 /\ OStored(ep) = t - 1 /\ Reduced(me) = 2 * t
  BY <1>2, TurnOf DEF Combined
<1>4. \A v \in Warps : Reduced(co[v]) >= 2 * t /\ Reduced(co[v]) \in Nat /\ co[v].tile \in Nat
  BY <1>2, AllCombined, TurnOf
<1>5. sO' = [v \in Warps |-> IF v \notin Drains(w) THEN sO[v] ELSE t]
  <2> DEFINE right == \A v \in Warps : exch[v] = t
  <2>1. right
    BY <1>2, <1>4 DEF ExchangeData
  <2>2. sO' = [v \in Warps |-> IF v \notin Drains(w) THEN sO[v] ELSE IF right THEN t ELSE Broken]
    BY DEF CorrectionStore
  <2> HIDE DEF right
  <2> QED BY <2>1, <2>2
<1>6. c.tile = t + 1 /\ c.pc = "tile"
  BY <1>1 DEF CorrectionRegisters
<1> HIDE DEF c
<1>7. co'[w] = c /\ \A v \in Warps : v # w => co'[v] = co[v]
  BY <1>1, <1>2, Update DEF Corrections
<1>8. Reduced(c) = 2 * t
  <2>1. Reduced(c) = 2 * (c.tile - 1) + 0 + 0 /\ c.tile = t + 1
    BY <1>6 DEF Reduced, If
  <2> HIDE DEF t
  <2> QED BY <1>3, <2>1
<1>9. \A v \in Warps : Reduced(co'[v]) = Reduced(co[v])
  BY <1>3, <1>7, <1>8
<1>10. Warps' = Warps /\ OStored(ep)' = OStored(ep) /\ \A v \in Warps : Reduced(co[v])' = Reduced(co'[v])
  BY <1>2 DEF Warps, OStored, Reduced
<1>11. ExchangeData'
  <2>1. oStats' = [v \in Warps' |-> co'[v].tile - If(~Combined(co'[v]))]
    <3>1. t - If(~Combined(me)) = (t + 1) - If(~Combined(c))
      <4>1. If(~Combined(me)) = 0 /\ If(~Combined(c)) = 1
        BY <1>2, <1>6 DEF If, Combined
      <4> HIDE DEF t
      <4> QED BY <1>3, <4>1
    <3>2. \A v \in Warps : co'[v].tile - If(~Combined(co'[v])) = co[v].tile - If(~Combined(co[v]))
      BY <1>6, <1>7, <3>1
    <3> QED BY <1>2, <1>10, <3>2 DEF ExchangeData
  <2>2. \A u, v \in Warps' : Reduced(co[u])' >= 2 * (co'[v].tile - 1)
    <3> SUFFICES ASSUME NEW u \in Warps, NEW v \in Warps PROVE Reduced(co[u]) >= 2 * (co'[v].tile - 1)
      BY <1>9, <1>10
    <3>1. CASE v = w
      <4>1. 2 * (co'[v].tile - 1) = 2 * t
        <5>1. co'[v].tile = t + 1
          BY <1>6, <1>7, <3>1
        <5> HIDE DEF t
        <5> QED BY <1>3, <5>1
      <4> QED BY <1>4, <4>1
    <3>2. CASE v # w
      BY <1>7, <3>2 DEF ExchangeData
    <3> QED BY <3>1, <3>2
  <2>3. \A u, v \in Warps' :
          (co'[v].pc = "store" /\ Reduced(co[u])' >= 2 * co'[v].tile) => exch'[u] = co'[v].tile
    <3> SUFFICES ASSUME NEW u \in Warps, NEW v \in Warps, co'[v].pc = "store",
                        Reduced(co[u]) >= 2 * co'[v].tile
                 PROVE  exch[u] = co'[v].tile
      BY <1>2, <1>9, <1>10
    <3>1. v # w
      BY <1>6, <1>7
    <3> QED BY <1>7, <3>1 DEF ExchangeData
  <2> QED BY <1>2, <1>10, <2>1, <2>2, <2>3 DEF ExchangeData
<1>12. OTileData'
  <2>1. \A v \in Warps : DrainedBy(v)' = DrainedBy(v) /\ DrainedBy(v) \in Warps
                         /\ (v \in Drains(w) <=> DrainedBy(v) = w)
    BY <1>1, <1>2, SameLeader, LeaderDrains
  <2>2. sO' = [v \in Warps' |-> sO'[v]]
    <3> HIDE DEF t
    <3> QED BY <1>5, <1>10
  <2>3. ASSUME NEW v \in Warps, co'[DrainedBy(v)].tile - 1 > OStored(ep) PROVE sO'[v] = OStored(ep) + 1
    <3>1. CASE DrainedBy(v) = w
      <4>1. sO'[v] = t
        BY <1>5, <2>1, <3>1
      <4> QED BY <1>3, <4>1
    <3>2. CASE DrainedBy(v) # w
      <4>1. sO'[v] = sO[v] /\ co'[DrainedBy(v)] = co[DrainedBy(v)]
        BY <1>5, <1>7, <2>1, <3>2
      <4> QED BY <2>3, <4>1 DEF OTileData
    <3> QED BY <3>1, <3>2
  <2> QED BY <1>10, <2>1, <2>2, <2>3 DEF OTileData
<1>13. OutData'
  BY <1>2, <1>10, OutKept
<1> QED BY <1>11, <1>12, <1>13

LEMMA CorrectionKeeps ==
    ASSUME NEW st, Control(st), CorrectionData, OData(st[1]), ExchangeData, OTileData, OutData,
           NEW w \in Warps, Correction(w)
    PROVE  ExchangeData' /\ OTileData' /\ OutData'
<1>1. CASE Early(w)
  BY <1>1, EarlyKeeps
<1>2. CASE CorrectionStats(w)
  BY <1>2, StatsKeeps
<1>3. CASE CorrectionCombine(w)
  BY <1>3, CombineKeeps
<1>4. CASE CorrectionStore(w)
  BY <1>4, StoreKeeps
<1> QED BY <1>1, <1>2, <1>3, <1>4 DEF Correction, Early

\* Every correction warp has stored the tile the epilogue warp stores.
LEMMA AllStored ==
    ASSUME NEW st, Control(st), EpilogueStore
    PROVE  /\ ep.tile \in Tiles /\ ep.tile \in Nat /\ OStored(ep) = ep.tile - 1
           /\ \A w \in Warps : co[w].tile - 1 = ep.tile
<1> DEFINE t == ep.tile
           A == TilesStored
<1>1. /\ Registers /\ OTile /\ t \in 1 .. Len(launch.work) + 1 /\ t \in Nat /\ t >= 1 /\ ep.pc = "tile"
      /\ Done(EpiFull, ep.epi) /\ t \in Tiles
      /\ \A w \in Warps : co[w].tile \in Nat /\ co[w].tile >= 1 /\ A[w] = co[w].tile - 1
  BY EpilogueSees DEF EpilogueStore
<1>2. t - 1 \in Nat /\ OStored(ep) = t - 1
  <2>1. OStored(ep) = t - 1 + 0
    BY <1>1 DEF OStored, If
  <2> HIDE DEF t, A
  <2> QED BY <1>1, <2>1
<1>3. \A w \in Warps : A[w] \in Int /\ A[w] >= t - 1 /\ A[w] <= t - 1 + 1
  BY <1>1, <1>2 DEF OTile
<1>4. AllOf(bar[EpiFull], Warps, A) /\ Done(EpiFull, (t - 1) % 2) /\ \E w \in Warps : TRUE
  BY <1>1, <1>2, Tile DEF OTile
<1> HIDE DEF A, t
<1>5. \A w \in Warps : A[w] >= t - 1 + 1
  BY <1>2, <1>3, <1>4, AllWait
<1>6. \A w \in Warps : co[w].tile - 1 = t
  BY <1>1, <1>3, <1>5
<1> QED BY <1>1, <1>2, <1>6 DEF t

\* The O tile goes to global memory.
LEMMA EpilogueWrites ==
    ASSUME NEW st, Control(st), ExchangeData, OTileData, OutData, EpilogueStore
    PROVE  /\ ExchangeData' /\ OTileData' /\ OutData' /\ launch' = launch /\ ep.tile \in Tiles
           /\ out' = [out EXCEPT ![ep.tile] = [w \in Warps |-> ep.tile]]
           /\ OStored(ep) = ep.tile - 1
<1> DEFINE t == ep.tile
<1>1. launch \in Launches /\ EpilogueRegisters(ep) /\ Len(launch.work) \in Nat
  BY EpilogueSees DEF Registers
<1>2. /\ UNCHANGED <<launch, co, oStats, exch, sO>> /\ out' = [out EXCEPT ![t] = sO]
      /\ ep' = [ep EXCEPT !.pc = "ld", !.epi = 1 - @]
  BY DEF EpilogueStore
<1>3. t \in Tiles /\ t \in Nat /\ OStored(ep) = t - 1 /\ \A w \in Warps : co[w].tile - 1 = t
  BY AllStored
<1>4. OStored(ep)' = t
  <2>1. ep'.tile = t /\ ep'.pc = "ld"
    BY <1>1, <1>2 DEF EpilogueRegisters
  <2>2. OStored(ep)' = t - 1 + 1
    BY <2>1 DEF OStored, If
  <2> HIDE DEF t
  <2> QED BY <1>3, <2>2
<1>5. sO = [w \in Warps |-> t]
  <2>1. \A w \in Warps : DrainedBy(w) \in Warps
    BY <1>1, LeaderDrains
  <2>2. ASSUME NEW w \in Warps PROVE sO[w] = t
    <3>1. co[DrainedBy(w)].tile - 1 = t
      BY <1>3, <2>1
    <3>2. t > t - 1 /\ t - 1 + 1 = t
      <4> HIDE DEF t
      <4> QED BY <1>3
    <3> HIDE DEF t
    <3> QED BY <1>3, <3>1, <3>2 DEF OTileData
  <2>3. sO = [w \in Warps |-> sO[w]]
    BY DEF OTileData
  <2> HIDE DEF t
  <2> QED BY <2>2, <2>3
<1> HIDE DEF t
<1>6. ExchangeData'
  <2>1. \A v \in Warps : SameTurn(co[v], co'[v])
    BY <1>2 DEF SameTurn
  <2> QED BY <1>2, <2>1, ExchangeKept
<1>7. Warps' = Warps /\ Tiles' = Tiles /\ \A w \in Warps : DrainedBy(w)' = DrainedBy(w) /\ DrainedBy(w) \in Warps
  BY <1>1, <1>2, SameLeader, LeaderDrains DEF Tiles
<1>8. OTileData'
  <2>1. \A w \in Warps : ~(co[w].tile - 1 > t)
    BY <1>3
  <2>2. \A w \in Warps : ~(co'[DrainedBy(w)].tile - 1 > t)
    BY <1>2, <1>7, <2>1
  <2>3. sO' = [w \in Warps |-> sO'[w]]
    BY <1>2, <1>5
  <2> QED BY <1>4, <1>7, <2>2, <2>3 DEF OTileData
<1>9. OutData'
  <2>1. out' = [u \in Tiles |-> IF u = t THEN sO ELSE out[u]]
    BY <1>2, <1>3 DEF OutData
  <2>2. ASSUME NEW u \in Tiles
        PROVE  (IF u = t THEN sO ELSE out[u]) = [w \in Warps |-> IF u <= t THEN u ELSE 0]
    <3>1. u \in Nat /\ t \in Nat
      BY <1>1, <1>3 DEF Tiles
    <3>2. CASE u = t
      BY <1>5, <3>1, <3>2
    <3>3. CASE u # t
      <4>1. u <= t <=> u <= t - 1
        BY <3>1, <3>3
      <4>2. out[u] = [w \in Warps |-> IF u <= t - 1 THEN u ELSE 0]
        BY <1>3 DEF OutData
      <4> QED BY <3>3, <4>1, <4>2
    <3> QED BY <3>2, <3>3
  <2> QED BY <1>4, <1>7, <2>1, <2>2 DEF OutData
<1> QED BY <1>2, <1>3, <1>5, <1>6, <1>8, <1>9 DEF t

EpilogueData == ExchangeData /\ OTileData /\ OutData

LEMMA OthersKeep ==
    ASSUME launch \in Launches, EpilogueData, UNCHANGED <<launch, co, oStats, exch, sO, out>>,
           OStored(ep)' = OStored(ep)
    PROVE  EpilogueData'
<1>1. \A v \in Warps : SameTurn(co[v], co'[v]) /\ co'[v].tile = co[v].tile
  BY DEF SameTurn
<1> QED BY <1>1, ExchangeKept, OTileKept, OutKept DEF EpilogueData

LEMMA EpilogueDataStep ==
    ASSUME NEW st, Control(st), OData(st[1]), CorrectionData, RingFree, RingFree', EpilogueData, [Next]_vars
    PROVE  EpilogueData'
<1>1. launch \in Launches /\ ExchangeData /\ OTileData /\ OutData
  BY DEF Control, Registers, EpilogueData
<1>2. ASSUME UNCHANGED <<launch, co, ep, oStats, exch, sO, out>> PROVE EpilogueData'
  <2>1. OStored(ep)' = OStored(ep)
    BY <1>2 DEF OStored
  <2> QED BY <1>1, <1>2, <2>1, OthersKeep
<1>3. ASSUME UNCHANGED <<launch, ep, out>>, ExchangeData', OTileData' PROVE EpilogueData'
  <2>1. OStored(ep)' = OStored(ep)
    BY <1>3 DEF OStored
  <2> QED BY <1>1, <1>3, <2>1, OutKept DEF EpilogueData
<1>4. CASE LoadKV
  <2>1. UNCHANGED <<launch, ep, out>>
    BY <1>4 DEF LoadKV
  <2> QED BY <1>1, <1>3, <1>4, <2>1, LoadOverwrites
<1>5. CASE \E c \in inflight : Land(c)
  <2>1. UNCHANGED <<launch, ep, out>>
    BY <1>5 DEF Land
  <2> QED BY <1>1, <1>3, <1>5, <2>1, LandOverwrites
<1>6. CASE \E w \in Warps : Correction(w)
  BY <1>1, <1>6, CorrectionKeeps DEF EpilogueData
<1>7. CASE EpilogueStore
  BY <1>1, <1>7, EpilogueWrites DEF EpilogueData
<1>8. CASE EpilogueSignal
  <2>1. UNCHANGED <<launch, co, oStats, exch, sO, out>>
    BY <1>8 DEF EpilogueSignal, memory
  <2>2. OStored(ep)' = OStored(ep)
    <3>1. ep.pc = "ld" /\ EpilogueRegisters(ep)
      BY <1>8, EpilogueSees DEF EpilogueSignal
    <3>2. ep'.pc = "tile" /\ ep'.tile = ep.tile + 1
      BY <1>8, <3>1 DEF EpilogueSignal, EpilogueRegisters
    <3>3. ep.tile \in Nat
      BY <3>1 DEF EpilogueRegisters
    <3>4. OStored(ep) = ep.tile - 1 + 1 /\ OStored(ep)' = ep'.tile - 1 + 0
      BY <3>1, <3>2 DEF OStored, If
    <3> QED BY <3>2, <3>3, <3>4
  <2> QED BY <1>1, <2>1, <2>2, OthersKeep
<1>9. CASE LoadQ \/ LoadSkip \/ LoadEpi \/ LoadTail \/ Terminating \/ UNCHANGED vars
  <2>1. UNCHANGED <<launch, co, ep, oStats, exch, sO, out>>
    BY <1>9 DEF LoadQ, LoadSkip, LoadEpi, LoadTail, Terminating, vars, memory
  <2> QED BY <1>2, <2>1
<1>10. CASE Mma
  <2>1. UNCHANGED <<launch, co, ep, oStats, exch, sO, out>>
    BY <1>10 DEF Mma, MmaQ, MmaSkip, MmaS, MmaSpo, MmaV, MmaPv, MmaK, MmaFree, memory
  <2> QED BY <1>2, <2>1
<1>11. CASE TensorCore
  <2>1. UNCHANGED <<launch, co, ep, oStats, exch, sO, out>>
    BY <1>11 DEF TensorCore
  <2> QED BY <1>2, <2>1
<1>12. CASE \E g \in Stage, w \in Warps : Softmax(g, w)
  <2>1. UNCHANGED <<launch, co, ep, oStats, exch, sO, out>>
    BY <1>12 DEF Softmax, SoftmaxTile, SoftmaxScore, SoftmaxScale, SoftmaxP1, SoftmaxP2, SoftmaxSum,
                 SoftmaxTail, memory
  <2> QED BY <1>2, <2>1
<1> QED BY <1>4, <1>5, <1>6, <1>7, <1>8, <1>9, <1>10, <1>11, <1>12 DEF Next, Load, Epilogue

LEMMA EpilogueDataStart ==
    ASSUME Init
    PROVE  EpilogueData
<1>1. launch \in Launches /\ Len(launch.work) \in Nat
  BY LaunchFacts DEF Init
<1>2. /\ oStats = [w \in Warps |-> 0] /\ exch = [w \in Warps |-> 0] /\ sO = [w \in Warps |-> 0]
      /\ out = [t \in Tiles |-> [w \in Warps |-> 0]]
  BY DEF Init
<1>3. \A w \in Warps : co[w].tile = 1 /\ co[w].pc = "start"
  BY DEF Init
<1>4. OStored(ep) = 0
  <2>1. OStored(ep) = 1 - 1 + 0
    BY DEF Init, OStored, If
  <2> QED BY <2>1
<1>5. ASSUME NEW w \in Warps PROVE Reduced(co[w]) = 0 /\ co[w].tile - If(~Combined(co[w])) = 0
  <2>1. Reduced(co[w]) = 2 * (1 - 1) + 0 + 0 /\ If(~Combined(co[w])) = 1
    BY <1>3 DEF Reduced, If, Combined
  <2> QED BY <1>3, <2>1
<1>6. ExchangeData
  BY <1>2, <1>3, <1>5 DEF ExchangeData
<1>7. OTileData
  <2>1. \A w \in Warps : DrainedBy(w) \in Warps
    BY <1>1, LeaderDrains
  <2> QED BY <1>2, <1>3, <1>4, <2>1 DEF OTileData
<1>8. OutData
  <2>1. ASSUME NEW t \in Tiles PROVE ~(t <= 0)
    BY <1>1 DEF Tiles
  <2> QED BY <1>2, <1>4, <2>1 DEF OutData
<1> QED BY <1>6, <1>7, <1>8 DEF EpilogueData

LEMMA EpilogueDataHolds == Spec => []EpilogueData
<1>1. OInvariant /\ CorrectionData /\ RingFree /\ RingFree' /\ EpilogueData /\ [Next]_vars => EpilogueData'
  BY EpilogueDataStep DEF OInvariant
<1> QED BY <1>1, EpilogueDataStart, OHolds, CorrectionDataHolds, RingFreeHolds, PTL DEF Spec

-----------------------------------------------------------------------------
(* The contract.                                                            *)

LEMMA ContractNames ==
    /\ Contract!Tiles = Tiles /\ Contract!Warps = Warps /\ Contract!Unwritten = [w \in Warps |-> 0]
    /\ \A t : Contract!Answer(t) = [w \in Warps |-> t]
  BY DEF Contract!Tiles, Contract!Warps, Contract!Unwritten, Contract!Answer, Tiles, Warps

LEMMA ContractStart ==
    ASSUME Init
    PROVE  Contract!Init
<1>1. launch \in Launches /\ out = [t \in Tiles |-> [w \in Warps |-> 0]]
  BY DEF Init
<1> QED BY <1>1, ContractNames DEF Contract!Init

LEMMA ContractStore ==
    ASSUME NEW st, Control(st), EpilogueData, EpilogueStore
    PROVE  Contract!Next
<1> DEFINE t == ep.tile
<1>1. /\ launch' = launch /\ t \in Tiles /\ out' = [out EXCEPT ![t] = [w \in Warps |-> t]]
      /\ OStored(ep) = t - 1 /\ out = [u \in Tiles |-> [w \in Warps |-> IF u <= t - 1 THEN u ELSE 0]]
  <2>1. ExchangeData /\ OTileData /\ OutData
    BY DEF EpilogueData
  <2>2. /\ launch' = launch /\ t \in Tiles /\ out' = [out EXCEPT ![t] = [w \in Warps |-> t]]
        /\ OStored(ep) = t - 1
    BY <2>1, EpilogueWrites
  <2> HIDE DEF t
  <2> QED BY <2>1, <2>2 DEF OutData
<1>2. launch \in Launches /\ Len(launch.work) \in Nat
  BY LaunchFacts DEF Control, Registers
<1>3. t \in 1 .. Len(launch.work)
  BY <1>1 DEF Tiles
<1> HIDE DEF t
<1>4. out[t] = [w \in Warps |-> 0]
  <2>1. ~(t <= t - 1)
    BY <1>2, <1>3
  <2> QED BY <1>1, <2>1
<1>5. ASSUME NEW u \in 1 .. t - 1 PROVE out[u] = [w \in Warps |-> u]
  <2>1. u \in Tiles /\ u <= t - 1
    BY <1>2, <1>3 DEF Tiles
  <2> QED BY <1>1, <2>1
<1>6. Contract!Store(t)
  BY <1>1, <1>4, <1>5, ContractNames DEF Contract!Store
<1> QED BY <1>1, <1>6, ContractNames DEF Contract!Next

LEMMA OthersStutter ==
    ASSUME [Next]_vars, ~EpilogueStore
    PROVE  UNCHANGED <<launch, out>>
<1>1. CASE Load \/ EpilogueSignal \/ (\E c \in inflight : Land(c)) \/ TensorCore \/ Terminating \/ UNCHANGED vars
  BY <1>1 DEF Load, LoadQ, LoadKV, LoadSkip, LoadEpi, LoadTail, EpilogueSignal, Land, TensorCore,
              Terminating, vars, memory
<1>2. CASE Mma
  BY <1>2 DEF Mma, MmaQ, MmaSkip, MmaS, MmaSpo, MmaV, MmaPv, MmaK, MmaFree, memory
<1>3. CASE \E g \in Stage, w \in Warps : Softmax(g, w)
  BY <1>3 DEF Softmax, SoftmaxTile, SoftmaxScore, SoftmaxScale, SoftmaxP1, SoftmaxP2, SoftmaxSum,
              SoftmaxTail, memory
<1>4. CASE \E w \in Warps : Correction(w)
  BY <1>4 DEF Correction, CorrectionStart, CorrectionFirst, CorrectionScale, CorrectionRescale,
              CorrectionSum, CorrectionWaitO, CorrectionEmpty, CorrectionStats, CorrectionCombine,
              CorrectionStore, CorrectionTail, memory
<1> QED BY <1>1, <1>2, <1>3, <1>4 DEF Next, Epilogue

(* A CTA stores its tiles once each and in the order the scheduler hands     *)
(* them out, and every row of a stored tile is the sum of exactly the K/V    *)
(* groups of that tile, each with its own P and V and rescaled as often as   *)
(* the maximum was updated before it: whatever mix of empty and non-empty    *)
(* tiles, and however the six roles, the TMA copies and the tensor core      *)
(* interleave, the kernel implements TileOutputContract.                     *)
THEOREM ContractImplemented == Spec => ImplementsContract
<1>1. ControlInvariant /\ EpilogueData /\ [Next]_vars => [Contract!Next]_<<launch, out>>
  <2> SUFFICES ASSUME ControlInvariant, EpilogueData, [Next]_vars
               PROVE  [Contract!Next]_<<launch, out>>
    OBVIOUS
  <2>1. CASE EpilogueStore
    BY <2>1, ContractStore DEF ControlInvariant
  <2>2. CASE ~EpilogueStore
    BY <2>2, OthersStutter
  <2> QED BY <2>1, <2>2
<1> QED BY <1>1, ContractStart, ControlHolds, EpilogueDataHolds, PTL
        DEF Spec, ImplementsContract, Contract!Spec
=============================================================================
