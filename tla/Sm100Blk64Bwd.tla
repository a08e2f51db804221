---------------------------- MODULE Sm100Blk64Bwd ----------------------------
(***************************************************************************)
(* One CTA of the backward kernel of csrc/bwd/sm100_blk64/                 *)
(* bsa_bwd_sm100.py: it has one K/V block and walks the list of Q blocks   *)
(* that attend it (module BucketedK2QCsr), two at a time.  A load warp, an *)
(* MMA warp, eight compute warps and four reduce warps recompute P, form   *)
(* dS and add up dQ, dK and dV through ten mbarrier pipelines, with little *)
(* room: dP and dQ share one region of tensor memory, dQ leaves through    *)
(* two smem stages, and Q is kept for two iterations because dK is         *)
(* computed one iteration late.                                            *)
(*                                                                         *)
(* Iteration i (from 1) works on pair i of the list.  Every region holds   *)
(* the number of the pair whose data it has, so data flow as in the code   *)
(* and a product of pieces of different pairs is Broken.  Every pipeline   *)
(* state of a role advances once per iteration, so its stage and its phase *)
(* follow from the role's iteration count.                                 *)
(***************************************************************************)
EXTENDS Integers, Sequences, FiniteSets

CONSTANTS
    Launches   \* [edges : Seq(Q block), seqlen_q : Nat: the CTA's CSR list,
               \*  compute : the warps that share the columns of S and dP,
               \*  reduce : the warps that share the rows of dQ,
               \*  chunks : the pieces of 32 columns in which dQ is stored]

ASSUME LaunchesAssumption ==
    \A l \in Launches :
        /\ IsFiniteSet(l.compute) /\ l.compute # {}
        /\ IsFiniteSet(l.reduce) /\ l.reduce # {}
        /\ l.chunks \in Nat \ {0}
        /\ l.seqlen_q \in Nat /\ l.edges \in Seq(Nat)
        /\ \A i \in DOMAIN l.edges : l.edges[i] * 64 < l.seqlen_q
        /\ \A i, j \in DOMAIN l.edges : l.edges[i] = l.edges[j] => i = j

VARIABLES
    launch,                \* this CTA's list, never changed
    bar,                   \* [BarId -> mbarrier or named barrier]
    sQ, sK, sdO, sV,       \* smem tiles: two stages of Q, two halves each
    sLSE, sSum,            \* smem rows of LSE and of sum(O * dO)
    inflight,              \* TMA and cp.async copies under way
    sP, sdS,               \* smem tiles, the part of each compute warp
    sdQ, stores,           \* two smem stages of dQ, and the TMA stores under way
    tS, tdPdQ, tdK, tdV,   \* TMEM; dP and dQ are the same columns
    freed,                 \* TMEM was deallocated
    tc,                    \* the tensor core's queue
    gdQ, gdK, gdV,         \* what was added to the FP32 accumulators
    ld, mm, cw, rd         \* registers of each role

loaded == <<sQ, sK, sdO, sV, sLSE, sSum, inflight>>
tmem == <<tS, tdPdQ, tdK, tdV, freed>>
output == <<gdQ, gdK, gdV>>
vars == <<launch, bar, loaded, sP, sdS, sdQ, stores, tmem, tc, output, ld, mm, cw, rd>>

-----------------------------------------------------------------------------
(* Work.                                                                   *)

SparseBlockSize == 64
Broken == -1

\* Blocks of the Q tensor; rows beyond seqlen_q read as zeros and are not stored.
Block == 0 .. (launch.seqlen_q + SparseBlockSize - 1) \div SparseBlockSize - 1
Compute == launch.compute
Reduce == launch.reduce
Chunks == launch.chunks
Chunk == 0 .. Chunks - 1
Stage == 0 .. 1

HasWork == Len(launch.edges) > 0
Pairs == (Len(launch.edges) + 1) \div 2

\* q_block_idx_0 and q_block_idx_1 of pair i; an odd list is padded.
PairBlock(i, half) ==
    IF 2 * i - 1 + half <= Len(launch.edges)
    THEN launch.edges[2 * i - 1 + half]
    ELSE launch.seqlen_q \div SparseBlockSize

\* reduce: iter_count -= 2 while it is positive.
ReducePairs == Pairs

-----------------------------------------------------------------------------
(* Barriers.                                                               *)

QFull(s) == <<"q_full", s>>
QEmpty(s) == <<"q_empty", s>>
dOFull == <<"dO_full", 0>>
dOEmpty == <<"dO_empty", 0>>
LSEFull == <<"lse_full", 0>>
LSEEmpty == <<"lse_empty", 0>>
SumFull == <<"sum_full", 0>>
SumEmpty == <<"sum_empty", 0>>
SFull == <<"s_full", 0>>
SEmpty == <<"s_empty", 0>>
dPFull == <<"dP_full", 0>>
dPEmpty == <<"dP_empty", 0>>
dQFull == <<"dQ_full", 0>>
dQEmpty == <<"dQ_empty", 0>>
PFull == <<"p_full", 0>>
PEmpty == <<"p_empty", 0>>
dSFull == <<"dS_full", 0>>
dSEmpty == <<"dS_empty", 0>>
dKdVFull(s) == <<"dKdV_full", s>>
dKdVEmpty(s) == <<"dKdV_empty", s>>
TmemAlloc == <<"tmem_alloc", 0>>
ComputeSync == <<"compute_sync", 0>>
EpilogueSync == <<"epilogue_sync", 0>>
ReduceSync == <<"reduce_sync", 0>>

BarId ==
    {dOFull, dOEmpty, LSEFull, LSEEmpty, SumFull, SumEmpty, SFull, SEmpty,
     dPFull, dPEmpty, dQFull, dQEmpty, PFull, PEmpty, dSFull, dSEmpty,
     TmemAlloc, ComputeSync, EpilogueSync, ReduceSync}
    \cup {QFull(s) : s \in Stage} \cup {QEmpty(s) : s \in Stage}
    \cup {dKdVFull(s) : s \in Stage} \cup {dKdVEmpty(s) : s \in Stage}

\* Arrivals that complete a phase, in warps: the groups given to create().
Expected(b) ==
    CASE b[1] \in {"p_full", "dS_full", "s_empty", "dP_empty", "lse_empty",
                   "sum_empty", "dKdV_empty", "compute_sync", "epilogue_sync"} ->
            Cardinality(Compute)
      [] b[1] \in {"dQ_empty", "reduce_sync"} -> Cardinality(Reduce)
      [] b[1] = "tmem_alloc" -> 1 + Cardinality(Compute) + Cardinality(Reduce)
      [] OTHER -> 1

Fresh(b, par) == [par |-> par, left |-> Expected(b), tx |-> 0]

\* A phase is over with its last arrival and its last expected byte.
Settle(b, x) == IF x.left = 0 /\ x.tx = 0 THEN Fresh(b, 1 - x.par) ELSE x

Arrive(bars) ==
    bar' = [b \in BarId |->
              IF b \in bars THEN Settle(b, [bar[b] EXCEPT !.left = @ - 1])
              ELSE bar[b]]

\* Bytes are counted in halves of a Q tile, which K and V are as well.
ArriveAndExpect(b, bytes) ==
    bar' = [bar EXCEPT ![b].left = @ - 1, ![b].tx = @ + bytes]

CompleteTx(b) == bar' = [bar EXCEPT ![b] = Settle(b, [bar[b] EXCEPT !.tx = @ - 1])]

\* mbarrier.try_wait.parity
Done(b, phase) == bar[b].par # phase

\* The phase of a state that has advanced n times, with one stage or two.
ConsumerPhase(n) == n % 2
\* A bug for the runs to find: producers start with the consumer's phase.
ProducerPhaseUnflipped(n) == n % 2
ProducerPhase(n) == 1 - (n % 2)
ConsumerPhase2(n) == (n \div 2) % 2
ProducerPhase2(n) == 1 - ((n \div 2) % 2)

-----------------------------------------------------------------------------

Init ==
    /\ launch \in Launches
    /\ bar = [b \in BarId |-> Fresh(b, 0)]
    /\ sQ = [s \in Stage |-> [h \in Stage |-> 0]] /\ sK = FALSE
    /\ sdO = [h \in Stage |-> 0] /\ sV = FALSE
    /\ sLSE = 0 /\ sSum = 0 /\ inflight = {}
    /\ sP = [w \in Compute |-> 0] /\ sdS = [w \in Compute |-> 0]
    /\ sdQ = [s \in Stage |-> [r \in Reduce |-> <<0, 0>>]] /\ stores = {}
    /\ tS = 0 /\ tdPdQ = <<"none", 0>> /\ tdK = 0 /\ tdV = 0 /\ freed = FALSE
    /\ tc = <<>>
    /\ gdQ = [b \in Block |-> [c \in Chunk |-> 0]]
    /\ gdK = [w \in Compute |-> 0] /\ gdV = [w \in Compute |-> 0]
    /\ ld = [pc |-> IF HasWork THEN "q" ELSE "done", n |-> 0]
    /\ mm = [pc |-> IF HasWork THEN "alloc" ELSE "done", n |-> 0]
    /\ cw = [w \in Compute |-> [pc |-> IF HasWork THEN "alloc" ELSE "done",
                                n |-> 0, p |-> 0]]
    /\ rd = [r \in Reduce |-> [pc |-> IF HasWork THEN "alloc" ELSE "done",
                               n |-> 0, i |-> 0, dq |-> 0]]

-----------------------------------------------------------------------------
(* Load warp.                                                              *)

Copy(to, half, pair) == [to |-> to, half |-> half, pair |-> pair]

\* mbarrier_expect_tx on top of what producer_acquire expects: K comes with Q
\* the first time, as does V with dO.
Bytes(n) == IF n = 0 THEN 3 ELSE 2

LoadQ ==
    LET s == ld.n % 2 IN
    /\ ld.pc = "q"
    /\ Done(QEmpty(s), ProducerPhase2(ld.n))
    /\ ArriveAndExpect(QFull(s), Bytes(ld.n))
    /\ sQ' = [sQ EXCEPT ![s] = [h \in Stage |-> 0]]
    /\ inflight' = inflight \cup {Copy("Q", h, ld.n + 1) : h \in Stage}
                     \cup (IF ld.n = 0 THEN {Copy("K", 0, 1)} ELSE {})
    /\ ld' = [ld EXCEPT !.pc = "lse"]
    /\ UNCHANGED <<launch, sK, sdO, sV, sLSE, sSum, sP, sdS, sdQ, stores, tmem,
                   tc, output, mm, cw, rd>>

\* cp.async of both blocks' rows; the arrival comes with the last byte.
LoadLSE ==
    /\ ld.pc = "lse"
    /\ Done(LSEEmpty, ProducerPhase(ld.n))
    /\ sLSE' = 0
    /\ inflight' = inflight \cup {Copy("LSE", 0, ld.n + 1)}
    /\ ld' = [ld EXCEPT !.pc = "dO"]
    /\ UNCHANGED <<launch, bar, sQ, sK, sdO, sV, sSum, sP, sdS, sdQ, stores,
                   tmem, tc, output, mm, cw, rd>>

LoaddO ==
    /\ ld.pc = "dO"
    /\ Done(dOEmpty, ProducerPhase(ld.n))
    /\ ArriveAndExpect(dOFull, Bytes(ld.n))
    /\ sdO' = [h \in Stage |-> 0]
    /\ inflight' = inflight \cup {Copy("dO", h, ld.n + 1) : h \in Stage}
                     \cup (IF ld.n = 0 THEN {Copy("V", 0, 1)} ELSE {})
    /\ ld' = [ld EXCEPT !.pc = "sum"]
    /\ UNCHANGED <<launch, sQ, sK, sV, sLSE, sSum, sP, sdS, sdQ, stores, tmem,
                   tc, output, mm, cw, rd>>

LoadSumOdO ==
    /\ ld.pc = "sum"
    /\ Done(SumEmpty, ProducerPhase(ld.n))
    /\ sSum' = 0
    /\ inflight' = inflight \cup {Copy("sum", 0, ld.n + 1)}
    /\ ld' = [pc |-> IF ld.n + 1 = Pairs THEN "done" ELSE "q", n |-> ld.n + 1]
    /\ UNCHANGED <<launch, bar, sQ, sK, sdO, sV, sLSE, sP, sdS, sdQ, stores,
                   tmem, tc, output, mm, cw, rd>>

Load == LoadQ \/ LoadLSE \/ LoaddO \/ LoadSumOdO

\* A copy is complete.
Land(c) ==
    LET s == (c.pair - 1) % 2 IN
    /\ c \in inflight
    /\ inflight' = inflight \ {c}
    /\ sQ' = IF c.to = "Q" THEN [sQ EXCEPT ![s][c.half] = c.pair] ELSE sQ
    /\ sdO' = IF c.to = "dO" THEN [sdO EXCEPT ![c.half] = c.pair] ELSE sdO
    /\ sK' = (sK \/ c.to = "K") /\ sV' = (sV \/ c.to = "V")
    /\ sLSE' = IF c.to = "LSE" THEN c.pair ELSE sLSE
    /\ sSum' = IF c.to = "sum" THEN c.pair ELSE sSum
    /\ CASE c.to \in {"Q", "K"} -> CompleteTx(QFull(s))
         [] c.to \in {"dO", "V"} -> CompleteTx(dOFull)
         [] c.to = "LSE" -> Arrive({LSEFull})
         [] c.to = "sum" -> Arrive({SumFull})
    /\ UNCHANGED <<launch, sP, sdS, sdQ, stores, tmem, tc, output, ld, mm, cw, rd>>

-----------------------------------------------------------------------------
(* MMA warp: issues operations, each with the barriers committed after it.  *)

Op(do, s, arrive) == [do |-> do, slot |-> s, arrive |-> arrive]

Issue(ops) == tc' = tc \o ops

MmaUnchanged ==
    UNCHANGED <<launch, loaded, sP, sdS, sdQ, stores, tmem, output, ld, cw, rd>>

\* tmem.allocate, wait_for_alloc
MmaAlloc ==
    /\ \/ /\ mm.pc = "alloc" /\ Arrive({TmemAlloc})
          /\ mm' = [mm EXCEPT !.pc = "allocated"]
       \/ /\ mm.pc = "allocated" /\ Done(TmemAlloc, 0)
          /\ mm' = [mm EXCEPT !.pc = "q"] /\ UNCHANGED bar
    /\ UNCHANGED tc /\ MmaUnchanged

\* A bug for the runs to find: dP does not wait for dQ, which it overwrites.
MmaWaitNodQ ==
    /\ \/ /\ mm.pc = "q" /\ Done(QFull(mm.n % 2), ConsumerPhase2(mm.n))
          /\ mm' = [mm EXCEPT !.pc = "s"]
       \/ /\ mm.pc = "ds" /\ Done(dSFull, ConsumerPhase(mm.n - 1))
          /\ mm' = [mm EXCEPT !.pc = "dp"]
       \/ /\ mm.pc = "dq"
          /\ mm' = [mm EXCEPT !.pc = "dO"]
    /\ UNCHANGED <<bar, tc>> /\ MmaUnchanged

\* The waits of the MMA warp that are followed by another wait.
MmaWait ==
    /\ \/ /\ mm.pc = "q" /\ Done(QFull(mm.n % 2), ConsumerPhase2(mm.n))
          /\ mm' = [mm EXCEPT !.pc = "s"]
       \/ /\ mm.pc = "ds" /\ Done(dSFull, ConsumerPhase(mm.n - 1))
          /\ mm' = [mm EXCEPT !.pc = "dp"]
       \/ /\ mm.pc = "dq" /\ Done(dQEmpty, ProducerPhase(mm.n))
          /\ mm' = [mm EXCEPT !.pc = "dO"]
    /\ UNCHANGED <<bar, tc>> /\ MmaUnchanged

\* A bug for the runs to find: Q is given back when S is done.
ArrivesWithQ(n) == {SFull, QEmpty(n % 2)}

ArrivesAfterS(n) == {SFull}

\* S = Q K^T of this iteration; the first one goes straight on to dP.
MmaS ==
    /\ mm.pc = "s"
    /\ Done(SEmpty, ProducerPhase(mm.n))
    /\ Issue(<<Op("S", mm.n % 2, ArrivesAfterS(mm.n))>>)
    /\ mm' = [mm EXCEPT !.pc = IF mm.n = 0 THEN "dO" ELSE "ds"]
    /\ UNCHANGED bar /\ MmaUnchanged

\* dQ and dK of the iteration before; then Q and dS are given back.
MmadQdK ==
    LET s == (mm.n - 1) % 2 IN
    /\ mm.pc = "dp"
    /\ Done(dPEmpty, ProducerPhase(mm.n))
    /\ Issue(<<Op("dQ", s, {dQFull}), Op("dK", s, {QEmpty(s), dSEmpty})>>)
    /\ mm' = [mm EXCEPT !.pc = "dq"]
    /\ UNCHANGED bar /\ MmaUnchanged

\* dP = dO V^T.  The first iteration acquires dP and dQ here.
MmadP ==
    /\ \/ /\ mm.pc = "dO" /\ Done(dOFull, ConsumerPhase(mm.n))
          /\ IF mm.n = 0
             THEN mm' = [mm EXCEPT !.pc = "dp0"] /\ UNCHANGED tc
             ELSE mm' = [mm EXCEPT !.pc = "p"] /\ Issue(<<Op("dP", 0, {dPFull})>>)
       \/ /\ mm.pc = "dp0" /\ Done(dPEmpty, ProducerPhase(0))
          /\ Done(dQEmpty, ProducerPhase(0))
          /\ mm' = [mm EXCEPT !.pc = "p"] /\ Issue(<<Op("dP", 0, {dPFull})>>)
    /\ UNCHANGED bar /\ MmaUnchanged

\* dV += dO^T P; then P and dO are given back.
MmadV ==
    /\ mm.pc = "p"
    /\ Done(PFull, ConsumerPhase(mm.n))
    /\ Issue(<<Op("dV", 0, {PEmpty, dOEmpty})>>)
    /\ mm' = [pc |-> IF mm.n + 1 < Pairs THEN "q" ELSE "kv0", n |-> mm.n + 1]
    /\ UNCHANGED bar /\ MmaUnchanged

\* dV is done; the last dK, and after it the last dQ.
MmaTail ==
    LET s == (mm.n - 1) % 2 IN
    /\ \/ /\ mm.pc = "kv0" /\ Done(dKdVEmpty(0), ProducerPhase2(0))
          /\ Issue(<<Op("none", 0, {dKdVFull(0)})>>)
          /\ mm' = [mm EXCEPT !.pc = "kv1"]
       \/ /\ mm.pc = "kv1" /\ Done(dKdVEmpty(1), ProducerPhase2(1))
          /\ mm' = [mm EXCEPT !.pc = "lastds"] /\ UNCHANGED tc
       \/ /\ mm.pc = "lastds" /\ Done(dSFull, ConsumerPhase(mm.n - 1))
          /\ Issue(<<Op("dK", s, {dKdVFull(1)}),
                     Op("dQ", s, {dQFull, QEmpty(s), dSEmpty})>>)
          /\ mm' = [mm EXCEPT !.pc = "done"]
    /\ UNCHANGED bar /\ MmaUnchanged

Mma == MmaAlloc \/ MmaWait \/ MmaS \/ MmadQdK \/ MmadP \/ MmadV \/ MmaTail

-----------------------------------------------------------------------------
(* Tensor core: the operation at the head of its queue.                    *)

QTile(s) == IF sQ[s][0] = sQ[s][1] /\ sK THEN sQ[s][0] ELSE Broken
dOTile == IF sdO[0] = sdO[1] /\ sV THEN sdO[0] ELSE Broken

\* The pair a tile written by all compute warps belongs to.
TileOf(parts) ==
    IF \E i \in 1 .. Pairs : \A w \in Compute : parts[w] = i
    THEN CHOOSE i \in 1 .. Pairs : \A w \in Compute : parts[w] = i
    ELSE Broken

\* An accumulator holds the pairs 1 .. acc; ACCUMULATE is off for the first.
Accumulate(acc, a, b) == IF a = b /\ (a = 1 \/ a = acc + 1) THEN a ELSE Broken

TensorCore ==
    /\ tc # <<>>
    /\ LET op == Head(tc) IN
       /\ tS' = IF op.do = "S" THEN QTile(op.slot) ELSE tS
       /\ tdPdQ' = CASE op.do = "dP" -> <<"dP", dOTile>>
                     [] op.do = "dQ" -> <<"dQ", TileOf(sdS)>>
                     [] OTHER -> tdPdQ
       /\ tdV' = IF op.do = "dV" THEN Accumulate(tdV, dOTile, TileOf(sP)) ELSE tdV
       /\ tdK' = IF op.do = "dK"
                 THEN Accumulate(tdK, QTile(op.slot), TileOf(sdS)) ELSE tdK
       /\ Arrive(op.arrive)
    /\ tc' = Tail(tc)
    /\ UNCHANGED <<launch, loaded, sP, sdS, sdQ, stores, freed, output, ld, mm,
                   cw, rd>>

-----------------------------------------------------------------------------
(* Compute warp w.                                                         *)

ComputeUnchanged ==
    UNCHANGED <<launch, loaded, sdQ, stores, tS, tdPdQ, tdK, tdV, tc, gdQ, ld,
                mm, rd>>

\* Waits that are followed by another wait.
ComputeWait(w) ==
    LET me == cw[w]
        Go(pc) == cw' = [cw EXCEPT ![w].pc = pc]
    IN  /\ \/ /\ me.pc = "alloc" /\ Go("allocated") /\ Arrive({TmemAlloc})
           \/ /\ me.pc = "allocated" /\ Done(TmemAlloc, 0)
              /\ Go("s") /\ UNCHANGED bar
           \/ /\ me.pc = "s" /\ Done(SFull, ConsumerPhase(me.n))
              /\ Go("p") /\ UNCHANGED bar
           \/ /\ me.pc = "p" /\ Done(PEmpty, ProducerPhase(me.n))
              /\ Go("lse") /\ UNCHANGED bar
           \/ /\ me.pc = "sum" /\ Done(SumFull, ConsumerPhase(me.n))
              /\ Go("dp") /\ UNCHANGED bar
           \/ /\ me.pc = "dp" /\ Done(dPFull, ConsumerPhase(me.n))
              /\ Go("ds") /\ UNCHANGED bar
        /\ UNCHANGED <<sP, sdS, freed, gdK, gdV>> /\ ComputeUnchanged

\* P = exp2(S + LSE) in registers; then the compute warps meet.
ComputeP(w) ==
    LET me == cw[w] IN
    /\ me.pc = "lse" /\ Done(LSEFull, ConsumerPhase(me.n))
    /\ Arrive({ComputeSync})
    /\ cw' = [cw EXCEPT ![w].pc = "sync",
                        ![w].p = IF sLSE = tS THEN tS ELSE Broken]
    /\ UNCHANGED <<sP, sdS, freed, gdK, gdV>> /\ ComputeUnchanged

\* P goes to shared memory; S and LSE are given back.
ComputeStoreP(w) ==
    LET me == cw[w] IN
    /\ me.pc = "sync" /\ Done(ComputeSync, ConsumerPhase(me.n))
    /\ sP' = [sP EXCEPT ![w] = me.p]
    /\ Arrive({PFull, SEmpty, LSEEmpty})
    /\ cw' = [cw EXCEPT ![w].pc = "sum"]
    /\ UNCHANGED <<sdS, freed, gdK, gdV>> /\ ComputeUnchanged

\* dS = P * (dP + sum_OdO); dP and sum_OdO are given back.
ComputedS(w) ==
    LET me == cw[w]
        right == tdPdQ = <<"dP", me.p>> /\ sSum = me.p
    IN  /\ me.pc = "ds" /\ Done(dSEmpty, ProducerPhase(me.n))
        /\ sdS' = [sdS EXCEPT ![w] = IF right THEN me.p ELSE Broken]
        /\ Arrive({dPEmpty, dSFull, SumEmpty})
        /\ cw' = [cw EXCEPT ![w] = [pc |-> IF me.n + 1 < Pairs THEN "s" ELSE "dv",
                                    n |-> me.n + 1, p |-> 0]]
        /\ UNCHANGED <<sP, freed, gdK, gdV>> /\ ComputeUnchanged

\* epilogue: first dV, then dK, is added to its accumulator atomically.
ComputeAdd(w) ==
    LET me == cw[w] IN
    /\ \/ /\ me.pc = "dv" /\ Done(dKdVFull(0), ConsumerPhase2(0))
          /\ gdV' = [gdV EXCEPT ![w] = tdV] /\ UNCHANGED gdK
          /\ Arrive({dKdVEmpty(0)})
          /\ cw' = [cw EXCEPT ![w].pc = "dk"]
       \/ /\ me.pc = "dk" /\ Done(dKdVFull(1), ConsumerPhase2(1))
          /\ gdK' = [gdK EXCEPT ![w] = tdK] /\ UNCHANGED gdV
          /\ Arrive({dKdVEmpty(1), EpilogueSync})
          /\ cw' = [cw EXCEPT ![w].pc = "epilogue"]
    /\ UNCHANGED <<sP, sdS, freed>> /\ ComputeUnchanged

\* The compute warp that frees tensor memory: warp_idx % 8 = 0.
Deallocator == CHOOSE w \in Compute : TRUE

\* A bug for the runs to find: TMEM is freed without meeting the other warps.
ComputeFreeAlone(w) ==
    /\ cw[w].pc = "epilogue"
    /\ freed' = (freed \/ w = Deallocator)
    /\ cw' = [cw EXCEPT ![w].pc = "done"]
    /\ UNCHANGED <<bar, sP, sdS, gdK, gdV>> /\ ComputeUnchanged

ComputeFree(w) ==
    /\ cw[w].pc = "epilogue" /\ Done(EpilogueSync, 0)
    /\ freed' = (freed \/ w = Deallocator)
    /\ cw' = [cw EXCEPT ![w].pc = "done"]
    /\ UNCHANGED <<bar, sP, sdS, gdK, gdV>> /\ ComputeUnchanged

ComputeStep(w) ==
    \/ ComputeWait(w) \/ ComputeP(w) \/ ComputeStoreP(w) \/ ComputedS(w)
    \/ ComputeAdd(w) \/ ComputeFree(w)

-----------------------------------------------------------------------------
(* Reduce warp r, and the TMA stores warp 0 issues.                        *)

ReduceLeader == CHOOSE r \in Reduce : TRUE
StoreCount(me) == me.n * Chunks + me.i   \* stores of this CTA before this one
StoreStage(me) == StoreCount(me) % 2

ReduceUnchanged ==
    UNCHANGED <<launch, loaded, sP, sdS, tmem, tc, output, ld, mm, cw>>

ReduceAlloc(r) ==
    /\ \/ /\ rd[r].pc = "alloc" /\ Arrive({TmemAlloc})
          /\ rd' = [rd EXCEPT ![r].pc = "allocated"]
       \/ /\ rd[r].pc = "allocated" /\ Done(TmemAlloc, 0)
          /\ rd' = [rd EXCEPT ![r].pc = "dq"] /\ UNCHANGED bar
    /\ UNCHANGED <<sdQ, stores>> /\ ReduceUnchanged

\* dQ goes from TMEM to registers, and its columns are free again.
ReduceRead(r) ==
    LET me == rd[r] IN
    /\ me.pc = "dq" /\ Done(dQFull, ConsumerPhase(me.n))
    /\ Arrive({dQEmpty})
    /\ rd' = [rd EXCEPT ![r].pc = "acquire", ![r].i = 0,
                ![r].dq = IF tdPdQ[1] = "dQ" THEN tdPdQ[2] ELSE Broken]
    /\ UNCHANGED <<sdQ, stores>> /\ ReduceUnchanged

\* A bug for the runs to find: warp 0 does not wait for the older stores.
ReduceAcquireAnyway(r) ==
    /\ rd[r].pc = "acquire"
    /\ Arrive({ReduceSync})
    /\ rd' = [rd EXCEPT ![r].pc = "sync0"]
    /\ UNCHANGED <<sdQ, stores>> /\ ReduceUnchanged

\* Warp 0: all but the latest of its stores have been read; then all meet.
ReduceAcquire(r) ==
    /\ rd[r].pc = "acquire"
    /\ r = ReduceLeader => \A g \in stores : g.k = StoreCount(rd[r]) - 1
    /\ Arrive({ReduceSync})
    /\ rd' = [rd EXCEPT ![r].pc = "sync0"]
    /\ UNCHANGED <<sdQ, stores>> /\ ReduceUnchanged

ReduceStage(r) ==
    LET me == rd[r] IN
    /\ me.pc = "sync0" /\ Done(ReduceSync, 0)
    /\ sdQ' = [sdQ EXCEPT ![StoreStage(me)][r] = <<me.dq, me.i>>]
    /\ Arrive({ReduceSync})
    /\ rd' = [rd EXCEPT ![r].pc = "sync1"]
    /\ UNCHANGED stores /\ ReduceUnchanged

\* Warp 0 stores the chunk for both blocks of the pair, as one bulk group.
ReduceStore(r) ==
    LET me == rd[r]
        last == me.i + 1 = Chunks
    IN  /\ me.pc = "sync1" /\ Done(ReduceSync, 1)
        /\ stores' = IF r = ReduceLeader
                     THEN stores \cup {[k |-> StoreCount(me), pair |-> me.n + 1,
                                        chunk |-> me.i, stage |-> StoreStage(me)]}
                     ELSE stores
        /\ rd' = [rd EXCEPT ![r].pc = IF ~last THEN "acquire"
                                      ELSE IF me.n + 1 < ReducePairs THEN "dq"
                                      ELSE "tail",
                            ![r].i = IF last THEN 0 ELSE me.i + 1,
                            ![r].n = IF last THEN @ + 1 ELSE @,
                            ![r].dq = IF last THEN 0 ELSE @]
        /\ UNCHANGED <<bar, sdQ>> /\ ReduceUnchanged

\* producer_tail: the stores have been read.
ReduceTail(r) ==
    /\ rd[r].pc = "tail"
    /\ r = ReduceLeader => stores = {}
    /\ rd' = [rd EXCEPT ![r].pc = "done"]
    /\ UNCHANGED <<bar, sdQ, stores>> /\ ReduceUnchanged

ReduceStep(r) ==
    \/ ReduceAlloc(r) \/ ReduceRead(r) \/ ReduceAcquire(r) \/ ReduceStage(r)
    \/ ReduceStore(r) \/ ReduceTail(r)

Added(x, right) == IF right /\ x # Broken THEN x + 1 ELSE Broken

\* The TMA engine reads the stage and adds it to dQ of the two blocks; blocks
\* out of bounds are dropped.
StoreRead(g) ==
    LET right == \A r \in Reduce : sdQ[g.stage][r] = <<g.pair, g.chunk>>
        Times(b) == Cardinality({h \in Stage : PairBlock(g.pair, h) = b})
    IN  /\ g \in stores
        /\ stores' = stores \ {g}
        /\ gdQ' = [b \in Block |-> IF Times(b) = 0 THEN gdQ[b]
                     ELSE [gdQ[b] EXCEPT ![g.chunk] = Added(@ + Times(b) - 1, right)]]
        /\ UNCHANGED <<launch, bar, loaded, sP, sdS, sdQ, tmem, tc, gdK, gdV, ld,
                       mm, cw, rd>>

-----------------------------------------------------------------------------

\* Every warp has returned from its role.
Exited ==
    /\ ld.pc = "done" /\ mm.pc = "done"
    /\ \A w \in Compute : cw[w].pc = "done"
    /\ \A r \in Reduce : rd[r].pc = "done"

Terminating ==
    Exited /\ tc = <<>> /\ inflight = {} /\ stores = {} /\ UNCHANGED vars

Next ==
    \/ Load \/ Mma \/ TensorCore
    \/ \E c \in inflight : Land(c)
    \/ \E g \in stores : StoreRead(g)
    \/ \E w \in Compute : ComputeStep(w)
    \/ \E r \in Reduce : ReduceStep(r)
    \/ Terminating

Spec == Init /\ [][Next]_vars

\* The hardware does not stop while a warp, a copy or an MMA can go on.  No
\* step repeats, so it need not be fair to each of them.
Fairness == WF_vars(Next)

FairSpec == Spec /\ Fairness

-----------------------------------------------------------------------------
(* Properties                                                              *)

Queued == {tc[i] : i \in DOMAIN tc}

(* From the moment an MMA is issued until the tensor core has executed it    *)
(* its operands stay in shared memory and belong together.  Q is the hard    *)
(* one: dK reads it an iteration after S did, so it is released with a state *)
(* of its own (load_mma_Q_release_state) that lags the one S waits with.     *)
OperandsHeld ==
    \A op \in Queued :
        /\ op.do = "S" => QTile(op.slot) > 0
        /\ op.do = "dP" => dOTile > 0
        /\ op.do = "dV" => dOTile > 0 /\ TileOf(sP) = dOTile
        /\ op.do = "dK" => QTile(op.slot) > 0 /\ TileOf(sdS) = QTile(op.slot)
        /\ op.do = "dQ" => TileOf(sdS) > 0

\* The pairs whose S a compute warp, whose dQ a reduce warp has read.
SRead(w) == cw[w].n + (IF cw[w].p # 0 THEN 1 ELSE 0)
dQRead(r) == rd[r].n + (IF rd[r].dq # 0 THEN 1 ELSE 0)

(* dP and dQ are the same columns of tensor memory, so two pipelines guard   *)
(* them at once: when dQ is issued every compute warp has read dP, when dP   *)
(* is issued every reduce warp has read dQ.  The last dQ is issued without   *)
(* acquiring dP.  S is overwritten only when every compute warp has read it. *)
TmemHandedOver ==
    \A op \in Queued :
        /\ op.do = "S" => \A w \in Compute : SRead(w) >= tS
        /\ (op.do \in {"dP", "dQ"} /\ tdPdQ[1] = "dP") =>
              \A w \in Compute : cw[w].n >= tdPdQ[2]
        /\ (op.do = "dP" /\ tdPdQ[1] = "dQ") =>
              \A r \in Reduce : dQRead(r) >= tdPdQ[2]

(* The compute warps free tensor memory when they have met after their last  *)
(* read, but nothing makes them wait for the reduce warps: all that may be   *)
(* left in tensor memory then is the last dQ, whose pair no other role has   *)
(* work for any more.                                                        *)
OnlyLastdQAfterFree ==
    freed => /\ \A w \in Compute : gdV[w] = Pairs /\ gdK[w] = Pairs
             /\ Len(tc) <= 1 /\ \A op \in Queued : op.do = "dQ"
             /\ mm.pc = "done" /\ ld.pc = "done" /\ inflight = {}
             /\ \A r \in Reduce : dQRead(r) >= Pairs - 1

\* What an accumulator over the pairs 1 .. acc holds of each Q block.
Contributions(acc) ==
    [b \in Block |-> Cardinality({ih \in (1 .. acc) \X Stage :
                                    PairBlock(ih[1], ih[2]) = b})]

\* Each listed block is added once to each gradient, and no other block is.
Contract == INSTANCE GradientContract
    WITH dQ <- gdQ, dK <- [w \in Compute |-> Contributions(gdK[w])],
         dV <- [w \in Compute |-> Contributions(gdV[w])]
ImplementsContract == Contract!Spec

(* "out of box, tma can fill zeros automatically": the block that pads an    *)
(* odd list adds nothing to dK, so every block is in it as often as listed.  *)
PaddingAddsNothing ==
    \A w \in Compute : Contributions(gdK[w]) \in {Contract!Nothing, Contract!Once}

(* Every gradient is added in full and every warp leaves its role: there is  *)
(* no cycle among the waits of the five roles on the ten pipelines.          *)
EveryGradientAdded == <>(Exited /\ Contract!Complete)
===============================================================================
