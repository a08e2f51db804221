----------------------------- MODULE Sm100Blk128Bwd -----------------------------
(***************************************************************************)
(* One CTA of the Blackwell backward kernel for blocks of 128, of          *)
(* csrc/bwd/sm100_blk128/bsa_bwd_sm100.py.  It has one K/V block and the   *)
(* list of Q blocks that attend it.  A load warp, an MMA warp, two         *)
(* warpgroups of compute warps and four reduce warps share tensor memory   *)
(* that has no room to spare: P takes the columns of S, dS and after it dQ *)
(* take the columns of dP, and dV and dK leave through the memory of dO    *)
(* and Q.  The two warpgroups split the columns, so that what one writes   *)
(* lies in what the other still has to read.                               *)
(***************************************************************************)
EXTENDS Integers, Sequences, FiniteSets, Mbarrier

VARIABLES
    launch,     \* [edges : Seq(Q block), warps : warps of a compute warpgroup, reduce :
                \*  reduce warps, chunks : of dQ, accum : dK and dV are added to FP32]
    bar,        \* mbarriers and named barriers
    smem,       \* whose data a tile has
    inflight,   \* TMA and bulk copies under way
    tmem,       \* whose data the columns have
    tc,         \* the tensor core's queue
    warp,       \* registers of each role
    out         \* what each piece of dQ, dK and dV is

vars == <<launch, bar, smem, inflight, tmem, tc, warp, out>>

Group == 0 .. 1
Compute == Group \X launch.warps
Leader(c) == c[2] = CHOOSE w \in launch.warps : TRUE
Reduce == launch.reduce
ReduceLeader == CHOOSE r \in Reduce : TRUE
N == Len(launch.edges)            \* loop_count
Blk(j) == launch.edges[j + 1]     \* of iteration j, from 0
Listed == {launch.edges[i] : i \in 1 .. N}
Chunk == 0 .. launch.chunks - 1
EpiStage == 0 .. (IF launch.accum THEN 1 ELSE 0)
LastEpi == IF launch.accum THEN 1 ELSE 0
QStage == 2
Garbage == -1

BarId ==
    ({"q_full", "q_empty", "lse_full", "lse_empty", "dkv_full", "dkv_empty"} \X Group)
    \cup ({"do_full", "do_empty", "psum_full", "psum_empty", "s_full", "s_empty", "dp_full",
           "dq_full", "dq_empty", "ds_full", "ds_empty",
           "tmem_alloc", "compute_sync", "reduce_sync"} \X {0})
    \cup ({"epi", "epi_free"} \X Group)
Arrivals(b) ==
    CASE b[1] \in {"lse_empty", "psum_empty", "s_empty", "ds_full", "dkv_empty", "compute_sync"} ->
            Cardinality(Compute)
      [] b[1] \in {"dq_empty", "reduce_sync"} -> Cardinality(Reduce)
      [] b[1] = "tmem_alloc" -> 1 + Cardinality(Compute) + Cardinality(Reduce)
      [] b[1] = "epi" -> Cardinality(launch.warps)
      [] b[1] = "epi_free" -> Cardinality(launch.warps) + 1
      [] OTHER -> 1
At0(name) == <<name, 0>>
Over(name, n) == Passed(bar[At0(name)], FullPhase(n, 1))

\* A tile of shared memory, in the parts the compute warps write: the block
\* loaded, or the sum that leaves through it.
Parts(x) == [c \in Compute |-> x]
Tile(m) == [is |-> "tile", of |-> {m}, e |-> 0]
SumOf(name, terms, e) == [is |-> name, of |-> terms, e |-> e]
Column == 0 .. 7
Columns(x) == [w \in launch.warps |-> [i \in Column |-> x]]
In(name, m) == <<name, m>>

Work(pc) == IF N > 0 THEN pc ELSE "done"

\* The first thing the compute and the reduce warps do is arrive at tmem_alloc:
\* they have, and only the MMA warp's arrival is still to come.
Init ==
    /\ bar = [[b \in BarId |-> Fresh(Arrivals(b))] EXCEPT ![At0("tmem_alloc")].left = 1]
    /\ smem = [q |-> [s \in Group |-> Parts(Tile(Garbage))], do |-> Parts(Tile(Garbage)),
               lse |-> [s \in Group |-> Garbage], psum |-> Garbage, k |-> FALSE, v |-> FALSE,
               ds |-> Parts(Garbage), dq |-> [s \in Group |-> [r \in Reduce |-> In(Garbage, 0)]]]
    /\ tmem = [s |-> Parts(In("none", 0)), dp |-> Columns(In("none", 0)),
               dk |-> {}, dv |-> {}, freed |-> FALSE]
    /\ inflight = {} /\ tc = <<>>
    /\ warp = [load |-> [pc |-> Work("q"), j |-> 0],
               mma |-> [pc |-> "alloc", n |-> 0],
               compute |-> Parts([pc |-> IF N > 0 THEN "s" ELSE "zero", j |-> 0, par |-> 0, h |-> 0,
                                  s |-> Garbage, p |-> Garbage, dp |-> Garbage, g |-> "dV"]),
               reduce |-> [r \in Reduce |-> [pc |-> IF N > 0 THEN "dq" ELSE "leave", n |-> 0, i |-> 0, dq |-> Garbage]]]
    /\ out = [i \in ({"dQ"} \X Listed \X Chunk)
                    \cup (IF N > 0 THEN {"dK", "dV"} \X Group \X EpiStage
                          ELSE IF launch.accum THEN {} ELSE {"dK", "dV"} \X launch.warps \X {0})
                |-> "unwritten"]

-----------------------------------------------------------------------------
(* Load warp: produce_bsa_k2q_csr_q_loads_bwd_sm100.                       *)

Copy(k, j) == [k |-> k, j |-> j]
Load_(pc, j) == warp' = [warp EXCEPT !.load = [pc |-> pc, j |-> j]]
QS(j) == j % QStage

\* extra_tx_count: K comes with the first Q, V with the first dO; here they land
\* together, as the barrier counts them together.
LoadQ ==
    LET j == warp.load.j IN
    /\ warp.load.pc = "q"
    /\ Passed(bar[<<"q_empty", QS(j)>>], EmptyPhase(j, QStage))
    /\ bar' = ExpectAt(bar, <<"q_full", QS(j)>>, 1)
    /\ smem' = [smem EXCEPT !.q[QS(j)] = Parts(Tile(Garbage))]
    /\ inflight' = inflight \cup {Copy("q", j)}
    /\ Load_("lse", j)
    /\ UNCHANGED <<launch, tmem, tc, out>>

LoadLSE ==
    LET j == warp.load.j IN
    /\ warp.load.pc = "lse"
    /\ Passed(bar[<<"lse_empty", QS(j)>>], EmptyPhase(j, QStage))
    /\ bar' = ExpectAt(bar, <<"lse_full", QS(j)>>, 1)
    /\ smem' = [smem EXCEPT !.lse[QS(j)] = Garbage]
    /\ inflight' = inflight \cup {Copy("lse", j)}
    /\ Load_("do", j)
    /\ UNCHANGED <<launch, tmem, tc, out>>

LoaddO ==
    LET j == warp.load.j IN
    /\ warp.load.pc = "do"
    /\ Passed(bar[At0("do_empty")], EmptyPhase(j, 1))
    /\ bar' = ExpectAt(bar, At0("do_full"), 1)
    /\ smem' = [smem EXCEPT !.do = Parts(Tile(Garbage))]
    /\ inflight' = inflight \cup {Copy("do", j)}
    /\ Load_("psum", j)
    /\ UNCHANGED <<launch, tmem, tc, out>>

LoaddPsum ==
    LET j == warp.load.j IN
    /\ warp.load.pc = "psum"
    /\ Passed(bar[At0("psum_empty")], EmptyPhase(j, 1))
    /\ bar' = ExpectAt(bar, At0("psum_full"), 1)
    /\ smem' = [smem EXCEPT !.psum = Garbage]
    /\ inflight' = inflight \cup {Copy("psum", j)}
    /\ Load_(IF j + 1 < N THEN "q" ELSE "tail", j + 1)
    /\ UNCHANGED <<launch, tmem, tc, out>>

\* producer_tail of Q, LSE, dO and dPsum: every stage was given back.
LoadTail ==
    LET j == warp.load.j
        Back(b, n, stages) == Passed(bar[b], EmptyPhase(n, stages))
    IN  /\ warp.load.pc = "tail"
        /\ \A n \in j .. j + 1 :
             Back(<<"q_empty", QS(n)>>, n, QStage) /\ Back(<<"lse_empty", QS(n)>>, n, QStage)
        /\ Back(At0("do_empty"), j, 1) /\ Back(At0("psum_empty"), j, 1)
        /\ Load_("done", j)
        /\ UNCHANGED <<launch, bar, smem, inflight, tmem, tc, out>>

Load == LoadQ \/ LoadLSE \/ LoaddO \/ LoaddPsum \/ LoadTail

Loads == {"q", "lse", "do", "psum"}
LandLoad(c) ==
    /\ c \in inflight /\ c.k \in Loads /\ inflight' = inflight \ {c}
    /\ LET s == QS(c.j) IN
       /\ smem' = CASE c.k = "q" -> [smem EXCEPT !.q[s] = Parts(Tile(Blk(c.j))), !.k = TRUE]
                    [] c.k = "do" -> [smem EXCEPT !.do = Parts(Tile(Blk(c.j))), !.v = TRUE]
                    [] c.k = "lse" -> [smem EXCEPT !.lse[s] = Blk(c.j)]
                    [] c.k = "psum" -> [smem EXCEPT !.psum = Blk(c.j)]
       /\ bar' = ReceivedAt(bar, CASE c.k = "q" -> <<"q_full", s>>
                                   [] c.k = "do" -> At0("do_full")
                                   [] c.k = "lse" -> <<"lse_full", s>>
                                   [] c.k = "psum" -> At0("psum_full"))
    /\ UNCHANGED <<launch, tmem, tc, warp, out>>

-----------------------------------------------------------------------------
(* MMA warp.  Iteration n works on block n; dK and dQ of block n are issued *)
(* in iteration n + 1, after the S that the compute warps need next.       *)

mm == warp.mma
Op(do, j, arrive) == [do |-> do, j |-> j, arrive |-> arrive]
Mma_(pc, n, ops) ==
    /\ warp' = [warp EXCEPT !.mma = [pc |-> pc, n |-> n]]
    /\ tc' = tc \o ops
    /\ UNCHANGED <<launch, bar, smem, inflight, tmem, out>>
QThere(n) == Passed(bar[<<"q_full", QS(n)>>], FullPhase(n, QStage))
\* producer_phase_acc, flipped once an iteration.
PhaseAcc(n) == EmptyPhase(n, 1)

MmaAlloc ==
    \/ /\ mm.pc = "alloc"
       /\ bar' = ArriveAt(bar, {At0("tmem_alloc")})
       /\ warp' = [warp EXCEPT !.mma.pc = "allocated"]
       /\ UNCHANGED <<launch, smem, inflight, tmem, tc, out>>
    \/ /\ mm.pc = "allocated" /\ Over("tmem_alloc", 0)
       /\ Mma_(IF N > 0 THEN "q" ELSE "leave", 0, <<>>)

MmaS ==
    /\ mm.pc = "q" /\ QThere(mm.n)
    /\ mm.n = 0 => Passed(bar[At0("s_empty")], PhaseAcc(0))
    /\ Mma_(IF mm.n = 0 THEN "do" ELSE "ds", mm.n, <<Op("S", mm.n, {At0("s_full")})>>)

MmadKdQ ==
    /\ mm.pc = "ds" /\ Over("ds_full", mm.n - 1)
    /\ Mma_("do", mm.n, <<Op("dK", mm.n - 1, {<<"q_empty", QS(mm.n - 1)>>}),
                          Op("dQ", mm.n - 1, {At0("dq_full"), At0("ds_empty")})>>)

\* A bug for the runs to find: dP does not wait for dQ, whose columns it takes.
MmadPAnyway ==
    /\ mm.pc = "do" /\ Over("do_full", mm.n)
    /\ Mma_("p", mm.n, <<Op("dP", mm.n, {At0("dp_full")})>>)

\* dP's own empty barrier is waited for once and never given back: dS of the
\* block before tells that dP was read, and dQ's barrier that dQ was.
MmadP ==
    /\ mm.pc = "do" /\ Over("do_full", mm.n)
    /\ Passed(bar[At0("dq_empty")], PhaseAcc(mm.n))
    /\ Mma_("p", mm.n, <<Op("dP", mm.n, {At0("dp_full")})>>)

\* s_empty is what tells that P was written.
MmadV ==
    /\ mm.pc = "p" /\ Passed(bar[At0("s_empty")], PhaseAcc(mm.n + 1))
    /\ Mma_(IF mm.n + 1 < N THEN "q" ELSE "tail", mm.n + 1, <<Op("dV", mm.n, {At0("do_empty")})>>)

\* One more arrival at s_full, which nobody waits for; dV is announced; then
\* the last dK and the last dQ.
MmaTail ==
    \/ /\ mm.pc = "tail" /\ Passed(bar[<<"dkv_empty", 0>>], 1)
       /\ Mma_("last", mm.n, <<Op("none", 0, {At0("s_full"), <<"dkv_full", 0>>})>>)
    \/ /\ mm.pc = "last" /\ Passed(bar[<<"dkv_empty", 1>>], 1) /\ Over("ds_full", mm.n - 1)
       /\ Mma_("leave", mm.n,
               <<Op("dK", mm.n - 1, {<<"dkv_full", 1>>}),
                 Op("dQ", mm.n - 1, {At0("dq_full"), <<"q_empty", QS(mm.n - 1)>>, At0("ds_empty")})>>)

\* arrive_and_wait for the compute and the reduce warps, then tmem.free.
MmaFree ==
    \/ /\ mm.pc = "leave"
       /\ bar' = ArriveAt(bar, {At0("tmem_alloc")})
       /\ warp' = [warp EXCEPT !.mma.pc = "free"]
       /\ UNCHANGED <<launch, smem, inflight, tmem, tc, out>>
    \/ /\ mm.pc = "free" /\ Over("tmem_alloc", 1)
       /\ tmem' = [tmem EXCEPT !.freed = TRUE]
       /\ warp' = [warp EXCEPT !.mma.pc = "done"]
       /\ UNCHANGED <<launch, bar, smem, inflight, tc, out>>

Mma == MmaAlloc \/ MmaS \/ MmadKdQ \/ MmadP \/ MmadV \/ MmaTail \/ MmaFree

-----------------------------------------------------------------------------
(* Tensor core.                                                            *)

BlockOf(tile) ==
    IF \E m \in Listed : tile = Parts(Tile(m)) THEN CHOOSE m \in Listed : tile = Parts(Tile(m))
    ELSE Garbage
Written(parts, x) == IF \E m \in Listed : parts = x[m] THEN CHOOSE m \in Listed : parts = x[m] ELSE Garbage
PTile == Written(tmem.s, [m \in Listed |-> Parts(In("P", m))])
dSTile == Written(smem.ds, [m \in Listed |-> Parts(m)])
\* dS in tensor memory: the lower half of the columns of dP.
dSColumns(m) == \A w \in launch.warps, i \in 0 .. 3 : tmem.dp[w][i] = In("dS", m)
Add(acc, a, b) == IF a = b /\ a # Garbage /\ a \notin acc THEN acc \cup {a} ELSE acc \cup {Garbage}

TensorCore ==
    LET op == Head(tc)
        q == BlockOf(smem.q[QS(op.j)])
    IN  /\ tc # <<>> /\ tc' = Tail(tc)
        /\ tmem' =
             CASE op.do = "S" -> [tmem EXCEPT !.s = Parts(In("S", IF smem.k THEN q ELSE Garbage))]
               [] op.do = "dP" -> [tmem EXCEPT !.dp =
                    Columns(In("dP", IF smem.v THEN BlockOf(smem.do) ELSE Garbage))]
               [] op.do = "dV" -> [tmem EXCEPT !.dv = Add(@, PTile, BlockOf(smem.do))]
               [] op.do = "dK" -> [tmem EXCEPT !.dk = Add(@, q, IF dSColumns(q) THEN q ELSE Garbage)]
               [] op.do = "dQ" -> [tmem EXCEPT !.dp = Columns(In("dQ", IF smem.k THEN dSTile ELSE Garbage))]
               [] OTHER -> tmem
        /\ bar' = ArriveAt(bar, op.arrive)
        /\ UNCHANGED <<launch, smem, inflight, warp, out>>

-----------------------------------------------------------------------------
(* Compute warps.                                                          *)

me(c) == warp.compute[c]
To(c, new) == warp' = [warp EXCEPT !.compute[c] = new]
\* The warp arrives at a barrier of its peers, and remembers the phase to wait for.
Sync(c, b, new) ==
    /\ bar' = ArriveAt(bar, {b})
    /\ To(c, [new EXCEPT !.par = bar[b].par])
Met(c, b) == Passed(bar[b], me(c).par)
ComputeSync == At0("compute_sync")
Quiet == UNCHANGED <<launch, inflight, tc, out>>

\* All of the warp's columns of S are in registers; the warps meet, because
\* P of one warpgroup goes to columns of S of the other.
ReadS(c) ==
    LET x == me(c) IN
    /\ x.pc = "s" /\ Over("tmem_alloc", 0) /\ Over("s_full", x.j)
    /\ Passed(bar[<<"lse_full", QS(x.j)>>], FullPhase(x.j, QStage))
    /\ Sync(c, ComputeSync, [x EXCEPT !.pc = "p", !.s = IF tmem.s[c][1] = "S" THEN tmem.s[c][2] ELSE Garbage])
    /\ UNCHANGED <<smem, tmem>> /\ Quiet

WritePTo(c) ==
    LET x == me(c)
        p == IF x.s = smem.lse[QS(x.j)] THEN x.s ELSE Garbage
    IN  /\ tmem' = [tmem EXCEPT !.s = [d \in Compute |->
                      IF d = c THEN In("P", p)
                      ELSE IF d[2] = c[2] /\ @[d][1] = "S" THEN In("S", Garbage) ELSE @[d]]]
        /\ Sync(c, ComputeSync, [x EXCEPT !.pc = "p_written", !.p = p, !.s = Garbage])
        /\ UNCHANGED smem /\ Quiet

WriteP(c) == me(c).pc = "p" /\ Met(c, ComputeSync) /\ WritePTo(c)

ReleaseS(c) ==
    LET x == me(c) IN
    /\ x.pc = "p_written" /\ Met(c, ComputeSync)
    /\ bar' = ArriveAt(bar, {At0("s_empty"), <<"lse_empty", QS(x.j)>>})
    /\ To(c, [x EXCEPT !.pc = "dp", !.h = 0])
    /\ UNCHANGED <<smem, tmem>> /\ Quiet

\* dP is read, and dS written, in two halves h.
ReaddP(c) ==
    LET x == me(c)
        cols == {4 * x.h + 2 * c[1], 4 * x.h + 2 * c[1] + 1}
    IN  /\ x.pc = "dp" /\ Over("psum_full", x.j) /\ Over("dp_full", x.j)
        /\ Sync(c, ComputeSync, [x EXCEPT !.pc = "ds",
              !.dp = IF \A i \in cols : tmem.dp[c[2]][i] = In("dP", x.p) THEN x.p ELSE Garbage])
        /\ UNCHANGED <<smem, tmem>> /\ Quiet

\* dS = P (dP - dPsum), to tensor memory for dK and to shared memory for dQ.
\* Both halves have to be right for the warp's part of the tile to be.
WritedS(c) ==
    LET x == me(c)
        ds == IF x.dp = smem.psum THEN x.dp ELSE Garbage
        part == IF x.h = 1 /\ smem.ds[c] # ds THEN Garbage ELSE ds
        written == [x EXCEPT !.dp = Garbage, !.h = 1, !.pc = IF x.h = 0 THEN "dp" ELSE "ds_written"]
    IN  /\ x.pc = "ds" /\ Met(c, ComputeSync)
        /\ x.h = 0 => Passed(bar[At0("ds_empty")], EmptyPhase(x.j, 1))
        /\ tmem' = [tmem EXCEPT !.dp[c[2]][2 * x.h + c[1]] = In("dS", ds)]
        /\ smem' = [smem EXCEPT !.ds[c] = part]
        /\ IF x.h = 0 THEN To(c, written) /\ UNCHANGED bar ELSE Sync(c, ComputeSync, written)
        /\ Quiet

CommitdS(c) ==
    LET x == me(c) IN
    /\ x.pc = "ds_written" /\ Met(c, ComputeSync)
    /\ bar' = ArriveAt(bar, {At0("psum_empty"), At0("ds_full")})
    /\ To(c, [x EXCEPT !.pc = IF x.j + 1 < N THEN "s" ELSE "epi", !.j = @ + 1, !.p = Garbage, !.h = 0])
    /\ UNCHANGED <<smem, tmem>> /\ Quiet

-----------------------------------------------------------------------------
(* epilogue_dK_or_dV_tma, for dV and then for dK; x.h is the epi stage.    *)

Stage(g) == IF g = "dV" THEN 0 ELSE 1
Epi(c) == <<"epi", c[1]>>
EpiFree(c) == <<"epi_free", c[1]>>

EpilogueWrite(c) ==
    LET x == me(c)
        sum == SumOf(x.g, IF x.g = "dV" THEN tmem.dv ELSE tmem.dk, x.h)
    IN  /\ x.pc = "epi" /\ Passed(bar[<<"dkv_full", Stage(x.g)>>], 0)
        /\ smem' = IF x.g = "dV" THEN [smem EXCEPT !.do[c] = sum] ELSE [smem EXCEPT !.q[0][c] = sum]
        /\ Sync(c, Epi(c), [x EXCEPT !.pc = "epi_store"])
        /\ UNCHANGED tmem /\ Quiet

EpilogueStore(c) ==
    LET x == me(c) IN
    /\ x.pc = "epi_store" /\ Met(c, Epi(c))
    /\ IF Leader(c)
       THEN /\ inflight' = inflight \cup {[k |-> x.g, wg |-> c[1], e |-> x.h]}
            /\ To(c, [x EXCEPT !.pc = "epi_wait"]) /\ UNCHANGED bar
       ELSE /\ Sync(c, EpiFree(c), [x EXCEPT !.pc = "epi_free"]) /\ UNCHANGED inflight
    /\ UNCHANGED <<launch, smem, tmem, tc, out>>

StoresOf(wg) == {c \in inflight : c.k \in {"dK", "dV"} /\ c.wg = wg}

\* The leader commits and waits for all but the last part, and arrives twice:
\* barrier_arrive, then barrier, of 128 + WARP_SIZE threads.
EpilogueWait(c) ==
    LET x == me(c) IN
    /\ x.pc = "epi_wait"
    /\ x.h < LastEpi => StoresOf(c[1]) = {}
    /\ bar' = [bar EXCEPT ![EpiFree(c)] = Arrived(Arrived(@))]
    /\ To(c, [x EXCEPT !.pc = "epi_free", !.par = bar[EpiFree(c)].par])
    /\ UNCHANGED <<smem, tmem>> /\ Quiet

\* After dK the warp has nothing left to read from tensor memory.
EpilogueNext(c) ==
    LET x == me(c) IN
    /\ x.pc = "epi_free" /\ Met(c, EpiFree(c))
    /\ IF x.h < LastEpi THEN To(c, [x EXCEPT !.pc = "epi", !.h = @ + 1]) /\ UNCHANGED bar
       ELSE /\ bar' = ArriveAt(bar, {<<"dkv_empty", Stage(x.g)>>}
                                    \cup (IF x.g = "dK" THEN {At0("tmem_alloc")} ELSE {}))
            /\ To(c, [x EXCEPT !.pc = IF x.g = "dV" THEN "epi" ELSE "done", !.g = "dK", !.h = 0])
    /\ UNCHANGED <<smem, tmem>> /\ Quiet

\* A bug for the runs to find: an empty list leaves dK and dV as they were.
ZeroNothing(c) ==
    /\ me(c).pc = "zero" /\ Over("tmem_alloc", 0)
    /\ bar' = ArriveAt(bar, {At0("tmem_alloc")})
    /\ To(c, [me(c) EXCEPT !.pc = "done"])
    /\ UNCHANGED <<smem, tmem>> /\ Quiet

\* should_zero_dKV: without Q blocks warpgroup 0 clears dK, warpgroup 1 dV; the
\* FP32 accumulators were cleared by the host.
WriteZero(c) ==
    LET piece == <<IF c[1] = 0 THEN "dK" ELSE "dV", c[2], 0>> IN
    /\ me(c).pc = "zero" /\ Over("tmem_alloc", 0)
    /\ out' = IF launch.accum THEN out
              ELSE [out EXCEPT ![piece] = IF @ = "unwritten" THEN "exact" ELSE "wrong"]
    /\ bar' = ArriveAt(bar, {At0("tmem_alloc")})
    /\ To(c, [me(c) EXCEPT !.pc = "done"])
    /\ UNCHANGED <<launch, smem, inflight, tmem, tc>>

ComputeStep(c) ==
    \/ ReadS(c) \/ WriteP(c) \/ ReleaseS(c) \/ ReaddP(c) \/ WritedS(c)
    \/ CommitdS(c) \/ EpilogueWrite(c) \/ EpilogueStore(c) \/ EpilogueWait(c) \/ EpilogueNext(c)
    \/ WriteZero(c)

-----------------------------------------------------------------------------
(* Reduce warps: dQacc_reduce.                                             *)

rd(r) == warp.reduce[r]
Rd(r, new) == warp' = [warp EXCEPT !.reduce[r] = new]
ReduceSync == At0("reduce_sync")
\* Two meetings for every chunk, and one at the end.
Meeting(x, k) == Over("reduce_sync", 2 * (x.n * launch.chunks + x.i) + k)
SmemIdx(x) == (x.n * launch.chunks + x.i) % 2
dQStores == {c \in inflight : c.k = "dQ"}

ReduceRead(r) ==
    LET x == rd(r)
        m == Written(tmem.dp, [b \in Listed |-> Columns(In("dQ", b))])
    IN  /\ x.pc = "dq" /\ Over("dq_full", x.n)
        /\ bar' = ArriveAt(bar, {At0("dq_empty")})
        /\ Rd(r, [x EXCEPT !.pc = "write", !.i = 0, !.dq = m])
        /\ UNCHANGED <<smem, tmem>> /\ Quiet

ReduceWrite(r) ==
    LET x == rd(r) IN
    /\ x.pc = "write"
    /\ smem' = [smem EXCEPT !.dq[SmemIdx(x)][r] = In(x.dq, x.i)]
    /\ bar' = ArriveAt(bar, {ReduceSync})
    /\ Rd(r, [x EXCEPT !.pc = "add"])
    /\ UNCHANGED tmem /\ Quiet

\* Warp 0 adds the chunk, then waits until only this one is still to be read.
ReduceAdd(r) ==
    LET x == rd(r)
        add == [k |-> "dQ", m |-> Blk(x.n), i |-> x.i, s |-> SmemIdx(x)]
    IN  /\ x.pc = "add" /\ Meeting(x, 0)
        /\ inflight' = IF r = ReduceLeader THEN inflight \cup {add} ELSE inflight
        /\ Rd(r, [x EXCEPT !.pc = "wait"])
        /\ UNCHANGED <<launch, bar, smem, tmem, tc, out>>

ReduceWait(r) ==
    LET x == rd(r) IN
    /\ x.pc = "wait"
    /\ r = ReduceLeader => \A c \in dQStores : c.s = SmemIdx(x)
    /\ bar' = ArriveAt(bar, {ReduceSync})
    /\ Rd(r, [x EXCEPT !.pc = "next"])
    /\ UNCHANGED <<smem, tmem>> /\ Quiet

ReduceNext(r) ==
    LET x == rd(r)
        last == x.i + 1 = launch.chunks
    IN  /\ x.pc = "next" /\ Meeting(x, 1)
        /\ Rd(r, IF ~last THEN [x EXCEPT !.pc = "write", !.i = @ + 1]
                 ELSE [x EXCEPT !.pc = IF x.n + 1 < N THEN "dq" ELSE "drain",
                                !.n = @ + 1, !.i = 0, !.dq = Garbage])
        /\ UNCHANGED <<bar, smem, tmem>> /\ Quiet

ReduceLeave(r) ==
    LET x == rd(r) IN
    \/ /\ x.pc = "drain" /\ (r = ReduceLeader => dQStores = {})
       /\ bar' = ArriveAt(bar, {ReduceSync})
       /\ Rd(r, [x EXCEPT !.pc = "leave"])
       /\ UNCHANGED <<smem, tmem>> /\ Quiet
    \/ /\ x.pc = "leave" /\ (IF N > 0 THEN Meeting(x, 0) ELSE Over("tmem_alloc", 0))
       /\ bar' = ArriveAt(bar, {At0("tmem_alloc")})
       /\ Rd(r, [x EXCEPT !.pc = "done"])
       /\ UNCHANGED <<smem, tmem>> /\ Quiet

ReduceStep(r) ==
    ReduceRead(r) \/ ReduceWrite(r) \/ ReduceAdd(r) \/ ReduceWait(r)
    \/ ReduceNext(r) \/ ReduceLeave(r)

-----------------------------------------------------------------------------
(* A store, or a bulk add, reads its part of shared memory.                *)

PartOf(c) ==
    IF c.k = "dV" THEN [w \in launch.warps |-> smem.do[<<c.wg, w>>]]
    ELSE [w \in launch.warps |-> smem.q[0][<<c.wg, w>>]]

LandStore(c) ==
    LET piece == IF c.k = "dQ" THEN <<"dQ", c.m, c.i>> ELSE <<c.k, c.wg, c.e>>
        right == IF c.k = "dQ" THEN \A r \in Reduce : smem.dq[c.s][r] = In(c.m, c.i)
                 ELSE PartOf(c) = [w \in launch.warps |-> SumOf(c.k, Listed, c.e)]
    IN  /\ c \in inflight /\ c.k \notin Loads /\ inflight' = inflight \ {c}
        /\ out' = [out EXCEPT ![piece] = IF @ = "unwritten" /\ right THEN "exact" ELSE "wrong"]
        /\ UNCHANGED <<launch, bar, smem, tmem, tc, warp>>

-----------------------------------------------------------------------------

Exited ==
    /\ warp.load.pc = "done" /\ mm.pc = "done" /\ inflight = {}
    /\ \A c \in Compute : me(c).pc = "done"
    /\ \A r \in Reduce : rd(r).pc = "done"

Next ==
    \/ Load \/ Mma \/ TensorCore
    \/ \E c \in Compute : ComputeStep(c)
    \/ \E r \in Reduce : ReduceStep(r)
    \/ \E c \in inflight : LandLoad(c) \/ LandStore(c)

-----------------------------------------------------------------------------
(* Properties                                                              *)

(* What a queued product reads stays: stages of Q and dO until they are      *)
(* given back, although dK reads Q an iteration after S did; P in the        *)
(* columns of S.  And when the product is the next to run, what it writes    *)
(* over has been read: S by every compute warp, dP before dQ takes its       *)
(* columns, dQ before dP does.  Tensor memory is freed with nothing queued.  *)
OperandsHeld ==
    /\ \A n \in DOMAIN tc :
         LET op == tc[n] IN
         /\ op.do \in {"S", "dK"} => smem.q[QS(op.j)] = Parts(Tile(Blk(op.j)))
         /\ op.do \in {"dP", "dV"} => smem.do = Parts(Tile(Blk(op.j)))
         /\ op.do = "dQ" => smem.ds = Parts(Blk(op.j))
    /\ tc # <<>> =>
         LET op == Head(tc) IN
         /\ op.do = "S" => \A c \in Compute : me(c).j >= op.j \/ me(c).pc \notin {"s", "p", "p_written"}
         /\ op.do = "dV" => tmem.s = Parts(In("P", Blk(op.j)))
         /\ op.do = "dK" => dSColumns(Blk(op.j))
         /\ op.do = "dQ" => \A c \in Compute : me(c).j > op.j
         /\ op.do = "dP" => \A r \in Reduce : rd(r).n >= op.j \/ rd(r).dq # Garbage
    /\ tmem.freed => tc = <<>>
===============================================================================
