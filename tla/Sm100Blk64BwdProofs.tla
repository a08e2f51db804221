------------------------ MODULE Sm100Blk64BwdProofs ------------------------
(***************************************************************************)
(* TLAPS proofs about Sm100Blk64Bwd, for every list of Q blocks and every  *)
(* number of compute warps, of reduce warps and of pieces of dQ.           *)
(***************************************************************************)
EXTENDS Sm100Blk64Bwd, FiniteSetTheorems, TLAPS

-----------------------------------------------------------------------------
(* How far each role is: numbers of pairs.                                 *)

\* The load warp: copies of Q, LSE, dO and sum_OdO it has started.
QLoads == ld.n + (IF ld.pc \in {"lse", "dO", "sum"} THEN 1 ELSE 0)
LSELoads == ld.n + (IF ld.pc \in {"dO", "sum"} THEN 1 ELSE 0)
dOLoads == ld.n + (IF ld.pc = "sum" THEN 1 ELSE 0)
SumLoads == ld.n

Flying(to, half, pair) == IF Copy(to, half, pair) \in inflight THEN 1 ELSE 0
LSELanded == LSELoads - Flying("LSE", 0, LSELoads)
SumLanded == SumLoads - Flying("sum", 0, SumLoads)

\* The MMA warp: Q and dO it has waited for, S it has issued, dS and the free dQ
\* it has waited for.
QTaken == mm.n + (IF mm.pc \in {"s", "ds", "dp", "dq", "dO", "dp0", "p"} THEN 1 ELSE 0)
dOTaken == mm.n + (IF mm.pc \in {"dp0", "p"} THEN 1 ELSE 0)
SIssued == mm.n + (IF mm.pc \in {"ds", "dp", "dq", "dO", "dp0", "p"} THEN 1 ELSE 0)
dSTaken == IF mm.pc \in {"dp", "dq", "dO", "dp0", "p", "done"} THEN mm.n ELSE mm.n - 1
dQFreed == IF mm.pc \in {"dO", "dp0", "p"} THEN mm.n ELSE mm.n - 1

\* A compute warp: S, a free P, LSE, sum_OdO and dP it has waited for, P it has
\* stored (and dS: cw[w].n).
After(w, n, pcs) == n + (IF cw[w].pc \in pcs THEN 1 ELSE 0)
STaken(w) == After(w, cw[w].n, {"p", "lse", "sync", "sum", "dp", "ds"})
PFreed(w) == After(w, cw[w].n, {"lse", "sync", "sum", "dp", "ds"})
LSETaken(w) == After(w, cw[w].n, {"sync", "sum", "dp", "ds"})
PStored(w) == After(w, cw[w].n, {"sum", "dp", "ds"})
SumTaken(w) == After(w, cw[w].n, {"dp", "ds"})
dPTaken(w) == After(w, cw[w].n, {"ds"})

\* A reduce warp: dQ it has read.
dQTaken(r) == rd[r].n + (IF rd[r].pc \in {"acquire", "sync0", "sync1"} THEN 1 ELSE 0)

\* The tensor core: what tensor memory has of S, dP, dQ, dK and dV counts the
\* operations executed.  dK i releases Q i and dS i, for the last pair dQ does.
dQDone == IF tdPdQ[1] = "dQ" THEN tdPdQ[2] ELSE IF tdPdQ[1] = "dP" THEN tdPdQ[2] - 1 ELSE 0
Released == IF tdK < dQDone THEN tdK ELSE dQDone

-----------------------------------------------------------------------------
(* The program of the MMA warp: its operations are numbered in the order    *)
(* in which it issues them, those of pair i from 5i - 1 to 5i + 3, except   *)
(* that S comes one pair earlier; the first is 3.                           *)

Issued ==
    CASE mm.pc \in {"alloc", "allocated"} -> 2
      [] mm.pc \in {"q", "s"} -> IF mm.n = 0 THEN 2 ELSE 5 * mm.n
      [] mm.pc \in {"ds", "dp"} -> 5 * mm.n + 1
      [] mm.pc \in {"dq", "dO", "dp0"} -> 5 * mm.n + 3
      [] mm.pc = "p" -> 5 * mm.n + 4
      [] mm.pc = "kv0" -> 5 * mm.n
      [] mm.pc \in {"kv1", "lastds"} -> 5 * mm.n + 1
      [] mm.pc = "done" -> 5 * mm.n + 3

Executed == Issued - Len(tc)

OfPair(k, op, i) ==
    \/ k = 5 * i - 1 /\ op = Op("dP", 0, {dPFull})
    \/ k = 5 * i /\ op = Op("dV", 0, {PEmpty, dOEmpty})
    \/ i < Pairs /\ k = 5 * i + 1 /\ op = Op("S", i % 2, {SFull})
    \/ i < Pairs /\ k = 5 * i + 2 /\ op = Op("dQ", (i - 1) % 2, {dQFull})
    \/ i < Pairs /\ k = 5 * i + 3
         /\ op = Op("dK", (i - 1) % 2, {QEmpty((i - 1) % 2), dSEmpty})
    \/ i = Pairs /\ k = 5 * i + 1 /\ op = Op("none", 0, {dKdVFull(0)})
    \/ i = Pairs /\ k = 5 * i + 2 /\ op = Op("dK", (i - 1) % 2, {dKdVFull(1)})
    \/ i = Pairs /\ k = 5 * i + 3
         /\ op = Op("dQ", (i - 1) % 2, {dQFull, QEmpty((i - 1) % 2), dSEmpty})

InProgram(k, op) ==
    \/ k = 3 /\ op = Op("S", 0, {SFull})
    \/ \E i \in 1 .. Pairs : OfPair(k, op, i)

\* What tensor memory holds when the operations up to k are executed.
Memory(s, dpdq, dv, dk) == tS = s /\ tdPdQ = dpdq /\ tdV = dv /\ tdK = dk
DuringPair(k, i) ==
    \/ k = 5 * i - 1 /\ Memory(i, <<"dP", i>>, i - 1, i - 1)
    \/ k = 5 * i /\ Memory(i, <<"dP", i>>, i, i - 1)
    \/ i < Pairs /\ k = 5 * i + 1 /\ Memory(i + 1, <<"dP", i>>, i, i - 1)
    \/ i < Pairs /\ k = 5 * i + 2 /\ Memory(i + 1, <<"dQ", i>>, i, i - 1)
    \/ i < Pairs /\ k = 5 * i + 3 /\ Memory(i + 1, <<"dQ", i>>, i, i)
    \/ i = Pairs /\ k = 5 * i + 1 /\ Memory(i, <<"dP", i>>, i, i - 1)
    \/ i = Pairs /\ k = 5 * i + 2 /\ Memory(i, <<"dP", i>>, i, i)
    \/ i = Pairs /\ k = 5 * i + 3 /\ Memory(i, <<"dQ", i>>, i, i)

TensorMemory(k) ==
    \/ k = 2 /\ Memory(0, <<"none", 0>>, 0, 0)
    \/ k = 3 /\ Memory(1, <<"none", 0>>, 0, 0)
    \/ \E i \in 1 .. Pairs : DuringPair(k, i)

Operation ==
    [do : {"S", "dP", "dQ", "dK", "dV", "none"}, slot : Stage, arrive : SUBSET BarId]
Queue ==
    /\ tc \in Seq(Operation)
    /\ Executed \in Nat
    /\ TensorMemory(Executed)
    /\ \A x \in DOMAIN tc : InProgram(Executed + x, tc[x])

-----------------------------------------------------------------------------
(* The barriers.                                                           *)

Phases(x, n) == x = [par |-> n % 2, left |-> 1, tx |-> 0]     \* one arrival each
Pending(x, n, bytes) == x = [par |-> (n + 1) % 2, left |-> 0, tx |-> bytes]

\* Every warp of S arrives once a phase; A[w] is how often w has.
AllOf(x, S, A) ==
    \E p \in Nat :
        /\ x = [par |-> p % 2, left |-> Cardinality({w \in S : A[w] = p}), tx |-> 0]
        /\ \E w \in S : A[w] = p
        /\ \A w \in S : A[w] \in {p, p + 1}

\* Q: the two stages hold the last two pairs loaded; the phase of pair j is the
\* ((j + 1) \div 2)-th of its stage.
StageOf(j) == (j + 1) % 2
PhaseOf(j) == (j + 1) \div 2
QBytes(j) == Flying("Q", 0, j) + Flying("Q", 1, j) + Flying("K", 0, j)
QStages ==
    /\ \A j \in {QLoads - 1, QLoads} :
         /\ IF QBytes(j) = 0 THEN Phases(bar[QFull(StageOf(j))], PhaseOf(j))
            ELSE Pending(bar[QFull(StageOf(j))], PhaseOf(j), QBytes(j))
         /\ j > 0 => \A h \in Stage : Flying("Q", h, j) = 0 => sQ[StageOf(j)][h] = j
    /\ (QLoads > 0 /\ Flying("K", 0, 1) = 0) => sK

dOBytes == Flying("dO", 0, dOLoads) + Flying("dO", 1, dOLoads) + Flying("V", 0, dOLoads)
dOStage ==
    /\ IF dOBytes = 0 THEN Phases(bar[dOFull], dOLoads)
       ELSE Pending(bar[dOFull], dOLoads, dOBytes)
    /\ dOLoads > 0 => \A h \in Stage : Flying("dO", h, dOLoads) = 0 => sdO[h] = dOLoads
    /\ (dOLoads > 0 /\ Flying("V", 0, 1) = 0) => sV

Rows ==
    /\ Phases(bar[LSEFull], LSELanded)
    /\ Phases(bar[SumFull], SumLanded)
    /\ LSELanded = LSELoads => sLSE = LSELoads
    /\ SumLanded = SumLoads => sSum = SumLoads

\* A copy under way is of the last pair loaded (or of the one before, for Q),
\* which nobody has waited for yet.
InFlight ==
    \A c \in inflight :
        \/ \E h \in Stage, j \in {QLoads - 1, QLoads} :
              c = Copy("Q", h, j) /\ j > QTaken
        \/ c = Copy("K", 0, 1) /\ QTaken = 0 /\ QLoads > 0
        \/ c = Copy("LSE", 0, LSELoads) /\ LSELoads > 0
        \/ \E h \in Stage : c = Copy("dO", h, dOLoads) /\ dOLoads > dOTaken
        \/ c = Copy("V", 0, 1) /\ dOTaken = 0 /\ dOLoads = 1
        \/ c = Copy("sum", 0, SumLoads) /\ SumLoads > 0

ByTensorCore ==
    /\ Phases(bar[SFull], tS) /\ Phases(bar[dPFull], tdPdQ[2]) /\ Phases(bar[dQFull], dQDone)
    /\ Phases(bar[PEmpty], tdV) /\ Phases(bar[dOEmpty], tdV) /\ Phases(bar[dSEmpty], Released)
    /\ \A j \in {Released - 1, Released} : Phases(bar[QEmpty(StageOf(j))], PhaseOf(j))
    /\ Phases(bar[dKdVFull(0)], IF Executed > 5 * Pairs THEN 1 ELSE 0)
    /\ Phases(bar[dKdVFull(1)], IF tdK = Pairs THEN 1 ELSE 0)

PStores == [w \in Compute |-> PStored(w)]
dSStores == [w \in Compute |-> cw[w].n]
Epilogues == [w \in Compute |-> IF cw[w].pc \in {"epilogue", "done"} THEN 1 ELSE 0]
dQReads == [r \in Reduce |-> dQTaken(r)]
ByCompute ==
    /\ \A b \in {PFull, SEmpty, LSEEmpty} : AllOf(bar[b], Compute, PStores)
    /\ \A b \in {dSFull, dPEmpty, SumEmpty} : AllOf(bar[b], Compute, dSStores)
    /\ AllOf(bar[EpilogueSync], Compute, Epilogues)
ByReduce == AllOf(bar[dQEmpty], Reduce, dQReads)

-----------------------------------------------------------------------------
(* Who may be ahead of whom.                                               *)

LoadOrder ==
    /\ QTaken <= QLoads /\ QLoads <= Released + 2
    /\ dOTaken <= dOLoads /\ dOLoads <= tdV + 1
    /\ \A w \in Compute : LSELoads <= PStored(w) + 1 /\ SumLoads <= cw[w].n + 1

ComputeOrder ==
    \A w \in Compute :
        /\ STaken(w) <= tS /\ PFreed(w) <= tdV + 1 /\ LSETaken(w) <= LSELanded
        /\ SumTaken(w) <= SumLanded /\ dPTaken(w) <= tdPdQ[2] /\ cw[w].n <= Released + 1
        /\ cw[w].pc \in {"dk", "epilogue", "done"} => Executed > 5 * Pairs
        /\ cw[w].pc \in {"epilogue", "done"} => tdK = Pairs

MmaOrder ==
    /\ \A w \in Compute :
         SIssued <= PStored(w) + 1 /\ mm.n <= PStored(w) /\ dSTaken <= cw[w].n
    /\ \A r \in Reduce : dQFreed <= dQTaken(r)

ReduceOrder == \A r \in Reduce : dQTaken(r) <= dQDone

\* What the warps have handed on.
Results ==
    /\ \A w \in Compute :
         /\ sP[w] = PStored(w) /\ sdS[w] = cw[w].n
         /\ cw[w].pc \in {"dk", "epilogue", "done"} => gdV[w] = Pairs
         /\ cw[w].pc \in {"epilogue", "done"} => gdK[w] = Pairs
    /\ freed => \A w \in Compute : cw[w].pc \in {"epilogue", "done"}

-----------------------------------------------------------------------------
(* Types.                                                                  *)

LoadRole ==
    /\ ld \in [pc : {"q", "lse", "dO", "sum", "done"}, n : Nat]
    /\ IF ld.pc = "done" THEN ld.n = Pairs ELSE ld.n < Pairs

MmaRole ==
    /\ mm \in [pc : {"alloc", "allocated", "q", "s", "ds", "dp", "dq", "dO", "dp0", "p",
                     "kv0", "kv1", "lastds", "done"}, n : Nat]
    /\ mm.pc \in {"alloc", "allocated", "dp0"} => mm.n = 0
    /\ mm.pc \in {"ds", "dp", "dq"} => mm.n > 0
    /\ IF mm.pc \in {"kv0", "kv1", "lastds", "done"} THEN mm.n = Pairs ELSE mm.n < Pairs

ComputeRole ==
    /\ cw \in [Compute -> [pc : {"alloc", "allocated", "s", "p", "lse", "sync", "sum", "dp",
                                 "ds", "dv", "dk", "epilogue", "done"}, n : Nat, p : Nat]]
    /\ \A w \in Compute :
         /\ cw[w].pc \in {"alloc", "allocated"} => cw[w].n = 0
         /\ IF cw[w].pc \in {"dv", "dk", "epilogue", "done"} THEN cw[w].n = Pairs
            ELSE cw[w].n < Pairs
         /\ cw[w].p = IF cw[w].pc \in {"sync", "sum", "dp", "ds"} THEN cw[w].n + 1 ELSE 0

ReduceRole ==
    /\ rd \in [Reduce -> [pc : {"alloc", "allocated", "dq", "acquire", "sync0", "sync1",
                                "tail", "done"}, n : Nat, i : Nat, dq : Nat]]
    /\ \A r \in Reduce :
         /\ rd[r].pc \in {"alloc", "allocated"} => rd[r].n = 0
         /\ IF rd[r].pc \in {"tail", "done"} THEN rd[r].n = Pairs ELSE rd[r].n < Pairs
         /\ rd[r].dq = IF rd[r].pc \in {"acquire", "sync0", "sync1"} THEN rd[r].n + 1 ELSE 0

Typed ==
    /\ launch \in Launches
    /\ DOMAIN bar = BarId
    /\ sQ \in [Stage -> [Stage -> Nat]] /\ sdO \in [Stage -> Nat]
    /\ sK \in BOOLEAN /\ sV \in BOOLEAN /\ freed \in BOOLEAN
    /\ sP \in [Compute -> Nat] /\ sdS \in [Compute -> Nat]
    /\ gdV \in [Compute -> Nat] /\ gdK \in [Compute -> Nat]
    /\ tS \in Nat /\ tdV \in Nat /\ tdK \in Nat

Working ==
    /\ LoadRole /\ MmaRole /\ ComputeRole /\ ReduceRole /\ Queue
    /\ QStages /\ dOStage /\ Rows /\ InFlight /\ ByTensorCore /\ ByCompute /\ ByReduce
    /\ LoadOrder /\ ComputeOrder /\ MmaOrder /\ ReduceOrder /\ Results

\* A CTA without work has nothing to do.
Idle ==
    /\ ld.pc = "done" /\ mm.pc = "done" /\ ~freed /\ tc = <<>> /\ inflight = {} /\ stores = {}
    /\ \A w \in Compute : cw[w].pc = "done"
    /\ \A r \in Reduce : rd[r].pc = "done"

Inv == Typed /\ IF HasWork THEN Working ELSE Idle

-----------------------------------------------------------------------------
(* Arithmetic, and what a launch is.                                       *)

LEMMA Parity ==
    ASSUME NEW n \in Nat
    PROVE  /\ n % 2 \in {0, 1} /\ (n + 1) % 2 = 1 - (n % 2) /\ (n + 2) % 2 = n % 2
           /\ n \div 2 \in Nat /\ (n + 2) \div 2 = (n \div 2) + 1
  OBVIOUS

\* Stages alternate, and a stage's next phase is that of the pair after next.
LEMMA StageSteps ==
    ASSUME NEW n \in Nat
    PROVE  /\ \A i \in {n - 1, n, n + 1} : StageOf(i) \in Stage /\ PhaseOf(i) \in Nat
           /\ StageOf(n) # StageOf(n + 1)
           /\ StageOf(n - 1) = StageOf(n + 1) /\ PhaseOf(n + 1) = PhaseOf(n - 1) + 1
<1>1. StageOf(n - 1) = n % 2 /\ StageOf(n) = (n + 1) % 2 /\ StageOf(n + 1) = (n + 2) % 2
  BY DEF StageOf
<1>2. /\ PhaseOf(n - 1) = n \div 2 /\ PhaseOf(n) = (n + 1) \div 2
      /\ PhaseOf(n + 1) = (n + 2) \div 2
  BY DEF PhaseOf
<1>3. (n + 1) \div 2 \in Nat /\ (n + 2) \div 2 \in Nat
  OBVIOUS
<1> QED BY <1>1, <1>2, <1>3, Parity DEF Stage

LEMMA IsFunction ==
    ASSUME NEW S, NEW R, NEW f, f = [v \in S |-> f[v]], \A v \in S : f[v] \in R
    PROVE  f \in [S -> R]
  BY Zenon

LEMMA LaunchFacts ==
    ASSUME launch \in Launches
    PROVE  /\ IsFiniteSet(Compute) /\ Compute # {} /\ IsFiniteSet(Reduce) /\ Reduce # {}
           /\ Pairs \in Nat /\ (HasWork => Pairs >= 1)
<1>1. launch.edges \in Seq(Nat) /\ Len(launch.edges) \in Nat
  BY LaunchesAssumption
<1>2. /\ IsFiniteSet(launch.compute) /\ launch.compute # {}
      /\ IsFiniteSet(launch.reduce) /\ launch.reduce # {}
  BY LaunchesAssumption
<1>3. \A n \in Nat : (n + 1) \div 2 \in Nat /\ (n > 0 => (n + 1) \div 2 >= 1)
  OBVIOUS
<1>4. Pairs \in Nat /\ (HasWork => Pairs >= 1)
  BY <1>1, <1>3 DEF Pairs, HasWork
<1> QED BY <1>2, <1>4 DEF Compute, Reduce

\* The launch never changes.
LEMMA SameLaunch ==
    ASSUME launch' = launch
    PROVE  Compute' = Compute /\ Reduce' = Reduce /\ Pairs' = Pairs /\ HasWork' = HasWork
  BY DEF Compute, Reduce, Pairs, HasWork

-----------------------------------------------------------------------------
(* Barriers.                                                               *)

\* The barriers of the invariant, by name, and the arrivals a phase of them takes.
LEMMA BarNames ==
    /\ \A s \in Stage : QFull(s) \in BarId /\ QFull(s)[1] = "q_full" /\ Expected(QFull(s)) = 1
    /\ \A s \in Stage : QEmpty(s) \in BarId /\ QEmpty(s)[1] = "q_empty" /\ Expected(QEmpty(s)) = 1
    /\ dOFull \in BarId /\ dOFull[1] = "dO_full" /\ Expected(dOFull) = 1
    /\ dOEmpty \in BarId /\ dOEmpty[1] = "dO_empty" /\ Expected(dOEmpty) = 1
    /\ LSEFull \in BarId /\ LSEFull[1] = "lse_full" /\ Expected(LSEFull) = 1
    /\ SumFull \in BarId /\ SumFull[1] = "sum_full" /\ Expected(SumFull) = 1
    /\ SFull \in BarId /\ SFull[1] = "s_full" /\ Expected(SFull) = 1
    /\ dPFull \in BarId /\ dPFull[1] = "dP_full" /\ Expected(dPFull) = 1
    /\ dQFull \in BarId /\ dQFull[1] = "dQ_full" /\ Expected(dQFull) = 1
    /\ PEmpty \in BarId /\ PEmpty[1] = "p_empty" /\ Expected(PEmpty) = 1
    /\ dSEmpty \in BarId /\ dSEmpty[1] = "dS_empty" /\ Expected(dSEmpty) = 1
    /\ \A s \in Stage : dKdVFull(s) \in BarId /\ dKdVFull(s)[1] = "dKdV_full" /\ Expected(dKdVFull(s)) = 1
  BY DEF BarId, QFull, QEmpty, dOFull, dOEmpty, LSEFull, SumFull, SFull, dPFull, dQFull,
         PEmpty, dSEmpty, dKdVFull, Expected

LEMMA WarpBarNames ==
    /\ LSEEmpty \in BarId /\ LSEEmpty[1] = "lse_empty" /\ Expected(LSEEmpty) = Cardinality(Compute)
    /\ SumEmpty \in BarId /\ SumEmpty[1] = "sum_empty" /\ Expected(SumEmpty) = Cardinality(Compute)
    /\ SEmpty \in BarId /\ SEmpty[1] = "s_empty" /\ Expected(SEmpty) = Cardinality(Compute)
    /\ dPEmpty \in BarId /\ dPEmpty[1] = "dP_empty" /\ Expected(dPEmpty) = Cardinality(Compute)
    /\ PFull \in BarId /\ PFull[1] = "p_full" /\ Expected(PFull) = Cardinality(Compute)
    /\ dSFull \in BarId /\ dSFull[1] = "dS_full" /\ Expected(dSFull) = Cardinality(Compute)
    /\ EpilogueSync \in BarId /\ EpilogueSync[1] = "epilogue_sync"
    /\ Expected(EpilogueSync) = Cardinality(Compute)
    /\ dQEmpty \in BarId /\ dQEmpty[1] = "dQ_empty" /\ Expected(dQEmpty) = Cardinality(Reduce)
    /\ TmemAlloc \in BarId /\ TmemAlloc[1] = "tmem_alloc"
    /\ ComputeSync \in BarId /\ ComputeSync[1] = "compute_sync"
    /\ ReduceSync \in BarId /\ ReduceSync[1] = "reduce_sync"
    /\ \A s \in Stage : dKdVEmpty(s) \in BarId /\ dKdVEmpty(s)[1] = "dKdV_empty"
  BY DEF BarId, LSEEmpty, SumEmpty, SEmpty, dPEmpty, PFull, dSFull, EpilogueSync, dQEmpty,
         TmemAlloc, ComputeSync, ReduceSync, dKdVEmpty, Expected

\* One arrival at each of a set of barriers.
Arrived(b) == Settle(b, [bar[b] EXCEPT !.left = @ - 1])
LEMMA ArriveEffect ==
    ASSUME NEW bars \in SUBSET BarId, Arrive(bars)
    PROVE  /\ DOMAIN bar' = BarId
           /\ \A b \in bars : bar'[b] = Arrived(b)
           /\ \A b \in BarId : b \notin bars => bar'[b] = bar[b]
  BY DEF Arrive, Arrived

\* The barriers with these names are as they were.
Still(names) == \A b \in BarId : b[1] \in names => bar'[b] = bar[b]

LEMMA PhaseArrive ==
    ASSUME NEW b, NEW n \in Nat, Phases(bar[b], n), Expected(b) = 1
    PROVE  Phases(Arrived(b), n + 1)
<1>1. [bar[b] EXCEPT !.left = @ - 1] = [par |-> n % 2, left |-> 0, tx |-> 0]
  BY DEF Phases
<1>2. Arrived(b) = [par |-> 1 - (n % 2), left |-> 1, tx |-> 0]
  BY <1>1 DEF Arrived, Settle, Fresh
<1> QED BY <1>2, Parity DEF Phases

\* A consumer, and a producer, that have passed.
LEMMA PhaseWait ==
    ASSUME NEW b, NEW n \in Nat, NEW q \in Nat, Phases(bar[b], n), Done(b, ConsumerPhase(q)),
           n = q \/ n = q + 1
    PROVE  n = q + 1
  BY DEF Phases, Done, ConsumerPhase

LEMMA PhaseFree ==
    ASSUME NEW b, NEW n \in Nat, NEW q \in Nat, Phases(bar[b], n), Done(b, ProducerPhase(q)),
           n = q \/ n = q - 1
    PROVE  n = q
<1>1. CASE n = q - 1
  <2>1. q % 2 = 1 - (n % 2) /\ n % 2 \in {0, 1}
    BY <1>1, Parity
  <2> QED BY <1>1, <2>1 DEF Phases, Done, ProducerPhase
<1> QED BY <1>1

\* The first arrival of a phase, and the copies it announces.
LEMMA ExpectEffect ==
    ASSUME NEW b \in BarId, DOMAIN bar = BarId, NEW n \in Nat, Phases(bar[b], n),
           NEW bytes \in Nat, ArriveAndExpect(b, bytes)
    PROVE  /\ DOMAIN bar' = BarId /\ Pending(bar'[b], n + 1, bytes)
           /\ \A c \in BarId : c # b => bar'[c] = bar[c]
<1>1. [bar[b] EXCEPT !.left = @ - 1] = [par |-> n % 2, left |-> 0, tx |-> 0]
  BY DEF Phases
<1>2. bar'[b] = [[bar[b] EXCEPT !.left = @ - 1] EXCEPT !.tx = @ + bytes]
  BY DEF ArriveAndExpect
<1>3. [[par |-> n % 2, left |-> 0, tx |-> 0] EXCEPT !.tx = @ + bytes]
        = [par |-> n % 2, left |-> 0, tx |-> bytes]
  OBVIOUS
<1>4. ((n + 1) + 1) % 2 = n % 2
  BY Parity
<1>5. DOMAIN bar' = BarId /\ \A c \in BarId : c # b => bar'[c] = bar[c]
  BY DEF ArriveAndExpect
<1> QED BY <1>1, <1>2, <1>3, <1>4, <1>5 DEF Pending

\* One of the copies announced has been written.
LEMMA LandEffect ==
    ASSUME NEW b \in BarId, DOMAIN bar = BarId, NEW n \in Nat, NEW bytes \in Nat,
           Pending(bar[b], n, bytes), bytes > 0, Expected(b) = 1, CompleteTx(b)
    PROVE  /\ DOMAIN bar' = BarId
           /\ IF bytes = 1 THEN Phases(bar'[b], n) ELSE Pending(bar'[b], n, bytes - 1)
           /\ \A c \in BarId : c # b => bar'[c] = bar[c]
<1>1. [bar[b] EXCEPT !.tx = @ - 1] = [par |-> (n + 1) % 2, left |-> 0, tx |-> bytes - 1]
  BY DEF Pending
<1>2. 1 - ((n + 1) % 2) = n % 2
  BY Parity
<1>5. bar' = [bar EXCEPT ![b] = Settle(b, [bar[b] EXCEPT !.tx = @ - 1])]
  BY DEF CompleteTx
<1>3. bar'[b] = Settle(b, [bar[b] EXCEPT !.tx = @ - 1])
  BY <1>5
<1>4. DOMAIN bar' = BarId /\ \A c \in BarId : c # b => bar'[c] = bar[c]
  BY DEF CompleteTx
<1> QED BY <1>1, <1>2, <1>3, <1>4 DEF Pending, Phases, Settle, Fresh

\* A warp w of S arrives that all others have caught up with.
LEMMA AllArrive ==
    ASSUME NEW b, NEW S, IsFiniteSet(S), NEW A \in [S -> Nat], NEW B \in [S -> Nat], NEW w \in S,
           B[w] = A[w] + 1, \A v \in S : v # w => B[v] = A[v],
           \A v \in S : A[v] >= A[w],
           AllOf(bar[b], S, A), Expected(b) = Cardinality(S)
    PROVE  AllOf(Arrived(b), S, B)
<1>1. PICK p \in Nat :
        /\ bar[b] = [par |-> p % 2, left |-> Cardinality({v \in S : A[v] = p}), tx |-> 0]
        /\ \E v \in S : A[v] = p
        /\ \A v \in S : A[v] \in {p, p + 1}
  BY DEF AllOf
<1>2. A[w] = p /\ B[w] = p + 1
  BY <1>1
<1> DEFINE T == {v \in S : A[v] = p}
           U == {v \in S : B[v] = p}
<1>3. U = T \ {w} /\ w \in T
  BY <1>2
<1>4. IsFiniteSet(T) /\ IsFiniteSet(U)
  BY FS_Subset
<1>5. /\ Cardinality(T) \in Nat /\ Cardinality(U) \in Nat /\ Cardinality(T) - 1 = Cardinality(U)
      /\ (Cardinality(U) = 0 <=> U = {})
  <2> HIDE DEF T, U
  <2>1. Cardinality(T) \in Nat /\ Cardinality(U) \in Nat
    BY <1>4, FS_CardinalityType
  <2>2. Cardinality(T \ {w}) = Cardinality(T) - 1
    BY <1>3, <1>4, FS_RemoveElement
  <2>3. Cardinality(U) = 0 <=> U = {}
    BY <1>4, FS_EmptySet
  <2> QED BY <1>3, <2>1, <2>2, <2>3
<1>6. [bar[b] EXCEPT !.left = @ - 1] = [par |-> p % 2, left |-> Cardinality(U), tx |-> 0]
  BY <1>1, <1>5
<1>7. \A v \in S : B[v] \in {p, p + 1}
  BY <1>1, <1>2
<1>8. CASE U # {}
  <2>1. Arrived(b) = [par |-> p % 2, left |-> Cardinality(U), tx |-> 0]
    BY <1>5, <1>6, <1>8 DEF Arrived, Settle
  <2>2. \E v \in S : B[v] = p
    BY <1>8
  <2> QED BY <1>7, <2>1, <2>2 DEF AllOf
<1>9. CASE U = {}
  <2>1. \A v \in S : B[v] = p + 1
    BY <1>7, <1>9
  <2>2. S = {v \in S : B[v] = p + 1}
    BY <2>1
  <2>3. Arrived(b) = [par |-> 1 - (p % 2), left |-> Cardinality(S), tx |-> 0]
    BY <1>5, <1>6, <1>9 DEF Arrived, Settle, Fresh
  <2>4. Arrived(b) = [par |-> (p + 1) % 2, left |-> Cardinality({v \in S : B[v] = p + 1}), tx |-> 0]
    BY <2>2, <2>3, Parity
  <2>5. \A v \in S : B[v] \in {p + 1, (p + 1) + 1}
    BY <2>1
  <2>6. \E v \in S : B[v] = p + 1
    BY <2>1
  <2>7. p + 1 \in Nat
    OBVIOUS
  <2> HIDE DEF T, U
  <2> QED BY <2>4, <2>5, <2>6, <2>7 DEF AllOf
<1> QED BY <1>8, <1>9

LEMMA AllWait ==
    ASSUME NEW b, NEW S, NEW A \in [S -> Nat], NEW q \in Nat,
           AllOf(bar[b], S, A), Done(b, ConsumerPhase(q)),
           \A w \in S : A[w] = q \/ A[w] = q + 1
    PROVE  \A w \in S : A[w] = q + 1
<1>1. PICK p \in Nat : /\ bar[b].par = p % 2
                       /\ \E v \in S : A[v] = p
                       /\ \A v \in S : A[v] \in {p, p + 1}
  BY DEF AllOf
<1>2. p = q \/ p = q + 1
  BY <1>1
<1>3. p # q
  BY <1>1 DEF Done, ConsumerPhase
<1> QED BY <1>1, <1>2, <1>3

LEMMA AllFree ==
    ASSUME NEW b, NEW S, NEW A \in [S -> Nat], NEW q \in Nat,
           AllOf(bar[b], S, A), Done(b, ProducerPhase(q)),
           \A w \in S : A[w] = q \/ A[w] = q - 1
    PROVE  \A w \in S : A[w] = q
<1>1. PICK p \in Nat : /\ bar[b].par = p % 2
                       /\ \E v \in S : A[v] = p
                       /\ \A v \in S : A[v] \in {p, p + 1}
  BY DEF AllOf
<1>2. p = q \/ p = q - 1
  BY <1>1
<1>3. CASE p = q - 1
  <2>1. q % 2 = 1 - (p % 2) /\ p % 2 \in {0, 1}
    BY <1>3, Parity
  <2> QED BY <1>1, <2>1 DEF Done, ProducerPhase
<1>4. CASE p = q
  BY <1>1, <1>4
<1> QED BY <1>2, <1>3, <1>4

-----------------------------------------------------------------------------
(* Counters.                                                               *)

LEMMA LoadCounters ==
    ASSUME LoadRole
    PROVE  /\ QLoads \in Nat /\ LSELoads \in Nat /\ dOLoads \in Nat /\ SumLoads \in Nat
           /\ \A to, half, pair : Flying(to, half, pair) \in {0, 1}
           /\ LSELanded \in Int /\ SumLanded \in Int
           /\ LSELanded <= LSELoads /\ LSELoads <= LSELanded + 1
           /\ SumLanded <= SumLoads /\ SumLoads <= SumLanded + 1
<1>1. QLoads \in Nat /\ LSELoads \in Nat /\ dOLoads \in Nat /\ SumLoads \in Nat
  BY DEF LoadRole, QLoads, LSELoads, dOLoads, SumLoads
<1>2. \A to, half, pair : Flying(to, half, pair) \in {0, 1}
  BY DEF Flying
<1>3. Flying("LSE", 0, LSELoads) \in {0, 1} /\ Flying("sum", 0, SumLoads) \in {0, 1}
  BY <1>2
<1> QED BY <1>1, <1>2, <1>3 DEF LSELanded, SumLanded

LEMMA MmaCounters ==
    ASSUME MmaRole
    PROVE  /\ mm.n \in Nat /\ QTaken \in Nat /\ dOTaken \in Nat /\ SIssued \in Nat
           /\ dSTaken \in Int /\ dQFreed \in Int
           /\ dOTaken <= SIssued /\ mm.n <= dOTaken /\ SIssued <= QTaken /\ QTaken <= mm.n + 1
  BY DEF MmaRole, QTaken, dOTaken, SIssued, dSTaken, dQFreed

LEMMA ComputeCounters ==
    ASSUME ComputeRole, NEW w \in Compute
    PROVE  /\ cw[w].n \in Nat /\ STaken(w) \in Nat /\ PFreed(w) \in Nat /\ LSETaken(w) \in Nat
           /\ PStored(w) \in Nat /\ SumTaken(w) \in Nat /\ dPTaken(w) \in Nat
           /\ cw[w].n <= dPTaken(w) /\ dPTaken(w) <= SumTaken(w) /\ SumTaken(w) <= PStored(w)
           /\ PStored(w) <= LSETaken(w) /\ LSETaken(w) <= PFreed(w) /\ PFreed(w) <= STaken(w)
           /\ STaken(w) <= cw[w].n + 1
<1>1. cw[w].n \in Nat
  BY DEF ComputeRole
<1> QED BY <1>1 DEF STaken, PFreed, LSETaken, PStored, SumTaken, dPTaken, After

LEMMA ReduceCounters ==
    ASSUME ReduceRole, NEW r \in Reduce
    PROVE  rd[r].n \in Nat /\ dQTaken(r) \in Nat
  BY DEF ReduceRole, dQTaken

LEMMA ArrivalTypes ==
    /\ ComputeRole => PStores \in [Compute -> Nat] /\ dSStores \in [Compute -> Nat]
    /\ Epilogues \in [Compute -> Nat]
    /\ ReduceRole => dQReads \in [Reduce -> Nat]
  BY ComputeCounters, ReduceCounters DEF PStores, dSStores, Epilogues, dQReads

\* What the tensor core has done, against itself ..
LEMMA MemoryBounds ==
    ASSUME TensorMemory(Executed), Executed \in Nat, Pairs \in Nat, Pairs >= 1
    PROVE  /\ tS \in Nat /\ tdV \in Nat /\ tdK \in Nat /\ tdPdQ[2] \in Nat /\ dQDone \in Nat
           /\ Released \in Nat /\ Executed >= 2
           /\ tS <= Pairs /\ tdPdQ[2] <= tS /\ tdV <= tdPdQ[2] /\ tdPdQ[2] <= tdV + 1
           /\ dQDone <= tdPdQ[2] /\ tdPdQ[2] <= dQDone + 1
           /\ Released <= dQDone /\ dQDone <= Released + 1
           /\ Released <= tdK /\ tdK <= tdV
           /\ tdPdQ = <<tdPdQ[1], tdPdQ[2]>>
<1>1. CASE Executed \in {2, 3} /\ tS \in {0, 1} /\ tdPdQ = <<"none", 0>> /\ tdV = 0 /\ tdK = 0
           /\ tS <= Pairs
  BY <1>1 DEF dQDone, Released
<1>2. CASE \E i \in 1 .. Pairs : DuringPair(Executed, i)
  <2>1. PICK i \in 1 .. Pairs : DuringPair(Executed, i)
    BY <1>2
  <2>2. CASE tdPdQ = <<"dP", i>>
    BY <2>1, <2>2 DEF DuringPair, Memory, dQDone, Released
  <2>3. CASE tdPdQ = <<"dQ", i>>
    BY <2>1, <2>3 DEF DuringPair, Memory, dQDone, Released
  <2> QED BY <2>1, <2>2, <2>3 DEF DuringPair, Memory
<1>3. CASE Executed = 2 /\ Memory(0, <<"none", 0>>, 0, 0)
  BY <1>1, <1>3 DEF Memory
<1>4. CASE Executed = 3 /\ Memory(1, <<"none", 0>>, 0, 0)
  BY <1>1, <1>4 DEF Memory
<1> QED BY <1>2, <1>3, <1>4 DEF TensorMemory

\* .. and against what was issued.
LEMMA QueueBounds ==
    ASSUME Queue, MmaRole, Pairs \in Nat, Pairs >= 1
    PROVE  /\ tS <= SIssued /\ tdV <= mm.n
           /\ tdPdQ[2] <= mm.n + (IF mm.pc = "p" THEN 1 ELSE 0)
           /\ tdPdQ[2] <= dSTaken + 1 /\ tdPdQ[2] <= dQFreed + 1
           /\ dQDone <= dSTaken \/ dQDone = 0
           /\ Executed <= Issued /\ Issued \in Nat
<1>1. Issued \in Nat
  BY DEF Issued, MmaRole
<1>2. Executed \in Nat /\ Executed <= Issued /\ TensorMemory(Executed)
  BY <1>1 DEF Queue, Executed
<1> DEFINE E == Executed
           I == Issued
<1> HIDE DEF E, I
<1>3. CASE Executed \in {2, 3} /\ tS = Executed - 2 /\ tdPdQ = <<"none", 0>> /\ tdV = 0 /\ tdK = 0
  <2>1. tdPdQ[2] = 0 /\ dQDone = 0
    BY <1>3 DEF dQDone
  <2>2. mm.n \in Nat /\ dSTaken \in Int /\ dSTaken + 1 >= mm.n /\ dQFreed + 1 >= mm.n
    BY DEF MmaRole, dSTaken, dQFreed
  <2>3. tS <= SIssued
    BY <1>2, <1>3 DEF Issued, MmaRole, SIssued
  <2>4. dQFreed \in Int
    BY MmaCounters
  <2> QED BY <1>1, <1>2, <1>3, <2>1, <2>2, <2>3, <2>4
<1>4. CASE \E i \in 1 .. Pairs : DuringPair(Executed, i)
  <2>1. PICK i \in 1 .. Pairs : DuringPair(Executed, i)
    BY <1>4
  <2>2. /\ tS <= SIssued /\ tdV <= mm.n
    BY <1>2, <2>1 DEF DuringPair, Memory, Issued, MmaRole, SIssued
  <2>3. i <= mm.n + (IF mm.pc = "p" THEN 1 ELSE 0) /\ i <= dSTaken + 1 /\ i <= dQFreed + 1
    BY <1>2, <2>1 DEF DuringPair, Memory, Issued, MmaRole, dSTaken, dQFreed
  <2>4. tdPdQ \in {<<"dP", i>>, <<"dQ", i>>} /\ (tdPdQ = <<"dQ", i>> => Executed >= 5 * i + 2)
    BY <2>1 DEF DuringPair, Memory
  <2>5. tdPdQ = <<"dQ", i>> => i <= dSTaken
    BY <1>2, <2>1, <2>4 DEF Issued, MmaRole, dSTaken
  <2>6. dSTaken \in Int
    BY MmaCounters
  <2> QED BY <1>1, <1>2, <2>1, <2>2, <2>3, <2>4, <2>5, <2>6 DEF dQDone
<1> QED BY <1>2, <1>3, <1>4 DEF TensorMemory, Memory

\* How far a compute warp and a reduce warp may be from the tensor core and
\* from the load warp.
LEMMA ComputeWindow ==
    ASSUME Typed, HasWork, Working, NEW w \in Compute
    PROVE  /\ cw[w].n <= tdPdQ[2] /\ tdPdQ[2] <= cw[w].n + 1
           /\ PStored(w) <= tS /\ tS <= PStored(w) + 1
           /\ tdV <= PStored(w) /\ PStored(w) <= tdV + 1
           /\ Released <= cw[w].n /\ cw[w].n <= Released + 1 /\ dQDone <= cw[w].n
           /\ PStored(w) <= LSELoads /\ LSELoads <= PStored(w) + 1
           /\ cw[w].n <= SumLoads /\ SumLoads <= cw[w].n + 1
<1>1. Pairs \in Nat /\ Pairs >= 1
  BY LaunchFacts DEF Typed
<1>2. Queue /\ MmaRole /\ ComputeRole /\ LoadRole /\ Executed \in Nat /\ TensorMemory(Executed)
  BY DEF Working, Queue
<1>3. /\ tS \in Nat /\ tdV \in Nat /\ tdPdQ[2] \in Nat /\ dQDone \in Nat /\ Released \in Nat
      /\ Released <= dQDone
  BY <1>1, <1>2, MemoryBounds
<1>4. /\ tS <= SIssued /\ tdV <= mm.n /\ tdPdQ[2] <= dSTaken + 1
      /\ dQDone <= dSTaken \/ dQDone = 0
  BY <1>1, <1>2, QueueBounds
<1>5. mm.n \in Nat /\ SIssued \in Nat /\ dSTaken \in Int
  BY <1>2, MmaCounters
<1>6. /\ cw[w].n \in Nat /\ PFreed(w) \in Nat /\ PStored(w) \in Nat /\ LSETaken(w) \in Nat
      /\ STaken(w) \in Nat /\ SumTaken(w) \in Nat /\ dPTaken(w) \in Nat
      /\ cw[w].n <= dPTaken(w) /\ dPTaken(w) <= SumTaken(w) /\ PStored(w) <= LSETaken(w)
      /\ LSETaken(w) <= PFreed(w) /\ PFreed(w) <= STaken(w)
  BY <1>2, ComputeCounters
<1>7. /\ SIssued <= PStored(w) + 1 /\ mm.n <= PStored(w) /\ dSTaken <= cw[w].n
  BY DEF Working, MmaOrder
<1>8. /\ STaken(w) <= tS /\ PFreed(w) <= tdV + 1 /\ LSETaken(w) <= LSELanded
      /\ SumTaken(w) <= SumLanded /\ dPTaken(w) <= tdPdQ[2] /\ cw[w].n <= Released + 1
  BY DEF Working, ComputeOrder
<1>9. LSELoads <= PStored(w) + 1 /\ SumLoads <= cw[w].n + 1
  BY DEF Working, LoadOrder
<1>10. /\ LSELanded \in Int /\ SumLanded \in Int /\ LSELoads \in Nat /\ SumLoads \in Nat
       /\ LSELanded <= LSELoads /\ SumLanded <= SumLoads
  BY <1>2, LoadCounters
<1>11. /\ cw[w].n <= tdPdQ[2] /\ tdPdQ[2] <= cw[w].n + 1 /\ tdV <= PStored(w)
       /\ Released <= cw[w].n /\ cw[w].n <= Released + 1 /\ dQDone <= cw[w].n
  BY <1>3, <1>4, <1>5, <1>6, <1>7, <1>8
<1>12. /\ PStored(w) <= tS /\ tS <= PStored(w) + 1 /\ PStored(w) <= tdV + 1
  BY <1>3, <1>4, <1>5, <1>6, <1>7, <1>8
<1>13. /\ PStored(w) <= LSELoads /\ LSELoads <= PStored(w) + 1
       /\ cw[w].n <= SumLoads /\ SumLoads <= cw[w].n + 1
  BY <1>6, <1>8, <1>9, <1>10
<1> QED BY <1>11, <1>12, <1>13

LEMMA ReduceWindow ==
    ASSUME Typed, HasWork, Working, NEW r \in Reduce
    PROVE  dQTaken(r) <= dQDone /\ dQDone <= dQTaken(r) + 1 /\ tdPdQ[2] <= dQTaken(r) + 1
<1>1. Pairs \in Nat /\ Pairs >= 1
  BY LaunchFacts DEF Typed
<1>2. Queue /\ MmaRole /\ ReduceRole /\ Executed \in Nat /\ TensorMemory(Executed)
  BY DEF Working, Queue
<1>3. tdPdQ[2] \in Nat /\ dQDone \in Nat /\ dQDone <= tdPdQ[2]
  BY <1>1, <1>2, MemoryBounds
<1>4. tdPdQ[2] <= dQFreed + 1 /\ dQFreed \in Int
  BY <1>1, <1>2, QueueBounds, MmaCounters
<1>5. dQTaken(r) \in Nat
  BY <1>2, ReduceCounters
<1>6. dQFreed <= dQTaken(r) /\ dQTaken(r) <= dQDone
  BY DEF Working, MmaOrder, ReduceOrder
<1> QED BY <1>3, <1>4, <1>5, <1>6

-----------------------------------------------------------------------------
(* What a step leaves alone.                                               *)

LoadNames == {"q_full", "dO_full", "lse_full", "sum_full"}
TensorNames == {"s_full", "dP_full", "dQ_full", "p_empty", "dO_empty", "dS_empty", "q_empty",
                "dKdV_full"}
ComputeNames == {"p_full", "s_empty", "lse_empty", "dS_full", "dP_empty", "sum_empty",
                 "epilogue_sync"}
ReduceNames == {"dQ_empty"}

LEMMA SameLoads ==
    ASSUME ld' = ld
    PROVE  QLoads' = QLoads /\ LSELoads' = LSELoads /\ dOLoads' = dOLoads /\ SumLoads' = SumLoads
  BY DEF QLoads, LSELoads, dOLoads, SumLoads

LEMMA SameFlights ==
    ASSUME ld' = ld, inflight' = inflight
    PROVE  /\ \A to, half, pair : Flying(to, half, pair)' = Flying(to, half, pair)
           /\ LSELanded' = LSELanded /\ SumLanded' = SumLanded
           /\ \A j : QBytes(j)' = QBytes(j)
           /\ dOBytes' = dOBytes
<1>1. \A to, half, pair : Flying(to, half, pair)' = Flying(to, half, pair)
  BY DEF Flying
<1> QED BY <1>1, SameLoads DEF LSELanded, SumLanded, QBytes, dOBytes

LEMMA SameMma ==
    ASSUME mm' = mm
    PROVE  /\ QTaken' = QTaken /\ dOTaken' = dOTaken /\ SIssued' = SIssued
           /\ dSTaken' = dSTaken /\ dQFreed' = dQFreed /\ Issued' = Issued
  BY DEF QTaken, dOTaken, SIssued, dSTaken, dQFreed, Issued

LEMMA SameMemory ==
    ASSUME UNCHANGED <<tdPdQ, tdK>>
    PROVE  dQDone' = dQDone /\ Released' = Released
  BY DEF dQDone, Released

LEMMA SameWarp ==
    ASSUME NEW w, cw'[w] = cw[w]
    PROVE  /\ STaken(w)' = STaken(w) /\ PFreed(w)' = PFreed(w) /\ LSETaken(w)' = LSETaken(w)
           /\ PStored(w)' = PStored(w) /\ SumTaken(w)' = SumTaken(w)
           /\ dPTaken(w)' = dPTaken(w)
  BY DEF STaken, PFreed, LSETaken, PStored, SumTaken, dPTaken, After

LEMMA SameReader ==
    ASSUME NEW r, rd'[r] = rd[r]
    PROVE  dQTaken(r)' = dQTaken(r)
  BY DEF dQTaken

LEMMA SameArrivals ==
    ASSUME launch' = launch
    PROVE  /\ cw' = cw => PStores' = PStores /\ dSStores' = dSStores /\ Epilogues' = Epilogues
           /\ rd' = rd => dQReads' = dQReads
  BY SameLaunch, SameWarp, SameReader DEF PStores, dSStores, Epilogues, dQReads

LEMMA LoadFrame ==
    ASSUME UNCHANGED <<launch, loaded, ld>>, Still(LoadNames),
           LoadRole, QStages, dOStage, Rows
    PROVE  LoadRole' /\ QStages' /\ dOStage' /\ Rows'
<1>1. UNCHANGED <<launch, ld, inflight, sQ, sK, sdO, sV, sLSE, sSum>> /\ Pairs' = Pairs
  BY SameLaunch DEF loaded
<1>2. LoadRole'
  BY <1>1 DEF LoadRole
<1>3. /\ QLoads' = QLoads /\ LSELoads' = LSELoads /\ dOLoads' = dOLoads /\ SumLoads' = SumLoads
      /\ LSELanded' = LSELanded /\ SumLanded' = SumLanded /\ dOBytes' = dOBytes
  BY <1>1, SameLoads, SameFlights
<1>4. \A j : QBytes(j)' = QBytes(j)
  BY <1>1, SameFlights
<1>5. \A to, half, pair : Flying(to, half, pair)' = Flying(to, half, pair)
  BY <1>1, SameFlights
<1>6. \A j \in {QLoads - 1, QLoads} : bar'[QFull(StageOf(j))] = bar[QFull(StageOf(j))]
  <2>1. \A j \in {QLoads - 1, QLoads} : StageOf(j) \in Stage
    BY LoadCounters DEF StageOf, Stage
  <2> QED BY <2>1, BarNames DEF Still, LoadNames
<1>7. bar'[dOFull] = bar[dOFull] /\ bar'[LSEFull] = bar[LSEFull] /\ bar'[SumFull] = bar[SumFull]
  BY BarNames DEF Still, LoadNames
<1>8. QStages'
  BY <1>1, <1>3, <1>4, <1>5, <1>6 DEF QStages, Phases, Pending
<1>9. dOStage'
  BY <1>1, <1>3, <1>5, <1>7 DEF dOStage, Phases, Pending
<1>10. Rows'
  BY <1>1, <1>3, <1>7 DEF Rows, Phases
<1> QED BY <1>2, <1>8, <1>9, <1>10

LEMMA TensorFrame ==
    ASSUME UNCHANGED <<launch, tS, tdPdQ, tdK, tdV>>, Executed' = Executed, Still(TensorNames),
           ByTensorCore, Executed \in Nat, TensorMemory(Executed), Pairs \in Nat, Pairs >= 1
    PROVE  ByTensorCore'
<1>1. Pairs' = Pairs /\ Released' = Released /\ dQDone' = dQDone /\ Released \in Nat
  BY SameLaunch, SameMemory, MemoryBounds
<1>2. \A j \in {Released - 1, Released} : bar'[QEmpty(StageOf(j))] = bar[QEmpty(StageOf(j))]
  <2>1. \A j \in {Released - 1, Released} : StageOf(j) \in Stage
    BY <1>1 DEF StageOf, Stage
  <2> QED BY <2>1, BarNames DEF Still, TensorNames
<1>3. \A b \in {SFull, dPFull, dQFull, PEmpty, dOEmpty, dSEmpty} : bar'[b] = bar[b]
  BY BarNames DEF Still, TensorNames
<1>4. bar'[dKdVFull(0)] = bar[dKdVFull(0)] /\ bar'[dKdVFull(1)] = bar[dKdVFull(1)]
  BY BarNames DEF Still, TensorNames, Stage
<1> QED BY <1>1, <1>2, <1>3, <1>4 DEF ByTensorCore, Phases

LEMMA ComputeFrame ==
    ASSUME UNCHANGED <<launch, cw>>, Still(ComputeNames), ByCompute
    PROVE  ByCompute'
<1>1. \A b \in {PFull, SEmpty, LSEEmpty, dSFull, dPEmpty, SumEmpty, EpilogueSync} : bar'[b] = bar[b]
  BY WarpBarNames DEF Still, ComputeNames
<1>2. Compute' = Compute /\ PStores' = PStores /\ dSStores' = dSStores /\ Epilogues' = Epilogues
  BY SameLaunch, SameArrivals
<1>3. \A b \in {PFull, SEmpty, LSEEmpty} : AllOf(bar'[b], Compute', PStores')
  BY <1>1, <1>2 DEF ByCompute
<1>4. \A b \in {dSFull, dPEmpty, SumEmpty} : AllOf(bar'[b], Compute', dSStores')
  BY <1>1, <1>2 DEF ByCompute
<1>5. AllOf(bar'[EpilogueSync], Compute', Epilogues')
  BY <1>1, <1>2 DEF ByCompute
<1> QED BY <1>3, <1>4, <1>5 DEF ByCompute

LEMMA ReduceFrame ==
    ASSUME UNCHANGED <<launch, rd>>, Still(ReduceNames), ByReduce
    PROVE  ByReduce'
<1>1. bar'[dQEmpty] = bar[dQEmpty] /\ Reduce' = Reduce /\ dQReads' = dQReads
  BY WarpBarNames, SameLaunch, SameArrivals DEF Still, ReduceNames
<1> QED BY <1>1 DEF ByReduce

LEMMA QueueFrame ==
    ASSUME UNCHANGED <<launch, tS, tdPdQ, tdK, tdV, tc>>, Executed' = Executed, Queue
    PROVE  Queue'
<1>1. Pairs' = Pairs /\ UNCHANGED <<tS, tdPdQ, tdK, tdV, tc>>
  BY SameLaunch
<1>2. \A s, dpdq, dv, dk : Memory(s, dpdq, dv, dk)' = Memory(s, dpdq, dv, dk)
  BY <1>1 DEF Memory
<1>3. \A k, i : DuringPair(k, i)' = DuringPair(k, i)
  BY <1>1, <1>2 DEF DuringPair
<1>4. TensorMemory(Executed)'
  BY <1>1, <1>2, <1>3 DEF Queue, TensorMemory
<1>5. \A k, op, i : OfPair(k, op, i)' = OfPair(k, op, i)
  BY <1>1 DEF OfPair
<1>6. \A k, op : InProgram(k, op)' = InProgram(k, op)
  BY <1>1, <1>5 DEF InProgram
<1>7. \A x \in DOMAIN tc : InProgram(Executed + x, tc[x])'
  BY <1>1, <1>6 DEF Queue
<1> QED BY <1>1, <1>4, <1>7 DEF Queue

-----------------------------------------------------------------------------
(* What is left to show of a step of each role.                            *)

LEMMA Numbers ==
    ASSUME Typed, HasWork, Working
    PROVE  /\ Pairs \in Nat /\ Pairs >= 1 /\ IsFiniteSet(Compute) /\ Compute # {}
           /\ IsFiniteSet(Reduce) /\ Reduce # {}
           /\ Executed \in Nat /\ TensorMemory(Executed) /\ Executed <= Issued /\ Issued \in Nat
           /\ tS \in Nat /\ tdV \in Nat /\ tdK \in Nat /\ tdPdQ[2] \in Nat
           /\ dQDone \in Nat /\ Released \in Nat
           /\ QLoads \in Nat /\ LSELoads \in Nat /\ dOLoads \in Nat /\ SumLoads \in Nat
           /\ LSELanded \in Int /\ SumLanded \in Int
           /\ mm.n \in Nat /\ QTaken \in Nat /\ dOTaken \in Nat /\ SIssued \in Nat
           /\ dSTaken \in Int /\ dQFreed \in Int
<1>1. /\ Pairs \in Nat /\ Pairs >= 1 /\ IsFiniteSet(Compute) /\ Compute # {}
      /\ IsFiniteSet(Reduce) /\ Reduce # {}
  BY LaunchFacts DEF Typed
<1>2. Queue /\ MmaRole /\ LoadRole /\ Executed \in Nat /\ TensorMemory(Executed)
  BY DEF Working, Queue
<1> QED BY <1>1, <1>2, MemoryBounds, QueueBounds, LoadCounters, MmaCounters

LEMMA WarpNumbers ==
    ASSUME Working
    PROVE  /\ \A w \in Compute :
                /\ cw[w].n \in Nat /\ STaken(w) \in Nat /\ PFreed(w) \in Nat
                /\ LSETaken(w) \in Nat /\ PStored(w) \in Nat /\ SumTaken(w) \in Nat
                /\ dPTaken(w) \in Nat
           /\ \A r \in Reduce : rd[r].n \in Nat /\ dQTaken(r) \in Nat
  BY ComputeCounters, ReduceCounters DEF Working

LEMMA LoadKeeps ==
    ASSUME Typed, HasWork, Working,
           UNCHANGED <<launch, sP, sdS, tmem, tc, output, mm, cw, rd>>,
           Still(TensorNames), Still(ComputeNames), Still(ReduceNames),
           LoadRole', QStages', dOStage', Rows', InFlight', LoadOrder',
           LSELanded' \in Int, SumLanded' \in Int,
           LSELanded <= LSELanded', SumLanded <= SumLanded'
    PROVE  Working'
<1> USE DEF Working
<1>1. /\ UNCHANGED <<launch, mm, cw, rd, tc, tS, tdPdQ, tdK, tdV, freed, gdK, gdV>>
      /\ Compute' = Compute /\ Reduce' = Reduce /\ Pairs' = Pairs
  BY SameLaunch DEF tmem, output
<1>2. /\ SIssued' = SIssued /\ dSTaken' = dSTaken /\ dQFreed' = dQFreed /\ Issued' = Issued
      /\ dQDone' = dQDone /\ Released' = Released /\ Executed' = Executed
  BY <1>1, SameMma, SameMemory DEF Executed
<1>3. MmaRole' /\ ComputeRole' /\ ReduceRole'
  BY <1>1 DEF MmaRole, ComputeRole, ReduceRole
<1>4. Queue'
  BY <1>1, <1>2, QueueFrame
<1>5. ByTensorCore' /\ ByCompute' /\ ByReduce'
  BY <1>1, <1>2, TensorFrame, ComputeFrame, ReduceFrame, Numbers
<1>6. \A w \in Compute : cw'[w] = cw[w] /\ \A r \in Reduce : rd'[r] = rd[r]
  BY <1>1
<1>7. ComputeOrder'
  <2> SUFFICES ASSUME NEW w \in Compute'
               PROVE  /\ STaken(w)' <= tS' /\ PFreed(w)' <= tdV' + 1
                      /\ LSETaken(w)' <= LSELanded' /\ SumTaken(w)' <= SumLanded'
                      /\ dPTaken(w)' <= tdPdQ'[2] /\ cw'[w].n <= Released' + 1
                      /\ cw'[w].pc \in {"dk", "epilogue", "done"} => Executed' > 5 * Pairs'
                      /\ cw'[w].pc \in {"epilogue", "done"} => tdK' = Pairs'
    BY DEF ComputeOrder
  <2>1. /\ LSETaken(w) <= LSELanded /\ SumTaken(w) <= SumLanded
        /\ LSETaken(w) \in Nat /\ SumTaken(w) \in Nat
    BY <1>1, WarpNumbers DEF ComputeOrder
  <2>2. LSELanded \in Int /\ SumLanded \in Int
    BY Numbers
  <2>3. LSETaken(w)' <= LSELanded' /\ SumTaken(w)' <= SumLanded'
    BY <1>1, <2>1, <2>2, SameWarp
  <2> QED BY <1>1, <1>2, <2>3, SameWarp DEF ComputeOrder
<1>8. MmaOrder' /\ ReduceOrder'
  BY <1>1, <1>2, SameWarp, SameReader DEF MmaOrder, ReduceOrder
<1>9. Results'
  BY <1>1, SameWarp DEF Results
<1> QED BY <1>3, <1>4, <1>5, <1>7, <1>8, <1>9

LEMMA MmaKeeps ==
    ASSUME Typed, HasWork, Working,
           UNCHANGED <<launch, loaded, sP, sdS, tmem, output, ld, cw, rd>>,
           Still(LoadNames), Still(TensorNames), Still(ComputeNames), Still(ReduceNames),
           MmaRole', Queue', Executed' = Executed, InFlight', MmaOrder',
           QTaken' <= QLoads, dOTaken' <= dOLoads
    PROVE  Working'
<1> USE DEF Working
<1>1. /\ UNCHANGED <<launch, ld, cw, rd, inflight, tS, tdPdQ, tdK, tdV, freed, gdK, gdV>>
      /\ Compute' = Compute /\ Reduce' = Reduce /\ Pairs' = Pairs
  BY SameLaunch DEF tmem, output, loaded
<1>2. /\ QLoads' = QLoads /\ LSELoads' = LSELoads /\ dOLoads' = dOLoads /\ SumLoads' = SumLoads
      /\ LSELanded' = LSELanded /\ SumLanded' = SumLanded
      /\ dQDone' = dQDone /\ Released' = Released
  BY <1>1, SameLoads, SameFlights, SameMemory
<1>3. ComputeRole' /\ ReduceRole'
  BY <1>1 DEF ComputeRole, ReduceRole
<1>4. LoadRole' /\ QStages' /\ dOStage' /\ Rows'
  BY <1>1, LoadFrame
<1>5. ByTensorCore' /\ ByCompute' /\ ByReduce'
  BY <1>1, TensorFrame, ComputeFrame, ReduceFrame, Numbers
<1>6. LoadOrder'
  BY <1>1, <1>2, SameWarp DEF LoadOrder
<1>7. ComputeOrder'
  BY <1>1, <1>2, SameWarp DEF ComputeOrder
<1>8. ReduceOrder' /\ Results'
  BY <1>1, <1>2, SameWarp, SameReader DEF ReduceOrder, Results
<1> QED BY <1>3, <1>4, <1>5, <1>6, <1>7, <1>8

LEMMA TensorKeeps ==
    ASSUME Typed, HasWork, Working,
           UNCHANGED <<launch, loaded, sP, sdS, freed, output, ld, mm, cw, rd>>,
           Still(LoadNames), Still(ComputeNames), Still(ReduceNames),
           Queue', ByTensorCore',
           tS' \in Nat, tdV' \in Nat, tdPdQ'[2] \in Nat, dQDone' \in Nat, Released' \in Nat,
           Executed' \in Nat,
           tS <= tS', tdV <= tdV', tdPdQ[2] <= tdPdQ'[2], dQDone <= dQDone',
           Released <= Released', Executed <= Executed', tdK = Pairs => tdK' = Pairs
    PROVE  Working'
<1> USE DEF Working
<1>1. /\ UNCHANGED <<launch, ld, mm, cw, rd, inflight, freed, gdK, gdV>>
      /\ Compute' = Compute /\ Reduce' = Reduce /\ Pairs' = Pairs
  BY SameLaunch DEF output, loaded
<1>2. /\ QLoads' = QLoads /\ LSELoads' = LSELoads /\ dOLoads' = dOLoads /\ SumLoads' = SumLoads
      /\ LSELanded' = LSELanded /\ SumLanded' = SumLanded
      /\ QTaken' = QTaken /\ dOTaken' = dOTaken /\ SIssued' = SIssued
      /\ dSTaken' = dSTaken /\ dQFreed' = dQFreed
  BY <1>1, SameLoads, SameFlights, SameMma
<1>3. ComputeRole' /\ ReduceRole' /\ MmaRole'
  BY <1>1 DEF ComputeRole, ReduceRole, MmaRole
<1>4. LoadRole' /\ QStages' /\ dOStage' /\ Rows'
  BY <1>1, LoadFrame
<1>5. ByCompute' /\ ByReduce'
  BY <1>1, ComputeFrame, ReduceFrame
<1>6. InFlight'
  BY <1>1, <1>2 DEF InFlight
<1>7. LoadOrder'
  <2>1. QLoads <= Released + 2 /\ dOLoads <= tdV + 1
    BY DEF LoadOrder
  <2>2. QLoads <= Released' + 2 /\ dOLoads <= tdV' + 1
    BY <2>1, Numbers
  <2> QED BY <1>1, <1>2, <2>2, SameWarp DEF LoadOrder
<1>8. ComputeOrder'
  <2> SUFFICES ASSUME NEW w \in Compute'
               PROVE  /\ STaken(w)' <= tS' /\ PFreed(w)' <= tdV' + 1
                      /\ LSETaken(w)' <= LSELanded' /\ SumTaken(w)' <= SumLanded'
                      /\ dPTaken(w)' <= tdPdQ'[2] /\ cw'[w].n <= Released' + 1
                      /\ cw'[w].pc \in {"dk", "epilogue", "done"} => Executed' > 5 * Pairs'
                      /\ cw'[w].pc \in {"epilogue", "done"} => tdK' = Pairs'
    BY DEF ComputeOrder
  <2>1. /\ STaken(w) <= tS /\ PFreed(w) <= tdV + 1 /\ dPTaken(w) <= tdPdQ[2]
        /\ cw[w].n <= Released + 1
    BY <1>1 DEF ComputeOrder
  <2>2. STaken(w) \in Nat /\ PFreed(w) \in Nat /\ dPTaken(w) \in Nat /\ cw[w].n \in Nat
    BY <1>1, WarpNumbers
  <2>3. /\ STaken(w) <= tS' /\ PFreed(w) <= tdV' + 1 /\ dPTaken(w) <= tdPdQ'[2]
        /\ cw[w].n <= Released' + 1
    BY <2>1, <2>2, Numbers
  <2>4. /\ LSETaken(w) <= LSELanded /\ SumTaken(w) <= SumLanded
        /\ cw[w].pc \in {"epilogue", "done"} => tdK = Pairs
    BY <1>1 DEF ComputeOrder
  <2>5. cw[w].pc \in {"dk", "epilogue", "done"} => Executed' > 5 * Pairs
    <3>1. cw[w].pc \in {"dk", "epilogue", "done"} => Executed > 5 * Pairs
      BY <1>1 DEF ComputeOrder
    <3> QED BY <3>1, Numbers
  <2> QED BY <1>1, <1>2, <2>3, <2>4, <2>5, SameWarp
<1>9. MmaOrder'
  BY <1>1, <1>2, SameWarp, SameReader DEF MmaOrder
<1>10. ReduceOrder'
  <2>1. \A r \in Reduce : dQTaken(r) <= dQDone /\ dQTaken(r) \in Nat
    BY WarpNumbers DEF ReduceOrder
  <2>2. \A r \in Reduce : dQTaken(r) <= dQDone'
    BY <2>1, Numbers
  <2> QED BY <1>1, <2>2, SameReader DEF ReduceOrder
<1>11. Results'
  BY <1>1, SameWarp DEF Results
<1> QED BY <1>3, <1>4, <1>5, <1>6, <1>7, <1>8, <1>9, <1>10, <1>11

LEMMA ComputeKeeps ==
    ASSUME Typed, HasWork, Working,
           UNCHANGED <<launch, loaded, tS, tdPdQ, tdK, tdV, tc, ld, mm, rd>>,
           Still(LoadNames), Still(TensorNames), Still(ReduceNames),
           ComputeRole', ByCompute', ComputeOrder', Results',
           \A v \in Compute : /\ PStored(v)' \in Nat /\ cw'[v].n \in Nat
                              /\ PStored(v) <= PStored(v)' /\ cw[v].n <= cw'[v].n
    PROVE  Working'
<1> USE DEF Working
<1>1. /\ UNCHANGED <<launch, ld, mm, rd, inflight, tS, tdPdQ, tdK, tdV>>
      /\ Compute' = Compute /\ Reduce' = Reduce /\ Pairs' = Pairs
  BY SameLaunch DEF loaded
<1>2. /\ QLoads' = QLoads /\ LSELoads' = LSELoads /\ dOLoads' = dOLoads /\ SumLoads' = SumLoads
      /\ QTaken' = QTaken /\ dOTaken' = dOTaken /\ SIssued' = SIssued
      /\ dSTaken' = dSTaken /\ dQFreed' = dQFreed /\ Issued' = Issued
      /\ dQDone' = dQDone /\ Released' = Released /\ Executed' = Executed
  BY <1>1, SameLoads, SameMma, SameMemory DEF Executed
<1>3. ReduceRole' /\ MmaRole'
  BY <1>1 DEF ReduceRole, MmaRole
<1>4. LoadRole' /\ QStages' /\ dOStage' /\ Rows'
  BY <1>1, LoadFrame
<1>5. ByTensorCore' /\ ByReduce'
  BY <1>1, <1>2, TensorFrame, ReduceFrame, Numbers
<1>6. InFlight'
  BY <1>1, <1>2 DEF InFlight
<1>7. Queue'
  BY <1>1, <1>2, QueueFrame
<1>8. LoadOrder' /\ MmaOrder'
  <2>1. \A v \in Compute : PStored(v) \in Nat /\ cw[v].n \in Nat
    BY WarpNumbers
  <2>2. \A v \in Compute :
          /\ LSELoads <= PStored(v)' + 1 /\ SumLoads <= cw'[v].n + 1
          /\ SIssued <= PStored(v)' + 1 /\ mm.n <= PStored(v)' /\ dSTaken <= cw'[v].n
    <3> SUFFICES ASSUME NEW v \in Compute
                 PROVE  /\ LSELoads <= PStored(v)' + 1 /\ SumLoads <= cw'[v].n + 1
                        /\ SIssued <= PStored(v)' + 1 /\ mm.n <= PStored(v)'
                        /\ dSTaken <= cw'[v].n
      OBVIOUS
    <3>1. /\ LSELoads <= PStored(v) + 1 /\ SumLoads <= cw[v].n + 1
          /\ SIssued <= PStored(v) + 1 /\ mm.n <= PStored(v) /\ dSTaken <= cw[v].n
      BY DEF LoadOrder, MmaOrder
    <3> QED BY <2>1, <3>1, Numbers
  <2>3. LoadOrder'
    BY <1>1, <1>2, <2>2 DEF LoadOrder
  <2>4. MmaOrder'
    BY <1>1, <1>2, <2>2, SameReader DEF MmaOrder
  <2> QED BY <2>3, <2>4
<1>9. ReduceOrder'
  BY <1>1, <1>2, SameReader DEF ReduceOrder
<1> QED BY <1>3, <1>4, <1>5, <1>6, <1>7, <1>8, <1>9

LEMMA ReduceKeeps ==
    ASSUME Typed, HasWork, Working,
           UNCHANGED <<launch, loaded, sP, sdS, tmem, tc, output, ld, mm, cw>>,
           Still(LoadNames), Still(TensorNames), Still(ComputeNames),
           ReduceRole', ByReduce', ReduceOrder',
           \A r \in Reduce : dQTaken(r)' \in Nat /\ dQTaken(r) <= dQTaken(r)'
    PROVE  Working'
<1> USE DEF Working
<1>1. /\ UNCHANGED <<launch, ld, mm, cw, inflight, tS, tdPdQ, tdK, tdV, freed, gdV, gdK>>
      /\ Compute' = Compute /\ Reduce' = Reduce /\ Pairs' = Pairs
  BY SameLaunch DEF loaded, tmem, output
<1>2. /\ QLoads' = QLoads /\ LSELoads' = LSELoads /\ dOLoads' = dOLoads /\ SumLoads' = SumLoads
      /\ LSELanded' = LSELanded /\ SumLanded' = SumLanded
      /\ QTaken' = QTaken /\ dOTaken' = dOTaken /\ SIssued' = SIssued
      /\ dSTaken' = dSTaken /\ dQFreed' = dQFreed /\ Issued' = Issued
      /\ dQDone' = dQDone /\ Released' = Released /\ Executed' = Executed
  BY <1>1, SameLoads, SameFlights, SameMma, SameMemory DEF Executed
<1>3. ComputeRole' /\ MmaRole'
  BY <1>1 DEF ComputeRole, MmaRole
<1>4. LoadRole' /\ QStages' /\ dOStage' /\ Rows'
  BY <1>1, LoadFrame
<1>5. ByTensorCore' /\ ByCompute'
  BY <1>1, <1>2, TensorFrame, ComputeFrame, Numbers
<1>6. InFlight'
  BY <1>1, <1>2 DEF InFlight
<1>7. Queue'
  BY <1>1, <1>2, QueueFrame
<1>8. LoadOrder' /\ ComputeOrder' /\ Results'
  BY <1>1, <1>2, SameWarp DEF LoadOrder, ComputeOrder, Results
<1>9. MmaOrder'
  <2>1. \A r \in Reduce : dQFreed <= dQTaken(r) /\ dQTaken(r) \in Nat
    BY WarpNumbers DEF MmaOrder
  <2>2. \A r \in Reduce : dQFreed <= dQTaken(r)'
    BY <2>1, Numbers
  <2> QED BY <1>1, <1>2, <2>2, SameWarp DEF MmaOrder
<1> QED BY <1>3, <1>4, <1>5, <1>6, <1>7, <1>8, <1>9

-----------------------------------------------------------------------------
(* Steps of the MMA warp.                                                  *)

\* What is issued is the next of the program.
LEMMA QueueAppend ==
    ASSUME Queue, Issued \in Nat, NEW ops \in Seq(Operation), Issue(ops),
           Issued' = Issued + Len(ops), UNCHANGED <<launch, tS, tdPdQ, tdK, tdV>>,
           \A x \in DOMAIN ops : InProgram(Issued + x, ops[x])
    PROVE  Queue' /\ Executed' = Executed
<1>1. /\ tc \in Seq(Operation) /\ Executed \in Nat /\ TensorMemory(Executed)
      /\ \A x \in DOMAIN tc : InProgram(Executed + x, tc[x])
  BY DEF Queue
<1>2. /\ Pairs' = Pairs /\ UNCHANGED <<tS, tdPdQ, tdK, tdV>>
      /\ tc' = tc \o ops
  BY SameLaunch DEF Issue
<1>3. /\ tc' \in Seq(Operation) /\ Len(tc') = Len(tc) + Len(ops) /\ Len(tc) \in Nat
      /\ Len(ops) \in Nat /\ DOMAIN tc = 1 .. Len(tc) /\ DOMAIN ops = 1 .. Len(ops)
      /\ DOMAIN tc' = 1 .. Len(tc')
      /\ \A x \in 1 .. Len(tc) : tc'[x] = tc[x]
      /\ \A x \in Len(tc) + 1 .. Len(tc') : tc'[x] = ops[x - Len(tc)]
  BY <1>1, <1>2
<1>4. Executed' = Executed
  BY <1>3 DEF Executed
<1>5. \A s, dpdq, dv, dk : Memory(s, dpdq, dv, dk)' = Memory(s, dpdq, dv, dk)
  BY <1>2 DEF Memory
<1>6. \A k, i : DuringPair(k, i)' = DuringPair(k, i)
  BY <1>2, <1>5 DEF DuringPair
<1>7. TensorMemory(Executed)'
  BY <1>1, <1>2, <1>4, <1>5, <1>6 DEF TensorMemory
<1>8. \A k, op, i : OfPair(k, op, i)' = OfPair(k, op, i)
  BY <1>2 DEF OfPair
<1>9. \A k, op : InProgram(k, op)' = InProgram(k, op)
  BY <1>2, <1>8 DEF InProgram
<1>10. ASSUME NEW x \in DOMAIN tc'
       PROVE  InProgram(Executed + x, tc'[x])
  <2>1. CASE x \in 1 .. Len(tc)
    BY <1>1, <1>3, <2>1
  <2>2. CASE x \in Len(tc) + 1 .. Len(tc')
    <3>1. x - Len(tc) \in DOMAIN ops /\ Executed + x = Issued + (x - Len(tc))
      BY <1>1, <1>3, <2>2 DEF Executed
    <3> QED BY <1>3, <2>2, <3>1
  <2> QED BY <1>3, <1>10, <2>1, <2>2
<1>11. (\A x \in DOMAIN tc : InProgram(Executed + x, tc[x]))'
  BY <1>4, <1>9, <1>10
<1> QED BY <1>1, <1>3, <1>4, <1>7, <1>11 DEF Queue

LEMMA IssueOne ==
    ASSUME Queue, Issued \in Nat, NEW op \in Operation, Issue(<<op>>),
           Issued' = Issued + 1, UNCHANGED <<launch, tS, tdPdQ, tdK, tdV>>,
           InProgram(Issued + 1, op)
    PROVE  Queue' /\ Executed' = Executed
<1>1. <<op>> \in Seq(Operation) /\ Len(<<op>>) = 1 /\ DOMAIN <<op>> = {1} /\ <<op>>[1] = op
  OBVIOUS
<1> QED BY <1>1, QueueAppend

LEMMA IssueTwo ==
    ASSUME Queue, Issued \in Nat, NEW op1 \in Operation, NEW op2 \in Operation,
           Issue(<<op1, op2>>),
           Issued' = Issued + 2, UNCHANGED <<launch, tS, tdPdQ, tdK, tdV>>,
           InProgram(Issued + 1, op1), InProgram(Issued + 2, op2)
    PROVE  Queue' /\ Executed' = Executed
<1> DEFINE ops == <<op1, op2>>
<1>1. /\ ops \in Seq(Operation) /\ Len(ops) = 2 /\ DOMAIN ops = {1, 2}
      /\ ops[1] = op1 /\ ops[2] = op2 /\ Issue(ops)
  OBVIOUS
<1> HIDE DEF ops
<1> QED BY <1>1, QueueAppend

\* S waits for Q: the whole pair has landed.
LEMMA QWait ==
    ASSUME Typed, HasWork, Working, mm.pc = "q",
           Done(QFull(mm.n % 2), ConsumerPhase2(mm.n))
    PROVE  mm.n + 1 <= QLoads /\ QBytes(mm.n + 1) = 0
<1> DEFINE n == mm.n
<1>1. n \in Nat /\ QLoads \in Nat /\ Released \in Nat /\ QTaken = n /\ dSTaken = n - 1
  BY Numbers DEF QTaken, dSTaken
<1>2. QTaken <= QLoads /\ QLoads <= Released + 2
  BY DEF Working, LoadOrder
<1>3. Released <= dQDone /\ (dQDone <= n - 1 \/ dQDone = 0) /\ dQDone \in Nat
  BY <1>1, Numbers, MemoryBounds, QueueBounds DEF Working
<1>4. n <= QLoads /\ (QLoads \in {n, n + 1} \/ (QLoads = n + 2 /\ n = 0))
  BY <1>1, <1>2, <1>3
<1>5. /\ n % 2 \in {0, 1} /\ (n + 2) % 2 = n % 2 /\ (n + 2) \div 2 = (n \div 2) + 1
      /\ n \div 2 \in Nat
  BY <1>1, Parity
<1>6. ASSUME NEW j \in {QLoads - 1, QLoads}
      PROVE  IF QBytes(j) = 0 THEN Phases(bar[QFull(StageOf(j))], PhaseOf(j))
             ELSE Pending(bar[QFull(StageOf(j))], PhaseOf(j), QBytes(j))
  BY DEF Working, QStages
<1>7. bar[QFull(n % 2)].par # (n \div 2) % 2
  BY DEF Done, ConsumerPhase2
<1>8. QLoads # n
  <2> SUFFICES ASSUME QLoads = n PROVE FALSE
    OBVIOUS
  <2>1. StageOf(n - 1) = n % 2 /\ PhaseOf(n - 1) = n \div 2
    BY <1>1 DEF StageOf, PhaseOf
  <2>2. QBytes(n - 1) = 0
    <3>1. \A h : Copy("Q", h, n - 1) \notin inflight
      BY <1>1 DEF Working, InFlight, Copy
    <3>2. Copy("K", 0, n - 1) \notin inflight
      BY <1>1 DEF Working, InFlight, Copy
    <3> QED BY <3>1, <3>2 DEF QBytes, Flying
  <2>3. Phases(bar[QFull(n % 2)], n \div 2)
    BY <1>6, <2>1, <2>2
  <2> QED BY <1>7, <2>3 DEF Phases
<1>9. n + 1 \in {QLoads - 1, QLoads}
  BY <1>1, <1>4, <1>8
<1>10. StageOf(n + 1) = n % 2 /\ PhaseOf(n + 1) = (n \div 2) + 1
  BY <1>1, <1>5 DEF StageOf, PhaseOf
<1>11. QBytes(n + 1) = 0
  <2> SUFFICES ASSUME QBytes(n + 1) # 0 PROVE FALSE
    OBVIOUS
  <2>1. bar[QFull(n % 2)].par = (((n \div 2) + 1) + 1) % 2
    BY <1>6, <1>9, <1>10 DEF Pending
  <2>2. (((n \div 2) + 1) + 1) % 2 = (n \div 2) % 2
    BY <1>5, Parity
  <2> QED BY <1>7, <2>1, <2>2
<1> QED BY <1>1, <1>9, <1>11

\* dP waits for dO.
LEMMA dOWait ==
    ASSUME Typed, HasWork, Working, mm.pc = "dO", Done(dOFull, ConsumerPhase(mm.n))
    PROVE  dOLoads = mm.n + 1 /\ dOBytes = 0
<1> DEFINE n == mm.n
<1>1. n \in Nat /\ dOLoads \in Nat /\ tdV \in Nat /\ dOTaken = n
  BY Numbers DEF dOTaken
<1>2. dOTaken <= dOLoads /\ dOLoads <= tdV + 1
  BY DEF Working, LoadOrder
<1>3. tdV <= n
  BY Numbers, QueueBounds DEF Working
<1>4. dOLoads \in {n, n + 1}
  BY <1>1, <1>2, <1>3
<1>5. bar[dOFull].par # n % 2
  BY DEF Done, ConsumerPhase
<1>6. /\ dOBytes = 0 => bar[dOFull].par = dOLoads % 2
      /\ dOBytes # 0 => bar[dOFull].par = (dOLoads + 1) % 2
  BY DEF Working, dOStage, Phases, Pending
<1>7. (n + 2) % 2 = n % 2
  BY <1>1, Parity
<1>8. dOLoads # n
  <2> SUFFICES ASSUME dOLoads = n PROVE FALSE
    OBVIOUS
  <2>1. \A h : Copy("dO", h, n) \notin inflight
    BY <1>1 DEF Working, InFlight, Copy
  <2>2. Copy("V", 0, n) \notin inflight
    BY <1>1 DEF Working, InFlight, Copy
  <2>3. dOBytes = 0
    BY <2>1, <2>2 DEF dOBytes, Flying
  <2> QED BY <1>5, <1>6, <2>3
<1>9. dOLoads = n + 1
  BY <1>4, <1>8
<1>10. dOBytes = 0
  <2>1. (n + 1) + 1 = n + 2
    BY <1>1
  <2> QED BY <1>5, <1>6, <1>7, <1>9, <2>1
<1> QED BY <1>9, <1>10

\* dQ and dK wait for dS, dP for the dQ before it, dV for P.
LEMMA dSWait ==
    ASSUME Typed, HasWork, Working, mm.pc \in {"ds", "lastds"},
           Done(dSFull, ConsumerPhase(mm.n - 1))
    PROVE  \A w \in Compute : cw[w].n = mm.n
<1>1. mm.n \in Nat /\ mm.n >= 1 /\ dSTaken = mm.n - 1
  BY Numbers DEF Working, MmaRole, dSTaken
<1>2. (dQDone <= mm.n - 1 \/ dQDone = 0) /\ dQDone \in Nat /\ Released \in Nat /\ Released <= dQDone
  BY <1>1, Numbers, QueueBounds, MemoryBounds DEF Working
<1>3. \A w \in Compute : cw[w].n = mm.n - 1 \/ cw[w].n = (mm.n - 1) + 1
  <2> SUFFICES ASSUME NEW w \in Compute PROVE cw[w].n = mm.n - 1 \/ cw[w].n = (mm.n - 1) + 1
    OBVIOUS
  <2>1. cw[w].n <= Released + 1 /\ dSTaken <= cw[w].n
    BY DEF Working, ComputeOrder, MmaOrder
  <2>2. cw[w].n \in Nat
    BY WarpNumbers
  <2> QED BY <1>1, <1>2, <2>1, <2>2
<1>4. dSStores \in [Compute -> Nat] /\ \A w \in Compute : dSStores[w] = cw[w].n
  BY ArrivalTypes DEF Working, dSStores
<1>5. AllOf(bar[dSFull], Compute, dSStores)
  BY DEF Working, ByCompute
<1>6. \A w \in Compute : dSStores[w] = (mm.n - 1) + 1
  <2>1. mm.n - 1 \in Nat
    BY <1>1
  <2> QED BY <1>3, <1>4, <1>5, <2>1, AllWait
<1> QED BY <1>1, <1>4, <1>6

LEMMA dQWait ==
    ASSUME Typed, HasWork, Working, mm.pc = "dq", Done(dQEmpty, ProducerPhase(mm.n))
    PROVE  \A r \in Reduce : dQTaken(r) = mm.n
<1>1. mm.n \in Nat /\ dSTaken = mm.n /\ dQFreed = mm.n - 1
  BY Numbers DEF dSTaken, dQFreed
<1>2. (dQDone <= mm.n \/ dQDone = 0) /\ dQDone \in Nat
  BY <1>1, Numbers, QueueBounds DEF Working
<1>3. \A r \in Reduce : dQTaken(r) = mm.n \/ dQTaken(r) = mm.n - 1
  <2> SUFFICES ASSUME NEW r \in Reduce PROVE dQTaken(r) = mm.n \/ dQTaken(r) = mm.n - 1
    OBVIOUS
  <2>1. dQFreed <= dQTaken(r) /\ dQTaken(r) <= dQDone /\ dQTaken(r) \in Nat
    BY WarpNumbers DEF Working, ReduceOrder, MmaOrder
  <2> QED BY <1>1, <1>2, <2>1
<1>4. dQReads \in [Reduce -> Nat] /\ \A r \in Reduce : dQReads[r] = dQTaken(r)
  BY ArrivalTypes DEF Working, dQReads
<1>5. AllOf(bar[dQEmpty], Reduce, dQReads)
  BY DEF Working, ByReduce
<1>6. \A r \in Reduce : dQReads[r] = mm.n
  BY <1>1, <1>3, <1>4, <1>5, AllFree
<1> QED BY <1>4, <1>6

LEMMA PWait ==
    ASSUME Typed, HasWork, Working, mm.pc = "p", Done(PFull, ConsumerPhase(mm.n))
    PROVE  \A w \in Compute : PStored(w) = mm.n + 1
<1>1. mm.n \in Nat /\ SIssued = mm.n + 1
  BY Numbers DEF SIssued
<1>2. \A w \in Compute : PStored(w) = mm.n \/ PStored(w) = mm.n + 1
  <2> SUFFICES ASSUME NEW w \in Compute PROVE PStored(w) = mm.n \/ PStored(w) = mm.n + 1
    OBVIOUS
  <2>1. mm.n <= PStored(w) /\ PStored(w) \in Nat
    BY WarpNumbers DEF Working, MmaOrder
  <2>2. PStored(w) <= tS /\ tS <= SIssued /\ tS \in Nat
    BY Numbers, ComputeWindow, QueueBounds DEF Working
  <2> QED BY <1>1, <2>1, <2>2
<1>3. PStores \in [Compute -> Nat] /\ \A w \in Compute : PStores[w] = PStored(w)
  BY ArrivalTypes DEF Working, PStores
<1>4. AllOf(bar[PFull], Compute, PStores)
  BY DEF Working, ByCompute
<1>5. \A w \in Compute : PStores[w] = mm.n + 1
  BY <1>1, <1>2, <1>3, <1>4, AllWait
<1> QED BY <1>3, <1>5

LEMMA MmaDone ==
    ASSUME Typed, HasWork, Working, MmaUnchanged, DOMAIN bar' = BarId,
           \A b \in BarId : b # TmemAlloc => bar'[b] = bar[b],
           MmaRole', Queue', Executed' = Executed, InFlight',
           QTaken' <= QLoads, dOTaken' <= dOLoads,
           \A w \in Compute :
             SIssued' <= PStored(w) + 1 /\ mm'.n <= PStored(w) /\ dSTaken' <= cw[w].n,
           \A r \in Reduce : dQFreed' <= dQTaken(r)
    PROVE  Typed' /\ Working'
<1>1. UNCHANGED <<launch, loaded, sP, sdS, tmem, output, ld, cw, rd>>
  BY DEF MmaUnchanged
<1>2. Compute' = Compute /\ Reduce' = Reduce /\ UNCHANGED <<cw, rd>>
  BY <1>1, SameLaunch
<1>3. Still(LoadNames) /\ Still(TensorNames) /\ Still(ComputeNames) /\ Still(ReduceNames)
  BY WarpBarNames DEF Still, LoadNames, TensorNames, ComputeNames, ReduceNames
<1>4. MmaOrder'
  BY <1>2, SameWarp, SameReader DEF MmaOrder
<1>5. Typed'
  BY <1>1, <1>2 DEF Typed, loaded, tmem, output
<1> QED BY <1>1, <1>3, <1>4, <1>5, MmaKeeps

LEMMA InFlightSame ==
    ASSUME InFlight, UNCHANGED <<ld, inflight>>, QTaken' = QTaken, dOTaken' = dOTaken
    PROVE  InFlight'
  BY SameLoads DEF InFlight

\* The bounds of MmaOrder, as MmaDone asks for them.
LEMMA MmaBehind ==
    ASSUME Typed, HasWork, Working
    PROVE  /\ QTaken <= QLoads /\ dOTaken <= dOLoads
           /\ \A w \in Compute :
                /\ SIssued <= PStored(w) + 1 /\ mm.n <= PStored(w) /\ dSTaken <= cw[w].n
                /\ PStored(w) \in Nat /\ cw[w].n \in Nat
           /\ \A r \in Reduce : dQFreed <= dQTaken(r) /\ dQTaken(r) \in Nat
  BY WarpNumbers DEF Working, MmaOrder, LoadOrder

LEMMA MmaAllocStep ==
    ASSUME Typed, HasWork, Working, MmaAlloc
    PROVE  Typed' /\ Working'
<1>1. MmaUnchanged /\ tc' = tc /\ mm.pc \in {"alloc", "allocated"} /\ mm.n = 0 /\ MmaRole
  BY DEF MmaAlloc, Working, MmaRole
<1>2. mm' = [mm EXCEPT !.pc = "allocated"] \/ mm' = [mm EXCEPT !.pc = "q"]
  BY DEF MmaAlloc
<1>3. mm'.n = 0 /\ mm'.pc \in {"allocated", "q"} /\ mm' \in [pc : {"allocated", "q"}, n : {0}]
  BY <1>1, <1>2 DEF MmaRole
<1>4. DOMAIN bar' = BarId /\ \A b \in BarId : b # TmemAlloc => bar'[b] = bar[b]
  <2>1. CASE Arrive({TmemAlloc})
    BY <2>1, ArriveEffect, WarpBarNames
  <2>2. CASE bar' = bar
    BY <2>2 DEF Typed
  <2> QED BY <2>1, <2>2 DEF MmaAlloc
<1>5. launch' = launch /\ UNCHANGED <<tS, tdPdQ, tdK, tdV, ld, inflight>> /\ Pairs' = Pairs
  BY <1>1, SameLaunch DEF MmaUnchanged, tmem, loaded
<1>6. MmaRole'
  BY <1>1, <1>3, <1>5, Numbers DEF MmaRole
<1>7. /\ Issued' = Issued /\ QTaken' = QTaken /\ dOTaken' = dOTaken /\ SIssued' = SIssued
      /\ dSTaken' = dSTaken /\ dQFreed' = dQFreed
  BY <1>1, <1>3 DEF Issued, QTaken, dOTaken, SIssued, dSTaken, dQFreed
<1>8. Executed' = Executed
  BY <1>1, <1>7 DEF Executed
<1>9. Queue' /\ InFlight'
  BY <1>1, <1>5, <1>7, <1>8, QueueFrame, InFlightSame DEF Working
<1> QED BY <1>1, <1>3, <1>4, <1>6, <1>7, <1>8, <1>9, MmaBehind, MmaDone

LEMMA MmaWaitStep ==
    ASSUME Typed, HasWork, Working, MmaWait
    PROVE  Typed' /\ Working'
<1>1. /\ MmaUnchanged /\ tc' = tc /\ bar' = bar /\ MmaRole /\ mm.n \in Nat
      /\ launch' = launch /\ UNCHANGED <<tS, tdPdQ, tdK, tdV, ld, inflight>> /\ Pairs' = Pairs
  BY Numbers, SameLaunch DEF MmaWait, MmaUnchanged, Working, tmem, loaded
<1>2. DOMAIN bar' = BarId /\ \A b \in BarId : b # TmemAlloc => bar'[b] = bar[b]
  BY <1>1 DEF Typed
<1>3. CASE /\ mm.pc = "q" /\ Done(QFull(mm.n % 2), ConsumerPhase2(mm.n))
           /\ mm' = [mm EXCEPT !.pc = "s"]
  <2>1. mm.n + 1 <= QLoads /\ QBytes(mm.n + 1) = 0
    BY <1>3, QWait
  <2>2. mm'.pc = "s" /\ mm'.n = mm.n /\ mm' \in [pc : {"s"}, n : Nat]
    BY <1>1, <1>3 DEF MmaRole
  <2>3. MmaRole'
    BY <1>1, <1>3, <2>2 DEF MmaRole
  <2>4. /\ Issued' = Issued /\ QTaken' = mm.n + 1 /\ QTaken = mm.n /\ dOTaken' = dOTaken
        /\ SIssued' = SIssued /\ dSTaken' = dSTaken /\ dQFreed' = dQFreed
    BY <1>1, <1>3, <2>2 DEF Issued, QTaken, dOTaken, SIssued, dSTaken, dQFreed
  <2>5. Executed' = Executed
    BY <1>1, <2>4 DEF Executed
  <2>6. Queue'
    BY <1>1, <2>5, QueueFrame DEF Working
  <2>7. /\ \A h \in Stage : Copy("Q", h, mm.n + 1) \notin inflight
        /\ Copy("K", 0, mm.n + 1) \notin inflight
    <3>1. \A h \in Stage : h = 0 \/ h = 1
      BY DEF Stage
    <3>2. Flying("Q", 0, mm.n + 1) = 0 /\ Flying("Q", 1, mm.n + 1) = 0 /\ Flying("K", 0, mm.n + 1) = 0
      BY <2>1 DEF QBytes, Flying
    <3> QED BY <3>1, <3>2 DEF Flying
  <2>8. InFlight'
    <3>1. /\ QLoads' = QLoads /\ LSELoads' = LSELoads /\ dOLoads' = dOLoads
          /\ SumLoads' = SumLoads
      BY <1>1, SameLoads
    <3>2. ASSUME NEW c \in inflight
          PROVE  \/ \E h \in Stage, j \in {QLoads - 1, QLoads} :
                       c = Copy("Q", h, j) /\ j > mm.n + 1
                 \/ c = Copy("LSE", 0, LSELoads) /\ LSELoads > 0
                 \/ \E h \in Stage : c = Copy("dO", h, dOLoads) /\ dOLoads > dOTaken
                 \/ c = Copy("V", 0, 1) /\ dOTaken = 0 /\ dOLoads = 1
                 \/ c = Copy("sum", 0, SumLoads) /\ SumLoads > 0
      <4>1. CASE \E h \in Stage, j \in {QLoads - 1, QLoads} : c = Copy("Q", h, j) /\ j > QTaken
        <5>1. PICK h \in Stage, j \in {QLoads - 1, QLoads} : c = Copy("Q", h, j) /\ j > QTaken
          BY <4>1
        <5>2. j # mm.n + 1
          BY <2>7, <5>1
        <5>3. j > mm.n + 1
          BY <2>4, <5>1, <5>2, Numbers
        <5> QED BY <5>1, <5>3
      <4>2. CASE c = Copy("K", 0, 1) /\ QTaken = 0
        BY <2>4, <2>7, <4>2
      <4> QED BY <4>1, <4>2 DEF Working, InFlight
    <3> QED BY <1>1, <2>4, <3>1, <3>2 DEF InFlight
  <2> QED BY <1>1, <1>2, <2>1, <2>2, <2>3, <2>4, <2>5, <2>6, <2>8, MmaBehind, MmaDone
<1>4. CASE /\ mm.pc = "ds" /\ Done(dSFull, ConsumerPhase(mm.n - 1))
           /\ mm' = [mm EXCEPT !.pc = "dp"]
  <2>1. \A w \in Compute : cw[w].n = mm.n
    BY <1>4, dSWait
  <2>2. mm'.pc = "dp" /\ mm'.n = mm.n /\ mm' \in [pc : {"dp"}, n : Nat]
    BY <1>1, <1>4 DEF MmaRole
  <2>3. MmaRole'
    BY <1>1, <1>4, <2>2 DEF MmaRole
  <2>4. /\ Issued' = Issued /\ QTaken' = QTaken /\ dOTaken' = dOTaken
        /\ SIssued' = SIssued /\ dSTaken' = mm.n /\ dQFreed' = dQFreed
    BY <1>1, <1>4, <2>2 DEF Issued, QTaken, dOTaken, SIssued, dSTaken, dQFreed
  <2>5. Executed' = Executed
    BY <1>1, <2>4 DEF Executed
  <2>6. Queue' /\ InFlight'
    BY <1>1, <2>4, <2>5, QueueFrame, InFlightSame DEF Working
  <2>7. \A w \in Compute : dSTaken' <= cw[w].n
    BY <1>1, <2>1, <2>4
  <2> QED BY <1>1, <1>2, <2>2, <2>3, <2>4, <2>5, <2>6, <2>7, MmaBehind, MmaDone
<1>5. CASE /\ mm.pc = "dq" /\ Done(dQEmpty, ProducerPhase(mm.n))
           /\ mm' = [mm EXCEPT !.pc = "dO"]
  <2>1. \A r \in Reduce : dQTaken(r) = mm.n
    BY <1>5, dQWait
  <2>2. mm'.pc = "dO" /\ mm'.n = mm.n /\ mm' \in [pc : {"dO"}, n : Nat]
    BY <1>1, <1>5 DEF MmaRole
  <2>3. MmaRole'
    BY <1>1, <1>5, <2>2 DEF MmaRole
  <2>4. /\ Issued' = Issued /\ QTaken' = QTaken /\ dOTaken' = dOTaken
        /\ SIssued' = SIssued /\ dSTaken' = dSTaken /\ dQFreed' = mm.n
    BY <1>1, <1>5, <2>2 DEF Issued, QTaken, dOTaken, SIssued, dSTaken, dQFreed
  <2>5. Executed' = Executed
    BY <1>1, <2>4 DEF Executed
  <2>6. Queue' /\ InFlight'
    BY <1>1, <2>4, <2>5, QueueFrame, InFlightSame DEF Working
  <2>7. \A r \in Reduce : dQFreed' <= dQTaken(r)
    BY <1>1, <2>1, <2>4
  <2> QED BY <1>1, <1>2, <2>2, <2>3, <2>4, <2>5, <2>6, <2>7, MmaBehind, MmaDone
<1> QED BY <1>3, <1>4, <1>5 DEF MmaWait

LEMMA Operations ==
    /\ \A s \in Stage :
         /\ Op("S", s, {SFull}) \in Operation /\ Op("dQ", s, {dQFull}) \in Operation
         /\ Op("dK", s, {QEmpty(s), dSEmpty}) \in Operation
         /\ Op("dK", s, {dKdVFull(1)}) \in Operation
         /\ Op("dQ", s, {dQFull, QEmpty(s), dSEmpty}) \in Operation
    /\ Op("dP", 0, {dPFull}) \in Operation /\ Op("dV", 0, {PEmpty, dOEmpty}) \in Operation
    /\ Op("none", 0, {dKdVFull(0)}) \in Operation
<1>1. 0 \in Stage /\ 1 \in Stage
  BY DEF Stage
<1> QED BY <1>1, BarNames DEF Op, Operation

LEMMA MmaSStep ==
    ASSUME Typed, HasWork, Working, MmaS
    PROVE  Typed' /\ Working'
<1>1. /\ MmaUnchanged /\ bar' = bar /\ MmaRole /\ mm.n \in Nat /\ mm.pc = "s" /\ mm.n < Pairs
      /\ launch' = launch /\ UNCHANGED <<tS, tdPdQ, tdK, tdV, ld, inflight>> /\ Pairs' = Pairs
  BY Numbers, SameLaunch DEF MmaS, MmaUnchanged, Working, MmaRole, tmem, loaded
<1>2. DOMAIN bar' = BarId /\ \A b \in BarId : b # TmemAlloc => bar'[b] = bar[b]
  BY <1>1 DEF Typed
<1>3. /\ mm'.pc = (IF mm.n = 0 THEN "dO" ELSE "ds") /\ mm'.n = mm.n
      /\ mm' \in [pc : {"dO", "ds"}, n : Nat]
  BY <1>1 DEF MmaRole, MmaS
<1>4. MmaRole'
  BY <1>1, <1>3 DEF MmaRole
<1>5. /\ QTaken' = QTaken /\ dOTaken' = dOTaken /\ SIssued' = mm.n + 1
      /\ dSTaken' <= dSTaken + 1 /\ (mm.n > 0 => dSTaken' = dSTaken) /\ (mm.n = 0 => dSTaken' = 0)
      /\ (mm.n > 0 => dQFreed' = dQFreed) /\ (mm.n = 0 => dQFreed' = 0)
  BY <1>1, <1>3 DEF QTaken, dOTaken, SIssued, dSTaken, dQFreed
<1>6. /\ Issued = (IF mm.n = 0 THEN 2 ELSE 5 * mm.n) /\ Issued' = Issued + 1 /\ Issued \in Nat
  BY <1>1, <1>3 DEF Issued
<1>7. mm.n % 2 \in Stage
  BY <1>1, Parity DEF Stage
<1>8. InProgram(Issued + 1, Op("S", mm.n % 2, {SFull}))
  <2>1. CASE mm.n = 0
    <3>1. mm.n % 2 = 0 /\ Issued + 1 = 3
      BY <1>6, <2>1
    <3> QED BY <3>1 DEF InProgram
  <2>2. CASE mm.n > 0
    <3>1. mm.n \in 1 .. Pairs /\ Issued + 1 = 5 * mm.n + 1
      BY <1>1, <1>6, <2>2, Numbers
    <3> QED BY <1>1, <3>1 DEF InProgram, OfPair
  <2> QED BY <1>1, <2>1, <2>2
<1>9. Queue' /\ Executed' = Executed
  <2>1. Issue(<<Op("S", mm.n % 2, {SFull})>>)
    BY DEF MmaS, ArrivesAfterS
  <2> QED BY <1>1, <1>6, <1>7, <1>8, <2>1, IssueOne, Operations DEF Working
<1>10. InFlight'
  BY <1>1, <1>5, InFlightSame DEF Working
<1>11. \A w \in Compute :
         SIssued' <= PStored(w) + 1 /\ mm'.n <= PStored(w) /\ dSTaken' <= cw[w].n
  <2> SUFFICES ASSUME NEW w \in Compute
               PROVE  SIssued' <= PStored(w) + 1 /\ mm'.n <= PStored(w) /\ dSTaken' <= cw[w].n
    OBVIOUS
  <2>1. mm.n <= PStored(w) /\ dSTaken <= cw[w].n /\ PStored(w) \in Nat /\ cw[w].n \in Nat
    BY MmaBehind
  <2> QED BY <1>1, <1>3, <1>5, <2>1
<1>12. \A r \in Reduce : dQFreed' <= dQTaken(r)
  <2> SUFFICES ASSUME NEW r \in Reduce PROVE dQFreed' <= dQTaken(r)
    OBVIOUS
  <2>1. dQFreed <= dQTaken(r) /\ dQTaken(r) \in Nat
    BY MmaBehind
  <2> QED BY <1>1, <1>5, <2>1
<1> QED BY <1>1, <1>2, <1>4, <1>5, <1>9, <1>10, <1>11, <1>12, MmaBehind, MmaDone

LEMMA MmadQdKStep ==
    ASSUME Typed, HasWork, Working, MmadQdK
    PROVE  Typed' /\ Working'
<1> DEFINE s == (mm.n - 1) % 2
<1>1. /\ MmaUnchanged /\ bar' = bar /\ MmaRole /\ mm.n \in Nat /\ mm.pc = "dp" /\ mm.n < Pairs
      /\ mm.n > 0
      /\ launch' = launch /\ UNCHANGED <<tS, tdPdQ, tdK, tdV, ld, inflight>> /\ Pairs' = Pairs
  BY Numbers, SameLaunch DEF MmadQdK, MmaUnchanged, Working, MmaRole, tmem, loaded
<1>2. DOMAIN bar' = BarId /\ \A b \in BarId : b # TmemAlloc => bar'[b] = bar[b]
  BY <1>1 DEF Typed
<1>3. mm'.pc = "dq" /\ mm'.n = mm.n /\ mm' \in [pc : {"dq"}, n : Nat]
  BY <1>1 DEF MmaRole, MmadQdK
<1>4. MmaRole'
  BY <1>1, <1>3 DEF MmaRole
<1>5. /\ QTaken' = QTaken /\ dOTaken' = dOTaken /\ SIssued' = SIssued
      /\ dSTaken' = dSTaken /\ dQFreed' = dQFreed
  BY <1>1, <1>3 DEF QTaken, dOTaken, SIssued, dSTaken, dQFreed
<1>6. Issued = 5 * mm.n + 1 /\ Issued' = Issued + 2 /\ Issued \in Nat
  BY <1>1, <1>3 DEF Issued
<1>7. s \in Stage
  BY <1>1 DEF Stage
<1>8. /\ InProgram(Issued + 1, Op("dQ", s, {dQFull}))
      /\ InProgram(Issued + 2, Op("dK", s, {QEmpty(s), dSEmpty}))
  <2>1. mm.n \in 1 .. Pairs /\ Issued + 1 = 5 * mm.n + 2 /\ Issued + 2 = 5 * mm.n + 3
    BY <1>1, <1>6, Numbers
  <2>2. /\ OfPair(Issued + 1, Op("dQ", s, {dQFull}), mm.n)
        /\ OfPair(Issued + 2, Op("dK", s, {QEmpty(s), dSEmpty}), mm.n)
    BY <1>1, <2>1 DEF OfPair
  <2> QED BY <2>1, <2>2 DEF InProgram
<1>9. Queue' /\ Executed' = Executed
  <2>1. Issue(<<Op("dQ", s, {dQFull}), Op("dK", s, {QEmpty(s), dSEmpty})>>)
    BY DEF MmadQdK
  <2> HIDE DEF s
  <2> QED BY <1>1, <1>6, <1>7, <1>8, <2>1, IssueTwo, Operations DEF Working
<1>10. InFlight'
  BY <1>1, <1>5, InFlightSame DEF Working
<1> QED BY <1>1, <1>2, <1>3, <1>4, <1>5, <1>9, <1>10, MmaBehind, MmaDone

LEMMA MmadPStep ==
    ASSUME Typed, HasWork, Working, MmadP
    PROVE  Typed' /\ Working'
<1>1. /\ MmaUnchanged /\ bar' = bar /\ MmaRole /\ mm.n \in Nat /\ mm.n < Pairs
      /\ launch' = launch /\ UNCHANGED <<tS, tdPdQ, tdK, tdV, ld, inflight>> /\ Pairs' = Pairs
  <2>1. /\ MmaUnchanged /\ bar' = bar /\ MmaRole /\ mm.n \in Nat /\ mm.pc \in {"dO", "dp0"}
        /\ launch' = launch
    BY Numbers DEF MmadP, MmaUnchanged, Working
  <2> QED BY <2>1, SameLaunch DEF MmaUnchanged, MmaRole, tmem, loaded
<1>2. DOMAIN bar' = BarId /\ \A b \in BarId : b # TmemAlloc => bar'[b] = bar[b]
  BY <1>1 DEF Typed
<1>3. CASE mm.pc = "dO" /\ Done(dOFull, ConsumerPhase(mm.n))
  <2>1. dOLoads = mm.n + 1 /\ dOBytes = 0
    BY <1>3, dOWait
  <2>2. mm'.pc = (IF mm.n = 0 THEN "dp0" ELSE "p") /\ mm'.n = mm.n /\ mm' \in [pc : {"dp0", "p"}, n : Nat]
    BY <1>1, <1>3 DEF MmaRole, MmadP
  <2>3. MmaRole'
    BY <1>1, <1>3, <2>2 DEF MmaRole
  <2>4. /\ QTaken' = QTaken /\ dOTaken' = mm.n + 1 /\ dOTaken = mm.n
        /\ SIssued' = SIssued /\ dSTaken' = dSTaken /\ dQFreed' = dQFreed
    BY <1>1, <1>3, <2>2 DEF QTaken, dOTaken, SIssued, dSTaken, dQFreed
  <2>5. Queue' /\ Executed' = Executed
    <3>1. CASE mm.n = 0
      <4>1. tc' = tc /\ Issued' = Issued
        BY <1>3, <2>2, <3>1 DEF MmadP, Issued
      <4>2. Executed' = Executed
        BY <4>1 DEF Executed
      <4> QED BY <1>1, <4>2, <4>1, QueueFrame DEF Working
    <3>2. CASE mm.n > 0
      <4>1. Issued = 5 * mm.n + 3 /\ Issued' = Issued + 1 /\ Issued \in Nat
        BY <1>1, <1>3, <2>2, <3>2 DEF Issued
      <4>2. mm.n + 1 \in 1 .. Pairs /\ Issued + 1 = 5 * (mm.n + 1) - 1
        BY <1>1, <4>1, Numbers
      <4>3. InProgram(Issued + 1, Op("dP", 0, {dPFull}))
        BY <4>2 DEF InProgram, OfPair
      <4>4. Issue(<<Op("dP", 0, {dPFull})>>)
        BY <1>3, <1>1, <3>2 DEF MmadP
      <4> QED BY <1>1, <4>1, <4>3, <4>4, IssueOne, Operations DEF Working
    <3> QED BY <1>1, <3>1, <3>2
  <2>6. InFlight'
    <3>1. /\ QLoads' = QLoads /\ LSELoads' = LSELoads /\ dOLoads' = dOLoads
          /\ SumLoads' = SumLoads
      BY <1>1, SameLoads
    <3>2. /\ \A h \in Stage : Copy("dO", h, dOLoads) \notin inflight
          /\ Copy("V", 0, dOLoads) \notin inflight
      <4>1. \A h \in Stage : h = 0 \/ h = 1
        BY DEF Stage
      <4>2. /\ Flying("dO", 0, dOLoads) = 0 /\ Flying("dO", 1, dOLoads) = 0
            /\ Flying("V", 0, dOLoads) = 0
        BY <2>1 DEF dOBytes, Flying
      <4> QED BY <4>1, <4>2 DEF Flying
    <3>3. ASSUME NEW c \in inflight
          PROVE  \/ \E h \in Stage, j \in {QLoads - 1, QLoads} : c = Copy("Q", h, j) /\ j > QTaken
                 \/ c = Copy("K", 0, 1) /\ QTaken = 0 /\ QLoads > 0
                 \/ c = Copy("LSE", 0, LSELoads) /\ LSELoads > 0
                 \/ c = Copy("sum", 0, SumLoads) /\ SumLoads > 0
      BY <3>2 DEF Working, InFlight
    <3> QED BY <1>1, <2>4, <3>1, <3>3 DEF InFlight
  <2>7. dOTaken' <= dOLoads
    BY <1>1, <2>1, <2>4
  <2> QED BY <1>1, <1>2, <2>2, <2>3, <2>4, <2>5, <2>6, <2>7, MmaBehind, MmaDone
<1>4. CASE mm.pc = "dp0"
  <2>1. mm.n = 0 /\ mm'.pc = "p" /\ mm'.n = 0 /\ mm' \in [pc : {"p"}, n : Nat]
    BY <1>1, <1>4 DEF MmaRole, MmadP
  <2>2. MmaRole'
    BY <1>1, <2>1 DEF MmaRole
  <2>3. /\ QTaken' = QTaken /\ dOTaken' = dOTaken
        /\ SIssued' = SIssued /\ dSTaken' = dSTaken /\ dQFreed' = dQFreed
    BY <1>4, <2>1 DEF QTaken, dOTaken, SIssued, dSTaken, dQFreed
  <2>4. Issued = 3 /\ Issued' = Issued + 1 /\ Issued \in Nat
    BY <1>4, <2>1 DEF Issued
  <2>5. InProgram(Issued + 1, Op("dP", 0, {dPFull}))
    <3>1. 1 \in 1 .. Pairs /\ Issued + 1 = 5 * 1 - 1
      BY <2>4, Numbers
    <3> QED BY <3>1 DEF InProgram, OfPair
  <2>6. Issue(<<Op("dP", 0, {dPFull})>>)
    BY <1>4 DEF MmadP
  <2>7. Queue' /\ Executed' = Executed
    BY <1>1, <2>4, <2>5, <2>6, IssueOne, Operations DEF Working
  <2>8. InFlight'
    BY <1>1, <2>3, InFlightSame DEF Working
  <2> QED BY <1>1, <1>2, <2>1, <2>2, <2>3, <2>7, <2>8, MmaBehind, MmaDone
<1> QED BY <1>3, <1>4 DEF MmadP

LEMMA MmadVStep ==
    ASSUME Typed, HasWork, Working, MmadV
    PROVE  Typed' /\ Working'
<1>1. /\ MmaUnchanged /\ bar' = bar /\ MmaRole /\ mm.n \in Nat /\ mm.pc = "p" /\ mm.n < Pairs
      /\ Done(PFull, ConsumerPhase(mm.n))
      /\ launch' = launch /\ UNCHANGED <<tS, tdPdQ, tdK, tdV, ld, inflight>> /\ Pairs' = Pairs
  BY Numbers, SameLaunch DEF MmadV, MmaUnchanged, Working, MmaRole, tmem, loaded
<1>2. DOMAIN bar' = BarId /\ \A b \in BarId : b # TmemAlloc => bar'[b] = bar[b]
  BY <1>1 DEF Typed
<1>3. /\ mm'.pc = (IF mm.n + 1 < Pairs THEN "q" ELSE "kv0") /\ mm'.n = mm.n + 1
      /\ mm' \in [pc : {"q", "kv0"}, n : Nat]
  BY <1>1 DEF MmaRole, MmadV
<1>4. MmaRole'
  BY <1>1, <1>3, Numbers DEF MmaRole
<1>5. /\ QTaken' = QTaken /\ dOTaken' = dOTaken /\ SIssued' = mm.n + 1
      /\ dSTaken' = dSTaken /\ dQFreed' = dQFreed
  BY <1>1, <1>3 DEF QTaken, dOTaken, SIssued, dSTaken, dQFreed
<1>6. Issued = 5 * mm.n + 4 /\ Issued' = Issued + 1 /\ Issued \in Nat
  BY <1>1, <1>3 DEF Issued
<1>7. InProgram(Issued + 1, Op("dV", 0, {PEmpty, dOEmpty}))
  <2>1. mm.n + 1 \in 1 .. Pairs /\ Issued + 1 = 5 * (mm.n + 1)
    BY <1>1, <1>6, Numbers
  <2> QED BY <2>1 DEF InProgram, OfPair
<1>8. Issue(<<Op("dV", 0, {PEmpty, dOEmpty})>>)
  BY DEF MmadV
<1>9. Queue' /\ Executed' = Executed
  BY <1>1, <1>6, <1>7, <1>8, IssueOne, Operations DEF Working
<1>10. InFlight'
  BY <1>1, <1>5, InFlightSame DEF Working
<1>11. \A w \in Compute :
         SIssued' <= PStored(w) + 1 /\ mm'.n <= PStored(w) /\ dSTaken' <= cw[w].n
  BY <1>1, <1>3, <1>5, PWait, MmaBehind
<1> QED BY <1>1, <1>2, <1>4, <1>5, <1>9, <1>10, <1>11, MmaBehind, MmaDone

LEMMA MmaTailStep ==
    ASSUME Typed, HasWork, Working, MmaTail
    PROVE  Typed' /\ Working'
<1> DEFINE s == (mm.n - 1) % 2
<1>1. /\ MmaUnchanged /\ bar' = bar /\ MmaRole /\ mm.n \in Nat /\ mm.n = Pairs
      /\ mm.pc \in {"kv0", "kv1", "lastds"}
      /\ launch' = launch /\ UNCHANGED <<tS, tdPdQ, tdK, tdV, ld, inflight>> /\ Pairs' = Pairs
  <2>1. /\ MmaUnchanged /\ bar' = bar /\ MmaRole /\ mm.n \in Nat
        /\ mm.pc \in {"kv0", "kv1", "lastds"} /\ launch' = launch
    BY Numbers DEF MmaTail, MmaUnchanged, Working
  <2> QED BY <2>1, SameLaunch DEF MmaUnchanged, MmaRole, tmem, loaded
<1>2. DOMAIN bar' = BarId /\ \A b \in BarId : b # TmemAlloc => bar'[b] = bar[b]
  BY <1>1 DEF Typed
<1>3. Pairs \in 1 .. Pairs /\ s \in Stage /\ s = (Pairs - 1) % 2
  BY <1>1, Numbers DEF Stage
<1>4. CASE mm.pc = "kv0"
  <2>1. mm'.pc = "kv1" /\ mm'.n = mm.n /\ mm' \in [pc : {"kv1"}, n : Nat]
    BY <1>1, <1>4 DEF MmaRole, MmaTail
  <2>2. MmaRole'
    BY <1>1, <2>1 DEF MmaRole
  <2>3. /\ QTaken' = QTaken /\ dOTaken' = dOTaken
        /\ SIssued' = SIssued /\ dSTaken' = dSTaken /\ dQFreed' = dQFreed
    BY <1>4, <2>1 DEF QTaken, dOTaken, SIssued, dSTaken, dQFreed
  <2>4. Issued = 5 * Pairs /\ Issued' = Issued + 1 /\ Issued \in Nat
    BY <1>1, <1>4, <2>1 DEF Issued
  <2>5. InProgram(Issued + 1, Op("none", 0, {dKdVFull(0)}))
    BY <1>3, <2>4 DEF InProgram, OfPair
  <2>6. Issue(<<Op("none", 0, {dKdVFull(0)})>>)
    BY <1>4 DEF MmaTail
  <2>7. Queue' /\ Executed' = Executed
    BY <1>1, <2>4, <2>5, <2>6, IssueOne, Operations DEF Working
  <2>8. InFlight'
    BY <1>1, <2>3, InFlightSame DEF Working
  <2> QED BY <1>1, <1>2, <2>1, <2>2, <2>3, <2>7, <2>8, MmaBehind, MmaDone
<1>5. CASE mm.pc = "kv1"
  <2>1. mm'.pc = "lastds" /\ mm'.n = mm.n /\ mm' \in [pc : {"lastds"}, n : Nat] /\ tc' = tc
    BY <1>1, <1>5 DEF MmaRole, MmaTail
  <2>2. MmaRole'
    BY <1>1, <2>1 DEF MmaRole
  <2>3. /\ QTaken' = QTaken /\ dOTaken' = dOTaken /\ Issued' = Issued
        /\ SIssued' = SIssued /\ dSTaken' = dSTaken /\ dQFreed' = dQFreed
    BY <1>5, <2>1 DEF QTaken, dOTaken, SIssued, dSTaken, dQFreed, Issued
  <2>4. Executed' = Executed
    BY <2>1, <2>3 DEF Executed
  <2>5. Queue' /\ InFlight'
    BY <1>1, <2>1, <2>3, <2>4, QueueFrame, InFlightSame DEF Working
  <2> QED BY <1>1, <1>2, <2>1, <2>2, <2>3, <2>4, <2>5, MmaBehind, MmaDone
<1>6. CASE mm.pc = "lastds"
  <2>1. mm'.pc = "done" /\ mm'.n = mm.n /\ mm' \in [pc : {"done"}, n : Nat]
    BY <1>1, <1>6 DEF MmaRole, MmaTail
  <2>2. MmaRole'
    BY <1>1, <2>1 DEF MmaRole
  <2>3. /\ QTaken' = QTaken /\ dOTaken' = dOTaken
        /\ SIssued' = SIssued /\ dSTaken' = mm.n /\ dQFreed' = dQFreed
    BY <1>6, <2>1 DEF QTaken, dOTaken, SIssued, dSTaken, dQFreed
  <2>4. Issued = 5 * Pairs + 1 /\ Issued' = Issued + 2 /\ Issued \in Nat
    BY <1>1, <1>6, <2>1 DEF Issued
  <2>5. /\ InProgram(Issued + 1, Op("dK", s, {dKdVFull(1)}))
        /\ InProgram(Issued + 2, Op("dQ", s, {dQFull, QEmpty(s), dSEmpty}))
    <3>1. Issued + 1 = 5 * Pairs + 2 /\ Issued + 2 = 5 * Pairs + 3
      BY <2>4, Numbers
    <3>2. /\ OfPair(Issued + 1, Op("dK", s, {dKdVFull(1)}), Pairs)
          /\ OfPair(Issued + 2, Op("dQ", s, {dQFull, QEmpty(s), dSEmpty}), Pairs)
      BY <1>3, <3>1 DEF OfPair
    <3> QED BY <1>3, <3>2 DEF InProgram
  <2>6. Issue(<<Op("dK", s, {dKdVFull(1)}), Op("dQ", s, {dQFull, QEmpty(s), dSEmpty})>>)
    BY <1>6 DEF MmaTail
  <2>7. Queue' /\ Executed' = Executed
    <3> HIDE DEF s
    <3> QED BY <1>1, <1>3, <2>4, <2>5, <2>6, IssueTwo, Operations DEF Working
  <2>8. InFlight'
    BY <1>1, <2>3, InFlightSame DEF Working
  <2>9. \A w \in Compute : cw[w].n = mm.n
    BY <1>6, dSWait DEF MmaTail
  <2>10. \A w \in Compute :
           SIssued' <= PStored(w) + 1 /\ mm'.n <= PStored(w) /\ dSTaken' <= cw[w].n
    BY <1>1, <2>1, <2>3, <2>9, MmaBehind
  <2> QED BY <1>1, <1>2, <2>2, <2>3, <2>7, <2>8, <2>10, MmaBehind, MmaDone
<1> QED BY <1>1, <1>4, <1>5, <1>6

-----------------------------------------------------------------------------
(* The operands of a queued operation.                                     *)

\* What has been issued was waited for ..
LEMMA IssuedAfter ==
    ASSUME MmaRole, Pairs \in Nat, NEW i \in 1 .. Pairs
    PROVE  /\ Issued >= 3 => QTaken >= 1 /\ SIssued >= 1
           /\ Issued >= 5 * i - 1 => dOTaken >= i
           /\ Issued >= 5 * i => mm.n >= i
           /\ (Issued >= 5 * i + 1 /\ i < Pairs) => QTaken >= i + 1
           /\ Issued >= 5 * i + 2 => dSTaken >= i /\ QTaken >= i
<1>1. mm.n \in Nat
  BY DEF MmaRole
<1>2. Issued >= 3 => QTaken >= 1 /\ SIssued >= 1
  BY <1>1 DEF MmaRole, Issued, QTaken, SIssued
<1>3. Issued >= 5 * i - 1 => dOTaken >= i
  BY <1>1 DEF MmaRole, Issued, dOTaken
<1>4. Issued >= 5 * i => mm.n >= i
  BY <1>1 DEF MmaRole, Issued
<1>5. (Issued >= 5 * i + 1 /\ i < Pairs) => QTaken >= i + 1
  BY <1>1 DEF MmaRole, Issued, QTaken
<1>6. Issued >= 5 * i + 2 => dSTaken >= i
  BY <1>1 DEF MmaRole, Issued, dSTaken
<1>7. Issued >= 5 * i + 2 => QTaken >= i
  BY <1>1 DEF MmaRole, Issued, QTaken
<1> QED BY <1>2, <1>3, <1>4, <1>5, <1>6, <1>7

\* .. and what was not executed has not released it.
LEMMA ExecutedBefore ==
    ASSUME TensorMemory(Executed), Executed \in Nat, Pairs \in Nat, Pairs >= 1,
           NEW i \in 1 .. Pairs
    PROVE  /\ Executed < 5 * i => tdV <= i - 1
           /\ Executed < 5 * i + 3 => Released <= i - 1
           /\ Executed < 3 => Released = 0 /\ tS = 0
<1>1. CASE Executed = 2 /\ Memory(0, <<"none", 0>>, 0, 0)
  BY <1>1 DEF Memory, Released, dQDone
<1>2. CASE Executed = 3 /\ Memory(1, <<"none", 0>>, 0, 0)
  BY <1>2 DEF Memory, Released, dQDone
<1>3. CASE \E j \in 1 .. Pairs : DuringPair(Executed, j)
  <2>1. PICK j \in 1 .. Pairs : DuringPair(Executed, j)
    BY <1>3
  <2>2. Executed < 5 * i => tdV <= i - 1
    BY <2>1 DEF DuringPair, Memory
  <2>5. Executed >= 4
    BY <2>1 DEF DuringPair
  <2>3. CASE Executed < 5 * i + 3 /\ tdK <= i - 1
    BY <2>2, <2>3, <2>5, MemoryBounds
  <2>4. CASE Executed < 5 * i + 3 /\ tdK >= i
    <3>1. j = i /\ i = Pairs /\ tdPdQ = <<"dP", i>>
      BY <2>1, <2>4 DEF DuringPair, Memory
    <3>2. dQDone = i - 1
      BY <3>1 DEF dQDone
    <3> QED BY <2>1, <2>2, <2>4, <3>2, MemoryBounds
  <2>6. tdK \in Nat
    BY MemoryBounds
  <2> QED BY <2>2, <2>3, <2>4, <2>5, <2>6
<1> QED BY <1>1, <1>2, <1>3 DEF TensorMemory

LEMMA QHeld ==
    ASSUME Typed, HasWork, Working, NEW j \in Nat, 1 <= j, j <= QTaken, Released <= j - 1
    PROVE  QTile(StageOf(j)) = j
<1>1. QLoads \in Nat /\ Released \in Nat /\ QTaken \in Nat
  BY Numbers
<1>2. QTaken <= QLoads /\ QLoads <= Released + 2
  BY DEF Working, LoadOrder
<1>3. j \in {QLoads - 1, QLoads} /\ QLoads > 0
  BY <1>1, <1>2
<1>4. ASSUME NEW h \in Stage PROVE Flying("Q", h, j) = 0
  <2>1. Copy("Q", h, j) \notin inflight
    BY <1>1 DEF Working, InFlight, Copy
  <2> QED BY <2>1 DEF Flying
<1>5. Flying("K", 0, 1) = 0
  <2>1. Copy("K", 0, 1) \notin inflight
    BY <1>1 DEF Working, InFlight, Copy
  <2> QED BY <2>1 DEF Flying
<1>6. \A h \in Stage : sQ[StageOf(j)][h] = j
  BY <1>3, <1>4 DEF Working, QStages
<1>7. sK
  BY <1>3, <1>5 DEF Working, QStages
<1> QED BY <1>6, <1>7 DEF QTile, Stage

LEMMA dOHeld ==
    ASSUME Typed, HasWork, Working, NEW j \in Nat, 1 <= j, j <= dOTaken, tdV <= j - 1
    PROVE  dOTile = j
<1>1. dOLoads \in Nat /\ tdV \in Nat /\ dOTaken \in Nat
  BY Numbers
<1>2. dOTaken <= dOLoads /\ dOLoads <= tdV + 1
  BY DEF Working, LoadOrder
<1>3. j = dOLoads /\ dOLoads > 0 /\ dOTaken = dOLoads
  BY <1>1, <1>2
<1>4. ASSUME NEW h \in Stage PROVE Flying("dO", h, dOLoads) = 0
  <2>1. Copy("dO", h, j) \notin inflight
    BY <1>1, <1>3 DEF Working, InFlight, Copy
  <2> QED BY <1>3, <2>1 DEF Flying
<1>5. Flying("V", 0, 1) = 0
  <2>1. Copy("V", 0, 1) \notin inflight
    BY <1>1, <1>3 DEF Working, InFlight, Copy
  <2> QED BY <2>1 DEF Flying
<1>6. (\A h \in Stage : sdO[h] = j) /\ sV
  BY <1>3, <1>4, <1>5 DEF Working, dOStage
<1> QED BY <1>6 DEF dOTile, Stage

\* All warps have written their part of the tile of pair j.
LEMMA WholeTile ==
    ASSUME NEW parts, NEW j \in 1 .. Pairs, \A w \in Compute : parts[w] = j, Compute # {}
    PROVE  TileOf(parts) = j
<1>1. \E i \in 1 .. Pairs : \A w \in Compute : parts[w] = i
  OBVIOUS
<1>2. \A i \in 1 .. Pairs : (\A w \in Compute : parts[w] = i) <=> i = j
  OBVIOUS
<1> QED BY <1>1, <1>2 DEF TileOf

LEMMA PHeld ==
    ASSUME Typed, HasWork, Working, NEW j \in 1 .. Pairs, mm.n >= j, tdV <= j - 1
    PROVE  TileOf(sP) = j
<1>1. ASSUME NEW w \in Compute PROVE sP[w] = j
  <2>1. mm.n <= PStored(w) /\ PStored(w) <= tdV + 1 /\ PStored(w) \in Nat
    BY ComputeWindow, MmaBehind
  <2>2. PStored(w) = j
    BY <2>1, Numbers
  <2> QED BY <2>2 DEF Working, Results
<1> QED BY <1>1, WholeTile, Numbers

LEMMA dSHeld ==
    ASSUME Typed, HasWork, Working, NEW j \in 1 .. Pairs, dSTaken >= j, Released <= j - 1
    PROVE  TileOf(sdS) = j
<1>1. ASSUME NEW w \in Compute PROVE sdS[w] = j
  <2>1. dSTaken <= cw[w].n /\ cw[w].n <= Released + 1 /\ cw[w].n \in Nat
    BY ComputeWindow, MmaBehind
  <2>2. cw[w].n = j
    BY <2>1, Numbers
  <2> QED BY <2>2 DEF Working, Results
<1> QED BY <1>1, WholeTile, Numbers

LEMMA QSlots ==
    ASSUME NEW i \in Nat, i >= 1
    PROVE  StageOf(i) = (i - 1) % 2 /\ StageOf(i + 1) = i % 2
           /\ StageOf(i) \in Stage /\ StageOf(i + 1) \in Stage /\ StageOf(1) = 0
  BY DEF StageOf, Stage

\* The operands of the operation numbered k, from its issue to its execution.
LEMMA Operands ==
    ASSUME Typed, HasWork, Working, NEW k \in Nat, Executed < k, k <= Issued,
           NEW i \in 1 .. Pairs
    PROVE  /\ k = 3 => QTile(0) = 1
           /\ k \in {5 * i - 1, 5 * i} => dOTile = i
           /\ k = 5 * i => TileOf(sP) = i
           /\ (k = 5 * i + 1 /\ i < Pairs) => QTile(i % 2) = i + 1
           /\ k \in {5 * i + 2, 5 * i + 3} => TileOf(sdS) = i /\ QTile((i - 1) % 2) = i
<1> USE Numbers
<1>1. /\ Issued >= 3 => QTaken >= 1 /\ SIssued >= 1
      /\ Issued >= 5 * i - 1 => dOTaken >= i
      /\ Issued >= 5 * i => mm.n >= i
      /\ (Issued >= 5 * i + 1 /\ i < Pairs) => QTaken >= i + 1
      /\ Issued >= 5 * i + 2 => dSTaken >= i /\ QTaken >= i
  BY IssuedAfter DEF Working
<1>2. /\ Executed < 5 * i => tdV <= i - 1
      /\ Executed < 5 * i + 3 => Released <= i - 1
      /\ Executed < 3 => Released = 0 /\ tS = 0
  BY ExecutedBefore
<1>3. ASSUME k = 3 PROVE QTile(0) = 1
  BY <1>1, <1>2, <1>3, QHeld, QSlots
<1>4. ASSUME k \in {5 * i - 1, 5 * i} PROVE dOTile = i
  BY <1>1, <1>2, <1>4, dOHeld
<1>5. ASSUME k = 5 * i PROVE TileOf(sP) = i
  BY <1>1, <1>2, <1>5, PHeld
<1>6. ASSUME k = 5 * i + 1, i < Pairs PROVE QTile(i % 2) = i + 1
  <2>1. Released <= (i + 1) - 1 /\ i + 1 <= QTaken /\ i + 1 \in Nat
    BY <1>1, <1>2, <1>6
  <2>2. QTile(StageOf(i + 1)) = i + 1
    BY <2>1, QHeld
  <2> QED BY <2>2, QSlots
<1>7. ASSUME k \in {5 * i + 2, 5 * i + 3} PROVE TileOf(sdS) = i /\ QTile((i - 1) % 2) = i
  <2>1. Released <= i - 1 /\ i <= QTaken /\ dSTaken >= i
    BY <1>1, <1>2, <1>7
  <2>2. QTile(StageOf(i)) = i
    BY <2>1, QHeld
  <2> QED BY <2>1, <2>2, QSlots, dSHeld
<1> QED BY <1>3, <1>4, <1>5, <1>6, <1>7

-----------------------------------------------------------------------------
(* Steps of the tensor core.                                               *)

Bit(p) == IF p THEN 1 ELSE 0

LEMMA PhaseStep ==
    ASSUME NEW bars \in SUBSET BarId, Arrive(bars), NEW b \in BarId, NEW n \in Nat,
           Phases(bar[b], n), Expected(b) = 1
    PROVE  Phases(bar'[b], n + Bit(b \in bars))
<1>1. CASE b \in bars
  BY <1>1, ArriveEffect, PhaseArrive DEF Bit
<1>2. CASE b \notin bars
  <2>1. bar'[b] = bar[b] /\ n + Bit(b \in bars) = n
    BY <1>2, ArriveEffect DEF Bit
  <2> QED BY <2>1
<1> QED BY <1>1, <1>2

\* An operation is executed: what it adds to tensor memory it tells its barriers.
LEMMA TensorDone ==
    ASSUME Typed, HasWork, Working, NEW A \in SUBSET BarId, Arrive(A),
           UNCHANGED <<launch, loaded, sP, sdS, freed, output, ld, mm, cw, rd>>,
           tc # <<>>, tc' = Tail(tc), \A b \in A : b[1] \in TensorNames,
           Executed' = Executed + 1 => TensorMemory(Executed)',
           tS' = tS + Bit(SFull \in A), tdV' = tdV + Bit(PEmpty \in A),
           tdPdQ'[2] = tdPdQ[2] + Bit(dPFull \in A), dQDone' = dQDone + Bit(dQFull \in A),
           PEmpty \in A <=> dOEmpty \in A,
           Released' = Released + Bit(dSEmpty \in A),
           \A s \in Stage : QEmpty(s) \in A <=> (dSEmpty \in A /\ s = StageOf(Released + 1)),
           Bit(Executed + 1 > 5 * Pairs) = Bit(Executed > 5 * Pairs) + Bit(dKdVFull(0) \in A),
           Bit(tdK' = Pairs) = Bit(tdK = Pairs) + Bit(dKdVFull(1) \in A),
           tdK' \in Nat
    PROVE  Typed' /\ Working'
<1>1. /\ tS \in Nat /\ tdV \in Nat /\ tdPdQ[2] \in Nat /\ dQDone \in Nat /\ Released \in Nat
      /\ Executed \in Nat /\ Pairs \in Nat
  BY Numbers
<1>2. \A p : Bit(p) \in {0, 1}
  BY DEF Bit
<1>3. tc \in Seq(Operation) /\ \A x \in DOMAIN tc : InProgram(Executed + x, tc[x])
  BY DEF Working, Queue
<1>4. /\ tc' \in Seq(Operation) /\ Len(tc) \in Nat /\ Len(tc') = Len(tc) - 1
      /\ DOMAIN tc = 1 .. Len(tc) /\ DOMAIN tc' = 1 .. Len(tc')
      /\ \A x \in 1 .. Len(tc') : tc'[x] = tc[x + 1] /\ x + 1 \in 1 .. Len(tc)
  BY <1>3
<1>5. /\ mm' = mm /\ Pairs' = Pairs /\ Issued' = Issued /\ Issued \in Nat
      /\ launch' = launch /\ Compute' = Compute
  BY SameMma, SameLaunch, Numbers
<1>6. Executed' = Executed + 1
  BY <1>4, <1>5 DEF Executed
<1>7. Queue'
  <2>1. \A k, op, i : OfPair(k, op, i)' = OfPair(k, op, i)
    BY <1>5 DEF OfPair
  <2>2. \A k, op : InProgram(k, op)' = InProgram(k, op)
    BY <1>5, <2>1 DEF InProgram
  <2>3. ASSUME NEW x \in DOMAIN tc' PROVE InProgram((Executed + 1) + x, tc'[x])
    <3>1. x \in 1 .. Len(tc') /\ x \in Int
      BY <1>4
    <3>2. x + 1 \in DOMAIN tc /\ tc'[x] = tc[x + 1]
      BY <1>4, <3>1
    <3>3. (Executed + 1) + x = Executed + (x + 1)
      <4>1. \A a, b \in Int : (a + 1) + b = a + (b + 1)
        OBVIOUS
      <4>2. Executed \in Int /\ x \in Int
        BY <1>1, <3>1
      <4> QED BY <4>1, <4>2
    <3> QED BY <1>3, <3>2, <3>3
  <2>4. (\A x \in DOMAIN tc : InProgram(Executed + x, tc[x]))'
    BY <1>6, <2>2, <2>3
  <2>5. Executed' \in Nat
    BY <1>1, <1>6
  <2> QED BY <1>4, <1>6, <2>4, <2>5 DEF Queue
<1>8. /\ tS' \in Nat /\ tdV' \in Nat /\ tdPdQ'[2] \in Nat /\ dQDone' \in Nat /\ Released' \in Nat
      /\ Executed' \in Nat
      /\ tS <= tS' /\ tdV <= tdV' /\ tdPdQ[2] <= tdPdQ'[2] /\ dQDone <= dQDone'
      /\ Released <= Released' /\ Executed <= Executed'
  <2>1. tS' \in Nat /\ tS <= tS'
    BY <1>1 DEF Bit
  <2>2. tdV' \in Nat /\ tdV <= tdV'
    BY <1>1 DEF Bit
  <2>3. tdPdQ'[2] \in Nat /\ tdPdQ[2] <= tdPdQ'[2]
    BY <1>1 DEF Bit
  <2>4. dQDone' \in Nat /\ dQDone <= dQDone'
    BY <1>1 DEF Bit
  <2>5. Released' \in Nat /\ Released <= Released'
    BY <1>1 DEF Bit
  <2> QED BY <1>1, <1>6, <2>1, <2>2, <2>3, <2>4, <2>5
<1>9. tdK = Pairs => tdK' = Pairs
  BY <1>2 DEF Bit
<1>10. Still(LoadNames) /\ Still(ComputeNames) /\ Still(ReduceNames) /\ DOMAIN bar' = BarId
  BY ArriveEffect DEF Still, LoadNames, ComputeNames, ReduceNames, TensorNames
<1>11. ByTensorCore'
  <2>1. /\ Phases(bar[SFull], tS) /\ Phases(bar[dPFull], tdPdQ[2])
        /\ Phases(bar[dQFull], dQDone) /\ Phases(bar[PEmpty], tdV)
        /\ Phases(bar[dOEmpty], tdV) /\ Phases(bar[dSEmpty], Released)
    BY DEF Working, ByTensorCore
  <2>2. /\ Phases(bar'[SFull], tS') /\ Phases(bar'[dPFull], tdPdQ'[2])
        /\ Phases(bar'[dQFull], dQDone') /\ Phases(bar'[PEmpty], tdV')
        /\ Phases(bar'[dSEmpty], Released')
    BY <1>1, <2>1, PhaseStep, BarNames
  <2>3. Phases(bar'[dOEmpty], tdV')
    <3>1. Bit(PEmpty \in A) = Bit(dOEmpty \in A)
      BY DEF Bit
    <3> QED BY <1>1, <2>1, <3>1, PhaseStep, BarNames
  <2>4. Phases(bar'[dKdVFull(0)], IF Executed' > 5 * Pairs' THEN 1 ELSE 0)
    <3>1. Phases(bar[dKdVFull(0)], Bit(Executed > 5 * Pairs))
      BY DEF Working, ByTensorCore, Bit
    <3>2. Phases(bar'[dKdVFull(0)], Bit(Executed + 1 > 5 * Pairs))
      <4>1. 0 \in Stage /\ Bit(Executed > 5 * Pairs) \in Nat
        BY <1>2 DEF Stage
      <4> QED BY <3>1, <4>1, PhaseStep, BarNames
    <3> QED BY <1>5, <1>6, <3>2 DEF Bit
  <2>5. Phases(bar'[dKdVFull(1)], IF tdK' = Pairs' THEN 1 ELSE 0)
    <3>1. Phases(bar[dKdVFull(1)], Bit(tdK = Pairs))
      BY DEF Working, ByTensorCore, Bit
    <3>2. Phases(bar'[dKdVFull(1)], Bit(tdK' = Pairs))
      <4>1. 1 \in Stage /\ Bit(tdK = Pairs) \in Nat
        BY <1>2 DEF Stage
      <4> QED BY <3>1, <4>1, PhaseStep, BarNames
    <3> QED BY <1>5, <3>2 DEF Bit
  <2>6. ASSUME NEW j \in {Released' - 1, Released'}
        PROVE  Phases(bar'[QEmpty(StageOf(j))], PhaseOf(j))
    <3>1. \A i \in {Released - 1, Released} : Phases(bar[QEmpty(StageOf(i))], PhaseOf(i))
      BY DEF Working, ByTensorCore
    <3>2. \A i \in {Released - 1, Released, Released + 1} :
             StageOf(i) \in Stage /\ PhaseOf(i) \in Nat
      BY <1>1, StageSteps
    <3>3. StageOf(Released) # StageOf(Released + 1)
      BY <1>1, StageSteps
    <3>4. /\ StageOf(Released - 1) = StageOf(Released + 1)
          /\ PhaseOf(Released + 1) = PhaseOf(Released - 1) + 1
      BY <1>1, StageSteps
    <3>5. CASE dSEmpty \notin A
      <4>1. j \in {Released - 1, Released}
        BY <1>1, <3>5 DEF Bit
      <4>2. QEmpty(StageOf(j)) \notin A /\ StageOf(j) \in Stage
        BY <3>2, <3>5, <4>1
      <4>3. bar'[QEmpty(StageOf(j))] = bar[QEmpty(StageOf(j))]
        BY <4>2, ArriveEffect, BarNames
      <4> QED BY <3>1, <4>1, <4>3
    <3>6. CASE dSEmpty \in A
      <4>1. j \in {Released, Released + 1}
        BY <1>1, <3>6 DEF Bit
      <4>2. CASE j = Released
        <5>1. QEmpty(StageOf(j)) \notin A /\ StageOf(j) \in Stage
          BY <3>2, <3>3, <4>2
        <5>2. bar'[QEmpty(StageOf(j))] = bar[QEmpty(StageOf(j))]
          BY <5>1, ArriveEffect, BarNames
        <5> QED BY <3>1, <4>2, <5>2
      <4>3. CASE j = Released + 1
        <5>1. QEmpty(StageOf(j)) \in A /\ StageOf(j) \in Stage
          BY <3>2, <3>6, <4>3
        <5>2. Phases(bar[QEmpty(StageOf(j))], PhaseOf(Released - 1))
          BY <3>1, <3>4, <4>3
        <5>3. Phases(bar'[QEmpty(StageOf(j))], PhaseOf(Released - 1) + 1)
          <6>1. bar'[QEmpty(StageOf(j))] = Arrived(QEmpty(StageOf(j)))
            BY <5>1, ArriveEffect
          <6> QED BY <3>2, <5>1, <5>2, <6>1, PhaseArrive, BarNames
        <5> QED BY <3>4, <4>3, <5>3
      <4> QED BY <4>1, <4>2, <4>3
    <3> QED BY <3>5, <3>6
  <2> QED BY <2>2, <2>3, <2>4, <2>5, <2>6 DEF ByTensorCore
<1>12. Working'
  BY <1>7, <1>8, <1>9, <1>10, <1>11, TensorKeeps
<1>13. Typed'
  BY <1>5, <1>8, <1>10 DEF Typed, loaded, output
<1> QED BY <1>12, <1>13

\* Which barriers a commit arrives at: of S, dP, dQ, P and dO, dS and Q, dV, dK.
Told(A, s, p, q, v, r, kv0, kv1) ==
    /\ Bit(SFull \in A) = s /\ Bit(dPFull \in A) = p /\ Bit(dQFull \in A) = q
    /\ Bit(PEmpty \in A) = v /\ Bit(dOEmpty \in A) = v /\ Bit(dSEmpty \in A) = r
    /\ Bit(dKdVFull(0) \in A) = kv0 /\ Bit(dKdVFull(1) \in A) = kv1
    /\ A \in SUBSET BarId /\ \A b \in A : b[1] \in TensorNames

LEMMA Commits ==
    /\ Told({SFull}, 1, 0, 0, 0, 0, 0, 0) /\ \A x \in Stage : QEmpty(x) \notin {SFull}
    /\ Told({dPFull}, 0, 1, 0, 0, 0, 0, 0) /\ \A x \in Stage : QEmpty(x) \notin {dPFull}
    /\ Told({dQFull}, 0, 0, 1, 0, 0, 0, 0) /\ \A x \in Stage : QEmpty(x) \notin {dQFull}
    /\ Told({PEmpty, dOEmpty}, 0, 0, 0, 1, 0, 0, 0)
    /\ \A x \in Stage : QEmpty(x) \notin {PEmpty, dOEmpty}
    /\ Told({dKdVFull(0)}, 0, 0, 0, 0, 0, 1, 0) /\ \A x \in Stage : QEmpty(x) \notin {dKdVFull(0)}
    /\ Told({dKdVFull(1)}, 0, 0, 0, 0, 0, 0, 1) /\ \A x \in Stage : QEmpty(x) \notin {dKdVFull(1)}
<1> USE BarNames
<1>1. 0 \in Stage /\ 1 \in Stage
  BY DEF Stage
<1>2. Told({SFull}, 1, 0, 0, 0, 0, 0, 0) /\ \A x \in Stage : QEmpty(x) \notin {SFull}
  BY <1>1 DEF Told, Bit, TensorNames
<1>3. Told({dPFull}, 0, 1, 0, 0, 0, 0, 0) /\ \A x \in Stage : QEmpty(x) \notin {dPFull}
  BY <1>1 DEF Told, Bit, TensorNames
<1>4. Told({dQFull}, 0, 0, 1, 0, 0, 0, 0) /\ \A x \in Stage : QEmpty(x) \notin {dQFull}
  BY <1>1 DEF Told, Bit, TensorNames
<1>5. /\ Told({PEmpty, dOEmpty}, 0, 0, 0, 1, 0, 0, 0)
      /\ \A x \in Stage : QEmpty(x) \notin {PEmpty, dOEmpty}
  BY <1>1 DEF Told, Bit, TensorNames
<1>6. dKdVFull(0) # dKdVFull(1)
  BY DEF dKdVFull
<1>7. /\ Told({dKdVFull(0)}, 0, 0, 0, 0, 0, 1, 0)
      /\ \A x \in Stage : QEmpty(x) \notin {dKdVFull(0)}
  BY <1>1, <1>6 DEF Told, Bit, TensorNames
<1>8. /\ Told({dKdVFull(1)}, 0, 0, 0, 0, 0, 0, 1)
      /\ \A x \in Stage : QEmpty(x) \notin {dKdVFull(1)}
  BY <1>1, <1>6 DEF Told, Bit, TensorNames
<1> QED BY <1>2, <1>3, <1>4, <1>5, <1>7, <1>8

LEMMA CommitsQ ==
    ASSUME NEW x \in Stage
    PROVE  /\ Told({QEmpty(x), dSEmpty}, 0, 0, 0, 0, 1, 0, 0)
           /\ \A y \in Stage : QEmpty(y) \in {QEmpty(x), dSEmpty} <=> y = x
           /\ Told({dQFull, QEmpty(x), dSEmpty}, 0, 0, 1, 0, 1, 0, 0)
           /\ \A y \in Stage : QEmpty(y) \in {dQFull, QEmpty(x), dSEmpty} <=> y = x
<1> USE BarNames
<1>1. 0 \in Stage /\ 1 \in Stage
  BY DEF Stage
<1>2. /\ Told({QEmpty(x), dSEmpty}, 0, 0, 0, 0, 1, 0, 0)
      /\ Told({dQFull, QEmpty(x), dSEmpty}, 0, 0, 1, 0, 1, 0, 0)
  BY <1>1 DEF Told, Bit, TensorNames
<1>3. ASSUME NEW y \in Stage
      PROVE  /\ QEmpty(y) \in {QEmpty(x), dSEmpty} <=> y = x
             /\ QEmpty(y) \in {dQFull, QEmpty(x), dSEmpty} <=> y = x
  <2>1. QEmpty(y) = QEmpty(x) <=> y = x
    BY DEF QEmpty
  <2> QED BY <2>1
<1> QED BY <1>2, <1>3

LEMMA TensorTold ==
    ASSUME Typed, HasWork, Working, TensorCore, NEW A, Head(tc).arrive = A,
           NEW s \in {0, 1}, NEW p \in {0, 1}, NEW q \in {0, 1}, NEW v \in {0, 1},
           NEW r \in {0, 1}, NEW kv0 \in {0, 1}, NEW kv1 \in {0, 1},
           Told(A, s, p, q, v, r, kv0, kv1),
           \A x \in Stage : QEmpty(x) \in A <=> (r = 1 /\ x = StageOf(Released + 1)),
           Executed' = Executed + 1 => TensorMemory(Executed)',
           tS' = tS + s, tdV' = tdV + v, tdPdQ'[2] = tdPdQ[2] + p, dQDone' = dQDone + q,
           Released' = Released + r,
           Bit(Executed + 1 > 5 * Pairs) = Bit(Executed > 5 * Pairs) + kv0,
           Bit(tdK' = Pairs) = Bit(tdK = Pairs) + kv1,
           tdK' \in Nat
    PROVE  Typed' /\ Working'
<1>1. /\ Bit(SFull \in A) = s /\ Bit(dPFull \in A) = p /\ Bit(dQFull \in A) = q
      /\ Bit(PEmpty \in A) = v /\ Bit(dOEmpty \in A) = v /\ Bit(dSEmpty \in A) = r
      /\ Bit(dKdVFull(0) \in A) = kv0 /\ Bit(dKdVFull(1) \in A) = kv1
      /\ A \in SUBSET BarId /\ \A b \in A : b[1] \in TensorNames
  BY DEF Told
<1>2. /\ UNCHANGED <<launch, loaded, sP, sdS, freed, output, ld, mm, cw, rd>>
      /\ tc # <<>> /\ tc' = Tail(tc) /\ Arrive(A)
  BY DEF TensorCore
<1>3. PEmpty \in A <=> dOEmpty \in A
  BY <1>1 DEF Bit
<1>4. r = 1 <=> dSEmpty \in A
  BY <1>1 DEF Bit
<1>5. \A x \in Stage : QEmpty(x) \in A <=> (dSEmpty \in A /\ x = StageOf(Released + 1))
  BY <1>4
<1>6. /\ tS' = tS + Bit(SFull \in A) /\ tdV' = tdV + Bit(PEmpty \in A)
      /\ tdPdQ'[2] = tdPdQ[2] + Bit(dPFull \in A) /\ dQDone' = dQDone + Bit(dQFull \in A)
      /\ Released' = Released + Bit(dSEmpty \in A)
      /\ Bit(Executed + 1 > 5 * Pairs) = Bit(Executed > 5 * Pairs) + Bit(dKdVFull(0) \in A)
      /\ Bit(tdK' = Pairs) = Bit(tdK = Pairs) + Bit(dKdVFull(1) \in A)
  BY <1>1
<1> QED BY <1>1, <1>2, <1>3, <1>5, <1>6, TensorDone

\* What tensor memory holds before each operation.
LEMMA MemoryBefore ==
    ASSUME TensorMemory(Executed), Pairs \in Nat, NEW i \in 1 .. Pairs
    PROVE  /\ Executed = 2 => Memory(0, <<"none", 0>>, 0, 0)
           /\ Executed = 5 * i - 2 =>
                 \/ i = 1 /\ Memory(i, <<"none", i - 1>>, i - 1, i - 1)
                 \/ Memory(i, <<"dQ", i - 1>>, i - 1, i - 1)
           /\ Executed = 5 * i - 1 => Memory(i, <<"dP", i>>, i - 1, i - 1)
           /\ Executed = 5 * i => Memory(i, <<"dP", i>>, i, i - 1)
           /\ (i < Pairs /\ Executed = 5 * i + 1) => Memory(i + 1, <<"dP", i>>, i, i - 1)
           /\ (i < Pairs /\ Executed = 5 * i + 2) => Memory(i + 1, <<"dQ", i>>, i, i - 1)
           /\ (i = Pairs /\ Executed = 5 * i + 1) => Memory(i, <<"dP", i>>, i, i - 1)
           /\ (i = Pairs /\ Executed = 5 * i + 2) => Memory(i, <<"dP", i>>, i, i)
<1>1. CASE Executed = 2 /\ Memory(0, <<"none", 0>>, 0, 0)
  BY <1>1
<1>2. CASE Executed = 3 /\ Memory(1, <<"none", 0>>, 0, 0)
  <2>1. Executed = 5 * i - 2 => i = 1
    BY <1>2
  <2> QED BY <1>2, <2>1
<1>3. CASE \E j \in 1 .. Pairs : DuringPair(Executed, j)
  <2>1. PICK j \in 1 .. Pairs : DuringPair(Executed, j)
    BY <1>3
  <2>2. CASE Executed = 5 * i - 2
    <3>1. j = i - 1 /\ j < Pairs /\ Executed = 5 * j + 3
      BY <2>1, <2>2 DEF DuringPair
    <3>2. Memory(j + 1, <<"dQ", j>>, j, j)
      BY <2>1, <3>1 DEF DuringPair
    <3> QED BY <2>2, <3>1, <3>2
  <2>3. CASE Executed \in 5 * i - 1 .. 5 * i + 2
    <3>1. j = i
      BY <2>1, <2>3 DEF DuringPair
    <3> QED BY <2>1, <2>3, <3>1 DEF DuringPair
  <2>4. Executed >= 4 /\ Executed \in Int
    BY <2>1 DEF DuringPair
  <2> QED BY <2>2, <2>3, <2>4
<1> QED BY <1>1, <1>2, <1>3 DEF TensorMemory

\* A product of pieces of the same pair, the next.
LEMMA Accumulates ==
    ASSUME NEW i \in Nat
    PROVE  Accumulate(i - 1, i, i) = i
  BY DEF Accumulate

LEMMA TensorCoreStep ==
    ASSUME Typed, HasWork, Working, TensorCore
    PROVE  Typed' /\ Working'
<1> DEFINE op == Head(tc)
           k == Executed + 1
           P == Pairs
<1>1. /\ op = tc[1] /\ 1 \in DOMAIN tc /\ Len(tc) \in Nat /\ Len(tc) >= 1
  <2>1. tc # <<>> /\ tc \in Seq(Operation)
    BY DEF TensorCore, Working, Queue
  <2> QED BY <2>1
<1>2. InProgram(k, op)
  BY <1>1 DEF Working, Queue
<1>3. /\ Executed \in Nat /\ P \in Nat /\ P >= 1 /\ TensorMemory(Executed)
      /\ tdV \in Nat /\ tdK \in Nat /\ tS \in Nat
      /\ k \in Nat /\ Executed < k
  BY Numbers
<1>4. k <= Issued
  <2>1. Issued \in Nat
    BY Numbers
  <2> QED BY <1>1, <2>1 DEF Executed
<1>5. Pairs' = Pairs
  BY SameLaunch DEF TensorCore
<1>6. /\ tS' = IF op.do = "S" THEN QTile(op.slot) ELSE tS
      /\ tdPdQ' = CASE op.do = "dP" -> <<"dP", dOTile>>
                    [] op.do = "dQ" -> <<"dQ", TileOf(sdS)>>
                    [] OTHER -> tdPdQ
      /\ tdV' = IF op.do = "dV" THEN Accumulate(tdV, dOTile, TileOf(sP)) ELSE tdV
      /\ tdK' = IF op.do = "dK" THEN Accumulate(tdK, QTile(op.slot), TileOf(sdS)) ELSE tdK
  BY DEF TensorCore
<1> HIDE DEF op, k, P
<1>7. ASSUME NEW i \in 1 .. P
      PROVE  /\ k = 3 => QTile(0) = 1
             /\ k \in {5 * i - 1, 5 * i} => dOTile = i
             /\ k = 5 * i => TileOf(sP) = i
             /\ (k = 5 * i + 1 /\ i < P) => QTile(i % 2) = i + 1
             /\ k \in {5 * i + 2, 5 * i + 3} => TileOf(sdS) = i /\ QTile((i - 1) % 2) = i
  BY <1>3, <1>4, Operands DEF P
<1>8. CASE k = 3 /\ op = Op("S", 0, {SFull})
  <2>1. op.do = "S" /\ op.slot = 0 /\ op.arrive = {SFull}
    BY <1>8 DEF Op
  <2>2. 1 \in 1 .. P
    BY <1>3
  <2>3. Executed = 2 /\ Memory(0, <<"none", 0>>, 0, 0)
    <3>1. Executed = 2
      BY <1>3, <1>8 DEF k
    <3> QED BY <1>3, <2>2, <3>1, MemoryBefore DEF P
  <2>4. tS' = 1 /\ tdPdQ' = <<"none", 0>> /\ tdV' = 0 /\ tdK' = 0 /\ tS = 0 /\ tdPdQ = <<"none", 0>>
        /\ tdV = 0 /\ tdK = 0
    BY <1>6, <1>7, <1>8, <2>1, <2>2, <2>3 DEF Memory
  <2>5. dQDone' = 0 /\ Released' = 0 /\ dQDone = 0 /\ Released = 0
    BY <2>4 DEF dQDone, Released
  <2>6. Executed' = Executed + 1 => TensorMemory(Executed)'
    BY <2>3, <2>4 DEF TensorMemory, Memory
  <2>7. Bit(Executed + 1 > 5 * P) = Bit(Executed > 5 * P) + 0 /\ Bit(tdK' = P) = Bit(tdK = P) + 0
    BY <1>3, <2>3, <2>4 DEF Bit
  <2>8. Told(op.arrive, 1, 0, 0, 0, 0, 0, 0)
    BY <2>1, Commits
  <2>9. \A x \in Stage : QEmpty(x) \in op.arrive <=> (0 = 1 /\ x = StageOf(Released + 1))
    BY <2>1, Commits
  <2>10. /\ tS' = tS + 1 /\ tdV' = tdV + 0 /\ tdPdQ'[2] = tdPdQ[2] + 0
         /\ dQDone' = dQDone + 0 /\ Released' = Released + 0 /\ tdK' \in Nat
    BY <2>4, <2>5
  <2> QED BY <2>6, <2>7, <2>8, <2>9, <2>10, TensorTold DEF op, P
<1>9. ASSUME NEW i \in 1 .. P, OfPair(k, op, i)
      PROVE  Typed' /\ Working'
  <2>1. i \in Nat /\ i >= 1 /\ i <= P
    BY <1>3
  <2>2. /\ StageOf(i) = (i - 1) % 2 /\ StageOf(i) \in Stage /\ (i - 1) % 2 \in Stage
    BY <2>1, QSlots
  <2>3. CASE k = 5 * i - 1 /\ op = Op("dP", 0, {dPFull})
    <3>1. op.do = "dP" /\ op.arrive = {dPFull}
      BY <2>3 DEF Op
    <3>2. Executed = 5 * i - 2
      BY <1>3, <2>1, <2>3 DEF k
    <3>3. \/ i = 1 /\ Memory(i, <<"none", i - 1>>, i - 1, i - 1)
          \/ Memory(i, <<"dQ", i - 1>>, i - 1, i - 1)
      BY <1>3, <3>2, MemoryBefore DEF P
    <3>4. /\ tS = i /\ tdV = i - 1 /\ tdK = i - 1 /\ tdPdQ[2] = i - 1
          /\ tS' = i /\ tdV' = i - 1 /\ tdK' = i - 1 /\ tdPdQ' = <<"dP", i>>
      BY <1>6, <1>7, <2>3, <3>1, <3>3 DEF Memory
    <3>5. dQDone = i - 1
      BY <2>1, <3>3 DEF dQDone, Memory
    <3>6. dQDone' = i - 1 /\ Released = i - 1 /\ Released' = i - 1
      <4>1. dQDone' = i - 1
        BY <3>4 DEF dQDone
      <4> QED BY <3>4, <3>5, <4>1 DEF Released
    <3>7. Executed' = Executed + 1 => TensorMemory(Executed)'
      BY <1>5, <2>1, <3>2, <3>4 DEF TensorMemory, DuringPair, Memory, P
    <3>8. Bit(Executed + 1 > 5 * P) = Bit(Executed > 5 * P) + 0 /\ Bit(tdK' = P) = Bit(tdK = P) + 0
      BY <1>3, <2>1, <3>2, <3>4 DEF Bit
    <3>9. Told(op.arrive, 0, 1, 0, 0, 0, 0, 0)
      BY <3>1, Commits
    <3>10. \A x \in Stage : QEmpty(x) \in op.arrive <=> (0 = 1 /\ x = StageOf(Released + 1))
      BY <3>1, Commits
    <3>11. /\ tS' = tS + 0 /\ tdV' = tdV + 0 /\ tdPdQ'[2] = tdPdQ[2] + 1
           /\ dQDone' = dQDone + 0 /\ Released' = Released + 0 /\ tdK' \in Nat
      BY <2>1, <3>4, <3>5, <3>6
    <3> QED BY <3>7, <3>8, <3>9, <3>10, <3>11, TensorTold DEF op, P
  <2>4. CASE k = 5 * i /\ op = Op("dV", 0, {PEmpty, dOEmpty})
    <3>1. op.do = "dV" /\ op.arrive = {PEmpty, dOEmpty}
      BY <2>4 DEF Op
    <3>2. Executed = 5 * i - 1
      BY <1>3, <2>1, <2>4 DEF k
    <3>3. Memory(i, <<"dP", i>>, i - 1, i - 1)
      BY <1>3, <3>2, MemoryBefore DEF P
    <3>4. /\ tS = i /\ tdV = i - 1 /\ tdK = i - 1 /\ tdPdQ = <<"dP", i>>
          /\ tS' = i /\ tdV' = i /\ tdK' = i - 1 /\ tdPdQ' = <<"dP", i>>
      BY <1>6, <1>7, <2>1, <2>4, <3>1, <3>3, Accumulates DEF Memory
    <3>5. dQDone = i - 1 /\ dQDone' = i - 1 /\ Released = i - 1 /\ Released' = i - 1
      <4>1. dQDone = i - 1 /\ dQDone' = i - 1
        BY <3>4 DEF dQDone
      <4> QED BY <3>4, <4>1 DEF Released
    <3>6. Executed' = Executed + 1 => TensorMemory(Executed)'
      BY <1>5, <2>1, <3>2, <3>4 DEF TensorMemory, DuringPair, Memory, P
    <3>7. Bit(Executed + 1 > 5 * P) = Bit(Executed > 5 * P) + 0 /\ Bit(tdK' = P) = Bit(tdK = P) + 0
      BY <1>3, <2>1, <3>2, <3>4 DEF Bit
    <3>8. Told(op.arrive, 0, 0, 0, 1, 0, 0, 0)
      BY <3>1, Commits
    <3>9. \A x \in Stage : QEmpty(x) \in op.arrive <=> (0 = 1 /\ x = StageOf(Released + 1))
      BY <3>1, Commits
    <3>10. /\ tS' = tS + 0 /\ tdV' = tdV + 1 /\ tdPdQ'[2] = tdPdQ[2] + 0
           /\ dQDone' = dQDone + 0 /\ Released' = Released + 0 /\ tdK' \in Nat
      BY <2>1, <3>4, <3>5
    <3> QED BY <3>6, <3>7, <3>8, <3>9, <3>10, TensorTold DEF op, P
  <2>5. CASE i < P /\ k = 5 * i + 1 /\ op = Op("S", i % 2, {SFull})
    <3>1. op.do = "S" /\ op.slot = i % 2 /\ op.arrive = {SFull}
      BY <2>5 DEF Op
    <3>2. Executed = 5 * i
      BY <1>3, <2>1, <2>5 DEF k
    <3>3. Memory(i, <<"dP", i>>, i, i - 1)
      BY <1>3, <3>2, MemoryBefore DEF P
    <3>4. /\ tS = i /\ tdV = i /\ tdK = i - 1 /\ tdPdQ = <<"dP", i>>
          /\ tS' = i + 1 /\ tdV' = i /\ tdK' = i - 1 /\ tdPdQ' = <<"dP", i>>
      BY <1>6, <1>7, <2>1, <2>5, <3>1, <3>3 DEF Memory
    <3>5. dQDone = i - 1 /\ dQDone' = i - 1 /\ Released = i - 1 /\ Released' = i - 1
      <4>1. dQDone = i - 1 /\ dQDone' = i - 1
        BY <3>4 DEF dQDone
      <4> QED BY <3>4, <4>1 DEF Released
    <3>6. Executed' = Executed + 1 => TensorMemory(Executed)'
      BY <1>5, <2>1, <2>5, <3>2, <3>4 DEF TensorMemory, DuringPair, Memory, P
    <3>7. Bit(Executed + 1 > 5 * P) = Bit(Executed > 5 * P) + 0 /\ Bit(tdK' = P) = Bit(tdK = P) + 0
      BY <1>3, <2>1, <2>5, <3>2, <3>4 DEF Bit
    <3>8. Told(op.arrive, 1, 0, 0, 0, 0, 0, 0)
      BY <3>1, Commits
    <3>9. \A x \in Stage : QEmpty(x) \in op.arrive <=> (0 = 1 /\ x = StageOf(Released + 1))
      BY <3>1, Commits
    <3>10. /\ tS' = tS + 1 /\ tdV' = tdV + 0 /\ tdPdQ'[2] = tdPdQ[2] + 0
           /\ dQDone' = dQDone + 0 /\ Released' = Released + 0 /\ tdK' \in Nat
      BY <2>1, <3>4, <3>5
    <3> QED BY <3>6, <3>7, <3>8, <3>9, <3>10, TensorTold DEF op, P
  <2>6. CASE i < P /\ k = 5 * i + 2 /\ op = Op("dQ", (i - 1) % 2, {dQFull})
    <3>1. op.do = "dQ" /\ op.arrive = {dQFull}
      BY <2>6 DEF Op
    <3>2. Executed = 5 * i + 1
      BY <1>3, <2>1, <2>6 DEF k
    <3>3. Memory(i + 1, <<"dP", i>>, i, i - 1)
      BY <1>3, <2>6, <3>2, MemoryBefore DEF P
    <3>4. /\ tS = i + 1 /\ tdV = i /\ tdK = i - 1 /\ tdPdQ = <<"dP", i>>
          /\ tS' = i + 1 /\ tdV' = i /\ tdK' = i - 1 /\ tdPdQ' = <<"dQ", i>>
      BY <1>6, <1>7, <2>1, <2>6, <3>1, <3>3 DEF Memory
    <3>5. dQDone = i - 1 /\ dQDone' = i /\ Released = i - 1 /\ Released' = i - 1
      <4>1. dQDone = i - 1 /\ dQDone' = i
        BY <3>4 DEF dQDone
      <4> QED BY <2>1, <3>4, <4>1 DEF Released
    <3>6. Executed' = Executed + 1 => TensorMemory(Executed)'
      BY <1>5, <2>1, <2>6, <3>2, <3>4 DEF TensorMemory, DuringPair, Memory, P
    <3>7. Bit(Executed + 1 > 5 * P) = Bit(Executed > 5 * P) + 0 /\ Bit(tdK' = P) = Bit(tdK = P) + 0
      BY <1>3, <2>1, <2>6, <3>2, <3>4 DEF Bit
    <3>8. Told(op.arrive, 0, 0, 1, 0, 0, 0, 0)
      BY <3>1, Commits
    <3>9. \A x \in Stage : QEmpty(x) \in op.arrive <=> (0 = 1 /\ x = StageOf(Released + 1))
      BY <3>1, Commits
    <3>10. /\ tS' = tS + 0 /\ tdV' = tdV + 0 /\ tdPdQ'[2] = tdPdQ[2] + 0
           /\ dQDone' = dQDone + 1 /\ Released' = Released + 0 /\ tdK' \in Nat
      BY <2>1, <3>4, <3>5
    <3> QED BY <3>6, <3>7, <3>8, <3>9, <3>10, TensorTold DEF op, P
  <2>7. CASE i < P /\ k = 5 * i + 3 /\ op = Op("dK", (i - 1) % 2, {QEmpty((i - 1) % 2), dSEmpty})
    <3>1. op.do = "dK" /\ op.slot = (i - 1) % 2 /\ op.arrive = {QEmpty((i - 1) % 2), dSEmpty}
      BY <2>7 DEF Op
    <3>2. Executed = 5 * i + 2
      BY <1>3, <2>1, <2>7 DEF k
    <3>3. Memory(i + 1, <<"dQ", i>>, i, i - 1)
      BY <1>3, <2>7, <3>2, MemoryBefore DEF P
    <3>4. /\ tS = i + 1 /\ tdV = i /\ tdK = i - 1 /\ tdPdQ = <<"dQ", i>>
          /\ tS' = i + 1 /\ tdV' = i /\ tdK' = i /\ tdPdQ' = <<"dQ", i>>
      BY <1>6, <1>7, <2>1, <2>7, <3>1, <3>3, Accumulates DEF Memory
    <3>5. dQDone = i /\ dQDone' = i /\ Released = i - 1 /\ Released' = i
      <4>1. dQDone = i /\ dQDone' = i
        BY <3>4 DEF dQDone
      <4> QED BY <2>1, <3>4, <4>1 DEF Released
    <3>6. Executed' = Executed + 1 => TensorMemory(Executed)'
      BY <1>5, <2>1, <2>7, <3>2, <3>4 DEF TensorMemory, DuringPair, Memory, P
    <3>7. Bit(Executed + 1 > 5 * P) = Bit(Executed > 5 * P) + 0 /\ Bit(tdK' = P) = Bit(tdK = P) + 0
      BY <1>3, <2>1, <2>7, <3>2, <3>4 DEF Bit
    <3>8. Told(op.arrive, 0, 0, 0, 0, 1, 0, 0)
      <4>1. Told({QEmpty((i - 1) % 2), dSEmpty}, 0, 0, 0, 0, 1, 0, 0)
        BY <2>2, CommitsQ
      <4> QED BY <3>1, <4>1
    <3>9. \A x \in Stage : QEmpty(x) \in op.arrive <=> (1 = 1 /\ x = StageOf(Released + 1))
      <4>1. \A x \in Stage : QEmpty(x) \in {QEmpty((i - 1) % 2), dSEmpty} <=> x = (i - 1) % 2
        BY <2>2, CommitsQ
      <4>2. StageOf(Released + 1) = (i - 1) % 2
        BY <2>1, <2>2, <3>5
      <4> QED BY <3>1, <4>1, <4>2
    <3>10. /\ tS' = tS + 0 /\ tdV' = tdV + 0 /\ tdPdQ'[2] = tdPdQ[2] + 0
           /\ dQDone' = dQDone + 0 /\ Released' = Released + 1 /\ tdK' \in Nat
      BY <2>1, <3>4, <3>5
    <3> QED BY <3>6, <3>7, <3>8, <3>9, <3>10, TensorTold DEF op, P
  <2>8. CASE i = P /\ k = 5 * i + 1 /\ op = Op("none", 0, {dKdVFull(0)})
    <3>1. op.do = "none" /\ op.arrive = {dKdVFull(0)}
      BY <2>8 DEF Op
    <3>2. Executed = 5 * i
      BY <1>3, <2>1, <2>8 DEF k
    <3>3. Memory(i, <<"dP", i>>, i, i - 1)
      BY <1>3, <3>2, MemoryBefore DEF P
    <3>4. /\ tS = i /\ tdV = i /\ tdK = i - 1 /\ tdPdQ = <<"dP", i>>
          /\ tS' = i /\ tdV' = i /\ tdK' = i - 1 /\ tdPdQ' = <<"dP", i>>
      BY <1>6, <2>1, <3>1, <3>3 DEF Memory
    <3>5. dQDone = i - 1 /\ dQDone' = i - 1 /\ Released = i - 1 /\ Released' = i - 1
      <4>1. dQDone = i - 1 /\ dQDone' = i - 1
        BY <3>4 DEF dQDone
      <4> QED BY <3>4, <4>1 DEF Released
    <3>6. Executed' = Executed + 1 => TensorMemory(Executed)'
      BY <1>5, <2>1, <2>8, <3>2, <3>4 DEF TensorMemory, DuringPair, Memory, P
    <3>7. Bit(Executed + 1 > 5 * P) = Bit(Executed > 5 * P) + 1 /\ Bit(tdK' = P) = Bit(tdK = P) + 0
      BY <1>3, <2>1, <2>8, <3>2, <3>4 DEF Bit
    <3>8. Told(op.arrive, 0, 0, 0, 0, 0, 1, 0)
      BY <3>1, Commits
    <3>9. \A x \in Stage : QEmpty(x) \in op.arrive <=> (0 = 1 /\ x = StageOf(Released + 1))
      BY <3>1, Commits
    <3>10. /\ tS' = tS + 0 /\ tdV' = tdV + 0 /\ tdPdQ'[2] = tdPdQ[2] + 0
           /\ dQDone' = dQDone + 0 /\ Released' = Released + 0 /\ tdK' \in Nat
      BY <2>1, <3>4, <3>5
    <3> QED BY <3>6, <3>7, <3>8, <3>9, <3>10, TensorTold DEF op, P
  <2>9. CASE i = P /\ k = 5 * i + 2 /\ op = Op("dK", (i - 1) % 2, {dKdVFull(1)})
    <3>1. op.do = "dK" /\ op.slot = (i - 1) % 2 /\ op.arrive = {dKdVFull(1)}
      BY <2>9 DEF Op
    <3>2. Executed = 5 * i + 1
      BY <1>3, <2>1, <2>9 DEF k
    <3>3. Memory(i, <<"dP", i>>, i, i - 1)
      BY <1>3, <2>9, <3>2, MemoryBefore DEF P
    <3>4. /\ tS = i /\ tdV = i /\ tdK = i - 1 /\ tdPdQ = <<"dP", i>>
          /\ tS' = i /\ tdV' = i /\ tdK' = i /\ tdPdQ' = <<"dP", i>>
      BY <1>6, <1>7, <2>1, <2>9, <3>1, <3>3, Accumulates DEF Memory
    <3>5. dQDone = i - 1 /\ dQDone' = i - 1 /\ Released = i - 1 /\ Released' = i - 1
      <4>1. dQDone = i - 1 /\ dQDone' = i - 1
        BY <3>4 DEF dQDone
      <4> QED BY <2>1, <3>4, <4>1 DEF Released
    <3>6. Executed' = Executed + 1 => TensorMemory(Executed)'
      BY <1>5, <2>1, <2>9, <3>2, <3>4 DEF TensorMemory, DuringPair, Memory, P
    <3>7. Bit(Executed + 1 > 5 * P) = Bit(Executed > 5 * P) + 0 /\ Bit(tdK' = P) = Bit(tdK = P) + 1
      BY <1>3, <2>1, <2>9, <3>2, <3>4 DEF Bit
    <3>8. Told(op.arrive, 0, 0, 0, 0, 0, 0, 1)
      BY <3>1, Commits
    <3>9. \A x \in Stage : QEmpty(x) \in op.arrive <=> (0 = 1 /\ x = StageOf(Released + 1))
      BY <3>1, Commits
    <3>10. /\ tS' = tS + 0 /\ tdV' = tdV + 0 /\ tdPdQ'[2] = tdPdQ[2] + 0
           /\ dQDone' = dQDone + 0 /\ Released' = Released + 0 /\ tdK' \in Nat
      BY <2>1, <3>4, <3>5
    <3> QED BY <3>6, <3>7, <3>8, <3>9, <3>10, TensorTold DEF op, P
  <2>10. CASE i = P /\ k = 5 * i + 3
              /\ op = Op("dQ", (i - 1) % 2, {dQFull, QEmpty((i - 1) % 2), dSEmpty})
    <3>1. op.do = "dQ" /\ op.arrive = {dQFull, QEmpty((i - 1) % 2), dSEmpty}
      BY <2>10 DEF Op
    <3>2. Executed = 5 * i + 2
      BY <1>3, <2>1, <2>10 DEF k
    <3>3. Memory(i, <<"dP", i>>, i, i)
      BY <1>3, <2>10, <3>2, MemoryBefore DEF P
    <3>4. /\ tS = i /\ tdV = i /\ tdK = i /\ tdPdQ = <<"dP", i>>
          /\ tS' = i /\ tdV' = i /\ tdK' = i /\ tdPdQ' = <<"dQ", i>>
      BY <1>6, <1>7, <2>1, <2>10, <3>1, <3>3 DEF Memory
    <3>5. dQDone = i - 1 /\ dQDone' = i /\ Released = i - 1 /\ Released' = i
      <4>1. dQDone = i - 1 /\ dQDone' = i
        BY <3>4 DEF dQDone
      <4> QED BY <2>1, <3>4, <4>1 DEF Released
    <3>6. Executed' = Executed + 1 => TensorMemory(Executed)'
      BY <1>5, <2>1, <2>10, <3>2, <3>4 DEF TensorMemory, DuringPair, Memory, P
    <3>7. Bit(Executed + 1 > 5 * P) = Bit(Executed > 5 * P) + 0 /\ Bit(tdK' = P) = Bit(tdK = P) + 0
      BY <1>3, <2>1, <2>10, <3>2, <3>4 DEF Bit
    <3>8. Told(op.arrive, 0, 0, 1, 0, 1, 0, 0)
      <4>1. Told({dQFull, QEmpty((i - 1) % 2), dSEmpty}, 0, 0, 1, 0, 1, 0, 0)
        BY <2>2, CommitsQ
      <4> QED BY <3>1, <4>1
    <3>9. \A x \in Stage : QEmpty(x) \in op.arrive <=> (1 = 1 /\ x = StageOf(Released + 1))
      <4>1. \A x \in Stage : QEmpty(x) \in {dQFull, QEmpty((i - 1) % 2), dSEmpty} <=> x = (i - 1) % 2
        BY <2>2, CommitsQ
      <4>2. StageOf(Released + 1) = (i - 1) % 2
        BY <2>1, <2>2, <3>5
      <4> QED BY <3>1, <4>1, <4>2
    <3>10. /\ tS' = tS + 0 /\ tdV' = tdV + 0 /\ tdPdQ'[2] = tdPdQ[2] + 0
           /\ dQDone' = dQDone + 1 /\ Released' = Released + 1 /\ tdK' \in Nat
      BY <2>1, <3>4, <3>5
    <3> QED BY <3>6, <3>7, <3>8, <3>9, <3>10, TensorTold DEF op, P
  <2> QED BY <1>9, <2>3, <2>4, <2>5, <2>6, <2>7, <2>8, <2>9, <2>10 DEF OfPair, P
<1> QED BY <1>2, <1>8, <1>9 DEF InProgram, P

-----------------------------------------------------------------------------
(* Steps of the load warp.                                                 *)

LEMMA QKept ==
    ASSUME QStages, QLoads \in Nat, QLoads' = QLoads, UNCHANGED <<sQ, sK>>,
           \A h, j : Flying("Q", h, j)' = Flying("Q", h, j),
           \A j : Flying("K", 0, j)' = Flying("K", 0, j),
           \A s \in Stage : bar'[QFull(s)] = bar[QFull(s)]
    PROVE  QStages'
<1>1. \A j : QBytes(j)' = QBytes(j)
  BY DEF QBytes
<1>2. \A j \in {QLoads - 1, QLoads} : StageOf(j) \in Stage
  BY DEF StageOf, Stage
<1>3. \A j \in {QLoads - 1, QLoads} : bar'[QFull(StageOf(j))] = bar[QFull(StageOf(j))]
  BY <1>2
<1> QED BY <1>1, <1>3 DEF QStages, Phases, Pending

LEMMA dOKept ==
    ASSUME dOStage, dOLoads' = dOLoads, UNCHANGED <<sdO, sV>>,
           \A h, j : Flying("dO", h, j)' = Flying("dO", h, j),
           \A j : Flying("V", 0, j)' = Flying("V", 0, j),
           bar'[dOFull] = bar[dOFull]
    PROVE  dOStage'
<1>1. dOBytes' = dOBytes
  BY DEF dOBytes
<1> QED BY <1>1 DEF dOStage, Phases, Pending

LEMMA RowsKept ==
    ASSUME Rows, LSELoads' = LSELoads, SumLoads' = SumLoads, UNCHANGED <<sLSE, sSum>>,
           \A j : Flying("LSE", 0, j)' = Flying("LSE", 0, j),
           \A j : Flying("sum", 0, j)' = Flying("sum", 0, j),
           bar'[LSEFull] = bar[LSEFull], bar'[SumFull] = bar[SumFull]
    PROVE  Rows' /\ LSELanded' = LSELanded /\ SumLanded' = SumLanded
<1>1. LSELanded' = LSELanded /\ SumLanded' = SumLanded
  BY DEF LSELanded, SumLanded
<1> QED BY <1>1 DEF Rows, Phases

\* The load warp's barriers are its own.
LEMMA LoadStill ==
    ASSUME DOMAIN bar' = BarId,
           \A b \in BarId : b[1] \notin LoadNames => bar'[b] = bar[b]
    PROVE  Still(TensorNames) /\ Still(ComputeNames) /\ Still(ReduceNames)
  BY DEF Still, LoadNames, TensorNames, ComputeNames, ReduceNames

LEMMA TypedFrame ==
    ASSUME Typed, UNCHANGED <<launch, sP, sdS, tmem, output>>, DOMAIN bar' = BarId,
           sQ' \in [Stage -> [Stage -> Nat]], sdO' \in [Stage -> Nat],
           sK' \in BOOLEAN, sV' \in BOOLEAN
    PROVE  Typed'
  BY SameLaunch DEF Typed, tmem, output

\* Q of pair n waits until the pair before the last has been released.
LEMMA QFree ==
    ASSUME Typed, HasWork, Working, ld.pc = "q", Done(QEmpty(ld.n % 2), ProducerPhase2(ld.n))
    PROVE  Released >= ld.n - 1 /\ QTaken >= ld.n - 1
<1> DEFINE n == ld.n
<1>1. n \in Nat /\ Released \in Nat /\ QTaken \in Nat /\ QLoads = n /\ SumLoads = n
  BY Numbers DEF Working, LoadRole, QLoads, SumLoads
<1>2. QLoads <= Released + 2
  BY DEF Working, LoadOrder
<1>3. Released # n - 2
  <2> SUFFICES ASSUME Released = n - 2 PROVE FALSE
    OBVIOUS
  <2>1. Phases(bar[QEmpty(StageOf(Released - 1))], PhaseOf(Released - 1))
    BY DEF Working, ByTensorCore
  <2>2. StageOf(n - 3) = n % 2 /\ PhaseOf(n - 3) = (n \div 2) - 1 /\ Released - 1 = n - 3
    BY <1>1 DEF StageOf, PhaseOf
  <2>3. bar[QEmpty(n % 2)].par = ((n \div 2) - 1) % 2
    BY <2>1, <2>2 DEF Phases
  <2>4. ((n \div 2) - 1) % 2 = 1 - ((n \div 2) % 2)
    <3>1. n \div 2 \in Nat /\ n \div 2 >= 1
      BY <1>1
    <3>2. \A m \in Nat : m >= 1 => (m - 1) % 2 = 1 - (m % 2)
      OBVIOUS
    <3> QED BY <3>1, <3>2
  <2> QED BY <2>3, <2>4 DEF Done, ProducerPhase2
<1>4. Released >= n - 1
  BY <1>1, <1>2, <1>3
<1>5. Released <= QTaken
  <2>1. Released <= dQDone /\ (dQDone <= dSTaken \/ dQDone = 0) /\ dQDone \in Nat
    BY Numbers, MemoryBounds, QueueBounds DEF Working
  <2>2. dSTaken <= mm.n /\ mm.n <= QTaken /\ dSTaken \in Int /\ mm.n \in Nat
    BY Numbers, MmaCounters DEF Working, dSTaken
  <2> QED BY <1>1, <2>1, <2>2
<1> QED BY <1>1, <1>4, <1>5

\* The rows and dO of pair n wait for the pair before to be done with.
LEMMA LSEFree ==
    ASSUME Typed, HasWork, Working, ld.pc = "lse", Done(LSEEmpty, ProducerPhase(ld.n))
    PROVE  (\A w \in Compute : PStored(w) = ld.n) /\ LSELanded = ld.n
<1>1. ld.n \in Nat /\ LSELoads = ld.n
  BY DEF Working, LoadRole, LSELoads
<1>2. \A w \in Compute : PStored(w) = ld.n \/ PStored(w) = ld.n - 1
  BY <1>1, ComputeWindow, WarpNumbers
<1>3. PStores \in [Compute -> Nat] /\ \A w \in Compute : PStores[w] = PStored(w)
  BY ArrivalTypes DEF Working, PStores
<1>4. AllOf(bar[LSEEmpty], Compute, PStores)
  BY DEF Working, ByCompute
<1>5. \A w \in Compute : PStores[w] = ld.n
  BY <1>1, <1>2, <1>3, <1>4, AllFree
<1>6. PICK w \in Compute : TRUE
  BY Numbers
<1>7. PStored(w) <= LSETaken(w) /\ LSETaken(w) <= LSELanded /\ LSETaken(w) \in Nat
  BY ComputeCounters DEF Working, ComputeOrder
<1>8. LSELanded <= LSELoads /\ LSELanded \in Int
  BY LoadCounters DEF Working
<1> QED BY <1>1, <1>3, <1>5, <1>7, <1>8

LEMMA SumFree ==
    ASSUME Typed, HasWork, Working, ld.pc = "sum", Done(SumEmpty, ProducerPhase(ld.n))
    PROVE  (\A w \in Compute : cw[w].n = ld.n) /\ SumLanded = ld.n
<1>1. ld.n \in Nat /\ SumLoads = ld.n
  BY DEF Working, LoadRole, SumLoads
<1>2. \A w \in Compute : cw[w].n = ld.n \/ cw[w].n = ld.n - 1
  BY <1>1, ComputeWindow, WarpNumbers
<1>3. dSStores \in [Compute -> Nat] /\ \A w \in Compute : dSStores[w] = cw[w].n
  BY ArrivalTypes DEF Working, dSStores
<1>4. AllOf(bar[SumEmpty], Compute, dSStores)
  BY DEF Working, ByCompute
<1>5. \A w \in Compute : dSStores[w] = ld.n
  BY <1>1, <1>2, <1>3, <1>4, AllFree
<1>6. PICK w \in Compute : TRUE
  BY Numbers
<1>7. cw[w].n <= dPTaken(w) /\ dPTaken(w) <= SumTaken(w) /\ SumTaken(w) <= SumLanded
      /\ SumTaken(w) \in Nat /\ dPTaken(w) \in Nat
  BY ComputeCounters DEF Working, ComputeOrder
<1>8. SumLanded <= SumLoads /\ SumLanded \in Int
  BY LoadCounters DEF Working
<1> QED BY <1>1, <1>3, <1>5, <1>7, <1>8

LEMMA dOFree ==
    ASSUME Typed, HasWork, Working, ld.pc = "dO", Done(dOEmpty, ProducerPhase(ld.n))
    PROVE  tdV = ld.n /\ dOTaken = ld.n
<1>1. ld.n \in Nat /\ dOLoads = ld.n /\ tdV \in Nat /\ dOTaken \in Nat /\ mm.n \in Nat
  BY Numbers DEF Working, LoadRole, dOLoads
<1>2. dOTaken <= dOLoads /\ dOLoads <= tdV + 1
  BY DEF Working, LoadOrder
<1>3. tdV <= mm.n /\ mm.n <= dOTaken
  BY Numbers, MmaCounters, QueueBounds DEF Working
<1>4. tdV = ld.n \/ tdV = ld.n - 1
  BY <1>1, <1>2, <1>3
<1>5. tdV = ld.n
  BY <1>1, <1>4, PhaseFree DEF Working, ByTensorCore
<1> QED BY <1>1, <1>2, <1>3, <1>5

LEMMA LoadQStep ==
    ASSUME Typed, HasWork, Working, LoadQ
    PROVE  Typed' /\ Working'
<1>0. PICK n \in Nat : n = ld.n
  BY DEF Working, LoadRole
<1> DEFINE news == {Copy("Q", h, n + 1) : h \in Stage} \cup (IF n = 0 THEN {Copy("K", 0, 1)} ELSE {})
<1>1. /\ ld.pc = "q" /\ n = ld.n /\ n < Pairs /\ ld' = [ld EXCEPT !.pc = "lse"]
      /\ Done(QEmpty(n % 2), ProducerPhase2(n)) /\ ArriveAndExpect(QFull(n % 2), Bytes(n))
      /\ sQ' = [sQ EXCEPT ![n % 2] = [h \in Stage |-> 0]] /\ inflight' = inflight \cup news
      /\ UNCHANGED <<launch, sK, sdO, sV, sLSE, sSum, sP, sdS, tmem, tc, output, mm, cw, rd>>
      /\ LoadRole
  BY <1>0 DEF LoadQ, Working, LoadRole
<1>2. Released >= n - 1 /\ QTaken >= n - 1 /\ Released \in Nat /\ QTaken \in Nat
  BY <1>1, QFree, Numbers
<1>3. ld'.pc = "lse" /\ ld'.n = n /\ ld' \in [pc : {"lse"}, n : Nat]
  BY <1>1 DEF LoadRole
<1>4. /\ QLoads = n /\ QLoads' = n + 1 /\ LSELoads' = LSELoads /\ dOLoads' = dOLoads
      /\ SumLoads' = SumLoads
  BY <1>1, <1>3 DEF QLoads, LSELoads, dOLoads, SumLoads
<1>5. Pairs' = Pairs /\ Compute' = Compute /\ Reduce' = Reduce
  BY <1>1, SameLaunch
<1>6. LoadRole'
  BY <1>1, <1>3, <1>5 DEF LoadRole
<1>7. /\ n % 2 \in Stage /\ StageOf(n + 1) = n % 2 /\ PhaseOf(n + 1) = (n \div 2) + 1
      /\ StageOf(n - 1) = n % 2 /\ PhaseOf(n - 1) = n \div 2 /\ StageOf(n) # n % 2
      /\ StageOf(n) \in Stage /\ n \div 2 \in Nat
  BY <1>1 DEF Stage, StageOf, PhaseOf
<1>8. \A c \in news : /\ c.to \in {"Q", "K"} /\ c.pair = n + 1
                      /\ c.to = "K" => n = 0 /\ c.half = 0
  BY <1>1 DEF Copy
<1>9. /\ \A to, h, j : to \notin {"Q", "K"} => Flying(to, h, j)' = Flying(to, h, j)
      /\ \A to, h, j : j # n + 1 => Flying(to, h, j)' = Flying(to, h, j)
      /\ \A h \in Stage : Flying("Q", h, n + 1)' = 1
      /\ n = 0 => Flying("K", 0, 1)' = 1
      /\ n # 0 => \A j : Flying("K", 0, j)' = Flying("K", 0, j)
  <2>1. \A to, h, j : Copy(to, h, j) \in news => to \in {"Q", "K"} /\ j = n + 1 /\ (to = "K" => n = 0)
    BY <1>8 DEF Copy
  <2>2. \A h \in Stage : Copy("Q", h, n + 1) \in news
    OBVIOUS
  <2>3. n = 0 => Copy("K", 0, 1) \in news
    OBVIOUS
  <2> HIDE DEF news
  <2>4. \A c : c \in inflight' <=> c \in inflight \/ c \in news
    BY <1>1
  <2>5. \A to, h, j : to \notin {"Q", "K"} => Flying(to, h, j)' = Flying(to, h, j)
    BY <2>1, <2>4 DEF Flying
  <2>6. \A to, h, j : j # n + 1 => Flying(to, h, j)' = Flying(to, h, j)
    BY <2>1, <2>4 DEF Flying
  <2>7. \A h \in Stage : Flying("Q", h, n + 1)' = 1
    BY <2>2, <2>4 DEF Flying
  <2>8. n = 0 => Flying("K", 0, 1)' = 1
    BY <2>3, <2>4 DEF Flying
  <2>9. n # 0 => \A j : Flying("K", 0, j)' = Flying("K", 0, j)
    BY <2>1, <2>4 DEF Flying
  <2> QED BY <2>5, <2>6, <2>7, <2>8, <2>9
<1>10. QBytes(n - 1) = 0
  <2>1. \A h \in Stage : Copy("Q", h, n - 1) \notin inflight
    BY <1>2, <1>1 DEF Working, InFlight, Copy
  <2>2. Copy("K", 0, n - 1) \notin inflight
    BY <1>2, <1>1 DEF Working, InFlight, Copy
  <2> QED BY <2>1, <2>2 DEF QBytes, Flying, Stage
<1>11. Phases(bar[QFull(n % 2)], n \div 2)
  BY <1>4, <1>7, <1>10 DEF Working, QStages
<1>12. /\ Pending(bar'[QFull(n % 2)], (n \div 2) + 1, Bytes(n)) /\ DOMAIN bar' = BarId
       /\ \A c \in BarId : c # QFull(n % 2) => bar'[c] = bar[c]
  <2>1. Bytes(n) \in Nat /\ QFull(n % 2) \in BarId
    BY <1>7, BarNames DEF Bytes
  <2> QED BY <1>1, <1>7, <1>11, <2>1, ExpectEffect DEF Typed
<1>13. Flying("K", 0, n + 1) = 0 /\ Flying("K", 0, n + 1)' = IF n = 0 THEN 1 ELSE 0
  <2>1. Copy("K", 0, n + 1) \notin inflight
    BY <1>1, <1>4 DEF Working, InFlight, Copy
  <2>2. Flying("K", 0, n + 1) = 0
    BY <2>1 DEF Flying
  <2>3. CASE n = 0
    BY <1>9, <2>2, <2>3
  <2> QED BY <1>9, <2>2, <2>3
<1>14. QBytes(n + 1)' = Bytes(n) /\ Bytes(n) # 0
  <2>1. Flying("Q", 0, n + 1)' = 1 /\ Flying("Q", 1, n + 1)' = 1
    BY <1>9 DEF Stage
  <2> QED BY <1>13, <2>1 DEF QBytes, Bytes
<1>15. QStages'
  <2>1. ASSUME NEW j \in {QLoads' - 1, QLoads'}
        PROVE  /\ IF QBytes(j)' = 0 THEN Phases(bar'[QFull(StageOf(j))], PhaseOf(j))
                  ELSE Pending(bar'[QFull(StageOf(j))], PhaseOf(j), QBytes(j)')
               /\ j > 0 => \A h \in Stage : Flying("Q", h, j)' = 0 => sQ'[StageOf(j)][h] = j
    <3>1. CASE j = n + 1
      <4>1. \A h \in Stage : Flying("Q", h, j)' # 0
        BY <1>9, <3>1
      <4> QED BY <1>7, <1>12, <1>14, <3>1, <4>1
    <3>2. CASE j = n
      <4>1. QBytes(n)' = QBytes(n) /\ \A h : Flying("Q", h, n)' = Flying("Q", h, n)
        BY <1>1, <1>9 DEF QBytes
      <4>2. bar'[QFull(StageOf(n))] = bar[QFull(StageOf(n))]
        <5>1. QFull(StageOf(n)) # QFull(n % 2)
          BY <1>7 DEF QFull
        <5> QED BY <1>7, <1>12, <5>1, BarNames
      <4>3. sQ'[StageOf(n)] = sQ[StageOf(n)]
        BY <1>1, <1>7 DEF Typed
      <4>4. /\ IF QBytes(n) = 0 THEN Phases(bar[QFull(StageOf(n))], PhaseOf(n))
               ELSE Pending(bar[QFull(StageOf(n))], PhaseOf(n), QBytes(n))
            /\ n > 0 => \A h \in Stage : Flying("Q", h, n) = 0 => sQ[StageOf(n)][h] = n
        BY <1>4 DEF Working, QStages
      <4> QED BY <3>2, <4>1, <4>2, <4>3, <4>4
    <3> QED BY <1>1, <1>4, <3>1, <3>2
  <2>2. (QLoads' > 0 /\ Flying("K", 0, 1)' = 0) => sK'
    <3>1. CASE n = 0
      BY <1>9, <3>1
    <3>2. CASE n # 0
      BY <1>1, <1>4, <1>9, <3>2 DEF Working, QStages
    <3> QED BY <3>1, <3>2
  <2> QED BY <2>1, <2>2 DEF QStages
<1>16. \A b \in BarId : b[1] \notin {"q_full"} => bar'[b] = bar[b]
  BY <1>7, <1>12, BarNames
<1>17. dOStage' /\ Rows' /\ LSELanded' = LSELanded /\ SumLanded' = SumLanded
  <2>1. bar'[dOFull] = bar[dOFull] /\ bar'[LSEFull] = bar[LSEFull] /\ bar'[SumFull] = bar[SumFull]
    BY <1>16, BarNames
  <2> QED BY <1>1, <1>4, <1>9, <2>1, dOKept, RowsKept DEF Working
<1>18. InFlight'
  <2>1. QTaken' = QTaken /\ dOTaken' = dOTaken
    BY <1>1, SameMma
  <2>2. QTaken <= n
    BY <1>4 DEF Working, LoadOrder
  <2>3. ASSUME NEW c \in inflight
        PROVE  \/ \E h \in Stage, j \in {n, n + 1} : c = Copy("Q", h, j) /\ j > QTaken
               \/ c = Copy("K", 0, 1) /\ QTaken = 0
               \/ c = Copy("LSE", 0, LSELoads) /\ LSELoads > 0
               \/ \E h \in Stage : c = Copy("dO", h, dOLoads) /\ dOLoads > dOTaken
               \/ c = Copy("V", 0, 1) /\ dOTaken = 0 /\ dOLoads = 1
               \/ c = Copy("sum", 0, SumLoads) /\ SumLoads > 0
    <3>1. ASSUME NEW h \in Stage, NEW j \in {QLoads - 1, QLoads}, c = Copy("Q", h, j), j > QTaken
          PROVE  j = n
      BY <1>1, <1>2, <1>4, <3>1
    <3> QED BY <3>1 DEF Working, InFlight
  <2>4. ASSUME NEW c \in news
        PROVE  \/ \E h \in Stage, j \in {n, n + 1} : c = Copy("Q", h, j) /\ j > QTaken
               \/ c = Copy("K", 0, 1) /\ QTaken = 0
    <3>1. n + 1 > QTaken /\ (n = 0 => QTaken = 0)
      BY <1>1, <1>2, <2>2
    <3>2. c \in {Copy("Q", h, n + 1) : h \in Stage} \/ (n = 0 /\ c = Copy("K", 0, 1))
      OBVIOUS
    <3> QED BY <3>1, <3>2
  <2>5. QLoads' - 1 = n /\ QLoads' > 0
    BY <1>1, <1>4
  <2> HIDE DEF news
  <2>6. ASSUME NEW c \in inflight'
        PROVE  \/ \E h \in Stage, j \in {QLoads' - 1, QLoads'} : c = Copy("Q", h, j) /\ j > QTaken'
               \/ c = Copy("K", 0, 1) /\ QTaken' = 0 /\ QLoads' > 0
               \/ c = Copy("LSE", 0, LSELoads') /\ LSELoads' > 0
               \/ \E h \in Stage : c = Copy("dO", h, dOLoads') /\ dOLoads' > dOTaken'
               \/ c = Copy("V", 0, 1) /\ dOTaken' = 0 /\ dOLoads' = 1
               \/ c = Copy("sum", 0, SumLoads') /\ SumLoads' > 0
    <3>1. c \in inflight \/ c \in news
      BY <1>1
    <3> QED BY <1>4, <2>1, <2>3, <2>4, <2>5, <3>1
  <2> QED BY <2>6 DEF InFlight
<1>19. LoadOrder'
  <2>1. /\ Released' = Released /\ tdV' = tdV /\ QTaken' = QTaken /\ dOTaken' = dOTaken /\ cw' = cw
    BY <1>1, SameMma, SameMemory DEF tmem
  <2>2. QTaken' <= QLoads' /\ QLoads' <= Released' + 2
    BY <1>1, <1>2, <1>4, <2>1 DEF Working, LoadOrder
  <2> QED BY <1>4, <1>5, <2>1, <2>2, SameWarp DEF Working, LoadOrder
<1>20. Still(TensorNames) /\ Still(ComputeNames) /\ Still(ReduceNames)
  BY <1>12, <1>16, LoadStill DEF LoadNames
<1>21. Working'
  BY <1>1, <1>6, <1>15, <1>17, <1>18, <1>19, <1>20, LoadKeeps, Numbers
<1>22. Typed'
  <2>1. sQ' \in [Stage -> [Stage -> Nat]] /\ sdO' = sdO /\ sdO \in [Stage -> Nat]
        /\ sK' \in BOOLEAN /\ sV' \in BOOLEAN
    BY <1>1, <1>7 DEF Typed
  <2> QED BY <1>1, <1>12, <2>1, TypedFrame
<1> QED BY <1>21, <1>22

\* A copy of rows is started: all other copies are as they were.
LEMMA OneMore ==
    ASSUME NEW to, NEW half, NEW pair, inflight' = inflight \cup {Copy(to, half, pair)}
    PROVE  /\ \A t, h, j : <<t, h, j>> # <<to, half, pair>> => Flying(t, h, j)' = Flying(t, h, j)
           /\ Flying(to, half, pair)' = 1
<1>1. \A t, h, j : Copy(t, h, j) = Copy(to, half, pair) <=> <<t, h, j>> = <<to, half, pair>>
  BY DEF Copy
<1> QED BY <1>1 DEF Flying

LEMMA LoadLSEStep ==
    ASSUME Typed, HasWork, Working, LoadLSE
    PROVE  Typed' /\ Working'
<1>0. PICK n \in Nat : n = ld.n
  BY DEF Working, LoadRole
<1>1. /\ ld.pc = "lse" /\ n = ld.n /\ n < Pairs /\ ld' = [ld EXCEPT !.pc = "dO"]
      /\ Done(LSEEmpty, ProducerPhase(n)) /\ sLSE' = 0
      /\ inflight' = inflight \cup {Copy("LSE", 0, n + 1)} /\ bar' = bar
      /\ UNCHANGED <<launch, sQ, sK, sdO, sV, sSum, sP, sdS, tmem, tc, output, mm, cw, rd>>
      /\ LoadRole
  BY <1>0 DEF LoadLSE, Working, LoadRole
<1>2. (\A w \in Compute : PStored(w) = n) /\ LSELanded = n
  BY <1>1, LSEFree
<1>3. ld'.pc = "dO" /\ ld'.n = n /\ ld' \in [pc : {"dO"}, n : Nat]
  BY <1>1 DEF LoadRole
<1>4. /\ LSELoads = n /\ LSELoads' = n + 1 /\ QLoads' = QLoads /\ dOLoads' = dOLoads
      /\ SumLoads' = SumLoads
  BY <1>1, <1>3 DEF QLoads, LSELoads, dOLoads, SumLoads
<1>5. Pairs' = Pairs /\ Compute' = Compute /\ Reduce' = Reduce
  BY <1>1, SameLaunch
<1>6. LoadRole'
  BY <1>1, <1>3, <1>5 DEF LoadRole
<1>7. /\ \A t, h, j : t # "LSE" => Flying(t, h, j)' = Flying(t, h, j)
      /\ Flying("LSE", 0, n + 1)' = 1
  BY <1>1, OneMore
<1>8. DOMAIN bar' = BarId /\ \A b \in BarId : bar'[b] = bar[b]
  BY <1>1 DEF Typed
<1>9. QStages' /\ dOStage'
  <2>1. QLoads \in Nat /\ \A s \in Stage : bar'[QFull(s)] = bar[QFull(s)]
    BY <1>1, Numbers
  <2> QED BY <1>1, <1>4, <1>7, <2>1, QKept, dOKept DEF Working
<1>10. LSELanded' = n /\ SumLanded' = SumLanded
  <2>1. LSELanded' = LSELoads' - Flying("LSE", 0, LSELoads)'
    BY DEF LSELanded
  <2>2. Flying("LSE", 0, LSELoads)' = 1
    BY <1>1, <1>4 DEF Flying
  <2>3. SumLanded' = SumLanded
    BY <1>4, <1>7 DEF SumLanded
  <2> QED BY <1>4, <2>1, <2>2, <2>3
<1>11. Rows'
  BY <1>1, <1>2, <1>4, <1>10 DEF Working, Rows, Phases
<1>12. InFlight'
  <2>1. QTaken' = QTaken /\ dOTaken' = dOTaken
    BY <1>1, SameMma
  <2>2. Copy("LSE", 0, n) \notin inflight
    BY <1>2, <1>4 DEF LSELanded, Flying
  <2>3. ASSUME NEW c \in inflight
        PROVE  \/ \E h \in Stage, j \in {QLoads - 1, QLoads} : c = Copy("Q", h, j) /\ j > QTaken
               \/ c = Copy("K", 0, 1) /\ QTaken = 0 /\ QLoads > 0
               \/ \E h \in Stage : c = Copy("dO", h, dOLoads) /\ dOLoads > dOTaken
               \/ c = Copy("V", 0, 1) /\ dOTaken = 0 /\ dOLoads = 1
               \/ c = Copy("sum", 0, SumLoads) /\ SumLoads > 0
    BY <1>4, <2>2 DEF Working, InFlight
  <2>4. LSELoads' > 0 /\ Copy("LSE", 0, n + 1) = Copy("LSE", 0, LSELoads')
    BY <1>4
  <2>5. ASSUME NEW c \in inflight'
        PROVE  \/ \E h \in Stage, j \in {QLoads' - 1, QLoads'} : c = Copy("Q", h, j) /\ j > QTaken'
               \/ c = Copy("K", 0, 1) /\ QTaken' = 0 /\ QLoads' > 0
               \/ c = Copy("LSE", 0, LSELoads') /\ LSELoads' > 0
               \/ \E h \in Stage : c = Copy("dO", h, dOLoads') /\ dOLoads' > dOTaken'
               \/ c = Copy("V", 0, 1) /\ dOTaken' = 0 /\ dOLoads' = 1
               \/ c = Copy("sum", 0, SumLoads') /\ SumLoads' > 0
    <3>1. c \in inflight \/ c = Copy("LSE", 0, n + 1)
      BY <1>1
    <3> QED BY <1>4, <2>1, <2>3, <2>4, <3>1
  <2> QED BY <2>5 DEF InFlight
<1>13. LoadOrder'
  <2>1. Released' = Released /\ tdV' = tdV /\ QTaken' = QTaken /\ dOTaken' = dOTaken /\ cw' = cw
    BY <1>1, SameMma, SameMemory DEF tmem
  <2>2. \A w \in Compute : PStored(w)' = PStored(w) /\ cw'[w].n = cw[w].n
    BY <2>1, SameWarp
  <2>3. \A w \in Compute : LSELoads' <= PStored(w)' + 1
    BY <1>2, <1>4, <2>2
  <2> QED BY <1>4, <1>5, <2>1, <2>2, <2>3 DEF Working, LoadOrder
<1>14. Still(TensorNames) /\ Still(ComputeNames) /\ Still(ReduceNames)
  BY <1>8, LoadStill
<1>15. LSELanded' \in Int /\ SumLanded' \in Int /\ LSELanded <= LSELanded' /\ SumLanded <= SumLanded'
  BY <1>2, <1>10, Numbers
<1>16. Working'
  BY <1>1, <1>6, <1>9, <1>11, <1>12, <1>13, <1>14, <1>15, LoadKeeps
<1>17. Typed'
  <2>1. /\ sQ' \in [Stage -> [Stage -> Nat]] /\ sdO' \in [Stage -> Nat]
        /\ sK' \in BOOLEAN /\ sV' \in BOOLEAN
    BY <1>1 DEF Typed
  <2> QED BY <1>1, <1>8, <2>1, TypedFrame
<1> QED BY <1>16, <1>17

LEMMA LoadSumOdOStep ==
    ASSUME Typed, HasWork, Working, LoadSumOdO
    PROVE  Typed' /\ Working'
<1>0. PICK n \in Nat : n = ld.n
  BY DEF Working, LoadRole
<1>1. /\ ld.pc = "sum" /\ n = ld.n /\ n < Pairs
      /\ ld' = [pc |-> IF ld.n + 1 = Pairs THEN "done" ELSE "q", n |-> ld.n + 1]
      /\ Done(SumEmpty, ProducerPhase(n)) /\ sSum' = 0
      /\ inflight' = inflight \cup {Copy("sum", 0, n + 1)} /\ bar' = bar
      /\ UNCHANGED <<launch, sQ, sK, sdO, sV, sLSE, sP, sdS, tmem, tc, output, mm, cw, rd>>
      /\ LoadRole
  BY <1>0 DEF LoadSumOdO, Working, LoadRole
<1>2. (\A w \in Compute : cw[w].n = n) /\ SumLanded = n
  BY <1>1, SumFree
<1>3. /\ ld'.pc = (IF n + 1 = Pairs THEN "done" ELSE "q") /\ ld'.n = n + 1
      /\ ld' \in [pc : {"q", "done"}, n : Nat]
  BY <1>1
<1>4. /\ SumLoads = n /\ SumLoads' = n + 1 /\ QLoads' = QLoads /\ dOLoads' = dOLoads
      /\ LSELoads' = LSELoads
  BY <1>1, <1>3 DEF QLoads, LSELoads, dOLoads, SumLoads
<1>5. Pairs' = Pairs /\ Compute' = Compute /\ Reduce' = Reduce /\ Pairs \in Nat
  BY <1>1, SameLaunch, Numbers
<1>6. LoadRole'
  BY <1>1, <1>3, <1>5 DEF LoadRole
<1>7. /\ \A t, h, j : t # "sum" => Flying(t, h, j)' = Flying(t, h, j)
      /\ Flying("sum", 0, n + 1)' = 1
  BY <1>1, OneMore
<1>8. DOMAIN bar' = BarId /\ \A b \in BarId : bar'[b] = bar[b]
  BY <1>1 DEF Typed
<1>9. QStages' /\ dOStage'
  <2>1. QLoads \in Nat /\ \A s \in Stage : bar'[QFull(s)] = bar[QFull(s)]
    BY <1>1, Numbers
  <2> QED BY <1>1, <1>4, <1>7, <2>1, QKept, dOKept DEF Working
<1>10. SumLanded' = n /\ LSELanded' = LSELanded
  <2>1. SumLanded' = SumLoads' - Flying("sum", 0, SumLoads)'
    BY DEF SumLanded
  <2>2. Flying("sum", 0, SumLoads)' = 1
    BY <1>1, <1>4 DEF Flying
  <2>3. LSELanded' = LSELanded
    BY <1>4, <1>7 DEF LSELanded
  <2> QED BY <1>4, <2>1, <2>2, <2>3
<1>11. Rows'
  BY <1>1, <1>2, <1>4, <1>10 DEF Working, Rows, Phases
<1>12. InFlight'
  <2>1. QTaken' = QTaken /\ dOTaken' = dOTaken
    BY <1>1, SameMma
  <2>2. Copy("sum", 0, n) \notin inflight
    BY <1>2, <1>4 DEF SumLanded, Flying
  <2>3. ASSUME NEW c \in inflight
        PROVE  \/ \E h \in Stage, j \in {QLoads - 1, QLoads} : c = Copy("Q", h, j) /\ j > QTaken
               \/ c = Copy("K", 0, 1) /\ QTaken = 0 /\ QLoads > 0
               \/ c = Copy("LSE", 0, LSELoads) /\ LSELoads > 0
               \/ \E h \in Stage : c = Copy("dO", h, dOLoads) /\ dOLoads > dOTaken
               \/ c = Copy("V", 0, 1) /\ dOTaken = 0 /\ dOLoads = 1
    BY <1>4, <2>2 DEF Working, InFlight
  <2>4. SumLoads' > 0 /\ Copy("sum", 0, n + 1) = Copy("sum", 0, SumLoads')
    BY <1>4
  <2>5. ASSUME NEW c \in inflight'
        PROVE  \/ \E h \in Stage, j \in {QLoads' - 1, QLoads'} : c = Copy("Q", h, j) /\ j > QTaken'
               \/ c = Copy("K", 0, 1) /\ QTaken' = 0 /\ QLoads' > 0
               \/ c = Copy("LSE", 0, LSELoads') /\ LSELoads' > 0
               \/ \E h \in Stage : c = Copy("dO", h, dOLoads') /\ dOLoads' > dOTaken'
               \/ c = Copy("V", 0, 1) /\ dOTaken' = 0 /\ dOLoads' = 1
               \/ c = Copy("sum", 0, SumLoads') /\ SumLoads' > 0
    <3>1. c \in inflight \/ c = Copy("sum", 0, n + 1)
      BY <1>1
    <3> QED BY <1>4, <2>1, <2>3, <2>4, <3>1
  <2> QED BY <2>5 DEF InFlight
<1>13. LoadOrder'
  <2>1. Released' = Released /\ tdV' = tdV /\ QTaken' = QTaken /\ dOTaken' = dOTaken /\ cw' = cw
    BY <1>1, SameMma, SameMemory DEF tmem
  <2>2. \A w \in Compute : PStored(w)' = PStored(w) /\ cw'[w].n = cw[w].n
    BY <2>1, SameWarp
  <2>3. \A w \in Compute : SumLoads' <= cw'[w].n + 1
    BY <1>2, <1>4, <2>2
  <2> QED BY <1>4, <1>5, <2>1, <2>2, <2>3 DEF Working, LoadOrder
<1>14. Still(TensorNames) /\ Still(ComputeNames) /\ Still(ReduceNames)
  BY <1>8, LoadStill
<1>15. LSELanded' \in Int /\ SumLanded' \in Int /\ LSELanded <= LSELanded' /\ SumLanded <= SumLanded'
  BY <1>2, <1>10, Numbers
<1>16. Working'
  BY <1>1, <1>6, <1>9, <1>11, <1>12, <1>13, <1>14, <1>15, LoadKeeps
<1>17. Typed'
  <2>1. /\ sQ' \in [Stage -> [Stage -> Nat]] /\ sdO' \in [Stage -> Nat]
        /\ sK' \in BOOLEAN /\ sV' \in BOOLEAN
    BY <1>1 DEF Typed
  <2> QED BY <1>1, <1>8, <2>1, TypedFrame
<1> QED BY <1>16, <1>17

LEMMA LoaddOStep ==
    ASSUME Typed, HasWork, Working, LoaddO
    PROVE  Typed' /\ Working'
<1>0. PICK n \in Nat : n = ld.n
  BY DEF Working, LoadRole
<1> DEFINE news == {Copy("dO", h, n + 1) : h \in Stage} \cup (IF n = 0 THEN {Copy("V", 0, 1)} ELSE {})
<1>1. /\ ld.pc = "dO" /\ n = ld.n /\ n < Pairs /\ ld' = [ld EXCEPT !.pc = "sum"]
      /\ Done(dOEmpty, ProducerPhase(n)) /\ ArriveAndExpect(dOFull, Bytes(n))
      /\ sdO' = [h \in Stage |-> 0] /\ inflight' = inflight \cup news
      /\ UNCHANGED <<launch, sQ, sK, sV, sLSE, sSum, sP, sdS, tmem, tc, output, mm, cw, rd>>
      /\ LoadRole
  BY <1>0 DEF LoaddO, Working, LoadRole
<1>2. tdV = n /\ dOTaken = n
  BY <1>1, dOFree
<1>3. ld'.pc = "sum" /\ ld'.n = n /\ ld' \in [pc : {"sum"}, n : Nat]
  BY <1>1 DEF LoadRole
<1>4. /\ dOLoads = n /\ dOLoads' = n + 1 /\ QLoads' = QLoads /\ LSELoads' = LSELoads
      /\ SumLoads' = SumLoads
  BY <1>1, <1>3 DEF QLoads, LSELoads, dOLoads, SumLoads
<1>5. Pairs' = Pairs /\ Compute' = Compute /\ Reduce' = Reduce
  BY <1>1, SameLaunch
<1>6. LoadRole'
  BY <1>1, <1>3, <1>5 DEF LoadRole
<1>7. \A c \in news : /\ c.to \in {"dO", "V"} /\ c.pair = n + 1 /\ (c.to = "V" => n = 0)
  BY DEF Copy
<1>8. /\ \A to, h, j : to \notin {"dO", "V"} => Flying(to, h, j)' = Flying(to, h, j)
      /\ \A h \in Stage : Flying("dO", h, n + 1)' = 1
      /\ n = 0 => Flying("V", 0, 1)' = 1
      /\ n # 0 => \A j : Flying("V", 0, j)' = Flying("V", 0, j)
  <2>1. \A to, h, j : Copy(to, h, j) \in news => to \in {"dO", "V"} /\ j = n + 1 /\ (to = "V" => n = 0)
    BY <1>7 DEF Copy
  <2>2. \A h \in Stage : Copy("dO", h, n + 1) \in news
    OBVIOUS
  <2>3. n = 0 => Copy("V", 0, 1) \in news
    OBVIOUS
  <2> HIDE DEF news
  <2>4. \A c : c \in inflight' <=> c \in inflight \/ c \in news
    BY <1>1
  <2>5. \A to, h, j : to \notin {"dO", "V"} => Flying(to, h, j)' = Flying(to, h, j)
    BY <2>1, <2>4 DEF Flying
  <2>6. \A h \in Stage : Flying("dO", h, n + 1)' = 1
    BY <2>2, <2>4 DEF Flying
  <2>7. n = 0 => Flying("V", 0, 1)' = 1
    BY <2>3, <2>4 DEF Flying
  <2>8. n # 0 => \A j : Flying("V", 0, j)' = Flying("V", 0, j)
    BY <2>1, <2>4 DEF Flying
  <2> QED BY <2>5, <2>6, <2>7, <2>8
<1>9. /\ \A h : Copy("dO", h, n) \notin inflight /\ Copy("V", 0, n) \notin inflight
      /\ Copy("V", 0, n + 1) \notin inflight
  <2>1. \A h, j : Copy("dO", h, j) \notin inflight
    BY <1>2, <1>4 DEF Working, InFlight, Copy
  <2>2. \A j : Copy("V", 0, j) \notin inflight
    BY <1>2, <1>4 DEF Working, InFlight, Copy
  <2> QED BY <2>1, <2>2
<1>10. Phases(bar[dOFull], n)
  <2>1. dOBytes = 0
    BY <1>4, <1>9 DEF dOBytes, Flying
  <2> QED BY <1>4, <2>1 DEF Working, dOStage
<1>11. /\ Pending(bar'[dOFull], n + 1, Bytes(n)) /\ DOMAIN bar' = BarId
       /\ \A c \in BarId : c # dOFull => bar'[c] = bar[c]
  <2>1. Bytes(n) \in Nat /\ dOFull \in BarId
    BY BarNames DEF Bytes
  <2> QED BY <1>1, <1>10, <2>1, ExpectEffect DEF Typed
<1>12. dOBytes' = Bytes(n) /\ Bytes(n) # 0
  <2>1. Flying("dO", 0, n + 1)' = 1 /\ Flying("dO", 1, n + 1)' = 1
    BY <1>8 DEF Stage
  <2>2. Flying("V", 0, n + 1)' = IF n = 0 THEN 1 ELSE 0
    <3>1. Flying("V", 0, n + 1) = 0
      BY <1>9 DEF Flying
    <3>2. CASE n = 0
      BY <1>8, <3>2
    <3> QED BY <1>8, <3>1, <3>2
  <2>3. dOBytes' = Flying("dO", 0, n + 1)' + Flying("dO", 1, n + 1)' + Flying("V", 0, n + 1)'
    BY <1>4 DEF dOBytes, Flying
  <2> QED BY <2>1, <2>2, <2>3 DEF Bytes
<1>13. dOStage'
  <2>1. \A h \in Stage : Flying("dO", h, dOLoads)' = 1
    <3>1. \A h \in Stage : Flying("dO", h, dOLoads)' = Flying("dO", h, n + 1)'
      BY <1>4 DEF Flying
    <3> QED BY <1>8, <3>1
  <2>2. (dOLoads' > 0 /\ Flying("V", 0, 1)' = 0) => sV'
    <3>1. CASE n = 0
      BY <1>8, <3>1
    <3>2. CASE n # 0
      BY <1>1, <1>4, <1>8, <3>2 DEF Working, dOStage
    <3> QED BY <3>1, <3>2
  <2> QED BY <1>4, <1>11, <1>12, <2>1, <2>2 DEF dOStage
<1>14. \A b \in BarId : b[1] \notin {"dO_full"} => bar'[b] = bar[b]
  BY <1>11, BarNames
<1>15. QStages' /\ Rows' /\ LSELanded' = LSELanded /\ SumLanded' = SumLanded
  <2>1. /\ bar'[LSEFull] = bar[LSEFull] /\ bar'[SumFull] = bar[SumFull]
        /\ \A s \in Stage : bar'[QFull(s)] = bar[QFull(s)]
    BY <1>14, BarNames
  <2>2. QLoads \in Nat
    BY Numbers
  <2> QED BY <1>1, <1>4, <1>8, <2>1, <2>2, QKept, RowsKept DEF Working
<1>16. InFlight'
  <2>1. QTaken' = QTaken /\ dOTaken' = dOTaken
    BY <1>1, SameMma
  <2>2. ASSUME NEW c \in inflight
        PROVE  \/ \E h \in Stage, j \in {QLoads - 1, QLoads} : c = Copy("Q", h, j) /\ j > QTaken
               \/ c = Copy("K", 0, 1) /\ QTaken = 0 /\ QLoads > 0
               \/ c = Copy("LSE", 0, LSELoads) /\ LSELoads > 0
               \/ c = Copy("sum", 0, SumLoads) /\ SumLoads > 0
    BY <1>2, <1>4 DEF Working, InFlight
  <2>3. ASSUME NEW c \in news
        PROVE  \/ \E h \in Stage : c = Copy("dO", h, n + 1) /\ n + 1 > dOTaken
               \/ c = Copy("V", 0, 1) /\ dOTaken = 0 /\ n + 1 = 1
    <3>1. c \in {Copy("dO", h, n + 1) : h \in Stage} \/ (n = 0 /\ c = Copy("V", 0, 1))
      OBVIOUS
    <3> QED BY <1>2, <3>1
  <2> HIDE DEF news
  <2>4. ASSUME NEW c \in inflight'
        PROVE  \/ \E h \in Stage, j \in {QLoads' - 1, QLoads'} : c = Copy("Q", h, j) /\ j > QTaken'
               \/ c = Copy("K", 0, 1) /\ QTaken' = 0 /\ QLoads' > 0
               \/ c = Copy("LSE", 0, LSELoads') /\ LSELoads' > 0
               \/ \E h \in Stage : c = Copy("dO", h, dOLoads') /\ dOLoads' > dOTaken'
               \/ c = Copy("V", 0, 1) /\ dOTaken' = 0 /\ dOLoads' = 1
               \/ c = Copy("sum", 0, SumLoads') /\ SumLoads' > 0
    <3>1. c \in inflight \/ c \in news
      BY <1>1
    <3> QED BY <1>4, <2>1, <2>2, <2>3, <3>1
  <2> QED BY <2>4 DEF InFlight
<1>17. LoadOrder'
  <2>1. Released' = Released /\ tdV' = tdV /\ QTaken' = QTaken /\ dOTaken' = dOTaken /\ cw' = cw
    BY <1>1, SameMma, SameMemory DEF tmem
  <2>2. dOTaken' <= dOLoads' /\ dOLoads' <= tdV' + 1
    BY <1>2, <1>4, <2>1
  <2> QED BY <1>4, <1>5, <2>1, <2>2, SameWarp DEF Working, LoadOrder
<1>18. Still(TensorNames) /\ Still(ComputeNames) /\ Still(ReduceNames)
  BY <1>11, <1>14, LoadStill DEF LoadNames
<1>19. Working'
  BY <1>1, <1>6, <1>13, <1>15, <1>16, <1>17, <1>18, LoadKeeps, Numbers
<1>20. Typed'
  <2>1. sQ' \in [Stage -> [Stage -> Nat]] /\ sdO' \in [Stage -> Nat] /\ sK' \in BOOLEAN /\ sV' \in BOOLEAN
    BY <1>1 DEF Typed
  <2> QED BY <1>1, <1>11, <2>1, TypedFrame
<1> QED BY <1>19, <1>20

\* A copy is complete: all other copies are as they were.
LEMMA OneLess ==
    ASSUME NEW to, NEW half, NEW pair, Copy(to, half, pair) \in inflight,
           inflight' = inflight \ {Copy(to, half, pair)}
    PROVE  /\ \A t, h, j : <<t, h, j>> # <<to, half, pair>> => Flying(t, h, j)' = Flying(t, h, j)
           /\ Flying(to, half, pair)' = 0 /\ Flying(to, half, pair) = 1
<1>1. \A t, h, j : Copy(t, h, j) = Copy(to, half, pair) <=> <<t, h, j>> = <<to, half, pair>>
  BY DEF Copy
<1> QED BY <1>1 DEF Flying

\* What every completed copy leaves alone.
LEMMA LandFrame ==
    ASSUME Typed, HasWork, Working, NEW c \in inflight, Land(c)
    PROVE  /\ inflight' = inflight \ {c} /\ LoadRole' /\ InFlight' /\ LoadOrder'
           /\ QLoads' = QLoads /\ LSELoads' = LSELoads /\ dOLoads' = dOLoads /\ SumLoads' = SumLoads
           /\ UNCHANGED <<launch, sP, sdS, tmem, tc, output, ld, mm, cw, rd>>
<1>1. /\ inflight' = inflight \ {c}
      /\ UNCHANGED <<launch, sP, sdS, tmem, tc, output, ld, mm, cw, rd>>
  BY DEF Land
<1>2. /\ QLoads' = QLoads /\ LSELoads' = LSELoads /\ dOLoads' = dOLoads /\ SumLoads' = SumLoads
      /\ QTaken' = QTaken /\ dOTaken' = dOTaken /\ Released' = Released
      /\ Pairs' = Pairs /\ Compute' = Compute
  BY <1>1, SameLoads, SameMma, SameMemory, SameLaunch DEF tmem
<1>3. LoadRole'
  BY <1>1, <1>2 DEF Working, LoadRole
<1>4. InFlight'
  BY <1>1, <1>2 DEF Working, InFlight
<1>5. LoadOrder'
  BY <1>1, <1>2, SameWarp DEF Working, LoadOrder, tmem
<1> QED BY <1>1, <1>2, <1>3, <1>4, <1>5

LEMMA LandDone ==
    ASSUME Typed, HasWork, Working, NEW c \in inflight, Land(c),
           QStages', dOStage', Rows',
           LSELanded' \in Int, SumLanded' \in Int, LSELanded <= LSELanded', SumLanded <= SumLanded',
           DOMAIN bar' = BarId, \A b \in BarId : b[1] \notin LoadNames => bar'[b] = bar[b],
           sQ' \in [Stage -> [Stage -> Nat]], sdO' \in [Stage -> Nat]
    PROVE  Typed' /\ Working'
<1>1. /\ LoadRole' /\ InFlight' /\ LoadOrder'
      /\ UNCHANGED <<launch, sP, sdS, tmem, tc, output, mm, cw, rd>>
  BY LandFrame
<1>2. Still(TensorNames) /\ Still(ComputeNames) /\ Still(ReduceNames)
  BY LoadStill
<1>3. Working'
  BY <1>1, <1>2, LoadKeeps
<1>4. sK' \in BOOLEAN /\ sV' \in BOOLEAN
  BY DEF Land
<1> QED BY <1>1, <1>3, <1>4, TypedFrame

LEMMA LandQ ==
    ASSUME Typed, HasWork, Working, NEW h \in Stage, NEW j \in {QLoads - 1, QLoads}, j > QTaken,
           Copy("Q", h, j) \in inflight, Land(Copy("Q", h, j))
    PROVE  Typed' /\ Working'
<1> DEFINE c == Copy("Q", h, j)
           s == StageOf(j)
<1>1. /\ c.to = "Q" /\ c.half = h /\ c.pair = j
  BY DEF Copy
<1>2. QLoads \in Nat /\ QTaken \in Nat /\ j \in Nat /\ j > 0
  BY Numbers
<1>3. (j - 1) % 2 = s /\ s \in Stage /\ QFull(s) \in BarId /\ Expected(QFull(s)) = 1
  BY <1>2, BarNames DEF StageOf, Stage
<1> HIDE DEF c, s
<1>4. /\ sQ' = [sQ EXCEPT ![s][h] = j] /\ sdO' = sdO /\ sK' = (sK \/ FALSE) /\ sV' = (sV \/ FALSE)
      /\ sLSE' = sLSE /\ sSum' = sSum /\ CompleteTx(QFull(s))
  BY <1>1, <1>3 DEF Land, c
<1>5. /\ inflight' = inflight \ {c} /\ QLoads' = QLoads /\ LSELoads' = LSELoads
      /\ dOLoads' = dOLoads /\ SumLoads' = SumLoads
  BY LandFrame DEF c
<1>6. /\ \A t, g, i : <<t, g, i>> # <<"Q", h, j>> => Flying(t, g, i)' = Flying(t, g, i)
      /\ Flying("Q", h, j)' = 0 /\ Flying("Q", h, j) = 1
  BY <1>5, OneLess DEF c
<1>7. /\ Flying("Q", 0, j) \in {0, 1} /\ Flying("Q", 1, j) \in {0, 1} /\ Flying("K", 0, j) \in {0, 1}
      /\ Flying("K", 0, j)' = Flying("K", 0, j)
      /\ h = 0 => Flying("Q", 1, j)' = Flying("Q", 1, j)
      /\ h = 1 => Flying("Q", 0, j)' = Flying("Q", 0, j)
  BY <1>6 DEF Flying
<1>8. QBytes(j) \in Nat /\ QBytes(j) > 0 /\ QBytes(j)' = QBytes(j) - 1
  <2>1. h = 0 \/ h = 1
    BY DEF Stage
  <2> QED BY <1>6, <1>7, <2>1 DEF QBytes
<1>9. /\ DOMAIN bar' = BarId
      /\ IF QBytes(j) = 1 THEN Phases(bar'[QFull(s)], PhaseOf(j))
         ELSE Pending(bar'[QFull(s)], PhaseOf(j), QBytes(j) - 1)
      /\ \A b \in BarId : b # QFull(s) => bar'[b] = bar[b]
  <2>1. Pending(bar[QFull(s)], PhaseOf(j), QBytes(j)) /\ PhaseOf(j) \in Nat
    BY <1>2, <1>8 DEF Working, QStages, s, PhaseOf
  <2> QED BY <1>3, <1>4, <1>8, <2>1, LandEffect DEF Typed
<1>10. \A b \in BarId : b[1] \notin {"q_full"} => bar'[b] = bar[b]
  BY <1>3, <1>9, BarNames
<1>11. QStages'
  <2>1. ASSUME NEW i \in {QLoads' - 1, QLoads'}
        PROVE  /\ IF QBytes(i)' = 0 THEN Phases(bar'[QFull(StageOf(i))], PhaseOf(i))
                  ELSE Pending(bar'[QFull(StageOf(i))], PhaseOf(i), QBytes(i)')
               /\ i > 0 => \A g \in Stage : Flying("Q", g, i)' = 0 => sQ'[StageOf(i)][g] = i
    <3>1. /\ IF QBytes(i) = 0 THEN Phases(bar[QFull(StageOf(i))], PhaseOf(i))
             ELSE Pending(bar[QFull(StageOf(i))], PhaseOf(i), QBytes(i))
          /\ i > 0 => \A g \in Stage : Flying("Q", g, i) = 0 => sQ[StageOf(i)][g] = i
      BY <1>5 DEF Working, QStages
    <3>2. CASE i = j
      <4>1. IF QBytes(i)' = 0 THEN Phases(bar'[QFull(StageOf(i))], PhaseOf(i))
            ELSE Pending(bar'[QFull(StageOf(i))], PhaseOf(i), QBytes(i)')
        BY <1>8, <1>9, <3>2 DEF s
      <4>2. ASSUME NEW g \in Stage, Flying("Q", g, i)' = 0 PROVE sQ'[StageOf(i)][g] = i
        <5>1. CASE g = h
          BY <1>3, <1>4, <3>2, <5>1 DEF Typed, s
        <5>2. CASE g # h
          <6>1. sQ'[s][g] = sQ[s][g]
            BY <1>3, <1>4, <5>2 DEF Typed
          <6>2. Flying("Q", g, i) = 0
            BY <1>6, <4>2, <5>2
          <6> QED BY <1>2, <3>1, <3>2, <6>1, <6>2 DEF s
        <5> QED BY <5>1, <5>2
      <4> QED BY <4>1, <4>2
    <3>3. CASE i # j
      <4>1. StageOf(i) \in Stage /\ StageOf(i) # s
        BY <1>2, <1>5, <3>3 DEF StageOf, Stage, s
      <4>2. QBytes(i)' = QBytes(i) /\ \A g : Flying("Q", g, i)' = Flying("Q", g, i)
        BY <1>6, <3>3 DEF QBytes
      <4>3. bar'[QFull(StageOf(i))] = bar[QFull(StageOf(i))]
        <5>1. QFull(StageOf(i)) # QFull(s)
          BY <4>1 DEF QFull
        <5> QED BY <1>9, <4>1, <5>1, BarNames
      <4>4. sQ'[StageOf(i)] = sQ[StageOf(i)]
        BY <1>3, <1>4, <4>1 DEF Typed
      <4> QED BY <3>1, <4>2, <4>3, <4>4
    <3> QED BY <3>2, <3>3
  <2>2. (QLoads' > 0 /\ Flying("K", 0, 1)' = 0) => sK'
    <3>1. (QLoads > 0 /\ Flying("K", 0, 1) = 0) => sK
      BY DEF Working, QStages
    <3>2. sK' = sK
      BY <1>4 DEF Typed
    <3>3. Flying("K", 0, 1)' = Flying("K", 0, 1)
      BY <1>6
    <3> QED BY <1>5, <3>1, <3>2, <3>3
  <2> QED BY <2>1, <2>2 DEF QStages
<1>12. dOStage' /\ Rows' /\ LSELanded' = LSELanded /\ SumLanded' = SumLanded
  <2>1. bar'[dOFull] = bar[dOFull] /\ bar'[LSEFull] = bar[LSEFull] /\ bar'[SumFull] = bar[SumFull]
    BY <1>10, BarNames
  <2>2. sV' = sV
    BY <1>4 DEF Typed
  <2> QED BY <1>4, <1>5, <1>6, <2>1, <2>2, dOKept, RowsKept DEF Working
<1>13. sQ' \in [Stage -> [Stage -> Nat]] /\ sdO' \in [Stage -> Nat]
  BY <1>2, <1>3, <1>4 DEF Typed
<1> QED BY <1>9, <1>10, <1>11, <1>12, <1>13, LandDone, Numbers DEF LoadNames, c

LEMMA LandK ==
    ASSUME Typed, HasWork, Working, QTaken = 0, QLoads > 0,
           Copy("K", 0, 1) \in inflight, Land(Copy("K", 0, 1))
    PROVE  Typed' /\ Working'
<1> DEFINE c == Copy("K", 0, 1)
<1>1. /\ c.to = "K" /\ c.half = 0 /\ c.pair = 1
  BY DEF Copy
<1>2. QLoads \in Nat /\ 1 \in {QLoads - 1, QLoads}
  <2>1. QLoads <= Released + 2 /\ Released \in Nat /\ QLoads \in Nat
    BY Numbers DEF Working, LoadOrder
  <2>2. Released <= dQDone /\ (dQDone <= dSTaken \/ dQDone = 0) /\ dQDone \in Nat
    BY Numbers, MemoryBounds, QueueBounds DEF Working
  <2>3. dSTaken <= mm.n /\ mm.n <= QTaken /\ dSTaken \in Int /\ mm.n \in Nat
    BY Numbers, MmaCounters DEF Working, dSTaken
  <2> QED BY <2>1, <2>2, <2>3
<1>3. StageOf(1) = 0 /\ (1 - 1) % 2 = 0 /\ 0 \in Stage /\ QFull(0) \in BarId /\ Expected(QFull(0)) = 1
  BY BarNames DEF StageOf, Stage
<1> HIDE DEF c
<1>4. /\ sQ' = sQ /\ sdO' = sdO /\ sK' = (sK \/ TRUE) /\ sV' = (sV \/ FALSE)
      /\ sLSE' = sLSE /\ sSum' = sSum /\ CompleteTx(QFull(0))
  BY <1>1, <1>3 DEF Land, c
<1>5. /\ inflight' = inflight \ {c} /\ QLoads' = QLoads /\ LSELoads' = LSELoads
      /\ dOLoads' = dOLoads /\ SumLoads' = SumLoads
  BY LandFrame DEF c
<1>6. /\ \A t, g, i : <<t, g, i>> # <<"K", 0, 1>> => Flying(t, g, i)' = Flying(t, g, i)
      /\ Flying("K", 0, 1)' = 0 /\ Flying("K", 0, 1) = 1
  BY <1>5, OneLess DEF c
<1>7. /\ Flying("Q", 0, 1) \in {0, 1} /\ Flying("Q", 1, 1) \in {0, 1}
      /\ Flying("Q", 0, 1)' = Flying("Q", 0, 1) /\ Flying("Q", 1, 1)' = Flying("Q", 1, 1)
  BY <1>6 DEF Flying
<1>8. QBytes(1) \in Nat /\ QBytes(1) > 0 /\ QBytes(1)' = QBytes(1) - 1
  BY <1>6, <1>7 DEF QBytes
<1>9. /\ DOMAIN bar' = BarId
      /\ IF QBytes(1) = 1 THEN Phases(bar'[QFull(0)], PhaseOf(1))
         ELSE Pending(bar'[QFull(0)], PhaseOf(1), QBytes(1) - 1)
      /\ \A b \in BarId : b # QFull(0) => bar'[b] = bar[b]
  <2>1. Pending(bar[QFull(0)], PhaseOf(1), QBytes(1))
    BY <1>2, <1>3, <1>8 DEF Working, QStages
  <2>2. PhaseOf(1) \in Nat
    BY DEF PhaseOf
  <2> QED BY <1>3, <1>4, <1>8, <2>1, <2>2, LandEffect DEF Typed
<1>10. \A b \in BarId : b[1] \notin {"q_full"} => bar'[b] = bar[b]
  BY <1>3, <1>9, BarNames
<1>11. QStages'
  <2>1. ASSUME NEW i \in {QLoads' - 1, QLoads'}
        PROVE  /\ IF QBytes(i)' = 0 THEN Phases(bar'[QFull(StageOf(i))], PhaseOf(i))
                  ELSE Pending(bar'[QFull(StageOf(i))], PhaseOf(i), QBytes(i)')
               /\ i > 0 => \A g \in Stage : Flying("Q", g, i)' = 0 => sQ'[StageOf(i)][g] = i
    <3>1. /\ IF QBytes(i) = 0 THEN Phases(bar[QFull(StageOf(i))], PhaseOf(i))
             ELSE Pending(bar[QFull(StageOf(i))], PhaseOf(i), QBytes(i))
          /\ i > 0 => \A g \in Stage : Flying("Q", g, i) = 0 => sQ[StageOf(i)][g] = i
      BY <1>5 DEF Working, QStages
    <3>2. \A g : Flying("Q", g, i)' = Flying("Q", g, i)
      BY <1>6
    <3>3. CASE i = 1
      BY <1>3, <1>4, <1>8, <1>9, <3>1, <3>2, <3>3
    <3>4. CASE i # 1
      <4>1. StageOf(i) \in Stage /\ StageOf(i) # 0
        BY <1>2, <1>5, <3>4 DEF StageOf, Stage
      <4>2. QBytes(i)' = QBytes(i)
        BY <1>6, <3>4 DEF QBytes
      <4>3. bar'[QFull(StageOf(i))] = bar[QFull(StageOf(i))]
        <5>1. QFull(StageOf(i)) # QFull(0)
          BY <4>1 DEF QFull
        <5> QED BY <1>9, <4>1, <5>1, BarNames
      <4> QED BY <1>4, <3>1, <3>2, <4>2, <4>3
    <3> QED BY <3>3, <3>4
  <2>2. sK'
    BY <1>4
  <2> QED BY <2>1, <2>2 DEF QStages
<1>12. dOStage' /\ Rows' /\ LSELanded' = LSELanded /\ SumLanded' = SumLanded
  <2>1. bar'[dOFull] = bar[dOFull] /\ bar'[LSEFull] = bar[LSEFull] /\ bar'[SumFull] = bar[SumFull]
    BY <1>10, BarNames
  <2>2. sV' = sV
    BY <1>4 DEF Typed
  <2> QED BY <1>4, <1>5, <1>6, <2>1, <2>2, dOKept, RowsKept DEF Working
<1>13. sQ' \in [Stage -> [Stage -> Nat]] /\ sdO' \in [Stage -> Nat]
  BY <1>4 DEF Typed
<1> QED BY <1>9, <1>10, <1>11, <1>12, <1>13, LandDone, Numbers DEF LoadNames, c

\* A copy to the stage of dO: a half of dO, or V.
LEMMA LanddO ==
    ASSUME Typed, HasWork, Working, NEW to \in {"dO", "V"}, NEW h \in Stage, NEW j \in Nat,
           j = dOLoads, j > 0, to = "V" => h = 0 /\ j = 1,
           Copy(to, h, j) \in inflight, Land(Copy(to, h, j))
    PROVE  Typed' /\ Working'
<1> DEFINE c == Copy(to, h, j)
<1>1. /\ c.to = to /\ c.half = h /\ c.pair = j
  BY DEF Copy
<1> HIDE DEF c
<1>2. /\ sQ' = sQ /\ sdO' = (IF to = "dO" THEN [sdO EXCEPT ![h] = j] ELSE sdO)
      /\ sK' = (sK \/ FALSE) /\ sV' = (sV \/ to = "V")
      /\ sLSE' = sLSE /\ sSum' = sSum /\ CompleteTx(dOFull)
  BY <1>1 DEF Land, c
<1>3. /\ inflight' = inflight \ {c} /\ QLoads' = QLoads /\ LSELoads' = LSELoads
      /\ dOLoads' = dOLoads /\ SumLoads' = SumLoads
  BY LandFrame DEF c
<1>4. /\ \A t, g, i : <<t, g, i>> # <<to, h, j>> => Flying(t, g, i)' = Flying(t, g, i)
      /\ Flying(to, h, j)' = 0 /\ Flying(to, h, j) = 1
  BY <1>3, OneLess DEF c
<1>5. /\ dOBytes = Flying("dO", 0, j) + Flying("dO", 1, j) + Flying("V", 0, j)
      /\ dOBytes' = Flying("dO", 0, j)' + Flying("dO", 1, j)' + Flying("V", 0, j)'
      /\ Flying("dO", 0, j) \in {0, 1} /\ Flying("dO", 1, j) \in {0, 1} /\ Flying("V", 0, j) \in {0, 1}
  BY <1>3 DEF dOBytes, Flying
<1>6. dOBytes \in Nat /\ dOBytes > 0 /\ dOBytes' = dOBytes - 1
  <2>1. h = 0 \/ h = 1
    BY DEF Stage
  <2>2. CASE to = "V"
    BY <1>4, <1>5, <2>2
  <2>3. CASE to = "dO" /\ h = 0
    BY <1>4, <1>5, <2>3
  <2>4. CASE to = "dO" /\ h = 1
    BY <1>4, <1>5, <2>4
  <2> QED BY <2>1, <2>2, <2>3, <2>4
<1>7. /\ DOMAIN bar' = BarId
      /\ IF dOBytes = 1 THEN Phases(bar'[dOFull], j) ELSE Pending(bar'[dOFull], j, dOBytes - 1)
      /\ \A b \in BarId : b # dOFull => bar'[b] = bar[b]
  <2>1. Pending(bar[dOFull], j, dOBytes)
    BY <1>6 DEF Working, dOStage
  <2> QED BY <1>2, <1>6, <2>1, LandEffect, BarNames DEF Typed
<1>8. \A b \in BarId : b[1] \notin {"dO_full"} => bar'[b] = bar[b]
  BY <1>7, BarNames
<1>9. dOStage'
  <2>1. IF dOBytes' = 0 THEN Phases(bar'[dOFull], dOLoads') ELSE Pending(bar'[dOFull], dOLoads', dOBytes')
    BY <1>3, <1>6, <1>7
  <2>2. ASSUME NEW g \in Stage, Flying("dO", g, j)' = 0 PROVE sdO'[g] = j
    <3>1. Flying("dO", g, j) = 0 => sdO[g] = j
      BY DEF Working, dOStage
    <3>2. CASE to = "dO" /\ g = h
      BY <1>2, <3>2 DEF Typed
    <3>3. CASE ~(to = "dO" /\ g = h)
      <4>1. Flying("dO", g, j) = 0
        BY <1>4, <2>2, <3>3
      <4>2. sdO'[g] = sdO[g]
        BY <1>2, <3>3 DEF Typed
      <4> QED BY <3>1, <4>1, <4>2
    <3> QED BY <3>2, <3>3
  <2>3. \A g \in Stage : Flying("dO", g, dOLoads)' = 0 => sdO'[g] = dOLoads'
    <3>1. \A g \in Stage : Flying("dO", g, dOLoads)' = Flying("dO", g, j)'
      BY <1>3 DEF Flying
    <3> QED BY <1>3, <2>2, <3>1
  <2>4. Flying("V", 0, 1)' = 0 => sV'
    <3>1. CASE to = "V"
      BY <1>2, <3>1
    <3>2. CASE to = "dO"
      <4>1. Flying("V", 0, 1)' = Flying("V", 0, 1)
        BY <1>4, <3>2
      <4>2. Flying("V", 0, 1) = 0 => sV
        BY DEF Working, dOStage
      <4>3. sV' = sV
        BY <1>2, <3>2 DEF Typed
      <4> QED BY <4>1, <4>2, <4>3
    <3> QED BY <3>1, <3>2
  <2> QED BY <2>1, <2>3, <2>4 DEF dOStage
<1>10. QStages' /\ Rows' /\ LSELanded' = LSELanded /\ SumLanded' = SumLanded
  <2>1. /\ bar'[LSEFull] = bar[LSEFull] /\ bar'[SumFull] = bar[SumFull]
        /\ \A s \in Stage : bar'[QFull(s)] = bar[QFull(s)]
    BY <1>8, BarNames
  <2>2. sK' = sK /\ QLoads \in Nat
    BY <1>2, Numbers DEF Typed
  <2>3. \A t, g, i : t \notin {"dO", "V"} => Flying(t, g, i)' = Flying(t, g, i)
    BY <1>4
  <2> QED BY <1>2, <1>3, <2>1, <2>2, <2>3, QKept, RowsKept DEF Working
<1>11. sQ' \in [Stage -> [Stage -> Nat]] /\ sdO' \in [Stage -> Nat]
  BY <1>2 DEF Typed
<1> QED BY <1>7, <1>8, <1>9, <1>10, <1>11, LandDone, Numbers DEF LoadNames, c

\* The rows of LSE, and those of sum(O * dO).
LEMMA LandRows ==
    ASSUME Typed, HasWork, Working, NEW to \in {"LSE", "sum"}, NEW j \in Nat,
           j = (IF to = "LSE" THEN LSELoads ELSE SumLoads),
           Copy(to, 0, j) \in inflight, Land(Copy(to, 0, j))
    PROVE  Typed' /\ Working'
<1> DEFINE c == Copy(to, 0, j)
           b0 == IF to = "LSE" THEN LSEFull ELSE SumFull
<1>1. /\ c.to = to /\ c.half = 0 /\ c.pair = j
  BY DEF Copy
<1> HIDE DEF c
<1>2. /\ sQ' = sQ /\ sdO' = sdO /\ sK' = (sK \/ FALSE) /\ sV' = (sV \/ FALSE)
      /\ sLSE' = (IF to = "LSE" THEN j ELSE sLSE) /\ sSum' = (IF to = "sum" THEN j ELSE sSum)
      /\ Arrive({b0})
  BY <1>1 DEF Land, c
<1>3. /\ inflight' = inflight \ {c} /\ QLoads' = QLoads /\ LSELoads' = LSELoads
      /\ dOLoads' = dOLoads /\ SumLoads' = SumLoads
  BY LandFrame DEF c
<1>4. /\ \A t, g, i : <<t, g, i>> # <<to, 0, j>> => Flying(t, g, i)' = Flying(t, g, i)
      /\ Flying(to, 0, j)' = 0 /\ Flying(to, 0, j) = 1
  BY <1>3, OneLess DEF c
<1>5. /\ DOMAIN bar' = BarId /\ bar'[b0] = Arrived(b0)
      /\ \A b \in BarId : b # b0 => bar'[b] = bar[b]
  BY <1>2, ArriveEffect, BarNames
<1>6. \A b \in BarId : b[1] \notin {"lse_full", "sum_full"} => bar'[b] = bar[b]
  BY <1>5, BarNames
<1>7. QStages' /\ dOStage'
  <2>1. bar'[dOFull] = bar[dOFull] /\ \A s \in Stage : bar'[QFull(s)] = bar[QFull(s)]
    BY <1>6, BarNames
  <2>2. sK' = sK /\ sV' = sV /\ QLoads \in Nat
    BY <1>2, Numbers DEF Typed
  <2>3. \A t, g, i : t \notin {"LSE", "sum"} => Flying(t, g, i)' = Flying(t, g, i)
    BY <1>4
  <2> QED BY <1>2, <1>3, <2>1, <2>2, <2>3, QKept, dOKept DEF Working
<1>8. sQ' \in [Stage -> [Stage -> Nat]] /\ sdO' \in [Stage -> Nat]
  BY <1>2 DEF Typed
<1>9. LSELoads \in Nat /\ SumLoads \in Nat
  BY Numbers
<1>10. CASE to = "LSE"
  <2>1. LSELanded = j - 1 /\ LSELanded' = j
    <3>1. Flying("LSE", 0, LSELoads)' = 0
      BY <1>3, <1>4, <1>10 DEF Flying
    <3>2. LSELanded' = LSELoads' - Flying("LSE", 0, LSELoads)'
      BY DEF LSELanded
    <3> QED BY <1>3, <1>4, <1>9, <1>10, <3>1, <3>2 DEF LSELanded
  <2>2. SumLanded' = SumLanded
    BY <1>3, <1>4, <1>10 DEF SumLanded, Flying
  <2>3. Phases(bar'[LSEFull], j)
    <3>1. Phases(bar[LSEFull], LSELanded)
      BY DEF Working, Rows
    <3>2. LSELanded \in Nat
      <4>1. PICK w \in Compute : TRUE
        BY Numbers
      <4>2. LSETaken(w) <= LSELanded /\ LSETaken(w) \in Nat
        BY WarpNumbers DEF Working, ComputeOrder
      <4> QED BY <2>1, <4>2
    <3> QED BY <1>5, <1>10, <2>1, <3>1, <3>2, PhaseArrive, BarNames
  <2>4. bar'[SumFull] = bar[SumFull]
    BY <1>5, <1>10, BarNames
  <2>5. Rows'
    BY <1>2, <1>3, <1>10, <2>1, <2>2, <2>3, <2>4 DEF Working, Rows
  <2>6. /\ LSELanded' \in Int /\ SumLanded' \in Int /\ LSELanded <= LSELanded'
        /\ SumLanded <= SumLanded'
    BY <2>1, <2>2, Numbers
  <2> QED BY <1>5, <1>6, <1>7, <1>8, <2>5, <2>6, LandDone DEF LoadNames, c
<1>11. CASE to = "sum"
  <2>1. SumLanded = j - 1 /\ SumLanded' = j
    <3>1. Flying("sum", 0, SumLoads)' = 0
      BY <1>3, <1>4, <1>11 DEF Flying
    <3>2. SumLanded' = SumLoads' - Flying("sum", 0, SumLoads)'
      BY DEF SumLanded
    <3> QED BY <1>3, <1>4, <1>9, <1>11, <3>1, <3>2 DEF SumLanded
  <2>2. LSELanded' = LSELanded
    BY <1>3, <1>4, <1>11 DEF LSELanded, Flying
  <2>3. Phases(bar'[SumFull], j)
    <3>1. Phases(bar[SumFull], SumLanded)
      BY DEF Working, Rows
    <3>2. SumLanded \in Nat
      <4>1. PICK w \in Compute : TRUE
        BY Numbers
      <4>2. SumTaken(w) <= SumLanded /\ SumTaken(w) \in Nat
        BY WarpNumbers DEF Working, ComputeOrder
      <4> QED BY <2>1, <4>2
    <3> QED BY <1>5, <1>11, <2>1, <3>1, <3>2, PhaseArrive, BarNames
  <2>4. bar'[LSEFull] = bar[LSEFull]
    BY <1>5, <1>11, BarNames
  <2>5. Rows'
    BY <1>2, <1>3, <1>11, <2>1, <2>2, <2>3, <2>4 DEF Working, Rows
  <2>6. /\ LSELanded' \in Int /\ SumLanded' \in Int /\ LSELanded <= LSELanded'
        /\ SumLanded <= SumLanded'
    BY <2>1, <2>2, Numbers
  <2> QED BY <1>5, <1>6, <1>7, <1>8, <2>5, <2>6, LandDone DEF LoadNames, c
<1> QED BY <1>10, <1>11

LEMMA LandStep ==
    ASSUME Typed, HasWork, Working, NEW c \in inflight, Land(c)
    PROVE  Typed' /\ Working'
<1>1. LSELoads \in Nat /\ SumLoads \in Nat /\ dOLoads \in Nat /\ dOTaken \in Nat
  BY Numbers
<1>2. CASE \E h \in Stage, j \in {QLoads - 1, QLoads} : c = Copy("Q", h, j) /\ j > QTaken
  BY <1>2, LandQ
<1>3. CASE c = Copy("K", 0, 1) /\ QTaken = 0 /\ QLoads > 0
  BY <1>3, LandK
<1>4. CASE c = Copy("LSE", 0, LSELoads)
  BY <1>1, <1>4, LandRows
<1>5. CASE c = Copy("sum", 0, SumLoads)
  BY <1>1, <1>5, LandRows
<1>6. CASE \E h \in Stage : c = Copy("dO", h, dOLoads) /\ dOLoads > dOTaken
  <2>1. dOLoads > 0
    BY <1>1, <1>6
  <2> QED BY <1>1, <1>6, <2>1, LanddO
<1>7. CASE c = Copy("V", 0, 1) /\ dOTaken = 0 /\ dOLoads = 1
  BY <1>7, LanddO DEF Stage
<1> QED BY <1>2, <1>3, <1>4, <1>5, <1>6, <1>7 DEF Working, InFlight

-----------------------------------------------------------------------------
(* Steps of a compute warp; x is what its registers become.                *)

WarpRole(x) ==
    /\ x \in [pc : {"alloc", "allocated", "s", "p", "lse", "sync", "sum", "dp", "ds", "dv",
                    "dk", "epilogue", "done"}, n : Nat, p : Nat]
    /\ x.pc \in {"alloc", "allocated"} => x.n = 0
    /\ IF x.pc \in {"dv", "dk", "epilogue", "done"} THEN x.n = Pairs ELSE x.n < Pairs
    /\ x.p = IF x.pc \in {"sync", "sum", "dp", "ds"} THEN x.n + 1 ELSE 0

\* Barriers no wait of another role is about, or only one of the load and the MMA warp.
WarpBars == {TmemAlloc, ComputeSync, PFull, SEmpty, LSEEmpty, dSFull, dPEmpty, SumEmpty,
             EpilogueSync, dKdVEmpty(0), dKdVEmpty(1)}
LEMMA WarpArrive ==
    ASSUME NEW bars \in SUBSET WarpBars, Arrive(bars)
    PROVE  /\ DOMAIN bar' = BarId
           /\ Still(LoadNames) /\ Still(TensorNames) /\ Still(ReduceNames)
           /\ \A b \in bars : bar'[b] = Arrived(b)
           /\ \A b \in BarId : b \notin bars => bar'[b] = bar[b]
<1>1. \A b \in WarpBars : b \in BarId /\ b[1] \notin LoadNames \cup TensorNames \cup ReduceNames
  BY WarpBarNames DEF WarpBars, LoadNames, TensorNames, ReduceNames, Stage
<1>2. bars \in SUBSET BarId
  BY <1>1
<1>3. \A b \in BarId : b[1] \in LoadNames \cup TensorNames \cup ReduceNames => b \notin bars
  BY <1>1
<1> QED BY <1>2, <1>3, ArriveEffect DEF Still

LEMMA WarpRegisters ==
    ASSUME ComputeRole, NEW w \in Compute, NEW x, cw' = [cw EXCEPT ![w] = x]
    PROVE  /\ cw'[w] = x /\ \A v \in Compute : v # w => cw'[v] = cw[v]
           /\ DOMAIN cw' = Compute /\ WarpRole(cw[w])
  BY DEF ComputeRole, WarpRole

LEMMA WarpStep ==
    ASSUME Typed, HasWork, Working, NEW w \in Compute, NEW x, cw' = [cw EXCEPT ![w] = x],
           ComputeUnchanged, WarpRole(x),
           STaken(w)' <= tS, PFreed(w)' <= tdV + 1, LSETaken(w)' <= LSELanded,
           SumTaken(w)' <= SumLanded, dPTaken(w)' <= tdPdQ[2], x.n <= Released + 1,
           x.pc \in {"dk", "epilogue", "done"} => Executed > 5 * Pairs,
           x.pc \in {"epilogue", "done"} => tdK = Pairs,
           PStored(w) <= PStored(w)', cw[w].n <= x.n,
           DOMAIN bar' = BarId, Still(LoadNames), Still(TensorNames), Still(ReduceNames),
           sP' \in [Compute -> Nat], sdS' \in [Compute -> Nat],
           gdV' \in [Compute -> Nat], gdK' \in [Compute -> Nat], freed' \in BOOLEAN,
           ByCompute', Results'
    PROVE  Typed' /\ Working'
<1>1. UNCHANGED <<launch, loaded, tS, tdPdQ, tdK, tdV, tc, ld, mm, rd>>
  BY DEF ComputeUnchanged
<1>2. /\ UNCHANGED <<launch, ld, mm, inflight, sQ, sK, sdO, sV, tS, tdPdQ, tdK, tdV, tc>>
      /\ Compute' = Compute /\ Pairs' = Pairs
  BY <1>1, SameLaunch DEF loaded
<1>3. ComputeRole
  BY DEF Working
<1>4. /\ cw'[w] = x /\ \A v \in Compute : v # w => cw'[v] = cw[v]
      /\ DOMAIN cw' = Compute
  BY <1>3, WarpRegisters
<1>5. Typed'
  BY <1>2 DEF Typed
<1>6. ComputeRole'
  <2>1. \A v \in Compute : WarpRole(cw'[v])
    BY <1>3, <1>4 DEF ComputeRole, WarpRole
  <2>2. cw' = [v \in Compute |-> cw'[v]]
    <3>1. cw = [v \in Compute |-> cw[v]]
      BY <1>3 DEF ComputeRole
    <3> QED BY <3>1
  <2>3. \A v \in Compute :
           cw'[v] \in [pc : {"alloc", "allocated", "s", "p", "lse", "sync", "sum", "dp", "ds",
                             "dv", "dk", "epilogue", "done"}, n : Nat, p : Nat]
    BY <2>1 DEF WarpRole
  <2>4. cw' \in [Compute ->
                   [pc : {"alloc", "allocated", "s", "p", "lse", "sync", "sum", "dp", "ds",
                          "dv", "dk", "epilogue", "done"}, n : Nat, p : Nat]]
    BY <2>2, <2>3, IsFunction
  <2>5. \A v \in Compute :
           /\ cw'[v].pc \in {"alloc", "allocated"} => cw'[v].n = 0
           /\ IF cw'[v].pc \in {"dv", "dk", "epilogue", "done"} THEN cw'[v].n = Pairs
              ELSE cw'[v].n < Pairs
           /\ cw'[v].p = IF cw'[v].pc \in {"sync", "sum", "dp", "ds"} THEN cw'[v].n + 1 ELSE 0
    BY <2>1 DEF WarpRole
  <2> QED BY <1>2, <2>4, <2>5 DEF ComputeRole
<1>7. /\ LSELanded' = LSELanded /\ SumLanded' = SumLanded /\ Released' = Released
      /\ Executed' = Executed
  BY <1>2, SameFlights, SameMemory, SameMma DEF Executed
<1>8. ComputeOrder'
  <2> SUFFICES ASSUME NEW v \in Compute
               PROVE  /\ STaken(v)' <= tS /\ PFreed(v)' <= tdV + 1
                      /\ LSETaken(v)' <= LSELanded /\ SumTaken(v)' <= SumLanded
                      /\ dPTaken(v)' <= tdPdQ[2] /\ cw'[v].n <= Released + 1
                      /\ cw'[v].pc \in {"dk", "epilogue", "done"} => Executed > 5 * Pairs
                      /\ cw'[v].pc \in {"epilogue", "done"} => tdK = Pairs
    BY <1>2, <1>7 DEF ComputeOrder
  <2>1. CASE v = w
    BY <1>4, <2>1
  <2>2. CASE v # w
    <3>1. cw'[v] = cw[v]
      BY <1>4, <2>2
    <3> QED BY <3>1, SameWarp DEF Working, ComputeOrder
  <2> QED BY <2>1, <2>2
<1>9. \A v \in Compute : /\ PStored(v)' \in Nat /\ cw'[v].n \in Nat
                         /\ PStored(v) <= PStored(v)' /\ cw[v].n <= cw'[v].n
  <2>1. \A v \in Compute : PStored(v)' \in Nat /\ cw'[v].n \in Nat
    <3>1. \A v \in Compute : WarpRole(cw'[v])
      BY <1>3, <1>4 DEF ComputeRole, WarpRole
    <3> QED BY <3>1 DEF WarpRole, PStored, After
  <2>2. \A v \in Compute : v # w => PStored(v) = PStored(v)' /\ cw[v].n = cw'[v].n
    BY <1>4, SameWarp
  <2>3. \A v \in Compute : PStored(v) \in Nat /\ cw[v].n \in Nat
    BY WarpNumbers
  <2> QED BY <1>4, <2>1, <2>2, <2>3
<1> QED BY <1>1, <1>5, <1>6, <1>8, <1>9, ComputeKeeps

\* A step that hands nothing on.
LEMMA WarpArrivals ==
    ASSUME ComputeRole, ByCompute, launch' = launch, NEW w \in Compute, NEW x,
           cw' = [cw EXCEPT ![w] = x], Still(ComputeNames),
           PStored(w)' = PStored(w), x.n = cw[w].n,
           x.pc \in {"epilogue", "done"} <=> cw[w].pc \in {"epilogue", "done"}
    PROVE  ByCompute'
<1>1. /\ cw'[w] = x /\ \A v \in Compute : v # w => cw'[v] = cw[v]
  BY WarpRegisters
<1>2. Compute' = Compute
  BY SameLaunch
<1>3. PStores' = PStores
  <2>1. \A v \in Compute : PStored(v)' = PStored(v)
    BY <1>1, SameWarp
  <2> QED BY <1>2, <2>1 DEF PStores
<1>4. dSStores' = dSStores
  <2>1. \A v \in Compute : cw'[v].n = cw[v].n
    BY <1>1
  <2> QED BY <1>2, <2>1 DEF dSStores
<1>5. Epilogues' = Epilogues
  <2>1. \A v \in Compute : cw'[v].pc \in {"epilogue", "done"} <=> cw[v].pc \in {"epilogue", "done"}
    BY <1>1
  <2> QED BY <1>2, <2>1 DEF Epilogues
<1>6. \A b \in {PFull, SEmpty, LSEEmpty, dSFull, dPEmpty, SumEmpty, EpilogueSync} : bar'[b] = bar[b]
  BY WarpBarNames DEF Still, ComputeNames
<1>7. \A b \in {PFull, SEmpty, LSEEmpty} : AllOf(bar'[b], Compute', PStores')
  BY <1>2, <1>3, <1>6 DEF ByCompute
<1>8. \A b \in {dSFull, dPEmpty, SumEmpty} : AllOf(bar'[b], Compute', dSStores')
  BY <1>2, <1>4, <1>6 DEF ByCompute
<1>9. AllOf(bar'[EpilogueSync], Compute', Epilogues')
  BY <1>2, <1>5, <1>6 DEF ByCompute
<1> QED BY <1>7, <1>8, <1>9 DEF ByCompute

\* A wait, before the epilogue.
LEMMA WarpWaits ==
    ASSUME Typed, HasWork, Working, NEW w \in Compute, NEW x, cw' = [cw EXCEPT ![w] = x],
           ComputeUnchanged, UNCHANGED <<sP, sdS, freed, gdK, gdV>>, WarpRole(x),
           cw[w].pc \notin {"dk", "epilogue", "done"}, x.pc \notin {"dk", "epilogue", "done"},
           STaken(w)' <= tS, PFreed(w)' <= tdV + 1, LSETaken(w)' <= LSELanded,
           SumTaken(w)' <= SumLanded, dPTaken(w)' <= tdPdQ[2],
           PStored(w) = PStored(w)', cw[w].n = x.n,
           DOMAIN bar' = BarId, Still(LoadNames), Still(TensorNames), Still(ReduceNames),
           Still(ComputeNames)
    PROVE  Typed' /\ Working'
<1>1. /\ cw'[w] = x /\ \A v \in Compute : v # w => cw'[v] = cw[v]
  BY WarpRegisters DEF Working
<1>2. launch' = launch /\ Compute' = Compute /\ Pairs' = Pairs
  BY SameLaunch DEF ComputeUnchanged
<1>3. ByCompute'
  BY <1>2, WarpArrivals DEF Working
<1>4. Results'
  <2>1. \A v \in Compute : PStored(v)' = PStored(v) /\ cw'[v].n = cw[v].n
    BY <1>1, SameWarp
  <2>2. \A v \in Compute : v # w => cw'[v] = cw[v]
    BY <1>1
  <2>3. ~freed
    BY DEF Working, Results
  <2>4. /\ UNCHANGED <<sP, sdS, gdV, gdK>> /\ ~freed'
    BY <2>3
  <2>5. ASSUME NEW v \in Compute
        PROVE  /\ sP'[v] = PStored(v)' /\ sdS'[v] = cw'[v].n
               /\ cw'[v].pc \in {"dk", "epilogue", "done"} => gdV'[v] = Pairs
               /\ cw'[v].pc \in {"epilogue", "done"} => gdK'[v] = Pairs
    <3>1. /\ sP[v] = PStored(v) /\ sdS[v] = cw[v].n
          /\ cw[v].pc \in {"dk", "epilogue", "done"} => gdV[v] = Pairs
          /\ cw[v].pc \in {"epilogue", "done"} => gdK[v] = Pairs
      BY DEF Working, Results
    <3> QED BY <1>1, <2>1, <2>2, <2>4, <3>1
  <2> QED BY <1>2, <2>4, <2>5 DEF Results
<1>5. cw[w].n <= Released + 1 /\ x.n \in Nat /\ PStored(w)' \in Nat
  BY WarpNumbers DEF Working, ComputeOrder
<1>6. /\ sP' \in [Compute -> Nat] /\ sdS' \in [Compute -> Nat] /\ gdV' \in [Compute -> Nat]
      /\ gdK' \in [Compute -> Nat] /\ freed' \in BOOLEAN
  BY DEF Typed
<1>7. PStored(w) <= PStored(w)' /\ cw[w].n <= x.n /\ x.n <= Released + 1
  BY <1>5
<1> QED BY <1>3, <1>4, <1>6, <1>7, WarpStep

\* How far the registers x are.
LEMMA WarpCounters ==
    ASSUME NEW w, NEW x, cw'[w] = x
    PROVE  /\ STaken(w)' = x.n + (IF x.pc \in {"p", "lse", "sync", "sum", "dp", "ds"} THEN 1 ELSE 0)
           /\ PFreed(w)' = x.n + (IF x.pc \in {"lse", "sync", "sum", "dp", "ds"} THEN 1 ELSE 0)
           /\ LSETaken(w)' = x.n + (IF x.pc \in {"sync", "sum", "dp", "ds"} THEN 1 ELSE 0)
           /\ PStored(w)' = x.n + (IF x.pc \in {"sum", "dp", "ds"} THEN 1 ELSE 0)
           /\ SumTaken(w)' = x.n + (IF x.pc \in {"dp", "ds"} THEN 1 ELSE 0)
           /\ dPTaken(w)' = x.n + (IF x.pc \in {"ds"} THEN 1 ELSE 0)
  BY DEF STaken, PFreed, LSETaken, PStored, SumTaken, dPTaken, After

LEMMA WarpBehind ==
    ASSUME Working, NEW w \in Compute
    PROVE  /\ STaken(w) <= tS /\ PFreed(w) <= tdV + 1 /\ LSETaken(w) <= LSELanded
           /\ SumTaken(w) <= SumLanded /\ dPTaken(w) <= tdPdQ[2] /\ cw[w].n <= Released + 1
           /\ cw[w].pc \in {"dk", "epilogue", "done"} => Executed > 5 * Pairs
           /\ cw[w].pc \in {"epilogue", "done"} => tdK = Pairs
           /\ WarpRole(cw[w]) /\ cw[w].n \in Nat
  BY DEF Working, ComputeOrder, ComputeRole, WarpRole

\* S, the free P, the rows and dP a warp waits for are those of its pair.
LEMMA SWait ==
    ASSUME Typed, HasWork, Working, NEW w \in Compute, cw[w].pc = "s",
           Done(SFull, ConsumerPhase(cw[w].n))
    PROVE  tS = cw[w].n + 1
<1>1. PStored(w) = cw[w].n /\ cw[w].n \in Nat /\ tS \in Nat
  BY WarpBehind, Numbers DEF PStored, After
<1>2. tS = cw[w].n \/ tS = cw[w].n + 1
  BY <1>1, ComputeWindow
<1>3. Phases(bar[SFull], tS)
  BY DEF Working, ByTensorCore
<1> QED BY <1>1, <1>2, <1>3, PhaseWait

LEMMA PFreeWait ==
    ASSUME Typed, HasWork, Working, NEW w \in Compute, cw[w].pc = "p",
           Done(PEmpty, ProducerPhase(cw[w].n))
    PROVE  tdV = cw[w].n
<1>1. PStored(w) = cw[w].n /\ cw[w].n \in Nat /\ tdV \in Nat
  BY WarpBehind, Numbers DEF PStored, After
<1>2. tdV = cw[w].n \/ tdV = cw[w].n - 1
  BY <1>1, ComputeWindow
<1>3. Phases(bar[PEmpty], tdV)
  BY DEF Working, ByTensorCore
<1> QED BY <1>1, <1>2, <1>3, PhaseFree

LEMMA LSEWait ==
    ASSUME Typed, HasWork, Working, NEW w \in Compute, cw[w].pc = "lse",
           Done(LSEFull, ConsumerPhase(cw[w].n))
    PROVE  LSELanded = cw[w].n + 1 /\ LSELoads = cw[w].n + 1
<1>1. /\ PStored(w) = cw[w].n /\ LSETaken(w) = cw[w].n /\ cw[w].n \in Nat
      /\ LSELanded \in Int /\ LSELoads \in Nat
  BY WarpBehind, Numbers DEF PStored, LSETaken, After
<1>2. cw[w].n <= LSELanded /\ LSELanded <= LSELoads /\ LSELoads <= cw[w].n + 1
  BY <1>1, WarpBehind, ComputeWindow, LoadCounters DEF Working
<1>3. Phases(bar[LSEFull], LSELanded) /\ LSELanded \in Nat
  BY <1>1, <1>2 DEF Working, Rows
<1>4. LSELanded = cw[w].n \/ LSELanded = cw[w].n + 1
  BY <1>1, <1>2
<1>5. LSELanded = cw[w].n + 1
  BY <1>1, <1>3, <1>4, PhaseWait
<1> QED BY <1>1, <1>2, <1>5

LEMMA SumWait ==
    ASSUME Typed, HasWork, Working, NEW w \in Compute, cw[w].pc = "sum",
           Done(SumFull, ConsumerPhase(cw[w].n))
    PROVE  SumLanded = cw[w].n + 1
<1>1. SumTaken(w) = cw[w].n /\ cw[w].n \in Nat /\ SumLanded \in Int /\ SumLoads \in Nat
  BY WarpBehind, Numbers DEF SumTaken, After
<1>2. cw[w].n <= SumLanded /\ SumLanded <= SumLoads /\ SumLoads <= cw[w].n + 1
  BY <1>1, WarpBehind, ComputeWindow, LoadCounters DEF Working
<1>3. Phases(bar[SumFull], SumLanded) /\ SumLanded \in Nat
  BY <1>1, <1>2 DEF Working, Rows
<1>4. SumLanded = cw[w].n \/ SumLanded = cw[w].n + 1
  BY <1>1, <1>2
<1> QED BY <1>1, <1>3, <1>4, PhaseWait

LEMMA dPWait ==
    ASSUME Typed, HasWork, Working, NEW w \in Compute, cw[w].pc = "dp",
           Done(dPFull, ConsumerPhase(cw[w].n))
    PROVE  tdPdQ[2] = cw[w].n + 1
<1>1. cw[w].n \in Nat /\ tdPdQ[2] \in Nat
  BY WarpBehind, Numbers
<1>2. tdPdQ[2] = cw[w].n \/ tdPdQ[2] = cw[w].n + 1
  BY <1>1, ComputeWindow
<1>3. Phases(bar[dPFull], tdPdQ[2])
  BY DEF Working, ByTensorCore
<1> QED BY <1>1, <1>2, <1>3, PhaseWait

LEMMA ComputeWaitStep ==
    ASSUME Typed, HasWork, Working, NEW w \in Compute, ComputeWait(w)
    PROVE  Typed' /\ Working'
<1> DEFINE n == cw[w].n
<1>1. ComputeUnchanged /\ UNCHANGED <<sP, sdS, freed, gdK, gdV>>
  BY DEF ComputeWait
<1>2. PICK pc \in {"allocated", "s", "p", "lse", "dp", "ds"} :
        /\ cw' = [cw EXCEPT ![w].pc = pc]
        /\ \/ cw[w].pc = "alloc" /\ pc = "allocated" /\ Arrive({TmemAlloc})
           \/ cw[w].pc = "allocated" /\ pc = "s" /\ bar' = bar
           \/ cw[w].pc = "s" /\ pc = "p" /\ Done(SFull, ConsumerPhase(n)) /\ bar' = bar
           \/ cw[w].pc = "p" /\ pc = "lse" /\ Done(PEmpty, ProducerPhase(n)) /\ bar' = bar
           \/ cw[w].pc = "sum" /\ pc = "dp" /\ Done(SumFull, ConsumerPhase(n)) /\ bar' = bar
           \/ cw[w].pc = "dp" /\ pc = "ds" /\ Done(dPFull, ConsumerPhase(n)) /\ bar' = bar
  BY DEF ComputeWait
<1> DEFINE x == [cw[w] EXCEPT !.pc = pc]
<1>3. WarpRole(cw[w]) /\ n \in Nat
  BY WarpBehind
<1>4. cw' = [cw EXCEPT ![w] = x] /\ x.pc = pc /\ x.n = n /\ WarpRole(x)
  BY <1>2, <1>3 DEF WarpRole
<1>5. /\ DOMAIN bar' = BarId /\ Still(LoadNames) /\ Still(TensorNames) /\ Still(ReduceNames)
      /\ Still(ComputeNames)
  <2>1. CASE bar' = bar
    BY <2>1 DEF Typed, Still
  <2>2. CASE Arrive({TmemAlloc})
    <3>1. {TmemAlloc} \in SUBSET WarpBars
      BY DEF WarpBars
    <3>2. \A b \in BarId : b[1] \in ComputeNames => b \notin {TmemAlloc}
      BY WarpBarNames DEF ComputeNames
    <3> QED BY <2>2, <3>1, <3>2, WarpArrive DEF Still
  <2> QED BY <1>2, <2>1, <2>2
<1> HIDE DEF x
<1>6. cw'[w] = x
  BY <1>4, WarpRegisters DEF Working
<1>7. /\ STaken(w) = n + (IF cw[w].pc \in {"p", "lse", "sync", "sum", "dp", "ds"} THEN 1 ELSE 0)
      /\ PFreed(w) = n + (IF cw[w].pc \in {"lse", "sync", "sum", "dp", "ds"} THEN 1 ELSE 0)
      /\ LSETaken(w) = n + (IF cw[w].pc \in {"sync", "sum", "dp", "ds"} THEN 1 ELSE 0)
      /\ PStored(w) = n + (IF cw[w].pc \in {"sum", "dp", "ds"} THEN 1 ELSE 0)
      /\ SumTaken(w) = n + (IF cw[w].pc \in {"dp", "ds"} THEN 1 ELSE 0)
      /\ dPTaken(w) = n + (IF cw[w].pc \in {"ds"} THEN 1 ELSE 0)
  BY DEF STaken, PFreed, LSETaken, PStored, SumTaken, dPTaken, After
<1>8. /\ STaken(w)' <= tS /\ PFreed(w)' <= tdV + 1 /\ LSETaken(w)' <= LSELanded
      /\ SumTaken(w)' <= SumLanded /\ dPTaken(w)' <= tdPdQ[2] /\ PStored(w)' = PStored(w)
  <2>1. /\ STaken(w) <= tS /\ PFreed(w) <= tdV + 1 /\ LSETaken(w) <= LSELanded
        /\ SumTaken(w) <= SumLanded /\ dPTaken(w) <= tdPdQ[2]
    BY WarpBehind
  <2>2. /\ cw[w].pc = "s" /\ pc = "p" => tS = n + 1
        /\ cw[w].pc = "p" /\ pc = "lse" => tdV = n
        /\ cw[w].pc = "sum" /\ pc = "dp" => SumLanded = n + 1
        /\ cw[w].pc = "dp" /\ pc = "ds" => tdPdQ[2] = n + 1
    BY <1>2, SWait, PFreeWait, SumWait, dPWait
  <2>3. /\ STaken(w)' = n + (IF pc \in {"p", "lse", "sync", "sum", "dp", "ds"} THEN 1 ELSE 0)
        /\ PFreed(w)' = n + (IF pc \in {"lse", "sync", "sum", "dp", "ds"} THEN 1 ELSE 0)
        /\ LSETaken(w)' = n + (IF pc \in {"sync", "sum", "dp", "ds"} THEN 1 ELSE 0)
        /\ PStored(w)' = n + (IF pc \in {"sum", "dp", "ds"} THEN 1 ELSE 0)
        /\ SumTaken(w)' = n + (IF pc \in {"dp", "ds"} THEN 1 ELSE 0)
        /\ dPTaken(w)' = n + (IF pc \in {"ds"} THEN 1 ELSE 0)
    BY <1>4, <1>6, WarpCounters
  <2>4. \/ cw[w].pc = "alloc" /\ pc = "allocated"
        \/ cw[w].pc = "allocated" /\ pc = "s"
        \/ cw[w].pc = "s" /\ pc = "p"
        \/ cw[w].pc = "p" /\ pc = "lse"
        \/ cw[w].pc = "sum" /\ pc = "dp"
        \/ cw[w].pc = "dp" /\ pc = "ds"
    BY <1>2
  <2>5. tS \in Nat /\ tdV \in Nat
    BY Numbers
  <2> HIDE DEF n
  <2> QED BY <1>3, <1>7, <2>1, <2>2, <2>3, <2>4, <2>5
<1>9. cw[w].pc \notin {"dk", "epilogue", "done"} /\ x.pc \notin {"dk", "epilogue", "done"}
  BY <1>2, <1>4
<1> QED BY <1>1, <1>4, <1>5, <1>8, <1>9, WarpWaits

LEMMA ComputePStep ==
    ASSUME Typed, HasWork, Working, NEW w \in Compute, ComputeP(w)
    PROVE  Typed' /\ Working'
<1> DEFINE n == cw[w].n
           x == [pc |-> "sync", n |-> n, p |-> n + 1]
<1>1. /\ ComputeUnchanged /\ UNCHANGED <<sP, sdS, freed, gdK, gdV>> /\ Arrive({ComputeSync})
      /\ cw[w].pc = "lse" /\ Done(LSEFull, ConsumerPhase(n))
  BY DEF ComputeP
<1>2. WarpRole(cw[w]) /\ n \in Nat /\ cw[w] = [pc |-> "lse", n |-> n, p |-> cw[w].p] /\ n < Pairs
  BY <1>1, WarpBehind DEF WarpRole
<1>3. LSELanded = n + 1 /\ LSELoads = n + 1
  BY <1>1, LSEWait
<1>4. tS = n + 1
  <2>1. STaken(w) = n + 1 /\ PStored(w) = n
    BY <1>1, <1>2 DEF STaken, PStored, After
  <2>3. tS \in Nat
    BY Numbers
  <2>2. STaken(w) <= tS /\ tS <= PStored(w) + 1
    BY WarpBehind, ComputeWindow
  <2> QED BY <1>2, <2>1, <2>2, <2>3
<1>5. sLSE = tS
  BY <1>3, <1>4 DEF Working, Rows
<1>6. cw' = [cw EXCEPT ![w] = x]
  <2>1. cw' = [cw EXCEPT ![w] = [[cw[w] EXCEPT !.pc = "sync"] EXCEPT !.p = n + 1]]
    BY <1>4, <1>5 DEF ComputeP, Working, ComputeRole
  <2> HIDE DEF n
  <2>3. cw[w] = [pc |-> "lse", n |-> n, p |-> cw[w].p]
    BY <1>2
  <2>2. [[cw[w] EXCEPT !.pc = "sync"] EXCEPT !.p = n + 1] = [pc |-> "sync", n |-> n, p |-> n + 1]
    <3>1. PICK p : cw[w] = [pc |-> "lse", n |-> n, p |-> p]
      BY <2>3
    <3>2. [cw[w] EXCEPT !.pc = "sync"] = [pc |-> "sync", n |-> n, p |-> p]
      BY <3>1
    <3>3. [[pc |-> "sync", n |-> n, p |-> p] EXCEPT !.p = n + 1]
            = [pc |-> "sync", n |-> n, p |-> n + 1]
      OBVIOUS
    <3> QED BY <3>2, <3>3
  <2> QED BY <2>1, <2>2
<1>7. WarpRole(x) /\ x.n = n /\ x.pc = "sync"
  BY <1>2 DEF WarpRole
<1> HIDE DEF x
<1>8. cw'[w] = x
  BY <1>6, WarpRegisters DEF Working
<1>9. /\ STaken(w)' = n + 1 /\ PFreed(w)' = n + 1 /\ LSETaken(w)' = n + 1
      /\ PStored(w)' = n /\ SumTaken(w)' = n /\ dPTaken(w)' = n
  BY <1>2, <1>7, <1>8, WarpCounters
<1>10. /\ PFreed(w) = n + 1 /\ PStored(w) = n /\ SumTaken(w) = n /\ dPTaken(w) = n
  BY <1>1, <1>2 DEF PFreed, PStored, SumTaken, dPTaken, After
<1>11. /\ STaken(w)' <= tS /\ PFreed(w)' <= tdV + 1 /\ LSETaken(w)' <= LSELanded
       /\ SumTaken(w)' <= SumLanded /\ dPTaken(w)' <= tdPdQ[2] /\ PStored(w)' = PStored(w)
  <2>1. PFreed(w) <= tdV + 1 /\ SumTaken(w) <= SumLanded /\ dPTaken(w) <= tdPdQ[2]
    BY WarpBehind
  <2> QED BY <1>2, <1>3, <1>4, <1>9, <1>10, <2>1
<1>12. /\ DOMAIN bar' = BarId /\ Still(LoadNames) /\ Still(TensorNames) /\ Still(ReduceNames)
       /\ Still(ComputeNames)
  <2>1. {ComputeSync} \in SUBSET WarpBars
    BY DEF WarpBars
  <2>2. \A b \in BarId : b[1] \in ComputeNames => b \notin {ComputeSync}
    BY WarpBarNames DEF ComputeNames
  <2> QED BY <1>1, <2>1, <2>2, WarpArrive DEF Still
<1>13. cw[w].pc \notin {"dk", "epilogue", "done"} /\ x.pc \notin {"dk", "epilogue", "done"}
  BY <1>1, <1>7
<1> QED BY <1>1, <1>6, <1>7, <1>11, <1>12, <1>13, WarpWaits

\* P and dS are handed on by all warps before one of them goes on to its next.
LEMMA StorePOrder ==
    ASSUME Typed, HasWork, Working, NEW w \in Compute, cw[w].pc = "sync"
    PROVE  /\ tS = cw[w].n + 1 /\ PStored(w) = cw[w].n
           /\ \A v \in Compute : PStored(v) >= PStored(w)
<1>1. STaken(w) = cw[w].n + 1 /\ PStored(w) = cw[w].n /\ cw[w].n \in Nat
  BY WarpBehind DEF STaken, PStored, After
<1>2. tS \in Nat /\ STaken(w) <= tS /\ tS <= PStored(w) + 1
  BY Numbers, WarpBehind, ComputeWindow
<1>3. \A v \in Compute : tS <= PStored(v) + 1 /\ PStored(v) \in Nat
  BY ComputeWindow, WarpNumbers
<1>4. tS = cw[w].n + 1
  BY <1>1, <1>2
<1>5. \A v \in Compute : PStored(v) >= PStored(w)
  BY <1>1, <1>3, <1>4
<1> QED BY <1>1, <1>4, <1>5

LEMMA ComputeStorePStep ==
    ASSUME Typed, HasWork, Working, NEW w \in Compute, ComputeStoreP(w)
    PROVE  Typed' /\ Working'
<1> DEFINE n == cw[w].n
           x == [cw[w] EXCEPT !.pc = "sum"]
           bars == {PFull, SEmpty, LSEEmpty}
<1>1. /\ ComputeUnchanged /\ UNCHANGED <<sdS, freed, gdK, gdV>> /\ Arrive(bars)
      /\ cw[w].pc = "sync" /\ sP' = [sP EXCEPT ![w] = cw[w].p] /\ cw' = [cw EXCEPT ![w] = x]
  BY DEF ComputeStoreP
<1>2. WarpRole(cw[w]) /\ n \in Nat /\ n < Pairs /\ cw[w].p = n + 1
  BY <1>1, WarpBehind DEF WarpRole
<1>3. WarpRole(x) /\ x.n = n /\ x.pc = "sum"
  BY <1>1, <1>2 DEF WarpRole
<1> HIDE DEF x
<1>4. cw'[w] = x /\ \A v \in Compute : v # w => cw'[v] = cw[v]
  BY <1>1, WarpRegisters DEF Working
<1>5. launch' = launch /\ Compute' = Compute /\ Pairs' = Pairs
  BY <1>1, SameLaunch DEF ComputeUnchanged
<1>6. /\ STaken(w)' = n + 1 /\ PFreed(w)' = n + 1 /\ LSETaken(w)' = n + 1
      /\ PStored(w)' = n + 1 /\ SumTaken(w)' = n /\ dPTaken(w)' = n
  BY <1>2, <1>3, <1>4, WarpCounters
<1>7. /\ STaken(w) = n + 1 /\ PFreed(w) = n + 1 /\ LSETaken(w) = n + 1
      /\ SumTaken(w) = n /\ dPTaken(w) = n /\ PStored(w) = n
  BY <1>1, <1>2 DEF STaken, PFreed, LSETaken, SumTaken, dPTaken, PStored, After
<1>8. /\ STaken(w)' <= tS /\ PFreed(w)' <= tdV + 1 /\ LSETaken(w)' <= LSELanded
      /\ SumTaken(w)' <= SumLanded /\ dPTaken(w)' <= tdPdQ[2] /\ x.n <= Released + 1
  <2>1. /\ STaken(w) <= tS /\ PFreed(w) <= tdV + 1 /\ LSETaken(w) <= LSELanded
        /\ SumTaken(w) <= SumLanded /\ dPTaken(w) <= tdPdQ[2] /\ n <= Released + 1
    BY WarpBehind
  <2> QED BY <1>3, <1>6, <1>7, <2>1
<1>9. PStored(w) <= PStored(w)' /\ n <= x.n
  BY <1>2, <1>3, <1>6, <1>7
<1>10. /\ DOMAIN bar' = BarId /\ Still(LoadNames) /\ Still(TensorNames) /\ Still(ReduceNames)
       /\ \A b \in bars : bar'[b] = Arrived(b)
       /\ \A b \in BarId : b \notin bars => bar'[b] = bar[b]
  <2>1. bars \in SUBSET WarpBars
    BY DEF WarpBars
  <2> QED BY <1>1, <2>1, WarpArrive
<1>11. ByCompute'
  <2>1. \A v \in Compute : v # w => PStored(v)' = PStored(v)
    BY <1>4, SameWarp
  <2>2. /\ PStores \in [Compute -> Nat] /\ PStores' \in [Compute -> Nat]
        /\ PStores'[w] = PStores[w] + 1 /\ \A v \in Compute : v # w => PStores'[v] = PStores[v]
        /\ \A v \in Compute : PStores[v] >= PStores[w]
    <3>1. \A v \in Compute : PStored(v) \in Nat /\ PStored(v)' \in Nat
      BY <1>2, <1>6, <2>1, WarpNumbers
    <3>2. PStores = [v \in Compute |-> PStored(v)] /\ PStores' = [v \in Compute |-> PStored(v)']
      BY <1>5 DEF PStores
    <3>3. \A v \in Compute : PStored(v) >= PStored(w)
      BY <1>1, StorePOrder
    <3> QED BY <1>2, <1>6, <1>7, <2>1, <3>1, <3>2, <3>3
  <2>3. IsFiniteSet(Compute)
    BY Numbers
  <2>4. ASSUME NEW b \in bars PROVE AllOf(bar'[b], Compute, PStores')
    <3>1. AllOf(bar[b], Compute, PStores) /\ Expected(b) = Cardinality(Compute)
      BY WarpBarNames DEF Working, ByCompute
    <3>2. AllOf(Arrived(b), Compute, PStores')
      BY <2>2, <2>3, <3>1, AllArrive
    <3> QED BY <1>10, <3>2
  <2>5. dSStores' = dSStores /\ Epilogues' = Epilogues
    <3>1. \A v \in Compute : cw'[v].n = cw[v].n
      BY <1>3, <1>4
    <3>2. \A v \in Compute :
            cw'[v].pc \in {"epilogue", "done"} <=> cw[v].pc \in {"epilogue", "done"}
      BY <1>1, <1>3, <1>4
    <3> QED BY <1>5, <3>1, <3>2 DEF dSStores, Epilogues
  <2>6. \A b \in {dSFull, dPEmpty, SumEmpty, EpilogueSync} : bar'[b] = bar[b]
    <3>1. \A b \in {dSFull, dPEmpty, SumEmpty, EpilogueSync} : b \in BarId /\ b \notin bars
      BY WarpBarNames
    <3> QED BY <1>10, <3>1
  <2>7. \A b \in {dSFull, dPEmpty, SumEmpty} : AllOf(bar'[b], Compute, dSStores')
    BY <2>5, <2>6 DEF Working, ByCompute
  <2>8. AllOf(bar'[EpilogueSync], Compute, Epilogues')
    BY <2>5, <2>6 DEF Working, ByCompute
  <2> QED BY <1>5, <2>4, <2>7, <2>8 DEF ByCompute
<1>12. Results'
  <2>1. ~freed /\ UNCHANGED <<sdS, gdV, gdK, freed>>
    BY <1>1 DEF Working, Results
  <2>2. ASSUME NEW v \in Compute
        PROVE  /\ sP'[v] = PStored(v)' /\ sdS'[v] = cw'[v].n
               /\ cw'[v].pc \in {"dk", "epilogue", "done"} => gdV'[v] = Pairs
               /\ cw'[v].pc \in {"epilogue", "done"} => gdK'[v] = Pairs
    <3>1. /\ sP[v] = PStored(v) /\ sdS[v] = cw[v].n
          /\ cw[v].pc \in {"dk", "epilogue", "done"} => gdV[v] = Pairs
          /\ cw[v].pc \in {"epilogue", "done"} => gdK[v] = Pairs
      BY DEF Working, Results
    <3>2. sP \in [Compute -> Nat]
      BY DEF Typed
    <3>3. CASE v = w
      BY <1>1, <1>2, <1>3, <1>4, <1>6, <2>1, <3>1, <3>2, <3>3
    <3>4. CASE v # w
      <4>1. cw'[v] = cw[v] /\ PStored(v)' = PStored(v) /\ sP'[v] = sP[v]
        BY <1>1, <1>4, <3>2, <3>4, SameWarp
      <4> QED BY <2>1, <3>1, <4>1
    <3> QED BY <3>3, <3>4
  <2> QED BY <1>5, <2>1, <2>2 DEF Results
<1>13. /\ sP' \in [Compute -> Nat] /\ sdS' \in [Compute -> Nat] /\ gdV' \in [Compute -> Nat]
       /\ gdK' \in [Compute -> Nat] /\ freed' \in BOOLEAN
  BY <1>1, <1>2 DEF Typed
<1>14. x.pc \notin {"dk", "epilogue", "done"}
  BY <1>3
<1> QED BY <1>1, <1>3, <1>8, <1>9, <1>10, <1>11, <1>12, <1>13, <1>14, WarpStep

\* What dS is formed of.
LEMMA dSOrder ==
    ASSUME Typed, HasWork, Working, NEW w \in Compute, cw[w].pc = "ds",
           Done(dSEmpty, ProducerPhase(cw[w].n))
    PROVE  /\ Released = cw[w].n /\ tdPdQ = <<"dP", cw[w].n + 1>> /\ sSum = cw[w].n + 1
           /\ \A v \in Compute : cw[v].n >= cw[w].n
<1>1. cw[w].n \in Nat /\ dPTaken(w) = cw[w].n + 1 /\ SumTaken(w) = cw[w].n + 1
  BY WarpBehind DEF dPTaken, SumTaken, After
<1>2. Released \in Nat /\ tdPdQ[2] \in Nat /\ dQDone \in Nat /\ SumLoads \in Nat /\ SumLanded \in Int
  BY Numbers
<1>3. Released = cw[w].n
  <2>1. Released = cw[w].n \/ Released = cw[w].n - 1
    BY <1>1, <1>2, ComputeWindow
  <2>2. Phases(bar[dSEmpty], Released)
    BY DEF Working, ByTensorCore
  <2> QED BY <1>1, <1>2, <2>1, <2>2, PhaseFree
<1>4. tdPdQ[2] = cw[w].n + 1
  <2>1. dPTaken(w) <= tdPdQ[2] /\ tdPdQ[2] <= cw[w].n + 1
    BY WarpBehind, ComputeWindow
  <2> QED BY <1>1, <1>2, <2>1
<1>5. tdPdQ[1] = "dP" /\ tdPdQ = <<tdPdQ[1], tdPdQ[2]>>
  <2>1. dQDone <= cw[w].n
    BY ComputeWindow
  <2>2. tdPdQ[1] # "dQ"
    BY <1>1, <1>4, <2>1 DEF dQDone
  <2>3. TensorMemory(Executed)
    BY Numbers
  <2>4. CASE \E i \in 1 .. Pairs : DuringPair(Executed, i)
    BY <2>2, <2>4 DEF DuringPair, Memory
  <2>5. CASE tdPdQ = <<"none", 0>>
    BY <1>1, <1>4, <2>5
  <2> QED BY <2>3, <2>4, <2>5 DEF TensorMemory, Memory
<1>6. sSum = cw[w].n + 1
  <2>1. SumTaken(w) <= SumLanded /\ SumLanded <= SumLoads /\ SumLoads <= cw[w].n + 1
    BY WarpBehind, ComputeWindow, LoadCounters DEF Working
  <2>2. SumLanded = SumLoads /\ SumLoads = cw[w].n + 1
    BY <1>1, <1>2, <2>1
  <2> QED BY <2>2 DEF Working, Rows
<1>7. \A v \in Compute : cw[v].n >= cw[w].n
  <2>1. \A v \in Compute : tdPdQ[2] <= cw[v].n + 1 /\ cw[v].n \in Nat
    BY ComputeWindow, WarpNumbers
  <2> QED BY <1>1, <1>4, <2>1
<1> QED BY <1>3, <1>4, <1>5, <1>6, <1>7

LEMMA ComputedSStep ==
    ASSUME Typed, HasWork, Working, NEW w \in Compute, ComputedS(w)
    PROVE  Typed' /\ Working'
<1> DEFINE n == cw[w].n
           x == [pc |-> IF n + 1 < Pairs THEN "s" ELSE "dv", n |-> n + 1, p |-> 0]
           bars == {dPEmpty, dSFull, SumEmpty}
<1>1. /\ ComputeUnchanged /\ UNCHANGED <<sP, freed, gdK, gdV>> /\ Arrive(bars)
      /\ cw[w].pc = "ds" /\ Done(dSEmpty, ProducerPhase(n)) /\ cw' = [cw EXCEPT ![w] = x]
  BY DEF ComputedS
<1>2. WarpRole(cw[w]) /\ n \in Nat /\ n < Pairs /\ cw[w].p = n + 1 /\ Pairs \in Nat
  BY <1>1, WarpBehind, Numbers DEF WarpRole
<1>3. /\ Released = n /\ tdPdQ = <<"dP", n + 1>> /\ sSum = n + 1
      /\ \A v \in Compute : cw[v].n >= n
  BY <1>1, dSOrder
<1>4. sdS' = [sdS EXCEPT ![w] = n + 1]
  BY <1>2, <1>3 DEF ComputedS
<1>5. WarpRole(x) /\ x.n = n + 1 /\ x.pc \in {"s", "dv"}
  <2> HIDE DEF n
  <2> QED BY <1>2 DEF WarpRole
<1> HIDE DEF x
<1>6. cw'[w] = x /\ \A v \in Compute : v # w => cw'[v] = cw[v]
  BY <1>1, WarpRegisters DEF Working
<1>7. launch' = launch /\ Compute' = Compute /\ Pairs' = Pairs
  BY <1>1, SameLaunch DEF ComputeUnchanged
<1>8. /\ STaken(w)' = n + 1 /\ PFreed(w)' = n + 1 /\ LSETaken(w)' = n + 1
      /\ PStored(w)' = n + 1 /\ SumTaken(w)' = n + 1 /\ dPTaken(w)' = n + 1
  BY <1>2, <1>5, <1>6, WarpCounters
<1>9. /\ STaken(w) = n + 1 /\ PFreed(w) = n + 1 /\ LSETaken(w) = n + 1
      /\ SumTaken(w) = n + 1 /\ dPTaken(w) = n + 1 /\ PStored(w) = n + 1
  BY <1>1, <1>2 DEF STaken, PFreed, LSETaken, SumTaken, dPTaken, PStored, After
<1>10. /\ STaken(w)' <= tS /\ PFreed(w)' <= tdV + 1 /\ LSETaken(w)' <= LSELanded
       /\ SumTaken(w)' <= SumLanded /\ dPTaken(w)' <= tdPdQ[2] /\ x.n <= Released + 1
  <2>1. /\ STaken(w) <= tS /\ PFreed(w) <= tdV + 1 /\ LSETaken(w) <= LSELanded
        /\ SumTaken(w) <= SumLanded /\ dPTaken(w) <= tdPdQ[2]
    BY WarpBehind
  <2> QED BY <1>2, <1>3, <1>5, <1>8, <1>9, <2>1
<1>11. PStored(w) <= PStored(w)' /\ n <= x.n
  BY <1>2, <1>5, <1>8, <1>9
<1>12. /\ DOMAIN bar' = BarId /\ Still(LoadNames) /\ Still(TensorNames) /\ Still(ReduceNames)
       /\ \A b \in bars : bar'[b] = Arrived(b)
       /\ \A b \in BarId : b \notin bars => bar'[b] = bar[b]
  <2>1. bars \in SUBSET WarpBars
    BY DEF WarpBars
  <2> QED BY <1>1, <2>1, WarpArrive
<1>13. ByCompute'
  <2>1. \A v \in Compute : v # w => cw'[v].n = cw[v].n /\ PStored(v)' = PStored(v)
    BY <1>6, SameWarp
  <2>2. /\ dSStores \in [Compute -> Nat] /\ dSStores' \in [Compute -> Nat]
        /\ dSStores'[w] = dSStores[w] + 1
        /\ \A v \in Compute : v # w => dSStores'[v] = dSStores[v]
        /\ \A v \in Compute : dSStores[v] >= dSStores[w]
    <3>1. \A v \in Compute : cw[v].n \in Nat
      BY WarpNumbers
    <3>2. \A v \in Compute : cw'[v].n \in Nat
      BY <1>2, <1>5, <1>6, <2>1, <3>1
    <3>3. dSStores = [v \in Compute |-> cw[v].n] /\ dSStores' = [v \in Compute |-> cw'[v].n]
      BY <1>7 DEF dSStores
    <3> QED BY <1>2, <1>3, <1>5, <1>6, <2>1, <3>1, <3>2, <3>3
  <2>3. IsFiniteSet(Compute)
    BY Numbers
  <2>4. ASSUME NEW b \in bars PROVE AllOf(bar'[b], Compute, dSStores')
    <3>1. AllOf(bar[b], Compute, dSStores) /\ Expected(b) = Cardinality(Compute)
      BY WarpBarNames DEF Working, ByCompute
    <3>2. AllOf(Arrived(b), Compute, dSStores')
      BY <2>2, <2>3, <3>1, AllArrive
    <3> QED BY <1>12, <3>2
  <2>5. PStores' = PStores /\ Epilogues' = Epilogues
    <3>1. \A v \in Compute : PStored(v)' = PStored(v)
      BY <1>8, <1>9, <2>1
    <3>2. \A v \in Compute :
            cw'[v].pc \in {"epilogue", "done"} <=> cw[v].pc \in {"epilogue", "done"}
      BY <1>1, <1>5, <1>6
    <3> QED BY <1>7, <3>1, <3>2 DEF PStores, Epilogues
  <2>6. \A b \in {PFull, SEmpty, LSEEmpty, EpilogueSync} : bar'[b] = bar[b]
    <3>1. \A b \in {PFull, SEmpty, LSEEmpty, EpilogueSync} : b \in BarId /\ b \notin bars
      BY WarpBarNames
    <3> QED BY <1>12, <3>1
  <2>7. \A b \in {PFull, SEmpty, LSEEmpty} : AllOf(bar'[b], Compute, PStores')
    BY <2>5, <2>6 DEF Working, ByCompute
  <2>8. AllOf(bar'[EpilogueSync], Compute, Epilogues')
    BY <2>5, <2>6 DEF Working, ByCompute
  <2> QED BY <1>7, <2>4, <2>7, <2>8 DEF ByCompute
<1>14. Results'
  <2>1. ~freed /\ UNCHANGED <<sP, gdV, gdK, freed>>
    BY <1>1 DEF Working, Results
  <2>2. ASSUME NEW v \in Compute
        PROVE  /\ sP'[v] = PStored(v)' /\ sdS'[v] = cw'[v].n
               /\ cw'[v].pc \in {"dk", "epilogue", "done"} => gdV'[v] = Pairs
               /\ cw'[v].pc \in {"epilogue", "done"} => gdK'[v] = Pairs
    <3>1. /\ sP[v] = PStored(v) /\ sdS[v] = cw[v].n
          /\ cw[v].pc \in {"dk", "epilogue", "done"} => gdV[v] = Pairs
          /\ cw[v].pc \in {"epilogue", "done"} => gdK[v] = Pairs
      BY DEF Working, Results
    <3>2. sdS \in [Compute -> Nat]
      BY DEF Typed
    <3>3. CASE v = w
      BY <1>4, <1>5, <1>6, <1>8, <1>9, <2>1, <3>1, <3>2, <3>3
    <3>4. CASE v # w
      <4>1. cw'[v] = cw[v] /\ PStored(v)' = PStored(v) /\ sdS'[v] = sdS[v]
        BY <1>4, <1>6, <3>2, <3>4, SameWarp
      <4> QED BY <2>1, <3>1, <4>1
    <3> QED BY <3>3, <3>4
  <2> QED BY <1>7, <2>1, <2>2 DEF Results
<1>15. /\ sP' \in [Compute -> Nat] /\ sdS' \in [Compute -> Nat] /\ gdV' \in [Compute -> Nat]
       /\ gdK' \in [Compute -> Nat] /\ freed' \in BOOLEAN
  BY <1>1, <1>2, <1>4 DEF Typed
<1>16. x.pc \notin {"dk", "epilogue", "done"}
  BY <1>5
<1> QED BY <1>1, <1>5, <1>10, <1>11, <1>12, <1>13, <1>14, <1>15, <1>16, WarpStep

\* dV is complete, and dK is.
LEMMA dVWait ==
    ASSUME Typed, HasWork, Working, Done(dKdVFull(0), ConsumerPhase2(0))
    PROVE  Executed > 5 * Pairs /\ tdV = Pairs
<1>1. Pairs \in Nat /\ Executed \in Nat /\ TensorMemory(Executed) /\ Pairs >= 1
  BY Numbers
<1>2. Executed > 5 * Pairs
  <2>1. Phases(bar[dKdVFull(0)], IF Executed > 5 * Pairs THEN 1 ELSE 0)
    BY DEF Working, ByTensorCore
  <2> QED BY <2>1 DEF Phases, Done, ConsumerPhase2
<1>3. PICK i \in 1 .. Pairs : DuringPair(Executed, i)
  BY <1>1, <1>2 DEF TensorMemory
<1> QED BY <1>1, <1>2, <1>3 DEF DuringPair, Memory

LEMMA dKWait ==
    ASSUME Typed, HasWork, Working, Done(dKdVFull(1), ConsumerPhase2(1))
    PROVE  tdK = Pairs
<1>1. Phases(bar[dKdVFull(1)], IF tdK = Pairs THEN 1 ELSE 0)
  BY DEF Working, ByTensorCore
<1> QED BY <1>1 DEF Phases, Done, ConsumerPhase2

LEMMA ComputeAddStep ==
    ASSUME Typed, HasWork, Working, NEW w \in Compute, ComputeAdd(w)
    PROVE  Typed' /\ Working'
<1> DEFINE n == cw[w].n
<1>1. /\ ComputeUnchanged /\ UNCHANGED <<sP, sdS, freed>> /\ cw[w].pc \in {"dv", "dk"}
      /\ launch' = launch /\ Compute' = Compute /\ Pairs' = Pairs
  BY SameLaunch DEF ComputeAdd, ComputeUnchanged
<1>2. WarpRole(cw[w]) /\ n = Pairs /\ cw[w].p = 0 /\ Pairs \in Nat
  BY <1>1, WarpBehind, Numbers DEF WarpRole
<1>3. ~freed
  BY <1>1 DEF Working, Results
<1>4. ASSUME NEW x, cw' = [cw EXCEPT ![w] = x], x.pc \in {"dk", "epilogue"}, x.n = n
      PROVE  /\ cw'[w] = x /\ \A v \in Compute : v # w => cw'[v] = cw[v]
             /\ STaken(w)' <= tS /\ PFreed(w)' <= tdV + 1 /\ LSETaken(w)' <= LSELanded
             /\ SumTaken(w)' <= SumLanded /\ dPTaken(w)' <= tdPdQ[2] /\ x.n <= Released + 1
             /\ PStored(w)' = PStored(w)
             /\ \A v \in Compute : PStored(v)' = PStored(v) /\ cw'[v].n = cw[v].n
  <2>1. cw'[w] = x /\ \A v \in Compute : v # w => cw'[v] = cw[v]
    BY <1>4, WarpRegisters DEF Working
  <2>2. /\ STaken(w)' = n /\ PFreed(w)' = n /\ LSETaken(w)' = n
        /\ PStored(w)' = n /\ SumTaken(w)' = n /\ dPTaken(w)' = n
    BY <1>2, <1>4, <2>1, WarpCounters
  <2>3. /\ STaken(w) = n /\ PFreed(w) = n /\ LSETaken(w) = n
        /\ SumTaken(w) = n /\ dPTaken(w) = n /\ PStored(w) = n
    BY <1>1, <1>2 DEF STaken, PFreed, LSETaken, SumTaken, dPTaken, PStored, After
  <2>4. /\ STaken(w) <= tS /\ PFreed(w) <= tdV + 1 /\ LSETaken(w) <= LSELanded
        /\ SumTaken(w) <= SumLanded /\ dPTaken(w) <= tdPdQ[2] /\ n <= Released + 1
    BY WarpBehind
  <2>5. \A v \in Compute : PStored(v)' = PStored(v) /\ cw'[v].n = cw[v].n
    BY <1>4, <2>1, <2>2, <2>3, SameWarp
  <2> QED BY <1>4, <2>1, <2>2, <2>3, <2>4, <2>5
<1>5. sP' \in [Compute -> Nat] /\ sdS' \in [Compute -> Nat] /\ freed' \in BOOLEAN
  BY <1>1 DEF Typed
<1>6. CASE cw[w].pc = "dv"
  <2> DEFINE x == [cw[w] EXCEPT !.pc = "dk"]
  <2>1. /\ Done(dKdVFull(0), ConsumerPhase2(0)) /\ gdV' = [gdV EXCEPT ![w] = tdV] /\ gdK' = gdK
        /\ Arrive({dKdVEmpty(0)}) /\ cw' = [cw EXCEPT ![w] = x]
    BY <1>6 DEF ComputeAdd
  <2>2. Executed > 5 * Pairs /\ tdV = Pairs
    BY <2>1, dVWait
  <2>3. WarpRole(x) /\ x.n = n /\ x.pc = "dk"
    BY <1>2 DEF WarpRole
  <2> HIDE DEF x
  <2>4. /\ DOMAIN bar' = BarId /\ Still(LoadNames) /\ Still(TensorNames) /\ Still(ReduceNames)
        /\ Still(ComputeNames)
    <3>1. {dKdVEmpty(0)} \in SUBSET WarpBars
      BY DEF WarpBars
    <3>2. \A b \in BarId : b[1] \in ComputeNames => b \notin {dKdVEmpty(0)}
      BY WarpBarNames DEF ComputeNames, Stage
    <3> QED BY <2>1, <3>1, <3>2, WarpArrive DEF Still
  <2>5. /\ cw'[w] = x /\ \A v \in Compute : v # w => cw'[v] = cw[v]
        /\ STaken(w)' <= tS /\ PFreed(w)' <= tdV + 1 /\ LSETaken(w)' <= LSELanded
        /\ SumTaken(w)' <= SumLanded /\ dPTaken(w)' <= tdPdQ[2] /\ x.n <= Released + 1
        /\ PStored(w)' = PStored(w)
        /\ \A v \in Compute : PStored(v)' = PStored(v) /\ cw'[v].n = cw[v].n
    BY <1>4, <2>1, <2>3
  <2>6. x.pc \in {"epilogue", "done"} <=> cw[w].pc \in {"epilogue", "done"}
    BY <1>6, <2>3
  <2>7. ByCompute'
    BY <1>1, <2>1, <2>3, <2>4, <2>5, <2>6, WarpArrivals DEF Working
  <2>8. Results'
    <3>1. ASSUME NEW v \in Compute
          PROVE  /\ sP'[v] = PStored(v)' /\ sdS'[v] = cw'[v].n
                 /\ cw'[v].pc \in {"dk", "epilogue", "done"} => gdV'[v] = Pairs
                 /\ cw'[v].pc \in {"epilogue", "done"} => gdK'[v] = Pairs
      <4>1. /\ sP[v] = PStored(v) /\ sdS[v] = cw[v].n
            /\ cw[v].pc \in {"dk", "epilogue", "done"} => gdV[v] = Pairs
            /\ cw[v].pc \in {"epilogue", "done"} => gdK[v] = Pairs
        BY DEF Working, Results
      <4>2. gdV \in [Compute -> Nat]
        BY DEF Typed
      <4>3. sP'[v] = PStored(v)' /\ sdS'[v] = cw'[v].n
        BY <1>1, <2>5, <4>1
      <4>4. CASE v = w
        BY <2>1, <2>2, <2>3, <2>5, <4>2, <4>3, <4>4
      <4>5. CASE v # w
        <5>1. cw'[v] = cw[v] /\ gdV'[v] = gdV[v] /\ gdK'[v] = gdK[v]
          BY <2>1, <2>5, <4>2, <4>5
        <5> QED BY <4>1, <4>3, <5>1
      <4> QED BY <4>4, <4>5
    <3> QED BY <1>1, <1>3, <3>1 DEF Results
  <2>9. gdV' \in [Compute -> Nat] /\ gdK' \in [Compute -> Nat]
    BY <2>1, <2>2, <1>2 DEF Typed
  <2>10. PStored(w) <= PStored(w)' /\ n <= x.n
    BY <1>2, <2>3, <2>5, WarpNumbers
  <2>11. x.pc \notin {"epilogue", "done"}
    BY <2>3
  <2> QED BY <1>1, <1>5, <2>1, <2>2, <2>3, <2>4, <2>5, <2>7, <2>8, <2>9, <2>10, <2>11, WarpStep
<1>7. CASE cw[w].pc = "dk"
  <2> DEFINE x == [cw[w] EXCEPT !.pc = "epilogue"]
             bars == {dKdVEmpty(1), EpilogueSync}
  <2>1. /\ Done(dKdVFull(1), ConsumerPhase2(1)) /\ gdK' = [gdK EXCEPT ![w] = tdK] /\ gdV' = gdV
        /\ Arrive(bars) /\ cw' = [cw EXCEPT ![w] = x]
    BY <1>7 DEF ComputeAdd
  <2>2. tdK = Pairs /\ Executed > 5 * Pairs
    BY <1>7, <2>1, dKWait, WarpBehind
  <2>3. WarpRole(x) /\ x.n = n /\ x.pc = "epilogue"
    BY <1>2 DEF WarpRole
  <2> HIDE DEF x
  <2>4. /\ DOMAIN bar' = BarId /\ Still(LoadNames) /\ Still(TensorNames) /\ Still(ReduceNames)
        /\ bar'[EpilogueSync] = Arrived(EpilogueSync)
        /\ \A b \in {PFull, SEmpty, LSEEmpty, dSFull, dPEmpty, SumEmpty} : bar'[b] = bar[b]
    <3>1. bars \in SUBSET WarpBars
      BY DEF WarpBars
    <3>2. \A b \in {PFull, SEmpty, LSEEmpty, dSFull, dPEmpty, SumEmpty} :
             b \in BarId /\ b \notin bars
      BY WarpBarNames DEF Stage
    <3> QED BY <2>1, <3>1, <3>2, WarpArrive
  <2>5. /\ cw'[w] = x /\ \A v \in Compute : v # w => cw'[v] = cw[v]
        /\ STaken(w)' <= tS /\ PFreed(w)' <= tdV + 1 /\ LSETaken(w)' <= LSELanded
        /\ SumTaken(w)' <= SumLanded /\ dPTaken(w)' <= tdPdQ[2] /\ x.n <= Released + 1
        /\ PStored(w)' = PStored(w)
        /\ \A v \in Compute : PStored(v)' = PStored(v) /\ cw'[v].n = cw[v].n
    BY <1>4, <2>1, <2>3
  <2>6. ByCompute'
    <3>1. PStores' = PStores /\ dSStores' = dSStores
      BY <1>1, <2>5 DEF PStores, dSStores
    <3>2. /\ Epilogues \in [Compute -> Nat] /\ Epilogues' \in [Compute -> Nat]
          /\ Epilogues'[w] = Epilogues[w] + 1
          /\ \A v \in Compute : v # w => Epilogues'[v] = Epilogues[v]
          /\ \A v \in Compute : Epilogues[v] >= Epilogues[w]
      <4>1. Epilogues' = [v \in Compute |-> IF cw'[v].pc \in {"epilogue", "done"} THEN 1 ELSE 0]
        BY <1>1 DEF Epilogues
      <4> QED BY <1>7, <2>3, <2>5, <4>1 DEF Epilogues
    <3>3. AllOf(bar[EpilogueSync], Compute, Epilogues) /\ Expected(EpilogueSync) = Cardinality(Compute)
      BY WarpBarNames DEF Working, ByCompute
    <3>4. IsFiniteSet(Compute)
      BY Numbers
    <3>5. AllOf(bar'[EpilogueSync], Compute, Epilogues')
      BY <2>4, <3>2, <3>3, <3>4, AllArrive
    <3>6. \A b \in {PFull, SEmpty, LSEEmpty} : AllOf(bar'[b], Compute, PStores')
      BY <2>4, <3>1 DEF Working, ByCompute
    <3>7. \A b \in {dSFull, dPEmpty, SumEmpty} : AllOf(bar'[b], Compute, dSStores')
      BY <2>4, <3>1 DEF Working, ByCompute
    <3> QED BY <1>1, <3>5, <3>6, <3>7 DEF ByCompute
  <2>7. Results'
    <3>1. ASSUME NEW v \in Compute
          PROVE  /\ sP'[v] = PStored(v)' /\ sdS'[v] = cw'[v].n
                 /\ cw'[v].pc \in {"dk", "epilogue", "done"} => gdV'[v] = Pairs
                 /\ cw'[v].pc \in {"epilogue", "done"} => gdK'[v] = Pairs
      <4>1. /\ sP[v] = PStored(v) /\ sdS[v] = cw[v].n
            /\ cw[v].pc \in {"dk", "epilogue", "done"} => gdV[v] = Pairs
            /\ cw[v].pc \in {"epilogue", "done"} => gdK[v] = Pairs
        BY DEF Working, Results
      <4>2. gdK \in [Compute -> Nat]
        BY DEF Typed
      <4>3. sP'[v] = PStored(v)' /\ sdS'[v] = cw'[v].n
        BY <1>1, <2>5, <4>1
      <4>4. CASE v = w
        BY <1>7, <2>1, <2>2, <2>3, <2>5, <4>1, <4>2, <4>3, <4>4
      <4>5. CASE v # w
        <5>1. cw'[v] = cw[v] /\ gdV'[v] = gdV[v] /\ gdK'[v] = gdK[v]
          BY <2>1, <2>5, <4>2, <4>5
        <5> QED BY <4>1, <4>3, <5>1
      <4> QED BY <4>4, <4>5
    <3> QED BY <1>1, <1>3, <3>1 DEF Results
  <2>8. gdV' \in [Compute -> Nat] /\ gdK' \in [Compute -> Nat]
    BY <2>1, <2>2, <1>2 DEF Typed
  <2>9. PStored(w) <= PStored(w)' /\ n <= x.n
    BY <1>2, <2>3, <2>5, WarpNumbers
  <2> QED BY <1>1, <1>5, <2>1, <2>2, <2>3, <2>4, <2>5, <2>6, <2>7, <2>8, <2>9, WarpStep
<1> QED BY <1>1, <1>6, <1>7

\* Tensor memory is freed when all have met.
LEMMA ComputeFreeStep ==
    ASSUME Typed, HasWork, Working, NEW w \in Compute, ComputeFree(w)
    PROVE  Typed' /\ Working'
<1> DEFINE n == cw[w].n
           x == [cw[w] EXCEPT !.pc = "done"]
<1>1. /\ ComputeUnchanged /\ UNCHANGED <<bar, sP, sdS, gdK, gdV>> /\ cw[w].pc = "epilogue"
      /\ launch' = launch /\ Compute' = Compute /\ Pairs' = Pairs
      /\ Done(EpilogueSync, 0) /\ freed' \in BOOLEAN /\ cw' = [cw EXCEPT ![w] = x]
  BY SameLaunch DEF ComputeFree, ComputeUnchanged, Typed
<1>2. WarpRole(cw[w]) /\ n = Pairs /\ Pairs \in Nat
  BY <1>1, WarpBehind, Numbers DEF WarpRole
<1>3. WarpRole(x) /\ x.n = n /\ x.pc = "done"
  BY <1>1, <1>2 DEF WarpRole
<1> HIDE DEF x
<1>4. cw'[w] = x /\ \A v \in Compute : v # w => cw'[v] = cw[v]
  BY <1>1, WarpRegisters DEF Working
<1>5. \A v \in Compute : cw[v].pc \in {"epilogue", "done"}
  <2>1. Epilogues \in [Compute -> Nat] /\ AllOf(bar[EpilogueSync], Compute, Epilogues)
    BY ArrivalTypes DEF Working, ByCompute
  <2>2. Done(EpilogueSync, ConsumerPhase(0))
    BY <1>1 DEF ConsumerPhase
  <2>3. \A v \in Compute : Epilogues[v] = 0 \/ Epilogues[v] = 0 + 1
    BY DEF Epilogues
  <2>4. \A v \in Compute : Epilogues[v] = 0 + 1
    BY <2>1, <2>2, <2>3, AllWait
  <2> QED BY <2>4 DEF Epilogues
<1>6. /\ STaken(w)' = n /\ PFreed(w)' = n /\ LSETaken(w)' = n
      /\ PStored(w)' = n /\ SumTaken(w)' = n /\ dPTaken(w)' = n
  BY <1>2, <1>3, <1>4, WarpCounters
<1>7. /\ STaken(w) = n /\ PFreed(w) = n /\ LSETaken(w) = n
      /\ SumTaken(w) = n /\ dPTaken(w) = n /\ PStored(w) = n
  BY <1>1, <1>2 DEF STaken, PFreed, LSETaken, SumTaken, dPTaken, PStored, After
<1>8. /\ STaken(w)' <= tS /\ PFreed(w)' <= tdV + 1 /\ LSETaken(w)' <= LSELanded
      /\ SumTaken(w)' <= SumLanded /\ dPTaken(w)' <= tdPdQ[2] /\ x.n <= Released + 1
      /\ PStored(w)' = PStored(w) /\ Executed > 5 * Pairs /\ tdK = Pairs
  <2>1. /\ STaken(w) <= tS /\ PFreed(w) <= tdV + 1 /\ LSETaken(w) <= LSELanded
        /\ SumTaken(w) <= SumLanded /\ dPTaken(w) <= tdPdQ[2] /\ n <= Released + 1
        /\ Executed > 5 * Pairs /\ tdK = Pairs
    BY <1>1, WarpBehind
  <2> QED BY <1>3, <1>6, <1>7, <2>1
<1>9. /\ DOMAIN bar' = BarId /\ Still(LoadNames) /\ Still(TensorNames) /\ Still(ReduceNames)
      /\ Still(ComputeNames)
  BY <1>1 DEF Typed, Still
<1>10. ByCompute'
  BY <1>1, <1>3, <1>8, <1>9, WarpArrivals DEF Working
<1>11. Results'
  <2>1. \A v \in Compute : cw'[v].pc \in {"epilogue", "done"}
    BY <1>3, <1>4, <1>5
  <2>2. ASSUME NEW v \in Compute
        PROVE  sP'[v] = PStored(v)' /\ sdS'[v] = cw'[v].n /\ gdV'[v] = Pairs /\ gdK'[v] = Pairs
    <3>1. sP[v] = PStored(v) /\ sdS[v] = cw[v].n /\ gdV[v] = Pairs /\ gdK[v] = Pairs
      BY <1>5 DEF Working, Results
    <3>2. PStored(v)' = PStored(v) /\ cw'[v].n = cw[v].n
      BY <1>3, <1>4, <1>8, SameWarp
    <3> QED BY <1>1, <3>1, <3>2
  <2> QED BY <1>1, <2>1, <2>2 DEF Results
<1>12. /\ sP' \in [Compute -> Nat] /\ sdS' \in [Compute -> Nat] /\ gdV' \in [Compute -> Nat]
       /\ gdK' \in [Compute -> Nat]
  BY <1>1 DEF Typed
<1>13. PStored(w) <= PStored(w)' /\ n <= x.n
  BY <1>2, <1>3, <1>8, WarpNumbers
<1> QED BY <1>1, <1>3, <1>8, <1>9, <1>10, <1>11, <1>12, <1>13, WarpStep

LEMMA ComputeStepStep ==
    ASSUME Typed, HasWork, Working, NEW w \in Compute, ComputeStep(w)
    PROVE  Typed' /\ Working'
  BY ComputeWaitStep, ComputePStep, ComputeStorePStep, ComputedSStep, ComputeAddStep,
     ComputeFreeStep DEF ComputeStep

-----------------------------------------------------------------------------
(* Steps of a reduce warp; x is what its registers become.                 *)

ReaderRole(x) ==
    /\ x \in [pc : {"alloc", "allocated", "dq", "acquire", "sync0", "sync1", "tail", "done"},
              n : Nat, i : Nat, dq : Nat]
    /\ x.pc \in {"alloc", "allocated"} => x.n = 0
    /\ IF x.pc \in {"tail", "done"} THEN x.n = Pairs ELSE x.n < Pairs
    /\ x.dq = IF x.pc \in {"acquire", "sync0", "sync1"} THEN x.n + 1 ELSE 0
ReadBy(x) == x.n + (IF x.pc \in {"acquire", "sync0", "sync1"} THEN 1 ELSE 0)

LEMMA ReaderBehind ==
    ASSUME Working, NEW r \in Reduce
    PROVE  /\ dQTaken(r) <= dQDone /\ ReaderRole(rd[r]) /\ rd[r].n \in Nat
           /\ dQTaken(r) = ReadBy(rd[r]) /\ dQTaken(r) \in Nat
  BY DEF Working, ReduceOrder, ReduceRole, ReaderRole, dQTaken, ReadBy

ReaderBars == {TmemAlloc, ReduceSync, dQEmpty}
LEMMA ReaderArrive ==
    ASSUME NEW bars \in SUBSET ReaderBars, Arrive(bars)
    PROVE  /\ DOMAIN bar' = BarId
           /\ Still(LoadNames) /\ Still(TensorNames) /\ Still(ComputeNames)
           /\ \A b \in bars : bar'[b] = Arrived(b)
           /\ \A b \in BarId : b \notin bars => bar'[b] = bar[b]
<1>1. \A b \in ReaderBars : b \in BarId /\ b[1] \notin LoadNames \cup TensorNames \cup ComputeNames
  BY WarpBarNames DEF ReaderBars, LoadNames, TensorNames, ComputeNames
<1>2. bars \in SUBSET BarId
  BY <1>1
<1>3. \A b \in BarId : b[1] \in LoadNames \cup TensorNames \cup ComputeNames => b \notin bars
  BY <1>1
<1> QED BY <1>2, <1>3, ArriveEffect DEF Still

LEMMA ReaderStep ==
    ASSUME Typed, HasWork, Working, NEW r \in Reduce, NEW x, rd' = [rd EXCEPT ![r] = x],
           ReduceUnchanged, ReaderRole(x), ReadBy(x) <= dQDone, dQTaken(r) <= ReadBy(x),
           DOMAIN bar' = BarId, Still(LoadNames), Still(TensorNames), Still(ComputeNames),
           ByReduce'
    PROVE  Typed' /\ Working'
<1>1. UNCHANGED <<launch, loaded, sP, sdS, tmem, tc, output, ld, mm, cw>>
  BY DEF ReduceUnchanged
<1>2. /\ UNCHANGED <<launch, sQ, sK, sdO, sV, tS, tdPdQ, tdK, tdV, freed, gdK, gdV, sP, sdS>>
      /\ Reduce' = Reduce /\ Compute' = Compute /\ Pairs' = Pairs
  BY <1>1, SameLaunch DEF loaded, tmem, output
<1>3. ReduceRole
  BY DEF Working
<1>4. /\ rd'[r] = x /\ \A q \in Reduce : q # r => rd'[q] = rd[q]
      /\ DOMAIN rd' = Reduce /\ rd' = [q \in Reduce |-> rd'[q]]
  BY <1>3 DEF ReduceRole
<1>5. Typed'
  BY <1>2 DEF Typed
<1>6. ReduceRole'
  <2>1. \A q \in Reduce : ReaderRole(rd'[q])
    BY <1>3, <1>4 DEF ReduceRole, ReaderRole
  <2>2. \A q \in Reduce :
           rd'[q] \in [pc : {"alloc", "allocated", "dq", "acquire", "sync0", "sync1",
                             "tail", "done"}, n : Nat, i : Nat, dq : Nat]
    BY <2>1 DEF ReaderRole
  <2>3. rd' \in [Reduce -> [pc : {"alloc", "allocated", "dq", "acquire", "sync0", "sync1",
                                  "tail", "done"}, n : Nat, i : Nat, dq : Nat]]
    BY <1>4, <2>2, IsFunction
  <2>4. \A q \in Reduce :
           /\ rd'[q].pc \in {"alloc", "allocated"} => rd'[q].n = 0
           /\ IF rd'[q].pc \in {"tail", "done"} THEN rd'[q].n = Pairs ELSE rd'[q].n < Pairs
           /\ rd'[q].dq = IF rd'[q].pc \in {"acquire", "sync0", "sync1"} THEN rd'[q].n + 1 ELSE 0
    BY <2>1 DEF ReaderRole
  <2> QED BY <1>2, <2>3, <2>4 DEF ReduceRole
<1>7. \A q \in Reduce : /\ dQTaken(q)' \in Nat /\ dQTaken(q) <= dQTaken(q)'
                        /\ dQTaken(q)' <= dQDone
  <2> SUFFICES ASSUME NEW q \in Reduce
               PROVE  /\ dQTaken(q)' \in Nat /\ dQTaken(q) <= dQTaken(q)'
                      /\ dQTaken(q)' <= dQDone
    OBVIOUS
  <2>1. CASE q = r
    BY <1>4, <2>1 DEF dQTaken, ReadBy, ReaderRole
  <2>2. CASE q # r
    BY <1>4, <2>2, SameReader, ReaderBehind
  <2> QED BY <2>1, <2>2
<1>8. ReduceOrder'
  BY <1>2, <1>7, SameMemory DEF ReduceOrder
<1> QED BY <1>1, <1>5, <1>6, <1>7, <1>8, ReduceKeeps

\* A step that reads nothing.
LEMMA ReaderMoves ==
    ASSUME Typed, HasWork, Working, NEW r \in Reduce, NEW x, rd' = [rd EXCEPT ![r] = x],
           ReduceUnchanged, ReaderRole(x), ReadBy(x) = dQTaken(r),
           DOMAIN bar' = BarId, Still(LoadNames), Still(TensorNames), Still(ComputeNames),
           Still(ReduceNames)
    PROVE  Typed' /\ Working'
<1>1. launch' = launch /\ Reduce' = Reduce
  BY SameLaunch DEF ReduceUnchanged
<1>2. rd'[r] = x /\ \A q \in Reduce : q # r => rd'[q] = rd[q]
  BY DEF Working, ReduceRole
<1>3. \A q \in Reduce : dQTaken(q)' = dQTaken(q)
  <2>1. dQTaken(r)' = dQTaken(r)
    BY <1>2 DEF dQTaken, ReadBy
  <2> QED BY <1>2, <2>1, SameReader
<1>4. dQReads' = dQReads
  BY <1>1, <1>3 DEF dQReads
<1>5. bar'[dQEmpty] = bar[dQEmpty]
  BY WarpBarNames DEF Still, ReduceNames
<1>6. ByReduce'
  BY <1>1, <1>4, <1>5 DEF Working, ByReduce
<1>7. ReadBy(x) <= dQDone /\ dQTaken(r) <= ReadBy(x)
  BY ReaderBehind
<1> QED BY <1>6, <1>7, ReaderStep

LEMMA ReaderStays ==
    ASSUME NEW bars \in SUBSET {TmemAlloc, ReduceSync}, DOMAIN bar = BarId, bar' = bar \/ Arrive(bars)
    PROVE  /\ DOMAIN bar' = BarId /\ Still(LoadNames) /\ Still(TensorNames)
           /\ Still(ComputeNames) /\ Still(ReduceNames)
<1>1. CASE bar' = bar
  BY <1>1 DEF Still
<1>2. CASE Arrive(bars)
  <2>1. bars \in SUBSET ReaderBars
    BY DEF ReaderBars
  <2>2. \A b \in BarId : b[1] \in ReduceNames => b \notin bars
    BY WarpBarNames DEF ReduceNames
  <2> QED BY <1>2, <2>1, <2>2, ReaderArrive DEF Still
<1> QED BY <1>1, <1>2

LEMMA ReduceAllocStep ==
    ASSUME Typed, HasWork, Working, NEW r \in Reduce, ReduceAlloc(r)
    PROVE  Typed' /\ Working'
<1>1. PICK pc \in {"allocated", "dq"} :
        /\ rd' = [rd EXCEPT ![r].pc = pc] /\ ReduceUnchanged
        /\ rd[r].pc \in {"alloc", "allocated"}
        /\ bar' = bar \/ Arrive({TmemAlloc})
  BY DEF ReduceAlloc
<1> DEFINE x == [rd[r] EXCEPT !.pc = pc]
<1>2. ReaderRole(rd[r]) /\ dQTaken(r) = ReadBy(rd[r]) /\ Pairs \in Nat /\ Pairs >= 1
  BY ReaderBehind, Numbers
<1>3. rd' = [rd EXCEPT ![r] = x] /\ ReaderRole(x) /\ ReadBy(x) = ReadBy(rd[r])
  BY <1>1, <1>2 DEF ReaderRole, ReadBy
<1>4. /\ DOMAIN bar' = BarId /\ Still(LoadNames) /\ Still(TensorNames)
      /\ Still(ComputeNames) /\ Still(ReduceNames)
  BY <1>1, ReaderStays DEF Typed
<1> HIDE DEF x
<1> QED BY <1>1, <1>2, <1>3, <1>4, ReaderMoves

\* What a reduce warp reads: nothing has overwritten dQ yet.
LEMMA dQReadWait ==
    ASSUME Typed, HasWork, Working, NEW r \in Reduce, rd[r].pc = "dq",
           Done(dQFull, ConsumerPhase(rd[r].n))
    PROVE  /\ tdPdQ = <<"dQ", rd[r].n + 1>> /\ dQDone = rd[r].n + 1
           /\ \A q \in Reduce : dQTaken(q) >= dQTaken(r)
<1>1. dQTaken(r) = rd[r].n /\ rd[r].n \in Nat /\ dQDone \in Nat /\ tdPdQ[2] \in Nat
  BY ReaderBehind, Numbers DEF ReadBy
<1>2. dQDone = rd[r].n + 1
  <2>1. dQDone = rd[r].n \/ dQDone = rd[r].n + 1
    BY <1>1, ReduceWindow
  <2>2. Phases(bar[dQFull], dQDone)
    BY DEF Working, ByTensorCore
  <2> QED BY <1>1, <2>1, <2>2, PhaseWait
<1>3. tdPdQ[2] <= rd[r].n + 1
  BY <1>1, ReduceWindow
<1>4. tdPdQ[1] = "dQ" /\ tdPdQ[2] = rd[r].n + 1
  BY <1>1, <1>2, <1>3 DEF dQDone
<1>5. tdPdQ = <<tdPdQ[1], tdPdQ[2]>>
  BY Numbers, MemoryBounds
<1>6. \A q \in Reduce : dQTaken(q) >= dQTaken(r)
  <2>1. \A q \in Reduce : dQDone <= dQTaken(q) + 1 /\ dQTaken(q) \in Nat
    BY ReduceWindow, ReaderBehind
  <2> QED BY <1>1, <1>2, <2>1
<1> QED BY <1>2, <1>4, <1>5, <1>6

LEMMA ReduceReadStep ==
    ASSUME Typed, HasWork, Working, NEW r \in Reduce, ReduceRead(r)
    PROVE  Typed' /\ Working'
<1> DEFINE n == rd[r].n
           x == [pc |-> "acquire", n |-> n, i |-> 0, dq |-> n + 1]
<1>1. /\ rd[r].pc = "dq" /\ Done(dQFull, ConsumerPhase(n)) /\ Arrive({dQEmpty})
      /\ ReduceUnchanged /\ launch' = launch
  BY DEF ReduceRead, ReduceUnchanged
<1>2. ReaderRole(rd[r]) /\ n \in Nat /\ n < Pairs /\ dQTaken(r) = n
  BY <1>1, ReaderBehind DEF ReaderRole, ReadBy
<1>3. /\ tdPdQ = <<"dQ", n + 1>> /\ dQDone = n + 1
      /\ \A q \in Reduce : dQTaken(q) >= dQTaken(r)
  BY <1>1, dQReadWait
<1>4. rd' = [rd EXCEPT ![r] = x]
  <2>1. rd' = [rd EXCEPT ![r] = [[[rd[r] EXCEPT !.pc = "acquire"] EXCEPT !.i = 0] EXCEPT !.dq = n + 1]]
    BY <1>3 DEF ReduceRead, Working, ReduceRole
  <2> HIDE DEF n
  <2>2. rd[r] = [pc |-> "dq", n |-> n, i |-> rd[r].i, dq |-> rd[r].dq]
    BY <1>1, <1>2 DEF ReaderRole, n
  <2>3. PICK i, d : rd[r] = [pc |-> "dq", n |-> n, i |-> i, dq |-> d]
    BY <2>2
  <2>4. [rd[r] EXCEPT !.pc = "acquire"] = [pc |-> "acquire", n |-> n, i |-> i, dq |-> d]
    BY <2>3
  <2>5. [[pc |-> "acquire", n |-> n, i |-> i, dq |-> d] EXCEPT !.i = 0]
          = [pc |-> "acquire", n |-> n, i |-> 0, dq |-> d]
    OBVIOUS
  <2>6. [[pc |-> "acquire", n |-> n, i |-> 0, dq |-> d] EXCEPT !.dq = n + 1] = x
    OBVIOUS
  <2> QED BY <2>1, <2>4, <2>5, <2>6
<1>5. ReaderRole(x) /\ ReadBy(x) = n + 1
  BY <1>2 DEF ReaderRole, ReadBy
<1> HIDE DEF x
<1>6. /\ DOMAIN bar' = BarId /\ Still(LoadNames) /\ Still(TensorNames) /\ Still(ComputeNames)
      /\ bar'[dQEmpty] = Arrived(dQEmpty)
  <2>1. {dQEmpty} \in SUBSET ReaderBars
    BY DEF ReaderBars
  <2> QED BY <1>1, <2>1, ReaderArrive
<1>7. rd'[r] = x /\ \A q \in Reduce : q # r => rd'[q] = rd[q]
  BY <1>4 DEF Working, ReduceRole
<1>8. ByReduce'
  <2>1. Reduce' = Reduce /\ IsFiniteSet(Reduce)
    BY <1>1, SameLaunch, Numbers
  <2>2. dQTaken(r)' = n + 1
    BY <1>5, <1>7 DEF dQTaken, ReadBy
  <2>3. \A q \in Reduce : q # r => dQTaken(q)' = dQTaken(q)
    BY <1>7, SameReader
  <2>4. \A q \in Reduce : dQTaken(q) \in Nat
    BY ReaderBehind
  <2>5. dQReads = [q \in Reduce |-> dQTaken(q)] /\ dQReads' = [q \in Reduce |-> dQTaken(q)']
    BY <2>1 DEF dQReads
  <2>6. /\ dQReads \in [Reduce -> Nat] /\ dQReads' \in [Reduce -> Nat]
        /\ dQReads'[r] = dQReads[r] + 1 /\ \A q \in Reduce : q # r => dQReads'[q] = dQReads[q]
        /\ \A q \in Reduce : dQReads[q] >= dQReads[r]
    BY <1>2, <1>3, <2>2, <2>3, <2>4, <2>5
  <2>7. AllOf(bar[dQEmpty], Reduce, dQReads) /\ Expected(dQEmpty) = Cardinality(Reduce)
    BY WarpBarNames DEF Working, ByReduce
  <2>8. AllOf(bar'[dQEmpty], Reduce, dQReads')
    BY <1>6, <2>1, <2>6, <2>7, AllArrive
  <2> QED BY <2>1, <2>8 DEF ByReduce
<1>9. ReadBy(x) <= dQDone /\ dQTaken(r) <= ReadBy(x)
  BY <1>2, <1>3, <1>5
<1> QED BY <1>1, <1>4, <1>5, <1>6, <1>8, <1>9, ReaderStep

LEMMA ReduceMoveStep ==
    ASSUME Typed, HasWork, Working, NEW r \in Reduce,
           ReduceAcquire(r) \/ ReduceStage(r) \/ ReduceTail(r)
    PROVE  Typed' /\ Working'
<1>1. PICK pc \in {"sync0", "sync1", "done"} :
        /\ rd' = [rd EXCEPT ![r].pc = pc] /\ ReduceUnchanged
        /\ IF pc = "done" THEN rd[r].pc = "tail" ELSE rd[r].pc \in {"acquire", "sync0"}
        /\ bar' = bar \/ Arrive({ReduceSync})
  BY DEF ReduceAcquire, ReduceStage, ReduceTail
<1> DEFINE x == [rd[r] EXCEPT !.pc = pc]
<1>2. ReaderRole(rd[r]) /\ dQTaken(r) = ReadBy(rd[r])
  BY ReaderBehind
<1>3. rd' = [rd EXCEPT ![r] = x] /\ ReaderRole(x) /\ ReadBy(x) = ReadBy(rd[r])
  BY <1>1, <1>2 DEF ReaderRole, ReadBy
<1>4. /\ DOMAIN bar' = BarId /\ Still(LoadNames) /\ Still(TensorNames)
      /\ Still(ComputeNames) /\ Still(ReduceNames)
  BY <1>1, ReaderStays DEF Typed
<1> HIDE DEF x
<1> QED BY <1>1, <1>2, <1>3, <1>4, ReaderMoves

\* The registers of a reduce warp that goes on to its next piece of dQ.
NextPiece(y) ==
    LET last == y.i + 1 = Chunks IN
    [pc |-> IF ~last THEN "acquire" ELSE IF y.n + 1 < Pairs THEN "dq" ELSE "tail",
     n |-> IF last THEN y.n + 1 ELSE y.n, i |-> IF last THEN 0 ELSE y.i + 1,
     dq |-> IF last THEN 0 ELSE y.dq]

LEMMA StoreRegisters ==
    ASSUME Working, NEW r \in Reduce, ReduceStore(r)
    PROVE  rd' = [rd EXCEPT ![r] = NextPiece(rd[r])]
<1> DEFINE n == rd[r].n
           last == rd[r].i + 1 = Chunks
           pc == IF ~last THEN "acquire" ELSE IF n + 1 < Pairs THEN "dq" ELSE "tail"
           j == IF last THEN 0 ELSE rd[r].i + 1
           m == IF last THEN n + 1 ELSE n
           dq == IF last THEN 0 ELSE rd[r].dq
<1>1. rd' = [rd EXCEPT ![r].pc = pc, ![r].i = j, ![r].n = IF last THEN @ + 1 ELSE @,
                       ![r].dq = IF last THEN 0 ELSE @]
  BY DEF ReduceStore, ReducePairs
<1>2. rd' = [rd EXCEPT ![r] = [[[[rd[r] EXCEPT !.pc = pc] EXCEPT !.i = j] EXCEPT !.n = m]
                                 EXCEPT !.dq = dq]]
  BY <1>1 DEF Working, ReduceRole
<1>3. rd[r] = [pc |-> rd[r].pc, n |-> n, i |-> rd[r].i, dq |-> rd[r].dq]
  BY ReaderBehind DEF ReaderRole
<1>4. NextPiece(rd[r]) = [pc |-> pc, n |-> m, i |-> j, dq |-> dq]
  BY DEF NextPiece
<1> HIDE DEF pc, j, m, dq, n, last
<1>5. PICK a, b, c, d : rd[r] = [pc |-> a, n |-> b, i |-> c, dq |-> d]
  BY <1>3
<1>6. [rd[r] EXCEPT !.pc = pc] = [pc |-> pc, n |-> b, i |-> c, dq |-> d]
  BY <1>5
<1>7. [[pc |-> pc, n |-> b, i |-> c, dq |-> d] EXCEPT !.i = j]
        = [pc |-> pc, n |-> b, i |-> j, dq |-> d]
  OBVIOUS
<1>8. [[pc |-> pc, n |-> b, i |-> j, dq |-> d] EXCEPT !.n = m]
        = [pc |-> pc, n |-> m, i |-> j, dq |-> d]
  OBVIOUS
<1>9. [[pc |-> pc, n |-> m, i |-> j, dq |-> d] EXCEPT !.dq = dq]
        = [pc |-> pc, n |-> m, i |-> j, dq |-> dq]
  OBVIOUS
<1> QED BY <1>2, <1>4, <1>6, <1>7, <1>8, <1>9

LEMMA ReduceStoreStep ==
    ASSUME Typed, HasWork, Working, NEW r \in Reduce, ReduceStore(r)
    PROVE  Typed' /\ Working'
<1> DEFINE n == rd[r].n
           last == rd[r].i + 1 = Chunks
           x == NextPiece(rd[r])
<1>1. rd[r].pc = "sync1" /\ ReduceUnchanged /\ bar' = bar
  BY DEF ReduceStore
<1>2. ReaderRole(rd[r]) /\ n \in Nat /\ n < Pairs /\ rd[r].dq = n + 1 /\ dQTaken(r) = n + 1
  BY <1>1, ReaderBehind DEF ReaderRole, ReadBy
<1>3. rd[r].i \in Nat /\ Pairs \in Nat
  BY <1>2, Numbers DEF ReaderRole
<1>4. rd' = [rd EXCEPT ![r] = x]
  BY StoreRegisters
<1>5. ReaderRole(x) /\ ReadBy(x) = n + 1
  <2>1. x = [pc |-> IF ~last THEN "acquire" ELSE IF n + 1 < Pairs THEN "dq" ELSE "tail",
             n |-> IF last THEN n + 1 ELSE n, i |-> IF last THEN 0 ELSE rd[r].i + 1,
             dq |-> IF last THEN 0 ELSE rd[r].dq]
    BY DEF NextPiece
  <2> HIDE DEF n, last, x
  <2>2. CASE last
    BY <1>2, <1>3, <2>1, <2>2 DEF ReaderRole, ReadBy
  <2>3. CASE ~last
    BY <1>2, <1>3, <2>1, <2>3 DEF ReaderRole, ReadBy
  <2> QED BY <2>2, <2>3
<1>6. /\ DOMAIN bar' = BarId /\ Still(LoadNames) /\ Still(TensorNames)
      /\ Still(ComputeNames) /\ Still(ReduceNames)
  BY <1>1, ReaderStays DEF Typed
<1> HIDE DEF x
<1> QED BY <1>1, <1>2, <1>4, <1>5, <1>6, ReaderMoves

LEMMA ReduceStepStep ==
    ASSUME Typed, HasWork, Working, NEW r \in Reduce, ReduceStep(r)
    PROVE  Typed' /\ Working'
  BY ReduceAllocStep, ReduceReadStep, ReduceMoveStep, ReduceStoreStep DEF ReduceStep

-----------------------------------------------------------------------------
(* The invariant is inductive.                                             *)

\* What the stores of dQ read and add is not part of the invariant.
LEMMA WorkingFrame ==
    ASSUME Typed, HasWork, Working,
           UNCHANGED <<launch, bar, loaded, sP, sdS, tmem, tc, gdK, gdV, ld, mm, cw, rd>>
    PROVE  Typed' /\ Working'
<1>1. /\ UNCHANGED <<launch, bar, ld, inflight, sQ, sK, sdO, sV, sP, sdS, tS, tdPdQ, tdK, tdV,
                     freed, tc, gdK, gdV, mm, cw, rd>>
      /\ Compute' = Compute /\ Pairs' = Pairs /\ Reduce' = Reduce
  BY SameLaunch DEF loaded, tmem
<1>2. Typed'
  BY <1>1 DEF Typed
<1>3. /\ Still(LoadNames) /\ Still(TensorNames) /\ Still(ReduceNames) /\ Still(ComputeNames)
  BY <1>1 DEF Still
<1>4. ComputeRole'
  BY <1>1 DEF Working, ComputeRole
<1>5. ByCompute'
  BY <1>1, <1>3, ComputeFrame DEF Working
<1>6. /\ LSELanded' = LSELanded /\ SumLanded' = SumLanded /\ Released' = Released
      /\ Executed' = Executed
  BY <1>1, SameFlights, SameMemory, SameMma DEF Executed
<1>7. ComputeOrder'
  BY <1>1, <1>6, SameWarp DEF Working, ComputeOrder
<1>8. Results'
  BY <1>1, SameWarp DEF Working, Results
<1>9. \A v \in Compute : /\ PStored(v)' \in Nat /\ cw'[v].n \in Nat
                         /\ PStored(v) <= PStored(v)' /\ cw[v].n <= cw'[v].n
  BY <1>1, SameWarp, WarpNumbers
<1> QED BY <1>1, <1>2, <1>3, <1>4, <1>5, <1>7, <1>8, <1>9, ComputeKeeps

LEMMA WorkingStep ==
    ASSUME Typed, HasWork, Working, [Next]_vars
    PROVE  Typed' /\ Working'
<1>1. CASE Load
  BY <1>1, LoadQStep, LoadLSEStep, LoadSumOdOStep, LoaddOStep DEF Load
<1>2. CASE Mma
  BY <1>2, MmaAllocStep, MmaWaitStep, MmaSStep, MmadQdKStep, MmadPStep, MmadVStep, MmaTailStep
     DEF Mma
<1>3. CASE TensorCore
  BY <1>3, TensorCoreStep
<1>4. CASE \E c \in inflight : Land(c)
  BY <1>4, LandStep
<1>5. CASE \E g \in stores : StoreRead(g)
  <2>1. UNCHANGED <<launch, bar, loaded, sP, sdS, tmem, tc, gdK, gdV, ld, mm, cw, rd>>
    BY <1>5 DEF StoreRead
  <2> QED BY <2>1, WorkingFrame
<1>6. CASE \E w \in Compute : ComputeStep(w)
  BY <1>6, ComputeStepStep
<1>7. CASE \E r \in Reduce : ReduceStep(r)
  BY <1>7, ReduceStepStep
<1>8. CASE UNCHANGED vars
  <2>1. UNCHANGED <<launch, bar, loaded, sP, sdS, tmem, tc, gdK, gdV, ld, mm, cw, rd>>
    BY <1>8 DEF vars, output
  <2> QED BY <2>1, WorkingFrame
<1> QED BY <1>1, <1>2, <1>3, <1>4, <1>5, <1>6, <1>7, <1>8 DEF Next, Terminating

\* A CTA without work takes no step.
LEMMA IdleStep ==
    ASSUME Idle, [Next]_vars
    PROVE  UNCHANGED vars
<1>1. /\ ld.pc = "done" /\ mm.pc = "done" /\ tc = <<>> /\ inflight = {} /\ stores = {}
      /\ \A w \in Compute : cw[w].pc = "done"
      /\ \A r \in Reduce : rd[r].pc = "done"
  BY DEF Idle
<1>2. ~Load
  BY <1>1 DEF Load, LoadQ, LoadLSE, LoaddO, LoadSumOdO
<1>3. ~Mma
  BY <1>1 DEF Mma, MmaAlloc, MmaWait, MmaS, MmadQdK, MmadP, MmadV, MmaTail
<1>4. ~TensorCore
  BY <1>1 DEF TensorCore
<1>5. ASSUME NEW w \in Compute PROVE ~ComputeStep(w)
  BY <1>1 DEF ComputeStep, ComputeWait, ComputeP, ComputeStoreP, ComputedS, ComputeAdd, ComputeFree
<1>6. ASSUME NEW r \in Reduce PROVE ~ReduceStep(r)
  BY <1>1 DEF ReduceStep, ReduceAlloc, ReduceRead, ReduceAcquire, ReduceStage, ReduceStore,
              ReduceTail
<1> QED BY <1>1, <1>2, <1>3, <1>4, <1>5, <1>6 DEF Next, Terminating

LEMMA InvStep ==
    ASSUME Inv, [Next]_vars
    PROVE  Inv'
<1>1. CASE HasWork
  <2>1. Typed' /\ Working'
    BY <1>1, WorkingStep DEF Inv
  <2>2. launch' = launch
    BY DEF Next, vars, Load, LoadQ, LoadLSE, LoaddO, LoadSumOdO, Mma, MmaAlloc, MmaWait, MmaS,
           MmadQdK, MmadP, MmadV, MmaTail, MmaUnchanged, TensorCore, Land, StoreRead,
           ComputeStep, ComputeWait, ComputeP, ComputeStoreP, ComputedS, ComputeAdd, ComputeFree,
           ComputeUnchanged, ReduceStep, ReduceAlloc, ReduceRead, ReduceAcquire, ReduceStage,
           ReduceStore, ReduceTail, ReduceUnchanged, Terminating
  <2> QED BY <1>1, <2>1, <2>2, SameLaunch DEF Inv
<1>2. CASE ~HasWork
  <2>1. UNCHANGED vars
    BY <1>2, IdleStep DEF Inv
  <2>2. HasWork' = HasWork /\ Compute' = Compute /\ Reduce' = Reduce
    BY <2>1, SameLaunch DEF vars
  <2>3. Typed' /\ Idle'
    BY <1>2, <2>1, <2>2 DEF Inv, vars, loaded, tmem, output, Typed, Idle
  <2> QED BY <1>2, <2>2, <2>3 DEF Inv
<1> QED BY <1>1, <1>2

\* Every barrier starts in its first phase.
LEMMA InitBarrier ==
    ASSUME Init, NEW b \in BarId
    PROVE  /\ bar[b] = [par |-> 0, left |-> Expected(b), tx |-> 0]
           /\ Expected(b) = 1 => Phases(bar[b], 0)
<1>1. bar[b] = [par |-> 0, left |-> Expected(b), tx |-> 0]
  BY DEF Init, Fresh
<1> QED BY <1>1 DEF Phases

LEMMA InitAll ==
    ASSUME Init, NEW b \in BarId, NEW S, S # {}, NEW A, Expected(b) = Cardinality(S),
           \A w \in S : A[w] = 0
    PROVE  AllOf(bar[b], S, A)
<1>1. {w \in S : A[w] = 0} = S
  OBVIOUS
<1>2. bar[b] = [par |-> 0 % 2, left |-> Cardinality({w \in S : A[w] = 0}), tx |-> 0]
  BY <1>1, InitBarrier
<1> QED BY <1>2 DEF AllOf

LEMMA InitWorking ==
    ASSUME Init, HasWork, Typed
    PROVE  Working
<1>1. /\ Pairs \in Nat /\ Pairs >= 1 /\ Compute # {} /\ Reduce # {}
  BY LaunchFacts DEF Typed
<1>2. /\ ld = [pc |-> "q", n |-> 0] /\ mm = [pc |-> "alloc", n |-> 0]
      /\ cw = [w \in Compute |-> [pc |-> "alloc", n |-> 0, p |-> 0]]
      /\ rd = [r \in Reduce |-> [pc |-> "alloc", n |-> 0, i |-> 0, dq |-> 0]]
  BY DEF Init
<1>3. /\ tS = 0 /\ tdPdQ = <<"none", 0>> /\ tdK = 0 /\ tdV = 0 /\ freed = FALSE
      /\ tc = <<>> /\ inflight = {} /\ sLSE = 0 /\ sSum = 0
      /\ sP = [w \in Compute |-> 0] /\ sdS = [w \in Compute |-> 0]
  BY DEF Init
<1>4. QLoads = 0 /\ LSELoads = 0 /\ dOLoads = 0 /\ SumLoads = 0
  BY <1>2 DEF QLoads, LSELoads, dOLoads, SumLoads
<1>5. \A to, half, pair : Flying(to, half, pair) = 0
  BY <1>3 DEF Flying
<1>6. LSELanded = 0 /\ SumLanded = 0 /\ dOBytes = 0 /\ \A j : QBytes(j) = 0
  <2>1. Flying("LSE", 0, 0) = 0 /\ Flying("sum", 0, 0) = 0
    BY <1>5
  <2>2. LSELanded = 0 /\ SumLanded = 0
    BY <1>4, <2>1 DEF LSELanded, SumLanded
  <2>3. dOBytes = 0
    BY <1>5 DEF dOBytes
  <2>4. \A j : QBytes(j) = 0
    BY <1>5 DEF QBytes
  <2> QED BY <2>2, <2>3, <2>4
<1>7. QTaken = 0 /\ dOTaken = 0 /\ SIssued = 0 /\ dSTaken = 0 - 1 /\ dQFreed = 0 - 1
  BY <1>2 DEF QTaken, dOTaken, SIssued, dSTaken, dQFreed
<1>8. Issued = 2 /\ Executed = 2
  <2>1. Issued = 2
    BY <1>2 DEF Issued
  <2> QED BY <1>3, <2>1 DEF Executed
<1>9. dQDone = 0 /\ Released = 0
  BY <1>3 DEF dQDone, Released
<1>10. \A w \in Compute :
          /\ cw[w] = [pc |-> "alloc", n |-> 0, p |-> 0]
          /\ STaken(w) = 0 /\ PFreed(w) = 0 /\ LSETaken(w) = 0 /\ PStored(w) = 0
          /\ SumTaken(w) = 0 /\ dPTaken(w) = 0
  BY <1>2 DEF STaken, PFreed, LSETaken, PStored, SumTaken, dPTaken, After
<1>11. \A r \in Reduce : dQTaken(r) = 0
  BY <1>2 DEF dQTaken
<1>12. \A j \in {0 - 1, 0} : StageOf(j) \in Stage /\ PhaseOf(j) = 0
  BY DEF StageOf, PhaseOf, Stage
<1>13. LoadRole
  BY <1>1, <1>2 DEF LoadRole
<1>14. MmaRole
  BY <1>1, <1>2 DEF MmaRole
<1>15. ComputeRole
  BY <1>1, <1>2 DEF ComputeRole
<1>16. ReduceRole
  BY <1>1, <1>2 DEF ReduceRole
<1>17. Queue
  BY <1>3, <1>8 DEF Queue, TensorMemory, Memory
<1>18. QStages
  <2>1. \A j \in {0 - 1, 0} : Phases(bar[QFull(StageOf(j))], 0)
    BY <1>12, InitBarrier, BarNames
  <2>2. \A j \in {0 - 1, 0} : Phases(bar[QFull(StageOf(j))], PhaseOf(j)) /\ ~(j > 0)
    BY <1>12, <2>1
  <2>3. {QLoads - 1, QLoads} = {0 - 1, 0} /\ ~(QLoads > 0)
    BY <1>4
  <2> QED BY <1>6, <2>2, <2>3 DEF QStages
<1>19. dOStage
  <2>1. Phases(bar[dOFull], 0)
    BY InitBarrier, BarNames
  <2> QED BY <1>4, <1>6, <2>1 DEF dOStage
<1>20. Rows
  <2>1. Phases(bar[LSEFull], 0) /\ Phases(bar[SumFull], 0)
    BY InitBarrier, BarNames
  <2> QED BY <1>3, <1>4, <1>6, <2>1 DEF Rows
<1>21. InFlight
  BY <1>3 DEF InFlight
<1>22. ByTensorCore
  <2>1. /\ Phases(bar[SFull], 0) /\ Phases(bar[dPFull], 0) /\ Phases(bar[dQFull], 0)
        /\ Phases(bar[PEmpty], 0) /\ Phases(bar[dOEmpty], 0) /\ Phases(bar[dSEmpty], 0)
    BY InitBarrier, BarNames
  <2>2. \A j \in {0 - 1, 0} : Phases(bar[QEmpty(StageOf(j))], PhaseOf(j))
    BY <1>12, InitBarrier, BarNames
  <2>3. Phases(bar[dKdVFull(0)], 0) /\ Phases(bar[dKdVFull(1)], 0)
    <3>1. 0 \in Stage /\ 1 \in Stage
      BY DEF Stage
    <3> QED BY <3>1, InitBarrier, BarNames
  <2>4. ~(Executed > 5 * Pairs) /\ tdK # Pairs
    BY <1>1, <1>3, <1>8
  <2>5. /\ tS = 0 /\ tdPdQ[2] = 0 /\ dQDone = 0 /\ tdV = 0 /\ Released = 0
        /\ {Released - 1, Released} = {0 - 1, 0}
    BY <1>3, <1>9
  <2> QED BY <2>1, <2>2, <2>3, <2>4, <2>5 DEF ByTensorCore
<1>23. ByCompute
  <2>1. \A w \in Compute : PStores[w] = 0 /\ dSStores[w] = 0 /\ Epilogues[w] = 0
    BY <1>10 DEF PStores, dSStores, Epilogues
  <2> QED BY <1>1, <2>1, InitAll, WarpBarNames DEF ByCompute
<1>24. ByReduce
  <2>1. \A r \in Reduce : dQReads[r] = 0
    BY <1>11 DEF dQReads
  <2> QED BY <1>1, <2>1, InitAll, WarpBarNames DEF ByReduce
<1>25. LoadOrder
  BY <1>3, <1>4, <1>7, <1>9, <1>10 DEF LoadOrder
<1>26. ComputeOrder
  BY <1>3, <1>6, <1>9, <1>10 DEF ComputeOrder
<1>27. MmaOrder
  BY <1>2, <1>7, <1>10, <1>11 DEF MmaOrder
<1>28. ReduceOrder
  BY <1>9, <1>11 DEF ReduceOrder
<1>29. Results
  BY <1>3, <1>10 DEF Results
<1> QED BY <1>13, <1>14, <1>15, <1>16, <1>17, <1>18, <1>19, <1>20, <1>21, <1>22, <1>23, <1>24,
           <1>25, <1>26, <1>27, <1>28, <1>29 DEF Working

LEMMA InitInv ==
    ASSUME Init
    PROVE  Inv
<1>1. Typed
  BY DEF Init, Typed, Stage
<1>2. CASE HasWork
  BY <1>1, <1>2, InitWorking DEF Inv
<1>3. CASE ~HasWork
  BY <1>1, <1>3 DEF Init, Inv, Idle
<1> QED BY <1>2, <1>3

(* The invariant: every role is where its barriers, the queue of the tensor  *)
(* core and the tiles in shared and tensor memory say.                       *)
THEOREM Invariance == Spec => []Inv
<1>1. Init => Inv
  BY InitInv
<1>2. Inv /\ [Next]_vars => Inv'
  BY InvStep
<1> QED BY <1>1, <1>2, PTL DEF Spec

-----------------------------------------------------------------------------
(* What follows from the invariant.                                        *)

\* An operation in the queue is one of the program, not executed yet.
LEMMA InQueue ==
    ASSUME Typed, HasWork, Working, NEW op \in Queued
    PROVE  \E k \in Nat : Executed < k /\ k <= Issued /\ InProgram(k, op)
<1>1. PICK x \in DOMAIN tc : op = tc[x]
  BY DEF Queued
<1>2. tc \in Seq(Operation) /\ InProgram(Executed + x, tc[x]) /\ Issued \in Nat /\ Executed \in Nat
  BY Numbers DEF Working, Queue
<1>3. x \in 1 .. Len(tc) /\ Len(tc) \in Nat
  BY <1>2
<1>4. Executed + x \in Nat /\ Executed < Executed + x /\ Executed + x <= Issued
  BY <1>2, <1>3 DEF Executed
<1> QED BY <1>1, <1>2, <1>4

\* What pair's data tensor memory has before an operation is executed ..
LEMMA MemoryUntil ==
    ASSUME TensorMemory(Executed), Executed \in Nat, Pairs \in Nat, Pairs >= 1
    PROVE  /\ Executed < 3 => tS = 0
           /\ \A i \in 1 .. Pairs : Executed < 5 * i + 1 => tS <= i
           /\ tdPdQ[1] \in {"dP", "dQ"} =>
                \E j \in 1 .. Pairs :
                   /\ tdPdQ[2] = j /\ Executed >= 5 * j - 1
                   /\ tdPdQ[1] = "dQ" => Executed >= 5 * j + 2
<1>1. CASE Executed = 2 /\ Memory(0, <<"none", 0>>, 0, 0)
  BY <1>1 DEF Memory
<1>2. CASE Executed = 3 /\ Memory(1, <<"none", 0>>, 0, 0)
  BY <1>2 DEF Memory
<1>3. CASE \E j \in 1 .. Pairs : DuringPair(Executed, j)
  <2>1. PICK j \in 1 .. Pairs : DuringPair(Executed, j)
    BY <1>3
  <2>2. ASSUME NEW i \in 1 .. Pairs, Executed < 5 * i + 1 PROVE tS <= i
    BY <2>1, <2>2 DEF DuringPair, Memory
  <2>3. Executed >= 3
    BY <2>1 DEF DuringPair
  <2>4. tdPdQ[2] = j /\ Executed >= 5 * j - 1 /\ (tdPdQ[1] = "dQ" => Executed >= 5 * j + 2)
    BY <2>1 DEF DuringPair, Memory
  <2> QED BY <2>2, <2>3, <2>4
<1> QED BY <1>1, <1>2, <1>3 DEF TensorMemory

\* .. and whom the MMA warp has waited for when it has issued the operation.
LEMMA WaitedFor ==
    ASSUME Typed, HasWork, Working, NEW i \in 1 .. Pairs
    PROVE  /\ Issued >= 5 * i => \A w \in Compute : PStored(w) >= i
           /\ Issued >= 5 * i + 2 => \A w \in Compute : cw[w].n >= i
           /\ Issued >= 5 * i + 4 => \A r \in Reduce : dQTaken(r) >= i
<1>1. /\ Issued >= 5 * i => mm.n >= i
      /\ Issued >= 5 * i + 2 => dSTaken >= i
  BY IssuedAfter, Numbers DEF Working
<1>2. Issued >= 5 * i + 4 => dQFreed >= i
  <2>1. mm.n \in Nat /\ Pairs \in Nat
    BY Numbers
  <2> QED BY <2>1 DEF Issued, dQFreed, Working, MmaRole
<1>3. /\ \A w \in Compute : /\ mm.n <= PStored(w) /\ dSTaken <= cw[w].n
                            /\ PStored(w) \in Nat /\ cw[w].n \in Nat
      /\ \A r \in Reduce : dQFreed <= dQTaken(r) /\ dQTaken(r) \in Nat
  BY WarpNumbers DEF Working, MmaOrder
<1>4. mm.n \in Nat /\ dSTaken \in Int /\ dQFreed \in Int
  BY Numbers
<1> QED BY <1>1, <1>2, <1>3, <1>4

LEMMA WarpReads ==
    ASSUME Working
    PROVE  /\ \A w \in Compute : SRead(w) \in Nat /\ SRead(w) >= PStored(w)
           /\ \A r \in Reduce : dQRead(r) = dQTaken(r)
<1>1. ASSUME NEW w \in Compute PROVE SRead(w) \in Nat /\ SRead(w) >= PStored(w)
  <2>1. WarpRole(cw[w]) /\ cw[w].n \in Nat
    BY WarpBehind
  <2> QED BY <2>1 DEF WarpRole, SRead, PStored, After
<1>2. ASSUME NEW r \in Reduce PROVE dQRead(r) = dQTaken(r)
  <2>1. ReaderRole(rd[r]) /\ rd[r].n \in Nat
    BY ReaderBehind
  <2> QED BY <2>1 DEF ReaderRole, dQRead, dQTaken
<1> QED BY <1>1, <1>2

LEMMA OperandsFollow ==
    ASSUME Inv
    PROVE  OperandsHeld
<1>1. CASE HasWork
  <2>1. Typed /\ Working
    BY <1>1 DEF Inv
  <2>2. ASSUME NEW op \in Queued
        PROVE  /\ op.do = "S" => QTile(op.slot) > 0
               /\ op.do = "dP" => dOTile > 0
               /\ op.do = "dV" => dOTile > 0 /\ TileOf(sP) = dOTile
               /\ op.do = "dK" => QTile(op.slot) > 0 /\ TileOf(sdS) = QTile(op.slot)
               /\ op.do = "dQ" => TileOf(sdS) > 0
    <3>1. PICK k \in Nat : Executed < k /\ k <= Issued /\ InProgram(k, op)
      BY <1>1, <2>1, InQueue
    <3>2. Pairs \in Nat /\ Pairs >= 1
      BY <1>1, <2>1, Numbers
    <3>3. CASE k = 3 /\ op = Op("S", 0, {SFull})
      <4>1. op.do = "S" /\ op.slot = 0
        BY <3>3 DEF Op
      <4>2. 1 \in 1 .. Pairs
        BY <3>2
      <4>3. QTile(0) = 1
        BY <1>1, <2>1, <3>1, <3>3, <4>2, Operands
      <4> QED BY <4>1, <4>3
    <3>4. CASE \E i \in 1 .. Pairs : OfPair(k, op, i)
      <4>1. PICK i \in 1 .. Pairs : OfPair(k, op, i)
        BY <3>4
      <4>2. /\ k \in {5 * i - 1, 5 * i} => dOTile = i
            /\ k = 5 * i => TileOf(sP) = i
            /\ (k = 5 * i + 1 /\ i < Pairs) => QTile(i % 2) = i + 1
            /\ k \in {5 * i + 2, 5 * i + 3} => TileOf(sdS) = i /\ QTile((i - 1) % 2) = i
        BY <1>1, <2>1, <3>1, Operands
      <4>3. \/ k = 5 * i - 1 /\ op.do = "dP"
            \/ k = 5 * i /\ op.do = "dV"
            \/ i < Pairs /\ k = 5 * i + 1 /\ op.do = "S" /\ op.slot = i % 2
            \/ k \in {5 * i + 2, 5 * i + 3} /\ op.do \in {"dQ", "dK"} /\ op.slot = (i - 1) % 2
            \/ op.do = "none"
        BY <4>1 DEF OfPair, Op
      <4> QED BY <4>2, <4>3
    <3> QED BY <3>1, <3>3, <3>4 DEF InProgram
  <2> QED BY <2>2 DEF OperandsHeld
<1>2. CASE ~HasWork
  <2>1. Queued = {}
    BY <1>2 DEF Inv, Idle, Queued
  <2> QED BY <2>1 DEF OperandsHeld
<1> QED BY <1>1, <1>2

LEMMA TmemFollows ==
    ASSUME Inv
    PROVE  TmemHandedOver
<1>1. CASE HasWork
  <2>1. Typed /\ Working
    BY <1>1 DEF Inv
  <2>2. /\ Pairs \in Nat /\ Pairs >= 1 /\ Executed \in Nat /\ Issued \in Nat /\ tS \in Nat
        /\ TensorMemory(Executed)
    BY <1>1, <2>1, Numbers
  <2>3. /\ \A w \in Compute : SRead(w) \in Nat /\ SRead(w) >= PStored(w) /\ PStored(w) \in Nat
        /\ \A r \in Reduce : dQRead(r) = dQTaken(r)
    BY <2>1, WarpReads, WarpNumbers
  <2>4. ASSUME NEW op \in Queued
        PROVE  /\ op.do = "S" => \A w \in Compute : SRead(w) >= tS
               /\ (op.do \in {"dP", "dQ"} /\ tdPdQ[1] = "dP") =>
                     \A w \in Compute : cw[w].n >= tdPdQ[2]
               /\ (op.do = "dP" /\ tdPdQ[1] = "dQ") =>
                     \A r \in Reduce : dQRead(r) >= tdPdQ[2]
    <3>1. PICK k \in Nat : Executed < k /\ k <= Issued /\ InProgram(k, op)
      BY <1>1, <2>1, InQueue
    <3>2. ASSUME op.do = "S" PROVE \A w \in Compute : SRead(w) >= tS
      <4>1. k = 3 \/ \E i \in 1 .. Pairs : k = 5 * i + 1
        BY <3>1, <3>2 DEF InProgram, OfPair, Op
      <4>2. CASE k = 3
        <5>1. tS = 0
          BY <2>2, <3>1, <4>2, MemoryUntil
        <5> QED BY <2>3, <5>1
      <4>3. CASE \E i \in 1 .. Pairs : k = 5 * i + 1
        <5>1. PICK i \in 1 .. Pairs : k = 5 * i + 1
          BY <4>3
        <5>2. tS <= i
          BY <2>2, <3>1, <5>1, MemoryUntil
        <5>3. \A w \in Compute : PStored(w) >= i
          <6>1. Issued >= 5 * i
            BY <2>2, <3>1, <5>1
          <6> QED BY <1>1, <2>1, <6>1, WaitedFor
        <5> QED BY <2>2, <2>3, <5>2, <5>3
      <4> QED BY <4>1, <4>2, <4>3
    <3>3. ASSUME op.do \in {"dP", "dQ"}
          PROVE  \E i \in 1 .. Pairs : /\ k \in {5 * i - 1, 5 * i + 2, 5 * i + 3}
                                       /\ op.do = "dP" => k = 5 * i - 1
      BY <3>1, <3>3 DEF InProgram, OfPair, Op
    <3>4. ASSUME op.do \in {"dP", "dQ"}, tdPdQ[1] = "dP"
          PROVE  \A w \in Compute : cw[w].n >= tdPdQ[2]
      <4>1. PICK i \in 1 .. Pairs : /\ k \in {5 * i - 1, 5 * i + 2, 5 * i + 3}
        BY <3>3, <3>4
      <4>2. PICK j \in 1 .. Pairs : tdPdQ[2] = j /\ Executed >= 5 * j - 1
        BY <2>2, <3>4, MemoryUntil
      <4>3. Issued >= 5 * j + 2
        BY <2>2, <3>1, <4>1, <4>2
      <4> QED BY <1>1, <2>1, <4>2, <4>3, WaitedFor
    <3>5. ASSUME op.do = "dP", tdPdQ[1] = "dQ"
          PROVE  \A r \in Reduce : dQRead(r) >= tdPdQ[2]
      <4>1. PICK i \in 1 .. Pairs : k = 5 * i - 1
        BY <3>3, <3>5
      <4>2. PICK j \in 1 .. Pairs : tdPdQ[2] = j /\ Executed >= 5 * j + 2
        BY <2>2, <3>5, MemoryUntil
      <4>3. Issued >= 5 * j + 4
        BY <2>2, <3>1, <4>1, <4>2
      <4> QED BY <1>1, <2>1, <2>3, <4>2, <4>3, WaitedFor
    <3> QED BY <3>2, <3>4, <3>5
  <2> QED BY <2>4 DEF TmemHandedOver
<1>2. CASE ~HasWork
  <2>1. Queued = {}
    BY <1>2 DEF Inv, Idle, Queued
  <2> QED BY <2>1 DEF TmemHandedOver
<1> QED BY <1>1, <1>2

LEMMA FreeFollows ==
    ASSUME Inv
    PROVE  OnlyLastdQAfterFree
<1> SUFFICES ASSUME freed
             PROVE  /\ \A w \in Compute : gdV[w] = Pairs /\ gdK[w] = Pairs
                    /\ Len(tc) <= 1 /\ \A op \in Queued : op.do = "dQ"
                    /\ mm.pc = "done" /\ ld.pc = "done" /\ inflight = {}
                    /\ \A r \in Reduce : dQRead(r) >= Pairs - 1
  BY DEF OnlyLastdQAfterFree
<1>1. HasWork /\ Typed /\ Working
  BY DEF Inv, Idle
<1>2. /\ Pairs \in Nat /\ Pairs >= 1 /\ Executed \in Nat /\ Issued \in Nat
      /\ TensorMemory(Executed) /\ Executed <= Issued /\ tdPdQ[2] \in Nat
  BY <1>1, Numbers
<1>3. \A w \in Compute : /\ cw[w].pc \in {"epilogue", "done"}
                         /\ gdV[w] = Pairs /\ gdK[w] = Pairs
  BY <1>1 DEF Working, Results
<1>4. PICK w \in Compute : cw[w].pc \in {"epilogue", "done"}
  BY <1>1, <1>3, Numbers
<1>5. tdK = Pairs /\ cw[w].n = Pairs /\ LSETaken(w) = Pairs /\ SumTaken(w) = Pairs
  BY <1>1, <1>2, <1>4, WarpBehind DEF WarpRole, LSETaken, SumTaken, After
<1>6. Executed >= 5 * Pairs + 2
  <2>1. CASE Executed \in {2, 3} /\ tdK = 0
    BY <1>2, <1>5, <2>1
  <2>2. CASE \E j \in 1 .. Pairs : DuringPair(Executed, j)
    <3>1. PICK j \in 1 .. Pairs : DuringPair(Executed, j)
      BY <2>2
    <3> QED BY <1>2, <1>5, <3>1 DEF DuringPair, Memory
  <2> QED BY <1>2, <2>1, <2>2 DEF TensorMemory, Memory
<1>7. mm.pc = "done" /\ mm.n = Pairs /\ Issued = 5 * Pairs + 3
  <2>1. mm.n \in Nat /\ Issued >= 5 * Pairs + 2
    BY <1>1, <1>2, <1>6, Numbers
  <2> QED BY <1>1, <1>2, <2>1 DEF Working, MmaRole, Issued
<1>8. Len(tc) <= 1
  <2>1. Len(tc) \in Nat
    BY <1>1 DEF Working, Queue
  <2> QED BY <1>2, <1>6, <1>7, <2>1 DEF Executed
<1>9. \A op \in Queued : op.do = "dQ"
  <2> SUFFICES ASSUME NEW op \in Queued PROVE op.do = "dQ"
    OBVIOUS
  <2>1. PICK k \in Nat : Executed < k /\ k <= Issued /\ InProgram(k, op)
    BY <1>1, InQueue
  <2>2. k = 5 * Pairs + 3
    BY <1>2, <1>6, <1>7, <2>1
  <2> QED BY <1>2, <2>1, <2>2 DEF InProgram, OfPair, Op
<1>10. ld.pc = "done" /\ ld.n = Pairs
  <2>1. cw[w].n <= SumLoads
    BY <1>1, ComputeWindow
  <2>2. ld.n >= Pairs
    BY <1>5, <2>1 DEF SumLoads
  <2>3. LoadRole
    BY <1>1 DEF Working
  <2> QED BY <1>2, <2>2, <2>3 DEF LoadRole
<1>11. inflight = {}
  <2>1. /\ QLoads = Pairs /\ LSELoads = Pairs /\ dOLoads = Pairs /\ SumLoads = Pairs
        /\ QTaken = Pairs /\ dOTaken = Pairs
    BY <1>2, <1>7, <1>10 DEF QLoads, LSELoads, dOLoads, SumLoads, QTaken, dOTaken
  <2>2. LSETaken(w) <= LSELanded /\ SumTaken(w) <= SumLanded
    BY <1>1, WarpBehind
  <2>3. Copy("LSE", 0, LSELoads) \notin inflight
    BY <1>2, <1>5, <2>1, <2>2 DEF LSELanded, Flying
  <2>4. Copy("sum", 0, SumLoads) \notin inflight
    BY <1>2, <1>5, <2>1, <2>2 DEF SumLanded, Flying
  <2>5. InFlight
    BY <1>1 DEF Working
  <2> SUFFICES ASSUME NEW c \in inflight PROVE FALSE
    OBVIOUS
  <2> QED BY <1>2, <2>1, <2>3, <2>4, <2>5 DEF InFlight
<1>12. \A r \in Reduce : dQRead(r) >= Pairs - 1
  <2>1. \A r \in Reduce : dQRead(r) = dQTaken(r) /\ tdPdQ[2] <= dQTaken(r) + 1 /\ dQTaken(r) \in Nat
    BY <1>1, WarpReads, ReduceWindow, WarpNumbers
  <2>2. tdPdQ[2] >= Pairs
    BY <1>1, <1>2, <1>5, ComputeWindow
  <2> QED BY <1>2, <2>1, <2>2
<1> QED BY <1>3, <1>7, <1>8, <1>9, <1>10, <1>11, <1>12

(* What an MMA reads is whole and of one pair from its issue to its           *)
(* execution, for every list of Q blocks and every number of warps: Q in      *)
(* particular is kept until the dK issued an iteration after S.               *)
THEOREM OperandsAreHeld == Spec => []OperandsHeld
<1>1. Inv => OperandsHeld
  BY OperandsFollow
<1> QED BY <1>1, Invariance, PTL

(* Tensor memory is overwritten when it has been read: S when every compute   *)
(* warp, dP, by dQ, when every compute warp, and dQ, by the next dP, when     *)
(* every reduce warp has.                                                     *)
THEOREM TmemIsHandedOver == Spec => []TmemHandedOver
<1>1. Inv => TmemHandedOver
  BY TmemFollows
<1> QED BY <1>1, Invariance, PTL

(* When the compute warps have freed tensor memory, dV and dK are added in    *)
(* full, and the last dQ is all that can still be in it.                      *)
THEOREM FreedWithLastdQ == Spec => []OnlyLastdQAfterFree
<1>1. Inv => OnlyLastdQAfterFree
  BY FreeFollows
<1> QED BY <1>1, Invariance, PTL

-----------------------------------------------------------------------------
(* The way of dQ out: piece i of pair n + 1 is store number n * Chunks + i, *)
(* and the reduce warps meet twice for each store.                         *)

Leader == rd[ReduceLeader]
Syncs(x) ==
    2 * StoreCount(x) + (IF x.pc = "sync0" THEN 1 ELSE IF x.pc = "sync1" THEN 2 ELSE 0)
Staged(x) == StoreCount(x) + (IF x.pc = "sync1" THEN 1 ELSE 0)
AllSyncs == [r \in Reduce |-> Syncs(rd[r])]

\* Where the reduce warps are in a pair: nobody is past a meeting alone.
Meeting ==
    /\ \A r \in Reduce :
         /\ rd[r].i < Chunks
         /\ rd[r].pc \notin {"acquire", "sync0", "sync1"} => rd[r].i = 0
         /\ rd[r].pc \notin {"sync0", "sync1"} =>
              \A q \in Reduce : Syncs(rd[q]) >= Syncs(rd[r])
    /\ AllOf(bar[ReduceSync], Reduce, AllSyncs)

\* The stores under way are among the latest two, and while the warps fill a
\* stage there is at most the latest.
UnderWay ==
    \A g \in stores :
        /\ g \in [k : Nat, pair : 1 .. Pairs, chunk : Chunk, stage : Stage]
        /\ g.k = (g.pair - 1) * Chunks + g.chunk /\ g.stage = g.k % 2
        /\ g.k < StoreCount(Leader) /\ StoreCount(Leader) <= g.k + 2
        /\ Leader.pc \in {"sync0", "sync1"} => StoreCount(Leader) = g.k + 1

\* The pieces under way are whole, and a warp that has staged its part of the
\* next one has staged the right one.
Pieces ==
    /\ sdQ \in [Stage -> [Reduce -> Nat \X Nat]]
    /\ \A r \in Reduce :
         /\ \A g \in stores : sdQ[g.stage][r] = <<g.pair, g.chunk>>
         /\ Staged(rd[r]) > StoreCount(Leader) =>
              sdQ[StoreStage(Leader)][r] = <<Leader.n + 1, Leader.i>>

\* What has reached the gradients.
Stored(p, c) ==
    /\ (p - 1) * Chunks + c < StoreCount(Leader)
    /\ \A g \in stores : ~(g.pair = p /\ g.chunk = c)
Got(b, c) == \E p \in 1 .. Pairs, h \in Stage : PairBlock(p, h) = b /\ Stored(p, c)
dQSoFar == gdQ = [b \in Block |-> [c \in Chunk |-> IF Got(b, c) THEN 1 ELSE 0]]
dKdVSoFar ==
    \A w \in Compute :
        /\ cw[w].pc \notin {"dk", "epilogue", "done"} => gdV[w] = 0
        /\ cw[w].pc \notin {"epilogue", "done"} => gdK[w] = 0

Storing == Meeting /\ UnderWay /\ Pieces /\ dQSoFar /\ dKdVSoFar

-----------------------------------------------------------------------------
(* Numbers of stores.                                                      *)

LEMMA PieceNumber ==
    ASSUME NEW n \in Nat, NEW i \in Nat, NEW C \in Nat \ {0}
    PROVE  n * C + i \in Nat /\ (n + 1) * C = n * C + C
<1>1. n * C \in Nat
  BY Z3
<1>2. (n + 1) * C = n * C + C
  BY Z3
<1> QED BY <1>1, <1>2

LEMMA PieceUnique ==
    ASSUME NEW n \in Nat, NEW m \in Nat, NEW C \in Nat \ {0}, NEW i \in 0 .. C - 1,
           NEW j \in 0 .. C - 1, n * C + i = m * C + j
    PROVE  n = m /\ i = j
<1>1. ASSUME NEW a \in Nat, NEW b \in Nat, a < b PROVE a * C + C <= b * C
  <2>1. b - a - 1 \in Nat
    BY <1>1
  <2>2. b * C = a * C + C + (b - a - 1) * C
    BY Z3
  <2>3. (b - a - 1) * C \in Nat /\ a * C \in Nat /\ b * C \in Nat
    BY <2>1, Z3
  <2> QED BY <2>2, <2>3
<1>2. n * C \in Nat /\ m * C \in Nat
  BY Z3
<1>3. ~(n < m)
  <2> SUFFICES ASSUME n < m PROVE FALSE
    OBVIOUS
  <2>1. n * C + C <= m * C
    BY <1>1
  <2> QED BY <1>2, <2>1
<1>4. ~(m < n)
  <2> SUFFICES ASSUME m < n PROVE FALSE
    OBVIOUS
  <2>1. m * C + C <= n * C
    BY <1>1
  <2> QED BY <1>2, <2>1
<1>5. n = m
  BY <1>3, <1>4
<1> QED BY <1>2, <1>5

LEMMA LaunchPieces ==
    ASSUME launch \in Launches
    PROVE  Chunks \in Nat \ {0} /\ Chunk = 0 .. Chunks - 1
  BY LaunchesAssumption DEF Chunks, Chunk

\* What a reduce warp's counters say.
LEMMA ReaderCounts ==
    ASSUME Typed, Working, NEW r \in Reduce
    PROVE  /\ rd[r].n \in Nat /\ rd[r].i \in Nat /\ StoreCount(rd[r]) \in Nat
           /\ Syncs(rd[r]) \in Nat /\ Staged(rd[r]) \in Nat
           /\ StoreCount(rd[r]) = rd[r].n * Chunks + rd[r].i
           /\ AllSyncs \in [Reduce -> Nat] /\ AllSyncs[r] = Syncs(rd[r])
<1>1. ASSUME NEW q \in Reduce
      PROVE  rd[q].n \in Nat /\ rd[q].i \in Nat /\ StoreCount(rd[q]) \in Nat
             /\ Syncs(rd[q]) \in Nat /\ Staged(rd[q]) \in Nat
  <2>1. rd[q].n \in Nat /\ rd[q].i \in Nat
    BY ReaderBehind DEF ReaderRole
  <2>2. StoreCount(rd[q]) \in Nat
    BY <2>1, PieceNumber, LaunchPieces DEF Typed, StoreCount
  <2> QED BY <2>1, <2>2 DEF Syncs, Staged
<1>2. AllSyncs \in [Reduce -> Nat] /\ AllSyncs[r] = Syncs(rd[r])
  BY <1>1 DEF AllSyncs
<1> QED BY <1>1, <1>2 DEF StoreCount

LEMMA LeaderReduces ==
    ASSUME Typed
    PROVE  ReduceLeader \in Reduce
<1>1. \E r \in Reduce : TRUE
  BY LaunchFacts DEF Typed
<1> QED BY <1>1 DEF ReduceLeader

-----------------------------------------------------------------------------
(* Steps of the other warps, and of a compute warp.                        *)

\* A step that stores nothing and at which no reduce warp meets.
LEMMA StoringFrame ==
    ASSUME Storing, UNCHANGED <<launch, rd, stores, sdQ, gdQ>>, bar'[ReduceSync] = bar[ReduceSync],
           dKdVSoFar'
    PROVE  Storing'
<1>1. Reduce' = Reduce /\ Pairs' = Pairs /\ Chunks' = Chunks /\ Chunk' = Chunk /\ Block' = Block
  BY SameLaunch DEF Chunks, Chunk, Block
<1>2. Leader' = Leader
  BY <1>1 DEF Leader, ReduceLeader
<1>3. \A x : StoreCount(x)' = StoreCount(x) /\ StoreStage(x)' = StoreStage(x)
             /\ Syncs(x)' = Syncs(x) /\ Staged(x)' = Staged(x)
  BY <1>1 DEF StoreCount, StoreStage, Syncs, Staged
<1>4. AllSyncs' = AllSyncs
  BY <1>1, <1>3 DEF AllSyncs
<1>5. Meeting'
  BY <1>1, <1>3, <1>4 DEF Storing, Meeting
<1>6. UnderWay'
  BY <1>1, <1>2, <1>3 DEF Storing, UnderWay
<1>7. Pieces'
  BY <1>1, <1>2, <1>3 DEF Storing, Pieces
<1>8. \A b, c : Got(b, c)' = Got(b, c)
  BY <1>1, <1>2, <1>3 DEF Got, Stored, PairBlock
<1>9. dQSoFar'
  BY <1>1, <1>8 DEF Storing, dQSoFar
<1> QED BY <1>5, <1>6, <1>7, <1>9 DEF Storing

LEMMA SyncElsewhere ==
    /\ ReduceSync \in BarId
    /\ \A s : ReduceSync # QFull(s) /\ ReduceSync # QEmpty(s) /\ ReduceSync # dKdVFull(s)
              /\ ReduceSync # dKdVEmpty(s)
    /\ ReduceSync \notin {dOFull, dOEmpty, LSEFull, LSEEmpty, SumFull, SumEmpty, SFull, SEmpty,
                          dPFull, dPEmpty, dQFull, dQEmpty, PFull, PEmpty, dSFull, dSEmpty,
                          TmemAlloc, ComputeSync, EpilogueSync}
  BY DEF BarId, ReduceSync, QFull, QEmpty, dKdVFull, dKdVEmpty, dOFull, dOEmpty, LSEFull, LSEEmpty,
         SumFull, SumEmpty, SFull, SEmpty, dPFull, dPEmpty, dQFull, dQEmpty, PFull, PEmpty,
         dSFull, dSEmpty, TmemAlloc, ComputeSync, EpilogueSync

LEMMA ArriveElsewhere ==
    ASSUME NEW bars, Arrive(bars), ReduceSync \notin bars
    PROVE  bar'[ReduceSync] = bar[ReduceSync]
  BY SyncElsewhere DEF Arrive

LEMMA ExpectElsewhere ==
    ASSUME NEW b, b # ReduceSync, DOMAIN bar = BarId, NEW bytes,
           ArriveAndExpect(b, bytes) \/ CompleteTx(b)
    PROVE  bar'[ReduceSync] = bar[ReduceSync]
  BY SyncElsewhere DEF ArriveAndExpect, CompleteTx

LEMMA OtherSteps ==
    ASSUME Typed, HasWork, Working, Load \/ Mma \/ TensorCore \/ \E c \in inflight : Land(c)
    PROVE  /\ bar'[ReduceSync] = bar[ReduceSync]
           /\ UNCHANGED <<launch, rd, stores, sdQ, gdQ, gdK, gdV, cw>>
<1>1. DOMAIN bar = BarId
  BY DEF Typed
<1>2. CASE Load
  <2>1. UNCHANGED <<launch, rd, stores, sdQ, gdQ, gdK, gdV, cw>>
    BY <1>2 DEF Load, LoadQ, LoadLSE, LoaddO, LoadSumOdO, output
  <2>2. CASE LoadQ
    <3>1. ArriveAndExpect(QFull(ld.n % 2), Bytes(ld.n))
      BY <2>2 DEF LoadQ
    <3>2. bar'[ReduceSync] = bar[ReduceSync]
      BY <1>1, <3>1, SyncElsewhere, ExpectElsewhere
    <3> QED BY <2>1, <3>2
  <2>3. CASE LoaddO
    <3>1. ArriveAndExpect(dOFull, Bytes(ld.n))
      BY <2>3 DEF LoaddO
    <3>2. bar'[ReduceSync] = bar[ReduceSync]
      BY <1>1, <3>1, SyncElsewhere, ExpectElsewhere
    <3> QED BY <2>1, <3>2
  <2>4. CASE LoadLSE \/ LoadSumOdO
    BY <2>1, <2>4 DEF LoadLSE, LoadSumOdO
  <2> QED BY <1>2, <2>2, <2>3, <2>4 DEF Load
<1>3. CASE Mma
  <2>1. UNCHANGED <<launch, rd, stores, sdQ, gdQ, gdK, gdV, cw>>
    BY <1>3 DEF Mma, MmaAlloc, MmaWait, MmaS, MmadQdK, MmadP, MmadV, MmaTail, MmaUnchanged, output
  <2>2. bar' = bar \/ Arrive({TmemAlloc})
    BY <1>3 DEF Mma, MmaAlloc, MmaWait, MmaS, MmadQdK, MmadP, MmadV, MmaTail
  <2> QED BY <2>1, <2>2, SyncElsewhere, ArriveElsewhere
<1>4. CASE TensorCore
  <2>1. UNCHANGED <<launch, rd, stores, sdQ, gdQ, gdK, gdV, cw>> /\ Arrive(Head(tc).arrive)
    BY <1>4 DEF TensorCore, output
  <2>2. tc \in Seq(Operation) /\ tc # <<>> /\ \A x \in DOMAIN tc : InProgram(Executed + x, tc[x])
    BY <1>4 DEF TensorCore, Working, Queue
  <2>3. Head(tc) = tc[1] /\ 1 \in DOMAIN tc
    BY <2>2
  <2>4. InProgram(Executed + 1, Head(tc))
    BY <2>2, <2>3
  <2>5. ReduceSync \notin Head(tc).arrive
    BY <2>4, SyncElsewhere DEF InProgram, OfPair, Op
  <2> QED BY <2>1, <2>5, ArriveElsewhere
<1>5. CASE \E c \in inflight : Land(c)
  <2>1. PICK c \in inflight : Land(c)
    BY <1>5
  <2>2. UNCHANGED <<launch, rd, stores, sdQ, gdQ, gdK, gdV, cw>>
    BY <2>1 DEF Land, output
  <2>3. c.to \in {"Q", "K", "LSE", "dO", "V", "sum"}
    BY DEF Working, InFlight, Copy
  <2>4. \/ CompleteTx(QFull((c.pair - 1) % 2)) \/ CompleteTx(dOFull)
        \/ Arrive({LSEFull}) \/ Arrive({SumFull})
    BY <2>1, <2>3 DEF Land
  <2>5. bar'[ReduceSync] = bar[ReduceSync]
    BY <1>1, <2>4, SyncElsewhere, ExpectElsewhere, ArriveElsewhere
  <2> QED BY <2>2, <2>5
<1> QED BY <1>2, <1>3, <1>4, <1>5

LEMMA ComputeBars ==
    ASSUME NEW w \in Compute, ComputeStep(w)
    PROVE  bar'[ReduceSync] = bar[ReduceSync] /\ UNCHANGED <<launch, rd, stores, sdQ, gdQ>>
<1>1. UNCHANGED <<launch, rd, stores, sdQ, gdQ>>
  BY DEF ComputeStep, ComputeWait, ComputeP, ComputeStoreP, ComputedS, ComputeAdd, ComputeFree,
         ComputeUnchanged
<1>2. \/ bar' = bar
      \/ \E bars \in SUBSET {TmemAlloc, ComputeSync, PFull, SEmpty, LSEEmpty, dSFull, dPEmpty,
                             SumEmpty, EpilogueSync, dKdVEmpty(0), dKdVEmpty(1)} : Arrive(bars)
  <2>1. CASE ComputeWait(w)
    BY <2>1 DEF ComputeWait
  <2>2. CASE ComputeP(w)
    BY <2>2 DEF ComputeP
  <2>3. CASE ComputeStoreP(w)
    BY <2>3 DEF ComputeStoreP
  <2>4. CASE ComputedS(w)
    BY <2>4 DEF ComputedS
  <2>5. CASE ComputeAdd(w)
    BY <2>5 DEF ComputeAdd
  <2>6. CASE ComputeFree(w)
    BY <2>6 DEF ComputeFree
  <2> QED BY <2>1, <2>2, <2>3, <2>4, <2>5, <2>6 DEF ComputeStep
<1>3. bar'[ReduceSync] = bar[ReduceSync]
  BY <1>2, SyncElsewhere, ArriveElsewhere
<1> QED BY <1>1, <1>3

\* What a step of a compute warp adds to dV and dK.
LEMMA ComputeAdds ==
    ASSUME Typed, HasWork, Working, NEW w \in Compute, ComputeStep(w)
    PROVE  /\ \A v \in Compute : v # w => cw'[v] = cw[v]
           /\ \/ /\ gdV' = gdV /\ gdK' = gdK
                 /\ cw'[w].pc \notin {"dk", "epilogue", "done"} =>
                      cw[w].pc \notin {"dk", "epilogue", "done"}
                 /\ cw'[w].pc \notin {"epilogue", "done"} => cw[w].pc \notin {"epilogue", "done"}
              \/ /\ cw[w].pc = "dv" /\ cw'[w].pc = "dk"
                 /\ gdV' = [gdV EXCEPT ![w] = Pairs] /\ gdK' = gdK
              \/ /\ cw[w].pc = "dk" /\ cw'[w].pc = "epilogue"
                 /\ gdK' = [gdK EXCEPT ![w] = Pairs] /\ gdV' = gdV
<1>1. cw \in [Compute -> [pc : {"alloc", "allocated", "s", "p", "lse", "sync", "sum", "dp",
                                "ds", "dv", "dk", "epilogue", "done"}, n : Nat, p : Nat]]
  BY DEF Working, ComputeRole
<1>2. PICK x : cw' = [cw EXCEPT ![w] = x]
  BY DEF ComputeStep, ComputeWait, ComputeP, ComputeStoreP, ComputedS, ComputeAdd, ComputeFree
<1>3. \A v \in Compute : v # w => cw'[v] = cw[v]
  BY <1>1, <1>2
<1>4. CASE ComputeAdd(w)
  <2>1. CASE cw[w].pc = "dv"
    <3>1. gdV' = [gdV EXCEPT ![w] = tdV] /\ gdK' = gdK /\ cw' = [cw EXCEPT ![w].pc = "dk"]
      BY <1>4, <2>1 DEF ComputeAdd
    <3>2. cw'[w].pc = "dk"
      BY <1>1, <3>1
    <3>3. gdV'[w] = Pairs
      <4>1. Working' /\ Compute' = Compute /\ Pairs' = Pairs
        BY WorkingStep, ComputeBars, SameLaunch DEF Next
      <4> QED BY <3>2, <4>1 DEF Working, Results
    <3>4. gdV \in [Compute -> Nat]
      BY DEF Typed
    <3> QED BY <1>3, <2>1, <3>1, <3>2, <3>3, <3>4
  <2>2. CASE cw[w].pc = "dk"
    <3>1. gdK' = [gdK EXCEPT ![w] = tdK] /\ gdV' = gdV /\ cw' = [cw EXCEPT ![w].pc = "epilogue"]
      BY <1>4, <2>2 DEF ComputeAdd
    <3>2. cw'[w].pc = "epilogue"
      BY <1>1, <3>1
    <3>3. gdK'[w] = Pairs
      <4>1. Working' /\ Compute' = Compute /\ Pairs' = Pairs
        BY WorkingStep, ComputeBars, SameLaunch DEF Next
      <4> QED BY <3>2, <4>1 DEF Working, Results
    <3>4. gdK \in [Compute -> Nat]
      BY DEF Typed
    <3> QED BY <1>3, <2>2, <3>1, <3>2, <3>3, <3>4
  <2> QED BY <1>4, <2>1, <2>2 DEF ComputeAdd
<1>5. CASE ComputeWait(w) \/ ComputeP(w) \/ ComputeStoreP(w) \/ ComputedS(w)
  <2>1. gdV' = gdV /\ gdK' = gdK /\ cw[w].pc \notin {"dk", "epilogue", "done"}
    BY <1>5 DEF ComputeWait, ComputeP, ComputeStoreP, ComputedS
  <2> QED BY <1>3, <2>1
<1>6. CASE ComputeFree(w)
  <2>1. gdV' = gdV /\ gdK' = gdK /\ cw' = [cw EXCEPT ![w].pc = "done"]
    BY <1>6 DEF ComputeFree
  <2>2. cw'[w].pc = "done"
    BY <1>1, <2>1
  <2> QED BY <1>3, <2>1, <2>2
<1> QED BY <1>4, <1>5, <1>6 DEF ComputeStep

LEMMA ComputeStores ==
    ASSUME Typed, HasWork, Working, Storing, NEW w \in Compute, ComputeStep(w)
    PROVE  Storing'
<1>1. bar'[ReduceSync] = bar[ReduceSync] /\ UNCHANGED <<launch, rd, stores, sdQ, gdQ>>
  BY ComputeBars
<1>2. Compute' = Compute
  BY <1>1, SameLaunch
<1>3. gdV \in [Compute -> Nat] /\ gdK \in [Compute -> Nat]
  BY DEF Typed
<1>4. dKdVSoFar'
  <2> SUFFICES ASSUME NEW v \in Compute
               PROVE  /\ cw'[v].pc \notin {"dk", "epilogue", "done"} => gdV'[v] = 0
                      /\ cw'[v].pc \notin {"epilogue", "done"} => gdK'[v] = 0
    BY <1>2 DEF dKdVSoFar
  <2>1. /\ cw[v].pc \notin {"dk", "epilogue", "done"} => gdV[v] = 0
        /\ cw[v].pc \notin {"epilogue", "done"} => gdK[v] = 0
    BY DEF Storing, dKdVSoFar
  <2>2. CASE v # w
    <3>1. cw'[v] = cw[v] /\ gdV'[v] = gdV[v] /\ gdK'[v] = gdK[v]
      BY <1>3, <2>2, ComputeAdds
    <3> QED BY <2>1, <3>1
  <2>3. CASE v = w
    BY <1>3, <2>1, <2>3, ComputeAdds
  <2> QED BY <2>2, <2>3
<1> QED BY <1>1, <1>4, StoringFrame

-----------------------------------------------------------------------------
(* Steps of a reduce warp.                                                 *)

LEMMA SameStores ==
    ASSUME launch' = launch
    PROVE  /\ Reduce' = Reduce /\ Pairs' = Pairs /\ Chunks' = Chunks /\ Chunk' = Chunk
           /\ Block' = Block /\ Compute' = Compute /\ ReduceLeader' = ReduceLeader
           /\ \A x : StoreCount(x)' = StoreCount(x) /\ StoreStage(x)' = StoreStage(x)
                     /\ Syncs(x)' = Syncs(x) /\ Staged(x)' = Staged(x)
           /\ \A p, h : PairBlock(p, h)' = PairBlock(p, h)
<1>1. Reduce' = Reduce /\ Pairs' = Pairs /\ Compute' = Compute
  BY SameLaunch
<1>2. Chunks' = Chunks /\ Chunk' = Chunk /\ Block' = Block
  BY DEF Chunks, Chunk, Block
<1>3. ReduceLeader' = ReduceLeader
  BY <1>1 DEF ReduceLeader
<1>4. \A x : StoreCount(x)' = StoreCount(x) /\ StoreStage(x)' = StoreStage(x)
             /\ Syncs(x)' = Syncs(x) /\ Staged(x)' = Staged(x)
  BY <1>2 DEF StoreCount, StoreStage, Syncs, Staged
<1>5. \A p, h : PairBlock(p, h)' = PairBlock(p, h)
  BY DEF PairBlock
<1> QED BY <1>1, <1>2, <1>3, <1>4, <1>5

LEMMA ReaderRegisters ==
    ASSUME Working, NEW r \in Reduce, NEW x, rd' = [rd EXCEPT ![r] = x]
    PROVE  rd'[r] = x /\ \A q \in Reduce : q # r => rd'[q] = rd[q]
  BY DEF Working, ReduceRole

\* The gradients and what is stored are as the leader's count and the stores say.
LEMMA dQStays ==
    ASSUME Storing, launch' = launch, gdQ' = gdQ,
           \A p \in 1 .. Pairs, c \in Chunk : Stored(p, c)' <=> Stored(p, c)
    PROVE  dQSoFar'
<1>1. \A b : \A c \in Chunk : Got(b, c)' = Got(b, c)
  BY SameStores DEF Got
<1> QED BY <1>1, SameStores DEF Storing, dQSoFar

\* A step outside the loop over the pieces.
LEMMA StoringMoves ==
    ASSUME Typed, HasWork, Working, Storing, NEW r \in Reduce, NEW x, rd' = [rd EXCEPT ![r] = x],
           UNCHANGED <<launch, stores, sdQ, gdQ, gdK, gdV, cw>>,
           bar'[ReduceSync] = bar[ReduceSync],
           x.n = rd[r].n, x.i = rd[r].i,
           rd[r].pc \notin {"sync0", "sync1"}, x.pc \notin {"sync0", "sync1"},
           x.pc # "acquire" => x.i = 0
    PROVE  Storing'
<1>1. /\ Reduce' = Reduce /\ Pairs' = Pairs /\ Chunks' = Chunks /\ Chunk' = Chunk
      /\ Compute' = Compute /\ ReduceLeader' = ReduceLeader
      /\ \A y : StoreCount(y)' = StoreCount(y) /\ StoreStage(y)' = StoreStage(y)
                /\ Syncs(y)' = Syncs(y) /\ Staged(y)' = Staged(y)
  BY SameStores
<1>2. /\ rd'[r] = x /\ \A q \in Reduce : q # r => rd'[q] = rd[q]
      /\ ReduceLeader \in Reduce
  BY ReaderRegisters, LeaderReduces
<1>3. /\ StoreCount(x) = StoreCount(rd[r]) /\ StoreStage(x) = StoreStage(rd[r])
      /\ Syncs(x) = Syncs(rd[r]) /\ Staged(x) = Staged(rd[r])
  BY DEF StoreCount, StoreStage, Syncs, Staged
<1>4. \A q \in Reduce :
         /\ StoreCount(rd[q])' = StoreCount(rd[q]) /\ StoreStage(rd[q])' = StoreStage(rd[q])
         /\ Syncs(rd[q])' = Syncs(rd[q]) /\ Staged(rd[q])' = Staged(rd[q])
         /\ rd'[q].n = rd[q].n /\ rd'[q].i = rd[q].i
         /\ rd'[q].pc \in {"sync0", "sync1"} <=> rd[q].pc \in {"sync0", "sync1"}
         /\ (q = r \/ rd'[q] = rd[q])
  <2> SUFFICES ASSUME NEW q \in Reduce
               PROVE  /\ StoreCount(rd'[q]) = StoreCount(rd[q])
                      /\ StoreStage(rd'[q]) = StoreStage(rd[q])
                      /\ Syncs(rd'[q]) = Syncs(rd[q]) /\ Staged(rd'[q]) = Staged(rd[q])
                      /\ rd'[q].n = rd[q].n /\ rd'[q].i = rd[q].i
                      /\ rd'[q].pc \in {"sync0", "sync1"} <=> rd[q].pc \in {"sync0", "sync1"}
                      /\ (q = r \/ rd'[q] = rd[q])
    BY <1>1
  <2>1. CASE q = r
    BY <1>2, <1>3, <2>1
  <2>2. CASE q # r
    BY <1>2, <2>2
  <2> QED BY <2>1, <2>2
<1>5. Meeting'
  <2>1. AllSyncs' = AllSyncs
    BY <1>1, <1>4 DEF AllSyncs
  <2>2. AllOf(bar'[ReduceSync], Reduce, AllSyncs)
    BY DEF Storing, Meeting
  <2>3. ASSUME NEW q \in Reduce
        PROVE  /\ rd'[q].i < Chunks
               /\ rd'[q].pc \notin {"acquire", "sync0", "sync1"} => rd'[q].i = 0
               /\ rd'[q].pc \notin {"sync0", "sync1"} =>
                    \A v \in Reduce : Syncs(rd[v]) >= Syncs(rd[q])
    <3>1. /\ rd[q].i < Chunks
          /\ rd[q].pc \notin {"acquire", "sync0", "sync1"} => rd[q].i = 0
          /\ rd[q].pc \notin {"sync0", "sync1"} =>
               \A v \in Reduce : Syncs(rd[v]) >= Syncs(rd[q])
      BY DEF Storing, Meeting
    <3> QED BY <1>2, <1>4, <3>1
  <2> QED BY <1>1, <1>4, <2>1, <2>2, <2>3 DEF Meeting
<1>6. /\ StoreCount(Leader)' = StoreCount(Leader) /\ StoreStage(Leader)' = StoreStage(Leader)
      /\ Leader'.n = Leader.n /\ Leader'.i = Leader.i
      /\ Leader'.pc \in {"sync0", "sync1"} <=> Leader.pc \in {"sync0", "sync1"}
  BY <1>1, <1>2, <1>4 DEF Leader
<1>7. UnderWay'
  BY <1>1, <1>6 DEF Storing, UnderWay
<1>8. Pieces'
  BY <1>1, <1>4, <1>6 DEF Storing, Pieces
<1>9. dQSoFar'
  BY <1>1, <1>6, dQStays DEF Stored
<1>10. dKdVSoFar'
  BY <1>1 DEF Storing, dKdVSoFar
<1> QED BY <1>5, <1>7, <1>8, <1>9, <1>10 DEF Storing

LEMMA ReduceAround ==
    ASSUME Typed, HasWork, Working, Storing, NEW r \in Reduce,
           ReduceAlloc(r) \/ ReduceRead(r) \/ ReduceTail(r)
    PROVE  Storing'
<1>1. /\ ReaderRole(rd[r])
      /\ rd[r].pc \notin {"acquire", "sync0", "sync1"} => rd[r].i = 0
  BY ReaderBehind DEF Storing, Meeting
<1>2. UNCHANGED <<launch, stores, sdQ, gdQ, gdK, gdV, cw>>
  BY DEF ReduceAlloc, ReduceRead, ReduceTail, ReduceUnchanged, output
<1>3. bar'[ReduceSync] = bar[ReduceSync]
  <2>1. bar' = bar \/ Arrive({TmemAlloc}) \/ Arrive({dQEmpty})
    BY DEF ReduceAlloc, ReduceRead, ReduceTail
  <2> QED BY <2>1, SyncElsewhere, ArriveElsewhere
<1>4. rd \in [Reduce -> [pc : {"alloc", "allocated", "dq", "acquire", "sync0", "sync1",
                               "tail", "done"}, n : Nat, i : Nat, dq : Nat]]
  BY DEF Working, ReduceRole
<1>5. CASE ReduceAlloc(r) \/ ReduceTail(r)
  <2>1. PICK pc \in {"allocated", "dq", "done"} :
          rd' = [rd EXCEPT ![r].pc = pc] /\ rd[r].pc \in {"alloc", "allocated", "tail"}
    BY <1>5 DEF ReduceAlloc, ReduceTail
  <2> DEFINE x == [rd[r] EXCEPT !.pc = pc]
  <2>2. rd' = [rd EXCEPT ![r] = x]
    BY <1>4, <2>1
  <2>3. x.pc = pc /\ x.n = rd[r].n /\ x.i = rd[r].i
    BY <1>1 DEF ReaderRole
  <2> HIDE DEF x
  <2>4. rd[r].pc \notin {"sync0", "sync1"} /\ x.pc \notin {"sync0", "sync1"}
    BY <2>1, <2>3
  <2>5. x.i = 0
    BY <1>1, <2>1, <2>3
  <2>6. x.n = rd[r].n /\ x.i = rd[r].i
    BY <2>3
  <2> QED BY <1>2, <1>3, <2>2, <2>4, <2>5, <2>6, StoringMoves
<1>6. CASE ReduceRead(r)
  <2>1. PICK d : rd' = [rd EXCEPT ![r].pc = "acquire", ![r].i = 0, ![r].dq = d]
    BY <1>6 DEF ReduceRead
  <2>2. rd[r].pc = "dq" /\ rd[r].i = 0
    BY <1>1, <1>6 DEF ReduceRead
  <2> DEFINE x == [[[rd[r] EXCEPT !.pc = "acquire"] EXCEPT !.i = 0] EXCEPT !.dq = d]
  <2>3. rd' = [rd EXCEPT ![r] = x]
    BY <1>4, <2>1
  <2>4. x.pc = "acquire" /\ x.n = rd[r].n /\ x.i = 0
    BY <1>1 DEF ReaderRole
  <2> HIDE DEF x
  <2> QED BY <1>2, <1>3, <2>2, <2>3, <2>4, StoringMoves
<1> QED BY <1>5, <1>6

\* A reduce warp arrives where all others are or have been.
LEMMA SyncArrive ==
    ASSUME Typed, HasWork, Working, Storing, NEW r \in Reduce, NEW x, rd' = [rd EXCEPT ![r] = x],
           launch' = launch, Arrive({ReduceSync}), Syncs(x) = Syncs(rd[r]) + 1,
           \A q \in Reduce : Syncs(rd[q]) >= Syncs(rd[r])
    PROVE  /\ AllOf(bar'[ReduceSync], Reduce', AllSyncs')
           /\ \A q \in Reduce : Syncs(rd[q])' = IF q = r THEN Syncs(x) ELSE Syncs(rd[q])
<1>1. /\ Reduce' = Reduce /\ \A y : Syncs(y)' = Syncs(y)
      /\ rd'[r] = x /\ \A q \in Reduce : q # r => rd'[q] = rd[q]
  BY SameStores, ReaderRegisters
<1>2. \A q \in Reduce : Syncs(rd[q])' = IF q = r THEN Syncs(x) ELSE Syncs(rd[q])
  BY <1>1
<1>3. \A q \in Reduce : Syncs(rd[q]) \in Nat /\ AllSyncs[q] = Syncs(rd[q])
  BY ReaderCounts
<1>4. AllSyncs \in [Reduce -> Nat] /\ AllOf(bar[ReduceSync], Reduce, AllSyncs)
  BY ReaderCounts DEF Storing, Meeting
<1>5. /\ AllSyncs' = [q \in Reduce |-> IF q = r THEN Syncs(x) ELSE Syncs(rd[q])]
  BY <1>1, <1>2 DEF AllSyncs
<1>6. /\ AllSyncs' \in [Reduce -> Nat] /\ AllSyncs'[r] = AllSyncs[r] + 1
      /\ \A q \in Reduce : q # r => AllSyncs'[q] = AllSyncs[q]
      /\ \A q \in Reduce : AllSyncs[q] >= AllSyncs[r]
  BY <1>3, <1>5
<1>7. IsFiniteSet(Reduce) /\ Expected(ReduceSync) = Cardinality(Reduce)
  BY Numbers DEF Expected, ReduceSync
<1>8. bar'[ReduceSync] = Arrived(ReduceSync)
  BY SyncElsewhere, ArriveEffect
<1>9. AllOf(Arrived(ReduceSync), Reduce, AllSyncs')
  BY <1>4, <1>6, <1>7, AllArrive
<1> QED BY <1>1, <1>2, <1>8, <1>9

\* Nobody is past a meeting that a reduce warp has been let out of.
LEMMA SyncWait ==
    ASSUME Typed, HasWork, Working, Storing, NEW r \in Reduce, NEW q \in Nat,
           Syncs(rd[r]) = q + 1, Done(ReduceSync, q % 2)
    PROVE  \A v \in Reduce : Syncs(rd[v]) \in {q + 1, q + 2}
<1>1. \A v \in Reduce : AllSyncs[v] = Syncs(rd[v])
  BY ReaderCounts
<1>2. PICK p \in Nat : /\ bar[ReduceSync].par = p % 2
                       /\ \A v \in Reduce : AllSyncs[v] \in {p, p + 1}
  BY DEF Storing, Meeting, AllOf
<1>3. p = q \/ p = q + 1
  BY <1>1, <1>2
<1>4. p # q
  BY <1>2 DEF Done
<1> QED BY <1>1, <1>2, <1>3, <1>4

\* The counts after a step of reduce warp r to x.
LEMMA CountsAfter ==
    ASSUME Typed, Working, NEW r \in Reduce, NEW x, rd' = [rd EXCEPT ![r] = x], launch' = launch
    PROVE  /\ \A q \in Reduce :
                /\ StoreCount(rd[q])' = IF q = r THEN StoreCount(x) ELSE StoreCount(rd[q])
                /\ Syncs(rd[q])' = IF q = r THEN Syncs(x) ELSE Syncs(rd[q])
                /\ Staged(rd[q])' = IF q = r THEN Staged(x) ELSE Staged(rd[q])
           /\ Leader' = IF r = ReduceLeader THEN x ELSE Leader
           /\ StoreCount(Leader)' = IF r = ReduceLeader THEN StoreCount(x) ELSE StoreCount(Leader)
           /\ StoreStage(Leader)' = IF r = ReduceLeader THEN StoreStage(x) ELSE StoreStage(Leader)
<1>1. /\ ReduceLeader' = ReduceLeader
      /\ \A y : StoreCount(y)' = StoreCount(y) /\ StoreStage(y)' = StoreStage(y)
                /\ Syncs(y)' = Syncs(y) /\ Staged(y)' = Staged(y)
      /\ rd'[r] = x /\ \A q \in Reduce : q # r => rd'[q] = rd[q]
      /\ ReduceLeader \in Reduce
  BY SameStores, ReaderRegisters, LeaderReduces
<1>2. Leader' = IF r = ReduceLeader THEN x ELSE Leader
  BY <1>1 DEF Leader
<1>3. /\ StoreCount(Leader)' = IF r = ReduceLeader THEN StoreCount(x) ELSE StoreCount(Leader)
      /\ StoreStage(Leader)' = IF r = ReduceLeader THEN StoreStage(x) ELSE StoreStage(Leader)
  BY <1>1, <1>2
<1>4. ASSUME NEW q \in Reduce
      PROVE  /\ StoreCount(rd[q])' = IF q = r THEN StoreCount(x) ELSE StoreCount(rd[q])
             /\ Syncs(rd[q])' = IF q = r THEN Syncs(x) ELSE Syncs(rd[q])
             /\ Staged(rd[q])' = IF q = r THEN Staged(x) ELSE Staged(rd[q])
  BY <1>1
<1> QED BY <1>2, <1>3, <1>4

LEMMA MeetingStep ==
    ASSUME Typed, HasWork, Working, Storing, NEW r \in Reduce, NEW x, rd' = [rd EXCEPT ![r] = x],
           launch' = launch, AllOf(bar'[ReduceSync], Reduce', AllSyncs'),
           Syncs(x) \in Nat, Syncs(rd[r]) <= Syncs(x), x.i < Chunks,
           x.pc \notin {"acquire", "sync0", "sync1"} => x.i = 0,
           x.pc \notin {"sync0", "sync1"} => \A q \in Reduce : q # r => Syncs(rd[q]) >= Syncs(x)
    PROVE  Meeting'
<1>1. /\ Reduce' = Reduce /\ Chunks' = Chunks
      /\ rd'[r] = x /\ \A q \in Reduce : q # r => rd'[q] = rd[q]
      /\ \A q \in Reduce : Syncs(rd[q])' = IF q = r THEN Syncs(x) ELSE Syncs(rd[q])
  BY SameStores, ReaderRegisters, CountsAfter
<1>2. \A q \in Reduce : Syncs(rd[q]) \in Nat
  BY ReaderCounts
<1>3. ASSUME NEW q \in Reduce
      PROVE  /\ rd'[q].i < Chunks
             /\ rd'[q].pc \notin {"acquire", "sync0", "sync1"} => rd'[q].i = 0
             /\ rd'[q].pc \notin {"sync0", "sync1"} =>
                  \A v \in Reduce : Syncs(rd[v])' >= Syncs(rd[q])'
  <2>1. CASE q = r
    BY <1>1, <1>2, <2>1
  <2>2. CASE q # r
    <3>1. /\ rd[q].i < Chunks
          /\ rd[q].pc \notin {"acquire", "sync0", "sync1"} => rd[q].i = 0
          /\ rd[q].pc \notin {"sync0", "sync1"} =>
               \A v \in Reduce : Syncs(rd[v]) >= Syncs(rd[q])
      BY DEF Storing, Meeting
    <3>2. \A v \in Reduce : Syncs(rd[v])' >= Syncs(rd[v])
      BY <1>1, <1>2
    <3>3. Syncs(rd[q])' = Syncs(rd[q]) /\ rd'[q] = rd[q]
      BY <1>1, <2>2
    <3>4. \A v \in Reduce : Syncs(rd[v])' \in Nat
      BY <1>1, <1>2
    <3> QED BY <1>2, <3>1, <3>2, <3>3, <3>4
  <2> QED BY <2>1, <2>2
<1> QED BY <1>1, <1>3 DEF Meeting

LEMMA ReduceAcquireStores ==
    ASSUME Typed, HasWork, Working, Storing, NEW r \in Reduce, ReduceAcquire(r)
    PROVE  Storing'
<1> DEFINE x == [rd[r] EXCEPT !.pc = "sync0"]
<1>1. /\ rd[r].pc = "acquire"
      /\ r = ReduceLeader => \A g \in stores : g.k = StoreCount(rd[r]) - 1
      /\ Arrive({ReduceSync}) /\ rd' = [rd EXCEPT ![r] = x]
      /\ UNCHANGED <<launch, stores, sdQ, gdQ, gdK, gdV, cw>>
  BY DEF ReduceAcquire, ReduceUnchanged, output
<1>2. /\ x.pc = "sync0" /\ x.n = rd[r].n /\ x.i = rd[r].i
  BY ReaderBehind DEF ReaderRole
<1> HIDE DEF x
<1>3. /\ StoreCount(rd[r]) \in Nat /\ StoreCount(x) = StoreCount(rd[r])
      /\ StoreStage(x) = StoreStage(rd[r]) /\ Staged(x) = Staged(rd[r])
      /\ Syncs(x) = Syncs(rd[r]) + 1 /\ Syncs(rd[r]) \in Nat
  <2>1. StoreCount(rd[r]) \in Nat /\ Syncs(rd[r]) \in Nat
    BY ReaderCounts
  <2>2. StoreCount(x) = StoreCount(rd[r])
    BY <1>2 DEF StoreCount
  <2> QED BY <1>1, <1>2, <2>1, <2>2 DEF StoreStage, Staged, Syncs
<1>4. rd[r].i < Chunks /\ \A q \in Reduce : Syncs(rd[q]) >= Syncs(rd[r])
  BY <1>1 DEF Storing, Meeting
<1>5. AllOf(bar'[ReduceSync], Reduce', AllSyncs')
  BY <1>1, <1>3, <1>4, SyncArrive
<1>6. Meeting'
  <2>1. Syncs(x) \in Nat /\ Syncs(rd[r]) <= Syncs(x)
    BY <1>3
  <2> QED BY <1>1, <1>2, <1>4, <1>5, <2>1, MeetingStep
<1>7. /\ Reduce' = Reduce /\ Pairs' = Pairs /\ Chunks' = Chunks /\ Chunk' = Chunk
      /\ Compute' = Compute
  BY <1>1, SameStores
<1>8. /\ StoreCount(Leader)' = StoreCount(Leader) /\ StoreStage(Leader)' = StoreStage(Leader)
      /\ Leader'.n = Leader.n /\ Leader'.i = Leader.i
      /\ \A q \in Reduce : Staged(rd[q])' = Staged(rd[q])
  <2>1. r = ReduceLeader => Leader = rd[r]
    BY DEF Leader
  <2>2. /\ \A q \in Reduce : Staged(rd[q])' = IF q = r THEN Staged(x) ELSE Staged(rd[q])
        /\ Leader' = IF r = ReduceLeader THEN x ELSE Leader
        /\ StoreCount(Leader)' = IF r = ReduceLeader THEN StoreCount(x) ELSE StoreCount(Leader)
        /\ StoreStage(Leader)' = IF r = ReduceLeader THEN StoreStage(x) ELSE StoreStage(Leader)
    BY <1>1, CountsAfter
  <2> QED BY <1>2, <1>3, <2>1, <2>2
<1>9. UnderWay'
  <2>1. Leader'.pc \in {"sync0", "sync1"} =>
          \/ Leader.pc \in {"sync0", "sync1"}
          \/ \A g \in stores : g.k = StoreCount(Leader) - 1
    BY <1>1, CountsAfter DEF Leader
  <2>2. \A g \in stores :
          /\ g \in [k : Nat, pair : 1 .. Pairs, chunk : Chunk, stage : Stage]
          /\ g.k = (g.pair - 1) * Chunks + g.chunk /\ g.stage = g.k % 2
          /\ g.k < StoreCount(Leader) /\ StoreCount(Leader) <= g.k + 2
          /\ Leader'.pc \in {"sync0", "sync1"} => StoreCount(Leader) = g.k + 1
    <3>1. StoreCount(Leader) \in Nat
      BY LeaderReduces, ReaderCounts DEF Leader
    <3> QED BY <2>1, <3>1 DEF Storing, UnderWay
  <2> QED BY <1>1, <1>7, <1>8, <2>2 DEF UnderWay
<1>10. Pieces'
  BY <1>1, <1>7, <1>8 DEF Storing, Pieces
<1>11. dQSoFar'
  BY <1>1, <1>7, <1>8, dQStays DEF Stored
<1>12. dKdVSoFar'
  BY <1>1, <1>7 DEF Storing, dKdVSoFar
<1> QED BY <1>6, <1>9, <1>10, <1>11, <1>12 DEF Storing

\* Where the leader is when a reduce warp has been let out of the first meeting.
LEMMA LeaderStages ==
    ASSUME Typed, HasWork, Working, Storing, NEW r \in Reduce, rd[r].pc = "sync0",
           Done(ReduceSync, 0)
    PROVE  /\ Leader.pc \in {"sync0", "sync1"} /\ StoreCount(Leader) = StoreCount(rd[r])
           /\ Leader.n = rd[r].n /\ Leader.i = rd[r].i
           /\ \A q \in Reduce : Syncs(rd[q]) >= Syncs(rd[r])
<1> DEFINE k == StoreCount(rd[r])
           l == StoreCount(Leader)
<1>1. ReduceLeader \in Reduce /\ Leader = rd[ReduceLeader]
  BY LeaderReduces DEF Leader
<1>2. /\ k \in Nat /\ l \in Nat /\ Syncs(rd[r]) = 2 * k + 1
      /\ Syncs(Leader) = 2 * l + (IF Leader.pc = "sync0" THEN 1 ELSE IF Leader.pc = "sync1" THEN 2
                                  ELSE 0)
  BY <1>1, ReaderCounts DEF Syncs
<1>3. \A v \in Reduce : Syncs(rd[v]) \in {2 * k + 1, 2 * k + 2}
  <2>1. 2 * k \in Nat /\ (2 * k) % 2 = 0
    BY <1>2
  <2> QED BY <1>2, <2>1, SyncWait
<1>4. Leader.pc \in {"sync0", "sync1"}
  <2> SUFFICES ASSUME Leader.pc \notin {"sync0", "sync1"} PROVE FALSE
    OBVIOUS
  <2>1. Syncs(Leader) = 2 * l /\ Syncs(rd[r]) >= Syncs(Leader)
    BY <1>1, <1>2 DEF Storing, Meeting
  <2>2. 2 * l \in {2 * k + 1, 2 * k + 2}
    BY <1>1, <1>3, <2>1
  <2> QED BY <1>2, <2>1, <2>2
<1>5. l = k
  <2>1. Syncs(Leader) \in {2 * k + 1, 2 * k + 2}
    BY <1>1, <1>3
  <2> QED BY <1>2, <1>4, <2>1
<1>6. Leader.n = rd[r].n /\ Leader.i = rd[r].i
  <2>1. /\ rd[r].n \in Nat /\ rd[r].i \in Nat /\ Leader.n \in Nat /\ Leader.i \in Nat
        /\ rd[r].n * Chunks + rd[r].i = Leader.n * Chunks + Leader.i
    BY <1>1, <1>5, ReaderCounts
  <2>2. rd[r].i < Chunks /\ Leader.i < Chunks
    BY <1>1 DEF Storing, Meeting
  <2>3. Chunks \in Nat \ {0}
    BY LaunchPieces DEF Typed
  <2>4. rd[r].i \in 0 .. Chunks - 1 /\ Leader.i \in 0 .. Chunks - 1
    BY <2>1, <2>2, <2>3
  <2>5. \A n, m \in Nat : \A i, j \in 0 .. Chunks - 1 :
          n * Chunks + i = m * Chunks + j => n = m /\ i = j
    BY <2>3, PieceUnique
  <2> QED BY <2>1, <2>4, <2>5
<1>7. \A q \in Reduce : Syncs(rd[q]) >= Syncs(rd[r])
  BY <1>2, <1>3
<1> QED BY <1>4, <1>5, <1>6, <1>7

LEMMA StagesDiffer ==
    ASSUME NEW k \in Nat
    PROVE  k % 2 \in Stage /\ (k + 1) % 2 # k % 2
  BY Parity DEF Stage

LEMMA ReduceStageStores ==
    ASSUME Typed, HasWork, Working, Storing, NEW r \in Reduce, ReduceStage(r)
    PROVE  Storing'
<1> DEFINE x == [rd[r] EXCEPT !.pc = "sync1"]
           s == StoreStage(rd[r])
<1>1. /\ rd[r].pc = "sync0" /\ Done(ReduceSync, 0)
      /\ Arrive({ReduceSync}) /\ rd' = [rd EXCEPT ![r] = x]
      /\ sdQ' = [sdQ EXCEPT ![s][r] = <<rd[r].dq, rd[r].i>>]
      /\ UNCHANGED <<launch, stores, gdQ, gdK, gdV, cw>>
  BY DEF ReduceStage, ReduceUnchanged, output
<1>2. /\ x.pc = "sync1" /\ x.n = rd[r].n /\ x.i = rd[r].i
      /\ rd[r].dq = rd[r].n + 1 /\ rd[r].n \in Nat /\ rd[r].i \in Nat
  BY <1>1, ReaderBehind DEF ReaderRole
<1> HIDE DEF x
<1>3. /\ StoreCount(rd[r]) \in Nat /\ StoreCount(x) = StoreCount(rd[r])
      /\ StoreStage(x) = StoreStage(rd[r]) /\ Staged(x) = StoreCount(rd[r]) + 1
      /\ Syncs(x) = Syncs(rd[r]) + 1 /\ Syncs(rd[r]) \in Nat
  <2>1. StoreCount(rd[r]) \in Nat /\ Syncs(rd[r]) \in Nat
    BY ReaderCounts
  <2>2. StoreCount(x) = StoreCount(rd[r])
    BY <1>2 DEF StoreCount
  <2>3. StoreStage(x) = StoreStage(rd[r])
    BY <2>2 DEF StoreStage
  <2>4. Staged(x) = StoreCount(rd[r]) + 1
    BY <1>2, <2>2 DEF Staged
  <2>5. Syncs(x) = Syncs(rd[r]) + 1
    BY <1>1, <1>2, <2>1, <2>2 DEF Syncs
  <2> QED BY <2>1, <2>2, <2>3, <2>4, <2>5
<1>4. /\ Leader.pc \in {"sync0", "sync1"} /\ StoreCount(Leader) = StoreCount(rd[r])
      /\ Leader.n = rd[r].n /\ Leader.i = rd[r].i
      /\ \A q \in Reduce : Syncs(rd[q]) >= Syncs(rd[r])
  BY <1>1, LeaderStages
<1>5. Meeting'
  <2>1. Syncs(x) \in Nat /\ Syncs(rd[r]) <= Syncs(x)
    BY <1>3
  <2>2. AllOf(bar'[ReduceSync], Reduce', AllSyncs')
    BY <1>1, <1>3, <1>4, SyncArrive
  <2>3. rd[r].i < Chunks
    BY DEF Storing, Meeting
  <2> QED BY <1>1, <1>2, <2>1, <2>2, <2>3, MeetingStep
<1>6. /\ Reduce' = Reduce /\ Pairs' = Pairs /\ Chunks' = Chunks /\ Chunk' = Chunk
      /\ Compute' = Compute
  BY <1>1, SameStores
<1>7. /\ StoreCount(Leader)' = StoreCount(Leader) /\ StoreStage(Leader)' = StoreStage(Leader)
      /\ Leader'.n = Leader.n /\ Leader'.i = Leader.i
      /\ Leader'.pc \in {"sync0", "sync1"}
      /\ \A q \in Reduce : Staged(rd[q])' = IF q = r THEN Staged(x) ELSE Staged(rd[q])
  <2>1. r = ReduceLeader => Leader = rd[r]
    BY DEF Leader
  <2>2. /\ \A q \in Reduce : Staged(rd[q])' = IF q = r THEN Staged(x) ELSE Staged(rd[q])
        /\ Leader' = IF r = ReduceLeader THEN x ELSE Leader
        /\ StoreCount(Leader)' = IF r = ReduceLeader THEN StoreCount(x) ELSE StoreCount(Leader)
        /\ StoreStage(Leader)' = IF r = ReduceLeader THEN StoreStage(x) ELSE StoreStage(Leader)
    BY <1>1, CountsAfter
  <2> QED BY <1>2, <1>3, <1>4, <2>1, <2>2
<1>8. UnderWay'
  <2>1. \A g \in stores :
          /\ g \in [k : Nat, pair : 1 .. Pairs, chunk : Chunk, stage : Stage]
          /\ g.k = (g.pair - 1) * Chunks + g.chunk /\ g.stage = g.k % 2
          /\ g.k < StoreCount(Leader) /\ StoreCount(Leader) <= g.k + 2
          /\ StoreCount(Leader) = g.k + 1
    BY <1>4 DEF Storing, UnderWay
  <2> QED BY <1>1, <1>6, <1>7, <2>1 DEF UnderWay
<1>9. Pieces'
  <2>1. s = StoreStage(Leader) /\ s = StoreCount(Leader) % 2 /\ s \in Stage
    BY <1>3, <1>4, StagesDiffer DEF StoreStage
  <2>2. sdQ \in [Stage -> [Reduce -> Nat \X Nat]]
    BY DEF Storing, Pieces
  <2>3. <<rd[r].dq, rd[r].i>> = <<Leader.n + 1, Leader.i>> /\ <<rd[r].dq, rd[r].i>> \in Nat \X Nat
    BY <1>2, <1>4
  <2>4. /\ sdQ' \in [Stage -> [Reduce -> Nat \X Nat]]
        /\ sdQ'[s][r] = <<Leader.n + 1, Leader.i>>
        /\ \A t \in Stage, q \in Reduce : (t # s \/ q # r) => sdQ'[t][q] = sdQ[t][q]
    <3> DEFINE v == <<rd[r].dq, rd[r].i>>
    <3>1. v \in Nat \X Nat /\ v = <<Leader.n + 1, Leader.i>> /\ sdQ' = [sdQ EXCEPT ![s][r] = v]
      BY <1>1, <2>3
    <3> HIDE DEF v, s
    <3> QED BY <2>1, <2>2, <3>1
  <2>5. ASSUME NEW q \in Reduce, NEW g \in stores
        PROVE  sdQ'[g.stage][q] = <<g.pair, g.chunk>>
    <3>1. sdQ[g.stage][q] = <<g.pair, g.chunk>>
      BY DEF Storing, Pieces
    <3>2. /\ g.stage \in Stage /\ g.k \in Nat /\ g.stage = g.k % 2
          /\ StoreCount(Leader) = g.k + 1
      BY <1>4 DEF Storing, UnderWay
    <3>3. g.stage # s
      BY <2>1, <3>2, StagesDiffer
    <3> QED BY <2>4, <3>1, <3>2, <3>3
  <2>6. ASSUME NEW q \in Reduce, Staged(rd[q])' > StoreCount(Leader)
        PROVE  sdQ'[StoreStage(Leader)][q] = <<Leader.n + 1, Leader.i>>
    <3>1. CASE q = r
      BY <2>1, <2>4, <3>1
    <3>2. CASE q # r
      <4>1. sdQ[StoreStage(Leader)][q] = <<Leader.n + 1, Leader.i>>
        BY <1>7, <2>6, <3>2 DEF Storing, Pieces
      <4> QED BY <2>1, <2>4, <3>2, <4>1
    <3> QED BY <3>1, <3>2
  <2> QED BY <1>1, <1>6, <1>7, <2>4, <2>5, <2>6 DEF Pieces
<1>10. dQSoFar'
  BY <1>1, <1>6, <1>7, dQStays DEF Stored
<1>11. dKdVSoFar'
  BY <1>1, <1>6 DEF Storing, dKdVSoFar
<1> QED BY <1>5, <1>8, <1>9, <1>10, <1>11 DEF Storing

\* The store of a piece: every warp has staged its part.
LEMMA AllStaged ==
    ASSUME Typed, HasWork, Working, Storing, NEW r \in Reduce, rd[r].pc = "sync1",
           Done(ReduceSync, 1)
    PROVE  \A q \in Reduce : Staged(rd[q]) = StoreCount(rd[r]) + 1
<1> DEFINE k == StoreCount(rd[r])
<1>1. k \in Nat /\ Syncs(rd[r]) = 2 * k + 2
  BY ReaderCounts DEF Syncs
<1>2. \A q \in Reduce : Syncs(rd[q]) \in {2 * k + 2, 2 * k + 3}
  <2>1. 2 * k + 1 \in Nat /\ (2 * k + 1) % 2 = 1 /\ Syncs(rd[r]) = (2 * k + 1) + 1
    BY <1>1
  <2>2. \A q \in Reduce : Syncs(rd[q]) \in {(2 * k + 1) + 1, (2 * k + 1) + 2}
    BY <2>1, SyncWait
  <2> QED BY <1>1, <2>2
<1> SUFFICES ASSUME NEW q \in Reduce PROVE Staged(rd[q]) = k + 1
  OBVIOUS
<1> DEFINE m == StoreCount(rd[q])
<1>3. /\ m \in Nat
      /\ Syncs(rd[q]) = 2 * m + (IF rd[q].pc = "sync0" THEN 1 ELSE IF rd[q].pc = "sync1" THEN 2
                                 ELSE 0)
      /\ Staged(rd[q]) = m + (IF rd[q].pc = "sync1" THEN 1 ELSE 0)
  BY ReaderCounts DEF Syncs, Staged
<1>4. Syncs(rd[q]) \in {2 * k + 2, 2 * k + 3}
  BY <1>2
<1> HIDE DEF k, m
<1> QED BY <1>1, <1>3, <1>4

\* The counts of the next piece.
LEMMA NextCounts ==
    ASSUME Typed, HasWork, Working, Storing, NEW r \in Reduce, rd[r].pc = "sync1"
    PROVE  LET x == NextPiece(rd[r]) IN
           /\ StoreCount(x) = StoreCount(rd[r]) + 1
           /\ Syncs(x) = Syncs(rd[r]) /\ Staged(x) = Staged(rd[r])
           /\ x.i \in Nat /\ x.i < Chunks /\ x.pc \notin {"sync0", "sync1"}
           /\ x.pc # "acquire" => x.i = 0
<1> DEFINE x == NextPiece(rd[r])
           n == rd[r].n
           i == rd[r].i
<1>1. n \in Nat /\ i \in Nat /\ StoreCount(rd[r]) = n * Chunks + i /\ StoreCount(rd[r]) \in Nat
  BY ReaderCounts
<1>2. Chunks \in Nat \ {0} /\ i < Chunks
  BY LaunchPieces DEF Typed, Storing, Meeting
<1>3. /\ x.n = IF i + 1 = Chunks THEN n + 1 ELSE n
      /\ x.i = IF i + 1 = Chunks THEN 0 ELSE i + 1
      /\ x.pc \in {"acquire", "dq", "tail"}
      /\ x.pc # "acquire" => i + 1 = Chunks
  BY DEF NextPiece
<1> HIDE DEF x
<1>4. x.n * Chunks + x.i = n * Chunks + i + 1
  <2>1. n * Chunks \in Nat /\ (n + 1) * Chunks = n * Chunks + Chunks
    <3>1. \A C \in Nat : n * C \in Nat /\ (n + 1) * C = n * C + C
      BY <1>1, Z3
    <3> QED BY <1>2, <3>1
  <2>2. CASE i + 1 = Chunks
    <3>1. x.n = n + 1 /\ x.i = 0
      BY <1>3, <2>2
    <3>2. x.n * Chunks + x.i = n * Chunks + Chunks + 0
      BY <2>1, <3>1
    <3> HIDE DEF n, i
    <3> QED BY <1>1, <1>2, <2>1, <2>2, <3>2
  <2>3. CASE i + 1 # Chunks
    <3>1. x.n = n /\ x.i = i + 1
      BY <1>3, <2>3
    <3> HIDE DEF n, i
    <3> QED BY <1>1, <2>1, <3>1
  <2> QED BY <2>2, <2>3
<1>5. StoreCount(x) = StoreCount(rd[r]) + 1
  BY <1>1, <1>4 DEF StoreCount
<1>6. Syncs(x) = Syncs(rd[r]) /\ Staged(x) = Staged(rd[r])
  BY <1>1, <1>3, <1>5 DEF Syncs, Staged
<1>7. x.i \in Nat /\ x.i < Chunks /\ (x.pc # "acquire" => x.i = 0)
  BY <1>1, <1>2, <1>3
<1> QED BY <1>3, <1>5, <1>6, <1>7 DEF x

LEMMA ReduceStoreStores ==
    ASSUME Typed, HasWork, Working, Storing, NEW r \in Reduce, ReduceStore(r)
    PROVE  Storing'
<1> DEFINE x == NextPiece(rd[r])
           k == StoreCount(rd[r])
           new == [k |-> k, pair |-> rd[r].n + 1, chunk |-> rd[r].i, stage |-> k % 2]
<1>1. /\ rd[r].pc = "sync1" /\ Done(ReduceSync, 1) /\ bar' = bar
      /\ rd' = [rd EXCEPT ![r] = x]
      /\ stores' = IF r = ReduceLeader THEN stores \cup {new} ELSE stores
      /\ UNCHANGED <<launch, sdQ, gdQ, gdK, gdV, cw>>
  BY StoreRegisters DEF ReduceStore, ReduceUnchanged, output, StoreStage
<1>2. /\ k \in Nat /\ StoreCount(x) = k + 1
      /\ Syncs(x) = Syncs(rd[r]) /\ Staged(x) = Staged(rd[r]) /\ Syncs(rd[r]) \in Nat
      /\ x.i \in Nat /\ x.i < Chunks /\ x.pc \notin {"sync0", "sync1"}
      /\ x.pc # "acquire" => x.i = 0
  BY <1>1, NextCounts, ReaderCounts
<1> HIDE DEF x
<1>3. \A q \in Reduce : Staged(rd[q]) = k + 1
  BY <1>1, AllStaged
<1>4. /\ Reduce' = Reduce /\ Pairs' = Pairs /\ Chunks' = Chunks /\ Chunk' = Chunk
      /\ Compute' = Compute /\ ReduceLeader' = ReduceLeader
  BY <1>1, SameStores
<1>5. \A q \in Reduce : Syncs(rd[q])' = Syncs(rd[q]) /\ Staged(rd[q])' = Staged(rd[q])
  <2>1. \A q \in Reduce : /\ Syncs(rd[q])' = IF q = r THEN Syncs(x) ELSE Syncs(rd[q])
                          /\ Staged(rd[q])' = IF q = r THEN Staged(x) ELSE Staged(rd[q])
    BY <1>1, CountsAfter
  <2> QED BY <1>2, <2>1
<1>6. Meeting'
  <2>1. AllSyncs' = AllSyncs
    BY <1>4, <1>5 DEF AllSyncs
  <2>2. AllOf(bar'[ReduceSync], Reduce', AllSyncs')
    BY <1>1, <1>4, <2>1 DEF Storing, Meeting
  <2>3. \A q \in Reduce : Syncs(rd[q]) >= Syncs(x)
    <3>1. (2 * k + 1) % 2 = 1 /\ 2 * k + 1 \in Nat /\ Syncs(rd[r]) = (2 * k + 1) + 1
      BY <1>1, <1>2 DEF Syncs
    <3>2. \A q \in Reduce : Syncs(rd[q]) \in {(2 * k + 1) + 1, (2 * k + 1) + 2}
      BY <1>1, <3>1, SyncWait
    <3>3. Syncs(x) = (2 * k + 1) + 1
      BY <1>2, <3>1
    <3> QED BY <1>2, <3>2, <3>3
  <2>4. Syncs(x) \in Nat /\ Syncs(rd[r]) <= Syncs(x)
    BY <1>2
  <2> QED BY <1>1, <1>2, <2>2, <2>3, <2>4, MeetingStep
<1>7. /\ Leader' = IF r = ReduceLeader THEN x ELSE Leader
      /\ StoreCount(Leader)' = IF r = ReduceLeader THEN k + 1 ELSE StoreCount(Leader)
      /\ StoreStage(Leader)' = IF r = ReduceLeader THEN StoreStage(x) ELSE StoreStage(Leader)
  BY <1>1, <1>2, CountsAfter
<1>8. dKdVSoFar'
  BY <1>1, <1>4 DEF Storing, dKdVSoFar
<1>9. CASE r # ReduceLeader
  <2>1. /\ stores' = stores /\ Leader' = Leader /\ StoreCount(Leader)' = StoreCount(Leader)
        /\ StoreStage(Leader)' = StoreStage(Leader)
    BY <1>1, <1>7, <1>9
  <2>2. UnderWay'
    BY <1>4, <2>1 DEF Storing, UnderWay
  <2>3. Pieces'
    BY <1>1, <1>4, <1>5, <2>1 DEF Storing, Pieces
  <2>4. dQSoFar'
    BY <1>1, <1>4, <2>1, dQStays DEF Stored
  <2> QED BY <1>6, <1>8, <2>2, <2>3, <2>4 DEF Storing
<1>10. CASE r = ReduceLeader
  <2>1. Leader = rd[r] /\ Leader' = x /\ StoreCount(Leader) = k /\ StoreCount(Leader)' = k + 1
    BY <1>7, <1>10 DEF Leader
  <2>2. /\ rd[r].n \in Nat /\ rd[r].i \in Nat /\ rd[r].n < Pairs /\ rd[r].i < Chunks
        /\ k = rd[r].n * Chunks + rd[r].i /\ Pairs \in Nat /\ Chunks \in Nat \ {0}
        /\ Chunk = 0 .. Chunks - 1
    BY <1>1, ReaderCounts, ReaderBehind, Numbers, LaunchPieces
       DEF ReaderRole, Storing, Meeting, Typed
  <2>3. /\ new \in [k : Nat, pair : 1 .. Pairs, chunk : Chunk, stage : Stage]
        /\ new.k = k /\ new.pair = rd[r].n + 1 /\ new.chunk = rd[r].i /\ new.stage = k % 2
    <3>1. rd[r].n + 1 \in 1 .. Pairs
      <4>1. \A n, m \in Nat : n < m => n + 1 \in 1 .. m
        OBVIOUS
      <4>2. rd[r].n \in Nat /\ Pairs \in Nat /\ rd[r].n < Pairs
        BY <2>2
      <4> QED BY <4>1, <4>2
    <3>2. rd[r].i \in Chunk
      BY <2>2
    <3>3. k \in Nat /\ k % 2 \in Stage
      BY <1>2, StagesDiffer
    <3> HIDE DEF k
    <3> QED BY <3>1, <3>2, <3>3
  <2>P. \A n, m \in Nat : \A i, j \in 0 .. Chunks - 1 :
          n * Chunks + i = m * Chunks + j => n = m /\ i = j
    <3>1. Chunks \in Nat \ {0}
      BY <2>2
    <3> QED BY <3>1, PieceUnique
  <2> HIDE DEF new
  <2>4. stores' = stores \cup {new}
    BY <1>1, <1>10
  <2>5. UnderWay'
    <3> SUFFICES ASSUME NEW g \in stores'
                 PROVE  /\ g \in [k : Nat, pair : 1 .. Pairs, chunk : Chunk, stage : Stage]
                        /\ g.k = (g.pair - 1) * Chunks + g.chunk /\ g.stage = g.k % 2
                        /\ g.k < k + 1 /\ k + 1 <= g.k + 2
      BY <1>2, <1>4, <2>1 DEF UnderWay
    <3>1. CASE g \in stores
      <4>1. /\ g \in [k : Nat, pair : 1 .. Pairs, chunk : Chunk, stage : Stage]
            /\ g.k = (g.pair - 1) * Chunks + g.chunk /\ g.stage = g.k % 2
            /\ k = g.k + 1
        BY <1>1, <2>1, <3>1 DEF Storing, UnderWay
      <4> QED BY <1>2, <4>1
    <3>2. CASE g = new
      <4>1. (new.pair - 1) * Chunks + new.chunk = k
        <5>1. new.pair - 1 = rd[r].n
          BY <2>2, <2>3
        <5> QED BY <2>2, <2>3, <5>1
      <4> QED BY <1>2, <2>3, <3>2, <4>1
    <3> QED BY <2>4, <3>1, <3>2
  <2>6. Pieces'
    <3>1. \A q \in Reduce : Staged(rd[q])' = k + 1
      BY <1>3, <1>5
    <3>2. \A q \in Reduce : sdQ[StoreStage(Leader)][q] = <<Leader.n + 1, Leader.i>>
      BY <1>2, <1>3, <2>1 DEF Storing, Pieces
    <3>3. StoreStage(Leader) = new.stage
      BY <2>1, <2>3 DEF StoreStage
    <3>4. \A q \in Reduce : sdQ[new.stage][q] = <<new.pair, new.chunk>>
      BY <2>1, <2>3, <3>2, <3>3
    <3>5. \A q \in Reduce : \A g \in stores' : sdQ[g.stage][q] = <<g.pair, g.chunk>>
      BY <2>4, <3>4 DEF Storing, Pieces
    <3>6. sdQ \in [Stage -> [Reduce -> Nat \X Nat]]
      BY DEF Storing, Pieces
    <3> QED BY <1>1, <1>2, <1>4, <2>1, <3>1, <3>5, <3>6 DEF Pieces
  <2>7. ASSUME NEW p \in 1 .. Pairs, NEW c \in Chunk PROVE Stored(p, c)' <=> Stored(p, c)
    <3>1. Stored(p, c)' <=> /\ (p - 1) * Chunks + c < k + 1
                            /\ \A g \in stores' : ~(g.pair = p /\ g.chunk = c)
      BY <1>4, <2>1 DEF Stored
    <3>2. Stored(p, c) <=> /\ (p - 1) * Chunks + c < k
                           /\ \A g \in stores : ~(g.pair = p /\ g.chunk = c)
      BY <2>1 DEF Stored
    <3>3. p - 1 \in Nat /\ c \in Nat /\ (p - 1) * Chunks + c \in Nat
      <4>1. p - 1 \in Nat /\ c \in Nat
        BY <2>2
      <4> QED BY <2>2, <4>1, PieceNumber
    <3>4. (p - 1) * Chunks + c = k <=> (new.pair = p /\ new.chunk = c)
      <4>1. ASSUME (p - 1) * Chunks + c = k PROVE p - 1 = rd[r].n /\ c = rd[r].i
        <5>1. rd[r].i \in 0 .. Chunks - 1 /\ c \in 0 .. Chunks - 1
          BY <2>2
        <5>2. rd[r].n \in Nat /\ (p - 1) * Chunks + c = rd[r].n * Chunks + rd[r].i
          BY <2>2, <4>1
        <5> QED BY <2>P, <3>3, <5>1, <5>2
      <4>2. ASSUME new.pair = p, new.chunk = c PROVE (p - 1) * Chunks + c = k
        <5>1. p = rd[r].n + 1 /\ c = rd[r].i
          BY <2>3, <4>2
        <5>2. p - 1 = rd[r].n
          BY <2>2, <5>1
        <5> QED BY <2>2, <5>1, <5>2
      <4>3. p - 1 = rd[r].n => rd[r].n + 1 = p
        BY <2>2
      <4> QED BY <2>3, <4>1, <4>2, <4>3
    <3>5. CASE new.pair = p /\ new.chunk = c
      <4>1. ~Stored(p, c)'
        BY <2>4, <3>1, <3>5
      <4>2. (p - 1) * Chunks + c = k
        BY <3>4, <3>5
      <4>3. ~((p - 1) * Chunks + c < k)
        <5>1. k \in Nat
          BY <1>2
        <5> HIDE DEF k
        <5> QED BY <4>2, <5>1
      <4> QED BY <3>2, <4>1, <4>3
    <3>6. CASE ~(new.pair = p /\ new.chunk = c)
      <4>1. (p - 1) * Chunks + c < k + 1 <=> (p - 1) * Chunks + c < k
        BY <1>2, <3>3, <3>4, <3>6
      <4>2. ASSUME \A g \in stores : ~(g.pair = p /\ g.chunk = c), NEW g \in stores'
            PROVE  ~(g.pair = p /\ g.chunk = c)
        <5>1. g \in stores \/ g = new
          BY <2>4
        <5> QED BY <3>6, <4>2, <5>1
      <4>3. \A g \in stores : g \in stores'
        BY <2>4
      <4> QED BY <3>1, <3>2, <4>1, <4>2, <4>3
    <3> QED BY <3>5, <3>6
  <2>8. dQSoFar'
    BY <1>1, <2>7, dQStays
  <2> QED BY <1>6, <1>8, <2>5, <2>6, <2>8 DEF Storing
<1> QED BY <1>9, <1>10

-----------------------------------------------------------------------------
(* The blocks of the pairs.  A list of odd length is padded with the block  *)
(* after the last whole one, which must not be a block of Q.                *)

PaddingOutside ==
    \A l \in Launches : Len(l.edges) % 2 = 0 \/ l.seqlen_q % SparseBlockSize = 0

LEMMA EdgeFacts ==
    ASSUME launch \in Launches
    PROVE  /\ launch.edges \in Seq(Nat) /\ Len(launch.edges) \in Nat
           /\ DOMAIN launch.edges = 1 .. Len(launch.edges)
           /\ \A i \in DOMAIN launch.edges : launch.edges[i] \in Block
           /\ \A i, j \in DOMAIN launch.edges : launch.edges[i] = launch.edges[j] => i = j
<1>1. /\ launch.edges \in Seq(Nat) /\ launch.seqlen_q \in Nat
      /\ \A i \in DOMAIN launch.edges : launch.edges[i] * 64 < launch.seqlen_q
      /\ \A i, j \in DOMAIN launch.edges : launch.edges[i] = launch.edges[j] => i = j
  BY LaunchesAssumption
<1>2. Len(launch.edges) \in Nat /\ DOMAIN launch.edges = 1 .. Len(launch.edges)
  BY <1>1
<1>3. \A e, n \in Nat : e * 64 < n => e \in 0 .. (n + 64 - 1) \div 64 - 1
  OBVIOUS
<1>4. ASSUME NEW i \in DOMAIN launch.edges PROVE launch.edges[i] \in Block
  <2>1. launch.edges[i] \in Nat /\ launch.edges[i] * 64 < launch.seqlen_q
    BY <1>1, <1>2
  <2> QED BY <1>1, <1>3, <2>1 DEF Block, SparseBlockSize
<1> QED BY <1>1, <1>2, <1>4

\* Two halves of two pairs are the same place in the list only if they are the
\* same, and every place is a half of a pair.
LEMMA Places ==
    ASSUME NEW n \in Nat
    PROVE  /\ \A p, q \in 1 .. (n + 1) \div 2, h, k \in Stage :
                2 * p - 1 + h = 2 * q - 1 + k => p = q /\ h = k
           /\ \A p \in 1 .. (n + 1) \div 2, h \in Stage :
                2 * p - 1 + h \in 1 .. n \/ n % 2 = 1
           /\ \A i \in 1 .. n : \E p \in 1 .. (n + 1) \div 2, h \in Stage : 2 * p - 1 + h = i
<1>1. Stage = {0, 1}
  BY DEF Stage
<1>2. ASSUME NEW p \in 1 .. (n + 1) \div 2, NEW q \in 1 .. (n + 1) \div 2, NEW h \in {0, 1},
             NEW k \in {0, 1}, 2 * p - 1 + h = 2 * q - 1 + k
      PROVE  p = q /\ h = k
  BY <1>2
<1>3. ASSUME NEW p \in 1 .. (n + 1) \div 2, NEW h \in {0, 1}
      PROVE  2 * p - 1 + h \in 1 .. n \/ n % 2 = 1
  OBVIOUS
<1>4. ASSUME NEW i \in 1 .. n
      PROVE  \E p \in 1 .. (n + 1) \div 2, h \in {0, 1} : 2 * p - 1 + h = i
  <2>1. (i + 1) \div 2 \in 1 .. (n + 1) \div 2 /\ (i + 1) % 2 \in {0, 1}
    OBVIOUS
  <2>2. 2 * ((i + 1) \div 2) - 1 + ((i + 1) % 2) = i
    OBVIOUS
  <2> QED BY <2>1, <2>2
<1> QED BY <1>1, <1>2, <1>3, <1>4

\* A block of Q is the block of one half of one pair at most, and of one if it
\* is listed.
LEMMA PairBlocks ==
    ASSUME launch \in Launches, PaddingOutside
    PROVE  /\ \A p, q \in 1 .. Pairs, h, k \in Stage :
                PairBlock(p, h) \in Block /\ PairBlock(p, h) = PairBlock(q, k) => p = q /\ h = k
           /\ \A p \in 1 .. Pairs, h \in Stage : PairBlock(p, h) \in Block =>
                \E i \in DOMAIN launch.edges : launch.edges[i] = PairBlock(p, h)
           /\ \A i \in DOMAIN launch.edges :
                \E p \in 1 .. Pairs, h \in Stage : PairBlock(p, h) = launch.edges[i]
<1> DEFINE n == Len(launch.edges)
<1>1. n \in Nat /\ DOMAIN launch.edges = 1 .. n /\ Pairs = (n + 1) \div 2
  BY EdgeFacts DEF Pairs
<1>2. n % 2 = 0 \/ launch.seqlen_q % SparseBlockSize = 0
  BY DEF PaddingOutside
<1> HIDE DEF n
<1>3. /\ \A p, q \in 1 .. Pairs, h, k \in Stage :
           2 * p - 1 + h = 2 * q - 1 + k => p = q /\ h = k
      /\ \A p \in 1 .. Pairs, h \in Stage : 2 * p - 1 + h \in 1 .. n \/ n % 2 = 1
      /\ \A i \in 1 .. n : \E p \in 1 .. Pairs, h \in Stage : 2 * p - 1 + h = i
  <2>1. n \in Nat
    BY <1>1
  <2> DEFINE m == (n + 1) \div 2
  <2>2. /\ \A p, q \in 1 .. m, h, k \in Stage : 2 * p - 1 + h = 2 * q - 1 + k => p = q /\ h = k
        /\ \A p \in 1 .. m, h \in Stage : 2 * p - 1 + h \in 1 .. n \/ n % 2 = 1
        /\ \A i \in 1 .. n : \E p \in 1 .. m, h \in Stage : 2 * p - 1 + h = i
    BY <2>1, Places
  <2>3. Pairs = m
    BY <1>1
  <2> HIDE DEF m
  <2> QED BY <2>2, <2>3
<1>4. ASSUME NEW p \in 1 .. Pairs, NEW h \in Stage, PairBlock(p, h) \in Block
      PROVE  2 * p - 1 + h \in 1 .. n /\ PairBlock(p, h) = launch.edges[2 * p - 1 + h]
  <2>1. p \in Nat /\ p >= 1 /\ h \in Nat
    BY DEF Stage
  <2>2. 2 * p - 1 + h <= n
    <3> SUFFICES ASSUME ~(2 * p - 1 + h <= n) PROVE FALSE
      OBVIOUS
    <3>1. 2 * p - 1 + h \notin 1 .. n
      BY <1>1, <2>1
    <3>2. launch.seqlen_q % 64 = 0
      <4>1. n % 2 = 1
        BY <1>3, <3>1
      <4> QED BY <1>2, <4>1 DEF SparseBlockSize
    <3>3. launch.seqlen_q \div 64 \in 0 .. (launch.seqlen_q + 64 - 1) \div 64 - 1
      BY <1>4 DEF PairBlock, Block, SparseBlockSize, n
    <3>4. \A l \in Nat : l % 64 = 0 => (l + 64 - 1) \div 64 = l \div 64 /\ l \div 64 \in Nat
      OBVIOUS
    <3>5. launch.seqlen_q \in Nat
      BY LaunchesAssumption
    <3>6. (launch.seqlen_q + 64 - 1) \div 64 = launch.seqlen_q \div 64 /\ launch.seqlen_q \div 64 \in Nat
      BY <3>2, <3>4, <3>5
    <3> QED BY <3>3, <3>6
  <2>3. PairBlock(p, h) = launch.edges[2 * p - 1 + h]
    BY <2>2 DEF PairBlock, n
  <2> QED BY <1>1, <2>1, <2>2, <2>3
<1>5. ASSUME NEW p \in 1 .. Pairs, NEW q \in 1 .. Pairs, NEW h \in Stage, NEW k \in Stage,
             PairBlock(p, h) \in Block, PairBlock(p, h) = PairBlock(q, k)
      PROVE  p = q /\ h = k
  <2>1. /\ 2 * p - 1 + h \in 1 .. n /\ PairBlock(p, h) = launch.edges[2 * p - 1 + h]
        /\ 2 * q - 1 + k \in 1 .. n /\ PairBlock(q, k) = launch.edges[2 * q - 1 + k]
    BY <1>4, <1>5
  <2>2. 2 * p - 1 + h = 2 * q - 1 + k
    BY <1>1, <1>5, <2>1, EdgeFacts
  <2> QED BY <1>3, <2>2
<1>6. ASSUME NEW i \in DOMAIN launch.edges
      PROVE  \E p \in 1 .. Pairs, h \in Stage : PairBlock(p, h) = launch.edges[i]
  <2>1. PICK p \in 1 .. Pairs, h \in Stage : 2 * p - 1 + h = i
    BY <1>1, <1>3
  <2>2. i <= n
    BY <1>1
  <2>3. 2 * p - 1 + h <= n
    BY <2>1, <2>2
  <2> QED BY <2>1, <2>3 DEF PairBlock, n
<1> QED BY <1>1, <1>4, <1>5, <1>6

-----------------------------------------------------------------------------
(* A store is read.                                                        *)

LEMMA ReadStores ==
    ASSUME Storing, NEW g \in stores, StoreRead(g)
    PROVE  /\ stores' = stores \ {g}
           /\ g.pair \in 1 .. Pairs /\ g.chunk \in Chunk /\ ~Stored(g.pair, g.chunk)
           /\ \A p \in 1 .. Pairs, c \in Chunk :
                Stored(p, c)' <=> Stored(p, c) \/ (p = g.pair /\ c = g.chunk)
<1>1. UNCHANGED <<launch, rd>> /\ stores' = stores \ {g}
  BY DEF StoreRead
<1>2. \A f \in stores :
         /\ f \in [k : Nat, pair : 1 .. Pairs, chunk : Chunk, stage : Stage]
         /\ f.k = (f.pair - 1) * Chunks + f.chunk /\ f.stage = f.k % 2
         /\ f.k < StoreCount(Leader)
  BY DEF Storing, UnderWay
<1>3. \A f \in stores : f.pair = g.pair /\ f.chunk = g.chunk => f = g
  <2> SUFFICES ASSUME NEW f \in stores, f.pair = g.pair, f.chunk = g.chunk PROVE f = g
    OBVIOUS
  <2>1. f.k = g.k
    BY <1>2
  <2>2. f.stage = g.stage
    BY <1>2, <2>1
  <2>3. /\ f = [k |-> f.k, pair |-> f.pair, chunk |-> f.chunk, stage |-> f.stage]
        /\ g = [k |-> g.k, pair |-> g.pair, chunk |-> g.chunk, stage |-> g.stage]
    BY <1>2
  <2> QED BY <2>1, <2>2, <2>3
<1>4. g.pair \in 1 .. Pairs /\ g.chunk \in Chunk /\ ~Stored(g.pair, g.chunk)
  BY <1>2 DEF Stored
<1>5. StoreCount(Leader)' = StoreCount(Leader) /\ Chunks' = Chunks
  BY <1>1, SameStores DEF Leader
<1>6. ASSUME NEW p \in 1 .. Pairs, NEW c \in Chunk
      PROVE  Stored(p, c)' <=> Stored(p, c) \/ (p = g.pair /\ c = g.chunk)
  <2>1. Stored(p, c)' <=> /\ (p - 1) * Chunks + c < StoreCount(Leader)
                          /\ \A f \in stores' : ~(f.pair = p /\ f.chunk = c)
    BY <1>5 DEF Stored
  <2>2. Stored(p, c) <=> /\ (p - 1) * Chunks + c < StoreCount(Leader)
                         /\ \A f \in stores : ~(f.pair = p /\ f.chunk = c)
    BY DEF Stored
  <2>3. CASE p = g.pair /\ c = g.chunk
    <3>1. (p - 1) * Chunks + c < StoreCount(Leader)
      BY <1>2, <2>3
    <3>2. \A f \in stores' : ~(f.pair = p /\ f.chunk = c)
      BY <1>1, <1>3, <2>3
    <3> QED BY <2>1, <2>3, <3>1, <3>2
  <2>4. CASE ~(p = g.pair /\ c = g.chunk)
    <3>1. (\A f \in stores : ~(f.pair = p /\ f.chunk = c)) =>
            \A f \in stores' : ~(f.pair = p /\ f.chunk = c)
      BY <1>1
    <3>2. (\A f \in stores' : ~(f.pair = p /\ f.chunk = c)) =>
            \A f \in stores : ~(f.pair = p /\ f.chunk = c)
      <4> SUFFICES ASSUME \A f \in stores' : ~(f.pair = p /\ f.chunk = c), NEW f \in stores
                   PROVE  ~(f.pair = p /\ f.chunk = c)
        OBVIOUS
      <4>1. CASE f = g
        BY <2>4, <4>1
      <4>2. CASE f # g
        BY <1>1, <4>2
      <4> QED BY <4>1, <4>2
    <3> QED BY <2>1, <2>2, <2>4, <3>1, <3>2
  <2> QED BY <2>3, <2>4
<1> QED BY <1>1, <1>4, <1>6

\* It is added to the blocks of its pair, which had nothing of this piece yet.
LEMMA ReadAdds ==
    ASSUME PaddingOutside, Typed, Storing, NEW g \in stores, StoreRead(g)
    PROVE  /\ \A b \in Block : (\E h \in Stage : PairBlock(g.pair, h) = b) =>
                ~Got(b, g.chunk) /\ gdQ[b][g.chunk] = 0
           /\ gdQ' = [b \in Block |-> IF \E h \in Stage : PairBlock(g.pair, h) = b
                                      THEN [gdQ[b] EXCEPT ![g.chunk] = 1] ELSE gdQ[b]]
<1> DEFINE Times(b) == Cardinality({h \in Stage : PairBlock(g.pair, h) = b})
<1>1. /\ g.pair \in 1 .. Pairs /\ g.chunk \in Chunk /\ ~Stored(g.pair, g.chunk)
  BY ReadStores
<1>2. \A p, q \in 1 .. Pairs, h, k \in Stage :
        PairBlock(p, h) \in Block /\ PairBlock(p, h) = PairBlock(q, k) => p = q /\ h = k
  BY PairBlocks DEF Typed
<1>3. gdQ = [b \in Block |-> [c \in Chunk |-> IF Got(b, c) THEN 1 ELSE 0]]
  BY DEF Storing, dQSoFar
<1>4. ASSUME NEW b \in Block, \E h \in Stage : PairBlock(g.pair, h) = b
      PROVE  ~Got(b, g.chunk) /\ gdQ[b][g.chunk] = 0
  <2>1. ~Got(b, g.chunk)
    BY <1>1, <1>2, <1>4 DEF Got
  <2>2. gdQ[b] = [c \in Chunk |-> IF Got(b, c) THEN 1 ELSE 0]
    BY <1>3
  <2> QED BY <1>1, <2>1, <2>2
<1>5. \A r \in Reduce : sdQ[g.stage][r] = <<g.pair, g.chunk>>
  BY DEF Storing, Pieces
<1>6. gdQ' = [b \in Block |-> IF Times(b) = 0 THEN gdQ[b]
                ELSE [gdQ[b] EXCEPT ![g.chunk] = Added(@ + Times(b) - 1, TRUE)]]
  <2>1. (\A r \in Reduce : sdQ[g.stage][r] = <<g.pair, g.chunk>>) = TRUE
    BY <1>5
  <2> QED BY <2>1 DEF StoreRead
<1>7. ASSUME NEW b \in Block
      PROVE  (IF Times(b) = 0 THEN gdQ[b]
              ELSE [gdQ[b] EXCEPT ![g.chunk] = Added(@ + Times(b) - 1, TRUE)])
             = IF \E h \in Stage : PairBlock(g.pair, h) = b
               THEN [gdQ[b] EXCEPT ![g.chunk] = 1] ELSE gdQ[b]
  <2>1. CASE \E h \in Stage : PairBlock(g.pair, h) = b
    <3>1. PICK h \in Stage : PairBlock(g.pair, h) = b
      BY <2>1
    <3>2. {k \in Stage : PairBlock(g.pair, k) = b} = {h}
      BY <1>1, <1>2, <3>1
    <3>3. Times(b) = 1
      BY <3>2, FS_Singleton
    <3> HIDE DEF Times
    <3>4. gdQ[b][g.chunk] = 0
      BY <1>4, <2>1
    <3>5. Added(gdQ[b][g.chunk] + 1 - 1, TRUE) = 1
      BY <3>4 DEF Added, Broken
    <3>6. [gdQ[b] EXCEPT ![g.chunk] = Added(@ + Times(b) - 1, TRUE)] = [gdQ[b] EXCEPT ![g.chunk] = 1]
      BY <3>3, <3>5
    <3> QED BY <2>1, <3>3, <3>6
  <2>2. CASE ~\E h \in Stage : PairBlock(g.pair, h) = b
    <3>1. {k \in Stage : PairBlock(g.pair, k) = b} = {}
      BY <2>2
    <3>2. Times(b) = 0
      BY <3>1, FS_EmptySet
    <3> HIDE DEF Times
    <3> QED BY <2>2, <3>2
  <2> QED BY <2>1, <2>2
<1> HIDE DEF Times
<1>8. gdQ' = [b \in Block |-> IF \E h \in Stage : PairBlock(g.pair, h) = b
                              THEN [gdQ[b] EXCEPT ![g.chunk] = 1] ELSE gdQ[b]]
  BY <1>6, <1>7
<1> QED BY <1>4, <1>8

LEMMA StoreReadStores ==
    ASSUME PaddingOutside, Typed, Storing, NEW g \in stores, StoreRead(g)
    PROVE  Storing'
<1>1. /\ UNCHANGED <<launch, bar, sdQ, gdK, gdV, cw, rd>> /\ stores' = stores \ {g}
  BY DEF StoreRead
<1>2. /\ Reduce' = Reduce /\ Pairs' = Pairs /\ Chunks' = Chunks /\ Chunk' = Chunk
      /\ Block' = Block /\ Compute' = Compute
      /\ \A x : StoreCount(x)' = StoreCount(x) /\ StoreStage(x)' = StoreStage(x)
                /\ Syncs(x)' = Syncs(x) /\ Staged(x)' = Staged(x)
      /\ \A p, h : PairBlock(p, h)' = PairBlock(p, h)
      /\ Leader' = Leader
  BY <1>1, SameStores DEF Leader
<1>3. AllSyncs' = AllSyncs
  BY <1>1, <1>2 DEF AllSyncs
<1>4. Meeting'
  BY <1>1, <1>2, <1>3 DEF Storing, Meeting
<1>5. UnderWay'
  BY <1>1, <1>2 DEF Storing, UnderWay
<1>6. Pieces'
  BY <1>1, <1>2 DEF Storing, Pieces
<1>7. dKdVSoFar'
  BY <1>1, <1>2 DEF Storing, dKdVSoFar
<1>8. /\ g.pair \in 1 .. Pairs /\ g.chunk \in Chunk
      /\ \A p \in 1 .. Pairs, c \in Chunk :
           Stored(p, c)' <=> Stored(p, c) \/ (p = g.pair /\ c = g.chunk)
  BY ReadStores
<1>9. \A b : \A c \in Chunk :
        Got(b, c)' <=> Got(b, c) \/ (c = g.chunk /\ \E h \in Stage : PairBlock(g.pair, h) = b)
  BY <1>2, <1>8 DEF Got
<1>10. dQSoFar'
  <2>1. gdQ = [b \in Block |-> [c \in Chunk |-> IF Got(b, c) THEN 1 ELSE 0]]
    BY DEF Storing, dQSoFar
  <2>2. gdQ' = [b \in Block |-> IF \E h \in Stage : PairBlock(g.pair, h) = b
                                THEN [gdQ[b] EXCEPT ![g.chunk] = 1] ELSE gdQ[b]]
    BY ReadAdds
  <2>3. ASSUME NEW b \in Block
        PROVE  (IF \E h \in Stage : PairBlock(g.pair, h) = b
                THEN [gdQ[b] EXCEPT ![g.chunk] = 1] ELSE gdQ[b])
               = [c \in Chunk |-> IF Got(b, c)' THEN 1 ELSE 0]
    <3>1. gdQ[b] = [c \in Chunk |-> IF Got(b, c) THEN 1 ELSE 0]
      BY <2>1
    <3>2. CASE \E h \in Stage : PairBlock(g.pair, h) = b
      <4>1. \A c \in Chunk : Got(b, c)' <=> Got(b, c) \/ c = g.chunk
        BY <1>9, <3>2
      <4>2. [gdQ[b] EXCEPT ![g.chunk] = 1] = [c \in Chunk |-> IF Got(b, c)' THEN 1 ELSE 0]
        BY <1>8, <3>1, <4>1
      <4> QED BY <3>2, <4>2
    <3>3. CASE ~\E h \in Stage : PairBlock(g.pair, h) = b
      <4>1. \A c \in Chunk : Got(b, c)' <=> Got(b, c)
        BY <1>9, <3>3
      <4> QED BY <3>1, <3>3, <4>1
    <3> QED BY <3>2, <3>3
  <2> QED BY <1>2, <2>2, <2>3 DEF dQSoFar
<1> QED BY <1>4, <1>5, <1>6, <1>7, <1>10 DEF Storing

LEMMA StoringStep ==
    ASSUME PaddingOutside, Typed, HasWork, Working, Storing, [Next]_vars
    PROVE  Storing'
<1>1. CASE Load \/ Mma \/ TensorCore \/ \E c \in inflight : Land(c)
  <2>1. /\ bar'[ReduceSync] = bar[ReduceSync]
        /\ UNCHANGED <<launch, rd, stores, sdQ, gdQ, gdK, gdV, cw>>
    BY <1>1, OtherSteps
  <2>2. Compute' = Compute
    BY <2>1, SameLaunch
  <2>3. dKdVSoFar'
    BY <2>1, <2>2 DEF Storing, dKdVSoFar
  <2> QED BY <2>1, <2>3, StoringFrame
<1>2. CASE \E g \in stores : StoreRead(g)
  BY <1>2, StoreReadStores
<1>3. CASE \E w \in Compute : ComputeStep(w)
  BY <1>3, ComputeStores
<1>4. CASE \E r \in Reduce : ReduceStep(r)
  BY <1>4, ReduceAround, ReduceAcquireStores, ReduceStageStores, ReduceStoreStores DEF ReduceStep
<1>5. CASE UNCHANGED vars
  <2>1. /\ bar'[ReduceSync] = bar[ReduceSync]
        /\ UNCHANGED <<launch, rd, stores, sdQ, gdQ, gdK, gdV, cw>>
    BY <1>5 DEF vars, output
  <2>2. Compute' = Compute
    BY <2>1, SameLaunch
  <2>3. dKdVSoFar'
    BY <2>1, <2>2 DEF Storing, dKdVSoFar
  <2> QED BY <2>1, <2>3, StoringFrame
<1> QED BY <1>1, <1>2, <1>3, <1>4, <1>5 DEF Next, Terminating

\* At first nothing is staged, under way or stored.
LEMMA InitStoring ==
    ASSUME Init, Typed, HasWork, Working
    PROVE  Storing
<1>1. \A r \in Reduce : rd[r].pc = "alloc" /\ rd[r].n = 0 /\ rd[r].i = 0
  BY DEF Init
<1>2. ReduceLeader \in Reduce /\ Chunks \in Nat \ {0} /\ Chunk = 0 .. Chunks - 1
  BY LeaderReduces, LaunchPieces DEF Typed
<1>3. \A r \in Reduce : StoreCount(rd[r]) = 0 /\ Syncs(rd[r]) = 0 /\ Staged(rd[r]) = 0
  <2>1. \A r \in Reduce : StoreCount(rd[r]) = 0
    BY <1>1, <1>2 DEF StoreCount
  <2> QED BY <1>1, <2>1 DEF Syncs, Staged
<1>4. Meeting
  <2>1. AllOf(bar[ReduceSync], Reduce, AllSyncs)
    <3>1. \A r \in Reduce : AllSyncs[r] = 0
      BY <1>3 DEF AllSyncs
    <3>2. Reduce # {} /\ Expected(ReduceSync) = Cardinality(Reduce) /\ ReduceSync \in BarId
      BY Numbers, SyncElsewhere DEF Expected, ReduceSync
    <3> QED BY <3>1, <3>2, InitAll
  <2> QED BY <1>1, <1>2, <1>3, <2>1 DEF Meeting
<1>5. stores = {} /\ StoreCount(Leader) = 0
  BY <1>2, <1>3 DEF Init, Leader
<1>6. UnderWay
  BY <1>5 DEF UnderWay
<1>7. Pieces
  <2>1. sdQ \in [Stage -> [Reduce -> Nat \X Nat]]
    BY DEF Init
  <2> QED BY <1>3, <1>5, <2>1 DEF Pieces
<1>8. dQSoFar
  <2>1. ASSUME NEW p \in 1 .. Pairs, NEW c \in Chunk PROVE ~Stored(p, c)
    <3>1. p - 1 \in Nat /\ c \in Nat
      BY <1>2
    <3>2. (p - 1) * Chunks + c \in Nat
      BY <1>2, <3>1, PieceNumber
    <3> QED BY <1>5, <3>2 DEF Stored
  <2>2. \A b : \A c \in Chunk : ~Got(b, c)
    BY <2>1 DEF Got
  <2>3. gdQ = [b \in Block |-> [c \in Chunk |-> 0]]
    BY DEF Init
  <2> QED BY <2>2, <2>3 DEF dQSoFar
<1>9. dKdVSoFar
  BY DEF Init, dKdVSoFar
<1> QED BY <1>4, <1>6, <1>7, <1>8, <1>9 DEF Storing

LEMMA LaunchKept ==
    ASSUME [Next]_vars
    PROVE  launch' = launch
  BY DEF Next, vars, Load, LoadQ, LoadLSE, LoaddO, LoadSumOdO, Mma, MmaAlloc, MmaWait, MmaS,
         MmadQdK, MmadP, MmadV, MmaTail, MmaUnchanged, TensorCore, Land, StoreRead,
         ComputeStep, ComputeWait, ComputeP, ComputeStoreP, ComputedS, ComputeAdd, ComputeFree,
         ComputeUnchanged, ReduceStep, ReduceAlloc, ReduceRead, ReduceAcquire, ReduceStage,
         ReduceStore, ReduceTail, ReduceUnchanged, Terminating

\* The invariant, with the way of dQ out.
StoringInv == Inv /\ (HasWork => Storing)

LEMMA StoringInvariance ==
    ASSUME PaddingOutside
    PROVE  Spec => []StoringInv
<1>1. Init => StoringInv
  BY InitInv, InitStoring DEF StoringInv, Inv
<1>2. StoringInv /\ [Next]_vars => StoringInv'
  <2> SUFFICES ASSUME StoringInv, [Next]_vars PROVE StoringInv'
    OBVIOUS
  <2>1. Inv'
    BY InvStep DEF StoringInv
  <2>2. launch' = launch
    BY LaunchKept
  <2>3. HasWork' => Storing'
    <3> SUFFICES ASSUME HasWork' PROVE Storing'
      OBVIOUS
    <3>1. HasWork
      BY <2>2, SameLaunch
    <3>2. Typed /\ Working /\ Storing
      BY <3>1 DEF StoringInv, Inv
    <3> QED BY <3>1, <3>2, StoringStep
  <2> QED BY <2>1, <2>3 DEF StoringInv
<1> QED BY <1>1, <1>2, PTL DEF Spec

-----------------------------------------------------------------------------
(* The contract.                                                           *)

AlldK == [w \in Compute |-> Contributions(gdK[w])]
AlldV == [w \in Compute |-> Contributions(gdV[w])]

LEMMA ContractNames ==
    /\ Contract!Block = Block /\ Contract!Chunk = Chunk /\ Contract!Compute = Compute
    /\ Contract!Listed = {launch.edges[i] : i \in DOMAIN launch.edges}
  BY DEF Contract!Block, Contract!SparseBlockSize, Contract!Chunk, Contract!Compute,
         Contract!Listed, Contract!Range, Block, SparseBlockSize, Chunk, Chunks, Compute

\* The pairs of a list have each of its blocks once, and no other block of Q.
LEMMA PairsHaveListed ==
    ASSUME launch \in Launches, PaddingOutside
    PROVE  Contributions(0) = Contract!Nothing /\ Contributions(Pairs) = Contract!Once
<1>1. Contributions(0) = Contract!Nothing
  <2>1. \A b : {ih \in (1 .. 0) \X Stage : PairBlock(ih[1], ih[2]) = b} = {}
    OBVIOUS
  <2>2. \A b : Cardinality({ih \in (1 .. 0) \X Stage : PairBlock(ih[1], ih[2]) = b}) = 0
    BY <2>1, FS_EmptySet
  <2> QED BY <2>2, ContractNames DEF Contributions, Contract!Nothing
<1>2. ASSUME NEW b \in Block
      PROVE  Cardinality({ih \in (1 .. Pairs) \X Stage : PairBlock(ih[1], ih[2]) = b})
             = IF b \in Contract!Listed THEN 1 ELSE 0
  <2> DEFINE Halves == {ih \in (1 .. Pairs) \X Stage : PairBlock(ih[1], ih[2]) = b}
  <2>1. CASE b \in Contract!Listed
    <3>1. PICK i \in DOMAIN launch.edges : b = launch.edges[i]
      BY <2>1, ContractNames
    <3>2. PICK p \in 1 .. Pairs, h \in Stage : PairBlock(p, h) = b
      BY <3>1, PairBlocks
    <3>3. \A q \in 1 .. Pairs, k \in Stage : PairBlock(q, k) = b => q = p /\ k = h
      BY <3>2, PairBlocks
    <3>4. Halves = {<<p, h>>}
      <4>1. <<p, h>> \in Halves
        BY <3>2
      <4>2. ASSUME NEW ih \in Halves PROVE ih = <<p, h>>
        <5>1. ih \in (1 .. Pairs) \X Stage /\ PairBlock(ih[1], ih[2]) = b
          OBVIOUS
        <5>2. ih[1] = p /\ ih[2] = h
          BY <3>3, <5>1
        <5> QED BY <5>1, <5>2
      <4> QED BY <4>1, <4>2
    <3> HIDE DEF Halves
    <3>5. Cardinality(Halves) = 1
      BY <3>4, FS_Singleton
    <3> QED BY <2>1, <3>5 DEF Halves
  <2>2. CASE b \notin Contract!Listed
    <3>1. \A q \in 1 .. Pairs, k \in Stage : PairBlock(q, k) # b
      BY <2>2, PairBlocks, ContractNames
    <3>2. Halves = {}
      BY <3>1
    <3> HIDE DEF Halves
    <3>3. Cardinality(Halves) = 0
      BY <3>2, FS_EmptySet
    <3> QED BY <2>2, <3>3 DEF Halves
  <2> QED BY <2>1, <2>2
<1>3. Contributions(Pairs) = Contract!Once
  BY <1>2, ContractNames DEF Contributions, Contract!Once
<1> QED BY <1>1, <1>3

LEMMA ContractInit ==
    ASSUME Init, PaddingOutside
    PROVE  Contract!Init
<1>1. /\ launch \in Launches /\ gdQ = [b \in Block |-> [c \in Chunk |-> 0]]
      /\ gdK = [w \in Compute |-> 0] /\ gdV = [w \in Compute |-> 0]
  BY DEF Init
<1>2. /\ [w \in Compute |-> Contributions(gdK[w])] = [w \in Compute |-> Contract!Nothing]
      /\ [w \in Compute |-> Contributions(gdV[w])] = [w \in Compute |-> Contract!Nothing]
  BY <1>1, PairsHaveListed
<1> QED BY <1>1, <1>2, ContractNames DEF Contract!Init

\* dQ: a store that is read.
LEMMA ReadIsAddQ ==
    ASSUME PaddingOutside, Typed, Storing, NEW g \in stores, StoreRead(g)
    PROVE  Contract!Next
<1>1. g.chunk \in Chunk /\ g.pair \in 1 .. Pairs
  BY ReadStores
<1>2. /\ \A b \in Block : (\E h \in Stage : PairBlock(g.pair, h) = b) => gdQ[b][g.chunk] = 0
      /\ gdQ' = [b \in Block |-> IF \E h \in Stage : PairBlock(g.pair, h) = b
                                 THEN [gdQ[b] EXCEPT ![g.chunk] = 1] ELSE gdQ[b]]
  BY ReadAdds
<1>3. UNCHANGED <<launch, gdK, gdV>>
  BY DEF StoreRead
<1>4. AlldK' = AlldK /\ AlldV' = AlldV
  <2>1. /\ Compute' = Compute /\ Block' = Block
        /\ \A p, h : PairBlock(p, h)' = PairBlock(p, h)
    BY <1>3, SameStores
  <2>2. \A acc : Contributions(acc)' = Contributions(acc)
    BY <2>1 DEF Contributions
  <2> QED BY <1>3, <2>1, <2>2 DEF AlldK, AlldV
<1>5. ASSUME NEW b \in Block
      PROVE  \/ gdQ'[b] = gdQ[b]
             \/ /\ b \in Contract!Listed /\ gdQ[b][g.chunk] = 0
                /\ gdQ'[b] = [gdQ[b] EXCEPT ![g.chunk] = 1]
  <2>1. CASE \E h \in Stage : PairBlock(g.pair, h) = b
    <3>1. \E i \in DOMAIN launch.edges : launch.edges[i] = b
      BY <1>1, <2>1, PairBlocks DEF Typed
    <3>2. b \in Contract!Listed
      BY <3>1, ContractNames
    <3> QED BY <1>2, <2>1, <3>2
  <2>2. CASE ~\E h \in Stage : PairBlock(g.pair, h) = b
    BY <1>2, <2>2
  <2> QED BY <2>1, <2>2
<1>6. DOMAIN gdQ' = Block
  BY <1>2
<1>7. Contract!AddQ(g.chunk)
  BY <1>3, <1>4, <1>5, <1>6, ContractNames DEF Contract!AddQ, AlldK, AlldV
<1> QED BY <1>1, <1>7, ContractNames DEF Contract!Next

\* dV and dK: a compute warp's epilogue; no other step of it adds anything.
LEMMA AddIsAddKV ==
    ASSUME PaddingOutside, Typed, HasWork, Working, Storing, NEW w \in Compute, ComputeStep(w)
    PROVE  Contract!Next \/ UNCHANGED <<launch, gdQ, AlldK, AlldV>>
<1>1. UNCHANGED <<launch, gdQ>>
  BY ComputeBars
<1>2. Compute' = Compute /\ \A acc : Contributions(acc)' = Contributions(acc)
  BY <1>1, SameStores DEF Contributions
<1>3. gdV \in [Compute -> Nat] /\ gdK \in [Compute -> Nat]
  BY DEF Typed
<1>4. Contributions(0) = Contract!Nothing /\ Contributions(Pairs) = Contract!Once
  BY PairsHaveListed DEF Typed
<1>5. CASE gdV' = gdV /\ gdK' = gdK
  BY <1>1, <1>2, <1>5 DEF AlldK, AlldV
<1>6. CASE cw[w].pc = "dv" /\ gdV' = [gdV EXCEPT ![w] = Pairs] /\ gdK' = gdK
  <2>1. gdV[w] = 0
    BY <1>6 DEF Storing, dKdVSoFar
  <2>2. AlldK' = AlldK
    BY <1>2, <1>6 DEF AlldK
  <2>3. AlldV[w] = Contract!Nothing
    BY <1>4, <2>1 DEF AlldV
  <2>4. AlldV' = [AlldV EXCEPT ![w] = Contract!Once]
    BY <1>2, <1>3, <1>4, <1>6 DEF AlldV
  <2>5. Contract!AddV(w)
    BY <1>1, <2>2, <2>3, <2>4 DEF Contract!AddV, AlldK, AlldV
  <2> QED BY <2>5, ContractNames DEF Contract!Next
<1>7. CASE cw[w].pc = "dk" /\ gdK' = [gdK EXCEPT ![w] = Pairs] /\ gdV' = gdV
  <2>1. gdK[w] = 0
    BY <1>7 DEF Storing, dKdVSoFar
  <2>2. AlldV' = AlldV
    BY <1>2, <1>7 DEF AlldV
  <2>3. AlldK[w] = Contract!Nothing
    BY <1>4, <2>1 DEF AlldK
  <2>4. AlldK' = [AlldK EXCEPT ![w] = Contract!Once]
    BY <1>2, <1>3, <1>4, <1>7 DEF AlldK
  <2>5. Contract!AddK(w)
    BY <1>1, <2>2, <2>3, <2>4 DEF Contract!AddK, AlldK, AlldV
  <2> QED BY <2>5, ContractNames DEF Contract!Next
<1> QED BY <1>5, <1>6, <1>7, ComputeAdds

LEMMA ContractStutters ==
    ASSUME UNCHANGED <<launch, gdQ, gdK, gdV>>
    PROVE  UNCHANGED <<launch, gdQ, AlldK, AlldV>>
<1>1. Compute' = Compute /\ \A acc : Contributions(acc)' = Contributions(acc)
  BY SameStores DEF Contributions
<1> QED BY <1>1 DEF AlldK, AlldV

LEMMA ContractStep ==
    ASSUME PaddingOutside, StoringInv, [Next]_vars
    PROVE  [Contract!Next]_<<launch, gdQ, AlldK, AlldV>>
<1>1. CASE HasWork
  <2>1. Typed /\ Working /\ Storing
    BY <1>1 DEF StoringInv, Inv
  <2>2. CASE Load \/ Mma \/ TensorCore \/ \E c \in inflight : Land(c)
    BY <1>1, <2>1, <2>2, OtherSteps, ContractStutters
  <2>3. CASE \E g \in stores : StoreRead(g)
    BY <2>1, <2>3, ReadIsAddQ
  <2>4. CASE \E w \in Compute : ComputeStep(w)
    BY <1>1, <2>1, <2>4, AddIsAddKV
  <2>5. CASE \E r \in Reduce : ReduceStep(r)
    <3>1. UNCHANGED <<launch, gdQ, gdK, gdV>>
      BY <2>5 DEF ReduceStep, ReduceAlloc, ReduceRead, ReduceAcquire, ReduceStage, ReduceStore,
                  ReduceTail, ReduceUnchanged, output
    <3> QED BY <3>1, ContractStutters
  <2>6. CASE UNCHANGED vars
    <3>1. UNCHANGED <<launch, gdQ, gdK, gdV>>
      BY <2>6 DEF vars, output
    <3> QED BY <3>1, ContractStutters
  <2> QED BY <2>2, <2>3, <2>4, <2>5, <2>6 DEF Next, Terminating
<1>2. CASE ~HasWork
  <2>1. UNCHANGED vars
    BY <1>2, IdleStep DEF StoringInv, Inv
  <2>2. UNCHANGED <<launch, gdQ, gdK, gdV>>
    BY <2>1 DEF vars, output
  <2> QED BY <2>2, ContractStutters
<1> QED BY <1>1, <1>2

(* The kernel implements GradientContract: for every list of Q blocks and      *)
(* every number of warps and of pieces of dQ, whatever the order in which      *)
(* they work, each listed block is added once to dQ, to dK and to dV, and      *)
(* no other block is.  A list of odd length is padded with a block that must   *)
(* not be one of Q: the length of Q is then a multiple of 64.                  *)
THEOREM Implementation ==
    ASSUME PaddingOutside
    PROVE  Spec => ImplementsContract
<1>1. Init => Contract!Init
  BY ContractInit
<1>2. StoringInv /\ [Next]_vars => [Contract!Next]_<<launch, gdQ, AlldK, AlldV>>
  BY ContractStep
<1>3. Spec => []StoringInv
  BY StoringInvariance
<1> QED BY <1>1, <1>2, <1>3, PTL DEF Spec, ImplementsContract, Contract!Spec, AlldK, AlldV
=============================================================================
