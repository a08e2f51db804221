-------------------------- MODULE ForwardKernelsProofs --------------------------
(***************************************************************************)
(* P fits FP8 in every kernel the dispatcher launches, for every set of    *)
(* warps and every launch: for each kernel that converts P to FP8 the      *)
(* inductive invariant and its preservation by every step, then the two    *)
(* put together.                                                           *)
(***************************************************************************)
EXTENDS ForwardKernels, OnlineSoftmax, TLAPS

-----------------------------------------------------------------------------
(* How large P gets: facts about one step of the online softmax, for every *)
(* row, score and threshold.                                               *)

Terms == SUBSET (Int \X Int)
Row == [max : Int, sum : Terms, o : Terms, p : Terms]

\* No term of a sum has an exponent above bound.
AtMost(terms, bound) == \A x \in terms : x[2] <= bound

\* The row a tile starts with is a row, and its P is empty.
LEMMA EmptyRowFits ==
    EmptyRow \in Row /\ \A bound \in Int : AtMost(EmptyRow.p, bound)
BY DEF EmptyRow, Row, Terms, NegInf, AtMost

\* Safe and Larger stay among the integers.
LEMMA MaximaAreIntegers ==
    ASSUME NEW a \in Int, NEW b \in Int
    PROVE  Larger(a, b) \in Int /\ Safe(a) \in Int
BY DEF Larger, Safe, NegInf

\* Rescaling and adding keep a sum a set of terms.
LEMMA SumsAreTerms ==
    ASSUME NEW t \in Terms, NEW u \in Terms, NEW from \in Int, NEW to \in Int
    PROVE  Rescaled(t, from, to) \in Terms /\ Plus(t, u) \in Terms
<1>1. Broken \in Int \X Int
  BY DEF Broken, NegInf
<1>2. Rescaled(t, from, to) \in Terms
  BY <1>1 DEF Rescaled, Terms, Broken
<1>3. Plus(t, u) \in Terms
  BY <1>1 DEF Plus, Terms
<1> QED BY <1>2, <1>3

\* A step with any maximum gives a row, whose P has at most the term of the block.
LEMMA OntoRow ==
    ASSUME NEW row \in Row, NEW b \in Int, NEW score \in Int, NEW max \in Int
    PROVE  /\ Onto(row, b, score, max) \in Row
           /\ Onto(row, b, score, max).p = TermOf(b, score, Safe(max))
<1> DEFINE p == TermOf(b, score, Safe(max))
<1>1. Safe(max) \in Int
  BY MaximaAreIntegers
<1>2. p \in Terms
  BY <1>1 DEF TermOf, Terms
<1>3. row.sum \in Terms /\ row.o \in Terms /\ row.max \in Int
  BY DEF Row
<1>4. Rescaled(row.sum, row.max, Safe(max)) \in Terms /\ Rescaled(row.o, row.max, Safe(max)) \in Terms
  BY <1>1, <1>2, <1>3, SumsAreTerms
<1>5. Plus(Rescaled(row.sum, row.max, Safe(max)), p) \in Terms
  BY <1>2, <1>4, <1>1, SumsAreTerms
<1> QED BY <1>2, <1>4, <1>5 DEF Onto, Row

\* With the maximum brought up to the score, no exponent is positive.
LEMMA UpdateFits ==
    ASSUME NEW row \in Row, NEW b \in Int, NEW score \in Int
    PROVE  Update(row, b, score) \in Row /\ AtMost(Update(row, b, score).p, 0)
<1> DEFINE max == Larger(row.max, score)
<1>1. row.max \in Int /\ max \in Int
  BY MaximaAreIntegers DEF Row
<1>2. \A x \in TermOf(b, score, Safe(max)) : x[2] <= 0
  BY <1>1 DEF TermOf, Safe, Larger, NegInf
<1> QED BY <1>1, <1>2, OntoRow DEF Update, AtMost

\* With a maximum that is kept while the new one is less than a threshold above
\* it, no exponent is above the threshold.
LEMMA LazyUpdateFits ==
    ASSUME NEW row \in Row, NEW b \in Int, NEW score \in Int, NEW threshold \in Nat
    PROVE  /\ LazyUpdate(row, b, score, threshold) \in Row
           /\ AtMost(LazyUpdate(row, b, score, threshold).p, threshold)
<1> DEFINE cur == Larger(row.max, score)
           keep == row.max # NegInf /\ row.max - Safe(cur) >= -threshold
           max == IF keep THEN row.max ELSE cur
<1>1. row.max \in Int /\ cur \in Int /\ max \in Int
  BY MaximaAreIntegers DEF Row
<1>2. \A x \in TermOf(b, score, Safe(max)) : x[2] <= threshold
  <2>1. CASE keep
    BY <2>1, <1>1 DEF TermOf, Safe, Larger, NegInf
  <2>2. CASE ~keep
    BY <2>2, <1>1 DEF TermOf, Safe, Larger, NegInf
  <2> QED BY <2>1, <2>2
<1>3. LazyUpdate(row, b, score, threshold) = Onto(row, b, score, max)
  BY DEF LazyUpdate
<1> QED BY <1>1, <1>2, <1>3, OntoRow DEF AtMost

\* The product with V consumes P.
LEMMA AddPVFits ==
    ASSUME NEW row \in Row, NEW right \in BOOLEAN
    PROVE  AddPV(row, right) \in Row /\ AddPV(row, right).p = {}
<1>1. row.o \in Terms /\ row.p \in Terms /\ {Broken} \in Terms
  BY DEF Row, Terms, Broken, NegInf
<1>2. Plus(row.o, row.p) \in Terms /\ row.o \cup {Broken} \in Terms /\ {} \in Terms
  BY <1>1, 0 \in Int, SumsAreTerms DEF Terms
<1> QED BY <1>1, <1>2 DEF AddPV, Row

-----------------------------------------------------------------------------
(* The kernels that convert P to FP8, one after the other.                 *)

\* The online softmax of the kernels is the one the facts are about.
LEMMA SameSoftmax ==
    /\ Sm120!EmptyRow = EmptyRow /\ Sm120!Broken = Broken
    /\ \A row, b, score : Sm120!Update(row, b, score) = Update(row, b, score)
    /\ \A row, b, score, threshold :
          /\ Sm120!LazyUpdate(row, b, score, threshold) = LazyUpdate(row, b, score, threshold)
          /\ FusedPv!LazyUpdate(row, b, score, threshold) = LazyUpdate(row, b, score, threshold)
    /\ \A row, right : Sm120!AddPV(row, right) = AddPV(row, right)
    /\ FusedPv!EmptyRow = EmptyRow /\ FusedPv!Broken = Broken /\ FusedPv!NegInf = NegInf
<1>1. Sm120!NegInf = NegInf /\ FusedPv!NegInf = NegInf
  BY DEF Sm120!NegInf, FusedPv!NegInf, NegInf
<1>2. Sm120!Broken = Broken /\ FusedPv!Broken = Broken
  BY <1>1 DEF Sm120!Broken, FusedPv!Broken, Broken
<1>3. Sm120!EmptyRow = EmptyRow /\ FusedPv!EmptyRow = EmptyRow
  BY <1>1 DEF Sm120!EmptyRow, FusedPv!EmptyRow, EmptyRow
<1>4. \A a, b : Sm120!Larger(a, b) = Larger(a, b) /\ FusedPv!Larger(a, b) = Larger(a, b)
  BY DEF Sm120!Larger, FusedPv!Larger, Larger
<1>5. \A a : Sm120!Safe(a) = Safe(a) /\ FusedPv!Safe(a) = Safe(a)
  BY <1>1 DEF Sm120!Safe, FusedPv!Safe, Safe
<1>6. \A t, u : Sm120!Plus(t, u) = Plus(t, u) /\ FusedPv!Plus(t, u) = Plus(t, u)
  BY <1>2 DEF Sm120!Plus, FusedPv!Plus, Plus
<1>7. \A row, b, score, max : /\ Sm120!Onto(row, b, score, max) = Onto(row, b, score, max)
                              /\ FusedPv!Onto(row, b, score, max) = Onto(row, b, score, max)
  <2>1. \A b, score, ref : /\ Sm120!TermOf(b, score, ref) = TermOf(b, score, ref)
                           /\ FusedPv!TermOf(b, score, ref) = TermOf(b, score, ref)
    BY <1>1 DEF Sm120!TermOf, FusedPv!TermOf, TermOf
  <2>2. \A terms, from, to : /\ Sm120!Rescaled(terms, from, to) = Rescaled(terms, from, to)
                             /\ FusedPv!Rescaled(terms, from, to) = Rescaled(terms, from, to)
    BY <1>1, <1>2 DEF Sm120!Rescaled, FusedPv!Rescaled, Rescaled
  <2> QED BY <1>5, <1>6, <2>1, <2>2 DEF Sm120!Onto, FusedPv!Onto, Onto
<1>8. \A row, b, score : Sm120!Update(row, b, score) = Update(row, b, score)
  BY <1>4, <1>7 DEF Sm120!Update, Update
<1>9. \A row, b, score, threshold :
        /\ Sm120!LazyUpdate(row, b, score, threshold) = LazyUpdate(row, b, score, threshold)
        /\ FusedPv!LazyUpdate(row, b, score, threshold) = LazyUpdate(row, b, score, threshold)
  BY <1>1, <1>4, <1>5, <1>7 DEF Sm120!LazyUpdate, FusedPv!LazyUpdate, LazyUpdate
<1>10. \A row, right : Sm120!AddPV(row, right) = AddPV(row, right)
  BY <1>2, <1>6 DEF Sm120!AddPV, AddPV
<1> QED BY <1>1, <1>2, <1>3, <1>8, <1>9, <1>10

-----------------------------------------------------------------------------
(* The kernels of SM120.                                                   *)

Sm120Registers == {"pc", "j", "q", "s", "row"}

Sm120InLoop == {"k", "s", "loadk", "softmax", "v", "pv", "loadv"}
Sm120Before == {"load", "sync", "q", "readq"}

\* What a warp computes its P from: a block of the list and a row.
Sm120WarpOK(me) ==
    /\ DOMAIN me = Sm120Registers
    /\ me.j \in 0 .. Sm120!N
    /\ me.pc \in Sm120InLoop => me.j < Sm120!N
    /\ me.pc \in Sm120Before => me.j = 0
    /\ me.s \in 0 .. Sm120!N
    /\ me.row \in Row /\ AtMost(me.row.p, Sm120!SagePRescaleThreshold)

\* The K tile has a block of the list or none, and so has every copy to it; there are
\* no copies but those to the tiles and the one from O.
Sm120TilesOK ==
    /\ "k" \in DOMAIN smem /\ smem.k \in 0 .. Sm120!N
    /\ \A c \in inflight : /\ c.tile \in Sm120!Tile \cup {"O"}
                             /\ (c.tile = "K" => c.block \in 0 .. Sm120!N)

Sm120FitsInv ==
    /\ launch.scores \in Seq(Int)
    /\ Sm120TilesOK
    /\ DOMAIN warp = CtaWarps
    /\ \A w \in CtaWarps : Sm120WarpOK(warp[w])

\* It holds at the start.
LEMMA Sm120InitFits ==
    ASSUME Sm120!Init, launch.scores \in Seq(Int)
    PROVE  Sm120FitsInv
<1>1. Sm120!N \in Nat
  BY DEF Sm120!N
<1>2. Sm120TilesOK
  BY <1>1 DEF Sm120!Init, Sm120TilesOK, Sm120!Tile
<1>3. DOMAIN warp = CtaWarps /\ \A w \in CtaWarps : Sm120WarpOK(warp[w])
  <2>1. Sm120!EmptyRow \in Row /\ AtMost(Sm120!EmptyRow.p, Sm120!SagePRescaleThreshold)
    BY SameSoftmax, EmptyRowFits DEF Sm120!SagePRescaleThreshold
  <2> QED BY <1>1, <2>1 DEF Sm120!Init, Sm120WarpOK, Sm120Registers, Sm120InLoop, Sm120Before
<1> QED BY <1>2, <1>3 DEF Sm120FitsInv

\* A warp that changes its registers for registers that are right.
LEMMA Sm120OneWarp ==
    ASSUME Sm120FitsInv, NEW w \in CtaWarps, NEW new, Sm120WarpOK(new),
           launch' = launch, Sm120TilesOK',
           warp' = [warp EXCEPT ![w] = new]
    PROVE  Sm120FitsInv'
BY DEF Sm120FitsInv, Sm120WarpOK, Sm120!N

\* Steps that change the counter of a warp only, to one outside the loop or
\* from one inside it.
LEMMA Sm120MovingOn ==
    ASSUME Sm120FitsInv, NEW w \in CtaWarps, NEW pc, Sm120!Go(w, pc),
           launch' = launch, Sm120TilesOK',
           pc \in Sm120InLoop => warp[w].pc \in Sm120InLoop,
           pc \in Sm120Before => warp[w].pc \in Sm120Before
    PROVE  Sm120FitsInv'
<1> DEFINE new == [warp[w] EXCEPT !.pc = pc]
<1>1. Sm120WarpOK(new) /\ warp' = [warp EXCEPT ![w] = new]
  BY DEF Sm120FitsInv, Sm120WarpOK, Sm120Registers, Sm120!Go
<1> QED BY <1>1, Sm120OneWarp

\* The prologue's copies are of the last block.
LEMMA Sm120LoadFits ==
    ASSUME Sm120FitsInv, NEW w \in CtaWarps, Sm120!Load(w)
    PROVE  Sm120FitsInv'
<1>1. Sm120TilesOK'
  BY
     DEF Sm120FitsInv, Sm120TilesOK, Sm120!Load, Sm120!Prologue, Sm120!Copy, Sm120!Block,
         Sm120!Tile, Sm120!N
<1> QED BY <1>1, Sm120MovingOn DEF Sm120!Load, Sm120InLoop, Sm120Before

LEMMA Sm120LoadNextKFits ==
    ASSUME Sm120FitsInv, NEW w \in CtaWarps, Sm120!LoadNextK(w)
    PROVE  Sm120FitsInv'
<1>1. Sm120WarpOK(warp[w]) /\ Sm120!N \in Nat /\ Sm120!N' = Sm120!N
  BY DEF Sm120FitsInv, Sm120!N, Sm120!LoadNextK
<1>2. Sm120TilesOK'
  BY <1>1
     DEF Sm120FitsInv, Sm120TilesOK, Sm120!LoadNextK, Sm120!Copy, Sm120!Block, Sm120!Tile,
         Sm120!HasNext, Sm120WarpOK
<1> QED BY <1>2, Sm120MovingOn DEF Sm120!LoadNextK, Sm120InLoop, Sm120Before

LEMMA Sm120LoadNextVFits ==
    ASSUME Sm120FitsInv, NEW w \in CtaWarps, Sm120!LoadNextV(w)
    PROVE  Sm120FitsInv'
<1> DEFINE new == [warp[w] EXCEPT !.pc = IF warp[w].j + 1 < Sm120!N THEN "k" ELSE "final",
                                  !.j = @ + 1, !.s = 0]
<1>1. Sm120WarpOK(warp[w]) /\ Sm120!N \in Nat /\ Sm120!N' = Sm120!N /\ warp[w].pc \in Sm120InLoop
  BY DEF Sm120FitsInv, Sm120!N, Sm120!LoadNextV, Sm120InLoop, Sm120Before
<1>2. Sm120WarpOK(new) /\ warp' = [warp EXCEPT ![w] = new]
  BY <1>1 DEF Sm120!LoadNextV, Sm120WarpOK, Sm120Registers, Sm120InLoop, Sm120Before, Sm120FitsInv
<1>3. Sm120TilesOK'
  BY <1>1 DEF Sm120FitsInv, Sm120TilesOK, Sm120!LoadNextV, Sm120!Copy, Sm120!Tile
<1> QED BY <1>2, <1>3, Sm120OneWarp DEF Sm120!LoadNextV

\* S is of the block in the K tile.
LEMMA Sm120ComputeSFits ==
    ASSUME Sm120FitsInv, NEW w \in CtaWarps, Sm120!ComputeS(w)
    PROVE  Sm120FitsInv'
<1> DEFINE new == [warp[w] EXCEPT !.pc = "loadk", !.s = IF warp[w].q = "Q" THEN smem.k ELSE 0]
<1>1. Sm120WarpOK(warp[w]) /\ Sm120!N \in Nat /\ smem.k \in 0 .. Sm120!N
  BY DEF Sm120FitsInv, Sm120TilesOK, Sm120!N
<1>2. Sm120WarpOK(new)
  BY <1>1 DEF Sm120!ComputeS, Sm120WarpOK, Sm120Registers, Sm120InLoop, Sm120Before
<1>4. warp' = [warp EXCEPT ![w] = new]
  BY DEF Sm120!ComputeS
<1>3. Sm120TilesOK'
  BY DEF Sm120FitsInv, Sm120TilesOK, Sm120!ComputeS, Sm120!N
<1> QED BY <1>2, <1>3, <1>4, Sm120OneWarp DEF Sm120!ComputeS

\* The step that computes P: eagerly, lazily, or from a tile that was not there.
LEMMA Sm120SoftmaxFits ==
    ASSUME Sm120FitsInv, NEW w \in CtaWarps, Sm120!Softmax(w)
    PROVE  Sm120FitsInv'
<1> DEFINE me == warp[w]
           row == IF me.s = 0 THEN [me.row EXCEPT !.p = {Sm120!Broken}]
                  ELSE Sm120!UpdateRow(me.row, me.s, launch.scores[me.s])
           new == [me EXCEPT !.pc = "v", !.row = row]
<1>1. Sm120WarpOK(me) /\ Sm120!N \in Nat /\ me.pc \in Sm120InLoop
  BY DEF Sm120FitsInv, Sm120!N, Sm120!Softmax, Sm120InLoop, Sm120Before
<1>2. row \in Row /\ AtMost(row.p, Sm120!SagePRescaleThreshold)
  <2>1. CASE me.s = 0
    <3>1. /\ {Broken} \in Terms /\ AtMost({Broken}, Sm120!SagePRescaleThreshold)
          /\ Sm120!Broken = Broken
      BY SameSoftmax DEF Terms, Broken, NegInf, AtMost, Sm120!SagePRescaleThreshold
    <3> QED BY <1>1, <2>1, <3>1 DEF Sm120WarpOK, Row
  <2>2. CASE me.s # 0
    <3>1. me.s \in Int /\ launch.scores[me.s] \in Int /\ me.row \in Row
      BY <1>1, <2>2 DEF Sm120FitsInv, Sm120WarpOK, Sm120!N
    <3> DEFINE score == launch.scores[me.s]
    <3>2. CASE launch.variant = "sage"
      <4>1. row = LazyUpdate(me.row, me.s, score, Sm120!SagePRescaleThreshold)
        BY <2>2, <3>2, SameSoftmax DEF Sm120!UpdateRow
      <4>2. Sm120!SagePRescaleThreshold \in Nat
        BY DEF Sm120!SagePRescaleThreshold
      <4> HIDE DEF row
      <4> QED BY <3>1, <4>1, <4>2, LazyUpdateFits
    <3>3. CASE launch.variant # "sage"
      <4>1. row = Update(me.row, me.s, score)
        BY <2>2, <3>3, SameSoftmax DEF Sm120!UpdateRow
      <4> HIDE DEF row
      <4>2. row \in Row /\ AtMost(row.p, 0)
        BY <3>1, <4>1, UpdateFits
      <4> QED BY <4>2 DEF AtMost, Sm120!SagePRescaleThreshold, Row, Terms
    <3> QED BY <3>2, <3>3
  <2> QED BY <2>1, <2>2
<1>3. Sm120WarpOK(new) /\ warp' = [warp EXCEPT ![w] = new]
  BY <1>1, <1>2
     DEF Sm120!Softmax, Sm120WarpOK, Sm120Registers, Sm120InLoop, Sm120Before, Sm120FitsInv
<1>4. Sm120TilesOK'
  BY DEF Sm120FitsInv, Sm120TilesOK, Sm120!Softmax, Sm120!N
<1> QED BY <1>3, <1>4, Sm120OneWarp DEF Sm120!Softmax

LEMMA Sm120ComputePVFits ==
    ASSUME Sm120FitsInv, NEW w \in CtaWarps, Sm120!ComputePV(w)
    PROVE  Sm120FitsInv'
<1> DEFINE me == warp[w]
           row == Sm120!AddPV(me.row, me.s # 0 /\ smem.v = me.s)
           new == [me EXCEPT !.pc = "loadv", !.row = row]
<1>1. Sm120WarpOK(me) /\ Sm120!N \in Nat /\ me.pc \in Sm120InLoop
  BY DEF Sm120FitsInv, Sm120!N, Sm120!ComputePV, Sm120InLoop, Sm120Before
<1>2. row \in Row /\ row.p = {}
  BY <1>1, SameSoftmax, AddPVFits DEF Sm120WarpOK
<1>3. Sm120WarpOK(new) /\ warp' = [warp EXCEPT ![w] = new]
  BY <1>1, <1>2
     DEF Sm120!ComputePV, Sm120WarpOK, Sm120Registers, Sm120InLoop, Sm120Before, Sm120FitsInv,
         AtMost
<1>4. Sm120TilesOK'
  BY DEF Sm120FitsInv, Sm120TilesOK, Sm120!ComputePV, Sm120!N
<1> QED BY <1>3, <1>4, Sm120OneWarp DEF Sm120!ComputePV

LEMMA Sm120ReadQFits ==
    ASSUME Sm120FitsInv, NEW w \in CtaWarps, Sm120!ReadQ(w)
    PROVE  Sm120FitsInv'
<1> DEFINE new == [warp[w] EXCEPT !.pc = IF Sm120!N > 0 THEN "k" ELSE "final", !.q = smem.q[w]]
<1>1. Sm120WarpOK(warp[w]) /\ Sm120!N \in Nat /\ warp[w].pc \in Sm120Before
  BY DEF Sm120FitsInv, Sm120!N, Sm120!ReadQ, Sm120Before
<1>2. Sm120WarpOK(new)
  BY <1>1 DEF Sm120WarpOK, Sm120Registers, Sm120InLoop, Sm120Before
<1>3. warp' = [warp EXCEPT ![w] = new]
  BY DEF Sm120!ReadQ
<1>4. Sm120TilesOK'
  BY DEF Sm120FitsInv, Sm120TilesOK, Sm120!ReadQ, Sm120!N
<1> QED BY <1>2, <1>3, <1>4, Sm120OneWarp DEF Sm120!ReadQ

\* The other steps of a warp only move it on.
LEMMA Sm120OtherStepFits ==
    ASSUME Sm120FitsInv, NEW w \in CtaWarps,
           \/ Sm120!SyncArrive(w) \/ Sm120!WaitQ(w) \/ Sm120!WaitFull(w)
           \/ Sm120!Final(w) \/ Sm120!Fence(w) \/ Sm120!Store(w) \/ Sm120!Drain(w)
    PROVE  Sm120FitsInv'
<1>1. CASE Sm120!SyncArrive(w) \/ Sm120!WaitQ(w) \/ Sm120!Drain(w)
  <2>1. Sm120TilesOK'
    BY <1>1 DEF Sm120FitsInv, Sm120TilesOK, Sm120!SyncArrive, Sm120!WaitQ, Sm120!Drain, Sm120!N
  <2> QED BY <1>1, <2>1, Sm120MovingOn
          DEF Sm120!SyncArrive, Sm120!WaitQ, Sm120!Drain, Sm120InLoop, Sm120Before
<1>2. CASE Sm120!WaitFull(w)
  <2>1. Sm120TilesOK'
    BY <1>2 DEF Sm120FitsInv, Sm120TilesOK, Sm120!WaitFull, Sm120!N
  <2> QED BY <1>2, <2>1, Sm120MovingOn DEF Sm120!WaitFull, Sm120InLoop, Sm120Before
<1>3. CASE Sm120!Final(w)
  <2>1. Sm120TilesOK'
    BY <1>3 DEF Sm120FitsInv, Sm120TilesOK, Sm120!Final, Sm120!N
  <2> QED BY <1>3, <2>1, Sm120MovingOn DEF Sm120!Final, Sm120InLoop, Sm120Before
<1>4. CASE Sm120!Fence(w)
  <2>1. Sm120TilesOK'
    BY <1>4 DEF Sm120FitsInv, Sm120TilesOK, Sm120!Fence, Sm120!N
  <2> QED BY <1>4, <2>1, Sm120MovingOn DEF Sm120!Fence, Sm120InLoop, Sm120Before
<1>5. CASE Sm120!Store(w)
  <2>1. Sm120TilesOK'
    BY <1>5 DEF Sm120FitsInv, Sm120TilesOK, Sm120!Store, Sm120!Copy, Sm120!Tile, Sm120!N
  <2> QED BY <1>5, <2>1, Sm120MovingOn DEF Sm120!Store, Sm120InLoop, Sm120Before
<1> QED BY <1>1, <1>2, <1>3, <1>4, <1>5

\* A copy that is complete fills its tile with its block.
LEMMA Sm120LandFits ==
    ASSUME Sm120FitsInv, NEW c \in inflight, Sm120!Land(c)
    PROVE  Sm120FitsInv'
<1>1. Sm120!N' = Sm120!N /\ warp' = warp /\ launch' = launch
  BY DEF Sm120!Land, Sm120!N
<1>2. Sm120TilesOK'
  <2>1. CASE c.tile = "O"
    BY <1>1, <2>1 DEF Sm120FitsInv, Sm120TilesOK, Sm120!Land, Sm120!Tile
  <2>2. CASE c.tile = "K"
    BY <1>1, <2>2 DEF Sm120FitsInv, Sm120TilesOK, Sm120!Land, Sm120!Tile
  <2>3. CASE c.tile = "Q"
    BY <1>1, <2>3 DEF Sm120FitsInv, Sm120TilesOK, Sm120!Land, Sm120!Tile
  <2>4. CASE c.tile = "V"
    BY <1>1, <2>4 DEF Sm120FitsInv, Sm120TilesOK, Sm120!Land, Sm120!Tile
  <2> QED BY <2>1, <2>2, <2>3, <2>4 DEF Sm120FitsInv, Sm120TilesOK, Sm120!Tile
<1> QED BY <1>1, <1>2 DEF Sm120FitsInv, Sm120WarpOK

\* The invariant is inductive, and it is what PFitsFp8 needs.
LEMMA Sm120NextFits ==
    ASSUME Sm120FitsInv, Sm120!Next
    PROVE  Sm120FitsInv'
BY Sm120LoadFits, Sm120LoadNextKFits, Sm120LoadNextVFits, Sm120ComputeSFits, Sm120SoftmaxFits,
   Sm120ComputePVFits, Sm120ReadQFits, Sm120OtherStepFits, Sm120LandFits
   DEF Sm120!Next, Sm120!Step

LEMMA Sm120FitsInvImplies ==
    ASSUME Sm120FitsInv
    PROVE  Sm120!PFitsFp8
BY DEF Sm120FitsInv, Sm120WarpOK, AtMost, Sm120!PFitsFp8

-----------------------------------------------------------------------------
(* The fused PV kernel of SM100 and SM103.                                 *)

FusedPvRegisters == {"pc", "tile", "n", "s", "stats", "par", "p", "s_i", "row"}
FusedPvInTile == {"s", "read", "max", "p"}

\* What a softmax warp of stream g computes P from: a step of its tile, which is
\* within the tile's steps, and a row.
FusedPvSoftmaxOK(g, me) ==
    /\ DOMAIN me = FusedPvRegisters
    /\ me.pc \in FusedPvInTile => /\ me.tile \in FusedPv!Tiles /\ me.n \in Nat
                                  /\ 2 * me.n + g < FusedPv!N(me.tile)
    /\ me.row \in Row /\ AtMost(me.row.p, FusedPv!MaxFp8)

FusedPvFitsInv ==
    /\ launch.tiles \in Seq(Seq(Int))
    /\ "sm" \in DOMAIN warp /\ DOMAIN warp.sm = FusedPv!Stage
    /\ \A g \in FusedPv!Stage : DOMAIN warp.sm[g] = FusedPv!Warps
    /\ \A g \in FusedPv!Stage, w \in FusedPv!Warps : FusedPvSoftmaxOK(g, warp.sm[g][w])

\* The steps of a tile: an even number, none only for a tile without blocks.
LEMMA FusedPvStepsOfATile ==
    ASSUME launch.tiles \in Seq(Seq(Int)), NEW t \in FusedPv!Tiles
    PROVE  /\ FusedPv!Raw(t) \in Nat /\ FusedPv!N(t) \in Nat /\ FusedPv!N(t) % 2 = 0
           /\ FusedPv!HasWork(t) => FusedPv!N(t) >= 2
           /\ \A i \in Nat : FusedPv!Score(t, i) \in Int
<1>1. launch.tiles[t] \in Seq(Int) /\ FusedPv!Raw(t) \in Nat
  BY DEF FusedPv!Tiles, FusedPv!Raw
<1>2. FusedPv!N(t) \in Nat /\ FusedPv!N(t) % 2 = 0 /\ (FusedPv!HasWork(t) => FusedPv!N(t) >= 2)
  BY <1>1 DEF FusedPv!N, FusedPv!HasWork
<1>3. \A i \in Nat : FusedPv!Score(t, i) \in Int
  BY <1>1 DEF FusedPv!Score, FusedPv!NegInf, FusedPv!Raw
<1> QED BY <1>1, <1>2, <1>3

LEMMA FusedPvInitFits ==
    ASSUME FusedPv!Init, launch.tiles \in Seq(Seq(Int))
    PROVE  FusedPvFitsInv
<1>1. FusedPv!EmptyRow \in Row /\ AtMost(FusedPv!EmptyRow.p, FusedPv!MaxFp8)
  BY SameSoftmax, EmptyRowFits DEF FusedPv!MaxFp8
<1> QED BY <1>1 DEF FusedPv!Init, FusedPvFitsInv, FusedPvSoftmaxOK, FusedPvRegisters, FusedPvInTile

\* Steps of the other roles.
LEMMA FusedPvOtherRole ==
    ASSUME FusedPvFitsInv, launch' = launch, warp'.sm = warp.sm, DOMAIN warp' = DOMAIN warp
    PROVE  FusedPvFitsInv'
<1>1. /\ FusedPv!Warps' = FusedPv!Warps /\ FusedPv!Tiles' = FusedPv!Tiles
      /\ \A t : FusedPv!N(t)' = FusedPv!N(t)
  BY DEF FusedPv!Warps, FusedPv!Tiles, FusedPv!N, FusedPv!Raw
<1>2. \A g \in FusedPv!Stage, w \in FusedPv!Warps : FusedPvSoftmaxOK(g, warp.sm[g][w])'
  BY <1>1 DEF FusedPvFitsInv, FusedPvSoftmaxOK
<1> QED BY <1>1, <1>2 DEF FusedPvFitsInv

LEMMA FusedPvLoadFits ==
    ASSUME FusedPvFitsInv, FusedPv!Load
    PROVE  FusedPvFitsInv'
BY FusedPvOtherRole
   DEF FusedPv!Load, FusedPv!LoadSkip, FusedPv!LoadCopy, FusedPv!LoadTail, FusedPvFitsInv

LEMMA FusedPvMmaFits ==
    ASSUME FusedPvFitsInv, FusedPv!Mma
    PROVE  FusedPvFitsInv'
BY FusedPvOtherRole
   DEF FusedPv!Mma, FusedPv!MmaTile, FusedPv!MmaV, FusedPv!MmaK, FusedPv!MmaQK, FusedPv!MmaPV,
       FusedPv!MmaDrain, FusedPv!Mma_, FusedPvFitsInv

LEMMA FusedPvCorrectionFits ==
    ASSUME FusedPvFitsInv, NEW w \in FusedPv!Warps, FusedPv!Correction(w)
    PROVE  FusedPvFitsInv'
BY FusedPvOtherRole
   DEF FusedPv!Correction, FusedPv!CorrectionStart, FusedPv!CorrectionArrive,
       FusedPv!CorrectionFirst, FusedPv!CorrectionScale, FusedPv!CorrectionRescale,
       FusedPv!CorrectionDrain, FusedPv!CorrectionFinal, FusedPv!CorrectionCombine,
       FusedPv!CorrectionTail, FusedPv!Co_, FusedPvFitsInv

LEMMA FusedPvHardwareAndEpilogueFit ==
    ASSUME FusedPvFitsInv,
           FusedPv!TensorCore \/ FusedPv!Epilogue \/ \E c \in inflight : FusedPv!Land(c)
    PROVE  FusedPvFitsInv'
BY FusedPvOtherRole
   DEF FusedPv!TensorCore, FusedPv!Epilogue, FusedPv!EpilogueStore, FusedPv!EpilogueRelease,
       FusedPv!Land, FusedPvFitsInv

\* A softmax warp that changes its registers for registers that are right.
LEMMA FusedPvOneSoftmaxWarp ==
    ASSUME FusedPvFitsInv, NEW g \in FusedPv!Stage, NEW w \in FusedPv!Warps, NEW new,
           FusedPvSoftmaxOK(g, new),
           FusedPv!Sm_(g, w, new), launch' = launch
    PROVE  FusedPvFitsInv'
<1>1. /\ FusedPv!Warps' = FusedPv!Warps /\ FusedPv!Tiles' = FusedPv!Tiles
      /\ \A t : FusedPv!N(t)' = FusedPv!N(t)
  BY DEF FusedPv!Warps, FusedPv!Tiles, FusedPv!N, FusedPv!Raw
<1>2. warp'.sm = [warp.sm EXCEPT ![g][w] = new] /\ DOMAIN warp' = DOMAIN warp
  BY DEF FusedPvFitsInv, FusedPv!Sm_
<1>3. /\ DOMAIN warp'.sm = FusedPv!Stage
      /\ \A h \in FusedPv!Stage : DOMAIN warp'.sm[h] = FusedPv!Warps
      /\ \A h \in FusedPv!Stage, v \in FusedPv!Warps :
            warp'.sm[h][v] = IF h = g /\ v = w THEN new ELSE warp.sm[h][v]
  BY <1>2 DEF FusedPvFitsInv
<1>4. \A h \in FusedPv!Stage, v \in FusedPv!Warps : FusedPvSoftmaxOK(h, warp.sm[h][v])'
  BY <1>1, <1>3 DEF FusedPvFitsInv, FusedPvSoftmaxOK
<1> QED BY <1>1, <1>2, <1>3, <1>4 DEF FusedPvFitsInv

LEMMA FusedPvSoftmaxTileFits ==
    ASSUME FusedPvFitsInv, NEW g \in FusedPv!Stage, NEW w \in FusedPv!Warps,
           FusedPv!SoftmaxTile(g, w)
    PROVE  FusedPvFitsInv'
<1> DEFINE me == warp.sm[g][w]
           got == [me EXCEPT !.stats = @ + 1]
<1>1. FusedPvSoftmaxOK(g, me) /\ g \in 0 .. 1
  BY DEF FusedPvFitsInv, FusedPv!Stage
<1>2. FusedPvSoftmaxOK(g, [me EXCEPT !.pc = "done"])
  BY <1>1 DEF FusedPvSoftmaxOK, FusedPvInTile, FusedPvRegisters
<1>3. FusedPvSoftmaxOK(g, FusedPv!NextTile(got))
  BY <1>1 DEF FusedPvSoftmaxOK, FusedPvInTile, FusedPvRegisters, FusedPv!NextTile
<1>4. ASSUME me.tile \in FusedPv!Tiles, FusedPv!HasWork(me.tile)
      PROVE  FusedPvSoftmaxOK(g, [got EXCEPT !.pc = "s", !.n = 0, !.row = FusedPv!EmptyRow])
  <2>1. 2 * 0 + g < FusedPv!N(me.tile)
    BY <1>1, <1>4, FusedPvStepsOfATile DEF FusedPvFitsInv
  <2>2. FusedPv!EmptyRow \in Row /\ AtMost(FusedPv!EmptyRow.p, FusedPv!MaxFp8)
    BY SameSoftmax, EmptyRowFits DEF FusedPv!MaxFp8
  <2> QED BY <1>1, <1>4, <2>1, <2>2 DEF FusedPvSoftmaxOK, FusedPvInTile, FusedPvRegisters
<1> QED BY <1>2, <1>3, <1>4, FusedPvOneSoftmaxWarp DEF FusedPv!SoftmaxTile

LEMMA FusedPvSoftmaxReadFits ==
    ASSUME FusedPvFitsInv, NEW g \in FusedPv!Stage, NEW w \in FusedPv!Warps,
           FusedPv!SoftmaxWait(g, w) \/ FusedPv!SoftmaxRead(g, w)
    PROVE  FusedPvFitsInv'
<1> DEFINE me == warp.sm[g][w]
<1>1. FusedPvSoftmaxOK(g, me)
  BY DEF FusedPvFitsInv
<1>2. CASE FusedPv!SoftmaxWait(g, w)
  <2>1. FusedPvSoftmaxOK(g, [me EXCEPT !.pc = "read"])
    BY <1>1, <1>2 DEF FusedPvSoftmaxOK, FusedPvInTile, FusedPvRegisters, FusedPv!SoftmaxWait
  <2> QED BY <1>2, <2>1, FusedPvOneSoftmaxWarp DEF FusedPv!SoftmaxWait
<1>3. CASE FusedPv!SoftmaxRead(g, w)
  <2>1. FusedPvSoftmaxOK(g, [me EXCEPT !.pc = "max", !.s_i = tmem.s])
    BY <1>1, <1>3 DEF FusedPvSoftmaxOK, FusedPvInTile, FusedPvRegisters, FusedPv!SoftmaxRead
  <2> QED BY <1>3, <2>1, FusedPvOneSoftmaxWarp DEF FusedPv!SoftmaxRead
<1> QED BY <1>2, <1>3

\* The step that computes P: at most the threshold above the maximum, plus the bias.
LEMMA FusedPvSoftmaxMaxFits ==
    ASSUME FusedPvFitsInv, NEW g \in FusedPv!Stage, NEW w \in FusedPv!Warps,
           FusedPv!SoftmaxMax(g, w)
    PROVE  FusedPvFitsInv'
<1> DEFINE me == warp.sm[g][w]
           i == FusedPv!Logical(me.tile, 2 * me.n + g)
           row == FusedPv!LazyUpdate(me.row, i, FusedPv!Score(me.tile, i), FusedPv!RescaleThreshold)
           p == {<<x[1], x[2] + FusedPv!Bias>> : x \in row.p}
<1>1. FusedPvSoftmaxOK(g, me) /\ me.pc = "max" /\ g \in 0 .. 1
  BY DEF FusedPvFitsInv, FusedPv!SoftmaxMax, FusedPv!Stage
<1>2. /\ me.tile \in FusedPv!Tiles /\ me.n \in Nat /\ 2 * me.n + g < FusedPv!N(me.tile)
      /\ me.row \in Row
  BY <1>1 DEF FusedPvSoftmaxOK, FusedPvInTile
<1>3. FusedPv!N(me.tile) \in Nat /\ i \in Nat /\ FusedPv!Score(me.tile, i) \in Int
  <2>1. FusedPv!N(me.tile) \in Nat /\ \A k \in Nat : FusedPv!Score(me.tile, k) \in Int
    BY <1>2, FusedPvStepsOfATile DEF FusedPvFitsInv
  <2>2. i \in Nat
    BY <1>1, <1>2, <2>1 DEF FusedPv!Logical
  <2> QED BY <2>1, <2>2
<1>4. row \in Row /\ AtMost(row.p, FusedPv!RescaleThreshold)
  <2>1. row = LazyUpdate(me.row, i, FusedPv!Score(me.tile, i), FusedPv!RescaleThreshold)
    BY SameSoftmax
  <2> DEFINE score == FusedPv!Score(me.tile, i)
             most == FusedPv!RescaleThreshold
  <2>2. /\ me.row \in Row /\ i \in Int /\ score \in Int /\ most \in Nat
        /\ row = LazyUpdate(me.row, i, score, most)
    BY <1>2, <1>3, <2>1 DEF FusedPv!RescaleThreshold
  <2> HIDE DEF row, score, i, most
  <2>3. row \in Row /\ AtMost(row.p, most)
    BY <2>2, LazyUpdateFits
  <2> QED BY <2>3 DEF most
<1>5. p \in Terms /\ AtMost(p, FusedPv!MaxFp8)
  <2>1. \A x \in row.p : x \in Int \X Int /\ x[2] <= FusedPv!RescaleThreshold
    BY <1>4 DEF Row, Terms, AtMost
  <2> QED BY <2>1 DEF Terms, AtMost, FusedPv!RescaleThreshold, FusedPv!Bias, FusedPv!MaxFp8
<1>6. {FusedPv!Broken} \in Terms /\ AtMost({FusedPv!Broken}, FusedPv!MaxFp8)
  BY DEF Terms, FusedPv!Broken, FusedPv!NegInf, AtMost, FusedPv!MaxFp8
<1>7. \A ok \in BOOLEAN :
        LET q == IF ok THEN p ELSE {FusedPv!Broken}
        IN  [row EXCEPT !.p = q] \in Row /\ AtMost([row EXCEPT !.p = q].p, FusedPv!MaxFp8)
  BY <1>4, <1>5, <1>6 DEF Row
<1>8. ASSUME NEW r \in Row, AtMost(r.p, FusedPv!MaxFp8), NEW stats
      PROVE  FusedPvSoftmaxOK(g, [me EXCEPT !.pc = "p", !.row = r, !.stats = stats])
  BY <1>1, <1>2, <1>8 DEF FusedPvSoftmaxOK, FusedPvInTile, FusedPvRegisters
<1> QED BY <1>7, <1>8, FusedPvOneSoftmaxWarp DEF FusedPv!SoftmaxMax

LEMMA FusedPvSoftmaxPFits ==
    ASSUME FusedPvFitsInv, NEW g \in FusedPv!Stage, NEW w \in FusedPv!Warps,
           FusedPv!SoftmaxP(g, w)
    PROVE  FusedPvFitsInv'
<1> DEFINE me == warp.sm[g][w]
           new == [me EXCEPT !.pc = IF me.n + 1 < FusedPv!N(me.tile) \div 2 THEN "s" ELSE "sum",
                             !.n = @ + 1, !.s = 1 - @, !.p = (@ + 2) % 6]
<1>1. FusedPvSoftmaxOK(g, me) /\ me.pc = "p" /\ g \in 0 .. 1
  BY DEF FusedPvFitsInv, FusedPv!SoftmaxP, FusedPv!Stage
<1>2. me.tile \in FusedPv!Tiles /\ me.n \in Nat
  BY <1>1 DEF FusedPvSoftmaxOK, FusedPvInTile
<1>3. FusedPv!N(me.tile) \in Nat /\ FusedPv!N(me.tile) % 2 = 0
  BY <1>2, FusedPvStepsOfATile DEF FusedPvFitsInv
<1>4. me.n + 1 < FusedPv!N(me.tile) \div 2 => 2 * (me.n + 1) + g < FusedPv!N(me.tile)
  BY <1>1, <1>2, <1>3
<1>5. FusedPvSoftmaxOK(g, new)
  BY <1>1, <1>2, <1>4 DEF FusedPvSoftmaxOK, FusedPvInTile, FusedPvRegisters
<1> QED BY <1>5, FusedPvOneSoftmaxWarp DEF FusedPv!SoftmaxP

LEMMA FusedPvSoftmaxSumFits ==
    ASSUME FusedPvFitsInv, NEW g \in FusedPv!Stage, NEW w \in FusedPv!Warps,
           FusedPv!SoftmaxSum(g, w)
    PROVE  FusedPvFitsInv'
<1> DEFINE me == warp.sm[g][w]
<1>1. FusedPvSoftmaxOK(g, me)
  BY DEF FusedPvFitsInv
<1>2. FusedPvSoftmaxOK(g, [me EXCEPT !.pc = "drained", !.par = bar[FusedPv!FinalBar(g)].par])
  BY <1>1 DEF FusedPvSoftmaxOK, FusedPvInTile, FusedPvRegisters
<1>3. /\ FusedPvSoftmaxOK(g, FusedPv!NextTile(me))
      /\ FusedPvSoftmaxOK(g, FusedPv!NextTile([me EXCEPT !.stats = @ + 1]))
  BY <1>1 DEF FusedPvSoftmaxOK, FusedPvInTile, FusedPvRegisters, FusedPv!NextTile
<1> QED BY <1>2, <1>3, FusedPvOneSoftmaxWarp DEF FusedPv!SoftmaxSum

\* The invariant is inductive, and it is what PFitsFp8 needs.
LEMMA FusedPvNextFits ==
    ASSUME FusedPvFitsInv, FusedPv!Next
    PROVE  FusedPvFitsInv'
BY FusedPvLoadFits, FusedPvMmaFits, FusedPvCorrectionFits, FusedPvHardwareAndEpilogueFit,
   FusedPvSoftmaxTileFits, FusedPvSoftmaxReadFits, FusedPvSoftmaxMaxFits, FusedPvSoftmaxPFits,
   FusedPvSoftmaxSumFits DEF FusedPv!Next, FusedPv!Softmax

LEMMA FusedPvFitsInvImplies ==
    ASSUME FusedPvFitsInv
    PROVE  FusedPv!PFitsFp8
BY DEF FusedPvFitsInv, FusedPvSoftmaxOK, AtMost, FusedPv!PFitsFp8

-----------------------------------------------------------------------------
(* Whichever kernel is launched.                                           *)

\* The invariant of the kernel that was launched.
FitsInv ==
    /\ launch \in Launches
    /\ Is("sm120") => Sm120FitsInv
    /\ Is("fused_pv") => FusedPvFitsInv

\* No kernel changes its launch.
LEMMA LaunchIsFixed ==
    ASSUME Sm90!Next \/ Sm120!Next \/ Blk128!Next \/ FusedPv!Next
    PROVE  launch' = launch
<1>1. Sm90!Next => launch' = launch
  BY DEF Sm90!Load, Sm90!SyncArrive, Sm90!WaitQ, Sm90!LoadV, Sm90!WaitK,
       Sm90!WaitV, Sm90!LoadK, Sm90!Softmax, Sm90!WgmmaStart, Sm90!WgmmaEnd,
       Sm90!Final, Sm90!Store, Sm90!Drain, Sm90!Land, Sm90!Step, Sm90!Next
<1>2. Sm120!Next => launch' = launch
  BY DEF Sm120!Load, Sm120!LoadNextK, Sm120!LoadNextV, Sm120!SyncArrive,
       Sm120!WaitQ, Sm120!ReadQ, Sm120!WaitFull, Sm120!ComputeS,
       Sm120!Softmax, Sm120!ComputePV, Sm120!Final, Sm120!Fence,
       Sm120!Store, Sm120!Drain, Sm120!Land, Sm120!Step, Sm120!Next
<1>3. Blk128!Next => launch' = launch
  <2>1. Blk128!Load => launch' = launch
    BY DEF Blk128!Load, Blk128!LoadSkip, Blk128!LoadCopy, Blk128!LoadTail
  <2>2. Blk128!Mma => launch' = launch
    BY DEF Blk128!Mma, Blk128!MmaTile, Blk128!MmaS, Blk128!MmaV, Blk128!MmaPv,
         Blk128!MmaRest, Blk128!MmaK, Blk128!Mma_
  <2>3. Blk128!TensorCore => launch' = launch
    BY DEF Blk128!TensorCore
  <2>4. Blk128!Epilogue => launch' = launch
    BY DEF Blk128!Epilogue, Blk128!EpilogueStore, Blk128!EpilogueRelease
  <2>5. (\E c \in inflight : Blk128!Land(c)) => launch' = launch
    BY DEF Blk128!Land
  <2>6. ASSUME NEW g \in Blk128!Stage, NEW w \in Blk128!Warps, Blk128!Softmax(g, w)
        PROVE  launch' = launch
    <3>1. Blk128!SoftmaxTile(g, w) => launch' = launch
      BY DEF Blk128!SoftmaxTile
    <3>2. Blk128!SoftmaxS(g, w) => launch' = launch
      BY DEF Blk128!SoftmaxS
    <3>3. Blk128!SoftmaxP1(g, w) => launch' = launch
      BY DEF Blk128!SoftmaxP1
    <3>4. Blk128!SoftmaxP2(g, w) => launch' = launch
      BY DEF Blk128!SoftmaxP2
    <3>5. Blk128!SoftmaxAcquire(g, w) => launch' = launch
      BY DEF Blk128!SoftmaxAcquire
    <3>6. Blk128!SoftmaxSum(g, w) => launch' = launch
      BY DEF Blk128!SoftmaxSum
    <3> QED BY <2>6, <3>1, <3>2, <3>3, <3>4, <3>5, <3>6 DEF Blk128!Softmax
  <2>7. ASSUME NEW w \in Blk128!Warps, Blk128!Correction(w)
        PROVE  launch' = launch
    <3>1. Blk128!CorrectionStart(w) => launch' = launch
      BY DEF Blk128!CorrectionStart
    <3>2. Blk128!CorrectionArrive(w) => launch' = launch
      BY DEF Blk128!CorrectionArrive
    <3>3. Blk128!CorrectionMet(w) => launch' = launch
      BY DEF Blk128!CorrectionMet
    <3>4. Blk128!CorrectionCombine(w) => launch' = launch
      BY DEF Blk128!CorrectionCombine
    <3>5. Blk128!CorrectionTail(w) => launch' = launch
      BY DEF Blk128!CorrectionTail
    <3> QED BY <2>7, <3>1, <3>2, <3>3, <3>4, <3>5 DEF Blk128!Correction
  <2> QED BY <2>1, <2>2, <2>3, <2>4, <2>5, <2>6, <2>7 DEF Blk128!Next
<1>4. FusedPv!Next => launch' = launch
  <2>1. FusedPv!Load => launch' = launch
    BY DEF FusedPv!Load, FusedPv!LoadSkip, FusedPv!LoadCopy, FusedPv!LoadTail
  <2>2. FusedPv!Mma => launch' = launch
    BY DEF FusedPv!Mma, FusedPv!MmaTile, FusedPv!MmaV, FusedPv!MmaK,
         FusedPv!MmaQK, FusedPv!MmaPV, FusedPv!MmaDrain
  <2>3. FusedPv!TensorCore => launch' = launch
    BY DEF FusedPv!TensorCore
  <2>4. FusedPv!Epilogue => launch' = launch
    BY DEF FusedPv!Epilogue, FusedPv!EpilogueStore, FusedPv!EpilogueRelease
  <2>5. (\E c \in inflight : FusedPv!Land(c)) => launch' = launch
    BY DEF FusedPv!Land
  <2>6. ASSUME NEW g \in FusedPv!Stage, NEW w \in FusedPv!Warps,
           FusedPv!Softmax(g, w)
        PROVE  launch' = launch
    <3>1. FusedPv!SoftmaxTile(g, w) => launch' = launch
      BY DEF FusedPv!SoftmaxTile
    <3>2. FusedPv!SoftmaxWait(g, w) => launch' = launch
      BY DEF FusedPv!SoftmaxWait
    <3>3. FusedPv!SoftmaxRead(g, w) => launch' = launch
      BY DEF FusedPv!SoftmaxRead
    <3>4. FusedPv!SoftmaxMax(g, w) => launch' = launch
      BY DEF FusedPv!SoftmaxMax
    <3>5. FusedPv!SoftmaxP(g, w) => launch' = launch
      BY DEF FusedPv!SoftmaxP
    <3>6. FusedPv!SoftmaxSum(g, w) => launch' = launch
      BY DEF FusedPv!SoftmaxSum
    <3> QED BY <2>6, <3>1, <3>2, <3>3, <3>4, <3>5, <3>6 DEF FusedPv!Softmax
  <2>7. ASSUME NEW w \in FusedPv!Warps, FusedPv!Correction(w)
        PROVE  launch' = launch
    <3>1. FusedPv!CorrectionStart(w) => launch' = launch
      BY DEF FusedPv!CorrectionStart
    <3>2. FusedPv!CorrectionArrive(w) => launch' = launch
      BY DEF FusedPv!CorrectionArrive
    <3>3. FusedPv!CorrectionFirst(w) => launch' = launch
      BY DEF FusedPv!CorrectionFirst
    <3>4. FusedPv!CorrectionScale(w) => launch' = launch
      BY DEF FusedPv!CorrectionScale
    <3>5. FusedPv!CorrectionRescale(w) => launch' = launch
      BY DEF FusedPv!CorrectionRescale
    <3>6. FusedPv!CorrectionDrain(w) => launch' = launch
      BY DEF FusedPv!CorrectionDrain
    <3>7. FusedPv!CorrectionFinal(w) => launch' = launch
      BY DEF FusedPv!CorrectionFinal
    <3>8. FusedPv!CorrectionCombine(w) => launch' = launch
      BY DEF FusedPv!CorrectionCombine
    <3>9. FusedPv!CorrectionTail(w) => launch' = launch
      BY DEF FusedPv!CorrectionTail
    <3> QED BY <2>7, <3>1, <3>2, <3>3, <3>4, <3>5, <3>6, <3>7, <3>8, <3>9 DEF FusedPv!Correction
  <2> QED BY <2>1, <2>2, <2>3, <2>4, <2>5, <2>6, <2>7 DEF FusedPv!Next
<1> QED BY <1>1, <1>2, <1>3, <1>4

LEMMA InitFits ==
    ASSUME Init
    PROVE  FitsInv
<1>1. launch \in Launches
  BY DEF Init
<1>2. ASSUME Is("sm120")
      PROVE  Sm120FitsInv
  <2>1. Sm120!Init /\ launch.scores \in Seq(Int)
    BY <1>2, LaunchesAssumption DEF Init, Is
  <2> QED BY <2>1, Sm120InitFits
<1>3. ASSUME Is("fused_pv")
      PROVE  FusedPvFitsInv
  <2>1. FusedPv!Init /\ launch.tiles \in Seq(Seq(Int))
    BY <1>3, LaunchesAssumption DEF Init, Is
  <2> QED BY <2>1, FusedPvInitFits
<1> QED BY <1>1, <1>2, <1>3 DEF FitsInv

\* The invariant is about the variables.
LEMMA UnchangedFits ==
    ASSUME FitsInv, UNCHANGED vars
    PROVE  FitsInv'
BY DEF vars, FitsInv, Is, Sm120FitsInv, FusedPvFitsInv, Sm120TilesOK,
       Sm120WarpOK, Sm120!Tile, Sm120!N, Sm120Before,
       Sm120InLoop, Sm120Registers, Row, Terms,
       AtMost, Sm120!SagePRescaleThreshold, FusedPvSoftmaxOK,
       FusedPvRegisters, FusedPvInTile, FusedPv!Tiles, FusedPv!N,
       FusedPv!Raw, FusedPv!Stage, FusedPv!Warps, FusedPv!MaxFp8

\* One kernel runs, and its steps keep its invariant.
LEMMA NextFits ==
    ASSUME FitsInv, Next
    PROVE  FitsInv'
<1>1. CASE Is("sm90") /\ Sm90!Next
  BY <1>1, LaunchIsFixed DEF FitsInv, Is
<1>2. CASE Is("sm120") /\ Sm120!Next
  BY <1>2, LaunchIsFixed, Sm120NextFits DEF FitsInv, Is
<1>3. CASE Is("blk128") /\ Blk128!Next
  BY <1>3, LaunchIsFixed DEF FitsInv, Is
<1>4. CASE Is("fused_pv") /\ FusedPv!Next
  BY <1>4, LaunchIsFixed, FusedPvNextFits DEF FitsInv, Is
<1>5. CASE UNCHANGED vars
  BY <1>5, UnchangedFits
<1> QED BY <1>1, <1>2, <1>3, <1>4, <1>5 DEF Next

\* P never exceeds what FP8 holds, in the Sage kernel of SM120 and in the fused
\* PV kernel of SM100 and SM103, for every launch: lists and scores of any
\* length and order, any number of warps.
THEOREM PFits == FairSpec => []PFitsFp8
<1>1. Init => FitsInv
  BY InitFits
<1>2. FitsInv /\ [Next]_vars => FitsInv'
  BY NextFits, UnchangedFits
<1>3. FitsInv => PFitsFp8
  BY Sm120FitsInvImplies, FusedPvFitsInvImplies DEF FitsInv, PFitsFp8, Is
<1> QED BY <1>1, <1>2, <1>3, PTL DEF FairSpec
===============================================================================
