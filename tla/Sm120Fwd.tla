-------------------------------- MODULE Sm120Fwd --------------------------------
(***************************************************************************)
(* One CTA of the forward kernels of csrc/fwd/sm120_blk64/: BF16           *)
(* (bsa_fwd_sm120.py), FP8 (bsa_fwd_sm120_fp8.py) and INT8/FP8 Sage        *)
(* (bsa_fwd_sm120_sage.py), which are one protocol.  Four warps run the    *)
(* same program; warp 0 also issues the TMA copies.  Here the products are *)
(* each warp's own (ldmatrix and mma), the warps drift apart, and every    *)
(* tile has a PipelineTmaAsync with a full and an empty barrier.  Warp 0   *)
(* is a consumer of the tiles it produces, so it must give a tile back     *)
(* before it can wait for it to be empty.                                  *)
(*                                                                         *)
(* K and V have one stage (kv_stage = 1, in all three).                    *)
(***************************************************************************)
EXTENDS Integers, Sequences, FiniteSets, Mbarrier, OnlineSoftmax

CONSTANTS Warps   \* the warps of the CTA

VARIABLES
    launch,     \* [scores : Seq(score of the row in each block),
                \*  variant : {"bf16", "fp8", "sage"}], never changed
    bar,        \* full and empty barriers of Q, K and V, and sync_threads
    smem,       \* the tiles: the block they hold, 0 for none
    inflight,   \* TMA copies under way
    warp,       \* registers of each warp
    out         \* what each warp's rows of O and LSE are

vars == <<launch, bar, smem, inflight, warp, out>>

Leader == CHOOSE w \in Warps : TRUE
N == Len(launch.scores)
Block(j) == N - j            \* the block of iteration j, from 0

\* log2(448 / 256) = 0.8: how far a Sage row may rise above its maximum before
\* it is rescaled, and with it the largest P that FP8 can hold.  Scores of a
\* launch are in half powers of two, so it is 1.
SagePRescaleThreshold == 1

Tile == {"Q", "K", "V"}
Full(t) == <<t, "full">>
Empty(t) == <<t, "empty">>
Sync == <<"sync", "threads">>

Init ==
    /\ bar = [b \in (Tile \X {"full", "empty"}) \cup {Sync} |->
                Fresh(IF b[2] = "full" THEN 1 ELSE Cardinality(Warps))]
    /\ smem = [q |-> [w \in Warps |-> "none"], k |-> 0, v |-> 0,
               o |-> [w \in Warps |-> [row |-> EmptyRow, fenced |-> FALSE]]]
    /\ inflight = {}
    /\ warp = [w \in Warps |-> [pc |-> IF w = Leader THEN "load" ELSE "sync",
                                j |-> 0, q |-> "none", s |-> 0, row |-> EmptyRow]]
    /\ out = [i \in (IF launch.variant = "sage" THEN {"o"} ELSE {"o", "lse"}) \X Warps
                |-> "unwritten"]

-----------------------------------------------------------------------------
(* Copies.                                                                 *)

Go(w, pc) == warp' = [warp EXCEPT ![w].pc = pc]
Copy(t, b) == [tile |-> t, block |-> b]

\* producer_acquire of the one stage, which has been filled n times.
CanFill(t, n) == Passed(bar[Empty(t)], EmptyPhase(n, 1))

\* The copies of the prologue: Q, and K and V of the last block if there is one.
Prologue == {Copy("Q", 0)} \cup (IF N > 0 THEN {Copy("K", Block(0)), Copy("V", Block(0))} ELSE {})

Load(w) ==
    /\ warp[w].pc = "load"
    /\ \A c \in Prologue : CanFill(c.tile, 0)
    /\ bar' = [b \in DOMAIN bar |->
                 IF \E c \in Prologue : b = Full(c.tile) THEN Expecting(bar[b], 1) ELSE bar[b]]
    /\ inflight' = Prologue
    /\ Go(w, "sync")
    /\ UNCHANGED <<launch, smem, out>>

HasNext(w) == w = Leader /\ warp[w].j + 1 < N

\* Warp 0, after its own S: K of the next block, once every warp has given K back.
LoadNextK(w) ==
    /\ warp[w].pc = "loadk"
    /\ IF HasNext(w)
       THEN /\ CanFill("K", warp[w].j + 1)
            /\ bar' = ExpectAt(bar, Full("K"), 1)
            /\ inflight' = inflight \cup {Copy("K", Block(warp[w].j + 1))}
            /\ smem' = [smem EXCEPT !.k = 0]
       ELSE UNCHANGED <<bar, inflight, smem>>
    /\ Go(w, "softmax")
    /\ UNCHANGED <<launch, out>>

\* Warp 0, after its own P V: V of the block whose K it loaded above.
LoadNextV(w) ==
    /\ warp[w].pc = "loadv"
    /\ IF HasNext(w)
       THEN /\ CanFill("V", warp[w].j + 1)
            /\ bar' = ExpectAt(bar, Full("V"), 1)
            /\ inflight' = inflight \cup {Copy("V", Block(warp[w].j + 1))}
            /\ smem' = [smem EXCEPT !.v = 0]
       ELSE UNCHANGED <<bar, inflight, smem>>
    /\ warp' = [warp EXCEPT ![w].pc = IF warp[w].j + 1 < N THEN "k" ELSE "final",
                            ![w].j = @ + 1, ![w].s = 0]
    /\ UNCHANGED <<launch, out>>

-----------------------------------------------------------------------------
(* The loop of each warp.                                                  *)

SyncArrive(w) ==
    /\ warp[w].pc = "sync"
    /\ bar' = ArriveAt(bar, {Sync})
    /\ Go(w, "q")
    /\ UNCHANGED <<launch, smem, inflight, out>>

WaitQ(w) ==
    /\ warp[w].pc = "q" /\ Passed(bar[Sync], 0) /\ Passed(bar[Full("Q")], 0)
    /\ Go(w, "readq")
    /\ UNCHANGED <<launch, bar, smem, inflight, out>>

\* Q stays in registers (q_in_regs).
ReadQ(w) ==
    /\ warp[w].pc = "readq"
    /\ bar' = ArriveAt(bar, {Empty("Q")})
    /\ warp' = [warp EXCEPT ![w].pc = IF N > 0 THEN "k" ELSE "final", ![w].q = smem.q[w]]
    /\ UNCHANGED <<launch, smem, inflight, out>>

\* consumer_wait of K and of V.
WaitFull(w) ==
    /\ \/ /\ warp[w].pc = "k" /\ Passed(bar[Full("K")], FullPhase(warp[w].j, 1))
          /\ Go(w, "s")
       \/ /\ warp[w].pc = "v" /\ Passed(bar[Full("V")], FullPhase(warp[w].j, 1))
          /\ Go(w, "pv")
    /\ UNCHANGED <<launch, bar, smem, inflight, out>>

\* A bug for the runs to find: K is not given back.
ComputeSKept(w) ==
    /\ warp[w].pc = "s"
    /\ warp' = [warp EXCEPT ![w].pc = "loadk", ![w].s = IF warp[w].q = "Q" THEN smem.k ELSE 0]
    /\ UNCHANGED <<launch, bar, smem, inflight, out>>

\* S = Q K^T from shared memory, then K is given back.
ComputeS(w) ==
    /\ warp[w].pc = "s"
    /\ bar' = ArriveAt(bar, {Empty("K")})
    /\ warp' = [warp EXCEPT ![w].pc = "loadk", ![w].s = IF warp[w].q = "Q" THEN smem.k ELSE 0]
    /\ UNCHANGED <<launch, smem, inflight, out>>

\* mask, online softmax, conversion of P and rescaling of O.
UpdateRow(row, b, score) ==
    IF launch.variant = "sage" THEN LazyUpdate(row, b, score, SagePRescaleThreshold)
    ELSE Update(row, b, score)

Softmax(w) ==
    LET me == warp[w] IN
    /\ me.pc = "softmax"
    /\ warp' = [warp EXCEPT ![w].pc = "v",
                  ![w].row = IF me.s = 0 THEN [me.row EXCEPT !.p = {Broken}]
                             ELSE UpdateRow(me.row, me.s, launch.scores[me.s])]
    /\ UNCHANGED <<launch, bar, smem, inflight, out>>

\* O += P V, then V is given back.
ComputePV(w) ==
    /\ warp[w].pc = "pv"
    /\ bar' = ArriveAt(bar, {Empty("V")})
    /\ warp' = [warp EXCEPT ![w].pc = "loadv",
                            ![w].row = AddPV(@, warp[w].s # 0 /\ smem.v = warp[w].s)]
    /\ UNCHANGED <<launch, smem, inflight, out>>

-----------------------------------------------------------------------------
(* Epilogue.                                                               *)

Status(row) == IF Exact(row, launch.scores) THEN "exact" ELSE "wrong"

\* LSE to global memory; O to shared memory.  In the BF16 kernel that is the
\* memory of Q, row by row: both tiles have the same layout.
Final(w) ==
    /\ warp[w].pc = "final"
    /\ smem' = [smem EXCEPT !.o[w] = [row |-> warp[w].row, fenced |-> FALSE],
                            !.q[w] = IF launch.variant = "bf16" THEN "O" ELSE @]
    /\ out' = [i \in DOMAIN out |->
                 IF i = <<"lse", w>> THEN Status(warp[w].row) ELSE out[i]]
    /\ Go(w, "fence")
    /\ UNCHANGED <<launch, bar, inflight>>

\* fence_view_async_shared makes them visible to TMA; then all warps meet.
Fence(w) ==
    /\ warp[w].pc = "fence"
    /\ smem' = [smem EXCEPT !.o[w].fenced = TRUE]
    /\ bar' = ArriveAt(bar, {Sync})
    /\ Go(w, "store")
    /\ UNCHANGED <<launch, inflight, out>>

Store(w) ==
    /\ warp[w].pc = "store" /\ Passed(bar[Sync], 1)
    /\ inflight' = IF w = Leader THEN inflight \cup {Copy("O", 0)} ELSE inflight
    /\ Go(w, IF w = Leader THEN "drain" ELSE "done")
    /\ UNCHANGED <<launch, bar, smem, out>>

Drain(w) ==
    /\ warp[w].pc = "drain" /\ Copy("O", 0) \notin inflight
    /\ Go(w, "done")
    /\ UNCHANGED <<launch, bar, smem, inflight, out>>

\* A copy is complete; the one of O has read the tile and written global memory.
Land(c) ==
    /\ c \in inflight /\ inflight' = inflight \ {c}
    /\ IF c.tile = "O"
       THEN /\ out' = [i \in DOMAIN out |->
                 IF i[1] # "o" THEN out[i]
                 ELSE IF smem.o[i[2]].fenced THEN Status(smem.o[i[2]].row) ELSE "wrong"]
            /\ UNCHANGED <<bar, smem>>
       ELSE /\ bar' = ReceivedAt(bar, Full(c.tile))
            /\ smem' = CASE c.tile = "Q" -> [smem EXCEPT !.q = [w \in Warps |-> "Q"]]
                         [] c.tile = "K" -> [smem EXCEPT !.k = c.block]
                         [] c.tile = "V" -> [smem EXCEPT !.v = c.block]
            /\ UNCHANGED out
    /\ UNCHANGED <<launch, warp>>

Exited == \A w \in Warps : warp[w].pc = "done"

Step(w) ==
    \/ Load(w) \/ SyncArrive(w) \/ WaitQ(w) \/ ReadQ(w) \/ WaitFull(w) \/ ComputeS(w)
    \/ LoadNextK(w) \/ Softmax(w) \/ ComputePV(w) \/ LoadNextV(w)
    \/ Final(w) \/ Fence(w) \/ Store(w) \/ Drain(w)

Next ==
    \/ \E w \in Warps : Step(w)
    \/ \E c \in inflight : Land(c)

-----------------------------------------------------------------------------
(* Properties                                                              *)

(* From its wait to its release a warp finds in the tile the block of its    *)
(* own iteration, however far the other warps have drifted; and a warp that  *)
(* has not yet taken Q into registers still finds Q where O will go.         *)
OperandsHeld ==
    \A w \in Warps :
        /\ warp[w].pc = "s" => smem.k = Block(warp[w].j)
        /\ warp[w].pc = "pv" => smem.v = Block(warp[w].j)
        /\ warp[w].pc = "readq" => smem.q[w] = "Q"

(* P is converted to FP8 with the row's maximum as it is kept, not with the  *)
(* current one: it may be above 1, but never above what FP8 holds.           *)
PFitsFp8 ==
    \A w \in Warps : \A x \in warp[w].row.p : x[2] <= SagePRescaleThreshold
===============================================================================
