-------------------------------- MODULE Sm90Bwd --------------------------------
(***************************************************************************)
(* One CTA of the Hopper backward kernel of csrc/bwd/sm90_blk64/           *)
(* bsa_bwd_sm90.py.  It has one K/V block and the list of Q blocks that    *)
(* attend it.  Warp 0 loads; warpgroup 1 recomputes P and adds up dV;      *)
(* warpgroup 2 forms dS from P and dP, and adds up dK; warp 1 adds dQ,     *)
(* which warpgroup 2 leaves in shared memory, to global memory.  Q with    *)
(* its LSE and dO with its dPsum come through three stages each, released  *)
(* by every warp of both warpgroups; P, dS and dQ have one stage, guarded  *)
(* by named barriers; dK and dV leave through the memory of K and V.       *)
(*                                                                         *)
(* The kernel is launched while the preprocess kernel is still writing     *)
(* LSE and dPsum and clearing the dQ accumulator.                          *)
(***************************************************************************)
EXTENDS Integers, Sequences, FiniteSets, Mbarrier

VARIABLES
    launch,     \* [edges : Seq(Q block), warps : the warps of a warpgroup, lockstep :
                \*  the products for which its warps wait for each other], never changed
    bar,        \* mbarriers and named barriers
    smem,       \* the Q block whose data a tile has, or what it is
    inflight,   \* TMA and bulk copies under way
    tc,         \* the products each warp of a warpgroup has under way, in order
    warp,       \* registers of each role
    out         \* what each piece of dQ, dK and dV is

vars == <<launch, bar, smem, inflight, tc, warp, out>>

Warps == launch.warps
Leader == CHOOSE w \in Warps : TRUE
Group == 1 .. 2
QStage == 3                     \* SM90_BWD_QDO_STAGE
N == Len(launch.edges)          \* loop_count
Blk(j) == launch.edges[j + 1]   \* of iteration j, from 0
Listed == {launch.edges[i] : i \in 1 .. N}
S(j) == j % QStage
Garbage == -1

\* PReady, PdSConsumed: num_mma_threads; dQ: a warpgroup and the store warp.
BarId ==
    ({"q_full", "q_empty", "do_full", "do_empty"} \X (0 .. QStage - 1))
    \cup ({"p_ready", "pds_consumed", "dq_empty", "dq_full", "epi_v", "epi_k"} \X {0})
Count == Cardinality(Warps)
Arrivals(b) ==
    CASE b[1] \in {"q_full", "do_full"} -> 1
      [] b[1] \in {"q_empty", "do_empty", "p_ready", "pds_consumed"} -> 2 * Count
      [] b[1] \in {"dq_empty", "dq_full"} -> Count + 1
      [] OTHER -> Count
Named(name) == <<name, 0>>

Rows(x) == [w \in Warps |-> x]
\* The memory of K and of V: the tile itself, or the sum that replaces it.
Is(name) == [is |-> name, of |-> {}]
SumOf(terms) == [is |-> "sum", of |-> terms]
Empty(s) == [i \in 0 .. QStage - 1 |-> s]

Init ==
    /\ bar = [b \in BarId |-> Fresh(Arrivals(b))]
    /\ smem = [q |-> Empty(Garbage), lse |-> Empty(Garbage), do |-> Empty(Garbage),
               psum |-> Empty(Garbage), k |-> Rows(Is("none")), v |-> Rows(Is("none")),
               p |-> Rows(Garbage), ds |-> Rows(Garbage), dq |-> Rows(Garbage)]
    /\ inflight = {} /\ tc = [g \in Group |-> Rows(<<>>)]
    /\ warp = [pre |-> "launched",
               load |-> [pc |-> IF N > 0 THEN "q" ELSE "done", j |-> 0],
               store |-> [pc |-> IF N > 0 THEN "empty" ELSE "done", j |-> 0, par |-> 0],
               mma |-> [g \in Group |-> Rows(
                  [pc |-> IF N > 0 THEN "q" ELSE "done", j |-> 0, par |-> 0, kept |-> FALSE,
                   s |-> Garbage, p |-> Garbage, ds |-> Garbage, dq |-> Garbage, acc |-> {}])]]
    /\ out = [i \in ({"dQ"} \X Listed) \cup (IF N > 0 THEN {<<"dK", 0>>, <<"dV", 0>>} ELSE {})
                |-> "unwritten"]

-----------------------------------------------------------------------------
(* The preprocess kernel, seen from here: it let this kernel start after   *)
(* reading O and dO, and has still to write LSE, dPsum and dQaccum = 0.    *)

PreprocessEnds ==
    /\ warp.pre = "launched"
    /\ warp' = [warp EXCEPT !.pre = "done"]
    /\ UNCHANGED <<launch, bar, smem, inflight, tc, out>>

-----------------------------------------------------------------------------
(* Load warp.                                                              *)

Copy(k, s, b) == [k |-> k, s |-> s, b |-> b]
Load_(pc, j) == warp' = [warp EXCEPT !.load = [pc |-> pc, j |-> j]]

\* Copies on one barrier that are issued together land together here: nobody
\* can tell.  The first Q brings K, and LSE follows; later Qs bring LSE.
LoadQ ==
    LET j == warp.load.j IN
    /\ warp.load.pc = "q"
    /\ Passed(bar[<<"q_empty", S(j)>>], EmptyPhase(j, QStage))
    /\ bar' = ExpectAt(bar, <<"q_full", S(j)>>, IF j = 0 THEN 2 ELSE 1)
    /\ inflight' = inflight \cup {Copy("q", S(j), Blk(j))}
    /\ smem' = [smem EXCEPT !.q[S(j)] = Garbage, !.lse[S(j)] = Garbage]
    /\ Load_(IF j = 0 THEN "lse" ELSE "do", j)
    /\ UNCHANGED <<launch, tc, out>>

\* A bug for the runs to find: no griddepcontrol_wait.
LoadLSEUnwaited ==
    /\ warp.load.pc = "lse"
    /\ inflight' = inflight \cup
         {Copy("lse", 0, IF warp.pre = "done" THEN Blk(0) ELSE Garbage)}
    /\ Load_("do", 0)
    /\ UNCHANGED <<launch, bar, smem, tc, out>>

\* griddepcontrol_wait, "Wait for bwd preprocess to finish writing LSE and dPsum".
LoadLSE ==
    /\ warp.load.pc = "lse" /\ warp.pre = "done"
    /\ inflight' = inflight \cup {Copy("lse", 0, Blk(0))}
    /\ Load_("do", 0)
    /\ UNCHANGED <<launch, bar, smem, tc, out>>

\* dO and dPsum; the first dO brings V.
LoaddO ==
    LET j == warp.load.j IN
    /\ warp.load.pc = "do"
    /\ Passed(bar[<<"do_empty", S(j)>>], EmptyPhase(j, QStage))
    /\ bar' = ExpectAt(bar, <<"do_full", S(j)>>, 1)
    /\ inflight' = inflight \cup {Copy("do", S(j), Blk(j))}
    /\ smem' = [smem EXCEPT !.do[S(j)] = Garbage, !.psum[S(j)] = Garbage]
    /\ Load_(IF j + 1 < N THEN "q" ELSE "done", j + 1)
    /\ UNCHANGED <<launch, tc, out>>

Load == LoadQ \/ LoadLSE \/ LoaddO

-----------------------------------------------------------------------------
(* The warps of the two warpgroups.                                        *)

me(g, w) == warp.mma[g][w]
To(g, w, new) == warp' = [warp EXCEPT !.mma[g][w] = new]
Met(name, x) == Passed(bar[Named(name)], x.par)
\* The warp arrives at a named barrier, and remembers the phase to wait for.
At(g, w, name, pc) ==
    /\ bar' = ArriveAt(bar, {Named(name)})
    /\ To(g, w, [me(g, w) EXCEPT !.pc = pc, !.par = bar[Named(name)].par])
Full(tile, j) == Passed(bar[<<tile, S(j)>>], FullPhase(j, QStage))
AllAt(g, pc) == \A w \in Warps : me(g, w).pc = pc

\* The code orders the warps of a warpgroup before a WGMMA with nothing but a
\* fence of each: a warp starts its own rows of a product when it comes to it,
\* unless the hardware makes it wait for the others.
Products == {"S", "dV", "dP", "dQ", "dK"}
Issuers(do) == IF do \in launch.lockstep THEN {Warps} ELSE {{w} : w \in Warps}
Op(do, j) == [do |-> do, j |-> j]

Issue(g, ws, pc, products) ==
    /\ \A w \in ws : me(g, w).pc = pc
    /\ tc' = [tc EXCEPT ![g] = [w \in Warps |->
          IF w \in ws THEN @[w] \o [i \in DOMAIN products |-> Op(products[i], me(g, w).j)] ELSE @[w]]]
    /\ warp' = [warp EXCEPT !.mma[g] = [w \in Warps |->
          IF w \in ws THEN [@[w] EXCEPT !.pc = pc \o "_wait"] ELSE @[w]]]
    /\ UNCHANGED <<launch, bar, smem, inflight, out>>

\* A term of an accumulator: the block both factors are of.
Add(acc, a, b) == IF a = b /\ a # Garbage /\ a \notin acc THEN acc \cup {a} ELSE acc \cup {Garbage}
Intact(tile, name) == tile = Rows(Is(name))

ProductEnds(g, ws, do) ==
    LET result(x, op) ==
          LET s == S(op.j) IN
          CASE op.do = "S" -> [x EXCEPT !.s = IF x.kept THEN smem.q[s] ELSE Garbage]
            [] op.do = "dV" -> [x EXCEPT !.acc = Add(@, x.p, smem.do[s])]
            [] op.do = "dP" -> [x EXCEPT !.s = IF x.kept THEN smem.do[s] ELSE Garbage]
            [] op.do = "dQ" -> [x EXCEPT !.dq =
                 IF Intact(smem.k, "K") /\ \A v \in Warps : smem.ds[v] = x.ds THEN x.ds ELSE Garbage]
            [] op.do = "dK" -> [x EXCEPT !.acc = Add(@, x.ds, smem.q[s])]
    IN  /\ \A w \in ws : tc[g][w] # <<>> /\ Head(tc[g][w]).do = do
        /\ tc' = [tc EXCEPT ![g] = [w \in Warps |-> IF w \in ws THEN Tail(@[w]) ELSE @[w]]]
        /\ warp' = [warp EXCEPT !.mma[g] = [w \in Warps |->
              IF w \in ws THEN result(@[w], Head(tc[g][w])) ELSE @[w]]]
        /\ UNCHANGED <<launch, bar, smem, inflight, out>>

-----------------------------------------------------------------------------
(* Warpgroup 1.                                                            *)

\* The one P tile: from the second iteration on, once warpgroup 2 has read it.
ReuseP(w) ==
    /\ me(1, w).pc = "pds"
    /\ At(1, w, "pds_consumed", "q")
    /\ UNCHANGED <<launch, smem, inflight, tc, out>>

\* K goes into registers at the first iteration.
WaitQ(w) ==
    LET x == me(1, w) IN
    /\ x.pc = "q" /\ (x.j > 0 => Met("pds_consumed", x)) /\ Full("q_full", x.j)
    /\ To(1, w, [x EXCEPT !.pc = "s", !.kept = IF x.j = 0 THEN Intact(smem.k, "K") ELSE @])
    /\ UNCHANGED <<launch, bar, smem, inflight, tc, out>>

\* S is there and the rows of LSE are read: P = exp2(S - LSE), Q is given back.
ComputeP(w) ==
    LET x == me(1, w) IN
    /\ x.pc = "s_wait" /\ tc[1][w] = <<>>
    /\ bar' = ArriveAt(bar, {<<"q_empty", S(x.j)>>})
    /\ To(1, w, [x EXCEPT !.pc = "p", !.p = IF x.s = smem.lse[S(x.j)] THEN x.s ELSE Garbage])
    /\ UNCHANGED <<launch, smem, inflight, tc, out>>

\* barrier_arrive(PReady): warpgroup 1 does not wait for warpgroup 2 here.
WriteP(w) ==
    /\ me(1, w).pc = "p"
    /\ smem' = [smem EXCEPT !.p[w] = me(1, w).p]
    /\ At(1, w, "p_ready", "do")
    /\ UNCHANGED <<launch, inflight, tc, out>>

WaitdO(w) ==
    LET x == me(1, w) IN
    /\ x.pc = "do" /\ Full("do_full", x.j)
    /\ To(1, w, [x EXCEPT !.pc = "dv"])
    /\ UNCHANGED <<launch, bar, smem, inflight, tc, out>>

EnddV(w) ==
    LET x == me(1, w) IN
    /\ x.pc = "dv_wait" /\ tc[1][w] = <<>>
    /\ bar' = ArriveAt(bar, {<<"do_empty", S(x.j)>>})
    /\ To(1, w, [x EXCEPT !.pc = IF x.j + 1 < N THEN "pds" ELSE "epi", !.j = @ + 1])
    /\ UNCHANGED <<launch, smem, inflight, tc, out>>

-----------------------------------------------------------------------------
(* Warpgroup 2.                                                            *)

WaitQdO(w) ==
    LET x == me(2, w) IN
    /\ x.pc = "q" /\ Full("q_full", x.j) /\ Full("do_full", x.j)
    /\ To(2, w, [x EXCEPT !.pc = IF x.j = 0 THEN "v" ELSE "dp"])
    /\ UNCHANGED <<launch, bar, smem, inflight, tc, out>>

\* V goes into registers at the first iteration.
KeepV(w) ==
    /\ me(2, w).pc = "v"
    /\ To(2, w, [me(2, w) EXCEPT !.pc = "dp", !.kept = Intact(smem.v, "V")])
    /\ UNCHANGED <<launch, bar, smem, inflight, tc, out>>

WaitP(w) ==
    /\ me(2, w).pc = "dp_wait"
    /\ At(2, w, "p_ready", "p")
    /\ UNCHANGED <<launch, smem, inflight, tc, out>>

\* P is in registers: its tile may be written again.
ReadP(w) ==
    LET x == me(2, w) IN
    /\ x.pc = "p" /\ Met("p_ready", x)
    /\ bar' = ArriveAt(bar, {Named("pds_consumed")})
    /\ To(2, w, [x EXCEPT !.pc = "ds", !.p = smem.p[w]])
    /\ UNCHANGED <<launch, smem, inflight, tc, out>>

\* dS = P (dP - dPsum); dO is given back, dS stored for the dQ product.
WritedS(w) ==
    LET x == me(2, w)
        ds == IF x.s = x.p /\ x.p = smem.psum[S(x.j)] THEN x.p ELSE Garbage
    IN  /\ x.pc = "ds" /\ tc[2][w] = <<>>
        /\ bar' = ArriveAt(bar, {<<"do_empty", S(x.j)>>})
        /\ smem' = [smem EXCEPT !.ds[w] = ds]
        /\ To(2, w, [x EXCEPT !.pc = "dsk", !.ds = ds])
        /\ UNCHANGED <<launch, inflight, tc, out>>

\* wait_group(1): dQ is there, dK may still be under way.
WaitdQEmpty(w) ==
    /\ me(2, w).pc = "dsk_wait" /\ Len(tc[2][w]) <= 1
    /\ At(2, w, "dq_empty", "dq")
    /\ UNCHANGED <<launch, smem, inflight, tc, out>>

WritedQ(w) ==
    LET x == me(2, w) IN
    /\ x.pc = "dq" /\ Met("dq_empty", x)
    /\ smem' = [smem EXCEPT !.dq[w] = x.dq]
    /\ bar' = ArriveAt(bar, {Named("dq_full")})
    /\ To(2, w, [x EXCEPT !.pc = "dk"])
    /\ UNCHANGED <<launch, inflight, tc, out>>

EnddK(w) ==
    LET x == me(2, w) IN
    /\ x.pc = "dk" /\ tc[2][w] = <<>>
    /\ bar' = ArriveAt(bar, {<<"q_empty", S(x.j)>>})
    /\ To(2, w, [x EXCEPT !.pc = IF x.j + 1 < N THEN "q" ELSE "epi", !.j = @ + 1])
    /\ UNCHANGED <<launch, smem, inflight, tc, out>>

-----------------------------------------------------------------------------
(* Epilogues: dV of warpgroup 1 and dK of warpgroup 2 go through the memory *)
(* of V and of K, after a barrier of the warpgroup alone.                   *)

EpiBar(g) == IF g = 1 THEN "epi_v" ELSE "epi_k"

EpilogueStart(g, w) ==
    /\ me(g, w).pc = "epi"
    /\ At(g, w, EpiBar(g), "epi_write")
    /\ UNCHANGED <<launch, smem, inflight, tc, out>>

EpilogueWrite(g, w) ==
    LET x == me(g, w) IN
    /\ x.pc = "epi_write" /\ Met(EpiBar(g), x)
    /\ smem' = IF g = 1 THEN [smem EXCEPT !.v[w] = SumOf(x.acc)]
                ELSE [smem EXCEPT !.k[w] = SumOf(x.acc)]
    /\ At(g, w, EpiBar(g), "epi_add")
    /\ UNCHANGED <<launch, inflight, tc, out>>

EpilogueAdd(g, w) ==
    LET x == me(g, w) IN
    /\ x.pc = "epi_add" /\ Met(EpiBar(g), x)
    /\ inflight' = IF w = Leader
                   THEN inflight \cup {Copy(IF g = 1 THEN "dV" ELSE "dK", 0, 0)} ELSE inflight
    /\ To(g, w, [x EXCEPT !.pc = "done"])
    /\ UNCHANGED <<launch, bar, smem, tc, out>>

-----------------------------------------------------------------------------
(* Warp 1: dQaccum_store.                                                  *)

St(new) == warp' = [warp EXCEPT !.store = new]
dQOut == {c \in inflight : c.k = "dQ"}

\* cp_async_bulk_wait_group(0, read), then the tile is offered.
StoreEmpty ==
    LET x == warp.store IN
    /\ x.pc = "empty" /\ dQOut = {}
    /\ bar' = ArriveAt(bar, {Named("dq_empty")})
    /\ St([x EXCEPT !.pc = "full"])
    /\ UNCHANGED <<launch, smem, inflight, tc, out>>

StoreFull ==
    LET x == warp.store IN
    /\ x.pc = "full"
    /\ bar' = ArriveAt(bar, {Named("dq_full")})
    /\ St([x EXCEPT !.pc = "add", !.par = bar[Named("dq_full")].par])
    /\ UNCHANGED <<launch, smem, inflight, tc, out>>

StoreAdd ==
    LET x == warp.store IN
    /\ x.pc = "add" /\ Met("dq_full", x)
    /\ inflight' = inflight \cup {Copy("dQ", 0, Blk(x.j))}
    /\ St([x EXCEPT !.pc = IF x.j + 1 < N THEN "empty" ELSE "drain", !.j = @ + 1])
    /\ UNCHANGED <<launch, bar, smem, tc, out>>

StoreDrain ==
    /\ warp.store.pc = "drain" /\ dQOut = {}
    /\ St([warp.store EXCEPT !.pc = "done"])
    /\ UNCHANGED <<launch, bar, smem, inflight, tc, out>>

dQaccumStore == StoreEmpty \/ StoreFull \/ StoreAdd \/ StoreDrain

-----------------------------------------------------------------------------
(* Copies.                                                                 *)

Loads == {"q", "lse", "do"}
First(c) == c.b = Blk(0)

\* Without the wait dPsum could be read before the preprocess kernel wrote it.
LandLoad(c) ==
    /\ c \in inflight /\ c.k \in Loads /\ inflight' = inflight \ {c}
    /\ smem' = CASE c.k = "q" -> [smem EXCEPT !.q[c.s] = c.b, !.lse[c.s] = IF First(c) THEN @ ELSE c.b,
                                              !.k = IF First(c) THEN Rows(Is("K")) ELSE @]
                 [] c.k = "lse" -> [smem EXCEPT !.lse[c.s] = c.b]
                 [] c.k = "do" -> [smem EXCEPT !.do[c.s] = c.b,
                                               !.psum[c.s] = IF warp.pre = "done" THEN c.b ELSE Garbage,
                                               !.v = IF First(c) THEN Rows(Is("V")) ELSE @]
    /\ bar' = ReceivedAt(bar, <<IF c.k = "do" THEN "do_full" ELSE "q_full", c.s>>)
    /\ UNCHANGED <<launch, tc, warp, out>>

\* cp.reduce.async.bulk: right if the tile holds the whole sum, once, and the
\* accumulator has been cleared.
Whole(tile) == tile = Rows(SumOf(Listed))

LandAdd(c) ==
    LET piece == IF c.k = "dQ" THEN <<"dQ", c.b>> ELSE <<c.k, 0>>
        right == CASE c.k = "dQ" -> warp.pre = "done" /\ \A w \in Warps : smem.dq[w] = c.b
                   [] c.k = "dK" -> Whole(smem.k)
                   [] c.k = "dV" -> Whole(smem.v)
    IN  /\ c \in inflight /\ c.k \notin Loads /\ inflight' = inflight \ {c}
        /\ out' = [out EXCEPT ![piece] =
                     IF @ = "unwritten" /\ right THEN "exact" ELSE "wrong"]
        /\ UNCHANGED <<launch, bar, smem, tc, warp>>

-----------------------------------------------------------------------------

Exited ==
    /\ warp.load.pc = "done" /\ warp.store.pc = "done"
    /\ AllAt(1, "done") /\ AllAt(2, "done") /\ inflight = {} /\ warp.pre = "done"

Wg1(w) == ReuseP(w) \/ WaitQ(w) \/ ComputeP(w) \/ WriteP(w) \/ WaitdO(w) \/ EnddV(w)
Wg2(w) ==
    \/ WaitQdO(w) \/ KeepV(w) \/ WaitP(w) \/ ReadP(w) \/ WritedS(w)
    \/ WaitdQEmpty(w) \/ WritedQ(w) \/ EnddK(w)

Next ==
    \/ PreprocessEnds \/ Load \/ dQaccumStore
    \/ \E w \in Warps : Wg1(w) \/ Wg2(w)
    \/ \E g \in Group, w \in Warps : EpilogueStart(g, w) \/ EpilogueWrite(g, w) \/ EpilogueAdd(g, w)
    \/ \E ws \in Issuers("S") : Issue(1, ws, "s", <<"S">>)
    \/ \E ws \in Issuers("dV") : Issue(1, ws, "dv", <<"dV">>)
    \/ \E ws \in Issuers("dP") : Issue(2, ws, "dp", <<"dP">>)
    \/ \E ws \in Issuers("dQ") : Issue(2, ws, "dsk", <<"dQ", "dK">>)
    \/ \E g \in Group, do \in Products : \E ws \in Issuers(do) : ProductEnds(g, ws, do)
    \/ \E c \in inflight : LandLoad(c) \/ LandAdd(c)

-----------------------------------------------------------------------------
(* Properties                                                              *)

\* The code alone orders the warps' stores of dS before the dQ product of each.
dSOrdered == "dQ" \in launch.lockstep \/ Count = 1
\* The code alone keeps V until warpgroup 2 has it: the P of a second block does.
VOrdered == N # 1

\* The pieces of the output that are right on every machine and schedule.
Promised ==
    {i \in DOMAIN out : CASE i[1] = "dQ" -> VOrdered /\ dSOrdered
                          [] i[1] = "dK" -> VOrdered
                          [] i[1] = "dV" -> TRUE}

(* What a product reads from shared memory, and what a warp has still to     *)
(* take into registers, stays: stages of Q and dO until both warpgroups have *)
(* given them back, K although dK will be written over it, dS although the   *)
(* next one goes to the same tile.  Two things the code does not order, and   *)
(* the property says how far they may go wrong: on a list of one block dV    *)
(* may already replace V; and unless a WGMMA waits for its warpgroup, the    *)
(* rows of dS of another warp may be one block behind.                       *)
OperandsHeld ==
    /\ \A g \in Group, w \in Warps : \A n \in DOMAIN tc[g][w] :
         LET op == tc[g][w][n] IN
         CASE op.do \in {"S", "dK"} -> smem.q[S(op.j)] = Blk(op.j)
           [] op.do \in {"dP", "dV"} -> smem.do[S(op.j)] = Blk(op.j)
           [] op.do = "dQ" ->
                /\ Intact(smem.k, "K")
                /\ \A v \in Warps : me(2, v).kept =>
                     \/ smem.ds[v] = Blk(op.j)
                     \/ ~dSOrdered /\ v # w
                        /\ smem.ds[v] = IF op.j = 0 THEN Garbage ELSE Blk(op.j - 1)
    /\ \A w \in Warps :
         /\ me(1, w).pc = "s_wait" => smem.lse[S(me(1, w).j)] = Blk(me(1, w).j)
         /\ me(2, w).pc = "v" =>
              \/ Intact(smem.v, "V")
              \/ ~VOrdered /\ \A v \in Warps : smem.v[v] \in {Is("V"), SumOf(Listed)}
         /\ (me(2, w).pc = "p" /\ Met("p_ready", me(2, w))) => smem.p[w] = Blk(me(2, w).j)
===============================================================================
