--------------------------- MODULE BucketedK2QCsr ---------------------------
(***************************************************************************)
(* csrc/bwd/bucketed_k2q_csr.py: the backward pass needs, for each group   *)
(* of BucketSize q blocks and each kv block, the q blocks that attend to   *)
(* it.  Four kernels on one stream (a kernel starts when the one before it *)
(* has ended) invert q2k_block_index: count the edges, prefix-sum within   *)
(* each group, add the base of the groups before, and scatter the edges    *)
(* with a cursor per (group, kv).  The threads of a kernel run in any      *)
(* order; their atomic_add is external.  One (batch, head) is modelled:    *)
(* they share nothing.                                                     *)
(***************************************************************************)
EXTENDS Integers, FiniteSets

CONSTANTS NumQ,        \* q blocks
          NumKv,       \* kv blocks
          MaxKv,       \* length of a row of q2k_block_index
          BucketSize,  \* bucket_size_blocks
          EdgeThreads, \* threads of a CTA of the edge kernels (256)
          Inputs       \* the launches: [q2k, nums, sparse, variable]

ASSUME SizesAssumption ==
    {NumQ, NumKv, BucketSize, EdgeThreads} \subseteq Nat \ {0} /\ MaxKv \in Nat
ASSUME InputsAssumption ==
    \A in \in Inputs :
        /\ in.q2k \in [0..NumQ-1 -> [0..MaxKv-1 -> Int]]
        /\ in.nums \in [0..NumQ-1 -> Int]
        /\ in.sparse \in 0..MaxKv /\ in.variable \in BOOLEAN

VARIABLES input,     \* the launch under way
          kernel,    \* the kernel running, or "done"
          pending,   \* its threads (or groups) that have yet to act
          counts, localOffsets, groupTotals, offsets, cursors, indices,
          position   \* slot taken by each scatter thread about to write it

vars == <<input, kernel, pending, counts, localOffsets, groupTotals, offsets,
          cursors, indices, position>>

Garbage == -7   \* what torch.empty leaves in memory; no q block has this number

Kvs        == 0..NumKv-1
Groups     == 0..(NumQ + BucketSize - 1) \div BucketSize - 1
EdgeWidth  == IF input.variable THEN MaxKv ELSE input.sparse

\* A bug for the runs to find: the last, partial tile of a row is left out.
NumEdgeTilesFloor == EdgeWidth \div EdgeThreads

NumEdgeTiles      == (EdgeWidth + EdgeThreads - 1) \div EdgeThreads

\* A bug for the runs to find: the buffer is sized by the sparse block count.
MaxEdgesOfSparse == IF NumQ * input.sparse = 0 THEN 1 ELSE NumQ * input.sparse

\* Length of indices: max_edges, at least 1.
MaxEdges         == IF NumQ * EdgeWidth = 0 THEN 1 ELSE NumQ * EdgeWidth

\* A thread of the edge kernels: <<q_edge_tile_idx, tidx>>.
Threads    == (0..NumQ * NumEdgeTiles - 1) \X (0..EdgeThreads-1)
QBlock(t)  == t[1] \div NumEdgeTiles
Slot(t)    == (t[1] - QBlock(t) * NumEdgeTiles) * EdgeThreads + t[2]
Group(t)   == QBlock(t) \div BucketSize
KvBlock(t) == input.q2k[QBlock(t)][Slot(t)]

\* The checks both edge kernels make; the other threads touch no memory.
HasEdge(t) ==
    /\ Slot(t) < EdgeWidth
    /\ Slot(t) < (IF input.variable THEN input.nums[QBlock(t)] ELSE input.sparse)
    /\ KvBlock(t) \in Kvs
EdgeThreadsOf == {t \in Threads : HasEdge(t)}
GroupThreads  == {<<g>> : g \in Groups}

Init ==
    /\ input \in Inputs
    /\ kernel = "count" /\ pending = EdgeThreadsOf
    /\ counts = [g \in Groups |-> [k \in Kvs |-> 0]]
    /\ localOffsets = [g \in Groups |-> [k \in 0..NumKv |-> Garbage]]
    /\ groupTotals = [g \in Groups |-> Garbage]
    /\ offsets = localOffsets /\ cursors = [g \in Groups |-> [k \in Kvs |-> Garbage]]
    /\ indices = [i \in 0..MaxEdges-1 |-> Garbage]
    /\ position = <<>>

(***************************************************************************)
(* The kernels                                                             *)
(***************************************************************************)

CountEdge(t) ==
    /\ kernel = "count" /\ t \in pending /\ pending' = pending \ {t}
    /\ counts' = [counts EXCEPT ![Group(t)][KvBlock(t)] = @ + 1]
    /\ UNCHANGED <<input, kernel, localOffsets, groupTotals, offsets, cursors,
                   indices, position>>

\* f[0] + .. + f[n-1], which one thread adds up in a loop.
SumBelow(f, n) ==
    LET sum[i \in 0..n] == IF i = 0 THEN 0 ELSE sum[i-1] + f[i-1]
    IN  sum[n]

\* One CTA of one thread per group: its exclusive prefix sum over the kv blocks.
RunningSum(g, k) == SumBelow(counts[g], k)
LocalOffsets(g) ==
    /\ kernel = "local" /\ <<g>> \in pending /\ pending' = pending \ {<<g>>}
    /\ localOffsets' = [localOffsets EXCEPT ![g] = [k \in 0..NumKv |-> RunningSum(g, k)]]
    /\ groupTotals' = [groupTotals EXCEPT ![g] = RunningSum(g, NumKv)]
    /\ UNCHANGED <<input, kernel, counts, offsets, cursors, indices, position>>

\* A bug for the runs to find: the last of the groups before g is left out.
GroupBaseShort(g) == IF g = 0 THEN 0 ELSE SumBelow(groupTotals, g-1)

\* Where group g begins: the totals of the groups before it.
GroupBase(g)      == SumBelow(groupTotals, g)
FinalizeOffsets(g) ==
    /\ kernel = "finalize" /\ <<g>> \in pending /\ pending' = pending \ {<<g>>}
    /\ offsets' = [offsets EXCEPT ![g] =
                      [k \in 0..NumKv |-> GroupBase(g) + localOffsets[g][k]]]
    /\ cursors' = [cursors EXCEPT ![g] = [k \in Kvs |-> offsets'[g][k]]]
    /\ UNCHANGED <<input, kernel, counts, localOffsets, groupTotals, indices, position>>

\* atomic_add of the cursor hands the thread its slot ..
TakePosition(t) ==
    /\ kernel = "scatter" /\ t \in pending /\ pending' = pending \ {t}
    /\ position' = [u \in DOMAIN position \cup {t} |->
                       IF u = t THEN cursors[Group(t)][KvBlock(t)] ELSE position[u]]
    /\ cursors' = [cursors EXCEPT ![Group(t)][KvBlock(t)] = @ + 1]
    /\ UNCHANGED <<input, kernel, counts, localOffsets, groupTotals, offsets, indices>>

\* .. which it writes later.
WriteIndex(t) ==
    /\ t \in DOMAIN position
    /\ indices' = [indices EXCEPT ![position[t]] = QBlock(t)]
    /\ position' = [u \in DOMAIN position \ {t} |-> position[u]]
    /\ UNCHANGED <<input, kernel, pending, counts, localOffsets, groupTotals, offsets,
                   cursors>>

\* The stream starts the next kernel when every thread of the last one is done.
Launch(from, to, work) ==
    /\ kernel = from /\ pending = {} /\ position = <<>>
    /\ kernel' = to /\ pending' = work
    /\ UNCHANGED <<input, counts, localOffsets, groupTotals, offsets, cursors, indices,
                   position>>

NextKernel ==
    \/ Launch("count", "local", GroupThreads)
    \/ Launch("local", "finalize", GroupThreads)
    \/ Launch("finalize", "scatter", EdgeThreadsOf)
    \/ Launch("scatter", "done", {})

Terminated == kernel = "done" /\ UNCHANGED vars

Next ==
    \/ \E t \in Threads : CountEdge(t) \/ TakePosition(t) \/ WriteIndex(t)
    \/ \E g \in Groups : LocalOffsets(g) \/ FinalizeOffsets(g)
    \/ NextKernel \/ Terminated

Spec == Init /\ [][Next]_vars

(***************************************************************************)
(* Properties                                                              *)
(***************************************************************************)

\* A well-typed state; every slot a thread is about to write, or will get from
\* its cursor, is inside the buffer the host allocated.
TypeOK ==
    /\ input \in Inputs
    /\ kernel \in {"count", "local", "finalize", "scatter", "done"}
    /\ pending \subseteq Threads \cup GroupThreads
    /\ counts \in [Groups -> [Kvs -> Nat]]
    /\ localOffsets \in [Groups -> [0..NumKv -> Nat \cup {Garbage}]]
    /\ groupTotals \in [Groups -> Nat \cup {Garbage}]
    /\ offsets \in [Groups -> [0..NumKv -> 0..MaxEdges \cup {Garbage}]]
    /\ cursors \in [Groups -> [Kvs -> 0..MaxEdges \cup {Garbage}]]
    /\ indices \in [0..MaxEdges-1 -> 0..NumQ-1 \cup {Garbage}]
    /\ DOMAIN position \subseteq Threads
    /\ \A t \in DOMAIN position : position[t] \in DOMAIN indices

\* No two edges share a slot, in whatever order the threads take and write
\* them: a written slot is never written again.
SlotWrittenOnce ==
    [][\A i \in DOMAIN indices : indices[i] # Garbage => indices'[i] = indices[i]]_vars

\* The edges of the launch: how many entries of row q that count name kv block k.
EdgesFrom(q, k) ==
    LET num == IF input.variable THEN input.nums[q] ELSE input.sparse
    IN  Cardinality({b \in 0..MaxKv-1 : b < num /\ input.q2k[q][b] = k})

\* The result is the inverse of q2k_block_index: the slice of (group, kv) lists
\* each q block of the group once per edge and nothing else, and the slices of
\* the groups and kv blocks follow one another without gap from 0.  This is what
\* the reference of tests/test_bucketed_k2q_csr.py computes, and what the
\* backward kernels read as their work list.
CsrInvertsQ2K ==
    kernel = "done" =>
        /\ offsets[0][0] = 0
        /\ \A g \in Groups \ {0} : offsets[g][0] = offsets[g-1][NumKv]
        /\ \A g \in Groups, k \in Kvs :
             LET slice == {i \in DOMAIN indices : offsets[g][k] <= i /\ i < offsets[g][k+1]}
                 group == {q \in 0..NumQ-1 : q \div BucketSize = g}
             IN  /\ \A i \in slice : indices[i] \in group
                 /\ \A q \in group : Cardinality({i \in slice : indices[i] = q}) = EdgesFrom(q, k)
=============================================================================
