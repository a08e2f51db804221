----------------------------- MODULE TileSchedule -----------------------------
(***************************************************************************)
(* How the output tiles of a launch reach the warps that compute them:     *)
(* SingleTileScheduler and BlockSparsePersistentTileScheduler of           *)
(* csrc/utils, the latter with a static stride or with cluster launch      *)
(* control (CLC), where the scheduler warp of a running CTA asks the       *)
(* hardware to cancel a CTA that has not started and takes over its tile.  *)
(* Every warp role of a CTA keeps its own scheduler and must go through    *)
(* the same tiles; under CLC the answers reach the roles through a         *)
(* one-stage pipeline in shared memory.                                    *)
(***************************************************************************)
EXTENDS SplitKv, Sequences, FiniteSets

CONSTANTS
    Roles,     \* the warp roles of a CTA, the CLC scheduler warp apart
    Launches   \* [mode, blocks, heads, batches, splits, sms, count]

ASSUME RolesAssumption == IsFiniteSet(Roles) /\ Roles # {}
ASSUME LaunchesAssumption ==
    \A l \in Launches :
        /\ l.mode \in {"single", "static", "clc"}
        /\ {l.blocks, l.heads, l.batches, l.splits, l.sms} \subseteq Nat \ {0}
        /\ l.count \in Nat   \* sparse blocks of every row

VARIABLES
    launch,  \* never changed
    cta,     \* [Grid -> "pending", "running", "cancelled" or "exited"]
    role,    \* [Grid -> [Roles -> where the role is in its tile loop]]
    sched,   \* [Grid -> the CLC scheduler warp]
    clc,     \* [Grid -> the CLC pipeline: queries, answers, the last answer]
    took     \* history: [Grid -> [Roles -> the tiles it worked on, in order]]

vars == <<launch, cta, role, sched, clc, took>>

-----------------------------------------------------------------------------
(* Grids and coordinates.                                                  *)

BaseBlocks == launch.blocks * launch.heads * launch.batches
TotalBlocks == BaseBlocks * launch.splits

Grid3(x, y, z) == {<<i, j, k>> : i \in 0 .. x - 1, j \in 0 .. y - 1, k \in 0 .. z - 1}

\* get_grid_shape
Grid ==
    CASE launch.mode = "single" ->
            Grid3(launch.blocks, launch.heads * launch.splits, launch.batches)
      [] launch.mode = "static" -> Grid3(Smaller(launch.sms, TotalBlocks), 1, 1)
      [] launch.mode = "clc" /\ launch.splits > 1 ->
            Grid3(BaseBlocks, launch.splits, 1)
      [] OTHER -> Grid3(launch.blocks, launch.heads, launch.batches)
GridX == Cardinality({c[1] : c \in Grid})

TileOf(block, head, batch, split) ==
    [block |-> block, head |-> head, batch |-> batch, split |-> split]
Tile == {TileOf(b, h, n, s) : b \in 0 .. launch.blocks - 1, h \in 0 .. launch.heads - 1,
                              n \in 0 .. launch.batches - 1, s \in 0 .. launch.splits - 1}

\* The two divmods that take a linear index apart.
Unflatten(base, split) ==
    LET hn == base \div launch.blocks
    IN  TileOf(base % launch.blocks, hn % launch.heads, hn \div launch.heads, split)

\* Persistent, static: the tile of linear index i.
StaticTile(i) == Unflatten(i \div launch.splits, i % launch.splits)

\* Single and CLC: the tile of grid coordinate c (_clc_work_to_coords).
GridTile(c) ==
    IF launch.mode = "single"
    THEN TileOf(c[1], c[2] \div launch.splits, c[3], c[2] % launch.splits)
    ELSE IF launch.splits > 1 THEN Unflatten(c[1], c[2])
    ELSE TileOf(c[1], c[2], c[3], 0)

-----------------------------------------------------------------------------

NoTile == <<>>   \* is_valid_tile is false

Init ==
    /\ launch \in Launches
    /\ cta = [c \in Grid |-> "pending"]
    /\ role = [c \in Grid |-> [r \in Roles |->
                [pc |-> "work", at |-> c, next |-> c[1], seen |-> 0]]]
    /\ sched = [c \in Grid |-> [pc |-> "acquire", seen |-> 0]]
    /\ clc = [c \in Grid |-> [queries |-> 0, answers |-> 0, at |-> NoTile]]
    /\ took = [c \in Grid |-> [r \in Roles |-> <<>>]]

\* The hardware starts a CTA when an SM is free, in no particular order.
Start(c) ==
    /\ cta[c] = "pending"
    /\ Cardinality({d \in Grid : cta[d] = "running"}) < launch.sms
    /\ cta' = [cta EXCEPT ![c] = "running"]
    /\ UNCHANGED <<launch, role, sched, clc, took>>

\* get_current_work, then the body of the role's tile loop.
Work(c, r) ==
    LET me == role[c][r]
        tile == IF launch.mode = "static" THEN StaticTile(me.next) ELSE GridTile(me.at)
    IN  /\ cta[c] = "running" /\ me.pc = "work"
        /\ took' = [took EXCEPT ![c][r] = Append(@, tile)]
        /\ role' = [role EXCEPT ![c][r].pc = "next"]
        /\ UNCHANGED <<launch, cta, sched, clc>>

\* A bug for the runs to find: the stride is one tile, not the grid.
AdvanceByOne(c, r) ==
    LET next == role[c][r].next + 1 IN
    /\ cta[c] = "running" /\ role[c][r].pc = "next" /\ launch.mode # "clc"
    /\ role' = [role EXCEPT ![c][r].next = next,
                  ![c][r].pc = IF launch.mode = "static" /\ next < TotalBlocks
                               THEN "work" ELSE "out"]
    /\ UNCHANGED <<launch, cta, sched, clc, took>>

\* advance_to_next_work of the schedulers that need no answer.
Advance(c, r) ==
    LET me == role[c][r]
        next == me.next + GridX
        more == launch.mode = "static" /\ next < TotalBlocks
    IN  /\ cta[c] = "running" /\ me.pc = "next" /\ launch.mode # "clc"
        /\ role' = [role EXCEPT ![c][r] = [@ EXCEPT !.next = next,
                                             !.pc = IF more THEN "work" ELSE "out"]]
        /\ UNCHANGED <<launch, cta, sched, clc, took>>

\* consumer_advance under CLC: wait for the answer, read it, release it.
Consume(c, r) ==
    LET me == role[c][r] IN
    /\ cta[c] = "running" /\ me.pc = "next" /\ launch.mode = "clc"
    /\ clc[c].answers > me.seen
    /\ role' = [role EXCEPT ![c][r] =
                  [@ EXCEPT !.at = clc[c].at, !.seen = me.seen + 1,
                            !.pc = IF clc[c].at = NoTile THEN "out" ELSE "work"]]
    /\ UNCHANGED <<launch, cta, sched, clc, took>>

\* A bug for the runs to find: the producer starts on the consumers' phase.
ReleasedUnflipped(c) == clc[c].queries > 0 /\ sched[c].seen = clc[c].queries

\* Every consumer, the scheduler warp too, has released the last answer.
Released(c) ==
    /\ sched[c].seen = clc[c].queries
    /\ \A r \in Roles : role[c][r].seen = clc[c].queries

\* A bug for the runs to find: the pipeline is not acquired before the query.
QueryEarly(c) ==
    /\ launch.mode = "clc" /\ cta[c] = "running" /\ sched[c].pc = "acquire"
    /\ clc' = [clc EXCEPT ![c].queries = @ + 1]
    /\ sched' = [sched EXCEPT ![c].pc = "next"]
    /\ UNCHANGED <<launch, cta, role, took>>

\* clc_scheduler_warp: producer_acquire, then the asynchronous query.
Query(c) ==
    /\ launch.mode = "clc" /\ cta[c] = "running" /\ sched[c].pc = "acquire"
    /\ Released(c)
    /\ clc' = [clc EXCEPT ![c].queries = @ + 1]
    /\ sched' = [sched EXCEPT ![c].pc = "next"]
    /\ UNCHANGED <<launch, cta, role, took>>

\* The hardware cancels a CTA that has not started, if there is one.
Answer(c) ==
    /\ clc[c].answers < clc[c].queries
    /\ \/ \E d \in Grid :
            /\ cta[d] = "pending"
            /\ cta' = [cta EXCEPT ![d] = "cancelled"]
            /\ clc' = [clc EXCEPT ![c].answers = @ + 1, ![c].at = d]
       \/ /\ \A d \in Grid : cta[d] # "pending"
          /\ clc' = [clc EXCEPT ![c].answers = @ + 1, ![c].at = NoTile]
          /\ UNCHANGED cta
    /\ UNCHANGED <<launch, role, sched, took>>

\* The scheduler warp consumes its own answers.
SchedConsume(c) ==
    /\ cta[c] = "running" /\ sched[c].pc = "next"
    /\ clc[c].answers > sched[c].seen
    /\ sched' = [sched EXCEPT ![c] =
                   [seen |-> @.seen + 1,
                    pc |-> IF clc[c].at = NoTile THEN "tail" ELSE "acquire"]]
    /\ UNCHANGED <<launch, cta, role, clc, took>>

\* producer_tail
SchedTail(c) ==
    /\ cta[c] = "running" /\ sched[c].pc = "tail"
    /\ Released(c)
    /\ sched' = [sched EXCEPT ![c].pc = "out"]
    /\ UNCHANGED <<launch, cta, role, clc, took>>

Exit(c) ==
    /\ cta[c] = "running"
    /\ \A r \in Roles : role[c][r].pc = "out"
    /\ launch.mode = "clc" => sched[c].pc = "out"
    /\ cta' = [cta EXCEPT ![c] = "exited"]
    /\ UNCHANGED <<launch, role, sched, clc, took>>

Finished == \A c \in Grid : cta[c] \in {"exited", "cancelled"}
Terminating == Finished /\ UNCHANGED vars

Role(c, r) == Work(c, r) \/ Advance(c, r) \/ Consume(c, r)
Scheduler(c) == Query(c) \/ SchedConsume(c) \/ SchedTail(c)

Next ==
    \/ \E c \in Grid : Start(c) \/ Answer(c) \/ Scheduler(c) \/ Exit(c)
    \/ \E c \in Grid, r \in Roles : Role(c, r)
    \/ Terminating

Spec == Init /\ [][Next]_vars

\* Warps of a resident CTA are scheduled, the hardware starts what it can and
\* answers queries.  Grid depends on launch, which never changes.
FairSpec ==
    /\ Spec
    /\ WF_vars(\E c \in Grid : Start(c) \/ Exit(c))
    /\ WF_vars(\E c \in Grid : Answer(c) \/ Scheduler(c))
    /\ WF_vars(\E c \in Grid, r \in Roles : Role(c, r))

-----------------------------------------------------------------------------
(* Properties                                                              *)

(* All roles of a CTA go through the same tiles in the same order, at their  *)
(* own pace: what lets the load, MMA, softmax, correction and epilogue warps *)
(* of a kernel agree without ever naming a tile to each other.  Under CLC an *)
(* answer overwritten before the last role has read it would break it.       *)
RolesAgree ==
    \A c \in Grid, r, q \in Roles :
        Len(took[c][r]) <= Len(took[c][q]) =>
            took[c][r] = SubSeq(took[c][q], 1, Len(took[c][r]))

Took(c, r) == {took[c][r][i] : i \in DOMAIN took[c][r]}

(* No tile is computed twice: two CTAs that both wrote it would race on the  *)
(* output, and a cancelled CTA must not also run.                            *)
NoTileTwice ==
    \A r \in Roles :
        /\ \A c, d \in Grid : c # d => Took(c, r) \cap Took(d, r) = {}
        /\ \A c \in Grid : Cardinality(Took(c, r)) = Len(took[c][r])

(* When the grid has drained, the splits of every row that were worked on    *)
(* cover each of its sparse blocks exactly once: no block is lost between    *)
(* two splits and none is attended to twice.                                 *)
KvCoveredOnce ==
    Finished =>
        \A r \in Roles, t \in Tile, b \in 0 .. launch.count - 1 :
            Cardinality({u \in UNION {Took(c, r) : c \in Grid} :
                /\ u = [t EXCEPT !.split = u.split]
                /\ b \in BlocksOf(launch.count, launch.splits, u.split)}) = 1

\* The grid drains: no role waits for ever for an answer or for a release.
EveryCtaFinishes == <>Finished
===============================================================================
