----------------------------- MODULE MbarPipeline -----------------------------
(***************************************************************************)
(* The mbarrier pipelines of csrc/utils/pipeline.py, which every kernel of *)
(* this repository uses to pass tiles between warps.  A stage has two      *)
(* mbarriers: producers arrive on "full", consumers on "empty".  A side    *)
(* remembers only a phase index, from which it derives the stage and ONE   *)
(* parity bit, and an mbarrier wait compares parities only, so a side that *)
(* were a whole two phases late or early would pass by mistake.            *)
(*                                                                         *)
(* Commits and releases may happen long after the acquire or the wait and  *)
(* in any order: TMA commits when the bytes land, tcgen05.commit releases  *)
(* when the tensor core is done, and the kernels release with a clone of   *)
(* an older state.                                                         *)
(***************************************************************************)
EXTENDS Integers, FiniteSets

CONSTANTS Producers, Consumers, Stages, Items

ASSUME StagesAssumption == Stages \in Nat \ {0}
ASSUME ItemsAssumption == Items \in Nat
ASSUME SidesAssumption ==
    /\ IsFiniteSet(Producers) /\ Producers # {}
    /\ IsFiniteSet(Consumers) /\ Consumers # {}

VARIABLES full, empty,      \* [Stage -> mbarrier]
          pstate, cstate,   \* phase index of each producer and consumer
          acquired, filling, waited, reading \* history, as in PipelineContract

vars == <<full, empty, pstate, cstate, acquired, filling, waited, reading>>

Stage == 0 .. Stages - 1

-----------------------------------------------------------------------------
(* The mbarrier: "done" counts the completed phases, "count" the arrivals   *)
(* of the current one.  A wait sees the parity of "done" and nothing else.  *)

InitBarrier == [done |-> 0, count |-> 0]

Arrive(bar, expected) ==
    IF bar.count + 1 = expected
    THEN [done |-> bar.done + 1, count |-> 0]
    ELSE [bar EXCEPT !.count = @ + 1]

\* mbarrier.try_wait.parity: the phase of parity "phase" has completed.
Passes(bar, phase) == bar.done % 2 # phase

\* A bug for the runs to find: one arrival expected, as if one consumer released.
ArrivalsOfOne == 1

\* The arrival counts given to create() when the pipeline is made.
ProducerArrivals == Cardinality(Producers)
ConsumerArrivals == Cardinality(Consumers)

-----------------------------------------------------------------------------
(* PipelineStateSimple: with one stage the phase index is the parity bit.   *)

IndexOf(phaseIndex) == IF Stages = 1 THEN 0 ELSE phaseIndex % Stages

PhaseOf(phaseIndex) ==
    IF Stages = 1 THEN phaseIndex ELSE (phaseIndex \div Stages) % 2

Advance(phaseIndex) ==
    IF Stages = 1 THEN 1 - phaseIndex ELSE phaseIndex + 1

\* A bug for the runs to find: producers start on the consumers' phase.
StartUnflipped == 0

\* make_pipeline_state: producers start on the flipped phase.
ProducerStart == Stages
ConsumerStart == 0

Init ==
    /\ full = [s \in Stage |-> InitBarrier]
    /\ empty = [s \in Stage |-> InitBarrier]
    /\ pstate = [p \in Producers |-> ProducerStart]
    /\ cstate = [c \in Consumers |-> ConsumerStart]
    /\ acquired = [p \in Producers |-> 0]
    /\ filling = [p \in Producers |-> {}]
    /\ waited = [c \in Consumers |-> 0]
    /\ reading = [c \in Consumers |-> {}]

ProducerAcquire(p) ==
    /\ acquired[p] < Items
    /\ Passes(empty[IndexOf(pstate[p])], PhaseOf(pstate[p]))
    /\ filling' = [filling EXCEPT ![p] = @ \cup {IndexOf(pstate[p])}]
    /\ acquired' = [acquired EXCEPT ![p] = @ + 1]
    /\ pstate' = [pstate EXCEPT ![p] = Advance(@)]
    /\ UNCHANGED <<full, empty, cstate, waited, reading>>

ProducerCommit(p, s) ==
    /\ s \in filling[p]
    /\ full' = [full EXCEPT ![s] = Arrive(@, ProducerArrivals)]
    /\ filling' = [filling EXCEPT ![p] = @ \ {s}]
    /\ UNCHANGED <<empty, pstate, cstate, acquired, waited, reading>>

ConsumerWait(c) ==
    /\ waited[c] < Items
    /\ Passes(full[IndexOf(cstate[c])], PhaseOf(cstate[c]))
    /\ reading' = [reading EXCEPT ![c] = @ \cup {IndexOf(cstate[c])}]
    /\ waited' = [waited EXCEPT ![c] = @ + 1]
    /\ cstate' = [cstate EXCEPT ![c] = Advance(@)]
    /\ UNCHANGED <<full, empty, pstate, acquired, filling>>

ConsumerRelease(c, s) ==
    /\ s \in reading[c]
    /\ empty' = [empty EXCEPT ![s] = Arrive(@, ConsumerArrivals)]
    /\ reading' = [reading EXCEPT ![c] = @ \ {s}]
    /\ UNCHANGED <<full, pstate, cstate, acquired, filling, waited>>

\* Every item went through; the kernel's loop has ended on both sides.
Finished ==
    /\ \A p \in Producers : acquired[p] = Items /\ filling[p] = {}
    /\ \A c \in Consumers : waited[c] = Items /\ reading[c] = {}

Terminating == Finished /\ UNCHANGED vars

ProducerStep(p) == ProducerAcquire(p) \/ \E s \in Stage : ProducerCommit(p, s)
ConsumerStep(c) == ConsumerWait(c) \/ \E s \in Stage : ConsumerRelease(c, s)

Next ==
    \/ \E p \in Producers : ProducerStep(p)
    \/ \E c \in Consumers : ConsumerStep(c)
    \/ Terminating

Spec == Init /\ [][Next]_vars

\* Each warp is scheduled by the hardware, so an enabled one runs eventually.
FairSpec ==
    /\ Spec
    /\ \A p \in Producers : WF_vars(ProducerStep(p))
    /\ \A c \in Consumers : WF_vars(ConsumerStep(c))

-----------------------------------------------------------------------------
(* Properties                                                              *)

\* Rounds(k, s): how many of the items 0 .. k-1 went to stage s.
Rounds(k, s) == (k \div Stages) + (IF s < k % Stages THEN 1 ELSE 0)

\* Arrivals of one thread on the barrier of stage s, over the whole run.
Commits(p, s) == Rounds(acquired[p], s) - (IF s \in filling[p] THEN 1 ELSE 0)
Releases(c, s) == Rounds(waited[c], s) - (IF s \in reading[c] THEN 1 ELSE 0)

\* A well-typed state: a phase completes with its last arrival, so a barrier's
\* count never reaches the number of arrivals it expects.
TypeOK ==
    /\ full \in [Stage -> [done : Nat, count : 0 .. ProducerArrivals - 1]]
    /\ empty \in [Stage -> [done : Nat, count : 0 .. ConsumerArrivals - 1]]
    /\ pstate \in [Producers -> Nat] /\ cstate \in [Consumers -> Nat]
    /\ acquired \in [Producers -> 0 .. Items]
    /\ waited \in [Consumers -> 0 .. Items]
    /\ filling \in [Producers -> SUBSET Stage]
    /\ reading \in [Consumers -> SUBSET Stage]

(* Whoever reads a stage reads the item it waited for: every producer has    *)
(* filled the stage for exactly that round and none fills it again.  This is *)
(* what one parity bit has to guarantee and what a side that is two phases   *)
(* off would break (producer_acquire, consumer_wait).                        *)
ReadsItsItem ==
    \A c \in Consumers : \A s \in reading[c] : \A p \in Producers :
        /\ s \notin filling[p]
        /\ Rounds(acquired[p], s) = Rounds(waited[c], s)

(* The state a phase index stands for is the number of items passed, the two *)
(* barriers of a stage are never more than one phase apart, and a thread is  *)
(* never more than one arrival ahead of its barrier: the facts under which   *)
(* comparing parities is the same as comparing phases.                       *)
StatesTrackItems ==
    /\ \A p \in Producers :
          pstate[p] = IF Stages = 1 THEN (acquired[p] + 1) % 2
                                    ELSE acquired[p] + Stages
    /\ \A c \in Consumers :
          cstate[c] = IF Stages = 1 THEN waited[c] % 2 ELSE waited[c]

ProducersInStep ==
    \A s \in Stage, p \in Producers :
        /\ Commits(p, s) \in {full[s].done, full[s].done + 1}
        /\ Commits(p, s) = full[s].done + 1 => empty[s].done = full[s].done
        /\ s \in filling[p] => /\ Commits(p, s) = full[s].done
                               /\ empty[s].done = full[s].done

ConsumersInStep ==
    \A s \in Stage, c \in Consumers :
        /\ Releases(c, s) \in {empty[s].done, empty[s].done + 1}
        /\ Releases(c, s) = empty[s].done + 1 => full[s].done = empty[s].done + 1
        /\ s \in reading[c] => /\ Releases(c, s) = empty[s].done
                               /\ full[s].done = empty[s].done + 1

CountsArrivals ==
    \A s \in Stage :
        /\ full[s].done \in {empty[s].done, empty[s].done + 1}
        /\ full[s].count =
              Cardinality({p \in Producers : Commits(p, s) = full[s].done + 1})
        /\ empty[s].count =
              Cardinality({c \in Consumers : Releases(c, s) = empty[s].done + 1})

(* Pipeline states, barriers and items move in step (the four parts above):  *)
(* the inductive invariant behind ReadsItsItem, and what keeps the one parity *)
(* bit of PipelineStateSimple unambiguous.                                   *)
PhasesInStep ==
    StatesTrackItems /\ ProducersInStep /\ ConsumersInStep /\ CountsArrivals

\* The abstract promise: the history variables behave as PipelineContract says.
Contract == INSTANCE PipelineContract
ImplementsContract == Contract!Spec

(* Every item gets through: with fair warps no wait blocks for ever on a     *)
(* barrier whose phase has gone by (a lost wake-up) or never completes.      *)
EveryItemPasses == <>Finished
===============================================================================
