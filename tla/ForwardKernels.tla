---------------------------- MODULE ForwardKernels ----------------------------
(***************************************************************************)
(* The forward kernels the dispatcher of bsa_attn_interface.py can launch, *)
(* one at a time: a launch names its kernel, and from then on the GPU runs *)
(* that one.  All of them keep the same promise, OutputContract.           *)
(***************************************************************************)
EXTENDS Integers, Sequences, FiniteSets

CONSTANTS
    CtaWarps,   \* the warps of a CTA of the SM90 and SM120 kernels
    Launches

\* Scores are whole (powers of two, or half powers): one list for a CTA of one
\* tile, one per tile for a CTA of several.
ASSUME LaunchesAssumption ==
    \A l \in Launches :
        /\ l.kernel \in {"sm90", "sm120"} => l.scores \in Seq(Int)
        /\ l.kernel \in {"blk128", "fused_pv"} => l.tiles \in Seq(Seq(Int))

VARIABLES launch, bar, smem, inflight, tmem, tc, warp, out

vars == <<launch, bar, smem, inflight, tmem, tc, warp, out>>

Sm90 == INSTANCE Sm90Fwd WITH Warps <- CtaWarps
Sm120 == INSTANCE Sm120Fwd WITH Warps <- CtaWarps
Blk128 == INSTANCE Sm100Blk128Fwd
FusedPv == INSTANCE Sm100Blk128FusedPv

Is(kernel) == launch.kernel = kernel

Init ==
    /\ launch \in Launches
    /\ \/ Is("sm90") /\ Sm90!Init /\ tmem = "none"
       \/ Is("sm120") /\ Sm120!Init /\ tmem = "none" /\ tc = "none"
       \/ Is("blk128") /\ Blk128!Init
       \/ Is("fused_pv") /\ FusedPv!Init

Exited ==
    CASE Is("sm90") -> Sm90!Exited
      [] Is("sm120") -> Sm120!Exited
      [] Is("blk128") -> Blk128!Exited
      [] Is("fused_pv") -> FusedPv!Exited

Next ==
    \/ Is("sm90") /\ Sm90!Next /\ UNCHANGED tmem
    \/ Is("sm120") /\ Sm120!Next /\ UNCHANGED <<tmem, tc>>
    \/ Is("blk128") /\ Blk128!Next
    \/ Is("fused_pv") /\ FusedPv!Next
    \/ Exited /\ UNCHANGED vars

FairSpec == Init /\ [][Next]_vars /\ WF_vars(Next)

\* What a product of the tensor core, or a bulk copy, reads is not overwritten
\* before it has read it: K and V in the stages the producer reuses, Q and O
\* where they share memory, P and S where they share columns.  Each kernel has
\* its own statement, about its own buffers.
OperandsHeld ==
    CASE Is("sm90") -> Sm90!OperandsHeld
      [] Is("sm120") -> Sm120!OperandsHeld
      [] Is("blk128") -> Blk128!OperandsHeld
      [] Is("fused_pv") -> FusedPv!OperandsHeld

\* The softmax keeps a stale row maximum while the new one is less than a
\* threshold above it, so P = exp2(S - maximum) may exceed one.  Where P is then
\* converted to FP8 (E4M3, at most 448) it never overflows.
PFitsFp8 ==
    CASE Is("sm120") /\ launch.variant = "sage" -> Sm120!PFitsFp8
      [] Is("fused_pv") -> FusedPv!PFitsFp8
      [] OTHER -> TRUE

\* The kernel writes each piece of O and of LSE once, never changes it again,
\* and it is the attention over exactly the listed blocks that have an unmasked
\* score: no block twice, none stale or skipped, all scaled by one maximum.
Contract == INSTANCE OutputContract
ImplementsContract == Contract!Spec

\* No warp waits for ever at a barrier: every role leaves its loop, also for a
\* tile without blocks, and by then all of O and LSE is written.
EveryOutputWritten == <>(Exited /\ Contract!Complete)
===============================================================================
