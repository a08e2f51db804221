---------------------------- MODULE BackwardKernels ----------------------------
(***************************************************************************)
(* The backward kernels of blocks of 64 on Hopper and of blocks of 128 on  *)
(* Blackwell, one CTA at a time: a launch names its kernel.  Both promise  *)
(* what a forward kernel promises of O, here of dQ, dK and dV; the Hopper  *)
(* kernel not of every piece on every launch (Sm90Bwd!Promised).           *)
(***************************************************************************)
EXTENDS Integers, Sequences, FiniteSets

CONSTANT Launches

VARIABLES launch, bar, smem, inflight, tmem, tc, warp, out

vars == <<launch, bar, smem, inflight, tmem, tc, warp, out>>

Sm90 == INSTANCE Sm90Bwd
Blk128 == INSTANCE Sm100Blk128Bwd

Is(kernel) == launch.kernel = kernel

Init ==
    /\ launch \in Launches
    /\ \/ Is("sm90") /\ Sm90!Init /\ tmem = "none"
       \/ Is("blk128") /\ Blk128!Init

Exited == IF Is("sm90") THEN Sm90!Exited ELSE Blk128!Exited

Next ==
    \/ Is("sm90") /\ Sm90!Next /\ UNCHANGED tmem
    \/ Is("blk128") /\ Blk128!Next
    \/ Exited /\ UNCHANGED vars

\* Weak fairness of Next.  Every step that changes vars is one of Next, so TLC need
\* not look for the action it belongs to, as it would for WF_vars(Next).
Fairness == []<>(~ENABLED <<Next>>_vars) \/ []<><<TRUE>>_vars

FairSpec == Init /\ [][Next]_vars /\ Fairness

\* What a product reads is not overwritten before it has read it: Q and dO in
\* the stages the load warp reuses, LSE and dPsum beside them, P and dS in the
\* memory or the columns they share with S, dP and dQ.  Each kernel has its own
\* statement, about its own buffers.
OperandsHeld == IF Is("sm90") THEN Sm90!OperandsHeld ELSE Blk128!OperandsHeld

Promised == IF Is("sm90") THEN Sm90!Promised ELSE DOMAIN out

\* Every promised piece of dQ, dK and dV is written or added once, with the terms
\* of all the listed Q blocks and of no other.  All pieces are promised, except by
\* the Hopper kernel dQ and dK for a list of one block, and dQ where a WGMMA does
\* not wait for the other warps of its warpgroup.
Contract == INSTANCE OutputContract WITH out <- [i \in Promised |-> out[i]]
ImplementsContract == Contract!Spec

\* No warp waits for ever at a barrier: every role leaves its loop, also for a
\* list without blocks, and by then every piece of dQ, dK and dV is in memory,
\* the promised ones exact.
EveryGradientWritten ==
    <>(Exited /\ Contract!Complete /\ \A i \in DOMAIN out : out[i] # "unwritten")
===============================================================================
