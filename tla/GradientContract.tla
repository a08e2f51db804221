--------------------------- MODULE GradientContract ---------------------------
(***************************************************************************)
(* What one CTA of a backward kernel promises, whatever the order in which *)
(* its warps work.  It has one K/V block and a list of the Q blocks that   *)
(* attend it.  Each of these pairs is worth one contribution to the dQ of  *)
(* the Q block, and one to dK and to dV of the K/V block; dQ goes out in   *)
(* column chunks, dK and dV by the columns each warp holds.  A Q block     *)
(* that is not in the list contributes to nothing.                         *)
(***************************************************************************)
EXTENDS Integers, Sequences, Functions

CONSTANT Launches
VARIABLES launch, dQ, dK, dV   \* contributions of each Q block so far

SparseBlockSize == 64
Block == 0 .. (launch.seqlen_q + SparseBlockSize - 1) \div SparseBlockSize - 1
Compute == launch.compute
Chunk == 0 .. launch.chunks - 1
Listed == Range(launch.edges)

Nothing == [b \in Block |-> 0]
Once == [b \in Block |-> IF b \in Listed THEN 1 ELSE 0]

Init ==
    /\ launch \in Launches
    /\ dQ = [b \in Block |-> [c \in Chunk |-> 0]]
    /\ dK = [w \in Compute |-> Nothing]
    /\ dV = [w \in Compute |-> Nothing]

\* One chunk of the dQ of some listed blocks, none of which had it.
AddQ(c) ==
    /\ DOMAIN dQ' = Block
    /\ \A b \in Block :
         dQ'[b] = dQ[b] \/ (b \in Listed /\ dQ[b][c] = 0 /\ dQ'[b] = [dQ[b] EXCEPT ![c] = 1])
    /\ UNCHANGED <<launch, dK, dV>>

AddK(w) ==
    /\ dK[w] = Nothing /\ dK' = [dK EXCEPT ![w] = Once]
    /\ UNCHANGED <<launch, dQ, dV>>

AddV(w) ==
    /\ dV[w] = Nothing /\ dV' = [dV EXCEPT ![w] = Once]
    /\ UNCHANGED <<launch, dQ, dK>>

Next ==
    \/ \E c \in Chunk : AddQ(c)
    \/ \E w \in Compute : AddK(w) \/ AddV(w)

Spec == Init /\ [][Next]_<<launch, dQ, dK, dV>>

Complete ==
    /\ \A b \in Block : dQ[b] = [c \in Chunk |-> Once[b]]
    /\ \A w \in Compute : dK[w] = Once /\ dV[w] = Once
===============================================================================
