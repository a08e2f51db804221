--------------------------- MODULE PipelineContract ---------------------------
(***************************************************************************)
(* What a circular shared-memory pipeline promises the warps on its two    *)
(* sides, whatever synchronises them: a producer gets a stage only after   *)
(* every consumer gave back what was in it, and a consumer gets a stage    *)
(* only after every producer filled it.  csrc/utils/pipeline.py implements *)
(* this promise with mbarriers and one parity bit (module MbarPipeline).   *)
(***************************************************************************)
EXTENDS Integers

CONSTANTS Producers,  \* threads (or warps) that fill the stages
          Consumers,  \* threads (or warps) that drain them
          Stages,     \* number of stages of the circular buffer
          Items       \* items each side passes through the buffer

VARIABLES acquired,   \* [Producers -> Nat]: items whose stage p acquired
          filling,    \* [Producers -> SUBSET stage]: acquired, not committed
          waited,     \* [Consumers -> Nat]: items c has waited for
          reading     \* [Consumers -> SUBSET stage]: waited for, not released

cvars == <<acquired, filling, waited, reading>>

Init ==
    /\ acquired = [p \in Producers |-> 0]
    /\ filling = [p \in Producers |-> {}]
    /\ waited = [c \in Consumers |-> 0]
    /\ reading = [c \in Consumers |-> {}]

\* Item k goes to stage k % Stages; the item before it there was k - Stages.
MayAcquire(p) ==
    /\ acquired[p] < Items
    /\ \A c \in Consumers :
          /\ waited[c] > acquired[p] - Stages
          /\ acquired[p] % Stages \notin reading[c]

Acquire(p) ==
    /\ MayAcquire(p)
    /\ acquired' = [acquired EXCEPT ![p] = @ + 1]
    /\ filling' = [filling EXCEPT ![p] = @ \cup {acquired[p] % Stages}]
    /\ UNCHANGED <<waited, reading>>

Commit(p, s) ==
    /\ s \in filling[p]
    /\ filling' = [filling EXCEPT ![p] = @ \ {s}]
    /\ UNCHANGED <<acquired, waited, reading>>

MayRead(c) ==
    /\ waited[c] < Items
    /\ \A p \in Producers :
          /\ acquired[p] > waited[c]
          /\ waited[c] % Stages \notin filling[p]

Wait(c) ==
    /\ MayRead(c)
    /\ waited' = [waited EXCEPT ![c] = @ + 1]
    /\ reading' = [reading EXCEPT ![c] = @ \cup {waited[c] % Stages}]
    /\ UNCHANGED <<acquired, filling>>

Release(c, s) ==
    /\ s \in reading[c]
    /\ reading' = [reading EXCEPT ![c] = @ \ {s}]
    /\ UNCHANGED <<acquired, filling, waited>>

Next ==
    \/ \E p \in Producers : Acquire(p)
    \/ \E p \in Producers, s \in 0 .. Stages - 1 : Commit(p, s)
    \/ \E c \in Consumers : Wait(c)
    \/ \E c \in Consumers, s \in 0 .. Stages - 1 : Release(c, s)

Spec == Init /\ [][Next]_cvars
===============================================================================
