--------------------------- MODULE TileOutputContract ---------------------------
(***************************************************************************)
(* What one persistent CTA of a forward kernel promises: the tiles the     *)
(* scheduler hands it are written to global memory once each, in that      *)
(* order, and every row of a tile is the attention of that tile: all of    *)
(* its K/V groups, no group of another tile.  A row's value is the number  *)
(* of the tile it is the right answer for.                                 *)
(***************************************************************************)
EXTENDS Integers, Sequences

CONSTANT Launches
VARIABLES launch, out

Tiles == 1 .. Len(launch.work)
Warps == launch.warps
Unwritten == [w \in Warps |-> 0]
Answer(t) == [w \in Warps |-> t]

Init ==
    /\ launch \in Launches
    /\ out = [t \in Tiles |-> Unwritten]

Store(t) ==
    /\ out[t] = Unwritten
    /\ \A u \in 1 .. t - 1 : out[u] = Answer(u)
    /\ out' = [out EXCEPT ![t] = Answer(t)]
    /\ UNCHANGED launch

Next == \E t \in Tiles : Store(t)

Spec == Init /\ [][Next]_<<launch, out>>
===============================================================================
