---- MODULE MCTileSchedule ----
(* TileSchedule with two roles and launches of four to six tiles, with more *)
(* tiles than SMs, of every scheduler, with and without splits.  24 blocks  *)
(* in two splits take the aligned boundaries, 5 the even ones.              *)
EXTENDS TileSchedule

L(mode, blocks, heads, batches, splits, sms, count) ==
    [mode |-> mode, blocks |-> blocks, heads |-> heads, batches |-> batches,
     splits |-> splits, sms |-> sms, count |-> count]

MCLaunches ==
    {L("single", 1, 2, 1, 2, 2, 27), L("static", 3, 1, 1, 2, 2, 27),
     L("static", 1, 2, 2, 1, 3, 5), L("clc", 2, 1, 2, 1, 2, 5),
     L("clc", 2, 1, 1, 2, 2, 5)}
====
