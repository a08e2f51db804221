----------------------------- MODULE OutputContract -----------------------------
(***************************************************************************)
(* What a kernel promises of its outputs, whatever its inside: every piece *)
(* of them, of O and LSE or of dQ, dK and dV, starts unwritten, is written *)
(* once, and what is written is exactly what the piece is to be.           *)
(***************************************************************************)
VARIABLES launch, out   \* out: [piece of the output -> its status]

Init == out = [i \in DOMAIN out |-> "unwritten"]

\* Some pieces are written, none of which was.
Write ==
    /\ DOMAIN out' = DOMAIN out
    /\ \A i \in DOMAIN out : out'[i] = out[i] \/ (out[i] = "unwritten" /\ out'[i] = "exact")
    /\ UNCHANGED launch

Spec == Init /\ [][Write]_<<launch, out>>

Complete == \A i \in DOMAIN out : out[i] = "exact"
===============================================================================
