------------------------------- MODULE Mbarrier -------------------------------
(***************************************************************************)
(* The hardware barrier every kernel synchronises with: a phase ends when  *)
(* the expected arrivals have come and the bytes that copies announced to  *)
(* it have been written.  A waiter names a phase and passes when it is     *)
(* over.  A named barrier of the CTA, sync_threads included, is one that   *)
(* counts arrivals only.                                                   *)
(***************************************************************************)
EXTENDS Integers

\* par: parity of the phase under way; left: arrivals it still lacks; tx:
\* announced copies not yet written; all: arrivals a phase takes.
Fresh(n) == [par |-> 0, left |-> n, tx |-> 0, all |-> n]

Settle(x) ==
    IF x.left = 0 /\ x.tx = 0 THEN [x EXCEPT !.par = 1 - @, !.left = x.all] ELSE x

Arrived(x) == Settle([x EXCEPT !.left = @ - 1])

\* arrive_and_expect_tx
Expecting(x, copies) == [x EXCEPT !.left = @ - 1, !.tx = @ + copies]

\* complete_tx, by the copy engine
Received(x) == Settle([x EXCEPT !.tx = @ - 1])

\* try_wait.parity
Passed(x, phase) == x.par # phase

\* Parities of a pipeline state that has advanced n times over s stages: a
\* consumer starts with 0, a producer with 1, so that its first acquires pass.
FullPhase(n, s) == (n \div s) % 2
EmptyPhase(n, s) == 1 - FullPhase(n, s)

\* One arrival at each barrier of a set; barrier b expecting copies; a copy done.
ArriveAt(bar, set) ==
    [b \in DOMAIN bar |-> IF b \in set THEN Arrived(bar[b]) ELSE bar[b]]
ExpectAt(bar, b, copies) == [bar EXCEPT ![b] = Expecting(@, copies)]
ReceivedAt(bar, b) == [bar EXCEPT ![b] = Received(@)]

===============================================================================
