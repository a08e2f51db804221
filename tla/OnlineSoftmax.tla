----------------------------- MODULE OnlineSoftmax -----------------------------
(***************************************************************************)
(* The row state of the forward kernels that keep one row's softmax in     *)
(* registers while K/V blocks come by: a running maximum, the sum of the   *)
(* exponentials and the output accumulator, both relative to that maximum. *)
(* Scores are in powers of two.  A block stands for one score of the row,  *)
(* and a sum for the set of its terms <<block, exponent>>; a block that is *)
(* masked for the row has the score NegInf and no term.                    *)
(***************************************************************************)
EXTENDS Integers, Sequences

NegInf == -100          \* below every score of a run
Broken == <<0, NegInf>> \* the term no block has: a product of the wrong pieces

Larger(a, b) == IF a < b THEN b ELSE a

\* row_max_safe: a row without a score so far is taken relative to 0.
Safe(max) == IF max = NegInf THEN 0 ELSE max

\* exp2(score - reference) of one block.
TermOf(b, score, ref) == IF score = NegInf THEN {} ELSE {<<b, score - ref>>}

\* Multiplied by exp2(from - to), which is 0 when there was no maximum yet.
Rescaled(terms, from, to) ==
    IF from = NegInf THEN {}
    ELSE {<<x[1], x[2] + from - to>> : x \in terms \ {Broken}} \cup (terms \cap {Broken})

\* Adding a term that is there already is not the same sum.
Plus(terms, more) ==
    IF terms \cap more = {} THEN terms \cup more ELSE terms \cup {Broken}

EmptyRow == [max |-> NegInf, sum |-> {}, o |-> {}, p |-> {}]

\* One step, with the maximum the row goes on with: the sum and O are brought
\* to it, P of this block is added to the sum and kept for the product with V.
Onto(row, b, score, max) ==
    LET p == TermOf(b, score, Safe(max))
    IN  [max |-> max, p |-> p,
         sum |-> Plus(Rescaled(row.sum, row.max, Safe(max)), p),
         o |-> Rescaled(row.o, row.max, Safe(max))]

\* online_softmax and rescale_o_for_next_acc
Update(row, b, score) == Onto(row, b, score, Larger(row.max, score))

\* Sage: the maximum stays while the new one is less than threshold above it.
LazyUpdate(row, b, score, threshold) ==
    LET cur == Larger(row.max, score)
        max == IF row.max # NegInf /\ row.max - Safe(cur) >= -threshold
               THEN row.max ELSE cur
    IN  Onto(row, b, score, max)

\* P @ V: the block's V times P is added to O.
AddPV(row, right) ==
    [row EXCEPT !.o = IF right THEN Plus(@, row.p) ELSE @ \cup {Broken}, !.p = {}]

\* O / sum is the attention of the row, and max + log2(sum) its LSE, when both
\* have the term of every block that is not masked, relative to max.
Exact(row, scores) ==
    LET All == UNION {TermOf(b, scores[b], row.max) : b \in DOMAIN scores}
    IN  row.sum = All /\ row.o = All
===============================================================================
