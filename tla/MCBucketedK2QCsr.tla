-------------------------- MODULE MCBucketedK2QCsr --------------------------
(***************************************************************************)
(* Three q blocks in groups of two (the last group is ragged), two kv      *)
(* blocks, rows of three slots read by tiles of two threads (one idles).   *)
(***************************************************************************)
EXTENDS BucketedK2QCsr

\* Rows with both kv blocks, a repeated one, -1 padding, and one out of range.
MCRows == {<<0, 1, -1>>, <<1, 1, 0>>, <<-1, 2, 0>>}
Row(r) == [b \in 0..2 |-> r[b + 1]]

\* Counts of rows: none, fewer than the row, the row, and more than the row.
MCNums == {<<3, 0, 2>>, <<1, 4, 3>>}

MCInputs ==
    {[q2k |-> [q \in 0..2 |-> Row(rows[q])], nums |-> [q \in 0..2 |-> n[q + 1]],
      sparse |-> s, variable |-> v] :
        rows \in [0..2 -> MCRows], n \in MCNums, s \in {0, 2}, v \in BOOLEAN}
=============================================================================
