--------------------------- MODULE TileScheduleProofs ---------------------------
(***************************************************************************)
(* Split boundaries and tile schedulers, for every launch, grid and set of *)
(* roles.  The boundaries cut a row into its splits without a gap or an    *)
(* overlap.  The roles of a CTA, which never talk to each other, take the  *)
(* same tiles, by the order of the scheduler's one-stage pipeline.  No     *)
(* tile is taken twice, and a drained grid has taken every one: with no    *)
(* answers by the arithmetic of coordinates and indices, under CLC because *)
(* a CTA that was cancelled left its coordinate to exactly one that runs.  *)
(***************************************************************************)
EXTENDS TileSchedule, FiniteSetTheorems, WellFoundedInduction, TLAPS

-----------------------------------------------------------------------------
(* Arithmetic.                                                             *)

\* What the quotient of k by d is.
LEMMA Division ==
    ASSUME NEW k \in Nat, NEW d \in Nat \ {0}
    PROVE  /\ k \div d \in Nat
           /\ d * (k \div d) <= k
           /\ k < d * (k \div d) + d
  BY Z3

\* The quotient does not decrease with the dividend.
LEMMA DivisionMonotone ==
    ASSUME NEW k \in Nat, NEW m \in Nat, NEW d \in Nat \ {0}, k <= m
    PROVE  k \div d <= m \div d
  <1> DEFINE K == k \div d
             M == m \div d
  <1>1. K \in Nat /\ M \in Nat /\ d * K <= k /\ m < d * M + d
    BY Division
  <1> HIDE DEF K, M
  <1>2. ASSUME K >= M + 1 PROVE FALSE
    <2>1. d * K >= d * (M + 1)
      BY <1>1, <1>2, Z3
    <2>2. d * (M + 1) = d * M + d
      BY <1>1, Z3
    <2> QED BY <2>1, <2>2, <1>1, Z3
  <1> QED BY <1>1, <1>2, Z3 DEF K, M

\* The quotient is the only number in its place.
LEMMA DivisionUnique ==
    ASSUME NEW k \in Nat, NEW d \in Nat \ {0}, NEW q \in Nat,
           d * q <= k, k < d * q + d
    PROVE  k \div d = q
  <1> DEFINE K == k \div d
  <1>1. K \in Nat /\ d * K <= k /\ k < d * K + d
    BY Division
  <1> HIDE DEF K
  <1>2. ASSUME K >= q + 1 PROVE FALSE
    <2>1. d * K >= d * (q + 1)
      BY <1>1, <1>2, Z3
    <2>2. d * (q + 1) = d * q + d
      BY Z3
    <2> QED BY <2>1, <2>2, <1>1, Z3
  <1>3. ASSUME q >= K + 1 PROVE FALSE
    <2>1. d * q >= d * (K + 1)
      BY <1>1, <1>3, Z3
    <2>2. d * (K + 1) = d * K + d
      BY <1>1, Z3
    <2> QED BY <2>1, <2>2, <1>1, Z3
  <1> QED BY <1>1, <1>2, <1>3, Z3 DEF K

\* A non-empty set of naturals has a least element.
LEMMA LeastElement ==
    ASSUME NEW T, T \subseteq Nat, T # {}
    PROVE  \E x \in T : \A y \in T : x <= y
  <1> DEFINE R == OpToRel(<, Nat)
  <1>1. IsWellFoundedOn(R, Nat)
    BY NatLessThanWellFounded
  <1>2. \A x, y \in Nat : x < y => <<x, y>> \in R
    BY Z3 DEF OpToRel
  <1> HIDE DEF R
  <1>3. PICK x \in T : \A y \in T : <<y, x>> \notin R
    BY <1>1, WFMin
  <1>4. \A y \in T : ~(y < x)
    BY <1>2, <1>3
  <1> QED BY <1>4, Z3

-----------------------------------------------------------------------------
(* The aligned base.                                                       *)

\* What is left after every split got its base is less than eight blocks each.
LEMMA BaseAndRemainder ==
    ASSUME NEW n \in Nat, NEW splits \in Nat \ {0}
    PROVE  /\ AlignedBase(n, splits) \in Nat
           /\ Remainder(n, splits) \in Nat
           /\ n = AlignedBase(n, splits) * splits + Remainder(n, splits)
           /\ Remainder(n, splits) <= splits * 8
  <1> DEFINE avg == n \div splits
             q == avg \div 8
             base == q * 8
  <1>1. avg \in Nat /\ splits * avg <= n /\ n < splits * avg + splits
    BY Division
  <1> HIDE DEF avg
  <1>2. q \in Nat /\ 8 * q <= avg /\ avg < 8 * q + 8
    BY <1>1, Division, 8 \in Nat \ {0}
  <1> HIDE DEF q
  <1>3. base \in Nat /\ base <= avg /\ avg + 1 <= base + 8
    BY <1>1, <1>2, Z3
  <1> HIDE DEF base
  <1>4. splits * base <= splits * avg
    BY <1>1, <1>3, Z3
  <1>5. splits * (avg + 1) <= splits * (base + 8)
    BY <1>1, <1>3, Z3
  <1>6. splits * (avg + 1) = splits * avg + splits
    BY <1>1, Z3
  <1>7. splits * (base + 8) = splits * base + splits * 8
    BY <1>3, Z3
  <1>8. splits * base = base * splits
    BY <1>3, Z3
  <1>9. AlignedBase(n, splits) = base
    BY DEF AlignedBase, base, q, avg
  <1>10. Remainder(n, splits) = n - base * splits
    BY <1>9 DEF Remainder
  <1>11. base * splits \in Nat
    BY <1>3, Z3
  <1>12. splits * avg \in Nat
    BY <1>1, Z3
  <1>13. n - base * splits \in Nat /\ n - base * splits <= splits * 8
    BY <1>1, <1>4, <1>5, <1>6, <1>7, <1>8, <1>11, <1>12, Z3
  <1>14. n = base * splits + (n - base * splits)
    BY <1>11, Z3
  <1> QED BY <1>3, <1>9, <1>10, <1>13, <1>14

\* A boundary is a natural number.
LEMMA OffsetInNat ==
    ASSUME NEW n \in Nat, NEW splits \in Nat \ {0}, NEW i \in Nat
    PROVE  Offset(n, splits, i) \in Nat
  <1> DEFINE base == AlignedBase(n, splits)
             rem == Remainder(n, splits)
  <1>1. base \in Nat /\ rem \in Nat
    BY BaseAndRemainder
  <1>2. CASE base > 0
    <2>1. base * i \in Nat /\ Smaller(rem, i * 8) \in Nat
      BY <1>1, Z3 DEF Smaller
    <2>2. Offset(n, splits, i) = base * i + Smaller(rem, i * 8)
      BY <1>2 DEF Offset
    <2> HIDE DEF base, rem
    <2> QED BY <2>1, <2>2, Z3
  <1>3. CASE ~(base > 0)
    <2>1. n * i + splits - 1 \in Nat
      <3>1. n * i \in Nat
        BY Z3
      <3> QED BY <3>1, Z3
    <2>2. Offset(n, splits, i) = (n * i + splits - 1) \div splits
      BY <1>3 DEF Offset
    <2> QED BY <2>1, <2>2, Division
  <1> QED BY <1>2, <1>3

\* The first split starts at the first block.
LEMMA FirstOffset ==
    ASSUME NEW n \in Nat, NEW splits \in Nat \ {0}
    PROVE  Offset(n, splits, 0) = 0
  <1> DEFINE base == AlignedBase(n, splits)
             rem == Remainder(n, splits)
  <1>1. base \in Nat /\ rem \in Nat
    BY BaseAndRemainder
  <1>2. CASE base > 0
    <2>1. Offset(n, splits, 0) = base * 0 + Smaller(rem, 0 * 8)
      BY <1>2 DEF Offset
    <2> HIDE DEF base, rem
    <2> QED BY <1>1, <2>1, Z3 DEF Smaller
  <1>3. CASE ~(base > 0)
    <2>1. Offset(n, splits, 0) = (n * 0 + splits - 1) \div splits
      BY <1>3 DEF Offset
    <2>2. n * 0 + splits - 1 = splits - 1 /\ splits - 1 \in Nat
      BY Z3
    <2>3. (splits - 1) \div splits = 0
      <3>1. splits * 0 = 0 /\ splits - 1 < 0 + splits /\ 0 <= splits - 1
        BY Z3
      <3> QED BY <2>2, <3>1, DivisionUnique
    <2> QED BY <2>1, <2>2, <2>3
  <1> QED BY <1>2, <1>3

\* The last split ends at the last block.
LEMMA LastOffset ==
    ASSUME NEW n \in Nat, NEW splits \in Nat \ {0}
    PROVE  Offset(n, splits, splits) = n
  <1> DEFINE base == AlignedBase(n, splits)
             rem == Remainder(n, splits)
  <1>1. base \in Nat /\ rem \in Nat /\ n = base * splits + rem /\ rem <= splits * 8
    BY BaseAndRemainder
  <1>2. CASE base > 0
    <2>1. Offset(n, splits, splits) = base * splits + Smaller(rem, splits * 8)
      BY <1>2 DEF Offset
    <2>2. Smaller(rem, splits * 8) = rem
      <3> HIDE DEF base, rem
      <3> QED BY <1>1, Z3 DEF Smaller
    <2> QED BY <1>1, <2>1, <2>2
  <1>3. CASE ~(base > 0)
    <2>1. Offset(n, splits, splits) = (n * splits + splits - 1) \div splits
      BY <1>3 DEF Offset
    <2>2. n * splits \in Nat /\ splits * n = n * splits
      BY Z3
    <2>3. /\ n * splits + splits - 1 \in Nat
          /\ splits * n <= n * splits + splits - 1
          /\ n * splits + splits - 1 < splits * n + splits
      BY <2>2, Z3
    <2>4. (n * splits + splits - 1) \div splits = n
      BY <2>3, DivisionUnique
    <2> QED BY <2>1, <2>4
  <1> QED BY <1>2, <1>3

\* The boundaries do not decrease.
LEMMA OffsetMonotone ==
    ASSUME NEW n \in Nat, NEW splits \in Nat \ {0},
           NEW i \in Nat, NEW j \in Nat, i <= j
    PROVE  Offset(n, splits, i) <= Offset(n, splits, j)
  <1> DEFINE base == AlignedBase(n, splits)
             rem == Remainder(n, splits)
  <1>1. base \in Nat /\ rem \in Nat
    BY BaseAndRemainder
  <1>2. CASE base > 0
    <2>1. /\ Offset(n, splits, i) = base * i + Smaller(rem, i * 8)
          /\ Offset(n, splits, j) = base * j + Smaller(rem, j * 8)
      BY <1>2 DEF Offset
    <2> HIDE DEF base, rem
    <2>2. base * i <= base * j /\ base * i \in Nat /\ base * j \in Nat
      BY <1>1, Z3
    <2>3. /\ Smaller(rem, i * 8) <= Smaller(rem, j * 8)
          /\ Smaller(rem, i * 8) \in Nat /\ Smaller(rem, j * 8) \in Nat
      BY <1>1, Z3 DEF Smaller
    <2> QED BY <2>1, <2>2, <2>3, Z3
  <1>3. CASE ~(base > 0)
    <2>1. /\ Offset(n, splits, i) = (n * i + splits - 1) \div splits
          /\ Offset(n, splits, j) = (n * j + splits - 1) \div splits
      BY <1>3 DEF Offset
    <2>2. n * i <= n * j /\ n * i \in Nat /\ n * j \in Nat
      BY Z3
    <2>3. /\ n * i + splits - 1 \in Nat /\ n * j + splits - 1 \in Nat
          /\ n * i + splits - 1 <= n * j + splits - 1
      BY <2>2, Z3
    <2> QED BY <2>1, <2>3, DivisionMonotone
  <1> QED BY <1>2, <1>3

-----------------------------------------------------------------------------
(* Theorems                                                                *)

(* The kernel and the host agree on every boundary: the clamp to the count   *)
(* in _build_sm100_blk64_kv_split_offsets, which the kernel does not have,   *)
(* never changes one.                                                        *)
THEOREM HostAgrees ==
    ASSUME NEW n \in Nat, NEW splits \in Nat \ {0}, NEW i \in 0 .. splits
    PROVE  HostOffset(n, splits, i) = Offset(n, splits, i)
  <1> DEFINE base == AlignedBase(n, splits)
             off == Offset(n, splits, i)
  <1>1. base \in Nat
    BY BaseAndRemainder
  <1>2. off \in Nat /\ off <= n
    <2>1. Offset(n, splits, i) <= Offset(n, splits, splits)
      BY OffsetMonotone
    <2>2. Offset(n, splits, i) \in Nat
      BY OffsetInNat
    <2> QED BY <2>1, <2>2, LastOffset
  <1>3. CASE base = 0
    BY <1>3 DEF HostOffset, Offset
  <1>4. CASE base # 0
    <2>1. base > 0
      BY <1>1, <1>4
    <2>2. off = base * i + Smaller(Remainder(n, splits), i * 8)
      BY <2>1 DEF Offset
    <2>3. HostOffset(n, splits, i) = Smaller(off, n)
      BY <1>4, <2>2 DEF HostOffset
    <2>4. Smaller(off, n) = off
      <3> HIDE DEF off
      <3> QED BY <1>2, Z3 DEF Smaller
    <2> QED BY <2>3, <2>4
  <1> QED BY <1>3, <1>4

(* No sparse block is attended to twice: the ranges of two splits of a row   *)
(* have no block in common (get_tile_block_count_and_offset).                *)
THEOREM SplitsDisjoint ==
    ASSUME NEW n \in Nat, NEW splits \in Nat \ {0},
           NEW i \in Nat, NEW j \in Nat, i < j
    PROVE  BlocksOf(n, splits, i) \cap BlocksOf(n, splits, j) = {}
  <1>1. Offset(n, splits, i + 1) <= Offset(n, splits, j)
    BY OffsetMonotone
  <1>2. /\ Offset(n, splits, i) \in Nat /\ Offset(n, splits, i + 1) \in Nat
        /\ Offset(n, splits, j) \in Nat /\ Offset(n, splits, j + 1) \in Nat
    <2>1. i + 1 \in Nat /\ j + 1 \in Nat
      BY Z3
    <2> QED BY <2>1, OffsetInNat
  <1> QED BY <1>1, <1>2, Z3 DEF BlocksOf

(* No sparse block is lost: every block of a row belongs to one of its       *)
(* splits, and no split reaches past the row's count, where the index list   *)
(* holds nothing valid.                                                      *)
THEOREM SplitsCover ==
    ASSUME NEW n \in Nat, NEW splits \in Nat \ {0}
    PROVE  UNION {BlocksOf(n, splits, i) : i \in 0 .. splits - 1} = 0 .. n - 1
  <1> DEFINE off(i) == Offset(n, splits, i)
  <1>1. ASSUME NEW i \in 0 .. splits - 1
        PROVE  BlocksOf(n, splits, i) \subseteq 0 .. n - 1
    <2>1. off(i + 1) <= n
      BY OffsetMonotone, LastOffset
    <2>2. off(i) \in Nat /\ off(i + 1) \in Nat
      <3>1. i \in Nat /\ i + 1 \in Nat
        BY Z3
      <3> QED BY OffsetInNat, <3>1
    <2> HIDE DEF off
    <2>3. off(i) .. off(i + 1) - 1 \subseteq 0 .. n - 1
      BY <2>1, <2>2, Z3
    <2> QED BY <2>3 DEF BlocksOf, off
  <1>2. ASSUME NEW b \in 0 .. n - 1
        PROVE  \E i \in 0 .. splits - 1 : b \in BlocksOf(n, splits, i)
    <2> DEFINE Ends == {i \in 0 .. splits - 1 : b < off(i + 1)}
    <2>1. splits - 1 \in Ends
      <3>1. off(splits) = n
        BY LastOffset
      <3>2. (splits - 1) + 1 = splits /\ splits - 1 \in 0 .. splits - 1
        BY Z3
      <3> HIDE DEF off
      <3> QED BY <3>1, <3>2, Z3
    <2>2. PICK i \in Ends : \A k \in Ends : i <= k
      <3>1. Ends \subseteq Nat
        BY Z3
      <3> HIDE DEF Ends
      <3> QED BY <2>1, <3>1, LeastElement
    <2>3. off(i) <= b
      <3>1. off(0) = 0 /\ i \in 0 .. splits - 1
        BY FirstOffset, <2>2
      <3>2. CASE i = 0
        BY <3>1, <3>2
      <3>3. CASE i # 0
        <4>1. i - 1 \in 0 .. splits - 1 /\ i - 1 < i /\ (i - 1) + 1 = i
          BY <3>1, <3>3, Z3
        <4>2. i - 1 \notin Ends
          <5> HIDE DEF Ends
          <5> QED BY <4>1, <2>2, <3>1, Z3
        <4>3. ~(b < off(i))
          BY <4>1, <4>2
        <4>4. off(i) \in Nat
          <5>1. i \in Nat
            BY <3>1, Z3
          <5> QED BY OffsetInNat, <5>1
        <4> HIDE DEF off
        <4> QED BY <4>3, <4>4, Z3
      <3> QED BY <3>2, <3>3
    <2>4. i \in 0 .. splits - 1 /\ b < off(i + 1)
      BY <2>2
    <2>5. off(i) \in Nat /\ off(i + 1) \in Nat
      <3>1. i \in Nat /\ i + 1 \in Nat
        BY <2>4, Z3
      <3> QED BY OffsetInNat, <3>1
    <2>6. b \in off(i) .. off(i + 1) - 1
      <3> HIDE DEF off
      <3> QED BY <2>3, <2>4, <2>5, Z3
    <2> QED BY <2>4, <2>6 DEF BlocksOf
  <1> QED BY <1>1, <1>2

-----------------------------------------------------------------------------
(* The roles of a CTA.                                                     *)

\* What a role can take for a tile.
Candidate == {StaticTile(i) : i \in Int} \cup {GridTile(a) : a \in Grid}

Typed ==
    /\ launch \in Launches
    /\ role \in [Grid -> [Roles -> [pc : {"work", "next", "out"}, at : Grid \cup {NoTile},
                                    next : Int, seen : Nat]]]
    /\ clc \in [Grid -> [queries : Nat, answers : Nat, at : Grid \cup {NoTile}]]
    /\ took \in [Grid -> [Roles -> Seq(Candidate)]]

\* Without answers the i-th tile of a role is known from the start.
FixedOrder(c, r) ==
    LET me == role[c][r]
        len == Len(took[c][r])
    IN  /\ launch.mode = "single" =>
              /\ me.pc = "work" => me.at = c
              /\ \A i \in 1 .. len : took[c][r][i] = GridTile(c)
        /\ launch.mode = "static" =>
              /\ me.pc = "work" => me.next = c[1] + len * GridX
              /\ me.pc = "next" => me.next = c[1] + (len - 1) * GridX
              /\ \A i \in 1 .. len : took[c][r][i] = StaticTile(c[1] + (i - 1) * GridX)

\* Under CLC: the answer the roles that have read all answers are at.
Last(c) == IF clc[c].answers = 0 THEN c ELSE clc[c].at

\* No role is more than one answer behind, and none while a query is open; a
\* role has taken a tile per answer it has read, and one more while it waits.
InTurn(c, r) ==
    LET me == role[c][r]
        len == Len(took[c][r])
    IN  /\ clc[c].answers - 1 <= me.seen /\ me.seen <= clc[c].answers
        /\ clc[c].answers <= clc[c].queries /\ clc[c].queries <= clc[c].answers + 1
        /\ clc[c].answers < clc[c].queries => me.seen = clc[c].answers
        /\ me.seen = clc[c].answers => me.at = Last(c)
        /\ len = IF me.pc = "next" THEN me.seen + 1 ELSE me.seen
        /\ me.pc = "next" => took[c][r][len] = GridTile(me.at)
        /\ me.pc = "work" => me.at \in Grid

\* The tile a role is about to take is the one another role took at that place,
\* or is about to take.
Together(c, r, q) ==
    /\ role[c][r].seen = role[c][q].seen => role[c][r].at = role[c][q].at
    /\ (role[c][r].pc = "work" /\ Len(took[c][r]) < Len(took[c][q])) =>
          took[c][q][Len(took[c][r]) + 1] = GridTile(role[c][r].at)
    /\ \A i \in 1 .. Len(took[c][r]) : i <= Len(took[c][q]) => took[c][r][i] = took[c][q][i]

AgreeInv ==
    /\ Typed
    /\ \A c \in Grid, r \in Roles : FixedOrder(c, r)
    /\ launch.mode = "clc" =>
          \A c \in Grid, r \in Roles : InTurn(c, r) /\ \A q \in Roles : Together(c, r, q)

-----------------------------------------------------------------------------
(* Constants of a launch.                                                  *)

LEMMA GridIsFinite ==
    ASSUME launch \in Launches
    PROVE  GridX \in Nat /\ \A c \in Grid : c[1] \in Int
<1>1. /\ launch.blocks \in Nat /\ launch.heads \in Nat /\ launch.batches \in Nat
      /\ launch.splits \in Nat /\ launch.sms \in Nat
  BY LaunchesAssumption
<1>2. PICK x \in Int, y \in Int, z \in Int : Grid = Grid3(x, y, z)
  <2>1. BaseBlocks \in Int /\ TotalBlocks \in Int
    BY <1>1 DEF BaseBlocks, TotalBlocks
  <2>2. launch.heads * launch.splits \in Int
    BY <1>1
  <2>3. Smaller(launch.sms, TotalBlocks) \in Int
    BY <1>1, <2>1 DEF Smaller
  <2> QED BY <1>1, <2>1, <2>2, <2>3 DEF Grid
<1>3. \A c \in Grid : c[1] \in 0 .. x - 1
  BY <1>2 DEF Grid3
<1>4. IsFiniteSet({c[1] : c \in Grid})
  <2>1. {c[1] : c \in Grid} \subseteq 0 .. x - 1
    BY <1>3
  <2>2. IsFiniteSet(0 .. x - 1)
    BY <1>2, FS_Interval
  <2> QED BY <2>1, <2>2, FS_Subset
<1> QED BY <1>2, <1>3, <1>4, FS_CardinalityType DEF GridX

LEMMA LaunchIsFixed ==
    ASSUME launch' = launch
    PROVE  /\ Grid' = Grid /\ GridX' = GridX /\ Candidate' = Candidate
           /\ \A a : GridTile(a)' = GridTile(a)
           /\ \A i : StaticTile(i)' = StaticTile(i)
<1>1. Grid' = Grid
  BY DEF Grid, TotalBlocks, BaseBlocks
<1>2. GridX' = GridX
  BY <1>1 DEF GridX
<1>3. \A a : GridTile(a)' = GridTile(a)
  BY DEF GridTile, Unflatten
<1>4. \A i : StaticTile(i)' = StaticTile(i)
  BY DEF StaticTile, Unflatten
<1>5. Candidate' = Candidate
  BY <1>1, <1>3, <1>4 DEF Candidate
<1> QED BY <1>1, <1>2, <1>3, <1>4, <1>5

\* What Typed says of one role.
RoleState == [pc : {"work", "next", "out"}, at : Grid \cup {NoTile}, next : Int, seen : Nat]

LEMMA TypedRole ==
    ASSUME Typed, NEW c \in Grid, NEW r \in Roles
    PROVE  /\ role[c][r] \in RoleState /\ role[c][r].seen \in Nat /\ role[c][r].next \in Int
           /\ took[c][r] \in Seq(Candidate) /\ Len(took[c][r]) \in Nat
BY DEF Typed, RoleState

\* A step of one role.
LEMMA OneRoleTyped ==
    ASSUME Typed, launch' = launch, clc' = clc, NEW c \in Grid, NEW r \in Roles,
           NEW new \in RoleState, role' = [role EXCEPT ![c][r] = new],
           NEW s \in Seq(Candidate), took' = [took EXCEPT ![c][r] = s]
    PROVE  /\ Typed'
           /\ role'[c][r] = new /\ took'[c][r] = s
           /\ \A d \in Grid, q \in Roles : (d # c \/ q # r) =>
                 took'[d][q] = took[d][q] /\ role'[d][q] = role[d][q]
<1>1. Grid' = Grid /\ Candidate' = Candidate
  BY LaunchIsFixed
<1>2. role' \in [Grid -> [Roles -> RoleState]] /\ took' \in [Grid -> [Roles -> Seq(Candidate)]]
  BY DEF Typed, RoleState
<1>3. Typed'
  BY <1>1, <1>2 DEF Typed, RoleState
<1> QED BY <1>3 DEF Typed

LEMMA InitAgrees == Init => AgreeInv
<1> SUFFICES ASSUME Init PROVE AgreeInv
  OBVIOUS
<1>1. launch \in Launches /\ \A c \in Grid : c[1] \in Int
  BY GridIsFinite DEF Init
<1>2. Typed
  BY <1>1 DEF Init, Typed
<1>3. GridX \in Nat
  BY <1>1, GridIsFinite
<1>4. \A c \in Grid, r \in Roles : took[c][r] = <<>> /\ Len(took[c][r]) = 0
  BY DEF Init
<1>5. ASSUME NEW c \in Grid, NEW r \in Roles
      PROVE  FixedOrder(c, r)
  BY <1>1, <1>3, <1>4, <1>5 DEF Init, FixedOrder
<1>6. ASSUME NEW c \in Grid, NEW r \in Roles
      PROVE  InTurn(c, r)
  BY <1>4 DEF Init, InTurn, Last
<1>7. ASSUME NEW c \in Grid, NEW r \in Roles, NEW q \in Roles
      PROVE  Together(c, r, q)
  BY <1>4 DEF Init, Together
<1> QED BY <1>2, <1>5, <1>6, <1>7 DEF AgreeInv

-----------------------------------------------------------------------------
(* The steps.                                                              *)

\* What the invariant says of a role, or of two, is about their registers.
LEMMA SameRole ==
    ASSUME NEW c \in Grid, NEW r \in Roles, launch' = launch,
           role'[c][r] = role[c][r], took'[c][r] = took[c][r]
    PROVE  /\ FixedOrder(c, r) => FixedOrder(c, r)'
           /\ InTurn(c, r) /\ clc'[c] = clc[c] => InTurn(c, r)'
<1>1. /\ Grid' = Grid /\ GridX' = GridX
      /\ \A a : GridTile(a)' = GridTile(a)
      /\ \A i : StaticTile(i)' = StaticTile(i)
  BY LaunchIsFixed
<1>2. FixedOrder(c, r) => FixedOrder(c, r)'
  BY <1>1 DEF FixedOrder
<1>3. InTurn(c, r) /\ clc'[c] = clc[c] => InTurn(c, r)'
  BY <1>1 DEF InTurn, Last
<1> QED BY <1>2, <1>3

LEMMA SamePair ==
    ASSUME NEW c \in Grid, NEW r \in Roles, NEW q \in Roles, launch' = launch,
           role'[c][r] = role[c][r], took'[c][r] = took[c][r],
           role'[c][q] = role[c][q], took'[c][q] = took[c][q]
    PROVE  Together(c, r, q) => Together(c, r, q)'
<1>1. \A a : GridTile(a)' = GridTile(a)
  BY LaunchIsFixed
<1> QED BY <1>1 DEF Together

\* Steps of the CTAs and of the scheduler warp that no role can see.
LEMMA UnseenStep ==
    ASSUME AgreeInv, UNCHANGED <<launch, role, clc, took>>
    PROVE  AgreeInv'
<1>1. /\ Grid' = Grid /\ GridX' = GridX /\ Candidate' = Candidate
      /\ \A a : GridTile(a)' = GridTile(a)
      /\ \A i : StaticTile(i)' = StaticTile(i)
  BY LaunchIsFixed
<1>2. Typed'
  BY <1>1 DEF AgreeInv, Typed
<1>3. \A c \in Grid, r \in Roles : FixedOrder(c, r)'
  BY SameRole DEF AgreeInv
<1>4. launch.mode = "clc" => \A c \in Grid, r \in Roles : InTurn(c, r)' /\ \A q \in Roles : Together(c, r, q)'
  BY SameRole, SamePair DEF AgreeInv
<1> QED BY <1>1, <1>2, <1>3, <1>4 DEF AgreeInv

\* A role takes a tile.
LEMMA WorkAgrees ==
    ASSUME AgreeInv, NEW c \in Grid, NEW r \in Roles, Work(c, r)
    PROVE  AgreeInv'
<1> DEFINE me == role[c][r]
           len == Len(took[c][r])
           tile == IF launch.mode = "static" THEN StaticTile(me.next) ELSE GridTile(me.at)
           new == [me EXCEPT !.pc = "next"]
           more == Append(took[c][r], tile)
<1>1. /\ Grid' = Grid /\ GridX' = GridX /\ Candidate' = Candidate
      /\ \A a : GridTile(a)' = GridTile(a)
      /\ \A i : StaticTile(i)' = StaticTile(i)
  BY LaunchIsFixed DEF Work
<1>2. launch \in Launches /\ launch.mode \in {"single", "static", "clc"} /\ launch' = launch /\ clc' = clc
  BY LaunchesAssumption DEF AgreeInv, Typed, Work
<1>3. GridX \in Nat /\ c[1] \in Int
  BY <1>2, GridIsFinite
<1>4. me.pc = "work" /\ me.next \in Int /\ me.seen \in Nat /\ took[c][r] \in Seq(Candidate) /\ len \in Nat
  BY DEF AgreeInv, Typed, Work
<1>5. tile \in Candidate
  <2>1. CASE launch.mode = "static"
    BY <1>4, <2>1 DEF Candidate
  <2>2. CASE launch.mode = "single"
    BY <1>4, <2>2 DEF AgreeInv, FixedOrder, Candidate
  <2>3. CASE launch.mode = "clc"
    BY <1>4, <2>3 DEF AgreeInv, InTurn, Candidate
  <2> QED BY <1>2, <2>1, <2>2, <2>3
<1>6. took' = [took EXCEPT ![c][r] = more] /\ role' = [role EXCEPT ![c][r] = new]
  BY DEF Work, AgreeInv, Typed
<1>7. /\ more \in Seq(Candidate) /\ new \in RoleState
      /\ Len(more) = len + 1 /\ more[len + 1] = tile /\ \A i \in 1 .. len : more[i] = took[c][r][i]
      /\ new.pc = "next" /\ new.at = me.at /\ new.next = me.next /\ new.seen = me.seen
  BY <1>4, <1>5, TypedRole DEF AgreeInv, RoleState
<1>14. /\ launch.mode = "static" => tile = StaticTile(me.next)
       /\ launch.mode # "static" => tile = GridTile(me.at)
  OBVIOUS
<1>15. \A i \in 1 .. len + 1 : i \in 1 .. len \/ i = len + 1
  BY <1>4
<1> HIDE DEF tile, new, more
<1>8. Typed' /\ took'[c][r] = more /\ role'[c][r] = new
  <2>1. Typed
    BY DEF AgreeInv
  <2>2. Typed'
    BY <1>2, <1>6, <1>7, <2>1, OneRoleTyped
  <2>3. took'[c][r] = more /\ role'[c][r] = new
    BY <1>6, <2>1 DEF Typed
  <2> QED BY <2>2, <2>3
<1>9. \A d \in Grid, q \in Roles : (d # c \/ q # r) =>
        took'[d][q] = took[d][q] /\ role'[d][q] = role[d][q]
  BY <1>2, <1>6, <1>7, OneRoleTyped DEF AgreeInv
<1>11. ASSUME NEW d \in Grid, NEW q \in Roles
       PROVE  FixedOrder(d, q)'
  <2>1. CASE d # c \/ q # r
    BY <1>2, <1>9, <2>1, SameRole DEF AgreeInv
  <2>2. CASE d = c /\ q = r
    <3>0. FixedOrder(c, r)
      BY DEF AgreeInv
    <3>1. CASE launch.mode = "static"
      <4>1. tile = StaticTile(c[1] + len * GridX) /\ me.next = c[1] + len * GridX
        BY <1>4, <1>14, <3>0, <3>1 DEF FixedOrder
      <4>2. ASSUME NEW i \in 1 .. len + 1
            PROVE  more[i] = StaticTile(c[1] + (i - 1) * GridX)
        <5>1. CASE i \in 1 .. len
          BY <1>7, <3>0, <3>1, <5>1 DEF FixedOrder
        <5>2. CASE i = len + 1
          <6>1. i - 1 = len
            BY <1>4, <5>2
          <6> QED BY <1>7, <4>1, <5>2, <6>1
        <5> QED BY <1>15, <5>1, <5>2
      <4>3. new.next = c[1] + (Len(more) - 1) * GridX
        <5>1. Len(more) - 1 = len
          BY <1>4, <1>7
        <5> QED BY <1>7, <4>1, <5>1
      <4> QED BY <1>1, <1>2, <1>7, <1>8, <2>2, <3>1, <4>2, <4>3 DEF FixedOrder
    <3>2. CASE launch.mode = "single"
      <4>1. \A i \in 1 .. len + 1 : more[i] = GridTile(c)
        BY <1>4, <1>7, <1>14, <1>15, <3>0, <3>2 DEF FixedOrder
      <4> QED BY <1>1, <1>2, <1>7, <1>8, <2>2, <3>2, <4>1 DEF FixedOrder
    <3> QED BY <1>2, <3>1, <3>2 DEF FixedOrder
  <2> QED BY <2>1, <2>2
<1>12. ASSUME launch.mode = "clc", NEW d \in Grid, NEW q \in Roles
       PROVE  InTurn(d, q)'
  <2>1. CASE d # c \/ q # r
    BY <1>2, <1>9, <1>12, <2>1, SameRole DEF AgreeInv
  <2>2. CASE d = c /\ q = r
    <3>1. InTurn(c, r)
      BY <1>12 DEF AgreeInv
    <3> QED BY <1>1, <1>2, <1>4, <1>7, <1>8, <1>12, <1>14, <2>2, <3>1 DEF InTurn, Last
  <2> QED BY <2>1, <2>2
<1>13. ASSUME launch.mode = "clc", NEW d \in Grid, NEW p \in Roles, NEW q \in Roles
       PROVE  Together(d, p, q)'
  <2>1. CASE d # c \/ (p # r /\ q # r)
    BY <1>2, <1>9, <1>13, <2>1, SamePair DEF AgreeInv
  <2>2. CASE d = c /\ p = r /\ q = r
    BY <1>7, <1>8, <2>2 DEF Together
  <2>3. CASE d = c /\ p = r /\ q # r
    <3>1. role'[c][q] = role[c][q] /\ took'[c][q] = took[c][q]
      BY <1>9, <2>3
    <3>2. Together(c, r, q) /\ Len(took[c][q]) \in Nat
      BY <1>13, TypedRole DEF AgreeInv
    <3>3. ASSUME NEW i \in 1 .. len + 1, i <= Len(took[c][q])
          PROVE  more[i] = took[c][q][i]
      <4>1. CASE i \in 1 .. len
        BY <1>7, <3>2, <3>3, <4>1 DEF Together
      <4>2. CASE i = len + 1
        BY <1>4, <1>7, <1>13, <1>14, <3>2, <3>3, <4>2 DEF Together
      <4> QED BY <1>15, <4>1, <4>2
    <3> QED BY <1>7, <1>8, <2>3, <3>1, <3>2, <3>3 DEF Together
  <2>4. CASE d = c /\ p # r /\ q = r
    <3> DEFINE lenp == Len(took[c][p])
    <3>1. role'[c][p] = role[c][p] /\ took'[c][p] = took[c][p]
      BY <1>9, <2>4
    <3>2. Together(c, p, r) /\ Together(c, r, p) /\ InTurn(c, p) /\ InTurn(c, r)
      BY <1>13 DEF AgreeInv
    <3>3. lenp \in Nat /\ role[c][p].seen \in Nat
      BY TypedRole DEF AgreeInv
    <3>4. ASSUME role[c][p].pc = "work", lenp < len + 1
          PROVE  more[lenp + 1] = GridTile(role[c][p].at)
      <4>1. CASE lenp < len
        <5>1. lenp + 1 \in 1 .. len
          BY <1>4, <3>3, <4>1
        <5> QED BY <1>7, <3>2, <3>4, <4>1, <5>1 DEF Together
      <4>2. CASE lenp = len
        <5>1. role[c][p].seen = me.seen
          BY <1>4, <3>2, <3>4, <4>2 DEF InTurn
        <5>2. role[c][p].at = me.at
          BY <3>2, <5>1 DEF Together
        <5> QED BY <1>7, <1>13, <1>14, <4>2, <5>2
      <4> QED BY <1>4, <3>3, <3>4, <4>1, <4>2
    <3>5. ASSUME NEW i \in 1 .. lenp, i <= len + 1
          PROVE  took[c][p][i] = more[i]
      <4>1. i \in 1 .. len + 1
        BY <1>4, <3>3, <3>5
      <4>2. CASE i \in 1 .. len
        BY <1>7, <3>2, <3>3, <3>5, <4>2 DEF Together
      <4>3. CASE i = len + 1
        BY <1>4, <1>7, <1>13, <1>14, <3>2, <3>3, <3>5, <4>3 DEF Together
      <4> QED BY <1>15, <4>1, <4>2, <4>3
    <3>6. (role'[c][p].seen = role'[c][r].seen) => role'[c][p].at = role'[c][r].at
      BY <1>7, <1>8, <3>1, <3>2 DEF Together
    <3> QED BY <1>1, <1>7, <1>8, <2>4, <3>1, <3>4, <3>5, <3>6 DEF Together
  <2> QED BY <2>1, <2>2, <2>3, <2>4
<1> QED BY <1>1, <1>2, <1>8, <1>11, <1>12, <1>13 DEF AgreeInv

\* The roles that need no answer go to the next tile.
LEMMA AdvanceAgrees ==
    ASSUME AgreeInv, NEW c \in Grid, NEW r \in Roles, Advance(c, r)
    PROVE  AgreeInv'
<1> DEFINE me == role[c][r]
           next == me.next + GridX
           pc == IF launch.mode = "static" /\ next < TotalBlocks THEN "work" ELSE "out"
           new == [me EXCEPT !.next = next, !.pc = pc]
<1>1. /\ Grid' = Grid /\ GridX' = GridX
      /\ \A a : GridTile(a)' = GridTile(a)
      /\ \A i : StaticTile(i)' = StaticTile(i)
  BY LaunchIsFixed DEF Advance
<1>2. Typed /\ launch' = launch /\ clc' = clc /\ took' = took /\ launch.mode # "clc" /\ me.pc = "next"
  BY DEF AgreeInv, Advance
<1>3. GridX \in Nat /\ c[1] \in Int
  BY <1>2, GridIsFinite DEF Typed
<1>4. me.next \in Int /\ me \in RoleState /\ took[c][r] \in Seq(Candidate) /\ Len(took[c][r]) \in Nat
  BY <1>2, TypedRole
<1>5. /\ new \in RoleState /\ new.at = me.at /\ new.next = next
      /\ new.pc = "work" => launch.mode = "static"
      /\ new.pc # "next"
  <2>1. next \in Int /\ pc \in {"work", "out"} /\ (pc = "work" => launch.mode = "static")
    BY <1>3, <1>4
  <2> HIDE DEF next, pc
  <2> QED BY <1>4, <2>1 DEF RoleState
<1>6. role' = [role EXCEPT ![c][r] = new]
  BY DEF Advance, AgreeInv, Typed
<1> HIDE DEF new, next
<1>7. Typed' /\ role'[c][r] = new
  <2>1. took' = [took EXCEPT ![c][r] = took[c][r]]
    BY <1>2 DEF Typed
  <2>2. Typed'
    BY <1>2, <1>4, <1>5, <1>6, <2>1, OneRoleTyped
  <2>3. role'[c][r] = new
    BY <1>2, <1>6 DEF Typed
  <2> QED BY <2>2, <2>3
<1>8. ASSUME NEW d \in Grid, NEW q \in Roles
      PROVE  FixedOrder(d, q)'
  <2>1. CASE d # c \/ q # r
    <3>1. role'[d][q] = role[d][q]
      BY <1>2, <1>6, <2>1 DEF Typed
    <3> QED BY <1>2, <3>1, SameRole DEF AgreeInv
  <2>2. CASE d = c /\ q = r
    <3>1. FixedOrder(c, r)
      BY DEF AgreeInv
    <3>2. launch.mode = "static" => next = c[1] + Len(took[c][r]) * GridX
      <4>1. launch.mode = "static" => me.next = c[1] + (Len(took[c][r]) - 1) * GridX
        BY <1>2, <3>1 DEF FixedOrder
      <4>2. (Len(took[c][r]) - 1) * GridX + GridX = Len(took[c][r]) * GridX
        BY <1>3, <1>4
      <4>3. (Len(took[c][r]) - 1) * GridX \in Int
        BY <1>3, <1>4
      <4> DEFINE u == (Len(took[c][r]) - 1) * GridX
                 v == Len(took[c][r]) * GridX
      <4>4. u + GridX = v /\ u \in Int /\ (launch.mode = "static" => me.next = c[1] + u)
        BY <4>1, <4>2, <4>3
      <4>5. c[1] \in Int /\ GridX \in Int
        BY <1>3
      <4> HIDE DEF u, v
      <4>6. launch.mode = "static" => me.next + GridX = c[1] + v
        BY <4>4, <4>5
      <4> QED BY <4>6 DEF next, v
    <3> QED BY <1>1, <1>2, <1>5, <1>7, <2>2, <3>1, <3>2 DEF FixedOrder
  <2> QED BY <2>1, <2>2
<1> QED BY <1>1, <1>2, <1>7, <1>8 DEF AgreeInv

\* A role reads the answer.
LEMMA ConsumeAgrees ==
    ASSUME AgreeInv, NEW c \in Grid, NEW r \in Roles, Consume(c, r)
    PROVE  AgreeInv'
<1> DEFINE me == role[c][r]
           new == [me EXCEPT !.at = clc[c].at, !.seen = @ + 1,
                             !.pc = IF clc[c].at = NoTile THEN "out" ELSE "work"]
<1>1. Grid' = Grid /\ \A a : GridTile(a)' = GridTile(a)
  BY LaunchIsFixed DEF Consume
<1>2. /\ Typed /\ launch' = launch /\ clc' = clc /\ took' = took /\ launch.mode = "clc"
      /\ me.pc = "next" /\ clc[c].answers > me.seen
  BY DEF AgreeInv, Consume
<1>3. /\ clc[c].answers \in Nat /\ clc[c].queries \in Nat /\ clc[c].at \in Grid \cup {NoTile}
      /\ me.seen \in Nat /\ me \in RoleState
      /\ took[c][r] \in Seq(Candidate) /\ Len(took[c][r]) \in Nat
  BY <1>2, TypedRole DEF Typed
<1>4. InTurn(c, r)
  BY <1>2 DEF AgreeInv
<1>5. me.seen + 1 = clc[c].answers /\ clc[c].answers > 0
  BY <1>2, <1>3, <1>4 DEF InTurn
<1>6. /\ new \in RoleState /\ new.at = clc[c].at /\ new.seen = clc[c].answers
      /\ new.pc = "work" => clc[c].at \in Grid
      /\ new.pc # "next"
  BY <1>3, <1>5 DEF RoleState
<1>7. role' = [role EXCEPT ![c][r] = new]
  BY DEF Consume
<1> HIDE DEF new
<1>8. Typed' /\ role'[c][r] = new
  <2>1. took' = [took EXCEPT ![c][r] = took[c][r]]
    BY <1>2 DEF Typed
  <2>2. Typed'
    BY <1>2, <1>3, <1>6, <1>7, <2>1, OneRoleTyped
  <2>3. role'[c][r] = new
    BY <1>2, <1>7 DEF Typed
  <2> QED BY <2>2, <2>3
<1>9. \A d \in Grid, q \in Roles : (d # c \/ q # r) => role'[d][q] = role[d][q]
  BY <1>2, <1>7 DEF Typed
<1>10. ASSUME NEW d \in Grid, NEW q \in Roles
       PROVE  FixedOrder(d, q)'
  BY <1>2 DEF FixedOrder
<1>11. ASSUME NEW d \in Grid, NEW q \in Roles
       PROVE  InTurn(d, q)'
  <2>1. CASE d # c \/ q # r
    BY <1>2, <1>9, <2>1, SameRole DEF AgreeInv
  <2>2. CASE d = c /\ q = r
    <3>1. Len(took[c][r]) = clc[c].answers
      BY <1>2, <1>3, <1>4, <1>5 DEF InTurn
    <3>2. clc[c].answers <= clc[c].queries /\ clc[c].queries <= clc[c].answers + 1
      BY <1>3, <1>4 DEF InTurn
    <3>3. clc[c].answers # 0 /\ clc[c].answers - 1 <= clc[c].answers /\ clc[c].answers <= clc[c].answers
      BY <1>3, <1>5
    <3>4. Last(c)' = clc[c].at
      BY <1>2, <3>3 DEF Last
    <3> QED BY <1>1, <1>2, <1>3, <1>6, <1>8, <2>2, <3>1, <3>2, <3>3, <3>4 DEF InTurn
  <2> QED BY <2>1, <2>2
<1>12. ASSUME NEW d \in Grid, NEW p \in Roles, NEW q \in Roles
       PROVE  Together(d, p, q)'
  <2>1. CASE d # c \/ (p # r /\ q # r)
    BY <1>2, <1>9, <2>1, SamePair DEF AgreeInv
  <2>2. CASE d = c /\ p = r /\ q = r
    BY <1>2, <1>3, <2>2 DEF Together
  <2>3. CASE d = c /\ p = r /\ q # r
    <3>1. role'[c][q] = role[c][q]
      BY <1>9, <2>3
    <3>2. InTurn(c, q) /\ Together(c, r, q)
      BY <1>2 DEF AgreeInv
    <3>3. role[c][q].seen \in Nat /\ Len(took[c][q]) \in Nat
      BY <1>2, TypedRole
    <3>4. role[c][q].seen = clc[c].answers => role[c][q].at = clc[c].at
      BY <1>5, <3>2 DEF InTurn, Last
    <3>5. ASSUME Len(took[c][r]) < Len(took[c][q])
          PROVE  took[c][q][Len(took[c][r]) + 1] = GridTile(clc[c].at)
      <4>1. Len(took[c][r]) = clc[c].answers
        BY <1>2, <1>3, <1>4, <1>5 DEF InTurn
      <4>2. /\ role[c][q].pc = "next" /\ role[c][q].seen = clc[c].answers
            /\ Len(took[c][q]) = clc[c].answers + 1
        <5>1. /\ role[c][q].seen <= clc[c].answers /\ Len(took[c][q]) > clc[c].answers
              /\ Len(took[c][q]) = IF role[c][q].pc = "next" THEN role[c][q].seen + 1 ELSE role[c][q].seen
          BY <3>2, <3>5, <4>1 DEF InTurn
        <5>2. clc[c].answers \in Nat
          BY <1>3
        <5>3. \A x, y, z \in Nat : \A w :
                 (x <= y /\ z > y /\ z = IF w = "next" THEN x + 1 ELSE x) =>
                    w = "next" /\ x = y /\ z = y + 1
          OBVIOUS
        <5> QED BY <3>3, <5>1, <5>2, <5>3
      <4> QED BY <3>2, <3>4, <4>1, <4>2 DEF InTurn
    <3> QED BY <1>1, <1>2, <1>6, <1>8, <2>3, <3>1, <3>2, <3>4, <3>5 DEF Together
  <2>4. CASE d = c /\ p # r /\ q = r
    <3>1. role'[c][p] = role[c][p]
      BY <1>9, <2>4
    <3>2. InTurn(c, p) /\ Together(c, p, r)
      BY <1>2 DEF AgreeInv
    <3>3. role[c][p].seen = clc[c].answers => role[c][p].at = clc[c].at
      BY <1>5, <3>2 DEF InTurn, Last
    <3> QED BY <1>1, <1>2, <1>6, <1>8, <2>4, <3>1, <3>2, <3>3 DEF Together
  <2> QED BY <2>1, <2>2, <2>3, <2>4
<1> QED BY <1>1, <1>2, <1>8, <1>10, <1>11, <1>12 DEF AgreeInv

\* A query is asked only when all roles have read the last answer ..
LEMMA QueryAgrees ==
    ASSUME AgreeInv, NEW c \in Grid, Query(c)
    PROVE  AgreeInv'
<1>1. Grid' = Grid /\ Candidate' = Candidate
  BY LaunchIsFixed DEF Query
<1>2. /\ Typed /\ launch' = launch /\ role' = role /\ took' = took /\ launch.mode = "clc"
      /\ \A r \in Roles : role[c][r].seen = clc[c].queries
  BY DEF AgreeInv, Query, Released
<1>3. clc' = [clc EXCEPT ![c].queries = @ + 1]
  BY DEF Query
<1>4. /\ \A d \in Grid : d # c => clc'[d] = clc[d]
      /\ clc'[c].queries = clc[c].queries + 1 /\ clc'[c].answers = clc[c].answers
      /\ clc'[c].at = clc[c].at
      /\ clc[c].queries \in Nat /\ clc[c].answers \in Nat
  BY <1>2, <1>3 DEF Typed
<1>5. Typed'
  <2>1. clc[c] \in [queries : Nat, answers : Nat, at : Grid \cup {NoTile}]
    BY <1>2 DEF Typed
  <2>2. [clc[c] EXCEPT !.queries = @ + 1] \in [queries : Nat, answers : Nat, at : Grid \cup {NoTile}]
    BY <2>1
  <2>3. clc' = [clc EXCEPT ![c] = [clc[c] EXCEPT !.queries = @ + 1]]
    BY <1>3
  <2>4. clc' \in [Grid -> [queries : Nat, answers : Nat, at : Grid \cup {NoTile}]]
    BY <1>2, <2>2, <2>3 DEF Typed
  <2> QED BY <1>1, <1>2, <2>4 DEF Typed
<1>6. ASSUME NEW d \in Grid, NEW r \in Roles
      PROVE  FixedOrder(d, r)'
  BY <1>2, SameRole DEF AgreeInv
<1>7. ASSUME NEW d \in Grid, NEW r \in Roles
      PROVE  InTurn(d, r)'
  <2>1. CASE d # c
    BY <1>2, <1>4, <2>1, SameRole DEF AgreeInv
  <2>2. CASE d = c
    <3>1. InTurn(c, r) /\ role[c][r].seen = clc[c].queries
      BY <1>2 DEF AgreeInv
    <3>2. clc[c].queries = clc[c].answers
      BY <1>4, <3>1 DEF InTurn
    <3>3. \A a : GridTile(a)' = GridTile(a)
      BY <1>2, LaunchIsFixed
    <3> QED BY <1>1, <1>2, <1>4, <2>2, <3>1, <3>2, <3>3 DEF InTurn, Last
  <2> QED BY <2>1, <2>2
<1>8. ASSUME NEW d \in Grid, NEW r \in Roles, NEW q \in Roles
      PROVE  Together(d, r, q)'
  BY <1>2, SamePair DEF AgreeInv
<1> QED BY <1>1, <1>2, <1>5, <1>6, <1>7, <1>8 DEF AgreeInv

\* .. so an answer does not replace one that a role has still to read.
LEMMA AnswerAgrees ==
    ASSUME AgreeInv, NEW c \in Grid, Answer(c)
    PROVE  AgreeInv'
<1>1. Grid' = Grid /\ Candidate' = Candidate
  BY LaunchIsFixed DEF Answer
<1>2. Typed /\ launch' = launch /\ role' = role /\ took' = took /\ clc[c].answers < clc[c].queries
  BY DEF AgreeInv, Answer
<1>3. PICK a \in Grid \cup {NoTile} : clc' = [clc EXCEPT ![c].answers = @ + 1, ![c].at = a]
  BY DEF Answer
<1>4. /\ \A d \in Grid : d # c => clc'[d] = clc[d]
      /\ clc'[c].queries = clc[c].queries /\ clc'[c].answers = clc[c].answers + 1
      /\ clc[c].queries \in Nat /\ clc[c].answers \in Nat
  BY <1>2, <1>3 DEF Typed
<1>5. Typed'
  <2>1. clc[c] \in [queries : Nat, answers : Nat, at : Grid \cup {NoTile}]
    BY <1>2 DEF Typed
  <2>2. [clc[c] EXCEPT !.answers = @ + 1, !.at = a] \in [queries : Nat, answers : Nat, at : Grid \cup {NoTile}]
    <3>1. a \in Grid \cup {NoTile} /\ clc[c].answers + 1 \in Nat
      BY <1>3, <1>4
    <3> QED BY <2>1, <3>1
  <2>3. clc' = [clc EXCEPT ![c] = [clc[c] EXCEPT !.answers = @ + 1, !.at = a]]
    BY <1>3
  <2>4. clc' \in [Grid -> [queries : Nat, answers : Nat, at : Grid \cup {NoTile}]]
    BY <1>2, <2>2, <2>3 DEF Typed
  <2> QED BY <1>1, <1>2, <2>4 DEF Typed
<1>6. ASSUME NEW d \in Grid, NEW r \in Roles
      PROVE  FixedOrder(d, r)'
  BY <1>2, SameRole DEF AgreeInv
<1>7. ASSUME launch.mode = "clc", NEW d \in Grid, NEW r \in Roles
      PROVE  InTurn(d, r)'
  <2>1. CASE d # c
    BY <1>2, <1>4, <1>7, <2>1, SameRole DEF AgreeInv
  <2>2. CASE d = c
    <3>1. InTurn(c, r)
      BY <1>7 DEF AgreeInv
    <3>2. role[c][r].seen = clc[c].answers /\ clc[c].queries = clc[c].answers + 1
      BY <1>2, <1>4, <3>1 DEF InTurn
    <3>3. \A x : GridTile(x)' = GridTile(x)
      BY <1>2, LaunchIsFixed
    <3> QED BY <1>1, <1>2, <1>4, <2>2, <3>1, <3>2, <3>3 DEF InTurn, Last
  <2> QED BY <2>1, <2>2
<1>8. ASSUME launch.mode = "clc", NEW d \in Grid, NEW r \in Roles, NEW q \in Roles
      PROVE  Together(d, r, q)'
  BY <1>2, <1>8, SamePair DEF AgreeInv
<1> QED BY <1>1, <1>2, <1>5, <1>6, <1>7, <1>8 DEF AgreeInv

\* The invariant is inductive.
LEMMA NextAgrees ==
    ASSUME AgreeInv, [Next]_vars
    PROVE  AgreeInv'
<1>1. CASE UNCHANGED vars
  BY <1>1, UnseenStep DEF vars
<1>2. ASSUME NEW c \in Grid, Start(c) \/ SchedConsume(c) \/ SchedTail(c) \/ Exit(c)
      PROVE  AgreeInv'
  BY <1>2, UnseenStep DEF Start, SchedConsume, SchedTail, Exit
<1> QED
  BY <1>1, <1>2, WorkAgrees, AdvanceAgrees, ConsumeAgrees, QueryAgrees, AnswerAgrees
     DEF Next, Role, Scheduler, Terminating

\* In the fixed order of a scheduler without answers two roles agree because
\* each place has one tile; under CLC Together says it.
LEMMA AgreeInvImplies ==
    ASSUME AgreeInv
    PROVE  RolesAgree
<1> SUFFICES ASSUME NEW c \in Grid, NEW r \in Roles, NEW q \in Roles,
                    Len(took[c][r]) <= Len(took[c][q])
             PROVE  took[c][r] = SubSeq(took[c][q], 1, Len(took[c][r]))
  BY DEF RolesAgree
<1> DEFINE s == took[c][r]
           u == took[c][q]
<1>1. s \in Seq(Candidate) /\ u \in Seq(Candidate) /\ Len(s) \in Nat /\ Len(u) \in Nat
  BY TypedRole DEF AgreeInv
<1>2. \A i \in 1 .. Len(s) : i \in 1 .. Len(u)
  BY <1>1
<1>3. \A i \in 1 .. Len(s) : s[i] = u[i]
  <2>1. launch.mode \in {"single", "static", "clc"}
    BY LaunchesAssumption DEF AgreeInv, Typed
  <2>2. CASE launch.mode = "clc"
    BY <1>1, <1>2, <2>2 DEF AgreeInv, Together
  <2>3. CASE launch.mode = "single"
    BY <1>2, <2>3 DEF AgreeInv, FixedOrder
  <2>4. CASE launch.mode = "static"
    BY <1>2, <2>4 DEF AgreeInv, FixedOrder
  <2> QED BY <2>1, <2>2, <2>3, <2>4
<1>4. \A i \in 1 .. Len(s) : SubSeq(u, 1, Len(s))[i] = u[i]
  BY <1>1
<1>5. SubSeq(u, 1, Len(s)) \in Seq(Candidate) /\ Len(SubSeq(u, 1, Len(s))) = Len(s)
  BY <1>1
<1> QED BY <1>1, <1>3, <1>4, <1>5

\* All roles of a CTA go through the same tiles in the same order: for every
\* scheduler, grid, number of splits and of SMs, and set of roles.
THEOREM Agreement == Spec => []RolesAgree
<1>1. AgreeInv /\ [Next]_vars => AgreeInv'
  BY NextAgrees
<1>2. AgreeInv => RolesAgree
  BY AgreeInvImplies
<1> QED BY InitAgrees, <1>1, <1>2, PTL DEF Spec

-----------------------------------------------------------------------------
(* The tile of a grid coordinate or of a linear index: one to one.         *)

\* Quotient and remainder determine the number, and are determined by it.
LEMMA Divmod ==
    ASSUME NEW k \in Nat, NEW d \in Nat \ {0}
    PROVE  k \div d \in Nat /\ k % d \in 0 .. d - 1 /\ k = d * (k \div d) + (k % d)
  BY Z3

LEMMA DivmodInjective ==
    ASSUME NEW k \in Nat, NEW m \in Nat, NEW d \in Nat \ {0}, k \div d = m \div d, k % d = m % d
    PROVE  k = m
<1>1. k = d * (k \div d) + (k % d) /\ m = d * (m \div d) + (m % d)
  BY Divmod
<1> QED BY <1>1

LEMMA DivmodUnique ==
    ASSUME NEW d \in Nat \ {0}, NEW q \in Nat, NEW s \in 0 .. d - 1
    PROVE  (d * q + s) \div d = q /\ (d * q + s) % d = s
<1> DEFINE k == d * q + s
<1>1. k \in Nat /\ d * q <= k /\ k < d * q + d
  BY Z3
<1> HIDE DEF k
<1>2. k \div d = q
  BY <1>1, DivisionUnique
<1>3. k = d * (k \div d) + (k % d) /\ k % d \in 0 .. d - 1
  BY <1>1, Divmod
<1>4. k % d = s
  BY <1>2, <1>3, Z3 DEF k
<1> QED BY <1>2, <1>4 DEF k

\* Pairs below x and y are numbered by the numbers below x * y.
LEMMA PairToNumber ==
    ASSUME NEW x \in Nat \ {0}, NEW y \in Nat \ {0}, NEW a \in 0 .. x - 1, NEW b \in 0 .. y - 1
    PROVE  y * a + b \in 0 .. x * y - 1
<1>1. y * a <= y * (x - 1)
  BY Z3
<1>2. y * (x - 1) = x * y - y
  BY Z3
<1>3. y * a \in Nat /\ x * y \in Nat
  BY Z3
<1> QED BY <1>1, <1>2, <1>3, Z3

LEMMA NumberToPair ==
    ASSUME NEW x \in Nat \ {0}, NEW y \in Nat \ {0}, NEW k \in 0 .. x * y - 1
    PROVE  k \div y \in 0 .. x - 1 /\ k % y \in 0 .. y - 1 /\ k \in Nat
<1>1. k \in Nat /\ x * y \in Nat /\ k < x * y
  BY Z3
<1> DEFINE q == k \div y
<1>2. q \in Nat /\ k % y \in 0 .. y - 1 /\ y * q <= k
  BY <1>1, Divmod, Division
<1> HIDE DEF q
<1>3. ASSUME q >= x PROVE FALSE
  <2>1. y * q >= y * x
    BY <1>2, <1>3, Z3
  <2>2. y * x = x * y
    BY Z3
  <2> QED BY <1>1, <1>2, <2>1, <2>2, Z3
<1> QED BY <1>1, <1>2, <1>3, Z3 DEF q

LEMMA LaunchSizes ==
    ASSUME launch \in Launches
    PROVE  /\ launch.blocks \in Nat \ {0} /\ launch.heads \in Nat \ {0}
           /\ launch.batches \in Nat \ {0} /\ launch.splits \in Nat \ {0}
           /\ launch.sms \in Nat \ {0} /\ launch.count \in Nat
           /\ launch.mode \in {"single", "static", "clc"}
           /\ BaseBlocks \in Nat \ {0} /\ TotalBlocks \in Nat \ {0}
           /\ launch.heads * launch.batches \in Nat \ {0}
           /\ BaseBlocks = (launch.heads * launch.batches) * launch.blocks
<1>1. /\ launch.blocks \in Nat \ {0} /\ launch.heads \in Nat \ {0}
      /\ launch.batches \in Nat \ {0} /\ launch.splits \in Nat \ {0}
      /\ launch.sms \in Nat \ {0} /\ launch.count \in Nat
      /\ launch.mode \in {"single", "static", "clc"}
  BY LaunchesAssumption
<1>2. \A x, y \in Nat \ {0} : x * y \in Nat \ {0}
  BY Z3
<1>3. launch.heads * launch.batches \in Nat \ {0} /\ BaseBlocks \in Nat \ {0}
  BY <1>1, <1>2 DEF BaseBlocks
<1>4. TotalBlocks \in Nat \ {0}
  BY <1>1, <1>2, <1>3 DEF TotalBlocks
<1>5. \A x, y, z \in Nat : x * y * z = (y * z) * x
  BY Z3
<1>6. BaseBlocks = (launch.heads * launch.batches) * launch.blocks
  BY <1>1, <1>5 DEF BaseBlocks
<1> QED BY <1>1, <1>3, <1>4, <1>6

\* Every base index and split make a tile, no two the same one, and every tile.
LEMMA UnflattenOneToOne ==
    ASSUME launch \in Launches
    PROVE  /\ \A b \in 0 .. BaseBlocks - 1, s \in 0 .. launch.splits - 1 : Unflatten(b, s) \in Tile
           /\ \A b, d \in 0 .. BaseBlocks - 1, s, t \in 0 .. launch.splits - 1 :
                 Unflatten(b, s) = Unflatten(d, t) => b = d /\ s = t
           /\ \A t \in Tile : \E b \in 0 .. BaseBlocks - 1 : Unflatten(b, t.split) = t
<1> DEFINE bl == launch.blocks
           he == launch.heads
           ba == launch.batches
           hn(b) == b \div bl
<1>1. bl \in Nat \ {0} /\ he \in Nat \ {0} /\ ba \in Nat \ {0} /\ BaseBlocks = (he * ba) * bl
      /\ he * ba \in Nat \ {0}
  BY LaunchSizes
<1>2. ASSUME NEW b \in 0 .. BaseBlocks - 1
      PROVE  /\ b % bl \in 0 .. bl - 1 /\ hn(b) \in Nat /\ hn(b) % he \in 0 .. he - 1
             /\ hn(b) \div he \in 0 .. ba - 1
             /\ b = bl * hn(b) + (b % bl) /\ hn(b) = he * (hn(b) \div he) + (hn(b) % he)
  <2>1. hn(b) \in 0 .. he * ba - 1 /\ b % bl \in 0 .. bl - 1 /\ b \in Nat
    BY <1>1, NumberToPair
  <2> HIDE DEF bl, he, ba
  <2>2. he * ba = ba * he
    BY <1>1, Z3
  <2>3. hn(b) \div he \in 0 .. ba - 1 /\ hn(b) % he \in 0 .. he - 1 /\ hn(b) \in Nat
    <3> HIDE DEF hn
    <3>1. hn(b) \in 0 .. ba * he - 1
      BY <2>1, <2>2
    <3> QED BY <3>1, <1>1, NumberToPair
  <2>4. b = bl * hn(b) + (b % bl)
    BY <2>1, <1>1, Divmod
  <2>5. hn(b) = he * (hn(b) \div he) + (hn(b) % he)
    BY <2>3, <1>1, Divmod
  <2> QED BY <2>1, <2>3, <2>4, <2>5
<1>3. ASSUME NEW b \in 0 .. BaseBlocks - 1, NEW s \in 0 .. launch.splits - 1
      PROVE  Unflatten(b, s) \in Tile
  BY <1>2 DEF Unflatten, Tile
<1>4. ASSUME NEW b \in 0 .. BaseBlocks - 1, NEW d \in 0 .. BaseBlocks - 1, NEW s, NEW t,
             Unflatten(b, s) = Unflatten(d, t)
      PROVE  b = d /\ s = t
  <2>1. b % bl = d % bl /\ hn(b) % he = hn(d) % he /\ hn(b) \div he = hn(d) \div he /\ s = t
    BY <1>4 DEF Unflatten, TileOf
  <2>2. hn(b) \in Nat /\ hn(d) \in Nat /\ b \in Nat /\ d \in Nat
    BY <1>1, <1>2
  <2>3. hn(b) = hn(d)
    <3> HIDE DEF hn
    <3> QED BY <1>1, <2>1, <2>2, DivmodInjective
  <2> QED BY <1>1, <2>1, <2>2, <2>3, DivmodInjective
<1>5. ASSUME NEW t \in Tile
      PROVE  \E b \in 0 .. BaseBlocks - 1 : Unflatten(b, t.split) = t
  <2>1. PICK x \in 0 .. bl - 1, y \in 0 .. he - 1, z \in 0 .. ba - 1, s \in 0 .. launch.splits - 1 :
           t = TileOf(x, y, z, s)
    BY DEF Tile
  <2> DEFINE h == he * z + y
             b == bl * h + x
  <2>2. h \in 0 .. ba * he - 1
    BY <1>1, <2>1, PairToNumber
  <2>3. h \div he = z /\ h % he = y
    <3>1. z \in Nat
      BY <1>1, <2>1
    <3> QED BY <1>1, <2>1, <3>1, DivmodUnique
  <2> HIDE DEF h
  <2>4. h \in 0 .. he * ba - 1 /\ h \in Nat
    <3>1. he * ba = ba * he
      <4> HIDE DEF he, ba
      <4> QED BY <1>1, Z3
    <3> QED BY <2>2, <3>1
  <2>5. b \in 0 .. BaseBlocks - 1
    BY <1>1, <2>4, PairToNumber
  <2>6. b \div bl = h /\ b % bl = x
    BY <1>1, <2>1, <2>4, DivmodUnique
  <2> HIDE DEF b
  <2>7. Unflatten(b, t.split) = t
    BY <2>1, <2>3, <2>6 DEF Unflatten, TileOf
  <2> QED BY <2>5, <2>7
<1> QED BY <1>3, <1>4, <1>5

\* The same for the linear index of the static scheduler.
LEMMA StaticTileOneToOne ==
    ASSUME launch \in Launches
    PROVE  /\ \A i \in 0 .. TotalBlocks - 1 : StaticTile(i) \in Tile
           /\ \A i, j \in 0 .. TotalBlocks - 1 : StaticTile(i) = StaticTile(j) => i = j
           /\ \A t \in Tile : \E i \in 0 .. TotalBlocks - 1 : StaticTile(i) = t
<1>1. /\ BaseBlocks \in Nat \ {0} /\ launch.splits \in Nat \ {0}
      /\ TotalBlocks = BaseBlocks * launch.splits
  BY LaunchSizes DEF TotalBlocks
<1>2. ASSUME NEW i \in 0 .. TotalBlocks - 1
      PROVE  /\ i \div launch.splits \in 0 .. BaseBlocks - 1
             /\ i % launch.splits \in 0 .. launch.splits - 1
             /\ i = launch.splits * (i \div launch.splits) + (i % launch.splits)
  <2>1. i \div launch.splits \in 0 .. BaseBlocks - 1 /\ i % launch.splits \in 0 .. launch.splits - 1
        /\ i \in Nat
    BY <1>1, NumberToPair
  <2> QED BY <1>1, <2>1, Divmod
<1>3. \A i \in 0 .. TotalBlocks - 1 : StaticTile(i) \in Tile
  BY <1>2, UnflattenOneToOne DEF StaticTile
<1>4. ASSUME NEW i \in 0 .. TotalBlocks - 1, NEW j \in 0 .. TotalBlocks - 1, StaticTile(i) = StaticTile(j)
      PROVE  i = j
  <2>1. i \div launch.splits = j \div launch.splits /\ i % launch.splits = j % launch.splits
    BY <1>2, <1>4, UnflattenOneToOne DEF StaticTile
  <2>2. i \in Nat /\ j \in Nat
    BY <1>1
  <2> QED BY <1>1, <2>1, <2>2, DivmodInjective
<1>5. ASSUME NEW t \in Tile PROVE \E i \in 0 .. TotalBlocks - 1 : StaticTile(i) = t
  <2>1. t.split \in 0 .. launch.splits - 1
    BY DEF Tile, TileOf
  <2>2. PICK b \in 0 .. BaseBlocks - 1 : Unflatten(b, t.split) = t
    BY UnflattenOneToOne
  <2> DEFINE i == launch.splits * b + t.split
  <2>3. i \in 0 .. TotalBlocks - 1
    BY <1>1, <2>1, PairToNumber
  <2>4. b \in Nat
    BY <1>1
  <2>5. i \div launch.splits = b /\ i % launch.splits = t.split
    BY <1>1, <2>1, <2>4, DivmodUnique
  <2> HIDE DEF i
  <2> QED BY <2>2, <2>3, <2>5 DEF StaticTile
<1> QED BY <1>3, <1>4, <1>5

\* The same for the coordinates of a grid that is not persistent.
LEMMA GridTileOneToOne ==
    ASSUME launch \in Launches, launch.mode # "static"
    PROVE  /\ \A c \in Grid : GridTile(c) \in Tile
           /\ \A c, d \in Grid : GridTile(c) = GridTile(d) => c = d
           /\ \A t \in Tile : \E c \in Grid : GridTile(c) = t
<1>1. /\ BaseBlocks \in Nat \ {0} /\ launch.splits \in Nat \ {0} /\ launch.heads \in Nat \ {0}
      /\ launch.mode \in {"single", "clc"}
  BY LaunchSizes
<1>2. CASE launch.mode = "single"
  <2>1. Grid = Grid3(launch.blocks, launch.heads * launch.splits, launch.batches)
    BY <1>2 DEF Grid
  <2>2. \A c : GridTile(c) = TileOf(c[1], c[2] \div launch.splits, c[3], c[2] % launch.splits)
    BY <1>2 DEF GridTile
  <2>3. ASSUME NEW j \in 0 .. launch.heads * launch.splits - 1
        PROVE  /\ j \div launch.splits \in 0 .. launch.heads - 1
               /\ j % launch.splits \in 0 .. launch.splits - 1
               /\ j = launch.splits * (j \div launch.splits) + (j % launch.splits)
    <3>1. j \div launch.splits \in 0 .. launch.heads - 1 /\ j % launch.splits \in 0 .. launch.splits - 1
          /\ j \in Nat
      BY <1>1, NumberToPair
    <3> QED BY <1>1, <3>1, Divmod
  <2>4. \A c \in Grid : GridTile(c) \in Tile
    BY <2>1, <2>2, <2>3 DEF Grid3, Tile
  <2>5. ASSUME NEW c \in Grid, NEW d \in Grid, GridTile(c) = GridTile(d) PROVE c = d
    <3>1. c[1] = d[1] /\ c[3] = d[3] /\ c[2] \div launch.splits = d[2] \div launch.splits
          /\ c[2] % launch.splits = d[2] % launch.splits
      BY <2>2, <2>5 DEF TileOf
    <3>2. /\ c[2] \in 0 .. launch.heads * launch.splits - 1 /\ d[2] \in 0 .. launch.heads * launch.splits - 1
          /\ c = <<c[1], c[2], c[3]>> /\ d = <<d[1], d[2], d[3]>>
      BY <2>1 DEF Grid3
    <3>3. c[2] \in Nat /\ d[2] \in Nat
      BY <3>2
    <3>4. c[2] = d[2]
      <4> DEFINE x == c[2]
                 y == d[2]
      <4>1. x \in Nat /\ y \in Nat /\ x \div launch.splits = y \div launch.splits
            /\ x % launch.splits = y % launch.splits
        BY <3>1, <3>3
      <4> HIDE DEF x, y
      <4>2. x = y
        BY <1>1, <4>1, DivmodInjective
      <4> QED BY <4>2 DEF x, y
    <3> QED BY <3>1, <3>2, <3>4
  <2>6. ASSUME NEW t \in Tile PROVE \E c \in Grid : GridTile(c) = t
    <3>1. PICK x \in 0 .. launch.blocks - 1, y \in 0 .. launch.heads - 1,
               z \in 0 .. launch.batches - 1, s \in 0 .. launch.splits - 1 : t = TileOf(x, y, z, s)
      BY DEF Tile
    <3> DEFINE j == launch.splits * y + s
    <3>2. j \in 0 .. launch.heads * launch.splits - 1
      BY <1>1, <3>1, PairToNumber
    <3>3. y \in Nat
      BY <1>1
    <3>4. j \div launch.splits = y /\ j % launch.splits = s
      BY <1>1, <3>1, <3>3, DivmodUnique
    <3> HIDE DEF j
    <3>5. <<x, j, z>> \in Grid
      BY <2>1, <3>1, <3>2 DEF Grid3
    <3>6. GridTile(<<x, j, z>>) = t
      BY <2>2, <3>1, <3>4
    <3> QED BY <3>5, <3>6
  <2> QED BY <2>4, <2>5, <2>6
<1>3. CASE launch.mode = "clc" /\ launch.splits > 1
  <2>1. Grid = Grid3(BaseBlocks, launch.splits, 1)
    BY <1>3 DEF Grid
  <2>2. \A c : GridTile(c) = Unflatten(c[1], c[2])
    BY <1>3 DEF GridTile
  <2>3. ASSUME NEW c \in Grid
        PROVE  /\ c[1] \in 0 .. BaseBlocks - 1 /\ c[2] \in 0 .. launch.splits - 1
               /\ c = <<c[1], c[2], 0>>
    BY <2>1 DEF Grid3
  <2>4. ASSUME NEW t \in Tile PROVE \E c \in Grid : GridTile(c) = t
    <3>1. t.split \in 0 .. launch.splits - 1
      BY DEF Tile, TileOf
    <3>2. PICK b \in 0 .. BaseBlocks - 1 : Unflatten(b, t.split) = t
      BY UnflattenOneToOne
    <3>3. <<b, t.split, 0>> \in Grid
      BY <2>1, <3>1 DEF Grid3
    <3> QED BY <2>2, <3>2, <3>3
  <2>5. \A c \in Grid : GridTile(c) \in Tile
    BY <2>2, <2>3, UnflattenOneToOne
  <2>6. ASSUME NEW c \in Grid, NEW d \in Grid, GridTile(c) = GridTile(d) PROVE c = d
    <3>1. c[1] = d[1] /\ c[2] = d[2]
      BY <2>2, <2>3, <2>6, UnflattenOneToOne
    <3> QED BY <2>3, <3>1
  <2> QED BY <2>4, <2>5, <2>6
<1>4. CASE launch.mode = "clc" /\ ~(launch.splits > 1)
  <2>1. Grid = Grid3(launch.blocks, launch.heads, launch.batches)
    BY <1>4 DEF Grid
  <2>2. \A c : GridTile(c) = TileOf(c[1], c[2], c[3], 0)
    BY <1>4 DEF GridTile
  <2>3. launch.splits = 1
    BY <1>1, <1>4
  <2>4. ASSUME NEW c \in Grid
        PROVE  /\ c[1] \in 0 .. launch.blocks - 1 /\ c[2] \in 0 .. launch.heads - 1
               /\ c[3] \in 0 .. launch.batches - 1 /\ c = <<c[1], c[2], c[3]>>
    BY <2>1 DEF Grid3
  <2>5. \A c \in Grid : GridTile(c) \in Tile
    BY <2>2, <2>3, <2>4 DEF Tile
  <2>6. ASSUME NEW c \in Grid, NEW d \in Grid, GridTile(c) = GridTile(d) PROVE c = d
    BY <2>2, <2>4, <2>6 DEF TileOf
  <2>7. ASSUME NEW t \in Tile PROVE \E c \in Grid : GridTile(c) = t
    <3>1. PICK x \in 0 .. launch.blocks - 1, y \in 0 .. launch.heads - 1,
               z \in 0 .. launch.batches - 1, s \in 0 .. launch.splits - 1 : t = TileOf(x, y, z, s)
      BY DEF Tile
    <3>2. s = 0 /\ <<x, y, z>> \in Grid
      BY <2>1, <2>3, <3>1 DEF Grid3
    <3> QED BY <2>2, <3>1, <3>2
  <2> QED BY <2>5, <2>6, <2>7
<1> QED BY <1>1, <1>2, <1>3, <1>4


-----------------------------------------------------------------------------
(* Who takes which tile.                                                   *)

Started(c) == cta[c] \in {"running", "exited"}

CtaTyped ==
    /\ cta \in [Grid -> {"pending", "running", "cancelled", "exited"}]
    /\ sched \in [Grid -> [pc : {"acquire", "next", "tail", "out"}, seen : Nat]]

\* A CTA that has not started asks for nothing and takes nothing, one that has
\* exited is through, and only CLC cancels.
CtaOK(c) ==
    /\ clc[c].queries > 0 => Started(c) /\ launch.mode = "clc"
    /\ clc[c].answers <= clc[c].queries
    /\ cta[c] = "cancelled" => launch.mode = "clc"
    /\ cta[c] = "exited" => \A r \in Roles : role[c][r].pc = "out"

RoleOK(c, r) ==
    LET me == role[c][r]
        len == Len(took[c][r])
    IN  /\ len > 0 => Started(c)
        /\ launch.mode = "single" => len = IF me.pc = "work" THEN 0 ELSE 1
        /\ launch.mode = "static" =>
              /\ me.pc = "work" => me.next < TotalBlocks
              /\ me.pc = "out" => me.next = c[1] + len * GridX /\ me.next >= TotalBlocks
              /\ \A i \in 1 .. len : c[1] + (i - 1) * GridX < TotalBlocks

\* Nothing has told the CTA that no CTA is left to cancel.
Hopeful(c) == clc[c].answers = 0 \/ clc[c].at # NoTile

\* The scheduler warp does not ask again once it knows.
SchedOK(c) ==
    LET me == sched[c] IN
    /\ me.pc = "next" => clc[c].queries = me.seen + 1 /\ (clc[c].answers = me.seen => Hopeful(c))
    /\ me.pc # "next" => clc[c].queries = me.seen /\ clc[c].answers = me.seen
    /\ me.pc = "acquire" => Hopeful(c)
    /\ me.pc \in {"tail", "out"} => ~Hopeful(c)

Out(c, r) == role[c][r].pc = "out" => role[c][r].seen = clc[c].answers /\ ~Hopeful(c)

\* own[c] is the coordinates CTA c has been given, its own one first: what its
\* roles have taken is the beginning of it.
Given(own, c) ==
    /\ own[c] # <<>> /\ own[c][1] = c
    /\ Len(own[c]) = IF Hopeful(c) THEN clc[c].answers + 1 ELSE clc[c].answers
    /\ Hopeful(c) /\ clc[c].answers > 0 => own[c][clc[c].answers + 1] = clc[c].at
    /\ \A i \in 2 .. Len(own[c]) : cta[own[c][i]] = "cancelled"
InHand(own, c, r) ==
    LET len == Len(took[c][r]) IN
    /\ len <= Len(own[c]) /\ \A i \in 1 .. len : took[c][r][i] = GridTile(own[c][i])
    /\ role[c][r].pc = "work" => len < Len(own[c]) /\ role[c][r].at = own[c][len + 1]

\* No coordinate is given twice ..
Once(own) ==
    \A c, d \in Grid : \A i \in 2 .. Len(own[c]), j \in 2 .. Len(own[d]) :
        own[c][i] = own[d][j] => c = d /\ i = j
\* .. and a CTA that was cancelled was cancelled by one that got its coordinate.
GivenTo(own, d) == \E c \in Grid : Started(c) /\ \E i \in 2 .. Len(own[c]) : own[c][i] = d

Owns(own) ==
    /\ \A c \in Grid : Given(own, c)
    /\ \A c \in Grid, r \in Roles : InHand(own, c, r)
    /\ Once(own)
    /\ \A d \in Grid : cta[d] = "cancelled" => GivenTo(own, d)

ShareInv ==
    /\ AgreeInv /\ CtaTyped
    /\ \A c \in Grid : CtaOK(c)
    /\ \A c \in Grid, r \in Roles : RoleOK(c, r)
    /\ launch.mode = "clc" =>
          /\ \A c \in Grid : SchedOK(c)
          /\ \A c \in Grid, r \in Roles : Out(c, r)
          /\ \E own \in [Grid -> Seq(Grid)] : Owns(own)

-----------------------------------------------------------------------------

LEMMA CoordinateIsTriple ==
    ASSUME launch \in Launches, NEW c \in Grid
    PROVE  \E x \in Int, y \in Int, z \in Int : c = <<x, y, z>>
<1>1. /\ launch.blocks \in Int /\ launch.heads \in Int /\ launch.batches \in Int
      /\ launch.splits \in Int /\ BaseBlocks \in Int /\ launch.heads * launch.splits \in Int
      /\ Smaller(launch.sms, TotalBlocks) \in Int
  BY LaunchSizes DEF Smaller
<1>2. \E x \in Int, y \in Int, z \in Int : Grid = Grid3(x, y, z)
  BY <1>1 DEF Grid
<1> QED BY <1>2 DEF Grid3

\* The linear grid of the static scheduler.
LEMMA StaticGrid ==
    ASSUME launch \in Launches, launch.mode = "static"
    PROVE  /\ GridX \in Nat \ {0} /\ GridX <= TotalBlocks
           /\ Grid = {<<x, 0, 0>> : x \in 0 .. GridX - 1}
<1>1. launch.sms \in Nat \ {0} /\ TotalBlocks \in Nat \ {0}
  BY LaunchSizes
<1> DEFINE m == Smaller(launch.sms, TotalBlocks)
<1>2. m \in Nat \ {0} /\ m <= TotalBlocks
  BY <1>1 DEF Smaller
<1>3. Grid = Grid3(m, 1, 1)
  BY DEF Grid
<1> HIDE DEF m
<1>4. Grid = {<<x, 0, 0>> : x \in 0 .. m - 1}
  BY <1>3 DEF Grid3
<1>5. {c[1] : c \in Grid} = 0 .. m - 1
  <2>1. \A c \in Grid : c[1] \in 0 .. m - 1
    BY <1>4
  <2>2. \A x \in 0 .. m - 1 : <<x, 0, 0>> \in Grid /\ <<x, 0, 0>>[1] = x
    BY <1>4
  <2> QED BY <2>1, <2>2
<1>6. GridX = m
  <2>1. Cardinality(0 .. m - 1) = m
    BY <1>2, FS_Interval
  <2> QED BY <1>5, <2>1 DEF GridX
<1> QED BY <1>2, <1>4, <1>6

\* What a step of a role does.
LEMMA WorkEffect ==
    ASSUME Typed, NEW c \in Grid, NEW r \in Roles, Work(c, r)
    PROVE  /\ launch' = launch /\ cta' = cta /\ sched' = sched /\ clc' = clc /\ cta[c] = "running"
           /\ role[c][r].pc = "work" /\ role'[c][r].pc = "next"
           /\ role'[c][r].at = role[c][r].at /\ role'[c][r].seen = role[c][r].seen
           /\ role'[c][r].next = role[c][r].next
           /\ Len(took'[c][r]) = Len(took[c][r]) + 1 /\ Len(took[c][r]) \in Nat
           /\ \A i \in 1 .. Len(took[c][r]) : took'[c][r][i] = took[c][r][i]
           /\ took'[c][r][Len(took[c][r]) + 1] =
                 IF launch.mode = "static" THEN StaticTile(role[c][r].next) ELSE GridTile(role[c][r].at)
           /\ \A d \in Grid, q \in Roles : (d # c \/ q # r) =>
                 role'[d][q] = role[d][q] /\ took'[d][q] = took[d][q]
<1> DEFINE tile == IF launch.mode = "static" THEN StaticTile(role[c][r].next) ELSE GridTile(role[c][r].at)
           s == took[c][r]
<1>1. /\ took' = [took EXCEPT ![c][r] = Append(s, tile)] /\ role' = [role EXCEPT ![c][r].pc = "next"]
      /\ launch' = launch /\ cta' = cta /\ sched' = sched /\ clc' = clc /\ cta[c] = "running"
      /\ role[c][r].pc = "work"
  BY DEF Work, Typed
<1>2. s \in Seq(Candidate) /\ Len(s) \in Nat /\ role[c][r] \in RoleState
  BY TypedRole
<1> HIDE DEF tile
<1>3. took'[c][r] = Append(s, tile)
  BY <1>1 DEF Typed
<1>4. /\ Len(Append(s, tile)) = Len(s) + 1 /\ Append(s, tile)[Len(s) + 1] = tile
      /\ \A i \in 1 .. Len(s) : Append(s, tile)[i] = s[i]
  BY <1>2
<1>5. \A d \in Grid, q \in Roles : (d # c \/ q # r) => role'[d][q] = role[d][q] /\ took'[d][q] = took[d][q]
  BY <1>1 DEF Typed
<1>6. role'[c][r] = [role[c][r] EXCEPT !.pc = "next"]
  BY <1>1 DEF Typed
<1>7. /\ role'[c][r].pc = "next" /\ role'[c][r].at = role[c][r].at
      /\ role'[c][r].seen = role[c][r].seen /\ role'[c][r].next = role[c][r].next
  BY <1>2, <1>6 DEF RoleState
<1> QED BY <1>1, <1>2, <1>3, <1>4, <1>5, <1>7 DEF tile

LEMMA AdvanceEffect ==
    ASSUME Typed, NEW c \in Grid, NEW r \in Roles, Advance(c, r)
    PROVE  /\ launch' = launch /\ cta' = cta /\ sched' = sched /\ clc' = clc /\ took' = took
           /\ cta[c] = "running" /\ launch.mode # "clc" /\ role[c][r].pc = "next"
           /\ role'[c][r].next = role[c][r].next + GridX
           /\ role'[c][r].pc = IF launch.mode = "static" /\ role'[c][r].next < TotalBlocks
                               THEN "work" ELSE "out"
           /\ \A d \in Grid, q \in Roles : (d # c \/ q # r) => role'[d][q] = role[d][q]
<1>1. role[c][r] \in RoleState
  BY TypedRole
<1>2. /\ \A d \in Grid, q \in Roles : (d # c \/ q # r) => role'[d][q] = role[d][q]
      /\ role'[c][r] = [role[c][r] EXCEPT !.next = role[c][r].next + GridX,
            !.pc = IF launch.mode = "static" /\ role[c][r].next + GridX < TotalBlocks THEN "work" ELSE "out"]
  BY DEF Advance, Typed
<1>3. /\ role'[c][r].next = role[c][r].next + GridX
      /\ role'[c][r].pc = IF launch.mode = "static" /\ role[c][r].next + GridX < TotalBlocks
                          THEN "work" ELSE "out"
  BY <1>1, <1>2 DEF RoleState
<1> QED BY <1>2, <1>3 DEF Advance

LEMMA ConsumeEffect ==
    ASSUME Typed, NEW c \in Grid, NEW r \in Roles, Consume(c, r)
    PROVE  /\ launch' = launch /\ cta' = cta /\ sched' = sched /\ clc' = clc /\ took' = took
           /\ cta[c] = "running" /\ launch.mode = "clc" /\ role[c][r].pc = "next"
           /\ clc[c].answers > role[c][r].seen
           /\ role'[c][r].at = clc[c].at /\ role'[c][r].seen = role[c][r].seen + 1
           /\ role'[c][r].pc = IF clc[c].at = NoTile THEN "out" ELSE "work"
           /\ \A d \in Grid, q \in Roles : (d # c \/ q # r) => role'[d][q] = role[d][q]
<1>1. role[c][r] \in RoleState
  BY TypedRole
<1>2. /\ \A d \in Grid, q \in Roles : (d # c \/ q # r) => role'[d][q] = role[d][q]
      /\ role'[c][r] = [role[c][r] EXCEPT !.at = clc[c].at, !.seen = role[c][r].seen + 1,
                                          !.pc = IF clc[c].at = NoTile THEN "out" ELSE "work"]
  BY DEF Consume, Typed
<1>3. /\ role'[c][r].at = clc[c].at /\ role'[c][r].seen = role[c][r].seen + 1
      /\ role'[c][r].pc = IF clc[c].at = NoTile THEN "out" ELSE "work"
  BY <1>1, <1>2 DEF RoleState
<1> QED BY <1>2, <1>3 DEF Consume

LEMMA AnswerEffect ==
    ASSUME Typed, CtaTyped, NEW c \in Grid, Answer(c)
    PROVE  /\ launch' = launch /\ role' = role /\ sched' = sched /\ took' = took
           /\ clc[c].answers < clc[c].queries
           /\ \A d \in Grid : d # c => clc'[d] = clc[d]
           /\ clc'[c].queries = clc[c].queries /\ clc'[c].answers = clc[c].answers + 1
           /\ \/ clc'[c].at = NoTile /\ cta' = cta
              \/ \E d \in Grid : /\ cta[d] = "pending" /\ clc'[c].at = d
                                 /\ cta' = [cta EXCEPT ![d] = "cancelled"]
<1>1. clc \in [Grid -> [queries : Nat, answers : Nat, at : Grid \cup {NoTile}]]
  BY DEF Typed
<1>2. CASE \E d \in Grid : /\ cta[d] = "pending" /\ cta' = [cta EXCEPT ![d] = "cancelled"]
                           /\ clc' = [clc EXCEPT ![c].answers = @ + 1, ![c].at = d]
  <2>1. PICK d \in Grid : /\ cta[d] = "pending" /\ cta' = [cta EXCEPT ![d] = "cancelled"]
                         /\ clc' = [clc EXCEPT ![c].answers = @ + 1, ![c].at = d]
    BY <1>2
  <2>2. clc'[c].queries = clc[c].queries /\ clc'[c].answers = clc[c].answers + 1 /\ clc'[c].at = d
    BY <1>1, <2>1
  <2>3. \A e \in Grid : e # c => clc'[e] = clc[e]
    BY <1>1, <2>1
  <2> QED BY <2>1, <2>2, <2>3 DEF Answer
<1>3. CASE clc' = [clc EXCEPT ![c].answers = @ + 1, ![c].at = NoTile] /\ cta' = cta
  BY <1>1, <1>3 DEF Answer
<1> QED BY <1>2, <1>3 DEF Answer

LEMMA QueryEffect ==
    ASSUME Typed, CtaTyped, NEW c \in Grid, Query(c)
    PROVE  /\ launch' = launch /\ cta' = cta /\ role' = role /\ took' = took
           /\ launch.mode = "clc" /\ cta[c] = "running" /\ sched[c].pc = "acquire"
           /\ \A d \in Grid : d # c => clc'[d] = clc[d] /\ sched'[d] = sched[d]
           /\ clc'[c].queries = clc[c].queries + 1 /\ clc'[c].answers = clc[c].answers
           /\ clc'[c].at = clc[c].at /\ sched'[c].pc = "next" /\ sched'[c].seen = sched[c].seen
           /\ CtaTyped'
<1>1. /\ clc \in [Grid -> [queries : Nat, answers : Nat, at : Grid \cup {NoTile}]]
      /\ sched \in [Grid -> [pc : {"acquire", "next", "tail", "out"}, seen : Nat]]
  BY DEF Typed, CtaTyped
<1>2. Grid' = Grid
  BY LaunchIsFixed DEF Query
<1> QED BY <1>1, <1>2 DEF Query, CtaTyped

LEMMA SchedEffect ==
    ASSUME Typed, CtaTyped, NEW c \in Grid, SchedConsume(c) \/ SchedTail(c)
    PROVE  /\ launch' = launch /\ cta' = cta /\ role' = role /\ took' = took /\ clc' = clc
           /\ \A d \in Grid : d # c => sched'[d] = sched[d]
           /\ \/ /\ sched[c].pc = "next" /\ clc[c].answers > sched[c].seen
                 /\ sched'[c].seen = sched[c].seen + 1
                 /\ sched'[c].pc = IF clc[c].at = NoTile THEN "tail" ELSE "acquire"
              \/ /\ sched[c].pc = "tail" /\ sched'[c].pc = "out" /\ sched'[c].seen = sched[c].seen
           /\ CtaTyped'
<1>1. sched \in [Grid -> [pc : {"acquire", "next", "tail", "out"}, seen : Nat]] /\ sched[c].seen \in Nat
  BY DEF CtaTyped
<1>2. Grid' = Grid
  BY LaunchIsFixed DEF SchedConsume, SchedTail
<1>3. CASE SchedConsume(c)
  BY <1>1, <1>2, <1>3 DEF SchedConsume, CtaTyped
<1>4. CASE SchedTail(c)
  BY <1>1, <1>2, <1>4 DEF SchedTail, CtaTyped
<1> QED BY <1>3, <1>4


-----------------------------------------------------------------------------

\* What was given stays given while answers and cancelled CTAs stay.
LEMMA GivenStays ==
    ASSUME launch' = launch, NEW c \in Grid, clc'[c].answers = clc[c].answers, clc'[c].at = clc[c].at,
           NEW own \in [Grid -> Seq(Grid)], \A d \in Grid : cta[d] = "cancelled" => cta'[d] = "cancelled"
    PROVE  Hopeful(c)' = Hopeful(c) /\ (Given(own, c) => Given(own, c)')
<1>1. Hopeful(c)' = Hopeful(c)
  BY DEF Hopeful
<1>2. \A i \in 2 .. Len(own[c]) : own[c][i] \in Grid
  <2>1. own[c] \in Seq(Grid)
    OBVIOUS
  <2>2. 2 .. Len(own[c]) \subseteq 1 .. Len(own[c])
    BY <2>1
  <2> QED BY <2>1, <2>2
<1> QED BY <1>1, <1>2 DEF Given

\* A step of one role: what it must show.
LEMMA RoleStepShares ==
    ASSUME ShareInv, AgreeInv', NEW c \in Grid, NEW r \in Roles,
           launch' = launch, cta' = cta, sched' = sched, clc' = clc, cta[c] = "running",
           \A d \in Grid, q \in Roles : (d # c \/ q # r) =>
              role'[d][q] = role[d][q] /\ took'[d][q] = took[d][q],
           RoleOK(c, r)', launch.mode = "clc" => Out(c, r)',
           launch.mode = "clc" => \A own \in [Grid -> Seq(Grid)] : Owns(own) => InHand(own, c, r)'
    PROVE  ShareInv'
<1>1. Grid' = Grid /\ GridX' = GridX /\ TotalBlocks' = TotalBlocks /\ \A a : GridTile(a)' = GridTile(a)
  BY LaunchIsFixed DEF TotalBlocks, BaseBlocks
<1>2. CtaTyped'
  BY <1>1 DEF ShareInv, CtaTyped
<1>3. ASSUME NEW d \in Grid PROVE CtaOK(d)' /\ Started(d)' = Started(d) /\ Hopeful(d)' = Hopeful(d)
  <2>1. CtaOK(d)
    BY DEF ShareInv
  <2>2. cta[d] = "exited" => \A q \in Roles : role'[d][q] = role[d][q]
    OBVIOUS
  <2> QED BY <2>1, <2>2 DEF CtaOK, Started, Hopeful
<1>4. ASSUME NEW d \in Grid, NEW q \in Roles PROVE RoleOK(d, q)'
  <2>1. CASE d # c \/ q # r
    BY <1>1, <1>3, <2>1 DEF ShareInv, RoleOK
  <2>2. CASE d = c /\ q = r
    BY <2>2
  <2> QED BY <2>1, <2>2
<1>5. ASSUME launch.mode = "clc", NEW d \in Grid PROVE SchedOK(d)'
  BY <1>3, <1>5 DEF ShareInv, SchedOK
<1>6. ASSUME launch.mode = "clc", NEW d \in Grid, NEW q \in Roles PROVE Out(d, q)'
  <2>1. CASE d # c \/ q # r
    BY <1>3, <1>6, <2>1 DEF ShareInv, Out
  <2>2. CASE d = c /\ q = r
    BY <1>6, <2>2
  <2> QED BY <2>1, <2>2
<1>7. ASSUME launch.mode = "clc" PROVE \E own \in [Grid -> Seq(Grid)] : Owns(own)'
  <2>1. PICK own \in [Grid -> Seq(Grid)] : Owns(own)
    BY <1>7 DEF ShareInv
  <2>2. ASSUME NEW d \in Grid PROVE Given(own, d)'
    BY <2>1, GivenStays DEF Owns
  <2>3. ASSUME NEW d \in Grid, NEW q \in Roles PROVE InHand(own, d, q)'
    <3>1. CASE d # c \/ q # r
      <4>1. InHand(own, d, q) /\ role'[d][q] = role[d][q] /\ took'[d][q] = took[d][q]
        BY <2>1, <3>1 DEF Owns
      <4> QED BY <1>1, <4>1 DEF InHand
    <3>2. CASE d = c /\ q = r
      BY <1>7, <2>1, <3>2
    <3> QED BY <3>1, <3>2
  <2>4. Once(own)'
    BY <1>1, <2>1 DEF Owns, Once
  <2>5. ASSUME NEW d \in Grid, cta'[d] = "cancelled" PROVE GivenTo(own, d)'
    BY <1>1, <1>3, <2>1, <2>5 DEF Owns, GivenTo
  <2> QED BY <1>1, <2>1, <2>2, <2>3, <2>4, <2>5 DEF Owns
<1>8. launch'.mode = launch.mode
  OBVIOUS
<1> QED BY <1>1, <1>2, <1>3, <1>4, <1>5, <1>6, <1>7, <1>8 DEF ShareInv

LEMMA WorkShares ==
    ASSUME ShareInv, NEW c \in Grid, NEW r \in Roles, Work(c, r)
    PROVE  ShareInv'
<1> DEFINE me == role[c][r]
           len == Len(took[c][r])
<1>1. AgreeInv'
  BY WorkAgrees DEF ShareInv
<1>2. Typed /\ launch \in Launches /\ launch' = launch
  BY WorkEffect DEF ShareInv, AgreeInv, Typed
<1>3. /\ Grid' = Grid /\ GridX' = GridX /\ TotalBlocks' = TotalBlocks
      /\ \A a : GridTile(a)' = GridTile(a)
  BY <1>2, LaunchIsFixed DEF TotalBlocks, BaseBlocks
<1>4. /\ cta' = cta /\ sched' = sched /\ clc' = clc /\ cta[c] = "running"
      /\ me.pc = "work" /\ role'[c][r].pc = "next" /\ role'[c][r].at = me.at
      /\ Len(took'[c][r]) = len + 1 /\ len \in Nat
      /\ \A i \in 1 .. len : took'[c][r][i] = took[c][r][i]
      /\ launch.mode # "static" => took'[c][r][len + 1] = GridTile(me.at)
  BY <1>2, WorkEffect
<1>5. \A d \in Grid, q \in Roles : (d # c \/ q # r) => role'[d][q] = role[d][q] /\ took'[d][q] = took[d][q]
  BY <1>2, WorkEffect
<1>6. RoleOK(c, r)'
  <2>1. RoleOK(c, r) /\ FixedOrder(c, r)
    BY DEF ShareInv, AgreeInv
  <2>2. Started(c)'
    BY <1>4 DEF Started
  <2>3. ASSUME launch.mode = "static", NEW i \in 1 .. len + 1 PROVE c[1] + (i - 1) * GridX < TotalBlocks
    <3>1. CASE i \in 1 .. len
      BY <2>1, <2>3, <3>1 DEF RoleOK
    <3>2. CASE i = len + 1
      <4>1. me.next = c[1] + len * GridX /\ me.next < TotalBlocks
        BY <1>4, <2>1, <2>3 DEF RoleOK, FixedOrder
      <4>2. i - 1 = len
        BY <1>4, <3>2
      <4> QED BY <4>1, <4>2
    <3> QED BY <1>4, <3>1, <3>2
  <2> QED BY <1>2, <1>3, <1>4, <2>1, <2>2, <2>3 DEF RoleOK
<1>7. Out(c, r)'
  BY <1>4 DEF Out
<1>8. ASSUME launch.mode = "clc", NEW own \in [Grid -> Seq(Grid)], Owns(own) PROVE InHand(own, c, r)'
  <2>1. InHand(own, c, r) /\ Len(own[c]) \in Nat
    BY <1>8 DEF Owns
  <2>2. \A i \in 1 .. len + 1 : i \in 1 .. len \/ i = len + 1
    BY <1>4
  <2>3. len < Len(own[c]) /\ me.at = own[c][len + 1]
    BY <1>4, <2>1 DEF InHand
  <2>4. Len(took'[c][r]) <= Len(own[c])
    BY <1>4, <2>1, <2>3
  <2>5. ASSUME NEW i \in 1 .. Len(took'[c][r]) PROVE took'[c][r][i] = GridTile(own[c][i])
    <3>1. CASE i \in 1 .. len
      BY <1>4, <2>1, <3>1 DEF InHand
    <3>2. CASE i = len + 1
      BY <1>4, <1>8, <2>3, <3>2
    <3> QED BY <1>4, <2>2, <3>1, <3>2
  <2> QED BY <1>3, <1>4, <2>4, <2>5 DEF InHand
<1> QED BY <1>1, <1>2, <1>4, <1>5, <1>6, <1>7, <1>8, RoleStepShares

LEMMA AdvanceShares ==
    ASSUME ShareInv, NEW c \in Grid, NEW r \in Roles, Advance(c, r)
    PROVE  ShareInv'
<1> DEFINE len == Len(took[c][r])
<1>1. AgreeInv' /\ Typed /\ launch \in Launches
  BY AdvanceAgrees DEF ShareInv, AgreeInv, Typed
<1>2. /\ launch' = launch /\ cta' = cta /\ sched' = sched /\ clc' = clc /\ took' = took
      /\ cta[c] = "running" /\ launch.mode # "clc" /\ role[c][r].pc = "next"
      /\ role'[c][r].next = role[c][r].next + GridX
      /\ role'[c][r].pc = IF launch.mode = "static" /\ role'[c][r].next < TotalBlocks THEN "work" ELSE "out"
      /\ \A d \in Grid, q \in Roles : (d # c \/ q # r) => role'[d][q] = role[d][q]
  BY <1>1, AdvanceEffect
<1>3. Grid' = Grid /\ GridX' = GridX /\ TotalBlocks' = TotalBlocks
  BY <1>2, LaunchIsFixed DEF TotalBlocks, BaseBlocks
<1>4. RoleOK(c, r)'
  <2>1. RoleOK(c, r) /\ FixedOrder(c, r) /\ len \in Nat /\ role[c][r].next \in Int
    BY TypedRole DEF ShareInv, AgreeInv
  <2>2. TotalBlocks \in Int /\ GridX \in Int /\ c[1] \in Int
    BY <1>1, LaunchSizes, GridIsFinite
  <2>3. launch.mode = "static" => role'[c][r].next = c[1] + len * GridX
    <3>1. launch.mode = "static" => role[c][r].next = c[1] + (len - 1) * GridX
      BY <1>2, <2>1 DEF FixedOrder
    <3>2. (len - 1) * GridX + GridX = len * GridX
      BY <2>1, <2>2, Z3
    <3>3. (len - 1) * GridX \in Int
      BY <2>1, <2>2
    <3>4. len * GridX \in Int
      BY <2>1, <2>2
    <3> HIDE DEF len
    <3> QED BY <1>2, <2>2, <3>1, <3>2, <3>3, <3>4, Z3
  <2>4. role'[c][r].next \in Int
    BY <1>2, <2>1, <2>2
  <2>5. Started(c)'
    BY <1>2 DEF Started
  <2>6. role'[c][r].pc # "next"
    BY <1>2
  <2>7. launch.mode = "single" => len = 1 /\ role'[c][r].pc = "out"
    BY <1>2, <2>1 DEF RoleOK
  <2>8. launch.mode = "static" =>
          /\ role'[c][r].pc = "work" => role'[c][r].next < TotalBlocks
          /\ role'[c][r].pc = "out" => role'[c][r].next >= TotalBlocks
    BY <1>2, <2>2, <2>4
  <2>9. launch.mode = "static" => \A i \in 1 .. len : c[1] + (i - 1) * GridX < TotalBlocks
    BY <2>1 DEF RoleOK
  <2> QED BY <1>2, <1>3, <2>3, <2>5, <2>7, <2>8, <2>9 DEF RoleOK
<1> QED BY <1>1, <1>2, <1>4, RoleStepShares

LEMMA ConsumeShares ==
    ASSUME ShareInv, NEW c \in Grid, NEW r \in Roles, Consume(c, r)
    PROVE  ShareInv'
<1> DEFINE len == Len(took[c][r])
<1>1. AgreeInv' /\ Typed
  BY ConsumeAgrees DEF ShareInv, AgreeInv
<1>2. /\ launch' = launch /\ cta' = cta /\ sched' = sched /\ clc' = clc /\ took' = took
      /\ cta[c] = "running" /\ launch.mode = "clc" /\ role[c][r].pc = "next"
      /\ clc[c].answers > role[c][r].seen
      /\ role'[c][r].at = clc[c].at /\ role'[c][r].seen = role[c][r].seen + 1
      /\ role'[c][r].pc = IF clc[c].at = NoTile THEN "out" ELSE "work"
      /\ \A d \in Grid, q \in Roles : (d # c \/ q # r) => role'[d][q] = role[d][q]
  BY <1>1, ConsumeEffect
<1>3. InTurn(c, r) /\ clc[c].answers \in Nat /\ role[c][r].seen \in Nat /\ len \in Nat
  BY <1>1, <1>2, TypedRole DEF ShareInv, AgreeInv, Typed
<1>4. role[c][r].seen + 1 = clc[c].answers /\ len = clc[c].answers /\ clc[c].answers # 0
  <2>1. clc[c].answers - 1 <= role[c][r].seen /\ len = role[c][r].seen + 1
    BY <1>2, <1>3 DEF InTurn
  <2> HIDE DEF len
  <2> QED BY <1>2, <1>3, <2>1
<1>5. RoleOK(c, r)'
  BY <1>2 DEF ShareInv, RoleOK, Started
<1>6. Out(c, r)'
  BY <1>2, <1>4 DEF Out, Hopeful
<1>7. ASSUME NEW own \in [Grid -> Seq(Grid)], Owns(own) PROVE InHand(own, c, r)'
  <2>1. InHand(own, c, r) /\ Given(own, c)
    BY <1>7 DEF Owns
  <2>2. \A a : GridTile(a)' = GridTile(a)
    BY <1>2, LaunchIsFixed
  <2>3. clc[c].at # NoTile => Len(own[c]) = len + 1 /\ own[c][len + 1] = clc[c].at
    BY <1>3, <1>4, <2>1 DEF Given, Hopeful
  <2> QED BY <1>2, <1>3, <2>1, <2>2, <2>3 DEF InHand
<1> QED BY <1>1, <1>2, <1>5, <1>6, <1>7, RoleStepShares

\* A step that no role and no list of coordinates can see.
LEMMA OtherStepShares ==
    ASSUME ShareInv, AgreeInv', launch' = launch, role' = role, took' = took, CtaTyped',
           \A d \in Grid : /\ clc'[d].answers = clc[d].answers /\ clc'[d].at = clc[d].at
                           /\ CtaOK(d)' /\ (cta[d] = "cancelled" <=> cta'[d] = "cancelled")
                           /\ (Started(d) => Started(d)'),
           launch.mode = "clc" => \A d \in Grid : SchedOK(d)'
    PROVE  ShareInv'
<1>1. Grid' = Grid /\ GridX' = GridX /\ TotalBlocks' = TotalBlocks /\ \A a : GridTile(a)' = GridTile(a)
  BY LaunchIsFixed DEF TotalBlocks, BaseBlocks
<1>2. ASSUME NEW d \in Grid, NEW q \in Roles PROVE RoleOK(d, q)'
  BY <1>1 DEF ShareInv, RoleOK
<1>3. ASSUME launch.mode = "clc", NEW d \in Grid, NEW q \in Roles PROVE Out(d, q)'
  BY <1>3 DEF ShareInv, Out, Hopeful
<1>4. ASSUME launch.mode = "clc" PROVE \E own \in [Grid -> Seq(Grid)] : Owns(own)'
  <2>1. PICK own \in [Grid -> Seq(Grid)] : Owns(own)
    BY <1>4 DEF ShareInv
  <2>2. ASSUME NEW d \in Grid PROVE Given(own, d)'
    BY <2>1, GivenStays DEF Owns
  <2>3. ASSUME NEW d \in Grid, NEW q \in Roles PROVE InHand(own, d, q)'
    BY <1>1, <2>1 DEF Owns, InHand
  <2>4. Once(own)'
    BY <1>1, <2>1 DEF Owns, Once
  <2>5. ASSUME NEW d \in Grid, cta'[d] = "cancelled" PROVE GivenTo(own, d)'
    BY <1>1, <2>1, <2>5 DEF Owns, GivenTo
  <2> QED BY <1>1, <2>1, <2>2, <2>3, <2>4, <2>5 DEF Owns
<1> QED BY <1>1, <1>2, <1>3, <1>4 DEF ShareInv

LEMMA StartShares ==
    ASSUME ShareInv, NEW c \in Grid, Start(c) \/ Exit(c)
    PROVE  ShareInv'
<1>1. AgreeInv' /\ launch' = launch /\ role' = role /\ took' = took /\ clc' = clc /\ sched' = sched
  BY UnseenStep DEF Start, Exit, ShareInv
<1>2. Grid' = Grid
  BY <1>1, LaunchIsFixed
<1>3. CtaTyped /\ CtaTyped'
  BY <1>1, <1>2 DEF ShareInv, CtaTyped, Start, Exit
<1>4. /\ \A d \in Grid : d # c => cta'[d] = cta[d]
      /\ \/ cta[c] = "pending" /\ cta'[c] = "running"
         \/ cta[c] = "running" /\ cta'[c] = "exited" /\ \A r \in Roles : role[c][r].pc = "out"
  BY <1>3 DEF CtaTyped, Start, Exit
<1>5. ASSUME NEW d \in Grid
      PROVE  /\ CtaOK(d)' /\ (cta[d] = "cancelled" <=> cta'[d] = "cancelled")
             /\ (Started(d) => Started(d)')
  BY <1>1, <1>4 DEF ShareInv, CtaOK, Started
<1>6. ASSUME launch.mode = "clc", NEW d \in Grid PROVE SchedOK(d)'
  BY <1>1, <1>6 DEF ShareInv, SchedOK, Hopeful
<1> QED BY <1>1, <1>3, <1>5, <1>6, OtherStepShares

LEMMA SchedShares ==
    ASSUME ShareInv, NEW c \in Grid, Scheduler(c)
    PROVE  ShareInv'
<1>1. Typed /\ CtaTyped /\ clc[c].queries \in Nat /\ clc[c].answers \in Nat /\ sched[c].seen \in Nat
  BY DEF ShareInv, AgreeInv, Typed, CtaTyped
<1>2. CASE Query(c)
  <2>1. AgreeInv'
    BY <1>2, QueryAgrees DEF ShareInv
  <2>2. /\ launch' = launch /\ cta' = cta /\ role' = role /\ took' = took
        /\ launch.mode = "clc" /\ cta[c] = "running" /\ sched[c].pc = "acquire"
        /\ \A d \in Grid : d # c => clc'[d] = clc[d] /\ sched'[d] = sched[d]
        /\ clc'[c].queries = clc[c].queries + 1 /\ clc'[c].answers = clc[c].answers
        /\ clc'[c].at = clc[c].at /\ sched'[c].pc = "next" /\ sched'[c].seen = sched[c].seen
        /\ CtaTyped'
    BY <1>1, <1>2, QueryEffect
  <2>3. ASSUME NEW d \in Grid PROVE CtaOK(d)' /\ (Started(d) => Started(d)')
    <3>1. CtaOK(d) /\ CtaOK(c) /\ Started(c) /\ (Started(d)' <=> Started(d))
      BY <2>2 DEF ShareInv, Started
    <3>2. CASE d # c
      BY <2>2, <3>1, <3>2 DEF CtaOK
    <3>3. CASE d = c
      BY <1>1, <2>2, <3>1, <3>3 DEF CtaOK
    <3> QED BY <3>1, <3>2, <3>3
  <2>4. ASSUME NEW d \in Grid PROVE SchedOK(d)'
    <3>1. SchedOK(d)
      BY <2>2 DEF ShareInv
    <3> QED BY <1>1, <2>2, <3>1 DEF SchedOK, Hopeful
  <2> QED BY <2>1, <2>2, <2>3, <2>4, OtherStepShares
<1>3. CASE SchedConsume(c) \/ SchedTail(c)
  <2>1. AgreeInv'
    BY <1>3, UnseenStep DEF ShareInv, SchedConsume, SchedTail
  <2>2. /\ launch' = launch /\ cta' = cta /\ role' = role /\ took' = took /\ clc' = clc
        /\ \A d \in Grid : d # c => sched'[d] = sched[d]
        /\ \/ /\ sched[c].pc = "next" /\ clc[c].answers > sched[c].seen
              /\ sched'[c].seen = sched[c].seen + 1
              /\ sched'[c].pc = IF clc[c].at = NoTile THEN "tail" ELSE "acquire"
           \/ /\ sched[c].pc = "tail" /\ sched'[c].pc = "out" /\ sched'[c].seen = sched[c].seen
        /\ CtaTyped'
    BY <1>1, <1>3, SchedEffect
  <2>3. ASSUME NEW d \in Grid PROVE CtaOK(d)' /\ (Started(d) => Started(d)')
    BY <2>2 DEF ShareInv, CtaOK, Started
  <2>4. ASSUME launch.mode = "clc", NEW d \in Grid PROVE SchedOK(d)'
    <3>1. SchedOK(d) /\ SchedOK(c) /\ clc[c].answers <= clc[c].queries
      BY <2>4 DEF ShareInv, CtaOK
    <3> QED BY <1>1, <2>2, <3>1 DEF SchedOK, Hopeful
  <2> QED BY <2>1, <2>2, <2>3, <2>4, OtherStepShares
<1> QED BY <1>2, <1>3 DEF Scheduler


\* An answer gives the CTA that asked a coordinate nobody has, or ends its hope.
LEMMA AnswerShares ==
    ASSUME ShareInv, NEW c \in Grid, Answer(c)
    PROVE  ShareInv'
<1>1. AgreeInv' /\ Typed /\ CtaTyped
  BY AnswerAgrees DEF ShareInv, AgreeInv
<1>2. /\ launch' = launch /\ role' = role /\ sched' = sched /\ took' = took
      /\ clc[c].answers < clc[c].queries
      /\ \A d \in Grid : d # c => clc'[d] = clc[d]
      /\ clc'[c].queries = clc[c].queries /\ clc'[c].answers = clc[c].answers + 1
  BY <1>1, AnswerEffect
<1>3. /\ Grid' = Grid /\ GridX' = GridX /\ TotalBlocks' = TotalBlocks
      /\ \A a : GridTile(a)' = GridTile(a)
  BY <1>2, LaunchIsFixed DEF TotalBlocks, BaseBlocks
<1>4. clc[c].queries \in Nat /\ clc[c].answers \in Nat /\ sched[c].seen \in Nat
  BY <1>1 DEF Typed, CtaTyped
<1>5. launch.mode = "clc" /\ Started(c)
  BY <1>2, <1>4 DEF ShareInv, CtaOK
<1>6. /\ sched[c].pc = "next" /\ clc[c].queries = sched[c].seen + 1
      /\ clc[c].answers = sched[c].seen /\ Hopeful(c)
  <2>1. SchedOK(c) /\ clc[c].answers <= clc[c].queries
    BY <1>5 DEF ShareInv, CtaOK
  <2>2. InTurn(c, CHOOSE r \in Roles : TRUE)
    BY <1>5, RolesAssumption DEF ShareInv, AgreeInv
  <2> QED BY <1>2, <1>4, <2>1, <2>2 DEF SchedOK, InTurn
<1>7. \A d \in Grid : d # c => Hopeful(d)' = Hopeful(d)
  BY <1>2 DEF Hopeful
<1>8. ASSUME NEW d \in Grid PROVE SchedOK(d)'
  <2>1. SchedOK(d)
    BY <1>5 DEF ShareInv
  <2>2. CASE d # c
    BY <1>2, <1>7, <2>1, <2>2 DEF SchedOK
  <2>3. CASE d = c
    BY <1>2, <1>4, <1>6, <2>3 DEF SchedOK
  <2> QED BY <2>2, <2>3
<1>9. ASSUME NEW d \in Grid, NEW q \in Roles PROVE Out(d, q)'
  <2>1. Out(d, q)
    BY <1>5 DEF ShareInv
  <2>2. CASE d # c
    BY <1>2, <1>7, <2>1, <2>2 DEF Out
  <2>3. CASE d = c
    BY <1>2, <1>6, <2>1, <2>3 DEF Out
  <2> QED BY <2>2, <2>3
<1>10. PICK own \in [Grid -> Seq(Grid)] : Owns(own)
  BY <1>5 DEF ShareInv
<1>11. \A d \in Grid : own[d] \in Seq(Grid) /\ Len(own[d]) \in Nat
                       /\ \A i \in 2 .. Len(own[d]) : own[d][i] \in Grid /\ cta[own[d][i]] = "cancelled"
  <2> SUFFICES ASSUME NEW d \in Grid
               PROVE  own[d] \in Seq(Grid) /\ Len(own[d]) \in Nat
                      /\ \A i \in 2 .. Len(own[d]) : own[d][i] \in Grid /\ cta[own[d][i]] = "cancelled"
    OBVIOUS
  <2>1. own[d] \in Seq(Grid) /\ Len(own[d]) \in Nat
    OBVIOUS
  <2>2. \A i \in 2 .. Len(own[d]) : i \in 1 .. Len(own[d])
    BY <2>1
  <2>3. Given(own, d)
    BY <1>10 DEF Owns
  <2> QED BY <2>1, <2>2, <2>3 DEF Given
<1>12. CASE clc'[c].at = NoTile /\ cta' = cta
  <2>1. ~Hopeful(c)' /\ \A d \in Grid : Started(d)' = Started(d)
    BY <1>2, <1>4, <1>12 DEF Hopeful, Started
  <2>2. CtaTyped'
    BY <1>1, <1>2, <1>3, <1>12 DEF CtaTyped
  <2>3. ASSUME NEW d \in Grid PROVE CtaOK(d)'
    <3>1. CtaOK(d)
      BY DEF ShareInv
    <3>2. CASE d = c
      BY <1>2, <1>4, <1>5, <1>12, <2>1, <3>1, <3>2 DEF CtaOK
    <3>3. CASE d # c
      BY <1>2, <1>5, <1>12, <2>1, <3>1, <3>3 DEF CtaOK
    <3> QED BY <3>2, <3>3
  <2>4. ASSUME NEW d \in Grid, NEW q \in Roles PROVE RoleOK(d, q)'
    BY <1>2, <1>3, <2>1 DEF ShareInv, RoleOK
  <2>5. ASSUME NEW d \in Grid PROVE Given(own, d)'
    <3>1. Given(own, d)
      BY <1>10 DEF Owns
    <3>2. CASE d # c
      BY <1>2, <1>7, <1>12, <3>1, <3>2 DEF Given
    <3>3. CASE d = c
      BY <1>2, <1>6, <1>12, <2>1, <3>1, <3>3 DEF Given
    <3> QED BY <3>2, <3>3
  <2>6. ASSUME NEW d \in Grid, NEW q \in Roles PROVE InHand(own, d, q)'
    BY <1>2, <1>3, <1>10 DEF Owns, InHand
  <2>7. Once(own)' /\ \A d \in Grid : cta'[d] = "cancelled" => GivenTo(own, d)'
    BY <1>3, <1>10, <1>12, <2>1 DEF Owns, Once, GivenTo
  <2>8. Owns(own)'
    BY <1>3, <2>5, <2>6, <2>7 DEF Owns
  <2> QED BY <1>1, <1>2, <1>3, <1>8, <1>9, <2>2, <2>3, <2>4, <2>8 DEF ShareInv
<1>13. CASE \E d \in Grid : cta[d] = "pending" /\ clc'[c].at = d /\ cta' = [cta EXCEPT ![d] = "cancelled"]
  <2>1. PICK d \in Grid : cta[d] = "pending" /\ clc'[c].at = d /\ cta' = [cta EXCEPT ![d] = "cancelled"]
    BY <1>13
  <2>2. /\ \A e \in Grid : e # d => cta'[e] = cta[e]
        /\ cta'[d] = "cancelled" /\ cta[d] # "cancelled" /\ d # c
        /\ \A e \in Grid : cta[e] = "cancelled" => cta'[e] = "cancelled"
    BY <1>1, <1>5, <2>1 DEF CtaTyped, Started
  <2>3. \A e \in Grid : Started(e)' = Started(e)
    BY <2>1, <2>2 DEF Started
  <2>4. d # NoTile
    <3>1. \E x \in Int, y \in Int, z \in Int : d = <<x, y, z>>
      BY <1>1, CoordinateIsTriple DEF Typed
    <3> QED BY <3>1 DEF NoTile
  <2>5. Hopeful(c)' /\ clc'[c].at = d
    BY <2>1, <2>4 DEF Hopeful
  <2>6. CtaTyped'
    BY <1>1, <1>2, <1>3, <2>1 DEF CtaTyped
  <2>7. ASSUME NEW e \in Grid PROVE CtaOK(e)'
    <3>1. CtaOK(e)
      BY DEF ShareInv
    <3>2. CASE e = c
      BY <1>2, <1>4, <1>5, <2>2, <2>3, <3>1, <3>2 DEF CtaOK
    <3>3. CASE e # c
      BY <1>2, <1>5, <2>2, <2>3, <3>1, <3>3 DEF CtaOK
    <3> QED BY <3>2, <3>3
  <2>8. ASSUME NEW e \in Grid, NEW q \in Roles PROVE RoleOK(e, q)'
    BY <1>2, <1>3, <2>3 DEF ShareInv, RoleOK
  <2> DEFINE more == Append(own[c], d)
             new == [own EXCEPT ![c] = more]
  <2>9. /\ more \in Seq(Grid) /\ Len(more) = Len(own[c]) + 1 /\ more[Len(own[c]) + 1] = d
        /\ \A i \in 1 .. Len(own[c]) : more[i] = own[c][i]
    BY <1>11
  <2>10. /\ new \in [Grid -> Seq(Grid)] /\ new[c] = more /\ \A e \in Grid : e # c => new[e] = own[e]
    BY <2>9
  <2> HIDE DEF more, new
  <2>11. /\ \A e \in Grid : \A i \in 1 .. Len(own[e]) : i \in 1 .. Len(new[e]) /\ new[e][i] = own[e][i]
         /\ \A e \in Grid : Len(own[e]) <= Len(new[e])
         /\ Len(new[c]) = Len(own[c]) + 1 /\ new[c][Len(own[c]) + 1] = d
    <3>1. Len(new[c]) = Len(own[c]) + 1 /\ new[c][Len(own[c]) + 1] = d /\ Len(own[c]) \in Nat
      BY <1>11, <2>9, <2>10
    <3>2. ASSUME NEW e \in Grid
          PROVE  /\ Len(own[e]) <= Len(new[e])
                 /\ \A i \in 1 .. Len(own[e]) : i \in 1 .. Len(new[e]) /\ new[e][i] = own[e][i]
      <4>1. CASE e = c
        <5>1. \A i \in 1 .. Len(own[c]) : new[c][i] = own[c][i]
          BY <2>9, <2>10
        <5> QED BY <3>1, <4>1, <5>1
      <4>2. CASE e # c
        <5>1. new[e] = own[e] /\ Len(own[e]) \in Nat
          BY <1>11, <2>10, <4>2
        <5> QED BY <5>1
      <4> QED BY <4>1, <4>2
    <3> QED BY <3>1, <3>2
  <2>12. /\ own[c] # <<>> /\ own[c][1] = c /\ Len(own[c]) = clc[c].answers + 1
    BY <1>6, <1>10 DEF Owns, Given
  <2>13. ASSUME NEW e \in Grid PROVE Given(new, e)'
    <3>1. Given(own, e)
      BY <1>10 DEF Owns
    <3>2. CASE e # c
      <4>1. new[e] = own[e] /\ clc'[e] = clc[e]
        BY <1>2, <2>10, <3>2
      <4>2. \A i \in 2 .. Len(own[e]) : cta'[own[e][i]] = "cancelled"
        BY <1>11, <2>2
      <4>3. Hopeful(e)' = Hopeful(e)
        BY <1>7, <3>2
      <4> QED BY <3>1, <4>1, <4>2, <4>3 DEF Given
    <3>3. CASE e = c
      <4>1. Len(new[c]) = clc'[c].answers + 1 /\ new[c][clc'[c].answers + 1] = clc'[c].at
        BY <1>2, <1>4, <2>5, <2>11, <2>12
      <4>2. new[c] # <<>> /\ new[c][1] = c
        <5>1. 1 \in 1 .. Len(own[c]) /\ Len(new[c]) > 0
          <6>1. Len(own[c]) \in Nat /\ Len(own[c]) >= 1 /\ Len(new[c]) = Len(own[c]) + 1
            BY <1>4, <2>11, <2>12
          <6> QED BY <6>1
        <5>2. new[c] # <<>>
          BY <5>1
        <5> QED BY <2>11, <2>12, <5>1, <5>2
      <4>3. ASSUME NEW i \in 2 .. Len(new[c]) PROVE cta'[new[c][i]] = "cancelled"
        <5>1. CASE i = Len(own[c]) + 1
          BY <2>2, <2>11, <5>1
        <5>2. CASE i # Len(own[c]) + 1
          <6>1. i \in 2 .. Len(own[c]) /\ i \in 1 .. Len(own[c])
            BY <1>11, <2>11, <5>2
          <6>2. own[c][i] \in Grid /\ cta[own[c][i]] = "cancelled"
            BY <1>11, <6>1
          <6>3. new[c][i] = own[c][i]
            BY <2>11, <6>1
          <6> QED BY <2>2, <6>2, <6>3
        <5> QED BY <5>1, <5>2
      <4> QED BY <2>5, <3>3, <4>1, <4>2, <4>3 DEF Given
    <3> QED BY <3>2, <3>3
  <2>14. ASSUME NEW e \in Grid, NEW q \in Roles PROVE InHand(new, e, q)'
    <3>1. InHand(own, e, q) /\ Len(took[e][q]) \in Nat
      BY <1>1, <1>10, TypedRole DEF Owns
    <3> DEFINE len == Len(took[e][q])
    <3>2. len <= Len(new[e]) /\ \A i \in 1 .. len : i \in 1 .. Len(own[e]) /\ new[e][i] = own[e][i]
      BY <1>11, <2>11, <3>1 DEF InHand
    <3>3. len < Len(own[e]) => len < Len(new[e]) /\ new[e][len + 1] = own[e][len + 1]
      <4> SUFFICES ASSUME len < Len(own[e]) PROVE len < Len(new[e]) /\ new[e][len + 1] = own[e][len + 1]
        OBVIOUS
      <4>1. len + 1 \in 1 .. Len(own[e]) /\ Len(new[e]) \in Nat
        <5>1. Len(new[e]) \in Nat
          BY <2>10
        <5>2. Len(own[e]) \in Nat
          BY <1>11
        <5>3. len \in Nat /\ len < Len(own[e])
          BY <3>1
        <5> HIDE DEF len
        <5> QED BY <5>1, <5>2, <5>3
      <4>2. len + 1 \in 1 .. Len(new[e]) /\ new[e][len + 1] = own[e][len + 1]
        BY <2>11, <4>1
      <4> QED BY <3>1, <4>1, <4>2
    <3> QED BY <1>2, <1>3, <3>1, <3>2, <3>3 DEF InHand
  <2>15. \A e \in Grid : \A i \in 2 .. Len(new[e]) :
            \/ i \in 2 .. Len(own[e]) /\ new[e][i] = own[e][i] /\ new[e][i] # d
            \/ e = c /\ i = Len(own[c]) + 1 /\ new[e][i] = d
    <3> SUFFICES ASSUME NEW e \in Grid, NEW i \in 2 .. Len(new[e])
                 PROVE  \/ i \in 2 .. Len(own[e]) /\ new[e][i] = own[e][i] /\ new[e][i] # d
                        \/ e = c /\ i = Len(own[c]) + 1 /\ new[e][i] = d
      OBVIOUS
    <3>1. CASE i \in 2 .. Len(own[e])
      <4>1. i \in 1 .. Len(own[e])
        BY <1>11, <3>1
      <4> QED BY <1>11, <2>2, <2>11, <3>1, <4>1
    <3>2. CASE i \notin 2 .. Len(own[e])
      <4>1. e = c
        BY <2>10, <3>2
      <4>2. i = Len(own[c]) + 1
        BY <1>11, <2>11, <3>2, <4>1
      <4> QED BY <2>11, <4>1, <4>2
    <3> QED BY <3>1, <3>2
  <2>16. Once(new)'
    <3> SUFFICES ASSUME NEW e \in Grid, NEW f \in Grid, NEW i \in 2 .. Len(new[e]), NEW j \in 2 .. Len(new[f]),
                        new[e][i] = new[f][j]
                 PROVE  e = f /\ i = j
      BY <1>3 DEF Once
    <3>1. CASE new[e][i] = d
      BY <2>15, <3>1
    <3>2. CASE new[e][i] # d
      <4>1. i \in 2 .. Len(own[e]) /\ j \in 2 .. Len(own[f]) /\ own[e][i] = own[f][j]
        BY <2>15, <3>2
      <4> QED BY <1>10, <4>1 DEF Owns, Once
    <3> QED BY <3>1, <3>2
  <2>17. ASSUME NEW e \in Grid, cta'[e] = "cancelled" PROVE GivenTo(new, e)'
    <3>1. CASE e = d
      <4>1. Len(own[c]) + 1 \in 2 .. Len(new[c])
        <5>1. Len(own[c]) \in Nat /\ Len(own[c]) >= 1 /\ Len(new[c]) = Len(own[c]) + 1
          BY <1>4, <2>11, <2>12
        <5> QED BY <5>1
      <4> QED BY <1>3, <1>5, <2>3, <2>11, <3>1, <4>1 DEF GivenTo
    <3>2. CASE e # d
      <4>1. PICK f \in Grid : Started(f) /\ \E i \in 2 .. Len(own[f]) : own[f][i] = e
        BY <1>10, <2>2, <2>17, <3>2 DEF Owns, GivenTo
      <4>2. PICK i \in 2 .. Len(own[f]) : own[f][i] = e
        BY <4>1
      <4>3. i \in 1 .. Len(own[f]) /\ i \in 2 .. Len(new[f])
        <5>1. Len(own[f]) \in Nat /\ Len(new[f]) \in Nat /\ Len(own[f]) <= Len(new[f])
          BY <1>11, <2>10, <2>11
        <5> QED BY <5>1
      <4> QED BY <1>3, <2>3, <2>11, <4>1, <4>2, <4>3 DEF GivenTo
    <3> QED BY <3>1, <3>2
  <2>18. Owns(new)'
    BY <1>3, <2>13, <2>14, <2>16, <2>17 DEF Owns
  <2> QED BY <1>1, <1>2, <1>3, <1>8, <1>9, <2>6, <2>7, <2>8, <2>10, <2>18 DEF ShareInv
<1> QED BY <1>1, <1>12, <1>13, AnswerEffect

LEMMA InitShares == Init => ShareInv
<1> SUFFICES ASSUME Init PROVE ShareInv
  OBVIOUS
<1>1. AgreeInv /\ launch \in Launches
  BY InitAgrees DEF Init
<1>2. CtaTyped
  BY DEF Init, CtaTyped
<1>3. \A c \in Grid, r \in Roles : took[c][r] = <<>> /\ Len(took[c][r]) = 0
                                   /\ role[c][r].pc = "work" /\ role[c][r].at = c /\ role[c][r].next = c[1]
  BY DEF Init
<1>4. \A c \in Grid : /\ cta[c] = "pending" /\ clc[c].queries = 0 /\ clc[c].answers = 0
                      /\ sched[c].pc = "acquire" /\ sched[c].seen = 0
  BY DEF Init
<1>5. \A c \in Grid : CtaOK(c) /\ SchedOK(c) /\ Hopeful(c)
  BY <1>4 DEF CtaOK, SchedOK, Hopeful
<1>6. ASSUME NEW c \in Grid, NEW r \in Roles PROVE RoleOK(c, r) /\ Out(c, r)
  <2>1. launch.mode = "static" => c[1] < TotalBlocks
    <3> SUFFICES ASSUME launch.mode = "static" PROVE c[1] < TotalBlocks
      OBVIOUS
    <3>1. c[1] \in 0 .. GridX - 1 /\ GridX \in Nat /\ GridX <= TotalBlocks /\ TotalBlocks \in Nat
      BY <1>1, StaticGrid, LaunchSizes
    <3> QED BY <3>1
  <2> QED BY <1>3, <2>1 DEF RoleOK, Out
<1>7. \E own \in [Grid -> Seq(Grid)] : Owns(own)
  <2> DEFINE own == [c \in Grid |-> <<c>>]
  <2>1. own \in [Grid -> Seq(Grid)] /\ \A c \in Grid : own[c] = <<c>> /\ Len(own[c]) = 1 /\ own[c][1] = c
    OBVIOUS
  <2> HIDE DEF own
  <2>2. ASSUME NEW c \in Grid PROVE Given(own, c)
    <3>1. own[c] # <<>>
      BY <2>1
    <3>2. \A i \in 2 .. Len(own[c]) : FALSE
      <4>1. Len(own[c]) = 1
        BY <2>1
      <4> QED BY <4>1
    <3> QED BY <1>4, <1>5, <2>1, <3>1, <3>2 DEF Given
  <2>3. ASSUME NEW c \in Grid, NEW r \in Roles PROVE InHand(own, c, r)
    <3>1. Len(took[c][r]) = 0 /\ role[c][r].at = c
      BY <1>3
    <3>2. \A i \in 1 .. Len(took[c][r]) : FALSE
      BY <3>1
    <3> QED BY <2>1, <3>1, <3>2 DEF InHand
  <2>4. Once(own) /\ \A d \in Grid : cta[d] = "cancelled" => GivenTo(own, d)
    BY <1>4, <2>1 DEF Once
  <2> QED BY <2>1, <2>2, <2>3, <2>4 DEF Owns
<1> QED BY <1>1, <1>2, <1>5, <1>6, <1>7 DEF ShareInv

LEMMA UnchangedShares ==
    ASSUME ShareInv, UNCHANGED vars
    PROVE  ShareInv'
<1>1. AgreeInv'
  BY NextAgrees DEF ShareInv
<1>2. launch' = launch /\ cta' = cta /\ role' = role /\ sched' = sched /\ clc' = clc /\ took' = took
  BY DEF vars
<1>3. Grid' = Grid
  BY <1>2, LaunchIsFixed
<1>4. CtaTyped'
  BY <1>2, <1>3 DEF ShareInv, CtaTyped
<1>5. ASSUME NEW d \in Grid PROVE CtaOK(d)' /\ (Started(d) => Started(d)')
  BY <1>2 DEF ShareInv, CtaOK, Started
<1>6. ASSUME launch.mode = "clc", NEW d \in Grid PROVE SchedOK(d)'
  BY <1>2, <1>6 DEF ShareInv, SchedOK, Hopeful
<1> QED BY <1>1, <1>2, <1>4, <1>5, <1>6, OtherStepShares

\* Who takes which tile is settled by the order of the answers.
LEMMA NextShares ==
    ASSUME ShareInv, [Next]_vars
    PROVE  ShareInv'
BY UnchangedShares, WorkShares, AdvanceShares, ConsumeShares, StartShares, SchedShares, AnswerShares
   DEF Next, Role, Terminating

LEMMA AlwaysShares == Spec => []ShareInv
<1>1. ShareInv /\ [Next]_vars => ShareInv'
  BY NextShares
<1> QED BY InitShares, <1>1, PTL DEF Spec

-----------------------------------------------------------------------------
(* What follows.                                                           *)

\* The index of a static grid's i-th turn on CTA c.
LEMMA StaticTurn ==
    ASSUME ShareInv, launch.mode = "static", NEW c \in Grid, NEW r \in Roles,
           NEW i \in 1 .. Len(took[c][r])
    PROVE  /\ c[1] \in 0 .. GridX - 1 /\ c = <<c[1], 0, 0>> /\ i - 1 \in Nat
           /\ GridX * (i - 1) + c[1] \in 0 .. TotalBlocks - 1
           /\ took[c][r][i] = StaticTile(GridX * (i - 1) + c[1])
<1>1. /\ Typed /\ Len(took[c][r]) \in Nat
      /\ GridX \in Nat \ {0} /\ TotalBlocks \in Nat /\ Grid = {<<x, 0, 0>> : x \in 0 .. GridX - 1}
  BY TypedRole, StaticGrid, LaunchSizes DEF ShareInv, AgreeInv, Typed
<1>2. c[1] \in 0 .. GridX - 1 /\ c = <<c[1], 0, 0>> /\ i - 1 \in Nat
  BY <1>1
<1>3. c[1] + (i - 1) * GridX < TotalBlocks /\ took[c][r][i] = StaticTile(c[1] + (i - 1) * GridX)
  BY DEF ShareInv, AgreeInv, RoleOK, FixedOrder
<1>4. c[1] + (i - 1) * GridX = GridX * (i - 1) + c[1] /\ GridX * (i - 1) + c[1] \in Nat
  <2> DEFINE x == c[1]
             k == i - 1
  <2>1. x \in Nat /\ k \in Nat
    BY <1>1, <1>2
  <2> HIDE DEF x, k
  <2>2. x + k * GridX = GridX * k + x /\ GridX * k + x \in Nat
    BY <1>1, <2>1, Z3
  <2> QED BY <2>2 DEF x, k
<1> QED BY <1>1, <1>2, <1>3, <1>4

\* The tile a role took is the one of a coordinate or index of its CTA: no other
\* CTA's role of the same kind took it, nor did this one at another time.
LEMMA TakenOnce ==
    ASSUME ShareInv, NEW r \in Roles, NEW c \in Grid, NEW d \in Grid,
           NEW i \in 1 .. Len(took[c][r]), NEW j \in 1 .. Len(took[d][r]),
           took[c][r][i] = took[d][r][j]
    PROVE  c = d /\ i = j /\ took[c][r][i] \in Tile
<1>1. /\ Typed /\ launch \in Launches /\ launch.mode \in {"single", "static", "clc"}
      /\ Len(took[c][r]) \in Nat /\ Len(took[d][r]) \in Nat
  BY TypedRole, LaunchSizes DEF ShareInv, AgreeInv, Typed
<1>2. CASE launch.mode = "single"
  <2>1. took[c][r][i] = GridTile(c) /\ took[d][r][j] = GridTile(d)
    BY <1>2 DEF ShareInv, AgreeInv, FixedOrder
  <2>2. Len(took[c][r]) \in {0, 1} /\ Len(took[d][r]) \in {0, 1}
    BY <1>2 DEF ShareInv, RoleOK
  <2>3. i = 1 /\ j = 1
    BY <2>2
  <2> QED BY <1>1, <1>2, <2>1, <2>3, GridTileOneToOne
<1>3. CASE launch.mode = "static"
  <2> DEFINE x == GridX * (i - 1) + c[1]
             y == GridX * (j - 1) + d[1]
  <2>1. /\ c[1] \in 0 .. GridX - 1 /\ c = <<c[1], 0, 0>> /\ i - 1 \in Nat
        /\ x \in 0 .. TotalBlocks - 1 /\ took[c][r][i] = StaticTile(x)
    BY <1>3, StaticTurn
  <2>2. /\ d[1] \in 0 .. GridX - 1 /\ d = <<d[1], 0, 0>> /\ j - 1 \in Nat
        /\ y \in 0 .. TotalBlocks - 1 /\ took[d][r][j] = StaticTile(y)
    BY <1>3, StaticTurn
  <2>3. x = y /\ StaticTile(x) \in Tile
    BY <1>1, <2>1, <2>2, StaticTileOneToOne
  <2>4. GridX \in Nat \ {0}
    BY <1>1, <1>3, StaticGrid
  <2>5. x \div GridX = i - 1 /\ x % GridX = c[1]
    BY <2>1, <2>4, DivmodUnique
  <2>6. y \div GridX = j - 1 /\ y % GridX = d[1]
    BY <2>2, <2>4, DivmodUnique
  <2> HIDE DEF x, y
  <2>7. i - 1 = j - 1 /\ c[1] = d[1]
    BY <2>3, <2>5, <2>6
  <2>8. i = j
    BY <2>7
  <2> QED BY <2>1, <2>2, <2>3, <2>7, <2>8
<1>4. CASE launch.mode = "clc"
  <2>1. PICK own \in [Grid -> Seq(Grid)] : Owns(own)
    BY <1>4 DEF ShareInv
  <2>2. /\ InHand(own, c, r) /\ InHand(own, d, r) /\ Given(own, c) /\ Given(own, d) /\ Once(own)
        /\ Len(own[c]) \in Nat /\ Len(own[d]) \in Nat
    BY <2>1 DEF Owns
  <2>3. i \in 1 .. Len(own[c]) /\ j \in 1 .. Len(own[d])
    <3>1. Len(took[c][r]) <= Len(own[c]) /\ Len(took[d][r]) <= Len(own[d])
      BY <2>2 DEF InHand
    <3>2. Len(own[c]) \in Nat /\ Len(own[d]) \in Nat
      BY <2>2
    <3>3. Len(took[c][r]) \in Nat /\ Len(took[d][r]) \in Nat
      BY <1>1
    <3>4. \A m, n \in Nat : m <= n => 1 .. m \subseteq 1 .. n
      OBVIOUS
    <3> QED BY <3>1, <3>2, <3>3, <3>4
  <2>4. took[c][r][i] = GridTile(own[c][i]) /\ took[d][r][j] = GridTile(own[d][j])
    BY <2>2 DEF InHand
  <2>5. own[c][i] \in Grid /\ own[d][j] \in Grid
    BY <2>3
  <2>6. own[c][i] = own[d][j] /\ took[c][r][i] \in Tile
    <3>1. GridTile(own[c][i]) = GridTile(own[d][j])
      BY <2>4
    <3>2. launch.mode # "static"
      BY <1>4
    <3> QED BY <1>1, <2>4, <2>5, <3>1, <3>2, GridTileOneToOne
  <2>7. cta[c] # "cancelled" /\ cta[d] # "cancelled"
    <3>1. Len(took[c][r]) > 0 /\ Len(took[d][r]) > 0
      BY <1>1
    <3>2. Started(c) /\ Started(d)
      BY <3>1 DEF ShareInv, RoleOK
    <3> QED BY <3>2 DEF Started
  <2>8. own[c][1] = c /\ own[d][1] = d
    BY <2>2 DEF Given
  <2>9. CASE i = 1
    <3>1. j \notin 2 .. Len(own[d])
      BY <2>2, <2>6, <2>7, <2>8, <2>9 DEF Given
    <3>2. j = 1
      BY <2>2, <2>3, <3>1
    <3> QED BY <2>6, <2>8, <2>9, <3>2
  <2>10. CASE i # 1
    <3>1. i \in 2 .. Len(own[c])
      BY <2>2, <2>3, <2>10
    <3>2. cta[own[c][i]] = "cancelled"
      BY <2>2, <3>1 DEF Given
    <3>3. j # 1
      BY <2>6, <2>7, <2>8, <3>2
    <3>4. j \in 2 .. Len(own[d])
      BY <2>2, <2>3, <3>3
    <3>5. Once(own) /\ own[c][i] = own[d][j]
      BY <2>2, <2>6
    <3>6. c = d /\ i = j
      BY <3>1, <3>4, <3>5 DEF Once
    <3> QED BY <2>6, <3>6
  <2> QED BY <2>9, <2>10
<1> QED BY <1>1, <1>2, <1>3, <1>4

\* A sequence that repeats nothing has as many elements as it is long.
LEMMA NoRepeats ==
    ASSUME NEW S, NEW s \in Seq(S), \A i, j \in 1 .. Len(s) : s[i] = s[j] => i = j
    PROVE  Cardinality({s[i] : i \in DOMAIN s}) = Len(s)
<1> DEFINE n == Len(s)
           T == {s[i] : i \in DOMAIN s}
           f == [i \in 1 .. n |-> s[i]]
<1>1. n \in Nat /\ DOMAIN s = 1 .. n
  OBVIOUS
<1>2. f \in [1 .. n -> T] /\ \A i, j \in 1 .. n : f[i] = f[j] => i = j
  BY <1>1
<1>3. \A t \in T : \E i \in 1 .. n : f[i] = t
  BY <1>1
<1> HIDE DEF f, T, n
<1>4. f \in Bijection(1 .. n, T)
  BY <1>2, <1>3, Zenon DEF Bijection, Injection, IsInjective, Surjection
<1>5. IsFiniteSet(1 .. n) /\ Cardinality(1 .. n) = n
  BY <1>1, FS_Interval
<1>6. ExistsBijection(1 .. n, T)
  BY <1>4 DEF ExistsBijection
<1> QED BY <1>5, <1>6, FS_Bijection DEF T, n

(* No output tile is computed twice, by two CTAs or by one: with any number  *)
(* of CTAs, SMs and roles, whatever CTAs the hardware cancels, and whenever  *)
(* it answers.                                                               *)
THEOREM TilesOnce == Spec => []NoTileTwice
<1>1. ShareInv => NoTileTwice
  <2> SUFFICES ASSUME ShareInv PROVE NoTileTwice
    OBVIOUS
  <2>1. ASSUME NEW r \in Roles, NEW c \in Grid, NEW d \in Grid, c # d
        PROVE  Took(c, r) \cap Took(d, r) = {}
    <3>1. /\ DOMAIN took[c][r] = 1 .. Len(took[c][r]) /\ DOMAIN took[d][r] = 1 .. Len(took[d][r])
      BY TypedRole DEF ShareInv, AgreeInv
    <3> QED BY <2>1, <3>1, TakenOnce DEF Took
  <2>2. ASSUME NEW r \in Roles, NEW c \in Grid
        PROVE  Cardinality(Took(c, r)) = Len(took[c][r])
    <3>1. took[c][r] \in Seq(Candidate)
      BY TypedRole DEF ShareInv, AgreeInv
    <3>2. \A i, j \in 1 .. Len(took[c][r]) : took[c][r][i] = took[c][r][j] => i = j
      BY TakenOnce
    <3> QED BY <3>1, <3>2, NoRepeats DEF Took
  <2> QED BY <2>1, <2>2 DEF NoTileTwice
<1> QED BY <1>1, AlwaysShares, PTL

\* A drained grid has worked on every tile, in every role.
LEMMA EveryTileTaken ==
    ASSUME ShareInv, Finished, NEW r \in Roles, NEW t \in Tile
    PROVE  \E c \in Grid : t \in Took(c, r)
<1>1. /\ Typed /\ launch \in Launches /\ launch.mode \in {"single", "static", "clc"}
      /\ \A c \in Grid : Len(took[c][r]) \in Nat /\ DOMAIN took[c][r] = 1 .. Len(took[c][r])
  <2>1. Typed /\ launch \in Launches
    BY DEF ShareInv, AgreeInv, Typed
  <2>2. \A c \in Grid : took[c][r] \in Seq(Candidate)
    BY <2>1, TypedRole
  <2> QED BY <2>1, <2>2, LaunchSizes
<1>2. \A c \in Grid : cta[c] \in {"exited", "cancelled"}
  BY DEF Finished
<1>3. \A c \in Grid : cta[c] = "exited" => role[c][r].pc = "out"
  BY DEF ShareInv, CtaOK
<1>4. \A c \in Grid : \A i \in 1 .. Len(took[c][r]) : took[c][r][i] \in Took(c, r)
  BY <1>1 DEF Took
<1>5. CASE launch.mode = "single"
  <2>1. PICK c \in Grid : GridTile(c) = t
    BY <1>1, <1>5, GridTileOneToOne
  <2>2. role[c][r].pc = "out"
    BY <1>2, <1>3, <1>5 DEF ShareInv, CtaOK
  <2>3. Len(took[c][r]) = 1
    BY <1>5, <2>2 DEF ShareInv, RoleOK
  <2>4. took[c][r][1] = GridTile(c)
    BY <1>5, <2>3 DEF ShareInv, AgreeInv, FixedOrder
  <2>5. 1 \in 1 .. Len(took[c][r])
    BY <2>3
  <2> QED BY <1>4, <2>1, <2>4, <2>5
<1>6. CASE launch.mode = "static"
  <2>1. PICK i \in 0 .. TotalBlocks - 1 : StaticTile(i) = t
    BY <1>1, StaticTileOneToOne
  <2>2. GridX \in Nat \ {0} /\ TotalBlocks \in Nat /\ Grid = {<<x, 0, 0>> : x \in 0 .. GridX - 1}
    BY <1>1, <1>6, StaticGrid, LaunchSizes
  <2> DEFINE q == i \div GridX
             x == i % GridX
             c == <<x, 0, 0>>
             len == Len(took[c][r])
  <2>3. i \in Nat /\ q \in Nat /\ x \in 0 .. GridX - 1 /\ i = GridX * q + x
    <3>1. i \in Nat
      BY <2>2
    <3> QED BY <2>2, <3>1, Divmod
  <2>4. c \in Grid /\ c[1] = x
    BY <2>2, <2>3
  <2> HIDE DEF q, x
  <2>5. role[c][r].pc = "out"
    BY <1>2, <1>3, <1>6, <2>4 DEF ShareInv, CtaOK
  <2>6. c[1] + len * GridX >= TotalBlocks
    <3>1. RoleOK(c, r)
      BY <2>4 DEF ShareInv
    <3> QED BY <1>6, <2>5, <3>1 DEF RoleOK
  <2>7. len \in Nat
    BY <1>1, <2>4
  <2>8. q < len
    <3> HIDE DEF len, c
    <3>1. GridX * q + x < x + len * GridX
      BY <2>1, <2>2, <2>3, <2>4, <2>6, <2>7
    <3> QED BY <2>2, <2>3, <2>7, <3>1, Z3
  <2>9. q + 1 \in 1 .. len /\ (q + 1) - 1 = q
    BY <2>3, <2>7, <2>8
  <2>10. took[c][r][q + 1] = StaticTile(GridX * q + x)
    BY <1>6, <2>4, <2>9, StaticTurn
  <2> QED BY <1>4, <2>1, <2>3, <2>4, <2>9, <2>10
<1>7. CASE launch.mode = "clc"
  <2>1. PICK c \in Grid : GridTile(c) = t
    BY <1>1, <1>7, GridTileOneToOne
  <2>2. PICK own \in [Grid -> Seq(Grid)] : Owns(own)
    BY <1>7 DEF ShareInv
  <2>3. ASSUME NEW e \in Grid, cta[e] = "exited"
        PROVE  \A i \in 1 .. Len(own[e]) : GridTile(own[e][i]) \in Took(e, r)
    <3>1. Out(e, r) /\ InTurn(e, r) /\ Given(own, e) /\ InHand(own, e, r) /\ role[e][r].pc = "out"
      BY <1>3, <1>7, <2>2, <2>3 DEF ShareInv, AgreeInv, Owns
    <3>2. Len(took[e][r]) = Len(own[e])
      BY <3>1 DEF Out, InTurn, Given
    <3> QED BY <1>4, <3>1, <3>2 DEF InHand
  <2>4. CASE cta[c] = "exited"
    <3>1. own[c] \in Seq(Grid) /\ own[c] # <<>> /\ own[c][1] = c
      BY <2>2 DEF Owns, Given
    <3>2. 1 \in 1 .. Len(own[c])
      BY <3>1
    <3> QED BY <2>1, <2>3, <2>4, <3>1, <3>2
  <2>5. CASE cta[c] = "cancelled"
    <3>1. PICK e \in Grid : Started(e) /\ \E i \in 2 .. Len(own[e]) : own[e][i] = c
      BY <2>2, <2>5 DEF Owns, GivenTo
    <3>2. PICK i \in 2 .. Len(own[e]) : own[e][i] = c
      BY <3>1
    <3>3. cta[e] = "exited"
      BY <1>2, <3>1 DEF Started
    <3>4. Len(own[e]) \in Nat
      BY <2>2
    <3>5. i \in 1 .. Len(own[e])
      BY <3>4
    <3> QED BY <2>1, <2>3, <3>2, <3>3, <3>5
  <2> QED BY <1>2, <2>4, <2>5
<1> QED BY <1>1, <1>5, <1>6, <1>7

(* A drained grid has attended to every sparse block of every row exactly    *)
(* once, in every role: the schedulers hand out every tile, the host's or    *)
(* the kernel's boundaries cut every row without a gap or an overlap.        *)
THEOREM BlocksOnce == Spec => []KvCoveredOnce
<1>1. ShareInv => KvCoveredOnce
  <2> SUFFICES ASSUME ShareInv, Finished, NEW r \in Roles, NEW t \in Tile,
                      NEW b \in 0 .. launch.count - 1
               PROVE  Cardinality({u \in UNION {Took(c, r) : c \in Grid} :
                         /\ u = [t EXCEPT !.split = u.split]
                         /\ b \in BlocksOf(launch.count, launch.splits, u.split)}) = 1
    BY DEF KvCoveredOnce
  <2> DEFINE n == launch.count
             splits == launch.splits
             All == UNION {Took(c, r) : c \in Grid}
             Of == {u \in All : /\ u = [t EXCEPT !.split = u.split]
                                /\ b \in BlocksOf(n, splits, u.split)}
  <2>1. n \in Nat /\ splits \in Nat \ {0}
    BY LaunchSizes DEF ShareInv, AgreeInv, Typed
  <2>2. PICK s \in 0 .. splits - 1 : b \in BlocksOf(n, splits, s)
    <3> HIDE DEF n, splits
    <3>1. b \in UNION {BlocksOf(n, splits, i) : i \in 0 .. splits - 1}
      BY <2>1, SplitsCover DEF n
    <3> QED BY <3>1
  <2>3. ASSUME NEW k \in 0 .. splits - 1, b \in BlocksOf(n, splits, k) PROVE k = s
    <3>1. k \in Nat /\ s \in Nat /\ ~(k < s) /\ ~(s < k)
      <4> HIDE DEF n, splits
      <4>1. k \in Nat /\ s \in Nat
        BY <2>1
      <4> QED BY <2>1, <2>2, <2>3, <4>1, SplitsDisjoint
    <3> QED BY <3>1
  <2> DEFINE one == [t EXCEPT !.split = s]
  <2>4. one \in Tile /\ one.split = s
    BY <2>2 DEF Tile, TileOf
  <2>5. one = [t EXCEPT !.split = one.split]
    BY <2>4
  <2>6. one \in Of
    <3>1. one \in All
      BY <2>4, EveryTileTaken
    <3> HIDE DEF one, All
    <3> QED BY <2>2, <2>4, <2>5, <3>1
  <2>7. ASSUME NEW u \in Of PROVE u = one
    <3>1. u \in Tile
      <4>1. PICK c \in Grid : u \in Took(c, r)
        OBVIOUS
      <4>2. PICK i \in DOMAIN took[c][r] : u = took[c][r][i]
        BY <4>1 DEF Took
      <4>3. i \in 1 .. Len(took[c][r])
        BY <4>2, TypedRole DEF ShareInv, AgreeInv
      <4> QED BY <4>2, <4>3, TakenOnce
    <3>2. u.split \in 0 .. splits - 1
      BY <3>1 DEF Tile, TileOf
    <3>3. u.split = s
      BY <2>3, <3>2
    <3> QED BY <3>3
  <2>8. Of = {one}
    <3> HIDE DEF Of, one
    <3> QED BY <2>6, <2>7
  <2>9. Cardinality(Of) = 1
    BY <2>8, FS_Singleton
  <2> QED BY <2>9
<1> QED BY <1>1, AlwaysShares, PTL
===============================================================================
