-------------------------- MODULE MbarPipelineProofs --------------------------
(***************************************************************************)
(* TLAPS proofs about MbarPipeline, for every number of stages, items,     *)
(* producers and consumers.                                                *)
(***************************************************************************)
EXTENDS MbarPipeline, FiniteSetTheorems, TLAPS

-----------------------------------------------------------------------------
(* Arithmetic of the circular buffer.                                      *)

\* The quotient and the remainder of an item's number by Stages.
LEMMA Division ==
    ASSUME NEW k \in Nat
    PROVE  /\ k \div Stages \in Nat
           /\ k % Stages \in Stage
           /\ k = (Stages * (k \div Stages)) + (k % Stages)
  BY StagesAssumption, Z3 DEF Stage

\* They are the only ones.
LEMMA DivisionUnique ==
    ASSUME NEW k \in Nat, NEW q \in Nat, NEW r \in Stage,
           k = Stages * q + r
    PROVE  k \div Stages = q /\ k % Stages = r
  <1> DEFINE Q == k \div Stages
             R == k % Stages
  <1>1. Q \in Nat /\ R \in Stage /\ k = Stages * Q + R
    BY Division
  <1> HIDE DEF Q, R
  <1>2. Stages * (Q - q) = r - R
    BY <1>1, StagesAssumption, Z3 DEF Stage
  <1>3. Q - q \in Int /\ r - R \in Int /\ r - R < Stages /\ r - R > -Stages
    BY <1>1, StagesAssumption, Z3 DEF Stage
  <1>4. ~(Q - q >= 1)
    <2>1. ASSUME Q - q >= 1 PROVE Stages * (Q - q) >= Stages
      BY <2>1, <1>3, StagesAssumption, Z3
    <2> QED BY <2>1, <1>2, <1>3, StagesAssumption, Z3
  <1>5. ~(q - Q >= 1)
    <2>1. ASSUME q - Q >= 1 PROVE Stages * (q - Q) >= Stages
      BY <2>1, <1>3, <1>1, StagesAssumption, Z3
    <2>2. Stages * (q - Q) = R - r
      BY <1>1, StagesAssumption, Z3 DEF Stage
    <2> QED BY <2>1, <2>2, <1>3, <1>1, StagesAssumption, Z3 DEF Stage
  <1>6. Q = q
    BY <1>4, <1>5, <1>1, Z3
  <1>7. R = r
    BY <1>6, <1>1, StagesAssumption, Z3 DEF Stage
  <1> QED BY <1>6, <1>7 DEF Q, R

\* The next item goes to the next stage, and to the next round on a wrap.
LEMMA NextItem ==
    ASSUME NEW k \in Nat
    PROVE  IF k % Stages = Stages - 1
           THEN /\ (k + 1) \div Stages = k \div Stages + 1
                /\ (k + 1) % Stages = 0
           ELSE /\ (k + 1) \div Stages = k \div Stages
                /\ (k + 1) % Stages = (k % Stages) + 1
  <1> DEFINE Q == k \div Stages
             R == k % Stages
  <1>1. Q \in Nat /\ R \in Stage /\ k = Stages * Q + R
    BY Division
  <1> SUFFICES IF R = Stages - 1
               THEN (k + 1) \div Stages = Q + 1 /\ (k + 1) % Stages = 0
               ELSE (k + 1) \div Stages = Q /\ (k + 1) % Stages = R + 1
    OBVIOUS
  <1> HIDE DEF Q, R
  <1>2. CASE R = Stages - 1
    <2>1. k + 1 = Stages * (Q + 1) + 0
      BY <1>1, <1>2, StagesAssumption, Z3 DEF Stage
    <2>2. 0 \in Stage /\ Q + 1 \in Nat /\ k + 1 \in Nat
      BY <1>1, StagesAssumption, Z3 DEF Stage
    <2>3. (k + 1) \div Stages = Q + 1 /\ (k + 1) % Stages = 0
      BY <2>1, <2>2, DivisionUnique
    <2> QED BY <1>2, <2>3
  <1>3. CASE R # Stages - 1
    <2>1. k + 1 = Stages * Q + (R + 1) /\ R + 1 \in Stage /\ k + 1 \in Nat
      BY <1>1, <1>3, StagesAssumption, Z3 DEF Stage
    <2>2. (k + 1) \div Stages = Q /\ (k + 1) % Stages = R + 1
      BY <2>1, <1>1, DivisionUnique
    <2> QED BY <1>3, <2>2
  <1> QED BY <1>2, <1>3

\* Passing one more item adds one round to its stage and to no other.
LEMMA RoundsStep ==
    ASSUME NEW k \in Nat, NEW s \in Stage
    PROVE  /\ Rounds(k, s) \in Nat
           /\ Rounds(k + 1, s) = Rounds(k, s) + (IF s = k % Stages THEN 1 ELSE 0)
           /\ s = k % Stages => Rounds(k, s) = k \div Stages
  <1> DEFINE Q == k \div Stages
             R == k % Stages
  <1>1. Q \in Nat /\ R \in Stage
    BY Division
  <1>2. CASE R = Stages - 1
    <2>1. (k + 1) \div Stages = Q + 1 /\ (k + 1) % Stages = 0
      BY <1>2, NextItem
    <2> HIDE DEF Q, R
    <2>2. Rounds(k, s) = Q + (IF s < R THEN 1 ELSE 0)
      BY DEF Rounds, Q, R
    <2>3. Rounds(k + 1, s) = Q + 1 + (IF s < 0 THEN 1 ELSE 0)
      BY <2>1 DEF Rounds
    <2> QED BY <1>1, <1>2, <2>2, <2>3, StagesAssumption DEF Stage, Q, R
  <1>3. CASE R # Stages - 1
    <2>1. (k + 1) \div Stages = Q /\ (k + 1) % Stages = R + 1
      BY <1>3, NextItem
    <2> HIDE DEF Q, R
    <2>2. Rounds(k, s) = Q + (IF s < R THEN 1 ELSE 0)
      BY DEF Rounds, Q, R
    <2>3. Rounds(k + 1, s) = Q + (IF s < R + 1 THEN 1 ELSE 0)
      BY <2>1 DEF Rounds
    <2> QED BY <1>1, <1>3, <2>2, <2>3, StagesAssumption DEF Stage, Q, R
  <1> QED BY <1>2, <1>3

\* What a phase index says once it is known how many items it stands for.
LEMMA ConsumerStateMeaning ==
    ASSUME NEW k \in Nat, NEW i,
           i = IF Stages = 1 THEN k % 2 ELSE k
    PROVE  /\ i \in Nat
           /\ IndexOf(i) = k % Stages
           /\ IndexOf(i) \in Stage
           /\ PhaseOf(i) = (k \div Stages) % 2
           /\ Advance(i) = IF Stages = 1 THEN (k + 1) % 2 ELSE k + 1
  <1>1. k \div Stages \in Nat /\ k % Stages \in Stage
        /\ k = (Stages * (k \div Stages)) + (k % Stages)
    BY Division
  <1>2. CASE Stages = 1
    <2>1. k % Stages = 0 /\ k \div Stages = k
      BY <1>1, <1>2, Z3 DEF Stage
    <2>2. i = k % 2 /\ i \in Nat /\ 1 - i = (k + 1) % 2
      BY <1>2, Z3
    <2>3. IndexOf(i) = 0 /\ PhaseOf(i) = i /\ Advance(i) = 1 - i
      BY <1>2 DEF IndexOf, PhaseOf, Advance
    <2> QED BY <1>1, <1>2, <2>1, <2>2, <2>3
  <1>3. CASE Stages # 1
    BY <1>1, <1>3 DEF IndexOf, PhaseOf, Advance
  <1> QED BY <1>2, <1>3

\* The same for a producer, which starts on the flipped phase.
LEMMA ProducerStateMeaning ==
    ASSUME NEW k \in Nat, NEW i,
           i = IF Stages = 1 THEN (k + 1) % 2 ELSE k + Stages
    PROVE  /\ i \in Nat
           /\ IndexOf(i) = k % Stages
           /\ IndexOf(i) \in Stage
           /\ PhaseOf(i) = ((k \div Stages) + 1) % 2
           /\ Advance(i) = IF Stages = 1 THEN (k + 2) % 2 ELSE k + 1 + Stages
  <1>1. k \div Stages \in Nat /\ k % Stages \in Stage
        /\ k = (Stages * (k \div Stages)) + (k % Stages)
    BY Division
  <1>2. CASE Stages = 1
    <2>1. k % Stages = 0 /\ k \div Stages = k
      BY <1>1, <1>2, Z3 DEF Stage
    <2>2. i = (k + 1) % 2 /\ i \in Nat /\ 1 - i = (k + 2) % 2
      BY <1>2, Z3
    <2>3. IndexOf(i) = 0 /\ PhaseOf(i) = i /\ Advance(i) = 1 - i
      BY <1>2 DEF IndexOf, PhaseOf, Advance
    <2> QED BY <1>1, <1>2, <2>1, <2>2, <2>3
  <1>3. CASE Stages # 1
    <2> DEFINE Q == k \div Stages
               R == k % Stages
    <2> HIDE DEF Q, R
    <2>1. Q \in Nat /\ R \in Stage /\ k = (Stages * Q) + R
      BY <1>1 DEF Q, R
    <2>2. k + Stages = (Stages * (Q + 1)) + R /\ k + Stages \in Nat
      BY <2>1, StagesAssumption, Z3 DEF Stage
    <2>3. (k + Stages) \div Stages = Q + 1 /\ (k + Stages) % Stages = R
      BY <2>1, <2>2, DivisionUnique
    <2>4. i = k + Stages
      BY <1>3
    <2>5. IndexOf(i) = R /\ PhaseOf(i) = (Q + 1) % 2 /\ Advance(i) = i + 1
      BY <1>3, <2>3, <2>4 DEF IndexOf, PhaseOf, Advance
    <2> QED BY <1>3, <2>1, <2>2, <2>4, <2>5, StagesAssumption, Z3 DEF Q, R
  <1> QED BY <1>2, <1>3

-----------------------------------------------------------------------------
(* Counting arrivals: the set of the threads that have arrived is everyone   *)
(* exactly when the barrier's count says so.                                 *)

\* The threads A of T that have arrived, and x, which arrives next.
LEMMA OneMoreArrival ==
    ASSUME NEW T, IsFiniteSet(T), NEW A \in SUBSET T, NEW x \in T, x \notin A
    PROVE  /\ Cardinality(A) \in Nat
           /\ Cardinality(T) \in Nat
           /\ Cardinality(A \cup {x}) = Cardinality(A) + 1
           /\ Cardinality(A) + 1 =< Cardinality(T)
           /\ Cardinality(A) + 1 = Cardinality(T) <=> A \cup {x} = T
  <1>1. IsFiniteSet(A) /\ IsFiniteSet(A \cup {x})
    BY FS_Subset
  <1>2. Cardinality(A) \in Nat /\ Cardinality(T) \in Nat
    BY <1>1, FS_CardinalityType
  <1>3. Cardinality(A \cup {x}) = Cardinality(A) + 1
    BY <1>1, FS_AddElement
  <1>4. /\ Cardinality(A \cup {x}) =< Cardinality(T)
        /\ Cardinality(A \cup {x}) = Cardinality(T) => A \cup {x} = T
    BY FS_Subset
  <1> QED BY <1>2, <1>3, <1>4

\* create() is given at least one arrival for either barrier.
LEMMA SidesNotEmpty ==
    /\ ProducerArrivals \in Nat \ {0}
    /\ ConsumerArrivals \in Nat \ {0}
  BY SidesAssumption, FS_CardinalityType, FS_EmptySet
     DEF ProducerArrivals, ConsumerArrivals

-----------------------------------------------------------------------------
(* The inductive invariant: one lemma for each action.                       *)

IndInv == TypeOK /\ PhasesInStep

\* A pipeline starts with nothing passed and every barrier in its first phase.
LEMMA InitIndInv == Init => IndInv
  <1> SUFFICES ASSUME Init PROVE IndInv
    OBVIOUS
  <1> USE StagesAssumption, ItemsAssumption, SidesNotEmpty
  <1>1. TypeOK
    BY DEF Init, TypeOK, InitBarrier, ProducerStart, ConsumerStart, Stage
  <1>2. \A s \in Stage : Rounds(0, s) = 0
    <2> SUFFICES ASSUME NEW s \in Stage PROVE Rounds(0, s) = 0
      OBVIOUS
    <2>1. 0 = (Stages * 0) + 0 /\ 0 \in Stage
      BY DEF Stage
    <2>2. 0 \div Stages = 0 /\ 0 % Stages = 0
      BY <2>1, DivisionUnique
    <2> QED BY <2>2 DEF Rounds, Stage
  <1>3. /\ \A s \in Stage, p \in Producers : Commits(p, s) = 0
        /\ \A s \in Stage, c \in Consumers : Releases(c, s) = 0
    BY <1>2 DEF Init, Commits, Releases
  <1>4. StatesTrackItems
    BY DEF Init, StatesTrackItems, ProducerStart, ConsumerStart
  <1>5. ProducersInStep /\ ConsumersInStep
    BY <1>3 DEF Init, InitBarrier, ProducersInStep, ConsumersInStep
  <1>6. CountsArrivals
    <2> SUFFICES ASSUME NEW s \in Stage
                 PROVE  /\ full[s].done \in {empty[s].done, empty[s].done + 1}
                        /\ full[s].count = Cardinality(
                             {p \in Producers : Commits(p, s) = full[s].done + 1})
                        /\ empty[s].count = Cardinality(
                             {c \in Consumers : Releases(c, s) = empty[s].done + 1})
      BY DEF CountsArrivals
    <2>1. full[s] = InitBarrier /\ empty[s] = InitBarrier
      BY DEF Init
    <2>2. /\ {p \in Producers : Commits(p, s) = full[s].done + 1} = {}
          /\ {c \in Consumers : Releases(c, s) = empty[s].done + 1} = {}
      BY <1>3, <2>1 DEF InitBarrier
    <2> QED BY <2>1, <2>2, FS_EmptySet DEF InitBarrier
  <1> QED BY <1>1, <1>4, <1>5, <1>6 DEF IndInv, PhasesInStep

\* What a wait that passes on "empty" tells the producer.
LEMMA AcquireMeans ==
    ASSUME IndInv, NEW p \in Producers, ProducerAcquire(p)
    PROVE  LET k == acquired[p]
               s == acquired[p] % Stages
           IN  /\ k \in Nat /\ s \in Stage
               /\ IndexOf(pstate[p]) = s
               /\ s \notin filling[p]
               /\ Commits(p, s) = full[s].done
               /\ empty[s].done = full[s].done
               /\ pstate'[p] = IF Stages = 1 THEN (k + 2) % 2
                                             ELSE k + 1 + Stages
  <1> DEFINE k == acquired[p]
             s == k % Stages
             r == k \div Stages
  <1>1. k \in Nat
    BY ItemsAssumption DEF IndInv, TypeOK
  <1>2. pstate[p] = IF Stages = 1 THEN (k + 1) % 2 ELSE k + Stages
    BY DEF IndInv, PhasesInStep, StatesTrackItems
  <1>3. /\ IndexOf(pstate[p]) = s /\ s \in Stage
        /\ PhaseOf(pstate[p]) = (r + 1) % 2
        /\ Advance(pstate[p]) = IF Stages = 1 THEN (k + 2) % 2
                                              ELSE k + 1 + Stages
    BY <1>1, <1>2, ProducerStateMeaning
  <1>4. Rounds(k, s) = r /\ r \in Nat
    BY <1>1, <1>3, RoundsStep
  <1>5. empty[s].done % 2 # (r + 1) % 2
    BY <1>3 DEF ProducerAcquire, Passes
  <1>6. pstate'[p] = Advance(pstate[p])
    BY DEF ProducerAcquire, IndInv, TypeOK
  <1> HIDE DEF k, s, r
  <1>7. full[s].done \in Nat /\ empty[s].done \in Nat
    BY <1>3 DEF IndInv, TypeOK
  <1>8. full[s].done \in {empty[s].done, empty[s].done + 1}
    BY <1>3 DEF IndInv, PhasesInStep, CountsArrivals
  <1>9. /\ Commits(p, s) \in {full[s].done, full[s].done + 1}
        /\ Commits(p, s) = full[s].done + 1 => empty[s].done = full[s].done
        /\ s \in filling[p] => /\ Commits(p, s) = full[s].done
                               /\ empty[s].done = full[s].done
    BY <1>3 DEF IndInv, PhasesInStep, ProducersInStep
  <1>10. Commits(p, s) = r - (IF s \in filling[p] THEN 1 ELSE 0)
    BY <1>4 DEF Commits, k
  <1>11. s \notin filling[p]
    BY <1>4, <1>5, <1>7, <1>9, <1>10
  <1>12. Commits(p, s) = full[s].done /\ empty[s].done = full[s].done
    BY <1>4, <1>5, <1>7, <1>8, <1>9, <1>10, <1>11
  <1> QED BY <1>1, <1>3, <1>6, <1>11, <1>12 DEF k, s

\* producer_acquire: only the item the producer counts and its stage change.
LEMMA AcquireIndInv ==
    ASSUME IndInv, NEW p \in Producers, ProducerAcquire(p)
    PROVE  IndInv'
  <1> DEFINE k == acquired[p]
             s == k % Stages
  <1>1. /\ k \in Nat /\ s \in Stage
        /\ IndexOf(pstate[p]) = s
        /\ s \notin filling[p]
        /\ Commits(p, s) = full[s].done
        /\ empty[s].done = full[s].done
        /\ pstate'[p] = IF Stages = 1 THEN (k + 2) % 2 ELSE k + 1 + Stages
    BY AcquireMeans
  <1>2. \A t \in Stage : /\ Rounds(k, t) \in Nat
                         /\ Rounds(k + 1, t) = Rounds(k, t) + (IF t = s THEN 1 ELSE 0)
    BY <1>1, RoundsStep
  <1> HIDE DEF k, s
  <1>3. /\ acquired' = [acquired EXCEPT ![p] = k + 1]
        /\ filling' = [filling EXCEPT ![p] = @ \cup {s}]
        /\ pstate' = [pstate EXCEPT ![p] = pstate'[p]]
        /\ UNCHANGED <<full, empty, cstate, waited, reading>>
    BY <1>1 DEF ProducerAcquire, IndInv, TypeOK, k
  <1>4. TypeOK'
    BY <1>1, <1>3, StagesAssumption, ItemsAssumption
       DEF IndInv, TypeOK, ProducerAcquire, k
  <1>5. StatesTrackItems'
    <2>1. (k + 2) % 2 = ((k + 1) + 1) % 2
      BY <1>1
    <2>2. pstate'[p] = IF Stages = 1 THEN ((k + 1) + 1) % 2
                                     ELSE (k + 1) + Stages
      BY <1>1, <2>1
    <2>3. \A q \in Producers :
             acquired'[q] = IF q = p THEN k + 1 ELSE acquired[q]
      BY <1>3 DEF IndInv, TypeOK
    <2>4. \A q \in Producers \ {p} : pstate'[q] = pstate[q]
      BY <1>3 DEF IndInv, TypeOK
    <2> QED BY <1>3, <2>2, <2>3, <2>4 DEF IndInv, PhasesInStep, StatesTrackItems
  <1>6. \A q \in Producers, t \in Stage : Commits(q, t)' = Commits(q, t)
    <2> SUFFICES ASSUME NEW q \in Producers, NEW t \in Stage
                 PROVE  Commits(q, t)' = Commits(q, t)
      OBVIOUS
    <2>1. CASE q = p
      <3>1. acquired'[q] = k + 1 /\ acquired[q] = k
        BY <1>3, <2>1 DEF IndInv, TypeOK, k
      <3>2. filling'[q] = filling[q] \cup {s}
        BY <1>3, <2>1 DEF IndInv, TypeOK
      <3> QED BY <1>1, <1>2, <2>1, <3>1, <3>2 DEF Commits, Rounds
    <2>2. CASE q # p
      BY <1>3, <2>2 DEF Commits, Rounds, IndInv, TypeOK
    <2> QED BY <2>1, <2>2
  <1>7. \A c \in Consumers, t \in Stage : Releases(c, t)' = Releases(c, t)
    BY <1>3 DEF Releases, Rounds
  <1>8. ProducersInStep'
    <2> SUFFICES ASSUME NEW t \in Stage, NEW q \in Producers
                 PROVE  /\ Commits(q, t)' \in {full[t].done, full[t].done + 1}
                        /\ Commits(q, t)' = full[t].done + 1
                             => empty[t].done = full[t].done
                        /\ t \in filling'[q] => /\ Commits(q, t)' = full[t].done
                                                /\ empty[t].done = full[t].done
      BY <1>3 DEF ProducersInStep
    <2>1. filling'[q] = IF q = p THEN filling[q] \cup {s} ELSE filling[q]
      BY <1>3 DEF IndInv, TypeOK
    <2> QED BY <1>1, <1>6, <2>1 DEF IndInv, PhasesInStep, ProducersInStep
  <1>9. ConsumersInStep'
    BY <1>3, <1>7 DEF IndInv, PhasesInStep, ConsumersInStep
  <1>10. CountsArrivals'
    BY <1>3, <1>6, <1>7 DEF IndInv, PhasesInStep, CountsArrivals
  <1> QED BY <1>4, <1>5, <1>8, <1>9, <1>10 DEF IndInv, PhasesInStep

\* producer_commit: the last producer to arrive completes the phase of "full".
LEMMA CommitIndInv ==
    ASSUME IndInv, NEW p \in Producers, NEW s \in Stage, ProducerCommit(p, s)
    PROVE  IndInv'
  <1> DEFINE f == full[s].done
             A == {q \in Producers : Commits(q, s) = f + 1}
  <1>1. /\ f \in Nat
        /\ full[s].count \in 0 .. ProducerArrivals - 1
        /\ full[s] = [done |-> f, count |-> full[s].count]
    BY DEF IndInv, TypeOK
  <1>2. /\ s \in filling[p]
        /\ full' = [full EXCEPT ![s] = Arrive(full[s], ProducerArrivals)]
        /\ filling' = [filling EXCEPT ![p] = @ \ {s}]
        /\ UNCHANGED <<empty, pstate, cstate, acquired, waited, reading>>
    BY DEF ProducerCommit
  <1>3. Commits(p, s) = f /\ empty[s].done = f
    BY <1>2 DEF IndInv, PhasesInStep, ProducersInStep
  <1>4. full[s].count = Cardinality(A)
    BY DEF IndInv, PhasesInStep, CountsArrivals
  <1>5. /\ Cardinality(A) \in Nat
        /\ ProducerArrivals \in Nat
        /\ Cardinality(A \cup {p}) = Cardinality(A) + 1
        /\ Cardinality(A) + 1 =< ProducerArrivals
        /\ Cardinality(A) + 1 = ProducerArrivals <=> A \cup {p} = Producers
    <2>1. p \notin A
      BY <1>1, <1>3
    <2> QED BY <2>1, OneMoreArrival, SidesAssumption DEF ProducerArrivals
  <1>6. \A q \in Producers, t \in Stage :
           Commits(q, t)' = Commits(q, t) + (IF q = p /\ t = s THEN 1 ELSE 0)
    <2> SUFFICES ASSUME NEW q \in Producers, NEW t \in Stage
                 PROVE  Commits(q, t)' =
                          Commits(q, t) + (IF q = p /\ t = s THEN 1 ELSE 0)
      OBVIOUS
    <2>1. filling'[q] = IF q = p THEN filling[q] \ {s} ELSE filling[q]
      BY <1>2 DEF IndInv, TypeOK
    <2>2. Rounds(acquired[q], t) \in Nat
      BY RoundsStep, ItemsAssumption DEF IndInv, TypeOK
    <2>3. Commits(q, t)' =
            Rounds(acquired[q], t) - (IF t \in filling'[q] THEN 1 ELSE 0)
      BY <1>2 DEF Commits, Rounds
    <2> QED BY <1>2, <2>1, <2>2, <2>3 DEF Commits
  <1>7. \A c \in Consumers, t \in Stage : Releases(c, t)' = Releases(c, t)
    BY <1>2 DEF Releases, Rounds
  <1>8. \A q \in Producers : Commits(q, s) \in {f, f + 1}
    BY DEF IndInv, PhasesInStep, ProducersInStep
  <1>9. \A t \in Stage : t # s => full'[t] = full[t]
    BY <1>2 DEF IndInv, TypeOK
  <1>10. full'[s] = IF A \cup {p} = Producers
                    THEN [done |-> f + 1, count |-> 0]
                    ELSE [done |-> f, count |-> Cardinality(A) + 1]
    <2>1. full'[s] = Arrive(full[s], ProducerArrivals)
      BY <1>2 DEF IndInv, TypeOK
    <2> QED BY <1>1, <1>4, <1>5, <2>1 DEF Arrive
  <1>11. TypeOK'
    <2>1. full'[s] \in [done : Nat, count : 0 .. ProducerArrivals - 1]
      BY <1>1, <1>5, <1>10
    <2>2. full' \in [Stage -> [done : Nat, count : 0 .. ProducerArrivals - 1]]
      BY <1>2, <2>1 DEF IndInv, TypeOK
    <2> QED BY <1>2, <2>2 DEF IndInv, TypeOK
  <1>12. StatesTrackItems'
    BY <1>2 DEF IndInv, PhasesInStep, StatesTrackItems
  <1>13. \A q \in Producers : Commits(q, s)' = f + 1 <=> q \in A \cup {p}
    BY <1>1, <1>3, <1>6, <1>8
  <1>14. ProducersInStep'
    <2> SUFFICES ASSUME NEW t \in Stage, NEW q \in Producers
                 PROVE  /\ Commits(q, t)' \in {full'[t].done, full'[t].done + 1}
                        /\ Commits(q, t)' = full'[t].done + 1
                             => empty[t].done = full'[t].done
                        /\ t \in filling'[q] => /\ Commits(q, t)' = full'[t].done
                                                /\ empty[t].done = full'[t].done
      BY <1>2 DEF ProducersInStep
    <2>1. filling'[q] = IF q = p THEN filling[q] \ {s} ELSE filling[q]
      BY <1>2 DEF IndInv, TypeOK
    <2>2. CASE t # s
      BY <1>6, <1>9, <2>1, <2>2 DEF IndInv, PhasesInStep, ProducersInStep, TypeOK
    <2>3. CASE t = s
      <3>1. s \in filling[q] => Commits(q, s) = f
        BY DEF IndInv, PhasesInStep, ProducersInStep
      <3>2. CASE A \cup {p} = Producers
        <4>1. full'[s].done = f + 1 /\ Commits(q, s)' = f + 1
          BY <1>10, <1>13, <3>2
        <4>2. s \notin filling'[q]
          BY <1>1, <2>1, <3>1, <3>2
        <4> QED BY <1>1, <2>3, <4>1, <4>2
      <3>3. CASE A \cup {p} # Producers
        <4>1. full'[s].done = f
          BY <1>10, <3>3
        <4> QED BY <1>1, <1>3, <1>6, <1>8, <2>1, <2>3, <3>1, <4>1
      <3> QED BY <3>2, <3>3
    <2> QED BY <2>2, <2>3
  <1>15. ConsumersInStep'
    <2> SUFFICES ASSUME NEW t \in Stage, NEW c \in Consumers
                 PROVE  /\ Releases(c, t) \in {empty[t].done, empty[t].done + 1}
                        /\ Releases(c, t) = empty[t].done + 1
                             => full'[t].done = empty[t].done + 1
                        /\ t \in reading[c] => /\ Releases(c, t) = empty[t].done
                                               /\ full'[t].done = empty[t].done + 1
      BY <1>2, <1>7 DEF ConsumersInStep
    <2>1. /\ Releases(c, t) \in {empty[t].done, empty[t].done + 1}
          /\ Releases(c, t) = empty[t].done + 1
               => full[t].done = empty[t].done + 1
          /\ t \in reading[c] => /\ Releases(c, t) = empty[t].done
                                 /\ full[t].done = empty[t].done + 1
      BY DEF IndInv, PhasesInStep, ConsumersInStep
    <2>2. CASE t # s
      BY <1>9, <2>1, <2>2
    <2>3. CASE t = s
      BY <1>1, <1>3, <2>1, <2>3
    <2> QED BY <2>2, <2>3
  <1>16. CountsArrivals'
    <2> SUFFICES ASSUME NEW t \in Stage
                 PROVE  /\ full'[t].done \in {empty[t].done, empty[t].done + 1}
                        /\ full'[t].count = Cardinality(
                             {q \in Producers : Commits(q, t)' = full'[t].done + 1})
                        /\ empty[t].count = Cardinality(
                             {c \in Consumers : Releases(c, t) = empty[t].done + 1})
      BY <1>2, <1>7 DEF CountsArrivals
    <2>1. empty[t].count = Cardinality(
             {c \in Consumers : Releases(c, t) = empty[t].done + 1})
      BY DEF IndInv, PhasesInStep, CountsArrivals
    <2>2. CASE t # s
      <3>1. \A q \in Producers : Commits(q, t)' = Commits(q, t)
        <4>1. \A q \in Producers : Commits(q, t) \in {full[t].done, full[t].done + 1}
          BY DEF IndInv, PhasesInStep, ProducersInStep
        <4>2. full[t].done \in Nat
          BY DEF IndInv, TypeOK
        <4> QED BY <1>6, <2>2, <4>1, <4>2
      <3>2. full'[t] = full[t]
        BY <1>9, <2>2
      <3> QED BY <2>1, <3>1, <3>2 DEF IndInv, PhasesInStep, CountsArrivals
    <2>3. CASE t = s
      <3>1. CASE A \cup {p} = Producers
        <4>1. full'[s].done = f + 1 /\ full'[s].count = 0
          BY <1>10, <3>1
        <4>2. {q \in Producers : Commits(q, s)' = full'[s].done + 1} = {}
          BY <1>1, <1>13, <3>1, <4>1
        <4> QED BY <1>1, <1>3, <2>1, <2>3, <4>1, <4>2, FS_EmptySet
      <3>2. CASE A \cup {p} # Producers
        <4>1. full'[s].done = f /\ full'[s].count = Cardinality(A) + 1
          BY <1>10, <3>2
        <4>2. {q \in Producers : Commits(q, s)' = full'[s].done + 1} = A \cup {p}
          BY <1>13, <4>1
        <4> QED BY <1>3, <1>5, <2>1, <2>3, <4>1, <4>2
      <3> QED BY <3>1, <3>2
    <2> QED BY <2>2, <2>3
  <1> QED BY <1>11, <1>12, <1>14, <1>15, <1>16 DEF IndInv, PhasesInStep

\* What a wait that passes on "full" tells the consumer.
LEMMA WaitMeans ==
    ASSUME IndInv, NEW c \in Consumers, ConsumerWait(c)
    PROVE  LET k == waited[c]
               s == waited[c] % Stages
           IN  /\ k \in Nat /\ s \in Stage
               /\ IndexOf(cstate[c]) = s
               /\ s \notin reading[c]
               /\ Releases(c, s) = empty[s].done
               /\ full[s].done = empty[s].done + 1
               /\ cstate'[c] = IF Stages = 1 THEN (k + 1) % 2 ELSE k + 1
  <1> DEFINE k == waited[c]
             s == k % Stages
             r == k \div Stages
  <1>1. k \in Nat
    BY ItemsAssumption DEF IndInv, TypeOK
  <1>2. cstate[c] = IF Stages = 1 THEN k % 2 ELSE k
    BY DEF IndInv, PhasesInStep, StatesTrackItems
  <1>3. /\ IndexOf(cstate[c]) = s /\ s \in Stage
        /\ PhaseOf(cstate[c]) = r % 2
        /\ Advance(cstate[c]) = IF Stages = 1 THEN (k + 1) % 2 ELSE k + 1
    BY <1>1, <1>2, ConsumerStateMeaning
  <1>4. Rounds(k, s) = r /\ r \in Nat
    BY <1>1, <1>3, RoundsStep
  <1>5. full[s].done % 2 # r % 2
    BY <1>3 DEF ConsumerWait, Passes
  <1>6. cstate'[c] = Advance(cstate[c])
    BY DEF ConsumerWait, IndInv, TypeOK
  <1> HIDE DEF k, s, r
  <1>7. full[s].done \in Nat /\ empty[s].done \in Nat
    BY <1>3 DEF IndInv, TypeOK
  <1>8. full[s].done \in {empty[s].done, empty[s].done + 1}
    BY <1>3 DEF IndInv, PhasesInStep, CountsArrivals
  <1>9. /\ Releases(c, s) \in {empty[s].done, empty[s].done + 1}
        /\ Releases(c, s) = empty[s].done + 1 => full[s].done = empty[s].done + 1
        /\ s \in reading[c] => /\ Releases(c, s) = empty[s].done
                               /\ full[s].done = empty[s].done + 1
    BY <1>3 DEF IndInv, PhasesInStep, ConsumersInStep
  <1>10. Releases(c, s) = r - (IF s \in reading[c] THEN 1 ELSE 0)
    BY <1>4 DEF Releases, k
  <1>11. s \notin reading[c]
    BY <1>4, <1>5, <1>7, <1>9, <1>10
  <1>12. Releases(c, s) = empty[s].done /\ full[s].done = empty[s].done + 1
    BY <1>4, <1>5, <1>7, <1>8, <1>9, <1>10, <1>11
  <1> QED BY <1>1, <1>3, <1>6, <1>11, <1>12 DEF k, s

\* consumer_wait: only the item the consumer counts and its stage change.
LEMMA WaitIndInv ==
    ASSUME IndInv, NEW c \in Consumers, ConsumerWait(c)
    PROVE  IndInv'
  <1> DEFINE k == waited[c]
             s == k % Stages
  <1>1. /\ k \in Nat /\ s \in Stage
        /\ IndexOf(cstate[c]) = s
        /\ s \notin reading[c]
        /\ Releases(c, s) = empty[s].done
        /\ full[s].done = empty[s].done + 1
        /\ cstate'[c] = IF Stages = 1 THEN (k + 1) % 2 ELSE k + 1
    BY WaitMeans
  <1>2. \A t \in Stage : /\ Rounds(k, t) \in Nat
                         /\ Rounds(k + 1, t) = Rounds(k, t) + (IF t = s THEN 1 ELSE 0)
    BY <1>1, RoundsStep
  <1> HIDE DEF k, s
  <1>3. /\ waited' = [waited EXCEPT ![c] = k + 1]
        /\ reading' = [reading EXCEPT ![c] = @ \cup {s}]
        /\ cstate' = [cstate EXCEPT ![c] = cstate'[c]]
        /\ UNCHANGED <<empty, full, pstate, acquired, filling>>
    BY <1>1 DEF ConsumerWait, IndInv, TypeOK, k
  <1>4. TypeOK'
    BY <1>1, <1>3, StagesAssumption, ItemsAssumption
       DEF IndInv, TypeOK, ConsumerWait, k
  <1>5. StatesTrackItems'
    <2>1. \A d \in Consumers :
             waited'[d] = IF d = c THEN k + 1 ELSE waited[d]
      BY <1>3 DEF IndInv, TypeOK
    <2>2. \A d \in Consumers \ {c} : cstate'[d] = cstate[d]
      BY <1>3 DEF IndInv, TypeOK
    <2> QED BY <1>1, <1>3, <2>1, <2>2
        DEF IndInv, PhasesInStep, StatesTrackItems
  <1>6. \A d \in Consumers, t \in Stage : Releases(d, t)' = Releases(d, t)
    <2> SUFFICES ASSUME NEW d \in Consumers, NEW t \in Stage
                 PROVE  Releases(d, t)' = Releases(d, t)
      OBVIOUS
    <2>1. CASE d = c
      <3>1. waited'[d] = k + 1 /\ waited[d] = k
        BY <1>3, <2>1 DEF IndInv, TypeOK, k
      <3>2. reading'[d] = reading[d] \cup {s}
        BY <1>3, <2>1 DEF IndInv, TypeOK
      <3> QED BY <1>1, <1>2, <2>1, <3>1, <3>2 DEF Releases, Rounds
    <2>2. CASE d # c
      BY <1>3, <2>2 DEF Releases, Rounds, IndInv, TypeOK
    <2> QED BY <2>1, <2>2
  <1>7. \A p \in Producers, t \in Stage : Commits(p, t)' = Commits(p, t)
    BY <1>3 DEF Commits, Rounds
  <1>8. ConsumersInStep'
    <2> SUFFICES ASSUME NEW t \in Stage, NEW d \in Consumers
                 PROVE  /\ Releases(d, t)' \in {empty[t].done, empty[t].done + 1}
                        /\ Releases(d, t)' = empty[t].done + 1
                             => full[t].done = empty[t].done + 1
                        /\ t \in reading'[d] => /\ Releases(d, t)' = empty[t].done
                                                /\ full[t].done = empty[t].done + 1
      BY <1>3 DEF ConsumersInStep
    <2>1. reading'[d] = IF d = c THEN reading[d] \cup {s} ELSE reading[d]
      BY <1>3 DEF IndInv, TypeOK
    <2> QED BY <1>1, <1>6, <2>1 DEF IndInv, PhasesInStep, ConsumersInStep
  <1>9. ProducersInStep'
    BY <1>3, <1>7 DEF IndInv, PhasesInStep, ProducersInStep
  <1>10. CountsArrivals'
    <2> SUFFICES ASSUME NEW t \in Stage
                 PROVE  /\ full[t].done \in {empty[t].done, empty[t].done + 1}
                        /\ full[t].count = Cardinality(
                             {q \in Producers : Commits(q, t)' = full[t].done + 1})
                        /\ empty[t].count = Cardinality(
                             {d \in Consumers : Releases(d, t)' = empty[t].done + 1})
      BY <1>3 DEF CountsArrivals
    <2>1. /\ {q \in Producers : Commits(q, t)' = full[t].done + 1}
              = {q \in Producers : Commits(q, t) = full[t].done + 1}
          /\ {d \in Consumers : Releases(d, t)' = empty[t].done + 1}
              = {d \in Consumers : Releases(d, t) = empty[t].done + 1}
      BY <1>6, <1>7
    <2> QED BY <2>1 DEF IndInv, PhasesInStep, CountsArrivals
  <1> QED BY <1>4, <1>5, <1>8, <1>9, <1>10 DEF IndInv, PhasesInStep

\* consumer_release: the last consumer to arrive completes the phase of "empty".
LEMMA ReleaseIndInv ==
    ASSUME IndInv, NEW c \in Consumers, NEW s \in Stage, ConsumerRelease(c, s)
    PROVE  IndInv'
  <1> DEFINE e == empty[s].done
             B == {d \in Consumers : Releases(d, s) = e + 1}
  <1>1. /\ e \in Nat
        /\ empty[s].count \in 0 .. ConsumerArrivals - 1
        /\ empty[s] = [done |-> e, count |-> empty[s].count]
    BY DEF IndInv, TypeOK
  <1>2. /\ s \in reading[c]
        /\ empty' = [empty EXCEPT ![s] = Arrive(empty[s], ConsumerArrivals)]
        /\ reading' = [reading EXCEPT ![c] = @ \ {s}]
        /\ UNCHANGED <<full, cstate, pstate, waited, acquired, filling>>
    BY DEF ConsumerRelease
  <1>3. Releases(c, s) = e /\ full[s].done = e + 1
    BY <1>2 DEF IndInv, PhasesInStep, ConsumersInStep
  <1>4. empty[s].count = Cardinality(B)
    BY DEF IndInv, PhasesInStep, CountsArrivals
  <1>5. /\ Cardinality(B) \in Nat
        /\ ConsumerArrivals \in Nat
        /\ Cardinality(B \cup {c}) = Cardinality(B) + 1
        /\ Cardinality(B) + 1 =< ConsumerArrivals
        /\ Cardinality(B) + 1 = ConsumerArrivals <=> B \cup {c} = Consumers
    <2>1. c \notin B
      BY <1>1, <1>3
    <2> QED BY <2>1, OneMoreArrival, SidesAssumption DEF ConsumerArrivals
  <1>6. \A d \in Consumers, t \in Stage :
           Releases(d, t)' = Releases(d, t) + (IF d = c /\ t = s THEN 1 ELSE 0)
    <2> SUFFICES ASSUME NEW d \in Consumers, NEW t \in Stage
                 PROVE  Releases(d, t)' =
                          Releases(d, t) + (IF d = c /\ t = s THEN 1 ELSE 0)
      OBVIOUS
    <2>1. reading'[d] = IF d = c THEN reading[d] \ {s} ELSE reading[d]
      BY <1>2 DEF IndInv, TypeOK
    <2>2. Rounds(waited[d], t) \in Nat
      BY RoundsStep, ItemsAssumption DEF IndInv, TypeOK
    <2>3. Releases(d, t)' =
            Rounds(waited[d], t) - (IF t \in reading'[d] THEN 1 ELSE 0)
      BY <1>2 DEF Releases, Rounds
    <2> QED BY <1>2, <2>1, <2>2, <2>3 DEF Releases
  <1>7. \A p \in Producers, t \in Stage : Commits(p, t)' = Commits(p, t)
    BY <1>2 DEF Commits, Rounds
  <1>8. \A d \in Consumers : Releases(d, s) \in {e, e + 1}
    BY DEF IndInv, PhasesInStep, ConsumersInStep
  <1>9. \A t \in Stage : t # s => empty'[t] = empty[t]
    BY <1>2 DEF IndInv, TypeOK
  <1>10. empty'[s] = IF B \cup {c} = Consumers
                    THEN [done |-> e + 1, count |-> 0]
                    ELSE [done |-> e, count |-> Cardinality(B) + 1]
    <2>1. empty'[s] = Arrive(empty[s], ConsumerArrivals)
      BY <1>2 DEF IndInv, TypeOK
    <2> QED BY <1>1, <1>4, <1>5, <2>1 DEF Arrive
  <1>11. TypeOK'
    <2>1. empty'[s] \in [done : Nat, count : 0 .. ConsumerArrivals - 1]
      BY <1>1, <1>5, <1>10
    <2>2. empty' \in [Stage -> [done : Nat, count : 0 .. ConsumerArrivals - 1]]
      BY <1>2, <2>1 DEF IndInv, TypeOK
    <2> QED BY <1>2, <2>2 DEF IndInv, TypeOK
  <1>12. StatesTrackItems'
    BY <1>2 DEF IndInv, PhasesInStep, StatesTrackItems
  <1>13. \A d \in Consumers : Releases(d, s)' = e + 1 <=> d \in B \cup {c}
    BY <1>1, <1>3, <1>6, <1>8
  <1>14. ConsumersInStep'
    <2> SUFFICES ASSUME NEW t \in Stage, NEW d \in Consumers
                 PROVE  /\ Releases(d, t)' \in {empty'[t].done, empty'[t].done + 1}
                        /\ Releases(d, t)' = empty'[t].done + 1
                             => full[t].done = empty'[t].done + 1
                        /\ t \in reading'[d] => /\ Releases(d, t)' = empty'[t].done
                                                /\ full[t].done = empty'[t].done + 1
      BY <1>2 DEF ConsumersInStep
    <2>1. reading'[d] = IF d = c THEN reading[d] \ {s} ELSE reading[d]
      BY <1>2 DEF IndInv, TypeOK
    <2>2. CASE t # s
      BY <1>6, <1>9, <2>1, <2>2 DEF IndInv, PhasesInStep, ConsumersInStep, TypeOK
    <2>3. CASE t = s
      <3>1. s \in reading[d] => Releases(d, s) = e
        BY DEF IndInv, PhasesInStep, ConsumersInStep
      <3>2. CASE B \cup {c} = Consumers
        <4>1. empty'[s].done = e + 1 /\ Releases(d, s)' = e + 1
          BY <1>10, <1>13, <3>2
        <4>2. s \notin reading'[d]
          BY <1>1, <2>1, <3>1, <3>2
        <4> QED BY <1>1, <2>3, <4>1, <4>2
      <3>3. CASE B \cup {c} # Consumers
        <4>1. empty'[s].done = e
          BY <1>10, <3>3
        <4> QED BY <1>1, <1>3, <1>6, <1>8, <2>1, <2>3, <3>1, <4>1
      <3> QED BY <3>2, <3>3
    <2> QED BY <2>2, <2>3
  <1>15. ProducersInStep'
    <2> SUFFICES ASSUME NEW t \in Stage, NEW p \in Producers
                 PROVE  /\ Commits(p, t) \in {full[t].done, full[t].done + 1}
                        /\ Commits(p, t) = full[t].done + 1
                             => empty'[t].done = full[t].done
                        /\ t \in filling[p] => /\ Commits(p, t) = full[t].done
                                               /\ empty'[t].done = full[t].done
      BY <1>2, <1>7 DEF ProducersInStep
    <2>1. /\ Commits(p, t) \in {full[t].done, full[t].done + 1}
          /\ Commits(p, t) = full[t].done + 1
               => empty[t].done = full[t].done
          /\ t \in filling[p] => /\ Commits(p, t) = full[t].done
                                 /\ empty[t].done = full[t].done
      BY DEF IndInv, PhasesInStep, ProducersInStep
    <2>2. CASE t # s
      BY <1>9, <2>1, <2>2
    <2>3. CASE t = s
      BY <1>1, <1>3, <2>1, <2>3
    <2> QED BY <2>2, <2>3
  <1>16. CountsArrivals'
    <2> SUFFICES ASSUME NEW t \in Stage
                 PROVE  /\ full[t].done \in {empty'[t].done, empty'[t].done + 1}
                        /\ empty'[t].count = Cardinality(
                             {d \in Consumers : Releases(d, t)' = empty'[t].done + 1})
                        /\ full[t].count = Cardinality(
                             {p \in Producers : Commits(p, t) = full[t].done + 1})
      BY <1>2, <1>7 DEF CountsArrivals
    <2>1. full[t].count = Cardinality(
             {p \in Producers : Commits(p, t) = full[t].done + 1})
      BY DEF IndInv, PhasesInStep, CountsArrivals
    <2>2. CASE t # s
      <3>1. \A d \in Consumers : Releases(d, t)' = Releases(d, t)
        <4>1. \A d \in Consumers : Releases(d, t) \in {empty[t].done, empty[t].done + 1}
          BY DEF IndInv, PhasesInStep, ConsumersInStep
        <4>2. empty[t].done \in Nat
          BY DEF IndInv, TypeOK
        <4> QED BY <1>6, <2>2, <4>1, <4>2
      <3>2. empty'[t] = empty[t]
        BY <1>9, <2>2
      <3> QED BY <2>1, <3>1, <3>2 DEF IndInv, PhasesInStep, CountsArrivals
    <2>3. CASE t = s
      <3>1. CASE B \cup {c} = Consumers
        <4>1. empty'[s].done = e + 1 /\ empty'[s].count = 0
          BY <1>10, <3>1
        <4>2. {d \in Consumers : Releases(d, s)' = empty'[s].done + 1} = {}
          BY <1>1, <1>13, <3>1, <4>1
        <4> QED BY <1>1, <1>3, <2>1, <2>3, <4>1, <4>2, FS_EmptySet
      <3>2. CASE B \cup {c} # Consumers
        <4>1. empty'[s].done = e /\ empty'[s].count = Cardinality(B) + 1
          BY <1>10, <3>2
        <4>2. {d \in Consumers : Releases(d, s)' = empty'[s].done + 1} = B \cup {c}
          BY <1>13, <4>1
        <4> QED BY <1>3, <1>5, <2>1, <2>3, <4>1, <4>2
      <3> QED BY <3>1, <3>2
    <2> QED BY <2>2, <2>3
  <1> QED BY <1>11, <1>12, <1>14, <1>15, <1>16 DEF IndInv, PhasesInStep

\* A step that changes nothing.
LEMMA StutterIndInv == IndInv /\ UNCHANGED vars => IndInv'
  <1> SUFFICES ASSUME IndInv, UNCHANGED vars PROVE IndInv'
    OBVIOUS
  <1>1. /\ \A q \in Producers, t \in Stage : Commits(q, t)' = Commits(q, t)
        /\ \A d \in Consumers, t \in Stage : Releases(d, t)' = Releases(d, t)
    BY DEF vars, Commits, Releases, Rounds
  <1>2. TypeOK' /\ StatesTrackItems'
    BY DEF vars, IndInv, TypeOK, PhasesInStep, StatesTrackItems
  <1>3. ProducersInStep' /\ ConsumersInStep' /\ CountsArrivals'
    BY <1>1 DEF vars, IndInv, PhasesInStep, ProducersInStep, ConsumersInStep,
                CountsArrivals
  <1> QED BY <1>2, <1>3 DEF IndInv, PhasesInStep

-----------------------------------------------------------------------------
(* Theorems.                                                               *)

(* The barriers, the phase indices and the items each thread has passed     *)
(* agree in every reachable state.                                          *)
THEOREM InStep == Spec => [](TypeOK /\ PhasesInStep)
  <1>1. Init => IndInv
    BY InitIndInv
  <1>2. IndInv /\ [Next]_vars => IndInv'
    <2> SUFFICES ASSUME IndInv, [Next]_vars PROVE IndInv'
      OBVIOUS
    <2>1. CASE \E p \in Producers : ProducerAcquire(p)
      BY <2>1, AcquireIndInv
    <2>2. CASE \E p \in Producers, s \in Stage : ProducerCommit(p, s)
      BY <2>2, CommitIndInv
    <2>3. CASE \E c \in Consumers : ConsumerWait(c)
      BY <2>3, WaitIndInv
    <2>4. CASE \E c \in Consumers, s \in Stage : ConsumerRelease(c, s)
      BY <2>4, ReleaseIndInv
    <2>5. CASE Terminating \/ UNCHANGED vars
      BY <2>5, StutterIndInv DEF Terminating
    <2> QED BY <2>1, <2>2, <2>3, <2>4, <2>5 DEF Next, ProducerStep, ConsumerStep
  <1>3. IndInv => TypeOK /\ PhasesInStep
    BY DEF IndInv
  <1> QED BY <1>1, <1>2, <1>3, PTL DEF Spec

\* A reader's stage holds the item it waited for.
LEMMA IndInvReadsItsItem == IndInv => ReadsItsItem
  <1> SUFFICES ASSUME IndInv, NEW c \in Consumers, NEW s \in reading[c],
                      NEW p \in Producers
               PROVE  /\ s \notin filling[p]
                      /\ Rounds(acquired[p], s) = Rounds(waited[c], s)
    BY DEF ReadsItsItem
  <1>1. s \in Stage
    BY DEF IndInv, TypeOK
  <1>2. Releases(c, s) = empty[s].done /\ full[s].done = empty[s].done + 1
    BY <1>1 DEF IndInv, PhasesInStep, ConsumersInStep
  <1>3. /\ Commits(p, s) \in {full[s].done, full[s].done + 1}
        /\ Commits(p, s) = full[s].done + 1 => empty[s].done = full[s].done
        /\ s \in filling[p] => empty[s].done = full[s].done
    BY <1>1 DEF IndInv, PhasesInStep, ProducersInStep
  <1>4. full[s].done \in Nat /\ empty[s].done \in Nat
    BY <1>1 DEF IndInv, TypeOK
  <1>5. s \notin filling[p] /\ Commits(p, s) = full[s].done
    BY <1>2, <1>3, <1>4
  <1>6. Rounds(acquired[p], s) \in Nat /\ Rounds(waited[c], s) \in Nat
    BY <1>1, RoundsStep, ItemsAssumption DEF IndInv, TypeOK
  <1> QED BY <1>2, <1>4, <1>5, <1>6 DEF Commits, Releases

(* A consumer that holds a stage holds the item it waited for, and no        *)
(* producer is writing it.                                                   *)
THEOREM ReadsItsItemHolds == Spec => []ReadsItsItem
  BY InStep, IndInvReadsItsItem, PTL DEF IndInv

\* A passing producer_acquire is one the contract allows.
LEMMA AcquireImplements ==
    ASSUME IndInv, NEW p \in Producers, ProducerAcquire(p)
    PROVE  Contract!Acquire(p)
  <1> DEFINE k == acquired[p]
             s == k % Stages
  <1>1. /\ k \in Nat /\ s \in Stage
        /\ IndexOf(pstate[p]) = s
        /\ s \notin filling[p]
        /\ Commits(p, s) = full[s].done
        /\ empty[s].done = full[s].done
    BY AcquireMeans
  <1>2. ASSUME NEW c \in Consumers
        PROVE  waited[c] > k - Stages /\ s \notin reading[c]
    <2> DEFINE w == waited[c]
    <2>1. w \in Nat /\ full[s].done \in Nat
      BY <1>1, ItemsAssumption DEF IndInv, TypeOK
    <2>2. /\ s \in reading[c] => full[s].done = empty[s].done + 1
          /\ Releases(c, s) \in {empty[s].done, empty[s].done + 1}
      BY <1>1 DEF IndInv, PhasesInStep, ConsumersInStep
    <2>3. s \notin reading[c]
      BY <1>1, <2>1, <2>2
    <2>4. Rounds(k, s) = k \div Stages /\ Rounds(k, s) = full[s].done
      BY <1>1, RoundsStep DEF Commits
    <2>5. Rounds(w, s) >= k \div Stages
      <3>1. Rounds(w, s) \in Nat
        BY <1>1, <2>1, RoundsStep
      <3>2. Releases(c, s) = Rounds(w, s)
        BY <2>3, <3>1 DEF Releases
      <3> HIDE DEF w, k, s
      <3> QED BY <1>1, <2>1, <2>2, <2>4, <3>1, <3>2
    <2>6. /\ k \div Stages \in Nat /\ k = (Stages * (k \div Stages)) + s
          /\ w \div Stages \in Nat /\ w % Stages \in Stage
          /\ w = (Stages * (w \div Stages)) + (w % Stages)
      BY <1>1, <2>1, Division
    <2> DEFINE Q == k \div Stages
               V == w \div Stages
               R == w % Stages
    <2>7. V + (IF s < R THEN 1 ELSE 0) >= Q
      BY <2>5 DEF Rounds
    <2> HIDE DEF k, s, w, Q, V, R
    <2>8. w > k - Stages
      <3>1. CASE V >= Q
        <4>1. Stages * V >= Stages * Q
          BY <2>6, <3>1, StagesAssumption, Z3 DEF Q, V
        <4> QED BY <1>1, <2>6, <4>1, StagesAssumption, Z3 DEF Stage, Q, V, R
      <3>2. CASE V = Q - 1 /\ s < R
        <4>1. Stages * V = (Stages * Q) - Stages
          BY <2>6, <3>2, StagesAssumption, Z3 DEF Q, V
        <4> QED BY <1>1, <2>6, <3>2, <4>1, StagesAssumption, Z3 DEF Stage, Q, V, R
      <3> QED BY <2>6, <2>7, <3>1, <3>2 DEF Q, V
    <2> QED BY <2>3, <2>8 DEF w
  <1>3. Contract!MayAcquire(p)
    BY <1>2 DEF Contract!MayAcquire, ProducerAcquire
  <1> QED BY <1>1, <1>3 DEF Contract!Acquire, ProducerAcquire

\* A passing consumer_wait is one the contract allows.
LEMMA WaitImplements ==
    ASSUME IndInv, NEW c \in Consumers, ConsumerWait(c)
    PROVE  Contract!Wait(c)
  <1> DEFINE k == waited[c]
             s == k % Stages
  <1>1. /\ k \in Nat /\ s \in Stage
        /\ IndexOf(cstate[c]) = s
        /\ s \notin reading[c]
        /\ Releases(c, s) = empty[s].done
        /\ full[s].done = empty[s].done + 1
    BY WaitMeans
  <1>2. ASSUME NEW p \in Producers
        PROVE  acquired[p] > k /\ s \notin filling[p]
    <2> DEFINE a == acquired[p]
    <2>1. a \in Nat /\ full[s].done \in Nat /\ empty[s].done \in Nat
      BY <1>1, ItemsAssumption DEF IndInv, TypeOK
    <2>2. /\ s \in filling[p] => empty[s].done = full[s].done
          /\ Commits(p, s) \in {full[s].done, full[s].done + 1}
      BY <1>1 DEF IndInv, PhasesInStep, ProducersInStep
    <2>3. s \notin filling[p]
      BY <1>1, <2>1, <2>2
    <2>4. Rounds(k, s) = k \div Stages /\ Rounds(k, s) = empty[s].done
      BY <1>1, RoundsStep DEF Releases
    <2>5. Rounds(a, s) >= (k \div Stages) + 1
      <3>1. Rounds(a, s) \in Nat
        BY <1>1, <2>1, RoundsStep
      <3>2. Commits(p, s) = Rounds(a, s)
        BY <2>3, <3>1 DEF Commits
      <3> HIDE DEF a, k, s
      <3> QED BY <1>1, <2>1, <2>2, <2>4, <3>1, <3>2
    <2>6. /\ k \div Stages \in Nat /\ k = (Stages * (k \div Stages)) + s
          /\ a \div Stages \in Nat /\ a % Stages \in Stage
          /\ a = (Stages * (a \div Stages)) + (a % Stages)
      BY <1>1, <2>1, Division
    <2> DEFINE Q == k \div Stages
               V == a \div Stages
               R == a % Stages
    <2>7. V + (IF s < R THEN 1 ELSE 0) >= Q + 1
      BY <2>5 DEF Rounds
    <2> HIDE DEF k, s, a, Q, V, R
    <2>8. a > k
      <3>1. CASE V >= Q + 1
        <4>1. Stages * V >= (Stages * Q) + Stages
          BY <2>6, <3>1, StagesAssumption, Z3 DEF Q, V
        <4> QED BY <1>1, <2>6, <4>1, StagesAssumption, Z3 DEF Stage, Q, V, R
      <3>2. CASE V = Q /\ s < R
        <4>1. Stages * V = Stages * Q
          BY <3>2
        <4> QED BY <1>1, <2>6, <3>2, <4>1, StagesAssumption, Z3 DEF Stage, Q, V, R
      <3> QED BY <2>6, <2>7, <3>1, <3>2 DEF Q, V
    <2> QED BY <2>3, <2>8 DEF a
  <1>3. Contract!MayRead(c)
    BY <1>2 DEF Contract!MayRead, ConsumerWait
  <1> QED BY <1>1, <1>3 DEF Contract!Wait, ConsumerWait

(* The mbarrier protocol keeps the promise of PipelineContract: a stage is   *)
(* acquired only when all of its readers are done with it, and read only     *)
(* when all of its writers are.                                              *)
THEOREM Implementation == Spec => ImplementsContract
  <1>1. Init => Contract!Init
    BY DEF Init, Contract!Init
  <1>2. IndInv /\ [Next]_vars => [Contract!Next]_(Contract!cvars)
    <2> SUFFICES ASSUME IndInv, [Next]_vars
                 PROVE  Contract!Next \/ UNCHANGED Contract!cvars
      OBVIOUS
    <2>1. CASE \E p \in Producers : ProducerAcquire(p)
      BY <2>1, AcquireImplements DEF Contract!Next
    <2>2. CASE \E p \in Producers, s \in Stage : ProducerCommit(p, s)
      BY <2>2 DEF ProducerCommit, Stage, Contract!Next, Contract!Commit
    <2>3. CASE \E c \in Consumers : ConsumerWait(c)
      BY <2>3, WaitImplements DEF Contract!Next
    <2>4. CASE \E c \in Consumers, s \in Stage : ConsumerRelease(c, s)
      BY <2>4 DEF ConsumerRelease, Stage, Contract!Next, Contract!Release
    <2>5. CASE Terminating \/ UNCHANGED vars
      BY <2>5 DEF Terminating, vars, Contract!cvars
    <2> QED BY <2>1, <2>2, <2>3, <2>4, <2>5 DEF Next, ProducerStep, ConsumerStep
  <1> QED BY <1>1, <1>2, InStep, PTL
          DEF Spec, ImplementsContract, Contract!Spec, IndInv
===============================================================================
