------------------------- MODULE CMAIteration_proofs -------------------------
(***************************************************************************)
(* What holds of CMAIteration, and of the play thread of EaInstance that   *)
(* drives it, for every population size, every finite set or range of      *)
(* objective values and every length of a run.                             *)
(***************************************************************************)
EXTENDS EaInstance, FiniteSetTheorems, TLAPS

(* The inductive invariant.  The caller's copies are the sampled points,   *)
(* so that the points it evaluates are those bestever and raw refer to.    *)
CopiesInv == population = arx
RecentInv ==
  /\ lastcounteval <= counteval
  /\ state = 3 => counteval >= Lambda
  /\ RecentAttributed
IterationInv ==
  /\ TypeOK /\ CopiesInv /\ BestAttributed /\ BestIsFirst
  /\ RecentInv /\ TargetReported

(* The first of the sorted values is the smallest, and of equal ones the   *)
(* one with the smallest index.                                            *)
LEMMA FirstIsSmallest ==
  ASSUME NEW v \in [Index -> Value], NEW order \in [Index -> Index],
         Permutation(order), Sorted(order, v), NEW i \in Index
  PROVE  /\ 0 \in Index /\ order[0] \in Index
         /\ v[order[0]] <= v[i]
         /\ i < order[0] => v[order[0]] < v[i]
<1>1. 0 \in Index /\ order[0] \in Index
  BY IterationAssumption DEF Index
<1>2. PICK k \in Index : order[k] = i
  BY DEF Permutation
<1>3. v[order[0]] \in Int /\ v[i] \in Int
  BY <1>1, IterationAssumption
<1>4. CASE k = 0
  BY <1>1, <1>2, <1>3, <1>4, IterationAssumption DEF Index
<1>5. CASE k # 0
  <2>1. 0 < k
    BY <1>5, IterationAssumption DEF Index
  <2>2. v[order[0]] < v[i] \/ (v[order[0]] = v[i] /\ order[0] < i)
    BY <1>1, <1>2, <2>1 DEF Sorted
  <2>. QED
    BY <1>1, <1>3, <2>2, IterationAssumption DEF Index
<1>. QED
  BY <1>4, <1>5

(* Every evaluation keeps its number; the new ones follow.                 *)
LEMMA CountExtends ==
  ASSUME TypeOK, NEW n \in Nat, n > 0, NEW new \in [1..n -> Evaluation],
         Count(n, new)
  PROVE  /\ counteval' = counteval + n /\ counteval' \in Nat
         /\ log' \in [1..counteval' -> Evaluation]
         /\ \A k \in 1..counteval : log'[k] = log[k]
         /\ \A k \in 1..n : counteval + k \in 1..counteval'
                              /\ log'[counteval + k] = new[k]
         /\ since' \in 0..counteval'
<1>1. counteval \in Nat /\ counteval' = counteval + n /\ counteval' \in Nat
  BY DEF TypeOK, Count
<1>2. ASSUME NEW k \in 1..counteval'
      PROVE  /\ k <= counteval => log'[k] = log[k] /\ log[k] \in Evaluation
             /\ k > counteval => /\ log'[k] = new[k - counteval]
                                 /\ k - counteval \in 1..n
                                 /\ new[k - counteval] \in Evaluation
  BY <1>1 DEF TypeOK, Count
<1>3. log' \in [1..counteval' -> Evaluation]
  BY <1>1, <1>2 DEF Count
<1>4. \A k \in 1..counteval : log'[k] = log[k]
  BY <1>1, <1>2
<1>5. \A k \in 1..n : counteval + k \in 1..counteval'
                        /\ log'[counteval + k] = new[k]
  <2>. SUFFICES ASSUME NEW k \in 1..n
                PROVE  counteval + k \in 1..counteval'
                         /\ log'[counteval + k] = new[k]
    OBVIOUS
  <2>1. counteval + k \in 1..counteval' /\ counteval + k > counteval
    BY <1>1
  <2>2. (counteval + k) - counteval = k
    BY <1>1
  <2>. QED
    BY <1>2, <2>1, <2>2
<1>6. since' \in 0..counteval'
  BY <1>1 DEF TypeOK, Count
<1>. QED
  BY <1>1, <1>3, <1>4, <1>5, <1>6

LEMMA InitInv == Init => IterationInv
<1>. SUFFICES ASSUME Init PROVE IterationInv
  OBVIOUS
<1>1. TypeOK
  <2>1. log \in [1..counteval -> Evaluation]
    <3>1. 1..counteval = {}
      BY DEF Init
    <3>2. log = [k \in {} |-> k]
      BY DEF Init
    <3>. QED
      BY <3>1, <3>2
  <2>. QED
    BY <2>1, IterationAssumption DEF Init, TypeOK, NoBest, Zeros, Index
<1>. QED
  BY <1>1, IterationAssumption
     DEF Init, IterationInv, CopiesInv, BestAttributed, BestIsFirst, NoBest,
         RecentInv, RecentAttributed, TargetReported, Below

(* New evaluations of which the one numbered counteval + m is the first    *)
(* smallest, and is offered to updateBestEver, leave bestever attributed   *)
(* and the first of the smallest: it is replaced outright in the first     *)
(* iteration, where since moves as well, else only by a smaller value.     *)
Smallest(new, n, m) ==
  \A k \in 1..n : /\ new[m].val <= new[k].val
                  /\ k < m => new[m].val < new[k].val

LEMMA BestKept ==
  ASSUME TypeOK, BestAttributed, BestIsFirst,
         NEW n \in Nat, NEW new \in [1..n -> Evaluation], NEW m \in 1..n,
         Count(n, new),
         UpdateBestEver(new[m].x, new[m].val, counteval + m),
         Smallest(new, n, m)
  PROVE  /\ bestever' \in [x : Int, fit : Value \cup {NaN}, eval : Nat]
         /\ BestAttributed' /\ BestIsFirst'
<1>1. /\ counteval \in Nat /\ counteval' = counteval + n
      /\ counteval' \in Nat /\ log' \in [1..counteval' -> Evaluation]
      /\ \A k \in 1..counteval : log'[k] = log[k]
      /\ \A k \in 1..n : counteval + k \in 1..counteval'
                           /\ log'[counteval + k] = new[k]
      /\ since' \in 0..counteval'
  <2>1. n > 0
    OBVIOUS
  <2>. QED
    BY <2>1, CountExtends DEF TypeOK
<1>2. /\ new[m] \in Evaluation
      /\ new[m].x \in Int /\ new[m].val \in Value /\ new[m].val \in Int
      /\ new[m].val # NaN
      /\ new[m] = [x |-> new[m].x, val |-> new[m].val]
  BY IterationAssumption DEF Evaluation
<1>3. \A k \in 1..counteval' : log'[k].val \in Int
  BY <1>1, IterationAssumption DEF Evaluation
<1>4. \A k \in 1..counteval' : k > counteval =>
        /\ new[m].val <= log'[k].val
        /\ k < counteval + m => new[m].val < log'[k].val
  <2>. SUFFICES ASSUME NEW k \in 1..counteval', k > counteval
                PROVE  /\ new[m].val <= log'[k].val
                       /\ k < counteval + m => new[m].val < log'[k].val
    OBVIOUS
  <2>1. k - counteval \in 1..n /\ counteval + (k - counteval) = k
    BY <1>1
  <2>2. log'[k] = new[k - counteval]
    BY <1>1, <2>1
  <2>. QED
    BY <1>1, <2>1, <2>2 DEF Smallest
<1>5. since' = IF countiter = 1 THEN counteval + 1 ELSE since
  BY DEF Count
<1>6. CASE Improves(new[m].val)
  <2>1. bestever' = [x |-> new[m].x, fit |-> new[m].val, eval |-> counteval + m]
    BY <1>6 DEF UpdateBestEver
  <2>2. bestever' \in [x : Int, fit : Value \cup {NaN}, eval : Nat]
    BY <1>1, <1>2, <2>1
  <2>3. BestAttributed'
    BY <1>1, <1>2, <2>1 DEF BestAttributed
  <2>4. ASSUME NEW k \in since'..counteval', since' > 0
        PROVE  /\ new[m].val <= log'[k].val
               /\ k < counteval + m => new[m].val < log'[k].val
    <3>1. k \in 1..counteval'
      BY <1>1, <2>4
    <3>2. CASE k > counteval
      BY <1>4, <3>1, <3>2
    <3>3. CASE k <= counteval
      <4>1. countiter # 1 /\ since' = since
        BY <1>1, <1>5, <3>3
      <4>2. k \in since..counteval /\ k \in 1..counteval /\ since > 0
        BY <1>1, <2>4, <3>1, <3>3, <4>1
      <4>3. new[m].val < bestever.fit /\ bestever.fit <= log[k].val
        BY <1>6, <4>1, <4>2 DEF Improves, BestIsFirst
      <4>4. bestever.fit \in Int /\ log[k].val \in Int /\ log'[k] = log[k]
        BY <1>1, <1>3, <1>6, <3>1, <4>1, <4>2, IterationAssumption
           DEF TypeOK, Improves
      <4>. QED
        BY <1>2, <4>3, <4>4
    <3>. QED
      BY <1>1, <3>1, <3>2, <3>3
  <2>5. BestIsFirst'
    BY <1>2, <2>1, <2>4 DEF BestIsFirst
  <2>. QED
    BY <2>2, <2>3, <2>5
<1>7. CASE ~Improves(new[m].val)
  <2>1. bestever' = bestever /\ countiter # 1 /\ since' = since
    BY <1>5, <1>7 DEF UpdateBestEver, Improves
  <2>2. bestever \in [x : Int, fit : Value \cup {NaN}, eval : Nat]
    BY DEF TypeOK
  <2>3. BestAttributed'
    BY <1>1, <2>1 DEF BestAttributed
  <2>4. ASSUME since > 0, NEW k \in since..counteval'
        PROVE  /\ bestever.fit <= log'[k].val
               /\ k < bestever.eval => bestever.fit < log'[k].val
    <3>1. since \in Nat /\ k \in 1..counteval'
      BY <1>1, <2>4 DEF TypeOK
    <3>2. bestever.fit # NaN /\ bestever.fit \in Int
            /\ bestever.eval \in 1..counteval
      BY <2>2, <2>4, IterationAssumption DEF BestIsFirst, BestAttributed
    <3>3. CASE k <= counteval
      BY <1>1, <2>4, <3>1, <3>3 DEF BestIsFirst
    <3>4. CASE k > counteval
      <4>1. bestever.fit <= new[m].val
        BY <1>2, <1>7, <3>2 DEF Improves
      <4>. QED
        BY <1>1, <1>2, <1>3, <1>4, <3>1, <3>2, <3>4, <4>1
    <3>. QED
      BY <1>1, <3>1, <3>3, <3>4
  <2>5. BestIsFirst'
    BY <2>1, <2>4 DEF BestIsFirst
  <2>. QED
    BY <2>1, <2>2, <2>3, <2>5
<1>. QED
  BY <1>6, <1>7

(* More evaluations, with the StopCondition object left alone, keep its    *)
(* report true and make its verdict one of the past.                       *)
LEMMA ReportKept ==
  ASSUME TypeOK, TargetReported, lastcounteval <= counteval,
         NEW n \in Nat, n > 0, NEW new \in [1..n -> Evaluation],
         Count(n, new), UNCHANGED stop
  PROVE  TargetReported' /\ lastcounteval' <= counteval'
<1>1. /\ counteval \in Nat /\ counteval' = counteval + n
      /\ \A k \in 1..counteval : log'[k] = log[k]
  BY CountExtends DEF TypeOK
<1>2. messages' = messages /\ lastcounteval' = lastcounteval
        /\ lastcounteval \in Nat
  BY DEF stop, TypeOK
<1>3. lastcounteval' < counteval'
  BY <1>1, <1>2
<1>4. \A k \in 1..lastcounteval : log'[k] = log[k]
  BY <1>1, <1>2
<1>. QED
  BY <1>1, <1>2, <1>3, <1>4 DEF TargetReported

LEMMA SampleInv == IterationInv /\ SamplePopulation => IterationInv'
<1>. SUFFICES ASSUME IterationInv, SamplePopulation PROVE IterationInv'
  OBVIOUS
<1>1. UNCHANGED <<counteval, xmean, raw, bestever, log, since, messages,
                  lastcounteval>>
  BY DEF SamplePopulation, evaluation, stop
<1>2. Draw \in [Index -> Nat]
  BY DEF IterationInv, TypeOK, Draw, Index
<1>3. TypeOK'
  <2>1. countiter' \in Nat /\ draws' \in Nat
    BY IterationAssumption DEF IterationInv, TypeOK, SamplePopulation
  <2>2. idxRecentOffspring' \in Index
    BY IterationAssumption DEF SamplePopulation, Index
  <2>3. arx' \in [Index -> Nat] /\ population' \in [Index -> Nat] /\ state' = 1
    BY <1>2 DEF SamplePopulation
  <2>. QED
    BY <1>1, <2>1, <2>2, <2>3 DEF IterationInv, TypeOK
<1>4. CopiesInv' /\ state' = 1
  BY DEF SamplePopulation, CopiesInv
<1>. QED
  BY <1>1, <1>3, <1>4
     DEF IterationInv, BestAttributed, BestIsFirst, RecentInv,
         RecentAttributed, TargetReported

LEMMA ResampleInv ==
  ASSUME IterationInv, NEW i \in Index, ResampleSingle(i)
  PROVE  IterationInv'
<1>1. UNCHANGED <<state, countiter, counteval, xmean, raw, bestever, log, since,
                  messages, lastcounteval, idxRecentOffspring>>
  BY DEF ResampleSingle, evaluation, stop
<1>2. arx' \in [Index -> Nat] /\ population' = arx' /\ draws' \in Nat
  BY DEF IterationInv, TypeOK, CopiesInv, ResampleSingle
<1>3. TypeOK'
  BY <1>1, <1>2 DEF IterationInv, TypeOK
<1>4. state' = 1
  BY <1>1 DEF ResampleSingle
<1>. QED
  BY <1>1, <1>2, <1>3, <1>4
     DEF IterationInv, CopiesInv, BestAttributed, BestIsFirst, RecentInv,
         RecentAttributed, TargetReported

LEMMA UpdateInv ==
  ASSUME IterationInv, NEW v \in [Index -> Value], UpdateDistribution(v)
  PROVE  IterationInv'
<1>. DEFINE new == [k \in 1..Lambda |-> [x |-> population[k - 1],
                                         val |-> v[k - 1]]]
<1>1. /\ Count(Lambda, new) /\ Lambda \in Nat /\ Lambda > 1
      /\ xmean' = -(counteval + Lambda) /\ state' = 3
      /\ UNCHANGED <<countiter, arx, population, idxRecentOffspring, draws>>
      /\ UNCHANGED stop
  BY IterationAssumption DEF UpdateDistribution, Absorb, sample
<1>2. PICK order \in [Index -> Index] :
        /\ Permutation(order) /\ Sorted(order, v)
        /\ raw' = [k \in Index |-> [val |-> v[order[k]], i |-> order[k]]]
        /\ UpdateBestEver(arx[order[0]], v[order[0]], counteval + order[0] + 1)
  BY DEF UpdateDistribution, Absorb
<1>3. /\ TypeOK /\ CopiesInv /\ BestAttributed /\ BestIsFirst /\ RecentInv
      /\ TargetReported
  BY DEF IterationInv
<1>4. \A k \in 1..Lambda : k - 1 \in Index /\ v[k - 1] \in Value
                             /\ v[k - 1] \in Int /\ population[k - 1] \in Nat
  <2>1. \A k \in 1..Lambda : k - 1 \in Index
    BY <1>1 DEF Index
  <2>2. population \in [Index -> Nat]
    BY <1>3 DEF TypeOK
  <2>. QED
    BY <2>1, <2>2, IterationAssumption
<1>5. new \in [1..Lambda -> Evaluation]
  BY <1>4 DEF Evaluation
<1>. DEFINE m == order[0] + 1
<1>6. /\ 0 \in Index /\ order[0] \in Index /\ order[0] \in Nat
      /\ m \in 1..Lambda /\ m - 1 = order[0]
  BY <1>1, SMTT(30) DEF Index
<1>7. new[m] = [x |-> arx[order[0]], val |-> v[order[0]]]
  BY <1>3, <1>6 DEF CopiesInv
<1>8. Smallest(new, Lambda, m)
  <2>. SUFFICES ASSUME NEW k \in 1..Lambda
                PROVE  /\ new[m].val <= new[k].val
                       /\ k < m => new[m].val < new[k].val
    BY DEF Smallest
  <2>1. new[k].val = v[k - 1] /\ new[m].val = v[order[0]]
    BY <1>7
  <2>2. k - 1 \in Index /\ (k < m => k - 1 < order[0])
    BY <1>1, <1>4, <1>6
  <2>. HIDE DEF new, m
  <2>3. /\ v[order[0]] <= v[k - 1]
        /\ k - 1 < order[0] => v[order[0]] < v[k - 1]
    BY <1>2, <2>2, FirstIsSmallest
  <2>. QED
    BY <2>1, <2>2, <2>3
<1>9. UpdateBestEver(new[m].x, new[m].val, counteval + m)
  <2>1. counteval + order[0] + 1 = counteval + m
    BY <1>3, <1>6 DEF TypeOK
  <2>. QED
    BY <1>2, <1>7, <2>1
<1>. HIDE DEF new, m
<1>10. /\ bestever' \in [x : Int, fit : Value \cup {NaN}, eval : Nat]
       /\ BestAttributed' /\ BestIsFirst'
  BY <1>1, <1>3, <1>5, <1>6, <1>8, <1>9, BestKept
<1>11. TargetReported' /\ lastcounteval' <= counteval'
  BY <1>1, <1>3, <1>5, ReportKept DEF RecentInv
<1>12. /\ counteval \in Nat
       /\ counteval' = counteval + Lambda /\ counteval' \in Nat
       /\ log' \in [1..counteval' -> Evaluation]
       /\ \A k \in 1..Lambda : counteval + k \in 1..counteval'
                                 /\ log'[counteval + k] = new[k]
       /\ since' \in 0..counteval'
  BY <1>1, <1>3, <1>5, CountExtends, SMTT(30) DEF TypeOK
<1>13. /\ raw' \in [Index -> [val : Int, i : Index]]
       /\ raw'[0].i = order[0] /\ raw'[0].val = v[order[0]]
  BY <1>2, <1>6, IterationAssumption
<1>14. TypeOK'
  <2>1. xmean' \in Int /\ xmean' < 0
    BY <1>1, <1>12
  <2>2. UNCHANGED <<messages, lastcounteval>>
    BY <1>1 DEF stop
  <2>. QED
    BY <1>1, <1>3, <1>10, <1>12, <1>13, <2>1, <2>2 DEF TypeOK
<1>15. RecentInv'
  <2>1. RecentSolution' = [x |-> arx[order[0]], val |-> v[order[0]],
                           eval |-> counteval + m]
    <3>1. counteval' - Lambda + order[0] + 1 = counteval + m
      BY <1>1, <1>6, <1>12 DEF m
    <3>. QED
      BY <1>1, <1>13, <3>1 DEF RecentSolution
  <2>2. log'[counteval + m] = [x |-> arx[order[0]], val |-> v[order[0]]]
          /\ counteval + m \in (counteval' - Lambda + 1)..counteval'
    BY <1>1, <1>6, <1>7, <1>12
  <2>3. ASSUME NEW k \in (counteval' - Lambda + 1)..counteval'
        PROVE  v[order[0]] <= log'[k].val
    <3>1. k - counteval \in 1..Lambda /\ counteval + (k - counteval) = k
      BY <1>1, <1>12
    <3>2. log'[k] = new[k - counteval]
      BY <1>12, <3>1
    <3>3. new[m].val = v[order[0]]
      BY <1>7
    <3>4. new[m].val <= new[k - counteval].val
      BY <1>8, <3>1 DEF Smallest
    <3>. QED
      BY <3>2, <3>3, <3>4
  <2>4. RecentAttributed'
    BY <2>1, <2>2, <2>3 DEF RecentAttributed
  <2>. QED
    BY <1>1, <1>11, <1>12, <2>4 DEF RecentInv
<1>. QED
  BY <1>1, <1>3, <1>10, <1>11, <1>14, <1>15 DEF IterationInv, CopiesInv

LEMMA MeanInv ==
  ASSUME IterationInv, NEW f \in Value, SetFitnessOfMeanX(f)
  PROVE  IterationInv'
<1>. DEFINE new == [k \in 1..1 |-> [x |-> xmean, val |-> f]]
<1>1. /\ Count(1, new) /\ UpdateBestEver(xmean, f, counteval + 1)
      /\ UNCHANGED <<state, countiter, arx, population, idxRecentOffspring,
                     draws, xmean, raw>>
      /\ UNCHANGED stop
  BY DEF SetFitnessOfMeanX, sample
<1>2. /\ TypeOK /\ CopiesInv /\ BestAttributed /\ BestIsFirst /\ RecentInv
      /\ TargetReported
  BY DEF IterationInv
<1>3. /\ new \in [1..1 -> Evaluation] /\ 1 \in 1..1
      /\ new[1] = [x |-> xmean, val |-> f]
      /\ \A k \in 1..1 : k = 1 /\ new[1].val <= new[k].val
  BY <1>2, IterationAssumption DEF TypeOK, Evaluation
<1>4. UpdateBestEver(new[1].x, new[1].val, counteval + 1)
  BY <1>1, <1>3
<1>. HIDE DEF new
<1>5. /\ bestever' \in [x : Int, fit : Value \cup {NaN}, eval : Nat]
      /\ BestAttributed' /\ BestIsFirst'
  <2>1. Smallest(new, 1, 1)
    BY <1>3 DEF Smallest
  <2>. QED
    BY <1>1, <1>2, <1>3, <1>4, <2>1, BestKept
<1>6. TargetReported' /\ lastcounteval' <= counteval'
  <2>1. lastcounteval <= counteval /\ 1 \in Nat /\ 1 > 0
    BY <1>2 DEF RecentInv
  <2>. QED
    BY <1>1, <1>2, <1>3, <2>1, ReportKept
<1>7. /\ counteval \in Nat
      /\ counteval' = counteval + 1 /\ counteval' \in Nat
      /\ log' \in [1..counteval' -> Evaluation]
      /\ log'[counteval'] = new[1]
      /\ since' \in 0..counteval'
  <2>. DEFINE n == 1
  <2>1. n \in Nat /\ n > 0 /\ new \in [1..n -> Evaluation] /\ Count(n, new)
    BY <1>1, <1>3
  <2>2. 1 \in 1..n /\ counteval \in Nat
    BY <1>2 DEF TypeOK
  <2>. HIDE DEF n
  <2>3. /\ counteval' = counteval + n /\ counteval' \in Nat
        /\ log' \in [1..counteval' -> Evaluation]
        /\ \A k \in 1..n : log'[counteval + k] = new[k]
        /\ since' \in 0..counteval'
    BY <1>2, <2>1, CountExtends
  <2>4. log'[counteval + 1] = new[1]
    BY <2>2, <2>3
  <2>. QED
    BY <2>2, <2>3, <2>4 DEF n
<1>8. TypeOK'
  BY <1>1, <1>2, <1>5, <1>7 DEF TypeOK, stop
<1>9. MeanEvaluated'
  BY <1>2, <1>3, <1>7 DEF MeanEvaluated, TypeOK
<1>10. RecentInv'
  BY <1>1, <1>2, <1>6, <1>7, <1>9, IterationAssumption
     DEF RecentInv, RecentAttributed
<1>. QED
  BY <1>1, <1>2, <1>5, <1>6, <1>8, <1>10 DEF IterationInv, CopiesInv

LEMMA TestInv == IterationInv /\ Test => IterationInv'
<1>. SUFFICES ASSUME IterationInv, Test PROVE IterationInv'
  OBVIOUS
<1>1. /\ UNCHANGED <<state, countiter, arx, population, idxRecentOffspring,
                     draws, counteval, xmean, raw, bestever, log, since>>
      /\ lastcounteval' = counteval
  BY DEF Test, sample, evaluation
<1>2. messages' \subseteq Criterion
  BY DEF Test, IterationInv, TypeOK, Criterion
<1>3. TypeOK'
  BY <1>1, <1>2 DEF IterationInv, TypeOK
<1>4. Below => \E k \in 1..counteval : log[k].val <= StopFitness
  BY DEF IterationInv, BestAttributed, Below
<1>5. "Fitness" \in messages' =>
        \E k \in 1..lastcounteval' : log'[k].val <= StopFitness
  <2>1. CASE "Fitness" \in messages
    <3>1. PICK k \in 1..lastcounteval : log[k].val <= StopFitness
      BY <2>1 DEF IterationInv, TargetReported
    <3>2. k \in 1..counteval
      BY DEF IterationInv, RecentInv, TypeOK
    <3>. QED
      BY <1>1, <3>1, <3>2
  <2>2. CASE "Fitness" \notin messages
    <3>1. "Fitness" \in messages' => Below
      BY <2>2 DEF Test, Holds, Target
    <3>. QED
      BY <1>1, <1>4, <3>1
  <2>. QED
    BY <2>1, <2>2
<1>6. state' = 3 /\ Below' => "Fitness" \in messages'
  <2>1. Below' <=> Below
    BY <1>1 DEF Below
  <2>. QED
    BY <1>1, <2>1 DEF Test, Holds, Target, Criterion
<1>7. TargetReported'
  BY <1>5, <1>6 DEF TargetReported
<1>8. RecentInv' /\ CopiesInv' /\ BestAttributed' /\ BestIsFirst'
  BY <1>1, <1>3
     DEF IterationInv, TypeOK, RecentInv, RecentAttributed, RecentSolution,
         MeanEvaluated, CopiesInv, BestAttributed, BestIsFirst
<1>. QED
  BY <1>3, <1>7, <1>8 DEF IterationInv

LEMMA QuietInv == IterationInv /\ (Clear \/ UNCHANGED vars) => IterationInv'
<1>. SUFFICES ASSUME IterationInv, Clear \/ UNCHANGED vars PROVE IterationInv'
  OBVIOUS
<1>1. /\ UNCHANGED <<state, countiter, arx, population, idxRecentOffspring,
                     draws, counteval, xmean, raw, bestever, log, since,
                     lastcounteval>>
      /\ messages' = messages \/ messages' = {}
  BY DEF Clear, vars, sample, evaluation, stop
<1>2. TypeOK'
  BY <1>1 DEF IterationInv, TypeOK
<1>3. TargetReported'
  BY <1>1 DEF IterationInv, TargetReported, Below
<1>. QED
  BY <1>1, <1>2, <1>3
     DEF IterationInv, RecentInv, RecentAttributed, RecentSolution,
         MeanEvaluated, CopiesInv, BestAttributed, BestIsFirst

(* Every state of every run satisfies the inductive invariant.             *)
THEOREM IterationInvariant == Spec => []IterationInv
<1>1. Init => IterationInv
  BY InitInv
<1>2. IterationInv /\ [Next]_vars => IterationInv'
  <2>. SUFFICES ASSUME IterationInv, [Next]_vars PROVE IterationInv'
    OBVIOUS
  <2>1. CASE SamplePopulation
    BY <2>1, SampleInv
  <2>2. ASSUME NEW i \in Index, ResampleSingle(i) PROVE IterationInv'
    BY <2>2, ResampleInv
  <2>3. ASSUME NEW v \in [Index -> Value], UpdateDistribution(v)
        PROVE  IterationInv'
    BY <2>3, UpdateInv
  <2>4. ASSUME NEW f \in Value, SetFitnessOfMeanX(f) PROVE IterationInv'
    BY <2>4, MeanInv
  <2>5. CASE Test
    BY <2>5, TestInv
  <2>6. CASE Clear \/ UNCHANGED vars
    BY <2>6, QuietInv
  <2>. QED
    BY <2>1, <2>2, <2>3, <2>4, <2>5, <2>6 DEF Next
<1>. QED
  BY <1>1, <1>2, PTL DEF Spec

(* Type correctness.                                                       *)
THEOREM TypeCorrect == Spec => []TypeOK
<1>1. IterationInv => TypeOK
  BY DEF IterationInv
<1>. QED
  BY <1>1, IterationInvariant, PTL

(* The best-ever solution is an evaluated point with its own value and     *)
(* number, for every interleaving of sampling, resampling and updates.     *)
THEOREM BestCorrect == Spec => []BestAttributed
<1>1. IterationInv => BestAttributed
  BY DEF IterationInv
<1>. QED
  BY <1>1, IterationInvariant, PTL

(* It is the first of the smallest values since the first iteration.       *)
THEOREM BestMinimal == Spec => []BestIsFirst
<1>1. IterationInv => BestIsFirst
  BY DEF IterationInv
<1>. QED
  BY <1>1, IterationInvariant, PTL

(* getBestRecentSolution is right between an update and the evaluation of  *)
(* the mean.                                                               *)
THEOREM RecentCorrect == Spec => []RecentAttributed
<1>1. IterationInv => RecentAttributed
  BY DEF IterationInv, RecentInv
<1>. QED
  BY <1>1, IterationInvariant, PTL

(* The target is reported when, and only when, it was reached.             *)
THEOREM ReportCorrect == Spec => []TargetReported
<1>1. IterationInv => TargetReported
  BY DEF IterationInv
<1>. QED
  BY <1>1, IterationInvariant, PTL
----------------------------------------------------------------------------
(* The points drawn.  GenerationsCounted says nothing of the points that   *)
(* wait for their values: the invariant adds that these are new, of each   *)
(* other and of all that were evaluated, and that numbers go up.           *)
Fresh(i) ==
  /\ arx[i] > 0
  /\ \A h \in Index : arx[h] = arx[i] => h = i
  /\ \A k \in Drawn : log[k].x # arx[i]

DrawsInv ==
  /\ \A i \in Index : arx[i] <= draws
  /\ \A k \in Drawn : log[k].x <= draws
  /\ state = 0 => arx = Zeros /\ countiter = 0
  /\ state = 1 => countiter > 0 /\ \A i \in Index : Fresh(i)

CountInv == GenerationsCounted /\ DrawsInv

(* New evaluations all of points drawn, or none of them.                   *)
LEMMA DrawnExtends ==
  ASSUME TypeOK, NEW n \in Nat, n > 0, NEW new \in [1..n -> Evaluation],
         Count(n, new)
  PROVE  /\ \A k \in Drawn : k \in 1..counteval /\ log'[k] = log[k]
         /\ (\A k \in 1..n : new[k].x > 0) =>
              /\ Drawn' = Drawn \cup ((counteval + 1)..(counteval + n))
              /\ Cardinality(Drawn') = Cardinality(Drawn) + n
         /\ (\A k \in 1..n : new[k].x <= 0) => Drawn' = Drawn
<1> DEFINE More == (counteval + 1)..(counteval + n)
<1>1. /\ counteval \in Nat /\ counteval' = counteval + n
      /\ \A k \in 1..counteval : log'[k] = log[k]
      /\ \A k \in 1..n : log'[counteval + k] = new[k]
  BY CountExtends, SMTT(30) DEF TypeOK
<1>2. 1..counteval' = 1..counteval \cup More
  BY <1>1
<1>3. \A k \in More : k - counteval \in 1..n /\ log'[k] = new[k - counteval]
  <2>1. SUFFICES ASSUME NEW k \in More
                 PROVE  k - counteval \in 1..n /\ log'[k] = new[k - counteval]
    OBVIOUS
  <2>2. k - counteval \in 1..n /\ counteval + (k - counteval) = k
    BY <1>1
  <2>3. QED
    BY <1>1, <2>2
<1>4. Drawn' = Drawn \cup {k \in More : log'[k].x > 0}
  BY <1>1, <1>2 DEF Drawn
<1>5. Drawn \subseteq 1..counteval /\ Drawn \cap More = {}
  BY <1>1 DEF Drawn
<1>6. \A k \in More : new[k - counteval] \in Evaluation
  BY <1>3
<1>7. ASSUME \A k \in 1..n : new[k].x > 0
      PROVE  /\ Drawn' = Drawn \cup More
             /\ Cardinality(Drawn') = Cardinality(Drawn) + n
  <2>1. Drawn' = Drawn \cup More
    BY <1>3, <1>4, <1>7
  <2>2. IsFiniteSet(Drawn) /\ Cardinality(Drawn) \in Nat
    <3>1. IsFiniteSet(1..counteval)
      BY <1>1, FS_Interval
    <3>2. IsFiniteSet(Drawn)
      BY <1>5, <3>1, FS_Subset
    <3>3. QED
      BY <3>2, FS_CardinalityType
  <2>3. IsFiniteSet(More) /\ Cardinality(More) = n
    <3>1. PICK a, b \in Int : a = counteval + 1 /\ b = counteval + n
      BY <1>1
    <3>2. IsFiniteSet(a..b)
          /\ Cardinality(a..b) = IF a > b THEN 0 ELSE b - a + 1
      BY FS_Interval
    <3>3. b - a + 1 = n /\ ~ (a > b)
      BY <1>1, <3>1
    <3>4. QED
      BY <3>1, <3>2, <3>3
  <2>4. Cardinality(Drawn \cup More) =
          Cardinality(Drawn) + Cardinality(More) - Cardinality(Drawn \cap More)
    BY <2>2, <2>3, FS_Union
  <2>5. Cardinality(Drawn \cap More) = 0
    BY <1>5, FS_EmptySet
  <2>6. QED
    BY <2>1, <2>2, <2>3, <2>4, <2>5
<1>8. ASSUME \A k \in 1..n : new[k].x <= 0
      PROVE  Drawn' = Drawn
  <2>1. \A k \in More : new[k - counteval].x <= 0 /\ new[k - counteval].x \in Int
    BY <1>3, <1>6, <1>8 DEF Evaluation
  <2>2. \A k \in More : ~ (log'[k].x > 0)
    BY <1>3, <2>1
  <2>3. QED
    BY <1>4, <2>2
<1>9. QED
  BY <1>1, <1>5, <1>7, <1>8

LEMMA SampleCount ==
  ASSUME TypeOK, CountInv, SamplePopulation
  PROVE  CountInv'
<1>1. /\ draws \in Nat /\ countiter \in Nat /\ Lambda \in Nat /\ Lambda > 1
      /\ state \in {0, 1, 3} /\ counteval \in Nat
      /\ \A k \in 1..counteval : log[k].x \in Int
  BY IterationAssumption DEF TypeOK, Evaluation
<1>2. /\ state' = 1 /\ arx' = Draw /\ draws' = draws + Lambda
      /\ countiter' = IF state = 1 THEN countiter ELSE countiter + 1
      /\ UNCHANGED <<counteval, log>> /\ Drawn' = Drawn
  BY DEF SamplePopulation, evaluation, Drawn
<1>3. \A i \in Index : /\ i \in Nat /\ i < Lambda
                       /\ arx'[i] = draws + i + 1 /\ arx'[i] \in Nat
  BY <1>1, <1>2 DEF Draw, Index
<1>4. \A i \in Index : arx'[i] > 0 /\ arx'[i] <= draws'
                       /\ \A h \in Index : arx'[h] = arx'[i] => h = i
  BY <1>1, <1>2, <1>3
<1>5. \A k \in Drawn : log[k].x \in Int /\ log[k].x <= draws
  BY <1>1 DEF CountInv, DrawsInv, Drawn
<1>6. \A k \in Drawn : log[k].x <= draws'
                       /\ \A i \in Index : log[k].x # arx'[i]
  BY <1>1, <1>2, <1>3, <1>5
<1>7. GenerationsCounted'
  <2>1. (IF state = 1 THEN countiter - 1 ELSE countiter) = countiter' - 1
    BY <1>1, <1>2
  <2>2. QED
    BY <1>2, <2>1 DEF CountInv, GenerationsCounted
<1>8. countiter' > 0
  BY <1>1, <1>2 DEF CountInv, DrawsInv
<1>9. QED
  BY <1>2, <1>4, <1>6, <1>7, <1>8 DEF CountInv, DrawsInv, Fresh

LEMMA ResampleCount ==
  ASSUME TypeOK, CountInv, NEW i \in Index, ResampleSingle(i)
  PROVE  CountInv'
<1>1. /\ draws \in Nat /\ counteval \in Nat
      /\ \A k \in 1..counteval : log[k].x \in Int
      /\ \A h \in Index : arx[h] \in Nat /\ arx[h] <= draws
  BY DEF TypeOK, Evaluation, CountInv, DrawsInv
<1>2. /\ state = 1 /\ state' = 1 /\ draws' = draws + 1
      /\ \A h \in Index : arx'[h] = IF h = i THEN draws + 1 ELSE arx[h]
      /\ UNCHANGED <<countiter, counteval, log>> /\ Drawn' = Drawn
  BY DEF ResampleSingle, evaluation, Drawn, TypeOK
<1>3. \A k \in Drawn : log[k].x \in Int /\ log[k].x <= draws
  BY <1>1 DEF CountInv, DrawsInv, Drawn
<1>4. countiter > 0 /\ \A h \in Index : Fresh(h)
  BY <1>2 DEF CountInv, DrawsInv
<1>5. \A h \in Index : arx'[h] <= draws' /\ arx'[h] > 0
  BY <1>1, <1>2, <1>4 DEF Fresh
<1>6. \A h, k \in Index : arx'[k] = arx'[h] => k = h
  BY <1>1, <1>2, <1>4 DEF Fresh
<1>7. \A k \in Drawn : log[k].x <= draws'
                       /\ \A h \in Index : log[k].x # arx'[h]
  BY <1>1, <1>2, <1>3, <1>4 DEF Fresh
<1>8. GenerationsCounted'
  BY <1>2 DEF CountInv, GenerationsCounted
<1>9. QED
  BY <1>2, <1>4, <1>5, <1>6, <1>7, <1>8 DEF CountInv, DrawsInv, Fresh

LEMMA UpdateCount ==
  ASSUME TypeOK, CopiesInv, CountInv, NEW v \in [Index -> Value],
         UpdateDistribution(v)
  PROVE  CountInv'
<1> DEFINE new == [k \in 1..Lambda |-> [x |-> population[k - 1],
                                        val |-> v[k - 1]]]
<1>1. /\ Count(Lambda, new) /\ Lambda \in Nat /\ Lambda > 0
      /\ state \in {0, 1} /\ state' = 3 /\ counteval \in Nat
      /\ countiter \in Nat
      /\ UNCHANGED <<countiter, arx, draws>>
  BY IterationAssumption DEF UpdateDistribution, Absorb, sample, TypeOK
<1>2. \A k \in 1..Lambda :
        /\ k - 1 \in Index /\ v[k - 1] \in Int /\ arx[k - 1] \in Nat
        /\ new[k].x = arx[k - 1] /\ new[k] \in Evaluation
  <2>1. \A k \in 1..Lambda : k - 1 \in Index
    BY <1>1 DEF Index
  <2>2. population = arx /\ arx \in [Index -> Nat]
    BY DEF TypeOK, CopiesInv
  <2>3. \A k \in 1..Lambda :
          new[k] = [x |-> arx[k - 1], val |-> v[k - 1]]
    BY <2>2
  <2> HIDE DEF new
  <2>4. \A k \in 1..Lambda :
          /\ k - 1 \in Index /\ v[k - 1] \in Value /\ v[k - 1] \in Int
          /\ arx[k - 1] \in Nat
    BY <2>1, <2>2, IterationAssumption
  <2>5. ASSUME NEW k \in 1..Lambda
        PROVE  new[k].x = arx[k - 1] /\ new[k] \in Evaluation
    <3>1. PICK a \in Nat, b \in Value : a = arx[k - 1] /\ b = v[k - 1]
      BY <2>4
    <3>2. new[k] = [x |-> a, val |-> b]
      BY <2>3, <3>1
    <3>3. [x |-> a, val |-> b] \in Evaluation
      BY DEF Evaluation
    <3>4. QED
      BY <3>1, <3>2, <3>3
  <2>6. QED
    BY <2>4, <2>5
<1>3. new \in [1..Lambda -> Evaluation]
  BY <1>2
<1> HIDE DEF new
<1>4. /\ counteval' = counteval + Lambda
      /\ \A k \in 1..Lambda : log'[counteval + k] = new[k]
      /\ \A k \in Drawn : k \in 1..counteval /\ log'[k] = log[k]
  BY <1>1, <1>3, CountExtends, DrawnExtends
<1>5. CASE state = 0
  <2>1. \A k \in 1..Lambda : new[k].x <= 0
    BY <1>2, <1>5 DEF CountInv, DrawsInv, Zeros
  <2>2. Drawn' = Drawn
    BY <1>1, <1>3, <2>1, DrawnExtends
  <2>3. QED
    BY <1>1, <1>4, <1>5, <2>2 DEF CountInv, DrawsInv, GenerationsCounted
<1>6. CASE state = 1
  <2> DEFINE More == (counteval + 1)..(counteval + Lambda)
  <2>1. countiter > 0 /\ \A i \in Index : Fresh(i)
    BY <1>6 DEF CountInv, DrawsInv
  <2>2. \A k \in 1..Lambda : new[k].x > 0
    BY <1>2, <2>1 DEF Fresh
  <2>3. /\ Drawn' = Drawn \cup More
        /\ Cardinality(Drawn') = Cardinality(Drawn) + Lambda
    BY <1>1, <1>3, <2>2, DrawnExtends
  <2>4. \A k \in More : k - counteval - 1 \in Index
                        /\ log'[k].x = arx[k - counteval - 1]
    <3>1. SUFFICES ASSUME NEW k \in More
                   PROVE  k - counteval - 1 \in Index
                          /\ log'[k].x = arx[k - counteval - 1]
      OBVIOUS
    <3>2. k - counteval \in 1..Lambda /\ counteval + (k - counteval) = k
      BY <1>1
    <3>3. QED
      BY <1>2, <1>4, <3>2
  <2>5. \A k, l \in Drawn' : k # l => log'[k].x # log'[l].x
    <3>1. SUFFICES ASSUME NEW k \in Drawn', NEW l \in Drawn',
                          log'[k].x = log'[l].x
                   PROVE  k = l
      OBVIOUS
    <3>2. CASE k \in Drawn /\ l \in Drawn
      BY <1>4, <3>1, <3>2 DEF CountInv, GenerationsCounted
    <3>3. CASE k \in Drawn /\ l \in More
      BY <1>4, <2>1, <2>4, <3>1, <3>3 DEF Fresh
    <3>4. CASE k \in More /\ l \in Drawn
      BY <1>4, <2>1, <2>4, <3>1, <3>4 DEF Fresh
    <3>5. CASE k \in More /\ l \in More
      <4>1. k - counteval - 1 = l - counteval - 1
        BY <2>1, <2>4, <3>1, <3>5 DEF Fresh
      <4>2. QED
        BY <1>1, <3>5, <4>1
    <3>6. QED
      BY <2>3, <3>2, <3>3, <3>4, <3>5
  <2>6. Cardinality(Drawn') = Lambda * countiter'
    <3>1. Cardinality(Drawn) = Lambda * (countiter - 1)
      BY <1>6 DEF CountInv, GenerationsCounted
    <3>2. Lambda * (countiter - 1) + Lambda = Lambda * countiter
      BY <1>1
    <3>3. QED
      BY <1>1, <2>3, <3>1, <3>2
  <2>7. \A k \in Drawn' : log'[k].x <= draws'
    BY <1>1, <1>4, <2>3, <2>4 DEF CountInv, DrawsInv
  <2>8. QED
    BY <1>1, <2>5, <2>6, <2>7 DEF CountInv, DrawsInv, GenerationsCounted
<1>7. QED
  BY <1>1, <1>5, <1>6

LEMMA MeanCount ==
  ASSUME TypeOK, CountInv, NEW f \in Value, SetFitnessOfMeanX(f)
  PROVE  CountInv'
<1> DEFINE n == 1
           new == [k \in 1..n |-> [x |-> xmean, val |-> f]]
<1>1. /\ Count(n, new) /\ n \in Nat /\ n > 0
      /\ UNCHANGED <<state, countiter, arx, draws>>
  BY DEF SetFitnessOfMeanX, sample
<1>2. \A k \in 1..n : new[k] \in Evaluation /\ new[k].x <= 0
  BY IterationAssumption DEF TypeOK, Evaluation
<1>3. new \in [1..n -> Evaluation]
  BY <1>2
<1> HIDE DEF n, new
<1>4. Drawn' = Drawn /\ \A k \in Drawn : log'[k] = log[k]
  BY <1>1, <1>2, <1>3, DrawnExtends
<1>5. QED
  BY <1>1, <1>4 DEF CountInv, DrawsInv, GenerationsCounted, Fresh

(* No drawn point enters the strategy twice, and every iteration brings    *)
(* one generation of them, in whatever order points are sampled, sampled   *)
(* again, evaluated and used (CMAEvolutionStrategy 1468-1470, 1579-1582).  *)
THEOREM CountCorrect == Spec => []GenerationsCounted
<1>1. Init => CountInv
  <2>1. SUFFICES ASSUME Init PROVE CountInv
    OBVIOUS
  <2>2. Drawn = {}
    BY <2>1 DEF Init, Drawn
  <2>3. Cardinality(Drawn) = Lambda * countiter /\ state = 0
    BY <2>1, <2>2, FS_EmptySet, IterationAssumption DEF Init
  <2>4. \A i \in Index : arx[i] <= draws
    BY <2>1 DEF Init, Zeros
  <2>5. QED
    BY <2>1, <2>2, <2>3, <2>4 DEF CountInv, GenerationsCounted, DrawsInv, Init
<1>2. IterationInv /\ CountInv /\ [Next]_vars => CountInv'
  <2>1. SUFFICES ASSUME TypeOK, CopiesInv, CountInv, [Next]_vars
                 PROVE  CountInv'
    BY DEF IterationInv
  <2>2. CASE Test \/ Clear \/ UNCHANGED vars
    BY <2>1, <2>2 DEF Test, Clear, vars, sample, evaluation, CountInv, DrawsInv,
       GenerationsCounted, Drawn, Fresh
  <2>3. QED
    BY <2>1, <2>2, SampleCount, ResampleCount, UpdateCount, MeanCount DEF Next
<1>3. CountInv => GenerationsCounted
  BY DEF CountInv
<1>4. QED
  BY <1>1, <1>2, <1>3, IterationInvariant, PTL DEF Spec
----------------------------------------------------------------------------
(* The play thread.  Its inductive invariant says where the counters stand *)
(* at each place of the loop (ControlInv), what the best-ever solution     *)
(* stands for (SinceInv), that the sorted values are those of the last     *)
(* evaluations (RawInv), and that the elements of the document cover the   *)
(* evaluations without gaps (StatsInv).                                    *)
Behind == IF at \in {"evaluate", "post"} THEN 1 ELSE 0
MeanDone == at \in {"report", "final"} \/ status = "Complete"
Ahead == IF at = "post" THEN Lambda ELSE IF MeanDone THEN 1 ELSE 0

ControlInv ==
  /\ state = 1 <=> at = "evaluate"
  /\ state = 0 <=> countiter = 0
  /\ Len(genStat) = countiter - Behind
  /\ counteval = Lambda * Len(genStat) + Ahead
  /\ at \in {"sample", "evaluate"} => counteval < StopMaxFunEvals
  /\ at \in {"loop", "sample", "evaluate", "post"} =>
       status = "Running" /\ messages = {}
  /\ at \in {"mean", "report", "final"} => status = "Finishing"
  /\ status = "Complete" => at = "dead"
  /\ at = "mean" => messages # {} /\ lastcounteval = counteval
  /\ at = "report" => messages # {} /\ lastcounteval + 1 = counteval
  /\ finalStat # NoReport <=> at = "final" \/ status = "Complete"

SinceInv ==
  countiter > 0 /\ counteval > 0 =>
    since > 0 /\ (since = 1 \/ (countiter = 1 /\ MeanDone))

Latest == (counteval - Lambda + 1)..counteval
RawInv ==
  at = "post" => /\ \A e \in Latest : log[e].val \in RawFitness
                 /\ \A f \in RawFitness : \E e \in Latest : log[e].val = f

StatsInv ==
  /\ StatsFaithful
  /\ \A k \in 1..Len(genStat) :
       Lambda <= genStat[k].EvalNum /\ genStat[k].EvalNum <= counteval
  /\ \A e \in 1..(Lambda * Len(genStat)) :
       \E k \in 1..Len(genStat) : e \in Evals(k)

OnTarget(k) == genStat[k].Min <= StopFitness
ReasonInv ==
  /\ status # "Running" =>
       /\ "MaxFunEvals" \in messages => Lambda * Len(genStat) >= StopMaxFunEvals
       /\ "MaxIter" \in messages => Len(genStat) >= StopMaxIter
       /\ "Fitness" \in messages => \E k \in 1..Len(genStat) : OnTarget(k)
  /\ finalStat # NoReport =>
       /\ finalStat.reason \in messages
       /\ finalStat.evaluation = bestever.eval
       /\ finalStat.individual = bestever.x

RunInv ==
  /\ RunTypeOK /\ ControlInv /\ SinceInv /\ RawInv /\ StatsInv /\ ReasonInv
  /\ TargetEnds

(* Each step of run() is a call the strategy takes, or no call at all, so  *)
(* that all that holds of CMAIteration holds of the object it drives.      *)
THEOREM StrategyDriven == RunSpec => Spec
<1>1. RunInit => Init
  BY DEF RunInit
<1>2. [RunNext]_runVars => [Next]_vars
  <2>1. SUFFICES ASSUME [RunNext]_runVars PROVE [Next]_vars
    OBVIOUS
  <2>2. CASE GoOn \/ EndLoop
    BY <2>2 DEF GoOn, EndLoop, TestLoop, Next
  <2>3. CASE Sample
    BY <2>3 DEF Sample, Next
  <2>4. CASE EvaluateAndUpdate
    BY <2>4 DEF EvaluateAndUpdate, Next
  <2>5. CASE EvaluateMean
    BY <2>5 DEF EvaluateMean, Next
  <2>6. CASE FinalStatistics
    BY <2>6 DEF FinalStatistics, GetMessages, Next
  <2>7. CASE SampleThrows \/ PostEvaluationStatistics \/ SetComplete
             \/ UNCHANGED runVars
    BY <2>7 DEF SampleThrows, PostEvaluationStatistics, SetComplete, runVars
  <2>8. QED
    BY <2>1, <2>2, <2>3, <2>4, <2>5, <2>6, <2>7 DEF RunNext
<1>3. QED
  BY <1>1, <1>2, PTL DEF RunSpec, Spec

LEMMA Times ==
  /\ Lambda \in Nat /\ Lambda > 1
  /\ \A n \in Nat : Lambda * n \in Nat /\ Lambda * (n + 1) = Lambda * n + Lambda
  /\ Lambda * 0 = 0
BY IterationAssumption

(* The document is left alone, and so are the evaluations it tells of: the *)
(* log at most grows.                                                      *)
LEMMA StatsKept ==
  ASSUME StatsInv, TypeOK, RunTypeOK, UNCHANGED genStat,
         counteval' \in Nat, counteval <= counteval',
         \A k \in 1..counteval : log'[k] = log[k]
  PROVE  StatsInv'
<1>1. Len(genStat) \in Nat /\ counteval \in Nat /\ Lambda \in Nat /\ Lambda > 1
      /\ \A k \in 1..Len(genStat) : genStat[k] \in Generation
  BY Times DEF RunTypeOK, TypeOK
<1>2. \A k \in 1..Len(genStat) :
        /\ genStat[k].EvalNum \in Nat
        /\ Lambda <= genStat[k].EvalNum /\ genStat[k].EvalNum <= counteval
  BY <1>1 DEF StatsInv, Generation
<1>3. \A k \in 1..Len(genStat) : \A e \in Evals(k) :
        e \in 1..counteval /\ log'[e] = log[e]
  BY <1>1, <1>2 DEF Evals
<1>4. StatsFaithful'
  <2>1. SUFFICES ASSUME NEW k \in 1..Len(genStat)
                 PROVE  Faithful(k)'
    BY DEF StatsFaithful
  <2>2. Evals(k)' = Evals(k) /\ UNCHANGED genStat[k]
    BY DEF Evals
  <2>3. Faithful(k)
    BY DEF StatsInv, StatsFaithful
  <2>4. QED
    BY <1>3, <2>2, <2>3 DEF Faithful
<1>5. \A k \in 1..Len(genStat') :
        /\ Lambda <= genStat'[k].EvalNum
        /\ genStat'[k].EvalNum <= counteval'
  BY <1>1, <1>2, IterationAssumption
<1>6. \A e \in 1..(Lambda * Len(genStat')) :
        \E k \in 1..Len(genStat') : e \in Evals(k)'
  <2>1. \A k \in 1..Len(genStat) : Evals(k)' = Evals(k)
    BY DEF Evals
  <2>2. \A e \in 1..(Lambda * Len(genStat)) :
          \E k \in 1..Len(genStat) : e \in Evals(k)
    BY DEF StatsInv
  <2>3. QED
    BY <2>1, <2>2, Zenon
<1>7. QED
  BY <1>4, <1>5, <1>6, Zenon DEF StatsInv

LEMMA StatTypes ==
  ASSUME IterationInv, RunInv
  PROVE  /\ Len(genStat) \in Nat /\ counteval \in Nat /\ countiter \in Nat
         /\ state \in {0, 1, 3}
         /\ \A e \in 1..counteval : log[e].val \in Int
         /\ \A k \in 1..Len(genStat) :
              /\ genStat[k] \in Generation
              /\ genStat[k].Min \in Int /\ genStat[k].Max \in Int
              /\ genStat[k].EvalNum \in Nat
              /\ Evals(k) \subseteq 1..counteval
              /\ Faithful(k)
<1>1. /\ Len(genStat) \in Nat /\ counteval \in Nat /\ countiter \in Nat
      /\ state \in {0, 1, 3}
      /\ \A e \in 1..counteval : log[e].val \in Int
  <2>1. genStat \in Seq(Generation)
    BY DEF RunInv, RunTypeOK
  <2>2. /\ counteval \in Nat /\ countiter \in Nat /\ state \in {0, 1, 3}
        /\ log \in [1..counteval -> Evaluation]
    BY DEF IterationInv, TypeOK
  <2>3. \A e \in 1..counteval : log[e].val \in Value
    BY <2>2 DEF Evaluation
  <2>4. Len(genStat) \in Nat
    BY <2>1
  <2>5. \A e \in 1..counteval : log[e].val \in Int
    BY <2>3, IterationAssumption
  <2>6. QED
    BY <2>2, <2>4, <2>5
<1>2. SUFFICES ASSUME NEW k \in 1..Len(genStat)
               PROVE  /\ genStat[k] \in Generation
                      /\ genStat[k].Min \in Int /\ genStat[k].Max \in Int
                      /\ genStat[k].EvalNum \in Nat
                      /\ Evals(k) \subseteq 1..counteval
                      /\ Faithful(k)
  BY <1>1
<1>3. genStat[k] \in Generation /\ Faithful(k)
  BY DEF RunInv, RunTypeOK, StatsInv, StatsFaithful
<1>4. /\ genStat[k].Min \in Int /\ genStat[k].Max \in Int
      /\ genStat[k].EvalNum \in Nat
  BY <1>3, IterationAssumption DEF Generation
<1>5. Lambda <= genStat[k].EvalNum /\ genStat[k].EvalNum <= counteval
  BY DEF RunInv, StatsInv
<1>6. QED
  BY <1>1, <1>3, <1>4, <1>5, Times DEF Evals

(* At the head of the loop the target is met exactly if a generation of    *)
(* the document has met it: the best-ever solution is one of them all.     *)
LEMMA TargetMet ==
  ASSUME IterationInv, RunInv, at = "loop"
  PROVE  Target <=> \E k \in 1..Len(genStat) : OnTarget(k)
<1>1. /\ counteval = Lambda * Len(genStat) /\ Len(genStat) = countiter
      /\ state = 3 <=> countiter > 0
  BY StatTypes, Times DEF RunInv, ControlInv, Ahead, Behind, MeanDone
<1>2. ASSUME countiter > 0
      PROVE  /\ since = 1 /\ bestever.fit \in Int /\ bestever.fit # NaN
             /\ bestever.eval \in 1..counteval
             /\ log[bestever.eval].val = bestever.fit
             /\ \A e \in 1..counteval : bestever.fit <= log[e].val
  <2>1. counteval > 0
    <3>1. Lambda * (Len(genStat) - 1) \in Nat
          /\ Lambda * ((Len(genStat) - 1) + 1) =
               Lambda * (Len(genStat) - 1) + Lambda
      <4>1. Len(genStat) - 1 \in Nat
        BY <1>1, <1>2, StatTypes
      <4>2. QED
        BY <4>1, Times
    <3>2. (Len(genStat) - 1) + 1 = Len(genStat)
      BY StatTypes
    <3>3. QED
      BY <1>1, <3>1, <3>2, Times
  <2>2. ~ MeanDone
    BY DEF MeanDone, RunInv, ControlInv
  <2>3. since = 1
    BY <1>2, <2>1, <2>2 DEF RunInv, SinceInv
  <2>4. bestever.fit # NaN /\ \A e \in 1..counteval : bestever.fit <= log[e].val
    BY <2>3 DEF IterationInv, BestIsFirst
  <2>5. bestever.fit \in Int
    BY <2>4, IterationAssumption DEF IterationInv, TypeOK
  <2>6. /\ bestever.eval \in 1..counteval
        /\ log[bestever.eval] = [x |-> bestever.x, val |-> bestever.fit]
    BY <2>4 DEF IterationInv, BestAttributed
  <2>7. QED
    BY <2>3, <2>4, <2>5, <2>6
<1>3. ASSUME Target
      PROVE  \E k \in 1..Len(genStat) : OnTarget(k)
  <2>1. countiter > 0 /\ bestever.fit <= StopFitness
    BY <1>1, <1>3, StatTypes DEF Target, Below
  <2>2. PICK k \in 1..Len(genStat) : bestever.eval \in Evals(k)
    BY <1>1, <1>2, <2>1 DEF RunInv, StatsInv
  <2>3. genStat[k].Min <= bestever.fit
    BY <1>2, <2>1, <2>2, StatTypes DEF Faithful
  <2>4. genStat[k].Min <= StopFitness
    BY <1>2, <2>1, <2>3, StatTypes, IterationAssumption
  <2>5. QED
    BY <2>4 DEF OnTarget
<1>4. ASSUME NEW k \in 1..Len(genStat), OnTarget(k)
      PROVE  Target
  <2>1. countiter > 0 /\ state = 3
    BY <1>1, StatTypes
  <2>2. PICK e \in Evals(k) : log[e].val = genStat[k].Min
    BY StatTypes DEF Faithful
  <2>3. e \in 1..counteval
    BY <2>2, StatTypes
  <2>4. bestever.fit <= log[e].val /\ log[e].val <= StopFitness
    BY <1>2, <1>4, <2>1, <2>2, <2>3 DEF OnTarget
  <2>5. bestever.fit <= StopFitness
    BY <1>2, <2>1, <2>3, <2>4, StatTypes, IterationAssumption
  <2>6. QED
    BY <1>2, <2>1, <2>5 DEF Target, Below
<1>5. QED
  BY <1>3, <1>4

(* A test at the head of the loop finds the criteria that hold.            *)
LEMMA LoopTested ==
  ASSUME IterationInv, RunInv, at = "loop", TestLoop
  PROVE  /\ UNCHANGED <<state, countiter, counteval, raw, bestever, log, since,
                        arx, population, xmean, idxRecentOffspring, draws>>
         /\ lastcounteval' = counteval
         /\ "MaxFunEvals" \in messages' <=> counteval >= StopMaxFunEvals
         /\ "MaxIter" \in messages' <=> countiter >= StopMaxIter
         /\ "Fitness" \in messages' <=>
              \E k \in 1..Len(genStat) : OnTarget(k)
         /\ messages' \subseteq Criterion
         /\ countiter = 0 => "Numerics" \notin messages'
<1>1. messages = {}
  BY DEF RunInv, ControlInv
<1>2. PICK more \in SUBSET {"Numerics"} :
        messages' = messages \cup {c \in Criterion : Holds(c)} \cup more
  BY DEF TestLoop, Test
<1>3. /\ "MaxFunEvals" \in messages' <=> Holds("MaxFunEvals")
      /\ "MaxIter" \in messages' <=> Holds("MaxIter")
      /\ "Fitness" \in messages' <=> Holds("Fitness")
      /\ messages' \subseteq Criterion
  BY <1>1, <1>2 DEF Criterion
<1>4. Holds("Fitness") <=> \E k \in 1..Len(genStat) : OnTarget(k)
  BY TargetMet DEF Holds
<1>5. QED
  BY <1>3, <1>4 DEF TestLoop, Test, Holds, sample, evaluation

LEMMA TimesGrows ==
  ASSUME NEW n \in Nat, n > 0
  PROVE  Lambda * n \in Nat /\ Lambda * n >= Lambda
<1>1. n - 1 \in Nat /\ (n - 1) + 1 = n
  OBVIOUS
<1>2. Lambda * (n - 1) \in Nat /\ Lambda * n = Lambda * (n - 1) + Lambda
  BY <1>1, Times
<1>3. QED
  BY <1>2, Times

(* What an action leaves alone of the document stays true of it.           *)
LEMMA DocumentKept ==
  ASSUME IterationInv, RunInv, UNCHANGED <<genStat, counteval, log>>
  PROVE  StatsInv'
<1>1. TypeOK /\ RunTypeOK /\ StatsInv
  BY DEF IterationInv, RunInv
<1>2. counteval \in Nat
  BY <1>1 DEF TypeOK
<1>3. QED
  BY <1>1, <1>2, StatsKept

LEMMA GoOnRun ==
  ASSUME IterationInv, IterationInv', RunInv, GoOn
  PROVE  RunInv'
<1>1. /\ at = "loop" /\ at' = "sample" /\ messages' = {} /\ TestLoop
      /\ UNCHANGED <<status, genStat, finalStat>>
  BY DEF GoOn, From
<1>2. /\ UNCHANGED <<state, countiter, counteval, raw, log, since, bestever>>
      /\ counteval \in Nat /\ ~ (counteval >= StopMaxFunEvals)
      /\ ~ \E k \in 1..Len(genStat) : OnTarget(k)
  BY <1>1, LoopTested, StatTypes
<1>3. ControlInv /\ SinceInv /\ RunTypeOK /\ ReasonInv
  BY DEF RunInv
<1>4. RunTypeOK'
  BY <1>1, <1>3 DEF RunTypeOK, IterationInv, Place
<1>5. status = "Running" /\ finalStat = NoReport
  BY <1>1, <1>3 DEF ControlInv
<1>6. counteval < StopMaxFunEvals
  BY <1>2, RunAssumption
<1>7. ControlInv'
  BY <1>1, <1>2, <1>3, <1>5, <1>6 DEF ControlInv, Behind, Ahead, MeanDone
<1>8. SinceInv'
  BY <1>1, <1>2, <1>3, <1>5 DEF SinceInv, MeanDone
<1>9. StatsInv'
  BY <1>1, <1>2, DocumentKept
<1>10. RawInv' /\ ReasonInv'
  BY <1>1, <1>5 DEF RawInv, ReasonInv
<1>11. TargetEnds'
  BY <1>1, <1>2 DEF TargetEnds, OnTarget
<1>12. QED
  BY <1>4, <1>7, <1>8, <1>9, <1>10, <1>11 DEF RunInv

LEMMA EndLoopRun ==
  ASSUME IterationInv, IterationInv', RunInv, EndLoop
  PROVE  RunInv'
<1>1. /\ at = "loop" /\ at' = "mean" /\ messages' # {} /\ TestLoop
      /\ status' = "Finishing" /\ UNCHANGED <<genStat, finalStat>>
  BY DEF EndLoop, From
<1>2. /\ UNCHANGED <<state, countiter, counteval, raw, log, since, bestever>>
      /\ lastcounteval' = counteval
      /\ "MaxFunEvals" \in messages' => counteval >= StopMaxFunEvals
      /\ "MaxIter" \in messages' => countiter >= StopMaxIter
      /\ "Fitness" \in messages' => \E k \in 1..Len(genStat) : OnTarget(k)
  BY <1>1, LoopTested
<1>3. ControlInv /\ SinceInv /\ RunTypeOK /\ TargetEnds
  BY DEF RunInv
<1>4. RunTypeOK'
  BY <1>1, <1>3 DEF RunTypeOK, IterationInv, Place
<1>5. status = "Running" /\ finalStat = NoReport
  BY <1>1, <1>3 DEF ControlInv
<1>6. Len(genStat) = countiter /\ counteval = Lambda * Len(genStat)
  <2>1. Behind = 0 /\ Ahead = 0
    BY <1>1, <1>5 DEF Behind, Ahead, MeanDone
  <2>2. QED
    BY <1>3, <2>1, StatTypes, Times DEF ControlInv
<1>7. ControlInv'
  BY <1>1, <1>2, <1>3, <1>5 DEF ControlInv, Behind, Ahead, MeanDone
<1>8. SinceInv'
  BY <1>1, <1>2, <1>3, <1>5 DEF SinceInv, MeanDone
<1>9. StatsInv'
  BY <1>1, <1>2, DocumentKept
<1>10. RawInv'
  BY <1>1 DEF RawInv
<1>11. ReasonInv'
  BY <1>1, <1>2, <1>5, <1>6 DEF ReasonInv, OnTarget
<1>12. TargetEnds'
  BY <1>1, <1>3 DEF TargetEnds
<1>13. QED
  BY <1>4, <1>7, <1>8, <1>9, <1>10, <1>11, <1>12 DEF RunInv

LEMMA SampleRun ==
  ASSUME IterationInv, IterationInv', RunInv, Sample
  PROVE  RunInv'
<1>1. /\ at = "sample" /\ at' = "evaluate"
      /\ UNCHANGED <<status, genStat, finalStat>>
  BY DEF Sample, From
<1>2. /\ countiter' = (IF state = 1 THEN countiter ELSE countiter + 1)
      /\ state' = 1
      /\ UNCHANGED <<counteval, raw, log, since, bestever, messages,
                     lastcounteval>>
  BY DEF Sample, SamplePopulation, evaluation, stop
<1>3. ControlInv /\ SinceInv /\ RunTypeOK /\ TargetEnds
  BY DEF RunInv
<1>4. RunTypeOK'
  BY <1>1, <1>3 DEF RunTypeOK, IterationInv, Place
<1>5. /\ status = "Running" /\ finalStat = NoReport /\ messages = {}
      /\ countiter' = countiter + 1 /\ countiter \in Nat
      /\ counteval < StopMaxFunEvals
  BY <1>1, <1>2, <1>3, StatTypes DEF ControlInv
<1>6. Len(genStat) = countiter /\ counteval = Lambda * Len(genStat)
  <2>1. Behind = 0 /\ Ahead = 0
    BY <1>1, <1>5 DEF Behind, Ahead, MeanDone
  <2>2. QED
    BY <1>3, <2>1, StatTypes, Times DEF ControlInv
<1>7. ControlInv'
  <2>1. Behind' = 1 /\ Ahead' = 0
    BY <1>1, <1>5 DEF Behind, Ahead, MeanDone
  <2>2. Len(genStat') = countiter' - Behind'
    BY <1>1, <1>5, <1>6, <2>1
  <2>3. counteval' = Lambda * Len(genStat') + Ahead'
    BY <1>1, <1>2, <1>6, <2>1, StatTypes
  <2>4. QED
    BY <1>1, <1>2, <1>5, <2>2, <2>3 DEF ControlInv
<1>8. SinceInv'
  <2>1. SUFFICES ASSUME counteval > 0 PROVE since = 1
    BY <1>2 DEF SinceInv
  <2>2. countiter > 0
    BY <1>5, <1>6, <2>1, Times
  <2>3. QED
    BY <1>1, <1>3, <1>5, <2>1, <2>2 DEF SinceInv, MeanDone
<1>9. StatsInv'
  BY <1>1, <1>2, DocumentKept
<1>10. RawInv' /\ ReasonInv'
  BY <1>1, <1>5 DEF RawInv, ReasonInv
<1>11. TargetEnds'
  BY <1>1, <1>3 DEF TargetEnds
<1>12. QED
  BY <1>4, <1>7, <1>8, <1>9, <1>10, <1>11 DEF RunInv

LEMMA SampleThrowsRun ==
  ASSUME IterationInv, IterationInv', RunInv, SampleThrows
  PROVE  RunInv'
<1>1. /\ at = "sample" /\ at' = "dead"
      /\ UNCHANGED <<status, genStat, finalStat>>
      /\ UNCHANGED <<state, countiter, counteval, raw, log, since, bestever,
                     messages, lastcounteval>>
  BY DEF SampleThrows, From, vars, sample, evaluation, stop
<1>2. ControlInv /\ SinceInv /\ RunTypeOK /\ TargetEnds
  BY DEF RunInv
<1>3. RunTypeOK'
  BY <1>1, <1>2 DEF RunTypeOK, IterationInv, Place
<1>4. status = "Running" /\ finalStat = NoReport
  BY <1>1, <1>2 DEF ControlInv
<1>5. ControlInv'
  BY <1>1, <1>2, <1>4 DEF ControlInv, Behind, Ahead, MeanDone
<1>6. SinceInv'
  BY <1>1, <1>2, <1>4 DEF SinceInv, MeanDone
<1>7. StatsInv'
  BY <1>1, DocumentKept
<1>8. RawInv' /\ ReasonInv'
  BY <1>1, <1>4 DEF RawInv, ReasonInv
<1>9. TargetEnds'
  BY <1>1, <1>2 DEF TargetEnds
<1>10. QED
  BY <1>3, <1>5, <1>6, <1>7, <1>8, <1>9 DEF RunInv

(* After an update the ranked values are those of the last generation.     *)
LEMMA RankedValues ==
  ASSUME IterationInv, NEW v \in [Index -> Value], Absorb(v)
  PROVE  LET new == (counteval + 1)..(counteval + Lambda)
         IN  /\ counteval' = counteval + Lambda
             /\ \A k \in 1..counteval : log'[k] = log[k]
             /\ \A e \in new : \E k \in Index : log'[e].val = raw'[k].val
             /\ \A k \in Index : \E e \in new : log'[e].val = raw'[k].val
<1> DEFINE new == [k \in 1..Lambda |-> [x |-> population[k - 1],
                                        val |-> v[k - 1]]]
<1>1. Count(Lambda, new) /\ TypeOK /\ Lambda \in Nat /\ Lambda > 0
      /\ counteval \in Nat
  BY Times DEF Absorb, IterationInv, TypeOK
<1>2. \A k \in 1..Lambda : new[k] \in Evaluation /\ new[k].val = v[k - 1]
  <2>1. SUFFICES ASSUME NEW k \in 1..Lambda
                 PROVE  new[k] \in Evaluation /\ new[k].val = v[k - 1]
    OBVIOUS
  <2>2. k - 1 \in Index
    BY <1>1 DEF Index
  <2>3. population[k - 1] \in Int /\ v[k - 1] \in Value
    BY <1>1, <2>2 DEF TypeOK
  <2>4. PICK a \in Int, b \in Value : a = population[k - 1] /\ b = v[k - 1]
    BY <2>3
  <2>5. new[k] = [x |-> a, val |-> b]
    BY <2>4
  <2> HIDE DEF new
  <2>6. QED
    BY <2>4, <2>5 DEF Evaluation
<1>3. new \in [1..Lambda -> Evaluation]
  BY <1>2
<1> HIDE DEF new
<1>4. /\ counteval' = counteval + Lambda
      /\ \A k \in 1..counteval : log'[k] = log[k]
      /\ \A k \in 1..Lambda : log'[counteval + k] = new[k]
  BY <1>1, <1>3, CountExtends
<1>5. PICK order \in [Index -> Index] :
        /\ Permutation(order)
        /\ raw' = [k \in Index |-> [val |-> v[order[k]], i |-> order[k]]]
  BY DEF Absorb
<1>6. \A i \in Index : i + 1 \in 1..Lambda /\ (i + 1) - 1 = i
                       /\ counteval + (i + 1) \in
                            (counteval + 1)..(counteval + Lambda)
                       /\ log'[counteval + (i + 1)].val = v[i]
  <2>1. SUFFICES ASSUME NEW i \in Index
                 PROVE  i + 1 \in 1..Lambda /\ (i + 1) - 1 = i
                       /\ counteval + (i + 1) \in
                            (counteval + 1)..(counteval + Lambda)
                       /\ log'[counteval + (i + 1)].val = v[i]
    OBVIOUS
  <2>2. i + 1 \in 1..Lambda /\ (i + 1) - 1 = i
        /\ counteval + (i + 1) \in (counteval + 1)..(counteval + Lambda)
    BY <1>1 DEF Index
  <2>3. log'[counteval + (i + 1)].val = v[i]
    BY <1>2, <1>4, <2>2
  <2>4. QED
    BY <2>2, <2>3
<1>7. \A k \in Index : raw'[k].val = v[order[k]] /\ order[k] \in Index
  BY <1>5
<1>8. ASSUME NEW e \in (counteval + 1)..(counteval + Lambda)
      PROVE  \E k \in Index : log'[e].val = raw'[k].val
  <2>1. /\ e - counteval - 1 \in Index
        /\ counteval + ((e - counteval - 1) + 1) = e
    BY <1>1 DEF Index
  <2>2. PICK k \in Index : order[k] = e - counteval - 1
    BY <1>5, <2>1 DEF Permutation
  <2>3. QED
    BY <1>6, <1>7, <2>1, <2>2
<1>9. \A k \in Index : \E e \in (counteval + 1)..(counteval + Lambda) :
        log'[e].val = raw'[k].val
  BY <1>6, <1>7
<1>10. QED
  BY <1>4, <1>8, <1>9

LEMMA UpdateRun ==
  ASSUME IterationInv, IterationInv', RunInv, EvaluateAndUpdate
  PROVE  RunInv'
<1>1. /\ at = "evaluate" /\ at' = "post"
      /\ UNCHANGED <<status, genStat, finalStat>>
  BY DEF EvaluateAndUpdate, From
<1>2. PICK v \in [Index -> Value] : Absorb(v)
  BY DEF EvaluateAndUpdate, UpdateDistribution
<1>3. /\ state' = 3 /\ since' = (IF countiter = 1 THEN counteval + 1 ELSE since)
      /\ UNCHANGED <<countiter, messages, lastcounteval>>
  BY <1>2 DEF Absorb, Count, sample, stop
<1>4. /\ counteval' = counteval + Lambda
      /\ \A k \in 1..counteval : log'[k] = log[k]
      /\ \A e \in (counteval + 1)..(counteval + Lambda) :
           \E k \in Index : log'[e].val = raw'[k].val
      /\ \A k \in Index : \E e \in (counteval + 1)..(counteval + Lambda) :
           log'[e].val = raw'[k].val
  BY <1>2, RankedValues
<1>5. ControlInv /\ SinceInv /\ RunTypeOK /\ TargetEnds /\ StatsInv /\ TypeOK
  BY DEF RunInv, IterationInv
<1>6. /\ status = "Running" /\ finalStat = NoReport /\ messages = {}
      /\ state = 1 /\ countiter # 0 /\ countiter \in Nat /\ counteval \in Nat
      /\ Len(genStat) \in Nat
  BY <1>1, <1>5, StatTypes DEF ControlInv
<1>7. Len(genStat) = countiter - 1 /\ counteval = Lambda * Len(genStat)
  <2>1. Behind = 1 /\ Ahead = 0
    BY <1>1, <1>6 DEF Behind, Ahead, MeanDone
  <2>2. QED
    BY <1>5, <1>6, <2>1, Times DEF ControlInv
<1>8. RunTypeOK'
  BY <1>1, <1>5 DEF RunTypeOK, IterationInv, Place
<1>9. ControlInv'
  <2>1. Behind' = 1 /\ Ahead' = Lambda
    BY <1>1 DEF Behind, Ahead
  <2>2. Len(genStat') = countiter' - Behind'
    BY <1>1, <1>3, <1>7, <2>1
  <2>3. counteval' = Lambda * Len(genStat') + Ahead'
    BY <1>1, <1>4, <1>7, <2>1
  <2>4. QED
    BY <1>1, <1>3, <1>6, <2>2, <2>3 DEF ControlInv
<1>10. SinceInv'
  <2>1. CASE countiter = 1
    BY <1>3, <1>6, <1>7, <2>1, Times DEF SinceInv
  <2>2. CASE countiter # 1
    <3>1. counteval > 0
      BY <1>6, <1>7, <2>2, TimesGrows, Times
    <3>2. since = 1
      BY <1>1, <1>5, <1>6, <2>2, <3>1 DEF SinceInv, MeanDone
    <3>3. QED
      BY <1>3, <2>2, <3>2 DEF SinceInv
  <2>3. QED
    BY <2>1, <2>2
<1>11. StatsInv'
  <2>1. counteval' \in Nat /\ counteval <= counteval'
    BY <1>4, <1>6, Times
  <2>2. QED
    BY <1>1, <1>4, <1>5, <2>1, StatsKept
<1>12. RawInv'
  <2>1. Latest' = (counteval + 1)..(counteval + Lambda)
    BY <1>4, <1>6, Times DEF Latest
  <2>2. QED
    BY <1>4, <2>1 DEF RawInv, RawFitness
<1>13. ReasonInv' /\ TargetEnds'
  BY <1>1, <1>5, <1>6 DEF ReasonInv, TargetEnds
<1>14. QED
  BY <1>8, <1>9, <1>10, <1>11, <1>12, <1>13 DEF RunInv

LEMMA PostRun ==
  ASSUME IterationInv, IterationInv', RunInv, PostEvaluationStatistics
  PROVE  RunInv'
<1>0. PICK n \in Nat : n = Len(genStat)
  BY StatTypes
<1>1. /\ at = "post" /\ at' = "loop" /\ UNCHANGED <<status, finalStat>>
      /\ UNCHANGED <<state, countiter, counteval, raw, log, since, bestever,
                     messages, lastcounteval>>
  BY DEF PostEvaluationStatistics, From, vars, sample, evaluation, stop
<1>2. PICK min, max \in RawFitness :
        /\ \A f \in RawFitness : min <= f /\ f <= max
        /\ genStat' = Append(genStat, [EvalNum |-> counteval,
                                       Iteration |-> countiter,
                                       Min |-> min, Max |-> max])
  BY DEF PostEvaluationStatistics
<1>3. /\ ControlInv /\ SinceInv /\ RunTypeOK /\ TargetEnds /\ StatsInv /\ TypeOK
      /\ genStat \in Seq(Generation)
  BY DEF RunInv, IterationInv, RunTypeOK
<1>4. /\ status = "Running" /\ finalStat = NoReport /\ messages = {}
      /\ state # 1 /\ countiter \in Nat /\ counteval \in Nat
  BY <1>1, <1>3, StatTypes DEF ControlInv
<1>5. n = countiter - 1 /\ counteval = Lambda * (n + 1)
      /\ counteval = Lambda * n + Lambda /\ Lambda * n \in Nat
  <2>1. Behind = 1 /\ Ahead = Lambda
    BY <1>1 DEF Behind, Ahead
  <2>2. QED
    BY <1>0, <1>3, <1>4, <2>1, Times DEF ControlInv
<1>6. /\ Latest \subseteq 1..counteval
      /\ \A e \in Latest : log[e].val \in RawFitness /\ log[e].val \in Value
      /\ \A f \in RawFitness : \E e \in Latest : log[e].val = f
  <2>1. Latest \subseteq 1..counteval
    BY <1>4, <1>5, Times DEF Latest
  <2>2. \A e \in 1..counteval : log[e].val \in Value
    BY <1>3 DEF TypeOK, Evaluation
  <2>3. QED
    BY <1>1, <2>1, <2>2 DEF RunInv, RawInv
<1> DEFINE g == [EvalNum |-> counteval, Iteration |-> countiter,
                 Min |-> min, Max |-> max]
<1>7. g \in Generation
  <2>1. min \in Value /\ max \in Value
    BY <1>6
  <2>2. QED
    BY <1>4, <2>1 DEF Generation
<1>8. /\ g.EvalNum = counteval /\ g.Iteration = n + 1 /\ g.Min = min
      /\ g.Max = max
  BY <1>4, <1>5
<1> HIDE DEF g
<1>9. /\ genStat' = Append(genStat, g) /\ genStat' \in Seq(Generation)
      /\ Len(genStat') = n + 1 /\ genStat'[n + 1] = g
      /\ \A k \in 1..n : genStat'[k] = genStat[k]
  BY <1>0, <1>2, <1>3, <1>7 DEF g
<1>10. RunTypeOK'
  BY <1>1, <1>3, <1>9 DEF RunTypeOK, IterationInv, Place
<1>11. ControlInv'
  <2>1. Behind' = 0 /\ Ahead' = 0
    BY <1>1, <1>4 DEF Behind, Ahead, MeanDone
  <2>2. Len(genStat') = countiter' - Behind'
    BY <1>1, <1>4, <1>5, <1>9, <2>1
  <2>3. counteval' = Lambda * Len(genStat') + Ahead'
    BY <1>1, <1>4, <1>5, <1>9, <2>1
  <2>4. QED
    BY <1>1, <1>3, <1>4, <2>2, <2>3 DEF ControlInv
<1>12. SinceInv'
  BY <1>1, <1>3, <1>4 DEF SinceInv, MeanDone
<1>13. /\ Evals(n + 1)' = Latest
       /\ \A k \in 1..n : Evals(k)' = Evals(k)
  BY <1>1, <1>8, <1>9 DEF Evals, Latest
<1>14. StatsInv'
  <2>1. ASSUME NEW k \in 1..n
        PROVE  /\ Faithful(k)' /\ Lambda <= genStat'[k].EvalNum
               /\ genStat'[k].EvalNum <= counteval
    BY <1>0, <1>1, <1>3, <1>9, <1>13 DEF StatsInv, StatsFaithful, Faithful
  <2>2. /\ Faithful(n + 1)' /\ Lambda <= genStat'[n + 1].EvalNum
        /\ genStat'[n + 1].EvalNum <= counteval
    <3>1. \A e \in Latest : min <= log[e].val /\ log[e].val <= max
      BY <1>2, <1>6
    <3>2. (\E e \in Latest : log[e].val = min)
          /\ \E e \in Latest : log[e].val = max
      BY <1>6
    <3>3. Faithful(n + 1)'
      BY <1>1, <1>5, <1>8, <1>9, <1>13, <3>1, <3>2 DEF Faithful
    <3>4. \A p \in Nat : Lambda <= p + Lambda
      BY Times
    <3>5. Lambda <= counteval /\ counteval <= counteval
      BY <1>4, <1>5, <3>4
    <3>6. QED
      BY <1>8, <1>9, <3>3, <3>5
  <2>3. ASSUME NEW e \in 1..(Lambda * (n + 1))
        PROVE  \E k \in 1..(n + 1) : e \in Evals(k)'
    <3>1. CASE e <= Lambda * n
      BY <1>0, <1>3, <1>4, <1>5, <1>13, <3>1 DEF StatsInv
    <3>2. CASE e > Lambda * n
      <4>1. e \in Latest
        BY <1>4, <1>5, <3>2, Times DEF Latest
      <4>2. QED
        BY <1>4, <1>13, <4>1
    <3>3. QED
      BY <1>5, <3>1, <3>2
  <2>4. \A k \in 1..(n + 1) : k \in 1..n \/ k = n + 1
    BY <1>4
  <2>5. QED
    BY <1>1, <1>9, <2>1, <2>2, <2>3, <2>4 DEF StatsInv, StatsFaithful
<1>15. RawInv' /\ ReasonInv'
  BY <1>1, <1>4 DEF RawInv, ReasonInv
<1>16. TargetEnds'
  <2>1. \A k \in 1..n : ~ (genStat'[k].Min <= StopFitness)
    BY <1>0, <1>1, <1>3, <1>9 DEF TargetEnds
  <2>2. QED
    BY <1>1, <1>4, <1>9, <2>1 DEF TargetEnds
<1>17. QED
  BY <1>10, <1>11, <1>12, <1>14, <1>15, <1>16 DEF RunInv

LEMMA MeanRun ==
  ASSUME IterationInv, IterationInv', RunInv, EvaluateMean
  PROVE  RunInv'
<1> DEFINE one == 1
<1>1. /\ at = "mean" /\ at' = "report"
      /\ UNCHANGED <<status, genStat, finalStat>>
  BY DEF EvaluateMean, From
<1>2. PICK f \in Value : SetFitnessOfMeanX(f)
  BY DEF EvaluateMean
<1> DEFINE new == [k \in 1..one |-> [x |-> xmean, val |-> f]]
<1>3. /\ Count(one, new) /\ one \in Nat /\ one > 0
      /\ UNCHANGED <<state, countiter, messages, lastcounteval>>
  BY <1>2 DEF SetFitnessOfMeanX, sample, stop
<1>4. new \in [1..one -> Evaluation] /\ TypeOK
  BY DEF IterationInv, TypeOK, Evaluation
<1> HIDE DEF new
<1>5. /\ counteval' = counteval + 1 /\ counteval' \in Nat
      /\ \A k \in 1..counteval : log'[k] = log[k]
      /\ since' = (IF countiter = 1 THEN counteval + 1 ELSE since)
  <2>1. since' = (IF countiter = 1 THEN counteval + 1 ELSE since)
    BY <1>3 DEF Count
  <2> HIDE DEF one
  <2>2. /\ counteval' = counteval + one /\ counteval' \in Nat
        /\ \A k \in 1..counteval : log'[k] = log[k]
    BY <1>3, <1>4, CountExtends
  <2>3. QED
    BY <2>1, <2>2 DEF one
<1>6. ControlInv /\ SinceInv /\ RunTypeOK /\ TargetEnds /\ StatsInv /\ ReasonInv
  BY DEF RunInv
<1>7. /\ status = "Finishing" /\ finalStat = NoReport /\ messages # {}
      /\ lastcounteval = counteval
      /\ state # 1 /\ countiter \in Nat /\ counteval \in Nat
      /\ Len(genStat) \in Nat
  BY <1>1, <1>6, StatTypes DEF ControlInv
<1>8. Len(genStat) = countiter /\ counteval = Lambda * Len(genStat)
  <2>1. Behind = 0 /\ Ahead = 0
    BY <1>1, <1>7 DEF Behind, Ahead, MeanDone
  <2>2. QED
    BY <1>6, <1>7, <2>1, Times DEF ControlInv
<1>9. RunTypeOK'
  BY <1>1, <1>6 DEF RunTypeOK, IterationInv, Place
<1>10. ControlInv'
  <2>1. Behind' = 0 /\ Ahead' = 1
    BY <1>1 DEF Behind, Ahead, MeanDone
  <2>2. Len(genStat') = countiter' - Behind'
    BY <1>1, <1>3, <1>7, <1>8, <2>1
  <2>3. counteval' = Lambda * Len(genStat') + Ahead'
    BY <1>1, <1>5, <1>8, <2>1
  <2>4. lastcounteval' + 1 = counteval'
    BY <1>3, <1>5, <1>7
  <2>5. QED
    BY <1>1, <1>3, <1>6, <1>7, <2>2, <2>3, <2>4 DEF ControlInv
<1>11. SinceInv'
  <2>1. MeanDone'
    BY <1>1 DEF MeanDone
  <2>2. CASE countiter = 1
    BY <1>3, <1>5, <1>7, <2>1, <2>2 DEF SinceInv
  <2>3. ASSUME countiter > 0, countiter # 1
        PROVE  since' = 1
    <3>1. counteval > 0
      BY <1>7, <1>8, <2>3, TimesGrows, Times
    <3>2. since = 1
      BY <1>1, <1>6, <1>7, <2>3, <3>1 DEF SinceInv, MeanDone
    <3>3. QED
      BY <1>5, <2>3, <3>2
  <2>4. QED
    BY <1>3, <2>2, <2>3 DEF SinceInv
<1>12. StatsInv'
  <2>1. counteval <= counteval'
    BY <1>5, <1>7
  <2>2. QED
    BY <1>1, <1>4, <1>5, <1>6, <2>1, StatsKept
<1>13. RawInv'
  BY <1>1 DEF RawInv
<1>14. ReasonInv' /\ TargetEnds'
  BY <1>1, <1>3, <1>6, <1>7 DEF ReasonInv, TargetEnds, OnTarget
<1>15. QED
  BY <1>9, <1>10, <1>11, <1>12, <1>13, <1>14 DEF RunInv

(* The report is written from what the end of the loop has found: the tests*)
(* made for it do not test again.                                          *)
LEMMA NotTestedAgain ==
  ASSUME IterationInv, RunInv, FinalStatistics
  PROVE  /\ UNCHANGED vars /\ finalStat'.reason \in messages
         /\ finalStat'.evaluation = bestever.eval
         /\ finalStat'.individual = bestever.x
         /\ finalStat' \in Report
<1>1. messages # {} /\ lastcounteval + 1 = counteval
  BY DEF FinalStatistics, From, RunInv, ControlInv
<1>2. Tested
  BY <1>1 DEF Tested
<1>3. UNCHANGED vars
  BY <1>2 DEF FinalStatistics, GetMessages, Test
<1>4. messages' = messages
  BY <1>3 DEF vars, stop
<1>5. PICK last \in messages :
        finalStat' = [evaluation |-> bestever.eval,
                      individual |-> bestever.x, reason |-> last]
  BY <1>4 DEF FinalStatistics
<1>6. bestever.eval \in Nat /\ bestever.x \in Int /\ messages \subseteq Criterion
  BY DEF IterationInv, TypeOK
<1>7. QED
  BY <1>3, <1>5, <1>6 DEF Report

LEMMA FinalRun ==
  ASSUME IterationInv, IterationInv', RunInv, FinalStatistics
  PROVE  RunInv'
<1>1. /\ at = "report" /\ at' = "final" /\ UNCHANGED <<status, genStat>>
      /\ finalStat'.reason \in messages
      /\ finalStat'.evaluation = bestever.eval
      /\ finalStat'.individual = bestever.x
      /\ finalStat' \in Report
      /\ UNCHANGED <<state, countiter, counteval, raw, log, since, bestever,
                     messages, lastcounteval>>
  BY NotTestedAgain
     DEF FinalStatistics, From, vars, sample, evaluation, stop
<1>2. /\ ControlInv /\ SinceInv /\ RunTypeOK /\ TargetEnds /\ ReasonInv
      /\ status = "Finishing"
  BY <1>1 DEF RunInv, ControlInv
<1>3. finalStat' # NoReport
  <2>1. finalStat'.reason \in Criterion
    BY <1>1 DEF Report
  <2>2. NoReport.reason = "none"
    BY DEF NoReport
  <2>3. QED
    BY <2>1, <2>2 DEF Criterion
<1>4. RunTypeOK'
  BY <1>1, <1>2 DEF RunTypeOK, IterationInv, Place
<1>5. ControlInv'
  <2>1. Behind' = Behind /\ Ahead' = Ahead
    BY <1>1 DEF Behind, Ahead, MeanDone
  <2>2. QED
    BY <1>1, <1>2, <1>3, <2>1 DEF ControlInv
<1>6. SinceInv'
  BY <1>1, <1>2 DEF SinceInv, MeanDone
<1>7. StatsInv'
  BY <1>1, DocumentKept
<1>8. RawInv'
  BY <1>1 DEF RawInv
<1>9. ReasonInv'
  BY <1>1, <1>2 DEF ReasonInv, OnTarget
<1>10. TargetEnds'
  BY <1>1, <1>2 DEF TargetEnds
<1>11. QED
  BY <1>4, <1>5, <1>6, <1>7, <1>8, <1>9, <1>10 DEF RunInv

LEMMA SetCompleteRun ==
  ASSUME IterationInv, IterationInv', RunInv, SetComplete
  PROVE  RunInv'
<1>1. /\ at = "final" /\ at' = "dead" /\ status' = "Complete"
      /\ UNCHANGED <<genStat, finalStat>>
      /\ UNCHANGED <<state, countiter, counteval, raw, log, since, bestever,
                     messages, lastcounteval>>
  BY DEF SetComplete, From, vars, sample, evaluation, stop
<1>2. /\ ControlInv /\ SinceInv /\ RunTypeOK /\ TargetEnds /\ ReasonInv
      /\ status = "Finishing" /\ finalStat # NoReport
  BY <1>1 DEF RunInv, ControlInv
<1>3. RunTypeOK'
  BY <1>1, <1>2 DEF RunTypeOK, IterationInv, Place
<1>4. ControlInv'
  <2>1. Behind' = Behind /\ Ahead' = Ahead
    BY <1>1 DEF Behind, Ahead, MeanDone
  <2>2. QED
    BY <1>1, <1>2, <2>1 DEF ControlInv
<1>5. SinceInv'
  BY <1>1, <1>2 DEF SinceInv, MeanDone
<1>6. StatsInv'
  BY <1>1, DocumentKept
<1>7. RawInv'
  BY <1>1 DEF RawInv
<1>8. ReasonInv'
  BY <1>1, <1>2 DEF ReasonInv, OnTarget
<1>9. TargetEnds'
  BY <1>1, <1>2 DEF TargetEnds
<1>10. QED
  BY <1>3, <1>4, <1>5, <1>6, <1>7, <1>8, <1>9 DEF RunInv

LEMMA RunStutters ==
  ASSUME IterationInv, RunInv, UNCHANGED runVars
  PROVE  RunInv'
<1>1. /\ UNCHANGED <<at, status, genStat, finalStat>>
      /\ UNCHANGED <<state, countiter, counteval, arx, population, draws, xmean,
                     raw, bestever, idxRecentOffspring, messages,
                     lastcounteval, log, since>>
  BY DEF runVars, vars, sample, evaluation, stop
<1>2. RunTypeOK' /\ ControlInv' /\ SinceInv'
  BY <1>1 DEF RunInv, RunTypeOK, TypeOK, ControlInv, SinceInv, Behind, Ahead,
     MeanDone
<1>3. StatsInv'
  BY <1>1, DocumentKept
<1>4. RawInv' /\ ReasonInv' /\ TargetEnds'
  BY <1>1 DEF RunInv, RawInv, RawFitness, Latest, ReasonInv, OnTarget,
     TargetEnds
<1>5. QED
  BY <1>2, <1>3, <1>4 DEF RunInv

(* The invariant of the thread holds along every run of it.                *)
THEOREM RunInvariant == RunSpec => [](IterationInv /\ RunInv)
<1>1. RunInit => RunInv
  <2>1. SUFFICES ASSUME RunInit PROVE RunInv
    OBVIOUS
  <2>2. /\ state = 0 /\ countiter = 0 /\ counteval = 0 /\ messages = {}
        /\ at = "loop" /\ status = "Running" /\ genStat = <<>>
        /\ finalStat = NoReport
    BY <2>1 DEF RunInit, Init
  <2>3. Len(genStat) = 0 /\ genStat \in Seq(Generation)
    BY <2>2
  <2>4. RunTypeOK
    <3>1. TypeOK
      BY <2>1, InitInv DEF RunInit, IterationInv
    <3>2. QED
      BY <2>2, <2>3, <3>1 DEF RunTypeOK, Place
  <2>5. ControlInv
    <3>1. Behind = 0 /\ Ahead = 0
      BY <2>2 DEF Behind, Ahead, MeanDone
    <3>2. QED
      BY <2>2, <2>3, <3>1, Times DEF ControlInv
  <2>6. SinceInv /\ RawInv /\ ReasonInv
    BY <2>2 DEF SinceInv, RawInv, ReasonInv
  <2>7. StatsInv
    BY <2>3, Times DEF StatsInv, StatsFaithful
  <2>8. TargetEnds
    BY <2>3 DEF TargetEnds
  <2>9. QED
    BY <2>4, <2>5, <2>6, <2>7, <2>8 DEF RunInv
<1>2. IterationInv /\ IterationInv' /\ RunInv /\ [RunNext]_runVars => RunInv'
  BY GoOnRun, EndLoopRun, SampleRun, SampleThrowsRun, UpdateRun, PostRun,
     MeanRun, FinalRun, SetCompleteRun, RunStutters DEF RunNext
<1>3. RunSpec => []IterationInv
  BY StrategyDriven, IterationInvariant, PTL
<1>4. QED
  BY <1>1, <1>2, <1>3, PTL DEF RunSpec

(* The document, the report and the strategy always have their types.      *)
THEOREM RunTypeCorrect == RunSpec => []RunTypeOK
<1>1. RunInv => RunTypeOK
  BY DEF RunInv
<1>2. QED
  BY <1>1, RunInvariant, PTL

(* Each element of the document gives the iteration, the evaluations, the  *)
(* least and the largest value of its generation, for every population     *)
(* size and length of a run (EaInstance 171-197, EvolutionState 68-93).    *)
THEOREM StatsCorrect == RunSpec => []StatsFaithful
<1>1. RunInv => StatsFaithful
  BY DEF RunInv, StatsInv
<1>2. QED
  BY <1>1, RunInvariant, PTL

(* A generation on target, or one in which an evaluation failed and so     *)
(* counts as 0, is the last one (Rosenbrock 26, 55-58, EaInstance 171).    *)
THEOREM TargetStopsRun == RunSpec => []TargetEnds
<1>1. RunInv => TargetEnds
  BY DEF RunInv
<1>2. QED
  BY <1>1, RunInvariant, PTL

(* The reason in the report is a criterion that was met at the end of the  *)
(* loop, the mean's evaluation left out (CMAEvolutionStrategy 260-262,     *)
(* EvolutionState 120-124).                                                *)
THEOREM ReasonCorrect == RunSpec => []ReasonTrue
<1>1. RunInv => ReasonTrue
  <2>1. SUFFICES ASSUME RunInv PROVE ReasonTrue
    OBVIOUS
  <2>2. CASE finalStat = NoReport
    BY <2>2 DEF ReasonTrue, NoReport
  <2>3. CASE finalStat # NoReport
    <3>1. status # "Running"
      BY <2>1, <2>3 DEF RunInv, ControlInv
    <3>2. QED
      BY <2>1, <2>3, <3>1 DEF RunInv, ReasonInv, ReasonTrue, OnTarget
  <2>4. QED
    BY <2>2, <2>3
<1>2. QED
  BY <1>1, RunInvariant, PTL

(* The individual in the report is the point of the evaluation reported    *)
(* with it, and none of the document's values is smaller than the value    *)
(* found there, unless there is only one generation, after which the mean  *)
(* counts as best whatever its value (EaInstance 199-211).                 *)
THEOREM BestReportCorrect == RunSpec => []BestReported
<1>1. IterationInv /\ RunInv => BestReported
  <2>1. SUFFICES ASSUME IterationInv, RunInv,
                        finalStat # NoReport, genStat # <<>>
                 PROVE  /\ finalStat.evaluation \in 1..counteval
                        /\ log[finalStat.evaluation].x = finalStat.individual
                        /\ Len(genStat) > 1 => \A k \in 1..Len(genStat) :
                             log[finalStat.evaluation].val <= genStat[k].Min
    BY DEF BestReported
  <2>2. /\ finalStat.evaluation = bestever.eval
        /\ finalStat.individual = bestever.x
        /\ ControlInv /\ SinceInv /\ BestAttributed /\ BestIsFirst
        /\ genStat \in Seq(Generation)
    BY <2>1 DEF RunInv, ReasonInv, IterationInv, RunTypeOK
  <2>3. MeanDone /\ Behind = 0 /\ Ahead = 1
    BY <2>1, <2>2 DEF ControlInv, MeanDone, Behind, Ahead
  <2>4. /\ Len(genStat) = countiter /\ Len(genStat) \in Nat
        /\ counteval = Lambda * Len(genStat) + 1
    BY <2>1, <2>2, <2>3, StatTypes, Times DEF ControlInv
  <2>5. Len(genStat) > 0
    BY <2>1, <2>2
  <2>6. counteval > 0
    BY <2>4, Times
  <2>7. since > 0 /\ (countiter > 1 => since = 1)
    BY <2>2, <2>4, <2>5, <2>6 DEF SinceInv
  <2>8. /\ bestever.fit # NaN /\ bestever.eval \in 1..counteval
        /\ log[bestever.eval].x = bestever.x
        /\ log[bestever.eval].val = bestever.fit
    BY <2>2, <2>7 DEF BestAttributed, BestIsFirst
  <2>9. ASSUME Len(genStat) > 1, NEW k \in 1..Len(genStat)
        PROVE  bestever.fit <= genStat[k].Min
    <3>1. \A e \in 1..counteval : bestever.fit <= log[e].val
      BY <2>2, <2>4, <2>7, <2>9 DEF BestIsFirst
    <3>2. PICK e \in Evals(k) : log[e].val = genStat[k].Min
      BY <2>1, StatTypes DEF Faithful
    <3>3. e \in 1..counteval
      BY <2>1, <3>2, StatTypes
    <3>4. QED
      BY <3>1, <3>2, <3>3
  <2>10. QED
    BY <2>2, <2>8, <2>9
<1>2. QED
  BY <1>1, RunInvariant, PTL
----------------------------------------------------------------------------
(* The strategy's loop implements the loop EaServer gives a play thread.   *)
LEMMA OneThread ==
  ASSUME NEW STATE i, Thread' = i
  PROVE  Server!Become("job", i)
BY DEF Server!Become

(* What the final element says is true: the point and the value that are   *)
(* reported belong together and are best, and the loop ended for the       *)
(* reason that is given (EvolutionState 113-125).                          *)
THEOREM FinalElementCorrect == RunSpec => []ReportTrue
<1>1. BestReported /\ ReasonTrue => ReportTrue
  BY DEF ReportTrue
<1>2. QED
  BY <1>1, BestReportCorrect, ReasonCorrect, PTL

LEMMA ThreadForm ==
  /\ Thread.params = Form /\ Form.evals = StopMaxFunEvals
  /\ Server!LambdaOf(Form) = Lambda
  /\ Thread.phase = PhaseAt[at] /\ Thread.status = status
  /\ Thread.iter = (IF state = 1 THEN countiter - 1 ELSE countiter)
  /\ Thread.eval = (IF at = "mean" THEN counteval + 1 ELSE counteval)
  /\ Thread.gens = Len(genStat)
BY Times DEF Thread, Form, Server!LambdaOf

LEMMA ThreadAfter ==
  /\ Thread'.params = Form
  /\ Thread'.phase = PhaseAt[at'] /\ Thread'.status = status'
  /\ Thread'.iter = (IF state' = 1 THEN countiter' - 1 ELSE countiter')
  /\ Thread'.eval = (IF at' = "mean" THEN counteval' + 1 ELSE counteval')
  /\ Thread'.gens = Len(genStat')
BY DEF Thread

LEMMA FinalField ==
  /\ Thread.final = (finalStat # NoReport)
  /\ Thread'.final = (finalStat' # NoReport)
  /\ UNCHANGED finalStat => Thread'.final = Thread.final
<1>1. Thread.final = (finalStat # NoReport)
  BY DEF Thread
<1>2. Thread'.final = (finalStat' # NoReport)
  BY DEF Thread
<1>3. UNCHANGED finalStat => Thread'.final = Thread.final
  BY DEF Thread
<1>4. QED
  BY <1>1, <1>2, <1>3

LEMMA ThreadTyped == IterationInv /\ RunInv => Thread \in Server!Started
<1>1. SUFFICES ASSUME IterationInv, RunInv PROVE Thread \in Server!Started
  OBVIOUS
<1>2. /\ countiter \in Nat /\ counteval \in Nat /\ Len(genStat) \in Nat
      /\ at \in Place /\ status \in {"Running", "Finishing", "Complete"}
      /\ state = 1 => countiter - 1 \in Nat
  BY <1>1, StatTypes DEF RunInv, RunTypeOK, ControlInv
<1>3. PhaseAt[at] \in Server!Phase /\ status \in Server!RunStatus
  BY <1>2 DEF Place, PhaseAt, Server!Phase, Server!RunStatus
<1>4. /\ (IF state = 1 THEN countiter - 1 ELSE countiter) \in Nat
      /\ (IF at = "mean" THEN counteval + 1 ELSE counteval) \in Nat
      /\ (finalStat # NoReport) \in BOOLEAN
  BY <1>2
<1>5. QED
  BY <1>2, <1>3, <1>4 DEF Thread, Server!Started

(* A generation, seen from outside, is the update that ends it.            *)
LEMMA UpdateIterates ==
  ASSUME IterationInv, RunInv, EvaluateAndUpdate,
         Thread \in Server!Started, Thread' \in Server!Started
  PROVE  Server!Iterate("job")
<1>1. PICK v \in [Index -> Value] : Absorb(v)
  BY DEF EvaluateAndUpdate, UpdateDistribution
<1>2. /\ at = "evaluate" /\ at' = "post" /\ state' = 3
      /\ counteval' = counteval + Lambda
      /\ UNCHANGED <<status, genStat, finalStat, countiter>>
  BY <1>1 DEF EvaluateAndUpdate, From, Absorb, Count, sample
<1>3. /\ state = 1 /\ counteval < StopMaxFunEvals
      /\ counteval \in Nat /\ countiter \in Nat
  BY <1>2, StatTypes DEF RunInv, ControlInv
<1>4. Thread' = [Thread EXCEPT !.phase = "sampled", !.iter = @ + 1,
                               !.eval = @ + Lambda]
  <2>1. /\ Thread'.phase = "sampled" /\ Thread'.status = Thread.status
        /\ Thread'.iter = Thread.iter + 1 /\ Thread'.eval = Thread.eval + Lambda
        /\ Thread'.gens = Thread.gens /\ Thread'.final = Thread.final
    BY <1>2, <1>3, ThreadForm, ThreadAfter, FinalField DEF PhaseAt
  <2>2. QED
    BY <2>1, Times DEF Server!Started
<1>5. /\ Thread.phase = "loop" /\ ~ (Thread.eval >= StopMaxFunEvals)
  BY <1>2, <1>3, ThreadForm, RunAssumption DEF PhaseAt
<1>6. QED
  BY <1>4, <1>5, ThreadForm, OneThread
     DEF Server!Iterate, Server!At, Server!BudgetSpent, Server!Become

(* The loop ends because the budget is spent or, after a generation, for   *)
(* any other reason.                                                       *)
LEMMA EndLoopFinishes ==
  ASSUME IterationInv, RunInv, EndLoop,
         Thread \in Server!Started, Thread' \in Server!Started
  PROVE  Server!Finish("job")
<1>1. /\ at = "loop" /\ at' = "mean" /\ messages' # {} /\ TestLoop
      /\ status' = "Finishing" /\ UNCHANGED <<genStat, finalStat>>
  BY DEF EndLoop, From
<1>2. /\ UNCHANGED <<state, countiter, counteval>>
      /\ "MaxFunEvals" \in messages' => counteval >= StopMaxFunEvals
      /\ "MaxIter" \in messages' => countiter >= StopMaxIter
      /\ "Fitness" \in messages' => \E k \in 1..Len(genStat) : OnTarget(k)
      /\ messages' \subseteq Criterion
      /\ countiter = 0 => "Numerics" \notin messages'
  BY <1>1, LoopTested
<1>3. /\ state # 1 /\ counteval \in Nat /\ countiter \in Nat
      /\ Len(genStat) = countiter
  BY <1>1, StatTypes DEF RunInv, ControlInv, Behind
<1>4. counteval >= StopMaxFunEvals \/ countiter > 0
  <2>1. PICK m \in Criterion : m \in messages'
    BY <1>1, <1>2
  <2>2. CASE m \in {"MaxFunEvals", "Numerics"}
    BY <1>2, <1>3, <2>1, <2>2
  <2>3. CASE m = "MaxIter"
    BY <1>2, <1>3, <2>1, <2>3, RunAssumption, IterationAssumption
  <2>4. CASE m = "Fitness"
    BY <1>2, <1>3, <2>1, <2>4
  <2>5. QED
    BY <2>1, <2>2, <2>3, <2>4 DEF Criterion
<1>5. Thread' = [Thread EXCEPT !.phase = "finish", !.status = "Finishing",
                               !.eval = @ + 1]
  <2>1. /\ Thread'.phase = "finish" /\ Thread'.status = "Finishing"
        /\ Thread'.iter = Thread.iter /\ Thread'.eval = Thread.eval + 1
        /\ Thread'.gens = Thread.gens /\ Thread'.final = Thread.final
    BY <1>1, <1>2, <1>3, ThreadForm, ThreadAfter, FinalField DEF PhaseAt
  <2>2. QED
    BY <2>1, Times DEF Server!Started
<1>6. /\ Thread.phase = "loop"
      /\ Thread.eval >= StopMaxFunEvals \/ Thread.iter > 0
  BY <1>1, <1>3, <1>4, ThreadForm DEF PhaseAt
<1>7. QED
  BY <1>5, <1>6, ThreadForm, OneThread
     DEF Server!Finish, Server!At, Server!BudgetSpent, Server!Become

LEMMA ThrowsThrows ==
  ASSUME IterationInv, RunInv, SampleThrows,
         Thread \in Server!Started, Thread' \in Server!Started
  PROVE  Server!IterateThrows("job")
<1>1. /\ at = "sample" /\ at' = "dead" /\ countiter > 0
      /\ UNCHANGED <<status, genStat, finalStat, state, countiter, counteval>>
  BY DEF SampleThrows, From, vars, sample, evaluation
<1>2. /\ state # 1 /\ counteval < StopMaxFunEvals /\ counteval \in Nat
  BY <1>1, StatTypes DEF RunInv, ControlInv
<1>3. Thread' = [Thread EXCEPT !.phase = "dead"]
  <2>1. /\ Thread'.phase = "dead" /\ Thread'.status = Thread.status
        /\ Thread'.iter = Thread.iter /\ Thread'.eval = Thread.eval
        /\ Thread'.gens = Thread.gens /\ Thread'.final = Thread.final
    BY <1>1, ThreadForm, ThreadAfter, FinalField DEF PhaseAt
  <2>2. QED
    BY <2>1, Times DEF Server!Started
<1>4. /\ Thread.phase = "loop" /\ Thread.iter > 0
      /\ ~ (Thread.eval >= StopMaxFunEvals)
  BY <1>1, <1>2, ThreadForm, RunAssumption DEF PhaseAt
<1>5. QED
  BY <1>3, <1>4, ThreadForm, OneThread
     DEF Server!IterateThrows, Server!At, Server!BudgetSpent, Server!Become

LEMMA PostPosts ==
  ASSUME IterationInv, RunInv, PostEvaluationStatistics,
         Thread \in Server!Started, Thread' \in Server!Started
  PROVE  Server!PostEvaluationStatistics("job")
<1>1. /\ at = "post" /\ at' = "loop"
      /\ UNCHANGED <<status, finalStat, state, countiter, counteval>>
  BY DEF PostEvaluationStatistics, From, vars, sample, evaluation
<1>2. Len(genStat') = Len(genStat) + 1
  <2>1. genStat \in Seq(Generation)
    BY DEF RunInv, RunTypeOK
  <2>2. \E g : genStat' = Append(genStat, g)
    BY DEF PostEvaluationStatistics
  <2>3. PICK g : genStat' = Append(genStat, g)
    BY <2>2
  <2>4. QED
    BY <2>1, <2>3
<1>3. Thread' = [Thread EXCEPT !.phase = "loop", !.gens = @ + 1]
  <2>1. /\ Thread'.phase = "loop" /\ Thread'.status = Thread.status
        /\ Thread'.iter = Thread.iter /\ Thread'.eval = Thread.eval
        /\ Thread'.gens = Thread.gens + 1 /\ Thread'.final = Thread.final
    BY <1>1, <1>2, ThreadForm, ThreadAfter, FinalField DEF PhaseAt
  <2>2. QED
    BY <2>1, Times DEF Server!Started
<1>4. Thread.phase = "sampled"
  BY <1>1, ThreadForm DEF PhaseAt
<1>5. QED
  BY <1>3, <1>4, OneThread
     DEF Server!PostEvaluationStatistics, Server!At, Server!Become

LEMMA FinalReports ==
  ASSUME IterationInv, RunInv, FinalStatistics,
         Thread \in Server!Started, Thread' \in Server!Started
  PROVE  Server!FinalStatistics("job")
<1>1. /\ at = "report" /\ at' = "final" /\ UNCHANGED <<status, genStat>>
      /\ UNCHANGED <<state, countiter, counteval>>
      /\ finalStat'.reason \in messages
  BY NotTestedAgain DEF FinalStatistics, From, vars, sample, evaluation
<1>2. finalStat' # NoReport
  <2>1. finalStat'.reason \in Criterion
    BY <1>1 DEF IterationInv, TypeOK
  <2>2. NoReport.reason = "none"
    BY DEF NoReport
  <2>3. QED
    BY <2>1, <2>2 DEF Criterion
<1>3. Thread' = [Thread EXCEPT !.phase = "report", !.final = TRUE]
  <2>1. /\ Thread'.phase = "report" /\ Thread'.status = Thread.status
        /\ Thread'.iter = Thread.iter /\ Thread'.eval = Thread.eval
        /\ Thread'.gens = Thread.gens /\ Thread'.final = TRUE
    BY <1>1, <1>2, ThreadForm, ThreadAfter, FinalField DEF PhaseAt
  <2>2. QED
    BY <2>1, Times DEF Server!Started
<1>4. Thread.phase = "finish"
  BY <1>1, ThreadForm DEF PhaseAt
<1>5. QED
  BY <1>3, <1>4, OneThread
     DEF Server!FinalStatistics, Server!At, Server!Become

LEMMA CompleteCompletes ==
  ASSUME IterationInv, RunInv, SetComplete,
         Thread \in Server!Started, Thread' \in Server!Started
  PROVE  Server!SetComplete("job")
<1>1. /\ at = "final" /\ at' = "dead" /\ status' = "Complete"
      /\ UNCHANGED <<genStat, finalStat, state, countiter, counteval>>
  BY DEF SetComplete, From, vars, sample, evaluation
<1>2. Thread' = [Thread EXCEPT !.phase = "dead", !.status = "Complete"]
  <2>1. /\ Thread'.phase = "dead" /\ Thread'.status = "Complete"
        /\ Thread'.iter = Thread.iter /\ Thread'.eval = Thread.eval
        /\ Thread'.gens = Thread.gens /\ Thread'.final = Thread.final
    BY <1>1, ThreadForm, ThreadAfter, FinalField DEF PhaseAt
  <2>2. QED
    BY <2>1, Times DEF Server!Started
<1>3. Thread.phase = "report"
  BY <1>1, ThreadForm DEF PhaseAt
<1>4. QED
  BY <1>2, <1>3, OneThread
     DEF Server!SetComplete, Server!At, Server!Become

(* The rest of the server sees nothing of the other steps.                 *)
LEMMA InnerSteps ==
  ASSUME IterationInv, RunInv,
         GoOn \/ Sample \/ EvaluateMean \/ UNCHANGED runVars
  PROVE  UNCHANGED Thread
<1>1. CASE GoOn
  <2>1. /\ at = "loop" /\ at' = "sample"
        /\ UNCHANGED <<status, genStat, finalStat, state, countiter, counteval>>
    BY <1>1, LoopTested DEF GoOn, From
  <2>2. QED
    BY <2>1 DEF Thread, PhaseAt
<1>2. CASE Sample
  <2>1. /\ at = "sample" /\ at' = "evaluate" /\ state' = 1
        /\ countiter' = (IF state = 1 THEN countiter ELSE countiter + 1)
        /\ UNCHANGED <<status, genStat, finalStat, counteval>>
    BY <1>2 DEF Sample, From, SamplePopulation, evaluation
  <2>2. state # 1 /\ countiter \in Nat
    BY <2>1, StatTypes DEF RunInv, ControlInv
  <2>3. QED
    BY <2>1, <2>2 DEF Thread, PhaseAt
<1>3. CASE EvaluateMean
  <2>1. /\ at = "mean" /\ at' = "report" /\ counteval' = counteval + 1
        /\ UNCHANGED <<status, genStat, finalStat, state, countiter>>
    BY <1>3 DEF EvaluateMean, From, SetFitnessOfMeanX, Count, sample
  <2>2. QED
    BY <2>1 DEF Thread, PhaseAt
<1>4. CASE UNCHANGED runVars
  BY <1>4 DEF Thread, runVars, vars, sample, evaluation
<1>5. QED
  BY <1>1, <1>2, <1>3, <1>4

(* The strategy's loop implements the one EaServer gives a play thread: it *)
(* takes a step of it, or one the rest of the server does not see, and     *)
(* what JobSystem and JobBoard assume of the thread (CompleteIsWhole among *)
(* it) is what the strategy delivers (EaInstance 171-211).                 *)
THEOREM ThreadImplemented == RunSpec => ThreadRefined
<1> DEFINE Before == Thread = [phase |-> "loop", status |-> "Running",
                               params |-> Form, iter |-> 0, eval |-> 0,
                               gens |-> 0, final |-> FALSE]
           Step == [Server!PlayThread("job")]_Thread
           Typed == Thread \in Server!Started
<1>1. RunInit => Before
  <2>1. SUFFICES ASSUME RunInit PROVE Before
    OBVIOUS
  <2>2. /\ PhaseAt[at] = "loop" /\ status = "Running"
        /\ (IF state = 1 THEN countiter - 1 ELSE countiter) = 0
        /\ (IF at = "mean" THEN counteval + 1 ELSE counteval) = 0
        /\ Len(genStat) = 0
    BY <2>1 DEF RunInit, Init, PhaseAt
  <2>3. (finalStat # NoReport) = FALSE
    BY <2>1 DEF RunInit
  <2>4. QED
    BY <2>2, <2>3 DEF Thread
<1>2. IterationInv /\ RunInv /\ Typed /\ Typed' /\ [RunNext]_runVars => Step
  <2>1. SUFFICES ASSUME IterationInv, RunInv, Typed, Typed',
                        [RunNext]_runVars
                 PROVE  Step
    OBVIOUS
  <2>2. CASE GoOn \/ Sample \/ EvaluateMean \/ UNCHANGED runVars
    BY <2>1, <2>2, InnerSteps
  <2>3. CASE EvaluateAndUpdate \/ EndLoop \/ SampleThrows
    BY <2>1, <2>3, UpdateIterates, EndLoopFinishes, ThrowsThrows
       DEF Server!PlayThread
  <2>4. CASE PostEvaluationStatistics \/ FinalStatistics \/ SetComplete
    BY <2>1, <2>4, PostPosts, FinalReports, CompleteCompletes
       DEF Server!PlayThread
  <2>5. QED
    BY <2>1, <2>2, <2>3, <2>4 DEF RunNext
<1>3. IterationInv /\ RunInv => Typed
  BY ThreadTyped
<1>4. ThreadRefined <=> Before /\ [][Server!PlayThread("job")]_Thread
  BY DEF ThreadRefined
<1>5. QED
  BY <1>1, <1>2, <1>3, <1>4, RunInvariant, PTL DEF RunSpec
=============================================================================
