---------------------------- MODULE CMAIteration ----------------------------
(***************************************************************************)
(* A CMAEvolutionStrategy object after a successful init(): sampling,      *)
(* resampling, the update from the objective values, the evaluation of the *)
(* mean, and the termination criteria, called in any order the object      *)
(* accepts.  A call that only throws, or only reads, is not an action.     *)
(*                                                                         *)
(* A search point is its identity: a sampled point is the number of its    *)
(* draw, 0 is the vector of zeros the arrays start with, and a mean is     *)
(* minus the evaluation count it was computed at (-1: the initial one).    *)
(***************************************************************************)
EXTENDS Integers, FiniteSets

CONSTANTS
  Lambda,            \* population size
  Value,             \* objective values
  NaN,
  StopFitness, StopMaxFunEvals, StopMaxIter,
  MaxDraws, MaxEval  \* bounds: points drawn, evaluations

ASSUME IterationAssumption ==
  /\ Lambda \in Nat /\ Lambda > 1
  /\ Value \subseteq Int /\ NaN \notin Int
  /\ {StopFitness, StopMaxFunEvals, StopMaxIter} \subseteq Int

VARIABLES
  state,        \* 0 initialised, 1 sampled, 3 updated
  countiter, counteval,
  arx,          \* the sampled points
  population,   \* their copies, which the caller evaluates
  xmean,
  raw,          \* fit.raw: values with their index, ranked in state 3
  bestever,     \* bestever_x, bestever_fit, bestever_eval
  idxRecentOffspring,
  messages,     \* the criteria the StopCondition object has found met
  lastcounteval,
  draws,        \* how many points were drawn
  log,          \* history: the point and value of each evaluation
  since         \* history: first evaluation that bestever stands for

evaluation == <<counteval, xmean, raw, bestever, log, since>>
sample == <<countiter, arx, population, idxRecentOffspring, draws>>
stop == <<messages, lastcounteval>>
vars == <<state, sample, evaluation, stop>>
----------------------------------------------------------------------------
Index == 0..(Lambda - 1)
Evaluation == [x : Int, val : Value]

(* After init() the best point is the initial one, its value not a number. *)
NoBest == [x |-> -1, fit |-> NaN, eval |-> 0]

\* Mutant: an equal value replaces the best one.
ImprovesOrEquals(f) ==
  countiter = 1 \/ (bestever.fit # NaN /\ f <= bestever.fit)

(* The test of updateBestEver; a comparison with NaN is false.             *)
Improves(f) == countiter = 1 \/ (bestever.fit # NaN /\ f < bestever.fit)

UpdateBestEver(x, f, eval) ==
  bestever' = IF Improves(f) THEN [x |-> x, fit |-> f, eval |-> eval]
              ELSE bestever

(* The caller evaluated n points, with the results new[1] to new[n].       *)
Count(n, new) ==
  /\ counteval' = counteval + n
  /\ log' = [k \in 1..(counteval + n) |->
               IF k <= counteval THEN log[k] ELSE new[k - counteval]]
  /\ since' = IF countiter = 1 THEN counteval + 1 ELSE since
----------------------------------------------------------------------------
Draw == [i \in Index |-> draws + i + 1]

(* samplePopulation; repeated, it draws again within the same iteration.   *)
SamplePopulation ==
  /\ draws + Lambda <= MaxDraws
  /\ countiter' = IF state = 1 THEN countiter ELSE countiter + 1
  /\ state' = 1
  /\ idxRecentOffspring' = Lambda - 1
  /\ arx' = Draw /\ population' = Draw
  /\ draws' = draws + Lambda
  /\ UNCHANGED <<evaluation, stop>>

\* Mutant: only the caller's copy is drawn anew.
ResampleCopy(i) ==
  /\ state = 1 /\ draws < MaxDraws
  /\ population' = [population EXCEPT ![i] = draws + 1]
  /\ draws' = draws + 1
  /\ UNCHANGED <<state, countiter, arx, idxRecentOffspring, evaluation, stop>>

ResampleSingle(i) ==
  /\ state = 1 /\ draws < MaxDraws
  /\ arx' = [arx EXCEPT ![i] = draws + 1]
  /\ population' = [population EXCEPT ![i] = draws + 1]
  /\ draws' = draws + 1
  /\ UNCHANGED <<state, countiter, idxRecentOffspring, evaluation, stop>>

\* Mutant: the comparator ranks the largest value first.
SortedDown(order, v) ==
  \A k, l \in Index : k < l => v[order[k]] >= v[order[l]]

(* order ranks the values v ascending, equal ones by index (IntDouble).    *)
Sorted(order, v) ==
  \A k, l \in Index : k < l =>
    \/ v[order[k]] < v[order[l]]
    \/ v[order[k]] = v[order[l]] /\ order[k] < order[l]

Permutation(order) == \A i \in Index : \E k \in Index : order[k] = i

(* The values the caller found: sorted, compared with the best, made the   *)
(* next mean.                                                              *)
Absorb(v) ==
  /\ \E order \in [Index -> Index] :
       /\ Permutation(order) /\ Sorted(order, v)
       /\ raw' = [k \in Index |-> [val |-> v[order[k]], i |-> order[k]]]
       /\ UpdateBestEver(arx[order[0]], v[order[0]], counteval + order[0] + 1)
  /\ Count(Lambda, [k \in 1..Lambda |-> [x |-> population[k - 1],
                                         val |-> v[k - 1]]])
  /\ xmean' = -(counteval + Lambda)
  /\ state' = 3
  /\ UNCHANGED <<sample, stop>>

\* Mutant: a second update from the same sample is accepted.
UpdateAgain(v) == counteval + Lambda <= MaxEval /\ Absorb(v)

(* updateDistribution(double[]); nothing keeps a caller from using it      *)
(* right after init().                                                     *)
UpdateDistribution(v) ==
  state # 3 /\ counteval + Lambda <= MaxEval /\ Absorb(v)

SetFitnessOfMeanX(f) ==
  /\ counteval < MaxEval
  /\ UpdateBestEver(xmean, f, counteval + 1)
  /\ Count(1, [k \in 1..1 |-> [x |-> xmean, val |-> f]])
  /\ UNCHANGED <<state, sample, xmean, raw, stop>>
----------------------------------------------------------------------------
Below == bestever.fit # NaN /\ bestever.fit <= StopFitness

\* Mutant: the target counts from the second iteration on.
TargetOfSecondIteration == countiter > 1 /\ Below

Target == (countiter > 1 \/ state >= 3) /\ Below

(* The termination criteria.  Whether a criterion of tolerance or of       *)
(* precision is met is left open.                                          *)
Holds(c) ==
  \/ c = "Fitness" /\ Target
  \/ c = "MaxFunEvals" /\ counteval >= StopMaxFunEvals
  \/ c = "MaxIter" /\ countiter >= StopMaxIter
Criterion == {"Fitness", "MaxFunEvals", "MaxIter", "Numerics"}

(* A met criterion is not tested again at the same evaluation count or,    *)
(* to leave out the mean, the next one.                                    *)
Tested == messages # {} /\ counteval \in {lastcounteval, lastcounteval + 1}

Test ==
  /\ ~Tested
  /\ lastcounteval' = counteval
  /\ \E more \in SUBSET {"Numerics"} :
       messages' = messages \cup {c \in Criterion : Holds(c)} \cup more
  /\ UNCHANGED <<state, sample, evaluation>>

Clear ==
  /\ messages' = {}
  /\ UNCHANGED <<state, sample, evaluation, lastcounteval>>
----------------------------------------------------------------------------
Zeros == [i \in Index |-> 0]

Init ==
  /\ state = 0 /\ countiter = 0 /\ counteval = 0
  /\ arx = Zeros /\ population = Zeros /\ draws = 0
  /\ xmean = -1
  /\ raw = [k \in Index |-> [val |-> 0, i |-> 0]]
  /\ bestever = NoBest
  /\ idxRecentOffspring = 0
  /\ messages = {} /\ lastcounteval = 0
  /\ log = <<>> /\ since = 0

Next ==
  \/ SamplePopulation
  \/ \E i \in Index : ResampleSingle(i)
  \/ \E v \in [Index -> Value] : UpdateDistribution(v)
  \/ \E f \in Value : SetFitnessOfMeanX(f)
  \/ Test \/ Clear

Spec == Init /\ [][Next]_vars
----------------------------------------------------------------------------
(* What the caller is told: getBestRecentSolution and getBestRecentX.      *)
RecentSolution ==
  [x |-> arx[raw[0].i], val |-> raw[0].val,
   eval |-> counteval - Lambda + raw[0].i + 1]

MinIdx(maxidx) ==
  CHOOSE k \in Index :
    /\ k = 0 \/ k < maxidx
    /\ \A l \in Index : l < maxidx => raw[k].val <= raw[l].val
    /\ \A l \in 0..(k - 1) : raw[l].val > raw[k].val
RecentX == arx[MinIdx(idxRecentOffspring)]
----------------------------------------------------------------------------
TypeOK ==
  /\ state \in {0, 1, 3}
  /\ countiter \in Nat /\ counteval \in Nat /\ draws \in Nat
  /\ arx \in [Index -> Nat] /\ population \in [Index -> Nat]
  /\ xmean \in Int /\ xmean < 0
  /\ raw \in [Index -> [val : Int, i : Index]]
  /\ bestever \in [x : Int, fit : Value \cup {NaN}, eval : Nat]
  /\ idxRecentOffspring \in Index
  /\ messages \subseteq Criterion
  /\ lastcounteval \in Nat
  /\ log \in [1..counteval -> Evaluation]
  /\ since \in 0..counteval

(* The best-ever solution is one that was evaluated: its number is that of *)
(* the evaluation of this very point with this very value, however often   *)
(* points were drawn anew and wherever the sort moved them                 *)
(* (CMAEvolutionStrategy 1672-1673, 1803-1809, 1836-1840).                 *)
BestAttributed ==
  bestever.fit # NaN =>
    /\ bestever.eval \in 1..counteval
    /\ log[bestever.eval] = [x |-> bestever.x, val |-> bestever.fit]

(* It is the first of the smallest values found since the last evaluation  *)
(* of the first iteration: later ones are compared, never skipped and      *)
(* never preferred when equal (CMAEvolutionStrategy 1803-1809, 2610-2620). *)
BestIsFirst ==
  since > 0 =>
    /\ bestever.fit # NaN
    /\ \A k \in since..counteval :
         /\ bestever.fit <= log[k].val
         /\ k < bestever.eval => bestever.fit < log[k].val

(* After an update, and until the mean is evaluated, getBestRecentSolution *)
(* returns the best evaluation of the last generation with its point and   *)
(* its number (CMAEvolutionStrategy 1870-1884).                            *)
MeanEvaluated == counteval > 0 /\ log[counteval].x < 0
RecentAttributed ==
  state = 3 /\ ~MeanEvaluated =>
    /\ RecentSolution.eval \in (counteval - Lambda + 1)..counteval
    /\ log[RecentSolution.eval] = [x |-> RecentSolution.x,
                                   val |-> RecentSolution.val]
    /\ \A k \in (counteval - Lambda + 1)..counteval :
         RecentSolution.val <= log[k].val

(* No drawn point enters the strategy twice, and each iteration brought    *)
(* one generation of them, except the one whose values are still missing   *)
(* (CMAEvolutionStrategy 1468-1470, 1579-1582).                            *)
Drawn == {k \in 1..counteval : log[k].x > 0}
GenerationsCounted ==
  /\ \A k, l \in Drawn : k # l => log[k].x # log[l].x
  /\ Cardinality(Drawn) = Lambda * IF state = 1 THEN countiter - 1 ELSE countiter

(* When the target function value is reported as reached, an evaluation    *)
(* made by then has reached it; and when the criteria were tested after an *)
(* update and any was met, a best value on target is among the reasons, in *)
(* the first iteration as well (CMAEvolutionStrategy 257-269).             *)
TargetReported ==
  /\ "Fitness" \in messages =>
       \E k \in 1..lastcounteval : log[k].val <= StopFitness
  /\ state = 3 /\ lastcounteval = counteval /\ messages # {} /\ Below
       => "Fitness" \in messages

(* setFitnessOfMeanX "eventually replaces the best-ever solution", "best   *)
(* evaluated solution found so far" (CMAEvolutionStrategy 1819, 1831): its *)
(* value never gets worse by it.                                           *)
BestNeverWorsens ==
  [][state = 3 /\ countiter > 0 => bestever'.fit <= bestever.fit]_vars

(* getBestRecentX is the "best search point of the recent iteration"       *)
(* (CMAEvolutionStrategy 1886-1892), the one of getBestRecentSolution.     *)
RecentXIsBest == state = 3 => RecentX = RecentSolution.x
=============================================================================
