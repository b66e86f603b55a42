------------------------------ MODULE EaInstance ------------------------------
(***************************************************************************)
(* The play thread of one job, EaInstance.run() once init() has succeeded: *)
(* the loop that drives the strategy object of CMAIteration, and the       *)
(* statistics document it writes for the readers of EaServer.              *)
(***************************************************************************)
EXTENDS CMAIteration, Sequences

\* valueOf returns 0 when an evaluation fails, which counts as on target; a
\* properties file that limits the iterations allows one at least.
ASSUME RunAssumption ==
  /\ 0 \in Value /\ StopFitness >= 0
  /\ StopMaxFunEvals \in Nat /\ StopMaxIter > 0

VARIABLES
  at,         \* where run() is
  status,     \* of the EvolutionState
  genStat,    \* the elements of the document: one for each generation,
  finalStat   \* and the last one

runVars == <<vars, at, status, genStat, finalStat>>
----------------------------------------------------------------------------
Place == {"loop", "sample", "evaluate", "post", "mean", "report", "final", "dead"}

NoReport == [evaluation |-> 0, individual |-> 0, reason |-> "none"]

From(here, there) == at = here /\ at' = there

(* stopConditions.getNumber().  With the deviations a form offers no       *)
(* criterion of tolerance or precision is met before the first generation. *)
TestLoop == Test /\ (countiter = 0 => "Numerics" \notin messages')

GoOn ==
  /\ From("loop", "sample") /\ TestLoop /\ messages' = {}
  /\ UNCHANGED <<status, genStat, finalStat>>

EndLoop ==
  /\ From("loop", "mean") /\ TestLoop /\ messages' # {}
  /\ status' = "Finishing"
  /\ UNCHANGED <<genStat, finalStat>>

(* Every point is feasible, so none is sampled again.                      *)
Sample ==
  /\ From("sample", "evaluate") /\ SamplePopulation
  /\ UNCHANGED <<status, genStat, finalStat>>

\* Mutant: an exception ends the loop and not the thread.
SampleBreaks ==
  /\ From("sample", "mean") /\ countiter > 0
  /\ UNCHANGED <<vars, status, genStat, finalStat>>

(* eigendecomposition() throws before anything is sampled; run() catches.  *)
SampleThrows ==
  /\ From("sample", "dead") /\ countiter > 0
  /\ UNCHANGED <<vars, status, genStat, finalStat>>

EvaluateAndUpdate ==
  /\ From("evaluate", "post")
  /\ \E fitness \in [Index -> Value] : UpdateDistribution(fitness)
  /\ UNCHANGED <<status, genStat, finalStat>>

\* Mutant: the value ranked last is left out.
RawFitnessButLast == {raw[k].val : k \in 0..(Lambda - 2)}

RawFitness == {raw[k].val : k \in Index}

PostEvaluationStatistics ==
  /\ From("post", "loop")
  /\ \E min, max \in RawFitness :
       /\ \A f \in RawFitness : min <= f /\ f <= max
       /\ genStat' = Append(genStat, [EvalNum |-> counteval,
                                      Iteration |-> countiter,
                                      Min |-> min, Max |-> max])
  /\ UNCHANGED <<vars, status, finalStat>>

EvaluateMean ==
  /\ From("mean", "report")
  /\ \E f \in Value : SetFitnessOfMeanX(f)
  /\ UNCHANGED <<status, genStat, finalStat>>

(* getMessages() tests again, unless the last test still counts.           *)
GetMessages == Test \/ (Tested /\ UNCHANGED vars)

\* The order in which a test appends its messages.
Rank == [Fitness |-> 1, MaxFunEvals |-> 2, MaxIter |-> 3, Numerics |-> 4]

\* Mutant: the best solution of the last generation is reported.
FinalStatisticsRecent ==
  /\ From("report", "final") /\ GetMessages
  /\ \E last \in messages' :
       /\ \A m \in messages' : Rank[m] <= Rank[last]
       /\ finalStat' = [evaluation |-> RecentSolution.eval,
                        individual |-> RecentSolution.x, reason |-> last]
  /\ UNCHANGED <<status, genStat>>

(* finalStatistics keeps the last message only.                            *)
FinalStatistics ==
  /\ From("report", "final") /\ GetMessages
  /\ \E last \in messages' :
       /\ \A m \in messages' : Rank[m] <= Rank[last]
       /\ finalStat' = [evaluation |-> bestever.eval,
                        individual |-> bestever.x, reason |-> last]
  /\ UNCHANGED <<status, genStat>>

SetComplete ==
  /\ From("final", "dead")
  /\ status' = "Complete"
  /\ UNCHANGED <<vars, genStat, finalStat>>
----------------------------------------------------------------------------
RunInit ==
  /\ Init
  /\ at = "loop" /\ status = "Running"
  /\ genStat = <<>> /\ finalStat = NoReport

RunNext ==
  \/ GoOn \/ EndLoop \/ Sample \/ SampleThrows \/ EvaluateAndUpdate
  \/ PostEvaluationStatistics \/ EvaluateMean \/ FinalStatistics \/ SetComplete

RunSpec == RunInit /\ [][RunNext]_runVars
----------------------------------------------------------------------------
Generation == [EvalNum : Nat, Iteration : Nat, Min : Value, Max : Value]
Report == [evaluation : Nat, individual : Int, reason : Criterion]

RunTypeOK ==
  /\ TypeOK
  /\ at \in Place
  /\ status \in {"Running", "Finishing", "Complete"}
  /\ genStat \in Seq(Generation)
  /\ finalStat \in Report \cup {NoReport}

(* The elements are those of the generations in order, each with the least *)
(* and the largest of the values that were found in it and no others,      *)
(* whatever is sorted and counted in between (EaInstance 171-197,          *)
(* EvolutionState 68-93).                                                  *)
Evals(k) == (genStat[k].EvalNum - Lambda + 1)..genStat[k].EvalNum

Faithful(k) ==
  /\ genStat[k].Iteration = k /\ genStat[k].EvalNum = Lambda * k
  /\ \A e \in Evals(k) :
       genStat[k].Min <= log[e].val /\ log[e].val <= genStat[k].Max
  /\ \E e \in Evals(k) : log[e].val = genStat[k].Min
  /\ \E e \in Evals(k) : log[e].val = genStat[k].Max

StatsFaithful == \A k \in 1..Len(genStat) : Faithful(k)

(* The individual that is reported is the point of the evaluation that is  *)
(* reported with it, and, unless the loop ended after its first generation,*)
(* no generation has found a smaller value than that (EaInstance 199-211,  *)
(* EvolutionState 113-125).                                                *)
BestReported ==
  finalStat # NoReport /\ genStat # <<>> =>
    /\ finalStat.evaluation \in 1..counteval
    /\ log[finalStat.evaluation].x = finalStat.individual
    /\ Len(genStat) > 1 => \A k \in 1..Len(genStat) :
         log[finalStat.evaluation].val <= genStat[k].Min

(* The reason that is reported is one for which the loop ended: neither    *)
(* the evaluation of the mean nor the tests that are made after it add one *)
(* (CMAEvolutionStrategy 260-262, EaInstance 205-210).                     *)
ReasonTrue ==
  LET n == Len(genStat)
  IN /\ finalStat.reason = "MaxFunEvals" => Lambda * n >= StopMaxFunEvals
     /\ finalStat.reason = "MaxIter" => n >= StopMaxIter
     /\ finalStat.reason = "Fitness" =>
          \E k \in 1..n : genStat[k].Min <= StopFitness

(* So what the final element says of the run is true.                      *)
ReportTrue == BestReported /\ ReasonTrue

(* A generation that has met the target is the last one.  So is one in     *)
(* which an evaluation failed, as that yields 0 (Rosenbrock 26, 55-58):    *)
(* the job then ends as if it had found the optimum.                       *)
TargetEnds ==
  \A k \in 1..Len(genStat) : genStat[k].Min <= StopFitness =>
    k = Len(genStat) /\ at \notin {"sample", "evaluate", "post"}
----------------------------------------------------------------------------
(* What the rest of the server sees of the thread: the instance of EaServer*)
(* with one step for a generation, one for the mean and no strategy.       *)
Form == [pop |-> Lambda, evals |-> StopMaxFunEvals, dev |-> 1]

PhaseAt == [loop |-> "loop", sample |-> "loop", evaluate |-> "loop",
            post |-> "sampled", mean |-> "finish", report |-> "finish",
            final |-> "report", dead |-> "dead"]

Thread ==
  [phase |-> PhaseAt[at], status |-> status, params |-> Form,
   iter |-> IF state = 1 THEN countiter - 1 ELSE countiter,
   eval |-> IF at = "mean" THEN counteval + 1 ELSE counteval,
   gens |-> Len(genStat), final |-> finalStat # NoReport]

Server == INSTANCE EaServer WITH
  Job <- {"job"}, JobName <- {"job"}, Client <- {"client"},
  NoJob <- "none", NoClient <- "none", NoParams <- "none", Params <- {Form},
  DefaultLambda <- Lambda, MaxRestarts <- 0,
  up <- TRUE, restarts <- 0, queue <- <<>>,
  reply <- [c \in {"client"} |-> "none"],
  instances <- [n \in {"job"} |-> "job"],
  inst <- [j \in {"job"} |-> Thread]

(* The loop that EaServer gives a play thread is that of the strategy: it  *)
(* generates and evaluates as the counters say, ends when a criterion is   *)
(* met and not otherwise, and writes the document it is said to write.     *)
ThreadRefined ==
  /\ Thread = [phase |-> "loop", status |-> "Running", params |-> Form,
               iter |-> 0, eval |-> 0, gens |-> 0, final |-> FALSE]
  /\ [][Server!PlayThread("job")]_Thread
=============================================================================
