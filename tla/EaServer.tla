------------------------------ MODULE EaServer ------------------------------
(***************************************************************************)
(* The Java optimisation server (package wb): one MessageServer listener   *)
(* that takes requests from the queue FOO.BAR one at a time, the HashMap   *)
(* of EaInstance objects it consults, and one play thread per instance     *)
(* that runs CMA-ES and publishes its progress in an EvolutionState.       *)
(*                                                                         *)
(* Job identifies one AddJob call, hence also the EaInstance object that   *)
(* the server allocates for it; JobName is the key under which the object  *)
(* is filed.  Two AddJob calls may carry the same name.                    *)
(***************************************************************************)
EXTENDS Naturals, Sequences, FiniteSets

CONSTANTS
  Job,            \* AddJob calls, each with the EaInstance it allocates
  JobName,        \* keys of EaServer.instances
  Client,         \* requesters; each owns at most one temporary reply queue
  NoJob, NoClient, NoParams,
  Params,         \* parameter sets a job form can post
  DefaultLambda,  \* the population size CMAParameters supplies when unset
  MaxRestarts     \* bound: restarts of the server process

ASSUME ServerAssumption ==
  /\ NoJob \notin Job
  /\ NoClient \notin Client
  /\ NoParams \notin Params
  /\ Params \subseteq [pop : Nat, evals : Nat, dev : Nat]
  /\ DefaultLambda \in Nat /\ DefaultLambda > 1
  /\ MaxRestarts \in Nat

VARIABLES
  up,         \* is the server process (and the broker inside it) running
  restarts,   \* how often it was started again
  queue,      \* requests waiting in FOO.BAR
  reply,      \* the temporary queue of each client: a reply, or NoReply
  instances,  \* EaServer.instances: job name -> EaInstance
  inst        \* the EaInstance and EvolutionState objects, and their threads

serverVars == <<up, restarts, queue, reply, instances, inst>>
----------------------------------------------------------------------------
(* EvolutionState.status; "null" is Java's null, "orphan" the answer for a *)
(* name the server does not know.                                          *)
RunStatus == {"null", "Initializing", "Running", "Finishing", "Complete"}
Status == RunStatus \cup {"Submitted", "orphan"}

(* A statistics text: absent, the "not found" text, a document with gens   *)
(* genStat elements and possibly the finalStat element, or the message of  *)
(* the exception that serialising it has thrown.                           *)
Stats == [kind : {"null", "notfound", "doc", "torn"}, gens : Nat,
          final : BOOLEAN]
NoStats  == [kind |-> "null", gens |-> 0, final |-> FALSE]
NotFound == [kind |-> "notfound", gens |-> 0, final |-> FALSE]
Torn     == [kind |-> "torn", gens |-> 0, final |-> FALSE]

Question == {"GetStatus", "GetStatistics"}
Verb == Question \cup {"AddJob"}
AddRequest == [verb : {"AddJob"}, name : JobName, job : Job, params : Params,
               from : Client \cup {NoClient}]
AskRequest == [verb : Question, name : JobName, job : {NoJob},
               params : {NoParams}, from : Client \cup {NoClient}]
Request == AddRequest \cup AskRequest
Reply == [verb : Verb \cup {"none"}, status : Status, stats : Stats]
NoReply == [verb |-> "none", status |-> "null", stats |-> NoStats]

(* Where a play thread is in EaInstance.run().                             *)
Phase == {"spawned", "init", "loop", "sampled", "finish", "report", "dead"}
Unallocated == [phase |-> "none", status |-> "null", params |-> NoParams,
                iter |-> 0, eval |-> 0, gens |-> 0, final |-> FALSE]
Started == [phase : Phase, status : RunStatus, params : Params,
            iter : Nat, eval : Nat, gens : Nat, final : BOOLEAN]
Instance == Started \cup {Unallocated}
----------------------------------------------------------------------------
(* CMA-ES parameters: a population size of 0 means the default, a single   *)
(* individual or a zero initial deviation makes init() throw.              *)
LambdaOf(p) == IF p.pop = 0 THEN DefaultLambda ELSE p.pop
InitFails(p) == LambdaOf(p) <= 1 \/ p.dev = 0

\* Mutant: a thread that has ended counts as a finished job.
StatusByThread(n) ==
  IF instances[n] = NoJob THEN "orphan"
  ELSE IF inst[instances[n]].phase = "dead" THEN "Complete"
  ELSE inst[instances[n]].status

StatusOf(n) == IF instances[n] = NoJob THEN "orphan"
               ELSE inst[instances[n]].status

StatisticsOf(n) ==
  IF instances[n] = NoJob THEN NotFound
  ELSE [kind |-> "doc", gens |-> inst[instances[n]].gens,
        final |-> inst[instances[n]].final]

(* Util.DocToString reads the document without a lock: while the play      *)
(* thread is about to append to it, the text may be the message of an      *)
(* exception.                                                              *)
Appending(n) ==
  instances[n] # NoJob /\ inst[instances[n]].phase \in {"sampled", "finish"}

StatisticsRead(n) == {StatisticsOf(n)} \cup (IF Appending(n) THEN {Torn} ELSE {})

(* replyProducer.send to the temporary queue of the requester; the queue   *)
(* of a client that has given up no longer exists and the reply is lost.   *)
ReplyTo(c, r) ==
  reply' = IF c = NoClient THEN reply ELSE [reply EXCEPT ![c] = r]
----------------------------------------------------------------------------
(* MessageServer.onMessage with MessageProtocol.handleProtocolMessage, one *)
(* disjunct per verb.  The listener is the session's only consumer, so it  *)
(* handles one request at a time.                                          *)
Msg == Head(queue)

Accept(verb) ==
  /\ up /\ queue # <<>> /\ Msg.verb = verb
  /\ queue' = Tail(queue)
  /\ UNCHANGED <<up, restarts>>

HandleGetStatus ==
  /\ Accept("GetStatus")
  /\ ReplyTo(Msg.from, [verb |-> "GetStatus", status |-> StatusOf(Msg.name),
                        stats |-> NoStats])
  /\ UNCHANGED <<instances, inst>>

HandleGetStatistics ==
  /\ Accept("GetStatistics")
  /\ \E text \in StatisticsRead(Msg.name) :
       ReplyTo(Msg.from, [verb |-> "GetStatistics", status |-> "null",
                          stats |-> text])
  /\ UNCHANGED <<instances, inst>>

\* Mutant: the thread is started before it is given its parameters.
AddJobWithoutParams ==
  /\ Accept("AddJob")
  /\ instances' = [instances EXCEPT ![Msg.name] = Msg.job]
  /\ inst' = [inst EXCEPT ![Msg.job] = [Unallocated EXCEPT !.phase = "spawned"]]
  /\ ReplyTo(Msg.from, [verb |-> "AddJob", status |-> "null",
                        stats |-> NoStats])

(* EaServer.AddJob puts a fresh EaInstance over whatever the name had and  *)
(* starts its thread; the thread of a replaced instance runs on, unreached.*)
HandleAddJob ==
  /\ Accept("AddJob")
  /\ instances' = [instances EXCEPT ![Msg.name] = Msg.job]
  /\ inst' = [inst EXCEPT ![Msg.job] =
                [Unallocated EXCEPT !.phase = "spawned",
                                    !.params = Msg.params]]
  /\ ReplyTo(Msg.from, [verb |-> "AddJob", status |-> "null",
                        stats |-> NoStats])

OnMessage == HandleGetStatus \/ HandleGetStatistics \/ HandleAddJob
----------------------------------------------------------------------------
(* The play thread, EaInstance.spawnPlayThread's run().                    *)
At(j, phase) == up /\ inst[j].phase = phase

Become(j, i) ==
  /\ inst' = [inst EXCEPT ![j] = i]
  /\ UNCHANGED <<up, restarts, queue, reply, instances>>

(* A new EvolutionState replaces the constructor's, then gets its status.  *)
Boot(j) ==
  /\ At(j, "spawned")
  /\ Become(j, [inst[j] EXCEPT !.phase = "init", !.status = "Initializing"])

(* Parse the parameters, then cmaes.init().  Besides the settings that     *)
(* init() refuses, the class of the objective function, the properties     *)
(* file or the text of a number may fail.  An exception is swallowed and   *)
(* the thread ends with the status it had.                                 *)
Initialize(j) ==
  /\ At(j, "init")
  /\ ~InitFails(inst[j].params)
  /\ Become(j, [inst[j] EXCEPT !.phase = "loop", !.status = "Running"])

InitializeThrows(j) ==
  /\ At(j, "init")
  /\ Become(j, [inst[j] EXCEPT !.phase = "dead"])

(* StopCondition.test(): the evaluation budget is reached.  With the       *)
(* deviations a form offers (hundredths up to 1) every other criterion     *)
(* needs a finished generation, and may then hold or not.                  *)
BudgetSpent(j) == inst[j].eval >= inst[j].params.evals

(* samplePopulation, the evaluations and updateDistribution.               *)
Iterate(j) ==
  /\ At(j, "loop") /\ ~BudgetSpent(j)
  /\ Become(j, [inst[j] EXCEPT !.phase = "sampled", !.iter = @ + 1,
                               !.eval = @ + LambdaOf(inst[j].params)])

(* error("an eigenvalue has become negative") inside the generation.       *)
IterateThrows(j) ==
  /\ At(j, "loop") /\ ~BudgetSpent(j) /\ inst[j].iter > 0
  /\ Become(j, [inst[j] EXCEPT !.phase = "dead"])

\* Mutant: the generation's genStat element is not appended.
StatisticsLost(j) ==
  /\ At(j, "sampled")
  /\ Become(j, [inst[j] EXCEPT !.phase = "loop"])

PostEvaluationStatistics(j) ==
  /\ At(j, "sampled")
  /\ Become(j, [inst[j] EXCEPT !.phase = "loop", !.gens = @ + 1])

\* Mutant: "Complete" is announced before the final statistics are written.
FinishComplete(j) ==
  /\ At(j, "loop") /\ (BudgetSpent(j) \/ inst[j].iter > 0)
  /\ Become(j, [inst[j] EXCEPT !.phase = "finish", !.status = "Complete",
                               !.eval = @ + 1])

\* Mutant: the loop runs at least one generation, whatever the budget.
FinishAfterGeneration(j) ==
  /\ At(j, "loop") /\ inst[j].iter > 0
  /\ Become(j, [inst[j] EXCEPT !.phase = "finish", !.status = "Finishing",
                               !.eval = @ + 1])

(* The loop ends; setFitnessOfMeanX counts one more evaluation.            *)
Finish(j) ==
  /\ At(j, "loop") /\ (BudgetSpent(j) \/ inst[j].iter > 0)
  /\ Become(j, [inst[j] EXCEPT !.phase = "finish", !.status = "Finishing",
                               !.eval = @ + 1])

FinalStatistics(j) ==
  /\ At(j, "finish")
  /\ Become(j, [inst[j] EXCEPT !.phase = "report", !.final = TRUE])

SetComplete(j) ==
  /\ At(j, "report")
  /\ Become(j, [inst[j] EXCEPT !.phase = "dead", !.status = "Complete"])

PlayThread(j) ==
  \/ Boot(j) \/ Initialize(j) \/ InitializeThrows(j)
  \/ Iterate(j) \/ IterateThrows(j)
  \/ PostEvaluationStatistics(j) \/ Finish(j) \/ FinalStatistics(j)
  \/ SetComplete(j)
----------------------------------------------------------------------------
(* Nothing is persisted: with the process go the broker's queues, the map  *)
(* and the threads.                                                        *)
Crash ==
  /\ up /\ restarts < MaxRestarts
  /\ up' = FALSE
  /\ queue' = <<>>
  /\ reply' = [c \in Client |-> NoReply]
  /\ instances' = [n \in JobName |-> NoJob]
  /\ inst' = [j \in Job |-> Unallocated]
  /\ UNCHANGED restarts

(* Main.main.                                                              *)
Start ==
  /\ ~up
  /\ up' = TRUE
  /\ restarts' = restarts + 1
  /\ UNCHANGED <<queue, reply, instances, inst>>

ServerInit ==
  /\ up = TRUE /\ restarts = 0
  /\ queue = <<>>
  /\ reply = [c \in Client |-> NoReply]
  /\ instances = [n \in JobName |-> NoJob]
  /\ inst = [j \in Job |-> Unallocated]
----------------------------------------------------------------------------
ServerTypeOK ==
  /\ up \in BOOLEAN
  /\ restarts \in Nat
  /\ queue \in Seq(Request)
  /\ reply \in [Client -> Reply]
  /\ instances \in [JobName -> Job \cup {NoJob}]
  /\ inst \in [Job -> Instance]

(* A finished job's document holds one genStat per generation and the      *)
(* finalStat, and the evaluation count is that of whole generations and    *)
(* one distribution mean, at most one generation over the budget           *)
(* (EaInstance 171-211).                                                   *)
CompleteIsWhole ==
  \A j \in Job : inst[j].status = "Complete" =>
    /\ inst[j].final /\ inst[j].gens = inst[j].iter
    /\ inst[j].eval = inst[j].iter * LambdaOf(inst[j].params) + 1
    /\ inst[j].iter > 0 => inst[j].eval <= inst[j].params.evals
                                             + LambdaOf(inst[j].params)
=============================================================================
