----------------------------- MODULE JobSystem -----------------------------
(***************************************************************************)
(* The web application's JobController over the Jobs table, composed with  *)
(* the optimisation server it talks to through the broker.                 *)
(*                                                                         *)
(* Each Client is one ASP.NET request thread.  While it serves a request   *)
(* it owns a LINQ-to-SQL DataContext (the copies it read, its own modified *)
(* copies, and which of them are dirty) and at most one message exchange.  *)
(***************************************************************************)
EXTENDS EaServer

CONSTANTS
  NoName,
  MaxPages,      \* bound: pages requested of the web application
  MaxQueue       \* bound: requests waiting in FOO.BAR

ASSUME WebAssumption ==
  NoName \notin JobName /\ MaxPages \in Nat /\ MaxQueue \in Nat

VARIABLES
  table,      \* the jobs that have a row in dbo.Jobs
  row,        \* the rows
  web,        \* the request each thread serves, with its DataContext
  jobName,    \* the name each AddJob call was made with
  pages,      \* how many pages were requested
  disturbed   \* history: jobs whose row and instance were set apart by a
              \* restart, a second job of the same name, or a rename

webVars == <<table, row, web, jobName, pages, disturbed>>
vars == <<serverVars, webVars>>
----------------------------------------------------------------------------
Row == [name : JobName \cup {NoName}, template : BOOLEAN, status : Status,
        ended : BOOLEAN, stats : Stats]
Blank == [name |-> NoName, template |-> FALSE, status |-> "null",
          ended |-> FALSE, stats |-> NoStats]

Pc == {"idle",
       "adding",                        \* Create: AddJob sent
       "listing", "polling",            \* Index: between jobs, GetStatus sent
       "status", "asking", "stats"}     \* Details: GetStatus sent, answered,
                                        \*   GetStatistics sent
Context == [pc : Pc, job : Job \cup {NoJob}, todo : SUBSET Job,
            orig : [Job -> Row], mine : [Job -> Row], dirty : SUBSET Job]
RequestState == {r \in Context : r.pc \in {"idle", "listing"} \/ r.job \in Job}
Nothing == [k \in Job |-> Blank]
Idle == [pc |-> "idle", job |-> NoJob, todo |-> {}, orig |-> Nothing,
         mine |-> Nothing, dirty |-> {}]

Used == {j \in Job : jobName[j] # NoName}
----------------------------------------------------------------------------
(* Messaging.RequestMap / RequestText: a connection and a temporary queue  *)
(* per call; null when no reply comes within TIMEOUT_SECS.                 *)
Send(c, verb, n, j, p) ==
  /\ up /\ Len(queue) < MaxQueue
  /\ queue' = Append(queue, [verb |-> verb, name |-> n, job |-> j,
                             params |-> p, from |-> c])

(* The call returns a reply; the temporary queue goes with the connection. *)
Received(c, verb) ==
  /\ reply[c].verb = verb
  /\ reply' = [reply EXCEPT ![c] = NoReply]

\* Mutant: Receive without a time limit.
WaitsForever(c) == FALSE

\* Mutant: the temporary queue outlives the call, and the next one reads it.
QueueKept(c) == reply[c] = NoReply /\ queue' = queue

(* The call gives up; a reply to its deleted queue will be thrown away.    *)
TimedOut(c) ==
  /\ reply[c] = NoReply
  /\ queue' = [i \in 1..Len(queue) |->
                 IF queue[i].from = c
                 THEN [queue[i] EXCEPT !.from = NoClient] ELSE queue[i]]

(* The connection broke under the call: ApplicationException.              *)
Broken(c) == reply[c] = NoReply /\ \A i \in 1..Len(queue) : queue[i].from # c

(* A user asks for a page.                                                *)
NewPage == pages < MaxPages /\ pages' = pages + 1

Goto(c, r) == web' = [web EXCEPT ![c] = r]
NoServerStep == UNCHANGED <<up, restarts, instances, inst>>
NoTableStep == UNCHANGED <<table, row>>
----------------------------------------------------------------------------
\* Mutant: UpdateCheck.Never on every column.
NoUpdateCheck(ctx) == FALSE

(* DataContext.SubmitChanges: one UPDATE per dirty entity, guarded by the  *)
(* values it was read with, in one transaction.  On a conflict, or when a  *)
(* status does not fit the column's ten characters, nothing is written,    *)
(* the call throws and the entities stay dirty.                            *)
Conflict(ctx) == \E k \in ctx.dirty : k \notin table \/ row[k] # ctx.orig[k]

Truncates(ctx) == \E k \in ctx.dirty : ctx.mine[k].status = "Initializing"

Fails(ctx) == Conflict(ctx) \/ Truncates(ctx)

Submit(ctx) ==
  /\ table' = table
  /\ row' = IF Fails(ctx) THEN row
            ELSE [k \in Job |-> IF k \in ctx.dirty THEN ctx.mine[k]
                                ELSE row[k]]

AfterSubmit(ctx) ==
  IF Fails(ctx) THEN ctx ELSE [ctx EXCEPT !.orig = ctx.mine, !.dirty = {}]

\* Mutant: the end time is not set with the status.
SetStatusOnly(ctx, j, s) ==
  [ctx EXCEPT !.mine[j].status = s,
              !.dirty = IF s = "null" /\ ctx.mine[j].status = "null"
                        THEN @ ELSE @ \cup {j}]

(* The setter of Job.Status marks the entity dirty whenever the text       *)
(* differs; what was read is padded to the column's width, so it does      *)
(* unless both are null.                                                   *)
SetStatus(ctx, j, s) ==
  [ctx EXCEPT !.mine[j].status = s,
              !.mine[j].ended = @ \/ s = "Complete",
              !.dirty = IF s = "null" /\ ctx.mine[j].status = "null"
                        THEN @ ELSE @ \cup {j}]
----------------------------------------------------------------------------
(* JobController.Create (POST).  The name is "CMAES" and the second of the *)
(* current minute, so any name can come up again.                          *)
CreatePost(c, j, n, p) ==
  /\ NewPage /\ web[c].pc = "idle" /\ j \notin Used
  /\ Send(c, "AddJob", n, j, p)
  /\ Goto(c, [Idle EXCEPT !.pc = "adding", !.job = j])
  /\ jobName' = [jobName EXCEPT ![j] = n]
  /\ disturbed' =
       LET same == {k \in Used : jobName[k] = n \/ row[k].name = n}
       IN  IF same = {} THEN disturbed ELSE disturbed \cup same \cup {j}
  /\ NoServerStep /\ NoTableStep /\ UNCHANGED reply

(* The reply is not looked at: a timeout inserts the row all the same.     *)
InsertRow(c) ==
  LET j == web[c].job IN
  /\ table' = table \cup {j}
  /\ row' = [row EXCEPT ![j] = [Blank EXCEPT !.name = jobName[j],
                                             !.status = "Submitted"]]
  /\ Goto(c, Idle)

CreateDone(c) ==
  /\ web[c].pc = "adding"
  /\ \/ Received(c, "AddJob") /\ UNCHANGED queue
     \/ TimedOut(c) /\ UNCHANGED reply
  /\ InsertRow(c)
  /\ NoServerStep /\ UNCHANGED <<jobName, pages, disturbed>>

CreateThrows(c) ==
  /\ web[c].pc = "adding" /\ Broken(c)
  /\ Goto(c, Idle)
  /\ UNCHANGED serverVars
  /\ NoTableStep /\ UNCHANGED <<jobName, pages, disturbed>>
----------------------------------------------------------------------------
\* Mutant: finished jobs are polled as well.
PolledAlways(r) == ~r.template

(* JobController.Index: poll every listed job that is not yet Complete.    *)
(* The test is for "Orphan", the server says "orphan".                     *)
Polled(r) == ~r.template /\ r.status # "Complete"

IndexOpen(c) ==
  /\ NewPage /\ web[c].pc = "idle" /\ table # {}
  /\ Goto(c, [Idle EXCEPT !.pc = "listing", !.orig = row, !.mine = row,
                          !.todo = {k \in table : Polled(row[k])}])
  /\ UNCHANGED serverVars
  /\ NoTableStep /\ UNCHANGED <<jobName, disturbed>>

IndexAsk(c, j) ==
  /\ web[c].pc = "listing" /\ j \in web[c].todo
  /\ Send(c, "GetStatus", web[c].mine[j].name, NoJob, NoParams)
  /\ Goto(c, [web[c] EXCEPT !.pc = "polling", !.job = j])
  /\ NoServerStep /\ NoTableStep
  /\ UNCHANGED <<reply, jobName, pages, disturbed>>

NextJob(ctx, j) == [ctx EXCEPT !.pc = "listing", !.job = NoJob,
                               !.todo = @ \ {j}]

(* A null status is stored in the entity before status.Trim() throws; the  *)
(* empty catch goes on with the entity dirty, for a later SubmitChanges.   *)
IndexAnswer(c) ==
  LET s   == reply[c].status
      ctx == SetStatus(web[c], web[c].job, s) IN
  /\ web[c].pc = "polling" /\ Received(c, "GetStatus")
  /\ IF s = "null"
     THEN NoTableStep /\ Goto(c, NextJob(ctx, web[c].job))
     ELSE Submit(ctx) /\ Goto(c, NextJob(AfterSubmit(ctx), web[c].job))
  /\ NoServerStep /\ UNCHANGED <<queue, jobName, pages, disturbed>>

(* No reply (mapMessage is null), or no connection: caught, next job.      *)
IndexNoAnswer(c) ==
  /\ \/ /\ web[c].pc = "polling" /\ TimedOut(c)
        /\ Goto(c, NextJob(web[c], web[c].job))
     \/ \E j \in web[c].todo :
          /\ web[c].pc = "listing" /\ ~up
          /\ Goto(c, NextJob(web[c], j))
          /\ UNCHANGED queue
  /\ NoServerStep /\ NoTableStep
  /\ UNCHANGED <<reply, jobName, pages, disturbed>>

IndexDone(c) ==
  /\ web[c].pc = "listing" /\ web[c].todo = {}
  /\ Goto(c, Idle)
  /\ UNCHANGED serverVars
  /\ NoTableStep /\ UNCHANGED <<jobName, pages, disturbed>>
----------------------------------------------------------------------------
(* JobController.Details of a job that is not Complete: the status first,  *)
(* then the statistics, both stored by one SubmitChanges.                  *)
DetailsOpen(c, j) ==
  /\ NewPage /\ web[c].pc = "idle" /\ j \in table /\ row[j].status # "Complete"
  /\ Send(c, "GetStatus", row[j].name, NoJob, NoParams)
  /\ LET mine == [Nothing EXCEPT ![j] = row[j]] IN
     Goto(c, [Idle EXCEPT !.pc = "status", !.job = j, !.orig = mine,
                          !.mine = mine])
  /\ NoServerStep /\ NoTableStep
  /\ UNCHANGED <<reply, jobName, disturbed>>

DetailsStatus(c) ==
  LET s == reply[c].status IN
  /\ web[c].pc = "status" /\ Received(c, "GetStatus")
  /\ Goto(c, IF s = "null" THEN Idle
             ELSE [SetStatus(web[c], web[c].job, s) EXCEPT !.pc = "asking"])
  /\ NoServerStep /\ NoTableStep
  /\ UNCHANGED <<queue, jobName, pages, disturbed>>

DetailsAsk(c) ==
  /\ web[c].pc = "asking"
  /\ Send(c, "GetStatistics", web[c].mine[web[c].job].name, NoJob, NoParams)
  /\ Goto(c, [web[c] EXCEPT !.pc = "stats"])
  /\ NoServerStep /\ NoTableStep
  /\ UNCHANGED <<reply, jobName, pages, disturbed>>

DetailsStats(c) ==
  LET j == web[c].job IN
  /\ web[c].pc = "stats" /\ Received(c, "GetStatistics")
  /\ Submit([web[c] EXCEPT !.mine[j].stats = reply[c].stats,
                           !.dirty = @ \cup {j}])
  /\ Goto(c, Idle)
  /\ NoServerStep /\ UNCHANGED <<queue, jobName, pages, disturbed>>

(* A null response, or no connection: the page fails, nothing is stored.   *)
DetailsThrows(c) ==
  /\ \/ web[c].pc \in {"status", "stats"} /\ TimedOut(c)
     \/ web[c].pc = "asking" /\ ~up /\ UNCHANGED queue
  /\ Goto(c, Idle)
  /\ NoServerStep /\ NoTableStep
  /\ UNCHANGED <<reply, jobName, pages, disturbed>>
----------------------------------------------------------------------------
(* JobController.Edit (POST) and Delete load the row and submit at once;   *)
(* a conflict in between leaves the table as it was.                       *)
Edit(j, n, t) ==
  /\ NewPage /\ j \in table
  /\ row' = [row EXCEPT ![j].name = n, ![j].template = t]
  /\ disturbed' = IF n = row[j].name THEN disturbed ELSE disturbed \cup {j}
  /\ UNCHANGED <<serverVars, table, web, jobName>>

Delete(j) ==
  /\ NewPage /\ j \in table
  /\ table' = table \ {j}
  /\ row' = [row EXCEPT ![j] = Blank]
  /\ UNCHANGED <<serverVars, web, jobName, disturbed>>
----------------------------------------------------------------------------
(* The server's own steps.                                                 *)
ServerStep ==
  /\ OnMessage \/ \E j \in Job : PlayThread(j)
  /\ UNCHANGED webVars

ServerCrash ==
  /\ Crash
  /\ disturbed' = disturbed \cup Used
  /\ UNCHANGED <<table, row, web, jobName, pages>>

ServerStart == Start /\ UNCHANGED webVars
----------------------------------------------------------------------------
Init ==
  /\ ServerInit
  /\ table = {} /\ row = Nothing
  /\ web = [c \in Client |-> Idle]
  /\ jobName = [j \in Job |-> NoName]
  /\ pages = 0 /\ disturbed = {}

(* What a request thread does on its own once a request was posted.        *)
Serve(c) ==
  \/ CreateDone(c) \/ CreateThrows(c)
  \/ (\E j \in Job : IndexAsk(c, j)) \/ IndexAnswer(c) \/ IndexNoAnswer(c)
  \/ IndexDone(c)
  \/ DetailsStatus(c) \/ DetailsAsk(c) \/ DetailsStats(c) \/ DetailsThrows(c)

(* What users do.                                                          *)
Browse ==
  \/ \E c \in Client, j \in Job, n \in JobName, p \in Params :
       CreatePost(c, j, n, p)
  \/ \E c \in Client : IndexOpen(c)
  \/ \E c \in Client, j \in Job : DetailsOpen(c, j)
  \/ \E j \in Job, n \in JobName, t \in BOOLEAN : Edit(j, n, t)
  \/ \E j \in Job : Delete(j)

Next ==
  \/ Browse \/ (\E c \in Client : Serve(c))
  \/ ServerStep \/ ServerCrash \/ ServerStart

Spec == Init /\ [][Next]_vars

(* The broker delivers, the play threads run, and a request thread goes on *)
(* (a reply or the five-second timeout ends every wait).  Nothing makes    *)
(* users come back, the server crash or somebody start it again.           *)
Fairness ==
  /\ WF_vars(OnMessage /\ UNCHANGED webVars)
  /\ \A j \in Job : WF_vars(PlayThread(j) /\ UNCHANGED webVars)
  /\ \A c \in Client : WF_vars(Serve(c))

FairSpec == Spec /\ Fairness
----------------------------------------------------------------------------
TypeOK ==
  /\ ServerTypeOK
  /\ table \subseteq Job
  /\ row \in [Job -> Row]
  /\ web \in [Client -> RequestState]
  /\ jobName \in [Job -> JobName \cup {NoName}]
  /\ pages \in Nat
  /\ disturbed \subseteq Job

(* What a request thread may rely on while it waits for the server: the    *)
(* entities it still has to ask about were read incomplete, only such      *)
(* entities become dirty, every copy keeps status and end time in step,    *)
(* and no one else inserts the row it is about to insert.  Inductive       *)
(* together with TypeOK (JobController 60-77, 92-109, 185-196).            *)
InStep(r) == r.ended <=> r.status = "Complete"

Open(ctx, k) ==
  /\ ctx.orig[k].status # "Complete" /\ ctx.mine[k].status # "Complete"
  /\ ctx.mine[k].name \in JobName

ContextOK(ctx) ==
  /\ \A k \in Job : InStep(ctx.orig[k]) /\ InStep(ctx.mine[k])
  /\ \A k \in ctx.todo : Open(ctx, k)
  /\ \A k \in ctx.dirty :
       ctx.orig[k].status # "Complete" /\ ctx.mine[k].name \in JobName
  /\ ctx.pc = "polling" => ctx.job \in ctx.todo
  /\ ctx.pc = "status" => Open(ctx, ctx.job) /\ ctx.todo = {}
  /\ ctx.pc \in {"asking", "stats"} =>
       ctx.orig[ctx.job].status # "Complete"
         /\ ctx.mine[ctx.job].name \in JobName

Adding(c) == web[c].pc = "adding"

DataContextInv ==
  /\ \A j \in Job : InStep(row[j])
  /\ \A j \in table : {row[j].name, jobName[j]} \subseteq JobName
  /\ \A c \in Client : ContextOK(web[c])
  /\ \A c \in Client : Adding(c) =>
       /\ jobName[web[c].job] \in JobName /\ web[c].job \notin table
       /\ \A d \in Client \ {c} : Adding(d) => web[d].job # web[c].job

(* An end time is stored with the status Complete and with no other,       *)
(* whichever of Index and Details stores it and whatever else is still     *)
(* dirty in the request's DataContext (JobController 69-70, 97-98).        *)
EndedIffComplete ==
  \A j \in table : row[j].ended <=> row[j].status = "Complete"

(* A row that says Complete says so until it is deleted, although other    *)
(* requests may hold older copies of it, dirty or about to be written      *)
(* (JobController 62, 92; the update check of SubmitChanges).              *)
CompleteStays ==
  [][\A j \in table \cap table' :
       row[j].status = "Complete" => row'[j].status = "Complete"]_vars

(* A job marked Complete in the table did finish on the server, with its   *)
(* final statistics in place, although Index and Details write what they   *)
(* learned at some earlier moment (JobController 66-72, 95-109).           *)
CompleteMeansDone ==
  \A j \in table \ disturbed :
    row[j].status = "Complete" => inst[j].status = "Complete" /\ inst[j].final

(* "You can click on 'details' to see charts showing information about the  *)
(* job" (Index.aspx, text1): Details takes the charts of a job that the    *)
(* table says is Complete from the statistics stored with it (JobController*)
(* 92, 112-120), so they should be there.                                  *)
DetailsHasCharts ==
  \A j \in table \ disturbed :
    row[j].status = "Complete" => row[j].stats.kind = "doc"

(* Overlapping page requests never make the stored statistics of a job go  *)
(* back to an earlier state of the document, and nothing is ever stored    *)
(* over the final ones, a torn text least of all (JobController 102-109,   *)
(* the update check of SubmitChanges; EvolutionState 93).                  *)
StatsGrow(s, t) ==
  s.kind = "doc" =>
    \/ t.kind = "doc" /\ t.gens >= s.gens /\ (s.final => t.final)
    \/ t.kind = "torn" /\ ~s.final
StatsNeverRegress ==
  [][\A j \in (table \cap table') \ disturbed' :
       StatsGrow(row[j].stats, row'[j].stats)]_vars

(* Details asks for the status before the statistics, so when it is the    *)
(* one to store Complete, the statistics it stores are the final ones      *)
(* (JobController 95-109; EaInstance 210-211).                             *)
DetailsStoresFinal ==
  [][\A c \in Client : LET j == web[c].job IN
       web[c].pc = "stats" /\ row' # row /\ web'[c].pc = "idle"
         /\ j \notin disturbed' /\ row'[j].status = "Complete"
       => row'[j].stats.final]_vars

(* Every request a thread serves ends, whatever becomes of the server.     *)
RequestsReturn == \A c \in Client : web[c].pc # "idle" ~> web[c].pc = "idle"

(* A play thread ends unless the process does (EaInstance 131-215).        *)
JobsEnd == \A j \in Job :
  inst[j].phase = "spawned" ~> inst[j].phase \in {"dead", "none"}

(* What a row shows its users; refines JobBoard.                           *)
Board == INSTANCE JobBoard WITH board <-
  [j \in Job |->
     IF j \in table THEN row[j].status
     ELSE IF jobName[j] = NoName
             \/ \E c \in Client : Adding(c) /\ web[c].job = j
          THEN "absent" ELSE "gone"]
BoardRefined == Board!BoardSpec
=============================================================================
