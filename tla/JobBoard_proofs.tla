--------------------------- MODULE JobBoard_proofs ---------------------------
(***************************************************************************)
(* Proofs about what a row of the Jobs table says of its job: HistoryInv   *)
(* of JobHistory is an invariant of JobSystem, the table shows no more     *)
(* than the server has done, and JobSystem implements JobBoard.            *)
(***************************************************************************)
EXTENDS JobMessages_proofs

USE ServerAssumption, WebAssumption

----------------------------------------------------------------------------
(* Instances only move on, for jobs that nothing disturbs.                 *)

LEMMA InstanceType ==
  ASSUME TypeOK, NEW j \in Job
  PROVE  inst[j].status \in RunStatus /\ inst[j].gens \in Nat
<1>1. inst[j] \in Started \/ inst[j] = Unallocated
  BY DEF TypeOK, ServerTypeOK, Instance
<1>2. QED
  BY <1>1 DEF Started, Unallocated, RunStatus

Ahead(j) ==
  /\ jobName'[j] = jobName[j]
  /\ Known(j) => Known(j)' /\ MovesOn(inst[j], inst'[j])

LEMMA SameInstance ==
  ASSUME TypeOK, NEW j \in Job, inst'[j] = inst[j]
  PROVE  MovesOn(inst[j], inst'[j])
<1>1. inst[j].status \in RunStatus /\ inst[j].gens \in Nat
  BY InstanceType
<1>2. inst[j].gens <= inst[j].gens
  BY <1>1
<1>3. QED
  BY <1>1, <1>2, ProgressLaws DEF MovesOn

LEMMA KnownFiled ==
  ASSUME TypeOK, MessageInv, NEW j \in Used, Known(j)
  PROVE  inst[j].phase # "none"
  BY DEF Known, Used, TypeOK, MessageInv, FiledInv

LEMMA StepAhead ==
  ASSUME TypeOK, DataContextInv, MessageInv, [Next]_vars,
         NEW j \in Used, j \notin disturbed', Unique(j)
  PROVE  Ahead(j)
<1>1. j \in Job /\ jobName'[j] = jobName[j] /\ jobName[j] \in JobName
  BY UsedKept DEF Used, TypeOK
<1>2. CASE inst' = inst /\ instances' = instances
  BY <1>1, <1>2, SameInstance DEF Ahead, Known
<1>3. CASE \E c \in Client : ClientStep(c)
  BY <1>2, <1>3, ClientTalk DEF Talk
<1>4. CASE HandleAddJob /\ UNCHANGED webVars
  <2>1. SUFFICES ASSUME Known(j) PROVE Known(j)' /\ MovesOn(inst[j], inst'[j])
    BY <1>1 DEF Ahead
  <2>2. j # Msg.job
    BY <1>4, <2>1, KnownFiled, HandledAddJob
  <2>3. jobName[j] # Msg.name
    BY <1>4, <2>2, HandledAddJob DEF Unique
  <2>4. instances'[jobName[j]] = instances[jobName[j]]
    BY <1>1, <1>4, <2>3, HandledAddJob DEF TypeOK, ServerTypeOK
  <2>5. inst'[j] = inst[j]
    BY <1>1, <1>4, <2>2, HandledAddJob
  <2>6. QED
    BY <1>1, <2>1, <2>4, <2>5, SameInstance DEF Known
<1>5. CASE OnMessage /\ UNCHANGED webVars
  BY <1>2, <1>4, <1>5 DEF OnMessage, HandleGetStatus, HandleGetStatistics
<1>6. CASE \E k \in Job : PlayThread(k) /\ UNCHANGED webVars
  <2>1. PICK k \in Job : PlayThread(k)
    BY <1>6
  <2>2. PICK r \in Started : Become(k, r) /\ MovesOn(inst[k], r)
    BY <2>1, PlayThreadStep DEF MessageInv
  <2>3. instances' = instances
        /\ \A i \in Job : inst'[i] = IF i = k THEN r ELSE inst[i]
    BY <2>2 DEF Become, TypeOK, ServerTypeOK
  <2>4. MovesOn(inst[j], inst'[j])
    BY <1>1, <2>2, <2>3, SameInstance
  <2>5. QED
    BY <1>1, <2>3, <2>4 DEF Ahead, Known
<1>7. ASSUME ServerCrash PROVE FALSE
  BY <1>7 DEF ServerCrash
<1>8. QED
  BY <1>2, <1>3, <1>5, <1>6, <1>7, StepKinds DEF Quiet

(* What was true of the past of an instance stays true.                    *)
LEMMA PastKept ==
  ASSUME TypeOK, TypeOK', NEW j \in Job, Ahead(j)
  PROVE  /\ \A s : PastStatus(j, s) => PastStatus(j, s)'
         /\ \A d \in Stats : PastStats(j, d) => PastStats(j, d)'
         /\ \A r \in Row : PastRow(j, r) => PastRow(j, r)'
<1>1. inst[j].gens \in Nat /\ inst'[j].gens \in Nat
  BY InstanceType DEF TypeOK, ServerTypeOK, Instance, Started, Unallocated
<1>2. \A s : PastStatus(j, s) => PastStatus(j, s)'
  BY ProgressLaws DEF Ahead, MovesOn, PastStatus
<1>3. ASSUME NEW d \in Stats, PastStats(j, d)
      PROVE  PastStats(j, d)'
  <2>1. d.gens \in Nat
    BY DEF Stats
  <2>2. QED
    BY <1>1, <1>3, <2>1 DEF Ahead, MovesOn, PastStats
<1>4. \A r \in Row : r.stats \in Stats
  BY DEF Row
<1>5. QED
  BY <1>2, <1>3, <1>4 DEF Ahead, PastRow
----------------------------------------------------------------------------
(* What the operations of a request do to its copies.                      *)

LEMMA PastShown ==
  ASSUME NEW j, NEW s, PastStatus(j, s)
  PROVE  /\ s \in RunStatus \cup {"Submitted"} /\ Board!NotBefore(s, s)
         /\ Known(j) /\ inst[j].status \in RunStatus =>
              Board!NotBefore(s, inst[j].status)
<1>1. s \in RunStatus \cup {"Submitted"}
  BY ProgressLaws DEF PastStatus
<1>2. QED
  BY <1>1, ProgressLaws DEF PastStatus

LEMMA SetStatusFields ==
  ASSUME NEW ctx \in RequestState, NEW i \in Job, NEW s \in Status,
         NEW r, r = SetStatus(ctx, i, s)
  PROVE  /\ r.orig = ctx.orig
         /\ \A k \in Job \ {i} : r.mine[k] = ctx.mine[k]
         /\ r.mine[i].status = s /\ r.mine[i].name = ctx.mine[i].name
         /\ r.mine[i].stats = ctx.mine[i].stats
<1>1. ctx.mine \in [Job -> Row]
  BY DEF RequestState, Context
<1>2. /\ r.orig = ctx.orig
      /\ r.mine = [ctx.mine EXCEPT ![i].status = s,
                                   ![i].ended = @ \/ s = "Complete"]
  BY <1>1 DEF SetStatus, RequestState, Context
<1>3. QED
  BY <1>1, <1>2 DEF Row

LEMMA SetStatusCopy ==
  ASSUME NEW ctx \in RequestState, NEW i \in Job, NEW s \in Status,
         NEW j \in Job, CopyOK(j, ctx),
         j = i => Board!NotBefore(ctx.orig[j].status, s) /\ PastStatus(j, s)
  PROVE  CopyOK(j, SetStatus(ctx, i, s))
<1> DEFINE r == SetStatus(ctx, i, s)
<1>1. /\ r.orig = ctx.orig
      /\ j # i => r.mine[j] = ctx.mine[j]
      /\ j = i => /\ r.mine[j].status = s /\ r.mine[j].name = ctx.mine[j].name
                  /\ r.mine[j].stats = ctx.mine[j].stats
  BY SetStatusFields
<1> HIDE DEF r
<1>2. QED
  BY <1>1 DEF CopyOK, PastRow, r

LEMMA AfterSubmitCopy ==
  ASSUME NEW ctx \in RequestState, NEW j, CopyOK(j, ctx)
  PROVE  CopyOK(j, AfterSubmit(ctx))
<1>1. \/ AfterSubmit(ctx) = ctx
      \/ AfterSubmit(ctx).orig = ctx.mine /\ AfterSubmit(ctx).mine = ctx.mine
  BY DEF AfterSubmit, RequestState, Context
<1>2. QED
  BY <1>1, PastShown DEF CopyOK, PastRow

LEMMA NextJobCopy ==
  ASSUME NEW ctx \in RequestState, NEW i, NEW j, CopyOK(j, ctx)
  PROVE  CopyOK(j, NextJob(ctx, i))
<1>1. NextJob(ctx, i).orig = ctx.orig /\ NextJob(ctx, i).mine = ctx.mine
  BY DEF NextJob, RequestState, Context
<1>2. QED
  BY <1>1 DEF CopyOK

(* A status that arrives is newer than the copy it is stored in.           *)
LEMMA AnswerCopy ==
  ASSUME TypeOK, NEW c \in Client, NEW j \in Job, JobOK(j),
         web[c].pc \in {"polling", "status"}, Received(c, "GetStatus"),
         j \in Holds(web[c])
  PROVE  CopyOK(j, SetStatus(web[c], web[c].job, reply[c].status))
<1>1. /\ web[c] \in RequestState /\ web[c].job \in Job
      /\ reply[c].status \in Status
  BY AnswerType
<1>2. CopyOK(j, web[c])
  BY DEF JobOK
<1>3. ASSUME j = web[c].job
      PROVE  /\ Board!NotBefore(web[c].orig[j].status, reply[c].status)
             /\ PastStatus(j, reply[c].status)
  <2>1. reply[c] # NoReply
    BY NoReplyIsNone DEF Received
  <2>2. AnswerOK(c, j)
    BY <1>3, <2>1 DEF JobOK, Asks
  <2>3. QED
    BY <2>2 DEF AnswerOK, PastStatus
<1>4. QED
  BY <1>1, <1>2, <1>3, SetStatusCopy
----------------------------------------------------------------------------
(* What a step may do to a row.                                            *)

RowMoves(j) ==
  /\ PastRow(j, row'[j])
  /\ Board!NotBefore(row[j].status, row'[j].status)
  /\ StatsGrow(row[j].stats, row'[j].stats)

LEMMA RowSame ==
  ASSUME TypeOK, NEW j \in Job, PastRow(j, row[j]),
         row'[j].name = row[j].name, row'[j].status = row[j].status,
         row'[j].stats = row[j].stats
  PROVE  RowMoves(j)
<1>1. row[j].stats.gens \in Nat
  BY DEF TypeOK, Row, Stats
<1>2. StatsGrow(row[j].stats, row[j].stats)
  BY <1>1 DEF StatsGrow
<1>3. QED
  BY <1>2, PastShown DEF RowMoves, PastRow

LEMMA SubmitRow ==
  ASSUME NEW ctx \in RequestState, Submit(ctx), NEW j \in Job
  PROVE  \/ row'[j] = row[j]
         \/ j \in ctx.dirty /\ row[j] = ctx.orig[j] /\ row'[j] = ctx.mine[j]
  BY DEF Submit, Fails, Conflict

LEMMA IndexRow ==
  ASSUME TypeOK, DataContextInv, NEW c \in Client, IndexAnswer(c),
         NEW j \in table, JobOK(j)
  PROVE  RowMoves(j)
<1> DEFINE ctx == SetStatus(web[c], web[c].job, reply[c].status)
<1>1. /\ web[c] \in RequestState /\ web[c].job \in web[c].todo
      /\ reply[c].status \in Status /\ j \in Job /\ web[c].job \in Job
      /\ PastRow(j, row[j])
  BY AnswerType DEF IndexAnswer, DataContextInv, ContextOK, JobOK, TypeOK
<1>2. ctx \in RequestState
  BY <1>1, SetStatusType
<1>3. ctx.dirty \subseteq Holds(web[c])
  BY <1>1, SetStatusHolds DEF Holds
<1>4. j \in ctx.dirty => CopyOK(j, ctx)
  BY <1>1, <1>3, AnswerCopy DEF IndexAnswer
<1>5. row' = row \/ Submit(ctx)
  BY DEF IndexAnswer, NoTableStep
<1> HIDE DEF ctx
<1>6. CASE row'[j] = row[j]
  BY <1>1, <1>6, RowSame
<1>7. CASE j \in ctx.dirty /\ row[j] = ctx.orig[j] /\ row'[j] = ctx.mine[j]
  <2>1. row[j].stats.gens \in Nat
    BY <1>1 DEF TypeOK, Row, Stats
  <2>2. StatsGrow(row[j].stats, row[j].stats)
    BY <2>1 DEF StatsGrow
  <2>3. QED
    BY <1>4, <1>7, <2>2 DEF CopyOK, RowMoves
<1>8. QED
  BY <1>1, <1>2, <1>5, <1>6, <1>7, SubmitRow

(* The context Details submits: the statistics are stored with the status. *)
WithStats(ctx, i, t) ==
  [ctx EXCEPT !.mine[i].stats = t, !.dirty = @ \cup {i}]

LEMMA WithStatsFields ==
  ASSUME NEW ctx \in RequestState, NEW i \in Job, NEW t \in Stats
  PROVE  LET r == WithStats(ctx, i, t) IN
         /\ r \in RequestState
         /\ r.orig = ctx.orig /\ r.dirty = ctx.dirty \cup {i}
         /\ \A k \in Job \ {i} : r.mine[k] = ctx.mine[k]
         /\ r.mine[i].status = ctx.mine[i].status
         /\ r.mine[i].name = ctx.mine[i].name /\ r.mine[i].stats = t
<1> DEFINE m == [ctx.mine EXCEPT ![i].stats = t]
           r == [ctx EXCEPT !.mine = m, !.dirty = @ \cup {i}]
<1>1. ctx.mine \in [Job -> Row] /\ ctx.dirty \subseteq Job
  BY DEF RequestState, Context
<1>2. m \in [Job -> Row]
  BY <1>1 DEF Row
<1>3. WithStats(ctx, i, t) = r
  BY DEF RequestState, Context, WithStats
<1>4. /\ \A k \in Job \ {i} : m[k] = ctx.mine[k]
      /\ m[i].status = ctx.mine[i].status
      /\ m[i].name = ctx.mine[i].name /\ m[i].stats = t
  BY <1>1 DEF Row
<1> HIDE DEF m
<1>5. r.orig = ctx.orig /\ r.mine = m /\ r.dirty = ctx.dirty \cup {i}
  BY DEF RequestState, Context
<1>6. r \in RequestState
  BY <1>1, <1>2 DEF RequestState, Context
<1> HIDE DEF r
<1>7. QED
  BY <1>3, <1>4, <1>5, <1>6

LEMMA DetailsRow ==
  ASSUME TypeOK, NEW c \in Client, DetailsStats(c),
         NEW j \in table, JobOK(j)
  PROVE  /\ RowMoves(j)
         /\ j = web[c].job /\ row' # row /\ row'[j].status = "Complete" =>
              row'[j].stats.final
<1> DEFINE i == web[c].job
           t == reply[c].stats
           ctx == WithStats(web[c], i, t)
<1>1. /\ web[c] \in RequestState /\ i \in Job /\ t \in Stats /\ j \in Job
      /\ PastRow(j, row[j])
  BY AnswerType DEF DetailsStats, JobOK, TypeOK
<1>2. /\ web[c].pc = "stats" /\ Submit(ctx) /\ reply[c] # NoReply
  BY NoReplyIsNone DEF DetailsStats, Received, WithStats
<1>3. /\ ctx \in RequestState
      /\ ctx.orig = web[c].orig /\ ctx.dirty = web[c].dirty \cup {i}
      /\ \A k \in Job \ {i} : ctx.mine[k] = web[c].mine[k]
      /\ ctx.mine[i].status = web[c].mine[i].status
      /\ ctx.mine[i].name = web[c].mine[i].name /\ ctx.mine[i].stats = t
  BY <1>1, WithStatsFields, SMTT(30)
<1> HIDE DEF ctx
<1>4. web[c].dirty \cup {i} \subseteq Holds(web[c])
  BY <1>2 DEF Holds
<1>5. j \in ctx.dirty => CopyOK(j, web[c])
  BY <1>3, <1>4 DEF JobOK
<1>6. j = i => /\ StatsGrow(web[c].orig[j].stats, t) /\ PastStats(j, t)
               /\ web[c].mine[j].status = "Complete" => t.final
  BY <1>2 DEF JobOK, Asks, AnswerOK
<1>7. RowMoves(j)
  <2>1. CASE row'[j] = row[j]
    BY <1>1, <2>1, RowSame
  <2>2. CASE j \in ctx.dirty /\ row[j] = ctx.orig[j] /\ row'[j] = ctx.mine[j]
    <3>1. CASE j = i
      BY <1>3, <1>5, <1>6, <2>2, <3>1 DEF CopyOK, PastRow, RowMoves
    <3>2. CASE j # i
      <4>1. row[j].stats.gens \in Nat
        BY <1>1 DEF TypeOK, Row, Stats
      <4>2. StatsGrow(row[j].stats, row[j].stats)
        BY <4>1 DEF StatsGrow
      <4>3. QED
        BY <1>1, <1>3, <1>5, <2>2, <3>2, <4>2 DEF CopyOK, RowMoves
    <3>3. QED
      BY <3>1, <3>2
  <2>3. QED
    BY <1>1, <1>2, <1>3, <2>1, <2>2, SubmitRow
<1>8. ASSUME j = i, row' # row, row'[j].status = "Complete"
      PROVE  row'[j].stats.final
  <2>1. row'[j] = ctx.mine[j]
    BY <1>1, <1>2, <1>3, <1>8 DEF Submit
  <2>2. QED
    BY <1>3, <1>6, <1>8, <2>1
<1>9. QED
  BY <1>7, <1>8

(* The steps that write rows.                                              *)
LEMMA RowWriters ==
  ASSUME [Next]_vars
  PROVE  \/ row' = row /\ table' = table
         \/ \E c \in Client : CreateDone(c) \/ IndexAnswer(c) \/ DetailsStats(c)
         \/ \E k \in Job :
              Delete(k) \/ \E n \in JobName, t \in BOOLEAN : Edit(k, n, t)
<1>1. CASE Browse
  BY <1>1 DEF Browse, CreatePost, IndexOpen, DetailsOpen, NoTableStep
<1>2. CASE \E c \in Client : Serve(c)
  BY <1>2 DEF Serve, CreateThrows, IndexAsk, IndexNoAnswer, IndexDone,
     DetailsStatus, DetailsAsk, DetailsThrows, NoTableStep
<1>3. CASE ServerStep \/ ServerCrash \/ ServerStart \/ UNCHANGED vars
  BY <1>3 DEF ServerStep, ServerCrash, ServerStart, webVars, vars
<1>4. QED
  BY <1>1, <1>2, <1>3 DEF Next

NewRow(j) ==
  row'[j].name = jobName[j] /\ row'[j].status = "Submitted"
    /\ row'[j].stats = NoStats

LEMMA CreateRow ==
  ASSUME TypeOK, DataContextInv, NEW c \in Client, CreateDone(c)
  PROVE  /\ web[c].job \in Job \ table /\ NewRow(web[c].job)
         /\ table' = table \cup {web[c].job}
         /\ \A k \in Job \ {web[c].job} : row'[k] = row[k]
<1> DEFINE i == web[c].job
           new == [Blank EXCEPT !.name = jobName[i], !.status = "Submitted"]
<1>1. i \in Job /\ i \notin table
  BY AnswerType DEF CreateDone, DataContextInv, Adding
<1>2. row' = [row EXCEPT ![i] = new] /\ table' = table \cup {i}
  BY DEF CreateDone, InsertRow
<1>3. new.name = jobName[i] /\ new.status = "Submitted" /\ new.stats = NoStats
  BY DEF Blank
<1> HIDE DEF new
<1>4. QED
  BY <1>1, <1>2, <1>3 DEF NewRow, TypeOK

LEMMA EditRow ==
  ASSUME TypeOK, NEW k \in Job, NEW n \in JobName, NEW t \in BOOLEAN,
         Edit(k, n, t), NEW j \in Job
  PROVE  /\ table' = table
         /\ row'[j].status = row[j].status /\ row'[j].stats = row[j].stats
         /\ j \notin disturbed' => row'[j].name = row[j].name
<1>1. /\ row' = [row EXCEPT ![k].name = n, ![k].template = t]
      /\ table' = table
      /\ disturbed' = IF n = row[k].name THEN disturbed
                      ELSE disturbed \cup {k}
  BY DEF Edit
<1>2. j # k => row'[j] = row[j]
  BY <1>1 DEF TypeOK
<1>3. /\ row'[k].name = n /\ row'[k].status = row[k].status
      /\ row'[k].stats = row[k].stats
  BY <1>1 DEF TypeOK, Row
<1>4. QED
  BY <1>1, <1>2, <1>3

(* A row is inserted as Submitted, then moves on with its job.             *)
LEMMA RowStep ==
  ASSUME TypeOK, DataContextInv, [Next]_vars,
         NEW j \in table', j \notin disturbed', JobOK(j)
  PROVE  IF j \in table THEN RowMoves(j) ELSE NewRow(j)
<1>1. /\ table \subseteq Job
      /\ j \in table => PastRow(j, row[j])
  BY DEF TypeOK, JobOK
<1>2. CASE row' = row /\ table' = table
  BY <1>1, <1>2, RowSame
<1>3. ASSUME NEW c \in Client, CreateDone(c)
      PROVE  IF j \in table THEN RowMoves(j) ELSE NewRow(j)
  BY <1>1, <1>3, CreateRow, RowSame
<1>4. ASSUME NEW c \in Client, IndexAnswer(c) \/ DetailsStats(c)
      PROVE  j \in table /\ RowMoves(j)
  <2>1. table' = table
    BY <1>4 DEF IndexAnswer, DetailsStats, Submit, NoTableStep
  <2>2. QED
    BY <1>4, <2>1, IndexRow, DetailsRow
<1>5. ASSUME NEW k \in Job, Delete(k)
      PROVE  j \in table /\ RowMoves(j)
  <2>1. j \in table /\ row'[j] = row[j]
    BY <1>5 DEF Delete, TypeOK
  <2>2. QED
    BY <1>1, <2>1, RowSame
<1>6. ASSUME NEW k \in Job, NEW n \in JobName, NEW t \in BOOLEAN,
             Edit(k, n, t)
      PROVE  j \in table /\ RowMoves(j)
  <2>1. j \in table
    BY <1>6 DEF Edit
  <2>2. QED
    BY <1>1, <1>6, <2>1, EditRow, RowSame
<1>7. QED
  BY <1>2, <1>3, <1>4, <1>5, <1>6, RowWriters
----------------------------------------------------------------------------
(* What a step of a request thread may do to the copies it holds.          *)

LEMMA FreshCopy ==
  ASSUME NEW j, PastRow(j, row[j]), NEW r,
         r.orig[j] = row[j], r.mine[j] = row[j]
  PROVE  CopyOK(j, r)
  BY PastShown DEF CopyOK, PastRow

LEMMA SameCopy ==
  ASSUME NEW j, NEW ctx, CopyOK(j, ctx), NEW r,
         r.orig = ctx.orig, r.mine = ctx.mine
  PROVE  CopyOK(j, r)
  BY DEF CopyOK

LEMMA CopyStep ==
  ASSUME TypeOK, DataContextInv, NEW c \in Client, ClientStep(c),
         NEW j \in Job, JobOK(j), j \in Holds(web'[c])
  PROVE  CopyOK(j, web'[c])
<1>1. web[c] \in RequestState /\ ContextOK(web[c]) /\ reply[c].status \in Status
      /\ (web[c].pc \notin {"idle", "listing"} => web[c].job \in Job)
  BY AnswerType DEF DataContextInv
<1>2. \A r : Goto(c, r) => web'[c] = r
  BY DEF Goto, TypeOK
<1>3. /\ j \in table => PastRow(j, row[j])
      /\ j \in Holds(web[c]) => CopyOK(j, web[c])
  BY DEF JobOK
<1>4. ~ Goto(c, Idle)
      /\ \A i \in Job : ~ Goto(c, [Idle EXCEPT !.pc = "adding", !.job = i])
  BY <1>2, HoldsNothing
<1>5. CASE IndexOpen(c)
  <2> DEFINE r == [Idle EXCEPT !.pc = "listing", !.orig = row, !.mine = row,
                               !.todo = {k \in table : Polled(row[k])}]
  <2>1. r.orig = row /\ r.mine = row /\ Holds(r) \subseteq table
    BY DEF Idle, Holds
  <2>2. web'[c] = r
    BY <1>2, <1>5 DEF IndexOpen
  <2> HIDE DEF r
  <2>3. QED
    BY <1>3, <2>1, <2>2, FreshCopy
<1>6. CASE \E i \in Job : DetailsOpen(c, i)
  <2>1. PICK i \in Job : DetailsOpen(c, i)
    BY <1>6
  <2> DEFINE mine == [Nothing EXCEPT ![i] = row[i]]
             r == [Idle EXCEPT !.pc = "status", !.job = i, !.orig = mine,
                               !.mine = mine]
  <2>2. web'[c] = r /\ i \in table
    BY <1>2, <2>1 DEF DetailsOpen
  <2>3. mine[i] = row[i]
    BY DEF Nothing
  <2> HIDE DEF mine
  <2>4. Holds(r) = {i} /\ r.orig = mine /\ r.mine = mine
    BY DEF Idle, Holds
  <2> HIDE DEF r
  <2>5. i = j
    BY <2>2, <2>4
  <2>6. QED
    BY <1>3, <2>2, <2>3, <2>4, <2>5, FreshCopy
<1>7. CASE \E i \in Job : IndexAsk(c, i)
  <2>1. PICK i \in Job : IndexAsk(c, i)
    BY <1>7
  <2> DEFINE r == [web[c] EXCEPT !.pc = "polling", !.job = i]
  <2>2. /\ r.orig = web[c].orig /\ r.mine = web[c].mine /\ r.job = i
        /\ r.todo = web[c].todo /\ r.dirty = web[c].dirty
    BY <1>1 DEF RequestState, Context
  <2>3. web'[c] = r /\ i \in web[c].todo
    BY <1>2, <2>1 DEF IndexAsk
  <2> HIDE DEF r
  <2>4. j \in Holds(web[c])
    BY <2>2, <2>3 DEF Holds
  <2>5. QED
    BY <1>3, <2>2, <2>3, <2>4, SameCopy
<1>8. CASE IndexAnswer(c)
  <2> DEFINE i == web[c].job
             ctx == SetStatus(web[c], i, reply[c].status)
  <2>1. \/ web'[c] = NextJob(ctx, i)
        \/ web'[c] = NextJob(AfterSubmit(ctx), i)
    BY <1>2, <1>8 DEF IndexAnswer
  <2>2. web[c].pc = "polling" /\ i \in Job /\ i \in web[c].todo
    BY <1>1, <1>8 DEF IndexAnswer, ContextOK
  <2>3. ctx \in RequestState
    BY <1>1, <2>2, SetStatusType
  <2>4. ctx.todo \cup ctx.dirty \subseteq Holds(web[c])
    BY <1>1, <2>2, SetStatusHolds DEF Holds
  <2>5. Holds(web'[c]) \subseteq ctx.todo \cup ctx.dirty
    <3> HIDE DEF ctx
    <3>1. QED
      BY <2>1, <2>3, NextJobHolds
  <2>6. CopyOK(j, ctx)
    BY <1>8, <2>2, <2>4, <2>5, AnswerCopy DEF IndexAnswer
  <2> HIDE DEF ctx
  <2>7. CopyOK(j, AfterSubmit(ctx)) /\ AfterSubmit(ctx) \in RequestState
    BY <2>3, <2>6, AfterSubmitCopy, AfterSubmitType
  <2>8. QED
    BY <2>1, <2>3, <2>6, <2>7, NextJobCopy
<1>9. CASE \E i : Goto(c, NextJob(web[c], i))
  <2>1. PICK i : web'[c] = NextJob(web[c], i)
    BY <1>2, <1>9
  <2>2. j \in Holds(web[c])
    <3>1. Holds(NextJob(web[c], i)) \subseteq web[c].todo \cup web[c].dirty
      BY <1>1, NextJobHolds
    <3>2. QED
      BY <2>1, <3>1 DEF Holds
  <2>3. QED
    BY <1>1, <1>3, <2>1, <2>2, NextJobCopy
<1>10. CASE DetailsStatus(c) /\ reply[c].status # "null"
  <2> DEFINE ctx == SetStatus(web[c], web[c].job, reply[c].status)
             r == [ctx EXCEPT !.pc = "asking"]
  <2>1. web'[c] = r /\ web[c].pc = "status"
    BY <1>2, <1>10 DEF DetailsStatus
  <2>2. ctx \in RequestState /\ web[c].job \in Job
    BY <1>1, <2>1, SetStatusType
  <2>3. ctx.job = web[c].job /\ ctx.todo = web[c].todo
        /\ ctx.dirty \subseteq web[c].dirty \cup {web[c].job}
    BY <1>1, SetStatusHolds
  <2>4. j \in Holds(web[c]) => CopyOK(j, ctx)
    BY <1>10, <2>1, AnswerCopy DEF DetailsStatus
  <2> HIDE DEF ctx
  <2>5. /\ r.job = ctx.job /\ r.todo = ctx.todo /\ r.dirty = ctx.dirty
        /\ r.orig = ctx.orig /\ r.mine = ctx.mine
    BY <2>2 DEF RequestState, Context
  <2> HIDE DEF r
  <2>6. j \in Holds(web[c])
    BY <2>1, <2>3, <2>5 DEF Holds
  <2>7. QED
    BY <2>1, <2>4, <2>5, <2>6, SameCopy
<1>11. CASE DetailsAsk(c)
  <2> DEFINE r == [web[c] EXCEPT !.pc = "stats"]
  <2>1. web'[c] = r /\ web[c].pc = "asking"
    BY <1>2, <1>11 DEF DetailsAsk
  <2>2. /\ r.job = web[c].job /\ r.todo = web[c].todo
        /\ r.dirty = web[c].dirty
        /\ r.orig = web[c].orig /\ r.mine = web[c].mine
    BY <1>1 DEF RequestState, Context
  <2> HIDE DEF r
  <2>3. j \in Holds(web[c])
    BY <2>1, <2>2 DEF Holds
  <2>4. QED
    BY <1>3, <2>1, <2>2, <2>3, SameCopy
<1>12. QED
  BY <1>4, <1>5, <1>6, <1>7, <1>8, <1>9, <1>10, <1>11
  DEF ClientStep, Serve, CreatePost, CreateDone, InsertRow, CreateThrows,
      IndexNoAnswer, IndexDone, DetailsStatus, DetailsStats, DetailsThrows
----------------------------------------------------------------------------
(* The names jobs are posted with, and their AddJob calls.                 *)

LEMMA NameWriters ==
  ASSUME [Next]_vars
  PROVE  \/ jobName' = jobName
         \/ \E c \in Client, j \in Job, n \in JobName, p \in Params :
              CreatePost(c, j, n, p)
<1>1. CASE Browse
  BY <1>1 DEF Browse, IndexOpen, DetailsOpen, Edit, Delete
<1>2. CASE \E c \in Client : Serve(c)
  BY <1>2 DEF Serve, CreateDone, CreateThrows, IndexAsk, IndexAnswer,
     IndexNoAnswer, IndexDone, DetailsStatus, DetailsAsk, DetailsStats,
     DetailsThrows
<1>3. CASE ServerStep \/ ServerCrash \/ ServerStart \/ UNCHANGED vars
  BY <1>3 DEF ServerStep, ServerCrash, ServerStart, webVars, vars
<1>4. QED
  BY <1>1, <1>2, <1>3 DEF Next

LEMMA UniqueStep ==
  ASSUME TypeOK, [Next]_vars, NEW j \in Used', j \notin disturbed',
         j \in Used => Unique(j)
  PROVE  Unique(j)'
<1>1. CASE jobName' = jobName
  BY <1>1 DEF Used, Unique
<1>2. CASE \E c \in Client, i \in Job, n \in JobName, p \in Params :
             CreatePost(c, i, n, p)
  <2>1. PICK c \in Client, i \in Job, n \in JobName, p \in Params :
               CreatePost(c, i, n, p)
    BY <1>2
  <2> DEFINE same == {k \in Used : jobName[k] = n \/ row[k].name = n}
  <2>2. /\ jobName' = [jobName EXCEPT ![i] = n] /\ i \notin Used
        /\ disturbed' = IF same = {} THEN disturbed
                        ELSE disturbed \cup same \cup {i}
    BY <2>1 DEF CreatePost
  <2>3. /\ jobName'[i] = n /\ Used' \subseteq Used \cup {i}
        /\ \A k \in Used : jobName'[k] = jobName[k]
    BY <2>2 DEF TypeOK, Used
  <2>4. SUFFICES ASSUME NEW k \in Used', jobName'[k] = jobName'[j]
                 PROVE  k = j
    BY DEF Unique
  <2>5. CASE j = i
    <3>1. same = {}
      BY <2>2, <2>5
    <3>2. QED
      BY <2>3, <2>4, <2>5, <3>1
  <2>6. CASE j # i
    <3>1. j \in Used /\ jobName'[j] = jobName[j] /\ Unique(j)
      BY <2>3, <2>6
    <3>2. jobName[j] # n
      BY <2>2, <3>1
    <3>3. k \in Used /\ jobName[k] = jobName[j]
      BY <2>3, <2>4, <3>1, <3>2
    <3>4. QED
      BY <3>1, <3>3 DEF Unique
  <2>7. QED
    BY <2>5, <2>6
<1>3. QED
  BY <1>1, <1>2, NameWriters

(* An AddJob call on the queue stays there until it is handled.            *)
LEMMA PostedTalk ==
  ASSUME TypeOK, NEW c \in Client, Talk(c), NEW j \in Job,
         (\E i \in Place : Adds(i, j)) \/ (j \in Used' /\ j \notin Used)
  PROVE  \E i \in Place' : Adds(i, j)'
<1>1. Len(queue) \in Nat
  BY PlaceType
<1>2. CASE EndsCall(c)
  <2>1. Shift(0) /\ Used' = Used
    BY <1>2 DEF EndsCall, Used
  <2>2. Place' = Place
    BY <1>1, <2>1 DEF Shift, Place
  <2>3. \A i \in Place' : SameMessage(queue'[i], queue[i])
    BY <1>1, <2>1 DEF Shift, Place
  <2>4. QED
    BY <2>1, <2>2, <2>3 DEF Adds, SameMessage
<1>3. CASE SendsNext(c)
  <2>1. PICK m \in Request :
          /\ queue' = Append(queue, m)
          /\ \/ jobName' = jobName
             \/ /\ m.verb = "AddJob"
                /\ jobName' = [jobName EXCEPT ![m.job] = m.name]
    BY <1>3 DEF SendsNext
  <2>2. PICK z : z = Len(queue) + 1
    OBVIOUS
  <2>3. /\ Place' = Place \cup {z} /\ queue'[z] = m
        /\ \A i \in Place : queue'[i] = queue[i]
    BY <2>1, <2>2, AppendPlaces
  <2>4. CASE \E i \in Place : Adds(i, j)
    BY <2>3, <2>4 DEF Adds
  <2>5. CASE j \in Used' /\ j \notin Used
    <3>1. m.verb = "AddJob" /\ m.job = j
      BY <2>1, <2>5 DEF Used, TypeOK
    <3>2. Adds(z, j)'
      BY <2>3, <3>1 DEF Adds
    <3>3. QED
      BY <2>3, <3>2
  <2>6. QED
    BY <2>4, <2>5
<1>4. QED
  BY <1>2, <1>3 DEF Talk

LEMMA PostedStep ==
  ASSUME TypeOK, DataContextInv, MessageInv, [Next]_vars,
         NEW j \in Used', j \notin disturbed',
         j \in Used => Unique(j) /\ Posted(j)
  PROVE  Posted(j)'
<1>1. j \in Job
  BY DEF Used
<1>2. ASSUME j \in Used, Known(j)
      PROVE  Posted(j)'
  BY <1>2, StepAhead DEF Ahead, Posted
<1>3. CASE \E c \in Client : ClientStep(c)
  BY <1>1, <1>2, <1>3, ClientTalk, PostedTalk DEF Posted
<1>4. ASSUME jobName' = jobName, queue' = queue
      PROVE  Posted(j)'
  <2>1. j \in Used
    BY <1>4 DEF Used
  <2>2. (\E i \in Place : Adds(i, j)) => \E i \in Place' : Adds(i, j)'
    BY <1>4 DEF Adds, Place
  <2>3. QED
    BY <1>2, <2>1, <2>2 DEF Posted
<1>5. CASE OnMessage /\ UNCHANGED webVars
  <2>1. j \in Used
    BY <1>5 DEF webVars, Used
  <2>2. SUFFICES ASSUME NEW i \in Place, Adds(i, j) PROVE Posted(j)'
    BY <1>2, <2>1 DEF Posted
  <2>3. /\ Shift(1) /\ 1 \in Place /\ Msg = queue[1]
        /\ \A h \in Place : h # 1 => h - 1 \in Place'
    BY <1>5, Handled
  <2>4. CASE i = 1
    <3>1. Msg.verb = "AddJob" /\ Msg.job = j
      BY <2>2, <2>3, <2>4 DEF Adds
    <3>2. HandleAddJob /\ UNCHANGED webVars
      BY <1>5, <3>1
      DEF OnMessage, HandleGetStatus, HandleGetStatistics, Accept
    <3>3. instances' = [instances EXCEPT ![jobName[j]] = j]
          /\ jobName[j] \in JobName
      BY <3>1, <3>2, HandledAddJob
    <3>4. Known(j)'
      BY <1>5, <3>3 DEF Known, webVars, TypeOK, ServerTypeOK
    <3>5. QED
      BY <3>4 DEF Posted
  <2>5. CASE i # 1
    <3>1. PICK h : h = i - 1 /\ h \in Place'
      BY <2>3, <2>5
    <3>2. h + 1 = i
      BY <3>1, PlaceType DEF Place
    <3>3. Adds(h, j)'
      BY <2>2, <2>3, <3>1, <3>2 DEF Shift, SameMessage, Adds
    <3>4. QED
      BY <3>1, <3>3 DEF Posted
  <2>6. QED
    BY <2>4, <2>5
<1>6. CASE \E k \in Job : PlayThread(k) /\ UNCHANGED webVars
  <2>1. queue' = queue
    BY <1>6, PlayThreadStep DEF MessageInv, Become
  <2>2. QED
    BY <1>4, <1>6, <2>1 DEF webVars
<1>7. ASSUME ServerCrash PROVE FALSE
  BY <1>7 DEF ServerCrash, Used
<1>8. QED
  BY <1>3, <1>4, <1>5, <1>6, <1>7, StepKinds DEF Quiet
----------------------------------------------------------------------------
(* Questions stand behind the AddJob call, answers tell of the past.       *)

LEMMA OrderShift ==
  ASSUME TypeOK, NEW d \in Nat, Shift(d), NEW e \in Client, NEW j,
         OrderOK(e, j)
  PROVE  OrderOK(e, j)'
<1>1. \A i \in Place' :
        i \in Nat /\ i + d \in Place /\ SameMessage(queue'[i], queue[i + d])
  BY PlaceType DEF Shift, Place
<1>2. SUFFICES ASSUME NEW i \in Place', NEW h \in Place',
                      queue'[i].from = e, Adds(h, j)'
               PROVE  h < i
  BY DEF OrderOK
<1>3. queue[i + d].from = e /\ Adds(h + d, j)
  BY <1>1, <1>2 DEF SameMessage, Adds
<1>4. h + d < i + d
  BY <1>1, <1>3 DEF OrderOK
<1>5. QED
  BY <1>1, <1>4

LEMMA OrderStep ==
  ASSUME TypeOK, DataContextInv, MessageInv, [Next]_vars,
         NEW j \in Used, JobOK(j), NEW e \in Client, Asks(e, j)'
  PROVE  OrderOK(e, j)'
<1>1. j \in Job /\ Len(queue) \in Nat /\ 0 \in Nat /\ 1 \in Nat
  BY PlaceType DEF Used
<1>2. ASSUME web'[e] = web[e]
      PROVE  OrderOK(e, j)
  BY <1>2 DEF Asks, JobOK
<1>3. CASE \E c \in Client : ClientStep(c)
  <2>1. PICK c \in Client : Talk(c)
    BY <1>3, ClientTalk
  <2>2. \A x \in Client \ {c} : web'[x] = web[x]
    BY <2>1 DEF Talk
  <2>3. CASE EndsCall(c)
    <3>1. CASE e = c
      BY <2>3, <3>1 DEF EndsCall, Silent, OrderOK
    <3>2. CASE e # c
      BY <1>1, <1>2, <2>2, <2>3, <3>2, OrderShift DEF EndsCall
    <3>3. QED
      BY <3>1, <3>2
  <2>4. CASE SendsNext(c)
    <3>1. PICK m \in Request :
            /\ queue' = Append(queue, m)
            /\ m.from = c /\ m.verb = WaitsFor(web'[c].pc)
            /\ m.verb = "AddJob" => m.job \notin Used
      BY <2>4 DEF SendsNext
    <3>2. PICK z : z = Len(queue) + 1
      OBVIOUS
    <3>3. /\ Place' = Place \cup {z} /\ queue'[z] = m
          /\ \A i \in Place : i < z /\ queue'[i] = queue[i]
      BY <1>1, <3>1, <3>2, AppendPlaces DEF Place
    <3>4. \A h \in Place' : Adds(h, j)' => h \in Place /\ Adds(h, j)
      BY <3>1, <3>3 DEF Adds
    <3>5. CASE e = c
      <4>1. \A i \in Place' : queue'[i].from = e => i = z
        BY <2>4, <3>3, <3>5 DEF SendsNext, Silent
      <4>2. QED
        BY <3>3, <3>4, <4>1 DEF OrderOK
    <3>6. CASE e # c
      <4>1. \A i \in Place' : queue'[i].from = e =>
              i \in Place /\ queue[i].from = e
        BY <3>1, <3>3, <3>6
      <4>2. OrderOK(e, j)
        BY <1>2, <2>2, <3>6
      <4>3. QED
        BY <3>4, <4>1, <4>2 DEF OrderOK
    <3>7. QED
      BY <3>5, <3>6
  <2>5. QED
    BY <2>1, <2>3, <2>4 DEF Talk
<1>4. CASE OnMessage /\ UNCHANGED webVars
  BY <1>1, <1>2, <1>4, Handled, OrderShift DEF webVars
<1>5. CASE web' = web /\ queue' = queue
  BY <1>1, <1>2, <1>5, ShiftSame, OrderShift
<1>6. CASE \E k \in Job : PlayThread(k) /\ UNCHANGED webVars
  <2>1. queue' = queue
    BY <1>6, PlayThreadStep DEF MessageInv, Become
  <2>2. QED
    BY <1>5, <1>6, <2>1 DEF webVars
<1>7. CASE ServerCrash
  BY <1>7, ShiftCrash DEF ServerCrash, OrderOK
<1>8. QED
  BY <1>3, <1>4, <1>5, <1>6, <1>7, StepKinds DEF Quiet

LEMMA AnswerKept ==
  ASSUME TypeOK, TypeOK', NEW j \in Job, Ahead(j), NEW e \in Client,
         AnswerOK(e, j), web'[e] = web[e], reply'[e] = reply[e]
  PROVE  AnswerOK(e, j)'
<1>1. reply[e].stats \in Stats
  BY AnswerType
<1>2. /\ Known(j)' /\ MovesOn(inst[j], inst'[j])
      /\ PastStats(j, reply[e].stats) => PastStats(j, reply[e].stats)'
  BY <1>1, PastKept DEF AnswerOK, Ahead
<1>3. \A s : Board!NotBefore(s, inst[j].status) =>
             Board!NotBefore(s, inst'[j].status)
  BY <1>2, ProgressLaws DEF MovesOn
<1>4. QED
  BY <1>2, <1>3 DEF AnswerOK, PastStats

(* The server answers a question about a posted job from its instance.     *)
LEMMA AskedAndKnown ==
  ASSUME TypeOK, MessageInv, OnMessage, UNCHANGED webVars,
         NEW j \in Used, JobOK(j), NEW e \in Client, e = Msg.from, Asks(e, j)
  PROVE  /\ Known(j) /\ CopyOK(j, web[e]) /\ ~ HandleAddJob
         /\ Msg.verb = WaitsFor(web[e].pc) /\ Msg.name = jobName[j]
<1>1. /\ 1 \in Place /\ Msg = queue[1] /\ queue[1].from = e
      /\ \A i \in Place : ~ (i < 1)
  BY Handled, PlaceType DEF Place
<1>2. AskedFor(e, Msg)
  BY <1>1 DEF MessageInv, AskInv, AskOK
<1>3. Msg.verb # "AddJob"
  BY <1>2 DEF AskedFor, Asks, WaitsFor
<1>4. CopyOK(j, web[e])
  BY DEF JobOK, Asks, Holds
<1>5. Msg.name = jobName[j]
  BY <1>2, <1>3, <1>4 DEF AskedFor, Asks, CopyOK, PastRow
<1>6. Known(j)
  BY <1>1 DEF JobOK, Posted, OrderOK
<1>7. QED
  BY <1>2, <1>3, <1>4, <1>5, <1>6 DEF AskedFor, HandleAddJob, Accept

LEMMA StatusAnswered ==
  ASSUME TypeOK, MessageInv, HandleGetStatus, UNCHANGED webVars,
         NEW j \in Used, JobOK(j), NEW e \in Client, e = Msg.from, Asks(e, j)
  PROVE  AnswerOK(e, j)'
<1>1. /\ Known(j) /\ CopyOK(j, web[e])
      /\ Msg.verb = WaitsFor(web[e].pc) /\ Msg.name = jobName[j]
  BY AskedAndKnown DEF OnMessage
<1>2. /\ j \in Job /\ inst[j].status \in RunStatus
      /\ e # NoClient /\ j # NoJob
  BY InstanceType DEF Used
<1>3. UNCHANGED <<web, jobName, inst, instances>>
  BY DEF HandleGetStatus, webVars
<1>4. reply'[e] = [verb |-> "GetStatus", status |-> StatusOf(Msg.name),
                   stats |-> NoStats]
  BY <1>2 DEF HandleGetStatus, ReplyTo, TypeOK, ServerTypeOK
<1>5. reply'[e].status = inst[j].status
  BY <1>1, <1>2, <1>4 DEF StatusOf, Known
<1>6. web[e].pc # "stats"
  BY <1>1 DEF HandleGetStatus, Accept, WaitsFor
<1>7. /\ Board!NotBefore(web[e].orig[j].status, inst[j].status)
      /\ Board!NotBefore(inst[j].status, inst[j].status)
  BY <1>1, <1>2, PastShown, ProgressLaws, SMTT(30) DEF CopyOK, PastRow
<1>8. QED
  BY <1>1, <1>3, <1>5, <1>6, <1>7 DEF AnswerOK, Known

LEMMA StatisticsAnswered ==
  ASSUME TypeOK, MessageInv, WholeInv, HandleGetStatistics, UNCHANGED webVars,
         NEW j \in Used, JobOK(j), NEW e \in Client, e = Msg.from, Asks(e, j)
  PROVE  AnswerOK(e, j)'
<1>1. /\ Known(j) /\ CopyOK(j, web[e])
      /\ Msg.verb = WaitsFor(web[e].pc) /\ Msg.name = jobName[j]
  BY AskedAndKnown DEF OnMessage
<1>2. /\ j \in Job /\ inst[j].gens \in Nat /\ Whole(inst[j]) /\ RunOK(inst[j])
      /\ e # NoClient /\ j # NoJob
  BY InstanceType DEF Used, WholeInv, MessageInv, RunInv
<1>3. UNCHANGED <<web, jobName, inst, instances>>
  BY DEF HandleGetStatistics, webVars
<1>4. PICK t \in StatisticsRead(jobName[j]) :
        reply'[e] = [verb |-> "GetStatistics", status |-> "null", stats |-> t]
  BY <1>1, <1>2 DEF HandleGetStatistics, ReplyTo, TypeOK, ServerTypeOK
<1>5. reply'[e].stats = t
  BY <1>4
<1>6. web[e].pc \notin {"polling", "status"}
  BY <1>1 DEF HandleGetStatistics, Accept, WaitsFor
<1>7. /\ web[e].orig[j].stats.kind = "doc" =>
           /\ web[e].orig[j].stats.gens <= inst[j].gens
           /\ web[e].orig[j].stats.final => inst[j].final
      /\ web[e].mine[j].status = "Complete" => inst[j].status = "Complete"
  BY <1>1, ProgressLaws, SMTT(30) DEF CopyOK, PastRow, PastStats, PastStatus
<1>8. \/ t.kind = "doc" /\ t.gens = inst[j].gens /\ t.final = inst[j].final
      \/ t = Torn /\ inst[j].phase \in {"sampled", "finish"}
  BY <1>1, <1>2, <1>4 DEF StatisticsRead, StatisticsOf, Appending, Known
<1>9. CASE t.kind = "doc" /\ t.gens = inst[j].gens /\ t.final = inst[j].final
  <2>1. StatsGrow(web[e].orig[j].stats, t)
    BY <1>2, <1>7, <1>9 DEF StatsGrow
  <2>2. t.gens <= inst[j].gens
    BY <1>2, <1>9
  <2>3. PastStats(j, t)
    BY <1>1, <1>9, <2>2 DEF PastStats
  <2>4. web[e].mine[j].status = "Complete" => t.final
    BY <1>2, <1>7, <1>9 DEF Whole
  <2>5. QED
    BY <1>1, <1>3, <1>5, <1>6, <2>1, <2>3, <2>4
    DEF AnswerOK, Known, PastStats
<1>10. CASE t = Torn /\ inst[j].phase \in {"sampled", "finish"}
  <2>1. t.kind = "torn"
    BY <1>10 DEF Torn
  <2>2. ~ inst[j].final
    BY <1>2, <1>10 DEF RunOK
  <2>3. StatsGrow(web[e].orig[j].stats, t) /\ PastStats(j, t)
    BY <1>7, <2>1, <2>2 DEF StatsGrow, PastStats
  <2>4. web[e].mine[j].status # "Complete"
    BY <1>2, <1>7, <1>10 DEF Whole
  <2>5. QED
    BY <1>1, <1>3, <1>5, <1>6, <2>3, <2>4
    DEF AnswerOK, Known, PastStats
<1>11. QED
  BY <1>8, <1>9, <1>10

LEMMA AnswerStep ==
  ASSUME TypeOK, TypeOK', DataContextInv, MessageInv, WholeInv, [Next]_vars,
         NEW j \in Used, j \notin disturbed', JobOK(j),
         NEW e \in Client, Asks(e, j)', reply'[e] # NoReply
  PROVE  AnswerOK(e, j)'
<1>1. j \in Job /\ Ahead(j)
  BY StepAhead DEF Used, JobOK
<1>2. ASSUME web'[e] = web[e], reply'[e] = reply[e]
      PROVE  AnswerOK(e, j)'
  BY <1>1, <1>2, AnswerKept DEF Asks, JobOK
<1>3. CASE \E c \in Client : ClientStep(c)
  <2>1. PICK c \in Client : Talk(c)
    BY <1>3, ClientTalk
  <2>2. e # c
    BY <2>1 DEF Talk, SendsNext, EndsCall
  <2>3. QED
    BY <1>2, <2>1, <2>2 DEF Talk
<1>4. CASE OnMessage /\ UNCHANGED webVars
  <2>1. Asks(e, j) /\ web'[e] = web[e]
    BY <1>4 DEF Asks, webVars
  <2>2. CASE e # Msg.from
    BY <1>2, <1>4, <2>1, <2>2, Handled
  <2>3. CASE e = Msg.from
    BY <1>4, <2>1, <2>3, AskedAndKnown, StatusAnswered, StatisticsAnswered
    DEF OnMessage
  <2>4. QED
    BY <2>2, <2>3
<1>5. CASE \E k \in Job : PlayThread(k) /\ UNCHANGED webVars
  <2>1. reply' = reply
    BY <1>5, PlayThreadStep DEF MessageInv, Become
  <2>2. QED
    BY <1>2, <1>5, <2>1 DEF webVars
<1>6. ASSUME ServerCrash PROVE FALSE
  BY <1>6 DEF ServerCrash
<1>7. QED
  BY <1>2, <1>3, <1>4, <1>5, <1>6, StepKinds DEF Quiet
----------------------------------------------------------------------------
(* The invariant.                                                          *)

LEMMA WebWriters ==
  ASSUME TypeOK, DataContextInv, MessageInv, [Next]_vars
  PROVE  \/ web' = web
         \/ \E c \in Client : /\ ClientStep(c)
                              /\ \A e \in Client \ {c} : web'[e] = web[e]
  BY StepKinds, ClientTalk DEF Talk, webVars, ServerCrash, Quiet

LEMMA DisturbedKept ==
  ASSUME [Next]_vars
  PROVE  disturbed \subseteq disturbed'
<1>1. CASE Browse
  BY <1>1 DEF Browse, CreatePost, IndexOpen, DetailsOpen, Edit, Delete
<1>2. CASE \E c \in Client : Serve(c)
  BY <1>2 DEF Serve, CreateDone, CreateThrows, IndexAsk, IndexAnswer,
     IndexNoAnswer, IndexDone, DetailsStatus, DetailsAsk, DetailsStats,
     DetailsThrows
<1>3. CASE ServerStep \/ ServerCrash \/ ServerStart \/ UNCHANGED vars
  BY <1>3 DEF ServerStep, ServerCrash, ServerStart, webVars, vars
<1>4. QED
  BY <1>1, <1>2, <1>3 DEF Next

(* A job that was there before the step.                                   *)
LEMMA OldJob ==
  ASSUME TypeOK, TypeOK', DataContextInv, MessageInv, WholeInv, [Next]_vars,
         NEW j \in Used, j \notin disturbed', JobOK(j)
  PROVE  JobOK(j)'
<1>1. j \in Job /\ Ahead(j) /\ j \in Used'
  BY StepAhead, UsedKept DEF Used, JobOK
<1>2. Unique(j)' /\ Posted(j)'
  BY <1>1, UniqueStep, PostedStep DEF JobOK
<1>3. \A r \in Row : PastRow(j, r) => PastRow(j, r)'
  BY <1>1, PastKept
<1>4. ASSUME j \in table'
      PROVE  PastRow(j, row[j])'
  <2>1. PICK r \in Row : r = row'[j]
    BY <1>1 DEF TypeOK
  <2>2. RowMoves(j) \/ NewRow(j)
    BY <1>4, RowStep
  <2>3. NewRow(j) => PastRow(j, r)
    BY <2>1 DEF NewRow, PastRow, PastStatus, PastStats, NoStats
  <2>4. PastRow(j, r)'
    BY <1>3, <2>1, <2>2, <2>3 DEF RowMoves
  <2>5. QED
    BY <2>1, <2>4 DEF PastRow, PastStatus, PastStats, Known
<1>5. ASSUME NEW e \in Client, j \in Holds(web[e])'
      PROVE  CopyOK(j, web[e])'
  <2>1. PICK x \in RequestState : x = web'[e]
    BY DEF TypeOK
  <2>2. j \in Holds(x)
    BY <1>5, <2>1 DEF Holds
  <2>3. CopyOK(j, x)
    <3>1. CASE web'[e] = web[e]
      BY <2>1, <2>2, <3>1 DEF JobOK
    <3>2. CASE ClientStep(e)
      BY <1>1, <2>1, <2>2, <3>2, CopyStep
    <3>3. QED
      BY <3>1, <3>2, WebWriters
  <2>4. x.orig[j] \in Row /\ x.mine[j] \in Row
    BY <1>1 DEF RequestState, Context
  <2>5. PastRow(j, x.orig[j])' /\ PastRow(j, x.mine[j])'
    BY <1>3, <2>3, <2>4 DEF CopyOK
  <2>6. CopyOK(j, x)'
    BY <2>3, <2>5 DEF CopyOK
  <2>7. QED
    BY <2>1, <2>6 DEF CopyOK, PastRow, PastStatus, PastStats, Known
<1>6. QED
  BY <1>2, <1>4, <1>5, OrderStep, AnswerStep DEF JobOK

(* A job that the step posts: nobody holds or asks for it yet.             *)
LEMMA NewJob ==
  ASSUME TypeOK, DataContextInv, MessageInv, MessageInv', DataContextInv',
         [Next]_vars, NEW j \in Used' \ Used, j \notin disturbed'
  PROVE  JobOK(j)'
<1>1. Unique(j)' /\ Posted(j)'
  BY UniqueStep, PostedStep
<1>2. j \notin table'
  <2>1. CASE jobName' = jobName
    BY <2>1 DEF Used
  <2>2. CASE \E c \in Client, i \in Job, n \in JobName, p \in Params :
               CreatePost(c, i, n, p)
    BY <2>2, TableUsed DEF CreatePost, NoTableStep
  <2>3. QED
    BY <2>1, <2>2, NameWriters
<1>3. ASSUME NEW e \in Client
      PROVE  j \notin Holds(web'[e])
  <2>1. Holds(web[e]) \subseteq Used /\ table \subseteq Used
    BY TableUsed DEF MessageInv, HoldsInv
  <2>2. QED
    BY <2>1, WebWriters, PageHolds
<1>4. \A e \in Client : ~ Asks(e, j)' /\ j \notin Holds(web[e])'
  BY <1>3 DEF Asks, Holds
<1>5. QED
  BY <1>1, <1>2, <1>4 DEF JobOK

LEMMA StepHistory ==
  ASSUME TypeOK, DataContextInv, WholeInv, HistoryInv, [Next]_vars
  PROVE  HistoryInv'
<1>1. TypeOK' /\ DataContextInv' /\ MessageInv'
  BY StepInv, StepMessages DEF HistoryInv
<1>2. ASSUME NEW j \in (Used \ disturbed)'
      PROVE  JobOK(j)'
  <2>1. CASE j \in Used
    BY <1>1, <1>2, <2>1, OldJob, DisturbedKept DEF HistoryInv
  <2>2. CASE j \notin Used
    BY <1>1, <1>2, <2>2, NewJob DEF HistoryInv
  <2>3. QED
    BY <2>1, <2>2
<1>3. QED
  BY <1>1, <1>2 DEF HistoryInv

LEMMA InitHistory == Init => HistoryInv
<1>1. Init => Used = {}
  BY DEF Init, Used
<1>2. QED
  BY <1>1, InitMessages DEF HistoryInv

LEMMA WholeCorrect == Spec => []WholeInv
<1>1. Init => WholeInv
  BY DEF Init, ServerInit, WholeInv, Whole, Unallocated
<1>2. TypeOK /\ WholeInv /\ [Next]_vars => WholeInv'
  BY StepWhole
<1>3. QED
  BY <1>1, <1>2, TypeCorrect, PTL DEF Spec

(* For a job that no restart, no second job of its name and no rename set  *)
(* apart from its row: the row, and every copy of it that a request thread *)
(* holds, tell of the past of its EaInstance; a question about it stands   *)
(* behind its AddJob call; and the answer is newer than the copy it goes   *)
(* into (JobController 60-77, 92-109; MessageServer onMessage).            *)
THEOREM HistoryCorrect == Spec => []HistoryInv
<1>1. Init => HistoryInv
  BY InitHistory
<1>2. TypeOK /\ DataContextInv /\ WholeInv /\ HistoryInv /\ [Next]_vars
        => HistoryInv'
  BY StepHistory
<1>3. QED
  BY <1>1, <1>2, TypeCorrect, ContextCorrect, WholeCorrect, PTL DEF Spec
----------------------------------------------------------------------------
(* What the table and the statistics say, from the invariant.              *)

(* A job that the table calls Complete, and that nothing has set apart     *)
(* from its instance, did finish on the server with its final statistics   *)
(* in place, however late the request that stored it (JobController 66-72, *)
(* 95-109; EaInstance 205-211).                                            *)
THEOREM CompleteDone == Spec => []CompleteMeansDone
<1>1. TypeOK /\ DataContextInv /\ WholeInv /\ HistoryInv => CompleteMeansDone
  <2>1. SUFFICES ASSUME TypeOK, DataContextInv, WholeInv, HistoryInv,
                        NEW j \in table \ disturbed, row[j].status = "Complete"
                 PROVE  inst[j].status = "Complete" /\ inst[j].final
    BY DEF CompleteMeansDone
  <2>2. j \in Job /\ JobOK(j)
    BY <2>1, TableUsed DEF HistoryInv, TypeOK
  <2>3. Board!NotBefore("Complete", inst[j].status)
    BY <2>1, <2>2 DEF JobOK, PastRow, PastStatus
  <2>4. inst[j].status = "Complete"
    BY <2>3, ProgressLaws
  <2>5. QED
    BY <2>1, <2>2, <2>4 DEF WholeInv, Whole
<1>2. QED
  BY <1>1, TypeCorrect, ContextCorrect, WholeCorrect, HistoryCorrect, PTL

(* The stored statistics of a job never go back to an earlier document,    *)
(* and nothing is stored over the final ones, however many requests write  *)
(* what they learned at different moments (JobController 102-109).         *)
THEOREM StatsForward == Spec => StatsNeverRegress
<1>1. TypeOK /\ DataContextInv /\ HistoryInv /\ [Next]_vars =>
        [\A j \in (table \cap table') \ disturbed' :
           StatsGrow(row[j].stats, row'[j].stats)]_vars
  <2>1. SUFFICES ASSUME TypeOK, DataContextInv, HistoryInv, [Next]_vars,
                        NEW j \in (table \cap table') \ disturbed'
                 PROVE  StatsGrow(row[j].stats, row'[j].stats)
    OBVIOUS
  <2>2. JobOK(j)
    BY <2>1, TableUsed, DisturbedKept DEF HistoryInv
  <2>3. QED
    BY <2>1, <2>2, RowStep DEF RowMoves
<1>2. QED
  BY <1>1, TypeCorrect, ContextCorrect, HistoryCorrect, PTL
  DEF Spec, StatsNeverRegress

(* The step that ends a Details request and changes the table is the one   *)
(* that stores the statistics.                                             *)
LEMMA StatsStored ==
  ASSUME TypeOK, DataContextInv, MessageInv, [Next]_vars, NEW c \in Client,
         web[c].pc = "stats", web'[c].pc = "idle", row' # row
  PROVE  DetailsStats(c)
<1>1. \A e \in Client \ {c} : ClientStep(e) => web'[c] = web[c]
  BY ClientTalk DEF Talk
<1>2. ASSUME NEW e \in Client, CreateDone(e) \/ IndexAnswer(e) \/ DetailsStats(e)
      PROVE  e = c
  BY <1>1, <1>2 DEF ClientStep, Serve
<1>3. ~ CreateDone(c) /\ ~ IndexAnswer(c)
  BY DEF CreateDone, IndexAnswer
<1>4. \A k \in Job : ~ Delete(k)
        /\ \A n \in JobName, t \in BOOLEAN : ~ Edit(k, n, t)
  BY DEF Delete, Edit
<1>5. QED
  BY <1>2, <1>3, <1>4, RowWriters

LEMMA StoredInTable ==
  ASSUME TypeOK, NEW c \in Client, DetailsStats(c), row' # row
  PROVE  web[c].job \in table
<1> DEFINE i == web[c].job
           t == reply[c].stats
           ctx == WithStats(web[c], i, t)
<1>1. web[c] \in RequestState /\ i \in Job /\ t \in Stats
  BY AnswerType DEF DetailsStats
<1>2. Submit(ctx)
  BY DEF DetailsStats, WithStats
<1>3. i \in ctx.dirty
  BY <1>1, WithStatsFields
<1> HIDE DEF ctx
<1>4. QED
  BY <1>2, <1>3 DEF Submit, Fails, Conflict

(* Details asks for the status before the statistics: when it is the one   *)
(* to store Complete, the statistics it stores with it are the final ones, *)
(* whatever the play thread does between the two questions and whatever    *)
(* other requests store meanwhile (JobController 92-109).                  *)
THEOREM DetailsFinal == Spec => DetailsStoresFinal
<1>1. TypeOK /\ DataContextInv /\ HistoryInv /\ [Next]_vars =>
        [\A c \in Client : LET j == web[c].job IN
           web[c].pc = "stats" /\ row' # row /\ web'[c].pc = "idle"
             /\ j \notin disturbed' /\ row'[j].status = "Complete"
           => row'[j].stats.final]_vars
  <2>1. SUFFICES ASSUME TypeOK, DataContextInv, HistoryInv, [Next]_vars,
                        NEW c \in Client, web[c].pc = "stats", row' # row,
                        web'[c].pc = "idle", web[c].job \notin disturbed',
                        row'[web[c].job].status = "Complete"
                 PROVE  row'[web[c].job].stats.final
    OBVIOUS
  <2>2. DetailsStats(c)
    BY <2>1, StatsStored DEF HistoryInv
  <2>3. web[c].job \in table
    BY <2>1, <2>2, StoredInTable
  <2>4. JobOK(web[c].job)
    BY <2>1, <2>3, TableUsed, DisturbedKept DEF HistoryInv
  <2>5. QED
    BY <2>1, <2>2, <2>3, <2>4, DetailsRow
<1>2. QED
  BY <1>1, TypeCorrect, ContextCorrect, HistoryCorrect, PTL
  DEF Spec, DetailsStoresFinal
----------------------------------------------------------------------------
(* JobSystem implements JobBoard: what an entry of the list shows.         *)

AddsNow(j) == \E c \in Client : Adding(c) /\ web[c].job = j

Display(j) ==
  IF j \in table THEN row[j].status
  ELSE IF jobName[j] = NoName \/ AddsNow(j) THEN "absent" ELSE "gone"

(* One step of one entry: appear, advance, leave, or stay as it is.        *)
DisplayMoves(j) ==
  \/ Display(j) = "absent" /\ Display(j)' = "Submitted"
  \/ /\ Display(j) \in Board!Shown \ {"Complete"}
     /\ Display(j)' \in Board!Shown
     /\ j \notin disturbed' => Board!NotBefore(Display(j), Display(j)')
  \/ Display(j)' = "gone"
  \/ Display(j)' = Display(j)

LEMMA ShownStatus == Board!Shown = Status
<1>1. Board!Shown = {Board!Progress[1], Board!Progress[2], Board!Progress[3],
                     Board!Progress[4], Board!Progress[5], Board!Progress[6]}
                      \cup {"orphan"}
  <2>1. \A i : i \in 1..6 <=> i \in {1, 2, 3, 4, 5, 6}
    OBVIOUS
  <2>2. QED
    BY <2>1 DEF Board!Shown
<1>2. QED
  BY <1>1 DEF Board!Progress, Status, RunStatus

(* A row that stays in the table.                                          *)
LEMMA RowDisplay ==
  ASSUME TypeOK, TypeOK', DataContextInv, HistoryInv, [Next]_vars,
         NEW j \in table \cap table'
  PROVE  DisplayMoves(j)
<1>1. /\ j \in Job /\ Display(j) = row[j].status /\ Display(j)' = row'[j].status
      /\ row[j].status \in Board!Shown /\ row'[j].status \in Board!Shown
  BY ShownStatus DEF Display, TypeOK, Row
<1>2. CASE row[j].status = "Complete"
  BY <1>1, <1>2, CompleteKept DEF DisplayMoves
<1>3. CASE row[j].status # "Complete"
  <2>1. j \notin disturbed' => JobOK(j)
    BY TableUsed, DisturbedKept DEF HistoryInv
  <2>2. j \notin disturbed' => Board!NotBefore(row[j].status, row'[j].status)
    BY <2>1, RowStep DEF RowMoves
  <2>3. QED
    BY <1>1, <1>3, <2>2 DEF DisplayMoves
<1>4. QED
  BY <1>2, <1>3

(* A row that is removed: its job was posted, and no thread will insert it *)
(* a second time.                                                          *)
LEMMA LeaveDisplay ==
  ASSUME TypeOK, DataContextInv, [Next]_vars,
         NEW j \in table, j \notin table'
  PROVE  DisplayMoves(j)
<1>1. \E k \in Job : Delete(k)
  BY RowWriters DEF CreateDone, InsertRow, IndexAnswer, DetailsStats, Submit,
     NoTableStep, Edit
<1>2. web' = web /\ jobName' = jobName
  BY <1>1 DEF Delete
<1>3. jobName[j] # NoName /\ ~ AddsNow(j)
  BY WebAssumption DEF DataContextInv, AddsNow
<1>4. jobName'[j] # NoName /\ ~ AddsNow(j)'
  BY <1>2, <1>3 DEF AddsNow, Adding
<1>5. Display(j)' = "gone"
  BY <1>4 DEF Display
<1>6. QED
  BY <1>5 DEF DisplayMoves

(* A row that is inserted.                                                 *)
LEMMA AppearDisplay ==
  ASSUME TypeOK, DataContextInv, [Next]_vars,
         NEW j \in Job \ table, j \in table'
  PROVE  DisplayMoves(j)
<1>1. PICK c \in Client : CreateDone(c)
  BY RowWriters DEF IndexAnswer, DetailsStats, Submit, NoTableStep, Edit, Delete
<1>2. j = web[c].job /\ NewRow(j)
  BY <1>1, CreateRow
<1>3. AddsNow(j)
  BY <1>1, <1>2 DEF CreateDone, AddsNow, Adding
<1>4. Display(j) = "absent" /\ Display(j)' = "Submitted"
  BY <1>2, <1>3 DEF Display, NewRow
<1>5. QED
  BY <1>4 DEF DisplayMoves

(* Only Create's AddJob call makes a thread one that will insert a row.    *)
LEMMA AddsNew ==
  ASSUME TypeOK, DataContextInv, MessageInv, [Next]_vars,
         NEW j \in Used, AddsNow(j)'
  PROVE  AddsNow(j)
<1>1. PICK c \in Client : web'[c].pc = "adding" /\ web'[c].job = j
  BY DEF AddsNow, Adding
<1>2. CASE web'[c] = web[c]
  BY <1>1, <1>2 DEF AddsNow, Adding
<1>3. CASE \E d \in Client, i \in Job, n \in JobName, p \in Params :
             CreatePost(d, i, n, p)
  <2>1. PICK d \in Client, i \in Job, n \in JobName, p \in Params :
               CreatePost(d, i, n, p)
    BY <1>3
  <2>2. CASE d = c
    <3>1. web'[c].job = i
      BY <2>1, <2>2 DEF CreatePost, Goto, TypeOK, Idle
    <3>2. QED
      BY <1>1, <2>1, <3>1 DEF CreatePost
  <2>3. CASE d # c
    BY <1>2, <2>1, <2>3 DEF CreatePost, Goto, TypeOK
  <2>4. QED
    BY <2>2, <2>3
<1>4. CASE ClientStep(c) /\ jobName' = jobName
  <2>1. WaitsFor(web'[c].pc) = "AddJob"
    BY <1>1 DEF WaitsFor
  <2>2. SendsNext(c)
    BY <1>4, <2>1, ClientTalk DEF Talk, EndsCall
  <2>3. PICK k \in Job \ Used, n \in JobName : jobName' = [jobName EXCEPT ![k] = n]
    <3>1. \A m \in Request : m.name \in JobName
      BY DEF Request, AddRequest, AskRequest
    <3>2. QED
      BY <2>1, <2>2, <3>1 DEF SendsNext
  <2>4. jobName'[k] # NoName
    BY <2>3 DEF TypeOK
  <2>5. QED
    BY <1>4, <2>3, <2>4 DEF Used
<1>5. QED
  BY <1>2, <1>3, <1>4, WebWriters, NameWriters

(* An entry without a row.                                                 *)
LEMMA AwayDisplay ==
  ASSUME TypeOK, DataContextInv, MessageInv, [Next]_vars,
         NEW j \in Job \ table, j \notin table'
  PROVE  DisplayMoves(j)
<1>1. CASE Display(j) = "absent"
  BY <1>1 DEF Display, DisplayMoves
<1>2. CASE Display(j) = "gone"
  <2>1. j \in Used /\ ~ AddsNow(j)
    BY <1>2 DEF Display, Used
  <2>2. j \in Used' /\ ~ AddsNow(j)'
    BY <2>1, UsedKept, AddsNew
  <2>3. QED
    BY <2>2 DEF Display, DisplayMoves, Used
<1>3. QED
  BY <1>1, <1>2 DEF Display

LEMMA DisplayStep ==
  ASSUME TypeOK, TypeOK', DataContextInv, HistoryInv, [Next]_vars,
         NEW j \in Job
  PROVE  DisplayMoves(j)
  BY RowDisplay, LeaveDisplay, AppearDisplay, AwayDisplay DEF HistoryInv

(* The abstract list, in terms of Display.                                 *)
LEMMA BoardStep ==
  ASSUME TypeOK, DataContextInv, HistoryInv, [Next]_vars
  PROVE  Board!BoardNext
<1>1. TypeOK'
  BY StepInv
<1>2. \A j \in Job : DisplayMoves(j)
  BY <1>1, DisplayStep
<1>3. ASSUME NEW j \in Job
      PROVE  Board!Entry(j)
  BY <1>2, <1>3
  DEF DisplayMoves, Display, AddsNow, Board!Entry, Board!Appear,
      Board!Advance, Board!Leave
<1>4. QED
  BY <1>3, DisturbedKept DEF Board!BoardNext

(* JobSystem implements JobBoard: behind the list of jobs are a server     *)
(* that answers late or not at all and is restarted, overlapping requests  *)
(* with stale copies and an update check, and yet every entry appears once *)
(* as Submitted, moves forward and never leaves Complete but by deletion.  *)
THEOREM BoardImplemented == Spec => BoardRefined
<1>1. Init => Board!BoardInit
  BY DEF Init, Board!BoardInit
<1>2. TypeOK /\ DataContextInv /\ HistoryInv /\ [Next]_vars => Board!BoardNext
  BY BoardStep
<1>3. QED
  BY <1>1, <1>2, TypeCorrect, ContextCorrect, HistoryCorrect, PTL
  DEF Spec, BoardRefined, Board!BoardSpec
=============================================================================
