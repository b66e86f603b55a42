-------------------------- MODULE JobSystem_proofs --------------------------
(***************************************************************************)
(* Proofs about JobSystem, for any number of jobs, names and request       *)
(* threads and every value of the bounds.                                  *)
(***************************************************************************)
EXTENDS JobSystem, SequenceTheorems, TLAPS

USE ServerAssumption, WebAssumption

----------------------------------------------------------------------------
(* Type correctness.                                                       *)

LEMMA SeqOfFunction ==
  ASSUME NEW S, NEW n \in Nat, NEW f \in [1..n -> S]
  PROVE  f \in Seq(S)
  OBVIOUS

LEMMA ConstantTypes ==
  /\ Unallocated \in Instance
  /\ NoStats \in Stats /\ NotFound \in Stats
  /\ NoReply \in Reply
  /\ Blank \in Row /\ Nothing \in [Job -> Row]
  /\ Idle \in RequestState
<1>1. Unallocated \in Instance
  BY DEF Instance
<1>2. NoStats \in Stats /\ NotFound \in Stats
  BY DEF NoStats, NotFound, Stats
<1>3. NoReply \in Reply
  BY <1>2 DEF NoReply, Reply, Verb, Status, RunStatus
<1>4. Blank \in Row /\ Nothing \in [Job -> Row]
  BY <1>2 DEF Blank, Nothing, Row, Status, RunStatus
<1>5. Idle \in RequestState
  BY <1>4 DEF Idle, RequestState, Context, Pc
<1>6. QED
  BY <1>1, <1>2, <1>3, <1>4, <1>5

LEMMA InitType == Init => TypeOK
  BY ConstantTypes, EmptySeq
  DEF Init, TypeOK, ServerInit, ServerTypeOK

LEMMA LambdaType ==
  ASSUME NEW p \in Params PROVE LambdaOf(p) \in Nat
  BY DEF LambdaOf
----------------------------------------------------------------------------
(* The exchange of messages.                                               *)

LEMMA SendType ==
  ASSUME TypeOK, NEW c \in Client, NEW verb, NEW n \in JobName,
         NEW j, NEW p, Send(c, verb, n, j, p),
         \/ verb = "AddJob" /\ j \in Job /\ p \in Params
         \/ verb \in Question /\ j = NoJob /\ p = NoParams
  PROVE  queue' \in Seq(Request)
<1>1. [verb |-> verb, name |-> n, job |-> j, params |-> p, from |-> c]
        \in Request
  BY DEF Request, AddRequest, AskRequest
<1>2. QED
  BY <1>1, AppendProperties DEF Send, TypeOK, ServerTypeOK

LEMMA TimedOutType ==
  ASSUME TypeOK, NEW c \in Client, TimedOut(c)
  PROVE  queue' \in Seq(Request)
<1>1. Len(queue) \in Nat /\ \A i \in 1..Len(queue) : queue[i] \in Request
  BY ElementOfSeq, LenProperties DEF TypeOK, ServerTypeOK
<1>2. \A i \in 1..Len(queue) : [queue[i] EXCEPT !.from = NoClient] \in Request
  BY <1>1 DEF Request, AddRequest, AskRequest
<1>3. queue' \in [1..Len(queue) -> Request]
  BY <1>1, <1>2 DEF TimedOut
<1>4. QED
  BY <1>1, <1>3, SeqOfFunction

LEMMA ReceivedType ==
  ASSUME TypeOK, NEW c \in Client, NEW verb, Received(c, verb)
  PROVE  reply' \in [Client -> Reply]
  BY ConstantTypes DEF Received, TypeOK, ServerTypeOK
----------------------------------------------------------------------------
(* The DataContext.                                                        *)

LEMMA SetStatusType ==
  ASSUME NEW ctx \in RequestState, NEW j \in Job, NEW s \in Status
  PROVE  SetStatus(ctx, j, s) \in RequestState
<1> DEFINE m == [ctx.mine EXCEPT ![j].status = s,
                                 ![j].ended = @ \/ s = "Complete"]
           d == IF s = "null" /\ ctx.mine[j].status = "null"
                THEN ctx.dirty ELSE ctx.dirty \cup {j}
<1>1. ctx.mine \in [Job -> Row] /\ ctx.dirty \subseteq Job
  BY DEF RequestState, Context
<1>2. (ctx.mine[j].ended \/ s = "Complete") \in BOOLEAN
  OBVIOUS
<1>3. m \in [Job -> Row]
  BY <1>1, <1>2, ZenonT(30) DEF Row
<1>4. d \subseteq Job
  BY <1>1
<1>5. SetStatus(ctx, j, s) = [ctx EXCEPT !.mine = m, !.dirty = d]
  BY <1>1 DEF SetStatus, RequestState, Context
<1> HIDE DEF m, d
<1>6. QED
  BY <1>3, <1>4, <1>5 DEF RequestState, Context

LEMMA SubmitType ==
  ASSUME TypeOK, NEW ctx \in RequestState, Submit(ctx)
  PROVE  row' \in [Job -> Row] /\ table' \subseteq Job
  BY DEF Submit, TypeOK, RequestState, Context

LEMMA AfterSubmitType ==
  ASSUME NEW ctx \in RequestState
  PROVE  AfterSubmit(ctx) \in RequestState
  BY DEF AfterSubmit, RequestState, Context

LEMMA NextJobType ==
  ASSUME NEW ctx \in RequestState, NEW j
  PROVE  NextJob(ctx, j) \in RequestState
  BY DEF NextJob, RequestState, Context, Pc

LEMMA GotoType ==
  ASSUME TypeOK, NEW c \in Client, NEW r \in RequestState, Goto(c, r)
  PROVE  web' \in [Client -> RequestState]
  BY DEF Goto, TypeOK
----------------------------------------------------------------------------
(* Type correctness of the server's steps.                                 *)

LEMMA HeadType ==
  ASSUME TypeOK, queue # <<>>
  PROVE  Msg \in Request /\ Tail(queue) \in Seq(Request)
  BY HeadTailProperties DEF Msg, TypeOK, ServerTypeOK

LEMMA ReplyToType ==
  ASSUME TypeOK, NEW c \in Client \cup {NoClient}, NEW r \in Reply,
         ReplyTo(c, r)
  PROVE  reply' \in [Client -> Reply]
  BY DEF ReplyTo, TypeOK, ServerTypeOK

LEMMA OnMessageType ==
  ASSUME TypeOK, OnMessage
  PROVE  ServerTypeOK'
<1> USE DEF TypeOK, ServerTypeOK, Accept
<1>1. CASE HandleGetStatus
  <2>1. Msg.name \in JobName /\ Msg.from \in Client \cup {NoClient}
    BY <1>1, HeadType DEF HandleGetStatus, Request, AddRequest, AskRequest
  <2>2. StatusOf(Msg.name) \in Status
    <3>1. \A j \in Job : inst[j].status \in RunStatus
      BY DEF Instance, Started, Unallocated, RunStatus
    <3>2. QED
      BY <2>1, <3>1 DEF StatusOf, Status
  <2>3. [verb |-> "GetStatus", status |-> StatusOf(Msg.name),
         stats |-> NoStats] \in Reply
    BY <2>2, ConstantTypes DEF Reply, Verb, Question
  <2>4. reply' \in [Client -> Reply]
    BY <1>1, <2>1, <2>3, ReplyToType DEF HandleGetStatus
  <2>5. QED
    BY <1>1, <2>4, HeadType DEF HandleGetStatus
<1>2. CASE HandleGetStatistics
  <2>1. Msg.name \in JobName /\ Msg.from \in Client \cup {NoClient}
    BY <1>2, HeadType DEF HandleGetStatistics, Request, AddRequest, AskRequest
  <2>2. StatisticsOf(Msg.name) \in Stats
    <3>1. \A j \in Job : inst[j] \in Started \/ inst[j] = Unallocated
      BY DEF Instance
    <3>2. \A j \in Job : inst[j].gens \in Nat
      BY <3>1 DEF Started, Unallocated
    <3>3. \A j \in Job : inst[j].final \in BOOLEAN
      <4> TAKE j \in Job
      <4>1. CASE inst[j] \in Started
        BY <4>1 DEF Started
      <4>2. CASE inst[j] = Unallocated
        <5>1. Unallocated.final = FALSE
          BY DEF Unallocated
        <5>2. QED
          BY <4>2, <5>1
      <4>3. QED
        BY <3>1, <4>1, <4>2
    <3>4. QED
      BY <2>1, <3>2, <3>3, ConstantTypes DEF StatisticsOf, Stats
  <2>3. \A text \in StatisticsRead(Msg.name) :
          [verb |-> "GetStatistics", status |-> "null", stats |-> text] \in Reply
    <3>1. Torn \in Stats
      BY DEF Torn, Stats
    <3>2. StatisticsRead(Msg.name) \subseteq Stats
      BY <2>2, <3>1 DEF StatisticsRead
    <3>3. QED
      BY <3>2 DEF Reply, Verb, Question, Status, RunStatus
  <2>4. reply' \in [Client -> Reply]
    BY <1>2, <2>1, <2>3, ReplyToType DEF HandleGetStatistics
  <2>5. QED
    BY <1>2, <2>4, HeadType DEF HandleGetStatistics
<1>3. CASE HandleAddJob
  <2>1. Msg \in AddRequest
    BY <1>3, HeadType DEF HandleAddJob, Request, AskRequest, Question
  <2>2. [Unallocated EXCEPT !.phase = "spawned", !.params = Msg.params]
          \in Instance
    BY <2>1 DEF AddRequest, Unallocated, Instance, Started, Phase, RunStatus
  <2>3. inst' \in [Job -> Instance]
    BY <1>3, <2>2 DEF HandleAddJob
  <2>4. instances' \in [JobName -> Job \cup {NoJob}]
    BY <1>3, <2>1 DEF HandleAddJob, AddRequest
  <2>5. [verb |-> "AddJob", status |-> "null", stats |-> NoStats] \in Reply
    BY ConstantTypes DEF Reply, Verb, Status, RunStatus
  <2>6. reply' \in [Client -> Reply]
    BY <1>3, <2>1, <2>5, ReplyToType DEF HandleAddJob, AddRequest
  <2>7. QED
    BY <1>3, <2>3, <2>4, <2>6, HeadType DEF HandleAddJob
<1>4. QED
  BY <1>1, <1>2, <1>3 DEF OnMessage

LEMMA PlayThreadType ==
  ASSUME TypeOK, NEW j \in Job, PlayThread(j)
  PROVE  ServerTypeOK'
<1>1. inst[j] \in Started
  BY DEF TypeOK, ServerTypeOK, Instance, Unallocated, PlayThread, At, Boot,
     Initialize, InitializeThrows, Iterate, IterateThrows,
     PostEvaluationStatistics, Finish, FinalStatistics, SetComplete
<1>2. PICK i \in Started : Become(j, i)
  <2> USE <1>1 DEF Started, Phase, RunStatus
  <2>1. CASE Boot(j)
    BY <2>1 DEF Boot
  <2>2. CASE Initialize(j) \/ InitializeThrows(j)
    BY <2>2 DEF Initialize, InitializeThrows
  <2>3. CASE Iterate(j)
    <3>1. inst[j].eval + LambdaOf(inst[j].params) \in Nat
          /\ inst[j].iter + 1 \in Nat
      BY LambdaType
    <3>2. [inst[j] EXCEPT !.phase = "sampled", !.iter = @ + 1,
                          !.eval = @ + LambdaOf(inst[j].params)] \in Started
      BY <3>1
    <3>3. QED
      BY <2>3, <3>2 DEF Iterate
  <2>4. CASE IterateThrows(j)
    BY <2>4 DEF IterateThrows
  <2>5. CASE PostEvaluationStatistics(j)
    <3>1. inst[j].gens + 1 \in Nat
      OBVIOUS
    <3>2. [inst[j] EXCEPT !.phase = "loop", !.gens = @ + 1] \in Started
      BY <3>1
    <3>3. QED
      BY <2>5, <3>2 DEF PostEvaluationStatistics
  <2>6. CASE Finish(j)
    <3>1. inst[j].eval + 1 \in Nat
      OBVIOUS
    <3>2. [inst[j] EXCEPT !.phase = "finish", !.status = "Finishing",
                          !.eval = @ + 1] \in Started
      BY <3>1
    <3>3. QED
      BY <2>6, <3>2 DEF Finish
  <2>7. CASE FinalStatistics(j) \/ SetComplete(j)
    BY <2>7 DEF FinalStatistics, SetComplete
  <2>8. QED
    BY <2>1, <2>2, <2>3, <2>4, <2>5, <2>6, <2>7 DEF PlayThread
<1>3. QED
  BY <1>2 DEF Become, TypeOK, ServerTypeOK, Instance
----------------------------------------------------------------------------
(* Type correctness of the web application's steps.                        *)

LEMMA CreateType ==
  ASSUME TypeOK, NEW c \in Client,
         \/ \E j \in Job, n \in JobName, p \in Params : CreatePost(c, j, n, p)
         \/ CreateDone(c) \/ CreateThrows(c)
  PROVE  TypeOK'
<1> USE DEF TypeOK, ServerTypeOK, NoServerStep, NoTableStep
<1>1. CASE \E j \in Job, n \in JobName, p \in Params : CreatePost(c, j, n, p)
  <2>1. PICK j \in Job, n \in JobName, p \in Params : CreatePost(c, j, n, p)
    BY <1>1
  <2>2. queue' \in Seq(Request)
    BY <2>1, SendType DEF CreatePost
  <2>3. [Idle EXCEPT !.pc = "adding", !.job = j] \in RequestState
    BY ConstantTypes DEF RequestState, Context, Pc
  <2>4. web' \in [Client -> RequestState]
    BY <2>1, <2>3, GotoType DEF CreatePost
  <2>5. disturbed' \subseteq Job
    BY <2>1 DEF CreatePost, Used
  <2>6. pages' \in Nat
    <3>1. pages' = pages + 1
      BY <2>1 DEF CreatePost, NewPage
    <3>2. QED
      BY <3>1
  <2>7. jobName' \in [Job -> JobName \cup {NoName}]
    BY <2>1 DEF CreatePost
  <2>8. QED
    BY <2>1, <2>2, <2>4, <2>5, <2>6, <2>7 DEF CreatePost
<1>2. CASE CreateDone(c)
  <2>1. queue' \in Seq(Request) /\ reply' \in [Client -> Reply]
    BY <1>2, TimedOutType, ReceivedType DEF CreateDone
  <2>2. row' \in [Job -> Row] /\ table' \subseteq Job
    <3>1. web[c].job \in Job => jobName[web[c].job] \in JobName \cup {NoName}
      OBVIOUS
    <3>2. web[c].job \in Job =>
            [Blank EXCEPT !.name = jobName[web[c].job], !.status = "Submitted"]
              \in Row
      BY <3>1, ConstantTypes DEF Row, Status
    <3>3. web[c].job \in Job
      BY <1>2 DEF CreateDone, RequestState
    <3>4. QED
      BY <1>2, <3>2, <3>3 DEF CreateDone, InsertRow
  <2>3. web' \in [Client -> RequestState]
    BY <1>2, ConstantTypes, GotoType DEF CreateDone, InsertRow
  <2>4. QED
    BY <1>2, <2>1, <2>2, <2>3 DEF CreateDone
<1>3. CASE CreateThrows(c)
  BY <1>3, ConstantTypes, GotoType DEF CreateThrows, serverVars
<1>4. QED
  BY <1>1, <1>2, <1>3

LEMMA AnswerType ==
  ASSUME TypeOK, NEW c \in Client
  PROVE  /\ reply[c].status \in Status /\ reply[c].stats \in Stats
         /\ web[c] \in RequestState
         /\ web[c].pc \notin {"idle", "listing"} => web[c].job \in Job
  BY DEF TypeOK, ServerTypeOK, Reply, RequestState

LEMMA IndexType ==
  ASSUME TypeOK, DataContextInv, NEW c \in Client,
         \/ IndexOpen(c) \/ (\E j \in Job : IndexAsk(c, j))
         \/ IndexAnswer(c) \/ IndexNoAnswer(c) \/ IndexDone(c)
  PROVE  TypeOK'
<1> USE DEF NoServerStep, NoTableStep
<1>1. CASE IndexOpen(c)
  <2> DEFINE r == [Idle EXCEPT !.pc = "listing", !.orig = row, !.mine = row,
                               !.todo = {k \in table : Polled(row[k])}]
  <2>1. {k \in table : Polled(row[k])} \subseteq Job
    BY DEF TypeOK
  <2>2. r \in RequestState
    BY <2>1, ConstantTypes DEF TypeOK, RequestState, Context, Pc
  <2>3. web' \in [Client -> RequestState]
    BY <1>1, <2>2, GotoType DEF IndexOpen
  <2>4. pages' \in Nat
    <3>1. pages' = pages + 1
      BY <1>1 DEF IndexOpen, NewPage
    <3>2. QED
      BY <3>1 DEF TypeOK
  <2>5. QED
    BY <1>1, <2>3, <2>4 DEF IndexOpen, TypeOK, ServerTypeOK, serverVars
<1>2. CASE \E j \in Job : IndexAsk(c, j)
  <2>1. PICK j \in Job : IndexAsk(c, j)
    BY <1>2
  <2>2. [web[c] EXCEPT !.pc = "polling", !.job = j] \in RequestState
    BY ZenonT(30) DEF TypeOK, RequestState, Context, Pc
  <2>3. web' \in [Client -> RequestState]
    BY <2>1, <2>2, GotoType DEF IndexAsk
  <2>4. queue' \in Seq(Request)
    <3>1. web[c].mine[j].name \in JobName
      BY <2>1 DEF IndexAsk, DataContextInv, ContextOK, Open
    <3>2. QED
      BY <2>1, <3>1, SendType DEF IndexAsk, Question
  <2>5. QED
    BY <2>1, <2>3, <2>4 DEF IndexAsk, TypeOK, ServerTypeOK
<1>3. CASE IndexAnswer(c)
  <2> DEFINE ctx == SetStatus(web[c], web[c].job, reply[c].status)
  <2>1. ctx \in RequestState
    BY <1>3, AnswerType, SetStatusType DEF IndexAnswer
  <2> HIDE DEF ctx
  <2>2. /\ NextJob(ctx, web[c].job) \in RequestState
        /\ NextJob(AfterSubmit(ctx), web[c].job) \in RequestState
    BY <2>1, NextJobType, AfterSubmitType
  <2>3. web' \in [Client -> RequestState]
    BY <1>3, <2>2, GotoType DEF IndexAnswer, ctx
  <2>4. row' \in [Job -> Row] /\ table' \subseteq Job
    BY <1>3, <2>1, SubmitType DEF IndexAnswer, ctx, TypeOK
  <2>5. reply' \in [Client -> Reply]
    BY <1>3, ReceivedType DEF IndexAnswer
  <2>6. QED
    BY <1>3, <2>3, <2>4, <2>5 DEF IndexAnswer, TypeOK, ServerTypeOK
<1>4. CASE IndexNoAnswer(c)
  <2>1. \A j : NextJob(web[c], j) \in RequestState
    BY NextJobType, AnswerType
  <2>2. web' \in [Client -> RequestState]
    BY <1>4, <2>1, GotoType DEF IndexNoAnswer
  <2>3. queue' \in Seq(Request)
    BY <1>4, TimedOutType DEF IndexNoAnswer, TypeOK, ServerTypeOK
  <2>4. QED
    BY <1>4, <2>2, <2>3 DEF IndexNoAnswer, TypeOK, ServerTypeOK
<1>5. CASE IndexDone(c)
  BY <1>5, ConstantTypes, GotoType
  DEF IndexDone, TypeOK, ServerTypeOK, serverVars
<1>6. QED
  BY <1>1, <1>2, <1>3, <1>4, <1>5

LEMMA DetailsType ==
  ASSUME TypeOK, DataContextInv, NEW c \in Client,
         \/ \E j \in Job : DetailsOpen(c, j)
         \/ DetailsStatus(c) \/ DetailsAsk(c) \/ DetailsStats(c)
         \/ DetailsThrows(c)
  PROVE  TypeOK'
<1> USE DEF NoServerStep, NoTableStep
<1>1. CASE \E j \in Job : DetailsOpen(c, j)
  <2>1. PICK j \in Job : DetailsOpen(c, j)
    BY <1>1
  <2> DEFINE mine == [Nothing EXCEPT ![j] = row[j]]
             r == [Idle EXCEPT !.pc = "status", !.job = j, !.orig = mine,
                               !.mine = mine]
  <2>2. mine \in [Job -> Row]
    BY ConstantTypes DEF TypeOK
  <2> HIDE DEF mine
  <2>3. r \in RequestState
    BY <2>2, ConstantTypes DEF RequestState, Context, Pc
  <2>4. web' \in [Client -> RequestState]
    BY <2>1, <2>3, GotoType DEF DetailsOpen, mine
  <2>5. queue' \in Seq(Request)
    <3>1. row[j].name \in JobName
      BY <2>1 DEF DetailsOpen, DataContextInv
    <3>2. QED
      BY <2>1, <3>1, SendType DEF DetailsOpen, Question
  <2>6. pages' \in Nat
    <3>1. pages' = pages + 1
      BY <2>1 DEF DetailsOpen, NewPage
    <3>2. QED
      BY <3>1 DEF TypeOK
  <2>7. QED
    BY <2>1, <2>4, <2>5, <2>6 DEF DetailsOpen, TypeOK, ServerTypeOK
<1>2. CASE DetailsStatus(c)
  <2> DEFINE ctx == SetStatus(web[c], web[c].job, reply[c].status)
  <2>1. web[c].job \in Job /\ ctx \in RequestState
    BY <1>2, AnswerType, SetStatusType DEF DetailsStatus
  <2>2. ctx.job = web[c].job
    BY <2>1, AnswerType DEF SetStatus, RequestState, Context
  <2> HIDE DEF ctx
  <2>3. [ctx EXCEPT !.pc = "asking"] \in RequestState
    BY <2>1, <2>2 DEF RequestState, Context, Pc
  <2>4. web' \in [Client -> RequestState]
    BY <1>2, <2>3, ConstantTypes, GotoType DEF DetailsStatus, ctx
  <2>5. reply' \in [Client -> Reply]
    BY <1>2, ReceivedType DEF DetailsStatus
  <2>6. QED
    BY <1>2, <2>4, <2>5 DEF DetailsStatus, TypeOK, ServerTypeOK
<1>3. CASE DetailsAsk(c)
  <2>1. web[c].mine[web[c].job].name \in JobName
    BY <1>3 DEF DetailsAsk, DataContextInv, ContextOK
  <2>2. queue' \in Seq(Request)
    BY <1>3, <2>1, SendType DEF DetailsAsk, Question
  <2>3. [web[c] EXCEPT !.pc = "stats"] \in RequestState
    BY <1>3, AnswerType DEF DetailsAsk, RequestState, Context, Pc
  <2>4. web' \in [Client -> RequestState]
    BY <1>3, <2>3, GotoType DEF DetailsAsk
  <2>5. QED
    BY <1>3, <2>2, <2>4 DEF DetailsAsk, TypeOK, ServerTypeOK
<1>4. CASE DetailsStats(c)
  <2> DEFINE j == web[c].job
             m == [web[c].mine EXCEPT ![j].stats = reply[c].stats]
             ctx == [web[c] EXCEPT !.mine = m, !.dirty = @ \cup {j}]
  <2>1. j \in Job /\ web[c] \in RequestState
    BY <1>4, AnswerType DEF DetailsStats
  <2>2. m \in [Job -> Row]
    BY <2>1, AnswerType DEF RequestState, Context, Row
  <2>3. ctx = [web[c] EXCEPT !.mine[j].stats = reply[c].stats,
                             !.dirty = @ \cup {j}]
    BY <2>1 DEF RequestState, Context
  <2> HIDE DEF m
  <2>4. ctx \in RequestState
    BY <2>1, <2>2 DEF RequestState, Context
  <2>5. Submit(ctx)
    BY <1>4, <2>3 DEF DetailsStats
  <2> HIDE DEF ctx
  <2>6. row' \in [Job -> Row] /\ table' \subseteq Job
    BY <2>4, <2>5, SubmitType
  <2>7. web' \in [Client -> RequestState] /\ reply' \in [Client -> Reply]
    BY <1>4, ConstantTypes, GotoType, ReceivedType DEF DetailsStats
  <2>8. QED
    BY <1>4, <2>6, <2>7 DEF DetailsStats, TypeOK, ServerTypeOK
<1>5. CASE DetailsThrows(c)
  <2>1. queue' \in Seq(Request)
    BY <1>5, TimedOutType DEF DetailsThrows, TypeOK, ServerTypeOK
  <2>2. web' \in [Client -> RequestState]
    BY <1>5, ConstantTypes, GotoType DEF DetailsThrows
  <2>3. QED
    BY <1>5, <2>1, <2>2 DEF DetailsThrows, TypeOK, ServerTypeOK
<1>6. QED
  BY <1>1, <1>2, <1>3, <1>4, <1>5

LEMMA EditDeleteType ==
  ASSUME TypeOK, NEW j \in Job,
         \/ \E n \in JobName, t \in BOOLEAN : Edit(j, n, t)
         \/ Delete(j)
  PROVE  TypeOK'
<1>1. pages' \in Nat
  <2>1. pages' = pages + 1
    BY DEF Edit, Delete, NewPage
  <2>2. QED
    BY <2>1 DEF TypeOK
<1>2. CASE \E n \in JobName, t \in BOOLEAN : Edit(j, n, t)
  <2>1. PICK n \in JobName, t \in BOOLEAN : Edit(j, n, t)
    BY <1>2
  <2>2. row' \in [Job -> Row]
    BY <2>1, ZenonT(30) DEF Edit, TypeOK, Row
  <2>3. QED
    BY <1>1, <2>1, <2>2 DEF Edit, TypeOK, ServerTypeOK, serverVars
<1>3. CASE Delete(j)
  BY <1>1, <1>3, ConstantTypes DEF Delete, TypeOK, ServerTypeOK, serverVars
<1>4. QED
  BY <1>2, <1>3

LEMMA ServerType ==
  ASSUME TypeOK, ServerStep \/ ServerCrash \/ ServerStart
  PROVE  TypeOK'
<1>1. CASE ServerStep
  BY <1>1, OnMessageType, PlayThreadType DEF ServerStep, webVars, TypeOK
<1>2. CASE ServerCrash
  BY <1>2, ConstantTypes, EmptySeq
  DEF ServerCrash, Crash, TypeOK, ServerTypeOK, Used
<1>3. CASE ServerStart
  <2>1. restarts' = restarts + 1
    BY <1>3 DEF ServerStart, Start
  <2>2. QED
    BY <1>3, <2>1 DEF ServerStart, Start, webVars, TypeOK, ServerTypeOK
<1>4. QED
  BY <1>1, <1>2, <1>3
----------------------------------------------------------------------------
(* The DataContext invariant: what the operations of one request do to it. *)

LEMMA InitContext == Init => DataContextInv
  BY DEF Init, DataContextInv, ContextOK, Adding, InStep, Nothing, Blank, Idle

LEMMA FreshContext ==
  ASSUME NEW j \in Job
  PROVE  ContextOK(Idle) /\ ContextOK([Idle EXCEPT !.pc = "adding", !.job = j])
  BY DEF ContextOK, Idle, Nothing, Blank, InStep

(* After a status has been set, only the job itself may no longer be open. *)
LEMMA SetStatusContext ==
  ASSUME NEW ctx \in RequestState, NEW j \in Job, NEW s \in Status,
         ContextOK(ctx), Open(ctx, j),
         NEW r, r = SetStatus(ctx, j, s)
  PROVE  /\ r.pc = ctx.pc /\ r.job = ctx.job /\ r.todo = ctx.todo
         /\ r.orig = ctx.orig
         /\ \A k \in Job : r.mine[k].name = ctx.mine[k].name
         /\ \A k \in Job : InStep(r.orig[k]) /\ InStep(r.mine[k])
         /\ \A k \in ctx.todo \ {j} : Open(r, k)
         /\ \A k \in r.dirty :
              r.orig[k].status # "Complete" /\ r.mine[k].name \in JobName
<1>1. /\ ctx.mine \in [Job -> Row] /\ ctx.dirty \subseteq Job
      /\ ctx.todo \subseteq Job
  BY DEF RequestState, Context
<1>2. /\ r.pc = ctx.pc /\ r.job = ctx.job /\ r.todo = ctx.todo
      /\ r.orig = ctx.orig /\ r.dirty \subseteq ctx.dirty \cup {j}
      /\ r.mine = [ctx.mine EXCEPT ![j].status = s,
                                   ![j].ended = @ \/ s = "Complete"]
  BY <1>1 DEF SetStatus, RequestState, Context
<1>3. \A k \in Job \ {j} : r.mine[k] = ctx.mine[k]
  BY <1>1, <1>2
<1>4. /\ r.mine[j].status = s
      /\ r.mine[j].name = ctx.mine[j].name
      /\ r.mine[j].ended = (ctx.mine[j].ended \/ s = "Complete")
  BY <1>1, <1>2 DEF Row
<1>5. ~ctx.mine[j].ended
  BY <1>1 DEF ContextOK, Open, InStep, Row
<1>6. InStep(r.mine[j])
  BY <1>4, <1>5 DEF InStep
<1>7. QED
  BY <1>1, <1>2, <1>3, <1>4, <1>6 DEF ContextOK, Open

(* Going on with the next job, with or without a SubmitChanges.            *)
LEMMA NextJobContext ==
  ASSUME NEW r \in RequestState, NEW j \in Job,
         \A k \in Job : InStep(r.orig[k]) /\ InStep(r.mine[k]),
         \A k \in r.todo \ {j} : Open(r, k),
         \A k \in r.dirty :
           r.orig[k].status # "Complete" /\ r.mine[k].name \in JobName
  PROVE  /\ ContextOK(NextJob(r, j))
         /\ ContextOK(NextJob(AfterSubmit(r), j))
<1>1. ContextOK(NextJob(r, j))
  BY DEF ContextOK, Open, NextJob, RequestState, Context
<1>2. CASE Fails(r)
  BY <1>1, <1>2 DEF AfterSubmit
<1>3. CASE ~Fails(r)
  <2> DEFINE q == [r EXCEPT !.orig = r.mine, !.dirty = {}]
  <2>1. q = AfterSubmit(r)
    BY <1>3 DEF AfterSubmit
  <2>2. /\ q.orig = r.mine /\ q.mine = r.mine /\ q.dirty = {}
        /\ q.todo = r.todo /\ q \in RequestState
    BY DEF RequestState, Context
  <2> HIDE DEF q
  <2>3. ContextOK(NextJob(q, j))
    BY <2>2 DEF ContextOK, Open, NextJob, RequestState, Context
  <2>4. QED
    BY <1>1, <2>1, <2>3
<1>4. QED
  BY <1>2, <1>3

(* What SubmitChanges writes.                                              *)
LEMMA SubmitRows ==
  ASSUME DataContextInv, NEW ctx, Submit(ctx),
         \A k \in Job : InStep(ctx.mine[k]),
         \A k \in ctx.dirty : ctx.mine[k].name \in JobName
  PROVE  /\ table' = table
         /\ \A k \in Job : InStep(row'[k])
         /\ \A k \in table : k \in Job => row'[k].name \in JobName
  BY DEF Submit, DataContextInv

(* A step that changes one thread's context and starts no Create.          *)
LEMMA ContextStep ==
  ASSUME TypeOK, DataContextInv, NEW c \in Client, NEW r,
         Goto(c, r), ContextOK(r), r.pc # "adding",
         jobName' = jobName, table' = table,
         \A k \in Job : InStep(row'[k]),
         \A k \in table : row'[k].name \in JobName
  PROVE  DataContextInv'
<1>1. \A d \in Client : web'[d] = IF d = c THEN r ELSE web[d]
  BY DEF Goto, TypeOK
<1>2. \A d \in Client : Adding(d)' => Adding(d) /\ web'[d] = web[d]
  BY <1>1 DEF Adding
<1>3. \A d \in Client : ContextOK(web'[d])
  BY <1>1 DEF DataContextInv
<1>4. QED
  BY <1>2, <1>3 DEF DataContextInv, ContextOK, Open, InStep

----------------------------------------------------------------------------
(* The DataContext invariant: one lemma per page.                          *)

LEMMA CreateContext ==
  ASSUME TypeOK, DataContextInv, NEW c \in Client,
         \/ \E j \in Job, n \in JobName, p \in Params : CreatePost(c, j, n, p)
         \/ CreateDone(c) \/ CreateThrows(c)
  PROVE  DataContextInv'
<1>1. CASE \E j \in Job, n \in JobName, p \in Params : CreatePost(c, j, n, p)
  <2>1. PICK j \in Job, n \in JobName, p \in Params : CreatePost(c, j, n, p)
    BY <1>1
  <2> DEFINE r == [Idle EXCEPT !.pc = "adding", !.job = j]
  <2>2. /\ web' = [web EXCEPT ![c] = r] /\ jobName' = [jobName EXCEPT ![j] = n]
        /\ jobName[j] = NoName /\ table' = table /\ row' = row
    BY <2>1 DEF CreatePost, Goto, NoTableStep, Used
  <2>3. /\ \A d \in Client : web'[d] = IF d = c THEN r ELSE web[d]
        /\ \A k \in Job : jobName'[k] = IF k = j THEN n ELSE jobName[k]
    BY <2>2 DEF TypeOK
  <2>4. ContextOK(r) /\ r.pc = "adding" /\ r.job = j
    BY FreshContext DEF Idle
  <2>5. j \notin table /\ \A d \in Client : Adding(d) => web[d].job # j
    BY <2>2 DEF DataContextInv
  <2>6. table \subseteq Job /\ \A d \in Client : Adding(d) => web[d].job \in Job
    BY DEF TypeOK, RequestState, Adding
  <2> HIDE DEF r
  <2>7. \A d \in Client : ContextOK(web'[d])
    BY <2>3, <2>4 DEF DataContextInv
  <2>8. \A d \in Client : Adding(d)' =>
          IF d = c THEN web'[d].job = j
          ELSE Adding(d) /\ web'[d].job = web[d].job
    BY <2>3, <2>4 DEF Adding
  <2>9. \A d \in Client : Adding(d)' =>
          /\ jobName'[web'[d].job] \in JobName /\ web'[d].job \notin table
          /\ \A e \in Client \ {d} : Adding(e)' => web'[e].job # web'[d].job
    BY <2>3, <2>5, <2>6, <2>8 DEF DataContextInv
  <2>10. \A k \in table : jobName'[k] \in JobName
    BY <2>3, <2>6 DEF DataContextInv
  <2>11. QED
    BY <2>2, <2>7, <2>9, <2>10
    DEF DataContextInv, ContextOK, Open, InStep
<1>2. CASE CreateDone(c)
  <2> DEFINE j == web[c].job
             new == [Blank EXCEPT !.name = jobName[j], !.status = "Submitted"]
  <2>1. /\ table' = table \cup {j} /\ row' = [row EXCEPT ![j] = new]
        /\ web' = [web EXCEPT ![c] = Idle] /\ jobName' = jobName
        /\ Adding(c)
    BY <1>2 DEF CreateDone, InsertRow, Goto, Adding
  <2>2. j \in Job /\ jobName[j] \in JobName
    BY <2>1 DEF TypeOK, RequestState, Adding, DataContextInv
  <2>3. \A k \in Job : row'[k] = IF k = j THEN new ELSE row[k]
    BY <2>1, <2>2 DEF TypeOK
  <2>4. InStep(new) /\ new.name = jobName[j]
    BY DEF InStep, Blank
  <2>5. \A d \in Client : web'[d] = IF d = c THEN Idle ELSE web[d]
    BY <2>1 DEF TypeOK
  <2>6. \A d \in Client : Adding(d)' =>
          d # c /\ Adding(d) /\ web'[d] = web[d] /\ web[d].job # j
    BY <2>1, <2>5 DEF Adding, Idle, DataContextInv
  <2>7. \A d \in Client : ContextOK(web'[d])
    BY <2>2, <2>5, FreshContext DEF DataContextInv
  <2>8. table \subseteq Job
    BY DEF TypeOK
  <2> HIDE DEF new
  <2>9. \A k \in Job : InStep(row'[k])
    BY <2>3, <2>4 DEF DataContextInv
  <2>10. \A k \in table' : {row'[k].name, jobName'[k]} \subseteq JobName
    BY <2>1, <2>2, <2>3, <2>4, <2>8 DEF DataContextInv
  <2>11. \A d \in Client : Adding(d)' =>
          /\ jobName'[web'[d].job] \in JobName /\ web'[d].job \notin table'
          /\ \A e \in Client \ {d} : Adding(e)' => web'[e].job # web'[d].job
    BY <2>1, <2>6 DEF DataContextInv
  <2>12. QED
    BY <2>7, <2>9, <2>10, <2>11
    DEF DataContextInv, ContextOK, Open, InStep
<1>3. CASE CreateThrows(c)
  <2>1. Goto(c, Idle) /\ jobName' = jobName /\ table' = table /\ row' = row
    BY <1>3 DEF CreateThrows, NoTableStep
  <2>2. Idle.pc # "adding"
    BY DEF Idle
  <2>3. \E j \in Job : TRUE
    BY <1>3 DEF CreateThrows, TypeOK, RequestState
  <2>4. ContextOK(Idle)
    BY <2>3, FreshContext
  <2>5. QED
    BY <2>1, <2>2, <2>4, ContextStep DEF DataContextInv
<1>4. QED
  BY <1>1, <1>2, <1>3

LEMMA IdleStep ==
  ASSUME TypeOK, DataContextInv, NEW c \in Client, Goto(c, Idle),
         jobName' = jobName, table' = table,
         \A k \in Job : InStep(row'[k]),
         \A k \in table : row'[k].name \in JobName
  PROVE  DataContextInv'
<1>1. Idle.pc # "adding" /\ ContextOK(Idle)
  BY DEF Idle, ContextOK, Nothing, Blank, InStep
<1>2. QED
  BY <1>1, ContextStep

LEMMA IndexContext ==
  ASSUME TypeOK, DataContextInv, NEW c \in Client,
         \/ IndexOpen(c) \/ (\E j \in Job : IndexAsk(c, j))
         \/ IndexAnswer(c) \/ IndexNoAnswer(c) \/ IndexDone(c)
  PROVE  DataContextInv'
<1> USE DEF NoTableStep
<1>1. web[c] \in RequestState /\ ContextOK(web[c])
  BY AnswerType DEF DataContextInv
<1>2. /\ \A k \in Job : InStep(row[k])
      /\ \A k \in table : row[k].name \in JobName
  BY DEF DataContextInv
<1>3. CASE IndexOpen(c)
  <2> DEFINE r == [Idle EXCEPT !.pc = "listing", !.orig = row, !.mine = row,
                               !.todo = {k \in table : Polled(row[k])}]
  <2>1. r.pc = "listing" /\ r.orig = row /\ r.mine = row /\ r.dirty = {}
        /\ r.todo = {k \in table : Polled(row[k])}
    BY DEF Idle
  <2>2. Goto(c, r) /\ jobName' = jobName /\ table' = table /\ row' = row
    BY <1>3 DEF IndexOpen
  <2> HIDE DEF r
  <2>3. ContextOK(r)
    BY <1>2, <2>1 DEF ContextOK, Open, Polled
  <2>4. QED
    BY <1>2, <2>1, <2>2, <2>3, ContextStep
<1>4. CASE \E j \in Job : IndexAsk(c, j)
  <2>1. PICK j \in Job : IndexAsk(c, j)
    BY <1>4
  <2> DEFINE r == [web[c] EXCEPT !.pc = "polling", !.job = j]
  <2>2. /\ Goto(c, r) /\ jobName' = jobName /\ table' = table /\ row' = row
        /\ j \in web[c].todo
    BY <2>1 DEF IndexAsk
  <2>3. /\ r.pc = "polling" /\ r.job = j /\ r.orig = web[c].orig
        /\ r.mine = web[c].mine /\ r.todo = web[c].todo
        /\ r.dirty = web[c].dirty
    BY <1>1 DEF RequestState, Context
  <2> HIDE DEF r
  <2>4. ContextOK(r)
    BY <1>1, <2>2, <2>3 DEF ContextOK, Open
  <2>5. QED
    BY <1>2, <2>2, <2>3, <2>4, ContextStep
<1>5. CASE IndexAnswer(c)
  <2> DEFINE j == web[c].job
             ctx == SetStatus(web[c], j, reply[c].status)
             r == NextJob(ctx, j)
             q == NextJob(AfterSubmit(ctx), j)
  <2>1. j \in Job /\ reply[c].status \in Status /\ Open(web[c], j)
    BY <1>1, <1>5, AnswerType DEF IndexAnswer, ContextOK
  <2>2. ctx \in RequestState
    BY <1>1, <2>1, SetStatusType
  <2>3. /\ ctx.pc = web[c].pc /\ ctx.job = web[c].job
        /\ ctx.todo = web[c].todo /\ ctx.orig = web[c].orig
        /\ \A k \in Job : InStep(ctx.orig[k]) /\ InStep(ctx.mine[k])
        /\ \A k \in web[c].todo \ {j} : Open(ctx, k)
        /\ \A k \in ctx.dirty :
             ctx.orig[k].status # "Complete" /\ ctx.mine[k].name \in JobName
    BY <1>1, <2>1, SetStatusContext
  <2>4. /\ jobName' = jobName
        /\ \/ Goto(c, r) /\ table' = table /\ row' = row
           \/ Goto(c, q) /\ Submit(ctx)
    BY <1>5 DEF IndexAnswer
  <2> HIDE DEF ctx
  <2>5. ContextOK(r) /\ ContextOK(q)
    BY <2>1, <2>2, <2>3, NextJobContext
  <2>6. r.pc = "listing" /\ q.pc = "listing"
    BY <2>2, AfterSubmitType DEF NextJob, RequestState, Context
  <2> HIDE DEF r, q
  <2>7. CASE Goto(c, r) /\ table' = table /\ row' = row
    BY <1>2, <2>4, <2>5, <2>6, <2>7, ContextStep
  <2>8. CASE Goto(c, q) /\ Submit(ctx)
    <3>1. /\ table' = table /\ \A k \in Job : InStep(row'[k])
          /\ \A k \in table : row'[k].name \in JobName
      BY <2>3, <2>8, SubmitRows DEF TypeOK
    <3>2. QED
      BY <2>4, <2>5, <2>6, <2>8, <3>1, ContextStep
  <2>9. QED
    BY <2>4, <2>7, <2>8
<1>6. CASE IndexNoAnswer(c)
  <2>1. PICK j : /\ Goto(c, NextJob(web[c], j)) /\ j \in Job
                 /\ jobName' = jobName /\ table' = table /\ row' = row
    BY <1>1, <1>6, AnswerType DEF IndexNoAnswer, RequestState, Context
  <2>2. ContextOK(NextJob(web[c], j)) /\ NextJob(web[c], j).pc = "listing"
    BY <1>1, <2>1 DEF NextJob, RequestState, Context, ContextOK, Open
  <2>3. QED
    BY <1>2, <2>1, <2>2, ContextStep
<1>7. CASE IndexDone(c)
  BY <1>2, <1>7, IdleStep DEF IndexDone
<1>8. QED
  BY <1>3, <1>4, <1>5, <1>6, <1>7

LEMMA DetailsContext ==
  ASSUME TypeOK, DataContextInv, NEW c \in Client,
         \/ \E j \in Job : DetailsOpen(c, j)
         \/ DetailsStatus(c) \/ DetailsAsk(c) \/ DetailsStats(c)
         \/ DetailsThrows(c)
  PROVE  DataContextInv'
<1> USE DEF NoTableStep
<1>1. /\ web[c] \in RequestState /\ ContextOK(web[c])
      /\ web[c].pc \notin {"idle", "listing"} => web[c].job \in Job
  BY AnswerType DEF DataContextInv
<1>2. /\ \A k \in Job : InStep(row[k])
      /\ \A k \in table : row[k].name \in JobName
  BY DEF DataContextInv
<1>3. CASE \E j \in Job : DetailsOpen(c, j)
  <2>1. PICK j \in Job : DetailsOpen(c, j)
    BY <1>3
  <2> DEFINE mine == [Nothing EXCEPT ![j] = row[j]]
             r == [Idle EXCEPT !.pc = "status", !.job = j, !.orig = mine,
                               !.mine = mine]
  <2>2. /\ Goto(c, r) /\ jobName' = jobName /\ table' = table /\ row' = row
        /\ j \in table /\ row[j].status # "Complete"
    BY <2>1 DEF DetailsOpen
  <2>3. \A k \in Job : mine[k] = IF k = j THEN row[j] ELSE Blank
    BY DEF Nothing
  <2> HIDE DEF mine
  <2>4. /\ r.pc = "status" /\ r.job = j /\ r.orig = mine /\ r.mine = mine
        /\ r.todo = {} /\ r.dirty = {}
    BY DEF Idle
  <2> HIDE DEF r
  <2>5. InStep(Blank)
    BY DEF InStep, Blank
  <2>6. ContextOK(r)
    BY <1>2, <2>2, <2>3, <2>4, <2>5 DEF ContextOK, Open
  <2>7. QED
    BY <1>2, <2>2, <2>4, <2>6, ContextStep
<1>4. CASE DetailsStatus(c)
  <2> DEFINE j == web[c].job
             ctx == SetStatus(web[c], j, reply[c].status)
             r == [ctx EXCEPT !.pc = "asking"]
  <2>1. /\ web[c].pc = "status"
        /\ Goto(c, IF reply[c].status = "null" THEN Idle ELSE r)
        /\ jobName' = jobName /\ table' = table /\ row' = row
    BY <1>4 DEF DetailsStatus
  <2>2. j \in Job /\ reply[c].status \in Status /\ Open(web[c], j)
        /\ web[c].todo = {}
    BY <1>1, <2>1, AnswerType DEF ContextOK
  <2>3. ctx \in RequestState
    BY <1>1, <2>2, SetStatusType
  <2>4. /\ ctx.job = j /\ ctx.todo = web[c].todo /\ ctx.orig = web[c].orig
        /\ \A k \in Job : ctx.mine[k].name = web[c].mine[k].name
        /\ \A k \in Job : InStep(ctx.orig[k]) /\ InStep(ctx.mine[k])
        /\ \A k \in ctx.dirty :
             ctx.orig[k].status # "Complete" /\ ctx.mine[k].name \in JobName
    BY <1>1, <2>2, SetStatusContext
  <2> HIDE DEF ctx
  <2>5. /\ r.pc = "asking" /\ r.job = j /\ r.todo = web[c].todo
        /\ r.orig = web[c].orig /\ r.mine = ctx.mine /\ r.dirty = ctx.dirty
    BY <2>3, <2>4 DEF RequestState, Context
  <2> HIDE DEF r
  <2>6. ContextOK(r)
    BY <1>1, <2>2, <2>4, <2>5 DEF ContextOK, Open
  <2>7. QED
    BY <1>2, <2>1, <2>5, <2>6, ContextStep, IdleStep
<1>5. CASE DetailsAsk(c)
  <2> DEFINE r == [web[c] EXCEPT !.pc = "stats"]
  <2>1. /\ web[c].pc = "asking" /\ Goto(c, r)
        /\ jobName' = jobName /\ table' = table /\ row' = row
    BY <1>5 DEF DetailsAsk
  <2>2. /\ r.pc = "stats" /\ r.job = web[c].job /\ r.orig = web[c].orig
        /\ r.mine = web[c].mine /\ r.todo = web[c].todo
        /\ r.dirty = web[c].dirty
    BY <1>1 DEF RequestState, Context
  <2> HIDE DEF r
  <2>3. ContextOK(r)
    BY <1>1, <2>1, <2>2 DEF ContextOK, Open
  <2>4. QED
    BY <1>2, <2>1, <2>2, <2>3, ContextStep
<1>6. CASE DetailsStats(c)
  <2> DEFINE j == web[c].job
             m == [web[c].mine EXCEPT ![j].stats = reply[c].stats]
             ctx == [web[c] EXCEPT !.mine[j].stats = reply[c].stats,
                                   !.dirty = @ \cup {j}]
  <2>1. /\ web[c].pc = "stats" /\ Goto(c, Idle) /\ jobName' = jobName
        /\ Submit(ctx)
    BY <1>6 DEF DetailsStats
  <2>2. j \in Job /\ web[c].mine \in [Job -> Row] /\ web[c].dirty \subseteq Job
    BY <1>1, <2>1 DEF RequestState, Context
  <2>3. ctx.mine = m /\ ctx.dirty = web[c].dirty \cup {j}
    BY <1>1, <2>2 DEF RequestState, Context
  <2> HIDE DEF ctx
  <2>4. \A k \in Job : /\ m[k].name = web[c].mine[k].name
                       /\ m[k].status = web[c].mine[k].status
                       /\ m[k].ended = web[c].mine[k].ended
    BY <2>2 DEF Row
  <2> HIDE DEF m
  <2>5. /\ \A k \in Job : InStep(ctx.mine[k])
        /\ \A k \in ctx.dirty : ctx.mine[k].name \in JobName
    BY <1>1, <2>1, <2>2, <2>3, <2>4 DEF ContextOK, InStep
  <2>6. /\ table' = table /\ \A k \in Job : InStep(row'[k])
        /\ \A k \in table : row'[k].name \in JobName
    BY <2>1, <2>5, SubmitRows DEF TypeOK
  <2>7. QED
    BY <2>1, <2>6, IdleStep
<1>7. CASE DetailsThrows(c)
  BY <1>2, <1>7, IdleStep DEF DetailsThrows
<1>8. QED
  BY <1>3, <1>4, <1>5, <1>6, <1>7

LEMMA EditDeleteContext ==
  ASSUME TypeOK, DataContextInv, NEW j \in Job,
         \/ \E n \in JobName, t \in BOOLEAN : Edit(j, n, t)
         \/ Delete(j)
  PROVE  DataContextInv'
<1>1. web' = web /\ jobName' = jobName /\ table' \subseteq table
  BY DEF Edit, Delete
<1>2. /\ \A k \in Job : InStep(row'[k])
      /\ \A k \in table' : row'[k].name \in JobName
  <2>1. CASE Delete(j)
    <3>1. \A k \in Job : row'[k] = IF k = j THEN Blank ELSE row[k]
      BY <2>1 DEF Delete, TypeOK
    <3>2. QED
      BY <2>1, <3>1 DEF Delete, DataContextInv, InStep, Blank, TypeOK
  <2>2. CASE \E n \in JobName, t \in BOOLEAN : Edit(j, n, t)
    <3>1. PICK n \in JobName, t \in BOOLEAN : Edit(j, n, t)
      BY <2>2
    <3>2. \A k \in Job \ {j} : row'[k] = row[k]
      BY <3>1 DEF Edit, TypeOK
    <3>3. /\ row'[j].name = n /\ row'[j].status = row[j].status
          /\ row'[j].ended = row[j].ended
      BY <3>1, ZenonT(30) DEF Edit, TypeOK, Row
    <3>4. QED
      BY <1>1, <3>2, <3>3 DEF DataContextInv, InStep, TypeOK
  <2>3. QED
    BY <2>1, <2>2
<1>3. QED
  BY <1>1, <1>2 DEF DataContextInv, ContextOK, Open, InStep, Adding

LEMMA ServerContext ==
  ASSUME DataContextInv, ServerStep \/ ServerCrash \/ ServerStart
  PROVE  DataContextInv'
<1>1. web' = web /\ jobName' = jobName /\ table' = table /\ row' = row
  BY DEF ServerStep, ServerCrash, ServerStart, webVars
<1>2. QED
  BY <1>1 DEF DataContextInv, ContextOK, Open, InStep, Adding
----------------------------------------------------------------------------
(* The theorems about the table.                                           *)

LEMMA StepInv ==
  ASSUME TypeOK, DataContextInv, [Next]_vars
  PROVE  TypeOK' /\ DataContextInv'
<1>1. CASE Browse
  BY <1>1, CreateType, IndexType, DetailsType, EditDeleteType,
     CreateContext, IndexContext, DetailsContext, EditDeleteContext
  DEF Browse
<1>2. CASE \E c \in Client : Serve(c)
  BY <1>2, CreateType, IndexType, DetailsType,
     CreateContext, IndexContext, DetailsContext DEF Serve
<1>3. CASE ServerStep \/ ServerCrash \/ ServerStart
  BY <1>3, ServerType, ServerContext
<1>4. CASE UNCHANGED vars
  BY <1>4 DEF vars, serverVars, webVars, TypeOK, ServerTypeOK,
     DataContextInv, ContextOK, Open, InStep, Adding
<1>5. QED
  BY <1>1, <1>2, <1>3, <1>4 DEF Next

(* Every variable always has its type: a request on the queue names a job  *)
(* or carries a form, a reply answers with a known status, and a request   *)
(* thread past its first step works on a job (the types EaServer and the   *)
(* controllers declare).                                                   *)
THEOREM TypeCorrect == Spec => []TypeOK
<1>1. Init => TypeOK /\ DataContextInv
  BY InitType, InitContext
<1>2. TypeOK /\ DataContextInv /\ [Next]_vars => TypeOK' /\ DataContextInv'
  BY StepInv
<1>3. QED
  BY <1>1, <1>2, PTL DEF Spec

(* What a request thread relies on between its question and its answer     *)
(* always holds, however the other threads and the server interleave       *)
(* (JobController 60-77, 92-109, 185-196).                                 *)
THEOREM ContextCorrect == Spec => []DataContextInv
<1>1. Init => TypeOK /\ DataContextInv
  BY InitType, InitContext
<1>2. TypeOK /\ DataContextInv /\ [Next]_vars => TypeOK' /\ DataContextInv'
  BY StepInv
<1>3. QED
  BY <1>1, <1>2, PTL DEF Spec

(* A stored job has an end time exactly when its status is Complete        *)
(* (JobController 69-70, 97-98).                                           *)
THEOREM EndTimeCorrect == Spec => []EndedIffComplete
<1>1. TypeOK /\ DataContextInv => EndedIffComplete
  BY DEF TypeOK, DataContextInv, EndedIffComplete, InStep
<1>2. QED
  BY <1>1, TypeCorrect, ContextCorrect, PTL

(* SubmitChanges leaves a Complete row alone: what it writes was read      *)
(* incomplete, and the update check refuses a row that changed since.      *)
LEMMA SubmitKeepsComplete ==
  ASSUME TypeOK, NEW ctx \in RequestState, Submit(ctx),
         \A k \in ctx.dirty : ctx.orig[k].status # "Complete",
         NEW j \in Job, row[j].status = "Complete"
  PROVE  row'[j].status = "Complete"
  BY DEF Submit, Fails, Conflict

LEMMA CompleteKept ==
  ASSUME TypeOK, DataContextInv, [Next]_vars,
         NEW j \in table \cap table', row[j].status = "Complete"
  PROVE  row'[j].status = "Complete"
<1> USE DEF NoTableStep
<1>1. j \in Job /\ \A k \in Job : row'[k] = row[k] => row'[k].status = row[k].status
  BY DEF TypeOK
<1>2. ASSUME NEW c \in Client, CreateDone(c)
      PROVE  row'[j].status = "Complete"
  <2>1. web[c].job # j
    BY <1>2 DEF CreateDone, DataContextInv, Adding
  <2>2. QED
    BY <1>1, <1>2, <2>1 DEF CreateDone, InsertRow, TypeOK
<1>3. ASSUME NEW c \in Client, IndexAnswer(c)
      PROVE  row'[j].status = "Complete"
  <2> DEFINE ctx == SetStatus(web[c], web[c].job, reply[c].status)
  <2>1. /\ web[c] \in RequestState /\ web[c].job \in Job
        /\ reply[c].status \in Status /\ ContextOK(web[c])
        /\ Open(web[c], web[c].job)
    BY <1>3, AnswerType DEF IndexAnswer, DataContextInv, ContextOK
  <2>2. ctx \in RequestState
    BY <2>1, SetStatusType
  <2>3. \A k \in ctx.dirty : ctx.orig[k].status # "Complete"
    BY <2>1, SetStatusContext
  <2>4. row' = row \/ Submit(ctx)
    BY <1>3 DEF IndexAnswer
  <2> HIDE DEF ctx
  <2>5. QED
    BY <1>1, <2>2, <2>3, <2>4, SubmitKeepsComplete
<1>4. ASSUME NEW c \in Client, DetailsStats(c)
      PROVE  row'[j].status = "Complete"
  <2> DEFINE i == web[c].job
             m == [web[c].mine EXCEPT ![i].stats = reply[c].stats]
             ctx == [web[c] EXCEPT !.mine[i].stats = reply[c].stats,
                                   !.dirty = @ \cup {i}]
  <2>1. /\ web[c] \in RequestState /\ i \in Job /\ reply[c].stats \in Stats
        /\ ContextOK(web[c]) /\ web[c].pc = "stats" /\ Submit(ctx)
    BY <1>4, AnswerType DEF DetailsStats, DataContextInv
  <2>2. m \in [Job -> Row]
    BY <2>1 DEF RequestState, Context, Row
  <2>3. ctx = [web[c] EXCEPT !.mine = m, !.dirty = @ \cup {i}]
    BY <2>1 DEF RequestState, Context
  <2> HIDE DEF m
  <2>4. ctx \in RequestState /\ ctx.orig = web[c].orig
        /\ ctx.dirty = web[c].dirty \cup {i}
    BY <2>1, <2>2, <2>3 DEF RequestState, Context
  <2>5. \A k \in ctx.dirty : ctx.orig[k].status # "Complete"
    BY <2>1, <2>4 DEF ContextOK
  <2> HIDE DEF ctx
  <2>6. QED
    BY <1>1, <2>1, <2>4, <2>5, SubmitKeepsComplete
<1>5. ASSUME NEW k \in Job,
             Delete(k) \/ \E n \in JobName, t \in BOOLEAN : Edit(k, n, t)
      PROVE  row'[j].status = "Complete"
  <2>1. CASE Delete(k)
    BY <1>1, <2>1 DEF Delete, TypeOK
  <2>2. CASE \E n \in JobName, t \in BOOLEAN : Edit(k, n, t)
    BY <1>1, <2>2 DEF Edit, TypeOK, Row
  <2>3. QED
    BY <1>5, <2>1, <2>2
<1>6. ASSUME row' = row
      PROVE  row'[j].status = "Complete"
  BY <1>6
<1>7. CASE Browse
  <2>1. \/ row' = row
        \/ \E k \in Job :
             Delete(k) \/ \E n \in JobName, t \in BOOLEAN : Edit(k, n, t)
    BY <1>7 DEF Browse, CreatePost, IndexOpen, DetailsOpen
  <2>2. QED
    BY <1>5, <1>6, <2>1
<1>8. CASE \E c \in Client : Serve(c)
  <2>1. PICK c \in Client : Serve(c)
    BY <1>8
  <2>2. row' = row \/ CreateDone(c) \/ IndexAnswer(c) \/ DetailsStats(c)
    BY <2>1 DEF Serve, CreateThrows, IndexAsk, IndexNoAnswer, IndexDone,
       DetailsStatus, DetailsAsk, DetailsThrows
  <2>3. QED
    BY <1>2, <1>3, <1>4, <1>6, <2>2
<1>9. CASE ServerStep \/ ServerCrash \/ ServerStart \/ UNCHANGED vars
  BY <1>6, <1>9 DEF ServerStep, ServerCrash, ServerStart, webVars, vars
<1>10. QED
  BY <1>7, <1>8, <1>9 DEF Next

(* A job the table shows as Complete is shown so until it is deleted,      *)
(* whatever older copies other requests still write (JobController 62, 92; *)
(* the update check of SubmitChanges).                                     *)
THEOREM CompleteForGood == Spec => CompleteStays
<1>1. TypeOK /\ DataContextInv /\ [Next]_vars =>
        [\A j \in table \cap table' :
           row[j].status = "Complete" => row'[j].status = "Complete"]_vars
  BY CompleteKept
<1>2. QED
  BY <1>1, TypeCorrect, ContextCorrect, PTL DEF Spec, CompleteStays
----------------------------------------------------------------------------
(* The play threads: what a job's document and evaluation count are worth  *)
(* at each point of the run.                                               *)

Whole(i) ==
  /\ i.phase \in {"none", "spawned", "init"} =>
       i.iter = 0 /\ i.gens = 0 /\ i.eval = 0
  /\ i.phase = "loop" =>
       /\ i.gens = i.iter /\ i.eval = i.iter * LambdaOf(i.params)
       /\ i.iter > 0 => i.eval < i.params.evals + LambdaOf(i.params)
  /\ i.phase = "sampled" =>
       /\ i.gens + 1 = i.iter /\ i.eval = i.iter * LambdaOf(i.params)
       /\ i.eval < i.params.evals + LambdaOf(i.params)
  /\ i.phase \in {"finish", "report"} \/ i.status = "Complete" =>
       /\ i.gens = i.iter /\ i.eval = i.iter * LambdaOf(i.params) + 1
       /\ i.iter > 0 => i.eval <= i.params.evals + LambdaOf(i.params)
  /\ i.phase = "report" \/ i.status = "Complete" => i.final
  /\ i.status = "Complete" => i.phase = "dead"

WholeInv == \A j \in Job : Whole(inst[j])

LEMMA PlayThreadWhole ==
  ASSUME TypeOK, WholeInv, NEW j \in Job, PlayThread(j)
  PROVE  WholeInv'
<1> DEFINE i == inst[j]
           l == LambdaOf(i.params)
<1>1. i \in Started /\ i.params.evals \in Nat
  BY DEF TypeOK, ServerTypeOK, Instance, Started, Unallocated, PlayThread, At, Boot,
     Initialize, InitializeThrows, Iterate, IterateThrows,
     PostEvaluationStatistics, Finish, FinalStatistics, SetComplete
<1>2. l \in Nat /\ Whole(i)
  BY <1>1, LambdaType DEF Started, WholeInv
<1>3. \A r : Become(j, r) /\ Whole(r) => WholeInv'
  BY DEF Become, WholeInv, Whole, TypeOK, ServerTypeOK, LambdaOf
<1>4. /\ i.phase \in Phase /\ i.status \in RunStatus /\ i.iter \in Nat
      /\ i.eval \in Nat /\ i.gens \in Nat
  BY <1>1 DEF Started
<1>5. CASE Boot(j)
  <2> DEFINE r == [i EXCEPT !.phase = "init", !.status = "Initializing"]
  <2>1. Become(j, r) /\ i.phase = "spawned"
    BY <1>5 DEF Boot, At
  <2>2. r.phase = "init" /\ r.status = "Initializing" /\ r.iter = i.iter
        /\ r.eval = i.eval /\ r.gens = i.gens
    BY <1>1 DEF Started
  <2> HIDE DEF r
  <2>3. QED
    BY <1>2, <1>3, <2>1, <2>2 DEF Whole
<1>6. CASE Initialize(j)
  <2> DEFINE r == [i EXCEPT !.phase = "loop", !.status = "Running"]
  <2>1. Become(j, r) /\ i.phase = "init"
    BY <1>6 DEF Initialize, At
  <2>2. r.phase = "loop" /\ r.status = "Running" /\ r.iter = i.iter
        /\ r.eval = i.eval /\ r.gens = i.gens /\ r.params = i.params
    BY <1>1 DEF Started
  <2> HIDE DEF r
  <2>3. 0 * l = 0
    BY <1>2
  <2>4. QED
    BY <1>2, <1>3, <2>1, <2>2, <2>3 DEF Whole
<1>7. CASE InitializeThrows(j) \/ IterateThrows(j)
  <2> DEFINE r == [i EXCEPT !.phase = "dead"]
  <2>1. Become(j, r) /\ i.phase \in {"init", "loop"}
    BY <1>7 DEF InitializeThrows, IterateThrows, At
  <2>2. r.phase = "dead" /\ r.status = i.status
    BY <1>1 DEF Started
  <2> HIDE DEF r
  <2>3. QED
    BY <1>2, <1>3, <2>1, <2>2 DEF Whole
<1>8. CASE Iterate(j)
  <2> DEFINE r == [i EXCEPT !.phase = "sampled", !.iter = @ + 1,
                            !.eval = @ + LambdaOf(i.params)]
  <2>1. Become(j, r) /\ i.phase = "loop" /\ i.eval < i.params.evals
    BY <1>1, <1>4, <1>8 DEF Iterate, At, BudgetSpent
  <2>2. r.phase = "sampled" /\ r.status = i.status /\ r.iter = i.iter + 1
        /\ r.eval = i.eval + l /\ r.gens = i.gens /\ r.params = i.params
    BY <1>1 DEF Started
  <2> HIDE DEF r
  <2>3. i.gens = i.iter /\ i.eval = i.iter * l /\ i.status # "Complete"
    BY <1>2, <2>1 DEF Whole
  <2>4. r.gens + 1 = r.iter
    BY <2>2, <2>3
  <2>5. r.eval = r.iter * LambdaOf(r.params)
    <3>1. (i.iter + 1) * l = i.iter * l + l
      BY <1>2, <1>4
    <3>2. QED
      BY <2>2, <2>3, <3>1
  <2>6. r.eval < r.params.evals + LambdaOf(r.params)
    BY <1>1, <1>2, <1>4, <2>1, <2>2
  <2>7. Whole(r)
    BY <2>2, <2>3, <2>4, <2>5, <2>6 DEF Whole
  <2>8. QED
    BY <1>3, <2>1, <2>7
<1>9. CASE PostEvaluationStatistics(j)
  <2> DEFINE r == [i EXCEPT !.phase = "loop", !.gens = @ + 1]
  <2>1. Become(j, r) /\ i.phase = "sampled"
    BY <1>9 DEF PostEvaluationStatistics, At
  <2>2. r.phase = "loop" /\ r.status = i.status /\ r.iter = i.iter
        /\ r.eval = i.eval /\ r.gens = i.gens + 1 /\ r.params = i.params
    BY <1>1 DEF Started
  <2> HIDE DEF r
  <2>3. QED
    BY <1>2, <1>3, <2>1, <2>2 DEF Whole
<1>10. CASE Finish(j)
  <2> DEFINE r == [i EXCEPT !.phase = "finish", !.status = "Finishing",
                            !.eval = @ + 1]
  <2>1. Become(j, r) /\ i.phase = "loop"
    BY <1>10 DEF Finish, At
  <2>2. r.phase = "finish" /\ r.status = "Finishing" /\ r.iter = i.iter
        /\ r.eval = i.eval + 1 /\ r.gens = i.gens /\ r.params = i.params
    BY <1>1 DEF Started
  <2> HIDE DEF r
  <2>3. /\ i.gens = i.iter /\ i.eval = i.iter * l
        /\ i.iter > 0 => i.eval < i.params.evals + l
    BY <1>2, <2>1 DEF Whole
  <2>4. r.iter > 0 => r.eval <= r.params.evals + LambdaOf(r.params)
    BY <1>1, <1>2, <1>4, <2>2, <2>3
  <2>5. Whole(r)
    BY <2>2, <2>3, <2>4 DEF Whole
  <2>6. QED
    BY <1>3, <2>1, <2>5
<1>11. CASE FinalStatistics(j)
  <2> DEFINE r == [i EXCEPT !.phase = "report", !.final = TRUE]
  <2>1. Become(j, r) /\ i.phase = "finish"
    BY <1>11 DEF FinalStatistics, At
  <2>2. r.phase = "report" /\ r.status = i.status /\ r.iter = i.iter
        /\ r.eval = i.eval /\ r.gens = i.gens /\ r.params = i.params /\ r.final
    BY <1>1 DEF Started
  <2> HIDE DEF r
  <2>3. QED
    BY <1>2, <1>3, <2>1, <2>2 DEF Whole
<1>12. CASE SetComplete(j)
  <2> DEFINE r == [i EXCEPT !.phase = "dead", !.status = "Complete"]
  <2>1. Become(j, r) /\ i.phase = "report"
    BY <1>12 DEF SetComplete, At
  <2>2. r.phase = "dead" /\ r.status = "Complete" /\ r.iter = i.iter
        /\ r.eval = i.eval /\ r.gens = i.gens /\ r.params = i.params
        /\ r.final = i.final
    BY <1>1 DEF Started
  <2> HIDE DEF r
  <2>3. QED
    BY <1>2, <1>3, <2>1, <2>2 DEF Whole
<1>13. QED
  BY <1>5, <1>6, <1>7, <1>8, <1>9, <1>10, <1>11, <1>12 DEF PlayThread

LEMMA StepWhole ==
  ASSUME TypeOK, WholeInv, [Next]_vars
  PROVE  WholeInv'
<1>1. CASE inst' = inst
  BY <1>1 DEF WholeInv, Whole, LambdaOf
<1>2. ASSUME NEW r, Whole(r), NEW j \in Job, inst' = [inst EXCEPT ![j] = r]
      PROVE  WholeInv'
  BY <1>2 DEF WholeInv, Whole, TypeOK, ServerTypeOK, LambdaOf
<1>3. CASE HandleAddJob
  <2> DEFINE r == [Unallocated EXCEPT !.phase = "spawned", !.params = Msg.params]
  <2>1. Msg \in AddRequest
    BY <1>3, HeadType DEF HandleAddJob, Accept, Request, AskRequest, Question
  <2>2. r.phase = "spawned" /\ r.status = "null" /\ r.iter = 0 /\ r.gens = 0
        /\ r.eval = 0
    BY DEF Unallocated
  <2>3. inst' = [inst EXCEPT ![Msg.job] = r] /\ Msg.job \in Job
    BY <1>3, <2>1 DEF HandleAddJob, AddRequest
  <2> HIDE DEF r
  <2>4. Whole(r)
    BY <2>2 DEF Whole
  <2>5. QED
    BY <1>2, <2>3, <2>4
<1>4. CASE ServerCrash
  <2>1. inst' = [j \in Job |-> Unallocated]
    BY <1>4 DEF ServerCrash, Crash
  <2>2. Whole(Unallocated)
    BY DEF Whole, Unallocated
  <2>3. QED
    BY <2>1, <2>2 DEF WholeInv, Whole, LambdaOf
<1>5. CASE Browse \/ \E c \in Client : Serve(c)
  BY <1>1, <1>5 DEF Browse, Serve, CreatePost, CreateDone, CreateThrows,
     IndexOpen, IndexAsk, IndexAnswer, IndexNoAnswer, IndexDone, DetailsOpen,
     DetailsStatus, DetailsAsk, DetailsStats, DetailsThrows, Edit, Delete,
     NoServerStep, serverVars
<1>6. CASE ServerStep
  <2>1. CASE OnMessage
    BY <1>1, <1>3, <2>1 DEF OnMessage, HandleGetStatus, HandleGetStatistics
  <2>2. CASE \E j \in Job : PlayThread(j)
    BY <2>2, PlayThreadWhole
  <2>3. QED
    BY <1>6, <2>1, <2>2 DEF ServerStep
<1>7. CASE ServerStart \/ UNCHANGED vars
  BY <1>1, <1>7 DEF ServerStart, Start, vars, serverVars
<1>8. QED
  BY <1>4, <1>5, <1>6, <1>7 DEF Next

(* A job that says Complete has recorded every generation it ran and its   *)
(* final result, and spent at most one generation more than its budget     *)
(* (EaInstance 171-211).                                                   *)
THEOREM CompleteWhole == Spec => []CompleteIsWhole
<1>1. Init => WholeInv
  BY DEF Init, ServerInit, WholeInv, Whole, Unallocated
<1>2. TypeOK /\ WholeInv /\ [Next]_vars => WholeInv'
  BY StepWhole
<1>3. WholeInv => CompleteIsWhole
  BY DEF WholeInv, Whole, CompleteIsWhole
<1>4. QED
  BY <1>1, <1>2, <1>3, TypeCorrect, PTL DEF Spec
=============================================================================
