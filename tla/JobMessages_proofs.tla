------------------------- MODULE JobMessages_proofs -------------------------
(***************************************************************************)
(* Proofs about the messages between the web application and the server:   *)
(* MessageInv of JobHistory is an invariant of JobSystem.                  *)
(***************************************************************************)
EXTENDS JobSystem_proofs, JobHistory

USE ServerAssumption, WebAssumption

----------------------------------------------------------------------------
(* What a step may do to the queue and to the jobs that were posted.       *)

SameMessage(m, o) ==
  /\ m.verb = o.verb /\ m.name = o.name /\ m.job = o.job
  /\ m.from = o.from \/ m.from = NoClient

(* The first d messages are gone, no message is new.                       *)
Shift(d) ==
  /\ Len(queue') = Len(queue) - d
  /\ \A i \in Place' :
       i + d \in Place /\ SameMessage(queue'[i], queue[i + d])

Silent(c) == \A i \in Place : queue[i].from # c

(* The queue is a sequence of requests.                                    *)
LEMMA PlaceType ==
  ASSUME TypeOK
  PROVE  /\ Len(queue) \in Nat /\ \A i \in Place : queue[i] \in Request
         /\ DOMAIN queue = Place
  BY ElementOfSeq, LenProperties DEF TypeOK, ServerTypeOK, Place

LEMMA ShiftSame ==
  ASSUME TypeOK, queue' = queue
  PROVE  Shift(0) /\ \A c : Silent(c) => Silent(c)'
  BY PlaceType DEF Shift, Place, SameMessage, Silent

(* A call that gives up leaves its request on the queue, without sender.   *)
LEMMA ShiftTimedOut ==
  ASSUME TypeOK, NEW c \in Client, TimedOut(c)
  PROVE  Shift(0) /\ Silent(c)'
<1>1. Len(queue) \in Nat /\ \A i \in Place : queue[i] \in Request
  BY PlaceType
<1>2. queue' = [i \in Place |-> IF queue[i].from = c
                               THEN [queue[i] EXCEPT !.from = NoClient]
                               ELSE queue[i]]
  BY DEF TimedOut, Place
<1>3. Len(queue') = Len(queue)
  <2>1. queue' \in Seq(Request) /\ DOMAIN queue' = 1..Len(queue)
    BY <1>2, TimedOutType DEF Place
  <2>2. QED
    BY <1>1, <2>1, LenProperties
<1>4. ASSUME NEW i \in Place
      PROVE  SameMessage(queue'[i], queue[i]) /\ queue'[i].from # c
  <2>1. CASE queue[i].from = c
    <3> DEFINE m == [queue[i] EXCEPT !.from = NoClient]
    <3>1. queue'[i] = m
      BY <1>2, <2>1
    <3>2. /\ m.verb = queue[i].verb /\ m.name = queue[i].name
          /\ m.job = queue[i].job /\ m.from = NoClient
      BY <1>1 DEF Request, AddRequest, AskRequest
    <3> HIDE DEF m
    <3>3. QED
      BY <3>1, <3>2 DEF SameMessage
  <2>2. CASE queue[i].from # c
    BY <1>2, <2>2 DEF SameMessage
  <2>3. QED
    BY <2>1, <2>2
<1>5. QED
  BY <1>1, <1>3, <1>4 DEF Shift, Silent, Place

LEMMA ShiftTail ==
  ASSUME TypeOK, queue # <<>>, queue' = Tail(queue)
  PROVE  /\ Shift(1) /\ 1 \in Place /\ Msg = queue[1]
         /\ \A i \in Place : i # 1 => i - 1 \in Place'
<1>1. /\ Len(queue) \in Nat \ {0} /\ Len(queue') = Len(queue) - 1
      /\ \A i \in 1..Len(queue) - 1 : queue'[i] = queue[i + 1]
      /\ Msg = queue[1]
  BY HeadTailProperties, EmptySeq, LenProperties DEF TypeOK, ServerTypeOK, Msg
<1>2. QED
  BY <1>1 DEF Shift, Place, SameMessage

LEMMA ShiftCrash ==
  ASSUME TypeOK, Crash
  PROVE  Len(queue) \in Nat /\ Shift(Len(queue)) /\ Place' = {}
<1>1. Len(queue) \in Nat
  BY PlaceType
<1>2. Len(queue') = 0
  BY DEF Crash
<1>3. Place' = {}
  BY <1>2 DEF Place
<1>4. QED
  BY <1>1, <1>2, <1>3 DEF Shift
----------------------------------------------------------------------------
(* What a request thread's step may do to messages.                        *)

(* It sends its next request; only Create's posts a job.                   *)
SendsNext(c) ==
  /\ Silent(c) /\ reply' = reply /\ reply[c] = NoReply
  /\ \E m \in Request :
       /\ queue' = Append(queue, m)
       /\ m.from = c /\ m.verb = WaitsFor(web'[c].pc)
       /\ \/ /\ m.verb # "AddJob" /\ jobName' = jobName
             /\ m.name = web'[c].mine[web'[c].job].name
          \/ /\ m.verb = "AddJob" /\ m.job \in Job \ Used
             /\ jobName' = [jobName EXCEPT ![m.job] = m.name]

(* Or it is left with neither a request nor a reply.                       *)
EndsCall(c) ==
  /\ Shift(0) /\ Silent(c)' /\ reply'[c] = NoReply
  /\ WaitsFor(web'[c].pc) = "none" /\ jobName' = jobName

Talk(c) ==
  /\ inst' = inst /\ instances' = instances
  /\ \A e \in Client \ {c} : web'[e] = web[e] /\ reply'[e] = reply[e]
  /\ SendsNext(c) \/ EndsCall(c)

ClientStep(c) ==
  \/ Serve(c) \/ IndexOpen(c) \/ \E j \in Job : DetailsOpen(c, j)
  \/ \E j \in Job, n \in JobName, p \in Params : CreatePost(c, j, n, p)

LEMMA NoReplyIsNone == NoReply.verb = "none"
  BY DEF NoReply

LEMMA NotWaiting ==
  ASSUME TypeOK, MessageInv, NEW c \in Client,
         WaitsFor(web[c].pc) = "none" \/ reply[c] # NoReply
  PROVE  /\ Silent(c)
         /\ WaitsFor(web[c].pc) = "none" => reply[c] = NoReply
<1>1. \A i \in Place : queue[i].verb # "none"
  BY PlaceType DEF Request, AddRequest, AskRequest, Question
<1>2. QED
  BY <1>1 DEF MessageInv, AskInv, AskOK, AskedFor, ReplyInv, Silent

(* The thread alone changes its context and its temporary queue.           *)
LEMMA OtherThreads ==
  ASSUME TypeOK, NEW c \in Client, NEW r, Goto(c, r),
         reply' = reply \/ \E verb : Received(c, verb)
  PROVE  /\ web'[c] = r
         /\ \A e \in Client \ {c} : web'[e] = web[e] /\ reply'[e] = reply[e]
  BY DEF Goto, Received, TypeOK, ServerTypeOK

LEMMA TalkSend ==
  ASSUME TypeOK, MessageInv, NEW c \in Client, NEW r, Goto(c, r),
         NEW verb \in Verb, NEW n \in JobName, NEW j, NEW p,
         Send(c, verb, n, j, p),
         WaitsFor(web[c].pc) = "none", WaitsFor(r.pc) = verb,
         UNCHANGED <<reply, inst, instances>>,
         \/ /\ verb # "AddJob" /\ jobName' = jobName /\ j = NoJob
            /\ p = NoParams /\ n = r.mine[r.job].name
         \/ /\ verb = "AddJob" /\ j \in Job \ Used /\ p \in Params
            /\ jobName' = [jobName EXCEPT ![j] = n]
  PROVE  Talk(c)
<1> DEFINE m == [verb |-> verb, name |-> n, job |-> j, params |-> p,
                 from |-> c]
<1>1. web'[c] = r /\ \A e \in Client \ {c} : web'[e] = web[e]
  BY OtherThreads
<1>2. m \in Request
  BY DEF Request, AddRequest, AskRequest, Verb
<1>3. queue' = Append(queue, m)
  BY DEF Send
<1>4. m.verb = verb /\ m.name = n /\ m.job = j /\ m.from = c
  OBVIOUS
<1> HIDE DEF m
<1>5. SendsNext(c)
  BY <1>1, <1>2, <1>3, <1>4, NotWaiting DEF SendsNext
<1>6. QED
  BY <1>1, <1>5 DEF Talk

LEMMA TalkEnd ==
  ASSUME TypeOK, MessageInv, NEW c \in Client, NEW r, Goto(c, r),
         WaitsFor(r.pc) = "none",
         \/ /\ \E verb : verb # "none" /\ Received(c, verb)
            /\ queue' = queue
         \/ TimedOut(c) /\ reply' = reply
         \/ /\ UNCHANGED <<queue, reply>>
            /\ WaitsFor(web[c].pc) = "none" \/ Broken(c),
         UNCHANGED <<inst, instances, jobName>>
  PROVE  Talk(c)
<1>1. web'[c] = r
      /\ \A e \in Client \ {c} : web'[e] = web[e] /\ reply'[e] = reply[e]
  BY OtherThreads
<1>2. Shift(0) /\ Silent(c)' /\ reply'[c] = NoReply
  <2>1. ASSUME NEW verb, verb # "none", Received(c, verb), queue' = queue
        PROVE  Shift(0) /\ Silent(c)' /\ reply'[c] = NoReply
    <3>1. reply[c] # NoReply
      BY <2>1, NoReplyIsNone DEF Received
    <3>2. reply'[c] = NoReply
      BY <2>1 DEF Received, TypeOK, ServerTypeOK
    <3>3. QED
      BY <2>1, <3>1, <3>2, NotWaiting, ShiftSame
  <2>2. CASE TimedOut(c) /\ reply' = reply
    BY <2>2, ShiftTimedOut DEF TimedOut
  <2>3. CASE /\ UNCHANGED <<queue, reply>>
             /\ WaitsFor(web[c].pc) = "none" \/ Broken(c)
    <3>1. Silent(c) /\ reply[c] = NoReply
      BY <2>3, NotWaiting DEF Broken, Silent, Place
    <3>2. QED
      BY <2>3, <3>1, ShiftSame
  <2>4. QED
    BY <2>1, <2>2, <2>3
<1>3. QED
  BY <1>1, <1>2 DEF Talk, EndsCall

LEMMA CreateTalk ==
  ASSUME TypeOK, DataContextInv, MessageInv, NEW c \in Client,
         \/ \E j \in Job, n \in JobName, p \in Params : CreatePost(c, j, n, p)
         \/ CreateDone(c) \/ CreateThrows(c)
  PROVE  Talk(c)
<1> USE DEF NoServerStep
<1>1. WaitsFor("idle") = "none" /\ WaitsFor("adding") = "AddJob"
      /\ Idle.pc = "idle"
  BY DEF WaitsFor, Idle
<1>2. CASE \E j \in Job, n \in JobName, p \in Params : CreatePost(c, j, n, p)
  <2>1. PICK j \in Job, n \in JobName, p \in Params : CreatePost(c, j, n, p)
    BY <1>2
  <2> DEFINE r == [Idle EXCEPT !.pc = "adding", !.job = j]
  <2>2. r.pc = "adding"
    BY DEF Idle
  <2>3. /\ Send(c, "AddJob", n, j, p) /\ Goto(c, r) /\ web[c].pc = "idle"
        /\ j \in Job \ Used /\ jobName' = [jobName EXCEPT ![j] = n]
        /\ UNCHANGED <<reply, inst, instances>>
    BY <2>1 DEF CreatePost
  <2> HIDE DEF r
  <2>4. "AddJob" \in Verb
    BY DEF Verb
  <2>5. QED
    BY <1>1, <2>2, <2>3, <2>4, TalkSend
<1>3. CASE CreateDone(c)
  <2>1. /\ \/ /\ \E verb : verb # "none" /\ Received(c, verb)
              /\ queue' = queue
           \/ TimedOut(c) /\ reply' = reply
        /\ Goto(c, Idle) /\ UNCHANGED <<inst, instances, jobName>>
    BY <1>3 DEF CreateDone, InsertRow
  <2>2. QED
    BY <1>1, <2>1, TalkEnd
<1>4. CASE CreateThrows(c)
  <2>1. /\ UNCHANGED <<queue, reply>> /\ Broken(c)
        /\ Goto(c, Idle) /\ UNCHANGED <<inst, instances, jobName>>
    BY <1>4 DEF CreateThrows, serverVars
  <2>2. QED
    BY <1>1, <2>1, TalkEnd
<1>5. QED
  BY <1>2, <1>3, <1>4

LEMMA IndexTalk ==
  ASSUME TypeOK, DataContextInv, MessageInv, NEW c \in Client,
         \/ IndexOpen(c) \/ (\E j \in Job : IndexAsk(c, j))
         \/ IndexAnswer(c) \/ IndexNoAnswer(c) \/ IndexDone(c)
  PROVE  Talk(c)
<1> USE DEF NoServerStep
<1>1. /\ WaitsFor("idle") = "none" /\ WaitsFor("listing") = "none"
      /\ WaitsFor("polling") = "GetStatus" /\ Idle.pc = "idle"
  BY DEF WaitsFor, Idle
<1>2. web[c] \in RequestState /\ reply[c].status \in Status
      /\ (web[c].pc = "polling" => web[c].job \in Job)
  BY AnswerType
<1>3. \A x \in RequestState : \A k : NextJob(x, k).pc = "listing"
  BY DEF NextJob, RequestState, Context
<1>4. CASE IndexOpen(c)
  <2> DEFINE r == [Idle EXCEPT !.pc = "listing", !.orig = row, !.mine = row,
                               !.todo = {k \in table : Polled(row[k])}]
  <2>1. r.pc = "listing"
    BY DEF Idle
  <2>2. /\ Goto(c, r) /\ web[c].pc = "idle"
        /\ UNCHANGED <<queue, reply, inst, instances, jobName>>
    BY <1>4 DEF IndexOpen, serverVars
  <2> HIDE DEF r
  <2>3. QED
    BY <1>1, <2>1, <2>2, TalkEnd
<1>5. CASE \E j \in Job : IndexAsk(c, j)
  <2>1. PICK j \in Job : IndexAsk(c, j)
    BY <1>5
  <2> DEFINE r == [web[c] EXCEPT !.pc = "polling", !.job = j]
             n == web[c].mine[j].name
  <2>2. r.pc = "polling" /\ r.job = j /\ r.mine = web[c].mine
    BY <1>2 DEF RequestState, Context
  <2>3. n \in JobName
    BY <2>1 DEF IndexAsk, DataContextInv, ContextOK, Open
  <2>4. /\ Send(c, "GetStatus", n, NoJob, NoParams) /\ Goto(c, r)
        /\ web[c].pc = "listing"
        /\ UNCHANGED <<reply, inst, instances, jobName>>
    BY <2>1 DEF IndexAsk
  <2>5. "GetStatus" \in Verb /\ n = r.mine[r.job].name
    BY <2>2 DEF Verb, Question
  <2> HIDE DEF r, n
  <2>6. QED
    BY <1>1, <2>2, <2>3, <2>4, <2>5, TalkSend
<1>6. CASE IndexAnswer(c)
  <2> DEFINE ctx == SetStatus(web[c], web[c].job, reply[c].status)
  <2>1. ctx \in RequestState /\ AfterSubmit(ctx) \in RequestState
    BY <1>2, <1>6, SetStatusType, AfterSubmitType DEF IndexAnswer
  <2>2. PICK x \in RequestState : Goto(c, NextJob(x, web[c].job))
    BY <1>6, <2>1 DEF IndexAnswer
  <2>3. /\ Received(c, "GetStatus") /\ queue' = queue
        /\ UNCHANGED <<inst, instances, jobName>>
    BY <1>6 DEF IndexAnswer
  <2>4. WaitsFor(NextJob(x, web[c].job).pc) = "none"
    BY <1>1, <1>3
  <2>5. QED
    BY <2>2, <2>3, <2>4, TalkEnd
<1>7. CASE IndexNoAnswer(c)
  <2>1. PICK j : Goto(c, NextJob(web[c], j))
    BY <1>7 DEF IndexNoAnswer
  <2>2. /\ \/ TimedOut(c) /\ reply' = reply
           \/ web[c].pc = "listing" /\ UNCHANGED <<queue, reply>>
        /\ UNCHANGED <<inst, instances, jobName>>
    BY <1>7 DEF IndexNoAnswer
  <2>3. WaitsFor(NextJob(web[c], j).pc) = "none"
    BY <1>1, <1>2, <1>3
  <2>4. QED
    BY <1>1, <2>1, <2>2, <2>3, TalkEnd
<1>8. CASE IndexDone(c)
  <2>1. /\ Goto(c, Idle) /\ web[c].pc = "listing"
        /\ UNCHANGED <<queue, reply, inst, instances, jobName>>
    BY <1>8 DEF IndexDone, serverVars
  <2>2. QED
    BY <1>1, <2>1, TalkEnd
<1>9. QED
  BY <1>4, <1>5, <1>6, <1>7, <1>8

LEMMA DetailsTalk ==
  ASSUME TypeOK, DataContextInv, MessageInv, NEW c \in Client,
         \/ \E j \in Job : DetailsOpen(c, j)
         \/ DetailsStatus(c) \/ DetailsAsk(c) \/ DetailsStats(c)
         \/ DetailsThrows(c)
  PROVE  Talk(c)
<1> USE DEF NoServerStep
<1>1. /\ WaitsFor("idle") = "none" /\ WaitsFor("asking") = "none"
      /\ WaitsFor("status") = "GetStatus"
      /\ WaitsFor("stats") = "GetStatistics" /\ Idle.pc = "idle"
  BY DEF WaitsFor, Idle
<1>2. web[c] \in RequestState /\ reply[c].status \in Status
      /\ (web[c].pc \in {"status", "asking"} => web[c].job \in Job)
  BY AnswerType
<1>3. "GetStatus" \in Verb /\ "GetStatistics" \in Verb
  BY DEF Verb, Question
<1>4. CASE \E j \in Job : DetailsOpen(c, j)
  <2>1. PICK j \in Job : DetailsOpen(c, j)
    BY <1>4
  <2> DEFINE mine == [Nothing EXCEPT ![j] = row[j]]
             r == [Idle EXCEPT !.pc = "status", !.job = j, !.orig = mine,
                               !.mine = mine]
             n == row[j].name
  <2>2. n \in JobName
    BY <2>1 DEF DetailsOpen, DataContextInv
  <2>3. /\ Send(c, "GetStatus", n, NoJob, NoParams) /\ Goto(c, r)
        /\ web[c].pc = "idle"
        /\ UNCHANGED <<reply, inst, instances, jobName>>
    BY <2>1 DEF DetailsOpen
  <2>4. mine[j] = row[j]
    BY DEF Nothing
  <2> HIDE DEF mine
  <2>5. r.pc = "status" /\ r.job = j /\ r.mine = mine
    BY DEF Idle
  <2>6. n = r.mine[r.job].name
    BY <2>4, <2>5
  <2> HIDE DEF r, n
  <2>7. QED
    BY <1>1, <1>3, <2>2, <2>3, <2>5, <2>6, TalkSend
<1>5. CASE DetailsStatus(c)
  <2> DEFINE ctx == SetStatus(web[c], web[c].job, reply[c].status)
             r == [ctx EXCEPT !.pc = "asking"]
  <2>1. /\ Received(c, "GetStatus") /\ queue' = queue
        /\ Goto(c, Idle) \/ Goto(c, r)
        /\ UNCHANGED <<inst, instances, jobName>>
    BY <1>5 DEF DetailsStatus
  <2>2. ctx \in RequestState
    BY <1>2, <1>5, SetStatusType DEF DetailsStatus
  <2> HIDE DEF ctx
  <2>3. r.pc = "asking"
    BY <2>2 DEF RequestState, Context
  <2> HIDE DEF r
  <2>4. QED
    BY <1>1, <2>1, <2>3, TalkEnd
<1>6. CASE DetailsAsk(c)
  <2> DEFINE r == [web[c] EXCEPT !.pc = "stats"]
             n == web[c].mine[web[c].job].name
  <2>1. r.pc = "stats" /\ r.job = web[c].job /\ r.mine = web[c].mine
    BY <1>2 DEF RequestState, Context
  <2>2. n \in JobName
    BY <1>6 DEF DetailsAsk, DataContextInv, ContextOK
  <2>3. /\ Send(c, "GetStatistics", n, NoJob, NoParams) /\ Goto(c, r)
        /\ web[c].pc = "asking"
        /\ UNCHANGED <<reply, inst, instances, jobName>>
    BY <1>6 DEF DetailsAsk
  <2>4. n = r.mine[r.job].name
    BY <2>1
  <2> HIDE DEF r, n
  <2>5. QED
    BY <1>1, <1>3, <2>1, <2>2, <2>3, <2>4, TalkSend
<1>7. CASE DetailsStats(c)
  <2>1. /\ Received(c, "GetStatistics") /\ queue' = queue /\ Goto(c, Idle)
        /\ UNCHANGED <<inst, instances, jobName>>
    BY <1>7 DEF DetailsStats
  <2>2. QED
    BY <1>1, <2>1, TalkEnd
<1>8. CASE DetailsThrows(c)
  <2>1. /\ \/ TimedOut(c) /\ reply' = reply
           \/ web[c].pc = "asking" /\ UNCHANGED <<queue, reply>>
        /\ Goto(c, Idle) /\ UNCHANGED <<inst, instances, jobName>>
    BY <1>8 DEF DetailsThrows
  <2>2. QED
    BY <1>1, <2>1, TalkEnd
<1>9. QED
  BY <1>4, <1>5, <1>6, <1>7, <1>8

(* Every step of a request thread talks so.                                *)
LEMMA ClientTalk ==
  ASSUME TypeOK, DataContextInv, MessageInv, NEW c \in Client, ClientStep(c)
  PROVE  Talk(c)
  BY CreateTalk, IndexTalk, DetailsTalk DEF ClientStep, Serve
----------------------------------------------------------------------------
(* The kinds of steps, and the invariants about messages under each.       *)

Quiet == UNCHANGED <<queue, reply, instances, inst, web, jobName>>

LEMMA StepKinds ==
  ASSUME [Next]_vars
  PROVE  \/ \E c \in Client : ClientStep(c)
         \/ OnMessage /\ UNCHANGED webVars
         \/ \E j \in Job : PlayThread(j) /\ UNCHANGED webVars
         \/ ServerCrash \/ Quiet
  BY DEF Next, Browse, Edit, Delete, ServerStep, ServerStart, Start, vars,
     serverVars, webVars, ClientStep, Quiet

(* The messages after one more was sent.                                   *)
LEMMA AppendPlaces ==
  ASSUME TypeOK, NEW m \in Request, queue' = Append(queue, m)
  PROVE  /\ Len(queue) \in Nat /\ Len(queue') = Len(queue) + 1
         /\ Place' = Place \cup {Len(queue) + 1}
         /\ queue'[Len(queue) + 1] = m
         /\ \A i \in Place : queue'[i] = queue[i]
<1>1. /\ Len(queue) \in Nat /\ Len(queue') = Len(queue) + 1
      /\ queue'[Len(queue) + 1] = m
      /\ \A i \in 1..Len(queue) : queue'[i] = queue[i]
  BY AppendProperties, LenProperties DEF TypeOK, ServerTypeOK
<1>2. QED
  BY <1>1 DEF Place

LEMMA TalkUsed ==
  ASSUME TypeOK, NEW c \in Client, Talk(c)
  PROVE  \A j \in Used : j \in Used' /\ jobName'[j] = jobName[j]
<1>1. CASE jobName' = jobName
  BY <1>1 DEF Used
<1>2. CASE \E m \in Request : m.verb = "AddJob" /\ m.job \in Job \ Used
              /\ jobName' = [jobName EXCEPT ![m.job] = m.name]
  <2>1. PICK m \in Request : m.verb = "AddJob" /\ m.job \in Job \ Used
              /\ jobName' = [jobName EXCEPT ![m.job] = m.name]
    BY <1>2
  <2>2. \A j \in Used : jobName'[j] = jobName[j]
    BY <2>1 DEF TypeOK, Used
  <2>3. QED
    BY <2>2 DEF Used
<1>3. QED
  BY <1>1, <1>2 DEF Talk, SendsNext, EndsCall

LEMMA UsedKept ==
  ASSUME TypeOK, DataContextInv, MessageInv, [Next]_vars
  PROVE  \A j \in Used : j \in Used' /\ jobName'[j] = jobName[j]
<1>1. CASE \E c \in Client : ClientStep(c)
  BY <1>1, ClientTalk, TalkUsed
<1>2. CASE jobName' = jobName
  BY <1>2 DEF Used
<1>3. QED
  BY <1>1, <1>2, StepKinds DEF webVars, ServerCrash, Quiet

LEMMA TalkAdd ==
  ASSUME TypeOK, MessageInv, NEW c \in Client, Talk(c)
  PROVE  AddInv'
<1>1. /\ Len(queue) \in Nat /\ inst' = inst
      /\ \A j \in Used : j \in Used' /\ jobName'[j] = jobName[j]
  BY PlaceType, TalkUsed DEF Talk
<1>2. SUFFICES ASSUME NEW j \in Job, NEW i \in Place', Adds(i, j)'
               PROVE  /\ j \in Used' /\ queue'[i].name = jobName'[j]
                      /\ inst'[j].phase = "none"
                      /\ \A h \in Place' : Adds(h, j)' => h = i
  BY DEF AddInv
<1>3. ASSUME NEW k \in Place, Adds(k, j)
      PROVE  /\ j \in Used' /\ queue[k].name = jobName'[j]
             /\ inst'[j].phase = "none"
             /\ \A h \in Place : Adds(h, j) => h = k
  BY <1>1, <1>3 DEF MessageInv, AddInv
<1>4. CASE Shift(0)
  <2>1. \A h \in Place' : /\ h \in Place /\ SameMessage(queue'[h], queue[h])
                          /\ Adds(h, j)' => Adds(h, j)
    BY <1>1, <1>4 DEF Shift, Place, SameMessage, Adds
  <2>2. QED
    BY <1>2, <1>3, <2>1 DEF SameMessage
<1>5. CASE SendsNext(c)
  <2>1. PICK m \in Request :
          /\ queue' = Append(queue, m)
          /\ \/ m.verb # "AddJob"
             \/ /\ m.verb = "AddJob" /\ m.job \in Job \ Used
                /\ jobName' = [jobName EXCEPT ![m.job] = m.name]
    BY <1>5 DEF SendsNext
  <2>0. PICK z : z = Len(queue) + 1
    OBVIOUS
  <2>2. /\ Place' = Place \cup {z} /\ queue'[z] = m /\ z \notin Place
        /\ \A h \in Place : queue'[h] = queue[h]
    BY <2>0, <2>1, AppendPlaces DEF Place
  <2>3. CASE i \in Place /\ ~ Adds(z, j)'
    BY <1>2, <1>3, <2>2, <2>3 DEF Adds
  <2>4. CASE Adds(z, j)'
    <3>1. m.job = j /\ j \in Job \ Used
          /\ jobName' = [jobName EXCEPT ![j] = m.name]
      BY <2>1, <2>2, <2>4 DEF Adds
    <3>2. j \in Used' /\ jobName'[j] = m.name
      BY <2>2, <2>4, <3>1
      DEF Adds, TypeOK, Used, Request, AddRequest, AskRequest, Question
    <3>3. \A h \in Place : ~ Adds(h, j)
      BY <3>1 DEF MessageInv, AddInv
    <3>4. \A h \in Place' : Adds(h, j)' => h = z
      BY <2>2, <3>3 DEF Adds
    <3>5. inst'[j].phase = "none"
      BY <1>1, <3>1 DEF MessageInv, FiledInv
    <3>6. QED
      BY <1>2, <2>2, <3>2, <3>4, <3>5
  <2>5. QED
    BY <1>2, <2>2, <2>3, <2>4
<1>6. QED
  BY <1>4, <1>5 DEF Talk, EndsCall

(* Who is not concerned by a step still has its question on the queue.     *)
LEMMA AskKept ==
  ASSUME TypeOK, MessageInv, NEW d \in Nat, Shift(d),
         NEW e \in Client, web'[e] = web[e], reply'[e] = reply[e]
  PROVE  AskOK(e)'
<1>1. Len(queue) \in Nat /\ Len(queue') = Len(queue) - d
      /\ \A i \in Place' : i \in Nat
  BY PlaceType DEF Shift, Place
<1>2. \A i \in Place' : i + d \in Place /\ SameMessage(queue'[i], queue[i + d])
  BY DEF Shift
<1>3. AskOK(e)
  BY DEF MessageInv, AskInv
<1>4. \A i \in Place' : queue'[i].from = e => queue[i + d].from = e
  BY <1>2 DEF SameMessage
<1>5. \A i \in Place' : queue'[i].from = e => AskedFor(e, queue[i])'
  BY <1>2, <1>3, <1>4 DEF AskOK, AskedFor, SameMessage
<1>6. \A i, h \in Place' : queue'[i].from = e /\ queue'[h].from = e => h = i
  <2> SUFFICES ASSUME NEW i \in Place', NEW h \in Place',
                      queue'[i].from = e, queue'[h].from = e
               PROVE  h = i
    OBVIOUS
  <2>1. h + d = i + d
    BY <1>2, <1>3, <1>4 DEF AskOK
  <2>2. QED
    BY <1>1, <2>1
<1>7. QED
  BY <1>5, <1>6 DEF AskOK

LEMMA SilentAsks ==
  ASSUME NEW e \in Client, Silent(e)'
  PROVE  AskOK(e)'
  BY DEF AskOK, Silent

LEMMA TalkAsk ==
  ASSUME TypeOK, MessageInv, NEW c \in Client, Talk(c)
  PROVE  AskInv'
<1>1. /\ \A e \in Client \ {c} : web'[e] = web[e] /\ reply'[e] = reply[e]
      /\ Len(queue) \in Nat
  BY PlaceType DEF Talk
<1>2. SUFFICES ASSUME NEW e \in Client PROVE AskOK(e)'
  BY DEF AskInv
<1>3. CASE EndsCall(c)
  <2>1. Shift(0) /\ Silent(c)'
    BY <1>3 DEF EndsCall
  <2>2. QED
    BY <1>1, <2>1, AskKept, SilentAsks
<1>4. CASE SendsNext(c)
  <2>1. PICK m \in Request :
          /\ queue' = Append(queue, m)
          /\ m.from = c /\ m.verb = WaitsFor(web'[c].pc)
          /\ m.verb # "AddJob" => m.name = web'[c].mine[web'[c].job].name
    BY <1>4 DEF SendsNext
  <2>2. PICK z : z = Len(queue) + 1
    OBVIOUS
  <2>3. /\ Place' = Place \cup {z} /\ queue'[z] = m /\ z \notin Place
        /\ \A h \in Place : queue'[h] = queue[h]
    BY <2>1, <2>2, AppendPlaces DEF Place
  <2>4. CASE e = c
    <3>1. \A i \in Place' : queue'[i].from = e => i = z
      BY <1>4, <2>3, <2>4 DEF SendsNext, Silent
    <3>2. AskedFor(e, queue[z])'
      BY <1>4, <2>1, <2>2, <2>3, <2>4 DEF SendsNext, AskedFor
    <3>3. QED
      BY <3>1, <3>2 DEF AskOK
  <2>5. CASE e # c
    <3>1. \A i \in Place' : queue'[i].from = e => i \in Place
      BY <2>1, <2>3, <2>5
    <3>2. web'[e] = web[e] /\ reply'[e] = reply[e] /\ AskOK(e)
      BY <1>1, <2>5 DEF MessageInv, AskInv
    <3>3. QED
      BY <2>3, <3>1, <3>2 DEF AskOK, AskedFor
  <2>6. QED
    BY <2>4, <2>5
<1>5. QED
  BY <1>3, <1>4 DEF Talk

LEMMA TalkMessages ==
  ASSUME TypeOK, MessageInv, NEW c \in Client, Talk(c)
  PROVE  /\ RunInv' /\ AddInv' /\ AskInv' /\ ReplyInv' /\ FiledInv'
<1>1. /\ inst' = inst /\ instances' = instances
      /\ \A e \in Client \ {c} : web'[e] = web[e] /\ reply'[e] = reply[e]
      /\ reply'[c] = NoReply
  BY DEF Talk, SendsNext, EndsCall
<1>2. RunInv'
  BY <1>1 DEF MessageInv, RunInv, RunOK
<1>3. ReplyInv'
  BY <1>1 DEF MessageInv, ReplyInv
<1>4. FiledInv'
  <2>1. \A j \in Job : inst'[j].phase # "none" => j \in Used
    BY <1>1 DEF MessageInv, FiledInv
  <2>2. \A n \in JobName : instances'[n] # NoJob =>
          /\ instances'[n] \in Used /\ jobName[instances'[n]] = n
          /\ inst'[instances'[n]].phase # "none"
    BY <1>1, <2>1 DEF MessageInv, FiledInv, TypeOK, ServerTypeOK
  <2>3. QED
    BY <2>1, <2>2, TalkUsed DEF FiledInv
<1>5. QED
  BY <1>2, <1>3, <1>4, TalkAdd, TalkAsk
----------------------------------------------------------------------------
(* The server's steps.                                                     *)

(* Handling a request takes it off the queue and answers its sender.       *)
LEMMA Handled ==
  ASSUME TypeOK, MessageInv, OnMessage, UNCHANGED webVars
  PROVE  /\ Shift(1) /\ 1 \in Place /\ Msg = queue[1] /\ Msg \in Request
         /\ \A i \in Place : i # 1 => i - 1 \in Place'
         /\ \A e \in Client : e # Msg.from => reply'[e] = reply[e]
         /\ \A e \in Client : e = Msg.from =>
              Silent(e)' /\ reply'[e].verb = Msg.verb
<1>1. /\ queue # <<>> /\ queue' = Tail(queue)
      /\ \E r : ReplyTo(Msg.from, r) /\ r.verb = Msg.verb
  <2>1. PICK verb, x, t : /\ Accept(verb)
                          /\ ReplyTo(Msg.from, [verb |-> verb, status |-> x,
                                                stats |-> t])
    BY DEF OnMessage, HandleGetStatus, HandleGetStatistics, HandleAddJob
  <2>2. [verb |-> verb, status |-> x, stats |-> t].verb = verb
    OBVIOUS
  <2>3. QED
    BY <2>1, <2>2 DEF Accept
<1>2. /\ Shift(1) /\ 1 \in Place /\ Msg = queue[1] /\ Msg \in Request
      /\ \A i \in Place : i # 1 => i - 1 \in Place'
  BY <1>1, ShiftTail, HeadType
<1>3. Msg.from \in Client \cup {NoClient}
  BY <1>2 DEF Request, AddRequest, AskRequest
<1>4. /\ \A e \in Client : e # Msg.from => reply'[e] = reply[e]
      /\ \A e \in Client : e = Msg.from => reply'[e].verb = Msg.verb
  BY <1>1, <1>3 DEF ReplyTo, TypeOK, ServerTypeOK
<1>5. ASSUME NEW e \in Client, e = Msg.from
      PROVE  Silent(e)'
  <2>1. \A i \in Place : queue[i].from = e => i = 1
    BY <1>2, <1>5 DEF MessageInv, AskInv, AskOK
  <2>2. \A i \in Place' : /\ i + 1 \in Place /\ i + 1 # 1
                          /\ SameMessage(queue'[i], queue[i + 1])
    BY <1>2, PlaceType DEF Shift, Place
  <2>3. QED
    BY <2>1, <2>2 DEF Silent, SameMessage
<1>6. QED
  BY <1>2, <1>4, <1>5

LEMMA HandledAddJob ==
  ASSUME TypeOK, MessageInv, HandleAddJob, UNCHANGED webVars
  PROVE  /\ Msg.job \in Used /\ Msg.name = jobName[Msg.job]
         /\ inst[Msg.job].phase = "none" /\ Msg.name \in JobName
         /\ instances' = [instances EXCEPT ![Msg.name] = Msg.job]
         /\ \A k \in Job \ {Msg.job} : inst'[k] = inst[k]
         /\ inst'[Msg.job] = [Unallocated EXCEPT !.phase = "spawned",
                                                 !.params = Msg.params]
<1>1. Msg \in Request /\ Msg.verb = "AddJob" /\ 1 \in Place /\ Msg = queue[1]
  BY Handled DEF OnMessage, HandleAddJob, Accept
<1>2. Msg.job \in Job /\ Msg.name \in JobName
  BY <1>1 DEF Request, AddRequest, AskRequest, Question
<1>3. Adds(1, Msg.job)
  BY <1>1 DEF Adds
<1>4. QED
  BY <1>1, <1>2, <1>3 DEF MessageInv, AddInv, HandleAddJob, TypeOK, ServerTypeOK

LEMMA MessageMessages ==
  ASSUME TypeOK, MessageInv, OnMessage, UNCHANGED webVars
  PROVE  MessageInv'
<1>1. UNCHANGED <<web, jobName, Used>>
  BY DEF webVars, Used
<1>2. /\ Shift(1) /\ Len(queue) \in Nat /\ 1 \in Place /\ Msg = queue[1]
      /\ Msg \in Request
      /\ \A i \in Place' : i # 0 /\ i + 1 \in Place /\ i + 1 # 1
                           /\ SameMessage(queue'[i], queue[i + 1])
      /\ \A i, h \in Place' : i + 1 = h + 1 => i = h
  BY Handled, PlaceType DEF Shift, Place
<1>3. ASSUME ~ HandleAddJob
      PROVE  AddInv' /\ RunInv' /\ FiledInv'
  <2>1. inst' = inst /\ instances' = instances
    BY <1>3 DEF OnMessage, HandleGetStatus, HandleGetStatistics
  <2>2. AddInv' /\ RunInv' /\ FiledInv'
    <3>1. \A j \in Job : \A i \in Place' : Adds(i, j)' => Adds(i + 1, j)
      BY <1>2 DEF Adds, SameMessage
    <3>2. AddInv'
      BY <1>1, <1>2, <2>1, <3>1 DEF MessageInv, AddInv, SameMessage
    <3>3. QED
      BY <1>1, <2>1, <3>2 DEF MessageInv, RunInv, RunOK, FiledInv
  <2>3. QED
    BY <2>2
<1>4. ASSUME HandleAddJob
      PROVE  AddInv' /\ RunInv' /\ FiledInv'
  <2>1. PICK j \in Job : j = Msg.job
    BY <1>4, HandledAddJob DEF Used
  <2>2. /\ j \in Used /\ jobName[j] \in JobName /\ inst[j].phase = "none"
        /\ instances' = [instances EXCEPT ![jobName[j]] = j]
        /\ \A k \in Job \ {j} : inst'[k] = inst[k]
        /\ inst'[j] = [Unallocated EXCEPT !.phase = "spawned",
                                          !.params = Msg.params]
    BY <1>4, <2>1, HandledAddJob
  <2>3. inst'[j].phase = "spawned" /\ inst'[j].status = "null"
        /\ ~ inst'[j].final
    BY <2>2 DEF Unallocated
  <2>4. RunInv'
    BY <2>2, <2>3 DEF MessageInv, RunInv, RunOK
  <2>5. FiledInv'
    <3>1. \A n \in JobName : instances'[n] =
            IF n = jobName[j] THEN j ELSE instances[n]
      BY <2>2 DEF TypeOK, ServerTypeOK
    <3>2. \A n \in JobName : instances[n] \in Job \cup {NoJob}
      BY DEF TypeOK, ServerTypeOK
    <3>3. ASSUME NEW n \in JobName, instances'[n] # NoJob
          PROVE  /\ jobName'[instances'[n]] = n
                 /\ inst'[instances'[n]].phase # "none"
      <4>1. CASE n = jobName[j]
        BY <1>1, <2>3, <3>1, <4>1
      <4>2. CASE n # jobName[j]
        <5>1. /\ instances'[n] = instances[n] /\ instances[n] \in Job
              /\ jobName[instances[n]] = n
              /\ inst[instances[n]].phase # "none"
          BY <3>1, <3>2, <3>3, <4>2 DEF MessageInv, FiledInv
        <5>2. inst'[instances[n]] = inst[instances[n]]
          BY <2>2, <4>2, <5>1
        <5>3. QED
          BY <1>1, <5>1, <5>2
      <4>3. QED
        BY <4>1, <4>2
    <3>4. \A k \in Job : inst'[k].phase # "none" => k \in Used'
      BY <1>1, <2>2 DEF MessageInv, FiledInv
    <3>5. QED
      BY <3>3, <3>4 DEF FiledInv
  <2>6. AddInv'
    <3>1. Adds(1, j)
      BY <1>2, <1>4, <2>1 DEF Adds, HandleAddJob, Accept
    <3>2. \A k \in Job : \A i \in Place' : Adds(i, k)' => Adds(i + 1, k)
      BY <1>2 DEF Adds, SameMessage
    <3>3. \A i \in Place' : ~ Adds(i, j)'
      BY <1>2, <3>1, <3>2 DEF MessageInv, AddInv
    <3>4. QED
      BY <1>1, <1>2, <2>2, <3>2, <3>3
      DEF MessageInv, AddInv, SameMessage
  <2>7. QED
    BY <2>4, <2>5, <2>6
<1>5. AskInv'
  <2>1. SUFFICES ASSUME NEW e \in Client PROVE AskOK(e)'
    BY DEF AskInv
  <2>2. CASE e = Msg.from
    BY <2>2, Handled, SilentAsks
  <2>3. CASE e # Msg.from
    BY <1>1, <1>2, <2>3, Handled, AskKept
  <2>4. QED
    BY <2>2, <2>3
<1>6. ReplyInv'
  <2>1. SUFFICES ASSUME NEW e \in Client, reply'[e] # NoReply
                 PROVE  /\ reply'[e].verb = WaitsFor(web[e].pc)
                        /\ reply'[e].verb # "none"
    BY <1>1 DEF ReplyInv
  <2>2. CASE e = Msg.from
    <3>1. Msg.verb = WaitsFor(web[e].pc)
      BY <1>2, <2>2 DEF MessageInv, AskInv, AskOK, AskedFor
    <3>2. Msg.verb # "none"
      BY <1>2 DEF Request, AddRequest, AskRequest, Question
    <3>3. QED
      BY <2>2, <3>1, <3>2, Handled
  <2>3. CASE e # Msg.from
    BY <2>1, <2>3, Handled DEF MessageInv, ReplyInv
  <2>4. QED
    BY <2>2, <2>3
<1>7. HoldsInv'
  BY <1>1 DEF MessageInv, HoldsInv, Holds
<1>8. QED
  BY <1>3, <1>4, <1>5, <1>6, <1>7 DEF MessageInv
----------------------------------------------------------------------------
(* The order of the states of a job.                                       *)

LEMMA ProgressOrder ==
  ASSUME NEW s, NEW t
  PROVE  Board!NotBefore(s, t) <=>
           \/ s = "Submitted" /\ t \in RunStatus \cup {"Submitted"}
           \/ s = "null" /\ t \in RunStatus
           \/ s = "Initializing" /\ t \in RunStatus \ {"null"}
           \/ s = "Running" /\ t \in {"Running", "Finishing", "Complete"}
           \/ s = "Finishing" /\ t \in {"Finishing", "Complete"}
           \/ s = "Complete" /\ t = "Complete"
<1> DEFINE P == Board!Progress
<1>1. /\ P[1] = "Submitted" /\ P[2] = "null" /\ P[3] = "Initializing"
      /\ P[4] = "Running" /\ P[5] = "Finishing" /\ P[6] = "Complete"
  BY DEF Board!Progress
<1>2. /\ \A i \in 1..6 : i \in {1, 2, 3, 4, 5, 6}
      /\ \A i \in {1, 2, 3, 4, 5, 6} : i \in 1..6
  OBVIOUS
<1>3. Board!NotBefore(s, t) <=>
        \E i \in 1..6 : \E k \in i..6 : P[i] = s /\ P[k] = t
  BY DEF Board!NotBefore
<1> HIDE DEF P
<1>4. ASSUME NEW i \in 1..6, NEW k \in i..6
      PROVE  k \in {1, 2, 3, 4, 5, 6} /\ i \in {1, 2, 3, 4, 5, 6} /\ i <= k
  BY <1>2
<1>5. QED
  BY <1>1, <1>2, <1>3, <1>4 DEF RunStatus

LEMMA ProgressLaws ==
  /\ \A s \in RunStatus \cup {"Submitted"} :
       Board!NotBefore(s, s) /\ Board!NotBefore("Submitted", s)
  /\ \A s, t : Board!NotBefore(s, t) =>
       {s, t} \subseteq RunStatus \cup {"Submitted"}
  /\ \A s, t, u : Board!NotBefore(s, t) /\ Board!NotBefore(t, u) =>
       Board!NotBefore(s, u)
  /\ \A t : Board!NotBefore("Complete", t) => t = "Complete"
<1>1. \A s \in RunStatus \cup {"Submitted"} :
        Board!NotBefore(s, s) /\ Board!NotBefore("Submitted", s)
  BY ProgressOrder DEF RunStatus
<1>2. \A s, t : Board!NotBefore(s, t) =>
        {s, t} \subseteq RunStatus \cup {"Submitted"}
  BY ProgressOrder DEF RunStatus
<1>3. ASSUME NEW s, NEW t, NEW u,
             Board!NotBefore(s, t), Board!NotBefore(t, u)
      PROVE  Board!NotBefore(s, u)
  BY <1>3, ProgressOrder DEF RunStatus
<1>4. \A t : Board!NotBefore("Complete", t) => t = "Complete"
  BY ProgressOrder
<1>5. QED
  BY <1>1, <1>2, <1>3, <1>4

(* An instance only moves on: its status, its generations, its result.     *)
MovesOn(i, r) ==
  /\ Board!NotBefore(i.status, r.status)
  /\ i.gens <= r.gens /\ (i.final => r.final)

LEMMA PlayThreadStep ==
  ASSUME TypeOK, RunInv, NEW j \in Job, PlayThread(j)
  PROVE  \E r \in Started :
           /\ Become(j, r) /\ RunOK(r) /\ inst[j] \in Started
           /\ MovesOn(inst[j], r)
<1> DEFINE i == inst[j]
<1>1. i \in Started
  BY DEF TypeOK, ServerTypeOK, Instance, Started, Unallocated, PlayThread, At,
     Boot, Initialize, InitializeThrows, Iterate, IterateThrows,
     PostEvaluationStatistics, Finish, FinalStatistics, SetComplete
<1>2. /\ i.phase \in Phase /\ i.status \in RunStatus /\ i.iter \in Nat
      /\ i.eval \in Nat /\ i.gens \in Nat /\ i.params \in Params
      /\ RunOK(i) /\ LambdaOf(i.params) \in Nat
  BY <1>1, LambdaType DEF Started, RunInv
<1>3. ASSUME NEW r \in Started, Become(j, r), RunOK(r),
             Board!NotBefore(i.status, r.status),
             r.gens = i.gens \/ r.gens = i.gens + 1, i.final => r.final
      PROVE  \E q \in Started : /\ Become(j, q) /\ RunOK(q)
                                /\ inst[j] \in Started /\ MovesOn(inst[j], q)
  <2>1. i.gens <= r.gens
    BY <1>2, <1>3
  <2>2. QED
    BY <1>1, <1>3, <2>1 DEF MovesOn
<1>4. CASE Boot(j)
  <2> DEFINE r == [i EXCEPT !.phase = "init", !.status = "Initializing"]
  <2>1. Become(j, r) /\ i.phase = "spawned"
    BY <1>4 DEF Boot, At
  <2>2. r.phase = "init" /\ r.status = "Initializing" /\ r.gens = i.gens
        /\ r.final = i.final /\ r \in Started
    BY <1>1 DEF Started, Phase, RunStatus
  <2> HIDE DEF r
  <2>3. RunOK(r) /\ Board!NotBefore(i.status, r.status)
    BY <1>2, <2>1, <2>2, ProgressOrder DEF RunOK, RunStatus
  <2>4. QED
    BY <1>3, <2>1, <2>2, <2>3
<1>5. CASE Initialize(j)
  <2> DEFINE r == [i EXCEPT !.phase = "loop", !.status = "Running"]
  <2>1. Become(j, r) /\ i.phase = "init"
    BY <1>5 DEF Initialize, At
  <2>2. r.phase = "loop" /\ r.status = "Running" /\ r.gens = i.gens
        /\ r.final = i.final /\ r \in Started
    BY <1>1 DEF Started, Phase, RunStatus
  <2> HIDE DEF r
  <2>3. RunOK(r) /\ Board!NotBefore(i.status, r.status)
    BY <1>2, <2>1, <2>2, ProgressOrder DEF RunOK, RunStatus
  <2>4. QED
    BY <1>3, <2>1, <2>2, <2>3
<1>6. CASE InitializeThrows(j) \/ IterateThrows(j)
  <2> DEFINE r == [i EXCEPT !.phase = "dead"]
  <2>1. Become(j, r) /\ i.phase \in {"init", "loop"}
    BY <1>6 DEF InitializeThrows, IterateThrows, At
  <2>2. r.phase = "dead" /\ r.status = i.status /\ r.gens = i.gens
        /\ r.final = i.final /\ r \in Started
    BY <1>1 DEF Started, Phase
  <2> HIDE DEF r
  <2>3. RunOK(r) /\ Board!NotBefore(i.status, r.status)
    BY <1>2, <2>1, <2>2, ProgressLaws DEF RunOK
  <2>4. QED
    BY <1>3, <2>1, <2>2, <2>3
<1>7. CASE Iterate(j)
  <2> DEFINE r == [i EXCEPT !.phase = "sampled", !.iter = @ + 1,
                            !.eval = @ + LambdaOf(i.params)]
  <2>1. Become(j, r) /\ i.phase = "loop"
    BY <1>7 DEF Iterate, At
  <2>2. i.iter + 1 \in Nat /\ i.eval + LambdaOf(i.params) \in Nat
    BY <1>2
  <2>3. r.phase = "sampled" /\ r.status = i.status /\ r.gens = i.gens
        /\ r.final = i.final /\ r \in Started
    BY <1>1, <2>2 DEF Started, Phase
  <2> HIDE DEF r
  <2>4. RunOK(r) /\ Board!NotBefore(i.status, r.status)
    BY <1>2, <2>1, <2>3, ProgressLaws DEF RunOK
  <2>5. QED
    BY <1>3, <2>1, <2>3, <2>4
<1>8. CASE PostEvaluationStatistics(j)
  <2> DEFINE r == [i EXCEPT !.phase = "loop", !.gens = @ + 1]
  <2>1. Become(j, r) /\ i.phase = "sampled"
    BY <1>8 DEF PostEvaluationStatistics, At
  <2>2. i.gens + 1 \in Nat
    BY <1>2
  <2>3. r.phase = "loop" /\ r.status = i.status /\ r.gens = i.gens + 1
        /\ r.final = i.final /\ r \in Started
    BY <1>1, <2>2 DEF Started, Phase
  <2> HIDE DEF r
  <2>4. RunOK(r) /\ Board!NotBefore(i.status, r.status)
    BY <1>2, <2>1, <2>3, ProgressLaws DEF RunOK
  <2>5. QED
    BY <1>3, <2>1, <2>3, <2>4
<1>9. CASE Finish(j)
  <2> DEFINE r == [i EXCEPT !.phase = "finish", !.status = "Finishing",
                            !.eval = @ + 1]
  <2>1. Become(j, r) /\ i.phase = "loop"
    BY <1>9 DEF Finish, At
  <2>2. i.eval + 1 \in Nat
    BY <1>2
  <2>3. r.phase = "finish" /\ r.status = "Finishing" /\ r.gens = i.gens
        /\ r.final = i.final /\ r \in Started
    BY <1>1, <2>2 DEF Started, Phase, RunStatus
  <2> HIDE DEF r
  <2>4. RunOK(r) /\ Board!NotBefore(i.status, r.status)
    BY <1>2, <2>1, <2>3, ProgressOrder DEF RunOK
  <2>5. QED
    BY <1>3, <2>1, <2>3, <2>4
<1>10. CASE FinalStatistics(j)
  <2> DEFINE r == [i EXCEPT !.phase = "report", !.final = TRUE]
  <2>1. Become(j, r) /\ i.phase = "finish"
    BY <1>10 DEF FinalStatistics, At
  <2>2. r.phase = "report" /\ r.status = i.status /\ r.gens = i.gens
        /\ r.final /\ r \in Started
    BY <1>1 DEF Started, Phase
  <2> HIDE DEF r
  <2>3. RunOK(r) /\ Board!NotBefore(i.status, r.status)
    BY <1>2, <2>1, <2>2, ProgressLaws DEF RunOK
  <2>4. QED
    BY <1>3, <2>1, <2>2, <2>3
<1>11. CASE SetComplete(j)
  <2> DEFINE r == [i EXCEPT !.phase = "dead", !.status = "Complete"]
  <2>1. Become(j, r) /\ i.phase = "report"
    BY <1>11 DEF SetComplete, At
  <2>2. r.phase = "dead" /\ r.status = "Complete" /\ r.gens = i.gens
        /\ r.final = i.final /\ r \in Started
    BY <1>1 DEF Started, Phase, RunStatus
  <2> HIDE DEF r
  <2>3. RunOK(r) /\ Board!NotBefore(i.status, r.status)
    BY <1>2, <2>1, <2>2, ProgressOrder DEF RunOK
  <2>4. QED
    BY <1>3, <2>1, <2>2, <2>3
<1>12. QED
  BY <1>4, <1>5, <1>6, <1>7, <1>8, <1>9, <1>10, <1>11 DEF PlayThread

(* A play thread's step says nothing to anybody.                           *)
LEMMA PlayThreadMessages ==
  ASSUME TypeOK, MessageInv, NEW j \in Job, PlayThread(j), UNCHANGED webVars
  PROVE  MessageInv'
<1>1. PICK r \in Started : Become(j, r) /\ RunOK(r) /\ inst[j] \in Started
  BY PlayThreadStep DEF MessageInv
<1>2. /\ UNCHANGED <<queue, reply, instances, web, jobName, Used, Place>>
      /\ inst' = [inst EXCEPT ![j] = r]
  BY <1>1 DEF Become, webVars, Used, Place
<1>3. inst[j].phase # "none" /\ r.phase # "none"
  BY <1>1 DEF Started, Phase
<1>4. \A k \in Job : inst'[k] = IF k = j THEN r ELSE inst[k]
  BY <1>2 DEF TypeOK, ServerTypeOK
<1>5. \A k \in Job : inst'[k].phase = "none" <=> inst[k].phase = "none"
  BY <1>3, <1>4
<1>6. RunInv'
  BY <1>1, <1>4 DEF MessageInv, RunInv, RunOK
<1>7. FiledInv'
  <2>1. \A n \in JobName : instances[n] \in Job \cup {NoJob}
    BY DEF TypeOK, ServerTypeOK
  <2>2. QED
    BY <1>2, <1>5, <2>1 DEF MessageInv, FiledInv
<1>8. AddInv'
  BY <1>2, <1>5 DEF MessageInv, AddInv, Adds
<1>9. AskInv' /\ ReplyInv' /\ HoldsInv'
  BY <1>2 DEF MessageInv, AskInv, AskOK, AskedFor, ReplyInv, HoldsInv, Holds
<1>10. QED
  BY <1>6, <1>7, <1>8, <1>9 DEF MessageInv

LEMMA CrashMessages ==
  ASSUME TypeOK, MessageInv, ServerCrash
  PROVE  MessageInv'
<1>1. /\ Place' = {} /\ UNCHANGED <<web, jobName, Used>>
      /\ reply' = [c \in Client |-> NoReply]
      /\ instances' = [n \in JobName |-> NoJob]
      /\ inst' = [j \in Job |-> Unallocated]
  BY ShiftCrash DEF ServerCrash, Crash, Used
<1>2. AddInv' /\ AskInv' /\ ReplyInv' /\ HoldsInv'
  BY <1>1 DEF AddInv, AskInv, AskOK, ReplyInv, MessageInv, HoldsInv, Holds
<1>3. RunOK(Unallocated) /\ Unallocated.phase = "none"
  BY DEF RunOK, Unallocated
<1>4. RunInv'
  <2>1. \A j \in Job : RunOK(inst[j])' <=> RunOK(Unallocated)
    BY <1>1 DEF RunOK
  <2>2. QED
    BY <1>3, <2>1 DEF RunInv
<1>5. FiledInv'
  BY <1>1, <1>3 DEF FiledInv
<1>6. QED
  BY <1>2, <1>4, <1>5 DEF MessageInv

LEMMA QuietMessages ==
  ASSUME MessageInv, Quiet
  PROVE  MessageInv'
  BY DEF Quiet, MessageInv, RunInv, RunOK, AddInv, Adds, Place, AskInv, AskOK,
     AskedFor, ReplyInv, FiledInv, HoldsInv, Holds, Used
----------------------------------------------------------------------------
(* The jobs that a request holds.                                          *)

LEMMA HoldsNothing ==
  /\ Holds(Idle) = {}
  /\ \A j \in Job : Holds([Idle EXCEPT !.pc = "adding", !.job = j]) = {}
  BY DEF Holds, Idle

LEMMA NextJobHolds ==
  ASSUME NEW ctx \in RequestState, NEW j, NEW r,
         r = NextJob(ctx, j) \/ r = NextJob(AfterSubmit(ctx), j)
  PROVE  Holds(r) \subseteq ctx.todo \cup ctx.dirty
<1>1. \A x \in RequestState : Holds(NextJob(x, j)) \subseteq x.todo \cup x.dirty
  BY DEF NextJob, Holds, RequestState, Context
<1>2. /\ AfterSubmit(ctx) \in RequestState
      /\ AfterSubmit(ctx).todo = ctx.todo
      /\ AfterSubmit(ctx).dirty \subseteq ctx.dirty
  BY AfterSubmitType DEF AfterSubmit, RequestState, Context
<1>3. QED
  BY <1>1, <1>2

LEMMA SetStatusHolds ==
  ASSUME NEW ctx \in RequestState, NEW j, NEW s, NEW r,
         r = SetStatus(ctx, j, s)
  PROVE  /\ r.pc = ctx.pc /\ r.job = ctx.job /\ r.todo = ctx.todo
         /\ r.orig = ctx.orig /\ r.dirty \subseteq ctx.dirty \cup {j}
  BY DEF SetStatus, RequestState, Context

(* A request takes up rows of the table and lets go of them.               *)
LEMMA PageHolds ==
  ASSUME TypeOK, DataContextInv, NEW c \in Client, ClientStep(c)
  PROVE  Holds(web'[c]) \subseteq Holds(web[c]) \cup table
<1>1. web[c] \in RequestState /\ ContextOK(web[c]) /\ reply[c].status \in Status
      /\ (web[c].pc \notin {"idle", "listing"} => web[c].job \in Job)
  BY AnswerType DEF DataContextInv
<1>2. \A r : Goto(c, r) => web'[c] = r
  BY DEF Goto, TypeOK
<1>3. \A r : Goto(c, r) /\ Holds(r) \subseteq Holds(web[c]) \cup table =>
        Holds(web'[c]) \subseteq Holds(web[c]) \cup table
  BY <1>2
<1>4. web[c].todo \cup web[c].dirty \subseteq Holds(web[c])
  BY DEF Holds
<1>5. CASE Goto(c, Idle) \/ \E j \in Job :
             Goto(c, [Idle EXCEPT !.pc = "adding", !.job = j])
  BY <1>3, <1>5, HoldsNothing
<1>6. CASE IndexOpen(c)
  <2> DEFINE r == [Idle EXCEPT !.pc = "listing", !.orig = row, !.mine = row,
                               !.todo = {k \in table : Polled(row[k])}]
  <2>1. Holds(r) \subseteq table
    BY DEF Idle, Holds
  <2>2. Goto(c, r)
    BY <1>6 DEF IndexOpen
  <2> HIDE DEF r
  <2>3. QED
    BY <1>3, <2>1, <2>2
<1>7. CASE \E j \in Job : DetailsOpen(c, j)
  <2>1. PICK j \in Job : DetailsOpen(c, j)
    BY <1>7
  <2> DEFINE mine == [Nothing EXCEPT ![j] = row[j]]
             r == [Idle EXCEPT !.pc = "status", !.job = j, !.orig = mine,
                               !.mine = mine]
  <2> HIDE DEF mine
  <2>2. Holds(r) = {j}
    BY DEF Idle, Holds
  <2> USE DEF mine
  <2>3. Goto(c, r) /\ j \in table
    BY <2>1 DEF DetailsOpen
  <2> HIDE DEF r
  <2>4. QED
    BY <1>3, <2>2, <2>3
<1>8. CASE \E j \in Job : IndexAsk(c, j)
  <2>1. PICK j \in Job : IndexAsk(c, j)
    BY <1>8
  <2> DEFINE r == [web[c] EXCEPT !.pc = "polling", !.job = j]
  <2>2. r.todo = web[c].todo /\ r.dirty = web[c].dirty /\ r.job = j
    BY <1>1 DEF RequestState, Context
  <2>3. Goto(c, r) /\ j \in web[c].todo
    BY <2>1 DEF IndexAsk
  <2> HIDE DEF r
  <2>4. Holds(r) \subseteq web[c].todo \cup web[c].dirty
    BY <2>2, <2>3 DEF Holds
  <2>5. QED
    BY <1>3, <1>4, <2>3, <2>4
<1>9. CASE IndexAnswer(c)
  <2> DEFINE j == web[c].job
             ctx == SetStatus(web[c], j, reply[c].status)
  <2>1. /\ Goto(c, NextJob(ctx, j)) \/ Goto(c, NextJob(AfterSubmit(ctx), j))
        /\ web[c].pc = "polling"
    BY <1>9 DEF IndexAnswer
  <2>2. ctx \in RequestState /\ j \in web[c].todo
    BY <1>1, <2>1, SetStatusType DEF ContextOK
  <2>3. ctx.todo \cup ctx.dirty \subseteq Holds(web[c])
    BY <1>1, <1>4, <2>2, SetStatusHolds
  <2> HIDE DEF ctx, j
  <2>4. QED
    BY <1>3, <2>1, <2>2, <2>3, NextJobHolds
<1>10. CASE \E j : Goto(c, NextJob(web[c], j))
  <2>1. PICK j : Goto(c, NextJob(web[c], j))
    BY <1>10
  <2>2. Holds(NextJob(web[c], j)) \subseteq web[c].todo \cup web[c].dirty
    BY <1>1, NextJobHolds
  <2>3. QED
    BY <1>3, <1>4, <2>1, <2>2
<1>11. CASE DetailsStatus(c) /\ reply[c].status # "null"
  <2> DEFINE ctx == SetStatus(web[c], web[c].job, reply[c].status)
             r == [ctx EXCEPT !.pc = "asking"]
  <2>1. Goto(c, r) /\ web[c].pc = "status"
    BY <1>11 DEF DetailsStatus
  <2>2. ctx \in RequestState
    BY <1>1, <2>1, SetStatusType
  <2>3. ctx.job = web[c].job /\ ctx.todo = web[c].todo
        /\ ctx.dirty \subseteq web[c].dirty \cup {web[c].job}
    BY <1>1, SetStatusHolds
  <2> HIDE DEF ctx
  <2>4. r.pc = "asking" /\ r.job = ctx.job /\ r.todo = ctx.todo
        /\ r.dirty = ctx.dirty
    BY <2>2 DEF RequestState, Context
  <2> HIDE DEF r
  <2>5. Holds(r) \subseteq Holds(web[c])
    BY <2>1, <2>3, <2>4 DEF Holds
  <2>6. QED
    BY <1>3, <2>1, <2>5
<1>12. CASE DetailsAsk(c)
  <2> DEFINE r == [web[c] EXCEPT !.pc = "stats"]
  <2>1. Goto(c, r) /\ web[c].pc = "asking"
    BY <1>12 DEF DetailsAsk
  <2>2. r.pc = "stats" /\ r.job = web[c].job /\ r.todo = web[c].todo
        /\ r.dirty = web[c].dirty
    BY <1>1 DEF RequestState, Context
  <2> HIDE DEF r
  <2>3. Holds(r) \subseteq Holds(web[c])
    BY <2>1, <2>2 DEF Holds
  <2>4. QED
    BY <1>3, <2>1, <2>3
<1>13. QED
  BY <1>5, <1>6, <1>7, <1>8, <1>9, <1>10, <1>11, <1>12
  DEF ClientStep, Serve, CreatePost, CreateDone, InsertRow, CreateThrows,
      IndexNoAnswer, IndexDone, DetailsStatus, DetailsStats, DetailsThrows

(* A posted job's name is known, and only posted jobs have rows.           *)
LEMMA TableUsed ==
  ASSUME TypeOK, DataContextInv
  PROVE  /\ table \subseteq Used
         /\ \A c \in Client : Adding(c) => web[c].job \in Used
  BY DEF TypeOK, DataContextInv, Adding, RequestState, Used

LEMMA ClientHolds ==
  ASSUME TypeOK, DataContextInv, MessageInv, NEW c \in Client, ClientStep(c)
  PROVE  HoldsInv'
<1>1. /\ \A e \in Client \ {c} : web'[e] = web[e]
      /\ Used \subseteq Used'
  BY ClientTalk, TalkUsed DEF Talk
<1>2. Holds(web'[c]) \subseteq Used
  BY PageHolds, TableUsed DEF MessageInv, HoldsInv
<1>3. QED
  BY <1>1, <1>2 DEF MessageInv, HoldsInv, Holds

LEMMA StepMessages ==
  ASSUME TypeOK, DataContextInv, MessageInv, [Next]_vars
  PROVE  MessageInv'
<1>1. CASE \E c \in Client : ClientStep(c)
  BY <1>1, ClientTalk, TalkMessages, ClientHolds DEF MessageInv
<1>2. QED
  BY <1>1, StepKinds, MessageMessages, PlayThreadMessages, CrashMessages,
     QuietMessages

LEMMA InitMessages == Init => MessageInv
<1> SUFFICES ASSUME Init PROVE MessageInv
  OBVIOUS
<1>1. /\ Place = {} /\ Holds(Idle) = {}
      /\ \A c \in Client : web[c] = Idle /\ reply[c] = NoReply
      /\ \A n \in JobName : instances[n] = NoJob
      /\ \A j \in Job : inst[j] = Unallocated
  <2>1. Place = {}
    <3>1. Len(queue) = 0
      BY DEF Init, ServerInit
    <3>2. QED
      BY <3>1 DEF Place
  <2>2. QED
    BY <2>1, HoldsNothing DEF Init, ServerInit
<1>2. RunOK(Unallocated) /\ Unallocated.phase = "none"
  BY DEF RunOK, Unallocated
<1>3. QED
  BY <1>1, <1>2 DEF MessageInv, RunInv, AddInv, AskInv, AskOK, ReplyInv,
     FiledInv, HoldsInv

(* A request thread has at most one question under way, about the job it   *)
(* serves and of the kind it waits for, and a reply it finds is the answer *)
(* to that question; an AddJob call is on the queue once, before its       *)
(* instance exists; the map files every instance under the name its job    *)
(* was posted with (Messaging.RequestMap and RequestText, MessageServer    *)
(* onMessage, EaServer.AddJob).                                            *)
THEOREM MessagesCorrect == Spec => []MessageInv
<1>1. Init => MessageInv
  BY InitMessages
<1>2. TypeOK /\ DataContextInv /\ MessageInv /\ [Next]_vars => MessageInv'
  BY StepMessages
<1>3. QED
  BY <1>1, <1>2, TypeCorrect, ContextCorrect, PTL DEF Spec
=============================================================================
