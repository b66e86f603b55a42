----------------------------- MODULE JobHistory -----------------------------
(***************************************************************************)
(* What JobSystem keeps true between a job's row, the copies of it that    *)
(* request threads hold, the questions and answers in flight about it, and *)
(* its EaInstance: the row and the copies tell of the instance's past,     *)
(* and each answer is at least as new as the copy it will be stored in.    *)
(***************************************************************************)
EXTENDS JobSystem

(* The play thread: its status goes with its place in run().               *)
RunOK(i) ==
  /\ i.phase \in {"none", "spawned"} => i.status = "null"
  /\ i.phase = "init" => i.status = "Initializing"
  /\ i.phase \in {"loop", "sampled"} => i.status = "Running"
  /\ i.phase \in {"finish", "report"} => i.status = "Finishing"
  /\ i.final => i.phase \in {"report", "dead"}

RunInv == \A j \in Job : RunOK(inst[j])
----------------------------------------------------------------------------
(* Messages.  A thread waits for one reply at a time; its question is on   *)
(* the queue, or the reply is in its temporary queue, or neither.          *)
WaitsFor(pc) ==
  IF pc = "adding" THEN "AddJob"
  ELSE IF pc \in {"polling", "status"} THEN "GetStatus"
  ELSE IF pc = "stats" THEN "GetStatistics" ELSE "none"

Place == 1..Len(queue)
Adds(i, j) == queue[i].verb = "AddJob" /\ queue[i].job = j

(* Every AddJob call is on the queue once, before its instance exists.     *)
AddInv ==
  \A j \in Job : \A i \in Place : Adds(i, j) =>
    /\ j \in Used /\ queue[i].name = jobName[j] /\ inst[j].phase = "none"
    /\ \A h \in Place : Adds(h, j) => h = i

AskedFor(c, m) ==
  /\ reply[c] = NoReply
  /\ m.verb = WaitsFor(web[c].pc)
  /\ m.verb # "AddJob" => m.name = web[c].mine[web[c].job].name

AskOK(c) ==
  \A i \in Place : queue[i].from = c =>
    AskedFor(c, queue[i]) /\ \A h \in Place : queue[h].from = c => h = i

AskInv == \A c \in Client : AskOK(c)

ReplyInv ==
  \A c \in Client : reply[c] # NoReply =>
    reply[c].verb = WaitsFor(web[c].pc) /\ reply[c].verb # "none"

(* The map files an instance under the name its job was posted with.       *)
FiledInv ==
  /\ \A n \in JobName : instances[n] # NoJob =>
       jobName[instances[n]] = n /\ inst[instances[n]].phase # "none"
  /\ \A j \in Job : inst[j].phase # "none" => j \in Used

(* The jobs whose copies a request may still write or ask about.           *)
Holds(ctx) ==
  ctx.todo \cup ctx.dirty
    \cup (IF ctx.pc \in {"polling", "status", "asking", "stats"}
          THEN {ctx.job} ELSE {})

HoldsInv == \A c \in Client : Holds(web[c]) \subseteq Used

MessageInv ==
  RunInv /\ AddInv /\ AskInv /\ ReplyInv /\ FiledInv /\ HoldsInv
----------------------------------------------------------------------------
(* The past of a job's instance, for a job that nothing has disturbed.     *)
Known(j) == instances[jobName[j]] = j
Unique(j) == \A k \in Used : jobName[k] = jobName[j] => k = j
Posted(j) == Known(j) \/ \E i \in Place : Adds(i, j)

PastStatus(j, s) ==
  \/ s = "Submitted"
  \/ Known(j) /\ Board!NotBefore(s, inst[j].status)

PastStats(j, d) ==
  d.kind = "doc" =>
    Known(j) /\ d.gens <= inst[j].gens /\ (d.final => inst[j].final)

PastRow(j, r) ==
  r.name = jobName[j] /\ PastStatus(j, r.status) /\ PastStats(j, r.stats)

(* A copy with the changes made to it: only the status may have moved on.  *)
CopyOK(j, ctx) ==
  /\ PastRow(j, ctx.orig[j]) /\ PastRow(j, ctx.mine[j])
  /\ Board!NotBefore(ctx.orig[j].status, ctx.mine[j].status)
  /\ ctx.mine[j].stats = ctx.orig[j].stats

Asks(c, j) == web[c].pc \in {"polling", "status", "stats"} /\ web[c].job = j

(* A question about a job stands behind the AddJob call of that job.       *)
OrderOK(c, j) ==
  \A i, h \in Place : queue[i].from = c /\ Adds(h, j) => h < i

(* The answer a thread is about to take in.                                *)
AnswerOK(c, j) ==
  LET r == web[c].orig[j]
      s == reply[c].status
      t == reply[c].stats IN
  /\ Known(j)
  /\ web[c].pc \in {"polling", "status"} =>
       Board!NotBefore(r.status, s) /\ Board!NotBefore(s, inst[j].status)
  /\ web[c].pc = "stats" =>
       /\ StatsGrow(r.stats, t) /\ PastStats(j, t)
       /\ web[c].mine[j].status = "Complete" => t.final

JobOK(j) ==
  /\ Unique(j) /\ Posted(j)
  /\ j \in table => PastRow(j, row[j])
  /\ \A c \in Client :
       /\ j \in Holds(web[c]) => CopyOK(j, web[c])
       /\ Asks(c, j) => OrderOK(c, j)
       /\ Asks(c, j) /\ reply[c] # NoReply => AnswerOK(c, j)

HistoryInv == MessageInv /\ \A j \in Used \ disturbed : JobOK(j)
=============================================================================
