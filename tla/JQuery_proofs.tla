---------------------------- MODULE JQuery_proofs ----------------------------
(***************************************************************************)
(* Proofs about the jQuery core and the wizard that uses it: Ajax for any  *)
(* set of requests, Effects and Wizard for any elements and animations.    *)
(***************************************************************************)
EXTENDS Ajax, Wizard, FiniteSetTheorems, SequenceTheorems,
        WellFoundedInduction, TLAPS

----------------------------------------------------------------------------
(* Ajax.                                                                   *)

(* What holds of each request: it is polled until it is done or aborted,   *)
(* a script is loading until it is done, and before it is done nobody has  *)
(* been told anything.                                                     *)
RequestInv(q) ==
  /\ q.kind = "none" => ~q.ival /\ ~q.loading /\ ~q.requestDone
  /\ q.loading => ~q.ival /\ ~q.timer /\ q.readyState = 0 /\ ~q.requestDone
  /\ q.requestDone => ~q.ival
  /\ q.readyState # 0 /\ ~q.requestDone => q.ival
  /\ ~q.requestDone => /\ q.completes = 0
                       /\ q.answers = IF q.sendThrew THEN 1 ELSE 0
  /\ q.answers <= IF q.sendThrew THEN 2 ELSE 1
  /\ q.kind # "jsonp" => q.completes <= 1

Counts(q) == IF q.global /\ (q.ival \/ q.loading) THEN 1 ELSE 0

(* A step of a request from q to p that changes jQuery.active by d.        *)
Moves(q, p, d) ==
  /\ p \in RequestState /\ RequestInv(p) /\ d \in Int
  /\ CompletedOnce(p) => CompletedOnce(q) /\ d = Counts(p) - Counts(q)

Counted == {r \in Request : /\ request[r].global
                            /\ request[r].ival \/ request[r].loading}

AjaxInv ==
  /\ AjaxTypeOK /\ \A r \in Request : RequestInv(request[r])
  /\ IsFiniteSet(Counted) /\ ActiveMatches

(* A call that beforeSend cancels leaves its record alone but for the kind.*)
LEMMA CancelledMoves ==
  ASSUME NEW q \in RequestState, RequestInv(q), q.kind = "none",
         NEW k \in {"xhr", "jsonp"}, NEW p, p = [q EXCEPT !.kind = k]
  PROVE  Moves(q, p, 0)
  BY DEF RequestState, RequestInv, Moves, Counts, CompletedOnce

\* What a call sets.
Begun(q, k, g, t, i, l, n, x, a) ==
  [q EXCEPT !.kind = k, !.global = g, !.timer = t, !.ival = i, !.loading = l,
            !.readyState = n, !.sendThrew = x, !.answers = a]

(* The fields of a request that a call sets.                               *)
LEMMA StartFields ==
  ASSUME NEW q, NEW k, NEW g, NEW t, NEW i, NEW l, NEW n, NEW x, NEW a,
         q \in RequestState, k \in {"xhr", "jsonp", "script"},
         g \in BOOLEAN, t \in BOOLEAN, i \in BOOLEAN, l \in BOOLEAN,
         n \in {0, 1}, x \in BOOLEAN, a \in {0, 1}
  PROVE  LET p == Begun(q, k, g, t, i, l, n, x, a)
         IN /\ p \in RequestState
            /\ p.kind = k /\ p.global = g /\ p.timer = t /\ p.ival = i
            /\ p.loading = l /\ p.readyState = n
            /\ p.sendThrew = x /\ p.answers = a
            /\ p.requestDone = q.requestDone
            /\ p.completes = q.completes
<1> DEFINE p == Begun(q, k, g, t, i, l, n, x, a)
<1> DEFINE u == [q EXCEPT !.kind = k, !.global = g, !.timer = t, !.ival = i]
<1>1. /\ u \in RequestState
      /\ u.kind = k /\ u.global = g /\ u.timer = t /\ u.ival = i
      /\ u.requestDone = q.requestDone /\ u.completes = q.completes
  BY DEF RequestState
<1> DEFINE w == [u EXCEPT !.loading = l, !.readyState = n]
<1>2. p = [w EXCEPT !.sendThrew = x, !.answers = a]
  BY DEF Begun
<1> HIDE DEF u
<1>3. w \in RequestState
  BY <1>1 DEF RequestState
<1>4. /\ w.kind = u.kind /\ w.global = u.global /\ w.timer = u.timer
      /\ w.ival = u.ival /\ w.loading = l /\ w.readyState = n
      /\ w.requestDone = u.requestDone /\ w.completes = u.completes
  BY <1>1 DEF RequestState
<1> HIDE DEF w
<1>50. a \in 0..2 /\ x \in BOOLEAN
  OBVIOUS
<1>51. p \in RequestState
  BY <1>2, <1>3, <1>50 DEF RequestState
<1>5. /\ p.kind = w.kind /\ p.global = w.global /\ p.timer = w.timer
      /\ p.ival = w.ival /\ p.loading = w.loading
      /\ p.readyState = w.readyState
      /\ p.sendThrew = x /\ p.answers = a
      /\ p.requestDone = w.requestDone /\ p.completes = w.completes
  BY <1>2, <1>3 DEF RequestState
<1> QED
  BY <1>1, <1>4, <1>5, <1>51

(* A request that starts counts if it is global.                           *)
LEMMA StartMoves ==
  ASSUME NEW q \in RequestState, RequestInv(q), q.kind = "none",
         NEW p \in RequestState, NEW g \in BOOLEAN,
         p.kind # "none", p.global = g,
         p.loading => ~p.ival /\ ~p.timer /\ p.readyState = 0,
         ~p.loading => p.ival,
         p.answers = IF p.sendThrew THEN 1 ELSE 0,
         p.requestDone = q.requestDone, p.completes = q.completes
  PROVE  Moves(q, p, IF g THEN 1 ELSE 0)
<1>1. ~q.requestDone /\ q.completes = 0 /\ Counts(q) = 0
  BY DEF RequestInv, Counts
<1>2. RequestInv(p)
  BY <1>1 DEF RequestInv
<1>3. Counts(p) = IF g THEN 1 ELSE 0
  BY DEF Counts
<1> QED
  BY <1>1, <1>2, <1>3 DEF Moves, CompletedOnce

(* The readyState of a request under way changes what nobody counts.       *)
LEMMA ReadyMoves ==
  ASSUME NEW q \in RequestState, RequestInv(q), q.readyState # 0,
         NEW n \in {0, 4}, NEW p, p = [q EXCEPT !.readyState = n]
  PROVE  Moves(q, p, 0)
  BY DEF RequestState, RequestInv, Moves, Counts, CompletedOnce

(* abort and the timeout stop the polling, and the count with it.          *)
LEMMA AbortedMoves ==
  ASSUME NEW q \in RequestState, RequestInv(q), q.readyState = 0,
         q.ival \/ q.timer, NEW t \in BOOLEAN,
         NEW p, p = [q EXCEPT !.ival = FALSE, !.timer = t]
  PROVE  Moves(q, p, 0 - (IF q.ival /\ q.global THEN 1 ELSE 0))
<1>1. /\ p \in RequestState
      /\ p.kind = q.kind /\ p.global = q.global /\ p.timer = t /\ ~p.ival
      /\ p.loading = q.loading /\ p.readyState = q.readyState
      /\ p.sendThrew = q.sendThrew /\ p.answers = q.answers
      /\ p.requestDone = q.requestDone /\ p.completes = q.completes
  BY DEF RequestState
<1>2. ~q.loading
  BY DEF RequestInv
<1>3. RequestInv(p)
  BY <1>1, <1>2 DEF RequestInv
<1>4. Counts(q) = IF q.ival /\ q.global THEN 1 ELSE 0
  BY <1>2 DEF Counts
<1>5. Counts(p) = 0
  BY <1>1, <1>2 DEF Counts
<1> QED
  BY <1>1, <1>3, <1>4, <1>5 DEF Moves, CompletedOnce

(* What the callbacks of an answer do.                                     *)
LEMMA OutcomeFields ==
  ASSUME NEW kind, NEW ok, NEW o \in Outcome(kind, ok)
  PROVE  /\ o.answers \in 0..1 /\ o.completes \in 0..2 /\ o.threw \in BOOLEAN
         /\ kind # "jsonp" => o.completes <= 1
  BY DEF Outcome

(* The end of a request: one count down for every complete callback.       *)
LEMMA FinishMoves ==
  ASSUME NEW q \in RequestState, RequestInv(q), q.ival \/ q.loading,
         ~q.requestDone, NEW ok \in BOOLEAN, NEW isTimeout \in BOOLEAN,
         NEW o \in Outcome(q.kind, ok),
         NEW p, p = finished(q, o, isTimeout)
  PROVE  Moves(q, p, 0 - (IF q.global THEN o.completes ELSE 0))
<1>1. /\ o.answers \in 0..1 /\ o.completes \in 0..2 /\ o.threw \in BOOLEAN
      /\ q.kind # "jsonp" => o.completes <= 1
  BY OutcomeFields
<1>2. /\ q.answers \in 0..1 /\ q.completes = 0
      /\ q.answers = IF q.sendThrew THEN 1 ELSE 0
  BY DEF RequestInv
<1>3. q.answers + o.answers \in 0..2
  BY <1>1, <1>2
<1>4. /\ p \in RequestState
      /\ p.kind = q.kind /\ p.global = q.global /\ ~p.ival
      /\ ~p.loading /\ p.sendThrew = q.sendThrew
      /\ p.answers = q.answers + o.answers
      /\ p.requestDone /\ p.completes = o.completes
  BY <1>1, <1>3, ZenonT(30) DEF RequestState, finished
<1>5. RequestInv(p)
  BY <1>1, <1>2, <1>4 DEF RequestInv
<1> QED
  BY <1>1, <1>2, <1>4, <1>5 DEF Moves, Counts, CompletedOnce

(* A timeout that comes too late.                                          *)
LEMMA TimerMoves ==
  ASSUME NEW q \in RequestState, RequestInv(q),
         NEW p, p = [q EXCEPT !.timer = FALSE]
  PROVE  Moves(q, p, 0)
<1>1. /\ p \in RequestState
      /\ p.kind = q.kind /\ p.global = q.global /\ ~p.timer
      /\ p.ival = q.ival
      /\ p.loading = q.loading /\ p.readyState = q.readyState
      /\ p.sendThrew = q.sendThrew /\ p.answers = q.answers
      /\ p.requestDone = q.requestDone /\ p.completes = q.completes
  BY DEF RequestState
<1>2. RequestInv(p)
  BY <1>1 DEF RequestInv
<1>3. Counts(q) = Counts(p) /\ Counts(q) \in Int
  BY <1>1 DEF Counts
<1> QED
  BY <1>1, <1>2, <1>3 DEF Moves, CompletedOnce

(* Every step is of one request.                                           *)
LEMMA AjaxMoves ==
  ASSUME AjaxTypeOK, \A r \in Request : RequestInv(request[r]), AjaxNext
  PROVE  \E r \in Request : \E p : \E d \in Int :
           /\ request' = [request EXCEPT ![r] = p]
           /\ active' = active + d
           /\ Moves(request[r], p, d)
<1>1. PICK r \in Request :
        \/ \E s \in Setting : Cancelled(r, s) \/ ajax(r, s)
        \/ Arrive(r) \/ Abort(r) \/ Poll(r) \/ Timeout(r) \/ Loaded(r)
  BY DEF AjaxNext
<1> DEFINE q == request[r]
           Goal(p, d) == /\ request' = [request EXCEPT ![r] = p]
                         /\ active' = active + d
                         /\ Moves(q, p, d)
<1>2. q \in RequestState /\ RequestInv(q) /\ active \in Int
  BY DEF AjaxTypeOK
<1>4. ASSUME NEW s \in Setting, Cancelled(r, s)
      PROVE  \E p, d : Goal(p, d)
  <2>1. s.kind \in {"xhr", "jsonp"}
    BY <1>4 DEF Cancelled, Setting
  <2>2. /\ q.kind = "none" /\ active' = active + 0
        /\ request' = [request EXCEPT ![r] = [q EXCEPT !.kind = s.kind]]
    BY <1>2, <1>4 DEF Cancelled, Started
  <2>3. Moves(q, [q EXCEPT !.kind = s.kind], 0)
    BY <1>2, <2>1, <2>2, CancelledMoves
  <2> QED
    BY <2>2, <2>3
<1>5. ASSUME NEW s \in Setting, ajax(r, s)
      PROVE  \E p, d : Goal(p, d)
  <2> DEFINE l == s.kind = "script"
  <2>1. PICK x \in (IF l THEN {FALSE} ELSE BOOLEAN) :
          request' = [request EXCEPT ![r] =
            [@ EXCEPT !.kind = s.kind, !.global = s.global,
                      !.timer = s.timed /\ ~l,
                      !.ival = ~l, !.loading = l,
                      !.readyState = IF l THEN 0 ELSE 1,
                      !.sendThrew = x,
                      !.answers = IF x THEN 1 ELSE 0]]
    BY <1>5 DEF ajax
  <2> DEFINE k == s.kind
             g == s.global
             t == s.timed /\ ~l
             i == ~l
             n == IF l THEN 0 ELSE 1
             a == IF x THEN 1 ELSE 0
             p == Begun(q, k, g, t, i, l, n, x, a)
             d == IF g THEN 1 ELSE 0
  <2>2. request' = [request EXCEPT ![r] = p] /\ active' = active + d
    BY <1>5, <2>1 DEF ajax, Begun
  <2>3. q.kind = "none"
    BY <1>5 DEF ajax, Started
  <2>4. k \in {"xhr", "jsonp", "script"} /\ g \in BOOLEAN
    BY DEF Setting
  <2>5. x \in BOOLEAN /\ l \in BOOLEAN /\ t \in BOOLEAN /\ i \in BOOLEAN
    BY <2>1
  <2>6. n \in {0, 1} /\ a \in {0, 1} /\ (a = IF x THEN 1 ELSE 0)
    OBVIOUS
  <2>7. (l => ~i /\ ~t /\ n = 0) /\ (~l => i)
    OBVIOUS
  <2> HIDE DEF l, k, g, t, i, n, a
  <2>8. p = Begun(q, k, g, t, i, l, n, x, a)
    OBVIOUS
  <2> HIDE DEF p, q
  <2>9. /\ p \in RequestState
        /\ p.kind = k /\ p.global = g /\ p.timer = t /\ p.ival = i
        /\ p.loading = l /\ p.readyState = n
        /\ p.sendThrew = x /\ p.answers = a
        /\ p.requestDone = q.requestDone /\ p.completes = q.completes
      BY <1>2, <2>4, <2>5, <2>6, <2>8, StartFields
  <2>10. /\ p.kind # "none"
         /\ p.loading => ~p.ival /\ ~p.timer /\ p.readyState = 0
         /\ ~p.loading => p.ival
         /\ p.answers = IF p.sendThrew THEN 1 ELSE 0
    BY <2>4, <2>5, <2>6, <2>7, <2>9
  <2>11. Moves(q, p, d)
    BY <1>2, <2>3, <2>4, <2>9, <2>10, StartMoves
  <2> QED
    BY <2>2, <2>11 DEF q
<1>6. ASSUME Arrive(r) \/ Abort(r)
      PROVE  \E p, d : Goal(p, d)
  <2>1. PICK n \in {0, 4} :
          /\ q.readyState # 0 /\ active' = active + 0
          /\ request' = [request EXCEPT ![r] = [q EXCEPT !.readyState = n]]
    BY <1>2, <1>6 DEF Arrive, Abort
  <2>2. Moves(q, [q EXCEPT !.readyState = n], 0)
    BY <1>2, <2>1, ReadyMoves
  <2> QED
    BY <2>1, <2>2
<1>7. ASSUME NEW t \in BOOLEAN, aborted(r, t), q.readyState = 0,
             q.ival \/ q.timer
      PROVE  \E p, d : Goal(p, d)
  <2> DEFINE p == [q EXCEPT !.ival = FALSE, !.timer = t]
             d == 0 - (IF q.ival /\ q.global THEN 1 ELSE 0)
  <2>0. request' = [request EXCEPT ![r] = p]
    BY <1>7, Zenon DEF aborted
  <2>1. active' = active + d
    BY <1>2, <1>7 DEF aborted
  <2>2. Moves(q, p, d)
    BY <1>2, <1>7, AbortedMoves
  <2> QED
    BY <2>0, <2>1, <2>2
<1>8. ASSUME NEW ok \in BOOLEAN, NEW isTimeout \in BOOLEAN,
             finish(r, ok, isTimeout), q.ival \/ q.loading, ~q.requestDone
      PROVE  \E p, d : Goal(p, d)
  <2>1. PICK o \in Outcome(q.kind, ok) :
          /\ request' = [request EXCEPT ![r] = finished(request[r], o, isTimeout)]
          /\ active' = active - (IF q.global THEN o.completes ELSE 0)
    BY <1>8, Zenon DEF finish, finished
  <2> DEFINE p == finished(q, o, isTimeout)
             d == 0 - (IF q.global THEN o.completes ELSE 0)
  <2>2. o.completes \in Int
    BY OutcomeFields
  <2>3. active' = active + d
    BY <1>2, <2>1, <2>2
  <2>4. Moves(q, p, d)
    BY <1>2, <1>8, FinishMoves
  <2> QED
    BY <2>1, <2>3, <2>4
<1>9. ASSUME Poll(r)
      PROVE  \E p, d : Goal(p, d)
  <2>1. q.timer \in BOOLEAN /\ q.ival
    BY <1>2, <1>9 DEF RequestState, Poll
  <2> QED
    BY <1>7, <1>8, <1>9, <2>1 DEF Poll
<1>10. ASSUME Timeout(r)
       PROVE  \E p, d : Goal(p, d)
  <2>1. CASE q.requestDone
    <3>1. /\ request' = [request EXCEPT ![r] = [q EXCEPT !.timer = FALSE]]
          /\ active' = active + 0
      BY <1>2, <1>10, <2>1 DEF Timeout
    <3>2. Moves(q, [q EXCEPT !.timer = FALSE], 0)
      BY <1>2, TimerMoves
    <3> QED
      BY <3>1, <3>2
  <2>2. CASE ~q.requestDone /\ q.readyState = 0
    BY <1>7, <1>10, <2>2 DEF Timeout
  <2>3. CASE ~q.requestDone /\ q.readyState # 0
    <3>1. q.ival /\ finish(r, FALSE, TRUE)
      BY <1>2, <1>10, <2>3 DEF Timeout, RequestInv
    <3> QED
      BY <1>8, <2>3, <3>1
  <2> QED
    BY <2>1, <2>2, <2>3
<1>11. ASSUME Loaded(r)
       PROVE  \E p, d : Goal(p, d)
  <2>1. q.loading /\ ~q.requestDone /\ finish(r, TRUE, FALSE)
    BY <1>2, <1>11 DEF Loaded, RequestInv
  <2> QED
    BY <1>8, <2>1
<1>12. \E p, d : Goal(p, d)
  BY <1>1, <1>4, <1>5, <1>6, <1>9, <1>10, <1>11
<1>13. \E p, d : d \in Int /\ Goal(p, d)
  BY <1>12 DEF Moves
<1> QED
  BY <1>13

(* jQuery.active follows the requests that count.                          *)
LEMMA ActiveMoves ==
  ASSUME AjaxInv, NEW r \in Request, NEW p, NEW d \in Int,
         request' = [request EXCEPT ![r] = p], active' = active + d,
         Moves(request[r], p, d)
  PROVE  AjaxInv'
<1>1. /\ request \in [Request -> RequestState] /\ active \in Int
      /\ IsFiniteSet(Counted) /\ ActiveMatches
  BY DEF AjaxInv, AjaxTypeOK
<1>2. /\ request'[r] = p /\ p \in RequestState /\ RequestInv(p)
      /\ \A s \in Request \ {r} : request'[s] = request[s]
  BY <1>1 DEF Moves
<1>3. AjaxTypeOK' /\ \A s \in Request : RequestInv(request'[s])
  BY <1>1, <1>2 DEF AjaxInv, AjaxTypeOK
<1> DEFINE in == p.global /\ (p.ival \/ p.loading)
           was == request[r].global /\ (request[r].ival \/ request[r].loading)
<1>4. /\ Counts(p) = IF in THEN 1 ELSE 0
      /\ Counts(request[r]) = IF was THEN 1 ELSE 0
  BY DEF Counts
<1>5. /\ (r \in Counted') = in /\ (r \in Counted) = was
      /\ \A s \in Request \ {r} : (s \in Counted') = (s \in Counted)
  BY <1>2 DEF Counted
<1> HIDE DEF in, was
<1>6. Counted' = IF in THEN Counted \cup {r} ELSE Counted \ {r}
  BY <1>5 DEF Counted
<1>7. PICK c : c = Cardinality(Counted) /\ c \in Nat
  BY <1>1, FS_CardinalityType
<1>8. /\ IsFiniteSet(Counted')
      /\ Cardinality(Counted') = c + (IF in THEN 1 ELSE 0)
                                   - (IF was THEN 1 ELSE 0)
  <2>1. CASE in
    <3>1. /\ IsFiniteSet(Counted \cup {r})
          /\ Cardinality(Counted \cup {r}) = IF was THEN c ELSE c + 1
      BY <1>1, <1>5, <1>7, FS_AddElement
    <3> QED
      BY <1>6, <1>7, <2>1, <3>1
  <2>2. CASE ~in
    <3>1. /\ IsFiniteSet(Counted \ {r})
          /\ Cardinality(Counted \ {r}) = IF was THEN c - 1 ELSE c
      BY <1>1, <1>5, <1>7, FS_RemoveElement
    <3> QED
      BY <1>6, <1>7, <2>2, <3>1
  <2> QED
    BY <2>1, <2>2
<1>9. ASSUME \A s \in Request : CompletedOnce(request'[s])
      PROVE  active' = Cardinality(Counted')
  <2>1. CompletedOnce(p)
    BY <1>2, <1>9
  <2>2. CompletedOnce(request[r]) /\ d = Counts(p) - Counts(request[r])
    BY <2>1 DEF Moves
  <2>3. \A s \in Request : CompletedOnce(request[s])
    BY <1>2, <1>9, <2>2
  <2>4. active = c
    BY <1>1, <1>7, <2>3 DEF ActiveMatches, Counted
  <2> QED
    BY <1>1, <1>4, <1>7, <1>8, <2>2, <2>4
<1> QED
  BY <1>3, <1>8, <1>9 DEF AjaxInv, ActiveMatches, Counted

(* Every behaviour of Ajax keeps the invariant.                            *)
LEMMA AjaxInvariant == AjaxSpec => []AjaxInv
<1>1. AjaxInit => AjaxInv
  <2>1. SUFFICES ASSUME AjaxInit PROVE AjaxInv
    OBVIOUS
  <2>2. Counted = {}
    BY <2>1 DEF AjaxInit, Counted
  <2>3. AjaxTypeOK /\ \A r \in Request : RequestInv(request[r])
    BY <2>1 DEF AjaxInit, AjaxTypeOK, RequestState, RequestInv
  <2> QED
    BY <2>1, <2>2, <2>3, FS_EmptySet
    DEF AjaxInv, ActiveMatches, AjaxInit, Counted
<1>2. AjaxInv /\ [AjaxNext]_ajaxVars => AjaxInv'
  <2>1. CASE AjaxNext
    BY <2>1, AjaxMoves, ActiveMoves DEF AjaxInv
  <2>2. CASE UNCHANGED ajaxVars
    BY <2>2 DEF ajaxVars, AjaxInv, AjaxTypeOK, ActiveMatches, Counted
  <2> QED
    BY <2>1, <2>2
<1> QED
  BY <1>1, <1>2, PTL DEF AjaxSpec

(* Every variable has its type.  As long as no callback has thrown and no  *)
(* JSONP answer has completed twice, jQuery.active counts the requests     *)
(* still polled or loading, for any number of requests (jquery-1.3.2.js    *)
(* 3460-3644).                                                             *)
THEOREM ActiveCounts == AjaxSpec => [](AjaxTypeOK /\ ActiveMatches)
<1>1. AjaxInv => AjaxTypeOK /\ ActiveMatches
  BY DEF AjaxInv
<1> QED
  BY <1>1, AjaxInvariant, PTL

(* No race of answer, abort and timeout answers a caller twice, and an     *)
(* aborted request says nothing (jquery-1.3.2.js 3540-3625).               *)
THEOREM AnsweredOnce == AjaxSpec => []OneAnswer
<1>1. AjaxInv => OneAnswer
  BY DEF AjaxInv, AjaxTypeOK, RequestState, RequestInv, OneAnswer
<1> QED
  BY <1>1, AjaxInvariant, PTL
----------------------------------------------------------------------------
(* Lists.                                                                  *)

(* A set of numbers that is not empty has a least element.                 *)
LEMMA Least ==
  ASSUME NEW P \in SUBSET Nat, P # {}
  PROVE \E n \in P : \A m \in P : n <= m
<1>1. PICK n \in P : \A y \in P : ~(<<y, n>> \in OpToRel(<, Nat))
  BY NatLessThanWellFounded, WFMin, Zenon
<1>2. \A y \in P : ~(y < n)
  BY <1>1 DEF OpToRel
<1> QED BY <1>2

(* f is the recursive function by which Without is defined, on 0..n.       *)
Kept(s, X, n, f) ==
  f = [i \in 0..n |->
         IF i = 0 THEN <<>>
         ELSE IF s[i] \in X THEN f[i - 1] ELSE Append(f[i - 1], s[i])]

(* There is such a function; the least n without one would be one more than*)
(* an n with one.                                                          *)
LEMMA KeptExists ==
  ASSUME NEW s, NEW X, NEW n \in Nat
  PROVE  \E f : Kept(s, X, n, f)
<1> DEFINE Bad == {k \in Nat : ~\E f : Kept(s, X, k, f)}
<1>1. SUFFICES ASSUME Bad # {} PROVE FALSE
  OBVIOUS
<1>2. PICK m \in Bad : \A k \in Bad : m <= k
  BY <1>1, Least
<1>3. m \in Nat /\ ~\E f : Kept(s, X, m, f)
  BY <1>2
<1>4. m # 0
  <2>1. Kept(s, X, 0, [i \in 0..0 |-> <<>>])
    BY DEF Kept
  <2> QED
    BY <1>3, <2>1
<1>5. m - 1 \in Nat /\ m - 1 \notin Bad
  BY <1>2, <1>3, <1>4
<1>6. PICK f : Kept(s, X, m - 1, f)
  BY <1>5
<1> DEFINE g == [i \in 0..m |->
                   IF i < m THEN f[i]
                   ELSE IF s[m] \in X THEN f[m - 1] ELSE Append(f[m - 1], s[m])]
           h == [i \in 0..m |->
                   IF i = 0 THEN <<>>
                   ELSE IF s[i] \in X THEN g[i - 1] ELSE Append(g[i - 1], s[i])]
<1>7. ASSUME NEW i \in 0..m PROVE g[i] = h[i]
  <2>1. CASE i = m
    BY <1>3, <1>4, <1>7, <2>1
  <2>2. CASE i # m
    <3>1. i \in 0..(m - 1) /\ g[i] = f[i]
      BY <1>3, <1>4, <1>7, <2>2
    <3>2. f[i] = IF i = 0 THEN <<>>
                 ELSE IF s[i] \in X THEN f[i - 1] ELSE Append(f[i - 1], s[i])
      BY <1>6, <3>1 DEF Kept
    <3>3. i # 0 => i - 1 \in 0..m /\ i - 1 < m /\ g[i - 1] = f[i - 1]
      BY <1>3, <3>1
    <3> QED
      BY <3>1, <3>2, <3>3
  <2> QED
    BY <2>1, <2>2
<1>8. g = h
  BY <1>7
<1>9. Kept(s, X, m, g)
  BY <1>8 DEF Kept
<1> QED
  BY <1>3, <1>9

(* Without is what that function returns for the whole list.               *)
LEMMA WithoutKept ==
  ASSUME NEW s, NEW X, Len(s) \in Nat
  PROVE  \E f : Kept(s, X, Len(s), f) /\ Without(s, X) = f[Len(s)]
<1> DEFINE c == CHOOSE f : Kept(s, X, Len(s), f)
<1>1. Kept(s, X, Len(s), c)
  BY KeptExists
<1>2. Without(s, X) = c[Len(s)]
  BY Zenon DEF Without, Kept
<1> QED
  BY <1>1, <1>2

(* What Without returns: a list of the elements of s that are not in X,    *)
(* all of them.                                                            *)
Keeps(s, S, X, n, l) ==
  /\ l \in Seq(S \ X)
  /\ \A i \in 1..n : s[i] \notin X => \E j \in 1..Len(l) : l[j] = s[i]

(* By the least n at which it fails, again.                                *)
LEMMA WithoutKeeps ==
  ASSUME NEW S, NEW s \in Seq(S), NEW X
  PROVE  Keeps(s, S, X, Len(s), Without(s, X))
<1>0. Len(s) \in Nat
  OBVIOUS
<1>1. PICK f : Kept(s, X, Len(s), f) /\ Without(s, X) = f[Len(s)]
  BY <1>0, WithoutKept
<1> DEFINE Bad == {n \in 0..Len(s) : ~Keeps(s, S, X, n, f[n])}
<1>2. SUFFICES ASSUME Bad # {} PROVE FALSE
  BY <1>0, <1>1
<1>3. PICK m \in Bad : \A n \in Bad : m <= n
  <2>1. Bad \in SUBSET Nat
    BY <1>0
  <2> HIDE DEF Bad
  <2> QED
    BY <1>2, <2>1, Least
<1>4. m \in 0..Len(s) /\ ~Keeps(s, S, X, m, f[m])
  BY <1>3
<1>5. f[m] = IF m = 0 THEN <<>>
             ELSE IF s[m] \in X THEN f[m - 1] ELSE Append(f[m - 1], s[m])
  BY <1>1, <1>4 DEF Kept
<1>6. m # 0
  <2>1. Keeps(s, S, X, 0, <<>>)
    BY DEF Keeps
  <2> QED
    BY <1>4, <1>5, <2>1
<1>7. m - 1 \in 0..Len(s) /\ m - 1 \notin Bad
  BY <1>0, <1>3, <1>4, <1>6
<1>8. Keeps(s, S, X, m - 1, f[m - 1])
  BY <1>7
<1> DEFINE l == f[m - 1]
           x == s[m]
<1>9. x \in S
  BY <1>4, <1>6
<1>10. l \in Seq(S \ X)
  BY <1>8 DEF Keeps
<1>11. ASSUME NEW i \in 1..m, i # m, s[i] \notin X
       PROVE  \E j \in 1..Len(l) : l[j] = s[i]
  BY <1>0, <1>4, <1>6, <1>8, <1>11 DEF Keeps
<1> HIDE DEF l
<1>12. CASE x \in X
  <2>1. f[m] = l
    BY <1>5, <1>6, <1>12 DEF l
  <2>2. Keeps(s, S, X, m, l)
    BY <1>10, <1>11, <1>12 DEF Keeps
  <2> QED
    BY <1>4, <2>1, <2>2
<1>13. CASE x \notin X
  <2>1. f[m] = Append(l, x)
    BY <1>5, <1>6, <1>13 DEF l
  <2>2. Append(l, x) \in Seq(S \ X)
    BY <1>9, <1>10, <1>13
  <2>3. ASSUME NEW i \in 1..m, s[i] \notin X
        PROVE  \E j \in 1..Len(Append(l, x)) : Append(l, x)[j] = s[i]
    <3>0. Len(l) \in Nat /\ Len(Append(l, x)) = Len(l) + 1
      BY <1>10
    <3>1. CASE i = m
      <4>1. Append(l, x)[Len(l) + 1] = x
        BY <1>10
      <4> QED
        BY <3>0, <3>1, <4>1
    <3>2. CASE i # m
      <4>1. PICK j \in 1..Len(l) : l[j] = s[i]
        BY <1>11, <2>3, <3>2
      <4>2. Append(l, x)[j] = l[j]
        BY <1>10
      <4> QED
        BY <3>0, <4>1, <4>2
    <3> QED
      BY <3>1, <3>2
  <2>4. Keeps(s, S, X, m, Append(l, x))
    BY <2>2, <2>3 DEF Keeps
  <2> QED
    BY <1>4, <2>1, <2>4
<1> QED
  BY <1>12, <1>13

(* A list s without its k-th element.                                      *)
LEMMA RemovedAt ==
  ASSUME NEW S, NEW s \in Seq(S), NEW k \in 1..Len(s)
  PROVE  LET l == RemoveAt(s, k)
         IN /\ l \in Seq(S) /\ Len(l) = Len(s) - 1
            /\ \A i \in 1..Len(l) : \E j \in 1..Len(s) : j # k /\ l[i] = s[j]
            /\ \A j \in 1..Len(s) : j # k => \E i \in 1..Len(l) : l[i] = s[j]
<1> DEFINE l == RemoveAt(s, k)
           a == SubSeq(s, 1, k - 1)
           b == SubSeq(s, k + 1, Len(s))
<1>0. Len(s) \in Nat /\ k \in Nat
  OBVIOUS
<1>1. l = a \o b
  BY DEF RemoveAt
<1>2. /\ a \in Seq(S) /\ Len(a) = k - 1
      /\ \A i \in 1..(k - 1) : a[i] = s[i]
  BY <1>0
<1>3. /\ b \in Seq(S) /\ Len(b) = Len(s) - k
      /\ \A i \in 1..(Len(s) - k) : b[i] = s[k + i]
  BY <1>0
<1> HIDE DEF l, a, b
<1>4. /\ l \in Seq(S) /\ Len(l) = Len(a) + Len(b)
      /\ \A i \in 1..Len(a) + Len(b) :
           l[i] = IF i <= Len(a) THEN a[i] ELSE b[i - Len(a)]
  BY <1>1, <1>2, <1>3, ConcatProperties
<1>5. Len(l) = Len(s) - 1
  BY <1>0, <1>2, <1>3, <1>4
<1>6. ASSUME NEW i \in 1..Len(l)
      PROVE  l[i] = IF i < k THEN s[i] ELSE s[i + 1]
  <2>1. i \in 1..Len(a) + Len(b) /\ i \in Nat
    BY <1>0, <1>2, <1>3, <1>5, <1>6
  <2>2. CASE i < k
    <3>1. i <= Len(a) /\ i \in 1..(k - 1)
      BY <1>0, <1>2, <2>1, <2>2
    <3> QED
      BY <1>2, <1>4, <2>1, <2>2, <3>1
  <2>3. CASE ~(i < k)
    <3>1. ~(i <= Len(a)) /\ i - Len(a) \in 1..(Len(s) - k)
      BY <1>0, <1>2, <1>3, <2>1, <2>3
    <3>2. k + (i - Len(a)) = i + 1
      BY <1>0, <1>2, <2>1
    <3>3. b[i - Len(a)] = s[k + (i - Len(a))]
      BY <1>3, <3>1
    <3> QED
      BY <1>4, <2>1, <2>3, <3>1, <3>2, <3>3
  <2> QED
    BY <2>2, <2>3
<1>7. \A i \in 1..Len(l) : \E j \in 1..Len(s) : j # k /\ l[i] = s[j]
  BY <1>0, <1>5, <1>6
<1>8. \A j \in 1..Len(s) : j # k => \E i \in 1..Len(l) : l[i] = s[j]
  <2>1. SUFFICES ASSUME NEW j \in 1..Len(s), j # k
                 PROVE  \E i \in 1..Len(l) : l[i] = s[j]
    OBVIOUS
  <2>2. CASE j < k
    BY <1>0, <1>5, <1>6, <2>1, <2>2
  <2>3. CASE j > k
    <3>1. j - 1 \in 1..Len(l) /\ l[j - 1] = s[j]
      BY <1>0, <1>5, <1>6, <2>1, <2>3
    <3> QED
      BY <3>1
  <2> QED
    BY <1>0, <2>1, <2>2, <2>3
<1> QED
  BY <1>4, <1>5, <1>7, <1>8 DEF l

(* A list s with x inserted before its k-th element, or at its end.        *)
LEMMA InsertedAt ==
  ASSUME NEW S, NEW s \in Seq(S), NEW x \in S, NEW k \in 1..(Len(s) + 1)
  PROVE  LET l == InsertAt(s, k, x)
         IN /\ l \in Seq(S)
            /\ \E i \in 1..Len(l) : l[i] = x
            /\ \A j \in 1..Len(s) : \E i \in 1..Len(l) : l[i] = s[j]
<1> DEFINE l == InsertAt(s, k, x)
           a == SubSeq(s, 1, k - 1)
           b == SubSeq(s, k, Len(s))
           m == <<x>>
           c == a \o m
<1>0. Len(s) \in Nat /\ k \in Nat /\ k - 1 \in Nat
  OBVIOUS
<1>1. l = c \o b
  BY DEF InsertAt
<1>2. /\ a \in Seq(S) /\ Len(a) = k - 1
      /\ \A i \in 1..(k - 1) : a[i] = s[i]
  BY <1>0
<1>3. /\ b \in Seq(S) /\ Len(b) = Len(s) - k + 1
      /\ \A i \in 1..(Len(s) - k + 1) : b[i] = s[k + i - 1]
  BY <1>0
<1>4. m \in Seq(S) /\ Len(m) = 1 /\ m[1] = x
  OBVIOUS
<1> HIDE DEF l, a, b, m
<1>5. /\ c \in Seq(S) /\ Len(c) = Len(a) + Len(m)
      /\ \A i \in 1..Len(a) + Len(m) :
           c[i] = IF i <= Len(a) THEN a[i] ELSE m[i - Len(a)]
  BY <1>2, <1>4, ConcatProperties
<1> HIDE DEF c
<1>6. /\ l \in Seq(S) /\ Len(l) = Len(c) + Len(b)
      /\ \A i \in 1..Len(c) + Len(b) :
           l[i] = IF i <= Len(c) THEN c[i] ELSE b[i - Len(c)]
  <2>1. b \in Seq(S) /\ c \in Seq(S)
    BY <1>3, <1>5
  <2>2. /\ c \o b \in Seq(S) /\ Len(c \o b) = Len(c) + Len(b)
        /\ \A i \in 1..Len(c) + Len(b) :
             (c \o b)[i] = IF i <= Len(c) THEN c[i] ELSE b[i - Len(c)]
    BY <2>1, ConcatProperties, Zenon
  <2> QED
    BY <1>1, <2>2, Zenon
<1>7. Len(c) = k /\ Len(l) = Len(s) + 1
  BY <1>0, <1>2, <1>3, <1>4, <1>5, <1>6
<1>8. k \in 1..Len(l) /\ l[k] = x
  <2>1. k \in 1..Len(a) + Len(m) /\ ~(k <= Len(a)) /\ k - Len(a) = 1
    BY <1>0, <1>2, <1>4
  <2>2. c[k] = x
    BY <1>4, <1>5, <2>1
  <2> QED
    BY <1>0, <1>6, <1>7, <2>2
<1>9. ASSUME NEW j \in 1..Len(s) PROVE \E i \in 1..Len(l) : l[i] = s[j]
  <2>1. CASE j < k
    <3>1. j \in 1..(k - 1) /\ j \in 1..Len(a) + Len(m) /\ j <= Len(a)
      BY <1>0, <1>2, <1>4, <2>1
    <3>2. c[j] = s[j]
      BY <1>2, <1>5, <3>1
    <3>3. j \in 1..Len(l) /\ j <= Len(c) /\ j \in 1..Len(c) + Len(b)
      BY <1>0, <1>6, <1>7, <2>1
    <3> QED
      BY <1>6, <3>2, <3>3
  <2>2. CASE ~(j < k)
    <3>1. PICK i \in Nat : i = j + 1
      BY <1>0
    <3>2. i \in 1..Len(l) /\ i \in 1..Len(c) + Len(b) /\ ~(i <= Len(c))
      BY <1>0, <1>6, <1>7, <2>2, <3>1
    <3>3. i - Len(c) \in 1..(Len(s) - k + 1) /\ k + (i - Len(c)) - 1 = j
      BY <1>0, <1>7, <2>2, <3>1
    <3>4. b[i - Len(c)] = s[j]
      BY <1>3, <3>3
    <3> QED
      BY <1>6, <3>2, <3>4
  <2> QED
    BY <2>1, <2>2
<1> QED
  BY <1>6, <1>8, <1>9 DEF l

(* While it meets no element of X, the loop copies the list.               *)
LEMMA KeptCopies ==
  ASSUME NEW S, NEW s \in Seq(S), NEW X, NEW f, Kept(s, X, Len(s), f),
         NEW n \in 0..Len(s), \A i \in 1..n : s[i] \notin X
  PROVE  f[n] = SubSeq(s, 1, n)
<1> DEFINE Bad == {k \in 0..n : f[k] # SubSeq(s, 1, k)}
<1>0. Len(s) \in Nat /\ n \in Nat
  OBVIOUS
<1>1. SUFFICES ASSUME Bad # {} PROVE FALSE
  BY <1>0
<1>2. PICK k \in Bad : \A j \in Bad : k <= j
  <2>1. Bad \in SUBSET Nat
    BY <1>0
  <2> HIDE DEF Bad
  <2> QED
    BY <1>1, <2>1, Least
<1>3. k \in 0..n /\ k \in 0..Len(s) /\ f[k] # SubSeq(s, 1, k)
  BY <1>0, <1>2
<1>4. k # 0
  <2>1. f[0] = <<>>
    BY <1>0 DEF Kept
  <2>2. SubSeq(s, 1, 0) = <<>>
    OBVIOUS
  <2> QED
    BY <1>3, <2>1, <2>2
<1>5. k - 1 \in 0..n /\ k - 1 \notin Bad
  BY <1>0, <1>2, <1>3, <1>4
<1>6. f[k - 1] = SubSeq(s, 1, k - 1)
  BY <1>5
<1>7. f[k] = Append(f[k - 1], s[k])
  <2>1. f[k] = IF k = 0 THEN <<>>
               ELSE IF s[k] \in X THEN f[k - 1] ELSE Append(f[k - 1], s[k])
    BY <1>3 DEF Kept
  <2>2. s[k] \notin X
    BY <1>0, <1>3, <1>4
  <2> QED
    BY <1>4, <2>1, <2>2
<1>8. Append(SubSeq(s, 1, k - 1), s[k]) = SubSeq(s, 1, k)
  BY <1>0, <1>3, <1>4
<1> QED
  BY <1>3, <1>6, <1>7, <1>8

(* A list with no element of X stays as it is ...                          *)
LEMMA WithoutNone ==
  ASSUME NEW S, NEW s \in Seq(S), NEW X, \A i \in 1..Len(s) : s[i] \notin X
  PROVE  Without(s, X) = s
<1>1. Len(s) \in Nat /\ SubSeq(s, 1, Len(s)) = s
  OBVIOUS
<1>2. PICK f : Kept(s, X, Len(s), f) /\ Without(s, X) = f[Len(s)]
  BY <1>1, WithoutKept
<1> QED
  BY <1>1, <1>2, KeptCopies

(* ... and one with such an element at its end alone loses it.             *)
LEMMA WithoutLast ==
  ASSUME NEW S, NEW s \in Seq(S), NEW X, s # <<>>, s[Len(s)] \in X,
         \A i \in 1..(Len(s) - 1) : s[i] \notin X
  PROVE  Without(s, X) = SubSeq(s, 1, Len(s) - 1)
<1>1. Len(s) \in Nat \ {0}
  OBVIOUS
<1>2. PICK f : Kept(s, X, Len(s), f) /\ Without(s, X) = f[Len(s)]
  BY <1>1, WithoutKept
<1>3. f[Len(s)] = f[Len(s) - 1]
  <2> DEFINE n == Len(s)
  <2>1. n \in 0..Len(s)
    BY <1>1
  <2>2. f[n] = IF n = 0 THEN <<>>
               ELSE IF s[n] \in X THEN f[n - 1] ELSE Append(f[n - 1], s[n])
    BY <1>2, <2>1 DEF Kept
  <2> QED
    BY <1>1, <2>2
<1>4. Len(s) - 1 \in 0..Len(s)
  BY <1>1
<1> QED
  BY <1>2, <1>3, <1>4, KeptCopies

----------------------------------------------------------------------------
(* Effects.                                                                *)

(* An entry of jQuery.timers; an element is busy while it has one.         *)
Timer == [elem : Elem, to : {"show", "hide"}, sized : BOOLEAN,
          height : BOOLEAN, left : Nat \ {0}]

Busy(ts, e) == \E i \in 1..Len(ts) : ts[i].elem = e

(* An element is busy when some timer is its own.                          *)
LEMMA BusyOfElem ==
  ASSUME NEW ts \in Seq(Timer), NEW e
  PROVE  OfElem(ts, e) # {} <=> Busy(ts, e)
<1>1. DOMAIN ts = 1..Len(ts)
  OBVIOUS
<1> QED
  BY <1>1 DEF OfElem, Busy

(* Only the elements in some of the lists matter to a caller.              *)
LEMMA StoppedTimers ==
  ASSUME NEW ts \in Seq(Timer), NEW e \in Elem
  PROVE  /\ stopped(ts, e) \in Seq(Timer)
         /\ ~Busy(stopped(ts, e), e)
         /\ \A d \in Elem \ {e} : Busy(stopped(ts, e), d) <=> Busy(ts, d)
         /\ stopped(ts, e) # <<>> => ts # <<>>
         /\ \A i \in 1..Len(stopped(ts, e)) :
              \E j \in 1..Len(ts) : stopped(ts, e)[i] = ts[j]
<1> DEFINE S == {ts[i] : i \in 1..Len(ts)}
           X == {t \in ToSet(ts) : t.elem = e}
           l == stopped(ts, e)
<1>1. DOMAIN ts = 1..Len(ts) /\ Len(ts) \in Nat
  OBVIOUS
<1>2. ToSet(ts) = S
  BY <1>1 DEF ToSet
<1>3. ts \in Seq(S)
  BY <1>1, SeqDef
<1>4. Keeps(ts, S, X, Len(ts), l)
  BY <1>3, WithoutKeeps DEF stopped
<1>5. X = {t \in S : t.elem = e}
  BY <1>2
<1>6. S \subseteq Timer
  BY <1>1
<1>7. \A x \in S : \E i \in 1..Len(ts) : x = ts[i]
  OBVIOUS
<1>8. \A i \in 1..Len(ts) : ts[i] \in S
  OBVIOUS
<1> HIDE DEF S, X, l
<1>9. l \in Seq(S \ X)
  BY <1>4 DEF Keeps
<1>10. Len(l) \in Nat /\ \A i \in 1..Len(l) : l[i] \in S /\ l[i].elem # e
  <2>1. Len(l) \in Nat /\ \A i \in 1..Len(l) : l[i] \in S \ X
    BY <1>9
  <2> QED
    BY <2>1, <1>5
<1>11. l \in Seq(Timer)
  <2>1. S \ X \subseteq Timer
    BY <1>6
  <2> QED
    BY <1>9, <2>1
<1>12. ~Busy(l, e)
  BY <1>10 DEF Busy
<1>13. ASSUME NEW d \in Elem \ {e} PROVE Busy(l, d) <=> Busy(ts, d)
  <2>1. ASSUME Busy(l, d) PROVE Busy(ts, d)
    BY <1>7, <1>10, <2>1 DEF Busy
  <2>2. ASSUME Busy(ts, d) PROVE Busy(l, d)
    <3>1. PICK i \in 1..Len(ts) : ts[i].elem = d
      BY <2>2 DEF Busy
    <3>2. ts[i] \notin X
      BY <1>5, <3>1
    <3> QED
      BY <1>4, <3>1, <3>2 DEF Busy, Keeps
  <2> QED
    BY <2>1, <2>2
<1>14. \A i \in 1..Len(l) : \E j \in 1..Len(ts) : l[i] = ts[j]
  BY <1>7, <1>10
<1>15. l # <<>> => ts # <<>>
  <2>1. ASSUME ts = <<>> PROVE l = <<>>
    <3>1. Len(l) = 0
      <4>1. ~(1 \in 1..Len(ts))
        BY <2>1
      <4> QED
        BY <1>1, <1>10, <1>14, <2>1
    <3> QED
      BY <1>11, <3>1, EmptySeq
  <2> QED
    BY <2>1
<1> QED
  BY <1>11, <1>12, <1>13, <1>14, <1>15 DEF l

(* The timers of a list pushed on another ...                              *)
LEMMA JoinedTimers ==
  ASSUME NEW ts \in Seq(Timer), NEW us \in Seq(Timer)
  PROVE  /\ ts \o us \in Seq(Timer)
         /\ \A d \in Elem : Busy(ts \o us, d) <=> Busy(ts, d) \/ Busy(us, d)
<1> DEFINE l == ts \o us
<1>1. /\ l \in Seq(Timer) /\ Len(l) = Len(ts) + Len(us)
      /\ \A i \in 1..Len(ts) + Len(us) :
           l[i] = IF i <= Len(ts) THEN ts[i] ELSE us[i - Len(ts)]
  BY ConcatProperties
<1> HIDE DEF l
<1>2. Len(ts) \in Nat /\ Len(us) \in Nat
  OBVIOUS
<1>3. SUFFICES ASSUME NEW d \in Elem
               PROVE  Busy(l, d) <=> Busy(ts, d) \/ Busy(us, d)
  BY <1>1 DEF l
<1>4. ASSUME Busy(l, d) PROVE Busy(ts, d) \/ Busy(us, d)
  <2>1. PICK i \in 1..Len(l) : l[i].elem = d
    BY <1>4 DEF Busy
  <2>2. CASE i <= Len(ts)
    BY <1>1, <1>2, <2>1, <2>2 DEF Busy
  <2>3. CASE ~(i <= Len(ts))
    <3>1. i - Len(ts) \in 1..Len(us) /\ us[i - Len(ts)].elem = d
      BY <1>1, <1>2, <2>1, <2>3
    <3> QED
      BY <3>1 DEF Busy
  <2> QED
    BY <2>2, <2>3
<1>5. ASSUME Busy(ts, d) PROVE Busy(l, d)
  BY <1>1, <1>2, <1>5 DEF Busy
<1>6. ASSUME Busy(us, d) PROVE Busy(l, d)
  <2>1. PICK i \in 1..Len(us) : us[i].elem = d
    BY <1>6 DEF Busy
  <2>2. PICK n \in Nat : n = Len(ts) + i
    BY <1>2
  <2>3. n \in 1..Len(l) /\ ~(n <= Len(ts)) /\ n - Len(ts) = i
    BY <1>1, <1>2, <2>2
  <2>4. l[n].elem = d
    BY <1>1, <2>1, <2>3
  <2> QED
    BY <2>3, <2>4 DEF Busy
<1> QED
  BY <1>4, <1>5, <1>6

(* ... and those of a list of one.                                         *)
LEMMA OneTimer ==
  ASSUME NEW t \in Timer
  PROVE  <<t>> \in Seq(Timer) /\ \A d \in Elem : Busy(<<t>>, d) <=> t.elem = d
<1>1. <<t>> \in Seq(Timer) /\ Len(<<t>>) = 1 /\ <<t>>[1] = t
  OBVIOUS
<1> DEFINE l == <<t>>
<1> HIDE DEF l
<1>2. \A d \in Elem : Busy(l, d) <=> t.elem = d
  BY <1>1 DEF Busy, l
<1> QED
  BY <1>1, <1>2 DEF l

(* A turn of a timer that goes on ...                                      *)
LEMMA AdvancedTimers ==
  ASSUME NEW ts \in Seq(Timer), NEW k \in DOMAIN ts, ts[k].left > 1
  PROVE  LET l == [ts EXCEPT ![k].left = @ - 1]
         IN /\ l \in Seq(Timer) /\ Len(l) = Len(ts)
            /\ \A d \in Elem : Busy(l, d) <=> Busy(ts, d)
            /\ \A i \in 1..Len(ts) : l[i].elem = ts[i].elem /\ l[i].to = ts[i].to
<1> DEFINE l == [ts EXCEPT ![k].left = @ - 1]
           t == [ts[k] EXCEPT !.left = @ - 1]
<1>0. ts[k] \in Timer
  OBVIOUS
<1>1. t \in Timer /\ t.elem = ts[k].elem /\ t.to = ts[k].to
  BY <1>0 DEF Timer
<1>2. l = [ts EXCEPT ![k] = t]
  OBVIOUS
<1> HIDE DEF t
<1>3. l \in Seq(Timer) /\ Len(l) = Len(ts)
  BY <1>1, <1>2
<1>4. \A i \in 1..Len(ts) : l[i].elem = ts[i].elem /\ l[i].to = ts[i].to
  BY <1>1, <1>2
<1> HIDE DEF l
<1>5. \A d \in Elem : Busy(l, d) <=> Busy(ts, d)
  BY <1>3, <1>4 DEF Busy
<1> QED
  BY <1>3, <1>4, <1>5 DEF l

(* ... and of one that is spliced out.                                     *)
LEMMA ExpiredTimers ==
  ASSUME NEW ts \in Seq(Timer), NEW k \in DOMAIN ts
  PROVE  LET l == RemoveAt(ts, k)
             e == ts[k].elem
         IN /\ l \in Seq(Timer)
            /\ OfElem(ts, e) = {k} => ~Busy(l, e)
            /\ OfElem(ts, e) # {k} => Busy(l, e)
            /\ \A d \in Elem \ {e} : Busy(l, d) <=> Busy(ts, d)
            /\ \A i \in 1..Len(l) : \E j \in 1..Len(ts) : l[i] = ts[j]
<1> DEFINE l == RemoveAt(ts, k)
           e == ts[k].elem
<1>0. k \in 1..Len(ts) /\ DOMAIN ts = 1..Len(ts) /\ Len(ts) \in Nat
  OBVIOUS
<1> DEFINE a == SubSeq(ts, 1, k - 1)
           b == SubSeq(ts, k + 1, Len(ts))
<1>1. l = a \o b
  BY DEF RemoveAt
<1>a. /\ a \in Seq(Timer) /\ Len(a) = k - 1
      /\ \A i \in 1..(k - 1) : a[i] = ts[i]
  BY <1>0
<1>b. /\ b \in Seq(Timer) /\ Len(b) = Len(ts) - k
      /\ \A i \in 1..(Len(ts) - k) : b[i] = ts[k + i]
  BY <1>0
<1> HIDE DEF l, a, b
<1>c. /\ l \in Seq(Timer) /\ Len(l) = Len(a) + Len(b)
      /\ \A i \in 1..Len(a) + Len(b) :
           l[i] = IF i <= Len(a) THEN a[i] ELSE b[i - Len(a)]
  BY <1>1, <1>a, <1>b, ConcatProperties
<1>2. l \in Seq(Timer) /\ Len(l) = Len(ts) - 1
  BY <1>0, <1>a, <1>b, <1>c
<1>3. ASSUME NEW i \in 1..Len(l)
      PROVE  l[i] = IF i < k THEN ts[i] ELSE ts[i + 1]
  <2>1. i \in 1..Len(a) + Len(b) /\ i \in Nat /\ k \in Nat
    BY <1>0, <1>a, <1>b, <1>2, <1>3
  <2>2. CASE i < k
    <3>1. i <= Len(a) /\ i \in 1..(k - 1)
      BY <1>a, <2>1, <2>2
    <3> QED
      BY <1>a, <1>c, <2>1, <2>2, <3>1
  <2>3. CASE ~(i < k)
    <3>1. ~(i <= Len(a)) /\ i - Len(a) \in 1..(Len(ts) - k)
      BY <1>0, <1>a, <1>b, <2>1, <2>3
    <3>2. k + (i - Len(a)) = i + 1
      BY <1>a, <2>1
    <3>3. b[i - Len(a)] = ts[k + (i - Len(a))]
      BY <1>b, <3>1
    <3> QED
      BY <1>c, <2>1, <2>3, <3>1, <3>2, <3>3
  <2> QED
    BY <2>2, <2>3
<1>4. \A i \in 1..Len(l) : \E j \in 1..Len(ts) : j # k /\ l[i] = ts[j]
  BY <1>0, <1>2, <1>3
<1>5. \A j \in 1..Len(ts) : j # k => \E i \in 1..Len(l) : l[i] = ts[j]
  <2>1. SUFFICES ASSUME NEW j \in 1..Len(ts), j # k
                 PROVE  \E i \in 1..Len(l) : l[i] = ts[j]
    OBVIOUS
  <2>2. CASE j < k
    BY <1>0, <1>2, <1>3, <2>1, <2>2
  <2>3. CASE j > k
    <3>1. j - 1 \in 1..Len(l) /\ l[j - 1] = ts[j]
      BY <1>0, <1>2, <1>3, <2>1, <2>3
    <3> QED
      BY <3>1
  <2> QED
    BY <1>0, <2>1, <2>2, <2>3
<1>6. k \in OfElem(ts, e)
  BY DEF OfElem
<1>7. ASSUME OfElem(ts, e) = {k} PROVE ~Busy(l, e)
  BY <1>0, <1>4, <1>7 DEF Busy, OfElem
<1>8. ASSUME OfElem(ts, e) # {k} PROVE Busy(l, e)
  <2>1. PICK j \in OfElem(ts, e) : j # k
    BY <1>6, <1>8
  <2> QED
    BY <1>0, <1>5, <2>1 DEF Busy, OfElem
<1>9. \A d \in Elem \ {e} : Busy(l, d) <=> Busy(ts, d)
  BY <1>0, <1>4, <1>5 DEF Busy
<1> QED
  BY <1>2, <1>4, <1>7, <1>8, <1>9 DEF l

(* Elements and their queues: the animation at the head of a queue has     *)
(* timers, but for the one of d, which is being started.                   *)
Linked(q, ts, d) ==
  \A e \in Elem : IF e = d THEN q[e] # <<>> /\ ~Busy(ts, e)
                  ELSE q[e] # <<>> <=> Busy(ts, e)

EffectsInv ==
  /\ fxqueue \in [Elem -> Seq(AnimationForm)] /\ timers \in Seq(Timer)
  /\ timerId \in BOOLEAN /\ shown \in [Elem -> BOOLEAN]
  /\ due \in Elem \cup {NoElem} /\ at \in Nat
  /\ Linked(fxqueue, timers, due)
  /\ timers # <<>> => timerId

(* A change of the queue of e and of its timers alone keeps the link of    *)
(* all.                                                                    *)
LEMMA LinkedMoves ==
  ASSUME NEW q \in [Elem -> Seq(AnimationForm)], NEW ts, NEW us, NEW d,
         NEW e \in Elem, NEW s \in Seq(AnimationForm), NEW f,
         Linked(q, ts, d), d \in {e, NoElem}, f \in {e, NoElem},
         \A c \in Elem \ {e} : Busy(us, c) <=> Busy(ts, c),
         f = e => s # <<>> /\ ~Busy(us, e),
         f = NoElem => (s # <<>> <=> Busy(us, e))
  PROVE  /\ [q EXCEPT ![e] = s] \in [Elem -> Seq(AnimationForm)]
         /\ Linked([q EXCEPT ![e] = s], us, f)
<1>1. [q EXCEPT ![e] = s] \in [Elem -> Seq(AnimationForm)]
  OBVIOUS
<1>2. NoElem \notin Elem
  BY EffectsAssumption
<1> QED
  BY <1>1, <1>2 DEF Linked

Dequeued(q) == IF q = <<>> THEN q ELSE Tail(q)

(* dequeue shifts the function that ran.                                   *)
LEMMA DequeuedQueue ==
  ASSUME NEW S, NEW q \in Seq(S)
  PROVE  /\ Dequeued(q) \in Seq(S)
         /\ Len(q) > 1 <=> Dequeued(q) # <<>>
         /\ \A i \in 1..Len(Dequeued(q)) : \E j \in 1..Len(q) : Dequeued(q)[i] = q[j]
<1>1. CASE q = <<>>
  BY <1>1 DEF Dequeued
<1>2. CASE q # <<>>
  <2>1. /\ Tail(q) \in Seq(S) /\ Len(Tail(q)) = Len(q) - 1
        /\ \A i \in 1..Len(Tail(q)) : Tail(q)[i] = q[i + 1]
    BY <1>2
  <2>2. Dequeued(q) = Tail(q)
    BY <1>2 DEF Dequeued
  <2>3. Len(q) \in Nat
    OBVIOUS
  <2>4. Tail(q) = <<>> <=> Len(Tail(q)) = 0
    BY <2>1, EmptySeq
  <2>5. ASSUME NEW i \in 1..Len(Tail(q))
        PROVE  \E j \in 1..Len(q) : Tail(q)[i] = q[j]
    <3>1. i + 1 \in 1..Len(q)
      BY <2>1, <2>3
    <3> QED
      BY <2>1, <3>1
  <2> QED
    BY <2>1, <2>2, <2>3, <2>4, <2>5
<1> QED
  BY <1>1, <1>2

(* What a dequeue leaves when e has no timers left.                        *)
LEMMA DequeueLinks ==
  ASSUME EffectsInv, NEW e \in Elem, NEW q \in Seq(AnimationForm), NEW us,
         due \in {e, NoElem}, dequeue(e, q), ~Busy(us, e),
         \A c \in Elem \ {e} : Busy(us, c) <=> Busy(timers, c)
  PROVE  /\ fxqueue' \in [Elem -> Seq(AnimationForm)]
         /\ due' \in {e, NoElem}
         /\ Linked(fxqueue', us, due')
<1>1. /\ fxqueue' = [fxqueue EXCEPT ![e] = Dequeued(q)]
      /\ due' = IF Len(q) > 1 THEN e ELSE NoElem
  BY DEF dequeue, Dequeued
<1>2. Dequeued(q) \in Seq(AnimationForm) /\ (Len(q) > 1 <=> Dequeued(q) # <<>>)
  BY DequeuedQueue
<1>3. e # NoElem
  BY EffectsAssumption
<1>4. due' \in {e, NoElem}
  BY <1>1
<1>5. due' = e => Dequeued(q) # <<>>
  BY <1>1, <1>2, <1>3
<1>6. due' = NoElem => Dequeued(q) = <<>>
  BY <1>1, <1>2, <1>3
<1>7. fxqueue \in [Elem -> Seq(AnimationForm)] /\ Linked(fxqueue, timers, due)
  BY DEF EffectsInv
<1> QED
  BY <1>1, <1>2, <1>4, <1>5, <1>6, <1>7, LinkedMoves

(* A call of animate.                                                      *)
LEMMA AnimateKeeps ==
  ASSUME EffectsInv, NEW e \in Elem, NEW a \in AnimationForm, animate(e, a),
         shown' \in [Elem -> BOOLEAN]
  PROVE  EffectsInv'
<1> DEFINE q == Append(fxqueue[e], a)
<1>1. /\ fxqueue' = [fxqueue EXCEPT ![e] = q]
      /\ due' = IF fxqueue[e] = <<>> THEN e ELSE NoElem
      /\ timers' = timers /\ timerId' = timerId /\ at' = at /\ due = NoElem
  BY DEF animate, Quiet
<1>2. fxqueue[e] \in Seq(AnimationForm)
  BY DEF EffectsInv
<1>3. q \in Seq(AnimationForm) /\ q # <<>>
  BY <1>2, AppendProperties
<1>4. e # NoElem /\ (fxqueue[e] # <<>> <=> Busy(timers, e))
  BY <1>1, EffectsAssumption DEF EffectsInv, Linked
<1> HIDE DEF q
<1>5. /\ due' = e => q # <<>> /\ ~Busy(timers, e)
      /\ due' = NoElem => (q # <<>> <=> Busy(timers, e))
      /\ due' \in {e, NoElem} /\ due \in {e, NoElem}
  BY <1>1, <1>3, <1>4
<1>6. /\ fxqueue' \in [Elem -> Seq(AnimationForm)]
      /\ Linked(fxqueue', timers, due')
  BY <1>1, <1>3, <1>5, LinkedMoves DEF EffectsInv
<1> QED
  BY <1>1, <1>5, <1>6 DEF EffectsInv

(* An animation with nothing to do.                                        *)
LEMMA SkipKeeps ==
  ASSUME EffectsInv, NEW e \in Elem, Skip(e)
  PROVE  EffectsInv'
<1>1. /\ due = e /\ dequeue(e, fxqueue[e])
      /\ timers' = timers /\ timerId' = timerId /\ shown' = shown /\ at' = at
  BY DEF Skip
<1>2. fxqueue[e] \in Seq(AnimationForm) /\ ~Busy(timers, e)
  BY <1>1 DEF EffectsInv, Linked
<1>3. /\ fxqueue' \in [Elem -> Seq(AnimationForm)] /\ due' \in {e, NoElem}
      /\ Linked(fxqueue', timers, due')
  BY <1>1, <1>2, DequeueLinks
<1> QED
  BY <1>1, <1>3 DEF EffectsInv

(* The timers that Run pushes are of its own element, and of one animation.*)
LEMMA RunPushes ==
  ASSUME EffectsInv, NEW e \in Elem, Run(e)
  PROVE  /\ timers' \in Seq(Timer) /\ Busy(timers', e)
         /\ \A c \in Elem \ {e} : Busy(timers', c) <=> Busy(timers, c)
         /\ \E us \in Seq(Timer) :
              /\ timers' = timers \o us
              /\ \A i \in 1..Len(us) : us[i].elem = e
              /\ Head(fxqueue[e]).to = "show" =>
                   \A i \in 1..Len(us) : us[i].to = "show"
<1> DEFINE a == Head(fxqueue[e])
           to == IF a.to # "toggle" THEN a.to
                 ELSE IF shown[e] THEN "hide" ELSE "show"
           timer(left, height) ==
             [elem |-> e, to |-> to, sized |-> a.sized, height |-> height,
              left |-> left]
<1>1. due = e
  BY DEF Run
<1>2. a \in AnimationForm
  <2>1. fxqueue[e] \in Seq(AnimationForm) /\ fxqueue[e] # <<>>
    BY <1>1 DEF EffectsInv, Linked
  <2> QED
    BY <2>1
<1>3. /\ a.to \in {"show", "hide", "toggle"} /\ a.sized \in BOOLEAN
      /\ a.ticks \in Nat \ {0}
  BY <1>2 DEF AnimationForm
<1>4. PICK late \in {0, 1} :
        timers' = timers \o <<timer(a.ticks, a.sized)>> \o
                    (IF a.sized THEN <<timer(a.ticks + late, FALSE)>> ELSE <<>>)
  BY DEF Run
<1>5. to \in {"show", "hide"} /\ (a.to = "show" => to = "show")
  BY <1>3
<1> HIDE DEF a, to
<1>6. \A n \in Nat \ {0} : \A h \in BOOLEAN :
        timer(n, h) \in Timer /\ timer(n, h).elem = e /\ timer(n, h).to = to
  BY <1>3, <1>5 DEF Timer
<1>7. a.ticks + late \in Nat \ {0}
  BY <1>3
<1> DEFINE t == timer(a.ticks, a.sized)
           u == timer(a.ticks + late, FALSE)
<1>8. /\ t \in Timer /\ t.elem = e /\ t.to = to
      /\ u \in Timer /\ u.elem = e /\ u.to = to
  BY <1>3, <1>6, <1>7
<1> HIDE DEF t, u
<1>9. \E us \in Seq(Timer) :
        /\ timers' = timers \o us
        /\ \A c \in Elem : Busy(us, c) <=> c = e
        /\ \A i \in 1..Len(us) : us[i].to = to
  <2>1. CASE a.sized
    <3>1. timers' = timers \o (<<t>> \o <<u>>)
      BY <1>4, <1>8, <2>1 DEF t, u, EffectsInv
    <3>2. <<t>> \o <<u>> \in Seq(Timer)
      BY <1>8
    <3>3. \A c \in Elem : Busy(<<t>> \o <<u>>, c) <=> c = e
      BY <1>8, OneTimer, JoinedTimers
    <3>4. \A i \in 1..Len(<<t>> \o <<u>>) : (<<t>> \o <<u>>)[i].to = to
      <4>1. /\ <<t>> \in Seq(Timer) /\ Len(<<t>>) = 1 /\ <<t>>[1] = t
            /\ <<u>> \in Seq(Timer) /\ Len(<<u>>) = 1 /\ <<u>>[1] = u
        BY <1>8
      <4> DEFINE p == <<t>>
                 r == <<u>>
      <4> HIDE DEF p, r
      <4>2. /\ Len(p \o r) = 2
            /\ \A i \in 1..2 : (p \o r)[i] = IF i <= 1 THEN p[i] ELSE r[i - 1]
        BY <4>1, ConcatProperties DEF p, r
      <4>3. \A i \in 1..2 : (p \o r)[i] = t \/ (p \o r)[i] = u
        BY <4>1, <4>2 DEF p, r
      <4>4. \A i \in 1..Len(p \o r) : (p \o r)[i].to = to
        BY <1>8, <4>2, <4>3
      <4> QED
        BY <4>4 DEF p, r
    <3> QED
      BY <3>1, <3>2, <3>3, <3>4
  <2>2. CASE ~a.sized
    <3>1. timers' = timers \o <<t>>
      BY <1>4, <1>8, <2>2 DEF t, u, EffectsInv
    <3>2. <<t>> \in Seq(Timer) /\ \A c \in Elem : Busy(<<t>>, c) <=> c = e
      BY <1>8, OneTimer
    <3>3. \A i \in 1..Len(<<t>>) : <<t>>[i].to = to
      BY <1>8
    <3> QED
      BY <3>1, <3>2, <3>3
  <2> QED
    BY <1>3, <2>1, <2>2
<1>10. PICK us \in Seq(Timer) :
        /\ timers' = timers \o us
        /\ \A c \in Elem : Busy(us, c) <=> c = e
        /\ \A i \in 1..Len(us) : us[i].to = to
  BY <1>9
<1>11. timers \in Seq(Timer)
  BY DEF EffectsInv
<1>12. /\ timers' \in Seq(Timer)
       /\ \A c \in Elem : Busy(timers', c) <=> Busy(timers, c) \/ c = e
  BY <1>10, <1>11, JoinedTimers
<1>13. ASSUME NEW i \in 1..Len(us) PROVE us[i].elem = e
  <2>0. us[i] \in Timer
    BY <1>10
  <2>1. us[i].elem \in Elem /\ Busy(us, us[i].elem)
    BY <2>0 DEF Timer, Busy
  <2> QED
    BY <1>10, <2>1
<1> QED
  BY <1>5, <1>10, <1>12, <1>13 DEF a

(* The function at the front of a queue starts its animation.              *)
LEMMA RunKeeps ==
  ASSUME EffectsInv, NEW e \in Elem, Run(e)
  PROVE  EffectsInv'
<1>1. /\ due = e /\ timerId' = TRUE /\ shown' = [shown EXCEPT ![e] = TRUE]
      /\ due' = NoElem /\ fxqueue' = fxqueue /\ at' = at
  BY DEF Run
<1>2. /\ timers' \in Seq(Timer) /\ Busy(timers', e)
      /\ \A c \in Elem \ {e} : Busy(timers', c) <=> Busy(timers, c)
  BY RunPushes
<1>3. fxqueue' \in [Elem -> Seq(AnimationForm)] /\ shown' \in [Elem -> BOOLEAN]
  BY <1>1 DEF EffectsInv
<1>4. Linked(fxqueue', timers', due')
  BY <1>1, <1>2, EffectsAssumption DEF EffectsInv, Linked
<1> QED
  BY <1>1, <1>2, <1>3, <1>4 DEF EffectsInv

(* A timer's turn.                                                         *)
LEMMA AdvanceKeeps ==
  ASSUME EffectsInv, Advance
  PROVE  EffectsInv'
<1> DEFINE l == [timers EXCEPT ![at].left = @ - 1]
<1>1. /\ due = NoElem /\ at \in DOMAIN timers /\ timers[at].left > 1
      /\ timers' = l /\ at' = at + 1
      /\ shown' = [shown EXCEPT ![timers[at].elem] = @ \/ timers[at].height]
      /\ fxqueue' = fxqueue /\ timerId' = timerId /\ due' = due
  BY DEF Advance
<1>2. timers \in Seq(Timer) /\ timers[at] \in Timer
  BY <1>1 DEF EffectsInv
<1>3. /\ l \in Seq(Timer) /\ Len(l) = Len(timers)
      /\ \A d \in Elem : Busy(l, d) <=> Busy(timers, d)
  BY <1>1, <1>2, AdvancedTimers
<1> HIDE DEF l
<1>4. Linked(fxqueue', timers', due')
  BY <1>1, <1>3 DEF EffectsInv, Linked
<1>5. shown' \in [Elem -> BOOLEAN]
  BY <1>1, <1>2 DEF EffectsInv, Timer
<1>6. timers' # <<>> => timerId'
  BY <1>1, <1>2, <1>3, EmptySeq DEF EffectsInv
<1> QED
  BY <1>1, <1>3, <1>4, <1>5, <1>6 DEF EffectsInv

(* A timer's last turn, and the dequeue when it was the element's last.    *)
LEMMA ExpireKeeps ==
  ASSUME EffectsInv, Expire
  PROVE  EffectsInv'
<1> DEFINE l == RemoveAt(timers, at)
           t == timers[at]
<1>1. /\ due = NoElem /\ at \in DOMAIN timers /\ timers' = l
      /\ timerId' = timerId /\ at' = at
  BY DEF Expire
<1>2. timers \in Seq(Timer) /\ t \in Timer /\ timers # <<>>
  BY <1>1 DEF EffectsInv
<1>3. /\ t.elem \in Elem /\ t.to \in {"show", "hide"} /\ t.sized \in BOOLEAN
      /\ t.height \in BOOLEAN
  BY <1>2 DEF Timer
<1>4. /\ l \in Seq(Timer)
      /\ OfElem(timers, t.elem) = {at} => ~Busy(l, t.elem)
      /\ OfElem(timers, t.elem) # {at} => Busy(l, t.elem)
      /\ \A d \in Elem \ {t.elem} : Busy(l, d) <=> Busy(timers, d)
  BY <1>1, <1>2, ExpiredTimers
<1>5. timers' # <<>> => timerId'
  BY <1>1, <1>2 DEF EffectsInv
<1>6. CASE OfElem(timers, t.elem) = {at}
  <2>1. /\ dequeue(t.elem, fxqueue[t.elem])
        /\ shown' = [shown EXCEPT ![t.elem] = ends(t, @)]
    BY <1>6 DEF Expire
  <2>2. shown' \in [Elem -> BOOLEAN]
    <3>1. ends(t, shown[t.elem]) \in BOOLEAN
      BY <1>3 DEF ends
    <3> QED
      BY <1>3, <2>1, <3>1 DEF EffectsInv
  <2>3. fxqueue[t.elem] \in Seq(AnimationForm)
    BY <1>3 DEF EffectsInv
  <2> HIDE DEF l, t
  <2>4. /\ fxqueue' \in [Elem -> Seq(AnimationForm)]
        /\ due' \in {t.elem, NoElem}
        /\ Linked(fxqueue', l, due')
    BY <1>1, <1>3, <1>4, <1>6, <2>1, <2>3, DequeueLinks
  <2> QED
    BY <1>1, <1>3, <1>4, <1>5, <2>2, <2>4 DEF EffectsInv
<1>7. CASE OfElem(timers, t.elem) # {at}
  <2>1. /\ shown' = [shown EXCEPT ![t.elem] = @ \/ t.height]
        /\ fxqueue' = fxqueue /\ due' = due
    BY <1>7 DEF Expire
  <2>2. shown' \in [Elem -> BOOLEAN]
    BY <1>3, <2>1 DEF EffectsInv
  <2>3. Busy(timers, t.elem)
    BY <1>1, <1>2 DEF Busy
  <2> HIDE DEF l, t
  <2>4. Linked(fxqueue', l, due')
    BY <1>1, <1>4, <1>7, <2>1, <2>3 DEF EffectsInv, Linked
  <2> QED
    BY <1>1, <1>4, <1>5, <2>1, <2>2, <2>4 DEF EffectsInv
<1> QED
  BY <1>6, <1>7

(* stop, with the queue or without, to the end or where it is.             *)
LEMMA StopKeeps ==
  ASSUME EffectsInv, NEW e \in Elem, NEW clearQueue \in BOOLEAN,
         NEW gotoEnd \in BOOLEAN, Stop(e, clearQueue, gotoEnd)
  PROVE  EffectsInv'
<1> DEFINE q == IF clearQueue THEN <<>> ELSE fxqueue[e]
           mine == OfElem(timers, e)
           l == stopped(timers, e)
<1>1. /\ due = NoElem /\ timers' = l /\ timerId' = timerId /\ at' = at
      /\ IF gotoEnd /\ mine = {}
         THEN /\ fxqueue' = [fxqueue EXCEPT ![e] = q]
              /\ due' = due /\ shown' = shown
         ELSE /\ dequeue(e, q)
              /\ shown' = IF gotoEnd
                          THEN [shown EXCEPT ![e] =
                                  ends(timers[CHOOSE i \in mine : TRUE], @)]
                          ELSE shown
  BY DEF Stop, Quiet
<1>2. timers \in Seq(Timer) /\ q \in Seq(AnimationForm)
  BY DEF EffectsInv
<1>3. /\ l \in Seq(Timer) /\ ~Busy(l, e) /\ (l # <<>> => timers # <<>>)
      /\ \A c \in Elem \ {e} : Busy(l, c) <=> Busy(timers, c)
  BY <1>2, StoppedTimers
<1>4. mine # {} <=> Busy(timers, e)
  BY <1>2, BusyOfElem
<1>5. timers' # <<>> => timerId'
  BY <1>1, <1>3 DEF EffectsInv
<1>6. q # <<>> => fxqueue[e] # <<>>
  OBVIOUS
<1> HIDE DEF l, q
<1>7. CASE gotoEnd /\ mine = {}
  <2>1. q = <<>>
    BY <1>1, <1>4, <1>6, <1>7, EffectsAssumption DEF EffectsInv, Linked
  <2>2. /\ fxqueue \in [Elem -> Seq(AnimationForm)]
        /\ Linked(fxqueue, timers, NoElem)
    BY <1>1 DEF EffectsInv
  <2>3. NoElem # e
    BY EffectsAssumption
  <2>4. /\ fxqueue' \in [Elem -> Seq(AnimationForm)]
        /\ Linked(fxqueue', l, NoElem)
    <3>1. fxqueue' = [fxqueue EXCEPT ![e] = q]
      BY <1>1, <1>7
    <3> QED
      BY <1>2, <1>3, <2>1, <2>2, <2>3, <3>1, LinkedMoves
  <2> QED
    BY <1>1, <1>3, <1>5, <1>7, <2>4 DEF EffectsInv
<1>8. CASE ~(gotoEnd /\ mine = {})
  <2>1. dequeue(e, q)
    BY <1>1, <1>8
  <2>2. shown' \in [Elem -> BOOLEAN]
    <3>1. CASE gotoEnd
      <4> DEFINE t == timers[CHOOSE i \in mine : TRUE]
      <4>1. ends(t, shown[e]) \in BOOLEAN
        <5>1. (CHOOSE i \in mine : TRUE) \in mine
          BY <1>8, <3>1
        <5>2. t \in Timer
          BY <1>2, <5>1 DEF OfElem
        <5> QED
          BY <5>2 DEF ends, Timer, EffectsInv
      <4>2. shown' = [shown EXCEPT ![e] = ends(t, @)]
        BY <1>1, <1>8, <3>1
      <4> QED
        BY <4>1, <4>2 DEF EffectsInv
    <3>2. CASE ~gotoEnd
      BY <1>1, <1>8, <3>2 DEF EffectsInv
    <3> QED
      BY <3>1, <3>2
  <2>3. /\ fxqueue' \in [Elem -> Seq(AnimationForm)]
        /\ due' \in {e, NoElem} /\ Linked(fxqueue', l, due')
    BY <1>1, <1>2, <1>3, <2>1, DequeueLinks
  <2> QED
    BY <1>1, <1>3, <1>5, <2>2, <2>3 DEF EffectsInv
<1> QED
  BY <1>7, <1>8

(* The interval's loop starts and ends.                                    *)
LEMMA TurnKeeps ==
  ASSUME EffectsInv, Tick \/ EndTick
  PROVE  EffectsInv'
<1>1. /\ fxqueue' = fxqueue /\ timers' = timers /\ shown' = shown /\ due' = due
      /\ at' \in {0, 1}
      /\ timerId' \in BOOLEAN /\ (timers' # <<>> => timerId')
  BY DEF Tick, EndTick, EffectsInv
<1> QED
  BY <1>1 DEF EffectsInv

(* All that runs without a call.                                           *)
LEMMA MachineryKeeps ==
  ASSUME EffectsInv, Machinery
  PROVE  EffectsInv'
  BY SkipKeeps, RunKeeps, AdvanceKeeps, ExpireKeeps, TurnKeeps DEF Machinery

(* Nothing is queued at first.                                             *)
LEMMA EffectsInvInit == EffectsInit => EffectsInv
<1>1. \A e \in Elem : ~Busy(<<>>, e)
  BY DEF Busy
<1>2. <<>> \in Seq(AnimationForm) /\ <<>> \in Seq(Timer)
  OBVIOUS
<1>3. ASSUME EffectsInit PROVE Linked(fxqueue, timers, due)
  <2>1. /\ due = NoElem /\ NoElem \notin Elem /\ timers = <<>>
        /\ \A e \in Elem : fxqueue[e] = <<>>
    BY <1>3, EffectsAssumption DEF EffectsInit
  <2> QED
    BY <1>1, <2>1 DEF Linked
<1>4. PICK z \in Seq(AnimationForm) : z = <<>>
  BY <1>2
<1>5. EffectsInit => fxqueue \in [Elem -> Seq(AnimationForm)]
  <2>1. [e \in Elem |-> z] \in [Elem -> Seq(AnimationForm)]
    OBVIOUS
  <2>2. EffectsInit => fxqueue = [e \in Elem |-> z]
    BY <1>4 DEF EffectsInit
  <2> QED
    BY <2>1, <2>2
<1>6. EffectsInit => timers \in Seq(Timer)
  BY <1>2 DEF EffectsInit
<1>7. EffectsInit => /\ timerId \in BOOLEAN /\ shown \in [Elem -> BOOLEAN]
                     /\ due \in Elem \cup {NoElem} /\ at = 0
                     /\ ~(timers # <<>>)
  BY Zenon DEF EffectsInit
<1> QED
  BY <1>3, <1>5, <1>6, <1>7 DEF EffectsInv

(* Every behaviour of the effects keeps the invariant.                     *)
LEMMA EffectsInvariant == EffectsSpec => []EffectsInv
<1>1. ASSUME EffectsInv, EffectsNext PROVE EffectsInv'
  <2>1. ASSUME NEW e \in Elem, NEW a \in Animation, Animate(e, a)
        PROVE  EffectsInv'
    BY <1>1, <2>1, AnimateKeeps, EffectsAssumption DEF Animate, EffectsInv
  <2>2. ASSUME NEW e \in Elem, NEW on \in BOOLEAN, Display(e, on)
        PROVE  EffectsInv'
    BY <1>1, <2>2 DEF Display, display, EffectsInv
  <2> QED
    BY <1>1, <2>1, <2>2, StopKeeps, MachineryKeeps DEF EffectsNext
<1>2. ASSUME EffectsInv, UNCHANGED effectsVars PROVE EffectsInv'
  BY <1>2 DEF effectsVars, EffectsInv
<1> QED
  BY <1>1, <1>2, EffectsInvInit, PTL DEF EffectsSpec

(* Every timer is one of an element and has a turn left, and every index   *)
(* of the interval's loop is a number (jquery-1.3.2.js 3938-4090).         *)
THEOREM EffectsTypeCorrect == EffectsSpec => []EffectsTypeOK
<1>1. EffectsInv => EffectsTypeOK
  BY DEF EffectsInv, EffectsTypeOK, Timer
<1> QED
  BY <1>1, EffectsInvariant, PTL

(* However calls, the interval and the callbacks interleave, no queue is   *)
(* left without a timer and no timer without a queue, for any number of    *)
(* elements and any animations (jquery-1.3.2.js 1290-1330, 3938-4090).     *)
THEOREM Stranded == EffectsSpec => []NothingStranded
<1>1. EffectsInv => NothingStranded
  BY BusyOfElem, EffectsAssumption DEF EffectsInv, Linked, NothingStranded,
     Quiet
<1> QED
  BY <1>1, EffectsInvariant, PTL
----------------------------------------------------------------------------
(* Wizard.                                                                 *)

(* The content's queue and timers hold nothing but fades in; and while it  *)
(* is hidden and no fade in is being started, the one that will show it    *)
(* waits behind the one that runs.                                         *)
Awaited ==
  due # Content /\ step > 0 /\ ~shown[Content] /\ clicked # "other"
    => Len(fxqueue[Content]) > 1

OnlyFades ==
  /\ \A i \in 1..Len(fxqueue[Content]) : fxqueue[Content][i].to = "show"
  /\ \A i \in 1..Len(timers) : timers[i].elem = Content => timers[i].to = "show"

WizardInv ==
  /\ EffectsInv /\ OnlyFades /\ Awaited
  /\ step \in 0..5 /\ clicked \in {"none", "next", "previous", "other"}

(* load_state queues the fade out and the fade in behind it.               *)
LEMMA LoadState ==
  ASSUME WizardInv, NEW s \in 1..5, load_state(s),
         clicked' \in {"none", "next", "previous", "other"}
  PROVE  WizardInv'
<1> DEFINE q == Append(fxqueue[Content], fadeIn)
<1>0. Content \in Elem
  BY ContentAssumption
<1>1. /\ fxqueue' = [fxqueue EXCEPT ![Content] = q]
      /\ due' = IF fxqueue[Content] = <<>> THEN Content ELSE NoElem
      /\ timers' = timers /\ step' = s
      /\ shown' = [shown EXCEPT ![Content] = FALSE]
      /\ animate(Content, fadeIn)
  BY DEF load_state, animate, display
<1>2. fadeIn \in AnimationForm /\ fadeIn.to = "show"
  BY DEF fadeIn, AnimationForm
<1>3. shown' \in [Elem -> BOOLEAN]
  BY <1>1 DEF WizardInv, EffectsInv
<1>4. EffectsInv'
  BY <1>0, <1>1, <1>2, <1>3, AnimateKeeps DEF WizardInv
<1>5. fxqueue[Content] \in Seq(AnimationForm) /\ fxqueue'[Content] = q
  BY <1>0, <1>1 DEF WizardInv, EffectsInv
<1> HIDE DEF fadeIn
<1>6. /\ Len(q) = Len(fxqueue[Content]) + 1
      /\ q[Len(fxqueue[Content]) + 1] = fadeIn
      /\ \A i \in 1..Len(fxqueue[Content]) : q[i] = fxqueue[Content][i]
  BY <1>2, <1>5, AppendProperties
<1> HIDE DEF q
<1>7. \A i \in 1..Len(q) : q[i].to = "show"
  BY <1>2, <1>5, <1>6 DEF WizardInv, OnlyFades
<1>8. Awaited'
  <2>1. Len(fxqueue[Content]) \in Nat
    BY <1>5
  <2>2. CASE fxqueue[Content] = <<>>
    BY <1>1, <2>2 DEF Awaited
  <2>3. CASE fxqueue[Content] # <<>>
    <3>1. Len(fxqueue[Content]) # 0
      BY <1>5, <2>3, EmptySeq
    <3> QED
      BY <1>5, <1>6, <2>1, <3>1 DEF Awaited
  <2> QED
    BY <2>2, <2>3
<1>9. OnlyFades'
  BY <1>1, <1>5, <1>7 DEF OnlyFades, WizardInv
<1> QED
  BY <1>1, <1>4, <1>8, <1>9 DEF WizardInv

(* Another form's click hides the content at once and queues nothing.      *)
LEMMA HiddenByOther ==
  ASSUME WizardInv, OtherSubmit
  PROVE  WizardInv'
<1>1. /\ fxqueue' = fxqueue /\ timers' = timers /\ timerId' = timerId
      /\ due' = due /\ at' = at /\ step' = step /\ clicked' = "other"
      /\ shown' = [shown EXCEPT ![Content] = FALSE]
  BY DEF OtherSubmit, Display, display
<1>2. shown' \in [Elem -> BOOLEAN]
  BY <1>1 DEF WizardInv, EffectsInv
<1> QED
  BY <1>1, <1>2 DEF WizardInv, EffectsInv, OnlyFades, Awaited

(* A dequeue keeps fades, and in the content's queue it exposes the next   *)
(* one when the content is hidden.                                         *)
LEMMA FadeDequeued ==
  ASSUME WizardInv, NEW e \in Elem, dequeue(e, fxqueue[e]),
         step' = step, clicked' = clicked,
         e # Content => due # Content /\ (shown'[Content] <=> shown[Content]),
         e = Content => shown'[Content] \/ (due # Content /\ ~shown[Content])
  PROVE  /\ \A i \in 1..Len(fxqueue'[Content]) : fxqueue'[Content][i].to = "show"
         /\ Awaited'
<1> DEFINE q == Dequeued(fxqueue[e])
<1>1. /\ fxqueue' = [fxqueue EXCEPT ![e] = q]
      /\ due' = IF Len(fxqueue[e]) > 1 THEN e ELSE NoElem
  BY DEF dequeue, Dequeued
<1>2. fxqueue \in [Elem -> Seq(AnimationForm)] /\ Content \in Elem
  BY ContentAssumption DEF WizardInv, EffectsInv
<1>3. \A i \in 1..Len(q) : \E j \in 1..Len(fxqueue[e]) : q[i] = fxqueue[e][j]
  BY <1>2, DequeuedQueue
<1> HIDE DEF q
<1>4. CASE e = Content
  <2>1. fxqueue'[Content] = q
    BY <1>1, <1>2, <1>4
  <2>2. \A i \in 1..Len(q) : q[i].to = "show"
    BY <1>3, <1>4 DEF WizardInv, OnlyFades
  <2>3. Awaited'
    BY <1>1, <1>4 DEF WizardInv, Awaited
  <2> QED
    BY <2>1, <2>2, <2>3
<1>5. CASE e # Content
  <2>1. fxqueue'[Content] = fxqueue[Content]
    BY <1>1, <1>2, <1>5
  <2> QED
    BY <1>1, <1>5, <2>1 DEF WizardInv, OnlyFades, Awaited
<1> QED
  BY <1>4, <1>5

(* A fade with nothing to do ...                                           *)
LEMMA FadeSkip ==
  ASSUME WizardInv, NEW e \in Elem, Skip(e), step' = step, clicked' = clicked
  PROVE  OnlyFades' /\ Awaited'
<1>1. /\ due = e /\ dequeue(e, fxqueue[e]) /\ timers' = timers
      /\ shown' = shown
      /\ \/ Head(fxqueue[e]).to = "show" /\ shown[e]
         \/ Head(fxqueue[e]).to = "hide" /\ ~shown[e]
  BY DEF Skip
<1>2. ASSUME e = Content PROVE shown[Content]
  <2>1. fxqueue[e] \in Seq(AnimationForm) /\ fxqueue[e] # <<>>
    BY <1>1 DEF WizardInv, EffectsInv, Linked
  <2>2. Head(fxqueue[e]) = fxqueue[e][1] /\ 1 \in 1..Len(fxqueue[e])
    BY <2>1
  <2> QED
    BY <1>1, <1>2, <2>2 DEF WizardInv, OnlyFades
<1>3. /\ \A i \in 1..Len(fxqueue'[Content]) : fxqueue'[Content][i].to = "show"
      /\ Awaited'
  BY <1>1, <1>2, FadeDequeued
<1> QED
  BY <1>1, <1>3 DEF WizardInv, OnlyFades

(* ... one that starts ...                                                 *)
LEMMA FadeRun ==
  ASSUME WizardInv, NEW e \in Elem, Run(e), step' = step, clicked' = clicked
  PROVE  OnlyFades' /\ Awaited'
<1>1. due = e /\ fxqueue' = fxqueue /\ shown' = [shown EXCEPT ![e] = TRUE]
  BY DEF Run
<1>2. timers \in Seq(Timer) /\ shown \in [Elem -> BOOLEAN] /\ Content \in Elem
  BY ContentAssumption DEF WizardInv, EffectsInv
<1>3. Awaited'
  <2>1. CASE e = Content
    <3>1. shown'[Content] = TRUE
      BY <1>1, <1>2, <2>1
    <3> QED
      BY <3>1 DEF Awaited
  <2>2. CASE e # Content
    <3>1. shown'[Content] = shown[Content]
      BY <1>1, <1>2, <2>2
    <3> QED
      BY <1>1, <2>2, <3>1 DEF WizardInv, Awaited
  <2> QED
    BY <2>1, <2>2
<1>4. ASSUME NEW i \in 1..Len(timers'), timers'[i].elem = Content
      PROVE  timers'[i].to = "show"
  <2>1. /\ timers' \in Seq(Timer)
        /\ \A c \in Elem \ {e} : Busy(timers', c) <=> Busy(timers, c)
        /\ \E us \in Seq(Timer) :
              /\ timers' = timers \o us
              /\ \A j \in 1..Len(us) : us[j].elem = e
              /\ Head(fxqueue[e]).to = "show" =>
                   \A j \in 1..Len(us) : us[j].to = "show"
    BY RunPushes DEF WizardInv
  <2>2. PICK us \in Seq(Timer) :
              /\ timers' = timers \o us
              /\ \A j \in 1..Len(us) : us[j].elem = e
              /\ Head(fxqueue[e]).to = "show" =>
                   \A j \in 1..Len(us) : us[j].to = "show"
    BY <2>1
  <2>3. /\ Len(timers') = Len(timers) + Len(us)
        /\ timers'[i] = IF i <= Len(timers) THEN timers[i] ELSE us[i - Len(timers)]
    BY <1>2, <1>4, <2>2, ConcatProperties
  <2>4. Len(timers) \in Nat /\ Len(us) \in Nat
    BY <1>2
  <2>5. CASE i <= Len(timers)
    BY <1>4, <2>3, <2>4, <2>5 DEF WizardInv, OnlyFades
  <2>6. CASE ~(i <= Len(timers))
    <3>1. i - Len(timers) \in 1..Len(us)
      BY <1>4, <2>3, <2>4, <2>6
    <3>2. e = Content
      BY <1>4, <2>2, <2>3, <2>6, <3>1
    <3>3. Head(fxqueue[e]).to = "show"
      <4>1. fxqueue[e] \in Seq(AnimationForm) /\ fxqueue[e] # <<>>
        BY <1>1 DEF WizardInv, EffectsInv, Linked
      <4>2. Head(fxqueue[e]) = fxqueue[e][1] /\ 1 \in 1..Len(fxqueue[e])
        BY <4>1
      <4> QED
        BY <3>2, <4>2 DEF WizardInv, OnlyFades
    <3> QED
      BY <2>2, <2>3, <2>6, <3>1, <3>3
  <2> QED
    BY <2>5, <2>6
<1> QED
  BY <1>1, <1>3, <1>4 DEF WizardInv, OnlyFades

(* ... one that goes on ...                                                *)
LEMMA FadeAdvance ==
  ASSUME WizardInv, Advance, step' = step, clicked' = clicked
  PROVE  OnlyFades' /\ Awaited'
<1> DEFINE l == [timers EXCEPT ![at].left = @ - 1]
<1>1. /\ at \in DOMAIN timers /\ timers[at].left > 1 /\ timers' = l
      /\ shown' = [shown EXCEPT ![timers[at].elem] = @ \/ timers[at].height]
      /\ fxqueue' = fxqueue /\ due' = due
  BY DEF Advance
<1>2. timers \in Seq(Timer) /\ shown \in [Elem -> BOOLEAN] /\ Content \in Elem
  BY ContentAssumption DEF WizardInv, EffectsInv
<1>3. /\ Len(l) = Len(timers)
      /\ \A i \in 1..Len(timers) : l[i].elem = timers[i].elem /\ l[i].to = timers[i].to
  BY <1>1, <1>2, AdvancedTimers
<1> HIDE DEF l
<1>4. OnlyFades'
  BY <1>1, <1>3 DEF WizardInv, OnlyFades
<1>5. shown[Content] => shown'[Content]
  BY <1>1, <1>2
<1> QED
  BY <1>1, <1>4, <1>5 DEF WizardInv, Awaited

(* ... and one that ends.                                                  *)
LEMMA FadeExpire ==
  ASSUME WizardInv, Expire, step' = step, clicked' = clicked
  PROVE  OnlyFades' /\ Awaited'
<1> DEFINE l == RemoveAt(timers, at)
           t == timers[at]
<1>1. due = NoElem /\ at \in DOMAIN timers /\ timers' = l
  BY DEF Expire
<1>2. /\ timers \in Seq(Timer) /\ shown \in [Elem -> BOOLEAN]
      /\ Content \in Elem
      /\ Content # NoElem
  BY ContentAssumption, EffectsAssumption DEF WizardInv, EffectsInv
<1>3. t \in Timer /\ at \in 1..Len(timers)
  BY <1>1, <1>2
<1>4. t.elem \in Elem /\ t.sized \in BOOLEAN /\ t.height \in BOOLEAN
  BY <1>3 DEF Timer
<1>5. \A i \in 1..Len(l) : \E j \in 1..Len(timers) : l[i] = timers[j]
  BY <1>1, <1>2, ExpiredTimers
<1>6. \A i \in 1..Len(l) : l[i].elem = Content => l[i].to = "show"
  BY <1>5 DEF WizardInv, OnlyFades
<1>7. t.elem = Content => t.to = "show"
  BY <1>3 DEF WizardInv, OnlyFades
<1> HIDE DEF l
<1>8. CASE OfElem(timers, t.elem) = {at}
  <2>1. /\ dequeue(t.elem, fxqueue[t.elem])
        /\ shown' = [shown EXCEPT ![t.elem] = ends(t, @)]
    BY <1>8 DEF Expire
  <2> HIDE DEF t
  <2>2. ASSUME t.elem = Content, shown[Content] PROVE shown'[Content]
    BY <1>2, <1>7, <2>1, <2>2 DEF ends
  <2>3. ASSUME t.elem # Content PROVE shown'[Content] = shown[Content]
    BY <1>2, <2>1, <2>3
  <2>4. /\ \A i \in 1..Len(fxqueue'[Content]) : fxqueue'[Content][i].to = "show"
        /\ Awaited'
    BY <1>1, <1>2, <1>4, <2>1, <2>2, <2>3, FadeDequeued
  <2> QED
    BY <1>1, <1>6, <2>4 DEF OnlyFades
<1>9. CASE OfElem(timers, t.elem) # {at}
  <2>1. /\ shown' = [shown EXCEPT ![t.elem] = @ \/ t.height]
        /\ fxqueue' = fxqueue /\ due' = due
    BY <1>9 DEF Expire
  <2> HIDE DEF t
  <2>2. shown[Content] => shown'[Content]
    BY <1>2, <2>1
  <2> QED
    BY <1>1, <1>6, <2>1, <2>2 DEF WizardInv, OnlyFades, Awaited
<1> QED
  BY <1>8, <1>9

(* Every behaviour of the wizard keeps the invariant.                      *)
LEMMA WizardInvariant == WizardSpec => []WizardInv
<1>1. WizardInit => WizardInv
  <2>1. ASSUME EffectsInit PROVE OnlyFades
    <3>1. fxqueue[Content] = <<>> /\ timers = <<>>
      BY <2>1, ContentAssumption DEF EffectsInit
    <3>2. Len(fxqueue[Content]) = 0 /\ Len(timers) = 0
      BY <3>1
    <3> HIDE <2>1
    <3> QED
      BY <3>2 DEF OnlyFades
  <2>2. WizardInit => step = 0 /\ clicked = "none" /\ EffectsInit
    BY DEF WizardInit
  <2> QED
    BY <2>1, <2>2, EffectsInvInit DEF WizardInv, Awaited
<1>2. ASSUME WizardInv, WizardNext PROVE WizardInv'
  <2>1. step \in 0..5 /\ clicked \in {"none", "next", "previous", "other"}
    BY <1>2 DEF WizardInv
  <2>2. ASSUME Ready PROVE WizardInv'
    BY <1>2, <2>1, <2>2, LoadState DEF Ready
  <2>3. ASSUME NextStep PROVE WizardInv'
    BY <1>2, <2>1, <2>3, LoadState DEF NextStep, nextEnabled
  <2>4. ASSUME PreviousStep PROVE WizardInv'
    BY <1>2, <2>1, <2>4, LoadState DEF PreviousStep, previousEnabled
  <2>5. ASSUME WizardMachinery PROVE WizardInv'
    <3>1. Machinery /\ step' = step /\ clicked' = clicked
      BY <2>5 DEF WizardMachinery
    <3>2. EffectsInv'
      BY <1>2, <3>1, MachineryKeeps DEF WizardInv
    <3>3. ASSUME Tick \/ EndTick PROVE OnlyFades' /\ Awaited'
      BY <1>2, <3>1, <3>3 DEF Tick, EndTick, WizardInv, OnlyFades, Awaited
    <3>4. OnlyFades' /\ Awaited'
      BY <1>2, <3>1, <3>3, FadeSkip, FadeRun, FadeAdvance,
         FadeExpire DEF Machinery
    <3> QED
      BY <2>1, <3>1, <3>2, <3>4 DEF WizardInv
  <2> QED
    BY <1>2, <2>2, <2>3, <2>4, <2>5, HiddenByOther DEF WizardNext
<1>3. ASSUME WizardInv, UNCHANGED wizardVars PROVE WizardInv'
  BY <1>3 DEF wizardVars, effectsVars, WizardInv, EffectsInv, OnlyFades,
     Awaited
<1> QED
  BY <1>1, <1>2, <1>3, PTL DEF WizardSpec

(* The wizard's content is never hidden with nothing left to show it       *)
(* (wizard.js).                                                            *)
THEOREM FadeBehindFade == WizardSpec => []HiddenThenQueued
<1>1. WizardInv => HiddenThenQueued
  BY ContentAssumption, EffectsAssumption
     DEF WizardInv, Awaited, HiddenThenQueued, Quiet
<1> QED
  BY <1>1, WizardInvariant, PTL
=============================================================================
