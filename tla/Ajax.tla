-------------------------------- MODULE Ajax --------------------------------
(***************************************************************************)
(* jQuery.ajax: asynchronous requests that share the counter jQuery.active *)
(* behind the ajaxStart and ajaxStop events.  A request by XMLHttpRequest  *)
(* is not told of its answer: an interval polls readyState, and a timeout  *)
(* may get there first.  A script for another host is loaded by an element *)
(* of its own, which has neither.                                          *)
(*                                                                         *)
(* A browser runs one handler at a time, so each call and each callback is *)
(* one step.  A callback of an answer may throw, which ends the handler it *)
(* was called from; the handlers of ajaxStart, ajaxSend and beforeSend do  *)
(* not.                                                                    *)
(***************************************************************************)
EXTENDS Integers, FiniteSets

CONSTANTS Request   \* calls of jQuery.ajax

VARIABLES
  active,   \* jQuery.active
  request   \* the settings and the closure of each call

ajaxVars == <<active, request>>

\* jsonp is a JSONP request to the page's own host, which goes by
\* XMLHttpRequest and evaluates its answer as a script.
Setting == [kind : {"xhr", "jsonp", "script"}, global : BOOLEAN,
            timed : BOOLEAN]

RequestState ==
  [kind : {"none", "xhr", "jsonp", "script"}, global : BOOLEAN,
   timer : BOOLEAN,       \* the timeout has been set and not fired
   ival : BOOLEAN,        \* the interval that polls
   loading : BOOLEAN,     \* the script element waits for onload
   readyState : {0, 1, 4},
   requestDone : BOOLEAN,
   answers : 0..2,        \* calls of success and error
   completes : 0..2,      \* calls of complete that counted down
   sendThrew : BOOLEAN]

AjaxTypeOK ==
  /\ active \in Int
  /\ request \in [Request -> RequestState]

AjaxInit ==
  /\ active = 0
  /\ request = [r \in Request |->
       [kind |-> "none", global |-> FALSE, timer |-> FALSE, ival |-> FALSE,
        loading |-> FALSE, readyState |-> 0, requestDone |-> FALSE,
        answers |-> 0, completes |-> 0, sendThrew |-> FALSE]]

Started(r) == request[r].kind # "none"

\* A beforeSend that returns false undoes the count and aborts.
Cancelled(r, s) ==
  /\ ~Started(r) /\ s.kind # "script"
  /\ request' = [request EXCEPT ![r].kind = s.kind]
  /\ UNCHANGED active

\* send may throw, which calls error and leaves the interval polling.
ajax(r, s) ==
  /\ ~Started(r)
  /\ active' = active + (IF s.global THEN 1 ELSE 0)
  /\ LET script == s.kind = "script"
     IN \E throws \in (IF script THEN {FALSE} ELSE BOOLEAN) :
          request' = [request EXCEPT ![r] =
            [@ EXCEPT !.kind = s.kind, !.global = s.global,
                      !.timer = s.timed /\ ~script,
                      !.ival = ~script, !.loading = script,
                      !.readyState = IF script THEN 0 ELSE 1,
                      !.sendThrew = throws,
                      !.answers = IF throws THEN 1 ELSE 0]]

\* The browser has the whole answer.
Arrive(r) ==
  /\ request[r].readyState = 1 /\ ~request[r].sendThrew
  /\ request' = [request EXCEPT ![r].readyState = 4]
  /\ UNCHANGED active

\* The caller aborts the XMLHttpRequest that ajax returned: nothing else
\* happens until onreadystatechange runs again.
Abort(r) ==
  /\ request[r].readyState # 0
  /\ request' = [request EXCEPT ![r].readyState = 0]
  /\ UNCHANGED active

\* Mutant: an aborted request is counted down whenever it is looked at.
abortedAgain(r, timer) ==
  /\ request' = [request EXCEPT ![r].ival = FALSE, ![r].timer = timer]
  /\ active' = active - (IF request[r].global THEN 1 ELSE 0)

\* The branch of onreadystatechange for an aborted request.
aborted(r, timer) ==
  /\ request' = [request EXCEPT ![r].ival = FALSE, ![r].timer = timer]
  /\ active' = active - (IF request[r].ival /\ request[r].global THEN 1 ELSE 0)

\* The success or error callback, then complete, which counts down before it
\* triggers ajaxStop: either may throw, and complete may do so once it has
\* counted.  The answer to a JSONP request is a script, which globalEval runs in
\* an element of its own: it may call success and complete, an exception of
\* theirs ends that script alone, and complete runs once more afterwards.
Outcome(kind, ok) ==
  LET called == IF kind = "jsonp" /\ ok THEN {0, 1} ELSE {1}
      most(a) == IF kind = "jsonp" /\ ok THEN a + 1 ELSE 1
  IN {o \in [answers : called, completes : 0..2, threw : BOOLEAN] :
        /\ o.completes <= most(o.answers)
        /\ o.completes = 0 => o.threw}

\* Mutant: the interval is not cleared.
finishPolling(r, ok, isTimeout) ==
  \E o \in Outcome(request[r].kind, ok) :
    /\ request' = [request EXCEPT ![r] =
         [@ EXCEPT !.requestDone = TRUE, !.loading = FALSE,
                   !.timer = @ /\ ~isTimeout,
                   !.answers = @ + o.answers, !.completes = o.completes]]
    /\ active' = active - (IF request[r].global THEN o.completes ELSE 0)

\* The other branch: requestDone, the status, the callbacks; after a timeout
\* whose callbacks return, abort.
finished(q, o, isTimeout) ==
  [q EXCEPT !.requestDone = TRUE, !.ival = FALSE, !.loading = FALSE,
            !.timer = @ /\ ~isTimeout,
            !.readyState = IF isTimeout /\ ~o.threw THEN 0 ELSE @,
            !.answers = @ + o.answers, !.completes = o.completes]

finish(r, ok, isTimeout) ==
  \E o \in Outcome(request[r].kind, ok) :
    /\ request' = [request EXCEPT ![r] = finished(@, o, isTimeout)]
    /\ active' = active - (IF request[r].global THEN o.completes ELSE 0)

Poll(r) ==
  /\ request[r].ival
  /\ \/ request[r].readyState = 0 /\ aborted(r, request[r].timer)
     \/ /\ request[r].readyState = 4 /\ ~request[r].requestDone
        /\ \E ok \in BOOLEAN : finish(r, ok, FALSE)

\* Mutant: a timeout does not ask whether the request is done.
TimeoutRegardless(r) ==
  /\ request[r].timer
  /\ IF request[r].readyState = 0 THEN aborted(r, FALSE) ELSE finish(r, FALSE, TRUE)

Timeout(r) ==
  /\ request[r].timer
  /\ IF request[r].requestDone
     THEN /\ request' = [request EXCEPT ![r].timer = FALSE]
          /\ UNCHANGED active
     ELSE IF request[r].readyState = 0 THEN aborted(r, FALSE)
     ELSE finish(r, FALSE, TRUE)

\* onload of the script element.
Loaded(r) == request[r].loading /\ finish(r, TRUE, FALSE)

AjaxNext ==
  \E r \in Request :
    \/ \E s \in Setting : Cancelled(r, s) \/ ajax(r, s)
    \/ Arrive(r) \/ Abort(r) \/ Poll(r) \/ Timeout(r) \/ Loaded(r)

\* Timers fire; servers and callers owe nothing.
AjaxFairness ==
  \A r \in Request : WF_ajaxVars(Poll(r)) /\ WF_ajaxVars(Timeout(r))

AjaxSpec == AjaxInit /\ [][AjaxNext]_ajaxVars /\ AjaxFairness

\* A done request whose complete has counted down neither never nor twice.
CompletedOnce(q) == q.requestDone => q.completes = 1

(***************************************************************************)
(* As long as no exception has kept a request from completing and no JSONP *)
(* answer has completed twice, jQuery.active is the number of counted      *)
(* requests that are still polled or loading, through every race of        *)
(* answer, abort and timeout; so ajaxStop comes when the last of them is   *)
(* settled.                                                                *)
(***************************************************************************)
ActiveMatches ==
  (\A r \in Request : CompletedOnce(request[r]))
    => active = Cardinality({r \in Request :
                   /\ request[r].global
                   /\ request[r].ival \/ request[r].loading})

(***************************************************************************)
(* A request answers its caller once, whatever its callbacks throw: a late *)
(* answer is not delivered after a timeout nor a timeout after an answer,  *)
(* and an aborted request says nothing.  Only a send that threw has        *)
(* already called error, and only a JSONP answer completes twice.          *)
(***************************************************************************)
OneAnswer ==
  \A r \in Request :
    LET q == request[r]
        told == q.answers - (IF q.sendThrew THEN 1 ELSE 0)
    IN /\ told <= 1
       /\ q.kind # "jsonp" => q.completes <= 1
       /\ ~q.requestDone => told <= 0

(***************************************************************************)
(* A request with a timeout is settled whatever the server, the caller and *)
(* the callbacks do.  (One without may be polled for ever.)                *)
(***************************************************************************)
Settles ==
  \A r \in Request : request[r].ival /\ request[r].timer ~> ~request[r].ival
=============================================================================
