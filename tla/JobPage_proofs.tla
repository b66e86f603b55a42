---------------------------- MODULE JobPage_proofs ----------------------------
(***************************************************************************)
(* Proofs about JobPage, for any set of jobs and any number of requests.   *)
(* Between two calls the tabs widget is settled, so every click of the page*)
(* runs its queue to the end; the tabs are enabled from the left, or from  *)
(* the tab the page started with; and the request made last stays the last *)
(* of those under way.  The help is an accordion in which one animation    *)
(* runs at a time.                                                         *)
(***************************************************************************)
EXTENDS JobPage, SequenceTheorems, TLAPS

\* The types of the tabs widget of this page.
Queued == [hide : BOOLEAN, panels : SUBSET (0..4)]

Widget ==
  [order : Seq(0..4), fresh : SUBSET (0..4), selected : -1..4,
   marked : SUBSET (0..4), visible : SUBSET (0..4), disabled : SUBSET (0..4),
   greyed : SUBSET (0..4), processing : SUBSET (0..4),
   cached : SUBSET (0..4), loading : -1..4,
   queue : Seq(Queued), disturbed : BOOLEAN]

\* The functions of a queue that show a panel.
Shows(q) == {i \in DOMAIN q : ~q[i].hide}

(* A queue that hides and then shows runs up to its second function.      *)
LEMMA Ran ==
  ASSUME NEW h \in Queued, NEW g \in Queued, NEW q,
         h.hide, ~g.hide, q = <<h, g>>
  PROVE  /\ q \in Seq(Queued)
         /\ Shows(q) = {2} /\ Form!Min(Shows(q)) = 2
         /\ SubSeq(q, 1, 2) = q /\ SubSeq(q, 3, Len(q)) = <<>>
         /\ Form!ToSet(q) = {h, g}
<1>1. DOMAIN q = 1..2 /\ Len(q) = 2 /\ q[1] = h /\ q[2] = g
      /\ q \in Seq(Queued)
  OBVIOUS
<1>2. Shows(q) = {2}
  BY <1>1 DEF Shows
<1>3. Form!Min({2}) = 2
  BY DEF Form!Min
<1>4. SubSeq(q, 1, 2) = q
  BY <1>1, SubSeqFull
<1>5. SubSeq(q, 3, Len(q)) = <<>>
  BY <1>1
<1>6. Form!ToSet(q) = {h, g}
  BY <1>1 DEF Form!ToSet
<1> QED
  BY <1>1, <1>2, <1>3, <1>4, <1>5, <1>6

\* What a click leaves: the panel of t instead of those of h.
Switched(s, h, t) ==
  [s EXCEPT !.queue = <<>>, !.visible = (s.visible \ h) \cup {t},
            !.marked = {t}]

(* dequeue("tabs") on what a click has queued runs all of it.             *)
LEMMA Dequeued ==
  ASSUME NEW s \in Widget, NEW h \in SUBSET (0..4), NEW t \in 0..4,
         s.queue = <<Form!hideFn(h), Form!showFn(t)>>
  PROVE  Form!dequeueTabs(s) = Switched(s, h, t)
<1> DEFINE q == s.queue  f == Form!hideFn(h)  g == Form!showFn(t)
<1>1. f \in Queued /\ g \in Queued /\ f.hide /\ ~g.hide
      /\ f.panels = h /\ g.panels = {t}
  BY DEF Form!hideFn, Form!showFn, Queued
<1>2. q = <<f, g>>
  OBVIOUS
<1> HIDE DEF f, g, q
<1>3. /\ Shows(q) = {2} /\ Form!Min(Shows(q)) = 2
      /\ SubSeq(q, 1, 2) = q /\ SubSeq(q, 3, Len(q)) = <<>>
      /\ Form!ToSet(q) = {f, g}
  BY <1>1, <1>2, Ran
<1>4. {k \in Form!ToSet(q) : k.hide} = {f}
      /\ {k \in Form!ToSet(q) : ~k.hide} = {g}
  BY <1>1, <1>3
<1>5. UNION {k.panels : k \in {f}} = h /\ UNION {k.panels : k \in {g}} = {t}
  BY <1>1
<1>6. \E k \in Form!ToSet(q) : k.hide
  BY <1>1, <1>3
<1>7. Form!dequeueTabs(s) =
        [s EXCEPT !.queue = SubSeq(@, 3, Len(@)),
                  !.visible = (@ \ UNION {k.panels : k \in {f}})
                                \cup UNION {k.panels : k \in {g}},
                  !.marked = {} \cup UNION {k.panels : k \in {g}}]
  <2>1. Shows(q) # {} /\ Form!Min(Shows(q)) + 1 = 3
    BY <1>3
  <2> QED
    BY <1>3, <1>4, <1>6, <2>1 DEF Form!dequeueTabs, q, Shows
<1> QED
  BY <1>3, <1>5, <1>7 DEF q, Switched

\* The widget between two calls: the panel of the selected tab is visible.
Settled(s) ==
  /\ s \in Widget
  /\ s.order = <<0, 1, 2, 3, 4>> /\ s.queue = <<>>
  /\ s.loading = None /\ s.processing = {}
  /\ s.selected \in 0..4
  /\ s.visible = {s.selected} /\ s.marked = {s.selected}

(* The page has all the tabs, from its first state on.                    *)
LEMMA Ordered == Form!ToSet(<<0, 1, 2, 3, 4>>) = 0..4
BY DEF Form!ToSet

(* What a click appends to an empty queue.                                *)
LEMMA TwoQueued ==
  ASSUME NEW x \in Queued, NEW y \in Queued
  PROVE  <<x, y>> \in Seq(Queued) /\ <<>> \o <<x>> \o <<y>> = <<x, y>>
<1>1. <<x>> \in Seq(Queued) /\ <<x, y>> \in Seq(Queued)
  OBVIOUS
<1>2. <<>> \o <<x>> = <<x>>
  BY <1>1, ConcatEmptySeq
<1>3. <<x>> \o <<y>> = <<x, y>>
  <2> DEFINE z == <<x>> \o <<y>>
  <2>1. <<x>> \in Seq(Queued) /\ <<y>> \in Seq(Queued)
        /\ Len(<<x>>) = 1 /\ Len(<<y>>) = 1
        /\ <<x>>[1] = x /\ <<y>>[1] = y
    OBVIOUS
  <2>2. z \in Seq(Queued) /\ Len(z) = 2 /\ z[1] = x /\ z[2] = y
    BY <2>1, ConcatProperties
  <2>3. Len(<<x, y>>) = 2 /\ <<x, y>>[1] = x /\ <<x, y>>[2] = y
    OBVIOUS
  <2> HIDE DEF z
  <2>4. z = <<x, y>>
    BY <1>1, <2>2, <2>3, SeqEqual
  <2> QED
    BY <2>4 DEF z
<1> QED
  BY <1>1, <1>2, <1>3

(* A change of the queue leaves the rest of the widget alone.             *)
LEMMA Queueing ==
  ASSUME NEW s \in Widget, NEW q \in Seq(Queued),
         NEW r, r = [s EXCEPT !.queue = q]
  PROVE  /\ r \in Widget /\ r.queue = q
         /\ r.loading = s.loading /\ r.processing = s.processing
         /\ r.visible = s.visible /\ r.selected = s.selected
         /\ r.order = s.order /\ r.greyed = s.greyed
BY DEF Widget

(* A click on the selected tab or on a disabled one is ignored.            *)
LEMMA Ignored ==
  ASSUME NEW s, NEW t, t \in s.marked \cup s.greyed
  PROVE  Form!clickTab(s, t) = s
BY DEF Form!clickTab

(* Any other click selects its tab, and leaves the widget settled.         *)
LEMMA Clicked ==
  ASSUME NEW s, Settled(s), NEW t \in 0..4, t \notin s.marked \cup s.greyed
  PROVE  /\ Settled(Form!clickTab(s, t))
         /\ Form!clickTab(s, t).selected = t
         /\ Form!clickTab(s, t).greyed = s.greyed
<1> DEFINE h == {s.selected}
           a == [Form!abortTabs(s) EXCEPT !.selected = t]
           q == <<Form!hideFn(h), Form!showFn(t)>>
           b == [a EXCEPT !.queue = q]
           r == Switched(b, h, t)
<1>1. h \in SUBSET (0..4) /\ h # {}
      /\ s.visible \cap Form!Present(s) = h
  BY Ordered DEF Settled, Form!Present
<1>2. a = [s EXCEPT !.selected = t] /\ a \in Widget /\ a.queue = <<>>
      /\ a.loading = None /\ a.processing = {}
  <2>1. Form!abortTabs(s) = s
    BY DEF Form!abortTabs, Settled, Widget
  <2> QED
    BY <2>1, SMTT(30) DEF Settled, Widget
<1>3. Form!hideFn(h) \in Queued /\ Form!showFn(t) \in Queued
  BY <1>1 DEF Form!hideFn, Form!showFn, Queued
<1>4. q \in Seq(Queued)
      /\ <<>> \o <<Form!hideFn(h)>> \o <<Form!showFn(t)>> = q
  BY <1>3, TwoQueued
<1> HIDE DEF a, h, q
<1>5. b = [a EXCEPT !.queue = q]
  OBVIOUS
<1>6. a \in Widget /\ q \in Seq(Queued)
  BY <1>2, <1>4
<1> HIDE DEF b
<1>7. b \in Widget /\ b.queue = q
      /\ b.loading = a.loading /\ b.processing = a.processing
      /\ b.visible = a.visible /\ b.selected = a.selected
      /\ b.order = a.order /\ b.greyed = a.greyed
  BY <1>5, <1>6, Queueing
<1>8. a.visible = h /\ a.selected = t /\ a.order = s.order
      /\ a.greyed = s.greyed
  BY <1>2 DEF Settled, Widget, h
<1>9. Form!abortTabs(b) = b
  BY <1>2, <1>7 DEF Form!abortTabs, Widget
<1>10. Form!loadTab(b, t) = Form!dequeueTabs(b)
  BY <1>9 DEF Form!loadTab
<1>11. Form!dequeueTabs(b) = r
  <2>1. b \in Widget /\ h \in SUBSET (0..4)
        /\ b.queue = <<Form!hideFn(h), Form!showFn(t)>>
    BY <1>1, <1>7 DEF q
  <2> QED
    BY <2>1, Dequeued
<1>12. Form!clickTab(s, t) = Form!loadTab(b, t)
  <2>1. t \notin s.processing
    BY DEF Settled
  <2>2. a.queue \o <<Form!hideFn(h)>> \o <<Form!showFn(t)>> = q
    BY <1>2, <1>4
  <2> QED
    BY <1>1, <2>1, <2>2 DEF Form!clickTab, a, b
<1>13. Settled(r) /\ r.selected = t /\ r.greyed = s.greyed
  BY <1>2, <1>7, <1>8, ZenonT(30) DEF Settled, Widget, Switched
<1> QED
  BY <1>10, <1>11, <1>12, <1>13

----------------------------------------------------------------------------
(* Tabs are enabled from the left, after a job has been selected, or from  *)
(* the tab the page started with.                                          *)
InOrder(s, job) ==
  /\ 0 \notin s.greyed /\ s.selected \notin s.greyed
  /\ \A t \in 1..4 : t \notin s.greyed =>
       \/ job # NoJob /\ \A u \in 1..t : u \notin s.greyed
       \/ form.start <= t /\ form.start # 0
            /\ \A u \in form.start..t : u \notin s.greyed

HasFields(f) ==
  f = [x \in {"items", "job", "requests", "category", "data", "loading",
              "factors", "option", "help", "summary", "posted", "start",
              "newest", "spoilt", "ignored"} |-> f[x]]

IsForm == HasFields(form)

\* What Finish posts.
Current == [factors |-> form.factors, option |-> form.option]

\* The summary is that of what the form holds, but for factors unchecked since.
Fits ==
  /\ form.summary.job = form.job /\ form.summary.option = form.option
  /\ form.factors \in {form.summary.factors, NoJob}

FormInv ==
  /\ IsForm /\ form.requests \in Seq(Job) /\ form.start \in 0..4
  /\ pageTabs.selected = 4 /\ form.summary # NoSummary => Fits
  /\ form.posted \in {NoEntry, Current}

PageInv == Settled(pageTabs) /\ InOrder(pageTabs, form.job) /\ FormInv

(* The page starts with some tab, and nothing asked.                       *)
LEMMA FirstForm ==
  ASSUME PageInit
  PROVE  /\ IsForm /\ form.start \in 0..4 /\ form.requests = <<>>
         /\ form.items = {} /\ form.job = NoJob /\ form.category = NoJob
         /\ form.data = NoJob /\ form.loading \in {FALSE} /\ form.factors = NoJob
         /\ form.option = 1 /\ form.help = 0 /\ form.summary = NoSummary
         /\ form.posted = NoEntry /\ form.newest \in {FALSE}
         /\ form.spoilt \in {FALSE} /\ form.ignored \in {FALSE}
<1> DEFINE e == <<>>
<1>1. form \in [items : {{}}, job : {NoJob}, requests : {e},
               category : {NoJob}, data : {NoJob}, loading : {FALSE},
               factors : {NoJob}, option : {1}, help : {0},
               summary : {NoSummary}, posted : {NoEntry}, start : 0..4,
               newest : {FALSE}, spoilt : {FALSE}, ignored : {FALSE}]
  BY DEF PageInit
<1> HIDE DEF e
<1>2. form.requests = e
  BY <1>1
<1>3. IsForm
  BY <1>1 DEF IsForm, HasFields
<1> QED
  BY <1>1, <1>2, <1>3 DEF e

LEMMA AtFirst == PageInit => PageInv
<1> SUFFICES ASSUME PageInit PROVE PageInv
  OBVIOUS
<1> DEFINE t == form.start
<1>1. t \in 0..4 /\ pageTabs = TabsStart(t)
  BY FirstForm DEF PageInit
<1>2. TabsStart(t) \in Widget
  BY <1>1 DEF TabsStart, Widget, None
<1>3. Settled(pageTabs)
  BY <1>1, <1>2 DEF TabsStart, Settled, None
<1>4. InOrder(pageTabs, form.job)
  BY <1>1 DEF TabsStart, InOrder
<1>5. FormInv
  <2>1. <<>> \in Seq(Job)
    OBVIOUS
  <2> QED
    BY <2>1, FirstForm DEF FormInv
<1> QED
  BY <1>3, <1>4, <1>5 DEF PageInv

(* Lassos hold jobs, and the last of them is the one selected.             *)
LEMMA LassoLast ==
  ASSUME NEW js \in Lassos
  PROVE  js \in Seq(Job) /\ Last(js) \in Job /\ Len(js) \in {1, 2}
BY DEF Lassos, Last

(* An answer ends the only request.                                        *)
LEMMA Answered ==
  ASSUME NEW q \in Seq(Job), NEW i \in DOMAIN q
  PROVE  RemoveAt(q, i) \in Seq(Job) /\ (Len(q) = 1 => RemoveAt(q, i) = <<>>)
<1>1. i \in 1..Len(q)
  OBVIOUS
<1>2. SubSeq(q, 1, i - 1) \in Seq(Job) /\ SubSeq(q, i + 1, Len(q)) \in Seq(Job)
  BY <1>1
<1>3. RemoveAt(q, i) \in Seq(Job)
  BY <1>2, ConcatProperties DEF RemoveAt
<1>4. ASSUME Len(q) = 1 PROVE RemoveAt(q, i) = <<>>
  <2>1. SubSeq(q, 1, i - 1) = <<>> /\ SubSeq(q, i + 1, Len(q)) = <<>>
    BY <1>1, <1>4, SubSeqEmpty
  <2> QED
    BY <1>2, <2>1, ConcatEmptySeq DEF RemoveAt
<1> QED
  BY <1>3, <1>4

(* What a step must do to keep the invariant if it leaves the tabs alone.  *)
LEMMA Undisturbed ==
  ASSUME PageInv, pageTabs' = pageTabs, IsForm',
         form'.requests \in Seq(Job), form'.start = form.start,
         form'.job = form.job \/ form'.job # NoJob,
         form'.posted \in {NoEntry, Current'},
         \/ pageTabs.selected # 4
         \/ /\ form'.job = form.job /\ form'.option = form.option
            /\ form'.summary = form.summary
            /\ form'.factors \in {form.factors, NoJob}
  PROVE  PageInv'
<1>1. Settled(pageTabs)'
  BY DEF PageInv, Settled
<1>2. InOrder(pageTabs, form.job)'
  BY DEF PageInv, InOrder
<1>3. FormInv'
  BY DEF PageInv, FormInv, Fits
<1> QED
  BY <1>1, <1>2, <1>3 DEF PageInv

(* What a lasso, an answer and a failure do to the form.                   *)
LEMMA LassoGuard ==
  ASSUME NEW js, SelectJobs(js)
  PROVE  /\ SeesTab(0) /\ pageTabs' = pageTabs /\ info' = info
         /\ pageAccordion' = pageAccordion
BY DEF SelectJobs

LEMMA LassoStep ==
  ASSUME NEW js, SelectJobs(js)
  PROVE  form' = [[form EXCEPT !.job = Last(js), !.requests = @ \o js,
                               !.category = NoJob, !.data = NoJob]
                   EXCEPT !.loading = TRUE, !.factors = NoJob,
                          !.newest = TRUE, !.spoilt = Repeats(js)]
BY DEF SelectJobs

LEMMA LassoForm ==
  ASSUME IsForm, NEW js, SelectJobs(js)
  PROVE  /\ IsForm' /\ form'.requests = form.requests \o js
         /\ form'.job = Last(js) /\ form'.posted = form.posted
         /\ form'.start = form.start /\ form'.category = NoJob
         /\ form'.newest /\ (form'.spoilt <=> Repeats(js))
         /\ form'.help = form.help /\ form'.ignored = form.ignored
<1> DEFINE q == form.requests \o js  j == Last(js)  o == Repeats(js)
           f == [form EXCEPT !.job = j, !.requests = q, !.category = NoJob,
                             !.data = NoJob]
<1>1. form' = [f EXCEPT !.loading = TRUE, !.factors = NoJob,
                        !.newest = TRUE, !.spoilt = o]
  BY LassoStep
<1>2. f = [form EXCEPT !.job = j, !.requests = q, !.category = NoJob,
                       !.data = NoJob]
  OBVIOUS
<1> HIDE DEF q, j, o, f
<1>3. /\ HasFields(f) /\ f.requests = q /\ f.job = j /\ f.category = NoJob
      /\ f.posted = form.posted /\ f.start = form.start
      /\ f.help = form.help /\ f.ignored = form.ignored
  BY <1>2 DEF IsForm, HasFields
<1>4. /\ IsForm' /\ form'.requests = f.requests /\ form'.job = f.job
      /\ form'.category = f.category /\ form'.posted = f.posted
      /\ form'.start = f.start /\ form'.newest /\ form'.spoilt = o
      /\ form'.help = f.help /\ form'.ignored = f.ignored
  BY <1>1, <1>3 DEF IsForm, HasFields
<1> QED
  BY <1>3, <1>4 DEF q, j, o

LEMMA AnswerGuard ==
  ASSUME NEW i, DataArrives(i) \/ DataFails(i)
  PROVE  /\ form.posted = NoEntry /\ pageTabs' = pageTabs /\ info' = info
         /\ pageAccordion' = pageAccordion
BY DEF DataArrives, DataFails

LEMMA AnswerForm ==
  ASSUME IsForm, NEW i \in DOMAIN form.requests, DataArrives(i)
  PROVE  LET j == form.requests[i]
             c == IF j \in Ungrouped THEN form.category ELSE j
             d == IF j \notin Ungrouped /\ form.category # j THEN j ELSE NoJob
         IN /\ IsForm' /\ form'.requests = RemoveAt(form.requests, i)
            /\ form'.category = c /\ form'.data = d /\ form'.factors = NoJob
            /\ (form'.newest <=> form.newest /\ i < Len(form.requests))
            /\ (form'.spoilt <=> form.spoilt \/ ~form.newest)
            /\ form'.posted = form.posted /\ form'.job = form.job
            /\ form'.start = form.start /\ form'.option = form.option
            /\ form'.summary = form.summary
            /\ form'.help = form.help /\ form'.ignored = form.ignored
<1> DEFINE j == form.requests[i]
           q == RemoveAt(form.requests, i)
           c == IF j \in Ungrouped THEN form.category ELSE j
           d == IF j \notin Ungrouped /\ form.category # j THEN j ELSE NoJob
           n == form.newest /\ i < Len(form.requests)
           o == form.spoilt \/ ~form.newest
<1>1. form' = [form EXCEPT !.requests = q, !.loading = FALSE, !.category = c,
                 !.data = d, !.factors = NoJob, !.newest = n, !.spoilt = o]
  BY DEF DataArrives
<1> HIDE DEF q, c, d, n, o
<1>2. IsForm'
  BY <1>1 DEF IsForm, HasFields
<1>3. /\ form'.requests = q /\ form'.category = c /\ form'.data = d
      /\ form'.factors = NoJob /\ form'.newest = n /\ form'.spoilt = o
      /\ form'.posted = form.posted /\ form'.job = form.job
      /\ form'.start = form.start /\ form'.option = form.option
      /\ form'.summary = form.summary
      /\ form'.help = form.help /\ form'.ignored = form.ignored
  BY <1>1 DEF IsForm, HasFields
<1> QED
  BY <1>2, <1>3 DEF q, c, d, n, o

LEMMA FailureForm ==
  ASSUME IsForm, NEW i \in DOMAIN form.requests, DataFails(i)
  PROVE  /\ IsForm' /\ form'.requests = RemoveAt(form.requests, i)
         /\ form'.category = form.category /\ form'.data = form.data
         /\ form'.factors = form.factors
         /\ (form'.newest <=> form.newest /\ i < Len(form.requests))
         /\ (form'.spoilt <=> form.spoilt
                              \/ (form.newest /\ i = Len(form.requests)))
         /\ form'.posted = form.posted /\ form'.job = form.job
         /\ form'.start = form.start /\ form'.option = form.option
         /\ form'.summary = form.summary
         /\ form'.help = form.help /\ form'.ignored = form.ignored
<1> DEFINE q == RemoveAt(form.requests, i)
           n == form.newest /\ i < Len(form.requests)
           o == form.spoilt \/ (form.newest /\ i = Len(form.requests))
<1>1. form' = [form EXCEPT !.requests = q, !.newest = n, !.spoilt = o]
  BY DEF DataFails
<1> HIDE DEF q, n, o
<1>2. IsForm'
  BY <1>1 DEF IsForm, HasFields
<1>3. /\ form'.requests = q /\ form'.category = form.category
      /\ form'.data = form.data /\ form'.factors = form.factors
      /\ form'.newest = n /\ form'.spoilt = o
      /\ form'.posted = form.posted /\ form'.job = form.job
      /\ form'.start = form.start /\ form'.option = form.option
      /\ form'.summary = form.summary
      /\ form'.help = form.help /\ form'.ignored = form.ignored
  BY <1>1 DEF IsForm, HasFields
<1> QED
  BY <1>2, <1>3 DEF q, n, o

(* The actions of the form that leave the tabs alone.                      *)
LEMMA FormKeeps ==
  ASSUME PageInv,
         \/ ItemsArrive \/ CheckFactors \/ SetTheOption \/ Finish
         \/ \E js \in Lassos : SelectJobs(js)
         \/ \E i \in DOMAIN form.requests : DataArrives(i) \/ DataFails(i)
  PROVE  PageInv'
<1>1. IsForm /\ form.requests \in Seq(Job) /\ form.posted \in {NoEntry, Current}
  BY DEF PageInv, FormInv
<1>2. \A t : SeesTab(t) => form.posted = NoEntry /\ pageTabs.selected = t
  BY DEF SeesTab, Sees, Settled, PageInv
<1>3. CASE ItemsArrive
  <2>1. /\ pageTabs' = pageTabs /\ form' = [form EXCEPT !.items = Job]
    BY <1>3 DEF ItemsArrive
  <2>2. Current' = Current
    BY <1>1, <2>1 DEF IsForm, HasFields, Current
  <2> QED
    BY <1>1, <2>1, <2>2, Undisturbed DEF IsForm, HasFields
<1>4. CASE CheckFactors \/ SetTheOption
  <2>1. pageTabs' = pageTabs /\ form.posted = NoEntry /\ pageTabs.selected # 4
    BY <1>2, <1>4 DEF CheckFactors, SetTheOption
  <2>2. \/ \E x : form' = [form EXCEPT !.factors = x]
        \/ \E x : form' = [form EXCEPT !.option = x]
    BY <1>4 DEF CheckFactors, SetTheOption
  <2> QED
    BY <1>1, <2>1, <2>2, Undisturbed DEF IsForm, HasFields
<1>5. CASE Finish
  <2>1. pageTabs' = pageTabs /\ form' = [form EXCEPT !.posted = Current]
    BY <1>5 DEF Finish, Current
  <2>2. Current' = Current
    BY <1>1, <2>1 DEF IsForm, HasFields, Current
  <2> QED
    BY <1>1, <2>1, <2>2, Undisturbed DEF IsForm, HasFields
<1>6. ASSUME NEW js \in Lassos, SelectJobs(js) PROVE PageInv'
  <2>1. js \in Seq(Job) /\ Last(js) # NoJob
    BY LassoLast, JobAssumption
  <2>2. form.requests \o js \in Seq(Job)
    BY <1>1, <2>1, ConcatProperties
  <2>3. form.posted = NoEntry /\ pageTabs.selected = 0 /\ pageTabs' = pageTabs
    BY <1>2, <1>6, LassoGuard
  <2>4. IsForm' /\ form'.requests = form.requests \o js
        /\ form'.posted = form.posted /\ form'.job = Last(js)
        /\ form'.start = form.start
    BY <1>1, <1>6, LassoForm
  <2> QED
    BY <2>1, <2>2, <2>3, <2>4, Undisturbed
<1>7. ASSUME NEW i \in DOMAIN form.requests, DataArrives(i) \/ DataFails(i)
      PROVE  PageInv'
  <2>1. RemoveAt(form.requests, i) \in Seq(Job)
    BY <1>1, Answered
  <2>2. IsForm' /\ form'.requests = RemoveAt(form.requests, i)
        /\ form'.posted = form.posted /\ form.posted = NoEntry
        /\ form'.job = form.job /\ form'.start = form.start
        /\ form'.option = form.option /\ form'.summary = form.summary
        /\ form'.factors \in {form.factors, NoJob}
    BY <1>1, <1>7, AnswerForm, FailureForm, AnswerGuard
  <2>3. pageTabs' = pageTabs
    BY <1>7, AnswerGuard
  <2> QED
    BY <2>1, <2>2, <2>3, Undisturbed
<1> QED
  BY <1>3, <1>4, <1>5, <1>6, <1>7

(* Selecting a tab: the widget s is the page's, with more tabs enabled.    *)
LEMMA SelectKeeps ==
  ASSUME PageInv, NEW s, NEW t \in 0..4, selectTab(s, t),
         Settled(s), s.selected = pageTabs.selected, InOrder(s, form.job),
         form.posted = NoEntry
  PROVE  PageInv'
<1> USE DEF PageInv, FormInv, IsForm, HasFields, Current, Fits
<1>1. CASE t \in s.marked \cup s.greyed
  <2>1. pageTabs' = s /\ form' = form
    BY <1>1, Ignored DEF selectTab
  <2> QED
    BY <2>1 DEF Settled, InOrder
<1>2. CASE t \notin s.marked \cup s.greyed
  <2>1. /\ Settled(pageTabs)' /\ pageTabs'.selected = t
        /\ pageTabs'.greyed = s.greyed
    BY <1>2, Clicked DEF selectTab, Settled
  <2>2. form' = tabsselect(t)
    BY <1>2 DEF selectTab
  <2>3. form'.job = form.job /\ form'.start = form.start /\ FormInv'
    BY <2>1, <2>2 DEF tabsselect, Listed
  <2> QED
    BY <1>2, <2>1, <2>3 DEF InOrder
<1> QED
  BY <1>1, <1>2

(* Clicks on the tabs and on the buttons of their panels.                  *)
LEMMA TabsKeep ==
  ASSUME PageInv, NEW t \in 0..4, ClickTab(t) \/ NextTab(t) \/ BackTab(t)
  PROVE  PageInv'
<1>1. CASE ClickTab(t)
  BY <1>1, SelectKeeps DEF ClickTab, Sees, PageInv
<1>2. CASE NextTab(t)
  <2> DEFINE s == [pageTabs EXCEPT !.disabled = @ \ {t + 1},
                                   !.greyed = @ \ {t + 1}]
  <2>1. t \in 0..3 /\ t + 1 \in 0..4 /\ pageTabs.selected = t
        /\ form.posted = NoEntry
    BY <1>2 DEF NextTab, SeesTab, Sees, PageInv, Settled
  <2>2. Settled(s) /\ s.selected = t /\ s.greyed = pageTabs.greyed \ {t + 1}
    BY <2>1 DEF PageInv, Settled, Widget
  <2>3. selectTab(s, t + 1)
    BY <1>2 DEF NextTab
  <2> HIDE DEF s
  <2>4. \/ form.job # NoJob /\ \A u \in 1..t : u \notin pageTabs.greyed
        \/ form.start <= t /\ form.start # 0
             /\ \A u \in form.start..t : u \notin pageTabs.greyed
    BY <1>2, <2>1 DEF NextTab, PageInv, InOrder
  <2>5. InOrder(s, form.job)
    <3> DEFINE g == s.greyed  a == form.start
               Reached(k) == \/ form.job # NoJob /\ \A u \in 1..k : u \notin g
                             \/ a <= k /\ a # 0 /\ \A u \in a..k : u \notin g
    <3>1. a \in 0..4 /\ g = pageTabs.greyed \ {t + 1} /\ 0 \notin g
          /\ s.selected \notin g
      BY <2>1, <2>2 DEF PageInv, InOrder, FormInv
    <3>2. ASSUME NEW k \in 1..4, k \notin g PROVE Reached(k)
      <4>1. CASE k = t + 1
        BY <2>1, <2>4, <3>1, <4>1
      <4>2. CASE k # t + 1
        <5>1. k \notin pageTabs.greyed
          BY <3>1, <3>2, <4>2
        <5> QED
          BY <3>1, <5>1 DEF PageInv, InOrder
      <4> QED
        BY <4>1, <4>2
    <3> QED
      BY <3>1, <3>2 DEF InOrder
  <2> QED
    BY <2>1, <2>2, <2>3, <2>5, SelectKeeps
<1>3. CASE BackTab(t)
  <2>1. t - 1 \in 0..4 /\ pageTabs.selected = t /\ form.posted = NoEntry
    BY <1>3 DEF BackTab, SeesTab, Sees, PageInv, Settled
  <2>2. selectTab(pageTabs, t - 1)
    BY <1>3, <2>1 DEF BackTab
  <2> QED
    BY <2>1, <2>2, SelectKeeps DEF PageInv
<1> QED
  BY <1>1, <1>2, <1>3

(* The dialog and its requests.                                            *)
LEMMA DetailsGuard ==
  ASSUME NEW i,
         doDetails(i) \/ DetailsArrive(i) \/ DetailsFail(i) \/ CloseDetails
  PROVE  form' = form /\ pageTabs' = pageTabs /\ pageAccordion' = pageAccordion
<1>1. CASE doDetails(i)
  BY <1>1, Zenon DEF doDetails
<1>2. CASE DetailsArrive(i) \/ DetailsFail(i)
  BY <1>2, Zenon DEF DetailsArrive, DetailsFail
<1>3. CASE CloseDetails
  BY <1>3 DEF CloseDetails
<1> QED
  BY <1>1, <1>2, <1>3

LEMMA DialogOnly ==
  ASSUME \/ \E j \in Job : doDetails(j)
         \/ \E i \in DOMAIN info.requests : DetailsArrive(i) \/ DetailsFail(i)
         \/ CloseDetails
  PROVE  form' = form /\ pageTabs' = pageTabs /\ pageAccordion' = pageAccordion
BY DetailsGuard, Zenon

(* The accordion touches the help only, the dialog nothing of the form.    *)
LEMMA OthersKeep ==
  ASSUME PageInv,
         \/ \E h \in 0..2 : ClickSection(h)
         \/ SectionChanged
         \/ \E j \in Job : doDetails(j)
         \/ \E i \in DOMAIN info.requests : DetailsArrive(i) \/ DetailsFail(i)
         \/ CloseDetails
         \/ UNCHANGED pageVars
  PROVE  PageInv'
<1>1. pageTabs' = pageTabs
      /\ \/ form' = form
         \/ \E x : form' = [form EXCEPT !.ignored = x]
         \/ \E x : form' = [form EXCEPT !.help = x]
  <2>1. CASE \E h \in 0..2 : ClickSection(h)
    BY <2>1, Zenon DEF ClickSection
  <2>2. CASE SectionChanged \/ UNCHANGED pageVars
    BY <2>2 DEF SectionChanged, pageVars
  <2> QED
    BY <2>1, <2>2, DialogOnly
<1>2. IsForm /\ form.requests \in Seq(Job) /\ form.posted \in {NoEntry, Current}
  BY DEF PageInv, FormInv
<1>3. IsForm' /\ form'.requests = form.requests /\ form'.start = form.start
      /\ form'.job = form.job /\ form'.posted = form.posted
      /\ form'.option = form.option /\ form'.summary = form.summary
      /\ form'.factors = form.factors
  BY <1>1, <1>2 DEF IsForm, HasFields
<1> QED
  BY <1>1, <1>2, <1>3, Undisturbed DEF Current

(* What the first two theorems rest on.                                     *)
LEMMA PageInvHolds == PageSpec => []PageInv
<1>1. PageInv /\ [PageNext]_pageVars => PageInv'
  BY FormKeeps, TabsKeep, OthersKeep DEF PageNext
<1> QED
  BY <1>1, AtFirst, PTL DEF PageSpec

(* Whatever the order of buttons, clicks, answers and failures, and with   *)
(* whatever tab the page starts, an open tab of the form has been reached  *)
(* step by step: from the first one, with a job selected, or from the tab  *)
(* of the start (Index.aspx 283-299).                                      *)
THEOREM TabsOpenInOrder == PageSpec => []StepsInOrder
<1>1. PageInv => StepsInOrder
  BY DEF PageInv, InOrder, StepsInOrder
<1> QED
  BY <1>1, PageInvHolds, PTL

(* While the last tab shows a summary it is that of the form and of what   *)
(* has been posted, but for factors that a late answer has unchecked; with *)
(* answers in any order, and from wherever the form is submitted.          *)
THEOREM SummaryIsCurrent == PageSpec => []ConfirmCurrent
<1>1. PageInv => ConfirmCurrent
  BY DEF PageInv, FormInv, Fits, Current, Settled, ConfirmCurrent, Listed
<1> QED
  BY <1>1, PageInvHolds, PTL
----------------------------------------------------------------------------
HasInfo(f) ==
  f = [x \in {"open", "requests", "details", "asked", "newest", "spoilt"} |-> f[x]]

\* The request for j is the last of those under way, and no other is for j.
LastAsked(q, j) ==
  /\ q # <<>> /\ q[Len(q)] = j
  /\ \A k \in 1..(Len(q) - 1) : q[k] # j

(* Until the newest request is answered it is the last of those under way; *)
(* unless it repeats another the category seen last is not its own.        *)
AnswersInv ==
  /\ form.newest /\ ~form.spoilt =>
       LastAsked(form.requests, form.job) /\ form.category # form.job
  /\ HasInfo(info) /\ info.requests \in Seq(Job)
  /\ info.newest /\ ~info.spoilt =>
       info.requests # <<>> /\ info.requests[Len(info.requests)] = info.asked
  /\ AnswersInStep

(* The requests that stay when one of them is answered.                    *)
LEMMA Remaining ==
  ASSUME NEW q \in Seq(Job), NEW i \in DOMAIN q
  PROVE  /\ RemoveAt(q, i) \in Seq(Job) /\ Len(RemoveAt(q, i)) = Len(q) - 1
         /\ \A k \in 1..(Len(q) - 1) :
              RemoveAt(q, i)[k] = IF k < i THEN q[k] ELSE q[k + 1]
<1> DEFINE a == SubSeq(q, 1, i - 1)  b == SubSeq(q, i + 1, Len(q))
<1>1. i \in 1..Len(q) /\ Len(q) \in Nat
  OBVIOUS
<1>2. a \in Seq(Job) /\ Len(a) = i - 1 /\ \A k \in 1..(i - 1) : a[k] = q[k]
  BY <1>1, SubSeqProperties
<1>3. b \in Seq(Job) /\ Len(b) = Len(q) - i
      /\ \A k \in 1..(Len(q) - i) : b[k] = q[i + k]
  BY <1>1, SubSeqProperties
<1> HIDE DEF a, b
<1>4. /\ a \o b \in Seq(Job) /\ Len(a \o b) = Len(q) - 1
      /\ \A k \in 1..(Len(q) - 1) :
           (a \o b)[k] = IF k < i THEN q[k] ELSE q[k + 1]
  <2>1. /\ a \o b \in Seq(Job) /\ Len(a \o b) = Len(a) + Len(b)
        /\ \A k \in 1..(Len(a) + Len(b)) :
             (a \o b)[k] = IF k <= Len(a) THEN a[k] ELSE b[k - Len(a)]
    BY <1>2, <1>3, ConcatProperties
  <2>2. Len(a) + Len(b) = Len(q) - 1
    BY <1>1, <1>2, <1>3
  <2>3. ASSUME NEW k \in 1..(Len(q) - 1)
        PROVE  (a \o b)[k] = IF k < i THEN q[k] ELSE q[k + 1]
    <3>1. CASE k < i
      BY <1>1, <1>2, <2>1, <2>2, <3>1
    <3>2. CASE ~(k < i)
      <4> DEFINE n == k - (i - 1)
      <4>1. n \in 1..(Len(q) - i) /\ i + n = k + 1 /\ n = k - Len(a)
            /\ ~(k <= Len(a)) /\ k \in 1..(Len(a) + Len(b))
        <5> DEFINE x == Len(q)  y == Len(a)  z == Len(b)
        <5>1. x \in Nat /\ i \in 1..x /\ k \in 1..(x - 1) /\ y = i - 1
              /\ y + z = x - 1 /\ ~(k < i)
          BY <1>1, <1>2, <2>2, <3>2
        <5> HIDE DEF x, y, z
        <5>2. n \in 1..(x - i) /\ i + n = k + 1 /\ n = k - y
              /\ ~(k <= y) /\ k \in 1..(y + z)
          BY <5>1, SMTT(30)
        <5> QED
          BY <5>2 DEF x, y, z
      <4> HIDE DEF n
      <4>2. b[n] = q[k + 1]
        BY <1>3, <4>1
      <4>3. (a \o b)[k] = b[n]
        BY <2>1, <4>1
      <4> QED
        BY <3>2, <4>2, <4>3
    <3> QED
      BY <3>1, <3>2
  <2> QED
    BY <2>1, <2>2, <2>3
<1> QED
  BY <1>4 DEF RemoveAt, a, b

(* Asking for the data of a job forgets what was asked before.             *)
LEMMA SelectingAsks ==
  ASSUME PageInv, AnswersInv, NEW js \in Lassos, SelectJobs(js)
  PROVE  AnswersInv'
<1> DEFINE q == form.requests  r == q \o js  j == Last(js)
<1>1. /\ form'.requests = r /\ form'.job = j /\ form'.category = NoJob
      /\ form'.newest /\ (form'.spoilt <=> Repeats(js))
  BY LassoForm DEF PageInv, FormInv
<1>2. q \in Seq(Job) /\ js \in Seq(Job) /\ Len(js) \in {1, 2} /\ j \in Job
  BY LassoLast DEF PageInv, FormInv
<1>3. /\ r \in Seq(Job) /\ Len(r) = Len(q) + Len(js)
      /\ \A k \in 1..Len(r) : r[k] = IF k <= Len(q) THEN q[k] ELSE js[k - Len(q)]
  BY <1>2, ConcatProperties
<1>4. j = js[Len(js)]
  BY DEF Last
<1> HIDE DEF q, r, j
<1>5. r # <<>> /\ r[Len(r)] = j
  <2>1. Len(q) \in Nat /\ Len(r) \in 1..Len(r) /\ Len(r) > Len(q)
        /\ Len(r) - Len(q) = Len(js)
    <3>1. Len(q) \in Nat
      BY <1>2, LenProperties
    <3> DEFINE a == Len(q)  b == Len(r)  c == Len(js)
    <3>2. a \in Nat /\ c \in {1, 2} /\ b = a + c
      BY <1>2, <1>3, <3>1
    <3> HIDE DEF a, b, c
    <3>3. a \in Nat /\ b \in 1..b /\ b > a /\ b - a = c
      BY <3>2
    <3> QED
      BY <3>3 DEF a, b, c
  <2>2. r[Len(r)] = js[Len(js)]
    BY <1>3, <2>1
  <2> QED
    BY <1>3, <1>4, <2>1, <2>2, EmptySeq
<1>6. ASSUME ~Repeats(js), NEW k \in 1..(Len(r) - 1) PROVE r[k] # j
  <2>1. (\A n \in 1..Len(q) : q[n] # j)
        /\ (\A n \in 1..Len(js) : n < Len(js) => js[n] # j)
    BY <1>2, <1>6 DEF Repeats, q, j
  <2> QED
    BY <1>2, <1>3, <2>1
<1>7. ~form'.spoilt => LastAsked(r, j)
  BY <1>1, <1>5, <1>6 DEF LastAsked
<1>8. form'.category # form'.job
  BY <1>1, <1>2, JobAssumption
<1>9. info' = info
  BY LassoGuard
<1> QED
  BY <1>1, <1>7, <1>8, <1>9 DEF AnswersInv, AnswersInStep

(* The answer to the newest request is written, unless it repeats one, and *)
(* that to an older one leaves the newest where it is.                     *)
LEMMA AnswerWritten ==
  ASSUME PageInv, AnswersInv, NEW i \in DOMAIN form.requests,
         DataArrives(i) \/ DataFails(i)
  PROVE  AnswersInv'
<1> DEFINE q == form.requests  r == RemoveAt(q, i)
<1>1. info' = info
  BY AnswerGuard
<1>2. IsForm /\ q \in Seq(Job) /\ i \in 1..Len(q)
  BY DEF PageInv, FormInv
<1>3. /\ r \in Seq(Job) /\ Len(r) = Len(q) - 1
      /\ \A k \in 1..(Len(q) - 1) : r[k] = IF k < i THEN q[k] ELSE q[k + 1]
  BY <1>2, Remaining
<1>4. ASSUME LastAsked(q, form.job), i < Len(q)
      PROVE  LastAsked(r, form.job) /\ q[i] # form.job
  <2>1. r # <<>> /\ r[Len(r)] = form.job
    BY <1>2, <1>3, <1>4 DEF LastAsked
  <2>2. \A k \in 1..(Len(r) - 1) : r[k] # form.job
    BY <1>2, <1>3, <1>4 DEF LastAsked
  <2>3. q[i] # form.job
    BY <1>2, <1>4 DEF LastAsked
  <2> QED
    BY <2>1, <2>2, <2>3 DEF LastAsked
<1>5. form'.requests = r /\ form'.job = form.job
      /\ (form'.newest <=> form.newest /\ i < Len(q))
  BY <1>2, AnswerForm, FailureForm
<1>6. CASE DataFails(i)
  <2>1. /\ form'.category = form.category /\ form'.data = form.data
        /\ (form'.spoilt <=> form.spoilt \/ (form.newest /\ i = Len(q)))
    BY <1>2, <1>6, FailureForm
  <2> QED
    BY <1>1, <1>2, <1>4, <1>5, <2>1 DEF AnswersInv, AnswersInStep
<1>7. CASE DataArrives(i)
  <2> DEFINE j == q[i]
  <2>1. /\ form'.category = IF j \in Ungrouped THEN form.category ELSE j
        /\ form'.data = IF j \notin Ungrouped /\ form.category # j
                        THEN j ELSE NoJob
        /\ (form'.spoilt <=> form.spoilt \/ ~form.newest)
    BY <1>2, <1>7, AnswerForm
  <2>2. CASE form'.spoilt
    BY <1>1, <2>2 DEF AnswersInv, AnswersInStep
  <2>3. CASE ~form'.spoilt
    <3>1. /\ form.newest /\ ~form.spoilt /\ LastAsked(q, form.job)
          /\ form.category # form.job
      BY <2>1, <2>3 DEF AnswersInv
    <3>2. CASE i < Len(q)
      BY <1>1, <1>4, <1>5, <2>1, <3>1, <3>2 DEF AnswersInv, AnswersInStep
    <3>3. CASE i = Len(q)
      <4>1. j = form.job
        BY <3>1, <3>3 DEF LastAsked
      <4> QED
        BY <1>1, <1>5, <2>1, <3>1, <3>3, <4>1 DEF AnswersInv, AnswersInStep
    <3> QED
      BY <1>2, <3>2, <3>3
  <2> QED
    BY <2>2, <2>3
<1> QED
  BY <1>6, <1>7

(* What the requests of the details dialog do to it.                       *)
LEMMA AskStep ==
  ASSUME NEW j, doDetails(j)
  PROVE  info' = [info EXCEPT !.open = TRUE, !.asked = j, !.newest = TRUE,
                              !.spoilt = FALSE, !.requests = Append(@, j)]
BY DEF doDetails

LEMMA AskedInfo ==
  ASSUME HasInfo(info), NEW j, doDetails(j)
  PROVE  /\ HasInfo(info)' /\ info'.requests = Append(info.requests, j)
         /\ info'.asked = j /\ info'.newest
<1> DEFINE q == Append(info.requests, j)
<1>1. info' = [info EXCEPT !.open = TRUE, !.asked = j, !.newest = TRUE,
                           !.spoilt = FALSE, !.requests = q]
  BY DEF doDetails
<1> HIDE DEF q
<1>2. HasInfo(info)' /\ info'.requests = q /\ info'.asked = j /\ info'.newest
  BY <1>1 DEF HasInfo
<1> QED
  BY <1>2 DEF q

LEMMA AnsweredInfo ==
  ASSUME HasInfo(info), NEW i \in DOMAIN info.requests,
         DetailsArrive(i) \/ DetailsFail(i)
  PROVE  /\ HasInfo(info)' /\ info'.requests = RemoveAt(info.requests, i)
         /\ info'.asked = info.asked
         /\ (info'.newest <=> info.newest /\ i < Len(info.requests))
         /\ \/ /\ info'.details = info.requests[i]
               /\ (info'.spoilt <=> info.spoilt \/ ~info.newest)
            \/ /\ info'.details = info.details
               /\ (info'.spoilt <=> info.spoilt
                                     \/ (info.newest /\ i = Len(info.requests)))
<1> DEFINE q == RemoveAt(info.requests, i)
           j == info.requests[i]
           n == info.newest /\ i < Len(info.requests)
           a == info.spoilt \/ ~info.newest
           b == info.spoilt \/ (info.newest /\ i = Len(info.requests))
<1>1. \/ info' = [info EXCEPT !.requests = q, !.details = j, !.newest = n,
                              !.spoilt = a]
      \/ info' = [info EXCEPT !.requests = q, !.newest = n, !.spoilt = b]
  BY Zenon DEF DetailsArrive, DetailsFail
<1> HIDE DEF q, j, n, a, b
<1>2. /\ HasInfo(info)' /\ info'.requests = q /\ info'.asked = info.asked
      /\ info'.newest = n
      /\ \/ info'.details = j /\ info'.spoilt = a
         \/ info'.details = info.details /\ info'.spoilt = b
  BY <1>1 DEF HasInfo
<1> QED
  BY <1>2 DEF q, j, n, a, b

(* The requests of the details dialog.                                     *)
LEMMA DetailsAnswered ==
  ASSUME AnswersInv,
         \/ \E j \in Job : doDetails(j)
         \/ \E i \in DOMAIN info.requests : DetailsArrive(i) \/ DetailsFail(i)
         \/ CloseDetails
  PROVE  AnswersInv'
<1>1. form' = form
  BY DialogOnly
<1>2. HasInfo(info) /\ info.requests \in Seq(Job)
  BY DEF AnswersInv
<1>3. ASSUME NEW j \in Job, doDetails(j) PROVE AnswersInv'
  <2> DEFINE q == Append(info.requests, j)
  <2>1. q \in Seq(Job) /\ Len(q) = Len(info.requests) + 1 /\ q[Len(q)] = j
        /\ q # <<>>
    BY <1>2, AppendProperties
  <2>2. HasInfo(info)' /\ info'.requests = q /\ info'.asked = j /\ info'.newest
    BY <1>2, <1>3, AskedInfo
  <2> HIDE DEF q
  <2> QED
    BY <1>1, <2>1, <2>2 DEF AnswersInv, AnswersInStep
<1>4. ASSUME NEW i \in DOMAIN info.requests, DetailsArrive(i) \/ DetailsFail(i)
      PROVE  AnswersInv'
  <2> DEFINE q == info.requests  r == RemoveAt(q, i)
  <2>0. q \in Seq(Job) /\ i \in DOMAIN q
    BY <1>2
  <2> HIDE DEF q
  <2>1. /\ r \in Seq(Job) /\ Len(r) = Len(q) - 1 /\ i \in 1..Len(q)
        /\ \A k \in 1..(Len(q) - 1) : r[k] = IF k < i THEN q[k] ELSE q[k + 1]
    <3>1. i \in 1..Len(q)
      BY <2>0, LenProperties
    <3> QED
      BY <2>0, <3>1, Remaining, ZenonT(30)
  <2>2. /\ HasInfo(info)' /\ info'.requests = r /\ info'.asked = info.asked
        /\ (info'.newest <=> info.newest /\ i < Len(q))
        /\ \/ /\ info'.details = q[i]
              /\ (info'.spoilt <=> info.spoilt \/ ~info.newest)
           \/ /\ info'.details = info.details
              /\ (info'.spoilt <=> info.spoilt \/ (info.newest /\ i = Len(q)))
    BY <1>2, <1>4, AnsweredInfo DEF q
  <2>3. i < Len(q) => r # <<>> /\ r[Len(r)] = q[Len(q)]
    BY <2>1
  <2> HIDE DEF r
  <2>4. info'.newest /\ ~info'.spoilt =>
          info'.requests # <<>> /\ info'.requests[Len(info'.requests)] = info'.asked
    BY <2>2, <2>3 DEF AnswersInv, q
  <2>5. ~info'.newest /\ ~info'.spoilt => info'.details = info'.asked
    BY <2>1, <2>2 DEF AnswersInv, AnswersInStep, q
  <2> QED
    BY <1>1, <2>1, <2>2, <2>4, <2>5 DEF AnswersInv, AnswersInStep
<1>5. CASE CloseDetails
  <2>1. info' = [info EXCEPT !.open = FALSE]
    BY <1>5 DEF CloseDetails
  <2>2. HasInfo(info)' /\ info'.requests = info.requests
        /\ info'.asked = info.asked /\ info'.newest = info.newest
        /\ info'.spoilt = info.spoilt /\ info'.details = info.details
    BY <1>2, <2>1 DEF HasInfo
  <2> QED
    BY <1>1, <2>2 DEF AnswersInv, AnswersInStep
<1> QED
  BY <1>3, <1>4, <1>5

(* Everything else leaves the requests and their answers as they are.      *)
LEMMA NothingAsked ==
  ASSUME PageInv, AnswersInv,
         \/ ItemsArrive \/ CheckFactors \/ SetTheOption \/ Finish
         \/ \E t \in 0..4 : ClickTab(t) \/ NextTab(t) \/ BackTab(t)
         \/ \E h \in 0..2 : ClickSection(h)
         \/ SectionChanged
         \/ UNCHANGED pageVars
  PROVE  AnswersInv'
<1>1. IsForm
  BY DEF PageInv, FormInv
<1>2. info' = info
      /\ \/ form' = form
         \/ \E x : \/ form' = [form EXCEPT !.items = x]
                   \/ form' = [form EXCEPT !.factors = x]
                   \/ form' = [form EXCEPT !.option = x]
                   \/ form' = [form EXCEPT !.posted = x]
                   \/ form' = [form EXCEPT !.help = x]
                   \/ form' = [form EXCEPT !.ignored = x]
         \/ \E t : form' = tabsselect(t)
  <2>1. CASE ItemsArrive \/ CheckFactors \/ SetTheOption \/ Finish
    BY <2>1, Zenon DEF ItemsArrive, CheckFactors, SetTheOption, Finish
  <2>2. CASE \E t \in 0..4 : ClickTab(t) \/ NextTab(t) \/ BackTab(t)
    BY <2>2 DEF ClickTab, NextTab, BackTab, selectTab
  <2>3. CASE \/ \E h \in 0..2 : ClickSection(h)
             \/ SectionChanged \/ UNCHANGED pageVars
    BY <2>3, Zenon DEF ClickSection, SectionChanged, pageVars
  <2> QED
    BY <2>1, <2>2, <2>3
<1>3. /\ form'.requests = form.requests /\ form'.job = form.job
      /\ form'.category = form.category /\ form'.data = form.data
      /\ form'.newest = form.newest /\ form'.spoilt = form.spoilt
  <2>1. CASE \E t : form' = tabsselect(t)
    <3>1. \E x : form' = [form EXCEPT !.help = 3, !.summary = x]
      BY <2>1, Zenon DEF tabsselect
    <3> QED
      BY <1>1, <3>1 DEF IsForm, HasFields
  <2>2. CASE form' = form
    BY <2>2
  <2>3. CASE ~(form' = form \/ \E t : form' = tabsselect(t))
    BY <1>1, <1>2, <2>3 DEF IsForm, HasFields
  <2> QED
    BY <2>1, <2>2, <2>3
<1>4. info' = info
  BY <1>2
<1> QED
  BY <1>3, <1>4 DEF AnswersInv, AnswersInStep

(* However many requests are under way, once the newest has been answered  *)
(* the data tab offers all the elements of the job selected last, unless   *)
(* it repeats a request, fails, or is overtaken by an answer to an older   *)
(* one; and details are those of the link clicked last (Index.aspx 298-319,*)
(* 348-360).                                                               *)
THEOREM AnswersMatch == PageSpec => []AnswersInStep
<1>1. PageInit => AnswersInv
  <2>1. SUFFICES ASSUME PageInit PROVE AnswersInv
    OBVIOUS
  <2>2. HasInfo(info) /\ info.requests \in Seq(Job) /\ ~info.newest
        /\ info.details = info.asked
    BY <2>1 DEF PageInit, DetailsStart, HasInfo
  <2> QED
    BY <2>1, <2>2, FirstForm DEF AnswersInv, AnswersInStep
<1>2. PageInv /\ AnswersInv /\ [PageNext]_pageVars => AnswersInv'
  BY SelectingAsks, AnswerWritten, DetailsAnswered, NothingAsked DEF PageNext
<1>3. AnswersInv => AnswersInStep
  BY DEF AnswersInv
<1> QED
  BY <1>1, <1>2, <1>3, PageInvHolds, PTL DEF PageSpec
----------------------------------------------------------------------------
IsAccordion ==
  pageAccordion = [x \in {"active", "option", "running", "animations", "shown",
                          "tabbable", "closed", "crossed"} |-> pageAccordion[x]]

(* One animation runs at a time, and unless a click came meanwhile it ends *)
(* with the option naming the header that has become the active one.       *)
HelpInv ==
  /\ IsAccordion /\ pageAccordion.active \in 0..2
  /\ \/ pageAccordion.running = 0 /\ pageAccordion.animations = <<>>
     \/ /\ pageAccordion.running = 1
        /\ \E h : pageAccordion.animations = <<h>>
  /\ ~form.ignored => IF pageAccordion.running = 0
                      THEN form.help \in {pageAccordion.active, 3}
                      ELSE pageAccordion.option = pageAccordion.active

(* A click on a header is taken between animations, and it starts one      *)
(* unless the section is open already.                                     *)
LEMMA HeaderClicked ==
  ASSUME PageInv, HelpInv, NEW h \in 0..2, ClickSection(h)
  PROVE  HelpInv'
<1> DEFINE a == pageAccordion
<1>1. /\ IsForm /\ IsAccordion /\ a.active \in 0..2
      /\ pageAccordion' = Sections!clickHandler(a, h)
      /\ form' = [form EXCEPT !.ignored =
                    a.running # 0 \/ (form.ignored /\ h = a.active)]
  BY DEF PageInv, FormInv, HelpInv, ClickSection
<1>2. CASE a.running # 0 \/ h = a.active
  <2>1. pageAccordion' = [a EXCEPT !.option = h]
    BY <1>1, <1>2 DEF Sections!clickHandler
  <2>2. /\ IsAccordion' /\ pageAccordion'.active = a.active
        /\ pageAccordion'.running = a.running
        /\ pageAccordion'.animations = a.animations
    BY <1>1, <2>1 DEF IsAccordion
  <2>3. form'.help = form.help
        /\ form'.ignored = (a.running # 0 \/ (form.ignored /\ h = a.active))
    BY <1>1 DEF IsForm, HasFields
  <2>4. ~form'.ignored => a.running = 0 /\ ~form.ignored
    BY <1>2, <2>3
  <2> QED
    BY <1>1, <2>2, <2>3, <2>4 DEF HelpInv
<1>3. CASE a.running = 0 /\ h # a.active
  <2>1. a.animations = <<>>
    BY <1>3 DEF HelpInv
  <2> DEFINE s == Sections!tabOrder([a EXCEPT !.option = h], h, a.active)
             r == [s EXCEPT !.active = h]
  <2>2. pageAccordion' = Sections!toggle(r, h, a.active)
    BY <1>1, <1>3 DEF Sections!clickHandler
  <2>3. r = [a EXCEPT !.option = h, !.active = h, !.tabbable =
               (a.tabbable \ Sections!Some(a.active)) \cup Sections!Some(h)]
    BY <1>1 DEF IsAccordion, Sections!tabOrder
  <2> HIDE DEF s, r
  <2>4. Sections!Some(a.active) \cup Sections!Some(h) # {}
    BY DEF Sections!Some, None
  <2> DEFINE v == [r EXCEPT !.shown = r.shown \cup Sections!Some(h)]
  <2>5. pageAccordion' = [v EXCEPT !.running = 1,
                                   !.animations = Append(v.animations, a.active)]
    <3> DEFINE n == IF Sections!Some(a.active) \cup Sections!Some(h) = {}
                    THEN 0 ELSE 1
    <3>1. [collapsible |-> FALSE, animated |-> TRUE].animated
      OBVIOUS
    <3>2. Sections!toggle(r, h, a.active) =
            [v EXCEPT !.running = n,
                      !.animations = IF n = 0 THEN v.animations
                                     ELSE Append(v.animations, a.active)]
      BY <3>1, Zenon DEF Sections!toggle
    <3>3. n = 1
      BY <2>4
    <3> HIDE DEF n, v
    <3> QED
      BY <2>2, <3>2, <3>3
  <2>8. /\ v.animations = a.animations
        /\ v = [a EXCEPT !.option = h, !.active = h, !.tabbable = r.tabbable,
                         !.shown = v.shown]
    BY <1>1, <2>3 DEF IsAccordion
  <2> HIDE DEF v
  <2>6. /\ IsAccordion' /\ pageAccordion'.active = h
        /\ pageAccordion'.option = h /\ pageAccordion'.running = 1
        /\ pageAccordion'.animations = Append(a.animations, a.active)
    BY <1>1, <2>5, <2>8, ZenonT(30) DEF IsAccordion
  <2>7. Append(a.animations, a.active) = <<a.active>>
    BY <2>1
  <2> QED
    BY <2>6, <2>7 DEF HelpInv
<1> QED
  BY <1>2, <1>3

(* The end of the animation shows the help for the header the option names.*)
LEMMA AnimationEnded ==
  ASSUME PageInv, HelpInv, SectionChanged
  PROVE  HelpInv'
<1> DEFINE a == pageAccordion
<1>1. /\ IsForm /\ IsAccordion /\ a.active \in 0..2
      /\ a.animations # <<>>
      /\ pageAccordion' =
           Sections!completed([a EXCEPT !.animations = Tail(a.animations)],
                              Head(a.animations))
      /\ form' = [form EXCEPT !.help = a.option]
  BY DEF PageInv, FormInv, HelpInv, SectionChanged, Sections!AnimationEnds
<1>2. a.running = 1 /\ \E h : a.animations = <<h>>
  BY <1>1 DEF HelpInv
<1>3. Tail(a.animations) = <<>>
  BY <1>2
<1>4. /\ IsAccordion' /\ pageAccordion'.active = a.active
      /\ pageAccordion'.running = a.running - 1
      /\ pageAccordion'.animations = Tail(a.animations)
  BY <1>1 DEF IsAccordion, Sections!completed
<1>5. form'.help = a.option /\ form'.ignored = form.ignored
  BY <1>1 DEF IsForm, HasFields
<1>6. ~form'.ignored => form'.help = pageAccordion'.active
  BY <1>2, <1>4, <1>5 DEF HelpInv
<1> QED
  BY <1>1, <1>2, <1>3, <1>4, <1>6 DEF HelpInv

(* Nothing else touches the accordion; a tab that is selected shows its own*)
(* help.                                                                   *)
LEMMA HelpKept ==
  ASSUME PageInv, HelpInv, PageNext \/ UNCHANGED pageVars,
         ~\E h \in 0..2 : ClickSection(h), ~SectionChanged
  PROVE  HelpInv'
<1>1. IsForm
  BY DEF PageInv, FormInv
<1>2. CASE UNCHANGED pageVars
  BY <1>2 DEF pageVars, HelpInv, IsAccordion
<1>3. CASE ItemsArrive \/ CheckFactors \/ SetTheOption \/ Finish
           \/ CloseDetails
  <2>1. /\ pageAccordion' = pageAccordion
        /\ form'.help = form.help /\ form'.ignored = form.ignored
    <3>1. \/ form' = form
          \/ \E x : \/ form' = [form EXCEPT !.items = x]
                    \/ form' = [form EXCEPT !.factors = x]
                    \/ form' = [form EXCEPT !.option = x]
                    \/ form' = [form EXCEPT !.posted = x]
      BY <1>3, Zenon DEF ItemsArrive, CheckFactors, SetTheOption, Finish,
                         CloseDetails
    <3>2. pageAccordion' = pageAccordion
      BY <1>3, Zenon DEF ItemsArrive, CheckFactors, SetTheOption, Finish,
                         CloseDetails
    <3> QED
      BY <1>1, <3>1, <3>2 DEF IsForm, HasFields
  <2> QED
    BY <2>1 DEF HelpInv, IsAccordion
<1>4. ASSUME NEW js \in Lassos, SelectJobs(js) PROVE HelpInv'
  <2>1. /\ pageAccordion' = pageAccordion
        /\ form'.help = form.help /\ form'.ignored = form.ignored
    BY <1>1, <1>4, LassoForm, LassoGuard
  <2> QED
    BY <2>1 DEF HelpInv, IsAccordion
<1>5. ASSUME NEW i \in DOMAIN form.requests, DataArrives(i) \/ DataFails(i)
      PROVE  HelpInv'
  <2>1. /\ pageAccordion' = pageAccordion
        /\ form'.help = form.help /\ form'.ignored = form.ignored
    BY <1>1, <1>5, AnswerForm, FailureForm, AnswerGuard
  <2> QED
    BY <2>1 DEF HelpInv, IsAccordion
<1>6. ASSUME NEW t \in 0..4, ClickTab(t) \/ NextTab(t) \/ BackTab(t)
      PROVE  HelpInv'
  <2>1. /\ pageAccordion' = pageAccordion
        /\ form' = form \/ \E u : form' = tabsselect(u)
    BY <1>6 DEF ClickTab, NextTab, BackTab, selectTab
  <2>2. /\ form'.help \in {form.help, 3} /\ form'.ignored = form.ignored
    <3>1. form' = form
            \/ \E x : form' = [form EXCEPT !.help = 3, !.summary = x]
      BY <2>1, Zenon DEF tabsselect
    <3>2. ASSUME NEW x, form' = [form EXCEPT !.help = 3, !.summary = x]
          PROVE  form'.help = 3 /\ form'.ignored = form.ignored
      BY <1>1, <3>2 DEF IsForm, HasFields
    <3> QED
      BY <3>1, <3>2, Zenon
  <2> QED
    BY <2>1, <2>2 DEF HelpInv, IsAccordion
<1>7. ASSUME \/ \E j \in Job : doDetails(j)
             \/ \E i \in DOMAIN info.requests : DetailsArrive(i) \/ DetailsFail(i)
      PROVE  HelpInv'
  <2>1. pageAccordion' = pageAccordion /\ form' = form
    BY <1>7, DialogOnly
  <2> QED
    BY <2>1 DEF HelpInv, IsAccordion
<1> QED
  BY <1>2, <1>3, <1>4, <1>5, <1>6, <1>7 DEF PageNext

(* Whatever is clicked in whatever order, between animations the help is   *)
(* about the section that is open or about a tab, unless a click on a      *)
(* header came during an animation: Index.aspx sets it from the option     *)
(* "active" when the animation ends, and the accordion writes that option  *)
(* even for a click it ignores.                                            *)
THEOREM HelpFollows == PageSpec => []HelpMatches
<1>1. PageInit => HelpInv
  <2>1. SUFFICES ASSUME PageInit PROVE HelpInv
    OBVIOUS
  <2> DEFINE e == <<>>
  <2>2. pageAccordion =
          [active |-> 0, option |-> None, running |-> 0, animations |-> e,
           shown |-> {0}, tabbable |-> {0}, closed |-> FALSE,
           crossed |-> FALSE]
        /\ form.help = 0
    BY <2>1, FirstForm DEF PageInit, Sections!AccordionStart
  <2> HIDE DEF e
  <2>3. IsAccordion /\ pageAccordion.active = 0 /\ pageAccordion.running = 0
        /\ pageAccordion.animations = e
    BY <2>2 DEF IsAccordion
  <2> QED
    BY <2>2, <2>3 DEF HelpInv, e
<1>2. PageInv /\ HelpInv /\ [PageNext]_pageVars => HelpInv'
  BY HeaderClicked, AnimationEnded, HelpKept
<1>3. HelpInv => HelpMatches
  BY DEF HelpInv, HelpMatches
<1> QED
  BY <1>1, <1>2, <1>3, PageInvHolds, PTL DEF PageSpec
----------------------------------------------------------------------------
(* Types.                                                                  *)

FormState ==
  [items : SUBSET Job, job : Job \cup {NoJob}, requests : Seq(Job),
   category : Job \cup {NoJob}, data : Job \cup {NoJob}, loading : BOOLEAN,
   factors : Job \cup {NoJob}, option : {1, 2}, help : 0..2 \cup {3},
   summary : Summary \cup {NoSummary}, posted : Entry \cup {NoEntry},
   start : 0..4, newest : BOOLEAN, spoilt : BOOLEAN, ignored : BOOLEAN]

InfoState ==
  [open : BOOLEAN, requests : Seq(Job), details : Job \cup {NoJob},
   asked : Job \cup {NoJob}, newest : BOOLEAN, spoilt : BOOLEAN]

HelpState ==
  [active : (0..2) \cup {None}, option : (0..2) \cup {None}, running : Int,
   animations : Seq((0..2) \cup {None}), shown : SUBSET (0..2),
   tabbable : SUBSET (0..2), closed : BOOLEAN, crossed : BOOLEAN]

(* The help is that of a section because an animation starts with a click, *)
(* which names its header in the option.                                   *)
PageTypeInv ==
  /\ form \in FormState /\ info \in InfoState /\ pageAccordion \in HelpState
  /\ pageAccordion.animations # <<>> => pageAccordion.option \in 0..2

(* The answers of data requests and their failures.                        *)
LEMMA DataTypes ==
  ASSUME PageTypeInv, NEW i \in DOMAIN form.requests,
         DataArrives(i) \/ DataFails(i)
  PROVE  form' \in FormState
<1>1. /\ form \in FormState /\ form.requests \in Seq(Job)
      /\ form.category \in Job \cup {NoJob}
      /\ form.newest \in BOOLEAN /\ form.spoilt \in BOOLEAN
  BY DEF PageTypeInv, FormState
<1>2. form.requests[i] \in Job /\ RemoveAt(form.requests, i) \in Seq(Job)
  BY <1>1, Answered
<1> DEFINE j == form.requests[i]
           q == RemoveAt(form.requests, i)
           c == IF j \in Ungrouped THEN form.category ELSE j
           d == IF j \notin Ungrouped /\ form.category # j THEN j ELSE NoJob
           n == form.newest /\ i < Len(form.requests)
           a == form.spoilt \/ ~form.newest
           b == form.spoilt \/ (form.newest /\ i = Len(form.requests))
<1>3. /\ q \in Seq(Job) /\ c \in Job \cup {NoJob} /\ d \in Job \cup {NoJob}
      /\ n \in BOOLEAN /\ a \in BOOLEAN /\ b \in BOOLEAN
  BY <1>1, <1>2
<1>4. \/ form' = [form EXCEPT !.requests = q, !.newest = n, !.spoilt = b]
      \/ form' = [form EXCEPT !.requests = q, !.loading = FALSE,
                    !.category = c, !.data = d, !.factors = NoJob,
                    !.newest = n, !.spoilt = a]
  BY Zenon DEF DataArrives, DataFails
<1> HIDE DEF q, c, d, n, a, b
<1> DEFINE f == [form EXCEPT !.requests = q, !.newest = n]
<1>5. CASE form' = [form EXCEPT !.requests = q, !.newest = n, !.spoilt = b]
  <2>1. form' = [f EXCEPT !.spoilt = b]
    BY <1>5
  <2>2. f \in FormState
    BY <1>1, <1>3 DEF FormState
  <2> HIDE DEF f
  <2> QED
    BY <1>3, <2>1, <2>2 DEF FormState
<1>6. CASE form' = [form EXCEPT !.requests = q, !.loading = FALSE,
                      !.category = c, !.data = d, !.factors = NoJob,
                      !.newest = n, !.spoilt = a]
  <2> DEFINE g == [f EXCEPT !.loading = FALSE, !.category = c]
             h == [g EXCEPT !.data = d, !.factors = NoJob]
  <2>1. form' = [h EXCEPT !.spoilt = a]
    BY <1>6
  <2>2. f \in FormState
    BY <1>1, <1>3 DEF FormState
  <2> HIDE DEF f
  <2>3. g \in FormState
    BY <1>3, <2>2 DEF FormState
  <2> HIDE DEF g
  <2>4. h \in FormState
    BY <1>3, <2>3 DEF FormState
  <2> HIDE DEF h
  <2> QED
    BY <1>3, <2>1, <2>4 DEF FormState
<1> QED
  BY <1>4, <1>5, <1>6

(* The lassos, and what is done in the tabs.                               *)
LEMMA FormTypes ==
  ASSUME PageTypeInv,
         \/ ItemsArrive \/ CheckFactors \/ SetTheOption \/ Finish
         \/ \E js \in Lassos : SelectJobs(js)
  PROVE  form' \in FormState
<1>1. form \in FormState
  BY DEF PageTypeInv
<1>2. CASE ItemsArrive
  BY <1>1, <1>2 DEF ItemsArrive, FormState
<1>3. CASE CheckFactors
  <2> DEFINE f == IF form.factors = NoJob THEN form.data ELSE NoJob
  <2>1. f \in Job \cup {NoJob}
    BY <1>1 DEF FormState
  <2>2. form' = [form EXCEPT !.factors = f]
    BY <1>3 DEF CheckFactors
  <2> HIDE DEF f
  <2> QED
    BY <1>1, <2>1, <2>2 DEF FormState
<1>4. CASE SetTheOption
  <2> DEFINE o == 3 - form.option
  <2>1. o \in {1, 2}
    BY <1>1 DEF FormState
  <2>2. form' = [form EXCEPT !.option = o]
    BY <1>4 DEF SetTheOption
  <2> HIDE DEF o
  <2> QED
    BY <1>1, <2>1, <2>2 DEF FormState
<1>5. CASE Finish
  <2> DEFINE p == [factors |-> form.factors, option |-> form.option]
  <2>1. p \in Entry \cup {NoEntry}
    BY <1>1 DEF FormState, Entry
  <2>2. form' = [form EXCEPT !.posted = p]
    BY <1>5 DEF Finish
  <2> HIDE DEF p
  <2> QED
    BY <1>1, <2>1, <2>2 DEF FormState
<1>6. ASSUME NEW js \in Lassos, SelectJobs(js) PROVE form' \in FormState
  <2> DEFINE q == form.requests \o js
             o == Repeats(js)
             f == [form EXCEPT !.job = Last(js), !.requests = q,
                     !.category = NoJob, !.data = NoJob]
  <2>1. js \in Seq(Job) /\ Last(js) \in Job
    BY <1>6, LassoLast
  <2>2. q \in Seq(Job) /\ o \in BOOLEAN
    <3>1. form.requests \in Seq(Job)
      BY <1>1 DEF FormState
    <3>2. o \in BOOLEAN
      BY DEF Repeats
    <3> QED
      BY <2>1, <3>1, <3>2, ConcatProperties
  <2>3. form' = [f EXCEPT !.loading = TRUE, !.factors = NoJob,
                          !.newest = TRUE, !.spoilt = o]
    BY <1>6, LassoStep, Zenon
  <2> HIDE DEF q, o
  <2>4. f \in FormState
    BY <1>1, <2>1, <2>2 DEF FormState
  <2> HIDE DEF f
  <2> QED
    BY <2>2, <2>3, <2>4 DEF FormState
<1> QED
  BY <1>2, <1>3, <1>4, <1>5, <1>6

(* A click on a tab or a button, refused or not.                           *)
LEMMA TabTypes ==
  ASSUME PageTypeInv, NEW t \in 0..4, ClickTab(t) \/ NextTab(t) \/ BackTab(t)
  PROVE  form' \in FormState
<1>1. form \in FormState
  BY DEF PageTypeInv
<1>2. PICK u : form' = form \/ form' = tabsselect(u)
  BY DEF ClickTab, NextTab, BackTab, selectTab
<1> DEFINE s == IF u = 4 THEN Listed ELSE form.summary
<1>3. s \in Summary \cup {NoSummary}
  BY <1>1 DEF FormState, Summary, Listed
<1>4. tabsselect(u) = [form EXCEPT !.help = 3, !.summary = s]
  BY DEF tabsselect
<1> HIDE DEF s
<1>5. tabsselect(u) \in FormState
  BY <1>1, <1>3, <1>4 DEF FormState
<1> QED
  BY <1>1, <1>2, <1>5

(* The fields set when an animation starts.                                *)
LEMMA Animating ==
  ASSUME NEW w \in HelpState, NEW q \in Seq((0..2) \cup {None}), NEW c,
         c = [w EXCEPT !.running = 1, !.animations = q]
  PROVE  c \in HelpState /\ c.option = w.option
<1> DEFINE H == (0..2) \cup {None}
           S == SUBSET (0..2)
<1>1. HelpState =
        [active : H, option : H, running : Int, animations : Seq(H),
         shown : S, tabbable : S, closed : BOOLEAN, crossed : BOOLEAN]
  BY DEF HelpState
<1>2. q \in Seq(H) /\ 1 \in Int
  OBVIOUS
<1> HIDE DEF H, S
<1> QED
  BY <1>1, <1>2

(* A click on a header.                                                    *)
LEMMA SectionTypes ==
  ASSUME PageTypeInv, NEW h \in 0..2, ClickSection(h)
  PROVE  PageTypeInv'
<1> DEFINE a == pageAccordion
           b == pageAccordion'
           i == a.running # 0 \/ (form.ignored /\ h = a.active)
           T == Append(a.animations, a.active)
<1>1. /\ form \in FormState /\ info' = info /\ info \in InfoState
      /\ a \in HelpState /\ form.ignored \in BOOLEAN
      /\ form' = [form EXCEPT !.ignored = i]
  BY DEF PageTypeInv, ClickSection, FormState
<1>2. i \in BOOLEAN
  BY <1>1
<1> HIDE DEF i
<1>3. form' \in FormState
  BY <1>1, <1>2 DEF FormState
<1>4. b = Sections!clickHandler(a, h) /\ h # None /\ h \in 0..2
  BY DEF ClickSection, None
<1>5. CASE a.running # 0 \/ h = a.active
  <2>1. b = [a EXCEPT !.option = h]
    BY <1>4, <1>5 DEF Sections!clickHandler
  <2> QED
    BY <1>1, <1>3, <1>4, <2>1 DEF PageTypeInv, HelpState
<1>6. CASE ~(a.running # 0 \/ h = a.active)
  <2> DEFINE o == (a.tabbable \ Sections!Some(a.active)) \cup Sections!Some(h)
             v == a.shown \cup Sections!Some(h)
  <2>1. /\ Sections!Some(h) = {h} /\ o \in SUBSET (0..2)
        /\ v \in SUBSET (0..2)
    BY <1>1, <1>4 DEF Sections!Some, HelpState
  <2>2. T \in Seq((0..2) \cup {None})
    BY <1>1, AppendProperties DEF HelpState
  <2>3. Sections!Some(h) \cup Sections!Some(a.active) # {}
    BY <2>1
  <2> DEFINE s == Sections!tabOrder([a EXCEPT !.option = h], h, a.active)
             r == [s EXCEPT !.active = h]
             n == IF Sections!Some(a.active) \cup Sections!Some(h) = {}
                  THEN 0 ELSE 1
             w == [r EXCEPT !.shown = r.shown \cup Sections!Some(h)]
  <2>4. b = Sections!toggle(r, h, a.active)
    BY <1>4, <1>6 DEF Sections!clickHandler
  <2>5. n = 1
    BY <2>3
  <2>6. r = [a EXCEPT !.option = h, !.active = h, !.tabbable = o]
    BY <1>1 DEF HelpState, Sections!tabOrder
  <2> HIDE DEF s, r, o
  <2>7. r \in HelpState /\ r.animations = a.animations /\ r.shown = a.shown
        /\ r.option = h
    BY <1>1, <1>4, <2>1, <2>6 DEF HelpState
  <2>8. w = [r EXCEPT !.shown = v]
    BY <2>7
  <2>9. [collapsible |-> FALSE, animated |-> TRUE].animated
    OBVIOUS
  <2>10. b = [w EXCEPT !.running = n,
                       !.animations = IF n = 0 THEN w.animations
                                      ELSE Append(w.animations, a.active)]
    BY <2>4, <2>9, Zenon DEF Sections!toggle
  <2> HIDE DEF n, w, v
  <2>11. /\ w \in HelpState /\ w.animations = a.animations /\ w.option = h
    BY <2>1, <2>7, <2>8 DEF HelpState
  <2>12. b = [w EXCEPT !.running = 1, !.animations = T]
    BY <2>5, <2>10, <2>11
  <2> HIDE DEF T
  <2>13. b \in HelpState /\ b.option = h
    BY <2>2, <2>11, <2>12, Animating, ZenonT(30)
  <2> QED
    BY <1>1, <1>3, <1>4, <2>13 DEF PageTypeInv
<1> QED
  BY <1>5, <1>6

(* The end of its animation.                                               *)
LEMMA ChangeTypes ==
  ASSUME PageTypeInv, SectionChanged
  PROVE  PageTypeInv'
<1> DEFINE a == pageAccordion
           x == Head(a.animations)
           T == Tail(a.animations)
           n == a.running - 1
           v == a.shown \ Sections!Some(x)
<1>1. /\ form \in FormState /\ info' = info /\ info \in InfoState
      /\ a \in HelpState /\ a.animations # <<>> /\ a.option \in 0..2
      /\ form' = [form EXCEPT !.help = a.option]
  BY DEF PageTypeInv, SectionChanged, Sections!AnimationEnds
<1>2. form' \in FormState
  BY <1>1 DEF FormState
<1>3. pageAccordion' = [a EXCEPT !.animations = T, !.running = n, !.shown = v]
  BY DEF SectionChanged, Sections!AnimationEnds, Sections!completed
<1>4. T \in Seq((0..2) \cup {None}) /\ n \in Int /\ v \in SUBSET (0..2)
  BY <1>1, HeadTailProperties DEF HelpState
<1> HIDE DEF T, n, v
<1>5. pageAccordion' \in HelpState /\ pageAccordion'.option = a.option
  BY <1>1, <1>3, <1>4 DEF HelpState
<1> QED
  BY <1>1, <1>2, <1>5 DEF PageTypeInv

(* The details dialog.                                                     *)
LEMMA InfoTypes ==
  ASSUME PageTypeInv,
         \/ \E j \in Job : doDetails(j)
         \/ \E i \in DOMAIN info.requests : DetailsArrive(i) \/ DetailsFail(i)
         \/ CloseDetails
  PROVE  info' \in InfoState
<1>1. info \in InfoState /\ info.requests \in Seq(Job)
  BY DEF PageTypeInv, InfoState
<1>2. ASSUME NEW j \in Job, doDetails(j) PROVE info' \in InfoState
  <2> DEFINE q == Append(info.requests, j)
  <2>1. q \in Seq(Job)
    BY <1>1, AppendProperties
  <2>2. info' = [info EXCEPT !.open = TRUE, !.asked = j, !.newest = TRUE,
                             !.spoilt = FALSE, !.requests = q]
    BY <1>2, AskStep, Zenon
  <2> HIDE DEF q
  <2> QED
    BY <1>1, <2>1, <2>2 DEF InfoState
<1>3. ASSUME NEW i \in DOMAIN info.requests, DetailsArrive(i) \/ DetailsFail(i)
      PROVE  info' \in InfoState
  <2> DEFINE j == info.requests[i]
             q == RemoveAt(info.requests, i)
             n == info.newest /\ i < Len(info.requests)
             a == info.spoilt \/ ~info.newest
             b == info.spoilt \/ (info.newest /\ i = Len(info.requests))
  <2>1. j \in Job /\ q \in Seq(Job)
    BY <1>1, Answered
  <2>2. n \in BOOLEAN /\ a \in BOOLEAN /\ b \in BOOLEAN
    BY <1>1 DEF InfoState
  <2>3. \/ info' = [info EXCEPT !.requests = q, !.details = j, !.newest = n,
                                !.spoilt = a]
        \/ info' = [info EXCEPT !.requests = q, !.newest = n, !.spoilt = b]
    BY <1>3, Zenon DEF DetailsArrive, DetailsFail
  <2> HIDE DEF j, q, n, a, b
  <2> QED
    BY <1>1, <2>1, <2>2, <2>3 DEF InfoState
<1>4. CASE CloseDetails
  BY <1>1, <1>4 DEF CloseDetails, InfoState
<1> QED
  BY <1>2, <1>3, <1>4

(* Every step keeps the types.                                             *)
LEMMA TypesKept ==
  ASSUME PageTypeInv, PageNext
  PROVE  PageTypeInv'
<1>1. CASE \/ ItemsArrive \/ CheckFactors \/ SetTheOption \/ Finish
           \/ \E js \in Lassos : SelectJobs(js)
  <2>1. info' = info /\ pageAccordion' = pageAccordion
    BY <1>1, LassoGuard, Zenon DEF ItemsArrive, CheckFactors, SetTheOption, Finish
  <2> QED
    BY <1>1, <2>1, FormTypes DEF PageTypeInv
<1>2. ASSUME NEW i \in DOMAIN form.requests, DataArrives(i) \/ DataFails(i)
      PROVE  PageTypeInv'
  <2>1. info' = info /\ pageAccordion' = pageAccordion
    BY <1>2, AnswerGuard
  <2> QED
    BY <1>2, <2>1, DataTypes DEF PageTypeInv
<1>3. ASSUME NEW t \in 0..4, ClickTab(t) \/ NextTab(t) \/ BackTab(t)
      PROVE  PageTypeInv'
  <2>1. info' = info /\ pageAccordion' = pageAccordion
    BY <1>3 DEF ClickTab, NextTab, BackTab, selectTab
  <2> QED
    BY <1>3, <2>1, TabTypes DEF PageTypeInv
<1>4. CASE \/ \E j \in Job : doDetails(j)
           \/ \E i \in DOMAIN info.requests : DetailsArrive(i) \/ DetailsFail(i)
           \/ CloseDetails
  <2>1. form' = form /\ pageAccordion' = pageAccordion
    BY <1>4, DialogOnly
  <2> QED
    BY <1>4, <2>1, InfoTypes DEF PageTypeInv
<1> QED
  BY <1>1, <1>2, <1>3, <1>4, SectionTypes, ChangeTypes DEF PageNext

(* Every variable of the page always has its type: among others, the help  *)
(* is always that of a section or of the tabs (Index.aspx 38-379).         *)
THEOREM PageTypeCorrect == PageSpec => []PageTypeOK
<1>1. PageInit => PageTypeInv
  <2>1. SUFFICES ASSUME PageInit PROVE PageTypeInv
    OBVIOUS
  <2>2. <<>> \in Seq(Job) /\ <<>> \in Seq((0..2) \cup {None})
    OBVIOUS
  <2>3. form \in FormState
    <3>1. /\ form.items \in SUBSET Job /\ form.job \in Job \cup {NoJob}
          /\ form.requests \in Seq(Job) /\ form.category \in Job \cup {NoJob}
          /\ form.data \in Job \cup {NoJob} /\ form.loading \in BOOLEAN
          /\ form.factors \in Job \cup {NoJob} /\ form.option \in {1, 2}
      BY <2>1, <2>2, FirstForm
    <3>2. /\ form.help \in 0..2 \cup {3}
          /\ form.summary \in Summary \cup {NoSummary}
          /\ form.posted \in Entry \cup {NoEntry} /\ form.start \in 0..4
      BY <2>1, FirstForm
    <3>4. /\ form.newest \in BOOLEAN /\ form.spoilt \in BOOLEAN
          /\ form.ignored \in BOOLEAN
      BY <2>1, FirstForm, Zenon
    <3>3. HasFields(form)
      BY <2>1, FirstForm DEF IsForm
    <3> QED
      BY <3>1, <3>2, <3>3, <3>4 DEF FormState, HasFields
  <2>4. info \in InfoState
    BY <2>1, <2>2 DEF PageInit, DetailsStart, InfoState
  <2>5. pageAccordion \in HelpState /\ pageAccordion.animations = <<>>
    BY <2>1, <2>2 DEF PageInit, Sections!AccordionStart, HelpState
  <2> QED
    BY <2>3, <2>4, <2>5 DEF PageTypeInv
<1>2. PageTypeInv /\ [PageNext]_pageVars => PageTypeInv'
  BY TypesKept DEF PageTypeInv, pageVars
<1>3. Settled(pageTabs) => Form!TabsTypeOK
  BY DEF Settled, Widget, Queued, Form!TabsTypeOK, Form!Queued, None
<1>4. PageTypeInv => Sections!AccordionTypeOK
  BY DEF PageTypeInv, HelpState, Sections!AccordionTypeOK
<1>5. PageTypeInv /\ PageInv => PageTypeOK
  BY <1>3, <1>4 DEF PageTypeInv, PageInv, PageTypeOK, FormState, InfoState
<1> QED
  BY <1>1, <1>2, <1>5, PageInvHolds, PTL DEF PageSpec
=============================================================================
