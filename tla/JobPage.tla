------------------------------- MODULE JobPage -------------------------------
(***************************************************************************)
(* The script of the page Views/Job/Index.aspx: the job history with its   *)
(* details dialog, and the form that creates a job in five tabs.  The page *)
(* has an accordion and a tabs widget, which are those of Accordion, with  *)
(* the sections 0 to 2, and of Tabs, with the tabs 0 to 4.  Requests are   *)
(* answered in any order or, as no call has an error callback, fail        *)
(* without a trace.                                                        *)
(***************************************************************************)
EXTENDS Integers, FiniteSets, SequencesExt

CONSTANTS
  Job, NoJob,
  Ungrouped,    \* jobs without data elements; any other has one category
  MaxRequests   \* bound: requests for data, and for details, under way

\* No job is the null of the script.
ASSUME JobAssumption == NoJob \notin Job

VARIABLES
  form,           \* the tab contents, the globals and the requests behind them
  info,           \* the details dialog and its requests
  pageTabs,       \* the widgets
  pageAccordion

pageVars == <<form, info, pageTabs, pageAccordion>>

None == -1   \* the index of no tab and of no section

Form == INSTANCE Tabs WITH
  Tab <- 0..4, NoTab <- None, tabs <- pageTabs,
  tabOptions <- [collapsible |-> FALSE, cache |-> FALSE, remote |-> {}]

Sections == INSTANCE Accordion WITH
  Header <- 0..2, Nothing <- None, MaxAnimations <- 1,
  accordion <- pageAccordion,
  accOptions <- [collapsible |-> FALSE, animated |-> TRUE]

\* What Finish posts: the job whose factors are checked, or none, and the
\* value of an option.  The summary of tab 4 lists the problem as well.
Entry == [factors : Job \cup {NoJob}, option : {1, 2}]
NoEntry == [factors |-> NoJob, option |-> 0]
Summary == [job : Job \cup {NoJob}, factors : Job \cup {NoJob}, option : {1, 2}]
NoSummary == [job |-> NoJob, factors |-> NoJob, option |-> 0]

PageTypeOK ==
  /\ form \in
       [items : SUBSET Job,               \* the list #selectable
        job : Job \cup {NoJob},           \* _job_Id and _problemName
        requests : Seq(Job),              \* data requests under way
        category : Job \cup {NoJob},      \* previousCategory
        data : Job \cup {NoJob},          \* whose elements #tabs2Content holds
        loading : BOOLEAN,                \* or that it says "Loading"
        factors : Job \cup {NoJob},
        option : {1, 2},
        help : 0..2 \cup {3},             \* the section whose help is shown, or 3
        summary : Summary \cup {NoSummary},   \* #tabs5Content
        posted : Entry \cup {NoEntry},
        \* For the properties only: the tab the page started with, whether the
        \* data request made last is under way, whether its answer was lost or
        \* spoilt by another's, and whether a click on a header was ignored.
        start : 0..4, newest : BOOLEAN, spoilt : BOOLEAN, ignored : BOOLEAN]
  /\ Form!TabsTypeOK /\ Sections!AccordionTypeOK
  /\ info \in
       [open : BOOLEAN, requests : Seq(Job), details : Job \cup {NoJob},
        asked : Job \cup {NoJob},            \* the link clicked last
        newest : BOOLEAN, spoilt : BOOLEAN]  \* as above

DetailsStart ==
  [open |-> FALSE, requests |-> <<>>, details |-> NoJob, asked |-> NoJob,
   newest |-> FALSE, spoilt |-> FALSE]

\* The widget starts with tab t, which is never one of the disabled ones.
TabsStart(t) ==
  [order |-> <<0, 1, 2, 3, 4>>, fresh |-> {}, selected |-> t, marked |-> {t},
   visible |-> {t}, disabled |-> (1..4) \ {t}, greyed |-> (1..4) \ {t},
   processing |-> {}, cached |-> {}, loading |-> None, queue |-> <<>>,
   disturbed |-> FALSE]

\* Without a fragment in its address the page starts with tab 0, otherwise with
\* the tab the fragment names; tabsselect does not run for it.
PageInit ==
  /\ form \in [items : {{}}, job : {NoJob}, requests : {<<>>},
               category : {NoJob}, data : {NoJob}, loading : {FALSE},
               factors : {NoJob}, option : {1}, help : {0},
               summary : {NoSummary}, posted : {NoEntry}, start : 0..4,
               newest : {FALSE}, spoilt : {FALSE}, ignored : {FALSE}]
  /\ pageTabs = TabsStart(form.start)
  /\ pageAccordion = Sections!AccordionStart(0)
  /\ info = DetailsStart

\* The user sees section h of the accordion, and tab t in section 1.
Sees(h) ==
  ~info.open /\ h \in pageAccordion.shown /\ form.posted = NoEntry
SeesTab(t) == Sees(1) /\ t \in pageTabs.visible
----------------------------------------------------------------------------
\* The answer to the request for the list.
ItemsArrive ==
  /\ form.items = {}
  /\ form' = [form EXCEPT !.items = Job]
  /\ UNCHANGED <<info, pageTabs, pageAccordion>>

\* A request for the last job of js is under way when it is made.
Repeats(js) ==
  \/ \E k \in DOMAIN form.requests : form.requests[k] = Last(js)
  \/ \E k \in DOMAIN js : k < Len(js) /\ js[k] = Last(js)

\* Mutant: the category seen last is not forgotten.
SelectJobsAgain(js) ==
  /\ SeesTab(0) /\ ToSet(js) \subseteq form.items
  /\ Len(form.requests) + Len(js) <= MaxRequests
  /\ form' = [form EXCEPT !.job = Last(js), !.requests = @ \o js,
                !.data = NoJob, !.loading = TRUE, !.factors = NoJob,
                !.newest = TRUE, !.spoilt = Repeats(js)]
  /\ UNCHANGED <<info, pageTabs, pageAccordion>>

\* A lasso ends on js: the "selected" callback runs for each in turn, and
\* updateDataTab forgets the category when it asks, not when it is answered.
SelectJobs(js) ==
  /\ SeesTab(0) /\ ToSet(js) \subseteq form.items
  /\ Len(form.requests) + Len(js) <= MaxRequests
  /\ form' = [form EXCEPT !.job = Last(js), !.requests = @ \o js,
                !.category = NoJob, !.data = NoJob, !.loading = TRUE,
                !.factors = NoJob, !.newest = TRUE, !.spoilt = Repeats(js)]
  /\ UNCHANGED <<info, pageTabs, pageAccordion>>

\* The answer replaces the content; GetCategoryHeader writes the elements'
\* boxes only if the category is not the one it saw last, and without the
\* boxes the elements go nowhere.
DataArrives(i) ==
  LET j == form.requests[i]
      written == j \notin Ungrouped /\ form.category # j
  IN /\ form.posted = NoEntry
     /\ form' = [form EXCEPT !.requests = RemoveAt(@, i), !.loading = FALSE,
                   !.category = IF j \in Ungrouped THEN @ ELSE j,
                   !.data = IF written THEN j ELSE NoJob,
                   !.factors = NoJob,
                   !.newest = @ /\ i < Len(form.requests),
                   !.spoilt = @ \/ ~form.newest]
     /\ UNCHANGED <<info, pageTabs, pageAccordion>>

DataFails(i) ==
  /\ form.posted = NoEntry
  /\ form' = [form EXCEPT !.requests = RemoveAt(@, i),
                !.newest = @ /\ i < Len(form.requests),
                !.spoilt = @ \/ (form.newest /\ i = Len(form.requests))]
  /\ UNCHANGED <<info, pageTabs, pageAccordion>>

CheckFactors ==
  /\ SeesTab(1) /\ form.data # NoJob
  /\ form' = [form EXCEPT !.factors = IF @ = NoJob THEN form.data ELSE NoJob]
  /\ UNCHANGED <<info, pageTabs, pageAccordion>>

SetTheOption ==
  /\ SeesTab(2)
  /\ form' = [form EXCEPT !.option = 3 - @]
  /\ UNCHANGED <<info, pageTabs, pageAccordion>>

\* What the form holds.
Listed ==
  [job |-> form.job, factors |-> form.factors, option |-> form.option]

\* Mutant: the summary is written the first time only.
tabsselectOnce(t) ==
  [form EXCEPT !.help = 3,
     !.summary = IF t = 4 /\ @ = NoSummary THEN Listed ELSE @]

\* The tabsselect handler, which a click runs unless it is refused.
tabsselect(t) ==
  [form EXCEPT !.help = 3, !.summary = IF t = 4 THEN Listed ELSE @]

\* Select tab t from the state s of the widget.
selectTab(s, t) ==
  /\ pageTabs' = Form!clickTab(s, t)
  /\ form' = IF t \in s.marked \cup s.greyed THEN form ELSE tabsselect(t)
  /\ UNCHANGED <<info, pageAccordion>>

ClickTab(t) == Sees(1) /\ selectTab(pageTabs, t)

\* Mutant: the first tab's button is enabled from the start.
NextTabAlways(t) ==
  /\ SeesTab(t) /\ t < 4
  /\ selectTab([pageTabs EXCEPT !.disabled = @ \ {t + 1},
                                 !.greyed = @ \ {t + 1}], t + 1)

\* loadnext forwards enables the tab it goes to.
NextTab(t) ==
  /\ SeesTab(t) /\ t < 4 /\ (t = 0 => form.job # NoJob)
  /\ selectTab([pageTabs EXCEPT !.disabled = @ \ {t + 1},
                                 !.greyed = @ \ {t + 1}], t + 1)

\* loadnext backwards disables the tab it leaves, to no effect: a selected tab
\* cannot be disabled.
BackTab(t) ==
  /\ SeesTab(t) /\ t > 0
  /\ selectTab(IF t = pageTabs.selected THEN pageTabs
               ELSE [pageTabs EXCEPT !.disabled = @ \cup {t},
                                     !.greyed = @ \cup {t}], t - 1)

\* The user may be in a field of the form: a box of the data tab, a field of
\* the tabs behind it or of the last section.
InField ==
  \/ SeesTab(1) /\ form.data # NoJob
  \/ SeesTab(2) \/ SeesTab(3) \/ Sees(2)

\* Finish is the only submit button of the form: Enter in any of its fields
\* presses it as well.
Finish ==
  /\ SeesTab(4) \/ InField
  /\ form' = [form EXCEPT !.posted =
                [factors |-> form.factors, option |-> form.option]]
  /\ UNCHANGED <<info, pageTabs, pageAccordion>>
----------------------------------------------------------------------------
ClickSection(h) ==
  /\ ~info.open /\ form.posted = NoEntry
  /\ pageAccordion' = Sections!clickHandler(pageAccordion, h)
  /\ form' = [form EXCEPT !.ignored =
                pageAccordion.running # 0 \/ (@ /\ h = pageAccordion.active)]
  /\ UNCHANGED <<info, pageTabs>>

\* Mutant: the handler goes by the selected tab.
SectionChangedByTab ==
  /\ Sections!AnimationEnds
  /\ form' = [form EXCEPT !.help = pageTabs.selected]
  /\ UNCHANGED <<info, pageTabs>>

\* The animation ends; the accordionchange handler goes by the option.
SectionChanged ==
  /\ Sections!AnimationEnds
  /\ form' = [form EXCEPT !.help = pageAccordion.option]
  /\ UNCHANGED <<info, pageTabs>>

doDetails(j) ==
  /\ Sees(0) /\ Len(info.requests) < MaxRequests
  /\ info' = [info EXCEPT !.open = TRUE, !.asked = j, !.newest = TRUE,
                          !.spoilt = FALSE, !.requests = Append(@, j)]
  /\ UNCHANGED <<form, pageTabs, pageAccordion>>

DetailsArrive(i) ==
  /\ info' = [info EXCEPT !.requests = RemoveAt(@, i),
                          !.details = info.requests[i],
                          !.newest = @ /\ i < Len(info.requests),
                          !.spoilt = @ \/ ~info.newest]
  /\ UNCHANGED <<form, pageTabs, pageAccordion>>

DetailsFail(i) ==
  /\ info' = [info EXCEPT !.requests = RemoveAt(@, i),
                          !.newest = @ /\ i < Len(info.requests),
                          !.spoilt = @ \/ (info.newest /\ i = Len(info.requests))]
  /\ UNCHANGED <<form, pageTabs, pageAccordion>>

CloseDetails ==
  /\ info.open
  /\ info' = [info EXCEPT !.open = FALSE]
  /\ UNCHANGED <<form, pageTabs, pageAccordion>>

\* The lassos considered: one item, or two in either order of the list.
Lassos == {<<j>> : j \in Job} \cup {<<j, k>> : j, k \in Job}

PageNext ==
  \/ ItemsArrive \/ CheckFactors \/ SetTheOption \/ Finish
  \/ \E js \in Lassos : SelectJobs(js)
  \/ \E i \in DOMAIN form.requests : DataArrives(i) \/ DataFails(i)
  \/ \E t \in 0..4 : ClickTab(t) \/ NextTab(t) \/ BackTab(t)
  \/ \E h \in 0..2 : ClickSection(h)
  \/ SectionChanged
  \/ \E j \in Job : doDetails(j)
  \/ \E i \in DOMAIN info.requests : DetailsArrive(i) \/ DetailsFail(i)
  \/ CloseDetails

PageSpec == PageInit /\ [][PageNext]_pageVars
----------------------------------------------------------------------------
(***************************************************************************)
(* While the last tab shows a summary, the summary lists the job and the   *)
(* option of the form, and of what has been posted from there; the factors *)
(* too, except that the late answer to an older data request unchecks them *)
(* all.  A page that starts with the last tab shows no summary there, and  *)
(* Enter in a field elsewhere posts without any.                           *)
(***************************************************************************)
ConfirmCurrent ==
  4 \in pageTabs.visible /\ form.summary # NoSummary =>
    /\ form.summary.job = form.job
    /\ \A e \in {Listed, form.posted} \ {NoEntry} :
         /\ e.option = form.summary.option
         /\ e.factors \in {form.summary.factors, NoJob}

(***************************************************************************)
(* Once the data request made last has been answered the data tab offers   *)
(* the elements of the job that is selected, and all of them, however many *)
(* other requests were under way, unless it repeats one of those, it fails *)
(* or the answer to an older one comes after its own; the same for the     *)
(* details dialog and the link clicked last, where to repeat does no harm. *)
(***************************************************************************)
AnswersInStep ==
  /\ ~form.newest /\ ~form.spoilt /\ form.job \notin Ungrouped \cup {NoJob}
       => form.data = form.job
  /\ ~info.newest /\ ~info.spoilt => info.details = info.asked

(***************************************************************************)
(* An open tab has been reached step by step: from the first tab, with a   *)
(* job selected, or from the tab the page started with.                    *)
(***************************************************************************)
StepsInOrder ==
  \A t \in 1..4 : t \notin pageTabs.greyed =>
    \/ form.job # NoJob /\ \A u \in 1..t : u \notin pageTabs.greyed
    \/ form.start <= t /\ form.start # 0
         /\ \A u \in form.start..t : u \notin pageTabs.greyed

(***************************************************************************)
(* Between animations the help beside the accordion is about the section   *)
(* that is open or about a tab, unless a click came during the animation:  *)
(* the accordion ignores it and yet names its header as the active one.    *)
(***************************************************************************)
HelpMatches ==
  pageAccordion.running = 0 /\ ~form.ignored =>
    form.help \in {pageAccordion.active, 3}
=============================================================================
