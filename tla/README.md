# Verification of dg-ea

dg-ea runs evolutionary optimisation jobs from a web page. A user fills in a
form; the web application (ASP.NET MVC, `src/EaGUI`) sends the job through a
message broker (ActiveMQ) to a Java server (`src/EAServer`), which runs CMA-ES
(`src/CMA`) in a thread per job. The web application keeps a table of jobs and
polls the server for their status and statistics whenever a page is shown. The
form itself is a script over jQuery and jQuery UI, of which the web project carries
its own copies.

This directory holds TLA+ modules of the parts of the system that have state and
an order of events worth arguing about, TLC configurations that check them on
small instances, and proofs, checked by TLAPS, of what holds for every instance.
`PROJECT.json` maps each definition to the lines it models.

## The system

| component | state | operations | interacts with |
|---|---|---|---|
| broker front end (`MessageServer`, `MessageProtocol`, `Main`) | the queue `FOO.BAR` | `onMessage`: `AddJob`, `GetStatus`, `GetStatistics` | consumes requests one at a time, replies to the temporary queue of the requester |
| job registry (`EaServer`) | `HashMap` from job name to `EaInstance` | `AddJob`, `GetStatus`, `GetStatistics` | called by the front end; holds the objects the play threads write to |
| play thread (`EaInstance`, `EvolutionState`) | status, statistics document, CMA-ES counters | `run()`: initialise, generations, final statistics | publishes to the registry's readers without synchronisation |
| job pages (`JobController`, `SqlJobRepository`, `GUI.designer.cs`) | table `dbo.Jobs`; per request a LINQ-to-SQL `DataContext` | `Create`, `Index`, `Details`, `Edit`, `Delete` | messaging client; concurrent requests meet in the table |
| messaging client (`Messaging.cs`) | a connection and a temporary queue per call | `RequestMap`, `RequestText` | broker; gives up after five seconds |
| CMA-ES parameters (`CMAParameters`) | strategy parameters, flags `supplemented` and `locked` | setters, `supplementRemainders`, `check` | owned by the caller and by the strategy |
| CMA-ES set-up (`CMAEvolutionStrategy` until `init()`) | dimension and its lock, arrays, `parameters` and its alias `sp` | setters, properties file, `init()` | parameters objects |
| CMA-ES iteration (`CMAEvolutionStrategy` after `init()`) | sample, ranking, best-ever solution, counters, `StopCondition` | `samplePopulation`, `resampleSingle`, `updateDistribution`, `setFitnessOfMeanX`, `test`, `clear` | the caller evaluates the sample |
| job page script (`Views/Job/Index.aspx`) | the selected job, previous category, contents of five tabs, dialog | list, data, summary, help, details, Finish | tabs, accordion, selectable, dialog and slider widgets; requests answered in any order |
| wizard script (`wizard.js`) | step number in a class, one content element | next, previous, other submits, `load_state` | effects queue |
| jQuery core | queues, `jQuery.timers` and their interval, `jQuery.active` | `animate`, `stop`, `dequeue`, `ajax`, `abort` | the browser's event loop |
| jQuery UI | per widget: options, classes, queues, overlay list | `ui.mouse`, selectable, slider, tabs, accordion, dialog | jQuery core; callbacks of the pages |

### What is hard here

* **Interleaving.** Page requests overlap. Each reads rows, asks the server several
  questions one after the other, and writes what it learned by then, guarded only
  by the update check of `SubmitChanges`. Meanwhile play threads move on.
* **Partial failure.** `Index` swallows every exception, leaving entities dirty for
  a later `SubmitChanges`; `init()` throws at a dozen places with half of its work
  done and may be called again; the play thread swallows every exception.
* **Lost and late messages, restarts.** A timeout deletes the reply queue but not
  the request; the server forgets everything when it stops.
* **Names.** The job name is the second of the current minute, so it repeats.
* **Order of calls.** The strategy object leaves the order of setters, samples,
  resamples, updates and mean evaluations to its caller.
* **Timers, answers and callbacks in a browser.** One handler runs at a time, but
  timers, polled answers, aborts and animations interleave between handlers; a
  callback may throw; a release of the mouse may never be seen; a queue moves only
  if somebody dequeues it.
* **Attribution.** Point, value and evaluation number of a solution are kept in
  different arrays in different orders.

`PROJECT.json` lists these hazards line by line, with the properties that cover
each, or the reason why none does.

## The modules

```
EaServer            the Java server: queue, registry, play threads, crash
  JobSystem         EXTENDS EaServer: job pages, messaging client, table
    JobHistory      EXTENDS JobSystem: what rows, copies and answers say of a
                    job's past, as an invariant
    JobSystem_proofs, JobMessages_proofs, JobBoard_proofs
JobBoard            abstract: what the job list promises its users
CMAParameters       parameters object: supplement, check
  CMASetup          EXTENDS CMAParameters: the strategy until init() succeeds
    CMASetup_proofs
CMAIteration        the strategy after init()
  EaInstance        EXTENDS CMAIteration, INSTANCEs EaServer: the play thread that
                    drives it, and the statistics document it writes
    CMAIteration_proofs   about both
Lists               removing elements of a list in a loop
Effects             EXTENDS Lists: jQuery's animation queue, timers and interval
  Wizard            EXTENDS Effects: the script wizard.js
Ajax                jQuery.ajax: polling, timeout, abort, script loading
    JQuery_proofs   about Lists, Ajax, Effects and Wizard
Mouse               ui.mouse
Selectable, Slider  widgets of jQuery UI
Dialogs             EXTENDS Lists: the dialogs of a page and their overlays
Tabs, Accordion     widgets of jQuery UI
    Widgets_proofs  EXTENDS JQuery_proofs: about Mouse and the five widgets
  JobPage           INSTANCEs Tabs and Accordion: the script of the job page
    JobPage_proofs
MCJobSystem, MCCMASetup, MCWidgets   parameter sets, symmetries, bounds for TLC
```

### EaServer and JobSystem

`Job` stands for `AddJob` calls, hence for the `EaInstance` each allocates;
`JobName` for the keys of the map; `Client` for the request threads of the web
application, each with at most one exchange and one temporary queue. `inst` holds
for each instance the phase of its thread, its status as others read it, the
number of `genStat` elements of its document and whether `finalStat` is there.
The server's actions are the three verbs of `onMessage` and the steps of `run()`
between two writes another thread can see. `Crash` loses queues, map and
threads, `Start` begins with nothing.

`web[c]` is the request a thread serves, with its `DataContext`: `orig`, the rows
as read, `mine`, the entities as modified, and `dirty`. `Submit` writes the dirty
entities if all of them are still as read (`UpdateCheck` of every column) and every
status fits its column of ten characters, else nothing, and they stay dirty. So
"Initializing", which has twelve, is never stored (`Truncates`), and one job in that
state makes every later `SubmitChanges` of the same `Index` request throw. Besides
the check of `init()`, the properties file, the text of a number and the class of the
objective function may end a play thread before its loop (`InitializeThrows`). `IndexAnswer` keeps the order of the code: the
setter runs, then `status.Trim()` throws on null, then the end time and
`SubmitChanges`. A timeout (`TimedOut`) may happen whenever there is no reply,
also just before one arrives; the request stays in the queue with nobody to reply
to. `disturbed` is history: the jobs whose name was taken by a second job or
edited, or which lost their instance in a restart.

A statistics document is counted, not written out; fitness values do not
matter to the protocol. Whether a generation meets a criterion other than the
budget is left open. Each read of a status or a document is one step; the code does
not synchronise them. While the play thread may be appending to a document, a
reader can get it, or a `Torn` text that is neither the old nor the new one
(`StatisticsRead`); a page that loads such a text throws.

### JobHistory

No state of its own: the invariant `HistoryInv`, which a run checks and a theorem
states, and which the proofs about the table rest on. `MessageInv` is about the
messages: each thread waits for one answer to one question, which is on the queue
or answered or neither; each `AddJob` call is on the queue at most once and before
its instance exists; the map files an instance under its own name. `JobOK` is about
each job that nothing has disturbed: its row, and every copy of the row that a
request holds, say what was once true of its instance (`PastRow`); a copy has moved
forward from the row it was read from (`CopyOK`); a question about the job stands
behind its `AddJob` call (`OrderOK`); and the answer to it is not older than the copy it
will be stored in (`AnswerOK`).

### JobBoard

The abstract specification of the list: an entry appears once as "Submitted", moves
only forward, stays "Complete" for good, or leaves. For a disturbed job only the
last two are promised. `JobSystem` implements it under the mapping `Board`
(property `BoardRefined`): what a user sees as a job's entry is its row's status,
"absent" before the row is inserted and "gone" after it was deleted.

### CMAParameters and CMASetup

An array is its length; of the deviations it also matters whether they are
positive. `heap` holds the parameters objects, `parameters` and `sp` refer to one
each. Setters that throw change nothing and are guards. An array without elements is
accepted as long as no dimension is set; it locks the dimension at 0, and `init()` cannot
succeed any more. `init()` is one atomic call
with its exits as actions: refused by the check, wrong boundaries, no deviations,
no usable point, success. Each exit keeps what the code has assigned by then:
`supplemented` and `locked`, `LBound`, `sigma`, `startsigma`, `typicalX`. The rates
cs and cc stand for the guarded and the unguarded setters.

### CMAIteration

A point is its identity: the number of its draw, 0 for the zeros of a fresh array,
and a negative number for a mean. `arx` is the strategy's copy of the sample,
`population` the caller's. `raw` is `fit.raw` after sorting: values with the index
they came from. `log`, a history variable, records each evaluation with the
point the caller evaluated; `since` the first evaluation the best-ever solution
stands for, which moves as long as `countiter` is 1, because there `updateBestEver`
replaces unconditionally. `messages` is the set of criteria the
`StopCondition` has found met; those of tolerance and numerical precision may be
met at any test. Values are integers; NaN appears only as the initial best value,
with the meaning Java gives it: it is smaller than nothing and nothing is smaller.
`updateDistribution(double[][], double[])` (marked as untested in the code) and
`setCountEval` are left out.

### EaInstance

`run()` from the end of `init()` on, with the actions of `CMAIteration` as the calls it
makes: `at` is where it stands, `genStat` and `finalStat` are the contents of the
document that `EaServer` counts. An element holds what
`postEvaluationStatistics` takes from the strategy at that moment: iteration,
evaluation count, least and largest of `fit.raw` (mean and deviation are left out). The
final element holds the best evaluation's number, its point, and the last message
(`Rank` is the order in which a test appends them). `GetMessages` tests again, as the
code does, unless the last verdict still counts. `eigendecomposition` may throw
wherever a sample is drawn after the first generation; `run()` swallows that and the
thread is dead with the status it had. `isFeasible` is always true, so nothing is
resampled. Any value may come back from an evaluation, 0 among them, which is what
`Rosenbrock` returns when its query fails.

`Thread` maps all this to the record `EaServer` keeps of an instance. In `EaServer` a
generation is one step and so is the evaluation of the mean with the end of the loop;
here the sample, the update and the statistics are steps of their own, and only the
ones another thread could notice are steps of `EaServer` (`ThreadRefined`). In
particular the loop never ends but for a reason `EaServer` allows, and its counters are
the strategy's.

### Effects and Wizard

`fxqueue` holds what each element still has to animate, the entry at the head being
the one that runs; `timers` is the global list, an entry per animated property.
Handlers do not interleave in a browser, so a call is one step, with two
exceptions that are steps of their own and keep every other handler out (`Quiet`):
starting the animation a dequeue has exposed (`due`), and each pass of the
interval's loop over the list (`at`), which is spliced while it is walked. Time is
a number of ticks. `Wizard` adds the step and its three kinds of click. The loop of
`stop`, which splices the timers of an element out, is `Without` of `Lists`, a
recursive function, since the provers know nothing of `SelectSeq`; `Dialogs` uses it
too, for the dialogs still open.

### Ajax

A request is created, sent, and settled by the interval that polls `readyState`, by
its timeout, by `abort`, or, when its script comes from another host, by the load
event. `active` is `jQuery.active`. `success`, `error`, `complete` and the handlers of
`ajaxStop` may throw; what the poll or the timeout had done by then stays
(`CompletedOnce` says that a request has counted down once, neither never nor
twice). A JSONP answer is a script: `globalEval` puts it into an element of its own,
so that an exception of the callbacks it runs ends that script alone, and the poll
goes on to complete the request, a second time if the script had done so. The
handlers of `ajaxStart`, `ajaxSend` and `beforeSend` are assumed not to throw.

### The widgets

Each module is the state machine of one widget, with the events of a user, of the
timers and of scripts as actions, and classes on elements as sets. `Tabs` keeps the
"tabs" queue with the functions that hide and show panels, and requests for remote
tabs; `Dialogs` the overlay list, document handlers and z-indices the dialogs of a
page share; `Accordion` the count `running` and the animations it stands for;
`Selectable` the classes and the flags copied from them; `Slider` the stored values,
as small integers, and a text that follows, unless the callback refuses the value
(`slides`). `Tabs` starts with any of its tabs, as an address, a cookie or a class may
select it, or with none. In `Mouse` the delegates a press binds and a later
press forgets are counted (`leaked`), as are delay timers (`timers`); other buttons end a
drag too (`OtherDown`, `OtherUp`), and Internet Explorer takes a move without a
button for the release it has not seen. `outside` is a drag whose release came outside
the window, `missed` the same of a press that had not started one.

Several properties hold only as long as nothing uncommon has happened. The
history fields (`disturbed`, `tidy`, `crossed`, `closed`, `stale`, `missed`,
`metas`, `scripted`) say what that is: exactly the events after which the library
really misbehaves, as the comment at each property describes.

### JobPage

`form` is what the script keeps in globals and in the contents of its tabs, with the
data requests under way; `info` the details dialog. `pageTabs` and `pageAccordion`
are the two widgets, by INSTANCE with the tabs 0 to 4 and the sections 0 to 2, so a
click goes through the widget's handler and not a simplification of it. The option
sliders are one option, the category boxes and factors of a job are identified with
the job: what matters is whether they are those of the job selected. `summary` is what
the last tab lists, or nothing before `tabsselect` has written it.

The page starts with the tab its address names (`PageInit`, `TabsStart`): `_tabify` takes
that tab off the disabled ones and does not run `tabsselect` for it. Finish is the only
submit button of the form, so Enter in any field posts the form as the button does
(`InField`, `Finish`). `StepsInOrder` and `ConfirmCurrent` are stated for all of this: a
tab that is open has been reached step by step from the first tab, with a job selected,
or from the tab the page started with; and a summary that is in view lists what the form
holds and posts. What Enter posts from another tab has no summary to agree with.
`AnswersInStep` is about the data request made last: whatever else is under way, its
answer brings the elements of the selected job, unless it asks again for a job already
asked for (the answer that comes second finds its category seen and writes no boxes), fails, or
is overtaken (`newest`, `spoilt`). That the browser may restore fields when a page is
reloaded is not modelled.

## The runs

| run | instance | shows |
|---|---|---|
| JobOne | one job, two threads, five pages, a crash, up to two generations | `CompleteMeansDone`, `StatsNeverRegress`, `DetailsStoresFinal`: rows never claim more than the server has done, whatever is lost, late or torn; `CompleteIsWhole` |
| JobTwo | two jobs, two names (so equal or different ones), two threads, four pages | `DataContextInv`, `CompleteStays`, `BoardRefined`: swallowed conflicts and dirty entities across jobs and renames; `HistoryInv`: what rows, copies and answers in flight say of a job is of the past of its instance, in the right order |
| JobLive | one job, two threads, three pages, a crash, every kind of form | `RequestsReturn`, `JobsEnd` under fairness |
| CMASetup | dimensions to three with one object, dimension one with two objects | `ReadyArrays`, `RefusesOnlyBadValues`, `SoundUnlessRefused` with reassigned objects |
| CMAIteration | population of two, two values, seven draws, six evaluations | `BestAttributed`, `BestIsFirst`, `RecentAttributed`, `GenerationsCounted`, `TargetReported` |
| RunOne | population of two, three values of which one is on target, a budget of three generations | `StatsFaithful`, `ReportTrue`: what the document says is true of the evaluations that were made; `TargetEnds`; `ThreadRefined` |
| Widgets | each part of the scripts by itself: two animated elements, two requests, two dialogs, three tabs, a page with three jobs | `NothingStranded` (Effects), `HiddenThenQueued`, `StepIsShown` (Wizard), `ActiveMatches`, `OneAnswer`, `Settles` (Ajax), `TabsInStep`, `ModalWhileTidy`, `OneSection`, `DragIsHeld`, `LassoDecides`, `SliderFollowed` (the widget each is about), `ConfirmCurrent`, `AnswersInStep`, `StepsInOrder`, `HelpMatches` (JobPage) |
| CMARetry, CMAFrozen, CMABest, CMARecentX, JobCharts | small instances (CMABest and CMARecentX with a population of three) | disagreements between comments and code, see below |

The parts in Widgets share no state, so a behaviour of `SuiteSpec` picks one at the
start (`part`) and the variables of the others rest, in one state each (`SuiteInit`).

**Bounds.** `MaxPages` bounds the pages requested, `MaxQueue` the waiting requests,
`MaxRestarts` the restarts, `MaxDraws` and `MaxEval` the samples and evaluations.
Two threads and five pages are enough for the races: one creates, two read, both
ask, both write, a third page reads the outcome. Two jobs are needed for a conflict
on one to spoil the write of the other and for two jobs of one name. The forms
reach an end without a generation, within one, within two, and a failed
initialisation. Seven draws and six evaluations make three iterations, or two with
a resample and two mean evaluations: the first iteration, which is special, one
that is compared with it, and one more. In RunOne the budget of five ends a run after
three generations of two and the evaluation of the mean, before `MaxDraws` and
`MaxEval` cut anything. The target and the open criteria end it sooner; the limit on
iterations is left to the theorems. In the set-up, dimensions 0 to 3
distinguish unset, late-bound single values, and two real lengths to confuse.
Several objects and several dimensions are hard for different reasons (which object
is refused, supplemented, replaced; which array was expanded when), so the
CONSTRAINT of CMASetup lets a behaviour have the one or the other.

In Widgets two elements, requests and dialogs are what it takes for one to disturb
another: the splice of the list moves the timers of the second, the counter is
shared, and the overlay taken out of the list can be the wrong one. The wizard's
queue holds up to three animations, one running and two waiting. Two tabs
and one that is added reach every case of `tabify`. Slider steps of 1, 2 and 3 over
a range of 4 include one that does not divide it. Three jobs, one without data
elements, and two requests make a late answer for each of the others.
`MCWidgets!Bound` cuts what no property is about: a tabs widget once disturbed,
mixtures of details dialog and form, and accordion clicks while the form is
half-way through; and of a page that starts with another tab than the first, two
data requests at a time and its last section. The two liveness properties are about
parts it does not cut. The dead end of a dimension locked at 0 is entered in CMASetup
and not followed (`MCCMASetup!Bound`).

Symmetry (over threads, and in JobTwo also jobs and names; over parameters
objects) is used only where all properties are invariants or action properties.

**Deadlock** is not checked in the job runs: when the pages are used up, the system
really stops; nor in RunOne, where the thread ends; nor in Widgets, whose parts wait for
a user when all is done. The other runs check it.

**Fairness** in JobLive. Weak fairness of `OnMessage`: the broker hands a
waiting message to the listener as long as the process is up. Of each play
thread: the Java scheduler runs it. Of each request thread: a reply or the
five-second timeout ends every wait and IIS goes on with the request. No fairness
is assumed of users, of the crash or of whoever restarts the server, so
`JobsEnd` allows a thread that died with its process.

In Widgets, weak fairness of the interval and of what it starts (`WizardFairness`): a
browser fires an interval as long as it is set. The same for the poll and the timeout
of each request (`AjaxFairness`). None is assumed of the server that answers, of
the user or of a tab's remote content. So `StepIsShown` says that a step appears
whatever else is queued, and `Settles` that a request with a timeout ends.

## What is proved

All theorems hold for every value of the constants under the named assumptions,
which TLC evaluates in the runs: identifiers differ from null (`ServerAssumption`,
`WebAssumption`, `JobAssumption`, `EffectsAssumption`, `NothingAssumption`,
`NoTabAssumption`), there is at least one parameters object (`ObjectAssumption`),
numbers are numbers, a population has more than one member and a step of a slider is
above zero (`ParametersAssumption`, `IterationAssumption`, `SliderAssumption`), 0 is a
value and on target, as with the default target, the budget is not negative and the
limit on iterations above zero (`RunAssumption`), an
animation has the form `animate` is called with (`EffectsAssumption`) and the wizard's
content is an element (`ContentAssumption`). The bounds (`MaxPages`, `MaxFxQueue`, ...)
only cut guards, so the theorems hold for all of them.

Every safety property that a passing run checks, invariant or action property, is
stated by a theorem. Both refinements are proved: of `JobBoard` by `JobSystem`, and
of the play thread of `EaServer` by `EaInstance`. Types are proved of every module and
checked by TLC of the job system and the set-up.

**JobSystem_proofs.** `TypeCorrect`, then `ContextCorrect`, `EndTimeCorrect`,
`CompleteForGood` (`CompleteStays`) and `CompleteWhole`. The inductive invariant is
`TypeOK /\ DataContextInv`. `EndedIffComplete` alone is not inductive: what a
request writes was read long before, so one must know of every thread's copies
that status and end time agree (`InStep`), that only entities read incomplete are
on its list or dirty (`Open`, `ContextOK`), and that nobody inserts a row a thread
is about to insert (`Adding`). `CompleteStays` follows: a write replaces a row only
if it is as read, and what is dirty was read incomplete. `CompleteIsWhole` is
about a single thread; its invariant `WholeInv` ties generations, evaluations and
document elements at each phase.

**JobMessages_proofs.** `MessagesCorrect`: `MessageInv` is an invariant. A step is a request
thread's, a message handled, a play thread's, a crash, or has nothing to do with
messages (`StepKinds`). To the queue, threads do only two things: send one message
and wait, or stop waiting (`Talk`, shown of `Create`, `Index` and `Details` by a lemma
each); everything else drops messages at the front or forgets senders (`Shift`). So the
uniqueness of questions and of `AddJob` calls is proved of these two kinds and not of
every action. `ProgressOrder` and `PlayThreadStep` say that a play thread moves its
instance forward.

**JobBoard_proofs.** `HistoryCorrect`, and from it `CompleteDone` (`CompleteMeansDone`),
`StatsForward` (`StatsNeverRegress`), `DetailsFinal` (`DetailsStoresFinal`) and
`BoardImplemented` (`BoardRefined`). The point of `HistoryInv` is that none of these
follows from rows alone. A poll's answer is stored long after it was given; it must
not be older than the status the row has by then, and that holds because the row
is still the copy's (`Submit`), and the answer newer than the copy (`AnswerOK`),
because questions are answered in the order of the queue and the first question about
a job stands behind its `AddJob` call (`OrderOK`). Each part has a lemma for every kind
of step that can disturb it (`RowStep`, `CopyStep`, `UniqueStep`, `PostedStep`,
`OrderStep`, `AnswerStep`); `OldJob` and `NewJob` put them together for a job that was
posted before the step or by it. For the refinement, `RowDisplay`, `AppearDisplay`,
`LeaveDisplay` and `AwayDisplay` show for one entry at a time that a step of `JobSystem`
is a step of `JobBoard` for it or leaves it as it was.

**CMASetup_proofs.** `TypeCorrect`, `ArraysReady`, `PopulationSound` from
`SetupInv == TypeOK /\ ArraysInv /\ ObjectsInv /\ ReadyArrays`. The argument:
success needs every array expanded to the dimension; an array of full length is
either set with the dimension, which it locks, or was expanded by a failed `init()`.
In the second case `LBound` has the dimension of that moment as well, and no
later `init()` with another dimension gets past the boundaries (`ArraysInv`). For
the population: what is supplemented is locked, and what is locked and was never
refused passed the check (`ObjectsInv`). `OnlyBadValuesRefused` (`RefusesOnlyBadValues`)
needs `WeightsInv`: before `supplementRemainders` an object has no weights, so that
those it gets have the length of the final mu; `AdmissiblePasses` computes what is
derived from admissible settings, and finds it within the check.

**CMAIteration_proofs.** `TypeCorrect`, `BestCorrect`, `BestMinimal`,
`RecentCorrect`, `ReportCorrect` from `IterationInv`, which adds to these properties
that the caller's copies equal the strategy's (`CopiesInv`) and that the last test
of the criteria lies in the past (`RecentInv`). `BestKept` is the central lemma: a batch
of new evaluations, offered to `updateBestEver` by its first smallest member, leaves
the best-ever solution attributed and first. A generation and an evaluation of the
mean are both such batches; `FirstIsSmallest` derives the premise from the sort.
`CountCorrect` (`GenerationsCounted`) has an invariant of its own, `CountInv`: the points
of the sample are drawn already, differ from each other, and, until their values are
told, from every point in the log (`DrawsInv`); so an update adds exactly `Lambda` points
to the set that is counted.

Of `EaInstance`, `StrategyDriven` first: what the thread does with its strategy is a behaviour
of `CMAIteration`, so all of the above holds in the thread and can be used about it. Then
`RunTypeCorrect`, `StatsCorrect` (`StatsFaithful`), `TargetStopsRun` (`TargetEnds`) and
`FinalElementCorrect` (`ReportTrue`, by `BestReportCorrect` and `ReasonCorrect`), from
`RunInv`. Its parts: where the thread is fixes the state of the strategy, how far the
document is behind it and whether the mean has been counted (`ControlInv`); the best-ever
solution stands for all evaluations but those of a first generation that the mean has
replaced (`SinceInv`); `fit.raw` holds the values of the last generation and no others
(`RawInv`); every evaluation of a generation belongs to an element of the document
(`StatsInv`); and once the loop has ended, a criterion counts as met only if it is true of the
generations (`ReasonInv`). The last part is where the rule about the verdict's evaluation
count matters: `NotTestedAgain` shows that the one evaluation of the mean does not let the
criteria be tested a second time. `RankedValues` ties
the sorted values to the log, `TargetMet` and `LoopTested` say what a test finds.
`ThreadImplemented` (`ThreadRefined`) has a lemma for each step another thread could notice
(`UpdateIterates`, `ThrowsThrows`, `PostPosts`, `EndLoopFinishes`, `FinalReports`,
`CompleteCompletes`) and one for those it could not (`InnerSteps`). It is what justifies that
`JobSystem` and its proofs, `CompleteIsWhole` among them, work with the simpler loop.

**JQuery_proofs.** Of `Ajax`, `ActiveCounts` (`ActiveMatches`) and `AnsweredOnce`
(`OneAnswer`). Every step changes one request; `Moves` says by how much it changes the
counter, as long as the request has not completed never or twice, and that it stays
within `RequestInv`: its interval and its loading script exclude each other and both end
with it, and before the end nobody was answered but for an exception of `send`. `ActiveMoves` turns that into the
cardinality of the set of requests that count. Of `Effects`, `EffectsTypeCorrect` and
`Stranded` (`NothingStranded`), from `EffectsInv`: outside the one start that is due, an
element has animations queued exactly when some timer is its own (`Linked`). Of
`Wizard`, `FadeBehindFade` (`HiddenThenQueued`): the content's timers, and what is queued
for it, all fade in (`OnlyFades`), and hidden content has one waiting behind the one that runs
(`Awaited`). The lemmas on lists (`WithoutKeeps`, `WithoutNone`, `WithoutLast`,
`RemovedAt`, `InsertedAt`) are proved about the loop by the least prefix on which it
would fail, because the library's induction cannot be cited.

**Widgets_proofs.** One theorem or two for each widget, with its type invariant.
`MouseTypeCorrect` and `DragHeld`: the invariant `Held` adds to `DragIsHeld` that with no
stale timer about, the delay counts as passed only once the last timer has fired.
While no release of an unstarted press is missed, whoever is bound has the button down
or its drag started, so the next press ends that drag before it binds again.
`SectionFollows` (`OneSection`): unless `activate(false)` crossed an animation, at most
one runs, and what it will hide is what is shown besides the active content
(`Settled`). `LassoOutcome` (`LassoDecides`): while a lasso is on, the items selected are
none without the meta key, and with it those selected before but for some that are
being selected again (`OnTheWay`). `HandlesFollowed` (`SliderFollowed`): stored values are
multiples of the step within the range (`OnStep`); `NormValueOnStep` shows that rounding a
position to a step, up or down, does not leave the range, which needs the range to be a
multiple of the step. `TabsFollow` (`TabsInStep`): while a remote tab loads, the queue holds
exactly what will hide the panel in view and show the new one (`InStep`); this is shown
for every list of tabs the page starts with, and `_tabify` with it.
`ModalCorrect` (`ModalWhileTidy`): dialogs and overlays interleave in z-order, each
dialog between its own overlay and the next one's (`Layered`), so that the last overlay
is the one `destroy` should take out; and there is a z-index above all of them
(`Bounded`), so that the largest `destroy` looks for exists whatever the number of dialogs.

**JobPage_proofs.** `TabsOpenInOrder` (`StepsInOrder`), `SummaryIsCurrent`
(`ConfirmCurrent`), `AnswersMatch` (`AnswersInStep`), `HelpFollows`, `PageTypeCorrect`. The
widget is not abstracted: `Clicked` shows of its handler that between two calls it is
`Settled`, its queue empty and the panel of the selected tab visible, because what a
click queues is run to the end by the same click (`Dequeued`). So the user sees the
buttons of the selected tab only, which is why "next" opens a tab whose predecessor
is open (`InOrder`), back to the first tab or to the one the page started with. For the
summary, `FormInv` says that while the last tab is selected its summary fits the form:
whatever changes job or option happens on another tab, and coming back writes it
again; only an answer changes the form meanwhile, and it unchecks the factors (`Fits`). For
the answers, `AnswersInv` says that the request made last is the last of those under way
until it is answered, and unless it repeats another it is the only one for its job,
whose category is not the one remembered (`LastAsked`); `Remaining` and `SelectingAsks` show
how the list of requests keeps that. `HelpFollows` (`HelpMatches`) is
about the accordion of the help: a click is taken only between animations, so one
runs at a time and ends with the option naming the active header, unless a click came
meanwhile (`HelpInv`). The type of the help needs a word too: the option is no header at
first, and the handler that reads it runs only after a click has named one
(`PageTypeInv`).

**Only model-checked**: liveness (`RequestsReturn`, `JobsEnd`, `StepIsShown`,
`Settles`), because fairness and ENABLED are outside what the provers handle; and the
runs that find a disagreement, which need a behaviour and not a proof.

**How definitions are shaped for it.** `finished` of `Ajax`, `stopped` of `Effects`
and `Without` are operators of their own, because a proof needs a name for what they
return. In a few record updates the proofs name a value before they use it
(`DEFINE`, `HIDE`), since the SMT solver does not see through nested `EXCEPT`s.

## Findings

* `CMABest`: in the first iteration `setFitnessOfMeanX` replaces the best-ever
  solution by a worse mean. The play thread calls it after its loop, so a job that
  ends after one generation reports the mean as its best individual.
* `CMARecentX`: `getBestRecentX` returns the first sampled point, not the best.
* `CMARetry`: parameters the check has refused are accepted by a second `init()`.
* `CMAFrozen`: `setCc` (and `setCcov`) change the parameters after `init()`.
* `JobCharts`: a job that `Index` is the first to see complete is stored without its
  statistics, and `Details` then throws for it, now and later.

Noted on the way and not checked by a run: `setWeights` asserts that the parameters are not
locked, but `supplementRemainders` locks them before it calls it, so that with assertions
enabled every `init()` fails; `finalStatistics` writes the evaluation
*number* of the best solution as attribute `bestFittness` and keeps only the last
stop message; the poll filter tests `"Orphan"` while the server answers `"orphan"`;
after `setFitnessOfMeanX` the evaluation number of `getBestRecentSolution` is one too
high. In the scripts: `loadnext` disables the tab it leaves, which the widget refuses
because it is still selected; a late answer unchecks factors that the summary lists
when requests overlap; `overlay.destroy` has the arguments of `$.inArray` exchanged;
`activate(false)` during an animation blocks an accordion for good.
Enter in a field of the form posts the job without the tab that says "Look over you
selection and click finish to submit the job" (`Index.aspx:36`), and loading
`/Job#tabs-5` shows that tab with no job and an empty summary. Selecting a job again
while its data request is under way leaves the data tab without elements, because the
second answer finds its category in `previousCategory`. The column of the status is too
short for "Initializing", so `SubmitChanges` throws for a job that is being initialised.

## Not modelled

* `Rosenbrock` calls a stored procedure over JDBC; neither the procedure nor the driver
  is in the repository. The models leave fitness values open.
* The fitness function collection and the arithmetic of the distribution
  (eigendecomposition, step size): real-valued functions without control.
* `PrintfFormat` (a formatter for console output), the unused server classes, the
  account pages (a project template).
* The option, data element and group pages: single-table editing that meets the jobs
  nowhere.
* Of jQuery: selectors, DOM manipulation, the event system, synchronous requests;
  they compute over a document within one call. Of jQuery UI: draggable, droppable,
  resizable and sortable (pixel positions), progressbar, datepicker and the effects the
  pages do not call.
* MicrosoftAjax, MicrosoftMvcAjax and the vsdoc files, which no page loads
  (`Site.Master` loads `jquery-1.3.2.js` and `jquery-ui-1.7.2.custom.js`); MochiKit,
  PlotKit and scriptaculous, which belong to the console and demo pages of the broker
  distribution; the broker itself, a binary, modelled from how its clients use it.
* Most lines of script in the repository are of these kinds: of 43 thousand, the two
  libraries a page loads make up fourteen, and most of theirs are about documents and
  pixels.
* `wizard.js` is modelled because the web project lists it, but no page loads it at
  this commit.

## Plan

Done: the inventory; the job system with its abstract specification, the refinement,
its safety proofs and its liveness runs; the set-up and the iteration of the strategy
with their proofs; the play thread with the strategy it drives, and the proof that it is the
one the job system assumes; the job page script, the wizard and the parts of the script
libraries they rest on, with the proofs of all their safety properties.

Next, in this order:

1. The update from a foreign population, which replaces `arx` before its check
   throws; the group editor (`DataGroup_ElementController`).
