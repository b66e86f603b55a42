-------------------------------- MODULE Tabs --------------------------------
(***************************************************************************)
(* The tabs widget of jQuery UI, without animations.  A click does not     *)
(* switch tabs: it queues functions that hide the old panel and show the   *)
(* new one under the name "tabs", and load, or the answer of the request   *)
(* that load makes for a remote tab, takes them out again.                 *)
(***************************************************************************)
EXTENDS Naturals, FiniteSets, SequencesExt

CONSTANTS
  Tab,     \* the tabs of the page and those it may add
  NoTab

ASSUME NoTabAssumption == NoTab \notin Tab

VARIABLES
  tabOptions,  \* collapsible, cache, and which tabs are remote
  tabs         \* the state of the widget

tabsVars == <<tabOptions, tabs>>

\* An entry of the "tabs" queue: a function that hides or shows panels.
Queued == [hide : BOOLEAN, panels : SUBSET Tab]

TabsTypeOK ==
  /\ tabOptions \in [collapsible : BOOLEAN, cache : BOOLEAN, remote : SUBSET Tab]
  /\ tabs \in [order : Seq(Tab),          \* this.lis, this.anchors
               fresh : SUBSET Tab,        \* tabs that may still be added
               selected : Tab \cup {NoTab},   \* the option "selected"
               marked : SUBSET Tab,       \* class ui-tabs-selected
               visible : SUBSET Tab,      \* panels without ui-tabs-hide
               disabled : SUBSET Tab,     \* the option "disabled"
               greyed : SUBSET Tab,       \* class ui-state-disabled
               processing : SUBSET Tab,   \* class ui-state-processing
               cached : SUBSET Tab,       \* data cache.tabs
               loading : Tab \cup {NoTab},    \* whose request is under way
               queue : Seq(Queued),
               disturbed : BOOLEAN]       \* for the properties only

hideFn(ps) == [hide |-> TRUE, panels |-> ps]
showFn(t) == [hide |-> FALSE, panels |-> {t}]
Present(s) == ToSet(s.order)
----------------------------------------------------------------------------
\* Mutant: hideTab does not dequeue.
dequeueTab(s) ==
  IF s.queue = <<>> THEN s
  ELSE LET f == Head(s.queue)
       IN [s EXCEPT !.queue = Tail(@),
                    !.visible = IF f.hide THEN @ \ f.panels ELSE @ \cup f.panels,
                    !.marked = IF f.hide THEN {} ELSE @ \cup f.panels]

\* dequeue("tabs"): hideTab dequeues in its turn and showTab does not, so the
\* queue runs up to the first function that shows.
dequeueTabs(s) ==
  LET shows == {i \in DOMAIN s.queue : ~s.queue[i].hide}
      last == IF shows = {} THEN Len(s.queue) ELSE Min(shows)
      ran == SubSeq(s.queue, 1, last)
      hidden == UNION {f.panels : f \in {g \in ToSet(ran) : g.hide}}
      shown == UNION {f.panels : f \in {g \in ToSet(ran) : ~g.hide}}
  IN [s EXCEPT !.queue = SubSeq(@, last + 1, Len(@)),
               !.visible = (@ \ hidden) \cup shown,
               !.marked = (IF \E f \in ToSet(ran) : f.hide THEN {} ELSE @)
                            \cup shown]

\* abort drops the request and not the "tabs" queue.
abortTabs(s) ==
  [s EXCEPT !.loading = NoTab, !.processing = {},
            !.disturbed = @ \/ s.loading # NoTab]

loadTab(s, t) ==
  LET a == abortTabs(s)
  IN IF t \notin tabOptions.remote \/ (s.queue # <<>> /\ t \in s.cached)
     THEN dequeueTabs(a)
     ELSE [a EXCEPT !.processing = {t}, !.loading = t]

\* The click handler of an anchor, which select triggers as well.
clickTab(s, t) ==
  LET hide == s.visible \cap Present(s)
      a == [abortTabs(s) EXCEPT !.selected = t]
  IN IF (t \in s.marked /\ ~tabOptions.collapsible)
          \/ t \in s.greyed \/ t \in s.processing
     THEN s
     ELSE IF t \in s.marked
     THEN dequeueTabs([a EXCEPT !.selected = NoTab,
                                !.queue = Append(@, hideFn(hide))])
     ELSE loadTab([a EXCEPT !.queue =
                  @ \o (IF hide = {} THEN <<>> ELSE <<hideFn(hide)>>)
                    \o <<showFn(t)>>], t)

\* _tabify after a change of the list.
tabify(s) ==
  LET marks == {i \in DOMAIN s.order : s.order[i] \in s.marked}
  IN [s EXCEPT !.selected = IF marks = {} THEN NoTab ELSE s.order[Min(marks)],
               !.greyed = s.disabled \ s.marked,
               !.cached = IF tabOptions.cache THEN @ ELSE {},
               !.disturbed = @ \/ s.loading # NoTab]
----------------------------------------------------------------------------
\* _tabify from scratch.  The option, the address, a cookie or the list may name
\* the selected tab, which is taken off the disabled ones, or there is to be none.
TabsInit(order, fresh, disabled) ==
  /\ tabOptions \in [collapsible : BOOLEAN, cache : BOOLEAN, remote : SUBSET Tab]
  /\ \E selected \in ToSet(order) \cup {NoTab} :
       LET on == {selected} \ {NoTab}
           s == [order |-> order, fresh |-> fresh,
                 selected |-> selected, marked |-> on, visible |-> on,
                 disabled |-> disabled \ on, greyed |-> disabled \ on,
                 processing |-> {}, cached |-> {}, loading |-> NoTab,
                 queue |-> <<>>, disturbed |-> FALSE]
       IN tabs = IF on = {} THEN s
                 ELSE loadTab([s EXCEPT !.queue = <<showFn(selected)>>], selected)

Click(t) == t \in Present(tabs) /\ tabs' = clickTab(tabs, t)

\* The success callback of the request that load made ...
TabLoaded ==
  /\ tabs.loading # NoTab
  /\ tabs' = dequeueTabs([tabs EXCEPT
       !.loading = NoTab, !.processing = {},
       !.cached = @ \cup (IF tabOptions.cache THEN {tabs.loading} ELSE {})])

\* ... which is all it has: after an error nothing is cleaned up.
TabFailed ==
  /\ tabs.loading # NoTab
  /\ tabs' = [tabs EXCEPT !.loading = NoTab, !.disturbed = TRUE]

AddTab(t, index) ==
  /\ t \in tabs.fresh
  /\ LET added == tabify([tabs EXCEPT !.fresh = @ \ {t},
                                      !.order = InsertAt(@, index, t)])
         only == [added EXCEPT !.marked = {t}, !.visible = {t},
                               !.queue = Append(@, showFn(t))]
     IN tabs' = IF tabs.order = <<>> THEN loadTab(only, t) ELSE added

\* The tab to the right, or else to the left, takes over from the selected one.
RemoveTab(index) ==
  LET t == tabs.order[index]
      n == IF index < Len(tabs.order) THEN index + 1 ELSE index - 1
      s == IF t \in tabs.marked /\ Len(tabs.order) > 1
           THEN clickTab(tabs, tabs.order[n]) ELSE tabs
  IN tabs' = tabify([s EXCEPT !.order = RemoveAt(@, index),
                              !.disabled = @ \ {t}, !.processing = @ \ {t},
                              !.marked = @ \ {t}, !.visible = @ \ {t}])

EnableTab(t) ==
  /\ t \in Present(tabs) \cap tabs.disabled
  /\ tabs' = [tabs EXCEPT !.disabled = @ \ {t}, !.greyed = @ \ {t}]

DisableTab(t) ==
  /\ t \in Present(tabs) \ {tabs.selected}
  /\ tabs' = [tabs EXCEPT !.disabled = @ \cup {t}, !.greyed = @ \cup {t}]

TabsNext ==
  /\ \/ \E t \in Tab : Click(t) \/ EnableTab(t) \/ DisableTab(t)
     \/ \E t \in Tab, i \in 1..(Len(tabs.order) + 1) : AddTab(t, i)
     \/ \E i \in DOMAIN tabs.order : RemoveTab(i)
     \/ TabLoaded \/ TabFailed
  /\ UNCHANGED tabOptions

(***************************************************************************)
(* As long as no click, add or remove has come while a remote tab was      *)
(* loading and no load has failed, the tabs are in step: nothing is left   *)
(* in the queue, at most one panel is visible, it is the panel of the tab  *)
(* drawn as selected, and the option "selected" names no other one.  What  *)
(* a disturbance leaves in the queue runs at the next click instead.       *)
(***************************************************************************)
TabsInStep ==
  ~tabs.disturbed /\ tabs.loading = NoTab =>
    /\ tabs.queue = <<>>
    /\ tabs.visible = tabs.marked /\ Cardinality(tabs.visible) <= 1
    /\ tabs.selected # NoTab => tabs.visible = {tabs.selected}
=============================================================================
