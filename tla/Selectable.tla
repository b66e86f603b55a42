----------------------------- MODULE Selectable -----------------------------
(***************************************************************************)
(* The selectable widget of jQuery UI: a press and a lasso over a list.    *)
(* The classes of the items are all that outlives a lasso; the flags each  *)
(* item carries besides are refreshed from them when the next one starts.  *)
(* The distance of ui.mouse is 0 here, so a press starts the lasso.        *)
(***************************************************************************)
EXTENDS Naturals, FiniteSets

CONSTANTS
  Item,     \* the items of the list
  NoItem    \* a press beside them

VARIABLES selectable

\* The flags are named as in the source; isSelected, isSelecting and
\* isUnselecting are the classes ui-selected, ui-selecting, ui-unselecting.
SelectableTypeOK ==
  selectable \in
    [started : BOOLEAN,
     items : SUBSET Item,           \* the list; items are added as they arrive
     selectees : SUBSET Item,       \* those the lasso knows
     isSelected : SUBSET Item, isSelecting : SUBSET Item,
     isUnselecting : SUBSET Item,
     selected : SUBSET Item, startselected : SUBSET Item,
     before : SUBSET Item,          \* selected before the lasso, where it ended,
     hit : SUBSET Item,             \* and whether the meta key was held during
     metas : SUBSET BOOLEAN]        \* all of it; for the properties only

SelectableInit ==
  selectable =
    [started |-> FALSE, items |-> {}, selectees |-> {}, isSelected |-> {},
     isSelecting |-> {}, isUnselecting |-> {}, selected |-> {},
     startselected |-> {}, before |-> {}, hit |-> {}, metas |-> {}]

\* _mouseStop: classes only; the "selected" events go out in list order.
mouseStop(s) ==
  [s EXCEPT !.started = FALSE, !.isUnselecting = {}, !.isSelecting = {},
            !.isSelected = @ \cup s.isSelecting]

\* Mutant: without refresh the flags are those the last lasso left.
mouseStartStale(s, target, meta) ==
  LET on == {target} \cap s.items
  IN [s EXCEPT
        !.started = TRUE, !.selectees = s.items, !.startselected = s.selected,
        !.isSelected = IF meta THEN @ ELSE {},
        !.selected = (IF meta THEN @ ELSE {}) \cup on,
        !.isUnselecting = (IF meta THEN {} ELSE s.selected) \ on,
        !.isSelecting = on,
        !.before = s.isSelected, !.hit = on, !.metas = {meta}]

\* _mouseStart, with autoRefresh: the item under the press, if any, is taken.
mouseStart(s, target, meta) ==
  LET was == s.isSelected \cap s.items
      on == {target} \cap s.items
  IN [s EXCEPT
        !.started = TRUE, !.selectees = s.items, !.startselected = was,
        !.isSelected = IF meta THEN @ ELSE {},
        !.selected = (IF meta THEN was ELSE {}) \cup on,
        !.isUnselecting = (IF meta THEN {} ELSE was) \ on,
        !.isSelecting = on,
        !.before = was, !.hit = on, !.metas = {meta}]

\* _mouseDrag, item by item.
mouseDrag(s, hit, meta) ==
  LET missed == s.selectees \ hit
      \* selecting and now missed: back to selected with the meta key
      back == IF meta THEN missed \cap s.isSelecting \cap s.startselected
              ELSE {}
      dropped == (missed \cap s.isSelecting) \ back
      \* selected, missed, and not selected at the start
      loose == IF meta THEN {}
               ELSE (missed \cap s.selected) \ s.startselected
  IN [s EXCEPT
        !.selected = ((@ \ hit) \cup back) \ loose,
        !.isSelected = ((@ \ (hit \cap s.selected)) \cup back) \ loose,
        !.isSelecting = (@ \ missed) \cup hit,
        !.isUnselecting = (@ \ hit) \cup (dropped \cap s.startselected)
                            \cup loose,
        !.hit = hit, !.metas = @ \cup {meta}]
----------------------------------------------------------------------------
\* A press while a lasso is on means that its release was missed.
Press(target, meta) ==
  selectable' =
    mouseStart(IF selectable.started THEN mouseStop(selectable) ELSE selectable,
               target, meta)

Drag(hit, meta) ==
  /\ selectable.started
  /\ hit \subseteq selectable.selectees
  /\ selectable' = mouseDrag(selectable, hit, meta)

Release == selectable.started /\ selectable' = mouseStop(selectable)

\* An item is appended to the list.
Arrives(i) ==
  /\ i \notin selectable.items
  /\ selectable' = [selectable EXCEPT !.items = @ \cup {i}]

SelectableNext ==
  \/ \E meta \in BOOLEAN :
       \/ \E i \in selectable.items \cup {NoItem} : Press(i, meta)
       \/ \E hit \in SUBSET Item : Drag(hit, meta)
  \/ Release
  \/ \E i \in Item : Arrives(i)

(***************************************************************************)
(* When no lasso is on, no item is half selected, and the selected items   *)
(* are those the lasso ended on; with the meta key held throughout, those  *)
(* selected before as well.  Only a meta key pressed or let go in the      *)
(* middle makes the outcome depend on the way the mouse took.              *)
(***************************************************************************)
LassoDecides ==
  ~selectable.started =>
    /\ selectable.isSelecting = {} /\ selectable.isUnselecting = {}
    /\ selectable.metas = {FALSE} => selectable.isSelected = selectable.hit
    /\ selectable.metas = {TRUE} =>
         selectable.isSelected = selectable.before \cup selectable.hit
=============================================================================
