-------------------------------- MODULE Mouse --------------------------------
(***************************************************************************)
(* ui.mouse, which turns presses, moves and releases into the start, the   *)
(* drags and the stop of one widget.  A press binds two delegates to the   *)
(* document, the release unbinds the two that this remembers.  A release   *)
(* outside the window is never seen.                                       *)
(***************************************************************************)
EXTENDS Naturals

CONSTANTS
  MaxLeaked,   \* bound: delegates left behind
  MaxDelays    \* bound: delay timers that have not fired

VARIABLES
  mouseOptions,  \* whether options.distance and options.delay are not 0, and
                 \* the browser is Internet Explorer
  mouse

mouseVars == <<mouseOptions, mouse>>

MouseTypeOK ==
  /\ mouseOptions \in [distance : BOOLEAN, delay : BOOLEAN, msie : BOOLEAN]
  /\ mouse \in
       [button : BOOLEAN,      \* is the left button down
        started : BOOLEAN,     \* _mouseStarted
        far : BOOLEAN,         \* _mouseDistanceMet
        delayMet : BOOLEAN,
        bound : BOOLEAN,       \* the delegates this remembers are bound
        leaked : Nat,          \* pairs of older delegates that still are
        timers : Nat,          \* delay timers of earlier presses, and
        timer : BOOLEAN,       \* of the last one
        missed : BOOLEAN,      \* a press that had not started, or
        outside : BOOLEAN,     \* the drag under way: its release was not seen,
        stale : BOOLEAN]       \* a press came before an older timer had fired;
                               \* for the properties only

MouseInit ==
  /\ mouseOptions \in [distance : BOOLEAN, delay : BOOLEAN, msie : BOOLEAN]
  /\ mouse = [button |-> FALSE, started |-> FALSE, far |-> FALSE,
              delayMet |-> FALSE, bound |-> FALSE, leaked |-> 0, timers |-> 0,
              timer |-> FALSE, missed |-> FALSE, outside |-> FALSE,
              stale |-> FALSE]

\* Mutant: the delegates stay bound.
mouseUpOnly(m) == [m EXCEPT !.started = FALSE, !.outside = FALSE]

\* _mouseUp: unbind this._mouseMoveDelegate and this._mouseUpDelegate, stop.
mouseUp(m) == [m EXCEPT !.bound = FALSE, !.started = FALSE, !.outside = FALSE]

distanceMet(m) == mouseOptions.distance => m.far

\* _mouseDown on an element that is captured.  Delegates a missed release has
\* left bound are forgotten, unless the drag had started.
MouseDown ==
  /\ ~mouse.button
  /\ mouse.leaked < MaxLeaked /\ mouse.timers < MaxDelays
  /\ LET m == IF mouse.started THEN mouseUp(mouse) ELSE mouse
         pressed == [m EXCEPT !.button = TRUE, !.far = FALSE,
                      !.delayMet = ~mouseOptions.delay,
                      !.timers = IF m.timer THEN @ + 1 ELSE @,
                      !.timer = mouseOptions.delay,
                      !.stale = @ \/ m.timer \/ m.timers > 0]
         begins == distanceMet(pressed) /\ pressed.delayMet
         bound == [pressed EXCEPT !.bound = TRUE,
                     !.leaked = IF m.bound THEN @ + 1 ELSE @]
     IN mouse' \in {[bound EXCEPT !.started = begins]}
                     \cup (IF begins THEN {pressed} ELSE {})

\* A press that _mouseCapture or options.cancel refuses.
MouseDownRefused ==
  /\ ~mouse.button
  /\ mouse' = [(IF mouse.started THEN mouseUp(mouse) ELSE mouse)
                 EXCEPT !.button = TRUE, !.far = FALSE]

\* A press on another element does not come here at all.
PressElsewhere == ~mouse.button /\ mouse' = [mouse EXCEPT !.button = TRUE]

\* A press of another button, the left one held or not, ends a drag as well
\* and moves the point the distance is measured from, and no more.
OtherDown ==
  mouse' = [(IF mouse.started THEN mouseUp(mouse) ELSE mouse)
              EXCEPT !.far = FALSE]

\* The delegates do not ask which button was released.
OtherUp ==
  /\ mouse.bound \/ mouse.leaked > 0
  /\ mouse' = mouseUp(mouse)

\* Every bound pair, leaked or not, runs _mouseMove of the same widget, whose
\* _mouseStart may refuse the first of them and not the next.  Internet
\* Explorer says when no button is down, and the move is taken for a release.
MouseMove(far) ==
  LET m == [mouse EXCEPT !.far = far]
      pairs == mouse.leaked + (IF mouse.bound THEN 1 ELSE 0)
  IN \/ mouse' \in
          IF pairs = 0 \/ mouse.started \/ ~(distanceMet(m) /\ m.delayMet)
          THEN {m}
          ELSE {[m EXCEPT !.started = TRUE], mouseUp(m)}
                 \cup (IF pairs > 1 THEN {[mouseUp(m) EXCEPT !.started = TRUE]}
                       ELSE {})
     \/ /\ mouseOptions.msie /\ ~mouse.button /\ pairs > 0
        /\ mouse' = mouseUp(m)

MouseUp ==
  /\ mouse.button
  /\ mouse' = IF mouse.leaked = 0 /\ ~mouse.bound
              THEN [mouse EXCEPT !.button = FALSE]
              ELSE [mouseUp(mouse) EXCEPT !.button = FALSE]

MouseUpOutside ==
  /\ mouse.button
  /\ mouse' = [mouse EXCEPT !.button = FALSE,
                 !.missed = @ \/ (mouse.bound /\ ~mouse.started),
                 !.outside = mouse.started]

\* _mouseDelayTimer is never cleared: it may fire in a later press.
DelayTimer ==
  \/ /\ mouse.timer
     /\ mouse' = [mouse EXCEPT !.timer = FALSE, !.delayMet = TRUE]
  \/ /\ mouse.timers > 0
     /\ mouse' = [mouse EXCEPT !.timers = @ - 1, !.delayMet = TRUE]

MouseNext ==
  /\ \/ MouseDown \/ MouseDownRefused \/ PressElsewhere
     \/ MouseUp \/ MouseUpOutside \/ OtherDown \/ OtherUp \/ DelayTimer
     \/ \E far \in BOOLEAN : MouseMove(far)
  /\ UNCHANGED mouseOptions

MouseSpec == MouseInit /\ [][MouseNext]_mouseVars

(***************************************************************************)
(* Unless the release of a press that had not started was missed, no pair  *)
(* of delegates is ever left behind, a widget that has started is bound,   *)
(* and it stays bound with the button up only until a drag whose release   *)
(* came outside the window is ended by the next press; and unless a press  *)
(* followed another before its timer had fired, a drag has waited for the  *)
(* delay of its own press.                                                 *)
(***************************************************************************)
DragIsHeld ==
  /\ ~mouse.missed =>
       /\ mouse.leaked = 0
       /\ mouse.started => mouse.bound
       /\ mouse.bound => mouse.button \/ mouse.outside
  /\ mouse.outside => mouse.started
  /\ ~mouse.stale /\ mouse.started => ~mouse.timer
=============================================================================
