-------------------------- MODULE Widgets_proofs ---------------------------
(*************************************************************************)
(* Proofs about the widgets of jQuery UI: ui.mouse, the accordion, the     *)
(* selectable, the slider, the tabs and the dialogs, each on its own, for  *)
(* any headers, items, tabs and dialogs and any number of animations,      *)
(* timers and overlays.                                                    *)
(*************************************************************************)
EXTENDS Mouse, Accordion, Selectable, Slider, Tabs, Dialogs, JQuery_proofs

----------------------------------------------------------------------------
(* ui.mouse.                                                               *)

MouseState ==
  [button : BOOLEAN, started : BOOLEAN, far : BOOLEAN, delayMet : BOOLEAN,
   bound : BOOLEAN, leaked : Nat, timers : Nat, timer : BOOLEAN,
   missed : BOOLEAN, outside : BOOLEAN, stale : BOOLEAN]

(* What ui.mouse relies on: besides DragIsHeld, the delay of the press has *)
(* passed only when its timer has fired, unless an older timer was still   *)
(* to fire.                                                                *)
Held(m) ==
  /\ ~m.missed => m.leaked = 0 /\ (m.started => m.bound)
                               /\ (m.bound => m.button \/ m.outside)
  /\ m.outside => m.started
  /\ ~m.stale /\ m.started => ~m.timer
  /\ ~m.stale => m.timers = 0 /\ (m.delayMet => ~m.timer)

\* What a press sets, and what is set when its delegates are bound.
Pressed(m, d, n, t, s) ==
  [m EXCEPT !.button = TRUE, !.far = FALSE, !.delayMet = d, !.timers = n,
            !.timer = t, !.stale = s]

Bound(m, n, b) ==
  [[m EXCEPT !.bound = TRUE, !.leaked = n] EXCEPT !.started = b]

MouseInv == MouseTypeOK /\ Held(mouse)

(* Lemmas on the records ui.mouse goes through.                            *)

LEMMA Fields ==
  ASSUME NEW m \in MouseState
  PROVE  /\ m.button \in BOOLEAN /\ m.started \in BOOLEAN
         /\ m.far \in BOOLEAN /\ m.delayMet \in BOOLEAN
         /\ m.bound \in BOOLEAN /\ m.leaked \in Nat /\ m.timers \in Nat
         /\ m.timer \in BOOLEAN /\ m.missed \in BOOLEAN
         /\ m.outside \in BOOLEAN /\ m.stale \in BOOLEAN
  BY DEF MouseState

(* _mouseUp stops the drag and unbinds; everything else is left alone.     *)
LEMMA Releasing ==
  ASSUME NEW m \in MouseState
  PROVE  /\ mouseUp(m) \in MouseState
         /\ ~mouseUp(m).started /\ ~mouseUp(m).bound
         /\ ~mouseUp(m).outside
         /\ mouseUp(m).button = m.button /\ mouseUp(m).far = m.far
         /\ mouseUp(m).leaked = m.leaked /\ mouseUp(m).missed = m.missed
         /\ mouseUp(m).delayMet = m.delayMet
         /\ mouseUp(m).timers = m.timers /\ mouseUp(m).timer = m.timer
         /\ mouseUp(m).stale = m.stale
  BY DEF MouseState, mouseUp

(* The fields a press sets.                                                *)
LEMMA Pressing ==
  ASSUME NEW m \in MouseState, NEW p, NEW d \in BOOLEAN, NEW n \in Nat,
         NEW t \in BOOLEAN, NEW s \in BOOLEAN,
         p = Pressed(m, d, n, t, s)
  PROVE  /\ p \in MouseState
         /\ p.button /\ p.started = m.started /\ p.bound = m.bound
         /\ p.leaked = m.leaked /\ p.missed = m.missed
         /\ p.outside = m.outside
         /\ p.delayMet = d /\ p.timers = n /\ p.timer = t /\ p.stale = s
  BY ZenonT(30) DEF MouseState, Pressed

(* The fields set when the delegates of a press are bound.                 *)
LEMMA Binding ==
  ASSUME NEW p \in MouseState, NEW q, NEW n \in Nat, NEW b \in BOOLEAN,
         q = Bound(p, n, b)
  PROVE  /\ q \in MouseState
         /\ q.button = p.button /\ q.started = b /\ q.bound
         /\ q.leaked = n /\ q.missed = p.missed /\ q.outside = p.outside
         /\ q.delayMet = p.delayMet /\ q.timers = p.timers
         /\ q.timer = p.timer /\ q.stale = p.stale
  BY DEF MouseState, Bound

(* Where the pointer is, and whether the drag has started.                 *)
LEMMA Far ==
  ASSUME NEW m \in MouseState, NEW q, NEW f \in BOOLEAN,
         q = [m EXCEPT !.far = f]
  PROVE  /\ q \in MouseState
         /\ q.button = m.button /\ q.started = m.started
         /\ q.bound = m.bound
         /\ q.leaked = m.leaked /\ q.missed = m.missed
         /\ q.outside = m.outside
         /\ q.delayMet = m.delayMet /\ q.timers = m.timers
         /\ q.timer = m.timer /\ q.stale = m.stale
  BY DEF MouseState

(* _mouseStart binds the delegates and starts the drag.                    *)
LEMMA Starting ==
  ASSUME NEW m \in MouseState, NEW q, q = [m EXCEPT !.started = TRUE]
  PROVE  /\ q \in MouseState
         /\ q.button = m.button /\ q.started
         /\ q.bound = m.bound
         /\ q.leaked = m.leaked /\ q.missed = m.missed
         /\ q.outside = m.outside
         /\ q.delayMet = m.delayMet /\ q.timers = m.timers
         /\ q.timer = m.timer /\ q.stale = m.stale
  BY DEF MouseState

(* A delay timer fires: that of the last press, or an older one.           *)
LEMMA Firing ==
  ASSUME NEW m \in MouseState, NEW q,
         \/ m.timer /\ q = [m EXCEPT !.timer = FALSE, !.delayMet = TRUE]
         \/ /\ m.timers > 0
            /\ q = [m EXCEPT !.timers = @ - 1, !.delayMet = TRUE]
  PROVE  /\ q \in MouseState
         /\ q.button = m.button /\ q.started = m.started
         /\ q.bound = m.bound
         /\ q.leaked = m.leaked /\ q.missed = m.missed
         /\ q.outside = m.outside
         /\ q.stale = m.stale
         /\ \/ ~q.timer /\ q.timers = m.timers
            \/ m.timers > 0
<1>1. CASE m.timer /\ q = [m EXCEPT !.timer = FALSE, !.delayMet = TRUE]
  BY <1>1 DEF MouseState
<1>2. CASE /\ m.timers > 0
           /\ q = [m EXCEPT !.timers = @ - 1, !.delayMet = TRUE]
  <2>1. m.timers - 1 \in Nat
    BY <1>2 DEF MouseState
  <2>2. q \in MouseState
    BY <1>2, <2>1 DEF MouseState
  <2> QED
    BY <1>2, <2>2 DEF MouseState
<1> QED
  BY <1>1, <1>2

(* A press: the widget is stopped if it was being dragged, so that nothing *)
(* of an earlier press is held over but its timer, which makes it stale.   *)
LEMMA DownKeeps ==
  ASSUME MouseInv, MouseDown
  PROVE  mouse' \in MouseState /\ Held(mouse')
<1> DEFINE m == IF mouse.started THEN mouseUp(mouse) ELSE mouse
           n == IF m.timer THEN m.timers + 1 ELSE m.timers
           s == m.stale \/ m.timer \/ m.timers > 0
           t == mouseOptions.delay
           d == ~t
           p == Pressed(m, d, n, t, s)
           l == IF m.bound THEN p.leaked + 1 ELSE p.leaked
           b == distanceMet(p) /\ p.delayMet
           q == Bound(p, l, b)
<1>1. mouse \in MouseState /\ Held(mouse) /\ mouseOptions.delay \in BOOLEAN
  BY DEF MouseInv, MouseTypeOK, MouseState
<1>2. /\ m \in MouseState /\ ~m.started /\ ~m.outside
      /\ m.missed = mouse.missed /\ m.leaked = mouse.leaked
      /\ m.timers = mouse.timers /\ m.timer = mouse.timer
      /\ m.stale = mouse.stale
      /\ m.bound => mouse.bound /\ ~mouse.started
  BY <1>1, Releasing, Fields DEF Held
<1>3. ~mouse.button /\ (mouse' = q \/ (b /\ mouse' = p))
  BY DEF MouseDown, Pressed, Bound
<1>4. n \in Nat /\ s \in BOOLEAN /\ (m.timers > 0 => s) /\ (m.timer => s)
      /\ (m.stale => s) /\ (~s => n = m.timers)
  BY <1>2, Fields
<1>5. t \in BOOLEAN /\ d \in BOOLEAN /\ d = ~t
  BY <1>1
<1> HIDE DEF m, n, s, t, d
<1>6. p = Pressed(m, d, n, t, s)
  OBVIOUS
<1>7. m \in MouseState
  BY <1>2
<1>8. n \in Nat
  BY <1>4
<1>9. s \in BOOLEAN
  BY <1>4
<1>10. t \in BOOLEAN
  BY <1>5
<1>11. d \in BOOLEAN
  BY <1>5
<1> HIDE DEF p
<1>12. /\ p \in MouseState
      /\ p.button /\ p.started = m.started /\ p.bound = m.bound
      /\ p.leaked = m.leaked /\ p.missed = m.missed
      /\ p.outside = m.outside /\ p.delayMet = d /\ p.timers = n
      /\ p.timer = t /\ p.stale = s
  BY <1>6, <1>7, <1>8, <1>9, <1>10, <1>11, Pressing
<1>13. /\ b \in BOOLEAN /\ l \in Nat /\ (~m.bound => l = p.leaked)
      /\ (b => p.delayMet)
  BY <1>12, Fields
<1> HIDE DEF b, l
<1>14. q = Bound(p, l, b)
  OBVIOUS
<1>15. p \in MouseState
  BY <1>12
<1>16. l \in Nat
  BY <1>13
<1>17. b \in BOOLEAN
  BY <1>13
<1> HIDE DEF q
<1>18. /\ q \in MouseState
      /\ q.button = p.button /\ q.started = b /\ q.bound
      /\ q.leaked = l /\ q.missed = p.missed /\ q.outside = p.outside
      /\ q.delayMet = p.delayMet /\ q.timers = p.timers
      /\ q.timer = p.timer /\ q.stale = p.stale
  BY <1>14, <1>15, <1>16, <1>17, Binding
<1>19. Held(p)
  BY <1>1, <1>2, <1>3, <1>4, <1>5, <1>12, Fields DEF Held
<1>20. Held(q)
  BY <1>1, <1>2, <1>3, <1>4, <1>12, <1>13, <1>18, <1>19, Fields DEF Held
<1> QED
  BY <1>3, <1>12, <1>18, <1>19, <1>20

(* A move: with the delegates of the press alone, the widget starts only   *)
(* while they are bound and the delay has passed.                          *)
LEMMA MoveKeeps ==
  ASSUME MouseInv, NEW far \in BOOLEAN, MouseMove(far)
  PROVE  mouse' \in MouseState /\ Held(mouse')
<1> DEFINE m == [mouse EXCEPT !.far = far]
           u == mouseUp(m)
           v == [m EXCEPT !.started = TRUE]
           w == [u EXCEPT !.started = TRUE]
           pairs == mouse.leaked + (IF mouse.bound THEN 1 ELSE 0)
<1>1. mouse \in MouseState /\ Held(mouse)
  BY DEF MouseInv, MouseTypeOK, MouseState
<1>2. \/ mouse' = m
      \/ pairs # 0 /\ m.delayMet /\ (mouse' = v \/ mouse' = u)
      \/ pairs > 1 /\ m.delayMet /\ mouse' = w
      \/ mouse' = u
  BY DEF MouseMove
<1>3. /\ mouse.leaked = 0 /\ pairs # 0 => mouse.bound
      /\ pairs > 1 => mouse.leaked # 0
  BY <1>1, Fields
<1> HIDE DEF pairs
<1>4. /\ m \in MouseState
      /\ m.button = mouse.button /\ m.started = mouse.started
      /\ m.bound = mouse.bound
      /\ m.leaked = mouse.leaked /\ m.missed = mouse.missed
      /\ m.outside = mouse.outside /\ m.delayMet = mouse.delayMet /\ m.timers = mouse.timers
      /\ m.timer = mouse.timer /\ m.stale = mouse.stale
  BY <1>1, Far
<1> HIDE DEF m
<1>5. /\ u \in MouseState /\ ~u.started /\ ~u.bound /\ ~u.outside
      /\ u.button = m.button /\ u.leaked = m.leaked /\ u.missed = m.missed
      /\ u.delayMet = m.delayMet /\ u.timers = m.timers
      /\ u.timer = m.timer /\ u.stale = m.stale
  BY <1>4, Releasing
<1> HIDE DEF u
<1>6. /\ v \in MouseState
      /\ v.button = m.button /\ v.started /\ v.bound = m.bound
      /\ v.leaked = m.leaked /\ v.missed = m.missed /\ v.outside = m.outside
      /\ v.delayMet = m.delayMet /\ v.timers = m.timers
      /\ v.timer = m.timer /\ v.stale = m.stale
  BY <1>4, Starting
<1>7. /\ w \in MouseState
      /\ w.button = u.button /\ w.started /\ w.bound = u.bound
      /\ w.leaked = u.leaked /\ w.missed = u.missed /\ w.outside = u.outside
      /\ w.delayMet = u.delayMet /\ w.timers = u.timers
      /\ w.timer = u.timer /\ w.stale = u.stale
  BY <1>5, Starting
<1> HIDE DEF v, w
<1>8. Held(m) /\ Held(u)
  BY <1>1, <1>4, <1>5, Fields DEF Held
<1>9. pairs # 0 /\ m.delayMet => Held(v)
  BY <1>1, <1>3, <1>4, <1>6, Fields DEF Held
<1>10. pairs > 1 /\ m.delayMet => Held(w)
  BY <1>1, <1>3, <1>4, <1>5, <1>7, Fields DEF Held
<1> QED
  BY <1>2, <1>4, <1>5, <1>6, <1>7, <1>8, <1>9, <1>10

\* What is said of a record once its button, its pointer or its release is set.
SameDrag(q, m) ==
  /\ q \in MouseState
  /\ q.started = m.started /\ q.bound = m.bound /\ q.leaked = m.leaked
  /\ q.delayMet = m.delayMet /\ q.timers = m.timers
  /\ q.timer = m.timer /\ q.stale = m.stale

(* The button goes down.                                                   *)
LEMMA Down ==
  ASSUME NEW m \in MouseState, Held(m), NEW q, q = [m EXCEPT !.button = TRUE]
  PROVE  q \in MouseState /\ Held(q)
<1>1. SameDrag(q, m) /\ q.button /\ q.missed = m.missed /\ q.outside = m.outside
  BY DEF MouseState, SameDrag
<1> QED
  BY <1>1 DEF Held, SameDrag

(* The button goes up and nothing is bound.                                *)
LEMMA Up ==
  ASSUME NEW m \in MouseState, Held(m), ~m.bound,
         NEW q, q = [m EXCEPT !.button = FALSE]
  PROVE  q \in MouseState /\ Held(q)
<1>1. SameDrag(q, m) /\ q.missed = m.missed /\ q.outside = m.outside
  BY DEF MouseState, SameDrag
<1> QED
  BY <1>1 DEF Held, SameDrag

(* The pointer is back where the distance is measured from.                *)
LEMMA Near ==
  ASSUME NEW m \in MouseState, Held(m), NEW q, q = [m EXCEPT !.far = FALSE]
  PROVE  q \in MouseState /\ Held(q)
<1>1. SameDrag(q, m) /\ q.button = m.button /\ q.missed = m.missed
      /\ q.outside = m.outside
  BY DEF MouseState, SameDrag
<1> QED
  BY <1>1 DEF Held, SameDrag

\* What a release outside the window sets.
Gone(m) == [m EXCEPT !.button = FALSE,
                     !.missed = m.missed \/ (m.bound /\ ~m.started),
                     !.outside = m.started]

(* The button goes up where no one sees it.                                *)
LEMMA Away ==
  ASSUME NEW m \in MouseState, Held(m)
  PROVE  Gone(m) \in MouseState /\ Held(Gone(m))
<1> DEFINE q == Gone(m)
<1>1. /\ SameDrag(q, m)
      /\ q.missed <=> m.missed \/ (m.bound /\ ~m.started)
      /\ q.outside = m.started
  BY DEF MouseState, SameDrag, Gone
<1> HIDE DEF q
<1>2. q \in MouseState /\ Held(q)
  BY <1>1 DEF Held, SameDrag
<1> QED
  BY <1>2 DEF q

(* _mouseUp ends the drag, and what was held still is.                     *)
LEMMA Stopping ==
  ASSUME MouseInv
  PROVE  /\ mouse \in MouseState /\ Held(mouse)
         /\ mouseUp(mouse) \in MouseState /\ Held(mouseUp(mouse))
         /\ ~mouseUp(mouse).bound
<1>1. mouse \in MouseState /\ Held(mouse)
  BY DEF MouseInv, MouseTypeOK, MouseState
<1> QED
  BY <1>1, Releasing, Fields DEF Held

(* A release binds nothing, and unbinds unless it is not seen.             *)
LEMMA UpKeeps ==
  ASSUME MouseInv, MouseUp \/ MouseUpOutside
  PROVE  mouse' \in MouseState /\ Held(mouse')
<1>1. CASE MouseUp
  <2>1. \/ ~mouse.bound /\ mouse' = [mouse EXCEPT !.button = FALSE]
        \/ mouse' = [mouseUp(mouse) EXCEPT !.button = FALSE]
    BY <1>1 DEF MouseUp
  <2> QED
    BY <2>1, Stopping, Up
<1>2. CASE MouseUpOutside
  <2>1. mouse' = Gone(mouse)
    BY <1>2 DEF MouseUpOutside, Gone
  <2> QED
    BY <2>1, Stopping, Away
<1> QED
  BY <1>1, <1>2

(* A press that does not reach the widget binds nothing.                   *)
LEMMA RefusedKeeps ==
  ASSUME MouseInv, MouseDownRefused \/ PressElsewhere
  PROVE  mouse' \in MouseState /\ Held(mouse')
<1>1. CASE PressElsewhere
  BY <1>1, Stopping, Down DEF PressElsewhere
<1>2. CASE MouseDownRefused
  <2>1. PICK m \in {mouse, mouseUp(mouse)} :
          mouse' = [m EXCEPT !.button = TRUE, !.far = FALSE]
    BY <1>2 DEF MouseDownRefused
  <2> DEFINE q == [m EXCEPT !.button = TRUE]
  <2>2. q \in MouseState /\ Held(q)
    BY Stopping, Down
  <2>3. mouse' = [q EXCEPT !.far = FALSE]
    BY <2>1
  <2> HIDE DEF q
  <2> QED
    BY <2>2, <2>3, Near
<1> QED
  BY <1>1, <1>2

(* Another button ends a drag and binds nothing.                           *)
LEMMA AnotherKeeps ==
  ASSUME MouseInv, OtherDown \/ OtherUp
  PROVE  mouse' \in MouseState /\ Held(mouse')
<1>1. CASE OtherDown
  <2>1. PICK m \in {mouse, mouseUp(mouse)} : mouse' = [m EXCEPT !.far = FALSE]
    BY <1>1 DEF OtherDown
  <2> QED
    BY <2>1, Stopping, Near
<1>2. CASE OtherUp
  BY <1>2, Stopping DEF OtherUp
<1> QED
  BY <1>1, <1>2

(* A timer that was not stale is the one of the last press.                *)
LEMMA TimerKeeps ==
  ASSUME MouseInv, DelayTimer
  PROVE  mouse' \in MouseState /\ Held(mouse')
<1>1. mouse \in MouseState /\ Held(mouse)
  BY DEF MouseInv, MouseTypeOK, MouseState
<1>2. \/ /\ mouse.timer
         /\ mouse' = [mouse EXCEPT !.timer = FALSE, !.delayMet = TRUE]
      \/ /\ mouse.timers > 0
         /\ mouse' = [mouse EXCEPT !.timers = @ - 1, !.delayMet = TRUE]
  BY DEF DelayTimer
<1>3. /\ mouse' \in MouseState
      /\ mouse'.button = mouse.button /\ mouse'.started = mouse.started
      /\ mouse'.bound = mouse.bound
      /\ mouse'.leaked = mouse.leaked /\ mouse'.missed = mouse.missed
      /\ mouse'.outside = mouse.outside /\ mouse'.stale = mouse.stale
      /\ \/ ~mouse'.timer /\ mouse'.timers = mouse.timers
         \/ mouse.timers > 0
  <2>1. PICK q : q = mouse'
    OBVIOUS
  <2>2. \/ mouse.timer /\ q = [mouse EXCEPT !.timer = FALSE, !.delayMet = TRUE]
        \/ /\ mouse.timers > 0
           /\ q = [mouse EXCEPT !.timers = @ - 1, !.delayMet = TRUE]
    BY <1>2, <2>1
  <2>3. /\ q \in MouseState
        /\ q.button = mouse.button /\ q.started = mouse.started
        /\ q.bound = mouse.bound
        /\ q.leaked = mouse.leaked /\ q.missed = mouse.missed
        /\ q.outside = mouse.outside /\ q.stale = mouse.stale
        /\ \/ ~q.timer /\ q.timers = mouse.timers
           \/ mouse.timers > 0
    BY <1>1, <2>2, Firing
  <2> QED
    BY <2>1, <2>3
<1> QED
  BY <1>1, <1>3, Fields DEF Held

(* Both theorems follow from the same inductive invariant.                 *)
LEMMA MouseInvHolds == MouseSpec => []MouseInv
<1>1. MouseInit => MouseInv
  BY DEF MouseInit, MouseInv, MouseTypeOK, Held
<1>2. MouseInv /\ [MouseNext]_mouseVars => MouseInv'
  <2> SUFFICES ASSUME MouseInv, [MouseNext]_mouseVars
               PROVE  MouseInv'
    OBVIOUS
  <2>1. CASE UNCHANGED mouseVars
    BY <2>1 DEF MouseInv, MouseTypeOK, Held, mouseVars
  <2>2. CASE MouseNext
    <3>1. mouse' \in MouseState /\ Held(mouse')
      BY <2>2, DownKeeps, MoveKeeps, UpKeeps, RefusedKeeps, AnotherKeeps, TimerKeeps
      DEF MouseNext
    <3>2. mouseOptions' \in [distance : BOOLEAN, delay : BOOLEAN,
                             msie : BOOLEAN]
      BY <2>2 DEF MouseNext, MouseInv, MouseTypeOK
    <3> QED
      BY <3>1, <3>2 DEF MouseInv, MouseTypeOK, MouseState, Held
  <2> QED
    BY <2>1, <2>2
<1> QED
  BY <1>1, <1>2, PTL DEF MouseSpec

(* Every variable of ui.mouse always has its type.                         *)
THEOREM MouseTypeCorrect == MouseSpec => []MouseTypeOK
<1>1. MouseInv => MouseTypeOK
  BY DEF MouseInv
<1> QED
  BY <1>1, MouseInvHolds, PTL

(* Unless the release of a press that had not started was missed, ui.mouse *)
(* leaves no delegates behind and a drag has its own bound, with the       *)
(* button down or its release outside the window; and it has waited for    *)
(* the delay of its press unless a press followed another before its timer *)
(* had fired.                                                              *)
THEOREM DragHeld == MouseSpec => []DragIsHeld
<1>1. MouseInv => DragIsHeld
  BY DEF MouseInv, Held, DragIsHeld
<1> QED
  BY <1>1, MouseInvHolds, PTL

----------------------------------------------------------------------------
(* The accordion.                                                          *)

(* The accordion: its type, what an animation under way will hide, and     *)
(* what a reader sees between two animations.                              *)
Section == [active : Header \cup {Nothing}, option : Header \cup {Nothing},
            running : Int, animations : Seq(Header \cup {Nothing}),
            shown : SUBSET Header, tabbable : SUBSET Header,
            closed : BOOLEAN, crossed : BOOLEAN]

(* Unless activate(false) crossed an animation there is at most one, which *)
(* will hide what is shown besides the content of the active header.       *)
Settled(a) ==
  ~a.crossed =>
    \/ a.running = 0 /\ a.animations = <<>> /\ a.shown = Some(a.active)
    \/ /\ a.running = 1
       /\ \E h \in Header \cup {Nothing} :
            /\ a.animations = <<h>>
            /\ a.shown \ Some(h) = Some(a.active)

Reachable(a) ==
  ~a.closed => /\ a.tabbable # {}
               /\ ~accOptions.collapsible => a.active # Nothing

HeaderOrNothing == Header \cup {Nothing}

(* _toggle's last lines change the tab order only.                         *)
LEMMA TabOrderFields ==
  ASSUME NEW a \in Section, NEW x \in HeaderOrNothing,
         NEW y \in HeaderOrNothing
  PROVE  LET t == tabOrder(a, x, y)
         IN /\ t \in Section /\ t.active = a.active /\ t.option = a.option
            /\ t.running = a.running /\ t.animations = a.animations
            /\ t.shown = a.shown /\ t.closed = a.closed
            /\ t.crossed = a.crossed
            /\ t.tabbable = (a.tabbable \ Some(y)) \cup Some(x)
  BY DEF Section, tabOrder, Some, HeaderOrNothing

(* What toggle makes of the animations, when x or y may be nothing.        *)
Toggled(a, x, y, t) ==
  LET none == Some(y) \cup Some(x) = {}
  IN /\ ~accOptions.animated =>
          /\ t.running = 0 /\ t.animations = a.animations
          /\ t.shown = (a.shown \cup Some(x)) \ Some(y)
     /\ accOptions.animated =>
          /\ t.shown = a.shown \cup Some(x)
          /\ none => t.running = 0 /\ t.animations = a.animations
          /\ ~none => /\ t.running = 1
                      /\ t.animations = Append(a.animations, y)

(* _toggle changes what is shown and what is under way.                    *)
LEMMA ToggleFields ==
  ASSUME NEW a \in Section, NEW x \in HeaderOrNothing,
         NEW y \in HeaderOrNothing
  PROVE  LET t == toggle(a, x, y)
         IN /\ t \in Section /\ t.active = a.active /\ t.option = a.option
            /\ t.tabbable = a.tabbable /\ t.closed = a.closed
            /\ t.crossed = a.crossed
            /\ Toggled(a, x, y, t)
<1>0. a.animations \in Seq(Header \cup {Nothing})
  BY DEF Section
<1>1. Append(a.animations, y) \in Seq(Header \cup {Nothing})
  BY <1>0 DEF HeaderOrNothing
<1>2. Some(x) \in SUBSET Header
  BY DEF Some, HeaderOrNothing
<1> DEFINE p == a.shown \cup Some(x)
           o == p \ Some(y)
           s == [a EXCEPT !.shown = p]
           none == Some(y) \cup Some(x) = {}
           n == IF none THEN 0 ELSE 1
           q == IF n = 0 THEN s.animations ELSE Append(s.animations, y)
           t == toggle(a, x, y)
<1>3. p \subseteq Header /\ o \subseteq Header
  BY <1>2 DEF Section
<1>4. t = IF ~accOptions.animated
          THEN [s EXCEPT !.running = 0, !.shown = s.shown \ Some(y)]
          ELSE [s EXCEPT !.running = n, !.animations = q]
  BY Zenon DEF toggle
<1>5. n \in Int /\ (n = 0 <=> none) /\ (n = 1 <=> ~none)
  OBVIOUS
<1> HIDE DEF n, none, p
<1>6. /\ s \in Section /\ s.active = a.active /\ s.option = a.option
      /\ s.shown = p /\ s.animations = a.animations
      /\ s.tabbable = a.tabbable /\ s.closed = a.closed
      /\ s.crossed = a.crossed
  BY <1>3 DEF Section
<1>7. s.shown \ Some(y) = o
  BY <1>6
<1> HIDE DEF s, o
<1>8. /\ q \in Seq(Header \cup {Nothing})
      /\ none => q = a.animations
      /\ ~none => q = Append(a.animations, y)
  BY <1>0, <1>1, <1>5, <1>6
<1> HIDE DEF q, t
<1>9. CASE ~accOptions.animated
  <2> DEFINE z == 0
  <2>1. t = [s EXCEPT !.running = z, !.shown = o]
    <3>1. t = [s EXCEPT !.running = z, !.shown = s.shown \ Some(y)]
      BY <1>4, <1>9
    <3> QED
      BY <1>7, <3>1, Zenon
  <2>3. z \in Int /\ z = 0
    OBVIOUS
  <2> HIDE DEF z
  <2>2. /\ t \in Section /\ t.active = s.active /\ t.option = s.option
        /\ t.running = z /\ t.animations = s.animations /\ t.shown = o
        /\ t.tabbable = s.tabbable /\ t.closed = s.closed
        /\ t.crossed = s.crossed
    BY <1>3, <1>6, <2>1, <2>3 DEF Section
  <2> QED
    BY <1>6, <1>9, <2>2, <2>3 DEF Toggled, t, o, p, none
<1>10. CASE accOptions.animated
  <2>1. t = [s EXCEPT !.running = n, !.animations = q]
    BY <1>4, <1>10
  <2>2. /\ t \in Section /\ t.active = s.active /\ t.option = s.option
        /\ t.running = n /\ t.animations = q /\ t.shown = s.shown
        /\ t.tabbable = s.tabbable /\ t.closed = s.closed
        /\ t.crossed = s.crossed
    BY <1>5, <1>6, <1>8, <2>1 DEF Section
  <2> QED
    BY <1>5, <1>6, <1>8, <1>10, <2>2 DEF Toggled, t, p, none
<1> QED
  BY <1>9, <1>10

(* Between animations, switching from y to x leaves the accordion settled. *)
LEMMA ToggleSettles ==
  ASSUME NEW a \in Section, NEW x \in HeaderOrNothing,
         NEW y \in HeaderOrNothing,
         a.active = x, x = y => x = Nothing,
         ~a.crossed => a.animations = <<>> /\ a.shown = Some(y)
  PROVE  Settled(toggle(a, x, y))
<1> DEFINE t == toggle(a, x, y)
           none == Some(y) \cup Some(x) = {}
<1>1. /\ t \in Section /\ t.active = x /\ t.crossed = a.crossed
      /\ Toggled(a, x, y, t)
  BY ToggleFields
<1>2. (Some(y) \cup Some(x)) \ Some(y) = Some(x)
  BY DEF Some
<1>3. Append(<<>>, y) = <<y>>
  OBVIOUS
<1> HIDE DEF t
<1>4. ASSUME ~a.crossed PROVE Settled(t)
  <2>1. CASE ~accOptions.animated
    BY <1>1, <1>2, <1>4, <2>1 DEF Settled, Toggled
  <2>2. CASE accOptions.animated /\ none
    <3>1. Some(y) = {} /\ Some(x) = {}
      BY <2>2
    <3> QED
      BY <1>1, <1>4, <2>2, <3>1 DEF Settled, Toggled
  <2>3. CASE accOptions.animated /\ ~none
    <3>1. /\ t.running = 1 /\ t.animations = <<y>>
          /\ t.shown \ Some(y) = Some(t.active)
      BY <1>1, <1>2, <1>3, <1>4, <2>3 DEF Toggled
    <3> QED
      BY <3>1 DEF Settled, HeaderOrNothing
  <2> QED
    BY <2>1, <2>2, <2>3
<1> QED
  BY <1>1, <1>4 DEF Settled, t

(* The invariant for one state of the widget.                              *)
SectionInv(a) ==
  a \in Section /\ Settled(a) /\ Reachable(a) /\ (a.closed \/ ~a.crossed)

(* A click, whether it is taken or not; only activate(false) names no      *)
(* header.                                                                 *)
LEMMA ClickKeeps ==
  ASSUME NEW a, SectionInv(a), NEW h \in HeaderOrNothing,
         h = Nothing => a.closed,
         accOptions \in [collapsible : BOOLEAN, animated : BOOLEAN]
  PROVE  SectionInv(clickHandler(a, h))
<1> DEFINE o == [a EXCEPT !.option = h]
           s == tabOrder(o, h, a.active)
           r == [s EXCEPT !.active = Nothing]
           g == [s EXCEPT !.active = h]
<1>1. a \in Section /\ a.active \in HeaderOrNothing
  BY DEF SectionInv, Section, HeaderOrNothing
<1>2. /\ o \in Section /\ o.active = a.active /\ o.running = a.running
      /\ o.animations = a.animations /\ o.shown = a.shown
      /\ o.tabbable = a.tabbable /\ o.closed = a.closed
      /\ o.crossed = a.crossed
  BY <1>1 DEF Section, HeaderOrNothing
<1>3. clickHandler(a, h) =
        IF a.running # 0 \/ (~accOptions.collapsible /\ h = a.active) THEN o
        ELSE IF h = a.active THEN toggle(r, Nothing, h) ELSE toggle(g, h, a.active)
  BY DEF clickHandler
<1> HIDE DEF o
<1>4. /\ s \in Section /\ s.active = a.active
      /\ s.animations = a.animations /\ s.shown = a.shown
      /\ s.closed = a.closed /\ s.crossed = a.crossed
      /\ s.tabbable = (a.tabbable \ Some(a.active)) \cup Some(h)
  BY <1>1, <1>2, TabOrderFields
<1> HIDE DEF s
<1>5. /\ r \in Section /\ r.active = Nothing
      /\ r.animations = a.animations /\ r.shown = a.shown
      /\ r.closed = a.closed /\ r.crossed = a.crossed
      /\ r.tabbable = s.tabbable
      /\ g \in Section /\ g.active = h
      /\ g.animations = a.animations /\ g.shown = a.shown
      /\ g.closed = a.closed /\ g.crossed = a.crossed
      /\ g.tabbable = s.tabbable
  BY <1>4 DEF Section, HeaderOrNothing
<1> HIDE DEF r, g
<1>6. SectionInv(o)
  BY <1>2 DEF SectionInv, Settled, Reachable
<1>7. ASSUME a.running = 0
      PROVE  ~a.crossed => a.animations = <<>> /\ a.shown = Some(a.active)
  BY <1>7 DEF SectionInv, Settled
<1>8. ~a.closed => s.tabbable # {}
  BY <1>4, NothingAssumption DEF Some, HeaderOrNothing
<1>9. ASSUME a.running = 0, h = a.active, accOptions.collapsible
      PROVE  SectionInv(toggle(r, Nothing, h))
  <2> DEFINE t == toggle(r, Nothing, h)
  <2>1. /\ t \in Section /\ t.active = Nothing /\ t.tabbable = s.tabbable
        /\ t.closed = a.closed /\ t.crossed = a.crossed
    <3>1. Nothing \in HeaderOrNothing
      BY DEF HeaderOrNothing
    <3> QED
      BY <1>5, <3>1, ToggleFields
  <2>2. Settled(t)
    BY <1>5, <1>7, <1>9, ToggleSettles DEF HeaderOrNothing
  <2> HIDE DEF t
  <2> QED
    BY <1>8, <1>9, <2>1, <2>2 DEF SectionInv, Reachable, t
<1>10. ASSUME a.running = 0, h # a.active
       PROVE  SectionInv(toggle(g, h, a.active))
  <2> DEFINE t == toggle(g, h, a.active)
  <2>1. /\ t \in Section /\ t.active = h /\ t.tabbable = s.tabbable
        /\ t.closed = a.closed /\ t.crossed = a.crossed
    BY <1>1, <1>5, ToggleFields
  <2>2. Settled(t)
    BY <1>1, <1>5, <1>7, <1>10, ToggleSettles
  <2> HIDE DEF t
  <2> QED
    BY <1>8, <2>1, <2>2 DEF SectionInv, Reachable, t
<1> QED
  BY <1>3, <1>6, <1>9, <1>10

(* activate(false), which a collapsible accordion takes at any time.       *)
LEMMA CloseAllKeeps ==
  ASSUME NEW a, SectionInv(a),
         accOptions \in [collapsible : BOOLEAN, animated : BOOLEAN]
  PROVE  SectionInv(closeAll(a))
<1> DEFINE c == a.crossed \/ a.animations # <<>>
           s == [a EXCEPT !.option = Nothing, !.closed = TRUE, !.crossed = c]
           r == [s EXCEPT !.active = Nothing]
           u == tabOrder(r, Nothing, a.active)
           t == toggle(u, Nothing, a.active)
<1>1. a \in Section /\ a.active \in HeaderOrNothing
  BY DEF SectionInv, Section, HeaderOrNothing
<1>2. c \in BOOLEAN /\ (~c => ~a.crossed /\ a.animations = <<>>)
  OBVIOUS
<1>3. closeAll(a) = IF accOptions.collapsible THEN t ELSE clickHandler(s, Nothing)
  BY DEF closeAll
<1> HIDE DEF c
<1>4. /\ s \in Section /\ s.active = a.active /\ s.running = a.running
      /\ s.animations = a.animations /\ s.shown = a.shown
      /\ s.tabbable = a.tabbable /\ s.closed = TRUE /\ s.crossed = c
  BY <1>1, <1>2 DEF Section
<1> HIDE DEF s
<1>5. /\ r \in Section /\ r.active = Nothing
      /\ r.animations = a.animations /\ r.shown = a.shown
      /\ r.closed = TRUE /\ r.crossed = c
  BY <1>4 DEF Section
<1> HIDE DEF r
<1>6. /\ u \in Section /\ u.active = Nothing
      /\ u.animations = a.animations /\ u.shown = a.shown
      /\ u.closed = TRUE /\ u.crossed = c
  BY <1>1, <1>5, TabOrderFields DEF HeaderOrNothing
<1> HIDE DEF u
<1>7. ~c => a.shown = Some(a.active)
  <2>1. \A h : <<h>> # <<>>
    OBVIOUS
  <2> QED
    BY <1>2, <2>1, Zenon DEF SectionInv, Settled
<1>8. SectionInv(s)
  BY <1>2, <1>4 DEF SectionInv, Settled, Reachable
<1>9. SectionInv(t)
  <2>1. t \in Section /\ t.closed = TRUE
    BY <1>1, <1>6, ToggleFields DEF HeaderOrNothing
  <2>2. Settled(t)
    BY <1>1, <1>2, <1>6, <1>7, ToggleSettles DEF HeaderOrNothing
  <2> HIDE DEF t
  <2> QED
    BY <2>1, <2>2 DEF SectionInv, Reachable
<1>10. SectionInv(clickHandler(s, Nothing))
  BY <1>4, <1>8, ClickKeeps DEF HeaderOrNothing
<1> QED
  BY <1>3, <1>9, <1>10

(* An arrow key puts a header in the tab order.                            *)
LEMMA ArrowKeyKeeps ==
  ASSUME NEW h \in Header, NEW g \in Header, SectionInv(accordion),
         ArrowKey(h, g)
  PROVE  SectionInv(accordion')
<1> DEFINE a == accordion
           b == [accordion EXCEPT !.tabbable = (@ \ {h}) \cup {g}]
<1>1. /\ b \in Section /\ b.active = a.active /\ b.running = a.running
      /\ b.animations = a.animations /\ b.shown = a.shown
      /\ b.tabbable # {} /\ b.closed = a.closed /\ b.crossed = a.crossed
  BY DEF SectionInv, Section
<1>2. accordion' = b
  BY DEF ArrowKey
<1> HIDE DEF b
<1>3. SectionInv(b)
  BY <1>1 DEF SectionInv, Settled, Reachable
<1> QED
  BY <1>2, <1>3

(* The end of an animation hides what it was to hide.                      *)
LEMMA AnimationEndsKeeps ==
  ASSUME SectionInv(accordion), AnimationEnds
  PROVE  SectionInv(accordion')
<1> DEFINE a == accordion
           h == Head(a.animations)
           s == [a EXCEPT !.animations = Tail(@)]
           b == completed(s, h)
<1>1. /\ a.animations \in Seq(Header \cup {Nothing}) /\ a.animations # <<>>
      /\ accordion' = b
  BY DEF AnimationEnds, SectionInv, Section
<1>2. Tail(a.animations) \in Seq(Header \cup {Nothing})
  BY <1>1
<1>3. /\ s \in Section /\ s.active = a.active /\ s.running = a.running
      /\ s.animations = Tail(a.animations) /\ s.shown = a.shown
      /\ s.tabbable = a.tabbable /\ s.closed = a.closed
      /\ s.crossed = a.crossed
  BY <1>2 DEF SectionInv, Section
<1> HIDE DEF s
<1>4. /\ b \in Section /\ b.active = a.active /\ b.running = a.running - 1
      /\ b.animations = Tail(a.animations) /\ b.shown = a.shown \ Some(h)
      /\ b.tabbable = a.tabbable /\ b.closed = a.closed
      /\ b.crossed = a.crossed
  <2> DEFINE n == s.running - 1
             p == s.shown \ Some(h)
  <2>1. b = [s EXCEPT !.running = n, !.shown = p]
    BY DEF completed
  <2>2. n = a.running - 1 /\ n \in Int /\ p \subseteq Header
    BY <1>3 DEF Section
  <2> HIDE DEF n, b
  <2>3. p = a.shown \ Some(h)
    BY <1>3
  <2> HIDE DEF p
  <2>4. /\ b \in Section /\ b.active = s.active /\ b.running = n
        /\ b.animations = s.animations /\ b.shown = p
        /\ b.tabbable = s.tabbable /\ b.closed = s.closed
        /\ b.crossed = s.crossed
    BY <1>3, <2>1, <2>2 DEF Section
  <2> QED
    BY <1>3, <2>2, <2>3, <2>4
<1> HIDE DEF b
<1>5. Settled(b)
  <2>1. ASSUME ~a.crossed
        PROVE  b.running = 0 /\ b.animations = <<>> /\ b.shown = Some(b.active)
    <3>1. PICK x \in Header \cup {Nothing} :
            /\ a.running = 1 /\ a.animations = <<x>>
            /\ a.shown \ Some(x) = Some(a.active)
      BY <1>1, <2>1 DEF SectionInv, Settled
    <3>2. Head(<<x>>) = x /\ Tail(<<x>>) = <<>>
      OBVIOUS
    <3> QED
      BY <1>4, <3>1, <3>2
  <2> QED
    BY <1>4, <2>1 DEF Settled
<1> QED
  BY <1>1, <1>4, <1>5 DEF SectionInv, Reachable

AccordionInv ==
  /\ accOptions \in [collapsible : BOOLEAN, animated : BOOLEAN]
  /\ SectionInv(accordion)

(* Every behaviour of the accordion keeps the invariant.                   *)
LEMMA AccordionInvariant == AccordionSpec => []AccordionInv
<1>1. AccordionInit => AccordionInv
  <2>1. SUFFICES ASSUME accOptions \in [collapsible : BOOLEAN, animated : BOOLEAN],
                        NEW first \in Header, accordion = AccordionStart(first)
                 PROVE  AccordionInv
    BY DEF AccordionInit
  <2>2. <<>> \in Seq(Header \cup {Nothing})
    OBVIOUS
  <2> DEFINE a == AccordionStart(first)
  <2>3. /\ a \in Section /\ a.running = 0 /\ a.animations = <<>>
        /\ a.active = first
        /\ a.shown = {first} /\ a.tabbable = {first} /\ ~a.crossed
    BY <2>2 DEF AccordionStart, Section
  <2> HIDE DEF a
  <2>4. SectionInv(a)
    BY <2>3, NothingAssumption DEF SectionInv, Settled, Reachable, Some
  <2> QED
    BY <2>1, <2>4 DEF AccordionInv, a
<1>2. ASSUME AccordionInv, AccordionNext PROVE AccordionInv'
  <2>1. /\ SectionInv(accordion) /\ accOptions' = accOptions
        /\ accOptions \in [collapsible : BOOLEAN, animated : BOOLEAN]
    BY <1>2 DEF AccordionInv, AccordionNext
  <2>2. ASSUME NEW h \in Header, ClickHeader(h) PROVE SectionInv(accordion')
    BY <2>1, <2>2, ClickKeeps, NothingAssumption DEF ClickHeader,
       HeaderOrNothing
  <2>3. ASSUME CloseAll PROVE SectionInv(accordion')
    BY <2>1, <2>3, CloseAllKeeps DEF CloseAll
  <2>4. SectionInv(accordion')
    BY <1>2, <2>1, <2>2, <2>3, ArrowKeyKeeps,
       AnimationEndsKeeps DEF AccordionNext
  <2>5. SectionInv(accordion)'
    BY <2>1, <2>4 DEF SectionInv, Settled, Reachable
  <2> QED
    BY <2>1, <2>5 DEF AccordionInv
<1>3. ASSUME AccordionInv, UNCHANGED accordionVars PROVE AccordionInv'
  BY <1>3 DEF accordionVars, AccordionInv, SectionInv, Settled, Reachable
<1> QED
  BY <1>1, <1>2, <1>3, PTL DEF AccordionSpec

(* Every variable has its type. Unless activate(false) came in the middle  *)
(* of an animation, running counts the animations under way, and between   *)
(* two of them exactly the content of the active header is displayed; the  *)
(* keyboard reaches a header unless activate(false) was called (jquery-    *)
(* ui-1.7.2.custom.js 3846-4026).                                          *)
THEOREM SectionFollows ==
  AccordionSpec => [](AccordionTypeOK /\ OneSection)
<1>1. AccordionInv => OneSection
  <2>1. SUFFICES ASSUME AccordionInv PROVE OneSection
    OBVIOUS
  <2>2. ASSUME ~accordion.crossed
        PROVE  /\ accordion.running = Len(accordion.animations)
               /\ accordion.running = 0 => accordion.shown = Some(accordion.active)
    <3>1. CASE accordion.running = 0 /\ accordion.animations = <<>> /\ accordion.shown = Some(accordion.active)
      BY <3>1
    <3>2. CASE accordion.running = 1
      <4>1. PICK h \in Header \cup {Nothing} : accordion.animations = <<h>>
        BY <2>1, <2>2, <3>2 DEF AccordionInv, SectionInv, Settled
      <4> QED
        BY <3>2, <4>1
    <3> QED
      BY <2>1, <2>2, <3>1, <3>2 DEF AccordionInv, SectionInv, Settled
  <2> QED
    BY <2>1, <2>2 DEF AccordionInv, SectionInv, Reachable, OneSection
<1>2. AccordionInv => AccordionTypeOK
  BY DEF AccordionInv, SectionInv, Section, AccordionTypeOK
<1> QED
  BY <1>1, <1>2, AccordionInvariant, PTL

----------------------------------------------------------------------------
(* The selectable.                                                         *)

Lasso == [started : BOOLEAN, items : SUBSET Item, selectees : SUBSET Item,
          isSelected : SUBSET Item, isSelecting : SUBSET Item,
          isUnselecting : SUBSET Item,
          selected : SUBSET Item, startselected : SUBSET Item,
          before : SUBSET Item, hit : SUBSET Item, metas : SUBSET BOOLEAN]

(* While a lasso is on, what it is over is selecting; the items selected   *)
(* without the meta key are none, those with it the ones selected before,  *)
(* perhaps without some that are selecting again.                          *)
OnTheWay(s) ==
  /\ s.metas # {} /\ s.selectees \subseteq s.items
  /\ s.hit \subseteq s.selectees
  /\ s.isSelecting = s.hit /\ s.startselected = s.before
  /\ s.metas = {FALSE} => s.isSelected = {}
  /\ s.metas = {TRUE} =>
       s.before \ s.hit \subseteq s.isSelected /\ s.isSelected \subseteq s.before

Ended(s) ==
  /\ s.isSelecting = {} /\ s.isUnselecting = {}
  /\ s.metas = {FALSE} => s.isSelected = s.hit
  /\ s.metas = {TRUE} => s.isSelected = s.before \cup s.hit

LassoInv(s) ==
  /\ s \in Lasso /\ s.isSelected \subseteq s.items
  /\ IF s.started THEN OnTheWay(s) ELSE Ended(s)

(* The end of a lasso selects what was selecting.                          *)
LEMMA StopKeepsLasso ==
  ASSUME NEW s, LassoInv(s), s.started
  PROVE  LassoInv(mouseStop(s)) /\ ~mouseStop(s).started
<1> DEFINE t == mouseStop(s)
<1>1. /\ t \in Lasso /\ t.started = FALSE /\ t.items = s.items
      /\ t.isSelecting = {} /\ t.isUnselecting = {}
      /\ t.isSelected = s.isSelected \cup s.isSelecting
      /\ t.hit = s.hit /\ t.before = s.before /\ t.metas = s.metas
  BY DEF mouseStop, LassoInv, Lasso
<1> HIDE DEF t
<1>2. s.isSelected \subseteq s.items /\ OnTheWay(s)
  BY DEF LassoInv
<1>3. LassoInv(t)
  BY <1>1, <1>2 DEF LassoInv, OnTheWay, Ended
<1> QED
  BY <1>1, <1>3 DEF t

(* The start, on an item or beside them, with or without the meta key.     *)
LEMMA StartKeepsLasso ==
  ASSUME NEW s, LassoInv(s), ~s.started, NEW target, NEW meta \in BOOLEAN
  PROVE  LassoInv(mouseStart(s, target, meta))
<1> DEFINE t == mouseStart(s, target, meta)
           was == s.isSelected \cap s.items
           on == {target} \cap s.items
<1>0. s \in Lasso /\ was = s.isSelected /\ on \subseteq s.items /\ s.items \subseteq Item
      /\ was \subseteq Item
  BY DEF LassoInv, Lasso
<1> DEFINE x == IF meta THEN s.isSelected ELSE {}
           y == (IF meta THEN was ELSE {}) \cup on
           z == (IF meta THEN {} ELSE was) \ on
           m == {meta}
<1>1. t = [s EXCEPT
             !.started = TRUE, !.selectees = s.items, !.startselected = was,
             !.isSelected = x, !.selected = y, !.isUnselecting = z,
             !.isSelecting = on,
             !.before = was, !.hit = on, !.metas = m]
  BY DEF mouseStart
<1>a. /\ s.isSelected \subseteq Item /\ on \subseteq Item /\ x \subseteq Item
      /\ y \subseteq Item /\ z \subseteq Item /\ m \subseteq BOOLEAN
  BY <1>0 DEF Lasso
<1> HIDE DEF t, was, on, x, y, z, m
<1>2. /\ t \in Lasso /\ t.started = TRUE /\ t.items = s.items
      /\ t.selectees = s.items /\ t.startselected = was
      /\ t.isSelected = x
      /\ t.isSelecting = on /\ t.before = was /\ t.hit = on /\ t.metas = m
  BY <1>0, <1>1, <1>a DEF Lasso
<1>3. LassoInv(t)
  BY <1>0, <1>2 DEF LassoInv, OnTheWay, x, m
<1> QED
  BY <1>3 DEF t

(* A move that puts the lasso over the items in hit.                       *)
LEMMA DragKeepsLasso ==
  ASSUME NEW s, LassoInv(s), s.started, NEW hit \in SUBSET s.selectees,
         NEW meta \in BOOLEAN
  PROVE  LassoInv(mouseDrag(s, hit, meta))
<1> DEFINE t == mouseDrag(s, hit, meta)
           missed == s.selectees \ hit
           back == IF meta THEN missed \cap s.isSelecting \cap s.startselected
                   ELSE {}
           dropped == (missed \cap s.isSelecting) \ back
           loose == IF meta THEN {}
                    ELSE (missed \cap s.selected) \ s.startselected
<1>0. /\ s \in Lasso /\ OnTheWay(s) /\ s.isSelected \subseteq s.items
      /\ s.selectees \subseteq s.items /\ s.items \subseteq Item
  BY DEF LassoInv, OnTheWay, Lasso
<1>1. t = [s EXCEPT
             !.selected = ((@ \ hit) \cup back) \ loose,
             !.isSelected = ((@ \ (hit \cap s.selected)) \cup back) \ loose,
             !.isSelecting = (@ \ missed) \cup hit,
             !.isUnselecting = (@ \ hit) \cup (dropped \cap s.startselected)
                                 \cup loose,
             !.hit = hit, !.metas = @ \cup {meta}]
  BY DEF mouseDrag
<1>2. /\ back \subseteq s.selectees /\ dropped \subseteq s.selectees
      /\ loose \subseteq s.selectees
  OBVIOUS
<1> HIDE DEF t
<1> HIDE DEF back, dropped, loose
<1>3. /\ t \in Lasso /\ t.started = s.started /\ t.items = s.items
      /\ t.selectees = s.selectees /\ t.startselected = s.startselected
      /\ t.isSelected = ((s.isSelected \ (hit \cap s.selected)) \cup back) \ loose
      /\ t.isSelecting = (s.isSelecting \ missed) \cup hit
      /\ t.before = s.before /\ t.hit = hit /\ t.metas = s.metas \cup {meta}
  BY <1>0, <1>1, <1>2 DEF Lasso
<1>4. t.isSelecting = hit
  BY <1>0, <1>3 DEF OnTheWay
<1>5. t.isSelected \subseteq t.items
  BY <1>0, <1>2, <1>3
<1>6. ASSUME t.metas = {FALSE} PROVE t.isSelected = {}
  <2>1. s.metas = {FALSE} /\ meta = FALSE
    BY <1>0, <1>3, <1>6, ZenonT(30) DEF OnTheWay
  <2> QED
    BY <1>0, <1>3, <2>1 DEF OnTheWay, back
<1>7. ASSUME t.metas = {TRUE}
      PROVE  t.before \ t.hit \subseteq t.isSelected /\ t.isSelected \subseteq t.before
  <2>1. s.metas = {TRUE} /\ meta = TRUE
    BY <1>0, <1>3, <1>7 DEF OnTheWay
  <2> QED
    BY <1>0, <1>3, <2>1 DEF OnTheWay, back, loose
<1>8. LassoInv(t)
  BY <1>0, <1>3, <1>4, <1>5, <1>6, <1>7 DEF LassoInv, OnTheWay
<1> QED
  BY <1>8 DEF t

(* An item that arrives is not one of the lasso's until the next one.      *)
LEMMA ArrivesKeepsLasso ==
  ASSUME NEW s, LassoInv(s), NEW i \in Item
  PROVE  LassoInv([s EXCEPT !.items = @ \cup {i}])
<1> DEFINE t == [s EXCEPT !.items = @ \cup {i}]
<1>1. /\ t \in Lasso /\ t.items = s.items \cup {i}
      /\ t.started = s.started /\ t.selectees = s.selectees
      /\ t.isSelected = s.isSelected /\ t.isSelecting = s.isSelecting
      /\ t.isUnselecting = s.isUnselecting /\ t.startselected = s.startselected
      /\ t.before = s.before /\ t.hit = s.hit /\ t.metas = s.metas
  BY DEF LassoInv, Lasso
<1> HIDE DEF t
<1>2. LassoInv(t)
  BY <1>1 DEF LassoInv, OnTheWay, Ended
<1> QED
  BY <1>2 DEF t

(* Every variable has its type, and wherever the lasso has been and        *)
(* whatever has arrived meanwhile, the items selected at its end are those *)
(* it ends on, with the meta key together with those selected before       *)
(* (jquery-ui-1.7.2.custom.js 2431-2605).                                  *)
THEOREM LassoOutcome ==
  SelectableInit /\ [][SelectableNext]_selectable => [](SelectableTypeOK /\ LassoDecides)
<1> DEFINE Inv == LassoInv(selectable)
<1>1. SelectableInit => Inv
  <2>1. SUFFICES ASSUME SelectableInit PROVE Inv
    OBVIOUS
  <2>2. /\ selectable \in Lasso /\ selectable.started = FALSE
        /\ selectable.isSelected = {} /\ selectable.isSelecting = {}
        /\ selectable.isUnselecting = {} /\ selectable.metas = {}
    BY <2>1 DEF SelectableInit, Lasso
  <2> HIDE <2>1
  <2> QED
    BY <2>2 DEF LassoInv, Ended
<1>2. ASSUME Inv, SelectableNext PROVE Inv'
  <2>1. ASSUME NEW meta \in BOOLEAN, NEW i, Press(i, meta) PROVE Inv'
    <3>1. CASE selectable.started
      BY <1>2, <2>1, <3>1, StopKeepsLasso, StartKeepsLasso DEF Press
    <3>2. CASE ~selectable.started
      BY <1>2, <2>1, <3>2, StartKeepsLasso DEF Press
    <3> QED
      BY <3>1, <3>2
  <2>2. ASSUME NEW meta \in BOOLEAN, NEW hit \in SUBSET Item, Drag(hit, meta)
        PROVE  Inv'
    BY <1>2, <2>2, DragKeepsLasso DEF Drag
  <2>3. ASSUME Release PROVE Inv'
    BY <1>2, <2>3, StopKeepsLasso DEF Release
  <2>4. ASSUME NEW i \in Item, Arrives(i) PROVE Inv'
    BY <1>2, <2>4, ArrivesKeepsLasso DEF Arrives
  <2> QED
    BY <1>2, <2>1, <2>2, <2>3, <2>4 DEF SelectableNext
<1>3. ASSUME Inv, UNCHANGED selectable PROVE Inv'
  BY <1>3 DEF LassoInv, OnTheWay, Ended
<1>4. Inv => LassoDecides
  BY DEF LassoInv, Ended, LassoDecides
<1>5. Inv => SelectableTypeOK
  BY DEF LassoInv, Lasso, SelectableTypeOK
<1> QED
  BY <1>1, <1>2, <1>3, <1>4, <1>5, PTL

----------------------------------------------------------------------------
(* The slider.                                                             *)

SliderState ==
  [max : 0..SliderMax, stored : [{0, 1} -> Int], handleIndex : {0, 1, -1},
   keySliding : BOOLEAN, text : [{0, 1} -> Int], scripted : BOOLEAN]

Options == [handles : {1, 2}, step : StepSize]

Multiple(v, d) == \E k \in Nat : v = d * k

(* Values on a step of the slider.                                         *)
OnStep(s, v) == v \in 0..s.max /\ Multiple(v, sliderOptions.step)

SliderInv(s) ==
  /\ s \in SliderState
  /\ isRange => reading(s, 0) <= reading(s, 1)
  /\ ~s.scripted /\ Multiple(s.max, sliderOptions.step) =>
       \A i \in {0, 1} : s.text[i] = s.stored[i] /\ OnStep(s, s.stored[i])

(* Division with remainder, as the prover knows it of constants only.      *)
LEMMA Remainder ==
  ASSUME NEW n \in Nat, NEW d \in Nat \ {0}
  PROVE  /\ n % d \in 0..(d - 1)
         /\ \E k \in Nat : n = d * k + (n % d)
         /\ n % d = 0 => Multiple(n, d)
<1>1. n % d \in 0..(d - 1) /\ n \div d \in Nat
  OBVIOUS
<1>2. n = d * (n \div d) + (n % d)
  OBVIOUS
<1> DEFINE q == n \div d
           r == n % d
<1> HIDE DEF q, r
<1>3. r \in 0..(d - 1) /\ q \in Nat /\ n = d * q + r
  BY <1>1, <1>2 DEF q, r
<1>4. \E k \in Nat : n = d * k + r
  BY <1>3
<1>5. r = 0 => n = d * q
  BY <1>3
<1>6. r = 0 => Multiple(n, d)
  BY <1>3, <1>5 DEF Multiple
<1> QED
  BY <1>3, <1>4, <1>6 DEF r

\* One more step is still within a multiple that is larger.
LEMMA NextMultiple ==
  ASSUME NEW d \in Nat \ {0}, NEW a \in Nat, NEW b \in Nat, d * a < d * b
  PROVE  d * a + d <= d * b
<1>1. a < b
  OBVIOUS
<1>2. d * (b - (a + 1)) >= 0
  BY <1>1
<1> QED
  BY <1>2

(* What a handle reads is in the range, and is the stored value when that  *)
(* is.                                                                     *)
LEMMA ReadingInRange ==
  ASSUME NEW s \in SliderState, NEW i \in {0, 1}
  PROVE  /\ reading(s, i) \in 0..s.max
         /\ s.stored[i] \in 0..s.max => reading(s, i) = s.stored[i]
<1>1. s.stored[i] \in Int /\ s.max \in Nat
  BY SliderAssumption DEF SliderState
<1> QED
  BY <1>1 DEF reading

(* A position with the mouse is a number ...                               *)
LEMMA NormValueInt ==
  ASSUME NEW p \in Nat, sliderOptions \in Options
  PROVE  normValue(p) \in Int
<1>1. PICK d \in Nat \ {0} : d = sliderOptions.step
  BY SliderAssumption DEF Options
<1>2. PICK r \in Int : r = p % d
  BY <1>1, Remainder
<1>3. normValue(p) = p - r + (IF 2 * r > d THEN d ELSE 0)
  BY <1>1, <1>2 DEF normValue
<1> QED
  BY <1>3

(* ... and one on a step when the range is a multiple of the step, as      *)
(* rounding up does not leave it.                                          *)
LEMMA NormValueOnStep ==
  ASSUME NEW m \in Nat, NEW p \in 0..m, sliderOptions \in Options,
         Multiple(m, sliderOptions.step)
  PROVE  normValue(p) \in 0..m /\ Multiple(normValue(p), sliderOptions.step)
<1> DEFINE d == sliderOptions.step
<1>0. p \in Nat
  OBVIOUS
<1>1. d \in Nat \ {0} /\ p \in Nat
  BY <1>0, SliderAssumption DEF Options
<1>2. normValue(p) = p - (p % d) + (IF 2 * (p % d) > d THEN d ELSE 0)
  BY DEF normValue
<1> HIDE DEF d
<1>3. PICK k \in Nat : p = d * k + (p % d)
  BY <1>1, Remainder
<1>4. PICK n \in Nat : m = d * n
  BY DEF Multiple, d
<1>5. PICK r \in 0..(d - 1) : r = p % d
  BY <1>1, Remainder
<1>6. PICK a \in Nat : a = d * k
  BY <1>1
<1>7. p = a + r /\ p - r = a
  BY <1>1, <1>3, <1>5, <1>6
<1>8. CASE 2 * r > d
  <2>1. normValue(p) = a + d
    BY <1>1, <1>2, <1>5, <1>7, <1>8
  <2>2. a < m
    BY <1>1, <1>7, <1>8
  <2>3. a + d <= m
    BY <1>1, <1>4, <1>6, <2>2, NextMultiple
  <2>4. a + d = d * (k + 1)
    BY <1>1, <1>6
  <2>5. k + 1 \in Nat
    OBVIOUS
  <2> QED
    BY <1>1, <2>1, <2>3, <2>4, <2>5 DEF Multiple, d
<1>9. CASE ~(2 * r > d)
  <2>1. normValue(p) = a
    BY <1>1, <1>2, <1>5, <1>7, <1>9
  <2>2. a <= m
    BY <1>1, <1>7
  <2> QED
    BY <1>6, <2>1, <2>2 DEF Multiple, d
<1> QED
  BY <1>8, <1>9

(* _slide moves a handle unless the other one is in the way.               *)
LEMMA SlideKeeps ==
  ASSUME NEW s, SliderInv(s), NEW i \in {0, 1}, NEW v \in Int,
         sliderOptions \in Options,
         ~s.scripted /\ Multiple(s.max, sliderOptions.step) => OnStep(s, v)
  PROVE  SliderInv(slide(s, i, v))
<1> DEFINE other == reading(s, 1 - i)
           new == IF isRange /\ (IF i = 0 THEN v > other ELSE v < other)
                  THEN other ELSE v
           t == [s EXCEPT !.stored[i] = new, !.text[i] = new]
<1>1. slide(s, i, v) = IF new = reading(s, i) THEN s ELSE t
  BY DEF slide
<1>2. s \in SliderState /\ s.max \in Nat /\ 1 - i \in {0, 1}
  BY SliderAssumption DEF SliderInv, SliderState
<1>3. other \in 0..s.max
  BY <1>2, ReadingInRange
<1>4. new \in Int
  BY <1>2, <1>3
<1>5. isRange => IF i = 0 THEN new <= other ELSE new >= other
  BY <1>2, <1>3
<1>6. ~s.scripted /\ Multiple(s.max, sliderOptions.step) => OnStep(s, new)
  <2>1. SUFFICES ASSUME ~s.scripted, Multiple(s.max, sliderOptions.step)
                 PROVE  OnStep(s, other)
    OBVIOUS
  <2>2. OnStep(s, s.stored[1 - i])
    BY <1>2, <2>1 DEF SliderInv
  <2>3. other = s.stored[1 - i]
    BY <1>2, <2>2, ReadingInRange DEF OnStep
  <2> QED
    BY <2>2, <2>3
<1> HIDE DEF new
<1>7. /\ t \in SliderState /\ t.max = s.max /\ t.scripted = s.scripted
      /\ t.stored = [s.stored EXCEPT ![i] = new]
      /\ t.text = [s.text EXCEPT ![i] = new]
  BY <1>2, <1>4 DEF SliderState
<1>8. /\ t.stored[i] = new /\ t.stored[1 - i] = s.stored[1 - i]
      /\ t.text[i] = new /\ t.text[1 - i] = s.text[1 - i]
  BY <1>2, <1>7 DEF SliderState
<1> HIDE DEF t
<1>9. reading(t, 1 - i) = other
  BY <1>7, <1>8 DEF reading
<1>10. reading(t, i) = IF new < 0 THEN 0 ELSE IF new > s.max THEN s.max ELSE new
  BY <1>7, <1>8 DEF reading
<1>11. isRange => reading(t, 0) <= reading(t, 1)
  <2> HIDE DEF other
  <2>1. CASE i = 0
    BY <1>2, <1>3, <1>4, <1>5, <1>9, <1>10, <2>1
  <2>2. CASE i = 1
    BY <1>2, <1>3, <1>4, <1>5, <1>9, <1>10, <2>2
  <2> QED
    BY <2>1, <2>2
<1>12. ASSUME ~t.scripted, Multiple(t.max, sliderOptions.step), NEW j \in {0,
              1}
       PROVE  t.text[j] = t.stored[j] /\ OnStep(t, t.stored[j])
  <2>1. CASE j = i
    BY <1>6, <1>7, <1>8, <1>12, <2>1 DEF OnStep
  <2>2. CASE j = 1 - i
    BY <1>2, <1>7, <1>8, <1>12, <2>2 DEF SliderInv, OnStep
  <2> QED
    BY <2>1, <2>2
<1>13. SliderInv(t)
  BY <1>7, <1>11, <1>12 DEF SliderInv
<1> QED
  BY <1>1, <1>13

\* What is set besides values.
LEMMA AsideKeeps ==
  ASSUME NEW s, SliderInv(s), NEW n \in {0, 1, -1}, NEW b \in BOOLEAN
  PROVE  /\ SliderInv([s EXCEPT !.handleIndex = n])
         /\ SliderInv([s EXCEPT !.keySliding = b])
<1> DEFINE t == [s EXCEPT !.handleIndex = n]
           u == [s EXCEPT !.keySliding = b]
<1>1. /\ t \in SliderState /\ t.max = s.max /\ t.stored = s.stored
      /\ t.text = s.text /\ t.scripted = s.scripted
      /\ u \in SliderState /\ u.max = s.max /\ u.stored = s.stored
      /\ u.text = s.text /\ u.scripted = s.scripted
  BY DEF SliderInv, SliderState
<1> HIDE DEF t, u
<1>2. SliderInv(t) /\ SliderInv(u)
  BY <1>1 DEF SliderInv, reading, OnStep
<1> QED
  BY <1>2 DEF t, u

(* The values the keys go to are on a step, as far as the handle is.       *)
LEMMA KeyTargetsOnStep ==
  ASSUME NEW s, SliderInv(s), sliderOptions \in Options, NEW i \in {0, 1},
         s = slider, NEW v \in keyTargets(i)
  PROVE  /\ v \in Int
         /\ ~s.scripted /\ Multiple(s.max, sliderOptions.step) => OnStep(s, v)
<1> DEFINE d == sliderOptions.step
           r == reading(s, i)
<1>1. d \in Nat \ {0}
  BY SliderAssumption DEF Options
<1>2. s.max \in Nat /\ r \in 0..s.max
  BY SliderAssumption, ReadingInRange DEF SliderInv, SliderState
<1>3. \/ v = 0 \/ v = s.max
      \/ v = r + d /\ r # s.max
      \/ v = r - d /\ r # 0
  BY <1>1, <1>2 DEF keyTargets
<1> HIDE DEF d, r
<1>4. v \in Int
  BY <1>1, <1>2, <1>3
<1>5. ASSUME ~s.scripted, Multiple(s.max, d)
      PROVE  v \in 0..s.max /\ Multiple(v, d)
  <2>1. OnStep(s, s.stored[i])
    BY <1>5 DEF SliderInv, d
  <2>2. r = s.stored[i]
    BY <2>1, ReadingInRange DEF SliderInv, OnStep, r
  <2>3. PICK k \in Nat : r = d * k
    BY <2>1, <2>2 DEF OnStep, Multiple, d
  <2>4. PICK n \in Nat : s.max = d * n
    BY <1>5 DEF Multiple
  <2>5. CASE v = 0
    <3>1. 0 = d * 0
      BY <1>1
    <3> QED
      BY <1>2, <2>5, <3>1 DEF Multiple
  <2>6. CASE v = s.max
    BY <1>2, <1>5, <2>6
  <2>7. CASE v = r + d /\ r # s.max
    <3>1. r < s.max
      BY <1>2, <2>7
    <3>2. r + d <= s.max
      BY <1>1, <2>3, <2>4, <3>1, NextMultiple
    <3>3. r + d = d * (k + 1) /\ k + 1 \in Nat
      BY <1>1, <2>3
    <3>4. Multiple(v, d)
      BY <2>7, <3>3 DEF Multiple
    <3>5. r + d \in Nat /\ s.max \in Nat
      BY <1>1, <1>2
    <3>6. v \in 0..s.max
      BY <2>7, <3>2, <3>5
    <3> QED
      BY <3>4, <3>6
  <2>8. CASE v = r - d /\ r # 0
    <3>1. k # 0
      BY <1>1, <2>3, <2>8
    <3>2. r - d = d * (k - 1) /\ k - 1 \in Nat
      BY <1>1, <2>3, <3>1
    <3>3. r - d >= 0
      BY <1>1, <3>2
    <3> QED
      BY <1>1, <1>2, <2>8, <3>2, <3>3 DEF Multiple
  <2> QED
    BY <1>3, <2>5, <2>6, <2>7, <2>8
<1> QED
  BY <1>4, <1>5 DEF OnStep, d

(* A slider starts with its handles at 0, for every option considered.     *)
LEMMA SliderStart == SliderInit => sliderOptions \in Options /\ SliderInv(slider)
<1>1. SUFFICES ASSUME SliderInit
               PROVE  sliderOptions \in Options /\ SliderInv(slider)
  OBVIOUS
<1> DEFINE s == slider
<1>2. /\ sliderOptions \in Options /\ s \in SliderState /\ s.max = SliderMax
      /\ s.stored = [i \in {0, 1} |-> 0] /\ s.text = [i \in {0, 1} |-> 0]
  BY <1>1, SliderAssumption DEF SliderInit, Options, SliderState
<1>3. \A i \in {0, 1} : s.stored[i] = 0 /\ s.text[i] = 0
  BY <1>2
<1>4. s.max \in Nat /\ sliderOptions.step \in Nat
  BY <1>2, SliderAssumption DEF Options
<1> HIDE DEF s
<1>5. \A i \in {0, 1} : reading(s, i) = 0
  BY <1>3, <1>4 DEF reading
<1>6. OnStep(s, 0)
  <2>1. 0 = sliderOptions.step * 0
    BY <1>4
  <2> QED
    BY <1>4, <2>1 DEF OnStep, Multiple
<1>7. SliderInv(s)
  BY <1>2, <1>3, <1>5, <1>6 DEF SliderInv
<1> QED
  BY <1>2, <1>7 DEF s

(* A script that sets an option gives up what is promised.                 *)
LEMMA ScriptKeeps ==
  ASSUME NEW s, SliderInv(s), ~isRange, NEW v \in 0..SliderMax
  PROVE  /\ SliderInv([s EXCEPT !.stored[0] = v, !.scripted = TRUE])
         /\ SliderInv([s EXCEPT !.max = v, !.scripted = TRUE])
<1> DEFINE t == [s EXCEPT !.stored[0] = v, !.scripted = TRUE]
           u == [s EXCEPT !.max = v, !.scripted = TRUE]
           w == [s.stored EXCEPT ![0] = v]
<1>0. s \in SliderState /\ s.stored \in [{0, 1} -> Int] /\ v \in Int
  BY SliderAssumption DEF SliderInv, SliderState
<1>a. w \in [{0, 1} -> Int] /\ t = [s EXCEPT !.stored = w, !.scripted = TRUE]
  BY <1>0
<1> HIDE DEF w, t
<1>b. t \in SliderState /\ t.scripted = TRUE
  BY <1>0, <1>a DEF SliderState
<1>c. u \in SliderState /\ u.scripted = TRUE
  BY <1>0 DEF SliderState
<1>1. /\ t \in SliderState /\ t.scripted = TRUE /\ u \in SliderState
      /\ u.scripted = TRUE
  BY <1>b, <1>c
<1> HIDE DEF t, u
<1>2. SliderInv(t) /\ SliderInv(u)
  BY <1>1 DEF SliderInv
<1> QED
  BY <1>2 DEF t, u

(* Every variable has its type, the handles of a range never cross, and as *)
(* long as no script has set an option and the range is a multiple of the  *)
(* step, each text shows what its handle has stored, a value on a step     *)
(* (jquery-ui-1.7.2.custom.js 4902-5171).                                  *)
THEOREM HandlesFollowed ==
  SliderInit /\ [][SliderNext]_sliderVars => [](SliderTypeOK /\ SliderFollowed)
<1> DEFINE Inv == sliderOptions \in Options /\ SliderInv(slider)
<1>1. ASSUME Inv, SliderNext PROVE Inv'
  <2>0. sliderOptions' = sliderOptions /\ sliderOptions \in Options
    BY <1>1 DEF SliderNext
  <2>1. /\ slider \in SliderState /\ slider.max \in Nat
        /\ slider.handleIndex \in {0, 1, -1}
    BY <1>1, SliderAssumption DEF SliderInv, SliderState
  <2>2. ASSUME NEW p \in 0..SliderMax, p <= slider.max
        PROVE  /\ normValue(p) \in Int
               /\ ~slider.scripted /\ Multiple(slider.max, sliderOptions.step)
                    => OnStep(slider, normValue(p))
    <3>1. p \in 0..slider.max /\ p \in Nat
      BY <2>1, <2>2, SliderAssumption
    <3>2. normValue(p) \in Int
      BY <2>0, <3>1, NormValueInt
    <3>3. ASSUME Multiple(slider.max, sliderOptions.step)
          PROVE  OnStep(slider, normValue(p))
      BY <2>0, <2>1, <3>1, <3>3, NormValueOnStep DEF OnStep
    <3> QED
      BY <3>2, <3>3
  <2>3. ASSUME NEW p \in 0..SliderMax, Capture(p) PROVE SliderInv(slider')
    <3>1. p <= slider.max
      BY <2>3 DEF Capture
    <3>2. PICK i \in {0, 1} : \E s \in slides(slider, i, normValue(p)) :
            slider' = [s EXCEPT !.handleIndex = i]
      BY <2>3 DEF Capture
    <3>3. PICK s : /\ s = slide(slider, i, normValue(p)) \/ s = slider
                   /\ slider' = [s EXCEPT !.handleIndex = i]
      BY <3>2 DEF slides
    <3>4. SliderInv(s)
      BY <1>1, <2>0, <2>2, <3>1, <3>3, SlideKeeps
    <3> QED
      BY <3>3, <3>4, AsideKeeps
  <2>4. ASSUME NEW p \in 0..SliderMax, SliderDrag(p) PROVE SliderInv(slider')
    <3>1. /\ p <= slider.max /\ slider.handleIndex \in {0, 1}
          /\ \/ slider' = slide(slider, slider.handleIndex, normValue(p))
             \/ slider' = slider
      BY <2>1, <2>4 DEF SliderDrag, slides
    <3> QED
      BY <1>1, <2>0, <2>2, <3>1, SlideKeeps
  <2>5. ASSUME NEW i \in {0, 1}, KeyDown(i) PROVE SliderInv(slider')
    <3>1. PICK v \in keyTargets(i) : \E s \in slides(slider, i, v) :
            slider' = [s EXCEPT !.keySliding = TRUE]
      BY <2>5 DEF KeyDown
    <3>2. /\ v \in Int
          /\ ~slider.scripted /\ Multiple(slider.max, sliderOptions.step)
               => OnStep(slider, v)
      BY <1>1, <2>0, KeyTargetsOnStep
    <3>3. PICK s : /\ s = slide(slider, i, v) \/ s = slider
                   /\ slider' = [s EXCEPT !.keySliding = TRUE]
      BY <3>1 DEF slides
    <3>4. SliderInv(s)
      BY <1>1, <2>0, <3>2, <3>3, SlideKeeps
    <3> QED
      BY <3>3, <3>4, AsideKeeps
  <2>6. ASSUME SliderStop \/ KeyUp PROVE SliderInv(slider')
    <3>1. \/ slider' = [slider EXCEPT !.handleIndex = -1]
          \/ slider' = [slider EXCEPT !.keySliding = FALSE]
      BY <2>6 DEF SliderStop, KeyUp
    <3>2. PICK n \in {0, 1, -1}, b \in BOOLEAN : n = -1 /\ b = FALSE
      OBVIOUS
    <3>3. /\ SliderInv([slider EXCEPT !.handleIndex = n])
          /\ SliderInv([slider EXCEPT !.keySliding = b])
      BY <1>1, AsideKeeps
    <3>4. SliderInv([slider EXCEPT !.handleIndex = -1])
      BY <3>2, <3>3
    <3>5. SliderInv([slider EXCEPT !.keySliding = FALSE])
      <4>1. b = FALSE
        BY <3>2
      <4> QED
        BY <3>3, <4>1, Zenon
    <3> QED
      BY <3>1, <3>4, <3>5, Zenon
  <2>7. ASSUME SetOption PROVE SliderInv(slider')
    <3>1. PICK v \in 0..SliderMax :
            slider' \in {[slider EXCEPT !.stored[0] = v, !.scripted = TRUE],
                        [slider EXCEPT !.max = v, !.scripted = TRUE]}
      BY <2>7 DEF SetOption
    <3>2. /\ SliderInv([slider EXCEPT !.stored[0] = v, !.scripted = TRUE])
          /\ SliderInv([slider EXCEPT !.max = v, !.scripted = TRUE])
      BY <1>1, <2>7, ScriptKeeps DEF SetOption
    <3>3. PICK t, u : /\ t = [slider EXCEPT !.stored[0] = v, !.scripted = TRUE]
                      /\ u = [slider EXCEPT !.max = v, !.scripted = TRUE]
      BY Zenon
    <3>4. slider' \in {t, u}
      BY <3>1, <3>3, Zenon
    <3>5. SliderInv(t) /\ SliderInv(u)
      BY <3>2, <3>3, Zenon
    <3> QED
      BY <3>4, <3>5
  <2>8. SliderInv(slider')
    BY <1>1, <2>3, <2>4, <2>5, <2>6, <2>7 DEF SliderNext
  <2> QED
    BY <2>0, <2>8 DEF SliderInv, isRange, OnStep
<1>2. ASSUME Inv, UNCHANGED sliderVars PROVE Inv'
  BY <1>2 DEF sliderVars, SliderInv, isRange, OnStep
<1>3. ASSUME Inv PROVE SliderFollowed
  <2>3. slider.max \in Nat /\ sliderOptions.step \in Nat \ {0}
    <3>1. slider \in SliderState /\ sliderOptions \in Options
      BY <1>3 DEF SliderInv
    <3>2. slider.max \in 0..SliderMax /\ sliderOptions.step \in StepSize
      BY <3>1 DEF SliderState, Options
    <3>3. slider.max \in Nat
      <4>1. \A x \in 0..SliderMax : x \in Nat
        BY SliderAssumption
      <4> QED
        BY <3>2, <4>1
    <3>4. sliderOptions.step \in Nat \ {0}
      BY <3>2, SliderAssumption
    <3> QED
      BY <3>3, <3>4
  <2>1. SUFFICES ASSUME ~slider.scripted,
                        slider.max % sliderOptions.step = 0,
                        NEW i \in 0..(sliderOptions.handles - 1)
                 PROVE  slider.text[i] = reading(slider, i)
    BY <1>3 DEF SliderFollowed, SliderInv
  <2>2. i \in {0, 1}
    BY <1>3, <2>1 DEF Options
  <2>4. Multiple(slider.max, sliderOptions.step)
    BY <2>1, <2>3, Remainder
  <2>5. slider.text[i] = slider.stored[i] /\ OnStep(slider, slider.stored[i])
    BY <1>3, <2>1, <2>2, <2>4 DEF SliderInv
  <2> QED
    BY <1>3, <2>2, <2>5, ReadingInRange DEF OnStep, SliderInv
<1>4. Inv => SliderTypeOK
  BY DEF SliderInv, SliderState, Options, SliderTypeOK
<1> QED
  BY <1>1, <1>2, <1>3, <1>4, SliderStart, PTL

----------------------------------------------------------------------------
(* The tabs.                                                               *)

TabsState ==
  [order : Seq(Tab), fresh : SUBSET Tab, selected : Tab \cup {NoTab},
   marked : SUBSET Tab, visible : SUBSET Tab, disabled : SUBSET Tab,
   greyed : SUBSET Tab, processing : SUBSET Tab, cached : SUBSET Tab,
   loading : Tab \cup {NoTab}, queue : Seq(Queued), disturbed : BOOLEAN]

(* Unless the widget was disturbed: at most one tab is drawn as selected   *)
(* and its panel visible.  While nothing loads the queue is empty; while a *)
(* remote tab loads, the queue holds what will show it and hide the other. *)
InStep(s) ==
  s.disturbed \/
    /\ s.visible = s.marked /\ s.visible \subseteq Present(s)
    /\ s.marked = {} \/ \E x \in Tab : s.marked = {x}
    /\ IF s.loading = NoTab
       THEN s.queue = <<>> /\ (s.selected # NoTab => s.marked = {s.selected})
       ELSE /\ s.loading \in Present(s)
            /\ s.selected \in {s.loading, NoTab}
            /\ \/ s.queue = <<showFn(s.loading)>> /\ s.visible \subseteq {s.loading}
               \/ s.queue = <<hideFn(s.visible), showFn(s.loading)>>

(* Min takes an element of a set of numbers that is not empty.             *)
LEMMA MinIs ==
  ASSUME NEW P \in SUBSET Nat, P # {}
  PROVE  Min(P) \in P
  BY Least DEF Min

(* The lists of the tabs and of the functions queued.                      *)
LEMMA PresentOrder ==
  ASSUME NEW s \in TabsState
  PROVE  /\ s.order \in Seq(Tab) /\ s.queue \in Seq(Queued)
         /\ Present(s) = {s.order[i] : i \in 1..Len(s.order)}
         /\ Present(s) \subseteq Tab
<1>1. s.order \in Seq(Tab) /\ s.queue \in Seq(Queued)
  BY DEF TabsState
<1>2. DOMAIN s.order = 1..Len(s.order)
  BY <1>1
<1> QED
  BY <1>1, <1>2 DEF Present, ToSet

(* A dequeue changes nothing but the queue and what is drawn.              *)
LEMMA DequeueFields ==
  ASSUME NEW s \in TabsState
  PROVE  LET t == dequeueTabs(s)
         IN /\ t \in TabsState
            /\ t.order = s.order /\ t.fresh = s.fresh
            /\ t.selected = s.selected
            /\ t.loading = s.loading /\ t.disturbed = s.disturbed
<1> DEFINE shows == {i \in DOMAIN s.queue : ~s.queue[i].hide}
           last == IF shows = {} THEN Len(s.queue) ELSE Min(shows)
           ran == SubSeq(s.queue, 1, last)
           hidden == UNION {f.panels : f \in {g \in ToSet(ran) : g.hide}}
           seen == UNION {f.panels : f \in {g \in ToSet(ran) : ~g.hide}}
           q == SubSeq(s.queue, last + 1, Len(s.queue))
           v == (s.visible \ hidden) \cup seen
           m == (IF \E f \in ToSet(ran) : f.hide THEN {} ELSE s.marked) \cup seen
           t == dequeueTabs(s)
<1>1. /\ s.queue \in Seq(Queued) /\ s.visible \subseteq Tab
      /\ s.marked \subseteq Tab
  BY DEF TabsState
<1>2. last \in 0..Len(s.queue)
  <2>1. shows \subseteq 1..Len(s.queue)
    BY <1>1
  <2>2. CASE shows = {}
    BY <1>1, <2>2
  <2>3. CASE shows # {}
    <3>1. Min(shows) \in shows
      <4>1. shows \in SUBSET Nat
        BY <2>1, <1>1
      <4> HIDE DEF shows
      <4> QED
        BY <2>3, <4>1, MinIs
    <3> QED
      BY <2>1, <2>3, <3>1
  <2> QED
    BY <2>2, <2>3
<1> HIDE DEF last
<1>3. Len(s.queue) \in Nat
  BY <1>1
<1>4. \A i \in 1..last : s.queue[i] \in Queued
  BY <1>1, <1>2, <1>3
<1>5. /\ ran \in Seq(Queued) /\ q \in Seq(Queued)
  <2>1. \A i \in (last + 1)..Len(s.queue) : s.queue[i] \in Queued
    BY <1>1, <1>2, <1>3
  <2> QED
    BY <1>2, <1>3, <1>4, <2>1, SubSeqProperties
<1> HIDE DEF ran, q
<1>6. ToSet(ran) \subseteq Queued
  BY <1>5 DEF ToSet
<1>7. hidden \subseteq Tab /\ seen \subseteq Tab
  BY <1>6 DEF Queued
<1> HIDE DEF hidden, seen
<1>8. v \subseteq Tab /\ m \subseteq Tab
  BY <1>1, <1>7
<1>9. t = [s EXCEPT !.queue = q, !.visible = v, !.marked = m]
  BY DEF dequeueTabs, last, ran, hidden, seen, q
<1> HIDE DEF v, m, t
<1>10. /\ t \in TabsState
       /\ t.order = s.order /\ t.fresh = s.fresh /\ t.selected = s.selected
       /\ t.loading = s.loading /\ t.disturbed = s.disturbed
  BY <1>5, <1>8, <1>9 DEF TabsState
<1> QED
  BY <1>10 DEF t

(* The panels that the functions of a queue hide, and those they show.     *)
Hidden(q) == UNION {f.panels : f \in {g \in ToSet(q) : g.hide}}

Shown(q) == UNION {f.panels : f \in {g \in ToSet(q) : ~g.hide}}

(* A queue whose last function alone shows runs to its end.                *)
LEMMA DequeueToEnd ==
  ASSUME NEW s \in TabsState, s.queue # <<>>,
         \A i \in 1..(Len(s.queue) - 1) : s.queue[i].hide
  PROVE  LET t == dequeueTabs(s)
         IN /\ t.queue = <<>>
            /\ t.visible = (s.visible \ Hidden(s.queue)) \cup Shown(s.queue)
            /\ t.marked = (IF \E f \in ToSet(s.queue) : f.hide THEN {} ELSE s.marked)
                            \cup Shown(s.queue)
<1> DEFINE n == Len(s.queue)
           shows == {i \in DOMAIN s.queue : ~s.queue[i].hide}
           last == IF shows = {} THEN Len(s.queue) ELSE Min(shows)
           ran == SubSeq(s.queue, 1, last)
           q == SubSeq(s.queue, last + 1, Len(s.queue))
           t == dequeueTabs(s)
<1>1. s.queue \in Seq(Queued)
  BY DEF TabsState
<1>2. n \in Nat /\ DOMAIN s.queue = 1..n
  BY <1>1
<1>3. last = n
  <2>1. shows \subseteq {n}
    BY <1>2
  <2>2. CASE shows # {}
    <3>1. shows \in SUBSET Nat
      BY <1>2
    <3>2. Min(shows) \in shows
      <4> HIDE DEF shows
      <4> QED
        BY <2>2, <3>1, MinIs
    <3> QED
      BY <2>1, <2>2, <3>2
  <2> QED
    BY <2>2
<1> HIDE DEF last
<1>4. ran = s.queue
  <2>1. /\ ran \in Seq(Queued) /\ Len(ran) = n
        /\ \A i \in 1..n : ran[i] = s.queue[i]
    BY <1>1, <1>2, <1>3
  <2> HIDE DEF ran
  <2> QED
    BY <1>1, <1>2, <2>1
<1>5. q = <<>>
  <2>1. n + 1 \in Int /\ n \in Int /\ n < n + 1
    BY <1>2
  <2> QED
    BY <1>3, <2>1, SubSeqEmpty
<1>6. t = [s EXCEPT !.queue = q,
                    !.visible = (@ \ Hidden(ran)) \cup Shown(ran),
                    !.marked = (IF \E f \in ToSet(ran) : f.hide THEN {} ELSE @)
                                 \cup Shown(ran)]
  BY DEF dequeueTabs, last, Hidden, Shown
<1> HIDE DEF ran, q, t
<1> DEFINE v == (s.visible \ Hidden(ran)) \cup Shown(ran)
           m == (IF \E f \in ToSet(ran) : f.hide THEN {} ELSE s.marked)
                  \cup Shown(ran)
<1>7. t = [s EXCEPT !.queue = q, !.visible = v, !.marked = m]
  BY <1>6
<1> HIDE DEF v, m
<1>8. t.queue = q /\ t.visible = v /\ t.marked = m
  BY <1>7 DEF TabsState
<1> QED
  BY <1>4, <1>5, <1>8 DEF v, m, t

(* Three queues: one that shows, ...                                       *)
LEMMA DequeueShow ==
  ASSUME NEW s \in TabsState, NEW x \in Tab, s.queue = <<showFn(x)>>
  PROVE  LET t == dequeueTabs(s)
         IN t.queue = <<>> /\ t.visible = s.visible \cup {x}
              /\ t.marked = s.marked \cup {x}
<1> DEFINE f == showFn(x)
<1>1. f.hide = FALSE /\ f.panels = {x}
  BY DEF showFn
<1> HIDE DEF f
<1>2. /\ s.queue # <<>> /\ Len(s.queue) = 1 /\ DOMAIN s.queue = {1}
      /\ s.queue[1] = f
  BY DEF f
<1>3. ToSet(s.queue) = {f}
  BY <1>2 DEF ToSet
<1>4. Hidden(s.queue) = {} /\ Shown(s.queue) = {x}
  BY <1>1, <1>3 DEF Hidden, Shown
<1>5. ~\E g \in ToSet(s.queue) : g.hide
  BY <1>1, <1>3
<1>6. \A i \in 1..(Len(s.queue) - 1) : s.queue[i].hide
  BY <1>2
<1> QED
  BY <1>2, <1>4, <1>5, <1>6, DequeueToEnd

(* ... one that hides, ...                                                 *)
LEMMA DequeueHide ==
  ASSUME NEW s \in TabsState, NEW h \in SUBSET Tab, s.queue = <<hideFn(h)>>
  PROVE  LET t == dequeueTabs(s)
         IN t.queue = <<>> /\ t.visible = s.visible \ h /\ t.marked = {}
<1> DEFINE f == hideFn(h)
<1>1. f.hide = TRUE /\ f.panels = h
  BY DEF hideFn
<1> HIDE DEF f
<1>2. /\ s.queue # <<>> /\ Len(s.queue) = 1 /\ DOMAIN s.queue = {1}
      /\ s.queue[1] = f
  BY DEF f
<1>3. ToSet(s.queue) = {f}
  BY <1>2 DEF ToSet
<1>4. Hidden(s.queue) = h /\ Shown(s.queue) = {}
  BY <1>1, <1>3 DEF Hidden, Shown
<1>5. \E g \in ToSet(s.queue) : g.hide
  BY <1>1, <1>3
<1>6. \A i \in 1..(Len(s.queue) - 1) : s.queue[i].hide
  BY <1>2
<1> QED
  BY <1>2, <1>4, <1>5, <1>6, DequeueToEnd

(* ... and one that hides and then shows.                                  *)
LEMMA DequeueHideShow ==
  ASSUME NEW s \in TabsState, NEW h \in SUBSET Tab, NEW x \in Tab,
         s.queue = <<hideFn(h), showFn(x)>>
  PROVE  LET t == dequeueTabs(s)
         IN t.queue = <<>> /\ t.visible = (s.visible \ h) \cup {x} /\ t.marked = {x}
<1> DEFINE f == hideFn(h)
           e == showFn(x)
<1>1. f.hide = TRUE /\ f.panels = h /\ e.hide = FALSE /\ e.panels = {x}
  BY DEF hideFn, showFn
<1> HIDE DEF f, e
<1>2. /\ s.queue # <<>> /\ Len(s.queue) = 2 /\ DOMAIN s.queue = {1, 2}
      /\ s.queue[1] = f /\ s.queue[2] = e
  BY DEF f, e
<1>3. ToSet(s.queue) = {f, e}
  BY <1>2 DEF ToSet
<1>4. Hidden(s.queue) = h /\ Shown(s.queue) = {x}
  BY <1>1, <1>3 DEF Hidden, Shown
<1>5. \E g \in ToSet(s.queue) : g.hide
  BY <1>1, <1>3
<1>6. \A i \in 1..(Len(s.queue) - 1) : s.queue[i].hide
  BY <1>1, <1>2
<1> QED
  BY <1>2, <1>4, <1>5, <1>6, DequeueToEnd

(* abort drops the request, and disturbs the widget when there was one.    *)
LEMMA AbortFields ==
  ASSUME NEW s \in TabsState
  PROVE  LET t == abortTabs(s)
         IN /\ t \in TabsState
            /\ t.order = s.order /\ t.fresh = s.fresh
            /\ t.selected = s.selected
            /\ t.marked = s.marked /\ t.visible = s.visible
            /\ t.queue = s.queue
            /\ t.loading = NoTab
            /\ t.disturbed = (s.disturbed \/ s.loading # NoTab)
<1> DEFINE t == abortTabs(s)
           d == s.disturbed \/ s.loading # NoTab
<1>1. s.disturbed \in BOOLEAN
  BY DEF TabsState
<1>2. d \in BOOLEAN
  BY <1>1
<1>3. t = [s EXCEPT !.loading = NoTab, !.processing = {}, !.disturbed = d]
  BY DEF abortTabs
<1> HIDE DEF d, t
<1>4. /\ t \in TabsState
      /\ t.order = s.order /\ t.fresh = s.fresh /\ t.selected = s.selected
      /\ t.marked = s.marked /\ t.visible = s.visible /\ t.queue = s.queue
      /\ t.loading = NoTab /\ t.disturbed = d
  BY <1>2, <1>3 DEF TabsState
<1> QED
  BY <1>4 DEF d, t

(* The queue is about to show x, and to hide the panel of another tab.     *)
Aiming(s, x) ==
  /\ s.visible = s.marked /\ s.visible \subseteq Present(s)
  /\ s.marked = {} \/ \E y \in Tab : s.marked = {y}
  /\ s.selected \in {x, NoTab}
  /\ \/ s.queue = <<showFn(x)>> /\ s.visible \subseteq {x}
     \/ s.queue = <<hideFn(s.visible), showFn(x)>>

(* What is queued for x, once run, leaves x alone in view.                 *)
LEMMA DequeueAim ==
  ASSUME NEW s \in TabsState, NEW x \in Tab, x \in Present(s), Aiming(s, x),
         s.loading = NoTab
  PROVE  InStep(dequeueTabs(s))
<1> DEFINE t == dequeueTabs(s)
<1>1. /\ t \in TabsState /\ t.order = s.order /\ t.selected = s.selected
      /\ t.loading = NoTab
  BY DequeueFields
<1>2. t.queue = <<>> /\ t.visible = {x} /\ t.marked = {x}
  <2>1. CASE s.queue = <<showFn(x)>> /\ s.visible \subseteq {x}
    <3>1. s.visible \cup {x} = {x} /\ s.marked \cup {x} = {x}
      BY <2>1 DEF Aiming
    <3> QED
      BY <2>1, <3>1, DequeueShow
  <2>2. CASE s.queue = <<hideFn(s.visible), showFn(x)>>
    <3>1. s.visible \in SUBSET Tab /\ (s.visible \ s.visible) \cup {x} = {x}
      BY DEF TabsState
    <3> QED
      BY <2>2, <3>1, DequeueHideShow
  <2> QED
    BY <2>1, <2>2 DEF Aiming
<1> HIDE DEF t
<1>3. Present(t) = Present(s)
  BY <1>1 DEF Present
<1> QED
  BY <1>1, <1>2, <1>3 DEF InStep, Aiming, t

(* load runs the queue at once, or leaves it to the answer.                *)
LEMMA LoadKeeps ==
  ASSUME NEW s \in TabsState, NEW x \in Tab, x \in Present(s),
         ~s.disturbed /\ s.loading = NoTab => Aiming(s, x)
  PROVE  LET t == loadTab(s, x)
         IN t \in TabsState /\ InStep(t) /\ t.order = s.order
<1> DEFINE a == abortTabs(s)
           b == [a EXCEPT !.processing = {x}, !.loading = x]
<1>1. /\ a \in TabsState
      /\ a.order = s.order /\ a.selected = s.selected
      /\ a.marked = s.marked /\ a.visible = s.visible /\ a.queue = s.queue
      /\ a.loading = NoTab /\ a.disturbed = (s.disturbed \/ s.loading # NoTab)
  BY AbortFields
<1>2. \/ loadTab(s, x) = dequeueTabs(a)
      \/ loadTab(s, x) = b
  BY DEF loadTab
<1> HIDE DEF a
<1>3. Present(a) = Present(s)
  BY <1>1 DEF Present
<1>4. ~a.disturbed => Aiming(a, x)
  BY <1>1, <1>3 DEF Aiming
<1>5. /\ dequeueTabs(a) \in TabsState /\ InStep(dequeueTabs(a))
      /\ dequeueTabs(a).order = s.order
  <2>1. /\ dequeueTabs(a) \in TabsState /\ dequeueTabs(a).order = s.order
        /\ dequeueTabs(a).disturbed = a.disturbed
    BY <1>1, DequeueFields
  <2>2. CASE a.disturbed
    BY <2>1, <2>2 DEF InStep
  <2>3. CASE ~a.disturbed
    BY <1>1, <1>3, <1>4, <2>1, <2>3, DequeueAim
  <2> QED
    BY <2>2, <2>3, <2>1
<1>6. b \in TabsState /\ InStep(b) /\ b.order = s.order
  <2>1. /\ b \in TabsState
        /\ b.order = s.order /\ b.selected = s.selected
        /\ b.marked = s.marked /\ b.visible = s.visible /\ b.queue = s.queue
        /\ b.loading = x /\ b.disturbed = a.disturbed
    BY <1>1 DEF TabsState
  <2> HIDE DEF b
  <2>2. Present(b) = Present(s)
    BY <2>1 DEF Present
  <2>3. x # NoTab
    BY NoTabAssumption
  <2>4. ~a.disturbed => Aiming(s, x)
    BY <1>1
  <2>5. InStep(b)
    BY <2>1, <2>2, <2>3, <2>4 DEF InStep, Aiming
  <2> QED
    BY <2>1, <2>5
<1> QED
  BY <1>2, <1>5, <1>6

(* The functions a click queues ...                                        *)
LEMMA HideType ==
  ASSUME NEW h \in SUBSET Tab
  PROVE  hideFn(h) \in Queued
  BY DEF hideFn, Queued

(* ... have the type of the queue.                                         *)
LEMMA ShowType ==
  ASSUME NEW x \in Tab
  PROVE  showFn(x) \in Queued
  BY DEF showFn, Queued

(* The queue a click leaves when it was empty before.                      *)
LEMMA ShortQueues ==
  ASSUME NEW f \in Queued, NEW g \in Queued
  PROVE  /\ Append(<<>>, f) = <<f>>
         /\ <<>> \o <<>> \o <<g>> = <<g>>
         /\ <<>> \o <<f>> \o <<g>> = <<f, g>>
<1>1. Append(<<>>, f) = <<f>>
  OBVIOUS
<1>2. <<>> \o <<>> \o <<g>> = <<g>>
  <2>1. <<>> \o <<>> = <<>>
    OBVIOUS
  <2> QED
    BY <2>1, ConcatEmptySeq
<1>3. <<>> \o <<f>> \o <<g>> = <<f, g>>
  <2>1. <<f>> \in Seq(Queued)
    OBVIOUS
  <2>2. <<>> \o <<f>> = <<f>>
    BY <2>1, ConcatEmptySeq
  <2>3. <<f>> \o <<g>> = Append(<<f>>, g)
    BY <2>1, AppendIsConcat
  <2>4. Append(<<f>>, g) = <<f, g>>
    <3> DEFINE a == Append(<<f>>, g)
               b == <<f, g>>
    <3>1. a \in Seq(Queued) /\ Len(a) = 2 /\ a[1] = f /\ a[2] = g
      OBVIOUS
    <3>2. b \in Seq(Queued) /\ Len(b) = 2 /\ b[1] = f /\ b[2] = g
      OBVIOUS
    <3> HIDE DEF a, b
    <3>3. a = b
      BY <3>1, <3>2
    <3> QED
      BY <3>3 DEF a, b
  <2> QED
    BY <2>2, <2>3, <2>4
<1> QED
  BY <1>1, <1>2, <1>3

(* A click on a tab, refused or not.                                       *)
LEMMA ClickTabKeeps ==
  ASSUME NEW s \in TabsState, InStep(s), NEW x \in Tab, x \in Present(s)
  PROVE  LET t == clickTab(s, x)
         IN /\ t \in TabsState /\ InStep(t) /\ t.order = s.order
<1> DEFINE hide == s.visible \cap Present(s)
           c == abortTabs(s)
           a == [c EXCEPT !.selected = x]
           h == [a EXCEPT !.selected = NoTab, !.queue = Append(@, hideFn(hide))]
           l == [a EXCEPT !.queue =
                   @ \o (IF hide = {} THEN <<>> ELSE <<hideFn(hide)>>)
                     \o <<showFn(x)>>]
<1>1. \/ clickTab(s, x) = s
      \/ x \in s.marked /\ clickTab(s, x) = dequeueTabs(h)
      \/ x \notin s.marked /\ clickTab(s, x) = loadTab(l, x)
  BY DEF clickTab
<1>2. /\ c \in TabsState
      /\ c.order = s.order
      /\ c.marked = s.marked /\ c.visible = s.visible /\ c.queue = s.queue
      /\ c.loading = NoTab /\ c.disturbed = (s.disturbed \/ s.loading # NoTab)
  BY AbortFields
<1> HIDE DEF c
<1>3. /\ a \in TabsState
      /\ a.order = s.order /\ a.selected = x
      /\ a.marked = s.marked /\ a.visible = s.visible /\ a.queue = s.queue
      /\ a.loading = NoTab /\ a.disturbed = (s.disturbed \/ s.loading # NoTab)
  BY <1>2 DEF TabsState
<1> HIDE DEF a
<1>4. s.queue \in Seq(Queued) /\ hide \in SUBSET Tab
  BY DEF TabsState
<1>5. hideFn(hide) \in Queued /\ showFn(x) \in Queued
  BY <1>4, HideType, ShowType
<1>6. ASSUME ~a.disturbed
      PROVE  /\ s.visible = s.marked /\ s.visible \subseteq Present(s)
             /\ s.marked = {} \/ \E y \in Tab : s.marked = {y}
             /\ s.queue = <<>> /\ hide = s.visible
  BY <1>3, <1>6 DEF InStep
<1> HIDE DEF hide
<1>7. ASSUME x \in s.marked
      PROVE  /\ dequeueTabs(h) \in TabsState /\ InStep(dequeueTabs(h))
             /\ dequeueTabs(h).order = s.order
  <2> DEFINE q == Append(s.queue, hideFn(hide))
             t == dequeueTabs(h)
  <2>1. q \in Seq(Queued) /\ h = [a EXCEPT !.selected = NoTab, !.queue = q]
    BY <1>3, <1>4, <1>5
  <2> HIDE DEF q, h
  <2>2. /\ h \in TabsState
        /\ h.order = s.order /\ h.selected = NoTab
        /\ h.marked = s.marked /\ h.visible = s.visible /\ h.queue = q
        /\ h.loading = NoTab /\ h.disturbed = a.disturbed
    BY <1>3, <2>1 DEF TabsState
  <2>3. /\ t \in TabsState /\ t.order = s.order /\ t.selected = NoTab
        /\ t.loading = NoTab /\ t.disturbed = a.disturbed
    BY <2>2, DequeueFields
  <2>4. ASSUME ~a.disturbed
        PROVE  t.queue = <<>> /\ t.visible = {} /\ t.marked = {}
    <3>1. h.queue = <<hideFn(hide)>>
      BY <1>5, <1>6, <2>2, <2>4, ShortQueues DEF q
    <3>2. h.visible \ hide = {}
      BY <1>6, <2>2, <2>4
    <3> QED
      BY <1>4, <2>2, <3>1, <3>2, DequeueHide
  <2> HIDE DEF t
  <2>5. InStep(t)
    BY <2>3, <2>4 DEF InStep
  <2> QED
    BY <2>3, <2>5 DEF t
<1>8. /\ loadTab(l, x) \in TabsState /\ InStep(loadTab(l, x))
      /\ loadTab(l, x).order = s.order
  <2> DEFINE p == IF hide = {} THEN <<>> ELSE <<hideFn(hide)>>
             q == s.queue \o p \o <<showFn(x)>>
  <2>1. p \in Seq(Queued)
    BY <1>5
  <2>2. q \in Seq(Queued) /\ l = [a EXCEPT !.queue = q]
    <3> HIDE DEF p
    <3>1. <<showFn(x)>> \in Seq(Queued)
      BY <1>5
    <3>2. q \in Seq(Queued)
      BY <1>4, <2>1, <3>1, ConcatProperties
    <3> QED
      BY <1>3, <3>2 DEF p
  <2> HIDE DEF q, l
  <2>3. /\ l \in TabsState
        /\ l.order = s.order /\ l.selected = x
        /\ l.marked = s.marked /\ l.visible = s.visible /\ l.queue = q
        /\ l.loading = NoTab /\ l.disturbed = a.disturbed
    BY <1>3, <2>2 DEF TabsState
  <2>4. Present(l) = Present(s)
    BY <2>3 DEF Present
  <2>5. ASSUME ~a.disturbed PROVE Aiming(l, x)
    <3>1. \/ q = <<showFn(x)>> /\ hide = {}
          \/ q = <<hideFn(hide), showFn(x)>>
      <4>1. CASE hide = {}
        <5>1. q = <<>> \o <<>> \o <<showFn(x)>>
          BY <1>6, <2>5, <4>1 DEF q
        <5> QED
          BY <1>5, <4>1, <5>1, ShortQueues
      <4>2. CASE hide # {}
        <5>1. q = <<>> \o <<hideFn(hide)>> \o <<showFn(x)>>
          BY <1>6, <2>5, <4>2 DEF q
        <5> QED
          BY <1>5, <5>1, ShortQueues
      <4> QED
        BY <4>1, <4>2
    <3> QED
      BY <1>6, <2>3, <2>4, <2>5, <3>1 DEF Aiming
  <2> QED
    BY <2>3, <2>4, <2>5, LoadKeeps
<1> QED
  BY <1>1, <1>7, <1>8

(* _tabify after a change of the list takes the selected tab from the list.*)
LEMMA TabifyKeeps ==
  ASSUME NEW s \in TabsState,
         ~s.disturbed /\ s.loading = NoTab =>
           /\ s.visible = s.marked /\ s.visible \subseteq Present(s)
           /\ s.marked = {} \/ \E y \in Tab : s.marked = {y}
           /\ s.queue = <<>>
  PROVE  LET t == tabify(s)
         IN /\ t \in TabsState /\ InStep(t)
            /\ t.order = s.order /\ t.loading = s.loading
            /\ t.disturbed = (s.disturbed \/ s.loading # NoTab)
            /\ t.marked = s.marked /\ t.visible = s.visible
            /\ t.queue = s.queue
            /\ s.marked \cap Present(s) = {} => t.selected = NoTab
<1> DEFINE marks == {i \in DOMAIN s.order : s.order[i] \in s.marked}
           n == IF marks = {} THEN NoTab ELSE s.order[Min(marks)]
           g == s.disabled \ s.marked
           c == IF tabOptions.cache THEN s.cached ELSE {}
           d == s.disturbed \/ s.loading # NoTab
           t == tabify(s)
<1>1. /\ s.order \in Seq(Tab)
      /\ Present(s) = {s.order[i] : i \in 1..Len(s.order)}
      /\ s.disturbed \in BOOLEAN /\ s.disabled \subseteq Tab
      /\ s.cached \subseteq Tab
  BY PresentOrder DEF TabsState
<1>2. DOMAIN s.order = 1..Len(s.order) /\ Len(s.order) \in Nat
  BY <1>1
<1>3. \/ n = NoTab /\ s.marked \cap Present(s) = {}
      \/ n \in Tab \cap s.marked
  <2>1. CASE marks = {}
    BY <1>1, <1>2, <2>1
  <2>2. CASE marks # {}
    <3>1. marks \in SUBSET Nat
      BY <1>2
    <3>2. Min(marks) \in marks
      <4> HIDE DEF marks
      <4> QED
        BY <2>2, <3>1, MinIs
    <3>3. Min(marks) \in 1..Len(s.order) /\ s.order[Min(marks)] \in s.marked
      BY <1>2, <3>2
    <3>4. \A i \in 1..Len(s.order) : s.order[i] \in Tab
      BY <1>1
    <3>5. s.order[Min(marks)] \in Tab
      BY <3>3, <3>4, Zenon
    <3>6. n = s.order[Min(marks)]
      BY <2>2
    <3> HIDE DEF n
    <3> QED
      BY <3>3, <3>5, <3>6
  <2> QED
    BY <2>1, <2>2
<1>4. g \subseteq Tab /\ c \subseteq Tab /\ d \in BOOLEAN
  BY <1>1
<1>5. t = [s EXCEPT !.selected = n, !.greyed = g, !.cached = c, !.disturbed = d]
  BY DEF tabify
<1> HIDE DEF n, g, c, d, t
<1>6. /\ t \in TabsState /\ t.order = s.order /\ t.loading = s.loading
      /\ t.disturbed = d /\ t.selected = n
      /\ t.marked = s.marked /\ t.visible = s.visible /\ t.queue = s.queue
  BY <1>3, <1>4, <1>5 DEF TabsState
<1>7. Present(t) = Present(s)
  BY <1>6 DEF Present
<1>8. InStep(t)
  <2>1. CASE d
    BY <1>6, <2>1 DEF InStep
  <2>2. CASE ~d
    <3>1. ~s.disturbed /\ s.loading = NoTab
      BY <2>2 DEF d
    <3>2. t.selected # NoTab => t.marked = {t.selected}
      BY <1>3, <1>6, <3>1
    <3> QED
      BY <1>6, <1>7, <3>1, <3>2 DEF InStep
  <2> QED
    BY <2>1, <2>2
<1>9. s.marked \cap Present(s) = {} => n = NoTab
  <2>1. ASSUME n \in Tab \cap s.marked, s.marked \cap Present(s) = {}
        PROVE  n = NoTab
    <3>1. marks = {}
      BY <1>1, <1>2, <2>1
    <3> QED
      BY <3>1 DEF n
  <2> QED
    BY <1>3, <2>1
<1> QED
  BY <1>6, <1>8, <1>9 DEF d, t

(* A tab that is added opens when it is the first.                         *)
LEMMA AddTabKeeps ==
  ASSUME NEW x \in Tab, NEW k \in 1..(Len(tabs.order) + 1), AddTab(x, k),
         tabs \in TabsState, InStep(tabs)
  PROVE  tabs' \in TabsState /\ InStep(tabs')
<1> DEFINE o == InsertAt(tabs.order, k, x)
           f == tabs.fresh \ {x}
           s == [tabs EXCEPT !.fresh = @ \ {x}, !.order = InsertAt(@, k, x)]
           added == tabify(s)
           only == [added EXCEPT !.marked = {x}, !.visible = {x},
                                 !.queue = Append(@, showFn(x))]
<1>1. tabs' = IF tabs.order = <<>> THEN loadTab(only, x) ELSE added
  BY DEF AddTab
<1>2. tabs.order \in Seq(Tab) /\ f \subseteq Tab
  BY DEF TabsState
<1>3. /\ o \in Seq(Tab)
      /\ \E i \in 1..Len(o) : o[i] = x
      /\ \A j \in 1..Len(tabs.order) : \E i \in 1..Len(o) : o[i] = tabs.order[j]
  BY <1>2, InsertedAt
<1>4. s = [tabs EXCEPT !.fresh = f, !.order = o]
  OBVIOUS
<1> HIDE DEF o, f, s
<1>5. /\ s \in TabsState /\ s.order = o
      /\ s.selected = tabs.selected /\ s.loading = tabs.loading
      /\ s.disturbed = tabs.disturbed /\ s.marked = tabs.marked
      /\ s.visible = tabs.visible /\ s.queue = tabs.queue
  BY <1>2, <1>3, <1>4 DEF TabsState
<1>6. Present(tabs) \subseteq Present(s) /\ x \in Present(s)
  BY <1>3, <1>5, PresentOrder
<1>7. ~s.disturbed /\ s.loading = NoTab =>
        /\ s.visible = s.marked /\ s.visible \subseteq Present(tabs)
        /\ s.marked = {} \/ \E y \in Tab : s.marked = {y}
        /\ s.queue = <<>>
  BY <1>5 DEF InStep
<1>8. ~s.disturbed /\ s.loading = NoTab =>
        /\ s.visible = s.marked /\ s.visible \subseteq Present(s)
        /\ s.marked = {} \/ \E y \in Tab : s.marked = {y}
        /\ s.queue = <<>>
  BY <1>6, <1>7
<1>9. /\ added \in TabsState /\ InStep(added)
      /\ added.order = s.order /\ added.loading = s.loading
      /\ added.disturbed = (s.disturbed \/ s.loading # NoTab)
      /\ added.marked = s.marked /\ added.visible = s.visible
      /\ added.queue = s.queue
      /\ s.marked \cap Present(s) = {} => added.selected = NoTab
  BY <1>5, <1>8, TabifyKeeps
<1> HIDE DEF added
<1>10. ASSUME tabs.order = <<>>
       PROVE  loadTab(only, x) \in TabsState /\ InStep(loadTab(only, x))
  <2> DEFINE q == Append(added.queue, showFn(x))
  <2>1. /\ q \in Seq(Queued)
        /\ only = [added EXCEPT !.marked = {x}, !.visible = {x}, !.queue = q]
    <3>1. added.queue \in Seq(Queued) /\ showFn(x) \in Queued
      BY <1>9, ShowType DEF TabsState
    <3> QED
      BY <1>9, <3>1
  <2> HIDE DEF q, only
  <2>2. /\ only \in TabsState /\ only.order = added.order
        /\ only.loading = added.loading /\ only.disturbed = added.disturbed
        /\ only.selected = added.selected
        /\ only.marked = {x} /\ only.visible = {x} /\ only.queue = q
    BY <1>9, <2>1 DEF TabsState
  <2>3. Present(only) = Present(s)
    BY <1>9, <2>2 DEF Present
  <2>4. ASSUME ~only.disturbed, only.loading = NoTab PROVE Aiming(only, x)
    <3>1. ~s.disturbed /\ s.loading = NoTab
      BY <1>5, <1>9, <2>2, <2>4
    <3>2. Present(tabs) = {}
      <4>1. Len(tabs.order) = 0
        BY <1>10
      <4>2. 1..Len(tabs.order) = {}
        BY <4>1
      <4> QED
        BY <4>2, PresentOrder
    <3>3. s.marked = {} /\ s.queue = <<>>
      BY <1>7, <3>1, <3>2
    <3>4. only.selected = NoTab /\ q = <<showFn(x)>>
      BY <1>9, <2>2, <3>3, ShowType, ShortQueues DEF q
    <3> QED
      BY <1>6, <2>2, <2>3, <3>4 DEF Aiming
  <2> QED
    BY <1>6, <2>2, <2>3, <2>4, LoadKeeps
<1> QED
  BY <1>1, <1>9, <1>10

(* When the selected tab is removed a neighbour takes over.                *)
LEMMA RemoveTabKeeps ==
  ASSUME NEW k \in DOMAIN tabs.order, RemoveTab(k),
         tabs \in TabsState, InStep(tabs)
  PROVE  tabs' \in TabsState /\ InStep(tabs')
<1> DEFINE x == tabs.order[k]
           n == IF k < Len(tabs.order) THEN k + 1 ELSE k - 1
           s == IF x \in tabs.marked /\ Len(tabs.order) > 1
                THEN clickTab(tabs, tabs.order[n]) ELSE tabs
           r == [s EXCEPT !.order = RemoveAt(@, k),
                          !.disabled = @ \ {x}, !.processing = @ \ {x},
                          !.marked = @ \ {x}, !.visible = @ \ {x}]
<1>1. tabs' = tabify(r)
  BY DEF RemoveTab
<1>2. /\ tabs.order \in Seq(Tab) /\ k \in 1..Len(tabs.order)
      /\ Len(tabs.order) \in Nat
  BY DEF TabsState
<1>3. s \in TabsState /\ InStep(s) /\ s.order = tabs.order
  <2>1. CASE x \in tabs.marked /\ Len(tabs.order) > 1
    <3>1. n \in 1..Len(tabs.order)
      BY <1>2, <2>1
    <3>2. tabs.order[n] \in Tab /\ tabs.order[n] \in Present(tabs)
      BY <1>2, <3>1, PresentOrder
    <3> QED
      BY <2>1, <3>2, ClickTabKeeps
  <2>2. CASE ~(x \in tabs.marked /\ Len(tabs.order) > 1)
    BY <2>2
  <2> QED
    BY <2>1, <2>2
<1> HIDE DEF s, n
<1> DEFINE o == RemoveAt(s.order, k)
           di == s.disabled \ {x}
           pr == s.processing \ {x}
           ma == s.marked \ {x}
           vi == s.visible \ {x}
<1>4. /\ o \in Seq(Tab)
      /\ \A j \in 1..Len(s.order) : j # k => \E i \in 1..Len(o) : o[i] = s.order[j]
  <2>1. s.order \in Seq(Tab) /\ k \in 1..Len(s.order)
    BY <1>2, <1>3
  <2> QED
    BY <2>1, RemovedAt
<1>5. /\ di \subseteq Tab /\ pr \subseteq Tab /\ ma \subseteq Tab
      /\ vi \subseteq Tab
      /\ r = [s EXCEPT !.order = o, !.disabled = di, !.processing = pr,
                       !.marked = ma, !.visible = vi]
  BY <1>3 DEF TabsState
<1> HIDE DEF o, di, pr, r
<1>6. /\ r \in TabsState /\ r.order = o
      /\ r.loading = s.loading /\ r.disturbed = s.disturbed
      /\ r.marked = ma /\ r.visible = vi /\ r.queue = s.queue
  BY <1>3, <1>4, <1>5 DEF TabsState
<1>7. Present(s) \ {x} \subseteq Present(r)
  BY <1>3, <1>4, <1>6, PresentOrder
<1>8. ASSUME ~r.disturbed, r.loading = NoTab
      PROVE  /\ r.visible = r.marked /\ r.visible \subseteq Present(r)
             /\ r.marked = {} \/ \E y \in Tab : r.marked = {y}
             /\ r.queue = <<>>
  <2>1. /\ s.visible = s.marked /\ s.visible \subseteq Present(s)
        /\ s.marked = {} \/ \E y \in Tab : s.marked = {y}
        /\ s.queue = <<>>
    BY <1>3, <1>6, <1>8 DEF InStep
  <2>2. r.visible = r.marked /\ r.queue = <<>>
    BY <1>6, <2>1
  <2>3. r.visible \subseteq Present(r)
    BY <1>6, <1>7, <2>1
  <2>4. r.marked = {} \/ \E y \in Tab : r.marked = {y}
    <3>1. r.marked \subseteq s.marked
      BY <1>6
    <3> QED
      BY <2>1, <3>1
  <2> QED
    BY <2>2, <2>3, <2>4
<1> QED
  BY <1>1, <1>6, <1>8, TabifyKeeps

(* The answer of a remote tab runs what its click queued.                  *)
LEMMA LoadedKeeps ==
  ASSUME TabLoaded, tabs \in TabsState, InStep(tabs)
  PROVE  tabs' \in TabsState /\ InStep(tabs')
<1> DEFINE x == tabs.loading
           c == tabs.cached \cup (IF tabOptions.cache THEN {x} ELSE {})
           s == [tabs EXCEPT !.loading = NoTab, !.processing = {},
                             !.cached = @ \cup (IF tabOptions.cache THEN {x} ELSE {})]
<1>1. x # NoTab /\ tabs' = dequeueTabs(s)
  BY DEF TabLoaded
<1>2. x \in Tab /\ c \subseteq Tab
  BY <1>1 DEF TabsState
<1>3. s = [tabs EXCEPT !.loading = NoTab, !.processing = {}, !.cached = c]
  OBVIOUS
<1> HIDE DEF c, s
<1>4. /\ s \in TabsState /\ s.order = tabs.order /\ s.selected = tabs.selected
      /\ s.loading = NoTab /\ s.disturbed = tabs.disturbed
      /\ s.marked = tabs.marked /\ s.visible = tabs.visible
      /\ s.queue = tabs.queue
  BY <1>2, <1>3 DEF TabsState
<1>5. Present(s) = Present(tabs)
  BY <1>4 DEF Present
<1>6. dequeueTabs(s) \in TabsState /\ dequeueTabs(s).disturbed = s.disturbed
  BY <1>4, DequeueFields
<1>7. CASE s.disturbed
  BY <1>1, <1>6, <1>7 DEF InStep
<1>8. CASE ~s.disturbed
  <2>1. x \in Present(s) /\ Aiming(s, x)
    BY <1>1, <1>4, <1>5, <1>8 DEF InStep, Aiming
  <2> QED
    BY <1>1, <1>2, <1>4, <1>6, <2>1, DequeueAim
<1> QED
  BY <1>7, <1>8

(* A failed load disturbs the widget; enabling and disabling do not.       *)
LEMMA OtherKeeps ==
  ASSUME tabs \in TabsState, InStep(tabs),
         TabFailed \/ \E x \in Tab : EnableTab(x) \/ DisableTab(x)
  PROVE  tabs' \in TabsState /\ InStep(tabs')
<1>1. CASE TabFailed
  <2> DEFINE t == [tabs EXCEPT !.loading = NoTab, !.disturbed = TRUE]
  <2>1. t \in TabsState /\ t.disturbed = TRUE
    BY DEF TabsState
  <2> QED
    BY <1>1, <2>1 DEF TabFailed, InStep
<1>2. ASSUME NEW x \in Tab, EnableTab(x) \/ DisableTab(x)
      PROVE  tabs' \in TabsState /\ InStep(tabs')
  <2>1. tabs.disabled \subseteq Tab /\ tabs.greyed \subseteq Tab
    BY DEF TabsState
  <2>2. PICK d \in SUBSET Tab, g \in SUBSET Tab :
          tabs' = [tabs EXCEPT !.disabled = d, !.greyed = g]
    <3>1. CASE EnableTab(x)
      <4>1. tabs' = [tabs EXCEPT !.disabled = tabs.disabled \ {x},
                                 !.greyed = tabs.greyed \ {x}]
        BY <3>1 DEF EnableTab
      <4> QED
        BY <2>1, <4>1
    <3>2. CASE DisableTab(x)
      <4>1. tabs' = [tabs EXCEPT !.disabled = tabs.disabled \cup {x},
                                 !.greyed = tabs.greyed \cup {x}]
        BY <3>2 DEF DisableTab
      <4> QED
        BY <2>1, <4>1
    <3> QED
      BY <1>2, <3>1, <3>2
  <2> DEFINE t == [tabs EXCEPT !.disabled = d, !.greyed = g]
  <2>3. /\ t \in TabsState /\ t.order = tabs.order
        /\ t.selected = tabs.selected
        /\ t.loading = tabs.loading /\ t.disturbed = tabs.disturbed
        /\ t.marked = tabs.marked /\ t.visible = tabs.visible
        /\ t.queue = tabs.queue
    BY DEF TabsState
  <2>4. tabs' = t
    BY <2>2
  <2> HIDE DEF t
  <2>5. Present(t) = Present(tabs)
    BY <2>3 DEF Present
  <2>6. InStep(t)
    BY <2>3, <2>5 DEF InStep
  <2> QED
    BY <2>3, <2>4, <2>6
<1> QED
  BY <1>1, <1>2

(* _tabify from scratch, with any of the tabs selected or none.            *)
LEMMA TabsStart ==
  ASSUME NEW order \in Seq(Tab), order # <<>>, NEW fresh \in SUBSET Tab,
         NEW disabled \in SUBSET Tab, TabsInit(order, fresh, disabled)
  PROVE  tabs \in TabsState /\ InStep(tabs)
<1>1. PICK selected \in ToSet(order) \cup {NoTab} :
        LET on == {selected} \ {NoTab}
            s == [order |-> order, fresh |-> fresh,
                  selected |-> selected, marked |-> on, visible |-> on,
                  disabled |-> disabled \ on, greyed |-> disabled \ on,
                  processing |-> {}, cached |-> {}, loading |-> NoTab,
                  queue |-> <<>>, disturbed |-> FALSE]
        IN tabs = IF on = {} THEN s
                  ELSE loadTab([s EXCEPT !.queue = <<showFn(selected)>>], selected)
  BY DEF TabsInit
<1> DEFINE on == {selected} \ {NoTab}
           off == disabled \ on
           e == <<>>
           s == [order |-> order, fresh |-> fresh,
                 selected |-> selected, marked |-> on, visible |-> on,
                 disabled |-> off, greyed |-> off,
                 processing |-> {}, cached |-> {}, loading |-> NoTab,
                 queue |-> e, disturbed |-> FALSE]
           r == [s EXCEPT !.queue = <<showFn(selected)>>]
<1>2. \A t \in ToSet(order) : t \in Tab /\ \E n \in 1..Len(order) : t = order[n]
  BY DEF ToSet
<1>3. /\ selected \in Tab \cup {NoTab} /\ on \in SUBSET Tab
      /\ off \in SUBSET Tab
      /\ e \in Seq(Queued)
  BY <1>2
<1>4. tabs = IF on = {} THEN s ELSE loadTab(r, selected)
  BY <1>1
<1> HIDE DEF on, off, e
<1>5. /\ s \in TabsState /\ s.order = order /\ s.selected = selected
      /\ s.loading = NoTab /\ s.disturbed = FALSE
      /\ s.marked = on /\ s.visible = on /\ s.queue = e
  BY <1>3 DEF TabsState
<1> HIDE DEF s
<1>6. CASE on = {}
  <2>1. selected = NoTab
    BY <1>6 DEF on
  <2>2. InStep(s)
    BY <1>5, <1>6, <2>1 DEF InStep, e
  <2> QED
    BY <1>4, <1>5, <1>6, <2>2
<1>7. CASE on # {}
  <2>1. /\ selected \in Tab /\ on = {selected}
        /\ \E n \in 1..Len(order) : selected = order[n]
    BY <1>1, <1>2, <1>3, <1>7 DEF on
  <2> DEFINE q == <<showFn(selected)>>
  <2>2. q \in Seq(Queued)
    BY <2>1, ShowType
  <2> HIDE DEF q
  <2>3. r = [s EXCEPT !.queue = q]
    BY DEF q
  <2> HIDE DEF r
  <2>4. /\ r \in TabsState /\ r.order = order /\ r.selected = selected
        /\ r.marked = on /\ r.visible = on /\ r.queue = q
    BY <1>5, <2>2, <2>3 DEF TabsState
  <2>5. selected \in Present(r)
    BY <1>2, <2>1, <2>4, PresentOrder
  <2>6. Aiming(r, selected)
    BY <2>1, <2>4, <2>5 DEF Aiming, q
  <2> QED
    BY <1>4, <1>7, <2>1, <2>4, <2>5, <2>6, LoadKeeps
<1> QED
  BY <1>6, <1>7

(* Of any list of tabs to start with: every state of the widget has its    *)
(* type, and as long as nothing was clicked, added or removed while a      *)
(* remote tab was loading and no load failed, the tabs are in step: nothing*)
(* is queued, and the one panel in view is that of the tab drawn as        *)
(* selected (jquery-ui-1.7.2.custom.js 5491-5957).                         *)
THEOREM TabsFollow ==
  ASSUME NEW order \in Seq(Tab), order # <<>>, NEW fresh \in SUBSET Tab,
         NEW disabled \in SUBSET Tab
  PROVE  TabsInit(order, fresh, disabled) /\ [][TabsNext]_tabsVars
           => [](TabsTypeOK /\ TabsInStep)
<1> DEFINE Inv == /\ tabOptions \in [collapsible : BOOLEAN, cache : BOOLEAN,
                                     remote : SUBSET Tab]
                  /\ tabs \in TabsState /\ InStep(tabs)
<1>1. TabsInit(order, fresh, disabled) => Inv
  <2>1. TabsInit(order, fresh, disabled) =>
          tabOptions \in [collapsible : BOOLEAN, cache : BOOLEAN, remote : SUBSET Tab]
    BY DEF TabsInit
  <2> QED
    BY <2>1, TabsStart
<1>2. ASSUME Inv, TabsNext PROVE Inv'
  <2>1. ASSUME NEW x \in Tab, Click(x)
        PROVE  tabs' \in TabsState /\ InStep(tabs')
    BY <1>2, <2>1, ClickTabKeeps DEF Click
  <2>2. tabs' \in TabsState /\ InStep(tabs')
    BY <1>2, <2>1, AddTabKeeps, RemoveTabKeeps, LoadedKeeps,
       OtherKeeps DEF TabsNext
  <2>3. tabOptions' = tabOptions
    BY <1>2 DEF TabsNext
  <2> QED
    BY <1>2, <2>2, <2>3 DEF InStep, Present
<1>3. ASSUME Inv, UNCHANGED tabsVars PROVE Inv'
  BY <1>3 DEF tabsVars, InStep, Present
<1>4. ASSUME Inv PROVE TabsTypeOK /\ TabsInStep
  <2>1. TabsTypeOK
    BY <1>4 DEF TabsTypeOK, TabsState
  <2>2. \A y \in Tab : Cardinality({y}) = 1
    BY FS_Singleton
  <2>3. Cardinality({}) = 0
    BY FS_EmptySet
  <2>4. ASSUME ~tabs.disturbed, tabs.loading = NoTab
        PROVE  /\ tabs.queue = <<>> /\ tabs.visible = tabs.marked
               /\ tabs.marked = {} \/ \E y \in Tab : tabs.marked = {y}
               /\ tabs.selected # NoTab => tabs.marked = {tabs.selected}
    BY <1>4, <2>4 DEF InStep
  <2>5. (tabs.marked = {} \/ \E y \in Tab : tabs.marked = {y})
          => Cardinality(tabs.marked) <= 1
    <3>1. (tabs.marked = {} \/ \E y \in Tab : tabs.marked = {y})
            => Cardinality(tabs.marked) \in {0, 1}
      BY <2>2, <2>3, Zenon
    <3>2. \A i \in {0, 1} : i <= 1
      OBVIOUS
    <3> QED
      BY <3>1, <3>2
  <2> QED
    BY <2>1, <2>4, <2>5 DEF TabsInStep
<1> QED
  BY <1>1, <1>2, <1>3, <1>4, PTL

----------------------------------------------------------------------------
(* The dialogs.                                                            *)

DialogsState ==
  [open : SUBSET Dialog, overlay : SUBSET Dialog, z : [Dialog -> Nat],
   maxZ : Nat, instances : Seq(Nat), overlayZ : Nat, timers : Nat,
   blocking : BOOLEAN, escape : Dialog \cup {NoDialog},
   stack : Seq(Dialog), tidy : BOOLEAN]

(* There is a z-index above all, so that every set of them has a largest.  *)
Bounded(s) ==
  \E b \in Nat : /\ \A d \in Dialog : s.z[d] <= b
                 /\ \A i \in 1..Len(s.instances) : s.instances[i] <= b

(* The open modal dialogs lie on each other, each above its own overlay    *)
(* and below the next one's.                                               *)
Layered(s) ==
  /\ Len(s.instances) = Len(s.stack)
  /\ \A d \in Dialog : d \in s.open \cap modal
                         <=> \E i \in 1..Len(s.stack) : s.stack[i] = d
  /\ s.blocking => Len(s.stack) > 0
  /\ s.timers = 0 /\ Len(s.stack) > 0 => s.blocking
  /\ \A i \in 1..Len(s.stack) :
       s.instances[i] < s.z[s.stack[i]] /\ s.z[s.stack[i]] <= s.maxZ
  /\ \A i, j \in 1..Len(s.stack) : i < j => s.z[s.stack[i]] < s.instances[j]
  /\ Len(s.stack) > 0 => s.overlayZ = s.instances[Len(s.stack)]

Stacked(s) ==
  /\ s \in DialogsState /\ Bounded(s) /\ s.overlay \subseteq modal
  /\ \A i \in 1..Len(s.stack) : s.stack[i] \in s.overlay
  /\ s.tidy => Layered(s)

DialogsInv == modal \subseteq Dialog /\ Stacked(dialogs)

(* The largest of a set of numbers, when a number is above them all.       *)
LEMMA LargestIs ==
  ASSUME NEW P \in SUBSET Nat, NEW b \in Nat, \A n \in P : n <= b
  PROVE  /\ Largest(P) \in P \cup {0} /\ Largest(P) \in Nat
         /\ \A n \in P : n <= Largest(P)
<1> DEFINE U == {m \in Nat : \A n \in P : n <= m}
<1>1. PICK m \in U : \A n \in U : m <= n
  <2>1. U \in SUBSET Nat /\ b \in U
    OBVIOUS
  <2> HIDE DEF U
  <2> QED
    BY <2>1, Least
<1>2. m \in P \cup {0}
  <2>1. SUFFICES ASSUME m \notin P, m # 0 PROVE FALSE
    OBVIOUS
  <2>2. m - 1 \in Nat /\ \A n \in P : n <= m - 1
    BY <1>1, <2>1
  <2>3. m - 1 \in U
    BY <2>2
  <2> QED
    BY <1>1, <2>3
<1>3. \A n \in P \cup {0} : m >= n
  BY <1>1
<1>4. /\ Max(P \cup {0}) \in P \cup {0}
      /\ \A n \in P \cup {0} : Max(P \cup {0}) >= n
  BY <1>2, <1>3 DEF Max
<1> DEFINE x == Max(P \cup {0})
<1>5. x \in Nat /\ \A n \in P : n \in Nat /\ n <= x
  <2>1. x \in P \cup {0} /\ \A n \in P : x >= n
    BY <1>4
  <2> HIDE DEF x
  <2> QED
    BY <2>1
<1> HIDE DEF U
<1> QED
  BY <1>4, <1>5, Zenon DEF Largest

(* The types of the fields.                                                *)
LEMMA DialogsFields ==
  ASSUME NEW s \in DialogsState
  PROVE  /\ s.open \subseteq Dialog /\ s.overlay \subseteq Dialog
         /\ s.z \in [Dialog -> Nat] /\ s.maxZ \in Nat
         /\ s.instances \in Seq(Nat) /\ s.overlayZ \in Nat
         /\ s.timers \in Nat /\ s.blocking \in BOOLEAN
         /\ s.escape \in Dialog \cup {NoDialog}
         /\ s.stack \in Seq(Dialog) /\ s.tidy \in BOOLEAN
         /\ Len(s.stack) \in Nat /\ Len(s.instances) \in Nat
  BY DEF DialogsState

(* A dialog moved to the top is above all others, and its overlay, if it   *)
(* has one, next below it.                                                 *)
LEMMA MoveFields ==
  ASSUME NEW s \in DialogsState, Bounded(s), NEW d \in Dialog
  PROVE  LET t == moveToTop(s, d)
         IN /\ t \in DialogsState /\ Bounded(t)
            /\ t.open = s.open /\ t.overlay = s.overlay
            /\ t.timers = s.timers /\ t.blocking = s.blocking
            /\ t.escape = s.escape /\ t.stack = s.stack /\ t.tidy = s.tidy
            /\ \A c \in Dialog \ {d} : t.z[c] = s.z[c]
            /\ t.maxZ > s.maxZ /\ t.z[d] = t.maxZ
            /\ d \notin modal =>
                 t.instances = s.instances /\ t.overlayZ = s.overlayZ
            /\ d \in modal =>
                 /\ t.instances = Append(s.instances, t.overlayZ)
                 /\ t.overlayZ > s.maxZ /\ t.overlayZ < t.maxZ
<1> DEFINE t == moveToTop(s, d)
           top == Largest({s.maxZ, zIndex})
<1>1. /\ s.maxZ \in Nat /\ s.z \in [Dialog -> Nat]
      /\ s.instances \in Seq(Nat) /\ Len(s.instances) \in Nat
  BY DialogsFields
<1>2. top \in Nat /\ s.maxZ <= top
  <2>1. {s.maxZ, zIndex} \in SUBSET Nat
    BY <1>1 DEF zIndex
  <2>2. s.maxZ + 1 \in Nat /\ \A n \in {s.maxZ, zIndex} : n <= s.maxZ + 1
    BY <1>1 DEF zIndex
  <2> QED
    BY <2>1, <2>2, LargestIs
<1>3. PICK b \in Nat : /\ \A c \in Dialog : s.z[c] <= b
                       /\ \A i \in 1..Len(s.instances) : s.instances[i] <= b
  BY DEF Bounded
<1>4. t = IF d \in modal
          THEN [s EXCEPT !.overlayZ = top + 1,
                         !.instances = Append(s.instances, top + 1),
                         !.z = [s.z EXCEPT ![d] = top + 2], !.maxZ = top + 2]
          ELSE [s EXCEPT !.z = [s.z EXCEPT ![d] = top + 1], !.maxZ = top + 1]
  BY DEF moveToTop
<1> HIDE DEF top, t
<1> DEFINE z2 == [s.z EXCEPT ![d] = top + 2]
           z1 == [s.z EXCEPT ![d] = top + 1]
           q == Append(s.instances, top + 1)
<1>5. /\ z2 \in [Dialog -> Nat] /\ z2[d] = top + 2
      /\ z1 \in [Dialog -> Nat] /\ z1[d] = top + 1
      /\ \A c \in Dialog \ {d} : z2[c] = s.z[c] /\ z1[c] = s.z[c]
  BY <1>1, <1>2
<1>6. /\ q \in Seq(Nat) /\ Len(q) = Len(s.instances) + 1
      /\ q[Len(s.instances) + 1] = top + 1
      /\ \A i \in 1..Len(s.instances) : q[i] = s.instances[i]
  BY <1>1, <1>2
<1>7. /\ b + top + 2 \in Nat
      /\ \A c \in Dialog : z1[c] <= b + top + 2 /\ z2[c] <= b + top + 2
      /\ \A i \in 1..Len(s.instances) : s.instances[i] <= b + top + 2
      /\ \A i \in 1..Len(q) : q[i] <= b + top + 2
  <2>1. b + top + 2 \in Nat
    BY <1>2
  <2>2. ASSUME NEW c \in Dialog
        PROVE  z1[c] <= b + top + 2 /\ z2[c] <= b + top + 2
    BY <1>1, <1>2, <1>3, <1>5
  <2>3. ASSUME NEW i \in 1..Len(s.instances)
        PROVE  s.instances[i] <= b + top + 2
    BY <1>1, <1>2, <1>3
  <2>4. ASSUME NEW i \in 1..Len(q) PROVE q[i] <= b + top + 2
    <3> HIDE DEF q
    <3>1. CASE i \in 1..Len(s.instances)
      BY <1>6, <2>3, <3>1
    <3>2. CASE i = Len(s.instances) + 1
      BY <1>2, <1>6, <3>2
    <3> QED
      BY <1>1, <1>6, <3>1, <3>2
  <2> QED
    BY <2>1, <2>2, <2>3, <2>4
<1> HIDE DEF z1, z2, q
<1>8. CASE d \in modal
  <2>1. t = [s EXCEPT !.overlayZ = top + 1, !.instances = q, !.z = z2,
                      !.maxZ = top + 2]
    BY <1>4, <1>8 DEF q, z2
  <2>2. /\ t \in DialogsState /\ t.z = z2 /\ t.maxZ = top + 2
        /\ t.instances = q /\ t.overlayZ = top + 1
        /\ t.open = s.open /\ t.overlay = s.overlay
        /\ t.timers = s.timers /\ t.blocking = s.blocking
        /\ t.escape = s.escape /\ t.stack = s.stack /\ t.tidy = s.tidy
    BY <1>2, <1>5, <1>6, <2>1 DEF DialogsState
  <2>3. Bounded(t)
    BY <1>7, <2>2 DEF Bounded
  <2>4. top + 2 > s.maxZ /\ top + 1 > s.maxZ /\ top + 1 < top + 2
    BY <1>1, <1>2
  <2>5. t.instances = Append(s.instances, t.overlayZ)
    BY <2>2 DEF q
  <2> QED
    BY <1>5, <1>8, <2>2, <2>3, <2>4, <2>5 DEF t
<1>9. CASE d \notin modal
  <2>1. t = [s EXCEPT !.z = z1, !.maxZ = top + 1]
    BY <1>4, <1>9 DEF z1
  <2>2. /\ t \in DialogsState /\ t.z = z1 /\ t.maxZ = top + 1
        /\ t.instances = s.instances /\ t.overlayZ = s.overlayZ
        /\ t.open = s.open /\ t.overlay = s.overlay
        /\ t.timers = s.timers /\ t.blocking = s.blocking
        /\ t.escape = s.escape /\ t.stack = s.stack /\ t.tidy = s.tidy
    BY <1>2, <1>5, <2>1 DEF DialogsState
  <2>3. Bounded(t)
    BY <1>7, <2>2 DEF Bounded
  <2>4. top + 1 > s.maxZ
    BY <1>1, <1>2
  <2> QED
    BY <1>5, <1>9, <2>2, <2>3, <2>4 DEF t
<1> QED
  BY <1>8, <1>9

(* A mouse press raises a dialog that has no overlay.                      *)
LEMMA PressKeeps ==
  ASSUME NEW s, Stacked(s), NEW d \in Dialog \ modal
  PROVE  Stacked(moveToTop(s, d))
<1> DEFINE t == moveToTop(s, d)
<1>1. /\ s \in DialogsState /\ Bounded(s) /\ s.overlay \subseteq modal
      /\ \A i \in 1..Len(s.stack) : s.stack[i] \in s.overlay
      /\ s.tidy => Layered(s)
  BY DEF Stacked
<1>2. /\ t \in DialogsState /\ Bounded(t)
      /\ t.open = s.open /\ t.overlay = s.overlay
      /\ t.timers = s.timers /\ t.blocking = s.blocking
      /\ t.stack = s.stack /\ t.tidy = s.tidy
      /\ \A c \in Dialog \ {d} : t.z[c] = s.z[c]
      /\ t.maxZ > s.maxZ
      /\ t.instances = s.instances /\ t.overlayZ = s.overlayZ
  BY <1>1, MoveFields
<1> HIDE DEF t
<1>3. s.stack \in Seq(Dialog) /\ s.z \in [Dialog -> Nat] /\ s.maxZ \in Nat
      /\ t.maxZ \in Nat
  BY <1>1, <1>2, DialogsFields
<1>4. \A i \in 1..Len(s.stack) : /\ s.stack[i] \in Dialog \ {d}
                                 /\ t.z[s.stack[i]] = s.z[s.stack[i]]
  BY <1>1, <1>2, <1>3
<1>5. ASSUME Layered(s) PROVE Layered(t)
  <2>1. \A i \in 1..Len(s.stack) : s.z[s.stack[i]] <= t.maxZ
    BY <1>2, <1>3, <1>4, <1>5 DEF Layered
  <2> QED
    BY <1>2, <1>4, <1>5, <2>1 DEF Layered
<1> QED
  BY <1>1, <1>2, <1>5 DEF Stacked, t

(* A modal dialog opens with an overlay of its own on top of the rest.     *)
LEMMA OpenKeeps ==
  ASSUME NEW s, Stacked(s), modal \subseteq Dialog, NEW d \in Dialog,
         d \notin s.open, NEW t,
         t = [moveToTop(IF d \in modal THEN createOverlay(s, d) ELSE s, d)
                EXCEPT !.open = @ \cup {d}]
  PROVE  Stacked(t)
<1> DEFINE a == IF d \in modal THEN createOverlay(s, d) ELSE s
           m == moveToTop(a, d)
<1>1. /\ s \in DialogsState /\ Bounded(s) /\ s.overlay \subseteq modal
      /\ \A i \in 1..Len(s.stack) : s.stack[i] \in s.overlay
      /\ s.tidy => Layered(s)
  BY DEF Stacked
<1>2. /\ s.stack \in Seq(Dialog) /\ s.z \in [Dialog -> Nat] /\ s.maxZ \in Nat
      /\ s.instances \in Seq(Nat) /\ s.open \subseteq Dialog
      /\ s.overlay \subseteq Dialog /\ s.timers \in Nat
      /\ Len(s.stack) \in Nat /\ Len(s.instances) \in Nat
      /\ s.escape \in Dialog \cup {NoDialog}
  BY <1>1, DialogsFields
<1>5. t = [m EXCEPT !.open = m.open \cup {d}]
  OBVIOUS
<1>6. \A u \in SUBSET Dialog : u \cup {d} \in SUBSET Dialog
  OBVIOUS
<1>3. CASE d \notin modal
  <2>1. a = s
    BY <1>3
  <2>2. Stacked(m)
    BY <1>3, <2>1, PressKeeps
  <2>3. m \in DialogsState /\ m.open = s.open
    BY <1>1, <2>1, MoveFields
  <2> DEFINE u == s.open \cup {d}
  <2>4. u \in SUBSET Dialog /\ t = [m EXCEPT !.open = u]
    BY <1>2, <1>5, <1>6, <2>3
  <2> HIDE DEF a, m, u
  <2>5. /\ t \in DialogsState /\ t.open = u
        /\ t.overlay = m.overlay /\ t.z = m.z /\ t.maxZ = m.maxZ
        /\ t.instances = m.instances /\ t.overlayZ = m.overlayZ
        /\ t.timers = m.timers /\ t.blocking = m.blocking
        /\ t.stack = m.stack /\ t.tidy = m.tidy
    BY <2>3, <2>4 DEF DialogsState
  <2>6. t.open \cap modal = m.open \cap modal
    BY <1>3, <2>3, <2>5 DEF u
  <2>7. Bounded(m) => Bounded(t)
    BY <2>5 DEF Bounded
  <2>8. Layered(m) => Layered(t)
    BY <2>5, <2>6 DEF Layered
  <2> QED
    BY <2>2, <2>5, <2>7, <2>8 DEF Stacked
<1>4. CASE d \in modal
  <2> DEFINE q == Append(s.stack, d)
             n == IF s.instances = <<>> THEN s.timers + 1 ELSE s.timers
             e == IF s.instances = <<>> THEN d ELSE s.escape
             o == s.overlay \cup {d}
  <2>1. a = [s EXCEPT !.overlay = o, !.stack = q, !.timers = n, !.escape = e]
    BY <1>4 DEF createOverlay
  <2>2. q \in Seq(Dialog) /\ Len(q) = Len(s.stack) + 1
        /\ q[Len(s.stack) + 1] = d
        /\ \A i \in 1..Len(s.stack) : q[i] = s.stack[i]
    BY <1>2
  <2>3. n \in Nat /\ (n = 0 => s.timers = 0 /\ s.instances # <<>>)
    BY <1>2
  <2>4. e \in Dialog \cup {NoDialog} /\ o \subseteq Dialog
    BY <1>2
  <2> HIDE DEF q, n, e, a
  <2>5. /\ a \in DialogsState /\ a.open = s.open /\ a.overlay = o
        /\ a.z = s.z /\ a.maxZ = s.maxZ /\ a.instances = s.instances
        /\ a.timers = n /\ a.blocking = s.blocking
        /\ a.stack = q /\ a.tidy = s.tidy
    BY <1>1, <2>1, <2>2, <2>3, <2>4 DEF DialogsState
  <2>6. Bounded(a)
    BY <1>1, <2>5 DEF Bounded
  <2>7. /\ m \in DialogsState /\ Bounded(m)
        /\ m.open = s.open /\ m.overlay = o
        /\ m.timers = n /\ m.blocking = s.blocking
        /\ m.stack = q /\ m.tidy = s.tidy
        /\ \A c \in Dialog \ {d} : m.z[c] = s.z[c]
        /\ m.maxZ > s.maxZ /\ m.z[d] = m.maxZ
        /\ m.instances = Append(s.instances, m.overlayZ)
        /\ m.overlayZ > s.maxZ /\ m.overlayZ < m.maxZ
    BY <1>4, <2>5, <2>6, MoveFields
  <2> DEFINE u == s.open \cup {d}
  <2>8. u \in SUBSET Dialog /\ t = [m EXCEPT !.open = u]
    BY <1>2, <1>5, <1>6, <2>7
  <2> HIDE DEF m, u
  <2>9. /\ t \in DialogsState /\ t.open = u
        /\ t.overlay = o /\ t.z = m.z /\ t.maxZ = m.maxZ
        /\ t.instances = m.instances /\ t.overlayZ = m.overlayZ
        /\ t.timers = n /\ t.blocking = s.blocking
        /\ t.stack = q /\ t.tidy = s.tidy
    BY <2>7, <2>8 DEF DialogsState
  <2>10. Bounded(t)
    BY <2>7, <2>9 DEF Bounded
  <2>11. o \subseteq modal /\ \A i \in 1..Len(q) : q[i] \in o
    <3>1. o \subseteq modal
      BY <1>1, <1>4 DEF o
    <3>2. d \in o /\ \A c \in s.overlay : c \in o
      BY DEF o
    <3> HIDE DEF o
    <3>3. ASSUME NEW i \in 1..Len(q) PROVE q[i] \in o
      <4>1. CASE i \in 1..Len(s.stack)
        BY <1>1, <2>2, <3>2, <4>1
      <4>2. CASE i = Len(s.stack) + 1
        BY <2>2, <3>2, <4>2
      <4> QED
        BY <1>2, <2>2, <4>1, <4>2
    <3> QED
      BY <3>1, <3>3
  <2>12. ASSUME Layered(s) PROVE Layered(t)
    <3>1. Len(s.instances) = Len(s.stack)
      BY <2>12 DEF Layered
    <3>2. m.overlayZ \in Nat /\ m.maxZ \in Nat
      BY <2>7, DialogsFields
    <3>3. /\ Len(t.instances) = Len(s.stack) + 1
          /\ t.instances[Len(s.stack) + 1] = t.overlayZ
          /\ \A i \in 1..Len(s.stack) : t.instances[i] = s.instances[i]
      BY <1>2, <2>7, <2>9, <3>1, <3>2
    <3>4. \A i \in 1..Len(s.stack) :
             /\ q[i] \in Dialog \ {d} /\ t.z[q[i]] = s.z[s.stack[i]]
             /\ s.z[s.stack[i]] \in Nat /\ s.instances[i] \in Nat
      <4>1. \A i \in 1..Len(s.stack) : s.stack[i] \in s.open
        <5>1. \A i \in 1..Len(s.stack) : s.stack[i] \in Dialog
          BY <1>2
        <5> QED
          BY <2>12, <5>1 DEF Layered
      <4>2. ASSUME NEW i \in 1..Len(s.stack)
            PROVE  /\ q[i] \in Dialog \ {d} /\ t.z[q[i]] = s.z[s.stack[i]]
                   /\ s.z[s.stack[i]] \in Nat /\ s.instances[i] \in Nat
        <5>1. q[i] = s.stack[i] /\ s.stack[i] \in Dialog \ {d}
          BY <1>2, <2>2, <4>1
        <5>2. t.z[s.stack[i]] = s.z[s.stack[i]]
          BY <2>7, <2>9, <5>1
        <5>3. s.z[s.stack[i]] \in Nat
          BY <1>2, <5>1
        <5>4. s.instances[i] \in Nat
          BY <1>2, <3>1
        <5> QED
          BY <5>1, <5>2, <5>3, <5>4
      <4> QED
        BY <4>2
    <3>5. ASSUME NEW c \in Dialog
          PROVE  c \in t.open \cap modal <=> \E i \in 1..Len(q) : q[i] = c
      <4>1. c \in t.open \cap modal <=> c = d \/ c \in s.open \cap modal
        BY <1>4, <2>9 DEF u
      <4>2. c \in s.open \cap modal
              <=> \E i \in 1..Len(s.stack) : s.stack[i] = c
        BY <2>12 DEF Layered
      <4>3. (\E i \in 1..Len(q) : q[i] = c)
              <=> c = d \/ \E i \in 1..Len(s.stack) : s.stack[i] = c
        <5>1. \A i \in 1..Len(q) : i \in 1..Len(s.stack) \/ i = Len(s.stack) + 1
          BY <1>2, <2>2
        <5>2. /\ 1..Len(s.stack) \subseteq 1..Len(q)
              /\ Len(s.stack) + 1 \in 1..Len(q)
          BY <1>2, <2>2
        <5> QED
          BY <2>2, <5>1, <5>2, Zenon
      <4> QED
        BY <4>1, <4>2, <4>3
    <3>6. t.timers = 0 => t.blocking
      BY <1>2, <2>3, <2>9, <2>12, <3>1 DEF Layered
    <3>7. ASSUME NEW i \in 1..Len(q)
          PROVE  t.instances[i] < t.z[q[i]] /\ t.z[q[i]] <= t.maxZ
      <4>1. CASE i \in 1..Len(s.stack)
        <5>1. /\ s.instances[i] < s.z[s.stack[i]]
              /\ s.z[s.stack[i]] <= s.maxZ
          BY <2>12, <4>1 DEF Layered
        <5>2. /\ t.instances[i] = s.instances[i]
              /\ t.z[q[i]] = s.z[s.stack[i]] /\ s.z[s.stack[i]] \in Nat
          BY <3>3, <3>4, <4>1
        <5>3. t.maxZ = m.maxZ
          BY <2>9
        <5> QED
          BY <1>2, <2>7, <3>2, <5>1, <5>2, <5>3
      <4>2. CASE i = Len(s.stack) + 1
        BY <2>2, <2>7, <2>9, <3>2, <3>3, <4>2
      <4> QED
        BY <1>2, <2>2, <4>1, <4>2
    <3>8. ASSUME NEW i \in 1..Len(q), NEW j \in 1..Len(q), i < j
          PROVE  t.z[q[i]] < t.instances[j]
      <4>1. i \in 1..Len(s.stack)
        BY <1>2, <2>2, <3>8
      <4>2. CASE j \in 1..Len(s.stack)
        <5>1. s.z[s.stack[i]] < s.instances[j]
          BY <2>12, <3>8, <4>1, <4>2 DEF Layered
        <5> QED
          BY <3>3, <3>4, <4>1, <4>2, <5>1
      <4>3. CASE j = Len(s.stack) + 1
        <5>1. s.z[s.stack[i]] <= s.maxZ
          BY <2>12, <4>1 DEF Layered
        <5>2. t.instances[j] = m.overlayZ
          BY <2>9, <3>3, <4>3
        <5>3. t.z[q[i]] = s.z[s.stack[i]] /\ s.z[s.stack[i]] \in Nat
          BY <3>4, <4>1
        <5> QED
          BY <1>2, <2>7, <3>2, <5>1, <5>2, <5>3, SMTT(30)
      <4> QED
        BY <1>2, <2>2, <4>2, <4>3
    <3>9. t.stack = q /\ Len(q) \in Nat /\ Len(q) > 0 /\ Len(t.instances) = Len(q)
          /\ t.overlayZ = t.instances[Len(q)]
      BY <1>2, <2>2, <2>9, <3>3
    <3> QED
      BY <3>5, <3>6, <3>7, <3>8, <3>9 DEF Layered
  <2> QED
    BY <1>1, <2>9, <2>10, <2>11, <2>12 DEF Stacked
<1> QED
  BY <1>3, <1>4

(* A list of numbers that increases has its last element as the largest.   *)
LEMMA LastLargest ==
  ASSUME NEW q \in Seq(Nat), NEW b \in Nat,
         \A i \in 1..Len(q) : q[i] <= b
  PROVE  /\ Largest(ToSet(q)) \in Nat
         /\ Len(q) > 0 /\ (\A i \in 1..(Len(q) - 1) : q[i] < q[Len(q)])
              => Largest(ToSet(q)) = q[Len(q)]
<1> DEFINE P == ToSet(q)
           l == Largest(P)
<1>1. Len(q) \in Nat /\ P = {q[i] : i \in 1..Len(q)}
  BY DEF ToSet
<1>2. /\ P \in SUBSET Nat /\ \A n \in P : n <= b
      /\ \A i \in 1..Len(q) : q[i] \in P /\ q[i] \in Nat
      /\ \A n \in P : \E i \in 1..Len(q) : n = q[i]
  BY <1>1
<1> HIDE DEF P
<1>3. l \in P \cup {0} /\ l \in Nat /\ \A n \in P : n <= l
  BY <1>2, LargestIs
<1> HIDE DEF l
<1>4. ASSUME Len(q) > 0, \A i \in 1..(Len(q) - 1) : q[i] < q[Len(q)]
      PROVE  l = q[Len(q)]
  <2>1. Len(q) \in 1..Len(q) /\ q[Len(q)] <= l
    BY <1>1, <1>2, <1>3, <1>4
  <2>2. l <= q[Len(q)]
    <3>1. CASE l = 0
      BY <1>2, <2>1, <3>1
    <3>2. CASE l \in P
      <4>1. PICK i \in 1..Len(q) : l = q[i]
        BY <1>2, <3>2
      <4>2. CASE i = Len(q)
        BY <1>2, <2>1, <4>1, <4>2
      <4>3. CASE i # Len(q)
        <5>1. i \in 1..(Len(q) - 1)
          BY <1>1, <4>3
        <5> QED
          BY <1>2, <1>4, <2>1, <4>1, <5>1
      <4> QED
        BY <4>2, <4>3
    <3> QED
      BY <1>3, <3>1, <3>2
  <2> QED
    BY <1>2, <1>3, <2>1, <2>2
<1> QED
  BY <1>3, <1>4 DEF l, P

(* splice takes the last instance away, and Escape with the last of all.   *)
LEMMA DestroyFields ==
  ASSUME NEW s \in DialogsState, Bounded(s)
  PROVE  LET t == destroyOverlay(s)
         IN /\ t \in DialogsState /\ Bounded(t)
            /\ t.open = s.open /\ t.overlay = s.overlay /\ t.z = s.z
            /\ t.maxZ = s.maxZ /\ t.timers = s.timers
            /\ t.stack = s.stack /\ t.tidy = s.tidy
            /\ Len(t.instances) = (IF Len(s.instances) = 0 THEN 0
                                   ELSE Len(s.instances) - 1)
            /\ \A i \in 1..Len(t.instances) :
                 t.instances[i] = s.instances[i]
            /\ t.blocking = (s.blocking /\ Len(t.instances) > 0)
            /\ Len(t.instances) > 0
                 /\ (\A i \in 1..(Len(t.instances) - 1) :
                       t.instances[i] < t.instances[Len(t.instances)])
                 => t.overlayZ = t.instances[Len(t.instances)]
<1> DEFINE t == destroyOverlay(s)
           left == SubSeq(s.instances, 1, Len(s.instances) - 1)
           bl == s.blocking /\ left # <<>>
           e == IF left = <<>> THEN NoDialog ELSE s.escape
           l == Largest(ToSet(left))
<1>1. /\ s.instances \in Seq(Nat) /\ Len(s.instances) \in Nat
      /\ s.blocking \in BOOLEAN /\ s.escape \in Dialog \cup {NoDialog}
  BY DialogsFields
<1>2. PICK b \in Nat : /\ \A c \in Dialog : s.z[c] <= b
                       /\ \A i \in 1..Len(s.instances) : s.instances[i] <= b
  BY DEF Bounded
<1>3. /\ left \in Seq(Nat) /\ Len(left) \in Nat
      /\ Len(left) = (IF Len(s.instances) = 0 THEN 0 ELSE Len(s.instances) - 1)
      /\ \A i \in 1..Len(left) : left[i] = s.instances[i]
      /\ left = <<>> <=> Len(left) = 0
  <2>1. CASE Len(s.instances) = 0
    <3>1. left = <<>>
      BY <1>1, <2>1
    <3>2. Len(<<>>) = 0 /\ <<>> \in Seq(Nat) /\ 1..0 = {}
      OBVIOUS
    <3> QED
      BY <2>1, <3>1, <3>2
  <2>2. CASE Len(s.instances) # 0
    <3>1. left \in Seq(Nat) /\ Len(left) = Len(s.instances) - 1
      BY <1>1, <2>2
    <3>2. \A i \in 1..Len(left) : left[i] = s.instances[i]
      BY <1>1, <2>2, <3>1
    <3> HIDE DEF left
    <3>3. left = <<>> <=> Len(left) = 0
      BY <3>1, EmptySeq
    <3> QED
      BY <1>1, <2>2, <3>1, <3>2, <3>3
  <2> QED
    BY <2>1, <2>2
<1>4. t = [s EXCEPT !.instances = left, !.blocking = bl, !.escape = e,
                    !.overlayZ = l]
  BY DEF destroyOverlay
<1> HIDE DEF left, t
<1>5. \A i \in 1..Len(left) : left[i] <= b
  <2>1. \A i \in 1..Len(left) : i \in 1..Len(s.instances)
    BY <1>1, <1>3
  <2> QED
    BY <1>2, <1>3, <2>1, Zenon
<1>6. /\ l \in Nat
      /\ Len(left) > 0 /\ (\A i \in 1..(Len(left) - 1) : left[i] < left[Len(left)])
           => l = left[Len(left)]
  BY <1>3, <1>5, LastLargest
<1>7. bl \in BOOLEAN /\ e \in Dialog \cup {NoDialog}
      /\ bl = (s.blocking /\ Len(left) > 0)
  BY <1>1, <1>3
<1> HIDE DEF bl, e, l
<1>8. /\ t \in DialogsState /\ t.instances = left /\ t.blocking = bl
      /\ t.overlayZ = l
      /\ t.open = s.open /\ t.overlay = s.overlay /\ t.z = s.z
      /\ t.maxZ = s.maxZ /\ t.timers = s.timers
      /\ t.stack = s.stack /\ t.tidy = s.tidy
  BY <1>3, <1>4, <1>6, <1>7 DEF DialogsState
<1>9. Bounded(t)
  BY <1>2, <1>5, <1>8 DEF Bounded
<1> QED
  BY <1>3, <1>6, <1>7, <1>8, <1>9 DEF t

(* The fields that close sets: every dialog but d is below the new maxZ,   *)
(* and d is on the stack no more.                                          *)
LEMMA CloseFields ==
  ASSUME NEW s, Stacked(s), modal \subseteq Dialog, NEW d \in Dialog
  PROVE  LET t == close(s, d)
             gone == IF d \in s.overlay THEN destroyOverlay(s) ELSE s
         IN /\ t \in DialogsState /\ Bounded(t)
            /\ t.open = s.open \ {d} /\ t.overlay = s.overlay /\ t.z = s.z
            /\ t.timers = s.timers /\ t.stack = Without(s.stack, {d})
            /\ t.instances = gone.instances /\ t.blocking = gone.blocking
            /\ t.overlayZ = gone.overlayZ
            /\ t.tidy => s.tidy /\ (d \in s.overlay /\ s.stack # <<>>
                                      => d = Last(s.stack))
            /\ \A c \in Dialog \ {d} : s.z[c] <= s.maxZ => s.z[c] <= t.maxZ
            /\ \A i \in 1..Len(t.stack) : t.stack[i] \in s.overlay
<1> DEFINE t == close(s, d)
           gone == IF d \in s.overlay THEN destroyOverlay(s) ELSE s
           o == s.open \ {d}
           Z == {s.z[c] : c \in Dialog \ {d}}
           x == IF d \in modal THEN Largest(Z) ELSE s.maxZ
           w == Without(s.stack, {d})
           y == s.tidy /\ (d \in s.overlay /\ s.stack # <<>> => d = Last(s.stack))
<1>1. /\ s \in DialogsState /\ Bounded(s) /\ s.overlay \subseteq modal
      /\ \A i \in 1..Len(s.stack) : s.stack[i] \in s.overlay
  BY DEF Stacked
<1>2. /\ s.stack \in Seq(Dialog) /\ s.z \in [Dialog -> Nat] /\ s.maxZ \in Nat
      /\ s.open \subseteq Dialog /\ s.overlay \subseteq Dialog
      /\ s.tidy \in BOOLEAN
  BY <1>1, DialogsFields
<1>3. /\ gone \in DialogsState /\ Bounded(gone)
      /\ gone.open = s.open /\ gone.overlay = s.overlay /\ gone.z = s.z
      /\ gone.maxZ = s.maxZ /\ gone.timers = s.timers
      /\ gone.stack = s.stack /\ gone.tidy = s.tidy
  <2>1. CASE d \in s.overlay
    BY <1>1, <2>1, DestroyFields
  <2>2. CASE d \notin s.overlay
    BY <1>1, <2>2
  <2> QED
    BY <2>1, <2>2
<1>4. x \in Nat /\ \A c \in Dialog \ {d} : s.z[c] <= s.maxZ => s.z[c] <= x
  <2>1. CASE d \in modal
    <3>1. PICK b \in Nat : \A c \in Dialog : s.z[c] <= b
      BY <1>1 DEF Bounded
    <3>2. /\ Z \in SUBSET Nat /\ \A n \in Z : n <= b
          /\ \A c \in Dialog \ {d} : s.z[c] \in Z
      BY <1>2, <3>1
    <3>3. x = Largest(Z)
      BY <2>1
    <3> HIDE DEF Z, x
    <3> QED
      BY <3>2, <3>3, LargestIs
  <2>2. CASE d \notin modal
    BY <1>2, <2>2
  <2> QED
    BY <2>1, <2>2
<1>5. w \in Seq(Dialog) /\ \A i \in 1..Len(w) : w[i] \in s.overlay
  <2>1. s.stack \in Seq(s.overlay)
    BY <1>1, <1>2
  <2>2. w \in Seq(s.overlay \ {d})
    BY <2>1, WithoutKeeps DEF Keeps
  <2> HIDE DEF w
  <2> QED
    BY <1>2, <2>2
<1>6. t = [gone EXCEPT !.open = o, !.maxZ = x, !.stack = w, !.tidy = y]
  <2>1. t = [gone EXCEPT
               !.open = gone.open \ {d},
               !.maxZ = IF d \in modal THEN Largest(Z) ELSE gone.maxZ,
               !.stack = Without(gone.stack, {d}),
               !.tidy = gone.tidy /\ (d \in s.overlay /\ s.stack # <<>>
                                        => d = Last(s.stack))]
    BY Zenon DEF close
  <2> HIDE DEF t, gone
  <2> QED
    BY <1>3, <2>1
<1>7. o \in SUBSET Dialog /\ y \in BOOLEAN
  BY <1>2
<1> HIDE DEF gone, o, x, w, y, t
<1>8. /\ t \in DialogsState /\ t.open = o /\ t.maxZ = x /\ t.stack = w
      /\ t.tidy = y /\ t.overlay = gone.overlay /\ t.z = gone.z
      /\ t.timers = gone.timers /\ t.instances = gone.instances
      /\ t.blocking = gone.blocking /\ t.overlayZ = gone.overlayZ
  BY <1>3, <1>4, <1>5, <1>6, <1>7 DEF DialogsState
<1>9. Bounded(t)
  BY <1>3, <1>8 DEF Bounded
<1> QED
  BY <1>3, <1>4, <1>5, <1>8, <1>9 DEF t, gone, o, w, y

(* In the order in which dialogs are closed while the page is tidy, what   *)
(* is left of the stack is its lower part.                                 *)
LEMMA CloseKeeps ==
  ASSUME NEW s, Stacked(s), modal \subseteq Dialog, NEW d \in Dialog
  PROVE  Stacked(close(s, d))
<1> DEFINE t == close(s, d)
           gone == IF d \in s.overlay THEN destroyOverlay(s) ELSE s
           n == Len(s.stack)
<1>1. /\ s \in DialogsState /\ Bounded(s) /\ s.overlay \subseteq modal
      /\ \A i \in 1..n : s.stack[i] \in s.overlay
      /\ s.tidy => Layered(s)
  BY DEF Stacked
<1>2. /\ s.stack \in Seq(Dialog) /\ s.z \in [Dialog -> Nat] /\ s.maxZ \in Nat
      /\ s.instances \in Seq(Nat) /\ n \in Nat /\ s.blocking \in BOOLEAN
      /\ s.open \subseteq Dialog
  BY <1>1, DialogsFields
<1>3. /\ t \in DialogsState /\ Bounded(t)
      /\ t.open = s.open \ {d} /\ t.overlay = s.overlay /\ t.z = s.z
      /\ t.timers = s.timers /\ t.stack = Without(s.stack, {d})
      /\ t.instances = gone.instances /\ t.blocking = gone.blocking
      /\ t.overlayZ = gone.overlayZ
      /\ t.tidy => s.tidy /\ (d \in s.overlay /\ s.stack # <<>>
                                => d = Last(s.stack))
      /\ \A c \in Dialog \ {d} : s.z[c] <= s.maxZ => s.z[c] <= t.maxZ
      /\ \A i \in 1..Len(t.stack) : t.stack[i] \in s.overlay
  BY CloseFields
<1>4. ASSUME d \in s.overlay
      PROVE  /\ Len(gone.instances) = (IF Len(s.instances) = 0 THEN 0
                                       ELSE Len(s.instances) - 1)
             /\ \A i \in 1..Len(gone.instances) :
                  gone.instances[i] = s.instances[i]
             /\ gone.blocking = (s.blocking /\ Len(gone.instances) > 0)
             /\ Len(gone.instances) > 0
                  /\ (\A i \in 1..(Len(gone.instances) - 1) :
                        gone.instances[i] < gone.instances[Len(gone.instances)])
                  => gone.overlayZ = gone.instances[Len(gone.instances)]
  <2>1. gone = destroyOverlay(s)
    BY <1>4
  <2> HIDE DEF gone
  <2> QED
    BY <1>1, <2>1, DestroyFields, Zenon
<1>5. d \notin s.overlay => gone = s
  OBVIOUS
<1> HIDE DEF t, gone
<1>8. ASSUME d \in s.overlay
      PROVE  /\ Len(t.instances) = (IF Len(s.instances) = 0 THEN 0
                                    ELSE Len(s.instances) - 1)
             /\ \A i \in 1..Len(t.instances) : t.instances[i] = s.instances[i]
             /\ t.blocking = (s.blocking /\ Len(t.instances) > 0)
             /\ Len(t.instances) > 0
                  /\ (\A i \in 1..(Len(t.instances) - 1) :
                        t.instances[i] < t.instances[Len(t.instances)])
                  => t.overlayZ = t.instances[Len(t.instances)]
  BY <1>3, <1>4, <1>8, Zenon
<1>6. ASSUME t.tidy PROVE Layered(t)
  <2>1. s.tidy /\ Layered(s)
    BY <1>1, <1>3, <1>6
  <2>2. /\ Len(s.instances) = n
        /\ \A c \in Dialog : c \in s.open \cap modal
                               <=> \E i \in 1..n : s.stack[i] = c
        /\ s.blocking => n > 0
        /\ s.timers = 0 /\ n > 0 => s.blocking
        /\ \A i \in 1..n :
             s.instances[i] < s.z[s.stack[i]] /\ s.z[s.stack[i]] <= s.maxZ
        /\ \A i, j \in 1..n : i < j => s.z[s.stack[i]] < s.instances[j]
        /\ n > 0 => s.overlayZ = s.instances[n]
    BY <2>1 DEF Layered
  <2>3. \A i \in 1..n : /\ s.stack[i] \in Dialog /\ s.z[s.stack[i]] \in Nat
                        /\ s.instances[i] \in Nat
    BY <1>2, <2>2
  <2>4. \A i, j \in 1..n : i < j => s.instances[i] < s.instances[j]
                                    /\ s.z[s.stack[i]] < s.z[s.stack[j]]
                                    /\ s.stack[i] # s.stack[j]
    <3>1. ASSUME NEW i \in 1..n, NEW j \in 1..n, i < j
          PROVE  s.instances[i] < s.instances[j]
                 /\ s.z[s.stack[i]] < s.z[s.stack[j]]
      <4>1. /\ s.instances[i] < s.z[s.stack[i]]
            /\ s.z[s.stack[i]] < s.instances[j]
            /\ s.instances[j] < s.z[s.stack[j]]
        BY <2>2, <3>1
      <4> QED
        BY <2>3, <4>1
    <3> QED
      BY <2>3, <3>1
  <2> DEFINE k == Len(t.stack)
  <2>5. /\ k \in Nat /\ k <= n /\ Len(t.instances) = k
        /\ \A i \in 1..k : /\ t.stack[i] = s.stack[i] /\ s.stack[i] # d
                           /\ t.instances[i] = s.instances[i]
        /\ \A i \in 1..n : s.stack[i] # d => i \in 1..k
        /\ t.blocking = (s.blocking /\ k > 0)
        /\ k > 0 => t.overlayZ = t.instances[k]
    <3>1. CASE d \in s.overlay /\ n > 0
      <4>1. s.stack # <<>> /\ d = s.stack[n]
        <5>1. s.stack # <<>>
          BY <1>2, <3>1
        <5> QED
          BY <1>3, <1>6, <3>1, <5>1 DEF Last
      <4>2. \A i \in 1..(n - 1) : s.stack[i] \notin {d}
        BY <1>2, <2>4, <3>1, <4>1, SMTT(30)
      <4>3. t.stack = SubSeq(s.stack, 1, n - 1)
        BY <1>2, <1>3, <4>1, <4>2, WithoutLast
      <4>4. k = n - 1 /\ \A i \in 1..k : t.stack[i] = s.stack[i]
        BY <1>2, <3>1, <4>3
      <4> HIDE DEF k
      <4>5. /\ Len(t.instances) = k
            /\ \A i \in 1..k : t.instances[i] = s.instances[i]
            /\ t.blocking = (s.blocking /\ k > 0)
        <5>1. Len(s.instances) # 0 /\ Len(s.instances) - 1 = k
          BY <1>2, <2>2, <3>1, <4>4
        <5>2. Len(t.instances) = k
          BY <1>8, <3>1, <5>1
        <5> QED
          BY <1>8, <3>1, <5>2
      <4>6. ASSUME NEW i \in 1..(k - 1)
            PROVE  t.instances[i] < t.instances[k]
        <5>1. i \in 1..n /\ k \in 1..n /\ i < k /\ i \in 1..k /\ k \in 1..k
          BY <1>2, <3>1, <4>4
        <5>2. s.instances[i] < s.instances[k]
          BY <2>4, <5>1
        <5> QED
          BY <4>5, <5>1, <5>2
      <4>7. k > 0 => t.overlayZ = t.instances[k]
        BY <1>8, <3>1, <4>5, <4>6
      <4>8. \A i \in 1..n : s.stack[i] # d => i \in 1..k
        BY <1>2, <4>1, <4>4
      <4> QED
        BY <1>2, <3>1, <4>2, <4>4, <4>5, <4>7, <4>8
    <3>2. CASE d \in s.overlay /\ n = 0
      <4>1. \A i \in 1..n : s.stack[i] \notin {d}
        BY <3>2
      <4>2. t.stack = s.stack
        BY <1>2, <1>3, <4>1, WithoutNone
      <4>3. k = 0 /\ Len(t.instances) = 0 /\ t.blocking = FALSE
        <5>1. k = 0
          BY <3>2, <4>2
        <5>2. Len(t.instances) = 0
          BY <1>8, <2>2, <3>2
        <5>3. ~(s.blocking /\ Len(t.instances) > 0)
          BY <5>2
        <5> QED
          BY <1>8, <3>2, <5>1, <5>2, <5>3
      <4> HIDE DEF k
      <4>4. 1..k = {} /\ 1..n = {} /\ ~(k > 0) /\ 0 <= n
        BY <3>2, <4>3
      <4>5. k \in Nat /\ k <= n
        BY <3>2, <4>3
      <4> QED
        BY <4>3, <4>4, <4>5
    <3>3. CASE d \notin s.overlay
      <4>1. \A i \in 1..n : s.stack[i] \notin {d}
        BY <1>1, <3>3
      <4>2. t.stack = s.stack
        BY <1>2, <1>3, <4>1, WithoutNone
      <4>3. /\ t.instances = s.instances /\ t.blocking = s.blocking
            /\ t.overlayZ = s.overlayZ
        BY <1>3, <1>5, <3>3
      <4>4. k = n
        BY <4>2
      <4> HIDE DEF k
      <4> QED
        BY <1>2, <2>2, <4>1, <4>2, <4>3, <4>4
    <3> QED
      BY <1>2, <3>1, <3>2, <3>3
  <2> HIDE DEF k
  <2>6. ASSUME NEW c \in Dialog
        PROVE  c \in t.open \cap modal <=> \E i \in 1..k : t.stack[i] = c
    <3>1. c \in t.open \cap modal <=> c # d /\ c \in s.open \cap modal
      BY <1>3
    <3>2. c \in s.open \cap modal <=> \E i \in 1..n : s.stack[i] = c
      BY <2>2
    <3>3. \A i \in 1..k : i \in 1..n
      BY <1>2, <2>5
    <3> QED
      BY <2>5, <3>1, <3>2, <3>3, Zenon
  <2>7. ASSUME NEW i \in 1..k
        PROVE  t.instances[i] < t.z[t.stack[i]] /\ t.z[t.stack[i]] <= t.maxZ
    <3>1. i \in 1..n
      BY <1>2, <2>5
    <3>2. s.stack[i] \in Dialog \ {d} /\ s.z[s.stack[i]] <= s.maxZ
          /\ s.instances[i] < s.z[s.stack[i]]
      BY <2>2, <2>3, <2>5, <3>1
    <3>3. s.z[s.stack[i]] <= t.maxZ
      BY <1>3, <3>2
    <3>4. /\ t.stack[i] = s.stack[i] /\ t.instances[i] = s.instances[i]
          /\ t.z = s.z
      BY <1>3, <2>5
    <3> QED
      BY <3>2, <3>3, <3>4
  <2>8. ASSUME NEW i \in 1..k, NEW j \in 1..k, i < j
        PROVE  t.z[t.stack[i]] < t.instances[j]
    <3>1. i \in 1..n /\ j \in 1..n
      BY <1>2, <2>5
    <3>2. s.z[s.stack[i]] < s.instances[j]
      BY <2>2, <2>8, <3>1
    <3>3. /\ t.stack[i] = s.stack[i] /\ t.instances[j] = s.instances[j]
          /\ t.z = s.z
      BY <1>3, <2>5
    <3> QED
      BY <3>2, <3>3
  <2>9. t.timers = s.timers /\ (k > 0 => n > 0)
    BY <1>2, <1>3, <2>5
  <2> QED
    BY <2>2, <2>5, <2>6, <2>7, <2>8, <2>9 DEF Layered, k
<1>7. Stacked(t)
  BY <1>1, <1>3, <1>6 DEF Stacked
<1> QED
  BY <1>7 DEF t

\* What the timer of an overlay sets.
BoundLater(s) == [s EXCEPT !.timers = @ - 1,
                           !.blocking = @ \/ s.instances # <<>>]

(* The filter is bound unless its overlay is gone already.                 *)
LEMMA BindKeeps ==
  ASSUME NEW s, Stacked(s), s.timers > 0
  PROVE  Stacked(BoundLater(s))
<1> DEFINE t == BoundLater(s)
           n == s.timers - 1
           b == s.blocking \/ s.instances # <<>>
<1>1. /\ s \in DialogsState /\ Bounded(s) /\ s.overlay \subseteq modal
      /\ \A i \in 1..Len(s.stack) : s.stack[i] \in s.overlay
      /\ s.tidy => Layered(s)
  BY DEF Stacked
<1>2. /\ s.timers \in Nat /\ s.instances \in Seq(Nat) /\ s.blocking \in BOOLEAN
      /\ Len(s.instances) \in Nat
  BY <1>1, DialogsFields
<1>3. n \in Nat /\ b \in BOOLEAN
      /\ (s.instances # <<>> <=> Len(s.instances) > 0)
  BY <1>2, EmptySeq
<1>4. t = [s EXCEPT !.timers = n, !.blocking = b]
  BY DEF BoundLater
<1>5. b = (s.blocking \/ Len(s.instances) > 0)
  BY <1>3
<1> HIDE DEF n, b, t
<1>6. /\ t \in DialogsState /\ t.timers = n /\ t.blocking = b
      /\ t.open = s.open /\ t.overlay = s.overlay /\ t.z = s.z
      /\ t.maxZ = s.maxZ /\ t.instances = s.instances
      /\ t.overlayZ = s.overlayZ /\ t.stack = s.stack /\ t.tidy = s.tidy
  BY <1>1, <1>3, <1>4 DEF DialogsState
<1>7. Bounded(t)
  BY <1>1, <1>6 DEF Bounded
<1>8. ASSUME Layered(s) PROVE Layered(t)
  <2>1. t.blocking = (Len(t.stack) > 0)
    BY <1>2, <1>3, <1>5, <1>6, <1>8 DEF Layered
  <2>2. /\ t.blocking => Len(t.stack) > 0
        /\ t.timers = 0 /\ Len(t.stack) > 0 => t.blocking
    BY <2>1, Zenon
  <2>3. /\ t.instances = s.instances /\ t.stack = s.stack /\ t.open = s.open
        /\ t.z = s.z /\ t.maxZ = s.maxZ /\ t.overlayZ = s.overlayZ
    BY <1>6
  <2> QED
    BY <1>8, <2>2, <2>3 DEF Layered
<1>9. Stacked(t)
  BY <1>1, <1>6, <1>7, <1>8 DEF Stacked
<1> QED
  BY <1>9 DEF t

(* The invariant says what the page shows.                                 *)
LEMMA LayeredModal ==
  ASSUME NEW s \in DialogsState, Layered(s)
  PROVE  /\ Len(s.instances) = Len(s.stack)
         /\ ToSet(s.stack) = s.open \cap modal
         /\ s.timers = 0 => (s.blocking <=> s.stack # <<>>)
         /\ s.stack # <<>> =>
              LET top == Last(s.stack)
              IN /\ s.z[top] > s.overlayZ
                 /\ \A d \in ToSet(s.stack) \ {top} : s.z[d] < s.overlayZ
<1> DEFINE n == Len(s.stack)
<1>1. /\ s.stack \in Seq(Dialog) /\ s.z \in [Dialog -> Nat]
      /\ s.instances \in Seq(Nat) /\ n \in Nat /\ s.open \subseteq Dialog
      /\ s.blocking \in BOOLEAN /\ s.overlayZ \in Nat
  BY DialogsFields
<1>2. /\ ToSet(s.stack) = {s.stack[i] : i \in 1..n}
      /\ \A i \in 1..n : s.stack[i] \in Dialog
      /\ s.stack # <<>> <=> n > 0
  BY <1>1, EmptySeq DEF ToSet
<1>3. Len(s.instances) = n
  BY DEF Layered
<1>4. ToSet(s.stack) = s.open \cap modal
  BY <1>1, <1>2, ZenonT(30) DEF Layered
<1>5. s.timers = 0 => (s.blocking <=> s.stack # <<>>)
  BY <1>2 DEF Layered
<1>6. ASSUME s.stack # <<>>
      PROVE  /\ s.z[Last(s.stack)] > s.overlayZ
             /\ \A d \in ToSet(s.stack) \ {Last(s.stack)} : s.z[d] < s.overlayZ
  <2>1. n \in 1..n /\ Last(s.stack) = s.stack[n] /\ s.overlayZ = s.instances[n]
    BY <1>1, <1>2, <1>6 DEF Layered, Last
  <2>2. s.instances[n] < s.z[s.stack[n]]
    BY <2>1 DEF Layered
  <2>3. s.z[s.stack[n]] \in Nat
    BY <1>1, <1>2, <2>1
  <2>4. ASSUME NEW d \in ToSet(s.stack) \ {s.stack[n]}
        PROVE  s.z[d] < s.instances[n]
    <3>1. PICK i \in 1..n : d = s.stack[i]
      BY <1>2
    <3>2. i < n
      BY <1>1, <3>1, <2>4
    <3> QED
      BY <2>1, <3>1, <3>2 DEF Layered
  <2>5. s.z[s.stack[n]] > s.overlayZ
    BY <1>1, <2>1, <2>2, <2>3
  <2> QED
    BY <2>1, <2>4, <2>5
<1> QED
  BY <1>3, <1>4, <1>5, <1>6

(* For any number of dialogs, modal or not: every variable has its type,   *)
(* and as long as modal dialogs are closed in the reverse of the order in  *)
(* which they were opened, and never while closed with another one open,   *)
(* there is an overlay for each, the filter is bound exactly while one is  *)
(* open, and events reach the one on top and none of those below (jquery-  *)
(* ui-1.7.2.custom.js 4282-4385, 4667-4719).                               *)
THEOREM ModalCorrect == DialogsSpec => [](DialogsTypeOK /\ ModalWhileTidy)
<1>1. DialogsInit => DialogsInv
  <2>1. SUFFICES ASSUME DialogsInit PROVE DialogsInv
    OBVIOUS
  <2> DEFINE z == [d \in Dialog |-> zIndex]
             e == <<>>
  <2>2. /\ z \in [Dialog -> Nat] /\ \A d \in Dialog : z[d] <= 1
    BY DEF zIndex
  <2>3. e \in Seq(Nat) /\ e \in Seq(Dialog) /\ Len(e) = 0 /\ 1..0 = {}
    OBVIOUS
  <2>4. dialogs = [open |-> {}, overlay |-> {}, z |-> z, maxZ |-> 0,
                   instances |-> e, overlayZ |-> 0, timers |-> 0,
                   blocking |-> FALSE, escape |-> NoDialog, stack |-> e,
                   tidy |-> TRUE]
    BY <2>1 DEF DialogsInit
  <2> HIDE DEF z, e
  <2>5. /\ dialogs \in DialogsState /\ dialogs.open = {} /\ dialogs.z = z
        /\ dialogs.instances = e /\ dialogs.stack = e
        /\ dialogs.overlay = {} /\ ~dialogs.blocking
    BY <2>2, <2>3, <2>4 DEF DialogsState
  <2>6. Bounded(dialogs)
    BY <2>2, <2>3, <2>5 DEF Bounded
  <2>7. Layered(dialogs)
    BY <2>3, <2>5 DEF Layered
  <2>8. modal \subseteq Dialog
    BY <2>1 DEF DialogsInit
  <2> QED
    BY <2>3, <2>5, <2>6, <2>7, <2>8 DEF DialogsInv, Stacked
<1>2. ASSUME DialogsInv, DialogsNext PROVE DialogsInv'
  <2>1. Stacked(dialogs) /\ modal \subseteq Dialog /\ modal' = modal
    BY <1>2 DEF DialogsInv, DialogsNext
  <2>2. dialogs.escape \in Dialog \cup {NoDialog}
    BY <2>1, DialogsFields DEF Stacked
  <2>3. ASSUME NEW d \in Dialog, Open(d) PROVE Stacked(dialogs')
    <3>1. d \notin dialogs.open
          /\ dialogs' = [moveToTop(IF d \in modal THEN createOverlay(dialogs, d)
                                   ELSE dialogs, d) EXCEPT !.open = @ \cup {d}]
      BY <2>3, Zenon DEF Open
    <3> QED
      BY <2>1, <3>1, OpenKeeps
  <2>4. ASSUME NEW d \in Dialog, Close(d) PROVE Stacked(dialogs')
    BY <2>1, <2>4, CloseKeeps DEF Close
  <2>5. ASSUME NEW d \in Dialog, EscapeIn(d) PROVE Stacked(dialogs')
    <3> DEFINE s == close(dialogs, d)
    <3>1. Stacked(s)
      BY <2>1, CloseKeeps
    <3>2. dialogs' = IF s.escape = NoDialog THEN s ELSE close(s, s.escape)
      BY <2>5 DEF EscapeIn
    <3> HIDE DEF s
    <3>3. s.escape \in Dialog \cup {NoDialog}
      BY <3>1, DialogsFields DEF Stacked
    <3>4. CASE s.escape = NoDialog
      BY <3>1, <3>2, <3>4
    <3>5. CASE s.escape # NoDialog
      BY <2>1, <3>1, <3>2, <3>3, <3>5, CloseKeeps
    <3> QED
      BY <3>4, <3>5
  <2>6. ASSUME EscapeOnPage PROVE Stacked(dialogs')
    <3>1. /\ dialogs.escape \in Dialog
          /\ dialogs' = close(dialogs, dialogs.escape)
      BY <2>2, <2>6 DEF EscapeOnPage
    <3> QED
      BY <2>1, <3>1, CloseKeeps
  <2>7. ASSUME NEW d \in Dialog, PressIn(d) PROVE Stacked(dialogs')
    BY <2>1, <2>7, PressKeeps DEF PressIn
  <2>8. ASSUME BindOverlay PROVE Stacked(dialogs')
    <3>1. dialogs.timers > 0 /\ dialogs' = BoundLater(dialogs)
      BY <2>8 DEF BindOverlay, BoundLater
    <3> QED
      BY <2>1, <3>1, BindKeeps
  <2>9. Stacked(dialogs')
    BY <1>2, <2>3, <2>4, <2>5, <2>6, <2>7, <2>8 DEF DialogsNext
  <2> QED
    BY <2>1, <2>9 DEF DialogsInv, Stacked, Layered, Bounded
<1>3. ASSUME DialogsInv, UNCHANGED dialogsVars PROVE DialogsInv'
  BY <1>3 DEF dialogsVars, DialogsInv, Stacked, Layered, Bounded
<1>4. ASSUME DialogsInv PROVE DialogsTypeOK /\ ModalWhileTidy
  <2>1. dialogs \in DialogsState /\ modal \subseteq Dialog
        /\ (dialogs.tidy => Layered(dialogs))
    BY <1>4 DEF DialogsInv, Stacked
  <2>2. DialogsTypeOK
    BY <2>1 DEF DialogsTypeOK, DialogsState
  <2>3. ModalWhileTidy
    BY <2>1, LayeredModal DEF ModalWhileTidy
  <2> QED
    BY <2>2, <2>3
<1> QED
  BY <1>1, <1>2, <1>3, <1>4, PTL DEF DialogsSpec
============================================================================
