-------------------------------- MODULE Slider --------------------------------
(***************************************************************************)
(* The slider widget of jQuery UI with one handle, or with the two handles *)
(* of a range, moved by the mouse, by keys and by scripts, and a text that *)
(* follows its slide events as the fields of the job form do.              *)
(***************************************************************************)
EXTENDS Integers

CONSTANTS
  SliderMax,   \* the largest option max; min is 0
  StepSize     \* values of the option step

ASSUME SliderAssumption == SliderMax \in Nat /\ StepSize \subseteq Nat \ {0}

VARIABLES
  sliderOptions,  \* the number of handles and the step
  slider

sliderVars == <<sliderOptions, slider>>

SliderTypeOK ==
  /\ sliderOptions \in [handles : {1, 2}, step : StepSize]
  /\ slider \in [max : 0..SliderMax,             \* options.max
                 stored : [{0, 1} -> Int],       \* options.value, options.values
                 handleIndex : {0, 1, -1},       \* the handle dragged, or none
                 keySliding : BOOLEAN,
                 text : [{0, 1} -> Int],         \* what slide reported last
                 scripted : BOOLEAN]   \* a script changed it; for the properties

SliderInit ==
  /\ sliderOptions \in [handles : {1, 2}, step : StepSize]
  /\ slider = [max |-> SliderMax, stored |-> [i \in {0, 1} |-> 0],
               handleIndex |-> -1, keySliding |-> FALSE,
               text |-> [i \in {0, 1} |-> 0], scripted |-> FALSE]

isRange == sliderOptions.handles = 2

\* _value and _values: a stored value out of range is clamped when read.
reading(s, i) ==
  IF s.stored[i] < 0 THEN 0 ELSE IF s.stored[i] > s.max THEN s.max ELSE s.stored[i]

\* _normValueFromMouse at position p: to the nearest step, upwards past half.
normValue(p) ==
  LET rest == p % sliderOptions.step
  IN p - rest + (IF 2 * rest > sliderOptions.step THEN sliderOptions.step ELSE 0)

\* Mutant: the handles of a range do not stop at each other.
slideFreely(s, i, v) ==
  IF v = reading(s, i) THEN s ELSE [s EXCEPT !.stored[i] = v, !.text[i] = v]

\* _slide: the handles of a range stop at each other, and a value that does
\* not change is neither reported nor stored.
slide(s, i, v) ==
  LET other == reading(s, 1 - i)
      new == IF isRange /\ (IF i = 0 THEN v > other ELSE v < other)
             THEN other ELSE v
  IN IF new = reading(s, i) THEN s
     ELSE [s EXCEPT !.stored[i] = new, !.text[i] = new]

\* The slide callback may refuse the value by returning false: it is not stored,
\* and the text of a callback that refuses it stays.
slides(s, i, v) == {slide(s, i, v), s}

Distance(a, b) == IF a > b THEN a - b ELSE b - a

\* _mouseCapture takes the nearest handle, the first of two equally near, but
\* the second when it is at the minimum, and slides it to the mouse.
Capture(p) ==
  /\ slider.handleIndex = -1 /\ p <= slider.max
  /\ LET v == normValue(p)
         i == IF /\ isRange
                 /\ \/ Distance(v, reading(slider, 1)) < Distance(v, reading(slider, 0))
                    \/ reading(slider, 1) = 0
              THEN 1 ELSE 0
     IN \E s \in slides(slider, i, v) : slider' = [s EXCEPT !.handleIndex = i]

SliderDrag(p) ==
  /\ slider.handleIndex # -1 /\ p <= slider.max
  /\ slider' \in slides(slider, slider.handleIndex, normValue(p))

SliderStop ==
  /\ slider.handleIndex # -1
  /\ slider' = [slider EXCEPT !.handleIndex = -1]

\* Home, End and the arrow keys with the focus on handle i; the arrows do not
\* ask whether a whole step is left.
keyTargets(i) ==
  LET v == reading(slider, i)
  IN {0, slider.max} \cup {v + d : d \in
       (IF v = slider.max THEN {} ELSE {sliderOptions.step})
         \cup (IF v = 0 THEN {} ELSE {-sliderOptions.step})}

KeyDown(i) ==
  /\ i < sliderOptions.handles
  /\ \E v \in keyTargets(i) : \E s \in slides(slider, i, v) :
       slider' = [s EXCEPT !.keySliding = TRUE]

KeyUp == slider.keySliding /\ slider' = [slider EXCEPT !.keySliding = FALSE]

\* A script sets the options value or max of a slider with one handle, as
\* moving the population slider of the job form does to the evaluations.
SetOption ==
  /\ ~isRange
  /\ \E v \in 0..SliderMax :
       slider' \in {[slider EXCEPT !.stored[0] = v, !.scripted = TRUE],
                    [slider EXCEPT !.max = v, !.scripted = TRUE]}

SliderNext ==
  /\ \/ \E p \in 0..SliderMax : Capture(p) \/ SliderDrag(p)
     \/ \E i \in {0, 1} : KeyDown(i)
     \/ SliderStop \/ KeyUp \/ SetOption
  /\ UNCHANGED sliderOptions

(***************************************************************************)
(* The handles of a range never cross, however keys and the mouse take     *)
(* turns; and unless a script has set it or the step does not divide the   *)
(* range, the text shows what the slider reads.  (With such a step a slide *)
(* may store and report a value beyond an end of the slider.)              *)
(***************************************************************************)
SliderFollowed ==
  /\ isRange => reading(slider, 0) <= reading(slider, 1)
  /\ ~slider.scripted /\ slider.max % sliderOptions.step = 0 =>
       \A i \in 0..(sliderOptions.handles - 1) :
         slider.text[i] = reading(slider, i)
=============================================================================
