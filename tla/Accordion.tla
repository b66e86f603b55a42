------------------------------ MODULE Accordion ------------------------------
(***************************************************************************)
(* The accordion widget of jQuery UI: one section open at a time, with an  *)
(* animation between two clicks during which further clicks are ignored,   *)
(* and a tab order that the keyboard moves along.                          *)
(***************************************************************************)
EXTENDS Integers, FiniteSets, SequencesExt

CONSTANTS
  Header,        \* the headers, each with the content next to it
  Nothing,       \* no header: an empty set of elements, or the index -1
  MaxAnimations  \* bound: animations under way

ASSUME NothingAssumption == Nothing \notin Header

VARIABLES
  accOptions,  \* collapsible and animated, which do not change
  accordion    \* the state of the widget

accordionVars == <<accOptions, accordion>>

AccordionTypeOK ==
  /\ accOptions \in [collapsible : BOOLEAN, animated : BOOLEAN]
  /\ accordion \in
       [active : Header \cup {Nothing},    \* this.active
        option : Header \cup {Nothing},    \* the option "active"
        running : Int,
        animations : Seq(Header \cup {Nothing}),  \* each with what it hides
        shown : SUBSET Header,             \* headers with their content shown
        tabbable : SUBSET Header,          \* headers with tabIndex 0
        closed : BOOLEAN,    \* activate(false) was called, and it came while
        crossed : BOOLEAN]   \* an animation ran; for the properties only

AccordionStart(first) ==
  [active |-> first, option |-> Nothing, running |-> 0, animations |-> <<>>,
   shown |-> {first}, tabbable |-> {first}, closed |-> FALSE, crossed |-> FALSE]

Some(h) == {h} \ {Nothing}
----------------------------------------------------------------------------
\* _completed, when the animation of the content of h ends.
completed(a, h) ==
  [a EXCEPT !.running = @ - 1, !.shown = @ \ Some(h)]

\* _toggle: the new content appears at once, the old one goes at the end of
\* the animation; running is set, not increased.  An animation of nothing
\* never completes.
toggle(a, toShow, toHide) ==
  LET s == [a EXCEPT !.shown = @ \cup Some(toShow)]
      n == IF Some(toHide) \cup Some(toShow) = {} THEN 0 ELSE 1
  IN IF ~accOptions.animated
     THEN [s EXCEPT !.running = 0, !.shown = @ \ Some(toHide)]
     ELSE [s EXCEPT !.running = n,
                    !.animations = IF n = 0 THEN @ ELSE Append(@, toHide)]

\* The tab order _toggle leaves: the header of toHide out, that of toShow in.
tabOrder(a, toShow, toHide) ==
  [a EXCEPT !.tabbable = (@ \ Some(toHide)) \cup Some(toShow)]

\* Mutant: clicks during an animation are taken.
clickAnyTime(a, h) ==
  LET s == tabOrder([a EXCEPT !.option = h], h, a.active)
  IN IF h = a.active
     THEN IF accOptions.collapsible
          THEN toggle([s EXCEPT !.active = Nothing], Nothing, h) ELSE a
     ELSE toggle([s EXCEPT !.active = h], h, a.active)

clickHandler(a, h) ==
  LET s == tabOrder([a EXCEPT !.option = h], h, a.active)
  IN IF a.running # 0 \/ (~accOptions.collapsible /\ h = a.active)
     THEN [a EXCEPT !.option = h]
     ELSE IF h = a.active
     THEN toggle([s EXCEPT !.active = Nothing], Nothing, h)
     ELSE toggle([s EXCEPT !.active = h], h, a.active)

\* activate(false): a collapsible accordion closes, animation or not; for any
\* other the click handler sees a click on no header at all.
closeAll(a) ==
  LET s == [a EXCEPT !.option = Nothing, !.closed = TRUE,
                     !.crossed = @ \/ a.animations # <<>>]
  IN IF accOptions.collapsible
     THEN toggle(tabOrder([s EXCEPT !.active = Nothing], Nothing, a.active),
                 Nothing, a.active)
     ELSE clickHandler(s, Nothing)
----------------------------------------------------------------------------
AccordionInit ==
  /\ accOptions \in [collapsible : BOOLEAN, animated : BOOLEAN]
  /\ \E first \in Header : accordion = AccordionStart(first)

ClickHeader(h) ==
  /\ Len(accordion.animations) < MaxAnimations
  /\ accordion' = clickHandler(accordion, h)

CloseAll ==
  /\ Len(accordion.animations) < MaxAnimations
  /\ accordion' = closeAll(accordion)

\* An arrow key on a header moves the focus to a neighbour.
ArrowKey(from, to) ==
  accordion' = [accordion EXCEPT !.tabbable = (@ \ {from}) \cup {to}]

\* The complete callback of the oldest animation.
AnimationEnds ==
  /\ accordion.animations # <<>>
  /\ accordion' = completed([accordion EXCEPT !.animations = Tail(@)],
                            Head(accordion.animations))

AccordionNext ==
  /\ \/ \E h \in Header : ClickHeader(h)
     \/ \E h, g \in Header : h # g /\ ArrowKey(h, g)
     \/ CloseAll \/ AnimationEnds
  /\ UNCHANGED accOptions

AccordionSpec ==
  /\ AccordionInit /\ [][AccordionNext]_accordionVars
  /\ WF_accordionVars(AnimationEnds /\ UNCHANGED accOptions)

(***************************************************************************)
(* Unless activate(false) came in the middle of an animation, running is   *)
(* the number of animations under way, so clicks are taken again when it   *)
(* ends; then exactly the content of the active header is displayed, and   *)
(* the keyboard reaches a header unless activate(false) was called.  (The  *)
(* exception matters: running goes below zero and no click is taken ever.) *)
(***************************************************************************)
OneSection ==
  /\ ~accordion.crossed =>
       /\ accordion.running = Len(accordion.animations)
       /\ accordion.running = 0 => accordion.shown = Some(accordion.active)
  /\ ~accordion.closed =>
       /\ accordion.tabbable # {}
       /\ ~accOptions.collapsible => accordion.active # Nothing
=============================================================================
