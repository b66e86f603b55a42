------------------------------- MODULE Effects -------------------------------
(***************************************************************************)
(* jQuery's animation core: the "fx" queue every element carries, the      *)
(* global list jQuery.timers with one entry per animated property, and the *)
(* one interval that steps them all.  A queued animation stays at the head *)
(* of its queue while it runs; its complete function dequeues it.          *)
(*                                                                         *)
(* A browser runs one handler at a time, so a call is one step, except     *)
(* that starting the animation that a queue or a dequeue has exposed       *)
(* (due), and each pass of the interval's loop (at), are steps of their    *)
(* own during which no other handler runs.                                 *)
(***************************************************************************)
EXTENDS Naturals, SequencesExt, Lists

CONSTANTS
  Elem,        \* elements that are animated
  NoElem,
  Animation,   \* the animations calls may ask for; see AnimationForm
  MaxFxQueue   \* bound: animations a caller lets wait on one element

AnimationForm == [to : {"show", "hide", "toggle"},
                  sized : BOOLEAN,      \* animates height as well as opacity
                  ticks : Nat \ {0}]    \* duration, in turns of the interval

ASSUME EffectsAssumption == NoElem \notin Elem /\ Animation \subseteq AnimationForm

VARIABLES
  fxqueue,  \* the "fxqueue" data of each element
  timers,   \* jQuery.timers
  timerId,  \* is the interval running
  shown,    \* style.display of each element is not "none"
  due,      \* the element whose exposed animation is being started, or NoElem
  at        \* index in the interval's loop, 0 outside it

effectsVars == <<fxqueue, timers, timerId, shown, due, at>>

EffectsTypeOK ==
  /\ fxqueue \in [Elem -> Seq(AnimationForm)]
  /\ timers \in Seq([elem : Elem, to : {"show", "hide"}, sized : BOOLEAN,
                     height : BOOLEAN, left : Nat \ {0}])
  /\ timerId \in BOOLEAN
  /\ shown \in [Elem -> BOOLEAN]
  /\ due \in Elem \cup {NoElem}
  /\ at \in Nat

EffectsInit ==
  /\ fxqueue = [e \in Elem |-> <<>>]
  /\ timers = <<>> /\ timerId = FALSE
  /\ shown \in [Elem -> BOOLEAN]
  /\ due = NoElem /\ at = 0

\* No handler is running, so another may start.
Quiet == due = NoElem /\ at = 0

OfElem(ts, e) == {i \in DOMAIN ts : ts[i].elem = e}

\* The timers ts without those of e.
stopped(ts, e) == Without(ts, {t \in ToSet(ts) : t.elem = e})

\* jQuery.dequeue: drop the head; the animation it exposes runs at once.
dequeue(e, q) ==
  /\ fxqueue' = [fxqueue EXCEPT ![e] = IF q = <<>> THEN q ELSE Tail(q)]
  /\ due' = IF Len(q) > 1 THEN e ELSE NoElem
----------------------------------------------------------------------------
\* fn.queue by way of animate: an animation that finds the queue empty runs.
animate(e, a) ==
  /\ Quiet /\ Len(fxqueue[e]) < MaxFxQueue
  /\ fxqueue' = [fxqueue EXCEPT ![e] = Append(@, a)]
  /\ due' = IF fxqueue[e] = <<>> THEN e ELSE NoElem
  /\ UNCHANGED <<timers, timerId, at>>

\* show() and hide() without a speed do not go through the queue.
display(e, on) == shown' = [shown EXCEPT ![e] = on]

Animate(e, a) == animate(e, a) /\ UNCHANGED shown

Display(e, on) ==
  /\ Quiet /\ display(e, on)
  /\ UNCHANGED <<fxqueue, timers, timerId, due, at>>

\* Mutant: an animation with nothing to do returns without its callback.
SkipSilently(e) ==
  /\ due = e
  /\ \/ Head(fxqueue[e]).to = "show" /\ shown[e]
     \/ Head(fxqueue[e]).to = "hide" /\ ~shown[e]
  /\ due' = NoElem
  /\ UNCHANGED <<fxqueue, timers, timerId, shown, at>>

\* The queued function of animate, when it has nothing to do ...
Skip(e) ==
  /\ due = e
  /\ \/ Head(fxqueue[e]).to = "show" /\ shown[e]
     \/ Head(fxqueue[e]).to = "hide" /\ ~shown[e]
  /\ dequeue(e, fxqueue[e])
  /\ UNCHANGED <<timers, timerId, shown, at>>

\* ... and when it pushes one timer per property: the second property starts
\* no earlier than the first, so it may need one turn more.
Run(e) ==
  /\ due = e
  /\ LET a == Head(fxqueue[e])
         to == IF a.to # "toggle" THEN a.to
               ELSE IF shown[e] THEN "hide" ELSE "show"
         timer(left, height) ==
           [elem |-> e, to |-> to, sized |-> a.sized, height |-> height,
            left |-> left]
     IN /\ shown[e] <=> to = "hide"
        /\ \E late \in {0, 1} :
             timers' = timers \o <<timer(a.ticks, a.sized)>> \o
               (IF a.sized THEN <<timer(a.ticks + late, FALSE)>> ELSE <<>>)
  /\ timerId' = TRUE
  /\ shown' = [shown EXCEPT ![e] = TRUE]
  /\ due' = NoElem
  /\ UNCHANGED <<fxqueue, at>>

Tick ==
  /\ timerId /\ Quiet
  /\ at' = 1
  /\ UNCHANGED <<fxqueue, timers, timerId, shown, due>>

\* timers[i]() of a timer that goes on: a height animation writes
\* display = "block" each time.
Advance ==
  /\ due = NoElem /\ at \in DOMAIN timers
  /\ timers[at].left > 1
  /\ timers' = [timers EXCEPT ![at].left = @ - 1]
  /\ at' = at + 1
  /\ shown' = [shown EXCEPT ![timers[at].elem] = @ \/ timers[at].height]
  /\ UNCHANGED <<fxqueue, timerId, due>>

\* The end of an animation: hide() it if it hides, otherwise give a height
\* animation its display back.
ends(t, on) == t.to = "show" /\ (on \/ t.sized)

\* timers[i]() of a timer that ends, and its splice(i--, 1); the last one of
\* its animation runs the complete function.
Expire ==
  /\ due = NoElem /\ at \in DOMAIN timers
  /\ timers[at].left = 1
  /\ timers' = RemoveAt(timers, at)
  /\ LET t == timers[at]
     IN IF OfElem(timers, t.elem) = {at}
        THEN /\ dequeue(t.elem, fxqueue[t.elem])
             /\ shown' = [shown EXCEPT ![t.elem] = ends(t, @)]
        ELSE /\ shown' = [shown EXCEPT ![t.elem] = @ \/ t.height]
             /\ UNCHANGED <<fxqueue, due>>
  /\ UNCHANGED <<timerId, at>>

EndTick ==
  /\ due = NoElem /\ at > Len(timers)
  /\ at' = 0
  /\ timerId' = (timers # <<>>)
  /\ UNCHANGED <<fxqueue, timers, shown, due>>

\* Mutant: stop leaves the queue to the animation it stopped.
StopAndHold(e, clearQueue, gotoEnd) ==
  /\ Quiet
  /\ timers' = stopped(timers, e)
  /\ fxqueue' = [fxqueue EXCEPT ![e] = IF clearQueue THEN <<>> ELSE @]
  /\ UNCHANGED <<due, shown, timerId, at>>

\* stop(clearQueue, gotoEnd).  Forcing the timers to their end completes the
\* animation, which dequeues; otherwise stop dequeues itself.
Stop(e, clearQueue, gotoEnd) ==
  /\ Quiet
  /\ timers' = stopped(timers, e)
  /\ LET q == IF clearQueue THEN <<>> ELSE fxqueue[e]
         mine == OfElem(timers, e)
     IN IF gotoEnd /\ mine = {}
        THEN /\ fxqueue' = [fxqueue EXCEPT ![e] = q]
             /\ UNCHANGED <<due, shown>>
        ELSE /\ dequeue(e, q)
             /\ shown' = IF gotoEnd
                         THEN [shown EXCEPT ![e] =
                                 ends(timers[CHOOSE i \in mine : TRUE], @)]
                         ELSE shown
  /\ UNCHANGED <<timerId, at>>

\* What goes on by itself once an animation has been asked for.
Machinery ==
  \/ \E e \in Elem : Skip(e) \/ Run(e)
  \/ Tick \/ Advance \/ Expire \/ EndTick

EffectsNext ==
  \/ \E e \in Elem :
       \/ \E a \in Animation : Animate(e, a)
       \/ \E on \in BOOLEAN : Display(e, on)
       \/ \E clearQueue, gotoEnd \in BOOLEAN : Stop(e, clearQueue, gotoEnd)
  \/ Machinery

EffectsSpec == EffectsInit /\ [][EffectsNext]_effectsVars

(***************************************************************************)
(* Nothing is stranded: whenever no handler runs, an element has animations*)
(* queued exactly when the one at the head of its queue has timers, and    *)
(* the interval runs while there are any.  A queue without a timer would   *)
(* never move again, and a timer without a queue would run beside the next *)
(* animation of the element.  stop, dequeue and the loop that splices the  *)
(* list it walks all have to get this right.                               *)
(***************************************************************************)
NothingStranded ==
  Quiet => /\ \A e \in Elem : fxqueue[e] # <<>> <=> OfElem(timers, e) # {}
           /\ timers # <<>> => timerId
=============================================================================
