------------------------------- MODULE Wizard -------------------------------
(***************************************************************************)
(* wizard.js: a five-step form in one content element, which each click    *)
(* hides, fills and fades in again by way of the effects queue.            *)
(***************************************************************************)
EXTENDS Effects

CONSTANTS Content   \* the element #wizardcontent

ASSUME ContentAssumption == Content \in Elem

VARIABLES
  step,     \* the number in the class of #wizard
  clicked   \* the button clicked last; for the properties only

wizardVars == <<step, clicked, effectsVars>>

fadeIn == [to |-> "show", sized |-> FALSE, ticks |-> 2]

WizardInit ==
  /\ EffectsInit
  /\ step = 0
  /\ clicked = "none"

\* The buttons load_state enables for the state it loads.
nextEnabled == step < 5
previousEnabled == step > 1

\* Mutant: a second click while a fade is running does not ask for another.
load_stateOnce(s) ==
  /\ Quiet
  /\ IF fxqueue[Content] = <<>> THEN animate(Content, fadeIn)
     ELSE UNCHANGED <<fxqueue, timers, timerId, due, at>>
  /\ display(Content, FALSE)
  /\ step' = s

\* The hide() of the handler, then load_state: fill the content, fade it in.
load_state(s) ==
  /\ animate(Content, fadeIn)
  /\ display(Content, FALSE)
  /\ step' = s

Ready == step = 0 /\ load_state(1) /\ UNCHANGED clicked

NextStep == step > 0 /\ nextEnabled /\ load_state(step + 1) /\ clicked' = "next"

PreviousStep ==
  /\ step > 0 /\ previousEnabled
  /\ load_state(step - 1)
  /\ clicked' = "previous"

\* Any other submit button only hides the content.
OtherSubmit ==
  /\ step > 0 /\ Display(Content, FALSE)
  /\ clicked' = "other"
  /\ UNCHANGED step

WizardMachinery == Machinery /\ UNCHANGED <<step, clicked>>

WizardNext ==
  Ready \/ NextStep \/ PreviousStep \/ OtherSubmit \/ WizardMachinery

\* The interval fires as long as it is set, and every handler returns.
WizardFairness == WF_wizardVars(WizardMachinery)

WizardSpec == WizardInit /\ [][WizardNext]_wizardVars /\ WizardFairness

(***************************************************************************)
(* The content is hidden between two handlers only while a fade that began *)
(* before the click is still running and the fade that will show the new   *)
(* step waits behind it, unless the last click was on a button that shows  *)
(* nothing.  The queue, not the click, decides when the step appears.      *)
(***************************************************************************)
HiddenThenQueued ==
  Quiet /\ step > 0 /\ ~shown[Content] /\ clicked # "other"
    => Len(fxqueue[Content]) > 1

\* Every step the user goes to is eventually shown.
StepIsShown ==
  [](~shown[Content] /\ step > 0 /\ clicked # "other"
       => <>(shown[Content] \/ clicked = "other"))
=============================================================================
