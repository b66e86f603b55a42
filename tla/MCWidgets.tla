------------------------------ MODULE MCWidgets ------------------------------
(***************************************************************************)
(* The script libraries of the web application for TLC.  The parts share no*)
(* state with each other, so a behaviour picks one and runs that one.      *)
(***************************************************************************)
EXTENDS Wizard, Ajax, Dialogs, Mouse, Selectable, Slider, Tabs,
        Accordion, JobPage

CONSTANTS t1, t2, t3   \* the tabs: two of the page, one to be added

VARIABLES part

suiteVars == <<part, wizardVars, ajaxVars, dialogsVars, mouseVars, selectable,
               sliderVars, tabsVars, accordionVars, pageVars>>

MCAnimation == { [to |-> "show", sized |-> FALSE, ticks |-> 1],
                 [to |-> "hide", sized |-> TRUE, ticks |-> 1],
                 [to |-> "toggle", sized |-> TRUE, ticks |-> 2] }

Parts == {"effects", "wizard", "ajax", "dialogs", "mouse", "selectable",
          "slider", "tabs", "accordion", "page"}

\* A part that does not run starts in one state only.
SuiteInit ==
  /\ part \in Parts
  /\ WizardInit
  /\ part \notin {"effects", "wizard"} => shown = [e \in Elem |-> TRUE]
  /\ AjaxInit
  /\ DialogsInit
  /\ part # "dialogs" => modal = {}
  /\ MouseInit
  /\ part # "mouse" => mouseOptions = [distance |-> FALSE, delay |-> FALSE,
                                      msie |-> FALSE]
  /\ SelectableInit
  /\ SliderInit
  /\ part # "slider" => sliderOptions = [handles |-> 1, step |-> 1]
  /\ TabsInit(<<t1, t2>>, {t3}, {})
  /\ part # "tabs" => /\ tabOptions = [collapsible |-> FALSE, cache |-> FALSE,
                                        remote |-> {}]
                      /\ tabs.selected = NoTab
  /\ AccordionInit
  /\ part # "accordion" =>
       /\ accOptions = [collapsible |-> FALSE, animated |-> TRUE]
       /\ accordion.active = CHOOSE h \in Header : TRUE
  /\ PageInit
  /\ part # "page" => form.start = 0

WizardPart ==
  /\ \/ part = "effects" /\ EffectsNext /\ UNCHANGED <<step, clicked>>
     \/ part = "wizard" /\ WizardNext
  /\ UNCHANGED <<part, ajaxVars, dialogsVars, mouseVars, selectable,
                 sliderVars, tabsVars, accordionVars, pageVars>>

AjaxPart ==
  /\ part = "ajax" /\ AjaxNext
  /\ UNCHANGED <<part, wizardVars, dialogsVars, mouseVars, selectable,
                 sliderVars, tabsVars, accordionVars, pageVars>>

DialogsPart ==
  /\ part = "dialogs" /\ DialogsNext
  /\ UNCHANGED <<part, wizardVars, ajaxVars, mouseVars, selectable,
                 sliderVars, tabsVars, accordionVars, pageVars>>

MousePart ==
  /\ part = "mouse" /\ MouseNext
  /\ UNCHANGED <<part, wizardVars, ajaxVars, dialogsVars, selectable,
                 sliderVars, tabsVars, accordionVars, pageVars>>

SelectablePart ==
  /\ part = "selectable" /\ SelectableNext
  /\ UNCHANGED <<part, wizardVars, ajaxVars, dialogsVars, mouseVars,
                 sliderVars, tabsVars, accordionVars, pageVars>>

SliderPart ==
  /\ part = "slider" /\ SliderNext
  /\ UNCHANGED <<part, wizardVars, ajaxVars, dialogsVars, mouseVars,
                 selectable, tabsVars, accordionVars, pageVars>>

TabsPart ==
  /\ part = "tabs" /\ TabsNext
  /\ UNCHANGED <<part, wizardVars, ajaxVars, dialogsVars, mouseVars,
                 selectable, sliderVars, accordionVars, pageVars>>

AccordionPart ==
  /\ part = "accordion" /\ AccordionNext
  /\ UNCHANGED <<part, wizardVars, ajaxVars, dialogsVars, mouseVars,
                 selectable, sliderVars, tabsVars, pageVars>>

PagePart ==
  /\ part = "page" /\ PageNext
  /\ UNCHANGED <<part, wizardVars, ajaxVars, dialogsVars, mouseVars,
                 selectable, sliderVars, tabsVars, accordionVars>>

SuiteNext ==
  \/ WizardPart \/ AjaxPart \/ DialogsPart \/ MousePart \/ SelectablePart
  \/ SliderPart \/ TabsPart \/ AccordionPart \/ PagePart

SuiteSpec ==
  /\ SuiteInit /\ [][SuiteNext]_suiteVars
  /\ WizardFairness /\ AjaxFairness

\* The bounds of the exploration.  What a tabs widget does once it is disturbed
\* no property is about, and three animations on one element are left to the
\* wizard.  Of the job page, the details dialog, which shares no state with the
\* form, is explored before anything else has been clicked; the accordion moves
\* off the form's section only while no request for data is under way and no
\* summary has been written; and a page that starts with another tab than the
\* first one asks for one answer at a time and leaves its last section closed.
Bound ==
  /\ ~tabs.disturbed
  /\ part = "effects" => \A e \in Elem : Len(fxqueue[e]) < MaxFxQueue
  /\ part = "page" =>
       /\ info # DetailsStart =>
            form.job = NoJob /\ pageTabs.selected = 0 /\ pageAccordion.option = None
       /\ \/ form.start = 0
          \/ Len(form.requests) < 2 /\ pageAccordion.active < 2
       /\ \/ form.requests = <<>> /\ form.summary = NoSummary
          \/ pageAccordion.running = 0 /\ pageAccordion.active = 1
               /\ pageAccordion.option = 1
=============================================================================
