------------------------------- MODULE Dialogs -------------------------------
(***************************************************************************)
(* The dialog widget of jQuery UI and the overlays of its modal dialogs.   *)
(* The dialogs of a page share the list overlay.instances, the handlers    *)
(* that the first overlay binds to the document, and two z-index counters. *)
(***************************************************************************)
EXTENDS Lists, FiniteSets, SequencesExt

CONSTANTS
  Dialog,
  NoDialog,
  MaxZ,       \* bound: z-indices handed out
  MaxTimers   \* bound: overlays created whose timer has not fired

VARIABLES
  modal,    \* the dialogs created with modal: true
  dialogs   \* the state of the widgets and of $.ui.dialog

dialogsVars == <<modal, dialogs>>

\* The default option zIndex; only its order against z-indices counts.
zIndex == 1

DialogsTypeOK ==
  /\ modal \subseteq Dialog
  /\ dialogs \in
       [open : SUBSET Dialog,      \* _isOpen
        overlay : SUBSET Dialog,   \* this.overlay is not null
        z : [Dialog -> Nat],       \* z-index of uiDialog
        maxZ : Nat,                \* dialog.maxZ
        instances : Seq(Nat),      \* overlay.instances, by z-index
        overlayZ : Nat,            \* overlay.maxZ
        timers : Nat,              \* timeouts of overlay.create under way
        blocking : BOOLEAN,        \* the handler that filters events
        escape : Dialog \cup {NoDialog},  \* whom the keydown handler closes
        stack : Seq(Dialog),       \* modal dialogs in the order opened, and
        tidy : BOOLEAN]            \* closed in reverse; for the properties only

DialogsInit ==
  /\ modal \in SUBSET Dialog
  /\ dialogs =
       [open |-> {}, overlay |-> {}, z |-> [d \in Dialog |-> zIndex],
        maxZ |-> 0, instances |-> <<>>, overlayZ |-> 0, timers |-> 0,
        blocking |-> FALSE, escape |-> NoDialog, stack |-> <<>>, tidy |-> TRUE]

Largest(zs) == Max(zs \cup {0})
----------------------------------------------------------------------------
\* overlay.create, before the overlay has its z-index: the first one binds
\* Escape to its own dialog at once and the filter a moment later.
createOverlay(s, d) ==
  [s EXCEPT !.overlay = @ \cup {d}, !.stack = Append(@, d),
            !.timers = IF s.instances = <<>> THEN @ + 1 ELSE @,
            !.escape = IF s.instances = <<>> THEN d ELSE @]

\* Mutant: the first instance is removed.
destroyFirst(s) ==
  LET left == IF s.instances = <<>> THEN <<>> ELSE Tail(s.instances)
  IN [s EXCEPT !.instances = left,
               !.blocking = @ /\ left # <<>>,
               !.escape = IF left = <<>> THEN NoDialog ELSE @,
               !.overlayZ = Largest(ToSet(left))]

\* overlay.destroy: $.inArray is called with its arguments exchanged and
\* always answers -1, so splice removes the last instance, whichever it is.
destroyOverlay(s) ==
  LET left == SubSeq(s.instances, 1, Len(s.instances) - 1)
  IN [s EXCEPT !.instances = left,
               !.blocking = @ /\ left # <<>>,
               !.escape = IF left = <<>> THEN NoDialog ELSE @,
               !.overlayZ = Largest(ToSet(left))]

\* moveToTop with force: the overlay, then the dialog, on top of everything.
moveToTop(s, d) ==
  LET top == Largest({s.maxZ, zIndex})
  IN IF d \in modal
     THEN [s EXCEPT !.overlayZ = top + 1, !.instances = Append(@, top + 1),
                    !.z[d] = top + 2, !.maxZ = top + 2]
     ELSE [s EXCEPT !.z[d] = top + 1, !.maxZ = top + 1]

\* close does not ask whether the dialog is open, and keeps this.overlay.
close(s, d) ==
  LET gone == IF d \in s.overlay THEN destroyOverlay(s) ELSE s
  IN [gone EXCEPT
        !.open = @ \ {d},
        !.maxZ = IF d \in modal THEN Largest({s.z[c] : c \in Dialog \ {d}})
                 ELSE @,
        !.stack = Without(@, {d}),
        !.tidy = @ /\ (d \in s.overlay /\ s.stack # <<>> => d = Last(s.stack))]

Open(d) ==
  /\ d \notin dialogs.open /\ dialogs.maxZ + 2 <= MaxZ
  /\ dialogs.timers < MaxTimers
  /\ dialogs' = LET s == IF d \in modal THEN createOverlay(dialogs, d) ELSE dialogs
                IN [moveToTop(s, d) EXCEPT !.open = @ \cup {d}]

\* The close button, or a script, for which the dialog need not be open.
Close(d) == dialogs' = close(dialogs, d)

\* Escape with the focus in a dialog closes it, and bubbles to the document.
EscapeIn(d) ==
  /\ d \in dialogs.open
  /\ LET s == close(dialogs, d)
     IN dialogs' = IF s.escape = NoDialog THEN s ELSE close(s, s.escape)

EscapeOnPage ==
  /\ dialogs.escape # NoDialog
  /\ dialogs' = close(dialogs, dialogs.escape)

\* A mouse press in a dialog; modal dialogs move only when they are opened.
PressIn(d) ==
  /\ d \in dialogs.open \ modal /\ dialogs.maxZ < MaxZ
  /\ dialogs' = moveToTop(dialogs, d)

\* The timeout of overlay.create.
BindOverlay ==
  /\ dialogs.timers > 0
  /\ dialogs' = [dialogs EXCEPT !.timers = @ - 1,
                                !.blocking = @ \/ dialogs.instances # <<>>]

DialogsNext ==
  /\ \/ \E d \in Dialog : Open(d) \/ Close(d) \/ EscapeIn(d) \/ PressIn(d)
     \/ EscapeOnPage \/ BindOverlay
  /\ UNCHANGED modal

DialogsSpec == DialogsInit /\ [][DialogsNext]_dialogsVars

(***************************************************************************)
(* As long as modal dialogs are closed in the reverse of the order in which*)
(* they were opened, and never while closed with another one open, the page*)
(* is modal: the filter is bound exactly while one is open (once the       *)
(* timeout has fired), there is one instance for each, and events reach    *)
(* the one on top and none of those below.                                 *)
(***************************************************************************)
ModalWhileTidy ==
  dialogs.tidy =>
    /\ Len(dialogs.instances) = Len(dialogs.stack)
    /\ ToSet(dialogs.stack) = dialogs.open \cap modal
    /\ dialogs.timers = 0 => (dialogs.blocking <=> dialogs.stack # <<>>)
    /\ dialogs.stack # <<>> =>
         LET top == Last(dialogs.stack)
         IN /\ dialogs.z[top] > dialogs.overlayZ
            /\ \A d \in ToSet(dialogs.stack) \ {top} :
                 dialogs.z[d] < dialogs.overlayZ
=============================================================================
