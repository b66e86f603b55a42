SPECIFICATION SuiteSpec
CONSTANTS
  Elem = {e1, e2}
  NoElem = NoElem
  Content = e1
  Animation <- MCAnimation
  MaxFxQueue = 3
  Request = {r1, r2}
  Dialog = {d1, d2}
  NoDialog = NoDialog
  MaxZ = 10
  MaxTimers = 2
  MaxLeaked = 1
  MaxDelays = 1
  Item = {i1, i2, i3}
  NoItem = NoItem
  SliderMax = 4
  StepSize = {1, 2, 3}
  t1 = t1
  t2 = t2
  t3 = t3
  Job = {j1, j2, j3}
  NoJob = NoJob
  Ungrouped = {j3}
  MaxRequests = 2
  Tab = {t1, t2, t3}
  NoTab = NoTab
  Header = {h1, h2}
  Nothing = Nothing
  MaxAnimations = 2
CONSTRAINT Bound
INVARIANTS
  NothingStranded
  HiddenThenQueued
  ActiveMatches
  OneAnswer
  TabsInStep
  ModalWhileTidy
  
  DragIsHeld
  LassoDecides
  SliderFollowed
  ConfirmCurrent
  AnswersInStep
  StepsInOrder
  HelpMatches
PROPERTIES
  StepIsShown
  Settles
CHECK_DEADLOCK FALSE
