\* Two menu ids with an action each, foreign menus of either parentage, three
\* QMenu and two QAction objects, one queued call.
SPECIFICATION Spec
CONSTANTS
  MenuId = {i1, i2}
  ActionId = {k1}
  Callback <- MCCallback
  BodyOf <- MCBodyOf
  Menu = {m1, m2, m3}
  Action = {a1, a2}
  NoMenu = NoMenu
  NoAction = NoAction
  ForeignIsChild = {TRUE, FALSE}
  MaxQueue = 1
SYMMETRY Symmetry
\* The pool of objects may be used up by foreign menus.
CHECK_DEADLOCK FALSE
INVARIANTS
  RecordsAreFit
  ClicksReachTheirRecord
  NothingLeaks
  DoomedAreOffBar
  ActionOutlivesItsCallback
  CallbacksReturn
PROPERTIES
  CallsHaveTheirEffect
