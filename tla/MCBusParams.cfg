SPECIFICATION Spec
CONSTANTS
  A = A
  C = C
  Bus = {A, C}
  BusOrder <- MCOrder
  Value = {0, 1}
  InitialValue = 1
  UiDefault = 0
  Overridden = {A}
  PresetValue = 0
  None = None
  MaxActions = 5
INVARIANTS
  TypeOK
  AcceptedStands
  PanelAgrees
PROPERTIES
  PanelIsFilled
CHECK_DEADLOCK FALSE
