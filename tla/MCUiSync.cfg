SPECIFICATION Spec
CONSTANTS
  Program = {2, 6}
  ModeCount <- MCModeCount
  UiModeCount <- MCModeCount
  Param = {"speed", "linearSpeed"}
  ParamTable <- MCParamTable
  IntegerParam = {"linearSpeed"}
  UiParams <- MCSame
  DeviceParams <- MCFirmware
  Value = {2, 3}
  UiDefault <- MCDefault
  BootValue <- MCDefault
  Slot = {1}
  BootProgram = 6
  BootMode = 1
  NoProgram = NoProgram
  NoTimer = NoTimer
  NoPreset = NoPreset
  MaxActions = 5
INVARIANTS
  TypeOK
  SelectionAgrees
  ConfirmedSliderAgrees
  DragsAreSent
CHECK_DEADLOCK FALSE
