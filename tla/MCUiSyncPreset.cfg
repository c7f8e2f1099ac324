SPECIFICATION Spec
CONSTANTS
  Program = {2, 6}
  ModeCount <- MCModeCount
  UiModeCount <- MCModeCount
  Param = {"speed", "linearSpeed"}
  ParamTable <- MCParamTable
  IntegerParam = {"linearSpeed"}
  UiParams <- MCSame
  DeviceParams <- MCSame
  Value = {2, 3}
  UiDefault <- MCDefault
  BootValue <- MCDefault
  Slot = {1}
  BootProgram = 6
  BootMode = 1
  NoProgram = NoProgram
  NoTimer = NoTimer
  NoPreset = NoPreset
  MaxActions = 6
INVARIANT PresetIsShown
CHECK_DEADLOCK FALSE
