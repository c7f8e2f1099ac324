SPECIFICATION Spec
CONSTANTS
  Program <- MCProgram
  Mode <- MCMode
  ModeCount <- MCModeCount
  Param <- MCParam
  OverrideMapping <- MCOverrideMapping
  DefaultMapping <- MCDefaultMapping
  Slot = {}
  BootProgram = 6
  BootMode = 1
  BootParam = "v0"
  NoProgram = 255
  NoPreset = NoPreset
  NoMode = NoMode
INVARIANTS
  CleanReentry
