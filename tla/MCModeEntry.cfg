SPECIFICATION Spec
CONSTANTS
  Mode = {0, 5, 10}
  LowCentre = {10}
  NoMode = 255
  Rereads = TRUE
INVARIANTS
  TypeOK
  SetUpForItsMode
PROPERTIES
  PresetOncePerRequest
  SelectedModeIsDrawn
