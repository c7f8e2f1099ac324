SPECIFICATION Spec
CONSTANTS
  dim = dim
  bright = bright
  minutes = minutes
  moment = moment
  Wrap = 6
  MaxFrame = 1
  MaxCommands = 1
  Scene = {dim, bright}
  Duration = {minutes, moment}
  BootScene = dim
  BootDuration = minutes
  BootFlags = {"updateScene", "updateCycleTiming"}
  BootManual <- MCBootManual
  RiseTime <- MCRise
  HoldTime <- MCHold
  CyclesPerPalette = 3
INVARIANTS
  TypeOK
PROPERTIES
  CycleDepartsFromWhatIsShown
  PaletteLastsItsCycles
  CyclesKeepStarting
  SettingsAreAdopted
