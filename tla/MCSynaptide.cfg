SPECIFICATION Spec
CONSTANTS
  Wrap = 16
  MaxGap = 2
  HistorySize = 3
  Grace = 2
  Cooldown = 3
  Energy = {0, 60}
  Fresh = 60
  LowEnergy = 18
INVARIANTS
  TypeOK
  DarkFieldIsRevived
PROPERTIES
  LivingFieldIsLeftAlone
  BoostsKeepTheirDistance
