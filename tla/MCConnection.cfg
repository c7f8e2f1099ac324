SPECIFICATION Spec
CONSTANTS
  Central = {c1, c2}
  MaxConnections = 3
  ShortLinks = FALSE
INVARIANTS
  TypeOK
  NeverForgotten
  ServerExists
PROPERTIES
  ImplementsPeripheral
