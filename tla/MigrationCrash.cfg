SPECIFICATION Spec
CONSTANTS
  Opener = {p1}
  Versions = 2
  Statements <- MCStatements
  MaxCrashes = 1
INVARIANTS
  OpenUpgradesInPlace
