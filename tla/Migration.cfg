SPECIFICATION FairSpec
CONSTANTS
  Opener = {p1, p2, p3}
  Versions = 2
  Statements <- MCStatements
  MaxCrashes = 2
INVARIANTS
  VersionImpliesSchema
  OpenMeansCurrent
  OneUpgrader
PROPERTIES
  UpgradeCompletes
