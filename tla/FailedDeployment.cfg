CONSTANTS
  Versions = 2
  Unfit <- OneUnfit
  Keep = 2
  MaxFiles = 3
SPECIFICATION Spec
PROPERTY RolledBack
