CONSTANTS
  Versions = 3
  Unfit <- OneUnfit
  Keep = 2
  MaxFiles = 3
SPECIFICATION FairSpec
INVARIANTS TypeOK SchemaCoversCode RestorePoint
PROPERTIES BackupKept ComesBack
