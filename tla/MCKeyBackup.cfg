SPECIFICATION Spec
CONSTANTS
  Browsers = {b1, b2}
  MaxIds = 3
  MaxSalts = 3
  None = None
INVARIANTS
  TypeOK
  StoredBackupOpens
  KeysMatchDevice
SYMMETRY Symmetry
CHECK_DEADLOCK FALSE
