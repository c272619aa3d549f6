CONSTANTS
  MaxPastes = 2
  MaxCopies = 1
  InstallAttempts = 2
  SelectAttempts = 2
  MaxPanics = 1
SPECIFICATION Spec
INVARIANTS
  PasteAccounted
PROPERTIES
  ClipboardStaysTheUsers
CHECK_DEADLOCK FALSE
