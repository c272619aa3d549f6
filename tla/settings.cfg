CONSTANTS
  BoolKeys = {}
  Canonical <- MCCanonical
  TypingChords <- MCTyping
  Hotkeys <- MCHotkeys
  OfferedWord = "w"
  Budgets <- MCBudgets
SPECIFICATION WindowSpec
PROPERTIES
  SavesLoseNothing
  PackageChangesKnown
  SettingsGoOn
CHECK_DEADLOCK FALSE
