SPECIFICATION Spec
CONSTANTS
  None = None
  Languages = {"en", "ru"}
  Foreign = {"ru"}
  Windows = {"term", "form"}
  Owner <- OwnPrograms
  Blind = {"term"}
  Forms = {"form"}
  Terminals = {"term"}
  Lenient = {"backspace"}
  MaxWord = 2
  MaxText = 4
  Scenarios <- MCScenarios
  Failed = Failed
  Overflow = Overflow
  Keys = {space, a, b}
  SpaceKey = space
  MaxEdges = 6
INVARIANTS
  NoSecretHeld
  ConfigurationKept
  DecisionsAreSound
  PacksAndTextsAreFound
PROPERTIES
  EditsOnlyTheWord
  HeldKeysStayPaired
CHECK_DEADLOCK FALSE
