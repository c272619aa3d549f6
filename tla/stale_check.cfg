SPECIFICATION Spec
CONSTANTS
  None = None
  Languages = {"en", "ru"}
  Foreign = {"ru"}
  Windows = {"term", "form"}
  Owner <- OneProgram
  Blind = {"term"}
  Forms = {"form"}
  Terminals = {"term"}
  Lenient = {"backspace"}
  MaxWord = 2
  MaxText = 4
  Scenarios <- MovesAndChecks
  Failed = Failed
  Overflow = Overflow
  Keys = {space, a, b}
  SpaceKey = space
  MaxEdges = 6
INVARIANT NoSecretHeld
CHECK_DEADLOCK FALSE
