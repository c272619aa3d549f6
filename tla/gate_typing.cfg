CONSTANTS
  Space = Space
  NoTarget = NoTarget
  None = None
  Letters = {a}
  Targets = {t1}
  QueueCapacity = 3
  GateCapacity = 2
  MaxResumes = 1
  Worlds <- TypingWorlds
SPECIFICATION Spec
INVARIANTS
  KeysInOrder
PROPERTIES
  EditProtected
  RecordSound
