SPECIFICATION Spec
CONSTANTS
  App = App  None = None
  Task = {t1, t2}
  ToolKind = {"motion", "look", "follow", "still", "bad"}
  AppKind = {"dance", "track"}
  MaxFrames = 2
  MaxCancels = 2
INVARIANTS Safety InterruptedOnRequest NoRequestIsLost StopsPromptly
