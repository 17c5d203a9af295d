SPECIFICATION Spec
CONSTANTS
  None = None
  Thread = {main, other}
  Main = main
  Attached = {"camera", "driver"}
  Handled = {}
  MaxDisconnects = 1
  MaxInterrupts = 1
INVARIANT RollbackCutsTorque
