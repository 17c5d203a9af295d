SPECIFICATION FairSpec
CONSTANTS
  None = None
  Thread = {main, other}
  Main = main
  Attached = {"camera", "driver"}
  Handled = {"connect"}
  MaxDisconnects = 1
  MaxInterrupts = 1
INVARIANTS DisconnectWins NoResourceIsStranded
PROPERTIES NeckIsEased EveryCallEnds
