SPECIFICATION Spec
CONSTANTS
  None = None
  a = a
  b = b
  Motor = {a, b}
  Motion = {"idle", "nod", "walk", "wave"}
  Soft = {"idle", "nod"}
  ArmOf <- Arms
  Guards = {"arm", "leg", "rail"}
  ArmOverload = 700
  LegOverload = 1200
  TripAfter = 3
  RailAfter = 2
  Settle = 2
  Interval = 1
  Gap = 2
  Sweep <- AllSweeps
INVARIANTS Safety HeldBackWhileItLasts
PROPERTY GuardSpec
