SPECIFICATION Spec
CONSTANTS
  m1 = m1  m2 = m2  a = a  b = b  None = None
  Motor = {m1, m2}
  Attempt = {a1, a2}
  BusWindow = {"join"}
  Keep = FALSE
  MotorOrder <- Order
  ControlTable <- Table
  Signed = {"current"}
  Base = 2
  Memory = 5
  Request = {0, 3}
  FoundTick = {2, 3}
  SafeMin = 1
  SafeMax = 2
  Neutral = 2
  DefaultGain = 1
  DriverGain = {5}
  GainMax = 3
  Speed = {0}
  ConfiguredProfile = 2
  RampDivisor = 2
  Unit = 1
  Leg = {a, b}
  Neck = {n1}
  Motion = {"idle", "nod", "wave", "stretch", "dance"}
  ArmOf <- Arms
  Drivers = {{"gain", "pv", "iir"}, {"pv"}}
  MayLimp = {{n1}}
  MaxFaults = 1
  Window <- Windows
  Amplitude = 16
  MinTravel = 6
  Swings = 3
  FoundGain = {1, 3}
  SwingGain = 2
  MaxInterrupts = 1
SYMMETRY Symmetry
INVARIANTS BusHasOneOwner LeftAsFound GoalsAreSafe VerdictsAreEarned
PROPERTIES NothingSnaps TrippedArmYields OnlyTheNamed
CHECK_DEADLOCK FALSE
