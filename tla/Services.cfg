SPECIFICATION Spec
CONSTANTS
  None = None
  Amplitude = 4
  NeckStep = 2
  Trim = 1
  Shares = 2
  Share = 1
  Unit = 2
  Pitch <- SmallPitch
  Yaw = {0, 2}
  Posture <- SmallPosture
  Stroke <- SmallStroke
  Blend <- SmallBlend
  Track <- SmallTrack
  Seed <- SmallSeed
  Cycle = 12
  GaitSpeed = 1
  Knobs <- SmallKnobs
  Level = 10
  Longest = 1395
  Watched = 2
  Servo = {a, b}
  Bits = {1, 2}
  Post = 2
  PostMax = 3
  Grace = 1
  Interval = 2
  Gaps = {1, 2}
  MaxDumps = 2
  Flush = {f1, f2, f3}
  LastIndex = 3
  Entry = {"cli", "tui", "mcp", "flag"}
  MaxSignals = 3
  Request = {r1, r2}
  MaxCancels = 2
  Client = {c1, c2}
  Frame <- SmallFrame
  Gesture = {"wave"}
  Deadman = 1
  Play = 2
  MaxLag = 1
  Plan = {1, 2}
  MaxCalls <- SmallCalls
  MaxBargeIns = 1
  MaxTicks = 1
  MaxInputs = 2
  MaxReflexes = 1
  MaxPlan = 2
  QueueMax = 1
  FaceMayFail = FALSE
INVARIANTS BodyIsCarried IncidentsAreKept EndsWithItsPilot EveryCallIsAnsweredOnce IdleLeavesSleepersAlone
PROPERTIES LockedNeckComesHome GesturesMoveOn WindowsTakeNewLatches
CHECK_DEADLOCK FALSE
