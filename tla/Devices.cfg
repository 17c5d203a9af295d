SPECIFICATION Spec
CONSTANTS
  None = None
  MicGen = {1, 2}
  Sub = {s1, s2}
  MicRoom = 2
  MaxChunks = 2
  MayDie = FALSE
  Job = {1, 2}
  Bilingual = {1}
  Stopper = {1}
  MaxStops = 1
  CameraGen = {1, 2}
  User = {u}
  Port = {1, 2}
  Caller = {c1, c2}
  Late = FALSE
  VideoGen = {1, 2, 3}
  MaxFrames = 2
  Chunk = {1, 3}
  Frame = 2
  PreRoll = 3
  Silence = 2
  MaxSpeech = 5
  EarRoom = 2
  MaxHeard = 10
  MaxVoiced = 3
  MaxPlayers = 3
  MaxInterrupts = 2
  Place = {0, 1, 2}
  MoveThreshold = 0
  MatchMaxDist = 2
  WaveCount = 1
  ClearCount = 2
  ConsecutiveHits = 2
  Cooldown = 2
  MaxSeen = 4
SYMMETRY Symmetry
INVARIANTS NobodyWaitsInVain OpenIsReserved NothingStaleIsServed PerceptionIsEarned
CHECK_DEADLOCK FALSE
