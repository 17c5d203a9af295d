-------------------------------- MODULE Services --------------------------------
(* What runs over the devices: the motion engine and its choreography, the *)
(* flight recorder and its files, stopping, the MCP server, teleoperation  *)
(* and the companion's realtime session and pipeline.  A behaviour is      *)
(* about one of them: the variables of the others are None, so the states  *)
(* are the sum of those of the services.                                   *)
EXTENDS Integers

CONSTANTS
    Amplitude, NeckStep, Trim, Shares, Share, Unit, Pitch, Yaw, Posture, Stroke,
    Blend, Track, Seed,                                     \* of MotionEngine
    Cycle, GaitSpeed, Knobs, Level, Longest, Watched,       \* of Choreography
    Servo, Bits, Post, PostMax, Grace, Interval, Gaps, MaxDumps, \* of FlightRecorder
    Flush, LastIndex,                                       \* of IncidentFiles
    Entry, MaxSignals,                                      \* of Shutdown
    Request, MaxCancels,                                    \* of McpServer
    Client, Frame, Gesture, Deadman, Play, MaxLag,          \* of Teleop
    Plan, MaxCalls, MaxBargeIns, MaxTicks,                  \* of RealtimeSession
    MaxInputs, MaxReflexes, MaxPlan, QueueMax,              \* of CompanionPipeline
    FaceMayFail, None

VARIABLES
    part,    \* the component a behaviour is about
    \* what several of them have, under the name they give it
    motion, clock, conn, parked,
    \* of the tool set of an agent
    call, holder, line, requested, aborted, limp, asleep,
    \* of the engine
    start, released, neck, target, hold, taken,
    \* of the choreography
    gait, knobs, waveLeg, lifted, stance, apart, yaw, stalled,
    \* of the recorder and its files
    status, sincePoll, dueFrames, baselined, incident, window, sweepAge,
    attempts, answered, kept,
    pc, index, published, temporary, remembered,
    \* of a program that is stopped
    entry, at, how, saved, stop, seen, queued, cancelled, tearing, connect,
    torque, sent,
    \* of the MCP server
    handler, task, lock, cancels, record,
    \* of the teleoperation
    pilot, state, loop, snap, now, applied, robot, ok, life, cycled, lag, silent,
    \* of the realtime session
    plan, epoch, response, busy, ticks, unanswered, session,
    \* of the pipeline
    inputs, utterances, hearing, queue, cancel, bargeIns, conductor, reflex,
    reflexes, asked, wanted, stale

shared == <<motion, clock, conn, parked>>
tools == <<call, holder, line, requested, aborted, limp, asleep>>
engineOnly == <<start, released, neck, target, hold, taken>>
choreoOnly == <<gait, knobs, waveLeg, lifted, stance, apart, yaw, stalled>>
recorderOnly ==
    <<status, sincePoll, dueFrames, baselined, incident, window, sweepAge, attempts,
      answered, kept>>
filesOnly == <<pc, index, published, temporary, remembered>>
stopOnly ==
    <<entry, at, how, saved, stop, seen, queued, cancelled, tearing, connect, torque, sent>>
mcpOnly == <<handler, task, lock, cancels, record>>
teleOnly ==
    <<pilot, state, loop, snap, now, applied, robot, ok, life, cycled, lag, silent>>
realtimeOnly == <<plan, epoch, response, busy, ticks, unanswered, session>>
pipelineOnly ==
    <<inputs, utterances, hearing, queue, cancel, bargeIns, conductor, reflex, reflexes,
      asked, wanted, stale>>
vars ==
    <<part, shared, tools, engineOnly, choreoOnly, recorderOnly, filesOnly, stopOnly,
      mcpOnly, teleOnly, realtimeOnly, pipelineOnly>>

Engine == INSTANCE MotionEngine
Choreo == INSTANCE Choreography WITH Unit <- Level
Recorder == INSTANCE FlightRecorder
Files == INSTANCE IncidentFiles WITH Last <- LastIndex
Stop == INSTANCE Shutdown
Mcp == INSTANCE McpServer
Tele == INSTANCE Teleop
Realtime == INSTANCE RealtimeSession WITH Caller <- Plan
Pipeline == INSTANCE CompanionPipeline WITH Caller <- {"turn", "reflex"}

ASSUME EngineConstants == Engine!EngineAssumption
ASSUME ChoreoConstants == Choreo!ChoreographyAssumption
ASSUME ChoreoLongest == Choreo!LongestAssumption
ASSUME RecorderConstants == Recorder!RecorderAssumption
ASSUME FilesConstants == Files!FilesAssumption
ASSUME StopConstants == Stop!ShutdownAssumption
ASSUME TeleConstants == Tele!TeleopAssumption
ASSUME RealtimeConstants == Realtime!RealtimeAssumption
ASSUME PipelineConstants == Pipeline!CompanionAssumption

NoTools ==
    /\ call = None /\ holder = None /\ line = None /\ requested = None /\ aborted = None
    /\ limp = None /\ asleep = None
NoEngine ==
    /\ start = None /\ released = None /\ neck = None /\ target = None /\ hold = None
    /\ taken = None
NoChoreo ==
    /\ gait = None /\ knobs = None /\ waveLeg = None /\ lifted = None /\ stance = None
    /\ apart = None /\ yaw = None /\ stalled = None
NoRecorder ==
    /\ status = None /\ sincePoll = None /\ dueFrames = None /\ baselined = None
    /\ incident = None /\ window = None /\ sweepAge = None /\ attempts = None
    /\ answered = None /\ kept = None
NoFiles ==
    pc = None /\ index = None /\ published = None /\ temporary = None /\ remembered = None
NoStop ==
    /\ entry = None /\ at = None /\ how = None /\ saved = None /\ stop = None
    /\ seen = None /\ queued = None /\ cancelled = None /\ tearing = None
    /\ connect = None /\ torque = None /\ sent = None
NoMcp == handler = None /\ task = None /\ lock = None /\ cancels = None /\ record = None
NoTele ==
    /\ pilot = None /\ state = None /\ loop = None /\ snap = None /\ now = None
    /\ applied = None /\ robot = None /\ ok = None /\ life = None /\ cycled = None
    /\ lag = None /\ silent = None
NoRealtime ==
    /\ plan = None /\ epoch = None /\ response = None /\ busy = None /\ ticks = None
    /\ unanswered = None /\ session = None
NoPipeline ==
    /\ inputs = None /\ utterances = None /\ hearing = None /\ queue = None
    /\ cancel = None /\ bargeIns = None /\ conductor = None /\ reflex = None
    /\ reflexes = None /\ asked = None /\ wanted = None /\ stale = None

Init ==
    \/ /\ part = "engine" /\ Engine!Init
       /\ NoTools /\ NoChoreo /\ NoRecorder /\ NoFiles /\ NoStop /\ NoMcp /\ NoTele
       /\ NoRealtime /\ NoPipeline /\ conn = None /\ parked = None
    \/ /\ part = "choreography" /\ Choreo!Init
       /\ NoTools /\ NoEngine /\ NoRecorder /\ NoFiles /\ NoStop /\ NoMcp /\ NoTele
       /\ NoRealtime /\ NoPipeline /\ conn = None /\ parked = None
    \/ /\ part = "recorder" /\ Recorder!Init
       /\ NoTools /\ NoEngine /\ NoChoreo /\ NoFiles /\ NoStop /\ NoMcp /\ NoTele
       /\ NoRealtime /\ NoPipeline /\ motion = None /\ clock = None /\ parked = None
    \/ /\ part = "files" /\ Files!Init
       /\ NoTools /\ NoEngine /\ NoChoreo /\ NoRecorder /\ NoStop /\ NoMcp /\ NoTele
       /\ NoRealtime /\ NoPipeline
       /\ motion = None /\ clock = None /\ conn = None /\ parked = None
    \/ /\ part = "shutdown" /\ Stop!Init
       /\ NoTools /\ NoEngine /\ NoChoreo /\ NoRecorder /\ NoFiles /\ NoMcp /\ NoTele
       /\ NoRealtime /\ NoPipeline
       /\ motion = None /\ clock = None /\ conn = None /\ parked = None
    \/ /\ part = "mcp" /\ Mcp!Init
       /\ NoTools /\ NoEngine /\ NoChoreo /\ NoRecorder /\ NoFiles /\ NoStop /\ NoTele
       /\ NoRealtime /\ NoPipeline
       /\ motion = None /\ clock = None /\ conn = None /\ parked = None
    \/ /\ part = "teleop" /\ Tele!Init
       /\ NoTools /\ NoEngine /\ NoChoreo /\ NoRecorder /\ NoFiles /\ NoStop /\ NoMcp
       /\ NoRealtime /\ NoPipeline /\ motion = None /\ clock = None
    \/ /\ part = "realtime" /\ Realtime!Init
       /\ NoEngine /\ NoChoreo /\ NoRecorder /\ NoFiles /\ NoStop /\ NoMcp /\ NoTele
       /\ NoPipeline /\ motion = None /\ clock = None /\ conn = None
    \/ /\ part = "pipeline" /\ Pipeline!Init
       /\ NoEngine /\ NoChoreo /\ NoRecorder /\ NoFiles /\ NoStop /\ NoMcp /\ NoTele
       /\ NoRealtime /\ motion = None /\ clock = None /\ conn = None /\ parked = None

Next ==
    \/ /\ part = "engine" /\ Engine!Next
       /\ UNCHANGED <<part, conn, parked, tools, choreoOnly, recorderOnly, filesOnly,
            stopOnly, mcpOnly, teleOnly, realtimeOnly, pipelineOnly>>
    \/ /\ part = "choreography" /\ Choreo!Next
       /\ UNCHANGED <<part, conn, parked, tools, engineOnly, recorderOnly, filesOnly,
            stopOnly, mcpOnly, teleOnly, realtimeOnly, pipelineOnly>>
    \/ /\ part = "recorder" /\ Recorder!Next
       /\ UNCHANGED <<part, motion, clock, parked, tools, engineOnly, choreoOnly,
            filesOnly, stopOnly, mcpOnly, teleOnly, realtimeOnly, pipelineOnly>>
    \/ /\ part = "files" /\ Files!Next
       /\ UNCHANGED <<part, shared, tools, engineOnly, choreoOnly, recorderOnly,
            stopOnly, mcpOnly, teleOnly, realtimeOnly, pipelineOnly>>
    \/ /\ part = "shutdown" /\ Stop!Next
       /\ UNCHANGED <<part, shared, tools, engineOnly, choreoOnly, recorderOnly,
            filesOnly, mcpOnly, teleOnly, realtimeOnly, pipelineOnly>>
    \/ /\ part = "mcp" /\ Mcp!Next
       /\ UNCHANGED <<part, shared, tools, engineOnly, choreoOnly, recorderOnly,
            filesOnly, stopOnly, teleOnly, realtimeOnly, pipelineOnly>>
    \/ /\ part = "teleop" /\ Tele!Next
       /\ UNCHANGED <<part, motion, clock, tools, engineOnly, choreoOnly, recorderOnly,
            filesOnly, stopOnly, mcpOnly, realtimeOnly, pipelineOnly>>
    \/ /\ part = "realtime" /\ Realtime!Next
       /\ UNCHANGED <<part, motion, clock, conn, engineOnly, choreoOnly, recorderOnly,
            filesOnly, stopOnly, mcpOnly, teleOnly, pipelineOnly>>
    \/ /\ part = "pipeline" /\ Pipeline!Next
       /\ UNCHANGED <<part, shared, engineOnly, choreoOnly, recorderOnly, filesOnly,
            stopOnly, mcpOnly, teleOnly, realtimeOnly>>

Spec == Init /\ [][Next]_vars

------------------------------------------------------------------------------
(* The head obeys its lock and its owner: under the lock every frame takes *)
(* it nearer to center, it leaves the lock without a jump, a choreography  *)
(* stays inside the band, a posture ends centered and gives look() its     *)
(* targets back (engine.py's step).                                        *)
LockedNeckComesHome ==
    [][(part = "engine") =>
         /\ Engine!LockedNeckComesHome /\ Engine!LockLiftsSoftly /\ Engine!ChoreographyStaysInside
         /\ Engine!PostureEndsCentered /\ Engine!LookSurvivesTheEnd]_vars

(* The body is carried and its joints stay in their bands: arms rise over  *)
(* a built stance only, a gait lifts no two neighbouring legs, the hands   *)
(* keep their distance and the neck its band, with any knobs, trims and    *)
(* gestures (engine.py's _apply_wave_both, _apply_clap, gaits and step).   *)
BodyIsCarried ==
    /\ (part = "engine") => Engine!NeckInBand
    /\ (part = "choreography") => Choreo!BodyIsCarried /\ Choreo!HandsKeepApart

(* Every frame takes a gesture nearer to its end and resting legs nearer   *)
(* to neutral, with any knobs (engine.py's _MIN_RATE, _apply_idle).        *)
GesturesMoveOn ==
    [][(part = "choreography") => Choreo!LegsComeToRest /\ Choreo!GesturesMoveOn]_vars

(* One file for a latch: a servo enters a window exactly when it answers   *)
(* with an error after a clean answer of the same connection, through      *)
(* reconnects and silence (flight_recorder.py).                            *)
WindowsTakeNewLatches == [][(part = "recorder") => Recorder!WindowsTakeNewLatches]_vars

(* An incident is known until its servo recovers, no window stays open on  *)
(* errors that keep coming, and a file that was published is whole and is  *)
(* never overwritten, whichever flush dies where (flight_recorder.py).     *)
IncidentsAreKept ==
    /\ (part = "recorder") => Recorder!TakenIsKnown /\ Recorder!WindowCloses
    /\ (part = "files") => Files!NoneIsOverwritten

(* The robot ends with whoever ran it: a stop ends released, whichever     *)
(* signals a program gets and whenever (cli.py, tui.py, mcp/__main__.py,   *)
(* shutdown.py); a teleoperated robot moves for a pilot who is there, has  *)
(* one driver and a slot no browser that left can hold (robot_loop.py,     *)
(* session.py, server.py).                                                 *)
EndsWithItsPilot ==
    /\ (part = "shutdown") => Stop!StopEndsReleased
    /\ (part = "teleop") => Tele!MovesForALivePilot /\ Tele!OneDriver /\ Tele!SlotIsFreed

(* A call a model made is answered once and from the books: each function  *)
(* call of a realtime response, with the sleep mirror that gates the next  *)
(* ones (bridge.py, app.py), and each MCP request, which, cancelled,       *)
(* neither abandons a motion nor runs one unrecorded (mcp/server.py).      *)
EveryCallIsAnsweredOnce ==
    /\ (part = "realtime") => Realtime!EveryCallIsAnsweredOnce /\ Realtime!MirrorFollowsTheRobot
    /\ (part = "mcp") => Mcp!NoCallIsAbandoned

(* The pipeline's turns know the robot and the room: no idle tool starts   *)
(* on a robot put to sleep, and a plan is cancelled only by an input still *)
(* to be drained (conductor.py, sleeping.py, bus.py).                      *)
IdleLeavesSleepersAlone ==
    (part = "pipeline") => Pipeline!IdleLeavesSleepersAlone /\ Pipeline!CancelHasACause

------------------------------------------------------------------------------
(* Values of the constants for TLC, under the names Services.cfg gives     *)
(* them: two postures, two strokes and a track of the neck, frame by       *)
(* frame; everyday knobs and extremes; a pilot who turns the head, and one *)
(* who walks and turns.                                                    *)
SmallPosture == [m \in {"BOW", "STRETCH"} |-> IF m = "BOW" THEN <<1, 2, 0>> ELSE <<-2, -2, 0>>]
SmallStroke == [m \in {"NOD", "HEAD_SHAKE"} |-> IF m = "NOD" THEN <<3, 4>> ELSE <<-4, 3>>]
SmallBlend == <<2, 1>>
SmallTrack == << [p1 |-> 2, p2 |-> -3, yaw |-> 4], [p1 |-> -4, p2 |-> 0, yaw |-> -4] >>
SmallSeed == { [p1 |-> 4, p2 |-> 1, yaw |-> -3] }
SmallPitch == {-2, 1}
SmallKnobs ==
    { [count |-> 2, period |-> 300, dwell |-> 6, decay |-> 8, offset |-> 1, intro |-> 12,
       raise |-> 3, speed |-> 10, gap |-> 60, open |-> 30, height |-> 90],
      [count |-> 0, period |-> 0, dwell |-> 9, decay |-> 10, offset |-> 0, intro |-> 0,
       raise |-> 5, speed |-> 0, gap |-> 0, open |-> 90, height |-> 0] }
SmallFrame ==
    { [move |-> None, rotate |-> 0, neck |-> 1], [move |-> "walk", rotate |-> 1, neck |-> 0] }
SmallCalls == <<2, 1>>
==============================================================================
