# A verification project for palmimo-devkit

TLA+ models of the concurrent, stateful and failure-prone core of the Palmimo
SDK, TLC configurations that check them on small instances, and TLAPS proofs of
the most important invariants for every size. Every definition is translated
from the Python source; `PROJECT.json` maps each one to the lines it stands for.
Paths below are relative to the repository (`SDK` is
`src/packages/palmimo_sdk/palmimo_sdk`).

- [1. The system](#1-the-system)
- [2. The modules](#2-the-modules)
- [3. What each run checks](#3-what-each-run-checks)
- [4. What is proved](#4-what-is-proved)
- [5. Disagreements between code and documents](#5-disagreements-between-code-and-documents)
- [6. Plan](#6-plan)
- [7. Not modelled, and why](#7-not-modelled-and-why)

## 1. The system

Palmimo is a desk robot with four legs, a neck, a face display, a camera, a
microphone and a speaker. The SDK offers one facade, `Palmimo`, that applications
(agents, an MCP server, teleoperation, examples) drive from one control thread,
while other threads cancel, disconnect, speak, listen and look.

| Component (source) | State it keeps | Operations | Interacts with |
| --- | --- | --- | --- |
| Resource reservations (`SDK/reservation.py`) | lock directory and files (shared by processes), `flock`s, `_MUTEX`, `_HELD` with reference counts | `reserve`, `acquire_resource`, `Reservation.release` | every device backend and `scripts/diagnose_servos.py`, in every process |
| Facade: connect and disconnect (`SDK/robot.py`, `_signals.py`) | `_lifecycle_lock` (reentrant), `_disconnect_count`, `_disconnecting`, what is open | `connect`, `disconnect`, the rollback, `__exit__` | signal handlers, devices, the thermal guard |
| Facade: paced calls and cancellation (`SDK/robot.py`) | `_cancel_count`, `_armed_snapshot`, the engine's motion | `cancel`, `run`, `perform_dance`, `play_keyframes`, `play_realtime` | any thread that cancels; the tool set |
| Agent tool set and tools (`SDK/agent/`, companion `core/tools.py`) | `_call_lock`, `_cancel_requested`, the task and worker of the call | `call`, `cancel_running` | the asyncio loop, the facade on a worker thread |
| Facade: servo tuning (`SDK/robot.py`) | `_gesture_tuned`, `_neck_gesture_tuned`, `_limp_left`; gains and profiles in servo RAM | `step`, motions, `wake`, `sleep`, `limp`, `set_p_gain`, dance hold | leg guards, neck lock, driver |
| Leg safety (`SDK/_leg_safety.py`, `overload.py`, `rail.py`, `_guard.py`) | streaks per axis, scope, resting reports, soft return | `poll`, `reset`, `end_soft_return`, `abandon_soft_return` | `step`, telemetry |
| Neck thermal guard (`SDK/thermal.py`) | judgement, lockout, age of the last sweep | `poll`, `reset`, `take_sweep` | `step`, telemetry, the engine's neck hold |
| Telemetry poller (`SDK/telemetry.py`) | period, disabled flag | `due`, `read`, `reset` | both guards |
| Motion engine, kinematics (`SDK/engine.py`, `kinematics.py`) | motion, phases, glides | `set_motion`, `step` | the facade |
| Bounded opens (`SDK/io/_timeout.py`) | decision lock, result, who gave up | `run_with_timeout` | driver and display opens |
| Servo driver and bus (`SDK/io/dynamixel.py`, `_dynamixel_bus.py`) | port, reservation, gains and profiles set, command filter, error latches | connect, disconnect, sync reads and writes | facade, guards |
| Flight recorder (`SDK/_flight_recorder.py`, `_flight_ride.py`) | ring of frames, open window, latches, dump count | `record`, `finish`, publication of incidents | `step` |
| Microphone (`SDK/io/mic_stream.py`, `_mic_registry.py`) | stream, capture thread, subscriber queues, reservation | open, close, subscribe, `_run` | agents, speaker |
| Speaker (`SDK/io/speaker.py`) | job queue, worker, current player, stop count | `say`, `stop`, `close` | agents |
| Head camera (`SDK/io/camera.py`) | handle, drain thread, latest frame | open, close, drain | agents, teleoperation |
| Face display (`SDK/io/display.py`) | port, reader thread, pending reply | connect, commands, disconnect | facade, agents |
| Shutdown (`SDK/shutdown.py`, `_signals.py`, the programs' entries) | installed handlers, park task | handlers, `park` | MCP server, agents |
| MCP server (`SDK/mcp/`) | session, robot, the running call and its record | start, tool calls, shutdown | tool set |
| Teleoperation (`src/examples/teleop/`) | pilot slot, deadman clock, gesture window; capture thread of the video | session, robot loop, server, video | facade, camera |
| Companion, pipeline mode | interrupt bus, conductor, sleep mirror, reflexes | dispatch, turns, idle ticks, speech | tool set |
| Companion, realtime mode | epoch, plans, response state; playback queue and player | bridge, session, playback | tool set |
| Companion, vision (`core/vision.py`, detectors) | frame slot, worker, hands followed, cooldown | `watch`, `aclose` | camera, reflexes |
| Wake word agent | utterance segmenter, queue of its subscription | one sequential loop | microphone |
| Servo diagnosis (`src/scripts/diagnose_servos.py`) | what the run wrote and what it found | `oscillate_servo` | the bus, by itself |

Who calls whom: an application task calls a tool through `AgentToolSet.call`,
which runs it on a worker thread; the tool makes paced calls of the facade; each
frame is a `step`, which polls both guards, drops the motion when one trips,
synchronises servo tuning with the motion and writes the pose. `cancel`,
`cancel_running` and `disconnect` come from other threads, tasks and signal
handlers. Devices take a reservation for as long as they are open.

### What is hard about it, and what makes each part correct

- **Reservations.** Several processes create the same lock file at once; a
  process may die anywhere; metadata is written after the lock is taken; threads
  of one process share one lock by counting. Correct means: one process at a time;
  counts equal live handles; no embrace between sets; a failed `reserve` holds
  nothing; the name never changes inode; every call ends.
- **Connect and disconnect.** `connect` reads a count and a flag outside the lock
  and compares them under it; a signal handler may call `disconnect` inside
  either call; each open, each close and the wake may fail or be interrupted.
  Correct means: a disconnect has the last word; nothing stays open; no torque
  while something else may stall; the neck is let down before torque goes.
- **Cancellation.** A count that only grows is compared with a snapshot that is
  taken by the dispatcher (armed) or at entry. Requests fall between lock,
  dispatch, thread start, entry, frames, sleeps and a second paced call. Correct
  means: one driver at a time; no stray interruption; no request with a check
  ahead of it is lost; the motion ends in IDLE.
- **Servo tuning.** A handful of calls write the same registers in any order, any
  write may fail half-way, an arm may trip at any frame. Correct means: a tripped
  arm yields; nothing is left behind in the servos; a joint moved by hand does not
  snap back; a sleeping neck stays down.
- **Guards.** Reads fail, miss motors and stop for good; judgements go stale; a
  report must be made once and again when due. Correct means: counts belong to
  the motion and arm they were made under; the lockout outlives the judgement it
  came from; no judgement is older than its limit.
- **Servo bus.** A `connect` that times out goes on in its thread beside the
  retry, on the same wire. Correct means: port, reservation and torque have one
  owner or none; goals the driver computes stay in the safe ticks; torque goes on at the present
  position; a call writes the registers of the motors it names.
- **Devices.** A `close` gives up on a wedged thread, which then owns the device;
  sentinels meet full queues; `stop` races with the start of a player; replies come
  late; frames and chunks are dropped. Correct means: a device in use is reserved and has one
  user; whoever waits is woken; nothing from before a restart, a stop, a barge-in
  is served after it; what was perceived is what there was.
- **Motions.** Knobs, trims and tracks may have any value. Correct means: the neck
  keeps its band and comes home under the thermal lock, the stance carries the
  body, every frame takes a gesture nearer to its end.
- **Incidents.** Errors come and go, servos fall silent, several processes
  publish into one directory. Correct means: a latch is recorded once, a window closes, no
  file is overwritten.
- **Programs over the tool set.** Signals at every moment, requests cancelled,
  pilots that leave, plans that go stale while they run. Correct means: a stop ends
  with torque off; a robot moves for a pilot who is there; a call is never answered
  twice, and once unless an exception ends its plan; input said to the robot is answered; an idle tick leaves a sleeping robot alone.

`PROJECT.json` lists forty hazards of this kind, each at the line where it bites,
with the properties that would catch it. Two have none: a reader of a lock file
may see the record of its previous holder (`reservation.py:283`), and a request
between two paced calls of one tool is seen by neither (`agent/tools.py:265`). Both
are disagreements of section 5: the code does what the hazard says.

## 2. The modules

| Module | Models | State and actions |
| --- | --- | --- |
| `ResourceLock` | what a reservation promises | `users`: which threads use a resource; `Grab`, `Drop`, `Die` |
| `Reservation` | `reservation.py` | files, inodes and modes (`dir`, `path`, `shared`, `meta`), the kernel's locks (`flock`), each process's `mutex` and `held`, each call's `pc`, `want`, `handle`, `fd`. One action per step another process can see: publish the directory, open, make a temporary file, chmod, link, reopen, lock, write metadata, give up, retry, release, every failure, and `Crash` of a process |
| `NeckThermal` | `thermal.py` with its `telemetry.py` poller | `driver`, `disabled`, two clocks in seconds, `state`, `temp`, `lock`, `sweep`; one action per outcome of `poll`, `reset` (`Attach`), `take_sweep`, and a second passing |
| `LegSafety` | `_leg_safety.py` with `overload.py`, `rail.py`, `_guard.py` and its poller | streaks per axis and for the rail, `scope`, resting reports, `softReturn`, `settled`, the verdict of the last poll; one action per way `poll` returns |
| `LegGuard` | what the leg guards promise the facade | `softReturn`, `scope`, `verdict`. `LegSafety` implements it; `ServoTuning` uses its actions in place of the guard's internals, which is how the two compose |
| `CancelScope` | cancellation in `robot.py` and `agent/toolset.py` | `count`, `armed`, the asyncio lock with its queue, each task's place in `call`, each worker's place in its paced calls (`worker`); actions for each await, each check, entry snapshot, write and sleep, `Cancel`, `CancelRunning`, a task cancelled at any await, a failed write |
| `Lifecycle` | `connect` and `disconnect` of `robot.py` | what is open, the neck, `count`, `disconnecting`, the holder of the reentrant lock, and a stack of calls per thread (a handler nests one); actions for each read, open, check, close, with every failure and interrupt |
| `BoundedOpen` | `io/_timeout.py` | caller, worker, result, `gaveUp` and late results of each attempt; actions of the two threads around the decision lock, the deadline, an interrupt at the `Window` |
| `ServoBus` | connect and disconnect of `io/dynamixel.py`, arming in `_dynamixel_bus.py` | composes with `BoundedOpen`: each attempt's place, port, reservation, torque, who seeded each goal; arming motor by motor, unwinding, the late handler |
| `ServoRegisters` | values to bytes and back, the sync read | control tables as bytes, whose registers do not overlap, the last sweep; writes, a sweep in which motors answer, stay silent or are never reached |
| `ServoDriver` | the write path of `io/dynamixel.py` | goals, gains, profiles in the servos beside `_p_gain`, `_default_p_gain`, the IIR filter and the motors the call named. `Connect` seeds each goal with the position found, safe or not (`verbatim` until the first write) |
| `ServoTuning` | the register writes of `robot.py` | gain (by rank) and profile of each joint (`ram`), `tuned`, `neckTuned`, `limpLeft`, torque cut, and `todo`: the stages a call has left. A write to every joint is one packet; a write to some goes joint by joint and may stop after any, answered or not (`Outcomes`) |
| `ServoDiagnosis` | `oscillate_servo` of `diagnose_servos.py` | the servo's registers, what was found, what the script knows it wrote, the swing, the verdict; every write may be refused, lost in its answer or cut off, and the notices that are printed outside a `try` may raise |
| `Servos` | the union of the five above it | `part` says which component a behaviour is about; states are the sum of the components' |
| `MicStream` | `mic_stream.py`, `_mic_registry.py`, `microphone.py` | one capture thread per open (`thread`, `stop`, `device`), subscriptions and their bounded queues, the fan-out in hand (`fan`), the registry, a `Microphone` that borrows the stream |
| `Speaker` | `speaker.py` | queue, worker, player process, `_stop_count`, handles, each thread's place in `stop` and `close`, the synthesis thread and its file |
| `Camera` | `camera.py` | the device behind its lock, drain threads, one-shot readers, a close that gives up, `latest` with the era it was asked in |
| `Display` | `display.py` | a bounded open and its orphan, the port, the reader thread of each connection (an old one may outlive the join), lines on the wire, the reply queue, each caller's command. A failed read closes, clears, gives back and forgets in four steps; a command without a reader takes the next line itself |
| `VideoStream` | the teleop's `video.py` | capture threads around `start` and `stop` |
| `RealtimePlayback` | the companion's `audio.py` | queue of chunks with their generation, writer thread, aplay processes, killers, `interrupt` and `close` |
| `VisionWatch` | the companion's `vision.py` and its wave and face judges | slot, event, worker, hands followed, hits, cooldown, `watch` and `aclose` |
| `WakeWord` | the wake word agent's loop and `vad.py` | samples numbered in the order heard: queue, the samples a full queue gave up (`dropped`), carry, pre-roll, speech, the utterance in hand |
| `Devices` | the union of those eight | variables that several of them have are shared by name |
| `MotionEngine` | motions, look targets, the neck under the thermal lock (`engine.py`) | motion, clock, neck, targets, hold; one action per command and one frame |
| `Choreography` | gaits, wave and clap timelines of `engine.py` | phases and timelines in ticks, under any knobs |
| `FlightRecorder` | `_flight_recorder.py`, `_flight_ride.py` | baselines, latches, the window with its extension and cap, dumps left |
| `IncidentFiles` | publication of incidents | flushes of several processes in one directory, dying anywhere |
| `Shutdown` | `shutdown.py`, `_signals.py` and the entries of the programs | dispositions of the signals, the stages of start, run, teardown and park; a signal inside the restore loop of `interrupt_on_signals` (`RestoreBroken`) |
| `McpServer` | `mcp/server.py` | requests, their shielded calls, cancellations, the record |
| `Teleop` | `robot_loop.py`, `session.py`, `server.py` | connections, the pilot slot, the state's clocks, the loop's cycle, the app's lifespan |
| `ToolCalls` | `AgentToolSet.call` as a companion's tasks see it | lock, line, the stage of each caller's tool |
| `CompanionPipeline`, `RealtimeSession` | the companion's two modes | both extend `ToolCalls`: bus, conductor, plans, mirror, reflexes; epoch, plan tasks, responses, session. Every `client.send` of the bridge may raise, and so may a call whose arguments are no JSON object (`Raises`, `AnswerFails`) |
| `Services` | the union of the modules from `MotionEngine` on | `part` says which one a behaviour is about; each component has its constants and variables by name, those of the others are `None` |
| `MCLiveness` | the union under fairness of `Reservation`, `LegSafety`, `CancelScope`, `CompanionPipeline`, `VisionWatch` | each component has its variables; the others rest |
| `MCReservation`, `MCLegSafety`, `MCServos` | instances for TLC | the functions and sets a `.cfg` cannot write down |
| `ReservationProofs`, `NeckThermalProofs`, `LegSafetyProofs`, `CancelScopeProofs`, `LifecycleProofs`, `ServosProofs`, `DevicesProofs`, `ServicesProofs` | TLAPS proofs | section 4 |

A union asks one question of several components that do not share state: a
behaviour picks its component in the initial state, so TLC explores the sum of
their state spaces and a property of the union is the conjunction of theirs. It is
also what the theorems of section 4 are about.

Abstractions that matter:

- Gains are ranks (limp, soft, rest, own, wave): properties compare them, never
  add them. Currents and temperatures are numbers, chosen on both sides of every
  threshold.
- Code that runs under `_MUTEX` is not atomic where other processes can look:
  the file system and the lock table are read and written in separate actions.
- The paced calls share one loop, cut at the check, the write and the sleep;
  `Sections` says which loops a kind of call is made of.
- The resources of `Lifecycle` open and close in one step each, with the outcomes
  their own code produces: closed, open, or stuck half-way.
- Devices' data is what the properties tell apart: a chunk is the generation that
  read it or the samples it holds, a frame the era it was asked in, a reply the
  command it answers.
- Variables called *history* or *ghost* record what happened for the properties and guard
  nothing.
- Operators that begin with `M`, or end in `_Something` under a comment `Mutant`,
  are deliberate bugs. Each is put in place of the definition it varies to show
  that a property notices it; no specification uses them.

## 3. What each run checks

Run from this directory: `tlc -workers 2 -config X.cfg M`.

| Run (cfg, module) | Question | Bounds, and why they are enough |
| --- | --- | --- |
| `reservation_shared` (`Reservation_shared.cfg`, `MCReservation`): `Safety`, `LockSpec` | Does the file protocol give mutual exclusion between processes, exact counts within one, and implement `ResourceLock`, through crashes and failures? | two processes, one with two threads: sharing within and contention between; one resource, since files of different resources do not interact; two inodes, so that a loser's temporary file exists beside the winner's. Inodes are symmetric |
| `reservation_order` (`Reservation_order.cfg`, `MCReservation`): `NoDeadlyEmbrace`, `RaisedHoldsNothing` | Do overlapping sets deadlock, does a failed `reserve` keep anything? | two processes, two resources and three inodes: the smallest embrace |
| `neck_thermal` (`NeckThermal.cfg`): `Safety`, `LockKept` | Does the lockout outlive failed reads, missing motors, staleness, reconnection? | the real thresholds and periods; readings at 40, 55, 56, 61 and 62 °C, on each side of each threshold; two motors, so that a sweep may miss one |
| `leg_safety` (`LegSafety.cfg`, `MCLegSafety`): `Safety`, `HeldBackWhileItLasts`, `GuardSpec` | Do counts, reports and soft returns stay with the motion and arm they belong to, and do the guards implement `LegGuard`? | two axes, either of which may be the arm; two resting and two leg motions; complete, partial and empty sweeps; counts of 3 and 2 so that trips overlap gaps and changes |
| `cancel` (`CancelScope.cfg`): `Safety`, `InterruptedOnRequest`, `NoRequestIsLost`, `StopsPromptly` | Do cancels reach the call they are meant for, and only that? | two tasks, so that one waits while the other runs, is cancelled or drains; the application's own calls; every kind of tool but one that only repeats another's shape; two cancels; up to two frames a section, so that a section can continue and end |
| `lifecycle` (`Lifecycle.cfg`): `DisconnectWins`, `NoResourceIsStranded`, `NeckIsEased`, `EveryCallEnds` | Does a disconnect have the last word, does anything leak or stay under torque, does every call end? | two threads, camera and driver (one resource to open before and close after the torque), two disconnects (a thread's and a handler's), one Ctrl+C; every open and close may fail |
| `servos` (`Servos.cfg`, `MCServos`): `BusHasOneOwner`, `LeftAsFound`, `GoalsAreSafe`, `VerdictsAreEarned`, `NothingSnaps`, `TrippedArmYields`, `OnlyTheNamed` | Who owns port and torque; what do any sequences of writes leave in the registers; what may the diagnosis claim? | two attempts, one racing a retry; two motors; a filter of two quarters, goals on both sides of the safe range and joints found inside and outside of it; two legs, either of which may wave, a neck joint that goes limp; a driver that writes everything and one that sets no gain; one failed write per connection, beside the one each write may meet; three targets of a swing and one Ctrl+C. Legs are symmetric; motors are not, since they answer in bus order |
| `devices` (`Devices.cfg`): `NobodyWaitsInVain`, `OpenIsReserved`, `NothingStaleIsServed`, `PerceptionIsEarned` | Do the devices' threads leave anything open, unheard, stale or misheard? | two generations of each capture, so that a new one meets what is left of the old; two subscribers (symmetric) with queues of two, which two chunks fill; two speech jobs, one of two halves, and one stop beside the one of `close`; two callers (symmetric) and two ports of the display; three video captures; chunks of one and three samples around frames of two, a queue of two chunks and ten samples, which overflow it in the middle of an utterance; three chunks of voice, two barge-ins; three places of a hand and four frames, with the smallest counts that can tell a wave from a sweep |
| `services` (`Services.cfg`): `BodyIsCarried`, `IncidentsAreKept`, `EndsWithItsPilot`, `EveryCallIsAnsweredOnce`, `IdleLeavesSleepersAlone`, `LockedNeckComesHome`, `GesturesMoveOn`, `WindowsTakeNewLatches` | Do motions, incidents, signals, requests, pilots and the companion's turns keep their promises? | two servos with two error bits, two dumps; three flushes, so that one dies between two; three signals in each of four programs; two requests and two cancels; two browsers; two responses of a realtime session (the first of two calls), one barge-in and one idle tick; two inputs, one reflex and plans of two calls in the pipeline; a gait of twelve ticks, everyday knobs and extreme ones |
| `liveness` (`Liveness.cfg`, `MCLiveness`): `EveryCallEnds`, `HeldLegIsStopped`, `DirectedIsAnswered` | Does every call end, is a held leg stopped, is every directed input answered? | two threads in two processes; one axis held; one frame and one cancel; two inputs and one reflex; two frames of the watch |
| `lifecycle_rollback` (`Lifecycle_rollback.cfg`): `RollbackCutsTorque`, violated | Is torque cut by an interrupted rollback? See section 5 | one Ctrl+C in a rollback is enough |
| `diagnosis_released` (`ServoDiagnosis_released.cfg`, `MCServos`): `EnabledIsReleased`, violated | Is a joint the diagnosis may have powered released? See section 5 | one lost answer is enough |

Bounds by name: `MaxCancels`, `MaxFrames` (CancelScope); `MaxDisconnects`,
`MaxInterrupts` (Lifecycle); `Attempt` (ServoBus); `MaxFaults` (ServoTuning);
`Swings`, `MaxInterrupts` (ServoDiagnosis); `Gen`, `MaxChunks` (MicStream); `Job`,
`MaxStops` (Speaker); `Gen` (Camera, VideoStream); `Port` (Display); `MaxHeard`
(WakeWord); `MaxChunks`, `MaxPlayers`, `MaxInterrupts` (RealtimePlayback);
`MaxFrames` (VisionWatch); `MaxDumps`, which is the code's own (FlightRecorder);
`Flush` (IncidentFiles); `MaxSignals` (Shutdown); `MaxCancels` (McpServer);
`MaxInputs`, `MaxReflexes` (CompanionPipeline); `MaxCalls`, `MaxBargeIns`,
`MaxTicks` (RealtimeSession). Clocks saturate at the period or limit that the code
compares them with. The unions say `CHECK_DEADLOCK FALSE` because some of their
components really end: a program that has parked, a diagnosis that has printed
its verdict, a queue of speech that has been spoken. No other run does.

The properties of the core modules (each has its full statement above its
definition; each module also has a type invariant):

| Module | Property | In one line |
| --- | --- | --- |
| Reservation | `Safety` | two live reservations of a resource are of one process (`MutualExclusion`); a process's count is its number of live handles (`ReferencesCountHandles`); a file has mode 0666 by the time it has its public name (`PublishedIsShared`); the kernel lock is held for a held entry or one about to be made (`LocksAccounted`) |
| | `NoDeadlyEmbrace`, `RaisedHoldsNothing` | ordered acquisition has no embrace; a reserve that raised keeps nothing |
| | `LockSpec`, `EveryCallEnds` | it implements `ResourceLock`; every call reaches its body or raises |
| NeckThermal | `Safety`, `LockKept` | the lockout agrees with the judgement, no judgement outlives the staleness limit; only a cool complete reading ends the lockout |
| LegSafety | `Safety` | counts made for one motion and arm never act on another; a soft return has no rival target |
| | `HeldBackWhileItLasts` | a report is held back only while its breach lasts |
| | `GuardSpec`, `HeldLegIsStopped`, `SoftReturnEnds` | it implements `LegGuard`; a held leg is stopped; a soft return ends |
| CancelScope | `Safety` | one call at a time drives the robot, a cancelled one until it has drained; a motion leaves the engine in IDLE |
| | `InterruptedOnRequest`, `NoRequestIsLost`, `StopsPromptly` | a cancel reaches its call, no other, and within one frame |
| | `EveryCallReturns` | every tool call returns |
| Lifecycle | `DisconnectWins` | a connect that a disconnect ran under does not leave the robot open |
| | `NoResourceIsStranded` | nothing stays open after a disconnect or a failed connect, interrupted rollbacks apart, and a peripheral stalls a connect with torque off |
| | `NeckIsEased`, `EveryCallEnds` | torque is not cut on a neck held at full gain unless its ramp failed; every call ends |

The properties of the unions, and what each says of its components:

| Union | Property | Of which component |
| --- | --- | --- |
| Servos | `BusHasOneOwner` | bus: port, reservation and torque have one owner or none, through timeouts, interrupts and half-way arming |
| | `NothingSnaps` | bus: torque goes on at a seeded goal; tuning: a gain rises on no joint a hand may have moved; diagnosis: its gain rises at rest only |
| | `LeftAsFound` | tuning: no gesture outlives its tuning, a soft arm stays soft; diagnosis: the servo as found, or the operator told |
| | `GoalsAreSafe`, `OnlyTheNamed` | driver: goals within the safe ticks from the first write on, only the named motors change; registers: a sweep reports what is there |
| | `TrippedArmYields` | tuning: the arm that tripped yields, a sleeping neck is not raised, sleep eases a held arm |
| | `VerdictsAreEarned` | registers: only a quiet motor is blamed; diagnosis: only a joint that followed passes |
| Devices | `NobodyWaitsInVain` | microphone: every subscriber of a closed stream is told; speaker: every handle is done or on its way; vision: no frame waits unnoticed |
| | `OpenIsReserved` | all that open something: in use means reserved, by one user, and given up means released; the display's part leaves out a connection made beside an earlier reader thread (`crossed`) |
| | `NothingStaleIsServed` | microphone, speaker, camera, display, wake word: nothing of the generation, job, era, command or silence before; the display's part holds until a command that reads the port itself takes an event line (`strayed`) |
| | `PerceptionIsEarned` | wake word: an utterance is in the order heard, of bounded length, and lacks nothing but what a full queue gave up; vision: a frame is judged once, a sweep is no wave |
| Services | `LockedNeckComesHome`, `BodyIsCarried`, `GesturesMoveOn` | motions: the neck under its lock and in its band; arms rise over a built stance, no two neighbouring legs lift; every frame goes on |
| | `WindowsTakeNewLatches`, `IncidentsAreKept` | recorder and files: a latch once, windows that close, files never overwritten |
| | `EndsWithItsPilot` | shutdown: a stop ends released; teleoperation: it moves for a live pilot, one driver, a slot that is freed |
| | `EveryCallIsAnsweredOnce` | realtime: no call id answered twice, each answered once unless an exception ends its plan, then those before the failing call; the sleep mirror follows the robot; MCP: one answer a request, no call abandoned |
| | `IdleLeavesSleepersAlone` | pipeline: no idle tool on a sleeper, a cancel flag has an input behind it |

### Fairness

Fairness is stated only where a liveness property needs it, and never for a fault,
a crash, a cancel or a caller.

- `Reservation`: weak fairness of each thread's own steps and of its deadline. The
  operating system runs threads, and `time.monotonic` advances. Release of a
  resource by its user is not assumed: `EveryCallEnds` holds because a call gives
  up at its deadline.
- `LegSafety`: weak fairness of time and of a successful read, and each property
  assumes that reads come often enough not to break the counts (`ReadInTime`) and
  that the motion goes on where it says so: `step` runs every frame.
- `CancelScope`: weak fairness of each worker thread; strong fairness of what the
  event loop does for a task, since a ready callback is served in turn even if
  the application's blocking calls disable it again and again.
- `Lifecycle`: weak fairness of each step of a call, strong fairness of taking the
  lock: nobody who waits for it is passed over for ever. Every open and close
  ends, which is what the bounded opens are for.
- `CompanionPipeline`: weak fairness of the conductor's and the speech pipeline's
  steps (`Converses`) and of the tool calls in flight (`Serves`): the event loop runs what
  is ready, and a tool's stages are bounded in time.
- `VisionWatch`: weak fairness of the worker thread and of the tasks that run, get
  and close; not of the camera, which may never deliver another frame.

## 4. What is proved

TLAPS checks these for every value of the constants that satisfies the named
assumptions. TLC evaluates the assumptions in the runs of the module.

| Theorem | Statement | Argument |
| --- | --- | --- |
| `ReservationProofs`: `TypeCorrect`, `Exclusion`, `CountsAreExact`, `NoLockIsLeft`, `Safe`, `NothingLeftBehind`, `NoEmbrace`, `NamesStay`, `Implements` | types; one process at a time; counts equal live handles; no kernel lock that nobody will give back; `Safety`; a finished call holds nothing; no deadly embrace; the name keeps its inode; `Reservation` implements `ResourceLock` | one `IInv`, one lemma per action |
| `NeckThermalProofs`: `TypeCorrect`, `LockoutMatches`, `JudgementsAreFresh`, `Safe`, `LockoutIsKept` | types; judgement and lockout agree; no judgement outlives its sweep; only a cool complete sweep or the want of a telemetry driver releases the lock | `Safety` is inductive |
| `LegSafetyProofs`: `TypeCorrect`, `NoCrossTalk`, `SoftReturnYields`, `Safe`, `ReportsResume`, `Implements` | no count reaches its limit without a trip; counts stay with their scope; soft returns have no rival; reports are held back only while the breach lasts; the guards implement `LegGuard` | see below |
| `CancelScopeProofs`: `TypeCorrect`, `OnlyOneDrives`, `NoStrayInterrupt`, `RequestsCount`, `OneFrameLate`, `MotionsEndIdle`, `Safe` | the four properties of the run, for any number of tasks, frames and cancels | see below |
| `LifecycleProofs`: `TypeCorrect`, `DisconnectWinsAlways`, `NothingStranded`, `NeckEased` | the three safety properties of the run, for any threads, parts attached, disconnects and interrupts, and any handlers inside a connect | see below |
| `ServosProofs`: `OneOwnerAlways`, `GoalsStaySafe`, `NothingIsEverLeft`, `LeftAsFoundAlways`, `NothingEverSnaps`, `TrippedArmAlwaysYields`, `OnlyTheNamedAlways`, `VerdictsAreAlwaysEarned` | the union's seven properties, for any number of motors and attempts, any registers, widths and bus order, any gestures and windows; `NothingIsEverLeft` is `LeftAsFound` without the hypothesis about the soft arm | see below |
| `DevicesProofs`: `DevicesAreReserved`, `WaitersAreWoken`, `NothingStaleReaches`, `PerceptionIsAlwaysEarned`, `SpeechEndsWithItsStop` | the union's four properties, for any number of opens, subscribers, chunks, jobs, callers, frames, and any lengths of the segmenter; the speaker's part of two of them without any hypothesis | see below |
| `ServicesProofs`: `LockAlwaysComesHome`, `LockedNeckAlwaysComesHome`, `BodyIsAlwaysCarried`, `GesturesAlwaysMoveOn`, `IncidentsAreAlwaysKept`, `OneFileForALatch`, `RobotEndsWithItsPilot`, `CallsAreAnsweredOnce`, `AnswersAreGivenOnce`, `SleepersAreLeftAlone` | the union's eight properties, for any motions, knobs and stage lengths, any servos, error bits and flushes, any signals, browsers, requests, responses, inputs and plans; `LockAlwaysComesHome` and `AnswersAreGivenOnce` are what holds of `LockedNeckComesHome` and `EveryCallIsAnsweredOnce` without a hypothesis | see below |

Hypotheses beyond the assumptions on the constants, each of which the code makes
necessary:

- `"decide" \notin BusWindow` (`OneOwnerAlways`): an interrupt that lands between
  the join and the decision of `_timeout.py` is outside its `try`, and a value the
  worker has parked by then is nobody's. With the window, TLC finds a port that
  nobody closes.
- `"disconnect" \notin Handled` (`DisconnectWinsAlways`): a handler that
  disconnects inside a disconnect lowers the flag too early (section 5).
- `LegsHeld`, no caller lets a leg go limp (`LeftAsFoundAlways` only;
  `NothingIsEverLeft` is without it): `limp()` gives a soft arm its full gain back
  (section 5).
- `ThreadsLast`, no exception outside `read()` ends the capture thread, and
  `MicRoom >= 2` (`WaitersAreWoken`); `ThreadsLast` and `Late = FALSE`, no reply
  later than its timeout (`NothingStaleReaches`): see section 5 for what happens
  without them. The code's queues hold more than two chunks.
- `FaceMayFail = FALSE` (`CallsAreAnsweredOnce`, `SleepersAreLeftAlone`): `sleep` shows
  its face after the robot has gone limp. If the display raises there, the call
  ends in error, the companion takes the robot to be awake, and its mirror does
  not follow. `AnswersAreGivenOnce` is without it.
- `2 * Share = Shares` (`LockedNeckAlwaysComesHome`): both pitch joints of the neck step
  alike, as they do by the engine's default share of one half (`engine.py:111`). With
  another share one of them reaches its target first, and the head can swing past
  the amplitude between two targets. Four of the five parts hold for every share.
- `SeedsInBand` (`BodyIsAlwaysCarried`): `set_neck_positions` (`engine.py:586`) and recorded
  tracks are stored as given; a frame clamps what it computes, so the neck is in
  its band as long as these were.

The other theorems have none. What the constants are assumed to be stands in
each module: that lengths, periods and rates are numbers of the right sign; that
`None` is no servo, browser, caller or file; that the stages of the gestures that
take over the neck have other names than the engine's own motions; that a byte
has an even number of values and no two registers share one (`RegistersAssumption`);
and that `Longest`, where the choreography's clock saturates, is past the end of
every gesture (`LongestAssumption`).

Why the invariants need strengthening:

- **Reservation.** Mutual exclusion is not inductive: it rests on entries of
  `_HELD` having their file locked by their own process (`EntriesLocked`), on two
  names never sharing an inode (`NamesDistinct`), on what an open descriptor can
  refer to at each program point (`DescriptorsKnown`) and on `_MUTEX` guarding the
  steps it guards (`MutexGuards`). Two processes that use a resource would both
  have locked the inode behind its one name. `NoDeadlyEmbrace` rests on
  `CallsOrdered`: what a call has is below, in lexical order, what it still
  wants. `CountsRight` says that an entry's count is the cardinality of the set of
  live handles; it needs threads to be finitely many.
- **NeckThermal.** With `Cool < Hot` and `Warm <= Cool` there is no reading at
  which the lock is on and the judgement normal; the assumption says what the
  constants of `thermal.py` were chosen for.
- **LegSafety.** `HeldBackWhileItLasts` needs `CountsAreOwed`: an axis with a count
  has not read below the threshold since it was reported. `Implements` needs
  `TripClears` (a trip of the arm leaves no count, so no two polls in a row
  start a soft return) and that the first sample of a scope cannot trip, which
  is why `TripAfter` is assumed to be at least 2.
- **CancelScope.** `Locked` ties the asyncio lock, the phase of a call and its
  worker together; `ArmedIsOurs` says that an armed baseline is that of the call in
  flight; `Based`, that no snapshot is older than the call; `DueIsSeen`, the heart of
  it, that a request with a check ahead lies above the very snapshot that check
  will compare; `LateIsLast` and `IdleAfter` carry the frame count and the motion.
- **Lifecycle.** A thread runs one call, or a connect and a handler's disconnect
  inside it (`Nested`). Of every call the invariant says where it can be (`Placed`), that
  the lock is its thread's once it is past it (`Locked`), that the flag is up while a
  disconnect tears down (`Flagged`), that a connect that was crossed has seen the
  flag or will see the count (`Crossing`), what it has closed on its way (`Swept`) and
  what it knows of the torque (`Arming`); `Overruled` is what a disconnect leaves for
  the connect it crossed.
- **Servos.** `BusInv` ties each attempt's place to the decision of its bounded
  open: whoever gave up, whoever has the value, and the turn of the two
  (`Decided`, `Stage`, `Turns`, `Answered`), and a motor under torque to a goal seeded
  by its attempt (`Seeded`). `DriverInv` bounds the filter as well as the goals: a joint found outside the safe
  ticks never enters the filter, so the first write brings it back.
  `TuningInv` follows what the stages of a call that are still to do will undo:
  the registers differ from the joints' own values only where a tuning, a soft return or
  a limp joint says so (`Traceless`, `Loosened`, `Follows`, `LetDown`, `ArmHeld`), and a
  failed write is remembered. `DiagInv` compares the registers with what the
  script knows it wrote, at each of its program points.
- **Devices.** Microphone: at most one generation is not yet told to stop, what a
  thread has in hand was meant for the generation it captures, and every
  subscription of an ended generation has its sentinel in its queue, in a
  fan-out, or a `close` about to send it. Speaker (`VoiceInv`): what was said before a `stop()` leaves
  the queue with its drain, cannot begin once the stop is counted, and, if it
  has begun, is the stop's own target. Camera: who holds the lock decides who finishes a
  close. Display: a reader thread past its failed
  read may still clear what there is, so the invariant keeps the books of port,
  reservation and handle for connections that met no earlier reader (`PortKept`,
  `ReaderKept`); only the command that holds the lock has a line under way
  (`OneUnderWay`), so a reply is its own unless the wire is late or a command without
  a reader has taken an event line. Playback: each
  player is the process, in a killer's hands, or in the writer's. Wake word: the
  segmenter's pieces lead to where the queue begins but for what the queue gave up
  (`EarQueue`, `EarFits`), so what it hands over lacks those samples and no others. Vision: the slot, the event and the
  worker's item agree on the last frame that was seen.
- **Registers** (in `ServosProofs`). `RegTypes` says that the bytes of every register spell
  the value written last, which a write to another register leaves alone because
  registers do not overlap. That a sweep returns it is the round trip
  `NumberOfBytes` and `DecodeOfEncode`: little-endian bytes there and back, two's complement
  too. `SweepNamesAre` (each motor of the request once), `StopIs` (the reader stops at the
  first quiet motor and has read all before it) and `BlamesTheQuiet` carry the verdicts.
- **Services.** MCP (`McpInv`): a request without an answer has no record yet, and one that
  was received has a call. Files (`FilesInv`): a flush past its exclusive open owns its
  temporary file, and past its second look nothing has its name. Recorder (`RecorderInv`):
  what a servo last answered in this connection is what is known of it; an open window
  has a dump left and is within its cap. Signals (`StopInv`): where the main thread is
  decides the dispositions and what is saved to be restored (`Handled`), and where the
  connect and the torque can be (`Carried`), as long as no signal has met a gap (`Broken` is
  the companion's, once its handlers were not all restored).
  Teleoperation (`TeleInv`): the slot's holder frees it (`SlotInv`), and inside a cycle of the loop
  the pilot has been silent no longer than the cycle is late (`CycleInv`). Pipeline
  (`PipelineInv`): lock, line and stages of the tool calls agree (`ToolsInv`), and whoever may start
  an idle tool has read a mirror that is still true (`SleepersInv`). Realtime: the books of
  a plan, call by call, also of one that an exception cut short (`BooksInv`), and whose calls run while the session does (`RunsInv`).
  Engine (`EngineInv`): poses and targets have their types, and a track that was once taken by the
  lock has been released. Choreography (`ChoreoInv`): lifted legs are one tripod, the arms, or a
  single leg, and the arms rise over a built stance; the hands stay apart under any knobs
  because a wave is interpolated between keyframes (`InterpBetween`) whose amplitudes
  shrink (`DecayBounds`).

Only model-checked, and why:

- Liveness: `EveryCallEnds` (reservation, cancellation, vision; and of `Lifecycle`), `HeldLegIsStopped`,
  `DirectedIsAnswered`. They rest on fairness and ENABLED, which TLAPS does not handle
  here. Every other property of the passing runs is stated by a theorem.

How recursion is argued. What a recursive function computes is a matter of
induction, and the induction theorems of the library take a predicate as a
parameter. The proofs go by the least counterexample instead: `LeastNumber`, which
says that a set of naturals has a least member, follows from `WFMin` and
`NatLessThanWellFounded`, neither of which has such a parameter. `Recursion` (in
`ServosProofs`) concludes from it that a recursion over the naturals has a function
that satisfies it, and `PowerIs`, `SumsAre`, `KeptIs` and `DecayIs` are instances: powers of the
byte's base, the number that some bytes spell, the motors of a request in bus
order, the shrinking strokes of a wave.

## 5. Disagreements between code and documents

Found while modelling. Each has a property, in the module named, that states the document's
words, and TLC finds it violated by what the code does when the property is added to the
cfg of that module's run (for a component of a union, as `Instance!Property`), with the constants
given here where they differ. The two in bold are runs of the project.

The core:

| Module: property | What happens | What is said |
| --- | --- | --- |
| **Lifecycle: `RollbackCutsTorque`** | The closes of `connect`'s rollback suppress `Exception` only, with SIGINT on: a second Ctrl+C in one of them skips the others and the torque-off (`robot.py:826`) | "mirrors connect's BaseException rollback ... an interrupt is not an Exception" (`robot.py:893`) |
| Lifecycle: `DisconnectWins`, `Handled = {"disconnect"}`, `MaxDisconnects = 2` | A handler's `disconnect` inside a `disconnect` lowers `_disconnecting` while the outer one still closes; a `connect` called then opens the robot again afterwards (`robot.py:952`) | "`connect()` also raises `RuntimeError` if a `disconnect()` was running when it was called" (`api-reference.md:604`) |
| Lifecycle: `FailedConnectDisarms` | Ctrl+C inside `driver.connect()` after the bus is armed precedes `driver_connected`: the rollback skips the driver (`robot.py:777`) | "the ones already opened are closed before the error is re-raised" (`api-reference.md:616`) |
| Lifecycle: `InterruptIsRaised` | A `driver.disconnect()` that raises swallows the interrupt remembered for the end (`robot.py:937`) | "re-raised after the torque-off" (`robot.py:901`) |
| Lifecycle: `LockClearsWithDriver` | After a rolled back reconnect, or a driver that raises in disconnect, `neck_lock_active` stays on with no driver (`robot.py:948`) | "It clears once the driver disconnects" (`robot.py:2189`) |
| CancelScope: `NoPacedCallIsDeaf` | The last frame's check comes before its sleep: a cancel during that sleep raises nothing (`robot.py:2625`) | "at any point between a paced method's entry and its return is guaranteed to raise" (`robot.py:1544`) |
| CancelScope: `GaplessAcrossCall` | The settle run of a tool takes a fresh snapshot: a `cancel_running` just before it is forgotten (`agent/tools.py:265`) | "Cancellation coverage is gapless across the call" (`agent/toolset.py:303`) |
| NeckThermal: `HotIsLatched` | Hot, then stale, then 56 °C is judged warm, without the hysteresis; the lock stays (`thermal.py:263`) | "once entered, state cannot fall below HOT until the reading drops to NECK_COOL_C" (`thermal.py:91`) |
| NeckThermal: `LockClearsOnlyWhenCool` | A driver that turns out to have no telemetry clears the lock too (`thermal.py:211`) | "only clears on a driver that reports None ... or a COMPLETE sweep" (`thermal.py:102`) |
| LegSafety: `StrainReportedOnce` | A trip clears the streaks, so a sweep that misses the strained axis ends the hold-back and the same strain is recorded again (`_guard.py:82`) | "recorded once, and not again until every watched axis has read below the threshold" (`api-reference.md:1054`) |
| LegSafety: `SagReportedOnce` | The same for the rail, after a sweep without a voltage (`_guard.py:82`) | "not again until a sweep has read at or above the threshold" (`api-reference.md:1134`) |
| Reservation: `BlamesAnotherProcess` | A process refused while a peer has locked but not yet written reads its own old record and names itself (`reservation.py:283`) | "is held by another process" (`reservation.py:38`) |

The servos:

| Module: property | What happens | What is said |
| --- | --- | --- |
| **ServoDiagnosis: `EnabledIsReleased`** | A torque-enable packet that is carried out and whose answer is lost ends the run with the joint powered; nothing on that way out reads the flag (`diagnose_servos.py:1028`) | "Set before the write, not after: if the enable raises or is only partly carried out, the error paths must still know to release" (`diagnose_servos.py:1026`) |
| ServoDiagnosis: `NoErrorWhenTheGainRises` | On a servo that already holds torque the goal seed is clamped to the servo's limits, so a joint outside them has an error when the gain rises | "the goal already holds the present position by the time the gain goes up" (`diagnose_servos.py:999`) |
| ServoDiagnosis: `NothingIsLeftSilently` | A Ctrl+C inside the clean-up ends it with the profile of the run and no word of it | "Sharing one meant a raise from either restore skipped the other silently" (`diagnose_servos.py:1172`) |
| ServoDiagnosis: `InterruptReleases` | The notice of a Ctrl+C is printed before the handler's `try`: on a closed pipe, or at a second Ctrl+C, it raises past the release (`diagnose_servos.py:1126`) | "Ctrl+C on a bus that is already failing must still end with torque off" (`diagnose_servos.py:1127`) |
| ServoBus: `BusHasOneOwner`, `BusWindow = {"join", "decide"}` | A `KeyboardInterrupt` between the join and the decision is outside the `try`: a value parked for the caller is nobody's (`_timeout.py`) | the caller's interrupt hands the result to `on_late_result` |
| ServoBus: `DriverKeepsTorque` | An attempt that was given up unwinds on the wire that the retry has armed, and cuts its torque | closing the orphan matters "specifically for the retry-races-the-orphan case" (`_timeout.py:28`) |
| ServoDriver: `ReportsConnectedGain` | `_p_gain` survives a disconnect, so `position_p_gain` reports the gain of the last session, not the one just written (`dynamixel.py:473`) | "Effective Position_P_Gain (the set value, else the captured default)" |
| ServoDriver: `FilterRemembersLastGoal` | The filter's state is advanced before the write, which may be clamped or fail | "_iir_state holds y[n-1]" (`dynamixel.py:290`) |
| ServoTuning: `SleepEndsSoftReturn` | `sleep()` with a hot neck takes `_sleep_thermal_locked`, which leaves the soft return in force (`robot.py:1087`) | "`sleep()` ends it too" (`api-reference.md:1062`) |
| ServoTuning: `SoftReturnKeepsArmSoft`, `MayLimp` with a leg in it | `limp()` on a soft-returning arm restores its full gain at its exit, and nothing softens it again (`robot.py:3228`) | "the three arm axes are held at Position_P_Gain 100" (`api-reference.md:1050`) |
| ServoTuning: `ReleasedArmIsFirm` | A failed write of the release is taken as done, so the arm stays at the soft gain (`robot.py:2498`) | "the next gesture sync restores the arm's gain" (`_leg_safety.py:202`) |

The devices:

| Module: property | What happens | What is said |
| --- | --- | --- |
| MicStream: `NobodyWaitsInVain`, `MayDie = TRUE` | An exception outside `read()` ends the capture thread, and nobody sends the sentinel its subscribers wait for | a subscription ends when its stream does |
| MicStream: `NobodyWaitsInVain`, `MicRoom = 1` | A queue of one chunk can lose the sentinel to the chunk that the thread had in hand | the same; the default queue is far longer |
| Speaker: `NoFileIsLeft` | A synthesis that ends between the end of its wait and `gave_up` leaves a file that neither side deletes | "`decision_lock` closes the TOCTOU between the two sides" (`speaker.py:509`) |
| Camera: `ClosedShowsNothing` | A drain that was given up stores its frame after `close()` has cleared `latest` | `latest()` returns None "instead of a stale pre-close frame" (`camera.py:247`) |
| Camera: `StoppedGrabsNoMore` | The stop event is checked before the lock is waited for, so a stopped drain may grab once more | "its own (already set) stop event guarantees it exits without another grab" (`camera.py:319`) |
| Display: `OwnReplyOnly`, `Late = TRUE` | A reply later than its command's timeout is read by the next command | "Drop any unsolicited line so we match THIS command's reply" (`display.py:338`) |
| Display: `EveryReplyMatches` | Without a power callback nobody sorts the lines: a command takes an EVT or DBG line as its reply, and the next one its reply (`display.py:348`) | "serializes command writes (and the reply wait that follows), so concurrent callers can't grab each other's replies" (`display.py:325`) |
| Display: `ReservedOnceReconnected` | The reader whose read failed clears the connection, gives back the reservation and forgets it under no lock (`display.py:382`-`385`): a caller that reconnects at once loses its new port's reservation. So may one that an earlier reader meets because its join expired: `_stop.clear()` revives it | "a caller watching `is_connected` can re-`connect`" (`display.py:364`) |
| RealtimePlayback: `BargedInAudioIsDropped` | The writer reads the generation after it has dequeued the chunk: an interrupt between the two lets the chunk through (`audio.py:260`) | "a chunk that was already in flight when an interrupt fired ... cannot start (or write to) a fresh aplay" (`audio.py:172`) |
| WakeWord: `OwnVoiceIsNotSegmented` | Only the agent's own `say` is watched: what a tool speaks, and chunks heard during the reply but read after it, are segmented (`main.py:75`) | "never segment the robot's own voice" (`wiring.py:183`) |

`VideoStream.stop` after a wedged thread clears `_available`, so a second `stop` once the
thread has ended no longer closes the camera (`video.py:174`, `177`); and a
`VisionWatch.aclose()` before the first `watch()` leaves the worker of that
`watch()` running (`vision.py:427`, `436`). Both are in the models as the code has
them; no document speaks of either.

The services:

| Module: property | What happens | What is said |
| --- | --- | --- |
| MotionEngine: `LookSurvivesTheWave` | The waves go on writing the pitch target after they have played, so `look()` is eaten | "once finished, the look() targets belong to the caller again" (`engine.py:1496`) |
| Choreography: `CreepComesToRest`, `Cycle = 96` | `int((n - yaw) * 0.05)` is zero from 19 ticks down, and only less than 5 is snapped: a leg in stance stays short of neutral (`engine.py:1405`) | "Leg is in stance - slowly return yaw to neutral" (`engine.py:1400`) |
| Shutdown: `WhateverWasBuiltIsParked` | While the handlers are being restored a second signal meets the default disposition and kills the process with the servos energised (`mcp/__main__.py:789`) | "whatever was built is parked and closed ... on any signal" (`mcp/__main__.py:790`) |
| Teleop: `TeardownParks` | A `step` that raises while settling ends the lifespan before the park (`robot_loop.py:217`) | "the same parked shutdown every other example" (`teleop/README.md:165`) |
| CompanionPipeline: `StalePlanIsDropped` | The race of a call and a cancel may be won by both: `dispatch.py:144` clears the flag although the call ended normally, and `respond.py` goes on with a stale plan | "the whole plan is then stale, so nothing in it runs" (`respond.py:116`) |
| CompanionPipeline: `NoReflexOnASleepingRobot` | The predicate is read before the lock is waited for: a reflex that queued behind `sleep` waves about a limp robot | "A reflex must also be skipped while the robot is asleep" (`core/reflexes.py:12`) |
| RealtimeSession: `SleeperIsWokenBeforePark` | A `sleep` whose task is cancelled at the end of the session is never recorded, so the park meets a limp robot (`app.py:219`) | "A robot that is *asleep* is woken before the park" |
| RealtimeSession: `NoCallIdGoesUnanswered` | A `send` that raises, or arguments that are JSON but no object (`toolview.py:132`), ends the plan task with this and the later calls unanswered; `_report_failure` (`bridge.py:220`) says so and prints a line | "the same 'no call_id goes unanswered' contract the mid-plan abandonment handling keeps" (`bridge.py:32`) |
| RealtimeSession: `OvertakenPlansStartNothing` | A call that waits for the tool set's lock when speech comes is not the one `cancel_running` reaches, and the epoch is not asked again: its tool starts after the barge-in (`bridge.py:155`) | "Silences current behavior the instant human speech is detected" (`services/router.py:61`) |

A failed LLM call is noted as "retrying shortly" (`dispatch.py:43`, `235`), but nothing calls
again: the turn ends after its back-off. The model has it so.

The properties that hold are stated with these exceptions in view:
`NothingLeaks` up to the first interrupt, `DisconnectWins` for handlers that
disconnect inside a connect, `SoftReturnKeepsArmSoft` for arms that do not go limp,
`OwnReplyOnly` for a wire that is not late and until an event line was taken as a
reply (`strayed`), `ReservedWhileOpen` for display connections that met no earlier reader
(`crossed`), `GoalsAreSafe` once the driver has written (a joint found outside the safe
ticks holds there until then: `dynamixel.py:197` seeds "verbatim", as its comment
says), `EveryCallIsAnsweredOnce` for plans that no exception ends,
`LeftAsFoundOrSaid` but for the torque when the notice of a Ctrl+C could not be printed,
and `StopEndsReleased` but for signals in the gaps, among them what follows one that broke the
restore of the handlers (`shutdown.py:236`).

## 6. Plan

Done: every module of section 2, with the proofs of the core (`Reservation`,
`NeckThermal`, `LegSafety`, `CancelScope`, `Lifecycle`), of the servos, of the devices and
of the services.

Left: the motions that are one tool but several paced calls (`agent/tools.py`) in
`CancelScope`, and the parts that section 7 lists.

## 7. Not modelled, and why

- Trajectories of gaits, gestures, glides and keyframes, and inverse kinematics:
  real arithmetic over angles, outside what TLC checks. Levels and tick counts
  of the same timelines are modelled (`MotionEngine`, `Choreography`), and what a frame
  does to the selected motion, the guards and the tuning.
- Audio processing, detectors over images and name matching: functions over
  samples, images and strings that keep no state the rest reads.
- Speech engines, transcription and the language models: calls that return or
  fail.
- Logging, wording of errors and observations, JSON of tool arguments (reduced to
  valid and invalid, and to "no object" where the realtime bridge passes it on), history and prompts, HTTP, websockets and the parsing of
  their events.
- Platforms without `fcntl`, where a reservation only counts references.
- Downloads, ALSA device lists, the catalog tools, the calibration file: pure I/O
  and text, one pass.
- The lerobot integration: adapters that copy observations and actions between
  two libraries, single-threaded.
