-------------------------------- MODULE Devices --------------------------------
(* The devices that have a thread of their own, and what listens, speaks   *)
(* and looks through them: the microphone and its registry, the speaker,   *)
(* the head camera, the face display, the teleoperation video, the wake    *)
(* word agent's ear, the realtime voice's playback and the companion's     *)
(* vision watch.  A behaviour is about one of them: the variables of the   *)
(* others are None, so the states are the sum of those of the devices.     *)
EXTENDS Integers, TLC

CONSTANTS
    MicGen, Sub, MicRoom, MaxChunks, MayDie,                \* of MicStream
    Job, Bilingual, Stopper, MaxStops,                      \* of Speaker
    CameraGen, User,                                        \* of Camera
    Port, Caller, Late,                                     \* of Display
    VideoGen, MaxFrames,                                    \* of VideoStream
    Chunk, Frame, PreRoll, Silence, MaxSpeech, EarRoom, MaxHeard, \* of WakeWord
    MaxVoiced, MaxPlayers, MaxInterrupts,                   \* of RealtimePlayback
    Place, MoveThreshold, MatchMaxDist, WaveCount, ClearCount, ConsecutiveHits,
    Cooldown, MaxSeen,                                      \* of VisionWatch
    None

\* Subscribers are alike, and so are the callers of the display.
Symmetry == Permutations(Sub) \cup Permutations(Caller)

VARIABLES
    part,    \* the component a behaviour is about
    \* what several of them have, under the name they give it
    queue, current, thread, stop, chunks, held, worker, lock, closed, started,
    late, main, available, loop,
    \* of the microphone
    opened, closing, device, registered, subs, use, meant, fan, mic,
    \* of the speaker
    said, epoch, stopCount, halted, done, proc, pc, saw, target, silenced,
    before, exposed, synth, gaveUp, wav,
    \* of the camera
    cap, closePending, drain, stopped, at, latest, first, era, asked, stuck,
    \* of the display
    callback, port, orphan, handles, ser, res, retained, reader, sent, line,
    replies, call, crossed, strayed,
    \* of the video
    camera, quit, jpeg, camera_ok, frames, stopper,
    \* of the wake word
    heard, carry, preRoll, speech, speaking, silence, utterance, answered,
    voice, own, dropped,
    \* of the playback
    process, alive, generation, pending, writer, taken, waits,
    \* of the vision
    sweeps, clock, waking, slot, hands, hits, lastEmit, watcher

micOnly == <<opened, closing, device, registered, subs, use, meant, fan, mic>>
speakerOnly ==
    <<said, epoch, stopCount, halted, done, proc, pc, saw, target, silenced, before,
      exposed, synth, gaveUp, wav>>
cameraOnly == <<cap, closePending, drain, stopped, at, latest, first, era, asked, stuck>>
displayOnly ==
    <<callback, port, orphan, handles, ser, res, retained, reader, sent, line, replies, call,
      crossed, strayed>>
videoOnly == <<camera, quit, jpeg, camera_ok, frames, stopper>>
wakeOnly ==
    <<heard, carry, preRoll, speech, speaking, silence, utterance, answered, voice, own, dropped>>
playbackOnly == <<process, alive, generation, pending, writer, taken, waits>>
visionOnly == <<sweeps, clock, waking, slot, hands, hits, lastEmit, watcher>>
shared ==
    <<queue, current, thread, stop, chunks, held, worker, lock, closed, started, late,
      main, available, loop>>
vars ==
    <<part, shared, micOnly, speakerOnly, cameraOnly, displayOnly, videoOnly, wakeOnly,
      playbackOnly, visionOnly>>

Mic == INSTANCE MicStream WITH Gen <- MicGen, Room <- MicRoom
Voice == INSTANCE Speaker WITH Caller <- Stopper
Eye == INSTANCE Camera WITH Gen <- CameraGen
Face == INSTANCE Display
Video == INSTANCE VideoStream WITH Gen <- VideoGen
Ear == INSTANCE WakeWord WITH Room <- EarRoom
Playback == INSTANCE RealtimePlayback WITH MaxChunks <- MaxVoiced
Vision == INSTANCE VisionWatch WITH MaxFrames <- MaxSeen

ASSUME MicConstants == Mic!MicAssumption
ASSUME SpeakerConstants == Voice!SpeakerAssumption
ASSUME CameraConstants == Eye!CameraAssumption
ASSUME DisplayConstants == Face!DisplayAssumption
ASSUME VideoConstants == Video!VideoAssumption
ASSUME WakeConstants == Ear!WakeWordAssumption
ASSUME PlaybackConstants == Playback!PlaybackAssumption
ASSUME VisionConstants == Vision!VisionWatchAssumption

NoMic ==
    /\ opened = None /\ closing = None /\ device = None /\ registered = None
    /\ subs = None /\ use = None /\ meant = None /\ fan = None /\ mic = None
NoSpeaker ==
    /\ said = None /\ epoch = None /\ stopCount = None /\ halted = None
    /\ done = None /\ proc = None /\ pc = None /\ saw = None /\ target = None
    /\ silenced = None /\ before = None /\ exposed = None /\ synth = None
    /\ gaveUp = None /\ wav = None
NoCamera ==
    /\ cap = None /\ closePending = None /\ drain = None /\ stopped = None
    /\ at = None /\ latest = None /\ first = None /\ era = None
    /\ asked = None /\ stuck = None
NoDisplay ==
    /\ callback = None /\ port = None /\ orphan = None /\ handles = None
    /\ ser = None /\ res = None /\ retained = None /\ reader = None
    /\ sent = None /\ line = None /\ replies = None /\ call = None
    /\ crossed = None /\ strayed = None
NoVideo ==
    /\ camera = None /\ quit = None /\ jpeg = None /\ camera_ok = None
    /\ frames = None /\ stopper = None
NoWake ==
    /\ heard = None /\ carry = None /\ preRoll = None /\ speech = None
    /\ speaking = None /\ silence = None /\ utterance = None
    /\ answered = None /\ voice = None /\ own = None /\ dropped = None
NoPlayback ==
    /\ process = None /\ alive = None /\ generation = None /\ pending = None
    /\ writer = None /\ taken = None /\ waits = None
NoVision ==
    /\ sweeps = None /\ clock = None /\ waking = None /\ slot = None
    /\ hands = None /\ hits = None /\ lastEmit = None /\ watcher = None

Init ==
    \/ /\ part = "mic" /\ Mic!Init
       /\ NoSpeaker /\ NoCamera /\ NoDisplay /\ NoVideo /\ NoWake /\ NoPlayback /\ NoVision
       /\ worker = None /\ lock = None /\ closed = None /\ started = None
       /\ late = None /\ main = None /\ available = None /\ loop = None
    \/ /\ part = "speaker" /\ Voice!Init
       /\ NoMic /\ NoCamera /\ NoDisplay /\ NoVideo /\ NoWake /\ NoPlayback /\ NoVision
       /\ thread = None /\ stop = None /\ chunks = None /\ closed = None
       /\ started = None /\ late = None /\ main = None /\ available = None
       /\ loop = None
    \/ /\ part = "camera" /\ Eye!Init
       /\ NoMic /\ NoSpeaker /\ NoDisplay /\ NoVideo /\ NoWake /\ NoPlayback /\ NoVision
       /\ queue = None /\ current = None /\ thread = None /\ stop = None
       /\ chunks = None /\ worker = None /\ available = None /\ loop = None
    \/ /\ part = "display" /\ Face!Init
       /\ NoMic /\ NoSpeaker /\ NoCamera /\ NoVideo /\ NoWake /\ NoPlayback /\ NoVision
       /\ queue = None /\ current = None /\ chunks = None
       /\ held = None /\ worker = None /\ closed = None /\ started = None
       /\ late = None /\ available = None /\ loop = None
    \/ /\ part = "video" /\ Video!Init
       /\ NoMic /\ NoSpeaker /\ NoCamera /\ NoDisplay /\ NoWake /\ NoPlayback /\ NoVision
       /\ queue = None /\ stop = None /\ chunks = None /\ held = None
       /\ worker = None /\ lock = None /\ closed = None /\ started = None
       /\ late = None /\ main = None /\ loop = None
    \/ /\ part = "wake_word" /\ Ear!Init
       /\ NoMic /\ NoSpeaker /\ NoCamera /\ NoDisplay /\ NoVideo /\ NoPlayback /\ NoVision
       /\ current = None /\ thread = None /\ stop = None /\ chunks = None
       /\ held = None /\ worker = None /\ lock = None /\ closed = None
       /\ started = None /\ late = None /\ main = None /\ available = None
    \/ /\ part = "playback" /\ Playback!Init
       /\ NoMic /\ NoSpeaker /\ NoCamera /\ NoDisplay /\ NoVideo /\ NoWake /\ NoVision
       /\ current = None /\ thread = None /\ stop = None /\ held = None
       /\ worker = None /\ lock = None /\ late = None /\ main = None
       /\ available = None
    \/ /\ part = "vision" /\ Vision!Init
       /\ NoMic /\ NoSpeaker /\ NoCamera /\ NoDisplay /\ NoVideo /\ NoWake /\ NoPlayback
       /\ current = None /\ thread = None /\ stop = None /\ chunks = None
       /\ held = None /\ lock = None /\ started = None /\ late = None
       /\ main = None /\ loop = None

Next ==
    \/ /\ part = "mic" /\ Mic!Next
       /\ UNCHANGED <<part, worker, lock, closed, started, late, main,
            available, loop, speakerOnly, cameraOnly, displayOnly, videoOnly,
            wakeOnly, playbackOnly, visionOnly>>
    \/ /\ part = "speaker" /\ Voice!Next
       /\ UNCHANGED <<part, thread, stop, chunks, closed, started, late, main,
            available, loop, micOnly, cameraOnly, displayOnly, videoOnly,
            wakeOnly, playbackOnly, visionOnly>>
    \/ /\ part = "camera" /\ Eye!Next
       /\ UNCHANGED <<part, queue, current, thread, stop, chunks, worker,
            available, loop, micOnly, speakerOnly, displayOnly, videoOnly,
            wakeOnly, playbackOnly, visionOnly>>
    \/ /\ part = "display" /\ Face!Next
       /\ UNCHANGED <<part, queue, current, chunks, held, worker,
            closed, started, late, available, loop, micOnly, speakerOnly,
            cameraOnly, videoOnly, wakeOnly, playbackOnly, visionOnly>>
    \/ /\ part = "video" /\ Video!Next
       /\ UNCHANGED <<part, queue, stop, chunks, held, worker, lock, closed,
            started, late, main, loop, micOnly, speakerOnly, cameraOnly,
            displayOnly, wakeOnly, playbackOnly, visionOnly>>
    \/ /\ part = "wake_word" /\ Ear!Next
       /\ UNCHANGED <<part, current, thread, stop, chunks, held, worker, lock,
            closed, started, late, main, available, micOnly, speakerOnly,
            cameraOnly, displayOnly, videoOnly, playbackOnly, visionOnly>>
    \/ /\ part = "playback" /\ Playback!Next
       /\ UNCHANGED <<part, current, thread, stop, held, worker, lock, late,
            main, available, micOnly, speakerOnly, cameraOnly, displayOnly,
            videoOnly, wakeOnly, visionOnly>>
    \/ /\ part = "vision" /\ Vision!Next
       /\ UNCHANGED <<part, current, thread, stop, chunks, held, lock,
            started, late, main, loop, micOnly, speakerOnly, cameraOnly,
            displayOnly, videoOnly, wakeOnly, playbackOnly>>

Spec == Init /\ [][Next]_vars

------------------------------------------------------------------------------
(* Whoever waits is woken: when a microphone's close() has returned, every *)
(* subscriber of what it closed has been told (mic_stream.py); every       *)
(* speech handle is done or on its way to be, also one that was said after *)
(* a stop() (speaker.py); no frame waits unnoticed for the next one        *)
(* (vision.py).                                                            *)
NobodyWaitsInVain ==
    /\ (part = "mic") => Mic!NobodyWaitsInVain
    /\ (part = "speaker") => Voice!NoHandleIsLost /\ Voice!LaterSpeechSurvives
    /\ (part = "vision") => Vision!NoFrameIsStranded

(* A device in use is reserved and has one user, and nobody is left using  *)
(* it: a capture thread nobody waits for, a recorder left running, a       *)
(* player, a wedged camera read that finishes a close(), a serial port     *)
(* that refused to close, a capture under a closed camera, an aplay of a   *)
(* barge-in (mic_stream.py, speaker.py, camera.py, display.py, video.py,   *)
(* the companion's audio.py).  Except a display that was connected again   *)
(* while an earlier reader thread of it had not ended.                     *)
OpenIsReserved ==
    /\ (part = "mic") => Mic!DeviceIsReserved
    /\ (part = "speaker") => Voice!PlaysReserved
    /\ (part = "camera") => Eye!ReadsWhatIsOpen /\ Eye!GivenUpIsReleased
    /\ (part = "display") => Face!ReservedWhileOpen
    /\ (part = "video") => Video!OneCapture
    /\ (part = "playback") => Playback!NoPlayerIsAbandoned

(* Nothing stale is served: a subscription never hears the generation      *)
(* after its own, a stopped speaker plays nothing said before, latest()    *)
(* never gives a frame from before a restart, a display command never      *)
(* returns another one's reply until one that reads the port itself has    *)
(* taken a line of the display's own, an agent takes nothing for a command *)
(* that it heard while it answered (mic_stream.py, speaker.py, camera.py,  *)
(* display.py, the wake word agent's main.py).                             *)
NothingStaleIsServed ==
    /\ (part = "mic") => Mic!NobodyEavesdrops
    /\ (part = "speaker") => Voice!StoppedIsSilent
    /\ (part = "camera") => Eye!LatestIsFresh
    /\ (part = "display") => Face!OwnReplyOnly
    /\ (part = "wake_word") => Ear!OnlyLiveAudio

(* What was perceived is what there was: an utterance is of bounded length *)
(* and lacks nothing of what was heard but the chunks a full queue gave up *)
(* (vad.py, mic_stream.py); each frame is judged once, and no sweep of a   *)
(* hand is a wave (vision.py).                                             *)
PerceptionIsEarned ==
    /\ (part = "wake_word") => Ear!UtteranceLacksNothingElse /\ Ear!UtteranceIsBounded
    /\ (part = "vision") => Vision!EachFrameOnce /\ Vision!ASweepIsNoWave
==============================================================================
