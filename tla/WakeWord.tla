-------------------------------- MODULE WakeWord --------------------------------
(***************************************************************************)
(* The wake word agent: the microphone thread fills the queue of a         *)
(* subscription, listen_loop takes chunk by chunk and cuts them into       *)
(* utterances, and each utterance is transcribed and perhaps executed and  *)
(* answered aloud, while nobody reads the queue.  Samples are numbered in  *)
(* the order they are heard.                                               *)
(***************************************************************************)
EXTENDS Integers, SequencesExt

CONSTANTS
    Chunk,     \* lengths a chunk of the microphone may have
    Frame,     \* FRAME_SAMPLES
    PreRoll,   \* _pre_roll_limit
    Silence,   \* _silence_limit
    MaxSpeech, \* _max_samples
    Room,      \* the queue of the subscription, in chunks
    MaxHeard   \* bound: samples of a run

WakeWordAssumption ==
    /\ Chunk \subseteq Nat \ {0} /\ Frame \in Nat \ {0}
    /\ {PreRoll, Silence, MaxSpeech, MaxHeard} \subseteq Nat /\ Room \in Nat \ {0}

VARIABLES
    heard,     \* samples the microphone has delivered so far
    queue,     \* the subscription's queue: chunks, each a sequence of samples
    dropped,   \* samples a full queue gave up
    loop,      \* where listen_loop stands
    carry,     \* _carry, and the part of the present chunk not scored yet
    preRoll,   \* _pre_roll
    speech,    \* _speech
    speaking,  \* _speaking
    silence,   \* _silence_run
    utterance, \* the utterance being handled
    answered,  \* samples heard when the last utterance was done with
    voice,     \* speech of the robot still audible: of its tools, of its reply
    own        \* samples heard while the robot was audible

vars == <<heard, queue, dropped, loop, carry, preRoll, speech, speaking, silence, utterance, answered, voice, own>>
segmenter == <<carry, preRoll, speech, speaking, silence>>

Init ==
    /\ heard = 0 /\ queue = <<>> /\ dropped = {} /\ loop = "listening"
    /\ carry = <<>> /\ preRoll = <<>> /\ speech = <<>> /\ speaking = FALSE /\ silence = 0
    /\ utterance = <<>> /\ answered = 0 /\ voice = {} /\ own = {}

----------------------------------------------------------------------------
(* Around the loop *)

\* The microphone thread delivers a chunk; a full queue gives up its oldest,
\* also in the middle of an utterance.
Captured ==
    /\ \E n \in Chunk :
         LET chunk == [i \in 1..n |-> heard + i] IN
         /\ heard + n <= MaxHeard
         /\ heard' = heard + n
         /\ queue' = Append(IF Len(queue) = Room THEN Tail(queue) ELSE queue, chunk)
         /\ dropped' = IF Len(queue) = Room THEN dropped \cup {Head(queue)[i] : i \in DOMAIN Head(queue)} ELSE dropped
         /\ own' = IF voice = {} THEN own ELSE own \cup (heard + 1)..(heard + n)
    /\ UNCHANGED <<loop, segmenter, utterance, answered, voice>>

\* What the robot says comes to its end, in the order it was said.
FallsSilent ==
    /\ voice # {}
    /\ voice' = IF "tool" \in voice THEN voice \ {"tool"} ELSE {}
    /\ UNCHANGED <<heard, queue, dropped, loop, segmenter, utterance, answered, own>>

----------------------------------------------------------------------------
(* UtteranceSegmenter *)

\* Mutant: the samples short of a frame survive a reset.
Reset_KeepsCarry ==
    carry' = carry /\ preRoll' = <<>> /\ speech' = <<>> /\ speaking' = FALSE /\ silence' = 0
Reset == carry' = <<>> /\ preRoll' = <<>> /\ speech' = <<>> /\ speaking' = FALSE /\ silence' = 0

\* is_speaking knows the reply, not what a tool says.
IsSpeaking == "reply" \in voice

\* A chunk is taken: dropped with all that is buffered while the reply plays,
\* otherwise appended to what was carried over.
Take ==
    /\ loop = "listening" /\ queue # <<>>
    /\ queue' = Tail(queue)
    /\ IF IsSpeaking
       THEN Reset /\ loop' = loop
       ELSE /\ loop' = "scoring" /\ carry' = carry \o Head(queue)
            /\ UNCHANGED <<preRoll, speech, speaking, silence>>
    /\ UNCHANGED <<heard, dropped, utterance, answered, voice, own>>

\* An utterance opens with the pre-roll before the frame that crosses the threshold.
Opened(frame) == preRoll \o frame

\* Mutant: the pre-roll keeps its oldest samples.
Trimmed_Oldest(s) == IF Len(s) > PreRoll THEN SubSeq(s, 1, PreRoll) ELSE s

\* _feed_frame while idle: a quiet frame joins the pre-roll, whole frames leave
\* its other end, and a loud one opens an utterance.
Trimmed(s) == IF Len(s) > PreRoll THEN SubSeq(s, Frame * ((Len(s) - PreRoll + Frame - 1) \div Frame) + 1, Len(s)) ELSE s
Idle(frame, level) ==
    IF level # "loud"
    THEN preRoll' = Trimmed(preRoll \o frame) /\ UNCHANGED <<speech, speaking, silence>>
    ELSE preRoll' = <<>> /\ speech' = Opened(frame) /\ speaking' = TRUE /\ silence' = 0

\* _feed_frame while speaking: a frame between the thresholds ends a silence.
Speaking(frame, level) ==
    /\ speech' = speech \o frame
    /\ silence' = IF level = "quiet" THEN silence + Len(frame) ELSE 0
    /\ UNCHANGED <<preRoll, speaking>>

\* Mutant: only silence completes an utterance.
Complete_OnSilence == silence' >= Silence
Complete == silence' >= Silence \/ Len(speech') >= MaxSpeech

\* feed: frame after frame of the chunk is scored until one completes an
\* utterance; what is left over is carried to the next chunk.
Score ==
    /\ loop = "scoring"
    /\ IF Len(carry) < Frame
       THEN loop' = "listening" /\ UNCHANGED <<segmenter, utterance>>
       ELSE LET frame == SubSeq(carry, 1, Frame) IN
            /\ carry' = SubSeq(carry, Frame + 1, Len(carry))
            /\ \E level \in {"quiet", "between", "loud"} :
                 IF speaking THEN Speaking(frame, level) ELSE Idle(frame, level)
            /\ loop' = IF speaking' /\ Complete THEN "completed" ELSE "scoring"
            /\ utterance' = utterance
    /\ UNCHANGED <<heard, queue, dropped, answered, voice, own>>

\* _finalize hands the utterance out; pre-roll and carry stay.
Finalize ==
    /\ loop = "completed"
    /\ loop' = "handling" /\ utterance' = speech
    /\ speech' = <<>> /\ speaking' = FALSE /\ silence' = 0
    /\ UNCHANGED <<heard, queue, dropped, carry, preRoll, answered, voice, own>>

----------------------------------------------------------------------------
(* listen_loop with an utterance *)

\* A tool of CommandAgent.run may start to speak; it waits for its speech only
\* for so long.
ToolSpeaks ==
    /\ loop = "handling" /\ "tool" \notin voice /\ "reply" \notin voice
    /\ voice' = voice \cup {"tool"}
    /\ UNCHANGED <<heard, queue, dropped, loop, segmenter, utterance, answered, own>>

\* The utterance is ignored, answered aloud, or an exception is caught.
Handled ==
    /\ loop = "handling" /\ loop' = "draining"
    /\ \/ voice' = voice
       \/ voice' = voice \cup {"reply"}
    /\ utterance' = <<>> /\ answered' = heard
    /\ UNCHANGED <<heard, queue, dropped, segmenter, own>>

\* Mutant: what piled up in the queue is listened to.
Drain_Not == Reset /\ loop' = "listening" /\ queue' = queue
\* _discard_stale_audio takes chunk after chunk until the queue is empty, and
\* then resets the segmenter.
Drain ==
    IF queue = <<>>
    THEN Reset /\ loop' = "listening" /\ queue' = queue
    ELSE queue' = Tail(queue) /\ loop' = loop /\ UNCHANGED segmenter

DiscardStaleAudio ==
    /\ loop = "draining" /\ Drain
    /\ UNCHANGED <<heard, dropped, utterance, answered, voice, own>>

Next ==
    \/ Captured \/ FallsSilent
    \/ Take \/ Score \/ Finalize
    \/ ToolSpeaks \/ Handled \/ DiscardStaleAudio

Spec == Init /\ [][Next]_vars

----------------------------------------------------------------------------
(* Properties *)

Handling == loop = "handling"

\* y comes after x, and what was heard in between is what the queue gave up.
Follows(x, y) == x < y /\ (x + 1)..(y - 1) \subseteq dropped

\* An utterance is what was heard, in its order and without a sample twice, and
\* lacks nothing of it but chunks the queue gave up because the loop was slow:
\* pre-roll, carry and frames fit together across chunks, resets and utterances.
UtteranceLacksNothingElse ==
    Handling => \A i \in 1..(Len(utterance) - 1) : Follows(utterance[i], utterance[i + 1])

\* Nothing heard while the last utterance was transcribed, executed and
\* answered is ever taken for a command.
OnlyLiveAudio == Handling => \A i \in DOMAIN utterance : utterance[i] > answered

\* An utterance is handed over as soon as it is long enough.
UtteranceIsBounded == Handling => Len(utterance) < Max({MaxSpeech, PreRoll + Frame}) + Frame

\* What the comment at the speaking handle asks for: the robot's own voice is
\* never segmented.
OwnVoiceIsNotSegmented == Handling => \A i \in DOMAIN utterance : utterance[i] \notin own
================================================================================
