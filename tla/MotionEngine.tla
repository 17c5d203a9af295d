----------------------------- MODULE MotionEngine -----------------------------
(***************************************************************************)
(* engine.py: which motion plays, and who moves the neck: the caller's     *)
(* look target, a gesture's keyframes, a posture one-shot, a keyframe      *)
(* track, or the thermal lock that holds it at center.  Ticks are counted  *)
(* from NEUTRAL, gesture time in frames; what the legs do is Choreography. *)
(***************************************************************************)
EXTENDS Integers, Sequences

CONSTANTS
  Amplitude,  (* NECK_AMPLITUDE_TICKS                                      *)
  NeckStep,   (* ticks a frame may move the head                           *)
  Trim,       (* neck_rest_pitch_deg in ticks, positive raises the gaze    *)
  Shares,     (* neck_pitch2_share is Share / Shares                       *)
  Share,
  Unit,       (* normalized targets are counted in 1 / Unit                *)
  Pitch, Yaw, (* targets callers ask for                                   *)
  Posture,    (* [one-shot -> the neck targets it plays, frame by frame]   *)
  Stroke,     (* [neck gesture -> its offsets, frame by frame]             *)
  Blend,      (* the home blend's weights, frame by frame, in 1 / Unit     *)
  Track,      (* the neck poses of a keyframe track                        *)
  Seed        (* poses another controller may leave the neck in            *)

Pose == [p1 : Int, p2 : Int, yaw : Int]

EngineAssumption ==
  /\ Amplitude \in Nat \ {0} /\ NeckStep \in Nat \ {0} /\ Shares \in Nat \ {0} /\ Unit \in Nat \ {0}
  /\ Share \in 0..Shares /\ Trim \in -Amplitude..Amplitude
  /\ Pitch \subseteq -Unit..Unit /\ Yaw \subseteq -Unit..Unit
  /\ \A m \in DOMAIN Posture : Posture[m] \in Seq(Int)
  /\ \A m \in DOMAIN Stroke : Stroke[m] \in Seq(Int)
  /\ Blend \in Seq(Int) /\ Track \in Seq(Pose) /\ Track # <<>> /\ Seed \subseteq Pose
  /\ DOMAIN Posture \cap (DOMAIN Stroke \cup {"IDLE", "WALK", "WAVE", "KEYFRAMES"}) = {}

PostureOneShots == DOMAIN Posture
NeckGestures == DOMAIN Stroke
Motions == {"IDLE", "WALK", "WAVE"} \cup PostureOneShots \cup NeckGestures  (* WALK: gaits, dance, tilt, pushup; WAVE: wave, wave_both, clap *)

VARIABLES
  motion,    (* _motion                                                    *)
  clock,     (* the clock of what plays, in frames: _bow_phase, _stretch_phase, _gesture_phase or _keyframe_phase *)
  start,     (* _gesture_neck_start, of the gesture that plays             *)
  released,  (* _keyframe_neck_released, of the track that plays           *)
  neck,      (* [p1, p2, yaw]: ticks from NEUTRAL                          *)
  target,    (* [pitch, yaw, look]: the normalized target and its source   *)
  hold,      (* neck_hold_center                                           *)
  taken      (* the lock has had the neck since the motion was selected, as a ghost *)

engineVars == <<motion, clock, start, released, neck, target, hold, taken>>

Center == -Trim
Straight == [p1 |-> 0, p2 |-> 0, yaw |-> 0]
Home == [p1 |-> Center, p2 |-> 0, yaw |-> 0]
Least(a, b) == IF a < b THEN a ELSE b
Most(a, b) == IF a > b THEN a ELSE b
Clamp(x, lim) == Most(-lim, Least(lim, x))
Whole(a, b) == IF a >= 0 THEN a \div b ELSE -((-a) \div b)     (* int(a / b) *)

NoTarget == [pitch |-> 0, yaw |-> 0, look |-> FALSE]

Init ==
  /\ motion = "IDLE" /\ clock = 0 /\ start = Straight /\ released = FALSE
  /\ neck = Straight /\ target = NoTarget /\ hold = FALSE /\ taken = FALSE

-----------------------------------------------------------------------------
(* _apply_neck.  StepToward: one step, or there.                           *)
StepToward(current, goal, step) ==
  IF current - goal \in -step..step THEN goal ELSE IF current < goal THEN current + step ELSE current - step

UpReach ==
  LET spare == Center + Amplitude
  IN  IF Share = 0 THEN Least(Amplitude, spare)
      ELSE Least(((Shares - Share) * Amplitude) \div Shares, spare) + Amplitude

Total(t) == Clamp(Whole(t.pitch * Amplitude, Unit), Amplitude)
GoalP1(t) == Clamp(Center + Whole((Shares - Share) * Total(t), Shares), Amplitude)

(* Mutant: a gesture's chin-up target draws on the wider band too. *)
Demand_Ungated(t) == IF t.pitch < 0 THEN Clamp(Whole(t.pitch * UpReach, Unit), UpReach) ELSE Total(t)

Demand(t) == IF t.pitch < 0 /\ t.look THEN Clamp(Whole(t.pitch * UpReach, Unit), UpReach) ELSE Total(t)

GoalP2(t) == IF Share = 0 THEN 0 ELSE Clamp(Demand(t) - (GoalP1(t) - Center), Amplitude)

ApplyNeck(n, t) ==
  [p1  |-> StepToward(n.p1, GoalP1(t), Most(1, (NeckStep * (Shares - Share)) \div Shares)),
   p2  |-> StepToward(n.p2, GoalP2(t), Most(1, (NeckStep * Share) \div Shares)),
   yaw |-> StepToward(n.yaw, Whole(t.yaw * Amplitude, Unit), NeckStep)]

-----------------------------------------------------------------------------
(* The motion setter: what a (re)selection restarts, and where leaving a   *)
(* posture one-shot leaves the neck.                                       *)
Finished(m) == clock >= Len(Posture[m])

(* Mutant: every selection restarts the one-shot. *)
Selected_Restarts(m) ==
  /\ motion' = m
  /\ clock' = 0
  /\ target' = IF motion \in PostureOneShots /\ m # motion THEN NoTarget ELSE target
  /\ start' = IF m \in NeckGestures THEN [p1 |-> neck.p1 - Center, p2 |-> neck.p2, yaw |-> neck.yaw] ELSE Straight
  /\ released' = FALSE /\ taken' = FALSE

(* Mutant: a one-shot that is left leaves the neck where it was. *)
Selected_Freezes(m) ==
  /\ motion' = m
  /\ clock' = IF m \in PostureOneShots /\ motion = m /\ ~Finished(m) THEN clock ELSE 0
  /\ UNCHANGED target
  /\ start' = IF m \in NeckGestures THEN [p1 |-> neck.p1 - Center, p2 |-> neck.p2, yaw |-> neck.yaw] ELSE Straight
  /\ released' = FALSE /\ taken' = FALSE

Selected(m) ==
  /\ motion' = m
  /\ clock' = IF m \in PostureOneShots /\ motion = m /\ ~Finished(m) THEN clock ELSE 0
  /\ target' = IF motion \in PostureOneShots /\ m # motion THEN NoTarget ELSE target
  /\ start' = IF m \in NeckGestures THEN [p1 |-> neck.p1 - Center, p2 |-> neck.p2, yaw |-> neck.yaw] ELSE Straight
  /\ released' = FALSE /\ taken' = FALSE

SetMotion(m) == Selected(m) /\ UNCHANGED <<neck, hold>>

SetNeck(p, y) ==
  /\ target' = [pitch |-> p, yaw |-> y, look |-> TRUE]
  /\ UNCHANGED <<motion, clock, start, released, neck, hold, taken>>

LoadKeyframes ==
  /\ motion' = "KEYFRAMES" /\ clock' = 0 /\ start' = Straight /\ released' = FALSE /\ taken' = FALSE
  /\ target' = NoTarget
  /\ UNCHANGED <<neck, hold>>

SetNeckPositions(pose) ==
  /\ neck' = pose /\ UNCHANGED <<motion, clock, start, released, target, hold, taken>>

Reset ==
  /\ motion' = "IDLE" /\ neck' = Straight /\ target' = NoTarget
  /\ clock' = 0 /\ start' = Straight /\ released' = FALSE /\ taken' = FALSE
  /\ UNCHANGED hold

(* Palmimo.step: the thermal lock. *)
SetHold(h) == hold # h /\ hold' = h /\ UNCHANGED <<motion, clock, start, released, neck, target, taken>>

-----------------------------------------------------------------------------
(* One frame.  In a posture one-shot the target is the gesture's while it  *)
(* plays, in a wave its pitch is, with no end.                             *)
Played(m) == IF Finished(m) THEN target ELSE [pitch |-> Posture[m][clock + 1], yaw |-> 0, look |-> FALSE]

(* Mutant: a finished one-shot goes on writing the target. *)
Wanted_Eats ==
  IF motion \in PostureOneShots
    THEN [pitch |-> IF Finished(motion) THEN 0 ELSE Posture[motion][clock + 1], yaw |-> 0, look |-> FALSE]
    ELSE IF motion = "WAVE" THEN [target EXCEPT !.pitch = 0, !.look = FALSE] ELSE target

Wanted ==
  IF motion \in PostureOneShots THEN Played(motion)
    ELSE IF motion = "WAVE" THEN [target EXCEPT !.pitch = 0, !.look = FALSE] ELSE target

(* _apply_neck_gesture: the stroke on its axis, and the pose it began in   *)
(* blended home, together within the amplitude.                            *)
Weighed(x, t) == IF t <= Len(Blend) THEN Whole(x * Blend[t], Unit) ELSE 0

(* Mutant: each part is within the amplitude, their sum is not clamped. *)
Gestured_Unclamped(m) ==
  LET t == clock + 1
      s == IF t <= Len(Stroke[m]) THEN Stroke[m][t] ELSE 0
      p == Weighed(start.p1, t) + (IF m = "NOD" THEN s ELSE 0)
      y == Weighed(start.yaw, t) + (IF m = "NOD" THEN 0 ELSE s)
  IN  [p1 |-> Center + p, p2 |-> Weighed(start.p2, t), yaw |-> y]

Gestured(m) ==
  LET t == clock + 1
      s == IF t <= Len(Stroke[m]) THEN Stroke[m][t] ELSE 0
      p == Weighed(start.p1, t) + (IF m = "NOD" THEN s ELSE 0)
      y == Weighed(start.yaw, t) + (IF m = "NOD" THEN 0 ELSE s)
  IN  [p1  |-> Clamp(Center + Clamp(p, Amplitude), Amplitude),
       p2  |-> Clamp(Weighed(start.p2, t), Amplitude),
       yaw |-> Clamp(y, Amplitude)]

(* The clock of what plays, which need not be told apart past the end.     *)
Length(m) == IF m \in PostureOneShots THEN Len(Posture[m]) ELSE IF m \in NeckGestures THEN Len(Stroke[m]) ELSE IF m = "KEYFRAMES" THEN Len(Track) ELSE 0
Ticks(m) == clock' = IF m = motion THEN Least(clock + 1, Length(m)) ELSE 0

(* A frame under the lock: a neck gesture is dropped, a track loses the    *)
(* neck for good, and the neck glides to center whatever else plays.       *)
HeldMotion == IF motion \in NeckGestures THEN "IDLE" ELSE motion

(* Mutant: the gesture plays on under the lock. *)
StepHeld_PlaysOn ==
  /\ hold /\ taken' = TRUE
  /\ target' = NoTarget
  /\ neck' = ApplyNeck(IF motion \in NeckGestures THEN Gestured(motion) ELSE neck, NoTarget)
  /\ Ticks(motion) /\ released' = (released \/ motion = "KEYFRAMES")
  /\ UNCHANGED <<motion, start, hold>>

(* Mutant: the track takes the neck back when the lock lifts. *)
StepHeld_Forgets ==
  /\ hold /\ taken' = TRUE
  /\ motion' = HeldMotion /\ target' = NoTarget /\ neck' = ApplyNeck(neck, NoTarget)
  /\ Ticks(motion') /\ UNCHANGED <<start, released, hold>>

StepHeld ==
  /\ hold /\ taken' = TRUE
  /\ motion' = HeldMotion /\ target' = NoTarget /\ neck' = ApplyNeck(neck, NoTarget)
  /\ Ticks(motion') /\ released' = (released \/ motion = "KEYFRAMES")
  /\ start' = (IF motion' = motion THEN start ELSE Straight)
  /\ UNCHANGED hold

(* A gesture writes the neck itself and leaves no look target behind.      *)
StepGesture ==
  /\ ~hold /\ motion \in NeckGestures
  /\ neck' = Gestured(motion) /\ target' = NoTarget
  /\ Ticks(motion)
  /\ UNCHANGED <<motion, start, released, hold, taken>>

(* A track writes the neck until the lock has taken it.                    *)
StepKeyframes ==
  /\ ~hold /\ motion = "KEYFRAMES"
  /\ neck' = IF released THEN ApplyNeck(neck, target) ELSE Track[Least(clock + 1, Len(Track))]
  /\ Ticks(motion)
  /\ UNCHANGED <<motion, start, released, target, hold, taken>>

StepGlide ==
  /\ ~hold /\ motion \notin NeckGestures \cup {"KEYFRAMES"}
  /\ target' = Wanted /\ neck' = ApplyNeck(neck, Wanted)
  /\ Ticks(motion)
  /\ UNCHANGED <<motion, start, released, hold, taken>>

Step == StepHeld \/ StepGesture \/ StepKeyframes \/ StepGlide

Next ==
  \/ Step
  \/ \E m \in Motions : SetMotion(m)
  \/ \E p \in Pitch, y \in Yaw : SetNeck(p, y)
  \/ LoadKeyframes \/ Reset
  \/ \E pose \in Seed : SetNeckPositions(pose)
  \/ \E h \in BOOLEAN : SetHold(h)

Spec == Init /\ [][Next]_engineVars

-----------------------------------------------------------------------------
Distance(n) == [p1 |-> IF n.p1 > Center THEN n.p1 - Center ELSE Center - n.p1,
                p2 |-> IF n.p2 > 0 THEN n.p2 ELSE -n.p2, yaw |-> IF n.yaw > 0 THEN n.yaw ELSE -n.yaw]

(* No frame takes a joint of the neck out of its band, with the head       *)
(* anywhere, a trim on its center and a gesture fired from a deflected     *)
(* head.                                                                   *)
NeckInBand == \A x \in {"p1", "p2", "yaw"} : neck[x] \in -Amplitude..Amplitude

(* step: "neck_hold_center overrides even that": under the lock every      *)
(* frame takes every joint nearer to center or leaves it there, whatever   *)
(* plays.                                                                  *)
LockedNeckComesHome ==
  hold /\ Step => \A x \in {"p1", "p2", "yaw"} : Distance(neck')[x] < Distance(neck)[x] \/ neck'[x] = Home[x]

(* _apply_keyframes: once the lock has had the neck, the track does not    *)
(* snap it back: outside gestures and tracks of their own, no frame moves  *)
(* a joint by more than a step.                                            *)
Reached(x) == neck'[x] - neck[x] \in -NeckStep..NeckStep
OwnsNeck == motion \in NeckGestures \/ (motion = "KEYFRAMES" /\ ~taken)
LockLiftsSoftly == Step /\ (~OwnsNeck \/ hold) => \A x \in {"p1", "p2", "yaw"} : Reached(x)

(* set_neck: only a look may draw on the band beyond the amplitude: a      *)
(* target of any other source never takes the head farther out than it is  *)
(* when it is past the amplitude already.                                  *)
HeadPitch(n) == (n.p1 - Center) + n.p2
ChoreographyStaysInside ==
  StepGlide /\ ~target'.look => -HeadPitch(neck') <= Most(Amplitude, -HeadPitch(neck))

(* motion: a posture one-shot that plays is never set back to its start,   *)
(* and one that is left, for whatever, leaves the neck aimed at center.    *)
PlaysOn(m) == motion' = m => Finished(m) \/ clock' >= clock
Recenters(m) == motion' # m => target'.pitch = 0 /\ target'.yaw = 0
PostureEndsCentered == (motion \in PostureOneShots) => PlaysOn(motion) /\ Recenters(motion)

(* _apply_bow: "once finished, the look() targets belong to the caller     *)
(* again".                                                                 *)
LookSurvivesTheEnd ==
  Step /\ ~hold /\ motion \in PostureOneShots /\ Finished(motion) => target' = target

(* The same of every gesture that plays once and is then held: the waves   *)
(* go on writing the pitch target for as long as they are selected.        *)
LookSurvivesTheWave == [][Step /\ ~hold /\ motion = "WAVE" => target' = target]_engineVars
=============================================================================
