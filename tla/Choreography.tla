----------------------------- MODULE Choreography -----------------------------
(***************************************************************************)
(* engine.py, the legs: gaits by a phase that wraps, the waves and the     *)
(* clap by a clock of their own whose rate changes along a timeline built  *)
(* from knobs that may be turned while it plays.  Time is counted in       *)
(* 1/300 s (a frame at rate 1 is 5), levels and envelopes in 1 / Unit with *)
(* straight lines for raised cosines, hands' separation in mm, yaw in      *)
(* ticks from NEUTRAL; inverse kinematics is left out.                     *)
(***************************************************************************)
EXTENDS Integers, Sequences

CONSTANTS
  Cycle,     (* gait phases in a cycle                                     *)
  GaitSpeed, (* phases a frame advances                                    *)
  Knobs,     (* the settings tried: [count, period, dwell, decay, offset, intro, raise, speed, gap, open, height] *)
  Unit,
  Longest,   (* the length of the longest gesture, after which clocks are not told apart *)
  Watched    (* the leg whose yaw is followed; the others are like it      *)

ChoreographyAssumption ==
  /\ Cycle \in Nat /\ Cycle % 12 = 0 /\ GaitSpeed \in 1..(Cycle \div 12) /\ Unit \in Nat \ {0} /\ Watched \in 1..6
  /\ Longest \in Nat
  /\ Knobs \subseteq [count : Int, period : Int, dwell : Int, decay : Int, offset : Int, intro : Int,
                      raise : Int, speed : Int, gap : Int, open : Int, height : Int]

Leg == 1..6
TripodA == {1, 3, 5}
TripodB == {2, 4, 6}
Arms == {3, 6}                        (* _WAVE_BOTH_LEGS *)
Gaits == {"WALK", "ROTATE", "CREEP"}  (* WALK: forward, backward, strafe *)
Planted == {"DANCE", "BODY_TILT"}       (* BODY_TILT: pushup too *)
Waves == {"WAVE", "WAVE_BOTH", "CLAP"}
Motions == {"IDLE"} \cup Gaits \cup Planted \cup Waves

(* Class constants, in 1/300 s: _WAVE_PREP_SWEEP, _WAVE_SETTLE_DWELL,      *)
(* _WAVE_RETURN_S, _WAVE_PREP_S, _WAVE_BOTH_POSE_LEAD, _CLAP_RAISE_S; the  *)
(* gap floor and the natural separation of the hands in mm.                *)
PrepSweep == 150
SettleDwell == 90
ReturnS == 150
PrepS == 90
Lead == 105
ClapRaise == 150
MinRate == 1
GapFloor == 20
HeightFloor == 10
NaturalSep == 249

VARIABLES
  motion,  (* _motion                                                      *)
  gait,    (* _gait_phase                                                  *)
  clock,   (* _wave_phase                                                  *)
  knobs,   (* the settings in force                                        *)
  waveLeg, (* wave_leg                                                     *)
  lifted,  (* the feet off the ground, as the last frame commanded         *)
  stance,  (* how much of the stance that carries raised arms is built     *)
  apart,   (* separation of the hands                                      *)
  yaw,     (* the watched leg's yaw                                        *)
  stalled  (* a ghost: whether the last step was a frame that changed nothing *)

choreoVars == <<motion, gait, clock, knobs, waveLeg, lifted, stance, apart, yaw, stalled>>

Least(a, b) == IF a < b THEN a ELSE b
Most(a, b) == IF a > b THEN a ELSE b
Whole(a, b) == IF a >= 0 THEN a \div b ELSE -((-a) \div b)

Init ==
  /\ motion = "IDLE" /\ gait = 0 /\ clock = 0 /\ knobs \in Knobs /\ waveLeg = 6
  /\ lifted = {} /\ stance = 0 /\ apart = NaturalSep /\ yaw = 0 /\ stalled = FALSE

-----------------------------------------------------------------------------
(* _interp_keyframes: keys are <<time, value>>.                            *)
Interp(keys, t) ==
  IF t <= keys[1][1] THEN keys[1][2]
  ELSE IF t > keys[Len(keys)][1] THEN keys[Len(keys)][2]
  ELSE LET i == CHOOSE k \in 2..Len(keys) : t <= keys[k][1] /\ \A j \in 2..(k - 1) : t > keys[j][1]
           span == keys[i][1] - keys[i - 1][1]
       IN  IF span <= 0 THEN keys[i][2]
           ELSE keys[i - 1][2] + Whole((keys[i][2] - keys[i - 1][2]) * (t - keys[i - 1][1]), span)

(* A knob that is a fraction, in tenths or halves, is held between 0 and a *)
(* top.  The amplitude of a stroke is the one before it times the decay.   *)
Held(x, top) == Most(0, Least(top, x))
Decay(d) == LET amp[n \in Nat] == IF n = 0 THEN Unit ELSE (amp[n - 1] * d) \div 10 IN amp
Decayed(k, n) == Decay(Held(k.decay, 10))[n]

(* _build_wave_timeline: prep, settle, count strokes of a period each,     *)
(* smaller and smaller, return.                                            *)
WaveCount(k) == Most(1, k.count)
WavePeriod(k) == Most(16, k.period)                     (* 0.05 s, made even *)
WaveStroke(k, i) ==
  LET half == WavePeriod(k) \div 2
      move == half - (half * Held(10 * k.dwell, 95)) \div 100
      at == <<move, half, half + move, WavePeriod(k)>>
      n == (i - 1) \div 4
      p == 1 + ((i - 1) % 4)
  IN  <<PrepSweep + SettleDwell + n * WavePeriod(k) + at[p],
        IF p <= 2 THEN Unit + Decayed(k, n) ELSE Unit>>

IntroEnd == PrepSweep + SettleDwell
RaiseEnd(k) == WaveStroke(k, 1)[1]
OutroStart(k) == IntroEnd + WaveCount(k) * WavePeriod(k)
WaveDuration(k) == OutroStart(k) + ReturnS
WaveKeys(k) ==
  <<<<0, 0>>, <<PrepSweep, Unit>>, <<IntroEnd, Unit>>>> \o [i \in 1..(4 * WaveCount(k)) |-> WaveStroke(k, i)] \o <<<<WaveDuration(k), 0>>>>

(* The posture's envelope: in over PrepS, full until, out over ReturnS.    *)
Envelope(t, full) ==
  IF t < PrepS THEN (t * Unit) \div PrepS
  ELSE IF t < full THEN Unit
  ELSE IF t < full + ReturnS THEN ((full + ReturnS - t) * Unit) \div ReturnS
  ELSE 0

(* Mutant: the knob is the rate. *)
Floored_Not(rate) == rate

(* The clocks.  A rate of 0, or below, would stop or reverse a gesture.    *)
Floored(rate) == Most(MinRate, rate)

WaveRate(k, ph) ==
  IF ph >= OutroStart(k) \/ ph < IntroEnd THEN Floored(k.intro)
  ELSE IF ph < RaiseEnd(k) THEN Floored(k.raise) ELSE Floored(k.speed)
Offset(k) == (Held(k.offset, 2) * WavePeriod(k)) \div 2
BothRate(k, ph) ==
  IF ph >= OutroStart(k) + Lead + Offset(k) \/ ph < IntroEnd + Lead THEN Floored(k.intro)
  ELSE IF ph < RaiseEnd(k) + Lead THEN Floored(k.raise) ELSE Floored(k.speed)

(* The clap's timeline: raise, count closings of a period each, lower.     *)
ClapPeriod(k) == Most(30, k.period)
ClapRaiseEnd == Lead + ClapRaise
ClapStroke(k, i) ==
  LET half == ClapPeriod(k) \div 2
      move == half - (half * Held(k.dwell, 8)) \div 10
      at == <<move, half, half + move, 2 * half>>
      n == (i - 1) \div 4
      p == 1 + ((i - 1) % 4)
  IN  <<ClapRaiseEnd + 2 * n * half + at[p], IF p <= 2 THEN Unit ELSE Unit - Decayed(k, n + 1)>>
StrokesEnd(k) == ClapRaiseEnd + 2 * WaveCount(k) * (ClapPeriod(k) \div 2)
LowerEnd(k) == StrokesEnd(k) + ReturnS
ClapKeys(k) == <<<<ClapRaiseEnd, 0>>>> \o [i \in 1..(4 * WaveCount(k)) |-> ClapStroke(k, i)]
ClapLift(k, t) == Interp(<<<<Lead, 0>>, <<ClapRaiseEnd, Unit>>, <<StrokesEnd(k), Unit>>, <<LowerEnd(k), 0>>>>, t)
ClapRate(k, ph) == IF ph < ClapRaiseEnd \/ ph >= StrokesEnd(k) THEN Floored(k.intro) ELSE 5

(* Mutant: the knobs as they are. *)
ClapApart_Unfloored(k, t) ==
  LET target == k.open + Whole((k.gap - k.open) * Interp(ClapKeys(k), t), Unit)
  IN  NaturalSep + Whole((target - NaturalSep) * ClapLift(k, t), Unit)

(* The hands' separation: the gap has a floor, the opening is no smaller,  *)
(* and the lift blends it in.                                              *)
ClapApart(k, t) ==
  LET gap == Most(GapFloor, k.gap)
      open == Most(gap, k.open)
      target == open + Whole((gap - open) * Interp(ClapKeys(k), t), Unit)
  IN  NaturalSep + Whole((target - NaturalSep) * ClapLift(k, t), Unit)

Total(m, k) ==
  CASE m = "WAVE" -> WaveDuration(k)
    [] m = "WAVE_BOTH" -> WaveDuration(k) + Lead + Offset(k) + ReturnS
    [] m = "CLAP" -> LowerEnd(k) + ReturnS
    [] OTHER -> 0

-----------------------------------------------------------------------------
SetMotion(m) ==
  /\ motion' = m
  /\ clock' = 0                                   (* read by the waves only, which restart it *)
  /\ gait' = IF m = "DANCE" THEN 0 ELSE gait
  /\ stalled' = FALSE
  /\ UNCHANGED <<knobs, waveLeg, lifted, stance, apart, yaw>>

SetKnobs(k) ==
  /\ knobs # k /\ knobs' = k /\ stalled' = FALSE
  /\ UNCHANGED <<motion, gait, clock, waveLeg, lifted, stance, apart, yaw>>

(* Mutant: no snap at the end of the glide. *)
Glide_NoSnap(x) == x - Whole(x, 5)

(* _apply_idle: a fifth of the way, and there when it is near.             *)
Glide(x) == IF x \in -9..9 THEN 0 ELSE x - Whole(x, 5)

StepIdle ==
  /\ motion = "IDLE"
  /\ yaw' = Glide(yaw) /\ lifted' = (IF yaw' = 0 THEN {} ELSE lifted) /\ stance' = 0 /\ apart' = NaturalSep
  /\ UNCHANGED <<motion, gait, clock, knobs, waveLeg>>

(* The stride: the cosine of the phase, as a triangle.                     *)
Shifted(leg) == (gait' + (IF leg \in TripodA THEN 0 ELSE Cycle \div 2)) % Cycle
Stride(amp, ph) == amp - Whole(4 * amp * (IF ph <= Cycle \div 2 THEN ph ELSE Cycle - ph), Cycle)

(* Mutant: the second tripod half a cycle early, and not off its feet last. *)
Walks_InStep ==
  /\ motion \in {"WALK", "ROTATE"}
  /\ gait' = (gait + GaitSpeed) % Cycle
  /\ lifted' = {leg \in Leg : LET ph == (gait' + (IF leg \in TripodA THEN 0 ELSE Cycle \div 3)) % Cycle IN 0 < ph /\ ph < Cycle \div 2}
  /\ yaw' = Stride(IF motion = "WALK" THEN 250 ELSE 200, Shifted(Watched))
  /\ stance' = 0 /\ apart' = NaturalSep /\ UNCHANGED <<motion, clock, knobs, waveLeg>>

(* _apply_tripod_gait, _apply_rotate: a foot is up while its sine is.      *)
Walks ==
  /\ motion \in {"WALK", "ROTATE"}
  /\ gait' = (gait + GaitSpeed) % Cycle
  /\ lifted' = {leg \in Leg : 0 < Shifted(leg) /\ Shifted(leg) < Cycle \div 2}
  /\ yaw' = Stride(IF motion = "WALK" THEN 250 ELSE 200, Shifted(Watched))
  /\ stance' = 0 /\ apart' = NaturalSep /\ UNCHANGED <<motion, clock, knobs, waveLeg>>

(* _apply_creep: one leg after another swings; the yaw of the others goes  *)
(* back by a twentieth.                                                    *)
CreepOrder == <<1, 6, 2, 5, 3, 4>>
Creeps ==
  LET slice == Cycle \div 6
      swings == CreepOrder[1 + gait' \div slice]
      t == gait' % slice
  IN
  /\ motion = "CREEP"
  /\ gait' = (gait + GaitSpeed) % Cycle
  /\ lifted' = (IF t > 0 THEN {swings} ELSE {})
  /\ yaw' = (IF swings = Watched THEN Whole((2 * t - slice) * 150, slice)
             ELSE IF yaw \in -4..4 THEN 0 ELSE yaw - Whole(yaw, 20))
  /\ stance' = 0 /\ apart' = NaturalSep /\ UNCHANGED <<motion, clock, knobs, waveLeg>>

(* _apply_dance, _apply_body_tilt, _apply_pushup: the body moves over feet *)
(* that stay.                                                              *)
Sways ==
  /\ motion \in Planted
  /\ gait' = (gait + GaitSpeed) % Cycle
  /\ lifted' = {} /\ yaw' = 0 /\ stance' = 0 /\ apart' = NaturalSep
  /\ UNCHANGED <<motion, clock, knobs, waveLeg>>

LongestAssumption == \A m \in Waves, k \in Knobs : Total(m, k) <= Longest
Clocked(rate) == clock' = Least(clock + rate, Longest)

(* _apply_wave: five legs lean, one waves. *)
WavesOne ==
  /\ motion = "WAVE" /\ Clocked(WaveRate(knobs, clock))
  /\ lifted' = (IF Interp(WaveKeys(knobs), clock') > 0 THEN {waveLeg} ELSE {})
  /\ stance' = Envelope(clock', WaveDuration(knobs) - ReturnS)
  /\ yaw' = 0 /\ apart' = NaturalSep
  /\ UNCHANGED <<motion, gait, knobs, waveLeg>>

(* Mutant: the posture is released when the first arm has landed. *)
WavesBoth_EarlyRelease ==
  /\ motion = "WAVE_BOTH" /\ Clocked(BothRate(knobs, clock))
  /\ lifted' = {leg \in Arms : Interp(WaveKeys(knobs), clock' - Lead - (IF leg = 6 THEN Offset(knobs) ELSE 0)) > 0}
  /\ stance' = Envelope(clock', WaveDuration(knobs) + Lead)
  /\ yaw' = 0 /\ apart' = NaturalSep
  /\ UNCHANGED <<motion, gait, knobs, waveLeg>>

(* _apply_wave_both, _apply_beg_stance: the second arm runs an offset      *)
(* behind, the posture leads both and outlasts both.                       *)
WavesBoth ==
  /\ motion = "WAVE_BOTH" /\ Clocked(BothRate(knobs, clock))
  /\ lifted' = {leg \in Arms : Interp(WaveKeys(knobs), clock' - Lead - (IF leg = 6 THEN Offset(knobs) ELSE 0)) > 0}
  /\ stance' = Envelope(clock', WaveDuration(knobs) + Lead + Offset(knobs))
  /\ yaw' = 0 /\ apart' = NaturalSep
  /\ UNCHANGED <<motion, gait, knobs, waveLeg>>

(* _apply_clap *)
Claps ==
  /\ motion = "CLAP" /\ Clocked(ClapRate(knobs, clock))
  /\ lifted' = (IF ClapLift(knobs, clock') * Most(HeightFloor, knobs.height) > 0 THEN Arms ELSE {})
  /\ stance' = Envelope(clock', LowerEnd(knobs))
  /\ apart' = ClapApart(knobs, clock') /\ yaw' = 0
  /\ UNCHANGED <<motion, gait, knobs, waveLeg>>

Step ==
  /\ StepIdle \/ Walks \/ Creeps \/ Sways \/ WavesOne \/ WavesBoth \/ Claps
  /\ stalled' = UNCHANGED <<gait, clock, lifted, stance, apart, yaw>>

Next == Step \/ (\E m \in Motions : SetMotion(m)) \/ (\E k \in Knobs : SetKnobs(k))

Spec == Init /\ [][Next]_choreoVars

-----------------------------------------------------------------------------
(* _build wave, _apply_wave_both: "the arms only ever move over a fully    *)
(* built stance": with both front legs away the other four carry the body  *)
(* in the posture that keeps it from tipping, for any knobs, and knobs     *)
(* turned in mid-gesture.  Some three feet, never of neighbouring legs     *)
(* only, carry it in every gait.                                           *)
BodyIsCarried ==
  /\ lifted \in {{}, TripodA, TripodB, Arms} \/ \E leg \in Leg : lifted = {leg}
  /\ lifted \cap Arms # {} /\ motion \in {"WAVE_BOTH", "CLAP"} /\ clock > 0 => stance = Unit

(* _CLAP_GAP_FLOOR: no setting of the knobs brings the hands closer.       *)
HandsKeepApart == apart >= GapFloor

Near(x) == IF x < 0 THEN -x ELSE x
(* _apply_idle: every frame brings the legs nearer to neutral, to the end: *)
(* no rounding leaves them short of it.                                    *)
LegsComeToRest == motion = "IDLE" /\ (stalled' \/ yaw' # yaw) => Near(yaw') < Near(yaw) \/ yaw' = 0
(* _apply_creep: "Leg is in stance -- slowly return yaw to neutral".       *)
CreepComesToRest ==
  [][motion = "CREEP" /\ motion' = motion /\ gait' # gait /\ CreepOrder[1 + gait' \div (Cycle \div 6)] # Watched
       => Near(yaw') < Near(yaw) \/ yaw' = 0]_choreoVars

(* _MIN_RATE: "Rate 0 would freeze the gesture mid-prep forever": no frame *)
(* leaves a wave where it was before its end, whatever is done to the      *)
(* knobs.                                                                  *)
GesturesMoveOn == motion \in Waves /\ stalled' => clock = Longest
=============================================================================
