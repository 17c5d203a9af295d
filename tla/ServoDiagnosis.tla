---------------------------- MODULE ServoDiagnosis ----------------------------
(***************************************************************************)
(* oscillate_servo of the diagnostics script: it reads what it needs, puts *)
(* its own profile, goal and gain on one servo, enables torque, swings the *)
(* joint between two targets, and on every way out tries to leave the      *)
(* servo limp with the registers it found.  Each write may be carried out  *)
(* and acknowledged, refused, carried out with its answer lost, or cut off *)
(* by an exception or a Ctrl+C before or after it took effect.             *)
(*                                                                         *)
(* Positions count from where the joint sits when the script reads it.     *)
(***************************************************************************)
EXTENDS Integers, FiniteSetsExt

CONSTANTS
    Window,        \* limits the servo may report, narrowed to the safe range: pairs <<low, high>>
    Amplitude,     \* OSCILLATION_AMPLITUDE
    MinTravel,     \* MIN_VISIBLE_TRAVEL
    Swings,        \* bound: targets of one run
    Gain,          \* gains a servo may be found with
    SwingGain,     \* SWING_POSITION_P_GAIN
    MaxInterrupts, \* bound: how often Ctrl+C is pressed
    None           \* unread, unknown, not begun

ServoDiagnosisAssumption ==
    /\ Window \subseteq Int \X Int /\ \A w \in Window : w[1] < w[2]
    /\ {Amplitude, Swings, SwingGain, MaxInterrupts} \subseteq Nat /\ Gain \subseteq Nat
    /\ MinTravel \in Nat \ {0, 1}      \* so MIN_TRACKING_SPAN, half of it, is a distance

VARIABLES
    pc,         \* where oscillate_servo stands
    servo,      \* the servo's registers
    found,      \* what they held before the run
    window,     \* low_limit, high_limit
    joint,      \* how the joint answers to its targets
    script,     \* previous_gain, previous_profile, wrote_gain, wrote_profile, torque_enabled
    swing,      \* index, commanded_peak, worst_error, the least and greatest offset read
    ok,         \* swing_ok, and no alert seen
    success,    \* the verdict
    said,       \* what the operator was told is still in place
    mute,       \* the notice of a Ctrl+C could not be printed
    interrupts  \* how often Ctrl+C was pressed

vars == <<pc, servo, found, mute, window, joint, script, swing, ok, success, said, interrupts>>

Low == Max({window[1], -Amplitude})
High == Min({window[2], Amplitude})
\* start_position: the nearest legal position to where the joint sits.
Start == Min({Max({0, window[1]}), window[2]})

Distance(a, b) == IF a < b THEN b - a ELSE a - b

Init ==
    /\ pc = "reading"
    /\ servo \in [torque : BOOLEAN, mode : {"position", "other"}, gain : Gain,
                  goal : {None}, accel : {"found"}, velocity : {"found"}]
    /\ found = servo
    /\ window \in Window
    /\ joint \in {"follows", "jams", "sags", "mirrors"}
    /\ script = [gain |-> None, profile |-> FALSE, wroteGain |-> FALSE, wroteProfile |-> FALSE, enabled |-> FALSE]
    /\ swing = [index |-> 0, peak |-> 0, worst |-> 0, least |-> 0, most |-> 0]
    /\ ok = TRUE /\ success = FALSE /\ said = {} /\ mute = FALSE /\ interrupts = 0

----------------------------------------------------------------------------
(* One write *)

\* What _write_register does: it returns True or False, or an exception or a
\* Ctrl+C leaves it.  Only a True says that the servo carried the write out.
Result == {"ok", "no", "raised", "ctrl-c"}
Carried(result, took) == (result = "ok" => took) /\ (result = "ctrl-c" => interrupts < MaxInterrupts)
Pressed(result) == interrupts' = IF result = "ctrl-c" THEN interrupts + 1 ELSE interrupts
Put(register, value, took) == servo' = IF took THEN [servo EXCEPT ![register] = value] ELSE servo

\* Where a write of the plan leaves the script.
To(result, next) == CASE result = "ok" -> next [] result = "no" -> "restoreGain"
                      [] result = "raised" -> "failed" [] OTHER -> "interrupted"

\* A write the plan gives up on when it is not acknowledged.
Planned(at, register, value, next) ==
    /\ pc = at
    /\ \E result \in Result, took \in BOOLEAN :
         /\ Carried(result, took) /\ Put(register, value, took) /\ Pressed(result)
         /\ pc' = To(result, next)
    /\ UNCHANGED <<found, mute, window, joint, swing, ok, success, said>>

----------------------------------------------------------------------------
(* The plan *)

\* Everything is read before the first write.  A read that fails, an alert, a
\* window too narrow or a Ctrl+C ends the run; an unreadable profile or gain
\* does not.
Read ==
    /\ pc = "reading"
    /\ \/ /\ pc' = "restoreGain" /\ UNCHANGED script
       \/ /\ High - Low >= MinTravel
          /\ pc' = IF servo.mode = "position" THEN "acceleration" ELSE "release"
          /\ \E gain \in {None, servo.gain}, profile \in BOOLEAN :
               script' = [script EXCEPT !.gain = gain, !.profile = profile]
    /\ UNCHANGED <<servo, found, mute, window, joint, swing, ok, success, said, interrupts>>

\* Torque is dropped only to switch the operating mode.
ReleaseFirst == Planned("release", "torque", FALSE, "mode") /\ UNCHANGED script
SetMode == Planned("mode", "mode", "position", "acceleration") /\ UNCHANGED script

\* wrote_profile is set before the first write of the profile, acceleration first.
SetAcceleration ==
    /\ Planned("acceleration", "accel", "run", "velocity")
    /\ script' = [script EXCEPT !.wroteProfile = TRUE]

SetVelocity == Planned("velocity", "velocity", "run", "seed") /\ UNCHANGED script

\* Mutant: the goal is seeded once the torque is on.
Seed_Skipped == Planned("seed", "mode", "position", "gain") /\ UNCHANGED script

\* The goal becomes where the joint is, then the gain goes up, then torque on.
Seed == Planned("seed", "goal", Start, "gain") /\ UNCHANGED script
SetGain ==
    /\ Planned("gain", "gain", SwingGain, "enable")
    /\ script' = [script EXCEPT !.wroteGain = TRUE]

Enable ==
    /\ Planned("enable", "torque", TRUE, "swing")
    /\ script' = [script EXCEPT !.enabled = TRUE]

\* The first target is on the side with more room.
Target(k) == IF (k % 2 = 0) <=> (High >= 0 - Low) THEN High ELSE Low

\* Where a joint is read after the dwell: near its target, stuck where the
\* first one put it, sagging wherever it hangs, or moving the wrong way.
Reading(k) ==
    CASE joint = "follows" -> Target(k) - (Target(k) \div 4)
      [] joint = "jams" -> Target(0)
      [] joint = "sags" -> 0 - (Amplitude \div 4)
      [] OTHER -> 0 - Target(k)

\* One target: written, waited for, read back.  A write or a reading that
\* fails, or an alert, ends the swing, not the run.
Swing ==
    /\ pc = "swing"
    /\ \E result \in Result, took, seen, alert \in BOOLEAN :
         LET k == swing.index  p == Reading(k) IN
         /\ Carried(result, took) /\ Put("goal", Target(k), took) /\ Pressed(result)
         /\ IF result = "ok" /\ seen
            THEN /\ swing' = [index |-> k + 1,
                              peak |-> Max({swing.peak, Distance(Target(k), 0)}),
                              worst |-> Max({swing.worst, Distance(p, Target(k))}),
                              least |-> IF k = 0 THEN p ELSE Min({swing.least, p}),
                              most |-> IF k = 0 THEN p ELSE Max({swing.most, p})]
                 /\ ok' = ~alert
                 /\ pc' = IF alert \/ k + 1 = Swings THEN "return" ELSE "swing"
            ELSE /\ UNCHANGED swing
                 /\ ok' = FALSE
                 /\ pc' = IF result \in {"ok", "no"} THEN "return" ELSE To(result, "return")
    /\ UNCHANGED <<found, mute, window, joint, script, success, said>>

\* The goal goes back to the start; whether that was carried out is not asked.
Return ==
    /\ pc = "return"
    /\ \E result \in Result, took \in BOOLEAN :
         /\ Carried(result, took) /\ Put("goal", Start, took) /\ Pressed(result)
         /\ pc' = IF result \in {"ok", "no"} THEN "off" ELSE To(result, "off")
    /\ UNCHANGED <<found, mute, window, joint, script, swing, ok, success, said>>

\* Mutant: the joint is judged by how far it got from where it started.
Followed_FromStart ==
    Max({Distance(swing.least, 0), Distance(swing.most, 0)}) >= swing.peak - swing.peak \div 2

\* _report_travel: never further from a target than half the excursion, and
\* enough ground covered.
Followed ==
    /\ swing.worst <= swing.peak - swing.peak \div 2
    /\ swing.most - swing.least >= MinTravel \div 2

\* Torque is released, or the operator is told it was not; then the verdict.
Off ==
    /\ pc = "off"
    /\ \E result \in Result, took \in BOOLEAN :
         /\ Carried(result, took) /\ Put("torque", FALSE, took) /\ Pressed(result)
         /\ script' = [script EXCEPT !.enabled = (result # "ok")]
         /\ said' = IF result = "no" THEN said \cup {"torque"} ELSE said
         /\ success' = (result = "ok" /\ ok /\ Followed)
         /\ pc' = IF result \in {"ok", "no"} THEN "restoreGain" ELSE To(result, "restoreGain")
    /\ UNCHANGED <<found, mute, window, joint, swing, ok>>

----------------------------------------------------------------------------
(* The ways out *)

\* Ctrl+C: a joint this run powered is sent back to its start.  The notice is
\* printed before that and outside of its try: a closed pipe or another Ctrl+C
\* there goes past the release.
Interrupted ==
    /\ pc = "interrupted"
    /\ \/ /\ script.enabled /\ pc' = "quietly"
          /\ \E result \in Result, took \in BOOLEAN :
               Carried(result, took) /\ Put("goal", Start, took) /\ Pressed(result)
          /\ UNCHANGED mute
       \/ ~script.enabled /\ pc' = "restoreGain" /\ UNCHANGED <<servo, mute, interrupts>>
       \/ /\ pc' = "restoreGain" /\ mute' = TRUE /\ UNCHANGED servo
          /\ \E result \in {"raised", "ctrl-c"} : Carried(result, FALSE) /\ Pressed(result)
    /\ UNCHANGED <<found, window, joint, script, swing, ok, success, said>>

\* Mutant: an exception releases nothing.
Failed_Keeps ==
    /\ pc = "failed"
    /\ pc' = "restoreGain"
    /\ UNCHANGED <<servo, found, mute, window, joint, script, swing, ok, success, said, interrupts>>

\* An exception goes straight to the release of a joint this run powered.
Failed ==
    /\ pc = "failed"
    /\ pc' = IF script.enabled THEN "quietly" ELSE "restoreGain"
    /\ UNCHANGED <<servo, found, mute, window, joint, script, swing, ok, success, said, interrupts>>

\* _release_torque_quietly: nothing leaves it, and a failure is reported.
ReleaseQuietly ==
    /\ pc = "quietly"
    /\ \E result \in Result, took \in BOOLEAN :
         /\ Carried(result, took) /\ Put("torque", FALSE, took) /\ Pressed(result)
         /\ said' = IF result = "ok" THEN said ELSE said \cup {"torque"}
    /\ pc' = "restoreGain"
    /\ UNCHANGED <<found, mute, window, joint, script, swing, ok, success>>

\* Mutant: whether the joint may still be powered is not asked.
Stiffens_Never == FALSE
\* Putting the found gain back would stiffen a joint that may be powered.
Stiffens == script.enabled /\ script.gain > SwingGain

\* What cannot be put back is said, unless the print of it raises, which
\* leaves the cleanup.
Admit(name, next) ==
    /\ \/ pc' = next /\ said' = said \cup {name}
       \/ pc' = "cutShort" /\ UNCHANGED said
    /\ UNCHANGED <<servo, interrupts>>

\* A register is put back: a failure is reported, a Ctrl+C leaves the cleanup,
\* and so does a report of an exception that cannot be printed.
PutBack(register, value, name, next, raised) ==
    \E result \in Result, took \in BOOLEAN :
        /\ Carried(result, took) /\ Put(register, value, took) /\ Pressed(result)
        /\ \/ /\ said' = IF result \in {"no", "raised"} THEN said \cup {name} ELSE said
              /\ pc' = CASE result = "raised" -> raised [] result = "ctrl-c" -> "cutShort" [] OTHER -> next
           \/ result = "raised" /\ pc' = "cutShort" /\ UNCHANGED said

RestoreGain ==
    /\ pc = "restoreGain"
    /\ IF ~script.wroteGain
       THEN pc' = "restoreAcceleration" /\ UNCHANGED <<servo, said, interrupts>>
       ELSE IF script.gain = None \/ Stiffens
       THEN Admit("gain", "restoreAcceleration")
       ELSE PutBack("gain", script.gain, "gain", "restoreAcceleration", "restoreAcceleration")
    /\ UNCHANGED <<found, mute, window, joint, script, swing, ok, success>>

RestoreAcceleration ==
    /\ pc = "restoreAcceleration"
    /\ IF ~script.wroteProfile
       THEN pc' = "closed" /\ UNCHANGED <<servo, said, interrupts>>
       ELSE IF ~script.profile
       THEN Admit("profile", "closed")
       ELSE PutBack("accel", "found", "profile", "restoreVelocity", "closed")
    /\ UNCHANGED <<found, mute, window, joint, script, swing, ok, success>>

RestoreVelocity ==
    /\ pc = "restoreVelocity"
    /\ PutBack("velocity", "found", "profile", "closed", "closed")
    /\ UNCHANGED <<found, mute, window, joint, script, swing, ok, success>>

Next ==
    \/ Read \/ ReleaseFirst \/ SetMode \/ SetAcceleration \/ SetVelocity \/ Seed \/ SetGain \/ Enable
    \/ Swing \/ Return \/ Off
    \/ Interrupted \/ Failed \/ ReleaseQuietly
    \/ RestoreGain \/ RestoreAcceleration \/ RestoreVelocity

Spec == Init /\ [][Next]_vars

----------------------------------------------------------------------------
(* Properties *)

\* The verdict passes only a joint that followed its targets: one that jams
\* after the first, sags away and stays, or moves the wrong way does not,
\* however its limits clamp the swing (_report_travel).
OnlyAFollowerPasses == success => joint = "follows"

\* A gain never goes up on a powered servo whose goal is not the start
\* position, in the plan or in the cleanup: there is nothing for it to snap to.
GainRisesAtRest == (servo.torque /\ servo'.gain > servo.gain) => servo.goal = Start

\* A run that swung the joint and got to its end without its cleanup being cut
\* short leaves the registers as they were found, or the operator has been told
\* which of them are not; and the joint limp, unless the notice of a Ctrl+C
\* could not be printed.
LeftAsFoundOrSaid ==
    pc = "closed" =>
        /\ swing.index > 0 /\ ~mute => (~servo.torque \/ "torque" \in said)
        /\ servo.gain = found.gain \/ "gain" \in said
        /\ (servo.accel = "found" /\ servo.velocity = "found") \/ "profile" \in said

\* What the comment at the torque write asks for: a joint this run may have
\* powered is limp at the end, or the operator knows the release failed.
EnabledIsReleased ==
    (pc \in {"closed", "cutShort"} /\ script.enabled /\ ~found.torque) => (~servo.torque \/ "torque" \in said)

\* What the comment at the Ctrl+C handler asks for: it ends with torque off.
InterruptReleases ==
    (pc = "closed" /\ swing.index > 0) => (~servo.torque \/ "torque" \in said)

\* What the comment at the gain write claims: the goal holds the present
\* position by the time the gain goes up, so there is no error to act on.
NoErrorWhenTheGainRises ==
    (pc = "gain" /\ servo.torque /\ servo'.gain > servo.gain) => servo.goal = 0

\* What the cleanup is split in two for: no register is left behind silently.
NothingIsLeftSilently ==
    pc \in {"closed", "cutShort"} =>
        ((servo.accel = "found" /\ servo.velocity = "found") \/ "profile" \in said)
=============================================================================
