------------------------------ MODULE LegSafety ------------------------------
(***************************************************************************)
(* _leg_safety.py with the guards it wires (overload.py, rail.py,          *)
(* _guard.py) and its poller (telemetry.py).  Each sweep of the leg motors *)
(* is judged by an overload guard for the raised arm, one for the other    *)
(* legs and one for the supply rail; a trip under a leg motion stops the   *)
(* motion, and one of the arm starts the arm's soft return to neutral.     *)
(***************************************************************************)
EXTENDS Integers

CONSTANTS
  Motor,        (* LEG_MOTORS                                              *)
  Motion,       (* the engine's motions                                    *)
  Soft,         (* _SOFT_RETURN_MOTIONS: those that move no leg            *)
  ArmOf,        (* the sets of motors that may be the arm of a motion      *)
  Guards,       (* the guards in use, of "arm", "leg", "rail"              *)
  ArmOverload,  (* arm_overload_current                                    *)
  LegOverload,  (* leg_overload_current                                    *)
  TripAfter,    (* OVERLOAD_CONSECUTIVE                                    *)
  RailAfter,    (* RAIL_CONSECUTIVE                                        *)
  Settle,       (* SOFT_RETURN_SETTLE_SAMPLES                              *)
  Interval,     (* OVERLOAD_POLL_INTERVAL_S                                *)
  Gap,          (* STREAK_MAX_GAP_S                                        *)
  Sweep,        (* what a read may return                                  *)
  None          (* no driver, no soft return, no sample yet                *)

ASSUME ConstantsAssumption ==
  /\ Soft \subseteq Motion
  /\ ArmOf \in [Motion -> SUBSET SUBSET Motor]
  /\ \A m \in Soft : ArmOf[m] = {{}}
  /\ Guards \subseteq {"arm", "leg", "rail"}
  /\ ArmOverload \in Nat /\ LegOverload \in Nat
  /\ TripAfter \in Nat \ {0, 1} /\ RailAfter \in Nat \ {0} /\ Settle \in Nat \ {0}
  /\ Interval \in Nat /\ Gap \in Nat
  /\ None \notin Int \cup (Motion \X SUBSET Motor)

(* A sweep has the magnitude of the current of each motor that answered,   *)
(* whether the lowest voltage is under the floor, and the motors within    *)
(* the band around neutral.                                                *)
ASSUME SweepAssumption ==
  \A w \in Sweep :
    /\ DOMAIN w.current \subseteq Motor
    /\ \A m \in DOMAIN w.current : w.current[m] \in Nat
    /\ w.low \in BOOLEAN
    /\ w.home \subseteq DOMAIN w.current

VARIABLES
  driver,       (* None, a driver with telemetry or a mute one             *)
  disabled,     (* the poller has given up on the driver                   *)
  sincePoll,    (* time since the last read, up to Interval                *)
  sinceSample,  (* time since the last successful read, up to Gap, or None *)
  scope,        (* <<motion, arm>> the streaks are counted under, or None  *)
  armStreak,    (* samples in a row at or above ArmOverload, per motor     *)
  legStreak,    (* samples in a row at or above LegOverload, per motor     *)
  railStreak,   (* sweeps in a row with a low rail                         *)
  restStrain,   (* a resting leg trip has been reported                    *)
  restSag,      (* a resting rail trip has been reported                   *)
  softReturn,   (* the arm held at the soft gain, or None                  *)
  settled,      (* sweeps in a row with that arm at neutral                *)
  recorded,     (* the channels of the trips the last poll recorded        *)
  stopped       (* the verdict of the last poll: the motion must stop      *)

(* History: since a trip was reported at rest, the motors whose last       *)
(* reading, if any, was not below the threshold, until there are none; and *)
(* whether the rail has not been read above its floor.                     *)
VARIABLES owedLegs, owedRail

clock == <<sincePoll, sinceSample>>
history == <<owedLegs, owedRail>>
streaks == <<armStreak, legStreak, railStreak>>
reports == <<restStrain, restSag>>
return == <<softReturn, settled>>
verdict == <<recorded, stopped>>
vars == <<driver, disabled, clock, scope, streaks, reports, return, verdict, history>>

Zero == [m \in Motor |-> 0]

Init ==
  /\ driver = None /\ disabled = FALSE
  /\ sincePoll = Interval /\ sinceSample = None
  /\ scope = None
  /\ armStreak = Zero /\ legStreak = Zero /\ railStreak = 0
  /\ restStrain = FALSE /\ restSag = FALSE
  /\ softReturn = None /\ settled = 0
  /\ recorded = {} /\ stopped = FALSE
  /\ owedLegs = {} /\ owedRail = FALSE

(* reset(): a driver is connected or disconnected; the trip logs stay. *)
Reset(d) ==
  /\ driver' = d /\ disabled' = FALSE
  /\ sincePoll' = Interval /\ sinceSample' = None
  /\ scope' = None
  /\ armStreak' = Zero /\ legStreak' = Zero /\ railStreak' = 0
  /\ restStrain' = FALSE /\ restSag' = FALSE
  /\ softReturn' = None /\ settled' = 0
  /\ recorded' = {} /\ stopped' = FALSE
  /\ owedLegs' = {} /\ owedRail' = FALSE

Connected == driver # None /\ ~disabled /\ Guards # {}

(* Mutants: a soft return goes on under any motion; the settle monitor     *)
(* starts afresh on every poll.                                            *)
SoftUnder_AnyMotion(mo) == softReturn
SettledUnder_Restarts(mo) == 0

(* The poll starts under a motion and its arm: a soft return the motion    *)
(* cannot coexist with ends, a change of scope resets the overload guards. *)
SoftUnder(mo) == IF mo \in Soft THEN softReturn ELSE None
SettledUnder(mo) == IF softReturn = None \/ mo \in Soft THEN settled ELSE 0
(* Mutants: the motion is left out of the scope; the scopes never compare  *)
(* equal.                                                                  *)
StreakUnder_AcrossMotions(streak, mo, arm) == streak
StreakUnder_AlwaysFresh(streak, mo, arm) == Zero

StreakUnder(streak, mo, arm) == IF scope = <<mo, arm>> THEN streak ELSE Zero

Enter(mo, arm) ==
  /\ softReturn' = SoftUnder(mo)
  /\ settled' = SettledUnder(mo)
  /\ scope' = <<mo, arm>>
  /\ armStreak' = StreakUnder(armStreak, mo, arm)
  /\ legStreak' = StreakUnder(legStreak, mo, arm)

(* No driver, a disabled poller or no guard at all. *)
PollSkips ==
  /\ ~Connected
  /\ recorded' = {} /\ stopped' = FALSE
  /\ UNCHANGED <<driver, disabled, clock, scope, streaks, reports, return, history>>

PollEarly(mo, arm) ==
  /\ Connected /\ sincePoll < Interval
  /\ Enter(mo, arm)
  /\ recorded' = {} /\ stopped' = FALSE
  /\ UNCHANGED <<driver, disabled, clock, railStreak, reports, history>>

(* The read raises: for good on a mute driver, for now on the others. *)
PollFails(mo, arm) ==
  /\ Connected /\ sincePoll >= Interval
  /\ Enter(mo, arm)
  /\ sincePoll' = 0
  /\ disabled' = (driver = "mute")
  /\ recorded' = {} /\ stopped' = FALSE
  /\ UNCHANGED <<driver, sinceSample, railStreak, reports, history>>

(* OverloadGuard.sample: an axis that was not read keeps its count. *)
Counted(streak, judged, threshold, w) ==
  [m \in Motor |-> IF m \notin judged \cap DOMAIN w.current THEN streak[m]
                   ELSE IF w.current[m] >= threshold THEN streak[m] + 1 ELSE 0]
Trips(counted) == \E m \in Motor : counted[m] >= TripAfter
(* Mutant: a trip does not clear the counts. *)
AfterTrip_KeepsCounts(counted) == counted

AfterTrip(counted) == IF Trips(counted) THEN Zero ELSE counted

(* RestingReport.filter. *)
Filtered(trip, resting, reported) == trip /\ ~(resting /\ reported)
(* Mutant: the end of the breach is not looked at. *)
Reported_Latches(trip, resting, breached, reported) == resting /\ (trip \/ reported)

Reported(trip, resting, breached, reported) ==
  resting /\ (trip \/ breached) /\ (trip \/ reported)

(* A sweep was read.                                                       *)
PollJudges(mo, arm, w) ==
  LET stale == sinceSample # None /\ sinceSample >= Gap
      resting == mo \in Soft
      arm0 == IF stale THEN Zero ELSE StreakUnder(armStreak, mo, arm)
      leg0 == IF stale THEN Zero ELSE StreakUnder(legStreak, mo, arm)
      rail0 == IF stale THEN 0 ELSE railStreak
      soft == SoftUnder(mo)
      home == IF soft = None THEN SettledUnder(mo)
              ELSE IF soft \subseteq w.home THEN SettledUnder(mo) + 1 ELSE 0
      arm1 == IF "arm" \in Guards THEN Counted(arm0, arm, ArmOverload, w) ELSE arm0
      leg1 == IF "leg" \in Guards THEN Counted(leg0, Motor \ arm, LegOverload, w) ELSE leg0
      rail1 == IF "rail" \notin Guards \/ DOMAIN w.current = {} THEN rail0
               ELSE IF w.low THEN rail0 + 1 ELSE 0
      sags == rail1 >= RailAfter
      armTrip == Trips(arm1)
      legTrip == Filtered(Trips(leg1), resting, restStrain)
      railTrip == Filtered(sags, resting, restSag)
  IN
  /\ Connected /\ driver = "telemetry" /\ sincePoll >= Interval
  /\ sincePoll' = 0 /\ sinceSample' = 0
  /\ scope' = <<mo, arm>>
  /\ armStreak' = AfterTrip(arm1)
  /\ legStreak' = AfterTrip(leg1)
  /\ railStreak' = IF sags THEN 0 ELSE rail1
  /\ restStrain' = IF "leg" \notin Guards THEN restStrain
                   ELSE Reported(Trips(leg1), resting, \E m \in Motor : legStreak'[m] > 0, restStrain)
  /\ restSag' = IF "rail" \notin Guards THEN restSag
                ELSE Reported(sags, resting, railStreak' > 0, restSag)
  /\ recorded' = {c \in Guards : \/ c = "arm" /\ armTrip
                                 \/ c = "leg" /\ legTrip
                                 \/ c = "rail" /\ railTrip}
  /\ stopped' = (~resting /\ recorded' # {})
  /\ softReturn' = IF stopped' /\ armTrip THEN arm
                   ELSE IF home >= Settle THEN None ELSE soft
  /\ settled' = IF home >= Settle \/ (stopped' /\ armTrip) THEN 0 ELSE home
  /\ owedLegs' = IF ~resting THEN {}
                 ELSE IF legTrip THEN Motor
                 ELSE IF owedLegs = {} THEN {}
                 ELSE {m \in Motor : IF m \in DOMAIN w.current THEN w.current[m] >= LegOverload
                                                                ELSE m \in owedLegs}
  /\ owedRail' = (resting /\ (railTrip \/ (owedRail /\ (w.low \/ DOMAIN w.current = {}))))
  /\ UNCHANGED <<driver, disabled>>

(* The facade ends the soft return: wake, sleep, or a gain that cannot be  *)
(* written.  abandon_soft_return leaves the settle monitor as it is.       *)
EndSoftReturn ==
  /\ softReturn # None
  /\ softReturn' = None /\ settled' \in {0, settled}
  /\ UNCHANGED <<driver, disabled, clock, scope, streaks, reports, verdict, history>>

Tick ==
  /\ sincePoll' = IF sincePoll < Interval THEN sincePoll + 1 ELSE sincePoll
  /\ sinceSample' = IF sinceSample # None /\ sinceSample < Gap THEN sinceSample + 1 ELSE sinceSample
  /\ UNCHANGED <<driver, disabled, scope, streaks, reports, return, verdict, history>>

Poll ==
  \/ PollSkips
  \/ \E mo \in Motion : \E arm \in ArmOf[mo] :
       \/ PollEarly(mo, arm)
       \/ PollFails(mo, arm)
       \/ \E w \in Sweep : PollJudges(mo, arm, w)

Next ==
  \/ \E d \in {None, "telemetry", "mute"} : Reset(d)
  \/ Poll \/ EndSoftReturn \/ Tick

Spec == Init /\ [][Next]_vars

(* The control loop steps, and a sweep is read again and again. *)
Judges == \E mo \in Motion : \E arm \in ArmOf[mo] : \E w \in Sweep : PollJudges(mo, arm, w)
Fairness == WF_vars(Tick) /\ WF_vars(Judges)

FairSpec == Spec /\ Fairness

----------------------------------------------------------------------------
(* Properties *)

TypeOK ==
  /\ driver \in {None, "telemetry", "mute"}
  /\ disabled \in BOOLEAN
  /\ sincePoll \in 0..Interval
  /\ sinceSample \in 0..Gap \cup {None}
  /\ scope \in (Motion \X SUBSET Motor) \cup {None}
  /\ armStreak \in [Motor -> 0..(TripAfter - 1)]
  /\ legStreak \in [Motor -> 0..(TripAfter - 1)]
  /\ railStreak \in 0..(RailAfter - 1)
  /\ restStrain \in BOOLEAN /\ restSag \in BOOLEAN
  /\ softReturn \in (SUBSET Motor) \cup {None}
  /\ settled \in 0..(Settle - 1)
  /\ recorded \subseteq Guards /\ stopped \in BOOLEAN
  /\ owedLegs \subseteq Motor /\ owedRail \in BOOLEAN

(* Counts belong to the motion and arm they were made under: no axis that  *)
(* was an arm carries its strain over to the leg channel, or the reverse.  *)
StreaksBelongToScope ==
  \A m \in Motor :
    /\ armStreak[m] > 0 => scope # None /\ m \in scope[2]
    /\ legStreak[m] > 0 => scope # None /\ m \notin scope[2]

(* A soft return outlives only a motion that moves no leg: it was started  *)
(* by the last verdict, for the arm of the motion that tripped, or the     *)
(* motion last polled leaves the arm alone.                                *)
SoftReturnHasNoRival ==
  softReturn # None =>
    /\ scope # None /\ softReturn # {}
    /\ scope[1] \notin Soft => stopped /\ softReturn = scope[2]

(* No trip rests on the samples of another motion, and no soft return      *)
(* fights a motion that drives the same arm.                               *)
Safety == TypeOK /\ StreaksBelongToScope /\ SoftReturnHasNoRival

(* The facade may rely on LegGuard. *)
Verdict == IF "arm" \in recorded THEN "soft" ELSE IF stopped THEN "stop" ELSE "go"
Guard == INSTANCE LegGuard WITH verdict <- Verdict
GuardSpec == Guard!Spec

(* A report held back is owed to a breach that lasts: once every axis has  *)
(* read below the threshold, or the rail above its floor, the next trip at *)
(* rest is reported again.                                                 *)
HeldBackWhileItLasts == (restStrain => owedLegs # {}) /\ (restSag => owedRail)

(* api-reference.md, of a leg trip at rest: "It is recorded once, and not  *)
(* again until every watched axis has read below the threshold or a leg    *)
(* motion has started."                                                    *)
StrainReportedOnce ==
  [][\A mo \in Soft : \A w \in Sweep :
       PollJudges(mo, {}, w) /\ owedLegs # {} => "leg" \notin recorded']_vars

(* api-reference.md, of a rail trip at rest: "it is recorded once, and not *)
(* again until a sweep has read at or above the threshold or a leg motion  *)
(* has started."                                                           *)
SagReportedOnce ==
  [][\A mo \in Soft : \A w \in Sweep :
       PollJudges(mo, {}, w) /\ owedRail => "rail" \notin recorded']_vars

(* Polls that are read often enough not to break the counts. *)
ReadInTime == sinceSample # None /\ sinceSample < Gap

(* Where every sweep that is read shows a strained axis, a leg motion that *)
(* goes on with the same arm is stopped, again and again until it ends.    *)
HeldLegIsStopped ==
  \A mo \in Motion \ Soft : \A arm \in ArmOf[mo] :
    <>[](ReadInTime /\ scope = <<mo, arm>>) => []<>stopped

(* Where every sweep shows the arm back at neutral, a soft return ends.    *)
SoftReturnEnds == <>[]ReadInTime => (softReturn # None ~> softReturn = None)
=============================================================================
