-------------------------- MODULE LegSafetyProofs --------------------------
(* The leg guards of LegSafety, for every set of motors, motions, arms and *)
(* thresholds.                                                             *)
EXTENDS LegSafety, TLAPS

(* A motor with a count has been read strained since the report it may     *)
(* owe, and a guard that is not in use has reported nothing.               *)
CountsAreOwed ==
  /\ restStrain => \A m \in Motor : legStreak[m] > 0 => m \in owedLegs
  /\ restStrain => "leg" \in Guards
  /\ restSag => "rail" \in Guards

(* Only a driver that is read can have put an arm in soft return.          *)
SoftReturnIsPolled == softReturn # None => Connected /\ driver = "telemetry"

(* A trip of the arm leaves no count of it.                                *)
TripClears == "arm" \in recorded => armStreak = Zero

IInv ==
  /\ TypeOK /\ StreaksBelongToScope /\ SoftReturnHasNoRival
  /\ HeldBackWhileItLasts /\ CountsAreOwed /\ SoftReturnIsPolled /\ TripClears

----------------------------------------------------------------------------
(* What the guards' operators return. *)

Counts == [Motor -> 0..(TripAfter - 1)]

LEMMA ZeroType == Zero \in Counts /\ \A m \in Motor : Zero[m] = 0
BY ConstantsAssumption DEF Zero, Counts

LEMMA UnderType ==
  ASSUME NEW streak \in Counts, NEW mo, NEW arm
  PROVE  /\ StreakUnder(streak, mo, arm) \in Counts
         /\ \A m \in Motor : StreakUnder(streak, mo, arm)[m] \in {0, streak[m]}
BY ZeroType DEF StreakUnder

(* One sweep adds one to the count of a judged axis that is read strained  *)
(* and zeroes that of one that is read below.                              *)
LEMMA CountedFacts ==
  ASSUME NEW streak \in Counts, NEW judged \in SUBSET Motor, NEW threshold \in Nat, NEW w \in Sweep
  PROVE  /\ Counted(streak, judged, threshold, w) \in [Motor -> 0..TripAfter]
         /\ \A m \in Motor :
              Counted(streak, judged, threshold, w)[m] > 0 =>
                 \/ m \in judged /\ m \in DOMAIN w.current /\ w.current[m] >= threshold
                 \/ /\ streak[m] > 0 /\ Counted(streak, judged, threshold, w)[m] = streak[m]
                    /\ m \notin judged \/ m \notin DOMAIN w.current
BY ConstantsAssumption DEF Counted, Counts

LEMMA AfterTripFacts ==
  ASSUME NEW counted \in [Motor -> 0..TripAfter]
  PROVE  /\ AfterTrip(counted) \in Counts
         /\ \A m \in Motor : AfterTrip(counted)[m] > 0 => counted[m] > 0 /\ ~Trips(counted)
         /\ ~Trips(counted) => AfterTrip(counted) = counted
<1>1. CASE Trips(counted)
  BY <1>1, ZeroType DEF AfterTrip
<1>2. CASE ~Trips(counted)
  <2>1. ASSUME NEW m \in Motor PROVE counted[m] \in 0..(TripAfter - 1)
    <3>1. ~(counted[m] >= TripAfter) /\ counted[m] \in 0..TripAfter
      BY <1>2 DEF Trips
    <3>2. QED
      BY <3>1, ConstantsAssumption
  <2>2. counted \in Counts
    BY <2>1 DEF Counts
  <2>3. QED
    BY <1>2, <2>2 DEF AfterTrip
<1>3. QED
  BY <1>1, <1>2

(* An axis that makes a guard trip is judged by it and read strained.      *)
LEMMA TripsFacts ==
  ASSUME NEW streak \in Counts, NEW judged \in SUBSET Motor, NEW threshold \in Nat, NEW w \in Sweep,
         Trips(Counted(streak, judged, threshold, w))
  PROVE  \E m \in judged : m \in DOMAIN w.current /\ w.current[m] >= threshold
<1>1. PICK m \in Motor : Counted(streak, judged, threshold, w)[m] >= TripAfter
  BY DEF Trips
<1>2. TripAfter \in Nat /\ TripAfter > 0 /\ streak[m] \in 0..(TripAfter - 1)
  BY ConstantsAssumption DEF Counts
<1>3. Counted(streak, judged, threshold, w)[m] \in 0..TripAfter
  BY CountedFacts
<1>4. Counted(streak, judged, threshold, w)[m] > 0 /\ Counted(streak, judged, threshold, w)[m] # streak[m]
  BY <1>1, <1>2, <1>3
<1>5. QED
  BY <1>4, CountedFacts

LEMMA NoTrip ==
  ASSUME NEW streak \in Counts
  PROVE  ~Trips(streak)
BY ConstantsAssumption DEF Trips, Counts

----------------------------------------------------------------------------

LEMMA InitInv == Init => IInv
<1> SUFFICES ASSUME Init PROVE IInv
  OBVIOUS
<1>1. Interval \in 0..Interval /\ 0 \in 0..(RailAfter - 1) /\ 0 \in 0..(Settle - 1)
  BY ConstantsAssumption
<1>2. TypeOK
  BY <1>1, ZeroType, Zenon DEF Init, TypeOK, Counts
<1>3. QED
  BY <1>2, ZeroType DEF Init, IInv, StreaksBelongToScope, SoftReturnHasNoRival, HeldBackWhileItLasts, CountsAreOwed,
     SoftReturnIsPolled, TripClears

LEMMA ResetInv ==
  ASSUME NEW d \in {None, "telemetry", "mute"}, Reset(d)
  PROVE  IInv'
<1>1. Interval \in 0..Interval /\ 0 \in 0..(RailAfter - 1) /\ 0 \in 0..(Settle - 1)
  BY ConstantsAssumption
<1>2. TypeOK'
  BY <1>1, ZeroType, Zenon DEF Reset, TypeOK, Counts
<1>3. QED
  BY <1>2, ZeroType DEF Reset, IInv, StreaksBelongToScope, SoftReturnHasNoRival, HeldBackWhileItLasts, CountsAreOwed,
     SoftReturnIsPolled, TripClears

(* A poll that reads nothing enters the motion's scope. *)
LEMMA EnterInv ==
  ASSUME IInv, NEW mo \in Motion, NEW arm \in ArmOf[mo], Enter(mo, arm),
         recorded' = {} /\ stopped' = FALSE,
         UNCHANGED <<driver, sinceSample, railStreak, reports, history>>,
         disabled' \in BOOLEAN, sincePoll' \in 0..Interval,
         driver = "telemetry" => UNCHANGED disabled
  PROVE  IInv'
<1> USE DEF IInv
<1>1. arm \in SUBSET Motor
  BY ConstantsAssumption
<1>2. armStreak \in Counts /\ legStreak \in Counts
  BY DEF TypeOK, Counts
<1>3. /\ armStreak' \in Counts /\ \A m \in Motor : armStreak'[m] \in {0, armStreak[m]}
      /\ legStreak' \in Counts /\ \A m \in Motor : legStreak'[m] \in {0, legStreak[m]}
  BY <1>2, UnderType DEF Enter
<1>4. softReturn' \in {None, softReturn} /\ settled' \in {0, settled}
  BY DEF Enter, SoftUnder, SettledUnder
<1>5. TypeOK'
  <2>1. settled' \in 0..(Settle - 1)
    BY <1>4, ConstantsAssumption DEF TypeOK
  <2>2. scope' \in Motion \X SUBSET Motor
    BY <1>1 DEF Enter
  <2>3. softReturn' \in (SUBSET Motor) \cup {None}
    BY <1>4, Zenon DEF TypeOK
  <2>4. QED
    BY <1>3, <2>1, <2>2, <2>3 DEF TypeOK, Counts, reports, history
<1>6. StreaksBelongToScope'
  <2>1. CASE scope = <<mo, arm>>
    BY <1>3, <2>1 DEF Enter, StreaksBelongToScope
  <2>2. CASE scope # <<mo, arm>>
    <3>1. armStreak' = Zero /\ legStreak' = Zero
      BY <2>2 DEF Enter, StreakUnder
    <3>2. QED
      BY <3>1, ZeroType DEF StreaksBelongToScope
  <2>3. QED
    BY <2>1, <2>2
<1>7. SoftReturnHasNoRival' /\ SoftReturnIsPolled'
  <2>1. CASE softReturn' = None
    BY <2>1 DEF SoftReturnHasNoRival, SoftReturnIsPolled
  <2>2. CASE softReturn' # None
    <3>1. mo \in Soft /\ softReturn' = softReturn
      BY <2>2 DEF Enter, SoftUnder
    <3>2. scope' = <<mo, arm>> /\ scope' # None /\ scope'[1] = mo
      BY <1>1, ConstantsAssumption DEF Enter
    <3>3. softReturn # {}
      BY <2>2, <3>1 DEF SoftReturnHasNoRival
    <3>4. Connected' /\ driver' = "telemetry"
      BY <2>2, <3>1 DEF SoftReturnIsPolled, Connected
    <3>5. QED
      BY <3>1, <3>2, <3>3, <3>4 DEF SoftReturnHasNoRival, SoftReturnIsPolled
  <2>3. QED
    BY <2>1, <2>2
<1>8. (HeldBackWhileItLasts /\ CountsAreOwed)'
  BY <1>3 DEF HeldBackWhileItLasts, CountsAreOwed, reports, history
<1>9. TripClears'
  BY DEF TripClears
<1>10. QED
  BY <1>5, <1>6, <1>7, <1>8, <1>9

(* A poll that reads a sweep. *)
LEMMA JudgesInv ==
  ASSUME IInv, NEW mo \in Motion, NEW arm \in ArmOf[mo], NEW w \in Sweep, PollJudges(mo, arm, w)
  PROVE  IInv'
<1> DEFINE stale == sinceSample # None /\ sinceSample >= Gap
           resting == mo \in Soft
           arm0 == IF stale THEN Zero ELSE StreakUnder(armStreak, mo, arm)
           leg0 == IF stale THEN Zero ELSE StreakUnder(legStreak, mo, arm)
           rail0 == IF stale THEN 0 ELSE railStreak
           soft == SoftUnder(mo)
           home == IF soft = None THEN SettledUnder(mo)
                   ELSE IF soft \subseteq w.home THEN SettledUnder(mo) + 1 ELSE 0
           arm1 == IF "arm" \in Guards THEN Counted(arm0, arm, ArmOverload, w) ELSE arm0
           leg1 == IF "leg" \in Guards THEN Counted(leg0, Motor \ arm, LegOverload, w) ELSE leg0
           rail1 == IF "rail" \notin Guards \/ DOMAIN w.current = {} THEN rail0
                    ELSE IF w.low THEN rail0 + 1 ELSE 0
           sags == rail1 >= RailAfter
           armTrip == Trips(arm1)
           legTrip == Filtered(Trips(leg1), resting, restStrain)
           railTrip == Filtered(sags, resting, restSag)
<1> HIDE DEF stale, resting, arm0, leg0, rail0, soft, home, arm1, leg1, rail1, sags, armTrip, legTrip, railTrip
<1>1. /\ driver = "telemetry"
      /\ sincePoll' = 0 /\ sinceSample' = 0
      /\ scope' = <<mo, arm>>
      /\ armStreak' = AfterTrip(arm1)
      /\ legStreak' = AfterTrip(leg1)
      /\ railStreak' = IF sags THEN 0 ELSE rail1
      /\ UNCHANGED <<driver, disabled>>
  BY DEF PollJudges, stale, arm0, leg0, rail0, arm1, leg1, rail1, sags
<1>2. restStrain' = IF "leg" \notin Guards THEN restStrain
                    ELSE Reported(Trips(leg1), resting, \E m \in Motor : legStreak'[m] > 0, restStrain)
  BY DEF PollJudges, stale, resting, leg0, leg1
<1>3. restSag' = IF "rail" \notin Guards THEN restSag
                 ELSE Reported(sags, resting, railStreak' > 0, restSag)
  BY DEF PollJudges, stale, resting, rail0, rail1, sags
<1>4. /\ recorded' \subseteq Guards
      /\ stopped' \in BOOLEAN /\ (stopped' => ~resting)
  BY DEF PollJudges, resting
<1>5. /\ softReturn' = IF stopped' /\ armTrip THEN arm
                       ELSE IF home >= Settle THEN None ELSE soft
      /\ settled' = IF home >= Settle \/ (stopped' /\ armTrip) THEN 0 ELSE home
  BY DEF PollJudges, stale, arm0, arm1, soft, home, armTrip
<1>6. owedLegs' = IF ~resting THEN {}
                  ELSE IF legTrip THEN Motor
                  ELSE IF owedLegs = {} THEN {}
                  ELSE {m \in Motor : IF m \in DOMAIN w.current THEN w.current[m] >= LegOverload
                                                                 ELSE m \in owedLegs}
  BY DEF PollJudges, stale, resting, leg0, leg1, legTrip
<1>7. owedRail' = (resting /\ (railTrip \/ (owedRail /\ (w.low \/ DOMAIN w.current = {}))))
  BY DEF PollJudges, stale, resting, rail0, rail1, sags, railTrip
<1>8. arm \in SUBSET Motor /\ (resting => arm = {})
  BY ConstantsAssumption DEF resting
<1>9. arm0 \in Counts /\ \A m \in Motor : arm0[m] > 0 => scope = <<mo, arm>> /\ arm0[m] = armStreak[m]
  BY ZeroType, UnderType DEF arm0, StreakUnder, IInv, TypeOK, Counts
<1>10. leg0 \in Counts /\ \A m \in Motor : leg0[m] > 0 => scope = <<mo, arm>> /\ leg0[m] = legStreak[m]
  BY ZeroType, UnderType DEF leg0, StreakUnder, IInv, TypeOK, Counts
<1>11. arm1 \in [Motor -> 0..TripAfter] /\ (armTrip => arm # {})
  <2>1. CASE "arm" \in Guards
    BY <1>8, <1>9, <2>1, CountedFacts, TripsFacts, ConstantsAssumption DEF arm1, armTrip
  <2>2. CASE "arm" \notin Guards
    <3>1. arm1 \in [Motor -> 0..TripAfter]
      BY <1>9, <2>2, ConstantsAssumption DEF arm1, Counts
    <3>2. QED
      BY <1>9, <2>2, <3>1, NoTrip DEF arm1, armTrip
  <2>3. QED
    BY <2>1, <2>2
<1>12. leg1 \in [Motor -> 0..TripAfter]
  <2>1. CASE "leg" \in Guards
    BY <1>8, <1>10, <2>1, CountedFacts, ConstantsAssumption DEF leg1
  <2>2. CASE "leg" \notin Guards
    BY <1>10, <2>2, ConstantsAssumption DEF leg1, Counts
  <2>3. QED
    BY <2>1, <2>2
<1>13. TypeOK'
  <2>1. armStreak' \in Counts /\ legStreak' \in Counts
    BY <1>1, <1>11, <1>12, AfterTripFacts
  <2>2. railStreak' \in 0..(RailAfter - 1)
    <3>1. rail0 \in 0..(RailAfter - 1)
      BY ConstantsAssumption DEF rail0, IInv, TypeOK
    <3>2. rail1 \in 0..RailAfter
      BY <3>1, ConstantsAssumption DEF rail1
    <3>3. QED
      BY <1>1, <3>2, ConstantsAssumption DEF sags
  <2>3. soft \in (SUBSET Motor) \cup {None} /\ home \in 0..Settle
    <3>1. SettledUnder(mo) \in 0..(Settle - 1)
      BY ConstantsAssumption DEF SettledUnder, IInv, TypeOK
    <3>2. soft \in (SUBSET Motor) \cup {None}
      BY Zenon DEF soft, SoftUnder, IInv, TypeOK
    <3>3. home \in {SettledUnder(mo), SettledUnder(mo) + 1, 0}
      BY DEF home
    <3>4. QED
      BY <3>1, <3>2, <3>3, ConstantsAssumption
  <2>4. softReturn' \in (SUBSET Motor) \cup {None} /\ settled' \in 0..(Settle - 1)
    <3>1. softReturn' \in {arm, None, soft}
      BY <1>5
    <3>2. softReturn' \in (SUBSET Motor) \cup {None}
      BY <1>8, <2>3, <3>1, Zenon
    <3>3. settled' = 0 \/ (settled' = home /\ ~(home >= Settle))
      BY <1>5
    <3>4. QED
      BY <2>3, <3>2, <3>3, ConstantsAssumption
  <2>5. owedLegs' \subseteq Motor
    BY <1>6
  <2>6. owedRail' \in BOOLEAN
    BY <1>7, Zenon
  <2>7. restStrain' \in BOOLEAN /\ restSag' \in BOOLEAN
    BY <1>2, <1>3, Zenon DEF Reported, IInv, TypeOK
  <2>8. scope' \in Motion \X SUBSET Motor
    BY <1>1, <1>8
  <2>9. sincePoll' \in 0..Interval /\ sinceSample' \in 0..Gap
    BY <1>1, ConstantsAssumption
  <2>10. driver' \in {None, "telemetry", "mute"} /\ disabled' \in BOOLEAN
    BY <1>1 DEF IInv, TypeOK
  <2>11. QED
    BY <1>4, <2>1, <2>2, <2>4, <2>5, <2>6, <2>7, <2>8, <2>9, <2>10 DEF TypeOK, Counts
<1>14. StreaksBelongToScope'
  <2>1. ASSUME NEW m \in Motor, armStreak'[m] > 0 PROVE m \in arm
    <3>1. arm1[m] > 0
      BY <1>1, <1>11, <2>1, AfterTripFacts
    <3>2. CASE m \notin arm
      <4>1. arm0[m] > 0
        BY <1>8, <1>9, <3>1, <3>2, CountedFacts, ConstantsAssumption DEF arm1
      <4>2. QED
        BY <1>9, <3>2, <4>1 DEF IInv, StreaksBelongToScope
    <3>3. QED
      BY <3>2
  <2>2. ASSUME NEW m \in Motor, legStreak'[m] > 0 PROVE m \notin arm
    <3>1. leg1[m] > 0
      BY <1>1, <1>12, <2>2, AfterTripFacts
    <3>2. CASE m \in arm
      <4>1. leg0[m] > 0
        BY <1>8, <1>10, <3>1, <3>2, CountedFacts, ConstantsAssumption DEF leg1
      <4>2. QED
        BY <1>10, <3>2, <4>1 DEF IInv, StreaksBelongToScope
    <3>3. QED
      BY <3>2
  <2>3. scope' # None /\ scope'[2] = arm
    BY <1>1, ConstantsAssumption
  <2>4. QED
    BY <2>1, <2>2, <2>3 DEF StreaksBelongToScope
<1>15. SoftReturnHasNoRival'
  <2>1. scope' # None /\ scope'[1] = mo /\ scope'[2] = arm
    BY <1>1, ConstantsAssumption
  <2>2. CASE stopped' /\ armTrip
    BY <1>5, <1>11, <2>1, <2>2 DEF SoftReturnHasNoRival
  <2>3. CASE ~(stopped' /\ armTrip)
    BY <1>5, <2>1, <2>3 DEF SoftReturnHasNoRival, soft, SoftUnder, IInv
  <2>4. QED
    BY <2>2, <2>3
<1>16. HeldBackWhileItLasts' /\ CountsAreOwed'
  <2>1. ASSUME NEW m \in Motor, legStreak'[m] > 0, restStrain'
        PROVE  m \in owedLegs'
    <3>1. "leg" \in Guards
      BY <1>2, <2>1 DEF IInv, CountsAreOwed
    <3>2. resting /\ restStrain /\ ~Trips(leg1) /\ leg1[m] > 0
      BY <1>1, <1>2, <1>12, <2>1, <3>1, AfterTripFacts DEF Reported
    <3>3. owedLegs # {} /\ ~legTrip
      BY <3>2 DEF IInv, HeldBackWhileItLasts, legTrip, Filtered
    <3>4. leg1 = Counted(leg0, Motor \ arm, LegOverload, w)
      BY <3>1 DEF leg1
    <3>5. CASE m \in DOMAIN w.current /\ w.current[m] >= LegOverload
      BY <1>6, <3>2, <3>3, <3>5
    <3>6. CASE leg0[m] > 0 /\ m \notin DOMAIN w.current
      <4>1. m \in owedLegs
        BY <1>10, <3>2, <3>6 DEF IInv, CountsAreOwed
      <4>2. QED
        BY <1>6, <3>2, <3>3, <3>6, <4>1
    <3>7. m \in Motor \ arm
      BY <1>8, <3>2
    <3>8. QED
      BY <1>10, <3>2, <3>4, <3>5, <3>6, <3>7, CountedFacts, ConstantsAssumption
  <2>2. restStrain' => "leg" \in Guards
    BY <1>2 DEF IInv, CountsAreOwed
  <2>3. restSag' => "rail" \in Guards
    BY <1>3 DEF IInv, CountsAreOwed
  <2>4. ASSUME restStrain' PROVE owedLegs' # {}
    <3>1. "leg" \in Guards /\ leg1 = Counted(leg0, Motor \ arm, LegOverload, w)
      BY <2>2, <2>4 DEF leg1
    <3>2. resting /\ (Trips(leg1) \/ \E m \in Motor : legStreak'[m] > 0)
      BY <1>2, <2>4, <3>1 DEF Reported
    <3>3. CASE Trips(leg1)
      <4>1. PICK m \in Motor \ arm : m \in DOMAIN w.current /\ w.current[m] >= LegOverload
        BY <1>10, <3>1, <3>3, TripsFacts, ConstantsAssumption
      <4>2. CASE legTrip
        BY <1>6, <3>2, <4>1, <4>2
      <4>3. CASE ~legTrip
        <5>1. restStrain
          BY <3>2, <3>3, <4>3 DEF legTrip, Filtered
        <5>2. owedLegs # {}
          BY <5>1 DEF IInv, HeldBackWhileItLasts
        <5>3. QED
          BY <1>6, <3>2, <4>1, <4>3, <5>2
      <4>4. QED
        BY <4>2, <4>3
    <3>4. CASE ~Trips(leg1)
      BY <2>1, <2>4, <3>2, <3>4
    <3>5. QED
      BY <3>3, <3>4
  <2>5. ASSUME restSag' PROVE owedRail'
    <3>1. "rail" \in Guards
      BY <2>3, <2>5
    <3>2. resting /\ (sags \/ railStreak' > 0) /\ (sags \/ restSag)
      BY <1>3, <2>5, <3>1 DEF Reported
    <3>3. rail1 > 0
      BY <1>1, <3>2, ConstantsAssumption, Z3 DEF sags, rail1, rail0, IInv, TypeOK
    <3>4. w.low \/ DOMAIN w.current = {}
      BY <3>1, <3>3 DEF rail1
    <3>5. CASE railTrip
      BY <1>7, <3>2, <3>5
    <3>6. CASE ~railTrip
      <4>1. restSag
        BY <3>2, <3>6 DEF railTrip, Filtered
      <4>2. QED
        BY <1>7, <3>2, <3>4, <4>1 DEF IInv, HeldBackWhileItLasts
    <3>7. QED
      BY <3>5, <3>6
  <2>6. QED
    BY <2>1, <2>2, <2>3, <2>4, <2>5 DEF HeldBackWhileItLasts, CountsAreOwed
<1>17. SoftReturnIsPolled'
  BY <1>1 DEF PollJudges, SoftReturnIsPolled, Connected
<1>18. TripClears'
  <2>1. "arm" \in recorded' => armTrip
    BY DEF PollJudges, stale, arm0, arm1, armTrip
  <2>2. QED
    BY <1>1, <2>1 DEF TripClears, AfterTrip, armTrip
<1>19. QED
  BY <1>13, <1>14, <1>15, <1>16, <1>17, <1>18 DEF IInv

LEMMA StepInv == IInv /\ [Next]_vars => IInv'
<1> SUFFICES ASSUME IInv, [Next]_vars PROVE IInv'
  OBVIOUS
<1>1. CASE UNCHANGED vars
  BY <1>1 DEF vars, clock, streaks, reports, return, verdict, history, IInv, TypeOK, StreaksBelongToScope,
     SoftReturnHasNoRival, HeldBackWhileItLasts, CountsAreOwed, SoftReturnIsPolled, TripClears, Connected
<1>2. CASE \E d \in {None, "telemetry", "mute"} : Reset(d)
  BY <1>2, ResetInv
<1>3. CASE PollSkips
  <2>1. TypeOK' /\ StreaksBelongToScope' /\ HeldBackWhileItLasts' /\ CountsAreOwed'
    BY <1>3 DEF PollSkips, clock, streaks, reports, return, history, IInv, TypeOK, StreaksBelongToScope,
       HeldBackWhileItLasts, CountsAreOwed
  <2>2. softReturn' = None
    BY <1>3 DEF PollSkips, return, IInv, SoftReturnIsPolled
  <2>3. QED
    BY <1>3, <2>1, <2>2 DEF PollSkips, IInv, SoftReturnHasNoRival, SoftReturnIsPolled, TripClears
<1>4. ASSUME NEW mo \in Motion, NEW arm \in ArmOf[mo], PollEarly(mo, arm) PROVE IInv'
  <2>1. disabled' \in BOOLEAN /\ sincePoll' \in 0..Interval
    BY <1>4 DEF PollEarly, clock, IInv, TypeOK
  <2>2. QED
    BY <1>4, <2>1, EnterInv DEF PollEarly, clock
<1>5. ASSUME NEW mo \in Motion, NEW arm \in ArmOf[mo], PollFails(mo, arm) PROVE IInv'
  <2>1. disabled' \in BOOLEAN /\ sincePoll' \in 0..Interval
    BY <1>5, ConstantsAssumption DEF PollFails
  <2>2. driver = "telemetry" => UNCHANGED disabled
    BY <1>5 DEF PollFails, Connected, IInv, TypeOK
  <2>3. QED
    BY <1>5, <2>1, <2>2, EnterInv DEF PollFails
<1>6. ASSUME NEW mo \in Motion, NEW arm \in ArmOf[mo], NEW w \in Sweep, PollJudges(mo, arm, w) PROVE IInv'
  BY <1>6, JudgesInv
<1>7. CASE EndSoftReturn
  <2>1. settled' \in 0..(Settle - 1)
    BY <1>7, ConstantsAssumption DEF EndSoftReturn, IInv, TypeOK
  <2>2. TypeOK'
    BY <1>7, <2>1, Zenon DEF EndSoftReturn, clock, streaks, reports, verdict, history, IInv, TypeOK
  <2>3. StreaksBelongToScope' /\ HeldBackWhileItLasts' /\ CountsAreOwed'
    BY <1>7 DEF EndSoftReturn, streaks, reports, history, IInv, StreaksBelongToScope, HeldBackWhileItLasts, CountsAreOwed
  <2>4. SoftReturnHasNoRival' /\ SoftReturnIsPolled'
    BY <1>7 DEF EndSoftReturn, SoftReturnHasNoRival, SoftReturnIsPolled
  <2>5. TripClears'
    BY <1>7 DEF EndSoftReturn, streaks, verdict, IInv, TripClears
  <2>6. QED
    BY <2>2, <2>3, <2>4, <2>5 DEF IInv
<1>8. CASE Tick
  <2>1. sincePoll' \in 0..Interval /\ sinceSample' \in 0..Gap \cup {None}
    BY <1>8, ConstantsAssumption DEF Tick, IInv, TypeOK
  <2>2. QED
    BY <1>8, <2>1 DEF Tick, streaks, reports, return, verdict, history, IInv, TypeOK, StreaksBelongToScope,
       SoftReturnHasNoRival, HeldBackWhileItLasts, CountsAreOwed, SoftReturnIsPolled, TripClears, Connected
<1>9. QED
  BY <1>1, <1>2, <1>3, <1>4, <1>5, <1>6, <1>7, <1>8 DEF Next, Poll

THEOREM Invariance == Spec => []IInv
BY InitInv, StepInv, PTL DEF Spec

(* _leg_safety.py keeps every variable in its range: no count reaches its  *)
(* limit without a trip.                                                   *)
THEOREM TypeCorrect == Spec => []TypeOK
BY Invariance, PTL DEF IInv

(* No count of strain crosses from one channel or motion to another.       *)
THEOREM NoCrossTalk == Spec => []StreaksBelongToScope
BY Invariance, PTL DEF IInv

(* A soft return never lives on under a motion that moves the arm.         *)
THEOREM SoftReturnYields == Spec => []SoftReturnHasNoRival
BY Invariance, PTL DEF IInv

(* The two together, for every number of legs and every threshold. *)
THEOREM Safe == Spec => []Safety
BY TypeCorrect, NoCrossTalk, SoftReturnYields, PTL DEF Safety

(* A trip at rest is held back only while the breach already reported      *)
(* lasts, whatever the sweeps miss.                                        *)
THEOREM ReportsResume == Spec => []HeldBackWhileItLasts
BY Invariance, PTL DEF IInv

(* The verdict of a sweep is one that LegGuard allows. *)
LEMMA JudgesGuard ==
  ASSUME IInv, NEW mo \in Motion, NEW arm \in ArmOf[mo], NEW w \in Sweep, PollJudges(mo, arm, w)
  PROVE  Guard!Poll(mo, arm)
<1> DEFINE stale == sinceSample # None /\ sinceSample >= Gap
           resting == mo \in Soft
           arm0 == IF stale THEN Zero ELSE StreakUnder(armStreak, mo, arm)
           soft == SoftUnder(mo)
           home == IF soft = None THEN SettledUnder(mo)
                   ELSE IF soft \subseteq w.home THEN SettledUnder(mo) + 1 ELSE 0
           arm1 == IF "arm" \in Guards THEN Counted(arm0, arm, ArmOverload, w) ELSE arm0
           armTrip == Trips(arm1)
<1> HIDE DEF stale, resting, arm0, soft, home, arm1, armTrip
<1>1. /\ scope' = <<mo, arm>>
      /\ softReturn' = IF stopped' /\ armTrip THEN arm ELSE IF home >= Settle THEN None ELSE soft
      /\ "arm" \in recorded' <=> "arm" \in Guards /\ armTrip
      /\ stopped' = (~resting /\ recorded' # {})
  BY DEF PollJudges, stale, resting, arm0, soft, home, arm1, armTrip
<1>2. arm \in SUBSET Motor /\ (resting => arm = {})
  BY ConstantsAssumption DEF resting
<1>3. arm0 \in Counts /\ \A m \in Motor : arm0[m] > 0 => scope = <<mo, arm>> /\ arm0[m] = armStreak[m]
  BY ZeroType, UnderType DEF arm0, StreakUnder, IInv, TypeOK, Counts
<1>4. armTrip => "arm" \in Guards
  BY <1>3, NoTrip DEF arm1, armTrip
<1>5. CASE armTrip
  <2>1. arm1 = Counted(arm0, arm, ArmOverload, w) /\ "arm" \in recorded'
    BY <1>1, <1>4, <1>5 DEF arm1
  <2>2. arm # {} /\ mo \notin Soft
    BY <1>2, <1>3, <1>5, <2>1, TripsFacts, ConstantsAssumption DEF armTrip, resting
  <2>3. PICK m \in Motor : arm1[m] >= TripAfter
    BY <1>5 DEF armTrip, Trips
  <2>4. arm1[m] \in {0, arm0[m], arm0[m] + 1}
    BY <2>1 DEF Counted
  <2>5. arm0[m] > 0
    BY <1>3, <2>3, <2>4, ConstantsAssumption DEF Counts
  <2>6. scope = <<mo, arm>> /\ armStreak # Zero
    BY <1>3, <2>5, ZeroType
  <2>7. "arm" \notin recorded
    BY <2>6 DEF IInv, TripClears
  <2>8. stopped'
    BY <1>1, <2>1, <2>2 DEF resting
  <2>9. Guard!Soften(mo, arm)
    BY <1>1, <1>5, <2>1, <2>2, <2>6, <2>7, <2>8 DEF Guard!Soften, Verdict
  <2>10. QED
    BY <2>9 DEF Guard!Poll
<1>6. CASE ~armTrip /\ stopped'
  <2>1. mo \notin Soft /\ softReturn' = None
    BY <1>1, <1>6 DEF resting, soft, SoftUnder
  <2>2. Guard!Stop(mo, arm)
    BY <1>1, <1>6, <2>1 DEF Guard!Stop, Verdict
  <2>3. QED
    BY <2>2 DEF Guard!Poll
<1>7. CASE ~armTrip /\ ~stopped'
  <2>1. Guard!Continue(mo, arm)
    BY <1>1, <1>7 DEF Guard!Continue, Verdict, soft, SoftUnder
  <2>2. QED
    BY <2>1 DEF Guard!Poll
<1>8. stopped' \in BOOLEAN
  BY <1>1
<1>9. QED
  BY <1>5, <1>6, <1>7, <1>8

(* The leg guards implement LegGuard: a stop only under a leg motion, a    *)
(* soft return only from a trip of the raised arm, which takes more than   *)
(* the first poll of its motion.                                           *)
THEOREM Implements == Spec => GuardSpec
<1> USE DEF Guard!Next
<1>1. Init => Guard!Init
  BY DEF Init, Guard!Init, Verdict
<1>2. ASSUME IInv, [Next]_vars PROVE [Guard!Next]_<<softReturn, scope, Verdict>>
  <2>1. CASE UNCHANGED vars
    BY <2>1 DEF vars, return, verdict, Verdict
  <2>2. CASE \E d \in {None, "telemetry", "mute"} : Reset(d)
    BY <2>2 DEF Reset, Guard!Reset, Verdict
  <2>3. CASE PollSkips
    <3>1. softReturn = None
      BY <1>2, <2>3 DEF PollSkips, IInv, SoftReturnIsPolled
    <3>2. QED
      BY <2>3, <3>1 DEF PollSkips, return, Guard!Unguarded, Verdict
  <2>4. ASSUME NEW mo \in Motion, NEW arm \in ArmOf[mo], PollEarly(mo, arm) \/ PollFails(mo, arm)
        PROVE  Guard!Continue(mo, arm)
    BY <2>4 DEF PollEarly, PollFails, Enter, SoftUnder, Guard!Continue, Verdict
  <2>5. ASSUME NEW mo \in Motion, NEW arm \in ArmOf[mo], NEW w \in Sweep, PollJudges(mo, arm, w)
        PROVE  Guard!Poll(mo, arm)
    BY <1>2, <2>5, JudgesGuard
  <2>6. CASE EndSoftReturn
    BY <2>6 DEF EndSoftReturn, verdict, Guard!EndSoftReturn, Verdict
  <2>7. CASE Tick
    BY <2>7 DEF Tick, return, verdict, Verdict
  <2>8. QED
    BY <1>2, <2>1, <2>2, <2>3, <2>4, <2>5, <2>6, <2>7 DEF Next, Poll, Guard!Poll
<1>3. QED
  BY <1>1, <1>2, Invariance, PTL DEF Spec, GuardSpec, Guard!Spec, Guard!vars
=============================================================================
