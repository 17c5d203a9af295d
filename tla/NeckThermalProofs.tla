------------------------- MODULE NeckThermalProofs -------------------------
(* The lockout of NeckThermal, for every set of motors and thresholds.     *)
EXTENDS NeckThermal, TLAPS

LEMMA HighestIsReading ==
  ASSUME NEW reading \in [Motor -> Temp]
  PROVE  Highest(reading) \in Temp
<1>1. PICK m \in Motor : \A n \in Motor : reading[n] <= reading[m]
  BY MotorAssumption
<1>2. \E t \in {reading[n] : n \in Motor} : \A n \in Motor : reading[n] <= t
  BY <1>1
<1>3. Highest(reading) \in {reading[n] : n \in Motor}
  BY <1>2 DEF Highest
<1>4. QED
  BY <1>3

IInv == TypeOK /\ LockMatchesJudgement

LEMMA InitInv == Init => IInv
<1> SUFFICES ASSUME Init PROVE IInv
  OBVIOUS
<1>1. Interval \in 0..Interval
  BY ClockAssumption
<1>2. TypeOK
  BY <1>1, Zenon DEF Init, TypeOK, Judgements
<1>3. LockMatchesJudgement
  BY Zenon DEF Init, LockMatchesJudgement
<1>4. QED
  BY <1>2, <1>3 DEF IInv

LEMMA CheckStaleInv ==
  ASSUME IInv, CheckStale
  PROVE  /\ state' \in Judgements /\ temp' \in Temp \cup {None} /\ lock' \in BOOLEAN
         /\ LockMatchesJudgement'
BY DEF IInv, TypeOK, CheckStale, Judgements, LockMatchesJudgement

LEMMA AdvanceInv ==
  ASSUME IInv, NEW t \in Temp, Advance(t)
  PROVE  /\ state' \in Judgements /\ temp' \in Temp \cup {None} /\ lock' \in BOOLEAN
         /\ LockMatchesJudgement'
<1>1. t \in Int /\ Warm \in Int /\ Hot \in Int /\ Cool \in Int /\ Cool < Hot /\ Warm <= Cool
  BY ThresholdAssumption
<1>2. lock \in BOOLEAN
  BY DEF IInv, TypeOK
<1>3. CASE state = "hot" /\ t > Cool
  BY <1>1, <1>3 DEF Advance, Judgements, LockMatchesJudgement
<1>4. CASE ~(state = "hot" /\ t > Cool) /\ t <= Cool
  BY <1>1, <1>4 DEF Advance, Classify, Judgements, LockMatchesJudgement
<1>5. CASE state # "hot" /\ t > Cool
  <2>1. CASE t >= Hot
    BY <1>1, <1>5, <2>1 DEF Advance, Classify, Judgements, LockMatchesJudgement
  <2>2. CASE ~(t >= Hot)
    <3>1. t >= Warm /\ Classify(t) = "warm"
      BY <1>1, <1>5, <2>2 DEF Classify
    <3>2. state' = "warm" /\ temp' = t
      BY <1>5, <3>1 DEF Advance
    <3>4. ~(t <= Cool)
      BY <1>1, <1>5
    <3>5. lock' = IF state' = "hot" THEN TRUE ELSE IF t <= Cool THEN FALSE ELSE lock
      BY Zenon DEF Advance
    <3>6. lock' = lock
      BY <3>2, <3>4, <3>5
    <3>3. QED
      BY <1>1, <1>2, <1>5, <3>2, <3>6 DEF Judgements, LockMatchesJudgement
  <2>3. QED
    BY <2>1, <2>2
<1>6. QED
  BY <1>1, <1>3, <1>4, <1>5

LEMMA StepInv == IInv /\ [Next]_vars => IInv'
<1> SUFFICES ASSUME IInv, [Next]_vars PROVE IInv'
  OBVIOUS
<1> USE ClockAssumption DEF IInv
<1>1. CASE UNCHANGED vars
  BY <1>1 DEF vars, TypeOK, LockMatchesJudgement
<1>2. ASSUME NEW d \in {"telemetry", "mute"}, Attach(d) PROVE IInv'
  <2>1. Interval \in 0..Interval
    BY ClockAssumption
  <2>2. TypeOK'
    BY <1>2, <2>1, Zenon DEF Attach, TypeOK
  <2>3. QED
    BY <1>2, <2>2 DEF Attach, LockMatchesJudgement
<1>3. CASE Detach
  BY <1>3 DEF Detach, TypeOK, LockMatchesJudgement
<1>4. CASE PollNone
  BY <1>4 DEF PollNone, TypeOK, Judgements, LockMatchesJudgement
<1>5. CASE PollDisables
  <2>1. 0 \in 0..Interval
    BY ClockAssumption
  <2>2. TypeOK'
    BY <1>5, <2>1, Zenon DEF PollDisables, TypeOK, Judgements
  <2>3. QED
    BY <1>5, <2>2 DEF PollDisables, LockMatchesJudgement
<1>6. CASE PollFails
  BY <1>6, CheckStaleInv DEF PollFails, TypeOK
<1>7. CASE PollIncomplete
  BY <1>7, CheckStaleInv DEF PollIncomplete, TypeOK
<1>8. CASE PollComplete
  <2>1. PICK reading \in [Motor -> Temp] : Advance(Highest(reading))
    BY <1>8 DEF PollComplete
  <2>2. Highest(reading) \in Temp
    BY HighestIsReading
  <2>3. QED
    BY <1>8, <2>1, <2>2, AdvanceInv DEF PollComplete, TypeOK
<1>9. CASE TakeSweep
  BY <1>9 DEF TakeSweep, TypeOK, LockMatchesJudgement
<1>10. CASE Tick
  BY <1>10, NoneAssumption DEF Tick, TypeOK, LockMatchesJudgement
<1>11. QED
  BY <1>1, <1>2, <1>3, <1>4, <1>5, <1>6, <1>7, <1>8, <1>9, <1>10 DEF Next, Poll

LEMMA Invariance == Spec => []IInv
BY InitInv, StepInv, PTL DEF Spec

(* thermal.py keeps every variable in its range. *)
THEOREM TypeCorrect == Spec => []TypeOK
BY Invariance, PTL DEF IInv

(* A hot judgement locks the neck, a cool one does not keep the lock, and  *)
(* a locked neck is never reported normal.                                 *)
THEOREM LockoutMatches == Spec => []LockMatchesJudgement
BY Invariance, PTL DEF IInv

(* A judgement rests on a sweep, and right after a poll on a fresh one. *)
Fresh == JudgementIsFresh /\ (state # "unmonitored" => age # None)

LEMMA FreshStep == IInv /\ Fresh /\ [Next]_vars => Fresh'
<1> SUFFICES ASSUME IInv, Fresh, [Next]_vars PROVE Fresh'
  OBVIOUS
<1> USE ClockAssumption, NoneAssumption DEF IInv, TypeOK, Fresh, JudgementIsFresh
<1>1. CASE UNCHANGED vars
  BY <1>1 DEF vars
<1>2. ASSUME NEW d \in {"telemetry", "mute"}, Attach(d) PROVE Fresh'
  BY <1>2 DEF Attach
<1>3. CASE Detach \/ PollNone \/ PollDisables
  BY <1>3 DEF Detach, PollNone, PollDisables
<1>4. CASE PollFails \/ PollIncomplete
  BY <1>4 DEF PollFails, PollIncomplete, CheckStale
<1>5. CASE PollComplete
  BY <1>5 DEF PollComplete
<1>6. CASE TakeSweep
  BY <1>6 DEF TakeSweep
<1>7. CASE Tick
  BY <1>7 DEF Tick
<1>8. QED
  BY <1>1, <1>2, <1>3, <1>4, <1>5, <1>6, <1>7 DEF Next, Poll

(* No poll leaves a judgement that rests on a sweep of Stale seconds ago,  *)
(* whether it failed, missed a motor or did not come.                      *)
THEOREM JudgementsAreFresh == Spec => []JudgementIsFresh
<1>1. Init => Fresh
  BY DEF Init, Fresh, JudgementIsFresh
<1>2. QED
  BY <1>1, Invariance, FreshStep, PTL DEF Spec, Fresh

(* The run's safety property, for every set of motors and thresholds. *)
THEOREM Safe == Spec => []Safety
BY TypeCorrect, LockoutMatches, JudgementsAreFresh, PTL DEF Safety

(* Nothing but a cool complete sweep, or the want of a telemetry driver,   *)
(* releases the lockout: no failed read, missing motor, stale judgement or *)
(* reconnection does.                                                      *)
THEOREM LockoutIsKept == Spec => LockKept
<1>1. ASSUME IInv, [Next]_vars, lock, ~lock'
      PROVE  driver # "telemetry" \/ (age' = 0 /\ temp' # None /\ temp' <= Cool)
  <2>1. CASE PollComplete
    <3>1. PICK reading \in [Motor -> Temp] : Advance(Highest(reading))
      BY <2>1 DEF PollComplete
    <3>2. Highest(reading) <= Cool /\ temp' = Highest(reading)
      BY <1>1, <3>1 DEF Advance
    <3>3. temp' # None
      BY <3>2, HighestIsReading, ThresholdAssumption, NoneAssumption
    <3>4. QED
      BY <2>1, <3>2, <3>3 DEF PollComplete
  <2>2. CASE ~PollComplete
    <3>1. CASE PollNone \/ PollDisables
      BY <3>1, NoneAssumption DEF PollNone, PollDisables
    <3>2. lock' = lock \/ PollNone \/ PollDisables
      BY <1>1, <2>2 DEF Next, Poll, vars, Attach, Detach, PollFails, PollIncomplete, CheckStale, TakeSweep, Tick
    <3>3. QED
      BY <1>1, <3>1, <3>2
  <2>3. QED
    BY <2>1, <2>2
<1>2. QED
  BY <1>1, Invariance, PTL DEF Spec, LockKept
=============================================================================
