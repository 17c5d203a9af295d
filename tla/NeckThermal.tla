----------------------------- MODULE NeckThermal -----------------------------
(***************************************************************************)
(* thermal.py and telemetry.py: the guard that judges the neck servos'     *)
(* temperature and locks the neck to the center while it is too hot.       *)
(* Readings come once per Interval, may fail or miss a motor, and a        *)
(* judgement older than Stale is given up.                                 *)
(***************************************************************************)
EXTENDS Integers

CONSTANTS
  Motor,     (* the neck motors                                            *)
  Temp,      (* the temperatures a motor may report                        *)
  Warm,      (* NECK_WARM_C                                                *)
  Hot,       (* NECK_HOT_C                                                 *)
  Cool,      (* NECK_COOL_C                                                *)
  Interval,  (* NECK_POLL_INTERVAL_S                                       *)
  Stale,     (* NECK_STALE_S                                               *)
  None       (* no reading, no driver                                      *)

ASSUME ThresholdAssumption ==
  /\ Temp \subseteq Int /\ Warm \in Int /\ Hot \in Int /\ Cool \in Int
  /\ Cool < Hot /\ Warm <= Cool
ASSUME ClockAssumption == Interval \in Nat \ {0} /\ Stale \in Nat /\ Interval <= Stale
ASSUME NoneAssumption == None \notin Int \cup {"telemetry", "mute"}

(* The motors are finitely many and there is one: a sweep has a highest    *)
(* reading.                                                                *)
ASSUME MotorAssumption ==
  \A f \in [Motor -> Temp] : \E m \in Motor : \A n \in Motor : f[n] <= f[m]

VARIABLES
  driver,    (* what is attached: None, a driver with telemetry or without *)
  disabled,  (* the poller has given up on the driver                      *)
  sincePoll, (* time since the last read, up to Interval                   *)
  age,       (* time since the last complete sweep, up to Stale, or None   *)
  state,     (* the judgement                                              *)
  temp,      (* temperature_c                                              *)
  lock,      (* neck_lock_active                                           *)
  sweep      (* a sweep waits for take_sweep                               *)

vars == <<driver, disabled, sincePoll, age, state, temp, lock, sweep>>

Judgements == {"normal", "warm", "hot", "unmonitored"}

Classify(t) == IF t >= Hot THEN "hot" ELSE IF t >= Warm THEN "warm" ELSE "normal"

Init ==
  /\ driver = None
  /\ disabled = FALSE
  /\ sincePoll = Interval
  /\ age = None
  /\ state = "unmonitored"
  /\ temp = None
  /\ lock = FALSE
  /\ sweep = FALSE

(* A new connection; the facade resets the guard.  reset() clears the      *)
(* poller and the pending sweep, and keeps the judgement and the lock.     *)
Attach(d) ==
  /\ driver = None
  /\ driver' = d
  /\ disabled' = FALSE
  /\ sincePoll' = Interval
  /\ sweep' = FALSE
  /\ UNCHANGED <<age, state, temp, lock>>

(* The driver goes away; the guard learns it from its next poll. *)
Detach ==
  /\ driver # None
  /\ driver' = None
  /\ UNCHANGED <<disabled, sincePoll, age, state, temp, lock, sweep>>

(* poll(None): nothing is left to write a centering command to. *)
PollNone ==
  /\ driver = None
  /\ state' = "unmonitored" /\ temp' = None /\ lock' = FALSE
  /\ sweep' = FALSE
  /\ UNCHANGED <<driver, disabled, sincePoll, age>>

(* The poll of a driver is not disabled and its interval has passed. *)
Due == driver # None /\ ~disabled /\ sincePoll >= Interval

(* A driver without telemetry, or without these motors: NotImplementedError *)
(* or KeyError disables the poller until the next connection.               *)
PollDisables ==
  /\ Due /\ driver = "mute"
  /\ disabled' = TRUE /\ sincePoll' = 0
  /\ state' = "unmonitored" /\ temp' = None /\ lock' = FALSE
  /\ UNCHANGED <<driver, age, sweep>>

(* Mutant: losing sight of the neck also releases the lockout. *)
CheckStale_Unlocks ==
  IF age = None \/ age < Stale
    THEN UNCHANGED <<state, temp, lock>>
    ELSE state' = "unmonitored" /\ temp' = None /\ lock' = FALSE

(* _check_stale: the judgement is given up, the lock is not. *)
CheckStale ==
  /\ IF age = None \/ age < Stale
       THEN UNCHANGED <<state, temp>>
       ELSE state' = "unmonitored" /\ temp' = None
  /\ UNCHANGED lock

(* Mutant: a failed read is not a reason to look at the clock. *)
PollFails_KeepsJudgement ==
  /\ Due /\ driver = "telemetry"
  /\ sincePoll' = 0
  /\ UNCHANGED <<driver, disabled, age, sweep, state, temp, lock>>

(* Mutant: a failed read leaves no judgement at all. *)
PollFails_NoJudgement ==
  /\ Due /\ driver = "telemetry"
  /\ sincePoll' = 0
  /\ state' = None /\ temp' = None
  /\ UNCHANGED <<driver, disabled, age, sweep, lock>>

(* The read fails for now. *)
PollFails ==
  /\ Due /\ driver = "telemetry"
  /\ sincePoll' = 0
  /\ CheckStale
  /\ UNCHANGED <<driver, disabled, age, sweep>>

(* The sweep misses a motor: an unread motor is unknown, not healthy. *)
PollIncomplete ==
  /\ Due /\ driver = "telemetry"
  /\ sincePoll' = 0 /\ sweep' = TRUE
  /\ CheckStale
  /\ UNCHANGED <<driver, disabled, age>>

(* Mutant: the unlock threshold is left out. *)
Advance_NeverUnlocks(t) ==
  LET new == IF state = "hot" /\ t > Cool THEN "hot" ELSE Classify(t) IN
  state' = new /\ temp' = t /\ lock' = (lock \/ new = "hot")

(* _advance_state on the highest reading of a complete sweep. *)
Advance(t) ==
  LET new == IF state = "hot" /\ t > Cool THEN "hot" ELSE Classify(t) IN
  /\ state' = new
  /\ temp' = t
  /\ lock' = IF new = "hot" THEN TRUE ELSE IF t <= Cool THEN FALSE ELSE lock

Highest(reading) ==
  CHOOSE t \in {reading[m] : m \in Motor} : \A m \in Motor : reading[m] <= t

PollComplete ==
  /\ Due /\ driver = "telemetry"
  /\ \E reading \in [Motor -> Temp] : Advance(Highest(reading))
  /\ sincePoll' = 0 /\ age' = 0 /\ sweep' = TRUE
  /\ UNCHANGED <<driver, disabled>>

TakeSweep ==
  /\ sweep
  /\ sweep' = FALSE
  /\ UNCHANGED <<driver, disabled, sincePoll, age, state, temp, lock>>

(* One second passes. *)
Tick ==
  /\ sincePoll' = IF sincePoll < Interval THEN sincePoll + 1 ELSE sincePoll
  /\ age' = IF age # None /\ age < Stale THEN age + 1 ELSE age
  /\ UNCHANGED <<driver, disabled, state, temp, lock, sweep>>

Poll == PollNone \/ PollDisables \/ PollFails \/ PollIncomplete \/ PollComplete

Next ==
  \/ \E d \in {"telemetry", "mute"} : Attach(d)
  \/ Detach \/ Poll \/ TakeSweep \/ Tick

Spec == Init /\ [][Next]_vars

----------------------------------------------------------------------------
(* Properties *)

TypeOK ==
  /\ driver \in {None, "telemetry", "mute"}
  /\ disabled \in BOOLEAN
  /\ sincePoll \in 0..Interval
  /\ age \in 0..Stale \cup {None}
  /\ state \in Judgements
  /\ temp \in Temp \cup {None}
  /\ lock \in BOOLEAN
  /\ sweep \in BOOLEAN

(* A neck seen hot stays locked through failed reads, missing motors,      *)
(* stale judgements and reconnections, until a complete sweep shows it     *)
(* cool or there is no telemetry driver to move it.                        *)
LockKept ==
  [][lock /\ ~lock' =>
       \/ driver # "telemetry"
       \/ age' = 0 /\ temp' # None /\ temp' <= Cool]_vars

(* A judgement of a hot neck, latched or fresh, locks; a judgement with a  *)
(* temperature at or below Cool never leaves the lock on; and the neck is  *)
(* not reported normal while it is locked (with Cool = Warm the two bands  *)
(* leave no gap).                                                          *)
LockMatchesJudgement ==
  /\ state = "hot" => lock
  /\ temp # None /\ lock => temp > Cool
  /\ lock => state # "normal"

(* Right after a poll of a live driver no judgement rests on a complete    *)
(* sweep that is Stale or older.                                           *)
JudgementIsFresh ==
  sincePoll = 0 /\ driver = "telemetry" /\ state # "unmonitored" => age < Stale

(* The thermal guard is sound: its lock and its judgement agree, and no     *)
(* judgement outlives its sweep (thermal.py's poll and _advance_state).     *)
Safety == TypeOK /\ LockMatchesJudgement /\ JudgementIsFresh

(* thermal.py's class docstring: "HOT is latched: once entered, state      *)
(* cannot fall below HOT until the reading drops to NECK_COOL_C or below". *)
HotIsLatched == lock => state \notin {"normal", "warm"}

(* thermal.py's class docstring: "The lock only clears on a driver that    *)
(* reports None (nothing left to write to) or a COMPLETE sweep at or below *)
(* NECK_COOL_C".                                                           *)
LockClearsOnlyWhenCool ==
  [][lock /\ ~lock' =>
       \/ driver = None
       \/ age' = 0 /\ temp' # None /\ temp' <= Cool]_vars
=============================================================================
