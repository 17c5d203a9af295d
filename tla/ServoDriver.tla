----------------------------- MODULE ServoDriver -----------------------------
(***************************************************************************)
(* io/dynamixel.py DynamixelDriver and io/base.py between connect and      *)
(* disconnect: what the driver remembers of its servos (goals, gains,      *)
(* profiles, the command filter) beside what their registers hold.         *)
(***************************************************************************)
EXTENDS Integers

CONSTANTS
  Motor,
  Request,              (* ticks a caller may ask for, unsafe ones included *)
  FoundTick,            (* positions a joint may be found at, unsafe ones included *)
  SafeMin, SafeMax, Neutral,
  DefaultGain, Gain,    (* Position_P_Gain: the default, and what callers ask for *)
  GainMax,              (* of a 14-bit register                             *)
  Speed,                (* ticks per second callers ask for                 *)
  ConfiguredProfile,    (* profile_velocity                                 *)
  RampDivisor,          (* _ACCEL_RAMP_DIVISOR                              *)
  Unit,                 (* ticks per second of one register unit            *)
  None

DriverAssumption ==
  /\ SafeMin \in Int /\ SafeMax \in Int /\ Neutral \in SafeMin..SafeMax
  /\ Request \subseteq Int /\ FoundTick \subseteq Int /\ Gain \subseteq Int /\ Speed \subseteq Int
  /\ DefaultGain \in 0..GainMax /\ Unit \in Nat \ {0} /\ RampDivisor \in Nat \ {0}

VARIABLES
  open,         (* _bus is there                                           *)
  goal,         (* Goal_Position of each servo                             *)
  gain,         (* Position_P_Gain of each servo                           *)
  profile,      (* [Motor -> [v, a]], Profile_Velocity and _Acceleration   *)
  trackedGain,  (* _p_gain                                                 *)
  defaultGain,  (* _default_p_gain, or None when the connect could not write it *)
  filter,       (* [on, quarters, motors]: the IIR's switch, alpha, subset *)
  filtered,     (* _iir_state: [Motor -> its last output, or None]         *)
  named,        (* the motors the last call was about                      *)
  verbatim      (* the goals are still the positions the connect found     *)

driverVars == <<open, goal, gain, profile, trackedGain, defaultGain, filter, filtered, named, verbatim>>
memory == <<trackedGain, defaultGain, filter, filtered>>

Subset == {None} \cup ((SUBSET Motor) \ {{}})
Named(motors) == IF motors = None THEN Motor ELSE motors

Init ==
  /\ open = FALSE
  /\ goal = [m \in Motor |-> Neutral]
  /\ gain = [m \in Motor |-> DefaultGain]
  /\ profile = [m \in Motor |-> [v |-> ConfiguredProfile, a |-> 0]]
  /\ trackedGain = None /\ defaultGain = None
  /\ filter = [on |-> FALSE, quarters |-> 4, motors |-> None]
  /\ filtered = [m \in Motor |-> None]
  /\ named = {} /\ verbatim = FALSE

-----------------------------------------------------------------------------
Clamped(low, high, x) == IF x < low THEN low ELSE IF x > high THEN high ELSE x

(* clamp_goal_tick *)
ClampGoalTick(tick) == Clamped(SafeMin, SafeMax, tick)

(* A sync write reaches every motor; a write per motor may stop half-way.  *)
WriteOne(register, motors, value) == [m \in Motor |-> IF m \in motors THEN value ELSE register[m]]

(* y = a * x + (1 - a) * y_prev, at the precision of a tick. *)
Smooth(tick, prev) == (filter.quarters * tick + (4 - filter.quarters) * prev + 2) \div 4

(* Mutant: a motor the filter has not seen starts at tick 0. *)
ApplyIir_FromZero(target) ==
  LET touched == {m \in Motor : filter.on /\ (filter.motors = None \/ m \in filter.motors)}
  IN [m \in Motor |-> IF m \in touched THEN Smooth(target[m], IF filtered[m] = None THEN 0 ELSE filtered[m]) ELSE target[m]]

(* _apply_iir: the subset alone is filtered, from its own last output. *)
ApplyIir(target) ==
  LET touched == {m \in Motor : filter.on /\ (filter.motors = None \/ m \in filter.motors)}
  IN [m \in Motor |-> IF m \in touched THEN Smooth(target[m], IF filtered[m] = None THEN target[m] ELSE filtered[m]) ELSE target[m]]

-----------------------------------------------------------------------------
(* The bus was opened, each goal seeded with the position found, verbatim: *)
(* a joint found outside the safe ticks holds there.  The default gain is  *)
(* applied, best effort; the filter and the tracked gain are what they were. *)
Connect ==
  /\ ~open /\ open' = TRUE
  /\ goal' \in [Motor -> FoundTick] /\ verbatim' = TRUE
  /\ profile' = [m \in Motor |-> [v |-> ConfiguredProfile, a |-> 0]]
  /\ \/ gain' = [m \in Motor |-> DefaultGain] /\ defaultGain' = DefaultGain
     \/ defaultGain' = None /\ UNCHANGED gain
  /\ named' = Motor
  /\ UNCHANGED <<trackedGain, filter, filtered>>

Disconnect ==
  /\ open /\ open' = FALSE
  /\ named' = {}
  /\ UNCHANGED <<goal, gain, profile, memory, verbatim>>

(* write_positions and _write_positions: every goal is clamped, a motor    *)
(* that is not named goes to NEUTRAL, then the filter.                     *)
WritePositions(asked) ==
  LET target == [m \in Motor |-> IF m \in DOMAIN asked THEN ClampGoalTick(asked[m]) ELSE Neutral]
      smooth == ApplyIir(target)
  IN /\ open
     /\ filtered' = [m \in Motor |-> IF filter.on /\ (filter.motors = None \/ m \in filter.motors) THEN smooth[m] ELSE filtered[m]]
     /\ \/ goal' = smooth /\ verbatim' = FALSE
        \/ UNCHANGED <<goal, verbatim>>         (* txPacket fails: the filter has moved on *)
     /\ named' = Motor
     /\ UNCHANGED <<open, gain, profile, trackedGain, defaultGain, filter>>

(* set_iir *)
SetIir(on, quarters, motors) ==
  /\ filter' = [on |-> on, quarters |-> IF quarters = None THEN filter.quarters ELSE quarters, motors |-> motors]
  /\ filtered' = IF on THEN filtered ELSE [m \in Motor |-> None]
  /\ named' = {}
  /\ UNCHANGED <<open, goal, gain, profile, trackedGain, defaultGain, verbatim>>

(* Mutant: one sync write for any subset, the others filled with the default. *)
SetPositionPGain_Backfills(value, motors) ==
  LET v == IF value = None THEN defaultGain ELSE Clamped(0, GainMax, value)
  IN /\ open
     /\ gain' = IF v = None THEN gain ELSE [m \in Motor |-> IF m \in Named(motors) THEN v ELSE DefaultGain]
     /\ trackedGain' = IF motors = None THEN value ELSE trackedGain
     /\ named' = Named(motors)
     /\ UNCHANGED <<open, goal, profile, defaultGain, filter, filtered, verbatim>>

(* set_position_p_gain: None restores what connect captured. *)
SetPositionPGain(value, motors) ==
  LET v == IF value = None THEN defaultGain ELSE Clamped(0, GainMax, value)
  IN /\ open
     /\ IF v = None
          THEN UNCHANGED <<gain, trackedGain>>
          ELSE \/ /\ gain' = WriteOne(gain, Named(motors), v)
                  /\ trackedGain' = IF motors = None THEN (IF value = None THEN None ELSE v) ELSE trackedGain
               \/ \E done \in SUBSET Named(motors) :           (* a write that fails ends the call *)
                    /\ done # Named(motors) /\ (motors = None => done = {})
                    /\ gain' = WriteOne(gain, done, v)
                    /\ UNCHANGED trackedGain
     /\ named' = Named(motors)
     /\ UNCHANGED <<open, goal, profile, defaultGain, filter, filtered, verbatim>>

(* position_p_gain *)
PositionPGain == IF trackedGain # None THEN trackedGain ELSE defaultGain

(* set_profile_velocity_units: raw register units, a subset one by one. *)
SetProfileVelocityUnits(value, motors) ==
  /\ open
  /\ \E done \in SUBSET Named(motors) :
       /\ motors = None => done \in {{}, Motor}
       /\ profile' = [m \in Motor |-> IF m \in done THEN [profile[m] EXCEPT !.v = IF value < 0 THEN 0 ELSE value] ELSE profile[m]]
  /\ named' = Named(motors)
  /\ UNCHANGED <<open, goal, gain, memory, verbatim>>

(* _to_velocity_units, _to_accel_units: a speed that is not positive is    *)
(* the configured default, without a ramp.                                 *)
Rounded(x, y) == LET r == (2 * x + y) \div (2 * y) IN IF r < 1 THEN 1 ELSE r
ToVelocityUnits(speed) == IF speed <= 0 THEN ConfiguredProfile ELSE Rounded(speed, Unit)
ToAccelUnits(speed) == IF speed <= 0 THEN 0 ELSE Rounded(ToVelocityUnits(speed), RampDivisor)

(* set_profile_velocity: acceleration first, then the velocity; a motor    *)
(* that is not named gets 0, the default.                                  *)
SetProfileVelocity(speed) ==
  /\ open
  /\ \E sent \in 0..2 :
       profile' = [m \in Motor |->
                     LET s == IF m \in DOMAIN speed THEN speed[m] ELSE 0 IN
                       [v |-> IF sent = 2 THEN ToVelocityUnits(s) ELSE profile[m].v,
                        a |-> IF sent >= 1 THEN ToAccelUnits(s) ELSE profile[m].a]]
  /\ named' = Motor
  /\ UNCHANGED <<open, goal, gain, memory, verbatim>>

Partial(values) == UNION {[motors -> values] : motors \in SUBSET Motor}

Next ==
  \/ Connect \/ Disconnect
  \/ \E asked \in Partial(Request) : WritePositions(asked)
  \/ \E on \in BOOLEAN, quarters \in {None, 1}, motors \in Subset : SetIir(on, quarters, motors)
  \/ \E value \in Gain \cup {None}, motors \in Subset : SetPositionPGain(value, motors)
  \/ \E value \in Speed, motors \in Subset : SetProfileVelocityUnits(value, motors)
  \/ \E speed \in Partial(Speed) : SetProfileVelocity(speed)

Spec == Init /\ [][Next]_driverVars

-----------------------------------------------------------------------------
(* No order of calls, filter switched on, moved to other motors or fed     *)
(* goals beyond the range, writes a goal outside the safe ticks; and where *)
(* a joint was found outside them, the first write brings its goal back.   *)
GoalsAreSafe == open /\ ~verbatim => \A m \in Motor : goal[m] \in SafeMin..SafeMax

(* A call about some motors never touches another one's registers: the     *)
(* neck is softened while the legs keep the gain that carries the body.    *)
OnlyTheNamed ==
  \A m \in Motor \ named' : gain'[m] = gain[m] /\ profile'[m] = profile[m] /\ goal'[m] = goal[m]

(* dynamixel.py, position_p_gain: "Effective Position_P_Gain (the set      *)
(* value, else the captured default)", right after connect wrote it.       *)
ReportsConnectedGain == ~open /\ open' /\ defaultGain' # None => PositionPGain' = DefaultGain
(* dynamixel.py: "_iir_state holds y[n-1]", the goal last sent.            *)
FilterRemembersLastGoal ==
  open /\ filter.on => \A m \in Named(filter.motors) : filtered[m] \in {None, goal[m]}
=============================================================================
