-------------------------------- MODULE Servos --------------------------------
(* The servos, from the bus up: opening and arming it, its registers, the  *)
(* driver's write path, the facade's gesture tuning and the diagnosis      *)
(* script.  A behaviour is about one of them: the variables of the others  *)
(* are None, so the states are the sum of those of the components.         *)
EXTENDS Integers

CONSTANTS
    Motor, Attempt, BusWindow, Keep,                       \* of ServoBus
    MotorOrder, ControlTable, Signed, Base, Memory,        \* of ServoRegisters
    Request, FoundTick, SafeMin, SafeMax, Neutral, DefaultGain, DriverGain, GainMax, Speed,
    ConfiguredProfile, RampDivisor, Unit,                  \* of ServoDriver
    Leg, Neck, Motion, ArmOf, Drivers, MayLimp, MaxFaults, \* of ServoTuning
    Window, Amplitude, MinTravel, Swings, FoundGain, SwingGain,
    MaxInterrupts,                                         \* of ServoDiagnosis
    None

VARIABLES
    part,    \* the component a behaviour is about
    goal,    \* of the bus and of the driver
    caller, worker, result, gaveUp, late, at, port, reserved, torque, loose, driver,
    memory, written, sweep,
    open, gain, profile, trackedGain, defaultGain, filter, filtered, named, verbatim,
    caps, motion, arm, locked, softReturn, scope, verdict, tuned, neckTuned, ram,
    cut, limpLeft, limp, todo, unheld, asIs, faults, asleep, overridden,
    pc, servo, found, window, joint, script, swing, ok, success, said, mute, interrupts

busVars == <<caller, worker, result, gaveUp, late, at, port, reserved, torque, loose, driver>>
registerVars == <<memory, written, sweep>>
driverVars == <<open, gain, profile, trackedGain, defaultGain, filter, filtered, named, verbatim>>
tuningVars ==
    <<caps, motion, arm, locked, softReturn, scope, verdict, tuned, neckTuned, ram,
      cut, limpLeft, limp, todo, unheld, asIs, faults, asleep, overridden>>
diagnosisVars ==
    <<pc, servo, found, window, joint, script, swing, ok, success, said, mute, interrupts>>
vars == <<part, goal, busVars, registerVars, driverVars, tuningVars, diagnosisVars>>

Bus == INSTANCE ServoBus WITH Window <- BusWindow
Registers == INSTANCE ServoRegisters
Driver == INSTANCE ServoDriver WITH Gain <- DriverGain
Tuning == INSTANCE ServoTuning
Diagnosis == INSTANCE ServoDiagnosis WITH Gain <- FoundGain

ASSUME BusConstants == Bus!BusAssumption /\ Bus!B!AttemptAssumption
ASSUME RegistersConstants == Registers!RegistersAssumption
ASSUME DriverConstants == Driver!DriverAssumption
ASSUME TuningConstants == Tuning!ConstantsAssumption
ASSUME DiagnosisConstants == Diagnosis!ServoDiagnosisAssumption

NoBus ==
    /\ caller = None /\ worker = None /\ result = None /\ gaveUp = None /\ late = None
    /\ at = None /\ port = None /\ reserved = None /\ torque = None /\ loose = None /\ driver = None
NoRegisters == memory = None /\ written = None /\ sweep = None
NoDriver ==
    /\ open = None /\ gain = None /\ profile = None /\ trackedGain = None
    /\ defaultGain = None /\ filter = None /\ filtered = None /\ named = None
    /\ verbatim = None
NoTuning ==
    /\ caps = None /\ motion = None /\ arm = None /\ locked = None /\ softReturn = None
    /\ scope = None /\ verdict = None /\ tuned = None /\ neckTuned = None /\ ram = None
    /\ cut = None /\ limpLeft = None /\ limp = None /\ todo = None /\ unheld = None
    /\ asIs = None /\ faults = None /\ asleep = None /\ overridden = None
NoDiagnosis ==
    /\ pc = None /\ servo = None /\ found = None /\ window = None /\ joint = None
    /\ script = None /\ swing = None /\ ok = None /\ success = None /\ said = None
    /\ mute = None /\ interrupts = None

Init ==
    \/ /\ part = "bus" /\ Bus!Init
       /\ NoRegisters /\ NoDriver /\ NoTuning /\ NoDiagnosis
    \/ /\ part = "registers" /\ Registers!Init
       /\ goal = None /\ NoBus /\ NoDriver /\ NoTuning /\ NoDiagnosis
    \/ /\ part = "driver" /\ Driver!Init
       /\ NoBus /\ NoRegisters /\ NoTuning /\ NoDiagnosis
    \/ /\ part = "tuning" /\ Tuning!Init
       /\ goal = None /\ NoBus /\ NoRegisters /\ NoDriver /\ NoDiagnosis
    \/ /\ part = "diagnosis" /\ Diagnosis!Init
       /\ goal = None /\ NoBus /\ NoRegisters /\ NoDriver /\ NoTuning

Next ==
    \/ /\ part = "bus" /\ Bus!Next
       /\ UNCHANGED <<part, registerVars, driverVars, tuningVars, diagnosisVars>>
    \/ /\ part = "registers" /\ Registers!Next
       /\ UNCHANGED <<part, goal, busVars, driverVars, tuningVars, diagnosisVars>>
    \/ /\ part = "driver" /\ Driver!Next
       /\ UNCHANGED <<part, busVars, registerVars, tuningVars, diagnosisVars>>
    \/ /\ part = "tuning" /\ Tuning!Next
       /\ UNCHANGED <<part, goal, busVars, registerVars, driverVars, diagnosisVars>>
    \/ /\ part = "diagnosis" /\ Diagnosis!Next
       /\ UNCHANGED <<part, goal, busVars, registerVars, driverVars, tuningVars>>

Spec == Init /\ [][Next]_vars

------------------------------------------------------------------------------
(* The bus and its torque have one owner (dynamixel.py's connect and       *)
(* disconnect, _timeout.py's call_with_timeout): no call of connect that   *)
(* gave up on its worker leaves a port, a reservation or a servo under     *)
(* torque behind, nor does an arming that failed half-way or an interrupt. *)
BusHasOneOwner ==
    (part = "bus") => Bus!TypeOK /\ Bus!SoleOwner /\ Bus!TorqueIsOwned /\ Bus!ReservedWhileOpen

(* Nothing snaps: torque goes on only at a goal seeded with the present    *)
(* position (dynamixel.py's _seed_goal), a gain goes up on no joint a hand *)
(* has moved (robot.py's wake, limp) and, in diagnose_servos.py, only with *)
(* the goal at the start position.                                         *)
NothingSnaps ==
    [][/\ (part = "bus") => Bus!HeldBeforeArmed
       /\ (part = "tuning") => Tuning!NoJointSnaps
       /\ (part = "diagnosis") => Diagnosis!GainRisesAtRest]_vars

(* Registers are given back: without a failed write no gesture's gain,     *)
(* profile or filter outlives it (robot.py's _sync_gesture_tuning), the    *)
(* soft arm stays soft until somebody sets its gain, and a diagnosis       *)
(* leaves the servo as found or says what it could not restore, unless the  *)
(* notice of a Ctrl+C could not be printed (diagnose_servos.py:1126).       *)
LeftAsFound ==
    /\ (part = "tuning") => Tuning!TypeOK /\ Tuning!TuningLeavesNoTrace /\ Tuning!SoftReturnKeepsArmSoft
    /\ (part = "diagnosis") => Diagnosis!LeftAsFoundOrSaid

(* A strained arm yields, a neck put to sleep is not raised, and sleep     *)
(* eases a held arm to the rest gain and no further, whatever gesture was  *)
(* tuned and whichever write fails (robot.py's soft return, sleep).        *)
TrippedArmYields ==
    [][(part = "tuning") =>
         Tuning!TrippedArmYields /\ Tuning!SleepingNeckStaysDown /\ Tuning!HeldArmIsEased]_vars

(* Through filter, clamp and profile ramp no order of calls writes a goal  *)
(* outside the safe ticks (dynamixel.py's write path).  Until the first    *)
(* write each goal is the position the joint was found at (_seed_hold_pose). *)
GoalsAreSafe == (part = "driver") => Driver!GoalsAreSafe

(* A call touches the motors it names and no others (dynamixel.py's write  *)
(* path), and a sweep reports of each motor what its registers hold        *)
(* (dynamixel_bus.py's sync_read).                                         *)
OnlyTheNamed ==
    [][/\ (part = "driver") => Driver!OnlyTheNamed
       /\ (part = "registers") => Registers!SweepReadsWhatIsThere]_vars

(* A verdict about a servo is about that servo: a sweep blames only a      *)
(* motor that was quiet, and the diagnosis passes only a joint that        *)
(* followed (dynamixel_bus.py's sync_read, diagnose_servos.py's            *)
(* _report_travel).                                                        *)
VerdictsAreEarned ==
    /\ (part = "registers") => Registers!OnlyTheQuietAreBlamed
    /\ (part = "diagnosis") => Diagnosis!OnlyAFollowerPasses

(* What the comment at the torque write of diagnose_servos.py asks for: a  *)
(* joint this run may have powered is limp at the end, or the operator     *)
(* knows that the release failed.                                          *)
EnabledIsReleased == (part = "diagnosis") => Diagnosis!EnabledIsReleased
==============================================================================
