------------------------------ MODULE ServoBus ------------------------------
(***************************************************************************)
(* io/dynamixel.py and io/_dynamixel_bus.py: connecting the servo bus on a *)
(* thread of its own (BoundedOpen), arming the servos, and every way out   *)
(* of it.  An attempt is a call of DynamixelDriver.connect with the bus it *)
(* makes; an attempt that is given up goes on beside the next one.         *)
(***************************************************************************)
EXTENDS FiniteSets

CONSTANTS
  Motor,     (* the servos                                                 *)
  Attempt,   (* bound: calls of connect                                    *)
  Window,    (* of BoundedOpen                                             *)
  Keep,      (* keep_torque_on_disconnect                                  *)
  None

BusAssumption == Keep \in BOOLEAN /\ {None, "stale"} \cap Attempt = {}

VARIABLES caller, worker, result, gaveUp, late,
  at,        (* [Attempt -> the step its bus is at]                        *)
  port,      (* attempts whose PortHandler is open                         *)
  reserved,  (* attempts that hold the servo_bus reservation               *)
  torque,    (* motors under torque                                        *)
  goal,      (* [Motor -> the attempt that wrote its present position as goal] *)
  loose,     (* motors under torque that nobody has to answer for: found so, or a torque-off was not acknowledged *)
  driver     (* the attempt whose bus the driver holds                     *)

bounded == <<caller, worker, result, gaveUp, late>>
servos == <<torque, goal, loose>>
vars == <<bounded, at, port, reserved, servos, driver>>

B == INSTANCE BoundedOpen

Init ==
  /\ B!Init
  /\ at = [a \in Attempt |-> "none"]
  /\ port = {} /\ reserved = {}
  /\ torque \in SUBSET Motor /\ loose = torque
  /\ goal = [m \in Motor |-> "stale"]
  /\ driver = None

TypeOK ==
  /\ B!TypeOK
  /\ at \in [Attempt -> {"none", "find", "reserve", "port", "handshake", "torque off", "configure", "seed",
                         "profile", "torque on", "unwind", "armed", "over"}]
  /\ port \subseteq Attempt /\ reserved \subseteq Attempt
  /\ torque \subseteq Motor /\ loose \subseteq torque
  /\ goal \in [Motor -> Attempt \cup {"stale"}]
  /\ driver \in Attempt \cup {None}

-----------------------------------------------------------------------------
At(a, step) == worker[a] = "opening" /\ at[a] = step
To(a, step) == at' = [at EXCEPT ![a] = step]
Steps(a, from, to) == At(a, from) /\ To(a, to) /\ UNCHANGED <<bounded, driver>>

(* disable_torque tries every motor; only one that did not take its write  *)
(* keeps torque.  A joint without torque may move: its goal is stale.      *)
Release(kept) ==
  /\ torque' = torque \cap kept
  /\ loose' = torque \cap kept
  /\ goal' = [m \in Motor |-> IF m \in kept THEN goal[m] ELSE "stale"]

(* Mutant: the reservation goes first, whatever becomes of the port. *)
ClosePort_Frees(a) ==
  /\ port' \in {port, port \ {a}}
  /\ reserved' = reserved \ {a}

(* _close_port: a port that does not close keeps its reservation. *)
ClosePort(a) ==
  /\ port' \in {port, port \ {a}}
  /\ reserved' = IF a \in port' THEN reserved ELSE reserved \ {a}

(* DynamixelBus.disconnect: torque off, then the port, whatever failed.    *)
BusDisconnect(a, cut) ==
  /\ IF cut /\ a \in port
       THEN \E kept \in SUBSET Motor : Release(kept)
       ELSE UNCHANGED servos
  /\ ClosePort(a)

-----------------------------------------------------------------------------
(* DynamixelDriver.connect; a driver whose port is open returns at once.   *)
Connect(a) ==
  /\ driver \notin port
  /\ \A b \in Attempt : ~B!Waiting(b)
  /\ B!Start(a) /\ To(a, "find")
  /\ UNCHANGED <<port, reserved, servos, driver>>

(* find_servo_port: exactly one candidate, or a PortDetectionError. *)
Find(a) ==
  /\ At(a, "find")
  /\ \/ To(a, "reserve") /\ UNCHANGED bounded
     \/ To(a, "over") /\ B!Failed(a)
  /\ UNCHANGED <<port, reserved, servos, driver>>

(* acquire_resource: threads of one process share the reservation. *)
Reserve(a) ==
  /\ At(a, "reserve")
  /\ \/ To(a, "port") /\ reserved' = reserved \cup {a} /\ UNCHANGED bounded
     \/ To(a, "over") /\ B!Failed(a) /\ UNCHANGED reserved
  /\ UNCHANGED <<port, servos, driver>>

OpenPort(a) ==
  /\ Steps(a, "port", "handshake")
  /\ port' = port \cup {a}
  /\ UNCHANGED <<reserved, servos>>

(* Every motor answers the ping with the expected model. *)
Handshake(a) ==
  /\ Steps(a, "handshake", "torque off")
  /\ UNCHANGED <<port, reserved, servos>>

(* openPort, the baud rate or the handshake fails: the port is closed,     *)
(* torque is left as it was found.                                         *)
ConnectFails(a) ==
  /\ At(a, "port") \/ At(a, "handshake")
  /\ To(a, "over") /\ B!Failed(a)
  /\ ClosePort(a)
  /\ UNCHANGED <<servos, driver>>

TorqueOff(a) ==
  /\ At(a, "torque off")
  /\ \E kept \in SUBSET Motor :
       /\ Release(kept)
       /\ \/ To(a, "unwind")
          \/ kept = {} /\ To(a, "configure")
  /\ UNCHANGED <<bounded, port, reserved, driver>>

(* Acknowledged writes of Return_Delay_Time and Operating_Mode. *)
Configure(a) ==
  /\ \/ Steps(a, "configure", "seed")
     \/ Steps(a, "configure", "unwind")
  /\ UNCHANGED <<port, reserved, servos>>

(* Mutant: a position that four batches did not read is made up. *)
Seed_Partial(a) ==
  /\ Steps(a, "seed", "profile")
  /\ \E read \in SUBSET Motor : goal' = [m \in Motor |-> IF m \in read THEN a ELSE goal[m]]
  /\ UNCHANGED <<port, reserved, torque, loose>>

(* _seed_hold_pose: nothing is written unless every position was read.     *)
Seed(a) ==
  /\ \E written \in SUBSET Motor :
       /\ goal' = [m \in Motor |-> IF m \in written THEN a ELSE goal[m]]
       /\ \/ Steps(a, "seed", "unwind")
          \/ written = Motor /\ Steps(a, "seed", "profile")
  /\ UNCHANGED <<port, reserved, torque, loose>>

Profile(a) ==
  /\ \/ Steps(a, "profile", "torque on")
     \/ Steps(a, "profile", "unwind")
  /\ UNCHANGED <<port, reserved, servos>>

(* enable_torque stops at the first motor that fails, one that only lost   *)
(* its acknowledgement included.                                           *)
TorqueOn(a) ==
  /\ At(a, "torque on")
  /\ \E on \in SUBSET Motor :
       /\ torque' = torque \cup on /\ loose' = loose \ on
       /\ \/ To(a, "unwind") /\ UNCHANGED bounded
          \/ on = Motor /\ To(a, "armed") /\ B!Opened(a)
  /\ UNCHANGED <<goal, port, reserved, driver>>

(* Mutant: a failed arming only closes the port. *)
Unwind_PortOnly(a) ==
  /\ At(a, "unwind")
  /\ To(a, "over") /\ B!Failed(a)
  /\ BusDisconnect(a, FALSE)
  /\ UNCHANGED driver

Unwind(a) ==
  /\ At(a, "unwind")
  /\ To(a, "over") /\ B!Failed(a)
  /\ BusDisconnect(a, TRUE)
  /\ UNCHANGED driver

Settle(a) == B!Settle(a) /\ UNCHANGED <<at, port, reserved, servos, driver>>

(* Mutant: an orphaned bus is dropped. *)
CloseOrphan_Drops(a) ==
  /\ B!HandOver(a) \/ B!Abandon(a)
  /\ To(a, "over")
  /\ UNCHANGED <<port, reserved, servos, driver>>

(* _on_late_bus, on either thread: the armed bus that nobody owns. *)
CloseOrphan(a) ==
  /\ B!HandOver(a) \/ B!Abandon(a)
  /\ To(a, "over") /\ BusDisconnect(a, TRUE)
  /\ UNCHANGED driver

Wait(a) ==
  /\ B!Joined(a) \/ B!Interrupt(a) \/ B!InterruptAfterJoin(a)
  /\ UNCHANGED <<at, port, reserved, servos, driver>>

(* The driver takes the bus it was given; default gains are best effort.   *)
Decide(a) ==
  /\ B!Decide(a)
  /\ driver' = IF caller'[a] = "returned" THEN a ELSE driver
  /\ UNCHANGED <<at, port, reserved, servos>>

(* DynamixelDriver.disconnect: _bus is cleared even if it raises. *)
Disconnect ==
  /\ driver # None
  /\ BusDisconnect(driver, ~Keep)
  /\ at' = [at EXCEPT ![driver] = "over"]
  /\ driver' = None
  /\ UNCHANGED bounded

Done ==
  /\ driver = None
  /\ \A a \in Attempt : worker[a] = "done" /\ ~B!Waiting(a)
  /\ UNCHANGED vars

Opens(a) ==
  \/ Find(a) \/ Reserve(a) \/ OpenPort(a) \/ Handshake(a) \/ ConnectFails(a) \/ TorqueOff(a) \/ Configure(a)
  \/ Seed(a) \/ Profile(a) \/ TorqueOn(a) \/ Unwind(a) \/ Settle(a)

Next ==
  \/ \E a \in Attempt : Connect(a) \/ Opens(a) \/ Wait(a) \/ CloseOrphan(a) \/ Decide(a)
  \/ Disconnect
  \/ Done

Spec == Init /\ [][Next]_vars

-----------------------------------------------------------------------------
SoleOwner == B!SoleOwner

(* No attempt that was given up is still at work, or has been: the bus is  *)
(* the driver's alone.                                                     *)
Alone == \A a \in Attempt : ~gaveUp[a] /\ a \notin late

Quiet == \A a \in Attempt : worker[a] \in {"none", "done"} /\ ~B!Waiting(a)

(* When nothing runs and the driver has no bus, no servo is left under     *)
(* torque by this program, unless it refused to let go: not by a timeout,  *)
(* not by an interrupt, not by an arming that failed half-way.             *)
TorqueIsOwned == Quiet /\ driver = None /\ ~Keep => torque = loose

(* A port is open only under its reservation, even one that refused to     *)
(* close, and no reservation outlives its port.                            *)
ReservedWhileOpen ==
  /\ port \subseteq reserved
  /\ \A a \in reserved \ port : At(a, "port")

(* Torque goes on only where the goal is the present position, so no joint *)
(* jumps; an attempt given up on the same wire is the exception.           *)
HeldBeforeArmed == \A m \in torque' \ torque : Alone => goal[m] # "stale"

(* _timeout.py: closing the orphan "matters specifically for the           *)
(* retry-races-the-orphan case"; the driver that won the race should keep  *)
(* its servos.                                                             *)
DriverKeepsTorque == driver \in port => torque = Motor
=============================================================================
