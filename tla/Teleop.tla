------------------------------- MODULE Teleop -------------------------------
(***************************************************************************)
(* examples/teleop: browsers that ask for the one control slot, the pilot  *)
(* session their frames are written to, and the thread that alone drives   *)
(* the robot from it, through the deadman timer, until the server's        *)
(* lifespan ends.  A unit of time is one control cycle.                    *)
(***************************************************************************)
EXTENDS Naturals

CONSTANTS
  Client,      (* connections to /api/control                              *)
  Frame,       (* the control frames that pass the validation              *)
  Gesture,     (* ALLOWED_GESTURES                                         *)
  Deadman,     (* DEADMAN_TIMEOUT_S                                        *)
  Play,        (* GESTURE_PLAY_SECONDS                                     *)
  MaxLag,      (* bound: time one servo call may hold up a cycle           *)
  None

TeleopAssumption ==
  /\ Frame \subseteq [move : STRING \cup {None}, rotate : {0, 1}, neck : {0, 1}]
  /\ None \notin Client /\ None # "unset" /\ "unset" \notin Gesture /\ \A f \in Frame : f.move # "unset"
  /\ Deadman \in Nat /\ Play \in Nat \ {0} /\ MaxLag \in Nat \ {0}

VARIABLES
  conn,        (* [Client -> where its handler is]                         *)
  pilot,       (* _pilot_id                                                *)
  state,       (* the _PilotState, its times as ages                       *)
  loop,        (* where the robot loop's thread is                         *)
  snap,        (* the _PilotState it took a reference to                   *)
  now,         (* the PilotInput it resolved                               *)
  applied,     (* _applied_motion                                          *)
  robot,       (* the motion and the neck the robot was told               *)
  ok,          (* robot_ok                                                 *)
  life,        (* the lifespan of the app                                  *)
  parked,      (* robot.disconnect has run                                 *)
  cycled,      (* the loop has been round since time last passed           *)
  lag,         (* time that passed inside the present cycle                *)
  silent       (* time since the session last had a live pilot             *)

session == <<conn, pilot, state>>
thread == <<loop, snap, now, applied, robot, ok>>
clock == <<cycled, lag, silent>>
teleopVars == <<session, thread, life, parked, clock>>

Never == Deadman + 1
Idle == [move |-> None, rotate |-> 0, neck |-> 0]
Fresh == [frame |-> Idle, age |-> Never, gesture |-> None, left |-> 0]
Inert == [motion |-> None, neck |-> 0]

Init ==
  /\ conn = [c \in Client |-> "none"] /\ pilot = None /\ state = Fresh
  /\ loop = "rest" /\ snap = Fresh /\ now = Inert
  /\ applied = "unset" /\ robot = Inert /\ ok = TRUE
  /\ life = "up" /\ parked = FALSE
  /\ cycled = FALSE /\ lag = 0 /\ silent = 0

-----------------------------------------------------------------------------
Handler(c, place) == conn' = [conn EXCEPT ![c] = place]

(* Mutant: the reply to the first message is awaited before the role is    *)
(* committed, and a socket that closes there never comes to the finally.   *)
Hang_Up_Unreleased(c) ==
  /\ conn[c] \notin {"none", "closed"}
  /\ Handler(c, "closed")
  /\ IF pilot = c /\ conn[c] = "pilot" THEN pilot' = None /\ state' = Fresh ELSE UNCHANGED <<pilot, state>>
  /\ UNCHANGED <<thread, life, parked, clock>>

(* The socket closes, or a send fails, wherever the handler is. *)
HangUp(c) ==
  /\ conn[c] \notin {"none", "closed"}
  /\ Handler(c, "closed")
  /\ IF pilot = c THEN pilot' = None /\ state' = Fresh ELSE UNCHANGED <<pilot, state>>
  /\ UNCHANGED <<thread, life, parked, clock>>

(* The first message claims a role before anything is awaited. *)
Join(c, role) ==
  /\ conn[c] = "none" /\ life = "up"
  /\ IF role = "pilot" /\ pilot = None
       THEN pilot' = c /\ Handler(c, "claimed")
       ELSE UNCHANGED pilot /\ Handler(c, "viewer")
  /\ UNCHANGED <<state, thread, life, parked, clock>>

Granted(c) ==
  /\ conn[c] = "claimed" /\ Handler(c, "pilot")
  /\ UNCHANGED <<pilot, state, thread, life, parked, clock>>

Steering(f) == f.move # None \/ f.rotate # 0

Update(c, f) ==
  /\ conn[c] = "pilot" /\ pilot = c /\ life = "up"
  /\ state' = [state EXCEPT !.frame = f, !.age = 0,
                            !.gesture = IF Steering(f) THEN None ELSE @,
                            !.left = IF Steering(f) THEN 0 ELSE @]
  /\ silent' = 0
  /\ UNCHANGED <<conn, pilot, thread, life, parked, cycled, lag>>

(* A gesture that is playing is stopped by a second tap. *)
PlayGesture(c, g) ==
  /\ conn[c] = "pilot" /\ pilot = c /\ life = "up"
  /\ LET off == state.left > 0 /\ state.gesture = g
     IN  state' = [state EXCEPT !.gesture = IF off THEN None ELSE g, !.left = IF off THEN 0 ELSE Play]
  /\ UNCHANGED <<conn, pilot, thread, life, parked, clock>>

-----------------------------------------------------------------------------
Older(s) == [s EXCEPT !.age = IF @ = Never THEN @ ELSE @ + 1, !.left = IF @ = 0 THEN 0 ELSE @ - 1,
                      !.gesture = IF s.left <= 1 THEN None ELSE @]
Live == pilot # None /\ state.age <= Deadman

(* Time passes between two cycles, or while a servo call holds one up. *)
Pass ==
  /\ \/ loop \in {"rest", "off"} /\ (cycled \/ loop = "off") /\ lag' = lag
     \/ loop \notin {"rest", "off"} /\ lag < MaxLag /\ lag' = lag + 1
  /\ state' = Older(state) /\ snap' = Older(snap)
  /\ cycled' = FALSE
  /\ silent' = IF Live THEN 0 ELSE IF silent > MaxLag + 1 THEN silent ELSE silent + 1
  /\ UNCHANGED <<conn, pilot, loop, now, applied, robot, ok, life, parked>>

-----------------------------------------------------------------------------
(* effective_input takes one reference to the state, *)
Read ==
  /\ loop = "rest" /\ life = "up"
  /\ loop' = "read" /\ snap' = state
  /\ lag' = 0 /\ UNCHANGED <<session, now, applied, robot, ok, life, parked, cycled, silent>>

(* Mutant: a pilot whose frames have stopped coming is still a pilot. *)
Resolved_NoDeadman ==
  IF pilot = None THEN Inert
  ELSE [motion |-> IF snap.left > 0 THEN snap.gesture
                   ELSE IF snap.frame.rotate = 1 THEN "rotate" ELSE snap.frame.move,
        neck |-> snap.frame.neck]

(* and looks for the pilot and at the clock after it. A gesture comes      *)
(* before turning, and turning before walking.                             *)
Resolved ==
  IF pilot = None \/ snap.age > Deadman THEN Inert
  ELSE [motion |-> IF snap.left > 0 THEN snap.gesture
                   ELSE IF snap.frame.rotate = 1 THEN "rotate" ELSE snap.frame.move,
        neck |-> snap.frame.neck]

Resolve ==
  /\ loop = "read"
  /\ loop' = "apply" /\ now' = Resolved
  /\ UNCHANGED <<session, snap, applied, robot, ok, life, parked, clock>>

(* Mutant: the motion counts as applied before the robot took it. *)
Apply_Early ==
  /\ loop = "apply" /\ loop' = "step" /\ applied' = now.motion
  /\ \/ robot' = [motion |-> IF now.motion = applied THEN robot.motion ELSE now.motion, neck |-> now.neck]
     \/ robot' = [robot EXCEPT !.neck = now.neck]
  /\ UNCHANGED <<session, snap, now, ok, life, parked, clock>>

(* set_motion or stop, only when the motion changed, and look. *)
Apply ==
  /\ loop = "apply" /\ loop' = "step"
  /\ robot' = [motion |-> IF now.motion = applied THEN robot.motion ELSE now.motion, neck |-> now.neck]
  /\ applied' = now.motion
  /\ UNCHANGED <<session, snap, now, ok, life, parked, clock>>

(* A call of the cycle raises: what it was to do waits for the next one. *)
Fails ==
  /\ loop \in {"apply", "step"}
  /\ loop' = "rest" /\ ok' = FALSE /\ cycled' = TRUE
  /\ snap' = Fresh /\ now' = Inert
  /\ UNCHANGED <<session, applied, robot, life, parked, lag, silent>>

Step ==
  /\ loop = "step"
  /\ loop' = "rest" /\ ok' = TRUE /\ cycled' = TRUE
  /\ snap' = Fresh /\ now' = Inert
  /\ UNCHANGED <<session, applied, robot, life, parked, lag, silent>>

(* The thread finds the stop event between two cycles. *)
Exit ==
  /\ loop = "rest" /\ life \in {"joining", "left_open"}
  /\ loop' = "off"
  /\ UNCHANGED <<session, snap, now, applied, robot, ok, life, parked, clock>>

-----------------------------------------------------------------------------
(* The lifespan ends: video.stop, then robot_loop.shutdown. *)
TearDown ==
  /\ life = "up" /\ life' = "joining"
  /\ UNCHANGED <<session, thread, parked, clock>>

Settles ==
  /\ life = "joining" /\ loop = "off" /\ life' = "settling"
  /\ robot' = [robot EXCEPT !.motion = None]
  /\ UNCHANGED <<session, loop, snap, now, applied, ok, parked, clock>>

(* Mutant: a thread that has not stopped in time is settled beside. *)
GiveUp_Settles ==
  /\ life = "joining" /\ loop # "off" /\ lag = MaxLag
  /\ life' = "settling"
  /\ UNCHANGED <<session, thread, parked, clock>>

(* A thread that has not stopped in time keeps the robot and the port. *)
GiveUp ==
  /\ life = "joining" /\ loop # "off" /\ lag = MaxLag
  /\ life' = "left_open"
  /\ UNCHANGED <<session, thread, parked, clock>>

(* The settling steps are not guarded: one that raises leaves lifespan. *)
SettleFails ==
  /\ life = "settling" /\ life' = "down"
  /\ UNCHANGED <<session, thread, parked, clock>>

Disconnect ==
  /\ life = "settling" /\ life' = "down" /\ parked' = TRUE
  /\ UNCHANGED <<session, thread, clock>>

Next ==
  \/ \E c \in Client :
       \/ \E role \in {"pilot", "viewer"} : Join(c, role)
       \/ Granted(c) \/ HangUp(c)
       \/ (\E f \in Frame : Update(c, f)) \/ (\E g \in Gesture : PlayGesture(c, g))
  \/ Pass \/ Read \/ Resolve \/ Apply \/ Fails \/ Step \/ Exit
  \/ TearDown \/ Settles \/ GiveUp \/ SettleFails \/ Disconnect

Spec == Init /\ [][Next]_teleopVars

-----------------------------------------------------------------------------
(* A robot whose loop reports itself well moves, and turns its head, only  *)
(* for a pilot who is there: one cycle after the frames stop, or the pilot *)
(* is gone, it has been stopped and its neck recentred, also when the call *)
(* that was to stop it failed and had to be repeated (robot_loop.py's      *)
(* tick, session.py's effective_input).                                    *)
MovesForALivePilot ==
  (loop = "rest" /\ ok /\ robot # Inert) => silent <= 1 + lag

(* The control slot is never held by a browser that has gone, whatever     *)
(* point of its handshake it went at (server.py's _control_connection).    *)
SlotIsFreed == pilot # None => conn[pilot] \in {"claimed", "pilot"}

(* The robot has one driver: nothing settles or disconnects it while the   *)
(* loop's thread is alive (robot_loop.py's shutdown, server.py's lifespan).*)
OneDriver == (life = "settling" \/ parked) => loop = "off"

(* What the teleop's README and the lifespan's comment say of shutdown:    *)
(* unless the loop's thread is stuck, the robot is parked.                 *)
TeardownParks == (life = "down" /\ loop = "off") => parked
=============================================================================
