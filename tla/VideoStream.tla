---------------------------- MODULE VideoStream ----------------------------
(***************************************************************************)
(* examples/teleop video.py: the capture thread that keeps the newest JPEG *)
(* of a camera that only it reads, and start and stop around it.           *)
(***************************************************************************)
EXTENDS Naturals

CONSTANTS
  Gen,         (* capture threads, in the order start makes them           *)
  MaxFrames,   (* bound: frames one camera session produces                *)
  None

VideoAssumption == Gen \subseteq Nat /\ None \notin Gen /\ MaxFrames \in Nat

VARIABLES
  camera,      (* "closed" or "open"                                       *)
  available,   (* _available                                               *)
  current,     (* _thread, the last one made                               *)
  thread,      (* [Gen -> where the thread is]                             *)
  quit,        (* the stop event                                           *)
  jpeg,        (* _latest_jpeg: the frame encoded last                     *)
  camera_ok,
  frames,      (* frames taken so far                                      *)
  stopper      (* where stop is                                            *)

video == <<camera, available, current, thread, quit, jpeg, camera_ok, frames, stopper>>

Init ==
  /\ camera = "closed" /\ available = FALSE /\ current = None
  /\ thread = [g \in Gen |-> "new"] /\ quit = FALSE
  /\ jpeg = 0 /\ camera_ok = FALSE /\ frames = 0 /\ stopper = "idle"

Alive(g) == thread[g] \in {"waiting", "reading", "read"}
Running == current # None /\ Alive(current)
NextGen == IF current = None THEN 1 ELSE current + 1

(* Mutant: stop has forgotten the thread, and start makes another. *)
Start_Anyway ==
  /\ stopper = "idle" /\ NextGen \in Gen
  /\ camera' = "open" /\ available' = TRUE /\ quit' = FALSE
  /\ current' = NextGen
  /\ thread' = [thread EXCEPT ![NextGen] = "waiting"]
  /\ UNCHANGED <<jpeg, camera_ok, frames, stopper>>

(* A camera that cannot be opened leaves the stream without video. *)
Start ==
  /\ stopper = "idle" /\ ~Running /\ NextGen \in Gen
  /\ camera' = "open" /\ available' = TRUE /\ quit' = FALSE
  /\ current' = NextGen
  /\ thread' = [thread EXCEPT ![NextGen] = "waiting"]
  /\ UNCHANGED <<jpeg, camera_ok, frames, stopper>>

Move(g, place) == thread' = [thread EXCEPT ![g] = place]

Take(g) ==
  /\ thread[g] = "waiting" /\ ~quit /\ frames < MaxFrames
  /\ Move(g, "reading")
  /\ UNCHANGED <<camera, available, current, quit, jpeg, camera_ok, frames, stopper>>

(* No frame in time, a reader error or an encoder error. *)
Misses(g) ==
  /\ thread[g] = "reading" /\ Move(g, "waiting") /\ camera_ok' = FALSE
  /\ UNCHANGED <<camera, available, current, quit, jpeg, frames, stopper>>

Captures(g) ==
  /\ thread[g] = "reading" /\ camera = "open"
  /\ Move(g, "read") /\ frames' = frames + 1
  /\ UNCHANGED <<camera, available, current, quit, jpeg, camera_ok, stopper>>

Publish(g) ==
  /\ thread[g] = "read" /\ Move(g, "waiting")
  /\ jpeg' = frames /\ camera_ok' = TRUE
  /\ UNCHANGED <<camera, available, current, quit, frames, stopper>>

Ends(g) ==
  /\ thread[g] = "waiting" /\ quit /\ Move(g, "ended")
  /\ UNCHANGED <<camera, available, current, quit, jpeg, camera_ok, frames, stopper>>

Stop ==
  /\ stopper = "idle" /\ stopper' = "joining" /\ quit' = TRUE
  /\ UNCHANGED <<camera, available, current, thread, jpeg, camera_ok, frames>>

(* Mutant: the join has timed out and the camera is closed all the same. *)
Stopped_Anyway ==
  /\ stopper = "joining" /\ stopper' = "idle"
  /\ camera' = IF available THEN "closed" ELSE camera
  /\ available' = FALSE
  /\ UNCHANGED <<current, thread, quit, jpeg, camera_ok, frames>>

(* A thread still alive when the join times out keeps the camera. *)
Stopped ==
  /\ stopper = "joining" /\ stopper' = "idle"
  /\ camera' = IF available /\ ~Running THEN "closed" ELSE camera
  /\ available' = FALSE
  /\ UNCHANGED <<current, thread, quit, jpeg, camera_ok, frames>>

Next ==
  \/ Start \/ Stop \/ Stopped
  \/ \E g \in Gen : Take(g) \/ Misses(g) \/ Captures(g) \/ Publish(g) \/ Ends(g)

Spec == Init /\ [][Next]_video

-----------------------------------------------------------------------------
(* The camera is never closed under a capture thread, no second thread     *)
(* captures beside one that outlived its stop (video.py's start, stop and  *)
(* _run).                                                                  *)
OneCapture ==
  \A g \in Gen : Alive(g) => camera = "open" /\ g = current
=============================================================================
