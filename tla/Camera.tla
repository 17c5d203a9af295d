------------------------------- MODULE Camera -------------------------------
(***************************************************************************)
(* io/camera.py: one capture device behind a lock, read by a background    *)
(* drain and by one-shot readers, and closed within a bound even when a    *)
(* read is stuck in the driver.                                            *)
(***************************************************************************)
EXTENDS Integers, FiniteSets

CONSTANTS
  Gen,     (* bound: the drain threads, numbered from 1                    *)
  User,    (* threads that call read() themselves                          *)
  None

CameraAssumption ==
  Gen \subseteq Nat \ {0} /\ None \notin Gen /\ IsFiniteSet(Gen) /\ User \cap (Gen \cup {0, None}) = {}

Main == 0                     (* the thread of open, close and the drain   *)
Reader == Gen \cup User

VARIABLES
  cap,          (* _cap is open                                            *)
  held,         (* _reservation                                            *)
  lock,         (* _cap_lock: None, or the thread inside                   *)
  closePending, (* _close_pending                                          *)
  closed,       (* _closed                                                 *)
  drain,        (* _drain_thread: None or its number                       *)
  started,      (* threads started: their number is the last _drain_stop   *)
  stopped,      (* threads whose stop event is set                         *)
  at,           (* [Reader -> "none", "check", "lock", "reading", "got", "ended"] *)
  main,         (* where the main thread is: [at, joining]                 *)
  latest,       (* _latest: None, or the close()s and restarts before it was asked for *)
  first,        (* _first_frame: "pending", "frame", "error"               *)
  era,          (* drain starts and closes so far, as a ghost              *)
  asked,        (* [Reader -> the era its present read began in], as a ghost *)
  late,         (* a read began after close() did, as a ghost              *)
  stuck         (* a thread outlived the last close or restart, as a ghost *)

device == <<cap, held, closePending>>
drainVars == <<drain, started, stopped, first>>
ghosts == <<era, asked, late, stuck>>
cameraVars == <<device, lock, closed, drainVars, at, main, latest, ghosts>>

Idle == [at |-> "idle", joining |-> None]

Init ==
  /\ cap = FALSE /\ held = FALSE /\ closePending = FALSE
  /\ lock = None /\ closed = FALSE
  /\ drain = None /\ started = 0 /\ stopped = {} /\ first = "pending"
  /\ at = [t \in Reader |-> "none"] /\ main = Idle /\ latest = None
  /\ era = 0 /\ asked = [t \in Reader |-> 0] /\ late = FALSE /\ stuck = FALSE

Goes(t, place) == at' = [at EXCEPT ![t] = place]
NewEra == era' = era + 1 /\ stuck' = \E t \in Gen : at[t] \notin {"none", "ended"}
Release == cap' = FALSE /\ held' = FALSE /\ closePending' = FALSE

-----------------------------------------------------------------------------
(* A read: past the stop check, then the lock, the device opened when it   *)
(* is not, the grab.                                                       *)
Wants(t) ==
  /\ IF t \in Gen THEN at[t] = "check" ELSE at[t] = "none"
  /\ IF t \in Gen /\ t \in stopped THEN Goes(t, "ended") ELSE Goes(t, "lock")
  /\ UNCHANGED <<device, lock, closed, drainVars, main, latest, ghosts>>

Grab(t) ==
  /\ at[t] = "lock" /\ lock = None
  /\ lock' = t /\ Goes(t, "reading")
  /\ cap' = TRUE /\ held' = TRUE
  /\ asked' = [asked EXCEPT ![t] = era] /\ late' = (late \/ closed)
  /\ UNCHANGED <<closePending, closed, drainVars, main, latest, era, stuck>>

(* The device does not open: reported as no frame. *)
CannotOpen(t) ==
  /\ at[t] = "lock" /\ lock = None /\ ~cap
  /\ Release
  /\ Goes(t, IF t \in Gen THEN "check" ELSE "none")
  /\ UNCHANGED <<lock, closed, drainVars, main, latest, ghosts>>

(* Another process has the camera: a drain ends, and a waiter is told.     *)
Refused(t) ==
  /\ at[t] = "lock" /\ lock = None /\ ~cap
  /\ IF t \in Gen
       THEN /\ Goes(t, "ended")
            /\ drain' = IF t = started THEN None ELSE drain
            /\ first' = IF t = started /\ first = "pending" THEN "error" ELSE first
       ELSE Goes(t, "none") /\ UNCHANGED <<drain, first>>
  /\ UNCHANGED <<device, lock, closed, started, stopped, main, latest, ghosts>>

(* Mutant: a read that returns after close() gave up releases nothing. *)
Returns_Keeps(t) ==
  /\ at[t] = "reading" /\ lock' = None
  /\ Goes(t, IF t \in Gen THEN "got" ELSE "none")
  /\ UNCHANGED <<device, closed, drainVars, main, latest, ghosts>>

(* The grab returns; a close() that gave up meanwhile is finished here.    *)
Returns(t) ==
  /\ at[t] = "reading" /\ lock' = None
  /\ IF closePending THEN Release ELSE UNCHANGED device
  /\ \/ Goes(t, IF t \in Gen THEN "got" ELSE "none")
     \/ t \in Gen /\ Goes(t, "check")                  (* no frame: after a pause *)
  /\ UNCHANGED <<closed, drainVars, main, latest, ghosts>>

(* The drain publishes its frame. *)
Publish(t) ==
  /\ t \in Gen /\ at[t] = "got" /\ Goes(t, "check")
  /\ latest' = asked[t]
  /\ first' = IF t = started /\ first = "pending" THEN "frame" ELSE first
  /\ UNCHANGED <<device, lock, closed, drain, started, stopped, main, ghosts>>

-----------------------------------------------------------------------------
Open ==
  /\ main = Idle /\ main' = [Idle EXCEPT !.at = "opening"]
  /\ closed' = FALSE /\ late' = FALSE
  /\ UNCHANGED <<device, lock, drainVars, at, latest, era, asked, stuck>>

Opened ==
  /\ main.at = "opening" /\ lock = None /\ main' = Idle
  /\ \/ cap' = TRUE /\ held' = TRUE /\ UNCHANGED closePending
     \/ ~cap /\ Release
     \/ ~cap /\ UNCHANGED device                        (* reserved by another process *)
  /\ UNCHANGED <<lock, closed, drainVars, at, latest, ghosts>>

(* Mutant: the frame of before the stop is still the latest. *)
StartDrain_KeepsFrame ==
  /\ main = Idle /\ ~closed /\ drain = None /\ started + 1 \in Gen
  /\ started' = started + 1 /\ drain' = started + 1
  /\ first' = "pending" /\ Goes(started + 1, "check") /\ NewEra
  /\ UNCHANGED <<device, lock, closed, stopped, main, latest, asked, late>>

(* start_drain, and latest() when no drain runs. *)
StartDrain ==
  /\ main = Idle /\ ~closed /\ drain = None /\ started + 1 \in Gen
  /\ started' = started + 1 /\ drain' = started + 1
  /\ first' = "pending" /\ latest' = None /\ Goes(started + 1, "check") /\ NewEra
  /\ UNCHANGED <<device, lock, closed, stopped, main, asked, late>>

StopsDrain(next) ==
  /\ stopped' = (IF started = 0 THEN stopped ELSE stopped \cup {started}) /\ drain' = None
  /\ main' = [at |-> next, joining |-> drain]

StopDrain ==
  /\ main = Idle /\ drain # None
  /\ StopsDrain("stopping")
  /\ UNCHANGED <<device, lock, closed, started, first, at, latest, ghosts>>

Close ==
  /\ main = Idle /\ ~closed
  /\ closePending' = TRUE /\ closed' = TRUE /\ late' = FALSE
  /\ StopsDrain("closing")
  /\ UNCHANGED <<cap, held, lock, started, first, at, latest, era, asked, stuck>>

(* The join: the thread ended, or is still in a read after two seconds.    *)
Joined ==
  /\ main.at \in {"stopping", "closing"}
  /\ IF main.joining = None THEN TRUE ELSE at[main.joining] \in {"ended", "lock", "reading"}
  /\ main' = IF main.at = "stopping" THEN Idle ELSE [Idle EXCEPT !.at = "locking"]
  /\ UNCHANGED <<device, lock, closed, drainVars, at, latest, ghosts>>

(* Mutant: after the wait the device is released, lock or no lock. *)
CloseDevice_Anyway ==
  /\ main.at = "locking" /\ main' = [Idle EXCEPT !.at = "clearing"]
  /\ Release
  /\ UNCHANGED <<lock, closed, drainVars, at, latest, ghosts>>

(* The lock: released, or left to the read that has it. *)
CloseDevice ==
  /\ main.at = "locking" /\ main' = [Idle EXCEPT !.at = "clearing"]
  /\ IF lock = None THEN Release ELSE UNCHANGED device
  /\ UNCHANGED <<lock, closed, drainVars, at, latest, ghosts>>

Cleared ==
  /\ main.at = "clearing" /\ main' = Idle
  /\ first' = "pending" /\ latest' = None /\ NewEra
  /\ UNCHANGED <<device, lock, closed, drain, started, stopped, at, asked, late>>

Next ==
  \/ \E t \in Reader : Wants(t) \/ Grab(t) \/ CannotOpen(t) \/ Refused(t) \/ Returns(t) \/ Publish(t)
  \/ era < 2 * Cardinality(Gen) /\ Open                (* bound: sessions *)
  \/ Opened \/ StartDrain \/ StopDrain \/ Close \/ Joined \/ CloseDevice \/ Cleared

Spec == Init /\ [][Next]_cameraVars

-----------------------------------------------------------------------------
(* close: "releasing under an in-flight read is undefined behaviour in     *)
(* OpenCV": the device a read is in is open and reserved, whatever close() *)
(* and the other readers do meanwhile.                                     *)
ReadsWhatIsOpen == \A t \in Reader : at[t] = "reading" => lock = t /\ cap /\ held

(* A close() that gave up on a read is finished by it: after close() and   *)
(* with no read inside, the device is held only for a read that began      *)
(* after close() did.                                                      *)
GivenUpIsReleased == closed /\ main = Idle /\ lock = None /\ ~late => ~held

(* "A frame captured before a stop/restart is not 'the latest' anymore":   *)
(* with no thread left over from before, what latest() gives was asked for *)
(* after the last start or close.                                          *)
LatestIsFresh == latest # None /\ ~stuck => latest = era

(* stop_drain: "its own (already set) stop event guarantees it exits       *)
(* without another grab once the read returns".                            *)
StoppedGrabsNoMore == [][\A t \in Gen : t \in stopped => ~(at[t] # "reading" /\ at'[t] = "reading")]_cameraVars

(* close: latest() "returns None instead of a stale pre-close frame".      *)
ClosedShowsNothing == closed /\ main = Idle => latest = None
=============================================================================
