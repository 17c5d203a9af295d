---------------------------- MODULE FlightRecorder ----------------------------
(***************************************************************************)
(* _flight_recorder.py and _flight_ride.py, driven by Palmimo.step: which  *)
(* hardware errors of which servos open an incident window, when the       *)
(* window closes, and what survives a reconnect.  Times of the window are  *)
(* kept relative to now; of the sample rings only the age of the last leg  *)
(* sweep is told apart.                                                    *)
(***************************************************************************)
EXTENDS Integers, FiniteSets

CONSTANTS
  Servo,
  Bits,      (* nonzero hardware error bits                                *)
  Post,      (* post_s                                                     *)
  PostMax,   (* post_max_s                                                 *)
  Grace,     (* POST_WINDOW_GRACE_S                                        *)
  Interval,  (* HARDWARE_ERROR_INTERVAL_S                                  *)
  Gaps,      (* times a frame may take, in frames                          *)
  MaxDumps,  (* MAX_DUMPS_PER_CONNECTION                                   *)
  None

RecorderAssumption ==
  /\ Post \in Nat \ {0} /\ PostMax \in Nat /\ Post <= PostMax /\ Grace \in Nat /\ Interval \in Nat \ {0}
  /\ Gaps \subseteq Nat \ {0} /\ Gaps # {} /\ MaxDumps \in Nat /\ 0 \notin Bits
  /\ None \notin Bits \cup {0} /\ None \notin [left : Int, cap : Int, trigger : SUBSET Servo]

VARIABLES
  status,    (* Hardware_Error_Status of each servo                        *)
  conn,      (* "off", "on", or "mute": connected, and the ride disabled   *)
  sincePoll, (* now - _last_poll                                           *)
  dueFrames, (* _due_frames                                                *)
  baselined, (* _baselined                                                 *)
  incident,  (* _incident_servos: bits of each servo, 0 of one not in it   *)
  window,    (* _window: [left, cap, trigger], None when there is none     *)
  sweepAge,  (* age of the newest sample of _fast, while a window is open  *)
  attempts,  (* _dump_attempts                                             *)
  answered,  (* what each servo last answered in this connection, as a ghost *)
  kept       (* servos whose latch a window took, and that have not answered clean since, as a ghost *)

frVars == <<status, conn, sincePoll, dueFrames, baselined, incident, window, sweepAge, attempts, answered, kept>>

Least(a, b) == IF a < b THEN a ELSE b

Init ==
  /\ status = [s \in Servo |-> 0] /\ conn = "off" /\ sincePoll = 0 /\ dueFrames = 0
  /\ baselined = {} /\ incident = [s \in Servo |-> 0] /\ window = None /\ sweepAge = 0
  /\ attempts = 0 /\ answered = [s \in Servo |-> None] /\ kept = {}

-----------------------------------------------------------------------------
(* A read is the set of the servos that answered; they answer what they    *)
(* hold.                                                                   *)
Clean(read) == {s \in read : status[s] = 0}
Latched(read) == read \ Clean(read)

(* Mutant: a servo that does not answer is no longer known. *)
Known_Forgets(read, base) ==
  [s \in Servo |-> IF s \in Latched(read) /\ (s \notin base \/ incident[s] # 0) THEN status[s] ELSE 0]

(* _incident_servos after the baselines, the recoveries and the changes.   *)
Known(read, base) ==
  [s \in Servo |-> IF s \in Clean(read) THEN 0
                   ELSE IF s \in read /\ (s \notin base \/ incident[s] # 0) THEN status[s] ELSE incident[s]]

(* Mutant: the baselines of this very read count. *)
New_AtOnce(read) == {s \in Latched(read) : incident[s] = 0}

New(read) == {s \in Latched(read) \cap baselined : incident[s] = 0}

(* Mutant: every new latch gives the window its full tail. *)
Extended_Uncapped(w, new) == [w EXCEPT !.left = Post, !.trigger = @ \cup new]

Extended(w, new) == [w EXCEPT !.left = Least(Post, w.cap), !.trigger = @ \cup new]

Window(w, new) ==
  IF new = {} THEN w
  ELSE IF w # None THEN Extended(w, new)
  ELSE IF attempts >= MaxDumps THEN None
  ELSE [left |-> Post, cap |-> PostMax, trigger |-> new]

Triggers(w) == IF w = None THEN {} ELSE w.trigger

(* observe_hardware_errors, but for the window, which is w and then v.     *)
Observe(read, v) ==
  /\ baselined' = baselined \cup read
  /\ incident' = [s \in Servo |-> IF s \in New(read) THEN status[s] ELSE Known(read, baselined)[s]]
  /\ answered' = [s \in Servo |-> IF s \in read THEN status[s] ELSE answered[s]]
  /\ kept' = (kept \ Clean(read)) \cup (Triggers(v) \ Triggers(window))

(* window_due *)
Due(w, age) == w # None /\ w.left <= 0 /\ (age + w.left <= 0 \/ w.left + Grace <= 0)
Aged(w, gap) == IF w = None THEN None ELSE [w EXCEPT !.left = @ - gap, !.cap = @ - gap]

-----------------------------------------------------------------------------
(* One frame, gap after the last, with a leg sweep or without: the read of *)
(* the errors is not due, deferred for the sweep, or made; it answers for  *)
(* any part of the servos, none of them when it fails.  A window that is   *)
(* then due is written after the frame's goals.                            *)
PollDue(elapsed) == elapsed >= Interval
ReadNow(leg, elapsed) == ~leg \/ dueFrames >= 2 \/ elapsed >= Interval + 2

Step(gap, leg, read) ==
  LET elapsed == sincePoll + gap
      reads == PollDue(elapsed) /\ ReadNow(leg, elapsed)
      v == Window(Aged(window, gap), New(read))
      age == IF leg THEN 0 ELSE sweepAge + gap
      due == Due(v, age)
  IN
  /\ conn = "on" /\ (read # {} => reads)
  /\ Observe(read, v)
  /\ sincePoll' = (IF reads THEN 0 ELSE elapsed)
  /\ dueFrames' = (IF reads THEN 0 ELSE IF PollDue(elapsed) THEN dueFrames + 1 ELSE dueFrames)
  /\ window' = (IF due THEN None ELSE v) /\ attempts' = (IF due THEN attempts + 1 ELSE attempts)
  /\ sweepAge' = (IF window' = None THEN 0 ELSE age)
  /\ UNCHANGED <<status, conn>>

(* A driver without the reader: the ride is disabled for this connection,  *)
(* and the window that is open waits for its grace to end.                 *)
StepMute ==
  /\ conn = "on" /\ sincePoll >= Interval /\ conn' = "mute"
  /\ UNCHANGED <<status, sincePoll, dueFrames, baselined, incident, window, sweepAge, attempts, answered, kept>>

StepMuted(gap) ==
  LET v == Aged(window, gap)
      due == Due(v, sweepAge + gap)
  IN
  /\ conn = "mute" /\ window # None
  /\ window' = (IF due THEN None ELSE v) /\ attempts' = (IF due THEN attempts + 1 ELSE attempts)
  /\ sweepAge' = (IF window' = None THEN 0 ELSE sweepAge + gap)
  /\ UNCHANGED <<status, conn, sincePoll, dueFrames, baselined, incident, answered, kept>>

(* connect: the baselines are dropped, the known latches stay; up to three *)
(* reads, until one got through.                                           *)
Connect ==
  /\ conn = "off" /\ attempts' = 0 /\ sincePoll' = 0 /\ dueFrames' = 0
  /\ \E read \in SUBSET Servo :
       /\ baselined' = read /\ incident' = Known(read, {})
       /\ answered' = [s \in Servo |-> IF s \in read THEN status[s] ELSE None]
       /\ kept' = kept \ Clean(read)
       /\ conn' \in (IF read = {} THEN {"on", "mute"} ELSE {"on"})
  /\ UNCHANGED <<status, window, sweepAge>>

(* disconnect: an open window is written once the torque is off.           *)
Disconnect ==
  /\ conn # "off" /\ conn' = "off"
  /\ window' = None /\ sweepAge' = 0 /\ sincePoll' = 0 /\ dueFrames' = 0 /\ attempts' = 0  (* reset by the next connect *)
  /\ UNCHANGED <<status, baselined, incident, answered, kept>>

(* The servos: an error latches, gains bits, or a reboot clears it.        *)
Changes(s, b) ==
  /\ status[s] # b /\ status' = [status EXCEPT ![s] = b]
  /\ UNCHANGED <<conn, sincePoll, dueFrames, baselined, incident, window, sweepAge, attempts, answered, kept>>

Next ==
  \/ \E gap \in Gaps, leg \in BOOLEAN, read \in SUBSET Servo : Step(gap, leg, read)
  \/ \E gap \in Gaps : StepMuted(gap)
  \/ StepMute \/ Connect \/ Disconnect
  \/ \E s \in Servo, b \in Bits \cup {0} : Changes(s, b)

Spec == Init /\ [][Next]_frVars

-----------------------------------------------------------------------------
(* "A latch normally produces one file": a servo enters a window exactly   *)
(* when it answers with an error having answered clean before, in this     *)
(* connection: never for an error it already had when it first answered,   *)
(* nor again, through reconnects and silence, before it recovers; and none *)
(* is missed but for the limit on dumps.                                   *)
WindowsTakeNewLatches ==
  \A s \in Servo :
    LET latches == answered[s] = 0 /\ answered'[s] \notin {0, None} /\ conn' = conn
    IN  /\ (s \in (kept' \ kept) \cup (Triggers(window') \ Triggers(window)) => latches)
        /\ (latches => s \in kept' \cup Triggers(window) \/ attempts = MaxDumps)

(* The same through a ghost that outlives connections: a latch a window    *)
(* took is known until its servo itself answers clean, whatever is         *)
(* reconnected, silent or repeated meanwhile.                              *)
TakenIsKnown == \A s \in kept : incident[s] # 0

(* post_max_s: errors that keep coming do not keep a window open: between  *)
(* frames it is never older than its cap and the grace, and a full frame   *)
(* later at most.                                                          *)
WindowCloses == window # None => window.cap + Grace > 0
=============================================================================
