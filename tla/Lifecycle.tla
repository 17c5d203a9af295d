----------------------------- MODULE Lifecycle -----------------------------
(***************************************************************************)
(* robot.py connect() and disconnect(): the order in which the resources   *)
(* open and close, the rollback, and the lock, the counter and the flag    *)
(* that keep a connect from outliving a disconnect.                        *)
(***************************************************************************)
EXTENDS Integers, Sequences

CONSTANTS
  Thread,          (* the threads that call                                *)
  Main,            (* the one that runs signal handlers                    *)
  Attached,        (* the resources the facade was built with              *)
  Handled,         (* calls a handler that calls disconnect may interrupt  *)
  MaxDisconnects,  (* bound: disconnect calls                              *)
  MaxInterrupts,   (* bound: KeyboardInterrupts                            *)
  None

ASSUME ConstantsAssumption ==
  /\ Main \in Thread
  /\ Attached \subseteq {"display", "speaker", "camera", "mic", "driver"} /\ Attached # {}
  /\ Handled \subseteq {"connect", "disconnect"}
  /\ MaxDisconnects \in Nat /\ MaxInterrupts \in Nat
  /\ None \notin Thread /\ None \notin {"ok", "raised", "interrupted"}

VARIABLES
  open,           (* [Attached -> "closed", "open" or "stuck" in a failed close] *)
  neck,           (* how the driver holds the neck                         *)
  hot,            (* neck_lock_active, of a neck seen hot                  *)
  count,          (* _disconnect_count                                     *)
  disconnecting,  (* _disconnecting                                        *)
  holder,         (* the thread that holds _lifecycle_lock                 *)
  calls,          (* [Thread -> its calls in progress, the innermost last] *)
  interrupts,     (* KeyboardInterrupts so far                             *)
  last            (* history: how the last call under the lock left things *)

vars == <<open, neck, hot, count, disconnecting, holder, calls, interrupts, last>>
robot == <<open, neck, hot>>
flags == <<count, disconnecting>>

(* Mutant: the driver arms first. *)
MOpenOrder == <<"driver", "display", "speaker", "camera", "mic">>

(* The driver opens last; closing ends with it too, so that what stalls    *)
(* stalls with torque off.                                                 *)
OpenOrder == <<"display", "speaker", "camera", "mic", "driver">>
CloseOrder == <<"mic", "camera", "speaker", "display", "driver">>

(* The next attached resource of an order, or the end of it.               *)
NextIn(order, i) ==
  CHOOSE j \in i + 1..6 : /\ j = 6 \/ order[j] \in Attached
                          /\ \A k \in i + 1..j - 1 : order[k] \notin Attached

(* A call: where it is (pc, and the resource at), the count and the flag   *)
(* it has read, driver_connected (now, and as it was found), how it ends,  *)
(* the interrupt it remembers, and whether a disconnect crossed it.        *)
Call ==
  [op : {"connect", "disconnect"},
   pc : {"flag", "lock", "open", "check", "wake", "final", "count", "park", "close", "clear", "leave"},
   at : 0..6, before : Nat, running : BOOLEAN, armed : BOOLEAN, found : BOOLEAN,
   end : {None, "ok", "raised", "interrupted"}, kept : BOOLEAN, crossed : BOOLEAN]

Connecting ==
  [op |-> "connect", pc |-> "flag", at |-> 0, before |-> count, running |-> FALSE, armed |-> FALSE,
   found |-> FALSE, end |-> None, kept |-> FALSE, crossed |-> FALSE]

Disconnecting == [Connecting EXCEPT !.op = "disconnect", !.pc = "lock", !.before = 0]

Armed == "driver" \in Attached /\ open["driver"] = "open"

Init ==
  /\ open \in [Attached -> {"closed", "open"}]
  /\ \A r \in Attached : open[r] = "open" => r = "driver"
  /\ neck = IF Armed THEN "held" ELSE "soft"
  /\ hot = FALSE
  /\ count = 0 /\ disconnecting = FALSE
  /\ holder = None
  /\ calls = [t \in Thread |-> <<>>]
  /\ interrupts = 0
  /\ last = "none"

-----------------------------------------------------------------------------
Busy(t) == calls[t] # <<>>
Top(t) == calls[t][Len(calls[t])]
At(t, op, pc) == Busy(t) /\ Top(t).op = op /\ Top(t).pc = pc

Goes(t, call) == calls' = [calls EXCEPT ![t][Len(calls[t])] = call]
GoesTo(t, pc) == Goes(t, [Top(t) EXCEPT !.pc = pc])
Begins(t, call) == calls' = [calls EXCEPT ![t] = Append(@, call)]
Popped(t) == SubSeq(calls[t], 1, Len(calls[t]) - 1)

(* A call that is past the lock. *)
Holds(call) == call.pc \notin {"flag", "lock"}

(* Some disconnect tears down. *)
TearsDown == \E t \in Thread : \E i \in 1..Len(calls[t]) : calls[t][i].op = "disconnect" /\ Holds(calls[t][i])

(* An unwound step: a failed one raises, Ctrl+C interrupts the main thread. *)
Interrupt(t) == t = Main /\ interrupts < MaxInterrupts /\ interrupts' = interrupts + 1

(* A connect reads the count, before it waits for the lock.                *)
BeginConnect(t) ==
  /\ ~Busy(t)
  /\ Begins(t, Connecting)
  /\ UNCHANGED <<robot, flags, holder, interrupts, last>>

BeginDisconnect(t) ==
  /\ ~Busy(t) /\ count < MaxDisconnects
  /\ Begins(t, Disconnecting)
  /\ UNCHANGED <<robot, flags, holder, interrupts, last>>

(* A signal handler of the application calls disconnect.                   *)
Signal ==
  /\ Len(calls[Main]) = 1 /\ Top(Main).op \in Handled /\ count < MaxDisconnects
  /\ Begins(Main, Disconnecting)
  /\ UNCHANGED <<robot, flags, holder, interrupts, last>>

(* Mutant: the flag is not read. *)
MReadFlag(t) ==
  /\ At(t, "connect", "flag")
  /\ Goes(t, [Top(t) EXCEPT !.pc = "lock", !.crossed = @ \/ TearsDown])
  /\ UNCHANGED <<robot, flags, holder, interrupts, last>>

(* ... and then the flag. *)
ReadFlag(t) ==
  /\ At(t, "connect", "flag")
  /\ Goes(t, [Top(t) EXCEPT !.pc = "lock", !.running = disconnecting, !.crossed = @ \/ TearsDown])
  /\ UNCHANGED <<robot, flags, holder, interrupts, last>>

(* The reentrant lock. *)
Free(t) == holder \in {None, t}

Enter(t) ==
  /\ At(t, "connect", "lock") /\ Free(t)
  /\ IF Top(t).running \/ count # Top(t).before
     THEN /\ calls' = [calls EXCEPT ![t] = Popped(t)]
          /\ UNCHANGED holder
     ELSE /\ holder' = t
          /\ Goes(t, [Top(t) EXCEPT !.pc = "open", !.at = NextIn(OpenOrder, 0),
                                        !.armed = Armed, !.found = Armed])
  /\ UNCHANGED <<robot, flags, interrupts, last>>

(* Ctrl+C ends the wait for the lock.                                      *)
GiveUp(t) ==
  /\ At(t, "connect", "lock") /\ Interrupt(t)
  /\ calls' = [calls EXCEPT ![t] = Popped(t)]
  /\ UNCHANGED <<robot, flags, holder, last>>

(* Mutant: the rollback does not park the neck. *)
MRollsBack(t, how) == Goes(t, [Top(t) EXCEPT !.pc = "close", !.at = NextIn(CloseOrder, 0), !.end = how])

RollsBack(t, how) == Goes(t, [Top(t) EXCEPT !.pc = "park", !.end = how])

(* One resource opens, or fails to: a peripheral may fail half open.  An   *)
(* interrupted driver may have armed, before driver_connected says so.     *)
Open(t) ==
  LET r == OpenOrder[Top(t).at] IN
  /\ At(t, "connect", "open")
  /\ \/ /\ open' = [open EXCEPT ![r] = "open"]
        /\ Goes(t, [Top(t) EXCEPT !.pc = "check", !.armed = @ \/ r = "driver"])
        /\ UNCHANGED interrupts
     \/ /\ open' \in {open, IF r = "driver" THEN open ELSE [open EXCEPT ![r] = "open"]}
        /\ RollsBack(t, "raised")
        /\ UNCHANGED interrupts
     \/ /\ Interrupt(t)
        /\ open' \in {open, [open EXCEPT ![r] = "open"]}
        /\ RollsBack(t, "interrupted")
  /\ neck' = IF r = "driver" /\ ~Armed /\ Armed' THEN "held" ELSE neck
  /\ UNCHANGED <<hot, flags, holder, last>>

(* Mutant: a crossed connect raises outside the rollback. *)
MCheck(t) ==
  /\ At(t, "connect", "check")
  /\ IF count # Top(t).before THEN Goes(t, [Top(t) EXCEPT !.pc = "leave", !.end = "raised"])
     ELSE LET j == NextIn(OpenOrder, Top(t).at) IN
          Goes(t, [Top(t) EXCEPT !.pc = IF j = 6 THEN "wake" ELSE "open", !.at = j])
  /\ UNCHANGED <<robot, flags, holder, interrupts, last>>

(* _ensure_not_disconnected: after each resource, and once more at the end. *)
Check(t) ==
  /\ At(t, "connect", "check")
  /\ IF count # Top(t).before THEN RollsBack(t, "raised")
     ELSE LET j == NextIn(OpenOrder, Top(t).at) IN
          Goes(t, [Top(t) EXCEPT !.pc = IF j = 6 THEN "wake" ELSE "open", !.at = j])
  /\ UNCHANGED <<robot, flags, holder, interrupts, last>>

(* wake: the neck is raised; without a driver it does nothing.             *)
Wake(t) ==
  /\ At(t, "connect", "wake")
  /\ \/ GoesTo(t, "final") /\ UNCHANGED interrupts
     \/ RollsBack(t, "raised") /\ UNCHANGED interrupts
     \/ RollsBack(t, "interrupted") /\ Interrupt(t)
  /\ neck' = IF Armed THEN "held" ELSE neck
  /\ UNCHANGED <<open, hot, flags, holder, last>>

Final(t) ==
  /\ At(t, "connect", "final")
  /\ IF count # Top(t).before THEN RollsBack(t, "raised")
     ELSE Goes(t, [Top(t) EXCEPT !.pc = "leave", !.end = "ok"])
  /\ UNCHANGED <<robot, flags, holder, interrupts, last>>

-----------------------------------------------------------------------------
(* A disconnect takes the lock and raises the flag, which crosses every    *)
(* connect in progress, then counts.                                       *)
Acquire(t) ==
  /\ At(t, "disconnect", "lock") /\ Free(t)
  /\ holder' = t
  /\ disconnecting' = TRUE
  /\ calls' = [u \in Thread |-> [i \in 1..Len(calls[u]) |->
       IF u = t /\ i = Len(calls[t]) THEN [Top(t) EXCEPT !.pc = "count"]
       ELSE [calls[u][i] EXCEPT !.crossed = @ \/ calls[u][i].op = "connect"]]]
  /\ UNCHANGED <<robot, count, interrupts, last>>

Count(t) ==
  /\ At(t, "disconnect", "count")
  /\ count' = count + 1
  /\ GoesTo(t, "park")
  /\ UNCHANGED <<robot, disconnecting, holder, interrupts, last>>

(* _park_neck, with interrupts held off: the rollback parks only a driver  *)
(* it knows to be connected.  A failed ramp does not stop the teardown.    *)
Park(t) ==
  /\ At(t, "connect", "park") \/ At(t, "disconnect", "park")
  /\ neck' \in IF Armed /\ (Top(t).op = "connect" => Top(t).armed) THEN {"soft", "failed"} ELSE {neck}
  /\ Goes(t, [Top(t) EXCEPT !.pc = "close", !.at = NextIn(CloseOrder, 0)])
  /\ UNCHANGED <<open, hot, flags, holder, interrupts, last>>

(* What a close that raises leaves: the driver always lets go of its bus.  *)
Stuck(r) == IF r = "driver" \/ open[r] = "closed" THEN "closed" ELSE "stuck"

(* The rollback closes what is attached, and the driver it knows to be     *)
(* connected.  An exception is dropped, an interrupt is not.               *)
RollbackClose(t) ==
  LET r == CloseOrder[Top(t).at]
      skipped == r = "driver" /\ ~Top(t).armed
  IN
  /\ At(t, "connect", "close")
  /\ \/ /\ Top(t).at = 6
        /\ GoesTo(t, "leave")
        /\ UNCHANGED <<open, interrupts>>
     \/ /\ Top(t).at < 6
        /\ open' \in IF skipped THEN {open} ELSE {[open EXCEPT ![r] = s] : s \in {"closed", Stuck(r)}}
        /\ Goes(t, [Top(t) EXCEPT !.at = NextIn(CloseOrder, @)])
        /\ UNCHANGED interrupts
     \/ /\ Top(t).at < 6
        /\ Interrupt(t)
        /\ open' \in IF skipped THEN {open} ELSE {open, [open EXCEPT ![r] = "closed"]}
        /\ Goes(t, [Top(t) EXCEPT !.pc = "leave", !.end = "interrupted"])
  /\ UNCHANGED <<neck, hot, flags, holder, last>>

(* One teardown step.  _step drops an exception and remembers anything     *)
(* else; the driver's own exception is let out at once.                    *)
Close(t) ==
  LET r == CloseOrder[Top(t).at]
      next == [Top(t) EXCEPT !.at = NextIn(CloseOrder, @)]
  IN
  /\ At(t, "disconnect", "close")
  /\ \/ /\ Top(t).at = 6
        /\ GoesTo(t, "clear")
        /\ UNCHANGED open
     \/ /\ Top(t).at < 6
        /\ open' = [open EXCEPT ![r] = "closed"]
        /\ Goes(t, next)
     \/ /\ Top(t).at < 6
        /\ open' = [open EXCEPT ![r] = Stuck(r)]
        /\ IF r = "driver" THEN Goes(t, [Top(t) EXCEPT !.pc = "leave", !.end = "raised"])
           ELSE \E stop \in BOOLEAN : Goes(t, [next EXCEPT !.kept = @ \/ stop])
  /\ UNCHANGED <<neck, hot, flags, holder, interrupts, last>>

(* With the driver gone there is nothing left to watch. *)
Clear(t) ==
  /\ At(t, "disconnect", "clear")
  /\ hot' = FALSE
  /\ Goes(t, [Top(t) EXCEPT !.pc = "leave", !.end = IF Top(t).kept THEN "interrupted" ELSE "ok"])
  /\ UNCHANGED <<open, neck, flags, holder, interrupts, last>>

(* Mutant: the lock is released only by a call that ends well. *)
MLeave(t) ==
  LET outer == \E i \in 1..Len(calls[t]) - 1 : Holds(calls[t][i]) IN
  /\ Busy(t) /\ Top(t).pc = "leave"
  /\ calls' = [calls EXCEPT ![t] = Popped(t)]
  /\ holder' = IF outer \/ Top(t).end # "ok" THEN t ELSE None
  /\ disconnecting' = IF Top(t).op = "disconnect" THEN FALSE ELSE disconnecting
  /\ last' = IF Top(t).op = "connect" /\ Top(t).end = "ok" THEN "open" ELSE "closed"
  /\ UNCHANGED <<robot, count, interrupts>>

(* The call ends; an outer call of the same thread keeps the lock.         *)
Leave(t) ==
  LET outer == \E i \in 1..Len(calls[t]) - 1 : Holds(calls[t][i]) IN
  /\ Busy(t) /\ Top(t).pc = "leave"
  /\ calls' = [calls EXCEPT ![t] = Popped(t)]
  /\ holder' = IF outer THEN t ELSE None
  /\ disconnecting' = IF Top(t).op = "disconnect" THEN FALSE ELSE disconnecting
  /\ last' = IF Top(t).op = "connect" /\ Top(t).end = "ok" THEN "open" ELSE "closed"
  /\ UNCHANGED <<robot, count, interrupts>>

(* step() on a connected robot sees the neck hot. *)
GetHot ==
  /\ holder = None /\ Armed
  /\ hot' = TRUE
  /\ UNCHANGED <<open, neck, flags, holder, calls, interrupts, last>>

Waits(t) == Enter(t) \/ Acquire(t)
Works(t) ==
  \/ ReadFlag(t) \/ Open(t) \/ Check(t) \/ Wake(t) \/ Final(t)
  \/ Count(t) \/ Park(t) \/ RollbackClose(t) \/ Close(t) \/ Clear(t) \/ Leave(t)

Next ==
  \/ Signal \/ GetHot
  \/ \E t \in Thread : BeginConnect(t) \/ BeginDisconnect(t) \/ GiveUp(t) \/ Waits(t) \/ Works(t)

Spec == Init /\ [][Next]_vars

(* The threads run, every step of a call ends, and nobody who waits for    *)
(* the lock is passed over for ever.                                       *)
FairSpec == Spec /\ \A t \in Thread : WF_vars(Works(t)) /\ SF_vars(Waits(t))

-----------------------------------------------------------------------------
(* Properties                                                              *)

TypeOK ==
  /\ open \in [Attached -> {"closed", "open", "stuck"}]
  /\ neck \in {"held", "soft", "failed"}
  /\ hot \in BOOLEAN
  /\ count \in Nat /\ disconnecting \in BOOLEAN
  /\ holder \in Thread \cup {None}
  /\ calls \in [Thread -> Seq(Call)]
  /\ interrupts \in Nat
  /\ last \in {"none", "open", "closed"}

(* A connect that a disconnect ran under, or that asked while one ran,     *)
(* does not leave the robot open behind it: whatever the threads, the      *)
(* handler and the two unlocked reads do, the last word is the             *)
(* disconnect's.                                                           *)
DisconnectWins ==
  \A t \in Thread :
    At(t, "connect", "leave") /\ Top(t).end = "ok" /\ Top(t).crossed
      => \A r \in Attached : open[r] # "open"

(* When the lock is free after a disconnect or a failed connect, nothing   *)
(* is left open that did not refuse to close, as long as no interrupt has  *)
(* hit a rollback (RollbackCutsTorque says what should hold there).        *)
NothingLeaks ==
  holder = None /\ last = "closed" /\ interrupts = 0 => \A r \in Attached : open[r] # "open"

(* Torque is not cut on a neck held at full gain, unless the ramp that     *)
(* should have let it down failed.                                         *)
NeckIsEased == [][Armed /\ ~Armed' => neck # "held"]_vars

(* A peripheral that stalls keeps a waiting disconnect waiting with torque *)
(* off, unless the driver was connected before the call.                   *)
StallsDisarmed ==
  \A t \in Thread :
    At(t, "connect", "open") /\ OpenOrder[Top(t).at] # "driver" => ~Armed \/ Top(t).found

(* The order of connect and disconnect seen from a resource: none is left  *)
(* open behind a closed robot, and none that stalls does so under torque.  *)
NoResourceIsStranded == NothingLeaks /\ StallsDisarmed

(* No call waits for ever, not even for its own thread's. *)
EveryCallEnds == \A t \in Thread : Busy(t) ~> ~Busy(t)

(* api-reference.md: "If a later resource ... fails, the ones already      *)
(* opened are closed before the error is re-raised", and "also covers a    *)
(* KeyboardInterrupt".                                                     *)
FailedConnectDisarms == holder = None /\ last = "closed" => ~Armed

(* api-reference.md: the teardown of disconnect "mirrors connect()'s own   *)
(* BaseException rollback: an interrupt is not an Exception", so an        *)
(* interrupted rollback still lets go of the driver it knows of.           *)
RollbackCutsTorque ==
  \A t \in Thread :
    At(t, "connect", "leave") /\ Top(t).end # "ok" /\ Top(t).armed => ~Armed

(* robot.py disconnect(): "Whatever a teardown step raised that was not an *)
(* Exception ..., re-raised after the torque-off".                         *)
InterruptIsRaised ==
  \A t \in Thread :
    At(t, "disconnect", "leave") /\ Top(t).kept => Top(t).end = "interrupted"

(* robot.py neck_lock_active: "It clears once the driver disconnects".     *)
LockClearsWithDriver == holder = None /\ hot => Armed
=============================================================================
