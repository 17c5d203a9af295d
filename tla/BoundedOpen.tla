---------------------------- MODULE BoundedOpen ----------------------------
(***************************************************************************)
(* io/_timeout.py run_with_timeout: a blocking open on a thread of its     *)
(* own, a caller that waits for a bounded time, and the lock under which   *)
(* the two decide whose the opened device is.                              *)
(***************************************************************************)
CONSTANTS
  Attempt,   (* calls of run_with_timeout                                  *)
  Window,    (* where a KeyboardInterrupt may land: "join", "decide"       *)
  None

AttemptAssumption == None \notin {"value", "error"} /\ Window \subseteq {"join", "decide"}

VARIABLES
  caller,    (* [Attempt -> where the calling thread is]                   *)
  worker,    (* [Attempt -> where its background thread is]                *)
  result,    (* [Attempt -> the result or error settled for the caller]    *)
  gaveUp,    (* [Attempt -> gave_up]                                       *)
  late       (* attempts whose value was handed to on_late_result          *)

bounded == <<caller, worker, result, gaveUp, late>>

Init ==
  /\ caller = [a \in Attempt |-> "none"]
  /\ worker = [a \in Attempt |-> "none"]
  /\ result = [a \in Attempt |-> None]
  /\ gaveUp = [a \in Attempt |-> FALSE]
  /\ late = {}

TypeOK ==
  /\ caller \in [Attempt -> {"none", "joining", "joined", "abandoning", "returned", "timed out", "raised", "interrupted"}]
  /\ worker \in [Attempt -> {"none", "opening", "opened", "failed", "late", "done"}]
  /\ result \in [Attempt -> {None, "value", "error"}]
  /\ gaveUp \in [Attempt -> BOOLEAN]
  /\ late \subseteq Attempt

-----------------------------------------------------------------------------
Caller(a, place) == caller' = [caller EXCEPT ![a] = place]
Worker(a, place) == worker' = [worker EXCEPT ![a] = place]

Start(a) ==
  /\ caller[a] = "none"
  /\ Caller(a, "joining") /\ Worker(a, "opening")
  /\ UNCHANGED <<result, gaveUp, late>>

(* func returns or raises, whenever it likes. *)
Opened(a) ==
  /\ worker[a] = "opening" /\ Worker(a, "opened")
  /\ UNCHANGED <<caller, result, gaveUp, late>>

Failed(a) ==
  /\ worker[a] = "opening" /\ Worker(a, "failed")
  /\ UNCHANGED <<caller, result, gaveUp, late>>

(* Mutant: the worker looks at gave_up without the lock that the caller    *)
(* sets it under, and parks its value whatever it finds.                   *)
Settle_Unlocked(a) ==
  /\ \/ worker[a] = "opened" /\ result' = [result EXCEPT ![a] = "value"]
     \/ worker[a] = "failed" /\ result' = [result EXCEPT ![a] = "error"]
  /\ Worker(a, "done")
  /\ UNCHANGED <<caller, gaveUp, late>>

(* The worker decides under decision_lock. *)
Settle(a) ==
  /\ worker[a] \in {"opened", "failed"}
  /\ IF gaveUp[a]
       THEN Worker(a, IF worker[a] = "opened" THEN "late" ELSE "done") /\ UNCHANGED result
       ELSE /\ Worker(a, "done")
            /\ result' = [result EXCEPT ![a] = IF worker[a] = "opened" THEN "value" ELSE "error"]
  /\ UNCHANGED <<caller, gaveUp, late>>

(* on_late_result, on the worker thread; what it raises is swallowed. *)
HandOver(a) ==
  /\ worker[a] = "late"
  /\ Worker(a, "done") /\ late' = late \cup {a}
  /\ UNCHANGED <<caller, result, gaveUp>>

(* join returns, at the deadline or because the worker ended. *)
Joined(a) ==
  /\ caller[a] = "joining" /\ Caller(a, "joined")
  /\ UNCHANGED <<worker, result, gaveUp, late>>

(* Mutant: an interrupted wait raises at once. *)
Interrupt_Leaves(a) ==
  /\ caller[a] = "joining" /\ "join" \in Window
  /\ Caller(a, "interrupted")
  /\ UNCHANGED <<worker, result, gaveUp, late>>

(* The interrupted wait: an open still running is given up, one that has   *)
(* settled is the caller's to clean up.                                    *)
Interrupt(a) ==
  /\ caller[a] = "joining" /\ "join" \in Window
  /\ Caller(a, IF result[a] = "value" THEN "abandoning" ELSE "interrupted")
  /\ gaveUp' = [gaveUp EXCEPT ![a] = result[a] = None]
  /\ UNCHANGED <<worker, result, late>>

Abandon(a) ==
  /\ caller[a] = "abandoning"
  /\ Caller(a, "interrupted") /\ late' = late \cup {a}
  /\ UNCHANGED <<worker, result, gaveUp>>

(* Outside the try, no handler runs. *)
InterruptAfterJoin(a) ==
  /\ caller[a] = "joined" /\ "decide" \in Window
  /\ Caller(a, "interrupted")
  /\ UNCHANGED <<worker, result, gaveUp, late>>

(* The caller decides under the same lock. *)
Decide(a) ==
  /\ caller[a] = "joined"
  /\ Caller(a, CASE result[a] = "value" -> "returned" [] result[a] = "error" -> "raised" [] OTHER -> "timed out")
  /\ gaveUp' = [gaveUp EXCEPT ![a] = result[a] = None]
  /\ UNCHANGED <<worker, result, late>>

Next ==
  \E a \in Attempt :
    \/ Start(a) \/ Opened(a) \/ Failed(a) \/ Settle(a) \/ HandOver(a)
    \/ Joined(a) \/ Interrupt(a) \/ Abandon(a) \/ InterruptAfterJoin(a) \/ Decide(a)

Spec == Init /\ [][Next]_bounded

-----------------------------------------------------------------------------
Waiting(a) == caller[a] \in {"joining", "joined", "abandoning"}

(* Whom an opened device belongs to. *)
Owners(a) ==
  (IF caller[a] = "returned" THEN {"caller"} ELSE {})
  \cup (IF a \in late THEN {"late handler"} ELSE {})
  \cup (IF worker[a] \in {"opened", "late"} THEN {"worker"} ELSE {})
  \cup (IF result[a] = "value" /\ Waiting(a) THEN {"parked"} ELSE {})

Open(a) == worker[a] \in {"opened", "late"} \/ result[a] = "value" \/ a \in late

(* A device that has been opened always has exactly one owner: it is never *)
(* lost between a deadline, or an interrupted wait, and a late answer, and *)
(* never closed under a caller that got it.                                *)
SoleOwner == \A a \in Attempt : Open(a) => \E o \in Owners(a) : Owners(a) = {o}
=============================================================================
