------------------------------ MODULE Shutdown ------------------------------
(***************************************************************************)
(* shutdown.py and the entry points that end in it: how a signal reaches a *)
(* program, what each program does between the signal and the call that    *)
(* cuts servo torque, and what a second signal finds on the way.           *)
(*   "cli"  companion, headless      loop_stop_on_signals, Runtime.aclose  *)
(*   "tui"  companion, Textual       interrupt_on_signals, park            *)
(*   "mcp"  python -m palmimo_sdk.mcp  its own handlers, _park_and_close   *)
(*   "flag" a loop that polls        stop_flag_on_signals, park            *)
(***************************************************************************)
EXTENDS Naturals, Sequences, SequencesExt

CONSTANTS
  Entry,       (* the entry points explored                                *)
  MaxSignals   (* bound: signals sent in a run                             *)

ShutdownAssumption == Entry \subseteq {"cli", "tui", "mcp", "flag"} /\ MaxSignals \in Nat

VARIABLES
  entry,
  at,          (* where the main thread is                                 *)
  how,         (* [kind of signal -> its disposition]                      *)
  saved,       (* the dispositions the open context managers will restore  *)
  stop,        (* StopRequest.is_set                                       *)
  seen,        (* stop_flag_on_signals: the first signal arrived           *)
  queued,      (* loop callbacks a signal left in the ready queue          *)
  cancelled,   (* a cancellation is on its way into the main task          *)
  tearing,     (* cli: tearing_down                                        *)
  connect,     (* Palmimo.connect, on its worker thread                    *)
  torque,
  sent         (* the signals sent so far, and where each found the program *)

program == <<entry, at>>
delivery == <<how, saved, stop, seen, queued, cancelled>>
hardware == <<connect, torque>>
shutdownVars == <<program, delivery, tearing, hardware, sent>>

(* TERM stands for SIGTERM and SIGHUP. *)
Kind == {"TERM", "INT"}
Outside == [TERM |-> "kill", INT |-> "raise"]
All(d) == [k \in Kind |-> d]

Ended == {"returned", "killed"}

Init ==
  /\ entry \in Entry
  /\ at = "start" /\ how = Outside /\ saved = <<>>
  /\ stop = FALSE /\ seen = FALSE /\ queued = 0 /\ cancelled = FALSE /\ tearing = FALSE
  /\ connect = "no" /\ torque = FALSE /\ sent = <<>>

-----------------------------------------------------------------------------
Go(place) == at' = place /\ UNCHANGED entry
Install(new) == how' = new /\ saved' = Append(saved, how)
Restore == how' = Last(saved) /\ saved' = Front(saved)
Signals(k) == how' = k /\ UNCHANGED saved

(* Where a KeyboardInterrupt raised at a place ends. mcp: a probe closes   *)
(* what it was opening; the finally clause of main and _park_and_close     *)
(* have no handler of their own.                                           *)
Lands(place) ==
  CASE place = "start" -> "leaving"
    [] entry = "mcp" /\ place = "connecting" -> "closing"
    [] entry = "mcp" /\ place = "serving" -> "finally"
    [] entry \in {"tui", "flag"} /\ place \in {"connecting", "serving"} -> "finally"
    [] entry = "tui" /\ place = "finally" /\ Len(saved) = 2 -> "finally"
    [] OTHER -> "leaving"

Kill == Go("killed") /\ UNCHANGED <<how, saved>>
Raise == Go(Lands(at)) /\ UNCHANGED <<how, saved>>

(* A signal arrives. The second one a polling loop gets hands every        *)
(* disposition back and is delivered again.                                *)
Signal(k) ==
  /\ at \notin Ended /\ Len(sent) < MaxSignals
  /\ sent' = Append(sent, [kind |-> k, at |-> at])
  /\ stop' = (stop \/ how[k] \in {"interrupt", "flag"})
  /\ seen' = (seen \/ how[k] = "flag")
  /\ queued' = queued + (IF how[k] = "loop" THEN 1 ELSE 0)
  /\ CASE how[k] = "kill" -> Kill
       [] how[k] \in {"raise", "interrupt"} -> Raise
       [] how[k] = "flag" /\ seen ->
            /\ Restore
            /\ Go(IF Last(saved)[k] = "kill" THEN "killed" ELSE Lands(at))
       [] OTHER -> UNCHANGED <<entry, at, how, saved>>
  /\ UNCHANGED <<cancelled, tearing, hardware>>

(* Mutant: the teardown does not say it has begun. *)
Deliver_Unguarded ==
  /\ queued > 0 /\ at \notin Ended \cup {"leaving"}
  /\ queued' = queued - 1 /\ stop' = TRUE /\ cancelled' = TRUE
  /\ UNCHANGED <<program, how, saved, seen, tearing, hardware, sent>>

(* _deliver and cli's _stop_session, a callback of the loop. *)
Deliver ==
  /\ queued > 0 /\ at \notin Ended \cup {"leaving"}
  /\ queued' = queued - 1 /\ stop' = TRUE /\ cancelled' = (cancelled \/ ~tearing)
  /\ UNCHANGED <<program, how, saved, seen, tearing, hardware, sent>>

-----------------------------------------------------------------------------
(* Mutant: the inner context restores what was there before the program.   *)
Handlers_Single ==
  CASE entry = "cli" -> Install(All("loop"))
    [] entry = "flag" -> Install(All("flag"))
    [] OTHER -> Install([Outside EXCEPT !.TERM = "interrupt"])

(* The handlers each entry point installs. tui holds an outer ignore, so   *)
(* that its inner context restores SIG_IGN before the park.                *)
Handlers ==
  CASE entry = "cli" -> Install(All("loop"))
    [] entry = "flag" -> Install(All("flag"))
    [] entry = "mcp" -> Install([Outside EXCEPT !.TERM = "interrupt"])
    [] OTHER -> /\ how' = [Outside EXCEPT !.TERM = "interrupt"]
                /\ saved' = Append(Append(saved, how), [Outside EXCEPT !.TERM = "ignore"])

(* The finally clause; cli says so before a callback of the loop can run. *)
Teardown == Go("finally") /\ tearing' = (entry = "cli")

(* The program installs its handlers and begins to connect. *)
Begin ==
  /\ at = "start" /\ Go("connecting") /\ Handlers
  /\ connect' = "running"
  /\ UNCHANGED <<stop, seen, queued, cancelled, tearing, torque, sent>>

(* driver.connect enables torque on its way; a connect that fails releases *)
(* what it had enabled.                                                    *)
Enable ==
  /\ connect = "running" /\ ~torque /\ at # "killed"
  /\ torque' = TRUE
  /\ UNCHANGED <<program, delivery, tearing, connect, sent>>

Connects(ok) ==
  /\ connect = "running" /\ (ok => torque)
  /\ connect' = "done" /\ torque' = ok
  /\ IF at # "connecting" THEN UNCHANGED <<program, tearing>>
       ELSE IF ok THEN Go("serving") /\ UNCHANGED tearing ELSE Teardown
  /\ UNCHANGED <<delivery, sent>>

(* An interrupted probe closes what it opened. *)
CloseProbe ==
  /\ at = "closing" /\ Go("finally")
  /\ connect' = "done" /\ torque' = FALSE
  /\ UNCHANGED <<delivery, tearing, sent>>

(* The session ends: the operator leaves, stdin closes, the flag is seen   *)
(* or the cancellation is thrown into the task.                            *)
SessionEnds ==
  /\ \/ at = "serving"
     \/ at = "connecting" /\ cancelled
  /\ Teardown /\ cancelled' = FALSE
  /\ UNCHANGED <<how, saved, stop, seen, queued, hardware, sent>>

(* tui: the interrupt context is left before the finally clause parks. *)
LeaveInner ==
  /\ at = "finally" /\ entry = "tui" /\ Len(saved) = 2
  /\ Restore
  /\ UNCHANGED <<program, stop, seen, queued, cancelled, tearing, hardware, sent>>

(* A signal raises inside the restore loop of interrupt_on_signals: the    *)
(* interrupt is suppressed like any other, and what the loop had not come  *)
(* to keeps the handler that raises.                                       *)
RestoreBroken(k) ==
  /\ at = "finally" /\ entry = "tui" /\ Len(saved) = 2 /\ Len(sent) < MaxSignals
  /\ sent' = Append(sent, [kind |-> k, at |-> "restoring"])
  /\ stop' = (stop \/ how[k] = "interrupt")
  /\ saved' = Front(saved) /\ UNCHANGED how
  /\ UNCHANGED <<program, seen, queued, cancelled, tearing, hardware>>

(* signals_ignored takes hold. The clauses of mcp before it run as long as *)
(* the terminal takes to print. *)
Ignore ==
  /\ at = "finally" /\ (entry = "tui" => Len(saved) = 1)
  /\ Go("waiting") /\ Install(All("ignore"))
  /\ UNCHANGED <<stop, seen, queued, cancelled, tearing, hardware, sent>>

(* The park waits for a connect still running; a cancelled aclose never    *)
(* reaches it.                                                             *)
Park ==
  /\ at = "waiting"
  /\ \/ cancelled /\ Go("leaving") /\ Restore /\ UNCHANGED torque
     \/ ~cancelled /\ connect # "running" /\ Go("parked") /\ torque' = FALSE /\ UNCHANGED <<how, saved>>
  /\ UNCHANGED <<stop, seen, queued, cancelled, tearing, connect, sent>>

(* park leaves its ignore and the program leaves. *)
Parked ==
  /\ at = "parked" /\ Go("leaving") /\ Restore
  /\ UNCHANGED <<stop, seen, queued, cancelled, tearing, hardware, sent>>

Leave ==
  /\ at = "leaving"
  /\ IF saved = <<>> THEN Go("returned") /\ UNCHANGED <<how, saved>> ELSE UNCHANGED program /\ Restore
  /\ UNCHANGED <<stop, seen, queued, cancelled, tearing, hardware, sent>>

Next ==
  \/ \E k \in Kind : Signal(k) \/ RestoreBroken(k)
  \/ Deliver \/ Begin \/ Enable \/ (\E ok \in BOOLEAN : Connects(ok)) \/ CloseProbe
  \/ SessionEnds \/ LeaveInner \/ Ignore \/ Park \/ Parked \/ Leave

Spec == Init /\ [][Next]_shutdownVars

-----------------------------------------------------------------------------
Over == at \in Ended /\ connect # "running"

(* The signals an entry point has nothing for: the MCP server and, for     *)
(* Ctrl-C or after a signal broke a restore, the Textual companion are     *)
(* open between the end of the session and the ignore; a second signal to  *)
(* a polling loop is meant to end it.                                      *)
Gap(s) ==
  CASE entry = "cli" -> FALSE
    [] entry = "tui" -> s.at = "finally" /\ (s.kind = "INT" \/ \E i \in DOMAIN sent : sent[i].at = "restoring")
    [] entry = "mcp" -> s.at \in {"finally", "closing"}
    [] OTHER -> Len(sent) > 1

(* A stop ends with torque off: whatever signals a program gets, whenever  *)
(* and however often, outside those gaps and also while it is connecting,  *)
(* its teardown reaches the park and the park runs to its end (cli.py's    *)
(* run_cli, tui.py's run_tui, mcp/__main__.py's main, shutdown.py's park). *)
StopEndsReleased == (Over /\ ~\E s \in ToSet(sent) : Gap(s)) => ~torque

(* What mcp/__main__.py says of itself: whatever was built is parked and   *)
(* closed on a clean return and on any signal it covers.                   *)
WhateverWasBuiltIsParked == (entry = "mcp" /\ Over) => ~torque
=============================================================================
