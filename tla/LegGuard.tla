------------------------------ MODULE LegGuard ------------------------------
(* What the leg guards promise to the facade that polls them: a stop only  *)
(* under a motion that moves legs; a soft return started by a stop, never  *)
(* by the first poll of a motion and its arm nor by two polls in a row;    *)
(* and kept only under motions that leave the arm alone.                   *)
CONSTANTS Motor, Motion, Soft, ArmOf, None

VARIABLES
  softReturn,  (* the arm to be held at the soft gain, or None            *)
  scope,       (* <<motion, arm>> of the last poll, or None               *)
  verdict      (* of the last poll: "go", "stop", or "soft", a stop that  *)
               (* softens the arm                                         *)

vars == <<softReturn, scope, verdict>>

Init == softReturn = None /\ scope = None /\ verdict = "go"

Reset == softReturn' = None /\ scope' = None /\ verdict' = "go"

(* There is no driver, or none that can be read. *)
Unguarded == softReturn = None /\ verdict' = "go" /\ UNCHANGED <<softReturn, scope>>

(* The motion goes on; a soft return may go on under a soft motion.        *)
Continue(mo, arm) ==
  /\ scope' = <<mo, arm>>
  /\ softReturn' \in {None} \cup IF mo \in Soft THEN {softReturn} ELSE {}
  /\ verdict' = "go"

(* A leg or the rail trips. *)
Stop(mo, arm) ==
  /\ mo \notin Soft
  /\ scope' = <<mo, arm>>
  /\ softReturn' = None
  /\ verdict' = "stop"

(* The raised arm trips. *)
Soften(mo, arm) ==
  /\ mo \notin Soft /\ arm # {}
  /\ scope = <<mo, arm>> /\ verdict # "soft"
  /\ softReturn' = arm
  /\ verdict' = "soft"
  /\ UNCHANGED scope

EndSoftReturn == softReturn' = None /\ UNCHANGED <<scope, verdict>>

Poll(mo, arm) == Continue(mo, arm) \/ Stop(mo, arm) \/ Soften(mo, arm)

Next ==
  \/ Reset \/ Unguarded \/ EndSoftReturn
  \/ \E mo \in Motion : \E arm \in ArmOf[mo] : Poll(mo, arm)

Spec == Init /\ [][Next]_vars
=============================================================================
