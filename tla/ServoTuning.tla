---------------------------- MODULE ServoTuning ----------------------------
(***************************************************************************)
(* The servo RAM that the facade (robot.py) writes: the gain and profile   *)
(* of each joint under gestures, the soft return of an overloaded arm,     *)
(* wake, sleep, limp, the dance's hold and set_p_gain.  The calls block    *)
(* one thread; what a call has left to do is todo.                         *)
(***************************************************************************)
EXTENDS Integers, Sequences

CONSTANTS
  Leg, Neck,    (* the servos                                              *)
  Motion,       (* the engine's motions                                    *)
  ArmOf,        (* the sets of legs that may be the arm of a motion        *)
  Drivers,      (* the drivers there are, each the set of what it can      *)
                (* write: "gain", "pv", "iir"                              *)
  MayLimp,      (* the sets of joints a caller passes to limp()            *)
  MaxFaults,    (* bound: writes that fail in one connection               *)
  None

Joint == Leg \cup Neck
NeckGesture == {"nod", "head_shake"}         (* NECK_GESTURES              *)
Soft == {"idle"} \cup NeckGesture            (* _SOFT_RETURN_MOTIONS       *)
Wave == {"wave", "wave_both", "clap"}

ConstantsAssumption ==
  /\ Leg \cap Neck = {}
  /\ "idle" \in Motion
  /\ ArmOf \in [Motion -> SUBSET SUBSET Leg]
  /\ \A m \in Motion \cap Soft : ArmOf[m] = {{}}
  /\ Drivers \subseteq SUBSET {"gain", "pv", "iir"}
  /\ MayLimp \subseteq SUBSET Joint
  /\ MaxFaults \in Nat
  /\ None \notin (Motion \X SUBSET Leg) \cup ({"wave", "stretch", "soft"} \X SUBSET Leg)

(* Position_P_Gain by rank: limp (or the end of the neck's ladder), soft   *)
(* return, rest (ends of ramps, dance hold), the servo's own and the wave. *)
ZeroGain == 0
SoftGain == 1
RestGain == 2
OwnGain == 3
WaveGain == 4

VARIABLES
  caps,         (* what the robot's driver can write                       *)
  motion, arm,  (* the engine's motion and the legs that are its arm       *)
  locked,       (* neck_lock_active                                        *)
  softReturn, scope, verdict,   (* the leg guards: see LegGuard            *)
  tuned,        (* _gesture_tuned: None or <<kind, arm>>                   *)
  neckTuned,    (* _neck_gesture_tuned                                     *)
  ram,          (* each servo's gain and profile ("own", "fast", "stretch")*)
  cut,          (* axes whose torque has been cut                          *)
  limpLeft,     (* _limp_left: joints a failed limp exit left limp         *)
  limp,         (* the joints of the limp block that is open               *)
  todo          (* the stages the running call has left                    *)

(* History: joints released by limp and not held again since; axes that    *)
(* could be neither softened nor cut; failed writes of this connection;    *)
(* whether sleep has let the neck down; whether the caller has set the     *)
(* gain since the tuning last changed or an arm tripped.                   *)
VARIABLES unheld, asIs, faults, asleep, overridden

guard == <<softReturn, scope, verdict>>
engine == <<motion, arm>>
tuning == <<tuned, neckTuned>>
limping == <<limpLeft, limp, unheld>>
torque == <<cut, asIs>>
vars == <<caps, engine, locked, guard, tuning, ram, torque, limping, todo, faults, asleep, overridden>>

G == INSTANCE LegGuard WITH Motor <- Leg

Own == [gain |-> [j \in Joint |-> OwnGain], pv |-> [j \in Joint |-> "own"]]

Init ==
  /\ caps \in Drivers
  /\ motion = "idle" /\ arm = {}
  /\ locked = FALSE
  /\ G!Init
  /\ tuned = None /\ neckTuned = FALSE
  /\ ram = Own
  /\ cut = {} /\ asIs = {}
  /\ limpLeft = {} /\ limp = {} /\ unheld = {}
  /\ todo = <<>>
  /\ faults = 0 /\ asleep = FALSE /\ overridden = FALSE

Free == todo = <<>>
At(stage) == todo # <<>> /\ Head(todo) = stage
Idled == motion' = "idle" /\ arm' = {}

----------------------------------------------------------------------------
(* Writes.  One to every joint is a single packet; one to some joints goes *)
(* joint by joint and may fail after any of them, the answer lost or not.  *)

Raw(reg, on, val) == [reg |-> reg, on |-> on, val |-> val, whole |-> on = Joint]
Pv(on, val) == Raw("pv", on, val)

(* Mutant: the joints left limp are written too. *)
Gain_Everywhere(on, val) == Raw("gain", on, val)

(* _write_gain skips the joints that were left limp. *)
Gain(on, val) == Raw("gain", on \ limpLeft, val)

(* The first k writes of ws are done, and the next one on the joints d.    *)
Ran(r, ws, k, d) ==
  LET done(reg, j) == {i \in 1..Len(ws) : /\ ws[i].reg = reg
                                         /\ \/ i <= k /\ j \in ws[i].on
                                            \/ i = k + 1 /\ j \in d}
      last(reg, j) == LET S == done(reg, j) IN
        IF S = {} THEN r[reg][j] ELSE ws[CHOOSE i \in S : \A n \in S : n <= i].val
  IN [gain |-> [j \in Joint |-> last("gain", j)], pv |-> [j \in Joint |-> last("pv", j)]]

Outcomes(r, ws) ==
  {[ram |-> Ran(r, ws, Len(ws), {}), failed |-> 0]} \cup
  UNION {{[ram |-> Ran(r, ws, k, d), failed |-> 1] :
            d \in IF ws[k + 1].whole THEN {{}} ELSE SUBSET ws[k + 1].on} :
         k \in {i \in 0..(Len(ws) - 1) : ws[i + 1].on # {}}}

Fail(n) == faults' = faults + n /\ faults' <= MaxFaults

GainWrites(ws) == IF "gain" \in caps THEN ws ELSE <<>>

----------------------------------------------------------------------------
(* _sync_gesture_tuning and _sync_neck_gesture_tuning *)

(* Mutant: the wanted state knows no soft return. *)
Want_NoSoftReturn(soft) ==
  IF motion \in Wave /\ arm # {} /\ caps = {"gain", "pv", "iir"} THEN <<"wave", arm>>
  ELSE IF motion = "stretch" /\ "pv" \in caps THEN <<"stretch", {}>>
  ELSE None

Want(soft) ==
  IF motion \in Wave /\ arm # {} /\ caps = {"gain", "pv", "iir"} THEN <<"wave", arm>>
  ELSE IF motion = "stretch" /\ "pv" \in caps THEN <<"stretch", {}>>
  ELSE IF soft # None THEN <<"soft", soft>>
  ELSE None

(* Mutant: leaving a wave restores the gain only. *)
Release_GainOnly(t) ==
  IF t = None \/ t[1] = "stretch" THEN <<>> ELSE <<Gain(IF t[1] = "soft" THEN t[2] ELSE Joint, OwnGain)>>

Release(t) ==
  IF t = None THEN <<>>
  ELSE IF t[1] = "soft" THEN <<Gain(t[2], OwnGain)>>
  ELSE IF t[1] = "wave" THEN <<Gain(Joint, OwnGain), Pv(Joint, "own")>>
  ELSE <<Pv(Joint, "own")>>

Apply(t) ==
  IF t = None THEN <<>>
  ELSE IF t[1] = "soft" THEN <<Gain(t[2], SoftGain)>>
  ELSE IF t[1] = "wave" THEN <<Pv(Joint, "own"), Pv(t[2], "fast"), Gain(Joint, WaveGain)>>
  ELSE <<Pv(Joint, "stretch")>>

IsSoft(t) == t # None /\ t[1] = "soft"

(* Mutant: an arm that cannot be softened is given up and left as it is. *)
CutTorque_Abandons(axes, n) ==
  /\ softReturn' = None /\ UNCHANGED <<scope, verdict, torque>>
  /\ Fail(n)

(* _cut_arm_torque tries every axis.  Its failures are counted in n.       *)
CutTorque(axes, n) ==
  \E c \in SUBSET axes :
    /\ softReturn' = None /\ UNCHANGED <<scope, verdict>>
    /\ cut' = cut \cup c /\ asIs' = asIs \cup (axes \ c)
    /\ Fail(n + IF c = axes THEN 0 ELSE 1)

Sync ==
  LET soft == IF motion \in Soft THEN softReturn ELSE None
      unable == soft # None /\ "gain" \notin caps
      want == Want(IF unable THEN None ELSE soft)
      same == want = tuned
  IN
  /\ At("sync") /\ todo' = Tail(todo)
  /\ \E r \in Outcomes(ram, IF same THEN <<>> ELSE Release(tuned)) :
     \E a \in Outcomes(r.ram, IF same THEN <<>> ELSE Apply(want)) :
       LET refused == IsSoft(want) /\ a.failed > 0 IN
       /\ ram' = a.ram
       /\ tuned' = IF refused THEN None ELSE want
       /\ IF unable \/ refused THEN CutTorque(soft, r.failed + a.failed)
          ELSE Fail(r.failed + a.failed) /\ UNCHANGED <<guard, torque>>
  /\ overridden' = (overridden /\ same)
  /\ UNCHANGED <<engine, locked, neckTuned, limping, asleep>>

(* Unlike the legs' tuning, the neck's is tried again until it is written. *)
SyncNeck ==
  LET active == motion \in NeckGesture
      due == "pv" \in caps /\ active # neckTuned
  IN
  /\ At("neck") /\ todo' = Tail(todo)
  /\ \E w \in Outcomes(ram, IF due THEN <<Pv(Neck, IF active THEN "fast" ELSE "own")>> ELSE <<>>) :
       /\ ram' = w.ram /\ Fail(w.failed)
       /\ neckTuned' = IF due /\ w.failed = 0 THEN active ELSE neckTuned
  /\ UNCHANGED <<engine, locked, guard, tuned, torque, limping, asleep, overridden>>

----------------------------------------------------------------------------
(* Calls *)

(* Mutant: a gesture that is refused still sets the arm. *)
SetMotion_KeepsArm(mo, ar) ==
  /\ Free
  /\ motion' = IF mo \in NeckGesture /\ locked THEN "idle" ELSE mo
  /\ arm' \in {ar, arm}
  /\ UNCHANGED <<locked, guard, tuning, ram, torque, limping, todo, faults, asleep, overridden>>

(* set_motion and the motion commands: a locked neck makes no gesture. *)
SetMotion(mo, ar) ==
  LET applied == ~(mo \in NeckGesture /\ locked) IN
  /\ Free
  /\ motion' = IF applied THEN mo ELSE "idle"
  /\ arm' = IF applied THEN ar ELSE {}
  /\ UNCHANGED <<locked, guard, tuning, ram, torque, limping, todo, faults, asleep, overridden>>

(* step: the guards are polled, a trip stops the motion, and the tuning    *)
(* follows it.  return_to_neutral steps until the pose has settled.        *)
Step ==
  /\ Free \/ At("settle")
  /\ locked' \in BOOLEAN
  /\ G!Unguarded \/ G!Poll(motion, arm)
  /\ IF verdict' = "go" THEN UNCHANGED engine ELSE Idled
  /\ asleep' = (asleep /\ motion \in Soft)
  /\ overridden' = (overridden /\ verdict' # "soft")
  /\ todo' = <<"sync", "neck">> \o todo
  /\ UNCHANGED <<tuning, ram, torque, limping, faults>>

ReturnToNeutral ==
  /\ Free /\ Idled
  /\ todo' \in {<<"sync", "neck">>, <<"sync", "neck", "settle">>}
  /\ UNCHANGED <<locked, guard, tuning, ram, torque, limping, faults, asleep, overridden>>

(* The pose has settled, or a frame raises and ends the call. *)
Settled ==
  /\ At("settle") /\ todo' \in {Tail(todo), <<>>}
  /\ UNCHANGED <<engine, locked, guard, tuning, ram, torque, limping, faults, asleep, overridden>>

(* wake: a motor whose position is not read ends it before any write.  The *)
(* neck is firm from the start, the legs are ramped up.                    *)
Wake ==
  /\ Free /\ Idled
  /\ G!EndSoftReturn
  /\ asleep' = FALSE
  /\ \/ UNCHANGED <<ram, faults>>
     \/ \E n \in Outcomes(ram, GainWrites(<<Gain(Neck, OwnGain)>>)) :
        \E l \in Outcomes(n.ram, GainWrites(<<Gain(Leg, RestGain), Gain(Leg, OwnGain), Gain(Joint, OwnGain)>>)) :
          ram' = l.ram /\ Fail(n.failed + l.failed)
  /\ UNCHANGED <<locked, tuning, torque, limping, todo, overridden>>

(* Mutant: sleep leaves the gesture's tuning to the next step. *)
Sleep_NoSync ==
  /\ Free /\ Idled
  /\ todo' = IF locked THEN <<"sync", "neck", "settle", "park">> ELSE <<"ramp", "park">>
  /\ UNCHANGED <<locked, guard, tuning, ram, torque, limping, faults, asleep, overridden>>

(* sleep: a locked neck is let down at once, after the legs have settled. *)
Sleep ==
  /\ Free /\ Idled
  /\ todo' = <<"sync", "neck", IF locked THEN "settle" ELSE "ramp", "park">>
  /\ UNCHANGED <<locked, guard, tuning, ram, torque, limping, faults, asleep, overridden>>

(* Where the ramp of the firm legs starts: the highest of their gains, or  *)
(* the full gain when none is read.                                        *)
RampStarts(firm) ==
  LET gains == {ram.gain[j] : j \in firm}
      highest == {g \in gains : \A h \in gains : h <= g}
  IN {OwnGain} \cup {IF g > OwnGain THEN OwnGain ELSE g : g \in highest}

(* Mutant: the soft-returning arm ramps with the other legs. *)
SoftArm_Firm == {}

(* _take_soft_return: the axes still at the soft gain. *)
SoftArm == IF IsSoft(tuned) THEN tuned[2] ELSE {}

Ramp ==
  LET firm == Leg \ SoftArm IN
  /\ At("ramp") /\ todo' = Tail(todo)
  /\ G!EndSoftReturn
  /\ tuned' = IF IsSoft(tuned) THEN None ELSE tuned
  /\ \E start \in RampStarts(firm) :
     \E w \in Outcomes(ram, GainWrites(<<Gain(firm, start), Gain(SoftArm, SoftGain),
                                         Gain(firm, RestGain), Gain(SoftArm, RestGain)>>)) :
       ram' = w.ram /\ Fail(w.failed)
  /\ UNCHANGED <<engine, locked, neckTuned, torque, limping, asleep, overridden>>

(* _park_neck: an axis left limp is held where it is, if it can be read,   *)
(* and then let down with the others.                                      *)
Park ==
  LET left == Neck \cap limpLeft IN
  /\ At("park") /\ todo' = Tail(todo)
  /\ \E found \in IF "gain" \in caps THEN SUBSET left ELSE {{}} :
     LET neck == Neck \ (limpLeft \ found) IN
     \E w \in Outcomes(ram, GainWrites(<<Raw("gain", neck, RestGain), Raw("gain", neck, ZeroGain)>>)) :
       /\ limpLeft' = limpLeft \ found
       /\ unheld' = unheld \ found
       /\ ram' = w.ram /\ Fail(w.failed)
  /\ asleep' = TRUE
  /\ UNCHANGED <<engine, locked, guard, tuning, torque, limp, overridden>>

(* limp: the joints of the block are held where they are, then released.   *)
Limp(names) ==
  /\ Free /\ "gain" \in caps /\ names # {}
  /\ Idled
  /\ limp' = names
  /\ todo' = <<"sync", "neck", "hold", "restore">>
  /\ UNCHANGED <<locked, guard, tuning, ram, torque, limpLeft, unheld, faults, asleep, overridden>>

(* A pose that is not read ends the call; a write that fails, the block.   *)
Hold ==
  /\ At("hold")
  /\ asleep' = FALSE
  /\ \/ /\ todo' = <<>> /\ limp' = {}
        /\ UNCHANGED <<ram, unheld, faults>>
     \/ /\ todo' = Tail(todo)
        /\ \E w \in Outcomes(ram, <<Raw("gain", limp, ZeroGain)>>) : ram' = w.ram /\ Fail(w.failed)
        /\ unheld' = unheld \cup limp
        /\ UNCHANGED limp
  /\ UNCHANGED <<engine, locked, guard, tuning, torque, limpLeft, overridden>>

(* _restore_from_limp: the profile goes off for the hold and comes back.   *)
(* Where it cannot be switched off, or a pose is not read, nothing is held.*)
Profile(answered) == IF "pv" \in caps THEN <<Pv(answered, "fast")>> ELSE <<>>
ProfileBack(answered) == IF "pv" \in caps THEN <<Pv(answered, "own")>> ELSE <<>>

Restore(answered, holds) ==
  LET write == IF holds THEN <<Raw("gain", answered, OwnGain)>> ELSE <<>> IN
  \E p \in Outcomes(ram, Profile(answered)) :
  \E g \in IF p.failed = 0 THEN Outcomes(p.ram, write) ELSE {p} :
  \E b \in Outcomes(g.ram, ProfileBack(answered)) :
    /\ ram' = b.ram
    /\ unheld' = IF p.failed = 0 /\ holds THEN unheld \ answered ELSE unheld
    /\ limpLeft' = IF g.failed = 0 /\ holds THEN (limpLeft \cup limp) \ answered ELSE limpLeft \cup limp
    /\ Fail(g.failed + b.failed)

(* _exit_limp: the joints that answer are restored, the others left limp. *)
ExitLimp ==
  /\ At("restore") /\ todo' = Tail(todo)
  /\ limp' = {}
  /\ \E answered \in SUBSET limp, holds \in BOOLEAN : Restore(answered, holds)
  /\ UNCHANGED <<engine, locked, guard, tuning, torque, asleep, overridden>>

(* set_p_gain writes every joint: a gain of the caller's, or the defaults. *)
SetPGain(g) ==
  /\ Free
  /\ asleep' = FALSE /\ overridden' = TRUE
  /\ \E w \in Outcomes(ram, GainWrites(<<Gain(Joint, g)>>)) : ram' = w.ram /\ Fail(w.failed)
  /\ UNCHANGED <<engine, locked, guard, tuning, torque, limping, todo>>

(* _dance_end_hold: the legs are softened for a while. *)
DanceEndHold ==
  /\ Free /\ motion = "dance" /\ tuned = None
  /\ asleep' = FALSE
  /\ \E w \in Outcomes(ram, GainWrites(<<Gain(Leg, RestGain)>>)) :
     \E b \in Outcomes(w.ram, GainWrites(<<Gain(Joint, OwnGain)>>)) :
       ram' = b.ram /\ Fail(w.failed + b.failed)
  /\ UNCHANGED <<engine, locked, guard, tuning, torque, limping, todo, overridden>>

(* connect, after a disconnect: the driver writes its defaults. *)
Connect ==
  /\ Free
  /\ locked' = FALSE /\ G!Reset
  /\ tuned' = None /\ neckTuned' = FALSE
  /\ ram' = Own
  /\ cut' = {} /\ asIs' = {}
  /\ limpLeft' = {} /\ limp' = {} /\ unheld' = {}
  /\ faults' = 0 /\ asleep' = FALSE /\ overridden' = FALSE
  /\ UNCHANGED <<engine, todo>>

Call ==
  \/ \E mo \in Motion : \E ar \in ArmOf[mo] : SetMotion(mo, ar)
  \/ Step \/ Sync \/ SyncNeck
  \/ ReturnToNeutral \/ Settled
  \/ Wake
  \/ Sleep \/ Ramp \/ Park
  \/ \E names \in MayLimp : Limp(names)
  \/ Hold \/ ExitLimp
  \/ \E g \in {RestGain, OwnGain} : SetPGain(g)
  \/ DanceEndHold
  \/ Connect

(* A robot keeps its driver. *)
Next == Call /\ UNCHANGED caps

Spec == Init /\ [][Next]_vars

----------------------------------------------------------------------------
(* Properties *)

Stages == {"sync", "neck", "settle", "ramp", "park", "hold", "restore"}

TypeOK ==
  /\ caps \in Drivers
  /\ motion \in Motion /\ arm \in ArmOf[motion]
  /\ locked \in BOOLEAN
  /\ softReturn \in (SUBSET Leg) \cup {None}
  /\ scope \in (Motion \X SUBSET Leg) \cup {None}
  /\ verdict \in {"go", "stop", "soft"}
  /\ tuned \in ({"wave", "stretch", "soft"} \X SUBSET Leg) \cup {None}
  /\ neckTuned \in BOOLEAN
  /\ ram \in [gain : [Joint -> ZeroGain..WaveGain], pv : [Joint -> {"own", "fast", "stretch"}]]
  /\ cut \subseteq Leg /\ asIs \subseteq Leg
  /\ limpLeft \subseteq Joint /\ limp \subseteq Joint /\ unheld \subseteq Joint
  /\ todo \in Seq(Stages)
  /\ faults \in 0..MaxFaults
  /\ asleep \in BOOLEAN /\ overridden \in BOOLEAN

(* An arm whose strain has stopped a motion yields once the tuning has     *)
(* followed, whatever was tuned before: each axis is soft, limp or cut,    *)
(* unless the driver refused both to soften and to cut it.                 *)
TrippedArmYields ==
  At("sync") /\ softReturn # None /\ ~overridden =>
    \A j \in softReturn : ram'.gain[j] <= SoftGain \/ j \in limpLeft \cup cut' \cup asIs'

(* api-reference.md: "the three arm axes are held at Position_P_Gain 100"  *)
(* as long as the soft return lasts, unless the caller sets the gain.      *)
SoftReturnKeepsArmSoft ==
  Free /\ softReturn # None /\ ~overridden => \A j \in softReturn : ram.gain[j] <= SoftGain

(* Where no write has failed, no gesture leaves anything behind in a servo *)
(* once it is released, in whatever order gestures, limp, sleep and wake   *)
(* come.                                                                   *)
TuningLeavesNoTrace ==
  faults = 0 =>
    \A j \in Joint :
      /\ ram.gain[j] = WaveGain => tuned # None /\ tuned[1] = "wave"
      /\ ram.gain[j] = SoftGain => IsSoft(tuned) /\ j \in tuned[2]
      /\ ram.pv[j] = "stretch" => tuned # None /\ tuned[1] = "stretch"
      /\ ram.pv[j] = "fast" =>
           \/ neckTuned /\ j \in Neck
           \/ tuned # None /\ tuned[1] = "wave" /\ j \in tuned[2]

(* A joint that a hand has moved is not stiffened before it is held where  *)
(* the hand left it: later gains skip the joints left limp.                *)
NoJointSnaps ==
  \A j \in unheld : ram'.gain[j] > ram.gain[j] => j \notin unheld'

(* sleep's comment on releasing the tuning first: no step while asleep     *)
(* raises the gain of the neck that sleep has let down, until a motion     *)
(* that moves the legs.                                                    *)
SleepingNeckStaysDown ==
  At("sync") /\ asleep => \A j \in Neck : ram'.gain[j] <= ram.gain[j]

(* sleep eases an arm that is held at the soft gain up to the rest gain    *)
(* and never stiffens it with the other legs, even if a write fails.       *)
HeldArmIsEased ==
  At("ramp") /\ IsSoft(tuned) =>
    \A j \in tuned[2] : ram.gain[j] <= SoftGain => ram'.gain[j] <= RestGain

(* api-reference.md: "sleep() ends it too" of the soft return. *)
SleepEndsSoftReturn == asleep => softReturn = None

(* end_soft_return: "the next gesture sync restores the arm's gain", where *)
(* the torque has not been cut and the robot is not asleep.                *)
ReleasedArmIsFirm ==
  Free /\ tuned = None /\ ~asleep => \A j \in Leg \ (cut \cup asIs) : ram.gain[j] # SoftGain
=============================================================================
