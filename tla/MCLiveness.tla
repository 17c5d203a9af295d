------------------------------ MODULE MCLiveness ------------------------------
(* What must eventually happen, of five components under the fairness of   *)
(* their threads: reservations, the leg guard, the toolset's calls, the    *)
(* companion's pipeline and its vision watch.  A behaviour is about one of *)
(* them (part); the others rest, so the states are the sum of those of the *)
(* components.                                                             *)
EXTENDS Integers, TLC

CONSTANTS t1, t2, p1, p2, i1, i2, a, b, App, None

\* Either leg may be the arm of a wave.
Arms == [mo \in {"idle", "walk", "wave"} |-> IF mo = "wave" THEN {{a}, {b}} ELSE {{}}]
\* Leg b is held back; a may be at rest, under an arm's or a leg's strain.
Held == {[current |-> [m \in {a, b} |-> IF m = b THEN 1200 ELSE c], low |-> FALSE, home |-> {a, b}] : c \in {0, 700, 1200}}

VARIABLES
    part,  \* the component this behaviour is about
    resDir, resPath, resShared, resMeta, resFlock, resMutex, resHeld, resPc,
    resWant, resHandle, resFd, resWaits, resBlamed,
    legDriver, legDisabled, legSincePoll, legSinceSample, legScope,
    legArmStreak, legLegStreak, legRailStreak, legRestStrain, legRestSag,
    legSoftReturn, legSettled, legRecorded, legStopped, legOwedLegs,
    legOwedRail,
    companionCall, companionHolder, companionLine, companionRequested,
    companionAborted, companionLimp, companionInputs, companionUtterances,
    companionHearing, companionQueue, companionCancel, companionBargeIns,
    companionConductor, companionAsleep, companionReflex, companionReflexes,
    companionAsked, companionWanted, companionStale,
    visionSweeps, visionClock, visionWaking, visionSlot, visionAvailable,
    visionWorker, visionHands, visionHits, visionLastEmit, visionQueue,
    visionWatcher, visionClosed,
    cancelCount, cancelArmed, cancelMotion, cancelHolder, cancelQueue,
    cancelRequested, cancelCall, cancelKind, cancelResult, cancelWorker,
    cancelBase, cancelDue, cancelLate

Res == INSTANCE Reservation WITH Thread <- {t1, t2}, Proc <- {p1, p2},
    Home <- (t1 :> p1) @@ (t2 :> p2), Resource <- {1}, Inode <- {i1, i2},
    dir <- resDir, path <- resPath, shared <- resShared, meta <- resMeta,
    flock <- resFlock, mutex <- resMutex, held <- resHeld, pc <- resPc,
    want <- resWant, handle <- resHandle, fd <- resFd, waits <- resWaits,
    blamed <- resBlamed
ResVars == <<resDir, resPath, resShared, resMeta, resFlock, resMutex,
    resHeld, resPc, resWant, resHandle, resFd, resWaits, resBlamed>>

Leg == INSTANCE LegSafety WITH Motor <- {a, b},
    Motion <- {"idle", "walk", "wave"}, Soft <- {"idle"}, ArmOf <- Arms,
    Guards <- {"arm", "leg", "rail"}, ArmOverload <- 700,
    LegOverload <- 1200, TripAfter <- 3, RailAfter <- 6, Settle <- 2,
    Interval <- 2, Gap <- 12, Sweep <- Held, driver <- legDriver,
    disabled <- legDisabled, sincePoll <- legSincePoll,
    sinceSample <- legSinceSample, scope <- legScope,
    armStreak <- legArmStreak, legStreak <- legLegStreak,
    railStreak <- legRailStreak, restStrain <- legRestStrain,
    restSag <- legRestSag, softReturn <- legSoftReturn,
    settled <- legSettled, recorded <- legRecorded, stopped <- legStopped,
    owedLegs <- legOwedLegs, owedRail <- legOwedRail
LegVars == <<legDriver, legDisabled, legSincePoll, legSinceSample, legScope,
    legArmStreak, legLegStreak, legRailStreak, legRestStrain, legRestSag,
    legSoftReturn, legSettled, legRecorded, legStopped, legOwedLegs,
    legOwedRail>>

Companion == INSTANCE CompanionPipeline WITH Caller <- {"turn", "reflex"},
    MaxInputs <- 2, MaxReflexes <- 1, MaxPlan <- 1, QueueMax <- 1,
    FaceMayFail <- FALSE, call <- companionCall, holder <- companionHolder,
    line <- companionLine, requested <- companionRequested,
    aborted <- companionAborted, limp <- companionLimp,
    inputs <- companionInputs, utterances <- companionUtterances,
    hearing <- companionHearing, queue <- companionQueue,
    cancel <- companionCancel, bargeIns <- companionBargeIns,
    conductor <- companionConductor, asleep <- companionAsleep,
    reflex <- companionReflex, reflexes <- companionReflexes,
    asked <- companionAsked, wanted <- companionWanted,
    stale <- companionStale
CompanionVars == <<companionCall, companionHolder, companionLine,
    companionRequested, companionAborted, companionLimp, companionInputs,
    companionUtterances, companionHearing, companionQueue, companionCancel,
    companionBargeIns, companionConductor, companionAsleep, companionReflex,
    companionReflexes, companionAsked, companionWanted, companionStale>>

Vision == INSTANCE VisionWatch WITH Place <- 0..2, MoveThreshold <- 0,
    MatchMaxDist <- 2, WaveCount <- 1, ClearCount <- 2, ConsecutiveHits <- 2,
    Cooldown <- 2, MaxFrames <- 2, sweeps <- visionSweeps,
    clock <- visionClock, waking <- visionWaking, slot <- visionSlot,
    available <- visionAvailable, worker <- visionWorker,
    hands <- visionHands, hits <- visionHits, lastEmit <- visionLastEmit,
    queue <- visionQueue, watcher <- visionWatcher, closed <- visionClosed
VisionVars == <<visionSweeps, visionClock, visionWaking, visionSlot,
    visionAvailable, visionWorker, visionHands, visionHits, visionLastEmit,
    visionQueue, visionWatcher, visionClosed>>

Cancel == INSTANCE CancelScope WITH Task <- {t1, t2},
    ToolKind <- {"look", "bad"}, AppKind <- {"look"}, MaxFrames <- 1,
    MaxCancels <- 1, count <- cancelCount, armed <- cancelArmed,
    motion <- cancelMotion, holder <- cancelHolder, queue <- cancelQueue,
    requested <- cancelRequested, call <- cancelCall, kind <- cancelKind,
    result <- cancelResult, worker <- cancelWorker, base <- cancelBase,
    due <- cancelDue, late <- cancelLate
CancelVars == <<cancelCount, cancelArmed, cancelMotion, cancelHolder,
    cancelQueue, cancelRequested, cancelCall, cancelKind, cancelResult,
    cancelWorker, cancelBase, cancelDue, cancelLate>>

ASSUME CompanionConstants == Companion!CompanionAssumption
ASSUME VisionConstants == Vision!VisionWatchAssumption

\* The other components stay as they are.
Others(p) ==
    /\ (p # "reservation") => UNCHANGED ResVars
    /\ (p # "legs") => UNCHANGED LegVars
    /\ (p # "companion") => UNCHANGED CompanionVars
    /\ (p # "vision") => UNCHANGED VisionVars
    /\ (p # "cancel") => UNCHANGED CancelVars

Init ==
    /\ part \in {"reservation", "legs", "companion", "vision", "cancel"}
    /\ Res!Init /\ Leg!Init /\ Companion!Init /\ Vision!Init
    /\ Cancel!Init
    /\ (part # "vision") => visionSweeps = FALSE

Next ==
    \/ part = "reservation" /\ Res!Next /\ Others("reservation") /\ part' = part
    \/ part = "legs" /\ Leg!Next /\ Others("legs") /\ part' = part
    \/ part = "companion" /\ Companion!Next /\ Others("companion") /\ part' = part
    \/ part = "vision" /\ Vision!Next /\ Others("vision") /\ part' = part
    \/ part = "cancel" /\ Cancel!Next /\ Others("cancel") /\ part' = part

vars == <<part, ResVars, LegVars, CompanionVars, VisionVars, CancelVars>>

Spec == Init /\ [][Next]_vars

------------------------------------------------------------------------------
(* Each thread goes on, a deadline expires, frames are ticked and judged,  *)
(* the companion's turns and calls go on, and so do the threads of the     *)
(* watch; the event loop serves each of its ready callbacks in turn.  No   *)
(* fault, no input, no cancel and no interruption is owed to anyone.       *)
FairSpec ==
    /\ Spec
    /\ \A t \in {t1, t2} : /\ WF_ResVars(part = "reservation" /\ Res!Progress(t))
                           /\ WF_ResVars(part = "reservation" /\ Res!Expire(t))
    /\ WF_LegVars(part = "legs" /\ Leg!Tick) /\ WF_LegVars(part = "legs" /\ Leg!Judges)
    /\ WF_CompanionVars(part = "companion" /\ Companion!Converses)
    /\ WF_CompanionVars(part = "companion" /\ Companion!Serves)
    /\ WF_VisionVars(part = "vision" /\ Vision!Takes) /\ WF_VisionVars(part = "vision" /\ Vision!WorkerEnds)
    /\ WF_VisionVars(part = "vision" /\ Vision!Runs) /\ WF_VisionVars(part = "vision" /\ Vision!Gets)
    /\ WF_VisionVars(part = "vision" /\ Vision!Resumes)
    /\ WF_CancelVars(part = "cancel" /\ (Cancel!Drive(App) \/ Cancel!DirectReturns))
    /\ \A t \in {t1, t2} : /\ WF_CancelVars(part = "cancel" /\ Cancel!Drive(t))
                           /\ SF_CancelVars(part = "cancel" /\ Cancel!Serve(t))

(* Every wait ends: a call for reservations gets them, gives up or raises, *)
(* with other processes contending, releasing and dying (reservation.py);  *)
(* every tool call returns, cancelled or not (agent/toolset.py); aclose()  *)
(* ends the watch and its worker wherever they are (vision.py).            *)
EveryCallEnds == Res!EveryCallEnds /\ Cancel!EveryCallReturns /\ Vision!CloseEndsTheWatch

(* A leg that stays held back stops the motion, and a soft return ends     *)
(* when its arm comes home (leg_safety.py, robot.py's step).               *)
HeldLegIsStopped == Leg!HeldLegIsStopped /\ Leg!SoftReturnEnds

(* Every directed input reaches a respond turn, whatever is playing        *)
(* (conductor.py, bus.py).                                                 *)
DirectedIsAnswered == Companion!DirectedIsAnswered
==============================================================================
