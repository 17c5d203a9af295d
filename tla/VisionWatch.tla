------------------------------ MODULE VisionWatch ------------------------------
(***************************************************************************)
(* VisionWatch of the companion: the camera's drain thread leaves each     *)
(* frame in a slot, a worker thread takes the latest one, runs every       *)
(* detector on it and hands what passes the cooldown to the event loop,    *)
(* where watch() yields it.  aclose() ends watch() and the worker.  The    *)
(* detectors are a palm that reverses its direction, followed from frame   *)
(* to frame, and a face that must be there in consecutive frames.          *)
(***************************************************************************)
EXTENDS Integers, Sequences

CONSTANTS
    Place,         \* where a palm may be seen, left to right
    MoveThreshold, \* _MOVE_THRESHOLD
    MatchMaxDist,  \* _MATCH_MAX_DIST
    WaveCount,     \* _WAVE_COUNT
    ClearCount,    \* _CLEAR_COUNT
    ConsecutiveHits, \* FacePresenceDetector's consecutive_hits
    Cooldown,      \* cooldown_seconds, in frames
    MaxFrames,     \* bound: frames of a run
    None           \* no frame, no palm, nothing

VisionWatchAssumption ==
    /\ Place \subseteq Nat
    /\ {MoveThreshold, MatchMaxDist, ClearCount, ConsecutiveHits, Cooldown, MaxFrames} \subseteq Nat
    /\ WaveCount \in Nat \ {0}
    /\ None \notin Int \cup [time : Nat, palm : Place \cup {None}, face : BOOLEAN]

VARIABLES
    sweeps,    \* whether every palm in view only moves to the right
    clock,     \* the time of the camera's latest frame
    waking,    \* the drain thread is between the slot and the event
    slot,      \* _latest_frame
    available, \* _frame_available
    worker,    \* the worker thread: [pc, item], the frame it took last
    hands,     \* WaveDetector._hands, each by the time it was first seen, which is
               \* their order: [x, last, direction, waves, lost, waved]
    hits,      \* FacePresenceDetector._hits
    lastEmit,  \* _last_emit, by kind
    queue,     \* the queue of watch(): detections and the sentinel None
    watcher,   \* where watch() stands
    closed     \* _closed, and with it _worker_stop

vars == <<sweeps, clock, waking, slot, available, worker, hands, hits, lastEmit, queue, watcher, closed>>

Kind == {"wave", "face"}

Init ==
    /\ sweeps \in BOOLEAN
    /\ clock = 0 /\ waking = FALSE /\ slot = None /\ available = FALSE
    /\ worker = [pc |-> "off", item |-> None] /\ hands = <<>> /\ hits = 0
    /\ lastEmit = [k \in Kind |-> None]
    /\ queue = <<>> /\ watcher = "none" /\ closed = FALSE

Distance(a, b) == IF a < b THEN b - a ELSE a - b

----------------------------------------------------------------------------
(* The drain thread *)

\* Mutant: a notification only a waiting worker hears.
Signalled_Forgets == available' = (available \/ worker.pc = "waiting")
Signalled == available' = TRUE

\* _on_frame: the frame is left in the slot; a closed watch takes no more.
Arrives ==
    /\ watcher # "none" /\ ~waking /\ clock < MaxFrames /\ ~closed
    /\ clock' = clock + 1 /\ waking' = TRUE
    /\ \E palm \in Place \cup {None}, face \in BOOLEAN :
         /\ (sweeps /\ palm # None) => \A i \in DOMAIN hands : hands[i].x <= palm
         /\ (sweeps /\ palm # None /\ slot # None) => (slot.palm # None => slot.palm <= palm)
         /\ (sweeps /\ palm # None /\ worker.pc = "running") => (worker.item.palm # None => worker.item.palm <= palm)
         /\ slot' = [time |-> clock + 1, palm |-> palm, face |-> face]
    /\ UNCHANGED <<sweeps, available, worker, hands, hits, lastEmit, queue, watcher, closed>>

\* The event is set after the lock is released.
Wakes ==
    /\ waking /\ waking' = FALSE
    /\ Signalled
    /\ UNCHANGED <<sweeps, clock, slot, worker, hands, hits, lastEmit, queue, watcher, closed>>

----------------------------------------------------------------------------
(* The worker thread: _process_loop *)

\* Mutant: the frame taken stays in the slot.
Taken_Stays == slot' = slot
Taken == slot' = None

\* The slot is emptied and the event cleared under the lock; an event without
\* a frame sends the worker back to its wait.
Takes ==
    /\ worker.pc = "waiting" /\ available
    /\ Taken /\ available' = FALSE
    /\ worker' = IF slot = None THEN worker ELSE [pc |-> "running", item |-> slot]
    /\ UNCHANGED <<sweeps, clock, waking, hands, hits, lastEmit, queue, watcher, closed>>

WorkerEnds ==
    /\ worker.pc = "waiting" /\ closed
    /\ worker' = [pc |-> "ended", item |-> None]
    /\ UNCHANGED <<sweeps, clock, waking, slot, available, hands, hits, lastEmit, queue, watcher, closed>>

\* Mutant: any swing counts as a reversal.
Reverses_Always(hand, way) == hand.direction # 0
Reverses(hand, way) == hand.direction # 0 /\ way # hand.direction

\* _ReversalWaveJudge.update: a swing beyond the threshold against the previous
\* one is a reversal, enough of them are a wave and start the count anew.
Judged(hand, x) ==
    LET swung == hand.last # None /\ Distance(x, hand.last) > MoveThreshold
        way == IF x > hand.last THEN 1 ELSE 0 - 1
        waves == IF swung /\ Reverses(hand, way) THEN hand.waves + 1 ELSE hand.waves
    IN IF waves >= WaveCount
       THEN [x |-> x, last |-> None, direction |-> 0, waves |-> 0, lost |-> 0, waved |-> TRUE]
       ELSE [x |-> x, last |-> x, direction |-> IF swung THEN way ELSE hand.direction,
             waves |-> waves, lost |-> 0, waved |-> FALSE]
NewHand(x) == [x |-> x, last |-> None, direction |-> 0, waves |-> 0, lost |-> 0, waved |-> FALSE]
Missed(hand) == [hand EXCEPT !.lost = @ + 1, !.waved = FALSE]

\* _match_track: the nearest hand within the matching distance, the first of equals.
Near(x) == {i \in DOMAIN hands : Distance(hands[i].x, x) < MatchMaxDist}
Nearest(x) == CHOOSE i \in Near(x) : \A j \in Near(x) :
                  \/ Distance(hands[i].x, x) < Distance(hands[j].x, x)
                  \/ Distance(hands[i].x, x) = Distance(hands[j].x, x) /\ i <= j

\* WaveDetector._update for the palm of a frame: its hand is judged, or it is a
\* new hand; the others were missed, and one missed too often is forgotten.
Tracked(it) ==
    LET mine == IF it.palm = None THEN None ELSE IF Near(it.palm) = {} THEN it.time ELSE Nearest(it.palm)
        seen == IF mine = None THEN DOMAIN hands ELSE DOMAIN hands \cup {mine}
        now == [h \in seen |-> IF h # mine THEN Missed(hands[h])
                               ELSE Judged(IF h \in DOMAIN hands THEN hands[h] ELSE NewHand(it.palm), it.palm)]
    IN [h \in {g \in seen : now[g].lost < ClearCount} |-> now[h]]

\* FacePresenceDetector.process.
Hits(face) == IF ~face \/ hits + 1 >= ConsecutiveHits THEN 0 ELSE hits + 1

\* _run_detectors: a detector that raises is passed over, a detection within
\* the cooldown of the last of its kind is dropped, the others are queued.
Runs ==
    /\ worker.pc = "running"
    /\ \E raises \in SUBSET Kind :
         LET it == worker.item
             tracked == Tracked(it)
             waved == "wave" \notin raises /\ \E i \in DOMAIN tracked : tracked[i].waved
             faced == "face" \notin raises /\ it.face /\ hits + 1 >= ConsecutiveHits
             Due(k) == lastEmit[k] = None \/ it.time - lastEmit[k] >= Cooldown
             emits == {k \in Kind : Due(k) /\ IF k = "wave" THEN waved ELSE faced}
         IN /\ hands' = IF "wave" \in raises THEN hands
                        ELSE [i \in DOMAIN tracked |-> [tracked[i] EXCEPT !.waved = FALSE]]
            /\ hits' = IF "face" \in raises THEN hits ELSE Hits(it.face)
            /\ lastEmit' = [k \in Kind |-> IF k \in emits THEN it.time ELSE lastEmit[k]]
            /\ queue' = queue \o SelectSeq(<<"wave", "face">>, LAMBDA k : k \in emits)
    /\ worker' = [worker EXCEPT !.pc = "waiting"]
    /\ UNCHANGED <<sweeps, clock, waking, slot, available, watcher, closed>>

----------------------------------------------------------------------------
(* The event loop *)

\* The first step of watch() registers the consumer and starts the worker.
Watch ==
    /\ watcher = "none" /\ ~closed
    /\ watcher' = "waiting" /\ worker' = [worker EXCEPT !.pc = "waiting"]
    /\ UNCHANGED <<sweeps, clock, waking, slot, available, hands, hits, lastEmit, queue, closed>>

\* A detection is yielded, or a closed watch or the sentinel ends it.
Gets ==
    /\ watcher = "waiting" /\ queue # <<>>
    /\ queue' = Tail(queue)
    /\ watcher' = IF closed \/ Head(queue) = None THEN "ended" ELSE "yielded"
    /\ UNCHANGED <<sweeps, clock, waking, slot, available, worker, hands, hits, lastEmit, closed>>

\* The reader comes back for the next detection, however long it took.
Resumes ==
    /\ watcher = "yielded"
    /\ watcher' = IF closed THEN "ended" ELSE "waiting"
    /\ UNCHANGED <<sweeps, clock, waking, slot, available, worker, hands, hits, lastEmit, queue, closed>>

\* Mutant: closing only sets the flags.
Posted_Not == UNCHANGED queue
\* The sentinel that wakes a watch() waiting for a detection.
Posted == queue' = Append(queue, None)

\* aclose().
Close ==
    /\ watcher # "none" /\ ~closed
    /\ closed' = TRUE /\ available' = TRUE
    /\ Posted
    /\ UNCHANGED <<sweeps, clock, waking, slot, worker, hands, hits, lastEmit, watcher>>

Next ==
    \/ Arrives \/ Wakes
    \/ Takes \/ WorkerEnds \/ Runs
    \/ Watch \/ Gets \/ Resumes \/ Close

Spec == Init /\ [][Next]_vars

\* The worker runs and the reader comes back; the camera owes nothing.
Fairness == WF_vars(Takes) /\ WF_vars(WorkerEnds) /\ WF_vars(Runs) /\ WF_vars(Gets) /\ WF_vars(Resumes)
FairSpec == Spec /\ Fairness

----------------------------------------------------------------------------
(* Properties *)

\* A frame in the slot never waits for the next one to be noticed: the event is
\* set, or the drain thread is about to set it (the event is set and cleared by
\* different threads, once inside the lock and once outside it).
NoFrameIsStranded == (slot # None /\ ~closed) => (available \/ waking)

\* The worker runs every frame at most once and never goes back in time: the
\* landmarker refuses a timestamp that does not grow, and a face counts as seen
\* in consecutive frames only if they are different frames.
EachFrameOnce == (slot # None /\ worker.item # None) => worker.item.time < slot.time

\* A hand that only ever moves one way is not waving, whatever frames are
\* dropped, hands lost and hands matched.
ASweepIsNoWave == sweeps => lastEmit["wave"] = None

\* aclose() ends watch() and the worker, wherever they are.
CloseEndsTheWatch == closed ~> (watcher = "ended" /\ worker.pc = "ended")
=============================================================================
