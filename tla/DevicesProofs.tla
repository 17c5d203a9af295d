----------------------------- MODULE DevicesProofs -----------------------------
(* The devices for every value of the constants: any number of             *)
(* generations, of subscribers and callers, any buffer and any history of  *)
(* calls.  Each device has an inductive invariant of its own; the union    *)
(* keeps them all, because a step of one leaves the part alone.            *)
EXTENDS Devices, SequenceTheorems, TLAPS

------------------------------------------------------------------------------
(* The teleoperation video                                                 *)

VideoPlaces == {"new", "waiting", "reading", "read", "ended"}

(* The capture thread that lives is the last one made, and the camera is   *)
(* open under it.                                                          *)
VideoInv ==
  /\ camera \in {"closed", "open"} /\ available \in BOOLEAN
  /\ current \in VideoGen \cup {None}
  /\ thread \in [VideoGen -> VideoPlaces]
  /\ Video!OneCapture

LEMMA VideoStart == Video!Init => VideoInv
  BY DEF Video!Init, VideoInv, VideoPlaces, Video!OneCapture, Video!Alive

LEMMA VideoStep == ASSUME VideoInv, Video!Next PROVE VideoInv'
<1>0. None \notin VideoGen /\ VideoGen \subseteq Nat
  BY VideoConstants DEF Video!VideoAssumption
<1> USE DEF VideoInv, VideoPlaces, Video!OneCapture, Video!Alive
<1>1. CASE Video!Start
  BY <1>0, <1>1 DEF Video!Start, Video!Running, Video!NextGen
<1>2. CASE Video!Stop
  BY <1>2 DEF Video!Stop
<1>3. CASE Video!Stopped
  BY <1>0, <1>3 DEF Video!Stopped, Video!Running
<1>4. ASSUME NEW g \in VideoGen,
             Video!Take(g) \/ Video!Misses(g) \/ Video!Captures(g) \/ Video!Publish(g) \/ Video!Ends(g)
      PROVE  VideoInv'
  BY <1>4 DEF Video!Take, Video!Misses, Video!Captures, Video!Publish, Video!Ends, Video!Move
<1> QED BY <1>1, <1>2, <1>3, <1>4 DEF Video!Next

LEMMA VideoStutters == ASSUME VideoInv, UNCHANGED videoOnly, UNCHANGED shared PROVE VideoInv'
  BY DEF VideoInv, Video!OneCapture, Video!Alive, videoOnly, shared

------------------------------------------------------------------------------
(* The playback of a realtime session                                      *)

(* Who is responsible for a player: process and taken are players or None, *)
(* the loop has taken none while it is free, waits for none before it      *)
(* reaps, and once it reaps, what plays is what it took or waits for.      *)
PlaybackInv ==
  /\ started \in Nat /\ alive \subseteq 1..started
  /\ process \in {None} \cup 1..started /\ taken \in {None} \cup 1..started
  /\ loop \in {"free", "emptied", "killing", "joining", "reaping", "closed"}
  /\ closed <=> loop \in {"joining", "reaping", "closed"}
  /\ alive \subseteq {process, taken} \cup pending \cup waits
  /\ loop \notin {"killing", "reaping"} => taken = None
  /\ loop # "reaping" => waits = {}
  /\ loop \in {"reaping", "closed"} => process = None /\ alive \subseteq {taken} \cup waits

LEMMA PlaybackStart == Playback!Init => PlaybackInv
  BY DEF Playback!Init, PlaybackInv

LEMMA PlaybackStep == ASSUME PlaybackInv, Playback!Next PROVE PlaybackInv'
<1>0. None \notin Nat
  BY PlaybackConstants DEF Playback!PlaybackAssumption
<1> USE DEF PlaybackInv
<1>1. CASE Playback!Write \/ Playback!Get \/ Playback!Snapshot \/ Playback!Written
  BY <1>1 DEF Playback!Write, Playback!Get, Playback!Snapshot, Playback!Written
<1>2. CASE Playback!Interrupt
  BY <1>2 DEF Playback!Interrupt
<1>3. CASE Playback!Reclaim
  BY <1>0, <1>3 DEF Playback!Reclaim
<1>4. CASE Playback!HandOver
  BY <1>0, <1>4 DEF Playback!HandOver
<1>5. CASE Playback!Close
  BY <1>5 DEF Playback!Close
<1>6. CASE Playback!Joined
  BY <1>0, <1>6 DEF Playback!Joined
<1>7. CASE Playback!Reap
  BY <1>7 DEF Playback!Reap
<1>8. CASE Playback!Closed
  BY <1>0, <1>8 DEF Playback!Closed
<1>9. CASE Playback!EnsureProcess
  BY <1>0, <1>9 DEF Playback!EnsureProcess
<1>10. CASE Playback!Killed
  BY <1>10 DEF Playback!Killed
<1>11. CASE Playback!Dies
  BY <1>11 DEF Playback!Dies
<1> QED BY <1>1, <1>2, <1>3, <1>4, <1>5, <1>6, <1>7, <1>8, <1>9, <1>10, <1>11 DEF Playback!Next

LEMMA PlaybackStutters == ASSUME PlaybackInv, UNCHANGED playbackOnly, UNCHANGED shared PROVE PlaybackInv'
  BY DEF PlaybackInv, playbackOnly, shared

LEMMA PlaybackEnds == ASSUME PlaybackInv PROVE Playback!NoPlayerIsAbandoned
<1>0. None \notin Nat
  BY PlaybackConstants DEF Playback!PlaybackAssumption
<1> QED BY <1>0 DEF PlaybackInv, Playback!NoPlayerIsAbandoned

------------------------------------------------------------------------------
(* The vision watch                                                        *)

Shot == [time : Nat, palm : Place \cup {None}, face : BOOLEAN]
Hand == [x : Place, last : Place \cup {None}, direction : {-1, 0, 1}, waves : Nat, lost : Nat, waved : BOOLEAN]

(* A hand that has only ever moved to the right.                           *)
Steady(h) == h.waves = 0 /\ h.direction # -1 /\ h.last \in {None, h.x} /\ h.waved = FALSE
(* A palm, if there is one, is not to the left of another.                 *)
Right(palm, x) == palm # None => x <= palm

VisionTypes ==
  /\ sweeps \in BOOLEAN /\ waking \in BOOLEAN /\ available \in BOOLEAN /\ closed \in BOOLEAN
  /\ clock \in Nat /\ slot \in Shot \cup {None}
  /\ worker \in [pc : {"off", "waiting", "running", "ended"}, item : Shot \cup {None}]
  /\ lastEmit \in [Vision!Kind -> Nat \cup {None}]
  /\ None \notin DOMAIN hands /\ \A i \in DOMAIN hands : hands[i] \in Hand

(* Times grow from the worker's frame over the slot's to the camera's.     *)
VisionTimes ==
  /\ slot # None => slot.time <= clock
  /\ worker.item # None => worker.item.time <= clock
  /\ worker.pc = "running" => worker.item # None
  /\ Vision!EachFrameOnce

(* In a sweep nothing that is still to be judged lies to the left of what  *)
(* has been: the hands, the frame the worker runs, the frame in the slot.  *)
VisionOrder ==
  sweeps =>
    /\ \A i \in DOMAIN hands :
         /\ Steady(hands[i])
         /\ slot # None => Right(slot.palm, hands[i].x)
         /\ worker.pc = "running" => Right(worker.item.palm, hands[i].x)
    /\ (slot # None /\ worker.pc = "running" /\ worker.item.palm # None) => Right(slot.palm, worker.item.palm)

VisionInv ==
  VisionTypes /\ VisionTimes /\ VisionOrder /\ Vision!NoFrameIsStranded /\ Vision!ASweepIsNoWave

LEMMA VisionNames ==
  /\ None \notin Int /\ None \notin Shot /\ Place \subseteq Nat /\ None \notin Place
  /\ WaveCount \in Nat /\ WaveCount # 0 /\ {MoveThreshold, ClearCount} \subseteq Nat
<1>1. /\ None \notin Int /\ None \notin Shot /\ Place \subseteq Nat
      /\ WaveCount \in Nat /\ WaveCount # 0 /\ {MoveThreshold, ClearCount} \subseteq Nat
  BY VisionConstants DEF Vision!VisionWatchAssumption, Shot
<1>2. \A p \in Place : p \in Int
  BY <1>1
<1> QED BY <1>1, <1>2

LEMMA VisionStart == Vision!Init => VisionInv
<1> SUFFICES ASSUME Vision!Init PROVE VisionInv
  OBVIOUS
<1> USE VisionNames DEF Vision!Init
<1>1. DOMAIN hands = {}
  OBVIOUS
<1>2. VisionTypes
  BY <1>1 DEF VisionTypes, Vision!Kind
<1>3. VisionTimes /\ Vision!NoFrameIsStranded
  BY DEF VisionTimes, Vision!EachFrameOnce, Vision!NoFrameIsStranded
<1>4. VisionOrder /\ Vision!ASweepIsNoWave
  BY <1>1 DEF VisionOrder, Vision!ASweepIsNoWave, Vision!Kind
<1> QED BY <1>2, <1>3, <1>4 DEF VisionInv

(* Whatever is judged is a hand again, and in a sweep a steady one.        *)
LEMMA JudgedHand ==
  ASSUME NEW h \in Hand, NEW x \in Place
  PROVE  /\ Vision!Judged(h, x) \in Hand /\ Vision!Judged(h, x).x = x
         /\ Steady(h) /\ h.x <= x => Steady(Vision!Judged(h, x))
<1> DEFINE swung == h.last # None /\ Vision!Distance(x, h.last) > MoveThreshold
           way == IF x > h.last THEN 1 ELSE 0 - 1
           waves == IF swung /\ Vision!Reverses(h, way) THEN h.waves + 1 ELSE h.waves
<1>1. /\ h.x \in Nat /\ h.waves \in Nat /\ x \in Nat /\ way \in {-1, 1} /\ waves \in Nat
      /\ (h.last # None => h.last \in Nat) /\ h.direction \in {-1, 0, 1}
  <2>1. h.x \in Place /\ h.last \in Place \cup {None} /\ h.direction \in {-1, 0, 1} /\ h.waves \in Nat
    BY DEF Hand
  <2>2. way \in {-1, 1} /\ waves \in Nat
    <3> HIDE DEF swung
    <3> QED BY <2>1
  <2> HIDE DEF swung, way, waves
  <2> QED BY <2>1, <2>2, VisionNames
<1>2. Vision!Judged(h, x) =
        IF waves >= WaveCount
        THEN [x |-> x, last |-> None, direction |-> 0, waves |-> 0, lost |-> 0, waved |-> TRUE]
        ELSE [x |-> x, last |-> x, direction |-> IF swung THEN way ELSE h.direction,
              waves |-> waves, lost |-> 0, waved |-> FALSE]
  BY DEF Vision!Judged
<1>3. Vision!Judged(h, x) \in Hand /\ Vision!Judged(h, x).x = x
  <2> HIDE DEF swung, way, waves
  <2> QED BY <1>1, <1>2 DEF Hand
<1>4. ASSUME Steady(h), h.x <= x PROVE Steady(Vision!Judged(h, x))
  <2>1. swung => way = 1 /\ h.direction \in {0, 1}
    BY <1>1, <1>4, VisionNames DEF Steady, Vision!Distance
  <2>2. waves = 0
    BY <1>1, <1>4, <2>1 DEF Steady, Vision!Reverses
  <2>3. Vision!Judged(h, x) = [x |-> x, last |-> x, direction |-> IF swung THEN way ELSE h.direction,
                               waves |-> 0, lost |-> 0, waved |-> FALSE]
    <3> HIDE DEF swung, way, waves
    <3> QED BY <1>2, <2>2, VisionNames
  <2>4. (IF swung THEN way ELSE h.direction) # -1
    BY <2>1, <1>4 DEF Steady
  <2> HIDE DEF swung, way, waves
  <2> QED BY <2>3, <2>4 DEF Steady
<1> QED BY <1>3, <1>4

(* A tracked hand was missed, or the palm of the frame is its own.         *)
LEMMA TrackedHand ==
  ASSUME VisionTypes, NEW it \in Shot
  PROVE  /\ None \notin DOMAIN Vision!Tracked(it)
         /\ \A i \in DOMAIN Vision!Tracked(it) :
              \/ i \in DOMAIN hands /\ Vision!Tracked(it)[i] = Vision!Missed(hands[i])
              \/ /\ it.palm \in Place
                 /\ \E h \in Hand : /\ Vision!Tracked(it)[i] = Vision!Judged(h, it.palm)
                                    /\ h = Vision!NewHand(it.palm) \/ (i \in DOMAIN hands /\ h = hands[i])
<1> DEFINE mine == IF it.palm = None THEN None
                   ELSE IF Vision!Near(it.palm) = {} THEN it.time ELSE Vision!Nearest(it.palm)
           seen == IF mine = None THEN DOMAIN hands ELSE DOMAIN hands \cup {mine}
           now == [h \in seen |-> IF h # mine THEN Vision!Missed(hands[h])
                      ELSE Vision!Judged(IF h \in DOMAIN hands THEN hands[h] ELSE Vision!NewHand(it.palm), it.palm)]
           left == {g \in seen : now[g].lost < ClearCount}
<1>1. Vision!Tracked(it) = [h \in left |-> now[h]]
  BY DEF Vision!Tracked
<1>2. None \notin DOMAIN hands /\ \A i \in DOMAIN hands : hands[i] \in Hand
  BY DEF VisionTypes
<1>3. it.palm \in Place \cup {None} /\ it.time \in Nat
  BY DEF Shot
<1>4. it.palm \in Place => Vision!NewHand(it.palm) \in Hand
  BY DEF Vision!NewHand, Hand
<1>5. mine # None => it.palm \in Place
  BY <1>3
<1>6. None \notin seen
  <2> HIDE DEF mine
  <2> QED BY <1>2
<1>7. ASSUME NEW i \in left
      PROVE  \/ i \in DOMAIN hands /\ now[i] = Vision!Missed(hands[i])
             \/ /\ it.palm \in Place
                /\ \E h \in Hand : /\ now[i] = Vision!Judged(h, it.palm)
                                   /\ h = Vision!NewHand(it.palm) \/ (i \in DOMAIN hands /\ h = hands[i])
  <2> HIDE DEF mine
  <2>1. i \in seen
    OBVIOUS
  <2>2. CASE i # mine
    BY <1>6, <2>1, <2>2
  <2>3. CASE i = mine
    <3>1. it.palm \in Place
      BY <1>5, <1>6, <2>1, <2>3
    <3>2. PICK h \in Hand : /\ h = IF i \in DOMAIN hands THEN hands[i] ELSE Vision!NewHand(it.palm)
      BY <1>2, <1>4, <3>1
    <3>3. now[i] = Vision!Judged(h, it.palm)
      BY <2>1, <2>3, <3>2
    <3> QED BY <3>1, <3>2, <3>3
  <2> QED BY <2>2, <2>3
<1> HIDE DEF left, now, seen, mine
<1>8. left \subseteq seen
  BY DEF left
<1> QED BY <1>1, <1>6, <1>7, <1>8

(* The hands after a frame: hands again, in a sweep steady ones that lie   *)
(* where they were or where the palm is, and none of them waved.           *)
LEMMA HandsAfter ==
  ASSUME VisionTypes, NEW it \in Shot, NEW i \in DOMAIN Vision!Tracked(it)
  PROVE  /\ Vision!Tracked(it)[i] \in Hand
         /\ \/ i \in DOMAIN hands /\ Vision!Tracked(it)[i].x = hands[i].x
            \/ it.palm \in Place /\ Vision!Tracked(it)[i].x = it.palm
         /\ (\A j \in DOMAIN hands : Steady(hands[j]) /\ Right(it.palm, hands[j].x)) => Steady(Vision!Tracked(it)[i])
<1>1. CASE i \in DOMAIN hands /\ Vision!Tracked(it)[i] = Vision!Missed(hands[i])
  <2>1. hands[i] \in Hand
    BY <1>1 DEF VisionTypes
  <2>2. ASSUME NEW h \in Hand
        PROVE  /\ Vision!Missed(h) \in Hand /\ Vision!Missed(h).x = h.x
               /\ Steady(h) => Steady(Vision!Missed(h))
    <3>1. Vision!Missed(h) = [h EXCEPT !.lost = h.lost + 1, !.waved = FALSE]
      BY DEF Vision!Missed, Hand
    <3>2. h.lost + 1 \in Nat
      BY DEF Hand
    <3>3. Vision!Missed(h) \in Hand
      BY <3>1, <3>2 DEF Hand
    <3>4. /\ Vision!Missed(h).x = h.x /\ Vision!Missed(h).waves = h.waves /\ Vision!Missed(h).last = h.last
          /\ Vision!Missed(h).direction = h.direction /\ Vision!Missed(h).waved = FALSE
      BY <3>1 DEF Hand
    <3> QED BY <3>3, <3>4 DEF Steady
  <2> QED BY <1>1, <2>1, <2>2
<1>2. ASSUME it.palm \in Place, NEW h \in Hand, Vision!Tracked(it)[i] = Vision!Judged(h, it.palm),
             h = Vision!NewHand(it.palm) \/ (i \in DOMAIN hands /\ h = hands[i])
      PROVE  /\ Vision!Tracked(it)[i] \in Hand /\ Vision!Tracked(it)[i].x = it.palm
             /\ (\A j \in DOMAIN hands : Steady(hands[j]) /\ Right(it.palm, hands[j].x)) => Steady(Vision!Tracked(it)[i])
  <2>1. Vision!Judged(h, it.palm) \in Hand /\ Vision!Judged(h, it.palm).x = it.palm
        /\ (Steady(h) /\ h.x <= it.palm => Steady(Vision!Judged(h, it.palm)))
    BY <1>2, JudgedHand
  <2>2. h = Vision!NewHand(it.palm) => Steady(h) /\ h.x <= it.palm
    <3>1. SUFFICES Steady(Vision!NewHand(it.palm)) /\ Vision!NewHand(it.palm).x <= it.palm
      OBVIOUS
    <3>2. it.palm \in Nat
      BY <1>2, VisionNames
    <3> QED BY <3>2 DEF Vision!NewHand, Steady
  <2>3. it.palm # None
    BY <1>2, VisionNames
  <2> QED BY <1>2, <2>1, <2>2, <2>3 DEF Right
<1> QED BY <1>1, <1>2, TrackedHand

LEMMA VisionRuns == ASSUME VisionInv, Vision!Runs PROVE VisionInv'
<1> DEFINE it == worker.item
           tracked == Vision!Tracked(worker.item)
<1>1. /\ worker.pc = "running" /\ worker.item \in Shot /\ VisionTypes
      /\ worker' = [worker EXCEPT !.pc = "waiting"]
      /\ UNCHANGED <<sweeps, clock, waking, slot, available, watcher, closed>>
  BY DEF Vision!Runs, VisionInv, VisionTypes, VisionTimes
<1>2. worker'.item = worker.item /\ worker'.pc = "waiting"
      /\ worker' \in [pc : {"off", "waiting", "running", "ended"}, item : Shot \cup {None}]
  BY <1>1 DEF VisionTypes
<1>3. PICK raises \in SUBSET Vision!Kind, emits \in SUBSET Vision!Kind :
        /\ hands' = IF "wave" \in raises THEN hands
                    ELSE [i \in DOMAIN tracked |-> [tracked[i] EXCEPT !.waved = FALSE]]
        /\ lastEmit' = [k \in Vision!Kind |-> IF k \in emits THEN worker.item.time ELSE lastEmit[k]]
        /\ "wave" \in emits => \E i \in DOMAIN tracked : tracked[i].waved
  <2> HIDE DEF tracked
  <2>1. PICK raises \in SUBSET Vision!Kind :
         LET waved == "wave" \notin raises /\ \E i \in DOMAIN tracked : tracked[i].waved
             faced == "face" \notin raises /\ it.face /\ hits + 1 >= ConsecutiveHits
             Due(k) == lastEmit[k] = None \/ it.time - lastEmit[k] >= Cooldown
             emits == {k \in Vision!Kind : Due(k) /\ IF k = "wave" THEN waved ELSE faced}
         IN /\ hands' = IF "wave" \in raises THEN hands
                        ELSE [i \in DOMAIN tracked |-> [tracked[i] EXCEPT !.waved = FALSE]]
            /\ lastEmit' = [k \in Vision!Kind |-> IF k \in emits THEN it.time ELSE lastEmit[k]]
    BY DEF Vision!Runs, tracked
  <2> DEFINE waved == "wave" \notin raises /\ \E i \in DOMAIN tracked : tracked[i].waved
             faced == "face" \notin raises /\ it.face /\ hits + 1 >= ConsecutiveHits
             Due(k) == lastEmit[k] = None \/ it.time - lastEmit[k] >= Cooldown
             emits == {k \in Vision!Kind : Due(k) /\ IF k = "wave" THEN waved ELSE faced}
  <2>2. lastEmit' = [k \in Vision!Kind |-> IF k \in emits THEN it.time ELSE lastEmit[k]]
    BY <2>1
  <2>3. "wave" \in emits => \E i \in DOMAIN tracked : tracked[i].waved
    OBVIOUS
  <2>4. emits \in SUBSET Vision!Kind
    OBVIOUS
  <2> HIDE DEF emits
  <2> QED BY <2>1, <2>2, <2>3, <2>4
<1>4. \A i \in DOMAIN tracked :
         /\ tracked[i] \in Hand
         /\ \/ i \in DOMAIN hands /\ tracked[i].x = hands[i].x
            \/ worker.item.palm \in Place /\ tracked[i].x = worker.item.palm
         /\ (\A j \in DOMAIN hands : Steady(hands[j]) /\ Right(worker.item.palm, hands[j].x)) => Steady(tracked[i])
  BY <1>1, HandsAfter
<1>5. None \notin DOMAIN tracked
  BY <1>1, TrackedHand
<1> HIDE DEF tracked, it
<1>6. ASSUME NEW i \in DOMAIN hands'
      PROVE  /\ hands'[i] \in Hand
             /\ \/ i \in DOMAIN hands /\ hands'[i].x = hands[i].x
                \/ worker.item.palm \in Place /\ hands'[i].x = worker.item.palm
             /\ (\A j \in DOMAIN hands : Steady(hands[j]) /\ Right(worker.item.palm, hands[j].x)) => Steady(hands'[i])
  <2>1. CASE "wave" \in raises
    BY <1>1, <1>3, <2>1 DEF VisionTypes
  <2>2. CASE "wave" \notin raises
    <3>1. i \in DOMAIN tracked /\ hands'[i] = [tracked[i] EXCEPT !.waved = FALSE]
      BY <1>3, <2>2
    <3>2. ASSUME NEW h \in Hand PROVE
            /\ [h EXCEPT !.waved = FALSE] \in Hand /\ [h EXCEPT !.waved = FALSE].x = h.x
            /\ Steady(h) => Steady([h EXCEPT !.waved = FALSE])
      BY DEF Hand, Steady
    <3> QED BY <1>4, <3>1, <3>2
  <2> QED BY <2>1, <2>2
<1>7. None \notin DOMAIN hands'
  BY <1>1, <1>3, <1>5 DEF VisionTypes
<1>8. lastEmit' \in [Vision!Kind -> Nat \cup {None}]
  BY <1>1, <1>3 DEF VisionTypes, Shot
<1>9. VisionTypes'
  BY <1>1, <1>2, <1>6, <1>7, <1>8 DEF VisionTypes
<1>10. VisionTimes' /\ Vision!NoFrameIsStranded'
  BY <1>1, <1>2 DEF VisionInv, VisionTimes, Vision!EachFrameOnce, Vision!NoFrameIsStranded
<1>11. ASSUME sweeps PROVE \A j \in DOMAIN hands : Steady(hands[j]) /\ Right(worker.item.palm, hands[j].x)
  BY <1>1, <1>11 DEF VisionInv, VisionOrder
<1>12. VisionOrder'
  <2> SUFFICES ASSUME sweeps, NEW i \in DOMAIN hands'
               PROVE  /\ Steady(hands'[i])
                      /\ slot # None => Right(slot.palm, hands'[i].x)
    BY <1>1, <1>2 DEF VisionOrder
  <2>1. Steady(hands'[i])
    BY <1>6, <1>11
  <2>2. ASSUME slot # None PROVE Right(slot.palm, hands'[i].x)
    <3>1. CASE i \in DOMAIN hands /\ hands'[i].x = hands[i].x
      BY <2>2, <3>1 DEF VisionInv, VisionOrder
    <3>2. CASE worker.item.palm \in Place /\ hands'[i].x = worker.item.palm
      BY <1>1, <2>2, <3>2, VisionNames DEF VisionInv, VisionOrder
    <3> QED BY <1>6, <3>1, <3>2
  <2> QED BY <2>1, <2>2
<1>13. Vision!ASweepIsNoWave'
  <2> SUFFICES ASSUME sweeps PROVE lastEmit'["wave"] = None
    BY <1>1 DEF Vision!ASweepIsNoWave
  <2>1. \A i \in DOMAIN tracked : tracked[i].waved = FALSE
    BY <1>4, <1>11 DEF Steady
  <2>2. "wave" \notin emits
    BY <1>3, <2>1
  <2> QED BY <1>3, <2>2 DEF Vision!Kind, VisionInv, Vision!ASweepIsNoWave
<1> QED BY <1>9, <1>10, <1>12, <1>13 DEF VisionInv

LEMMA VisionArrives == ASSUME VisionInv, Vision!Arrives PROVE VisionInv'
<1>1. PICK palm \in Place \cup {None}, face \in BOOLEAN :
        /\ (sweeps /\ palm # None) => \A i \in DOMAIN hands : hands[i].x <= palm
        /\ (sweeps /\ palm # None /\ slot # None) => (slot.palm # None => slot.palm <= palm)
        /\ (sweeps /\ palm # None /\ worker.pc = "running") => (worker.item.palm # None => worker.item.palm <= palm)
        /\ slot' = [time |-> clock + 1, palm |-> palm, face |-> face]
  BY DEF Vision!Arrives
<1>2. /\ watcher # "none" /\ clock' = clock + 1 /\ waking' = TRUE
      /\ UNCHANGED <<sweeps, available, worker, hands, hits, lastEmit, queue, watcher, closed>>
  BY DEF Vision!Arrives
<1>3. slot' \in Shot /\ slot'.time = clock + 1 /\ slot'.palm = palm /\ clock \in Nat
  BY <1>1 DEF Shot, VisionInv, VisionTypes
<1>4. VisionTypes'
  BY <1>2, <1>3 DEF VisionInv, VisionTypes
<1>5. VisionTimes'
  <2>1. worker.item # None => worker.item.time \in Nat
    BY DEF VisionInv, VisionTypes, Shot
  <2> QED BY <1>2, <1>3, <2>1 DEF VisionInv, VisionTimes, Vision!EachFrameOnce
<1>6. VisionOrder'
  BY <1>1, <1>2, <1>3 DEF VisionInv, VisionOrder, Right
<1>7. Vision!NoFrameIsStranded' /\ Vision!ASweepIsNoWave'
  BY <1>2 DEF VisionInv, Vision!NoFrameIsStranded, Vision!ASweepIsNoWave
<1> QED BY <1>4, <1>5, <1>6, <1>7 DEF VisionInv

LEMMA VisionTakes == ASSUME VisionInv, Vision!Takes PROVE VisionInv'
<1>1. /\ worker.pc = "waiting" /\ slot' = None /\ available' = FALSE
      /\ worker' = IF slot = None THEN worker ELSE [pc |-> "running", item |-> slot]
      /\ UNCHANGED <<sweeps, clock, waking, hands, hits, lastEmit, queue, watcher, closed>>
  BY DEF Vision!Takes, Vision!Taken
<1>2. VisionTypes'
  BY <1>1 DEF VisionInv, VisionTypes
<1>3. VisionTimes'
  <2>1. slot # None => worker'.item = slot /\ worker'.pc = "running"
    BY <1>1
  <2> QED BY <1>1, <2>1 DEF VisionInv, VisionTimes, Vision!EachFrameOnce
<1>4. VisionOrder'
  BY <1>1 DEF VisionInv, VisionOrder
<1>5. Vision!NoFrameIsStranded' /\ Vision!ASweepIsNoWave'
  BY <1>1 DEF VisionInv, Vision!NoFrameIsStranded, Vision!ASweepIsNoWave
<1> QED BY <1>2, <1>3, <1>4, <1>5 DEF VisionInv

LEMMA VisionStep == ASSUME VisionInv, Vision!Next PROVE VisionInv'
<1>1. CASE Vision!Wakes \/ Vision!Gets \/ Vision!Resumes \/ Vision!Close
  <2>1. /\ UNCHANGED <<sweeps, clock, slot, worker, hands, lastEmit>>
        /\ waking' \in BOOLEAN /\ available' \in BOOLEAN /\ closed' \in BOOLEAN
        /\ (closed => closed') /\ (available => available') /\ (waking => waking' \/ available')
    BY <1>1 DEF VisionInv, VisionTypes, Vision!Wakes, Vision!Signalled, Vision!Gets, Vision!Resumes, Vision!Close
  <2>2. VisionTypes' /\ VisionTimes' /\ VisionOrder'
    BY <2>1 DEF VisionInv, VisionTypes, VisionTimes, Vision!EachFrameOnce, VisionOrder
  <2>3. Vision!NoFrameIsStranded' /\ Vision!ASweepIsNoWave'
    BY <2>1 DEF VisionInv, Vision!NoFrameIsStranded, Vision!ASweepIsNoWave
  <2> QED BY <2>2, <2>3 DEF VisionInv
<1>2. CASE Vision!WorkerEnds \/ Vision!Watch
  <2>1. /\ UNCHANGED <<sweeps, clock, slot, hands, lastEmit, waking, available, closed>>
        /\ worker' \in [pc : {"off", "waiting", "running", "ended"}, item : Shot \cup {None}]
        /\ worker'.pc # "running" /\ worker'.item \in {None, worker.item}
    BY <1>2 DEF VisionInv, VisionTypes, Vision!WorkerEnds, Vision!Watch
  <2>2. VisionTypes' /\ VisionTimes' /\ VisionOrder'
    BY <2>1 DEF VisionInv, VisionTypes, VisionTimes, Vision!EachFrameOnce, VisionOrder
  <2>3. Vision!NoFrameIsStranded' /\ Vision!ASweepIsNoWave'
    BY <2>1 DEF VisionInv, Vision!NoFrameIsStranded, Vision!ASweepIsNoWave
  <2> QED BY <2>2, <2>3 DEF VisionInv
<1> QED BY <1>1, <1>2, VisionArrives, VisionTakes, VisionRuns DEF Vision!Next

LEMMA VisionStutters == ASSUME VisionInv, UNCHANGED visionOnly, UNCHANGED shared PROVE VisionInv'
<1>1. UNCHANGED <<sweeps, clock, waking, slot, available, worker, hands, lastEmit, watcher, closed>>
  BY DEF visionOnly, shared
<1> QED BY <1>1 DEF VisionInv, VisionTypes, VisionTimes, Vision!EachFrameOnce, VisionOrder,
                   Vision!NoFrameIsStranded, Vision!ASweepIsNoWave

------------------------------------------------------------------------------
(* The microphone stream                                                   *)

FanOut == [item : MicGen \cup {0}, to : SUBSET Sub]

MicTypes ==
  /\ opened \in BOOLEAN /\ current \in Nat /\ (opened => current \in MicGen)
  /\ mic \in [open : BOOLEAN, recorder : {"no", "running"}]
  /\ closing \in {"no", "joining", "notifying"}
  /\ thread \in [MicGen -> {"none", "loop", "reading", "sending", "finally", "released", "telling", "dead"}]
  /\ stop \subseteq MicGen /\ device \subseteq MicGen
  /\ subs \subseteq Sub
  /\ use \in [Sub -> {"new", "on", "ended", "off"}]
  /\ meant \in [Sub -> Nat]
  /\ queue \in [Sub -> Seq(Nat)]
  /\ fan \in [Mic!Sender -> {None} \cup FanOut]

(* A fan-out is under way exactly while its sender says so: a thread that  *)
(* sends a chunk of its generation or tells the end, or a close().         *)
MicSenders ==
  /\ \A g \in MicGen :
       /\ fan[g] # None <=> thread[g] \in {"sending", "telling"}
       /\ thread[g] = "sending" => fan[g].item = g
       /\ thread[g] = "telling" => fan[g].item = 0
  /\ fan[0] # None <=> closing = "notifying"
  /\ fan[0] # None => fan[0].item = 0

(* The one capture thread alive is that of the last generation, and who    *)
(* uses the device holds it.                                               *)
MicThreads ==
  /\ \A g \in MicGen : Mic!Alive(g) => g = current
  /\ \A g \in MicGen : g > current => thread[g] = "none"
  /\ device \subseteq held
  /\ mic.recorder = "running" => Mic!Recorder \in held

MicInv == MicTypes /\ MicSenders /\ MicThreads

LEMMA MicNames ==
  /\ MicGen \subseteq Nat /\ 0 \notin MicGen /\ -1 \notin MicGen /\ -2 \notin MicGen
  /\ None \notin FanOut /\ MicRoom \in Nat /\ MicRoom >= 1
  BY MicConstants DEF Mic!MicAssumption, FanOut

LEMMA MicFanOuts ==
  ASSUME MicTypes, NEW w \in Mic!Sender, fan[w] # None
  PROVE  fan[w] \in FanOut /\ fan[w].item \in Nat /\ fan[w].to \subseteq Sub
<1>1. fan[w] \in FanOut
  BY DEF MicTypes
<1>2. fan[w].item \in MicGen \cup {0} /\ fan[w].to \subseteq Sub
  BY <1>1 DEF FanOut
<1>3. \A g \in MicGen \cup {0} : g \in Nat
  BY MicNames
<1> QED BY <1>1, <1>2, <1>3

LEMMA MicStart == Mic!Init => MicInv
<1> SUFFICES ASSUME Mic!Init PROVE MicInv
  OBVIOUS
<1> USE MicNames DEF Mic!Init
<1>1. MicTypes
  <2>1. \A s \in Sub : queue[s] \in Seq(Nat)
    OBVIOUS
  <2> QED BY <2>1 DEF MicTypes, Mic!Sender, Mic!End
<1>2. MicSenders /\ MicThreads
  BY DEF MicSenders, MicThreads, Mic!Alive, Mic!Sender, Mic!End
<1> QED BY <1>1, <1>2 DEF MicInv

LEMMA MicStep == ASSUME MicInv, Mic!Next PROVE MicInv'
<1> USE MicNames DEF MicInv, Mic!Sender, Mic!End, Mic!subVars, Mic!streamVars
<1>1. CASE Mic!Open
  <2>1. MicTypes'
    BY <1>1 DEF Mic!Open, MicTypes
  <2>2. MicSenders' /\ MicThreads'
    BY <1>1 DEF Mic!Open, MicTypes, MicSenders, MicThreads, Mic!Alive, Mic!Unlocked
  <2> QED BY <2>1, <2>2
<1>2. CASE Mic!OpenFails
  <2>1. /\ UNCHANGED <<opened, closing, thread, stop, subs, use, meant, queue, fan, mic>>
        /\ current' = current + 1 /\ current + 1 \in MicGen
        /\ device' \in {device, device \cup {current + 1}}
    BY <1>2 DEF Mic!OpenFails
  <2>2. device' \subseteq held' /\ held \subseteq held' /\ \A g \in MicGen : ~Mic!Alive(g)
    BY <1>2 DEF Mic!OpenFails, MicThreads
  <2>3. MicTypes'
    BY <2>1 DEF MicTypes
  <2>4. MicSenders'
    BY <2>1 DEF MicTypes, MicSenders
  <2>5. ASSUME NEW g \in MicGen, g > current' PROVE thread'[g] = "none"
    BY <2>1, <2>5 DEF MicTypes, MicThreads
  <2>6. MicThreads'
    BY <2>1, <2>2, <2>5 DEF MicThreads, Mic!Alive
  <2> QED BY <2>3, <2>4, <2>6
<1>3. CASE Mic!Close \/ Mic!CloseJoined
  <2>1. /\ UNCHANGED <<current, thread, device, held, subs, use, meant, queue, fan, mic>>
        /\ closing # "notifying" /\ closing' \in {"no", "joining"} /\ (opened' = opened \/ opened' = FALSE)
        /\ stop' \in {stop, stop \cup {current}} /\ (stop' # stop => opened)
    <3>1. CASE Mic!Close
      BY <3>1 DEF Mic!Close, Mic!Unlocked
    <3>2. CASE Mic!CloseJoined
      BY <3>2 DEF Mic!CloseJoined
    <3> QED BY <1>3, <3>1, <3>2
  <2>2. stop' \subseteq MicGen
    BY <2>1 DEF MicTypes
  <2>3. opened' \in BOOLEAN /\ (opened' => opened)
    <3>1. CASE opened' = opened
      BY <3>1 DEF MicTypes
    <3>2. CASE opened' = FALSE
      BY <3>2
    <3> QED BY <2>1, <3>1, <3>2
  <2>4. MicTypes'
    BY <2>1, <2>2, <2>3 DEF MicTypes
  <2>5. MicSenders' /\ MicThreads'
    BY <2>1 DEF MicTypes, MicSenders, MicThreads, Mic!Alive
  <2> QED BY <2>4, <2>5
<1>4. CASE Mic!CloseGivesUp
  <2>1. MicTypes'
    BY <1>4 DEF Mic!CloseGivesUp, Mic!NotifyClosed, MicTypes, FanOut
  <2>2. MicSenders' /\ MicThreads'
    BY <1>4 DEF Mic!CloseGivesUp, Mic!NotifyClosed, MicTypes, MicSenders, MicThreads, Mic!Alive, FanOut
  <2> QED BY <2>1, <2>2
<1>5. ASSUME NEW g \in MicGen, Mic!Loop(g) \/ Mic!NothingToSend(g) \/ Mic!Dies(g) PROVE MicInv'
  <2>1. PICK place \in {"finally", "loop", "reading"} :
          /\ thread[g] \in {"loop", "reading"} /\ thread' = [thread EXCEPT ![g] = place]
          /\ UNCHANGED <<opened, current, closing, stop, device, held, subs, use, meant, queue, fan, mic>>
    BY <1>5 DEF Mic!Loop, Mic!NothingToSend, Mic!Dies
  <2>2. MicTypes'
    BY <2>1 DEF MicTypes
  <2>3. MicSenders' /\ MicThreads'
    BY <2>1 DEF MicTypes, MicSenders, MicThreads, Mic!Alive
  <2> QED BY <2>2, <2>3
<1>6. ASSUME NEW g \in MicGen, Mic!Dispatch(g) PROVE MicInv'
  <2>1. MicTypes'
    BY <1>6 DEF Mic!Dispatch, MicTypes, FanOut
  <2>2. MicSenders' /\ MicThreads'
    BY <1>6 DEF Mic!Dispatch, MicTypes, MicSenders, MicThreads, Mic!Alive, FanOut
  <2> QED BY <2>1, <2>2
<1>7. ASSUME NEW g \in MicGen, Mic!ReleaseStream(g) PROVE MicInv'
  <2>1. MicTypes'
    BY <1>7 DEF Mic!ReleaseStream, MicTypes
  <2>2. MicSenders' /\ MicThreads'
    BY <1>7 DEF Mic!ReleaseStream, MicTypes, MicSenders, MicThreads, Mic!Alive, Mic!Recorder
  <2> QED BY <2>1, <2>2
<1>8. ASSUME NEW g \in MicGen, Mic!ThreadEnds(g) PROVE MicInv'
  <2>1. MicTypes'
    BY <1>8 DEF Mic!ThreadEnds, Mic!NotifyClosed, MicTypes, FanOut
  <2>2. MicSenders' /\ MicThreads'
    BY <1>8 DEF Mic!ThreadEnds, Mic!NotifyClosed, MicTypes, MicSenders, MicThreads, Mic!Alive, FanOut
  <2> QED BY <2>1, <2>2
<1>9. ASSUME NEW w \in Mic!Sender, Mic!Deliver(w) PROVE MicInv'
  <2>1. PICK s \in fan[w].to : Mic!Enqueue(s, fan[w].item) /\ fan' = [fan EXCEPT ![w].to = @ \ {s}]
    BY <1>9 DEF Mic!Deliver
  <2>2. fan[w] \in FanOut
    BY <1>9 DEF Mic!Deliver, MicTypes
  <2>3. fan[w].to \subseteq Sub /\ fan[w].item \in MicGen \cup {0}
    BY <2>2 DEF FanOut
  <2>4. fan'[w] \in FanOut /\ fan'[w].item = fan[w].item
    BY <2>1, <2>2 DEF FanOut, MicTypes
  <2>5. queue' \in [Sub -> Seq(Nat)]
    BY <2>1, <2>3 DEF Mic!Enqueue, MicTypes
  <2>6. fan' \in [Mic!Sender -> {None} \cup FanOut] /\ \A v \in Mic!Sender : v # w => fan'[v] = fan[v]
    BY <2>1, <2>4 DEF MicTypes
  <2>7. UNCHANGED <<opened, current, closing, thread, stop, device, held, subs, use, meant, mic>>
    BY <1>9 DEF Mic!Deliver
  <2>8. MicTypes' /\ MicThreads'
    BY <2>5, <2>6, <2>7 DEF MicTypes, MicThreads, Mic!Alive
  <2>9. MicSenders'
    BY <2>2, <2>4, <2>6, <2>7 DEF MicSenders
  <2> QED BY <2>8, <2>9
<1>10. ASSUME NEW w \in Mic!Sender, Mic!Delivered(w) PROVE MicInv'
  <2>1. /\ fan[w] # None /\ fan' = [fan EXCEPT ![w] = None]
        /\ UNCHANGED <<opened, current, stop, device, held, subs, use, meant, queue, mic>>
    BY <1>10 DEF Mic!Delivered
  <2>2. CASE w = 0
    <3>1. closing' = "no" /\ thread' = thread
      BY <1>10, <2>2 DEF Mic!Delivered
    <3>2. MicTypes'
      BY <2>1, <3>1 DEF MicTypes
    <3>3. MicSenders' /\ MicThreads'
      BY <2>1, <2>2, <3>1 DEF MicTypes, MicSenders, MicThreads, Mic!Alive
    <3> QED BY <3>2, <3>3
  <2>3. CASE w # 0
    <3>1. PICK place \in {"dead", "loop"} : thread' = [thread EXCEPT ![w] = place] /\ closing' = closing
      BY <1>10, <2>3 DEF Mic!Delivered
    <3>2. w \in MicGen /\ thread[w] \in {"sending", "telling"}
      BY <2>1, <2>3 DEF MicSenders
    <3>3. MicTypes'
      BY <2>1, <3>1, <3>2 DEF MicTypes
    <3>4. MicSenders' /\ MicThreads'
      BY <2>1, <2>3, <3>1, <3>2 DEF MicTypes, MicSenders, MicThreads, Mic!Alive
    <3> QED BY <3>3, <3>4
  <2> QED BY <2>2, <2>3
<1>11. ASSUME NEW s \in Sub, Mic!Subscribe(s) \/ Mic!Get(s) \/ Mic!Unsubscribe(s) PROVE MicInv'
  <2>1. UNCHANGED <<opened, current, closing, thread, stop, device, held, fan, mic>>
    BY <1>11 DEF Mic!Subscribe, Mic!Get, Mic!Unsubscribe
  <2>2. /\ subs' \subseteq Sub /\ use' \in [Sub -> {"new", "on", "ended", "off"}]
        /\ meant' \in [Sub -> Nat] /\ queue' \in [Sub -> Seq(Nat)]
    <3>1. CASE Mic!Subscribe(s)
      BY <3>1 DEF Mic!Subscribe, MicTypes
    <3>2. CASE Mic!Get(s)
      <4>1. queue[s] \in Seq(Nat) /\ queue[s] # <<>>
        BY <3>2 DEF Mic!Get, MicTypes
      <4>2. Tail(queue[s]) \in Seq(Nat)
        BY <4>1
      <4> QED BY <3>2, <4>2 DEF Mic!Get, MicTypes
    <3>3. CASE Mic!Unsubscribe(s)
      BY <3>3 DEF Mic!Unsubscribe, MicTypes
    <3> QED BY <1>11, <3>1, <3>2, <3>3
  <2> QED BY <2>1, <2>2 DEF MicTypes, MicSenders, MicThreads, Mic!Alive
<1>12. CASE Mic!MicOpen \/ Mic!MicRecord \/ Mic!MicRecorded \/ Mic!MicClose
  <2>1. /\ UNCHANGED <<opened, current, closing, thread, stop, device, subs, use, meant, queue, fan>>
        /\ device \subseteq held'
    BY <1>12 DEF Mic!MicOpen, Mic!MicRecord, Mic!MicRecorded, Mic!MicClose, MicThreads, MicTypes,
                 Mic!MicHolder, Mic!Recorder
  <2>2. mic'.recorder = "running" => Mic!Recorder \in held'
    BY <1>12 DEF Mic!MicOpen, Mic!MicRecord, Mic!MicRecorded, Mic!MicClose, MicThreads, MicTypes,
                 Mic!MicHolder, Mic!Recorder
  <2>3. mic' \in [open : BOOLEAN, recorder : {"no", "running"}]
    BY <1>12 DEF Mic!MicOpen, Mic!MicRecord, Mic!MicRecorded, Mic!MicClose, MicTypes
  <2>4. MicTypes'
    BY <2>1, <2>3 DEF MicTypes
  <2> QED BY <2>1, <2>2, <2>4 DEF MicSenders, MicThreads, Mic!Alive
<1> QED BY <1>1, <1>2, <1>3, <1>4, <1>5, <1>6, <1>7, <1>8, <1>9, <1>10, <1>11, <1>12 DEF Mic!Next

(* No exception but those of read() ends a capture thread.                 *)
ThreadsLast == MayDie = FALSE

Running == {"loop", "reading", "sending"}

(* A thread leaves its loop for its own stop only, so a stream that is     *)
(* open has a running one.                                                 *)
MicStops ==
  /\ \A g \in MicGen : thread[g] \in {"finally", "released", "telling", "dead"} => g \in stop
  /\ \A g \in stop : g <= current
  /\ opened => current \notin stop /\ thread[current] \in Running /\ closing = "no"
  /\ closing = "joining" => current \in stop

(* A subscriber that has not been forgotten is one of the generation that  *)
(* runs or is being closed, or waits for the next.                         *)
MicSubscribed ==
  \A s \in subs :
    /\ use[s] # "new"
    /\ meant[s] # 0 =>
         /\ meant[s] = current
         /\ opened \/ (closing = "joining" /\ thread[current] \in Running \cup {"finally", "released"})

(* Nothing on its way to a subscriber, or in its queue, is later than the  *)
(* generation it was subscribed for.                                       *)
MicHears ==
  /\ \A w \in Mic!Sender : fan[w] # None => fan[w].item <= current
  /\ \A w \in Mic!Sender : fan[w] # None => \A s \in fan[w].to : use[s] # "new" /\ (meant[s] = 0 \/ fan[w].item <= meant[s])
  /\ \A s \in Sub : \A i \in 1..Len(queue[s]) : queue[s][i] <= current /\ (meant[s] = 0 \/ queue[s][i] <= meant[s])
  /\ \A s \in Sub : use[s] = "new" => queue[s] = <<>>

MicQuiet == MicStops /\ MicSubscribed /\ MicHears

LEMMA MicQuietStart == Mic!Init => MicQuiet
<1> SUFFICES ASSUME Mic!Init PROVE MicQuiet
  OBVIOUS
<1>1. \A s \in Sub : queue[s] = <<>>
  BY DEF Mic!Init
<1>2. MicHears
  BY <1>1, MicNames DEF Mic!Init, MicHears
<1> QED BY <1>2 DEF Mic!Init, MicQuiet, MicStops, MicSubscribed

(* What an item appended to a bounded queue leaves in it: all but the      *)
(* oldest, and that one too if there was room.                             *)
Keeps(q, r) == \A i \in 1..Len(q) : (i >= 2 \/ Len(q) < MicRoom) => \E j \in 1..Len(r) : r[j] = q[i]

LEMMA Enqueued ==
  ASSUME NEW q \in Seq(Nat), NEW x \in Nat, NEW r, Len(q) <= MicRoom,
         r = IF Len(q) < MicRoom THEN Append(q, x) ELSE Append(Tail(q), x)
  PROVE  /\ r \in Seq(Nat) /\ Len(r) \in Nat /\ Len(r) >= 1 /\ Len(r) <= MicRoom /\ r[Len(r)] = x
         /\ \A i \in 1..Len(r) : r[i] = x \/ \E j \in 1..Len(q) : r[i] = q[j]
         /\ Keeps(q, r)
<1> USE DEF Keeps
<1>0. Len(q) \in Nat /\ MicRoom \in Nat /\ MicRoom >= 1
  BY MicNames
<1>1. CASE Len(q) < MicRoom
  <2>1. r = Append(q, x) /\ Len(r) = Len(q) + 1 /\ r \in Seq(Nat) /\ r[Len(q) + 1] = x
        /\ \A i \in 1..Len(q) : r[i] = q[i]
    BY <1>1
  <2>2. \A i \in 1..Len(r) : i = Len(q) + 1 \/ i \in 1..Len(q)
    BY <1>0, <2>1
  <2>3. \A i \in 1..Len(q) : i \in 1..Len(r)
    BY <1>0, <2>1
  <2> QED BY <1>0, <1>1, <2>1, <2>2, <2>3
<1>2. CASE Len(q) >= MicRoom
  <2>1. q # <<>> /\ Len(q) >= 1
    BY <1>0, <1>2
  <2> DEFINE t == Tail(q)
  <2>2. t \in Seq(Nat) /\ Len(t) = Len(q) - 1 /\ \A i \in 1..Len(q) - 1 : t[i] = q[i + 1]
    BY <2>1
  <2>3. r = Append(t, x) /\ Len(r) = Len(q) /\ r \in Seq(Nat) /\ r[Len(q)] = x
        /\ \A i \in 1..Len(q) - 1 : r[i] = q[i + 1]
    <3> HIDE DEF t
    <3>1. r = Append(t, x)
      BY <1>0, <1>2 DEF t
    <3> QED BY <1>0, <2>1, <2>2, <3>1
  <2>4. \A i \in 1..Len(r) : i = Len(q) \/ (i \in 1..Len(q) - 1 /\ i + 1 \in 1..Len(q))
    BY <1>0, <2>3
  <2>5. ASSUME NEW i \in 1..Len(q), i >= 2 PROVE \E j \in 1..Len(r) : r[j] = q[i]
    <3>1. i - 1 \in 1..Len(r) /\ r[i - 1] = q[i]
      BY <1>0, <2>3, <2>5
    <3> QED BY <3>1
  <2>6. ASSUME NEW i \in 1..Len(r) PROVE r[i] = x \/ \E j \in 1..Len(q) : r[i] = q[j]
    BY <2>3, <2>4
  <2> HIDE DEF t
  <2>7. Len(r) \in Nat /\ Len(r) >= 1 /\ Len(r) <= MicRoom /\ r[Len(r)] = x
    BY <2>1, <2>3
  <2>8. ~(Len(q) < MicRoom)
    BY <1>0, <1>2
  <2> QED BY <2>3, <2>5, <2>6, <2>7, <2>8
<1> QED BY <1>0, <1>1, <1>2

(* What get() leaves.                                                      *)
LEMMA Taken ==
  ASSUME NEW q \in Seq(Nat), q # <<>>
  PROVE  /\ Tail(q) \in Seq(Nat) /\ Len(Tail(q)) = Len(q) - 1 /\ Len(q) \in Nat /\ Len(q) >= 1
         /\ Head(q) = q[1]
         /\ \A i \in 1..Len(Tail(q)) : i + 1 \in 1..Len(q) /\ Tail(q)[i] = q[i + 1]
<1>1. Tail(q) \in Seq(Nat) /\ Len(Tail(q)) = Len(q) - 1 /\ Len(q) \in Nat /\ Len(q) >= 1
  OBVIOUS
<1>2. \A i \in 1..Len(q) - 1 : Tail(q)[i] = q[i + 1]
  OBVIOUS
<1> QED BY <1>1, <1>2

LEMMA MicQuietStep == ASSUME ThreadsLast, MicInv, MicQuiet, Mic!Next, \A s \in Sub : Len(queue[s]) <= MicRoom
                      PROVE  MicQuiet'
<1> USE MicNames DEF ThreadsLast, Mic!Sender, Mic!End, Running
<1>0. MicTypes /\ MicSenders /\ MicThreads /\ MicStops /\ MicSubscribed /\ MicHears
  BY DEF MicInv, MicQuiet
<1>1. ASSUME Mic!Open PROVE MicQuiet'
  <2>1. /\ opened' = TRUE /\ current' = current + 1 /\ closing = "no" /\ ~opened /\ current + 1 \in MicGen
        /\ thread' = [thread EXCEPT ![current + 1] = "loop"]
        /\ meant' = [s \in Sub |-> IF s \in subs /\ meant[s] = 0 THEN current + 1 ELSE meant[s]]
        /\ UNCHANGED <<closing, stop, subs, use, queue, fan>>
    BY <1>1 DEF Mic!Open, Mic!Unlocked
  <2>2. \A s \in Sub : meant'[s] \in {meant[s], current + 1} /\ (meant[s] # 0 => meant'[s] = meant[s])
    BY <2>1 DEF MicTypes
  <2>3. MicStops'
    BY <1>0, <2>1 DEF MicTypes, MicStops, MicThreads
  <2>4. \A s \in subs : meant[s] = 0
    BY <1>0, <2>1 DEF MicSubscribed
  <2>5. MicSubscribed'
    BY <1>0, <2>1, <2>4 DEF MicTypes, MicSubscribed
  <2>6. MicHears'
    <3>1. ASSUME NEW w \in Mic!Sender, fan[w] # None PROVE fan[w].item \in Nat /\ fan[w].to \subseteq Sub
      BY <1>0, <3>1, MicFanOuts
    <3>2. \A w \in Mic!Sender : fan[w] # None => fan[w].item <= current + 1
      BY <1>0, <3>1 DEF MicTypes, MicHears
    <3>3. ASSUME NEW w \in Mic!Sender, fan[w] # None, NEW s \in fan[w].to
          PROVE  use[s] # "new" /\ (meant'[s] = 0 \/ fan[w].item <= meant'[s])
      BY <1>0, <2>2, <3>1, <3>3, <3>2 DEF MicTypes, MicHears
    <3>4. ASSUME NEW s \in Sub, NEW i \in 1..Len(queue[s])
          PROVE  queue[s][i] <= current + 1 /\ (meant'[s] = 0 \/ queue[s][i] <= meant'[s])
      <4>1. queue[s][i] \in Nat
        BY <1>0 DEF MicTypes
      <4>2. queue[s][i] <= current /\ (meant[s] = 0 \/ queue[s][i] <= meant[s])
        BY <1>0 DEF MicHears
      <4> QED BY <1>0, <2>2, <4>1, <4>2 DEF MicTypes
    <3> QED BY <1>0, <2>1, <3>2, <3>3, <3>4 DEF MicHears
  <2> QED BY <2>3, <2>5, <2>6 DEF MicQuiet
<1>2. ASSUME Mic!OpenFails PROVE MicQuiet'
  <2>1. /\ current' = current + 1 /\ closing = "no" /\ ~opened
        /\ UNCHANGED <<opened, closing, thread, stop, subs, use, meant, queue, fan>>
    BY <1>2 DEF Mic!OpenFails, Mic!Unlocked, Mic!subVars
  <2>2. MicStops' /\ MicSubscribed'
    BY <1>0, <2>1 DEF MicTypes, MicStops, MicSubscribed
  <2>3. MicHears'
    <3>1. ASSUME NEW w \in Mic!Sender, fan[w] # None PROVE fan[w].item <= current + 1
      <4>1. fan[w].item \in Nat /\ fan[w].item <= current
        BY <1>0, <3>1, MicFanOuts DEF MicHears
      <4> QED BY <1>0, <4>1 DEF MicTypes
    <3>2. ASSUME NEW s \in Sub, NEW i \in 1..Len(queue[s]) PROVE queue[s][i] <= current + 1
      <4>1. queue[s][i] \in Nat /\ queue[s][i] <= current
        BY <1>0 DEF MicTypes, MicHears
      <4> QED BY <1>0, <4>1 DEF MicTypes
    <3> QED BY <1>0, <2>1, <3>1, <3>2 DEF MicHears
  <2> QED BY <2>2, <2>3 DEF MicQuiet
<1>3. ASSUME Mic!Close PROVE MicQuiet'
  <2>1. /\ opened /\ opened' = FALSE /\ stop' = stop \cup {current} /\ closing' = "joining" /\ closing = "no"
        /\ UNCHANGED <<current, thread, subs, use, meant, queue, fan>>
    BY <1>3 DEF Mic!Close, Mic!Unlocked, Mic!subVars
  <2>2. MicStops' /\ MicSubscribed' /\ MicHears'
    BY <1>0, <2>1 DEF MicTypes, MicStops, MicSubscribed, MicHears
  <2> QED BY <2>2 DEF MicQuiet
<1>4. ASSUME Mic!CloseJoined PROVE MicQuiet'
  <2>1. /\ closing = "joining" /\ closing' = "no" /\ thread[current] \in {"none", "dead"}
        /\ UNCHANGED <<opened, current, thread, stop, subs, use, meant, queue, fan>>
    BY <1>4 DEF Mic!CloseJoined, Mic!Alive, Mic!subVars
  <2>2. MicStops' /\ MicSubscribed' /\ MicHears'
    BY <1>0, <2>1 DEF MicTypes, MicStops, MicSubscribed, MicHears
  <2> QED BY <2>2 DEF MicQuiet
<1>5. ASSUME NEW g \in MicGen, Mic!Loop(g) \/ Mic!NothingToSend(g) \/ Mic!ReleaseStream(g) PROVE MicQuiet'
  <2>1. PICK place \in {"finally", "loop", "reading", "released"} :
          /\ thread[g] \notin {"none", "dead", "telling"} /\ thread' = [thread EXCEPT ![g] = place]
          /\ place \in {"finally", "released"} => g \in stop
          /\ UNCHANGED <<opened, current, closing, stop, subs, use, meant, queue, fan>>
    BY <1>0, <1>5 DEF Mic!Loop, Mic!NothingToSend, Mic!ReleaseStream, Mic!subVars, MicStops
  <2>2. g = current
    BY <1>0, <2>1 DEF MicThreads, Mic!Alive
  <2>3. MicStops'
    BY <1>0, <2>1, <2>2 DEF MicTypes, MicStops
  <2>4. MicSubscribed'
    BY <1>0, <2>1, <2>2 DEF MicTypes, MicSubscribed
  <2>5. MicHears'
    BY <1>0, <2>1 DEF MicHears
  <2> QED BY <2>3, <2>4, <2>5 DEF MicQuiet
<1>6. ASSUME NEW g \in MicGen, Mic!Dispatch(g) PROVE MicQuiet'
  <2>1. /\ thread[g] = "reading" /\ thread' = [thread EXCEPT ![g] = "sending"]
        /\ fan' = [fan EXCEPT ![g] = [item |-> g, to |-> subs]]
        /\ UNCHANGED <<opened, current, closing, stop, subs, use, meant, queue>>
    BY <1>6 DEF Mic!Dispatch
  <2>2. g = current
    BY <1>0, <2>1 DEF MicThreads, Mic!Alive
  <2>3. MicStops' /\ MicSubscribed'
    BY <1>0, <2>1, <2>2 DEF MicTypes, MicStops, MicSubscribed
  <2>4. fan'[g].item = g /\ fan'[g].to = subs /\ \A w \in Mic!Sender : w # g => fan'[w] = fan[w]
    BY <1>0, <2>1 DEF MicTypes
  <2>5. \A s \in subs : use[s] # "new" /\ (meant[s] = 0 \/ g <= meant[s])
    BY <1>0, <2>2 DEF MicTypes, MicSubscribed
  <2>6. MicHears'
    BY <1>0, <2>1, <2>2, <2>4, <2>5 DEF MicTypes, MicHears
  <2> QED BY <2>3, <2>6 DEF MicQuiet
<1>7. ASSUME NEW w \in Mic!Sender, Mic!NotifyClosed(w), UNCHANGED <<opened, current, stop>>,
             \/ w = 0 /\ thread' = thread /\ closing = "joining" /\ closing' = "notifying"
             \/ w \in MicGen /\ thread[w] = "released" /\ thread' = [thread EXCEPT ![w] = "telling"] /\ closing' = closing
      PROVE  MicQuiet'
  <2>1. fan' = [fan EXCEPT ![w] = [item |-> 0, to |-> subs]] /\ subs' = {} /\ UNCHANGED <<use, meant, queue>>
    BY <1>7 DEF Mic!NotifyClosed
  <2>2. w \in MicGen => w = current
    BY <1>0, <1>7 DEF MicThreads, Mic!Alive
  <2>3. MicStops' /\ MicSubscribed'
    BY <1>0, <1>7, <2>1, <2>2 DEF MicTypes, MicStops, MicSubscribed
  <2>4. fan'[w].item = 0 /\ fan'[w].to = subs /\ \A v \in Mic!Sender : v # w => fan'[v] = fan[v]
    BY <1>0, <2>1 DEF MicTypes
  <2>5. \A s \in subs : use[s] # "new" /\ meant[s] \in Nat
    BY <1>0 DEF MicTypes, MicSubscribed
  <2>6. MicHears'
    BY <1>0, <1>7, <2>1, <2>4, <2>5 DEF MicTypes, MicHears
  <2> QED BY <2>3, <2>6 DEF MicQuiet
<1>8. ASSUME NEW w \in Mic!Sender, Mic!Deliver(w) PROVE MicQuiet'
  <2>1. PICK s \in fan[w].to : Mic!Enqueue(s, fan[w].item) /\ fan' = [fan EXCEPT ![w].to = @ \ {s}]
    BY <1>8 DEF Mic!Deliver
  <2>2. /\ fan[w] # None /\ UNCHANGED <<opened, current, closing, thread, stop, subs, use, meant>>
    BY <1>8 DEF Mic!Deliver, Mic!streamVars
  <2>3. fan[w] \in FanOut /\ fan[w].item \in Nat /\ fan[w].to \subseteq Sub /\ s \in Sub
    BY <1>0, <2>2, MicFanOuts
  <2>4. fan'[w].item = fan[w].item /\ fan'[w].to = fan[w].to \ {s} /\ \A v \in Mic!Sender : v # w => fan'[v] = fan[v]
    BY <1>0, <2>1, <2>3 DEF MicTypes, FanOut
  <2>5. /\ queue'[s] = IF Len(queue[s]) < MicRoom THEN Append(queue[s], fan[w].item) ELSE Append(Tail(queue[s]), fan[w].item)
        /\ \A t \in Sub : t # s => queue'[t] = queue[t]
    <3>1. queue' = [queue EXCEPT ![s] = IF Len(queue[s]) < MicRoom THEN Append(queue[s], fan[w].item)
                                        ELSE Append(Tail(queue[s]), fan[w].item)]
      BY <2>1 DEF Mic!Enqueue
    <3> QED BY <1>0, <2>3, <3>1 DEF MicTypes
  <2>6. queue[s] \in Seq(Nat) /\ Len(queue[s]) <= MicRoom
    BY <1>0, <2>3 DEF MicTypes
  <2>7. \A i \in 1..Len(queue'[s]) : queue'[s][i] = fan[w].item \/ \E j \in 1..Len(queue[s]) : queue'[s][i] = queue[s][j]
    <3> DEFINE r == queue'[s]
               q == queue[s]
    <3>1. r = IF Len(q) < MicRoom THEN Append(q, fan[w].item) ELSE Append(Tail(q), fan[w].item)
      BY <2>5
    <3>2. q \in Seq(Nat) /\ Len(q) <= MicRoom /\ fan[w].item \in Nat
      BY <2>3, <2>6
    <3> HIDE DEF r, q
    <3>3. \A i \in 1..Len(r) : r[i] = fan[w].item \/ \E j \in 1..Len(q) : r[i] = q[j]
      BY <3>1, <3>2, Enqueued
    <3> QED BY <3>3 DEF r, q
  <2>8. use[s] # "new" /\ fan[w].item <= current /\ (meant[s] = 0 \/ fan[w].item <= meant[s])
    BY <1>0, <2>1, <2>2 DEF MicHears
  <2>9. MicHears'
    <3>1. ASSUME NEW t \in Sub, NEW i \in 1..Len(queue'[t])
          PROVE  queue'[t][i] <= current /\ (meant[t] = 0 \/ queue'[t][i] <= meant[t])
      <4>1. CASE t # s
        <5>1. queue'[t] = queue[t]
          BY <2>5, <4>1
        <5> QED BY <1>0, <5>1 DEF MicHears
      <4>2. CASE t = s
        <5>1. CASE queue'[s][i] = fan[w].item
          BY <2>8, <4>2, <5>1
        <5>2. ASSUME NEW j \in 1..Len(queue[s]), queue'[s][i] = queue[s][j]
              PROVE  queue'[s][i] <= current /\ (meant[s] = 0 \/ queue'[s][i] <= meant[s])
          BY <1>0, <2>3, <5>2 DEF MicHears
        <5> QED BY <2>7, <4>2, <5>1, <5>2
      <4> QED BY <4>1, <4>2
    <3>2. \A v \in Mic!Sender : fan'[v] # None =>
            fan'[v].item <= current
            /\ \A t \in fan'[v].to : use[t] # "new" /\ (meant[t] = 0 \/ fan'[v].item <= meant[t])
      BY <1>0, <2>2, <2>4 DEF MicHears
    <3>3. \A t \in Sub : use[t] = "new" => queue'[t] = <<>>
      <4>1. \A t \in Sub : use[t] = "new" => t # s
        BY <2>8
      <4> QED BY <1>0, <2>5, <4>1 DEF MicHears
    <3> QED BY <2>2, <3>1, <3>2, <3>3 DEF MicHears
  <2>10. MicStops' /\ MicSubscribed'
    BY <1>0, <2>2 DEF MicStops, MicSubscribed
  <2> QED BY <2>9, <2>10 DEF MicQuiet
<1>9. ASSUME NEW w \in Mic!Sender, Mic!Delivered(w) PROVE MicQuiet'
  <2>1. /\ fan[w] # None /\ fan' = [fan EXCEPT ![w] = None] /\ fan[w].to = {}
        /\ UNCHANGED <<opened, current, stop, subs, use, meant, queue>>
    BY <1>9 DEF Mic!Delivered
  <2>2. MicHears'
    BY <1>0, <2>1 DEF MicTypes, MicHears
  <2>3. CASE w = 0
    <3>1. closing = "notifying" /\ closing' = "no" /\ thread' = thread
      BY <1>0, <1>9, <2>3 DEF Mic!Delivered, MicSenders
    <3>2. MicStops' /\ MicSubscribed'
      BY <1>0, <2>1, <3>1 DEF MicStops, MicSubscribed
    <3> QED BY <2>2, <3>2 DEF MicQuiet
  <2>4. CASE w # 0
    <3>1. w \in MicGen /\ thread[w] \in {"sending", "telling"} /\ closing' = closing
      BY <1>0, <1>9, <2>1, <2>4 DEF Mic!Delivered, MicSenders
    <3>2. PICK place \in {"loop", "dead"} :
            /\ thread' = [thread EXCEPT ![w] = place]
            /\ (place = "dead" <=> thread[w] = "telling")
      BY <1>0, <1>9, <2>4, <3>1 DEF Mic!Delivered, MicSenders
    <3>3. w = current
      BY <1>0, <3>1 DEF MicThreads, Mic!Alive
    <3>4. MicStops' /\ MicSubscribed'
      BY <1>0, <2>1, <3>1, <3>2, <3>3 DEF MicTypes, MicStops, MicSubscribed
    <3> QED BY <2>2, <3>4 DEF MicQuiet
  <2> QED BY <2>3, <2>4
<1>10. ASSUME NEW s \in Sub, Mic!Subscribe(s) PROVE MicQuiet'
  <2>1. /\ use[s] = "new" /\ use' = [use EXCEPT ![s] = "on"] /\ subs' = subs \cup {s}
        /\ meant' = [meant EXCEPT ![s] = IF opened THEN current ELSE 0]
        /\ UNCHANGED <<opened, current, closing, thread, stop, queue, fan>>
    BY <1>10 DEF Mic!Subscribe, Mic!streamVars
  <2>2. queue[s] = <<>> /\ s \notin subs /\ \A w \in Mic!Sender : fan[w] # None => s \notin fan[w].to
    BY <1>0, <2>1 DEF MicHears, MicSubscribed
  <2>3. MicStops' /\ MicSubscribed'
    BY <1>0, <2>1 DEF MicTypes, MicStops, MicSubscribed
  <2>4. \A t \in Sub : t # s => use'[t] = use[t] /\ meant'[t] = meant[t]
    BY <1>0, <2>1 DEF MicTypes
  <2>5. use'[s] = "on" /\ \A i \in 1..Len(queue[s]) : FALSE
    BY <1>0, <2>1, <2>2 DEF MicTypes
  <2>6. \A w \in Mic!Sender : fan[w] # None => \A t \in fan[w].to : t \in Sub /\ t # s
    BY <1>0, <2>2, MicFanOuts
  <2>7. MicHears'
    BY <1>0, <2>1, <2>4, <2>5, <2>6 DEF MicHears
  <2> QED BY <2>3, <2>7 DEF MicQuiet
<1>11. ASSUME NEW s \in Sub, Mic!Get(s) PROVE MicQuiet'
  <2>1. /\ use[s] = "on" /\ queue[s] # <<>> /\ queue' = [queue EXCEPT ![s] = Tail(@)]
        /\ \A t \in Sub : t # s => use'[t] = use[t]
        /\ use'[s] \in {"on", "ended"}
        /\ UNCHANGED <<opened, current, closing, thread, stop, subs, meant, fan>>
    BY <1>0, <1>11 DEF Mic!Get, Mic!streamVars, MicTypes
  <2>2. queue[s] \in Seq(Nat) /\ queue'[s] = Tail(queue[s]) /\ \A t \in Sub : t # s => queue'[t] = queue[t]
    BY <1>0, <2>1 DEF MicTypes
  <2>3. \A i \in 1..Len(queue'[s]) : i + 1 \in 1..Len(queue[s]) /\ queue'[s][i] = queue[s][i + 1]
    <3> DEFINE q == queue[s]
    <3>1. q \in Seq(Nat) /\ q # <<>> /\ queue'[s] = Tail(q)
      BY <2>1, <2>2
    <3> HIDE DEF q
    <3>2. \A i \in 1..Len(Tail(q)) : i + 1 \in 1..Len(q) /\ Tail(q)[i] = q[i + 1]
      BY <3>1, Taken
    <3> QED BY <3>1, <3>2 DEF q
  <2>4. \A t \in Sub : use'[t] = "new" => use[t] = "new" /\ t # s
    BY <2>1
  <2>5. MicHears'
    <3>1. ASSUME NEW t \in Sub, NEW i \in 1..Len(queue'[t])
          PROVE  queue'[t][i] <= current /\ (meant[t] = 0 \/ queue'[t][i] <= meant[t])
      <4>1. \A j \in 1..Len(queue[t]) : queue[t][j] <= current /\ (meant[t] = 0 \/ queue[t][j] <= meant[t])
        BY <1>0 DEF MicHears
      <4>2. CASE t = s
        <5>1. i + 1 \in 1..Len(queue[s]) /\ queue'[s][i] = queue[s][i + 1]
          BY <2>3, <4>2
        <5> QED BY <4>1, <4>2, <5>1
      <4>3. CASE t # s
        <5>1. queue'[t] = queue[t]
          BY <2>2, <4>3
        <5> QED BY <4>1, <5>1
      <4> QED BY <4>2, <4>3
    <3>2. \A v \in Mic!Sender : fan[v] # None =>
            /\ fan[v].item <= current
            /\ \A t \in fan[v].to : use'[t] # "new" /\ (meant[t] = 0 \/ fan[v].item <= meant[t])
      BY <1>0, <2>4, MicFanOuts DEF MicHears
    <3>3. \A t \in Sub : use'[t] = "new" => queue'[t] = <<>>
      BY <1>0, <2>2, <2>4 DEF MicHears
    <3> QED BY <2>1, <3>1, <3>2, <3>3 DEF MicHears
  <2>6. MicStops' /\ MicSubscribed'
    BY <1>0, <2>1, <2>4 DEF MicTypes, MicStops, MicSubscribed
  <2> QED BY <2>5, <2>6 DEF MicQuiet
<1>12. ASSUME NEW s \in Sub, Mic!Unsubscribe(s) PROVE MicQuiet'
  <2>1. /\ use' = [use EXCEPT ![s] = "off"] /\ subs' = subs \ {s}
        /\ UNCHANGED <<opened, current, closing, thread, stop, meant, queue, fan>>
    BY <1>12 DEF Mic!Unsubscribe, Mic!streamVars
  <2>2. \A t \in Sub : use'[t] = "new" => use[t] = "new"
    BY <1>0, <2>1 DEF MicTypes
  <2>3. MicStops' /\ MicSubscribed'
    BY <1>0, <2>1, <2>2 DEF MicTypes, MicStops, MicSubscribed
  <2>4. MicHears'
    BY <1>0, <2>1, <2>2, MicFanOuts DEF MicHears
  <2> QED BY <2>3, <2>4 DEF MicQuiet
<1>13. CASE Mic!MicOpen \/ Mic!MicRecord \/ Mic!MicRecorded \/ Mic!MicClose
  <2>1. UNCHANGED <<opened, current, closing, thread, stop, subs, use, meant, queue, fan>>
    BY <1>13 DEF Mic!MicOpen, Mic!MicRecord, Mic!MicRecorded, Mic!MicClose, Mic!streamVars, Mic!subVars
  <2> QED BY <1>0, <2>1 DEF MicQuiet, MicStops, MicSubscribed, MicHears
<1>14. ASSUME Mic!CloseGivesUp PROVE MicQuiet'
  BY <1>7, <1>14 DEF Mic!CloseGivesUp
<1>15. ASSUME NEW g \in MicGen, Mic!ThreadEnds(g) PROVE MicQuiet'
  BY <1>7, <1>15 DEF Mic!ThreadEnds
<1> QED BY <1>1, <1>2, <1>3, <1>4, <1>5, <1>6, <1>8, <1>9, <1>10, <1>11, <1>12, <1>13, <1>14, <1>15 DEF Mic!Next, Mic!Dies

MicBounded == \A s \in Sub : Len(queue[s]) <= MicRoom

LEMMA MicBoundedStep == ASSUME MicInv, MicBounded, Mic!Next PROVE MicBounded'
<1> USE DEF MicBounded
<1>0. MicTypes
  BY DEF MicInv
<1>1. ASSUME NEW w \in Mic!Sender, Mic!Deliver(w) PROVE MicBounded'
  <2>1. PICK s \in fan[w].to : Mic!Enqueue(s, fan[w].item)
    BY <1>1 DEF Mic!Deliver
  <2>2. fan[w].item \in Nat /\ s \in Sub
    BY <1>0, <1>1, <2>1, MicFanOuts DEF Mic!Deliver
  <2>3. queue' = [queue EXCEPT ![s] = IF Len(queue[s]) < MicRoom THEN Append(queue[s], fan[w].item)
                                      ELSE Append(Tail(queue[s]), fan[w].item)]
    BY <2>1 DEF Mic!Enqueue
  <2> DEFINE r == queue'[s]
             q == queue[s]
  <2>4. r = IF Len(q) < MicRoom THEN Append(q, fan[w].item) ELSE Append(Tail(q), fan[w].item)
    BY <1>0, <2>2, <2>3 DEF MicTypes
  <2>5. \A t \in Sub : t # s => queue'[t] = queue[t]
    BY <1>0, <2>3 DEF MicTypes
  <2>6. q \in Seq(Nat) /\ Len(q) <= MicRoom
    BY <1>0, <2>2 DEF MicTypes
  <2> HIDE DEF r, q
  <2>7. Len(r) <= MicRoom
    BY <2>2, <2>4, <2>6, Enqueued
  <2> QED BY <2>5, <2>7 DEF r
<1>2. ASSUME NEW s \in Sub, Mic!Get(s) PROVE MicBounded'
  <2> DEFINE q == queue[s]
  <2>1. q \in Seq(Nat) /\ q # <<>> /\ queue'[s] = Tail(q) /\ \A t \in Sub : t # s => queue'[t] = queue[t]
    BY <1>0, <1>2 DEF Mic!Get, MicTypes
  <2>2. Len(q) <= MicRoom
    OBVIOUS
  <2> HIDE DEF q
  <2>3. Len(Tail(q)) = Len(q) - 1 /\ Len(q) \in Nat
    BY <2>1, Taken
  <2>4. Len(queue'[s]) <= MicRoom
    BY <2>1, <2>2, <2>3, MicNames
  <2> QED BY <2>1, <2>4
<1>3. CASE UNCHANGED queue
  BY <1>3
<1> QED BY <1>1, <1>2, <1>3
     DEF Mic!Next, Mic!Open, Mic!OpenFails, Mic!Close, Mic!CloseJoined, Mic!CloseGivesUp, Mic!NotifyClosed, Mic!Loop,
         Mic!NothingToSend, Mic!Dies, Mic!Dispatch, Mic!ReleaseStream, Mic!ThreadEnds, Mic!Delivered, Mic!Subscribe,
         Mic!Unsubscribe, Mic!MicOpen, Mic!MicRecord, Mic!MicRecorded, Mic!MicClose, Mic!subVars

(* A chunk is on its way to a subscriber.                                  *)
Pending(s) == \E g \in MicGen : fan[g] # None /\ fan[g].item # 0 /\ s \in fan[g].to

(* The end is on its way, or in the queue where the chunk that may still   *)
(* be on its way does not push it out.                                     *)
Kept(s) ==
  \/ Mic!BeingTold(s)
  \/ \E i \in 1..Len(queue[s]) : queue[s][i] = 0 /\ (Pending(s) => i >= 2 \/ Len(queue[s]) < MicRoom)

MicTold == \A s \in Sub : use[s] = "on" /\ s \notin subs => Kept(s)

(* A step that sends a subscriber nothing new and loses no telling.        *)
LEMMA KeptStays ==
  ASSUME NEW s \in Sub, Kept(s), queue'[s] = queue[s], Mic!BeingTold(s) => Mic!BeingTold(s)', Pending(s)' => Pending(s)
  PROVE  Kept(s)'
  BY DEF Kept

LEMMA MicToldStep ==
  ASSUME MicRoom >= 2, MicInv, MicBounded, MicTold, Mic!Next PROVE MicTold'
<1> USE MicNames DEF Mic!Sender, Mic!End
<1>0. MicTypes /\ MicSenders /\ MicThreads
  BY DEF MicInv
<1>1. ASSUME NEW w \in Mic!Sender, Mic!Deliver(w) PROVE MicTold'
  <2>1. PICK s \in fan[w].to : Mic!Enqueue(s, fan[w].item) /\ fan' = [fan EXCEPT ![w].to = @ \ {s}]
    BY <1>1 DEF Mic!Deliver
  <2>2. /\ fan[w] # None /\ UNCHANGED <<subs, use>>
    BY <1>1 DEF Mic!Deliver
  <2>3. fan[w] \in FanOut /\ fan[w].item \in Nat /\ fan[w].to \subseteq Sub /\ s \in Sub
    BY <1>0, <2>2, MicFanOuts
  <2>4. /\ fan'[w] # None /\ fan'[w].item = fan[w].item /\ fan'[w].to = fan[w].to \ {s}
        /\ \A v \in Mic!Sender : v # w => fan'[v] = fan[v]
    <3>1. fan'[w] = [fan[w] EXCEPT !.to = fan[w].to \ {s}] /\ \A v \in Mic!Sender : v # w => fan'[v] = fan[v]
      BY <1>0, <2>1 DEF MicTypes
    <3>2. [fan[w] EXCEPT !.to = fan[w].to \ {s}] \in FanOut
      BY <2>3 DEF FanOut
    <3> QED BY <2>3, <3>1, <3>2 DEF FanOut
  <2>5. queue' = [queue EXCEPT ![s] = IF Len(queue[s]) < MicRoom THEN Append(queue[s], fan[w].item)
                                      ELSE Append(Tail(queue[s]), fan[w].item)]
    BY <2>1 DEF Mic!Enqueue
  <2>6. \A t \in Sub : t # s => queue'[t] = queue[t]
    BY <1>0, <2>5 DEF MicTypes
  <2>7. ASSUME NEW t \in Sub, t # s, Kept(t) PROVE Kept(t)'
    <3>1. Mic!BeingTold(t) => Mic!BeingTold(t)'
      BY <2>4, <2>7 DEF Mic!BeingTold
    <3>2. Pending(t)' => Pending(t)
      <4>1. ASSUME NEW g \in MicGen, fan'[g] # None, fan'[g].item # 0, t \in fan'[g].to
            PROVE  fan[g] # None /\ fan[g].item # 0 /\ t \in fan[g].to
        BY <4>1, <2>2, <2>4, <2>7
      <4> QED BY <4>1 DEF Pending
    <3> QED BY <2>6, <2>7, <3>1, <3>2, KeptStays
  <2> DEFINE r == queue'[s]
             q == queue[s]
  <2>8. r = IF Len(q) < MicRoom THEN Append(q, fan[w].item) ELSE Append(Tail(q), fan[w].item)
    BY <1>0, <2>3, <2>5 DEF MicTypes
  <2>9. q \in Seq(Nat) /\ Len(q) <= MicRoom
    BY <1>0, <2>3 DEF MicTypes, MicBounded
  <2>10. Kept(s) <=> Mic!BeingTold(s) \/ \E i \in 1..Len(q) : q[i] = 0 /\ (Pending(s) => i >= 2 \/ Len(q) < MicRoom)
    BY DEF Kept
  <2>11. Kept(s)' <=> Mic!BeingTold(s)' \/ \E i \in 1..Len(r) : r[i] = 0 /\ (Pending(s)' => i >= 2 \/ Len(r) < MicRoom)
    BY DEF Kept
  <2> HIDE DEF r, q
  <2>12. /\ Len(r) \in Nat /\ Len(r) >= 1 /\ Len(r) <= MicRoom /\ r[Len(r)] = fan[w].item
         /\ \A i \in 1..Len(q) : (i >= 2 \/ Len(q) < MicRoom) => \E j \in 1..Len(r) : r[j] = q[i]
    <3> DEFINE x == fan[w].item
    <3>1. x \in Nat /\ r = IF Len(q) < MicRoom THEN Append(q, x) ELSE Append(Tail(q), x)
      BY <2>3, <2>8
    <3> HIDE DEF x
    <3>2. /\ Len(r) \in Nat /\ Len(r) >= 1 /\ Len(r) <= MicRoom /\ r[Len(r)] = x
          /\ \A i \in 1..Len(q) : (i >= 2 \/ Len(q) < MicRoom) => \E j \in 1..Len(r) : r[j] = q[i]
      <4>1. Keeps(q, r)
        BY <3>1, <2>9, Enqueued
      <4>2. Len(r) \in Nat /\ Len(r) >= 1 /\ Len(r) <= MicRoom
        BY <3>1, <2>9, Enqueued
      <4>3. r[Len(r)] = x
        BY <3>1, <2>9, Enqueued
      <4> QED BY <4>1, <4>2, <4>3 DEF Keeps
    <3> QED BY <3>2 DEF x
  <2>13. CASE fan[w].item = 0
    <3>1. Len(r) \in 1..Len(r) /\ r[Len(r)] = 0 /\ (Len(r) >= 2 \/ Len(r) < MicRoom)
      BY <2>12, <2>13
    <3>2. Kept(s)'
      BY <2>11, <3>1
    <3> QED BY <2>2, <2>7, <3>2 DEF MicTold
  <2>14. CASE fan[w].item # 0
    <3>1. w \in MicGen /\ Pending(s)
      BY <1>0, <2>1, <2>2, <2>14 DEF Pending, MicSenders
    <3>2. ~Pending(s)'
      <4>1. \A g \in MicGen : fan[g] # None => g = w
        BY <1>0, <2>2, <3>1 DEF MicSenders, MicThreads, Mic!Alive
      <4> QED BY <2>4, <4>1 DEF Pending
    <3>3. Mic!BeingTold(s) => Mic!BeingTold(s)'
      BY <2>4, <2>14 DEF Mic!BeingTold
    <3>4. Kept(s) => Kept(s)'
      BY <2>10, <2>11, <2>12, <3>1, <3>2, <3>3
    <3> QED BY <2>2, <2>7, <3>4 DEF MicTold
  <2> QED BY <2>13, <2>14
<1>2. ASSUME NEW s \in Sub, Mic!Get(s) PROVE MicTold'
  <2>1. /\ queue[s] # <<>> /\ queue' = [queue EXCEPT ![s] = Tail(@)] /\ UNCHANGED <<subs, fan>>
        /\ use' = [use EXCEPT ![s] = IF Head(queue[s]) = 0 THEN "ended" ELSE @] /\ use[s] = "on"
    BY <1>2 DEF Mic!Get
  <2>2. /\ \A t \in Sub : t # s => queue'[t] = queue[t] /\ use'[t] = use[t]
        /\ use'[s] = "on" => Head(queue[s]) # 0
    BY <1>0, <2>1 DEF MicTypes
  <2>3. \A t \in Sub : (Mic!BeingTold(t) <=> Mic!BeingTold(t)') /\ (Pending(t) <=> Pending(t)')
    BY <2>1 DEF Mic!BeingTold, Pending
  <2>4. ASSUME NEW t \in Sub, t # s, Kept(t) PROVE Kept(t)'
    BY <2>2, <2>3, <2>4, KeptStays
  <2> DEFINE q == queue[s]
             r == queue'[s]
  <2>5. q \in Seq(Nat) /\ q # <<>> /\ r = Tail(q) /\ Len(q) <= MicRoom
    BY <1>0, <2>1 DEF MicTypes, MicBounded
  <2>6. Kept(s) <=> Mic!BeingTold(s) \/ \E i \in 1..Len(q) : q[i] = 0 /\ (Pending(s) => i >= 2 \/ Len(q) < MicRoom)
    BY DEF Kept
  <2>7. Kept(s)' <=> Mic!BeingTold(s)' \/ \E i \in 1..Len(r) : r[i] = 0 /\ (Pending(s)' => i >= 2 \/ Len(r) < MicRoom)
    BY DEF Kept
  <2>8. use'[s] = "on" => Head(q) # 0
    BY <2>2
  <2> HIDE DEF q, r
  <2>9. /\ Len(r) = Len(q) - 1 /\ Len(q) \in Nat /\ Head(q) = q[1]
        /\ \A i \in 1..Len(r) : r[i] = q[i + 1]
    BY <2>5, Taken
  <2>10. ASSUME use'[s] = "on", Kept(s) PROVE Kept(s)'
    <3>1. ASSUME NEW i \in 1..Len(q), q[i] = 0 PROVE \E j \in 1..Len(r) : r[j] = 0
      <4>1. i # 1
        BY <2>8, <2>9, <2>10, <3>1
      <4>2. i - 1 \in 1..Len(r) /\ r[i - 1] = q[i]
        BY <2>9, <4>1
      <4> QED BY <3>1, <4>2
    <3>2. Len(r) < MicRoom
      BY <2>5, <2>9
    <3> QED BY <2>3, <2>6, <2>7, <2>10, <3>1, <3>2
  <2> QED BY <2>1, <2>2, <2>4, <2>10 DEF MicTold
<1>3. ASSUME NEW w \in Mic!Sender, Mic!NotifyClosed(w), fan[w] = None PROVE MicTold'
  <2>1. fan' = [fan EXCEPT ![w] = [item |-> 0, to |-> subs]] /\ subs' = {} /\ UNCHANGED <<use, queue>>
    BY <1>3 DEF Mic!NotifyClosed
  <2>2. fan'[w] = [item |-> 0, to |-> subs] /\ \A v \in Mic!Sender : v # w => fan'[v] = fan[v]
    BY <1>0, <2>1 DEF MicTypes
  <2>3. fan'[w] # None
    <3>1. [item |-> 0, to |-> subs] \in FanOut
      BY <1>0 DEF FanOut, MicTypes
    <3> QED BY <2>2, <3>1
  <2>4. ASSUME NEW t \in subs PROVE Kept(t)'
    BY <2>2, <2>3 DEF Kept, Mic!BeingTold
  <2>5. ASSUME NEW t \in Sub, Kept(t) PROVE Kept(t)'
    <3>1. Mic!BeingTold(t) => Mic!BeingTold(t)'
      BY <1>3, <2>2 DEF Mic!BeingTold
    <3>2. Pending(t)' => Pending(t)
      <4>1. ASSUME NEW g \in MicGen, fan'[g] # None, fan'[g].item # 0, t \in fan'[g].to
            PROVE  fan[g] # None /\ fan[g].item # 0 /\ t \in fan[g].to
        BY <4>1, <2>2
      <4> QED BY <4>1 DEF Pending
    <3> QED BY <2>1, <2>5, <3>1, <3>2, KeptStays
  <2> QED BY <2>1, <2>4, <2>5 DEF MicTold
<1>4. ASSUME NEW g \in MicGen, Mic!Dispatch(g) PROVE MicTold'
  <2>1. fan' = [fan EXCEPT ![g] = [item |-> g, to |-> subs]] /\ UNCHANGED <<subs, use, queue>> /\ fan[g] = None
    BY <1>0, <1>4 DEF Mic!Dispatch, MicSenders
  <2>2. fan'[g] = [item |-> g, to |-> subs] /\ \A v \in Mic!Sender : v # g => fan'[v] = fan[v]
    BY <1>0, <2>1 DEF MicTypes
  <2>3. ASSUME NEW t \in Sub, t \notin subs, Kept(t) PROVE Kept(t)'
    <3>1. Mic!BeingTold(t) => Mic!BeingTold(t)'
      BY <2>1, <2>2 DEF Mic!BeingTold
    <3>2. Pending(t)' => Pending(t)
      <4>1. ASSUME NEW h \in MicGen, fan'[h] # None, fan'[h].item # 0, t \in fan'[h].to
            PROVE  fan[h] # None /\ fan[h].item # 0 /\ t \in fan[h].to
        BY <4>1, <2>2, <2>3
      <4> QED BY <4>1 DEF Pending
    <3> QED BY <2>1, <2>3, <3>1, <3>2, KeptStays
  <2> QED BY <2>1, <2>3 DEF MicTold
<1>5. ASSUME NEW w \in Mic!Sender, Mic!Delivered(w) PROVE MicTold'
  <2>1. fan' = [fan EXCEPT ![w] = None] /\ fan[w].to = {} /\ UNCHANGED <<subs, use, queue>>
    BY <1>5 DEF Mic!Delivered
  <2>2. fan'[w] = None /\ \A v \in Mic!Sender : v # w => fan'[v] = fan[v]
    BY <1>0, <2>1 DEF MicTypes
  <2>3. ASSUME NEW t \in Sub, Kept(t) PROVE Kept(t)'
    <3>1. Mic!BeingTold(t) => Mic!BeingTold(t)'
      BY <2>1, <2>2 DEF Mic!BeingTold
    <3>2. Pending(t)' => Pending(t)
      <4>1. ASSUME NEW g \in MicGen, fan'[g] # None, fan'[g].item # 0, t \in fan'[g].to
            PROVE  fan[g] # None /\ fan[g].item # 0 /\ t \in fan[g].to
        BY <4>1, <2>2
      <4> QED BY <4>1 DEF Pending
    <3> QED BY <2>1, <2>3, <3>1, <3>2, KeptStays
  <2> QED BY <2>1, <2>3 DEF MicTold
<1>6. ASSUME UNCHANGED <<queue, fan>>, \A t \in Sub : use'[t] = "on" /\ t \notin subs' => use[t] = "on" /\ t \notin subs
      PROVE  MicTold'
  <2>1. ASSUME NEW t \in Sub, Kept(t) PROVE Kept(t)'
    BY <1>6, <2>1 DEF Kept, Pending, Mic!BeingTold
  <2> QED BY <1>6, <2>1 DEF MicTold
<1>7. ASSUME NEW s \in Sub, Mic!Subscribe(s) \/ Mic!Unsubscribe(s) PROVE MicTold'
  <2>1. UNCHANGED <<queue, fan>> /\ \A t \in Sub : use'[t] = "on" /\ t \notin subs' => use[t] = "on" /\ t \notin subs
    BY <1>0, <1>7 DEF Mic!Subscribe, Mic!Unsubscribe, MicTypes
  <2> QED BY <1>6, <2>1
<1>8. ASSUME NEW g \in MicGen, Mic!ThreadEnds(g) PROVE MicTold'
  <2>1. fan[g] = None
    BY <1>0, <1>8 DEF Mic!ThreadEnds, MicSenders
  <2> QED BY <1>3, <1>8, <2>1 DEF Mic!ThreadEnds
<1>9. ASSUME Mic!CloseGivesUp PROVE MicTold'
  <2>1. fan[0] = None
    BY <1>0, <1>9 DEF Mic!CloseGivesUp, MicSenders
  <2> QED BY <1>3, <1>9, <2>1 DEF Mic!CloseGivesUp
<1>10. CASE UNCHANGED <<queue, fan, use, subs>>
  BY <1>6, <1>10
<1> QED BY <1>1, <1>2, <1>4, <1>5, <1>7, <1>8, <1>9, <1>10
     DEF Mic!Next, Mic!Open, Mic!OpenFails, Mic!Close, Mic!CloseJoined, Mic!Loop, Mic!NothingToSend, Mic!Dies,
         Mic!ReleaseStream, Mic!MicOpen, Mic!MicRecord, Mic!MicRecorded, Mic!MicClose, Mic!subVars

MicAll == MicInv /\ MicBounded /\ (ThreadsLast => MicQuiet) /\ (MicRoom >= 2 => MicTold)

LEMMA MicAllStart == Mic!Init => MicAll
<1> SUFFICES ASSUME Mic!Init PROVE MicAll
  OBVIOUS
<1>1. MicBounded
  BY MicNames DEF Mic!Init, MicBounded
<1>2. MicTold
  BY DEF Mic!Init, MicTold
<1> QED BY <1>1, <1>2, MicStart, MicQuietStart DEF MicAll

LEMMA MicAllStep == ASSUME MicAll, Mic!Next PROVE MicAll'
<1>1. MicInv' /\ MicBounded'
  BY MicStep, MicBoundedStep DEF MicAll
<1>2. ThreadsLast => MicQuiet'
  BY MicQuietStep DEF MicAll, MicBounded
<1>3. MicRoom >= 2 => MicTold'
  BY MicToldStep DEF MicAll
<1> QED BY <1>1, <1>2, <1>3 DEF MicAll, ThreadsLast

LEMMA MicAllStutters == ASSUME MicAll, UNCHANGED micOnly, UNCHANGED shared PROVE MicAll'
<1> USE DEF micOnly, shared
<1>1. MicInv'
  BY DEF MicAll, MicInv, MicTypes, MicSenders, MicThreads, Mic!Alive
<1>2. ThreadsLast => MicQuiet'
  BY DEF MicAll, MicQuiet, MicStops, MicSubscribed, MicHears
<1>3. MicRoom >= 2 => MicTold'
  BY DEF MicAll, MicTold, Kept, Pending, Mic!BeingTold
<1>4. MicBounded'
  BY DEF MicAll, MicBounded
<1> QED BY <1>1, <1>2, <1>3, <1>4 DEF MicAll, ThreadsLast

LEMMA MicEnds ==
  ASSUME MicAll
  PROVE  /\ Mic!DeviceIsReserved
         /\ ThreadsLast => Mic!NobodyEavesdrops
         /\ ThreadsLast /\ MicRoom >= 2 => Mic!NobodyWaitsInVain
<1>0. MicTypes
  BY DEF MicAll, MicInv
<1>1. Mic!DeviceIsReserved
  BY DEF MicAll, MicInv, MicThreads, Mic!DeviceIsReserved
<1>2. \A s \in Sub : queue[s] \in Seq(Nat) /\ DOMAIN queue[s] = 1..Len(queue[s])
  BY <1>0 DEF MicTypes
<1>3. ThreadsLast => Mic!NobodyEavesdrops
  BY <1>2 DEF MicAll, MicQuiet, MicHears, Mic!NobodyEavesdrops
<1>4. ASSUME ThreadsLast, MicRoom >= 2, ~opened, Mic!Unlocked, NEW s \in Sub, use[s] = "on", meant[s] \in stop
      PROVE  Mic!Told(s) \/ Mic!BeingTold(s)
  <2>1. meant[s] # 0
    BY <1>0, <1>4, MicNames DEF MicTypes
  <2>2. s \notin subs
    BY <1>4, <2>1 DEF MicAll, MicQuiet, MicSubscribed, Mic!Unlocked
  <2>3. Kept(s)
    BY <1>4, <2>2 DEF MicAll, MicTold
  <2> QED BY <1>2, <2>3 DEF Kept, Mic!Told, Mic!End
<1>5. ThreadsLast /\ MicRoom >= 2 => Mic!NobodyWaitsInVain
  BY <1>4 DEF Mic!NobodyWaitsInVain
<1> QED BY <1>1, <1>3, <1>5

------------------------------------------------------------------------------
(* The head camera                                                         *)

CameraTypes ==
  /\ cap \in BOOLEAN /\ held \in BOOLEAN /\ closePending \in BOOLEAN /\ closed \in BOOLEAN
  /\ late \in BOOLEAN /\ stuck \in BOOLEAN
  /\ lock \in Eye!Reader \cup {None}
  /\ at \in [Eye!Reader -> {"none", "check", "lock", "reading", "got", "ended"}]
  /\ main.at \in {"idle", "opening", "stopping", "closing", "locking", "clearing"}
  /\ asked \in [Eye!Reader -> Nat] /\ era \in Nat

(* Once close() has begun, and unless a read has begun since, the device   *)
(* is held for a close that will release it, or by a read that will.       *)
CameraCloses ==
  closed => /\ main.at # "opening"
            /\ ~late /\ held => closePending /\ (main.at \in {"closing", "locking"} \/ lock # None)

(* What a thread of this era has read or is reading was asked for in it.   *)
CameraEras == ~stuck => \A t \in CameraGen : at[t] \in {"reading", "got"} => asked[t] = era

CameraInv == CameraTypes /\ Eye!ReadsWhatIsOpen /\ CameraCloses /\ CameraEras /\ Eye!LatestIsFresh

LEMMA CameraNames == None \notin Eye!Reader /\ CameraGen \subseteq Eye!Reader
  BY CameraConstants DEF Eye!CameraAssumption, Eye!Reader

LEMMA CameraStart == Eye!Init => CameraInv
<1> USE CameraNames DEF Eye!Init, Eye!Idle
<1>1. Eye!Init => CameraTypes
  <2> SUFFICES ASSUME Eye!Init PROVE CameraTypes
    OBVIOUS
  <2>1. main.at = "idle" /\ at \in [Eye!Reader -> {"none"}] /\ asked \in [Eye!Reader -> Nat]
    OBVIOUS
  <2> QED BY <2>1 DEF CameraTypes
<1>2. Eye!Init => Eye!ReadsWhatIsOpen /\ CameraCloses /\ CameraEras /\ Eye!LatestIsFresh
  BY DEF Eye!ReadsWhatIsOpen, CameraCloses, CameraEras, Eye!LatestIsFresh
<1> QED BY <1>1, <1>2 DEF CameraInv

LEMMA CameraStep == ASSUME CameraInv, Eye!Next PROVE CameraInv'
<1> USE CameraNames
    DEF Eye!Goes, Eye!Release, Eye!NewEra, Eye!Idle, Eye!device, Eye!drainVars, Eye!ghosts, CameraInv
<1>1. ASSUME NEW t \in Eye!Reader, Eye!Wants(t) PROVE CameraInv'
  <2>1. PICK place \in {"ended", "lock"} : at' = [at EXCEPT ![t] = place]
    BY <1>1 DEF Eye!Wants
  <2>2. UNCHANGED <<cap, held, closePending, lock, closed, main, latest, era, asked, late, stuck>>
    BY <1>1 DEF Eye!Wants
  <2>3. CameraTypes' /\ CameraEras'
    BY <2>1, <2>2 DEF CameraTypes, CameraEras
  <2>4. Eye!ReadsWhatIsOpen' /\ CameraCloses' /\ Eye!LatestIsFresh'
    BY <2>1, <2>2 DEF CameraTypes, Eye!ReadsWhatIsOpen, CameraCloses, Eye!LatestIsFresh
  <2> QED BY <2>3, <2>4
<1>2. ASSUME NEW t \in Eye!Reader, Eye!Grab(t) PROVE CameraInv'
  <2>1. CameraTypes' /\ CameraEras'
    BY <1>2 DEF Eye!Grab, CameraTypes, CameraEras
  <2>2. Eye!ReadsWhatIsOpen' /\ CameraCloses' /\ Eye!LatestIsFresh'
    BY <1>2 DEF Eye!Grab, CameraTypes, Eye!ReadsWhatIsOpen, CameraCloses, Eye!LatestIsFresh
  <2> QED BY <2>1, <2>2
<1>3. ASSUME NEW t \in Eye!Reader, Eye!CannotOpen(t) PROVE CameraInv'
  <2>1. CameraTypes' /\ CameraEras'
    BY <1>3 DEF Eye!CannotOpen, CameraTypes, CameraEras
  <2>2. Eye!ReadsWhatIsOpen' /\ CameraCloses' /\ Eye!LatestIsFresh'
    BY <1>3 DEF Eye!CannotOpen, CameraTypes, Eye!ReadsWhatIsOpen, CameraCloses, Eye!LatestIsFresh
  <2> QED BY <2>1, <2>2
<1>4. ASSUME NEW t \in Eye!Reader, Eye!Refused(t) PROVE CameraInv'
  <2>1. CameraTypes' /\ CameraEras'
    BY <1>4 DEF Eye!Refused, CameraTypes, CameraEras
  <2>2. Eye!ReadsWhatIsOpen' /\ CameraCloses' /\ Eye!LatestIsFresh'
    BY <1>4 DEF Eye!Refused, CameraTypes, Eye!ReadsWhatIsOpen, CameraCloses, Eye!LatestIsFresh
  <2> QED BY <2>1, <2>2
<1>5. ASSUME NEW t \in Eye!Reader, Eye!Returns(t) PROVE CameraInv'
  <2>1. CameraTypes' /\ CameraEras'
    BY <1>5 DEF Eye!Returns, CameraTypes, CameraEras
  <2>2. Eye!ReadsWhatIsOpen' /\ CameraCloses' /\ Eye!LatestIsFresh'
    BY <1>5 DEF Eye!Returns, CameraTypes, Eye!ReadsWhatIsOpen, CameraCloses, Eye!LatestIsFresh
  <2> QED BY <2>1, <2>2
<1>6. ASSUME NEW t \in Eye!Reader, Eye!Publish(t) PROVE CameraInv'
  <2>1. CameraTypes' /\ CameraEras'
    BY <1>6 DEF Eye!Publish, CameraTypes, CameraEras
  <2>2. Eye!ReadsWhatIsOpen' /\ CameraCloses' /\ Eye!LatestIsFresh'
    BY <1>6 DEF Eye!Publish, CameraTypes, CameraEras, Eye!ReadsWhatIsOpen, CameraCloses, Eye!LatestIsFresh
  <2> QED BY <2>1, <2>2
<1>7. CASE Eye!Open \/ Eye!Opened
  <2>1. CameraTypes' /\ CameraEras'
    <3>1. CASE Eye!Open
      BY <3>1 DEF Eye!Open, CameraTypes, CameraEras
    <3>2. CASE Eye!Opened
      BY <3>2 DEF Eye!Opened, CameraTypes, CameraEras
    <3> QED BY <1>7, <3>1, <3>2
  <2>2. Eye!ReadsWhatIsOpen' /\ CameraCloses' /\ Eye!LatestIsFresh'
    BY <1>7 DEF Eye!Open, Eye!Opened, CameraTypes, Eye!ReadsWhatIsOpen, CameraCloses, Eye!LatestIsFresh
  <2> QED BY <2>1, <2>2
<1>8. CASE Eye!StartDrain
  <2>1. CameraTypes' /\ CameraEras'
    BY <1>8 DEF Eye!StartDrain, CameraTypes, CameraEras
  <2>2. Eye!ReadsWhatIsOpen' /\ CameraCloses' /\ Eye!LatestIsFresh'
    BY <1>8 DEF Eye!StartDrain, CameraTypes, Eye!ReadsWhatIsOpen, CameraCloses, Eye!LatestIsFresh
  <2> QED BY <2>1, <2>2
<1>9. CASE Eye!StopDrain \/ Eye!Close \/ Eye!Joined
  <2>1. CameraTypes' /\ CameraEras'
    <3>1. CASE Eye!StopDrain
      BY <3>1 DEF Eye!StopDrain, Eye!StopsDrain, CameraTypes, CameraEras
    <3>2. CASE Eye!Close
      BY <3>2 DEF Eye!Close, Eye!StopsDrain, CameraTypes, CameraEras
    <3>3. CASE Eye!Joined
      BY <3>3 DEF Eye!Joined, CameraTypes, CameraEras
    <3> QED BY <1>9, <3>1, <3>2, <3>3
  <2>2. Eye!ReadsWhatIsOpen' /\ CameraCloses' /\ Eye!LatestIsFresh'
    BY <1>9 DEF Eye!StopDrain, Eye!Close, Eye!StopsDrain, Eye!Joined, CameraTypes, Eye!ReadsWhatIsOpen, CameraCloses, Eye!LatestIsFresh
  <2> QED BY <2>1, <2>2
<1>10. CASE Eye!CloseDevice
  <2>1. CameraTypes' /\ CameraEras'
    BY <1>10 DEF Eye!CloseDevice, CameraTypes, CameraEras
  <2>2. Eye!ReadsWhatIsOpen' /\ CameraCloses' /\ Eye!LatestIsFresh'
    BY <1>10 DEF Eye!CloseDevice, CameraTypes, Eye!ReadsWhatIsOpen, CameraCloses, Eye!LatestIsFresh
  <2> QED BY <2>1, <2>2
<1>11. CASE Eye!Cleared
  <2>1. CameraTypes' /\ CameraEras'
    BY <1>11 DEF Eye!Cleared, CameraTypes, CameraEras
  <2>2. Eye!ReadsWhatIsOpen' /\ CameraCloses' /\ Eye!LatestIsFresh'
    BY <1>11 DEF Eye!Cleared, CameraTypes, Eye!ReadsWhatIsOpen, CameraCloses, Eye!LatestIsFresh
  <2> QED BY <2>1, <2>2
<1> QED BY <1>1, <1>2, <1>3, <1>4, <1>5, <1>6, <1>7, <1>8, <1>9, <1>10, <1>11 DEF Eye!Next

LEMMA CameraStutters == ASSUME CameraInv, UNCHANGED cameraOnly, UNCHANGED shared PROVE CameraInv'
  BY DEF CameraInv, CameraTypes, Eye!ReadsWhatIsOpen, CameraCloses, CameraEras, Eye!LatestIsFresh, cameraOnly, shared

LEMMA CameraEnds == ASSUME CameraInv PROVE Eye!ReadsWhatIsOpen /\ Eye!GivenUpIsReleased /\ Eye!LatestIsFresh
  BY DEF CameraInv, CameraCloses, Eye!GivenUpIsReleased, Eye!Idle

------------------------------------------------------------------------------
(* The face display: its port                                              *)

Reading == {t \in Port : thread[t].at \in {"reading", "closed"}}
Gone(p) == port[p] \in {"closed", "stuck"}

PortTypes ==
  /\ port \in [Port -> {"none", "opening", "open", "closed", "stuck"}]
  /\ handles \subseteq Port /\ ser \in Port \cup {None} /\ res \in Port \cup {None}
  /\ retained \in Port \cup {None} /\ crossed \subseteq Port
  /\ thread \in [Port -> [at : {"none", "loop", "reading", "closed", "cleared", "released"}, on : Port \cup {None}]]

(* What a connection or a reader has is a port that was opened, and not    *)
(* by an orphan.                                                           *)
PortOpened ==
  /\ \A p \in orphan \cap Port : port[p] # "open"
  /\ ser # None => port[ser] \notin {"none", "opening"} /\ ser \notin orphan
  /\ res # None => port[res] \notin {"none", "opening"}
  /\ \A t \in Reading :
       thread[t].on \in Port /\ port[thread[t].on] \notin {"none", "opening"} /\ thread[t].on \notin orphan
  /\ main = "connecting" => ser = None /\ res \in {retained, None}
  /\ \A p \in crossed : port[p] \notin {"none", "opening"}

(* Which open the connection, its reservation and the failed close belong  *)
(* to, where no earlier reader was there when the port was opened.         *)
PortKept ==
  /\ \A p \in Port \ crossed : port[p] \in {"opening", "open"} => p \in handles
  /\ \A p \in handles \ crossed : port[p] \in {"opening", "open"} \/ p = res \/ (p \in orphan /\ port[p] = "stuck")
  /\ ser # None => res \in {ser, None}
  /\ ser = None /\ res # None => res \in crossed \/ Gone(res)
  /\ main = "connecting" /\ retained # None => retained \in crossed \/ Gone(retained)
  /\ \A t \in Reading : thread[t].on \in crossed \/ thread[t].on = ser \/ Gone(thread[t].on)

(* A reader that is not done is beside a connection of before it, or of    *)
(* none.                                                                   *)
ReaderKept ==
  /\ ser # None /\ ser \notin crossed =>
       /\ res = ser
       /\ \A t \in Port : /\ thread[t].at \notin {"cleared", "released"}
                          /\ t \in Reading => thread[t].on = ser
                          /\ thread[t].at = "closed" => port[ser] = "closed"
  /\ \A t \in Port : thread[t].at = "released" /\ res \in handles => res \in crossed

PortInv == PortTypes /\ PortOpened /\ PortKept /\ ReaderKept

LEMMA DisplayNames ==
  /\ Port \subseteq Nat /\ None \notin Port
  /\ None \notin Caller /\ Face!Unasked \notin Caller
  BY DisplayConstants DEF Face!DisplayAssumption

LEMMA PortStart == Face!Init => PortInv
  BY DisplayNames DEF Face!Init, Face!NoThread, PortInv, PortTypes, PortOpened, PortKept, ReaderKept, Reading, Gone

(* The open: by connect, by the thread that opens, by the one that gave up. *)
LEMMA PortOpens ==
  ASSUME PortInv, NEW p \in Port,
         Face!Connect(p) \/ Face!Opens(p) \/ Face!OpenFails(p) \/ Face!TimesOut(p)
  PROVE  PortInv'
<1> USE DisplayNames DEF PortInv, Face!readers, Face!traffic, Gone
<1>1. /\ UNCHANGED <<ser, res, crossed, thread>>
      /\ port[p] \in {"none", "opening"} /\ port' \in [Port -> {"none", "opening", "open", "closed", "stuck"}]
      /\ \A q \in Port : q # p => port'[q] = port[q]
      /\ handles' \subseteq Port /\ retained' \in Port \cup {None}
      /\ \A q \in Port : q # p => (q \in handles' <=> q \in handles)
  BY DEF Face!Connect, Face!Opens, Face!OpenFails, Face!TimesOut, PortTypes
<1>2. PortTypes'
  BY <1>1 DEF PortTypes
<1>3. /\ orphan' \subseteq orphan \cup {p}
      /\ p \in orphan' => port'[p] # "open"
  BY <1>1 DEF Face!Connect, Face!Opens, Face!OpenFails, Face!TimesOut, PortTypes, PortOpened
<1>4. ser # p /\ res # p /\ \A t \in Reading : thread[t].on # p
  BY <1>1 DEF PortOpened
<1>5. Reading' = Reading
  BY <1>1 DEF Reading
<1>6. main' = "connecting" => ser = None /\ res \in {retained', None}
  BY DEF Face!Connect, Face!Opens, Face!OpenFails, Face!TimesOut, PortOpened
<1>7. PortOpened'
  BY <1>1, <1>3, <1>4, <1>5, <1>6 DEF PortOpened, PortTypes
<1>12. p \notin crossed
  BY <1>1 DEF PortOpened
<1>13. port[p] = "opening" => p \in handles
  BY <1>12 DEF PortKept
<1>8. /\ port'[p] \in {"opening", "open"} => p \in handles'
      /\ p \in handles' \ crossed => port'[p] \in {"opening", "open"} \/ (p \in orphan' /\ port'[p] = "stuck")
      /\ \A q \in orphan : q \in orphan'
  BY <1>13 DEF Face!Connect, Face!Opens, Face!OpenFails, Face!TimesOut, PortTypes
<1>14. \/ retained' = retained /\ (main' = "connecting" => main = "connecting")
       \/ retained' = res /\ ser = None
  BY DEF Face!Connect, Face!Opens, Face!OpenFails, Face!TimesOut
<1>9. main' = "connecting" /\ retained' # None => retained' \in Port /\ retained' # p /\ (retained' \in crossed \/ Gone(retained'))
  BY <1>1, <1>12, <1>14 DEF PortTypes, PortKept
<1>10. PortKept'
  BY <1>1, <1>4, <1>5, <1>8, <1>9 DEF PortKept, PortTypes, PortOpened
<1>11. ReaderKept'
  BY <1>1, <1>4, <1>5 DEF ReaderKept, PortTypes
<1> QED BY <1>2, <1>7, <1>10, <1>11

(* connect and disconnect, once the port is open.                          *)
LEMMA PortConnects == ASSUME PortInv, NEW p \in Port, Face!Connected(p) PROVE PortInv'
<1> USE DisplayNames DEF PortInv, Face!readers, Face!traffic, Gone
<1>1. /\ main = "connecting" /\ port[p] = "open" /\ ser = None /\ main' # "connecting"
      /\ ser' = p /\ res' = p /\ handles' = handles \ {retained} /\ retained' = None
      /\ crossed' = (IF Face!Alive = {} THEN crossed ELSE crossed \cup {p})
      /\ UNCHANGED <<port, orphan, thread>>
  BY DEF Face!Connected
<1>2. crossed \subseteq crossed' /\ (p \notin crossed' => \A t \in Port : thread[t].at = "none")
  BY <1>1 DEF Face!Alive
<1>3. PortTypes'
  BY <1>1 DEF PortTypes
<1>4. Reading' = Reading
  BY <1>1 DEF Reading
<1>5. PortOpened'
  BY <1>1, <1>4 DEF PortOpened, PortTypes
<1>6. \A q \in Port \ crossed' : port[q] \in {"opening", "open"} => q # retained
  BY <1>1, <1>2 DEF PortKept, PortTypes
<1>7. PortKept'
  BY <1>1, <1>2, <1>4, <1>6 DEF PortKept, PortTypes, PortOpened
<1>8. ReaderKept'
  BY <1>1, <1>2, <1>4 DEF ReaderKept, PortTypes, Reading
<1> QED BY <1>3, <1>5, <1>7, <1>8

LEMMA PortCloses == ASSUME PortInv, Face!Disconnected PROVE PortInv'
<1> USE DisplayNames DEF PortInv, Face!readers, Face!traffic, Gone
<1>1. /\ main' = "idle" /\ ser' = None /\ UNCHANGED <<orphan, retained, crossed, thread>>
      /\ \/ ser = None /\ UNCHANGED <<port, handles, res>>
         \/ ser # None /\ port' = [port EXCEPT ![ser] = "closed"] /\ handles' = handles \ {res} /\ res' = None
         \/ ser # None /\ port' = [port EXCEPT ![ser] = "stuck"] /\ UNCHANGED <<handles, res>>
  BY DEF Face!Disconnected
<1>2. PortTypes'
  BY <1>1 DEF PortTypes
<1>3. Reading' = Reading
  BY <1>1 DEF Reading
<1>4. \A q \in Port : port'[q] = port[q] \/ (q = ser /\ port'[q] \in {"closed", "stuck"})
  BY <1>1 DEF PortTypes
<1>5. PortOpened'
  BY <1>1, <1>3, <1>4 DEF PortOpened, PortTypes
<1>8. ser # None => res \in {ser, None} /\ (ser \notin crossed => res = ser)
  BY DEF PortKept, ReaderKept
<1>9. \A q \in Port \ crossed : port'[q] \in {"opening", "open"} => q \in handles'
  <2> TAKE q \in Port \ crossed
  <2> HAVE port'[q] \in {"opening", "open"}
  <2>1. q \in handles
    BY <1>4 DEF PortKept
  <2>2. ser # None => q # ser
    BY <1>1, <1>2 DEF PortTypes
  <2> QED BY <1>1, <1>8, <2>1, <2>2
<1>10. \A q \in handles' \ crossed : port'[q] \in {"opening", "open"} \/ q = res' \/ (q \in orphan /\ port'[q] = "stuck")
  <2> TAKE q \in handles' \ crossed
  <2>1. q \in Port /\ q \in handles
    BY <1>1 DEF PortTypes
  <2>2. CASE q = ser
    <3>1. res = q /\ ser # None
      BY <1>8, <2>1, <2>2
    <3> QED BY <1>1, <2>1, <3>1
  <2>3. CASE q # ser
    BY <1>1, <1>4, <1>8, <2>1, <2>3 DEF PortKept
  <2> QED BY <2>2, <2>3
<1>11. res' # None => res' \in crossed \/ port'[res'] \in {"closed", "stuck"}
  BY <1>1, <1>2, <1>4, <1>8 DEF PortKept, PortTypes
<1>12. \A t \in Reading : thread[t].on \in crossed \/ port'[thread[t].on] \in {"closed", "stuck"}
  <2> TAKE t \in Reading
  <2>1. thread[t].on \in Port
    BY DEF PortOpened
  <2>2. CASE thread[t].on = ser
    BY <1>1, <2>1, <2>2 DEF PortTypes
  <2>3. CASE thread[t].on # ser
    BY <1>4, <2>1, <2>3 DEF PortKept
  <2> QED BY <2>2, <2>3
<1>6. PortKept'
  BY <1>1, <1>3, <1>9, <1>10, <1>11, <1>12 DEF PortKept
<1>7. ReaderKept'
  BY <1>1, <1>3, <1>4 DEF ReaderKept, PortTypes
<1> QED BY <1>2, <1>5, <1>6, <1>7

(* A reader at its loop, starting, or ending there.                        *)
LEMMA PortReads ==
  ASSUME PortInv, UNCHANGED <<port, orphan, handles, ser, res, retained, crossed>>,
         main' = "connecting" => main = "connecting",
         NEW t \in Port, NEW r \in [at : {"none", "loop", "reading"}, on : Port \cup {None}],
         thread' = [thread EXCEPT ![t] = r], r.at = "reading" => r.on = ser /\ ser # None
  PROVE  PortInv'
<1> USE DisplayNames DEF PortInv, Gone
<1>1. PortTypes'
  BY DEF PortTypes
<1>2. /\ thread'[t] = r /\ \A u \in Port : u # t => thread'[u] = thread[u]
      /\ \A u \in Reading' : (u = t /\ r.at = "reading") \/ (u # t /\ u \in Reading)
  BY DEF PortTypes, Reading
<1>3. PortOpened'
  BY <1>1, <1>2 DEF PortOpened, PortTypes
<1>4. PortKept'
  BY <1>1, <1>2 DEF PortKept, PortTypes
<1>5. ReaderKept'
  BY <1>1, <1>2 DEF ReaderKept, PortTypes
<1> QED BY <1>1, <1>3, <1>4, <1>5

(* A reader whose read has failed: it closes, clears, gives back, forgets. *)
LEMMA PortFails ==
  ASSUME PortInv, NEW t \in Port, Face!ReadFails(t) \/ Face!Clears(t) \/ Face!GivesBack(t) \/ Face!Forgets(t)
  PROVE  PortInv'
<1> USE DisplayNames DEF PortInv, Face!readers, Face!traffic, Face!At, Face!NoThread, Gone
<1>1. CASE Face!ReadFails(t)
  <2> DEFINE q == thread[t].on
  <2>1. /\ thread[t].at = "reading" /\ t \in Reading /\ q \in Port /\ port[q] \notin {"none", "opening"} /\ q \notin orphan
        /\ UNCHANGED <<orphan, handles, ser, res, retained, crossed, main>>
    BY <1>1 DEF Face!ReadFails, PortTypes, PortOpened, Reading
  <2>2. \/ port' = [port EXCEPT ![q] = "closed"] /\ thread' = [thread EXCEPT ![t].at = "closed"]
        \/ /\ port[q] # "closed" /\ port' = [port EXCEPT ![q] = "stuck"]
           /\ thread' = [thread EXCEPT ![t] = [at |-> "none", on |-> None]]
    BY <1>1 DEF Face!ReadFails
  <2>a. q = thread[t].on
    OBVIOUS
  <2> HIDE DEF q
  <2>3. /\ port'[q] \in {"closed", "stuck"} /\ (port[q] = "closed" => port'[q] = "closed")
        /\ \A p \in Port : p # q => port'[p] = port[p]
        /\ \A u \in Port : u # t => thread'[u] = thread[u]
        /\ \/ thread'[t].at = "closed" /\ thread'[t].on = q /\ port'[q] = "closed"
           \/ thread'[t].at = "none"
    <3>1. /\ port'[q] \in {"closed", "stuck"} /\ (port[q] = "closed" => port'[q] = "closed")
          /\ \A p \in Port : p # q => port'[p] = port[p]
      BY <2>1, <2>2 DEF PortTypes
    <3>2. /\ \A u \in Port : u # t => thread'[u] = thread[u]
          /\ (thread'[t].at = "closed" /\ thread'[t].on = thread[t].on) \/ thread'[t].at = "none"
      BY <2>2 DEF PortTypes
    <3>3. thread'[t].at = "closed" => port'[q] = "closed"
      BY <2>1, <2>2, <3>1 DEF PortTypes
    <3> QED BY <2>a, <3>1, <3>2, <3>3
  <2>4. PortTypes'
    BY <2>1, <2>2 DEF PortTypes
  <2>5. \A u \in Reading' : (u = t /\ thread'[u].on = q) \/ (u # t /\ u \in Reading /\ thread'[u].on = thread[u].on)
    BY <2>3 DEF Reading
  <2>6. PortOpened'
    <3>1. \A p \in Port : port[p] \notin {"none", "opening"} => port'[p] \notin {"none", "opening"}
      BY <2>3
    <3>2. \A p \in Port : port[p] # "open" => port'[p] # "open"
      BY <2>3
    <3>3. \A u \in Reading' : thread'[u].on \in Port /\ port[thread'[u].on] \notin {"none", "opening"} /\ thread'[u].on \notin orphan
      BY <2>1, <2>5 DEF PortOpened
    <3> QED BY <2>1, <3>1, <3>2, <3>3 DEF PortOpened, PortTypes
  <2>7. q \in crossed \/ q = ser \/ Gone(q)
    BY <2>1, <2>a DEF PortKept
  <2>8. q \in handles \ crossed => q = res
    BY <2>1, <2>7 DEF PortKept, ReaderKept, PortTypes
  <2>b. \A p \in Port : (Gone(p) => port'[p] \in {"closed", "stuck"}) /\ (port'[p] \in {"opening", "open"} => port[p] \in {"opening", "open"})
    BY <2>3
  <2>c. \A p \in handles \ crossed : port'[p] \in {"opening", "open"} \/ p = res \/ (p \in orphan /\ port'[p] = "stuck")
    BY <2>3, <2>8 DEF PortKept, PortTypes
  <2>d. \A u \in Reading' : thread'[u].on \in crossed \/ thread'[u].on = ser \/ port'[thread'[u].on] \in {"closed", "stuck"}
    BY <2>3, <2>5, <2>b DEF PortKept, PortOpened
  <2>9. PortKept'
    BY <2>1, <2>b, <2>c, <2>d DEF PortKept, PortTypes
  <2>10. ser # None /\ ser \notin crossed => q = ser
    BY <2>1, <2>a DEF ReaderKept
  <2>11. ReaderKept'
    BY <2>1, <2>3, <2>4, <2>5, <2>10 DEF ReaderKept, PortTypes, Reading
  <2> QED BY <2>4, <2>6, <2>9, <2>11
<1>2. ASSUME UNCHANGED <<port, orphan, retained, crossed, main>>, thread[t].at \in {"closed", "cleared", "released"},
             thread' = [thread EXCEPT ![t].at = "cleared"] \/ thread' = [thread EXCEPT ![t].at = "released"]
               \/ thread' = [thread EXCEPT ![t] = [at |-> "none", on |-> None]]
      PROVE  /\ Reading' = Reading \ {t} /\ \A u \in Port : u # t => thread'[u] = thread[u]
             /\ thread' \in [Port -> [at : {"none", "loop", "reading", "closed", "cleared", "released"}, on : Port \cup {None}]]
             /\ thread'[t].at \in {"none", "cleared", "released"}
             /\ \A u \in Reading' : thread'[u].on = thread[u].on
  <2>1. /\ thread' \in [Port -> [at : {"none", "loop", "reading", "closed", "cleared", "released"}, on : Port \cup {None}]]
        /\ thread'[t].at \in {"none", "cleared", "released"} /\ \A u \in Port : u # t => thread'[u] = thread[u]
    BY <1>2 DEF PortTypes
  <2> QED BY <2>1 DEF Reading
<1>3. CASE Face!Clears(t)
  <2>1. /\ thread[t].at = "closed" /\ thread' = [thread EXCEPT ![t].at = "cleared"] /\ ser' = None
        /\ UNCHANGED <<port, orphan, handles, res, retained, crossed, main>>
    BY <1>3 DEF Face!Clears
  <2>2. /\ Reading' = Reading \ {t} /\ \A u \in Port : u # t => thread'[u] = thread[u]
        /\ thread' \in [Port -> [at : {"none", "loop", "reading", "closed", "cleared", "released"}, on : Port \cup {None}]]
        /\ \A u \in Reading' : thread'[u].on = thread[u].on
    BY <1>2, <2>1
  <2>3. PortTypes' /\ PortOpened'
    BY <2>1, <2>2 DEF PortTypes, PortOpened
  <2>4. ser # None => ser \in crossed \/ (port[ser] = "closed" /\ res = ser)
    BY <2>1 DEF ReaderKept
  <2>5. ser # None /\ res # None => res = ser
    BY DEF PortKept
  <2>6. res # None => res \in crossed \/ Gone(res)
    BY <2>4, <2>5 DEF PortKept
  <2>7. \A u \in Reading : thread[u].on \in crossed \/ Gone(thread[u].on)
    BY <2>4 DEF PortKept, PortOpened
  <2>8. PortKept'
    BY <2>1, <2>2, <2>6, <2>7 DEF PortKept
  <2>9. thread'[t].at = "cleared"
    BY <2>1 DEF PortTypes
  <2>10. ReaderKept'
    BY <2>1, <2>2, <2>9 DEF ReaderKept
  <2> QED BY <2>3, <2>8, <2>10
<1>4. CASE Face!GivesBack(t)
  <2>1. /\ thread[t].at = "cleared" /\ handles' = handles \ {res}
        /\ UNCHANGED <<port, orphan, ser, res, retained, crossed, main>>
        /\ thread' = [thread EXCEPT ![t].at = "released"] \/ thread' = [thread EXCEPT ![t] = [at |-> "none", on |-> None]]
    BY <1>4 DEF Face!GivesBack
  <2>2. /\ Reading' = Reading \ {t} /\ \A u \in Port : u # t => thread'[u] = thread[u]
        /\ thread' \in [Port -> [at : {"none", "loop", "reading", "closed", "cleared", "released"}, on : Port \cup {None}]]
        /\ \A u \in Reading' : thread'[u].on = thread[u].on
    BY <1>2, <2>1
  <2>3. PortTypes' /\ PortOpened'
    BY <2>1, <2>2 DEF PortTypes, PortOpened
  <2>4. ser # None => ser \in crossed
    BY <2>1 DEF ReaderKept
  <2>5. res # None => res \in crossed \/ Gone(res)
    BY <2>4 DEF PortKept, PortTypes
  <2>6. \A p \in Port \ crossed : port[p] \in {"opening", "open"} => p # res
    BY <2>5
  <2>7. PortKept'
    BY <2>1, <2>2, <2>6 DEF PortKept
  <2>8. ReaderKept'
    BY <2>1, <2>2, <2>4 DEF ReaderKept
  <2> QED BY <2>3, <2>7, <2>8
<1>5. CASE Face!Forgets(t)
  <2>1. /\ thread[t].at = "released" /\ thread' = [thread EXCEPT ![t] = [at |-> "none", on |-> None]] /\ res' = None
        /\ UNCHANGED <<port, orphan, handles, ser, retained, crossed, main>>
    BY <1>5 DEF Face!Forgets
  <2>2. /\ Reading' = Reading \ {t} /\ \A u \in Port : u # t => thread'[u] = thread[u]
        /\ thread' \in [Port -> [at : {"none", "loop", "reading", "closed", "cleared", "released"}, on : Port \cup {None}]]
        /\ \A u \in Reading' : thread'[u].on = thread[u].on
    BY <1>2, <2>1
  <2>3. PortTypes' /\ PortOpened'
    BY <2>1, <2>2 DEF PortTypes, PortOpened
  <2>4. (ser # None => ser \in crossed) /\ (res \in handles => res \in crossed)
    BY <2>1 DEF ReaderKept
  <2>5. PortKept'
    BY <2>1, <2>2, <2>4 DEF PortKept
  <2>6. ReaderKept'
    BY <2>1, <2>2, <2>4 DEF ReaderKept, PortTypes
  <2> QED BY <2>3, <2>5, <2>6
<1> QED BY <1>1, <1>3, <1>4, <1>5

LEMMA PortStays ==
  ASSUME PortInv, UNCHANGED <<port, orphan, handles, ser, res, retained, crossed, thread>>,
         main' = "connecting" => main = "connecting"
  PROVE  PortInv'
  BY DEF PortInv, PortTypes, PortOpened, PortKept, ReaderKept, Reading, Gone

LEMMA PortStep == ASSUME PortInv, Face!Next PROVE PortInv'
<1> USE DisplayNames DEF Face!ports, Face!readers, Face!traffic, Face!NoThread, Face!Loops
<1>1. ASSUME NEW p \in Port, Face!Starts(p) PROVE PortInv'
  <2> DEFINE r == [at |-> "loop", on |-> None]
  <2>1. r \in [at : {"none", "loop", "reading"}, on : Port \cup {None}] /\ r.at # "reading"
    OBVIOUS
  <2> QED BY <1>1, <2>1, PortReads DEF Face!Starts
<1>2. ASSUME Face!CannotStart \/ Face!Disconnect PROVE PortInv'
  BY <1>2, PortStays DEF Face!CannotStart, Face!Disconnect
<1>3. ASSUME NEW t \in Port, Face!LoopTop(t) PROVE PortInv'
  <2> DEFINE r == [at |-> "none", on |-> None]
  <2> DEFINE s == [at |-> "reading", on |-> ser]
  <2>1. r \in [at : {"none", "loop", "reading"}, on : Port \cup {None}] /\ r.at # "reading"
    OBVIOUS
  <2>2. s \in [at : {"none", "loop", "reading"}, on : Port \cup {None}] /\ s.on = ser
    BY DEF PortInv, PortTypes
  <2>3. CASE thread' = [thread EXCEPT ![t] = r]
    BY <1>3, <2>1, <2>3, PortReads DEF Face!LoopTop
  <2>4. CASE ser # None /\ thread' = [thread EXCEPT ![t] = s]
    BY <1>3, <2>2, <2>4, PortReads DEF Face!LoopTop
  <2> QED BY <1>3, <2>3, <2>4 DEF Face!LoopTop
<1>4. ASSUME NEW t \in Port, Face!ReadLine(t) \/ Face!Continues(t) PROVE PortInv'
  <2> DEFINE r == [at |-> "loop", on |-> None]
  <2>1. r \in [at : {"none", "loop", "reading"}, on : Port \cup {None}] /\ r.at # "reading"
    OBVIOUS
  <2> QED BY <1>4, <2>1, PortReads DEF Face!ReadLine, Face!Continues
<1>5. ASSUME NEW c \in Caller, Face!Send(c) \/ Face!Receive(c) \/ Face!ReadInline(c) \/ Face!GiveUp(c) PROVE PortInv'
  BY <1>5, PortStays DEF Face!Send, Face!Receive, Face!ReadInline, Face!GiveUp
<1>6. ASSUME Face!Answer \/ Face!Says PROVE PortInv'
  BY <1>6, PortStays DEF Face!Answer, Face!Says
<1> QED BY <1>1, <1>2, <1>3, <1>4, <1>5, <1>6, PortOpens, PortConnects, PortCloses, PortFails DEF Face!Next

LEMMA PortStutters == ASSUME PortInv, UNCHANGED displayOnly, UNCHANGED shared PROVE PortInv'
  BY PortStays DEF displayOnly, shared

------------------------------------------------------------------------------
(* The face display: its commands                                          *)

Lines == Caller \cup {Face!Unasked}

TrafficTypes ==
  /\ lock \in Caller \cup {None}
  /\ sent \in Seq(Caller) /\ line \in Seq(Lines) /\ replies \in Seq(Caller)
  /\ call \in [Caller -> [at : {"idle", "waiting"}, on : Port \cup {None}, reply : Caller \cup {None}]]
  /\ \A c \in Caller : call[c].at = "waiting" <=> lock = c

(* Without a connection nothing is under way.                              *)
Silent == ser = None => sent = <<>> /\ line = <<>>

NoCaller(seq) == \A i \in 1..Len(seq) : seq[i] \notin Caller

(* What is under way of commands is one line, of the command that holds    *)
(* the lock: still to be answered, on its way, or handed over by the       *)
(* reader to the queue that the command emptied when it began.             *)
OneUnderWay ==
  /\ \A i \in 1..Len(sent) : i = 1 /\ sent[i] = lock
  /\ \A i \in 1..Len(line) : line[i] \in Caller =>
       /\ line[i] = lock /\ sent = <<>>
       /\ \A j \in 1..Len(line) : line[j] \in Caller => j = i
  /\ \A c \in Caller : call[c].at = "waiting" /\ call[c].on = None /\ replies # <<>> =>
       /\ Len(replies) = 1 /\ replies[1] = c
       /\ sent = <<>> /\ NoCaller(line)

RepliesOwn == \A c \in Caller : call[c].reply \in {None, c}

TrafficInv == TrafficTypes /\ Silent /\ OneUnderWay /\ RepliesOwn

DisplayInv == PortInv /\ (Late = FALSE /\ ~strayed => TrafficInv)

LEMMA Rest ==
  ASSUME NEW S, NEW q \in Seq(S), q # <<>>
  PROVE  /\ Tail(q) \in Seq(S) /\ Len(Tail(q)) = Len(q) - 1 /\ Len(q) \in Nat /\ Len(q) >= 1
         /\ Head(q) = q[1] /\ Head(q) \in S
         /\ \A i \in 1..Len(Tail(q)) : i + 1 \in 1..Len(q) /\ Tail(q)[i] = q[i + 1]
<1>1. Tail(q) \in Seq(S) /\ Len(Tail(q)) = Len(q) - 1 /\ Len(q) \in Nat /\ Len(q) >= 1 /\ Head(q) \in S
  OBVIOUS
<1>2. \A i \in 1..Len(q) - 1 : Tail(q)[i] = q[i + 1]
  OBVIOUS
<1> QED BY <1>1, <1>2

LEMMA Appended ==
  ASSUME NEW S, NEW q \in Seq(S), NEW x \in S
  PROVE  /\ Append(q, x) \in Seq(S) /\ Len(Append(q, x)) = Len(q) + 1 /\ Len(q) \in Nat
         /\ Append(q, x)[Len(q) + 1] = x
         /\ \A i \in 1..Len(q) : Append(q, x)[i] = q[i]
         /\ \A i \in 1..Len(Append(q, x)) : i \in 1..Len(q) \/ i = Len(q) + 1
<1>1. /\ Append(q, x) \in Seq(S) /\ Len(Append(q, x)) = Len(q) + 1 /\ Len(q) \in Nat
      /\ Append(q, x)[Len(q) + 1] = x /\ \A i \in 1..Len(q) : Append(q, x)[i] = q[i]
  OBVIOUS
<1> QED BY <1>1

LEMMA TrafficStart == Face!Init => TrafficInv
<1> SUFFICES ASSUME Face!Init PROVE TrafficInv
  OBVIOUS
<1> USE DisplayNames DEF Face!Init, Face!Ready
<1>1. sent \in Seq(Caller) /\ line \in Seq(Lines) /\ replies \in Seq(Caller) /\ Len(sent) = 0 /\ Len(line) = 0
  OBVIOUS
<1>2. \A c \in Caller : call[c].at = "idle" /\ call[c].reply = None
  OBVIOUS
<1>3. call \in [Caller -> [at : {"idle", "waiting"}, on : Port \cup {None}, reply : Caller \cup {None}]]
  OBVIOUS
<1>4. TrafficTypes
  BY <1>1, <1>2, <1>3 DEF TrafficTypes
<1>5. Silent /\ OneUnderWay /\ RepliesOwn
  BY <1>1, <1>2 DEF Silent, OneUnderWay, RepliesOwn
<1> QED BY <1>4, <1>5 DEF TrafficInv

(* Whoever holds the lock: nothing under way is another's.                 *)
LEMMA NothingOfOthers ==
  ASSUME TrafficInv
  PROVE  /\ sent # <<>> => /\ lock \in Caller /\ Head(sent) = lock /\ Tail(sent) = <<>> /\ NoCaller(line)
         /\ lock = None => sent = <<>> /\ NoCaller(line)
         /\ ser = None => sent = <<>> /\ NoCaller(line)
         /\ lock # None /\ ~Face!Pending(lock) => sent = <<>> /\ NoCaller(line)
<1> USE DisplayNames
<1>1. sent \in Seq(Caller) /\ line \in Seq(Lines)
  BY DEF TrafficInv, TrafficTypes
<1>2. \A i \in 1..Len(sent) : i = 1 /\ sent[i] = lock
  BY DEF TrafficInv, OneUnderWay
<1>3. ASSUME sent # <<>> PROVE lock \in Caller /\ Head(sent) = lock /\ Tail(sent) = <<>> /\ NoCaller(line)
  <2>1. Len(sent) \in Nat /\ Len(sent) >= 1 /\ Head(sent) = sent[1] /\ Head(sent) \in Caller
        /\ Tail(sent) \in Seq(Caller) /\ Len(Tail(sent)) = Len(sent) - 1
    BY <1>1, <1>3, Rest
  <2>2. Len(sent) \in 1..Len(sent) /\ 1 \in 1..Len(sent)
    BY <2>1
  <2>3. Len(sent) = 1 /\ sent[1] = lock
    BY <1>2, <2>2
  <2>4. Tail(sent) = <<>>
    <3> DEFINE t == Tail(sent)
    <3>1. t \in Seq(Caller) /\ Len(t) = 0
      BY <2>1, <2>3
    <3> HIDE DEF t
    <3>2. t = <<>>
      BY <3>1, EmptySeq
    <3> QED BY <3>2 DEF t
  <2>5. NoCaller(line)
    BY <1>3 DEF TrafficInv, OneUnderWay, NoCaller
  <2> QED BY <2>1, <2>3, <2>4, <2>5
<1>4. ASSUME sent = <<>>, lock = None PROVE NoCaller(line)
  BY <1>4 DEF TrafficInv, OneUnderWay, NoCaller
<1>5. ASSUME ser = None PROVE sent = <<>> /\ NoCaller(line)
  BY <1>5 DEF TrafficInv, Silent, NoCaller
<1>6. ASSUME lock # None, ~Face!Pending(lock) PROVE sent = <<>> /\ NoCaller(line)
  <2>1. \A i \in DOMAIN sent : sent[i] # lock
    BY <1>6 DEF Face!Pending
  <2>2. \A i \in DOMAIN line : line[i] # lock
    BY <1>6 DEF Face!Pending
  <2>3. sent = <<>>
    <3> SUFFICES ASSUME sent # <<>> PROVE FALSE
      OBVIOUS
    <3>1. 1 \in DOMAIN sent /\ sent[1] = lock
      BY <1>1, <1>3, Rest
    <3> QED BY <2>1, <3>1
  <2>4. NoCaller(line)
    BY <1>1, <2>2 DEF TrafficInv, OneUnderWay, NoCaller
  <2> QED BY <2>3, <2>4
<1> QED BY <1>3, <1>4, <1>5, <1>6

(* A command ends, with its own reply or without one, when nothing of it   *)
(* is under way any more.                                                  *)
LEMMA CallEnds ==
  ASSUME TrafficInv, NEW c \in Caller, NEW r \in {None, c}, lock = c, Face!Answered(c, r),
         UNCHANGED <<ser, sent>>, sent = <<>>,
         line' \in Seq(Lines), replies' \in Seq(Caller), NoCaller(line)', ser = None => line' = <<>>
  PROVE  TrafficInv'
<1> USE DisplayNames
<1>1. call' = [call EXCEPT ![c] = [at |-> "idle", on |-> None, reply |-> r]] /\ lock' = None
  <2>1. [Face!Ready EXCEPT !.reply = r] = [at |-> "idle", on |-> None, reply |-> r]
    BY DEF Face!Ready
  <2> QED BY <2>1 DEF Face!Answered
<1>2. /\ call' \in [Caller -> [at : {"idle", "waiting"}, on : Port \cup {None}, reply : Caller \cup {None}]]
      /\ \A d \in Caller : d # c => call'[d] = call[d]
      /\ call'[c].at = "idle" /\ call'[c].reply = r
  BY <1>1 DEF TrafficInv, TrafficTypes
<1>3. \A d \in Caller : call'[d].at = "idle"
  <2>1. \A d \in Caller : call[d].at \in {"idle", "waiting"} /\ (call[d].at = "waiting" <=> lock = d)
    BY DEF TrafficInv, TrafficTypes
  <2> QED BY <1>2, <2>1
<1>4. TrafficTypes'
  BY <1>1, <1>2, <1>3 DEF TrafficInv, TrafficTypes
<1>5. Silent'
  BY DEF TrafficInv, Silent
<1>6. OneUnderWay'
  <2>1. Len(sent') = 0
    OBVIOUS
  <2> QED BY <1>3, <2>1 DEF OneUnderWay, NoCaller
<1>7. RepliesOwn'
  BY <1>2, <1>3 DEF TrafficInv, RepliesOwn
<1> QED BY <1>4, <1>5, <1>6, <1>7 DEF TrafficInv

LEMMA TrafficCalls ==
  ASSUME Late = FALSE, TrafficInv, NEW c \in Caller, ~strayed',
         Face!Send(c) \/ Face!Receive(c) \/ Face!ReadInline(c) \/ Face!GiveUp(c), ser \in Port \cup {None}
  PROVE  TrafficInv'
<1> USE DisplayNames
<1>0. /\ TrafficTypes /\ Silent /\ OneUnderWay /\ RepliesOwn
      /\ sent \in Seq(Caller) /\ line \in Seq(Lines) /\ replies \in Seq(Caller)
  BY DEF TrafficInv, TrafficTypes
<1>1. CASE Face!Send(c)
  <2>1. /\ ser # None /\ lock = None /\ lock' = c
        /\ call' = [call EXCEPT ![c] = [at |-> "waiting", on |-> IF reader = None THEN ser ELSE None, reply |-> None]]
        /\ replies' = (IF reader = None THEN replies ELSE <<>>)
        /\ sent' = Append(sent, c)
        /\ UNCHANGED <<ser, line>>
    BY <1>1 DEF Face!Send, Face!ports
  <2>2. sent = <<>> /\ NoCaller(line)
    BY <2>1, NothingOfOthers
  <2>3. sent' = <<c>> /\ sent' \in Seq(Caller) /\ Len(sent') = 1 /\ sent'[1] = c
    BY <2>1, <2>2
  <2>4. /\ call' \in [Caller -> [at : {"idle", "waiting"}, on : Port \cup {None}, reply : Caller \cup {None}]]
        /\ \A d \in Caller : d # c => call'[d] = call[d]
        /\ call'[c].at = "waiting" /\ call'[c].reply = None
        /\ call'[c].on = IF reader = None THEN ser ELSE None
    BY <1>0, <2>1 DEF TrafficTypes
  <2>5. \A d \in Caller : call'[d].at = "waiting" <=> d = c
    BY <1>0, <2>1, <2>4 DEF TrafficTypes
  <2>6. replies' \in Seq(Caller)
    BY <1>0, <2>1
  <2>7. TrafficTypes'
    BY <1>0, <2>1, <2>3, <2>4, <2>5, <2>6 DEF TrafficTypes
  <2>8. Silent'
    BY <2>1 DEF Silent
  <2>9. OneUnderWay'
    BY <2>1, <2>2, <2>3, <2>4, <2>5 DEF OneUnderWay, NoCaller
  <2>10. RepliesOwn'
    BY <1>0, <2>4 DEF RepliesOwn
  <2> QED BY <2>7, <2>8, <2>9, <2>10 DEF TrafficInv
<1>2. CASE Face!Receive(c)
  <2>1. /\ call[c].at = "waiting" /\ lock = c /\ UNCHANGED <<ser, sent, line>>
        /\ call[c].on = None /\ replies # <<>> /\ Face!Answered(c, Head(replies)) /\ replies' = Tail(replies)
    BY <1>0, <1>2 DEF Face!Receive, Face!ports, TrafficTypes
  <2>2. Len(replies) = 1 /\ replies[1] = c /\ sent = <<>> /\ NoCaller(line)
    BY <1>0, <2>1 DEF OneUnderWay
  <2>3. Head(replies) = c /\ replies' \in Seq(Caller)
    BY <1>0, <2>1, <2>2, Rest
  <2>4. ser = None => line' = <<>>
    BY <1>0, <2>1 DEF Silent
  <2>5. NoCaller(line)' /\ line' \in Seq(Lines)
    BY <1>0, <2>1, <2>2 DEF NoCaller
  <2> QED BY <2>1, <2>2, <2>3, <2>4, <2>5, CallEnds
<1>3. CASE Face!ReadInline(c)
  <2>1. /\ call[c].at = "waiting" /\ lock = c /\ ser # None /\ line # <<>> /\ UNCHANGED <<ser, sent, replies>>
        /\ Face!Answered(c, Head(line)) /\ line' = Tail(line) /\ Head(line) # Face!Unasked
    BY <1>0, <1>3 DEF Face!ReadInline, Face!ports, TrafficTypes
  <2>2. /\ Tail(line) \in Seq(Lines) /\ Len(line) >= 1 /\ Len(line) \in Nat /\ Head(line) = line[1] /\ Head(line) \in Lines
        /\ \A i \in 1..Len(Tail(line)) : i + 1 \in 1..Len(line) /\ Tail(line)[i] = line[i + 1]
    BY <1>0, <2>1, Rest
  <2>3. 1 \in 1..Len(line) /\ line[1] \in Caller
    BY <2>1, <2>2 DEF Lines
  <2>4. Head(line) = c /\ sent = <<>> /\ \A j \in 1..Len(line) : line[j] \in Caller => j = 1
    BY <1>0, <2>1, <2>2, <2>3 DEF OneUnderWay
  <2>5. ASSUME NEW i \in 1..Len(line') PROVE line'[i] \notin Caller
    <3>1. i + 1 \in 1..Len(line) /\ line'[i] = line[i + 1] /\ i + 1 # 1
      BY <2>1, <2>2
    <3> QED BY <2>4, <3>1
  <2>6. NoCaller(line)' /\ line' \in Seq(Lines)
    BY <2>1, <2>2, <2>5 DEF NoCaller
  <2> QED BY <1>0, <2>1, <2>4, <2>6, CallEnds
<1>4. CASE Face!GiveUp(c)
  <2>1. /\ call[c].at = "waiting" /\ Face!Answered(c, None) /\ lock = c
        /\ UNCHANGED <<ser, sent, line, replies>>
        /\ ~Face!Pending(c) \/ ser = None
    BY <1>0, <1>4 DEF Face!GiveUp, Face!ports, TrafficTypes
  <2>2. sent = <<>> /\ NoCaller(line)
    BY <2>1, NothingOfOthers
  <2>3. NoCaller(line)' /\ line' \in Seq(Lines) /\ replies' \in Seq(Caller)
    BY <1>0, <2>1, <2>2 DEF NoCaller
  <2>4. ser = None => line' = <<>>
    BY <1>0, <2>1 DEF Silent
  <2> QED BY <2>1, <2>2, <2>3, <2>4, CallEnds
<1> QED BY <1>1, <1>2, <1>3, <1>4

(* The display answers, or speaks of its own; the reader takes a line.     *)
LEMMA TrafficAnswer == ASSUME TrafficInv, Face!Answer PROVE TrafficInv'
<1> USE DisplayNames
<1>0. /\ TrafficTypes /\ Silent /\ OneUnderWay /\ RepliesOwn
      /\ sent \in Seq(Caller) /\ line \in Seq(Lines) /\ replies \in Seq(Caller)
  BY DEF TrafficInv, TrafficTypes
<1>1. /\ sent # <<>> /\ sent' = Tail(sent)
      /\ line' = line \/ line' = Append(line, Head(sent))
      /\ UNCHANGED <<ser, replies, call, lock>>
  BY DEF Face!Answer, Face!ports
<1>2. lock \in Caller /\ Head(sent) = lock /\ Tail(sent) = <<>> /\ NoCaller(line) /\ ser # None
  BY <1>1, NothingOfOthers
<1>e. <<>> \in Seq(Caller) /\ Len(<<>>) = 0
  OBVIOUS
<1>3. sent' = <<>> /\ sent' \in Seq(Caller) /\ Len(sent') = 0
  BY <1>1, <1>2, <1>e
<1>4. CASE line' = line
  <2>1. TrafficTypes' /\ Silent'
    BY <1>0, <1>1, <1>3, <1>4 DEF TrafficTypes, Silent
  <2>2. OneUnderWay'
    BY <1>0, <1>1, <1>2, <1>3, <1>4 DEF OneUnderWay, NoCaller
  <2>3. RepliesOwn'
    BY <1>0, <1>1 DEF RepliesOwn
  <2> QED BY <2>1, <2>2, <2>3 DEF TrafficInv
<1>5. CASE line' = Append(line, lock)
  <2>1. lock \in Lines
    BY <1>2 DEF Lines
  <2>2. /\ line' \in Seq(Lines) /\ Len(line') = Len(line) + 1 /\ Len(line) \in Nat
        /\ line'[Len(line) + 1] = lock
        /\ \A i \in 1..Len(line) : line'[i] = line[i]
        /\ \A i \in 1..Len(line') : i \in 1..Len(line) \/ i = Len(line) + 1
    BY <1>0, <1>5, <2>1, Appended
  <2>3. TrafficTypes'
    BY <1>0, <1>1, <1>3, <2>2 DEF TrafficTypes
  <2>4. Silent'
    BY <1>0, <1>1, <1>2, <1>3, <2>2 DEF Silent
  <2>5. \A i \in 1..Len(line') : line'[i] \in Caller => i = Len(line) + 1 /\ line'[i] = lock
    BY <1>2, <2>2 DEF NoCaller
  <2>6. \A c \in Caller : ~(call[c].at = "waiting" /\ call[c].on = None /\ replies # <<>>)
    BY <1>0, <1>1 DEF OneUnderWay
  <2>a. \A i \in 1..Len(sent') : i = 1 /\ sent'[i] = lock'
    BY <1>3
  <2>b. \A i \in 1..Len(line') : line'[i] \in Caller =>
          /\ line'[i] = lock' /\ sent' = <<>>
          /\ \A j \in 1..Len(line') : line'[j] \in Caller => j = i
    BY <1>1, <1>3, <2>5
  <2>7. OneUnderWay'
    BY <1>1, <2>a, <2>b, <2>6 DEF OneUnderWay
  <2>8. RepliesOwn'
    BY <1>0, <1>1 DEF RepliesOwn
  <2> QED BY <2>3, <2>4, <2>7, <2>8 DEF TrafficInv
<1> QED BY <1>1, <1>2, <1>4, <1>5

LEMMA TrafficSays ==
  ASSUME TrafficInv, Face!Says PROVE TrafficInv'
<1> USE DisplayNames
<1>0. /\ TrafficTypes /\ Silent /\ OneUnderWay /\ RepliesOwn
      /\ sent \in Seq(Caller) /\ line \in Seq(Lines) /\ replies \in Seq(Caller)
  BY DEF TrafficInv, TrafficTypes
<1>1. ser # None /\ line' = Append(line, Face!Unasked) /\ UNCHANGED <<ser, sent, replies, call, lock>>
  BY DEF Face!Says, Face!ports
<1>2. Face!Unasked \in Lines /\ Face!Unasked \notin Caller
  BY DEF Lines
<1>3. /\ line' \in Seq(Lines) /\ Len(line') = Len(line) + 1 /\ Len(line) \in Nat
      /\ line'[Len(line) + 1] = Face!Unasked
      /\ \A i \in 1..Len(line) : line'[i] = line[i]
      /\ \A i \in 1..Len(line') : i \in 1..Len(line) \/ i = Len(line) + 1
  BY <1>0, <1>1, <1>2, Appended
<1>4. TrafficTypes' /\ Silent'
  BY <1>0, <1>1, <1>3 DEF TrafficTypes, Silent
<1>5. \A i \in 1..Len(line') : line'[i] \in Caller => i \in 1..Len(line) /\ line'[i] = line[i]
  BY <1>2, <1>3
<1>6. NoCaller(line) => NoCaller(line)'
  BY <1>5 DEF NoCaller
<1>7. \A i \in 1..Len(sent') : i = 1 /\ sent'[i] = lock'
  BY <1>0, <1>1 DEF OneUnderWay
<1>8. \A i \in 1..Len(line') : line'[i] \in Caller =>
        /\ line'[i] = lock' /\ sent' = <<>>
        /\ \A j \in 1..Len(line') : line'[j] \in Caller => j = i
  BY <1>0, <1>1, <1>5 DEF OneUnderWay
<1>9. \A c \in Caller : call'[c].at = "waiting" /\ call'[c].on = None /\ replies' # <<>> =>
        /\ Len(replies') = 1 /\ replies'[1] = c /\ sent' = <<>> /\ NoCaller(line)'
  BY <1>0, <1>1, <1>6 DEF OneUnderWay
<1>10. OneUnderWay'
  BY <1>7, <1>8, <1>9 DEF OneUnderWay, NoCaller
<1>11. RepliesOwn'
  BY <1>0, <1>1 DEF RepliesOwn
<1> QED BY <1>4, <1>10, <1>11 DEF TrafficInv

LEMMA TrafficReads == ASSUME TrafficInv, NEW t \in Port, Face!ReadLine(t) PROVE TrafficInv'
<1> USE DisplayNames
<1>0. /\ TrafficTypes /\ Silent /\ OneUnderWay /\ RepliesOwn
      /\ sent \in Seq(Caller) /\ line \in Seq(Lines) /\ replies \in Seq(Caller)
  BY DEF TrafficInv, TrafficTypes
<1>1. /\ line # <<>> /\ line' = Tail(line)
      /\ replies' = (IF Head(line) = Face!Unasked THEN replies ELSE Append(replies, Head(line)))
      /\ UNCHANGED <<ser, sent, call, lock>>
  BY DEF Face!ReadLine, Face!ports
<1>2. /\ line' \in Seq(Lines) /\ Len(line') = Len(line) - 1 /\ Len(line) \in Nat /\ Len(line) >= 1
      /\ Head(line) = line[1] /\ Head(line) \in Lines
      /\ \A i \in 1..Len(line') : i + 1 \in 1..Len(line) /\ line'[i] = line[i + 1]
  BY <1>0, <1>1, Rest
<1>3. \A i \in 1..Len(line') : line'[i] \in Caller =>
        /\ line'[i] = lock /\ sent = <<>>
        /\ \A j \in 1..Len(line') : line'[j] \in Caller => j = i
  <2> TAKE i \in 1..Len(line')
  <2> HAVE line'[i] \in Caller
  <2>1. i + 1 \in 1..Len(line) /\ line'[i] = line[i + 1] /\ i \in Int
    BY <1>2
  <2>2. line[i + 1] = lock /\ sent = <<>> /\ \A j \in 1..Len(line) : line[j] \in Caller => j = i + 1
    BY <1>0, <2>1 DEF OneUnderWay
  <2>3. ASSUME NEW j \in 1..Len(line'), line'[j] \in Caller PROVE j = i
    <3>1. j + 1 \in 1..Len(line) /\ line[j + 1] \in Caller /\ j \in Int
      BY <1>2, <2>3
    <3>2. j + 1 = i + 1
      BY <2>2, <3>1
    <3> QED BY <2>1, <3>1, <3>2
  <2> QED BY <2>1, <2>2, <2>3
<1>4. NoCaller(line) => NoCaller(line)'
  BY <1>2 DEF NoCaller
<1>5. Silent' /\ RepliesOwn'
  <2>1. ser # None
    BY <1>0, <1>1 DEF Silent
  <2> QED BY <1>0, <1>1, <2>1 DEF Silent, RepliesOwn
<1>6. CASE Head(line) = Face!Unasked
  <2>1. TrafficTypes'
    BY <1>0, <1>1, <1>2, <1>6 DEF TrafficTypes
  <2>2. \A c \in Caller : call'[c].at = "waiting" /\ call'[c].on = None /\ replies' # <<>> =>
          /\ Len(replies') = 1 /\ replies'[1] = c /\ sent' = <<>> /\ NoCaller(line)'
    BY <1>0, <1>1, <1>4, <1>6 DEF OneUnderWay
  <2>3. \A i \in 1..Len(sent') : i = 1 /\ sent'[i] = lock'
    BY <1>0, <1>1 DEF OneUnderWay
  <2>4. OneUnderWay'
    BY <1>1, <1>3, <2>2, <2>3 DEF OneUnderWay, NoCaller
  <2> QED BY <1>5, <2>1, <2>4 DEF TrafficInv
<1>7. CASE Head(line) # Face!Unasked
  <2>1. Head(line) \in Caller /\ 1 \in 1..Len(line) /\ line[1] \in Caller
    BY <1>2, <1>7 DEF Lines
  <2>2. Head(line) = lock /\ sent = <<>> /\ \A j \in 1..Len(line) : line[j] \in Caller => j = 1
    BY <1>0, <1>2, <2>1 DEF OneUnderWay
  <2>3. ASSUME NEW i \in 1..Len(line') PROVE line'[i] \notin Caller
    BY <1>2, <2>2
  <2>4. NoCaller(line)'
    BY <2>3 DEF NoCaller
  <2>5. replies' = Append(replies, lock) /\ replies' \in Seq(Caller)
    BY <1>0, <1>1, <1>7, <2>1, <2>2
  <2>6. TrafficTypes'
    BY <1>0, <1>1, <1>2, <2>5 DEF TrafficTypes
  <2>7. ~NoCaller(line)
    BY <2>1 DEF NoCaller
  <2>8. ASSUME NEW c \in Caller, call'[c].at = "waiting", call'[c].on = None
        PROVE Len(replies') = 1 /\ replies'[1] = c
    <3>1. call[c].at = "waiting" /\ call[c].on = None /\ c = lock
      BY <1>0, <1>1, <2>8 DEF TrafficTypes
    <3>2. replies = <<>>
      BY <1>0, <2>7, <3>1 DEF OneUnderWay
    <3>3. replies' = <<c>>
      BY <2>5, <3>1, <3>2
    <3> QED BY <3>3
  <2>9. \A i \in 1..Len(sent') : i = 1 /\ sent'[i] = lock'
    BY <1>0, <1>1 DEF OneUnderWay
  <2>10. sent' = <<>>
    BY <1>1, <2>2
  <2>11. OneUnderWay'
    BY <1>1, <1>3, <2>4, <2>8, <2>9, <2>10 DEF OneUnderWay, NoCaller
  <2> QED BY <1>5, <2>6, <2>11 DEF TrafficInv
<1> QED BY <1>6, <1>7

(* The connection changes: a new one finds nothing under way, and one that *)
(* goes takes with it what was.                                            *)
LEMMA TrafficStays ==
  ASSUME TrafficInv, UNCHANGED <<lock, replies, call>>,
         \/ UNCHANGED <<sent, line>> /\ (ser' = ser \/ ser = None)
         \/ sent' = <<>> /\ line' = <<>>
  PROVE  TrafficInv'
<1> USE DisplayNames
<1>0. /\ TrafficTypes /\ Silent /\ OneUnderWay /\ RepliesOwn
  BY DEF TrafficInv
<1>1. RepliesOwn'
  BY <1>0 DEF RepliesOwn
<1>2. CASE UNCHANGED <<sent, line>> /\ (ser' = ser \/ ser = None)
  <2>1. TrafficTypes' /\ Silent'
    BY <1>0, <1>2 DEF TrafficTypes, Silent
  <2>2. OneUnderWay'
    BY <1>0, <1>2 DEF OneUnderWay, NoCaller
  <2> QED BY <1>1, <2>1, <2>2 DEF TrafficInv
<1>3. CASE sent' = <<>> /\ line' = <<>>
  <2>1. <<>> \in Seq(Caller) /\ <<>> \in Seq(Lines) /\ Len(<<>>) = 0
    OBVIOUS
  <2>2. TrafficTypes' /\ Silent'
    BY <1>0, <1>3, <2>1 DEF TrafficTypes, Silent
  <2>3. OneUnderWay'
    BY <1>0, <1>3, <2>1 DEF OneUnderWay, NoCaller
  <2> QED BY <1>1, <2>2, <2>3 DEF TrafficInv
<1> QED BY <1>2, <1>3

LEMMA TrafficConnects ==
  ASSUME TrafficInv,
         \/ \E p \in Port : \/ Face!Connect(p) \/ Face!Opens(p) \/ Face!OpenFails(p) \/ Face!TimesOut(p)
                            \/ Face!Connected(p) \/ Face!Starts(p)
         \/ Face!CannotStart \/ Face!Disconnect \/ Face!Disconnected
         \/ \E t \in Port : \/ Face!LoopTop(t) \/ Face!Continues(t) \/ Face!ReadFails(t) \/ Face!Clears(t)
                            \/ Face!GivesBack(t) \/ Face!Forgets(t)
  PROVE  TrafficInv'
<1> USE DEF Face!traffic, Face!ports, Face!readers
<1>1. UNCHANGED <<lock, replies, call>>
  BY DEF Face!Connect, Face!Opens, Face!OpenFails, Face!TimesOut, Face!Connected, Face!Starts, Face!CannotStart,
         Face!Disconnect, Face!Disconnected, Face!LoopTop, Face!Continues, Face!ReadFails, Face!Clears, Face!GivesBack,
         Face!Forgets
<1>2. \/ UNCHANGED <<sent, line>> /\ (ser' = ser \/ ser = None)
      \/ sent' = <<>> /\ line' = <<>>
  BY DEF Face!Connect, Face!Opens, Face!OpenFails, Face!TimesOut, Face!Connected, Face!Starts, Face!CannotStart,
         Face!Disconnect, Face!Disconnected, Face!LoopTop, Face!Continues, Face!ReadFails, Face!Clears, Face!GivesBack,
         Face!Forgets
<1> QED BY <1>1, <1>2, TrafficStays

LEMMA DisplayStart == Face!Init => DisplayInv
BY PortStart, TrafficStart DEF DisplayInv

LEMMA DisplayStep == ASSUME DisplayInv, Face!Next PROVE DisplayInv'
<1>1. PortInv /\ PortInv'
  BY PortStep DEF DisplayInv
<1>2. ASSUME Late = FALSE, ~strayed' PROVE TrafficInv'
  <2>1. ~strayed
    BY <1>2 DEF Face!Next, Face!Connect, Face!Opens, Face!OpenFails, Face!TimesOut, Face!Connected, Face!Starts,
         Face!CannotStart, Face!Disconnect, Face!Disconnected, Face!LoopTop, Face!ReadLine, Face!Continues, Face!ReadFails,
         Face!Clears, Face!GivesBack, Face!Forgets, Face!Send, Face!Receive, Face!ReadInline, Face!GiveUp, Face!Answer,
         Face!Says, Face!traffic
  <2>2. TrafficInv /\ ser \in Port \cup {None}
    BY <1>1, <1>2, <2>1 DEF DisplayInv, PortInv, PortTypes
  <2> QED BY <1>2, <2>2, TrafficCalls, TrafficAnswer, TrafficSays, TrafficReads, TrafficConnects DEF Face!Next
<1> QED BY <1>1, <1>2 DEF DisplayInv

LEMMA DisplayStutters == ASSUME DisplayInv, UNCHANGED displayOnly, UNCHANGED shared PROVE DisplayInv'
<1>1. PortInv'
  BY PortStutters DEF DisplayInv
<1>2. ASSUME Late = FALSE, ~strayed' PROVE TrafficInv'
  BY <1>2, TrafficStays DEF DisplayInv, displayOnly, shared
<1> QED BY <1>1, <1>2 DEF DisplayInv

LEMMA DisplayEnds == ASSUME DisplayInv PROVE Face!ReservedWhileOpen /\ (Late = FALSE => Face!OwnReplyOnly)
BY DEF DisplayInv, PortInv, PortKept, Face!ReservedWhileOpen, Face!OwnReplyOnly, TrafficInv, RepliesOwn

------------------------------------------------------------------------------
(* The speaker                                                             *)

Busy == {"next", "synth", "launching", "playing"}
WorkerType == [at : {"none", "idle", "taken"} \cup Busy, job : Job \cup {None}, half : Nat]
Places == {"idle", "draining", "requeue", "bump", "current", "handle", "exit", "join"}
Queued == {queue[i] : i \in 1..Len(queue)}

VoiceTypes ==
  /\ queue \in Seq(Job \cup {0}) /\ said \subseteq Job /\ silenced \subseteq said
  /\ epoch \in [Job -> Nat] /\ stopCount \in Nat
  /\ worker \in WorkerType /\ current \in Job \cup {None}
  /\ proc \in {None, "started", "recorded", "dying"}
  /\ pc \in [Voice!Actor -> Places]
  /\ target \in [Voice!Actor -> Job \cup {None}]
  /\ before \in [Voice!Actor -> SUBSET Job] /\ \A a \in Voice!Actor : before[a] \subseteq said

(* What the worker is at, and under which lock and reservation it is so.   *)
VoiceWork ==
  /\ worker.at = "none" => worker.job = None
  /\ worker.at \in {"taken"} \cup Busy => worker.job \in said
  /\ IF worker.at \in Busy THEN current = worker.job ELSE current = None
  /\ worker.at = "idle" /\ worker.job # None => worker.job \in done
  /\ worker.at = "launching" <=> proc = "started"
  /\ worker.at = "playing" <=> proc \in {"recorded", "dying"}
  /\ ~held \/ lock = "open_new" => worker.at = "none"
  /\ pc[Voice!Closer] # "idle" => lock = "close"

(* No handle is lost, and the worker a close() waits for will find the     *)
(* sentinel.                                                               *)
VoiceQueue ==
  /\ Queued \subseteq said \cup {0}
  /\ \A j \in said \ done : j \in Queued \/ worker.job = j \/ (lock = "say" /\ \A k \in said : k <= j)
  /\ pc[Voice!Closer] = "join" /\ worker.at # "none" => 0 \in Queued \/ saw # {}

(* Whatever a stop() may still take was said before it, or beside it.      *)
VoiceExposed ==
  /\ \A a \in Voice!Actor : pc[a] \in {"draining", "requeue", "bump"} => said \subseteq exposed
  /\ \A a \in Voice!Actor : pc[a] = "current" => target[a] \in exposed
  /\ \A j \in said : epoch[j] <= stopCount /\ (epoch[j] < stopCount => j \in exposed)
  /\ halted \subseteq exposed

(* What was said before a stop() leaves the queue with the drain; with the *)
(* count it cannot begin any more; and if it has begun it is what the      *)
(* stop() interrupts.                                                      *)
VoiceStops ==
  \A a \in Voice!Actor :
    /\ pc[a] \in {"idle", "exit", "join"} => before[a] = {}
    /\ pc[a] = "handle" => target[a] \in halted
    /\ pc[a] \in {"requeue", "bump", "current", "handle"} => Queued \cap before[a] = {}
    /\ pc[a] \in {"current", "handle"} /\ worker.job \in before[a] =>
         /\ worker.at = "taken" => epoch[worker.job] < stopCount
         /\ worker.at \in Busy => target[a] = worker.job
    /\ lock = "say" => \A j \in before[a] : \E k \in said : k > j

(* And so it stays silent. *)
VoiceSilent ==
  /\ lock = "say" => \A j \in silenced : \E k \in said : k > j
  /\ Queued \cap silenced = {}
  /\ worker.job \in silenced =>
       /\ worker.at = "taken" => epoch[worker.job] < stopCount
       /\ worker.at \in Busy => worker.job \in halted
       /\ proc # "recorded"

VoiceInv == VoiceTypes /\ VoiceWork /\ VoiceQueue /\ VoiceExposed /\ VoiceStops /\ VoiceSilent

LEMMA VoiceNames ==
  /\ Job \subseteq Nat \ {0} /\ MaxStops \in Nat
  /\ None \notin Job \cup {"say", "close", "open", "open_new", "started", "recorded", "dying"}
  /\ Voice!Closer = 0 /\ Voice!Exit = 0 /\ Voice!Actor = Stopper \cup {0}
  BY SpeakerConstants DEF Voice!SpeakerAssumption, Voice!Closer, Voice!Exit, Voice!Actor

LEMMA QueueTakes ==
  ASSUME VoiceTypes, queue # <<>>, queue' = Tail(queue)
  PROVE  /\ queue' \in Seq(Job \cup {0}) /\ Head(queue) \in Job \cup {0} /\ Head(queue) \in Queued
         /\ Queued' \subseteq Queued /\ Queued = Queued' \cup {Head(queue)}
<1>0. queue \in Seq(Job \cup {0})
  BY DEF VoiceTypes
<1>1. /\ queue' \in Seq(Job \cup {0}) /\ Len(queue') = Len(queue) - 1 /\ Len(queue) \in Nat /\ Len(queue) >= 1
      /\ Head(queue) = queue[1] /\ Head(queue) \in Job \cup {0}
      /\ \A i \in 1..Len(queue') : i + 1 \in 1..Len(queue) /\ queue'[i] = queue[i + 1]
  BY <1>0, Rest
<1>2. Head(queue) \in Queued /\ Queued' \subseteq Queued
  BY <1>1 DEF Queued
<1>3. ASSUME NEW x \in Queued PROVE x \in Queued' \/ x = Head(queue)
  <2>1. PICK i \in 1..Len(queue) : x = queue[i]
    BY DEF Queued
  <2>2. CASE i = 1
    BY <1>1, <2>1, <2>2
  <2>3. CASE i # 1
    <3>1. i - 1 \in 1..Len(queue') /\ i - 1 + 1 = i
      BY <1>1, <2>3
    <3>2. queue'[i - 1] = queue[i - 1 + 1]
      BY <1>1, <3>1
    <3> QED BY <2>1, <3>1, <3>2 DEF Queued
  <2> QED BY <2>2, <2>3
<1> QED BY <1>1, <1>2, <1>3

LEMMA QueueGets ==
  ASSUME VoiceTypes, NEW x \in Job \cup {0}, queue' = Append(queue, x)
  PROVE  queue' \in Seq(Job \cup {0}) /\ Queued' = Queued \cup {x}
<1>0. queue \in Seq(Job \cup {0})
  BY DEF VoiceTypes
<1>1. /\ queue' \in Seq(Job \cup {0}) /\ Len(queue') = Len(queue) + 1 /\ Len(queue) \in Nat
      /\ queue'[Len(queue) + 1] = x
      /\ \A i \in 1..Len(queue) : queue'[i] = queue[i]
      /\ \A i \in 1..Len(queue') : i \in 1..Len(queue) \/ i = Len(queue) + 1
  BY <1>0, Appended
<1>2. \A i \in 1..Len(queue) : i \in 1..Len(queue')
  BY <1>1
<1>3. Len(queue) + 1 \in 1..Len(queue')
  BY <1>1
<1> QED BY <1>1, <1>2, <1>3 DEF Queued

LEMMA QueueEmpty == ASSUME queue = <<>> PROVE Queued = {}
<1>1. Len(<<>>) = 0
  OBVIOUS
<1> QED BY <1>1 DEF Queued

LEMMA Moved ==
  ASSUME VoiceTypes, NEW place \in {"none", "idle", "taken"} \cup Busy, Voice!Moves(place)
  PROVE  worker' \in WorkerType /\ worker'.at = place /\ worker'.job = worker.job
  BY DEF VoiceTypes, Voice!Moves, WorkerType

LEMMA MovedOn ==
  ASSUME VoiceTypes, Voice!NextHalf
  PROVE  worker' \in WorkerType /\ worker'.at = "next" /\ worker'.job = worker.job
<1>1. worker \in WorkerType /\ worker' = [worker EXCEPT !.at = "next", !.half = worker.half + 1]
  BY DEF VoiceTypes, Voice!NextHalf
<1>2. worker'.at = "next"
  BY <1>1 DEF WorkerType
<1>3. worker'.job = worker.job
  BY <1>1 DEF WorkerType
<1>4. worker.half + 1 \in Nat
  BY <1>1 DEF WorkerType
<1>5. worker' \in WorkerType
  BY <1>1, <1>4 DEF WorkerType, Busy
<1> QED BY <1>2, <1>3, <1>5

LEMMA VoiceStart == Voice!Init => VoiceInv
<1> SUFFICES ASSUME Voice!Init PROVE VoiceInv
  OBVIOUS
<1> USE VoiceNames DEF Voice!Init
<1>1. Queued = {}
  BY QueueEmpty
<1>2. worker \in WorkerType /\ worker.at = "none" /\ worker.job = None
  BY DEF Voice!Nobody, WorkerType
<1>3. VoiceTypes
  BY <1>2 DEF VoiceTypes, Places
<1>4. VoiceWork /\ VoiceQueue /\ VoiceExposed /\ VoiceStops /\ VoiceSilent
  BY <1>1, <1>2 DEF VoiceWork, VoiceQueue, VoiceExposed, VoiceStops, VoiceSilent, Busy
<1> QED BY <1>3, <1>4 DEF VoiceInv

(* The worker: inside a job. *)
LEMMA VoiceBusy ==
  ASSUME VoiceInv, Voice!Speak \/ Voice!GiveUpSynth \/ Voice!Synthesised \/ Voice!Record \/ Voice!PlayEnds
  PROVE  VoiceInv'
<1> USE VoiceNames
<1>0. VoiceTypes /\ VoiceWork /\ VoiceQueue /\ VoiceExposed /\ VoiceStops /\ VoiceSilent
  BY DEF VoiceInv
<1>1. UNCHANGED <<queue, said, epoch, done, halted, stopCount, current, lock, held, pc, saw, target, before, silenced, exposed>>
  BY DEF Voice!Speak, Voice!GiveUpSynth, Voice!Synthesised, Voice!Record, Voice!PlayEnds, Voice!jobVars, Voice!stopVars,
         Voice!ghosts
<1>2. /\ worker.at \in Busy
      /\ \/ Voice!Moves("synth") \/ Voice!Moves("launching") \/ Voice!Moves("playing") \/ Voice!NextHalf
  BY DEF Voice!Speak, Voice!GiveUpSynth, Voice!Synthesised, Voice!Record, Voice!PlayEnds, Busy
<1>3. worker' \in WorkerType /\ worker'.at \in Busy /\ worker'.job = worker.job
  <2>1. CASE Voice!Moves("synth")
    BY <1>0, <2>1, Moved DEF Busy
  <2>2. CASE Voice!Moves("launching")
    BY <1>0, <2>2, Moved DEF Busy
  <2>3. CASE Voice!Moves("playing")
    BY <1>0, <2>3, Moved DEF Busy
  <2>4. CASE Voice!NextHalf
    BY <1>0, <2>4, MovedOn DEF Busy
  <2> QED BY <1>2, <2>1, <2>2, <2>3, <2>4
<1>4. /\ worker'.at = "launching" <=> proc' = "started"
      /\ worker'.at = "playing" <=> proc' \in {"recorded", "dying"}
      /\ proc' \in {None, "started", "recorded", "dying"}
      /\ proc' = "recorded" => worker.job \notin halted
  <2>1. CASE Voice!Speak
    <3>1. worker'.at = "synth" /\ worker.at = "next" /\ proc' = proc
      BY <1>0, <2>1, Moved DEF Voice!Speak, Busy
    <3> QED BY <1>0, <3>1 DEF VoiceTypes, VoiceWork
  <2>2. CASE Voice!GiveUpSynth
    <3>1. worker'.at = "next" /\ worker.at = "synth" /\ proc' = proc
      BY <1>0, <2>2, MovedOn DEF Voice!GiveUpSynth
    <3> QED BY <1>0, <3>1 DEF VoiceTypes, VoiceWork
  <2>3. CASE Voice!Synthesised /\ Voice!NextHalf
    <3>1. worker'.at = "next"
      BY <1>0, <2>3, MovedOn
    <3>2. worker.at = "synth" /\ (proc' = proc \/ worker'.at = "launching")
      BY <1>0, <2>3, Moved DEF Voice!Synthesised, Busy
    <3> QED BY <1>0, <3>1, <3>2 DEF VoiceTypes, VoiceWork
  <2>4. CASE Voice!Synthesised /\ Voice!Moves("launching") /\ proc' = "started"
    <3>1. worker'.at = "launching"
      BY <1>0, <2>4, Moved DEF Busy
    <3> QED BY <2>4, <3>1
  <2>5. CASE Voice!Record
    <3>1. worker'.at = "playing" /\ proc' = (IF worker.job \in halted THEN "dying" ELSE "recorded")
      BY <1>0, <2>5, Moved DEF Voice!Record, Voice!Doing, Busy
    <3> QED BY <3>1
  <2>6. CASE Voice!PlayEnds
    <3>1. worker'.at = "next" /\ proc' = None
      BY <1>0, <2>6, MovedOn DEF Voice!PlayEnds
    <3> QED BY <3>1
  <2> QED BY <2>1, <2>2, <2>3, <2>4, <2>5, <2>6 DEF Voice!Synthesised
<1>5. Queued' = Queued
  BY <1>1 DEF Queued
<1>6. VoiceTypes'
  BY <1>0, <1>1, <1>3, <1>4 DEF VoiceTypes
<1>7. VoiceWork'
  BY <1>0, <1>1, <1>2, <1>3, <1>4 DEF VoiceWork, Busy
<1>8. VoiceQueue'
  BY <1>0, <1>1, <1>2, <1>3, <1>5 DEF VoiceQueue, Busy
<1>9. VoiceExposed'
  BY <1>0, <1>1 DEF VoiceExposed
<1>10. VoiceStops'
  BY <1>0, <1>1, <1>2, <1>3, <1>5 DEF VoiceStops, Busy
<1>11. VoiceSilent'
  BY <1>0, <1>1, <1>2, <1>3, <1>4, <1>5 DEF VoiceSilent, Busy
<1> QED BY <1>6, <1>7, <1>8, <1>9, <1>10, <1>11 DEF VoiceInv

(* The worker: from one job to the next. *)
LEMMA VoiceTurns ==
  ASSUME VoiceInv, Voice!Take \/ Voice!Begin \/ Voice!Finish \/ \E k \in Voice!Synth : Voice!SynthStep(k)
  PROVE  VoiceInv'
<1> USE VoiceNames
<1>0. VoiceTypes /\ VoiceWork /\ VoiceQueue /\ VoiceExposed /\ VoiceStops /\ VoiceSilent
  BY DEF VoiceInv
<1>1. UNCHANGED <<said, epoch, stopCount, lock, held, pc, saw, target, before, silenced, exposed>>
  BY DEF Voice!Take, Voice!Begin, Voice!Finish, Voice!SynthStep, Voice!jobVars, Voice!stopVars, Voice!ghosts
<1>2. CASE Voice!Take
  <2>1. /\ worker.at = "idle" /\ queue # <<>> /\ queue' = Tail(queue)
        /\ UNCHANGED <<done, halted, current, proc>>
        /\ worker' = IF Head(queue) = 0 THEN Voice!Nobody ELSE [at |-> "taken", job |-> Head(queue), half |-> 1]
    BY <1>2 DEF Voice!Take
  <2>2. /\ queue' \in Seq(Job \cup {0}) /\ Head(queue) \in Job \cup {0} /\ Head(queue) \in Queued
        /\ Queued' \subseteq Queued /\ Queued = Queued' \cup {Head(queue)}
    BY <1>0, <2>1, QueueTakes
  <2>3. CASE Head(queue) = 0
    <3>1. worker' \in WorkerType /\ worker'.at = "none" /\ worker'.job = None
      BY <2>1, <2>3 DEF Voice!Nobody, WorkerType
    <3>2. VoiceTypes'
      BY <1>0, <1>1, <2>1, <2>2, <3>1 DEF VoiceTypes
    <3>3. VoiceWork'
      BY <1>0, <1>1, <2>1, <3>1 DEF VoiceWork, Busy
    <3>4. VoiceQueue'
      BY <1>0, <1>1, <2>1, <2>2, <2>3, <3>1 DEF VoiceTypes, VoiceWork, VoiceQueue
    <3>5. VoiceExposed' /\ VoiceStops' /\ VoiceSilent'
      BY <1>0, <1>1, <2>1, <2>2, <3>1 DEF VoiceTypes, VoiceWork, VoiceExposed, VoiceStops, VoiceSilent, Busy
    <3> QED BY <3>2, <3>3, <3>4, <3>5 DEF VoiceInv
  <2>4. CASE Head(queue) # 0
    <3>1. worker' \in WorkerType /\ worker'.at = "taken" /\ worker'.job = Head(queue) /\ Head(queue) \in said
      <4>1. worker' = [at |-> "taken", job |-> Head(queue), half |-> 1] /\ Head(queue) \in said
        BY <1>0, <2>1, <2>2, <2>4 DEF VoiceQueue
      <4> QED BY <2>2, <2>4, <4>1 DEF WorkerType
    <3>2. VoiceTypes'
      BY <1>0, <1>1, <2>1, <2>2, <3>1 DEF VoiceTypes
    <3>3. VoiceWork'
      BY <1>0, <1>1, <2>1, <3>1 DEF VoiceWork, Busy
    <3>4. VoiceQueue'
      BY <1>0, <1>1, <2>1, <2>2, <2>4, <3>1 DEF VoiceTypes, VoiceWork, VoiceQueue
    <3>5. VoiceExposed'
      BY <1>0, <1>1, <2>1 DEF VoiceExposed
    <3>6. VoiceStops'
      BY <1>0, <1>1, <2>1, <2>2, <3>1 DEF VoiceStops, Busy
    <3>7. VoiceSilent'
      BY <1>0, <1>1, <2>1, <2>2, <3>1 DEF VoiceSilent, Busy
    <3> QED BY <3>2, <3>3, <3>4, <3>5, <3>6, <3>7 DEF VoiceInv
  <2> QED BY <2>3, <2>4
<1>3. CASE Voice!Begin /\ stopCount > epoch[worker.job]
  <2>1. /\ worker.at = "taken" /\ halted' = halted \cup {worker.job} /\ done' = done \cup {worker.job}
        /\ UNCHANGED <<queue, current, proc>> /\ Voice!Moves("idle")
    BY <1>3 DEF Voice!Begin, Voice!Doing
  <2>2. worker' \in WorkerType /\ worker'.at = "idle" /\ worker'.job = worker.job
    BY <1>0, <2>1, Moved
  <2>3. Queued' = Queued
    BY <2>1 DEF Queued
  <2>4. worker.job \in said /\ worker.job \in Job
    BY <1>0, <2>1 DEF VoiceWork, VoiceTypes
  <2>5. VoiceTypes'
    BY <1>0, <1>1, <2>1, <2>2 DEF VoiceTypes
  <2>6. VoiceWork'
    BY <1>0, <1>1, <2>1, <2>2 DEF VoiceWork, Busy
  <2>7. VoiceQueue'
    BY <1>0, <1>1, <2>1, <2>2, <2>3 DEF VoiceQueue
  <2>8. VoiceExposed'
    <3>1. epoch[worker.job] \in Nat /\ stopCount \in Nat
      BY <1>0, <2>4 DEF VoiceTypes
    <3>2. worker.job \in exposed
      BY <1>0, <1>3, <2>4, <3>1 DEF VoiceExposed
    <3> QED BY <1>0, <1>1, <2>1, <3>2 DEF VoiceExposed
  <2>9. VoiceStops' /\ VoiceSilent'
    BY <1>0, <1>1, <2>1, <2>2, <2>3 DEF VoiceStops, VoiceSilent, Busy
  <2> QED BY <2>5, <2>6, <2>7, <2>8, <2>9 DEF VoiceInv
<1>4. CASE Voice!Begin /\ ~(stopCount > epoch[worker.job])
  <2>1. /\ worker.at = "taken" /\ current' = worker.job
        /\ UNCHANGED <<queue, halted, done, proc>> /\ Voice!Moves("next")
    BY <1>4 DEF Voice!Begin, Voice!Doing
  <2>2. worker' \in WorkerType /\ worker'.at = "next" /\ worker'.job = worker.job
    BY <1>0, <2>1, Moved DEF Busy
  <2>3. Queued' = Queued
    BY <2>1 DEF Queued
  <2>4. worker.job \in said /\ worker.job \in Job
    BY <1>0, <2>1 DEF VoiceWork, VoiceTypes
  <2>5. epoch[worker.job] \in Nat /\ stopCount \in Nat /\ ~(epoch[worker.job] < stopCount)
    BY <1>0, <1>4, <2>4 DEF VoiceTypes
  <2>6. VoiceTypes'
    BY <1>0, <1>1, <2>1, <2>2, <2>4 DEF VoiceTypes
  <2>7. VoiceWork'
    BY <1>0, <1>1, <2>1, <2>2, <2>4 DEF VoiceWork, Busy
  <2>8. VoiceQueue' /\ VoiceExposed'
    BY <1>0, <1>1, <2>1, <2>2, <2>3 DEF VoiceQueue, VoiceExposed
  <2>9. VoiceStops' /\ VoiceSilent'
    BY <1>0, <1>1, <2>1, <2>2, <2>3, <2>5 DEF VoiceStops, VoiceSilent, Busy
  <2> QED BY <2>6, <2>7, <2>8, <2>9 DEF VoiceInv
<1>5. CASE Voice!Finish
  <2>1. /\ worker.at = "next" /\ current' = None /\ done' = done \cup {worker.job}
        /\ UNCHANGED <<queue, halted, proc>> /\ worker' = [Voice!Nobody EXCEPT !.at = "idle"]
    BY <1>5 DEF Voice!Finish, Voice!Doing
  <2>2. worker' \in WorkerType /\ worker'.at = "idle" /\ worker'.job = None
    BY <2>1 DEF Voice!Nobody, WorkerType
  <2>3. Queued' = Queued
    BY <2>1 DEF Queued
  <2>4. VoiceTypes'
    BY <1>0, <1>1, <2>1, <2>2 DEF VoiceTypes
  <2>5. VoiceWork'
    BY <1>0, <1>1, <2>1, <2>2 DEF VoiceWork, Busy
  <2>6. VoiceQueue' /\ VoiceExposed'
    BY <1>0, <1>1, <2>1, <2>2, <2>3 DEF VoiceQueue, VoiceExposed
  <2>7. VoiceStops' /\ VoiceSilent'
    BY <1>0, <1>1, <2>1, <2>2, <2>3 DEF VoiceTypes, VoiceStops, VoiceSilent, Busy
  <2> QED BY <2>4, <2>5, <2>6, <2>7 DEF VoiceInv
<1>6. CASE \E k \in Voice!Synth : Voice!SynthStep(k)
  <2>1. UNCHANGED <<queue, done, halted, worker, current, proc>>
    BY <1>6 DEF Voice!SynthStep, Voice!jobVars
  <2>2. Queued' = Queued
    BY <2>1 DEF Queued
  <2>3. VoiceTypes' /\ VoiceWork' /\ VoiceQueue' /\ VoiceExposed' /\ VoiceStops' /\ VoiceSilent'
    BY <1>0, <1>1, <2>1, <2>2 DEF VoiceTypes, VoiceWork, VoiceQueue, VoiceExposed, VoiceStops, VoiceSilent
  <2> QED BY <2>3 DEF VoiceInv
<1> QED BY <1>2, <1>3, <1>4, <1>5, <1>6

(* say. *)
LEMMA VoiceSays == ASSUME VoiceInv, NEW j \in Job, Voice!Say(j) PROVE VoiceInv'
<1> USE VoiceNames
<1>0. VoiceTypes /\ VoiceWork /\ VoiceQueue /\ VoiceExposed /\ VoiceStops /\ VoiceSilent
  BY DEF VoiceInv
<1>1. /\ lock = None /\ said = {k \in Job : k < j} /\ lock' = "say" /\ held' = TRUE /\ said' = said \cup {j}
      /\ worker' = (IF worker.at = "none" THEN [Voice!Nobody EXCEPT !.at = "idle"] ELSE worker)
      /\ epoch' = [epoch EXCEPT ![j] = stopCount]
      /\ exposed' = (IF \E a \in Voice!Actor : pc[a] # "idle" THEN exposed \cup {j} ELSE exposed)
      /\ UNCHANGED <<queue, done, halted, stopCount, current, proc, pc, saw, target, before, silenced>>
  BY DEF Voice!Say
<1>2. /\ \A k \in said : k < j /\ k \in Nat /\ epoch'[k] = epoch[k]
      /\ j \in Nat /\ j \notin said /\ epoch'[j] = stopCount /\ epoch' \in [Job -> Nat]
  BY <1>0, <1>1 DEF VoiceTypes
<1>3. /\ worker' \in WorkerType
      /\ IF worker.at = "none" THEN worker'.at = "idle" /\ worker'.job = None ELSE worker' = worker
  BY <1>0, <1>1 DEF Voice!Nobody, WorkerType, VoiceTypes
<1>4. Queued' = Queued
  BY <1>1 DEF Queued
<1>5. pc[0] = "idle"
  BY <1>0, <1>1 DEF VoiceWork
<1>6. VoiceTypes'
  BY <1>0, <1>1, <1>2, <1>3 DEF VoiceTypes
<1>7. VoiceWork'
  BY <1>0, <1>1, <1>3, <1>5 DEF VoiceWork, Busy
<1>8. VoiceQueue'
  <2>1. \A k \in said' \ done' : k \in Queued' \/ worker'.job = k \/ (lock' = "say" /\ \A i \in said' : i <= k)
    <3>1. \A k \in said \ done : k \in Queued \/ worker.job = k
      BY <1>0, <1>1 DEF VoiceQueue
    <3>2. \A k \in said : worker.job = k => worker'.job = k
      BY <1>0, <1>2, <1>3 DEF VoiceWork, VoiceTypes
    <3>3. \A i \in said' : i <= j
      BY <1>1, <1>2
    <3> QED BY <1>1, <1>4, <3>1, <3>2, <3>3
  <2> QED BY <1>0, <1>1, <1>4, <1>5, <2>1 DEF VoiceQueue
<1>9. VoiceExposed'
  <2>1. \A a \in Voice!Actor : pc'[a] \in {"draining", "requeue", "bump"} => said' \subseteq exposed'
    BY <1>0, <1>1 DEF VoiceExposed
  <2>2. \A k \in said' : epoch'[k] <= stopCount' /\ (epoch'[k] < stopCount' => k \in exposed')
    BY <1>0, <1>1, <1>2 DEF VoiceExposed, VoiceTypes
  <2> QED BY <1>0, <1>1, <2>1, <2>2 DEF VoiceExposed
<1>10. VoiceStops'
  <2>1. \A a \in Voice!Actor : before[a] \subseteq said
    BY <1>0 DEF VoiceTypes
  <2>2. \A a \in Voice!Actor : \A k \in before[a] : \E i \in said' : i > k
    BY <1>1, <1>2, <2>1
  <2>3. None \notin said
    BY <1>0 DEF VoiceTypes
  <2>4. ASSUME NEW a \in Voice!Actor, worker'.job \in before[a]
        PROVE worker' = worker /\ worker.job \in said /\ epoch'[worker.job] = epoch[worker.job]
    BY <1>2, <1>3, <2>1, <2>3, <2>4
  <2>5. ASSUME NEW a \in Voice!Actor, pc[a] \in {"current", "handle"}, worker'.job \in before[a]
        PROVE  /\ worker'.at = "taken" => epoch'[worker'.job] < stopCount
               /\ worker'.at \in Busy => target[a] = worker'.job
    <3>1. worker' = worker /\ epoch'[worker.job] = epoch[worker.job]
      BY <2>4, <2>5
    <3>2. /\ worker.at = "taken" => epoch[worker.job] < stopCount
          /\ worker.at \in Busy => target[a] = worker.job
      BY <1>0, <2>5, <3>1 DEF VoiceStops
    <3> QED BY <3>1, <3>2
  <2> QED BY <1>0, <1>1, <1>4, <2>2, <2>5 DEF VoiceStops
<1>11. VoiceSilent'
  <2>1. silenced \subseteq said /\ None \notin said
    BY <1>0 DEF VoiceTypes
  <2>2. \A k \in silenced : \E i \in said' : i > k
    BY <1>1, <1>2, <2>1
  <2>3. ASSUME worker'.job \in silenced
        PROVE worker' = worker /\ worker.job \in said /\ epoch'[worker.job] = epoch[worker.job]
    BY <1>2, <1>3, <2>1, <2>3
  <2>4. ASSUME worker'.job \in silenced
        PROVE  /\ worker'.at = "taken" => epoch'[worker'.job] < stopCount
               /\ worker'.at \in Busy => worker'.job \in halted
               /\ proc # "recorded"
    <3>1. worker' = worker /\ epoch'[worker.job] = epoch[worker.job]
      BY <2>3, <2>4
    <3>2. /\ worker.at = "taken" => epoch[worker.job] < stopCount
          /\ worker.at \in Busy => worker.job \in halted
          /\ proc # "recorded"
      BY <1>0, <2>4, <3>1 DEF VoiceSilent
    <3> QED BY <3>1, <3>2
  <2> QED BY <1>0, <1>1, <1>4, <2>2, <2>4 DEF VoiceSilent
<1> QED BY <1>6, <1>7, <1>8, <1>9, <1>10, <1>11 DEF VoiceInv

LEMMA VoicePuts == ASSUME VoiceInv, Voice!Put PROVE VoiceInv'
<1> USE VoiceNames
<1>0. VoiceTypes /\ VoiceWork /\ VoiceQueue /\ VoiceExposed /\ VoiceStops /\ VoiceSilent
  BY DEF VoiceInv
<1>1. /\ lock = "say" /\ lock' = None
      /\ UNCHANGED <<said, epoch, done, halted, stopCount, worker, current, proc, held, pc, saw, target, before, silenced, exposed>>
  BY DEF Voice!Put, Voice!workVars, Voice!stopVars, Voice!ghosts
<1>2. PICK j \in said : (\A k \in said : k <= j) /\ queue' = Append(queue, j)
  BY DEF Voice!Put
<1>3. queue' \in Seq(Job \cup {0}) /\ Queued' = Queued \cup {j}
  BY <1>0, <1>2, QueueGets DEF VoiceTypes
<1>4. said \subseteq Nat
  BY <1>0 DEF VoiceTypes
<1>5. VoiceTypes' /\ VoiceWork' /\ VoiceExposed'
  BY <1>0, <1>1, <1>3 DEF VoiceTypes, VoiceWork, VoiceExposed
<1>6. VoiceQueue'
  <2>1. \A k \in said : (\A i \in said : i <= k) => k = j
    BY <1>2, <1>4
  <2> QED BY <1>0, <1>1, <1>2, <1>3, <2>1 DEF VoiceQueue
<1>7. VoiceStops'
  <2>1. \A a \in Voice!Actor : j \notin before[a]
    BY <1>0, <1>1, <1>2, <1>4 DEF VoiceStops
  <2> QED BY <1>0, <1>1, <1>3, <2>1 DEF VoiceStops
<1>8. VoiceSilent'
  <2>1. j \notin silenced
    BY <1>0, <1>1, <1>2, <1>4 DEF VoiceSilent
  <2> QED BY <1>0, <1>1, <1>3, <2>1 DEF VoiceSilent
<1> QED BY <1>5, <1>6, <1>7, <1>8 DEF VoiceInv

(* stop: of one job, and of everything said so far. *)
LEMMA VoiceStopsOne ==
  ASSUME VoiceInv, NEW a \in Stopper, NEW j \in Job, Voice!StopHandle(a, j) PROVE VoiceInv'
<1> USE VoiceNames
<1>0. VoiceTypes /\ VoiceWork /\ VoiceQueue /\ VoiceExposed /\ VoiceStops /\ VoiceSilent
  BY DEF VoiceInv
<1>1. /\ pc[a] = "idle" /\ a # 0 /\ j \in said /\ halted' = halted \cup {j}
      /\ target' = [target EXCEPT ![a] = j] /\ pc' = [pc EXCEPT ![a] = "handle"] /\ exposed' = exposed \cup {j}
      /\ UNCHANGED <<queue, said, epoch, done, stopCount, worker, current, proc, lock, held, saw, before, silenced>>
  BY DEF Voice!StopHandle, Voice!To, Voice!workVars
<1>2. /\ pc' \in [Voice!Actor -> Places] /\ target' \in [Voice!Actor -> Job \cup {None}]
      /\ pc'[a] = "handle" /\ target'[a] = j /\ a \in Voice!Actor
      /\ \A b \in Voice!Actor : b # a => pc'[b] = pc[b] /\ target'[b] = target[b]
      /\ before[a] = {}
  BY <1>0, <1>1 DEF VoiceTypes, VoiceStops, Places
<1>3. Queued' = Queued
  BY <1>1 DEF Queued
<1>4. VoiceTypes' /\ VoiceWork' /\ VoiceQueue'
  BY <1>0, <1>1, <1>2, <1>3 DEF VoiceTypes, VoiceWork, VoiceQueue
<1>5. VoiceExposed'
  BY <1>0, <1>1, <1>2 DEF VoiceExposed
<1>6. VoiceStops'
  <2>1. ASSUME NEW b \in Voice!Actor, b # a
        PROVE /\ pc'[b] \in {"idle", "exit", "join"} => before'[b] = {}
              /\ pc'[b] = "handle" => target'[b] \in halted'
              /\ pc'[b] \in {"requeue", "bump", "current", "handle"} => Queued' \cap before'[b] = {}
              /\ pc'[b] \in {"current", "handle"} /\ worker'.job \in before'[b] =>
                   /\ worker'.at = "taken" => epoch'[worker'.job] < stopCount'
                   /\ worker'.at \in Busy => target'[b] = worker'.job
              /\ lock' = "say" => \A k \in before'[b] : \E i \in said' : i > k
    BY <1>0, <1>1, <1>2, <1>3, <2>1 DEF VoiceStops
  <2>2. /\ pc'[a] = "handle" /\ target'[a] \in halted' /\ before'[a] = {}
    BY <1>1, <1>2
  <2> QED BY <2>1, <2>2 DEF VoiceStops
<1>7. VoiceSilent'
  BY <1>0, <1>1, <1>3 DEF VoiceSilent
<1> QED BY <1>4, <1>5, <1>6, <1>7 DEF VoiceInv

LEMMA VoiceStopBegins == ASSUME VoiceInv, NEW a \in Voice!Actor, Voice!Stop(a) \/ (a = 0 /\ Voice!Close) PROVE VoiceInv'
<1> USE VoiceNames
<1>0. VoiceTypes /\ VoiceWork /\ VoiceQueue /\ VoiceExposed /\ VoiceStops /\ VoiceSilent
  BY DEF VoiceInv
<1>1. /\ pc[a] = "idle" /\ pc' = [pc EXCEPT ![a] = "draining"] /\ exposed' = exposed \cup said
      /\ before' = [before EXCEPT ![a] = IF lock = "say" THEN {j \in said : j + 1 \in said} ELSE said]
      /\ UNCHANGED <<queue, said, epoch, done, halted, stopCount, worker, current, proc, held, saw, target, silenced>>
      /\ \/ a # 0 /\ lock' = lock
         \/ a = 0 /\ held /\ lock = None /\ lock' = "close"
  BY DEF Voice!Stop, Voice!Close, Voice!To, Voice!workVars, Voice!jobVars
<1>2. /\ pc' \in [Voice!Actor -> Places] /\ pc'[a] = "draining"
      /\ before' \in [Voice!Actor -> SUBSET Job]
      /\ \A b \in Voice!Actor : b # a => pc'[b] = pc[b] /\ before'[b] = before[b]
      /\ before'[a] = IF lock = "say" THEN {j \in said : j + 1 \in said} ELSE said
  BY <1>0, <1>1 DEF VoiceTypes, Places
<1>3. Queued' = Queued
  BY <1>1 DEF Queued
<1>4. VoiceTypes'
  BY <1>0, <1>1, <1>2 DEF VoiceTypes
<1>5. VoiceWork'
  BY <1>0, <1>1, <1>2 DEF VoiceWork
<1>6. VoiceQueue'
  BY <1>0, <1>1, <1>2, <1>3 DEF VoiceQueue
<1>7. VoiceExposed'
  BY <1>0, <1>1, <1>2 DEF VoiceExposed
<1>8. VoiceStops'
  <2>1. ASSUME NEW b \in Voice!Actor, b # a
        PROVE /\ pc'[b] \in {"idle", "exit", "join"} => before'[b] = {}
              /\ pc'[b] = "handle" => target'[b] \in halted'
              /\ pc'[b] \in {"requeue", "bump", "current", "handle"} => Queued' \cap before'[b] = {}
              /\ pc'[b] \in {"current", "handle"} /\ worker'.job \in before'[b] =>
                   /\ worker'.at = "taken" => epoch'[worker'.job] < stopCount'
                   /\ worker'.at \in Busy => target'[b] = worker'.job
              /\ lock' = "say" => \A k \in before'[b] : \E i \in said' : i > k
    BY <1>0, <1>1, <1>2, <1>3, <2>1 DEF VoiceStops
  <2>2. said \subseteq Nat
    BY <1>0 DEF VoiceTypes
  <2>3. lock' = "say" => lock = "say" /\ said' = said
    BY <1>1
  <2>4. lock' = "say" => \A k \in before'[a] : \E i \in said' : i > k
    <3>1. \A k \in said : k + 1 \in said => k + 1 > k
      BY <2>2
    <3> QED BY <1>2, <2>3, <3>1
  <2> QED BY <1>2, <2>1, <2>4 DEF VoiceStops
<1>9. VoiceSilent'
  BY <1>0, <1>1, <1>3 DEF VoiceSilent
<1> QED BY <1>4, <1>5, <1>6, <1>7, <1>8, <1>9 DEF VoiceInv

LEMMA VoiceDrains == ASSUME VoiceInv, NEW a \in Voice!Actor, Voice!Drain(a) \/ Voice!Requeue(a) PROVE VoiceInv'
<1> USE VoiceNames
<1>0. VoiceTypes /\ VoiceWork /\ VoiceQueue /\ VoiceExposed /\ VoiceStops /\ VoiceSilent
  BY DEF VoiceInv
<1>1. UNCHANGED <<said, epoch, stopCount, worker, current, proc, lock, held, target, before, silenced, exposed>>
  BY DEF Voice!Drain, Voice!Requeue, Voice!workVars, Voice!ghosts
<1>p. pc[a] = "draining" \/ pc[a] = "requeue"
  BY DEF Voice!Drain, Voice!Requeue
<1>2. CASE Voice!Drain(a) /\ queue = <<>>
  <2>1. pc' = [pc EXCEPT ![a] = "requeue"] /\ UNCHANGED <<queue, halted, done, saw>> /\ pc[a] = "draining"
    BY <1>2 DEF Voice!Drain, Voice!To
  <2>2. /\ pc' \in [Voice!Actor -> Places] /\ pc'[a] = "requeue"
        /\ \A b \in Voice!Actor : b # a => pc'[b] = pc[b]
    BY <1>0, <2>1 DEF VoiceTypes, Places
  <2>3. Queued = {} /\ Queued' = {}
    BY <1>2, <2>1, QueueEmpty DEF Queued
  <2>4. VoiceTypes' /\ VoiceWork'
    BY <1>0, <1>1, <2>1, <2>2 DEF VoiceTypes, VoiceWork
  <2>5. VoiceQueue'
    BY <1>0, <1>1, <2>1, <2>2, <2>3 DEF VoiceQueue
  <2>6. VoiceExposed'
    BY <1>0, <1>1, <2>1, <2>2 DEF VoiceExposed
  <2>7. VoiceStops'
    BY <1>0, <1>1, <2>1, <2>2, <2>3 DEF VoiceStops
  <2>8. VoiceSilent'
    BY <1>0, <1>1, <2>1, <2>3 DEF VoiceSilent
  <2> QED BY <2>4, <2>5, <2>6, <2>7, <2>8 DEF VoiceInv
<1>3. CASE Voice!Drain(a) /\ queue # <<>>
  <2>1. /\ pc[a] = "draining" /\ queue # <<>> /\ queue' = Tail(queue) /\ pc' = pc
        /\ IF Head(queue) = 0
             THEN saw' = saw \cup {a} /\ UNCHANGED <<halted, done>>
             ELSE halted' = halted \cup {Head(queue)} /\ done' = done \cup {Head(queue)} /\ saw' = saw
    BY <1>3 DEF Voice!Drain
  <2>2. /\ queue' \in Seq(Job \cup {0}) /\ Head(queue) \in Job \cup {0} /\ Head(queue) \in Queued
        /\ Queued' \subseteq Queued /\ Queued = Queued' \cup {Head(queue)}
    BY <1>0, <2>1, QueueTakes
  <2>3. VoiceTypes'
    BY <1>0, <1>1, <2>1, <2>2 DEF VoiceTypes
  <2>4. VoiceWork'
    BY <1>0, <1>1, <2>1 DEF VoiceWork
  <2>5. VoiceQueue'
    <3>1. 0 \in Queued \/ saw # {} => 0 \in Queued' \/ saw' # {}
      BY <2>1, <2>2
    <3>2. 0 \notin said
      BY <1>0 DEF VoiceTypes
    <3>3. \A j \in said \ done' : j \in Queued' \/ worker'.job = j \/ (lock' = "say" /\ \A k \in said' : k <= j)
      BY <1>0, <1>1, <2>1, <2>2, <3>2 DEF VoiceQueue
    <3>4. Queued' \subseteq said' \cup {0}
      BY <1>0, <1>1, <2>2 DEF VoiceQueue
    <3> QED BY <1>0, <1>1, <2>1, <3>1, <3>3, <3>4 DEF VoiceQueue
  <2>6. VoiceExposed'
    <3>1. said \subseteq exposed
      BY <1>0, <2>1 DEF VoiceExposed
    <3>2. Head(queue) # 0 => Head(queue) \in exposed
      BY <1>0, <2>2, <3>1 DEF VoiceQueue
    <3> QED BY <1>0, <1>1, <2>1, <3>2 DEF VoiceExposed
  <2>7. VoiceStops'
    BY <1>0, <1>1, <2>1, <2>2 DEF VoiceStops
  <2>8. VoiceSilent'
    BY <1>0, <1>1, <2>1, <2>2 DEF VoiceSilent
  <2> QED BY <2>3, <2>4, <2>5, <2>6, <2>7, <2>8 DEF VoiceInv
<1>4. CASE Voice!Requeue(a)
  <2>1. /\ pc[a] = "requeue" /\ pc' = [pc EXCEPT ![a] = "bump"] /\ saw' = saw \ {a}
        /\ UNCHANGED <<halted, done>>
        /\ queue' = (IF a \in saw THEN Append(queue, 0) ELSE queue)
    BY <1>4 DEF Voice!Requeue, Voice!To
  <2>2. /\ pc' \in [Voice!Actor -> Places] /\ pc'[a] = "bump"
        /\ \A b \in Voice!Actor : b # a => pc'[b] = pc[b]
    BY <1>0, <2>1 DEF VoiceTypes, Places
  <2>3. /\ queue' \in Seq(Job \cup {0})
        /\ Queued' = IF a \in saw THEN Queued \cup {0} ELSE Queued
    <3>1. CASE a \in saw
      BY <1>0, <2>1, <3>1, QueueGets
    <3>2. CASE a \notin saw
      BY <1>0, <2>1, <3>2 DEF VoiceTypes, Queued
    <3> QED BY <3>1, <3>2
  <2>4. 0 \notin said /\ \A b \in Voice!Actor : 0 \notin before[b]
    BY <1>0 DEF VoiceTypes
  <2>5. VoiceTypes' /\ VoiceWork'
    BY <1>0, <1>1, <2>1, <2>2, <2>3 DEF VoiceTypes, VoiceWork
  <2>6. VoiceQueue'
    <3>1. 0 \in Queued \/ saw # {} => 0 \in Queued' \/ saw' # {}
      BY <2>1, <2>3
    <3>2. \A j \in said : j \in Queued => j \in Queued'
      BY <2>3
    <3>3. Queued' \subseteq said' \cup {0}
      BY <1>0, <1>1, <2>3 DEF VoiceQueue
    <3>4. pc'[0] = "join" => pc[0] = "join"
      BY <2>2
    <3> QED BY <1>0, <1>1, <2>1, <3>1, <3>2, <3>3, <3>4 DEF VoiceQueue
  <2>7. VoiceExposed'
    BY <1>0, <1>1, <2>1, <2>2 DEF VoiceExposed
  <2>8. VoiceStops'
    <3>1. \A b \in Voice!Actor : Queued \cap before[b] = {} => Queued' \cap before'[b] = {}
      BY <1>1, <2>3, <2>4
    <3>2. \A b \in Voice!Actor : pc'[b] \in {"requeue", "bump", "current", "handle"} =>
            pc[b] \in {"requeue", "bump", "current", "handle"}
      BY <2>1, <2>2
    <3>3. \A b \in Voice!Actor : pc'[b] \in {"idle", "exit", "join", "current", "handle"} => pc'[b] = pc[b]
      BY <2>2
    <3> QED BY <1>0, <1>1, <2>1, <3>1, <3>2, <3>3 DEF VoiceStops
  <2>9. VoiceSilent'
    <3>1. Queued' \cap silenced' = {}
      BY <1>0, <1>1, <2>3, <2>4 DEF VoiceSilent, VoiceTypes
    <3> QED BY <1>0, <1>1, <2>1, <3>1 DEF VoiceSilent
  <2> QED BY <2>5, <2>6, <2>7, <2>8, <2>9 DEF VoiceInv
<1> QED BY <1>2, <1>3, <1>4

LEMMA VoiceReturns ==
  ASSUME VoiceTypes, NEW a \in Voice!Actor, Voice!Returned(a)
  PROVE  /\ pc' \in [Voice!Actor -> Places] /\ target' \in [Voice!Actor -> Job \cup {None}]
         /\ before' \in [Voice!Actor -> SUBSET Job] /\ \A b \in Voice!Actor : before'[b] \subseteq before[b]
         /\ pc'[a] = (IF a = 0 THEN "exit" ELSE "idle") /\ target'[a] = None /\ before'[a] = {}
         /\ \A b \in Voice!Actor : b # a => pc'[b] = pc[b] /\ target'[b] = target[b] /\ before'[b] = before[b]
<1>1. /\ pc' = [pc EXCEPT ![a] = IF a = 0 THEN "exit" ELSE "idle"]
      /\ target' = [target EXCEPT ![a] = None] /\ before' = [before EXCEPT ![a] = {}]
  BY VoiceNames DEF Voice!Returned, Voice!To
<1>2. pc' \in [Voice!Actor -> Places] /\ target' \in [Voice!Actor -> Job \cup {None}]
  BY <1>1 DEF VoiceTypes, Places
<1>3. before' \in [Voice!Actor -> SUBSET Job]
  BY <1>1 DEF VoiceTypes
<1> QED BY <1>1, <1>2, <1>3 DEF VoiceTypes

(* The count, with no job under way: whatever is taken from here on is     *)
(* found to be stopped.                                                    *)
LEMMA VoiceBumps == ASSUME VoiceInv, NEW a \in Voice!Actor, Voice!Bump(a) PROVE VoiceInv'
<1> USE VoiceNames
<1>0. VoiceTypes /\ VoiceWork /\ VoiceQueue /\ VoiceExposed /\ VoiceStops /\ VoiceSilent
  BY DEF VoiceInv
<1>1. /\ pc[a] = "bump" /\ stopCount' = stopCount + 1
      /\ UNCHANGED <<queue, said, epoch, done, halted, worker, current, proc, lock, held, saw, exposed>>
  BY DEF Voice!Bump, Voice!workVars, Voice!jobVars
<1>2. Queued' = Queued
  BY <1>1 DEF Queued
<1>3. /\ stopCount \in Nat /\ stopCount' \in Nat
      /\ \A j \in said : epoch[j] \in Nat /\ epoch[j] <= stopCount /\ epoch[j] < stopCount' /\ epoch[j] <= stopCount'
      /\ said \subseteq exposed
  BY <1>0, <1>1 DEF VoiceTypes, VoiceExposed
<1>4. /\ Queued \cap before[a] = {} /\ before[a] \subseteq said
      /\ lock = "say" => \A j \in before[a] : \E k \in said : k > j
  BY <1>0, <1>1 DEF VoiceStops, VoiceTypes
<1>5. CASE current = None
  <2>1. Voice!Returned(a) /\ silenced' = silenced \cup before[a]
    BY <1>5 DEF Voice!Bump
  <2>2. /\ pc' \in [Voice!Actor -> Places] /\ target' \in [Voice!Actor -> Job \cup {None}]
        /\ before' \in [Voice!Actor -> SUBSET Job] /\ \A b \in Voice!Actor : before'[b] \subseteq before[b]
        /\ pc'[a] = (IF a = 0 THEN "exit" ELSE "idle") /\ target'[a] = None /\ before'[a] = {}
        /\ \A b \in Voice!Actor : b # a => pc'[b] = pc[b] /\ target'[b] = target[b] /\ before'[b] = before[b]
    BY <1>0, <2>1, VoiceReturns
  <2>3. VoiceTypes'
    BY <1>0, <1>1, <1>3, <1>4, <2>1, <2>2 DEF VoiceTypes
  <2>4. VoiceWork'
    BY <1>0, <1>1, <2>2 DEF VoiceWork
  <2>5. VoiceQueue'
    BY <1>0, <1>1, <1>2, <2>2 DEF VoiceQueue
  <2>6. VoiceExposed'
    BY <1>0, <1>1, <1>3, <2>2 DEF VoiceExposed
  <2>7. ASSUME NEW b \in Voice!Actor, b # a
        PROVE /\ pc'[b] \in {"idle", "exit", "join"} => before'[b] = {}
              /\ pc'[b] = "handle" => target'[b] \in halted'
              /\ pc'[b] \in {"requeue", "bump", "current", "handle"} => Queued' \cap before'[b] = {}
              /\ pc'[b] \in {"current", "handle"} /\ worker'.job \in before'[b] =>
                   /\ worker'.at = "taken" => epoch'[worker'.job] < stopCount'
                   /\ worker'.at \in Busy => target'[b] = worker'.job
              /\ lock' = "say" => \A k \in before'[b] : \E i \in said' : i > k
    <3>1. before[b] \subseteq said
      BY <1>0 DEF VoiceTypes
    <3> QED BY <1>0, <1>1, <1>2, <1>3, <2>2, <2>7, <3>1 DEF VoiceStops
  <2>8. VoiceStops'
    BY <2>2, <2>7 DEF VoiceStops
  <2>9. VoiceSilent'
    <3>1. worker.at \notin Busy
      BY <1>0, <1>5 DEF VoiceWork, VoiceTypes
    <3>2. proc # "recorded"
      BY <1>0, <3>1 DEF VoiceWork, Busy
    <3>3. worker'.job \in silenced' => worker.job \in said
      BY <1>0, <1>1, <1>4, <2>1 DEF VoiceTypes
    <3>4. lock' = "say" => \A j \in silenced' : \E k \in said' : k > j
      BY <1>0, <1>1, <1>4, <2>1 DEF VoiceSilent
    <3>5. Queued' \cap silenced' = {}
      BY <1>0, <1>2, <1>4, <2>1 DEF VoiceSilent
    <3> QED BY <1>1, <1>3, <3>1, <3>2, <3>3, <3>4, <3>5 DEF VoiceSilent
  <2> QED BY <2>3, <2>4, <2>5, <2>6, <2>8, <2>9 DEF VoiceInv
<1>6. CASE current # None
  <2>1. target' = [target EXCEPT ![a] = current] /\ pc' = [pc EXCEPT ![a] = "current"] /\ UNCHANGED <<before, silenced>>
    BY <1>6 DEF Voice!Bump, Voice!To
  <2>2. current \in Job /\ worker.at \in Busy /\ current = worker.job /\ worker.job \in said
    BY <1>0, <1>6 DEF VoiceTypes, VoiceWork
  <2>3. /\ pc' \in [Voice!Actor -> Places] /\ target' \in [Voice!Actor -> Job \cup {None}]
        /\ pc'[a] = "current" /\ target'[a] = worker.job
        /\ \A b \in Voice!Actor : b # a => pc'[b] = pc[b] /\ target'[b] = target[b]
    BY <1>0, <2>1, <2>2 DEF VoiceTypes, Places
  <2>4. VoiceTypes'
    BY <1>0, <1>1, <1>3, <2>1, <2>3 DEF VoiceTypes
  <2>5. VoiceWork'
    BY <1>0, <1>1, <2>3 DEF VoiceWork
  <2>6. VoiceQueue'
    BY <1>0, <1>1, <1>2, <2>3 DEF VoiceQueue
  <2>7. VoiceExposed'
    BY <1>0, <1>1, <1>3, <2>2, <2>3 DEF VoiceExposed
  <2>8. ASSUME NEW b \in Voice!Actor, b # a
        PROVE /\ pc'[b] \in {"idle", "exit", "join"} => before'[b] = {}
              /\ pc'[b] = "handle" => target'[b] \in halted'
              /\ pc'[b] \in {"requeue", "bump", "current", "handle"} => Queued' \cap before'[b] = {}
              /\ pc'[b] \in {"current", "handle"} /\ worker'.job \in before'[b] =>
                   /\ worker'.at = "taken" => epoch'[worker'.job] < stopCount'
                   /\ worker'.at \in Busy => target'[b] = worker'.job
              /\ lock' = "say" => \A k \in before'[b] : \E i \in said' : i > k
    <3>1. before[b] \subseteq said
      BY <1>0 DEF VoiceTypes
    <3> QED BY <1>0, <1>1, <1>2, <1>3, <2>1, <2>3, <2>8, <3>1 DEF VoiceStops
  <2>9. VoiceStops'
    BY <1>1, <1>2, <1>4, <2>1, <2>2, <2>3, <2>8 DEF VoiceStops, Busy
  <2>10. VoiceSilent'
    BY <1>0, <1>1, <1>2, <2>1, <2>2 DEF VoiceSilent, Busy
  <2> QED BY <2>4, <2>5, <2>6, <2>7, <2>9, <2>10 DEF VoiceInv
<1> QED BY <1>5, <1>6

(* The job under way: its event first, its player afterwards. *)
LEMMA VoiceInterrupts == ASSUME VoiceInv, NEW a \in Voice!Actor, Voice!Interrupt(a) PROVE VoiceInv'
<1> USE VoiceNames
<1>0. VoiceTypes /\ VoiceWork /\ VoiceQueue /\ VoiceExposed /\ VoiceStops /\ VoiceSilent
  BY DEF VoiceInv
<1>1. /\ pc[a] = "current" /\ pc' = [pc EXCEPT ![a] = "handle"] /\ halted' = halted \cup {target[a]}
      /\ UNCHANGED <<queue, said, epoch, done, stopCount, worker, current, proc, lock, held, saw, target, before, silenced, exposed>>
  BY DEF Voice!Interrupt, Voice!To, Voice!workVars, Voice!ghosts
<1>2. /\ pc' \in [Voice!Actor -> Places] /\ pc'[a] = "handle"
      /\ \A b \in Voice!Actor : b # a => pc'[b] = pc[b]
  BY <1>0, <1>1 DEF VoiceTypes, Places
<1>3. Queued' = Queued
  BY <1>1 DEF Queued
<1>4. VoiceTypes' /\ VoiceWork' /\ VoiceQueue'
  BY <1>0, <1>1, <1>2, <1>3 DEF VoiceTypes, VoiceWork, VoiceQueue
<1>5. VoiceExposed'
  BY <1>0, <1>1, <1>2 DEF VoiceExposed
<1>6. VoiceStops'
  BY <1>0, <1>1, <1>2, <1>3 DEF VoiceStops
<1>7. VoiceSilent'
  BY <1>0, <1>1, <1>3 DEF VoiceSilent
<1> QED BY <1>4, <1>5, <1>6, <1>7 DEF VoiceInv

LEMMA VoiceHandles == ASSUME VoiceInv, NEW a \in Voice!Actor, Voice!HandleStop(a) PROVE VoiceInv'
<1> USE VoiceNames
<1>0. VoiceTypes /\ VoiceWork /\ VoiceQueue /\ VoiceExposed /\ VoiceStops /\ VoiceSilent
  BY DEF VoiceInv
<1>1. /\ pc[a] = "handle" /\ Voice!Returned(a) /\ silenced' = silenced \cup before[a]
      /\ UNCHANGED <<queue, said, epoch, halted, stopCount, worker, current, lock, held, saw, exposed>>
      /\ done \subseteq done'
      /\ IF current = target[a] THEN proc' = (IF proc = "recorded" THEN "dying" ELSE proc) ELSE proc' = proc
  BY DEF Voice!HandleStop
<1>2. /\ pc' \in [Voice!Actor -> Places] /\ target' \in [Voice!Actor -> Job \cup {None}]
      /\ before' \in [Voice!Actor -> SUBSET Job] /\ \A b \in Voice!Actor : before'[b] \subseteq before[b]
      /\ pc'[a] = (IF a = 0 THEN "exit" ELSE "idle") /\ target'[a] = None /\ before'[a] = {}
      /\ \A b \in Voice!Actor : b # a => pc'[b] = pc[b] /\ target'[b] = target[b] /\ before'[b] = before[b]
  BY <1>0, <1>1, VoiceReturns
<1>3. Queued' = Queued
  BY <1>1 DEF Queued
<1>4. proc' \in {None, "started", "recorded", "dying"} /\ (proc' = proc \/ (proc = "recorded" /\ proc' = "dying"))
  BY <1>0, <1>1 DEF VoiceTypes
<1>5. before[a] \subseteq said
  BY <1>0 DEF VoiceTypes
<1>6. VoiceTypes'
  BY <1>0, <1>1, <1>2, <1>4, <1>5 DEF VoiceTypes
<1>7. VoiceWork'
  BY <1>0, <1>1, <1>2, <1>4 DEF VoiceWork
<1>8. VoiceQueue'
  BY <1>0, <1>1, <1>2, <1>3 DEF VoiceQueue
<1>9. VoiceExposed'
  BY <1>0, <1>1, <1>2 DEF VoiceExposed
<1>10. ASSUME NEW b \in Voice!Actor, b # a
       PROVE /\ pc'[b] \in {"idle", "exit", "join"} => before'[b] = {}
             /\ pc'[b] = "handle" => target'[b] \in halted'
             /\ pc'[b] \in {"requeue", "bump", "current", "handle"} => Queued' \cap before'[b] = {}
             /\ pc'[b] \in {"current", "handle"} /\ worker'.job \in before'[b] =>
                  /\ worker'.at = "taken" => epoch'[worker'.job] < stopCount'
                  /\ worker'.at \in Busy => target'[b] = worker'.job
             /\ lock' = "say" => \A k \in before'[b] : \E i \in said' : i > k
  BY <1>0, <1>1, <1>2, <1>3, <1>10 DEF VoiceStops
<1>11. VoiceStops'
  BY <1>2, <1>10 DEF VoiceStops
<1>12. VoiceSilent'
  <2>1. /\ Queued \cap before[a] = {} /\ target[a] \in halted
        /\ lock = "say" => \A j \in before[a] : \E k \in said : k > j
        /\ worker.job \in before[a] =>
             /\ worker.at = "taken" => epoch[worker.job] < stopCount
             /\ worker.at \in Busy => target[a] = worker.job
    BY <1>0, <1>1 DEF VoiceStops
  <2>2. lock' = "say" => \A j \in silenced' : \E k \in said' : k > j
    BY <1>0, <1>1, <2>1 DEF VoiceSilent
  <2>3. Queued' \cap silenced' = {}
    BY <1>0, <1>1, <1>3, <2>1 DEF VoiceSilent
  <2>4. ASSUME worker.job \in before[a]
        PROVE  /\ worker.at = "taken" => epoch[worker.job] < stopCount
               /\ worker.at \in Busy => worker.job \in halted
               /\ proc' # "recorded"
    <3>1. proc = "recorded" => worker.at \in Busy
      BY <1>0 DEF VoiceWork, Busy
    <3>2. worker.at \in Busy => current = target[a]
      BY <1>0, <2>1, <2>4 DEF VoiceWork
    <3> QED BY <1>1, <2>1, <2>4, <3>1, <3>2
  <2>5. ASSUME worker.job \in silenced
        PROVE  /\ worker.at = "taken" => epoch[worker.job] < stopCount
               /\ worker.at \in Busy => worker.job \in halted
               /\ proc' # "recorded"
    BY <1>0, <1>4, <2>5 DEF VoiceSilent
  <2> QED BY <1>1, <2>2, <2>3, <2>4, <2>5 DEF VoiceSilent
<1> QED BY <1>6, <1>7, <1>8, <1>9, <1>11, <1>12 DEF VoiceInv

(* open and close. *)
LEMMA VoiceOpens == ASSUME VoiceInv, Voice!Open \/ Voice!Opened PROVE VoiceInv'
<1> USE VoiceNames
<1>0. VoiceTypes /\ VoiceWork /\ VoiceQueue /\ VoiceExposed /\ VoiceStops /\ VoiceSilent
  BY DEF VoiceInv
<1>1. UNCHANGED <<queue, said, epoch, done, halted, stopCount, worker, current, proc, pc, saw, target, before, silenced, exposed>>
  BY DEF Voice!Open, Voice!Opened, Voice!workVars, Voice!jobVars, Voice!stopVars, Voice!ghosts
<1>2. /\ lock # "say" /\ lock' # "say" /\ lock # "close" /\ lock' # "close"
      /\ ~held' \/ lock' = "open_new" => ~held \/ lock = "open_new"
  BY DEF Voice!Open, Voice!Opened
<1>3. Queued' = Queued
  BY <1>1 DEF Queued
<1>4. VoiceTypes' /\ VoiceExposed' /\ VoiceStops' /\ VoiceSilent'
  BY <1>0, <1>1, <1>2, <1>3 DEF VoiceTypes, VoiceExposed, VoiceStops, VoiceSilent
<1>5. VoiceWork'
  BY <1>0, <1>1, <1>2 DEF VoiceWork
<1>6. VoiceQueue'
  BY <1>0, <1>1, <1>2, <1>3 DEF VoiceQueue
<1> QED BY <1>4, <1>5, <1>6 DEF VoiceInv

LEMMA VoiceCloses == ASSUME VoiceInv, Voice!PutExit \/ Voice!Closed PROVE VoiceInv'
<1> USE VoiceNames
<1>0. VoiceTypes /\ VoiceWork /\ VoiceQueue /\ VoiceExposed /\ VoiceStops /\ VoiceSilent
  BY DEF VoiceInv
<1>1. UNCHANGED <<said, epoch, done, halted, stopCount, worker, current, proc, saw, target, before, silenced, exposed>>
  BY DEF Voice!PutExit, Voice!Closed, Voice!workVars, Voice!jobVars, Voice!ghosts
<1>2. CASE Voice!PutExit
  <2>1. /\ pc[0] = "exit" /\ pc' = [pc EXCEPT ![0] = "join"] /\ UNCHANGED <<lock, held>>
        /\ queue' = (IF worker.at = "none" THEN queue ELSE Append(queue, 0))
    BY <1>2 DEF Voice!PutExit, Voice!To
  <2>2. /\ pc' \in [Voice!Actor -> Places] /\ pc'[0] = "join" /\ 0 \in Voice!Actor
        /\ \A b \in Voice!Actor : b # 0 => pc'[b] = pc[b]
    BY <1>0, <2>1 DEF VoiceTypes, Places
  <2>3. queue' \in Seq(Job \cup {0}) /\ Queued' = IF worker.at = "none" THEN Queued ELSE Queued \cup {0}
    <3>1. CASE worker.at = "none"
      BY <1>0, <2>1, <3>1 DEF VoiceTypes, Queued
    <3>2. CASE worker.at # "none"
      BY <1>0, <2>1, <3>2, QueueGets
    <3> QED BY <3>1, <3>2
  <2>4. 0 \notin silenced /\ \A b \in Voice!Actor : 0 \notin before[b]
    BY <1>0 DEF VoiceTypes
  <2>5. VoiceTypes' /\ VoiceWork'
    BY <1>0, <1>1, <2>1, <2>2, <2>3 DEF VoiceTypes, VoiceWork
  <2>6. VoiceQueue'
    BY <1>0, <1>1, <2>1, <2>2, <2>3 DEF VoiceQueue
  <2>7. VoiceExposed'
    BY <1>0, <1>1, <2>1, <2>2 DEF VoiceExposed
  <2>8. VoiceStops'
    <3>1. \A b \in Voice!Actor : Queued \cap before[b] = {} => Queued' \cap before'[b] = {}
      BY <1>1, <2>3, <2>4
    <3>2. \A b \in Voice!Actor : pc'[b] \in {"requeue", "bump", "current", "handle"} => pc'[b] = pc[b]
      BY <2>2
    <3>3. before[0] = {}
      BY <1>0, <2>1, <2>2 DEF VoiceStops
    <3> QED BY <1>0, <1>1, <2>1, <2>2, <3>1, <3>2, <3>3 DEF VoiceStops
  <2>9. VoiceSilent'
    BY <1>0, <1>1, <2>1, <2>3, <2>4 DEF VoiceSilent
  <2> QED BY <2>5, <2>6, <2>7, <2>8, <2>9 DEF VoiceInv
<1>3. CASE Voice!Closed
  <2>1. /\ pc[0] = "join" /\ worker.at = "none" /\ pc' = [pc EXCEPT ![0] = "idle"]
        /\ held' = FALSE /\ lock' = None /\ queue' = queue
    BY <1>3 DEF Voice!Closed, Voice!To, Voice!jobVars
  <2>2. /\ pc' \in [Voice!Actor -> Places] /\ pc'[0] = "idle" /\ 0 \in Voice!Actor
        /\ \A b \in Voice!Actor : b # 0 => pc'[b] = pc[b]
    BY <1>0, <2>1 DEF VoiceTypes, Places
  <2>3. Queued' = Queued /\ lock = "close"
    BY <1>0, <2>1 DEF Queued, VoiceWork
  <2>4. VoiceTypes' /\ VoiceWork'
    BY <1>0, <1>1, <2>1, <2>2 DEF VoiceTypes, VoiceWork
  <2>5. VoiceQueue'
    BY <1>0, <1>1, <2>1, <2>2, <2>3 DEF VoiceQueue
  <2>6. VoiceExposed'
    BY <1>0, <1>1, <2>2 DEF VoiceExposed
  <2>7. VoiceStops' /\ VoiceSilent'
    BY <1>0, <1>1, <2>1, <2>2, <2>3 DEF VoiceStops, VoiceSilent
  <2> QED BY <2>4, <2>5, <2>6, <2>7 DEF VoiceInv
<1> QED BY <1>2, <1>3

LEMMA VoiceStep == ASSUME VoiceInv, Voice!Next PROVE VoiceInv'
<1>1. 0 \in Voice!Actor
  BY VoiceNames
<1> QED BY <1>1, VoiceBusy, VoiceTurns, VoiceSays, VoicePuts, VoiceStopsOne, VoiceStopBegins, VoiceDrains, VoiceBumps,
           VoiceInterrupts, VoiceHandles, VoiceOpens, VoiceCloses DEF Voice!Next

LEMMA VoiceStutters == ASSUME VoiceInv, UNCHANGED speakerOnly, UNCHANGED shared PROVE VoiceInv'
<1>1. UNCHANGED <<queue, said, epoch, done, halted, stopCount, worker, current, proc, lock, held, pc, saw, target, before, silenced, exposed>>
  BY DEF speakerOnly, shared
<1>2. Queued' = Queued
  BY <1>1 DEF Queued
<1> QED BY <1>1, <1>2 DEF VoiceInv, VoiceTypes, VoiceWork, VoiceQueue, VoiceExposed, VoiceStops, VoiceSilent

LEMMA VoiceEnds ==
  ASSUME VoiceInv
  PROVE  Voice!PlaysReserved /\ Voice!NoHandleIsLost /\ Voice!LaterSpeechSurvives /\ Voice!StoppedIsSilent
<1> USE VoiceNames
<1>0. VoiceTypes /\ VoiceWork /\ VoiceQueue /\ VoiceExposed /\ VoiceStops /\ VoiceSilent
  BY DEF VoiceInv
<1>1. Voice!PlaysReserved
  BY <1>0 DEF Voice!PlaysReserved, VoiceTypes, VoiceWork
<1>2. Voice!LaterSpeechSurvives /\ Voice!StoppedIsSilent
  BY <1>0 DEF Voice!LaterSpeechSurvives, Voice!StoppedIsSilent, Voice!Doing, VoiceExposed, VoiceSilent
<1>3. queue \in Seq(Job \cup {0}) /\ DOMAIN queue = 1..Len(queue) /\ Queued = {queue[i] : i \in DOMAIN queue}
  <2>1. queue \in Seq(Job \cup {0}) /\ DOMAIN queue = 1..Len(queue)
    BY <1>0 DEF VoiceTypes
  <2> QED BY <2>1 DEF Queued
<1>4. \A j \in said \ done :
        \/ \E i \in DOMAIN queue : queue[i] = j
        \/ worker.job = j
        \/ lock = "say" /\ j + 1 \notin said
  <2>1. said \subseteq Nat
    BY <1>0 DEF VoiceTypes
  <2>2. \A j \in said : (\A k \in said : k <= j) => j + 1 \notin said
    BY <2>1
  <2> QED BY <1>0, <1>3, <2>2 DEF VoiceQueue
<1>5. pc[0] = "join" /\ worker.at = "idle" => queue # <<>> \/ saw # {}
  BY <1>0, QueueEmpty DEF VoiceQueue
<1> QED BY <1>1, <1>2, <1>4, <1>5 DEF Voice!NoHandleIsLost, Voice!Doing

------------------------------------------------------------------------------
(* The wake word agent's ear                                               *)

NextOf(q, h) == IF q = <<>> THEN h + 1 ELSE q[1][1]
EarNext == NextOf(queue, heard)

(* s is a piece of what was heard that ends before sample e. *)
UpTo(s, e) == \A i \in 1..Len(s) : s[i] = e - Len(s) + i - 1
Fresh(s) == \A i \in 1..Len(s) : s[i] > answered

(* s leads to sample e and lacks nothing but samples of D. *)
Fol(x, y, D) == x < y /\ (x + 1)..(y - 1) \subseteq D
Along(s, e, D) == \A i \in 1..Len(s) : Fol(s[i], IF i = Len(s) THEN e ELSE s[i + 1], D)
First(s, e) == IF s = <<>> THEN e ELSE s[1]

EarTypes ==
  /\ heard \in Nat /\ answered \in Nat /\ answered <= heard
  /\ queue \in Seq(Seq(Nat))
  /\ carry \in Seq(Nat) /\ preRoll \in Seq(Nat) /\ speech \in Seq(Nat) /\ utterance \in Seq(Nat)
  /\ speaking \in BOOLEAN /\ silence \in Nat
  /\ loop \in {"listening", "scoring", "completed", "handling", "draining"}

(* The chunks in the queue follow each other up to what was heard last. *)
Chained(q, h) ==
  \A i \in 1..Len(q) : Len(q[i]) >= 1 /\ UpTo(q[i], IF i = Len(q) THEN h + 1 ELSE q[i + 1][1])
EarQueue == Chained(queue, heard)

(* What the segmenter holds leads to where the queue begins, but for what  *)
(* the queue gave up.                                                      *)
EarFits ==
  loop \in {"listening", "scoring"} =>
    /\ Along(carry, EarNext, dropped)
    /\ Along(preRoll, First(carry, EarNext), dropped) /\ Along(speech, First(carry, EarNext), dropped)
    /\ IF speaking THEN preRoll = <<>> /\ Len(speech) < MaxSpeech ELSE speech = <<>>

EarPiece(s, D) == \A i \in 1..(Len(s) - 1) : Fol(s[i], s[i + 1], D)
Longest == (IF MaxSpeech > PreRoll + Frame THEN MaxSpeech ELSE PreRoll + Frame) + Frame

EarHanded ==
  /\ loop = "completed" => EarPiece(speech, dropped) /\ Len(speech) < Longest
  /\ loop = "handling" => EarPiece(utterance, dropped) /\ Len(utterance) < Longest
  /\ Len(preRoll) <= PreRoll

(* Only what is drained is older than the last answer. *)
EarLive ==
  /\ Fresh(utterance)
  /\ loop # "draining" =>
       /\ \A i \in 1..Len(queue) : Fresh(queue[i])
       /\ Fresh(carry) /\ Fresh(preRoll) /\ Fresh(speech)

EarInv == EarTypes /\ EarQueue /\ EarFits /\ EarHanded /\ EarLive

LEMMA EarNames ==
  /\ Chunk \subseteq Nat \ {0} /\ Frame \in Nat \ {0} /\ EarRoom \in Nat \ {0}
  /\ PreRoll \in Nat /\ Silence \in Nat /\ MaxSpeech \in Nat /\ MaxHeard \in Nat
  BY WakeConstants DEF Ear!WakeWordAssumption

LEMMA OneMoreFrame ==
  ASSUME NEW n \in Nat
  PROVE  (n < MaxSpeech \/ n <= PreRoll) => n + Frame < Longest
BY EarNames DEF Longest

LEMMA Emptied == Len(<<>>) = 0 /\ <<>> \in Seq(Nat) /\ (\A e : UpTo(<<>>, e)) /\ \A e, D : Along(<<>>, e, D) /\ First(<<>>, e) = e
<1>1. Len(<<>>) = 0 /\ <<>> \in Seq(Nat)
  OBVIOUS
<1> QED BY <1>1 DEF UpTo, Along, First

(* A chunk as it was heard leads to where it ends. *)
LEMMA Unbroken ==
  ASSUME NEW s \in Seq(Nat), NEW e \in Int, NEW D, UpTo(s, e)
  PROVE  Along(s, e, D) /\ First(s, e) = e - Len(s)
<1>0. Len(s) \in Nat /\ \A i \in 1..Len(s) : s[i] \in Nat /\ s[i] = e - Len(s) + i - 1
  BY DEF UpTo
<1>1. ASSUME NEW i \in 1..Len(s) PROVE Fol(s[i], IF i = Len(s) THEN e ELSE s[i + 1], D)
  <2>1. PICK y : y = IF i = Len(s) THEN e ELSE s[i + 1]
    OBVIOUS
  <2>2. y = s[i] + 1 /\ s[i] \in Nat
    <3>1. CASE i = Len(s)
      BY <1>0, <2>1, <3>1
    <3>2. CASE i # Len(s)
      <4>1. i + 1 \in 1..Len(s) /\ y = s[i + 1]
        BY <1>0, <2>1, <3>2
      <4> QED BY <1>0, <4>1
    <3> QED BY <3>1, <3>2
  <2>3. Fol(s[i], y, D)
    BY <2>2 DEF Fol
  <2> QED BY <2>1, <2>3
<1>2. First(s, e) = e - Len(s)
  <2>1. CASE s = <<>>
    BY <2>1, Emptied DEF First
  <2>2. CASE s # <<>>
    <3>1. 1 \in 1..Len(s)
      BY <2>2, EmptySeq
    <3> QED BY <1>0, <2>2, <3>1 DEF First
  <2> QED BY <2>1, <2>2
<1> QED BY <1>1, <1>2 DEF Along

(* Two sequences that meet are one. *)
LEMMA Joined ==
  ASSUME NEW s \in Seq(Nat), NEW t \in Seq(Nat), NEW e \in Int, NEW D, Along(s, First(t, e), D), Along(t, e, D)
  PROVE  /\ s \o t \in Seq(Nat) /\ Len(s \o t) = Len(s) + Len(t)
         /\ Along(s \o t, e, D) /\ First(s \o t, e) = First(s, First(t, e))
<1>1. /\ s \o t \in Seq(Nat) /\ Len(s \o t) = Len(s) + Len(t)
      /\ \A i \in 1..Len(s) + Len(t) : (s \o t)[i] = IF i <= Len(s) THEN s[i] ELSE t[i - Len(s)]
  BY ConcatProperties
<1> DEFINE u == s \o t
<1>2. /\ u \in Seq(Nat) /\ Len(u) = Len(s) + Len(t) /\ Len(s) \in Nat /\ Len(t) \in Nat
      /\ \A i \in 1..Len(s) + Len(t) : u[i] = IF i <= Len(s) THEN s[i] ELSE t[i - Len(s)]
  BY <1>1
<1> HIDE DEF u
<1>e. (s = <<>> <=> Len(s) = 0) /\ (t = <<>> <=> Len(t) = 0) /\ (u = <<>> <=> Len(u) = 0)
  BY <1>2, EmptySeq
<1>3. ASSUME NEW i \in 1..Len(u) PROVE Fol(u[i], IF i = Len(u) THEN e ELSE u[i + 1], D)
  <2>1. CASE i < Len(s)
    <3>0. i \in Int /\ Len(s) \in Nat /\ Len(t) \in Nat /\ Len(u) = Len(s) + Len(t) /\ 1 <= i
      BY <1>2
    <3>a. i \in 1..Len(s) /\ i # Len(s) /\ i # Len(u) /\ i \in 1..Len(s) + Len(t) /\ i + 1 \in 1..Len(s) + Len(t)
      BY <2>1, <3>0
    <3>b. i <= Len(s) /\ i + 1 <= Len(s)
      BY <2>1, <3>0
    <3>1. i \in 1..Len(s) /\ i # Len(s) /\ i # Len(u) /\ u[i] = s[i] /\ u[i + 1] = s[i + 1]
      BY <1>2, <3>a, <3>b
    <3>2. Fol(s[i], s[i + 1], D)
      BY <3>1 DEF Along
    <3> QED BY <3>1, <3>2
  <2>2. CASE i = Len(s)
    <3>1. i \in 1..Len(s) /\ u[i] = s[i]
      BY <1>2, <2>2
    <3>2. Fol(s[i], First(t, e), D)
      BY <2>2, <3>1 DEF Along
    <3>3. First(t, e) = IF i = Len(u) THEN e ELSE u[i + 1]
      <4>1. CASE Len(t) = 0
        BY <1>2, <1>e, <2>2, <4>1 DEF First
      <4>2. CASE Len(t) # 0
        <5>1. i # Len(u) /\ i + 1 \in 1..Len(s) + Len(t) /\ ~(i + 1 <= Len(s)) /\ i + 1 - Len(s) = 1
          BY <1>2, <2>2, <4>2
        <5>2. u[i + 1] = t[1]
          BY <1>2, <5>1
        <5> QED BY <1>e, <4>2, <5>1, <5>2 DEF First
      <4> QED BY <4>1, <4>2
    <3> QED BY <3>1, <3>2, <3>3
  <2>3. CASE i > Len(s)
    <3>1. PICK j : j = i - Len(s)
      OBVIOUS
    <3>2. j \in 1..Len(t) /\ u[i] = t[j] /\ (i = Len(u) <=> j = Len(t))
      BY <1>2, <2>3, <3>1
    <3>3. Fol(t[j], IF j = Len(t) THEN e ELSE t[j + 1], D)
      BY <3>2 DEF Along
    <3>4. i # Len(u) => u[i + 1] = t[j + 1]
      <4>1. i # Len(u) => i + 1 \in 1..Len(s) + Len(t) /\ ~(i + 1 <= Len(s)) /\ i + 1 - Len(s) = j + 1
        BY <1>2, <2>3, <3>1
      <4> QED BY <1>2, <4>1
    <3> QED BY <3>2, <3>3, <3>4
  <2> QED BY <1>2, <2>1, <2>2, <2>3
<1>4. Along(u, e, D)
  BY <1>3 DEF Along
<1>5. First(u, e) = First(s, First(t, e))
  <2>1. CASE Len(s) = 0 /\ Len(t) = 0
    BY <1>2, <1>e, <2>1 DEF First
  <2>2. CASE Len(s) = 0 /\ Len(t) # 0
    <3>1. 1 \in 1..Len(s) + Len(t) /\ ~(1 <= Len(s)) /\ 1 - Len(s) = 1 /\ Len(u) # 0
      BY <1>2, <2>2
    <3>2. u[1] = t[1]
      BY <1>2, <3>1
    <3> QED BY <1>e, <2>2, <3>1, <3>2 DEF First
  <2>3. CASE Len(s) # 0
    <3>1. u[1] = s[1] /\ Len(u) # 0
      BY <1>2, <2>3
    <3> QED BY <1>e, <2>3, <3>1 DEF First
  <2> QED BY <2>1, <2>2, <2>3
<1> QED BY <1>2, <1>4, <1>5 DEF u

LEMMA JoinedFresh ==
  ASSUME NEW s \in Seq(Nat), NEW t \in Seq(Nat), Fresh(s), Fresh(t) PROVE Fresh(s \o t)
<1>1. /\ Len(s \o t) = Len(s) + Len(t)
      /\ \A i \in 1..Len(s) + Len(t) : (s \o t)[i] = IF i <= Len(s) THEN s[i] ELSE t[i - Len(s)]
  BY ConcatProperties
<1> DEFINE u == s \o t
<1>2. /\ Len(u) = Len(s) + Len(t) /\ Len(s) \in Nat /\ Len(t) \in Nat
      /\ \A i \in 1..Len(s) + Len(t) : u[i] = IF i <= Len(s) THEN s[i] ELSE t[i - Len(s)]
  BY <1>1
<1> HIDE DEF u
<1>3. ASSUME NEW i \in 1..Len(u) PROVE u[i] > answered
  <2>1. CASE i <= Len(s)
    BY <1>2, <2>1 DEF Fresh
  <2>2. CASE ~(i <= Len(s))
    <3>1. i - Len(s) \in 1..Len(t) /\ u[i] = t[i - Len(s)]
      BY <1>2, <2>2
    <3> QED BY <3>1 DEF Fresh
  <2> QED BY <2>1, <2>2
<1>4. Fresh(u)
  BY <1>3 DEF Fresh
<1> QED BY <1>4 DEF u

(* The rest of a sequence, and its beginning. *)
LEMMA Parted ==
  ASSUME NEW s \in Seq(Nat), NEW e \in Int, NEW D, NEW n \in Nat, Along(s, e, D)
  PROVE  /\ SubSeq(s, n + 1, Len(s)) \in Seq(Nat)
         /\ Len(SubSeq(s, n + 1, Len(s))) = IF n <= Len(s) THEN Len(s) - n ELSE 0
         /\ Along(SubSeq(s, n + 1, Len(s)), e, D)
         /\ First(SubSeq(s, n + 1, Len(s)), e) = IF n < Len(s) THEN s[n + 1] ELSE e
         /\ Fresh(s) => Fresh(SubSeq(s, n + 1, Len(s)))
<1>0. Len(s) \in Nat /\ \A i \in 1..Len(s) : s[i] \in Nat
  OBVIOUS
<1>1. \A i \in (n + 1)..Len(s) : s[i] \in Nat
  BY <1>0
<1> DEFINE u == SubSeq(s, n + 1, Len(s))
<1>2. /\ u \in Seq(Nat) /\ Len(u) = (IF n + 1 <= Len(s) THEN Len(s) - (n + 1) + 1 ELSE 0)
      /\ \A i \in 1..(Len(s) - (n + 1) + 1) : u[i] = s[n + 1 + i - 1]
  <2>1. n + 1 \in Int /\ Len(s) \in Int
    BY <1>0
  <2> QED BY <1>1, <2>1, SubSeqProperties
<1> HIDE DEF u
<1>3. ASSUME NEW i \in 1..Len(u) PROVE Len(u) = Len(s) - n /\ n + i \in 1..Len(s) /\ u[i] = s[n + i]
  <2>1. n + i \in 1..Len(s) /\ u[i] = s[n + 1 + i - 1] /\ n + 1 + i - 1 = n + i /\ Len(u) = Len(s) - n
    BY <1>0, <1>2
  <2> QED BY <2>1
<1>4. ASSUME NEW i \in 1..Len(u) PROVE Fol(u[i], IF i = Len(u) THEN e ELSE u[i + 1], D)
  <2>1. n + i \in 1..Len(s) /\ u[i] = s[n + i] /\ Len(u) = Len(s) - n
    BY <1>3
  <2>2. Fol(s[n + i], IF n + i = Len(s) THEN e ELSE s[n + i + 1], D)
    BY <2>1 DEF Along
  <2>3. CASE i = Len(u)
    BY <1>0, <2>1, <2>2, <2>3
  <2>4. CASE i # Len(u)
    <3>0. Len(u) = Len(s) - n /\ Len(s) \in Nat
      BY <1>0, <2>1
    <3>1. i + 1 \in 1..Len(u) /\ n + i # Len(s)
      BY <3>0, <2>4
    <3>2. u[i + 1] = s[n + (i + 1)]
      BY <1>3, <3>1
    <3>3. n + (i + 1) = n + i + 1
      OBVIOUS
    <3> QED BY <2>1, <2>2, <2>4, <3>1, <3>2, <3>3
  <2> QED BY <2>3, <2>4
<1>5. Fresh(s) => Fresh(u)
  BY <1>3 DEF Fresh
<1>6. Len(u) = IF n <= Len(s) THEN Len(s) - n ELSE 0
  BY <1>0, <1>2
<1>7. First(u, e) = IF n < Len(s) THEN s[n + 1] ELSE e
  <2>1. u = <<>> <=> Len(u) = 0
    BY <1>2, EmptySeq
  <2>2. CASE n < Len(s)
    <3>1. 1 \in 1..Len(u)
      BY <1>0, <1>6, <2>2
    <3>2. u[1] = s[n + 1] /\ Len(u) # 0
      BY <1>3, <1>6, <3>1, <2>2
    <3> QED BY <2>1, <2>2, <3>2 DEF First
  <2>3. CASE ~(n < Len(s))
    <3>1. Len(u) = 0
      BY <1>0, <1>6, <2>3
    <3> QED BY <2>1, <2>3, <3>1 DEF First
  <2> QED BY <2>2, <2>3
<1> QED BY <1>2, <1>4, <1>5, <1>6, <1>7 DEF u, Along

LEMMA Begun ==
  ASSUME NEW s \in Seq(Nat), NEW e \in Int, NEW D, NEW n \in Nat \ {0}, n <= Len(s), Along(s, e, D)
  PROVE  /\ SubSeq(s, 1, n) \in Seq(Nat) /\ Len(SubSeq(s, 1, n)) = n
         /\ \A f : f = (IF n < Len(s) THEN s[n + 1] ELSE e) =>
              Along(SubSeq(s, 1, n), f, D) /\ First(SubSeq(s, 1, n), f) = First(s, e)
         /\ Fresh(s) => Fresh(SubSeq(s, 1, n))
<1>0. Len(s) \in Nat /\ \A i \in 1..Len(s) : s[i] \in Nat
  OBVIOUS
<1>1. \A i \in 1..n : s[i] \in Nat /\ i \in 1..Len(s)
  BY <1>0
<1> DEFINE u == SubSeq(s, 1, n)
<1>2. /\ u \in Seq(Nat) /\ Len(u) = (IF 1 <= n THEN n - 1 + 1 ELSE 0)
      /\ \A i \in 1..(n - 1 + 1) : u[i] = s[1 + i - 1]
  <2>1. 1 \in Int /\ n \in Int
    OBVIOUS
  <2> QED BY <1>1, <2>1, SubSeqProperties
<1> HIDE DEF u
<1>3. Len(u) = n
  BY <1>2
<1>4. ASSUME NEW i \in 1..Len(u) PROVE i \in 1..Len(s) /\ u[i] = s[i]
  <2>1. i \in 1..Len(s) /\ u[i] = s[1 + i - 1] /\ 1 + i - 1 = i
    BY <1>1, <1>2, <1>3
  <2> QED BY <2>1
<1>5. ASSUME NEW f, f = (IF n < Len(s) THEN s[n + 1] ELSE e) PROVE Along(u, f, D) /\ First(u, f) = First(s, e)
  <2>1. ASSUME NEW i \in 1..Len(u) PROVE Fol(u[i], IF i = Len(u) THEN f ELSE u[i + 1], D)
    <3>1. i \in 1..Len(s) /\ u[i] = s[i]
      BY <1>4
    <3>2. Fol(s[i], IF i = Len(s) THEN e ELSE s[i + 1], D)
      BY <3>1 DEF Along
    <3>3. CASE i = Len(u)
      BY <1>0, <1>3, <1>5, <3>1, <3>2, <3>3
    <3>4. CASE i # Len(u)
      <4>1. i + 1 \in 1..Len(u) /\ i # Len(s)
        BY <1>0, <1>3, <3>1, <3>4
      <4>2. u[i + 1] = s[i + 1]
        BY <1>4, <4>1
      <4> QED BY <3>1, <3>2, <3>4, <4>1, <4>2
    <3> QED BY <3>3, <3>4
  <2>2. u # <<>> /\ s # <<>> /\ u[1] = s[1]
    <3>1. 1 \in 1..Len(u) /\ Len(u) # 0 /\ Len(s) # 0
      BY <1>0, <1>3
    <3> QED BY <1>2, <1>4, <3>1, EmptySeq
  <2> QED BY <2>1, <2>2 DEF Along, First
<1>6. Fresh(s) => Fresh(u)
  BY <1>4 DEF Fresh
<1> QED BY <1>2, <1>3, <1>5, <1>6 DEF u

LEMMA IsAPiece == ASSUME NEW s \in Seq(Nat), NEW e, NEW D, Along(s, e, D) PROVE EarPiece(s, D)
<1> SUFFICES ASSUME NEW i \in 1..(Len(s) - 1) PROVE Fol(s[i], s[i + 1], D)
  BY DEF EarPiece
<1>1. i \in 1..Len(s) /\ i # Len(s)
  OBVIOUS
<1> QED BY <1>1 DEF Along

(* The queue gives up the samples a sequence led to: it leads beyond them. *)
LEMMA Widened ==
  ASSUME NEW s \in Seq(Nat), NEW e \in Int, NEW f \in Int, NEW D, NEW B, Along(s, e, D),
         e <= f, D \subseteq B, e..(f - 1) \subseteq B
  PROVE  /\ Along(s, f, B)
         /\ First(s, e) \in Int /\ First(s, f) \in Int /\ First(s, e) <= First(s, f)
         /\ First(s, e)..(First(s, f) - 1) \subseteq B
<1>0. Len(s) \in Nat /\ (\A i \in 1..Len(s) : s[i] \in Nat) /\ (s = <<>> <=> Len(s) = 0)
  BY EmptySeq
<1>1. ASSUME NEW i \in 1..Len(s) PROVE Fol(s[i], IF i = Len(s) THEN f ELSE s[i + 1], B)
  <2>1. Fol(s[i], IF i = Len(s) THEN e ELSE s[i + 1], D)
    BY DEF Along
  <2>2. CASE i = Len(s)
    <3>1. s[i] \in Nat /\ s[i] < e /\ (s[i] + 1)..(e - 1) \subseteq D
      BY <1>0, <2>1, <2>2 DEF Fol
    <3>2. \A k \in (s[i] + 1)..(f - 1) : k \in (s[i] + 1)..(e - 1) \/ k \in e..(f - 1)
      BY <3>1
    <3>3. s[i] < f
      BY <3>1
    <3> QED BY <2>2, <3>1, <3>2, <3>3 DEF Fol
  <2>3. CASE i # Len(s)
    BY <2>1, <2>3 DEF Fol
  <2> QED BY <2>2, <2>3
<1>2. CASE s = <<>>
  BY <1>1, <1>2 DEF Along, First
<1>3. CASE s # <<>>
  <2>1. 1 \in 1..Len(s) /\ s[1] \in Nat
    BY <1>0, <1>3
  <2>2. First(s, e) = s[1] /\ First(s, f) = s[1]
    BY <1>3 DEF First
  <2>3. s[1]..(s[1] - 1) \subseteq B
    BY <2>1
  <2> QED BY <1>1, <2>1, <2>2, <2>3 DEF Along
<1> QED BY <1>2, <1>3

(* Whole frames go until the pre-roll is short enough. *)
LEMMA Divides == ASSUME NEW f \in Nat \ {0}, NEW a \in Nat PROVE a \div f \in Nat /\ f * (a \div f) \in Nat /\ f * (a \div f) > a - f
OBVIOUS

LEMMA ChainTail ==
  ASSUME NEW q \in Seq(Seq(Nat)), NEW h \in Nat, q # <<>>, Chained(q, h)
  PROVE  /\ Tail(q) \in Seq(Seq(Nat)) /\ Chained(Tail(q), h) /\ NextOf(Tail(q), h) \in Int
         /\ Head(q) \in Seq(Nat) /\ Head(q) = q[1] /\ Len(Head(q)) >= 1 /\ UpTo(Head(q), NextOf(Tail(q), h))
         /\ NextOf(q, h) = NextOf(Tail(q), h) - Len(Head(q))
         /\ \A i \in 1..Len(Tail(q)) : i + 1 \in 1..Len(q) /\ Tail(q)[i] = q[i + 1]
<1> DEFINE t == Tail(q)
<1>1. /\ t \in Seq(Seq(Nat)) /\ Len(t) = Len(q) - 1 /\ Len(q) \in Nat /\ Len(q) >= 1
      /\ Head(q) = q[1] /\ Head(q) \in Seq(Nat)
      /\ \A i \in 1..Len(t) : i + 1 \in 1..Len(q) /\ t[i] = q[i + 1]
  BY Rest
<1>e. t # <<>> => Len(t) >= 1
  <2> HIDE DEF t
  <2> QED BY <1>1, EmptySeq
<1>f. t = <<>> => Len(t) = 0
  <2> HIDE DEF t
  <2> QED BY Emptied
<1> HIDE DEF t
<1>2. ASSUME NEW i \in 1..Len(t)
      PROVE  Len(t[i]) >= 1 /\ UpTo(t[i], IF i = Len(t) THEN h + 1 ELSE t[i + 1][1])
  <2>1. i + 1 \in 1..Len(q) /\ t[i] = q[i + 1]
    BY <1>1
  <2>2. Len(q[i + 1]) >= 1 /\ UpTo(q[i + 1], IF i + 1 = Len(q) THEN h + 1 ELSE q[i + 1 + 1][1])
    BY <2>1 DEF Chained
  <2>3. CASE i = Len(t)
    BY <1>1, <2>1, <2>2, <2>3
  <2>4. CASE i # Len(t)
    <3>1. i + 1 # Len(q) /\ i + 1 \in 1..Len(t)
      BY <1>1, <2>4
    <3>2. t[i + 1] = q[i + 1 + 1]
      BY <1>1, <3>1
    <3> QED BY <2>1, <2>2, <2>4, <3>1, <3>2
  <2> QED BY <2>3, <2>4
<1>3. Chained(t, h)
  BY <1>2 DEF Chained
<1>4. q[1] \in Seq(Nat) /\ Len(q[1]) >= 1 /\ Len(q[1]) \in Nat /\ UpTo(q[1], IF 1 = Len(q) THEN h + 1 ELSE q[1 + 1][1])
  <2>1. 1 \in 1..Len(q) /\ q[1] \in Seq(Nat)
    BY <1>1
  <2>2. Len(q[1]) \in Nat
    BY <2>1
  <2> QED BY <2>1, <2>2 DEF Chained
<1>5. NextOf(t, h) = IF 1 = Len(q) THEN h + 1 ELSE q[1 + 1][1]
  <2>1. CASE Len(q) = 1
    <3>1. Len(t) = 0
      BY <1>1, <2>1
    <3>2. t = <<>>
      BY <1>1, <3>1, EmptySeq
    <3> QED BY <2>1, <3>2 DEF NextOf
  <2>2. CASE Len(q) # 1
    <3>1. Len(t) = Len(q) - 1 /\ Len(q) \in Nat /\ Len(q) >= 1
      BY <1>1
    <3>2. Len(t) >= 1 /\ Len(t) \in Nat
      BY <2>2, <3>1
    <3>3. 1 \in 1..Len(t)
      BY <3>2
    <3>4. t[1] = q[1 + 1]
      BY <1>1, <3>3
    <3>5. t # <<>>
      BY <1>f, <3>2
    <3> QED BY <2>2, <3>4, <3>5 DEF NextOf
  <2> QED BY <2>1, <2>2
<1>6. NextOf(t, h) \in Int
  <2>1. CASE t = <<>>
    BY <2>1 DEF NextOf
  <2>2. CASE t # <<>>
    <3>1. 1 \in 1..Len(t) /\ t[1] \in Seq(Nat)
      BY <1>1, <1>e, <2>2
    <3>2. Len(t[1]) >= 1
      BY <1>2, <3>1
    <3>3. 1 \in 1..Len(t[1]) /\ t[1][1] \in Nat
      BY <3>1, <3>2
    <3> QED BY <2>2, <3>3 DEF NextOf
  <2> QED BY <2>1, <2>2
<1>7. UpTo(q[1], NextOf(t, h))
  BY <1>4, <1>5
<1>8. NextOf(q, h) = NextOf(t, h) - Len(q[1])
  <2>1. q[1][1] = NextOf(t, h) - Len(q[1]) + 1 - 1
    <3>1. 1 \in 1..Len(q[1])
      BY <1>4
    <3> QED BY <1>7, <3>1 DEF UpTo
  <2> QED BY <1>4, <1>6, <2>1 DEF NextOf
<1> QED BY <1>1, <1>3, <1>4, <1>6, <1>7, <1>8 DEF t

LEMMA ChainAppend ==
  ASSUME NEW q \in Seq(Seq(Nat)), NEW h \in Nat, NEW n \in Nat \ {0}, Chained(q, h),
         NEW c, c = [i \in 1..n |-> h + i]
  PROVE  /\ Append(q, c) \in Seq(Seq(Nat)) /\ Chained(Append(q, c), h + n)
         /\ NextOf(Append(q, c), h + n) = NextOf(q, h)
         /\ Len(q) \in Nat /\ Len(Append(q, c)) = Len(q) + 1
         /\ \A i \in 1..Len(q) : Append(q, c)[i] = q[i]
         /\ Append(q, c)[Len(q) + 1] = c /\ Len(c) = n /\ \A i \in 1..n : c[i] = h + i
<1>1. c \in Seq(Nat) /\ Len(c) = n /\ \A i \in 1..n : c[i] = h + i
  OBVIOUS
<1> DEFINE t == Append(q, c)
<1>2. /\ t \in Seq(Seq(Nat)) /\ Len(t) = Len(q) + 1 /\ Len(q) \in Nat
      /\ t[Len(q) + 1] = c /\ \A i \in 1..Len(q) : t[i] = q[i]
      /\ \A i \in 1..Len(t) : i \in 1..Len(q) \/ i = Len(q) + 1
  BY <1>1, Appended
<1>e. q # <<>> => Len(q) >= 1
  BY EmptySeq
<1>f. q = <<>> => Len(q) = 0
  BY Emptied
<1>g. t # <<>>
  <2> HIDE DEF t
  <2> QED BY <1>2, Emptied
<1> HIDE DEF t
<1>3. UpTo(c, h + n + 1)
  BY <1>1 DEF UpTo
<1>4. c[1] = h + 1
  BY <1>1
<1>5. ASSUME NEW i \in 1..Len(t)
      PROVE  Len(t[i]) >= 1 /\ UpTo(t[i], IF i = Len(t) THEN (h + n) + 1 ELSE t[i + 1][1])
  <2>1. CASE i = Len(q) + 1
    BY <1>1, <1>2, <1>3, <2>1
  <2>2. CASE i \in 1..Len(q)
    <3>1. t[i] = q[i] /\ Len(q[i]) >= 1 /\ UpTo(q[i], IF i = Len(q) THEN h + 1 ELSE q[i + 1][1])
      BY <1>2, <2>2 DEF Chained
    <3>2. i # Len(t)
      BY <1>2, <2>2
    <3>3. t[i + 1][1] = IF i = Len(q) THEN h + 1 ELSE q[i + 1][1]
      <4>1. CASE i = Len(q)
        BY <1>2, <1>4, <4>1
      <4>2. CASE i # Len(q)
        <5>1. i + 1 \in 1..Len(q)
          BY <2>2, <1>2, <4>2
        <5> QED BY <1>2, <4>2, <5>1
      <4> QED BY <4>1, <4>2
    <3> QED BY <3>1, <3>2, <3>3
  <2> QED BY <1>2, <2>1, <2>2
<1>6. Chained(t, h + n)
  BY <1>5 DEF Chained
<1>7. NextOf(t, h + n) = NextOf(q, h)
  <2>1. NextOf(t, h + n) = t[1][1]
    BY <1>g DEF NextOf
  <2>2. CASE q = <<>>
    BY <1>2, <1>4, <1>f, <2>1, <2>2 DEF NextOf
  <2>3. CASE q # <<>>
    <3>1. 1 \in 1..Len(q)
      BY <1>2, <1>e, <2>3
    <3> QED BY <1>2, <2>1, <2>3, <3>1 DEF NextOf
  <2> QED BY <2>2, <2>3
<1> QED BY <1>1, <1>2, <1>6, <1>7 DEF t

LEMMA NextIsNat ==
  ASSUME NEW q \in Seq(Seq(Nat)), NEW h \in Nat, Chained(q, h) PROVE NextOf(q, h) \in Int
<1>1. CASE q = <<>>
  BY <1>1 DEF NextOf
<1>2. CASE q # <<>>
  <2>1. 1 \in 1..Len(q) /\ q[1] \in Seq(Nat)
    BY <1>2, EmptySeq
  <2>2. Len(q[1]) >= 1 /\ Len(q[1]) \in Nat
    BY <2>1 DEF Chained
  <2>3. 1 \in 1..Len(q[1])
    BY <2>2
  <2>4. q[1][1] \in Nat
    BY <2>1, <2>3
  <2> QED BY <1>2, <2>4 DEF NextOf
<1> QED BY <1>1, <1>2

LEMMA EarStart == Ear!Init => EarInv
<1> SUFFICES ASSUME Ear!Init PROVE EarInv
  OBVIOUS
<1> USE EarNames
<1>0. /\ heard = 0 /\ answered = 0 /\ loop = "listening" /\ speaking = FALSE /\ silence = 0
      /\ queue = <<>> /\ carry = <<>> /\ preRoll = <<>> /\ speech = <<>> /\ utterance = <<>>
  BY DEF Ear!Init
<1>1. /\ Len(queue) = 0 /\ Len(carry) = 0 /\ Len(preRoll) = 0 /\ Len(speech) = 0 /\ Len(utterance) = 0
      /\ carry \in Seq(Nat) /\ preRoll \in Seq(Nat) /\ speech \in Seq(Nat) /\ utterance \in Seq(Nat)
  BY <1>0, Emptied
<1>2. queue \in Seq(Seq(Nat))
  BY <1>0, EmptySeq
<1>3. speaking \in BOOLEAN
  BY <1>0
<1>4. heard \in Nat /\ answered \in Nat /\ answered <= heard /\ silence \in Nat
  <2>1. heard = 0 /\ answered = 0 /\ silence = 0
    BY <1>0
  <2> QED BY <2>1
<1>t. EarTypes
  BY <1>0, <1>1, <1>2, <1>3, <1>4 DEF EarTypes
<1>5. EarQueue /\ EarFits /\ EarHanded /\ EarLive
  BY <1>0, <1>1 DEF EarQueue, Chained, EarFits, Along, EarHanded, EarLive, Fresh
<1> QED BY <1>t, <1>5 DEF EarInv

(* The microphone. *)
LEMMA EarCaptures == ASSUME EarInv, Ear!Captured PROVE EarInv'
<1> USE EarNames
<1>0. EarTypes /\ EarQueue /\ EarFits /\ EarHanded /\ EarLive
  BY DEF EarInv
<1>1. PICK n \in Chunk :
        /\ heard' = heard + n
        /\ queue' = Append(IF Len(queue) = EarRoom THEN Tail(queue) ELSE queue, [i \in 1..n |-> heard + i])
        /\ dropped' = IF Len(queue) = EarRoom THEN dropped \cup {Head(queue)[i] : i \in DOMAIN Head(queue)} ELSE dropped
  BY DEF Ear!Captured
<1>2. UNCHANGED <<loop, carry, preRoll, speech, speaking, silence, utterance, answered>>
  BY DEF Ear!Captured, Ear!segmenter
<1>3. PICK c : c = [i \in 1..n |-> heard + i]
  OBVIOUS
<1>4. PICK q : q = IF Len(queue) = EarRoom THEN Tail(queue) ELSE queue
  OBVIOUS
<1>5. n \in Nat \ {0} /\ heard \in Nat /\ queue \in Seq(Seq(Nat)) /\ Chained(queue, heard)
  BY <1>0 DEF EarTypes, EarQueue
<1>6. /\ q \in Seq(Seq(Nat)) /\ Chained(q, heard) /\ NextOf(q, heard) \in Int /\ EarNext \in Int
      /\ \A i \in 1..Len(q) : \E j \in 1..Len(queue) : q[i] = queue[j]
      /\ EarNext <= NextOf(q, heard) /\ dropped \subseteq dropped'
      /\ EarNext..(NextOf(q, heard) - 1) \subseteq dropped'
  <2>1. CASE Len(queue) = EarRoom
    <3>1. queue # <<>>
      BY <2>1, Emptied
    <3>2. /\ q = Tail(queue) /\ Tail(queue) \in Seq(Seq(Nat)) /\ Chained(Tail(queue), heard) /\ NextOf(Tail(queue), heard) \in Int
          /\ Head(queue) \in Seq(Nat) /\ UpTo(Head(queue), NextOf(Tail(queue), heard))
          /\ NextOf(queue, heard) = NextOf(Tail(queue), heard) - Len(Head(queue))
          /\ \A i \in 1..Len(Tail(queue)) : i + 1 \in 1..Len(queue) /\ Tail(queue)[i] = queue[i + 1]
      BY <1>4, <1>5, <2>1, <3>1, ChainTail
    <3>3. PICK c0 : c0 = Head(queue)
      OBVIOUS
    <3>4. c0 \in Seq(Nat) /\ Len(c0) \in Nat /\ DOMAIN c0 = 1..Len(c0)
      BY <3>2, <3>3
    <3>5. \A i \in 1..Len(c0) : c0[i] = NextOf(q, heard) - Len(c0) + i - 1
      BY <3>2, <3>3 DEF UpTo
    <3>6. EarNext = NextOf(q, heard) - Len(c0)
      BY <3>2, <3>3 DEF EarNext
    <3>7. dropped' = dropped \cup {c0[i] : i \in DOMAIN c0}
      BY <1>1, <2>1, <3>3
    <3>8. NextOf(q, heard) \in Int
      BY <3>2
    <3>9. ASSUME NEW k \in EarNext..(NextOf(q, heard) - 1) PROVE k \in {c0[i] : i \in DOMAIN c0}
      <4>1. k - EarNext + 1 \in 1..Len(c0) /\ k \in Int
        BY <3>4, <3>6, <3>8
      <4>2. c0[k - EarNext + 1] = NextOf(q, heard) - Len(c0) + (k - EarNext + 1) - 1
        BY <3>5, <4>1
      <4>3. c0[k - EarNext + 1] = k
        BY <3>4, <3>6, <3>8, <4>1, <4>2
      <4>4. \E i \in DOMAIN c0 : k = c0[i]
        BY <3>4, <4>1, <4>3
      <4> QED BY <4>4
    <3>10. EarNext..(NextOf(q, heard) - 1) \subseteq dropped' /\ dropped \subseteq dropped'
      BY <3>7, <3>9
    <3>11. EarNext \in Int /\ EarNext <= NextOf(q, heard)
      BY <3>4, <3>6, <3>8
    <3> QED BY <3>2, <3>8, <3>10, <3>11
  <2>2. CASE Len(queue) # EarRoom
    <3>1. q = queue /\ dropped' = dropped
      BY <1>1, <1>4, <2>2
    <3>2. EarNext = NextOf(q, heard) /\ EarNext \in Int
      BY <1>5, <3>1, NextIsNat DEF EarNext
    <3>3. EarNext..(EarNext - 1) = {}
      BY <3>2
    <3> QED BY <1>5, <3>1, <3>2, <3>3
  <2> QED BY <2>1, <2>2
<1>7. queue' = Append(q, c)
  BY <1>1, <1>3, <1>4
<1>8. /\ queue' \in Seq(Seq(Nat)) /\ Chained(queue', heard + n)
      /\ NextOf(queue', heard + n) = NextOf(q, heard)
      /\ Len(q) \in Nat /\ Len(queue') = Len(q) + 1
      /\ \A i \in 1..Len(q) : queue'[i] = q[i]
      /\ queue'[Len(q) + 1] = c /\ Len(c) = n /\ \A i \in 1..n : c[i] = heard + i
  BY <1>3, <1>5, <1>6, <1>7, ChainAppend
<1>9. EarTypes'
  BY <1>0, <1>1, <1>2, <1>5, <1>8 DEF EarTypes
<1>10. EarQueue'
  BY <1>1, <1>8 DEF EarQueue, Chained, UpTo
<1>11. EarFits'
  <2> SUFFICES ASSUME loop' \in {"listening", "scoring"}
               PROVE  /\ Along(carry', EarNext', dropped')
                      /\ Along(preRoll', First(carry', EarNext'), dropped') /\ Along(speech', First(carry', EarNext'), dropped')
                      /\ IF speaking' THEN preRoll' = <<>> /\ Len(speech') < MaxSpeech ELSE speech' = <<>>
    BY DEF EarFits, Along, First, Fol
  <2>1. PICK e, f, B : e = EarNext /\ f = EarNext' /\ B = dropped' /\ e \in Int /\ f \in Int
    <3>1. EarNext' = NextOf(q, heard)
      BY <1>1, <1>8 DEF EarNext, NextOf
    <3> QED BY <1>6, <3>1
  <2>2. e <= f /\ dropped \subseteq B /\ e..(f - 1) \subseteq B
    <3>1. EarNext' = NextOf(q, heard)
      BY <1>1, <1>8 DEF EarNext, NextOf
    <3> QED BY <1>6, <2>1, <3>1
  <2>3. /\ Along(carry, e, dropped) /\ Along(preRoll, First(carry, e), dropped) /\ Along(speech, First(carry, e), dropped)
        /\ IF speaking THEN preRoll = <<>> /\ Len(speech) < MaxSpeech ELSE speech = <<>>
        /\ carry \in Seq(Nat) /\ preRoll \in Seq(Nat) /\ speech \in Seq(Nat)
    BY <1>0, <1>2, <2>1 DEF EarFits, EarTypes
  <2>4. /\ Along(carry, f, B) /\ First(carry, e) \in Int /\ First(carry, f) \in Int /\ First(carry, e) <= First(carry, f)
        /\ First(carry, e)..(First(carry, f) - 1) \subseteq B
    BY <2>1, <2>2, <2>3, Widened
  <2>5. Along(preRoll, First(carry, f), B) /\ Along(speech, First(carry, f), B)
    BY <2>1, <2>2, <2>3, <2>4, Widened
  <2> QED BY <1>2, <2>1, <2>3, <2>4, <2>5
<1>12. EarHanded'
  BY <1>0, <1>2, <1>6 DEF EarHanded, EarPiece, Longest, Fol
<1>13. EarLive'
  <2>1. ASSUME loop # "draining", NEW i \in 1..Len(queue') PROVE Fresh(queue'[i])
    <3>1. CASE i \in 1..Len(q)
      BY <1>0, <1>6, <1>8, <2>1, <3>1 DEF EarLive
    <3>2. CASE i = Len(q) + 1
      <4>1. answered <= heard /\ answered \in Nat
        BY <1>0 DEF EarTypes
      <4> QED BY <1>5, <1>8, <3>2, <4>1 DEF Fresh
    <3> QED BY <1>8, <3>1, <3>2
  <2> QED BY <1>0, <1>2, <2>1 DEF EarLive, Fresh
<1> QED BY <1>9, <1>10, <1>11, <1>12, <1>13 DEF EarInv

(* listen_loop takes a chunk. *)
LEMMA EarTakes == ASSUME EarInv, Ear!Take PROVE EarInv'
<1> USE EarNames
<1>0. EarTypes /\ EarQueue /\ EarFits /\ EarHanded /\ EarLive
  BY DEF EarInv
<1>1. loop = "listening" /\ queue # <<>> /\ queue' = Tail(queue) /\ UNCHANGED <<heard, dropped, utterance, answered>>
  BY DEF Ear!Take
<1>2. heard \in Nat /\ queue \in Seq(Seq(Nat)) /\ Chained(queue, heard) /\ carry \in Seq(Nat)
  BY <1>0 DEF EarTypes, EarQueue
<1>3. /\ queue' \in Seq(Seq(Nat)) /\ Chained(queue', heard) /\ NextOf(queue', heard) \in Int
      /\ Head(queue) \in Seq(Nat) /\ Head(queue) = queue[1] /\ Len(Head(queue)) >= 1
      /\ UpTo(Head(queue), NextOf(queue', heard))
      /\ NextOf(queue, heard) = NextOf(queue', heard) - Len(Head(queue))
      /\ \A i \in 1..Len(queue') : i + 1 \in 1..Len(queue) /\ queue'[i] = queue[i + 1]
  BY <1>1, <1>2, ChainTail
<1>4. EarQueue'
  BY <1>1, <1>3 DEF EarQueue, Chained, UpTo
<1>5. EarNext' = NextOf(queue', heard) /\ EarNext' \in Int
  BY <1>1, <1>3 DEF EarNext, NextOf
<1>a. /\ Along(Head(queue), EarNext', dropped) /\ First(Head(queue), EarNext') = EarNext
      /\ Along(carry, EarNext, dropped)
      /\ Along(preRoll, First(carry, EarNext), dropped) /\ Along(speech, First(carry, EarNext), dropped)
      /\ IF speaking THEN preRoll = <<>> /\ Len(speech) < MaxSpeech ELSE speech = <<>>
  <2>1. EarNext = EarNext' - Len(Head(queue))
    BY <1>3, <1>5 DEF EarNext
  <2>2. Along(Head(queue), EarNext', dropped) /\ First(Head(queue), EarNext') = EarNext' - Len(Head(queue))
    BY <1>3, <1>5, Unbroken
  <2> QED BY <1>0, <1>1, <2>1, <2>2 DEF EarFits
<1>6. \A i \in 1..Len(queue') : Fresh(queue'[i])
  BY <1>0, <1>1, <1>3 DEF EarLive
<1>7. CASE Ear!IsSpeaking
  <2>1. carry' = <<>> /\ preRoll' = <<>> /\ speech' = <<>> /\ speaking' = FALSE /\ silence' = 0 /\ loop' = loop
    BY <1>7 DEF Ear!Take, Ear!Reset
  <2>2. Len(carry') = 0 /\ carry' \in Seq(Nat) /\ Len(preRoll') = 0 /\ preRoll' \in Seq(Nat) /\ Len(speech') = 0 /\ speech' \in Seq(Nat)
    BY <2>1, Emptied
  <2>3. EarTypes'
    BY <1>0, <1>1, <1>3, <2>1, <2>2 DEF EarTypes
  <2>4. EarFits' /\ EarHanded'
    BY <1>1, <2>1, <2>2 DEF EarFits, Along, EarHanded
  <2>5. EarLive'
    BY <1>0, <1>1, <1>6, <2>2 DEF EarLive, Fresh
  <2> QED BY <1>4, <2>3, <2>4, <2>5 DEF EarInv
<1>8. CASE ~Ear!IsSpeaking
  <2>1. loop' = "scoring" /\ carry' = carry \o Head(queue) /\ UNCHANGED <<preRoll, speech, speaking, silence>>
    BY <1>8 DEF Ear!Take
  <2>3. /\ carry' \in Seq(Nat) /\ Len(carry') = Len(carry) + Len(Head(queue)) /\ Along(carry', EarNext', dropped)
        /\ First(carry', EarNext') = First(carry, EarNext)
    BY <1>2, <1>3, <1>5, <1>a, <2>1, Joined
  <2>5. Fresh(carry')
    <3>1. Fresh(carry) /\ Fresh(Head(queue))
      <4>1. 1 \in 1..Len(queue)
        BY <1>1, <1>2, EmptySeq
      <4> QED BY <1>0, <1>1, <1>3, <4>1 DEF EarLive
    <3> QED BY <1>2, <1>3, <2>1, <3>1, JoinedFresh
  <2>6. EarTypes'
    BY <1>0, <1>1, <1>3, <2>1, <2>3 DEF EarTypes
  <2>7. Along(preRoll, First(carry', EarNext'), dropped) /\ Along(speech, First(carry', EarNext'), dropped)
    BY <1>a, <2>3
  <2>8. EarFits'
    BY <1>1, <1>a, <2>1, <2>3, <2>7 DEF EarFits, Along, First, Fol
  <2>9. EarHanded'
    BY <1>0, <2>1 DEF EarHanded
  <2>10. EarLive'
    BY <1>0, <1>1, <1>6, <2>1, <2>5 DEF EarLive, Fresh
  <2> QED BY <1>4, <2>6, <2>8, <2>9, <2>10 DEF EarInv
<1> QED BY <1>7, <1>8

(* A frame is scored: what the segmenter holds still ends where the queue  *)
(* begins.                                                                 *)
LEMMA EarScores == ASSUME EarInv, Ear!Score PROVE EarInv'
<1> USE EarNames
<1>0. EarTypes /\ EarQueue /\ EarFits /\ EarHanded /\ EarLive
  BY DEF EarInv
<1>1. loop = "scoring" /\ UNCHANGED <<heard, queue, dropped, answered, utterance>>
  BY DEF Ear!Score, Ear!segmenter
<1>2. EarQueue' /\ EarNext' = EarNext
  BY <1>0, <1>1 DEF EarQueue, Chained, UpTo, EarNext, NextOf
<1>3. CASE Len(carry) < Frame
  <2>1. loop' = "listening" /\ UNCHANGED <<carry, preRoll, speech, speaking, silence>>
    BY <1>3 DEF Ear!Score, Ear!segmenter
  <2>2. EarTypes' /\ EarFits' /\ EarHanded' /\ EarLive'
    BY <1>0, <1>1, <1>2, <2>1 DEF EarTypes, EarFits, Along, First, Fol, EarHanded, EarLive, Fresh
  <2> QED BY <1>2, <2>2 DEF EarInv
<1>4. CASE ~(Len(carry) < Frame)
  <2>0. PICK frame, e : frame = SubSeq(carry, 1, Frame) /\ e = EarNext
    OBVIOUS
  <2>1. /\ carry' = SubSeq(carry, Frame + 1, Len(carry))
        /\ \E level \in {"quiet", "between", "loud"} :
             IF speaking THEN Ear!Speaking(frame, level) ELSE Ear!Idle(frame, level)
        /\ loop' = IF speaking' /\ Ear!Complete THEN "completed" ELSE "scoring"
    BY <1>4, <2>0 DEF Ear!Score
  <2>2. PICK level \in {"quiet", "between", "loud"} :
             IF speaking THEN Ear!Speaking(frame, level) ELSE Ear!Idle(frame, level)
    BY <2>1
  <2>3. /\ carry \in Seq(Nat) /\ preRoll \in Seq(Nat) /\ speech \in Seq(Nat) /\ speaking \in BOOLEAN
        /\ Len(carry) \in Nat /\ Len(preRoll) \in Nat /\ Len(speech) \in Nat /\ silence \in Nat
        /\ Along(carry, e, dropped) /\ Along(preRoll, First(carry, e), dropped) /\ Along(speech, First(carry, e), dropped)
        /\ Fresh(carry) /\ Fresh(preRoll) /\ Fresh(speech) /\ Len(preRoll) <= PreRoll
        /\ IF speaking THEN preRoll = <<>> /\ Len(speech) < MaxSpeech ELSE speech = <<>>
    <3>1. carry \in Seq(Nat) /\ preRoll \in Seq(Nat) /\ speech \in Seq(Nat) /\ speaking \in BOOLEAN /\ silence \in Nat
      BY <1>0 DEF EarTypes
    <3>2. /\ Along(carry, e, dropped) /\ Along(preRoll, First(carry, e), dropped) /\ Along(speech, First(carry, e), dropped)
          /\ IF speaking THEN preRoll = <<>> /\ Len(speech) < MaxSpeech ELSE speech = <<>>
      BY <1>0, <1>1, <2>0 DEF EarFits
    <3>3. Fresh(carry) /\ Fresh(preRoll) /\ Fresh(speech) /\ Len(preRoll) <= PreRoll
      BY <1>0, <1>1 DEF EarLive, EarHanded
    <3> QED BY <3>1, <3>2, <3>3
  <2>4. e \in Int
    <3>1. heard \in Nat /\ queue \in Seq(Seq(Nat)) /\ Chained(queue, heard)
      BY <1>0 DEF EarTypes, EarQueue
    <3> QED BY <2>0, <3>1, NextIsNat DEF EarNext
  <2>f. Frame \in Nat \ {0} /\ Frame \in Nat /\ Frame <= Len(carry)
    BY <1>4, <2>3
  <2>7. PICK d : d = First(carry', e)
    OBVIOUS
  <2>6. /\ carry' \in Seq(Nat) /\ Len(carry') = Len(carry) - Frame /\ Along(carry', e, dropped) /\ Fresh(carry')
        /\ d = (IF Frame < Len(carry) THEN carry[Frame + 1] ELSE e)
    <3>1. /\ SubSeq(carry, Frame + 1, Len(carry)) \in Seq(Nat)
          /\ Len(SubSeq(carry, Frame + 1, Len(carry))) = (IF Frame <= Len(carry) THEN Len(carry) - Frame ELSE 0)
          /\ Along(SubSeq(carry, Frame + 1, Len(carry)), e, dropped)
          /\ First(SubSeq(carry, Frame + 1, Len(carry)), e) = IF Frame < Len(carry) THEN carry[Frame + 1] ELSE e
          /\ Fresh(carry) => Fresh(SubSeq(carry, Frame + 1, Len(carry)))
      BY <2>3, <2>4, <2>f, Parted
    <3> QED BY <2>1, <2>3, <2>7, <2>f, <3>1
  <2>5. /\ frame \in Seq(Nat) /\ Len(frame) = Frame /\ Along(frame, d, dropped) /\ First(frame, d) = First(carry, e) /\ Fresh(frame)
    <3>1. /\ SubSeq(carry, 1, Frame) \in Seq(Nat) /\ Len(SubSeq(carry, 1, Frame)) = Frame
          /\ Along(SubSeq(carry, 1, Frame), d, dropped) /\ First(SubSeq(carry, 1, Frame), d) = First(carry, e)
          /\ Fresh(carry) => Fresh(SubSeq(carry, 1, Frame))
      <4>1. d = (IF Frame < Len(carry) THEN carry[Frame + 1] ELSE e)
        BY <2>6
      <4>2. Frame \in Nat \ {0} /\ Frame <= Len(carry) /\ carry \in Seq(Nat) /\ e \in Int /\ Along(carry, e, dropped)
        BY <2>3, <2>4, <2>f
      <4> QED BY <4>1, <4>2, Begun
    <3> QED BY <2>0, <2>3, <3>1
  <2>a. d \in Int
    BY <2>3, <2>4, <2>6, <2>f
  <2>8. Along(preRoll, First(frame, d), dropped) /\ Along(speech, First(frame, d), dropped)
    BY <2>3, <2>5
  <2>9. Fresh(utterance)
    BY <1>0, <1>1 DEF EarLive
  <2>10. CASE speaking
    <3>1. /\ speech' = speech \o frame /\ UNCHANGED <<preRoll, speaking>>
          /\ silence' = IF level = "quiet" THEN silence + Len(frame) ELSE 0
      BY <2>2, <2>10 DEF Ear!Speaking
    <3>2. speech' \in Seq(Nat) /\ Len(speech') = Len(speech) + Frame /\ Along(speech', d, dropped)
      BY <2>3, <2>5, <2>8, <2>a, <3>1, Joined
    <3>3. Fresh(speech')
      BY <2>3, <2>5, <3>1, JoinedFresh
    <3>4. silence' \in Nat
      BY <2>3, <2>5, <3>1
    <3>5. loop' = "completed" \/ (loop' = "scoring" /\ Len(speech') < MaxSpeech)
      BY <2>1, <2>3, <2>10, <3>1, <3>2 DEF Ear!Complete
    <3>6. EarTypes'
      BY <1>0, <1>1, <2>3, <2>6, <3>1, <3>2, <3>4, <3>5 DEF EarTypes
    <3>7. EarFits'
      <4>1. preRoll' = <<>> /\ Along(preRoll', d, dropped)
        BY <2>3, <2>10, <3>1, Emptied
      <4>2. EarNext' = e /\ First(carry', EarNext') = d
        BY <1>2, <2>0, <2>7
      <4>3. /\ Along(carry', EarNext', dropped) /\ Along(preRoll', First(carry', EarNext'), dropped)
            /\ Along(speech', First(carry', EarNext'), dropped)
        BY <2>6, <3>2, <4>1, <4>2
      <4> QED BY <1>1, <2>10, <3>1, <3>5, <4>1, <4>3 DEF EarFits, Along, First, Fol
    <3>8. EarHanded'
      <4>1. EarPiece(speech', dropped)
        BY <3>2, IsAPiece
      <4>2. Len(speech) \in Nat /\ Len(speech) < MaxSpeech
        BY <2>3, <2>10
      <4>3. Len(speech') < Longest
        BY <3>2, <4>2, OneMoreFrame
      <4> QED BY <1>1, <2>3, <3>1, <3>5, <4>1, <4>3 DEF EarHanded, EarPiece, Fol, Longest
    <3>9. EarLive'
      BY <1>0, <1>1, <2>3, <2>6, <2>9, <3>1, <3>3 DEF EarLive, Fresh
    <3> QED BY <1>2, <3>6, <3>7, <3>8, <3>9 DEF EarInv
  <2>11. CASE ~speaking /\ level = "loud"
    <3>1. preRoll' = <<>> /\ speech' = preRoll \o frame /\ speaking' = TRUE /\ silence' = 0
      BY <2>2, <2>11 DEF Ear!Idle, Ear!Opened
    <3>2. speech' \in Seq(Nat) /\ Len(speech') = Len(preRoll) + Frame /\ Along(speech', d, dropped)
      BY <2>3, <2>5, <2>8, <2>a, <3>1, Joined
    <3>3. Fresh(speech')
      BY <2>3, <2>5, <3>1, JoinedFresh
    <3>4. preRoll' \in Seq(Nat) /\ Len(preRoll') = 0 /\ Along(preRoll', d, dropped)
      BY <3>1, Emptied
    <3>5. loop' = "completed" \/ (loop' = "scoring" /\ Len(speech') < MaxSpeech)
      BY <2>1, <2>3, <3>1, <3>2 DEF Ear!Complete
    <3>6. EarTypes'
      <4>1. silence' \in Nat /\ speaking' \in BOOLEAN
        BY <3>1
      <4> QED BY <1>0, <1>1, <2>6, <3>2, <3>4, <3>5, <4>1 DEF EarTypes
    <3>7. EarFits'
      <4>2. EarNext' = e /\ First(carry', EarNext') = d
        BY <1>2, <2>0, <2>7
      <4>3. /\ Along(carry', EarNext', dropped) /\ Along(preRoll', First(carry', EarNext'), dropped)
            /\ Along(speech', First(carry', EarNext'), dropped)
        BY <2>6, <3>2, <3>4, <4>2
      <4> QED BY <1>1, <3>1, <3>5, <4>3 DEF EarFits, Along, First, Fol
    <3>8. EarHanded'
      <4>1. EarPiece(speech', dropped)
        BY <3>2, IsAPiece
      <4>2. Len(preRoll) \in Nat /\ Len(preRoll) <= PreRoll
        BY <2>3
      <4>3. Len(speech') < Longest
        BY <3>2, <4>2, OneMoreFrame
      <4> QED BY <1>1, <3>4, <3>5, <4>1, <4>3 DEF EarHanded, EarPiece, Fol, Longest
    <3>9. EarLive'
      BY <1>0, <1>1, <2>6, <2>9, <3>3, <3>4 DEF EarLive, Fresh
    <3> QED BY <1>2, <3>6, <3>7, <3>8, <3>9 DEF EarInv
  <2>12. CASE ~speaking /\ level # "loud"
    <3>1. preRoll' = Ear!Trimmed(preRoll \o frame) /\ UNCHANGED <<speech, speaking, silence>>
      BY <2>2, <2>12 DEF Ear!Idle
    <3>2. PICK s : s = preRoll \o frame
      OBVIOUS
    <3>a. preRoll \o frame \in Seq(Nat) /\ Along(preRoll \o frame, d, dropped)
      BY <2>3, <2>5, <2>8, <2>a, Joined
    <3>b. Fresh(preRoll \o frame)
      BY <2>3, <2>5, JoinedFresh
    <3>3. s \in Seq(Nat) /\ Len(s) \in Nat /\ Along(s, d, dropped) /\ Fresh(s)
      BY <3>2, <3>a, <3>b
    <3>4. preRoll' \in Seq(Nat) /\ Len(preRoll') <= PreRoll /\ Along(preRoll', d, dropped) /\ Fresh(preRoll')
      <4>1. CASE ~(Len(s) > PreRoll)
        BY <3>1, <3>2, <3>3, <4>1 DEF Ear!Trimmed
      <4>2. CASE Len(s) > PreRoll
        <5>0. Len(s) - PreRoll + Frame - 1 \in Nat
          BY <3>3, <4>2
        <5>1. PICK a \in Nat : a = Len(s) - PreRoll + Frame - 1
          BY <5>0
        <5>2. PICK n : n = Frame * (a \div Frame)
          OBVIOUS
        <5>3. n \in Nat /\ n > a - Frame
          BY <5>1, <5>2, Divides
        <5>4. preRoll' = SubSeq(s, n + 1, Len(s))
          BY <3>1, <3>2, <4>2, <5>1, <5>2 DEF Ear!Trimmed
        <5>5. /\ SubSeq(s, n + 1, Len(s)) \in Seq(Nat)
              /\ Len(SubSeq(s, n + 1, Len(s))) = IF n <= Len(s) THEN Len(s) - n ELSE 0
              /\ Along(SubSeq(s, n + 1, Len(s)), d, dropped) /\ Fresh(SubSeq(s, n + 1, Len(s)))
          BY <2>a, <3>3, <5>3, Parted
        <5>6. Len(preRoll') = IF n <= Len(s) THEN Len(s) - n ELSE 0
          BY <5>4, <5>5
        <5>7. Len(preRoll') <= PreRoll
          BY <3>3, <5>1, <5>3, <5>6
        <5> QED BY <5>4, <5>5, <5>7
      <4> QED BY <4>1, <4>2
    <3>5. loop' = "scoring"
      BY <2>1, <2>12, <3>1
    <3>6. speech' = <<>> /\ Along(speech', d, dropped)
      BY <2>3, <2>12, <3>1, Emptied
    <3>7. EarTypes'
      BY <1>0, <1>1, <2>3, <2>6, <3>1, <3>4, <3>5 DEF EarTypes
    <3>8. EarFits'
      <4>2. EarNext' = e /\ First(carry', EarNext') = d
        BY <1>2, <2>0, <2>7
      <4>3. /\ Along(carry', EarNext', dropped) /\ Along(preRoll', First(carry', EarNext'), dropped)
            /\ Along(speech', First(carry', EarNext'), dropped)
        BY <2>6, <3>4, <3>6, <4>2
      <4> QED BY <1>1, <2>12, <3>1, <3>6, <4>3 DEF EarFits, Along, First, Fol
    <3>9. EarHanded'
      BY <3>4, <3>5 DEF EarHanded
    <3>10. EarLive'
      BY <1>0, <1>1, <2>3, <2>6, <2>9, <3>1, <3>4 DEF EarLive, Fresh
    <3> QED BY <1>2, <3>7, <3>8, <3>9, <3>10 DEF EarInv
  <2> QED BY <2>10, <2>11, <2>12
<1> QED BY <1>3, <1>4

(* The utterance is handed out, answered, and the queue is drained. *)
LEMMA EarHandles ==
  ASSUME EarInv, Ear!Finalize \/ Ear!ToolSpeaks \/ Ear!Handled \/ Ear!DiscardStaleAudio \/ Ear!FallsSilent
  PROVE  EarInv'
<1> USE EarNames
<1>0. EarTypes /\ EarQueue /\ EarFits /\ EarHanded /\ EarLive
  BY DEF EarInv
<1>1. heard' = heard /\ dropped' = dropped
  BY DEF Ear!Finalize, Ear!ToolSpeaks, Ear!Handled, Ear!DiscardStaleAudio, Ear!FallsSilent
<1>2. CASE Ear!Finalize
  <2>1. /\ loop = "completed" /\ loop' = "handling" /\ utterance' = speech
        /\ speech' = <<>> /\ speaking' = FALSE /\ silence' = 0
        /\ UNCHANGED <<queue, carry, preRoll, answered>>
    BY <1>2 DEF Ear!Finalize
  <2>2. Len(speech') = 0 /\ speech' \in Seq(Nat)
    BY <2>1, Emptied
  <2>3. speaking' \in BOOLEAN
    BY <2>1
  <2>4. EarTypes' /\ EarQueue'
    BY <1>0, <1>1, <2>1, <2>2, <2>3 DEF EarTypes, EarQueue, Chained, UpTo
  <2>5. EarFits' /\ EarHanded' /\ EarLive'
    BY <1>0, <1>1, <2>1, <2>2 DEF EarFits, EarHanded, EarPiece, Fol, Longest, EarLive, Fresh
  <2> QED BY <2>4, <2>5 DEF EarInv
<1>3. CASE Ear!ToolSpeaks \/ Ear!FallsSilent
  <2>1. UNCHANGED <<queue, loop, carry, preRoll, speech, speaking, silence, utterance, answered>>
    BY <1>3 DEF Ear!ToolSpeaks, Ear!FallsSilent, Ear!segmenter
  <2>2. EarTypes' /\ EarQueue' /\ EarFits' /\ EarHanded' /\ EarLive'
    BY <1>0, <1>1, <2>1 DEF EarTypes, EarQueue, Chained, UpTo, EarFits, Along, First, Fol, EarNext, NextOf, EarHanded, EarPiece, Longest, EarLive, Fresh
  <2> QED BY <2>2 DEF EarInv
<1>4. CASE Ear!Handled
  <2>1. /\ loop' = "draining" /\ utterance' = <<>> /\ answered' = heard
        /\ UNCHANGED <<queue, carry, preRoll, speech, speaking, silence>>
    BY <1>4 DEF Ear!Handled, Ear!segmenter
  <2>2. utterance' \in Seq(Nat) /\ Len(utterance') = 0
    BY <2>1, Emptied
  <2>3. EarTypes' /\ EarQueue'
    BY <1>0, <1>1, <2>1, <2>2 DEF EarTypes, EarQueue, Chained, UpTo
  <2>4. EarFits' /\ EarHanded' /\ EarLive'
    BY <1>0, <2>1, <2>2 DEF EarFits, EarHanded, EarLive, Fresh
  <2> QED BY <2>3, <2>4 DEF EarInv
<1>5. CASE Ear!DiscardStaleAudio
  <2>0. loop = "draining" /\ Ear!Drain /\ UNCHANGED <<utterance, answered>>
    BY <1>5 DEF Ear!DiscardStaleAudio
  <2>1. CASE queue = <<>>
    <3>1. carry' = <<>> /\ preRoll' = <<>> /\ speech' = <<>> /\ speaking' = FALSE /\ silence' = 0
          /\ loop' = "listening" /\ queue' = <<>>
      BY <2>0, <2>1 DEF Ear!Drain, Ear!Reset
    <3>2. /\ Len(carry') = 0 /\ carry' \in Seq(Nat) /\ Len(preRoll') = 0 /\ preRoll' \in Seq(Nat)
          /\ Len(speech') = 0 /\ speech' \in Seq(Nat) /\ Len(queue') = 0 /\ speaking' \in BOOLEAN
      BY <3>1, Emptied
    <3>3. EarTypes'
      BY <1>0, <1>1, <2>0, <2>1, <3>1, <3>2 DEF EarTypes
    <3>4. EarQueue' /\ EarFits' /\ EarHanded'
      BY <3>1, <3>2 DEF EarQueue, Chained, EarFits, Along, EarHanded
    <3>5. EarLive'
      <4>1. Fresh(utterance)'
        BY <1>0, <2>0 DEF EarLive, Fresh
      <4> QED BY <3>2, <4>1 DEF EarLive, Fresh
    <3> QED BY <3>3, <3>4, <3>5 DEF EarInv
  <2>2. CASE queue # <<>>
    <3>1. queue' = Tail(queue) /\ loop' = loop /\ UNCHANGED <<carry, preRoll, speech, speaking, silence>>
      BY <2>0, <2>2 DEF Ear!Drain, Ear!segmenter
    <3>2. queue' \in Seq(Seq(Nat)) /\ Chained(queue', heard)
      BY <1>0, <2>2, <3>1, ChainTail DEF EarTypes, EarQueue
    <3>3. EarTypes'
      BY <1>0, <1>1, <2>0, <3>1, <3>2 DEF EarTypes
    <3>4. EarQueue'
      BY <1>1, <3>2 DEF EarQueue
    <3>5. EarFits' /\ EarHanded' /\ EarLive'
      BY <1>0, <2>0, <3>1 DEF EarFits, EarHanded, EarLive, Fresh
    <3> QED BY <3>3, <3>4, <3>5 DEF EarInv
  <2> QED BY <2>1, <2>2
<1> QED BY <1>2, <1>3, <1>4, <1>5

LEMMA EarStep == ASSUME EarInv, Ear!Next PROVE EarInv'
BY EarCaptures, EarTakes, EarScores, EarHandles DEF Ear!Next

LEMMA EarStutters == ASSUME EarInv, UNCHANGED wakeOnly, UNCHANGED shared PROVE EarInv'
<1>1. UNCHANGED <<heard, queue, dropped, loop, carry, preRoll, speech, speaking, silence, utterance, answered>>
  BY DEF wakeOnly, shared
<1> QED BY <1>1 DEF EarInv, EarTypes, EarQueue, Chained, UpTo, EarFits, Along, First, Fol, EarNext, NextOf, EarHanded, EarPiece, Longest, EarLive, Fresh

LEMMA EarEnds == ASSUME EarInv PROVE Ear!UtteranceLacksNothingElse /\ Ear!UtteranceIsBounded /\ Ear!OnlyLiveAudio
<1> USE EarNames
<1>0. EarTypes /\ EarHanded /\ EarLive
  BY DEF EarInv
<1>1. Ear!UtteranceLacksNothingElse
  BY <1>0 DEF Ear!UtteranceLacksNothingElse, Ear!Handling, Ear!Follows, EarHanded, EarPiece, Fol
<1>2. Ear!OnlyLiveAudio
  <2>1. utterance \in Seq(Nat) /\ DOMAIN utterance = 1..Len(utterance)
    BY <1>0 DEF EarTypes
  <2> QED BY <1>0, <2>1 DEF Ear!OnlyLiveAudio, EarLive, Fresh
<1>3. Ear!UtteranceIsBounded
  <2>1. Ear!Max({MaxSpeech, PreRoll + Frame}) = IF MaxSpeech > PreRoll + Frame THEN MaxSpeech ELSE PreRoll + Frame
    BY DEF Ear!Max
  <2> QED BY <1>0, <2>1 DEF Ear!UtteranceIsBounded, Ear!Handling, EarHanded, Longest
<1> QED BY <1>1, <1>2, <1>3

------------------------------------------------------------------------------
(* All of them                                                             *)

PartsKept ==
  /\ part = "mic" => MicAll
  /\ part = "speaker" => VoiceInv
  /\ part = "camera" => CameraInv
  /\ part = "display" => DisplayInv
  /\ part = "video" => VideoInv
  /\ part = "wake_word" => EarInv
  /\ part = "playback" => PlaybackInv
  /\ part = "vision" => VisionInv

LEMMA PartsStart == Init => PartsKept
BY MicAllStart, VoiceStart, CameraStart, DisplayStart, VideoStart, EarStart, PlaybackStart, VisionStart
   DEF Init, PartsKept

LEMMA PartsNext == ASSUME PartsKept, Next PROVE PartsKept'
<1>1. ASSUME part = "mic", Mic!Next, part' = part PROVE PartsKept'
  BY <1>1, MicAllStep DEF PartsKept
<1>2. ASSUME part = "speaker", Voice!Next, part' = part PROVE PartsKept'
  BY <1>2, VoiceStep DEF PartsKept
<1>3. ASSUME part = "camera", Eye!Next, part' = part PROVE PartsKept'
  BY <1>3, CameraStep DEF PartsKept
<1>4. ASSUME part = "display", Face!Next, part' = part PROVE PartsKept'
  BY <1>4, DisplayStep DEF PartsKept
<1>5. ASSUME part = "video", Video!Next, part' = part PROVE PartsKept'
  BY <1>5, VideoStep DEF PartsKept
<1>6. ASSUME part = "wake_word", Ear!Next, part' = part PROVE PartsKept'
  BY <1>6, EarStep DEF PartsKept
<1>7. ASSUME part = "playback", Playback!Next, part' = part PROVE PartsKept'
  BY <1>7, PlaybackStep DEF PartsKept
<1>8. ASSUME part = "vision", Vision!Next, part' = part PROVE PartsKept'
  BY <1>8, VisionStep DEF PartsKept
<1> QED BY <1>1, <1>2, <1>3, <1>4, <1>5, <1>6, <1>7, <1>8 DEF Next

LEMMA PartsAlways == Spec => []PartsKept
<1>1. ASSUME PartsKept, UNCHANGED vars PROVE PartsKept'
  <2>1. part' = part /\ UNCHANGED <<shared, micOnly, speakerOnly, cameraOnly, displayOnly, videoOnly, wakeOnly, playbackOnly, visionOnly>>
    BY <1>1 DEF vars
  <2> QED BY <1>1, <2>1, MicAllStutters, VoiceStutters, CameraStutters, DisplayStutters, VideoStutters, EarStutters,
             PlaybackStutters, VisionStutters DEF PartsKept
<1>2. PartsKept /\ [Next]_vars => PartsKept'
  BY <1>1, PartsNext
<1> QED BY PartsStart, <1>2, PTL DEF Spec

(* A device in use is reserved and has one user, and nobody is left using  *)
(* it, whatever is closed, restarted, times out or wedges in between, but  *)
(* for a display that was connected again beside an earlier reader thread. *)
THEOREM DevicesAreReserved == Spec => []OpenIsReserved
<1>1. PartsKept => OpenIsReserved
  BY MicEnds, VoiceEnds, CameraEnds, DisplayEnds, PlaybackEnds DEF PartsKept, OpenIsReserved, VideoInv
<1> QED BY <1>1, PartsAlways, PTL

(* Whoever waits is woken, where no exception outside read() ends the      *)
(* capture thread and a subscription has room for two chunks.              *)
THEOREM WaitersAreWoken == ASSUME ThreadsLast, MicRoom >= 2 PROVE Spec => []NobodyWaitsInVain
<1>1. PartsKept => NobodyWaitsInVain
  BY MicEnds, VoiceEnds DEF PartsKept, NobodyWaitsInVain, VisionInv, VisionTimes
<1> QED BY <1>1, PartsAlways, PTL

(* Nothing stale is served, where the capture thread lasts and the display *)
(* answers within the command's time or not at all; a display command's    *)
(* reply is its own until one that reads the port itself has taken a line  *)
(* of the display's own.                                                   *)
THEOREM NothingStaleReaches == ASSUME ThreadsLast, Late = FALSE PROVE Spec => []NothingStaleIsServed
<1>1. PartsKept => NothingStaleIsServed
  BY MicEnds, VoiceEnds, CameraEnds, DisplayEnds, EarEnds DEF PartsKept, NothingStaleIsServed
<1> QED BY <1>1, PartsAlways, PTL

(* What was perceived is what there was, less the chunks a full queue gave *)
(* up, for every length of chunk, frame and pre-roll, and every stream of  *)
(* frames.                                                                 *)
THEOREM PerceptionIsAlwaysEarned == Spec => []PerceptionIsEarned
<1>1. PartsKept => PerceptionIsEarned
  BY EarEnds DEF PartsKept, PerceptionIsEarned, VisionInv, VisionTimes
<1> QED BY <1>1, PartsAlways, PTL

(* No speech that was said after a stop() is taken with it, and a player   *)
(* that starts late still falls silent: the speaker by itself.             *)
THEOREM SpeechEndsWithItsStop ==
  Spec => [](part = "speaker" => Voice!LaterSpeechSurvives /\ Voice!StoppedIsSilent /\ Voice!NoHandleIsLost)
<1>1. PartsKept => (part = "speaker" => Voice!LaterSpeechSurvives /\ Voice!StoppedIsSilent /\ Voice!NoHandleIsLost)
  BY VoiceEnds DEF PartsKept
<1> QED BY <1>1, PartsAlways, PTL
==============================================================================
