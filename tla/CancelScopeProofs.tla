------------------------- MODULE CancelScopeProofs -------------------------
(* CancelScope for every set of tasks and tools and every bound.           *)
EXTENDS CancelScope, TLAPS

Pacing == {"top", "aim", "frame", "check", "nap"}

(* Whoever is past the lock holds it, and only its worker, or the          *)
(* application's with the lock free, is there.                             *)
Locked ==
  /\ \A t \in Task : call[t] \in {"checking", "awaiting", "draining"} => holder = t
  /\ \A t \in Task : worker[t].at # "off" => call[t] \in {"awaiting", "draining"}
  /\ worker[App].at # "off" => holder = None

(* An armed baseline is that of the call in flight. *)
ArmedIsOurs ==
  /\ armed # None => /\ holder # None
                     /\ call[holder] \in {"awaiting", "draining"}
                     /\ armed = base[holder]
  /\ \A t \in Task : worker[t].at = "queued" => armed = base[t]
  /\ armed # None => armed <= count

(* Where a worker can be, by part and section. *)
Stages(w) ==
  /\ w.at = "queued" => w.part = "main"
  /\ w.at = "enter" => w.part # "main"
  /\ w.at \in Pacing => w.secs # <<>>
  /\ w.at \in Pacing /\ w.part # "main" => w.secs = <<"pace">>
  /\ w.at \in {"top", "aim"} => w.secs = <<"loop">>
  /\ w.at \in {"top", "aim", "frame", "nap"} => w.left > 0
  /\ w.at = "frame" => Head(w.secs) # "hold"
  /\ w.at = "check" => w.left > 0 \/ Head(w.secs) = "hold"
  /\ w.at \in Pacing => w.snap <= w.inner /\ w.inner <= count
  /\ w.at \in Pacing /\ w.secs # <<"loop">> => w.inner = w.snap
  /\ w.at # "done" => w.end = None

(* Snapshots are not older than the baseline of the call.                  *)
Based(d) ==
  /\ base[d] <= count
  /\ worker[d].at \in Pacing => base[d] <= worker[d].snap
  /\ worker[d].at # "off" /\ (worker[d].part = "relax" \/ worker[d].end = "interrupted")
       => count > base[d]

(* What a check to come will compare with at the latest: the run of the    *)
(* loop's last turn its own snapshot, any other turn the loop's at its top. *)
Seen(w) == IF w.secs = <<"loop">> /\ w.at \in {"frame", "check"} /\ w.left = 1 THEN w.inner ELSE w.snap

(* A request that is due will be seen, has been, or the call has failed.   *)
DueIsSeen(d) ==
  LET w == worker[d] IN
  /\ due[d] /\ w.at \in Pacing /\ w.part = "main" => WillCheck(d) /\ count > Seen(w)
  /\ due[d] /\ w.at = "queued" => d # App /\ kind[d] # "still" /\ count > base[d]
  /\ w.at # "off" /\ w.part = "settle" => ~due[d]
  /\ w.end = "ok" => ~due[d]
  /\ result[d] = "ok" => ~due[d]
  /\ w.at # "off" => result[d] = None /\ (due[d] => kind[d] # "still")

CallIsDue(t) ==
  /\ call[t] = "waiting" => ~due[t]
  /\ call[t] = "checking" => (due[t] => requested)
  /\ call[t] # "out" => result[t] = None

(* A frame written after such a request is the last before it is seen.     *)
LateIsLast(d) ==
  LET w == worker[d] IN
  late[d] # 0 =>
    /\ late[d] = 1 /\ due[d] /\ w.at # "queued"
    /\ w.part = "main" /\ w.at \in Pacing
         => \/ w.at = "check" \/ (w.at = "nap" /\ Head(w.secs) = "glide")
            \/ w.at \in {"nap", "top"} /\ w.secs = <<"loop">>

(* The runs of IDLE that follow a motion begin with the engine in IDLE.    *)
IdleAfter(d) ==
  worker[d].at # "off" /\ Moves(kind[d]) =>
    /\ worker[d].part # "main" => motion = "idle"
    /\ worker[d].at = "done" /\ (kind[d] = "dance" => worker[d].end # "error") => motion = "idle"

IInv ==
  /\ TypeOK /\ Locked /\ ArmedIsOurs
  /\ \A d \in Driver : Stages(worker[d]) /\ Based(d) /\ DueIsSeen(d) /\ LateIsLast(d) /\ IdleAfter(d)
  /\ \A t \in Task : CallIsDue(t)

-----------------------------------------------------------------------------
(* Types and stages                                                        *)

LEMMA PlanFacts ==
  ASSUME NEW p \in Plan, p # <<>>
  PROVE  /\ Head(p) \in {"pace", "hold", "glide", "loop"} /\ Tail(p) \in Plan /\ Len(p) \in Nat \ {0}
         /\ Len(p) = 1 => p = <<"pace">> \/ p = <<"loop">> \/ p = <<"glide">>
         /\ Len(p) > 1 => /\ Head(p) # "loop" /\ Head(p) # "glide"
                          /\ Tail(p) # <<>> /\ Tail(p) # <<"loop">>
                          /\ Head(Tail(p)) \in {"hold", "glide"}
         /\ Head(p) = "loop" <=> p = <<"loop">>
         /\ Head(p) = "glide" <=> p = <<"glide">>
         /\ Head(p) = "hold" => Len(p) > 1
<1>1. CASE p = <<"pace">>
  BY <1>1 DEF Plan
<1>2. CASE p = <<"loop">>
  BY <1>2 DEF Plan
<1>3. CASE p = <<"glide">>
  BY <1>3 DEF Plan
<1>4. CASE p = <<"hold", "glide">>
  BY <1>4 DEF Plan
<1>5. CASE p = <<"pace", "hold", "glide">>
  BY <1>5 DEF Plan
<1> QED BY <1>1, <1>2, <1>3, <1>4, <1>5 DEF Plan

LEMMA SectionsFacts ==
  ASSUME NEW k, NEW part
  PROVE  /\ Sections(k, part) \in Plan /\ Sections(k, part) # <<>>
         /\ part # "main" => Sections(k, part) = <<"pace">>
         /\ Head(Sections(k, part)) \in {"pace", "loop"}
         /\ Head(Sections(k, part)) = "loop" => Sections(k, part) = <<"loop">>
BY DEF Sections, Plan

LEMMA WorkerFacts ==
  /\ Off \in Worker /\ Queued \in Worker
  /\ Off.at = "off" /\ Off.part = "main" /\ Off.end = None
  /\ Queued.at = "queued" /\ Queued.part = "main" /\ Queued.end = None
BY DEF Off, Queued, Worker, At, Plan

LEMMA TurnFacts ==
  /\ Turn("pace") = "frame" /\ Turn("loop") = "top" /\ Turn("hold") = "check" /\ Turn("glide") = "check"
  /\ \A sec : Turn(sec) \in {"frame", "top", "check"}
BY DEF Turn

LEMMA EnterType ==
  ASSUME TypeOK, ArmedIsOurs, NEW d \in Driver, Stages(worker[d]), Enter(d)
  PROVE  worker'[d] \in Worker /\ Stages(worker[d])'
<1> DEFINE w == worker[d]
<1>1. w \in Worker /\ d \in DOMAIN worker /\ worker'[d] \in {worker'[d]}
  BY DEF TypeOK
<1>2. CASE kind[d] = "still"
  <2>1. worker'[d] = [w EXCEPT !.at = "done", !.end = "ok"]
    BY <1>1, <1>2 DEF Enter, End, Put, TypeOK
  <2> QED BY <1>1, <2>1 DEF Worker, Stages, At, Pacing
<1>3. CASE kind[d] # "still"
  <2> DEFINE secs == Sections(kind[d], w.part)
  <2>1. PICK n \in 1..MaxFrames :
          worker'[d] = [w EXCEPT !.at = Turn(Head(secs)), !.secs = secs, !.left = n,
                                 !.snap = Snapshot, !.inner = Snapshot]
    BY <1>1, <1>3 DEF Enter, Put, TypeOK
  <2>2. secs \in Plan /\ secs # <<>> /\ Head(secs) \in {"pace", "loop"}
        /\ (w.part # "main" => secs = <<"pace">>) /\ (Head(secs) = "loop" => secs = <<"loop">>)
    BY SectionsFacts
  <2>3. Turn(Head(secs)) \in {"frame", "top"} /\ (Turn(Head(secs)) = "top" => Head(secs) = "loop")
        /\ (Turn(Head(secs)) = "frame" => Head(secs) = "pace")
    BY <2>2, TurnFacts
  <2>4. Snapshot \in Nat /\ Snapshot <= count /\ count \in Nat
    BY DEF Snapshot, TypeOK, ArmedIsOurs
  <2>9. count' = count
    BY DEF Enter
  <2>5. n \in Nat /\ n > 0
    BY ConstantsAssumption
  <2>6. w.end = None
    BY DEF Stages, Enter
  <2> HIDE DEF secs
  <2>7. worker'[d] \in Worker
    BY <1>1, <2>1, <2>2, <2>3, <2>4, <2>5 DEF Worker, At
  <2>8. /\ worker'[d].at = Turn(Head(secs)) /\ worker'[d].part = w.part /\ worker'[d].secs = secs
        /\ worker'[d].left = n /\ worker'[d].snap = Snapshot /\ worker'[d].inner = Snapshot
        /\ worker'[d].end = w.end
    BY <1>1, <2>1 DEF Worker
  <2> QED BY <2>2, <2>3, <2>4, <2>5, <2>6, <2>7, <2>8, <2>9 DEF Stages, Pacing
<1> QED BY <1>2, <1>3

LEMMA FrameType ==
  ASSUME TypeOK, NEW d \in Driver, Stages(worker[d]), Frame(d)
  PROVE  worker'[d] \in Worker /\ Stages(worker[d])'
<1> DEFINE w == worker[d]
<1>1. w \in Worker /\ w.at = "frame" /\ count' = count
  BY DEF TypeOK, Frame, scope
<1>2. worker'[d] = [w EXCEPT !.at = IF Head(w.secs) = "glide" THEN "nap" ELSE "check"]
  BY <1>1 DEF Frame, Put, TypeOK
<1> QED BY <1>1, <1>2 DEF Worker, Stages, At, Pacing

LEMMA EndType ==
  ASSUME TypeOK, NEW d \in Driver, Stages(worker[d]), NEW how \in {"ok", "interrupted", "error"}, End(d, how),
         UNCHANGED count
  PROVE  worker'[d] \in Worker /\ Stages(worker[d])'
<1>1. worker[d] \in Worker /\ worker'[d] = [worker[d] EXCEPT !.at = "done", !.end = how]
  BY DEF TypeOK, End, Put
<1> QED BY <1>1 DEF Worker, Stages, At, Pacing

LEMMA CheckPassesType ==
  ASSUME TypeOK, NEW d \in Driver, Stages(worker[d]), CheckPasses(d)
  PROVE  worker'[d] \in Worker /\ Stages(worker[d])'
<1> DEFINE w == worker[d]
<1>1. w \in Worker /\ w.at \in {"top", "check"} /\ (Head(w.secs) = "hold" => w.left > 0) /\ count \in Nat
      /\ count' = count
  BY DEF TypeOK, CheckPasses, scope
<1>2. ~Cancelled(d)
  BY DEF CheckPasses
<1>3. CASE w.at = "top"
  <2>1. worker'[d] = [w EXCEPT !.at = "aim"]
    BY <1>1, <1>3 DEF CheckPasses, Put, TypeOK
  <2> QED BY <1>1, <1>3, <2>1 DEF Worker, Stages, At, Pacing
<1>4. CASE w.at = "check"
  <2>1. worker'[d] = [w EXCEPT !.at = IF Head(w.secs) = "glide" THEN "frame" ELSE "nap"]
    BY <1>1, <1>4 DEF CheckPasses, Put, TypeOK
  <2> QED BY <1>1, <1>4, <2>1 DEF Worker, Stages, At, Pacing
<1> QED BY <1>1, <1>3, <1>4

LEMMA RunOnceType ==
  ASSUME TypeOK, NEW d \in Driver, Stages(worker[d]), RunOnce(d)
  PROVE  worker'[d] \in Worker /\ Stages(worker[d])'
<1> DEFINE w == worker[d]
<1>1. w \in Worker /\ w.at = "aim" /\ count \in Nat /\ count' = count
  BY DEF TypeOK, RunOnce, scope
<1>2. worker'[d] = [w EXCEPT !.at = "frame", !.inner = count]
  BY <1>1 DEF RunOnce, Put, TypeOK
<1>3. w.secs = <<"loop">> /\ Head(w.secs) = "loop" /\ w.snap <= count
  BY <1>1 DEF Stages, Worker, Pacing
<1>4. worker'[d] \in Worker
  BY <1>1, <1>2 DEF Worker, At
<1>5. /\ worker'[d].at = "frame" /\ worker'[d].inner = count /\ worker'[d].snap = w.snap
      /\ worker'[d].secs = w.secs /\ worker'[d].left = w.left /\ worker'[d].part = w.part
      /\ worker'[d].end = w.end
  BY <1>1, <1>2 DEF Worker
<1> QED BY <1>1, <1>3, <1>4, <1>5 DEF Stages, Pacing

LEMMA CheckRaisesType ==
  ASSUME TypeOK, NEW d \in Driver, Stages(worker[d]), CheckRaises(d)
  PROVE  worker'[d] \in Worker /\ Stages(worker[d])'
<1> DEFINE w == worker[d]
<1>1. w \in Worker /\ w.at \in {"top", "check"} /\ count' = count
  BY DEF TypeOK, CheckRaises, scope
<1>2. CASE w.part = "main" /\ kind[d] # "look"
  <2>1. worker'[d] = [w EXCEPT !.at = "enter", !.part = "relax"]
    BY <1>1, <1>2 DEF CheckRaises, Put, TypeOK
  <2> QED BY <1>1, <2>1 DEF Worker, Stages, At, Pacing
<1>3. CASE ~(w.part = "main" /\ kind[d] # "look")
  <2>1. End(d, "interrupted")
    BY <1>3 DEF CheckRaises
  <2> QED BY <1>1, <2>1, EndType
<1> QED BY <1>2, <1>3

LEMMA ReturnsType ==
  ASSUME TypeOK, NEW d \in Driver, Stages(worker[d]), Returns(d), worker[d].at = "nap",
         UNCHANGED count
  PROVE  worker'[d] \in Worker /\ Stages(worker[d])'
<1> DEFINE w == worker[d]
<1>1. w \in Worker
  BY DEF TypeOK
<1>2. CASE w.part = "main" /\ kind[d] \in {"motion", "follow"}
  <2>1. worker'[d] = [w EXCEPT !.at = "enter", !.part = "settle"]
    BY <1>1, <1>2 DEF Returns, Put, TypeOK
  <2> QED BY <1>1, <2>1 DEF Worker, Stages, At, Pacing
<1>3. CASE ~(w.part = "main" /\ kind[d] \in {"motion", "follow"})
  <2>1. End(d, IF w.part = "relax" THEN "interrupted" ELSE "ok")
    BY <1>3 DEF Returns
  <2>2. (IF w.part = "relax" THEN "interrupted" ELSE "ok") \in {"ok", "interrupted", "error"}
    OBVIOUS
  <2> QED BY <2>1, <2>2, EndType
<1> QED BY <1>2, <1>3

LEMMA NextSectionType ==
  ASSUME TypeOK, NEW d \in Driver, Stages(worker[d]), NextSection(d),
         worker[d].at \in {"nap", "check"}, UNCHANGED count
  PROVE  worker'[d] \in Worker /\ Stages(worker[d])'
<1> DEFINE w == worker[d]
           rest == Tail(w.secs)
<1>1. w \in Worker /\ w.secs \in Plan /\ w.secs # <<>> /\ Len(w.secs) > 1
  BY DEF TypeOK, NextSection, Stages, Pacing, Worker
<1>2. PICK n \in 1..MaxFrames :
        worker'[d] = [w EXCEPT !.at = Turn(Head(rest)), !.secs = rest, !.left = n]
  BY <1>1 DEF NextSection, Put, TypeOK
<1>3. rest \in Plan /\ rest # <<>> /\ rest # <<"loop">> /\ Turn(Head(rest)) = "check"
      /\ w.secs # <<"pace">> /\ w.secs # <<"loop">>
  <2>1. rest \in Plan /\ rest # <<>> /\ rest # <<"loop">> /\ Head(rest) \in {"hold", "glide"}
    BY <1>1, PlanFacts
  <2>2. Len(<<"pace">>) = 1 /\ Len(<<"loop">>) = 1
    OBVIOUS
  <2> QED BY <1>1, <2>1, <2>2, TurnFacts
<1>4. n \in Nat /\ n > 0
  BY ConstantsAssumption
<1> HIDE DEF rest
<1>5. worker'[d] \in Worker
  BY <1>1, <1>2, <1>3, <1>4 DEF Worker, At
<1>6. /\ worker'[d].at = "check" /\ worker'[d].part = w.part /\ worker'[d].secs = rest
      /\ worker'[d].left = n /\ worker'[d].snap = w.snap /\ worker'[d].inner = w.inner
      /\ worker'[d].end = w.end
  BY <1>1, <1>2, <1>3 DEF Worker
<1> QED BY <1>1, <1>3, <1>4, <1>5, <1>6 DEF Stages, Pacing

LEMMA WakeType ==
  ASSUME TypeOK, NEW d \in Driver, Stages(worker[d]), Wake(d)
  PROVE  worker'[d] \in Worker /\ Stages(worker[d])'
<1> DEFINE w == worker[d]
<1>1. w \in Worker /\ w.at = "nap" /\ count' = count /\ w.left > 0 /\ w.secs # <<>> /\ w.secs \in Plan
  BY DEF TypeOK, Wake, scope, Stages, Worker, Pacing
<1>2. CASE w.left > 1 \/ Head(w.secs) = "hold"
  <2>1. worker'[d] = [w EXCEPT !.at = Turn(Head(w.secs)), !.left = w.left - 1]
    BY <1>1, <1>2 DEF Wake, Put, TypeOK
  <2>2. /\ Head(w.secs) \in {"pace", "hold", "glide", "loop"}
        /\ Head(w.secs) = "loop" => w.secs = <<"loop">>
    BY <1>1, PlanFacts
  <2>3. /\ Turn(Head(w.secs)) \in {"frame", "check", "top"}
        /\ Turn(Head(w.secs)) = "top" => w.secs = <<"loop">>
        /\ Turn(Head(w.secs)) = "frame" => Head(w.secs) = "pace"
        /\ Head(w.secs) = "hold" => Turn(Head(w.secs)) = "check"
    BY <2>2, TurnFacts
  <2>4. w.left - 1 \in Nat /\ (w.left - 1 > 0 \/ Head(w.secs) = "hold")
    BY <1>1, <1>2 DEF Worker
  <2>5. worker'[d] \in Worker
    BY <1>1, <2>1, <2>3, <2>4 DEF Worker, At
  <2>6. /\ worker'[d].at = Turn(Head(w.secs)) /\ worker'[d].part = w.part /\ worker'[d].secs = w.secs
        /\ worker'[d].left = w.left - 1 /\ worker'[d].snap = w.snap /\ worker'[d].inner = w.inner
        /\ worker'[d].end = w.end
    BY <1>1, <2>1 DEF Worker
  <2> QED BY <1>1, <2>3, <2>4, <2>5, <2>6 DEF Stages, Pacing
<1>3. CASE ~(w.left > 1 \/ Head(w.secs) = "hold")
  <2>1. Returns(d) \/ NextSection(d)
    BY <1>3 DEF Wake
  <2> QED BY <1>1, <2>1, ReturnsType, NextSectionType
<1> QED BY <1>2, <1>3

(* A step of a worker leaves the other workers, the loop and the count.    *)
LEMMA OneWorker ==
  ASSUME NEW d \in Driver, Drive(d) \/ Fail(d)
  PROVE  /\ UNCHANGED <<count, loop, kind, result, due>>
         /\ \E w : worker' = [worker EXCEPT ![d] = w]
         /\ worker[d].at \notin {"off", "done"}
<1>1. CASE Enter(d)
  BY <1>1 DEF Enter, End, Put
<1>2. CASE Frame(d)
  BY <1>2 DEF Frame, Put, scope
<1>3. CASE CheckPasses(d) \/ RunOnce(d)
  BY <1>3 DEF CheckPasses, RunOnce, Put, scope, history
<1>4. CASE CheckRaises(d)
  BY <1>4 DEF CheckRaises, End, Put, scope, history
<1>5. CASE Wake(d)
  BY <1>5 DEF Wake, Returns, NextSection, End, Put, scope, history
<1>6. CASE HoldEnds(d)
  BY <1>6 DEF HoldEnds, NextSection, Put, scope, history
<1>7. CASE Fail(d)
  BY <1>7 DEF Fail, End, Put, scope, history
<1> QED BY <1>1, <1>2, <1>3, <1>4, <1>5, <1>6, <1>7 DEF Drive

LEMMA DriveStages ==
  ASSUME TypeOK, ArmedIsOurs, \A e \in Driver : Stages(worker[e]), NEW d \in Driver, Drive(d) \/ Fail(d)
  PROVE  worker' \in [Driver -> Worker] /\ \A e \in Driver : Stages(worker[e])'
<1>1. worker'[d] \in Worker /\ Stages(worker[d])'
  <2>1. CASE Enter(d)
    BY <2>1, EnterType
  <2>2. CASE Frame(d)
    BY <2>2, FrameType
  <2>3. CASE CheckPasses(d) \/ RunOnce(d)
    BY <2>3, CheckPassesType, RunOnceType
  <2>4. CASE CheckRaises(d)
    BY <2>4, CheckRaisesType
  <2>5. CASE Wake(d)
    BY <2>5, WakeType
  <2>6. CASE HoldEnds(d)
    BY <2>6, NextSectionType DEF HoldEnds, scope
  <2>7. CASE Fail(d)
    BY <2>7, EndType DEF Fail, scope
  <2> QED BY <2>1, <2>2, <2>3, <2>4, <2>5, <2>6, <2>7 DEF Drive
<1>2. PICK w : worker' = [worker EXCEPT ![d] = w]
  BY OneWorker
<1>3. worker' \in [Driver -> Worker]
  BY <1>1, <1>2 DEF TypeOK
<1>4. count' = count
  BY OneWorker
<1>5. ASSUME NEW e \in Driver PROVE Stages(worker[e])'
  BY <1>1, <1>2, <1>4 DEF TypeOK, Stages
<1> QED BY <1>3, <1>5

LEMMA DriveType ==
  ASSUME TypeOK, ArmedIsOurs, \A e \in Driver : Stages(worker[e]), NEW d \in Driver, Drive(d) \/ Fail(d)
  PROVE  TypeOK'
<1>1. worker' \in [Driver -> Worker]
  BY DriveStages
<1>2. UNCHANGED <<count, holder, queue, requested, call, kind, result, due>>
  BY OneWorker DEF loop
<1>3. armed' \in Nat \cup {None} /\ motion' \in {"idle", "moving"}
      /\ base' \in [Driver -> Nat] /\ late' \in [Driver -> Nat]
  <2>1. CASE Enter(d)
    BY <2>1 DEF Enter, TypeOK
  <2>2. CASE Frame(d)
    BY <2>2 DEF Frame, TypeOK, scope
  <2>3. CASE CheckPasses(d) \/ RunOnce(d) \/ CheckRaises(d) \/ Wake(d) \/ HoldEnds(d) \/ Fail(d)
    BY <2>3 DEF CheckPasses, RunOnce, CheckRaises, Wake, HoldEnds, Fail, Returns, NextSection, TypeOK, scope, history
  <2> QED BY <2>1, <2>2, <2>3 DEF Drive
<1> QED BY <1>1, <1>2, <1>3 DEF TypeOK

LEMMA BumpFacts ==
  ASSUME TypeOK, NEW seen, Bump(seen)
  PROVE  /\ count' \in Nat /\ count' = count + 1
         /\ due' \in [Driver -> BOOLEAN]
         /\ \A d \in Driver : due'[d] <=> (due[d] \/ WillCheck(d) \/ d \in seen)
<1>1. \A d \in Driver : (due[d] \/ WillCheck(d) \/ d \in seen) \in BOOLEAN
  OBVIOUS
<1>2. due' = [d \in Driver |-> due[d] \/ WillCheck(d) \/ d \in seen]
  BY DEF Bump
<1>3. due' \in [Driver -> BOOLEAN] /\ \A d \in Driver : due'[d] = (due[d] \/ WillCheck(d) \/ d \in seen)
  BY <1>1, <1>2, Zenon
<1>4. count' = count + 1 /\ count' \in Nat
  BY DEF Bump, TypeOK
<1> QED BY <1>3, <1>4, Zenon

(* The steps of the event loop and of the threads that cancel.             *)
LoopStep(t) ==
  \/ Take(t) \/ Dispatch(t) \/ Return(t) \/ Abandon(t) \/ Drain(t)
  \/ \E k \in ToolKind : Submit(t, k)

LEMMA LoopType ==
  ASSUME TypeOK, NEW t \in Task, LoopStep(t)
  PROVE  TypeOK'
<1>0. t \in Driver /\ holder \in Task \cup {None} /\ Off \in Worker /\ Queued \in Worker
  BY WorkerFacts DEF TypeOK, Driver
<1>1. CASE Take(t)
  <2>1. queue' \in Seq(Task)
    BY <1>1 DEF Take, TypeOK
  <2> QED BY <1>0, <1>1, <2>1 DEF Take, Leave, TypeOK, scope, history
<1>2. CASE Dispatch(t)
  BY <1>0, <1>2 DEF Dispatch, Leave, Put, TypeOK
<1>3. CASE Return(t)
  <2>1. worker[t].end \in {None, "ok", "interrupted", "error"}
    BY <1>0 DEF TypeOK, Worker
  <2> QED BY <1>0, <1>3, <2>1 DEF Return, Collect, Leave, Put, TypeOK, history
<1>4. CASE Abandon(t)
  <2>1. CASE call[t] = "waiting"
    <3>1. PICK i \in 1..Len(queue) : queue' = SubSeq(queue, 1, i - 1) \o SubSeq(queue, i + 1, Len(queue))
      BY <1>4, <2>1 DEF Abandon
    <3>2. queue' \in Seq(Task)
      BY <3>1 DEF TypeOK
    <3> QED BY <1>0, <1>4, <2>1, <3>2 DEF Abandon, TypeOK
  <2>2. CASE call[t] = "checking"
    BY <1>0, <1>4, <2>2 DEF Abandon, Leave, TypeOK
  <2>3. CASE call[t] = "awaiting"
    <3>1. Bump({})
      BY <1>4, <2>3 DEF Abandon
    <3> QED BY <1>0, <1>4, <2>3, <3>1, BumpFacts DEF Abandon, TypeOK
  <2> QED BY <1>4, <2>1, <2>2, <2>3 DEF Abandon
<1>5. CASE Drain(t)
  BY <1>0, <1>5 DEF Drain, Collect, Leave, Put, TypeOK, history
<1>6. CASE \E k \in ToolKind : Submit(t, k)
  <2>1. PICK k \in ToolKind : Submit(t, k)
    BY <1>6
  <2>2. queue' \in Seq(Task)
    BY <2>1 DEF Submit, TypeOK
  <2> QED BY <1>0, <2>1, <2>2 DEF Submit, TypeOK, scope
<1> QED BY <1>1, <1>2, <1>3, <1>4, <1>5, <1>6 DEF LoopStep

LEMMA OtherType ==
  ASSUME TypeOK, Cancel \/ CancelRunning \/ DirectReturns \/ \E k \in AppKind : Direct(k)
  PROVE  TypeOK'
<1>0. App \in Driver /\ Off \in Worker /\ Queued \in Worker
  BY WorkerFacts DEF Driver
<1>1. CASE Cancel
  BY <1>1, BumpFacts DEF Cancel, TypeOK, loop
<1>2. CASE CancelRunning
  BY <1>2, BumpFacts DEF CancelRunning, TypeOK
<1>3. CASE DirectReturns
  <2>1. worker[App].end \in {None, "ok", "interrupted", "error"}
    BY <1>0 DEF TypeOK, Worker
  <2> QED BY <1>0, <1>3, <2>1 DEF DirectReturns, Put, TypeOK, scope, loop, history
<1>4. CASE \E k \in AppKind : Direct(k)
  BY <1>0, <1>4 DEF Direct, Put, TypeOK, scope, loop
<1> QED BY <1>1, <1>2, <1>3, <1>4

LEMMA StagesKept ==
  ASSUME TypeOK, TypeOK', \A e \in Driver : Stages(worker[e]), count' >= count,
         \A e \in Driver : worker'[e] = worker[e] \/ worker'[e] = Off \/ worker'[e] = Queued
  PROVE  \A e \in Driver : Stages(worker[e])'
<1>1. ASSUME NEW e \in Driver PROVE Stages(worker[e])'
  <2>0. count \in Nat /\ count' \in Nat /\ worker[e] \in Worker
    BY DEF TypeOK
  <2>1. CASE worker'[e] = worker[e]
    BY <2>0, <2>1 DEF Stages, Worker
  <2>2. CASE worker'[e] = Off \/ worker'[e] = Queued
    BY <2>2, WorkerFacts DEF Stages, Pacing
  <2> QED BY <2>1, <2>2
<1> QED BY <1>1

LEMMA TypeStep ==
  ASSUME TypeOK, ArmedIsOurs, \A e \in Driver : Stages(worker[e]), [Next]_vars
  PROVE  TypeOK' /\ \A e \in Driver : Stages(worker[e])'
<1>1. ASSUME NEW d \in Driver, Drive(d) \/ Fail(d) PROVE TypeOK' /\ \A e \in Driver : Stages(worker[e])'
  BY <1>1, DriveType, DriveStages
<1>2. ASSUME NEW t \in Task, LoopStep(t) PROVE TypeOK' /\ \A e \in Driver : Stages(worker[e])'
  <2>1. TypeOK'
    BY <1>2, LoopType
  <2>4. count' = count \/ count' = count + 1
    BY <1>2 DEF LoopStep, Take, Dispatch, Return, Abandon, Drain, Submit, Collect, Bump, scope
  <2>2. count' >= count
    BY <2>4 DEF TypeOK
  <2>3. \A e \in Driver : worker'[e] = worker[e] \/ worker'[e] = Off \/ worker'[e] = Queued
    BY <1>2 DEF LoopStep, Take, Dispatch, Return, Abandon, Drain, Submit, Collect, Put, TypeOK
  <2> QED BY <2>1, <2>2, <2>3, StagesKept
<1>3. CASE Cancel \/ CancelRunning \/ DirectReturns \/ \E k \in AppKind : Direct(k)
  <2>1. TypeOK'
    BY <1>3, OtherType
  <2>2. count' >= count /\ count \in Nat
    BY <1>3 DEF Cancel, CancelRunning, DirectReturns, Direct, Bump, scope, TypeOK
  <2>3. \A e \in Driver : worker'[e] = worker[e] \/ worker'[e] = Off \/ worker'[e] = Queued
    BY <1>3 DEF Cancel, CancelRunning, DirectReturns, Direct, Put, TypeOK
  <2> QED BY <2>1, <2>2, <2>3, StagesKept
<1>4. CASE UNCHANGED vars
  <2>1. TypeOK'
    BY <1>4 DEF TypeOK, vars, scope, loop, history
  <2>2. count' >= count /\ \A e \in Driver : worker'[e] = worker[e]
    BY <1>4 DEF TypeOK, vars, scope
  <2> QED BY <2>1, <2>2, StagesKept
<1>5. Next => \/ Cancel \/ CancelRunning \/ DirectReturns \/ \E k \in AppKind : Direct(k)
              \/ \E d \in Driver : Drive(d) \/ Fail(d)
              \/ \E t \in Task : LoopStep(t)
  BY DEF Next, LoopStep
<1> QED BY <1>1, <1>2, <1>3, <1>4, <1>5

-----------------------------------------------------------------------------
(* The lock and the armed baseline                                         *)

LEMMA Alone ==
  ASSUME TypeOK, Locked, NEW d \in Driver, NEW e \in Driver,
         worker[d].at # "off", worker[e].at # "off"
  PROVE  d = e
<1>1. d \in Task => holder = d
  BY DEF Locked
<1>2. e \in Task => holder = e
  BY DEF Locked
<1>3. d = App \/ e = App => holder = None
  BY DEF Locked
<1>4. None \notin Task
  BY ConstantsAssumption
<1>5. CASE d \in Task /\ e \in Task
  BY <1>1, <1>2, <1>5
<1>6. CASE d = App \/ e = App
  <2>1. d \notin Task /\ e \notin Task
    BY <1>1, <1>2, <1>3, <1>4, <1>6
  <2> QED BY <2>1 DEF Driver
<1> QED BY <1>5, <1>6 DEF Driver

LEMMA LockStep ==
  ASSUME TypeOK, Locked, [Next]_vars
  PROVE  Locked'
<1>0. None \notin Task /\ App \notin Task /\ Off.at = "off" /\ Queued.at = "queued"
  BY ConstantsAssumption, WorkerFacts
<1>1. ASSUME NEW d \in Driver, Drive(d) \/ Fail(d) PROVE Locked'
  <2>1. UNCHANGED <<call, holder>> /\ worker[d].at # "off"
    BY <1>1, OneWorker DEF loop
  <2>2. \A e \in Driver : e # d => worker'[e] = worker[e]
    BY <1>1, OneWorker DEF TypeOK
  <2> QED BY <2>1, <2>2 DEF Locked, Driver
<1>2. ASSUME NEW t \in Task, LoopStep(t) PROVE Locked'
  <2>1. CASE Take(t)
    BY <1>0, <2>1 DEF Take, Leave, Locked, LoopFree, TypeOK
  <2>2. CASE Dispatch(t)
    BY <1>0, <2>2 DEF Dispatch, Leave, Locked, LoopFree, Put, TypeOK, Driver
  <2>3. CASE Return(t) \/ Drain(t)
    BY <1>0, <2>3 DEF Return, Drain, Collect, Leave, Locked, LoopFree, Put, TypeOK, Driver
  <2>4. CASE Abandon(t)
    BY <1>0, <2>4 DEF Abandon, Leave, Locked, LoopFree, TypeOK
  <2>5. CASE \E k \in ToolKind : Submit(t, k)
    BY <1>0, <2>5 DEF Submit, Locked, LoopFree, TypeOK
  <2> QED BY <1>2, <2>1, <2>2, <2>3, <2>4, <2>5 DEF LoopStep
<1>3. CASE Cancel \/ CancelRunning
  BY <1>3 DEF Cancel, CancelRunning, Locked, loop
<1>4. CASE DirectReturns \/ \E k \in AppKind : Direct(k)
  BY <1>0, <1>4 DEF DirectReturns, Direct, Put, Locked, loop, TypeOK, Driver
<1>5. CASE UNCHANGED vars
  BY <1>5 DEF vars, loop, Locked
<1> QED BY <1>1, <1>2, <1>3, <1>4, <1>5 DEF Next, LoopStep

LEMMA PutFacts ==
  ASSUME TypeOK, NEW d \in Driver, NEW w, Put(d, w)
  PROVE  worker'[d] = w
BY DEF TypeOK, Put

LEMMA EndFacts ==
  ASSUME TypeOK, NEW d \in Driver, NEW how, End(d, how)
  PROVE  /\ worker'[d].at = "done" /\ worker'[d].end = how
         /\ worker'[d].part = worker[d].part /\ worker'[d].secs = worker[d].secs
<1>1. worker[d] \in Worker
  BY DEF TypeOK
<1>2. worker'[d] = [worker[d] EXCEPT !.at = "done", !.end = how]
  BY PutFacts DEF End
<1> QED BY <1>1, <1>2 DEF Worker

(* What each step of a worker leaves of it. *)
LEMMA EnterFacts ==
  ASSUME TypeOK, NEW d \in Driver, Enter(d)
  PROVE  LET w == worker[d]  x == worker'[d]  secs == Sections(kind[d], w.part)
         IN  \/ kind[d] = "still" /\ End(d, "ok") /\ UNCHANGED <<armed, motion, base>>
             \/ /\ kind[d] # "still" /\ x.at = Turn(Head(secs)) /\ x.part = w.part /\ x.secs = secs
                /\ x.snap = Snapshot /\ x.inner = Snapshot /\ x.end = w.end
<1> DEFINE w == worker[d]
<1>1. w \in Worker
  BY DEF TypeOK
<1>2. CASE kind[d] = "still"
  BY <1>2 DEF Enter
<1>3. CASE kind[d] # "still"
  <2>1. PICK n : Put(d, [w EXCEPT !.at = Turn(Head(Sections(kind[d], w.part))),
                                  !.secs = Sections(kind[d], w.part), !.left = n,
                                  !.snap = Snapshot, !.inner = Snapshot])
    BY <1>3 DEF Enter
  <2>2. worker'[d] = [w EXCEPT !.at = Turn(Head(Sections(kind[d], w.part))),
                               !.secs = Sections(kind[d], w.part), !.left = n,
                               !.snap = Snapshot, !.inner = Snapshot]
    BY <2>1, PutFacts
  <2> QED BY <1>1, <1>3, <2>2 DEF Worker
<1> QED BY <1>2, <1>3

LEMMA FrameFacts ==
  ASSUME TypeOK, NEW d \in Driver, Frame(d)
  PROVE  LET w == worker[d]  x == worker'[d]
         IN  /\ x.at = IF Head(w.secs) = "glide" THEN "nap" ELSE "check"
             /\ x.part = w.part /\ x.secs = w.secs /\ x.left = w.left /\ x.snap = w.snap
             /\ x.inner = w.inner /\ x.end = w.end
<1> DEFINE w == worker[d]
<1>1. w \in Worker
  BY DEF TypeOK
<1>2. worker'[d] = [w EXCEPT !.at = IF Head(w.secs) = "glide" THEN "nap" ELSE "check"]
  BY PutFacts DEF Frame
<1> QED BY <1>1, <1>2 DEF Worker

LEMMA CheckPassesFacts ==
  ASSUME TypeOK, NEW d \in Driver, CheckPasses(d)
  PROVE  LET w == worker[d]  x == worker'[d]
         IN  /\ x.at = IF w.at = "top" THEN "aim" ELSE IF Head(w.secs) = "glide" THEN "frame" ELSE "nap"
             /\ x.part = w.part /\ x.secs = w.secs /\ x.left = w.left /\ x.snap = w.snap
             /\ x.inner = w.inner /\ x.end = w.end
<1> DEFINE w == worker[d]
<1>1. w \in Worker
  BY DEF TypeOK
<1>2. CASE w.at = "top"
  <2>1. Put(d, [w EXCEPT !.at = "aim"])
    BY <1>2 DEF CheckPasses
  <2>2. worker'[d] = [w EXCEPT !.at = "aim"]
    BY <2>1, PutFacts
  <2> QED BY <1>1, <1>2, <2>2 DEF Worker
<1>3. CASE w.at # "top"
  <2>1. Put(d, [w EXCEPT !.at = IF Head(w.secs) = "glide" THEN "frame" ELSE "nap"])
    BY <1>3 DEF CheckPasses
  <2>2. worker'[d] = [w EXCEPT !.at = IF Head(w.secs) = "glide" THEN "frame" ELSE "nap"]
    BY <2>1, PutFacts
  <2> QED BY <1>1, <1>3, <2>2 DEF Worker
<1> QED BY <1>2, <1>3

LEMMA RunOnceFacts ==
  ASSUME TypeOK, NEW d \in Driver, RunOnce(d)
  PROVE  LET w == worker[d]  x == worker'[d]
         IN  /\ w.at = "aim" /\ x.at = "frame" /\ x.inner = count
             /\ x.part = w.part /\ x.secs = w.secs /\ x.left = w.left /\ x.snap = w.snap /\ x.end = w.end
<1>1. worker[d] \in Worker /\ worker[d].at = "aim"
  BY DEF TypeOK, RunOnce
<1>2. Put(d, [worker[d] EXCEPT !.at = "frame", !.inner = count])
  BY DEF RunOnce
<1>3. worker'[d] = [worker[d] EXCEPT !.at = "frame", !.inner = count]
  BY <1>2, PutFacts
<1> QED BY <1>1, <1>3 DEF Worker

LEMMA CheckRaisesFacts ==
  ASSUME TypeOK, NEW d \in Driver, CheckRaises(d)
  PROVE  LET w == worker[d]  x == worker'[d]
         IN  \/ /\ w.part = "main" /\ kind[d] # "look"
                /\ x.at = "enter" /\ x.part = "relax" /\ x.end = w.end
             \/ /\ ~(w.part = "main" /\ kind[d] # "look")
                /\ End(d, "interrupted")
<1> DEFINE w == worker[d]
<1>1. w \in Worker
  BY DEF TypeOK
<1>2. CASE w.part = "main" /\ kind[d] # "look"
  <2>1. Put(d, [w EXCEPT !.at = "enter", !.part = "relax"])
    BY <1>2 DEF CheckRaises
  <2>2. worker'[d] = [w EXCEPT !.at = "enter", !.part = "relax"]
    BY <2>1, PutFacts
  <2> QED BY <1>1, <1>2, <2>2 DEF Worker
<1>3. CASE ~(w.part = "main" /\ kind[d] # "look")
  BY <1>3 DEF CheckRaises
<1> QED BY <1>2, <1>3

LEMMA ReturnsFacts ==
  ASSUME TypeOK, NEW d \in Driver, Returns(d)
  PROVE  LET w == worker[d]  x == worker'[d]
         IN  \/ w.part = "main" /\ x.at = "enter" /\ x.part = "settle" /\ x.end = w.end
             \/ w.part = "relax" /\ End(d, "interrupted")
             \/ w.part # "relax" /\ End(d, "ok")
<1> DEFINE w == worker[d]
<1>1. w \in Worker
  BY DEF TypeOK
<1>2. CASE w.part = "main" /\ kind[d] \in {"motion", "follow"}
  <2>1. Put(d, [w EXCEPT !.at = "enter", !.part = "settle"])
    BY <1>2 DEF Returns
  <2>2. worker'[d] = [w EXCEPT !.at = "enter", !.part = "settle"]
    BY <2>1, PutFacts
  <2> QED BY <1>1, <1>2, <2>2 DEF Worker
<1>3. CASE ~(w.part = "main" /\ kind[d] \in {"motion", "follow"})
  <2>1. End(d, IF w.part = "relax" THEN "interrupted" ELSE "ok")
    BY <1>3 DEF Returns
  <2> QED BY <2>1
<1> QED BY <1>2, <1>3

LEMMA NextSectionFacts ==
  ASSUME TypeOK, NEW d \in Driver, NextSection(d), worker[d].secs # <<>>
  PROVE  LET w == worker[d]  x == worker'[d]
         IN  /\ x.at = "check" /\ x.part = w.part /\ x.secs = Tail(w.secs) /\ x.snap = w.snap
             /\ x.inner = w.inner /\ x.end = w.end /\ Len(w.secs) > 1
<1> DEFINE w == worker[d]
<1>1. w \in Worker /\ Len(w.secs) > 1 /\ w.secs \in Plan
  BY DEF TypeOK, NextSection, Worker
<1>2. PICK n : Put(d, [w EXCEPT !.at = Turn(Head(Tail(w.secs))), !.secs = Tail(w.secs), !.left = n])
  BY DEF NextSection
<1>3. worker'[d] = [w EXCEPT !.at = Turn(Head(Tail(w.secs))), !.secs = Tail(w.secs), !.left = n]
  BY <1>2, PutFacts
<1>4. Turn(Head(Tail(w.secs))) = "check"
  BY <1>1, PlanFacts, TurnFacts
<1> QED BY <1>1, <1>3, <1>4 DEF Worker

LEMMA WakeFacts ==
  ASSUME TypeOK, NEW d \in Driver, Wake(d)
  PROVE  LET w == worker[d]  x == worker'[d]
         IN  \/ /\ w.left > 1 \/ Head(w.secs) = "hold"
                /\ x.at = Turn(Head(w.secs)) /\ x.part = w.part /\ x.secs = w.secs
                /\ x.left = w.left - 1 /\ x.snap = w.snap /\ x.inner = w.inner /\ x.end = w.end
                /\ UNCHANGED motion
             \/ /\ ~(w.left > 1 \/ Head(w.secs) = "hold")
                /\ Returns(d) \/ NextSection(d)
<1> DEFINE w == worker[d]
<1>1. w \in Worker
  BY DEF TypeOK
<1>2. CASE w.left > 1 \/ Head(w.secs) = "hold"
  <2>1. Put(d, [w EXCEPT !.at = Turn(Head(w.secs)), !.left = w.left - 1]) /\ UNCHANGED motion
    BY <1>2 DEF Wake
  <2>2. worker'[d] = [w EXCEPT !.at = Turn(Head(w.secs)), !.left = w.left - 1]
    BY <2>1, PutFacts
  <2> QED BY <1>1, <1>2, <2>1, <2>2 DEF Worker
<1>3. CASE ~(w.left > 1 \/ Head(w.secs) = "hold")
  BY <1>3 DEF Wake
<1> QED BY <1>2, <1>3

LEMMA NotQueued ==
  ASSUME TypeOK, NEW d \in Driver, Stages(worker[d]), Drive(d) \/ Fail(d)
  PROVE  worker'[d].at \notin {"queued", "off"}
<1>2. CASE Enter(d)
  BY <1>2, EnterFacts, EndFacts, TurnFacts
<1>3. CASE Frame(d)
  BY <1>3, FrameFacts
<1>4. CASE CheckPasses(d) \/ RunOnce(d)
  BY <1>4, CheckPassesFacts, RunOnceFacts
<1>5. CASE CheckRaises(d)
  BY <1>5, CheckRaisesFacts, EndFacts
<1>6. CASE Returns(d)
  BY <1>6, ReturnsFacts, EndFacts
<1>7. CASE NextSection(d) /\ worker[d].at \in {"check", "nap"}
  BY <1>7, NextSectionFacts DEF Stages, Pacing
<1>8. CASE Wake(d)
  BY <1>6, <1>7, <1>8, WakeFacts, TurnFacts DEF Wake
<1>9. CASE Fail(d)
  BY <1>9, EndFacts DEF Fail
<1> QED BY <1>2, <1>3, <1>4, <1>5, <1>7, <1>8, <1>9 DEF Drive, HoldEnds

LEMMA ArmedStep ==
  ASSUME TypeOK, Locked, ArmedIsOurs, \A e \in Driver : Stages(worker[e]), [Next]_vars
  PROVE  ArmedIsOurs'
<1>0. None \notin Task /\ App \notin Task /\ None \notin Nat /\ Off.at = "off" /\ Queued.at = "queued"
      /\ count \in Nat
  BY ConstantsAssumption, WorkerFacts DEF TypeOK
<1>1. ASSUME NEW d \in Driver, Drive(d) \/ Fail(d) PROVE ArmedIsOurs'
  <2>1. UNCHANGED <<count, call, holder>> /\ worker[d].at \notin {"off", "done"}
    BY <1>1, OneWorker DEF loop
  <2>2. \A e \in Driver : e # d => worker'[e] = worker[e] /\ worker[e].at # "queued"
    BY <1>1, <2>1, OneWorker, Alone DEF TypeOK
  <2>3. worker'[d].at # "queued"
    BY <1>1, NotQueued
  <2>4. armed' = armed \/ armed' = None
    BY <1>1 DEF Drive, Enter, RunOnce, Frame, CheckPasses, CheckRaises, Wake, HoldEnds, Fail, scope
  <2>5. d # App => UNCHANGED base
    BY <1>1 DEF Drive, Enter, RunOnce, Frame, CheckPasses, CheckRaises, Wake, HoldEnds, Fail, history
  <2>6. d = App => armed = None
    BY <2>1 DEF Locked, ArmedIsOurs
  <2> QED BY <1>0, <2>1, <2>2, <2>3, <2>4, <2>5, <2>6 DEF ArmedIsOurs, Driver
<1>2. ASSUME NEW t \in Task, LoopStep(t) PROVE ArmedIsOurs'
  <2>0. t \in Driver
    BY DEF Driver
  <2>1. CASE Take(t)
    BY <1>0, <2>1 DEF Take, Leave, ArmedIsOurs, TypeOK, scope, history
  <2>2. CASE Dispatch(t)
    BY <1>0, <2>0, <2>2, Alone DEF Dispatch, Leave, ArmedIsOurs, Locked, Put, TypeOK, Driver
  <2>3. CASE Return(t) \/ Drain(t)
    BY <1>0, <2>0, <2>3, Alone DEF Return, Drain, Collect, Leave, ArmedIsOurs, Locked, Put, TypeOK, Driver, history
  <2>4. CASE Abandon(t)
    <3>1. CASE call[t] = "waiting"
      BY <1>0, <2>4, <3>1 DEF Abandon, ArmedIsOurs, TypeOK
    <3>2. CASE call[t] = "checking"
      BY <1>0, <2>4, <3>2 DEF Abandon, Leave, ArmedIsOurs, Locked, TypeOK
    <3>3. CASE call[t] = "awaiting"
      BY <1>0, <2>4, <3>3 DEF Abandon, Bump, ArmedIsOurs, Locked, TypeOK
    <3> QED BY <2>4, <3>1, <3>2, <3>3 DEF Abandon
  <2>5. CASE \E k \in ToolKind : Submit(t, k)
    BY <1>0, <2>5 DEF Submit, ArmedIsOurs, TypeOK, scope
  <2> QED BY <1>2, <2>1, <2>2, <2>3, <2>4, <2>5 DEF LoopStep
<1>3. CASE Cancel \/ CancelRunning
  BY <1>0, <1>3 DEF Cancel, CancelRunning, Bump, ArmedIsOurs, TypeOK, loop
<1>4. CASE DirectReturns \/ \E k \in AppKind : Direct(k)
  <2>1. UNCHANGED <<armed, count, holder, call, base>>
    BY <1>4 DEF DirectReturns, Direct, loop, scope, history
  <2>2. \A t \in Task : worker'[t] = worker[t]
    BY <1>0, <1>4 DEF DirectReturns, Direct, Put, TypeOK, Driver
  <2> QED BY <2>1, <2>2 DEF ArmedIsOurs
<1>5. CASE UNCHANGED vars
  BY <1>5 DEF vars, loop, scope, history, ArmedIsOurs
<1> QED BY <1>1, <1>2, <1>3, <1>4, <1>5 DEF Next, LoopStep

-----------------------------------------------------------------------------
(* Snapshots and baselines                                                 *)

LEMMA BasedDrive ==
  ASSUME TypeOK, Locked, ArmedIsOurs, NEW d \in Driver, Stages(worker[d]), Based(d), Drive(d) \/ Fail(d)
  PROVE  Based(d)'
<1> DEFINE w == worker[d]
           x == worker'[d]
<1>0. /\ count \in Nat /\ count' = count /\ base[d] \in Nat /\ w.snap \in Nat /\ w.inner \in Nat
      /\ w.at \notin {"off", "done"} /\ w.end = None
  BY OneWorker DEF TypeOK, Worker, Stages
<1>1. CASE Enter(d)
  <2>1. base[d] <= Snapshot /\ (d = App => Snapshot = count) /\ Snapshot \in Nat
    <3>1. CASE armed = None
      BY <1>0, <3>1 DEF Snapshot, Based
    <3>2. CASE armed # None
      <4>1. holder # None /\ armed = base[holder]
        BY <3>2 DEF ArmedIsOurs
      <4>2. d # App /\ holder = d
        BY <1>0, <4>1 DEF Locked, Driver
      <4> QED BY <1>0, <3>2, <4>1, <4>2 DEF Snapshot
    <3> QED BY <3>1, <3>2
  <2>2. base'[d] = base[d] \/ (d = App /\ w.part = "main" /\ base'[d] = count)
    BY <1>1 DEF Enter, TypeOK
  <2>3. \/ x.at = "done" /\ x.end = "ok" /\ x.part = w.part
        \/ x.part = w.part /\ x.snap = Snapshot /\ x.end = w.end
    BY <1>1, EnterFacts, EndFacts
  <2>4. base'[d] <= count /\ base'[d] <= Snapshot
    BY <1>0, <2>1, <2>2 DEF Based
  <2>5. x.at # "off" /\ (x.part = "relax" \/ x.end = "interrupted") => count > base'[d]
    <3>1. x.part = w.part /\ x.end # "interrupted"
      BY <1>0, <2>3, ConstantsAssumption
    <3> QED BY <1>0, <2>2, <3>1 DEF Based
  <2> QED BY <1>0, <2>3, <2>4, <2>5 DEF Based, Pacing
<1>2. CASE ~Enter(d)
  <2>1. base' = base
    BY <1>1, <1>2 DEF Drive, RunOnce, Frame, CheckPasses, CheckRaises, Wake, HoldEnds, Fail, history
  <2>2. CASE Frame(d) \/ CheckPasses(d) \/ RunOnce(d)
    BY <1>0, <2>1, <2>2, FrameFacts, CheckPassesFacts, RunOnceFacts DEF Based, Pacing, Frame, CheckPasses
  <2>3. CASE CheckRaises(d)
    <3>1. count > base[d]
      BY <1>0, <2>3 DEF CheckRaises, Cancelled, Based, Stages, Pacing
    <3> QED BY <1>0, <2>1, <2>3, <3>1, CheckRaisesFacts, EndFacts DEF Based, Pacing
  <2>4. CASE Returns(d)
    BY <1>0, <2>1, <2>4, ReturnsFacts, EndFacts DEF Based, Pacing
  <2>5. CASE NextSection(d) /\ w.at \in {"check", "nap"}
    BY <1>0, <2>1, <2>5, NextSectionFacts DEF Based, Pacing, Stages
  <2>6. CASE Wake(d)
    BY <1>0, <2>1, <2>4, <2>5, <2>6, WakeFacts DEF Based, Pacing, Wake
  <2>7. CASE Fail(d)
    BY <1>0, <2>1, <2>7, EndFacts DEF Based, Pacing, Fail
  <2> QED BY <1>2, <2>2, <2>3, <2>5, <2>6, <2>7 DEF Drive, HoldEnds
<1> QED BY <1>1, <1>2

LEMMA BasedStep ==
  ASSUME TypeOK, Locked, ArmedIsOurs, \A e \in Driver : Stages(worker[e]) /\ Based(e), [Next]_vars
  PROVE  \A e \in Driver : Based(e)'
<1>0. /\ Off.at = "off" /\ Queued.at = "queued" /\ Queued.part = "main" /\ Queued.end = None
      /\ count \in Nat /\ base \in [Driver -> Nat]
  BY WorkerFacts DEF TypeOK
<1>1. ASSUME NEW d \in Driver, Drive(d) \/ Fail(d), NEW e \in Driver PROVE Based(e)'
  <2>1. CASE e = d
    BY <1>1, <2>1, BasedDrive
  <2>2. CASE e # d
    <3>1. count' = count /\ worker'[e] = worker[e]
      BY <1>1, <2>2, OneWorker DEF TypeOK
    <3>2. base'[e] = base[e] \/ (d = App /\ base' = [base EXCEPT ![d] = count])
      BY <1>1 DEF Drive, Enter, RunOnce, Frame, CheckPasses, CheckRaises, Wake, HoldEnds, Fail, history
    <3>3. base'[e] = base[e]
      BY <2>2, <3>2, <1>0
    <3> QED BY <3>1, <3>3 DEF Based
  <2> QED BY <2>1, <2>2
<1>2. ASSUME count' \in {count, count + 1}, NEW e \in Driver, base'[e] = base[e],
             worker'[e] = worker[e] \/ worker'[e] \in {Off, Queued}
      PROVE  Based(e)'
  <2>1. worker[e] \in Worker /\ base[e] \in Nat
    BY <1>0 DEF TypeOK
  <2>2. CASE worker'[e] = worker[e]
    BY <1>0, <1>2, <2>1, <2>2 DEF Based
  <2>3. CASE worker'[e] \in {Off, Queued}
    BY <1>0, <1>2, <2>1, <2>3, ConstantsAssumption DEF Based, Pacing
  <2> QED BY <1>2, <2>2, <2>3
<1>3. ASSUME NEW t \in Task, LoopStep(t), NEW e \in Driver PROVE Based(e)'
  <2>1. CASE Dispatch(t) /\ ~requested
    <3>1. count' = count /\ worker' = [worker EXCEPT ![t] = Queued] /\ base' = [base EXCEPT ![t] = count]
      BY <2>1 DEF Dispatch, Put
    <3>2. CASE e = t
      <4>1. worker'[e] = Queued /\ base'[e] = count
        BY <3>1, <3>2, <1>0 DEF TypeOK
      <4> QED BY <1>0, <3>1, <4>1, ConstantsAssumption DEF Based, Pacing
    <3>3. CASE e # t
      BY <1>0, <1>2, <3>1, <3>3 DEF TypeOK
    <3> QED BY <3>2, <3>3
  <2>2. CASE ~(Dispatch(t) /\ ~requested)
    <3>1. base' = base
      BY <1>3, <2>2 DEF LoopStep, Take, Dispatch, Return, Abandon, Drain, Submit, Collect, history
    <3>2. count' \in {count, count + 1}
      BY <1>3 DEF LoopStep, Take, Dispatch, Return, Abandon, Drain, Submit, Collect, Bump, scope
    <3>3. worker'[e] = worker[e] \/ worker'[e] \in {Off, Queued}
      BY <1>3 DEF LoopStep, Take, Dispatch, Return, Abandon, Drain, Submit, Collect, Put, TypeOK
    <3> QED BY <1>2, <3>1, <3>2, <3>3
  <2> QED BY <2>1, <2>2
<1>4. ASSUME Cancel \/ CancelRunning \/ DirectReturns \/ (\E k \in AppKind : Direct(k)) \/ UNCHANGED vars,
             NEW e \in Driver
      PROVE  Based(e)'
  <2>1. base' = base /\ count' \in {count, count + 1}
    BY <1>4 DEF Cancel, CancelRunning, DirectReturns, Direct, Bump, scope, history, vars
  <2>2. worker'[e] = worker[e] \/ worker'[e] \in {Off, Queued}
    BY <1>4 DEF Cancel, CancelRunning, DirectReturns, Direct, Put, TypeOK, vars
  <2> QED BY <1>2, <2>1, <2>2
<1> QED BY <1>1, <1>3, <1>4 DEF Next, LoopStep

-----------------------------------------------------------------------------
(* Every request that is due is seen                                       *)

LEMMA DueDrive ==
  ASSUME TypeOK, Locked, ArmedIsOurs, NEW d \in Driver, Stages(worker[d]), Based(d), DueIsSeen(d),
         Drive(d) \/ Fail(d)
  PROVE  DueIsSeen(d)'
<1> DEFINE w == worker[d]
           x == worker'[d]
<1>0. /\ count \in Nat /\ count' = count /\ due' = due /\ kind' = kind /\ result' = result
      /\ w.at \notin {"off", "done"} /\ w.end = None /\ result[d] = None
      /\ w \in Worker /\ w.snap \in Nat /\ w.inner \in Nat /\ w.left \in Nat /\ w.secs \in Plan
      /\ due[d] \in BOOLEAN
  BY OneWorker DEF TypeOK, Worker, Stages, DueIsSeen
<1>1. ASSUME ~due[d], x.at # "off" => result[d] = None PROVE DueIsSeen(d)'
  BY <1>0, <1>1, Zenon DEF DueIsSeen
<1>2. ASSUME due[d], w.part # "settle", x.at = "enter", x.part = "relax", x.end = None PROVE DueIsSeen(d)'
  BY <1>0, <1>2, ConstantsAssumption DEF DueIsSeen, Pacing
<1>3. ASSUME due[d], w.part # "settle", x.at = "done", x.end # "ok", x.part = w.part PROVE DueIsSeen(d)'
  BY <1>0, <1>3, ConstantsAssumption DEF DueIsSeen, Pacing
<1>4. due[d] => w.part # "settle"
  BY <1>0 DEF DueIsSeen
<1>5. CASE due[d] /\ w.part = "relax"
  <2>0. kind[d] # "still" /\ w.end # "ok"
    BY <1>0, <1>5, ConstantsAssumption DEF DueIsSeen
  <2>1. x.part = "relax" /\ x.at \notin {"queued", "off"} /\ x.end # "ok"
    <3>1. CASE Enter(d)
      BY <1>0, <1>5, <2>0, <3>1, EnterFacts, TurnFacts DEF Enter, DueIsSeen, Stages
    <3>2. CASE Frame(d) \/ CheckPasses(d) \/ RunOnce(d)
      BY <1>0, <1>5, <2>0, <3>2, FrameFacts, CheckPassesFacts, RunOnceFacts
    <3>3. CASE CheckRaises(d)
      BY <1>0, <1>5, <2>0, <3>3, CheckRaisesFacts, EndFacts
    <3>4. CASE Returns(d)
      BY <1>0, <1>5, <2>0, <3>4, ReturnsFacts, EndFacts
    <3>5. CASE NextSection(d) /\ w.at \in {"check", "nap"}
      BY <1>0, <1>5, <2>0, <3>5, NextSectionFacts DEF Stages, Pacing
    <3>6. CASE Wake(d)
      BY <1>0, <1>5, <2>0, <3>4, <3>5, <3>6, WakeFacts, TurnFacts DEF Wake
    <3>7. CASE Fail(d)
      BY <1>0, <1>5, <2>0, <3>7, EndFacts DEF Fail
    <3> QED BY <3>1, <3>2, <3>3, <3>5, <3>6, <3>7 DEF Drive, HoldEnds
  <2> QED BY <1>0, <2>0, <2>1, ConstantsAssumption DEF DueIsSeen
<1>6. CASE due[d] /\ w.part = "main"
  <2>0. /\ w.at \in Pacing => WillCheck(d) /\ count > Seen(w)
        /\ w.at = "queued" => d # App /\ kind[d] # "still" /\ count > base[d]
        /\ w.at # "enter"
    BY <1>0, <1>6 DEF DueIsSeen, Stages
  <2>1. ASSUME x.part = "main", x.at \in Pacing, WillCheck(d)', count > Seen(x), x.end = None
        PROVE  DueIsSeen(d)'
    BY <1>0, <2>1, ConstantsAssumption DEF DueIsSeen, Pacing
  <2>2. ASSUME w.at \in {"top", "check"}, ~(w.at = "check" /\ w.secs = <<"loop">> /\ w.left > 1) PROVE Cancelled(d)
    BY <1>0, <2>0, <2>2 DEF Cancelled, Seen, Stages, Pacing
  <2>3. CASE Enter(d)
    <3>1. w.at = "queued"
      BY <2>0, <2>3 DEF Enter
    <3>2. Snapshot = base[d] /\ base[d] \in Nat /\ kind[d] # "still"
      BY <2>0, <3>1, ConstantsAssumption DEF Snapshot, ArmedIsOurs, Driver, TypeOK
    <3>3. /\ x.at = Turn(Head(Sections(kind[d], w.part))) /\ x.part = "main"
          /\ x.secs = Sections(kind[d], w.part)
          /\ x.snap = Snapshot /\ x.inner = Snapshot /\ x.end = None
      BY <1>0, <1>6, <2>3, <3>2, EnterFacts
    <3>4. \/ x.at = "frame" /\ Head(x.secs) = "pace"
          \/ x.at = "top" /\ Head(x.secs) = "loop"
      BY <3>3, SectionsFacts, TurnFacts
    <3>5. WillCheck(d)'
      BY <1>0, <3>2, <3>3, <3>4 DEF WillCheck
    <3>6. count > Seen(x)
      BY <2>0, <3>1, <3>2, <3>3 DEF Seen
    <3> QED BY <2>1, <3>3, <3>4, <3>5, <3>6 DEF Pacing
  <2>4. CASE Frame(d)
    <3>1. /\ x.at = (IF Head(w.secs) = "glide" THEN "nap" ELSE "check") /\ x.part = "main" /\ x.secs = w.secs
          /\ x.left = w.left /\ x.snap = w.snap /\ x.inner = w.inner /\ x.end = None /\ w.at = "frame"
      BY <1>0, <1>6, <2>4, FrameFacts DEF Frame
    <3>2. WillCheck(d)'
      BY <1>0, <2>0, <3>1 DEF WillCheck, Pacing
    <3>3. w.secs # <<>>
      BY <3>1 DEF Stages, Pacing
    <3>4. count > Seen(x)
      BY <1>0, <2>0, <3>1, <3>3, PlanFacts DEF Seen, Pacing
    <3> QED BY <2>1, <3>1, <3>2, <3>4 DEF Pacing
  <2>5. CASE CheckPasses(d) \/ HoldEnds(d)
    <3>1. w.at = "check" /\ w.secs = <<"loop">> /\ w.left > 1 /\ Head(w.secs) = "loop"
      BY <2>2, <2>5 DEF CheckPasses, HoldEnds
    <3>2. CheckPasses(d) /\ kind[d] # "still"
      BY <2>0, <2>5, <3>1 DEF HoldEnds, WillCheck, Pacing
    <3>3. /\ x.at = "nap" /\ x.part = "main" /\ x.secs = w.secs /\ x.left = w.left /\ x.snap = w.snap
          /\ x.end = None
      BY <1>0, <1>6, <3>1, <3>2, CheckPassesFacts
    <3>4. WillCheck(d)'
      BY <1>0, <3>1, <3>2, <3>3 DEF WillCheck
    <3> QED BY <1>0, <2>0, <2>1, <3>1, <3>3, <3>4 DEF Seen, Pacing
  <2>9. CASE RunOnce(d)
    <3>1. /\ w.at = "aim" /\ x.at = "frame" /\ x.part = "main" /\ x.secs = w.secs /\ x.left = w.left
          /\ x.snap = w.snap /\ x.end = None /\ w.secs = <<"loop">>
      BY <1>0, <1>6, <2>9, RunOnceFacts DEF Stages
    <3>4. Head(w.secs) = "loop" /\ Len(w.secs) = 1
      BY <3>1
    <3>2. w.left > 1 /\ kind[d] # "still"
      BY <2>0, <3>1, <3>4 DEF WillCheck, Pacing
    <3>3. WillCheck(d)'
      BY <1>0, <3>1, <3>2, <3>4 DEF WillCheck
    <3> QED BY <1>0, <2>0, <2>1, <3>1, <3>2, <3>3 DEF Seen, Pacing
  <2>6. CASE CheckRaises(d)
    BY <1>0, <1>2, <1>3, <1>6, <2>6, CheckRaisesFacts, EndFacts
  <2>7. CASE Wake(d)
    <3>0. w.at = "nap" /\ (w.left > 1 \/ Len(w.secs) > 1) /\ kind[d] # "still" /\ count > w.snap /\ w.secs # <<>>
      BY <2>0, <2>7 DEF Wake, WillCheck, Seen, Pacing, Stages
    <3>1. CASE w.left > 1 \/ Head(w.secs) = "hold"
      <4>1. /\ x.at = Turn(Head(w.secs)) /\ x.part = "main" /\ x.secs = w.secs
            /\ x.snap = w.snap /\ x.end = None
        BY <1>0, <1>6, <2>7, <3>1, WakeFacts
      <4>2. \/ x.at = "frame" /\ Head(w.secs) = "pace"
            \/ x.at = "top" /\ Head(w.secs) = "loop"
            \/ x.at = "check" /\ Head(w.secs) \in {"hold", "glide"}
        BY <1>0, <3>0, <4>1, PlanFacts, TurnFacts
      <4>3. WillCheck(d)'
        BY <1>0, <3>0, <4>1, <4>2 DEF WillCheck
      <4>4. count > Seen(x)
        BY <1>0, <3>0, <4>1, <4>2, PlanFacts DEF Seen
      <4> QED BY <2>1, <4>1, <4>2, <4>3, <4>4 DEF Pacing
    <3>2. CASE ~(w.left > 1 \/ Head(w.secs) = "hold")
      <4>1. NextSection(d)
        <5>1. Len(w.secs) > 1 /\ Len(w.secs) # 1
          BY <1>0, <3>0, <3>2, PlanFacts
        <5>2. ~Returns(d)
          BY <5>1 DEF Returns
        <5> QED BY <2>7, <3>2, <5>2, WakeFacts
      <4>2. x.at = "check" /\ x.part = "main" /\ x.secs = Tail(w.secs) /\ x.snap = w.snap /\ x.end = None
        BY <1>0, <1>6, <3>0, <4>1, NextSectionFacts
      <4>3. x.secs # <<"loop">>
        BY <1>0, <3>0, <4>1, <4>2, PlanFacts DEF NextSection
      <4> QED BY <1>0, <2>1, <3>0, <4>2, <4>3 DEF WillCheck, Seen, Pacing
    <3> QED BY <3>1, <3>2
  <2>8. CASE Fail(d)
    BY <1>0, <1>3, <1>6, <2>8, EndFacts DEF Fail
  <2> QED BY <2>3, <2>4, <2>5, <2>6, <2>7, <2>8, <2>9 DEF Drive
<1> QED BY <1>0, <1>1, <1>4, <1>5, <1>6 DEF Worker

(* A driver nothing runs for, one nothing is due of, one left alone.       *)
LEMMA DueOff ==
  ASSUME NEW d \in Driver, worker'[d].at = "off", worker'[d].end # "ok", result'[d] = "ok" => ~due'[d]
  PROVE  DueIsSeen(d)'
BY DEF DueIsSeen, Pacing

LEMMA DueNot ==
  ASSUME NEW d \in Driver, ~due'[d], worker'[d].at = "off" \/ result'[d] = None
  PROVE  DueIsSeen(d)'
BY Zenon DEF DueIsSeen

LEMMA DueKept ==
  ASSUME NEW d \in Driver, DueIsSeen(d), count' = count, worker'[d] = worker[d], kind'[d] = kind[d],
         result'[d] = result[d], base'[d] = base[d], due'[d] = due[d]
  PROVE  DueIsSeen(d)'
BY DEF DueIsSeen, Seen, WillCheck

LEMMA DueBump ==
  ASSUME TypeOK, NEW d \in Driver, Stages(worker[d]), Based(d), DueIsSeen(d), NEW seen, Bump(seen),
         worker'[d] = worker[d], kind'[d] = kind[d], result'[d] = result[d], base'[d] = base[d],
         d \in seen => worker[d].at = "off" /\ result[d] # "ok"
  PROVE  DueIsSeen(d)'
<1> DEFINE w == worker[d]
<1>0. /\ count \in Nat /\ count' = count + 1 /\ base[d] \in Nat
      /\ w \in Worker /\ w.snap \in Nat /\ w.inner \in Nat
      /\ due'[d] <=> (due[d] \/ WillCheck(d) \/ d \in seen)
  BY BumpFacts DEF TypeOK, Worker
<1>1. CASE ~due'[d]
  BY <1>0, <1>1, DueNot DEF DueIsSeen
<1>2. CASE d \in seen
  BY <1>2, DueOff, ConstantsAssumption DEF Stages
<1>3. CASE due[d]
  BY <1>0, <1>3 DEF DueIsSeen, Seen, WillCheck
<1>4. CASE WillCheck(d) /\ ~due[d]
  <2>1. w.part = "main" /\ kind[d] # "still" /\ w.at \in Pacing \cup {"queued"} /\ (w.at = "queued" => d # App)
    BY <1>4 DEF WillCheck, Pacing
  <2>2. w.end = None /\ result[d] = None
    BY <2>1 DEF Stages, Pacing, DueIsSeen
  <2>3. (w.at \in Pacing => count + 1 > Seen(w)) /\ count + 1 > base[d]
    BY <1>0 DEF Stages, Based, Seen
  <2> QED BY <1>0, <1>4, <2>1, <2>2, <2>3, ConstantsAssumption DEF DueIsSeen, WillCheck, Seen
<1> QED BY <1>0, <1>1, <1>2, <1>3, <1>4

LEMMA DueStep ==
  ASSUME TypeOK, Locked, ArmedIsOurs, \A e \in Driver : Stages(worker[e]) /\ Based(e) /\ DueIsSeen(e),
         \A t \in Task : CallIsDue(t), [Next]_vars
  PROVE  \A e \in Driver : DueIsSeen(e)'
<1>0. /\ Off.at = "off" /\ Off.end = None /\ None \notin {"ok", "interrupted", "error"}
      /\ \A e \in Driver : worker[e].at = "off" => worker[e].end = None
      /\ App \notin Task /\ Task \subseteq Driver /\ App \in Driver
  BY WorkerFacts, ConstantsAssumption DEF Stages, Driver
<1>1. ASSUME NEW d \in Driver, Drive(d) \/ Fail(d), NEW e \in Driver PROVE DueIsSeen(e)'
  <2>1. CASE e = d
    BY <1>1, <2>1, DueDrive
  <2>2. CASE e # d
    <3>1. worker'[e] = worker[e] /\ due' = due /\ result' = result /\ worker[e].at = "off"
      BY <1>1, <2>2, OneWorker, Alone DEF TypeOK
    <3> QED BY <1>0, <3>1, DueOff DEF DueIsSeen
  <2> QED BY <2>1, <2>2
<1>2. ASSUME NEW t \in Task, LoopStep(t), NEW e \in Driver PROVE DueIsSeen(e)'
  <2>1. CASE e # t
    <3>1. /\ worker'[e] = worker[e] /\ kind'[e] = kind[e] /\ result'[e] = result[e] /\ base'[e] = base[e]
      BY <1>2, <2>1 DEF LoopStep, Take, Dispatch, Return, Abandon, Drain, Submit, Collect, Leave, Put,
                        TypeOK, history
    <3>2. Bump({}) \/ (count' = count /\ due'[e] = due[e])
      BY <1>2, <2>1 DEF LoopStep, Take, Dispatch, Return, Abandon, Drain, Submit, Collect, scope, history, TypeOK
    <3> QED BY <3>1, <3>2, DueKept, DueBump
  <2>2. CASE e = t
    <3>0. e \in Driver /\ result \in [Driver -> {None, "ok", "interrupted", "error", "cancelled"}]
      BY DEF TypeOK
    <3>1. CASE Take(t)
      <4>1. worker[t].at = "off" /\ worker' = worker /\ due' = due
        BY <3>1 DEF Take, Locked, history
      <4>2. result'[t] = result[t] \/ result'[t] = "error"
        BY <1>0, <3>0, <3>1 DEF Take, Leave
      <4> QED BY <1>0, <2>2, <4>1, <4>2, DueOff DEF DueIsSeen
    <3>2. CASE Dispatch(t)
      <4>1. worker[t].at = "off" /\ due' = due
        BY <3>2 DEF Dispatch, Locked
      <4>2. CASE requested
        BY <1>0, <2>2, <3>0, <3>2, <4>1, <4>2, DueOff DEF Dispatch, Leave
      <4>3. CASE ~requested
        BY <2>2, <3>2, <4>1, <4>3, DueNot DEF Dispatch, CallIsDue
      <4> QED BY <4>2, <4>3
    <3>3. CASE Return(t) \/ Drain(t)
      <4>1. worker'[t] = Off /\ due' = due
        BY <1>0, <3>3 DEF Return, Drain, Collect, Put, TypeOK, history
      <4>2. result'[t] = worker[t].end \/ result'[t] = "cancelled"
        BY <1>0, <3>0, <3>3 DEF Return, Drain, Collect, Leave
      <4> QED BY <1>0, <2>2, <4>1, <4>2, DueOff DEF DueIsSeen
    <3>4. CASE Abandon(t)
      <4>1. CASE call[t] = "awaiting"
        BY <1>0, <2>2, <3>4, <4>1, DueBump DEF Abandon
      <4>2. CASE call[t] # "awaiting"
        <5>1. worker[t].at = "off" /\ worker' = worker
          BY <3>4, <4>2 DEF Abandon, Locked
        <5>2. result'[t] = "cancelled"
          BY <1>0, <3>0, <3>4, <4>2 DEF Abandon, Leave
        <5> QED BY <1>0, <2>2, <5>1, <5>2, DueOff
      <4> QED BY <4>1, <4>2
    <3>5. CASE \E k \in ToolKind : Submit(t, k)
      BY <1>0, <2>2, <3>5, DueNot DEF Submit, TypeOK
    <3> QED BY <1>2, <3>1, <3>2, <3>3, <3>4, <3>5 DEF LoopStep
  <2> QED BY <2>1, <2>2
<1>3. ASSUME Cancel \/ CancelRunning, NEW e \in Driver PROVE DueIsSeen(e)'
  <2>1. worker' = worker /\ kind' = kind /\ result' = result /\ base' = base
    BY <1>3 DEF Cancel, CancelRunning
  <2>2. CASE Cancel
    BY <2>1, <2>2, DueBump DEF Cancel
  <2>3. CASE CancelRunning
    <3>1. PICK seen : Bump(seen) /\ seen = IF call[holder] = "checking" THEN {holder} ELSE {}
      BY <2>3 DEF CancelRunning
    <3>2. e \in seen => holder = e /\ call[e] = "checking" /\ e \in Task
      BY <2>3, <3>1 DEF CancelRunning, TypeOK
    <3>3. e \in seen => worker[e].at = "off" /\ result[e] # "ok"
      BY <1>0, <3>2 DEF Locked, CallIsDue
    <3> QED BY <2>1, <3>1, <3>3, DueBump
  <2> QED BY <1>3, <2>2, <2>3
<1>4. ASSUME DirectReturns \/ \E k \in AppKind : Direct(k), NEW e \in Driver PROVE DueIsSeen(e)'
  <2>1. CASE e # App
    <3>1. worker'[e] = worker[e] /\ kind'[e] = kind[e] /\ result'[e] = result[e] /\ base' = base
          /\ due'[e] = due[e] /\ count' = count
      BY <1>4, <2>1 DEF DirectReturns, Direct, Put, TypeOK, scope, history
    <3> QED BY <3>1, DueKept
  <2>2. CASE e = App /\ DirectReturns
    <3>1. worker'[e] = Off /\ due' = due /\ result'[e] = worker[e].end
      BY <1>0, <2>2 DEF DirectReturns, Put, TypeOK, history
    <3> QED BY <1>0, <3>1, DueOff DEF DueIsSeen
  <2>3. CASE e = App /\ \E k \in AppKind : Direct(k)
    BY <1>0, <2>3, DueNot DEF Direct, TypeOK
  <2> QED BY <1>4, <2>1, <2>2, <2>3
<1>5. ASSUME UNCHANGED vars, NEW e \in Driver PROVE DueIsSeen(e)'
  BY <1>5, DueKept DEF vars, scope, history
<1> QED BY <1>1, <1>2, <1>3, <1>4, <1>5 DEF Next, LoopStep

LEMMA CallStep ==
  ASSUME TypeOK, Locked, \A t \in Task : CallIsDue(t), [Next]_vars
  PROVE  \A s \in Task : CallIsDue(s)'
<1>0. App \notin Task /\ Task \subseteq Driver /\ None \notin Task
  BY ConstantsAssumption DEF Driver
<1>1. \A s \in Task : call[s] \in {"out", "waiting", "checking"} => ~WillCheck(s)
  BY DEF Locked, WillCheck
<1>2. ASSUME NEW s \in Task, call'[s] = call[s], result'[s] = result[s],
             requested' = requested \/ requested' = TRUE,
             due'[s] = due[s] \/ (call[s] \notin {"waiting", "checking"})
             \/ (call[s] = "checking" /\ requested' = TRUE)
      PROVE  CallIsDue(s)'
  BY <1>2 DEF CallIsDue
<1>3. ASSUME NEW d \in Driver, Drive(d) \/ Fail(d), NEW s \in Task PROVE CallIsDue(s)'
  BY <1>2, <1>3, OneWorker DEF loop
<1>4. ASSUME NEW t \in Task, LoopStep(t), NEW s \in Task PROVE CallIsDue(s)'
  <2>1. CASE Take(t)
    <3>1. /\ call[t] = "waiting" /\ ~requested' /\ due' = due
          /\ \A u \in Task : call[u] # "checking"
      BY <1>0, <2>1 DEF Take, Locked, history
    <3>2. /\ s # t => call'[s] = call[s] /\ result'[s] = result[s]
          /\ s = t => call'[s] = "out" \/ (call'[s] = "checking" /\ result'[s] = result[s])
      BY <1>0, <2>1 DEF Take, Leave, TypeOK
    <3> QED BY <3>1, <3>2, Zenon DEF CallIsDue
  <2>2. CASE Dispatch(t)
    <3>1. due' = due /\ requested' = requested
      BY <2>2 DEF Dispatch
    <3>2. /\ s # t => call'[s] = call[s] /\ result'[s] = result[s]
          /\ s = t => call'[s] = "out" \/ (call[s] = "checking" /\ call'[s] = "awaiting" /\ result'[s] = result[s])
      BY <1>0, <2>2 DEF Dispatch, Leave, TypeOK
    <3> QED BY <3>1, <3>2 DEF CallIsDue
  <2>3. CASE Return(t) \/ Drain(t)
    <3>1. due' = due /\ requested' = requested
      BY <2>3 DEF Return, Drain, Collect, history
    <3>2. /\ s # t => call'[s] = call[s] /\ result'[s] = result[s]
          /\ s = t => call'[s] = "out"
      BY <1>0, <2>3 DEF Return, Drain, Collect, Leave, TypeOK
    <3> QED BY <3>1, <3>2 DEF CallIsDue
  <2>4. CASE Abandon(t)
    <3>1. requested' = requested
      BY <2>4 DEF Abandon
    <3>2. /\ s # t => call'[s] = call[s] /\ result'[s] = result[s]
          /\ s = t => call'[s] = "out" \/ (call[s] = "awaiting" /\ call'[s] = "draining" /\ result'[s] = result[s])
      BY <1>0, <2>4 DEF Abandon, Leave, TypeOK
    <3>3. due'[s] = due[s] \/ call[s] \notin {"waiting", "checking"}
      <4>1. CASE due' = due
        BY <4>1
      <4>2. CASE Bump({})
        <5>1. call[s] \in {"waiting", "checking"} => (due'[s] <=> due[s])
          BY <1>0, <1>1, <4>2, BumpFacts
        <5>2. due[s] \in BOOLEAN /\ due'[s] \in BOOLEAN
          BY <1>0, <4>2, BumpFacts DEF TypeOK
        <5> QED BY <5>1, <5>2
      <4> QED BY <2>4, <4>1, <4>2 DEF Abandon
    <3> QED BY <3>1, <3>2, <3>3, <1>2 DEF CallIsDue
  <2>5. CASE \E k \in ToolKind : Submit(t, k)
    <3>1. requested' = requested
      BY <2>5 DEF Submit
    <3>2. /\ s # t => call'[s] = call[s] /\ result'[s] = result[s] /\ due'[s] = due[s]
          /\ s = t => call'[s] = "waiting" /\ result'[s] = None /\ ~due'[s]
      BY <1>0, <2>5 DEF Submit, TypeOK
    <3> QED BY <3>1, <3>2 DEF CallIsDue
  <2> QED BY <1>4, <2>1, <2>2, <2>3, <2>4, <2>5 DEF LoopStep
<1>5. ASSUME Cancel \/ CancelRunning, NEW s \in Task PROVE CallIsDue(s)'
  <2>1. call' = call /\ result' = result
    BY <1>5 DEF Cancel, CancelRunning, loop
  <2>2. CASE Cancel
    <3>1. Bump({}) /\ requested' = requested
      BY <2>2 DEF Cancel, loop
    <3>2. call[s] \in {"waiting", "checking"} => (due'[s] <=> due[s])
      BY <1>0, <1>1, <3>1, BumpFacts
    <3> QED BY <2>1, <3>1, <3>2, Zenon DEF CallIsDue
  <2>3. CASE CancelRunning
    <3>1. PICK seen : Bump(seen) /\ seen = IF call[holder] = "checking" THEN {holder} ELSE {}
      BY <2>3 DEF CancelRunning
    <3>2. requested' = TRUE
      BY <2>3 DEF CancelRunning
    <3>3. call[s] = "waiting" => (due'[s] <=> due[s])
      BY <1>0, <1>1, <3>1, BumpFacts
    <3> QED BY <2>1, <3>2, <3>3, Zenon DEF CallIsDue
  <2> QED BY <1>5, <2>2, <2>3
<1>6. ASSUME DirectReturns \/ (\E k \in AppKind : Direct(k)) \/ UNCHANGED vars, NEW s \in Task PROVE CallIsDue(s)'
  BY <1>0, <1>2, <1>6 DEF DirectReturns, Direct, TypeOK, loop, history, vars
<1> QED BY <1>3, <1>4, <1>5, <1>6 DEF Next, LoopStep

-----------------------------------------------------------------------------
(* The last frame, and the motion that ends                                *)

LEMMA LateDrive ==
  ASSUME TypeOK, NEW d \in Driver, Stages(worker[d]), DueIsSeen(d), LateIsLast(d), Drive(d) \/ Fail(d)
  PROVE  LateIsLast(d)'
<1> DEFINE w == worker[d]
           x == worker'[d]
<1>0. /\ due' = due /\ due[d] \in BOOLEAN /\ late[d] \in Nat /\ x.at # "queued"
      /\ w \in Worker /\ w.secs \in Plan /\ (w.at \in Pacing => w.secs # <<>>)
  BY OneWorker, NotQueued DEF TypeOK, Worker, Stages
<1>1. ASSUME late'[d] = late[d], x.part = "main" /\ x.at \in Pacing /\ late[d] # 0
                                   => \/ x.at = "check" \/ (x.at = "nap" /\ Head(x.secs) = "glide")
                                      \/ x.at \in {"nap", "top"} /\ x.secs = <<"loop">>
      PROVE  LateIsLast(d)'
  BY <1>0, <1>1 DEF LateIsLast
<1>2. ASSUME due[d], w.part = "main", w.at \in {"top", "check"}, ~(w.at = "check" /\ w.secs = <<"loop">> /\ w.left > 1)
      PROVE  Cancelled(d)
  BY <1>0, <1>2 DEF DueIsSeen, Cancelled, Seen, Stages, Pacing, Worker
<1>3. CASE Enter(d)
  <2>1. late' = late /\ w.at \in {"queued", "enter"}
    BY <1>3 DEF Enter
  <2>2. x.at = "done" \/ x.part = w.part
    BY <1>3, EnterFacts, EndFacts
  <2> QED BY <1>1, <2>1, <2>2 DEF LateIsLast, Stages, Pacing
<1>4. CASE Frame(d)
  <2>1. /\ w.at = "frame"
        /\ x.at = (IF Head(w.secs) = "glide" THEN "nap" ELSE "check") /\ x.part = w.part /\ x.secs = w.secs
    BY <1>4, FrameFacts DEF Frame
  <2>2. late'[d] = IF due[d] /\ w.part = "main" THEN late[d] + 1 ELSE late[d]
    BY <1>4 DEF Frame, TypeOK
  <2> QED BY <1>0, <2>1, <2>2 DEF LateIsLast, Pacing
<1>5. CASE ~Enter(d) /\ ~Frame(d)
  <2>0. late' = late
    BY <1>5 DEF Drive, RunOnce, CheckPasses, CheckRaises, Wake, HoldEnds, Fail, history
  <2>1. CASE CheckPasses(d) \/ HoldEnds(d)
    <3>1. w.at \in {"top", "check"} /\ ~Cancelled(d)
      BY <2>1 DEF CheckPasses, HoldEnds
    <3>2. \/ late[d] = 0 \/ w.part # "main"
          \/ w.at = "check" /\ w.secs = <<"loop">> /\ Head(w.secs) = "loop" /\ CheckPasses(d)
      BY <1>2, <2>1, <3>1 DEF LateIsLast, HoldEnds
    <3>3. x.part = w.part
      BY <1>0, <2>1, <3>1, CheckPassesFacts, NextSectionFacts DEF HoldEnds, Pacing
    <3> QED BY <1>1, <2>0, <3>2, <3>3, CheckPassesFacts
  <2>5. CASE RunOnce(d)
    <3>1. late[d] = 0 \/ w.part # "main"
      BY <2>5, RunOnceFacts DEF LateIsLast, Pacing
    <3> QED BY <1>1, <2>0, <2>5, <3>1, RunOnceFacts
  <2>2. CASE CheckRaises(d)
    BY <1>1, <2>0, <2>2, CheckRaisesFacts, EndFacts DEF Pacing
  <2>3. CASE Wake(d)
    <3>1. w.at = "nap"
      BY <2>3 DEF Wake
    <3>2. CASE w.part = "main" /\ late[d] # 0
      <4>1. due[d] /\ Head(w.secs) \in {"glide", "loop"} /\ Len(w.secs) = 1 /\ w.left > 1
        <5>1. due[d] /\ Head(w.secs) \in {"glide", "loop"} /\ WillCheck(d)
          BY <3>1, <3>2 DEF LateIsLast, DueIsSeen, Pacing
        <5>2. Len(w.secs) = 1
          BY <1>0, <3>1, <5>1, PlanFacts DEF Pacing
        <5> QED BY <3>1, <5>1, <5>2 DEF WillCheck
      <4>2. x.secs = w.secs /\ (x.at = "check" \/ (x.at = "top" /\ Head(w.secs) = "loop"))
        BY <2>3, <4>1, WakeFacts, TurnFacts
      <4>3. Head(w.secs) = "loop" => w.secs = <<"loop">>
        BY <1>0, <3>1, PlanFacts DEF Pacing
      <4> QED BY <1>1, <2>0, <4>2, <4>3
    <3>3. CASE late[d] = 0
      BY <1>1, <2>0, <3>3
    <3>4. CASE w.part # "main"
      <4>1. x.part # "main" \/ x.at = "done"
        <5>1. CASE Returns(d)
          BY <3>4, <5>1, ReturnsFacts, EndFacts
        <5>2. CASE NextSection(d)
          BY <1>0, <3>1, <3>4, <5>2, NextSectionFacts DEF Pacing
        <5> QED BY <2>3, <3>4, <5>1, <5>2, WakeFacts
      <4> QED BY <1>1, <2>0, <4>1 DEF Pacing
    <3> QED BY <3>2, <3>3, <3>4
  <2>4. CASE Fail(d)
    BY <1>1, <2>0, <2>4, EndFacts DEF Fail, Pacing
  <2> QED BY <1>5, <2>1, <2>2, <2>3, <2>4, <2>5 DEF Drive
<1> QED BY <1>3, <1>4, <1>5

LEMMA LateStep ==
  ASSUME TypeOK, Locked, \A e \in Driver : Stages(worker[e]) /\ DueIsSeen(e) /\ LateIsLast(e),
         \A t \in Task : CallIsDue(t), [Next]_vars
  PROVE  \A e \in Driver : LateIsLast(e)'
<1>0. /\ Off.at = "off" /\ App \notin Task /\ Task \subseteq Driver /\ App \in Driver
      /\ \A e \in Driver : late[e] \in Nat /\ due[e] \in BOOLEAN
  BY WorkerFacts, ConstantsAssumption DEF Driver, TypeOK
<1>1. ASSUME NEW e \in Driver, late'[e] = late[e], due[e] => due'[e], worker'[e] = worker[e] \/ worker'[e] = Off
      PROVE  LateIsLast(e)'
  BY <1>0, <1>1 DEF LateIsLast, Pacing
<1>2. ASSUME NEW e \in Driver, late'[e] = 0 PROVE LateIsLast(e)'
  BY <1>2 DEF LateIsLast
<1>3. ASSUME NEW d \in Driver, Drive(d) \/ Fail(d), NEW e \in Driver PROVE LateIsLast(e)'
  <2>1. CASE e = d
    BY <1>3, <2>1, LateDrive
  <2>2. CASE e # d
    <3>1. worker'[e] = worker[e] /\ due' = due
      BY <1>3, <2>2, OneWorker DEF TypeOK
    <3>2. late' = late \/ late' = [late EXCEPT ![d] = @ + 1]
      BY <1>3 DEF Drive, Enter, RunOnce, Frame, CheckPasses, CheckRaises, Wake, HoldEnds, Fail, history
    <3>3. late'[e] = late[e]
      BY <2>2, <3>2 DEF TypeOK
    <3> QED BY <1>1, <3>1, <3>3
  <2> QED BY <2>1, <2>2
<1>4. ASSUME NEW seen, Bump(seen), worker' = worker, late' = late, NEW e \in Driver PROVE LateIsLast(e)'
  BY <1>1, <1>4, BumpFacts
<1>5. ASSUME NEW t \in Task, LoopStep(t), NEW e \in Driver PROVE LateIsLast(e)'
  <2>1. CASE Take(t)
    BY <1>1, <2>1 DEF Take, history
  <2>2. CASE Dispatch(t)
    <3>1. late' = late /\ due' = due
      BY <2>2 DEF Dispatch
    <3>2. CASE e = t /\ ~requested
      <4>1. late[t] = 0
        BY <1>0, <2>2, <3>2 DEF Dispatch, CallIsDue, LateIsLast
      <4> QED BY <1>2, <3>1, <3>2, <4>1
    <3>3. CASE e # t \/ requested
      <4>1. worker'[e] = worker[e]
        BY <2>2, <3>3 DEF Dispatch, Put, TypeOK
      <4> QED BY <1>1, <3>1, <4>1
    <3> QED BY <3>2, <3>3
  <2>3. CASE Return(t) \/ Drain(t)
    <3>1. late' = late /\ due' = due
      BY <2>3 DEF Return, Drain, Collect, history
    <3>2. worker'[e] = worker[e] \/ worker'[e] = Off
      BY <2>3 DEF Return, Drain, Collect, Put, TypeOK
    <3> QED BY <1>1, <3>1, <3>2
  <2>4. CASE Abandon(t)
    <3>1. worker' = worker /\ late' = late /\ (due' = due \/ Bump({}))
      BY <2>4 DEF Abandon
    <3> QED BY <1>1, <1>4, <3>1
  <2>5. CASE \E k \in ToolKind : Submit(t, k)
    <3>1. worker' = worker /\ (e # t => late'[e] = late[e] /\ due'[e] = due[e]) /\ (e = t => late'[e] = 0)
      BY <1>0, <2>5 DEF Submit, TypeOK
    <3> QED BY <1>1, <1>2, <3>1
  <2> QED BY <1>5, <2>1, <2>2, <2>3, <2>4, <2>5 DEF LoopStep
<1>6. ASSUME Cancel \/ CancelRunning, NEW e \in Driver PROVE LateIsLast(e)'
  BY <1>4, <1>6 DEF Cancel, CancelRunning
<1>7. ASSUME DirectReturns, NEW e \in Driver PROVE LateIsLast(e)'
  <2>1. late' = late /\ due' = due /\ (worker'[e] = worker[e] \/ worker'[e] = Off)
    BY <1>7 DEF DirectReturns, Put, TypeOK, history
  <2> QED BY <1>1, <2>1
<1>8. ASSUME \E k \in AppKind : Direct(k), NEW e \in Driver PROVE LateIsLast(e)'
  <2>1. /\ e # App => late'[e] = late[e] /\ due'[e] = due[e] /\ worker'[e] = worker[e]
        /\ e = App => late'[e] = 0
    BY <1>0, <1>8 DEF Direct, Put, TypeOK
  <2> QED BY <1>1, <1>2, <2>1
<1>9. ASSUME UNCHANGED vars, NEW e \in Driver PROVE LateIsLast(e)'
  BY <1>1, <1>9 DEF vars, history
<1> QED BY <1>3, <1>5, <1>6, <1>7, <1>8, <1>9 DEF Next, LoopStep

LEMMA IdleDrive ==
  ASSUME TypeOK, NEW d \in Driver, Stages(worker[d]), IdleAfter(d), Drive(d) \/ Fail(d)
  PROVE  IdleAfter(d)'
<1> DEFINE w == worker[d]
           x == worker'[d]
<1>0. kind' = kind /\ w.at \notin {"off", "done"} /\ (w.at \in Pacing => w.secs # <<>>)
  BY OneWorker DEF Stages
<1> SUFFICES ASSUME Moves(kind[d]) PROVE IdleAfter(d)'
  BY <1>0 DEF IdleAfter
<1>1. w.part # "main" => motion = "idle"
  BY <1>0 DEF IdleAfter
<1>2. ASSUME motion' = "idle" PROVE IdleAfter(d)'
  BY <1>2 DEF IdleAfter
<1>3. ASSUME x.at # "done", x.part = w.part, motion' = motion \/ motion' = "idle" PROVE IdleAfter(d)'
  BY <1>1, <1>3 DEF IdleAfter
<1>4. kind[d] \in {"motion", "dance", "track"}
  BY DEF Moves
<1>5. CASE Enter(d)
  <2>1. CASE w.part = "main"
    BY <1>4, <1>5, <2>1, EnterFacts, TurnFacts DEF IdleAfter
  <2>2. CASE w.part # "main"
    BY <1>1, <1>2, <1>5, <2>2 DEF Enter
  <2> QED BY <2>1, <2>2
<1>6. CASE Frame(d) \/ CheckPasses(d) \/ RunOnce(d)
  <2>1. motion' = motion
    BY <1>6 DEF Frame, CheckPasses, RunOnce
  <2> QED BY <1>3, <1>6, <2>1, FrameFacts, CheckPassesFacts, RunOnceFacts
<1>7. CASE CheckRaises(d)
  BY <1>1, <1>2, <1>4, <1>7 DEF CheckRaises
<1>8. CASE Returns(d)
  BY <1>2, <1>8 DEF Returns
<1>9. CASE NextSection(d) /\ w.at \in {"check", "nap"}
  <2>1. motion' = motion \/ motion' = "idle"
    BY <1>9 DEF NextSection
  <2> QED BY <1>0, <1>3, <1>9, <2>1, NextSectionFacts DEF Pacing
<1>10. CASE Wake(d)
  BY <1>3, <1>8, <1>9, <1>10, WakeFacts, TurnFacts DEF Wake
<1>11. CASE Fail(d)
  <2>1. CASE kind[d] # "dance"
    BY <1>2, <1>4, <1>11, <2>1 DEF Fail
  <2>2. CASE kind[d] = "dance"
    <3>1. motion' = motion /\ x.at = "done" /\ x.end = "error" /\ x.part = w.part
      BY <1>11, <2>2, EndFacts DEF Fail
    <3> QED BY <1>0, <1>1, <2>2, <3>1 DEF IdleAfter
  <2> QED BY <2>1, <2>2
<1> QED BY <1>5, <1>6, <1>7, <1>9, <1>10, <1>11 DEF Drive, HoldEnds

LEMMA IdleStep ==
  ASSUME TypeOK, Locked, \A e \in Driver : Stages(worker[e]) /\ IdleAfter(e), [Next]_vars
  PROVE  \A e \in Driver : IdleAfter(e)'
<1>0. /\ Off.at = "off" /\ Queued.at = "queued" /\ Queued.part = "main"
      /\ App \notin Task /\ Task \subseteq Driver /\ App \in Driver
  BY WorkerFacts, ConstantsAssumption DEF Driver
<1>1. ASSUME NEW e \in Driver, worker'[e] \in {Off, Queued} \/ worker'[e].at = "off" PROVE IdleAfter(e)'
  BY <1>0, <1>1 DEF IdleAfter
<1>2. ASSUME NEW e \in Driver, worker'[e] = worker[e], kind'[e] = kind[e], motion' = motion PROVE IdleAfter(e)'
  BY <1>2 DEF IdleAfter
<1>3. ASSUME NEW d \in Driver, Drive(d) \/ Fail(d), NEW e \in Driver PROVE IdleAfter(e)'
  <2>1. CASE e = d
    BY <1>3, <2>1, IdleDrive
  <2>2. CASE e # d
    <3>1. worker'[e] = worker[e] /\ worker[e].at = "off"
      BY <1>3, <2>2, OneWorker, Alone DEF TypeOK
    <3> QED BY <1>1, <3>1
  <2> QED BY <2>1, <2>2
<1>4. ASSUME NEW t \in Task, LoopStep(t), NEW e \in Driver PROVE IdleAfter(e)'
  <2>1. motion' = motion
    BY <1>4 DEF LoopStep, Take, Dispatch, Return, Abandon, Drain, Submit, Collect
  <2>2. CASE \E k \in ToolKind : Submit(t, k)
    <3>1. worker' = worker /\ worker[t].at = "off" /\ (e # t => kind'[e] = kind[e])
      BY <2>2 DEF Submit, Locked, TypeOK
    <3> QED BY <1>1, <1>2, <2>1, <3>1
  <2>3. CASE ~ \E k \in ToolKind : Submit(t, k)
    <3>1. kind' = kind
      BY <1>4, <2>3 DEF LoopStep, Take, Dispatch, Return, Abandon, Drain, Collect
    <3>2. worker'[e] = worker[e] \/ worker'[e] \in {Off, Queued}
      BY <1>4 DEF LoopStep, Take, Dispatch, Return, Abandon, Drain, Submit, Collect, Put, TypeOK
    <3> QED BY <1>1, <1>2, <2>1, <3>1, <3>2
  <2> QED BY <2>2, <2>3
<1>5. ASSUME Cancel \/ CancelRunning \/ UNCHANGED vars, NEW e \in Driver PROVE IdleAfter(e)'
  BY <1>2, <1>5 DEF Cancel, CancelRunning, vars
<1>6. ASSUME DirectReturns \/ (\E k \in AppKind : Direct(k)), NEW e \in Driver PROVE IdleAfter(e)'
  <2>1. motion' = motion /\ (e # App => worker'[e] = worker[e] /\ kind'[e] = kind[e])
    BY <1>6 DEF DirectReturns, Direct, Put, TypeOK
  <2>2. e = App => worker'[e] \in {Off, Queued}
    BY <1>0, <1>6 DEF DirectReturns, Direct, Put, TypeOK
  <2> QED BY <1>1, <1>2, <2>1, <2>2
<1> QED BY <1>3, <1>4, <1>5, <1>6 DEF Next, LoopStep

-----------------------------------------------------------------------------
(* The theorems                                                            *)

LEMMA InitInv == Init => IInv
<1> SUFFICES ASSUME Init PROVE IInv
  OBVIOUS
<1>0. /\ None \notin Nat /\ None # "ok" /\ Off \in Worker /\ Off.at = "off" /\ Off.part = "main" /\ Off.end = None
  BY WorkerFacts, ConstantsAssumption
<1>1. TypeOK
  <2>1. queue \in Seq(Task) /\ count \in Nat
    BY DEF Init
  <2>2. /\ armed \in Nat \cup {None} /\ motion \in {"idle", "moving"}
        /\ holder \in Task \cup {None} /\ requested \in BOOLEAN
    BY DEF Init
  <2>3. /\ call \in [Task -> {"out", "waiting", "checking", "awaiting", "draining"}]
        /\ kind \in [Driver -> ToolKind \cup AppKind \cup {"still"}]
        /\ result \in [Driver -> {None, "ok", "interrupted", "error", "cancelled"}]
        /\ worker \in [Driver -> Worker]
        /\ base \in [Driver -> Nat] /\ due \in [Driver -> BOOLEAN] /\ late \in [Driver -> Nat]
    BY <1>0 DEF Init
  <2> QED BY <2>1, <2>2, <2>3 DEF TypeOK
<1>2. \A d \in Driver : worker[d] = Off /\ ~due[d] /\ late[d] = 0 /\ base[d] = 0 /\ result[d] = None
  BY DEF Init
<1>3. count = 0 /\ armed = None /\ holder = None /\ \A t \in Task : call[t] = "out" /\ t \in Driver
  BY DEF Init, Driver
<1>4. Locked /\ ArmedIsOurs
  BY <1>0, <1>2, <1>3 DEF Locked, ArmedIsOurs, Driver
<1>5. ASSUME NEW d \in Driver
      PROVE  Stages(worker[d]) /\ Based(d) /\ DueIsSeen(d) /\ LateIsLast(d) /\ IdleAfter(d)
  BY <1>0, <1>2, <1>3, <1>5, ConstantsAssumption DEF Stages, Based, DueIsSeen, LateIsLast, IdleAfter, Pacing
<1>6. \A t \in Task : CallIsDue(t)
  BY <1>2, <1>3 DEF CallIsDue
<1> QED BY <1>1, <1>4, <1>5, <1>6 DEF IInv

LEMMA StepInv == IInv /\ [Next]_vars => IInv'
<1> SUFFICES ASSUME IInv, [Next]_vars PROVE IInv'
  OBVIOUS
<1>1. /\ TypeOK /\ Locked /\ ArmedIsOurs /\ \A t \in Task : CallIsDue(t)
      /\ \A d \in Driver : Stages(worker[d]) /\ Based(d) /\ DueIsSeen(d) /\ LateIsLast(d) /\ IdleAfter(d)
  BY DEF IInv
<1>2. TypeOK' /\ \A e \in Driver : Stages(worker[e])'
  BY <1>1, TypeStep
<1>3. Locked' /\ ArmedIsOurs'
  BY <1>1, LockStep, ArmedStep
<1>4. \A e \in Driver : Based(e)'
  BY <1>1, BasedStep
<1>5. (\A e \in Driver : DueIsSeen(e)') /\ \A t \in Task : CallIsDue(t)'
  BY <1>1, DueStep, CallStep
<1>6. \A e \in Driver : LateIsLast(e)'
  BY <1>1, LateStep
<1>7. \A e \in Driver : IdleAfter(e)'
  BY <1>1, IdleStep
<1> QED BY <1>2, <1>3, <1>4, <1>5, <1>6, <1>7 DEF IInv

LEMMA Inductive == Spec => []IInv
BY InitInv, StepInv, PTL DEF Spec

(* The types hold for every set of tasks, tools and bounds. *)
THEOREM TypeCorrect == Spec => []TypeOK
<1>1. IInv => TypeOK
  BY DEF IInv
<1> QED BY <1>1, Inductive, PTL

(* No two blocking calls ever drive the robot together.                    *)
THEOREM OnlyOneDrives == Spec => []OneDriver
<1>1. IInv => OneDriver
  BY Alone DEF IInv, OneDriver, Active
<1> QED BY <1>1, Inductive, PTL

(* A call is interrupted only by a request made for it.                    *)
THEOREM NoStrayInterrupt == Spec => []InterruptedOnRequest
<1>1. IInv => InterruptedOnRequest
  BY DEF IInv, InterruptedOnRequest, Based
<1> QED BY <1>1, Inductive, PTL

(* A request that a later check of the call can see is not lost.           *)
THEOREM RequestsCount == Spec => []NoRequestIsLost
<1>1. IInv => NoRequestIsLost
  BY DEF IInv, NoRequestIsLost, DueIsSeen
<1> QED BY <1>1, Inductive, PTL

(* At most one frame of the motion is written after such a request.        *)
THEOREM OneFrameLate == Spec => []StopsPromptly
<1>1. ASSUME IInv, NEW d \in Driver PROVE late[d] <= 1
  <2>1. late[d] \in Nat /\ LateIsLast(d)
    BY <1>1 DEF IInv, TypeOK
  <2> QED BY <2>1 DEF LateIsLast
<1>2. IInv => StopsPromptly
  BY <1>1 DEF StopsPromptly
<1> QED BY <1>2, Inductive, PTL

(* However a motion ends, the engine is left in IDLE.                      *)
THEOREM MotionsEndIdle == Spec => []EndsIdle
<1>1. IInv => EndsIdle
  BY DEF IInv, EndsIdle, IdleAfter
<1> QED BY <1>1, Inductive, PTL

(* The two together, for every number of tasks, frames and cancels. *)
THEOREM Safe == Spec => []Safety
BY TypeCorrect, OnlyOneDrives, MotionsEndIdle, PTL DEF Safety
=============================================================================
