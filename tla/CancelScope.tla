---------------------------- MODULE CancelScope ----------------------------
(***************************************************************************)
(* Cancellation of blocking robot calls: the counter and snapshots of      *)
(* robot.py, the paced calls that compare them, and AgentToolSet.call,     *)
(* which runs a tool on a worker thread under an asyncio lock.             *)
(***************************************************************************)
EXTENDS Integers, Sequences

CONSTANTS
  Task,        (* asyncio tasks that call tools                            *)
  App,         (* the application's own blocking calls, on the event loop  *)
  ToolKind,    (* kinds of tools the tasks call                            *)
  AppKind,     (* kinds of paced calls the application makes               *)
  MaxFrames,   (* bound: frames of a section                               *)
  MaxCancels,  (* bound: cancel() calls                                    *)
  None

(* motion: _run_motion.  look: a run of its own.  follow: a loop of its    *)
(* own over run(steps=1).  still: never paces.  bad: does not validate.    *)
(* dance: perform_dance.  track: play_keyframes.                           *)
ASSUME ConstantsAssumption ==
  /\ App \notin Task
  /\ ToolKind \subseteq {"motion", "look", "follow", "still", "bad"}
  /\ AppKind \subseteq {"look", "dance", "track"}
  /\ MaxFrames \in Nat \ {0}
  /\ MaxCancels \in Nat
  /\ None \notin Nat /\ None \notin Task /\ None \notin {"ok", "interrupted", "error"}

Driver == Task \cup {App}

VARIABLES
  count, armed,  (* _cancel_count, _armed_snapshot                         *)
  motion,        (* whether the engine's motion is idle or moving          *)
  holder, queue, (* the holder of _call_lock and the tasks waiting for it  *)
  requested,     (* _cancel_requested                                      *)
  call,          (* [Task -> where its call() is]                          *)
  kind,          (* [Driver -> kind of its last call]                      *)
  result,        (* [Driver -> how its last call ended, or None]           *)
  worker         (* [Driver -> the blocking code that drives the robot]    *)

(* History: the count when the call was armed, or entered if it never is;  *)
(* whether a cancel has landed that a later check of the call must see;    *)
(* the frames its motion has written since.                                *)
VARIABLES base, due, late

scope == <<count, armed>>
loop == <<holder, queue, requested, call>>
history == <<base, due, late>>
vars == <<scope, motion, loop, kind, result, worker, history>>

(* A worker: at, where it is; part, the motion itself or the run of IDLE   *)
(* that follows it ("settle") or follows its cancel ("relax"); secs, the   *)
(* sections left of the paced call, left of whose first is left to do;     *)
(* snap and inner, the snapshots its checks compare; and how it ended.     *)
At == {"off", "queued", "enter", "top", "aim", "frame", "check", "nap", "done"}
Plan == {<<>>, <<"pace">>, <<"loop">>, <<"glide">>, <<"hold", "glide">>, <<"pace", "hold", "glide">>}
Worker ==
  [at : At, part : {"main", "settle", "relax"}, secs : Plan, left : Nat,
   snap : Nat, inner : Nat, end : {None, "ok", "interrupted", "error"}]

Off == [at |-> "off", part |-> "main", secs |-> <<>>, left |-> 0,
        snap |-> 0, inner |-> 0, end |-> None]

Queued == [Off EXCEPT !.at = "queued"]

Sections(k, part) ==
  IF part # "main" THEN <<"pace">>
  ELSE IF k = "dance" THEN <<"pace", "hold", "glide">>
  ELSE IF k = "follow" THEN <<"loop">>
  ELSE <<"pace">>

(* Where a section's turn begins: pace writes before it checks, the hold   *)
(* and the glide check first, the loop checks its own checkpoint first.    *)
Turn(sec) == IF sec = "pace" THEN "frame" ELSE IF sec = "loop" THEN "top" ELSE "check"

Moves(k) == k \in {"motion", "dance", "track"}

Active(d) == worker[d].at \notin {"off", "done"}
LoopFree == worker[App].at = "off"

Init ==
  /\ count = 0 /\ armed = None
  /\ motion = "idle"
  /\ holder = None /\ queue = <<>> /\ requested = FALSE
  /\ call = [t \in Task |-> "out"]
  /\ kind = [d \in Driver |-> "still"]
  /\ result = [d \in Driver |-> None]
  /\ worker = [d \in Driver |-> Off]
  /\ base = [d \in Driver |-> 0]
  /\ due = [d \in Driver |-> FALSE]
  /\ late = [d \in Driver |-> 0]

-----------------------------------------------------------------------------
(* robot.py: the paced calls                                               *)

Put(d, w) == worker' = [worker EXCEPT ![d] = w]

End(d, how) == Put(d, [worker[d] EXCEPT !.at = "done", !.end = how])

MSnapshot == count

(* _take_cancel_snapshot: an armed baseline is consumed once. *)
Snapshot == IF armed # None THEN armed ELSE count

(* The thread reaches a paced call, or returns from a tool that has none.  *)
Enter(d) ==
  LET w == worker[d] IN
  /\ w.at \in {"queued", "enter"}
  /\ IF kind[d] = "still"
     THEN /\ End(d, "ok")
          /\ UNCHANGED <<armed, motion, base>>
     ELSE \E n \in 1..MaxFrames :
          LET secs == Sections(kind[d], w.part) IN
          /\ Put(d, [w EXCEPT !.at = Turn(Head(secs)), !.secs = secs, !.left = n,
                              !.snap = Snapshot, !.inner = Snapshot])
          /\ armed' = None
          /\ motion' = IF w.part = "main" /\ Moves(kind[d]) THEN "moving" ELSE motion
          /\ base' = IF d = App /\ w.part = "main" THEN [base EXCEPT ![d] = count] ELSE base
  /\ UNCHANGED <<count, loop, kind, result, due, late>>

MFrame(d) ==
  /\ worker[d].at = "frame"
  /\ Put(d, [worker[d] EXCEPT !.at = IF Head(worker[d].secs) = "glide" \/ worker[d].left > 1
                                     THEN "nap" ELSE "check"])
  /\ late' = IF due[d] /\ worker[d].part = "main" THEN [late EXCEPT ![d] = @ + 1] ELSE late
  /\ UNCHANGED <<scope, motion, loop, kind, result, base, due>>

(* step() computes a frame and writes it to the driver. *)
Frame(d) ==
  /\ worker[d].at = "frame"
  /\ Put(d, [worker[d] EXCEPT !.at = IF Head(worker[d].secs) = "glide" THEN "nap" ELSE "check"])
  /\ late' = IF due[d] /\ worker[d].part = "main" THEN [late EXCEPT ![d] = @ + 1] ELSE late
  /\ UNCHANGED <<scope, motion, loop, kind, result, base, due>>

MFail(d) ==
  /\ worker[d].at = "frame"
  /\ End(d, "error")
  /\ UNCHANGED <<scope, motion, loop, kind, result, history>>

(* The write fails: _run_motion and the keyframe generator stop the motion *)
(* on the way out, perform_dance does not.                                 *)
Fail(d) ==
  /\ worker[d].at = "frame"
  /\ End(d, "error")
  /\ motion' = IF kind[d] \in {"motion", "track"} THEN "idle" ELSE motion
  /\ UNCHANGED <<scope, loop, kind, result, history>>

(* _check_cancelled.  The loop's top compares its checkpoint, its run the  *)
(* snapshot of its own entry.                                              *)
Cancelled(d) == count > IF worker[d].at = "top" THEN worker[d].snap ELSE worker[d].inner

MCheckPasses(d) ==
  LET w == worker[d] IN
  /\ w.at \in {"top", "check"}
  /\ ~Cancelled(d)
  /\ IF w.at = "top"
     THEN Put(d, [w EXCEPT !.at = "aim"])
     ELSE Put(d, [w EXCEPT !.at = IF Head(w.secs) = "glide" THEN "frame" ELSE "nap"])
  /\ UNCHANGED <<scope, motion, loop, kind, result, history>>

CheckPasses(d) ==
  LET w == worker[d] IN
  /\ w.at \in {"top", "check"}
  /\ ~Cancelled(d)
  /\ Head(w.secs) = "hold" => w.left > 0
  /\ IF w.at = "top"
     THEN Put(d, [w EXCEPT !.at = "aim"])
     ELSE Put(d, [w EXCEPT !.at = IF Head(w.secs) = "glide" THEN "frame" ELSE "nap"])
  /\ UNCHANGED <<scope, motion, loop, kind, result, history>>

(* The loop has looked for a face and calls run(steps=1), whose snapshot   *)
(* is taken at its own entry.                                              *)
RunOnce(d) ==
  LET w == worker[d] IN
  /\ w.at = "aim"
  /\ Put(d, [w EXCEPT !.at = "frame", !.inner = count])
  /\ UNCHANGED <<scope, motion, loop, kind, result, history>>

(* MotionCancelled is raised.  The motions stop and run IDLE for a while,  *)
(* which a further cancel ends; then it is raised again.                   *)
CheckRaises(d) ==
  LET w == worker[d]
      relaxes == w.part = "main" /\ kind[d] # "look"
  IN
  /\ w.at \in {"top", "check"}
  /\ Cancelled(d)
  /\ IF relaxes THEN Put(d, [w EXCEPT !.at = "enter", !.part = "relax"])
                ELSE End(d, "interrupted")
  /\ motion' = IF relaxes /\ Moves(kind[d]) THEN "idle" ELSE motion
  /\ UNCHANGED <<scope, loop, kind, result, history>>

(* The section has no turn left: the next one, or the call returns.        *)
Returns(d) ==
  LET w == worker[d] IN
  /\ Len(w.secs) = 1
  /\ IF w.part = "main" /\ kind[d] \in {"motion", "follow"}
     THEN Put(d, [w EXCEPT !.at = "enter", !.part = "settle"])
     ELSE End(d, IF w.part = "relax" THEN "interrupted" ELSE "ok")
  /\ motion' = IF Moves(kind[d]) THEN "idle" ELSE motion

NextSection(d) ==
  LET w == worker[d]
      rest == Tail(w.secs)
  IN
  /\ Len(w.secs) > 1
  /\ \E n \in 1..MaxFrames :
       Put(d, [w EXCEPT !.at = Turn(Head(rest)), !.secs = rest, !.left = n])
  /\ motion' = IF Head(rest) = "glide" THEN "idle" ELSE motion

(* The sleep to the next frame's deadline is over. *)
Wake(d) ==
  LET w == worker[d] IN
  /\ w.at = "nap"
  /\ IF w.left > 1 \/ Head(w.secs) = "hold"
     THEN /\ Put(d, [w EXCEPT !.at = Turn(Head(w.secs)), !.left = w.left - 1])
          /\ UNCHANGED motion
     ELSE Returns(d) \/ NextSection(d)
  /\ UNCHANGED <<scope, loop, kind, result, history>>

(* _sleep_cancellable checks once more after its last sleep. *)
HoldEnds(d) ==
  LET w == worker[d] IN
  /\ w.at = "check" /\ ~Cancelled(d)
  /\ Head(w.secs) = "hold" /\ w.left = 0
  /\ NextSection(d)
  /\ UNCHANGED <<scope, loop, kind, result, history>>

Drive(d) ==
  Enter(d) \/ RunOnce(d) \/ Frame(d) \/ CheckPasses(d) \/ CheckRaises(d) \/ Wake(d) \/ HoldEnds(d)

(* The code ahead of worker d has a check of its motion left.              *)
WillCheck(d) ==
  LET w == worker[d] IN
  /\ w.part = "main" /\ kind[d] # "still"
  /\ \/ w.at = "queued" /\ d # App
     \/ w.at \in {"top", "check"}
     \/ w.at = "frame" /\ Head(w.secs) # "glide"
     \/ /\ w.at \in {"aim", "frame", "nap"}
        /\ w.left > 1 \/ Len(w.secs) > 1

(* cancel(): count up, under a lock of its own. *)
Bump(seen) ==
  /\ count' = count + 1
  /\ due' = [d \in Driver |-> due[d] \/ WillCheck(d) \/ d \in seen]

(* Another thread calls robot.cancel(). *)
Cancel ==
  /\ count < MaxCancels
  /\ Bump({})
  /\ UNCHANGED <<armed, motion, loop, kind, result, worker, base, late>>

-----------------------------------------------------------------------------
(* The application's own paced calls.  They block the event loop, and are  *)
(* made only when no tool call is in flight.                               *)

Direct(k) ==
  /\ LoopFree /\ holder = None
  /\ Put(App, Queued)
  /\ kind' = [kind EXCEPT ![App] = k]
  /\ result' = [result EXCEPT ![App] = None]
  /\ due' = [due EXCEPT ![App] = FALSE]
  /\ late' = [late EXCEPT ![App] = 0]
  /\ UNCHANGED <<scope, motion, loop, base>>

DirectReturns ==
  /\ worker[App].at = "done"
  /\ result' = [result EXCEPT ![App] = worker[App].end]
  /\ Put(App, Off)
  /\ UNCHANGED <<scope, motion, loop, kind, history>>

-----------------------------------------------------------------------------
(* agent/toolset.py                                                        *)

Submit(t, k) ==
  /\ LoopFree
  /\ call[t] = "out"
  /\ call' = [call EXCEPT ![t] = "waiting"]
  /\ queue' = Append(queue, t)
  /\ kind' = [kind EXCEPT ![t] = k]
  /\ result' = [result EXCEPT ![t] = None]
  /\ due' = [due EXCEPT ![t] = FALSE]
  /\ late' = [late EXCEPT ![t] = 0]
  /\ UNCHANGED <<scope, motion, holder, requested, worker, base>>

(* The call ends and the lock is released. *)
Leave(t, how) ==
  /\ holder' = None
  /\ call' = [call EXCEPT ![t] = "out"]
  /\ result' = [result EXCEPT ![t] = how]

MTake(t) ==
  /\ LoopFree
  /\ call[t] = "waiting"
  /\ holder = None /\ queue # <<>> /\ Head(queue) = t
  /\ queue' = Tail(queue)
  /\ requested' = FALSE
  /\ holder' = t
  /\ IF kind[t] = "bad"
     THEN /\ call' = [call EXCEPT ![t] = "out"]
          /\ result' = [result EXCEPT ![t] = "error"]
     ELSE /\ call' = [call EXCEPT ![t] = "checking"]
          /\ UNCHANGED result
  /\ UNCHANGED <<scope, motion, kind, worker, history>>

(* The lock is granted; arguments that do not validate end the call.       *)
Take(t) ==
  /\ LoopFree
  /\ call[t] = "waiting"
  /\ holder = None /\ queue # <<>> /\ Head(queue) = t
  /\ queue' = Tail(queue)
  /\ requested' = FALSE
  /\ IF kind[t] = "bad"
     THEN Leave(t, "error")
     ELSE /\ holder' = t
          /\ call' = [call EXCEPT ![t] = "checking"]
          /\ UNCHANGED result
  /\ UNCHANGED <<scope, motion, kind, worker, history>>

(* After sleep(0): the call has been cancelled, or arms and hands over.    *)
Dispatch(t) ==
  /\ LoopFree
  /\ call[t] = "checking"
  /\ IF requested
     THEN /\ Leave(t, "interrupted")
          /\ UNCHANGED <<armed, worker, base>>
     ELSE /\ armed' = count
          /\ base' = [base EXCEPT ![t] = count]
          /\ Put(t, Queued)
          /\ call' = [call EXCEPT ![t] = "awaiting"]
          /\ UNCHANGED <<holder, result>>
  /\ UNCHANGED <<count, motion, queue, requested, kind, due, late>>

MCollect(t, how) ==
  /\ worker[t].at = "done"
  /\ Leave(t, how)
  /\ Put(t, Off)
  /\ UNCHANGED <<scope, motion, queue, requested, kind, history>>

(* _disarm_cancel_scope, in the finally of the call. *)
Collect(t, how) ==
  /\ worker[t].at = "done"
  /\ Leave(t, how)
  /\ armed' = None
  /\ Put(t, Off)
  /\ UNCHANGED <<count, motion, queue, requested, kind, history>>

Return(t) == LoopFree /\ call[t] = "awaiting" /\ Collect(t, worker[t].end)

MAbandon(t) ==
  /\ LoopFree
  /\ \/ /\ call[t] = "waiting"
        /\ \E i \in 1..Len(queue) :
             /\ queue[i] = t
             /\ queue' = SubSeq(queue, 1, i - 1) \o SubSeq(queue, i + 1, Len(queue))
        /\ call' = [call EXCEPT ![t] = "out"]
        /\ result' = [result EXCEPT ![t] = "cancelled"]
        /\ UNCHANGED <<scope, holder, due>>
     \/ /\ call[t] = "checking"
        /\ Leave(t, "cancelled")
        /\ UNCHANGED <<scope, queue, due>>
     \/ /\ call[t] = "awaiting" /\ count < MaxCancels
        /\ Bump({})
        /\ Leave(t, "cancelled")
        /\ armed' = None
        /\ UNCHANGED queue
  /\ UNCHANGED <<motion, requested, kind, worker, base, late>>

(* The task itself is cancelled at an await of call().  A tool that runs   *)
(* is cancelled and waited for; later cancellations of the task then do    *)
(* nothing.                                                                *)
Abandon(t) ==
  /\ LoopFree
  /\ \/ /\ call[t] = "waiting"
        /\ \E i \in 1..Len(queue) :
             /\ queue[i] = t
             /\ queue' = SubSeq(queue, 1, i - 1) \o SubSeq(queue, i + 1, Len(queue))
        /\ call' = [call EXCEPT ![t] = "out"]
        /\ result' = [result EXCEPT ![t] = "cancelled"]
        /\ UNCHANGED <<count, holder, due>>
     \/ /\ call[t] = "checking"
        /\ Leave(t, "cancelled")
        /\ UNCHANGED <<count, queue, due>>
     \/ /\ call[t] = "awaiting" /\ count < MaxCancels
        /\ Bump({})
        /\ call' = [call EXCEPT ![t] = "draining"]
        /\ UNCHANGED <<holder, queue, result>>
  /\ UNCHANGED <<armed, motion, requested, kind, worker, base, late>>

Drain(t) == LoopFree /\ call[t] = "draining" /\ Collect(t, "cancelled")

(* cancel_running(); with no call in flight it cancels nothing. *)
CancelRunning ==
  /\ LoopFree
  /\ holder # None /\ count < MaxCancels
  /\ requested' = TRUE
  /\ Bump(IF call[holder] = "checking" THEN {holder} ELSE {})
  /\ UNCHANGED <<armed, motion, holder, queue, call, kind, result, worker, base, late>>

Next ==
  \/ Cancel \/ CancelRunning
  \/ DirectReturns
  \/ \E k \in AppKind : Direct(k)
  \/ \E d \in Driver : Drive(d) \/ Fail(d)
  \/ \E t \in Task :
       \/ Take(t) \/ Dispatch(t) \/ Return(t) \/ Abandon(t) \/ Drain(t)
       \/ \E k \in ToolKind : Submit(t, k)

Spec == Init /\ [][Next]_vars

-----------------------------------------------------------------------------
(* The next callback of task t's call that the event loop is to run.       *)
Serve(t) == Take(t) \/ Dispatch(t) \/ Return(t) \/ Drain(t)

(* Fairness: the threads run, and the event loop serves each of its ready  *)
(* callbacks in turn, so one that is ready again and again is served too.  *)
(* Nobody has to call, to cancel or to fail.                               *)
Fairness ==
  /\ WF_vars(Drive(App) \/ DirectReturns)
  /\ \A t \in Task : WF_vars(Drive(t)) /\ SF_vars(Serve(t))

FairSpec == Spec /\ Fairness

-----------------------------------------------------------------------------
(* Properties                                                              *)

TypeOK ==
  /\ count \in Nat /\ armed \in Nat \cup {None}
  /\ motion \in {"idle", "moving"}
  /\ holder \in Task \cup {None} /\ queue \in Seq(Task) /\ requested \in BOOLEAN
  /\ call \in [Task -> {"out", "waiting", "checking", "awaiting", "draining"}]
  /\ kind \in [Driver -> ToolKind \cup AppKind \cup {"still"}]
  /\ result \in [Driver -> {None, "ok", "interrupted", "error", "cancelled"}]
  /\ worker \in [Driver -> Worker]
  /\ base \in [Driver -> Nat]
  /\ due \in [Driver -> BOOLEAN]
  /\ late \in [Driver -> Nat]

(* The facade assumes one thread at a time: however calls, cancellations   *)
(* of the calling tasks and slow tools interleave, no two blocking calls   *)
(* ever drive the robot together (toolset.py call: a cancelled task waits  *)
(* for its worker before the lock goes on).                                *)
OneDriver == \A d, e \in Driver : Active(d) /\ Active(e) => d = e

(* A request does not reach a call it was not made for: a call ends as     *)
(* interrupted only when cancel() ran after it was armed or, for a paced   *)
(* call nobody armed, after its entry (robot.py _take_cancel_snapshot,     *)
(* _disarm_cancel_scope).                                                  *)
InterruptedOnRequest ==
  \A d \in Driver : worker[d].at = "done" /\ worker[d].end = "interrupted" => count > base[d]

(* A request that lands before the call's dispatch, before its thread      *)
(* reaches the paced entry, or while its motion has a check left, is not   *)
(* lost: the call does not end as if nothing had been asked.               *)
NoRequestIsLost == \A d \in Driver : result[d] = "ok" => ~due[d]

(* After such a request the motion writes at most one more frame.          *)
StopsPromptly == \A d \in Driver : late[d] <= 1

(* However a motion ends, by itself, by a cancel at any frame of it or of  *)
(* the IDLE run after it, or by a failed write, the engine is left in      *)
(* IDLE.  A dance whose write fails is the exception (perform_dance has a  *)
(* handler for MotionCancelled only).                                      *)
EndsIdle ==
  \A d \in Driver :
    worker[d].at = "done" /\ Moves(kind[d]) /\ (kind[d] = "dance" => worker[d].end # "error")
      => motion = "idle"

(* One thread drives the robot at a time, and leaves it at rest.           *)
Safety == TypeOK /\ OneDriver /\ EndsIdle

(* Every tool call returns, cancelled or not, and the lock moves on.       *)
EveryCallReturns == \A t \in Task : call[t] = "waiting" ~> call[t] = "out"

(* robot.py cancel(): "a cancel() delivered at any point between a paced   *)
(* method's entry and its return is guaranteed to raise MotionCancelled    *)
(* inside that call".                                                      *)
NoPacedCallIsDeaf ==
  [][\A d \in Driver :
       worker[d].at = "nap" /\ worker'[d].at \in {"done", "enter"}
         => count = worker[d].inner]_vars

(* agent/toolset.py call(): "Cancellation coverage is gapless across the   *)
(* call": one that lands mid-motion "raises MotionCancelled at the next    *)
(* frame boundary".  The IDLE run after a cancel is not meant.             *)
GaplessAcrossCall ==
  [][\A t \in Task :
       /\ worker[t].at = "check" /\ worker'[t].at = "nap"
       /\ worker[t].part # "relax"
       => count = base[t]]_vars
=============================================================================
