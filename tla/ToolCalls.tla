------------------------------- MODULE ToolCalls -------------------------------
(***************************************************************************)
(* AgentToolSet.call as the companion's tasks see it: a lock that          *)
(* serialises callers in the order they came, one checkpoint before the    *)
(* worker thread starts, the stages of the tool's execute(), and           *)
(* cancel_running(), which any task may call at any time.                  *)
(*                                                                         *)
(* What a tool does to the robot is its sequence of stages.  A `glide' is  *)
(* motion that no cancellation interrupts, a `body' is paced and raises    *)
(* MotionCancelled at its next frame, a `tail' is what remains after the   *)
(* last frame (a photograph, a face) and notices nothing.                  *)
(***************************************************************************)
EXTENDS Naturals, Sequences

CONSTANTS
    Caller,           \* the tasks that call tools
    FaceMayFail,      \* whether the face display may raise during `sleep'
    None              \* no tool, no result, nobody

VARIABLES
    call,          \* AgentToolSet.call in flight: [stage, tool, result] by caller
    holder,        \* who holds _call_lock
    line,          \* who waits for _call_lock
    requested,     \* _cancel_requested
    aborted,       \* Palmimo.cancel() reached the running tool's armed scope
    limp           \* whether the robot lies limp

toolset == <<call, holder, line, requested, aborted>>

Tool == {"sleep", "wake_up", "roam", "glance"}
LongRunning == {"wake_up", "roam"}
Executing == {"glide", "body", "tail"}
Stage == {"queued", "checkpoint", "returned", "done"} \cup Executing
Result == {"ok", "error", "interrupted"}
ToolsAssumption == None \notin Caller /\ None \notin Tool \cup Stage \cup Result

Resting == [stage |-> None, tool |-> None, result |-> None]

\* The stages of a tool's execute(): Sleep glides down and shows a face,
\* WakeUp glides up and then stretches, a roaming tool is paced motion and
\* then perhaps a photograph.
First(tool) == CASE tool \in {"sleep", "wake_up"} -> "glide" [] tool = "roam" -> "body" [] OTHER -> "tail"
After(tool, stage) == IF stage = "glide" /\ tool = "wake_up" THEN "body" ELSE "tail"

ToolsInit ==
    /\ call = [c \in Caller |-> Resting] /\ holder = None /\ line = <<>>
    /\ requested = FALSE /\ aborted = FALSE /\ limp = FALSE

Busy == holder # None

\* cancel_running: speech stops; a busy tool set is asked to abort its call.
\* The armed scope turns a request during a glide into an exception at the
\* first paced frame after it.
CancelRunning ==
    /\ requested' = (requested \/ Busy)
    /\ aborted' = (aborted \/ (Busy /\ call[holder].stage \in {"glide", "body"}))
    /\ UNCHANGED <<call, holder, line>>

\* The lock is free and c is first in it, or c waits its turn.
Taken(calls, c, tool) == [calls EXCEPT ![c] = [stage |-> "checkpoint", tool |-> tool, result |-> None]]
Queued(calls, c, tool) == [calls EXCEPT ![c] = [stage |-> "queued", tool |-> tool, result |-> None]]

\* call(): a free lock nobody waits for is taken at once.
Enter(c, tool) ==
    IF holder = None /\ line = <<>>
    THEN /\ holder' = c /\ requested' = FALSE
         /\ call' = Taken(call, c, tool)
         /\ UNCHANGED <<line, aborted>>
    ELSE /\ line' = Append(line, c)
         /\ call' = Queued(call, c, tool)
         /\ UNCHANGED <<holder, requested, aborted>>

\* The lock passes to the caller who has waited longest, in a step of its own:
\* between the release and this one the tool set is not busy.
Granted ==
    /\ holder = None /\ line # <<>>
    /\ holder' = Head(line) /\ line' = Tail(line) /\ requested' = FALSE
    /\ call' = [call EXCEPT ![Head(line)].stage = "checkpoint"]
    /\ UNCHANGED <<aborted, limp>>

\* After `await asyncio.sleep(0)': a request made so far is honoured, otherwise
\* the cancel scope is armed and the worker thread runs the tool.
Dispatched ==
    /\ Busy /\ call[holder].stage = "checkpoint"
    /\ call' = [call EXCEPT ![holder] =
                  IF requested THEN [@ EXCEPT !.stage = "returned", !.result = "interrupted"]
                               ELSE [@ EXCEPT !.stage = First(call[holder].tool)]]
    /\ aborted' = FALSE
    /\ UNCHANGED <<holder, line, requested, limp>>

\* The worker reaches the end of a stage, or its next frame with the scope hit.
Worked ==
    /\ Busy /\ call[holder].stage \in Executing
    /\ LET it == call[holder] IN
       /\ \/ /\ it.stage = "body" /\ aborted
             /\ call' = [call EXCEPT ![holder] = [@ EXCEPT !.stage = "returned", !.result = "interrupted"]]
          \/ /\ it.stage \in {"glide", "body"} /\ ~(it.stage = "body" /\ aborted)
             /\ call' = [call EXCEPT ![holder].stage = After(it.tool, it.stage)]
          \/ /\ it.stage = "tail"
             /\ \E result \in {"ok"} \cup (IF it.tool = "sleep" /\ FaceMayFail THEN {"error"} ELSE {}) :
                  call' = [call EXCEPT ![holder] = [@ EXCEPT !.stage = "returned", !.result = result]]
       /\ limp' = IF it.stage = "glide" THEN it.tool = "sleep" ELSE limp
    /\ UNCHANGED <<holder, line, requested, aborted>>

\* c's call came to an end; the lock is released as c resumes.
Returned(c) == holder = c /\ call[c].stage = "returned"
Release(c) ==
    /\ call' = [call EXCEPT ![c] = Resting] /\ holder' = None /\ aborted' = FALSE
    /\ UNCHANGED <<line, requested>>

\* c's call returns and c makes another in the same step, behind whoever waits.
ReleaseAndEnter(c, tool) ==
    /\ IF line = <<>>
       THEN call' = Taken(call, c, tool) /\ requested' = FALSE /\ UNCHANGED <<holder, line>>
       ELSE call' = Queued(call, c, tool) /\ holder' = None /\ line' = Append(line, c) /\ UNCHANGED requested
    /\ aborted' = FALSE
=============================================================================
