---------------------------- MODULE RealtimeSession ----------------------------
(***************************************************************************)
(* A realtime voice session.  The router reads the server's events one by  *)
(* one: speech bumps an epoch and cancels what the tool set runs, and a    *)
(* finished response is handed to the bridge, which detaches a task that   *)
(* runs its function calls in order and answers every call id.  Several    *)
(* such tasks may be alive at once; the tool set's lock serialises their   *)
(* calls.  An idle ticker asks for responses of its own.  The session ends *)
(* by cancelling the tasks, waiting for them within a bound, waking a      *)
(* sleeping robot and parking it.                                          *)
(***************************************************************************)
EXTENDS ToolCalls, SequencesExt

CONSTANTS
    MaxCalls,       \* bound: function calls of each response
    MaxBargeIns,    \* bound: barge-ins of a run
    MaxTicks        \* bound: idle ticks of a run

\* A response's plan is the caller of its tools.
PlanTasks == Caller

RealtimeAssumption ==
    /\ MaxCalls \in [PlanTasks -> Nat] /\ MaxBargeIns \in Nat /\ MaxTicks \in Nat
    /\ FaceMayFail \in BOOLEAN
    /\ ToolsAssumption

VARIABLES
    plan,       \* ToolBridge's plan tasks: [state, idle, calls, next, answers, spoke, epoch]
    epoch,      \* ToolBridge._epoch
    response,   \* the response the server is generating: None, "turn" or "idle"
    busy,       \* IdlePacer.busy
    ticks,      \* idle ticks sent, and
    unanswered, \* those the server has not started to answer
    asleep,     \* Sleeping.asleep
    session,    \* where RealtimeSession.run stands
    parked      \* how disconnect() found the robot: None, "limp", "up" or "skipped"

vars == <<plan, epoch, response, busy, ticks, unanswered, asleep, session, parked, toolset, limp>>

Unused == [state |-> "unused", idle |-> FALSE, calls |-> <<>>, next |-> 1,
           answers |-> <<>>, spoke |-> FALSE, epoch |-> 0]

Init ==
    /\ plan = [p \in PlanTasks |-> Unused]
    /\ epoch = 0 /\ response = None /\ busy = FALSE /\ ticks = 0 /\ unanswered = 0
    /\ asleep = FALSE /\ session = "running" /\ parked = None
    /\ ToolsInit

\* _flush: the calls of a plan from k on are answered without being run.
Flushed(it, k) ==
    [it EXCEPT !.answers = [j \in DOMAIN it.answers |-> IF j >= k THEN @[j] + 1 ELSE @[j]]]

\* What is left of a plan that has ended: only the answers of a plan that
\* did not give every call its one answer are worth remembering.
Ended(it, state) ==
    [Unused EXCEPT !.state = state,
                   !.answers = IF \A k \in DOMAIN it.answers : it.answers[k] = 1 THEN <<>> ELSE it.answers]
Cut(state) == [Unused EXCEPT !.state = state]
Over(it) == Ended(it, "over")

\* An exception ended the plan at its present call; what it has answered stays.
Failed(it) == [Unused EXCEPT !.state = "failed", !.next = it.next, !.answers = it.answers]

\* A _flush of the calls from k to last whose client.send raises at one of them.
CutShort(it, k, last) ==
    {Failed([it EXCEPT !.answers = [j \in DOMAIN it.answers |-> IF j \in k..(n - 1) THEN @[j] + 1 ELSE @[j]]]) :
        n \in k..last}

----------------------------------------------------------------------------
(* EventRouter *)

\* BargeIn.trigger: the epoch moves before the running call is cancelled.
SpeechStarted ==
    /\ session = "running" /\ epoch < MaxBargeIns
    /\ epoch' = epoch + 1
    /\ CancelRunning
    /\ UNCHANGED <<plan, response, busy, ticks, unanswered, asleep, session, parked, limp>>

\* response.created: the server answers speech, a continuation or an idle tick.
\* (A run has as many responses as there are plans to handle them.)
ResponseCreated ==
    /\ session = "running" /\ response = None
    /\ \E p \in PlanTasks : plan[p].state = "unused"
    /\ \/ response' = "turn" /\ UNCHANGED unanswered
       \/ unanswered > 0 /\ response' = "idle" /\ unanswered' = unanswered - 1
    /\ busy' = TRUE
    /\ UNCHANGED <<plan, epoch, ticks, asleep, session, parked, toolset, limp>>

\* response.done and ToolBridge.handle: a cancelled response's calls are
\* answered at once, otherwise the epoch is noted and a task is detached.  A
\* send that raises here raises in the router and ends the session.
Handled(it) ==
    {<<[it EXCEPT !.state = "detached"], "running">>, <<Over(Flushed(it, 1)), "running">>}
        \cup {<<cut, "failing">> : cut \in CutShort(it, 1, Len(it.calls))}

ResponseDone ==
    /\ session = "running" /\ response # None
    /\ \E p \in PlanTasks, spoke \in BOOLEAN, calls \in UNION {BoundedSeq(Tool, MaxCalls[q]) : q \in PlanTasks} :
         LET it == [Unused EXCEPT !.idle = (response = "idle"), !.calls = calls, !.spoke = spoke,
                                  !.answers = [k \in DOMAIN calls |-> 0], !.epoch = epoch]
         IN /\ Len(calls) <= MaxCalls[p]
            /\ plan[p].state = "unused" /\ \A q \in PlanTasks : q < p => plan[q].state # "unused"
            /\ \E handled \in Handled(it) :
                 plan' = [plan EXCEPT ![p] = handled[1]] /\ session' = handled[2]
    /\ response' = None /\ busy' = FALSE
    /\ UNCHANGED <<epoch, ticks, unanswered, asleep, parked, toolset, limp>>

\* IdleTicker.run: a tick that is due, with no response in flight and the
\* robot not asleep as far as the mirror knows.
IdleTick ==
    /\ session = "running" /\ ticks < MaxTicks
    /\ ~busy /\ ~asleep
    /\ ticks' = ticks + 1 /\ unanswered' = unanswered + 1
    /\ UNCHANGED <<plan, epoch, response, busy, asleep, session, parked, toolset, limp>>

----------------------------------------------------------------------------
(* ToolBridge *)

\* Mutant: what an idle tick drops is left without an answer.
Begun_DropsTail(it) ==
    IF it.calls = <<>> THEN Over(it)
    ELSE IF epoch # it.epoch THEN Over(Flushed(it, 1))
    ELSE [it EXCEPT !.state = "ready"]

\* The start of _run_plan: nothing to run, a barge-in since the response was
\* handled, or the calls; an idle plan answers all but its first as skipped.
Begun(it) ==
    IF it.calls = <<>> THEN Over(it)
    ELSE IF epoch # it.epoch THEN Over(Flushed(it, 1))
    ELSE IF it.idle THEN [Flushed(it, 2) EXCEPT !.state = "ready"]
    ELSE [it EXCEPT !.state = "ready"]

Begin(p) ==
    /\ plan[p].state = "detached"
    /\ plan' = [plan EXCEPT ![p] = Begun(plan[p])]
    /\ UNCHANGED <<epoch, response, busy, ticks, unanswered, asleep, session, parked, toolset, limp>>

\* The calls _run_plan runs.
Runs(it) == IF it.idle THEN 1 ELSE Len(it.calls)

\* A plan that a barge-in overtook answers what it has not run.
Overtaken(it) == Over(IF it.idle THEN [it EXCEPT !.answers[1] = @ + 1] ELSE Flushed(it, it.next))

\* Before each call the epoch is compared with the one noted.
Calls(p) ==
    /\ plan[p].state = "ready" /\ plan[p].next <= Runs(plan[p])
    /\ IF epoch # plan[p].epoch
       THEN plan' = [plan EXCEPT ![p] = Overtaken(plan[p])]
            /\ UNCHANGED toolset
       ELSE /\ Enter(p, plan[p].calls[plan[p].next])
            /\ plan' = [plan EXCEPT ![p].state = "calling"]
    /\ UNCHANGED <<epoch, response, busy, ticks, unanswered, asleep, session, parked, limp>>

\* Mutant: the interrupted call is answered again with the rest.
Answered_Twice(it, result) ==
    LET told == [it EXCEPT !.answers[it.next] = @ + 1]
    IN IF result = "interrupted" THEN Over(IF it.idle THEN told ELSE Flushed(told, it.next))
       ELSE [told EXCEPT !.state = "ready", !.next = @ + 1]

\* The end of _run_one: the result is sent, and an interrupted one ends the
\* plan with every later call answered.
Answered(it, result) ==
    LET told == [it EXCEPT !.answers[it.next] = @ + 1]
    IN IF result = "interrupted" THEN Over(IF it.idle THEN told ELSE Flushed(told, it.next + 1))
       ELSE [told EXCEPT !.state = "ready", !.next = @ + 1]

\* Mutant: the mirror also follows a call that was interrupted.
Observed_Always(tool, result) == IF tool \in {"sleep", "wake_up"} THEN tool = "sleep" ELSE asleep

\* Sleeping.observe, for a call that ran to completion.
Observed(tool, result) ==
    IF tool \in {"sleep", "wake_up"} /\ result = "ok" THEN tool = "sleep" ELSE asleep

\* The end of _run_one where a client.send raises: that of the result, of a
\* photograph after it, or of an answer to a later call.
AnswerFails(it, result) ==
    LET told == [it EXCEPT !.answers[it.next] = @ + 1]
    IN {Failed(it)}
       \cup (IF it.calls[it.next] = "glance" /\ result = "ok" THEN {Failed(told)} ELSE {})
       \cup (IF result = "interrupted" THEN CutShort(told, it.next + 1, Runs(it)) ELSE {})

\* Mutant: the mirror follows a call only once its result is sent.
Returns_ObservesLast(p) ==
    /\ plan[p].state = "calling" /\ Returned(p)
    /\ \/ plan' = [plan EXCEPT ![p] = Answered(@, call[p].result)] /\ asleep' = Observed(call[p].tool, call[p].result)
       \/ \E it \in AnswerFails(plan[p], call[p].result) : plan' = [plan EXCEPT ![p] = it] /\ asleep' = asleep
    /\ Release(p)
    /\ UNCHANGED <<epoch, response, busy, ticks, unanswered, session, parked, limp>>

\* A call returns to its plan: the mirror follows it and its result is sent.
Returns(p) ==
    /\ plan[p].state = "calling" /\ Returned(p)
    /\ \E it \in {Answered(plan[p], call[p].result)} \cup AnswerFails(plan[p], call[p].result) :
         plan' = [plan EXCEPT ![p] = it]
    /\ asleep' = Observed(call[p].tool, call[p].result)
    /\ Release(p)
    /\ UNCHANGED <<epoch, response, busy, ticks, unanswered, session, parked, limp>>

\* After the last call: unless it was idle or a barge-in came, a plan that
\* said nothing or took a photograph asks for a spoken continuation.
Speaks(it) ==
    /\ ~it.idle /\ epoch = it.epoch
    /\ ~it.spoke \/ \E k \in DOMAIN it.calls : it.calls[k] = "glance"

Concludes(p) ==
    /\ plan[p].state = "ready" /\ plan[p].next > Runs(plan[p])
    /\ plan' = [plan EXCEPT ![p] = Ended(@, IF Speaks(@) THEN "spoken" ELSE "over")]
    /\ UNCHANGED <<epoch, response, busy, ticks, unanswered, asleep, session, parked, toolset, limp>>

\* Where an exception leaves _run_plan outside a call: a client.send of a flush
\* or of the continuation raises, or ToolView.call's dict(args) does, of
\* arguments that are JSON but no object, before it reaches the tool set.
Failures(it) ==
    CASE it.state = "detached" /\ epoch # it.epoch -> CutShort(it, 1, Len(it.calls))
      [] it.state = "detached" /\ epoch = it.epoch /\ it.idle -> CutShort(it, 2, Len(it.calls))
      [] it.state = "ready" /\ it.next <= Runs(it) ->
           IF epoch # it.epoch THEN CutShort(it, it.next, Runs(it)) ELSE {Failed(it)}
      [] it.state = "ready" /\ it.next > Runs(it) /\ Speaks(it) -> {Failed(it)}
      [] OTHER -> {}

\* The plan task dies of it, and _report_failure prints a line.
Raises(p) ==
    /\ \E it \in Failures(plan[p]) : plan' = [plan EXCEPT ![p] = it]
    /\ UNCHANGED <<epoch, response, busy, ticks, unanswered, asleep, session, parked, toolset, limp>>

----------------------------------------------------------------------------
(* AgentToolSet's worker *)

others == <<plan, epoch, response, busy, ticks, unanswered, asleep, session, parked>>

Grant == Granted /\ UNCHANGED others
Dispatch == Dispatched /\ UNCHANGED others
Work == Worked /\ UNCHANGED others

----------------------------------------------------------------------------
(* The end of the session *)

Pending(p) == plan[p].state \in {"detached", "ready", "calling", "dying"}

\* A signal, the time limit, the server hanging up or a service that raised: the
\* services are cancelled and settle() cancels every plan task.  One that waits for the
\* lock or at the checkpoint leaves; one whose tool executes asks the robot to
\* cancel and waits for the worker.
Stop ==
    /\ session \in {"running", "failing"}
    /\ session' = "settling"
    /\ plan' = [p \in PlanTasks |->
                  IF plan[p].state = "calling" /\ call[p].stage \in Executing \cup {"returned"}
                  THEN Cut("dying")
                  ELSE IF Pending(p) THEN Cut("dropped") ELSE plan[p]]
    /\ LET leaves(p) == plan[p].state = "calling" /\ call[p].stage \in {"queued", "checkpoint"} IN
       /\ call' = [p \in PlanTasks |-> IF leaves(p) THEN Resting ELSE call[p]]
       /\ holder' = IF Busy /\ leaves(holder) THEN None ELSE holder
       /\ aborted' = (aborted \/ (Busy /\ call[holder].stage \in {"glide", "body"}))
    /\ line' = <<>> /\ UNCHANGED requested
    /\ UNCHANGED <<epoch, response, busy, ticks, unanswered, asleep, parked, limp>>

\* The cancelled task's worker is done: CancelledError goes on up, past the
\* answer and past the mirror.
Dies(p) ==
    /\ plan[p].state = "dying" /\ Returned(p)
    /\ plan' = [plan EXCEPT ![p].state = "dropped"]
    /\ Release(p)
    /\ UNCHANGED <<epoch, response, busy, ticks, unanswered, asleep, session, parked, limp>>

\* settle() returns: every task is done, or its time is up.
Settled ==
    /\ session = "settling" /\ session' = "parking"
    /\ UNCHANGED <<plan, epoch, response, busy, ticks, unanswered, asleep, parked, toolset, limp>>

\* _wake_and_disconnect: a robot the mirror calls asleep is woken first; if
\* waking fails the park is skipped.
Park ==
    /\ session = "parking"
    /\ session' = "over"
    /\ IF asleep
       THEN \/ parked' = "up" /\ limp' = FALSE
            \/ parked' = "skipped" /\ limp' = limp
       ELSE parked' = (IF limp THEN "limp" ELSE "up") /\ limp' = limp
    /\ UNCHANGED <<plan, epoch, response, busy, ticks, unanswered, asleep, toolset>>

Next ==
    \/ SpeechStarted \/ ResponseCreated \/ ResponseDone \/ IdleTick
    \/ \E p \in PlanTasks : Begin(p) \/ Calls(p) \/ Returns(p) \/ Concludes(p) \/ Raises(p) \/ Dies(p)
    \/ Grant \/ Dispatch \/ Work
    \/ Stop \/ Settled \/ Park

Spec == Init /\ [][Next]_vars

----------------------------------------------------------------------------
(* Properties *)

\* No call id gets two outputs, and each gets one, whatever barge-ins, cancelled
\* responses, idle ticks and interrupted motions happen, unless an exception
\* ends the plan; then those before the call it ended at have theirs.
EveryCallIsAnsweredOnce ==
    \A p \in PlanTasks : \A k \in DOMAIN plan[p].answers :
        /\ plan[p].answers[k] <= 1
        /\ plan[p].state \in {"over", "spoken"} \/ (plan[p].state = "failed" /\ k < plan[p].next) =>
             plan[p].answers[k] = 1

\* What the bridge's docstring says, "no call_id goes unanswered": not if a send
\* raises, nor if the model's arguments are no object.
NoCallIdGoesUnanswered ==
    \A p \in PlanTasks : plan[p].state \in {"over", "spoken", "failed"} =>
        \A k \in DOMAIN plan[p].answers : plan[p].answers[k] = 1

\* What BargeIn's docstring says, that speech silences current behavior the
\* instant it is detected: not for a call that waits for the tool set's lock.
OvertakenPlansStartNothing ==
    [][\A p \in PlanTasks : (call[p].stage = "checkpoint" /\ call'[p].stage \in Executing) => plan[p].epoch = epoch]_vars

\* While the session runs, the mirror of the sleep mode is behind the robot
\* only until a sleep call that has just come down is recorded.
MirrorFollowsTheRobot ==
    (session = "running" /\ limp /\ ~asleep) =>
        \E p \in PlanTasks : call[p].tool = "sleep" /\ call[p].stage \in {"tail", "returned"}

\* What _wake_and_disconnect promises: a sleeping robot is woken before the
\* park, which would stream a pose to legs that cannot reach it.
SleeperIsWokenBeforePark == parked # "limp"

\* What IdleTicker promises: silent while asleep.  No call of an idle plan
\* starts on a robot that lies limp.
IdleLeavesSleepersAlone ==
    [][\A p \in PlanTasks : (plan[p].idle /\ call[p].stage = "checkpoint" /\ call'[p].stage = "body") => ~limp]_vars
=============================================================================
