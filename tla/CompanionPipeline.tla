--------------------------- MODULE CompanionPipeline ---------------------------
(***************************************************************************)
(* The companion's dialogue loop.  A conductor task drains the input bus   *)
(* and alternates respond turns (a plan of tool calls) with idle ticks     *)
(* (one tool call); a reflex engine makes calls of its own on the same     *)
(* tool set, whose lock serialises them; typed text and guarded speech are *)
(* posted on the bus, and a directed utterance also starts a task that     *)
(* cancels whatever the tool set runs.  All of it shares one event loop:   *)
(* an action is what one task does between two awaits.                     *)
(***************************************************************************)
EXTENDS ToolCalls, SequencesExt

CONSTANTS
    MaxInputs,        \* bound: things typed or said in a run
    MaxReflexes,      \* bound: reflexes fired in a run
    MaxPlan,          \* _MAX_TOOL_CALLS, 4 in the source
    QueueMax          \* _UTTERANCE_QUEUE_MAX, 4 in the source

CompanionAssumption ==
    /\ MaxInputs \in Nat /\ MaxReflexes \in Nat /\ FaceMayFail \in BOOLEAN
    /\ Caller = {"turn", "reflex"}
    /\ ToolsAssumption
    /\ MaxPlan \in Nat \ {0} /\ QueueMax \in Nat \ {0}

VARIABLES
    inputs,        \* how many things were typed or said
    utterances,    \* SpeechPipeline's queue: inputs waiting for transcription
    hearing,       \* the input its worker is transcribing and judging
    queue,         \* Bus._queue: <<input, whether it cancels>>
    cancel,        \* Bus.cancel
    bargeIns,      \* cancel_running() tasks created and not yet run
    conductor,     \* [pc, plan, pending] of the task in Conductor.run
    asleep,        \* Sleeping._asleep
    reflex,        \* the calls the reflex still has to make
    reflexes,      \* how many reflexes fired
    asked,         \* history: the inputs a respond turn has asked the model about
    wanted,        \* history: the directed inputs posted
    stale          \* history: a cancelling input came after the plan was asked for

speech == <<inputs, utterances, hearing>>
bus == <<queue, cancel, bargeIns>>
mirror == <<asleep, limp>>
ghosts == <<asked, wanted, stale>>
vars == <<speech, bus, conductor, mirror, toolset, reflex, reflexes, ghosts>>

IdleTools == {"roam", "glance"}

Init ==
    /\ inputs = 0 /\ utterances = <<>> /\ hearing = None
    /\ queue = <<>> /\ cancel = FALSE /\ bargeIns = 0
    /\ conductor = [pc |-> "top", plan |-> <<>>, pending |-> <<>>]
    /\ asleep = FALSE /\ ToolsInit
    /\ reflex = <<>> /\ reflexes = 0
    /\ asked = {} /\ wanted = {} /\ stale = FALSE

----------------------------------------------------------------------------
(* AgentToolSet *)

others == <<speech, bus, conductor, asleep, reflex, reflexes, ghosts>>

Grant == Granted /\ UNCHANGED others
Dispatch == Dispatched /\ UNCHANGED others
Work == Worked /\ UNCHANGED others

----------------------------------------------------------------------------
(* Speech and typing *)

\* Bus.post of an input that cancels or only informs.
Posts(i, cancels) ==
    /\ queue' = Append(queue, <<i, cancels>>)
    /\ cancel' = (cancel \/ cancels)
    /\ wanted' = IF cancels THEN wanted \cup {i} ELSE wanted
    /\ stale' = (stale \/ cancels)

\* submit_user_text.
Types ==
    /\ inputs < MaxInputs
    /\ inputs' = inputs + 1
    /\ Posts(inputs + 1, TRUE)
    /\ UNCHANGED <<utterances, hearing, bargeIns, conductor, mirror, toolset, reflex, reflexes, asked>>

\* SpeechPipeline.run: a full queue loses its oldest utterance.
Speaks ==
    /\ inputs < MaxInputs
    /\ inputs' = inputs + 1
    /\ utterances' = Append(IF Len(utterances) = QueueMax THEN Tail(utterances) ELSE utterances, inputs + 1)
    /\ UNCHANGED <<hearing, bus, conductor, mirror, toolset, reflex, reflexes, ghosts>>

\* _utterance_worker takes the next one.
Listens ==
    /\ hearing = None /\ utterances # <<>>
    /\ hearing' = Head(utterances) /\ utterances' = Tail(utterances)
    /\ UNCHANGED <<inputs, bus, conductor, mirror, toolset, reflex, reflexes, ghosts>>

\* _handle_utterance: nothing transcribed and noise are dropped, chatter is
\* posted, and a command, a question or a failed guard also barges in.
Judges ==
    /\ hearing # None
    /\ \/ UNCHANGED <<bus, ghosts>>
       \/ Posts(hearing, FALSE) /\ UNCHANGED <<bargeIns, asked>>
       \/ Posts(hearing, TRUE) /\ bargeIns' = bargeIns + 1 /\ UNCHANGED asked
    /\ hearing' = None
    /\ UNCHANGED <<inputs, utterances, conductor, mirror, toolset, reflex, reflexes>>

\* The task _barge_in created.
BargesIn ==
    /\ bargeIns > 0
    /\ bargeIns' = bargeIns - 1
    /\ CancelRunning
    /\ UNCHANGED <<speech, queue, cancel, conductor, mirror, reflex, reflexes, ghosts>>

----------------------------------------------------------------------------
(* The conductor *)

At(pc) == conductor.pc = pc

\* Mutant: the drain leaves the cancel signal to whoever comes next.
Drain_LeavesCancel == queue' = <<>> /\ cancel' = cancel

\* Bus.drain: whoever takes the queued inputs consumes their cancel signal.
Drain == queue' = <<>> /\ cancel' = IF queue # <<>> THEN FALSE ELSE cancel

\* The top of Conductor.run: what was waited for and what is queued goes into
\* history together and is answered by one respond turn; with nothing to
\* answer an awake robot has an idle tick and a sleeping one only waits.
Turn ==
    /\ At("top")
    /\ LET taken == conductor.pending \o queue IN
       /\ conductor' = [pc |-> CASE taken # <<>> -> "respond" [] asleep -> "waiting" [] OTHER -> "idle",
                        plan |-> <<>>, pending |-> <<>>]
       /\ asked' = asked \cup {taken[k][1] : k \in DOMAIN taken}
       /\ stale' = IF taken # <<>> THEN FALSE ELSE stale
    /\ Drain
    /\ UNCHANGED <<speech, bargeIns, mirror, toolset, reflex, reflexes, wanted>>

\* The model's answer to a respond turn: none (then a pause), or a plan.
Plans ==
    /\ At("respond")
    /\ \/ conductor' = [conductor EXCEPT !.pc = "top"]
       \/ \E plan \in BoundedSeq(Tool, MaxPlan) \ {<<>>} :
             conductor' = [conductor EXCEPT !.pc = "planned", !.plan = plan]
    /\ UNCHANGED <<speech, bus, mirror, toolset, reflex, reflexes, ghosts>>

\* RespondTurn.run before each call, and run_tool: a cancel that came in
\* discards what is left and stays set for the drain.
Calls ==
    /\ At("planned")
    /\ IF cancel \/ conductor.plan = <<>>
       THEN /\ conductor' = [conductor EXCEPT !.pc = "top", !.plan = <<>>]
            /\ UNCHANGED toolset
       ELSE /\ Enter("turn", Head(conductor.plan))
            /\ conductor' = [conductor EXCEPT !.pc = IF Head(conductor.plan) \in LongRunning THEN "long" ELSE "short"]
    /\ UNCHANGED <<speech, bus, mirror, reflex, reflexes, ghosts>>

\* The model's answer to an idle tick.  A tool it was not offered is refused;
\* a cancel that came in while it was thinking is consumed here.
IdleCalls ==
    /\ At("idle")
    /\ \/ /\ conductor' = [conductor EXCEPT !.pc = "waiting"]
          /\ UNCHANGED <<toolset, cancel>>
       \/ \E tool \in IdleTools :
             IF cancel
             THEN /\ cancel' = FALSE /\ conductor' = [conductor EXCEPT !.pc = "waiting"]
                  /\ UNCHANGED toolset
             ELSE /\ Enter("turn", tool) /\ cancel' = cancel
                  /\ conductor' = [conductor EXCEPT !.pc = IF tool \in LongRunning THEN "idle_long" ELSE "idle_short"]
    /\ UNCHANGED <<speech, queue, bargeIns, mirror, reflex, reflexes, ghosts>>

\* Mutant: the mirror moves on interrupted results too.
Observed_TrustsAll(tool, result) == IF tool \in {"sleep", "wake_up"} THEN tool = "sleep" ELSE asleep

\* Sleeping.observe: only a clean result of the two tools moves the mirror.
Observed(tool, result) ==
    IF tool \in {"sleep", "wake_up"} /\ result = "ok" THEN tool = "sleep" ELSE asleep

\* execute_and_record's end: the result goes into history; an interrupted one
\* discards the rest of a plan, an idle tick ends with its one call.
Recorded(result) ==
    /\ asleep' = Observed(call["turn"].tool, result)
    /\ conductor' =
         IF conductor.pc \in {"idle_short", "idle_long", "idle_settling"}
         THEN [conductor EXCEPT !.pc = "waiting"]
         ELSE IF result = "interrupted" THEN [conductor EXCEPT !.pc = "top", !.plan = <<>>]
         ELSE [conductor EXCEPT !.pc = "planned", !.plan = Tail(@)]

\* A short call is awaited directly: its return and its record are one step.
ReturnsShort ==
    /\ At("short") \/ At("idle_short")
    /\ Returned("turn")
    /\ Release("turn") /\ Recorded(call["turn"].result)
    /\ UNCHANGED <<speech, bus, limp, reflex, reflexes, ghosts>>

\* A long-running call is a task of its own, which releases the lock ...
Finishes ==
    /\ conductor.pc \in {"long", "settling", "idle_long", "idle_settling"}
    /\ Returned("turn")
    /\ call' = [call EXCEPT !["turn"].stage = "done"] /\ holder' = None /\ aborted' = FALSE
    /\ UNCHANGED <<speech, bus, conductor, mirror, line, requested, reflex, reflexes, ghosts>>

\* ... before _run_cancellable, which waits for it, takes its result.
ReturnsLong ==
    /\ conductor.pc \in {"long", "settling", "idle_long", "idle_settling"}
    /\ call["turn"].stage = "done"
    /\ call' = [call EXCEPT !["turn"] = Resting]
    /\ Recorded(call["turn"].result)
    /\ UNCHANGED <<speech, bus, limp, holder, line, requested, aborted, reflex, reflexes, ghosts>>

\* The cancel event wins the race: the tool set is asked to abort, the event
\* is consumed, and the call is waited for.
LosesRace ==
    /\ At("long") \/ At("idle_long")
    /\ cancel /\ call["turn"].stage # "done"
    /\ CancelRunning
    /\ cancel' = FALSE
    /\ conductor' = [conductor EXCEPT !.pc = IF @ = "long" THEN "settling" ELSE "idle_settling"]
    /\ UNCHANGED <<speech, queue, bargeIns, mirror, reflex, reflexes, ghosts>>

\* Mutant: only the first input of a pause is kept.
Wakes_KeepsOne ==
    /\ At("waiting")
    /\ conductor' = [conductor EXCEPT !.pc = "top", !.pending = SubSeq(queue, 1, IF queue = <<>> THEN 0 ELSE 1)]
    /\ Drain
    /\ UNCHANGED <<speech, bargeIns, mirror, toolset, reflex, reflexes, ghosts>>

\* Bus.wait: the first input ends the pause and the rest come with it.
Wakes ==
    /\ At("waiting")
    /\ conductor' = [conductor EXCEPT !.pc = "top", !.pending = queue]
    /\ Drain
    /\ UNCHANGED <<speech, bargeIns, mirror, toolset, reflex, reflexes, ghosts>>

----------------------------------------------------------------------------
(* ReflexEngine *)

\* _handle: skipped while the tool set is busy or the mirror says asleep.  A
\* wave or a face is one call; a name call shows a face and then looks.
Reacts ==
    /\ reflexes < MaxReflexes /\ reflex = <<>> /\ call["reflex"] = Resting
    /\ ~Busy /\ ~asleep
    /\ reflexes' = reflexes + 1
    /\ \/ Enter("reflex", "roam") /\ reflex' = <<>>
       \/ Enter("reflex", "glance") /\ reflex' = <<"roam">>
    /\ UNCHANGED <<speech, bus, conductor, mirror, ghosts>>

\* A call of the reflex returns; the next one asks for the lock in the same
\* step, behind whoever waits for it.
ReflexReturns ==
    /\ Returned("reflex")
    /\ IF reflex = <<>>
       THEN Release("reflex") /\ UNCHANGED reflex
       ELSE ReleaseAndEnter("reflex", Head(reflex)) /\ reflex' = Tail(reflex)
    /\ UNCHANGED <<speech, bus, conductor, mirror, reflexes, ghosts>>

Next ==
    \/ Types \/ Speaks \/ Listens \/ Judges \/ BargesIn
    \/ Turn \/ Plans \/ Calls \/ IdleCalls \/ ReturnsShort \/ Finishes \/ ReturnsLong \/ LosesRace \/ Wakes
    \/ Grant \/ Dispatch \/ Work \/ Reacts \/ ReflexReturns

Spec == Init /\ [][Next]_vars

\* Tasks that can run are run, worker threads end and the model answers.
Converses == Turn \/ Plans \/ Calls \/ IdleCalls \/ ReturnsShort \/ ReturnsLong \/ LosesRace \/ Wakes
Serves == Grant \/ Dispatch \/ Work \/ Finishes \/ ReflexReturns
Fairness == WF_vars(Converses) /\ WF_vars(Serves)

FairSpec == Spec /\ Fairness

----------------------------------------------------------------------------
(* Properties *)

\* A robot put to sleep is left alone by the idle loop: whatever barge-ins,
\* failed calls and interrupted wake-ups came before, no idle tick's tool
\* starts on a limp robot (Conductor.run's gate, Sleeping's mirror).
IdleLeavesSleepersAlone ==
    limp => ~(conductor.pc \in {"idle", "idle_short", "idle_long", "idle_settling"})

\* Every directed input reaches a respond turn: it is never lost between the
\* queue, the pause it ends, the cancel it sets and the call that consumes the
\* cancel (Bus.wait, Conductor.run's pending).
DirectedIsAnswered == \A i \in 1 .. MaxInputs : (i \in wanted) ~> (i \in asked)

\* The cancel flag is up only for input still to be drained: a plan made in
\* answer to an input is never discarded on account of that same input
\* (Bus.drain and Bus.wait hand out the input and consume its cancel at once).
CancelHasACause == cancel => \E k \in DOMAIN queue : queue[k][2]

\* What RespondTurn.run's comments promise: once input that cancels has come
\* in, the plan it made stale goes no further -- none of its calls is begun.
StalePlanIsDropped ==
    [][(stale /\ At("planned")) => call'["turn"] = Resting]_vars

\* What the reflexes module promises: a sleeping robot is not waved about.
NoReflexOnASleepingRobot ==
    [][(holder = "reflex" /\ call["reflex"].stage = "checkpoint" /\ call'["reflex"].stage = "body") => ~limp]_vars
=============================================================================
