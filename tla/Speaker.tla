------------------------------- MODULE Speaker -------------------------------
(***************************************************************************)
(* io/speaker.py: one resident worker that synthesises and plays queued    *)
(* jobs, interrupted by stop() of a job or of everything, and closed under *)
(* the lock that say() takes.                                              *)
(***************************************************************************)
EXTENDS Integers, Sequences, FiniteSets

CONSTANTS
  Job,      (* bound: calls of say, numbered from 1                        *)
  Bilingual, (* the jobs of say_bilingual                                  *)
  Caller,   (* threads that call stop()                                    *)
  MaxStops, (* bound: calls of Speaker.stop, those of close() included     *)
  None

SpeakerAssumption ==
  /\ Job \subseteq Nat \ {0} /\ MaxStops \in Nat
  /\ None \notin Job /\ None \notin {"say", "close", "open", "open_new", "started", "recorded", "dying"}

Half(j) == IF j \in Bilingual THEN 2 ELSE 1               (* utterances *)
Exit == 0                     (* the sentinel of close()                   *)
Closer == 0                   (* the thread in close(): it calls stop()    *)
Actor == Caller \cup {Closer}
Synth == {<<j, h>> : j \in Job, h \in 1..2}

VARIABLES
  queue,      (* _queue                                                    *)
  said,       (* jobs handed to _enqueue                                   *)
  epoch,      (* [Job -> enqueued_at_stop_count]                           *)
  stopCount,  (* _stop_count                                               *)
  halted,     (* handles whose stop event is set                           *)
  done,       (* handles marked done                                       *)
  worker,     (* [at, job, half]                                           *)
  current,    (* _current_handle                                           *)
  proc,       (* the player process: None, "started", "recorded", "dying"  *)
  lock,       (* _worker_lock: None, "say", "close", "open", "open_new"    *)
  held,       (* the speaker reservation                                   *)
  pc,         (* [Actor -> where it is in stop() or close()]               *)
  saw,        (* actors whose drain took the sentinel                      *)
  target,     (* [Actor -> the job it interrupts]                          *)
  silenced,   (* jobs said before a stop() that has returned, as a ghost   *)
  before,     (* [Actor -> jobs said before its stop() began], as a ghost  *)
  exposed,    (* jobs a stop() began after, or ran beside, as a ghost      *)
  synth,      (* [Synth -> the thread: "none", "running", "parked", "ended"] *)
  gaveUp,     (* synthesis threads nobody waits for                        *)
  wav         (* synthesis threads whose file exists                       *)

jobVars == <<queue, said, epoch, done, halted>>
workVars == <<worker, current, proc, synth, gaveUp, wav>>
ghosts == <<silenced, exposed>>
stopVars == <<pc, saw, target, before, ghosts>>
speakerVars == <<jobVars, stopCount, workVars, lock, held, stopVars>>

Nobody == [at |-> "none", job |-> None, half |-> 1]

Init ==
  /\ queue = <<>> /\ said = {} /\ epoch = [j \in Job |-> 0] /\ stopCount = 0
  /\ halted = {} /\ done = {}
  /\ worker = Nobody /\ current = None /\ proc = None /\ lock = None /\ held = FALSE
  /\ pc = [a \in Actor |-> "idle"] /\ saw = {} /\ target = [a \in Actor |-> None]
  /\ silenced = {} /\ exposed = {} /\ before = [a \in Actor |-> {}]
  /\ synth = [k \in Synth |-> "none"] /\ gaveUp = {} /\ wav = {}

To(a, place) == pc' = [pc EXCEPT ![a] = place]

-----------------------------------------------------------------------------
(* say: the reservation and a live worker, then the epoch, then the queue. *)
Say(j) ==
  /\ lock = None /\ said = {k \in Job : k < j}
  /\ lock' = "say" /\ held' = TRUE
  /\ said' = said \cup {j}
  /\ worker' = IF worker.at = "none" THEN [Nobody EXCEPT !.at = "idle"] ELSE worker
  /\ epoch' = [epoch EXCEPT ![j] = stopCount]
  /\ exposed' = IF \E a \in Actor : pc[a] # "idle" THEN exposed \cup {j} ELSE exposed
  /\ UNCHANGED <<queue, done, halted, stopCount, current, proc, synth, gaveUp, wav, pc, saw, target, before, silenced>>

Put ==
  /\ lock = "say" /\ lock' = None
  /\ \E j \in said :
       /\ \A k \in said : k <= j
       /\ queue' = Append(queue, j)
  /\ UNCHANGED <<said, epoch, done, halted, stopCount, workVars, held, stopVars>>

-----------------------------------------------------------------------------
Doing == worker.job
Moves(place) == worker' = [worker EXCEPT !.at = place]

Take ==
  /\ worker.at = "idle" /\ queue # <<>>
  /\ queue' = Tail(queue)
  /\ worker' = IF Head(queue) = Exit THEN Nobody ELSE [at |-> "taken", job |-> Head(queue), half |-> 1]
  /\ UNCHANGED <<said, epoch, done, halted, stopCount, current, proc, synth, gaveUp, wav, lock, held, stopVars>>

(* Mutant: the epoch is not looked at. *)
Begin_Blind ==
  /\ worker.at = "taken"
  /\ current' = Doing /\ Moves("next")
  /\ UNCHANGED <<jobVars, stopCount, proc, synth, gaveUp, wav, lock, held, stopVars>>

(* Mutant: a job of the present epoch counts as stopped. *)
Begin_OffByOne ==
  /\ worker.at = "taken"
  /\ IF stopCount > 0 /\ stopCount >= epoch[Doing]
       THEN /\ halted' = halted \cup {Doing} /\ done' = done \cup {Doing} /\ Moves("idle")
            /\ UNCHANGED current
       ELSE current' = Doing /\ Moves("next") /\ UNCHANGED <<halted, done>>
  /\ UNCHANGED <<queue, said, epoch, stopCount, proc, synth, gaveUp, wav, lock, held, stopVars>>

(* _run_job: a stop() since the job was queued counts. *)
Begin ==
  /\ worker.at = "taken"
  /\ IF stopCount > epoch[Doing]
       THEN /\ halted' = halted \cup {Doing} /\ done' = done \cup {Doing} /\ Moves("idle")
            /\ UNCHANGED current
       ELSE current' = Doing /\ Moves("next") /\ UNCHANGED <<halted, done>>
  /\ UNCHANGED <<queue, said, epoch, stopCount, proc, synth, gaveUp, wav, lock, held, stopVars>>

(* The next utterance: a synthesis thread of its own. *)
Speak ==
  /\ worker.at = "next" /\ worker.half <= Half(Doing) /\ Doing \notin halted
  /\ Moves("synth")
  /\ synth' = [synth EXCEPT ![<<Doing, worker.half>>] = "running"] /\ wav' = wav \cup {<<Doing, worker.half>>}
  /\ UNCHANGED <<jobVars, stopCount, current, proc, gaveUp, lock, held, stopVars>>

(* The thread: under decision_lock its file is parked, or deleted when     *)
(* nobody waits.                                                           *)
SynthStep(k) ==
  /\ \/ synth[k] = "running"
        /\ IF k \in gaveUp
             THEN synth' = [synth EXCEPT ![k] = "ended"] /\ wav' = wav \ {k}
             ELSE \/ synth' = [synth EXCEPT ![k] = "parked"] /\ UNCHANGED wav
                  \/ synth' = [synth EXCEPT ![k] = "ended"] /\ wav' = wav \ {k}      (* it raised *)
     \/ synth[k] = "parked" /\ synth' = [synth EXCEPT ![k] = "ended"] /\ UNCHANGED wav
  /\ UNCHANGED <<jobVars, stopCount, worker, current, proc, gaveUp, lock, held, stopVars>>

NextHalf == worker' = [worker EXCEPT !.at = "next", !.half = @ + 1]

(* The thread is alive when the job is stopped, or at the deadline. *)
GiveUpSynth ==
  LET k == <<Doing, worker.half>> IN
  /\ worker.at = "synth" /\ synth[k] # "ended"
  /\ gaveUp' = gaveUp \cup {k}
  /\ NextHalf
  /\ UNCHANGED <<jobVars, stopCount, current, proc, synth, wav, lock, held, stopVars>>

(* The thread ended: an error, a stop noticed now, or the player starts.   *)
Synthesised ==
  LET k == <<Doing, worker.half>> IN
  /\ worker.at = "synth" /\ synth[k] = "ended"
  /\ IF k \notin wav \/ Doing \in halted
       THEN NextHalf /\ wav' = wav \ {k} /\ UNCHANGED proc
       ELSE Moves("launching") /\ proc' = "started" /\ UNCHANGED wav
  /\ UNCHANGED <<jobVars, stopCount, current, synth, gaveUp, lock, held, stopVars>>

(* Mutant: the process is recorded without a second look. *)
Record_Unchecked ==
  /\ worker.at = "launching" /\ Moves("playing") /\ proc' = "recorded"
  /\ UNCHANGED <<jobVars, stopCount, current, synth, gaveUp, wav, lock, held, stopVars>>

(* _run_playback: recorded under _proc_lock, unless a stop came first.     *)
Record ==
  /\ worker.at = "launching" /\ Moves("playing")
  /\ proc' = IF Doing \in halted THEN "dying" ELSE "recorded"
  /\ UNCHANGED <<jobVars, stopCount, current, synth, gaveUp, wav, lock, held, stopVars>>

(* The player exits by itself, is killed at the deadline, or dies. *)
PlayEnds ==
  /\ worker.at = "playing"
  /\ proc' = None /\ NextHalf /\ wav' = wav \ {<<Doing, worker.half>>}
  /\ UNCHANGED <<jobVars, stopCount, current, synth, gaveUp, lock, held, stopVars>>

Finish ==
  /\ worker.at = "next" /\ (worker.half > Half(Doing) \/ Doing \in halted)
  /\ current' = None /\ done' = done \cup {Doing}
  /\ worker' = [Nobody EXCEPT !.at = "idle"]
  /\ UNCHANGED <<queue, said, epoch, halted, stopCount, proc, synth, gaveUp, wav, lock, held, stopVars>>

-----------------------------------------------------------------------------
(* SpeechHandle.stop: the event first, _handle_stop afterwards. *)
StopHandle(a, j) ==
  /\ pc[a] = "idle" /\ a # Closer /\ j \in said \ halted
  /\ halted' = halted \cup {j}
  /\ target' = [target EXCEPT ![a] = j] /\ To(a, "handle") /\ exposed' = exposed \cup {j}
  /\ UNCHANGED <<queue, said, epoch, done, stopCount, workVars, lock, held, saw, before, silenced>>

Stop(a) ==
  /\ pc[a] = "idle" /\ a # Closer /\ stopCount < MaxStops
  /\ before' = [before EXCEPT ![a] = IF lock = "say" THEN {j \in said : j + 1 \in said} ELSE said]
  /\ To(a, "draining") /\ exposed' = exposed \cup said
  /\ UNCHANGED <<jobVars, stopCount, workVars, lock, held, saw, target, silenced>>

(* Mutant: a sentinel taken by the drain is gone. *)
Drain_LosesExit(a) ==
  /\ pc[a] = "draining"
  /\ IF queue = <<>>
       THEN To(a, "bump") /\ UNCHANGED <<queue, halted, done, saw>>
       ELSE /\ queue' = Tail(queue)
            /\ halted' = halted \cup ({Head(queue)} \ {Exit}) /\ done' = done \cup ({Head(queue)} \ {Exit})
            /\ UNCHANGED <<pc, saw>>
  /\ UNCHANGED <<said, epoch, stopCount, workVars, lock, held, target, before, ghosts>>

(* One job after another leaves the queue, stopped and done; a sentinel    *)
(* goes back in the end.                                                   *)
Drain(a) ==
  /\ pc[a] = "draining"
  /\ IF queue = <<>>
       THEN To(a, "requeue") /\ UNCHANGED <<queue, halted, done, saw>>
       ELSE /\ queue' = Tail(queue)
            /\ IF Head(queue) = Exit
                 THEN saw' = saw \cup {a} /\ UNCHANGED <<halted, done>>
                 ELSE halted' = halted \cup {Head(queue)} /\ done' = done \cup {Head(queue)} /\ UNCHANGED saw
            /\ UNCHANGED pc
  /\ UNCHANGED <<said, epoch, stopCount, workVars, lock, held, target, before, ghosts>>

Requeue(a) ==
  /\ pc[a] = "requeue" /\ To(a, "bump")
  /\ queue' = IF a \in saw THEN Append(queue, Exit) ELSE queue
  /\ saw' = saw \ {a}
  /\ UNCHANGED <<said, epoch, done, halted, stopCount, workVars, lock, held, target, before, ghosts>>

Returned(a) ==
  /\ To(a, IF a = Closer THEN "exit" ELSE "idle")
  /\ target' = [target EXCEPT ![a] = None] /\ before' = [before EXCEPT ![a] = {}]

Bump(a) ==
  /\ pc[a] = "bump"
  /\ stopCount' = stopCount + 1
  /\ IF current = None
       THEN Returned(a) /\ silenced' = silenced \cup before[a]
       ELSE target' = [target EXCEPT ![a] = current] /\ To(a, "current") /\ UNCHANGED <<before, silenced>>
  /\ UNCHANGED <<jobVars, workVars, lock, held, saw, exposed>>

(* current.stop(): its event. *)
Interrupt(a) ==
  /\ pc[a] = "current" /\ To(a, "handle")
  /\ halted' = halted \cup {target[a]}
  /\ UNCHANGED <<queue, said, epoch, done, stopCount, workVars, lock, held, saw, target, before, ghosts>>

(* _handle_stop: the current job's player is terminated; any other job is  *)
(* done.                                                                   *)
HandleStop(a) ==
  /\ pc[a] = "handle"
  /\ IF current = target[a]
       THEN proc' = (IF proc = "recorded" THEN "dying" ELSE proc) /\ UNCHANGED done
       ELSE done' = done \cup {target[a]} /\ UNCHANGED proc
  /\ Returned(a) /\ silenced' = silenced \cup before[a]
  /\ UNCHANGED <<queue, said, epoch, halted, stopCount, worker, current, synth, gaveUp, wav, lock, held, saw, exposed>>

-----------------------------------------------------------------------------
(* open: preflight, voice and a probe synthesis, with the worker at work;  *)
(* one that fails gives back only a reservation that was its own.          *)
Open ==
  /\ lock = None
  /\ lock' = (IF held THEN "open" ELSE "open_new") /\ held' = TRUE
  /\ UNCHANGED <<jobVars, stopCount, workVars, stopVars>>

(* Mutant: a probe that fails gives the reservation back. *)
Opened_Frees ==
  /\ lock \in {"open", "open_new"} /\ lock' = None
  /\ held' \in {TRUE, FALSE}
  /\ UNCHANGED <<jobVars, stopCount, workVars, stopVars>>

Opened ==
  /\ lock \in {"open", "open_new"} /\ lock' = None
  /\ held' \in (IF lock = "open" THEN {TRUE} ELSE {TRUE, FALSE})
  /\ UNCHANGED <<jobVars, stopCount, workVars, stopVars>>

-----------------------------------------------------------------------------
(* close: stop(), the sentinel, a join without a limit, the reservation.   *)
Close ==
  /\ lock = None /\ held /\ pc[Closer] = "idle" /\ stopCount < MaxStops
  /\ lock' = "close" /\ To(Closer, "draining")
  /\ before' = [before EXCEPT ![Closer] = said] /\ exposed' = exposed \cup said
  /\ UNCHANGED <<jobVars, stopCount, workVars, held, saw, target, silenced>>

PutExit ==
  /\ pc[Closer] = "exit" /\ To(Closer, "join")
  /\ queue' = IF worker.at = "none" THEN queue ELSE Append(queue, Exit)
  /\ UNCHANGED <<said, epoch, done, halted, stopCount, workVars, lock, held, saw, target, before, ghosts>>

(* Mutant: the reservation is given back before the worker has ended. *)
Closed_Early ==
  /\ pc[Closer] = "join" /\ To(Closer, "idle")
  /\ held' = FALSE /\ lock' = None
  /\ UNCHANGED <<jobVars, stopCount, workVars, saw, target, before, ghosts>>

Closed ==
  /\ pc[Closer] = "join" /\ worker.at = "none" /\ To(Closer, "idle")
  /\ held' = FALSE /\ lock' = None
  /\ UNCHANGED <<jobVars, stopCount, workVars, saw, target, before, ghosts>>

Next ==
  \/ \E j \in Job : Say(j)
  \/ Put \/ Take \/ Begin \/ Speak \/ GiveUpSynth \/ Synthesised \/ Record \/ PlayEnds \/ Finish
  \/ \E k \in Synth : SynthStep(k)
  \/ \E a \in Caller, j \in Job : StopHandle(a, j)
  \/ \E a \in Actor : Stop(a) \/ Drain(a) \/ Requeue(a) \/ Bump(a) \/ Interrupt(a) \/ HandleStop(a)
  \/ Open \/ Opened \/ Close \/ PutExit \/ Closed

Spec == Init /\ [][Next]_speakerVars

-----------------------------------------------------------------------------
(* Once stop() has returned, nothing said before it plays on: not a job    *)
(* that had just left the queue, not a player that was just starting.      *)
StoppedIsSilent == proc = "recorded" => Doing \notin silenced

(* A stop() takes nothing with it that was said after it returned.         *)
LaterSpeechSurvives == halted \subseteq exposed

(* Every handle that is not done is on its way to be: queued, in the       *)
(* worker's hands, or being queued; and close() never waits for a worker   *)
(* that nothing will wake.                                                 *)
NoHandleIsLost ==
  /\ \A j \in said \ done :
       \/ \E i \in DOMAIN queue : queue[i] = j
       \/ Doing = j
       \/ lock = "say" /\ j + 1 \notin said
  /\ pc[Closer] = "join" /\ worker.at = "idle" => queue # <<>> \/ saw # {}

(* A player runs under the reservation only. *)
PlaysReserved == proc # None => held

(* speaker.py: "`decision_lock` closes the TOCTOU between the two sides    *)
(* checking/setting `gave_up` and deciding the WAV's fate": no file is     *)
(* left that neither the synthesis thread nor the worker will delete.      *)
NoFileIsLeft ==
  \A k \in wav : synth[k] = "running" \/ (k = <<Doing, worker.half>> /\ worker.at \in {"synth", "launching", "playing"})
=============================================================================
