---------------------------- MODULE RealtimePlayback ----------------------------
(***************************************************************************)
(* Playback of a realtime session: the event loop queues chunks of the     *)
(* model's voice, a writer thread feeds them to an aplay process it starts *)
(* on demand, a barge-in drops the queue and hands the process to a thread *)
(* that kills it, and close() ends it all.  The loop calls write(),        *)
(* interrupt() and close() one after the other; the writer and the killers *)
(* run between any two of their steps.                                     *)
(***************************************************************************)
EXTENDS Naturals, Sequences, FiniteSets

CONSTANTS
    MaxChunks,     \* bound: chunks of voice written
    MaxPlayers,    \* bound: aplay processes started
    MaxInterrupts, \* bound: barge-ins
    None           \* no process, no chunk, no generation

PlaybackAssumption == MaxChunks \in Nat /\ MaxPlayers \in Nat /\ MaxInterrupts \in Nat /\ None \notin Nat

VARIABLES
    chunks,      \* how many chunks were queued
    queue,       \* _queue: chunks, each the generation it was queued in, or None, the stop sentinel
    process,     \* _process
    alive,       \* the aplay processes that run
    started,     \* how many were started
    closed,      \* _closed
    generation,  \* _generation
    pending,     \* _pending_kills: the processes of killer threads not yet done
    writer,      \* the writer thread: [pc, chunk, generation, target]
    loop,        \* where the event loop stands in interrupt() or close()
    taken,       \* the process interrupt() or close() took
    waits        \* the killers close() still has to wait for

vars == <<chunks, queue, process, alive, started, closed, generation, pending, writer, loop, taken, waits>>

Waiting == [pc |-> "get", chunk |-> None, generation |-> None, target |-> None]

Init ==
    /\ chunks = 0 /\ queue = <<>> /\ process = None /\ alive = {} /\ started = 0
    /\ closed = FALSE /\ generation = 0 /\ pending = {}
    /\ writer = [Waiting EXCEPT !.pc = "none"]
    /\ loop = "free" /\ taken = None /\ waits = {}

----------------------------------------------------------------------------
(* The event loop *)

\* write(): the first chunk also starts the writer thread.
Write ==
    /\ loop = "free" /\ ~closed /\ chunks < MaxChunks
    /\ chunks' = chunks + 1
    /\ queue' = Append(queue, generation)
    /\ writer' = IF writer.pc = "none" THEN Waiting ELSE writer
    /\ UNCHANGED <<process, alive, started, closed, generation, pending, loop, taken, waits>>

\* interrupt() empties the queue,
Interrupt ==
    /\ loop = "free" /\ ~closed /\ generation < MaxInterrupts
    /\ loop' = "emptied" /\ queue' = <<>>
    /\ UNCHANGED <<chunks, process, alive, started, closed, generation, pending, writer, taken, waits>>

\* takes the process and opens a new generation under the lock,
Reclaim ==
    /\ loop = "emptied"
    /\ taken' = process /\ process' = None
    /\ generation' = generation + 1
    /\ loop' = IF process = None THEN "free" ELSE "killing"
    /\ UNCHANGED <<chunks, queue, alive, started, closed, pending, writer, waits>>

\* Mutant: the killer thread is started and not remembered.
HandOver_Untracked ==
    /\ loop = "killing"
    /\ taken' = None /\ loop' = "free"
    /\ UNCHANGED <<chunks, queue, process, alive, started, closed, generation, pending, writer, waits>>

\* and gives the process to a thread of its own, which it records first.
HandOver ==
    /\ loop = "killing"
    /\ pending' = pending \cup {taken}
    /\ taken' = None /\ loop' = "free"
    /\ UNCHANGED <<chunks, queue, process, alive, started, closed, generation, writer, waits>>

\* close(): no process is started from here on, what is queued is dropped and
\* the writer is told to stop.
Close ==
    /\ loop = "free" /\ ~closed
    /\ closed' = TRUE
    /\ loop' = "joining"
    /\ queue' = IF writer.pc = "none" THEN queue ELSE <<None>>
    /\ UNCHANGED <<chunks, process, alive, started, generation, pending, writer, taken, waits>>

\* The writer has ended, or the join gave up on it; then the process is taken
\* and the killers are listed.
Joined ==
    /\ loop = "joining"
    /\ taken' = process /\ process' = None
    /\ waits' = pending
    /\ loop' = "reaping"
    /\ UNCHANGED <<chunks, queue, alive, started, closed, generation, pending, writer>>

\* A killer is joined; one that has not ended in time has its process killed
\* here, by the handle its entry holds.
Reap ==
    /\ loop = "reaping"
    /\ \E p \in waits :
         /\ waits' = waits \ {p}
         /\ alive' = alive \ {p}
    /\ UNCHANGED <<chunks, queue, process, started, closed, generation, pending, writer, loop, taken>>

\* The process close() took is killed and waited for.
Closed ==
    /\ loop = "reaping" /\ waits = {}
    /\ alive' = alive \ {taken}
    /\ taken' = None /\ loop' = "closed"
    /\ UNCHANGED <<chunks, queue, process, started, closed, generation, pending, writer, waits>>

----------------------------------------------------------------------------
(* The writer thread: _drain *)

Get ==
    /\ writer.pc = "get" /\ queue # <<>>
    /\ queue' = Tail(queue)
    /\ writer' = IF Head(queue) = None THEN [Waiting EXCEPT !.pc = "ended"]
                 ELSE [writer EXCEPT !.pc = "got", !.chunk = Head(queue)]
    /\ UNCHANGED <<chunks, process, alive, started, closed, generation, pending, loop, taken, waits>>

\* The generation the chunk belongs to is read only now, under the lock.
Snapshot ==
    /\ writer.pc = "got"
    /\ writer' = [writer EXCEPT !.pc = "ready", !.generation = generation]
    /\ UNCHANGED <<chunks, queue, process, alive, started, closed, generation, pending, loop, taken, waits>>

\* Mutant: a process is started without asking whether close() has run.
EnsureProcess_Reopens ==
    /\ writer.pc = "ready"
    /\ IF writer.generation # generation
       THEN writer' = Waiting /\ UNCHANGED <<process, alive, started>>
       ELSE IF process \in alive
       THEN writer' = [writer EXCEPT !.pc = "write", !.target = process] /\ UNCHANGED <<process, alive, started>>
       ELSE /\ started < MaxPlayers
            /\ started' = started + 1 /\ process' = started + 1 /\ alive' = alive \cup {started + 1}
            /\ writer' = [writer EXCEPT !.pc = "write", !.target = started + 1]
    /\ UNCHANGED <<chunks, queue, closed, generation, pending, loop, taken, waits>>

\* _ensure_process: a closed playback or a later generation drops the chunk, a
\* process that died is replaced.
EnsureProcess ==
    /\ writer.pc = "ready"
    /\ IF closed \/ writer.generation # generation
       THEN writer' = Waiting /\ UNCHANGED <<process, alive, started>>
       ELSE IF process \in alive
       THEN writer' = [writer EXCEPT !.pc = "write", !.target = process] /\ UNCHANGED <<process, alive, started>>
       ELSE /\ started < MaxPlayers
            /\ started' = started + 1 /\ process' = started + 1 /\ alive' = alive \cup {started + 1}
            /\ writer' = [writer EXCEPT !.pc = "write", !.target = started + 1]
    /\ UNCHANGED <<chunks, queue, closed, generation, pending, loop, taken, waits>>

\* The chunk is written, or the write fails because the process is gone; a
\* write that blocks on a full pipe is one that has not happened yet.
Written ==
    /\ writer.pc = "write"
    /\ writer' = Waiting
    /\ UNCHANGED <<chunks, queue, process, alive, started, closed, generation, pending, loop, taken, waits>>

----------------------------------------------------------------------------
(* Killers and processes *)

\* _kill_and_reap_tracked: the process is killed and reaped, and the thread
\* takes itself off the list.
Killed ==
    /\ \E p \in pending :
         /\ alive' = alive \ {p}
         /\ pending' = pending \ {p}
    /\ UNCHANGED <<chunks, queue, process, started, closed, generation, writer, loop, taken, waits>>

\* aplay ends on its own: a device that was unplugged or is held elsewhere.
Dies ==
    /\ \E p \in alive : alive' = alive \ {p}
    /\ UNCHANGED <<chunks, queue, process, started, closed, generation, pending, writer, loop, taken, waits>>

Next ==
    \/ Write \/ Interrupt \/ Reclaim \/ HandOver \/ Close \/ Joined \/ Reap \/ Closed
    \/ Get \/ Snapshot \/ EnsureProcess \/ Written \/ Killed \/ Dies

Spec == Init /\ [][Next]_vars

----------------------------------------------------------------------------
(* Properties *)

\* No aplay is abandoned: whatever still plays is the current process, one the
\* loop is about to hand over or kill, or one a recorded killer is at work on,
\* and once close() has returned nothing plays -- although the writer may have
\* been given up on with a chunk in its hands (close(), _pending_kills).
NoPlayerIsAbandoned ==
    /\ alive \subseteq ({process, taken} \cup pending \cup waits)
    /\ loop = "closed" => alive = {}

\* What the comments at _generation promise: a chunk already in flight when an
\* interrupt fired cannot be written to a player afterwards.
BargedInAudioIsDropped ==
    (writer.pc = "write" /\ writer.target = process) => writer.chunk = generation
=============================================================================
