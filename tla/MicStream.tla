------------------------------ MODULE MicStream ------------------------------
(***************************************************************************)
(* io/mic_stream.py, io/_mic_registry.py and io/microphone.py: one capture *)
(* thread per open of the stream, fanning chunks out to bounded queues, a  *)
(* close that gives up on a thread stuck in read, and a Microphone that    *)
(* defers to the stream of its device key.                                 *)
(***************************************************************************)
EXTENDS Integers, Sequences

CONSTANTS
  Gen,        (* bound: opens of the stream, 1..n                          *)
  Sub,        (* subscriptions                                             *)
  Room,       (* maxsize of a subscription's queue                         *)
  MaxChunks,  (* bound: chunks read by all generations                     *)
  MayDie,     (* may an exception outside read() end the thread            *)
  None

MicAssumption ==
  /\ Gen \subseteq Nat \ {0} /\ Room \in Nat \ {0} /\ MaxChunks \in Nat /\ MayDie \in BOOLEAN
  /\ None \notin [item : Gen \cup {0}, to : SUBSET Sub]

End == 0              (* _CLOSE_SENTINEL, and close() as a sender          *)
Sender == Gen \cup {End}
MicHolder == -1       (* holders of the reservation beside the generations *)
Recorder == -2

VARIABLES
  opened,      (* _opened                                                  *)
  current,     (* the last generation started, 0 before the first          *)
  closing,     (* close() under _lifecycle_lock: "no", "joining", "notifying" *)
  thread,      (* [Gen -> where its capture thread is]                     *)
  stop,        (* generations whose stop event is set                      *)
  chunks,      (* chunks read                                              *)
  device,      (* generations whose InputStream is open                    *)
  held,        (* holders of the microphone reservation                    *)
  registered,  (* the registry knows the stream under its device key       *)
  subs,        (* _subs                                                    *)
  use,         (* [Sub -> "new", "on", "ended", "off"]                     *)
  meant,       (* [Sub -> the generation it was subscribed for, 0 for the next] *)
  queue,       (* [Sub -> chunks, named by their generation, and End]      *)
  fan,         (* [Sender -> [item, to]: a fan-out under way, or None]     *)
  mic          (* [open, recorder]: the Microphone of the same key         *)

streamVars == <<opened, current, closing, thread, stop, chunks, device, registered>>
subVars == <<subs, use, meant, queue, fan>>
micVars == <<streamVars, held, subVars, mic>>

Init ==
  /\ opened = FALSE /\ current = 0 /\ closing = "no"
  /\ thread = [g \in Gen |-> "none"] /\ stop = {} /\ chunks = 0
  /\ device = {} /\ held = {} /\ registered = FALSE
  /\ subs = {} /\ use = [s \in Sub |-> "new"] /\ meant = [s \in Sub |-> 0] /\ queue = [s \in Sub |-> <<>>]
  /\ fan = [w \in Sender |-> None]
  /\ mic = [open |-> FALSE, recorder |-> "no"]

Alive(g) == thread[g] \notin {"none", "dead"}
Unlocked == closing = "no"

-----------------------------------------------------------------------------
(* Mutant: a second generation starts beside a stuck one. *)
Open_Anyway ==
  /\ ~opened /\ Unlocked /\ current + 1 \in Gen
  /\ opened' = TRUE /\ current' = current + 1
  /\ thread' = [thread EXCEPT ![current + 1] = "loop"]
  /\ device' = device \cup {current + 1} /\ held' = held \cup {current + 1} /\ registered' = TRUE
  /\ meant' = [s \in Sub |-> IF s \in subs /\ meant[s] = 0 THEN current + 1 ELSE meant[s]]
  /\ UNCHANGED <<closing, stop, chunks, subs, use, queue, fan, mic>>

(* open(): refused while an earlier capture thread is alive. *)
Open ==
  /\ ~opened /\ Unlocked /\ current + 1 \in Gen
  /\ \A g \in Gen : ~Alive(g)
  /\ opened' = TRUE /\ current' = current + 1
  /\ thread' = [thread EXCEPT ![current + 1] = "loop"]
  /\ device' = device \cup {current + 1} /\ held' = held \cup {current + 1} /\ registered' = TRUE
  /\ meant' = [s \in Sub |-> IF s \in subs /\ meant[s] = 0 THEN current + 1 ELSE meant[s]]
  /\ UNCHANGED <<closing, stop, chunks, subs, use, queue, fan, mic>>

(* It fails after the reservation: everything is undone, but a stream that *)
(* does not close keeps the reservation.                                   *)
OpenFails ==
  /\ ~opened /\ Unlocked /\ current + 1 \in Gen
  /\ \A g \in Gen : ~Alive(g)
  /\ current' = current + 1
  /\ \/ device' = device /\ held' = held
     \/ device' = device \cup {current + 1} /\ held' = held \cup {current + 1}
  /\ registered' = FALSE
  /\ UNCHANGED <<opened, closing, thread, stop, chunks, subVars, mic>>

-----------------------------------------------------------------------------
(* _run: the stop event is looked at between reads only. *)
Loop(g) ==
  /\ thread[g] = "loop"
  /\ thread' = [thread EXCEPT ![g] = IF g \in stop THEN "finally" ELSE "reading"]
  /\ UNCHANGED <<opened, current, closing, stop, chunks, device, held, registered, subVars, mic>>

(* read() fails, or the processors keep or discard the chunk. *)
NothingToSend(g) ==
  /\ thread[g] = "reading"
  /\ thread' = [thread EXCEPT ![g] = "loop"]
  /\ UNCHANGED <<opened, current, closing, stop, chunks, device, held, registered, subVars, mic>>

Dies(g) ==
  /\ MayDie /\ thread[g] = "reading"
  /\ thread' = [thread EXCEPT ![g] = "finally"]
  /\ UNCHANGED <<opened, current, closing, stop, chunks, device, held, registered, subVars, mic>>

(* read() returns, however late; _dispatch takes the subscribers of now. *)
Dispatch(g) ==
  /\ thread[g] = "reading" /\ chunks < MaxChunks
  /\ thread' = [thread EXCEPT ![g] = "sending"]
  /\ chunks' = chunks + 1
  /\ fan' = [fan EXCEPT ![g] = [item |-> g, to |-> subs]]
  /\ UNCHANGED <<opened, current, closing, stop, device, held, registered, subs, use, meant, queue, mic>>

(* Mutant: a full queue makes the newest item wait, that is: it is dropped. *)
Enqueue_DropNewest(s, item) ==
  queue' = [queue EXCEPT ![s] = IF Len(@) < Room THEN Append(@, item) ELSE @]

(* _enqueue: the oldest makes room. *)
Enqueue(s, item) ==
  queue' = [queue EXCEPT ![s] = IF Len(@) < Room THEN Append(@, item) ELSE Append(Tail(@), item)]

Deliver(w) ==
  /\ fan[w] # None
  /\ \E s \in fan[w].to :
       /\ Enqueue(s, fan[w].item)
       /\ fan' = [fan EXCEPT ![w].to = @ \ {s}]
  /\ UNCHANGED <<streamVars, held, subs, use, meant, mic>>

(* The end of a fan-out: the thread goes on, or is done; close() lets go.  *)
Delivered(w) ==
  /\ fan[w] # None /\ fan[w].to = {}
  /\ fan' = [fan EXCEPT ![w] = None]
  /\ IF w = End
       THEN closing' = "no" /\ registered' = FALSE /\ UNCHANGED thread
       ELSE /\ thread' = [thread EXCEPT ![w] = IF fan[w].item = End THEN "dead" ELSE "loop"]
            /\ UNCHANGED <<closing, registered>>
  /\ UNCHANGED <<opened, current, stop, chunks, device, held, subs, use, meant, queue, mic>>

(* The thread alone closes its stream; one that does not close keeps the   *)
(* reservation.                                                            *)
ReleaseStream(g) ==
  /\ thread[g] = "finally"
  /\ thread' = [thread EXCEPT ![g] = "released"]
  /\ \/ device' = device \ {g} /\ held' = held \ {g}
     \/ UNCHANGED <<device, held>>
  /\ UNCHANGED <<opened, current, closing, stop, chunks, registered, subVars, mic>>

(* Mutant: the list of subscribers is left as it is. *)
NotifyClosed_Keeps(w) ==
  /\ fan' = [fan EXCEPT ![w] = [item |-> End, to |-> subs]]
  /\ UNCHANGED <<subs, use, meant, queue>>

(* _notify_closed: the subscribers are forgotten, then told. *)
NotifyClosed(w) ==
  /\ fan' = [fan EXCEPT ![w] = [item |-> End, to |-> subs]]
  /\ subs' = {}
  /\ UNCHANGED <<use, meant, queue>>

ThreadEnds(g) ==
  /\ thread[g] = "released"
  /\ thread' = [thread EXCEPT ![g] = "telling"]
  /\ NotifyClosed(g)
  /\ UNCHANGED <<opened, current, closing, stop, chunks, device, held, registered, mic>>

-----------------------------------------------------------------------------
Close ==
  /\ opened /\ Unlocked
  /\ opened' = FALSE /\ stop' = stop \cup {current} /\ closing' = "joining"
  /\ UNCHANGED <<current, thread, chunks, device, held, registered, subVars, mic>>

CloseJoined ==
  /\ closing = "joining" /\ ~Alive(current)
  /\ closing' = "no" /\ registered' = FALSE
  /\ UNCHANGED <<opened, current, thread, stop, chunks, device, held, subVars, mic>>

(* Mutant: a close that gives up leaves the telling to the thread. *)
CloseGivesUp_Silent ==
  /\ closing = "joining" /\ Alive(current)
  /\ closing' = "no" /\ registered' = FALSE
  /\ UNCHANGED <<opened, current, thread, stop, chunks, device, held, subVars, mic>>

(* The join times out: the subscribers are told now, stream and            *)
(* reservation stay the thread's.                                          *)
CloseGivesUp ==
  /\ closing = "joining" /\ Alive(current)
  /\ closing' = "notifying"
  /\ NotifyClosed(End)
  /\ UNCHANGED <<opened, current, thread, stop, chunks, device, held, registered, mic>>

-----------------------------------------------------------------------------
(* subscribe() and stream(), before, during or after an open.              *)
Subscribe(s) ==
  /\ use[s] = "new"
  /\ use' = [use EXCEPT ![s] = "on"] /\ subs' = subs \cup {s}
  /\ meant' = [meant EXCEPT ![s] = IF opened THEN current ELSE 0]
  /\ UNCHANGED <<streamVars, held, queue, fan, mic>>

(* get or next: End stops the iteration. *)
Get(s) ==
  /\ use[s] = "on" /\ queue[s] # <<>>
  /\ queue' = [queue EXCEPT ![s] = Tail(@)]
  /\ use' = [use EXCEPT ![s] = IF Head(queue[s]) = End THEN "ended" ELSE @]
  /\ UNCHANGED <<streamVars, held, subs, meant, fan, mic>>

Unsubscribe(s) ==
  /\ use[s] \in {"on", "ended"}
  /\ use' = [use EXCEPT ![s] = "off"] /\ subs' = subs \ {s}
  /\ UNCHANGED <<streamVars, held, meant, queue, fan, mic>>

-----------------------------------------------------------------------------
(* Microphone.open: deferring to a registered stream, or after a probe.    *)
MicOpen ==
  /\ ~mic.open
  /\ mic' = [mic EXCEPT !.open = TRUE] /\ held' = held \cup {MicHolder}
  /\ UNCHANGED <<streamVars, subVars>>

(* Mutant: the recording lives on the reservation of open(). *)
MicRecord_Borrows ==
  /\ mic.open /\ mic.recorder = "no" /\ ~registered
  /\ mic' = [mic EXCEPT !.recorder = "running"]
  /\ UNCHANGED <<streamVars, held, subVars>>

(* record(), when no stream is registered: a recorder under a reservation  *)
(* of its own; a registered stream records through a subscription.         *)
MicRecord ==
  /\ mic.open /\ mic.recorder = "no" /\ ~registered
  /\ mic' = [mic EXCEPT !.recorder = "running"]
  /\ held' = held \cup {Recorder}
  /\ UNCHANGED <<streamVars, subVars>>

MicRecorded ==
  /\ mic.recorder = "running"
  /\ mic' = [mic EXCEPT !.recorder = "no"]
  /\ held' = held \ {Recorder}
  /\ UNCHANGED <<streamVars, subVars>>

MicClose ==
  /\ mic.open
  /\ mic' = [mic EXCEPT !.open = FALSE] /\ held' = held \ {MicHolder}
  /\ UNCHANGED <<streamVars, subVars>>

Next ==
  \/ Open \/ OpenFails \/ Close \/ CloseJoined \/ CloseGivesUp
  \/ \E g \in Gen : Loop(g) \/ NothingToSend(g) \/ Dies(g) \/ Dispatch(g) \/ ReleaseStream(g) \/ ThreadEnds(g)
  \/ \E w \in Sender : Deliver(w) \/ Delivered(w)
  \/ \E s \in Sub : Subscribe(s) \/ Get(s) \/ Unsubscribe(s)
  \/ MicOpen \/ MicRecord \/ MicRecorded \/ MicClose

Spec == Init /\ [][Next]_micVars

-----------------------------------------------------------------------------
Told(s) == \E i \in DOMAIN queue[s] : queue[s][i] = End
BeingTold(s) == \E w \in Sender : fan[w] # None /\ fan[w].item = End /\ s \in fan[w].to

(* When close() has returned, whoever was subscribed to the stream it      *)
(* closed has been told, whether the thread ended or hangs in read: no     *)
(* consumer waits for a stream that is gone.                               *)
NobodyWaitsInVain ==
  ~opened /\ Unlocked =>
    \A s \in Sub : use[s] = "on" /\ meant[s] \in stop => Told(s) \/ BeingTold(s)

(* A subscription from before a close never hears the next generation.     *)
NobodyEavesdrops ==
  \A s \in Sub : use[s] = "on" => \A i \in DOMAIN queue[s] : meant[s] = 0 \/ queue[s][i] <= meant[s]

(* Every device in use, by a thread nobody waits for or a recorder whose   *)
(* Microphone was closed, is under the reservation, and one generation at  *)
(* most reads.                                                             *)
DeviceIsReserved ==
  /\ device \subseteq held
  /\ mic.recorder = "running" => Recorder \in held
  /\ \A g, h \in Gen : Alive(g) /\ Alive(h) => g = h
=============================================================================
