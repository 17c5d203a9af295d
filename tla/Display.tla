------------------------------- MODULE Display -------------------------------
(***************************************************************************)
(* io/display.py: a serial port opened within a bound, a thread per        *)
(* connection that reads it when power events are wanted, and commands     *)
(* that each wait for their reply.                                         *)
(***************************************************************************)
EXTENDS Integers, Sequences, FiniteSets

CONSTANTS
  Port,    (* bound: calls of connect that open a port, numbered from 1    *)
  Caller,  (* threads that send commands                                   *)
  Late,    (* whether a reply may come after its command gave up           *)
  None

Unasked == "unasked"          (* an EVT line or DBG: nobody's reply        *)

DisplayAssumption ==
  /\ Port \subseteq Nat \ {0} /\ None \notin Port /\ Late \in BOOLEAN
  /\ Caller \cap {Unasked, None} = {}

VARIABLES
  callback, (* on_power_event was given                                    *)
  port,     (* [Port -> "none", "opening", "open", "closed", "stuck"]      *)
  orphan,   (* opens whose caller has timed out                            *)
  handles,  (* opens that hold a reservation                               *)
  ser,      (* _ser                                                        *)
  res,      (* _reservation: the open it came from                         *)
  retained, (* previous_reservation of the connect under way               *)
  reader,   (* _reader: the connection it was made for, dead or alive      *)
  thread,   (* [Port -> [at, on]]: the reader thread made for a connection *)
  stop,     (* _stop: one for all of them                                  *)
  lock,     (* _io_lock                                                    *)
  sent,     (* what the display was asked over ser and has not answered    *)
  line,     (* lines on their way to the host over ser                     *)
  replies,  (* _reply_queue                                                *)
  call,     (* [Caller -> [at, on, reply]], on the port it reads itself    *)
  main,     (* connect and disconnect: "idle", "connecting", "starting", "joining" *)
  crossed,  (* connections that found an earlier reader thread alive       *)
  strayed   (* a command took a line of the display's own for its reply    *)

ports == <<port, orphan, handles, ser, res, retained, crossed>>
readers == <<reader, thread, stop>>
traffic == <<sent, line, replies, call, lock, strayed>>
displayVars == <<callback, ports, readers, traffic, main>>

Ready == [at |-> "idle", on |-> None, reply |-> None]
NoThread == [at |-> "none", on |-> None]       (* not started, or returned *)

Init ==
  /\ callback \in BOOLEAN
  /\ port = [p \in Port |-> "none"] /\ orphan = {} /\ handles = {} /\ crossed = {}
  /\ ser = None /\ res = None /\ retained = None
  /\ reader = None /\ thread = [p \in Port |-> NoThread] /\ stop = FALSE
  /\ lock = None /\ sent = <<>> /\ line = <<>> /\ replies = <<>> /\ strayed = FALSE
  /\ call = [c \in Caller |-> Ready] /\ main = "idle"

-----------------------------------------------------------------------------
(* connect: the port is found and opened by a thread of its own.           *)
Connect(p) ==
  /\ main = "idle" /\ ser = None /\ port[p] = "none" /\ (p - 1 \in Port => port[p - 1] # "none")
  /\ port' = [port EXCEPT ![p] = "opening"] /\ handles' = handles \cup {p}
  /\ retained' = res /\ main' = "connecting"
  /\ UNCHANGED <<callback, orphan, ser, res, crossed, readers, traffic>>

Opens(p) ==
  /\ port[p] = "opening"
  /\ IF p \in orphan
       THEN \/ port' = [port EXCEPT ![p] = "closed"] /\ handles' = handles \ {p}   (* _on_late_open *)
            \/ port' = [port EXCEPT ![p] = "stuck"] /\ UNCHANGED handles
       ELSE port' = [port EXCEPT ![p] = "open"] /\ UNCHANGED handles
  /\ UNCHANGED <<callback, orphan, ser, res, retained, crossed, readers, traffic, main>>

(* No face, or no port: what is reserved for it goes back.                 *)
OpenFails(p) ==
  /\ port[p] = "opening"
  /\ port' = [port EXCEPT ![p] = "closed"] /\ handles' = handles \ {p}
  /\ main' = IF p \in orphan THEN main ELSE "idle"
  /\ UNCHANGED <<callback, orphan, ser, res, retained, crossed, readers, traffic>>

TimesOut(p) ==
  /\ main = "connecting" /\ port[p] = "opening" /\ p \notin orphan
  /\ orphan' = orphan \cup {p} /\ main' = "idle"
  /\ UNCHANGED <<callback, port, handles, ser, res, retained, crossed, readers, traffic>>

Alive == {t \in Port : thread[t].at # "none"}

(* Mutant: the reservation of a failed close is dropped, not given back. *)
Connected_Forgets(p) ==
  /\ main = "connecting" /\ port[p] = "open" /\ ser = None
  /\ ser' = p /\ res' = p /\ retained' = None
  /\ crossed' = (IF Alive = {} THEN crossed ELSE crossed \cup {p})
  /\ main' = IF callback THEN "starting" ELSE "idle"
  /\ UNCHANGED <<callback, port, orphan, handles, readers, traffic>>

(* The caller has its port, and a reservation a failed close had kept goes *)
(* back.  From here on a command can use the port.                         *)
Connected(p) ==
  /\ main = "connecting" /\ port[p] = "open" /\ ser = None
  /\ ser' = p /\ res' = p /\ handles' = handles \ {retained} /\ retained' = None
  /\ crossed' = (IF Alive = {} THEN crossed ELSE crossed \cup {p})
  /\ main' = IF callback THEN "starting" ELSE "idle"
  /\ UNCHANGED <<callback, port, orphan, readers, traffic>>

(* The reader starts when there is a callback; _stop is cleared for every  *)
(* reader that is still there.                                             *)
Starts(p) ==
  /\ main = "starting" /\ port[p] # "none" /\ (\A q \in Port : q > p => port[q] = "none")
  /\ reader' = p /\ stop' = FALSE /\ main' = "idle"
  /\ thread' = [thread EXCEPT ![p] = [at |-> "loop", on |-> None]]
  /\ UNCHANGED <<callback, ports, traffic>>

CannotStart ==
  /\ main = "starting"
  /\ reader' = None /\ stop' = TRUE /\ main' = "joining"
  /\ UNCHANGED <<callback, ports, thread, traffic>>

Disconnect ==
  /\ main = "idle" /\ (ser # None \/ reader # None)
  /\ main' = "joining" /\ stop' = TRUE
  /\ UNCHANGED <<callback, ports, reader, thread, traffic>>

(* The reader has ended, or has outlived the bound of the join: the port   *)
(* closes and the reservation goes back; a close that fails keeps it.      *)
Disconnected ==
  /\ main = "joining" /\ main' = "idle" /\ reader' = None /\ ser' = None
  /\ IF ser = None
       THEN UNCHANGED <<port, handles, res>>
       ELSE \/ port' = [port EXCEPT ![ser] = "closed"] /\ handles' = handles \ {res} /\ res' = None
            \/ port' = [port EXCEPT ![ser] = "stuck"] /\ UNCHANGED <<handles, res>>
  /\ sent' = <<>> /\ line' = <<>>
  /\ UNCHANGED <<callback, orphan, retained, crossed, thread, stop, replies, call, lock, strayed>>

-----------------------------------------------------------------------------
(* A command: under the lock the queue is emptied, then it is written.  It *)
(* reads the port itself when no reader was ever made for it.              *)
Send(c) ==
  /\ call[c].at = "idle" /\ lock = None /\ ser # None /\ port[ser] = "open"
  /\ Len(sent) + Len(line) < 2                              (* bound: lines under way *)
  /\ lock' = c
  /\ call' = [call EXCEPT ![c] = [at |-> "waiting", on |-> IF reader = None THEN ser ELSE None, reply |-> None]]
  /\ replies' = (IF reader = None THEN replies ELSE <<>>)
  /\ sent' = Append(sent, c)
  /\ UNCHANGED <<callback, ports, readers, line, strayed, main>>

Answered(c, reply) == call' = [call EXCEPT ![c] = [Ready EXCEPT !.reply = reply]] /\ lock' = None

(* The reply: from the queue.                                              *)
Receive(c) ==
  /\ call[c].at = "waiting" /\ call[c].on = None /\ replies # <<>>
  /\ Answered(c, Head(replies)) /\ replies' = Tail(replies)
  /\ UNCHANGED <<callback, ports, readers, sent, line, strayed, main>>

(* Or the next line of the port, whatever it is, also beside a reader that *)
(* started after the command was written.                                  *)
ReadInline(c) ==
  /\ call[c].at = "waiting" /\ call[c].on # None /\ call[c].on = ser /\ line # <<>>
  /\ Answered(c, Head(line)) /\ line' = Tail(line)
  /\ strayed' = (strayed \/ Head(line) = Unasked)
  /\ UNCHANGED <<callback, ports, readers, sent, replies, main>>

(* What may still reach a command as its reply.                            *)
Pending(c) ==
  \E s \in {sent, line} \cup (IF call[c].on = None THEN {replies} ELSE {}) : \E i \in DOMAIN s : s[i] = c

(* The timeout: an empty reply; the port gone: an error. *)
GiveUp(c) ==
  /\ call[c].at = "waiting"
  /\ Late \/ ~Pending(c) \/ ser = None
  /\ Answered(c, None)
  /\ UNCHANGED <<callback, ports, readers, sent, line, replies, strayed, main>>

-----------------------------------------------------------------------------
(* The display: answers in order, may lose a command or a reply, and says  *)
(* things of its own.  A port whose read has failed says no more.          *)
Answer ==
  /\ sent # <<>> /\ sent' = Tail(sent)
  /\ line' \in {line} \cup {l \in {Append(line, Head(sent))} : port[ser] = "open"}
  /\ UNCHANGED <<callback, ports, readers, replies, call, lock, strayed, main>>

Says ==
  /\ ser # None /\ port[ser] = "open"
  /\ Len(sent) + Len(line) < 2 /\ (\A i \in 1..Len(line) : line[i] # Unasked)   (* bound: lines under way *)
  /\ line' = Append(line, Unasked)
  /\ UNCHANGED <<callback, ports, readers, sent, replies, call, lock, strayed, main>>

At(t, place) == thread' = [thread EXCEPT ![t].at = place]
Loops(t) == thread' = [thread EXCEPT ![t] = [at |-> "loop", on |-> None]]

(* _read_loop: at its top, with the callback behind it, a reader sees      *)
(* _stop, or takes what port there is now.                                 *)
LoopTop(t) ==
  /\ thread[t].at = "loop"
  /\ \/ stop /\ thread' = [thread EXCEPT ![t] = NoThread]
     \/ ~stop /\ ser # None /\ thread' = [thread EXCEPT ![t] = [at |-> "reading", on |-> ser]]
  /\ UNCHANGED <<callback, ports, reader, stop, traffic, main>>

(* Mutant: every line is taken for a reply. *)
ReadLine_Any(t) ==
  /\ thread[t].at = "reading" /\ thread[t].on = ser /\ line # <<>>
  /\ line' = Tail(line) /\ replies' = Append(replies, Head(line)) /\ Loops(t)
  /\ UNCHANGED <<callback, ports, reader, stop, sent, call, lock, strayed, main>>

(* A reply is handed on.  What nobody asked for is dropped, or goes to the *)
(* callback, which the reader may be in for long before it loops.          *)
ReadLine(t) ==
  /\ thread[t].at = "reading" /\ thread[t].on = ser /\ line # <<>>
  /\ line' = Tail(line) /\ Loops(t)
  /\ replies' = IF Head(line) = Unasked THEN replies ELSE Append(replies, Head(line))
  /\ UNCHANGED <<callback, ports, reader, stop, sent, call, lock, strayed, main>>

(* Nothing came for a while.                                               *)
Continues(t) ==
  /\ thread[t].at = "reading" /\ Loops(t)
  /\ UNCHANGED <<callback, ports, reader, stop, traffic, main>>

(* The cable is pulled, or the port was closed under the reader: it closes *)
(* the port it was reading.                                                *)
ReadFails(t) ==
  /\ thread[t].at = "reading"
  /\ \/ port' = [port EXCEPT ![thread[t].on] = "closed"] /\ At(t, "closed")
     \/ /\ port[thread[t].on] # "closed" /\ port' = [port EXCEPT ![thread[t].on] = "stuck"]
        /\ thread' = [thread EXCEPT ![t] = NoThread]
  /\ IF thread[t].on = ser THEN sent' = <<>> /\ line' = <<>> ELSE UNCHANGED <<sent, line>>
  /\ UNCHANGED <<callback, orphan, handles, ser, res, retained, crossed, reader, stop, replies, call, lock,
                 strayed, main>>

(* Then, one after the other and under no lock, it clears the connection,  *)
(* gives back the reservation there is, and forgets it: connect() can come *)
(* in between.                                                             *)
Clears(t) ==
  /\ thread[t].at = "closed" /\ At(t, "cleared")
  /\ ser' = None /\ sent' = <<>> /\ line' = <<>>
  /\ UNCHANGED <<callback, port, orphan, handles, res, retained, crossed, reader, stop, replies, call, lock,
                 strayed, main>>

GivesBack(t) ==
  /\ thread[t].at = "cleared"
  /\ handles' = handles \ {res}
  /\ IF res = None THEN thread' = [thread EXCEPT ![t] = NoThread] ELSE At(t, "released")
  /\ UNCHANGED <<callback, port, orphan, ser, res, retained, crossed, reader, stop, traffic, main>>

Forgets(t) ==
  /\ thread[t].at = "released" /\ thread' = [thread EXCEPT ![t] = NoThread]
  /\ res' = None
  /\ UNCHANGED <<callback, port, orphan, handles, ser, retained, crossed, reader, stop, traffic, main>>

Next ==
  \/ \E p \in Port : Connect(p) \/ Opens(p) \/ OpenFails(p) \/ TimesOut(p) \/ Connected(p) \/ Starts(p)
  \/ CannotStart \/ Disconnect \/ Disconnected
  \/ \E c \in Caller : Send(c) \/ Receive(c) \/ ReadInline(c) \/ GiveUp(c)
  \/ Answer \/ Says
  \/ \E t \in Port :
       LoopTop(t) \/ ReadLine(t) \/ Continues(t) \/ ReadFails(t) \/ Clears(t) \/ GivesBack(t) \/ Forgets(t)

Spec == Init /\ [][Next]_displayVars

-----------------------------------------------------------------------------
(* A port that is open is reserved, and nothing stays reserved that nobody *)
(* would give back: every reservation belongs to an open under way, to an  *)
(* orphan that could not be closed, to the connection, or to the failed    *)
(* close the next connect settles.  Except for a connection that was made  *)
(* while an earlier reader thread had not ended: that thread may give back *)
(* or forget the new reservation.                                          *)
ReservedWhileOpen ==
  /\ \A p \in Port \ crossed : port[p] = "open" => p \in handles
  /\ \A p \in handles \ crossed : port[p] \in {"opening", "open"} \/ p = res \/ (p \in orphan /\ port[p] = "stuck")

(* _read_loop: "a caller watching is_connected can re-connect".  Not so:   *)
(* one that does so at once can find its open port without a reservation.  *)
ReservedOnceReconnected == \A p \in Port : port[p] = "open" => p \in handles

(* _command: "so concurrent callers can't grab each other's replies": what *)
(* a command returns is its own reply or nothing, until one that read the  *)
(* port itself has taken a line of the display's own for its reply.        *)
OwnReplyOnly == ~strayed => \A c \in Caller : call[c].reply \in {None, c}

(* "so we match THIS command's reply".  Not so where no reader sorts the   *)
(* lines.                                                                  *)
EveryReplyMatches == \A c \in Caller : call[c].reply \in {None, c}
=============================================================================
