----------------------------- MODULE ServosProofs -----------------------------
(* The servos for every value of the constants: any number of motors and   *)
(* of attempts to open the bus, any gains and windows, any gestures.  Each *)
(* component has an inductive invariant of its own; the union keeps them   *)
(* all, because a step of one component leaves the part alone.             *)
EXTENDS Servos, SequenceTheorems, WellFoundedInduction, TLAPS

------------------------------------------------------------------------------
(* The bus: the decision of run_with_timeout                               *)

Undone == {"opening", "opened", "failed"}

(* Where a call and its worker may stand together, as the two decisions    *)
(* under decision_lock leave them.                                         *)
Settled(a) ==
  \/ /\ caller[a] = "none" /\ worker[a] = "none"
     /\ result[a] = None /\ ~gaveUp[a] /\ a \notin late
  \/ /\ caller[a] \in {"joining", "joined"} /\ worker[a] \in Undone
     /\ result[a] = None /\ ~gaveUp[a] /\ a \notin late
  \/ /\ caller[a] \in {"joining", "joined"} /\ worker[a] = "done"
     /\ result[a] # None /\ ~gaveUp[a] /\ a \notin late
  \/ /\ caller[a] \in {"abandoning", "returned"} /\ worker[a] = "done"
     /\ result[a] = "value" /\ ~gaveUp[a] /\ a \notin late
  \/ /\ caller[a] \in {"raised", "interrupted"} /\ worker[a] = "done"
     /\ result[a] = "error" /\ ~gaveUp[a] /\ a \notin late
  \/ /\ caller[a] = "interrupted" /\ worker[a] = "done"
     /\ result[a] = "value" /\ ~gaveUp[a] /\ a \in late
  \/ /\ caller[a] \in {"timed out", "interrupted"} /\ worker[a] \in Undone \cup {"late"}
     /\ result[a] = None /\ gaveUp[a] /\ a \notin late
  \/ /\ caller[a] \in {"timed out", "interrupted"} /\ worker[a] = "done"
     /\ result[a] = None /\ gaveUp[a]

Decided == Bus!B!TypeOK /\ \A a \in Attempt : Settled(a)

(* Every step of a call and its worker keeps them settled: the caller      *)
(* gives up only on a result that is not there, the worker parks one only  *)
(* for a caller that has not given up.                                     *)
LEMMA Decides ==
  ASSUME Decided, NEW a \in Attempt, "decide" \notin BusWindow,
         \/ Bus!B!Start(a) \/ Bus!B!Opened(a) \/ Bus!B!Failed(a) \/ Bus!B!Settle(a) \/ Bus!B!HandOver(a)
         \/ Bus!B!Joined(a) \/ Bus!B!Interrupt(a) \/ Bus!B!Abandon(a) \/ Bus!B!InterruptAfterJoin(a)
         \/ Bus!B!Decide(a)
  PROVE  Decided'
<1> USE DEF Decided, Bus!B!TypeOK, Bus!B!Caller, Bus!B!Worker
<1>0. None \notin {"value", "error"}
  BY BusConstants DEF Bus!B!AttemptAssumption
<1>1. CASE Bus!B!Start(a)
  <2>1. Bus!B!TypeOK'
    BY <1>1 DEF Bus!B!Start
  <2>2. ASSUME NEW b \in Attempt PROVE Settled(b)'
    BY <1>1, <1>0 DEF Bus!B!Start, Settled, Undone
  <2> QED BY <2>1, <2>2
<1>2. CASE Bus!B!Opened(a)
  <2>1. Bus!B!TypeOK'
    BY <1>2 DEF Bus!B!Opened
  <2>2. ASSUME NEW b \in Attempt PROVE Settled(b)'
    BY <1>2, <1>0 DEF Bus!B!Opened, Settled, Undone
  <2> QED BY <2>1, <2>2
<1>3. CASE Bus!B!Failed(a)
  <2>1. Bus!B!TypeOK'
    BY <1>3 DEF Bus!B!Failed
  <2>2. ASSUME NEW b \in Attempt PROVE Settled(b)'
    BY <1>3, <1>0 DEF Bus!B!Failed, Settled, Undone
  <2> QED BY <2>1, <2>2
<1>4. CASE Bus!B!Settle(a)
  <2>1. Bus!B!TypeOK'
    BY <1>4 DEF Bus!B!Settle
  <2>2. ASSUME NEW b \in Attempt PROVE Settled(b)'
    BY <1>4, <1>0 DEF Bus!B!Settle, Settled, Undone
  <2> QED BY <2>1, <2>2
<1>5. CASE Bus!B!HandOver(a)
  <2>1. Bus!B!TypeOK'
    BY <1>5 DEF Bus!B!HandOver
  <2>2. ASSUME NEW b \in Attempt PROVE Settled(b)'
    BY <1>5, <1>0 DEF Bus!B!HandOver, Settled, Undone
  <2> QED BY <2>1, <2>2
<1>6. CASE Bus!B!Joined(a)
  <2>1. Bus!B!TypeOK'
    BY <1>6 DEF Bus!B!Joined
  <2>2. ASSUME NEW b \in Attempt PROVE Settled(b)'
    BY <1>6, <1>0 DEF Bus!B!Joined, Settled, Undone
  <2> QED BY <2>1, <2>2
<1>7. CASE Bus!B!Interrupt(a)
  <2>1. Bus!B!TypeOK'
    BY <1>7 DEF Bus!B!Interrupt
  <2>2. ASSUME NEW b \in Attempt PROVE Settled(b)'
    BY <1>7, <1>0 DEF Bus!B!Interrupt, Settled, Undone
  <2> QED BY <2>1, <2>2
<1>8. CASE Bus!B!Abandon(a)
  <2>1. Bus!B!TypeOK'
    BY <1>8 DEF Bus!B!Abandon
  <2>2. ASSUME NEW b \in Attempt PROVE Settled(b)'
    BY <1>8, <1>0 DEF Bus!B!Abandon, Settled, Undone
  <2> QED BY <2>1, <2>2
<1>9. CASE Bus!B!InterruptAfterJoin(a)
  BY <1>9 DEF Bus!B!InterruptAfterJoin
<1>10. CASE Bus!B!Decide(a)
  <2>1. Bus!B!TypeOK'
    BY <1>10 DEF Bus!B!Decide
  <2>2. ASSUME NEW b \in Attempt PROVE Settled(b)'
    BY <1>10, <1>0 DEF Bus!B!Decide, Settled, Undone
  <2> QED BY <2>1, <2>2
<1> QED BY <1>1, <1>2, <1>3, <1>4, <1>5, <1>6, <1>7, <1>8, <1>9, <1>10

(* An opened device has exactly one owner in every state the decisions     *)
(* leave.                                                                  *)
LEMMA OneOwner == Decided => Bus!SoleOwner
<1> SUFFICES ASSUME Decided, NEW a \in Attempt, Bus!B!Open(a)
             PROVE  \E o \in Bus!B!Owners(a) : Bus!B!Owners(a) = {o}
  BY DEF Bus!SoleOwner, Bus!B!SoleOwner
<1>0. None \notin {"value", "error"} /\ Settled(a)
  BY BusConstants DEF Bus!B!AttemptAssumption, Decided
<1>1. CASE caller[a] = "returned"
  <2>1. Bus!B!Owners(a) = {"caller"}
    BY <1>0, <1>1 DEF Settled, Bus!B!Owners, Bus!B!Waiting, Undone
  <2> QED BY <2>1
<1>2. CASE a \in late
  <2>1. Bus!B!Owners(a) = {"late handler"}
    BY <1>0, <1>2 DEF Settled, Bus!B!Owners, Bus!B!Waiting, Undone
  <2> QED BY <2>1
<1>3. CASE worker[a] \in {"opened", "late"}
  <2>1. Bus!B!Owners(a) = {"worker"}
    BY <1>0, <1>3 DEF Settled, Bus!B!Owners, Bus!B!Waiting, Undone
  <2> QED BY <2>1
<1>4. CASE caller[a] # "returned" /\ a \notin late /\ worker[a] \notin {"opened", "late"}
  <2>1. Bus!B!Owners(a) = {"parked"}
    BY <1>0, <1>4 DEF Settled, Bus!B!Owners, Bus!B!Waiting, Bus!B!Open, Undone
  <2> QED BY <2>1
<1> QED BY <1>1, <1>2, <1>3, <1>4

------------------------------------------------------------------------------
(* The bus: port, reservation, torque                                      *)

(* What an attempt holds at each step of its way.                          *)
Stage(a) ==
  \/ at[a] = "none" /\ worker[a] = "none" /\ a \notin port /\ a \notin reserved
  \/ at[a] \in {"find", "reserve"} /\ worker[a] = "opening" /\ a \notin port /\ a \notin reserved
  \/ at[a] = "port" /\ worker[a] = "opening" /\ a \notin port /\ a \in reserved
  \/ /\ at[a] \in {"handshake", "torque off", "configure", "seed", "profile", "torque on", "unwind"}
     /\ worker[a] = "opening" /\ a \in port /\ a \in reserved
  \/ /\ at[a] = "armed" /\ a \in port /\ a \in reserved
     /\ \/ worker[a] \in {"opened", "late"}
        \/ worker[a] = "done" /\ result[a] = "value" /\ a \notin late /\ (Bus!B!Waiting(a) \/ driver = a)
  \/ /\ at[a] = "over" /\ (a \in port <=> a \in reserved) /\ worker[a] \in {"failed", "done"}
     /\ ~(result[a] = "value" /\ Bus!B!Waiting(a))

(* connect() is one call at a time: who waits, waits alone and without a   *)
(* bus in the driver, and the driver's bus is an armed one.                *)
Turns ==
  /\ \A a, b \in Attempt : Bus!B!Waiting(a) /\ Bus!B!Waiting(b) => a = b
  /\ \A a \in Attempt : Bus!B!Waiting(a) => driver = None
  /\ driver # None => at[driver] = "armed" /\ caller[driver] = "returned"

(* Torque somebody has to answer for has an attempt that will answer.      *)
Answered == ~Keep /\ torque # loose => \E a \in Attempt : at[a] \in {"unwind", "armed"}

(* While nobody has given up, an attempt past its seeding has every goal   *)
(* at the present position.                                                *)
Seeded ==
  Bus!Alone => \A a \in Attempt : at[a] \in {"profile", "torque on"} => \A m \in Motor : goal[m] # "stale"

BusInv ==
  /\ Decided /\ Bus!TypeOK
  /\ \A a \in Attempt : Stage(a)
  /\ Turns /\ Answered /\ Seeded

LEMMA BusNames == Keep \in BOOLEAN /\ None \notin Attempt /\ "stale" \notin Attempt /\ None \notin {"value", "error"}
  BY BusConstants DEF Bus!BusAssumption, Bus!B!AttemptAssumption

LEMMA BusInit == Bus!Init => BusInv
<1> SUFFICES ASSUME Bus!Init PROVE BusInv
  OBVIOUS
<1> USE BusNames DEF Bus!Init, Bus!B!Init
<1>1. Decided
  BY DEF Decided, Settled, Bus!B!TypeOK
<1>2. Bus!TypeOK
  BY <1>1 DEF Decided, Bus!TypeOK
<1>3. ASSUME NEW a \in Attempt PROVE Stage(a)
  BY DEF Stage
<1>4. Turns
  BY DEF Turns, Bus!B!Waiting
<1>5. Answered /\ Seeded
  BY DEF Answered, Seeded
<1> QED BY <1>1, <1>2, <1>3, <1>4, <1>5 DEF BusInv

(* What the invariant says of the runs' properties.                        *)
LEMMA BusOwned ==
  ASSUME BusInv PROVE Bus!TypeOK /\ Bus!SoleOwner /\ Bus!TorqueIsOwned /\ Bus!ReservedWhileOpen
<1> USE BusNames
<1>1. Bus!TypeOK /\ Bus!SoleOwner
  BY OneOwner DEF BusInv
<1>2. Bus!TorqueIsOwned
  <2> SUFFICES ASSUME Bus!Quiet, driver = None, ~Keep, torque # loose PROVE FALSE
    BY DEF Bus!TorqueIsOwned
  <2>1. PICK a \in Attempt : at[a] \in {"unwind", "armed"}
    BY DEF BusInv, Answered
  <2> QED BY <2>1 DEF BusInv, Stage, Bus!Quiet
<1>3. Bus!ReservedWhileOpen
  <2>1. ASSUME NEW a \in port PROVE a \in reserved
    <3>1. a \in Attempt
      BY DEF BusInv, Bus!TypeOK
    <3> QED BY <3>1 DEF BusInv, Stage
  <2>2. ASSUME NEW a \in reserved \ port PROVE Bus!At(a, "port")
    <3>1. a \in Attempt
      BY DEF BusInv, Bus!TypeOK
    <3> QED BY <3>1 DEF BusInv, Stage, Bus!At
  <2> QED BY <2>1, <2>2 DEF Bus!ReservedWhileOpen
<1> QED BY <1>1, <1>2, <1>3

(* An attempt nobody gave up on is waited for while it opens.              *)
LEMMA Awaited ==
  ASSUME BusInv, Bus!Alone, NEW a \in Attempt, worker[a] \notin {"none", "done"}
  PROVE  Bus!B!Waiting(a)
  BY DEF BusInv, Decided, Settled, Bus!Alone, Bus!B!Waiting, Bus!B!TypeOK, Undone

LEMMA StillDecided == ASSUME Decided, UNCHANGED Bus!bounded PROVE Decided'
<1>1. Bus!B!TypeOK'
  BY DEF Decided, Bus!bounded, Bus!B!TypeOK
<1>2. ASSUME NEW a \in Attempt PROVE Settled(a)'
  BY DEF Decided, Bus!bounded, Settled
<1> QED BY <1>1, <1>2 DEF Decided

(* An attempt as the invariant sees it.                                    *)
Same(b) ==
  /\ caller'[b] = caller[b] /\ worker'[b] = worker[b] /\ result'[b] = result[b]
  /\ gaveUp'[b] = gaveUp[b] /\ at'[b] = at[b]
  /\ (b \in late' <=> b \in late)
  /\ (b \in port' <=> b \in port) /\ (b \in reserved' <=> b \in reserved)

Only(a) == \A b \in Attempt \ {a} : Same(b)

(* What a step of one attempt owes the invariant: the rest is the others'. *)
LEMMA OneMoves ==
  ASSUME BusInv, NEW a \in Attempt, Only(a), driver' = driver, driver # a,
         Decided', Bus!TypeOK', Stage(a)',
         \/ Bus!B!Waiting(a)' => Bus!B!Waiting(a)
         \/ driver = None /\ \A b \in Attempt : ~Bus!B!Waiting(b),
         gaveUp[a] => gaveUp'[a], a \in late => a \in late',
         \/ torque' = loose'
         \/ at'[a] \in {"unwind", "armed"}
         \/ torque' = torque /\ loose' = loose /\ at[a] \notin {"unwind", "armed"},
         goal' = goal \/ (Bus!Alone' => Bus!B!Waiting(a)),
         Bus!Alone' /\ at'[a] \in {"profile", "torque on"} => \A m \in Motor : goal'[m] # "stale"
  PROVE  BusInv'
<1>1. ASSUME NEW b \in Attempt, b # a PROVE Stage(b)'
  <2>1. Stage(b) /\ Same(b)
    BY <1>1 DEF BusInv, Only
  <2>2. Bus!B!Waiting(b)' = Bus!B!Waiting(b)
    BY <2>1 DEF Same, Bus!B!Waiting
  <2> QED BY <2>1, <2>2 DEF Stage, Same
<1>2. Turns'
  <2>1. ASSUME NEW b \in Attempt, b # a, Bus!B!Waiting(b)' PROVE Bus!B!Waiting(b)
    BY <2>1 DEF Only, Same, Bus!B!Waiting
  <2>2. driver # None => Same(driver)
    BY BusNames DEF BusInv, Bus!TypeOK, Only
  <2> QED BY <2>1, <2>2 DEF BusInv, Turns, Same
<1>3. Answered'
  <2> SUFFICES ASSUME ~Keep, torque' # loose' PROVE \E b \in Attempt : at'[b] \in {"unwind", "armed"}
    BY DEF Answered
  <2>1. CASE at'[a] \in {"unwind", "armed"}
    BY <2>1
  <2>2. CASE torque' = torque /\ loose' = loose /\ at[a] \notin {"unwind", "armed"}
    <3>1. PICK b \in Attempt : at[b] \in {"unwind", "armed"}
      BY <2>2 DEF BusInv, Answered
    <3>2. at'[b] = at[b]
      BY <2>2, <3>1 DEF Only, Same
    <3> QED BY <3>1, <3>2
  <2> QED BY <2>1, <2>2
<1>4. Seeded'
  <2> SUFFICES ASSUME Bus!Alone', NEW b \in Attempt, at'[b] \in {"profile", "torque on"}, NEW m \in Motor
               PROVE  goal'[m] # "stale"
    BY DEF Seeded
  <2>1. Bus!Alone
    <3> SUFFICES ASSUME NEW c \in Attempt PROVE ~gaveUp[c] /\ c \notin late
      BY DEF Bus!Alone
    <3>1. ~gaveUp'[c] /\ c \notin late'
      BY DEF Bus!Alone
    <3> QED BY <3>1 DEF Only, Same
  <2>2. CASE b = a
    BY <2>2
  <2>3. CASE b # a
    <3>1. at[b] \in {"profile", "torque on"}
      BY <2>3 DEF Only, Same
    <3>2. worker[b] = "opening"
      BY <3>1 DEF BusInv, Stage
    <3>3. Bus!B!Waiting(b)
      BY <3>2, <2>1, Awaited
    <3>4. goal' = goal
      BY <3>3, <2>3 DEF BusInv, Turns
    <3> QED BY <3>1, <3>4, <2>1 DEF BusInv, Seeded
  <2> QED BY <2>2, <2>3
<1> QED BY <1>1, <1>2, <1>3, <1>4 DEF BusInv

(* An attempt still under way is not the driver's.                         *)
LEMMA NotYetTheDrivers ==
  ASSUME BusInv, NEW a \in Attempt, worker[a] # "done" \/ Bus!B!Waiting(a) PROVE driver # a
  BY BusNames DEF BusInv, Turns, Decided, Settled, Bus!B!Waiting

(* The ends a call of connect can come to.                                 *)
LEMMA OpenFails ==
  ASSUME BusInv, NEW a \in Attempt, "decide" \notin BusWindow, Bus!B!Failed(a) \/ Bus!B!Opened(a)
  PROVE  /\ Decided' /\ UNCHANGED <<caller, result, gaveUp, late>>
         /\ worker' = [worker EXCEPT ![a] = worker'[a]] /\ worker'[a] \in {"failed", "opened"}
         /\ Bus!B!Failed(a) => worker'[a] = "failed"
         /\ Bus!B!Opened(a) => worker'[a] = "opened"
  BY Decides DEF BusInv, Decided, Bus!B!TypeOK, Bus!B!Failed, Bus!B!Opened, Bus!B!Worker

(* Each step of one attempt, with what it does to the port, the torque and *)
(* the goals.                                                              *)

LEMMA BusFind == ASSUME BusInv, NEW a \in Attempt, "decide" \notin BusWindow, Bus!Find(a) PROVE BusInv'
<1> USE BusNames
<1>1. at[a] = "find" /\ worker[a] = "opening" /\ result[a] = None /\ a \notin port /\ a \notin reserved /\ driver # a
  <2>1. at[a] = "find" /\ worker[a] = "opening"
    BY DEF Bus!Find, Bus!At
  <2>2. result[a] = None
    BY <2>1 DEF BusInv, Decided, Settled, Undone
  <2> QED BY <2>1, <2>2, NotYetTheDrivers DEF BusInv, Stage
<1>0. at = [b \in Attempt |-> at[b]] /\ worker = [b \in Attempt |-> worker[b]]
  BY DEF BusInv, Bus!TypeOK, Decided, Bus!B!TypeOK
<1> USE DEF Bus!Find, Bus!At, Bus!To, Bus!servos
<1>2. /\ Decided' /\ UNCHANGED <<caller, result, gaveUp, late>>
      /\ worker' = [worker EXCEPT ![a] = worker'[a]]
      /\ \/ at'[a] = "reserve" /\ worker'[a] = "opening"
         \/ at'[a] = "over" /\ worker'[a] = "failed"
  <2>1. CASE Bus!B!Failed(a)
    <3>1. Decided' /\ UNCHANGED <<caller, result, gaveUp, late>> /\ worker' = [worker EXCEPT ![a] = "failed"]
      BY <2>1, OpenFails
    <3>2. ~UNCHANGED Bus!bounded
      BY <3>1, <1>0, <1>1 DEF Bus!bounded
    <3>3. at' = [at EXCEPT ![a] = "over"]
      BY <3>2
    <3> QED BY <3>1, <3>3, <1>0
  <2>2. CASE UNCHANGED Bus!bounded
    <3>1. ~Bus!B!Failed(a)
      BY <2>2, <1>0, <1>1 DEF Bus!bounded, Bus!B!Failed, Bus!B!Worker
    <3>2. at' = [at EXCEPT ![a] = "reserve"]
      BY <3>1
    <3>3. Decided' /\ UNCHANGED <<caller, result, gaveUp, late, worker>>
      BY <2>2, StillDecided DEF BusInv, Bus!bounded
    <3> QED BY <3>2, <3>3, <1>0, <1>1
  <2> QED BY <2>1, <2>2
<1>3. \/ at'[a] = "reserve" /\ worker'[a] = "opening" /\ a \notin port' /\ a \notin reserved'
      \/ at'[a] = "over" /\ worker'[a] = "failed" /\ a \notin port' /\ a \notin reserved'
  BY <1>0, <1>1, <1>2
<1>4. Stage(a)'
  BY <1>1, <1>2, <1>3 DEF Stage, Bus!B!Waiting
<1>5. Bus!TypeOK'
  BY <1>2 DEF BusInv, Bus!TypeOK, Decided
<1>6. Only(a)
  <2> SUFFICES ASSUME NEW b \in Attempt, b # a PROVE Same(b)
    BY DEF Only
  <2>1. at'[b] = at[b] /\ worker'[b] = worker[b]
    BY <1>0, <1>2
  <2>2. (b \in port' <=> b \in port) /\ (b \in reserved' <=> b \in reserved)
    OBVIOUS
  <2> QED BY <1>2, <2>1, <2>2 DEF Same
<1>7. Bus!B!Waiting(a)' => Bus!B!Waiting(a)
  BY <1>2 DEF Bus!B!Waiting
<1>8. goal' = goal
  OBVIOUS
<1>9. at'[a] \notin {"profile", "torque on"}
  BY <1>3
<1>10. \/ torque' = loose'
       \/ at'[a] \in {"unwind", "armed"}
       \/ torque' = torque /\ loose' = loose /\ at[a] \notin {"unwind", "armed"}
  BY <1>1, <1>3
<1>11. driver' = driver
  OBVIOUS
<1> HIDE DEF Bus!Find, Bus!At, Bus!To, Bus!servos
<1> QED BY <1>1, <1>2, <1>3, <1>4, <1>5, <1>6, <1>7, <1>8, <1>9, <1>10, <1>11, OneMoves

LEMMA BusReserve == ASSUME BusInv, NEW a \in Attempt, "decide" \notin BusWindow, Bus!Reserve(a) PROVE BusInv'
<1> USE BusNames
<1>1. at[a] = "reserve" /\ worker[a] = "opening" /\ result[a] = None /\ a \notin port /\ a \notin reserved /\ driver # a
  <2>1. at[a] = "reserve" /\ worker[a] = "opening"
    BY DEF Bus!Reserve, Bus!At
  <2>2. result[a] = None
    BY <2>1 DEF BusInv, Decided, Settled, Undone
  <2> QED BY <2>1, <2>2, NotYetTheDrivers DEF BusInv, Stage
<1>0. at = [b \in Attempt |-> at[b]] /\ worker = [b \in Attempt |-> worker[b]]
  BY DEF BusInv, Bus!TypeOK, Decided, Bus!B!TypeOK
<1> USE DEF Bus!Reserve, Bus!At, Bus!To, Bus!servos
<1>2. /\ Decided' /\ UNCHANGED <<caller, result, gaveUp, late>>
      /\ worker' = [worker EXCEPT ![a] = worker'[a]]
      /\ \/ at'[a] = "port" /\ worker'[a] = "opening"
         \/ at'[a] = "over" /\ worker'[a] = "failed"
  <2>1. CASE Bus!B!Failed(a)
    <3>1. Decided' /\ UNCHANGED <<caller, result, gaveUp, late>> /\ worker' = [worker EXCEPT ![a] = "failed"]
      BY <2>1, OpenFails
    <3>2. ~UNCHANGED Bus!bounded
      BY <3>1, <1>0, <1>1 DEF Bus!bounded
    <3>3. at' = [at EXCEPT ![a] = "over"]
      BY <3>2
    <3> QED BY <3>1, <3>3, <1>0
  <2>2. CASE UNCHANGED Bus!bounded
    <3>1. ~Bus!B!Failed(a)
      BY <2>2, <1>0, <1>1 DEF Bus!bounded, Bus!B!Failed, Bus!B!Worker
    <3>2. at' = [at EXCEPT ![a] = "port"]
      BY <3>1
    <3>3. Decided' /\ UNCHANGED <<caller, result, gaveUp, late, worker>>
      BY <2>2, StillDecided DEF BusInv, Bus!bounded
    <3> QED BY <3>2, <3>3, <1>0, <1>1
  <2> QED BY <2>1, <2>2
<1>3. \/ at'[a] = "port" /\ worker'[a] = "opening" /\ a \notin port' /\ a \in reserved'
      \/ at'[a] = "over" /\ worker'[a] = "failed" /\ a \notin port' /\ a \notin reserved'
  BY <1>0, <1>1, <1>2
<1>4. Stage(a)'
  BY <1>1, <1>2, <1>3 DEF Stage, Bus!B!Waiting
<1>5. Bus!TypeOK'
  BY <1>2 DEF BusInv, Bus!TypeOK, Decided
<1>6. Only(a)
  <2> SUFFICES ASSUME NEW b \in Attempt, b # a PROVE Same(b)
    BY DEF Only
  <2>1. at'[b] = at[b] /\ worker'[b] = worker[b]
    BY <1>0, <1>2
  <2>2. (b \in port' <=> b \in port) /\ (b \in reserved' <=> b \in reserved)
    OBVIOUS
  <2> QED BY <1>2, <2>1, <2>2 DEF Same
<1>7. Bus!B!Waiting(a)' => Bus!B!Waiting(a)
  BY <1>2 DEF Bus!B!Waiting
<1>8. goal' = goal
  OBVIOUS
<1>9. at'[a] \notin {"profile", "torque on"}
  BY <1>3
<1>10. \/ torque' = loose'
       \/ at'[a] \in {"unwind", "armed"}
       \/ torque' = torque /\ loose' = loose /\ at[a] \notin {"unwind", "armed"}
  BY <1>1, <1>3
<1>11. driver' = driver
  OBVIOUS
<1> HIDE DEF Bus!Reserve, Bus!At, Bus!To, Bus!servos
<1> QED BY <1>1, <1>2, <1>3, <1>4, <1>5, <1>6, <1>7, <1>8, <1>9, <1>10, <1>11, OneMoves

LEMMA BusOpenPort == ASSUME BusInv, NEW a \in Attempt, "decide" \notin BusWindow, Bus!OpenPort(a) PROVE BusInv'
<1> USE BusNames
<1>1. at[a] = "port" /\ worker[a] = "opening" /\ result[a] = None /\ a \in reserved /\ driver # a
  <2>1. at[a] = "port" /\ worker[a] = "opening"
    BY DEF Bus!OpenPort, Bus!At, Bus!Steps
  <2>2. result[a] = None
    BY <2>1 DEF BusInv, Decided, Settled, Undone
  <2> QED BY <2>1, <2>2, NotYetTheDrivers DEF BusInv, Stage
<1>0. at = [b \in Attempt |-> at[b]] /\ worker = [b \in Attempt |-> worker[b]]
  BY DEF BusInv, Bus!TypeOK, Decided, Bus!B!TypeOK
<1> USE DEF Bus!OpenPort, Bus!Steps, Bus!At, Bus!To, Bus!servos
<1>2. Decided' /\ UNCHANGED <<caller, result, gaveUp, late>>
      /\ worker' = [worker EXCEPT ![a] = "opening"]
  BY <1>0, <1>1, StillDecided DEF BusInv, Bus!bounded
<1>3. \/ at'[a] = "handshake" /\ worker'[a] = "opening" /\ a \in port' /\ a \in reserved'
  BY <1>0, <1>1, <1>2
<1>4. Stage(a)'
  BY <1>1, <1>2, <1>3 DEF Stage, Bus!B!Waiting
<1>5. Bus!TypeOK'
  BY <1>2 DEF BusInv, Bus!TypeOK, Decided
<1>6. Only(a)
  <2> SUFFICES ASSUME NEW b \in Attempt, b # a PROVE Same(b)
    BY DEF Only
  <2>1. at'[b] = at[b] /\ worker'[b] = worker[b]
    BY <1>0, <1>2
  <2>2. (b \in port' <=> b \in port) /\ (b \in reserved' <=> b \in reserved)
    OBVIOUS
  <2> QED BY <1>2, <2>1, <2>2 DEF Same
<1>7. Bus!B!Waiting(a)' => Bus!B!Waiting(a)
  BY <1>2 DEF Bus!B!Waiting
<1>8. goal' = goal
  OBVIOUS
<1>9. at'[a] \notin {"profile", "torque on"}
  BY <1>3
<1>10. \/ torque' = loose'
       \/ at'[a] \in {"unwind", "armed"}
       \/ torque' = torque /\ loose' = loose /\ at[a] \notin {"unwind", "armed"}
  BY <1>1, <1>3
<1>11. driver' = driver
  OBVIOUS
<1> HIDE DEF Bus!OpenPort, Bus!Steps, Bus!At, Bus!To, Bus!servos
<1> QED BY <1>1, <1>2, <1>3, <1>4, <1>5, <1>6, <1>7, <1>8, <1>9, <1>10, <1>11, OneMoves

LEMMA BusHandshake == ASSUME BusInv, NEW a \in Attempt, "decide" \notin BusWindow, Bus!Handshake(a) PROVE BusInv'
<1> USE BusNames
<1>1. at[a] = "handshake" /\ worker[a] = "opening" /\ result[a] = None /\ a \in port /\ a \in reserved /\ driver # a
  <2>1. at[a] = "handshake" /\ worker[a] = "opening"
    BY DEF Bus!Handshake, Bus!At, Bus!Steps
  <2>2. result[a] = None
    BY <2>1 DEF BusInv, Decided, Settled, Undone
  <2> QED BY <2>1, <2>2, NotYetTheDrivers DEF BusInv, Stage
<1>0. at = [b \in Attempt |-> at[b]] /\ worker = [b \in Attempt |-> worker[b]]
  BY DEF BusInv, Bus!TypeOK, Decided, Bus!B!TypeOK
<1> USE DEF Bus!Handshake, Bus!Steps, Bus!At, Bus!To, Bus!servos
<1>2. Decided' /\ UNCHANGED <<caller, result, gaveUp, late>>
      /\ worker' = [worker EXCEPT ![a] = "opening"]
  BY <1>0, <1>1, StillDecided DEF BusInv, Bus!bounded
<1>3. \/ at'[a] = "torque off" /\ worker'[a] = "opening" /\ a \in port' /\ a \in reserved'
  BY <1>0, <1>1, <1>2
<1>4. Stage(a)'
  BY <1>1, <1>2, <1>3 DEF Stage, Bus!B!Waiting
<1>5. Bus!TypeOK'
  BY <1>2 DEF BusInv, Bus!TypeOK, Decided
<1>6. Only(a)
  <2> SUFFICES ASSUME NEW b \in Attempt, b # a PROVE Same(b)
    BY DEF Only
  <2>1. at'[b] = at[b] /\ worker'[b] = worker[b]
    BY <1>0, <1>2
  <2>2. (b \in port' <=> b \in port) /\ (b \in reserved' <=> b \in reserved)
    OBVIOUS
  <2> QED BY <1>2, <2>1, <2>2 DEF Same
<1>7. Bus!B!Waiting(a)' => Bus!B!Waiting(a)
  BY <1>2 DEF Bus!B!Waiting
<1>8. goal' = goal
  OBVIOUS
<1>9. at'[a] \notin {"profile", "torque on"}
  BY <1>3
<1>10. \/ torque' = loose'
       \/ at'[a] \in {"unwind", "armed"}
       \/ torque' = torque /\ loose' = loose /\ at[a] \notin {"unwind", "armed"}
  BY <1>1, <1>3
<1>11. driver' = driver
  OBVIOUS
<1> HIDE DEF Bus!Handshake, Bus!Steps, Bus!At, Bus!To, Bus!servos
<1> QED BY <1>1, <1>2, <1>3, <1>4, <1>5, <1>6, <1>7, <1>8, <1>9, <1>10, <1>11, OneMoves

LEMMA BusConnectFails == ASSUME BusInv, NEW a \in Attempt, "decide" \notin BusWindow, Bus!ConnectFails(a) PROVE BusInv'
<1> USE BusNames
<1>1. at[a] \in {"port", "handshake"} /\ worker[a] = "opening" /\ result[a] = None /\ a \in reserved /\ driver # a
  <2>1. at[a] \in {"port", "handshake"} /\ worker[a] = "opening"
    BY DEF Bus!ConnectFails, Bus!At
  <2>2. result[a] = None
    BY <2>1 DEF BusInv, Decided, Settled, Undone
  <2> QED BY <2>1, <2>2, NotYetTheDrivers DEF BusInv, Stage
<1>0. at = [b \in Attempt |-> at[b]] /\ worker = [b \in Attempt |-> worker[b]]
  BY DEF BusInv, Bus!TypeOK, Decided, Bus!B!TypeOK
<1> USE DEF Bus!ConnectFails, Bus!At, Bus!To, Bus!ClosePort, Bus!servos
<1>2. Decided' /\ UNCHANGED <<caller, result, gaveUp, late>>
      /\ worker' = [worker EXCEPT ![a] = "failed"]
  BY OpenFails
<1>3. \/ at'[a] = "over" /\ worker'[a] = "failed" /\ (a \in port' <=> a \in reserved')
  BY <1>0, <1>1, <1>2
<1>4. Stage(a)'
  BY <1>1, <1>2, <1>3 DEF Stage, Bus!B!Waiting
<1>5. Bus!TypeOK'
  BY <1>2 DEF BusInv, Bus!TypeOK, Decided
<1>6. Only(a)
  <2> SUFFICES ASSUME NEW b \in Attempt, b # a PROVE Same(b)
    BY DEF Only
  <2>1. at'[b] = at[b] /\ worker'[b] = worker[b]
    BY <1>0, <1>2
  <2>2. (b \in port' <=> b \in port) /\ (b \in reserved' <=> b \in reserved)
    OBVIOUS
  <2> QED BY <1>2, <2>1, <2>2 DEF Same
<1>7. Bus!B!Waiting(a)' => Bus!B!Waiting(a)
  BY <1>2 DEF Bus!B!Waiting
<1>8. goal' = goal
  OBVIOUS
<1>9. at'[a] \notin {"profile", "torque on"}
  BY <1>3
<1>10. \/ torque' = loose'
       \/ at'[a] \in {"unwind", "armed"}
       \/ torque' = torque /\ loose' = loose /\ at[a] \notin {"unwind", "armed"}
  BY <1>1, <1>3
<1>11. driver' = driver
  OBVIOUS
<1> HIDE DEF Bus!ConnectFails, Bus!At, Bus!To, Bus!ClosePort, Bus!servos
<1> QED BY <1>1, <1>2, <1>3, <1>4, <1>5, <1>6, <1>7, <1>8, <1>9, <1>10, <1>11, OneMoves

LEMMA BusTorqueOff == ASSUME BusInv, NEW a \in Attempt, "decide" \notin BusWindow, Bus!TorqueOff(a) PROVE BusInv'
<1> USE BusNames
<1>1. at[a] = "torque off" /\ worker[a] = "opening" /\ result[a] = None /\ a \in port /\ a \in reserved /\ driver # a
  <2>1. at[a] = "torque off" /\ worker[a] = "opening"
    BY DEF Bus!TorqueOff, Bus!At
  <2>2. result[a] = None
    BY <2>1 DEF BusInv, Decided, Settled, Undone
  <2> QED BY <2>1, <2>2, NotYetTheDrivers DEF BusInv, Stage
<1>0. at = [b \in Attempt |-> at[b]] /\ worker = [b \in Attempt |-> worker[b]]
  BY DEF BusInv, Bus!TypeOK, Decided, Bus!B!TypeOK
<1> USE DEF Bus!TorqueOff, Bus!At, Bus!To, Bus!Release, Bus!servos
<1>2. Decided' /\ UNCHANGED <<caller, result, gaveUp, late>>
      /\ worker' = [worker EXCEPT ![a] = "opening"]
  BY <1>0, <1>1, StillDecided DEF BusInv, Bus!bounded
<1>3. \/ at'[a] = "unwind" /\ worker'[a] = "opening" /\ a \in port' /\ a \in reserved'
      \/ at'[a] = "configure" /\ worker'[a] = "opening" /\ a \in port' /\ a \in reserved'
  BY <1>0, <1>1, <1>2
<1>4. Stage(a)'
  BY <1>1, <1>2, <1>3 DEF Stage, Bus!B!Waiting
<1>5. Bus!TypeOK'
  <2>1. PICK kept \in SUBSET Motor :
          goal' = [m \in Motor |-> IF m \in kept THEN goal[m] ELSE "stale"]
    OBVIOUS
  <2>2. goal' \in [Motor -> Attempt \cup {"stale"}]
    BY <2>1 DEF BusInv, Bus!TypeOK
  <2> QED BY <1>2, <1>3, <2>2 DEF BusInv, Bus!TypeOK, Decided
<1>6. Only(a)
  <2> SUFFICES ASSUME NEW b \in Attempt, b # a PROVE Same(b)
    BY DEF Only
  <2>1. at'[b] = at[b] /\ worker'[b] = worker[b]
    BY <1>0, <1>2
  <2>2. (b \in port' <=> b \in port) /\ (b \in reserved' <=> b \in reserved)
    OBVIOUS
  <2> QED BY <1>2, <2>1, <2>2 DEF Same
<1>7. Bus!B!Waiting(a)' => Bus!B!Waiting(a)
  BY <1>2 DEF Bus!B!Waiting
<1>8. Bus!Alone' => Bus!B!Waiting(a)
  BY <1>1, <1>2, Awaited DEF Bus!Alone
<1>9. at'[a] \notin {"profile", "torque on"}
  BY <1>3
<1>10. \/ torque' = loose'
       \/ at'[a] \in {"unwind", "armed"}
       \/ torque' = torque /\ loose' = loose /\ at[a] \notin {"unwind", "armed"}
  BY <1>1, <1>3
<1>11. driver' = driver
  OBVIOUS
<1> HIDE DEF Bus!TorqueOff, Bus!At, Bus!To, Bus!Release, Bus!servos
<1> QED BY <1>1, <1>2, <1>3, <1>4, <1>5, <1>6, <1>7, <1>8, <1>9, <1>10, <1>11, OneMoves

LEMMA BusConfigure == ASSUME BusInv, NEW a \in Attempt, "decide" \notin BusWindow, Bus!Configure(a) PROVE BusInv'
<1> USE BusNames
<1>1. at[a] = "configure" /\ worker[a] = "opening" /\ result[a] = None /\ a \in port /\ a \in reserved /\ driver # a
  <2>1. at[a] = "configure" /\ worker[a] = "opening"
    BY DEF Bus!Configure, Bus!At, Bus!Steps
  <2>2. result[a] = None
    BY <2>1 DEF BusInv, Decided, Settled, Undone
  <2> QED BY <2>1, <2>2, NotYetTheDrivers DEF BusInv, Stage
<1>0. at = [b \in Attempt |-> at[b]] /\ worker = [b \in Attempt |-> worker[b]]
  BY DEF BusInv, Bus!TypeOK, Decided, Bus!B!TypeOK
<1> USE DEF Bus!Configure, Bus!Steps, Bus!At, Bus!To, Bus!servos
<1>2. Decided' /\ UNCHANGED <<caller, result, gaveUp, late>>
      /\ worker' = [worker EXCEPT ![a] = "opening"]
  BY <1>0, <1>1, StillDecided DEF BusInv, Bus!bounded
<1>3. \/ at'[a] = "unwind" /\ worker'[a] = "opening" /\ a \in port' /\ a \in reserved'
      \/ at'[a] = "seed" /\ worker'[a] = "opening" /\ a \in port' /\ a \in reserved'
  BY <1>0, <1>1, <1>2
<1>4. Stage(a)'
  BY <1>1, <1>2, <1>3 DEF Stage, Bus!B!Waiting
<1>5. Bus!TypeOK'
  BY <1>2 DEF BusInv, Bus!TypeOK, Decided
<1>6. Only(a)
  <2> SUFFICES ASSUME NEW b \in Attempt, b # a PROVE Same(b)
    BY DEF Only
  <2>1. at'[b] = at[b] /\ worker'[b] = worker[b]
    BY <1>0, <1>2
  <2>2. (b \in port' <=> b \in port) /\ (b \in reserved' <=> b \in reserved)
    OBVIOUS
  <2> QED BY <1>2, <2>1, <2>2 DEF Same
<1>7. Bus!B!Waiting(a)' => Bus!B!Waiting(a)
  BY <1>2 DEF Bus!B!Waiting
<1>8. goal' = goal
  OBVIOUS
<1>9. at'[a] \notin {"profile", "torque on"}
  BY <1>3
<1>10. \/ torque' = loose'
       \/ at'[a] \in {"unwind", "armed"}
       \/ torque' = torque /\ loose' = loose /\ at[a] \notin {"unwind", "armed"}
  BY <1>1, <1>3
<1>11. driver' = driver
  OBVIOUS
<1> HIDE DEF Bus!Configure, Bus!Steps, Bus!At, Bus!To, Bus!servos
<1> QED BY <1>1, <1>2, <1>3, <1>4, <1>5, <1>6, <1>7, <1>8, <1>9, <1>10, <1>11, OneMoves

LEMMA BusSeed == ASSUME BusInv, NEW a \in Attempt, "decide" \notin BusWindow, Bus!Seed(a) PROVE BusInv'
<1> USE BusNames
<1>1. at[a] = "seed" /\ worker[a] = "opening" /\ result[a] = None /\ a \in port /\ a \in reserved /\ driver # a
  <2>1. at[a] = "seed" /\ worker[a] = "opening"
    BY DEF Bus!Seed, Bus!At, Bus!Steps
  <2>2. result[a] = None
    BY <2>1 DEF BusInv, Decided, Settled, Undone
  <2> QED BY <2>1, <2>2, NotYetTheDrivers DEF BusInv, Stage
<1>0. at = [b \in Attempt |-> at[b]] /\ worker = [b \in Attempt |-> worker[b]]
  BY DEF BusInv, Bus!TypeOK, Decided, Bus!B!TypeOK
<1> USE DEF Bus!Seed, Bus!Steps, Bus!At, Bus!To, Bus!servos
<1>2. Decided' /\ UNCHANGED <<caller, result, gaveUp, late>>
      /\ worker' = [worker EXCEPT ![a] = "opening"]
  BY <1>0, <1>1, StillDecided DEF BusInv, Bus!bounded
<1>3. \/ at'[a] = "unwind" /\ worker'[a] = "opening" /\ a \in port' /\ a \in reserved'
      \/ at'[a] = "profile" /\ worker'[a] = "opening" /\ a \in port' /\ a \in reserved'
  BY <1>0, <1>1, <1>2
<1>4. Stage(a)'
  BY <1>1, <1>2, <1>3 DEF Stage, Bus!B!Waiting
<1>5. Bus!TypeOK'
  <2>1. PICK set \in SUBSET Motor :
          goal' = [m \in Motor |-> IF m \in set THEN a ELSE goal[m]]
    OBVIOUS
  <2>2. goal' \in [Motor -> Attempt \cup {"stale"}]
    BY <2>1 DEF BusInv, Bus!TypeOK
  <2> QED BY <1>2, <1>3, <2>2 DEF BusInv, Bus!TypeOK, Decided
<1>6. Only(a)
  <2> SUFFICES ASSUME NEW b \in Attempt, b # a PROVE Same(b)
    BY DEF Only
  <2>1. at'[b] = at[b] /\ worker'[b] = worker[b]
    BY <1>0, <1>2
  <2>2. (b \in port' <=> b \in port) /\ (b \in reserved' <=> b \in reserved)
    OBVIOUS
  <2> QED BY <1>2, <2>1, <2>2 DEF Same
<1>7. Bus!B!Waiting(a)' => Bus!B!Waiting(a)
  BY <1>2 DEF Bus!B!Waiting
<1>8. Bus!Alone' => Bus!B!Waiting(a)
  BY <1>1, <1>2, Awaited DEF Bus!Alone
<1>9. at'[a] = "profile" => \A m \in Motor : goal'[m] # "stale"
  <2>1. PICK set \in SUBSET Motor :
          /\ goal' = [m \in Motor |-> IF m \in set THEN a ELSE goal[m]]
          /\ at' = [at EXCEPT ![a] = "unwind"] \/ set = Motor
    OBVIOUS
  <2> QED BY <2>1, <1>0
<1>10. \/ torque' = loose'
       \/ at'[a] \in {"unwind", "armed"}
       \/ torque' = torque /\ loose' = loose /\ at[a] \notin {"unwind", "armed"}
  BY <1>1, <1>3
<1>11. driver' = driver
  OBVIOUS
<1> HIDE DEF Bus!Seed, Bus!Steps, Bus!At, Bus!To, Bus!servos
<1> QED BY <1>1, <1>2, <1>3, <1>4, <1>5, <1>6, <1>7, <1>8, <1>9, <1>10, <1>11, OneMoves

LEMMA BusProfile == ASSUME BusInv, NEW a \in Attempt, "decide" \notin BusWindow, Bus!Profile(a) PROVE BusInv'
<1> USE BusNames
<1>1. at[a] = "profile" /\ worker[a] = "opening" /\ result[a] = None /\ a \in port /\ a \in reserved /\ driver # a
  <2>1. at[a] = "profile" /\ worker[a] = "opening"
    BY DEF Bus!Profile, Bus!At, Bus!Steps
  <2>2. result[a] = None
    BY <2>1 DEF BusInv, Decided, Settled, Undone
  <2> QED BY <2>1, <2>2, NotYetTheDrivers DEF BusInv, Stage
<1>0. at = [b \in Attempt |-> at[b]] /\ worker = [b \in Attempt |-> worker[b]]
  BY DEF BusInv, Bus!TypeOK, Decided, Bus!B!TypeOK
<1> USE DEF Bus!Profile, Bus!Steps, Bus!At, Bus!To, Bus!servos
<1>2. Decided' /\ UNCHANGED <<caller, result, gaveUp, late>>
      /\ worker' = [worker EXCEPT ![a] = "opening"]
  BY <1>0, <1>1, StillDecided DEF BusInv, Bus!bounded
<1>3. \/ at'[a] = "unwind" /\ worker'[a] = "opening" /\ a \in port' /\ a \in reserved'
      \/ at'[a] = "torque on" /\ worker'[a] = "opening" /\ a \in port' /\ a \in reserved'
  BY <1>0, <1>1, <1>2
<1>4. Stage(a)'
  BY <1>1, <1>2, <1>3 DEF Stage, Bus!B!Waiting
<1>5. Bus!TypeOK'
  BY <1>2 DEF BusInv, Bus!TypeOK, Decided
<1>6. Only(a)
  <2> SUFFICES ASSUME NEW b \in Attempt, b # a PROVE Same(b)
    BY DEF Only
  <2>1. at'[b] = at[b] /\ worker'[b] = worker[b]
    BY <1>0, <1>2
  <2>2. (b \in port' <=> b \in port) /\ (b \in reserved' <=> b \in reserved)
    OBVIOUS
  <2> QED BY <1>2, <2>1, <2>2 DEF Same
<1>7. Bus!B!Waiting(a)' => Bus!B!Waiting(a)
  BY <1>2 DEF Bus!B!Waiting
<1>8. goal' = goal
  OBVIOUS
<1>9. Bus!Alone' => \A m \in Motor : goal'[m] # "stale"
  <2>1. Bus!Alone' => Bus!Alone
    BY <1>2 DEF Bus!Alone
  <2> QED BY <1>1, <1>8, <2>1 DEF BusInv, Seeded
<1>10. \/ torque' = loose'
       \/ at'[a] \in {"unwind", "armed"}
       \/ torque' = torque /\ loose' = loose /\ at[a] \notin {"unwind", "armed"}
  BY <1>1, <1>3
<1>11. driver' = driver
  OBVIOUS
<1> HIDE DEF Bus!Profile, Bus!Steps, Bus!At, Bus!To, Bus!servos
<1> QED BY <1>1, <1>2, <1>3, <1>4, <1>5, <1>6, <1>7, <1>8, <1>9, <1>10, <1>11, OneMoves

LEMMA BusTorqueOn == ASSUME BusInv, NEW a \in Attempt, "decide" \notin BusWindow, Bus!TorqueOn(a) PROVE BusInv'
<1> USE BusNames
<1>1. at[a] = "torque on" /\ worker[a] = "opening" /\ result[a] = None /\ a \in port /\ a \in reserved /\ driver # a
  <2>1. at[a] = "torque on" /\ worker[a] = "opening"
    BY DEF Bus!TorqueOn, Bus!At
  <2>2. result[a] = None
    BY <2>1 DEF BusInv, Decided, Settled, Undone
  <2> QED BY <2>1, <2>2, NotYetTheDrivers DEF BusInv, Stage
<1>0. at = [b \in Attempt |-> at[b]] /\ worker = [b \in Attempt |-> worker[b]]
  BY DEF BusInv, Bus!TypeOK, Decided, Bus!B!TypeOK
<1> USE DEF Bus!TorqueOn, Bus!At, Bus!To, Bus!servos
<1>2. /\ Decided' /\ UNCHANGED <<caller, result, gaveUp, late>>
      /\ worker' = [worker EXCEPT ![a] = worker'[a]]
      /\ \/ at'[a] = "unwind" /\ worker'[a] = "opening"
         \/ at'[a] = "armed" /\ worker'[a] = "opened"
  <2>1. CASE Bus!B!Opened(a)
    <3>1. Decided' /\ UNCHANGED <<caller, result, gaveUp, late>> /\ worker' = [worker EXCEPT ![a] = "opened"]
      BY <2>1, OpenFails
    <3>2. ~UNCHANGED Bus!bounded
      BY <3>1, <1>0, <1>1 DEF Bus!bounded
    <3>3. at' = [at EXCEPT ![a] = "armed"]
      BY <3>2
    <3> QED BY <3>1, <3>3, <1>0
  <2>2. CASE UNCHANGED Bus!bounded
    <3>1. ~Bus!B!Opened(a)
      BY <2>2, <1>0, <1>1 DEF Bus!bounded, Bus!B!Opened, Bus!B!Worker
    <3>2. at' = [at EXCEPT ![a] = "unwind"]
      BY <3>1
    <3>3. Decided' /\ UNCHANGED <<caller, result, gaveUp, late, worker>>
      BY <2>2, StillDecided DEF BusInv, Bus!bounded
    <3> QED BY <3>2, <3>3, <1>0, <1>1
  <2> QED BY <2>1, <2>2
<1>3. \/ at'[a] = "unwind" /\ worker'[a] = "opening" /\ a \in port' /\ a \in reserved'
      \/ at'[a] = "armed" /\ worker'[a] = "opened" /\ a \in port' /\ a \in reserved'
  BY <1>0, <1>1, <1>2
<1>4. Stage(a)'
  BY <1>1, <1>2, <1>3 DEF Stage, Bus!B!Waiting
<1>5. Bus!TypeOK'
  BY <1>2 DEF BusInv, Bus!TypeOK, Decided
<1>6. Only(a)
  <2> SUFFICES ASSUME NEW b \in Attempt, b # a PROVE Same(b)
    BY DEF Only
  <2>1. at'[b] = at[b] /\ worker'[b] = worker[b]
    BY <1>0, <1>2
  <2>2. (b \in port' <=> b \in port) /\ (b \in reserved' <=> b \in reserved)
    OBVIOUS
  <2> QED BY <1>2, <2>1, <2>2 DEF Same
<1>7. Bus!B!Waiting(a)' => Bus!B!Waiting(a)
  BY <1>2 DEF Bus!B!Waiting
<1>8. goal' = goal
  OBVIOUS
<1>9. at'[a] \notin {"profile", "torque on"}
  BY <1>3
<1>10. \/ torque' = loose'
       \/ at'[a] \in {"unwind", "armed"}
       \/ torque' = torque /\ loose' = loose /\ at[a] \notin {"unwind", "armed"}
  BY <1>1, <1>3
<1>11. driver' = driver
  OBVIOUS
<1> HIDE DEF Bus!TorqueOn, Bus!At, Bus!To, Bus!servos
<1> QED BY <1>1, <1>2, <1>3, <1>4, <1>5, <1>6, <1>7, <1>8, <1>9, <1>10, <1>11, OneMoves

LEMMA BusUnwind == ASSUME BusInv, NEW a \in Attempt, "decide" \notin BusWindow, Bus!Unwind(a) PROVE BusInv'
<1> USE BusNames
<1>1. at[a] = "unwind" /\ worker[a] = "opening" /\ result[a] = None /\ a \in port /\ a \in reserved /\ driver # a
  <2>1. at[a] = "unwind" /\ worker[a] = "opening"
    BY DEF Bus!Unwind, Bus!At
  <2>2. result[a] = None
    BY <2>1 DEF BusInv, Decided, Settled, Undone
  <2> QED BY <2>1, <2>2, NotYetTheDrivers DEF BusInv, Stage
<1>0. at = [b \in Attempt |-> at[b]] /\ worker = [b \in Attempt |-> worker[b]]
  BY DEF BusInv, Bus!TypeOK, Decided, Bus!B!TypeOK
<1> USE DEF Bus!Unwind, Bus!At, Bus!To, Bus!ClosePort, Bus!BusDisconnect, Bus!Release, Bus!servos
<1>2. Decided' /\ UNCHANGED <<caller, result, gaveUp, late>>
      /\ worker' = [worker EXCEPT ![a] = "failed"]
  BY OpenFails
<1>12. (\E kept \in SUBSET Motor : Bus!Release(kept)) /\ Bus!ClosePort(a)
  BY <1>1
<1> HIDE DEF Bus!ClosePort, Bus!Release, Bus!BusDisconnect
<1>3. \/ at'[a] = "over" /\ worker'[a] = "failed" /\ (a \in port' <=> a \in reserved')
  BY <1>0, <1>1, <1>2, <1>12 DEF Bus!Release, Bus!ClosePort
<1>4. Stage(a)'
  BY <1>1, <1>2, <1>3 DEF Stage, Bus!B!Waiting
<1>5. Bus!TypeOK'
  BY <1>2, <1>12 DEF Bus!Release, Bus!ClosePort, BusInv, Bus!TypeOK, Decided
<1>6. Only(a)
  <2> SUFFICES ASSUME NEW b \in Attempt, b # a PROVE Same(b)
    BY DEF Only
  <2>1. at'[b] = at[b] /\ worker'[b] = worker[b]
    BY <1>0, <1>2
  <2>2. (b \in port' <=> b \in port) /\ (b \in reserved' <=> b \in reserved)
    BY <1>12 DEF Bus!ClosePort
  <2> QED BY <1>2, <2>1, <2>2 DEF Same
<1>7. Bus!B!Waiting(a)' => Bus!B!Waiting(a)
  BY <1>2 DEF Bus!B!Waiting
<1>8. Bus!Alone' => Bus!B!Waiting(a)
  BY <1>1, <1>2, Awaited DEF Bus!Alone
<1>9. at'[a] \notin {"profile", "torque on"}
  BY <1>3
<1>10. \/ torque' = loose'
       \/ at'[a] \in {"unwind", "armed"}
       \/ torque' = torque /\ loose' = loose /\ at[a] \notin {"unwind", "armed"}
  BY <1>1, <1>3, <1>12 DEF Bus!Release, Bus!ClosePort
<1>11. driver' = driver
  OBVIOUS
<1> HIDE DEF Bus!Unwind, Bus!At, Bus!To, Bus!ClosePort, Bus!BusDisconnect, Bus!Release, Bus!servos
<1> QED BY <1>1, <1>2, <1>3, <1>4, <1>5, <1>6, <1>7, <1>8, <1>9, <1>10, <1>11, OneMoves

LEMMA BusConnect == ASSUME BusInv, NEW a \in Attempt, "decide" \notin BusWindow, Bus!Connect(a) PROVE BusInv'
<1> USE BusNames
<1>1. caller[a] = "none" /\ worker[a] = "none" /\ result[a] = None /\ at[a] = "none" /\ a \notin port /\ a \notin reserved
  BY DEF Bus!Connect, Bus!B!Start, BusInv, Decided, Settled, Stage, Undone
<1>2. driver = None /\ \A b \in Attempt : ~Bus!B!Waiting(b)
  <2>1. driver \notin port /\ \A b \in Attempt : ~Bus!B!Waiting(b)
    BY DEF Bus!Connect
  <2>2. driver # None => driver \in Attempt /\ at[driver] = "armed"
    BY DEF BusInv, Bus!TypeOK, Turns
  <2> QED BY <2>1, <2>2 DEF BusInv, Stage
<1>3. Decided'
  BY Decides DEF Bus!Connect, BusInv
<1>4. /\ caller' = [caller EXCEPT ![a] = "joining"] /\ worker' = [worker EXCEPT ![a] = "opening"]
      /\ at' = [at EXCEPT ![a] = "find"]
      /\ UNCHANGED <<result, gaveUp, late, port, reserved, torque, loose, goal, driver>>
  BY DEF Bus!Connect, Bus!B!Start, Bus!B!Caller, Bus!B!Worker, Bus!To, Bus!servos
<1>5. Bus!TypeOK'
  BY <1>3, <1>4 DEF BusInv, Bus!TypeOK, Decided
<1>6. /\ at = [b \in Attempt |-> at[b]] /\ worker = [b \in Attempt |-> worker[b]]
      /\ caller = [b \in Attempt |-> caller[b]]
  BY DEF BusInv, Bus!TypeOK, Decided, Bus!B!TypeOK
<1>7. Only(a)
  BY <1>4, <1>6 DEF Only, Same
<1>8. at'[a] = "find" /\ worker'[a] = "opening"
  BY <1>4, <1>6
<1>9. Stage(a)'
  BY <1>1, <1>4, <1>8 DEF Stage
<1> QED BY <1>1, <1>2, <1>3, <1>4, <1>5, <1>7, <1>8, <1>9, OneMoves

(* The worker's decision: a value is parked for who still waits.           *)
LEMMA BusSettle == ASSUME BusInv, NEW a \in Attempt, "decide" \notin BusWindow, Bus!Settle(a) PROVE BusInv'
<1> USE BusNames
<1>1. /\ worker[a] \in {"opened", "failed"} /\ driver # a /\ result[a] = None
      /\ worker[a] = "opened" => at[a] = "armed" /\ a \in port /\ a \in reserved
      /\ worker[a] = "failed" => at[a] = "over" /\ (a \in port <=> a \in reserved)
      /\ a \notin late /\ (gaveUp[a] \/ Bus!B!Waiting(a))
  <2>1. worker[a] \in {"opened", "failed"}
    BY DEF Bus!Settle, Bus!B!Settle
  <2>2. result[a] = None /\ a \notin late /\ (gaveUp[a] \/ Bus!B!Waiting(a))
    BY <2>1 DEF BusInv, Decided, Settled, Undone, Bus!B!Waiting
  <2> QED BY <2>1, <2>2, NotYetTheDrivers DEF BusInv, Stage
<1>2. Decided'
  BY Decides DEF Bus!Settle, BusInv
<1>3. UNCHANGED <<caller, gaveUp, late, at, port, reserved, torque, loose, goal, driver>>
  BY DEF Bus!Settle, Bus!B!Settle, Bus!servos
<1>4. worker = [b \in Attempt |-> worker[b]] /\ result = [b \in Attempt |-> result[b]]
  BY DEF BusInv, Bus!TypeOK, Decided, Bus!B!TypeOK
<1>5. /\ worker' = [worker EXCEPT ![a] = IF gaveUp[a] /\ worker[a] = "opened" THEN "late" ELSE "done"]
      /\ gaveUp[a] => result' = result
      /\ ~gaveUp[a] => result' = [result EXCEPT ![a] = IF worker[a] = "opened" THEN "value" ELSE "error"]
  BY DEF Bus!Settle, Bus!B!Settle, Bus!B!Worker
<1>6. Bus!TypeOK'
  BY <1>2, <1>3 DEF BusInv, Bus!TypeOK, Decided
<1>7. Only(a)
  BY <1>3, <1>4, <1>5 DEF Only, Same
<1>8. Stage(a)'
  <2>1. CASE worker[a] = "opened" /\ gaveUp[a]
    BY <2>1, <1>1, <1>3, <1>4, <1>5 DEF Stage
  <2>2. CASE worker[a] = "opened" /\ ~gaveUp[a]
    BY <2>2, <1>1, <1>3, <1>4, <1>5 DEF Stage, Bus!B!Waiting
  <2>3. CASE worker[a] = "failed"
    BY <2>3, <1>1, <1>3, <1>4, <1>5 DEF Stage, Bus!B!Waiting
  <2> QED BY <1>1, <2>1, <2>2, <2>3
<1>9. Bus!B!Waiting(a)' = Bus!B!Waiting(a)
  BY <1>3 DEF Bus!B!Waiting
<1>10. \/ at'[a] \in {"unwind", "armed"}
       \/ torque' = torque /\ loose' = loose /\ at[a] \notin {"unwind", "armed"}
  BY <1>1, <1>3
<1>11. at'[a] \notin {"profile", "torque on"}
  BY <1>1, <1>3
<1> QED BY <1>1, <1>2, <1>3, <1>6, <1>7, <1>8, <1>9, <1>10, <1>11, OneMoves

(* The waiting thread: the deadline, or an interrupt that leaves a parked  *)
(* value to be closed.                                                     *)
LEMMA BusWait == ASSUME BusInv, NEW a \in Attempt, "decide" \notin BusWindow, Bus!Wait(a) PROVE BusInv'
<1> USE BusNames
<1>1. Bus!B!Joined(a) \/ Bus!B!Interrupt(a)
  BY DEF Bus!Wait, Bus!B!InterruptAfterJoin
<1>2. Bus!B!Waiting(a) /\ driver # a /\ ~gaveUp[a]
  BY <1>1, NotYetTheDrivers DEF Bus!B!Joined, Bus!B!Interrupt, Bus!B!Waiting, BusInv, Decided, Settled
<1>3. Decided'
  BY <1>1, Decides DEF BusInv
<1>4. UNCHANGED <<worker, result, late, at, port, reserved, torque, loose, goal, driver>>
  BY <1>1 DEF Bus!Wait, Bus!B!Joined, Bus!B!Interrupt, Bus!servos
<1>5. caller = [b \in Attempt |-> caller[b]] /\ gaveUp = [b \in Attempt |-> gaveUp[b]]
  BY DEF BusInv, Bus!TypeOK, Decided, Bus!B!TypeOK
<1>6. caller' = [caller EXCEPT ![a] = caller'[a]] /\ gaveUp' = [gaveUp EXCEPT ![a] = gaveUp'[a]]
  BY <1>1, <1>5 DEF Bus!B!Joined, Bus!B!Interrupt, Bus!B!Caller
<1>7. result[a] = "value" => Bus!B!Waiting(a)'
  BY <1>1, <1>4, <1>5 DEF Bus!B!Joined, Bus!B!Interrupt, Bus!B!Caller, Bus!B!Waiting
<1>8. Bus!TypeOK'
  BY <1>3, <1>4 DEF BusInv, Bus!TypeOK, Decided
<1>9. Only(a)
  BY <1>4, <1>5, <1>6 DEF Only, Same
<1>10. Stage(a)'
  <2>1. Stage(a)
    BY DEF BusInv
  <2> QED BY <2>1, <1>2, <1>4, <1>7 DEF Stage
<1>11. \/ at'[a] \in {"unwind", "armed"}
       \/ torque' = torque /\ loose' = loose /\ at[a] \notin {"unwind", "armed"}
  BY <1>4
<1>12. Bus!Alone' /\ at'[a] \in {"profile", "torque on"} => \A m \in Motor : goal'[m] # "stale"
  <2> SUFFICES ASSUME Bus!Alone', at'[a] \in {"profile", "torque on"} PROVE \A m \in Motor : goal'[m] # "stale"
    OBVIOUS
  <2>1. \A c \in Attempt : ~gaveUp'[c] /\ c \notin late'
    BY DEF Bus!Alone
  <2>2. \A c \in Attempt : gaveUp[c] => gaveUp'[c]
    BY <1>2, <1>6, <1>5
  <2>3. Bus!Alone
    BY <2>1, <2>2, <1>4 DEF Bus!Alone
  <2> QED BY <2>3, <1>4 DEF BusInv, Seeded
<1> QED BY <1>2, <1>3, <1>4, <1>8, <1>9, <1>10, <1>11, <1>12, OneMoves

(* A bus nobody owns is closed, on either thread.                          *)
LEMMA BusCloseOrphan ==
  ASSUME BusInv, NEW a \in Attempt, "decide" \notin BusWindow, Bus!CloseOrphan(a) PROVE BusInv'
<1> USE BusNames
<1>1. Bus!B!HandOver(a) \/ Bus!B!Abandon(a)
  BY DEF Bus!CloseOrphan
<1>2. at[a] = "armed" /\ a \in port /\ a \in reserved /\ driver # a
  <2>1. CASE Bus!B!HandOver(a)
    BY <2>1, NotYetTheDrivers DEF Bus!B!HandOver, BusInv, Stage
  <2>2. CASE Bus!B!Abandon(a)
    <3>1. Bus!B!Waiting(a) /\ result[a] = "value" /\ worker[a] = "done"
      BY <2>2 DEF Bus!B!Abandon, Bus!B!Waiting, BusInv, Decided, Settled
    <3> QED BY <3>1, NotYetTheDrivers DEF BusInv, Stage
  <2> QED BY <1>1, <2>1, <2>2
<1>3. Decided'
  BY <1>1, Decides DEF BusInv
<1>4. /\ late' = late \cup {a} /\ UNCHANGED <<result, gaveUp, driver>>
      /\ at' = [at EXCEPT ![a] = "over"]
      /\ Bus!ClosePort(a) /\ \E kept \in SUBSET Motor : Bus!Release(kept)
  BY <1>1, <1>2 DEF Bus!CloseOrphan, Bus!B!HandOver, Bus!B!Abandon, Bus!To, Bus!BusDisconnect
<1>5. /\ caller = [b \in Attempt |-> caller[b]] /\ worker = [b \in Attempt |-> worker[b]]
      /\ at = [b \in Attempt |-> at[b]]
  BY DEF BusInv, Bus!TypeOK, Decided, Bus!B!TypeOK
<1>6. /\ caller' = [caller EXCEPT ![a] = caller'[a]] /\ worker' = [worker EXCEPT ![a] = "done"]
      /\ ~Bus!B!Waiting(a)'
  <2>1. CASE Bus!B!HandOver(a)
    <3>1. caller[a] \in {"timed out", "interrupted"}
      BY <2>1 DEF Bus!B!HandOver, BusInv, Decided, Settled, Undone
    <3> QED BY <2>1, <3>1, <1>5 DEF Bus!B!HandOver, Bus!B!Worker, Bus!B!Waiting
  <2>2. CASE Bus!B!Abandon(a)
    <3>1. worker[a] = "done"
      BY <2>2 DEF Bus!B!Abandon, BusInv, Decided, Settled
    <3> QED BY <2>2, <3>1, <1>5 DEF Bus!B!Abandon, Bus!B!Caller, Bus!B!Waiting
  <2> QED BY <1>1, <2>1, <2>2
<1>7. torque' = loose' /\ torque' \subseteq torque /\ goal' \in [Motor -> Attempt \cup {"stale"}]
  BY <1>4 DEF Bus!Release, BusInv, Bus!TypeOK
<1>8. port' \subseteq port /\ reserved' \subseteq reserved /\ (a \in port' <=> a \in reserved')
  BY <1>2, <1>4 DEF Bus!ClosePort
<1>9. Bus!TypeOK'
  BY <1>3, <1>4, <1>7, <1>8 DEF BusInv, Bus!TypeOK, Decided
<1>10. Only(a)
  <2> SUFFICES ASSUME NEW b \in Attempt, b # a PROVE Same(b)
    BY DEF Only
  <2>1. at'[b] = at[b] /\ worker'[b] = worker[b] /\ caller'[b] = caller[b]
    BY <1>4, <1>5, <1>6
  <2>2. (b \in port' <=> b \in port) /\ (b \in reserved' <=> b \in reserved) /\ (b \in late' <=> b \in late)
    BY <1>4 DEF Bus!ClosePort
  <2> QED BY <1>4, <2>1, <2>2 DEF Same
<1>11. at'[a] = "over" /\ worker'[a] = "done"
  BY <1>4, <1>5, <1>6
<1>12. Stage(a)'
  BY <1>6, <1>8, <1>11 DEF Stage
<1>13. ~Bus!Alone'
  BY <1>4 DEF Bus!Alone
<1> QED BY <1>2, <1>3, <1>4, <1>6, <1>7, <1>9, <1>10, <1>11, <1>12, <1>13, OneMoves

(* The caller's decision: the driver takes the bus it was given.           *)
LEMMA BusDecide == ASSUME BusInv, NEW a \in Attempt, "decide" \notin BusWindow, Bus!Decide(a) PROVE BusInv'
<1> USE BusNames
<1>1. caller[a] = "joined" /\ Bus!B!Waiting(a) /\ driver = None /\ ~gaveUp[a]
  BY DEF Bus!Decide, Bus!B!Decide, Bus!B!Waiting, BusInv, Turns, Decided, Settled
<1>2. Decided'
  BY Decides DEF Bus!Decide, BusInv
<1>3. UNCHANGED <<worker, result, late, at, port, reserved, torque, loose, goal>>
  BY DEF Bus!Decide, Bus!B!Decide, Bus!servos
<1>4. caller = [b \in Attempt |-> caller[b]] /\ gaveUp = [b \in Attempt |-> gaveUp[b]]
  BY DEF BusInv, Bus!TypeOK, Decided, Bus!B!TypeOK
<1>5. /\ caller' = [caller EXCEPT ![a] = caller'[a]] /\ gaveUp' = [gaveUp EXCEPT ![a] = gaveUp'[a]]
      /\ ~Bus!B!Waiting(a)' /\ (caller'[a] = "returned" <=> result[a] = "value")
      /\ driver' = IF caller'[a] = "returned" THEN a ELSE None
  BY <1>1, <1>4 DEF Bus!Decide, Bus!B!Decide, Bus!B!Caller, Bus!B!Waiting
<1>6. ASSUME NEW b \in Attempt PROVE ~Bus!B!Waiting(b)' /\ (b # a => caller'[b] = caller[b] /\ gaveUp'[b] = gaveUp[b])
  <2>1. b # a => ~Bus!B!Waiting(b)
    BY <1>1 DEF BusInv, Turns
  <2> QED BY <2>1, <1>4, <1>5 DEF Bus!B!Waiting
<1>7. result[a] = "value" => at[a] = "armed" /\ a \in port /\ a \in reserved /\ worker[a] = "done" /\ a \notin late
  <2>1. result[a] = "value" => worker[a] = "done" /\ a \notin late
    BY <1>1 DEF BusInv, Decided, Settled
  <2> QED BY <1>1, <2>1 DEF BusInv, Stage
<1>8. Bus!TypeOK'
  BY <1>2, <1>3, <1>5 DEF BusInv, Bus!TypeOK, Decided
<1>9. ASSUME NEW b \in Attempt PROVE Stage(b)'
  <2>0. Stage(b) /\ (b # a => ~Bus!B!Waiting(b))
    BY <1>1 DEF BusInv, Turns
  <2>1. CASE b # a
    BY <2>0, <2>1, <1>1, <1>3, <1>6 DEF Stage
  <2>2. CASE b = a /\ result[a] = "value"
    BY <2>2, <1>3, <1>5, <1>7 DEF Stage
  <2>3. CASE b = a /\ result[a] # "value"
    BY <2>0, <2>3, <1>1, <1>3, <1>5 DEF Stage
  <2> QED BY <2>1, <2>2, <2>3
<1>10. Turns'
  BY <1>3, <1>5, <1>6, <1>7 DEF Turns
<1>11. Answered'
  BY <1>3 DEF BusInv, Answered
<1>12. Seeded'
  <2>1. Bus!Alone' => Bus!Alone
    <3> SUFFICES ASSUME Bus!Alone', NEW c \in Attempt PROVE ~gaveUp[c] /\ c \notin late
      BY DEF Bus!Alone
    <3>1. ~gaveUp'[c] /\ c \notin late'
      BY DEF Bus!Alone
    <3> QED BY <3>1, <1>1, <1>3, <1>6
  <2> QED BY <2>1, <1>3 DEF BusInv, Seeded
<1> QED BY <1>2, <1>8, <1>9, <1>10, <1>11, <1>12 DEF BusInv

(* disconnect(): the driver lets go of its bus, whatever fails.            *)
LEMMA BusDisconnects == ASSUME BusInv, Bus!Disconnect PROVE BusInv'
<1> USE BusNames
<1>1. /\ driver \in Attempt /\ at[driver] = "armed" /\ caller[driver] = "returned"
      /\ driver \in port /\ driver \in reserved /\ worker[driver] = "done"
      /\ \A b \in Attempt : ~Bus!B!Waiting(b)
  <2>1. driver \in Attempt /\ at[driver] = "armed" /\ caller[driver] = "returned"
    BY DEF Bus!Disconnect, BusInv, Bus!TypeOK, Turns
  <2>2. worker[driver] = "done"
    BY <2>1 DEF BusInv, Decided, Settled
  <2> QED BY <2>1, <2>2 DEF Bus!Disconnect, BusInv, Stage, Turns
<1>2. /\ UNCHANGED <<caller, worker, result, gaveUp, late>> /\ driver' = None
      /\ at' = [at EXCEPT ![driver] = "over"] /\ Bus!ClosePort(driver)
      /\ IF ~Keep THEN \E kept \in SUBSET Motor : Bus!Release(kept) ELSE UNCHANGED <<torque, goal, loose>>
  BY <1>1 DEF Bus!Disconnect, Bus!bounded, Bus!BusDisconnect, Bus!servos
<1>3. Decided'
  BY <1>2, StillDecided DEF BusInv, Bus!bounded
<1>4. /\ torque' \subseteq torque /\ loose' \subseteq torque' /\ (~Keep => torque' = loose')
      /\ goal' \in [Motor -> Attempt \cup {"stale"}]
  <2>1. CASE Keep
    BY <2>1, <1>2 DEF BusInv, Bus!TypeOK
  <2>2. CASE ~Keep
    BY <2>2, <1>2 DEF BusInv, Bus!TypeOK, Bus!Release
  <2> QED BY <2>1, <2>2
<1>5. port' \subseteq port /\ reserved' \subseteq reserved /\ (driver \in port' <=> driver \in reserved')
  BY <1>1, <1>2 DEF Bus!ClosePort
<1>6. Bus!TypeOK'
  BY <1>1, <1>2, <1>3, <1>4, <1>5 DEF BusInv, Bus!TypeOK, Decided
<1>7. ASSUME NEW b \in Attempt PROVE Stage(b)' /\ (b # driver => at'[b] = at[b])
  <2>0. Stage(b) /\ at = [c \in Attempt |-> at[c]]
    BY DEF BusInv, Bus!TypeOK
  <2>1. (b # driver => (b \in port' <=> b \in port) /\ (b \in reserved' <=> b \in reserved)) /\ ~Bus!B!Waiting(b)'
    BY <1>1, <1>2 DEF Bus!ClosePort, Bus!B!Waiting
  <2>2. CASE b = driver
    <3>1. at'[b] = "over" /\ worker'[b] = "done" /\ (b \in port' <=> b \in reserved')
      BY <2>0, <2>2, <1>1, <1>2, <1>5
    <3> QED BY <2>1, <2>2, <3>1 DEF Stage
  <2>3. CASE b # driver
    <3>1. at'[b] = at[b] /\ ~Bus!B!Waiting(b)
      BY <2>0, <2>3, <1>1, <1>2
    <3> QED BY <2>0, <2>1, <2>3, <3>1, <1>2 DEF Stage
  <2> QED BY <2>2, <2>3
<1>8. Turns'
  BY <1>1, <1>2 DEF Turns, Bus!B!Waiting
<1>9. Answered'
  BY <1>4 DEF Answered
<1>10. Seeded'
  <2> SUFFICES ASSUME Bus!Alone', NEW b \in Attempt, at'[b] \in {"profile", "torque on"} PROVE FALSE
    BY DEF Seeded
  <2>1. Bus!Alone
    BY <1>2 DEF Bus!Alone
  <2>2. worker[b] = "opening"
    BY <1>2, <1>7 DEF Stage
  <2> QED BY <1>1, <2>1, <2>2, Awaited
<1> QED BY <1>3, <1>6, <1>7, <1>8, <1>9, <1>10 DEF BusInv

LEMMA BusStutters == ASSUME BusInv, UNCHANGED Bus!vars PROVE BusInv'
<1>1. UNCHANGED <<caller, worker, result, gaveUp, late, at, port, reserved, torque, goal, loose, driver>>
  BY DEF Bus!vars, Bus!bounded, Bus!servos
<1>2. Decided'
  BY <1>1, StillDecided DEF BusInv, Bus!bounded
<1>3. ASSUME NEW a \in Attempt PROVE Stage(a)'
  <2>1. Stage(a)
    BY DEF BusInv
  <2> QED BY <2>1, <1>1 DEF Stage, Bus!B!Waiting
<1>4. Bus!TypeOK' /\ Turns'
  BY <1>1, <1>2 DEF BusInv, Bus!TypeOK, Decided, Turns, Bus!B!Waiting
<1>5. Answered' /\ Seeded'
  BY <1>1 DEF BusInv, Answered, Seeded, Bus!Alone
<1> QED BY <1>2, <1>3, <1>4, <1>5 DEF BusInv

LEMMA BusStep == ASSUME BusInv, "decide" \notin BusWindow, Bus!Next PROVE BusInv'
<1>1. CASE \E a \in Attempt : Bus!Connect(a) \/ Bus!Opens(a) \/ Bus!Wait(a) \/ Bus!CloseOrphan(a) \/ Bus!Decide(a)
  <2>1. PICK a \in Attempt : Bus!Connect(a) \/ Bus!Opens(a) \/ Bus!Wait(a) \/ Bus!CloseOrphan(a) \/ Bus!Decide(a)
    BY <1>1
  <2>2. CASE Bus!Opens(a)
    BY <2>2, BusFind, BusReserve, BusOpenPort, BusHandshake, BusConnectFails, BusTorqueOff, BusConfigure,
       BusSeed, BusProfile, BusTorqueOn, BusUnwind, BusSettle DEF Bus!Opens
  <2> QED BY <2>1, <2>2, BusConnect, BusWait, BusCloseOrphan, BusDecide
<1>2. CASE Bus!Disconnect
  BY <1>2, BusDisconnects
<1>3. CASE Bus!Done
  BY <1>3, BusStutters DEF Bus!Done
<1> QED BY <1>1, <1>2, <1>3 DEF Bus!Next

(* Torque goes on in one place, past the seeding.                          *)
LEMMA ArmedWhereHeld == ASSUME BusInv, Bus!Next PROVE Bus!HeldBeforeArmed
<1> SUFFICES ASSUME NEW m \in torque' \ torque, Bus!Alone PROVE goal[m] # "stale"
  BY DEF Bus!HeldBeforeArmed
<1>1. PICK a \in Attempt : Bus!TorqueOn(a)
  BY DEF Bus!Next, Bus!Connect, Bus!Opens, Bus!Wait, Bus!CloseOrphan, Bus!Decide, Bus!Find, Bus!Reserve, Bus!OpenPort,
     Bus!Handshake, Bus!ConnectFails, Bus!TorqueOff, Bus!Configure, Bus!Seed, Bus!Profile, Bus!Unwind, Bus!Settle,
     Bus!Disconnect, Bus!Done, Bus!BusDisconnect, Bus!Release, Bus!servos, Bus!vars
<1>2. at[a] = "torque on" /\ m \in Motor
  BY <1>1 DEF Bus!TorqueOn, Bus!At, BusInv, Bus!TypeOK
<1> QED BY <1>2 DEF BusInv, Seeded

------------------------------------------------------------------------------
(* The driver's write path                                                 *)

Safe == SafeMin..SafeMax

(* What the clamp needs of its history: the goals it wrote and the filter's *)
(* last outputs are safe, and the filter weighs the new goal with 1/4 or 1. *)
DriverInv ==
  /\ open => verbatim \/ goal \in [Motor -> Safe]
  /\ filtered \in [Motor -> Safe \cup {None}]
  /\ filter.quarters \in {1, 4}

(* A filter between two safe ticks is safe.                                *)
LEMMA SmoothIsSafe ==
  ASSUME NEW t \in Safe, NEW p \in Safe, filter.quarters \in {1, 4}
  PROVE  Driver!Smooth(t, p) \in Safe
<1> SafeMin \in Int /\ SafeMax \in Int
  BY DriverConstants DEF Driver!DriverAssumption
<1>1. CASE filter.quarters = 1
  BY <1>1 DEF Driver!Smooth, Safe
<1>2. CASE filter.quarters = 4
  <2>1. Driver!Smooth(t, p) = t
    BY <1>2 DEF Driver!Smooth, Safe
  <2> QED BY <2>1
<1> QED BY <1>1, <1>2

(* Clamped and filtered goals are safe, whatever was asked for.            *)
LEMMA FilteredIsSafe ==
  ASSUME DriverInv, NEW target \in [Motor -> Safe] PROVE Driver!ApplyIir(target) \in [Motor -> Safe]
<1>1. ASSUME NEW m \in Motor PROVE Driver!Smooth(target[m], IF filtered[m] = None THEN target[m] ELSE filtered[m]) \in Safe
  <2> DEFINE prev == IF filtered[m] = None THEN target[m] ELSE filtered[m]
  <2>1. prev \in Safe /\ target[m] \in Safe
    BY DEF DriverInv
  <2> HIDE DEF prev
  <2>2. Driver!Smooth(target[m], prev) \in Safe
    BY <2>1, SmoothIsSafe DEF DriverInv
  <2> QED BY <2>2 DEF prev
<1> QED BY <1>1 DEF Driver!ApplyIir

LEMMA ClampIsSafe == ASSUME NEW t \in Int PROVE Driver!ClampGoalTick(t) \in Safe
  BY DriverConstants DEF Driver!DriverAssumption, Driver!ClampGoalTick, Driver!Clamped, Safe

LEMMA DriverStart == Driver!Init => DriverInv
  BY DriverConstants DEF Driver!DriverAssumption, Driver!Init, DriverInv, Safe

LEMMA DriverStep == ASSUME DriverInv, Driver!Next PROVE DriverInv'
<1>1. CASE Driver!Connect
  BY <1>1 DEF Driver!Connect, DriverInv, Safe
<1>2. CASE Driver!Disconnect
  BY <1>2 DEF Driver!Disconnect, DriverInv, Driver!memory
<1>3. CASE \E asked \in Driver!Partial(Request) : Driver!WritePositions(asked)
  <2>1. PICK asked \in Driver!Partial(Request) : Driver!WritePositions(asked)
    BY <1>3
  <2> DEFINE target == [m \in Motor |-> IF m \in DOMAIN asked THEN Driver!ClampGoalTick(asked[m]) ELSE Neutral]
  <2>2. target \in [Motor -> Safe]
    <3>1. Neutral \in Safe
      BY DriverConstants DEF Driver!DriverAssumption, Safe
    <3>2. ASSUME NEW m \in DOMAIN asked PROVE asked[m] \in Int
      <4>1. PICK motors \in SUBSET Motor : asked \in [motors -> Request]
        BY <2>1 DEF Driver!Partial
      <4>2. asked[m] \in Request
        BY <4>1
      <4> QED BY <4>2, DriverConstants DEF Driver!DriverAssumption
    <3> QED BY <3>1, <3>2, ClampIsSafe
  <2> HIDE DEF target
  <2>3. Driver!ApplyIir(target) \in [Motor -> Safe]
    BY <2>2, FilteredIsSafe
  <2>4. /\ goal' = Driver!ApplyIir(target) \/ UNCHANGED <<goal, verbatim>>
        /\ UNCHANGED <<open, filter>>
        /\ filtered' = [m \in Motor |-> IF filter.on /\ (filter.motors = None \/ m \in filter.motors)
                                        THEN Driver!ApplyIir(target)[m] ELSE filtered[m]]
    BY <2>1 DEF Driver!WritePositions, target
  <2> QED BY <2>3, <2>4 DEF DriverInv
<1>4. CASE \E on \in BOOLEAN, quarters \in {None, 1}, motors \in Driver!Subset : Driver!SetIir(on, quarters, motors)
  BY <1>4 DEF Driver!SetIir, DriverInv
<1>5. CASE \E value \in DriverGain \cup {None}, motors \in Driver!Subset : Driver!SetPositionPGain(value, motors)
  BY <1>5 DEF Driver!SetPositionPGain, DriverInv
<1>6. CASE \E value \in Speed, motors \in Driver!Subset : Driver!SetProfileVelocityUnits(value, motors)
  BY <1>6 DEF Driver!SetProfileVelocityUnits, DriverInv, Driver!memory
<1>7. CASE \E speed \in Driver!Partial(Speed) : Driver!SetProfileVelocity(speed)
  BY <1>7 DEF Driver!SetProfileVelocity, DriverInv, Driver!memory
<1> QED BY <1>1, <1>2, <1>3, <1>4, <1>5, <1>6, <1>7 DEF Driver!Next

(* No call reaches the registers of a motor it does not name.              *)
LEMMA DriverNames == ASSUME Driver!Next PROVE Driver!OnlyTheNamed
<1> SUFFICES ASSUME NEW m \in Motor \ named'
             PROVE  gain'[m] = gain[m] /\ profile'[m] = profile[m] /\ goal'[m] = goal[m]
  BY DEF Driver!OnlyTheNamed
<1>1. CASE Driver!Connect
  BY <1>1 DEF Driver!Connect
<1>2. CASE Driver!Disconnect
  BY <1>2 DEF Driver!Disconnect
<1>3. CASE \E asked \in Driver!Partial(Request) : Driver!WritePositions(asked)
  BY <1>3 DEF Driver!WritePositions
<1>4. CASE \E on \in BOOLEAN, quarters \in {None, 1}, motors \in Driver!Subset : Driver!SetIir(on, quarters, motors)
  BY <1>4 DEF Driver!SetIir
<1>5. CASE \E value \in DriverGain \cup {None}, motors \in Driver!Subset : Driver!SetPositionPGain(value, motors)
  <2>1. PICK value \in DriverGain \cup {None}, motors \in Driver!Subset : Driver!SetPositionPGain(value, motors)
    BY <1>5
  <2>2. m \notin Driver!Named(motors) /\ goal' = goal /\ profile' = profile
    BY <2>1 DEF Driver!SetPositionPGain
  <2>3. gain' = gain \/ \E done \in SUBSET Driver!Named(motors) : \E v : gain' = Driver!WriteOne(gain, done, v)
    BY <2>1 DEF Driver!SetPositionPGain
  <2> QED BY <2>2, <2>3 DEF Driver!WriteOne
<1>6. CASE \E value \in Speed, motors \in Driver!Subset : Driver!SetProfileVelocityUnits(value, motors)
  BY <1>6 DEF Driver!SetProfileVelocityUnits
<1>7. CASE \E speed \in Driver!Partial(Speed) : Driver!SetProfileVelocity(speed)
  BY <1>7 DEF Driver!SetProfileVelocity
<1> QED BY <1>1, <1>2, <1>3, <1>4, <1>5, <1>6, <1>7 DEF Driver!Next

------------------------------------------------------------------------------
(* The diagnosis script                                                    *)

(* The registers it plays with, and what it remembers of them.             *)
DiagRegisters ==
  [torque : BOOLEAN, mode : {"position", "other"}, gain : {found.gain, SwingGain},
   goal : {None} \cup Int, accel : {"found", "run"}, velocity : {"found", "run"}]
DiagScript ==
  [gain : {None, found.gain}, profile : BOOLEAN, wroteGain : BOOLEAN, wroteProfile : BOOLEAN, enabled : BOOLEAN]

DiagTypes ==
  /\ found.gain \in Nat /\ window \in Window
  /\ servo \in DiagRegisters /\ script \in DiagScript
  /\ swing \in [index : Nat, peak : Int, worst : Int, least : Int, most : Int]

(* What has been written, by where the script stands.                      *)
Written ==
  /\ ~script.wroteGain => servo.gain = found.gain
  /\ ~script.wroteProfile => servo.accel = "found" /\ servo.velocity = "found"
  /\ pc \in {"reading", "release", "mode", "acceleration", "velocity", "seed", "gain"} => ~script.wroteGain
  /\ pc = "velocity" => script.wroteProfile
  /\ pc \in {"reading", "release", "mode", "acceleration", "velocity", "seed", "gain", "enable"} =>
       ~script.enabled /\ swing.index = 0
  /\ pc \in {"swing", "return", "off", "quietly"} => script.enabled
  /\ pc \in {"failed", "interrupted"} => script.enabled \/ swing.index = 0

(* Until this run has powered the joint, or has let go of it, a gain can   *)
(* only rise at the start position.                                        *)
AtRest ==
  /\ pc \in {"gain", "enable"} => servo.goal = Diagnosis!Start
  /\ pc \in {"failed", "interrupted", "restoreGain"} /\ script.wroteGain /\ ~script.enabled /\ servo.torque =>
       servo.goal = Diagnosis!Start

(* The cleanup: torque first, then the gain, then the profile.             *)
Cleaned ==
  /\ pc \in {"restoreGain", "restoreAcceleration", "restoreVelocity", "closed"} =>
       (swing.index > 0 /\ ~mute => ~servo.torque \/ "torque" \in said)
  /\ pc \in {"restoreAcceleration", "restoreVelocity", "closed"} => servo.gain = found.gain \/ "gain" \in said
  /\ pc = "restoreVelocity" => servo.accel = "found" \/ "profile" \in said
  /\ pc = "closed" => (servo.accel = "found" /\ servo.velocity = "found") \/ "profile" \in said

(* What the readings of a joint that does not follow have in common.       *)
Travel ==
  /\ joint \in {"follows", "jams", "sags", "mirrors"}
  /\ joint \in {"jams", "sags"} =>
       swing.least = swing.most /\ (swing.index > 0 => swing.least = Diagnosis!Reading(0))
  /\ joint = "mirrors" =>
       /\ swing.peak >= 0 /\ swing.worst >= 2 * swing.peak
       /\ swing.peak = 0 => swing.least = 0 /\ swing.most = 0
  /\ success => joint = "follows"

DiagInv == DiagTypes /\ Written /\ AtRest /\ Cleaned /\ Travel

LEMMA DiagNumbers ==
  /\ Window \subseteq Int \X Int /\ Amplitude \in Nat /\ SwingGain \in Nat /\ FoundGain \subseteq Nat
  /\ MinTravel \in Nat /\ MinTravel >= 2
  BY DiagnosisConstants DEF Diagnosis!ServoDiagnosisAssumption

LEMMA TwoNumbers ==
  ASSUME NEW a \in Int, NEW b \in Int
  PROVE  /\ Diagnosis!Max({a, b}) = IF a >= b THEN a ELSE b
         /\ Diagnosis!Min({a, b}) = IF a <= b THEN a ELSE b
  BY DEF Diagnosis!Max, Diagnosis!Min

(* Targets and readings are numbers, and both are where the window is.     *)
LEMMA TargetsAreNumbers ==
  ASSUME window \in Window
  PROVE  /\ Diagnosis!Start \in Int
         /\ \A k \in Nat : Diagnosis!Target(k) \in Int /\ Diagnosis!Reading(k) \in Int
<1>1. window[1] \in Int /\ window[2] \in Int /\ -Amplitude \in Int /\ Amplitude \in Int
  BY DiagNumbers
<1>2. Diagnosis!Low \in Int /\ Diagnosis!High \in Int
  BY <1>1, TwoNumbers DEF Diagnosis!Low, Diagnosis!High
<1>3. Diagnosis!Start \in Int
  <2>1. Diagnosis!Max({0, window[1]}) \in Int
    BY <1>1, TwoNumbers
  <2> QED BY <1>1, <2>1, TwoNumbers DEF Diagnosis!Start
<1>4. ASSUME NEW k \in Nat PROVE Diagnosis!Target(k) \in Int
  BY <1>2 DEF Diagnosis!Target
<1>5. ASSUME NEW k \in Nat PROVE Diagnosis!Reading(k) \in Int
  BY <1>4, DiagNumbers DEF Diagnosis!Reading
<1> QED BY <1>3, <1>4, <1>5

LEMMA DiagStart == Diagnosis!Init => DiagInv
<1> SUFFICES ASSUME Diagnosis!Init PROVE DiagInv
  OBVIOUS
<1>1. DiagTypes
  <2>1. servo \in [torque : BOOLEAN, mode : {"position", "other"}, gain : FoundGain, goal : {None},
                    accel : {"found"}, velocity : {"found"}] /\ found = servo
    BY DEF Diagnosis!Init
  <2>2. servo.gain \in FoundGain /\ found.gain = servo.gain
    BY <2>1
  <2>3. servo \in DiagRegisters
    BY <2>1, <2>2 DEF DiagRegisters
  <2>4. script \in DiagScript /\ window \in Window
    BY DEF Diagnosis!Init, DiagScript
  <2>5. swing \in [index : Nat, peak : Int, worst : Int, least : Int, most : Int]
    BY DEF Diagnosis!Init
  <2> QED BY <2>2, <2>3, <2>4, <2>5, DiagNumbers DEF DiagTypes
<1>2. Written /\ AtRest /\ Cleaned /\ Travel
  BY DEF Diagnosis!Init, Written, AtRest, Cleaned, Travel
<1> QED BY <1>1, <1>2 DEF DiagInv

(* A step that is not a reading leaves the travel alone.                   *)
LEMMA NoTravel == ASSUME Travel, UNCHANGED <<swing, joint, window>>, success' => joint = "follows" PROVE Travel'
  BY DEF Travel, Diagnosis!Reading, Diagnosis!Target, Diagnosis!High, Diagnosis!Low

(* Nothing has been swung yet.                                             *)
LEMMA StillClean ==
  ASSUME swing.index = 0, UNCHANGED swing, pc' \notin {"restoreAcceleration", "restoreVelocity", "closed"}
  PROVE  Cleaned'
<1>1. ~(swing'.index > 0)
  OBVIOUS
<1> QED BY <1>1, Zenon DEF Cleaned

(* A write of one register leaves the others alone.                        *)
LEMMA PutTorque ==
  ASSUME servo \in DiagRegisters, NEW v \in BOOLEAN, NEW took \in BOOLEAN, Diagnosis!Put("torque", v, took)
  PROVE  /\ servo' \in DiagRegisters /\ servo'.torque = IF took THEN v ELSE servo.torque
         /\ servo'.mode = servo.mode /\ servo'.gain = servo.gain /\ servo'.goal = servo.goal /\ servo'.accel = servo.accel /\ servo'.velocity = servo.velocity
  BY DEF Diagnosis!Put, DiagRegisters

LEMMA PutMode ==
  ASSUME servo \in DiagRegisters, NEW v \in {"position", "other"}, NEW took \in BOOLEAN, Diagnosis!Put("mode", v, took)
  PROVE  /\ servo' \in DiagRegisters /\ servo'.mode = IF took THEN v ELSE servo.mode
         /\ servo'.torque = servo.torque /\ servo'.gain = servo.gain /\ servo'.goal = servo.goal /\ servo'.accel = servo.accel /\ servo'.velocity = servo.velocity
  BY DEF Diagnosis!Put, DiagRegisters

LEMMA PutGain ==
  ASSUME servo \in DiagRegisters, NEW v \in {found.gain, SwingGain}, NEW took \in BOOLEAN, Diagnosis!Put("gain", v, took)
  PROVE  /\ servo' \in DiagRegisters /\ servo'.gain = IF took THEN v ELSE servo.gain
         /\ servo'.torque = servo.torque /\ servo'.mode = servo.mode /\ servo'.goal = servo.goal /\ servo'.accel = servo.accel /\ servo'.velocity = servo.velocity
  BY DEF Diagnosis!Put, DiagRegisters

LEMMA PutGoal ==
  ASSUME servo \in DiagRegisters, NEW v \in {None} \cup Int, NEW took \in BOOLEAN, Diagnosis!Put("goal", v, took)
  PROVE  /\ servo' \in DiagRegisters /\ servo'.goal = IF took THEN v ELSE servo.goal
         /\ servo'.torque = servo.torque /\ servo'.mode = servo.mode /\ servo'.gain = servo.gain /\ servo'.accel = servo.accel /\ servo'.velocity = servo.velocity
  BY DEF Diagnosis!Put, DiagRegisters

LEMMA PutAccel ==
  ASSUME servo \in DiagRegisters, NEW v \in {"found", "run"}, NEW took \in BOOLEAN, Diagnosis!Put("accel", v, took)
  PROVE  /\ servo' \in DiagRegisters /\ servo'.accel = IF took THEN v ELSE servo.accel
         /\ servo'.torque = servo.torque /\ servo'.mode = servo.mode /\ servo'.gain = servo.gain /\ servo'.goal = servo.goal /\ servo'.velocity = servo.velocity
  BY DEF Diagnosis!Put, DiagRegisters

LEMMA PutVelocity ==
  ASSUME servo \in DiagRegisters, NEW v \in {"found", "run"}, NEW took \in BOOLEAN, Diagnosis!Put("velocity", v, took)
  PROVE  /\ servo' \in DiagRegisters /\ servo'.velocity = IF took THEN v ELSE servo.velocity
         /\ servo'.torque = servo.torque /\ servo'.mode = servo.mode /\ servo'.gain = servo.gain /\ servo'.goal = servo.goal /\ servo'.accel = servo.accel
  BY DEF Diagnosis!Put, DiagRegisters

LEMMA DiagGain == ASSUME DiagTypes, DiagTypes', servo'.gain = servo.gain \/ (servo.torque => servo.goal = Diagnosis!Start)
                  PROVE  Diagnosis!GainRisesAtRest
<1>1. servo.gain \in Nat
  BY DiagNumbers DEF DiagTypes, DiagRegisters
<1> QED BY <1>1 DEF Diagnosis!GainRisesAtRest

LEMMA DiagReleaseFirst == ASSUME DiagInv, Diagnosis!ReleaseFirst PROVE DiagInv' /\ Diagnosis!GainRisesAtRest
<1> USE DiagNumbers DEF DiagInv
<1>1. PICK answer \in Diagnosis!Result, took \in BOOLEAN :
        (answer = "ok" => took) /\ Diagnosis!Put("torque", FALSE, took) /\ pc' = Diagnosis!To(answer, "mode")
  BY DEF Diagnosis!ReleaseFirst, Diagnosis!Planned, Diagnosis!Carried
<1>2. /\ pc = "release" /\ UNCHANGED script
      /\ UNCHANGED <<found, mute, window, joint, swing, ok, success, said>> /\ Diagnosis!Start' = Diagnosis!Start
  BY DEF Diagnosis!ReleaseFirst, Diagnosis!Planned, Diagnosis!Start
<1>3. /\ servo' \in DiagRegisters /\ DiagRegisters' = DiagRegisters /\ servo'.torque = IF took THEN FALSE ELSE servo.torque
      /\ servo'.mode = servo.mode /\ servo'.gain = servo.gain /\ servo'.goal = servo.goal /\ servo'.accel = servo.accel /\ servo'.velocity = servo.velocity
  <2>1. servo \in DiagRegisters /\ FALSE \in BOOLEAN
    BY DEF DiagTypes
  <2>2. DiagRegisters' = DiagRegisters
    BY <1>2 DEF DiagRegisters
  <2> QED BY <1>1, <2>1, <2>2, PutTorque
<1>4. \/ answer = "ok" /\ took /\ pc' = "mode"
      \/ pc' \in {"restoreGain", "failed", "interrupted"}
  BY <1>1 DEF Diagnosis!Result, Diagnosis!To
<1>8. DiagTypes'
  BY <1>2, <1>3 DEF DiagTypes, DiagScript
<1>9. Written'
  BY <1>2, <1>3, <1>4 DEF DiagTypes, DiagScript, Written
<1>10. AtRest'
  BY <1>2, <1>3, <1>4 DEF DiagTypes, DiagScript, Written, AtRest
<1>11. Cleaned'
  <2>1. swing.index = 0
    BY <1>2 DEF Written
  <2>2. pc' \notin {"restoreAcceleration", "restoreVelocity", "closed"}
    BY <1>4
  <2> QED BY <1>2, <2>1, <2>2, StillClean
<1>12. Travel'
  BY <1>2, NoTravel DEF Travel
<1>13. Diagnosis!GainRisesAtRest
  BY <1>2, <1>3, <1>8, DiagGain DEF AtRest
<1> QED BY <1>8, <1>9, <1>10, <1>11, <1>12, <1>13 DEF DiagInv

LEMMA DiagSetMode == ASSUME DiagInv, Diagnosis!SetMode PROVE DiagInv' /\ Diagnosis!GainRisesAtRest
<1> USE DiagNumbers DEF DiagInv
<1>1. PICK answer \in Diagnosis!Result, took \in BOOLEAN :
        (answer = "ok" => took) /\ Diagnosis!Put("mode", "position", took) /\ pc' = Diagnosis!To(answer, "acceleration")
  BY DEF Diagnosis!SetMode, Diagnosis!Planned, Diagnosis!Carried
<1>2. /\ pc = "mode" /\ UNCHANGED script
      /\ UNCHANGED <<found, mute, window, joint, swing, ok, success, said>> /\ Diagnosis!Start' = Diagnosis!Start
  BY DEF Diagnosis!SetMode, Diagnosis!Planned, Diagnosis!Start
<1>3. /\ servo' \in DiagRegisters /\ DiagRegisters' = DiagRegisters /\ servo'.mode = IF took THEN "position" ELSE servo.mode
      /\ servo'.torque = servo.torque /\ servo'.gain = servo.gain /\ servo'.goal = servo.goal /\ servo'.accel = servo.accel /\ servo'.velocity = servo.velocity
  <2>1. servo \in DiagRegisters /\ "position" \in {"position", "other"}
    BY DEF DiagTypes
  <2>2. DiagRegisters' = DiagRegisters
    BY <1>2 DEF DiagRegisters
  <2> QED BY <1>1, <2>1, <2>2, PutMode
<1>4. \/ answer = "ok" /\ took /\ pc' = "acceleration"
      \/ pc' \in {"restoreGain", "failed", "interrupted"}
  BY <1>1 DEF Diagnosis!Result, Diagnosis!To
<1>8. DiagTypes'
  BY <1>2, <1>3 DEF DiagTypes, DiagScript
<1>9. Written'
  BY <1>2, <1>3, <1>4 DEF DiagTypes, DiagScript, Written
<1>10. AtRest'
  BY <1>2, <1>3, <1>4 DEF DiagTypes, DiagScript, Written, AtRest
<1>11. Cleaned'
  <2>1. swing.index = 0
    BY <1>2 DEF Written
  <2>2. pc' \notin {"restoreAcceleration", "restoreVelocity", "closed"}
    BY <1>4
  <2> QED BY <1>2, <2>1, <2>2, StillClean
<1>12. Travel'
  BY <1>2, NoTravel DEF Travel
<1>13. Diagnosis!GainRisesAtRest
  BY <1>2, <1>3, <1>8, DiagGain DEF AtRest
<1> QED BY <1>8, <1>9, <1>10, <1>11, <1>12, <1>13 DEF DiagInv

LEMMA DiagSetAcceleration == ASSUME DiagInv, Diagnosis!SetAcceleration PROVE DiagInv' /\ Diagnosis!GainRisesAtRest
<1> USE DiagNumbers DEF DiagInv
<1>1. PICK answer \in Diagnosis!Result, took \in BOOLEAN :
        (answer = "ok" => took) /\ Diagnosis!Put("accel", "run", took) /\ pc' = Diagnosis!To(answer, "velocity")
  BY DEF Diagnosis!SetAcceleration, Diagnosis!Planned, Diagnosis!Carried
<1>2. /\ pc = "acceleration" /\ script' = [script EXCEPT !.wroteProfile = TRUE]
      /\ UNCHANGED <<found, mute, window, joint, swing, ok, success, said>> /\ Diagnosis!Start' = Diagnosis!Start
  BY DEF Diagnosis!SetAcceleration, Diagnosis!Planned, Diagnosis!Start
<1>3. /\ servo' \in DiagRegisters /\ DiagRegisters' = DiagRegisters /\ servo'.accel = IF took THEN "run" ELSE servo.accel
      /\ servo'.torque = servo.torque /\ servo'.mode = servo.mode /\ servo'.gain = servo.gain /\ servo'.goal = servo.goal /\ servo'.velocity = servo.velocity
  <2>1. servo \in DiagRegisters /\ "run" \in {"found", "run"}
    BY DEF DiagTypes
  <2>2. DiagRegisters' = DiagRegisters
    BY <1>2 DEF DiagRegisters
  <2> QED BY <1>1, <2>1, <2>2, PutAccel
<1>4. \/ answer = "ok" /\ took /\ pc' = "velocity"
      \/ pc' \in {"restoreGain", "failed", "interrupted"}
  BY <1>1 DEF Diagnosis!Result, Diagnosis!To
<1>8. DiagTypes'
  BY <1>2, <1>3 DEF DiagTypes, DiagScript
<1>9. Written'
  BY <1>2, <1>3, <1>4 DEF DiagTypes, DiagScript, Written
<1>10. AtRest'
  BY <1>2, <1>3, <1>4 DEF DiagTypes, DiagScript, Written, AtRest
<1>11. Cleaned'
  <2>1. swing.index = 0
    BY <1>2 DEF Written
  <2>2. pc' \notin {"restoreAcceleration", "restoreVelocity", "closed"}
    BY <1>4
  <2> QED BY <1>2, <2>1, <2>2, StillClean
<1>12. Travel'
  BY <1>2, NoTravel DEF Travel
<1>13. Diagnosis!GainRisesAtRest
  BY <1>2, <1>3, <1>8, DiagGain DEF AtRest
<1> QED BY <1>8, <1>9, <1>10, <1>11, <1>12, <1>13 DEF DiagInv

LEMMA DiagSetVelocity == ASSUME DiagInv, Diagnosis!SetVelocity PROVE DiagInv' /\ Diagnosis!GainRisesAtRest
<1> USE DiagNumbers DEF DiagInv
<1>1. PICK answer \in Diagnosis!Result, took \in BOOLEAN :
        (answer = "ok" => took) /\ Diagnosis!Put("velocity", "run", took) /\ pc' = Diagnosis!To(answer, "seed")
  BY DEF Diagnosis!SetVelocity, Diagnosis!Planned, Diagnosis!Carried
<1>2. /\ pc = "velocity" /\ UNCHANGED script
      /\ UNCHANGED <<found, mute, window, joint, swing, ok, success, said>> /\ Diagnosis!Start' = Diagnosis!Start
  BY DEF Diagnosis!SetVelocity, Diagnosis!Planned, Diagnosis!Start
<1>3. /\ servo' \in DiagRegisters /\ DiagRegisters' = DiagRegisters /\ servo'.velocity = IF took THEN "run" ELSE servo.velocity
      /\ servo'.torque = servo.torque /\ servo'.mode = servo.mode /\ servo'.gain = servo.gain /\ servo'.goal = servo.goal /\ servo'.accel = servo.accel
  <2>1. servo \in DiagRegisters /\ "run" \in {"found", "run"}
    BY DEF DiagTypes
  <2>2. DiagRegisters' = DiagRegisters
    BY <1>2 DEF DiagRegisters
  <2> QED BY <1>1, <2>1, <2>2, PutVelocity
<1>4. \/ answer = "ok" /\ took /\ pc' = "seed"
      \/ pc' \in {"restoreGain", "failed", "interrupted"}
  BY <1>1 DEF Diagnosis!Result, Diagnosis!To
<1>8. DiagTypes'
  BY <1>2, <1>3 DEF DiagTypes, DiagScript
<1>9. Written'
  BY <1>2, <1>3, <1>4 DEF DiagTypes, DiagScript, Written
<1>10. AtRest'
  BY <1>2, <1>3, <1>4 DEF DiagTypes, DiagScript, Written, AtRest
<1>11. Cleaned'
  <2>1. swing.index = 0
    BY <1>2 DEF Written
  <2>2. pc' \notin {"restoreAcceleration", "restoreVelocity", "closed"}
    BY <1>4
  <2> QED BY <1>2, <2>1, <2>2, StillClean
<1>12. Travel'
  BY <1>2, NoTravel DEF Travel
<1>13. Diagnosis!GainRisesAtRest
  BY <1>2, <1>3, <1>8, DiagGain DEF AtRest
<1> QED BY <1>8, <1>9, <1>10, <1>11, <1>12, <1>13 DEF DiagInv

LEMMA DiagSeed == ASSUME DiagInv, Diagnosis!Seed PROVE DiagInv' /\ Diagnosis!GainRisesAtRest
<1> USE DiagNumbers DEF DiagInv
<1>1. PICK answer \in Diagnosis!Result, took \in BOOLEAN :
        (answer = "ok" => took) /\ Diagnosis!Put("goal", Diagnosis!Start, took) /\ pc' = Diagnosis!To(answer, "gain")
  BY DEF Diagnosis!Seed, Diagnosis!Planned, Diagnosis!Carried
<1>2. /\ pc = "seed" /\ UNCHANGED script
      /\ UNCHANGED <<found, mute, window, joint, swing, ok, success, said>> /\ Diagnosis!Start' = Diagnosis!Start
  BY DEF Diagnosis!Seed, Diagnosis!Planned, Diagnosis!Start
<1>3. /\ servo' \in DiagRegisters /\ DiagRegisters' = DiagRegisters /\ servo'.goal = IF took THEN Diagnosis!Start ELSE servo.goal
      /\ servo'.torque = servo.torque /\ servo'.mode = servo.mode /\ servo'.gain = servo.gain /\ servo'.accel = servo.accel /\ servo'.velocity = servo.velocity
  <2>0. Diagnosis!Start \in Int
    BY TargetsAreNumbers DEF DiagTypes
  <2>1. servo \in DiagRegisters /\ Diagnosis!Start \in {None} \cup Int
    BY <2>0 DEF DiagTypes
  <2>2. DiagRegisters' = DiagRegisters
    BY <1>2 DEF DiagRegisters
  <2> QED BY <1>1, <2>1, <2>2, PutGoal
<1>4. \/ answer = "ok" /\ took /\ pc' = "gain"
      \/ pc' \in {"restoreGain", "failed", "interrupted"}
  BY <1>1 DEF Diagnosis!Result, Diagnosis!To
<1>8. DiagTypes'
  BY <1>2, <1>3 DEF DiagTypes, DiagScript
<1>9. Written'
  BY <1>2, <1>3, <1>4 DEF DiagTypes, DiagScript, Written
<1>10. AtRest'
  BY <1>2, <1>3, <1>4 DEF DiagTypes, DiagScript, Written, AtRest
<1>11. Cleaned'
  <2>1. swing.index = 0
    BY <1>2 DEF Written
  <2>2. pc' \notin {"restoreAcceleration", "restoreVelocity", "closed"}
    BY <1>4
  <2> QED BY <1>2, <2>1, <2>2, StillClean
<1>12. Travel'
  BY <1>2, NoTravel DEF Travel
<1>13. Diagnosis!GainRisesAtRest
  BY <1>2, <1>3, <1>8, DiagGain DEF AtRest
<1> QED BY <1>8, <1>9, <1>10, <1>11, <1>12, <1>13 DEF DiagInv

LEMMA DiagSetGain == ASSUME DiagInv, Diagnosis!SetGain PROVE DiagInv' /\ Diagnosis!GainRisesAtRest
<1> USE DiagNumbers DEF DiagInv
<1>1. PICK answer \in Diagnosis!Result, took \in BOOLEAN :
        (answer = "ok" => took) /\ Diagnosis!Put("gain", SwingGain, took) /\ pc' = Diagnosis!To(answer, "enable")
  BY DEF Diagnosis!SetGain, Diagnosis!Planned, Diagnosis!Carried
<1>2. /\ pc = "gain" /\ script' = [script EXCEPT !.wroteGain = TRUE]
      /\ UNCHANGED <<found, mute, window, joint, swing, ok, success, said>> /\ Diagnosis!Start' = Diagnosis!Start
  BY DEF Diagnosis!SetGain, Diagnosis!Planned, Diagnosis!Start
<1>3. /\ servo' \in DiagRegisters /\ DiagRegisters' = DiagRegisters /\ servo'.gain = IF took THEN SwingGain ELSE servo.gain
      /\ servo'.torque = servo.torque /\ servo'.mode = servo.mode /\ servo'.goal = servo.goal /\ servo'.accel = servo.accel /\ servo'.velocity = servo.velocity
  <2>1. servo \in DiagRegisters /\ SwingGain \in {found.gain, SwingGain}
    BY DEF DiagTypes
  <2>2. DiagRegisters' = DiagRegisters
    BY <1>2 DEF DiagRegisters
  <2> QED BY <1>1, <2>1, <2>2, PutGain
<1>4. \/ answer = "ok" /\ took /\ pc' = "enable"
      \/ pc' \in {"restoreGain", "failed", "interrupted"}
  BY <1>1 DEF Diagnosis!Result, Diagnosis!To
<1>8. DiagTypes'
  BY <1>2, <1>3 DEF DiagTypes, DiagScript
<1>9. Written'
  BY <1>2, <1>3, <1>4 DEF DiagTypes, DiagScript, Written
<1>10. AtRest'
  BY <1>2, <1>3, <1>4 DEF DiagTypes, DiagScript, Written, AtRest
<1>11. Cleaned'
  <2>1. swing.index = 0
    BY <1>2 DEF Written
  <2>2. pc' \notin {"restoreAcceleration", "restoreVelocity", "closed"}
    BY <1>4
  <2> QED BY <1>2, <2>1, <2>2, StillClean
<1>12. Travel'
  BY <1>2, NoTravel DEF Travel
<1>13. Diagnosis!GainRisesAtRest
  BY <1>2, <1>3, <1>8, DiagGain DEF AtRest
<1> QED BY <1>8, <1>9, <1>10, <1>11, <1>12, <1>13 DEF DiagInv

LEMMA DiagEnable == ASSUME DiagInv, Diagnosis!Enable PROVE DiagInv' /\ Diagnosis!GainRisesAtRest
<1> USE DiagNumbers DEF DiagInv
<1>1. PICK answer \in Diagnosis!Result, took \in BOOLEAN :
        (answer = "ok" => took) /\ Diagnosis!Put("torque", TRUE, took) /\ pc' = Diagnosis!To(answer, "swing")
  BY DEF Diagnosis!Enable, Diagnosis!Planned, Diagnosis!Carried
<1>2. /\ pc = "enable" /\ script' = [script EXCEPT !.enabled = TRUE]
      /\ UNCHANGED <<found, mute, window, joint, swing, ok, success, said>> /\ Diagnosis!Start' = Diagnosis!Start
  BY DEF Diagnosis!Enable, Diagnosis!Planned, Diagnosis!Start
<1>3. /\ servo' \in DiagRegisters /\ DiagRegisters' = DiagRegisters /\ servo'.torque = IF took THEN TRUE ELSE servo.torque
      /\ servo'.mode = servo.mode /\ servo'.gain = servo.gain /\ servo'.goal = servo.goal /\ servo'.accel = servo.accel /\ servo'.velocity = servo.velocity
  <2>1. servo \in DiagRegisters /\ TRUE \in BOOLEAN
    BY DEF DiagTypes
  <2>2. DiagRegisters' = DiagRegisters
    BY <1>2 DEF DiagRegisters
  <2> QED BY <1>1, <2>1, <2>2, PutTorque
<1>4. \/ answer = "ok" /\ took /\ pc' = "swing"
      \/ pc' \in {"restoreGain", "failed", "interrupted"}
  BY <1>1 DEF Diagnosis!Result, Diagnosis!To
<1>8. DiagTypes'
  BY <1>2, <1>3 DEF DiagTypes, DiagScript
<1>9. Written'
  BY <1>2, <1>3, <1>4 DEF DiagTypes, DiagScript, Written
<1>10. AtRest'
  BY <1>2, <1>3, <1>4 DEF DiagTypes, DiagScript, Written, AtRest
<1>11. Cleaned'
  <2>1. swing.index = 0
    BY <1>2 DEF Written
  <2>2. pc' \notin {"restoreAcceleration", "restoreVelocity", "closed"}
    BY <1>4
  <2> QED BY <1>2, <2>1, <2>2, StillClean
<1>12. Travel'
  BY <1>2, NoTravel DEF Travel
<1>13. Diagnosis!GainRisesAtRest
  BY <1>2, <1>3, <1>8, DiagGain DEF AtRest
<1> QED BY <1>8, <1>9, <1>10, <1>11, <1>12, <1>13 DEF DiagInv

LEMMA DiagRead == ASSUME DiagInv, Diagnosis!Read PROVE DiagInv' /\ Diagnosis!GainRisesAtRest
<1> USE DiagNumbers DEF DiagInv
<1>2. /\ pc = "reading" /\ Diagnosis!Start' = Diagnosis!Start
      /\ UNCHANGED <<servo, found, window, joint, swing, ok, success, said>>
  BY DEF Diagnosis!Read, Diagnosis!Start
<1>3. /\ DiagRegisters' = DiagRegisters /\ script' \in DiagScript /\ script'.wroteGain = script.wroteGain
      /\ script'.wroteProfile = script.wroteProfile /\ script'.enabled = script.enabled
  <2>1. DiagRegisters' = DiagRegisters
    BY <1>2 DEF DiagRegisters
  <2>2. servo.gain = found.gain
    BY <1>2 DEF Written
  <2> QED BY <2>1, <2>2 DEF Diagnosis!Read, DiagTypes, DiagScript
<1>4. pc' \in {"restoreGain", "acceleration", "release"}
  BY DEF Diagnosis!Read
<1>8. DiagTypes'
  BY <1>2, <1>3 DEF DiagTypes, DiagScript
<1>9. Written'
  BY <1>2, <1>3, <1>4 DEF DiagTypes, DiagScript, Written
<1>10. AtRest'
  BY <1>2, <1>3, <1>4 DEF DiagTypes, DiagScript, Written, AtRest
<1>11. Cleaned'
  <2>1. swing.index = 0
    BY <1>2 DEF Written
  <2>2. pc' \notin {"restoreAcceleration", "restoreVelocity", "closed"}
    BY <1>4
  <2> QED BY <1>2, <2>1, <2>2, StillClean
<1>12. Travel'
  BY <1>2, NoTravel DEF Travel
<1>13. Diagnosis!GainRisesAtRest
  BY <1>2, <1>3, <1>8, DiagGain DEF AtRest
<1> QED BY <1>8, <1>9, <1>10, <1>11, <1>12, <1>13 DEF DiagInv

LEMMA DiagReturn == ASSUME DiagInv, Diagnosis!Return PROVE DiagInv' /\ Diagnosis!GainRisesAtRest
<1> USE DiagNumbers DEF DiagInv
<1>1. PICK answer \in Diagnosis!Result, took \in BOOLEAN :
        /\ Diagnosis!Put("goal", Diagnosis!Start, took)
        /\ pc' = IF answer \in {"ok", "no"} THEN "off" ELSE Diagnosis!To(answer, "off")
  BY DEF Diagnosis!Return
<1>2. /\ pc = "return" /\ UNCHANGED <<found, mute, window, joint, script, swing, ok, success, said>> /\ Diagnosis!Start' = Diagnosis!Start
  BY DEF Diagnosis!Return, Diagnosis!Start
<1>3. /\ servo' \in DiagRegisters /\ DiagRegisters' = DiagRegisters
      /\ servo'.torque = servo.torque /\ servo'.mode = servo.mode /\ servo'.gain = servo.gain /\ servo'.accel = servo.accel /\ servo'.velocity = servo.velocity
  <2>0. Diagnosis!Start \in Int
    BY TargetsAreNumbers DEF DiagTypes
  <2>1. servo \in DiagRegisters /\ Diagnosis!Start \in {None} \cup Int /\ DiagRegisters' = DiagRegisters
    BY <2>0, <1>2 DEF DiagTypes, DiagRegisters
  <2> QED BY <1>1, <2>1, PutGoal
<1>4. pc' \in {"off", "failed", "interrupted"} /\ script.enabled
  BY <1>1, <1>2 DEF Diagnosis!Result, Diagnosis!To, Written
<1>8. DiagTypes'
  BY <1>2, <1>3 DEF DiagTypes, DiagScript
<1>9. Written'
  BY <1>2, <1>3, <1>4 DEF DiagTypes, DiagScript, Written
<1>10. AtRest' /\ Cleaned'
  BY <1>2, <1>4 DEF AtRest, Cleaned
<1>12. Travel'
  BY <1>2, NoTravel DEF Travel
<1>13. Diagnosis!GainRisesAtRest
  BY <1>3, <1>8, DiagGain
<1> QED BY <1>8, <1>9, <1>10, <1>12, <1>13 DEF DiagInv

(* Torque goes off, or the operator knows; then the verdict.               *)
LEMMA DiagOff == ASSUME DiagInv, Diagnosis!Off PROVE DiagInv' /\ Diagnosis!GainRisesAtRest
<1> USE DiagNumbers DEF DiagInv
<1>1. PICK answer \in Diagnosis!Result, took \in BOOLEAN :
        /\ (answer = "ok" => took) /\ Diagnosis!Put("torque", FALSE, took)
        /\ script' = [script EXCEPT !.enabled = (answer # "ok")]
        /\ said' = IF answer = "no" THEN said \cup {"torque"} ELSE said
        /\ success' = (answer = "ok" /\ ok /\ Diagnosis!Followed)
        /\ pc' = IF answer \in {"ok", "no"} THEN "restoreGain" ELSE Diagnosis!To(answer, "restoreGain")
  BY DEF Diagnosis!Off, Diagnosis!Carried
<1>2. /\ pc = "off" /\ UNCHANGED <<found, mute, window, joint, swing>> /\ Diagnosis!Start' = Diagnosis!Start
  BY DEF Diagnosis!Off, Diagnosis!Start
<1>3. /\ servo' \in DiagRegisters /\ DiagRegisters' = DiagRegisters /\ servo'.torque = IF took THEN FALSE ELSE servo.torque
      /\ servo'.mode = servo.mode /\ servo'.gain = servo.gain /\ servo'.goal = servo.goal /\ servo'.accel = servo.accel /\ servo'.velocity = servo.velocity
  <2>1. servo \in DiagRegisters /\ DiagRegisters' = DiagRegisters
    BY <1>2 DEF DiagTypes, DiagRegisters
  <2> QED BY <1>1, <2>1, PutTorque
<1>4. \/ answer = "ok" /\ ~servo'.torque /\ ~script'.enabled /\ pc' = "restoreGain"
      \/ answer = "no" /\ "torque" \in said' /\ script'.enabled /\ pc' = "restoreGain"
      \/ script'.enabled /\ pc' \in {"failed", "interrupted"}
  BY <1>1, <1>3 DEF Diagnosis!Result, Diagnosis!To, DiagTypes, DiagScript
<1>5. script' \in DiagScript /\ script'.wroteGain = script.wroteGain /\ script'.wroteProfile = script.wroteProfile
  <2>1. (answer # "ok") \in BOOLEAN
    OBVIOUS
  <2> QED BY <1>1, <2>1 DEF DiagTypes, DiagScript
<1>8. DiagTypes'
  BY <1>2, <1>3, <1>5 DEF DiagTypes, DiagScript
<1>9. Written'
  BY <1>2, <1>3, <1>4, <1>5 DEF Written
<1>10. AtRest'
  BY <1>4 DEF AtRest
<1>11. Cleaned'
  BY <1>4 DEF Cleaned
<1>12. Travel'
  <2>1. Diagnosis!Followed => joint \notin {"jams", "sags"}
    BY DEF Diagnosis!Followed, DiagTypes, Travel
  <2>2. Diagnosis!Followed => joint # "mirrors"
    BY DEF Diagnosis!Followed, DiagTypes, Travel
  <2>3. success' => joint = "follows"
    BY <1>1, <2>1, <2>2 DEF Travel
  <2> QED BY <1>2, <2>3, NoTravel
<1>13. Diagnosis!GainRisesAtRest
  BY <1>3, <1>8, DiagGain
<1> QED BY <1>8, <1>9, <1>10, <1>11, <1>12, <1>13 DEF DiagInv

LEMMA DiagInterrupted == ASSUME DiagInv, Diagnosis!Interrupted PROVE DiagInv' /\ Diagnosis!GainRisesAtRest
<1> USE DiagNumbers DEF DiagInv
<1>2. /\ pc = "interrupted" /\ UNCHANGED <<found, window, joint, script, swing, ok, success, said>> /\ Diagnosis!Start' = Diagnosis!Start
  BY DEF Diagnosis!Interrupted, Diagnosis!Start
<1>3. /\ servo' \in DiagRegisters /\ DiagRegisters' = DiagRegisters
      /\ servo'.torque = servo.torque /\ servo'.mode = servo.mode /\ servo'.gain = servo.gain /\ servo'.accel = servo.accel /\ servo'.velocity = servo.velocity
      /\ \/ script.enabled /\ pc' = "quietly"
         \/ pc' = "restoreGain" /\ servo' = servo /\ (mute' \/ (~script.enabled /\ mute' = mute))
  <2>0. Diagnosis!Start \in Int
    BY TargetsAreNumbers DEF DiagTypes
  <2>1. servo \in DiagRegisters /\ Diagnosis!Start \in {None} \cup Int /\ DiagRegisters' = DiagRegisters
    BY <2>0, <1>2 DEF DiagTypes, DiagRegisters
  <2>2. CASE script.enabled /\ pc' = "quietly"
    <3>1. PICK took \in BOOLEAN : Diagnosis!Put("goal", Diagnosis!Start, took) /\ pc' = "quietly"
      BY <2>2 DEF Diagnosis!Interrupted
    <3>2. servo' \in DiagRegisters /\ servo'.torque = servo.torque /\ servo'.mode = servo.mode /\ servo'.gain = servo.gain /\ servo'.accel = servo.accel /\ servo'.velocity = servo.velocity
      BY <2>1, <3>1, PutGoal
    <3>3. servo' \in DiagRegisters /\ DiagRegisters' = DiagRegisters /\ servo'.torque = servo.torque /\ servo'.mode = servo.mode /\ servo'.gain = servo.gain /\ servo'.accel = servo.accel /\ servo'.velocity = servo.velocity
      BY <2>1, <3>2, Zenon
    <3> QED BY <2>2, <3>1, <3>3, Zenon
  <2>3. CASE pc' = "restoreGain" /\ servo' = servo /\ (mute' \/ (~script.enabled /\ mute' = mute))
    BY <2>1, <2>3
  <2>4. \/ script.enabled /\ pc' = "quietly"
        \/ pc' = "restoreGain" /\ servo' = servo /\ (mute' \/ (~script.enabled /\ mute' = mute))
    BY DEF Diagnosis!Interrupted
  <2> QED BY <2>2, <2>3, <2>4
<1>8. DiagTypes'
  BY <1>2, <1>3 DEF DiagTypes, DiagScript
<1>9. Written'
  BY <1>2, <1>3 DEF Written
<1>10. AtRest'
  BY <1>2, <1>3 DEF AtRest
<1>11. Cleaned'
  <2>1. CASE pc' = "quietly"
    BY <2>1 DEF Cleaned
  <2>2. CASE pc' = "restoreGain" /\ mute'
    BY <2>2 DEF Cleaned
  <2>3. CASE pc' = "restoreGain" /\ ~script.enabled
    <3>1. swing.index = 0
      BY <1>2, <2>3 DEF Written
    <3> QED BY <1>2, <3>1, <2>3, StillClean
  <2> QED BY <1>3, <2>1, <2>2, <2>3
<1>12. Travel'
  BY <1>2, NoTravel DEF Travel
<1>13. Diagnosis!GainRisesAtRest
  BY <1>3, <1>8, DiagGain
<1> QED BY <1>8, <1>9, <1>10, <1>11, <1>12, <1>13 DEF DiagInv

LEMMA DiagFailed == ASSUME DiagInv, Diagnosis!Failed PROVE DiagInv' /\ Diagnosis!GainRisesAtRest
<1> USE DiagNumbers DEF DiagInv
<1>2. /\ pc = "failed" /\ pc' = IF script.enabled THEN "quietly" ELSE "restoreGain"
      /\ UNCHANGED <<servo, found, window, joint, script, swing, ok, success, said>> /\ Diagnosis!Start' = Diagnosis!Start
  BY DEF Diagnosis!Failed, Diagnosis!Start
<1>8. DiagTypes'
  BY <1>2 DEF DiagTypes, DiagRegisters, DiagScript
<1>9. Written'
  BY <1>2 DEF Written
<1>10. AtRest'
  BY <1>2 DEF AtRest
<1>11. Cleaned'
  <2>1. CASE script.enabled
    BY <1>2, <2>1 DEF Cleaned
  <2>2. CASE ~script.enabled
    <3>1. swing.index = 0
      BY <1>2, <2>2 DEF Written
    <3>2. pc' = "restoreGain"
      BY <1>2, <2>2
    <3> QED BY <1>2, <3>1, <3>2, StillClean
  <2> QED BY <2>1, <2>2
<1>12. Travel'
  BY <1>2, NoTravel DEF Travel
<1>13. Diagnosis!GainRisesAtRest
  BY <1>2, <1>8, DiagGain
<1> QED BY <1>8, <1>9, <1>10, <1>11, <1>12, <1>13 DEF DiagInv

LEMMA DiagReleaseQuietly == ASSUME DiagInv, Diagnosis!ReleaseQuietly PROVE DiagInv' /\ Diagnosis!GainRisesAtRest
<1> USE DiagNumbers DEF DiagInv
<1>1. PICK answer \in Diagnosis!Result, took \in BOOLEAN :
        /\ (answer = "ok" => took) /\ Diagnosis!Put("torque", FALSE, took)
        /\ said' = IF answer = "ok" THEN said ELSE said \cup {"torque"}
  BY DEF Diagnosis!ReleaseQuietly, Diagnosis!Carried
<1>2. /\ pc = "quietly" /\ pc' = "restoreGain" /\ UNCHANGED <<found, mute, window, joint, script, swing, ok, success>>
      /\ Diagnosis!Start' = Diagnosis!Start /\ script.enabled
  BY DEF Diagnosis!ReleaseQuietly, Diagnosis!Start, Written
<1>3. /\ servo' \in DiagRegisters /\ DiagRegisters' = DiagRegisters /\ servo'.torque = IF took THEN FALSE ELSE servo.torque
      /\ servo'.mode = servo.mode /\ servo'.gain = servo.gain /\ servo'.goal = servo.goal /\ servo'.accel = servo.accel /\ servo'.velocity = servo.velocity
  <2>1. servo \in DiagRegisters /\ DiagRegisters' = DiagRegisters
    BY <1>2 DEF DiagTypes, DiagRegisters
  <2> QED BY <1>1, <2>1, PutTorque
<1>4. ~servo'.torque \/ "torque" \in said'
  BY <1>1, <1>3
<1>8. DiagTypes'
  BY <1>2, <1>3 DEF DiagTypes, DiagScript
<1>9. Written'
  BY <1>2, <1>3 DEF Written
<1>10. AtRest'
  BY <1>2 DEF AtRest
<1>11. Cleaned'
  BY <1>2, <1>4 DEF Cleaned
<1>12. Travel'
  BY <1>2, NoTravel DEF Travel
<1>13. Diagnosis!GainRisesAtRest
  BY <1>3, <1>8, DiagGain
<1> QED BY <1>8, <1>9, <1>10, <1>11, <1>12, <1>13 DEF DiagInv

(* The found gain goes back unless that would stiffen a joint that may be  *)
(* powered: a rise is then from the run's own gain, at the start position. *)
(* The gain is written back, or that it was not is said.                   *)
GainPutBack(answer, took) ==
  /\ (answer = "ok" => took) /\ Diagnosis!Put("gain", script.gain, took)
  /\ pc' \in {"cutShort", "restoreAcceleration"} /\ said \subseteq said'
  /\ pc' = "restoreAcceleration" => answer = "ok" \/ "gain" \in said'

LEMMA DiagRestoreGain == ASSUME DiagInv, Diagnosis!RestoreGain PROVE DiagInv' /\ Diagnosis!GainRisesAtRest
<1> USE DiagNumbers DEF DiagInv
<1>2. /\ pc = "restoreGain" /\ UNCHANGED <<found, mute, window, joint, script, swing, ok, success>> /\ Diagnosis!Start' = Diagnosis!Start
      /\ DiagRegisters' = DiagRegisters
  BY DEF Diagnosis!RestoreGain, Diagnosis!Start, DiagRegisters
<1>3. \/ /\ servo' = servo /\ pc' \in {"restoreAcceleration", "cutShort"} /\ said \subseteq said'
         /\ pc' = "restoreAcceleration" => servo.gain = found.gain \/ "gain" \in said'
      \/ /\ script.wroteGain /\ script.gain # None /\ ~Diagnosis!Stiffens
         /\ \E answer \in Diagnosis!Result, took \in BOOLEAN : GainPutBack(answer, took)
  <2>1. CASE ~script.wroteGain
    BY <1>2, <2>1 DEF Diagnosis!RestoreGain, Written
  <2>2. CASE script.wroteGain /\ (script.gain = None \/ Diagnosis!Stiffens)
    BY <1>2, <2>2 DEF Diagnosis!RestoreGain, Diagnosis!Admit
  <2>3. CASE script.wroteGain /\ script.gain # None /\ ~Diagnosis!Stiffens
    <3>1. Diagnosis!PutBack("gain", script.gain, "gain", "restoreAcceleration", "restoreAcceleration")
      BY <2>3 DEF Diagnosis!RestoreGain
    <3>2. PICK answer \in Diagnosis!Result, took \in BOOLEAN :
            /\ (answer = "ok" => took) /\ Diagnosis!Put("gain", script.gain, took)
            /\ \/ /\ said' = IF answer \in {"no", "raised"} THEN said \cup {"gain"} ELSE said
                  /\ pc' = CASE answer = "raised" -> "restoreAcceleration" [] answer = "ctrl-c" -> "cutShort" [] OTHER -> "restoreAcceleration"
               \/ answer = "raised" /\ pc' = "cutShort" /\ UNCHANGED said
      BY <3>1 DEF Diagnosis!PutBack, Diagnosis!Carried
    <3>3. GainPutBack(answer, took)
      BY <3>2 DEF GainPutBack, Diagnosis!Result
    <3> QED BY <2>3, <3>3
  <2> QED BY <2>1, <2>2, <2>3
<1>4. CASE /\ servo' = servo /\ pc' \in {"restoreAcceleration", "cutShort"} /\ said \subseteq said'
           /\ pc' = "restoreAcceleration" => servo.gain = found.gain \/ "gain" \in said'
  <2>1. DiagTypes'
    BY <1>2, <1>4 DEF DiagTypes, DiagScript
  <2>2. Written' /\ AtRest'
    BY <1>2, <1>4 DEF Written, AtRest
  <2>3. Cleaned'
    BY <1>2, <1>4 DEF Cleaned
  <2> QED BY <1>2, <1>4, <2>1, <2>2, <2>3, NoTravel, DiagGain DEF Travel
<1>5. CASE /\ script.wroteGain /\ script.gain # None /\ ~Diagnosis!Stiffens
           /\ \E answer \in Diagnosis!Result, took \in BOOLEAN : GainPutBack(answer, took)
  <2>0. PICK answer \in Diagnosis!Result, took \in BOOLEAN : GainPutBack(answer, took)
    BY <1>5
  <2>1. /\ (answer = "ok" => took) /\ Diagnosis!Put("gain", script.gain, took)
        /\ pc' \in {"cutShort", "restoreAcceleration"} /\ said \subseteq said'
        /\ pc' = "restoreAcceleration" => answer = "ok" \/ "gain" \in said'
    BY <2>0 DEF GainPutBack
  <2>2. script.gain = found.gain /\ servo \in DiagRegisters /\ script.gain \in {found.gain, SwingGain}
    BY <1>5 DEF DiagTypes, DiagScript
  <2>3. /\ servo' \in DiagRegisters /\ servo'.gain = IF took THEN found.gain ELSE servo.gain
        /\ servo'.torque = servo.torque /\ servo'.mode = servo.mode /\ servo'.goal = servo.goal /\ servo'.accel = servo.accel /\ servo'.velocity = servo.velocity
    BY <2>1, <2>2, PutGain
  <2>4. pc' = "restoreAcceleration" => servo'.gain = found.gain \/ "gain" \in said'
    BY <2>1, <2>3
  <2>5. pc' \in {"cutShort", "restoreAcceleration"} /\ said \subseteq said'
    BY <2>1
  <2>6. DiagTypes'
    BY <1>2, <2>3 DEF DiagTypes, DiagScript
  <2>7. Written' /\ AtRest'
    BY <1>2, <1>5, <2>3, <2>5 DEF Written, AtRest
  <2>8. Cleaned'
    BY <1>2, <2>3, <2>4, <2>5 DEF Cleaned
  <2>9. Diagnosis!GainRisesAtRest
    <3>1. CASE script.enabled
      <4>1. ~(script.gain > SwingGain)
        BY <1>5, <3>1, Zenon DEF Diagnosis!Stiffens
      <4>2. servo.gain \in {found.gain, SwingGain} /\ found.gain \in Nat /\ SwingGain \in Nat
        BY DEF DiagTypes, DiagRegisters
      <4>3. ~(servo'.gain > servo.gain)
        BY <2>2, <2>3, <4>1, <4>2
      <4> QED BY <4>3 DEF Diagnosis!GainRisesAtRest
    <3>2. CASE ~script.enabled
      BY <1>2, <1>5, <3>2 DEF AtRest, Diagnosis!GainRisesAtRest
    <3> QED BY <3>1, <3>2
  <2> QED BY <1>2, <2>6, <2>7, <2>8, <2>9, NoTravel DEF Travel
<1> QED BY <1>3, <1>4, <1>5

LEMMA DiagRestoreAcceleration == ASSUME DiagInv, Diagnosis!RestoreAcceleration PROVE DiagInv' /\ Diagnosis!GainRisesAtRest
<1> USE DiagNumbers DEF DiagInv
<1>2. /\ pc = "restoreAcceleration" /\ UNCHANGED <<found, mute, window, joint, script, swing, ok, success>> /\ Diagnosis!Start' = Diagnosis!Start
      /\ DiagRegisters' = DiagRegisters
  BY DEF Diagnosis!RestoreAcceleration, Diagnosis!Start, DiagRegisters
<1>3. /\ servo' \in DiagRegisters /\ said \subseteq said' /\ (script.wroteProfile \/ servo' = servo)
      /\ servo'.torque = servo.torque /\ servo'.mode = servo.mode /\ servo'.gain = servo.gain /\ servo'.goal = servo.goal /\ servo'.velocity = servo.velocity
      /\ \/ pc' = "closed" /\ ((servo'.accel = "found" /\ servo'.velocity = "found") \/ "profile" \in said')
         \/ pc' = "restoreVelocity" /\ (servo'.accel = "found" \/ "profile" \in said')
         \/ pc' = "cutShort"
  <2>0. servo \in DiagRegisters
    BY DEF DiagTypes
  <2>1. CASE ~script.wroteProfile
    BY <1>2, <2>0, <2>1 DEF Diagnosis!RestoreAcceleration, Written
  <2>2. CASE script.wroteProfile /\ ~script.profile
    BY <1>2, <2>0, <2>2 DEF Diagnosis!RestoreAcceleration, Diagnosis!Admit
  <2>3. CASE script.wroteProfile /\ script.profile
    <3>1. Diagnosis!PutBack("accel", "found", "profile", "restoreVelocity", "closed")
      BY <2>3 DEF Diagnosis!RestoreAcceleration
    <3>2. PICK answer \in Diagnosis!Result, took \in BOOLEAN :
            /\ (answer = "ok" => took) /\ Diagnosis!Put("accel", "found", took)
            /\ \/ /\ said' = IF answer \in {"no", "raised"} THEN said \cup {"profile"} ELSE said
                  /\ pc' = CASE answer = "raised" -> "closed" [] answer = "ctrl-c" -> "cutShort" [] OTHER -> "restoreVelocity"
               \/ answer = "raised" /\ pc' = "cutShort" /\ UNCHANGED said
      BY <3>1 DEF Diagnosis!PutBack, Diagnosis!Carried
    <3>3. /\ servo' \in DiagRegisters /\ servo'.accel = IF took THEN "found" ELSE servo.accel
          /\ servo'.torque = servo.torque /\ servo'.mode = servo.mode /\ servo'.gain = servo.gain /\ servo'.goal = servo.goal /\ servo'.velocity = servo.velocity
      BY <2>0, <3>2, PutAccel
    <3>4. /\ said \subseteq said'
          /\ \/ pc' = "closed" /\ "profile" \in said'
             \/ pc' = "restoreVelocity" /\ (answer = "ok" \/ "profile" \in said')
             \/ pc' = "cutShort"
      BY <3>2 DEF Diagnosis!Result
    <3> QED BY <2>3, <3>2, <3>3, <3>4
  <2> QED BY <2>1, <2>2, <2>3
<1>8. DiagTypes'
  BY <1>2, <1>3 DEF DiagTypes, DiagScript
<1>9. Written' /\ AtRest'
  BY <1>2, <1>3 DEF Written, AtRest
<1>10. (swing'.index > 0 /\ ~mute' => ~servo'.torque \/ "torque" \in said') /\ (servo'.gain = found'.gain \/ "gain" \in said')
  <2>1. (swing.index > 0 /\ ~mute => ~servo.torque \/ "torque" \in said) /\ (servo.gain = found.gain \/ "gain" \in said)
    BY <1>2 DEF Cleaned
  <2>2. servo'.torque = servo.torque /\ servo'.gain = servo.gain /\ said \subseteq said'
    BY <1>3, Zenon
  <2> QED BY <1>2, <2>1, <2>2, Zenon
<1>11. Cleaned'
  BY <1>3, <1>10, Zenon DEF Cleaned
<1>13. Diagnosis!GainRisesAtRest
  BY <1>3, <1>8, DiagGain
<1> QED BY <1>2, <1>8, <1>9, <1>11, <1>13, NoTravel DEF DiagInv, Travel

LEMMA DiagRestoreVelocity == ASSUME DiagInv, Diagnosis!RestoreVelocity PROVE DiagInv' /\ Diagnosis!GainRisesAtRest
<1> USE DiagNumbers DEF DiagInv
<1>2. /\ pc = "restoreVelocity" /\ UNCHANGED <<found, mute, window, joint, script, swing, ok, success>> /\ Diagnosis!Start' = Diagnosis!Start
      /\ DiagRegisters' = DiagRegisters
  BY DEF Diagnosis!RestoreVelocity, Diagnosis!Start, DiagRegisters
<1>3. /\ servo' \in DiagRegisters /\ said \subseteq said'
      /\ servo'.torque = servo.torque /\ servo'.mode = servo.mode /\ servo'.gain = servo.gain /\ servo'.goal = servo.goal /\ servo'.accel = servo.accel
      /\ servo'.velocity \in {"found", servo.velocity}
      /\ \/ pc' = "closed" /\ (servo'.velocity = "found" \/ "profile" \in said')
         \/ pc' = "cutShort"
  <2>0. servo \in DiagRegisters
    BY DEF DiagTypes
  <2>1. Diagnosis!PutBack("velocity", "found", "profile", "closed", "closed")
    BY DEF Diagnosis!RestoreVelocity
  <2>2. PICK answer \in Diagnosis!Result, took \in BOOLEAN :
          /\ (answer = "ok" => took) /\ Diagnosis!Put("velocity", "found", took)
          /\ \/ /\ said' = IF answer \in {"no", "raised"} THEN said \cup {"profile"} ELSE said
                /\ pc' = CASE answer = "raised" -> "closed" [] answer = "ctrl-c" -> "cutShort" [] OTHER -> "closed"
             \/ answer = "raised" /\ pc' = "cutShort" /\ UNCHANGED said
    BY <2>1 DEF Diagnosis!PutBack, Diagnosis!Carried
  <2>3. /\ servo' \in DiagRegisters /\ servo'.velocity = IF took THEN "found" ELSE servo.velocity
        /\ servo'.torque = servo.torque /\ servo'.mode = servo.mode /\ servo'.gain = servo.gain /\ servo'.goal = servo.goal /\ servo'.accel = servo.accel
    BY <2>0, <2>2, PutVelocity
  <2>4. /\ said \subseteq said'
        /\ pc' = "cutShort" \/ (pc' = "closed" /\ (answer = "ok" \/ "profile" \in said'))
    BY <2>2 DEF Diagnosis!Result
  <2> QED BY <2>2, <2>3, <2>4
<1>8. DiagTypes'
  BY <1>2, <1>3 DEF DiagTypes, DiagScript
<1>9. Written' /\ AtRest'
  BY <1>2, <1>3 DEF Written, AtRest
<1>11. Cleaned'
  BY <1>2, <1>3 DEF Cleaned
<1>13. Diagnosis!GainRisesAtRest
  BY <1>3, <1>8, DiagGain
<1> QED BY <1>2, <1>8, <1>9, <1>11, <1>13, NoTravel DEF DiagInv, Travel

LEMMA Apart == ASSUME NEW a \in Int, NEW b \in Int PROVE Diagnosis!Distance(a, b) \in Int
  BY DEF Diagnosis!Distance

(* One target: a joint that jams or sags is read where it was before, one  *)
(* that moves the wrong way twice as far off as its target.                *)
LEMMA DiagSwing == ASSUME DiagInv, Diagnosis!Swing PROVE DiagInv' /\ Diagnosis!GainRisesAtRest
<1> USE DiagNumbers DEF DiagInv
<1> DEFINE k == swing.index
           p == Diagnosis!Reading(k)
           target == Diagnosis!Target(k)
<1>1. PICK answer \in Diagnosis!Result, took \in BOOLEAN, seen \in BOOLEAN, alert \in BOOLEAN :
        /\ Diagnosis!Put("goal", target, took)
        /\ IF answer = "ok" /\ seen
           THEN /\ swing' = [index |-> k + 1, peak |-> Diagnosis!Max({swing.peak, Diagnosis!Distance(target, 0)}),
                             worst |-> Diagnosis!Max({swing.worst, Diagnosis!Distance(p, target)}),
                             least |-> IF k = 0 THEN p ELSE Diagnosis!Min({swing.least, p}),
                             most |-> IF k = 0 THEN p ELSE Diagnosis!Max({swing.most, p})]
                /\ pc' = IF alert \/ k + 1 = Swings THEN "return" ELSE "swing"
           ELSE /\ UNCHANGED swing
                /\ pc' = IF answer \in {"ok", "no"} THEN "return" ELSE Diagnosis!To(answer, "return")
  BY DEF Diagnosis!Swing
<1>2. /\ pc = "swing" /\ UNCHANGED <<found, mute, window, joint, script, success, said>> /\ Diagnosis!Start' = Diagnosis!Start
      /\ Diagnosis!Reading(0)' = Diagnosis!Reading(0)
  BY DEF Diagnosis!Swing, Diagnosis!Start, Diagnosis!Reading, Diagnosis!Target, Diagnosis!High, Diagnosis!Low
<1>3. k \in Nat /\ target \in Int /\ p \in Int /\ Diagnosis!Reading(0) \in Int
  BY TargetsAreNumbers DEF DiagTypes
<1> HIDE DEF k, p, target
<1>4. pc' \in {"swing", "return", "failed", "interrupted"} /\ script.enabled
  BY <1>1, <1>2 DEF Diagnosis!Result, Diagnosis!To, Written
<1>5. /\ servo' \in DiagRegisters /\ DiagRegisters' = DiagRegisters
      /\ servo'.torque = servo.torque /\ servo'.mode = servo.mode /\ servo'.gain = servo.gain /\ servo'.accel = servo.accel /\ servo'.velocity = servo.velocity
  <2>1. servo \in DiagRegisters /\ target \in {None} \cup Int /\ DiagRegisters' = DiagRegisters
    BY <1>2, <1>3 DEF DiagTypes, DiagRegisters
  <2> QED BY <1>1, <2>1, PutGoal
<1>6. \/ UNCHANGED swing
      \/ /\ swing' = [index |-> k + 1,
                      peak |-> IF swing.peak >= Diagnosis!Distance(target, 0) THEN swing.peak ELSE Diagnosis!Distance(target, 0),
                      worst |-> IF swing.worst >= Diagnosis!Distance(p, target) THEN swing.worst ELSE Diagnosis!Distance(p, target),
                      least |-> IF k = 0 THEN p ELSE IF swing.least <= p THEN swing.least ELSE p,
                      most |-> IF k = 0 THEN p ELSE IF swing.most >= p THEN swing.most ELSE p]
  <2>1. Diagnosis!Distance(target, 0) \in Int /\ Diagnosis!Distance(p, target) \in Int
    <3>1. 0 \in Int /\ target \in Int /\ p \in Int
      BY <1>3
    <3> QED BY <3>1, Apart
  <2>2. swing.peak \in Int /\ swing.worst \in Int /\ swing.least \in Int /\ swing.most \in Int
    BY DEF DiagTypes
  <2>3. CASE answer = "ok" /\ seen
    <3>1. swing' = [index |-> k + 1, peak |-> Diagnosis!Max({swing.peak, Diagnosis!Distance(target, 0)}),
                             worst |-> Diagnosis!Max({swing.worst, Diagnosis!Distance(p, target)}),
                             least |-> IF k = 0 THEN p ELSE Diagnosis!Min({swing.least, p}),
                             most |-> IF k = 0 THEN p ELSE Diagnosis!Max({swing.most, p})]
      BY <1>1, <2>3
    <3>2. /\ Diagnosis!Max({swing.peak, Diagnosis!Distance(target, 0)}) = IF swing.peak >= Diagnosis!Distance(target, 0) THEN swing.peak ELSE Diagnosis!Distance(target, 0)
          /\ Diagnosis!Max({swing.worst, Diagnosis!Distance(p, target)}) = IF swing.worst >= Diagnosis!Distance(p, target) THEN swing.worst ELSE Diagnosis!Distance(p, target)
      BY <2>1, <2>2, TwoNumbers
    <3>3. /\ Diagnosis!Min({swing.least, p}) = IF swing.least <= p THEN swing.least ELSE p
          /\ Diagnosis!Max({swing.most, p}) = IF swing.most >= p THEN swing.most ELSE p
      BY <1>3, <2>2, TwoNumbers
    <3> QED BY <3>1, <3>2, <3>3
  <2>4. CASE ~(answer = "ok" /\ seen)
    BY <1>1, <2>4
  <2> QED BY <2>3, <2>4
<1>7. /\ swing' \in [index : Nat, peak : Int, worst : Int, least : Int, most : Int]
  <2>1. Diagnosis!Distance(target, 0) \in Int /\ Diagnosis!Distance(p, target) \in Int
    <3>1. 0 \in Int /\ target \in Int /\ p \in Int
      BY <1>3
    <3> QED BY <3>1, Apart
  <2>2. CASE UNCHANGED swing
    BY <2>2 DEF DiagTypes
  <2>3. CASE ~UNCHANGED swing
    BY <1>3, <1>6, <2>1, <2>3 DEF DiagTypes
  <2> QED BY <2>2, <2>3
<1>8. DiagTypes'
  BY <1>2, <1>5, <1>7 DEF DiagTypes, DiagScript
<1>9. Written'
  BY <1>2, <1>4, <1>5 DEF Written
<1>10. AtRest' /\ Cleaned'
  BY <1>2, <1>4 DEF AtRest, Cleaned
<1>12. Travel'
  <2>1. joint \in {"jams", "sags"} => swing'.least = swing'.most /\ (swing'.index > 0 => swing'.least = Diagnosis!Reading(0))
    <3>1. joint \in {"jams", "sags"} => p = Diagnosis!Reading(0)
      BY DEF p, Diagnosis!Reading
    <3>2. CASE UNCHANGED swing
      BY <3>2 DEF Travel
    <3>3. CASE ~UNCHANGED swing
      BY <1>3, <1>6, <3>1, <3>3 DEF Travel, DiagTypes, k
    <3> QED BY <3>2, <3>3
  <2>2. ASSUME joint = "mirrors"
        PROVE  swing'.peak >= 0 /\ swing'.worst >= 2 * swing'.peak /\ (swing'.peak = 0 => swing'.least = 0 /\ swing'.most = 0)
    <3>1. p = 0 - target
      BY <2>2 DEF p, target, Diagnosis!Reading
    <3>2. Diagnosis!Distance(p, target) = 2 * Diagnosis!Distance(target, 0) /\ Diagnosis!Distance(target, 0) >= 0
          /\ (Diagnosis!Distance(target, 0) = 0 => p = 0) /\ Diagnosis!Distance(target, 0) \in Int
      BY <1>3, <3>1 DEF Diagnosis!Distance
    <3>3. /\ swing.peak >= 0 /\ swing.worst >= 2 * swing.peak
          /\ (swing.peak = 0 => swing.least = 0 /\ swing.most = 0)
          /\ swing.peak \in Int /\ swing.worst \in Int /\ swing.least \in Int /\ swing.most \in Int
      BY <2>2 DEF Travel, DiagTypes
    <3>4. CASE UNCHANGED swing
      BY <3>3, <3>4
    <3>5. CASE ~UNCHANGED swing
      BY <1>3, <1>6, <3>2, <3>3, <3>5
    <3> QED BY <3>4, <3>5
  <2> QED BY <1>2, <2>1, <2>2, Zenon DEF Travel
<1>13. Diagnosis!GainRisesAtRest
  BY <1>5, <1>8, DiagGain
<1> QED BY <1>8, <1>9, <1>10, <1>12, <1>13 DEF DiagInv

LEMMA DiagStep == ASSUME DiagInv, Diagnosis!Next PROVE DiagInv' /\ Diagnosis!GainRisesAtRest
  BY DiagRead, DiagReleaseFirst, DiagSetMode, DiagSetAcceleration, DiagSetVelocity, DiagSeed, DiagSetGain, DiagEnable,
     DiagSwing, DiagReturn, DiagOff, DiagInterrupted, DiagFailed, DiagReleaseQuietly, DiagRestoreGain,
     DiagRestoreAcceleration, DiagRestoreVelocity, Zenon DEF Diagnosis!Next

LEMMA DiagStutters == ASSUME DiagInv, UNCHANGED Diagnosis!vars PROVE DiagInv' /\ Diagnosis!GainRisesAtRest
<1> USE DEF DiagInv, Diagnosis!vars
<1>1. DiagTypes'
  BY DEF DiagTypes, DiagRegisters, DiagScript
<1>2. Written' /\ Cleaned'
  BY DEF Written, Cleaned
<1>3. AtRest'
  BY DEF AtRest, Diagnosis!Start
<1>4. Travel'
  BY NoTravel DEF Travel
<1>5. Diagnosis!GainRisesAtRest
  BY <1>1, DiagGain
<1> QED BY <1>1, <1>2, <1>3, <1>4, <1>5

(* What the run ends with.                                                 *)
LEMMA DiagEnds == DiagInv => Diagnosis!LeftAsFoundOrSaid /\ Diagnosis!OnlyAFollowerPasses
  BY DEF DiagInv, Cleaned, Travel, Diagnosis!LeftAsFoundOrSaid, Diagnosis!OnlyAFollowerPasses

------------------------------------------------------------------------------
(* The tuning: the lists of stages a call has left                         *)

(* The first and the rest of the lists of stages.                          *)
LEMMA Rests ==
  ASSUME NEW a, NEW b, NEW c, NEW d
  PROVE  /\ Tail(<<a>>) = <<>> /\ Tail(<<a, b>>) = <<b>>
         /\ Tail(<<a, b, c>>) = <<b, c>> /\ Tail(<<a, b, c, d>>) = <<b, c, d>>
<1>1. Tail(<<a>>) = <<>>
  OBVIOUS
<1>2. Tail(<<a, b>>) = <<b>>
  OBVIOUS
<1>3. Tail(<<a, b, c>>) = <<b, c>>
  OBVIOUS
<1>4. Tail(<<a, b, c, d>>) = <<b, c, d>>
  OBVIOUS
<1> QED BY <1>1, <1>2, <1>3, <1>4

LEMMA Firsts ==
  ASSUME NEW a, NEW b, NEW c, NEW d
  PROVE  Head(<<a>>) = a /\ Head(<<a, b>>) = a /\ Head(<<a, b, c>>) = a /\ Head(<<a, b, c, d>>) = a
  OBVIOUS

LEMMA Joins ==
  ASSUME NEW a, NEW b, NEW c, NEW d
  PROVE  <<a, b>> \o <<>> = <<a, b>> /\ <<a, b>> \o <<c>> = <<a, b, c>> /\ <<a, b>> \o <<c, d>> = <<a, b, c, d>>
<1> DEFINE S == {a, b, c, d}
<1>1. <<a, b>> \o <<>> = <<a, b>>
  OBVIOUS
<1>2. <<a, b>> \o <<c>> = <<a, b, c>>
  <2> DEFINE u == <<a, b>> \o <<c>>
             t == <<a, b, c>>
  <2>1. <<a, b>> \in Seq(S) /\ <<c>> \in Seq(S) /\ t \in Seq(S)
    OBVIOUS
  <2>2. u \in Seq(S) /\ Len(u) = 3 /\ u[1] = a /\ u[2] = b /\ u[3] = c
    BY <2>1, ConcatProperties
  <2>3. Len(t) = 3 /\ t[1] = a /\ t[2] = b /\ t[3] = c
    OBVIOUS
  <2>4. \A i \in 1..3 : u[i] = t[i]
    BY <2>2, <2>3
  <2> HIDE DEF S, u, t
  <2>5. u = t
    BY <2>1, <2>2, <2>3, <2>4, SeqEqual
  <2> QED BY <2>5 DEF u, t
<1>3. <<a, b>> \o <<c, d>> = <<a, b, c, d>>
  <2> DEFINE u == <<a, b>> \o <<c, d>>
             t == <<a, b, c, d>>
  <2>1. <<a, b>> \in Seq(S) /\ <<c, d>> \in Seq(S) /\ t \in Seq(S)
    OBVIOUS
  <2>2. u \in Seq(S) /\ Len(u) = 4 /\ u[1] = a /\ u[2] = b /\ u[3] = c /\ u[4] = d
    BY <2>1, ConcatProperties
  <2>3. Len(t) = 4 /\ t[1] = a /\ t[2] = b /\ t[3] = c /\ t[4] = d
    OBVIOUS
  <2>4. \A i \in 1..4 : u[i] = t[i]
    BY <2>2, <2>3
  <2> HIDE DEF S, u, t
  <2>5. u = t
    BY <2>1, <2>2, <2>3, <2>4, SeqEqual
  <2> QED BY <2>5 DEF u, t
<1> QED BY <1>1, <1>2, <1>3

(* What a call may have left to do: stages of its own, after the legs'     *)
(* and the neck's tuning.                                                  *)
Own == {<<>>, <<"settle">>, <<"settle", "park">>, <<"ramp", "park">>, <<"hold", "restore">>}
Last == {<<"park">>, <<"restore">>}
Necking ==
  {<<"neck">>, <<"neck", "settle">>, <<"neck", "settle", "park">>, <<"neck", "ramp", "park">>, <<"neck", "hold", "restore">>}
Syncing ==
  {<<"sync", "neck">>, <<"sync", "neck", "settle">>, <<"sync", "neck", "settle", "park">>,
   <<"sync", "neck", "ramp", "park">>, <<"sync", "neck", "hold", "restore">>}
Shapes == Own \cup Last \cup Necking \cup Syncing
Parking ==
  {<<"park">>, <<"settle", "park">>, <<"ramp", "park">>, <<"neck", "settle", "park">>, <<"neck", "ramp", "park">>,
   <<"sync", "neck", "settle", "park">>, <<"sync", "neck", "ramp", "park">>}

LEMMA Heads ==
  \A s \in Shapes :
    \/ s = <<>>
    \/ Head(s) = "sync" /\ s # <<>> /\ s \in Syncing
    \/ Head(s) = "neck" /\ s \in Necking
    \/ Head(s) = "settle" /\ s \in {<<"settle">>, <<"settle", "park">>}
    \/ Head(s) = "ramp" /\ s = <<"ramp", "park">>
    \/ Head(s) = "hold" /\ s = <<"hold", "restore">>
    \/ Head(s) = "park" /\ s = <<"park">>
    \/ Head(s) = "restore" /\ s = <<"restore">>
<1>1. \A s \in Syncing : s # <<>> /\ Head(s) = "sync"
  BY Firsts DEF Syncing
<1>2. \A s \in Necking : s # <<>> /\ Head(s) = "neck"
  BY Firsts DEF Necking
<1>3. /\ Head(<<"settle">>) = "settle" /\ Head(<<"settle", "park">>) = "settle" /\ Head(<<"ramp", "park">>) = "ramp"
      /\ Head(<<"hold", "restore">>) = "hold" /\ Head(<<"park">>) = "park" /\ Head(<<"restore">>) = "restore"
  BY Firsts
<1> QED BY <1>1, <1>2, <1>3, Zenon DEF Shapes, Own, Last

(* A stage that is done leaves the others.                                 *)
LEMMA Remains ==
  /\ \A s \in Syncing : /\ Tail(s) \in Necking
                        /\ s \in Parking <=> Tail(s) \in Parking
  /\ \A s \in Necking : /\ Tail(s) \in Own
                        /\ s \in Parking <=> Tail(s) \in Parking
  /\ Tail(<<"settle">>) = <<>> /\ Tail(<<"settle", "park">>) = <<"park">> /\ Tail(<<"ramp", "park">>) = <<"park">>
  /\ Tail(<<"hold", "restore">>) = <<"restore">> /\ Tail(<<"park">>) = <<>> /\ Tail(<<"restore">>) = <<>>
<1>1. /\ Tail(<<"sync", "neck">>) = <<"neck">> /\ Tail(<<"sync", "neck", "settle">>) = <<"neck", "settle">>
      /\ Tail(<<"sync", "neck", "settle", "park">>) = <<"neck", "settle", "park">>
      /\ Tail(<<"sync", "neck", "ramp", "park">>) = <<"neck", "ramp", "park">>
      /\ Tail(<<"sync", "neck", "hold", "restore">>) = <<"neck", "hold", "restore">>
  BY Rests
<1>2. /\ Tail(<<"neck">>) = <<>> /\ Tail(<<"neck", "settle">>) = <<"settle">>
      /\ Tail(<<"neck", "settle", "park">>) = <<"settle", "park">>
      /\ Tail(<<"neck", "ramp", "park">>) = <<"ramp", "park">>
      /\ Tail(<<"neck", "hold", "restore">>) = <<"hold", "restore">>
  BY Rests
<1>3. /\ Tail(<<"settle">>) = <<>> /\ Tail(<<"settle", "park">>) = <<"park">> /\ Tail(<<"ramp", "park">>) = <<"park">>
      /\ Tail(<<"hold", "restore">>) = <<"restore">> /\ Tail(<<"park">>) = <<>> /\ Tail(<<"restore">>) = <<>>
  BY Rests
<1>4. \A s \in Syncing : Tail(s) \in Necking
  BY <1>1, Zenon DEF Syncing, Necking
<1>5. \A s \in Necking : Tail(s) \in Own
  BY <1>2, Zenon DEF Own, Necking
<1>6. <<"sync", "neck">> \notin Parking /\ <<"sync", "neck", "settle">> \notin Parking /\ <<"sync", "neck", "hold", "restore">> \notin Parking
  BY DEF Parking
<1>7. <<"neck">> \notin Parking /\ <<"neck", "settle">> \notin Parking /\ <<"neck", "hold", "restore">> \notin Parking
  BY DEF Parking
<1>8. <<>> \notin Parking /\ <<"settle">> \notin Parking /\ <<"hold", "restore">> \notin Parking
  BY DEF Parking
<1>9. /\ <<"sync", "neck", "settle", "park">> \in Parking /\ <<"sync", "neck", "ramp", "park">> \in Parking
      /\ <<"neck", "settle", "park">> \in Parking /\ <<"neck", "ramp", "park">> \in Parking
      /\ <<"settle", "park">> \in Parking /\ <<"ramp", "park">> \in Parking
  BY DEF Parking
<1>10. \A s \in Syncing : s \in Parking <=> Tail(s) \in Parking
  BY <1>1, <1>6, <1>7, <1>9, Zenon DEF Syncing
<1>11. \A s \in Necking : s \in Parking <=> Tail(s) \in Parking
  BY <1>2, <1>7, <1>8, <1>9, Zenon DEF Necking
<1> QED BY <1>3, <1>4, <1>5, <1>10, <1>11, Zenon

(* What step, return_to_neutral, sleep and limp put on the list.           *)
LEMMA Begins ==
  /\ \A s \in {<<>>, <<"settle">>, <<"settle", "park">>} :
       <<"sync", "neck">> \o s \in Syncing /\ (<<"sync", "neck">> \o s \in Parking <=> s \in Parking)
<1>1. /\ <<"sync", "neck">> \o <<>> = <<"sync", "neck">>
      /\ <<"sync", "neck">> \o <<"settle">> = <<"sync", "neck", "settle">>
      /\ <<"sync", "neck">> \o <<"settle", "park">> = <<"sync", "neck", "settle", "park">>
  BY Joins
<1>2. <<"sync", "neck">> \notin Parking /\ <<"sync", "neck", "settle">> \notin Parking
      /\ <<>> \notin Parking /\ <<"settle">> \notin Parking
  BY DEF Parking
<1>3. <<"sync", "neck", "settle", "park">> \in Parking /\ <<"settle", "park">> \in Parking
  BY DEF Parking
<1> QED BY <1>1, <1>2, <1>3, Zenon DEF Syncing

LEMMA Differ ==
  /\ \A s \in Syncing \cup Necking \cup Own : s # <<"restore">>
  /\ \A s \in Necking \cup Own \cup Last : s \notin Syncing
  /\ <<"park">> # <<"restore">> /\ <<>> # <<"restore">>
<1>1. \A s \in Syncing : s # <<"restore">>
  BY DEF Syncing
<1>2. \A s \in Necking : s # <<"restore">>
  BY DEF Necking
<1>3. \A s \in Own : s # <<"restore">>
  BY DEF Own
<1>4. \A s \in Syncing : s # <<>> /\ Head(s) = "sync"
  BY Firsts DEF Syncing
<1>5. \A s \in Necking : Head(s) = "neck"
  BY Firsts DEF Necking
<1>6. \A s \in Own \cup Last : s = <<>> \/ Head(s) \in {"settle", "ramp", "hold", "park", "restore"}
  BY Firsts DEF Own, Last
<1>7. <<"park">> # <<"restore">> /\ <<>> # <<"restore">>
  OBVIOUS
<1> QED BY <1>1, <1>2, <1>3, <1>4, <1>5, <1>6, <1>7, Zenon

LEMMA ShapesAreLists == Shapes \subseteq Seq({"sync", "neck", "settle", "ramp", "park", "hold", "restore"})
<1> DEFINE T == {"sync", "neck", "settle", "ramp", "park", "hold", "restore"}
<1>1. Syncing \subseteq Seq(T)
  BY DEF Syncing
<1>2. Necking \subseteq Seq(T)
  BY DEF Necking
<1>3. Own \subseteq Seq(T)
  BY DEF Own
<1>4. Last \subseteq Seq(T)
  BY DEF Last
<1> QED BY <1>1, <1>2, <1>3, <1>4 DEF Shapes

------------------------------------------------------------------------------
(* The tuning: what a list of writes leaves in the servos, one of which    *)
(* may fail on some of its joints                                          *)

(* The last of at most four writes.                                        *)
LEMMA Latest ==
  ASSUME NEW S \in SUBSET (1..4), S # {}
  PROVE  \E i \in S : \A n \in S : n <= i
<1>1. CASE 4 \in S
  BY <1>1
<1>2. CASE 4 \notin S /\ 3 \in S
  BY <1>2
<1>3. CASE 4 \notin S /\ 3 \notin S /\ 2 \in S
  BY <1>3
<1>4. CASE 4 \notin S /\ 3 \notin S /\ 2 \notin S
  <2>1. \A n \in S : n \in {1, 2, 3, 4}
    OBVIOUS
  <2>2. \A n \in S : n = 1
    BY <1>4, <2>1
  <2>3. \E n : n \in S
    OBVIOUS
  <2>4. 1 \in S
    BY <2>2, <2>3
  <2> QED BY <2>2, <2>4
<1> QED BY <1>1, <1>2, <1>3, <1>4

(* The writes that reach a register of a joint: the first k, and the next  *)
(* on the joints d.                                                        *)
Reached(ws, k, d, reg, j) ==
  {i \in 1..Len(ws) : ws[i].reg = reg /\ ((i <= k /\ j \in ws[i].on) \/ (i = k + 1 /\ j \in d))}

LEMMA RanWhole ==
  ASSUME NEW r, NEW ws, NEW k, NEW d
  PROVE  LET q == Tuning!Ran(r, ws, k, d)
             R(reg, j) == Reached(ws, k, d, reg, j)
             L(reg, j) == IF R(reg, j) = {} THEN r[reg][j] ELSE ws[CHOOSE i \in R(reg, j) : \A n \in R(reg, j) : n <= i].val
         IN  q = [gain |-> [j \in Tuning!Joint |-> L("gain", j)], pv |-> [j \in Tuning!Joint |-> L("pv", j)]]
  BY DEF Tuning!Ran, Reached

LEMMA RanGain ==
  ASSUME NEW r, NEW ws, NEW k, NEW d, NEW j \in Tuning!Joint, Len(ws) \in 0..4
  PROVE  LET S == Reached(ws, k, d, "gain", j)
         IN  /\ S = {} => Tuning!Ran(r, ws, k, d).gain[j] = r.gain[j]
             /\ \A i \in S : (\A n \in S : n <= i) => Tuning!Ran(r, ws, k, d).gain[j] = ws[i].val
<1> DEFINE S == Reached(ws, k, d, "gain", j)
<1>1. Tuning!Ran(r, ws, k, d).gain[j] = IF S = {} THEN r.gain[j] ELSE ws[CHOOSE i \in S : \A n \in S : n <= i].val
  BY RanWhole
<1>0. \A i \in S : i \in Int
  BY DEF Reached
<1>2. ASSUME NEW i \in S, \A n \in S : n <= i
      PROVE  (CHOOSE x \in S : \A n \in S : n <= x) = i
  <2> DEFINE c == CHOOSE x \in S : \A n \in S : n <= x
  <2>1. c \in S /\ \A n \in S : n <= c
    BY <1>2
  <2>2. i \in Int /\ c \in Int
    BY <1>0, <2>1
  <2> HIDE DEF c, S
  <2>3. c = i
    BY <1>2, <2>1, <2>2
  <2> QED BY <2>3 DEF c
<1> QED BY <1>1, <1>2

LEMMA RanPv ==
  ASSUME NEW r, NEW ws, NEW k, NEW d, NEW j \in Tuning!Joint, Len(ws) \in 0..4
  PROVE  LET S == Reached(ws, k, d, "pv", j)
         IN  /\ S = {} => Tuning!Ran(r, ws, k, d).pv[j] = r.pv[j]
             /\ \A i \in S : (\A n \in S : n <= i) => Tuning!Ran(r, ws, k, d).pv[j] = ws[i].val
<1> DEFINE S == Reached(ws, k, d, "pv", j)
<1>1. Tuning!Ran(r, ws, k, d).pv[j] = IF S = {} THEN r.pv[j] ELSE ws[CHOOSE i \in S : \A n \in S : n <= i].val
  BY RanWhole
<1>0. \A i \in S : i \in Int
  BY DEF Reached
<1>2. ASSUME NEW i \in S, \A n \in S : n <= i
      PROVE  (CHOOSE x \in S : \A n \in S : n <= x) = i
  <2> DEFINE c == CHOOSE x \in S : \A n \in S : n <= x
  <2>1. c \in S /\ \A n \in S : n <= c
    BY <1>2
  <2>2. i \in Int /\ c \in Int
    BY <1>0, <2>1
  <2> HIDE DEF c, S
  <2>3. c = i
    BY <1>2, <2>1, <2>2
  <2> QED BY <2>3 DEF c
<1> QED BY <1>1, <1>2

LEMMA Failures == ASSUME NEW r, NEW ws, NEW o \in Tuning!Outcomes(r, ws) PROVE o.failed \in {0, 1}
<1>1. CASE o = [ram |-> Tuning!Ran(r, ws, Len(ws), {}), failed |-> 0]
  BY <1>1
<1>2. CASE o \in UNION {{[ram |-> Tuning!Ran(r, ws, k, d), failed |-> 1] :
                          d \in IF ws[k + 1].whole THEN {{}} ELSE SUBSET ws[k + 1].on} :
                       k \in {i \in 0..(Len(ws) - 1) : ws[i + 1].on # {}}}
  <2>1. PICK k, d : o = [ram |-> Tuning!Ran(r, ws, k, d), failed |-> 1]
    BY <1>2, Zenon
  <2> QED BY <2>1
<1> QED BY <1>1, <1>2 DEF Tuning!Outcomes

(* What a list of writes leaves in a register: what was there or what one  *)
(* of the writes put there, the last that names it if none has failed.     *)
LEMMA Outcome ==
  ASSUME NEW r, NEW ws, Len(ws) \in 0..4, NEW o \in Tuning!Outcomes(r, ws), NEW j \in Tuning!Joint
  PROVE  /\ o.failed \in {0, 1}
         /\ \/ o.ram.gain[j] = r.gain[j]
            \/ \E i \in 1..Len(ws) : ws[i].reg = "gain" /\ j \in ws[i].on /\ o.ram.gain[j] = ws[i].val
         /\ o.failed = 0 =>
              \A i \in 1..Len(ws) :
                /\ ws[i].reg = "gain" /\ j \in ws[i].on
                /\ \A n \in 1..Len(ws) : ws[n].reg = "gain" /\ j \in ws[n].on => n <= i
                => o.ram.gain[j] = ws[i].val
         /\ \/ o.ram.pv[j] = r.pv[j]
            \/ \E i \in 1..Len(ws) : ws[i].reg = "pv" /\ j \in ws[i].on /\ o.ram.pv[j] = ws[i].val
         /\ o.failed = 0 =>
              \A i \in 1..Len(ws) :
                /\ ws[i].reg = "pv" /\ j \in ws[i].on
                /\ \A n \in 1..Len(ws) : ws[n].reg = "pv" /\ j \in ws[n].on => n <= i
                => o.ram.pv[j] = ws[i].val
<1>1. PICK k, d :
        /\ k \in 0..Len(ws) /\ o.ram = Tuning!Ran(r, ws, k, d)
        /\ \/ o.failed = 0 /\ k = Len(ws) /\ d = {}
           \/ o.failed = 1 /\ k + 1 \in 1..Len(ws) /\ d \subseteq ws[k + 1].on
  <2>1. CASE o = [ram |-> Tuning!Ran(r, ws, Len(ws), {}), failed |-> 0]
    BY <2>1
  <2>2. CASE o \in UNION {{[ram |-> Tuning!Ran(r, ws, k, d), failed |-> 1] :
                            d \in IF ws[k + 1].whole THEN {{}} ELSE SUBSET ws[k + 1].on} :
                         k \in {i \in 0..(Len(ws) - 1) : ws[i + 1].on # {}}}
    <3>1. PICK k \in 0..(Len(ws) - 1) :
            \E d \in IF ws[k + 1].whole THEN {{}} ELSE SUBSET ws[k + 1].on :
              o = [ram |-> Tuning!Ran(r, ws, k, d), failed |-> 1]
      BY <2>2, Zenon
    <3>2. PICK d \in IF ws[k + 1].whole THEN {{}} ELSE SUBSET ws[k + 1].on :
            o = [ram |-> Tuning!Ran(r, ws, k, d), failed |-> 1]
      BY <3>1
    <3>3. d \subseteq ws[k + 1].on /\ k \in 0..Len(ws) /\ k + 1 \in 1..Len(ws)
      OBVIOUS
    <3>4. o.ram = Tuning!Ran(r, ws, k, d) /\ o.failed = 1
      BY <3>2, Zenon
    <3> QED BY <3>3, <3>4
  <2> QED BY <2>1, <2>2 DEF Tuning!Outcomes
<1>2. o.failed \in {0, 1}
  BY <1>1
<1>3. /\ \/ o.ram.gain[j] = r.gain[j]
         \/ \E i \in 1..Len(ws) : ws[i].reg = "gain" /\ j \in ws[i].on /\ o.ram.gain[j] = ws[i].val
      /\ o.failed = 0 =>
           \A i \in 1..Len(ws) :
             /\ ws[i].reg = "gain" /\ j \in ws[i].on
             /\ \A n \in 1..Len(ws) : ws[n].reg = "gain" /\ j \in ws[n].on => n <= i
             => o.ram.gain[j] = ws[i].val
  <2> DEFINE S == Reached(ws, k, d, "gain", j)
  <2>1. /\ S = {} => o.ram.gain[j] = r.gain[j]
        /\ \A i \in S : (\A n \in S : n <= i) => o.ram.gain[j] = ws[i].val
    BY <1>1, RanGain
  <2>2. S \in SUBSET (1..4) /\ \A i \in S : i \in 1..Len(ws) /\ ws[i].reg = "gain" /\ j \in ws[i].on
    BY <1>1 DEF Reached
  <2>3. o.failed = 0 => \A i \in 1..Len(ws) : i \in S <=> ws[i].reg = "gain" /\ j \in ws[i].on
    BY <1>1 DEF Reached
  <2>4. \A i \in S : i \in 1..Len(ws)
    BY DEF Reached
  <2> HIDE DEF S
  <2>5. \/ o.ram.gain[j] = r.gain[j]
        \/ \E i \in 1..Len(ws) : ws[i].reg = "gain" /\ j \in ws[i].on /\ o.ram.gain[j] = ws[i].val
    BY <2>1, <2>2, Latest
  <2>6. ASSUME o.failed = 0, NEW i \in 1..Len(ws), ws[i].reg = "gain", j \in ws[i].on,
               \A n \in 1..Len(ws) : ws[n].reg = "gain" /\ j \in ws[n].on => n <= i
        PROVE  o.ram.gain[j] = ws[i].val
    <3>1. i \in S /\ \A n \in S : n <= i
      BY <2>3, <2>4, <2>6
    <3> QED BY <2>1, <3>1
  <2> QED BY <2>5, <2>6
<1>4. /\ \/ o.ram.pv[j] = r.pv[j]
         \/ \E i \in 1..Len(ws) : ws[i].reg = "pv" /\ j \in ws[i].on /\ o.ram.pv[j] = ws[i].val
      /\ o.failed = 0 =>
           \A i \in 1..Len(ws) :
             /\ ws[i].reg = "pv" /\ j \in ws[i].on
             /\ \A n \in 1..Len(ws) : ws[n].reg = "pv" /\ j \in ws[n].on => n <= i
             => o.ram.pv[j] = ws[i].val
  <2> DEFINE S == Reached(ws, k, d, "pv", j)
  <2>1. /\ S = {} => o.ram.pv[j] = r.pv[j]
        /\ \A i \in S : (\A n \in S : n <= i) => o.ram.pv[j] = ws[i].val
    BY <1>1, RanPv
  <2>2. S \in SUBSET (1..4) /\ \A i \in S : i \in 1..Len(ws) /\ ws[i].reg = "pv" /\ j \in ws[i].on
    BY <1>1 DEF Reached
  <2>3. o.failed = 0 => \A i \in 1..Len(ws) : i \in S <=> ws[i].reg = "pv" /\ j \in ws[i].on
    BY <1>1 DEF Reached
  <2>4. \A i \in S : i \in 1..Len(ws)
    BY DEF Reached
  <2> HIDE DEF S
  <2>5. \/ o.ram.pv[j] = r.pv[j]
        \/ \E i \in 1..Len(ws) : ws[i].reg = "pv" /\ j \in ws[i].on /\ o.ram.pv[j] = ws[i].val
    BY <2>1, <2>2, Latest
  <2>6. ASSUME o.failed = 0, NEW i \in 1..Len(ws), ws[i].reg = "pv", j \in ws[i].on,
               \A n \in 1..Len(ws) : ws[n].reg = "pv" /\ j \in ws[n].on => n <= i
        PROVE  o.ram.pv[j] = ws[i].val
    <3>1. i \in S /\ \A n \in S : n <= i
      BY <2>3, <2>4, <2>6
    <3> QED BY <2>1, <3>1
  <2> QED BY <2>5, <2>6
<1> QED BY <1>2, <1>3, <1>4

LEMMA LastGain ==
  ASSUME NEW r, NEW ws, Len(ws) \in 0..4, NEW o \in Tuning!Outcomes(r, ws), NEW j \in Tuning!Joint, o.failed = 0,
         NEW i \in 1..Len(ws), ws[i].reg = "gain", j \in ws[i].on,
         \A n \in 1..Len(ws) : ws[n].reg = "gain" /\ j \in ws[n].on => n <= i
  PROVE  o.ram.gain[j] = ws[i].val
  BY Outcome

LEMMA LastPv ==
  ASSUME NEW r, NEW ws, Len(ws) \in 0..4, NEW o \in Tuning!Outcomes(r, ws), NEW j \in Tuning!Joint, o.failed = 0,
         NEW i \in 1..Len(ws), ws[i].reg = "pv", j \in ws[i].on,
         \A n \in 1..Len(ws) : ws[n].reg = "pv" /\ j \in ws[n].on => n <= i
  PROVE  o.ram.pv[j] = ws[i].val
  BY Outcome

(* A RAM that a list of writes leaves has a value for every joint.         *)
Rams == [gain : [Tuning!Joint -> 0..4], pv : [Tuning!Joint -> {"own", "fast", "stretch"}]]
LEMMA OutcomeIsRam ==
  ASSUME NEW r \in Rams, NEW ws, Len(ws) \in 0..4,
         \A i \in 1..Len(ws) : /\ ws[i].reg = "gain" => ws[i].val \in 0..4
                               /\ ws[i].reg = "pv" => ws[i].val \in {"own", "fast", "stretch"},
         NEW o \in Tuning!Outcomes(r, ws)
  PROVE  o.ram \in Rams /\ o.failed \in {0, 1}
<1>1. \E k, d : o.ram = Tuning!Ran(r, ws, k, d)
  <2>1. CASE o = [ram |-> Tuning!Ran(r, ws, Len(ws), {}), failed |-> 0]
    BY <2>1, Zenon
  <2>2. CASE o \in UNION {{[ram |-> Tuning!Ran(r, ws, k, d), failed |-> 1] :
                            d \in IF ws[k + 1].whole THEN {{}} ELSE SUBSET ws[k + 1].on} :
                         k \in {i \in 0..(Len(ws) - 1) : ws[i + 1].on # {}}}
    <3>1. PICK k, d : o = [ram |-> Tuning!Ran(r, ws, k, d), failed |-> 1]
      BY <2>2, Zenon
    <3> QED BY <3>1, Zenon
  <2> QED BY <2>1, <2>2 DEF Tuning!Outcomes
<1>2. ASSUME NEW j \in Tuning!Joint PROVE o.ram.gain[j] \in 0..4 /\ o.ram.pv[j] \in {"own", "fast", "stretch"}
  <2>1. r.gain[j] \in 0..4 /\ r.pv[j] \in {"own", "fast", "stretch"}
    BY DEF Rams
  <2> QED BY <2>1, Outcome
<1>3. PICK k, d : o.ram = Tuning!Ran(r, ws, k, d)
  BY <1>1
<1> DEFINE R(reg, j) == Reached(ws, k, d, reg, j)
           L(reg, j) == IF R(reg, j) = {} THEN r[reg][j] ELSE ws[CHOOSE i \in R(reg, j) : \A n \in R(reg, j) : n <= i].val
           F == [j \in Tuning!Joint |-> L("gain", j)]
           G == [j \in Tuning!Joint |-> L("pv", j)]
<1>4. o.ram = [gain |-> F, pv |-> G]
  BY <1>3, RanWhole
<1> HIDE DEF L
<1>5. F = [j \in Tuning!Joint |-> F[j]] /\ G = [j \in Tuning!Joint |-> G[j]]
  OBVIOUS
<1> HIDE DEF F, G
<1>6. o.ram.gain = F /\ o.ram.pv = G
  BY <1>4
<1>7. F \in [Tuning!Joint -> 0..4] /\ G \in [Tuning!Joint -> {"own", "fast", "stretch"}]
  BY <1>2, <1>5, <1>6
<1>8. o.failed \in {0, 1}
  BY Failures
<1> QED BY <1>4, <1>7, <1>8 DEF Rams

(* The lists of writes that the calls make.                                *)
LEMMA NoWrites ==
  ASSUME NEW r \in Rams, NEW o \in Tuning!Outcomes(r, <<>>)
  PROVE  /\ o.ram \in Rams /\ o.failed = 0
         /\ \A j \in Tuning!Joint : o.ram.gain[j] = r.gain[j] /\ o.ram.pv[j] = r.pv[j]
<1> DEFINE ws == <<>>
<1>1. Len(ws) = 0 /\ Len(ws) \in 0..4 /\ 1..Len(ws) = {}
  OBVIOUS
<1>2. o.failed = 0
  <2>1. {i \in 0..(Len(ws) - 1) : ws[i + 1].on # {}} = {}
    BY <1>1
  <2>2. CASE o = [ram |-> Tuning!Ran(r, ws, Len(ws), {}), failed |-> 0]
    BY <2>2
  <2>3. CASE o \in UNION {{[ram |-> Tuning!Ran(r, ws, k, d), failed |-> 1] :
                            d \in IF ws[k + 1].whole THEN {{}} ELSE SUBSET ws[k + 1].on} :
                         k \in {i \in 0..(Len(ws) - 1) : ws[i + 1].on # {}}}
    BY <2>1, <2>3, Zenon
  <2> QED BY <2>2, <2>3 DEF Tuning!Outcomes
<1> HIDE DEF ws
<1>3. o \in Tuning!Outcomes(r, ws)
  BY DEF ws
<1>4. o.ram \in Rams
  BY <1>1, <1>3, OutcomeIsRam
<1>5. \A j \in Tuning!Joint : o.ram.gain[j] = r.gain[j] /\ o.ram.pv[j] = r.pv[j]
  BY <1>1, <1>3, Outcome
<1> QED BY <1>2, <1>4, <1>5

LEMMA OneGain ==
  ASSUME NEW r \in Rams, NEW S1, NEW v1, v1 \in 0..4,
         NEW o \in Tuning!Outcomes(r, <<Tuning!Raw("gain", S1, v1)>>)
  PROVE  /\ o.ram \in Rams /\ o.failed \in {0, 1}
         /\ \A j \in Tuning!Joint :
              /\ o.ram.gain[j] = r.gain[j] \/ (j \in S1 /\ o.ram.gain[j] = v1)
              /\ o.failed = 0 => (j \in S1 => o.ram.gain[j] = v1)
              /\ o.ram.pv[j] = r.pv[j]
<1> DEFINE ws == <<Tuning!Raw("gain", S1, v1)>>
<1>1. Len(ws) = 1 /\ 1..Len(ws) = {1} /\ Len(ws) \in 0..4
  OBVIOUS
<1>2. ws[1].reg = "gain" /\ ws[1].on = S1 /\ ws[1].val = v1
  BY DEF Tuning!Raw
<1> HIDE DEF ws
<1>3. o \in Tuning!Outcomes(r, ws)
  BY DEF ws
<1>4. o.ram \in Rams /\ o.failed \in {0, 1}
  BY <1>1, <1>2, <1>3, OutcomeIsRam
<1>5. ASSUME NEW j \in Tuning!Joint PROVE o.ram.gain[j] = r.gain[j] \/ (j \in S1 /\ o.ram.gain[j] = v1)
  BY <1>1, <1>2, <1>3, Outcome
<1>6. ASSUME NEW j \in Tuning!Joint PROVE o.ram.pv[j] = r.pv[j]
  BY <1>1, <1>2, <1>3, Outcome
<1>7. ASSUME NEW j \in Tuning!Joint, o.failed = 0 PROVE (j \in S1 => o.ram.gain[j] = v1)
  <2>1. ASSUME j \in S1 PROVE o.ram.gain[j] = v1
    <3>1. \A n \in 1..Len(ws) : ws[n].reg = "gain" /\ j \in ws[n].on => n <= 1
      BY <1>1, <1>2, <2>1
    <3>2. 1 \in 1..Len(ws) /\ ws[1].reg = "gain" /\ j \in ws[1].on
      BY <1>1, <1>2, <2>1
    <3>3. o.ram.gain[j] = ws[1].val
      BY <1>1, <1>3, <1>7, <3>1, <3>2, LastGain, SMTT(40)
    <3> QED BY <1>2, <3>3
  <2> QED BY <2>1
<1> QED BY <1>4, <1>5, <1>6, <1>7, Zenon

LEMMA OnePv ==
  ASSUME NEW r \in Rams, NEW S1, NEW v1, v1 \in {"own", "fast", "stretch"},
         NEW o \in Tuning!Outcomes(r, <<Tuning!Raw("pv", S1, v1)>>)
  PROVE  /\ o.ram \in Rams /\ o.failed \in {0, 1}
         /\ \A j \in Tuning!Joint :
              /\ o.ram.gain[j] = r.gain[j]
              /\ o.ram.pv[j] = r.pv[j] \/ (j \in S1 /\ o.ram.pv[j] = v1)
              /\ o.failed = 0 => (j \in S1 => o.ram.pv[j] = v1)
<1> DEFINE ws == <<Tuning!Raw("pv", S1, v1)>>
<1>1. Len(ws) = 1 /\ 1..Len(ws) = {1} /\ Len(ws) \in 0..4
  OBVIOUS
<1>2. ws[1].reg = "pv" /\ ws[1].on = S1 /\ ws[1].val = v1
  BY DEF Tuning!Raw
<1> HIDE DEF ws
<1>3. o \in Tuning!Outcomes(r, ws)
  BY DEF ws
<1>4. o.ram \in Rams /\ o.failed \in {0, 1}
  BY <1>1, <1>2, <1>3, OutcomeIsRam
<1>5. ASSUME NEW j \in Tuning!Joint PROVE o.ram.gain[j] = r.gain[j]
  BY <1>1, <1>2, <1>3, Outcome
<1>6. ASSUME NEW j \in Tuning!Joint PROVE o.ram.pv[j] = r.pv[j] \/ (j \in S1 /\ o.ram.pv[j] = v1)
  BY <1>1, <1>2, <1>3, Outcome
<1>7. ASSUME NEW j \in Tuning!Joint, o.failed = 0 PROVE (j \in S1 => o.ram.pv[j] = v1)
  <2>1. ASSUME j \in S1 PROVE o.ram.pv[j] = v1
    <3>1. \A n \in 1..Len(ws) : ws[n].reg = "pv" /\ j \in ws[n].on => n <= 1
      BY <1>1, <1>2, <2>1
    <3>2. 1 \in 1..Len(ws) /\ ws[1].reg = "pv" /\ j \in ws[1].on
      BY <1>1, <1>2, <2>1
    <3>3. o.ram.pv[j] = ws[1].val
      BY <1>1, <1>3, <1>7, <3>1, <3>2, LastPv, SMTT(40)
    <3> QED BY <1>2, <3>3
  <2> QED BY <2>1
<1> QED BY <1>4, <1>5, <1>6, <1>7, Zenon

LEMMA TwoGains ==
  ASSUME NEW r \in Rams, NEW S1, NEW v1, NEW S2, NEW v2, v1 \in 0..4, v2 \in 0..4,
         NEW o \in Tuning!Outcomes(r, <<Tuning!Raw("gain", S1, v1), Tuning!Raw("gain", S2, v2)>>)
  PROVE  /\ o.ram \in Rams /\ o.failed \in {0, 1}
         /\ \A j \in Tuning!Joint :
              /\ o.ram.gain[j] = r.gain[j] \/ (j \in S1 /\ o.ram.gain[j] = v1) \/ (j \in S2 /\ o.ram.gain[j] = v2)
              /\ o.failed = 0 => (j \in S1 /\ j \notin S2 => o.ram.gain[j] = v1) /\ (j \in S2 => o.ram.gain[j] = v2)
              /\ o.ram.pv[j] = r.pv[j]
<1> DEFINE ws == <<Tuning!Raw("gain", S1, v1), Tuning!Raw("gain", S2, v2)>>
<1>1. Len(ws) = 2 /\ 1..Len(ws) = {1, 2} /\ Len(ws) \in 0..4
  OBVIOUS
<1>2. ws[1].reg = "gain" /\ ws[1].on = S1 /\ ws[1].val = v1 /\ ws[2].reg = "gain" /\ ws[2].on = S2 /\ ws[2].val = v2
  BY DEF Tuning!Raw
<1> HIDE DEF ws
<1>3. o \in Tuning!Outcomes(r, ws)
  BY DEF ws
<1>4. o.ram \in Rams /\ o.failed \in {0, 1}
  BY <1>1, <1>2, <1>3, OutcomeIsRam
<1>5. ASSUME NEW j \in Tuning!Joint PROVE o.ram.gain[j] = r.gain[j] \/ (j \in S1 /\ o.ram.gain[j] = v1) \/ (j \in S2 /\ o.ram.gain[j] = v2)
  BY <1>1, <1>2, <1>3, Outcome
<1>6. ASSUME NEW j \in Tuning!Joint PROVE o.ram.pv[j] = r.pv[j]
  BY <1>1, <1>2, <1>3, Outcome
<1>7. ASSUME NEW j \in Tuning!Joint, o.failed = 0 PROVE (j \in S1 /\ j \notin S2 => o.ram.gain[j] = v1) /\ (j \in S2 => o.ram.gain[j] = v2)
  <2>1. ASSUME j \in S1, j \notin S2 PROVE o.ram.gain[j] = v1
    <3>1. \A n \in 1..Len(ws) : ws[n].reg = "gain" /\ j \in ws[n].on => n <= 1
      BY <1>1, <1>2, <2>1
    <3>2. 1 \in 1..Len(ws) /\ ws[1].reg = "gain" /\ j \in ws[1].on
      BY <1>1, <1>2, <2>1
    <3>3. o.ram.gain[j] = ws[1].val
      BY <1>1, <1>3, <1>7, <3>1, <3>2, LastGain, SMTT(40)
    <3> QED BY <1>2, <3>3
  <2>2. ASSUME j \in S2 PROVE o.ram.gain[j] = v2
    <3>1. \A n \in 1..Len(ws) : ws[n].reg = "gain" /\ j \in ws[n].on => n <= 2
      BY <1>1, <1>2, <2>2
    <3>2. 2 \in 1..Len(ws) /\ ws[2].reg = "gain" /\ j \in ws[2].on
      BY <1>1, <1>2, <2>2
    <3>3. o.ram.gain[j] = ws[2].val
      BY <1>1, <1>3, <1>7, <3>1, <3>2, LastGain, SMTT(40)
    <3> QED BY <1>2, <3>3
  <2> QED BY <2>1, <2>2
<1> QED BY <1>4, <1>5, <1>6, <1>7, Zenon

LEMMA ThreeGains ==
  ASSUME NEW r \in Rams, NEW S1, NEW v1, NEW S2, NEW v2, NEW S3, NEW v3, v1 \in 0..4, v2 \in 0..4, v3 \in 0..4,
         NEW o \in Tuning!Outcomes(r, <<Tuning!Raw("gain", S1, v1), Tuning!Raw("gain", S2, v2), Tuning!Raw("gain", S3, v3)>>)
  PROVE  /\ o.ram \in Rams /\ o.failed \in {0, 1}
         /\ \A j \in Tuning!Joint :
              /\ o.ram.gain[j] = r.gain[j] \/ (j \in S1 /\ o.ram.gain[j] = v1) \/ (j \in S2 /\ o.ram.gain[j] = v2) \/ (j \in S3 /\ o.ram.gain[j] = v3)
              /\ o.failed = 0 => (j \in S1 /\ j \notin S2 /\ j \notin S3 => o.ram.gain[j] = v1) /\ (j \in S2 /\ j \notin S3 => o.ram.gain[j] = v2) /\ (j \in S3 => o.ram.gain[j] = v3)
              /\ o.ram.pv[j] = r.pv[j]
<1> DEFINE ws == <<Tuning!Raw("gain", S1, v1), Tuning!Raw("gain", S2, v2), Tuning!Raw("gain", S3, v3)>>
<1>1. Len(ws) = 3 /\ 1..Len(ws) = {1, 2, 3} /\ Len(ws) \in 0..4
  OBVIOUS
<1>2. ws[1].reg = "gain" /\ ws[1].on = S1 /\ ws[1].val = v1 /\ ws[2].reg = "gain" /\ ws[2].on = S2 /\ ws[2].val = v2 /\ ws[3].reg = "gain" /\ ws[3].on = S3 /\ ws[3].val = v3
  BY DEF Tuning!Raw
<1> HIDE DEF ws
<1>3. o \in Tuning!Outcomes(r, ws)
  BY DEF ws
<1>4. o.ram \in Rams /\ o.failed \in {0, 1}
  BY <1>1, <1>2, <1>3, OutcomeIsRam
<1>5. ASSUME NEW j \in Tuning!Joint PROVE o.ram.gain[j] = r.gain[j] \/ (j \in S1 /\ o.ram.gain[j] = v1) \/ (j \in S2 /\ o.ram.gain[j] = v2) \/ (j \in S3 /\ o.ram.gain[j] = v3)
  BY <1>1, <1>2, <1>3, Outcome
<1>6. ASSUME NEW j \in Tuning!Joint PROVE o.ram.pv[j] = r.pv[j]
  BY <1>1, <1>2, <1>3, Outcome
<1>7. ASSUME NEW j \in Tuning!Joint, o.failed = 0 PROVE (j \in S1 /\ j \notin S2 /\ j \notin S3 => o.ram.gain[j] = v1) /\ (j \in S2 /\ j \notin S3 => o.ram.gain[j] = v2) /\ (j \in S3 => o.ram.gain[j] = v3)
  <2>1. ASSUME j \in S1, j \notin S2, j \notin S3 PROVE o.ram.gain[j] = v1
    <3>1. \A n \in 1..Len(ws) : ws[n].reg = "gain" /\ j \in ws[n].on => n <= 1
      BY <1>1, <1>2, <2>1
    <3>2. 1 \in 1..Len(ws) /\ ws[1].reg = "gain" /\ j \in ws[1].on
      BY <1>1, <1>2, <2>1
    <3>3. o.ram.gain[j] = ws[1].val
      BY <1>1, <1>3, <1>7, <3>1, <3>2, LastGain, SMTT(40)
    <3> QED BY <1>2, <3>3
  <2>2. ASSUME j \in S2, j \notin S3 PROVE o.ram.gain[j] = v2
    <3>1. \A n \in 1..Len(ws) : ws[n].reg = "gain" /\ j \in ws[n].on => n <= 2
      BY <1>1, <1>2, <2>2
    <3>2. 2 \in 1..Len(ws) /\ ws[2].reg = "gain" /\ j \in ws[2].on
      BY <1>1, <1>2, <2>2
    <3>3. o.ram.gain[j] = ws[2].val
      BY <1>1, <1>3, <1>7, <3>1, <3>2, LastGain, SMTT(40)
    <3> QED BY <1>2, <3>3
  <2>3. ASSUME j \in S3 PROVE o.ram.gain[j] = v3
    <3>1. \A n \in 1..Len(ws) : ws[n].reg = "gain" /\ j \in ws[n].on => n <= 3
      BY <1>1, <1>2, <2>3
    <3>2. 3 \in 1..Len(ws) /\ ws[3].reg = "gain" /\ j \in ws[3].on
      BY <1>1, <1>2, <2>3
    <3>3. o.ram.gain[j] = ws[3].val
      BY <1>1, <1>3, <1>7, <3>1, <3>2, LastGain, SMTT(40)
    <3> QED BY <1>2, <3>3
  <2> QED BY <2>1, <2>2, <2>3
<1> QED BY <1>4, <1>5, <1>6, <1>7, Zenon

LEMMA FourGains ==
  ASSUME NEW r \in Rams, NEW S1, NEW v1, NEW S2, NEW v2, NEW S3, NEW v3, NEW S4, NEW v4, v1 \in 0..4, v2 \in 0..4, v3 \in 0..4, v4 \in 0..4,
         NEW o \in Tuning!Outcomes(r, <<Tuning!Raw("gain", S1, v1), Tuning!Raw("gain", S2, v2), Tuning!Raw("gain", S3, v3), Tuning!Raw("gain", S4, v4)>>)
  PROVE  /\ o.ram \in Rams /\ o.failed \in {0, 1}
         /\ \A j \in Tuning!Joint :
              /\ o.ram.gain[j] = r.gain[j] \/ (j \in S1 /\ o.ram.gain[j] = v1) \/ (j \in S2 /\ o.ram.gain[j] = v2) \/ (j \in S3 /\ o.ram.gain[j] = v3) \/ (j \in S4 /\ o.ram.gain[j] = v4)
              /\ o.failed = 0 => (j \in S1 /\ j \notin S2 /\ j \notin S3 /\ j \notin S4 => o.ram.gain[j] = v1) /\ (j \in S2 /\ j \notin S3 /\ j \notin S4 => o.ram.gain[j] = v2) /\ (j \in S3 /\ j \notin S4 => o.ram.gain[j] = v3) /\ (j \in S4 => o.ram.gain[j] = v4)
              /\ o.ram.pv[j] = r.pv[j]
<1> DEFINE ws == <<Tuning!Raw("gain", S1, v1), Tuning!Raw("gain", S2, v2), Tuning!Raw("gain", S3, v3), Tuning!Raw("gain", S4, v4)>>
<1>1. Len(ws) = 4 /\ 1..Len(ws) = {1, 2, 3, 4} /\ Len(ws) \in 0..4
  OBVIOUS
<1>2. ws[1].reg = "gain" /\ ws[1].on = S1 /\ ws[1].val = v1 /\ ws[2].reg = "gain" /\ ws[2].on = S2 /\ ws[2].val = v2 /\ ws[3].reg = "gain" /\ ws[3].on = S3 /\ ws[3].val = v3 /\ ws[4].reg = "gain" /\ ws[4].on = S4 /\ ws[4].val = v4
  BY DEF Tuning!Raw
<1> HIDE DEF ws
<1>3. o \in Tuning!Outcomes(r, ws)
  BY DEF ws
<1>4. o.ram \in Rams /\ o.failed \in {0, 1}
  BY <1>1, <1>2, <1>3, OutcomeIsRam
<1>5. ASSUME NEW j \in Tuning!Joint PROVE o.ram.gain[j] = r.gain[j] \/ (j \in S1 /\ o.ram.gain[j] = v1) \/ (j \in S2 /\ o.ram.gain[j] = v2) \/ (j \in S3 /\ o.ram.gain[j] = v3) \/ (j \in S4 /\ o.ram.gain[j] = v4)
  BY <1>1, <1>2, <1>3, Outcome
<1>6. ASSUME NEW j \in Tuning!Joint PROVE o.ram.pv[j] = r.pv[j]
  BY <1>1, <1>2, <1>3, Outcome
<1>7. ASSUME NEW j \in Tuning!Joint, o.failed = 0 PROVE (j \in S1 /\ j \notin S2 /\ j \notin S3 /\ j \notin S4 => o.ram.gain[j] = v1) /\ (j \in S2 /\ j \notin S3 /\ j \notin S4 => o.ram.gain[j] = v2) /\ (j \in S3 /\ j \notin S4 => o.ram.gain[j] = v3) /\ (j \in S4 => o.ram.gain[j] = v4)
  <2>1. ASSUME j \in S1, j \notin S2, j \notin S3, j \notin S4 PROVE o.ram.gain[j] = v1
    <3>1. \A n \in 1..Len(ws) : ws[n].reg = "gain" /\ j \in ws[n].on => n <= 1
      BY <1>1, <1>2, <2>1
    <3>2. 1 \in 1..Len(ws) /\ ws[1].reg = "gain" /\ j \in ws[1].on
      BY <1>1, <1>2, <2>1
    <3>3. o.ram.gain[j] = ws[1].val
      BY <1>1, <1>3, <1>7, <3>1, <3>2, LastGain, SMTT(40)
    <3> QED BY <1>2, <3>3
  <2>2. ASSUME j \in S2, j \notin S3, j \notin S4 PROVE o.ram.gain[j] = v2
    <3>1. \A n \in 1..Len(ws) : ws[n].reg = "gain" /\ j \in ws[n].on => n <= 2
      BY <1>1, <1>2, <2>2
    <3>2. 2 \in 1..Len(ws) /\ ws[2].reg = "gain" /\ j \in ws[2].on
      BY <1>1, <1>2, <2>2
    <3>3. o.ram.gain[j] = ws[2].val
      BY <1>1, <1>3, <1>7, <3>1, <3>2, LastGain, SMTT(40)
    <3> QED BY <1>2, <3>3
  <2>3. ASSUME j \in S3, j \notin S4 PROVE o.ram.gain[j] = v3
    <3>1. \A n \in 1..Len(ws) : ws[n].reg = "gain" /\ j \in ws[n].on => n <= 3
      BY <1>1, <1>2, <2>3
    <3>2. 3 \in 1..Len(ws) /\ ws[3].reg = "gain" /\ j \in ws[3].on
      BY <1>1, <1>2, <2>3
    <3>3. o.ram.gain[j] = ws[3].val
      BY <1>1, <1>3, <1>7, <3>1, <3>2, LastGain, SMTT(40)
    <3> QED BY <1>2, <3>3
  <2>4. ASSUME j \in S4 PROVE o.ram.gain[j] = v4
    <3>1. \A n \in 1..Len(ws) : ws[n].reg = "gain" /\ j \in ws[n].on => n <= 4
      BY <1>1, <1>2, <2>4
    <3>2. 4 \in 1..Len(ws) /\ ws[4].reg = "gain" /\ j \in ws[4].on
      BY <1>1, <1>2, <2>4
    <3>3. o.ram.gain[j] = ws[4].val
      BY <1>1, <1>3, <1>7, <3>1, <3>2, LastGain, SMTT(40)
    <3> QED BY <1>2, <3>3
  <2> QED BY <2>1, <2>2, <2>3, <2>4
<1> QED BY <1>4, <1>5, <1>6, <1>7, Zenon

LEMMA GainThenPv ==
  ASSUME NEW r \in Rams, NEW S1, NEW v1, NEW S2, NEW v2, v1 \in 0..4, v2 \in {"own", "fast", "stretch"},
         NEW o \in Tuning!Outcomes(r, <<Tuning!Raw("gain", S1, v1), Tuning!Raw("pv", S2, v2)>>)
  PROVE  /\ o.ram \in Rams /\ o.failed \in {0, 1}
         /\ \A j \in Tuning!Joint :
              /\ o.ram.gain[j] = r.gain[j] \/ (j \in S1 /\ o.ram.gain[j] = v1)
              /\ o.failed = 0 => (j \in S1 => o.ram.gain[j] = v1)
              /\ o.ram.pv[j] = r.pv[j] \/ (j \in S2 /\ o.ram.pv[j] = v2)
              /\ o.failed = 0 => (j \in S2 => o.ram.pv[j] = v2)
<1> DEFINE ws == <<Tuning!Raw("gain", S1, v1), Tuning!Raw("pv", S2, v2)>>
<1>1. Len(ws) = 2 /\ 1..Len(ws) = {1, 2} /\ Len(ws) \in 0..4
  OBVIOUS
<1>2. ws[1].reg = "gain" /\ ws[1].on = S1 /\ ws[1].val = v1 /\ ws[2].reg = "pv" /\ ws[2].on = S2 /\ ws[2].val = v2
  BY DEF Tuning!Raw
<1> HIDE DEF ws
<1>3. o \in Tuning!Outcomes(r, ws)
  BY DEF ws
<1>4. o.ram \in Rams /\ o.failed \in {0, 1}
  BY <1>1, <1>2, <1>3, OutcomeIsRam
<1>5. ASSUME NEW j \in Tuning!Joint PROVE o.ram.gain[j] = r.gain[j] \/ (j \in S1 /\ o.ram.gain[j] = v1)
  BY <1>1, <1>2, <1>3, Outcome
<1>6. ASSUME NEW j \in Tuning!Joint PROVE o.ram.pv[j] = r.pv[j] \/ (j \in S2 /\ o.ram.pv[j] = v2)
  BY <1>1, <1>2, <1>3, Outcome
<1>7. ASSUME NEW j \in Tuning!Joint, o.failed = 0 PROVE (j \in S1 => o.ram.gain[j] = v1)
  <2>1. ASSUME j \in S1 PROVE o.ram.gain[j] = v1
    <3>1. \A n \in 1..Len(ws) : ws[n].reg = "gain" /\ j \in ws[n].on => n <= 1
      BY <1>1, <1>2, <2>1
    <3>2. 1 \in 1..Len(ws) /\ ws[1].reg = "gain" /\ j \in ws[1].on
      BY <1>1, <1>2, <2>1
    <3>3. o.ram.gain[j] = ws[1].val
      BY <1>1, <1>3, <1>7, <3>1, <3>2, LastGain, SMTT(40)
    <3> QED BY <1>2, <3>3
  <2> QED BY <2>1
<1>8. ASSUME NEW j \in Tuning!Joint, o.failed = 0 PROVE (j \in S2 => o.ram.pv[j] = v2)
  <2>1. ASSUME j \in S2 PROVE o.ram.pv[j] = v2
    <3>1. \A n \in 1..Len(ws) : ws[n].reg = "pv" /\ j \in ws[n].on => n <= 2
      BY <1>1, <1>2, <2>1
    <3>2. 2 \in 1..Len(ws) /\ ws[2].reg = "pv" /\ j \in ws[2].on
      BY <1>1, <1>2, <2>1
    <3>3. o.ram.pv[j] = ws[2].val
      BY <1>1, <1>3, <1>8, <3>1, <3>2, LastPv, SMTT(40)
    <3> QED BY <1>2, <3>3
  <2> QED BY <2>1
<1> QED BY <1>4, <1>5, <1>6, <1>7, <1>8, Zenon

LEMMA TwoPvsThenGain ==
  ASSUME NEW r \in Rams, NEW S1, NEW v1, NEW S2, NEW v2, NEW S3, NEW v3, v1 \in {"own", "fast", "stretch"}, v2 \in {"own", "fast", "stretch"}, v3 \in 0..4,
         NEW o \in Tuning!Outcomes(r, <<Tuning!Raw("pv", S1, v1), Tuning!Raw("pv", S2, v2), Tuning!Raw("gain", S3, v3)>>)
  PROVE  /\ o.ram \in Rams /\ o.failed \in {0, 1}
         /\ \A j \in Tuning!Joint :
              /\ o.ram.gain[j] = r.gain[j] \/ (j \in S3 /\ o.ram.gain[j] = v3)
              /\ o.failed = 0 => (j \in S3 => o.ram.gain[j] = v3)
              /\ o.ram.pv[j] = r.pv[j] \/ (j \in S1 /\ o.ram.pv[j] = v1) \/ (j \in S2 /\ o.ram.pv[j] = v2)
              /\ o.failed = 0 => (j \in S1 /\ j \notin S2 => o.ram.pv[j] = v1) /\ (j \in S2 => o.ram.pv[j] = v2)
<1> DEFINE ws == <<Tuning!Raw("pv", S1, v1), Tuning!Raw("pv", S2, v2), Tuning!Raw("gain", S3, v3)>>
<1>1. Len(ws) = 3 /\ 1..Len(ws) = {1, 2, 3} /\ Len(ws) \in 0..4
  OBVIOUS
<1>2. ws[1].reg = "pv" /\ ws[1].on = S1 /\ ws[1].val = v1 /\ ws[2].reg = "pv" /\ ws[2].on = S2 /\ ws[2].val = v2 /\ ws[3].reg = "gain" /\ ws[3].on = S3 /\ ws[3].val = v3
  BY DEF Tuning!Raw
<1> HIDE DEF ws
<1>3. o \in Tuning!Outcomes(r, ws)
  BY DEF ws
<1>4. o.ram \in Rams /\ o.failed \in {0, 1}
  BY <1>1, <1>2, <1>3, OutcomeIsRam
<1>5. ASSUME NEW j \in Tuning!Joint PROVE o.ram.gain[j] = r.gain[j] \/ (j \in S3 /\ o.ram.gain[j] = v3)
  BY <1>1, <1>2, <1>3, Outcome
<1>6. ASSUME NEW j \in Tuning!Joint PROVE o.ram.pv[j] = r.pv[j] \/ (j \in S1 /\ o.ram.pv[j] = v1) \/ (j \in S2 /\ o.ram.pv[j] = v2)
  BY <1>1, <1>2, <1>3, Outcome
<1>7. ASSUME NEW j \in Tuning!Joint, o.failed = 0 PROVE (j \in S3 => o.ram.gain[j] = v3)
  <2>1. ASSUME j \in S3 PROVE o.ram.gain[j] = v3
    <3>1. \A n \in 1..Len(ws) : ws[n].reg = "gain" /\ j \in ws[n].on => n <= 3
      BY <1>1, <1>2, <2>1
    <3>2. 3 \in 1..Len(ws) /\ ws[3].reg = "gain" /\ j \in ws[3].on
      BY <1>1, <1>2, <2>1
    <3>3. o.ram.gain[j] = ws[3].val
      BY <1>1, <1>3, <1>7, <3>1, <3>2, LastGain, SMTT(40)
    <3> QED BY <1>2, <3>3
  <2> QED BY <2>1
<1>8. ASSUME NEW j \in Tuning!Joint, o.failed = 0 PROVE (j \in S1 /\ j \notin S2 => o.ram.pv[j] = v1) /\ (j \in S2 => o.ram.pv[j] = v2)
  <2>1. ASSUME j \in S1, j \notin S2 PROVE o.ram.pv[j] = v1
    <3>1. \A n \in 1..Len(ws) : ws[n].reg = "pv" /\ j \in ws[n].on => n <= 1
      BY <1>1, <1>2, <2>1
    <3>2. 1 \in 1..Len(ws) /\ ws[1].reg = "pv" /\ j \in ws[1].on
      BY <1>1, <1>2, <2>1
    <3>3. o.ram.pv[j] = ws[1].val
      BY <1>1, <1>3, <1>8, <3>1, <3>2, LastPv, SMTT(40)
    <3> QED BY <1>2, <3>3
  <2>2. ASSUME j \in S2 PROVE o.ram.pv[j] = v2
    <3>1. \A n \in 1..Len(ws) : ws[n].reg = "pv" /\ j \in ws[n].on => n <= 2
      BY <1>1, <1>2, <2>2
    <3>2. 2 \in 1..Len(ws) /\ ws[2].reg = "pv" /\ j \in ws[2].on
      BY <1>1, <1>2, <2>2
    <3>3. o.ram.pv[j] = ws[2].val
      BY <1>1, <1>3, <1>8, <3>1, <3>2, LastPv, SMTT(40)
    <3> QED BY <1>2, <3>3
  <2> QED BY <2>1, <2>2
<1> QED BY <1>4, <1>5, <1>6, <1>7, <1>8, Zenon

------------------------------------------------------------------------------
(* The tuning: its invariant                                               *)

IsWave(t) == t # None /\ t[1] = "wave"

(* No gesture is left in a servo that nobody tunes, and a joint that was   *)
(* left limp is limp, as long as no write has failed.                      *)
Clean(j) ==
  /\ ram.gain[j] = Tuning!WaveGain => IsWave(tuned)
  /\ ram.gain[j] = Tuning!SoftGain => Tuning!IsSoft(tuned) /\ j \in tuned[2]
  /\ ram.pv[j] = "stretch" => tuned # None /\ tuned[1] = "stretch"
  /\ ram.pv[j] = "fast" => (neckTuned /\ j \in Neck) \/ (IsWave(tuned) /\ j \in tuned[2])
  /\ j \in limpLeft => ram.gain[j] = Tuning!ZeroGain
  /\ todo = <<"restore">> /\ j \in limp => ram.gain[j] = Tuning!ZeroGain
Traceless == faults = 0 => \A j \in Tuning!Joint : Clean(j)

(* A joint nobody holds is one of the open limp block, or was left limp.   *)
Loosened ==
  /\ unheld \subseteq limpLeft \cup limp
  /\ todo # <<"restore">> => unheld \subseteq limpLeft

(* What is tuned follows the guard, but for the polls not yet synced: a    *)
(* soft return is tuned, and an arm that may trip next is not soft.        *)
SoftScope == verdict = "soft" \/ (scope # None /\ scope[1] \in Tuning!Soft)
Follows ==
  /\ Tuning!IsSoft(tuned) => "gain" \in caps
  /\ softReturn # None => SoftScope
  /\ todo \in Syncing /\ softReturn # None => motion \in Tuning!Soft
  /\ todo \notin Syncing /\ softReturn # None => tuned = <<"soft", softReturn>>
  /\ todo \notin Syncing /\ Tuning!IsSoft(tuned) => SoftScope

(* A neck that sleep lets down, or has let down, is under no wave.         *)
LetDown ==
  /\ asleep => ~IsWave(tuned) /\ (todo \in Syncing => motion \in Tuning!Soft)
  /\ todo \in Parking => motion \in Tuning!Soft /\ (todo \notin Syncing => ~IsWave(tuned))

(* The arm of a soft return is at the soft gain, unless the caller has set *)
(* a gain or may let a leg go limp.                                        *)
LegsHeld == \A names \in MayLimp : names \cap Leg = {}
ArmHeld ==
  LegsHeld =>
    /\ limp \cup limpLeft \subseteq Neck
    /\ softReturn # None /\ tuned = <<"soft", softReturn>> /\ ~overridden =>
         \A j \in softReturn : ram.gain[j] <= Tuning!SoftGain

Tuned == {<<k, S>> : k \in {"wave", "stretch", "soft"}, S \in SUBSET Leg} \cup {None}
TuningTypes ==
  /\ caps \in Drivers /\ motion \in Motion /\ arm \in ArmOf[motion] /\ locked \in BOOLEAN
  /\ softReturn \in (SUBSET Leg) \cup {None}
  /\ scope \in (Motion \X SUBSET Leg) \cup {None} /\ verdict \in {"go", "stop", "soft"}
  /\ tuned \in Tuned /\ neckTuned \in BOOLEAN /\ ram \in Rams
  /\ cut \subseteq Leg /\ asIs \subseteq Leg
  /\ limpLeft \subseteq Tuning!Joint /\ limp \subseteq Tuning!Joint /\ unheld \subseteq Tuning!Joint
  /\ todo \in Shapes /\ faults \in Nat /\ faults <= MaxFaults /\ asleep \in BOOLEAN /\ overridden \in BOOLEAN

TuningInv == TuningTypes /\ Traceless /\ Loosened /\ Follows /\ LetDown /\ ArmHeld

TuningMoves ==
  Tuning!NoJointSnaps /\ (LegsHeld => Tuning!TrippedArmYields) /\ Tuning!SleepingNeckStaysDown /\ Tuning!HeldArmIsEased

LEMMA TuningNames ==
  /\ Leg \cap Neck = {} /\ "idle" \in Motion /\ ArmOf["idle"] = {{}}
  /\ \A m \in Motion : ArmOf[m] \subseteq SUBSET Leg
  /\ MayLimp \subseteq SUBSET Tuning!Joint /\ MaxFaults \in Nat
  /\ \A k \in {"wave", "stretch", "soft"}, S \in SUBSET Leg : <<k, S>> # None
  /\ \A m \in Motion, S \in SUBSET Leg : <<m, S>> # None
<1>1. ArmOf["idle"] = {{}}
  BY TuningConstants DEF Tuning!ConstantsAssumption, Tuning!Soft
<1>2. \A k \in {"wave", "stretch", "soft"}, S \in SUBSET Leg : <<k, S>> # None
  BY TuningConstants DEF Tuning!ConstantsAssumption
<1>3. \A m \in Motion, S \in SUBSET Leg : <<m, S>> # None
  BY TuningConstants DEF Tuning!ConstantsAssumption
<1>4. \A m \in Motion : ArmOf[m] \subseteq SUBSET Leg
  BY TuningConstants DEF Tuning!ConstantsAssumption
<1> QED BY <1>1, <1>2, <1>3, <1>4, TuningConstants DEF Tuning!ConstantsAssumption

LEMMA TuningTyped == TuningTypes => Tuning!TypeOK
<1> SUFFICES ASSUME TuningTypes PROVE Tuning!TypeOK
  OBVIOUS
<1>1. todo \in Seq(Tuning!Stages)
  BY ShapesAreLists DEF TuningTypes, Tuning!Stages
<1>2. ram \in [gain : [Tuning!Joint -> Tuning!ZeroGain..Tuning!WaveGain], pv : [Tuning!Joint -> {"own", "fast", "stretch"}]]
  BY DEF TuningTypes, Rams, Tuning!ZeroGain, Tuning!WaveGain
<1>3. tuned \in ({"wave", "stretch", "soft"} \X SUBSET Leg) \cup {None}
  BY DEF TuningTypes, Tuned
<1>4. faults \in 0..MaxFaults
  BY TuningNames DEF TuningTypes
<1> QED BY <1>1, <1>2, <1>3, <1>4 DEF TuningTypes, Tuning!TypeOK

(* Where a call stands.                                                    *)
LEMMA Stands ==
  ASSUME todo \in Shapes
  PROVE  /\ Tuning!At("sync") => todo \in Syncing /\ Tail(todo) \in Necking /\ (todo \in Parking <=> Tail(todo) \in Parking)
         /\ Tuning!At("neck") => todo \in Necking /\ Tail(todo) \in Own /\ (todo \in Parking <=> Tail(todo) \in Parking)
         /\ Tuning!At("settle") => /\ todo \in {<<"settle">>, <<"settle", "park">>} /\ Tail(todo) \in {<<>>, <<"park">>}
                                   /\ Tail(todo) \in Parking => todo \in Parking
         /\ Tuning!At("ramp") => todo = <<"ramp", "park">> /\ Tail(todo) = <<"park">>
         /\ Tuning!At("hold") => todo = <<"hold", "restore">> /\ Tail(todo) = <<"restore">>
         /\ Tuning!At("park") => todo = <<"park">> /\ Tail(todo) = <<>>
         /\ Tuning!At("restore") => todo = <<"restore">> /\ Tail(todo) = <<>>
         /\ todo \in Syncing => Tuning!At("sync")
<1>1. <<>> \notin Parking /\ <<"settle">> \notin Parking /\ <<"settle", "park">> \in Parking
  BY DEF Parking
<1>2. /\ Tuning!At("sync") => todo \in Syncing
      /\ Tuning!At("neck") => todo \in Necking
      /\ Tuning!At("settle") => todo \in {<<"settle">>, <<"settle", "park">>}
      /\ Tuning!At("ramp") => todo = <<"ramp", "park">>
      /\ Tuning!At("hold") => todo = <<"hold", "restore">>
      /\ Tuning!At("park") => todo = <<"park">>
      /\ Tuning!At("restore") => todo = <<"restore">>
  BY Heads DEF Tuning!At
<1>3. \A s \in Syncing : s # <<>> /\ Head(s) = "sync"
  BY Firsts DEF Syncing
<1>4. todo \in Syncing => Tuning!At("sync")
  BY <1>3 DEF Tuning!At
<1>5. Tuning!At("settle") => Tail(todo) \in {<<>>, <<"park">>} /\ (Tail(todo) \in Parking => todo \in Parking)
  BY <1>1, <1>2, Remains
<1> QED BY <1>2, <1>4, <1>5, Remains, Zenon

LEMMA InList ==
  /\ <<>> \in Shapes \ (Syncing \cup Parking) /\ <<"restore">> \in Shapes \ (Syncing \cup Parking)
  /\ <<"park">> \in Shapes \ Syncing /\ <<"park">> \in Parking /\ <<"ramp", "park">> \in Parking
  /\ <<"ramp", "park">> \notin Syncing /\ <<"hold", "restore">> \in Shapes \ Syncing
  /\ Syncing \subseteq Shapes /\ Necking \subseteq Shapes /\ Own \subseteq Shapes
  /\ \A s \in Necking \cup Own : s \notin Syncing
<1>1. <<>> \notin Parking /\ <<"restore">> \notin Parking /\ <<"park">> \in Parking /\ <<"ramp", "park">> \in Parking
  BY DEF Parking
<1>2. /\ <<>> \in Shapes /\ <<"restore">> \in Shapes /\ <<"park">> \in Shapes /\ <<"ramp", "park">> \in Own
      /\ <<"hold", "restore">> \in Own /\ Syncing \subseteq Shapes /\ Necking \subseteq Shapes /\ Own \subseteq Shapes
      /\ <<>> \in Own /\ <<"restore">> \in Last /\ <<"park">> \in Last
  BY DEF Shapes, Own, Last
<1> QED BY <1>1, <1>2, Differ, Zenon

(* A write that changes no profile and leaves no gesture's gain keeps the  *)
(* joint clean.                                                            *)
LEMMA StaysClean ==
  ASSUME NEW j, Clean(j), ram'.pv[j] \in {ram.pv[j], "own"}, UNCHANGED <<tuned, neckTuned>>,
         ram'.gain[j] \in {ram.gain[j], 0, 2, 3},
         j \in limpLeft' => ram'.gain[j] = 0,
         todo' = <<"restore">> /\ j \in limp' => ram'.gain[j] = 0
  PROVE  Clean(j)'
  BY DEF Clean, IsWave, Tuning!IsSoft, Tuning!WaveGain, Tuning!SoftGain, Tuning!ZeroGain

(* A call that changes no gain snaps nothing.                              *)
LEMMA Still ==
  ASSUME TuningTypes, todo \notin Syncing, todo # <<"ramp", "park">>,
         \A j \in unheld' : \/ ram'.gain[j] = ram.gain[j]
                            \/ ram'.gain[j] = 0
  PROVE  TuningMoves
<1>1. ~Tuning!At("sync") /\ ~Tuning!At("ramp")
  BY Stands DEF TuningTypes
<1>2. Tuning!NoJointSnaps
  <2> SUFFICES ASSUME NEW j \in unheld, ram'.gain[j] > ram.gain[j], j \in unheld' PROVE FALSE
    BY DEF Tuning!NoJointSnaps
  <2>1. j \in Tuning!Joint /\ ram.gain[j] \in 0..4
    BY DEF TuningTypes, Rams
  <2> QED BY <2>1
<1> QED BY <1>1, <1>2 DEF TuningMoves, Tuning!TrippedArmYields, Tuning!SleepingNeckStaysDown, Tuning!HeldArmIsEased

------------------------------------------------------------------------------
(* The tuning: its steps                                                   *)

(* A call that writes nothing.                                             *)
LEMMA WritesNothing ==
  ASSUME TuningInv, UNCHANGED <<caps, ram, tuned, neckTuned, limpLeft, unheld, cut, asIs, faults>>, todo \notin Syncing,
         todo # <<"ramp", "park">>, todo # <<"restore">>, todo' # <<"restore">>
  PROVE  Traceless' /\ Loosened' /\ TuningMoves
<1>1. Traceless'
  <2> SUFFICES ASSUME faults' = 0, NEW j \in Tuning!Joint PROVE Clean(j)'
    BY DEF Traceless
  <2>1. Clean(j)
    BY DEF TuningInv, Traceless
  <2>2. j \in limpLeft' => ram'.gain[j] = 0
    BY <2>1 DEF Clean, Tuning!ZeroGain
  <2> QED BY <2>1, <2>2, StaysClean
<1>2. Loosened'
  BY DEF TuningInv, Loosened
<1> QED BY <1>1, <1>2, Still DEF TuningInv

LEMMA TuningSetMotion ==
  ASSUME TuningInv, NEW mo \in Motion, NEW ar \in ArmOf[mo], Tuning!SetMotion(mo, ar), UNCHANGED caps
  PROVE  TuningInv' /\ TuningMoves
<1> USE TuningNames DEF TuningInv
<1>1. todo = <<>> /\ UNCHANGED <<locked, softReturn, scope, verdict, tuned, neckTuned, ram, cut, asIs, limpLeft, limp, unheld,
                                 todo, faults, asleep, overridden>>
  BY DEF Tuning!SetMotion, Tuning!Free, Tuning!guard, Tuning!tuning, Tuning!limping, Tuning!torque
<1>2. motion' \in Motion /\ arm' \in ArmOf[motion']
  BY DEF Tuning!SetMotion
<1>3. todo \notin Syncing /\ todo \notin Parking /\ todo # <<"ramp", "park">> /\ todo # <<"restore">>
  BY <1>1, InList
<1>4. TuningTypes'
  BY <1>1, <1>2 DEF TuningTypes
<1>5. Traceless' /\ Loosened' /\ TuningMoves
  BY <1>1, <1>3, WritesNothing
<1>6. Follows'
  BY <1>1, <1>3 DEF Follows, SoftScope
<1>7. LetDown'
  BY <1>1, <1>3 DEF LetDown
<1>8. ArmHeld'
  BY <1>1 DEF ArmHeld, LegsHeld
<1> QED BY <1>4, <1>5, <1>6, <1>7, <1>8

(* A call that makes the robot idle and leaves the tuning to its stages.   *)
LEMMA TuningIdles ==
  ASSUME TuningInv, todo = <<>>, Tuning!Idled, todo' \in Syncing, limp' \subseteq Tuning!Joint, LegsHeld => limp' \subseteq Neck,
         UNCHANGED <<caps, locked, softReturn, scope, verdict, tuned, neckTuned, ram, cut, asIs, limpLeft, unheld, faults,
                     asleep, overridden>>
  PROVE  TuningInv' /\ TuningMoves
<1> USE TuningNames DEF TuningInv
<1>1. motion' = "idle" /\ arm' = {} /\ "idle" \in Tuning!Soft
  BY DEF Tuning!Idled, Tuning!Soft
<1>2. todo \notin Syncing /\ todo \notin Parking /\ todo # <<"ramp", "park">> /\ todo # <<"restore">>
  BY InList
<1>3. todo' # <<"restore">> /\ todo' \in Shapes
  BY Differ, InList
<1>4. TuningTypes'
  BY <1>1, <1>3 DEF TuningTypes
<1>5. Traceless' /\ Loosened' /\ TuningMoves
  BY <1>2, <1>3, WritesNothing
<1>6. Follows'
  BY <1>1 DEF Follows, SoftScope
<1>7. LetDown'
  BY <1>1 DEF LetDown
<1>8. ArmHeld'
  BY DEF ArmHeld, LegsHeld
<1> QED BY <1>4, <1>5, <1>6, <1>7, <1>8

LEMMA TuningReturnToNeutral ==
  ASSUME TuningInv, Tuning!ReturnToNeutral, UNCHANGED caps PROVE TuningInv' /\ TuningMoves
<1>1. todo' \in Syncing
  BY DEF Tuning!ReturnToNeutral, Syncing
<1>2. limp \subseteq Tuning!Joint /\ (LegsHeld => limp \subseteq Neck)
  BY DEF TuningInv, TuningTypes, ArmHeld
<1> QED BY <1>1, <1>2, TuningIdles
       DEF Tuning!ReturnToNeutral, Tuning!Free, Tuning!guard, Tuning!tuning, Tuning!limping, Tuning!torque

LEMMA TuningSleep ==
  ASSUME TuningInv, Tuning!Sleep, UNCHANGED caps PROVE TuningInv' /\ TuningMoves
<1>1. todo' \in Syncing
  BY DEF Tuning!Sleep, Syncing
<1>2. limp \subseteq Tuning!Joint /\ (LegsHeld => limp \subseteq Neck)
  BY DEF TuningInv, TuningTypes, ArmHeld
<1> QED BY <1>1, <1>2, TuningIdles
       DEF Tuning!Sleep, Tuning!Free, Tuning!guard, Tuning!tuning, Tuning!limping, Tuning!torque

LEMMA TuningLimp ==
  ASSUME TuningInv, NEW names \in MayLimp, Tuning!Limp(names), UNCHANGED caps PROVE TuningInv' /\ TuningMoves
<1>1. todo' \in Syncing
  BY DEF Tuning!Limp, Syncing
<1>2. limp' \subseteq Tuning!Joint /\ (LegsHeld => limp' \subseteq Neck)
  BY TuningNames DEF Tuning!Limp, LegsHeld, Tuning!Joint
<1> QED BY <1>1, <1>2, TuningIdles
       DEF Tuning!Limp, Tuning!Free, Tuning!guard, Tuning!tuning, Tuning!limping, Tuning!torque

LEMMA TuningSettled ==
  ASSUME TuningInv, Tuning!Settled, UNCHANGED caps PROVE TuningInv' /\ TuningMoves
<1> USE TuningNames DEF TuningInv
<1>1. UNCHANGED <<motion, arm, locked, softReturn, scope, verdict, tuned, neckTuned, ram, cut, asIs, limpLeft, limp, unheld,
                  faults, asleep, overridden>>
  BY DEF Tuning!Settled, Tuning!engine, Tuning!guard, Tuning!tuning, Tuning!limping, Tuning!torque
<1>2. /\ todo \in {<<"settle">>, <<"settle", "park">>} /\ Tail(todo) \in {<<>>, <<"park">>}
      /\ Tail(todo) \in Parking => todo \in Parking
  BY Stands DEF Tuning!Settled, TuningTypes
<1>3. todo' \in {<<>>, <<"park">>} /\ (todo' \in Parking => todo \in Parking)
  BY <1>2, InList DEF Tuning!Settled
<1>4. todo \notin Syncing /\ todo # <<"ramp", "park">> /\ todo # <<"restore">>
  <2>1. todo \in Own
    BY <1>2 DEF Own
  <2>2. <<"settle">> # <<"ramp", "park">> /\ <<"settle", "park">> # <<"ramp", "park">>
    OBVIOUS
  <2> QED BY <1>2, <2>1, <2>2, Differ
<1>5. todo' \notin Syncing /\ todo' # <<"restore">> /\ todo' \in Shapes
  BY <1>3, InList, Differ
<1>6. TuningTypes'
  BY <1>1, <1>5 DEF TuningTypes
<1>7. Traceless' /\ Loosened' /\ TuningMoves
  BY <1>1, <1>4, <1>5, WritesNothing
<1>8. Follows'
  BY <1>1, <1>4, <1>5 DEF Follows, SoftScope
<1>9. LetDown'
  BY <1>1, <1>3, <1>4, <1>5 DEF LetDown
<1>10. ArmHeld'
  BY <1>1 DEF ArmHeld, LegsHeld
<1> QED BY <1>6, <1>7, <1>8, <1>9, <1>10

(* A poll may start a soft return, and then nothing is tuned soft yet; it  *)
(* goes on with one only under a soft motion.                              *)
LEMMA TuningStep ==
  ASSUME TuningInv, Tuning!Step, UNCHANGED caps PROVE TuningInv' /\ TuningMoves
<1> USE TuningNames DEF TuningInv
<1>1. /\ UNCHANGED <<tuned, neckTuned, ram, cut, asIs, limpLeft, limp, unheld, faults>>
      /\ locked' \in BOOLEAN /\ todo' = <<"sync", "neck">> \o todo
      /\ asleep' = (asleep /\ motion \in Tuning!Soft) /\ overridden' = (overridden /\ verdict' # "soft")
      /\ IF verdict' = "go" THEN UNCHANGED <<motion, arm>> ELSE motion' = "idle" /\ arm' = {}
  BY DEF Tuning!Step, Tuning!engine, Tuning!guard, Tuning!tuning, Tuning!limping, Tuning!torque, Tuning!Idled
<1>2. todo \in {<<>>, <<"settle">>, <<"settle", "park">>}
  BY Stands DEF Tuning!Step, Tuning!Free, TuningTypes
<1>3. todo \notin Syncing /\ todo # <<"ramp", "park">> /\ todo # <<"restore">>
  <2>1. todo \in Own
    BY <1>2 DEF Own
  <2>2. <<"settle">> # <<"ramp", "park">> /\ <<"settle", "park">> # <<"ramp", "park">> /\ <<>> # <<"ramp", "park">>
    OBVIOUS
  <2> QED BY <1>2, <2>1, <2>2, Differ
<1>4. todo' \in Syncing /\ todo' \in Shapes /\ todo' # <<"restore">> /\ (todo' \in Parking <=> todo \in Parking)
  BY <1>1, <1>2, Begins, InList, Differ
<1>5. \/ softReturn' = None /\ verdict' = "go" /\ scope' \in {scope, <<motion, arm>>}
      \/ softReturn' = softReturn /\ verdict' = "go" /\ scope' = <<motion, arm>> /\ motion \in Tuning!Soft
      \/ softReturn' = None /\ verdict' = "stop" /\ scope' = <<motion, arm>>
      \/ /\ softReturn' = arm /\ verdict' = "soft" /\ scope' = scope /\ scope = <<motion, arm>>
         /\ motion \notin Tuning!Soft /\ verdict # "soft"
  BY DEF Tuning!Step, Tuning!G!Unguarded, Tuning!G!Poll, Tuning!G!Continue, Tuning!G!Stop, Tuning!G!Soften
<1>6. <<motion, arm>> # None /\ <<motion, arm>>[1] = motion /\ arm \subseteq Leg /\ <<motion, arm>> \in Motion \X SUBSET Leg
  BY DEF TuningTypes
<1>7. TuningTypes'
  <2>1. motion' \in Motion /\ arm' \in ArmOf[motion']
    BY <1>1 DEF TuningTypes
  <2>2. scope' \in (Motion \X SUBSET Leg) \cup {None} /\ verdict' \in {"go", "stop", "soft"} /\ softReturn' \in (SUBSET Leg) \cup {None}
    BY <1>5, <1>6 DEF TuningTypes
  <2> QED BY <1>1, <1>4, <2>1, <2>2 DEF TuningTypes
<1>8. Traceless' /\ Loosened' /\ TuningMoves
  BY <1>1, <1>3, <1>4, WritesNothing
<1>9. Follows'
  <2>1. softReturn' # None => SoftScope'
    BY <1>5, <1>6 DEF SoftScope
  <2>2. softReturn' # None => motion' \in Tuning!Soft
    BY <1>1, <1>5 DEF Tuning!Soft
  <2> QED BY <1>1, <1>4, <2>1, <2>2 DEF Follows
<1>10. LetDown'
  <2>1. motion \in Tuning!Soft => motion' \in Tuning!Soft
    BY <1>1 DEF Tuning!Soft
  <2> QED BY <1>1, <1>3, <1>4, <2>1 DEF LetDown
<1>11. ArmHeld'
  <2>1. CASE verdict' = "soft"
    <3>1. ~SoftScope
      BY <1>5, <1>6, <2>1 DEF SoftScope
    <3>2. ~Tuning!IsSoft(tuned)
      BY <1>3, <3>1 DEF Follows
    <3>3. tuned' # <<"soft", softReturn'>>
      BY <1>1, <1>5, <1>6, <2>1, <3>2 DEF Tuning!IsSoft
    <3> QED BY <1>1, <3>3 DEF ArmHeld, LegsHeld
  <2>2. CASE verdict' # "soft"
    BY <1>1, <1>5, <2>2 DEF ArmHeld, LegsHeld
  <2> QED BY <2>1, <2>2
<1> QED BY <1>7, <1>8, <1>9, <1>10, <1>11

(* A driver that cannot set gains is sent none.                            *)
LEMMA Unwritten ==
  ASSUME NEW r \in Rams, NEW ws, "gain" \notin caps, NEW o \in Tuning!Outcomes(r, Tuning!GainWrites(ws))
  PROVE  /\ o.ram \in Rams /\ o.failed = 0
         /\ \A j \in Tuning!Joint : o.ram.gain[j] = r.gain[j] /\ o.ram.pv[j] = r.pv[j]
<1>1. o \in Tuning!Outcomes(r, <<>>)
  BY DEF Tuning!GainWrites
<1> QED BY <1>1, NoWrites

LEMMA WrittenOnce ==
  ASSUME NEW r \in Rams, NEW L, NEW v, v \in 0..4,
         NEW o \in Tuning!Outcomes(r, IF "gain" \in caps THEN <<Tuning!Raw("gain", L, v)>> ELSE <<>>)
  PROVE  /\ o.ram \in Rams /\ o.failed \in {0, 1}
         /\ \A j \in Tuning!Joint :
              /\ o.ram.gain[j] = r.gain[j] \/ (j \in L /\ o.ram.gain[j] = v)
              /\ o.ram.pv[j] = r.pv[j]
<1>1. CASE "gain" \notin caps
  <2>1. o \in Tuning!Outcomes(r, <<>>)
    BY <1>1
  <2> QED BY <2>1, NoWrites
<1>2. CASE "gain" \in caps
  <2>1. o \in Tuning!Outcomes(r, <<Tuning!Raw("gain", L, v)>>)
    BY <1>2
  <2> QED BY <2>1, OneGain
<1> QED BY <1>1, <1>2

LEMMA Failing ==
  ASSUME faults \in Nat, NEW n \in Nat, Tuning!Fail(n)
  PROVE  faults' \in Nat /\ faults' <= MaxFaults /\ (faults' = 0 => faults = 0 /\ n = 0)
  BY DEF Tuning!Fail

(* A call between the stages that sets gains of the joints not left limp.  *)
LEMMA SetsGains ==
  ASSUME TuningInv, todo = <<>>, UNCHANGED <<caps, tuned, neckTuned, limpLeft, limp, unheld, todo>>,
         faults' = 0 => faults = 0,
         \A j \in Tuning!Joint : /\ ram'.gain[j] = ram.gain[j] \/ (j \notin limpLeft /\ ram'.gain[j] \in {2, 3})
                                 /\ ram'.pv[j] = ram.pv[j]
  PROVE  Traceless' /\ Loosened' /\ TuningMoves
<1> USE DEF TuningInv
<1>1. todo \notin Syncing /\ todo # <<"ramp", "park">> /\ todo # <<"restore">>
  BY InList
<1>2. Traceless'
  <2> SUFFICES ASSUME faults' = 0, NEW j \in Tuning!Joint PROVE Clean(j)'
    BY DEF Traceless
  <2>1. Clean(j)
    BY DEF Traceless
  <2>2. j \in limpLeft' => ram'.gain[j] = 0
    BY <2>1 DEF Clean, Tuning!ZeroGain
  <2> QED BY <1>1, <2>1, <2>2, StaysClean
<1>3. Loosened'
  BY DEF Loosened
<1>4. \A j \in unheld' : ram'.gain[j] = ram.gain[j]
  BY <1>1 DEF Loosened, TuningTypes
<1> QED BY <1>1, <1>2, <1>3, <1>4, Still

LEMMA TuningWake ==
  ASSUME TuningInv, Tuning!Wake, UNCHANGED caps PROVE TuningInv' /\ TuningMoves
<1> USE TuningNames DEF TuningInv
<1>1. /\ todo = <<>> /\ motion' = "idle" /\ arm' = {} /\ asleep' = FALSE /\ softReturn' = None
      /\ UNCHANGED <<locked, scope, verdict, tuned, neckTuned, cut, asIs, limpLeft, limp, unheld, todo, overridden>>
  BY DEF Tuning!Wake, Tuning!Free, Tuning!Idled, Tuning!G!EndSoftReturn, Tuning!tuning, Tuning!limping, Tuning!torque
<1>2. /\ ram' \in Rams /\ faults' \in Nat /\ faults' <= MaxFaults /\ (faults' = 0 => faults = 0)
      /\ \A j \in Tuning!Joint : /\ ram'.gain[j] = ram.gain[j] \/ (j \notin limpLeft /\ ram'.gain[j] \in {2, 3})
                                 /\ ram'.pv[j] = ram.pv[j]
  <2>1. CASE UNCHANGED <<ram, faults>>
    BY <2>1 DEF TuningTypes
  <2>2. CASE \E n \in Tuning!Outcomes(ram, Tuning!GainWrites(<<Tuning!Gain(Neck, Tuning!OwnGain)>>)) :
             \E l \in Tuning!Outcomes(n.ram, Tuning!GainWrites(<<Tuning!Gain(Leg, Tuning!RestGain), Tuning!Gain(Leg, Tuning!OwnGain),
                                                              Tuning!Gain(Tuning!Joint, Tuning!OwnGain)>>)) :
               ram' = l.ram /\ Tuning!Fail(n.failed + l.failed)
    <3>1. PICK n \in Tuning!Outcomes(ram, Tuning!GainWrites(<<Tuning!Gain(Neck, 3)>>)) :
            \E l \in Tuning!Outcomes(n.ram, Tuning!GainWrites(<<Tuning!Gain(Leg, 2), Tuning!Gain(Leg, 3),
                                                              Tuning!Gain(Tuning!Joint, 3)>>)) :
              ram' = l.ram /\ Tuning!Fail(n.failed + l.failed)
      BY <2>2 DEF Tuning!OwnGain, Tuning!RestGain
    <3>2. /\ n.ram \in Rams /\ n.failed \in {0, 1}
          /\ \A j \in Tuning!Joint : /\ n.ram.gain[j] = ram.gain[j] \/ (j \in Neck \ limpLeft /\ n.ram.gain[j] = 3)
                                     /\ n.ram.pv[j] = ram.pv[j]
      <4>1. n \in Tuning!Outcomes(ram, IF "gain" \in caps THEN <<Tuning!Raw("gain", Neck \ limpLeft, 3)>> ELSE <<>>)
        BY DEF Tuning!GainWrites, Tuning!Gain
      <4>2. ram \in Rams /\ 3 \in 0..4
        BY DEF TuningTypes
      <4> QED BY <4>1, <4>2, WrittenOnce
    <3>3. PICK l \in Tuning!Outcomes(n.ram, Tuning!GainWrites(<<Tuning!Gain(Leg, 2), Tuning!Gain(Leg, 3),
                                                              Tuning!Gain(Tuning!Joint, 3)>>)) :
            ram' = l.ram /\ Tuning!Fail(n.failed + l.failed)
      BY <3>1
    <3>4. /\ l.ram \in Rams /\ l.failed \in {0, 1}
          /\ \A j \in Tuning!Joint : /\ l.ram.gain[j] = n.ram.gain[j] \/ (j \notin limpLeft /\ l.ram.gain[j] \in {2, 3})
                                     /\ l.ram.pv[j] = n.ram.pv[j]
      <4>1. CASE "gain" \notin caps
        BY <3>2, <4>1, Unwritten
      <4>2. CASE "gain" \in caps
        <5>1. l \in Tuning!Outcomes(n.ram, <<Tuning!Raw("gain", Leg \ limpLeft, 2), Tuning!Raw("gain", Leg \ limpLeft, 3),
                                            Tuning!Raw("gain", Tuning!Joint \ limpLeft, 3)>>)
          BY <4>2 DEF Tuning!GainWrites, Tuning!Gain
        <5> QED BY <3>2, <5>1, ThreeGains
      <4> QED BY <4>1, <4>2
    <3>5. faults' \in Nat /\ faults' <= MaxFaults /\ (faults' = 0 => faults = 0)
      <4>1. n.failed + l.failed \in Nat /\ faults \in Nat
        BY <3>2, <3>4 DEF TuningTypes
      <4> QED BY <3>3, <4>1, Failing
    <3> QED BY <3>2, <3>3, <3>4, <3>5
  <2> QED BY <2>1, <2>2 DEF Tuning!Wake
<1>3. TuningTypes'
  BY <1>1, <1>2 DEF TuningTypes
<1>4. Traceless' /\ Loosened' /\ TuningMoves
  BY <1>1, <1>2, SetsGains
<1>5. Follows' /\ LetDown' /\ ArmHeld'
  BY <1>1, InList DEF Follows, SoftScope, LetDown, ArmHeld, LegsHeld
<1> QED BY <1>3, <1>4, <1>5

LEMMA TuningSetPGain ==
  ASSUME TuningInv, NEW g \in {2, 3}, Tuning!SetPGain(g), UNCHANGED caps PROVE TuningInv' /\ TuningMoves
<1> USE TuningNames DEF TuningInv
<1>1. /\ todo = <<>> /\ asleep' = FALSE /\ overridden' = TRUE
      /\ UNCHANGED <<motion, arm, locked, softReturn, scope, verdict, tuned, neckTuned, cut, asIs, limpLeft, limp, unheld, todo>>
  BY DEF Tuning!SetPGain, Tuning!Free, Tuning!engine, Tuning!guard, Tuning!tuning, Tuning!limping, Tuning!torque
<1>2. PICK w \in Tuning!Outcomes(ram, Tuning!GainWrites(<<Tuning!Gain(Tuning!Joint, g)>>)) : ram' = w.ram /\ Tuning!Fail(w.failed)
  BY DEF Tuning!SetPGain
<1>3. /\ w.ram \in Rams /\ w.failed \in {0, 1}
      /\ \A j \in Tuning!Joint : /\ w.ram.gain[j] = ram.gain[j] \/ (j \in Tuning!Joint \ limpLeft /\ w.ram.gain[j] = g)
                                 /\ w.ram.pv[j] = ram.pv[j]
  <2>1. w \in Tuning!Outcomes(ram, IF "gain" \in caps THEN <<Tuning!Raw("gain", Tuning!Joint \ limpLeft, g)>> ELSE <<>>)
    BY DEF Tuning!GainWrites, Tuning!Gain
  <2>2. ram \in Rams /\ g \in 0..4
    BY DEF TuningTypes
  <2> QED BY <2>1, <2>2, WrittenOnce
<1>4. faults' \in Nat /\ faults' <= MaxFaults /\ (faults' = 0 => faults = 0)
  <2>1. w.failed \in Nat /\ faults \in Nat
    BY <1>3 DEF TuningTypes
  <2> QED BY <1>2, <2>1, Failing
<1>5. TuningTypes'
  BY <1>1, <1>2, <1>3, <1>4 DEF TuningTypes
<1>6. Traceless' /\ Loosened' /\ TuningMoves
  BY <1>1, <1>2, <1>3, <1>4, SetsGains
<1>7. Follows' /\ LetDown' /\ ArmHeld'
  BY <1>1, InList DEF Follows, SoftScope, LetDown, ArmHeld, LegsHeld
<1> QED BY <1>5, <1>6, <1>7

LEMMA TuningDanceEndHold ==
  ASSUME TuningInv, Tuning!DanceEndHold, UNCHANGED caps PROVE TuningInv' /\ TuningMoves
<1> USE TuningNames DEF TuningInv
<1>1. /\ todo = <<>> /\ asleep' = FALSE /\ tuned = None
      /\ UNCHANGED <<motion, arm, locked, softReturn, scope, verdict, tuned, neckTuned, cut, asIs, limpLeft, limp, unheld, todo, overridden>>
  BY DEF Tuning!DanceEndHold, Tuning!Free, Tuning!engine, Tuning!guard, Tuning!tuning, Tuning!limping, Tuning!torque
<1>2. PICK w \in Tuning!Outcomes(ram, Tuning!GainWrites(<<Tuning!Gain(Leg, 2)>>)) :
        \E b \in Tuning!Outcomes(w.ram, Tuning!GainWrites(<<Tuning!Gain(Tuning!Joint, 3)>>)) :
          ram' = b.ram /\ Tuning!Fail(w.failed + b.failed)
  BY DEF Tuning!DanceEndHold, Tuning!RestGain, Tuning!OwnGain
<1>3. /\ w.ram \in Rams /\ w.failed \in {0, 1}
      /\ \A j \in Tuning!Joint : /\ w.ram.gain[j] = ram.gain[j] \/ (j \in Leg \ limpLeft /\ w.ram.gain[j] = 2)
                                 /\ w.ram.pv[j] = ram.pv[j]
  <2>1. w \in Tuning!Outcomes(ram, IF "gain" \in caps THEN <<Tuning!Raw("gain", Leg \ limpLeft, 2)>> ELSE <<>>)
    BY DEF Tuning!GainWrites, Tuning!Gain
  <2>2. ram \in Rams /\ 2 \in 0..4
    BY DEF TuningTypes
  <2> QED BY <2>1, <2>2, WrittenOnce
<1>4. PICK b \in Tuning!Outcomes(w.ram, Tuning!GainWrites(<<Tuning!Gain(Tuning!Joint, 3)>>)) :
          ram' = b.ram /\ Tuning!Fail(w.failed + b.failed)
  BY <1>2
<1>5. /\ b.ram \in Rams /\ b.failed \in {0, 1}
      /\ \A j \in Tuning!Joint : /\ b.ram.gain[j] = w.ram.gain[j] \/ (j \in Tuning!Joint \ limpLeft /\ b.ram.gain[j] = 3)
                                 /\ b.ram.pv[j] = w.ram.pv[j]
  <2>1. b \in Tuning!Outcomes(w.ram, IF "gain" \in caps THEN <<Tuning!Raw("gain", Tuning!Joint \ limpLeft, 3)>> ELSE <<>>)
    BY DEF Tuning!GainWrites, Tuning!Gain
  <2>2. w.ram \in Rams /\ 3 \in 0..4
    BY <1>3
  <2> QED BY <2>1, <2>2, WrittenOnce
<1>6. faults' \in Nat /\ faults' <= MaxFaults /\ (faults' = 0 => faults = 0)
  <2>1. w.failed + b.failed \in Nat /\ faults \in Nat
    BY <1>3, <1>5 DEF TuningTypes
  <2> QED BY <1>4, <2>1, Failing
<1>7. TuningTypes'
  BY <1>1, <1>4, <1>5, <1>6 DEF TuningTypes
<1>8. Traceless' /\ Loosened' /\ TuningMoves
  <2>1. \A j \in Tuning!Joint : /\ ram'.gain[j] = ram.gain[j] \/ (j \notin limpLeft /\ ram'.gain[j] \in {2, 3})
                                /\ ram'.pv[j] = ram.pv[j]
    BY <1>3, <1>4, <1>5
  <2> QED BY <1>1, <1>6, <2>1, SetsGains
<1>9. Follows' /\ LetDown'
  BY <1>1, InList DEF Follows, SoftScope, LetDown
<1>10. ArmHeld'
  <2>1. softReturn' # None => FALSE \/ tuned' # <<"soft", softReturn'>>
    BY <1>1 DEF TuningTypes
  <2> QED BY <1>1, <2>1 DEF ArmHeld, LegsHeld
<1> QED BY <1>7, <1>8, <1>9, <1>10

LEMMA TuningConnect ==
  ASSUME TuningInv, Tuning!Connect, UNCHANGED caps PROVE TuningInv' /\ TuningMoves
<1> USE TuningNames DEF TuningInv
<1>1. /\ todo = <<>> /\ locked' = FALSE /\ softReturn' = None /\ scope' = None /\ verdict' = "go"
      /\ tuned' = None /\ neckTuned' = FALSE /\ cut' = {} /\ asIs' = {} /\ limpLeft' = {} /\ limp' = {} /\ unheld' = {}
      /\ faults' = 0 /\ asleep' = FALSE /\ overridden' = FALSE /\ UNCHANGED <<motion, arm, todo>>
  BY DEF Tuning!Connect, Tuning!Free, Tuning!engine, Tuning!G!Reset
<1>2. ram' \in Rams /\ \A j \in Tuning!Joint : ram'.gain[j] = 3 /\ ram'.pv[j] = "own"
  BY DEF Tuning!Connect, Tuning!Own, Tuning!OwnGain, Rams
<1>3. TuningTypes'
  <2>1. /\ cut' \subseteq Leg /\ asIs' \subseteq Leg /\ limpLeft' \subseteq Tuning!Joint /\ limp' \subseteq Tuning!Joint
        /\ unheld' \subseteq Tuning!Joint /\ tuned' \in Tuned
    BY <1>1 DEF Tuned
  <2>2. faults' \in Nat /\ faults' <= MaxFaults /\ motion' \in Motion /\ arm' \in ArmOf[motion'] /\ todo' \in Shapes
    BY <1>1 DEF TuningTypes
  <2> QED BY <1>1, <1>2, <2>1, <2>2 DEF TuningTypes
<1>4. Traceless'
  BY <1>1, <1>2 DEF Traceless, Clean, Tuning!WaveGain, Tuning!SoftGain, Tuning!ZeroGain
<1>5. Loosened' /\ Follows' /\ LetDown' /\ ArmHeld'
  BY <1>1, InList DEF Loosened, Follows, SoftScope, LetDown, ArmHeld, LegsHeld, Tuning!IsSoft, IsWave
<1>6. TuningMoves
  <2>1. todo \notin Syncing /\ todo # <<"ramp", "park">>
    BY <1>1, InList
  <2> QED BY <1>1, <2>1, Still
<1> QED BY <1>3, <1>4, <1>5, <1>6

(* The neck's own tuning writes profiles of the neck alone.                *)
LEMMA TuningSyncNeck ==
  ASSUME TuningInv, Tuning!SyncNeck, UNCHANGED caps PROVE TuningInv' /\ TuningMoves
<1> USE TuningNames DEF TuningInv
<1> DEFINE active == motion \in Tuning!NeckGesture
           due == "pv" \in caps /\ active # neckTuned
           X == IF active THEN "fast" ELSE "own"
<1>1. /\ Tuning!At("neck") /\ todo' = Tail(todo)
      /\ UNCHANGED <<motion, arm, locked, softReturn, scope, verdict, tuned, cut, asIs, limpLeft, limp, unheld, asleep, overridden>>
  BY DEF Tuning!SyncNeck, Tuning!engine, Tuning!guard, Tuning!limping, Tuning!torque
<1>2. PICK w \in Tuning!Outcomes(ram, IF due THEN <<Tuning!Pv(Neck, X)>> ELSE <<>>) :
        /\ ram' = w.ram /\ Tuning!Fail(w.failed)
        /\ neckTuned' = IF due /\ w.failed = 0 THEN active ELSE neckTuned
  BY DEF Tuning!SyncNeck
<1>3. /\ w.ram \in Rams /\ w.failed \in {0, 1}
      /\ \A j \in Tuning!Joint :
           /\ w.ram.gain[j] = ram.gain[j]
           /\ w.ram.pv[j] = ram.pv[j] \/ (due /\ j \in Neck /\ w.ram.pv[j] = X)
           /\ due /\ w.failed = 0 /\ j \in Neck => w.ram.pv[j] = X
  <2>1. ram \in Rams
    BY DEF TuningTypes
  <2>2. CASE ~due
    <3>1. w \in Tuning!Outcomes(ram, <<>>)
      BY <2>2
    <3> HIDE DEF due, X
    <3> QED BY <2>1, <2>2, <3>1, NoWrites
  <2>3. CASE due
    <3>1. w \in Tuning!Outcomes(ram, <<Tuning!Raw("pv", Neck, X)>>)
      BY <2>3 DEF Tuning!Pv
    <3>2. X \in {"own", "fast", "stretch"}
      OBVIOUS
    <3> HIDE DEF due, X
    <3> QED BY <2>1, <2>3, <3>1, <3>2, OnePv
  <2> QED BY <2>2, <2>3
<1>4. faults' \in Nat /\ faults' <= MaxFaults /\ (faults' = 0 => faults = 0 /\ w.failed = 0)
  <2>1. w.failed \in Nat /\ faults \in Nat
    BY <1>3 DEF TuningTypes
  <2> QED BY <1>2, <2>1, Failing
<1>5. todo \in Necking /\ todo' \in Own /\ (todo \in Parking <=> todo' \in Parking)
  BY <1>1, Stands DEF TuningTypes
<1>6. /\ todo \notin Syncing /\ todo # <<"ramp", "park">> /\ todo # <<"restore">>
      /\ todo' \notin Syncing /\ todo' # <<"restore">> /\ todo' \in Shapes
  <2>1. <<"ramp", "park">> \notin Necking
    BY DEF Necking
  <2> QED BY <1>5, <2>1, InList, Differ
<1>7. neckTuned \in BOOLEAN /\ neckTuned' \in BOOLEAN
  <2>1. neckTuned \in BOOLEAN
    BY DEF TuningTypes
  <2>2. active \in BOOLEAN
    OBVIOUS
  <2>3. neckTuned' \in {active, neckTuned}
    BY <1>2
  <2> HIDE DEF active
  <2> QED BY <2>1, <2>2, <2>3
<1>8. TuningTypes'
  BY <1>1, <1>2, <1>3, <1>4, <1>6, <1>7 DEF TuningTypes
<1>9. Traceless'
  <2> SUFFICES ASSUME faults' = 0, NEW j \in Tuning!Joint PROVE Clean(j)'
    BY DEF Traceless
  <2>1. Clean(j) /\ w.failed = 0
    BY <1>4 DEF Traceless
  <2>2. ram'.gain[j] = ram.gain[j]
    BY <1>2, <1>3
  <2>3. ram'.pv[j] = "stretch" => ram.pv[j] = "stretch"
    BY <1>2, <1>3
  <2>4. ram'.pv[j] = "fast" => (neckTuned' /\ j \in Neck) \/ (IsWave(tuned') /\ j \in tuned'[2])
    <3> SUFFICES ASSUME ram'.pv[j] = "fast" PROVE (neckTuned' /\ j \in Neck) \/ (IsWave(tuned') /\ j \in tuned'[2])
      OBVIOUS
    <3>1. CASE due /\ j \in Neck
      <4>1. X = "fast"
        BY <1>2, <1>3, <2>1, <3>1
      <4>2. active /\ neckTuned' = active
        BY <1>2, <2>1, <3>1, <4>1
      <4> QED BY <3>1, <4>2
    <3>2. CASE ~(due /\ j \in Neck)
      <4>1. ram.pv[j] = "fast"
        BY <1>2, <1>3, <3>2
      <4>2. (neckTuned /\ j \in Neck) \/ (IsWave(tuned) /\ j \in tuned[2])
        BY <2>1, <4>1 DEF Clean
      <4>3. j \in Neck => neckTuned' = neckTuned
        BY <1>2, <3>2
      <4> QED BY <1>1, <4>2, <4>3 DEF IsWave
    <3> QED BY <3>1, <3>2
  <2> QED BY <1>1, <1>6, <2>1, <2>2, <2>3, <2>4 DEF Clean, IsWave, Tuning!IsSoft
<1>10. Loosened'
  BY <1>1, <1>6 DEF Loosened
<1>11. TuningMoves
  <2>1. \A j \in unheld' : ram'.gain[j] = ram.gain[j]
    BY <1>1, <1>2, <1>3 DEF TuningTypes
  <2> QED BY <1>6, <2>1, Still
<1>12. Follows' /\ LetDown'
  BY <1>1, <1>5, <1>6 DEF Follows, SoftScope, LetDown, IsWave, Tuning!IsSoft
<1>13. ArmHeld'
  <2>1. \A j \in Leg : ram'.gain[j] = ram.gain[j]
    BY <1>2, <1>3 DEF Tuning!Joint
  <2>2. softReturn # None => softReturn \subseteq Leg
    BY DEF TuningTypes
  <2> QED BY <1>1, <2>1, <2>2 DEF ArmHeld, LegsHeld
<1> QED BY <1>8, <1>9, <1>10, <1>11, <1>12, <1>13

(* An axis of the neck that is held again is no longer left limp; the      *)
(* others are not written.                                                 *)
LEMMA TuningPark ==
  ASSUME TuningInv, Tuning!Park, UNCHANGED caps PROVE TuningInv' /\ TuningMoves
<1> USE TuningNames DEF TuningInv
<1>1. /\ Tuning!At("park") /\ todo' = Tail(todo) /\ asleep' = TRUE
      /\ UNCHANGED <<motion, arm, locked, softReturn, scope, verdict, tuned, neckTuned, cut, asIs, limp, overridden>>
  BY DEF Tuning!Park, Tuning!engine, Tuning!guard, Tuning!tuning, Tuning!torque
<1>2. PICK found1 \in SUBSET (Neck \cap limpLeft) :
        \E w \in Tuning!Outcomes(ram, Tuning!GainWrites(<<Tuning!Raw("gain", Neck \ (limpLeft \ found1), 2),
                                                        Tuning!Raw("gain", Neck \ (limpLeft \ found1), 0)>>)) :
          /\ "gain" \in caps \/ found1 = {}
          /\ limpLeft' = limpLeft \ found1 /\ unheld' = unheld \ found1
          /\ ram' = w.ram /\ Tuning!Fail(w.failed)
  BY DEF Tuning!Park, Tuning!RestGain, Tuning!ZeroGain
<1> DEFINE neck == Neck \ (limpLeft \ found1)
<1>3. PICK w \in Tuning!Outcomes(ram, Tuning!GainWrites(<<Tuning!Raw("gain", neck, 2), Tuning!Raw("gain", neck, 0)>>)) :
          /\ "gain" \in caps \/ found1 = {}
          /\ limpLeft' = limpLeft \ found1 /\ unheld' = unheld \ found1
          /\ ram' = w.ram /\ Tuning!Fail(w.failed)
  BY <1>2
<1>4. /\ w.ram \in Rams /\ w.failed \in {0, 1}
      /\ \A j \in Tuning!Joint :
           /\ w.ram.gain[j] = ram.gain[j] \/ (j \in neck /\ w.ram.gain[j] \in {0, 2})
           /\ w.ram.pv[j] = ram.pv[j]
  <2>1. ram \in Rams
    BY DEF TuningTypes
  <2>2. CASE "gain" \notin caps
    <3> HIDE DEF neck
    <3> QED BY <2>1, <2>2, Unwritten
  <2>3. CASE "gain" \in caps
    <3>1. w \in Tuning!Outcomes(ram, <<Tuning!Raw("gain", neck, 2), Tuning!Raw("gain", neck, 0)>>)
      BY <2>3 DEF Tuning!GainWrites
    <3> HIDE DEF neck
    <3>2. \A j \in Tuning!Joint :
           /\ w.ram.gain[j] = ram.gain[j] \/ (j \in neck /\ w.ram.gain[j] = 2) \/ (j \in neck /\ w.ram.gain[j] = 0)
           /\ w.ram.pv[j] = ram.pv[j]
      BY <2>1, <3>1, TwoGains
    <3>3. w.ram \in Rams /\ w.failed \in {0, 1}
      BY <2>1, <3>1, TwoGains
    <3> QED BY <3>2, <3>3
  <2> QED BY <2>2, <2>3
<1>5. faults' \in Nat /\ faults' <= MaxFaults /\ (faults' = 0 => faults = 0)
  <2>1. w.failed \in Nat /\ faults \in Nat
    BY <1>4 DEF TuningTypes
  <2> QED BY <1>3, <2>1, Failing
<1>6. /\ todo = <<"park">> /\ todo' = <<>> /\ todo \notin Syncing /\ todo # <<"ramp", "park">> /\ todo # <<"restore">>
      /\ todo' \notin Syncing /\ todo' # <<"restore">> /\ todo' \in Shapes /\ todo \in Parking /\ todo' \notin Parking
  <2>1. todo = <<"park">> /\ todo' = <<>>
    BY <1>1, Stands DEF TuningTypes
  <2>2. <<"park">> # <<"ramp", "park">> /\ <<"park">> # <<"restore">> /\ <<>> # <<"restore">>
    OBVIOUS
  <2> QED BY <2>1, <2>2, InList
<1>7. /\ limpLeft' \subseteq limpLeft /\ unheld' \subseteq unheld /\ \A j \in unheld \ unheld' : j \in found1
      /\ (\A j \in limpLeft' : j \notin neck) /\ (\A j \in unheld' : j \in limpLeft')
  <2>1. unheld \subseteq limpLeft
    BY <1>6 DEF Loosened
  <2> QED BY <1>3, <2>1
<1>8. TuningTypes'
  <2>1. limpLeft' \subseteq Tuning!Joint /\ unheld' \subseteq Tuning!Joint
    BY <1>7 DEF TuningTypes
  <2> QED BY <1>1, <1>3, <1>4, <1>5, <1>6, <2>1 DEF TuningTypes
<1>9. Traceless'
  <2> SUFFICES ASSUME faults' = 0, NEW j \in Tuning!Joint PROVE Clean(j)'
    BY DEF Traceless
  <2>1. Clean(j)
    BY <1>5 DEF Traceless
  <2>2. j \in limpLeft' => ram'.gain[j] = 0
    BY <1>3, <1>4, <1>7, <2>1 DEF Clean, Tuning!ZeroGain
  <2>3. ram'.gain[j] \in {ram.gain[j], 0, 2, 3} /\ ram'.pv[j] \in {ram.pv[j], "own"}
    BY <1>3, <1>4
  <2> QED BY <1>1, <1>6, <2>1, <2>2, <2>3, StaysClean
<1>10. Loosened'
  BY <1>6, <1>7 DEF Loosened
<1>11. TuningMoves
  <2>1. \A j \in unheld' : ram'.gain[j] = ram.gain[j]
    BY <1>3, <1>4, <1>7 DEF TuningTypes
  <2> QED BY <1>6, <2>1, Still
<1>12. Follows' /\ LetDown'
  BY <1>1, <1>6 DEF Follows, SoftScope, LetDown, IsWave, Tuning!IsSoft
<1>13. ArmHeld'
  <2>1. \A j \in Leg : ram'.gain[j] = ram.gain[j]
    BY <1>3, <1>4 DEF Tuning!Joint
  <2>2. softReturn # None => softReturn \subseteq Leg
    BY DEF TuningTypes
  <2> QED BY <1>1, <1>7, <2>1, <2>2 DEF ArmHeld, LegsHeld
<1> QED BY <1>8, <1>9, <1>10, <1>11, <1>12, <1>13

(* The joints of the block go limp, or the call ends.                      *)
LEMMA TuningHold ==
  ASSUME TuningInv, Tuning!Hold, UNCHANGED caps PROVE TuningInv' /\ TuningMoves
<1> USE TuningNames DEF TuningInv
<1>1. /\ Tuning!At("hold") /\ asleep' = FALSE
      /\ UNCHANGED <<motion, arm, locked, softReturn, scope, verdict, tuned, neckTuned, cut, asIs, limpLeft, overridden>>
  BY DEF Tuning!Hold, Tuning!engine, Tuning!guard, Tuning!tuning, Tuning!torque
<1>2. /\ todo = <<"hold", "restore">> /\ Tail(todo) = <<"restore">> /\ todo \notin Syncing /\ todo # <<"ramp", "park">> /\ todo # <<"restore">>
  <2>1. todo = <<"hold", "restore">> /\ Tail(todo) = <<"restore">>
    BY <1>1, Stands DEF TuningTypes
  <2>2. <<"hold", "restore">> # <<"ramp", "park">> /\ <<"hold", "restore">> # <<"restore">>
    OBVIOUS
  <2> QED BY <2>1, <2>2, InList
<1>3. CASE todo' = <<>> /\ limp' = {} /\ UNCHANGED <<ram, unheld, faults>>
  <2>1. todo' \notin Syncing /\ todo' \notin Parking /\ todo' # <<"restore">> /\ todo' \in Shapes
    BY <1>3, InList, Differ
  <2>2. TuningTypes'
    BY <1>1, <1>3, <2>1 DEF TuningTypes
  <2>3. Traceless' /\ Loosened' /\ TuningMoves
    BY <1>1, <1>2, <1>3, <2>1, WritesNothing
  <2>4. Follows' /\ LetDown'
    BY <1>1, <1>2, <2>1 DEF Follows, SoftScope, LetDown
  <2>5. ArmHeld'
    BY <1>1, <1>3 DEF ArmHeld, LegsHeld
  <2> QED BY <2>2, <2>3, <2>4, <2>5
<1>4. CASE /\ todo' = Tail(todo)
           /\ \E w \in Tuning!Outcomes(ram, <<Tuning!Raw("gain", limp, 0)>>) : ram' = w.ram /\ Tuning!Fail(w.failed)
           /\ unheld' = unheld \cup limp
           /\ UNCHANGED limp
  <2>1. todo' = <<"restore">> /\ todo' \notin Syncing /\ todo' \notin Parking /\ todo' \in Shapes
    BY <1>2, <1>4, InList
  <2>2. PICK w \in Tuning!Outcomes(ram, <<Tuning!Raw("gain", limp, 0)>>) : ram' = w.ram /\ Tuning!Fail(w.failed)
    BY <1>4
  <2>3. ram \in Rams
    BY DEF TuningTypes
  <2>4. w.ram \in Rams /\ w.failed \in {0, 1}
    BY <2>3, OneGain
  <2>5. \A j \in Tuning!Joint :
           /\ w.ram.gain[j] = ram.gain[j] \/ w.ram.gain[j] = 0
           /\ w.failed = 0 => (j \in limp => w.ram.gain[j] = 0)
           /\ w.ram.pv[j] = ram.pv[j]
    BY <2>3, OneGain
  <2>6. faults' \in Nat /\ faults' <= MaxFaults /\ (faults' = 0 => faults = 0 /\ w.failed = 0)
    <3>1. w.failed \in Nat /\ faults \in Nat
      BY <2>4 DEF TuningTypes
    <3> QED BY <2>2, <3>1, Failing
  <2>7. TuningTypes'
    <3>1. unheld' \subseteq Tuning!Joint
      BY <1>4 DEF TuningTypes
    <3> QED BY <1>1, <1>4, <2>1, <2>2, <2>4, <2>6, <3>1 DEF TuningTypes
  <2>8. Traceless'
    <3> SUFFICES ASSUME faults' = 0, NEW j \in Tuning!Joint PROVE Clean(j)'
      BY DEF Traceless
    <3>1. Clean(j)
      BY <2>6 DEF Traceless
    <3>2. j \in limpLeft => ram.gain[j] = 0
      BY <3>1 DEF Clean, Tuning!ZeroGain
    <3>3. j \in limpLeft' => ram'.gain[j] = 0
      BY <1>1, <2>2, <2>5, <3>2
    <3>4. j \in limp' => ram'.gain[j] = 0
      BY <1>4, <2>2, <2>5, <2>6
    <3>5. ram'.gain[j] \in {ram.gain[j], 0, 2, 3} /\ ram'.pv[j] \in {ram.pv[j], "own"}
      BY <2>2, <2>5
    <3> QED BY <1>1, <3>1, <3>3, <3>4, <3>5, StaysClean
  <2>9. Loosened'
    BY <1>1, <1>2, <1>4, <2>1 DEF Loosened
  <2>10. TuningMoves
    <3>1. \A j \in unheld' : ram'.gain[j] = ram.gain[j] \/ ram'.gain[j] = 0
      BY <2>2, <2>5, <2>7 DEF TuningTypes
    <3> QED BY <1>2, <3>1, Still
  <2>11. Follows' /\ LetDown'
    BY <1>1, <1>2, <2>1 DEF Follows, SoftScope, LetDown
  <2>12. ArmHeld'
    <3>1. \A j \in Leg : ram.gain[j] <= 1 => ram'.gain[j] <= 1
      BY <2>2, <2>5 DEF Tuning!Joint
    <3>2. softReturn # None => softReturn \subseteq Leg
      BY DEF TuningTypes
    <3> QED BY <1>1, <1>4, <3>1, <3>2 DEF ArmHeld, LegsHeld, Tuning!SoftGain
  <2> QED BY <2>7, <2>8, <2>9, <2>10, <2>11, <2>12
<1> QED BY <1>3, <1>4 DEF Tuning!Hold, Tuning!ZeroGain

(* A joint that answers is stiffened where it is read, the others stay as  *)
(* they are and count as left limp.                                        *)
LEMMA TuningExitLimp ==
  ASSUME TuningInv, Tuning!ExitLimp, UNCHANGED caps PROVE TuningInv' /\ TuningMoves
<1> USE TuningNames DEF TuningInv
<1>1. /\ Tuning!At("restore") /\ todo' = Tail(todo) /\ limp' = {}
      /\ UNCHANGED <<motion, arm, locked, softReturn, scope, verdict, tuned, neckTuned, cut, asIs, asleep, overridden>>
  BY DEF Tuning!ExitLimp, Tuning!engine, Tuning!guard, Tuning!tuning, Tuning!torque
<1>2. PICK answered \in SUBSET limp, holds \in BOOLEAN : Tuning!Restore(answered, holds)
  BY DEF Tuning!ExitLimp
<1>3. PICK p \in Tuning!Outcomes(ram, Tuning!Profile(answered)) :
        \E g \in IF p.failed = 0 THEN Tuning!Outcomes(p.ram, IF holds THEN <<Tuning!Raw("gain", answered, 3)>> ELSE <<>>) ELSE {p} :
        \E b \in Tuning!Outcomes(g.ram, Tuning!ProfileBack(answered)) :
          /\ ram' = b.ram
          /\ unheld' = IF p.failed = 0 /\ holds THEN unheld \ answered ELSE unheld
          /\ limpLeft' = IF g.failed = 0 /\ holds THEN (limpLeft \cup limp) \ answered ELSE limpLeft \cup limp
          /\ Tuning!Fail(g.failed + b.failed)
  BY <1>2 DEF Tuning!Restore, Tuning!OwnGain
<1>4. PICK g \in IF p.failed = 0 THEN Tuning!Outcomes(p.ram, IF holds THEN <<Tuning!Raw("gain", answered, 3)>> ELSE <<>>) ELSE {p} :
        \E b \in Tuning!Outcomes(g.ram, Tuning!ProfileBack(answered)) :
          /\ ram' = b.ram
          /\ unheld' = IF p.failed = 0 /\ holds THEN unheld \ answered ELSE unheld
          /\ limpLeft' = IF g.failed = 0 /\ holds THEN (limpLeft \cup limp) \ answered ELSE limpLeft \cup limp
          /\ Tuning!Fail(g.failed + b.failed)
  BY <1>3
<1>5. PICK b \in Tuning!Outcomes(g.ram, Tuning!ProfileBack(answered)) :
          /\ ram' = b.ram
          /\ unheld' = IF p.failed = 0 /\ holds THEN unheld \ answered ELSE unheld
          /\ limpLeft' = IF g.failed = 0 /\ holds THEN (limpLeft \cup limp) \ answered ELSE limpLeft \cup limp
          /\ Tuning!Fail(g.failed + b.failed)
  BY <1>4
<1>6. /\ p.ram \in Rams /\ p.failed \in {0, 1}
      /\ \A j \in Tuning!Joint :
           /\ p.ram.gain[j] = ram.gain[j]
           /\ p.ram.pv[j] = ram.pv[j] \/ ("pv" \in caps /\ j \in answered)
  <2>1. ram \in Rams
    BY DEF TuningTypes
  <2>2. CASE "pv" \notin caps
    <3>1. p \in Tuning!Outcomes(ram, <<>>)
      BY <2>2 DEF Tuning!Profile
    <3> QED BY <2>1, <3>1, NoWrites
  <2>3. CASE "pv" \in caps
    <3>1. p \in Tuning!Outcomes(ram, <<Tuning!Raw("pv", answered, "fast")>>)
      BY <2>3 DEF Tuning!Profile, Tuning!Pv
    <3>2. p.ram \in Rams /\ p.failed \in {0, 1}
      BY <2>1, <3>1, OnePv
    <3>3. \A j \in Tuning!Joint :
           /\ p.ram.gain[j] = ram.gain[j]
           /\ p.ram.pv[j] = ram.pv[j] \/ (j \in answered /\ p.ram.pv[j] = "fast")
      BY <2>1, <3>1, OnePv
    <3> QED BY <2>3, <3>2, <3>3
  <2> QED BY <2>2, <2>3
<1>7. /\ g.ram \in Rams /\ g.failed \in {0, 1} /\ (g.failed = 0 => p.failed = 0)
      /\ \A j \in Tuning!Joint :
           /\ g.ram.gain[j] = p.ram.gain[j] \/ (p.failed = 0 /\ holds /\ j \in answered /\ g.ram.gain[j] = 3)
           /\ g.ram.pv[j] = p.ram.pv[j]
  <2>1. CASE p.failed # 0
    BY <1>6, <2>1
  <2>2. CASE p.failed = 0 /\ ~holds
    <3>1. g \in Tuning!Outcomes(p.ram, <<>>)
      BY <2>2
    <3> QED BY <1>6, <2>2, <3>1, NoWrites
  <2>3. CASE p.failed = 0 /\ holds
    <3>1. g \in Tuning!Outcomes(p.ram, <<Tuning!Raw("gain", answered, 3)>>)
      BY <2>3
    <3>2. g.ram \in Rams /\ g.failed \in {0, 1}
      BY <1>6, <3>1, OneGain
    <3>3. \A j \in Tuning!Joint :
           /\ g.ram.gain[j] = p.ram.gain[j] \/ (j \in answered /\ g.ram.gain[j] = 3)
           /\ g.ram.pv[j] = p.ram.pv[j]
      BY <1>6, <3>1, OneGain
    <3> QED BY <2>3, <3>2, <3>3
  <2> QED BY <2>1, <2>2, <2>3
<1>8. /\ b.ram \in Rams /\ b.failed \in {0, 1}
      /\ \A j \in Tuning!Joint :
           /\ b.ram.gain[j] = g.ram.gain[j]
           /\ b.ram.pv[j] = g.ram.pv[j] \/ b.ram.pv[j] = "own"
           /\ b.failed = 0 /\ "pv" \in caps /\ j \in answered => b.ram.pv[j] = "own"
  <2>1. CASE "pv" \notin caps
    <3>1. b \in Tuning!Outcomes(g.ram, <<>>)
      BY <2>1 DEF Tuning!ProfileBack
    <3> QED BY <1>7, <2>1, <3>1, NoWrites
  <2>2. CASE "pv" \in caps
    <3>1. b \in Tuning!Outcomes(g.ram, <<Tuning!Raw("pv", answered, "own")>>)
      BY <2>2 DEF Tuning!ProfileBack, Tuning!Pv
    <3>2. b.ram \in Rams /\ b.failed \in {0, 1}
      BY <1>7, <3>1, OnePv
    <3>3. \A j \in Tuning!Joint :
           /\ b.ram.gain[j] = g.ram.gain[j]
           /\ b.ram.pv[j] = g.ram.pv[j] \/ (j \in answered /\ b.ram.pv[j] = "own")
           /\ b.failed = 0 => (j \in answered => b.ram.pv[j] = "own")
      BY <1>7, <3>1, OnePv
    <3> QED BY <3>2, <3>3
  <2> QED BY <2>1, <2>2
<1>9. faults' \in Nat /\ faults' <= MaxFaults /\ (faults' = 0 => faults = 0 /\ g.failed = 0 /\ b.failed = 0)
  <2>1. \A x, y \in {0, 1} : x + y \in Nat /\ (x + y = 0 => x = 0 /\ y = 0)
    OBVIOUS
  <2>2. g.failed + b.failed \in Nat /\ (g.failed + b.failed = 0 => g.failed = 0 /\ b.failed = 0)
    BY <1>7, <1>8, <2>1
  <2>3. faults \in Nat
    BY DEF TuningTypes
  <2> QED BY <1>5, <2>2, <2>3, Failing
<1>10. \A j \in Tuning!Joint : ram'.gain[j] = ram.gain[j] \/ (p.failed = 0 /\ holds /\ j \in answered /\ ram'.gain[j] = 3)
  BY <1>5, <1>6, <1>7, <1>8
<1>11. /\ todo = <<"restore">> /\ todo' = <<>> /\ todo \notin Syncing /\ todo # <<"ramp", "park">>
       /\ todo' \notin Syncing /\ todo' # <<"restore">> /\ todo' \in Shapes /\ todo' \notin Parking
  <2>1. todo = <<"restore">> /\ todo' = <<>>
    BY <1>1, Stands DEF TuningTypes
  <2>2. <<"restore">> # <<"ramp", "park">> /\ <<>> # <<"restore">>
    OBVIOUS
  <2> QED BY <2>1, <2>2, InList
<1>12. limpLeft' \subseteq limpLeft \cup limp /\ unheld' \subseteq unheld /\ unheld' \subseteq limpLeft'
       /\ (p.failed = 0 /\ holds => unheld' \cap answered = {})
       /\ (g.failed = 0 /\ holds => limpLeft' \cap answered = {})
  <2>1. unheld \subseteq limpLeft \cup limp
    BY DEF Loosened
  <2>2. CASE g.failed = 0 /\ holds
    BY <1>5, <1>7, <2>1, <2>2
  <2>3. CASE ~(g.failed = 0 /\ holds)
    BY <1>5, <2>1, <2>3
  <2> QED BY <2>2, <2>3
<1>13. TuningTypes'
  <2>1. limpLeft' \subseteq Tuning!Joint /\ unheld' \subseteq Tuning!Joint
    BY <1>12 DEF TuningTypes
  <2> QED BY <1>1, <1>5, <1>8, <1>9, <1>11, <2>1 DEF TuningTypes
<1>14. Traceless'
  <2> SUFFICES ASSUME faults' = 0, NEW j \in Tuning!Joint PROVE Clean(j)'
    BY DEF Traceless
  <2>1. Clean(j)
    BY <1>9 DEF Traceless
  <2>2. j \in limpLeft \cup limp => ram.gain[j] = 0
    BY <1>11, <2>1 DEF Clean, Tuning!ZeroGain
  <2>3. j \in limpLeft' => ram'.gain[j] = 0
    BY <1>9, <1>10, <1>12, <2>2
  <2>4. ram'.gain[j] \in {ram.gain[j], 0, 2, 3}
    BY <1>10
  <2>5. ram'.pv[j] \in {ram.pv[j], "own"}
    BY <1>5, <1>6, <1>7, <1>8, <1>9
  <2> QED BY <1>1, <1>11, <2>1, <2>3, <2>4, <2>5, StaysClean
<1>15. Loosened'
  BY <1>11, <1>12 DEF Loosened
<1>16. TuningMoves
  <2>1. \A j \in unheld' : ram'.gain[j] = ram.gain[j]
    BY <1>10, <1>12 DEF TuningTypes
  <2> QED BY <1>11, <2>1, Still
<1>17. Follows' /\ LetDown'
  BY <1>1, <1>11 DEF Follows, SoftScope, LetDown, IsWave, Tuning!IsSoft
<1>18. ArmHeld'
  <2>1. LegsHeld => \A j \in Leg : ram'.gain[j] = ram.gain[j]
    BY <1>10 DEF Tuning!Joint, ArmHeld
  <2>2. softReturn # None => softReturn \subseteq Leg
    BY DEF TuningTypes
  <2>3. LegsHeld => limp' \cup limpLeft' \subseteq Neck
    BY <1>1, <1>12 DEF ArmHeld
  <2> QED BY <1>1, <2>1, <2>2, <2>3 DEF ArmHeld, LegsHeld
<1> QED BY <1>13, <1>14, <1>15, <1>16, <1>17, <1>18

(* The legs are ramped down, the arm of a soft return from the soft gain   *)
(* up to the rest gain and no further.                                     *)
LEMMA Starts == ASSUME TuningTypes, NEW S \in SUBSET Leg, NEW v \in Tuning!RampStarts(S) PROVE v \in {0, 1, 2, 3}
<1>1. \A j \in S : ram.gain[j] \in {0, 1, 2, 3, 4}
  BY DEF TuningTypes, Rams, Tuning!Joint
<1>2. \A w \in {ram.gain[j] : j \in S} : w \in {0, 1, 2, 3, 4}
  BY <1>1
<1>3. \A w \in {0, 1, 2, 3, 4} : (IF w > 3 THEN 3 ELSE w) \in {0, 1, 2, 3}
  OBVIOUS
<1> QED BY <1>2, <1>3 DEF Tuning!RampStarts, Tuning!OwnGain

LEMMA TuningRamp ==
  ASSUME TuningInv, Tuning!Ramp, UNCHANGED caps PROVE TuningInv' /\ TuningMoves
<1> USE TuningNames DEF TuningInv
<1> DEFINE held == Tuning!SoftArm
           firm == Leg \ Tuning!SoftArm
<1>1. /\ Tuning!At("ramp") /\ todo' = Tail(todo) /\ softReturn' = None /\ UNCHANGED <<scope, verdict>>
      /\ tuned' = IF Tuning!IsSoft(tuned) THEN None ELSE tuned
      /\ UNCHANGED <<motion, arm, locked, neckTuned, cut, asIs, limpLeft, limp, unheld, asleep, overridden>>
  BY DEF Tuning!Ramp, Tuning!engine, Tuning!limping, Tuning!torque, Tuning!G!EndSoftReturn
<1>2. PICK start \in Tuning!RampStarts(firm) :
        \E w \in Tuning!Outcomes(ram, Tuning!GainWrites(<<Tuning!Gain(firm, start), Tuning!Gain(held, 1),
                                                        Tuning!Gain(firm, 2), Tuning!Gain(held, 2)>>)) :
          ram' = w.ram /\ Tuning!Fail(w.failed)
  BY DEF Tuning!Ramp, Tuning!SoftGain, Tuning!RestGain
<1>3. PICK w \in Tuning!Outcomes(ram, Tuning!GainWrites(<<Tuning!Gain(firm, start), Tuning!Gain(held, 1),
                                                        Tuning!Gain(firm, 2), Tuning!Gain(held, 2)>>)) :
          ram' = w.ram /\ Tuning!Fail(w.failed)
  BY <1>2
<1>4. held \subseteq Leg /\ (Tuning!IsSoft(tuned) => held = tuned[2] /\ "gain" \in caps)
  <2>1. tuned \in Tuned
    BY DEF TuningTypes
  <2>2. Tuning!IsSoft(tuned) => tuned[2] \subseteq Leg
    BY <2>1 DEF Tuned, Tuning!IsSoft
  <2> QED BY <2>2 DEF Tuning!SoftArm, Follows
<1>5. start \in 0..4
  <2>1. firm \in SUBSET Leg
    OBVIOUS
  <2> HIDE DEF firm
  <2>2. start \in {0, 1, 2, 3}
    BY <1>2, <2>1, Starts
  <2> QED BY <2>2
<1>6. /\ w.ram \in Rams /\ w.failed \in {0, 1}
      /\ \A j \in Tuning!Joint :
           /\ \/ w.ram.gain[j] = ram.gain[j]
              \/ "gain" \in caps /\ j \in firm \ limpLeft
              \/ "gain" \in caps /\ j \in held \ limpLeft /\ w.ram.gain[j] \in {1, 2}
           /\ w.failed = 0 /\ "gain" \in caps /\ j \in Leg \ limpLeft => w.ram.gain[j] = 2
           /\ w.ram.pv[j] = ram.pv[j]
  <2>1. ram \in Rams
    BY DEF TuningTypes
  <2>2. CASE "gain" \notin caps
    <3> HIDE DEF firm, held
    <3> QED BY <2>1, <2>2, Unwritten
  <2>3. CASE "gain" \in caps
    <3> DEFINE F == firm \ limpLeft
               H == held \ limpLeft
    <3>1. w \in Tuning!Outcomes(ram, <<Tuning!Raw("gain", F, start), Tuning!Raw("gain", H, 1),
                                     Tuning!Raw("gain", F, 2), Tuning!Raw("gain", H, 2)>>)
      BY <2>3 DEF Tuning!GainWrites, Tuning!Gain
    <3>2. F \cap H = {} /\ F \cup H = Leg \ limpLeft
      BY <1>4
    <3> HIDE DEF F, H, firm, held
    <3>3. w.ram \in Rams /\ w.failed \in {0, 1}
      BY <1>5, <2>1, <3>1, FourGains
    <3>4. \A j \in Tuning!Joint :
           /\ \/ w.ram.gain[j] = ram.gain[j] \/ j \in F
              \/ (j \in H /\ w.ram.gain[j] = 1) \/ (j \in H /\ w.ram.gain[j] = 2)
           /\ w.failed = 0 => /\ (j \in F /\ j \notin H => w.ram.gain[j] = 2)
                              /\ (j \in H => w.ram.gain[j] = 2)
           /\ w.ram.pv[j] = ram.pv[j]
      BY <1>5, <2>1, <3>1, FourGains
    <3>5. \A j \in Tuning!Joint :
           /\ w.ram.gain[j] = ram.gain[j] \/ j \in F \/ (j \in H /\ w.ram.gain[j] \in {1, 2})
           /\ w.failed = 0 /\ j \in Leg \ limpLeft => w.ram.gain[j] = 2
           /\ w.ram.pv[j] = ram.pv[j]
      BY <3>2, <3>4
    <3> QED BY <2>3, <3>3, <3>5 DEF F, H
  <2> QED BY <2>2, <2>3
<1>7. faults' \in Nat /\ faults' <= MaxFaults /\ (faults' = 0 => faults = 0 /\ w.failed = 0)
  <2>1. w.failed \in Nat /\ faults \in Nat
    BY <1>6 DEF TuningTypes
  <2> QED BY <1>3, <2>1, Failing
<1>8. /\ todo = <<"ramp", "park">> /\ todo' = <<"park">> /\ todo \notin Syncing /\ todo \in Parking /\ todo # <<"restore">>
      /\ todo' \notin Syncing /\ todo' # <<"restore">> /\ todo' \in Shapes /\ todo' \in Parking
  <2>1. todo = <<"ramp", "park">> /\ todo' = <<"park">>
    BY <1>1, Stands DEF TuningTypes
  <2>2. <<"ramp", "park">> # <<"restore">> /\ <<"park">> # <<"restore">>
    OBVIOUS
  <2> QED BY <2>1, <2>2, InList
<1>9. ~Tuning!IsSoft(tuned') /\ (tuned' = tuned \/ tuned' = None) /\ (Tuning!IsSoft(tuned) \/ tuned' = tuned) /\ ~IsWave(tuned)
  BY <1>1, <1>8 DEF Tuning!IsSoft, LetDown
<1>10. TuningTypes'
  <2>1. tuned' \in Tuned /\ ram' \in Rams
    BY <1>3, <1>6, <1>9 DEF TuningTypes, Tuned
  <2> QED BY <1>1, <1>7, <1>8, <2>1 DEF TuningTypes
<1>11. Traceless'
  <2> SUFFICES ASSUME faults' = 0, NEW j \in Tuning!Joint PROVE Clean(j)'
    BY DEF Traceless
  <2>1. Clean(j) /\ w.failed = 0
    BY <1>7 DEF Traceless
  <2>2. ram'.pv[j] = ram.pv[j]
    BY <1>3, <1>6
  <2>3. j \in limpLeft => ram'.gain[j] = 0
    BY <1>3, <1>6, <2>1 DEF Clean, Tuning!ZeroGain
  <2>4. ram'.gain[j] = ram.gain[j] \/ ram'.gain[j] = 2
    BY <1>3, <1>4, <1>6, <2>1
  <2>5. ram'.gain[j] # 1
    <3> SUFFICES ASSUME ram'.gain[j] = 1 PROVE FALSE
      OBVIOUS
    <3>1. ram.gain[j] = 1 /\ Tuning!IsSoft(tuned) /\ j \in tuned[2]
      BY <2>1, <2>4 DEF Clean, Tuning!SoftGain
    <3>2. j \in Leg \ limpLeft /\ "gain" \in caps
      BY <1>4, <2>1, <3>1 DEF Clean, Tuning!ZeroGain
    <3> QED BY <1>3, <1>6, <2>1, <3>2
  <2>6. ram'.gain[j] # 4
    BY <1>9, <2>1, <2>4 DEF Clean, Tuning!WaveGain
  <2>7. ram'.pv[j] = "stretch" => tuned' # None /\ tuned'[1] = "stretch"
    BY <1>9, <2>1, <2>2 DEF Clean, Tuning!IsSoft
  <2>8. ram'.pv[j] = "fast" => neckTuned' /\ j \in Neck
    BY <1>1, <1>9, <2>1, <2>2 DEF Clean
  <2> QED BY <1>1, <1>8, <2>3, <2>5, <2>6, <2>7, <2>8 DEF Clean, Tuning!WaveGain, Tuning!SoftGain, Tuning!ZeroGain
<1>12. Loosened'
  BY <1>1, <1>8 DEF Loosened
<1>13. TuningMoves
  <2>1. ~Tuning!At("sync")
    BY <1>8, Stands DEF TuningTypes
  <2>2. \A j \in unheld : ram'.gain[j] = ram.gain[j]
    BY <1>3, <1>6, <1>8 DEF Loosened, TuningTypes
  <2>3. Tuning!NoJointSnaps
    <3> SUFFICES ASSUME NEW j \in unheld, ram'.gain[j] > ram.gain[j] PROVE FALSE
      BY DEF Tuning!NoJointSnaps
    <3>1. ram'.gain[j] = ram.gain[j]
      BY <2>2
    <3>2. ram.gain[j] \in 0..4
      BY DEF TuningTypes, Rams
    <3> QED BY <3>1, <3>2
  <2>4. Tuning!HeldArmIsEased
    <3> SUFFICES ASSUME Tuning!IsSoft(tuned), NEW j \in tuned[2], ram.gain[j] <= 1 PROVE ram'.gain[j] <= 2
      BY DEF Tuning!HeldArmIsEased, Tuning!SoftGain, Tuning!RestGain
    <3>1. j \in held /\ j \in Tuning!Joint
      BY <1>4 DEF Tuning!Joint
    <3>2. ram'.gain[j] = ram.gain[j] \/ ram'.gain[j] \in {1, 2}
      BY <1>3, <1>6, <3>1
    <3>3. ram.gain[j] \in 0..4
      BY <3>1 DEF TuningTypes, Rams
    <3> QED BY <3>2, <3>3
  <2> QED BY <2>1, <2>3, <2>4 DEF TuningMoves, Tuning!TrippedArmYields, Tuning!SleepingNeckStaysDown
<1>14. Follows'
  BY <1>1, <1>8, <1>9 DEF Follows
<1>15. LetDown'
  BY <1>1, <1>8, <1>9 DEF LetDown, IsWave
<1>16. ArmHeld'
  BY <1>1 DEF ArmHeld, LegsHeld
<1> QED BY <1>10, <1>11, <1>12, <1>13, <1>14, <1>15, <1>16

(* What leaving a gesture writes, and what entering one does.              *)
LEMMA Kinds ==
  ASSUME NEW t \in Tuned
  PROVE  \/ t = None /\ ~IsWave(t) /\ ~Tuning!IsSoft(t)
         \/ t # None /\ t[1] = "wave" /\ t[2] \subseteq Leg /\ IsWave(t) /\ ~Tuning!IsSoft(t)
         \/ t # None /\ t[1] = "stretch" /\ ~IsWave(t) /\ ~Tuning!IsSoft(t)
         \/ t # None /\ t[1] = "soft" /\ t[2] \subseteq Leg /\ ~IsWave(t) /\ Tuning!IsSoft(t)
<1>1. CASE t = None
  BY <1>1 DEF IsWave, Tuning!IsSoft
<1>2. CASE t \in {<<k, S>> : k \in {"wave", "stretch", "soft"}, S \in SUBSET Leg}
  <2>1. PICK k, S : k \in {"wave", "stretch", "soft"} /\ S \in SUBSET Leg /\ t = <<k, S>>
    BY <1>2
  <2>2. t # None /\ t[1] = k /\ t[2] = S
    BY <2>1, TuningNames
  <2> QED BY <2>1, <2>2 DEF IsWave, Tuning!IsSoft
<1> QED BY <1>1, <1>2 DEF Tuned

LEMMA Released ==
  ASSUME NEW r \in Rams, NEW t \in Tuned, NEW o \in Tuning!Outcomes(r, Tuning!Release(t))
  PROVE  /\ o.ram \in Rams /\ o.failed \in {0, 1}
         /\ \A j \in Tuning!Joint :
              /\ \/ o.ram.gain[j] = r.gain[j]
                 \/ j \notin limpLeft /\ o.ram.gain[j] = 3 /\ (IsWave(t) \/ (Tuning!IsSoft(t) /\ j \in t[2]))
              /\ o.ram.pv[j] = r.pv[j] \/ o.ram.pv[j] = "own"
              /\ o.failed = 0 =>
                   /\ IsWave(t) => o.ram.pv[j] = "own" /\ (j \notin limpLeft => o.ram.gain[j] = 3)
                   /\ t # None /\ t[1] = "stretch" => o.ram.pv[j] = "own"
                   /\ Tuning!IsSoft(t) /\ j \in t[2] /\ j \notin limpLeft => o.ram.gain[j] = 3
<1>1. CASE t = None /\ ~IsWave(t) /\ ~Tuning!IsSoft(t)
  <2>1. o \in Tuning!Outcomes(r, <<>>)
    BY <1>1 DEF Tuning!Release
  <2>2. o.ram \in Rams /\ o.failed = 0
    BY <2>1, NoWrites
  <2>3. \A j \in Tuning!Joint : o.ram.gain[j] = r.gain[j] /\ o.ram.pv[j] = r.pv[j]
    BY <2>1, NoWrites
  <2> QED BY <1>1, <2>2, <2>3
<1>2. CASE t # None /\ t[1] = "wave" /\ IsWave(t) /\ ~Tuning!IsSoft(t)
  <2> DEFINE L == Tuning!Joint \ limpLeft
             A == Tuning!Joint
  <2>1. o \in Tuning!Outcomes(r, <<Tuning!Raw("gain", L, 3), Tuning!Raw("pv", A, "own")>>)
    BY <1>2 DEF Tuning!Release, Tuning!Gain, Tuning!Pv, Tuning!OwnGain
  <2> HIDE DEF L, A
  <2>2. o.ram \in Rams /\ o.failed \in {0, 1}
    BY <2>1, GainThenPv
  <2>3. \A j \in Tuning!Joint :
          /\ o.ram.gain[j] = r.gain[j] \/ (j \in L /\ o.ram.gain[j] = 3)
          /\ o.failed = 0 => (j \in L => o.ram.gain[j] = 3)
          /\ o.ram.pv[j] = r.pv[j] \/ (j \in A /\ o.ram.pv[j] = "own")
          /\ o.failed = 0 => (j \in A => o.ram.pv[j] = "own")
    BY <2>1, GainThenPv
  <2> QED BY <1>2, <2>2, <2>3 DEF L, A
<1>3. CASE t # None /\ t[1] = "stretch" /\ ~IsWave(t) /\ ~Tuning!IsSoft(t)
  <2> DEFINE A == Tuning!Joint
  <2>1. o \in Tuning!Outcomes(r, <<Tuning!Raw("pv", A, "own")>>)
    BY <1>3 DEF Tuning!Release, Tuning!Pv
  <2> HIDE DEF A
  <2>2. o.ram \in Rams /\ o.failed \in {0, 1}
    BY <2>1, OnePv
  <2>3. \A j \in Tuning!Joint :
          /\ o.ram.gain[j] = r.gain[j]
          /\ o.ram.pv[j] = r.pv[j] \/ (j \in A /\ o.ram.pv[j] = "own")
          /\ o.failed = 0 => (j \in A => o.ram.pv[j] = "own")
    BY <2>1, OnePv
  <2> QED BY <1>3, <2>2, <2>3 DEF A
<1>4. CASE t # None /\ t[1] = "soft" /\ ~IsWave(t) /\ Tuning!IsSoft(t)
  <2> DEFINE L == t[2] \ limpLeft
  <2>1. o \in Tuning!Outcomes(r, <<Tuning!Raw("gain", L, 3)>>)
    BY <1>4 DEF Tuning!Release, Tuning!Gain, Tuning!OwnGain
  <2> HIDE DEF L
  <2>2. o.ram \in Rams /\ o.failed \in {0, 1}
    BY <2>1, OneGain
  <2>3. \A j \in Tuning!Joint :
          /\ o.ram.gain[j] = r.gain[j] \/ (j \in L /\ o.ram.gain[j] = 3)
          /\ o.failed = 0 => (j \in L => o.ram.gain[j] = 3)
          /\ o.ram.pv[j] = r.pv[j]
    BY <2>1, OneGain
  <2> QED BY <1>4, <2>2, <2>3 DEF L
<1> QED BY <1>1, <1>2, <1>3, <1>4, Kinds

LEMMA Applied ==
  ASSUME NEW r \in Rams, NEW t \in Tuned, NEW o \in Tuning!Outcomes(r, Tuning!Apply(t))
  PROVE  /\ o.ram \in Rams /\ o.failed \in {0, 1}
         /\ \A j \in Tuning!Joint :
              /\ \/ o.ram.gain[j] = r.gain[j]
                 \/ j \notin limpLeft /\ IsWave(t) /\ o.ram.gain[j] = 4
                 \/ j \notin limpLeft /\ Tuning!IsSoft(t) /\ j \in t[2] /\ o.ram.gain[j] = 1
              /\ \/ o.ram.pv[j] = r.pv[j] \/ o.ram.pv[j] = "own"
                 \/ IsWave(t) /\ j \in t[2] /\ o.ram.pv[j] = "fast"
                 \/ t # None /\ t[1] = "stretch" /\ o.ram.pv[j] = "stretch"
              /\ o.failed = 0 /\ Tuning!IsSoft(t) /\ j \in t[2] /\ j \notin limpLeft => o.ram.gain[j] = 1
<1>1. CASE t = None /\ ~IsWave(t) /\ ~Tuning!IsSoft(t)
  <2>1. o \in Tuning!Outcomes(r, <<>>)
    BY <1>1 DEF Tuning!Apply
  <2>2. o.ram \in Rams /\ o.failed = 0
    BY <2>1, NoWrites
  <2>3. \A j \in Tuning!Joint : o.ram.gain[j] = r.gain[j] /\ o.ram.pv[j] = r.pv[j]
    BY <2>1, NoWrites
  <2> QED BY <1>1, <2>2, <2>3
<1>2. CASE t # None /\ t[1] = "wave" /\ IsWave(t) /\ ~Tuning!IsSoft(t)
  <2> DEFINE L == Tuning!Joint \ limpLeft
             A == Tuning!Joint
             T == t[2]
  <2>1. o \in Tuning!Outcomes(r, <<Tuning!Raw("pv", A, "own"), Tuning!Raw("pv", T, "fast"), Tuning!Raw("gain", L, 4)>>)
    BY <1>2 DEF Tuning!Apply, Tuning!Gain, Tuning!Pv, Tuning!WaveGain
  <2> HIDE DEF L, A, T
  <2>2. o.ram \in Rams /\ o.failed \in {0, 1}
    BY <2>1, TwoPvsThenGain
  <2>3. \A j \in Tuning!Joint :
          /\ o.ram.gain[j] = r.gain[j] \/ (j \in L /\ o.ram.gain[j] = 4)
          /\ o.ram.pv[j] = r.pv[j] \/ (j \in A /\ o.ram.pv[j] = "own") \/ (j \in T /\ o.ram.pv[j] = "fast")
    BY <2>1, TwoPvsThenGain
  <2> QED BY <1>2, <2>2, <2>3 DEF L, T
<1>3. CASE t # None /\ t[1] = "stretch" /\ ~IsWave(t) /\ ~Tuning!IsSoft(t)
  <2> DEFINE A == Tuning!Joint
  <2>1. o \in Tuning!Outcomes(r, <<Tuning!Raw("pv", A, "stretch")>>)
    BY <1>3 DEF Tuning!Apply, Tuning!Pv
  <2> HIDE DEF A
  <2>2. o.ram \in Rams /\ o.failed \in {0, 1}
    BY <2>1, OnePv
  <2>3. \A j \in Tuning!Joint :
          /\ o.ram.gain[j] = r.gain[j]
          /\ o.ram.pv[j] = r.pv[j] \/ (j \in A /\ o.ram.pv[j] = "stretch")
    BY <2>1, OnePv
  <2> QED BY <1>3, <2>2, <2>3
<1>4. CASE t # None /\ t[1] = "soft" /\ ~IsWave(t) /\ Tuning!IsSoft(t)
  <2> DEFINE L == t[2] \ limpLeft
  <2>1. o \in Tuning!Outcomes(r, <<Tuning!Raw("gain", L, 1)>>)
    BY <1>4 DEF Tuning!Apply, Tuning!Gain, Tuning!SoftGain
  <2> HIDE DEF L
  <2>2. o.ram \in Rams /\ o.failed \in {0, 1}
    BY <2>1, OneGain
  <2>3. \A j \in Tuning!Joint :
          /\ o.ram.gain[j] = r.gain[j] \/ (j \in L /\ o.ram.gain[j] = 1)
          /\ o.failed = 0 => (j \in L => o.ram.gain[j] = 1)
          /\ o.ram.pv[j] = r.pv[j]
    BY <2>1, OneGain
  <2> QED BY <1>4, <2>2, <2>3 DEF L
<1> QED BY <1>1, <1>2, <1>3, <1>4, Kinds

(* What the motion and the guard want of the servos.                       *)
LEMMA Wanted ==
  ASSUME TuningTypes, NEW s, s = None \/ s \in SUBSET Leg
  PROVE  /\ Tuning!Want(s) \in Tuned
         /\ Tuning!IsSoft(Tuning!Want(s)) => s # None /\ Tuning!Want(s) = <<"soft", s>>
         /\ motion \in Tuning!Soft => ~IsWave(Tuning!Want(s)) /\ (s # None => Tuning!Want(s) = <<"soft", s>>)
<1>1. arm \subseteq Leg /\ {} \subseteq Leg
  BY TuningNames DEF TuningTypes
<1>2. motion \in Tuning!Soft => motion \notin Tuning!Wave /\ motion # "stretch"
  BY DEF Tuning!Soft, Tuning!NeckGesture, Tuning!Wave
<1>3. /\ <<"wave", arm>> \in Tuned /\ <<"stretch", {}>> \in Tuned /\ None \in Tuned
      /\ s # None => <<"soft", s>> \in Tuned
  <2>1. None \in Tuned
    BY DEF Tuned
  <2>2. \A k \in {"wave", "stretch", "soft"} : \A S \in SUBSET Leg : <<k, S>> \in Tuned
    BY DEF Tuned
  <2>3. "wave" \in {"wave", "stretch", "soft"} /\ "stretch" \in {"wave", "stretch", "soft"} /\ "soft" \in {"wave", "stretch", "soft"}
    OBVIOUS
  <2>4. arm \in SUBSET Leg /\ {} \in SUBSET Leg
    BY <1>1
  <2> QED BY <2>1, <2>2, <2>3, <2>4, Zenon
<1>4. /\ ~Tuning!IsSoft(<<"wave", arm>>) /\ ~Tuning!IsSoft(<<"stretch", {}>>) /\ ~Tuning!IsSoft(None)
      /\ ~IsWave(<<"soft", s>>) /\ ~IsWave(None)
  BY DEF Tuning!IsSoft, IsWave
<1> QED BY <1>2, <1>3, <1>4, Zenon DEF Tuning!Want

(* The tuning follows the motion and the guard: whatever was tuned is      *)
(* released before the next is applied, and the arm of a soft return that  *)
(* cannot be softened is cut.                                              *)
LEMMA TuningSync ==
  ASSUME TuningInv, Tuning!Sync, UNCHANGED caps PROVE TuningInv' /\ TuningMoves
<1> USE TuningNames DEF TuningInv
<1> DEFINE soft == IF motion \in Tuning!Soft THEN softReturn ELSE None
           unable == soft # None /\ "gain" \notin caps
           s == IF unable THEN None ELSE soft
           want == Tuning!Want(s)
           same == want = tuned
<1>1. /\ Tuning!At("sync") /\ todo' = Tail(todo) /\ overridden' = (overridden /\ same)
      /\ UNCHANGED <<motion, arm, locked, neckTuned, limpLeft, limp, unheld, asleep>>
  BY DEF Tuning!Sync, Tuning!engine, Tuning!limping
<1>2. PICK r \in Tuning!Outcomes(ram, IF same THEN <<>> ELSE Tuning!Release(tuned)) :
        \E a \in Tuning!Outcomes(r.ram, IF same THEN <<>> ELSE Tuning!Apply(want)) :
          /\ ram' = a.ram
          /\ tuned' = IF Tuning!IsSoft(want) /\ a.failed > 0 THEN None ELSE want
          /\ IF unable \/ (Tuning!IsSoft(want) /\ a.failed > 0) THEN Tuning!CutTorque(soft, r.failed + a.failed)
             ELSE Tuning!Fail(r.failed + a.failed) /\ UNCHANGED <<softReturn, scope, verdict, cut, asIs>>
  BY DEF Tuning!Sync, Tuning!guard, Tuning!torque
<1>3. PICK a \in Tuning!Outcomes(r.ram, IF same THEN <<>> ELSE Tuning!Apply(want)) :
          /\ ram' = a.ram
          /\ tuned' = IF Tuning!IsSoft(want) /\ a.failed > 0 THEN None ELSE want
          /\ IF unable \/ (Tuning!IsSoft(want) /\ a.failed > 0) THEN Tuning!CutTorque(soft, r.failed + a.failed)
             ELSE Tuning!Fail(r.failed + a.failed) /\ UNCHANGED <<softReturn, scope, verdict, cut, asIs>>
  BY <1>2
<1> DEFINE refused == Tuning!IsSoft(want) /\ a.failed > 0
<1>4. /\ soft = None \/ soft \in SUBSET Leg
      /\ s = None \/ s \in SUBSET Leg
  BY DEF TuningTypes
<1>5. /\ want \in Tuned
      /\ Tuning!IsSoft(want) => s # None /\ want = <<"soft", s>>
      /\ motion \in Tuning!Soft => ~IsWave(want) /\ (s # None => want = <<"soft", s>>)
  <2> HIDE DEF s
  <2> QED BY <1>4, Wanted
<1>6. /\ Tuning!IsSoft(want) => /\ "gain" \in caps /\ ~unable /\ motion \in Tuning!Soft /\ softReturn # None
                                /\ want = <<"soft", softReturn>>
      /\ unable \/ refused => softReturn # None /\ motion \in Tuning!Soft /\ soft = softReturn
      /\ motion \in Tuning!Soft /\ softReturn # None /\ ~unable => want = <<"soft", softReturn>>
  <2> HIDE DEF want
  <2> QED BY <1>5
<1> HIDE DEF s, want
<1>7. /\ todo \in Syncing /\ todo' \in Necking /\ (todo \in Parking <=> todo' \in Parking)
      /\ todo # <<"restore">> /\ todo' \notin Syncing /\ todo' # <<"restore">> /\ todo' \in Shapes
      /\ ~Tuning!At("ramp")
  <2>1. todo \in Syncing /\ todo' \in Necking /\ (todo \in Parking <=> todo' \in Parking)
    BY <1>1, Stands DEF TuningTypes
  <2>2. ~Tuning!At("ramp")
    BY <1>1 DEF Tuning!At
  <2> QED BY <2>1, <2>2, InList, Differ
<1>8. /\ r.ram \in Rams /\ r.failed \in {0, 1}
      /\ \A j \in Tuning!Joint :
           /\ \/ r.ram.gain[j] = ram.gain[j]
              \/ ~same /\ j \notin limpLeft /\ r.ram.gain[j] = 3 /\ (IsWave(tuned) \/ (Tuning!IsSoft(tuned) /\ j \in tuned[2]))
           /\ r.ram.pv[j] = ram.pv[j] \/ r.ram.pv[j] = "own"
           /\ same => r.ram.pv[j] = ram.pv[j]
           /\ ~same /\ r.failed = 0 =>
                /\ IsWave(tuned) => r.ram.pv[j] = "own" /\ (j \notin limpLeft => r.ram.gain[j] = 3)
                /\ tuned # None /\ tuned[1] = "stretch" => r.ram.pv[j] = "own"
                /\ Tuning!IsSoft(tuned) /\ j \in tuned[2] /\ j \notin limpLeft => r.ram.gain[j] = 3
  <2>1. ram \in Rams /\ tuned \in Tuned
    BY DEF TuningTypes
  <2>2. CASE same
    <3>1. r \in Tuning!Outcomes(ram, <<>>)
      BY <2>2
    <3>2. r.ram \in Rams /\ r.failed = 0 /\ \A j \in Tuning!Joint : r.ram.gain[j] = ram.gain[j] /\ r.ram.pv[j] = ram.pv[j]
      BY <2>1, <3>1, NoWrites
    <3> QED BY <2>2, <3>2
  <2>3. CASE ~same
    <3>1. r \in Tuning!Outcomes(ram, Tuning!Release(tuned))
      BY <2>3
    <3> QED BY <2>1, <2>3, <3>1, Released
  <2> QED BY <2>2, <2>3
<1>9. /\ a.ram \in Rams /\ a.failed \in {0, 1}
      /\ \A j \in Tuning!Joint :
           /\ \/ a.ram.gain[j] = r.ram.gain[j]
              \/ ~same /\ j \notin limpLeft /\ IsWave(want) /\ a.ram.gain[j] = 4
              \/ ~same /\ j \notin limpLeft /\ Tuning!IsSoft(want) /\ j \in want[2] /\ a.ram.gain[j] = 1
           /\ \/ a.ram.pv[j] = r.ram.pv[j] \/ a.ram.pv[j] = "own"
              \/ IsWave(want) /\ j \in want[2] /\ a.ram.pv[j] = "fast"
              \/ want # None /\ want[1] = "stretch" /\ a.ram.pv[j] = "stretch"
           /\ ~same /\ a.failed = 0 /\ Tuning!IsSoft(want) /\ j \in want[2] /\ j \notin limpLeft => a.ram.gain[j] = 1
  <2>1. CASE same
    <3>1. a \in Tuning!Outcomes(r.ram, <<>>)
      BY <2>1
    <3>2. a.ram \in Rams /\ a.failed = 0 /\ \A j \in Tuning!Joint : a.ram.gain[j] = r.ram.gain[j] /\ a.ram.pv[j] = r.ram.pv[j]
      BY <1>8, <3>1, NoWrites
    <3> QED BY <2>1, <3>2
  <2>2. CASE ~same
    <3>1. a \in Tuning!Outcomes(r.ram, Tuning!Apply(want))
      BY <2>2
    <3> QED BY <1>5, <1>8, <2>2, <3>1, Applied
  <2> QED BY <2>1, <2>2
<1>10. PICK n, m : n = r.failed + a.failed /\ n \in Nat /\ (n = 0 => r.failed = 0 /\ a.failed = 0)
                   /\ m \in {0, 1} /\ Tuning!Fail(n + m)
                   /\ \/ ~(unable \/ refused) /\ UNCHANGED <<softReturn, scope, verdict, cut, asIs>>
                      \/ /\ unable \/ refused
                         /\ softReturn' = None /\ UNCHANGED <<scope, verdict>>
                         /\ \E c \in SUBSET soft : cut' = cut \cup c /\ asIs' = asIs \cup (soft \ c)
  <2>1. \A x, y \in {0, 1} : x + y \in Nat /\ (x + y = 0 => x = 0 /\ y = 0)
    OBVIOUS
  <2>2. r.failed + a.failed \in Nat /\ (r.failed + a.failed = 0 => r.failed = 0 /\ a.failed = 0)
    BY <1>8, <1>9, <2>1
  <2>3. CASE unable \/ refused
    <3>1. PICK c \in SUBSET soft : /\ softReturn' = None /\ UNCHANGED <<scope, verdict>>
                                   /\ cut' = cut \cup c /\ asIs' = asIs \cup (soft \ c)
                                   /\ Tuning!Fail(r.failed + a.failed + IF c = soft THEN 0 ELSE 1)
      BY <1>3, <2>3 DEF Tuning!CutTorque
    <3>2. (IF c = soft THEN 0 ELSE 1) \in {0, 1}
      OBVIOUS
    <3> HIDE DEF soft, unable, refused
    <3> QED BY <2>2, <2>3, <3>1, <3>2
  <2>4. CASE ~(unable \/ refused)
    <3>1. Tuning!Fail(r.failed + a.failed) /\ UNCHANGED <<softReturn, scope, verdict, cut, asIs>>
      BY <1>3, <2>4
    <3>2. \A x \in Nat : x + 0 = x
      OBVIOUS
    <3>3. Tuning!Fail(r.failed + a.failed + 0)
      BY <2>2, <3>1, <3>2
    <3> HIDE DEF soft, unable, refused
    <3> QED BY <2>2, <2>4, <3>1, <3>3
  <2> QED BY <2>3, <2>4
<1>11. faults' \in Nat /\ faults' <= MaxFaults /\ (faults' = 0 => faults = 0 /\ r.failed = 0 /\ a.failed = 0)
  <2>1. n + m \in Nat /\ faults \in Nat /\ (n + m = 0 => n = 0)
    BY <1>10 DEF TuningTypes
  <2> QED BY <1>10, <2>1, Failing
<1>12. /\ tuned' \in {want, None}
       /\ ~refused => tuned' = want
       /\ softReturn' \in {softReturn, None} /\ UNCHANGED <<scope, verdict>>
       /\ softReturn' # None => ~unable /\ ~refused /\ softReturn' = softReturn
  BY <1>3, <1>10
<1> DEFINE J == Tuning!Joint
<1> HIDE DEF soft, unable, same
<1>13. TuningTypes'
  <2>1. tuned' \in Tuned
    BY <1>5, <1>12 DEF Tuned
  <2>2. cut' \subseteq Leg /\ asIs' \subseteq Leg
    BY <1>4, <1>6, <1>10 DEF TuningTypes
  <2>3. softReturn' \in (SUBSET Leg) \cup {None} /\ scope' = scope /\ verdict' = verdict
    BY <1>12 DEF TuningTypes
  <2>4. overridden' \in BOOLEAN
    BY <1>1
  <2> QED BY <1>1, <1>3, <1>7, <1>9, <1>11, <2>1, <2>2, <2>3, <2>4 DEF TuningTypes
<1>14. Traceless'
  <2> SUFFICES ASSUME faults' = 0, NEW j \in J PROVE Clean(j)'
    BY DEF Traceless
  <2>1. Clean(j) /\ r.failed = 0 /\ a.failed = 0
    BY <1>11 DEF Traceless
  <2>2. tuned' = want
    BY <1>12, <2>1
  <2>3. j \in limpLeft => ram.gain[j] = 0 /\ ram'.gain[j] = 0
    BY <1>3, <1>8, <1>9, <2>1 DEF Clean, Tuning!ZeroGain
  <2>4. CASE same
    <3>1. ram'.gain[j] = ram.gain[j] /\ ram'.pv[j] \in {ram.pv[j], "own", "fast", "stretch"}
      BY <1>3, <1>8, <1>9, <2>4
    <3>2. ram'.pv[j] = "fast" => ram.pv[j] = "fast" \/ (IsWave(want) /\ j \in want[2])
      BY <1>3, <1>8, <1>9
    <3>3. ram'.pv[j] = "stretch" => ram.pv[j] = "stretch" \/ (want # None /\ want[1] = "stretch")
      BY <1>3, <1>8, <1>9
    <3>4. tuned' = tuned /\ want = tuned
      BY <2>2, <2>4 DEF same
    <3> QED BY <1>1, <1>7, <2>1, <2>3, <3>1, <3>2, <3>3, <3>4 DEF Clean, IsWave, Tuning!IsSoft, Tuning!ZeroGain
  <2>5. CASE ~same
    <3>1. ram'.gain[j] = 4 => IsWave(want)
      <4> SUFFICES ASSUME ram'.gain[j] = 4, ~IsWave(want) PROVE FALSE
        OBVIOUS
      <4>1. r.ram.gain[j] = 4 /\ ram.gain[j] = 4
        BY <1>3, <1>8, <1>9
      <4>2. IsWave(tuned) /\ j \notin limpLeft
        BY <2>1, <2>3, <4>1 DEF Clean, Tuning!WaveGain
      <4> QED BY <1>8, <2>1, <2>5, <4>1, <4>2
    <3>2. ram'.gain[j] = 1 => Tuning!IsSoft(want) /\ j \in want[2]
      <4> SUFFICES ASSUME ram'.gain[j] = 1, ~(Tuning!IsSoft(want) /\ j \in want[2]) PROVE FALSE
        OBVIOUS
      <4>1. r.ram.gain[j] = 1 /\ ram.gain[j] = 1
        BY <1>3, <1>8, <1>9
      <4>2. Tuning!IsSoft(tuned) /\ j \in tuned[2] /\ j \notin limpLeft
        BY <2>1, <2>3, <4>1 DEF Clean, Tuning!SoftGain
      <4> QED BY <1>8, <2>1, <2>5, <4>1, <4>2
    <3>3. ram'.pv[j] = "stretch" => want # None /\ want[1] = "stretch"
      <4> SUFFICES ASSUME ram'.pv[j] = "stretch", ~(want # None /\ want[1] = "stretch") PROVE FALSE
        OBVIOUS
      <4>1. r.ram.pv[j] = "stretch" /\ ram.pv[j] = "stretch"
        BY <1>3, <1>8, <1>9
      <4>2. tuned # None /\ tuned[1] = "stretch"
        BY <2>1, <4>1 DEF Clean
      <4> QED BY <1>8, <2>1, <2>5, <4>1, <4>2
    <3>4. ram'.pv[j] = "fast" => (neckTuned' /\ j \in Neck) \/ (IsWave(want) /\ j \in want[2])
      <4> SUFFICES ASSUME ram'.pv[j] = "fast", ~(IsWave(want) /\ j \in want[2]) PROVE neckTuned' /\ j \in Neck
        OBVIOUS
      <4>1. r.ram.pv[j] = "fast" /\ ram.pv[j] = "fast"
        BY <1>3, <1>8, <1>9
      <4>2. ~IsWave(tuned)
        BY <1>8, <2>1, <2>5, <4>1
      <4> QED BY <1>1, <2>1, <4>1, <4>2 DEF Clean
    <3> QED BY <1>1, <1>7, <2>2, <2>3, <3>1, <3>2, <3>3, <3>4
            DEF Clean, IsWave, Tuning!IsSoft, Tuning!ZeroGain, Tuning!WaveGain, Tuning!SoftGain
  <2> QED BY <2>4, <2>5
<1>15. Loosened'
  BY <1>1, <1>7 DEF Loosened
<1>16. Follows'
  <2>1. Tuning!IsSoft(tuned') => tuned' = want /\ Tuning!IsSoft(want)
    BY <1>12 DEF Tuning!IsSoft
  <2>2. softReturn' # None => softReturn # None /\ tuned' = <<"soft", softReturn'>>
    BY <1>6, <1>7, <1>12 DEF Follows
  <2>3. softReturn # None => SoftScope'
    BY <1>12 DEF Follows, SoftScope
  <2> QED BY <1>1, <1>6, <1>7, <2>1, <2>2, <2>3 DEF Follows
<1>17. LetDown'
  <2>1. motion \in Tuning!Soft => ~IsWave(tuned')
    BY <1>5, <1>12 DEF IsWave
  <2> QED BY <1>1, <1>7, <2>1 DEF LetDown
<1>18. ASSUME LegsHeld, softReturn # None, ~unable, ~refused, motion \in Tuning!Soft, ~same \/ ~overridden,
              NEW j \in softReturn
       PROVE  ram'.gain[j] <= 1
  <2>1. want = <<"soft", softReturn>> /\ Tuning!IsSoft(want) /\ want[2] = softReturn
    <3>1. want = <<"soft", softReturn>>
      BY <1>6, <1>18
    <3>2. softReturn \in SUBSET Leg
      BY <1>18 DEF TuningTypes
    <3>3. <<"soft", softReturn>> # None
      BY <3>2
    <3> QED BY <3>1, <3>3 DEF Tuning!IsSoft
  <2>2. j \in Leg /\ j \in J /\ j \notin limpLeft
    BY <1>18 DEF TuningTypes, ArmHeld, Tuning!Joint
  <2>3. CASE ~same
    <3>1. a.failed = 0
      BY <1>9, <1>18, <2>1 DEF refused
    <3> QED BY <1>3, <1>9, <2>1, <2>2, <2>3, <3>1
  <2>4. CASE same
    <3>1. ram'.gain[j] = ram.gain[j]
      BY <1>3, <1>8, <1>9, <2>2, <2>4
    <3>2. tuned = <<"soft", softReturn>>
      BY <2>1, <2>4 DEF same
    <3> QED BY <1>18, <2>4, <3>1, <3>2 DEF ArmHeld, Tuning!SoftGain
  <2> QED BY <2>3, <2>4
<1>19. ArmHeld'
  <2>1. LegsHeld => limp' \cup limpLeft' \subseteq Neck
    BY <1>1 DEF ArmHeld
  <2>2. ASSUME LegsHeld, softReturn' # None, ~overridden', NEW j \in softReturn' PROVE ram'.gain[j] <= 1
    <3>1. softReturn # None /\ ~unable /\ ~refused /\ softReturn' = softReturn
      BY <1>12, <2>2
    <3>2. motion \in Tuning!Soft
      BY <1>7, <3>1 DEF Follows
    <3>3. ~same \/ ~overridden
      BY <1>1, <2>2
    <3> QED BY <1>18, <2>2, <3>1, <3>2, <3>3
  <2> QED BY <2>1, <2>2 DEF ArmHeld, LegsHeld, Tuning!SoftGain
<1>20. Tuning!NoJointSnaps
  <2> SUFFICES ASSUME NEW j \in unheld, ram'.gain[j] > ram.gain[j] PROVE FALSE
    BY DEF Tuning!NoJointSnaps
  <2>1. j \in J /\ j \in limpLeft
    BY <1>7 DEF Loosened, TuningTypes
  <2>2. ram'.gain[j] = ram.gain[j]
    BY <1>3, <1>8, <1>9, <2>1
  <2>3. ram.gain[j] \in 0..4
    BY <2>1 DEF TuningTypes, Rams
  <2> QED BY <2>2, <2>3
<1>21. LegsHeld => Tuning!TrippedArmYields
  <2> SUFFICES ASSUME LegsHeld, softReturn # None, ~overridden, NEW j \in softReturn
               PROVE  ram'.gain[j] <= 1 \/ j \in cut' \cup asIs'
    BY DEF Tuning!TrippedArmYields, Tuning!SoftGain
  <2>1. motion \in Tuning!Soft
    BY <1>7 DEF Follows
  <2>2. CASE unable \/ refused
    <3>1. soft = softReturn
      BY <1>6, <2>2
    <3> QED BY <1>10, <2>2, <3>1
  <2>3. CASE ~unable /\ ~refused
    BY <1>18, <2>1, <2>3
  <2> QED BY <2>2, <2>3
<1>22. Tuning!SleepingNeckStaysDown
  <2> SUFFICES ASSUME asleep, NEW j \in Neck PROVE ram'.gain[j] <= ram.gain[j]
    BY DEF Tuning!SleepingNeckStaysDown
  <2>1. ~IsWave(tuned) /\ motion \in Tuning!Soft /\ ~IsWave(want)
    BY <1>5, <1>7 DEF LetDown
  <2>2. j \in J /\ j \notin Leg
    BY DEF Tuning!Joint
  <2>3. (Tuning!IsSoft(want) => want[2] \subseteq Leg) /\ (Tuning!IsSoft(tuned) => tuned[2] \subseteq Leg)
    BY <1>5, Kinds DEF TuningTypes
  <2>4. ram'.gain[j] = ram.gain[j]
    BY <1>3, <1>8, <1>9, <2>1, <2>2, <2>3
  <2>5. ram.gain[j] \in 0..4
    BY <2>2 DEF TuningTypes, Rams
  <2> QED BY <2>4, <2>5
<1>23. TuningMoves
  BY <1>7, <1>20, <1>21, <1>22 DEF TuningMoves, Tuning!HeldArmIsEased
<1> QED BY <1>13, <1>14, <1>15, <1>16, <1>17, <1>19, <1>23

LEMMA TuningStart == Tuning!Init => TuningInv
<1> SUFFICES ASSUME Tuning!Init PROVE TuningInv
  OBVIOUS
<1> USE TuningNames
<1>1. /\ caps \in Drivers /\ motion = "idle" /\ arm = {} /\ locked = FALSE
      /\ softReturn = None /\ scope = None /\ verdict = "go" /\ tuned = None /\ neckTuned = FALSE
      /\ cut = {} /\ asIs = {} /\ limpLeft = {} /\ limp = {} /\ unheld = {} /\ todo = <<>>
      /\ faults = 0 /\ asleep = FALSE /\ overridden = FALSE
  BY DEF Tuning!Init, Tuning!G!Init
<1>2. ram \in Rams /\ \A j \in Tuning!Joint : ram.gain[j] = 3 /\ ram.pv[j] = "own"
  BY DEF Tuning!Init, Tuning!Own, Tuning!OwnGain, Rams
<1>3. TuningTypes
  <2>1. tuned \in Tuned /\ todo \in Shapes /\ MaxFaults \in Nat
    BY <1>1, InList DEF Tuned
  <2>2. arm \in ArmOf[motion] /\ motion \in Motion
    BY <1>1
  <2>3. faults \in Nat /\ faults <= MaxFaults
    BY <1>1, <2>1
  <2> QED BY <1>1, <1>2, <2>1, <2>2, <2>3 DEF TuningTypes
<1>4. Traceless
  BY <1>1, <1>2 DEF Traceless, Clean, Tuning!WaveGain, Tuning!SoftGain, Tuning!ZeroGain
<1>5. Loosened /\ Follows /\ LetDown /\ ArmHeld
  BY <1>1, InList DEF Loosened, Follows, SoftScope, LetDown, ArmHeld, LegsHeld, Tuning!IsSoft, IsWave
<1> QED BY <1>3, <1>4, <1>5 DEF TuningInv

LEMMA TuningNext == ASSUME TuningInv, Tuning!Next PROVE TuningInv' /\ TuningMoves
<1>1. ASSUME NEW mo \in Motion, NEW ar \in ArmOf[mo], Tuning!SetMotion(mo, ar) PROVE TuningInv' /\ TuningMoves
  BY <1>1, TuningSetMotion DEF Tuning!Next
<1>2. ASSUME NEW names \in MayLimp, Tuning!Limp(names) PROVE TuningInv' /\ TuningMoves
  BY <1>2, TuningLimp DEF Tuning!Next
<1>3. ASSUME NEW g \in {2, 3}, Tuning!SetPGain(g) PROVE TuningInv' /\ TuningMoves
  BY <1>3, TuningSetPGain DEF Tuning!Next
<1>4. ASSUME Tuning!Step \/ Tuning!Sync \/ Tuning!SyncNeck \/ Tuning!ReturnToNeutral \/ Tuning!Settled \/ Tuning!Wake
      PROVE  TuningInv' /\ TuningMoves
  BY <1>4, TuningStep, TuningSync, TuningSyncNeck, TuningReturnToNeutral, TuningSettled, TuningWake DEF Tuning!Next
<1>5. ASSUME Tuning!Sleep \/ Tuning!Ramp \/ Tuning!Park \/ Tuning!Hold \/ Tuning!ExitLimp \/ Tuning!DanceEndHold \/ Tuning!Connect
      PROVE  TuningInv' /\ TuningMoves
  BY <1>5, TuningSleep, TuningRamp, TuningPark, TuningHold, TuningExitLimp, TuningDanceEndHold, TuningConnect DEF Tuning!Next
<1> QED BY <1>1, <1>2, <1>3, <1>4, <1>5 DEF Tuning!Next, Tuning!Call, Tuning!RestGain, Tuning!OwnGain

LEMMA TuningStutters ==
  ASSUME TuningInv, UNCHANGED tuningVars PROVE TuningInv'
<1> USE DEF tuningVars
<1>1. TuningTypes' /\ Traceless' /\ Loosened'
  BY DEF TuningInv, TuningTypes, Traceless, Clean, IsWave, Tuning!IsSoft, Loosened
<1>2. Follows' /\ LetDown' /\ ArmHeld'
  BY DEF TuningInv, Follows, SoftScope, Tuning!IsSoft, IsWave, LetDown, ArmHeld, LegsHeld
<1> QED BY <1>1, <1>2 DEF TuningInv

LEMMA TuningEnds ==
  ASSUME TuningInv
  PROVE  /\ Tuning!TypeOK /\ Tuning!TuningLeavesNoTrace
         /\ LegsHeld => Tuning!SoftReturnKeepsArmSoft
<1>1. Tuning!TypeOK
  BY TuningTyped DEF TuningInv
<1>2. Tuning!TuningLeavesNoTrace
  BY DEF TuningInv, Traceless, Clean, IsWave, Tuning!TuningLeavesNoTrace
<1>3. LegsHeld => Tuning!SoftReturnKeepsArmSoft
  <2> SUFFICES ASSUME LegsHeld, todo = <<>>, softReturn # None, ~overridden PROVE \A j \in softReturn : ram.gain[j] <= Tuning!SoftGain
    BY DEF Tuning!SoftReturnKeepsArmSoft, Tuning!Free
  <2>1. tuned = <<"soft", softReturn>>
    BY InList DEF TuningInv, Follows
  <2> QED BY <2>1 DEF TuningInv, ArmHeld
<1> QED BY <1>1, <1>2, <1>3

------------------------------------------------------------------------------
(* The registers: recursion                                                *)

(* A set of naturals has a least member: recursion over the bytes of a     *)
(* value and over the motors of the bus is argued from it.                 *)
Less == OpToRel(<, Nat)

LEMMA LessIs == ASSUME NEW x \in Nat, NEW y \in Nat PROVE <<x, y>> \in Less <=> x < y
  BY DEF Less, OpToRel

LEMMA LeastNumber ==
  ASSUME NEW numbers, numbers \subseteq Nat, numbers # {}
  PROVE  \E x \in numbers : \A y \in numbers : x <= y
<1>1. IsWellFoundedOn(Less, Nat)
  BY NatLessThanWellFounded DEF Less
<1>2. PICK x \in numbers : \A y \in numbers : ~(<<y, x>> \in Less)
  BY <1>1, WFMin
<1>3. ASSUME NEW y \in numbers PROVE x <= y
  <2>1. x \in Nat /\ y \in Nat /\ ~(<<y, x>> \in Less)
    BY <1>2
  <2> QED BY <2>1, LessIs
<1> QED BY <1>3

(* The n-th value of a recursion that starts with a.                       *)
Traced(f, a, step, n) == f[0] = a /\ \A i \in 1..n : f[i] = step[i][f[i - 1]]

LEMMA SomeTrace ==
  ASSUME NEW S, NEW a \in S, NEW step \in [Nat -> [S -> S]], NEW n \in Nat
  PROVE  \E f \in [0..n -> S] : Traced(f, a, step, n)
<1> DEFINE Bad == {k \in Nat : ~ \E f \in [0..k -> S] : Traced(f, a, step, k)}
<1> SUFFICES ASSUME Bad # {} PROVE FALSE
  OBVIOUS
<1>1. PICK k \in Bad : \A y \in Bad : k <= y
  BY LeastNumber
<1>2. CASE k = 0
  <2>1. [i \in 0..0 |-> a] \in [0..0 -> S] /\ Traced([i \in 0..0 |-> a], a, step, 0)
    BY DEF Traced
  <2> QED BY <1>1, <1>2, <2>1
<1>3. CASE k # 0
  <2>1. k - 1 \in Nat /\ k - 1 \notin Bad /\ k \in Nat
    BY <1>1, <1>3
  <2>2. PICK f \in [0..(k - 1) -> S] : Traced(f, a, step, k - 1)
    BY <2>1
  <2>3. PICK x \in S : x = step[k][f[k - 1]]
    <3>1. k - 1 \in 0..(k - 1) /\ f[k - 1] \in S
      BY <2>1, <2>2
    <3>2. step[k] \in [S -> S]
      BY <2>1
    <3> QED BY <3>1, <3>2
  <2> DEFINE h == [i \in 0..k |-> IF i = k THEN x ELSE f[i]]
  <2>4. h \in [0..k -> S]
    BY <2>1, <2>2
  <2>5. h[0] = a
    BY <2>1, <2>2, <1>3 DEF Traced
  <2>6. ASSUME NEW i \in 1..k PROVE h[i] = step[i][h[i - 1]]
    <3>1. i - 1 \in 0..k /\ i - 1 # k /\ i \in 0..k
      BY <2>1
    <3>2. h[i - 1] = f[i - 1]
      BY <3>1
    <3>3. CASE i = k
      BY <2>3, <3>1, <3>2, <3>3
    <3>4. CASE i # k
      <4>1. i \in 1..(k - 1) /\ h[i] = f[i]
        BY <2>1, <3>1, <3>4
      <4> QED BY <2>2, <3>2, <4>1 DEF Traced
    <3> QED BY <3>3, <3>4
  <2>7. Traced(h, a, step, k)
    <3> HIDE DEF h
    <3> QED BY <2>5, <2>6 DEF Traced
  <2> QED BY <1>1, <2>4, <2>7
<1> QED BY <1>2, <1>3

LEMMA SameTrace ==
  ASSUME NEW f, NEW g, NEW a, NEW step, NEW n \in Nat, NEW m \in Nat,
         Traced(f, a, step, n), Traced(g, a, step, m), NEW k \in Nat, k <= n, k <= m
  PROVE  f[k] = g[k]
<1> DEFINE Bad == {j \in 0..k : f[j] # g[j]}
<1> SUFFICES ASSUME Bad # {} PROVE FALSE
  OBVIOUS
<1>0. Bad \subseteq Nat
  OBVIOUS
<1>1. PICK i \in Bad : \A y \in Bad : i <= y
  <2> HIDE DEF Bad
  <2> QED BY <1>0, LeastNumber
<1>2. i # 0
  BY <1>1 DEF Traced
<1>3. i - 1 \in 0..k /\ i - 1 \notin Bad /\ i \in 1..n /\ i \in 1..m
  BY <1>1, <1>2
<1>4. f[i - 1] = g[i - 1]
  BY <1>3
<1> QED BY <1>1, <1>3, <1>4 DEF Traced

(* A recursion over the naturals has the function it describes.            *)
Recurs(f, S, a, step) == f \in [Nat -> S] /\ f[0] = a /\ \A i \in Nat \ {0} : f[i] = step[i][f[i - 1]]

LEMMA Recursion ==
  ASSUME NEW S, NEW a \in S, NEW step \in [Nat -> [S -> S]]
  PROVE  \E f : Recurs(f, S, a, step)
<1> DEFINE G(n) == CHOOSE g : g \in [0..n -> S] /\ Traced(g, a, step, n)
<1> DEFINE F == [n \in Nat |-> G(n)[n]]
<1>1. ASSUME NEW n \in Nat PROVE G(n) \in [0..n -> S] /\ Traced(G(n), a, step, n)
  BY SomeTrace, Zenon
<1>2. F[0] = a
  <2>1. F[0] = G(0)[0]
    OBVIOUS
  <2> QED BY <1>1, <2>1 DEF Traced
<1>3. ASSUME NEW n \in Nat \ {0} PROVE F[n] = step[n][F[n - 1]]
  <2>1. n - 1 \in Nat /\ n - 1 \in 0..n /\ n \in 1..n /\ n \in Nat /\ n - 1 <= n - 1 /\ n - 1 <= n
    OBVIOUS
  <2>2. Traced(G(n), a, step, n) /\ Traced(G(n - 1), a, step, n - 1)
    BY <1>1, <2>1
  <2>3. G(n)[n] = step[n][G(n)[n - 1]]
    BY <2>1, <2>2 DEF Traced
  <2>4. G(n)[n - 1] = G(n - 1)[n - 1]
    <3> HIDE DEF G
    <3> QED BY <2>1, <2>2, SameTrace
  <2>5. F[n] = G(n)[n] /\ F[n - 1] = G(n - 1)[n - 1]
    BY <2>1
  <2> HIDE DEF F, G
  <2> QED BY <2>3, <2>4, <2>5
<1>4. ASSUME NEW n \in Nat PROVE G(n)[n] \in S
  <2>1. G(n) \in [0..n -> S] /\ n \in 0..n
    BY <1>1
  <2> QED BY <2>1
<1>5. F \in [Nat -> S]
  <2> HIDE DEF G
  <2> QED BY <1>4
<1> HIDE DEF F
<1> QED BY <1>2, <1>3, <1>5 DEF Recurs

------------------------------------------------------------------------------
(* The registers: values and bytes                                         *)

LEMMA PowerIs ==
  ASSUME NEW n \in Nat
  PROVE  /\ Registers!Power[n] \in Nat \ {0} /\ Registers!Power[0] = 1
         /\ n # 0 => Registers!Power[n] = Base * Registers!Power[n - 1]
<1>0. Base \in Nat \ {0}
  BY RegistersConstants DEF Registers!RegistersAssumption
<1> DEFINE step == [i \in Nat |-> [x \in Nat \ {0} |-> Base * x]]
<1>1. step \in [Nat -> [Nat \ {0} -> Nat \ {0}]]
  <2>1. \A x \in Nat \ {0} : Base * x \in Nat \ {0}
    BY <1>0
  <2> QED BY <2>1
<1>2. PICK f \in [Nat -> Nat \ {0}] : f[0] = 1 /\ \A i \in Nat \ {0} : f[i] = step[i][f[i - 1]]
  <2>1. 1 \in Nat \ {0}
    OBVIOUS
  <2>2. PICK S : S = Nat \ {0}
    OBVIOUS
  <2>3. PICK one \in S : one = 1
    BY <2>1, <2>2
  <2> HIDE DEF step
  <2>4. step \in [Nat -> [S -> S]]
    BY <1>1, <2>2
  <2>5. \E f : Recurs(f, S, one, step)
    BY <2>3, <2>4, Recursion, Zenon
  <2> QED BY <2>2, <2>3, <2>5 DEF Recurs
<1>3. ASSUME NEW i \in Nat \ {0} PROVE f[i] = Base * f[i - 1]
  <2>1. i - 1 \in Nat /\ f[i - 1] \in Nat \ {0}
    BY <1>2
  <2>2. step[i][f[i - 1]] = Base * f[i - 1]
    BY <2>1
  <2> QED BY <1>2, <2>2
<1>4. f = [i \in Nat |-> IF i = 0 THEN 1 ELSE Base * f[i - 1]]
  BY <1>2, <1>3
<1>5. Registers!Power = [i \in Nat |-> IF i = 0 THEN 1 ELSE Base * Registers!Power[i - 1]]
  BY <1>4, Zenon DEF Registers!Power
<1>6. \A i \in Nat : Registers!Power[i] = f[i]
  <2> DEFINE Bad == {i \in Nat : Registers!Power[i] # f[i]}
  <2> SUFFICES ASSUME Bad # {} PROVE FALSE
    OBVIOUS
  <2>1. PICK i \in Bad : \A y \in Bad : i <= y
    BY LeastNumber
  <2>2. i # 0
    BY <1>2, <1>5, <2>1
  <2>3. i - 1 \in Nat /\ i - 1 \notin Bad /\ i \in Nat \ {0}
    BY <2>1, <2>2
  <2>4. Registers!Power[i] = Base * Registers!Power[i - 1]
    BY <1>5, <2>3
  <2> QED BY <1>3, <2>1, <2>3, <2>4
<1>7. n - 1 \in Nat \/ n = 0
  OBVIOUS
<1> QED BY <1>2, <1>5, <1>6

LEMMA PowerEven ==
  ASSUME NEW n \in Nat \ {0}
  PROVE  \E h \in Nat \ {0} : Registers!Power[n] = 2 * h /\ Registers!Power[n] \div 2 = h
<1>1. PICK p \in Nat \ {0} : p = Registers!Power[n - 1] /\ Registers!Power[n] = Base * p
  <2>1. n - 1 \in Nat /\ n \in Nat /\ n # 0
    OBVIOUS
  <2> QED BY <2>1, PowerIs
<1>2. PICK h \in Nat \ {0} : Base = 2 * h
  BY RegistersConstants DEF Registers!RegistersAssumption
<1>3. PICK q \in Nat \ {0} : q = h * p
  OBVIOUS
<1>4. Registers!Power[n] = 2 * q
  BY <1>1, <1>2, <1>3
<1> QED BY <1>4

(* Dividing by a power and by a byte is dividing by the next power.        *)
LEMMA Divided ==
  ASSUME NEW v \in Nat, NEW p \in Nat \ {0}, NEW c \in Nat \ {0}
  PROVE  /\ v \div (c * p) \in Nat
         /\ v \div p = c * (v \div (c * p)) + ((v \div p) % c)
<1>1. PICK q \in Nat : q = v \div p
  OBVIOUS
<1>2. PICK r \in Nat : r = v % p /\ r < p /\ v = p * q + r
  BY <1>1
<1>3. PICK s \in Nat : s = q \div c
  OBVIOUS
<1>4. PICK t \in Nat : t = q % c /\ t < c /\ q = c * s + t
  BY <1>3
<1>5. PICK n \in Nat \ {0} : n = c * p
  OBVIOUS
<1>6. PICK u \in Nat : u = p * t + r
  OBVIOUS
<1>7. v = n * s + u
  <2>1. p * q = p * (c * s) + p * t
    BY <1>4
  <2>2. p * (c * s) = (c * p) * s
    OBVIOUS
  <2>3. v = (c * p) * s + p * t + r
    BY <1>2, <2>1, <2>2
  <2> QED BY <1>5, <1>6, <2>3
<1>8. u < n
  <2>1. p * t <= p * (c - 1)
    <3>1. t <= c - 1 /\ c - 1 \in Nat
      BY <1>4
    <3> QED BY <3>1
  <2>2. p * (c - 1) = p * c - p
    OBVIOUS
  <2>3. p * c = n
    BY <1>5
  <2> QED BY <1>2, <1>6, <2>1, <2>2, <2>3
<1>9. v \div n = s
  <2>1. PICK w \in Nat : w = v \div n
    OBVIOUS
  <2>2. PICK z \in Nat : z < n /\ v = n * w + z
    BY <2>1
  <2>3. n * (s - w) = z - u
    <3>1. n * (s - w) = n * s - n * w
      OBVIOUS
    <3> QED BY <1>7, <2>2, <3>1
  <2>4. ~(s - w >= 1)
    <3> SUFFICES ASSUME s - w >= 1 PROVE FALSE
      OBVIOUS
    <3>1. n * (s - w) >= n
      OBVIOUS
    <3> QED BY <2>2, <2>3, <3>1
  <2>5. ~(s - w <= -1)
    <3> SUFFICES ASSUME s - w <= -1 PROVE FALSE
      OBVIOUS
    <3>1. n * (s - w) <= -n
      OBVIOUS
    <3> QED BY <1>8, <2>2, <2>3, <3>1
  <2> QED BY <2>1, <2>4, <2>5
<1>10. v \div (c * p) = s
  BY <1>5, <1>9
<1>11. (v \div p) % c = t
  BY <1>1, <1>4
<1>12. q = c * s + t
  BY <1>4
<1>13. v \div p = c * (v \div (c * p)) + ((v \div p) % c)
  BY ONLY <1>1, <1>10, <1>11, <1>12, Zenon
<1> QED BY <1>10, <1>13, Zenon

(* The number of some bytes is a sum of them, weighted by their places.    *)
LEMMA SumsAre ==
  ASSUME NEW bytes \in Seq(Int)
  PROVE  /\ Registers!Sums(bytes) \in [0..Len(bytes) -> Int] /\ Registers!Sums(bytes)[0] = 0
         /\ \A i \in 1..Len(bytes) :
              Registers!Sums(bytes)[i] = Registers!Sums(bytes)[i - 1] + bytes[i] * Registers!Power[i - 1]
<1>0. PICK n \in Nat : n = Len(bytes)
  BY LenProperties
<1>1. \A i \in 1..n : bytes[i] \in Int /\ i - 1 \in Nat /\ Registers!Power[i - 1] \in Int
  BY <1>0, PowerIs
<1> DEFINE step == [i \in Nat |-> [x \in Int |-> IF i \in 1..n THEN x + bytes[i] * Registers!Power[i - 1] ELSE x]]
<1>2. step \in [Nat -> [Int -> Int]]
  <2>1. \A i \in 1..n : bytes[i] * Registers!Power[i - 1] \in Int
    BY <1>1
  <2> QED BY <2>1
<1>3. PICK f : Recurs(f, Int, 0, step)
  <2> HIDE DEF step
  <2>1. 0 \in Int
    OBVIOUS
  <2> QED BY <1>2, <2>1, Recursion, Zenon
<1>4. f \in [Nat -> Int] /\ f[0] = 0
  BY <1>3 DEF Recurs
<1>5. ASSUME NEW i \in 1..n PROVE f[i] = f[i - 1] + bytes[i] * Registers!Power[i - 1]
  <2>1. i \in Nat \ {0} /\ i - 1 \in Nat /\ f[i - 1] \in Int
    BY <1>4
  <2>2. step[i][f[i - 1]] = f[i - 1] + bytes[i] * Registers!Power[i - 1]
    BY <2>1
  <2> QED BY <1>3, <2>1, <2>2 DEF Recurs
<1> DEFINE g == [i \in 0..n |-> f[i]]
<1>6. g = [i \in 0..n |-> IF i = 0 THEN 0 ELSE g[i - 1] + bytes[i] * Registers!Power[i - 1]]
  <2>1. ASSUME NEW i \in 0..n, i # 0 PROVE g[i] = g[i - 1] + bytes[i] * Registers!Power[i - 1]
    <3>1. i \in 1..n /\ i - 1 \in 0..n
      BY <2>1
    <3> QED BY <1>5, <3>1
  <2> QED BY <1>4, <2>1
<1> HIDE DEF g
<1>7. g = [i \in 0..Len(bytes) |-> IF i = 0 THEN 0 ELSE g[i - 1] + bytes[i] * Registers!Power[i - 1]]
  BY <1>0, <1>6, Zenon
<1> DEFINE sums == Registers!Sums(bytes)
<1>8. sums = [i \in 0..Len(bytes) |-> IF i = 0 THEN 0 ELSE sums[i - 1] + bytes[i] * Registers!Power[i - 1]]
  BY <1>7, Zenon DEF Registers!Sums
<1> HIDE DEF sums
<1>9. \A i \in 0..n : sums[i] = f[i]
  <2> DEFINE Bad == {i \in 0..n : sums[i] # f[i]}
  <2> SUFFICES ASSUME Bad # {} PROVE FALSE
    OBVIOUS
  <2>0. Bad \subseteq Nat
    OBVIOUS
  <2>1. PICK i \in Bad : \A y \in Bad : i <= y
    <3> HIDE DEF Bad
    <3> QED BY <2>0, LeastNumber
  <2>2. i # 0
    BY <1>0, <1>4, <1>8, <2>1
  <2>3. i - 1 \in 0..n /\ i - 1 \notin Bad /\ i \in 1..n /\ i \in 0..n
    BY <2>1, <2>2
  <2>4. sums[i] = sums[i - 1] + bytes[i] * Registers!Power[i - 1]
    BY <1>0, <1>8, <2>2, <2>3
  <2> QED BY <1>5, <2>1, <2>3, <2>4
<1>10. DOMAIN sums = 0..n
  BY <1>0, <1>8
<1>11. sums \in [0..n -> Int]
  <2>1. \A i \in 0..n : sums[i] \in Int
    BY <1>4, <1>9
  <2>2. sums = [i \in 0..n |-> sums[i]]
    <3> DEFINE h == [i \in 0..n |-> IF i = 0 THEN 0 ELSE sums[i - 1] + bytes[i] * Registers!Power[i - 1]]
    <3>1. sums = h
      BY <1>0, <1>8
    <3>2. h = [i \in 0..n |-> h[i]]
      OBVIOUS
    <3> HIDE DEF h
    <3> QED BY <3>1, <3>2
  <2> QED BY <2>1, <2>2
<1>12. sums[0] = 0 /\ \A i \in 1..n : sums[i] = sums[i - 1] + bytes[i] * Registers!Power[i - 1]
  <2>1. \A i \in 1..n : i \in 0..n /\ i - 1 \in 0..n
    OBVIOUS
  <2>2. 0 \in 0..n
    OBVIOUS
  <2> QED BY <1>4, <1>5, <1>9, <2>1, <2>2
<1> QED BY <1>0, <1>11, <1>12 DEF sums

(* Less than the divisor goes into it no time.                             *)
LEMMA SmallQuotient == ASSUME NEW v \in Nat, NEW p \in Nat \ {0}, v < p PROVE v \div p = 0
<1>1. PICK w \in Nat : w = v \div p
  OBVIOUS
<1>2. PICK z \in Nat : z < p /\ v = p * w + z
  <2>1. PICK r \in Nat : r = v % p /\ r < p /\ v = p * w + r
    BY <1>1
  <2> QED BY <2>1
<1>3. ~(w >= 1)
  <2> SUFFICES ASSUME w >= 1 PROVE FALSE
    OBVIOUS
  <2>1. p * w >= p
    OBVIOUS
  <2> QED BY <1>2, <2>1
<1> QED BY <1>1, <1>3

(* Little-endian, there and back (_dynamixel_bus.py's _serialize and       *)
(* slice_field).                                                           *)
LEMMA NumberOfBytes ==
  ASSUME NEW v \in Nat, NEW n \in Nat, v < Registers!Power[n], NEW bytes \in Seq(Int), Len(bytes) = n,
         \A i \in 1..n : bytes[i] = Registers!Serialize(v, n)[i]
  PROVE  Registers!Number(bytes) = v
<1> DEFINE sums == Registers!Sums(bytes)
<1> DEFINE P(i) == Registers!Power[i]
<1>0. sums \in [0..n -> Int] /\ sums[0] = 0 /\ \A i \in 1..n : sums[i] = sums[i - 1] + bytes[i] * P(i - 1)
  BY SumsAre
<1>1. Base \in Nat \ {0}
  BY RegistersConstants DEF Registers!RegistersAssumption
<1>2. \A i \in Nat : P(i) \in Nat \ {0} /\ (i # 0 => P(i) = Base * P(i - 1))
  BY PowerIs
<1>3. P(0) = 1
  BY PowerIs
<1>4. \A i \in 1..n : bytes[i] = (v \div P(i - 1)) % Base
  BY DEF Registers!Serialize
<1> HIDE DEF sums, P
<1> DEFINE Bad == {i \in 0..n : sums[i] + P(i) * (v \div P(i)) # v}
<1>5. Bad = {}
  <2> SUFFICES ASSUME Bad # {} PROVE FALSE
    OBVIOUS
  <2>0. Bad \subseteq Nat
    OBVIOUS
  <2>1. PICK i \in Bad : \A y \in Bad : i <= y
    <3> HIDE DEF Bad
    <3> QED BY <2>0, LeastNumber
  <2>2. i # 0
    <3>1. v \div 1 = v
      OBVIOUS
    <3>2. CASE i = 0
      <4>1. sums[i] = 0 /\ P(i) = 1
        BY <1>0, <1>3, <3>2
      <4>2. sums[i] + P(i) * (v \div P(i)) = v
        BY <3>1, <4>1
      <4> QED BY <2>1, <4>2
    <3> QED BY <3>2
  <2>3. i - 1 \in 0..n /\ i - 1 \notin Bad /\ i \in 1..n /\ i \in Nat /\ i - 1 \in Nat
    BY <2>1, <2>2
  <2>4. PICK p \in Nat \ {0} : p = P(i - 1) /\ P(i) = Base * p
    BY <1>2, <2>2, <2>3
  <2>5. PICK a \in Int : a = sums[i - 1]
    BY <1>0, <2>3
  <2>6. PICK w \in Nat : w = v \div (Base * p)
    BY <1>1, Divided
  <2>7. PICK b \in Int : b = (v \div p) % Base
    BY <1>1
  <2>8. v \div p = Base * w + b
    BY <1>1, <2>6, <2>7, Divided
  <2>9. a + p * (v \div p) = v
    BY <2>3, <2>4, <2>5
  <2>10. sums[i] = a + b * p
    BY <1>0, <1>4, <2>3, <2>4, <2>5, <2>7
  <2>11. p * (Base * w + b) = Base * p * w + b * p
    BY <1>1
  <2>12. a + b * p + Base * p * w = v
    BY <1>1, <2>8, <2>9, <2>11
  <2>13. sums[i] + P(i) * (v \div P(i)) = v
    BY <1>1, <2>4, <2>6, <2>10, <2>12
  <2> QED BY <2>1, <2>13
<1>6. sums[n] + P(n) * (v \div P(n)) = v
  BY <1>5
<1>7. v \div P(n) = 0
  <2>1. PICK p \in Nat \ {0} : p = P(n) /\ v < p
    BY <1>2 DEF P
  <2>2. v \div p = 0
    BY ONLY v \in Nat, p \in Nat \ {0}, <2>1, SmallQuotient
  <2> QED BY <2>1, <2>2
<1>8. sums[n] = v
  <2>1. n \in 0..n /\ sums[n] \in Int /\ P(n) \in Nat
    BY <1>0, <1>2
  <2> QED BY <1>6, <1>7, <2>1
<1> QED BY <1>8 DEF sums, Registers!Number

(* A value that a register can hold comes back as it was, negative too.    *)
LEMMA DecodeOfEncode ==
  ASSUME NEW r \in Registers!Registers, NEW v \in Registers!Values(r)
  PROVE  /\ Registers!Encode(r, v) \in Nat /\ Registers!Encode(r, v) < Registers!Power[Registers!Size(r)]
         /\ Registers!Decode(r, Registers!Encode(r, v)) = v
<1>1. Registers!Size(r) \in Nat \ {0}
  BY RegistersConstants DEF Registers!RegistersAssumption
<1>2. PICK p \in Nat \ {0}, h \in Nat \ {0} : p = Registers!Power[Registers!Size(r)] /\ p = 2 * h /\ p \div 2 = h
  <2>1. \E h \in Nat \ {0} : Registers!Power[Registers!Size(r)] = 2 * h /\ Registers!Power[Registers!Size(r)] \div 2 = h
    BY <1>1, PowerEven
  <2> QED BY <2>1
<1>3. CASE r \in Signed
  <2>1. v \in (-h)..(h - 1)
    BY <1>2, <1>3 DEF Registers!Values
  <2>2. Registers!Encode(r, v) = IF v >= 0 THEN v ELSE p + v
    BY <1>2, <1>3 DEF Registers!Encode, Registers!EncodeTwosComplement
  <2>3. PICK e \in Nat : e = Registers!Encode(r, v) /\ e < p /\ e = IF v >= 0 THEN v ELSE p + v
    BY <1>2, <2>1, <2>2
  <2>4. Registers!Decode(r, e) = IF 2 * e >= p THEN e - p ELSE e
    BY <1>2, <1>3 DEF Registers!Decode, Registers!DecodeTwosComplement
  <2>5. Registers!Decode(r, e) = v
    BY <1>2, <2>1, <2>3, <2>4
  <2> QED BY <1>2, <2>3, <2>5
<1>4. CASE r \notin Signed
  <2>1. v \in 0..(p - 1)
    BY <1>2, <1>4 DEF Registers!Values
  <2> QED BY <1>2, <1>4, <2>1 DEF Registers!Encode, Registers!Decode
<1> QED BY <1>3, <1>4

------------------------------------------------------------------------------
(* The registers: the sweep                                                *)

(* The order in which motors answer: each of them, once.                   *)
Roll(names, motors) ==
  /\ names \in Seq(motors)
  /\ \A m \in motors : \E i \in 1..Len(names) : names[i] = m
  /\ \A i, j \in 1..Len(names) : names[i] = names[j] => i = j

LEMMA RollGrows ==
  ASSUME NEW motors, NEW names, Roll(names, motors), NEW m, m \notin motors
  PROVE  Roll(Append(names, m), motors \cup {m})
<1> DEFINE more == motors \cup {m}
<1>1. names \in Seq(more) /\ m \in more
  BY SeqMonotonic DEF Roll
<1>2. PICK n \in Nat : n = Len(names)
  BY <1>1, LenProperties
<1>3. PICK longer : longer = Append(names, m)
  OBVIOUS
<1>4. /\ longer \in Seq(more) /\ Len(longer) = n + 1
      /\ \A i \in 1..n : longer[i] = names[i]
      /\ longer[n + 1] = m
  BY <1>1, <1>2, <1>3, AppendProperties
<1>5. \A i \in 1..n : names[i] \in motors /\ names[i] # m
  BY <1>2, ElementOfSeq DEF Roll
<1>6. ASSUME NEW x \in more PROVE \E i \in 1..(n + 1) : longer[i] = x
  <2>1. CASE x = m
    BY <1>4, <2>1
  <2>2. CASE x \in motors
    <3>1. PICK i \in 1..n : names[i] = x
      BY <1>2, <2>2 DEF Roll
    <3> QED BY <1>4, <3>1
  <2> QED BY <2>1, <2>2
<1>7. ASSUME NEW i \in 1..(n + 1), NEW j \in 1..(n + 1), longer[i] = longer[j] PROVE i = j
  <2>1. \A k \in 1..(n + 1) : k = n + 1 \/ k \in 1..n
    OBVIOUS
  <2>2. CASE i \in 1..n /\ j \in 1..n
    BY <1>2, <1>4, <1>7, <2>2 DEF Roll
  <2> QED BY <1>4, <1>5, <1>7, <2>1, <2>2
<1> QED BY <1>3, <1>4, <1>6, <1>7 DEF Roll

LEMMA KeptIs ==
  ASSUME NEW motors, NEW n \in Nat, n = Len(MotorOrder)
  PROVE  /\ Registers!Kept(motors)[0] = <<>>
         /\ \A i \in 1..n : Registers!Kept(motors)[i] =
              IF MotorOrder[i] \in motors THEN Append(Registers!Kept(motors)[i - 1], MotorOrder[i])
              ELSE Registers!Kept(motors)[i - 1]
<1>1. \A i \in 1..n : MotorOrder[i] \in Registers!Motors
  <2>1. MotorOrder \in Seq(Registers!Motors)
    BY RegistersConstants DEF Registers!RegistersAssumption
  <2> QED BY <2>1, ElementOfSeq
<1> DEFINE S == Seq(Registers!Motors)
<1> DEFINE next(i, s) == IF MotorOrder[i] \in motors THEN Append(s, MotorOrder[i]) ELSE s
<1> DEFINE step == [i \in Nat |-> [s \in S |-> IF i \in 1..n THEN next(i, s) ELSE s]]
<1>2. step \in [Nat -> [S -> S]]
  <2>1. ASSUME NEW i \in 1..n, NEW s \in S PROVE next(i, s) \in S
    BY <1>1, AppendProperties
  <2> HIDE DEF S, next
  <2> QED BY <2>1
<1>3. PICK f : Recurs(f, S, <<>>, step)
  <2>1. <<>> \in S
    OBVIOUS
  <2> HIDE DEF step, S
  <2> QED BY <1>2, <2>1, Recursion, Zenon
<1>4. f \in [Nat -> S] /\ f[0] = <<>>
  BY <1>3 DEF Recurs
<1>5. ASSUME NEW i \in 1..n PROVE f[i] = next(i, f[i - 1])
  <2> HIDE DEF next, S
  <2>1. i \in Nat \ {0} /\ i - 1 \in Nat /\ f[i - 1] \in S
    BY <1>4
  <2>2. step[i][f[i - 1]] = next(i, f[i - 1])
    BY <2>1
  <2> QED BY <1>3, <2>1, <2>2 DEF Recurs
<1> DEFINE g == [i \in 0..n |-> f[i]]
<1> HIDE DEF next
<1>6. g = [i \in 0..n |-> IF i = 0 THEN <<>> ELSE next(i, g[i - 1])]
  <2>1. ASSUME NEW i \in 0..n, i # 0 PROVE g[i] = next(i, g[i - 1])
    <3>1. i \in 1..n /\ i - 1 \in 0..n
      BY <2>1
    <3> QED BY <1>5, <3>1
  <2> QED BY <1>4, <2>1
<1> HIDE DEF g
<1> DEFINE kept == Registers!Kept(motors)
<1>7. kept = [i \in 0..n |-> IF i = 0 THEN <<>> ELSE next(i, kept[i - 1])]
  BY <1>6, Zenon DEF Registers!Kept, next
<1> HIDE DEF kept
<1>8. kept[0] = <<>> /\ \A i \in 1..n : kept[i] = next(i, kept[i - 1])
  <2>1. 0 \in 0..n /\ \A i \in 1..n : i \in 0..n /\ i # 0
    OBVIOUS
  <2> QED BY <1>7, <2>1
<1> QED BY <1>8 DEF kept, next

(* A sweep asks every motor of the request, once.                          *)
LEMMA SweepNamesAre ==
  ASSUME NEW motors, motors \subseteq Registers!Motors
  PROVE  Roll(Registers!SweepNames(motors), motors)
<1>0. MotorOrder \in Seq(Registers!Motors) /\ Registers!IsInjective(MotorOrder)
  BY RegistersConstants DEF Registers!RegistersAssumption
<1>1. PICK n \in Nat : n = Len(MotorOrder) /\ DOMAIN MotorOrder = 1..n
  BY <1>0, LenProperties
<1> DEFINE kept == Registers!Kept(motors)
<1> DEFINE Asked(i) == {m \in motors : \E j \in 1..i : MotorOrder[j] = m}
<1>2. kept[0] = <<>>
  BY <1>1, KeptIs
<1>3. \A i \in 1..n : kept[i] = IF MotorOrder[i] \in motors THEN Append(kept[i - 1], MotorOrder[i]) ELSE kept[i - 1]
  BY <1>1, KeptIs
<1> HIDE DEF kept
<1> DEFINE Bad == {i \in 0..n : ~Roll(kept[i], Asked(i))}
<1>4. Bad = {}
  <2> SUFFICES ASSUME Bad # {} PROVE FALSE
    OBVIOUS
  <2>0. Bad \subseteq Nat
    OBVIOUS
  <2>1. PICK i \in Bad : \A y \in Bad : i <= y
    <3> HIDE DEF Bad
    <3> QED BY <2>0, LeastNumber
  <2>2. i # 0
    <3>1. Asked(0) = {}
      OBVIOUS
    <3>2. Roll(<<>>, {})
      BY DEF Roll
    <3>3. CASE i = 0
      <4>1. Roll(kept[i], Asked(i))
        BY <1>2, <3>1, <3>2, <3>3
      <4> QED BY <2>1, <4>1
    <3> QED BY <3>3
  <2>3. i - 1 \in 0..n /\ i - 1 \notin Bad /\ i \in 1..n /\ i \in Nat
    <3>1. i \in 0..n
      BY <2>1
    <3>2. i - 1 \in 0..n /\ i \in 1..n /\ i \in Nat /\ ~(i <= i - 1)
      BY <2>2, <3>1
    <3> HIDE DEF Bad
    <3> QED BY <2>1, <3>2
  <2>4. Roll(kept[i - 1], Asked(i - 1))
    BY <2>3
  <2>5. \A j : j \in 1..i <=> j \in 1..(i - 1) \/ j = i
    BY <2>3
  <2>6. CASE MotorOrder[i] \in motors
    <3>1. Asked(i) = Asked(i - 1) \cup {MotorOrder[i]}
      BY <2>5, <2>6
    <3>2. MotorOrder[i] \notin Asked(i - 1)
      <4>1. \A j \in 1..(i - 1) : j \in 1..n /\ j # i
        BY <2>3
      <4> QED BY <1>0, <1>1, <2>3, <4>1 DEF Registers!IsInjective
    <3>3. kept[i] = Append(kept[i - 1], MotorOrder[i])
      BY <1>3, <2>3, <2>6
    <3>4. Roll(Append(kept[i - 1], MotorOrder[i]), Asked(i - 1) \cup {MotorOrder[i]})
      <4> HIDE DEF Asked
      <4> QED BY <2>4, <3>2, RollGrows, Zenon
    <3> HIDE DEF Asked
    <3> QED BY <2>1, <3>1, <3>3, <3>4
  <2>7. CASE MotorOrder[i] \notin motors
    <3>1. Asked(i) = Asked(i - 1)
      BY <2>5, <2>7
    <3>2. kept[i] = kept[i - 1]
      BY <1>3, <2>3, <2>7
    <3> HIDE DEF Asked
    <3> QED BY <2>1, <2>4, <3>1, <3>2
  <2> QED BY <2>6, <2>7
<1>5. Roll(kept[n], Asked(n))
  <2>1. n \in 0..n /\ n \notin Bad
    BY <1>4
  <2> HIDE DEF Asked
  <2> QED BY <2>1
<1>6. Asked(n) = motors
  <2>1. ASSUME NEW m \in motors PROVE \E j \in 1..n : MotorOrder[j] = m
    BY <1>1 DEF Registers!Motors, Registers!ToSet
  <2> QED BY <2>1
<1> QED BY <1>1, <1>5, <1>6 DEF kept, Registers!SweepNames

LEMMA MinIs ==
  ASSUME NEW S, S \subseteq Nat, S # {}
  PROVE  Registers!Min(S) \in S /\ \A y \in S : Registers!Min(S) <= y
<1>1. \E x \in S : \A y \in S : x <= y
  BY LeastNumber
<1> QED BY <1>1 DEF Registers!Min

LEMMA MaxIs ==
  ASSUME NEW top \in Nat, NEW S, S \subseteq 0..top, S # {}
  PROVE  Registers!Max(S) \in S /\ \A y \in S : Registers!Max(S) >= y
<1> DEFINE T == {x \in 0..top : top - x \in S}
<1>1. T \subseteq Nat /\ T # {}
  <2>1. PICK y \in 0..top : y \in S
    OBVIOUS
  <2>2. top - y \in 0..top /\ top - (top - y) = y
    OBVIOUS
  <2> QED BY <2>1, <2>2
<1>2. PICK x \in T : \A y \in T : x <= y
  <2> HIDE DEF T
  <2> QED BY <1>1, LeastNumber
<1>3. ASSUME NEW y \in S PROVE top - x >= y
  <2>1. PICK z \in 0..top : z = top - y /\ top - z = y
    OBVIOUS
  <2> QED BY <1>2, <2>1
<1>4. \E m \in S : \A y \in S : m >= y
  BY <1>2, <1>3
<1> QED BY <1>4 DEF Registers!Max

(* The span of a request covers the bytes of its registers, and no byte    *)
(* that is not in the control table.                                       *)
LEMMA SpanIs ==
  ASSUME NEW fields, fields \subseteq Registers!Registers, fields # {}
  PROVE  /\ Registers!SpanOf(fields).start \in Nat /\ Registers!SpanOf(fields).length \in Nat \ {0}
         /\ \A r \in fields :
              /\ Registers!SpanOf(fields).start <= Registers!Address(r)
              /\ Registers!Address(r) + Registers!Size(r) <=
                   Registers!SpanOf(fields).start + Registers!SpanOf(fields).length
         /\ Registers!SpanOf(fields).start + Registers!SpanOf(fields).length <= Memory
<1>1. /\ Memory \in Nat
      /\ \A r \in fields : /\ Registers!Address(r) \in Nat /\ Registers!Size(r) \in Nat \ {0}
                           /\ Registers!Address(r) + Registers!Size(r) <= Memory
  BY RegistersConstants DEF Registers!RegistersAssumption
<1> DEFINE starts == {Registers!Address(r) : r \in fields}
<1> DEFINE ends == {Registers!Address(r) + Registers!Size(r) : r \in fields}
<1>2. PICK low \in Nat : low = Registers!Min(starts) /\ \A y \in starts : low <= y
  <2>1. starts \subseteq Nat /\ starts # {}
    BY <1>1
  <2> HIDE DEF starts
  <2> QED BY <2>1, MinIs
<1>3. PICK high \in ends : high = Registers!Max(ends) /\ \A y \in ends : high >= y
  <2>1. ends \subseteq 0..Memory /\ ends # {}
    BY <1>1
  <2> HIDE DEF ends
  <2> QED BY <1>1, <2>1, MaxIs
<1>4. \A r \in fields : low <= Registers!Address(r) /\ Registers!Address(r) + Registers!Size(r) <= high
  BY <1>1, <1>2, <1>3
<1>5. high \in Nat /\ high <= Memory /\ low < high
  BY <1>1, <1>3, <1>4
<1>6. Registers!SpanOf(fields) = [start |-> low, length |-> high - low]
  BY <1>2, <1>3, Zenon DEF Registers!SpanOf
<1> QED BY <1>4, <1>5, <1>6

(* The members of a sequence at some places.                               *)
Part(names, i, j) == {names[k] : k \in i..j}

LEMMA PartOfSeq ==
  ASSUME NEW S, NEW names \in Seq(S), NEW i \in 1..(Len(names) + 1), NEW j \in 0..Len(names)
  PROVE  /\ Registers!ToSet(SubSeq(names, i, j)) = Part(names, i, j)
         /\ Len(SubSeq(names, i, j)) = IF i <= j THEN j - i + 1 ELSE 0
<1>1. PICK n \in Nat : n = Len(names) /\ i \in 1..(n + 1) /\ j \in 0..n
  BY LenProperties
<1>2. \A k \in i..j : names[k] \in S
  BY <1>1, ElementOfSeq
<1>3. PICK s : s = SubSeq(names, i, j)
  OBVIOUS
<1>4. s \in Seq(S) /\ Len(s) = (IF i <= j THEN j - i + 1 ELSE 0) /\ \A k \in 1..(j - i + 1) : s[k] = names[i + k - 1]
  BY <1>1, <1>2, <1>3, SubSeqProperties
<1>5. DOMAIN s = 1..Len(s)
  BY <1>4, LenProperties
<1>6. DOMAIN s = 1..(j - i + 1)
  BY <1>1, <1>4, <1>5
<1>7. \A k \in i..j : k - i + 1 \in 1..(j - i + 1) /\ s[k - i + 1] = names[k]
  BY <1>1, <1>4
<1>8. \A k \in 1..(j - i + 1) : i + k - 1 \in i..j
  BY <1>1
<1>9. {s[k] : k \in DOMAIN s} = {names[k] : k \in i..j}
  <2>1. ASSUME NEW k \in DOMAIN s PROVE \E l \in i..j : s[k] = names[l]
    BY <1>4, <1>6, <1>8
  <2>2. ASSUME NEW l \in i..j PROVE \E k \in DOMAIN s : s[k] = names[l]
    <3>1. l - i + 1 \in 1..(j - i + 1) /\ s[l - i + 1] = names[l]
      BY <1>7
    <3>2. PICK k : k = l - i + 1
      OBVIOUS
    <3> QED BY <1>6, <3>1, <3>2
  <2> DEFINE D == DOMAIN s
  <2>3. \A k \in D : \E l \in i..j : s[k] = names[l]
    BY <2>1
  <2>4. \A l \in i..j : \E k \in D : s[k] = names[l]
    BY <2>2
  <2> HIDE DEF D
  <2> DEFINE A == {s[k] : k \in D}
             B == {names[l] : l \in i..j}
  <2>5. ASSUME NEW x \in A PROVE x \in B
    <3>1. PICK k \in D : x = s[k]
      OBVIOUS
    <3>2. PICK l \in i..j : s[k] = names[l]
      BY ONLY <2>3, <3>1
    <3> QED BY ONLY <3>1, <3>2
  <2>6. ASSUME NEW x \in B PROVE x \in A
    <3>1. PICK l \in i..j : x = names[l]
      OBVIOUS
    <3>2. PICK k \in D : s[k] = names[l]
      BY ONLY <2>4, <3>1
    <3> QED BY ONLY <3>1, <3>2
  <2> HIDE DEF A, B
  <2>7. A = B
    BY ONLY <2>5, <2>6
  <2> QED BY <2>7 DEF A, B, D
<1> QED BY <1>3, <1>4, <1>9 DEF Registers!ToSet, Part

(* A field of a buffer is made of the bytes at its address.                *)
MadeOf(buffer, start, r, bytes) ==
  /\ bytes \in Seq(Int) /\ Len(bytes) = Registers!Size(r)
  /\ \A i \in 1..Registers!Size(r) : bytes[i] = buffer[Registers!Address(r) - start + i]
  /\ Registers!SliceField(buffer, start, r) = Registers!Decode(r, Registers!Number(bytes))

LEMMA FieldIs ==
  ASSUME NEW start \in Nat, NEW length \in Nat, NEW buffer \in Seq(Int), Len(buffer) = length,
         NEW r \in Registers!Registers, start <= Registers!Address(r),
         Registers!Address(r) + Registers!Size(r) <= start + length
  PROVE  \E bytes : MadeOf(buffer, start, r, bytes)
<1>1. PICK x \in Nat, n \in Nat \ {0} : x = Registers!Address(r) /\ n = Registers!Size(r)
  BY RegistersConstants DEF Registers!RegistersAssumption
<1>2. PICK off \in Nat : off = x - start /\ off + n <= length
  BY <1>1
<1>3. \A i \in (off + 1)..(off + n) : buffer[i] \in Int
  BY <1>2, ElementOfSeq
<1>4. PICK bytes : bytes = SubSeq(buffer, off + 1, off + n)
  OBVIOUS
<1>5. bytes \in Seq(Int) /\ Len(bytes) = n /\ \A i \in 1..n : bytes[i] = buffer[off + i]
  <2>0. PICK f \in Nat : f = off + 1
    OBVIOUS
  <2>1. PICK t \in Nat : t = off + n /\ t - f + 1 = n /\ f <= t
    BY <1>1, <2>0
  <2>2. /\ SubSeq(buffer, f, t) \in Seq(Int)
        /\ Len(SubSeq(buffer, f, t)) = IF f <= t THEN t - f + 1 ELSE 0
        /\ \A i \in 1..(t - f + 1) : SubSeq(buffer, f, t)[i] = buffer[f + i - 1]
    BY <1>3, <2>0, <2>1, SubSeqProperties
  <2>3. \A i \in 1..n : f + i - 1 = off + i
    BY <2>0
  <2> QED BY <1>4, <2>0, <2>1, <2>2, <2>3
<1>6. Registers!SliceField(buffer, start, r) = Registers!Decode(r, Registers!Number(bytes))
  BY <1>1, <1>2, <1>4, Zenon DEF Registers!SliceField
<1> QED BY <1>1, <1>2, <1>5, <1>6 DEF MadeOf

(* Where the reader stops: at the first quiet motor, behind all the motors *)
(* that it has read.                                                       *)
Blocked(names, quiet, n, i) == \E k \in 1..n : names[k] \in quiet /\ ~ \E j \in 1..(k - 1) : names[j] = names[i]

StopsAt(names, quiet, short, n, stop) ==
  /\ stop \in 1..(n + 1)
  /\ \A i \in 1..n : i < stop => i \notin short /\ names[i] \notin quiet
  /\ stop <= n => names[stop] \in quiet

LEMMA StopIs ==
  ASSUME NEW motors, NEW names, Roll(names, motors), NEW n \in Nat, n = Len(names), NEW quiet,
         NEW short, short \subseteq 1..n, \A i \in 1..n : i \in short <=> Blocked(names, quiet, n, i),
         NEW stop, stop = IF short = {} THEN n + 1 ELSE Registers!Min(short)
  PROVE  StopsAt(names, quiet, short, n, stop)
<1>1. \A i \in 1..n : i \in short <=> \E k \in 1..n : names[k] \in quiet /\ k <= i
  <2>1. ASSUME NEW i \in 1..n, NEW k \in 1..n PROVE (\E j \in 1..(k - 1) : names[j] = names[i]) <=> i < k
    <3>1. \A j \in 1..(k - 1) : j \in 1..n /\ (names[j] = names[i] => j = i)
      BY DEF Roll
    <3>2. i < k => i \in 1..(k - 1)
      OBVIOUS
    <3> QED BY <3>1, <3>2
  <2>2. \A i \in 1..n, k \in 1..n : ~(i < k) <=> k <= i
    OBVIOUS
  <2> QED BY <2>1, <2>2 DEF Blocked
<1>2. CASE short = {}
  <2>1. \A i \in 1..n : names[i] \notin quiet
    <3>1. \A i \in 1..n : i <= i /\ i \notin short
      BY <1>2
    <3> QED BY <1>1, <3>1
  <2> QED BY <1>2, <2>1 DEF StopsAt
<1>3. CASE short # {}
  <2>1. stop \in short /\ \A y \in short : stop <= y
    <3>1. short \subseteq Nat
      OBVIOUS
    <3> QED BY <1>3, <3>1, MinIs
  <2>2. stop \in 1..n
    BY <2>1
  <2>3. PICK k \in 1..n : names[k] \in quiet /\ k <= stop
    BY <1>1, <2>1, <2>2
  <2>4. k = stop
    <3>0. k \in 1..n
      BY <2>3
    <3>1. k <= k
      BY <3>0
    <3>2. k \in short
      BY ONLY <1>1, <2>3, <3>0, <3>1, Zenon
    <3>3. stop <= k
      BY <2>1, <3>2, Zenon
    <3> QED BY <2>2, <2>3, <3>0, <3>3
  <2>5. ASSUME NEW i \in 1..n, i < stop PROVE i \notin short /\ names[i] \notin quiet
    <3>0. ~(stop <= i)
      BY <2>2, <2>5
    <3>1. i \notin short
      BY <2>1, <3>0, Zenon
    <3>2. i <= i /\ i \in 1..n
      OBVIOUS
    <3> QED BY ONLY <1>1, <3>1, <3>2, Zenon
  <2>6. stop \in 1..(n + 1) /\ names[stop] \in quiet
    BY <2>2, <2>3, <2>4
  <2>7. stop \in 1..(n + 1)
    BY <2>2
  <2> QED BY <2>5, <2>6, <2>7, Zenon DEF StopsAt
<1> QED BY <1>2, <1>3

(* What a sweep reports: a motor that answered, the first that did not,    *)
(* and the rest.                                                           *)
Fair(read) ==
  /\ Registers!ToSet(read.silent) \subseteq read.quiet /\ Len(read.silent) <= 1
  /\ DOMAIN read.values \cup Registers!ToSet(read.silent) \cup Registers!ToSet(read.unreached) = read.asked
  /\ DOMAIN read.values \cap (read.quiet \cup Registers!ToSet(read.unreached)) = {}

LEMMA BlamesTheQuiet ==
  ASSUME NEW motors, NEW names, Roll(names, motors), NEW n \in Nat, n = Len(names), NEW quiet, NEW stop \in 1..(n + 1),
         \A i \in 1..n : i < stop => names[i] \notin quiet, stop <= n => names[stop] \in quiet,
         NEW read, DOMAIN read.values = Part(names, 1, stop - 1),
         read.silent = SubSeq(names, stop, Registers!Min({stop, n})), read.unreached = SubSeq(names, stop + 1, n),
         read.asked = motors, read.quiet = quiet
  PROVE  Fair(read)
<1>1. names \in Seq(motors)
  BY DEF Roll
<1>2. PICK last \in 0..n : last = Registers!Min({stop, n}) /\ last = IF stop <= n THEN stop ELSE n
  <2>1. {stop, n} \subseteq Nat /\ {stop, n} # {}
    OBVIOUS
  <2>2. Registers!Min({stop, n}) \in {stop, n} /\ \A y \in {stop, n} : Registers!Min({stop, n}) <= y
    BY <2>1, MinIs
  <2> QED BY <2>2
<1>3. Registers!ToSet(read.silent) = Part(names, stop, last) /\ Len(read.silent) = IF stop <= last THEN last - stop + 1 ELSE 0
  <2>1. stop \in 1..(Len(names) + 1) /\ last \in 0..Len(names)
    BY <1>2
  <2>2. read.silent = SubSeq(names, stop, last)
    BY <1>2
  <2>3. PICK a, b : a = stop /\ b = last
    OBVIOUS
  <2>4. a \in 1..(Len(names) + 1) /\ b \in 0..Len(names)
    BY <2>1, <2>3
  <2>5. /\ Registers!ToSet(SubSeq(names, a, b)) = Part(names, a, b)
        /\ Len(SubSeq(names, a, b)) = IF a <= b THEN b - a + 1 ELSE 0
    BY ONLY <1>1, <2>4, PartOfSeq
  <2> QED BY <2>2, <2>3, <2>5
<1>4. Registers!ToSet(read.unreached) = Part(names, stop + 1, n)
  <2>1. CASE stop <= n
    <3>1. stop + 1 \in 1..(Len(names) + 1) /\ n \in 0..Len(names)
      BY <2>1
    <3> QED BY <1>1, <3>1, PartOfSeq, Zenon
  <2>2. CASE stop = n + 1
    <3>1. stop + 1 \in Int /\ n < stop + 1 /\ (stop + 1)..n = {}
      BY <2>2
    <3>2. read.unreached = <<>>
      BY <3>1, SubSeqEmpty
    <3> QED BY <3>1, <3>2 DEF Registers!ToSet, Part
  <2> QED BY <2>1, <2>2
<1>5. {names[k] : k \in 1..n} = motors
  <2>1. \A k \in 1..n : names[k] \in motors
    BY <1>1, ElementOfSeq
  <2> QED BY <2>1 DEF Roll
<1>6. \A k \in stop..last : k = stop /\ stop <= n
  BY <1>2
<1>7. Registers!ToSet(read.silent) \subseteq quiet /\ Len(read.silent) <= 1
  <2>1. Len(read.silent) <= 1
    BY <1>2, <1>3
  <2> QED BY <1>3, <1>6, <2>1 DEF Part
<1>8. DOMAIN read.values \cup Registers!ToSet(read.silent) \cup Registers!ToSet(read.unreached) = motors
  <2>1. \A k : k \in 1..n <=> k \in 1..(stop - 1) \/ k \in stop..last \/ k \in (stop + 1)..n
    BY <1>2
  <2> QED BY <1>3, <1>4, <1>5, <2>1 DEF Part
<1>9. \A k \in 1..(stop - 1) : k \in 1..n /\ k < stop /\ k \notin (stop + 1)..n
  OBVIOUS
<1>10. \A k \in 1..(stop - 1), l \in (stop + 1)..n : names[k] # names[l]
  <2>1. \A k \in 1..(stop - 1), l \in (stop + 1)..n : k \in 1..n /\ l \in 1..n /\ k # l
    OBVIOUS
  <2> QED BY <2>1 DEF Roll
<1>11. DOMAIN read.values \cap (quiet \cup Registers!ToSet(read.unreached)) = {}
  BY <1>4, <1>9, <1>10 DEF Part
<1> QED BY <1>7, <1>8, <1>11 DEF Fair

(* The bytes of a register hold a value of the register, the one that was  *)
(* written last.                                                           *)
RegTypes ==
  /\ memory \in [Registers!Motors -> [Registers!Room -> Int]]
  /\ written \in [Registers!Motors -> [Registers!Registers -> Int]]
  /\ \A m \in Registers!Motors, r \in Registers!Registers :
       /\ written[m][r] \in Registers!Values(r)
       /\ \A i \in 1..Registers!Size(r) :
            memory[m][Registers!Address(r) + i - 1] =
              Registers!Serialize(Registers!Encode(r, written[m][r]), Registers!Size(r))[i]

LEMMA SeqOf == ASSUME NEW S, NEW n \in Nat, NEW f \in [1..n -> S] PROVE f \in Seq(S) /\ Len(f) = n
<1>1. f \in Seq(S)
  OBVIOUS
<1>2. DOMAIN f = 1..n /\ DOMAIN f = 1..Len(f) /\ Len(f) \in Nat
  BY <1>1, LenProperties
<1> QED BY <1>1, <1>2

(* The buffer of a motor that was reached is what its memory holds.        *)
LEMMA BufferIs ==
  ASSUME RegTypes, NEW m \in Registers!Motors, NEW fields, fields \subseteq Registers!Registers, fields # {},
         NEW buffer, buffer = [i \in 1..Registers!SpanOf(fields).length |-> memory[m][Registers!SpanOf(fields).start + i - 1]]
  PROVE  /\ buffer \in Seq(Int) /\ Len(buffer) = Registers!SpanOf(fields).length
         /\ \A r \in fields : Registers!SliceField(buffer, Registers!SpanOf(fields).start, r) = written[m][r]
<1>1. PICK start \in Nat, length \in Nat \ {0} :
        /\ start = Registers!SpanOf(fields).start /\ length = Registers!SpanOf(fields).length
        /\ start + length <= Memory
        /\ \A r \in fields : /\ start <= Registers!Address(r)
                             /\ Registers!Address(r) + Registers!Size(r) <= start + length
  BY SpanIs
<1>2. \A i \in 1..length : start + i - 1 \in Registers!Room
  <2>1. Memory \in Nat
    BY RegistersConstants DEF Registers!RegistersAssumption
  <2> QED BY <1>1, <2>1 DEF Registers!Room
<1>3. buffer = [i \in 1..length |-> memory[m][start + i - 1]]
  BY <1>1
<1>4. memory[m] \in [Registers!Room -> Int]
  BY DEF RegTypes
<1>5. buffer \in Seq(Int) /\ Len(buffer) = length /\ \A i \in 1..length : buffer[i] = memory[m][start + i - 1]
  <2>1. \A i \in 1..length : memory[m][start + i - 1] \in Int
    BY <1>2, <1>4
  <2>2. buffer \in [1..length -> Int]
    BY <1>3, <2>1
  <2>3. length \in Nat
    OBVIOUS
  <2>4. buffer \in Seq(Int) /\ Len(buffer) = length
    BY ONLY <2>2, <2>3, SeqOf, Zenon
  <2> QED BY <1>3, <2>4
<1>6. ASSUME NEW r \in fields PROVE Registers!SliceField(buffer, start, r) = written[m][r]
  <2>1. r \in Registers!Registers
    OBVIOUS
  <2>2. PICK x \in Nat : x = Registers!Address(r)
    BY <2>1, RegistersConstants DEF Registers!RegistersAssumption
  <2>3. PICK n \in Nat \ {0} : n = Registers!Size(r) /\ start <= x /\ x + n <= start + length
    BY <1>1, <2>1, <2>2, RegistersConstants DEF Registers!RegistersAssumption
  <2>4. PICK bytes \in Seq(Int) :
          /\ Len(bytes) = n
          /\ \A i \in 1..n : bytes[i] = buffer[x - start + i]
          /\ Registers!SliceField(buffer, start, r) = Registers!Decode(r, Registers!Number(bytes))
    <3>1. start <= Registers!Address(r) /\ Registers!Address(r) + Registers!Size(r) <= start + length
      BY <1>1
    <3>2. \E bytes : MadeOf(buffer, start, r, bytes)
      <4>1. length \in Nat /\ start \in Nat
        OBVIOUS
      <4>2. buffer \in Seq(Int) /\ Len(buffer) = length
        BY <1>5
      <4> QED BY ONLY <2>1, <3>1, <4>1, <4>2, FieldIs, Zenon
    <3> QED BY <2>2, <2>3, <3>2 DEF MadeOf
  <2>5. PICK v \in Registers!Values(r) : v = written[m][r]
    BY <2>1 DEF RegTypes
  <2>6. PICK e : e = Registers!Encode(r, v)
    OBVIOUS
  <2>7. e \in Nat /\ e < Registers!Power[n] /\ Registers!Decode(r, e) = v
    BY <2>1, <2>3, <2>6, DecodeOfEncode
  <2>8. \A i \in 1..n : bytes[i] = Registers!Serialize(e, n)[i]
    <3>1. \A i \in 1..n : memory[m][x + i - 1] = Registers!Serialize(e, n)[i]
      BY <2>1, <2>2, <2>3, <2>5, <2>6 DEF RegTypes
    <3>2. ASSUME NEW i \in 1..n PROVE bytes[i] = memory[m][x + i - 1]
      <4>1. x - start + i \in 1..length /\ start + (x - start + i) - 1 = x + i - 1
        <5>1. start <= x /\ x + n <= start + length
          BY <2>3
        <5> QED BY <5>1
      <4>2. PICK k \in 1..length : k = x - start + i
        BY <4>1
      <4>3. bytes[i] = buffer[k]
        BY <2>4, <4>2
      <4>4. buffer[k] = memory[m][start + k - 1]
        BY <1>5
      <4> QED BY <4>1, <4>2, <4>3, <4>4
    <3> QED BY <3>1, <3>2
  <2>9. Registers!Number(bytes) = e
    BY <2>3, <2>4, <2>7, <2>8, NumberOfBytes
  <2> QED BY <2>4, <2>5, <2>7, <2>9
<1> QED BY <1>1, <1>5, <1>6

RegInv == RegTypes /\ Registers!OnlyTheQuietAreBlamed

(* What a sweep leaves behind: blame where it is due, and of each motor    *)
(* that answered what was written to it.                                   *)
LEMMA SweepReports ==
  ASSUME RegTypes, NEW motors, motors \subseteq Registers!Motors,
         NEW fields, fields \subseteq Registers!Registers, fields # {}, NEW quiet,
         Registers!SyncReadSpan(motors, fields, quiet)
  PROVE  /\ Registers!OnlyTheQuietAreBlamed'
         /\ \A m \in DOMAIN sweep'.values : \A r \in DOMAIN sweep'.values[m] : sweep'.values[m][r] = written[m][r]
<1> DEFINE span == Registers!SpanOf(fields)
<1> DEFINE names == Registers!SweepNames(motors)
<1> DEFINE reached(m) == \A i \in DOMAIN names : names[i] \in quiet => \E j \in 1..(i - 1) : names[j] = m
<1> DEFINE buffers == [m \in motors |->
                         IF reached(m) THEN [i \in 1..span.length |-> memory[m][span.start + i - 1]] ELSE <<>>]
<1> DEFINE report == Registers!CollectSpan(names, buffers, fields, span)
<1>1. \/ sweep' = [values |-> report.values, silent |-> report.silent, unreached |-> report.unreached,
                   asked |-> motors, quiet |-> quiet]
      \/ sweep' = [Registers!NothingRead EXCEPT !.unreached = names, !.asked = motors, !.quiet = quiet]
  BY DEF Registers!SyncReadSpan
<1>2. Roll(names, motors)
  BY SweepNamesAre
<1>3. span.length \in Nat \ {0}
  BY SpanIs
<1>4. ASSUME NEW m \in motors, reached(m)
      PROVE  /\ Len(buffers[m]) = span.length
             /\ \A r \in fields : Registers!SliceField(buffers[m], span.start, r) = written[m][r]
  <2>1. buffers[m] = [i \in 1..span.length |-> memory[m][span.start + i - 1]]
    BY <1>4
  <2>2. m \in Registers!Motors
    OBVIOUS
  <2> HIDE DEF buffers, reached
  <2> QED BY <2>1, <2>2, BufferIs
<1>5. ASSUME NEW m \in motors, ~reached(m) PROVE Len(buffers[m]) = 0
  <2>1. buffers[m] = <<>>
    BY <1>5
  <2> HIDE DEF buffers
  <2> QED BY <2>1
<1>6. names \in Seq(motors)
  BY <1>2 DEF Roll
<1>7. PICK n \in Nat : n = Len(names) /\ DOMAIN names = 1..n
  <2> HIDE DEF names
  <2> QED BY <1>6, LenProperties
<1>8. \A i \in 1..n : names[i] \in motors
  <2> HIDE DEF names
  <2> QED BY <1>6, <1>7, ElementOfSeq
<1> DEFINE short == {i \in DOMAIN names : Len(buffers[names[i]]) # span.length}
<1> DEFINE stop == IF short = {} THEN Len(names) + 1 ELSE Registers!Min(short)
<1>9. report = [values    |-> [m \in {names[i] : i \in 1..(stop - 1)} |->
                                 [r \in fields |-> Registers!SliceField(buffers[m], span.start, r)]],
                silent    |-> SubSeq(names, stop, Registers!Min({stop, Len(names)})),
                unreached |-> SubSeq(names, stop + 1, Len(names))]
  <2> HIDE DEF names, buffers, span
  <2> QED BY Zenon DEF Registers!CollectSpan
<1>10. short \subseteq 1..n /\ \A i \in 1..n : i \in short <=> Blocked(names, quiet, n, i)
  <2>1. \A i \in 1..n : reached(names[i]) <=> ~Blocked(names, quiet, n, i)
    <3> HIDE DEF names
    <3> QED BY <1>7 DEF Blocked
  <2>2. \A i \in 1..n : Len(buffers[names[i]]) # span.length <=> ~reached(names[i])
    <3> HIDE DEF names, buffers, span, reached
    <3> QED BY <1>3, <1>4, <1>5, <1>8
  <2>3. short = {i \in 1..n : ~reached(names[i])}
    <3> HIDE DEF names, buffers, span, reached
    <3> QED BY <1>7, <2>2
  <2> HIDE DEF names, buffers, span, reached, short
  <2> QED BY <2>1, <2>3
<1>11. stop = IF short = {} THEN n + 1 ELSE Registers!Min(short)
  <2> HIDE DEF names, short
  <2> QED BY <1>7
<1> HIDE DEF names, buffers, span, reached, short, stop, report
<1>12. /\ stop \in 1..(n + 1)
       /\ \A i \in 1..n : i < stop => i \notin short /\ names[i] \notin quiet
       /\ stop <= n => names[stop] \in quiet
  <2>1. StopsAt(names, quiet, short, n, stop)
    BY <1>2, <1>7, <1>10, <1>11, StopIs, Zenon
  <2> QED BY <2>1 DEF StopsAt
<1>13. CASE sweep' = [values |-> report.values, silent |-> report.silent, unreached |-> report.unreached,
                      asked |-> motors, quiet |-> quiet]
  <2>1. /\ DOMAIN sweep'.values = {names[i] : i \in 1..(stop - 1)}
        /\ sweep'.silent = SubSeq(names, stop, Registers!Min({stop, n}))
        /\ sweep'.unreached = SubSeq(names, stop + 1, n)
        /\ sweep'.asked = motors /\ sweep'.quiet = quiet
    BY <1>7, <1>9, <1>13
  <2>2. Registers!OnlyTheQuietAreBlamed'
    <3>1. PICK read : read = sweep'
      OBVIOUS
    <3>2. Fair(read)
      <4>1. /\ DOMAIN read.values = Part(names, 1, stop - 1)
            /\ read.silent = SubSeq(names, stop, Registers!Min({stop, n}))
            /\ read.unreached = SubSeq(names, stop + 1, n)
            /\ read.asked = motors /\ read.quiet = quiet
        BY <2>1, <3>1 DEF Part
      <4>2. \A i \in 1..n : i < stop => names[i] \notin quiet
        BY <1>12
      <4> QED BY <1>2, <1>7, <1>12, <4>1, <4>2, BlamesTheQuiet, Zenon
    <3> QED BY <3>1, <3>2 DEF Registers!OnlyTheQuietAreBlamed, Fair
  <2>3. ASSUME NEW m \in DOMAIN sweep'.values, NEW r \in DOMAIN sweep'.values[m]
        PROVE  sweep'.values[m][r] = written[m][r]
    <3>1. PICK i \in 1..(stop - 1) : m = names[i]
      BY <2>1
    <3>2. i \in 1..n /\ i < stop
      BY <1>12
    <3>3. m \in motors /\ reached(m)
      <4>1. m \in motors
        BY <1>8, <3>1, <3>2
      <4>2. Len(buffers[m]) = span.length
        BY <1>7, <1>12, <3>1, <3>2 DEF short
      <4> QED BY <1>3, <1>5, <4>1, <4>2
    <3>4. sweep'.values[m] = [x \in fields |-> Registers!SliceField(buffers[m], span.start, x)]
      BY <1>9, <1>13, <2>1
    <3> QED BY <1>4, <3>3, <3>4
  <2> QED BY <2>2, <2>3
<1>14. CASE sweep' = [Registers!NothingRead EXCEPT !.unreached = names, !.asked = motors, !.quiet = quiet]
  <2>1. /\ sweep'.values = <<>> /\ sweep'.silent = <<>> /\ sweep'.unreached = names
        /\ sweep'.asked = motors /\ sweep'.quiet = quiet
    BY <1>14 DEF Registers!NothingRead
  <2>2. DOMAIN <<>> = {} /\ Len(<<>>) = 0 /\ Registers!ToSet(<<>>) = {}
    BY DEF Registers!ToSet
  <2>3. Registers!ToSet(names) = motors
    BY <1>2, <1>7, <1>8 DEF Roll, Registers!ToSet
  <2>4. Registers!OnlyTheQuietAreBlamed'
    BY <2>1, <2>2, <2>3 DEF Registers!OnlyTheQuietAreBlamed
  <2> QED BY <2>1, <2>2, <2>4
<1> QED BY <1>1, <1>13, <1>14

(* A write puts the bytes of the value where the register is, and changes  *)
(* no other register.                                                      *)
LEMMA WriteKeeps ==
  ASSUME RegTypes, NEW motors, motors \subseteq Registers!Motors, NEW q \in Registers!Registers,
         NEW value \in Registers!Values(q), value \in Int, Registers!Write(motors, q, value)
  PROVE  RegTypes'
<1>1. /\ memory' = [m \in Registers!Motors |-> IF m \in motors THEN Registers!Stored(m, q, value) ELSE memory[m]]
      /\ written' = [m \in Registers!Motors |-> IF m \in motors THEN [written[m] EXCEPT ![q] = value] ELSE written[m]]
  BY DEF Registers!Write
<1>2. PICK x \in Nat, n \in Nat \ {0} : x = Registers!Address(q) /\ n = Registers!Size(q) /\ x + n <= Memory /\ Memory \in Nat
  BY RegistersConstants DEF Registers!RegistersAssumption
<1>3. PICK bytes : bytes = Registers!Serialize(Registers!Encode(q, value), n)
  OBVIOUS
<1>4. DOMAIN bytes = 1..n /\ \A i \in 1..n : bytes[i] \in Int
  <2>1. PICK e \in Nat : e = Registers!Encode(q, value)
    BY DecodeOfEncode
  <2>2. bytes = [i \in 1..n |-> (e \div Registers!Power[i - 1]) % Base]
    BY <1>3, <2>1 DEF Registers!Serialize
  <2>3. ASSUME NEW i \in 1..n PROVE (e \div Registers!Power[i - 1]) % Base \in Int
    <3>1. PICK p \in Nat \ {0} : p = Registers!Power[i - 1]
      <4>1. i - 1 \in Nat
        OBVIOUS
      <4> QED BY <4>1, PowerIs
    <3>2. Base \in Nat \ {0}
      BY RegistersConstants DEF Registers!RegistersAssumption
    <3> QED BY <3>1, <3>2
  <2> QED BY <2>2, <2>3
<1>5. ASSUME NEW m \in motors
      PROVE  Registers!Stored(m, q, value) =
               [y \in Registers!Room |-> IF y - x + 1 \in 1..n THEN bytes[y - x + 1] ELSE memory[m][y]]
  BY <1>2, <1>3, <1>4 DEF Registers!Stored
<1>6. memory' \in [Registers!Motors -> [Registers!Room -> Int]]
  <2>1. ASSUME NEW m \in motors PROVE Registers!Stored(m, q, value) \in [Registers!Room -> Int]
    BY <1>4, <1>5 DEF RegTypes
  <2> QED BY <1>1, <2>1 DEF RegTypes
<1>7. written' \in [Registers!Motors -> [Registers!Registers -> Int]]
  BY <1>1 DEF RegTypes
<1>8. ASSUME NEW m \in Registers!Motors, NEW r \in Registers!Registers
      PROVE  /\ written'[m][r] \in Registers!Values(r)
             /\ \A i \in 1..Registers!Size(r) :
                  memory'[m][Registers!Address(r) + i - 1] =
                    Registers!Serialize(Registers!Encode(r, written'[m][r]), Registers!Size(r))[i]
  <2>1. CASE m \notin motors
    <3>1. memory'[m] = memory[m] /\ written'[m] = written[m]
      BY <1>1, <2>1
    <3> QED BY <3>1 DEF RegTypes
  <2>2. CASE m \in motors
    <3>0. memory'[m] = [y \in Registers!Room |-> IF y - x + 1 \in 1..n THEN bytes[y - x + 1] ELSE memory[m][y]]
      BY <1>1, <1>5, <2>2
    <3>1. written'[m] = [written[m] EXCEPT ![q] = value]
      BY <1>1, <2>2
    <3>2. PICK y \in Nat, k \in Nat \ {0} : y = Registers!Address(r) /\ k = Registers!Size(r) /\ y + k <= Memory
      BY RegistersConstants DEF Registers!RegistersAssumption
    <3>3. \A i \in 1..k : y + i - 1 \in Registers!Room
      BY <1>2, <3>2 DEF Registers!Room
    <3>4. CASE r = q
      <4>1. written'[m][r] = value
        BY <3>1, <3>4 DEF RegTypes
      <4>2. y = x /\ k = n
        BY <1>2, <3>2, <3>4
      <4>3. ASSUME NEW i \in 1..k PROVE memory'[m][y + i - 1] = bytes[i]
        <5>1. (y + i - 1) - x + 1 = i /\ i \in 1..n
          BY <4>2
        <5> QED BY <3>0, <3>3, <5>1
      <4> QED BY <1>2, <1>3, <3>2, <3>4, <4>1, <4>2, <4>3
    <3>5. CASE r # q
      <4>1. written'[m][r] = written[m][r]
        BY <3>1, <3>5 DEF RegTypes
      <4>2. y + k <= x \/ x + n <= y
        BY <1>2, <3>2, <3>5, RegistersConstants DEF Registers!RegistersAssumption
      <4>3. ASSUME NEW i \in 1..k PROVE memory'[m][y + i - 1] = memory[m][y + i - 1]
        <5>1. (y + i - 1) - x + 1 \notin 1..n
          BY <4>2
        <5> QED BY <3>0, <3>3, <5>1
      <4>4. \A i \in 1..k : memory[m][y + i - 1] = Registers!Serialize(Registers!Encode(r, written[m][r]), k)[i]
        BY <3>2 DEF RegTypes
      <4>5. written[m][r] \in Registers!Values(r)
        BY DEF RegTypes
      <4> QED BY <3>2, <4>1, <4>3, <4>4, <4>5
    <3> QED BY <3>4, <3>5
  <2> QED BY <2>1, <2>2
<1> QED BY <1>6, <1>7, <1>8 DEF RegTypes

LEMMA ValuesAreNumbers ==
  ASSUME NEW r \in Registers!Registers
  PROVE  Registers!Values(r) \subseteq Int /\ 0 \in Registers!Values(r) /\ Registers!Encode(r, 0) = 0
<1>1. Registers!Size(r) \in Nat \ {0}
  BY RegistersConstants DEF Registers!RegistersAssumption
<1>2. PICK h \in Nat \ {0} : Registers!Power[Registers!Size(r)] = 2 * h /\ Registers!Power[Registers!Size(r)] \div 2 = h
  BY <1>1, PowerEven
<1>3. Registers!Values(r) = IF r \in Signed THEN (-h)..(h - 1) ELSE 0..(2 * h - 1)
  BY <1>2, Zenon DEF Registers!Values
<1> QED BY <1>3 DEF Registers!Encode, Registers!EncodeTwosComplement

LEMMA RegStart == Registers!Init => RegInv
<1> SUFFICES ASSUME Registers!Init PROVE RegInv
  OBVIOUS
<1>1. /\ memory = [m \in Registers!Motors |-> [x \in Registers!Room |-> 0]]
      /\ written = [m \in Registers!Motors |-> [r \in Registers!Registers |-> 0]]
      /\ sweep = Registers!NothingRead
  BY DEF Registers!Init
<1>2. ASSUME NEW r \in Registers!Registers, NEW i \in 1..Registers!Size(r)
      PROVE  /\ Registers!Address(r) + i - 1 \in Registers!Room
             /\ Registers!Serialize(0, Registers!Size(r))[i] = 0
  <2>1. PICK x \in Nat, n \in Nat \ {0} : x = Registers!Address(r) /\ n = Registers!Size(r) /\ x + n <= Memory /\ Memory \in Nat
    BY RegistersConstants DEF Registers!RegistersAssumption
  <2>2. x + i - 1 \in Registers!Room
    BY <2>1 DEF Registers!Room
  <2>3. PICK p \in Nat \ {0} : p = Registers!Power[i - 1]
    <3>1. i - 1 \in Nat
      BY <2>1
    <3> QED BY <3>1, PowerIs
  <2>4. PICK c \in Nat \ {0} : c = Base
    BY RegistersConstants DEF Registers!RegistersAssumption
  <2>5. 0 \div p = 0 /\ 0 % c = 0
    OBVIOUS
  <2>6. Registers!Serialize(0, n)[i] = (0 \div p) % c
    BY <2>1, <2>3, <2>4 DEF Registers!Serialize
  <2> QED BY <2>1, <2>2, <2>5, <2>6
<1>3. RegTypes
  <2>1. ASSUME NEW m \in Registers!Motors, NEW r \in Registers!Registers
        PROVE  /\ written[m][r] \in Registers!Values(r)
               /\ \A i \in 1..Registers!Size(r) :
                    memory[m][Registers!Address(r) + i - 1] =
                      Registers!Serialize(Registers!Encode(r, written[m][r]), Registers!Size(r))[i]
    <3>1. written[m][r] = 0
      BY <1>1
    <3>2. \A x \in Registers!Room : memory[m][x] = 0
      BY <1>1
    <3>3. ASSUME NEW i \in 1..Registers!Size(r)
          PROVE  memory[m][Registers!Address(r) + i - 1] =
                   Registers!Serialize(Registers!Encode(r, written[m][r]), Registers!Size(r))[i]
      <4>1. Registers!Address(r) + i - 1 \in Registers!Room /\ Registers!Serialize(0, Registers!Size(r))[i] = 0
        BY <1>2
      <4>2. Registers!Encode(r, written[m][r]) = 0
        BY <3>1, ValuesAreNumbers
      <4> QED BY <3>2, <4>1, <4>2
    <3>4. written[m][r] \in Registers!Values(r)
      BY <3>1, ValuesAreNumbers
    <3> QED BY <3>3, <3>4
  <2>2. /\ memory \in [Registers!Motors -> [Registers!Room -> Int]]
        /\ written \in [Registers!Motors -> [Registers!Registers -> Int]]
    BY <1>1
  <2> QED BY <2>1, <2>2 DEF RegTypes
<1>4. Registers!OnlyTheQuietAreBlamed
  <2>1. DOMAIN <<>> = {} /\ Len(<<>>) = 0 /\ Registers!ToSet(<<>>) = {}
    BY DEF Registers!ToSet
  <2>2. /\ sweep.values = <<>> /\ sweep.silent = <<>> /\ sweep.unreached = <<>> /\ sweep.asked = {} /\ sweep.quiet = {}
    BY <1>1 DEF Registers!NothingRead
  <2> QED BY <2>1, <2>2 DEF Registers!OnlyTheQuietAreBlamed
<1> QED BY <1>3, <1>4 DEF RegInv

LEMMA RegStep == ASSUME RegInv, Registers!Next PROVE RegInv' /\ Registers!SweepReadsWhatIsThere
<1>0. RegTypes
  BY DEF RegInv
<1>1. ASSUME NEW motors \in SUBSET Registers!Motors, NEW r \in Registers!Registers, NEW value \in Registers!Values(r),
             Registers!Write(motors, r, value)
      PROVE  RegInv' /\ Registers!SweepReadsWhatIsThere
  <2>1. sweep' = sweep
    BY <1>1 DEF Registers!Write
  <2>2. value \in Int
    BY ValuesAreNumbers
  <2>3. RegTypes'
    BY <1>0, <1>1, <2>2, WriteKeeps
  <2> QED BY <2>1, <2>3 DEF RegInv, Registers!OnlyTheQuietAreBlamed, Registers!SweepReadsWhatIsThere
<1>2. ASSUME NEW motors \in SUBSET Registers!Motors, NEW fields \in (SUBSET Registers!Registers) \ {{}}, NEW quiet,
             Registers!SyncReadSpan(motors, fields, quiet)
      PROVE  RegInv' /\ Registers!SweepReadsWhatIsThere
  <2>1. memory' = memory /\ written' = written
    BY <1>2 DEF Registers!SyncReadSpan
  <2>2. RegTypes'
    BY <1>0, <2>1 DEF RegTypes
  <2>3. motors \subseteq Registers!Motors /\ fields \subseteq Registers!Registers /\ fields # {}
    OBVIOUS
  <2>4. Registers!OnlyTheQuietAreBlamed' /\ Registers!SweepReadsWhatIsThere
    BY <1>0, <1>2, <2>3, SweepReports DEF Registers!SweepReadsWhatIsThere
  <2> QED BY <2>2, <2>4 DEF RegInv
<1>3. CASE Registers!Forget
  <2>1. sweep' = Registers!NothingRead /\ memory' = memory /\ written' = written
    BY <1>3 DEF Registers!Forget
  <2>2. RegTypes'
    BY <1>0, <2>1 DEF RegTypes
  <2>3. DOMAIN <<>> = {} /\ Len(<<>>) = 0 /\ Registers!ToSet(<<>>) = {}
    BY DEF Registers!ToSet
  <2>4. /\ sweep'.values = <<>> /\ sweep'.silent = <<>> /\ sweep'.unreached = <<>>
        /\ sweep'.asked = {} /\ sweep'.quiet = {}
    BY <2>1 DEF Registers!NothingRead
  <2>5. Registers!OnlyTheQuietAreBlamed'
    BY <2>3, <2>4 DEF Registers!OnlyTheQuietAreBlamed
  <2>6. Registers!SweepReadsWhatIsThere
    BY <2>3, <2>4 DEF Registers!SweepReadsWhatIsThere
  <2> QED BY <2>2, <2>5, <2>6 DEF RegInv
<1> QED BY <1>1, <1>2, <1>3 DEF Registers!Next

LEMMA RegStutters == ASSUME RegInv, UNCHANGED registerVars PROVE RegInv'
  BY DEF registerVars, RegInv, RegTypes, Registers!OnlyTheQuietAreBlamed

------------------------------------------------------------------------------
(* The union                                                               *)

BusKept == part = "bus" => BusInv
PartsKept ==
  /\ part = "registers" => RegInv
  /\ part = "driver" => DriverInv
  /\ part = "tuning" => TuningInv
  /\ part = "diagnosis" => DiagInv

LEMMA PartsStart == Init => BusKept /\ PartsKept
  BY BusInit, RegStart, DriverStart, TuningStart, DiagStart DEF Init, BusKept, PartsKept

LEMMA BusNext == ASSUME "decide" \notin BusWindow, BusKept, [Next]_vars PROVE BusKept'
<1>1. CASE part = "bus" /\ Bus!Next /\ part' = part
  BY <1>1, BusStep DEF BusKept
<1>2. CASE part # "bus" /\ part' = part
  BY <1>2 DEF BusKept
<1>3. CASE UNCHANGED vars
  <2>1. UNCHANGED Bus!vars /\ part' = part
    BY <1>3 DEF vars, busVars, Bus!vars, Bus!bounded, Bus!servos
  <2> QED BY <2>1, BusStutters DEF BusKept
<1> QED BY <1>1, <1>2, <1>3 DEF Next

LEMMA PartsNext == ASSUME PartsKept, [Next]_vars PROVE PartsKept'
<1>1. CASE part = "driver" /\ Driver!Next /\ part' = part
  BY <1>1, DriverStep DEF PartsKept
<1>2. CASE part = "tuning" /\ Tuning!Next /\ part' = part
  BY <1>2, TuningNext DEF PartsKept
<1>3. CASE part = "diagnosis" /\ Diagnosis!Next /\ part' = part
  BY <1>3, DiagStep DEF PartsKept
<1>4. CASE part = "bus" /\ part' = part
  BY <1>4 DEF PartsKept
<1>0. CASE part = "registers" /\ Registers!Next /\ part' = part
  BY <1>0, RegStep DEF PartsKept
<1>5. CASE UNCHANGED vars
  <2>1. UNCHANGED Diagnosis!vars /\ UNCHANGED tuningVars /\ part' = part /\ UNCHANGED <<goal, filtered, filter, open, verbatim>> /\ UNCHANGED registerVars
    BY <1>5 DEF vars, driverVars, diagnosisVars, Diagnosis!vars
  <2>2. DriverInv => DriverInv'
    BY <2>1 DEF DriverInv, Safe
  <2> QED BY <2>1, <2>2, RegStutters, TuningStutters, DiagStutters DEF PartsKept
<1> QED BY <1>0, <1>1, <1>2, <1>3, <1>4, <1>5 DEF Next

LEMMA BusAlways == ASSUME "decide" \notin BusWindow PROVE Spec => []BusKept
<1>1. BusKept /\ [Next]_vars => BusKept'
  BY BusNext
<1> QED BY PartsStart, <1>1, PTL DEF Spec

LEMMA PartsAlways == Spec => []PartsKept
<1>1. PartsKept /\ [Next]_vars => PartsKept'
  BY PartsNext
<1> QED BY PartsStart, <1>1, PTL DEF Spec

(* A bus that any number of calls open under a deadline has one owner, and *)
(* torque, port and reservation are the owner's (dynamixel.py's connect    *)
(* and disconnect on _timeout.py's call_with_timeout).  The assumption: no *)
(* interrupt between the join and the decision, where _timeout.py would    *)
(* lose what the worker has parked.                                        *)
THEOREM OneOwnerAlways == ASSUME "decide" \notin BusWindow PROVE Spec => []BusHasOneOwner
<1>1. BusKept => BusHasOneOwner
  BY BusOwned DEF BusKept, BusHasOneOwner
<1> QED BY BusAlways, <1>1, PTL

(* Every goal that the driver's write path sends is within the safe ticks, *)
(* for every filter, ramp and history of writes, wherever the joints were   *)
(* found: from its first write on no goal is left outside (dynamixel.py).  *)
THEOREM GoalsStaySafe == Spec => []GoalsAreSafe
<1>1. PartsKept => GoalsAreSafe
  BY DEF PartsKept, GoalsAreSafe, DriverInv, Driver!GoalsAreSafe, Safe
<1> QED BY PartsAlways, <1>1, PTL

(* Without a failed write no gesture outlives its tuning, and a diagnosis  *)
(* leaves a servo as found or says what it could not restore, whatever the *)
(* callers do (robot.py's _sync_gesture_tuning, diagnose_servos.py).       *)
NothingIsLeft ==
  /\ part = "tuning" => Tuning!TypeOK /\ Tuning!TuningLeavesNoTrace
  /\ part = "diagnosis" => Diagnosis!LeftAsFoundOrSaid
THEOREM NothingIsEverLeft == Spec => []NothingIsLeft
<1>1. PartsKept => NothingIsLeft
  BY TuningEnds, DiagEnds DEF PartsKept, NothingIsLeft
<1> QED BY PartsAlways, <1>1, PTL

(* The same with the soft arm, which stays soft as long as no caller lets  *)
(* a leg go limp: limp() restores the full gain of a leg it gives back,    *)
(* that of a soft return too (robot.py's _restore_from_limp).              *)
THEOREM LeftAsFoundAlways == ASSUME LegsHeld PROVE Spec => []LeftAsFound
<1>1. PartsKept => LeftAsFound
  BY TuningEnds, DiagEnds DEF PartsKept, LeftAsFound
<1> QED BY PartsAlways, <1>1, PTL

(* No step stiffens a joint away from where it is: neither arming the bus, *)
(* nor the tuning of a joint that was let go, nor the diagnosis script.    *)
THEOREM NothingEverSnaps == ASSUME "decide" \notin BusWindow PROVE Spec => NothingSnaps
<1>1. BusKept /\ PartsKept /\ [Next]_vars =>
        [/\ (part = "bus") => Bus!HeldBeforeArmed
         /\ (part = "tuning") => Tuning!NoJointSnaps
         /\ (part = "diagnosis") => Diagnosis!GainRisesAtRest]_vars
  <2>1. ASSUME BusKept, PartsKept, Next
        PROVE  /\ (part = "bus") => Bus!HeldBeforeArmed
               /\ (part = "tuning") => Tuning!NoJointSnaps
               /\ (part = "diagnosis") => Diagnosis!GainRisesAtRest
    BY <2>1, ArmedWhereHeld, TuningNext, DiagStep DEF Next, BusKept, PartsKept, TuningMoves
  <2> QED BY <2>1
<1> QED BY BusAlways, PartsAlways, <1>1, PTL DEF Spec, NothingSnaps

(* A strained arm yields, a sleeping neck stays down and a held arm is     *)
(* eased, whatever was tuned and whichever write fails, as long as no      *)
(* caller lets a leg go limp (robot.py's soft return and sleep).           *)
THEOREM TrippedArmAlwaysYields == ASSUME LegsHeld PROVE Spec => TrippedArmYields
<1>1. PartsKept /\ [Next]_vars =>
        [(part = "tuning") =>
           Tuning!TrippedArmYields /\ Tuning!SleepingNeckStaysDown /\ Tuning!HeldArmIsEased]_vars
  <2>1. ASSUME PartsKept, Next, part = "tuning"
        PROVE  Tuning!TrippedArmYields /\ Tuning!SleepingNeckStaysDown /\ Tuning!HeldArmIsEased
    BY <2>1, TuningNext DEF Next, PartsKept, TuningMoves
  <2> QED BY <2>1
<1> QED BY PartsAlways, <1>1, PTL DEF Spec, TrippedArmYields

(* A call of the driver writes to the motors it names and to no other, and *)
(* a sweep reports of every motor that answered the values last written to *)
(* it, whatever the registers, their widths and signs (dynamixel.py's      *)
(* write path, _dynamixel_bus.py's sync_read_span and slice_field).        *)
THEOREM OnlyTheNamedAlways == Spec => OnlyTheNamed
<1>1. PartsKept /\ [Next]_vars =>
        [/\ (part = "driver") => Driver!OnlyTheNamed
         /\ (part = "registers") => Registers!SweepReadsWhatIsThere]_vars
  <2>1. ASSUME PartsKept, Next
        PROVE  /\ (part = "driver") => Driver!OnlyTheNamed
               /\ (part = "registers") => Registers!SweepReadsWhatIsThere
    BY <2>1, DriverNames, RegStep DEF Next, PartsKept
  <2> QED BY <2>1
<1> QED BY PartsAlways, <1>1, PTL DEF Spec, OnlyTheNamed

(* A sweep of any motors in any bus order blames the first quiet one and   *)
(* no other, and accounts for all; the diagnosis passes only a joint that  *)
(* followed its commands (_dynamixel_bus.py's collect_span,                *)
(* diagnose_servos.py's _report_travel).                                   *)
THEOREM VerdictsAreAlwaysEarned == Spec => []VerdictsAreEarned
<1>1. PartsKept => VerdictsAreEarned
  BY DiagEnds DEF PartsKept, RegInv, VerdictsAreEarned
<1> QED BY PartsAlways, <1>1, PTL
==============================================================================
