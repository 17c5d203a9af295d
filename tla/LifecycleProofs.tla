-------------------------- MODULE LifecycleProofs --------------------------
(* Lifecycle for every set of threads and attached resources and every     *)
(* number of calls and interrupts, where handlers that disconnect do so in *)
(* a connect (one that interrupts a disconnect ends its flag too early:    *)
(* README, disagreements).                                                 *)
EXTENDS Lifecycle, SequenceTheorems, TLAPS

(* A thread runs one call, or Main a connect and a handler's disconnect    *)
(* inside it.                                                              *)
Nested ==
  \A t \in Thread :
    /\ Len(calls[t]) \in 0..2
    /\ Len(calls[t]) = 2 => t = Main /\ calls[t][1].op = "connect" /\ calls[t][2].op = "disconnect"

(* The lock is held by the thread of the calls that are past it.           *)
Locked ==
  /\ \A t \in Thread : \A i \in 1..Len(calls[t]) : Holds(calls[t][i]) => holder = t
  /\ holder # None => \E i \in 1..Len(calls[holder]) : Holds(calls[holder][i])

(* Where a call can be, which resource it is at, and what it has read.     *)
Placed(c) ==
  /\ c.op = "connect" => c.pc \notin {"count", "clear"}
  /\ c.op = "disconnect" => c.pc \in {"lock", "count", "park", "close", "clear", "leave"}
  /\ c.pc \in {"open", "check"} => c.at \in 1..5 /\ OpenOrder[c.at] \in Attached
  /\ c.pc = "close" => c.at \in 1..6 /\ (c.at < 6 => CloseOrder[c.at] \in Attached)
  /\ c.op = "connect" /\ c.end = "ok" => c.pc = "leave"
  /\ c.pc = "flag" => ~c.running

(* The flag is up as long as a disconnect tears down, which has counted    *)
(* itself by its second step.                                              *)
Flagged ==
  \A t \in Thread : \A i \in 1..Len(calls[t]) :
    calls[t][i].op = "disconnect" /\ Holds(calls[t][i]) => disconnecting
Counting ==
  \E t \in Thread : \E i \in 1..Len(calls[t]) :
    calls[t][i].op = "disconnect" /\ calls[t][i].pc = "count"

(* A connect that was crossed has seen the flag or will see the count.     *)
Crossing(c) ==
  c.op = "connect" =>
    /\ c.before <= count
    /\ c.crossed => c.running \/ c.before < count \/ Counting
    /\ Holds(c) => ~c.running

NoneOpen == \A r \in Attached : open[r] # "open"

(* What a call has closed on its way stays closed.                         *)
ClosedUpTo(j) == \A i \in 1..5 : i < j /\ CloseOrder[i] \in Attached => open[CloseOrder[i]] # "open"
Swept(c) ==
  /\ c.op = "disconnect" /\ c.pc = "close" => ClosedUpTo(c.at)
  /\ c.op = "disconnect" /\ c.pc \in {"clear", "leave"} => NoneOpen
  /\ c.op = "connect" /\ c.pc = "close" /\ interrupts = 0 => ClosedUpTo(c.at)
  /\ c.op = "connect" /\ c.pc = "leave" /\ interrupts = 0 /\ c.end # "ok" => NoneOpen

(* What a connect knows of the driver, and when it can be under torque.    *)
Arming(c) ==
  c.op = "connect" /\ Holds(c) =>
    /\ interrupts = 0 /\ Armed => c.armed
    /\ c.pc \in {"open", "check"} /\ OpenOrder[c.at] # "driver" /\ Armed => c.found

(* The neck has been let down, or has failed to, before torque goes.       *)
Eased(c) ==
  c.pc = "close" /\ Armed /\ (c.op = "connect" => c.armed) => neck # "held"

(* A connect that ended well although it was crossed was so by a handler   *)
(* that ran in it after its last look at the count.                        *)
Overruled ==
  \A t \in Thread : \A i \in 1..Len(calls[t]) :
    LET c == calls[t][i] IN
    c.op = "connect" /\ c.pc = "leave" /\ c.end = "ok" /\ c.crossed
      => NoneOpen \/ (i = 1 /\ Len(calls[t]) = 2 /\ Holds(calls[t][2]))

CallInv(c) == Placed(c) /\ Crossing(c) /\ Swept(c) /\ Arming(c) /\ Eased(c)

IInv ==
  /\ TypeOK /\ Nested /\ Locked /\ Flagged /\ Overruled
  /\ \A t \in Thread : \A i \in 1..Len(calls[t]) : CallInv(calls[t][i])
  /\ NothingLeaks

-----------------------------------------------------------------------------
(* The calls of the threads, after a step of one of them.                  *)
LEMMA CallsType ==
  ASSUME TypeOK, NEW t \in Thread
  PROVE  /\ calls[t] \in Seq(Call) /\ Len(calls[t]) \in Nat
         /\ \A i \in 1..Len(calls[t]) : calls[t][i] \in Call
         /\ Busy(t) => Len(calls[t]) \in 1..Len(calls[t]) /\ Top(t) \in Call
BY SMT DEF TypeOK, Busy, Top

(* Goes: the innermost call is replaced. *)
LEMMA GoesChanges ==
  ASSUME TypeOK, NEW t \in Thread, Busy(t), NEW c \in Call, Goes(t, c)
  PROVE  /\ calls' \in [Thread -> Seq(Call)]
         /\ \A u \in Thread : Len(calls'[u]) = Len(calls[u])
         /\ \A u \in Thread : \A i \in 1..Len(calls[u]) :
              calls'[u][i] = IF u = t /\ i = Len(calls[t]) THEN c ELSE calls[u][i]
BY CallsType, SMT DEF TypeOK, Goes, Busy

(* Begins: a call is added. *)
LEMMA BeginsChanges ==
  ASSUME TypeOK, NEW t \in Thread, NEW c \in Call, Begins(t, c)
  PROVE  /\ calls' \in [Thread -> Seq(Call)]
         /\ \A u \in Thread : Len(calls'[u]) = IF u = t THEN Len(calls[t]) + 1 ELSE Len(calls[u])
         /\ \A u \in Thread : \A i \in 1..Len(calls[u]) : calls'[u][i] = calls[u][i]
         /\ calls'[t][Len(calls[t]) + 1] = c
BY CallsType, SMT DEF TypeOK, Begins

(* Popped: the innermost call ends. *)
LEMMA PopChanges ==
  ASSUME TypeOK, NEW t \in Thread, Busy(t), calls' = [calls EXCEPT ![t] = Popped(t)]
  PROVE  /\ calls' \in [Thread -> Seq(Call)]
         /\ \A u \in Thread : Len(calls'[u]) = IF u = t THEN Len(calls[t]) - 1 ELSE Len(calls[u])
         /\ \A u \in Thread : \A i \in 1..Len(calls'[u]) : i \in 1..Len(calls[u]) /\ calls'[u][i] = calls[u][i]
BY CallsType, SMT DEF TypeOK, Popped, Busy

(* NextIn: the first attached resource after i, or 6. *)
LEMMA NextInOrder ==
  ASSUME NEW order \in {OpenOrder, CloseOrder}, NEW i \in 0..5
  PROVE  LET j == NextIn(order, i) IN
         /\ j \in i + 1..6 /\ (j = 6 \/ order[j] \in Attached)
         /\ \A k \in i + 1..j - 1 : order[k] \notin Attached
<1> DEFINE First(k, j) == /\ j = 6 \/ order[j] \in Attached
                          /\ \A m \in k + 1..j - 1 : order[m] \notin Attached
<1>1. \E j \in 5 + 1..6 : First(5, j)
  <2>1. First(5, 6)
    OBVIOUS
  <2> QED BY <2>1
<1>2. ASSUME NEW k \in 0..4, \E j \in (k + 1) + 1..6 : First(k + 1, j)
      PROVE  \E j \in k + 1..6 : First(k, j)
  <2>1. CASE order[k + 1] \in Attached
    <3>1. First(k, k + 1)
      BY <2>1
    <3> QED BY <3>1
  <2>2. CASE order[k + 1] \notin Attached
    <3>1. PICK j \in (k + 1) + 1..6 : First(k + 1, j)
      BY <1>2
    <3>2. First(k, j)
      BY <3>1, <2>2
    <3> QED BY <3>2
  <2> QED BY <2>1, <2>2
<1>3. \A k \in 0..5 : \E j \in k + 1..6 : First(k, j)
  <2> DEFINE Found(k) == \E j \in k + 1..6 : First(k, j)
  <2>1. Found(5) /\ \A k \in 0..4 : Found(k + 1) => Found(k)
    BY <1>1, <1>2
  <2> HIDE DEF Found
  <2>2. Found(4) /\ Found(3) /\ Found(2) /\ Found(1) /\ Found(0)
    <3>1. Found(4)
      BY <2>1, 4 + 1 = 5
    <3>2. Found(3)
      BY <2>1, <3>1, 3 + 1 = 4
    <3>3. Found(2)
      BY <2>1, <3>2, 2 + 1 = 3
    <3>4. Found(1)
      BY <2>1, <3>3, 1 + 1 = 2
    <3>5. Found(0)
      BY <2>1, <3>4, 0 + 1 = 1
    <3> QED BY <3>1, <3>2, <3>3, <3>4, <3>5
  <2>3. \A k \in 0..5 : Found(k)
    BY <2>1, <2>2
  <2> QED BY <2>3 DEF Found
<1>4. PICK j \in i + 1..6 : First(i, j)
  BY <1>3
<1> HIDE DEF First
<1>5. NextIn(order, i) = CHOOSE m \in i + 1..6 : First(i, m)
  BY DEF NextIn, First
<1>6. NextIn(order, i) \in i + 1..6 /\ First(i, NextIn(order, i))
  BY <1>4, <1>5
<1> QED BY <1>6 DEF First

(* The call under the lock: no other thread has one, and a connect has no  *)
(* call of its own thread inside it.                                       *)
LEMMA HolderFacts ==
  ASSUME IInv, NEW t \in Thread, Busy(t), Holds(Top(t))
  PROVE  /\ holder = t /\ holder # None
         /\ \A u \in Thread : u # t => \A i \in 1..Len(calls[u]) : ~Holds(calls[u][i])
         /\ Len(calls[t]) \in {1, 2}
         /\ Len(calls[t]) = 2 => calls[t][1].op = "connect" /\ Top(t).op = "disconnect"
         /\ Top(t) \in Call /\ CallInv(Top(t))
         /\ Top(t).pc # "count" => ~Counting
<1>1. /\ calls[t] \in Seq(Call) /\ Len(calls[t]) \in Nat /\ Len(calls[t]) \in 1..Len(calls[t])
      /\ Top(t) \in Call /\ Top(t) = calls[t][Len(calls[t])]
  BY CallsType DEF IInv, Top
<1>2. holder = t /\ holder # None
  BY <1>1, ConstantsAssumption DEF IInv, Locked
<1>3. \A u \in Thread : u # t => \A i \in 1..Len(calls[u]) : ~Holds(calls[u][i])
  BY <1>2 DEF IInv, Locked
<1>4. Len(calls[t]) \in 0..2 /\ (Len(calls[t]) = 2 => calls[t][1].op = "connect" /\ calls[t][2].op = "disconnect")
  BY DEF IInv, Nested
<1>5. Len(calls[t]) \in {1, 2}
  BY <1>1, <1>4
<1>6. Len(calls[t]) = 2 => calls[t][1].op = "connect" /\ Top(t).op = "disconnect"
  BY <1>1, <1>4
<1>7. CallInv(Top(t))
  BY <1>1 DEF IInv
<1>8. ASSUME Top(t).pc # "count", Counting PROVE FALSE
  <2>0. PICK u \in Thread : \E i \in 1..Len(calls[u]) : calls[u][i].op = "disconnect" /\ calls[u][i].pc = "count"
    BY <1>8 DEF Counting
  <2>1. PICK i \in 1..Len(calls[u]) : calls[u][i].op = "disconnect" /\ calls[u][i].pc = "count"
    BY <2>0
  <2>2. u = t
    BY <2>1, <1>3 DEF Holds
  <2>3. i = 1 \/ i = Len(calls[t])
    BY <2>2, <1>1, <1>5
  <2> QED BY <2>1, <2>2, <2>3, <1>5, <1>6, <1>8, <1>1
<1> QED BY <1>1, <1>2, <1>3, <1>5, <1>6, <1>7, <1>8

RobotType ==
  /\ open \in [Attached -> {"closed", "open", "stuck"}]
  /\ neck \in {"held", "soft", "failed"}

(* A step that opens nothing, and stiffens nothing. *)
Eases ==
  /\ \A r \in Attached : open'[r] = "open" => open[r] = "open"
  /\ neck' = neck \/ neck' # "held"

(* What is known of a call in progress survives such a step, and any step  *)
(* when the call is not past the lock.                                     *)
LEMMA CallKept ==
  ASSUME TypeOK, TypeOK', NEW c \in Call, Swept(c), Arming(c), Eased(c),
         interrupts' = interrupts \/ interrupts' = interrupts + 1,
         Eases \/ ~Holds(c)
  PROVE  Swept(c)' /\ Arming(c)' /\ Eased(c)'
<1>1. CASE ~Holds(c)
  BY <1>1 DEF Holds, Swept, Arming, Eased
<1>2. CASE Eases
  <2>0. interrupts' = 0 => interrupts = 0
    BY DEF TypeOK
  <2>1. (NoneOpen => NoneOpen') /\ (Armed' => Armed)
    BY <1>2 DEF Eases, NoneOpen, Armed
  <2>2. ASSUME NEW j \in Nat, ClosedUpTo(j) PROVE ClosedUpTo(j)'
    BY <1>2, <2>2 DEF Eases, ClosedUpTo
  <2>3. c.at \in Nat
    BY DEF Call
  <2>4. Swept(c)'
    BY <2>0, <2>1, <2>2, <2>3 DEF Swept
  <2>5. Arming(c)'
    BY <2>0, <2>1 DEF Arming
  <2>6. Eased(c)'
    BY <2>1, <1>2 DEF Eased, Eases
  <2> QED BY <2>4, <2>5, <2>6
<1> QED BY <1>1, <1>2

(* A step of the call under the lock keeps the invariant, once it is known *)
(* to do so for that call.                                                 *)
LEMMA HolderStep ==
  ASSUME IInv, NEW t \in Thread, Busy(t), Holds(Top(t)),
         RobotType', hot' \in BOOLEAN, UNCHANGED last,
         NEW c \in Call, Goes(t, c), Holds(c), c.pc # "count",
         c.op = Top(t).op, c.before = Top(t).before, c.running = Top(t).running, c.crossed = Top(t).crossed,
         count' = IF Top(t).pc = "count" THEN count + 1 ELSE count,
         UNCHANGED <<disconnecting, holder>>,
         interrupts' = interrupts \/ interrupts' = interrupts + 1,
         Eases \/ c.op = "connect",
         Placed(c), Swept(c)', Arming(c)', Eased(c)',
         c.op = "connect" /\ c.pc = "leave" /\ c.end = "ok" => ~c.crossed
  PROVE  IInv'
<1>h. /\ holder = t /\ holder # None
      /\ \A u \in Thread : u # t => \A i \in 1..Len(calls[u]) : ~Holds(calls[u][i])
      /\ Len(calls[t]) \in {1, 2}
      /\ Len(calls[t]) = 2 => calls[t][1].op = "connect" /\ Top(t).op = "disconnect"
      /\ Top(t) \in Call /\ CallInv(Top(t))
      /\ Top(t).pc # "count" => ~Counting
  BY HolderFacts
<1>t. TypeOK
  BY DEF IInv
<1>1. /\ \A u \in Thread : Len(calls'[u]) = Len(calls[u])
      /\ \A u \in Thread : \A i \in 1..Len(calls[u]) :
           calls'[u][i] = IF u = t /\ i = Len(calls[t]) THEN c ELSE calls[u][i]
  BY GoesChanges, <1>t
<1>T. TypeOK'
  <2>1. calls' \in [Thread -> Seq(Call)]
    BY <1>t, GoesChanges
  <2>2. count' \in Nat /\ interrupts' \in Nat
    BY <1>t DEF TypeOK
  <2> QED BY <1>t, <2>1, <2>2 DEF TypeOK, RobotType
<1>2. Len(calls[t]) \in {1, 2} /\ Top(t) = calls[t][Len(calls[t])] /\ Len(calls[t]) \in 1..Len(calls[t])
  <2>1. Top(t) = calls[t][Len(calls[t])]
    BY DEF Top
  <2>2. Len(calls[t]) \in 1..Len(calls[t])
    BY <1>t, CallsType
  <2> QED BY <1>h, <2>1, <2>2
<1>3. Nested'
  BY <1>h, <1>1, <1>2 DEF IInv, Nested
<1>4. Locked'
  BY <1>h, <1>1, <1>2 DEF IInv, Locked
<1>5. Flagged'
  BY <1>h, <1>1, <1>2 DEF IInv, Flagged
<1>6. Overruled'
  <2> SUFFICES ASSUME NEW u \in Thread, NEW i \in 1..Len(calls'[u]),
                      calls'[u][i].op = "connect", calls'[u][i].pc = "leave", calls'[u][i].end = "ok", calls'[u][i].crossed
               PROVE  i = 1 /\ Len(calls'[u]) = 2 /\ Holds(calls'[u][2])
    BY <1>h DEF Overruled
  <2>1. i \in 1..Len(calls[u])
    BY <1>h, <1>1
  <2>2. u = t
    BY <1>h, <1>1, <2>1 DEF Holds
  <2>3. i # Len(calls[t])
    BY <1>h, <1>1, <2>1, <2>2
  <2> QED BY <1>h, <1>1, <1>2, <2>1, <2>2, <2>3
<1>7. ASSUME NEW u \in Thread, NEW i \in 1..Len(calls'[u]) PROVE CallInv(calls[u][i])'
  <2>1. i \in 1..Len(calls[u])
    BY <1>h, <1>1
  <2>2. CASE u = t /\ i = Len(calls[t])
    <3>1. calls'[u][i] = c
      BY <1>h, <2>2, <1>1, <2>1
    <3>2. Crossing(c)'
      <4>1. count \in Nat /\ Top(t).before \in Nat
        BY <1>h DEF IInv, TypeOK, Call
      <4>2. Crossing(Top(t))
        BY <1>h DEF CallInv
      <4>3. CASE Top(t).pc = "count"
        BY <1>h, <4>1, <4>2, <4>3 DEF Crossing, CallInv, Placed
      <4>4. CASE Top(t).pc # "count"
        BY <1>h, <4>1, <4>2, <4>4 DEF Crossing
      <4> QED BY <1>h, <4>3, <4>4
    <3> QED BY <1>h, <3>1, <3>2 DEF CallInv, Placed
  <2>3. CASE ~(u = t /\ i = Len(calls[t]))
    <3>0. calls'[u][i] = calls[u][i] /\ calls[u][i] \in Call
      BY <1>h, <2>3, <1>1, <2>1, <1>t, CallsType
    <3>1. PICK d \in Call : d = calls[u][i] /\ d = calls'[u][i]
      BY <1>h, <3>0
    <3>2. CallInv(d)
      BY <1>h, <3>1, <2>1 DEF IInv
    <3>3. Eases \/ ~Holds(d)
      <4>1. CASE u # t
        BY <1>h, <4>1, <3>1, <2>1
      <4>2. CASE u = t
        <5>1. Len(calls[t]) = 2 /\ i = 1
          BY <1>h, <4>2, <2>3, <2>1, <1>2
        <5> QED BY <1>h, <5>1
      <4> QED BY <1>h, <4>1, <4>2
    <3>4. Swept(d)' /\ Arming(d)' /\ Eased(d)'
      BY <1>h, <3>2, <3>3, <1>t, <1>T, CallKept DEF CallInv
    <3>5. Crossing(d)'
      <4>1. count \in Nat /\ d.before \in Nat
        BY <1>h DEF IInv, TypeOK, Call
      <4>2. CASE Top(t).pc = "count"
        BY <1>h, <4>1, <4>2, <3>2 DEF Crossing, CallInv
      <4>3. CASE Top(t).pc # "count"
        BY <1>h, <4>1, <4>3, <3>2 DEF Crossing, CallInv
      <4> QED BY <1>h, <4>2, <4>3
    <3>6. Placed(d)'
      BY <1>h, <3>2 DEF CallInv, Placed
    <3> QED BY <1>h, <3>1, <3>4, <3>5, <3>6 DEF CallInv
  <2> QED BY <1>h, <2>2, <2>3
<1>8. NothingLeaks'
  BY <1>h DEF NothingLeaks
<1> QED BY <1>T, <1>3, <1>4, <1>5, <1>6, <1>7, <1>8 DEF IInv

-----------------------------------------------------------------------------
(* The steps of the call under the lock.                                   *)

(* A resource opens, or fails to.                                          *)
LEMMA OpenKeeps ==
  ASSUME IInv, NEW t \in Thread, Open(t)
  PROVE  IInv'
<1>1. Busy(t) /\ Top(t).op = "connect" /\ Top(t).pc = "open" /\ Holds(Top(t))
  BY DEF Open, At, Holds
<1>2. Top(t) \in Call /\ CallInv(Top(t))
  BY <1>1, HolderFacts
<1>3. PICK d \in Call : d = Top(t)
  BY <1>2
<1>4. PICK r \in Attached : r = OpenOrder[Top(t).at]
  BY <1>1, <1>2 DEF CallInv, Placed
<1>5. /\ open \in [Attached -> {"closed", "open", "stuck"}] /\ interrupts \in Nat
      /\ neck \in {"held", "soft", "failed"}
  BY DEF IInv, TypeOK
<1>6. neck' \in {"held", "soft", "failed"} /\ UNCHANGED <<hot, count, disconnecting, holder, last>>
  BY <1>5 DEF Open, flags
<1>7. ASSUME NEW c \in Call, Goes(t, c), open' \in {open, [open EXCEPT ![r] = "open"]},
             interrupts' = interrupts \/ interrupts' = interrupts + 1,
             \E a \in BOOLEAN, p \in {"check", "park"}, e \in {None, "raised", "interrupted"} :
               c = [d EXCEPT !.pc = p, !.end = e, !.armed = a],
             Arming(c)'
      PROVE  IInv'
  <2>1. /\ c.op = d.op /\ c.before = d.before /\ c.running = d.running /\ c.crossed = d.crossed
        /\ c.pc \in {"check", "park"} /\ c.at = d.at
    BY <1>7 DEF Call
  <2>2. RobotType' /\ hot' \in BOOLEAN
    BY <1>5, <1>6, <1>7 DEF RobotType, IInv, TypeOK
  <2>3. Placed(c)
    BY <2>1, <1>1, <1>2, <1>3, <1>7, ConstantsAssumption DEF CallInv, Placed, Call
  <2>4. Swept(c)' /\ Eased(c)' /\ Holds(c)
    BY <2>1 DEF Swept, Eased, Holds
  <2> QED BY <2>1, <2>2, <2>3, <2>4, <1>1, <1>3, <1>6, <1>7, HolderStep
<1>8. Arming(d)
  BY <1>2, <1>3 DEF CallInv
<1>a. CASE /\ open' = [open EXCEPT ![r] = "open"] /\ UNCHANGED interrupts
           /\ Goes(t, [d EXCEPT !.pc = "check", !.armed = @ \/ r = "driver"])
  <2>1. PICK c \in Call : c = [d EXCEPT !.pc = "check", !.armed = @ \/ r = "driver"]
    BY DEF Call
  <2>2. \E a \in BOOLEAN, p \in {"check", "park"}, e \in {None, "raised", "interrupted"} :
          c = [d EXCEPT !.pc = p, !.end = e, !.armed = a]
    <3>1. d.end \in {None, "raised", "interrupted"}
      BY <1>1, <1>2, <1>3 DEF CallInv, Placed, Call
    <3>2. c = [d EXCEPT !.pc = "check", !.end = d.end, !.armed = d.armed \/ r = "driver"]
      BY <2>1 DEF Call
    <3>3. (d.armed \/ r = "driver") \in BOOLEAN
      OBVIOUS
    <3> QED BY <3>1, <3>2, <3>3
  <2>3. Arming(c)'
    <3>1. r # "driver" => (Armed' => Armed)
      BY <1>a, <1>5 DEF Armed
    <3>2. c.op = d.op /\ c.pc = "check" /\ c.at = d.at /\ c.found = d.found /\ (d.armed \/ r = "driver" => c.armed)
      BY <2>1 DEF Call
    <3>3. OpenOrder[c.at] = r
      BY <3>2, <1>3, <1>4
    <3> QED BY <3>1, <3>2, <3>3, <1>8, <1>a, <1>1, <1>3 DEF Arming, Holds
  <2> QED BY <2>1, <2>2, <2>3, <1>a, <1>7
<1>b. CASE /\ open' \in {open, IF r = "driver" THEN open ELSE [open EXCEPT ![r] = "open"]} /\ UNCHANGED interrupts
           /\ Goes(t, [d EXCEPT !.pc = "park", !.end = "raised"])
  <2>1. PICK c \in Call : c = [d EXCEPT !.pc = "park", !.end = "raised"]
    BY DEF Call
  <2>2. c = [d EXCEPT !.pc = "park", !.end = "raised", !.armed = d.armed] /\ d.armed \in BOOLEAN
    BY <2>1 DEF Call
  <2>3. Arming(c)'
    <3>1. Armed' => Armed
      BY <1>b, <1>5 DEF Armed
    <3>2. c.op = d.op /\ c.pc = "park" /\ c.armed = d.armed
      BY <2>1 DEF Call
    <3> QED BY <3>1, <3>2, <1>8, <1>b, <1>1, <1>3 DEF Arming, Holds
  <2> QED BY <2>1, <2>2, <2>3, <1>b, <1>7
<1>c. CASE /\ open' \in {open, [open EXCEPT ![r] = "open"]} /\ Interrupt(t)
           /\ Goes(t, [d EXCEPT !.pc = "park", !.end = "interrupted"])
  <2>1. PICK c \in Call : c = [d EXCEPT !.pc = "park", !.end = "interrupted"]
    BY DEF Call
  <2>2. c = [d EXCEPT !.pc = "park", !.end = "interrupted", !.armed = d.armed] /\ d.armed \in BOOLEAN
    BY <2>1 DEF Call
  <2>3. interrupts' = interrupts + 1 /\ interrupts' # 0
    BY <1>c, <1>5 DEF Interrupt
  <2>4. Arming(c)'
    BY <2>1, <2>3 DEF Arming, Call
  <2> QED BY <2>1, <2>2, <2>3, <2>4, <1>c, <1>7
<1> QED BY <1>a, <1>b, <1>c, <1>3, <1>4 DEF Open, RollsBack

(* A step of a connect that only moves on: what it finds it had found.     *)
LEMMA ConnectMoves ==
  ASSUME IInv, NEW t \in Thread, Busy(t), Holds(Top(t)), Top(t).op = "connect", Top(t).pc # "count",
         RobotType', UNCHANGED <<open, hot, flags, holder, last>>,
         interrupts' = interrupts \/ interrupts' = interrupts + 1,
         NEW c \in Call, Goes(t, c), Placed(c),
         c.pc \in {"open", "check", "wake", "final", "park", "leave"},
         \E p \in {"open", "check", "wake", "final", "park", "leave"}, j \in 0..6, e \in {None, "ok", "raised", "interrupted"} :
           c = [Top(t) EXCEPT !.pc = p, !.at = j, !.end = e],
         c.pc \in {"open", "check"} => (OpenOrder[c.at] # "driver" => OpenOrder[Top(t).at] # "driver") /\ Top(t).pc \in {"open", "check"},
         c.pc = "leave" => c.end = "ok" /\ ~c.crossed
  PROVE  IInv'
<1>1. Top(t) \in Call /\ CallInv(Top(t))
  BY HolderFacts
<1>2. PICK d \in Call : d = Top(t)
  BY <1>1
<1>3. /\ c.op = d.op /\ c.before = d.before /\ c.running = d.running /\ c.crossed = d.crossed
      /\ c.armed = d.armed /\ c.found = d.found
  BY <1>2 DEF Call
<1>4. Holds(c) /\ Swept(c)' /\ Eased(c)'
  BY DEF Holds, Swept, Eased
<1>5. Armed' = Armed
  BY DEF Armed
<1>6. Arming(c)'
  <2>1. interrupts' = 0 => interrupts = 0
    BY DEF IInv, TypeOK
  <2>2. Arming(d)
    BY <1>1, <1>2 DEF CallInv
  <2> QED BY <1>2, <1>3, <1>5, <2>1, <2>2 DEF Arming
<1>7. hot' \in BOOLEAN /\ count' = count /\ UNCHANGED <<disconnecting, holder>>
  BY DEF IInv, TypeOK, flags
<1> QED BY <1>2, <1>3, <1>4, <1>6, <1>7, HolderStep

(* The count is compared. *)
LEMMA CheckKeeps ==
  ASSUME IInv, NEW t \in Thread, Check(t)
  PROVE  IInv'
<1>1. Busy(t) /\ Top(t).op = "connect" /\ Top(t).pc = "check" /\ Holds(Top(t))
  BY DEF Check, At, Holds
<1>2. Top(t) \in Call /\ CallInv(Top(t))
  BY <1>1, HolderFacts
<1>3. PICK d \in Call : d = Top(t)
  BY <1>2
<1>4. RobotType' /\ UNCHANGED <<open, hot, flags, holder, last, interrupts>>
  BY DEF Check, robot, IInv, TypeOK, RobotType
<1>5. d.at \in 1..5 /\ d.end # "ok"
  BY <1>1, <1>2, <1>3 DEF CallInv, Placed
<1>6. CASE count # d.before
  <2>1. PICK c \in Call : c = [d EXCEPT !.pc = "park", !.end = "raised"]
    BY DEF Call
  <2>2. Goes(t, c)
    BY <1>3, <1>6, <2>1 DEF Check, RollsBack
  <2>3. c = [d EXCEPT !.pc = "park", !.at = d.at, !.end = "raised"] /\ c.pc = "park" /\ d.at \in 0..6
    BY <2>1, <1>5 DEF Call
  <2>4. Placed(c)
    BY <2>1, ConstantsAssumption DEF Placed, Call
  <2> QED BY <1>1, <1>3, <1>4, <2>2, <2>3, <2>4, ConnectMoves
<1>7. CASE count = d.before
  <2> DEFINE j == NextIn(OpenOrder, d.at)
             p == IF j = 6 THEN "wake" ELSE "open"
  <2>1. j \in d.at + 1..6 /\ (j = 6 \/ OpenOrder[j] \in Attached)
    BY <1>5, NextInOrder
  <2>2. PICK c \in Call : c = [d EXCEPT !.pc = p, !.at = j]
    <3>1. j \in 0..6 /\ p \in {"wake", "open"}
      BY <2>1, <1>5
    <3> HIDE DEF j, p
    <3>2. [d EXCEPT !.pc = p, !.at = j] \in Call
      BY <3>1 DEF Call
    <3> QED BY <3>2
  <2>3. Goes(t, c)
    BY <1>3, <1>7, <2>2 DEF Check
  <2>4. c = [d EXCEPT !.pc = p, !.at = j, !.end = d.end] /\ j \in 0..6
    BY <2>1, <2>2, <1>5 DEF Call
  <2>5. Placed(c)
    BY <2>1, <2>2, <1>5, <1>1, <1>3 DEF Placed, Call
  <2>6. c.pc = p /\ c.at = j /\ p \in {"open", "wake"} /\ (p = "open" => OpenOrder[d.at] # "driver")
    <3>1. p = "open" => d.at < 5
      BY <2>1, <1>5
    <3> QED BY <2>2, <3>1, <1>5 DEF Call, OpenOrder
  <2>7. d.end \in {None, "ok", "raised", "interrupted"}
    BY DEF Call
  <2> HIDE DEF j, p
  <2>8. \E q \in {"open", "check", "wake", "final", "park", "leave"}, m \in 0..6, e \in {None, "ok", "raised", "interrupted"} :
          c = [Top(t) EXCEPT !.pc = q, !.at = m, !.end = e]
    BY <1>3, <2>4, <2>6, <2>7
  <2> QED BY <1>1, <1>3, <1>4, <2>3, <2>5, <2>6, <2>8, ConnectMoves
<1> QED BY <1>6, <1>7

(* The neck is raised. *)
LEMMA WakeKeeps ==
  ASSUME IInv, NEW t \in Thread, Wake(t)
  PROVE  IInv'
<1>1. Busy(t) /\ Top(t).op = "connect" /\ Top(t).pc = "wake" /\ Holds(Top(t))
  BY DEF Wake, At, Holds
<1>2. Top(t) \in Call /\ CallInv(Top(t))
  BY <1>1, HolderFacts
<1>3. PICK d \in Call : d = Top(t)
  BY <1>2
<1>4. RobotType' /\ UNCHANGED <<open, hot, flags, holder, last>>
  BY DEF Wake, IInv, TypeOK, RobotType
<1>5. d.end # "ok" /\ d.at \in 0..6 /\ d.end \in {None, "ok", "raised", "interrupted"}
  BY <1>1, <1>2, <1>3 DEF CallInv, Placed, Call
<1>6. ASSUME NEW p \in {"final", "park"}, NEW e \in {d.end, "raised", "interrupted"},
             Goes(t, [d EXCEPT !.pc = p, !.end = e]), interrupts' = interrupts \/ interrupts' = interrupts + 1
      PROVE  IInv'
  <2>1. PICK c \in Call : c = [d EXCEPT !.pc = p, !.end = e]
    BY <1>5 DEF Call
  <2>2. c = [d EXCEPT !.pc = p, !.at = d.at, !.end = e] /\ c.pc = p
    BY <2>1 DEF Call
  <2>3. Placed(c)
    BY <2>1, <1>5, <1>1, <1>3, ConstantsAssumption DEF Placed, Call
  <2>4. \E q \in {"open", "check", "wake", "final", "park", "leave"}, m \in 0..6, f \in {None, "ok", "raised", "interrupted"} :
          c = [Top(t) EXCEPT !.pc = q, !.at = m, !.end = f]
    BY <1>3, <1>5, <2>2
  <2> QED BY <1>1, <1>3, <1>4, <1>6, <2>1, <2>2, <2>3, <2>4, ConnectMoves
<1>7. CASE GoesTo(t, "final") /\ UNCHANGED interrupts
  <2>1. [d EXCEPT !.pc = "final", !.end = d.end] = [d EXCEPT !.pc = "final"]
    BY DEF Call
  <2> QED BY <2>1, <1>3, <1>6, <1>7 DEF GoesTo
<1>8. CASE RollsBack(t, "raised") /\ UNCHANGED interrupts
  BY <1>3, <1>6, <1>8 DEF RollsBack
<1>9. CASE RollsBack(t, "interrupted") /\ Interrupt(t)
  BY <1>3, <1>6, <1>9 DEF RollsBack, Interrupt
<1> QED BY <1>7, <1>8, <1>9 DEF Wake

(* The count is compared once more: a connect that passes was not crossed. *)
LEMMA FinalKeeps ==
  ASSUME IInv, NEW t \in Thread, Final(t)
  PROVE  IInv'
<1>1. Busy(t) /\ Top(t).op = "connect" /\ Top(t).pc = "final" /\ Holds(Top(t))
  BY DEF Final, At, Holds
<1>2. Top(t) \in Call /\ CallInv(Top(t)) /\ ~Counting
  BY <1>1, HolderFacts
<1>3. PICK d \in Call : d = Top(t)
  BY <1>2
<1>4. RobotType' /\ UNCHANGED <<open, hot, flags, holder, last, interrupts>>
  BY DEF Final, robot, IInv, TypeOK, RobotType
<1>5. d.at \in 0..6
  BY DEF Call
<1>6. CASE count # d.before
  <2>1. PICK c \in Call : c = [d EXCEPT !.pc = "park", !.end = "raised"]
    BY DEF Call
  <2>2. Goes(t, c)
    BY <1>3, <1>6, <2>1 DEF Final, RollsBack
  <2>3. c = [d EXCEPT !.pc = "park", !.at = d.at, !.end = "raised"] /\ c.pc = "park"
    BY <2>1 DEF Call
  <2>4. Placed(c)
    BY <2>1, ConstantsAssumption DEF Placed, Call
  <2> QED BY <1>1, <1>3, <1>4, <1>5, <2>2, <2>3, <2>4, ConnectMoves
<1>7. CASE count = d.before
  <2>1. PICK c \in Call : c = [d EXCEPT !.pc = "leave", !.end = "ok"]
    BY DEF Call
  <2>2. Goes(t, c)
    BY <1>3, <1>7, <2>1 DEF Final
  <2>3. c = [d EXCEPT !.pc = "leave", !.at = d.at, !.end = "ok"] /\ c.pc = "leave" /\ c.end = "ok" /\ c.crossed = d.crossed
    BY <2>1 DEF Call
  <2>4. Placed(c)
    BY <2>1, <1>1, <1>3 DEF Placed, Call
  <2>5. ~d.crossed
    <3>1. Crossing(d)
      BY <1>2, <1>3 DEF CallInv
    <3>2. ~(d.before < count)
      BY <1>7 DEF Call
    <3> QED BY <3>1, <3>2, <1>1, <1>2, <1>3 DEF Crossing
  <2> QED BY <1>1, <1>3, <1>4, <1>5, <2>2, <2>3, <2>4, <2>5, ConnectMoves
<1> QED BY <1>6, <1>7

(* The disconnect counts itself: every connect it crossed is now behind.   *)
LEMMA CountKeeps ==
  ASSUME IInv, NEW t \in Thread, Count(t)
  PROVE  IInv'
<1>1. Busy(t) /\ Top(t).op = "disconnect" /\ Top(t).pc = "count" /\ Holds(Top(t))
  BY DEF Count, At, Holds
<1>2. PICK d \in Call : d = Top(t)
  BY <1>1, HolderFacts
<1>3. PICK c \in Call : c = [d EXCEPT !.pc = "park"]
  BY DEF Call
<1>4. /\ c.op = "disconnect" /\ c.pc = "park" /\ c.before = d.before /\ c.running = d.running
      /\ c.crossed = d.crossed
  BY <1>1, <1>2, <1>3 DEF Call
<1>5. Goes(t, c)
  BY <1>2, <1>3 DEF Count, GoesTo
<1>6. RobotType' /\ hot' \in BOOLEAN /\ Eases /\ UNCHANGED <<disconnecting, holder, interrupts, last>> /\ count' = count + 1
  BY DEF Count, robot, IInv, TypeOK, RobotType, Eases
<1>7. Holds(c) /\ Placed(c) /\ Swept(c)' /\ Arming(c)' /\ Eased(c)'
  BY <1>4 DEF Holds, Placed, Swept, Arming, Eased
<1> QED BY <1>1, <1>2, <1>4, <1>5, <1>6, <1>7, HolderStep

(* The neck is let down, or the ramp fails.                                *)
LEMMA ParkKeeps ==
  ASSUME IInv, NEW t \in Thread, Park(t)
  PROVE  IInv'
<1>1. Busy(t) /\ Top(t).pc = "park" /\ Holds(Top(t)) /\ Top(t).op \in {"connect", "disconnect"}
  BY DEF Park, At, Holds
<1>2. Top(t) \in Call /\ CallInv(Top(t))
  BY <1>1, HolderFacts
<1>3. PICK d \in Call : d = Top(t)
  BY <1>2
<1> DEFINE j == NextIn(CloseOrder, 0)
<1>4. j \in 1..6 /\ (j = 6 \/ CloseOrder[j] \in Attached) /\ \A k \in 1..j - 1 : CloseOrder[k] \notin Attached
  BY NextInOrder
<1>5. PICK c \in Call : c = [d EXCEPT !.pc = "close", !.at = j]
  <2>1. j \in 0..6
    BY <1>4
  <2> HIDE DEF j
  <2>2. [d EXCEPT !.pc = "close", !.at = j] \in Call
    BY <2>1 DEF Call
  <2> QED BY <2>2
<1>6. Goes(t, c)
  BY <1>3, <1>5 DEF Park
<1> HIDE DEF j
<1>7. /\ c.op = d.op /\ c.before = d.before /\ c.running = d.running /\ c.crossed = d.crossed
      /\ c.pc = "close" /\ c.at = j /\ c.end = d.end /\ c.armed = d.armed
  BY <1>5 DEF Call
<1>8. /\ UNCHANGED <<open, hot, disconnecting, count, holder, interrupts, last>>
      /\ neck' \in IF Armed /\ (d.op = "connect" => d.armed) THEN {"soft", "failed"} ELSE {neck}
  BY <1>3 DEF Park, flags
<1>9. RobotType' /\ hot' \in BOOLEAN /\ Eases /\ Armed' = Armed
  <2>1. neck' \in {"held", "soft", "failed"} /\ (neck' = neck \/ neck' # "held")
    BY <1>8 DEF IInv, TypeOK
  <2> QED BY <2>1, <1>8 DEF IInv, TypeOK, RobotType, Eases, Armed
<1>a. Holds(c) /\ Placed(c)
  BY <1>2, <1>3, <1>1, <1>4, <1>7 DEF CallInv, Placed, Holds
<1>b. Swept(c)'
  <2>1. ClosedUpTo(j)'
    BY <1>4 DEF ClosedUpTo
  <2> QED BY <2>1, <1>7 DEF Swept
<1>c. Arming(c)'
  BY <1>2, <1>3, <1>1, <1>7, <1>8, <1>9 DEF CallInv, Arming, Holds
<1>d. Eased(c)'
  BY <1>7, <1>8, <1>9 DEF Eased
<1> QED BY <1>1, <1>3, <1>6, <1>7, <1>8, <1>9, <1>a, <1>b, <1>c, <1>d, HolderStep

(* What closing the resource of a step adds to what is closed already.     *)
LEMMA ClosesOneMore ==
  ASSUME NEW i \in 1..5, CloseOrder[i] \in Attached, ClosedUpTo(i),
         \A r \in Attached : open'[r] = "open" => open[r] = "open",
         open'[CloseOrder[i]] # "open"
  PROVE  ClosedUpTo(NextIn(CloseOrder, i))'
<1>1. NextIn(CloseOrder, i) \in i + 1..6 /\ \A k \in i + 1..NextIn(CloseOrder, i) - 1 : CloseOrder[k] \notin Attached
  BY NextInOrder
<1>2. ASSUME NEW k \in 1..5, k < NextIn(CloseOrder, i), CloseOrder[k] \in Attached PROVE open'[CloseOrder[k]] # "open"
  <2>1. k < i \/ k = i
    BY <1>1, <1>2
  <2> QED BY <2>1, <1>2 DEF ClosedUpTo
<1> QED BY <1>2 DEF ClosedUpTo

(* At the end of the order everything is closed. *)
LEMMA ClosesAll == ClosedUpTo(6) => NoneOpen
<1> SUFFICES ASSUME ClosedUpTo(6) PROVE NoneOpen
  OBVIOUS
<1>1. ASSUME NEW r \in Attached PROVE open[r] # "open"
  <2>1. \E i \in 1..5 : CloseOrder[i] = r
    <3>1. r \in {"display", "speaker", "camera", "mic", "driver"}
      BY ConstantsAssumption
    <3> QED BY <3>1 DEF CloseOrder
  <2> QED BY <2>1 DEF ClosedUpTo
<1> QED BY <1>1 DEF NoneOpen

(* The rollback closes one resource, or an interrupt ends it.              *)
LEMMA RollbackCloseKeeps ==
  ASSUME IInv, NEW t \in Thread, RollbackClose(t)
  PROVE  IInv'
<1>1. Busy(t) /\ Top(t).op = "connect" /\ Top(t).pc = "close" /\ Holds(Top(t))
  BY DEF RollbackClose, At, Holds
<1>2. Top(t) \in Call /\ CallInv(Top(t))
  BY <1>1, HolderFacts
<1>3. PICK d \in Call : d = Top(t)
  BY <1>2
<1>4. /\ d.at \in 1..6 /\ (d.at < 6 => CloseOrder[d.at] \in Attached)
      /\ d.end # "ok" /\ (interrupts = 0 => ClosedUpTo(d.at))
      /\ (interrupts = 0 /\ Armed => d.armed) /\ (Armed /\ d.armed => neck # "held")
  BY <1>1, <1>2, <1>3 DEF CallInv, Placed, Swept, Arming, Eased, Holds
<1>5. /\ open \in [Attached -> {"closed", "open", "stuck"}] /\ interrupts \in Nat
      /\ UNCHANGED <<neck, hot, count, disconnecting, holder, last>>
  BY DEF RollbackClose, flags, IInv, TypeOK
<1> DEFINE r == CloseOrder[d.at]
           skipped == r = "driver" /\ ~d.armed
           Ends == /\ d.at = 6 /\ UNCHANGED <<open, interrupts>>
                   /\ Goes(t, [d EXCEPT !.pc = "leave"])
           Closes == /\ d.at < 6 /\ UNCHANGED interrupts
                     /\ open' \in IF skipped THEN {open} ELSE {[open EXCEPT ![r] = s] : s \in {"closed", Stuck(r)}}
                     /\ Goes(t, [d EXCEPT !.at = NextIn(CloseOrder, @)])
           Breaks == /\ d.at < 6 /\ Interrupt(t)
                     /\ open' \in IF skipped THEN {open} ELSE {open, [open EXCEPT ![r] = "closed"]}
                     /\ Goes(t, [d EXCEPT !.pc = "leave", !.end = "interrupted"])
(* What the three ends of a step share. *)
<1>6. ASSUME NEW p \in {"close", "leave"}, NEW j \in 0..6, NEW e \in {d.end, "interrupted"},
             Goes(t, [d EXCEPT !.pc = p, !.at = j, !.end = e]),
             interrupts' = interrupts \/ interrupts' = interrupts + 1,
             open' \in [Attached -> {"closed", "open", "stuck"}],
             \A q \in Attached : open'[q] = "open" => open[q] = "open",
             p = "close" => j \in 1..6 /\ (j < 6 => CloseOrder[j] \in Attached) /\ (interrupts' = 0 => ClosedUpTo(j)'),
             p = "leave" /\ interrupts' = 0 => NoneOpen'
      PROVE  IInv'
  <2>1. PICK c \in Call : c = [d EXCEPT !.pc = p, !.at = j, !.end = e]
    <3>1. e \in {None, "ok", "raised", "interrupted"}
      BY DEF Call
    <3> QED BY <3>1 DEF Call
  <2>2. /\ c.op = d.op /\ c.before = d.before /\ c.running = d.running /\ c.crossed = d.crossed
        /\ c.pc = p /\ c.at = j /\ c.end = e /\ c.armed = d.armed /\ Holds(c)
    BY <2>1 DEF Call, Holds
  <2>3. RobotType' /\ hot' \in BOOLEAN
    BY <1>5, <1>6 DEF RobotType, IInv, TypeOK
  <2>4. (Armed' => Armed) /\ (interrupts' = 0 => interrupts = 0)
    BY <1>5, <1>6 DEF Armed
  <2>5. Placed(c) /\ c.end # "ok"
    BY <2>2, <1>4, <1>6, <1>1, <1>3 DEF Placed
  <2>6. Swept(c)'
    BY <2>2, <1>6, <1>1, <1>3 DEF Swept
  <2>7. Arming(c)' /\ Eased(c)'
    <3>1. c.op = "connect" /\ c.pc \notin {"open", "check"}
      BY <2>2, <1>1, <1>3
    <3>2. Arming(c)'
      BY <3>1, <2>2, <2>4, <1>4 DEF Arming
    <3>3. Eased(c)'
      BY <3>1, <2>2, <2>4, <1>4, <1>5 DEF Eased
    <3> QED BY <3>2, <3>3
  <2> QED BY <1>1, <1>3, <1>5, <1>6, <2>1, <2>2, <2>3, <2>5, <2>6, <2>7, HolderStep
<1>7. CASE Ends
  <2>1. [d EXCEPT !.pc = "leave", !.at = 6, !.end = d.end] = [d EXCEPT !.pc = "leave"]
    BY <1>7 DEF Call
  <2>2. interrupts' = 0 => NoneOpen'
    <3>1. interrupts = 0 => NoneOpen
      BY <1>4, <1>7, ClosesAll
    <3> QED BY <3>1, <1>7 DEF NoneOpen
  <2>3. 6 \in 0..6
    OBVIOUS
  <2>4. open' \in [Attached -> {"closed", "open", "stuck"}] /\ \A q \in Attached : open'[q] = "open" => open[q] = "open"
    BY <1>5, <1>7
  <2> QED BY <1>6, <1>7, <2>1, <2>2, <2>3, <2>4
<1>8. CASE Closes
  <2>1. d.at \in 1..5 /\ r \in Attached
    BY <1>4, <1>8
  <2>2. NextIn(CloseOrder, d.at) \in d.at + 1..6 /\ (NextIn(CloseOrder, d.at) = 6 \/ CloseOrder[NextIn(CloseOrder, d.at)] \in Attached)
    BY <2>1, NextInOrder
  <2>3. /\ open' \in [Attached -> {"closed", "open", "stuck"}]
        /\ \A q \in Attached : open'[q] = "open" => open[q] = "open"
        /\ interrupts = 0 => open'[r] # "open"
    <3>1. CASE skipped
      <4>1. open' = open
        BY <3>1, <1>8
      <4>2. open[r] = "open" => Armed
        BY <3>1, <2>1 DEF Armed
      <4> QED BY <3>1, <4>1, <4>2, <1>4, <1>5
    <3>2. CASE ~skipped
      <4>1. PICK s \in {"closed", Stuck(r)} : open' = [open EXCEPT ![r] = s]
        BY <3>2, <1>8
      <4>2. s \in {"closed", "stuck"}
        BY DEF Stuck
      <4> QED BY <4>1, <4>2, <1>5, <2>1
    <3> QED BY <3>1, <3>2
  <2>4. interrupts = 0 => ClosedUpTo(NextIn(CloseOrder, d.at))'
    BY <1>4, <2>1, <2>3, ClosesOneMore
  <2> DEFINE j == NextIn(CloseOrder, d.at)
  <2>5. [d EXCEPT !.pc = "close", !.at = j, !.end = d.end] = [d EXCEPT !.at = NextIn(CloseOrder, @)]
    BY <1>1, <1>3 DEF Call
  <2>6. j \in 0..6 /\ j \in 1..6 /\ (j < 6 => CloseOrder[j] \in Attached)
    BY <2>1, <2>2
  <2>7. ClosedUpTo(j)' \/ interrupts' # 0
    BY <2>4, <1>8
  <2>8. Goes(t, [d EXCEPT !.pc = "close", !.at = j, !.end = d.end])
    BY <2>5, <1>8
  <2> HIDE DEF j
  <2> QED BY <1>6, <1>8, <2>3, <2>6, <2>7, <2>8
<1>9. CASE Breaks
  <2>1. [d EXCEPT !.pc = "leave", !.at = d.at, !.end = "interrupted"] = [d EXCEPT !.pc = "leave", !.end = "interrupted"]
    BY DEF Call
  <2>2. interrupts' = interrupts + 1 /\ interrupts' # 0
    BY <1>5, <1>9 DEF Interrupt
  <2>3. r \in Attached /\ d.at \in 0..6
    BY <1>4, <1>9
  <2>4. open' \in {open, [open EXCEPT ![r] = "closed"]}
    BY <1>9
  <2>5. open' \in [Attached -> {"closed", "open", "stuck"}] /\ \A q \in Attached : open'[q] = "open" => open[q] = "open"
    BY <1>5, <2>3, <2>4
  <2> QED BY <1>6, <1>9, <2>1, <2>2, <2>3, <2>5
<1>10. Ends \/ Closes \/ Breaks
  BY <1>3 DEF RollbackClose, GoesTo
<1> QED BY <1>7, <1>8, <1>9, <1>10

(* The disconnect closes one resource, or lets the driver's error out.     *)
LEMMA CloseKeeps ==
  ASSUME IInv, NEW t \in Thread, Close(t)
  PROVE  IInv'
<1>1. Busy(t) /\ Top(t).op = "disconnect" /\ Top(t).pc = "close" /\ Holds(Top(t))
  BY DEF Close, At, Holds
<1>2. Top(t) \in Call /\ CallInv(Top(t))
  BY <1>1, HolderFacts
<1>3. PICK d \in Call : d = Top(t)
  BY <1>2
<1>4. /\ d.at \in 1..6 /\ (d.at < 6 => CloseOrder[d.at] \in Attached)
      /\ ClosedUpTo(d.at) /\ (Armed => neck # "held")
  BY <1>1, <1>2, <1>3 DEF CallInv, Placed, Swept, Eased
<1>5. /\ open \in [Attached -> {"closed", "open", "stuck"}]
      /\ UNCHANGED <<neck, hot, count, disconnecting, holder, interrupts, last>>
  BY DEF Close, flags, IInv, TypeOK
<1> DEFINE r == CloseOrder[d.at]
           j == NextIn(CloseOrder, d.at)
(* What the ends of a step share. *)
<1>6. ASSUME NEW p \in {"close", "clear", "leave"}, NEW i \in 0..6, NEW e \in {None, "ok", "raised", "interrupted"}, NEW k \in BOOLEAN,
             Goes(t, [d EXCEPT !.pc = p, !.at = i, !.end = e, !.kept = k]),
             open' \in [Attached -> {"closed", "open", "stuck"}],
             \A q \in Attached : open'[q] = "open" => open[q] = "open",
             p = "close" => i \in 1..6 /\ (i < 6 => CloseOrder[i] \in Attached) /\ ClosedUpTo(i)',
             p # "close" => NoneOpen'
      PROVE  IInv'
  <2>1. PICK c \in Call : c = [d EXCEPT !.pc = p, !.at = i, !.end = e, !.kept = k]
    BY DEF Call
  <2>2. /\ c.op = d.op /\ c.before = d.before /\ c.running = d.running /\ c.crossed = d.crossed
        /\ c.pc = p /\ c.at = i /\ Holds(c)
    BY <2>1 DEF Call, Holds
  <2>3. RobotType' /\ hot' \in BOOLEAN /\ Eases
    BY <1>5, <1>6 DEF RobotType, Eases, IInv, TypeOK
  <2>4. Armed' => Armed
    BY <1>5, <1>6 DEF Armed
  <2>5. c.op = "disconnect"
    BY <2>2, <1>1, <1>3
  <2>6. Placed(c) /\ Swept(c)' /\ Arming(c)'
    BY <2>2, <2>5, <1>6 DEF Placed, Swept, Arming
  <2>7. Eased(c)'
    BY <2>4, <1>4, <1>5 DEF Eased
  <2> QED BY <1>1, <1>3, <1>5, <1>6, <2>1, <2>2, <2>3, <2>5, <2>6, <2>7, HolderStep
<1>7. CASE d.at = 6 /\ UNCHANGED open /\ Goes(t, [d EXCEPT !.pc = "clear"])
  <2>1. [d EXCEPT !.pc = "clear", !.at = 6, !.end = d.end, !.kept = d.kept] = [d EXCEPT !.pc = "clear"]
    BY <1>7 DEF Call
  <2>2. NoneOpen'
    <3>1. NoneOpen
      BY <1>4, <1>7, ClosesAll
    <3> QED BY <3>1, <1>7 DEF NoneOpen
  <2>3. d.end \in {None, "ok", "raised", "interrupted"} /\ d.kept \in BOOLEAN /\ 6 \in 0..6
    BY DEF Call
  <2>4. open' \in [Attached -> {"closed", "open", "stuck"}] /\ \A q \in Attached : open'[q] = "open" => open[q] = "open"
    BY <1>5, <1>7
  <2>5. Goes(t, [d EXCEPT !.pc = "clear", !.at = 6, !.end = d.end, !.kept = d.kept])
    BY <1>7, <2>1
  <2> QED BY <1>6, <2>2, <2>3, <2>4, <2>5
<1>8. ASSUME d.at < 6, NEW s \in {"closed", "stuck"}, open' = [open EXCEPT ![r] = s]
      PROVE  /\ open' \in [Attached -> {"closed", "open", "stuck"}]
             /\ \A q \in Attached : open'[q] = "open" => open[q] = "open"
             /\ j \in 1..6 /\ (j < 6 => CloseOrder[j] \in Attached) /\ ClosedUpTo(j)'
             /\ r = "driver" => NoneOpen'
  <2>1. d.at \in 1..5 /\ r \in Attached
    BY <1>4, <1>8
  <2>2. j \in d.at + 1..6 /\ (j = 6 \/ CloseOrder[j] \in Attached)
    BY <2>1, NextInOrder
  <2>3. /\ open' \in [Attached -> {"closed", "open", "stuck"}]
        /\ \A q \in Attached : open'[q] = "open" => open[q] = "open"
        /\ open'[r] # "open"
    BY <1>5, <1>8, <2>1
  <2>4. ClosedUpTo(j)'
    BY <1>4, <2>1, <2>3, ClosesOneMore
  <2>5. r = "driver" => NoneOpen'
    <3>1. ASSUME r = "driver" PROVE d.at = 5
      BY <2>1, <3>1 DEF CloseOrder
    <3>2. ASSUME r = "driver" PROVE ClosedUpTo(6)'
      <4>1. j = 6
        BY <2>2, <3>1, <3>2
      <4> QED BY <2>4, <4>1
    <3>3. ClosedUpTo(6)' => NoneOpen'
      BY ClosesAll, PTL
    <3> QED BY <3>2, <3>3
  <2> QED BY <2>1, <2>2, <2>3, <2>4, <2>5
<1>9. ASSUME d.at < 6, NEW s \in {"closed", "stuck"}, open' = [open EXCEPT ![r] = s], NEW k \in BOOLEAN,
             Goes(t, [d EXCEPT !.at = j, !.kept = k])
      PROVE  IInv'
  <2>1. [d EXCEPT !.pc = "close", !.at = j, !.end = d.end, !.kept = k] = [d EXCEPT !.at = j, !.kept = k]
    BY <1>1, <1>3 DEF Call
  <2>2. Goes(t, [d EXCEPT !.pc = "close", !.at = j, !.end = d.end, !.kept = k])
    BY <2>1, <1>9
  <2>3. /\ open' \in [Attached -> {"closed", "open", "stuck"}]
        /\ \A q \in Attached : open'[q] = "open" => open[q] = "open"
        /\ j \in 1..6 /\ (j < 6 => CloseOrder[j] \in Attached) /\ ClosedUpTo(j)'
    <3> HIDE DEF j
    <3> QED BY <1>8, <1>9
  <2>5. j \in 0..6
    BY <2>3
  <2>4. d.end \in {None, "ok", "raised", "interrupted"}
    BY DEF Call
  <2> HIDE DEF j
  <2> QED BY <1>6, <2>2, <2>3, <2>4, <2>5
<1>a. CASE d.at < 6 /\ open' = [open EXCEPT ![r] = "closed"] /\ Goes(t, [d EXCEPT !.at = j])
  <2>1. [d EXCEPT !.at = j, !.kept = d.kept] = [d EXCEPT !.at = j] /\ d.kept \in BOOLEAN
    BY DEF Call
  <2> QED BY <1>9, <1>a, <2>1
<1>b. CASE d.at < 6 /\ open' = [open EXCEPT ![r] = Stuck(r)] /\ r = "driver"
           /\ Goes(t, [d EXCEPT !.pc = "leave", !.end = "raised"])
  <2>1. [d EXCEPT !.pc = "leave", !.at = d.at, !.end = "raised", !.kept = d.kept] = [d EXCEPT !.pc = "leave", !.end = "raised"]
    BY DEF Call
  <2>2. d.at \in 0..6 /\ d.kept \in BOOLEAN
    BY DEF Call
  <2>3. Stuck(r) \in {"closed", "stuck"}
    BY DEF Stuck
  <2>4. /\ open' \in [Attached -> {"closed", "open", "stuck"}]
        /\ \A q \in Attached : open'[q] = "open" => open[q] = "open"
        /\ NoneOpen'
    BY <1>8, <1>b, <2>3
  <2>5. Goes(t, [d EXCEPT !.pc = "leave", !.at = d.at, !.end = "raised", !.kept = d.kept])
    BY <1>b, <2>1
  <2> QED BY <1>6, <2>2, <2>4, <2>5
<1>c. CASE d.at < 6 /\ open' = [open EXCEPT ![r] = Stuck(r)] /\ r # "driver"
           /\ \E stop \in BOOLEAN : Goes(t, [[d EXCEPT !.at = j] EXCEPT !.kept = @ \/ stop])
  <2>1. PICK stop \in BOOLEAN : Goes(t, [[d EXCEPT !.at = j] EXCEPT !.kept = @ \/ stop])
    BY <1>c
  <2>2. [[d EXCEPT !.at = j] EXCEPT !.kept = @ \/ stop] = [d EXCEPT !.at = j, !.kept = d.kept \/ stop]
    BY DEF Call
  <2>3. Stuck(r) \in {"closed", "stuck"} /\ (d.kept \/ stop) \in BOOLEAN
    BY DEF Stuck
  <2> QED BY <1>9, <1>c, <2>1, <2>2, <2>3
<1>d. \/ d.at = 6 /\ UNCHANGED open /\ Goes(t, [d EXCEPT !.pc = "clear"])
      \/ d.at < 6 /\ open' = [open EXCEPT ![r] = "closed"] /\ Goes(t, [d EXCEPT !.at = j])
      \/ /\ d.at < 6 /\ open' = [open EXCEPT ![r] = Stuck(r)]
         /\ IF r = "driver" THEN Goes(t, [d EXCEPT !.pc = "leave", !.end = "raised"])
            ELSE \E stop \in BOOLEAN : Goes(t, [[d EXCEPT !.at = j] EXCEPT !.kept = @ \/ stop])
  <2>1. [d EXCEPT !.at = NextIn(CloseOrder, @)] = [d EXCEPT !.at = j]
    OBVIOUS
  <2> QED BY <1>3, <2>1 DEF Close, GoesTo
<1> QED BY <1>7, <1>a, <1>b, <1>c, <1>d

(* The disconnect forgets the heat. *)
LEMMA ClearKeeps ==
  ASSUME IInv, NEW t \in Thread, Clear(t)
  PROVE  IInv'
<1>1. Busy(t) /\ Top(t).op = "disconnect" /\ Top(t).pc = "clear" /\ Holds(Top(t))
  BY DEF Clear, At, Holds
<1>2. PICK d \in Call : d = Top(t) /\ CallInv(d)
  BY <1>1, HolderFacts
<1> DEFINE e == IF d.kept THEN "interrupted" ELSE "ok"
<1>3. PICK c \in Call : c = [d EXCEPT !.pc = "leave", !.end = e]
  BY DEF Call
<1>4. /\ c.op = "disconnect" /\ c.pc = "leave" /\ c.before = d.before /\ c.running = d.running
      /\ c.crossed = d.crossed
  BY <1>1, <1>2, <1>3 DEF Call
<1>5. Goes(t, c)
  BY <1>2, <1>3 DEF Clear
<1>6. RobotType' /\ hot' \in BOOLEAN /\ Eases /\ UNCHANGED <<open, count, disconnecting, holder, interrupts, last>>
  BY DEF Clear, flags, IInv, TypeOK, RobotType, Eases
<1>7. NoneOpen'
  <2>1. NoneOpen
    BY <1>1, <1>2 DEF CallInv, Swept
  <2> QED BY <2>1, <1>6 DEF NoneOpen
<1>8. Holds(c) /\ Placed(c) /\ Swept(c)' /\ Arming(c)' /\ Eased(c)'
  BY <1>4, <1>7 DEF Holds, Placed, Swept, Arming, Eased
<1> QED BY <1>1, <1>2, <1>4, <1>5, <1>6, <1>8, HolderStep

-----------------------------------------------------------------------------
(* The steps of the calls that are not past the lock.                      *)

(* A step that leaves the calls under the lock, and what they work on.     *)
LEMMA WaiterStep ==
  ASSUME IInv, NEW t \in Thread, UNCHANGED <<robot, flags, holder, last>>,
         interrupts' = interrupts \/ interrupts' = interrupts + 1,
         calls' \in [Thread -> Seq(Call)], Nested',
         \A u \in Thread : u # t => calls'[u] = calls[u],
         \A i \in 1..Len(calls'[t]) :
           \/ i \in 1..Len(calls[t]) /\ calls'[t][i] = calls[t][i]
           \/ ~Holds(calls'[t][i]) /\ Placed(calls'[t][i]) /\ Crossing(calls[t][i])',
         \A i \in 1..Len(calls[t]) :
           Holds(calls[t][i]) => i \in 1..Len(calls'[t]) /\ calls'[t][i] = calls[t][i]
  PROVE  IInv'
<1>1. /\ UNCHANGED <<open, neck, hot, count, disconnecting, holder, last>> /\ Eases
  BY DEF robot, flags, Eases
<1>t. TypeOK
  BY DEF IInv
<1>T. TypeOK'
  BY <1>1, <1>t DEF TypeOK
<1>2. ASSUME NEW u \in Thread, NEW i \in 1..Len(calls'[u]), Holds(calls'[u][i])
      PROVE  i \in 1..Len(calls[u]) /\ calls'[u][i] = calls[u][i]
  BY <1>2
<1>3. ASSUME NEW u \in Thread, NEW i \in 1..Len(calls[u]), Holds(calls[u][i])
      PROVE  i \in 1..Len(calls'[u]) /\ calls'[u][i] = calls[u][i]
  BY <1>3
<1>4. Locked'
  <2>1. \A u \in Thread : \A i \in 1..Len(calls'[u]) : Holds(calls'[u][i]) => holder' = u
    BY <1>1, <1>2 DEF IInv, Locked
  <2>2. holder' # None => \E i \in 1..Len(calls'[holder']) : Holds(calls'[holder'][i])
    <3> SUFFICES ASSUME holder # None PROVE \E i \in 1..Len(calls'[holder]) : Holds(calls'[holder][i])
      BY <1>1
    <3>1. holder \in Thread
      BY <1>t DEF TypeOK
    <3>2. PICK i \in 1..Len(calls[holder]) : Holds(calls[holder][i])
      BY DEF IInv, Locked
    <3> QED BY <3>1, <3>2, <1>3
  <2> QED BY <2>1, <2>2 DEF Locked
<1>5. Flagged'
  <2> SUFFICES ASSUME NEW u \in Thread, NEW i \in 1..Len(calls'[u]), calls'[u][i].op = "disconnect", Holds(calls'[u][i])
               PROVE  disconnecting'
    BY DEF Flagged
  <2>1. i \in 1..Len(calls[u]) /\ calls'[u][i] = calls[u][i]
    BY <1>2
  <2> QED BY <2>1, <1>1 DEF IInv, Flagged
<1>6. Overruled'
  <2> SUFFICES ASSUME NEW u \in Thread, NEW i \in 1..Len(calls'[u]),
                      calls'[u][i].op = "connect", calls'[u][i].pc = "leave", calls'[u][i].end = "ok", calls'[u][i].crossed
               PROVE  NoneOpen' \/ (i = 1 /\ Len(calls'[u]) = 2 /\ Holds(calls'[u][2]))
    BY DEF Overruled
  <2>1. Holds(calls'[u][i])
    BY DEF Holds
  <2>2. i \in 1..Len(calls[u]) /\ calls'[u][i] = calls[u][i]
    BY <1>2, <2>1
  <2>3. NoneOpen \/ (i = 1 /\ Len(calls[u]) = 2 /\ Holds(calls[u][2]))
    BY <2>2 DEF IInv, Overruled
  <2>4. CASE NoneOpen
    BY <2>4, <1>1 DEF NoneOpen
  <2>5. CASE i = 1 /\ Len(calls[u]) = 2 /\ Holds(calls[u][2])
    <3>1. 2 \in 1..Len(calls[u])
      BY <2>5
    <3>2. 2 \in 1..Len(calls'[u]) /\ calls'[u][2] = calls[u][2]
      BY <2>5, <3>1, <1>3
    <3>3. Len(calls'[u]) \in 0..2
      BY DEF Nested
    <3>4. Len(calls'[u]) = 2
      BY <3>2, <3>3
    <3> QED BY <2>5, <3>2, <3>4
  <2> QED BY <2>3, <2>4, <2>5
<1>7. Counting => Counting'
  <2> SUFFICES ASSUME Counting PROVE Counting'
    OBVIOUS
  <2>1. PICK u \in Thread : \E i \in 1..Len(calls[u]) : calls[u][i].op = "disconnect" /\ calls[u][i].pc = "count"
    BY DEF Counting
  <2>2. PICK i \in 1..Len(calls[u]) : calls[u][i].op = "disconnect" /\ calls[u][i].pc = "count"
    BY <2>1
  <2>3. i \in 1..Len(calls'[u]) /\ calls'[u][i] = calls[u][i]
    BY <2>2, <1>3 DEF Holds
  <2> QED BY <2>2, <2>3 DEF Counting
<1>8. ASSUME NEW u \in Thread, NEW i \in 1..Len(calls'[u]) PROVE CallInv(calls[u][i])'
  <2>0. calls'[u][i] \in Call
    OBVIOUS
  <2>1. CASE i \in 1..Len(calls[u]) /\ calls'[u][i] = calls[u][i]
    <3>1. PICK d \in Call : d = calls[u][i] /\ d = calls'[u][i]
      BY <2>0, <2>1
    <3>2. CallInv(d)
      BY <2>1, <3>1 DEF IInv
    <3>3. Swept(d)' /\ Arming(d)' /\ Eased(d)'
      BY <3>2, <1>1, <1>t, <1>T, CallKept DEF CallInv
    <3>4. Crossing(d)' /\ Placed(d)'
      BY <3>2, <1>1, <1>7 DEF CallInv, Crossing, Placed
    <3> QED BY <3>1, <3>3, <3>4 DEF CallInv
  <2>2. CASE u = t /\ ~Holds(calls'[u][i]) /\ Placed(calls'[u][i]) /\ Crossing(calls[u][i])'
    <3>1. Swept(calls[u][i])' /\ Arming(calls[u][i])' /\ Eased(calls[u][i])'
      BY <2>2 DEF Swept, Arming, Eased, Holds
    <3>2. Placed(calls[u][i])'
      BY <2>2 DEF Placed
    <3> QED BY <2>2, <3>1, <3>2 DEF CallInv
  <2> QED BY <2>1, <2>2
<1>9. NothingLeaks'
  BY <1>1, <1>t DEF NothingLeaks, IInv, TypeOK
<1> QED BY <1>T, <1>4, <1>5, <1>6, <1>8, <1>9 DEF IInv

(* Nothing runs in an idle thread. *)
LEMMA IdleThread ==
  ASSUME IInv, NEW t \in Thread, ~Busy(t)
  PROVE  Len(calls[t]) = 0
BY SMT DEF IInv, TypeOK, Busy

(* A call begins, in an idle thread or, a handler's, inside a connect.     *)
LEMMA BeginKeeps ==
  ASSUME IInv, NEW t \in Thread, NEW c \in Call, Begins(t, c),
         UNCHANGED <<robot, flags, holder, interrupts, last>>,
         ~Holds(c), Placed(c), Crossing(c),
         ~Busy(t) \/ (Len(calls[t]) = 1 /\ t = Main /\ calls[t][1].op = "connect" /\ c.op = "disconnect")
  PROVE  IInv'
<1>0. Len(calls[t]) = 0 \/ (Len(calls[t]) = 1 /\ t = Main /\ calls[t][1].op = "connect" /\ c.op = "disconnect")
  BY IdleThread
<1>t. TypeOK
  BY DEF IInv
<1>1. /\ calls' \in [Thread -> Seq(Call)]
      /\ \A u \in Thread : Len(calls'[u]) = IF u = t THEN Len(calls[t]) + 1 ELSE Len(calls[u])
      /\ \A u \in Thread : \A i \in 1..Len(calls[u]) : calls'[u][i] = calls[u][i]
      /\ calls'[t][Len(calls[t]) + 1] = c
  BY <1>t, BeginsChanges
<1>2. \A u \in Thread : u # t => calls'[u] = calls[u]
  BY <1>t DEF Begins, TypeOK
<1>3. Nested'
  <2> SUFFICES ASSUME NEW u \in Thread
               PROVE  /\ Len(calls'[u]) \in 0..2
                      /\ Len(calls'[u]) = 2 => u = Main /\ calls'[u][1].op = "connect" /\ calls'[u][2].op = "disconnect"
    BY DEF Nested
  <2>1. CASE u # t
    BY <2>1, <1>2 DEF IInv, Nested
  <2>2. CASE u = t /\ Len(calls[t]) = 0
    BY <2>2, <1>1
  <2>3. CASE u = t /\ Len(calls[t]) = 1
    <3>1. Len(calls'[t]) = 2 /\ calls'[t][2] = c /\ calls'[t][1] = calls[t][1]
      BY <2>3, <1>1
    <3> QED BY <1>0, <3>1, <2>3
  <2> QED BY <1>0, <2>1, <2>2, <2>3
<1>4. ASSUME NEW i \in 1..Len(calls'[t])
      PROVE  \/ i \in 1..Len(calls[t]) /\ calls'[t][i] = calls[t][i]
             \/ ~Holds(calls'[t][i]) /\ Placed(calls'[t][i]) /\ Crossing(calls[t][i])'
  <2>1. CASE i = Len(calls[t]) + 1
    <3>1. calls'[t][i] = c
      BY <2>1, <1>1
    <3>2. Crossing(c)'
      <4>1. Counting => Counting'
        <5> SUFFICES ASSUME Counting PROVE Counting'
          OBVIOUS
        <5>1. PICK u \in Thread : \E k \in 1..Len(calls[u]) : calls[u][k].op = "disconnect" /\ calls[u][k].pc = "count"
          BY DEF Counting
        <5>2. PICK k \in 1..Len(calls[u]) : calls[u][k].op = "disconnect" /\ calls[u][k].pc = "count"
          BY <5>1
        <5>3. k \in 1..Len(calls'[u]) /\ calls'[u][k] = calls[u][k]
          BY <1>1
        <5> QED BY <5>2, <5>3 DEF Counting
      <4> QED BY <4>1 DEF Crossing, flags
    <3> QED BY <3>1, <3>2
  <2>2. CASE i # Len(calls[t]) + 1
    <3>1. i \in 1..Len(calls[t])
      BY <2>2, <1>1
    <3> QED BY <3>1, <1>1
  <2> QED BY <2>1, <2>2
<1>5. \A i \in 1..Len(calls[t]) : i \in 1..Len(calls'[t]) /\ calls'[t][i] = calls[t][i]
  BY <1>1
<1> QED BY <1>1, <1>2, <1>3, <1>4, <1>5, WaiterStep

(* A new call is a call. *)
LEMMA NewCalls ==
  ASSUME TypeOK
  PROVE  Connecting \in Call /\ Disconnecting \in Call
<1>1. Connecting \in Call
  BY DEF TypeOK, Connecting, Call
<1>2. PICK d \in Call : d = Connecting
  BY <1>1
<1>3. [d EXCEPT !.op = "disconnect", !.pc = "lock", !.before = 0] \in Call
  BY DEF Call
<1> QED BY <1>1, <1>2, <1>3 DEF Disconnecting

(* A connect reads the count; a disconnect begins.                         *)
LEMMA BeginsKeep ==
  ASSUME IInv, NEW t \in Thread, BeginConnect(t) \/ BeginDisconnect(t)
  PROVE  IInv'
<1>1. count \in Nat /\ None \in {None, "ok", "raised", "interrupted"}
  BY DEF IInv, TypeOK
<1>2. Connecting \in Call /\ Disconnecting \in Call
  BY NewCalls DEF IInv
<1>3. PICK c \in Call, d \in Call : c = Connecting /\ d = Disconnecting
  BY <1>2
<1>4. /\ c.op = "connect" /\ c.pc = "flag" /\ c.before = count /\ ~c.crossed /\ c.end = None
      /\ ~c.running /\ d.op = "disconnect" /\ d.pc = "lock"
  BY <1>3 DEF Connecting, Disconnecting
<1>5. ~Holds(c) /\ ~Holds(d) /\ Placed(c) /\ Placed(d) /\ Crossing(c) /\ Crossing(d)
  BY <1>1, <1>4, ConstantsAssumption DEF Holds, Placed, Crossing
<1>6. ~Busy(t)
  BY DEF BeginConnect, BeginDisconnect
<1>7. Begins(t, c) \/ Begins(t, d)
  BY <1>3 DEF BeginConnect, BeginDisconnect
<1>8. UNCHANGED <<robot, flags, holder, interrupts, last>>
  BY DEF BeginConnect, BeginDisconnect
<1>9. ASSUME NEW e \in {c, d}, Begins(t, e) PROVE IInv'
  <2>1. e \in Call /\ ~Holds(e) /\ Placed(e) /\ Crossing(e)
    BY <1>5
  <2> QED BY <2>1, <1>6, <1>8, <1>9, BeginKeeps
<1> QED BY <1>7, <1>9

(* The application's handler, which interrupts connects only. *)
LEMMA SignalKeeps ==
  ASSUME IInv, "disconnect" \notin Handled, Signal
  PROVE  IInv'
<1>1. Disconnecting \in Call
  BY NewCalls DEF IInv
<1>2. PICK d \in Call : d = Disconnecting
  BY <1>1
<1>3. d.op = "disconnect" /\ d.pc = "lock"
  BY <1>2 DEF Connecting, Disconnecting
<1>4. ~Holds(d) /\ Placed(d) /\ Crossing(d)
  BY <1>3 DEF Holds, Placed, Crossing
<1>5. Main \in Thread
  BY ConstantsAssumption
<1>6. Len(calls[Main]) = 1 /\ Top(Main).op \in {"connect"}
  BY ConstantsAssumption DEF Signal
<1>7. calls[Main][1].op = "connect"
  BY <1>6 DEF Top
<1>8. Begins(Main, d) /\ UNCHANGED <<robot, flags, holder, interrupts, last>>
  BY <1>2 DEF Signal
<1> QED BY <1>3, <1>4, <1>5, <1>6, <1>7, <1>8, BeginKeeps

(* A call that waits for the lock is on its own, or a handler's.           *)
LEMMA WaiterFacts ==
  ASSUME IInv, NEW t \in Thread, Busy(t), Top(t).op = "connect"
  PROVE  /\ Len(calls[t]) = 1 /\ Top(t) = calls[t][1]
         /\ Top(t) \in Call /\ CallInv(Top(t))
<1>1. Len(calls[t]) \in 1..Len(calls[t]) /\ Top(t) \in Call /\ Top(t) = calls[t][Len(calls[t])]
  BY CallsType DEF IInv, Top
<1>2. Len(calls[t]) \in 0..2 /\ (Len(calls[t]) = 2 => calls[t][2].op = "disconnect")
  BY DEF IInv, Nested
<1>3. Len(calls[t]) = 1
  BY <1>1, <1>2
<1>4. CallInv(Top(t))
  BY <1>1 DEF IInv
<1> QED BY <1>1, <1>3, <1>4

(* A call that waits gives up, or is turned away.                          *)
LEMMA PopKeeps ==
  ASSUME IInv, NEW t \in Thread, Busy(t), Top(t).op = "connect", ~Holds(Top(t)),
         calls' = [calls EXCEPT ![t] = Popped(t)],
         UNCHANGED <<robot, flags, holder, last>>,
         interrupts' = interrupts \/ interrupts' = interrupts + 1
  PROVE  IInv'
<1>t. TypeOK
  BY DEF IInv
<1>1. /\ calls' \in [Thread -> Seq(Call)]
      /\ \A u \in Thread : Len(calls'[u]) = IF u = t THEN Len(calls[t]) - 1 ELSE Len(calls[u])
      /\ \A u \in Thread : \A i \in 1..Len(calls'[u]) : i \in 1..Len(calls[u]) /\ calls'[u][i] = calls[u][i]
  BY <1>t, PopChanges
<1>2. \A u \in Thread : u # t => calls'[u] = calls[u]
  BY <1>t DEF TypeOK
<1>3. Len(calls[t]) = 1 /\ Top(t) = calls[t][1]
  BY WaiterFacts
<1>4. Nested'
  BY <1>1, <1>3 DEF IInv, Nested
<1>5. \A i \in 1..Len(calls[t]) : ~Holds(calls[t][i])
  BY <1>3
<1> QED BY <1>1, <1>2, <1>4, <1>5, WaiterStep

(* The flag is read. *)
LEMMA ReadFlagKeeps ==
  ASSUME IInv, NEW t \in Thread, ReadFlag(t)
  PROVE  IInv'
<1>1. Busy(t) /\ Top(t).op = "connect" /\ Top(t).pc = "flag" /\ ~Holds(Top(t))
  BY DEF ReadFlag, At, Holds
<1>t. TypeOK
  BY DEF IInv
<1>2. Len(calls[t]) = 1 /\ Top(t) = calls[t][1] /\ Top(t) \in Call /\ CallInv(Top(t))
  BY <1>1, WaiterFacts
<1>3. PICK d \in Call : d = Top(t)
  BY <1>2
<1>4. PICK c \in Call : c = [d EXCEPT !.pc = "lock", !.running = disconnecting, !.crossed = @ \/ TearsDown]
  <2>1. disconnecting \in BOOLEAN /\ (d.crossed \/ TearsDown) \in BOOLEAN
    BY <1>t DEF TypeOK
  <2>2. [d EXCEPT !.pc = "lock", !.running = disconnecting, !.crossed = d.crossed \/ TearsDown] \in Call
    BY <2>1 DEF Call
  <2> QED BY <2>2
<1>5. /\ c.op = "connect" /\ c.pc = "lock" /\ c.before = d.before /\ c.end = d.end
      /\ c.running = disconnecting /\ c.crossed = (d.crossed \/ TearsDown)
  BY <1>1, <1>3, <1>4 DEF Call
<1>6. Goes(t, c) /\ UNCHANGED <<robot, flags, holder, interrupts, last>>
  BY <1>3, <1>4 DEF ReadFlag
<1>7. /\ calls' \in [Thread -> Seq(Call)]
      /\ \A u \in Thread : Len(calls'[u]) = Len(calls[u])
      /\ \A u \in Thread : \A i \in 1..Len(calls[u]) :
           calls'[u][i] = IF u = t /\ i = Len(calls[t]) THEN c ELSE calls[u][i]
  BY <1>t, <1>1, <1>6, GoesChanges
<1>8. \A u \in Thread : u # t => calls'[u] = calls[u]
  BY <1>t, <1>6 DEF Goes, TypeOK
<1>9. Nested'
  BY <1>2, <1>7 DEF IInv, Nested
<1>a. TearsDown => disconnecting
  BY DEF TearsDown, IInv, Flagged
<1>b. Counting => disconnecting
  BY DEF Counting, Holds, IInv, Flagged
<1>c. Crossing(c)' /\ Placed(c) /\ ~Holds(c)
  <2>1. Crossing(d)
    BY <1>2, <1>3 DEF CallInv
  <2>2. d.before <= count /\ d.end # "ok"
    BY <2>1, <1>1, <1>2, <1>3 DEF Crossing, CallInv, Placed
  <2>3. count' = count
    BY <1>6 DEF flags
  <2>4. c.crossed => c.running \/ c.before < count
    <3>1. ASSUME d.crossed PROVE d.before < count \/ disconnecting
      <4>1. d.running \/ d.before < count \/ Counting
        BY <2>1, <3>1, <1>1, <1>3 DEF Crossing
      <4>2. ~d.running
        BY <1>1, <1>2, <1>3 DEF CallInv, Placed
      <4> QED BY <4>1, <4>2, <1>b
    <3> QED BY <3>1, <1>5, <1>a
  <2> QED BY <2>2, <2>3, <2>4, <1>5, ConstantsAssumption DEF Crossing, Placed, Holds
<1>d. \A i \in 1..Len(calls[t]) : ~Holds(calls[t][i])
  BY <1>1, <1>2
<1>e. \A i \in 1..Len(calls'[t]) : calls'[t][i] = c
  BY <1>2, <1>7
<1> QED BY <1>6, <1>7, <1>8, <1>9, <1>c, <1>d, <1>e, WaiterStep

(* The first resource of an order is one that is attached. *)
LEMMA SomeAttached == NextIn(OpenOrder, 0) \in 1..5 /\ OpenOrder[NextIn(OpenOrder, 0)] \in Attached
<1> DEFINE j == NextIn(OpenOrder, 0)
<1>1. j \in 1..6 /\ (j = 6 \/ OpenOrder[j] \in Attached) /\ \A k \in 1..j - 1 : OpenOrder[k] \notin Attached
  BY NextInOrder
<1>2. j # 6
  <2> SUFFICES ASSUME j = 6 PROVE FALSE
    OBVIOUS
  <2>1. \A k \in 1..5 : OpenOrder[k] \notin Attached
    BY <1>1
  <2>2. PICK r \in Attached : r \in {"display", "speaker", "camera", "mic", "driver"}
    BY ConstantsAssumption
  <2>3. \E k \in 1..5 : OpenOrder[k] = r
    BY <2>2 DEF OpenOrder
  <2> QED BY <2>1, <2>2, <2>3
<1> QED BY <1>1, <1>2

(* A connect takes the lock: no call is past it, no disconnect has crossed *)
(* this one unseen.                                                        *)
LEMMA EnterKeeps ==
  ASSUME IInv, NEW t \in Thread, Enter(t)
  PROVE  IInv'
<1>1. Busy(t) /\ Top(t).op = "connect" /\ Top(t).pc = "lock" /\ ~Holds(Top(t)) /\ holder \in {None, t}
  BY DEF Enter, At, Holds, Free
<1>t. TypeOK
  BY DEF IInv
<1>2. Len(calls[t]) = 1 /\ Top(t) = calls[t][1] /\ Top(t) \in Call /\ CallInv(Top(t))
  BY <1>1, WaiterFacts
<1>3. PICK d \in Call : d = Top(t)
  BY <1>2
<1>4. CASE d.running \/ count # d.before
  <2>1. calls' = [calls EXCEPT ![t] = Popped(t)] /\ UNCHANGED <<robot, flags, holder, interrupts, last>>
    BY <1>3, <1>4 DEF Enter
  <2> QED BY <2>1, <1>1, PopKeeps
<1>5. CASE ~d.running /\ count = d.before
  <2> DEFINE j == NextIn(OpenOrder, 0)
  <2>1. j \in 1..5 /\ OpenOrder[j] \in Attached
    BY SomeAttached
  <2> HIDE DEF j
  <2>2. Armed \in BOOLEAN
    BY DEF Armed
  <2>3. PICK c \in Call : c = [d EXCEPT !.pc = "open", !.at = j, !.armed = Armed, !.found = Armed]
    <3>1. ASSUME NEW a \in BOOLEAN PROVE [d EXCEPT !.pc = "open", !.at = j, !.armed = a, !.found = a] \in Call
      <4>1. PICK b \in Call : b = [d EXCEPT !.armed = a, !.found = a]
        BY DEF Call
      <4>2. j \in 0..6
        BY <2>1
      <4>3. [b EXCEPT !.pc = "open", !.at = j] \in Call
        BY <4>2 DEF Call
      <4>4. [b EXCEPT !.pc = "open", !.at = j] = [d EXCEPT !.pc = "open", !.at = j, !.armed = a, !.found = a]
        BY <4>1 DEF Call
      <4> QED BY <4>3, <4>4
    <3>2. PICK a \in BOOLEAN : a = Armed
      BY <2>2
    <3> QED BY <3>1, <3>2
  <2>4. /\ c.op = "connect" /\ c.pc = "open" /\ c.at = j /\ c.before = d.before /\ ~c.running
        /\ c.crossed = d.crossed /\ c.armed = Armed /\ c.found = Armed /\ c.end = d.end
    BY <1>1, <1>3, <1>5, <2>3 DEF Call
  <2>5. Goes(t, c) /\ holder' = t /\ UNCHANGED <<robot, flags, interrupts, last>>
    BY <1>3, <1>5, <2>3 DEF Enter, j
  <2>6. /\ calls' \in [Thread -> Seq(Call)]
        /\ \A u \in Thread : Len(calls'[u]) = Len(calls[u])
        /\ \A u \in Thread : \A i \in 1..Len(calls[u]) :
             calls'[u][i] = IF u = t /\ i = Len(calls[t]) THEN c ELSE calls[u][i]
    BY <1>t, <1>1, <2>5, GoesChanges
  <2>7. \A u \in Thread : \A i \in 1..Len(calls[u]) : ~Holds(calls[u][i])
    <3>1. holder = None
      <4>1. CASE holder = t
        <5>1. \E i \in 1..Len(calls[t]) : Holds(calls[t][i])
          BY <4>1, ConstantsAssumption DEF IInv, Locked
        <5> QED BY <5>1, <1>1, <1>2
      <4> QED BY <4>1, <1>1
    <3> QED BY <3>1, ConstantsAssumption DEF IInv, Locked
  <2>8. UNCHANGED <<open, neck, hot, count, disconnecting, interrupts, last>> /\ Eases /\ Armed' = Armed
    BY <2>5 DEF robot, flags, Eases, Armed
  <2>9. TypeOK'
    BY <1>t, <2>5, <2>6, <2>8 DEF TypeOK
  <2>10. Nested' /\ Flagged'
    <3>1. Nested'
      <4> SUFFICES ASSUME NEW u \in Thread
                   PROVE  /\ Len(calls'[u]) \in 0..2
                          /\ Len(calls'[u]) = 2 => u = Main /\ calls'[u][1].op = "connect" /\ calls'[u][2].op = "disconnect"
        BY DEF Nested
      <4>1. Len(calls[u]) \in 0..2 /\ (Len(calls[u]) = 2 => u = Main /\ calls[u][1].op = "connect" /\ calls[u][2].op = "disconnect")
        BY DEF IInv, Nested
      <4>2. CASE u = t
        BY <4>2, <2>6, <1>2
      <4>3. CASE u # t
        BY <4>1, <4>3, <2>6
      <4> QED BY <4>2, <4>3
    <3>2. Flagged'
      BY <2>6, <2>4, <2>7 DEF Flagged
    <3> QED BY <3>1, <3>2
  <2>11. Locked'
    <3>1. Holds(c)
      BY <2>4 DEF Holds
    <3>2. \A u \in Thread : \A i \in 1..Len(calls'[u]) : Holds(calls'[u][i]) => u = t
      BY <2>6, <2>7
    <3>3. 1 \in 1..Len(calls'[t]) /\ calls'[t][1] = c
      BY <1>2, <2>6
    <3> QED BY <2>5, <3>1, <3>2, <3>3 DEF Locked
  <2>12. Overruled'
    BY <2>6, <2>7, <2>4 DEF Overruled, Holds
  <2>13. ~Counting
    BY <2>7 DEF Counting, Holds
  <2>14. ASSUME NEW u \in Thread, NEW i \in 1..Len(calls'[u]) PROVE CallInv(calls[u][i])'
    <3>1. i \in 1..Len(calls[u])
      BY <2>6
    <3>2. CASE u = t
      <4>1. calls'[u][i] = c
        BY <3>1, <3>2, <2>6, <1>2
      <4>2. Crossing(d) /\ Placed(d)
        BY <1>2, <1>3 DEF CallInv
      <4>3. Crossing(c)'
        <5>1. ~d.crossed
          BY <4>2, <1>1, <1>3, <1>5, <2>13 DEF Crossing, Call
        <5> QED BY <5>1, <4>2, <2>4, <2>8, <1>1, <1>3 DEF Crossing
      <4>4. Placed(c)
        BY <4>2, <2>1, <2>4, <1>1, <1>3 DEF Placed
      <4>5. Swept(c)' /\ Eased(c)'
        BY <2>4 DEF Swept, Eased
      <4>6. Arming(c)'
        BY <2>4, <2>8 DEF Arming
      <4> QED BY <4>1, <4>3, <4>4, <4>5, <4>6 DEF CallInv, Placed
    <3>3. CASE u # t
      <4>0. calls'[u][i] = calls[u][i] /\ calls[u][i] \in Call
        BY <3>1, <3>3, <2>6, <1>t, CallsType
      <4>1. PICK e \in Call : e = calls[u][i] /\ e = calls'[u][i]
        BY <4>0
      <4>2. CallInv(e) /\ ~Holds(e)
        BY <3>1, <4>1, <2>7 DEF IInv
      <4>3. Swept(e)' /\ Arming(e)' /\ Eased(e)'
        BY <4>2, <2>8, <2>9, <1>t, CallKept DEF CallInv
      <4>4. Crossing(e)' /\ Placed(e)'
        BY <4>2, <2>8, <2>13 DEF CallInv, Crossing, Placed
      <4> QED BY <4>1, <4>3, <4>4 DEF CallInv
    <3> QED BY <3>2, <3>3
  <2>15. NothingLeaks'
    BY <2>5, ConstantsAssumption DEF NothingLeaks
  <2> QED BY <2>9, <2>10, <2>11, <2>12, <2>14, <2>15 DEF IInv
<1> QED BY <1>4, <1>5

(* A disconnect takes the lock, raises the flag and crosses every connect. *)
LEMMA AcquireKeeps ==
  ASSUME IInv, NEW t \in Thread, Acquire(t)
  PROVE  IInv'
<1>1. Busy(t) /\ Top(t).op = "disconnect" /\ Top(t).pc = "lock" /\ holder \in {None, t}
  BY DEF Acquire, At, Free
<1>t. TypeOK
  BY DEF IInv
<1>2. /\ Len(calls[t]) \in 1..Len(calls[t]) /\ Len(calls[t]) \in {1, 2}
      /\ Top(t) = calls[t][Len(calls[t])] /\ Top(t) \in Call
  <2>1. Len(calls[t]) \in 0..2
    BY DEF IInv, Nested
  <2>2. Len(calls[t]) \in 1..Len(calls[t]) /\ Top(t) \in Call
    BY <1>t, <1>1, CallsType
  <2> QED BY <2>1, <2>2 DEF Top
<1>3. PICK c \in Call : c = [Top(t) EXCEPT !.pc = "count"]
  <2>1. PICK d \in Call : d = Top(t)
    BY <1>2
  <2> QED BY <2>1 DEF Call
<1>4. c.op = "disconnect" /\ c.pc = "count"
  BY <1>1, <1>2, <1>3 DEF Call
<1> DEFINE Cross(e) == [e EXCEPT !.crossed = @ \/ e.op = "connect"]
<1>5. ASSUME NEW e \in Call
      PROVE  /\ Cross(e) \in Call /\ Cross(e).op = e.op /\ Cross(e).pc = e.pc /\ Cross(e).at = e.at
             /\ Cross(e).before = e.before /\ Cross(e).running = e.running /\ Cross(e).armed = e.armed
             /\ Cross(e).found = e.found /\ Cross(e).end = e.end
  <2>1. PICK x \in BOOLEAN : x = (e.crossed \/ e.op = "connect")
    OBVIOUS
  <2>2. [e EXCEPT !.crossed = x] \in Call
    BY DEF Call
  <2>3. Cross(e) = [e EXCEPT !.crossed = x]
    BY <2>1
  <2> QED BY <2>2, <2>3 DEF Call
<1>6. /\ calls' \in [Thread -> Seq(Call)]
      /\ \A u \in Thread : Len(calls'[u]) = Len(calls[u])
      /\ \A u \in Thread : \A i \in 1..Len(calls[u]) :
           calls'[u][i] = IF u = t /\ i = Len(calls[t]) THEN c ELSE Cross(calls[u][i])
  <2> DEFINE New(u, i) == IF u = t /\ i = Len(calls[t]) THEN c ELSE Cross(calls[u][i])
  <2>1. \A u \in Thread : Len(calls[u]) \in Nat /\ \A i \in 1..Len(calls[u]) : calls[u][i] \in Call
    BY <1>t, CallsType
  <2>2. \A u \in Thread : \A i \in 1..Len(calls[u]) : New(u, i) \in Call
    BY <2>1, <1>5
  <2>3. calls' = [u \in Thread |-> [i \in 1..Len(calls[u]) |-> New(u, i)]]
    BY <1>3 DEF Acquire
  <2> HIDE DEF New
  <2>4. \A u \in Thread : calls'[u] \in Seq(Call) /\ Len(calls'[u]) = Len(calls[u]) /\ \A i \in 1..Len(calls[u]) : calls'[u][i] = New(u, i)
    BY <2>1, <2>2, <2>3
  <2>5. calls' \in [Thread -> Seq(Call)]
    BY <2>3, <2>4
  <2> QED BY <2>4, <2>5 DEF New
<1> HIDE DEF Cross
<1>7. /\ UNCHANGED <<open, neck, hot, count, interrupts, last>> /\ disconnecting' = TRUE /\ holder' = t
      /\ Eases
  BY DEF Acquire, robot, Eases
<1>8. TypeOK'
  BY <1>t, <1>6, <1>7 DEF TypeOK
<1>9. ASSUME NEW u \in Thread, NEW i \in 1..Len(calls[u])
      PROVE  /\ calls'[u][i].op = calls[u][i].op
             /\ Holds(calls'[u][i]) => u = t
             /\ ~(u = t /\ i = Len(calls[t])) =>
                  calls'[u][i] = Cross(calls[u][i]) /\ calls'[u][i].pc = calls[u][i].pc
  <2>1. calls[u][i] \in Call
    BY <1>t, CallsType
  <2>2. CASE u = t /\ i = Len(calls[t])
    BY <2>2, <1>1, <1>2, <1>4, <1>6
  <2>3. CASE ~(u = t /\ i = Len(calls[t]))
    <3>0. calls'[u][i] = Cross(calls[u][i])
      BY <2>3, <1>6
    <3>1. calls'[u][i] = Cross(calls[u][i]) /\ calls'[u][i].pc = calls[u][i].pc /\ calls'[u][i].op = calls[u][i].op
      <4>1. PICK e \in Call : e = calls[u][i]
        BY <2>1
      <4>2. Cross(e).op = e.op /\ Cross(e).pc = e.pc
        BY <1>5
      <4> QED BY <3>0, <4>1, <4>2
    <3>2. Holds(calls'[u][i]) => holder = u
      BY <3>1 DEF Holds, IInv, Locked
    <3>3. Holds(calls'[u][i]) => u = t
      BY <3>2, <1>1, ConstantsAssumption
    <3> QED BY <2>3, <3>1, <3>3
  <2> QED BY <2>2, <2>3
<1>10. calls'[t][Len(calls[t])] = c /\ Len(calls[t]) \in 1..Len(calls'[t])
  BY <1>2, <1>6
<1>11. Nested'
  <2> SUFFICES ASSUME NEW u \in Thread
               PROVE  /\ Len(calls'[u]) \in 0..2
                      /\ Len(calls'[u]) = 2 => u = Main /\ calls'[u][1].op = "connect" /\ calls'[u][2].op = "disconnect"
    BY DEF Nested
  <2>1. Len(calls[u]) \in 0..2 /\ (Len(calls[u]) = 2 => u = Main /\ calls[u][1].op = "connect" /\ calls[u][2].op = "disconnect")
    BY DEF IInv, Nested
  <2> QED BY <2>1, <1>6, <1>9
<1>12. Locked'
  <2>1. \A u \in Thread : \A i \in 1..Len(calls'[u]) : Holds(calls'[u][i]) => u = t
    BY <1>6, <1>9
  <2>2. Holds(c)
    BY <1>4 DEF Holds
  <2> QED BY <2>1, <2>2, <1>7, <1>10 DEF Locked
<1>13. Flagged'
  BY <1>7 DEF Flagged
<1>14. Counting'
  BY <1>4, <1>10 DEF Counting
<1>15. Overruled'
  <2> SUFFICES ASSUME NEW u \in Thread, NEW i \in 1..Len(calls'[u]),
                      calls'[u][i].op = "connect", calls'[u][i].pc = "leave"
               PROVE  i = 1 /\ Len(calls'[u]) = 2 /\ Holds(calls'[u][2])
    BY DEF Overruled
  <2>1. i \in 1..Len(calls[u]) /\ u = t
    BY <1>6, <1>9 DEF Holds
  <2>2. i # Len(calls[t])
    BY <2>1, <1>4, <1>10
  <2>3. Len(calls[t]) = 2 /\ i = 1
    BY <2>1, <2>2, <1>2
  <2>4. Holds(calls'[t][2])
    BY <2>3, <1>10, <1>4 DEF Holds
  <2> QED BY <2>1, <2>3, <2>4, <1>6
<1>16. ASSUME NEW u \in Thread, NEW i \in 1..Len(calls'[u]) PROVE CallInv(calls[u][i])'
  <2>1. i \in 1..Len(calls[u])
    BY <1>6
  <2>2. CASE u = t /\ i = Len(calls[t])
    <3>1. calls'[u][i] = c
      BY <2>2, <1>10
    <3>2. CallInv(c)'
      BY <1>4 DEF CallInv, Placed, Crossing, Swept, Arming, Eased
    <3> QED BY <3>1, <3>2 DEF CallInv, Placed, Crossing, Swept, Arming, Eased
  <2>3. CASE ~(u = t /\ i = Len(calls[t]))
    <3>1. calls[u][i] \in Call
      BY <2>1, <1>t, CallsType
    <3>2. PICK e \in Call : e = calls[u][i]
      BY <3>1
    <3>3. Cross(e) \in Call
      BY <1>5
    <3>4. PICK f \in Call : f = Cross(e) /\ f = calls'[u][i]
      BY <2>1, <2>3, <3>2, <3>3, <1>9
    <3>5. /\ f.op = e.op /\ f.pc = e.pc /\ f.at = e.at /\ f.before = e.before /\ f.running = e.running
          /\ f.armed = e.armed /\ f.found = e.found /\ f.end = e.end
      <4>1. /\ Cross(e).op = e.op /\ Cross(e).pc = e.pc /\ Cross(e).at = e.at
            /\ Cross(e).before = e.before /\ Cross(e).running = e.running /\ Cross(e).armed = e.armed
            /\ Cross(e).found = e.found /\ Cross(e).end = e.end
        BY <1>5
      <4>2. f = Cross(e)
        BY <3>4
      <4> QED BY <4>1, <4>2
    <3>6. CallInv(e)
      BY <2>1, <3>2 DEF IInv
    <3>7. Swept(e)' /\ Arming(e)' /\ Eased(e)'
      BY <3>6, <1>7, <1>8, <1>t, CallKept DEF CallInv
    <3>8. Swept(f)' /\ Arming(f)' /\ Eased(f)'
      BY <3>5, <3>7 DEF Swept, Arming, Eased, Holds
    <3>9. Crossing(f)' /\ Placed(f)
      BY <3>5, <3>6, <1>7, <1>14 DEF CallInv, Crossing, Placed, Holds
    <3> QED BY <3>4, <3>8, <3>9 DEF CallInv, Placed
  <2> QED BY <2>2, <2>3
<1>17. NothingLeaks'
  BY <1>7, ConstantsAssumption DEF NothingLeaks
<1> QED BY <1>8, <1>11, <1>12, <1>13, <1>15, <1>16, <1>17 DEF IInv

(* A call ends: what it leaves is what its last step under the lock left.  *)
LEMMA LeaveKeeps ==
  ASSUME IInv, NEW t \in Thread, Leave(t)
  PROVE  IInv'
<1>1. Busy(t) /\ Top(t).pc = "leave" /\ Holds(Top(t)) /\ calls' = [calls EXCEPT ![t] = Popped(t)]
  BY DEF Leave, Holds
<1>t. TypeOK
  BY DEF IInv
<1>h. /\ holder = t /\ holder # None
      /\ \A u \in Thread : u # t => \A i \in 1..Len(calls[u]) : ~Holds(calls[u][i])
      /\ Len(calls[t]) \in {1, 2}
      /\ Len(calls[t]) = 2 => calls[t][1].op = "connect" /\ Top(t).op = "disconnect"
      /\ Top(t) \in Call /\ CallInv(Top(t)) /\ ~Counting
  BY <1>1, HolderFacts
<1>2. PICK d \in Call : d = Top(t)
  BY <1>h
<1>3. /\ calls' \in [Thread -> Seq(Call)]
      /\ \A u \in Thread : Len(calls'[u]) = IF u = t THEN Len(calls[t]) - 1 ELSE Len(calls[u])
      /\ \A u \in Thread : \A i \in 1..Len(calls'[u]) : i \in 1..Len(calls[u]) /\ calls'[u][i] = calls[u][i]
  BY <1>t, <1>1, PopChanges
<1>4. \A u \in Thread : u # t => calls'[u] = calls[u]
  BY <1>1, <1>t DEF TypeOK
<1> DEFINE outer == \E i \in 1..Len(calls[t]) - 1 : Holds(calls[t][i])
<1>5. /\ UNCHANGED <<open, neck, hot, count, interrupts>> /\ Eases
      /\ holder' = IF outer THEN t ELSE None
      /\ disconnecting' = IF d.op = "disconnect" THEN FALSE ELSE disconnecting
      /\ last' = IF d.op = "connect" /\ d.end = "ok" THEN "open" ELSE "closed"
  BY <1>2 DEF Leave, robot, Eases
<1>6. TypeOK'
  <2>1. holder' \in Thread \cup {None} /\ disconnecting' \in BOOLEAN /\ last' \in {"none", "open", "closed"}
    BY <1>5, <1>t DEF TypeOK
  <2> QED BY <2>1, <1>3, <1>5, <1>t DEF TypeOK
<1>7. outer <=> Len(calls'[t]) = 1 /\ Holds(calls'[t][1])
  <2>1. CASE Len(calls[t]) = 1
    BY <2>1, <1>3
  <2>2. CASE Len(calls[t]) = 2
    <3>1. Len(calls'[t]) = 1 /\ calls'[t][1] = calls[t][1] /\ 1..Len(calls[t]) - 1 = {1}
      BY <2>2, <1>3
    <3> QED BY <3>1
  <2> QED BY <1>h, <2>1, <2>2
<1>8. ASSUME NEW u \in Thread, NEW i \in 1..Len(calls'[u]), Holds(calls'[u][i])
      PROVE  outer /\ u = t /\ i = 1 /\ calls'[u][i].op = "connect" /\ d.op = "disconnect"
  <2>1. i \in 1..Len(calls[u]) /\ calls'[u][i] = calls[u][i]
    BY <1>3
  <2>2. u = t
    BY <2>1, <1>8, <1>h
  <2>3. Len(calls[t]) = 2 /\ i = 1
    BY <2>2, <1>h, <1>3
  <2>4. Len(calls'[t]) = 1
    BY <2>3, <1>3
  <2> QED BY <2>1, <2>2, <2>3, <2>4, <1>7, <1>8, <1>h, <1>2
<1>9. Nested'
  <2> SUFFICES ASSUME NEW u \in Thread
               PROVE  /\ Len(calls'[u]) \in 0..2
                      /\ Len(calls'[u]) = 2 => u = Main /\ calls'[u][1].op = "connect" /\ calls'[u][2].op = "disconnect"
    BY DEF Nested
  <2>1. CASE u = t
    <3>1. Len(calls'[t]) = Len(calls[t]) - 1
      BY <1>3
    <3>2. Len(calls'[t]) \in {0, 1}
      BY <1>h, <3>1
    <3> QED BY <2>1, <3>2
  <2>2. CASE u # t
    BY <2>2, <1>4 DEF IInv, Nested
  <2> QED BY <2>1, <2>2
<1>10. Locked'
  <2>1. \A u \in Thread : \A i \in 1..Len(calls'[u]) : Holds(calls'[u][i]) => holder' = u
    BY <1>5, <1>8
  <2>2. holder' # None => \E i \in 1..Len(calls'[holder']) : Holds(calls'[holder'][i])
    <3> SUFFICES ASSUME holder' # None PROVE \E i \in 1..Len(calls'[t]) : Holds(calls'[t][i])
      BY <1>5
    <3>1. Len(calls'[t]) = 1 /\ Holds(calls'[t][1])
      BY <1>5, <1>7
    <3> QED BY <3>1
  <2> QED BY <2>1, <2>2 DEF Locked
<1>11. Flagged'
  BY <1>8 DEF Flagged
<1>12. d.op = "disconnect" => NoneOpen
  BY <1>1, <1>2, <1>h DEF CallInv, Swept
<1>13. Overruled'
  <2> SUFFICES ASSUME NEW u \in Thread, NEW i \in 1..Len(calls'[u]), calls'[u][i].pc = "leave"
               PROVE  NoneOpen'
    BY DEF Overruled
  <2>1. d.op = "disconnect"
    BY <1>8 DEF Holds
  <2> QED BY <2>1, <1>12, <1>5 DEF NoneOpen
<1>14. ASSUME NEW u \in Thread, NEW i \in 1..Len(calls'[u]) PROVE CallInv(calls[u][i])'
  <2>1. i \in 1..Len(calls[u]) /\ calls'[u][i] = calls[u][i] /\ calls[u][i] \in Call
    BY <1>3, <1>t, CallsType
  <2>2. PICK e \in Call : e = calls[u][i] /\ e = calls'[u][i]
    BY <2>1
  <2>3. CallInv(e)
    BY <2>1, <2>2 DEF IInv
  <2>4. Swept(e)' /\ Arming(e)' /\ Eased(e)'
    BY <2>3, <1>5, <1>6, <1>t, CallKept DEF CallInv
  <2>5. Crossing(e)' /\ Placed(e)
    BY <2>3, <1>5, <1>h DEF CallInv, Crossing
  <2> QED BY <2>2, <2>4, <2>5 DEF CallInv, Placed
<1>15. NothingLeaks'
  <2> SUFFICES ASSUME last' = "closed", interrupts' = 0 PROVE NoneOpen'
    BY DEF NothingLeaks, NoneOpen
  <2>1. ~(d.op = "connect" /\ d.end = "ok") /\ interrupts = 0
    BY <1>5
  <2>2. d.op \in {"connect", "disconnect"}
    BY DEF Call
  <2>3. NoneOpen
    BY <2>1, <2>2, <1>1, <1>2, <1>h DEF CallInv, Swept
  <2> QED BY <2>3, <1>5 DEF NoneOpen
<1> QED BY <1>6, <1>9, <1>10, <1>11, <1>13, <1>14, <1>15 DEF IInv

(* The neck is seen hot, or nothing changes.                               *)
LEMMA RestKeeps ==
  ASSUME IInv, GetHot \/ UNCHANGED vars
  PROVE  IInv'
<1>1. UNCHANGED <<open, neck, count, disconnecting, holder, calls, interrupts, last>> /\ hot' \in BOOLEAN
  BY DEF GetHot, vars, flags, IInv, TypeOK
<1>2. TypeOK' /\ Nested' /\ Locked' /\ Flagged' /\ NothingLeaks'
  BY <1>1 DEF IInv, TypeOK, Nested, Locked, Flagged, NothingLeaks
<1>3. Overruled'
  BY <1>1 DEF IInv, Overruled, NoneOpen
<1>4. ASSUME NEW u \in Thread, NEW i \in 1..Len(calls'[u]) PROVE CallInv(calls[u][i])'
  <2>1. CallInv(calls[u][i]) /\ calls'[u][i] = calls[u][i]
    BY <1>1 DEF IInv
  <2> QED BY <2>1, <1>1 DEF CallInv, Placed, Crossing, Counting, Swept, ClosedUpTo, NoneOpen, Arming, Armed, Eased
<1> QED BY <1>2, <1>3, <1>4 DEF IInv

-----------------------------------------------------------------------------
(* The invariant holds at first: nothing but the driver is open.           *)
LEMMA InitHolds == Init => IInv
<1> SUFFICES ASSUME Init PROVE IInv
  OBVIOUS
<1>1. \A t \in Thread : calls[t] = <<>> /\ Len(calls[t]) = 0
  BY DEF Init
<1>2. TypeOK
  <2>1. calls \in [Thread -> Seq(Call)]
    BY DEF Init
  <2>2. neck \in {"held", "soft", "failed"} /\ open \in [Attached -> {"closed", "open", "stuck"}]
    BY DEF Init
  <2> QED BY <2>1, <2>2 DEF Init, TypeOK
<1>3. Nested /\ Flagged /\ Overruled /\ Locked
  BY <1>1 DEF Init, Nested, Flagged, Overruled, Locked
<1>4. NothingLeaks
  BY DEF Init, NothingLeaks
<1> QED BY <1>1, <1>2, <1>3, <1>4 DEF IInv

(* Every step keeps it. *)
LEMMA StepKeeps ==
  ASSUME "disconnect" \notin Handled, IInv, [Next]_vars
  PROVE  IInv'
<1>1. CASE Signal
  BY <1>1, SignalKeeps
<1>2. CASE GetHot \/ UNCHANGED vars
  BY <1>2, RestKeeps
<1>3. ASSUME NEW t \in Thread, BeginConnect(t) \/ BeginDisconnect(t) PROVE IInv'
  BY <1>3, BeginsKeep
<1>4. ASSUME NEW t \in Thread, GiveUp(t) PROVE IInv'
  <2>1. /\ Busy(t) /\ Top(t).op = "connect" /\ ~Holds(Top(t)) /\ calls' = [calls EXCEPT ![t] = Popped(t)]
        /\ UNCHANGED <<robot, flags, holder, last>> /\ interrupts' = interrupts + 1
    BY <1>4 DEF GiveUp, At, Holds, Interrupt
  <2> QED BY <2>1, PopKeeps
<1>5. ASSUME NEW t \in Thread, Waits(t) PROVE IInv'
  BY <1>5, EnterKeeps, AcquireKeeps DEF Waits
<1>6. ASSUME NEW t \in Thread, Works(t) PROVE IInv'
  BY <1>6, ReadFlagKeeps, OpenKeeps, CheckKeeps, WakeKeeps, FinalKeeps, CountKeeps, ParkKeeps,
     RollbackCloseKeeps, CloseKeeps, ClearKeeps, LeaveKeeps DEF Works
<1> QED BY <1>1, <1>2, <1>3, <1>4, <1>5, <1>6 DEF Next

(* A call that is past the lock sees its neck eased before torque goes.    *)
LEMMA EasedStep ==
  ASSUME IInv, Next, Armed, ~Armed'
  PROVE  neck # "held"
<1>1. open' # open
  BY DEF Armed
<1>2. PICK t \in Thread : Open(t) \/ RollbackClose(t) \/ Close(t)
  BY <1>1 DEF Next, Signal, GetHot, BeginConnect, BeginDisconnect, GiveUp, Waits, Enter, Acquire, Works, ReadFlag,
     Check, Wake, Final, Count, Park, Clear, Leave, robot
<1>t. open \in [Attached -> {"closed", "open", "stuck"}] /\ "driver" \in Attached /\ open["driver"] = "open" /\ open'["driver"] # "open"
  BY DEF IInv, TypeOK, Armed
<1>3. CASE Open(t)
  <2>1. PICK r \in {"display", "speaker", "camera", "mic", "driver"} : open' \in {open, [open EXCEPT ![r] = "open"]}
    <3>1. Busy(t) /\ Top(t).op = "connect" /\ Top(t).pc = "open" /\ Holds(Top(t))
      BY <1>3 DEF Open, At, Holds
    <3>2. OpenOrder[Top(t).at] \in Attached
      BY <3>1, HolderFacts DEF CallInv, Placed
    <3>3. open' \in {open, [open EXCEPT ![OpenOrder[Top(t).at]] = "open"]}
      BY <1>3 DEF Open
    <3> QED BY <3>2, <3>3, ConstantsAssumption
  <2> QED BY <2>1, <1>t
<1>4. CASE RollbackClose(t) \/ Close(t)
  <2>1. Busy(t) /\ Top(t).pc = "close" /\ Holds(Top(t))
    BY <1>4 DEF RollbackClose, Close, At, Holds
  <2>2. Top(t) \in Call /\ Eased(Top(t)) /\ Placed(Top(t))
    BY <2>1, HolderFacts DEF CallInv
  <2>3. CASE Top(t).op = "disconnect"
    BY <2>1, <2>2, <2>3 DEF Eased
  <2>4. CASE Top(t).op = "connect"
    <3>1. RollbackClose(t) /\ Top(t).at < 6
      BY <2>4, <1>4, <1>1 DEF Close, At, RollbackClose
    <3>2. Top(t).armed
      <4> SUFFICES ASSUME ~Top(t).armed PROVE FALSE
        OBVIOUS
      <4>1. CASE CloseOrder[Top(t).at] = "driver"
        BY <3>1, <4>1, <1>1 DEF RollbackClose
      <4>2. CASE CloseOrder[Top(t).at] # "driver"
        <5>1. \E s \in {"closed", "stuck", "open"} : open' \in {open, [open EXCEPT ![CloseOrder[Top(t).at]] = s]}
          BY <3>1, <4>2 DEF RollbackClose, Stuck
        <5> QED BY <5>1, <4>2, <1>t
      <4> QED BY <4>1, <4>2
    <3> QED BY <2>1, <2>2, <3>2 DEF Eased
  <2> QED BY <2>2, <2>3, <2>4 DEF Call
<1> QED BY <1>2, <1>3, <1>4

(* The inductive invariant. *)
LEMMA Invariant == ASSUME "disconnect" \notin Handled PROVE Spec => []IInv
<1>1. Init => IInv
  BY InitHolds
<1>2. IInv /\ [Next]_vars => IInv'
  BY StepKeeps
<1> QED BY <1>1, <1>2, PTL DEF Spec

(* The state has its type: calls nest, count and end as connect() and      *)
(* disconnect() of robot.py make them.                                     *)
THEOREM TypeCorrect == ASSUME "disconnect" \notin Handled PROVE Spec => []TypeOK
<1>1. IInv => TypeOK
  BY DEF IInv
<1> QED BY <1>1, Invariant, PTL

(* connect() returns with the robot open only if no disconnect() ran under *)
(* it or while it asked.                                                   *)
THEOREM DisconnectWinsAlways == ASSUME "disconnect" \notin Handled PROVE Spec => []DisconnectWins
<1>1. IInv => DisconnectWins
  <2> SUFFICES ASSUME IInv, NEW t \in Thread, At(t, "connect", "leave"), Top(t).end = "ok", Top(t).crossed
               PROVE  NoneOpen
    BY DEF DisconnectWins, NoneOpen
  <2>1. Len(calls[t]) = 1 /\ Top(t) = calls[t][1]
    BY WaiterFacts DEF At
  <2>2. NoneOpen \/ Len(calls[t]) = 2
    BY <2>1 DEF IInv, Overruled, At
  <2> QED BY <2>1, <2>2
<1> QED BY <1>1, Invariant, PTL

(* connect(), its rollback and disconnect() leave no resource open behind  *)
(* a closed robot, and open the peripherals, which may stall, before       *)
(* torque.                                                                 *)
THEOREM NothingStranded == ASSUME "disconnect" \notin Handled PROVE Spec => []NoResourceIsStranded
<1>1. IInv => NoResourceIsStranded
  <2> SUFFICES ASSUME IInv PROVE StallsDisarmed
    BY DEF IInv, NoResourceIsStranded
  <2> SUFFICES ASSUME NEW t \in Thread, At(t, "connect", "open"), OpenOrder[Top(t).at] # "driver", Armed
               PROVE  Top(t).found
    BY DEF StallsDisarmed
  <2>1. Arming(Top(t)) /\ Holds(Top(t))
    BY WaiterFacts DEF At, CallInv, Holds
  <2> QED BY <2>1 DEF Arming, At
<1> QED BY <1>1, Invariant, PTL

(* disconnect() and the rollback of connect() let the neck down before     *)
(* they cut the torque, however calls, handlers and interrupts fall.       *)
THEOREM NeckEased == ASSUME "disconnect" \notin Handled PROVE Spec => NeckIsEased
<1>1. IInv /\ [Next]_vars => [Armed /\ ~Armed' => neck # "held"]_vars
  BY EasedStep
<1> QED BY <1>1, Invariant, PTL DEF Spec, NeckIsEased
=============================================================================
