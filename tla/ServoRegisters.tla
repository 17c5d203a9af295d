--------------------------- MODULE ServoRegisters ---------------------------
(***************************************************************************)
(* io/_dynamixel_bus.py: values to bytes and back, writes, and the sweep   *)
(* that reads several registers of several motors in one request and says  *)
(* which motors answered, stayed silent or were never reached.             *)
(***************************************************************************)
EXTENDS Integers, Sequences, SequencesExt, FiniteSetsExt

CONSTANTS
  MotorOrder,    (* the motors, in bus order                               *)
  ControlTable,  (* [register -> <<address, size>>]                        *)
  Signed,        (* registers in two's complement                          *)
  Memory,        (* bytes of a servo's control table                       *)
  Base           (* values of a byte; the exhaustive runs make it small    *)

Motors == ToSet(MotorOrder)
Registers == DOMAIN ControlTable
Address(r) == ControlTable[r][1]
Size(r) == ControlTable[r][2]

(* Every register has bytes of its own. *)
RegistersAssumption ==
  /\ MotorOrder \in Seq(Motors) /\ IsInjective(MotorOrder) /\ Signed \subseteq Registers
  /\ Base \in Nat \ {0, 1} /\ Base % 2 = 0 /\ Memory \in Nat
  /\ \A r \in Registers : Address(r) \in Nat /\ Size(r) \in Nat \ {0} /\ Address(r) + Size(r) <= Memory
  /\ \A r, s \in Registers : r = s \/ Address(r) + Size(r) <= Address(s) \/ Address(s) + Size(s) <= Address(r)

Room == 0..(Memory - 1)
Power[n \in Nat] == IF n = 0 THEN 1 ELSE Base * Power[n - 1]
Values(r) == LET n == Power[Size(r)] IN IF r \in Signed THEN (-(n \div 2))..(n \div 2 - 1) ELSE 0..(n - 1)

VARIABLES
  memory,   (* [motor -> [address -> byte]], the servos' control tables    *)
  written,  (* [motor -> [register -> value]], what was asked for, as a ghost *)
  sweep     (* the last SpanRead                                           *)

registerVars == <<memory, written, sweep>>

NothingRead == [values |-> <<>>, silent |-> <<>>, unreached |-> <<>>, asked |-> {}, quiet |-> {}]

Init ==
  /\ memory = [m \in Motors |-> [x \in Room |-> 0]]
  /\ written = [m \in Motors |-> [r \in Registers |-> 0]]
  /\ sweep = NothingRead

-----------------------------------------------------------------------------
EncodeTwosComplement(value, bytes) == IF value >= 0 THEN value ELSE Power[bytes] + value

(* The sign bit decides, so the lowest value has no positive twin. *)
DecodeTwosComplement(value, bytes) == IF 2 * value >= Power[bytes] THEN value - Power[bytes] ELSE value

Encode(r, value) == IF r \in Signed THEN EncodeTwosComplement(value, Size(r)) ELSE value
Decode(r, value) == IF r \in Signed THEN DecodeTwosComplement(value, Size(r)) ELSE value

(* _serialize: little-endian, and back. *)
Serialize(value, bytes) == [i \in 1..bytes |-> (value \div Power[i - 1]) % Base]
Sums(bytes) ==
  LET sum[i \in 0..Len(bytes)] == IF i = 0 THEN 0 ELSE sum[i - 1] + bytes[i] * Power[i - 1] IN sum
Number(bytes) == Sums(bytes)[Len(bytes)]

SpanOf(fields) ==
  LET start == Min({Address(r) : r \in fields})
  IN [start |-> start, length |-> Max({Address(r) + Size(r) : r \in fields}) - start]

(* Mutant: the field is cut from the start of the buffer. *)
SliceField_NoOffset(buffer, start, r) ==
  Decode(r, Number(SubSeq(buffer, 1, Size(r))))

SliceField(buffer, start, r) ==
  LET offset == Address(r) - start
  IN Decode(r, Number(SubSeq(buffer, offset + 1, offset + Size(r))))

(* Mutant: every motor without a full buffer is silent. *)
CollectSpan_AllSilent(names, buffers, fields, span) ==
  LET full == {m \in ToSet(names) : Len(buffers[m]) = span.length} IN
    [values |-> [m \in full |-> [r \in fields |-> SliceField(buffers[m], span.start, r)]],
     silent |-> SelectSeq(names, LAMBDA m : m \notin full), unreached |-> <<>>]

(* The first motor without a full buffer is where the reader stopped. *)
CollectSpan(names, buffers, fields, span) ==
  LET short == {i \in DOMAIN names : Len(buffers[names[i]]) # span.length}
      stop  == IF short = {} THEN Len(names) + 1 ELSE Min(short)
  IN [values    |-> [m \in {names[i] : i \in 1..(stop - 1)} |-> [r \in fields |-> SliceField(buffers[m], span.start, r)]],
      silent    |-> SubSeq(names, stop, Min({stop, Len(names)})),
      unreached |-> SubSeq(names, stop + 1, Len(names))]

(* _sweep_names: bus order, whatever order was asked for. *)
Kept(motors) ==
  LET kept[i \in 0..Len(MotorOrder)] ==
        IF i = 0 THEN <<>>
        ELSE IF MotorOrder[i] \in motors THEN Append(kept[i - 1], MotorOrder[i]) ELSE kept[i - 1]
  IN kept
SweepNames(motors) == Kept(motors)[Len(MotorOrder)]

-----------------------------------------------------------------------------
Stored(m, r, value) ==
  LET bytes == Serialize(Encode(r, value), Size(r))
  IN [x \in Room |-> IF x - Address(r) + 1 \in DOMAIN bytes THEN bytes[x - Address(r) + 1] ELSE memory[m][x]]

(* write (one motor, acknowledged) and sync_write (a packet for several    *)
(* that arrives or does not): each motor that took its bytes.              *)
Write(motors, r, value) ==
  /\ memory' = [m \in Motors |-> IF m \in motors THEN Stored(m, r, value) ELSE memory[m]]
  /\ written' = [m \in Motors |-> IF m \in motors THEN [written[m] EXCEPT ![r] = value] ELSE written[m]]
  /\ UNCHANGED sweep

(* sync_read_span: only a request that did not go out is sent again; the   *)
(* reader stops at the first motor that is quiet, and keeps what it has.   *)
SyncReadSpan(motors, fields, quiet) ==
  LET span == SpanOf(fields)
      names == SweepNames(motors)
      reached(m) == \A i \in DOMAIN names : names[i] \in quiet => \E j \in 1..(i - 1) : names[j] = m
      buffers == [m \in motors |-> IF reached(m) THEN [i \in 1..span.length |-> memory[m][span.start + i - 1]] ELSE <<>>]
      result == CollectSpan(names, buffers, fields, span)
  IN /\ \/ sweep' = [values |-> result.values, silent |-> result.silent, unreached |-> result.unreached,
                     asked |-> motors, quiet |-> quiet]
        \/ sweep' = [NothingRead EXCEPT !.unreached = names, !.asked = motors, !.quiet = quiet]   (* never sent *)
     /\ UNCHANGED <<memory, written>>

(* The sweep is forgotten, as its caller is done with it. *)
Forget == sweep # NothingRead /\ sweep' = NothingRead /\ UNCHANGED <<memory, written>>

Next ==
  \/ \E motors \in SUBSET Motors, r \in Registers : \E value \in Values(r) : Write(motors, r, value)
  \/ \E motors \in (SUBSET Motors) \ {{}}, fields \in (SUBSET Registers) \ {{}}, quiet \in SUBSET Motors :
       sweep = NothingRead /\ SyncReadSpan(motors, fields, quiet)
  \/ Forget

Spec == Init /\ [][Next]_registerVars

-----------------------------------------------------------------------------
(* What a sweep reports of a motor is what was written to it, each field   *)
(* of the span, negative values too, whatever the other registers hold.    *)
SweepReadsWhatIsThere ==
  sweep' # sweep => \A m \in DOMAIN sweep'.values : \A r \in DOMAIN sweep'.values[m] :
                      sweep'.values[m][r] = written[m][r]

(* Every motor asked for is accounted for once; only a quiet motor is      *)
(* called silent, at most one of them, and never for its neighbour.        *)
OnlyTheQuietAreBlamed ==
  /\ ToSet(sweep.silent) \subseteq sweep.quiet /\ Len(sweep.silent) <= 1
  /\ DOMAIN sweep.values \cup ToSet(sweep.silent) \cup ToSet(sweep.unreached) = sweep.asked
  /\ DOMAIN sweep.values \cap (sweep.quiet \cup ToSet(sweep.unreached)) = {}
=============================================================================
