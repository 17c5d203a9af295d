---------------------------- MODULE ServicesProofs ----------------------------
(* The services for every value of the constants: any number of requests,  *)
(* flushes, servos, browsers and signals, and any order of what they do.   *)
(* Each service has an inductive invariant of its own; the union keeps     *)
(* them all, because a step of one leaves the part alone.                  *)
EXTENDS Services, SequenceTheorems, WellFoundedInduction, TLAPS

------------------------------------------------------------------------------
(* The MCP server                                                          *)

(* A request that has not been received has no call, and one that has not  *)
(* been answered has no record.                                            *)
McpInv ==
  /\ handler \in [Request -> {"none", "shielded", "draining", "replied", "cancelled"}]
  /\ task \in [Request -> {"none", "queued", "running"} \cup Mcp!Answered]
  /\ record \in [Request -> SUBSET (Mcp!Answered \cup {"interrupted"})]
  /\ \A r \in Request :
       /\ handler[r] = "none" <=> task[r] = "none"
       /\ handler[r] \in {"none", "shielded", "draining"} => record[r] = {}
  /\ Mcp!NoCallIsAbandoned

LEMMA McpStart == Mcp!Init => McpInv
  BY DEF Mcp!Init, McpInv, Mcp!NoCallIsAbandoned, Mcp!Answered

LEMMA McpStep == ASSUME McpInv, Mcp!Next PROVE McpInv'
<1>1. PICK r \in Request :
        Mcp!Receive(r) \/ Mcp!Run(r) \/ (\E o \in Mcp!Answered : Mcp!Finish(r, o))
          \/ Mcp!Cancel(r) \/ Mcp!Abandoned(r) \/ Mcp!Reply(r)
  BY DEF Mcp!Next
<1> USE DEF McpInv, Mcp!NoCallIsAbandoned, Mcp!Answered
<1>2. CASE Mcp!Receive(r)
  BY <1>2 DEF Mcp!Receive
<1>3. CASE Mcp!Run(r)
  BY <1>3 DEF Mcp!Run
<1>4. CASE \E o \in Mcp!Answered : Mcp!Finish(r, o)
  BY <1>4 DEF Mcp!Finish
<1>5. CASE Mcp!Cancel(r)
  BY <1>5 DEF Mcp!Cancel
<1>6. CASE Mcp!Abandoned(r)
  BY <1>6 DEF Mcp!Abandoned, Mcp!End
<1>7. CASE Mcp!Reply(r)
  BY <1>7 DEF Mcp!Reply, Mcp!End
<1> QED BY <1>1, <1>2, <1>3, <1>4, <1>5, <1>6, <1>7

LEMMA McpStutters == ASSUME McpInv, UNCHANGED mcpOnly PROVE McpInv'
  BY DEF McpInv, Mcp!NoCallIsAbandoned, mcpOnly

------------------------------------------------------------------------------
(* The files of the flight recorder                                        *)

Filed == [owner : Flush, whole : BOOLEAN] \cup {None}
FlushPlaces == {"look", "open", "recheck", "write", "replace", "done", "failed"}

FilesTypes ==
  /\ pc \in [Flush -> FlushPlaces] /\ index \in [Flush -> Files!Index]
  /\ published \in [Files!Index -> Filed] /\ temporary \in [Files!Index -> Filed]
  /\ remembered \in [Flush -> {"published", "kept", None}]

(* A flush past its exclusive open owns its temporary file, and past its   *)
(* second look nothing is published under its name.                        *)
FilesOwned ==
  \A f \in Flush :
    /\ pc[f] \in {"recheck", "write", "replace"} =>
         temporary[index[f]] # None /\ temporary[index[f]].owner = f
    /\ pc[f] = "replace" => temporary[index[f]].whole
    /\ pc[f] \in {"write", "replace"} => published[index[f]] = None
    /\ remembered[f] # None => pc[f] = "done"

FilesInv == FilesTypes /\ FilesOwned /\ Files!NoneIsOverwritten

LEMMA FilesNames ==
  None \notin [owner : Flush, whole : BOOLEAN] /\ None # "published" /\ None # "kept" /\ LastIndex \in Nat
  BY FilesConstants DEF Files!FilesAssumption

LEMMA FilesStart == Files!Init => FilesInv
  BY FilesNames DEF Files!Init, FilesInv, FilesTypes, FilesOwned, Files!NoneIsOverwritten, Filed, FlushPlaces, Files!Index
LEMMA FileIsFiled ==
  ASSUME NEW f \in Flush, NEW whole \in BOOLEAN
  PROVE  [owner |-> f, whole |-> whole] \in [owner : Flush, whole : BOOLEAN]
  OBVIOUS

LEMMA WrittenFile ==
  ASSUME NEW file \in [owner : Flush, whole : BOOLEAN], NEW to, to = [file EXCEPT !.whole = TRUE]
  PROVE  to = [owner |-> file.owner, whole |-> TRUE]
<1>1. ASSUME NEW whole \in BOOLEAN PROVE [file EXCEPT !.whole = whole] = [owner |-> file.owner, whole |-> whole]
  OBVIOUS
<1> QED BY <1>1

LEMMA FilesStep == ASSUME FilesInv, Files!Next PROVE FilesInv'
<1>1. PICK f \in Flush :
        \/ Files!LookTaken(f) \/ Files!LookFree(f) \/ Files!OpenTaken(f) \/ Files!Open(f) \/ Files!Collides(f)
        \/ Files!Reserves(f) \/ Files!Write(f) \/ Files!WriteFails(f) \/ Files!Replace(f) \/ Files!ReplaceFails(f)
        \/ Files!Dies(f)
  BY DEF Files!Next
<1> USE FilesNames
    DEF FilesInv, FilesTypes, FilesOwned, Files!NoneIsOverwritten, Filed, FlushPlaces, Files!Index,
        Files!At, Files!NextIndex, Files!Mine
<1>2. CASE Files!LookTaken(f)
  BY <1>2 DEF Files!LookTaken
<1>3. CASE Files!LookFree(f)
  BY <1>3 DEF Files!LookFree
<1>4. CASE Files!OpenTaken(f)
  BY <1>4 DEF Files!OpenTaken
<1>5. CASE Files!Open(f)
  <2>1. FilesTypes'
    BY <1>5 DEF Files!Open
  <2>2. FilesOwned'
    <3>1. [owner |-> f, whole |-> FALSE] # None
      BY FilesNames, FileIsFiled
    <3> QED BY <1>5, <3>1 DEF Files!Open
  <2>3. Files!NoneIsOverwritten'
    BY <1>5 DEF Files!Open
  <2> QED BY <2>1, <2>2, <2>3
<1>6. CASE Files!Collides(f)
  BY <1>6 DEF Files!Collides
<1>7. CASE Files!Reserves(f)
  BY <1>7 DEF Files!Reserves
<1>8. CASE Files!Write(f)
  <2>0. PICK to : to = [temporary[index[f]] EXCEPT !.whole = TRUE]
    OBVIOUS
  <2>1. /\ to = [owner |-> f, whole |-> TRUE] /\ to \in [owner : Flush, whole : BOOLEAN]
        /\ to.owner = f /\ to.whole = TRUE /\ to # None
    <3>1. temporary[index[f]] \in [owner : Flush, whole : BOOLEAN] /\ temporary[index[f]].owner = f
      BY <1>8 DEF Files!Write
    <3>2. to = [owner |-> f, whole |-> TRUE]
      BY <2>0, <3>1, WrittenFile
    <3>3. to \in [owner : Flush, whole : BOOLEAN]
      BY <3>2, FileIsFiled
    <3> QED BY <3>2, <3>3, FilesNames
  <2>2. temporary' = [temporary EXCEPT ![index[f]] = to]
    BY <1>8, <2>0 DEF Files!Write
  <2>3. FilesTypes' /\ FilesOwned'
    <3>1. FilesTypes'
      <4>1. temporary' \in [Files!Index -> Filed]
        <5>1. to \in Filed /\ temporary \in [Files!Index -> Filed]
          BY <2>1
        <5> HIDE DEF Filed
        <5> QED BY <2>2, <5>1
      <4>2. /\ pc' \in [Flush -> FlushPlaces] /\ index' \in [Flush -> Files!Index]
            /\ published' \in [Files!Index -> Filed] /\ remembered' \in [Flush -> {"published", "kept", None}]
        BY <1>8 DEF Files!Write
      <4> QED BY <4>1, <4>2
    <3>2. FilesOwned'
      BY <1>8, <2>1, <2>2 DEF Files!Write
    <3> QED BY <3>1, <3>2
  <2>4. Files!NoneIsOverwritten'
    BY <1>8, <2>1, <2>2 DEF Files!Write
  <2> QED BY <2>3, <2>4
<1>9. CASE Files!WriteFails(f)
  <2>1. CASE temporary' = [temporary EXCEPT ![index[f]] = None]
    BY <1>9, <2>1 DEF Files!WriteFails
  <2>2. CASE temporary' = temporary
    BY <1>9, <2>2 DEF Files!WriteFails
  <2> QED BY <1>9, <2>1, <2>2 DEF Files!WriteFails
<1>10. CASE Files!Replace(f)
  BY <1>10 DEF Files!Replace
<1>11. CASE Files!ReplaceFails(f)
  BY <1>11 DEF Files!ReplaceFails
<1>12. CASE Files!Dies(f)
  BY <1>12 DEF Files!Dies
<1> QED BY <1>1, <1>2, <1>3, <1>4, <1>5, <1>6, <1>7, <1>8, <1>9, <1>10, <1>11, <1>12

LEMMA FilesStutters == ASSUME FilesInv, UNCHANGED filesOnly PROVE FilesInv'
  BY DEF FilesInv, FilesTypes, FilesOwned, Files!NoneIsOverwritten, filesOnly

------------------------------------------------------------------------------
(* The flight recorder                                                     *)

RecorderTypes ==
  /\ status \in [Servo -> Bits \cup {0}] /\ incident \in [Servo -> Bits \cup {0}]
  /\ baselined \subseteq Servo /\ kept \subseteq Servo
  /\ conn \in {"off", "on", "mute"} /\ attempts \in Nat /\ attempts <= MaxDumps
  /\ sincePoll \in Nat /\ sweepAge \in Nat

(* What a servo last answered in this connection is what is known of it.   *)
AnswersAreKnown ==
  answered = [s \in Servo |-> IF s \in baselined THEN incident[s] ELSE None]

(* An open window still has room for its file, and has not outlived its    *)
(* cap by more than the grace.                                             *)
WindowIsOpen ==
  /\ conn = "off" => window = None
  /\ window # None =>
       /\ window \in [left : Int, cap : Int, trigger : SUBSET Servo]
       /\ window.left <= window.cap /\ attempts < MaxDumps /\ Recorder!WindowCloses

RecorderInv == RecorderTypes /\ AnswersAreKnown /\ WindowIsOpen /\ Recorder!TakenIsKnown

LEMMA RecorderNames ==
  /\ Post \in Nat /\ Post > 0 /\ PostMax \in Nat /\ Post <= PostMax /\ Grace \in Nat /\ MaxDumps \in Nat
  /\ 0 \notin Bits /\ None \notin Bits /\ None # 0 /\ None \notin [left : Int, cap : Int, trigger : SUBSET Servo]
  /\ \A gap \in Gaps : gap \in Nat /\ gap > 0
<1>1. Recorder!RecorderAssumption
  BY RecorderConstants
<1>2. /\ Post \in Nat \ {0} /\ PostMax \in Nat /\ Post <= PostMax /\ Grace \in Nat /\ MaxDumps \in Nat
      /\ Gaps \subseteq Nat \ {0} /\ 0 \notin Bits
  BY <1>1 DEF Recorder!RecorderAssumption
<1>3. None \notin Bits \cup {0}
  BY <1>1, Zenon DEF Recorder!RecorderAssumption
<1>4. None \notin [left : Int, cap : Int, trigger : SUBSET Servo]
  BY <1>1, Zenon DEF Recorder!RecorderAssumption
<1>5. None \notin Bits /\ None # 0
  BY ONLY <1>3
<1>6. Post > 0 /\ \A gap \in Gaps : gap \in Nat /\ gap > 0
  BY ONLY <1>2
<1> QED BY <1>2, <1>4, <1>5, <1>6

LEMMA RecorderStart == Recorder!Init => RecorderInv
  BY RecorderNames DEF Recorder!Init, RecorderInv, RecorderTypes, AnswersAreKnown, WindowIsOpen, Recorder!TakenIsKnown

(* What a read does to the books: a clean answer ends an incident, a new   *)
(* latch is one of a servo that last answered clean.                       *)
LEMMA ObserveKeeps ==
  ASSUME RecorderInv, NEW read \in SUBSET Servo, NEW v, Recorder!Observe(read, v), status' = status,
         Recorder!Triggers(v) \subseteq Recorder!Triggers(window) \cup Recorder!New(read)
  PROVE  /\ incident' \in [Servo -> Bits \cup {0}] /\ baselined' \subseteq Servo /\ kept' \subseteq Servo
         /\ AnswersAreKnown' /\ Recorder!TakenIsKnown'
<1> USE DEF RecorderInv, RecorderTypes
<1>1. ASSUME NEW s \in Servo
      PROVE  incident'[s] = IF s \in read /\ (s \in Recorder!New(read) \/ s \notin baselined \/ incident[s] # 0 \/ status[s] = 0)
                            THEN status[s] ELSE incident[s]
  BY DEF Recorder!Observe, Recorder!Known, Recorder!New, Recorder!Latched, Recorder!Clean
<1>2. ASSUME NEW s \in Servo PROVE incident'[s] = IF s \in read THEN status[s] ELSE incident[s]
  BY <1>1 DEF Recorder!New, Recorder!Latched, Recorder!Clean
<1>3. incident' = [s \in Servo |-> IF s \in read THEN status[s] ELSE incident[s]]
  BY <1>2 DEF Recorder!Observe
<1>4. AnswersAreKnown'
  BY <1>3 DEF Recorder!Observe, AnswersAreKnown
<1>5. kept' \subseteq (kept \ Recorder!Clean(read)) \cup Recorder!New(read)
  BY DEF Recorder!Observe
<1>6. Recorder!TakenIsKnown'
  BY <1>3, <1>5 DEF Recorder!TakenIsKnown, Recorder!New, Recorder!Latched, Recorder!Clean
<1>7. baselined' \subseteq Servo
  BY DEF Recorder!Observe
<1> QED BY <1>3, <1>4, <1>5, <1>6, <1>7 DEF Recorder!New, Recorder!Latched, Recorder!Clean

(* What a read does to the window: it stays under its cap, and takes new   *)
(* latches only, while there is room for a file.                           *)
LEMMA WindowGrows ==
  ASSUME RecorderTypes, WindowIsOpen, NEW gap \in Gaps, NEW new \in SUBSET Servo,
         NEW w, w = Recorder!Aged(window, gap), NEW v, v = Recorder!Window(w, new)
  PROVE  /\ v # None =>
              /\ v \in [left : Int, cap : Int, trigger : SUBSET Servo]
              /\ v.left <= v.cap /\ attempts < MaxDumps
         /\ Recorder!Triggers(v) \subseteq Recorder!Triggers(window) \cup new
         /\ new \subseteq Recorder!Triggers(v) \/ (window = None /\ attempts >= MaxDumps)
<1>1. gap \in Nat
  BY RecorderNames
<1>2. CASE window = None
  <2>1. w = None
    BY <1>2 DEF Recorder!Aged
  <2>2. v = IF new = {} \/ attempts >= MaxDumps THEN None ELSE [left |-> Post, cap |-> PostMax, trigger |-> new]
    BY <2>1 DEF Recorder!Window
  <2>3. CASE new = {} \/ attempts >= MaxDumps
    <3>1. v = None
      BY <2>2, <2>3
    <3> QED BY <1>2, <2>3, <3>1 DEF Recorder!Triggers
  <2>4. CASE ~ (new = {} \/ attempts >= MaxDumps)
    <3>1. v = [left |-> Post, cap |-> PostMax, trigger |-> new]
      BY <2>2, <2>4
    <3> QED BY <1>2, <3>1, <2>4, RecorderNames DEF Recorder!Triggers, RecorderTypes
  <2> QED BY <2>3, <2>4
<1>3. CASE window # None
  <2>1. w = [left |-> window.left - gap, cap |-> window.cap - gap, trigger |-> window.trigger]
    BY <1>3 DEF Recorder!Aged, WindowIsOpen
  <2>2. w \in [left : Int, cap : Int, trigger : SUBSET Servo] /\ w.left <= w.cap /\ w.trigger = window.trigger
    BY <1>1, <1>3, <2>1 DEF WindowIsOpen
  <2>3. v = IF new = {} THEN w ELSE Recorder!Extended(w, new)
    <3>1. w # None
      BY <2>2, RecorderNames
    <3> QED BY <3>1 DEF Recorder!Window
  <2>4. v \in [left : Int, cap : Int, trigger : SUBSET Servo] /\ v.left <= v.cap /\ v.trigger = window.trigger \cup new
    <3>1. CASE new = {}
      BY <2>2, <2>3, <3>1
    <3>2. CASE new # {}
      <4>1. v = [w EXCEPT !.left = Recorder!Least(Post, w.cap), !.trigger = @ \cup new]
        BY <2>3, <3>2 DEF Recorder!Extended
      <4>2. PICK left : left = Recorder!Least(Post, w.cap)
        OBVIOUS
      <4>3. left \in Int /\ left <= w.cap
        BY <2>2, <4>2, RecorderNames DEF Recorder!Least
      <4>4. v = [w EXCEPT !.left = left, !.trigger = @ \cup new]
        BY <4>1, <4>2
      <4>5. /\ v \in [left : Int, cap : Int, trigger : SUBSET Servo]
            /\ v.left = left /\ v.cap = w.cap /\ v.trigger = w.trigger \cup new
        <5>1. v.left = left /\ v.cap = w.cap
          BY <2>2, <4>4
        <5>2. v.trigger = w.trigger \cup new
          BY <2>2, <4>4
        <5>3. v \in [left : Int, cap : Int, trigger : SUBSET Servo]
          BY <2>2, <4>3, <4>4
        <5> QED BY <5>1, <5>2, <5>3
      <4> QED BY <2>2, <4>3, <4>5
    <3> QED BY <3>1, <3>2
  <2> QED BY <1>3, <2>4, RecorderNames DEF Recorder!Triggers, WindowIsOpen
<1> QED BY <1>2, <1>3

(* A window that is not due has not outlived its cap and the grace.        *)
LEMMA NotDueIsOpen ==
  ASSUME NEW left \in Int, NEW cap \in Int, left <= cap, NEW age,
         ~ (left <= 0 /\ (age + left <= 0 \/ left + Grace <= 0))
  PROVE  cap + Grace > 0
  BY RecorderNames

LEMMA WindowStays ==
  ASSUME NEW v \in [left : Int, cap : Int, trigger : SUBSET Servo], v.left <= v.cap, NEW age, ~ Recorder!Due(v, age)
  PROVE  v.cap + Grace > 0
  BY NotDueIsOpen, RecorderNames DEF Recorder!Due

LEMMA RecorderStep == ASSUME RecorderInv, Recorder!Next PROVE RecorderInv'
<1> USE DEF RecorderInv
<1>1. ASSUME NEW gap \in Gaps, NEW leg \in BOOLEAN, NEW read \in SUBSET Servo, Recorder!Step(gap, leg, read)
      PROVE  RecorderInv'
  <2> DEFINE v == Recorder!Window(Recorder!Aged(window, gap), Recorder!New(read))
             age == IF leg THEN 0 ELSE sweepAge + gap
             due == Recorder!Due(v, age)
  <2>0. Recorder!New(read) \in SUBSET Servo
    BY DEF Recorder!New, Recorder!Latched
  <2>1. /\ v # None =>
             /\ v \in [left : Int, cap : Int, trigger : SUBSET Servo]
             /\ v.left <= v.cap /\ attempts < MaxDumps
        /\ Recorder!Triggers(v) \subseteq Recorder!Triggers(window) \cup Recorder!New(read)
    BY <2>0, WindowGrows
  <2>2. /\ conn = "on" /\ Recorder!Observe(read, v) /\ UNCHANGED <<status, conn>>
        /\ window' = (IF due THEN None ELSE v) /\ attempts' = (IF due THEN attempts + 1 ELSE attempts)
        /\ sweepAge' = (IF window' = None THEN 0 ELSE age)
        /\ sincePoll' \in {0, sincePoll + gap}
    BY <1>1 DEF Recorder!Step
  <2>3. due => v # None
    BY DEF Recorder!Due
  <2>4. (v # None /\ ~due) => v.cap + Grace > 0
    BY <2>1, WindowStays
  <2>5. /\ incident' \in [Servo -> Bits \cup {0}] /\ baselined' \subseteq Servo /\ kept' \subseteq Servo
        /\ AnswersAreKnown' /\ Recorder!TakenIsKnown'
    BY <2>1, <2>2, ObserveKeeps
  <2> HIDE DEF v, due
  <2>6. RecorderTypes'
    BY <2>1, <2>2, <2>3, <2>5, RecorderNames DEF RecorderTypes
  <2>7. WindowIsOpen'
    BY <2>1, <2>2, <2>3, <2>4 DEF WindowIsOpen, Recorder!WindowCloses
  <2> QED BY <2>5, <2>6, <2>7
<1>2. ASSUME NEW gap \in Gaps, Recorder!StepMuted(gap)
      PROVE  RecorderInv'
  <2> DEFINE v == Recorder!Aged(window, gap)
             due == Recorder!Due(v, sweepAge + gap)
  <2>1. v = Recorder!Window(v, {})
    BY DEF Recorder!Window
  <2>2. v # None => v \in [left : Int, cap : Int, trigger : SUBSET Servo] /\ v.left <= v.cap /\ attempts < MaxDumps
    <3>1. {} \in SUBSET Servo
      OBVIOUS
    <3> HIDE DEF v
    <3> QED BY <2>1, <3>1, WindowGrows DEF v
  <2>3. /\ conn = "mute" /\ UNCHANGED <<status, conn, sincePoll, baselined, incident, answered, kept>>
        /\ window' = (IF due THEN None ELSE v) /\ attempts' = (IF due THEN attempts + 1 ELSE attempts)
        /\ sweepAge' = (IF window' = None THEN 0 ELSE sweepAge + gap)
    BY <1>2 DEF Recorder!StepMuted
  <2>4. (v # None /\ ~due) => v.cap + Grace > 0
    BY <2>2, WindowStays
  <2>5. due => v # None
    BY DEF Recorder!Due
  <2> HIDE DEF v, due
  <2>6. RecorderTypes'
    BY <2>2, <2>3, <2>5, RecorderNames DEF RecorderTypes
  <2>7. WindowIsOpen'
    BY <2>2, <2>3, <2>4, <2>5 DEF WindowIsOpen, Recorder!WindowCloses
  <2> QED BY <2>3, <2>6, <2>7 DEF AnswersAreKnown, Recorder!TakenIsKnown
<1>3. CASE Recorder!StepMute
  BY <1>3 DEF Recorder!StepMute, RecorderTypes, AnswersAreKnown, WindowIsOpen, Recorder!TakenIsKnown, Recorder!WindowCloses
<1>4. CASE Recorder!Connect
  <2>1. PICK read \in SUBSET Servo :
          /\ baselined' = read /\ incident' = Recorder!Known(read, {})
          /\ answered' = [s \in Servo |-> IF s \in read THEN status[s] ELSE None]
          /\ kept' = kept \ Recorder!Clean(read)
          /\ conn' \in {"on", "mute"}
    BY <1>4 DEF Recorder!Connect
  <2>2. /\ conn = "off" /\ attempts' = 0 /\ sincePoll' = 0 /\ UNCHANGED <<status, window, sweepAge>>
    BY <1>4 DEF Recorder!Connect
  <2>3. incident' = [s \in Servo |-> IF s \in read THEN status[s] ELSE incident[s]]
    BY <2>1 DEF Recorder!Known, Recorder!Clean, RecorderTypes
  <2>4. RecorderTypes'
    BY <2>1, <2>2, <2>3, RecorderNames DEF RecorderTypes
  <2>5. AnswersAreKnown'
    BY <2>1, <2>3 DEF AnswersAreKnown
  <2>6. Recorder!TakenIsKnown'
    BY <2>1, <2>3 DEF RecorderTypes, Recorder!TakenIsKnown, Recorder!Clean
  <2> QED BY <2>1, <2>2, <2>4, <2>5, <2>6 DEF WindowIsOpen
<1>5. CASE Recorder!Disconnect
  BY <1>5, RecorderNames DEF Recorder!Disconnect, RecorderTypes, AnswersAreKnown, WindowIsOpen, Recorder!TakenIsKnown
<1>6. ASSUME NEW s \in Servo, NEW b \in Bits \cup {0}, Recorder!Changes(s, b) PROVE RecorderInv'
  BY <1>6 DEF Recorder!Changes, RecorderTypes, AnswersAreKnown, WindowIsOpen, Recorder!TakenIsKnown, Recorder!WindowCloses
<1> QED BY <1>1, <1>2, <1>3, <1>4, <1>5, <1>6 DEF Recorder!Next

LEMMA RecorderStutters == ASSUME RecorderInv, UNCHANGED recorderOnly, UNCHANGED shared PROVE RecorderInv'
  BY DEF RecorderInv, RecorderTypes, AnswersAreKnown, WindowIsOpen, Recorder!TakenIsKnown, Recorder!WindowCloses,
         recorderOnly, shared

LEMMA RecorderEnds == ASSUME RecorderInv PROVE Recorder!TakenIsKnown /\ Recorder!WindowCloses
  BY DEF RecorderInv, WindowIsOpen, Recorder!WindowCloses

(* A servo enters a window exactly when it answers with a latch after a    *)
(* clean answer of this connection.                                        *)
LEMMA RecorderTakes == ASSUME RecorderInv, Recorder!Next PROVE Recorder!WindowsTakeNewLatches
<1> USE DEF RecorderInv
<1>1. ASSUME NEW gap \in Gaps, NEW leg \in BOOLEAN, NEW read \in SUBSET Servo, Recorder!Step(gap, leg, read), NEW s \in Servo
      PROVE  /\ s \in (kept' \ kept) \cup (Recorder!Triggers(window') \ Recorder!Triggers(window))
                  => answered[s] = 0 /\ answered'[s] \notin {0, None} /\ conn' = conn
             /\ answered[s] = 0 /\ answered'[s] \notin {0, None}
                  => s \in kept' \cup Recorder!Triggers(window) \/ attempts = MaxDumps
  <2> DEFINE new == Recorder!New(read)
             v == Recorder!Window(Recorder!Aged(window, gap), new)
             age == IF leg THEN 0 ELSE sweepAge + gap
  <2>0. new \in SUBSET Servo
    BY DEF Recorder!New, Recorder!Latched
  <2>1. /\ Recorder!Triggers(v) \subseteq Recorder!Triggers(window) \cup new
        /\ new \subseteq Recorder!Triggers(v) \/ (window = None /\ attempts >= MaxDumps)
    <3> HIDE DEF new
    <3> QED BY <2>0, WindowGrows
  <2>2. /\ Recorder!Observe(read, v) /\ conn' = conn
        /\ window' = (IF Recorder!Due(v, age) THEN None ELSE v)
    BY <1>1 DEF Recorder!Step
  <2>3. Recorder!Triggers(window') \subseteq Recorder!Triggers(v)
    BY <2>2 DEF Recorder!Triggers
  <2>4. s \in new <=> answered[s] = 0 /\ answered'[s] \notin {0, None}
    BY <2>2, RecorderNames DEF AnswersAreKnown, RecorderTypes, Recorder!New, Recorder!Latched, Recorder!Clean, Recorder!Observe
  <2>5. kept' = (kept \ Recorder!Clean(read)) \cup (Recorder!Triggers(v) \ Recorder!Triggers(window))
    BY <2>2 DEF Recorder!Observe
  <2> HIDE DEF new, v
  <2> QED BY <2>1, <2>2, <2>3, <2>4, <2>5, RecorderNames DEF RecorderTypes
<1>2. ASSUME NEW gap \in Gaps, Recorder!StepMuted(gap) PROVE Recorder!WindowsTakeNewLatches
  <2>1. /\ kept' = kept /\ answered' = answered
        /\ window' \in {None, Recorder!Aged(window, gap)} /\ window # None
    BY <1>2 DEF Recorder!StepMuted
  <2>2. Recorder!Triggers(window') \subseteq Recorder!Triggers(window)
    <3>1. CASE window' = None
      BY <3>1 DEF Recorder!Triggers
    <3>2. CASE window' = Recorder!Aged(window, gap)
      <4>1. window' = [left |-> window.left - gap, cap |-> window.cap - gap, trigger |-> window.trigger]
        BY <2>1, <3>2 DEF Recorder!Aged, WindowIsOpen
      <4> QED BY <2>1, <4>1 DEF Recorder!Triggers
    <3> QED BY <2>1, <3>1, <3>2
  <2> QED BY <2>1, <2>2 DEF Recorder!WindowsTakeNewLatches
<1>3. CASE Recorder!Connect
  <2>1. conn' # conn /\ kept' \subseteq kept /\ window' = window
    BY <1>3 DEF Recorder!Connect
  <2> QED BY <2>1 DEF Recorder!WindowsTakeNewLatches
<1>4. CASE Recorder!Disconnect
  BY <1>4 DEF Recorder!Disconnect, Recorder!WindowsTakeNewLatches, Recorder!Triggers
<1>5. CASE Recorder!StepMute
  BY <1>5 DEF Recorder!StepMute, Recorder!WindowsTakeNewLatches
<1>6. ASSUME NEW s \in Servo, NEW b \in Bits \cup {0}, Recorder!Changes(s, b) PROVE Recorder!WindowsTakeNewLatches
  BY <1>6 DEF Recorder!Changes, Recorder!WindowsTakeNewLatches
<1>7. ASSUME NEW gap \in Gaps, NEW leg \in BOOLEAN, NEW read \in SUBSET Servo, Recorder!Step(gap, leg, read)
      PROVE  Recorder!WindowsTakeNewLatches
  BY <1>1, <1>7 DEF Recorder!WindowsTakeNewLatches
<1> QED BY <1>2, <1>3, <1>4, <1>5, <1>6, <1>7 DEF Recorder!Next


------------------------------------------------------------------------------
(* Teleoperation                                                           *)

PilotState ==
  [frame : Frame \cup {Tele!Idle}, age : 0..Tele!Never, gesture : Gesture \cup {None}, left : Nat]

TeleTypes ==
  /\ conn \in [Client -> {"none", "viewer", "claimed", "pilot", "closed"}] /\ pilot \in Client \cup {None}
  /\ state \in PilotState /\ snap \in PilotState
  /\ loop \in {"rest", "read", "apply", "step", "off"}
  /\ lag \in Nat /\ silent \in Nat

(* A frame that is younger than the deadman's time is that of a pilot who  *)
(* is there.                                                               *)
SlotInv ==
  /\ Tele!SlotIsFreed
  /\ state.age <= Deadman => pilot # None /\ silent = 0

(* Inside a cycle what was read is as old as the cycle at most, and so is  *)
(* what is done about it; after it the robot is where it was told to be.   *)
CycleInv ==
  /\ (loop = "read" /\ snap.age <= Deadman) => silent <= lag
  /\ loop \in {"apply", "step"} =>
       /\ now = [motion |-> now.motion, neck |-> now.neck] /\ now.motion # "unset"
       /\ (now # Tele!Inert => silent <= lag)
  /\ loop # "off" => robot.motion = IF applied = "unset" THEN None ELSE applied
  /\ loop = "step" => robot = now
  /\ (loop = "rest" /\ ok /\ robot # Tele!Inert) => silent <= lag + (IF cycled THEN 0 ELSE 1)

DriverInv ==
  /\ life = "settling" => loop = "off"
  /\ parked => loop = "off"

TeleInv == TeleTypes /\ SlotInv /\ CycleInv /\ DriverInv

LEMMA TeleNames ==
  /\ Deadman \in Nat /\ Play \in Nat /\ MaxLag \in Nat /\ None \notin Client /\ None # "unset"
  /\ "unset" \notin Gesture /\ \A f \in Frame : f.move # "unset"
  BY TeleConstants DEF Tele!TeleopAssumption

LEMMA FreshIsAState == Tele!Fresh \in PilotState /\ Tele!Fresh.age = Deadman + 1
  BY TeleNames DEF Tele!Fresh, PilotState, Tele!Never

LEMMA TeleStart == Tele!Init => TeleInv
<1> SUFFICES ASSUME Tele!Init PROVE TeleInv
  OBVIOUS
<1>1. TeleTypes
  BY FreshIsAState DEF Tele!Init, TeleTypes
<1>2. SlotInv /\ CycleInv /\ DriverInv
  BY FreshIsAState, TeleNames DEF Tele!Init, SlotInv, CycleInv, DriverInv, Tele!SlotIsFreed, Tele!Inert
<1> QED BY <1>1, <1>2 DEF TeleInv

(* What the session is told keeps the slot; the cycle does not see it.     *)
LEMMA SlotStep ==
  ASSUME TeleInv, NEW c \in Client,
         \/ \E role \in {"pilot", "viewer"} : Tele!Join(c, role)
         \/ Tele!Granted(c) \/ Tele!HangUp(c)
  PROVE  TeleInv'
<1> USE TeleNames, FreshIsAState DEF TeleInv
<1>1. /\ UNCHANGED <<snap, loop, lag, silent, cycled, now, applied, robot, ok, life, parked>>
      /\ (UNCHANGED <<pilot, state>> \/ (pilot = c /\ pilot' = None /\ state' = Tele!Fresh) \/ (pilot' = c /\ state' = state))
  BY DEF Tele!Join, Tele!Granted, Tele!HangUp, Tele!thread, Tele!clock
<1>2. PICK place \in {"viewer", "claimed", "pilot", "closed"} :
        /\ conn' = [conn EXCEPT ![c] = place]
        /\ pilot' = c => place \in {"claimed", "pilot"}
        /\ pilot' # c => pilot' \in {pilot, None}
  BY DEF Tele!Join, Tele!Granted, Tele!HangUp, Tele!Handler, SlotInv, Tele!SlotIsFreed
<1>3. TeleTypes'
  BY <1>1, <1>2 DEF TeleTypes
<1>4. SlotInv'
  BY <1>1, <1>2 DEF SlotInv, Tele!SlotIsFreed, TeleTypes
<1> QED BY <1>1, <1>3, <1>4 DEF CycleInv, DriverInv

(* A state written field by field is a state.                              *)
LEMMA StateIsWritten ==
  ASSUME NEW s \in PilotState, NEW frame \in Frame, NEW age \in 0..Tele!Never, NEW gesture \in Gesture \cup {None},
         NEW left \in Nat
  PROVE  [s EXCEPT !.frame = frame, !.age = age, !.gesture = gesture, !.left = left] \in PilotState
  BY DEF PilotState

LEMMA PilotStep ==
  ASSUME TeleInv, NEW c \in Client,
         (\E f \in Frame : Tele!Update(c, f)) \/ (\E g \in Gesture : Tele!PlayGesture(c, g))
  PROVE  TeleInv'
<1> USE TeleNames DEF TeleInv
<1>1. ASSUME NEW f \in Frame, Tele!Update(c, f) PROVE TeleInv'
  <2>1. /\ pilot = c /\ silent' = 0 /\ UNCHANGED <<conn, pilot, snap, loop, lag, cycled, now, applied, robot, ok, life, parked>>
        /\ state' = [state EXCEPT !.frame = f, !.age = 0, !.gesture = IF Tele!Steering(f) THEN None ELSE @,
                                  !.left = IF Tele!Steering(f) THEN 0 ELSE @]
    BY <1>1 DEF Tele!Update, Tele!thread
  <2>2. state' \in PilotState
    <3>1. PICK gesture \in Gesture \cup {None}, left \in Nat :
            /\ gesture = (IF Tele!Steering(f) THEN None ELSE state.gesture)
            /\ left = (IF Tele!Steering(f) THEN 0 ELSE state.left)
      BY DEF TeleTypes, PilotState
    <3>2. state' = [state EXCEPT !.frame = f, !.age = 0, !.gesture = gesture, !.left = left]
      BY <2>1, <3>1
    <3>3. 0 \in 0..Tele!Never /\ state \in PilotState
      BY DEF TeleTypes, Tele!Never
    <3> QED BY <3>2, <3>3, StateIsWritten
  <2>3. TeleTypes' /\ SlotInv'
    BY <2>1, <2>2 DEF TeleTypes, SlotInv, Tele!SlotIsFreed
  <2> QED BY <2>1, <2>3 DEF CycleInv, DriverInv, TeleTypes
<1>2. ASSUME NEW g \in Gesture, Tele!PlayGesture(c, g) PROVE TeleInv'
  <2>1. PICK off \in BOOLEAN :
          /\ pilot = c /\ UNCHANGED <<conn, pilot, snap, loop, lag, silent, cycled, now, applied, robot, ok, life, parked>>
          /\ state' = [state EXCEPT !.gesture = IF off THEN None ELSE g, !.left = IF off THEN 0 ELSE Play]
    BY <1>2 DEF Tele!PlayGesture, Tele!thread, Tele!clock
  <2>2. state' \in PilotState
    BY <2>1 DEF TeleTypes, PilotState
  <2>3. state'.age = state.age
    BY <2>1 DEF TeleTypes, PilotState
  <2>4. TeleTypes' /\ SlotInv'
    BY <2>1, <2>2, <2>3 DEF TeleTypes, SlotInv, Tele!SlotIsFreed
  <2> QED BY <2>1, <2>4 DEF CycleInv, DriverInv
<1> QED BY <1>1, <1>2

LEMMA OlderState ==
  ASSUME NEW s \in PilotState
  PROVE  Tele!Older(s) \in PilotState /\ Tele!Older(s).age = IF s.age = Deadman + 1 THEN s.age ELSE s.age + 1
<1>1. PICK age \in 0..Tele!Never, left \in Nat, gesture \in Gesture \cup {None} :
        /\ age = (IF s.age = Tele!Never THEN s.age ELSE s.age + 1)
        /\ left = (IF s.left = 0 THEN 0 ELSE s.left - 1)
        /\ gesture = (IF s.left <= 1 THEN None ELSE s.gesture)
  BY TeleNames DEF PilotState, Tele!Never
<1>2. PICK to : to = Tele!Older(s)
  OBVIOUS
<1>3. to = [s EXCEPT !.age = age, !.left = left, !.gesture = gesture]
  BY <1>1, <1>2 DEF Tele!Older
<1>4. to \in PilotState
  BY <1>3 DEF PilotState
<1>5. to.age = age
  BY <1>3 DEF PilotState
<1> QED BY <1>1, <1>2, <1>4, <1>5 DEF Tele!Never

LEMMA PassStep == ASSUME TeleInv, Tele!Pass PROVE TeleInv'
<1> USE TeleNames DEF TeleInv
<1>1. /\ UNCHANGED <<conn, pilot, loop, now, applied, robot, ok, life, parked>>
      /\ state' = Tele!Older(state) /\ snap' = Tele!Older(snap) /\ cycled' = FALSE
      /\ loop = "rest" => cycled /\ lag' = lag
      /\ loop \notin {"rest", "off"} => lag' = lag + 1
      /\ loop = "off" => lag' = lag
      /\ silent' \in {0, silent, silent + 1} /\ (Tele!Live => silent' = 0)
  BY DEF Tele!Pass
<1>2. /\ state' \in PilotState /\ state'.age = (IF state.age = Deadman + 1 THEN state.age ELSE state.age + 1)
      /\ snap' \in PilotState /\ snap'.age = (IF snap.age = Deadman + 1 THEN snap.age ELSE snap.age + 1)
  BY <1>1, OlderState DEF TeleTypes
<1>3. state.age \in 0..(Deadman + 1) /\ snap.age \in 0..(Deadman + 1)
  BY DEF TeleTypes, PilotState, Tele!Never
<1>4. TeleTypes'
  <2>1. lag' \in {lag, lag + 1} /\ silent' \in {0, silent, silent + 1}
    BY <1>1
  <2> QED BY <1>1, <1>2, <2>1 DEF TeleTypes
<1>5. SlotInv'
  <2>1. state'.age <= Deadman => state.age <= Deadman
    BY <1>2, <1>3
  <2> QED BY <1>1, <2>1 DEF SlotInv, Tele!SlotIsFreed, Tele!Live
<1>6. CycleInv'
  <2>1. snap'.age <= Deadman => snap.age <= Deadman
    BY <1>2, <1>3
  <2>2. silent \in Nat /\ lag \in Nat /\ silent' <= silent + 1
    BY <1>1 DEF TeleTypes
  <2> QED BY <1>1, <2>1, <2>2 DEF CycleInv
<1>7. DriverInv'
  BY <1>1 DEF DriverInv
<1> QED BY <1>4, <1>5, <1>6, <1>7

LEMMA LoopStep ==
  ASSUME TeleInv, Tele!Read \/ Tele!Resolve \/ Tele!Apply \/ Tele!Fails \/ Tele!Step \/ Tele!Exit
  PROVE  TeleInv'
<1> USE TeleNames, FreshIsAState DEF TeleInv
<1>0. UNCHANGED <<conn, pilot, state, silent, life, parked>>
  BY DEF Tele!Read, Tele!Resolve, Tele!Apply, Tele!Fails, Tele!Step, Tele!Exit, Tele!session, Tele!clock
<1>1. SlotInv'
  BY <1>0 DEF SlotInv, Tele!SlotIsFreed
<1>2. TeleTypes'
  <2>1. /\ snap' \in {snap, state, Tele!Fresh} /\ lag' \in {lag, 0}
        /\ loop' \in {"rest", "read", "apply", "step", "off"}
    BY DEF Tele!Read, Tele!Resolve, Tele!Apply, Tele!Fails, Tele!Step, Tele!Exit, Tele!clock
  <2> QED BY <1>0, <2>1 DEF TeleTypes
<1>3. DriverInv'
  BY <1>0 DEF Tele!Read, Tele!Resolve, Tele!Apply, Tele!Fails, Tele!Step, Tele!Exit, DriverInv
<1>4. CASE Tele!Read
  <2>1. loop' = "read" /\ snap' = state /\ lag' = 0 /\ UNCHANGED <<now, applied, robot, ok, silent>>
    BY <1>0, <1>4 DEF Tele!Read
  <2>2. CycleInv'
    BY <1>4, <2>1 DEF CycleInv, SlotInv, Tele!Read
  <2> QED BY <1>1, <1>2, <1>3, <2>2
<1>5. CASE Tele!Resolve
  <2>1. loop = "read" /\ loop' = "apply" /\ UNCHANGED <<snap, applied, robot, ok, silent, lag>>
    BY <1>0, <1>5 DEF Tele!Resolve, Tele!clock
  <2>2. now' # Tele!Inert => snap.age <= Deadman
    BY <1>5 DEF Tele!Resolve, Tele!Resolved, TeleTypes, PilotState, Tele!Never
  <2>3. now' = [motion |-> now'.motion, neck |-> now'.neck] /\ now'.motion # "unset"
    <3>1. snap.gesture # "unset" /\ snap.frame.move # "unset"
      BY DEF TeleTypes, PilotState, Tele!Idle
    <3> QED BY <1>5, <3>1 DEF Tele!Resolve, Tele!Resolved, Tele!Inert
  <2>4. CycleInv'
    BY <2>1, <2>2, <2>3 DEF CycleInv
  <2> QED BY <1>1, <1>2, <1>3, <2>4
<1>6. CASE Tele!Apply
  <2>1. /\ loop = "apply" /\ loop' = "step" /\ applied' = now.motion /\ UNCHANGED <<now, ok, silent, lag>>
        /\ robot' = [motion |-> IF now.motion = applied THEN robot.motion ELSE now.motion, neck |-> now.neck]
    BY <1>0, <1>6 DEF Tele!Apply, Tele!clock
  <2>2. robot' = now
    BY <2>1 DEF CycleInv
  <2> QED BY <1>1, <1>2, <1>3, <2>1, <2>2 DEF CycleInv
<1>7. CASE Tele!Fails
  <2>1. CycleInv'
    BY <1>0, <1>7 DEF Tele!Fails, CycleInv
  <2> QED BY <1>1, <1>2, <1>3, <2>1
<1>8. CASE Tele!Step
  <2>1. CycleInv'
    BY <1>0, <1>8 DEF Tele!Step, CycleInv, TeleTypes
  <2> QED BY <1>1, <1>2, <1>3, <2>1
<1>9. CASE Tele!Exit
  <2>1. CycleInv'
    BY <1>0, <1>9 DEF Tele!Exit, CycleInv
  <2> QED BY <1>1, <1>2, <1>3, <2>1
<1> QED BY <1>4, <1>5, <1>6, <1>7, <1>8, <1>9

LEMMA TeardownStep ==
  ASSUME TeleInv,
         Tele!TearDown \/ Tele!Settles \/ Tele!GiveUp \/ Tele!SettleFails \/ Tele!Disconnect
  PROVE  TeleInv'
<1>1. /\ UNCHANGED <<conn, pilot, state, loop, snap, now, applied, ok, lag, silent, cycled>>
      /\ loop # "off" => robot' = robot
      /\ DriverInv'
  BY DEF TeleInv, DriverInv, Tele!TearDown, Tele!Settles, Tele!GiveUp, Tele!SettleFails, Tele!Disconnect, Tele!session,
         Tele!thread, Tele!clock
<1> QED BY <1>1 DEF TeleInv, TeleTypes, SlotInv, CycleInv, Tele!SlotIsFreed

LEMMA TeleStep == ASSUME TeleInv, Tele!Next PROVE TeleInv'
  BY SlotStep, PilotStep, PassStep, LoopStep, TeardownStep DEF Tele!Next

LEMMA TeleStutters == ASSUME TeleInv, UNCHANGED teleOnly, UNCHANGED shared PROVE TeleInv'
  BY DEF TeleInv, TeleTypes, SlotInv, CycleInv, DriverInv, Tele!SlotIsFreed, teleOnly, shared

LEMMA TeleEnds == ASSUME TeleInv PROVE Tele!MovesForALivePilot /\ Tele!OneDriver /\ Tele!SlotIsFreed
<1>1. Tele!MovesForALivePilot
  BY DEF TeleInv, TeleTypes, CycleInv, Tele!MovesForALivePilot
<1> QED BY <1>1 DEF TeleInv, DriverInv, SlotInv, Tele!OneDriver

------------------------------------------------------------------------------
(* Stopping                                                                *)

StopPlaces ==
  {"start", "connecting", "serving", "closing", "finally", "waiting", "parked", "leaving", "returned", "killed"}

StopTypes ==
  /\ entry \in Entry /\ at \in StopPlaces /\ queued \in Nat
  /\ sent \in Seq([kind : Stop!Kind, at : StopPlaces \cup {"restoring"}])
  /\ seen => Len(sent) > 0

(* No signal has found a gap.                                              *)
CleanStop == \A i \in 1..Len(sent) : ~ Stop!Gap(sent[i])

Soft == [Stop!Outside EXCEPT !.TERM = "interrupt"]
Deaf == [Stop!Outside EXCEPT !.TERM = "ignore"]

(* A signal broke the restore of the Textual companion.                    *)
Broken == \E i \in DOMAIN sent : sent[i].at = "restoring"

(* The dispositions at each place of each program.                         *)
Handled ==
  /\ at = "start" => how = Stop!Outside /\ saved = <<>>
  /\ at \in {"connecting", "serving", "finally"} =>
       /\ entry = "cli" => how = Stop!All("loop")
       /\ entry = "flag" => how = Stop!All("flag")
       /\ entry = "mcp" => how = Soft
       /\ entry = "tui" => \/ how = Soft /\ saved = <<Stop!Outside, Deaf>>
                           \/ how = Deaf /\ at = "finally" /\ Len(saved) = 1
                           \/ how = Soft /\ at = "finally" /\ Len(saved) = 1 /\ Broken
  /\ at = "closing" => entry = "mcp" /\ how = Soft
  /\ at \in {"waiting", "parked"} => how = Stop!All("ignore")

(* Where the connect and the torque can be: nobody is past the park with   *)
(* either.                                                                 *)
Carried ==
  /\ at = "start" => connect = "no"
  /\ at = "connecting" => connect = "running"
  /\ at = "serving" => connect = "done"
  /\ at \in {"parked", "leaving", "returned", "killed"} => connect # "running" /\ ~torque
  /\ connect = "no" => ~torque

(* Only the headless companion is cancelled, and its teardown says so in   *)
(* time: a cancellation it still carries came before the connect failed.   *)
Cancels ==
  /\ (at \notin {"leaving", "returned", "killed"} /\ (cancelled \/ queued > 0)) => entry = "cli"
  /\ (cancelled /\ at \in {"finally", "waiting"}) => connect = "done" /\ ~torque
  /\ (entry = "cli" /\ at \in {"finally", "waiting"}) => tearing

StopInv == StopTypes /\ (CleanStop => Handled /\ Carried /\ Cancels)

LEMMA Dispositions ==
  /\ Stop!Outside["TERM"] = "kill" /\ Stop!Outside["INT"] = "raise"
  /\ Soft["TERM"] = "interrupt" /\ Soft["INT"] = "raise"
  /\ Deaf["TERM"] = "ignore" /\ Deaf["INT"] = "raise"
  /\ \A k \in Stop!Kind : Stop!All("loop")[k] = "loop" /\ Stop!All("flag")[k] = "flag" /\ Stop!All("ignore")[k] = "ignore"
  BY DEF Stop!Outside, Soft, Deaf, Stop!All

LEMMA EntryPoints == Entry \subseteq {"cli", "tui", "mcp", "flag"}
  BY StopConstants DEF Stop!ShutdownAssumption

LEMMA StopStart == Stop!Init => StopInv
<1> SUFFICES ASSUME Stop!Init PROVE StopInv
  OBVIOUS
<1>1. sent \in Seq([kind : Stop!Kind, at : StopPlaces \cup {"restoring"}])
  BY DEF Stop!Init
<1>2. StopTypes
  BY <1>1 DEF Stop!Init, StopTypes, StopPlaces
<1>3. Handled /\ Carried /\ Cancels
  BY DEF Stop!Init, Handled, Carried, Cancels
<1> QED BY <1>2, <1>3 DEF StopInv

(* A gap a signal found stays found.                                       *)
LEMMA CleanSoFar ==
  ASSUME StopTypes, entry' = entry, CleanStop',
         \/ sent' = sent
         \/ \E k \in Stop!Kind, place \in StopPlaces \cup {"restoring"} : sent' = Append(sent, [kind |-> k, at |-> place])
  PROVE  CleanStop /\ (Broken => Broken')
<1>1. CASE sent' = sent
  BY <1>1 DEF CleanStop, Stop!Gap, Broken
<1>2. ASSUME NEW k \in Stop!Kind, NEW place \in StopPlaces \cup {"restoring"}, sent' = Append(sent, [kind |-> k, at |-> place])
      PROVE  CleanStop /\ (Broken => Broken')
  <2>1. Len(sent') = Len(sent) + 1 /\ Len(sent) \in Nat /\ \A i \in 1..Len(sent) : sent'[i] = sent[i]
    BY <1>2 DEF StopTypes
  <2>3. Broken => Broken'
    BY <2>1 DEF StopTypes, Broken
  <2>2. ASSUME NEW i \in 1..Len(sent), Stop!Gap(sent[i]) PROVE FALSE
    <3>1. i \in 1..Len(sent') /\ sent'[i] = sent[i]
      BY <2>1
    <3>2. ~ Stop!Gap(sent[i])'
      BY <3>1 DEF CleanStop, Stop!Gap
    <3> QED BY <2>1, <2>2, <2>3, <3>1, <3>2 DEF Stop!Gap, Broken
  <2> QED BY <2>2, <2>3 DEF CleanStop
<1> QED BY <1>1, <1>2

(* What a signal that finds no gap meets.                                  *)
LEMMA NoGapFound ==
  ASSUME StopTypes, NEW k \in Stop!Kind, sent' = Append(sent, [kind |-> k, at |-> at]), entry' = entry, CleanStop'
  PROVE  /\ entry = "tui" => ~ (at = "finally" /\ (k = "INT" \/ Broken'))
         /\ entry = "mcp" => at \notin {"finally", "closing"}
         /\ entry = "flag" => ~ seen
<1>0. PICK s : s = [kind |-> k, at |-> at]
  OBVIOUS
<1>1. Len(sent') = Len(sent) + 1 /\ Len(sent) \in Nat /\ sent'[Len(sent')] = s
  BY <1>0 DEF StopTypes
<1>2. ~ Stop!Gap(s)'
  <2>1. Len(sent') \in 1..Len(sent')
    BY <1>1
  <2> QED BY <1>1, <2>1 DEF CleanStop, Stop!Gap
<1>3. s.kind = k /\ s.at = at /\ entry \in {"cli", "tui", "mcp", "flag"}
  BY <1>0, EntryPoints DEF StopTypes
<1> QED BY <1>1, <1>2, <1>3 DEF Stop!Gap, StopTypes, Broken

LEMMA SignalStep == ASSUME StopInv, NEW k \in Stop!Kind, Stop!Signal(k) PROVE StopInv'
<1> USE DEF StopInv
<1>1. /\ at \notin {"returned", "killed"} /\ entry' = entry /\ UNCHANGED <<cancelled, tearing, connect, torque>>
      /\ sent' = Append(sent, [kind |-> k, at |-> at]) /\ seen' = (seen \/ how[k] = "flag")
      /\ queued' = queued + (IF how[k] = "loop" THEN 1 ELSE 0)
  BY DEF Stop!Signal, Stop!Ended, Stop!Kill, Stop!Raise, Stop!Go, Stop!Restore, Stop!hardware
<1>0. how[k] # "loop" => queued' = queued
  BY <1>1 DEF StopTypes
<1>2. k \in {"TERM", "INT"} /\ entry \in {"cli", "tui", "mcp", "flag"}
  BY EntryPoints DEF Stop!Kind, StopTypes
<1>3. at' \in StopPlaces /\ at \in StopPlaces
  BY DEF Stop!Signal, Stop!Kill, Stop!Raise, Stop!Go, Stop!Lands, StopTypes, StopPlaces
<1>4. StopTypes'
  BY <1>1, <1>3 DEF StopTypes
<1>5. ASSUME CleanStop' PROVE Handled' /\ Carried' /\ Cancels'
  <2>1. Handled /\ Carried /\ Cancels /\ (Broken => Broken')
    BY <1>1, <1>3, <1>5, CleanSoFar
  <2>2. /\ entry = "tui" => ~ (at = "finally" /\ (k = "INT" \/ Broken'))
        /\ entry = "mcp" => at \notin {"finally", "closing"}
        /\ entry = "flag" => ~ seen
    BY <1>1, <1>5, NoGapFound
  <2>3. CASE at = "start"
    <3>1. how[k] \in {"kill", "raise"} /\ at' \in {"killed", "leaving"}
      BY <1>2, <2>1, <2>3, Dispositions DEF Handled, Stop!Signal, Stop!Kill, Stop!Raise, Stop!Go, Stop!Lands
    <3> QED BY <1>0, <1>1, <2>1, <2>3, <3>1 DEF Handled, Carried, Cancels, StopTypes
  <2>4. CASE at \in {"connecting", "serving", "finally"} /\ entry = "cli"
    <3>1. how[k] = "loop"
      BY <2>1, <2>4, Dispositions DEF Handled
    <3>2. UNCHANGED <<at, how, saved>>
      BY <3>1 DEF Stop!Signal
    <3> QED BY <1>0, <1>1, <2>1, <2>4, <3>2 DEF Handled, Carried, Cancels
  <2>5. CASE at \in {"connecting", "serving", "finally"} /\ entry = "flag"
    <3>1. how[k] = "flag" /\ ~ seen
      BY <2>1, <2>2, <2>5, Dispositions DEF Handled
    <3>2. UNCHANGED <<at, how, saved>>
      BY <3>1 DEF Stop!Signal
    <3> QED BY <1>0, <1>1, <2>1, <2>5, <3>1, <3>2 DEF Handled, Carried, Cancels
  <2>6. CASE at \in {"connecting", "serving"} /\ entry = "mcp"
    <3>1. how[k] \in {"interrupt", "raise"}
      BY <1>2, <2>1, <2>6, Dispositions DEF Handled
    <3>2. at' = (IF at = "connecting" THEN "closing" ELSE "finally") /\ UNCHANGED <<how, saved>>
      BY <2>6, <3>1 DEF Stop!Signal, Stop!Raise, Stop!Go, Stop!Lands
    <3> QED BY <1>0, <1>1, <2>1, <2>6, <3>1, <3>2 DEF Handled, Carried, Cancels
  <2>7. CASE at \in {"connecting", "serving", "finally"} /\ entry = "tui" /\ how = Soft
    <3>1. how[k] \in {"interrupt", "raise"}
      BY <1>2, <2>7, Dispositions
    <3>2. at' = Stop!Lands(at) /\ UNCHANGED <<how, saved>>
      BY <3>1 DEF Stop!Signal, Stop!Raise, Stop!Go
    <3>3. at' = "finally"
      <4>1. Len(saved) = 2
        <5>1. saved = <<Stop!Outside, Deaf>>
          BY <2>1, <2>2, <2>7, Dispositions DEF Handled
        <5> QED BY <5>1
      <4> QED BY <2>7, <3>2, <4>1 DEF Stop!Lands
    <3> QED BY <1>0, <1>1, <2>1, <2>7, <3>1, <3>2, <3>3 DEF Handled, Carried, Cancels
  <2>8. CASE at = "finally" /\ entry = "tui" /\ how = Deaf
    <3>1. how[k] = "ignore"
      BY <1>2, <2>2, <2>8, Dispositions
    <3>2. UNCHANGED <<at, how, saved>>
      BY <3>1 DEF Stop!Signal
    <3> QED BY <1>0, <1>1, <2>1, <2>8, <3>1, <3>2 DEF Handled, Carried, Cancels
  <2>9. CASE at \in {"waiting", "parked"}
    <3>1. how[k] = "ignore"
      BY <2>1, <2>9, Dispositions DEF Handled
    <3>2. UNCHANGED <<at, how, saved>>
      BY <3>1 DEF Stop!Signal
    <3> QED BY <1>0, <1>1, <2>1, <2>9, <3>1, <3>2 DEF Handled, Carried, Cancels
  <2>10. CASE at = "leaving"
    <3>1. at' \in {"leaving", "killed"}
      BY <2>10 DEF Stop!Signal, Stop!Kill, Stop!Raise, Stop!Go, Stop!Lands
    <3> QED BY <1>0, <1>1, <2>1, <2>10, <3>1 DEF Handled, Carried, Cancels
  <2>11. at = "closing" => FALSE
    BY <2>1, <2>2 DEF Handled
  <2>12. at = "finally" /\ entry = "mcp" => FALSE
    BY <2>2
  <2>13. (at \in {"connecting", "serving", "finally"} /\ entry = "tui") => how = Soft \/ (how = Deaf /\ at = "finally")
    BY <2>1 DEF Handled
  <2> QED BY <1>1, <1>2, <2>3, <2>4, <2>5, <2>6, <2>7, <2>8, <2>9, <2>10, <2>11, <2>12, <2>13 DEF StopTypes, StopPlaces
<1> QED BY <1>4, <1>5

LEMMA TwoAppended == ASSUME NEW a, NEW b PROVE Append(Append(<<>>, a), b) = <<a, b>>
<1> DEFINE two == Append(Append(<<>>, a), b)
<1>1. <<>> \in Seq({a, b}) /\ Append(<<>>, a) \in Seq({a, b})
  OBVIOUS
<1>2. two \in Seq({a, b}) /\ <<a, b>> \in Seq({a, b})
  BY <1>1
<1>3. Len(two) = 2 /\ two[1] = a /\ two[2] = b
  BY <1>1
<1>4. \A i \in 1..2 : two[i] = <<a, b>>[i]
  BY <1>3
<1> HIDE DEF two
<1>5. two = <<a, b>>
  BY <1>2, <1>3, <1>4, SeqEqual
<1> QED BY <1>5 DEF two

(* Between the signals.                                                    *)
LEMMA RunsStep ==
  ASSUME StopInv,
         \/ Stop!Deliver \/ Stop!Begin \/ Stop!Enable \/ (\E done \in BOOLEAN : Stop!Connects(done)) \/ Stop!CloseProbe
         \/ Stop!SessionEnds \/ Stop!LeaveInner \/ Stop!Ignore \/ Stop!Park \/ Stop!Parked \/ Stop!Leave
  PROVE  StopInv'
<1> USE DEF StopInv
<1>1. sent' = sent /\ entry' = entry /\ seen' = seen
  BY DEF Stop!Deliver, Stop!Begin, Stop!Enable, Stop!Connects, Stop!CloseProbe, Stop!SessionEnds, Stop!LeaveInner,
         Stop!Ignore, Stop!Park, Stop!Parked, Stop!Leave, Stop!Go, Stop!Teardown, Stop!program, Stop!delivery
<1>2. at' \in StopPlaces /\ queued' \in Nat
  BY DEF Stop!Deliver, Stop!Begin, Stop!Enable, Stop!Connects, Stop!CloseProbe, Stop!SessionEnds, Stop!LeaveInner,
         Stop!Ignore, Stop!Park, Stop!Parked, Stop!Leave, Stop!Go, Stop!Teardown, Stop!program, Stop!delivery,
         StopTypes, StopPlaces
<1>3. StopTypes'
  BY <1>1, <1>2 DEF StopTypes
<1>4. (CleanStop' => CleanStop) /\ (Broken <=> Broken')
  BY <1>1, CleanSoFar DEF Broken
<1>5. entry \in {"cli", "tui", "mcp", "flag"}
  BY EntryPoints DEF StopTypes
<1> SUFFICES ASSUME Handled, Carried, Cancels PROVE Handled' /\ Carried' /\ Cancels'
  BY <1>3, <1>4
<1> USE <1>4 DEF Handled, Carried, Cancels
<1>6. CASE Stop!Deliver
  BY <1>1, <1>6 DEF Stop!Deliver, Stop!program, Stop!hardware, Stop!Ended
<1>7. CASE Stop!Begin
  <2>1. at = "start" /\ at' = "connecting" /\ connect' = "running" /\ UNCHANGED <<queued, cancelled>>
    BY <1>7 DEF Stop!Begin, Stop!Go
  <2>2. /\ entry = "cli" => how' = Stop!All("loop")
        /\ entry = "flag" => how' = Stop!All("flag")
        /\ entry = "mcp" => how' = Soft
        /\ entry = "tui" => how' = Soft /\ saved' = Append(Append(saved, how), Deaf)
    BY <1>7 DEF Stop!Begin, Stop!Handlers, Stop!Install, Soft, Deaf
  <2>3. saved = <<>>
    BY <2>1
  <2>4. entry = "tui" => saved' = <<Stop!Outside, Deaf>>
    BY <2>1, <2>2, <2>3, TwoAppended
  <2> QED BY <1>1, <2>1, <2>2, <2>4
<1>8. CASE Stop!Enable
  BY <1>1, <1>8 DEF Stop!Enable, Stop!program, Stop!delivery
<1>9. ASSUME NEW done \in BOOLEAN, Stop!Connects(done) PROVE Handled' /\ Carried' /\ Cancels'
  <2>1. /\ connect = "running" /\ connect' = "done" /\ torque' = done
        /\ UNCHANGED <<how, saved, queued, cancelled>>
    BY <1>9 DEF Stop!Connects, Stop!delivery
  <2>2. CASE at # "connecting"
    <3>1. UNCHANGED <<at, tearing>>
      BY <1>9, <2>2 DEF Stop!Connects, Stop!program
    <3> QED BY <1>1, <2>1, <2>2, <3>1
  <2>3. CASE at = "connecting" /\ done
    <3>1. at' = "serving"
      BY <1>9, <2>3 DEF Stop!Connects, Stop!Go
    <3> QED BY <1>1, <2>1, <2>3, <3>1
  <2>4. CASE at = "connecting" /\ ~done
    <3>1. at' = "finally" /\ tearing' = (entry = "cli") /\ ~ torque'
      BY <1>9, <2>4 DEF Stop!Connects, Stop!Go, Stop!Teardown
    <3> QED BY <1>1, <2>1, <2>4, <3>1
  <2> QED BY <2>2, <2>3, <2>4
<1>10. CASE Stop!CloseProbe
  BY <1>1, <1>10 DEF Stop!CloseProbe, Stop!Go, Stop!delivery
<1>11. CASE Stop!SessionEnds
  <2>1. /\ at \in {"serving", "connecting"} /\ (at = "connecting" => entry = "cli") /\ at' = "finally" /\ ~ cancelled'
        /\ tearing' = (entry = "cli")
        /\ UNCHANGED <<how, saved, queued, connect, torque>>
    BY <1>11 DEF Stop!SessionEnds, Stop!Go, Stop!Teardown, Stop!hardware
  <2> QED BY <1>1, <2>1
<1>12. CASE Stop!LeaveInner
  <2>1. /\ at = "finally" /\ at' = at /\ entry = "tui" /\ Len(saved) = 2
        /\ how' = saved[Len(saved)] /\ saved' = SubSeq(saved, 1, Len(saved) - 1)
        /\ UNCHANGED <<queued, cancelled, tearing, connect, torque>>
    BY <1>12 DEF Stop!LeaveInner, Stop!Restore, Stop!Last, Stop!Front, Stop!program, Stop!hardware
  <2>2. how' = Deaf /\ Len(saved') = 1
    <3>1. saved = <<Stop!Outside, Deaf>>
      BY <2>1
    <3>2. ASSUME NEW a, NEW b PROVE Len(SubSeq(<<a, b>>, 1, 2 - 1)) = 1 /\ <<a, b>>[2] = b
      OBVIOUS
    <3> QED BY <2>1, <3>1, <3>2
  <2> QED BY <1>1, <2>1, <2>2
<1>13. CASE Stop!Ignore
  BY <1>1, <1>13 DEF Stop!Ignore, Stop!Go, Stop!Install, Stop!hardware
<1>14. CASE Stop!Park
  BY <1>1, <1>14 DEF Stop!Park, Stop!Go, Stop!Restore
<1>15. CASE Stop!Parked
  BY <1>1, <1>15 DEF Stop!Parked, Stop!Go, Stop!Restore, Stop!hardware
<1>16. CASE Stop!Leave
  BY <1>1, <1>16 DEF Stop!Leave, Stop!Go, Stop!Restore, Stop!program, Stop!hardware
<1> QED BY <1>6, <1>7, <1>8, <1>9, <1>10, <1>11, <1>12, <1>13, <1>14, <1>15, <1>16

LEMMA RestoreStep == ASSUME StopInv, NEW k \in Stop!Kind, Stop!RestoreBroken(k) PROVE StopInv'
<1> USE DEF StopInv
<1>1. /\ entry = "tui" /\ at = "finally" /\ Len(saved) = 2 /\ sent' = Append(sent, [kind |-> k, at |-> "restoring"])
      /\ saved' = SubSeq(saved, 1, Len(saved) - 1)
      /\ UNCHANGED <<entry, at, how, seen, queued, cancelled, tearing, connect, torque>>
  BY DEF Stop!RestoreBroken, Stop!program, Stop!hardware, Stop!Front
<1>2. /\ Len(sent') = Len(sent) + 1 /\ Len(sent) \in Nat /\ sent'[Len(sent')] = [kind |-> k, at |-> "restoring"]
      /\ sent' \in Seq([kind : Stop!Kind, at : StopPlaces \cup {"restoring"}])
  BY <1>1 DEF StopTypes
<1>3. StopTypes'
  BY <1>1, <1>2 DEF StopTypes
<1>4. Broken'
  BY <1>2 DEF Broken
<1>5. ASSUME CleanStop' PROVE Handled' /\ Carried' /\ Cancels'
  <2>1. Handled /\ Carried /\ Cancels
    BY <1>1, <1>5, CleanSoFar
  <2>2. how = Soft /\ Len(saved') = 1
    <3>1. saved = <<Stop!Outside, Deaf>> /\ how = Soft
      BY <1>1, <2>1 DEF Handled
    <3>2. ASSUME NEW a, NEW b PROVE Len(SubSeq(<<a, b>>, 1, 2 - 1)) = 1
      OBVIOUS
    <3> QED BY <1>1, <3>1, <3>2
  <2> QED BY <1>1, <1>4, <2>1, <2>2 DEF Handled, Carried, Cancels
<1> QED BY <1>3, <1>5

LEMMA StopStep == ASSUME StopInv, Stop!Next PROVE StopInv'
  BY SignalStep, RestoreStep, RunsStep DEF Stop!Next

LEMMA StopStutters == ASSUME StopInv, UNCHANGED stopOnly PROVE StopInv'
<1>1. UNCHANGED <<entry, at, how, saved, seen, queued, cancelled, tearing, connect, torque, sent>>
  BY DEF stopOnly
<1>2. (CleanStop' <=> CleanStop) /\ (Broken' <=> Broken)
  BY <1>1 DEF CleanStop, Stop!Gap, Broken
<1> QED BY <1>1, <1>2 DEF StopInv, StopTypes, Handled, Carried, Cancels

LEMMA StopEnds == ASSUME StopInv PROVE Stop!StopEndsReleased
<1>1. ASSUME ~ \E s \in Stop!ToSet(sent) : Stop!Gap(s) PROVE CleanStop
  <2>1. DOMAIN sent = 1..Len(sent)
    BY DEF StopInv, StopTypes
  <2> QED BY <1>1, <2>1 DEF CleanStop, Stop!ToSet
<1> QED BY <1>1 DEF StopInv, Carried, Stop!StopEndsReleased, Stop!Over, Stop!Ended

------------------------------------------------------------------------------
(* The tool set of the companion, for any set of callers                   *)

Tools == INSTANCE ToolCalls WITH Caller <- Plan

Calling == [stage : Tools!Stage \cup {None}, tool : Tools!Tool \cup {None}, result : Tools!Result \cup {None}]
Active == {"checkpoint", "returned"} \cup Tools!Executing

(* Whoever is past the lock holds it, and who waits for it waits once.     *)
ToolsInv(C) ==
  /\ call \in [C -> Calling] /\ holder \in C \cup {None} /\ line \in Seq(C)
  /\ \A c \in C : call[c].stage \in Active <=> holder = c
  /\ \A i \in 1..Len(line) : call[line[i]].stage = "queued"
  /\ \A i, j \in 1..Len(line) : line[i] = line[j] => i = j

LEMMA ToolNames == None \notin Tools!Tool /\ None \notin Tools!Stage /\ None \notin Tools!Result /\ None \notin Plan
  BY RealtimeConstants
  DEF Realtime!RealtimeAssumption, Realtime!ToolsAssumption, Tools!Tool, Tools!Stage, Tools!Result, Tools!Executing,
      Realtime!Tool, Realtime!Stage, Realtime!Result, Realtime!Executing

LEMMA RestingCalls == Tools!Resting \in Calling /\ Tools!Resting.stage = None
  BY DEF Tools!Resting, Calling

(* One call changes and the line stays.                                    *)
LEMMA ToolsChange ==
  ASSUME NEW C, ToolsInv(C), NEW c \in C, NEW to \in Calling,
         call' = [call EXCEPT ![c] = to], line' = line, call[c].stage # "queued",
         holder' \in C \cup {None}, \A d \in C \ {c} : holder' = d <=> holder = d,
         to.stage \in Active <=> holder' = c
  PROVE  ToolsInv(C)'
  BY DEF ToolsInv

(* A call joins the line.                                                  *)
LEMMA ToolsJoin ==
  ASSUME NEW C, ToolsInv(C), NEW c \in C, NEW to \in Calling,
         call' = [call EXCEPT ![c] = to], line' = Append(line, c), call[c].stage # "queued", to.stage = "queued",
         holder' \in C \cup {None}, \A d \in C \ {c} : holder' = d <=> holder = d, holder' # c
  PROVE  ToolsInv(C)'
<1> USE DEF ToolsInv
<1>1. /\ Len(line) \in Nat /\ Len(line') = Len(line) + 1 /\ line' \in Seq(C)
      /\ \A i \in 1..Len(line) : line'[i] = line[i] /\ line[i] # c
      /\ line'[Len(line) + 1] = c
  OBVIOUS
<1>2. \A i \in 1..Len(line') : i \in 1..Len(line) \/ i = Len(line) + 1
  BY <1>1
<1>3. \A i \in 1..Len(line') : call'[line'[i]].stage = "queued"
  BY <1>1, <1>2
<1>4. \A i, j \in 1..Len(line') : line'[i] = line'[j] => i = j
  BY <1>1, <1>2
<1>5. \A d \in C : call'[d].stage \in Active <=> holder' = d
  BY DEF Active, Tools!Executing
<1> QED BY <1>1, <1>3, <1>4, <1>5

(* The lock passes to the head of the line.                                *)
LEMMA ToolsGrant ==
  ASSUME NEW C, None \notin C, ToolsInv(C), NEW to \in Calling, holder = None, line # <<>>,
         holder' = Head(line), line' = Tail(line), call' = [call EXCEPT ![Head(line)] = to], to.stage \in Active
  PROVE  ToolsInv(C)'
<1> USE DEF ToolsInv
<1>1. /\ Len(line) \in Nat /\ Len(line) > 0 /\ Head(line) = line[1] /\ Head(line) \in C
      /\ Tail(line) \in Seq(C) /\ Len(Tail(line)) = Len(line) - 1
      /\ \A i \in 1..(Len(line) - 1) : Tail(line)[i] = line[i + 1] /\ i + 1 \in 1..Len(line) /\ i + 1 # 1
  OBVIOUS
<1>2. \A i \in 1..(Len(line) - 1) : line[i + 1] # line[1]
  BY <1>1
<1>3. \A i \in 1..Len(line') : call'[line'[i]].stage = "queued"
  BY <1>1, <1>2
<1>4. \A i, j \in 1..Len(line') : line'[i] = line'[j] => i = j
  BY <1>1
<1>5. \A d \in C : call'[d].stage \in Active <=> holder' = d
  BY <1>1
<1> QED BY <1>1, <1>3, <1>4, <1>5

(* A caller that has no call asks for one: it takes the lock or joins the  *)
(* line.                                                                   *)
LEMMA ToolsEnter ==
  ASSUME NEW C, None \notin C, ToolsInv(C), NEW c \in C, NEW tool \in Tools!Tool, call[c].stage = None, Tools!Enter(c, tool)
  PROVE  /\ ToolsInv(C)'
         /\ \E to \in Calling : /\ call' = [call EXCEPT ![c] = to] /\ to.tool = tool /\ to.result = None
                                /\ to.stage \in {"checkpoint", "queued"}
<1>1. None \notin Active /\ holder # c /\ None # "queued"
  BY ToolNames DEF Active, ToolsInv, Tools!Stage, Tools!Executing
<1>2. CASE holder = None /\ line = <<>>
  <2>1. PICK to : to = [stage |-> "checkpoint", tool |-> tool, result |-> None]
    OBVIOUS
  <2>2. to \in Calling /\ to.stage = "checkpoint" /\ to.tool = tool /\ to.result = None
    BY <2>1 DEF Calling, Tools!Stage
  <2>3. holder' = c /\ line' = line /\ call' = [call EXCEPT ![c] = to]
    BY <1>2, <2>1 DEF Tools!Enter, Tools!Taken
  <2>4. ToolsInv(C)'
    <3>1. to.stage \in Active
      BY <2>2 DEF Active
    <3>2. \A d \in C \ {c} : holder' = d <=> holder = d
      BY <1>2, <2>3
    <3> QED BY <1>1, <2>2, <2>3, <3>1, <3>2, ToolsChange
  <2> QED BY <2>2, <2>3, <2>4
<1>3. CASE ~ (holder = None /\ line = <<>>)
  <2>1. PICK to : to = [stage |-> "queued", tool |-> tool, result |-> None]
    OBVIOUS
  <2>2. to \in Calling /\ to.stage = "queued" /\ to.tool = tool /\ to.result = None
    BY <2>1 DEF Calling, Tools!Stage
  <2>3. holder' = holder /\ line' = Append(line, c) /\ call' = [call EXCEPT ![c] = to]
    BY <1>3, <2>1 DEF Tools!Enter, Tools!Queued
  <2>4. holder' \in C \cup {None}
    BY <2>3 DEF ToolsInv
  <2>5. ToolsInv(C)'
    BY <1>1, <2>2, <2>3, <2>4, ToolsJoin
  <2> QED BY <2>2, <2>3, <2>5
<1> QED BY <1>2, <1>3

(* A call that has returned leaves, and releases the lock.                 *)
LEMMA ToolsRelease ==
  ASSUME NEW C, None \notin C, ToolsInv(C), NEW c \in C, holder = c, holder' = None, line' = line,
         NEW to \in Calling, to.stage \in {None, "done"}, call' = [call EXCEPT ![c] = to]
  PROVE  ToolsInv(C)'
<1>1. call[c].stage # "queued" /\ to.stage \notin Active
  BY ToolNames DEF ToolsInv, Active, Tools!Stage, Tools!Executing
<1>2. /\ \A d \in C \ {c} : holder' = d <=> holder = d
      /\ holder' # c
  OBVIOUS
<1> QED BY <1>1, <1>2, ToolsChange

LEMMA ToolsGranted ==
  ASSUME NEW C, None \notin C, ToolsInv(C), Tools!Granted
  PROVE  /\ ToolsInv(C)' /\ limp' = limp
         /\ \E c \in C : \E to \in Calling :
              /\ call' = [call EXCEPT ![c] = to] /\ call[c].stage = "queued" /\ holder = None
              /\ to.stage = "checkpoint" /\ to.tool = call[c].tool /\ to.result = call[c].result
<1>1. /\ holder = None /\ line # <<>> /\ holder' = Head(line) /\ line' = Tail(line) /\ limp' = limp
      /\ call' = [call EXCEPT ![Head(line)].stage = "checkpoint"]
  BY DEF Tools!Granted
<1>2. Head(line) \in C /\ call[Head(line)].stage = "queued"
  BY <1>1 DEF ToolsInv
<1>3. PICK c \in C : c = Head(line)
  BY <1>2
<1>4. PICK to : to = [call[c] EXCEPT !.stage = "checkpoint"]
  OBVIOUS
<1>5. call[c] \in Calling
  BY DEF ToolsInv
<1>6. to.stage = "checkpoint" /\ to.tool = call[c].tool /\ to.result = call[c].result /\ to \in Calling
  BY <1>4, <1>5 DEF Calling, Tools!Stage
<1>7. call' = [call EXCEPT ![c] = to]
  BY <1>1, <1>3, <1>4 DEF ToolsInv
<1>8. ToolsInv(C)'
  <2>1. to.stage \in Active
    BY <1>6 DEF Active
  <2> QED BY <1>1, <1>3, <1>6, <1>7, <2>1, ToolsGrant
<1> QED BY <1>1, <1>2, <1>3, <1>6, <1>7, <1>8

(* The holder's call moves on, under the lock.                             *)
LEMMA ToolsProgress ==
  ASSUME NEW C, None \notin C, ToolsInv(C), holder # None, NEW to \in Calling, to.stage \in Active,
         call' = [call EXCEPT ![holder] = to], UNCHANGED <<holder, line>>
  PROVE  ToolsInv(C)'
<1>1. holder \in C /\ call[holder].stage \in Active /\ holder' \in C \cup {None}
  BY DEF ToolsInv
<1>2. call[holder].stage # "queued"
  BY <1>1 DEF Active, Tools!Executing
<1> QED BY <1>1, <1>2, ToolsChange

LEMMA ToolsDispatched ==
  ASSUME NEW C, None \notin C, ToolsInv(C), Tools!Dispatched
  PROVE  /\ ToolsInv(C)' /\ limp' = limp /\ holder \in C
         /\ \E to \in Calling :
              /\ call' = [call EXCEPT ![holder] = to] /\ call[holder].stage = "checkpoint" /\ to.tool = call[holder].tool
              /\ \/ to.stage = "returned" /\ to.result = "interrupted"
                 \/ to.stage = Tools!First(to.tool) /\ to.result = call[holder].result
<1>1. /\ holder # None /\ call[holder].stage = "checkpoint" /\ UNCHANGED <<holder, line, limp>>
      /\ call' = [call EXCEPT ![holder] =
                    IF requested THEN [@ EXCEPT !.stage = "returned", !.result = "interrupted"]
                                 ELSE [@ EXCEPT !.stage = Tools!First(call[holder].tool)]]
  BY DEF Tools!Dispatched, Tools!Busy
<1>2. holder \in C /\ call[holder] \in Calling
  BY <1>1 DEF ToolsInv
<1>3. PICK it \in Calling : it = call[holder]
  BY <1>2
<1>4. PICK stage : stage = Tools!First(it.tool)
  OBVIOUS
<1>5. stage \in Tools!Executing
  BY <1>4 DEF Tools!First, Tools!Executing
<1>6. PICK to : to = IF requested THEN [it EXCEPT !.stage = "returned", !.result = "interrupted"] ELSE [it EXCEPT !.stage = stage]
  OBVIOUS
<1>7. call' = [call EXCEPT ![holder] = to]
  BY <1>1, <1>2, <1>3, <1>4, <1>6 DEF ToolsInv
<1>8. CASE requested
  <2>1. to = [it EXCEPT !.stage = "returned", !.result = "interrupted"]
    BY <1>6, <1>8
  <2>2. to.stage = "returned"
    BY <2>1 DEF Calling
  <2>3. to.tool = it.tool
    BY <2>1 DEF Calling
  <2>4. to.result = "interrupted"
    BY <2>1 DEF Calling
  <2>5. to \in Calling
    BY <2>1 DEF Calling, Tools!Stage, Tools!Result
  <2>6. ToolsInv(C)'
    BY <1>1, <1>7, <2>2, <2>5, ToolsProgress DEF Active
  <2> QED BY <1>1, <1>2, <1>3, <1>7, <2>2, <2>3, <2>4, <2>5, <2>6
<1>9. CASE ~ requested
  <2>1. to = [it EXCEPT !.stage = stage]
    BY <1>6, <1>9
  <2>2. to.stage = stage /\ to.tool = it.tool /\ to.result = it.result
    BY <2>1 DEF Calling
  <2>3. to \in Calling
    BY <1>5, <2>1 DEF Calling, Tools!Stage
  <2>4. ToolsInv(C)'
    BY <1>1, <1>5, <1>7, <2>2, <2>3, ToolsProgress DEF Active
  <2> QED BY <1>1, <1>2, <1>3, <1>4, <1>7, <2>2, <2>3, <2>4
<1> QED BY <1>8, <1>9

LEMMA ToolsWorked ==
  ASSUME NEW C, None \notin C, ToolsInv(C), Tools!Worked, FaceMayFail = FALSE
  PROVE  /\ ToolsInv(C)' /\ holder \in C
         /\ \E to \in Calling :
              /\ call' = [call EXCEPT ![holder] = to] /\ call[holder].stage \in Tools!Executing /\ to.tool = call[holder].tool
              /\ limp' = IF call[holder].stage = "glide" THEN to.tool = "sleep" ELSE limp
              /\ \/ call[holder].stage = "body" /\ to.stage = "returned" /\ to.result = "interrupted"
                 \/ call[holder].stage = "glide" /\ to.stage = IF to.tool = "wake_up" THEN "body" ELSE "tail"
                 \/ call[holder].stage = "body" /\ to.stage = "tail"
                 \/ call[holder].stage = "tail" /\ to.stage = "returned" /\ to.result = "ok"
<1>1. /\ holder # None /\ call[holder].stage \in Tools!Executing /\ UNCHANGED <<holder, line>>
      /\ limp' = IF call[holder].stage = "glide" THEN call[holder].tool = "sleep" ELSE limp
  BY DEF Tools!Worked, Tools!Busy
<1>2. holder \in C /\ call[holder] \in Calling
  BY <1>1 DEF ToolsInv
<1>3. PICK it \in Calling : it = call[holder]
  BY <1>2
<1>4. CASE it.stage = "body" /\ call' = [call EXCEPT ![holder] = [@ EXCEPT !.stage = "returned", !.result = "interrupted"]]
  <2>1. PICK to : to = [it EXCEPT !.stage = "returned", !.result = "interrupted"]
    OBVIOUS
  <2>2. to.stage = "returned"
    BY <2>1 DEF Calling
  <2>3. to.tool = it.tool
    BY <2>1 DEF Calling
  <2>4. to.result = "interrupted"
    BY <2>1 DEF Calling
  <2>5. to \in Calling
    BY <2>1 DEF Calling, Tools!Stage, Tools!Result
  <2>6. call' = [call EXCEPT ![holder] = to]
    BY <1>2, <1>3, <1>4, <2>1 DEF ToolsInv
  <2>7. ToolsInv(C)'
    BY <1>1, <2>2, <2>5, <2>6, ToolsProgress DEF Active
  <2> QED BY <1>1, <1>2, <1>3, <1>4, <2>2, <2>3, <2>4, <2>5, <2>6, <2>7
<1>5. CASE it.stage \in {"glide", "body"} /\ call' = [call EXCEPT ![holder].stage = Tools!After(it.tool, it.stage)]
  <2>0. PICK stage : stage = Tools!After(it.tool, it.stage)
    OBVIOUS
  <2>1. PICK to : to = [it EXCEPT !.stage = stage]
    OBVIOUS
  <2>2. to.stage = stage /\ to.tool = it.tool
    BY <2>1 DEF Calling
  <2>3. stage \in {"body", "tail"} /\ stage = IF it.stage = "glide" /\ it.tool = "wake_up" THEN "body" ELSE "tail"
    BY <2>0 DEF Tools!After
  <2>4. to \in Calling
    BY <2>1, <2>3 DEF Calling, Tools!Stage, Tools!Executing
  <2>5. call' = [call EXCEPT ![holder] = to]
    BY <1>2, <1>3, <1>5, <2>0, <2>1 DEF ToolsInv
  <2>6. ToolsInv(C)'
    BY <1>1, <2>2, <2>3, <2>4, <2>5, ToolsProgress DEF Active, Tools!Executing
  <2> QED BY <1>1, <1>2, <1>3, <1>5, <2>2, <2>3, <2>4, <2>5, <2>6
<1>6. CASE it.stage = "tail" /\ call' = [call EXCEPT ![holder] = [@ EXCEPT !.stage = "returned", !.result = "ok"]]
  <2>1. PICK to : to = [it EXCEPT !.stage = "returned", !.result = "ok"]
    OBVIOUS
  <2>2. to.stage = "returned"
    BY <2>1 DEF Calling
  <2>3. to.tool = it.tool
    BY <2>1 DEF Calling
  <2>4. to.result = "ok"
    BY <2>1 DEF Calling
  <2>5. to \in Calling
    BY <2>1 DEF Calling, Tools!Stage, Tools!Result
  <2>6. call' = [call EXCEPT ![holder] = to]
    BY <1>2, <1>3, <1>6, <2>1 DEF ToolsInv
  <2>7. ToolsInv(C)'
    BY <1>1, <2>2, <2>5, <2>6, ToolsProgress DEF Active
  <2> QED BY <1>1, <1>2, <1>3, <1>6, <2>2, <2>3, <2>4, <2>5, <2>6, <2>7
<1> QED BY <1>3, <1>4, <1>5, <1>6 DEF Tools!Worked

------------------------------------------------------------------------------
(* The pipeline                                                            *)

Turns == {"turn", "reflex"}
Input == Nat \X BOOLEAN
Light == {"roam", "glance"}
ResponsePlaces == {"top", "respond", "planned", "waiting", "short", "long", "settling"}
IdlePlaces == {"idle_short", "idle_long", "idle_settling"}

PipelineTypes ==
  /\ inputs \in Nat /\ utterances \in Seq(Nat) /\ hearing \in Nat \cup {None} /\ queue \in Seq(Input)
  /\ conductor \in [pc : ResponsePlaces \cup IdlePlaces \cup {"idle"}, plan : Seq(Tools!Tool), pending : Seq(Input)]
  /\ conductor.pc \in {"short", "long", "settling"} => conductor.plan # <<>>
  /\ reflex \in Seq({"roam"})

(* A sleep that has come down, and a wake-up that has gone up, and is not  *)
(* recorded yet.                                                           *)
Ends(it) == it.stage = "tail" \/ (it.stage \in {"returned", "done"} /\ it.result = "ok")
LiesDown(it) == it.tool = "sleep" /\ Ends(it)
IsUp(it) == it.tool = "wake_up" /\ (it.stage = "body" \/ Ends(it))

(* The reflex and an idle tick never put the robot down; the mirror knows  *)
(* of a limp robot from the moment its sleep is recorded, and is told of a *)
(* wake-up only with the robot up.                                         *)
SleepersInv ==
  /\ call["reflex"] = Tools!Resting \/ (call["reflex"].tool \in Light /\ call["reflex"].stage # "glide")
  /\ conductor.pc \in {"top", "respond", "planned", "waiting", "idle"} => call["turn"] = Tools!Resting
  /\ conductor.pc \in IdlePlaces => call["turn"].tool \in Light /\ call["turn"].stage # "glide"
  /\ IsUp(call["turn"]) => ~ limp
  /\ limp => asleep \/ LiesDown(call["turn"])
  /\ Pipeline!IdleLeavesSleepersAlone

PipelineInv == ToolsInv(Turns) /\ PipelineTypes /\ SleepersInv /\ Pipeline!CancelHasACause

LEMMA TurnNames == None \notin Turns
  BY PipelineConstants
  DEF Pipeline!CompanionAssumption, Pipeline!ToolsAssumption, Turns

(* The tool set of the pipeline is the one of the lemmas.                  *)
LEMMA SameTools ==
  /\ Pipeline!Resting = Tools!Resting /\ Pipeline!Tool = Tools!Tool
  /\ Pipeline!Granted => Tools!Granted
  /\ Pipeline!Dispatched => Tools!Dispatched
  /\ Pipeline!Worked => Tools!Worked
  /\ \A c, tool : Pipeline!Enter(c, tool) => Tools!Enter(c, tool)
  /\ \A c, tool : Pipeline!Enter(c, tool) => aborted' \in {aborted, FALSE}
<1>1. Pipeline!Resting = Tools!Resting /\ Pipeline!Tool = Tools!Tool
  BY DEF Pipeline!Resting, Tools!Resting, Pipeline!Tool, Tools!Tool
<1>2. Pipeline!Granted => Tools!Granted
  BY DEF Pipeline!Granted, Tools!Granted
<1>3. Pipeline!Dispatched => Tools!Dispatched
  BY DEF Pipeline!Dispatched, Tools!Dispatched, Pipeline!Busy, Tools!Busy, Pipeline!First, Tools!First
<1>4. Pipeline!Worked => Tools!Worked
  BY DEF Pipeline!Worked, Tools!Worked, Pipeline!Busy, Tools!Busy, Pipeline!After, Tools!After, Pipeline!Executing,
         Tools!Executing
<1>5. \A c, tool : Pipeline!Enter(c, tool) => Tools!Enter(c, tool)
  BY DEF Pipeline!Enter, Tools!Enter, Pipeline!Taken, Tools!Taken, Pipeline!Queued, Tools!Queued
<1>6. \A c, tool : Pipeline!Enter(c, tool) => aborted' \in {aborted, FALSE}
  BY DEF Pipeline!Enter
<1> QED BY <1>1, <1>2, <1>3, <1>4, <1>5, <1>6

LEMMA PipelineStart == Pipeline!Init => PipelineInv
<1> SUFFICES ASSUME Pipeline!Init PROVE PipelineInv
  OBVIOUS
<1>1. call = [c \in Turns |-> Tools!Resting] /\ holder = None /\ line = <<>> /\ ~ limp
  BY SameTools DEF Pipeline!Init, Pipeline!ToolsInit, Turns
<1>2. ToolsInv(Turns)
  BY <1>1, RestingCalls, ToolNames, TurnNames DEF ToolsInv, Active, Tools!Stage, Tools!Executing
<1>3. PipelineTypes
  BY DEF Pipeline!Init, PipelineTypes, ResponsePlaces
<1>4. SleepersInv
  BY <1>1, RestingCalls, ToolNames
  DEF Pipeline!Init, SleepersInv, IdlePlaces, IsUp, Ends, Turns, Pipeline!IdleLeavesSleepersAlone, Tools!Resting, Tools!Tool
<1>5. Pipeline!CancelHasACause
  BY DEF Pipeline!Init, Pipeline!CancelHasACause
<1> QED BY <1>2, <1>3, <1>4, <1>5 DEF PipelineInv

(* What is typed and said: the queue only grows, and a cancel comes with   *)
(* the input that has it.                                                  *)
LEMMA PostKeeps ==
  ASSUME queue \in Seq(Input), Pipeline!CancelHasACause, NEW i \in Nat, NEW strong \in BOOLEAN,
         queue' = Append(queue, <<i, strong>>), cancel' => cancel \/ strong
  PROVE  queue' \in Seq(Input) /\ Pipeline!CancelHasACause'
<1>0. <<i, strong>> \in Input
  BY DEF Input
<1>1. PICK it \in Input : it = <<i, strong>>
  BY <1>0
<1>2. /\ queue' \in Seq(Input) /\ Len(queue') = Len(queue) + 1 /\ Len(queue) \in Nat
      /\ DOMAIN queue' = 1..(Len(queue) + 1) /\ DOMAIN queue = 1..Len(queue)
      /\ queue'[Len(queue) + 1] = it /\ \A k \in 1..Len(queue) : queue'[k] = queue[k]
  BY <1>1
<1>3. CASE strong
  BY <1>1, <1>2, <1>3 DEF Pipeline!CancelHasACause
<1>4. CASE ~ strong /\ cancel
  <2>1. PICK k \in 1..Len(queue) : queue[k][2]
    BY <1>2, <1>4 DEF Pipeline!CancelHasACause
  <2>2. k \in DOMAIN queue' /\ queue'[k][2]
    BY <1>2, <2>1
  <2> QED BY <1>2, <2>2 DEF Pipeline!CancelHasACause
<1>5. CASE ~ strong /\ ~ cancel
  BY <1>2, <1>5 DEF Pipeline!CancelHasACause
<1> QED BY <1>2, <1>3, <1>4, <1>5

LEMMA SpeechStep ==
  ASSUME PipelineInv, Pipeline!Types \/ Pipeline!Speaks \/ Pipeline!Listens \/ Pipeline!Judges \/ Pipeline!BargesIn
  PROVE  PipelineInv'
<1> USE DEF PipelineInv
<1>1. UNCHANGED <<call, holder, line, limp, asleep, conductor, reflex>>
  BY DEF Pipeline!Types, Pipeline!Speaks, Pipeline!Listens, Pipeline!Judges, Pipeline!BargesIn, Pipeline!CancelRunning,
         Pipeline!toolset, Pipeline!mirror
<1>2. ToolsInv(Turns)' /\ SleepersInv'
  BY <1>1 DEF ToolsInv, SleepersInv, Pipeline!IdleLeavesSleepersAlone
<1>3. /\ inputs' \in Nat /\ utterances' \in Seq(Nat) /\ hearing' \in Nat \cup {None}
  <2>1. CASE Pipeline!Types
    BY <2>1 DEF Pipeline!Types, PipelineTypes
  <2>2. CASE Pipeline!Speaks
    <3>1. PICK kept1 : kept1 = IF Len(utterances) = QueueMax THEN Tail(utterances) ELSE utterances
      OBVIOUS
    <3>2. kept1 \in Seq(Nat)
      <4>1. CASE Len(utterances) = QueueMax
        <5>1. utterances # <<>>
          BY <4>1, PipelineConstants DEF Pipeline!CompanionAssumption, PipelineTypes
        <5> QED BY <3>1, <4>1, <5>1 DEF PipelineTypes
      <4>2. CASE Len(utterances) # QueueMax
        BY <3>1, <4>2 DEF PipelineTypes
      <4> QED BY <4>1, <4>2
    <3>3. utterances' = Append(kept1, inputs + 1) /\ inputs' = inputs + 1 /\ hearing' = hearing
      BY <2>2, <3>1 DEF Pipeline!Speaks
    <3> QED BY <3>2, <3>3 DEF PipelineTypes
  <2>3. CASE Pipeline!Listens
    BY <2>3 DEF Pipeline!Listens, PipelineTypes
  <2>4. CASE Pipeline!Judges
    BY <2>4 DEF Pipeline!Judges, PipelineTypes
  <2>5. CASE Pipeline!BargesIn
    BY <2>5 DEF Pipeline!BargesIn, Pipeline!speech, PipelineTypes
  <2> QED BY <2>1, <2>2, <2>3, <2>4, <2>5
<1>4. \/ UNCHANGED <<queue, cancel>>
      \/ \E n \in Nat : \/ queue' = Append(queue, <<n, TRUE>>)
                        \/ queue' = Append(queue, <<n, FALSE>>) /\ (cancel' => cancel)
  <2>1. CASE Pipeline!Types
    <3>1. PICK n \in Nat : n = inputs + 1
      BY DEF PipelineTypes
    <3> QED BY <2>1, <3>1 DEF Pipeline!Types, Pipeline!Posts, PipelineTypes
  <2>2. CASE Pipeline!Speaks \/ Pipeline!Listens
    BY <2>2 DEF Pipeline!Speaks, Pipeline!Listens, Pipeline!bus
  <2>3. CASE Pipeline!Judges
    BY <2>3 DEF Pipeline!Judges, Pipeline!Posts, Pipeline!bus, PipelineTypes
  <2>4. CASE Pipeline!BargesIn
    BY <2>4 DEF Pipeline!BargesIn
  <2> QED BY <2>1, <2>2, <2>3, <2>4
<1>5. queue' \in Seq(Input) /\ Pipeline!CancelHasACause'
  <2>1. CASE UNCHANGED <<queue, cancel>>
    BY <2>1 DEF PipelineTypes, Pipeline!CancelHasACause
  <2>2. ASSUME NEW n \in Nat, queue' = Append(queue, <<n, TRUE>>)
        PROVE  queue' \in Seq(Input) /\ Pipeline!CancelHasACause'
    BY <2>2, PostKeeps DEF PipelineTypes
  <2>3. ASSUME NEW n \in Nat, queue' = Append(queue, <<n, FALSE>>), cancel' => cancel
        PROVE  queue' \in Seq(Input) /\ Pipeline!CancelHasACause'
    BY <2>3, PostKeeps DEF PipelineTypes
  <2> QED BY <1>4, <2>1, <2>2, <2>3
<1>6. PipelineTypes'
  BY <1>1, <1>3, <1>5 DEF PipelineTypes
<1> QED BY <1>2, <1>5, <1>6

(* The conductor, its place or its plan changed.                           *)
LEMMA ConductorMoves ==
  ASSUME PipelineTypes, NEW to, NEW pc1 \in ResponsePlaces \cup IdlePlaces \cup {"idle"}, NEW plan1 \in Seq(Tools!Tool)
  PROVE  /\ to = [conductor EXCEPT !.pc = pc1] =>
              /\ to.pc = pc1 /\ to.plan = conductor.plan
              /\ to \in [pc : ResponsePlaces \cup IdlePlaces \cup {"idle"}, plan : Seq(Tools!Tool), pending : Seq(Input)]
         /\ to = [conductor EXCEPT !.pc = pc1, !.plan = plan1] =>
              /\ to.pc = pc1
              /\ to \in [pc : ResponsePlaces \cup IdlePlaces \cup {"idle"}, plan : Seq(Tools!Tool), pending : Seq(Input)]
<1> DEFINE Places == ResponsePlaces \cup IdlePlaces \cup {"idle"}
           Plans == Seq(Tools!Tool)
           Pauses == Seq(Input)
<1>1. conductor \in [pc : Places, plan : Plans, pending : Pauses]
  BY DEF PipelineTypes
<1> HIDE DEF Places, Plans, Pauses
<1>2. ASSUME to = [conductor EXCEPT !.pc = pc1], pc1 \in Places, plan1 \in Plans
      PROVE  to.pc = pc1 /\ to.plan = conductor.plan /\ to \in [pc : Places, plan : Plans, pending : Pauses]
  BY <1>1, <1>2
<1>3. ASSUME to = [conductor EXCEPT !.pc = pc1, !.plan = plan1], pc1 \in Places, plan1 \in Plans
      PROVE  to.pc = pc1 /\ to \in [pc : Places, plan : Plans, pending : Pauses]
  <2>1. to.pc = pc1
    BY <1>1, <1>3
  <2>2. to \in [pc : Places, plan : Plans, pending : Pauses]
    BY <1>1, <1>3
  <2> QED BY <2>1, <2>2
<1>4. pc1 \in Places /\ plan1 \in Plans
  BY DEF Places, Plans
<1> QED BY <1>2, <1>3, <1>4 DEF Places, Plans, Pauses

(* Draining the queue takes its cancel with it.                            *)
LEMMA DrainKeeps ==
  ASSUME queue \in Seq(Input), Pipeline!CancelHasACause, Pipeline!Drain
  PROVE  queue' \in Seq(Input) /\ Pipeline!CancelHasACause'
<1>1. queue' = <<>> /\ queue' \in Seq(Input)
  BY DEF Pipeline!Drain
<1>2. queue = <<>> => ~ cancel
  BY DEF Pipeline!CancelHasACause
<1>3. ~ cancel'
  BY <1>2 DEF Pipeline!Drain
<1> QED BY <1>1, <1>3 DEF Pipeline!CancelHasACause

(* Steps of the conductor that make no call.                               *)
LEMMA TurnStep == ASSUME PipelineInv, Pipeline!Turn PROVE PipelineInv'
<1> USE DEF PipelineInv
<1>1. /\ conductor.pc = "top" /\ Pipeline!Drain
      /\ UNCHANGED <<inputs, utterances, hearing, reflex, call, holder, line, limp, asleep>>
  BY DEF Pipeline!Turn, Pipeline!At, Pipeline!speech, Pipeline!mirror, Pipeline!toolset
<1>2. PICK pc1 \in {"respond", "waiting", "idle"} :
        conductor' = [pc |-> pc1, plan |-> <<>>, pending |-> <<>>] /\ (pc1 = "idle" => ~ asleep)
  BY DEF Pipeline!Turn
<1>3. /\ conductor'.pc = pc1
      /\ conductor' \in [pc : ResponsePlaces \cup IdlePlaces \cup {"idle"}, plan : Seq(Tools!Tool), pending : Seq(Input)]
  BY <1>2 DEF ResponsePlaces
<1>4. queue' \in Seq(Input) /\ Pipeline!CancelHasACause'
  BY <1>1, DrainKeeps DEF PipelineTypes
<1>5. ToolsInv(Turns)'
  BY <1>1 DEF ToolsInv
<1>6. PipelineTypes'
  BY <1>1, <1>3, <1>4 DEF PipelineTypes
<1>7. SleepersInv'
  <2>1. call["turn"] = Tools!Resting
    BY <1>1 DEF SleepersInv
  <2>2. limp => asleep
    BY <2>1, RestingCalls, ToolNames DEF SleepersInv, LiesDown, Ends, Tools!Stage, Tools!Executing
  <2> QED BY <1>1, <1>2, <1>3, <2>1, <2>2 DEF SleepersInv, Pipeline!IdleLeavesSleepersAlone, IdlePlaces
<1> QED BY <1>4, <1>5, <1>6, <1>7

LEMMA PlansStep == ASSUME PipelineInv, Pipeline!Plans PROVE PipelineInv'
<1> USE DEF PipelineInv
<1>1. /\ conductor.pc = "respond"
      /\ UNCHANGED <<inputs, utterances, hearing, queue, cancel, reflex, call, holder, line, limp, asleep>>
  BY DEF Pipeline!Plans, Pipeline!At, Pipeline!speech, Pipeline!bus, Pipeline!mirror, Pipeline!toolset
<1>2. PICK pc1 \in {"top", "planned"}, plan1 \in Seq(Tools!Tool) :
        conductor' = [conductor EXCEPT !.pc = pc1] \/ conductor' = [conductor EXCEPT !.pc = pc1, !.plan = plan1]
  <2>1. CASE conductor' = [conductor EXCEPT !.pc = "top"]
    <3>1. <<>> \in Seq(Tools!Tool)
      OBVIOUS
    <3> QED BY <2>1, <3>1
  <2>2. ASSUME NEW plan1 \in Pipeline!BoundedSeq(Pipeline!Tool, MaxPlan),
               conductor' = [conductor EXCEPT !.pc = "planned", !.plan = plan1]
        PROVE  \E to \in Seq(Tools!Tool) : conductor' = [conductor EXCEPT !.pc = "planned", !.plan = to]
    <3>1. PICK m \in Nat : plan1 \in [1..m -> Tools!Tool]
      BY SameTools DEF Pipeline!BoundedSeq, Pipeline!SeqOf
    <3>2. plan1 \in Seq(Tools!Tool)
      BY <3>1
    <3> QED BY <2>2, <3>2
  <2> QED BY <2>1, <2>2 DEF Pipeline!Plans
<1>3. /\ conductor'.pc = pc1
      /\ conductor' \in [pc : ResponsePlaces \cup IdlePlaces \cup {"idle"}, plan : Seq(Tools!Tool), pending : Seq(Input)]
  <2>1. pc1 \in ResponsePlaces \cup IdlePlaces \cup {"idle"}
    BY DEF ResponsePlaces
  <2> QED BY <1>2, <2>1, ConductorMoves
<1>4. ToolsInv(Turns)' /\ Pipeline!CancelHasACause'
  BY <1>1 DEF ToolsInv, Pipeline!CancelHasACause
<1>5. PipelineTypes'
  BY <1>1, <1>3 DEF PipelineTypes
<1>6. SleepersInv'
  BY <1>1, <1>3 DEF SleepersInv, Pipeline!IdleLeavesSleepersAlone, IdlePlaces
<1> QED BY <1>4, <1>5, <1>6

LEMMA RaceStep == ASSUME PipelineInv, Pipeline!LosesRace \/ Pipeline!Wakes PROVE PipelineInv'
<1> USE DEF PipelineInv
<1>1. UNCHANGED <<inputs, utterances, hearing, reflex, call, holder, line, limp, asleep>>
  BY DEF Pipeline!LosesRace, Pipeline!Wakes, Pipeline!CancelRunning, Pipeline!speech, Pipeline!mirror, Pipeline!toolset
<1>2. queue' \in Seq(Input) /\ Pipeline!CancelHasACause'
  <2>1. CASE Pipeline!LosesRace
    BY <2>1 DEF Pipeline!LosesRace, Pipeline!CancelHasACause, PipelineTypes
  <2>2. CASE Pipeline!Wakes
    BY <2>2, DrainKeeps DEF Pipeline!Wakes, PipelineTypes
  <2> QED BY <2>1, <2>2
<1>3. /\ conductor' \in [pc : ResponsePlaces \cup IdlePlaces \cup {"idle"}, plan : Seq(Tools!Tool), pending : Seq(Input)]
      /\ \/ conductor.pc = "long" /\ conductor'.pc = "settling" /\ conductor'.plan = conductor.plan
         \/ conductor.pc = "idle_long" /\ conductor'.pc = "idle_settling"
         \/ conductor.pc = "waiting" /\ conductor'.pc = "top"
  <2>1. CASE Pipeline!LosesRace
    <3>1. PICK pc1 \in {"settling", "idle_settling"} :
            /\ conductor' = [conductor EXCEPT !.pc = pc1]
            /\ \/ conductor.pc = "long" /\ pc1 = "settling"
               \/ conductor.pc = "idle_long" /\ pc1 = "idle_settling"
      <4>1. /\ conductor.pc \in {"long", "idle_long"}
            /\ conductor' = [conductor EXCEPT !.pc = IF conductor.pc = "long" THEN "settling" ELSE "idle_settling"]
        BY <2>1 DEF Pipeline!LosesRace, Pipeline!At
      <4>2. CASE conductor.pc = "long"
        BY <4>1, <4>2
      <4>3. CASE conductor.pc = "idle_long"
        BY <4>1, <4>3
      <4> QED BY <4>1, <4>2, <4>3
    <3>2. pc1 \in ResponsePlaces \cup IdlePlaces \cup {"idle"} /\ conductor.plan \in Seq(Tools!Tool)
      BY DEF ResponsePlaces, IdlePlaces, PipelineTypes
    <3> QED BY <3>1, <3>2, ConductorMoves
  <2>2. CASE Pipeline!Wakes
    <3>1. conductor' = [conductor EXCEPT !.pc = "top", !.pending = queue] /\ conductor.pc = "waiting"
      BY <2>2 DEF Pipeline!Wakes, Pipeline!At
    <3>2. conductor'.pc = "top"
      BY <3>1 DEF PipelineTypes
    <3>3. conductor' \in [pc : ResponsePlaces \cup IdlePlaces \cup {"idle"}, plan : Seq(Tools!Tool), pending : Seq(Input)]
      <4> DEFINE Places == ResponsePlaces \cup IdlePlaces \cup {"idle"}
                 Pauses == Seq(Input)
      <4>1. conductor \in [pc : Places, plan : Seq(Tools!Tool), pending : Pauses] /\ queue \in Pauses /\ "top" \in Places
        BY DEF PipelineTypes, ResponsePlaces
      <4> HIDE DEF Places, Pauses
      <4>2. conductor' \in [pc : Places, plan : Seq(Tools!Tool), pending : Pauses]
        BY <3>1, <4>1
      <4> QED BY <4>2 DEF Places, Pauses
    <3> QED BY <3>1, <3>2, <3>3
  <2> QED BY <2>1, <2>2
<1>4. ToolsInv(Turns)'
  BY <1>1 DEF ToolsInv
<1>5. PipelineTypes'
  BY <1>1, <1>2, <1>3 DEF PipelineTypes
<1>6. SleepersInv'
  BY <1>1, <1>3 DEF SleepersInv, Pipeline!IdleLeavesSleepersAlone, IdlePlaces
<1> QED BY <1>2, <1>4, <1>5, <1>6

(* A call of the turn: what it enters with, and what no step of it breaks. *)
LEMMA TurnEnters ==
  ASSUME PipelineInv, NEW tool \in Tools!Tool, call["turn"] = Tools!Resting, Pipeline!Enter("turn", tool),
         UNCHANGED <<limp, asleep>>,
         conductor'.pc \in {"short", "long"} \/ (conductor'.pc \in IdlePlaces /\ tool \in Light /\ ~ limp)
  PROVE  ToolsInv(Turns)' /\ SleepersInv'
<1> USE DEF PipelineInv
<1>1. "turn" \in Turns /\ Tools!Enter("turn", tool) /\ call["turn"].stage = None
  BY SameTools, RestingCalls DEF Turns
<1>2. PICK to \in Calling :
        /\ ToolsInv(Turns)' /\ call' = [call EXCEPT !["turn"] = to]
        /\ to.tool = tool /\ to.stage \in {"checkpoint", "queued"}
  BY <1>1, TurnNames, ToolsEnter
<1>3. call'["turn"] = to /\ call'["reflex"] = call["reflex"]
  BY <1>2 DEF ToolsInv, Turns
<1>4. ~ IsUp(to) /\ ~ LiesDown(to) /\ ~ LiesDown(call["turn"])
  BY <1>2, RestingCalls, ToolNames DEF IsUp, LiesDown, Ends, Tools!Stage, Tools!Executing
<1>5. SleepersInv'
  BY <1>2, <1>3, <1>4 DEF SleepersInv, Pipeline!IdleLeavesSleepersAlone, IdlePlaces
<1> QED BY <1>2, <1>5

LEMMA CallsStep == ASSUME PipelineInv, Pipeline!Calls PROVE PipelineInv'
<1> USE DEF PipelineInv
<1>1. /\ conductor.pc = "planned" /\ call["turn"] = Tools!Resting
      /\ UNCHANGED <<inputs, utterances, hearing, queue, cancel, reflex, limp, asleep>>
  BY DEF Pipeline!Calls, Pipeline!At, Pipeline!speech, Pipeline!bus, Pipeline!mirror, SleepersInv
<1>2. Pipeline!CancelHasACause'
  BY <1>1 DEF Pipeline!CancelHasACause
<1>3. CASE cancel \/ conductor.plan = <<>>
  <2>1. conductor' = [conductor EXCEPT !.pc = "top", !.plan = <<>>] /\ UNCHANGED <<call, holder, line>>
    BY <1>3 DEF Pipeline!Calls, Pipeline!toolset
  <2>2. /\ conductor'.pc = "top"
        /\ conductor' \in [pc : ResponsePlaces \cup IdlePlaces \cup {"idle"}, plan : Seq(Tools!Tool), pending : Seq(Input)]
    <3>1. "top" \in ResponsePlaces \cup IdlePlaces \cup {"idle"} /\ <<>> \in Seq(Tools!Tool)
      BY DEF ResponsePlaces
    <3> QED BY <2>1, <3>1, ConductorMoves
  <2>3. PipelineTypes'
    BY <1>1, <2>2 DEF PipelineTypes
  <2>4. ToolsInv(Turns)' /\ SleepersInv'
    BY <1>1, <2>1, <2>2 DEF ToolsInv, SleepersInv, Pipeline!IdleLeavesSleepersAlone, IdlePlaces
  <2> QED BY <1>2, <2>3, <2>4
<1>4. CASE ~ (cancel \/ conductor.plan = <<>>)
  <2>1. PICK pc1 \in {"long", "short"} : conductor' = [conductor EXCEPT !.pc = pc1]
    BY <1>4 DEF Pipeline!Calls
  <2>2. Pipeline!Enter("turn", Head(conductor.plan)) /\ Head(conductor.plan) \in Tools!Tool
    BY <1>4 DEF Pipeline!Calls, PipelineTypes
  <2>3. /\ conductor'.pc = pc1 /\ conductor'.plan = conductor.plan
        /\ conductor' \in [pc : ResponsePlaces \cup IdlePlaces \cup {"idle"}, plan : Seq(Tools!Tool), pending : Seq(Input)]
    <3>1. pc1 \in ResponsePlaces \cup IdlePlaces \cup {"idle"} /\ conductor.plan \in Seq(Tools!Tool)
      BY DEF ResponsePlaces, PipelineTypes
    <3> QED BY <2>1, <3>1, ConductorMoves
  <2>4. PipelineTypes'
    BY <1>1, <1>4, <2>3 DEF PipelineTypes
  <2>5. ToolsInv(Turns)' /\ SleepersInv'
    BY <1>1, <2>2, <2>3, TurnEnters
  <2> QED BY <1>2, <2>4, <2>5
<1> QED BY <1>3, <1>4

LEMMA IdleCallsStep == ASSUME PipelineInv, Pipeline!IdleCalls PROVE PipelineInv'
<1> USE DEF PipelineInv
<1>1. /\ conductor.pc = "idle" /\ call["turn"] = Tools!Resting /\ ~ limp
      /\ UNCHANGED <<inputs, utterances, hearing, queue, reflex, limp, asleep>>
  BY DEF Pipeline!IdleCalls, Pipeline!At, Pipeline!speech, Pipeline!mirror, SleepersInv, Pipeline!IdleLeavesSleepersAlone
<1>2. cancel' \in {cancel, FALSE}
  BY DEF Pipeline!IdleCalls
<1>3. Pipeline!CancelHasACause'
  BY <1>1, <1>2 DEF Pipeline!CancelHasACause
<1>4. PICK pc1 \in IdlePlaces \cup {"waiting"} :
        /\ conductor' = [conductor EXCEPT !.pc = pc1]
        /\ \/ pc1 = "waiting" /\ UNCHANGED <<call, holder, line>>
           \/ pc1 \in IdlePlaces /\ \E tool \in Light : Pipeline!Enter("turn", tool)
  <2>1. CASE conductor' = [conductor EXCEPT !.pc = "waiting"] /\ UNCHANGED Pipeline!toolset
    BY <2>1 DEF Pipeline!toolset
  <2>2. ASSUME NEW tool \in Light, Pipeline!Enter("turn", tool),
               conductor' = [conductor EXCEPT !.pc = IF tool \in Pipeline!LongRunning THEN "idle_long" ELSE "idle_short"]
        PROVE  \E to \in IdlePlaces : conductor' = [conductor EXCEPT !.pc = to]
    BY <2>2 DEF IdlePlaces
  <2> QED BY <2>1, <2>2 DEF Pipeline!IdleCalls, Pipeline!IdleTools, Light
<1>5. /\ conductor'.pc = pc1
      /\ conductor' \in [pc : ResponsePlaces \cup IdlePlaces \cup {"idle"}, plan : Seq(Tools!Tool), pending : Seq(Input)]
  <2>1. pc1 \in ResponsePlaces \cup IdlePlaces \cup {"idle"} /\ conductor.plan \in Seq(Tools!Tool)
    BY DEF ResponsePlaces, PipelineTypes
  <2> QED BY <1>4, <2>1, ConductorMoves
<1>6. PipelineTypes'
  BY <1>1, <1>4, <1>5 DEF PipelineTypes, IdlePlaces
<1>7. ToolsInv(Turns)' /\ SleepersInv'
  <2>1. CASE pc1 = "waiting" /\ UNCHANGED <<call, holder, line>>
    BY <1>1, <1>5, <2>1 DEF ToolsInv, SleepersInv, Pipeline!IdleLeavesSleepersAlone, IdlePlaces
  <2>2. ASSUME pc1 \in IdlePlaces, NEW tool \in Light, Pipeline!Enter("turn", tool)
        PROVE  ToolsInv(Turns)' /\ SleepersInv'
    <3>1. tool \in Tools!Tool
      BY DEF Light, Tools!Tool
    <3> QED BY <1>1, <1>5, <2>2, <3>1, TurnEnters
  <2> QED BY <1>4, <2>1, <2>2
<1> QED BY <1>3, <1>6, <1>7

(* The result of the turn's call is recorded and the call is over: a robot *)
(* that lies limp is known to be asleep.                                   *)
LEMMA RecordedKeeps ==
  ASSUME PipelineInv, Pipeline!Recorded(call["turn"].result), call["turn"].stage \in {"returned", "done"},
         conductor.pc \in {"short", "long", "settling"} \cup IdlePlaces,
         call' = [call EXCEPT !["turn"] = Tools!Resting], UNCHANGED <<inputs, utterances, hearing, queue, reflex, limp>>
  PROVE  PipelineTypes' /\ SleepersInv'
<1> USE DEF PipelineInv
<1>1. PICK pc1 \in {"waiting", "top", "planned"}, plan1 \in Seq(Tools!Tool) :
        \/ conductor' = [conductor EXCEPT !.pc = pc1]
        \/ conductor' = [conductor EXCEPT !.pc = pc1, !.plan = plan1]
  <2>1. conductor.plan \in Seq(Tools!Tool) /\ <<>> \in Seq(Tools!Tool)
    BY DEF PipelineTypes
  <2>2. CASE conductor.pc \in IdlePlaces
    BY <2>1, <2>2 DEF Pipeline!Recorded, IdlePlaces
  <2>3. CASE conductor.pc \in {"short", "long", "settling"} /\ call["turn"].result = "interrupted"
    BY <2>1, <2>3 DEF Pipeline!Recorded
  <2>4. CASE conductor.pc \in {"short", "long", "settling"} /\ call["turn"].result # "interrupted"
    <3>1. conductor.plan # <<>> /\ Tail(conductor.plan) \in Seq(Tools!Tool)
      BY <2>1, <2>4 DEF PipelineTypes
    <3>2. conductor' = [conductor EXCEPT !.pc = "planned", !.plan = Tail(conductor.plan)]
      BY <2>4 DEF Pipeline!Recorded
    <3> QED BY <3>1, <3>2
  <2> QED BY <2>2, <2>3, <2>4
<1>2. /\ conductor'.pc = pc1
      /\ conductor' \in [pc : ResponsePlaces \cup IdlePlaces \cup {"idle"}, plan : Seq(Tools!Tool), pending : Seq(Input)]
  <2>1. pc1 \in ResponsePlaces \cup IdlePlaces \cup {"idle"}
    BY DEF ResponsePlaces
  <2> QED BY <1>1, <2>1, ConductorMoves
<1>3. PipelineTypes'
  BY <1>2 DEF PipelineTypes
<1>4. call'["turn"] = Tools!Resting /\ call'["reflex"] = call["reflex"]
  BY DEF ToolsInv, Turns
<1>5. limp => asleep'
  <2>1. asleep' = IF call["turn"].tool \in {"sleep", "wake_up"} /\ call["turn"].result = "ok" THEN call["turn"].tool = "sleep"
                                                                                             ELSE asleep
    BY DEF Pipeline!Recorded, Pipeline!Observed
  <2>2. CASE limp /\ call["turn"].tool = "wake_up" /\ call["turn"].result = "ok"
    BY <2>2 DEF SleepersInv, IsUp, Ends
  <2>3. CASE limp /\ ~ (call["turn"].tool \in {"sleep", "wake_up"} /\ call["turn"].result = "ok")
    BY <2>1, <2>3 DEF SleepersInv, LiesDown, Ends
  <2>4. CASE call["turn"].tool = "sleep" /\ call["turn"].result = "ok"
    BY <2>1, <2>4
  <2> QED BY <2>2, <2>3, <2>4
<1>6. ~ IsUp(Tools!Resting)
  BY RestingCalls, ToolNames DEF IsUp, Ends, Tools!Stage, Tools!Executing
<1>7. SleepersInv'
  BY <1>2, <1>4, <1>5, <1>6 DEF SleepersInv, Pipeline!IdleLeavesSleepersAlone, IdlePlaces
<1> QED BY <1>3, <1>7

LEMMA ReturnsStep == ASSUME PipelineInv, Pipeline!ReturnsShort \/ Pipeline!ReturnsLong PROVE PipelineInv'
<1> USE DEF PipelineInv
<1>1. UNCHANGED <<inputs, utterances, hearing, queue, cancel, reflex, limp>>
  BY DEF Pipeline!ReturnsShort, Pipeline!ReturnsLong, Pipeline!speech, Pipeline!bus
<1>2. call' = [call EXCEPT !["turn"] = Tools!Resting] /\ Pipeline!Recorded(call["turn"].result)
  BY SameTools DEF Pipeline!ReturnsShort, Pipeline!ReturnsLong, Pipeline!Release
<1>3. call["turn"].stage \in {"returned", "done"}
  BY DEF Pipeline!ReturnsShort, Pipeline!ReturnsLong, Pipeline!Returned
<1>4. conductor.pc \in {"short", "long", "settling"} \cup IdlePlaces
  BY DEF Pipeline!ReturnsShort, Pipeline!ReturnsLong, Pipeline!At, IdlePlaces
<1>5. PipelineTypes' /\ SleepersInv'
  BY <1>1, <1>2, <1>3, <1>4, RecordedKeeps
<1>6. ToolsInv(Turns)'
  <2>1. "turn" \in Turns /\ Tools!Resting \in Calling /\ Tools!Resting.stage = None
    BY RestingCalls DEF Turns
  <2>2. CASE Pipeline!ReturnsShort
    <3>1. holder = "turn" /\ holder' = None /\ line' = line
      BY <2>2 DEF Pipeline!ReturnsShort, Pipeline!Returned, Pipeline!Release
    <3> QED BY <1>2, <2>1, <3>1, TurnNames, ToolsRelease
  <2>3. CASE Pipeline!ReturnsLong
    <3>1. holder' = holder /\ line' = line /\ call["turn"].stage = "done"
      BY <2>3 DEF Pipeline!ReturnsLong
    <3>2. holder # "turn"
      BY <2>1, <3>1 DEF ToolsInv, Active, Tools!Executing
    <3>3. None \notin Active
      BY ToolNames DEF Active, Tools!Stage, Tools!Executing
    <3>4. holder' \in Turns \cup {None}
      BY <3>1 DEF ToolsInv
    <3> QED BY <1>2, <2>1, <3>1, <3>2, <3>3, <3>4, ToolsChange
  <2> QED BY <2>2, <2>3 
<1>7. Pipeline!CancelHasACause'
  BY <1>1 DEF Pipeline!CancelHasACause
<1> QED BY <1>5, <1>6, <1>7

LEMMA FinishesStep == ASSUME PipelineInv, Pipeline!Finishes PROVE PipelineInv'
<1> USE DEF PipelineInv
<1>1. /\ UNCHANGED <<inputs, utterances, hearing, queue, cancel, reflex, limp, asleep, conductor, line>>
      /\ conductor.pc \notin {"top", "respond", "planned", "waiting", "idle"}
      /\ holder = "turn" /\ holder' = None /\ call["turn"].stage = "returned"
      /\ call' = [call EXCEPT !["turn"].stage = "done"]
  BY DEF Pipeline!Finishes, Pipeline!speech, Pipeline!bus, Pipeline!mirror, Pipeline!Returned
<1>2. PICK to : to = [call["turn"] EXCEPT !.stage = "done"]
  OBVIOUS
<1>3. call["turn"] \in Calling /\ "turn" \in Turns
  BY DEF ToolsInv, Turns
<1>4. to \in Calling /\ to.stage = "done" /\ to.tool = call["turn"].tool /\ to.result = call["turn"].result
  BY <1>2, <1>3 DEF Calling, Tools!Stage
<1>5. call' = [call EXCEPT !["turn"] = to]
  BY <1>1, <1>2, <1>3 DEF ToolsInv
<1>6. ToolsInv(Turns)'
  BY <1>1, <1>3, <1>4, <1>5, TurnNames, ToolsRelease
<1>7. call'["turn"] = to /\ call'["reflex"] = call["reflex"]
  BY <1>5 DEF ToolsInv, Turns
<1>8. (IsUp(to) => IsUp(call["turn"])) /\ (LiesDown(call["turn"]) => LiesDown(to))
  BY <1>1, <1>4 DEF IsUp, LiesDown, Ends
<1>9. SleepersInv'
  BY <1>1, <1>4, <1>7, <1>8 DEF SleepersInv, Pipeline!IdleLeavesSleepersAlone, IdlePlaces
<1>10. PipelineTypes' /\ Pipeline!CancelHasACause'
  BY <1>1 DEF PipelineTypes, Pipeline!CancelHasACause
<1> QED BY <1>6, <1>9, <1>10

(* What the tool set does of itself leaves the conductor where it is.      *)
LEMMA GrantStep == ASSUME PipelineInv, Pipeline!Grant PROVE PipelineInv'
<1> USE DEF PipelineInv
<1>1. UNCHANGED <<inputs, utterances, hearing, queue, cancel, reflex, asleep, conductor>> /\ Tools!Granted
  BY SameTools DEF Pipeline!Grant, Pipeline!others, Pipeline!speech, Pipeline!bus
<1>2. PICK c \in Turns, to \in Calling :
        /\ call' = [call EXCEPT ![c] = to] /\ call[c].stage = "queued" /\ to.stage = "checkpoint"
        /\ to.tool = call[c].tool /\ to.result = call[c].result /\ limp' = limp /\ ToolsInv(Turns)'
  BY <1>1, TurnNames, ToolsGranted
<1>3. /\ c = "turn" => call'["turn"] = to /\ call'["reflex"] = call["reflex"]
      /\ c = "reflex" => call'["reflex"] = to /\ call'["turn"] = call["turn"]
  BY <1>2 DEF ToolsInv, Turns
<1>4. call[c] # Tools!Resting /\ ~ IsUp(to) /\ ~ LiesDown(call[c])
  BY <1>2, RestingCalls, ToolNames DEF IsUp, LiesDown, Ends, Tools!Stage, Tools!Executing
<1>5. SleepersInv'
  <2>1. CASE c = "turn"
    BY <1>1, <1>2, <1>3, <1>4, <2>1 DEF SleepersInv, Pipeline!IdleLeavesSleepersAlone, IdlePlaces
  <2>2. CASE c = "reflex"
    BY <1>1, <1>2, <1>3, <1>4, <2>2 DEF SleepersInv, Pipeline!IdleLeavesSleepersAlone, IdlePlaces
  <2> QED BY <2>1, <2>2 DEF Turns
<1>6. PipelineTypes' /\ Pipeline!CancelHasACause'
  BY <1>1 DEF PipelineTypes, Pipeline!CancelHasACause
<1> QED BY <1>2, <1>5, <1>6

LEMMA DispatchStep == ASSUME PipelineInv, Pipeline!Dispatch PROVE PipelineInv'
<1> USE DEF PipelineInv
<1>1. UNCHANGED <<inputs, utterances, hearing, queue, cancel, reflex, asleep, conductor>> /\ Tools!Dispatched
  BY SameTools DEF Pipeline!Dispatch, Pipeline!others, Pipeline!speech, Pipeline!bus
<1>2. PICK c \in Turns, to \in Calling :
        /\ call' = [call EXCEPT ![c] = to] /\ call[c].stage = "checkpoint" /\ to.tool = call[c].tool
        /\ \/ to.stage = "returned" /\ to.result = "interrupted"
           \/ to.stage = Tools!First(to.tool)
        /\ limp' = limp /\ ToolsInv(Turns)'
  BY <1>1, TurnNames, ToolsDispatched
<1>3. /\ c = "turn" => call'["turn"] = to /\ call'["reflex"] = call["reflex"]
      /\ c = "reflex" => call'["reflex"] = to /\ call'["turn"] = call["turn"]
  BY <1>2 DEF ToolsInv, Turns
<1>4. /\ call[c] # Tools!Resting /\ ~ IsUp(to) /\ ~ LiesDown(call[c])
      /\ to.tool \in Light => to.stage # "glide"
  <2>1. call[c] # Tools!Resting /\ ~ LiesDown(call[c])
    BY <1>2, RestingCalls, ToolNames DEF LiesDown, Ends, Tools!Stage, Tools!Executing
  <2>2. to.tool \in {"sleep", "wake_up"} => Tools!First(to.tool) = "glide"
    BY DEF Tools!First
  <2>3. to.tool \in Light => Tools!First(to.tool) # "glide"
    BY DEF Tools!First, Light
  <2> QED BY <1>2, <2>1, <2>2, <2>3 DEF IsUp, Ends
<1>5. SleepersInv'
  <2>1. CASE c = "turn"
    BY <1>1, <1>2, <1>3, <1>4, <2>1 DEF SleepersInv, Pipeline!IdleLeavesSleepersAlone, IdlePlaces
  <2>2. CASE c = "reflex"
    BY <1>1, <1>2, <1>3, <1>4, <2>2 DEF SleepersInv, Pipeline!IdleLeavesSleepersAlone, IdlePlaces
  <2> QED BY <2>1, <2>2 DEF Turns
<1>6. PipelineTypes' /\ Pipeline!CancelHasACause'
  BY <1>1 DEF PipelineTypes, Pipeline!CancelHasACause
<1> QED BY <1>2, <1>5, <1>6

LEMMA WorkStep == ASSUME PipelineInv, FaceMayFail = FALSE, Pipeline!Work PROVE PipelineInv'
<1> USE DEF PipelineInv
<1>1. UNCHANGED <<inputs, utterances, hearing, queue, cancel, reflex, asleep, conductor>> /\ Tools!Worked
  BY SameTools DEF Pipeline!Work, Pipeline!others, Pipeline!speech, Pipeline!bus
<1>2. PICK c \in Turns, to \in Calling :
        /\ call' = [call EXCEPT ![c] = to] /\ call[c].stage \in Tools!Executing /\ to.tool = call[c].tool
        /\ limp' = IF call[c].stage = "glide" THEN to.tool = "sleep" ELSE limp
        /\ \/ call[c].stage = "body" /\ to.stage = "returned" /\ to.result = "interrupted"
           \/ call[c].stage = "glide" /\ to.stage = IF to.tool = "wake_up" THEN "body" ELSE "tail"
           \/ call[c].stage = "body" /\ to.stage = "tail"
           \/ call[c].stage = "tail" /\ to.stage = "returned" /\ to.result = "ok"
        /\ ToolsInv(Turns)'
  BY <1>1, TurnNames, ToolsWorked
<1>3. /\ c = "turn" => call'["turn"] = to /\ call'["reflex"] = call["reflex"]
      /\ c = "reflex" => call'["reflex"] = to /\ call'["turn"] = call["turn"]
  BY <1>2 DEF ToolsInv, Turns
<1>4. call[c] # Tools!Resting /\ to.stage # "glide"
  BY <1>2, RestingCalls, ToolNames DEF Tools!Stage, Tools!Executing
<1>5. SleepersInv'
  <2>1. CASE c = "turn" /\ call[c].stage = "glide"
    <3>1. IF to.tool = "sleep" THEN LiesDown(to) /\ ~ IsUp(to) ELSE ~ limp'
      BY <1>2, <2>1 DEF LiesDown, IsUp, Ends
    <3>2. conductor.pc \notin IdlePlaces \cup {"top", "respond", "planned", "waiting", "idle"}
      BY <1>4, <2>1 DEF SleepersInv
    <3> QED BY <1>1, <1>3, <2>1, <3>1, <3>2 DEF SleepersInv, Pipeline!IdleLeavesSleepersAlone, IdlePlaces
  <2>2. CASE c = "turn" /\ call[c].stage # "glide"
    <3>1. limp' = limp
      BY <1>2, <2>2
    <3>2. IsUp(to) => IsUp(call[c])
      BY <1>2, <2>2 DEF IsUp, Ends
    <3>3. LiesDown(call[c]) => LiesDown(to)
      BY <1>2, <2>2 DEF LiesDown, Ends, Tools!Executing
    <3> QED BY <1>1, <1>2, <1>3, <1>4, <2>2, <3>1, <3>2, <3>3 DEF SleepersInv, Pipeline!IdleLeavesSleepersAlone, IdlePlaces
  <2>3. CASE c = "reflex"
    <3>1. call[c].stage # "glide" /\ limp' = limp /\ to.tool \in Light
      BY <1>2, <1>4, <2>3 DEF SleepersInv
    <3> QED BY <1>1, <1>3, <1>4, <2>3, <3>1 DEF SleepersInv, Pipeline!IdleLeavesSleepersAlone, IdlePlaces
  <2> QED BY <2>1, <2>2, <2>3 DEF Turns
<1>6. PipelineTypes' /\ Pipeline!CancelHasACause'
  BY <1>1 DEF PipelineTypes, Pipeline!CancelHasACause
<1> QED BY <1>2, <1>5, <1>6

(* The reflex makes light calls only.                                      *)
LEMMA ReflexCalls ==
  ASSUME PipelineInv, NEW to \in Calling, call' = [call EXCEPT !["reflex"] = to],
         to = Tools!Resting \/ (to.tool \in Light /\ to.stage # "glide"),
         UNCHANGED <<inputs, utterances, hearing, queue, cancel, conductor, limp, asleep>>, reflex' \in Seq({"roam"})
  PROVE  PipelineTypes' /\ SleepersInv' /\ Pipeline!CancelHasACause'
<1> USE DEF PipelineInv
<1>1. call'["reflex"] = to /\ call'["turn"] = call["turn"]
  BY DEF ToolsInv, Turns
<1>2. PipelineTypes' /\ Pipeline!CancelHasACause'
  BY DEF PipelineTypes, Pipeline!CancelHasACause
<1>3. SleepersInv'
  BY <1>1 DEF SleepersInv, Pipeline!IdleLeavesSleepersAlone, IdlePlaces
<1> QED BY <1>2, <1>3

LEMMA ReactsStep == ASSUME PipelineInv, Pipeline!Reacts PROVE PipelineInv'
<1> USE DEF PipelineInv
<1>1. UNCHANGED <<inputs, utterances, hearing, queue, cancel, conductor, limp, asleep>> /\ call["reflex"] = Tools!Resting
  BY SameTools DEF Pipeline!Reacts, Pipeline!speech, Pipeline!bus, Pipeline!mirror
<1>2. reflex' \in Seq({"roam"})
  <2>1. <<"roam">> \in Seq({"roam"}) /\ <<>> \in Seq({"roam"})
    OBVIOUS
  <2>2. reflex' \in {<<"roam">>, <<>>}
    BY DEF Pipeline!Reacts
  <2> QED BY <2>1, <2>2, Zenon
<1>3. PICK tool \in Light : Pipeline!Enter("reflex", tool)
  BY DEF Pipeline!Reacts, Light
<1>4. "reflex" \in Turns /\ tool \in Tools!Tool /\ Tools!Enter("reflex", tool) /\ call["reflex"].stage = None
  BY <1>1, <1>3, SameTools, RestingCalls DEF Turns, Light, Tools!Tool
<1>5. PICK to \in Calling :
        /\ ToolsInv(Turns)' /\ call' = [call EXCEPT !["reflex"] = to]
        /\ to.tool = tool /\ to.stage \in {"checkpoint", "queued"}
  BY <1>4, TurnNames, ToolsEnter
<1> QED BY <1>1, <1>2, <1>5, ReflexCalls

LEMMA ReflexReturnsStep == ASSUME PipelineInv, Pipeline!ReflexReturns PROVE PipelineInv'
<1> USE DEF PipelineInv
<1>1. /\ UNCHANGED <<inputs, utterances, hearing, queue, cancel, conductor, limp, asleep>>
      /\ holder = "reflex" /\ call["reflex"].stage = "returned" /\ "reflex" \in Turns
  BY DEF Pipeline!ReflexReturns, Pipeline!speech, Pipeline!bus, Pipeline!mirror, Pipeline!Returned, Turns
<1>2. CASE reflex = <<>>
  <2>1. call' = [call EXCEPT !["reflex"] = Tools!Resting] /\ holder' = None /\ line' = line /\ reflex' = reflex
    BY <1>2, SameTools DEF Pipeline!ReflexReturns, Pipeline!Release
  <2>2. ToolsInv(Turns)'
    BY <1>1, <2>1, TurnNames, RestingCalls, ToolsRelease
  <2>3. reflex' \in Seq({"roam"})
    BY <2>1 DEF PipelineTypes
  <2> QED BY <1>1, <2>1, <2>2, <2>3, RestingCalls, ReflexCalls
<1>3. CASE reflex # <<>>
  <2>1. Head(reflex) = "roam" /\ reflex' = Tail(reflex) /\ Tail(reflex) \in Seq({"roam"})
    BY <1>3 DEF Pipeline!ReflexReturns, PipelineTypes
  <2>2. Pipeline!ReleaseAndEnter("reflex", "roam")
    BY <1>3, <2>1 DEF Pipeline!ReflexReturns
  <2>3. CASE line = <<>>
    <3>1. PICK to : to = [stage |-> "checkpoint", tool |-> "roam", result |-> None]
      OBVIOUS
    <3>2. to \in Calling /\ to.stage = "checkpoint" /\ to.tool \in Light
      BY <3>1 DEF Calling, Tools!Stage, Tools!Tool, Light
    <3>3. call' = [call EXCEPT !["reflex"] = to] /\ UNCHANGED <<holder, line>>
      BY <2>2, <2>3, <3>1 DEF Pipeline!ReleaseAndEnter, Pipeline!Taken
    <3>4. ToolsInv(Turns)'
      BY <1>1, <3>2, <3>3, TurnNames, ToolsProgress DEF Active
    <3> QED BY <1>1, <2>1, <3>2, <3>3, <3>4, ReflexCalls
  <2>4. CASE line # <<>>
    <3>1. PICK to : to = [stage |-> "queued", tool |-> "roam", result |-> None]
      OBVIOUS
    <3>2. to \in Calling /\ to.stage = "queued" /\ to.tool \in Light
      BY <3>1 DEF Calling, Tools!Stage, Tools!Tool, Light
    <3>3. call' = [call EXCEPT !["reflex"] = to] /\ holder' = None /\ line' = Append(line, "reflex")
      BY <2>2, <2>4, <3>1 DEF Pipeline!ReleaseAndEnter, Pipeline!Queued
    <3>4. \A d \in Turns \ {"reflex"} : holder' = d <=> holder = d
      BY <1>1, <3>3, TurnNames
    <3>5. ToolsInv(Turns)'
      BY <1>1, <3>2, <3>3, <3>4, TurnNames, ToolsJoin
    <3> QED BY <1>1, <2>1, <3>2, <3>3, <3>5, ReflexCalls
  <2> QED BY <2>3, <2>4
<1> QED BY <1>2, <1>3

LEMMA PipelineStep == ASSUME PipelineInv, FaceMayFail = FALSE, Pipeline!Next PROVE PipelineInv'
  BY SpeechStep, TurnStep, PlansStep, RaceStep, CallsStep, IdleCallsStep, ReturnsStep, FinishesStep, GrantStep,
     DispatchStep, WorkStep, ReactsStep, ReflexReturnsStep
  DEF Pipeline!Next

LEMMA PipelineStutters == ASSUME PipelineInv, UNCHANGED pipelineOnly, UNCHANGED tools PROVE PipelineInv'
<1> USE DEF PipelineInv, pipelineOnly, tools
<1>1. ToolsInv(Turns)'
  BY DEF ToolsInv
<1>2. PipelineTypes' /\ Pipeline!CancelHasACause'
  BY DEF PipelineTypes, Pipeline!CancelHasACause
<1>3. SleepersInv'
  BY DEF SleepersInv, Pipeline!IdleLeavesSleepersAlone, IsUp, LiesDown, Ends
<1> QED BY <1>1, <1>2, <1>3

LEMMA PipelineEnds == ASSUME PipelineInv PROVE Pipeline!IdleLeavesSleepersAlone /\ Pipeline!CancelHasACause
  BY DEF PipelineInv, SleepersInv

------------------------------------------------------------------------------
(* The realtime session                                                    *)

Pendings == {"detached", "ready", "calling"}
States == Pendings \cup {"unused", "dying", "dropped", "over", "spoken", "failed"}
Book == [state : States, idle : BOOLEAN, calls : Seq(Tools!Tool), next : Nat, answers : Seq(Nat), spoke : BOOLEAN, epoch : Nat]

(* No call has two answers, and each that the plan got past has one.       *)
Partly(it) == \A k \in DOMAIN it.answers : it.answers[k] <= 1 /\ (k < it.next => it.answers[k] = 1)

(* What a plan owes the model: nothing before its response is handled and  *)
(* after it ended, and in between one answer to each call it has not come  *)
(* to yet.  An exception leaves it with the answers it had given.          *)
Fits(it) ==
  /\ it.state \notin Pendings \cup {"failed"} => it.answers = <<>>
  /\ it.state = "failed" => Partly(it)
  /\ it.state \in Pendings => DOMAIN it.answers = DOMAIN it.calls
  /\ it.state = "detached" => it.next = 1 /\ \A k \in DOMAIN it.answers : it.answers[k] = 0
  /\ it.state \in {"ready", "calling"} =>
       /\ it.calls # <<>> /\ it.next >= 1 /\ it.next <= Realtime!Runs(it) + 1
       /\ \A k \in DOMAIN it.answers : it.answers[k] = IF k < it.next \/ (it.idle /\ k >= 2) THEN 1 ELSE 0
  /\ it.state = "calling" => it.next <= Realtime!Runs(it)

BooksInv == plan \in [Plan -> Book] /\ epoch \in Nat /\ \A p \in Plan : Fits(plan[p])

(* While the session runs, only a plan that is calling has a call, and a   *)
(* limp robot the mirror does not know of is the work of the lock's holder.*)
RunsInv ==
  session = "running" =>
    /\ ToolsInv(Plan)
    /\ \A p \in Plan : plan[p].state # "dying" /\ (plan[p].state # "calling" => call[p] = Tools!Resting)
    /\ holder # None /\ IsUp(call[holder]) => ~ limp
    /\ limp /\ ~ asleep => holder # None /\ LiesDown(call[holder])

LEMMA UnusedBook == Realtime!Unused \in Book /\ Realtime!Unused.answers = <<>> /\ Realtime!Unused.next = 1
<1>1. <<>> \in Seq(Tools!Tool) /\ <<>> \in Seq(Nat)
  OBVIOUS
<1> QED BY <1>1 DEF Realtime!Unused, Book, States

(* A book with a field changed.                                            *)
Stated(it, state1) == [it EXCEPT !.state = state1]
Counted(it, next1) == [it EXCEPT !.next = next1]
Told(it, answers1) == [it EXCEPT !.answers = answers1]

LEMMA BookState ==
  ASSUME NEW it \in Book, NEW state1 \in States, NEW to, to = Stated(it, state1)
  PROVE  /\ to \in Book /\ to.state = state1
         /\ to.idle = it.idle /\ to.calls = it.calls /\ to.next = it.next /\ to.answers = it.answers
         /\ to.epoch = it.epoch
<1> DEFINE Flags == BOOLEAN
           Calls == Seq(Tools!Tool)
           Answers == Seq(Nat)
<1>1. /\ it \in [state : States, idle : Flags, calls : Calls, next : Nat, answers : Answers, spoke : Flags, epoch : Nat]
      /\ Book = [state : States, idle : Flags, calls : Calls, next : Nat, answers : Answers, spoke : Flags, epoch : Nat]
  BY DEF Book
<1> HIDE DEF Flags, Calls, Answers
<1>2. to = [it EXCEPT !.state = state1]
  BY DEF Stated
<1>3. to \in Book
  BY <1>1, <1>2
<1>4. /\ to.state = state1 /\ to.idle = it.idle /\ to.calls = it.calls /\ to.next = it.next
      /\ to.answers = it.answers /\ to.epoch = it.epoch
  BY <1>1, <1>2
<1> QED BY <1>3, <1>4

LEMMA BookNext ==
  ASSUME NEW it \in Book, NEW next1 \in Nat, NEW to, to = Counted(it, next1)
  PROVE  /\ to \in Book /\ to.next = next1
         /\ to.state = it.state /\ to.idle = it.idle /\ to.calls = it.calls /\ to.answers = it.answers
<1> DEFINE Flags == BOOLEAN
           Calls == Seq(Tools!Tool)
           Answers == Seq(Nat)
<1>1. /\ it \in [state : States, idle : Flags, calls : Calls, next : Nat, answers : Answers, spoke : Flags, epoch : Nat]
      /\ Book = [state : States, idle : Flags, calls : Calls, next : Nat, answers : Answers, spoke : Flags, epoch : Nat]
  BY DEF Book
<1> HIDE DEF Flags, Calls, Answers
<1>2. to = [it EXCEPT !.next = next1]
  BY DEF Counted
<1>3. to \in Book
  BY <1>1, <1>2
<1>4. /\ to.next = next1 /\ to.state = it.state /\ to.idle = it.idle /\ to.calls = it.calls
      /\ to.answers = it.answers
  BY <1>1, <1>2
<1> QED BY <1>3, <1>4

LEMMA BookAnswers ==
  ASSUME NEW it \in Book, NEW answers1 \in Seq(Nat), NEW to, to = Told(it, answers1)
  PROVE  /\ to \in Book /\ to.answers = answers1
         /\ to.state = it.state /\ to.idle = it.idle /\ to.calls = it.calls /\ to.next = it.next
         /\ to.epoch = it.epoch
<1> DEFINE Flags == BOOLEAN
           Calls == Seq(Tools!Tool)
           Answers == Seq(Nat)
<1>1. /\ it \in [state : States, idle : Flags, calls : Calls, next : Nat, answers : Answers, spoke : Flags, epoch : Nat]
      /\ Book = [state : States, idle : Flags, calls : Calls, next : Nat, answers : Answers, spoke : Flags, epoch : Nat]
  BY DEF Book
<1> HIDE DEF Flags, Calls, Answers
<1>2. to = [it EXCEPT !.answers = answers1] /\ answers1 \in Answers
  BY DEF Told, Answers
<1>3. to \in Book
  BY <1>1, <1>2
<1>4. /\ to.answers = answers1 /\ to.state = it.state /\ to.idle = it.idle /\ to.calls = it.calls
      /\ to.next = it.next /\ to.epoch = it.epoch
  BY <1>1, <1>2
<1> QED BY <1>3, <1>4

(* A plan that has answered every call ends with nothing to remember.      *)
LEMMA EndedFits ==
  ASSUME NEW it \in Book, \A k \in DOMAIN it.answers : it.answers[k] = 1, NEW state1 \in {"over", "spoken"},
         NEW to, to = Realtime!Ended(it, state1)
  PROVE  to \in Book /\ to.state = state1 /\ Fits(to)
<1>1. <<>> \in Seq(Nat) /\ state1 \in States
  BY DEF States
<1>6. PICK none \in Seq(Nat) : none = <<>>
  BY <1>1, Zenon
<1>3. PICK mid : mid = Stated(Realtime!Unused, state1)
  OBVIOUS
<1>2. to = Told(mid, none)
  BY <1>3, <1>6 DEF Realtime!Ended, Told, Stated
<1>4. mid \in Book /\ mid.state = state1
  BY <1>1, <1>3, UnusedBook, BookState
<1>5. to \in Book /\ to.state = state1 /\ to.answers = <<>>
  <2>1. to \in Book /\ to.state = state1 /\ to.answers = none
    BY <1>2, <1>4, BookAnswers
  <2> QED BY <1>6, <2>1
<1> QED BY <1>5 DEF Fits, Pendings

LEMMA FlushedBook ==
  ASSUME NEW it \in Book, NEW n \in Nat, NEW to, to = Realtime!Flushed(it, n)
  PROVE  /\ to \in Book /\ to.state = it.state /\ to.idle = it.idle /\ to.calls = it.calls
         /\ to.next = it.next /\ to.epoch = it.epoch
         /\ DOMAIN to.answers = DOMAIN it.answers
         /\ \A k \in DOMAIN it.answers : to.answers[k] = IF k >= n THEN it.answers[k] + 1 ELSE it.answers[k]
<1>1. PICK answers1 : answers1 = [k \in DOMAIN it.answers |-> IF k >= n THEN it.answers[k] + 1 ELSE it.answers[k]]
  OBVIOUS
<1>2. answers1 \in Seq(Nat)
  <2>1. it.answers \in Seq(Nat)
    BY DEF Book
  <2>2. DOMAIN it.answers = 1..Len(it.answers) /\ Len(it.answers) \in Nat
    BY <2>1
  <2>3. answers1 \in [1..Len(it.answers) -> Nat]
    BY <1>1, <2>1, <2>2
  <2> QED BY <2>2, <2>3
<1>3. to = Told(it, answers1)
  BY <1>1 DEF Realtime!Flushed, Told
<1>4. /\ DOMAIN answers1 = DOMAIN it.answers
      /\ \A k \in DOMAIN it.answers : answers1[k] = IF k >= n THEN it.answers[k] + 1 ELSE it.answers[k]
  BY <1>1
<1> QED BY <1>2, <1>3, <1>4, BookAnswers

(* One more answer.                                                        *)
AnsweredAt(it, n) == [it EXCEPT !.answers[n] = @ + 1]

LEMMA AnsweredBook ==
  ASSUME NEW it \in Book, NEW n \in DOMAIN it.answers, NEW to, to = AnsweredAt(it, n)
  PROVE  /\ to \in Book /\ to.state = it.state /\ to.idle = it.idle /\ to.calls = it.calls
         /\ to.next = it.next /\ to.epoch = it.epoch
         /\ DOMAIN to.answers = DOMAIN it.answers /\ to.answers[n] = it.answers[n] + 1
         /\ \A k \in DOMAIN it.answers \ {n} : to.answers[k] = it.answers[k]
<1>1. PICK answers1 : answers1 = [it.answers EXCEPT ![n] = it.answers[n] + 1]
  OBVIOUS
<1>2. answers1 \in Seq(Nat)
  BY <1>1 DEF Book
<1>3. to = Told(it, answers1)
  BY <1>1 DEF AnsweredAt, Told
<1>4. /\ DOMAIN answers1 = DOMAIN it.answers /\ answers1[n] = it.answers[n] + 1
      /\ \A k \in DOMAIN it.answers \ {n} : answers1[k] = it.answers[k]
  BY <1>1
<1> QED BY <1>2, <1>3, <1>4, BookAnswers

(* The books a handled response starts with.                               *)
Opened(idle, asks, spoke) ==
  [Realtime!Unused EXCEPT !.idle = idle, !.calls = asks, !.spoke = spoke,
                          !.answers = [k \in DOMAIN asks |-> 0], !.epoch = epoch]

LEMMA ResponseBook ==
  ASSUME NEW it, NEW idle \in BOOLEAN, NEW asks \in Seq(Tools!Tool), NEW spoke \in BOOLEAN, epoch \in Nat,
         it = Opened(idle, asks, spoke)
  PROVE  /\ it \in Book /\ it.calls = asks /\ it.next = 1 /\ DOMAIN it.answers = DOMAIN asks
         /\ \A k \in DOMAIN it.answers : it.answers[k] = 0
<1>1. PICK none : none = [k \in DOMAIN asks |-> 0]
  OBVIOUS
<1>2. none \in Seq(Nat) /\ DOMAIN none = DOMAIN asks /\ \A k \in DOMAIN none : none[k] = 0
  <2>1. DOMAIN asks = 1..Len(asks) /\ Len(asks) \in Nat
    OBVIOUS
  <2>2. none \in [1..Len(asks) -> Nat]
    BY <1>1, <2>1
  <2> QED BY <1>1, <2>1, <2>2
<1>3. it = [state |-> "unused", idle |-> idle, calls |-> asks, next |-> 1, answers |-> none, spoke |-> spoke, epoch |-> epoch]
  BY <1>1 DEF Opened, Realtime!Unused
<1> DEFINE Flags == BOOLEAN
           Calls == Seq(Tools!Tool)
           Answers == Seq(Nat)
<1>4. /\ none \in Answers /\ asks \in Calls /\ idle \in Flags /\ spoke \in Flags /\ "unused" \in States
      /\ Book = [state : States, idle : Flags, calls : Calls, next : Nat, answers : Answers, spoke : Flags, epoch : Nat]
  BY <1>2 DEF Book, States
<1> HIDE DEF Flags, Calls, Answers
<1>5. it \in Book
  BY ONLY <1>3, <1>4, epoch \in Nat
<1>6. it.calls = asks /\ it.next = 1 /\ it.answers = none
  BY ONLY <1>3
<1> QED BY ONLY <1>2, <1>5, <1>6

(* A plan that an exception ends keeps its place and its answers.          *)
LEMMA FailedFits ==
  ASSUME NEW it \in Book, Partly(it), NEW to, to = Realtime!Failed(it)
  PROVE  to \in Book /\ to.state = "failed" /\ Fits(to)
<1>1. "failed" \in States /\ it.next \in Nat /\ it.answers \in Seq(Nat)
  BY DEF States, Book
<1>2. PICK next1 \in Nat, answers1 \in Seq(Nat) : next1 = it.next /\ answers1 = it.answers
  BY <1>1
<1>3. PICK one : one = Stated(Realtime!Unused, "failed")
  OBVIOUS
<1>4. PICK two : two = Counted(one, next1)
  OBVIOUS
<1>5. to = Told(two, answers1)
  BY <1>2, <1>3, <1>4 DEF Realtime!Failed, Stated, Counted, Told
<1>6. one \in Book /\ one.state = "failed"
  BY <1>1, <1>3, UnusedBook, BookState
<1>7. two \in Book /\ two.state = "failed" /\ two.next = next1
  BY <1>4, <1>6, BookNext
<1>8. to \in Book /\ to.state = "failed" /\ to.next = next1 /\ to.answers = answers1
  BY <1>5, <1>7, BookAnswers
<1>9. Partly(to)
  BY <1>2, <1>8 DEF Partly
<1> QED BY <1>8, <1>9 DEF Fits, Pendings

(* A flush of unanswered calls, cut short.                                 *)
LEMMA CutShortFits ==
  ASSUME NEW it \in Book, Partly(it), NEW first \in Nat, NEW last \in Nat,
         \A k \in DOMAIN it.answers : first <= k /\ k <= last => it.answers[k] = 0,
         NEW to \in Realtime!CutShort(it, first, last)
  PROVE  to \in Book /\ to.state = "failed" /\ Fits(to)
<1>1. PICK n \in first..last :
        to = Realtime!Failed([it EXCEPT !.answers = [j \in DOMAIN it.answers |->
                                                       IF j \in first..(n - 1) THEN it.answers[j] + 1 ELSE it.answers[j]]])
  BY DEF Realtime!CutShort
<1>2. PICK answers1 : answers1 = [j \in DOMAIN it.answers |->
                                    IF j \in first..(n - 1) THEN it.answers[j] + 1 ELSE it.answers[j]]
  OBVIOUS
<1>3. /\ DOMAIN answers1 = DOMAIN it.answers
      /\ \A j \in DOMAIN it.answers : answers1[j] = IF j \in first..(n - 1) THEN it.answers[j] + 1 ELSE it.answers[j]
  BY <1>2
<1>4. it.answers \in Seq(Nat) /\ Len(it.answers) \in Nat /\ DOMAIN it.answers = 1..Len(it.answers)
  BY DEF Book
<1>5. answers1 \in Seq(Nat)
  <2>1. PICK m \in Nat : m = Len(it.answers) /\ DOMAIN it.answers = 1..m
    BY <1>4
  <2>2. answers1 \in [1..m -> Nat]
    BY <1>2, <1>4, <2>1
  <2> QED BY ONLY <2>2, m \in Nat
<1>6. PICK told : told = Told(it, answers1)
  OBVIOUS
<1>7. told \in Book /\ told.answers = answers1 /\ told.next = it.next
  BY <1>5, <1>6, BookAnswers
<1>8. Partly(told)
  <2>1. ASSUME NEW k \in DOMAIN answers1
        PROVE  answers1[k] <= 1 /\ (k < it.next => answers1[k] = 1)
    <3>1. k \in DOMAIN it.answers /\ it.answers[k] \in Nat /\ it.answers[k] <= 1 /\ (k < it.next => it.answers[k] = 1)
      BY <1>3, <1>4 DEF Partly
    <3>2. CASE k \in first..(n - 1)
      <4>1. it.answers[k] = 0
        BY <3>1, <3>2
      <4> QED BY <1>3, <3>1, <3>2, <4>1
    <3>3. CASE k \notin first..(n - 1)
      BY <1>3, <3>1, <3>3
    <3> QED BY <3>2, <3>3
  <2> QED BY <1>7, <2>1 DEF Partly
<1>9. to = Realtime!Failed(told)
  BY <1>1, <1>2, <1>6 DEF Told
<1> QED BY <1>7, <1>8, <1>9, FailedFits

LEMMA ResponseFits ==
  ASSUME NEW it \in Book, it.next = 1, DOMAIN it.answers = DOMAIN it.calls,
         \A k \in DOMAIN it.answers : it.answers[k] = 0,
         NEW to, \/ to = Realtime!Over(Realtime!Flushed(it, 1)) \/ to = Stated(it, "detached")
                 \/ to \in Realtime!CutShort(it, 1, Len(it.calls))
  PROVE  to \in Book /\ to.state \in {"over", "detached", "failed"} /\ Fits(to)
<1>1. CASE to = Stated(it, "detached")
  <2>1. "detached" \in States
    BY DEF States, Pendings
  <2>2. /\ to \in Book /\ to.state = "detached" /\ to.answers = it.answers /\ to.calls = it.calls
        /\ to.next = it.next
    BY <1>1, <2>1, BookState
  <2> QED BY <2>2 DEF Fits, Pendings
<1>2. CASE to = Realtime!Over(Realtime!Flushed(it, 1))
  <2>1. PICK told : told = Realtime!Flushed(it, 1)
    OBVIOUS
  <2>2. /\ told \in Book /\ DOMAIN told.answers = DOMAIN it.answers
        /\ \A k \in DOMAIN it.answers : told.answers[k] = IF k >= 1 THEN it.answers[k] + 1 ELSE it.answers[k]
    BY <2>1, FlushedBook
  <2>3. DOMAIN it.calls = 1..Len(it.calls) /\ Len(it.calls) \in Nat
    BY DEF Book
  <2>4. \A k \in DOMAIN told.answers : told.answers[k] = 1
    BY <2>2, <2>3
  <2>5. to = Realtime!Ended(told, "over")
    BY <1>2, <2>1 DEF Realtime!Over
  <2> QED BY <2>2, <2>4, <2>5, EndedFits
<1>3. CASE to \in Realtime!CutShort(it, 1, Len(it.calls))
  <2>1. Len(it.calls) \in Nat /\ DOMAIN it.calls = 1..Len(it.calls)
    BY DEF Book
  <2>2. Partly(it)
    BY <2>1 DEF Partly
  <2>3. PICK first \in Nat, last \in Nat : first = 1 /\ last = Len(it.calls)
    BY <2>1
  <2>4. to \in Realtime!CutShort(it, first, last)
    BY <1>3, <2>3
  <2> QED BY <2>2, <2>4, CutShortFits
<1> QED BY <1>1, <1>2, <1>3

(* The start of a plan.                                                    *)
LEMMA BegunFits ==
  ASSUME NEW it \in Book, Fits(it), it.state = "detached", NEW to, to = Realtime!Begun(it)
  PROVE  to \in Book /\ to.state \in {"over", "ready"} /\ Fits(to)
<1>1. /\ it.next = 1 /\ DOMAIN it.answers = DOMAIN it.calls /\ \A k \in DOMAIN it.answers : it.answers[k] = 0
      /\ it.calls \in Seq(Tools!Tool) /\ Len(it.calls) \in Nat /\ DOMAIN it.calls = 1..Len(it.calls)
  BY DEF Fits, Pendings, Book
<1>2. CASE it.calls = <<>>
  <2>1. to = Realtime!Ended(it, "over")
    BY <1>2 DEF Realtime!Begun, Realtime!Over
  <2>2. \A k \in DOMAIN it.answers : it.answers[k] = 1
    BY <1>1, <1>2
  <2> QED BY <2>1, <2>2, EndedFits
<1>3. CASE it.calls # <<>> /\ epoch # it.epoch
  <2>1. PICK told : told = Realtime!Flushed(it, 1)
    OBVIOUS
  <2>2. /\ told \in Book /\ DOMAIN told.answers = DOMAIN it.answers
        /\ \A k \in DOMAIN it.answers : told.answers[k] = IF k >= 1 THEN it.answers[k] + 1 ELSE it.answers[k]
    BY <2>1, FlushedBook
  <2>3. \A k \in DOMAIN told.answers : told.answers[k] = 1
    BY <1>1, <2>2
  <2>4. to = Realtime!Ended(told, "over")
    BY <1>3, <2>1 DEF Realtime!Begun, Realtime!Over
  <2> QED BY <2>2, <2>3, <2>4, EndedFits
<1>4. CASE it.calls # <<>> /\ epoch = it.epoch
  <2>1. PICK told : told = IF it.idle THEN Realtime!Flushed(it, 2) ELSE it
    OBVIOUS
  <2>2. /\ told \in Book /\ told.idle = it.idle /\ told.calls = it.calls /\ told.next = 1
        /\ DOMAIN told.answers = DOMAIN it.calls
        /\ \A k \in DOMAIN told.answers : told.answers[k] = IF it.idle /\ k >= 2 THEN 1 ELSE 0
    <3>1. CASE it.idle
      <4>1. /\ told \in Book /\ told.idle = it.idle /\ told.calls = it.calls /\ told.next = 1
            /\ DOMAIN told.answers = DOMAIN it.answers
            /\ \A k \in DOMAIN it.answers : told.answers[k] = IF k >= 2 THEN it.answers[k] + 1 ELSE it.answers[k]
        <5>1. PICK n \in Nat : n = 2
          OBVIOUS
        <5>2. told = Realtime!Flushed(it, n)
          BY <2>1, <3>1, <5>1
        <5>3. /\ told \in Book /\ told.idle = it.idle /\ told.calls = it.calls /\ told.next = it.next
              /\ DOMAIN told.answers = DOMAIN it.answers
              /\ \A k \in DOMAIN it.answers : told.answers[k] = IF k >= n THEN it.answers[k] + 1 ELSE it.answers[k]
          BY <5>2, FlushedBook
        <5> QED BY <1>1, <5>1, <5>3
      <4> QED BY <1>1, <3>1, <4>1
    <3>2. CASE ~ it.idle
      BY <1>1, <2>1, <3>2
    <3> QED BY <3>1, <3>2
  <2>3. to = [told EXCEPT !.state = "ready"]
    BY <1>4, <2>1 DEF Realtime!Begun
  <2>4. /\ to \in Book /\ to.state = "ready" /\ to.idle = it.idle /\ to.calls = it.calls /\ to.next = 1
        /\ to.answers = told.answers
    <3>1. "ready" \in States
      BY DEF States, Pendings
    <3>2. to = Stated(told, "ready")
      BY <2>3 DEF Stated
    <3> QED BY <2>2, <3>1, <3>2, BookState
  <2>5. 1 <= Realtime!Runs(to) + 1
    BY <1>1, <2>4 DEF Realtime!Runs
  <2>6. \A k \in DOMAIN to.answers : to.answers[k] = IF k < to.next \/ (to.idle /\ k >= 2) THEN 1 ELSE 0
    BY <1>1, <2>2, <2>4
  <2> QED BY <1>1, <1>4, <2>2, <2>4, <2>5, <2>6 DEF Fits, Pendings
<1> QED BY <1>2, <1>3, <1>4

(* A plan that a barge-in overtook answers what is left and ends.          *)
LEMMA OvertakenFits ==
  ASSUME NEW it \in Book, Fits(it), it.state = "ready", it.next <= Realtime!Runs(it),
         NEW to, to = Realtime!Overtaken(it)
  PROVE  to \in Book /\ to.state = "over" /\ Fits(to)
<1>1. /\ it.next \in Nat /\ it.next >= 1 /\ DOMAIN it.answers = DOMAIN it.calls /\ it.calls # <<>>
      /\ \A k \in DOMAIN it.answers : it.answers[k] = IF k < it.next \/ (it.idle /\ k >= 2) THEN 1 ELSE 0
      /\ it.calls \in Seq(Tools!Tool) /\ Len(it.calls) \in Nat /\ DOMAIN it.calls = 1..Len(it.calls)
  BY DEF Fits, Pendings, Book
<1>2. PICK told : told = IF it.idle THEN [it EXCEPT !.answers[1] = @ + 1] ELSE Realtime!Flushed(it, it.next)
  OBVIOUS
<1>3. told \in Book /\ \A k \in DOMAIN told.answers : told.answers[k] = 1
  <2>1. CASE it.idle
    <3>1. it.next = 1 /\ 1 \in DOMAIN it.answers
      BY <1>1, <2>1 DEF Realtime!Runs
    <3>2. told = AnsweredAt(it, 1)
      BY <1>2, <2>1 DEF AnsweredAt
    <3>3. /\ told \in Book /\ DOMAIN told.answers = DOMAIN it.answers /\ told.answers[1] = it.answers[1] + 1
          /\ \A k \in DOMAIN it.answers \ {1} : told.answers[k] = it.answers[k]
      BY <3>1, <3>2, AnsweredBook
    <3> QED BY <1>1, <2>1, <3>1, <3>3
  <2>2. CASE ~ it.idle
    <3>1. /\ told \in Book
          /\ DOMAIN told.answers = DOMAIN it.answers
          /\ \A k \in DOMAIN it.answers : told.answers[k] = IF k >= it.next THEN it.answers[k] + 1 ELSE it.answers[k]
      <4>1. PICK n \in Nat : n = it.next
        BY <1>1
      <4>2. told = Realtime!Flushed(it, n)
        BY <1>2, <2>2, <4>1
      <4>3. /\ told \in Book /\ DOMAIN told.answers = DOMAIN it.answers
            /\ \A k \in DOMAIN it.answers : told.answers[k] = IF k >= n THEN it.answers[k] + 1 ELSE it.answers[k]
        BY <4>2, FlushedBook
      <4> QED BY <4>1, <4>3
    <3> QED BY <1>1, <2>2, <3>1
  <2> QED BY <2>1, <2>2
<1>4. to = Realtime!Ended(told, "over")
  BY <1>2 DEF Realtime!Overtaken, Realtime!Over
<1> QED BY <1>3, <1>4, EndedFits

(* A result is sent, and an interrupted one answers what is left.          *)
LEMMA AnsweredFits ==
  ASSUME NEW it \in Book, Fits(it), it.state = "calling", NEW said, NEW to, to = Realtime!Answered(it, said)
  PROVE  to \in Book /\ to.state \in {"over", "ready"} /\ Fits(to)
<1>1. /\ it.next \in Nat /\ it.next >= 1 /\ DOMAIN it.answers = DOMAIN it.calls /\ it.calls # <<>>
      /\ \A k \in DOMAIN it.answers : it.answers[k] = IF k < it.next \/ (it.idle /\ k >= 2) THEN 1 ELSE 0
      /\ it.calls \in Seq(Tools!Tool) /\ Len(it.calls) \in Nat /\ DOMAIN it.calls = 1..Len(it.calls)
      /\ it.next <= Realtime!Runs(it)
  BY DEF Fits, Pendings, Book
<1>2. Len(it.calls) >= 1 /\ it.next \in DOMAIN it.answers /\ (it.idle => it.next = 1)
  BY <1>1 DEF Realtime!Runs
<1>3. PICK told : told = [it EXCEPT !.answers[it.next] = @ + 1]
  OBVIOUS
<1>4. /\ told \in Book /\ told.state = "calling" /\ told.idle = it.idle /\ told.calls = it.calls /\ told.next = it.next
      /\ DOMAIN told.answers = DOMAIN it.answers /\ told.answers[it.next] = it.answers[it.next] + 1
      /\ \A k \in DOMAIN it.answers \ {it.next} : told.answers[k] = it.answers[k]
  <2>1. told = AnsweredAt(it, it.next)
    BY <1>3 DEF AnsweredAt
  <2> QED BY <1>2, <2>1, AnsweredBook
<1>5. /\ DOMAIN told.answers = DOMAIN it.calls
      /\ \A k \in DOMAIN told.answers : told.answers[k] = IF k < it.next + 1 \/ (it.idle /\ k >= 2) THEN 1 ELSE 0
  BY <1>1, <1>2, <1>4
<1>6. CASE said = "interrupted"
  <2>1. PICK all : all = IF it.idle THEN told ELSE Realtime!Flushed(told, it.next + 1)
    OBVIOUS
  <2>2. all \in Book /\ \A k \in DOMAIN all.answers : all.answers[k] = 1
    <3>1. CASE it.idle
      BY <1>1, <1>2, <1>4, <1>5, <2>1, <3>1
    <3>2. CASE ~ it.idle
      <4>1. PICK n \in Nat : n = it.next + 1
        BY <1>1
      <4>2. all = Realtime!Flushed(told, n)
        BY <2>1, <3>2, <4>1
      <4>3. /\ all \in Book /\ DOMAIN all.answers = DOMAIN told.answers
            /\ \A k \in DOMAIN told.answers : all.answers[k] = IF k >= n THEN told.answers[k] + 1 ELSE told.answers[k]
        BY <1>4, <4>2, FlushedBook
      <4> QED BY <1>1, <1>5, <3>2, <4>1, <4>3
    <3> QED BY <3>1, <3>2
  <2>3. to = Realtime!Ended(all, "over")
    BY <1>3, <1>6, <2>1 DEF Realtime!Answered, Realtime!Over
  <2> QED BY <2>2, <2>3, EndedFits
<1>7. CASE said # "interrupted"
  <2>1. to = [told EXCEPT !.state = "ready", !.next = it.next + 1]
    BY <1>3, <1>4, <1>7 DEF Realtime!Answered
  <2>2. it.next + 1 \in Nat
    BY <1>1
  <2>3. "ready" \in States /\ <<>> \in Seq(Nat)
    BY DEF States, Pendings
  <2>4. /\ to \in Book /\ to.state = "ready" /\ to.next = it.next + 1
        /\ to.idle = told.idle /\ to.calls = told.calls /\ to.answers = told.answers
    <3>1. PICK mid : mid = Stated(told, "ready")
      OBVIOUS
    <3>2. /\ mid \in Book /\ mid.state = "ready" /\ mid.idle = told.idle /\ mid.calls = told.calls
          /\ mid.answers = told.answers
      BY <1>4, <2>3, <3>1, BookState
    <3>3. to = Counted(mid, it.next + 1)
      BY <2>1, <3>1 DEF Stated, Counted
    <3> QED BY <2>2, <3>2, <3>3, BookNext
  <2>5. to.next >= 1 /\ to.next <= Realtime!Runs(to) + 1
    BY <1>1, <1>4, <2>4 DEF Realtime!Runs
  <2> QED BY <1>1, <1>4, <1>5, <2>4, <2>5 DEF Fits, Pendings
<1> QED BY <1>6, <1>7

(* A call has returned and a send raises.                                  *)
LEMMA AnswerFailsFits ==
  ASSUME NEW it \in Book, Fits(it), it.state = "calling", NEW said, NEW to \in Realtime!AnswerFails(it, said)
  PROVE  to \in Book /\ to.state = "failed" /\ Fits(to)
<1>1. /\ it.next \in Nat /\ it.next >= 1 /\ DOMAIN it.answers = DOMAIN it.calls /\ it.calls # <<>>
      /\ \A k \in DOMAIN it.answers : it.answers[k] = IF k < it.next \/ (it.idle /\ k >= 2) THEN 1 ELSE 0
      /\ it.calls \in Seq(Tools!Tool) /\ Len(it.calls) \in Nat /\ DOMAIN it.calls = 1..Len(it.calls)
      /\ it.next <= Realtime!Runs(it)
  BY DEF Fits, Pendings, Book
<1>2. Len(it.calls) >= 1 /\ it.next \in DOMAIN it.answers /\ (it.idle => it.next = 1) /\ Realtime!Runs(it) \in Nat
  BY <1>1 DEF Realtime!Runs
<1>3. PICK told : told = [it EXCEPT !.answers[it.next] = @ + 1]
  OBVIOUS
<1>4. /\ told \in Book /\ told.idle = it.idle /\ told.next = it.next
      /\ DOMAIN told.answers = DOMAIN it.answers /\ told.answers[it.next] = it.answers[it.next] + 1
      /\ \A k \in DOMAIN it.answers \ {it.next} : told.answers[k] = it.answers[k]
  <2>1. told = AnsweredAt(it, it.next)
    BY <1>3 DEF AnsweredAt
  <2> QED BY <1>2, <2>1, AnsweredBook
<1>5. \A k \in DOMAIN told.answers : told.answers[k] = IF k < it.next + 1 \/ (it.idle /\ k >= 2) THEN 1 ELSE 0
  <2> TAKE k \in DOMAIN told.answers
  <2>1. CASE k = it.next
    BY <1>1, <1>2, <1>4, <2>1
  <2>2. CASE k # it.next
    BY <1>1, <1>2, <1>4, <2>2
  <2> QED BY <2>1, <2>2
<1>6. Partly(it)
  BY <1>1 DEF Partly
<1>7. Partly(told)
  BY <1>1, <1>4, <1>5 DEF Partly
<1>8. to = Realtime!Failed(it) \/ to = Realtime!Failed(told) \/ to \in Realtime!CutShort(told, it.next + 1, Realtime!Runs(it))
  BY <1>3 DEF Realtime!AnswerFails
<1>9. CASE to \in Realtime!CutShort(told, it.next + 1, Realtime!Runs(it))
  <2>1. PICK first \in Nat, last \in Nat : first = it.next + 1 /\ last = Realtime!Runs(it)
    BY <1>1, <1>2
  <2>2. to \in Realtime!CutShort(told, first, last)
    BY <1>9, <2>1
  <2>3. \A k \in DOMAIN told.answers : first <= k /\ k <= last => told.answers[k] = 0
    BY <1>1, <1>4, <1>5, <2>1 DEF Realtime!Runs
  <2> QED BY <1>4, <1>7, <2>2, <2>3, CutShortFits
<1> QED BY <1>4, <1>6, <1>7, <1>8, <1>9, FailedFits

(* An exception outside a call.                                            *)
LEMMA FailuresFits ==
  ASSUME NEW it \in Book, Fits(it), NEW to \in Realtime!Failures(it)
  PROVE  to \in Book /\ to.state = "failed" /\ Fits(to) /\ it.state \in {"detached", "ready"}
<1>1. /\ it.next \in Nat /\ it.calls \in Seq(Tools!Tool) /\ Len(it.calls) \in Nat /\ DOMAIN it.calls = 1..Len(it.calls)
      /\ Realtime!Runs(it) \in Nat
  BY DEF Book, Realtime!Runs
<1>2. \/ it.state = "detached" /\ to \in Realtime!CutShort(it, 1, Len(it.calls))
      \/ it.state = "detached" /\ to \in Realtime!CutShort(it, 2, Len(it.calls))
      \/ it.state = "ready" /\ to \in Realtime!CutShort(it, it.next, Realtime!Runs(it))
      \/ it.state = "ready" /\ to = Realtime!Failed(it)
  BY DEF Realtime!Failures
<1>3. ASSUME it.state = "detached", NEW n \in {1, 2}, to \in Realtime!CutShort(it, n, Len(it.calls))
      PROVE  to \in Book /\ to.state = "failed" /\ Fits(to)
  <2>1. it.next = 1 /\ DOMAIN it.answers = DOMAIN it.calls /\ \A k \in DOMAIN it.answers : it.answers[k] = 0
    BY <1>3 DEF Fits, Pendings
  <2>2. Partly(it)
    BY <1>1, <2>1 DEF Partly
  <2>3. PICK first \in Nat, last \in Nat : first = n /\ last = Len(it.calls)
    BY <1>1
  <2>4. to \in Realtime!CutShort(it, first, last)
    BY <1>3, <2>3
  <2> QED BY <2>1, <2>2, <2>4, CutShortFits
<1>4. ASSUME it.state = "ready"
      PROVE  /\ Partly(it)
             /\ \A k \in DOMAIN it.answers : it.next <= k /\ k <= Realtime!Runs(it) => it.answers[k] = 0
  <2>1. /\ it.next >= 1 /\ DOMAIN it.answers = DOMAIN it.calls
        /\ \A k \in DOMAIN it.answers : it.answers[k] = IF k < it.next \/ (it.idle /\ k >= 2) THEN 1 ELSE 0
    BY <1>4 DEF Fits, Pendings
  <2>2. Partly(it)
    BY <1>1, <2>1 DEF Partly
  <2> QED BY <1>1, <2>1, <2>2 DEF Realtime!Runs
<1>5. CASE it.state = "ready" /\ to \in Realtime!CutShort(it, it.next, Realtime!Runs(it))
  <2>1. PICK first \in Nat, last \in Nat : first = it.next /\ last = Realtime!Runs(it)
    BY <1>1
  <2>2. to \in Realtime!CutShort(it, first, last)
    BY <1>5, <2>1
  <2> QED BY <1>4, <1>5, <2>1, <2>2, CutShortFits
<1>6. CASE it.state = "ready" /\ to = Realtime!Failed(it)
  BY <1>4, <1>6, FailedFits
<1> QED BY <1>2, <1>3, <1>5, <1>6

(* A plan past its last call.                                              *)
LEMMA ConcludedFits ==
  ASSUME NEW it \in Book, Fits(it), it.state = "ready", it.next > Realtime!Runs(it), NEW state1 \in {"over", "spoken"},
         NEW to, to = Realtime!Ended(it, state1)
  PROVE  to \in Book /\ to.state = state1 /\ Fits(to)
<1>1. /\ it.next \in Nat /\ DOMAIN it.answers = DOMAIN it.calls
      /\ \A k \in DOMAIN it.answers : it.answers[k] = IF k < it.next \/ (it.idle /\ k >= 2) THEN 1 ELSE 0
      /\ it.calls \in Seq(Tools!Tool) /\ Len(it.calls) \in Nat /\ DOMAIN it.calls = 1..Len(it.calls)
  BY DEF Fits, Pendings, Book
<1>2. \A k \in DOMAIN it.answers : it.answers[k] = 1
  <2>1. CASE it.idle
    <3>1. it.next > 1
      BY <2>1 DEF Realtime!Runs
    <3> QED BY <1>1, <2>1, <3>1
  <2>2. CASE ~ it.idle
    <3>1. it.next > Len(it.calls)
      BY <2>2 DEF Realtime!Runs
    <3> QED BY <1>1, <2>2, <3>1
  <2> QED BY <2>1, <2>2
<1> QED BY <1>2, EndedFits

(* One plan's books change.                                                *)
LEMMA BookChanges ==
  ASSUME BooksInv, epoch' \in Nat, NEW p \in Plan, NEW to \in Book, Fits(to), plan' = [plan EXCEPT ![p] = to]
  PROVE  BooksInv'
<1> USE DEF BooksInv
<1>1. plan' \in [Plan -> Book] /\ plan'[p] = to /\ \A q \in Plan \ {p} : plan'[q] = plan[q]
  OBVIOUS
<1>2. \A q \in Plan : Fits(plan'[q])
  BY <1>1
<1>3. \A q \in Plan : Fits(plan[q])'
  <2> TAKE q \in Plan
  <2>1. PICK it : it = plan'[q]
    OBVIOUS
  <2>2. Fits(it)
    BY <1>2, <2>1
  <2> QED BY <2>1, <2>2 DEF Fits, Partly, Realtime!Runs
<1> QED BY <1>1, <1>3

LEMMA BooksStay ==
  ASSUME BooksInv, epoch' \in Nat, plan' = plan
  PROVE  BooksInv'
  BY DEF BooksInv, Fits, Partly, Realtime!Runs

LEMMA BooksStop == ASSUME BooksInv, Realtime!Stop PROVE BooksInv'
<1> USE DEF BooksInv
<1>1. epoch' = epoch
  BY DEF Realtime!Stop
<1>2. plan' = [p \in Plan |-> plan'[p]]
      /\ \A p \in Plan : \/ plan'[p] = Realtime!Cut("dying") \/ plan'[p] = Realtime!Cut("dropped")
                         \/ plan'[p] = plan[p]
  BY DEF Realtime!Stop, Realtime!PlanTasks
<1>3. ASSUME NEW p \in Plan
      PROVE  plan'[p] \in Book /\ Fits(plan'[p])
  <2>1. ASSUME NEW it, NEW state1 \in {"dying", "dropped"}, it = Realtime!Cut(state1)
        PROVE  it \in Book /\ it.state = state1 /\ Fits(it)
    <3>1. it = [Realtime!Unused EXCEPT !.state = state1] /\ state1 \in States
      BY <2>1 DEF Realtime!Cut, States
    <3>2. it \in Book /\ it.state = state1 /\ it.answers = <<>>
      <4>1. it = Stated(Realtime!Unused, state1)
        BY <3>1 DEF Stated
      <4> QED BY <3>1, <4>1, UnusedBook, BookState
    <3> QED BY <3>2 DEF Fits, Pendings
  <2>2. CASE plan'[p] = plan[p]
    BY <2>2
  <2>3. CASE plan'[p] = Realtime!Cut("dying") \/ plan'[p] = Realtime!Cut("dropped")
    <3>1. PICK state1 \in {"dying", "dropped"} : plan'[p] = Realtime!Cut(state1)
      BY <2>3
    <3>2. PICK it : it = plan'[p]
      OBVIOUS
    <3> QED BY <2>1, <3>1, <3>2
  <2> QED BY <1>2, <2>2, <2>3
<1>4. plan' \in [Plan -> Book]
  BY <1>2, <1>3
<1>5. \A p \in Plan : Fits(plan[p])'
  <2> TAKE p \in Plan
  <2>1. PICK it : it = plan'[p]
    OBVIOUS
  <2>2. Fits(it)
    BY <1>3, <2>1
  <2> QED BY <2>1, <2>2 DEF Fits, Partly, Realtime!Runs
<1> QED BY <1>1, <1>4, <1>5

LEMMA ResponseStep ==
  ASSUME BooksInv, Realtime!ResponseDone
  PROVE  \E p \in Plan, to \in Book :
           /\ plan' = [plan EXCEPT ![p] = to] /\ to.state \in {"over", "detached", "failed"} /\ Fits(to)
           /\ plan[p].state = "unused" /\ epoch' = epoch /\ session' \in {session, "failing"}
<1> USE DEF BooksInv
<1>0. PICK p \in Realtime!PlanTasks, spoke \in BOOLEAN,
           asks \in UNION {Realtime!BoundedSeq(Realtime!Tool, MaxCalls[q]) : q \in Realtime!PlanTasks} :
        LET it == [Realtime!Unused EXCEPT !.idle = (response = "idle"), !.calls = asks, !.spoke = spoke,
                                          !.answers = [k \in DOMAIN asks |-> 0], !.epoch = epoch]
        IN /\ Len(asks) <= MaxCalls[p]
           /\ plan[p].state = "unused" /\ \A q \in Realtime!PlanTasks : q < p => plan[q].state # "unused"
           /\ \E handled \in Realtime!Handled(it) :
                plan' = [plan EXCEPT ![p] = handled[1]] /\ session' = handled[2]
  BY Zenon DEF Realtime!ResponseDone
<1>2. asks \in Seq(Tools!Tool)
  <2>1. PICK m \in Nat : asks \in [1..m -> Tools!Tool]
    BY DEF Realtime!BoundedSeq, Realtime!SeqOf, Realtime!Tool, Tools!Tool
  <2> QED BY <2>1
<1>3. PICK idle \in BOOLEAN : idle = (response = "idle")
  OBVIOUS
<1>4. PICK it : it = [Realtime!Unused EXCEPT !.idle = idle, !.calls = asks, !.spoke = spoke,
                                             !.answers = [k \in DOMAIN asks |-> 0], !.epoch = epoch]
  OBVIOUS
<1>5. PICK handled \in Realtime!Handled(it) : plan' = [plan EXCEPT ![p] = handled[1]] /\ session' = handled[2]
  BY <1>0, <1>3, <1>4
<1>6. PICK to : to = handled[1]
  OBVIOUS
<1>7. /\ \/ to = Realtime!Over(Realtime!Flushed(it, 1)) \/ to = Stated(it, "detached")
         \/ to \in Realtime!CutShort(it, 1, Len(it.calls))
      /\ handled[2] \in {"running", "failing"}
  <2>1. CASE handled = <<[it EXCEPT !.state = "detached"], "running">>
    BY <1>6, <2>1 DEF Stated
  <2>2. CASE handled = <<Realtime!Over(Realtime!Flushed(it, 1)), "running">>
    BY <1>6, <2>2
  <2>3. CASE \E cut \in Realtime!CutShort(it, 1, Len(it.calls)) : handled = <<cut, "failing">>
    BY <1>6, <2>3
  <2> QED BY <2>1, <2>2, <2>3 DEF Realtime!Handled
<1>8. to \in Book /\ to.state \in {"over", "detached", "failed"} /\ Fits(to)
  <2>1. /\ it \in Book /\ it.calls = asks /\ it.next = 1 /\ DOMAIN it.answers = DOMAIN asks
        /\ \A k \in DOMAIN it.answers : it.answers[k] = 0
    <3>1. epoch \in Nat /\ idle \in BOOLEAN /\ spoke \in BOOLEAN
      OBVIOUS
    <3>2. it = Opened(idle, asks, spoke)
      BY <1>4 DEF Opened
    <3> QED BY ONLY <1>2, <3>1, <3>2, ResponseBook, Zenon
  <2> QED BY <1>7, <2>1, ResponseFits
<1>9. epoch' = epoch /\ p \in Plan /\ session = "running"
  BY DEF Realtime!ResponseDone, Realtime!PlanTasks
<1>10. plan[p].state = "unused"
  BY <1>0
<1> QED BY <1>5, <1>6, <1>7, <1>8, <1>9, <1>10

(* Every action keeps the books.                                           *)
LEMMA BooksStep == ASSUME BooksInv, Realtime!Next PROVE BooksInv'
<1> USE DEF BooksInv
<1>1. CASE Realtime!SpeechStarted
  <2>1. plan' = plan /\ epoch' \in Nat
    BY <1>1 DEF Realtime!SpeechStarted
  <2> QED BY <2>1, BooksStay
<1>2. CASE Realtime!ResponseCreated \/ Realtime!IdleTick \/ Realtime!Settled \/ Realtime!Park
  <2>1. plan' = plan /\ epoch' = epoch
    BY <1>2 DEF Realtime!ResponseCreated, Realtime!IdleTick, Realtime!Settled, Realtime!Park
  <2> QED BY <2>1, BooksStay
<1>3. CASE Realtime!Grant \/ Realtime!Dispatch \/ Realtime!Work
  <2>1. plan' = plan /\ epoch' = epoch
    BY <1>3 DEF Realtime!Grant, Realtime!Dispatch, Realtime!Work, Realtime!others
  <2> QED BY <2>1, BooksStay
<1>4. CASE Realtime!ResponseDone
  <2>1. PICK p \in Plan : \E to \in Book :
          /\ plan' = [plan EXCEPT ![p] = to] /\ to.state \in {"over", "detached", "failed"} /\ Fits(to)
          /\ plan[p].state = "unused" /\ epoch' = epoch
    BY <1>4, ResponseStep
  <2>2. PICK to \in Book :
          /\ plan' = [plan EXCEPT ![p] = to] /\ Fits(to) /\ epoch' = epoch
    BY <2>1
  <2> QED BY <2>2, BookChanges
<1>5. ASSUME NEW p \in Plan, Realtime!Begin(p)
      PROVE  BooksInv'
  <2>1. PICK to : to = Realtime!Begun(plan[p])
    OBVIOUS
  <2>2. /\ plan[p].state = "detached" /\ plan' = [plan EXCEPT ![p] = to] /\ epoch' = epoch
        /\ plan[p] \in Book /\ Fits(plan[p])
    BY <1>5, <2>1 DEF Realtime!Begin
  <2>3. to \in Book /\ to.state \in {"over", "ready"} /\ Fits(to)
    BY <2>1, <2>2, BegunFits
  <2> QED BY <2>2, <2>3, BookChanges
<1>6. ASSUME NEW p \in Plan, Realtime!Calls(p)
      PROVE  BooksInv'
  <2>1. PICK it : it = plan[p]
    OBVIOUS
  <2>2. /\ it \in Book /\ Fits(it) /\ it.state = "ready" /\ it.next <= Realtime!Runs(it) /\ epoch' = epoch
    BY <1>6, <2>1 DEF Realtime!Calls
  <2>3. CASE epoch # it.epoch
    <3>1. PICK to : to = Realtime!Overtaken(it)
      OBVIOUS
    <3>2. plan' = [plan EXCEPT ![p] = to]
      BY <1>6, <2>1, <2>3, <3>1 DEF Realtime!Calls
    <3>3. to \in Book /\ to.state = "over" /\ Fits(to)
      BY <2>2, <3>1, OvertakenFits
    <3> QED BY <2>2, <3>2, <3>3, BookChanges
  <2>4. CASE epoch = it.epoch
    <3>1. PICK to : to = [it EXCEPT !.state = "calling"]
      OBVIOUS
    <3>2. plan' = [plan EXCEPT ![p] = to]
      BY <1>6, <2>1, <2>4, <3>1 DEF Realtime!Calls
    <3>3. /\ to \in Book /\ to.state = "calling" /\ to.idle = it.idle /\ to.calls = it.calls /\ to.next = it.next
          /\ to.answers = it.answers
      <4>1. "calling" \in States /\ <<>> \in Seq(Nat)
        BY DEF States, Pendings
      <4>2. to = Stated(it, "calling")
        BY <3>1 DEF Stated
      <4> QED BY <2>2, <4>1, <4>2, BookState
    <3>4. Fits(to)
      BY <2>2, <3>3 DEF Fits, Pendings, Realtime!Runs
    <3> QED BY <2>2, <3>2, <3>3, <3>4, BookChanges
  <2> QED BY <2>3, <2>4
<1>7. ASSUME NEW p \in Plan, Realtime!Returns(p)
      PROVE  BooksInv'
  <2>1. PICK it : it = plan[p]
    OBVIOUS
  <2>2. it.state = "calling" /\ it \in Book /\ Fits(it) /\ epoch' = epoch
    BY <1>7, <2>1 DEF Realtime!Returns
  <2>3. PICK to : /\ to = Realtime!Answered(it, call[p].result) \/ to \in Realtime!AnswerFails(it, call[p].result)
                  /\ plan' = [plan EXCEPT ![p] = to]
    BY <1>7, <2>1 DEF Realtime!Returns
  <2>4. to \in Book /\ Fits(to)
    BY <2>2, <2>3, AnsweredFits, AnswerFailsFits
  <2> QED BY <2>2, <2>3, <2>4, BookChanges
<1>8. ASSUME NEW p \in Plan, Realtime!Concludes(p)
      PROVE  BooksInv'
  <2>1. PICK it : it = plan[p]
    OBVIOUS
  <2>2. it \in Book /\ Fits(it) /\ it.state = "ready" /\ it.next > Realtime!Runs(it) /\ epoch' = epoch
    BY <1>8, <2>1 DEF Realtime!Concludes
  <2>3. PICK state1 \in {"over", "spoken"} : plan' = [plan EXCEPT ![p] = Realtime!Ended(it, state1)]
    BY <1>8, <2>1 DEF Realtime!Concludes
  <2>4. PICK to : to = Realtime!Ended(it, state1)
    OBVIOUS
  <2>5. to \in Book /\ to.state = state1 /\ Fits(to)
    BY <2>2, <2>4, ConcludedFits
  <2> QED BY <2>1, <2>2, <2>3, <2>4, <2>5, BookChanges
<1>9. ASSUME NEW p \in Plan, Realtime!Dies(p)
      PROVE  BooksInv'
  <2>1. PICK to : to = [plan[p] EXCEPT !.state = "dropped"]
    OBVIOUS
  <2>2. plan[p].state = "dying" /\ plan' = [plan EXCEPT ![p] = to] /\ epoch' = epoch
    BY <1>9, <2>1 DEF Realtime!Dies
  <2>3. to \in Book /\ to.state = "dropped" /\ to.answers = plan[p].answers
    <3>1. "dropped" \in States /\ <<>> \in Seq(Nat) /\ plan[p] \in Book
      BY DEF States
    <3>2. to = Stated(plan[p], "dropped")
      BY <2>1 DEF Stated
    <3> QED BY <3>1, <3>2, BookState
  <2>4. Fits(to)
    <3>1. plan[p].answers = <<>>
      BY <2>2 DEF Fits, Pendings
    <3> QED BY <2>3, <3>1 DEF Fits, Pendings
  <2> QED BY <2>2, <2>3, <2>4, BookChanges
<1>10. CASE Realtime!Stop
  BY <1>10, BooksStop
<1>11. ASSUME NEW p \in Plan, Realtime!Raises(p)
       PROVE  BooksInv'
  <2>1. PICK it : it = plan[p]
    OBVIOUS
  <2>2. PICK to \in Realtime!Failures(it) : plan' = [plan EXCEPT ![p] = to]
    BY <1>11, <2>1 DEF Realtime!Raises
  <2>3. it \in Book /\ Fits(it) /\ epoch' = epoch
    BY <1>11, <2>1 DEF Realtime!Raises
  <2>4. to \in Book /\ Fits(to)
    BY <2>2, <2>3, FailuresFits
  <2> QED BY <2>2, <2>3, <2>4, BookChanges
<1> QED BY <1>1, <1>2, <1>3, <1>4, <1>5, <1>6, <1>7, <1>8, <1>9, <1>10, <1>11 DEF Realtime!Next, Realtime!PlanTasks

LEMMA BooksStart == Realtime!Init => BooksInv /\ RunsInv
<1> SUFFICES ASSUME Realtime!Init PROVE BooksInv /\ RunsInv
  OBVIOUS
<1>1. plan = [p \in Plan |-> Realtime!Unused] /\ epoch = 0
  BY DEF Realtime!Init, Realtime!PlanTasks
<1>2. \A p \in Plan : plan[p] \in Book /\ plan[p].state = "unused" /\ plan[p].answers = <<>>
  BY <1>1, UnusedBook DEF Realtime!Unused
<1>3. BooksInv
  BY <1>1, <1>2 DEF BooksInv, Fits, Pendings
<1>4. call = [c \in Plan |-> Tools!Resting] /\ holder = None /\ line = <<>> /\ ~ limp
  BY DEF Realtime!Init, Realtime!ToolsInit, Realtime!Resting, Tools!Resting
<1>5. ToolsInv(Plan)
  BY <1>4, RestingCalls, ToolNames DEF ToolsInv, Active, Tools!Stage, Tools!Executing
<1>6. RunsInv
  BY <1>2, <1>4, <1>5 DEF RunsInv
<1> QED BY <1>3, <1>6

(* The tool set of the session is the one of the lemmas.                   *)
LEMMA SessionTools ==
  /\ Realtime!Resting = Tools!Resting /\ Realtime!Executing = Tools!Executing
  /\ Realtime!Granted => Tools!Granted
  /\ Realtime!Dispatched => Tools!Dispatched
  /\ Realtime!Worked => Tools!Worked
  /\ \A c, tool : Realtime!Enter(c, tool) => Tools!Enter(c, tool)
<1>1. Realtime!Resting = Tools!Resting /\ Realtime!Executing = Tools!Executing
  BY DEF Realtime!Resting, Tools!Resting, Realtime!Executing, Tools!Executing
<1>2. Realtime!Granted => Tools!Granted
  BY DEF Realtime!Granted, Tools!Granted
<1>3. Realtime!Dispatched => Tools!Dispatched
  BY DEF Realtime!Dispatched, Tools!Dispatched, Realtime!Busy, Tools!Busy, Realtime!First, Tools!First
<1>4. Realtime!Worked => Tools!Worked
  BY DEF Realtime!Worked, Tools!Worked, Realtime!Busy, Tools!Busy, Realtime!After, Tools!After, Realtime!Executing,
         Tools!Executing
<1>5. \A c, tool : Realtime!Enter(c, tool) => Tools!Enter(c, tool)
  BY DEF Realtime!Enter, Tools!Enter, Realtime!Taken, Tools!Taken, Realtime!Queued, Tools!Queued
<1> QED BY <1>1, <1>2, <1>3, <1>4, <1>5

(* A plan whose books change outside its calls.                            *)
LEMMA RunsStay ==
  ASSUME BooksInv, RunsInv, session' = session, UNCHANGED <<call, holder, line, limp, asleep>>, NEW p \in Plan, NEW to \in Book,
         plan' = [plan EXCEPT ![p] = to], plan[p].state # "calling", to.state \notin {"calling", "dying"}
  PROVE  RunsInv'
<1> SUFFICES ASSUME session = "running" PROVE RunsInv'
  BY DEF RunsInv
<1>1. ToolsInv(Plan)'
  BY DEF RunsInv, ToolsInv
<1>2. plan'[p] = to /\ \A q \in Plan \ {p} : plan'[q] = plan[q]
  BY DEF BooksInv
<1>3. \A q \in Plan : plan'[q].state # "dying" /\ (plan'[q].state # "calling" => call'[q] = Tools!Resting)
  BY <1>2 DEF RunsInv
<1> QED BY <1>1, <1>3 DEF RunsInv

LEMMA RunsFrame ==
  ASSUME RunsInv, UNCHANGED <<plan, session, call, holder, line, limp, asleep>>
  PROVE  RunsInv'
<1> USE DEF RunsInv
<1>1. session = "running" => ToolsInv(Plan)'
  BY DEF ToolsInv
<1> QED BY <1>1 DEF IsUp, LiesDown, Ends

LEMMA RunsCalls == ASSUME BooksInv, BooksInv', RunsInv, NEW p \in Plan, Realtime!Calls(p) PROVE RunsInv'
<1>0. session' = session /\ plan[p].state = "ready" /\ UNCHANGED <<limp, asleep>>
  BY DEF Realtime!Calls
<1> SUFFICES ASSUME session = "running" PROVE RunsInv'
  BY <1>0 DEF RunsInv
<1>1. ToolsInv(Plan) /\ call[p] = Tools!Resting /\ plan \in [Plan -> Book] /\ plan' \in [Plan -> Book]
  BY <1>0 DEF RunsInv, BooksInv
<1>2. CASE epoch # plan[p].epoch
  <2>1. PICK to : to = Realtime!Overtaken(plan[p])
    OBVIOUS
  <2>2. plan' = [plan EXCEPT ![p] = to] /\ UNCHANGED <<call, holder, line>>
    BY <1>2, <2>1 DEF Realtime!Calls, Realtime!toolset
  <2>3. plan[p].next <= Realtime!Runs(plan[p]) /\ plan[p] \in Book /\ Fits(plan[p])
    BY DEF Realtime!Calls, BooksInv
  <2>4. to \in Book /\ to.state = "over"
    BY <1>0, <2>1, <2>3, OvertakenFits
  <2> QED BY <1>0, <2>2, <2>4, RunsStay
<1>3. CASE epoch = plan[p].epoch
  <2>1. PICK tool : tool = plan[p].calls[plan[p].next]
    OBVIOUS
  <2>2. tool \in Tools!Tool
    <3>1. /\ plan[p].next \in Nat /\ plan[p].next >= 1 /\ plan[p].next <= Realtime!Runs(plan[p])
          /\ plan[p].calls \in Seq(Tools!Tool) /\ plan[p].calls # <<>>
      BY <1>0 DEF Realtime!Calls, BooksInv, Fits, Book
    <3>2. plan[p].next \in 1..Len(plan[p].calls)
      BY <3>1 DEF Realtime!Runs
    <3> QED BY <2>1, <3>1, <3>2
  <2>3. /\ Realtime!Enter(p, tool) /\ plan' = [plan EXCEPT ![p].state = "calling"]
    BY <1>3, <2>1 DEF Realtime!Calls
  <2>4. Tools!Enter(p, tool) /\ call[p].stage = None
    BY <1>1, <2>3, SessionTools, RestingCalls
  <2>5. PICK to \in Calling :
          /\ ToolsInv(Plan)' /\ call' = [call EXCEPT ![p] = to] /\ to.stage \in {"checkpoint", "queued"}
    BY <1>1, <2>2, <2>4, ToolNames, ToolsEnter
  <2>6. call'[p] = to /\ \A q \in Plan \ {p} : call'[q] = call[q] /\ plan'[q] = plan[q]
    BY <1>1, <2>3, <2>5 DEF ToolsInv
  <2>7. plan'[p].state = "calling"
    BY <1>1, <2>3 DEF Book
  <2>8. \A q \in Plan : plan'[q].state # "dying" /\ (plan'[q].state # "calling" => call'[q] = Tools!Resting)
    BY <2>6, <2>7 DEF RunsInv
  <2>9. ~ IsUp(to)
    BY <2>5 DEF IsUp, Ends
  <2>10. (holder = None /\ holder' = p) \/ holder' = holder
    BY <2>4 DEF Tools!Enter
  <2>11. holder # p
    BY <1>1, <2>4, ToolNames DEF ToolsInv, Active, Tools!Stage, Tools!Executing
  <2>12. CASE holder' = p /\ holder = None
    BY <1>0, <2>5, <2>6, <2>8, <2>9, <2>12 DEF RunsInv
  <2>13. CASE holder' = holder /\ holder = None
    BY <1>0, <2>5, <2>6, <2>8, <2>13 DEF RunsInv
  <2>14. CASE holder' = holder /\ holder # None
    <3>1. call'[holder] = call[holder]
      BY <1>1, <2>6, <2>11, <2>14 DEF ToolsInv
    <3> QED BY <1>0, <2>5, <2>8, <2>14, <3>1 DEF RunsInv
  <2> QED BY <2>10, <2>12, <2>13, <2>14
<1> QED BY <1>2, <1>3

LEMMA RunsReturns == ASSUME BooksInv, BooksInv', RunsInv, NEW p \in Plan, Realtime!Returns(p) PROVE RunsInv'
<1>0. session' = session /\ plan[p].state = "calling" /\ limp' = limp /\ holder = p /\ call[p].stage = "returned"
  BY DEF Realtime!Returns, Realtime!Returned
<1> SUFFICES ASSUME session = "running" PROVE RunsInv'
  BY <1>0 DEF RunsInv
<1>1. ToolsInv(Plan) /\ plan \in [Plan -> Book] /\ p # None
  BY ToolNames DEF RunsInv, BooksInv
<1>2. call' = [call EXCEPT ![p] = Tools!Resting] /\ holder' = None /\ line' = line
  BY SessionTools DEF Realtime!Returns, Realtime!Release
<1>3. ToolsInv(Plan)'
  BY <1>0, <1>1, <1>2, ToolNames, RestingCalls, ToolsRelease
<1>4. PICK to : /\ to = Realtime!Answered(plan[p], call[p].result) \/ to \in Realtime!AnswerFails(plan[p], call[p].result)
                /\ plan' = [plan EXCEPT ![p] = to]
  BY DEF Realtime!Returns
<1>5. plan' = [plan EXCEPT ![p] = to] /\ to.state \in {"over", "ready", "failed"}
  <2>1. plan[p] \in Book /\ Fits(plan[p])
    BY DEF BooksInv
  <2> QED BY <1>0, <1>4, <2>1, AnsweredFits, AnswerFailsFits
<1>6. /\ plan'[p] = to /\ call'[p] = Tools!Resting
      /\ \A q \in Plan \ {p} : call'[q] = call[q] /\ plan'[q] = plan[q]
  BY <1>1, <1>2, <1>5 DEF ToolsInv
<1>7. \A q \in Plan : plan'[q].state # "dying" /\ (plan'[q].state # "calling" => call'[q] = Tools!Resting)
  BY <1>5, <1>6 DEF RunsInv
<1>8. limp => asleep'
  <2>1. asleep' = IF call[p].tool \in {"sleep", "wake_up"} /\ call[p].result = "ok" THEN call[p].tool = "sleep" ELSE asleep
    BY DEF Realtime!Returns, Realtime!Observed
  <2>2. CASE limp /\ call[p].tool = "wake_up" /\ call[p].result = "ok"
    BY <1>0, <1>1, <2>2 DEF RunsInv, IsUp, Ends
  <2>3. CASE limp /\ ~ (call[p].tool \in {"sleep", "wake_up"} /\ call[p].result = "ok")
    BY <1>0, <2>1, <2>3 DEF RunsInv, LiesDown, Ends
  <2>4. CASE call[p].tool = "sleep" /\ call[p].result = "ok"
    BY <2>1, <2>4
  <2> QED BY <2>2, <2>3, <2>4
<1> QED BY <1>0, <1>2, <1>3, <1>7, <1>8 DEF RunsInv

(* What the tool set does of itself.                                       *)
LEMMA RunsTools ==
  ASSUME BooksInv, RunsInv, FaceMayFail = FALSE, Realtime!Grant \/ Realtime!Dispatch \/ Realtime!Work
  PROVE  RunsInv'
<1>0. UNCHANGED <<session, plan, asleep>>
  BY DEF Realtime!Grant, Realtime!Dispatch, Realtime!Work, Realtime!others
<1> SUFFICES ASSUME session = "running" PROVE RunsInv'
  BY <1>0 DEF RunsInv
<1>1. ToolsInv(Plan)
  BY DEF RunsInv
<1>2. ASSUME NEW c \in Plan, NEW to \in Calling, call' = [call EXCEPT ![c] = to], call[c].stage # None
      PROVE  /\ call'[c] = to
             /\ \A p \in Plan : plan'[p].state # "dying" /\ (plan'[p].state # "calling" => call'[p] = Tools!Resting)
  <2>1. call'[c] = to /\ \A p \in Plan \ {c} : call'[p] = call[p]
    BY <1>1, <1>2 DEF ToolsInv
  <2>2. plan[c].state = "calling"
    BY <1>2, RestingCalls DEF RunsInv
  <2> QED BY <1>0, <2>1, <2>2 DEF RunsInv
<1>3. CASE Realtime!Grant
  <2>1. Tools!Granted
    BY <1>3, SessionTools DEF Realtime!Grant
  <2>2. PICK c \in Plan, to \in Calling :
          /\ call' = [call EXCEPT ![c] = to] /\ call[c].stage = "queued" /\ holder = None
          /\ to.stage = "checkpoint" /\ limp' = limp /\ ToolsInv(Plan)'
    BY <1>1, <2>1, ToolNames, ToolsGranted
  <2>3. call[c].stage # None
    BY <2>2, ToolNames DEF Tools!Stage
  <2>4. call'[c] = to /\ \A p \in Plan : plan'[p].state # "dying" /\ (plan'[p].state # "calling" => call'[p] = Tools!Resting)
    BY <1>2, <2>2, <2>3
  <2>5. holder' = c /\ ~ IsUp(to)
    BY <2>2, <2>4 DEF ToolsInv, Active, IsUp, Ends
  <2> QED BY <1>0, <2>2, <2>4, <2>5 DEF RunsInv
<1>4. CASE Realtime!Dispatch
  <2>1. Tools!Dispatched /\ holder' = holder /\ holder # None
    <3>1. Tools!Dispatched
      BY <1>4, SessionTools DEF Realtime!Dispatch
    <3> QED BY <3>1 DEF Tools!Dispatched, Tools!Busy
  <2>2. /\ holder \in Plan /\ limp' = limp /\ ToolsInv(Plan)'
        /\ \E to \in Calling :
             /\ call' = [call EXCEPT ![holder] = to] /\ call[holder].stage = "checkpoint"
             /\ \/ to.stage = "returned" /\ to.result = "interrupted"
                \/ to.stage = Tools!First(to.tool)
    BY <1>1, <2>1, ToolNames, ToolsDispatched
  <2>3. PICK to \in Calling :
          /\ call' = [call EXCEPT ![holder] = to] /\ call[holder].stage = "checkpoint"
          /\ \/ to.stage = "returned" /\ to.result = "interrupted"
             \/ to.stage = Tools!First(to.tool)
    BY <2>2
  <2>4. call[holder].stage # None
    BY <2>3, ToolNames DEF Tools!Stage
  <2>5. /\ call'[holder] = to
        /\ \A p \in Plan : plan'[p].state # "dying" /\ (plan'[p].state # "calling" => call'[p] = Tools!Resting)
    BY <1>2, <2>2, <2>3, <2>4
  <2>6. ~ IsUp(to) /\ ~ LiesDown(call[holder])
    <3>1. to.tool = "wake_up" => Tools!First(to.tool) = "glide"
      BY DEF Tools!First
    <3> QED BY <2>3, <3>1 DEF IsUp, LiesDown, Ends
  <2> QED BY <1>0, <2>1, <2>2, <2>5, <2>6 DEF RunsInv
<1>5. CASE Realtime!Work
  <2>1. Tools!Worked /\ holder' = holder /\ holder # None
    <3>1. Tools!Worked
      BY <1>5, SessionTools DEF Realtime!Work
    <3> QED BY <3>1 DEF Tools!Worked, Tools!Busy
  <2>2. holder \in Plan /\ ToolsInv(Plan)'
    BY <1>1, <2>1, ToolNames, ToolsWorked
  <2>3. PICK to \in Calling :
          /\ call' = [call EXCEPT ![holder] = to] /\ call[holder].stage \in Tools!Executing /\ to.tool = call[holder].tool
          /\ limp' = IF call[holder].stage = "glide" THEN to.tool = "sleep" ELSE limp
          /\ \/ call[holder].stage = "body" /\ to.stage = "returned" /\ to.result = "interrupted"
             \/ call[holder].stage = "glide" /\ to.stage = IF to.tool = "wake_up" THEN "body" ELSE "tail"
             \/ call[holder].stage = "body" /\ to.stage = "tail"
             \/ call[holder].stage = "tail" /\ to.stage = "returned" /\ to.result = "ok"
    BY <1>1, <2>1, ToolNames, ToolsWorked
  <2>4. call[holder].stage # None
    BY <2>3, ToolNames DEF Tools!Stage
  <2>5. /\ call'[holder] = to
        /\ \A p \in Plan : plan'[p].state # "dying" /\ (plan'[p].state # "calling" => call'[p] = Tools!Resting)
    BY <1>2, <2>2, <2>3, <2>4
  <2>6. CASE call[holder].stage = "glide"
    <3>1. IF to.tool = "sleep" THEN LiesDown(to) /\ ~ IsUp(to) ELSE ~ limp'
      BY <2>3, <2>6 DEF LiesDown, IsUp, Ends
    <3> QED BY <1>0, <2>1, <2>2, <2>5, <3>1 DEF RunsInv
  <2>7. CASE call[holder].stage # "glide"
    <3>1. limp' = limp
      BY <2>3, <2>7
    <3>2. IsUp(to) => IsUp(call[holder])
      BY <2>3, <2>7 DEF IsUp, Ends
    <3>3. LiesDown(call[holder]) => LiesDown(to)
      BY <2>3, <2>7 DEF LiesDown, Ends, Tools!Executing
    <3> QED BY <1>0, <2>1, <2>2, <2>5, <3>1, <3>2, <3>3 DEF RunsInv
  <2> QED BY <2>6, <2>7
<1> QED BY <1>3, <1>4, <1>5

LEMMA SessionStep == ASSUME BooksInv, BooksInv', RunsInv, FaceMayFail = FALSE, Realtime!Next PROVE RunsInv'
<1>1. CASE Realtime!SpeechStarted \/ Realtime!ResponseCreated \/ Realtime!IdleTick
  BY <1>1, RunsFrame
  DEF Realtime!SpeechStarted, Realtime!ResponseCreated, Realtime!IdleTick, Realtime!CancelRunning, Realtime!toolset
<1>2. CASE Realtime!Settled \/ Realtime!Park \/ Realtime!Stop
  BY <1>2 DEF Realtime!Settled, Realtime!Park, Realtime!Stop, RunsInv
<1>3. CASE Realtime!Grant \/ Realtime!Dispatch \/ Realtime!Work
  BY <1>3, RunsTools
<1>4. CASE Realtime!ResponseDone
  <2>1. UNCHANGED <<call, holder, line, limp, asleep>>
    BY <1>4 DEF Realtime!ResponseDone, Realtime!toolset
  <2>2. PICK p \in Plan : \E to \in Book :
          /\ plan' = [plan EXCEPT ![p] = to] /\ to.state \in {"over", "detached", "failed"} /\ plan[p].state = "unused"
          /\ session' \in {session, "failing"}
    BY <1>4, ResponseStep
  <2>3. PICK to \in Book :
          /\ plan' = [plan EXCEPT ![p] = to] /\ to.state \in {"over", "detached", "failed"} /\ plan[p].state = "unused"
          /\ session' \in {session, "failing"}
    BY <2>2
  <2>4. CASE session' = session
    BY <2>1, <2>3, <2>4, RunsStay
  <2>5. CASE session' = "failing"
    BY <2>5 DEF RunsInv
  <2> QED BY <2>3, <2>4, <2>5
<1>5. ASSUME NEW p \in Plan, Realtime!Begin(p)
      PROVE  RunsInv'
  <2>1. PICK to : to = Realtime!Begun(plan[p])
    OBVIOUS
  <2>2. /\ session' = session /\ UNCHANGED <<call, holder, line, limp, asleep>>
        /\ plan[p].state = "detached" /\ plan' = [plan EXCEPT ![p] = to]
    BY <1>5, <2>1 DEF Realtime!Begin, Realtime!toolset
  <2>3. to \in Book /\ to.state \in {"over", "ready"}
    BY <2>1, <2>2, BegunFits DEF BooksInv
  <2> QED BY <2>2, <2>3, RunsStay
<1>6. ASSUME NEW p \in Plan, Realtime!Calls(p)
      PROVE  RunsInv'
  BY <1>6, RunsCalls
<1>7. ASSUME NEW p \in Plan, Realtime!Returns(p)
      PROVE  RunsInv'
  BY <1>7, RunsReturns
<1>8. ASSUME NEW p \in Plan, Realtime!Concludes(p)
      PROVE  RunsInv'
  <2>1. /\ session' = session /\ UNCHANGED <<call, holder, line, limp, asleep>> /\ plan[p].state = "ready"
        /\ plan[p].next > Realtime!Runs(plan[p])
    BY <1>8 DEF Realtime!Concludes, Realtime!toolset
  <2>2. PICK state1 \in {"over", "spoken"} : plan' = [plan EXCEPT ![p] = Realtime!Ended(plan[p], state1)]
    BY <1>8 DEF Realtime!Concludes
  <2>3. PICK to : to = Realtime!Ended(plan[p], state1)
    OBVIOUS
  <2>4. to \in Book /\ to.state = state1
    BY <2>1, <2>3, ConcludedFits DEF BooksInv
  <2> QED BY <2>1, <2>2, <2>3, <2>4, RunsStay
<1>9. ASSUME NEW p \in Plan, Realtime!Dies(p)
      PROVE  RunsInv'
  BY <1>9 DEF Realtime!Dies, RunsInv
<1>10. ASSUME NEW p \in Plan, Realtime!Raises(p)
       PROVE  RunsInv'
  <2>1. PICK to \in Realtime!Failures(plan[p]) : plan' = [plan EXCEPT ![p] = to]
    BY <1>10 DEF Realtime!Raises
  <2>2. session' = session /\ UNCHANGED <<call, holder, line, limp, asleep>>
    BY <1>10 DEF Realtime!Raises, Realtime!toolset
  <2>3. to \in Book /\ to.state = "failed" /\ plan[p].state \in {"detached", "ready"}
    BY <2>1, FailuresFits DEF BooksInv
  <2> QED BY <2>1, <2>2, <2>3, RunsStay
<1> QED BY <1>1, <1>2, <1>3, <1>4, <1>5, <1>6, <1>7, <1>8, <1>9, <1>10 DEF Realtime!Next, Realtime!PlanTasks

LEMMA RealtimeStutters ==
  ASSUME BooksInv, UNCHANGED realtimeOnly, UNCHANGED tools
  PROVE  BooksInv' /\ (RunsInv => RunsInv')
<1> USE DEF realtimeOnly, tools
<1>1. BooksInv'
  <2>1. epoch' \in Nat /\ plan' = plan
    BY DEF BooksInv
  <2> QED BY <2>1, BooksStay
<1>2. RunsInv => RunsInv'
  BY RunsFrame
<1> QED BY <1>1, <1>2

(* The properties follow.                                                  *)
LEMMA RealtimeEnds ==
  ASSUME BooksInv
  PROVE  Realtime!EveryCallIsAnsweredOnce /\ (RunsInv => Realtime!MirrorFollowsTheRobot)
<1>1. ASSUME NEW p \in Plan
      PROVE  /\ \A k \in DOMAIN plan[p].answers : plan[p].answers[k] <= 1
             /\ plan[p].state \in {"over", "spoken"} => \A k \in DOMAIN plan[p].answers : plan[p].answers[k] = 1
             /\ plan[p].state = "failed" => \A k \in DOMAIN plan[p].answers : k < plan[p].next => plan[p].answers[k] = 1
  <2>1. CASE plan[p].state \notin Pendings \cup {"failed"}
    BY <2>1 DEF BooksInv, Fits
  <2>3. CASE plan[p].state = "failed"
    BY <2>3 DEF BooksInv, Fits, Partly
  <2>2. CASE plan[p].state \in Pendings
    BY <2>2 DEF BooksInv, Fits, Pendings
  <2> QED BY <2>1, <2>2, <2>3
<1>2. RunsInv => Realtime!MirrorFollowsTheRobot
  <2> SUFFICES ASSUME RunsInv, session = "running", limp, ~ asleep
               PROVE  \E p \in Plan : call[p].tool = "sleep" /\ call[p].stage \in {"tail", "returned"}
    BY DEF Realtime!MirrorFollowsTheRobot, Realtime!PlanTasks
  <2>1. holder \in Plan /\ LiesDown(call[holder]) /\ call[holder].stage \in Active
    BY DEF RunsInv, ToolsInv
  <2> QED BY <2>1 DEF LiesDown, Ends, Active, Tools!Executing
<1> QED BY <1>1, <1>2 DEF Realtime!EveryCallIsAnsweredOnce, Realtime!PlanTasks

------------------------------------------------------------------------------
(* The motion engine                                                       *)

(* Once the lock has had the neck of a track, the track has lost it.       *)
EngineInv ==
  /\ clock \in Nat /\ start \in Engine!Pose /\ neck \in Engine!Pose
  /\ target \in [pitch : Int, yaw : -Unit..Unit, look : BOOLEAN]
  /\ motion = "KEYFRAMES" /\ taken => released

(* The arithmetic of a frame: a step reaches its goal or comes nearer by   *)
(* all of the step, and a share of a step is a step.                       *)
Nears(c, g, s, r) ==
  /\ r \in Int /\ r - c \in -s..s
  /\ \/ r = g
     \/ c < g /\ r = c + s /\ r < g
     \/ g < c /\ r = c - s /\ g < r

LEMMA StepNears ==
  ASSUME NEW c \in Int, NEW g \in Int, NEW s \in Nat \ {0}
  PROVE  Nears(c, g, s, Engine!StepToward(c, g, s))
  BY DEF Engine!StepToward, Nears

LEMMA Quotient ==
  ASSUME NEW a \in Nat, NEW b \in Nat \ {0}, NEW n \in Nat, a <= b * n
  PROVE  a \div b \in 0..n
<1>1. PICK q \in Int : q = a \div b
  OBVIOUS
<1>2. q >= 0 /\ b * q <= a
  BY <1>1
<1>3. CASE q <= n
  BY <1>1, <1>2, <1>3
<1>4. CASE q >= n + 1
  <2>1. b * q >= b * (n + 1)
    BY <1>4
  <2>2. b * (n + 1) = b * n + b
    OBVIOUS
  <2> QED BY <2>1, <2>2, <1>2
<1> QED BY <1>1, <1>3, <1>4

LEMMA WholeBounds ==
  ASSUME NEW a \in Int, NEW b \in Nat \ {0}, NEW n \in Nat, -(b * n) <= a, a <= b * n
  PROVE  Engine!Whole(a, b) \in -n..n
<1>1. CASE a >= 0
  BY <1>1, Quotient DEF Engine!Whole
<1>2. CASE a < 0
  <2>1. (-a) \div b \in 0..n
    BY <1>2, Quotient
  <2> QED BY <1>2, <2>1 DEF Engine!Whole
<1> QED BY <1>1, <1>2

LEMMA WholeIsInt == ASSUME NEW a \in Int, NEW b \in Nat \ {0} PROVE Engine!Whole(a, b) \in Int
  BY DEF Engine!Whole

LEMMA ClampBounds ==
  ASSUME NEW x \in Int, NEW lim \in Nat
  PROVE  /\ Engine!Clamp(x, lim) \in -lim..lim
         /\ x \in -lim..lim => Engine!Clamp(x, lim) = x
  BY DEF Engine!Clamp, Engine!Most, Engine!Least

PitchStep == Engine!Most(1, (NeckStep * (Shares - Share)) \div Shares)
NodStep == Engine!Most(1, (NeckStep * Share) \div Shares)

LEMMA StepsOfTheNeck ==
  /\ Amplitude \in Nat \ {0} /\ Unit \in Nat \ {0} /\ Trim \in -Amplitude..Amplitude
  /\ Shares \in Nat \ {0} /\ Share \in 0..Shares /\ NeckStep \in Nat \ {0}
  /\ PitchStep \in 1..NeckStep /\ NodStep \in 1..NeckStep
  /\ 2 * Share = Shares => PitchStep = NodStep
<1>1. /\ Amplitude \in Nat \ {0} /\ Unit \in Nat \ {0} /\ Trim \in -Amplitude..Amplitude
      /\ Shares \in Nat \ {0} /\ Share \in 0..Shares /\ NeckStep \in Nat \ {0}
  BY EngineConstants DEF Engine!EngineAssumption
<1>2. \A k \in 0..Shares : (NeckStep * k) \div Shares \in 0..NeckStep
  <2> TAKE k \in 0..Shares
  <2>1. NeckStep * k \in Nat /\ NeckStep * k <= Shares * NeckStep
    BY <1>1
  <2> QED BY <1>1, <2>1, Quotient
<1>3. Shares - Share \in 0..Shares
  BY <1>1
<1>4. PitchStep \in 1..NeckStep /\ NodStep \in 1..NeckStep
  <2>1. (NeckStep * (Shares - Share)) \div Shares \in 0..NeckStep /\ (NeckStep * Share) \div Shares \in 0..NeckStep
    BY <1>1, <1>2, <1>3
  <2> QED BY <1>1, <2>1 DEF PitchStep, NodStep, Engine!Most
<1>5. 2 * Share = Shares => PitchStep = NodStep
  <2>1. 2 * Share = Shares => Shares - Share = Share
    BY <1>1
  <2> QED BY <2>1 DEF PitchStep, NodStep
<1> QED BY <1>1, <1>4, <1>5

(* Where a frame aims: within the band, at center without a target, and    *)
(* never farther up than the amplitude without a look.                     *)
LEMMA GoalsInBand ==
  ASSUME NEW t \in [pitch : Int, yaw : -Unit..Unit, look : BOOLEAN]
  PROVE  /\ Engine!GoalP1(t) \in -Amplitude..Amplitude /\ Engine!GoalP2(t) \in -Amplitude..Amplitude
         /\ Engine!Whole(t.yaw * Amplitude, Unit) \in -Amplitude..Amplitude
         /\ ~t.look => -((Engine!GoalP1(t) - Engine!Center) + Engine!GoalP2(t)) <= Amplitude
<1> USE StepsOfTheNeck
<1>1. PICK total : total = Engine!Total(t)
  OBVIOUS
<1>2. total \in -Amplitude..Amplitude
  <2>1. Engine!Whole(t.pitch * Amplitude, Unit) \in Int
    BY WholeIsInt
  <2> QED BY <1>1, <2>1, ClampBounds DEF Engine!Total
<1>3. PICK half : half = Engine!Whole((Shares - Share) * total, Shares)
  OBVIOUS
<1>4. half \in Int
  BY <1>2, <1>3, WholeIsInt
<1>5. PICK center : center = Engine!Center
  OBVIOUS
<1>6. center \in -Amplitude..Amplitude
  BY <1>5 DEF Engine!Center
<1>7. PICK p1 : p1 = Engine!GoalP1(t)
  OBVIOUS
<1>8. p1 = Engine!Clamp(center + half, Amplitude) /\ p1 \in -Amplitude..Amplitude
  BY <1>1, <1>3, <1>4, <1>5, <1>6, <1>7, ClampBounds DEF Engine!GoalP1
<1>9. PICK demand : demand = Engine!Demand(t)
  OBVIOUS
<1>10. Engine!UpReach \in Int
  <2>1. (Shares - Share) * Amplitude \in Int /\ ((Shares - Share) * Amplitude) \div Shares \in Int
    OBVIOUS
  <2> QED BY <2>1, <1>5, <1>6 DEF Engine!UpReach, Engine!Least
<1>11. demand \in Int /\ (~t.look => demand = total)
  <2>1. t.pitch * Engine!UpReach \in Int
    BY <1>10
  <2>2. Engine!Whole(t.pitch * Engine!UpReach, Unit) \in Int
    BY <2>1, WholeIsInt
  <2>3. Engine!Clamp(Engine!Whole(t.pitch * Engine!UpReach, Unit), Engine!UpReach) \in Int
    BY <1>10, <2>2 DEF Engine!Clamp, Engine!Most, Engine!Least
  <2> QED BY <1>1, <1>2, <1>9, <2>3 DEF Engine!Demand
<1>12. PICK p2 : p2 = Engine!GoalP2(t)
  OBVIOUS
<1>13. p2 = (IF Share = 0 THEN 0 ELSE Engine!Clamp(demand - (p1 - center), Amplitude))
  BY <1>5, <1>7, <1>9, <1>12 DEF Engine!GoalP2
<1>14. p2 \in -Amplitude..Amplitude
  BY <1>6, <1>8, <1>11, <1>13, ClampBounds
<1>15. Engine!Whole(t.yaw * Amplitude, Unit) \in -Amplitude..Amplitude
  <2>1. t.yaw \in -Unit..Unit
    OBVIOUS
  <2>2. -(Unit * Amplitude) <= t.yaw * Amplitude /\ t.yaw * Amplitude <= Unit * Amplitude
    BY <2>1
  <2> QED BY <2>1, <2>2, WholeBounds
<1>16. ~t.look => -((p1 - center) + p2) <= Amplitude
  <2>1. CASE Share = 0
    <3>1. half = total
      <4>1. (Shares - Share) * total = Shares * total
        BY <2>1, <1>2
      <4>2. CASE total >= 0
        BY <1>2, <1>3, <4>1, <4>2 DEF Engine!Whole
      <4>3. CASE total < 0
        <5>1. PICK n \in Nat : n = -total
          BY <1>2, <4>3
        <5>2. -(Shares * total) = Shares * n /\ Shares * n >= 0 /\ ~(Shares * total >= 0)
          BY <1>2, <5>1, <4>3
        <5>3. (Shares * n) \div Shares = n
          BY <5>1
        <5> QED BY <1>2, <1>3, <4>1, <5>1, <5>2, <5>3 DEF Engine!Whole
      <4> QED BY <1>2, <4>2, <4>3
    <3> QED BY <2>1, <3>1, <1>2, <1>6, <1>8, <1>13 DEF Engine!Clamp, Engine!Most, Engine!Least
  <2>2. CASE Share # 0
    BY <2>2, <1>2, <1>4, <1>6, <1>8, <1>11, <1>13 DEF Engine!Clamp, Engine!Most, Engine!Least
  <2> QED BY <2>1, <2>2
<1> QED BY <1>5, <1>7, <1>8, <1>12, <1>14, <1>15, <1>16

LEMMA GoalsAtCenter ==
  /\ Engine!GoalP1(Engine!NoTarget) = Engine!Center /\ Engine!GoalP2(Engine!NoTarget) = 0
  /\ Engine!Whole(Engine!NoTarget.yaw * Amplitude, Unit) = 0
  /\ Engine!NoTarget \in [pitch : Int, yaw : -Unit..Unit, look : BOOLEAN] /\ ~Engine!NoTarget.look
<1> USE StepsOfTheNeck
<1>1. \A b \in Nat \ {0} : Engine!Whole(0, b) = 0
  BY DEF Engine!Whole
<1>2. \A x \in Int : 0 * x = 0 /\ x * 0 = 0
  OBVIOUS
<1>3. Engine!Clamp(0, Amplitude) = 0
  BY ClampBounds
<1>4. Engine!NoTarget.pitch = 0 /\ Engine!NoTarget.yaw = 0 /\ Engine!NoTarget.look = FALSE
  BY DEF Engine!NoTarget
<1>5. Engine!Total(Engine!NoTarget) = 0
  BY <1>1, <1>2, <1>3, <1>4 DEF Engine!Total
<1>6. Engine!GoalP1(Engine!NoTarget) = Engine!Center
  <2>1. Engine!Center \in -Amplitude..Amplitude /\ Engine!Center + 0 = Engine!Center
    BY DEF Engine!Center
  <2>2. Engine!Whole((Shares - Share) * 0, Shares) = 0
    BY <1>1, <1>2
  <2> QED BY <1>5, <2>1, <2>2, ClampBounds DEF Engine!GoalP1
<1>7. Engine!GoalP2(Engine!NoTarget) = 0
  <2>1. Engine!Demand(Engine!NoTarget) = 0
    BY <1>4, <1>5 DEF Engine!Demand
  <2>2. Engine!Center - Engine!Center = 0 /\ 0 - 0 = 0
    BY DEF Engine!Center
  <2> QED BY <1>3, <1>6, <2>1, <2>2 DEF Engine!GoalP2
<1> QED BY <1>1, <1>2, <1>4, <1>6, <1>7 DEF Engine!NoTarget

NeckTargets == [pitch : Int, yaw : -Unit..Unit, look : BOOLEAN]
InBand(n) == n.p1 \in -Amplitude..Amplitude /\ n.p2 \in -Amplitude..Amplitude /\ n.yaw \in -Amplitude..Amplitude

(* A frame that glides: each joint one step toward its goal, or there.     *)
LEMMA GlideOfTheNeck ==
  ASSUME NEW n \in Engine!Pose, NEW t \in NeckTargets, NEW r, r = Engine!ApplyNeck(n, t)
  PROVE  /\ r \in Engine!Pose
         /\ r.p1 = Engine!StepToward(n.p1, Engine!GoalP1(t), PitchStep)
         /\ r.p2 = Engine!StepToward(n.p2, Engine!GoalP2(t), NodStep)
         /\ r.yaw = Engine!StepToward(n.yaw, Engine!Whole(t.yaw * Amplitude, Unit), NeckStep)
         /\ r.p1 - n.p1 \in -NeckStep..NeckStep /\ r.p2 - n.p2 \in -NeckStep..NeckStep
         /\ r.yaw - n.yaw \in -NeckStep..NeckStep
         /\ InBand(n) => InBand(r)
<1>1. /\ r.p1 = Engine!StepToward(n.p1, Engine!GoalP1(t), PitchStep)
      /\ r.p2 = Engine!StepToward(n.p2, Engine!GoalP2(t), NodStep)
      /\ r.yaw = Engine!StepToward(n.yaw, Engine!Whole(t.yaw * Amplitude, Unit), NeckStep)
  BY DEF Engine!ApplyNeck, PitchStep, NodStep
<1>2. n.p1 \in Int /\ n.p2 \in Int /\ n.yaw \in Int
  BY DEF Engine!Pose
<1>3. PICK a, b, c : a = Engine!GoalP1(t) /\ b = Engine!GoalP2(t) /\ c = Engine!Whole(t.yaw * Amplitude, Unit)
  OBVIOUS
<1>4. a \in -Amplitude..Amplitude /\ b \in -Amplitude..Amplitude /\ c \in -Amplitude..Amplitude
  BY <1>3, GoalsInBand DEF NeckTargets
<1> USE StepsOfTheNeck
<1>5. a \in Int /\ b \in Int /\ c \in Int
  BY <1>4
<1>6. Nears(n.p1, a, PitchStep, r.p1) /\ Nears(n.p2, b, NodStep, r.p2) /\ Nears(n.yaw, c, NeckStep, r.yaw)
  BY <1>1, <1>2, <1>3, <1>5, StepNears
<1>7. r.p1 \in Int /\ r.p2 \in Int /\ r.yaw \in Int
  BY <1>6 DEF Nears
<1>8. r \in Engine!Pose
  BY <1>7 DEF Engine!ApplyNeck, Engine!Pose
<1>9. InBand(n) => InBand(r)
  BY <1>2, <1>4, <1>6 DEF InBand, Nears
<1>10. /\ r.p1 - n.p1 \in -NeckStep..NeckStep /\ r.p2 - n.p2 \in -NeckStep..NeckStep
       /\ r.yaw - n.yaw \in -NeckStep..NeckStep
  BY <1>2, <1>6 DEF Nears
<1> QED BY <1>1, <1>8, <1>9, <1>10

(* A gesture's frame: its pose is in the band, whatever it began in.       *)
LEMMA StrokeInBand ==
  ASSUME EngineInv, motion \in Engine!NeckGestures, NEW r, r = Engine!Gestured(motion)
  PROVE  r \in Engine!Pose /\ InBand(r)
<1> USE StepsOfTheNeck
<1>1. PICK t : t = clock + 1
  OBVIOUS
<1>2. t \in Nat \ {0} /\ Blend \in Seq(Int) /\ Stroke[motion] \in Seq(Int)
  BY <1>1, EngineConstants DEF EngineInv, Engine!EngineAssumption, Engine!NeckGestures
<1>3. \A x \in Int : Engine!Weighed(x, t) \in Int
  <2> TAKE x \in Int
  <2>1. CASE t <= Len(Blend)
    <3>1. PICK w \in Int : w = x * Blend[t]
      <4>1. Blend[t] \in Int
        BY <1>2, <2>1
      <4> QED BY <4>1
    <3> QED BY <2>1, <3>1, WholeIsInt DEF Engine!Weighed
  <2>2. CASE ~(t <= Len(Blend))
    BY <2>2 DEF Engine!Weighed
  <2> QED BY <2>1, <2>2
<1>4. PICK s : s = IF t <= Len(Stroke[motion]) THEN Stroke[motion][t] ELSE 0
  OBVIOUS
<1>5. s \in Int
  BY <1>2, <1>4
<1>6. start.p1 \in Int /\ start.p2 \in Int /\ start.yaw \in Int
  BY DEF EngineInv, Engine!Pose
<1>7. PICK p, y : /\ p = Engine!Weighed(start.p1, t) + (IF motion = "NOD" THEN s ELSE 0)
                  /\ y = Engine!Weighed(start.yaw, t) + (IF motion = "NOD" THEN 0 ELSE s)
  OBVIOUS
<1>8. p \in Int /\ y \in Int
  BY <1>3, <1>5, <1>6, <1>7
<1>9. r = [p1  |-> Engine!Clamp(Engine!Center + Engine!Clamp(p, Amplitude), Amplitude),
           p2  |-> Engine!Clamp(Engine!Weighed(start.p2, t), Amplitude),
           yaw |-> Engine!Clamp(y, Amplitude)]
  BY <1>1, <1>4, <1>7 DEF Engine!Gestured
<1>10. Engine!Center + Engine!Clamp(p, Amplitude) \in Int /\ Engine!Weighed(start.p2, t) \in Int
  BY <1>3, <1>6, <1>8, ClampBounds DEF Engine!Center
<1>11. /\ Engine!Clamp(Engine!Center + Engine!Clamp(p, Amplitude), Amplitude) \in -Amplitude..Amplitude
       /\ Engine!Clamp(Engine!Weighed(start.p2, t), Amplitude) \in -Amplitude..Amplitude
       /\ Engine!Clamp(y, Amplitude) \in -Amplitude..Amplitude
  BY <1>8, <1>10, ClampBounds
<1> QED BY <1>9, <1>11 DEF Engine!Pose, InBand

LEMMA EngineStart == Engine!Init => EngineInv /\ InBand(neck)
  BY StepsOfTheNeck DEF Engine!Init, EngineInv, InBand, Engine!Straight, Engine!NoTarget, Engine!Pose

(* What the motions want is a target, and what plays has a length.         *)
LEMMA WantedIsATarget == ASSUME EngineInv PROVE Engine!Wanted \in NeckTargets
<1> USE StepsOfTheNeck
<1>1. target \in NeckTargets
  BY DEF EngineInv, NeckTargets
<1>2. CASE motion \in Engine!PostureOneShots
  <2>1. Posture[motion] \in Seq(Int) /\ clock \in Nat
    BY <1>2, EngineConstants DEF Engine!PostureOneShots, Engine!EngineAssumption, EngineInv
  <2>2. ~Engine!Finished(motion) => Posture[motion][clock + 1] \in Int
    BY <2>1 DEF Engine!Finished
  <2> QED BY <1>1, <1>2, <2>2 DEF Engine!Wanted, Engine!Played, NeckTargets
<1>3. CASE motion \notin Engine!PostureOneShots
  <2>1. PICK w : w = [target EXCEPT !.pitch = 0, !.look = FALSE]
    OBVIOUS
  <2>2. w \in NeckTargets
    <3>1. target.yaw \in -Unit..Unit /\ w = [pitch |-> 0, yaw |-> target.yaw, look |-> FALSE]
      BY <1>1, <2>1 DEF NeckTargets
    <3> QED BY <3>1 DEF NeckTargets
  <2> QED BY <1>1, <1>3, <2>1, <2>2 DEF Engine!Wanted
<1> QED BY <1>2, <1>3

LEMMA TracksLength == Len(Track) \in Nat \ {0} /\ \A i \in 1..Len(Track) : Track[i] \in Engine!Pose
<1>1. Track \in Seq(Engine!Pose) /\ Track # <<>>
  BY EngineConstants DEF Engine!EngineAssumption
<1> QED BY <1>1, EmptySeq

LEMMA TicksOn ==
  ASSUME EngineInv, NEW m, Engine!Ticks(m)
  PROVE  clock' \in Nat /\ (m = motion /\ m \in Engine!PostureOneShots => Engine!Finished(m) \/ clock' >= clock)
<1>1. Engine!Length(m) \in Nat
  <2>1. CASE m \in Engine!PostureOneShots
    <3>1. Posture[m] \in Seq(Int)
      BY <2>1, EngineConstants DEF Engine!PostureOneShots, Engine!EngineAssumption
    <3> QED BY <2>1, <3>1 DEF Engine!Length
  <2>2. CASE m \notin Engine!PostureOneShots /\ m \in Engine!NeckGestures
    <3>1. Stroke[m] \in Seq(Int)
      BY <2>2, EngineConstants DEF Engine!NeckGestures, Engine!EngineAssumption
    <3> QED BY <2>2, <3>1 DEF Engine!Length
  <2>3. CASE m \notin Engine!PostureOneShots /\ m \notin Engine!NeckGestures
    BY <2>3, TracksLength DEF Engine!Length
  <2> QED BY <2>1, <2>2, <2>3
<1>2. clock \in Nat
  BY DEF EngineInv
<1>3. m = motion => clock' = Engine!Least(clock + 1, Engine!Length(m))
  BY DEF Engine!Ticks
<1>4. m # motion => clock' = 0
  BY DEF Engine!Ticks
<1>5. m \in Engine!PostureOneShots => Engine!Length(m) = Len(Posture[m])
  BY DEF Engine!Length
<1> QED BY <1>1, <1>2, <1>3, <1>4, <1>5 DEF Engine!Least, Engine!Finished

(* A track's poses, and those another controller leaves, are in the band   *)
(* where whoever made them kept to it.                                     *)
SeedsInBand == (\A i \in 1..Len(Track) : InBand(Track[i])) /\ (\A pose \in Seed : InBand(pose))

LEMMA HeldStep ==
  ASSUME EngineInv, Engine!StepHeld
  PROVE  EngineInv' /\ (InBand(neck) => InBand(neck)')
<1>1. Engine!NoTarget \in NeckTargets
  BY GoalsAtCenter DEF NeckTargets
<1>2. neck' \in Engine!Pose /\ (InBand(neck) => InBand(neck'))
  <2>1. PICK n : n = neck
    OBVIOUS
  <2>2. PICK r : r = Engine!ApplyNeck(n, Engine!NoTarget)
    OBVIOUS
  <2>3. n \in Engine!Pose /\ neck' = r
    BY <2>1, <2>2 DEF EngineInv, Engine!StepHeld
  <2>4. r \in Engine!Pose /\ (InBand(n) => InBand(r))
    BY <1>1, <2>2, <2>3, GlideOfTheNeck
  <2> QED BY <2>1, <2>3, <2>4
<1>3. clock' \in Nat
  BY TicksOn DEF Engine!StepHeld
<1>4. start' \in Engine!Pose
  BY DEF Engine!StepHeld, EngineInv, Engine!Straight, Engine!Pose
<1>5. motion' = "KEYFRAMES" => released'
  BY DEF Engine!StepHeld, Engine!HeldMotion
<1>6. target' \in NeckTargets
  BY <1>1 DEF Engine!StepHeld
<1> QED BY <1>2, <1>3, <1>4, <1>5, <1>6 DEF EngineInv, InBand, NeckTargets

LEMMA GestureStep ==
  ASSUME EngineInv, Engine!StepGesture
  PROVE  EngineInv' /\ InBand(neck)'
<1>1. Engine!NoTarget \in NeckTargets
  BY GoalsAtCenter DEF NeckTargets
<1>2. PICK r : r = Engine!Gestured(motion)
  OBVIOUS
<1>3. neck' = r /\ r \in Engine!Pose /\ InBand(r)
  BY <1>2, StrokeInBand DEF Engine!StepGesture
<1>4. clock' \in Nat
  BY TicksOn DEF Engine!StepGesture
<1>5. UNCHANGED <<motion, start, released, taken>> /\ target' \in NeckTargets
  BY <1>1 DEF Engine!StepGesture
<1> QED BY <1>3, <1>4, <1>5 DEF EngineInv, InBand, NeckTargets

LEMMA TrackStep ==
  ASSUME EngineInv, Engine!StepKeyframes
  PROVE  EngineInv' /\ (SeedsInBand /\ InBand(neck) => InBand(neck)')
<1>1. clock' \in Nat
  BY TicksOn DEF Engine!StepKeyframes
<1>2. UNCHANGED <<motion, start, released, target, taken>>
  BY DEF Engine!StepKeyframes
<1>3. neck' \in Engine!Pose /\ (SeedsInBand /\ InBand(neck) => InBand(neck'))
  <2>1. CASE released
    <3>1. PICK n, t : n = neck /\ t = target
      OBVIOUS
    <3>2. PICK r : r = Engine!ApplyNeck(n, t)
      OBVIOUS
    <3>3. n \in Engine!Pose /\ t \in NeckTargets /\ neck' = r
      BY <2>1, <3>1, <3>2 DEF EngineInv, NeckTargets, Engine!StepKeyframes
    <3>4. r \in Engine!Pose /\ (InBand(n) => InBand(r))
      BY <3>2, <3>3, GlideOfTheNeck
    <3> QED BY <3>1, <3>3, <3>4
  <2>2. CASE ~released
    <3>1. PICK i : i = Engine!Least(clock + 1, Len(Track))
      OBVIOUS
    <3>2. i \in 1..Len(Track)
      BY <3>1, TracksLength DEF Engine!Least, EngineInv
    <3>3. neck' = Track[i]
      BY <2>2, <3>1 DEF Engine!StepKeyframes
    <3> QED BY <3>2, <3>3, TracksLength DEF SeedsInBand
  <2> QED BY <2>1, <2>2
<1> QED BY <1>1, <1>2, <1>3 DEF EngineInv, InBand

LEMMA GlideStep ==
  ASSUME EngineInv, Engine!StepGlide
  PROVE  EngineInv' /\ (InBand(neck) => InBand(neck)')
<1>1. clock' \in Nat
  BY TicksOn DEF Engine!StepGlide
<1>2. PICK n, t : n = neck /\ t = Engine!Wanted
  OBVIOUS
<1>3. PICK r : r = Engine!ApplyNeck(n, t)
  OBVIOUS
<1>4. n \in Engine!Pose /\ t \in NeckTargets /\ neck' = r /\ target' = t
  BY <1>2, <1>3, WantedIsATarget DEF EngineInv, Engine!StepGlide
<1>5. r \in Engine!Pose /\ (InBand(n) => InBand(r))
  BY <1>3, <1>4, GlideOfTheNeck
<1>6. UNCHANGED <<motion, start, released, taken>>
  BY DEF Engine!StepGlide
<1> QED BY <1>1, <1>2, <1>4, <1>5, <1>6 DEF EngineInv, InBand, NeckTargets

LEMMA EngineStep ==
  ASSUME EngineInv, Engine!Next
  PROVE  EngineInv' /\ (SeedsInBand /\ InBand(neck) => InBand(neck)')
<1> USE StepsOfTheNeck
<1>1. CASE Engine!Step
  BY <1>1, HeldStep, GestureStep, TrackStep, GlideStep DEF Engine!Step
<1>2. ASSUME NEW m \in Engine!Motions, Engine!SetMotion(m) PROVE EngineInv' /\ (InBand(neck) => InBand(neck)')
  <2>1. clock' \in Nat /\ UNCHANGED neck /\ taken' = FALSE
    BY <1>2 DEF Engine!SetMotion, Engine!Selected, EngineInv
  <2>2. Engine!NoTarget \in NeckTargets
    BY GoalsAtCenter DEF NeckTargets
  <2>3. target' \in NeckTargets
    BY <1>2, <2>2 DEF Engine!SetMotion, Engine!Selected, EngineInv, NeckTargets
  <2>4. start' \in Engine!Pose
    <3>1. neck.p1 - Engine!Center \in Int /\ neck.p2 \in Int /\ neck.yaw \in Int
      BY DEF EngineInv, Engine!Pose, Engine!Center
    <3> QED BY <1>2, <3>1 DEF Engine!SetMotion, Engine!Selected, Engine!Straight, Engine!Pose
  <2> QED BY <2>1, <2>3, <2>4 DEF EngineInv, InBand, NeckTargets
<1>3. ASSUME NEW p \in Pitch, NEW y \in Yaw, Engine!SetNeck(p, y) PROVE EngineInv' /\ (InBand(neck) => InBand(neck)')
  <2>1. p \in -Unit..Unit /\ y \in -Unit..Unit
    BY EngineConstants DEF Engine!EngineAssumption
  <2> QED BY <1>3, <2>1 DEF Engine!SetNeck, EngineInv, InBand
<1>4. CASE Engine!LoadKeyframes
  BY <1>4 DEF Engine!LoadKeyframes, EngineInv, InBand, Engine!Straight, Engine!Pose, Engine!NoTarget
<1>5. CASE Engine!Reset
  BY <1>5 DEF Engine!Reset, EngineInv, InBand, Engine!Straight, Engine!Pose, Engine!NoTarget
<1>6. ASSUME NEW pose \in Seed, Engine!SetNeckPositions(pose) PROVE EngineInv' /\ (SeedsInBand => InBand(neck)')
  <2>1. pose \in Engine!Pose
    BY EngineConstants DEF Engine!EngineAssumption
  <2> QED BY <1>6, <2>1 DEF Engine!SetNeckPositions, EngineInv, InBand, SeedsInBand
<1>7. ASSUME NEW h \in BOOLEAN, Engine!SetHold(h) PROVE EngineInv' /\ (InBand(neck) => InBand(neck)')
  BY <1>7 DEF Engine!SetHold, EngineInv, InBand
<1> QED BY <1>1, <1>2, <1>3, <1>4, <1>5, <1>6, <1>7 DEF Engine!Next

LEMMA EngineStutters ==
  ASSUME EngineInv, UNCHANGED <<shared, engineOnly>>
  PROVE  EngineInv' /\ (InBand(neck) => InBand(neck)')
  BY DEF EngineInv, InBand, shared, engineOnly

(* The lock: every frame under it takes each joint nearer to center.       *)
LEMMA LockComesHome == ASSUME EngineInv, Engine!Next PROVE Engine!LockedNeckComesHome
<1> SUFFICES ASSUME hold, Engine!Step
             PROVE  \A x \in {"p1", "p2", "yaw"} :
                      Engine!Distance(neck')[x] < Engine!Distance(neck)[x] \/ neck'[x] = Engine!Home[x]
  BY DEF Engine!LockedNeckComesHome
<1> USE StepsOfTheNeck
<1>1. PICK n, r : n = neck /\ r = Engine!ApplyNeck(n, Engine!NoTarget)
  OBVIOUS
<1>2. Engine!NoTarget \in NeckTargets /\ n \in Engine!Pose /\ neck' = r
  <2>1. Engine!StepHeld
    BY DEF Engine!Step, Engine!StepGesture, Engine!StepKeyframes, Engine!StepGlide
  <2> QED BY <1>1, <2>1, GoalsAtCenter DEF Engine!StepHeld, EngineInv, NeckTargets
<1>3. PICK center : center = Engine!Center
  OBVIOUS
<1>4. center \in Int /\ n.p1 \in Int /\ n.p2 \in Int /\ n.yaw \in Int
  BY <1>2, <1>3 DEF Engine!Pose, Engine!Center
<1>5. /\ r.p1 = Engine!StepToward(n.p1, center, PitchStep)
      /\ r.p2 = Engine!StepToward(n.p2, 0, NodStep)
      /\ r.yaw = Engine!StepToward(n.yaw, 0, NeckStep)
  <2>1. /\ r.p1 = Engine!StepToward(n.p1, Engine!GoalP1(Engine!NoTarget), PitchStep)
        /\ r.p2 = Engine!StepToward(n.p2, Engine!GoalP2(Engine!NoTarget), NodStep)
        /\ r.yaw = Engine!StepToward(n.yaw, Engine!Whole(Engine!NoTarget.yaw * Amplitude, Unit), NeckStep)
    BY <1>1, <1>2, GlideOfTheNeck
  <2> QED BY <1>3, <2>1, GoalsAtCenter
<1>6. /\ Nears(n.p1, center, PitchStep, r.p1) /\ Nears(n.p2, 0, NodStep, r.p2) /\ Nears(n.yaw, 0, NeckStep, r.yaw)
  BY <1>4, <1>5, StepNears
<1>9. Engine!Distance(r).p1 < Engine!Distance(n).p1 \/ r.p1 = center
  BY <1>3, <1>4, <1>6 DEF Engine!Distance, Nears
<1>10. Engine!Distance(r).p2 < Engine!Distance(n).p2 \/ r.p2 = 0
  BY <1>4, <1>6 DEF Engine!Distance, Nears
<1>11. Engine!Distance(r).yaw < Engine!Distance(n).yaw \/ r.yaw = 0
  BY <1>4, <1>6 DEF Engine!Distance, Nears
<1> QED BY <1>1, <1>2, <1>3, <1>9, <1>10, <1>11 DEF Engine!Home

(* It lifts without a jump: what owns the neck is a gesture, or a track    *)
(* that never lost it.                                                     *)
LEMMA LockLifts == ASSUME EngineInv, Engine!Next PROVE Engine!LockLiftsSoftly
<1> SUFFICES ASSUME Engine!Step, ~Engine!OwnsNeck \/ hold
             PROVE  \A x \in {"p1", "p2", "yaw"} : Engine!Reached(x)
  BY DEF Engine!LockLiftsSoftly
<1>1. \E t \in NeckTargets : neck' = Engine!ApplyNeck(neck, t)
  <2>1. CASE Engine!StepHeld
    BY <2>1, GoalsAtCenter DEF Engine!StepHeld, NeckTargets
  <2>2. CASE Engine!StepGesture
    BY <2>2 DEF Engine!StepGesture, Engine!OwnsNeck
  <2>3. CASE Engine!StepKeyframes
    <3>1. released
      BY <2>3 DEF Engine!StepKeyframes, Engine!OwnsNeck, EngineInv
    <3> QED BY <2>3, <3>1 DEF Engine!StepKeyframes, EngineInv, NeckTargets
  <2>4. CASE Engine!StepGlide
    BY <2>4, WantedIsATarget DEF Engine!StepGlide
  <2> QED BY <2>1, <2>2, <2>3, <2>4 DEF Engine!Step
<1>2. PICK t \in NeckTargets : neck' = Engine!ApplyNeck(neck, t)
  BY <1>1
<1>3. PICK n, r : n = neck /\ r = Engine!ApplyNeck(n, t)
  OBVIOUS
<1>4. /\ r.p1 - n.p1 \in -NeckStep..NeckStep /\ r.p2 - n.p2 \in -NeckStep..NeckStep
      /\ r.yaw - n.yaw \in -NeckStep..NeckStep
  BY <1>3, GlideOfTheNeck DEF EngineInv
<1> QED BY <1>2, <1>3, <1>4 DEF Engine!Reached

(* Where both pitch joints step alike, a glide to a goal in the amplitude  *)
(* leaves the head within it, or no farther out.                           *)
LEMMA ChoreographyInside ==
  ASSUME EngineInv, 2 * Share = Shares PROVE Engine!ChoreographyStaysInside
<1> SUFFICES ASSUME Engine!StepGlide, ~target'.look
             PROVE  -Engine!HeadPitch(neck') <= Engine!Most(Amplitude, -Engine!HeadPitch(neck))
  BY DEF Engine!ChoreographyStaysInside
<1> USE StepsOfTheNeck
<1>1. PICK n, t : n = neck /\ t = Engine!Wanted
  OBVIOUS
<1>2. PICK r : r = Engine!ApplyNeck(n, t)
  OBVIOUS
<1>3. n \in Engine!Pose /\ t \in NeckTargets /\ neck' = r /\ ~t.look
  BY <1>1, <1>2, WantedIsATarget DEF EngineInv, Engine!StepGlide
<1>4. PICK a, b, center : a = Engine!GoalP1(t) /\ b = Engine!GoalP2(t) /\ center = Engine!Center
  OBVIOUS
<1>5. a \in Int /\ b \in Int /\ center \in Int /\ -((a - center) + b) <= Amplitude
  <2>1. a \in Int /\ b \in Int /\ -((a - center) + b) <= Amplitude
    BY <1>3, <1>4, GoalsInBand DEF NeckTargets
  <2> QED BY <1>4, <2>1 DEF Engine!Center
<1>6. n.p1 \in Int /\ n.p2 \in Int
  BY <1>3 DEF Engine!Pose
<1>7. PICK s \in Nat \ {0} : s = PitchStep /\ s = NodStep
  OBVIOUS
<1>8. r.p1 = Engine!StepToward(n.p1, a, s) /\ r.p2 = Engine!StepToward(n.p2, b, s)
  BY <1>2, <1>3, <1>4, <1>7, GlideOfTheNeck
<1>9. Nears(n.p1, a, s, r.p1) /\ Nears(n.p2, b, s, r.p2)
  BY <1>5, <1>6, <1>8, StepNears
<1>11. -((r.p1 - center) + r.p2) <= Amplitude \/ -((r.p1 - center) + r.p2) <= -((n.p1 - center) + n.p2)
  BY <1>5, <1>6, <1>9 DEF Nears
<1>12. (r.p1 - center) + r.p2 \in Int /\ (n.p1 - center) + n.p2 \in Int
  BY <1>5, <1>6, <1>9 DEF Nears
<1> QED BY <1>1, <1>3, <1>4, <1>11, <1>12 DEF Engine!HeadPitch, Engine!Most

(* A posture plays on, and leaves the neck aimed at center.                *)
LEMMA PostureEnds == ASSUME EngineInv, Engine!Next PROVE Engine!PostureEndsCentered
<1> SUFFICES ASSUME motion \in Engine!PostureOneShots PROVE Engine!PlaysOn(motion) /\ Engine!Recenters(motion)
  BY DEF Engine!PostureEndsCentered
<1>1. motion \notin {"IDLE", "KEYFRAMES"} /\ motion \notin Engine!NeckGestures
  BY EngineConstants DEF Engine!EngineAssumption, Engine!PostureOneShots, Engine!NeckGestures
<1>2. Engine!NoTarget.pitch = 0 /\ Engine!NoTarget.yaw = 0
  BY DEF Engine!NoTarget
<1>3. clock \in Nat
  BY DEF EngineInv
<1>4. CASE Engine!Step
  <2>1. motion' = motion /\ Engine!Ticks(motion)
    BY <1>1, <1>4 DEF Engine!Step, Engine!StepHeld, Engine!HeldMotion, Engine!StepGesture, Engine!StepKeyframes, Engine!StepGlide
  <2>2. Engine!Finished(motion) \/ clock' >= clock
    BY <2>1, TicksOn
  <2> QED BY <2>1, <2>2 DEF Engine!PlaysOn, Engine!Recenters
<1>5. ASSUME NEW m \in Engine!Motions, Engine!SetMotion(m) PROVE Engine!PlaysOn(motion) /\ Engine!Recenters(motion)
  BY <1>2, <1>3, <1>5 DEF Engine!SetMotion, Engine!Selected, Engine!PlaysOn, Engine!Recenters
<1>6. CASE Engine!LoadKeyframes \/ Engine!Reset
  BY <1>1, <1>2, <1>6 DEF Engine!LoadKeyframes, Engine!Reset, Engine!PlaysOn, Engine!Recenters
<1>7. ASSUME UNCHANGED <<motion, clock>> PROVE Engine!PlaysOn(motion) /\ Engine!Recenters(motion)
  BY <1>3, <1>7 DEF Engine!PlaysOn, Engine!Recenters
<1>8. ASSUME NEW p, NEW y, Engine!SetNeck(p, y) PROVE UNCHANGED <<motion, clock>>
  BY <1>8 DEF Engine!SetNeck
<1>9. ASSUME NEW pose, Engine!SetNeckPositions(pose) PROVE UNCHANGED <<motion, clock>>
  BY <1>9 DEF Engine!SetNeckPositions
<1>10. ASSUME NEW h, Engine!SetHold(h) PROVE UNCHANGED <<motion, clock>>
  BY <1>10 DEF Engine!SetHold
<1> QED BY <1>4, <1>5, <1>6, <1>7, <1>8, <1>9, <1>10 DEF Engine!Next

LEMMA LookSurvives == Engine!LookSurvivesTheEnd
<1> SUFFICES ASSUME Engine!Step, ~hold, motion \in Engine!PostureOneShots, Engine!Finished(motion)
             PROVE  target' = target
  BY DEF Engine!LookSurvivesTheEnd
<1>1. motion # "KEYFRAMES" /\ motion \notin Engine!NeckGestures
  BY EngineConstants DEF Engine!EngineAssumption, Engine!PostureOneShots, Engine!NeckGestures
<1>2. Engine!StepGlide
  BY <1>1 DEF Engine!Step, Engine!StepHeld, Engine!StepGesture, Engine!StepKeyframes
<1> QED BY <1>2 DEF Engine!StepGlide, Engine!Wanted, Engine!Played

------------------------------------------------------------------------------
(* The choreography                                                        *)

(* A set of naturals has a least member: what the recursion of the strokes *)
(* and the choice of a keyframe are argued from.                           *)
Less == OpToRel(<, Nat)

LEMMA LessIs == ASSUME NEW x \in Nat, NEW y \in Nat PROVE <<x, y>> \in Less <=> x < y
  BY DEF Less, OpToRel

LEMMA LeastNumber ==
  ASSUME NEW numbers, numbers \subseteq Nat, numbers # {}
  PROVE  \E x \in numbers : \A y \in numbers : x <= y
<1>1. IsWellFoundedOn(Less, Nat)
  BY NatLessThanWellFounded DEF Less
<1>2. PICK x \in numbers : \A y \in numbers : ~(<<y, x>> \in Less)
  BY <1>1, WFMin
<1>3. ASSUME NEW y \in numbers PROVE x <= y
  <2>1. x \in Nat /\ y \in Nat /\ ~(<<y, x>> \in Less)
    BY <1>2
  <2> QED BY <2>1, LessIs
<1> QED BY <1>3

(* The amplitudes of the strokes, as far as the n-th.                      *)
Amplitudes(g, d, n) == g[0] = Level /\ \A i \in 1..n : g[i] = (g[i - 1] * d) \div 10

LEMMA SomeAmplitudes == ASSUME NEW d, NEW n \in Nat PROVE \E g : Amplitudes(g, d, n)
<1> DEFINE Bad == {m \in Nat : ~ \E g : Amplitudes(g, d, m)}
<1> SUFFICES ASSUME Bad # {} PROVE FALSE
  OBVIOUS
<1>1. PICK m \in Bad : \A y \in Bad : m <= y
  BY LeastNumber
<1>2. CASE m = 0
  <2>1. Amplitudes([i \in {0} |-> Level], d, m)
    BY <1>2 DEF Amplitudes
  <2> QED BY <1>1, <2>1
<1>3. CASE m # 0
  <2>1. m - 1 \in Nat /\ m - 1 \notin Bad
    BY <1>1, <1>3
  <2>2. PICK g : Amplitudes(g, d, m - 1)
    BY <2>1
  <2> DEFINE h == [i \in 0..m |-> IF i = m THEN (g[m - 1] * d) \div 10 ELSE g[i]]
  <2>3. Amplitudes(h, d, m)
    <3>1. h[0] = Level
      BY <1>1, <1>3, <2>2 DEF Amplitudes
    <3>2. ASSUME NEW i \in 1..m PROVE h[i] = (h[i - 1] * d) \div 10
      <4>1. i - 1 \in 0..m /\ i - 1 # m /\ h[i - 1] = g[i - 1]
        BY <1>1
      <4>2. CASE i = m
        BY <4>1, <4>2
      <4>3. CASE i # m
        <5>1. i \in 1..(m - 1) /\ h[i] = g[i]
          BY <1>1, <4>3
        <5> QED BY <2>2, <4>1, <5>1 DEF Amplitudes
      <4> QED BY <4>2, <4>3
    <3> QED BY <3>1, <3>2 DEF Amplitudes
  <2> QED BY <1>1, <2>3
<1> QED BY <1>2, <1>3

LEMMA SameAmplitudes ==
  ASSUME NEW d, NEW n \in Nat, NEW m \in Nat, NEW g, NEW h, Amplitudes(g, d, n), Amplitudes(h, d, m),
         NEW k \in 0..n, k <= m
  PROVE  g[k] = h[k]
<1> DEFINE Bad == {i \in 0..k : g[i] # h[i]}
<1> SUFFICES ASSUME Bad # {} PROVE FALSE
  OBVIOUS
<1>0. Bad \subseteq Nat
  OBVIOUS
<1>1. PICK i \in Bad : \A y \in Bad : i <= y
  <2> HIDE DEF Bad
  <2> QED BY <1>0, LeastNumber
<1>2. i # 0
  BY <1>1 DEF Amplitudes
<1>3. i - 1 \in 0..k /\ i - 1 \notin Bad /\ i \in 1..n /\ i \in 1..m
  BY <1>1, <1>2
<1>4. g[i - 1] = h[i - 1]
  BY <1>3
<1> QED BY <1>1, <1>3, <1>4 DEF Amplitudes

(* The recursion of the strokes has the function it describes.             *)
LEMMA DecayIs ==
  ASSUME NEW d
  PROVE  Choreo!Decay(d) = [n \in Nat |-> IF n = 0 THEN Level ELSE (Choreo!Decay(d)[n - 1] * d) \div 10]
<1> DEFINE G(n) == CHOOSE g : Amplitudes(g, d, n)
<1> DEFINE F == [n \in Nat |-> G(n)[n]]
<1>1. ASSUME NEW n \in Nat PROVE Amplitudes(G(n), d, n)
  BY SomeAmplitudes, Zenon
<1>2. F[0] = Level
  BY <1>1 DEF Amplitudes
<1>3. ASSUME NEW n \in Nat, n # 0 PROVE F[n] = (F[n - 1] * d) \div 10
  <2>1. n - 1 \in Nat /\ n - 1 \in 0..n /\ n \in 1..n
    BY <1>3
  <2>2. Amplitudes(G(n), d, n) /\ Amplitudes(G(n - 1), d, n - 1)
    BY <1>1, <2>1
  <2>3. G(n)[n] = (G(n)[n - 1] * d) \div 10
    BY <2>1, <2>2 DEF Amplitudes
  <2>4. G(n)[n - 1] = G(n - 1)[n - 1]
    BY <2>1, <2>2, SameAmplitudes
  <2> QED BY <2>1, <2>3, <2>4
<1>4. F = [n \in Nat |-> IF n = 0 THEN Level ELSE (F[n - 1] * d) \div 10]
  <2> HIDE DEF G
  <2> QED BY <1>2, <1>3
<1> HIDE DEF F
<1> QED BY <1>4, Zenon DEF Choreo!Decay

(* No stroke swings wider than the first, or below the rest.               *)
LEMMA DecayBounds == ASSUME NEW d \in 0..10, NEW n \in Nat PROVE Choreo!Decay(d)[n] \in 0..Level
<1> DEFINE amp == Choreo!Decay(d)
<1>1. amp[0] = Level /\ \A i \in Nat \ {0} : amp[i] = (amp[i - 1] * d) \div 10
  BY DecayIs
<1> HIDE DEF amp
<1> DEFINE Bad == {i \in Nat : amp[i] \notin 0..Level}
<1>2. SUFFICES ASSUME Bad # {} PROVE FALSE
  BY DEF amp
<1>3. PICK i \in Bad : \A y \in Bad : i <= y
  BY <1>2, LeastNumber
<1>4. i # 0
  BY <1>1, <1>3, ChoreoConstants DEF Choreo!ChoreographyAssumption
<1>5. i - 1 \in Nat /\ i - 1 \notin Bad /\ i \in Nat \ {0}
  BY <1>3, <1>4
<1>6. PICK a \in 0..Level : a = amp[i - 1]
  BY <1>5
<1>7. a * d <= 10 * Level /\ a * d >= 0 /\ Level \in Nat
  <2>1. Level \in Nat /\ a \in Nat /\ d \in Nat
    BY ChoreoConstants DEF Choreo!ChoreographyAssumption
  <2>2. a * d <= a * 10 /\ a * d >= 0
    BY <2>1
  <2> QED BY <2>1, <2>2
<1>8. (a * d) \div 10 \in 0..Level
  <2>1. PICK p \in Nat : p = a * d /\ p <= 10 * Level
    BY <1>7
  <2> QED BY <1>7, <2>1
<1>9. amp[i] = (a * d) \div 10
  BY <1>1, <1>5, <1>6
<1> QED BY <1>3, <1>8, <1>9

(* A share of a distance lies on the way.                                  *)
LEMMA WholeShare ==
  ASSUME NEW a \in Int, NEW u \in Nat \ {0}, NEW l \in 0..u
  PROVE  /\ a >= 0 => Choreo!Whole(a * l, u) \in 0..a
         /\ a <= 0 => Choreo!Whole(a * l, u) \in a..0
<1>1. ASSUME NEW b \in Nat PROVE b * l \in Nat /\ (b * l) \div u \in 0..b
  <2>1. b * l \in Nat /\ b * l <= u * b
    OBVIOUS
  <2> QED BY <2>1, Quotient
<1>2. CASE a >= 0
  <2>1. a * l \in Nat /\ (a * l) \div u \in 0..a
    BY <1>1, <1>2
  <2> QED BY <1>2, <2>1 DEF Choreo!Whole
<1>3. CASE a < 0
  <2>1. (-a) * l \in Nat /\ ((-a) * l) \div u \in 0..(-a)
    BY <1>1, <1>3
  <2>2. PICK q \in Nat : q = (-a) * l /\ q \div u \in 0..(-a)
    BY <2>1
  <2>3. a * l = -q
    BY <2>2
  <2>4. Choreo!Whole(-q, u) \in a..0
    BY <1>3, <2>2 DEF Choreo!Whole
  <2> QED BY <1>3, <2>3, <2>4
<1> QED BY <1>2, <1>3

(* Keyframes play between the lowest and the highest value, and are at     *)
(* rest before the first and past the last where these are.                *)
At(keys, k) == keys[k][1]
Value(keys, k) == keys[k][2]

LEMMA InterpBetween ==
  ASSUME NEW keys \in Seq(Int \X (0..Level)), Len(keys) >= 2, NEW t \in Int
  PROVE  Choreo!Interp(keys, t) \in 0..Level
<1>0. Level \in Nat
  BY ChoreoConstants DEF Choreo!ChoreographyAssumption
<1>1. PICK top \in Nat : top = Len(keys) /\ top >= 2
  OBVIOUS
<1>2. \A k \in 1..top : At(keys, k) \in Int /\ Value(keys, k) \in 0..Level
  <2>1. \A k \in 1..top : keys[k] \in Int \X (0..Level)
    BY <1>1
  <2>2. \A x \in Int \X (0..Level) : x[1] \in Int /\ x[2] \in 0..Level
    OBVIOUS
  <2> QED BY <2>1, <2>2 DEF At, Value
<1>3. PICK first, last \in Int : first = At(keys, 1) /\ last = At(keys, top)
  <2>1. 1 \in 1..top /\ top \in 1..top
    BY <1>1
  <2> QED BY <1>2, <2>1
<1>4. CASE t <= first
  <2>1. Choreo!Interp(keys, t) = Value(keys, 1)
    BY <1>3, <1>4 DEF Choreo!Interp, At, Value
  <2> QED BY <1>1, <1>2, <2>1
<1>5. CASE t > first /\ t > last
  <2>1. ~(t <= first)
    BY <1>3, <1>5
  <2>2. Choreo!Interp(keys, t) = Value(keys, top)
    BY <1>1, <1>3, <1>5, <2>1 DEF Choreo!Interp, At, Value
  <2> QED BY <1>1, <1>2, <2>2
<1>6. CASE t > first /\ t <= last
  <2> DEFINE Meets(k) == t <= keys[k][1] /\ \A j \in 2..(k - 1) : t > keys[j][1]
  <2> DEFINE hits == {k \in 2..top : t <= At(keys, k)}
  <2>1. hits # {} /\ hits \subseteq Nat
    <3>1. top \in 2..top /\ t <= At(keys, top)
      BY <1>1, <1>3, <1>6
    <3>2. hits \subseteq Nat
      OBVIOUS
    <3> QED BY <3>1, <3>2
  <2>2. \E k \in 2..top : Meets(k)
    <3>1. PICK k \in hits : \A y \in hits : k <= y
      <4> HIDE DEF hits
      <4> QED BY <2>1, LeastNumber
    <3>2. ASSUME NEW j \in 2..(k - 1) PROVE t > keys[j][1]
      <4>1. j \in 1..top /\ j \in 2..top /\ j \notin hits
        BY <1>1, <3>1
      <4>2. At(keys, j) \in Int /\ ~(t <= At(keys, j))
        BY <1>2, <4>1
      <4>3. t > At(keys, j)
        BY <4>2
      <4> QED BY <4>3 DEF At
    <3> QED BY <3>1, <3>2 DEF At
  <2>3. PICK i \in 2..top : Meets(i) /\ i = CHOOSE k \in 2..top : Meets(k)
    <3> HIDE DEF Meets
    <3> QED BY <2>2, Zenon
  <2>4. i \in Nat /\ i - 1 \in 1..top /\ i \in 1..top
    BY <1>1
  <2>5. PICK s, e \in Int : s = At(keys, i - 1) /\ e = At(keys, i)
    BY <1>2, <2>4
  <2>6. PICK v, w \in 0..Level : v = Value(keys, i - 1) /\ w = Value(keys, i)
    BY <1>2, <2>4
  <2>7. t <= e /\ t > s
    <3>1. t <= e
      BY <2>3, <2>5 DEF At
    <3>2. CASE i = 2
      <4>1. i - 1 = 1
        BY <3>2
      <4>2. s = first
        BY <1>3, <2>5, <4>1, Zenon
      <4> QED BY <1>6, <3>1, <4>2
    <3>3. CASE i # 2
      <4>1. i - 1 \in 2..(i - 1)
        BY <2>4, <3>3
      <4> QED BY <2>3, <2>5, <3>1, <4>1 DEF At
    <3> QED BY <3>1, <3>2, <3>3
  <2>8. Choreo!Interp(keys, t) = v + Choreo!Whole((w - v) * (t - s), e - s)
    <3>1. ~(t <= first) /\ ~(t > last) /\ ~(e - s <= 0)
      BY <1>6, <2>7
    <3>2. ~(t <= keys[1][1]) /\ ~(t > keys[Len(keys)][1]) /\ ~(keys[i][1] - keys[i - 1][1] <= 0)
      BY <1>1, <1>3, <2>5, <3>1 DEF At
    <3>3. i = CHOOSE k \in 2..Len(keys) : t <= keys[k][1] /\ \A j \in 2..(k - 1) : t > keys[j][1]
      BY <1>1, <2>3, Zenon
    <3>4. Choreo!Interp(keys, t) = keys[i - 1][2] + Choreo!Whole((keys[i][2] - keys[i - 1][2]) * (t - keys[i - 1][1]), keys[i][1] - keys[i - 1][1])
      BY <3>2, <3>3, Zenon DEF Choreo!Interp
    <3> QED BY <2>5, <2>6, <3>4, Zenon DEF At, Value
  <2>9. PICK d \in Int : d = w - v
    BY <1>0
  <2>10. PICK u \in Nat \ {0} : u = e - s
    BY <2>7
  <2>11. PICK l \in 0..u : l = t - s
    BY <2>7, <2>10
  <2>12. (d >= 0 => Choreo!Whole(d * l, u) \in 0..d) /\ (d <= 0 => Choreo!Whole(d * l, u) \in d..0)
    BY WholeShare
  <2>13. v + Choreo!Whole(d * l, u) \in 0..Level
    BY <1>0, <2>9, <2>12
  <2> QED BY <2>8, <2>9, <2>10, <2>11, <2>13
<1> QED BY <1>3, <1>4, <1>5, <1>6

LEMMA InterpInside ==
  ASSUME NEW keys, NEW t \in Int, NEW top, top = Len(keys), Value(keys, 1) = 0, Value(keys, top) = 0,
         At(keys, 1) \in Int, At(keys, top) \in Int, Choreo!Interp(keys, t) > 0
  PROVE  At(keys, 1) < t /\ t <= At(keys, top)
<1>1. CASE t <= At(keys, 1)
  <2>1. Choreo!Interp(keys, t) = 0
    BY <1>1 DEF Choreo!Interp, At, Value
  <2> QED BY <2>1
<1>2. CASE t > At(keys, 1) /\ t > At(keys, top)
  <2>1. ~(t <= At(keys, 1))
    BY <1>2
  <2>2. Choreo!Interp(keys, t) = 0
    BY <1>2, <2>1 DEF Choreo!Interp, At, Value
  <2> QED BY <2>2
<1> QED BY <1>1, <1>2

(* What the knobs give: a timeline that runs forward, and rates that do.   *)
LEMMA KnobTypes ==
  ASSUME NEW k \in Knobs
  PROVE  /\ k.count \in Int /\ k.period \in Int /\ k.dwell \in Int /\ k.decay \in Int /\ k.offset \in Int
         /\ k.intro \in Int /\ k.raise \in Int /\ k.speed \in Int
         /\ k.gap \in Int /\ k.open \in Int /\ k.height \in Int
  BY ChoreoConstants DEF Choreo!ChoreographyAssumption

LEMMA HeldBounds == ASSUME NEW x \in Int, NEW top \in Nat PROVE Choreo!Held(x, top) \in 0..top
  BY DEF Choreo!Held, Choreo!Most, Choreo!Least

LEMMA FlooredBounds == ASSUME NEW x \in Int PROVE Choreo!Floored(x) \in Nat \ {0}
  BY DEF Choreo!Floored, Choreo!Most, Choreo!MinRate

LEMMA Timeline ==
  ASSUME NEW k \in Knobs
  PROVE  /\ Choreo!WaveCount(k) \in Nat \ {0} /\ Choreo!WavePeriod(k) \in Nat /\ Choreo!ClapPeriod(k) \in Nat
         /\ Choreo!OutroStart(k) \in Nat /\ Choreo!WaveDuration(k) = Choreo!OutroStart(k) + 150
         /\ Choreo!Offset(k) \in Nat
         /\ Choreo!StrokesEnd(k) \in Nat /\ Choreo!StrokesEnd(k) >= 255 /\ Choreo!LowerEnd(k) = Choreo!StrokesEnd(k) + 150
<1>1. Choreo!WaveCount(k) \in Nat \ {0} /\ Choreo!WavePeriod(k) \in Nat /\ Choreo!ClapPeriod(k) \in Nat
  BY KnobTypes DEF Choreo!WaveCount, Choreo!WavePeriod, Choreo!ClapPeriod, Choreo!Most
<1>2. PICK n, p, c \in Nat : n = Choreo!WaveCount(k) /\ p = Choreo!WavePeriod(k) /\ c = Choreo!ClapPeriod(k)
  BY <1>1
<1>3. Choreo!OutroStart(k) \in Nat
  <2>1. n * p \in Nat
    OBVIOUS
  <2> QED BY <1>2, <2>1 DEF Choreo!OutroStart, Choreo!IntroEnd, Choreo!PrepSweep, Choreo!SettleDwell
<1>4. Choreo!Offset(k) \in Nat
  <2>1. PICK h \in 0..2 : h = Choreo!Held(k.offset, 2)
    BY KnobTypes, HeldBounds
  <2>2. h * p \in Nat
    OBVIOUS
  <2>3. (h * p) \div 2 \in Nat
    BY <2>2
  <2> QED BY <1>2, <2>1, <2>3 DEF Choreo!Offset
<1>5. Choreo!StrokesEnd(k) \in Nat /\ Choreo!StrokesEnd(k) >= 255
  <2>1. 2 * n * (c \div 2) \in Nat
    <3>1. PICK h \in Nat : h = c \div 2
      OBVIOUS
    <3>2. n * h \in Nat
      OBVIOUS
    <3> QED BY <3>1, <3>2
  <2> QED BY <1>2, <2>1 DEF Choreo!StrokesEnd, Choreo!ClapRaiseEnd, Choreo!Lead, Choreo!ClapRaise
<1> QED BY <1>1, <1>3, <1>4, <1>5 DEF Choreo!WaveDuration, Choreo!ReturnS, Choreo!LowerEnd

LEMMA Rates ==
  ASSUME NEW k \in Knobs, NEW ph
  PROVE  /\ Choreo!WaveRate(k, ph) \in Nat \ {0} /\ Choreo!BothRate(k, ph) \in Nat \ {0}
         /\ Choreo!ClapRate(k, ph) \in Nat \ {0}
<1>1. Choreo!Floored(k.intro) \in Nat \ {0} /\ Choreo!Floored(k.raise) \in Nat \ {0} /\ Choreo!Floored(k.speed) \in Nat \ {0}
  BY KnobTypes, FlooredBounds
<1> QED BY <1>1 DEF Choreo!WaveRate, Choreo!BothRate, Choreo!ClapRate

(* The waves' keyframes begin and end with the arm on the ground.          *)
LEMMA WaveEnds ==
  ASSUME NEW k \in Knobs, NEW keys, keys = Choreo!WaveKeys(k)
  PROVE  At(keys, 1) = 0 /\ Value(keys, 1) = 0 /\ At(keys, Len(keys)) = Choreo!WaveDuration(k) /\ Value(keys, Len(keys)) = 0
<1>1. PICK n \in Nat : n = 4 * Choreo!WaveCount(k)
  BY Timeline
<1>2. PICK last : last = <<Choreo!WaveDuration(k), 0>>
  OBVIOUS
<1> DEFINE head == <<<<0, 0>>, <<Choreo!PrepSweep, Level>>, <<Choreo!IntroEnd, Level>>>>
           strokes == [i \in 1..n |-> Choreo!WaveStroke(k, i)]
           All == {<<0, 0>>, <<Choreo!PrepSweep, Level>>, <<Choreo!IntroEnd, Level>>, last} \cup {Choreo!WaveStroke(k, i) : i \in 1..n}
<1>3. head \in Seq(All) /\ Len(head) = 3 /\ head[1] = <<0, 0>>
  OBVIOUS
<1>4. strokes \in Seq(All) /\ Len(strokes) = n
  OBVIOUS
<1>5. <<last>> \in Seq(All) /\ Len(<<last>>) = 1 /\ <<last>>[1] = last
  OBVIOUS
<1>6. keys = (head \o strokes) \o <<last>>
  BY <1>1, <1>2, Zenon DEF Choreo!WaveKeys
<1> HIDE DEF head, strokes, All
<1> DEFINE front == head \o strokes
<1>8. front \in Seq(All) /\ Len(front) = 3 + n /\ front[1] = <<0, 0>>
  <2>1. /\ front \in Seq(All) /\ Len(front) = Len(head) + Len(strokes)
        /\ \A i \in 1..Len(head) + Len(strokes) : front[i] = IF i <= Len(head) THEN head[i] ELSE strokes[i - Len(head)]
    <3> HIDE DEF front
    <3>1. front = head \o strokes
      BY DEF front
    <3> QED BY <1>3, <1>4, <3>1, ConcatProperties, Zenon
  <2> HIDE DEF front
  <2> QED BY <1>3, <1>4, <2>1
<1> HIDE DEF front
<1>9. PICK tail : tail = <<last>>
  OBVIOUS
<1>10. Len(front \o tail) = 4 + n /\ (front \o tail)[1] = front[1] /\ (front \o tail)[4 + n] = tail[1]
  BY <1>5, <1>8, <1>9, ConcatProperties
<1>11. keys = front \o tail
  BY <1>6, <1>9 DEF front
<1>12. keys[1] = <<0, 0>> /\ keys[Len(keys)] = <<Choreo!WaveDuration(k), 0>>
  BY <1>2, <1>5, <1>8, <1>9, <1>10, <1>11
<1> QED BY <1>12 DEF At, Value

(* The stance is full while an arm is away: it is built before the first   *)
(* leaves the ground and released after the last has landed.               *)
LEMMA FullStance ==
  ASSUME NEW t \in Int, NEW full \in Int, t >= 90, t <= full PROVE Choreo!Envelope(t, full) = Level
<1>1. Level \in Nat
  BY ChoreoConstants DEF Choreo!ChoreographyAssumption
<1>2. CASE t < full
  BY <1>2 DEF Choreo!Envelope, Choreo!PrepS
<1>3. CASE t = full
  <2>1. (full + 150 - t) * Level = 150 * Level
    BY <1>3
  <2>2. (150 * Level) \div 150 = Level
    BY <1>1
  <2> QED BY <1>3, <2>1, <2>2 DEF Choreo!Envelope, Choreo!PrepS, Choreo!ReturnS
<1> QED BY <1>2, <1>3

LEMMA ArmsOverStance ==
  ASSUME NEW k \in Knobs, NEW c \in Nat, NEW leg,
         Choreo!Interp(Choreo!WaveKeys(k), c - Choreo!Lead - (IF leg = 6 THEN Choreo!Offset(k) ELSE 0)) > 0
  PROVE  Choreo!Envelope(c, Choreo!WaveDuration(k) + Choreo!Lead + Choreo!Offset(k)) = Level
<1>1. PICK keys : keys = Choreo!WaveKeys(k)
  OBVIOUS
<1>2. PICK d, off \in Nat : d = Choreo!WaveDuration(k) /\ off = Choreo!Offset(k)
  BY Timeline
<1>3. PICK late \in 0..off : late = IF leg = 6 THEN Choreo!Offset(k) ELSE 0
  BY <1>2
<1>4. PICK t \in Int : t = c - 105 - late
  OBVIOUS
<1>5. PICK top : top = Len(keys)
  OBVIOUS
<1>10. At(keys, 1) = 0 /\ Value(keys, 1) = 0 /\ At(keys, top) = d /\ Value(keys, top) = 0
  BY <1>1, <1>2, <1>5, WaveEnds
<1>6. Choreo!Interp(keys, t) > 0
  BY <1>1, <1>3, <1>4 DEF Choreo!Lead
<1>7. 0 < t /\ t <= d
  BY <1>5, <1>6, <1>10, InterpInside
<1>8. PICK full \in Int : full = d + 105 + off
  OBVIOUS
<1>9. c >= 90 /\ c <= full
  BY <1>2, <1>4, <1>7, <1>8
<1> QED BY <1>2, <1>8, <1>9, FullStance DEF Choreo!Lead

(* The clap's lift and closing, between none and all.                      *)
LEMMA LiftKeys ==
  ASSUME NEW k \in Knobs, NEW t \in Int
  PROVE  /\ Choreo!ClapLift(k, t) \in 0..Level
         /\ Choreo!ClapLift(k, t) > 0 => t > 105 /\ t <= Choreo!LowerEnd(k)
<1>1. PICK s, e \in Int : s = Choreo!StrokesEnd(k) /\ e = Choreo!LowerEnd(k)
  BY Timeline
<1>2. Level \in Nat \ {0}
  BY ChoreoConstants DEF Choreo!ChoreographyAssumption
<1>3. PICK keys : keys = <<<<105, 0>>, <<255, Level>>, <<s, Level>>, <<e, 0>>>>
  OBVIOUS
<1>4. keys \in Seq(Int \X (0..Level))
  <2>1. <<105, 0>> \in Int \X (0..Level) /\ <<255, Level>> \in Int \X (0..Level)
        /\ <<s, Level>> \in Int \X (0..Level) /\ <<e, 0>> \in Int \X (0..Level)
    BY <1>2
  <2> QED BY <1>3, <2>1
<1>5. PICK top \in Nat : top = Len(keys) /\ top = 4
  BY <1>3
<1>9. At(keys, 1) = 105 /\ Value(keys, 1) = 0 /\ At(keys, top) = e /\ Value(keys, top) = 0
  BY <1>3, <1>5 DEF At, Value
<1>6. Choreo!ClapLift(k, t) = Choreo!Interp(keys, t)
  BY <1>1, <1>3 DEF Choreo!ClapLift, Choreo!ClapRaiseEnd, Choreo!Lead, Choreo!ClapRaise
<1>7. Choreo!Interp(keys, t) \in 0..Level
  <2>1. Len(keys) >= 2
    BY <1>5
  <2> QED BY <1>4, <2>1, InterpBetween, Zenon
<1>8. ASSUME Choreo!Interp(keys, t) > 0 PROVE 105 < t /\ t <= e
  <2>1. At(keys, 1) \in Int /\ At(keys, top) \in Int
    BY <1>9
  <2>2. At(keys, 1) < t /\ t <= At(keys, top)
    BY <1>5, <1>8, <1>9, <2>1, InterpInside, Zenon
  <2> QED BY <1>9, <2>2
<1> QED BY <1>1, <1>6, <1>7, <1>8

LEMMA StrokeOfTheClap ==
  ASSUME NEW k \in Knobs, NEW i \in Nat \ {0} PROVE Choreo!ClapStroke(k, i) \in Int \X (0..Level)
<1>1. Level \in Nat \ {0}
  BY ChoreoConstants DEF Choreo!ChoreographyAssumption
<1>2. PICK half \in Int : half = Choreo!ClapPeriod(k) \div 2
  BY Timeline
<1>3. PICK move \in Int : move = half - (half * Choreo!Held(k.dwell, 8)) \div 10
  <2>1. PICK d \in 0..8 : d = Choreo!Held(k.dwell, 8)
    BY KnobTypes, HeldBounds
  <2>2. half * d \in Int
    OBVIOUS
  <2>3. (half * d) \div 10 \in Int
    BY <2>2
  <2> QED BY <2>1, <2>3
<1>4. PICK n \in Nat, p \in 1..4 : n = (i - 1) \div 4 /\ p = 1 + ((i - 1) % 4)
  OBVIOUS
<1>5. PICK step \in Int : step = <<move, half, half + move, 2 * half>>[p]
  OBVIOUS
<1>6. PICK a \in 0..Level : a = Choreo!Decayed(k, n + 1)
  <2>1. PICK d \in 0..10 : d = Choreo!Held(k.decay, 10)
    BY KnobTypes, HeldBounds
  <2>2. PICK m \in Nat : m = n + 1
    OBVIOUS
  <2> QED BY <2>1, <2>2, DecayBounds DEF Choreo!Decayed
<1>7. PICK when \in Int : when = Choreo!ClapRaiseEnd + 2 * n * half + step
  <2>1. PICK q \in Int : q = n * half
    OBVIOUS
  <2>2. 2 * n * half = 2 * q
    BY <2>1
  <2> QED BY <2>2 DEF Choreo!ClapRaiseEnd, Choreo!Lead, Choreo!ClapRaise
<1>8. PICK v \in 0..Level : v = IF p <= 2 THEN Level ELSE Level - a
  BY <1>1
<1>9. Choreo!ClapStroke(k, i) = <<when, v>>
  BY <1>2, <1>3, <1>4, <1>5, <1>6, <1>7, <1>8, Zenon DEF Choreo!ClapStroke
<1> QED BY <1>9

LEMMA ClosingKeys == ASSUME NEW k \in Knobs, NEW t \in Int PROVE Choreo!Interp(Choreo!ClapKeys(k), t) \in 0..Level
<1> DEFINE Key == Int \X (0..Level)
<1>1. PICK n \in Nat \ {0} : n = 4 * Choreo!WaveCount(k)
  BY Timeline
<1>2. PICK head : head = <<<<Choreo!ClapRaiseEnd, 0>>>>
  OBVIOUS
<1>3. head \in Seq(Key) /\ Len(head) = 1
  <2>1. <<Choreo!ClapRaiseEnd, 0>> \in Key
    BY ChoreoConstants DEF Choreo!ChoreographyAssumption, Choreo!ClapRaiseEnd, Choreo!Lead, Choreo!ClapRaise
  <2> QED BY <1>2, <2>1
<1>4. PICK strokes : strokes = [i \in 1..n |-> Choreo!ClapStroke(k, i)]
  OBVIOUS
<1>5. strokes \in Seq(Key) /\ Len(strokes) = n
  <2>1. \A i \in 1..n : Choreo!ClapStroke(k, i) \in Key
    BY StrokeOfTheClap
  <2> HIDE DEF Key
  <2> QED BY <1>4, <2>1
<1>6. PICK keys : keys = head \o strokes
  OBVIOUS
<1>7. keys \in Seq(Key) /\ Len(keys) = Len(head) + Len(strokes)
  <2> HIDE DEF Key
  <2> QED BY <1>3, <1>5, <1>6, ConcatProperties, Zenon
<1>8. Len(keys) >= 2
  BY <1>3, <1>5, <1>7
<1>9. Choreo!ClapKeys(k) = keys
  BY <1>1, <1>2, <1>4, <1>6, Zenon DEF Choreo!ClapKeys
<1> QED BY <1>7, <1>8, <1>9, InterpBetween

(* The hands are between their natural distance and one no smaller than    *)
(* the floor.                                                              *)
LEMMA HandsApart == ASSUME NEW k \in Knobs, NEW t \in Int PROVE Choreo!ClapApart(k, t) \in Int /\ Choreo!ClapApart(k, t) >= 20
<1>1. Level \in Nat \ {0}
  BY ChoreoConstants DEF Choreo!ChoreographyAssumption
<1>2. PICK gap \in Int : gap = Choreo!Most(Choreo!GapFloor, k.gap) /\ gap >= 20
  BY KnobTypes DEF Choreo!Most, Choreo!GapFloor
<1>3. PICK open \in Int : open = Choreo!Most(gap, k.open) /\ open >= gap
  BY KnobTypes DEF Choreo!Most
<1>4. PICK l, j \in 0..Level : l = Choreo!ClapLift(k, t) /\ j = Choreo!Interp(Choreo!ClapKeys(k), t)
  BY LiftKeys, ClosingKeys
<1>5. PICK a \in Int : a = gap - open
  OBVIOUS
<1>6. PICK goal \in Int : goal = open + Choreo!Whole(a * j, Level) /\ goal >= 20
  <2>1. Choreo!Whole(a * j, Level) \in a..0
    BY <1>1, <1>3, <1>5, WholeShare
  <2> QED BY <1>2, <1>3, <1>5, <2>1
<1>7. PICK b \in Int : b = goal - 249
  OBVIOUS
<1>8. PICK apart2 \in Int : apart2 = 249 + Choreo!Whole(b * l, Level) /\ apart2 >= 20
  <2>1. (b >= 0 => Choreo!Whole(b * l, Level) \in 0..b) /\ (b <= 0 => Choreo!Whole(b * l, Level) \in b..0)
    BY <1>1, WholeShare
  <2> QED BY <1>6, <1>7, <2>1
<1>9. Choreo!ClapApart(k, t) = apart2
  BY <1>2, <1>3, <1>4, <1>5, <1>6, <1>7, <1>8, Zenon DEF Choreo!ClapApart, Choreo!NaturalSep
<1> QED BY <1>8, <1>9

(* What holds of the legs: arms over a built stance is not alone, a gait   *)
(* is known by its phase and a wave by its clock and knobs.                *)
LegsCarry(feet) ==
  feet \in {{}, Choreo!TripodA, Choreo!TripodB, Choreo!Arms} \/ \E leg \in Choreo!Leg : feet = {leg}
OverStance(feet, m, c, s) == feet \cap Choreo!Arms # {} /\ m \in {"WAVE_BOTH", "CLAP"} /\ c > 0 => s = Level
ChoreoInv ==
  /\ motion \in Choreo!Motions /\ gait \in 0..(Cycle - 1) /\ clock \in Nat /\ knobs \in Knobs
  /\ waveLeg = 6 /\ yaw \in Int
  /\ LegsCarry(lifted) /\ OverStance(lifted, motion, clock, stance)
  /\ apart \in Int /\ apart >= 20

LEMMA CycleOfTheGait ==
  /\ Cycle \in Nat \ {0} /\ Cycle % 12 = 0 /\ GaitSpeed \in Nat \ {0} /\ Level \in Nat \ {0} /\ Longest \in Nat
  BY ChoreoConstants DEF Choreo!ChoreographyAssumption

LEMMA NextPhase == ASSUME NEW g \in 0..(Cycle - 1) PROVE (g + GaitSpeed) % Cycle \in 0..(Cycle - 1)
  BY CycleOfTheGait

LEMMA ChoreoWhole == ASSUME NEW a \in Int, NEW b \in Nat \ {0} PROVE Choreo!Whole(a, b) \in Int
  BY DEF Choreo!Whole

LEMMA ChoreoStart == Choreo!Init => ChoreoInv
  BY CycleOfTheGait DEF Choreo!Init, ChoreoInv, LegsCarry, OverStance, Choreo!Motions, Choreo!NaturalSep

(* The glide to rest: nearer with every frame, and there in the end.       *)
LEMMA GlideNears ==
  ASSUME NEW x \in Int
  PROVE  /\ Choreo!Glide(x) \in Int
         /\ Choreo!Near(Choreo!Glide(x)) < Choreo!Near(x) \/ Choreo!Glide(x) = 0
<1>1. CASE x \in -9..9
  BY <1>1 DEF Choreo!Glide
<1>2. CASE x > 9
  <2>1. PICK q \in Int : q = x \div 5 /\ 5 * q <= x /\ x < 5 * q + 5
    OBVIOUS
  <2>2. Choreo!Glide(x) = x - q /\ q >= 1 /\ x - q > 0
    BY <1>2, <2>1 DEF Choreo!Glide, Choreo!Whole
  <2> QED BY <1>2, <2>1, <2>2 DEF Choreo!Near
<1>3. CASE x < -9
  <2>1. PICK q \in Int : q = (-x) \div 5 /\ 5 * q <= -x /\ -x < 5 * q + 5
    OBVIOUS
  <2>2. Choreo!Glide(x) = x + q /\ q >= 1 /\ x + q < 0
    BY <1>3, <2>1 DEF Choreo!Glide, Choreo!Whole
  <2> QED BY <1>3, <2>1, <2>2 DEF Choreo!Near
<1> QED BY <1>1, <1>2, <1>3

LEMMA RestsStep == ASSUME ChoreoInv, Choreo!StepIdle PROVE ChoreoInv'
<1>1. yaw' \in Int
  BY GlideNears DEF Choreo!StepIdle, ChoreoInv
<1>2. LegsCarry({})
  BY DEF LegsCarry
<1>3. LegsCarry(lifted') /\ motion' = "IDLE"
  BY <1>2 DEF Choreo!StepIdle, ChoreoInv
<1>4. OverStance(lifted', motion', clock', stance')
  BY <1>3 DEF OverStance
<1>5. apart' = 249 /\ UNCHANGED <<motion, gait, clock, knobs, waveLeg>>
  BY DEF Choreo!StepIdle, Choreo!NaturalSep
<1> QED BY <1>1, <1>3, <1>4, <1>5 DEF ChoreoInv

(* A tripod gait: while one tripod is up the other is down.                *)
LEMMA TripodsAlternate ==
  ASSUME NEW g \in 0..(Cycle - 1), NEW phase,
         phase = [leg \in Choreo!Leg |-> (g + (IF leg \in Choreo!TripodA THEN 0 ELSE Cycle \div 2)) % Cycle]
  PROVE  LegsCarry({leg \in Choreo!Leg : 0 < phase[leg] /\ phase[leg] < Cycle \div 2})
<1>1. PICK c \in Nat \ {0} : c = Cycle /\ c % 12 = 0
  BY CycleOfTheGait
<1>2. PICK h \in Nat : h = c \div 2 /\ c = 2 * h
  BY <1>1
<1>3. g % c = g
  BY <1>1
<1>4. (g + h) % c = IF g < h THEN g + h ELSE g - h
  <2>1. CASE g < h
    BY <1>1, <1>2, <2>1
  <2>2. CASE g >= h
    <3>1. PICK r \in 0..(c - 1) : r = g - h
      BY <1>1, <1>2, <2>2
    <3>2. (r + c) % c = r
      BY <1>1
    <3>3. g + h = r + c
      BY <1>2, <3>1
    <3> QED BY <2>2, <3>1, <3>2, <3>3
  <2> QED BY <2>1, <2>2
<1>5. ASSUME NEW leg \in Choreo!TripodA PROVE leg \in Choreo!Leg /\ (0 < phase[leg] /\ phase[leg] < h <=> 0 < g /\ g < h)
  BY <1>1, <1>3, <1>5 DEF Choreo!TripodA, Choreo!Leg
<1>6. ASSUME NEW leg \in Choreo!Leg \ Choreo!TripodA PROVE 0 < phase[leg] /\ phase[leg] < h <=> g > h
  <2>1. phase[leg] = (g + h) % c
    BY <1>1, <1>2, <1>6
  <2> QED BY <1>1, <1>2, <1>4, <2>1
<1>7. Choreo!Leg \ Choreo!TripodA = Choreo!TripodB
  BY DEF Choreo!Leg, Choreo!TripodA, Choreo!TripodB
<1>8. CASE 0 < g /\ g < h
  <2>1. {leg \in Choreo!Leg : 0 < phase[leg] /\ phase[leg] < h} = Choreo!TripodA
    BY <1>2, <1>5, <1>6, <1>8
  <2> QED BY <1>1, <1>2, <2>1 DEF LegsCarry
<1>9. CASE g > h
  <2>1. {leg \in Choreo!Leg : 0 < phase[leg] /\ phase[leg] < h} = Choreo!TripodB
    BY <1>2, <1>5, <1>6, <1>7, <1>9
  <2> QED BY <1>1, <1>2, <2>1 DEF LegsCarry
<1>10. CASE g = 0 \/ g = h
  <2>1. {leg \in Choreo!Leg : 0 < phase[leg] /\ phase[leg] < h} = {}
    BY <1>2, <1>5, <1>6, <1>10
  <2> QED BY <1>1, <1>2, <2>1 DEF LegsCarry
<1> QED BY <1>2, <1>8, <1>9, <1>10

LEMMA WalksStep == ASSUME ChoreoInv, Choreo!Walks PROVE ChoreoInv'
<1>1. PICK g \in 0..(Cycle - 1) : g = gait' /\ g = (gait + GaitSpeed) % Cycle
  BY NextPhase DEF Choreo!Walks, ChoreoInv
<1>2. PICK phase : phase = [leg \in Choreo!Leg |-> (g + (IF leg \in Choreo!TripodA THEN 0 ELSE Cycle \div 2)) % Cycle]
  OBVIOUS
<1>3. \A leg \in Choreo!Leg : Choreo!Shifted(leg) = phase[leg]
  BY <1>1, <1>2 DEF Choreo!Shifted
<1>4. lifted' = {leg \in Choreo!Leg : 0 < phase[leg] /\ phase[leg] < Cycle \div 2}
  BY <1>3 DEF Choreo!Walks
<1>5. LegsCarry(lifted')
  BY <1>2, <1>4, TripodsAlternate
<1>6. yaw' \in Int
  <2>1. PICK amp \in Int : amp = IF motion = "WALK" THEN 250 ELSE 200
    OBVIOUS
  <2>2. Watched \in Choreo!Leg
    BY ChoreoConstants DEF Choreo!ChoreographyAssumption, Choreo!Leg
  <2>3. phase[Watched] \in Int
    BY <1>1, <1>2, <2>2, CycleOfTheGait
  <2>4. PICK ph \in Int : ph = Choreo!Shifted(Watched)
    BY <1>3, <2>2, <2>3
  <2>5. PICK w \in Int : w = IF ph <= Cycle \div 2 THEN ph ELSE Cycle - ph
    <3>1. Cycle - ph \in Int
      BY CycleOfTheGait
    <3> QED BY <3>1, Zenon
  <2>6. PICK z \in Int : z = 4 * amp * w
    <3>1. amp * w \in Int
      OBVIOUS
    <3>2. 4 * amp * w \in Int
      OBVIOUS
    <3> QED BY <3>2
  <2>7. Choreo!Whole(z, Cycle) \in Int
    BY ChoreoWhole, CycleOfTheGait
  <2>8. yaw' = amp - Choreo!Whole(z, Cycle)
    <3>1. yaw' = Choreo!Stride(amp, ph)
      BY <2>1, <2>4 DEF Choreo!Walks
    <3>2. Choreo!Stride(amp, ph) = amp - Choreo!Whole(4 * amp * w, Cycle)
      BY <2>5, Zenon DEF Choreo!Stride
    <3> QED BY <2>6, <3>1, <3>2, Zenon
  <2> QED BY <2>7, <2>8
<1>7. OverStance(lifted', motion', clock', stance')
  BY DEF Choreo!Walks, OverStance
<1>8. apart' = 249 /\ UNCHANGED <<motion, clock, knobs, waveLeg>>
  BY DEF Choreo!Walks, Choreo!NaturalSep
<1> QED BY <1>1, <1>5, <1>6, <1>7, <1>8 DEF ChoreoInv

LEMMA CreepsStep == ASSUME ChoreoInv, Choreo!Creeps PROVE ChoreoInv'
<1>1. PICK c \in Nat \ {0} : c = Cycle /\ c % 12 = 0
  BY CycleOfTheGait
<1>2. PICK g \in 0..(c - 1) : g = gait' /\ g = (gait + GaitSpeed) % c
  BY <1>1, NextPhase DEF Choreo!Creeps, ChoreoInv
<1>3. PICK slice \in Nat \ {0} : slice = Cycle \div 6 /\ c = 6 * slice
  BY <1>1
<1>4. PICK q \in 0..5 : q = g \div slice
  <2>1. PICK q \in Int : q = g \div slice /\ slice * q <= g /\ g < slice * q + slice
    BY <1>2
  <2>2. q < 6
    <3>1. CASE q >= 6
      <4>1. slice * q >= slice * 6
        BY <3>1
      <4> QED BY <1>2, <1>3, <2>1, <4>1
    <3> QED BY <3>1
  <2>3. q >= 0
    BY <1>2, <2>1
  <2> QED BY <2>1, <2>2, <2>3
<1>5. PICK swings : swings = Choreo!CreepOrder[1 + q]
  OBVIOUS
<1>6. swings \in Choreo!Leg
  <2>1. \A i \in 1..6 : Choreo!CreepOrder[i] \in Choreo!Leg
    BY DEF Choreo!CreepOrder, Choreo!Leg
  <2> QED BY <1>5, <2>1
<1>7. PICK t \in Nat : t = g % slice
  BY <1>2
<1>8. swings = Choreo!CreepOrder[1 + gait' \div (Cycle \div 6)] /\ t = gait' % (Cycle \div 6)
  BY <1>2, <1>3, <1>4, <1>5, <1>7
<1>9. LegsCarry(lifted')
  <2>1. lifted' = IF t > 0 THEN {swings} ELSE {}
    BY <1>8, Zenon DEF Choreo!Creeps
  <2> QED BY <1>6, <2>1 DEF LegsCarry
<1>10. yaw' \in Int
  <2>1. PICK z \in Int : z = (2 * t - slice) * 150
    OBVIOUS
  <2>2. yaw' = IF swings = Watched THEN Choreo!Whole(z, slice) ELSE IF yaw \in -4..4 THEN 0 ELSE yaw - Choreo!Whole(yaw, 20)
    BY <1>3, <1>8, <2>1, Zenon DEF Choreo!Creeps
  <2>3. Choreo!Whole(z, slice) \in Int /\ Choreo!Whole(yaw, 20) \in Int
    <3>1. PICK twenty \in Nat \ {0} : twenty = 20
      OBVIOUS
    <3>2. PICK y \in Int : y = yaw
      BY DEF ChoreoInv
    <3>3. Choreo!Whole(z, slice) \in Int /\ Choreo!Whole(y, twenty) \in Int
      BY ChoreoWhole
    <3> QED BY <3>1, <3>2, <3>3
  <2> QED BY <2>2, <2>3 DEF ChoreoInv
<1>11. OverStance(lifted', motion', clock', stance')
  BY DEF Choreo!Creeps, OverStance
<1>12. apart' = 249 /\ UNCHANGED <<motion, clock, knobs, waveLeg>>
  BY DEF Choreo!Creeps, Choreo!NaturalSep
<1> QED BY <1>1, <1>2, <1>9, <1>10, <1>11, <1>12 DEF ChoreoInv

LEMMA SwaysStep == ASSUME ChoreoInv, Choreo!Sways PROVE ChoreoInv'
<1>1. gait' \in 0..(Cycle - 1)
  BY NextPhase DEF Choreo!Sways, ChoreoInv
<1>2. LegsCarry(lifted') /\ OverStance(lifted', motion', clock', stance')
  BY DEF Choreo!Sways, OverStance, LegsCarry
<1>3. apart' = 249 /\ yaw' = 0 /\ UNCHANGED <<motion, clock, knobs, waveLeg>>
  BY DEF Choreo!Sways, Choreo!NaturalSep
<1> QED BY <1>1, <1>2, <1>3 DEF ChoreoInv

(* The clock of a wave goes on until it is past the longest.               *)
LEMMA ClockGoesOn ==
  ASSUME ChoreoInv, NEW rate \in Nat \ {0}, Choreo!Clocked(rate)
  PROVE  clock' \in Nat /\ (clock' = clock => clock = Longest)
  BY CycleOfTheGait DEF Choreo!Clocked, Choreo!Least, ChoreoInv

LEMMA WavesOneStep == ASSUME ChoreoInv, Choreo!WavesOne PROVE ChoreoInv'
<1>1. clock' \in Nat
  BY Rates, ClockGoesOn DEF Choreo!WavesOne, ChoreoInv
<1>2. LegsCarry(lifted')
  <2>1. lifted' \in {{}, {6}}
    BY DEF Choreo!WavesOne, ChoreoInv
  <2>2. 6 \in Choreo!Leg
    BY DEF Choreo!Leg
  <2> QED BY <2>1, <2>2 DEF LegsCarry
<1>3. OverStance(lifted', motion', clock', stance')
  BY DEF Choreo!WavesOne, OverStance
<1>4. apart' = 249 /\ yaw' = 0 /\ UNCHANGED <<motion, gait, knobs, waveLeg>>
  BY DEF Choreo!WavesOne, Choreo!NaturalSep
<1> QED BY <1>1, <1>2, <1>3, <1>4 DEF ChoreoInv

LEMMA WavesBothStep == ASSUME ChoreoInv, Choreo!WavesBoth PROVE ChoreoInv'
<1>1. clock' \in Nat
  BY Rates, ClockGoesOn DEF Choreo!WavesBoth, ChoreoInv
<1>2. PICK c \in Nat : c = clock'
  BY <1>1
<1>3. lifted' = {leg \in Choreo!Arms : Choreo!Interp(Choreo!WaveKeys(knobs), c - Choreo!Lead - (IF leg = 6 THEN Choreo!Offset(knobs) ELSE 0)) > 0}
  BY <1>2 DEF Choreo!WavesBoth
<1>4. LegsCarry(lifted')
  <2>1. lifted' \in {{}, {3}, {6}, {3, 6}}
    BY <1>3 DEF Choreo!Arms
  <2> QED BY <2>1 DEF LegsCarry, Choreo!Arms, Choreo!Leg
<1>5. OverStance(lifted', motion', clock', stance')
  <2> SUFFICES ASSUME NEW leg \in lifted' PROVE stance' = Level
    BY DEF OverStance
  <2>1. Choreo!Interp(Choreo!WaveKeys(knobs), c - Choreo!Lead - (IF leg = 6 THEN Choreo!Offset(knobs) ELSE 0)) > 0
    BY <1>3
  <2>2. Choreo!Envelope(c, Choreo!WaveDuration(knobs) + Choreo!Lead + Choreo!Offset(knobs)) = Level
    BY <2>1, ArmsOverStance DEF ChoreoInv
  <2> QED BY <1>2, <2>2 DEF Choreo!WavesBoth
<1>6. apart' = 249 /\ yaw' = 0 /\ UNCHANGED <<motion, gait, knobs, waveLeg>>
  BY DEF Choreo!WavesBoth, Choreo!NaturalSep
<1> QED BY <1>1, <1>4, <1>5, <1>6 DEF ChoreoInv

LEMMA ClapsStep == ASSUME ChoreoInv, Choreo!Claps PROVE ChoreoInv'
<1>1. clock' \in Nat
  BY Rates, ClockGoesOn DEF Choreo!Claps, ChoreoInv
<1>2. PICK c \in Nat : c = clock'
  BY <1>1
<1>3. PICK lift \in 0..Level : lift = Choreo!ClapLift(knobs, c) /\ (lift > 0 => c > 105 /\ c <= Choreo!LowerEnd(knobs))
  BY LiftKeys DEF ChoreoInv
<1>4. PICK height \in Nat \ {0} : height = Choreo!Most(Choreo!HeightFloor, knobs.height)
  <2>1. knobs.height \in Int
    BY KnobTypes DEF ChoreoInv
  <2> QED BY <2>1 DEF Choreo!Most, Choreo!HeightFloor
<1>5. lifted' = IF lift * height > 0 THEN Choreo!Arms ELSE {}
  BY <1>2, <1>3, <1>4 DEF Choreo!Claps
<1>6. LegsCarry(lifted')
  BY <1>5 DEF LegsCarry
<1>7. OverStance(lifted', motion', clock', stance')
  <2> SUFFICES ASSUME lifted' # {} PROVE stance' = Level
    BY DEF OverStance
  <2>1. lift > 0
    <3>1. CASE lift = 0
      <4>1. lift * height = 0
        BY <3>1
      <4> QED BY <1>5, <4>1
    <3> QED BY <3>1, CycleOfTheGait
  <2>2. PICK full \in Int : full = Choreo!LowerEnd(knobs)
    BY Timeline DEF ChoreoInv
  <2>3. Choreo!Envelope(c, full) = Level
    BY <1>3, <2>1, <2>2, FullStance
  <2> QED BY <1>2, <2>2, <2>3 DEF Choreo!Claps
<1>8. apart' \in Int /\ apart' >= 20
  <2>1. apart' = Choreo!ClapApart(knobs, c)
    BY <1>2 DEF Choreo!Claps
  <2>2. knobs \in Knobs
    BY DEF ChoreoInv
  <2>3. Choreo!ClapApart(knobs, c) \in Int /\ Choreo!ClapApart(knobs, c) >= 20
    BY <2>2, HandsApart
  <2> QED BY <2>1, <2>3
<1>9. yaw' = 0 /\ UNCHANGED <<motion, gait, knobs, waveLeg>>
  BY DEF Choreo!Claps
<1> QED BY <1>1, <1>6, <1>7, <1>8, <1>9 DEF ChoreoInv

LEMMA ChoreoStep == ASSUME ChoreoInv, Choreo!Next PROVE ChoreoInv'
<1>1. ASSUME NEW m \in Choreo!Motions, Choreo!SetMotion(m) PROVE ChoreoInv'
  <2>1. gait' \in 0..(Cycle - 1)
    BY <1>1, CycleOfTheGait DEF Choreo!SetMotion, ChoreoInv
  <2>2. OverStance(lifted', motion', clock', stance')
    BY <1>1 DEF Choreo!SetMotion, OverStance
  <2>3. LegsCarry(lifted')
    BY <1>1 DEF Choreo!SetMotion, ChoreoInv
  <2> QED BY <1>1, <2>1, <2>2, <2>3 DEF Choreo!SetMotion, ChoreoInv
<1>2. ASSUME NEW k \in Knobs, Choreo!SetKnobs(k) PROVE ChoreoInv'
  BY <1>2 DEF Choreo!SetKnobs, ChoreoInv
<1> QED BY <1>1, <1>2, RestsStep, WalksStep, CreepsStep, SwaysStep, WavesOneStep, WavesBothStep, ClapsStep
        DEF Choreo!Next, Choreo!Step

LEMMA ChoreoStutters == ASSUME ChoreoInv, UNCHANGED <<shared, choreoOnly>> PROVE ChoreoInv'
  BY DEF ChoreoInv, shared, choreoOnly

LEMMA ChoreoCarries == ASSUME ChoreoInv PROVE Choreo!BodyIsCarried /\ Choreo!HandsKeepApart
  BY DEF ChoreoInv, LegsCarry, OverStance, Choreo!BodyIsCarried, Choreo!HandsKeepApart, Choreo!GapFloor

LEMMA ChoreoMovesOn == ASSUME ChoreoInv, Choreo!Next PROVE Choreo!LegsComeToRest /\ Choreo!GesturesMoveOn
<1>1. CASE Choreo!Step
  <2>1. ASSUME motion = "IDLE" PROVE Choreo!Near(yaw') < Choreo!Near(yaw) \/ yaw' = 0
    <3>1. Choreo!StepIdle
      BY <1>1, <2>1 DEF Choreo!Step, Choreo!Walks, Choreo!Creeps, Choreo!Sways, Choreo!WavesOne, Choreo!WavesBoth,
                        Choreo!Claps, Choreo!Planted
    <3> QED BY <3>1, GlideNears DEF Choreo!StepIdle, ChoreoInv
  <2>2. ASSUME motion \in Choreo!Waves, clock' = clock PROVE clock = Longest
    <3>1. PICK k \in Knobs : k = knobs
      BY DEF ChoreoInv
    <3>2. PICK rate \in Nat \ {0} : Choreo!Clocked(rate)
      <4>1. Choreo!WavesOne \/ Choreo!WavesBoth \/ Choreo!Claps
        BY <1>1, <2>2 DEF Choreo!Step, Choreo!StepIdle, Choreo!Walks, Choreo!Creeps, Choreo!Sways, Choreo!Planted, Choreo!Waves
      <4> QED BY <3>1, <4>1, Rates DEF Choreo!WavesOne, Choreo!WavesBoth, Choreo!Claps
    <3> QED BY <2>2, <3>2, ClockGoesOn
  <2>3. stalled' => clock' = clock
    BY <1>1 DEF Choreo!Step
  <2> QED BY <2>1, <2>2, <2>3 DEF Choreo!LegsComeToRest, Choreo!GesturesMoveOn
<1>2. ASSUME ~stalled', yaw' = yaw PROVE Choreo!LegsComeToRest /\ Choreo!GesturesMoveOn
  BY <1>2 DEF Choreo!LegsComeToRest, Choreo!GesturesMoveOn
<1>3. ASSUME NEW m, Choreo!SetMotion(m) PROVE ~stalled' /\ yaw' = yaw
  BY <1>3 DEF Choreo!SetMotion
<1>4. ASSUME NEW k, Choreo!SetKnobs(k) PROVE ~stalled' /\ yaw' = yaw
  BY <1>4 DEF Choreo!SetKnobs
<1> QED BY <1>1, <1>2, <1>3, <1>4 DEF Choreo!Next

------------------------------------------------------------------------------
(* All of them                                                             *)

PartsKept ==
  /\ part = "engine" => EngineInv /\ (SeedsInBand => InBand(neck))
  /\ part = "choreography" => ChoreoInv
  /\ part = "recorder" => RecorderInv
  /\ part = "files" => FilesInv
  /\ part = "shutdown" => StopInv
  /\ part = "mcp" => McpInv
  /\ part = "teleop" => TeleInv
  /\ part = "realtime" => BooksInv /\ (FaceMayFail = FALSE => RunsInv)
  /\ part = "pipeline" /\ FaceMayFail = FALSE => PipelineInv

LEMMA PartsStart == Init => PartsKept
  BY EngineStart, ChoreoStart, RecorderStart, FilesStart, StopStart, McpStart, TeleStart, BooksStart, PipelineStart DEF Init, PartsKept

LEMMA PartsNext == ASSUME PartsKept, Next PROVE PartsKept'
<1>1. ASSUME part = "choreography", Choreo!Next, part' = part PROVE PartsKept'
  BY <1>1, ChoreoStep DEF PartsKept
<1>9. ASSUME part = "engine", Engine!Next, part' = part PROVE PartsKept'
  <2>1. EngineInv' /\ (SeedsInBand => InBand(neck)')
    BY <1>9, EngineStep DEF PartsKept
  <2> QED BY <1>9, <2>1 DEF PartsKept, SeedsInBand
<1>2. ASSUME part = "recorder", Recorder!Next, part' = part PROVE PartsKept'
  BY <1>2, RecorderStep DEF PartsKept
<1>3. ASSUME part = "files", Files!Next, part' = part PROVE PartsKept'
  BY <1>3, FilesStep DEF PartsKept
<1>4. ASSUME part = "shutdown", Stop!Next, part' = part PROVE PartsKept'
  BY <1>4, StopStep DEF PartsKept
<1>5. ASSUME part = "mcp", Mcp!Next, part' = part PROVE PartsKept'
  BY <1>5, McpStep DEF PartsKept
<1>6. ASSUME part = "teleop", Tele!Next, part' = part PROVE PartsKept'
  BY <1>6, TeleStep DEF PartsKept
<1>7. ASSUME part = "realtime", Realtime!Next, part' = part PROVE PartsKept'
  <2>1. BooksInv /\ BooksInv'
    BY <1>7, BooksStep DEF PartsKept
  <2>2. FaceMayFail = FALSE => RunsInv'
    BY <1>7, <2>1, SessionStep DEF PartsKept
  <2> QED BY <1>7, <2>1, <2>2 DEF PartsKept
<1>8. ASSUME part = "pipeline", Pipeline!Next, part' = part PROVE PartsKept'
  BY <1>8, PipelineStep DEF PartsKept
<1> QED BY <1>1, <1>2, <1>3, <1>4, <1>5, <1>6, <1>7, <1>8, <1>9 DEF Next

LEMMA PartsStutter == ASSUME PartsKept, UNCHANGED vars PROVE PartsKept'
<1>1. part' = part /\ UNCHANGED <<shared, tools, engineOnly, choreoOnly, recorderOnly, filesOnly, stopOnly, mcpOnly, teleOnly, realtimeOnly, pipelineOnly>>
  BY DEF vars
<1>2. part = "engine" => EngineInv' /\ (SeedsInBand => InBand(neck)')
  BY <1>1, EngineStutters DEF PartsKept
<1> QED BY <1>1, <1>2, ChoreoStutters, RecorderStutters, FilesStutters, StopStutters, McpStutters, TeleStutters, RealtimeStutters,
           PipelineStutters DEF PartsKept, SeedsInBand

LEMMA PartsAlways == Spec => []PartsKept
<1>1. PartsKept /\ [Next]_vars => PartsKept'
  BY PartsStutter, PartsNext
<1> QED BY PartsStart, <1>1, PTL DEF Spec

(* Under the lock every frame takes each joint nearer to center, the lock  *)
(* lifts without a jump, and a posture ends centered and gives look() its  *)
(* targets back: for any motions, strokes, tracks and shares of the        *)
(* joints.                                                                 *)
THEOREM LockAlwaysComesHome ==
  Spec => [][(part = "engine") =>
               /\ Engine!LockedNeckComesHome /\ Engine!LockLiftsSoftly
               /\ Engine!PostureEndsCentered /\ Engine!LookSurvivesTheEnd]_vars
<1>1. ASSUME PartsKept, Next, part = "engine"
      PROVE  /\ Engine!LockedNeckComesHome /\ Engine!LockLiftsSoftly
             /\ Engine!PostureEndsCentered /\ Engine!LookSurvivesTheEnd
  <2>1. Engine!Next /\ EngineInv
    BY <1>1 DEF Next, PartsKept
  <2> QED BY <2>1, LockComesHome, LockLifts, PostureEnds, LookSurvives
<1> QED BY <1>1, PartsAlways, PTL DEF Spec

(* The same with the amplitude: where both pitch joints step alike, as     *)
(* they do by the default share, no choreography takes the head past it.   *)
THEOREM LockedNeckAlwaysComesHome == ASSUME 2 * Share = Shares PROVE Spec => LockedNeckComesHome
<1>1. ASSUME PartsKept, Next, part = "engine"
      PROVE  /\ Engine!LockedNeckComesHome /\ Engine!LockLiftsSoftly /\ Engine!ChoreographyStaysInside
             /\ Engine!PostureEndsCentered /\ Engine!LookSurvivesTheEnd
  <2>1. Engine!Next /\ EngineInv
    BY <1>1 DEF Next, PartsKept
  <2> QED BY <2>1, LockComesHome, LockLifts, ChoreographyInside, PostureEnds, LookSurvives
<1> QED BY <1>1, PartsAlways, PTL DEF Spec, LockedNeckComesHome

(* The body is carried, the hands keep their distance and the neck its     *)
(* band, for all cycles, gait speeds, knobs, strokes, trims and shares,    *)
(* where the poses tracks and other controllers leave the neck in are in   *)
(* its band: frames clamp what they compute, not what they are given.      *)
THEOREM BodyIsAlwaysCarried == ASSUME SeedsInBand PROVE Spec => []BodyIsCarried
<1>1. PartsKept => BodyIsCarried
  BY ChoreoCarries DEF PartsKept, BodyIsCarried, InBand, Engine!NeckInBand
<1> QED BY <1>1, PartsAlways, PTL

(* Every frame takes a gesture nearer to its end and resting legs nearer   *)
(* to neutral, for any knobs, turned at any time.                          *)
THEOREM GesturesAlwaysMoveOn == Spec => GesturesMoveOn
<1>1. ASSUME PartsKept, Next, part = "choreography" PROVE Choreo!LegsComeToRest /\ Choreo!GesturesMoveOn
  <2>1. Choreo!Next
    BY <1>1 DEF Next
  <2> QED BY <1>1, <2>1, ChoreoMovesOn DEF PartsKept
<1> QED BY <1>1, PartsAlways, PTL DEF Spec, GesturesMoveOn

(* Incidents are known until their servo recovers, windows close on errors *)
(* that keep coming, and published files are whole and keep their owner:   *)
(* for all servos, error bits, intervals, graces and flushes.              *)
THEOREM IncidentsAreAlwaysKept == Spec => []IncidentsAreKept
<1>1. PartsKept => IncidentsAreKept
  BY RecorderEnds DEF PartsKept, IncidentsAreKept, FilesInv
<1> QED BY <1>1, PartsAlways, PTL

(* Every window holds the servos that latched anew, and no others: for any *)
(* reads, gaps between steps, reconnects and windows.                      *)
THEOREM OneFileForALatch == Spec => WindowsTakeNewLatches
<1>1. PartsKept /\ [Next]_vars => [(part = "recorder") => Recorder!WindowsTakeNewLatches]_vars
  <2> SUFFICES ASSUME PartsKept, Next, part = "recorder" PROVE Recorder!WindowsTakeNewLatches
    OBVIOUS
  <2>1. Recorder!Next
    BY DEF Next
  <2> QED BY <2>1, RecorderTakes DEF PartsKept
<1> QED BY <1>1, PartsAlways, PTL DEF Spec, WindowsTakeNewLatches

(* A stop ends released, for any number of signals at any time, and a      *)
(* teleoperated robot moves for a pilot who is there, has one driver and a *)
(* slot that is freed, for any set of browsers and any frames they send.   *)
THEOREM RobotEndsWithItsPilot == Spec => []EndsWithItsPilot
<1>1. PartsKept => EndsWithItsPilot
  BY StopEnds, TeleEnds DEF PartsKept, EndsWithItsPilot
<1> QED BY <1>1, PartsAlways, PTL

(* No function call has two answers, and each of a plan that runs to its   *)
(* end has one; of a plan that an exception ends - a send that raises,     *)
(* arguments that are no object - the calls before the failing one.  Every *)
(* MCP request is answered once.  All for any number of responses, calls   *)
(* and barge-ins.  And the mirror follows the robot, where the face does   *)
(* not fail: one that fails during a sleep leaves the robot limp and the   *)
(* call in error.                                                          *)
THEOREM CallsAreAnsweredOnce == ASSUME FaceMayFail = FALSE PROVE Spec => []EveryCallIsAnsweredOnce
<1>1. PartsKept => EveryCallIsAnsweredOnce
  BY RealtimeEnds DEF PartsKept, EveryCallIsAnsweredOnce, McpInv
<1> QED BY <1>1, PartsAlways, PTL

(* The answers by themselves, whatever the face display does: never two,   *)
(* and one each unless an exception ends the plan.                         *)
THEOREM AnswersAreGivenOnce == Spec => [](part = "realtime" => Realtime!EveryCallIsAnsweredOnce)
<1>1. PartsKept => (part = "realtime" => Realtime!EveryCallIsAnsweredOnce)
  BY RealtimeEnds DEF PartsKept
<1> QED BY <1>1, PartsAlways, PTL

(* No idle tick's tool starts on a robot put to sleep and every cancel has *)
(* its input, for any inputs, plans, reflexes and queue bounds, where the  *)
(* face display does not fail.                                             *)
THEOREM SleepersAreLeftAlone == ASSUME FaceMayFail = FALSE PROVE Spec => []IdleLeavesSleepersAlone
<1>1. PartsKept => IdleLeavesSleepersAlone
  BY PipelineEnds DEF PartsKept, IdleLeavesSleepersAlone
<1> QED BY <1>1, PartsAlways, PTL
==============================================================================
