----------------------------- MODULE IncidentFiles -----------------------------
(***************************************************************************)
(* ServoFlightRecorder.flush: several flushes, of several processes that   *)
(* share the incident directory, write incidents of the same second: each  *)
(* takes the first free index of a common stem.  A process may die at any  *)
(* point; the directory outlives it.                                       *)
(***************************************************************************)
EXTENDS Naturals

CONSTANTS Flush, Last, None

FilesAssumption ==
  Last \in Nat /\ None \notin [owner : Flush, whole : BOOLEAN] /\ None \notin {"published", "kept"}

Index == 0..Last

VARIABLES
  pc,        (* where each flush is; "done" and "failed" end it            *)
  index,
  published, (* [owner, whole] of each published name, None when absent    *)
  temporary, (* the same of the .tmp names                                 *)
  remembered (* the file each flush returns: "published", "kept" or None   *)

filesVars == <<pc, index, published, temporary, remembered>>

Init ==
  /\ pc = [f \in Flush |-> "look"] /\ index = [f \in Flush |-> 0]
  /\ published = [i \in Index |-> None] /\ temporary = [i \in Index |-> None]
  /\ remembered = [f \in Flush |-> None]

At(f, from, to) == pc[f] = from /\ pc' = [pc EXCEPT ![f] = to]
NextIndex(f) == index[f] < Last /\ index' = [index EXCEPT ![f] = @ + 1]
Mine(f) == temporary[index[f]]

-----------------------------------------------------------------------------
LookTaken(f) ==
  /\ At(f, "look", "look") /\ published[index[f]] # None /\ NextIndex(f)
  /\ UNCHANGED <<published, temporary, remembered>>

LookFree(f) ==
  /\ At(f, "look", "open") /\ published[index[f]] = None
  /\ UNCHANGED <<index, published, temporary, remembered>>

(* candidate.open("x")                                                     *)
OpenTaken(f) ==
  /\ At(f, "open", "look") /\ Mine(f) # None /\ NextIndex(f)
  /\ UNCHANGED <<published, temporary, remembered>>

(* Mutant: the name is not reserved. *)
Open_NotExclusive(f) ==
  /\ At(f, "open", "recheck")
  /\ temporary' = [temporary EXCEPT ![index[f]] = [owner |-> f, whole |-> FALSE]]
  /\ UNCHANGED <<index, published, remembered>>

(* Mutant: the name that was free a moment ago is not looked at again. *)
Open_Trusts(f) ==
  /\ At(f, "open", "write") /\ Mine(f) = None
  /\ temporary' = [temporary EXCEPT ![index[f]] = [owner |-> f, whole |-> FALSE]]
  /\ UNCHANGED <<index, published, remembered>>

Open(f) ==
  /\ At(f, "open", "recheck") /\ Mine(f) = None
  /\ temporary' = [temporary EXCEPT ![index[f]] = [owner |-> f, whole |-> FALSE]]
  /\ UNCHANGED <<index, published, remembered>>

Collides(f) ==
  /\ At(f, "recheck", "look") /\ published[index[f]] # None /\ NextIndex(f)
  /\ temporary' = [temporary EXCEPT ![index[f]] = None]
  /\ UNCHANGED <<published, remembered>>

Reserves(f) ==
  /\ At(f, "recheck", "write") /\ published[index[f]] = None
  /\ UNCHANGED <<index, published, temporary, remembered>>

(* Header, rows, flush and fsync; then one rename.                         *)
Write(f) ==
  /\ At(f, "write", "replace") /\ Mine(f) # None
  /\ temporary' = [temporary EXCEPT ![index[f]] = [@ EXCEPT !.whole = TRUE]]
  /\ UNCHANGED <<index, published, remembered>>

WriteFails(f) ==
  /\ At(f, "write", "failed")
  /\ temporary' \in {[temporary EXCEPT ![index[f]] = None], temporary}   (* the unlink may fail too *)
  /\ UNCHANGED <<index, published, remembered>>

Replace(f) ==
  /\ At(f, "replace", "done")
  /\ published' = [published EXCEPT ![index[f]] = Mine(f)]
  /\ temporary' = [temporary EXCEPT ![index[f]] = None]
  /\ remembered' = [remembered EXCEPT ![f] = "published"]
  /\ UNCHANGED index

ReplaceFails(f) ==
  /\ At(f, "replace", "done") /\ remembered' = [remembered EXCEPT ![f] = "kept"]
  /\ UNCHANGED <<index, published, temporary>>

(* The process is killed, or the power goes.                               *)
Dies(f) ==
  /\ pc[f] \notin {"done", "failed"} /\ pc' = [pc EXCEPT ![f] = "failed"]
  /\ UNCHANGED <<index, published, temporary, remembered>>

Next == \E f \in Flush :
  \/ LookTaken(f) \/ LookFree(f) \/ OpenTaken(f) \/ Open(f) \/ Collides(f) \/ Reserves(f)
  \/ Write(f) \/ WriteFails(f) \/ Replace(f) \/ ReplaceFails(f) \/ Dies(f)

Spec == Init /\ [][Next]_filesVars

-----------------------------------------------------------------------------
(* "A reader of the published name sees an absent file or a complete JSONL *)
(* file", whoever dies where; and "exclusive creation also reserves names  *)
(* against concurrent flushes": an incident that was written is the one at *)
(* the path its flush returned, for good.                                  *)
NoneIsOverwritten ==
  /\ \A i \in Index : published[i] # None => published[i].whole
  /\ \A f \in Flush :
       LET file == IF remembered[f] = "published" THEN published[index[f]] ELSE temporary[index[f]]
       IN  remembered[f] # None => file # None /\ file.owner = f /\ file.whole
=============================================================================
