---------------------------- MODULE Reservation ----------------------------
(***************************************************************************)
(* palmimo_sdk/reservation.py: advisory, machine-wide reservations of the  *)
(* robot's logical hardware resources.  Several processes share one        *)
(* directory of lock files; a process locks a file with flock and counts   *)
(* the references its own threads take.                                    *)
(*                                                                         *)
(* The shared file system (dir, path, shared, meta) and the kernel's lock  *)
(* table (flock) are one part of the state; the module globals of each     *)
(* process (_MUTEX, _HELD) another; the local state of each call a third.  *)
(* One action is one step that other threads or processes can observe:     *)
(* code that runs under _MUTEX is cut where the file system or the lock    *)
(* table is read or written, since other processes do not take _MUTEX.     *)
(***************************************************************************)
EXTENDS Naturals, FiniteSets

CONSTANTS
  Thread,    (* the threads of all processes                               *)
  Proc,      (* the processes                                              *)
  Home,      (* Home[t] is the process of thread t                         *)
  Resource,  (* the resources, each named by its rank in lexical order     *)
  Inode,     (* the inodes lock files are made of                          *)
  None       (* no thread, no process, no inode                            *)

ASSUME ThreadAssumption == IsFiniteSet(Thread) /\ Home \in [Thread -> Proc]
ASSUME NoneAssumption == None \notin Thread \cup Proc \cup Inode

(* The resources are finitely many names in a total order. *)
ASSUME ResourceAssumption ==
  /\ Resource \subseteq Nat
  /\ \A S \in SUBSET Resource : S # {} =>
       /\ \E r \in S : \A s \in S : r <= s
       /\ \E r \in S : \A s \in S : s <= r

VARIABLES
  dir,       (* the lock directory exists (it is published with mode 1777) *)
  path,      (* path[r]: the inode the lock file of r names, or None       *)
  shared,    (* the inodes whose mode has been made 0666                   *)
  meta,      (* meta[i]: live process the holder metadata names, or None   *)
  flock,     (* flock[i]: the process whose descriptor locks i, or None    *)
  mutex,     (* mutex[p]: the thread inside _MUTEX, or None                *)
  held,      (* held[p][r]: the entry of _HELD; references 0 is no entry   *)
  pc,        (* pc[t]: where thread t is in reserve / acquire_resource     *)
  want,      (* want[t]: resources its call has still to acquire           *)
  handle,    (* handle[t][r]: its Reservation object for r                 *)
  fd,        (* fd[t]: inode of the descriptor its acquisition has open    *)
  waits,     (* waits[t]: the deadline of its call has not passed          *)
  blamed     (* blamed[t]: holder named by its last ResourceBusyError      *)

fileVars == <<dir, path, shared, meta>>
callVars == <<pc, want, handle, fd, waits, blamed>>
vars == <<fileVars, flock, mutex, held, callVars>>

(* Program points.  "lock" is the top of the while loop of                *)
(* acquire_resource, "body" the with-block of reserve (or the life of the  *)
(* device that owns the reservation), "release" its finally clause.        *)
Unlocked == {"idle", "mkdir", "lock", "retry", "body", "release"}
InMutex  == {"mkstemp", "chmod", "link", "reopen", "flock", "inspect", "meta"}
Acquiring == InMutex \cup {"mkdir", "lock", "retry"}

(* A _HELD entry that is absent. *)
NotHeld == [fd |-> None, references |-> 0]

Live(t) == {r \in Resource : handle[t][r] = "live"}

(* sorted(set(resources)): the next resource reserve acquires, and the     *)
(* next one its finally clause releases (reversed).                        *)
Least(S)    == CHOOSE r \in S : \A s \in S : r <= s
Greatest(S) == CHOOSE r \in S : \A s \in S : s <= r
(* Mutant: the resources are acquired in the order the caller lists them,  *)
(* which differs from process to process.                                  *)
Target_CallOrder(t) ==
  IF Home[t] = Home[CHOOSE u \in Thread : TRUE] THEN Least(want[t]) ELSE Greatest(want[t])

Target(t)   == Least(want[t])

(* An inode no name and no descriptor refers to, for mkstemp. *)
Unused(i) ==
  /\ \A r \in Resource : path[r] # i
  /\ \A t \in Thread : fd[t] # i
  /\ \A p \in Proc, r \in Resource : held[p][r].fd # i

Init ==
  /\ dir = FALSE
  /\ path = [r \in Resource |-> None]
  /\ shared = {}
  /\ meta = [i \in Inode |-> None]
  /\ flock = [i \in Inode |-> None]
  /\ mutex = [p \in Proc |-> None]
  /\ held = [p \in Proc |-> [r \in Resource |-> NotHeld]]
  /\ pc = [t \in Thread |-> "idle"]
  /\ want = [t \in Thread |-> {}]
  /\ handle = [t \in Thread |-> [r \in Resource |-> "none"]]
  /\ fd = [t \in Thread |-> None]
  /\ waits = [t \in Thread |-> FALSE]
  /\ blamed = [t \in Thread |-> None]

----------------------------------------------------------------------------
(* Starting a call *)

(* reserve( *resources, timeout ): a non-empty set of known resources, with  *)
(* a timeout (w) or without.  acquire_resource called by a device backend  *)
(* is the same call on one resource.  _lock_directory runs before the      *)
(* loop; a directory that exists takes it straight to the loop.            *)
Call(t, R, w) ==
  /\ pc[t] = "idle"
  /\ pc' = [pc EXCEPT ![t] = IF dir THEN "lock" ELSE "mkdir"]
  /\ want' = [want EXCEPT ![t] = R]
  /\ waits' = [waits EXCEPT ![t] = w]
  /\ blamed' = [blamed EXCEPT ![t] = None]
  /\ handle' = [handle EXCEPT ![t] = [r \in Resource |-> "none"]]
  /\ UNCHANGED <<fileVars, flock, mutex, held, fd>>

(* _lock_directory found no directory: it renames a temporary one, already *)
(* of mode 1777, to the name.  rename(2) replaces an EMPTY directory that  *)
(* a peer published meanwhile, and fails with ENOTEMPTY, tolerated, on one *)
(* that holds a lock file: no lock file is ever lost.                      *)
PublishDirectory(t) ==
  /\ pc[t] = "mkdir"
  /\ dir' = TRUE
  /\ pc' = [pc EXCEPT ![t] = "lock"]
  /\ UNCHANGED <<path, shared, meta, flock, mutex, held, want, handle, fd, waits, blamed>>

(* The deadline of a call passes. *)
Expire(t) ==
  /\ waits[t]
  /\ waits' = [waits EXCEPT ![t] = FALSE]
  /\ UNCHANGED <<fileVars, flock, mutex, held, pc, want, handle, fd, blamed>>

----------------------------------------------------------------------------
(* One round of the loop of acquire_resource, inside _MUTEX *)

(* The reservation of r is in hand: the next resource, or the body. *)
Acquired(t, r) ==
  /\ handle' = [handle EXCEPT ![t][r] = "live"]
  /\ want' = [want EXCEPT ![t] = @ \ {r}]
  /\ pc' = [pc EXCEPT ![t] = IF want[t] = {r} THEN "body" ELSE "lock"]

(* "if path in _HELD": the process has the lock, one more reference. *)
Share(t) ==
  LET r == Target(t) IN
  /\ pc[t] = "lock"
  /\ mutex[Home[t]] = None
  /\ held[Home[t]][r].references > 0
  /\ held' = [held EXCEPT ![Home[t]][r] = [fd |-> @.fd, references |-> @.references + 1]]
  /\ Acquired(t, r)
  /\ UNCHANGED <<fileVars, flock, mutex, fd, waits, blamed>>

(* _open_lock, first attempt: open the file that exists; a peer can open   *)
(* it only once its mode is 0666.                                          *)
OpenExisting(t) ==
  LET r == Target(t) IN
  /\ pc[t] = "lock"
  /\ mutex[Home[t]] = None
  /\ held[Home[t]][r].references = 0
  /\ mutex' = [mutex EXCEPT ![Home[t]] = t]
  /\ fd' = [fd EXCEPT ![t] = path[r]]
  /\ pc' = [pc EXCEPT ![t] = IF path[r] = None THEN "mkstemp" ELSE "flock"]
  /\ UNCHANGED <<fileVars, flock, held, want, handle, waits, blamed>>

(* Mutant: the file is published with the mode the umask left it. *)
MakeTemp_NoChmod(t) ==
  /\ pc[t] = "mkstemp"
  /\ \E i \in Inode :
       /\ Unused(i)
       /\ fd' = [fd EXCEPT ![t] = i]
       /\ shared' = shared \ {i}
       /\ meta' = [meta EXCEPT ![i] = None]
  /\ pc' = [pc EXCEPT ![t] = "link"]
  /\ UNCHANGED <<dir, path, flock, mutex, held, want, handle, waits, blamed>>

(* mkstemp: a private file that only this thread names. *)
MakeTemp(t) ==
  /\ pc[t] = "mkstemp"
  /\ \E i \in Inode :
       /\ Unused(i)
       /\ fd' = [fd EXCEPT ![t] = i]
       /\ shared' = shared \ {i}
       /\ meta' = [meta EXCEPT ![i] = None]
  /\ pc' = [pc EXCEPT ![t] = "chmod"]
  /\ UNCHANGED <<dir, path, flock, mutex, held, want, handle, waits, blamed>>

ShareMode(t) ==
  /\ pc[t] = "chmod"
  /\ shared' = shared \cup {fd[t]}
  /\ pc' = [pc EXCEPT ![t] = "link"]
  /\ UNCHANGED <<dir, path, meta, flock, mutex, held, want, handle, fd, waits, blamed>>

(* Mutant: os.replace in place of os.link. *)
Link_Replaces(t) ==
  /\ pc[t] = "link"
  /\ path' = [path EXCEPT ![Target(t)] = fd[t]]
  /\ fd' = [fd EXCEPT ![t] = None]
  /\ pc' = [pc EXCEPT ![t] = "reopen"]
  /\ UNCHANGED <<dir, shared, meta, flock, mutex, held, want, handle, waits, blamed>>

(* os.link never replaces a name (FileExistsError, suppressed); then the   *)
(* temporary descriptor is closed and its name removed.                    *)
Link(t) ==
  LET r == Target(t) IN
  /\ pc[t] = "link"
  /\ path' = IF path[r] = None THEN [path EXCEPT ![r] = fd[t]] ELSE path
  /\ fd' = [fd EXCEPT ![t] = None]
  /\ pc' = [pc EXCEPT ![t] = "reopen"]
  /\ UNCHANGED <<dir, shared, meta, flock, mutex, held, want, handle, waits, blamed>>

(* _open_lock, second attempt: whichever file won the name. *)
Reopen(t) ==
  LET r == Target(t) IN
  /\ pc[t] = "reopen"
  /\ path[r] # None
  /\ fd' = [fd EXCEPT ![t] = path[r]]
  /\ pc' = [pc EXCEPT ![t] = "flock"]
  /\ UNCHANGED <<fileVars, flock, mutex, held, want, handle, waits, blamed>>

(* Mutant: LOCK_SH in place of LOCK_EX. *)
LockFile_NotExclusive(t) ==
  /\ pc[t] = "flock"
  /\ flock' = [flock EXCEPT ![fd[t]] = Home[t]]
  /\ pc' = [pc EXCEPT ![t] = "meta"]
  /\ UNCHANGED <<fileVars, mutex, held, want, handle, fd, waits, blamed>>

(* flock(LOCK_EX | LOCK_NB) succeeds. *)
LockFile(t) ==
  /\ pc[t] = "flock"
  /\ flock[fd[t]] = None
  /\ flock' = [flock EXCEPT ![fd[t]] = Home[t]]
  /\ pc' = [pc EXCEPT ![t] = "meta"]
  /\ UNCHANGED <<fileVars, mutex, held, want, handle, fd, waits, blamed>>

(* flock fails with EAGAIN: another descriptor holds the lock. *)
LockRefused(t) ==
  /\ pc[t] = "flock"
  /\ flock[fd[t]] # None
  /\ pc' = [pc EXCEPT ![t] = "inspect"]
  /\ UNCHANGED <<fileVars, flock, mutex, held, want, handle, fd, waits, blamed>>

(* _busy_error: the holder metadata is read after the refusal; a write in  *)
(* progress may leave it unreadable.  Then the finally clause closes the   *)
(* descriptor and _MUTEX is left.                                          *)
ReadHolder(t) ==
  /\ pc[t] = "inspect"
  /\ \E name \in {meta[fd[t]]} \cup
                 (IF \E u \in Thread : pc[u] = "meta" /\ fd[u] = fd[t] THEN {None} ELSE {}) :
       blamed' = [blamed EXCEPT ![t] = name]
  /\ fd' = [fd EXCEPT ![t] = None]
  /\ mutex' = [mutex EXCEPT ![Home[t]] = None]
  /\ pc' = [pc EXCEPT ![t] = "retry"]
  /\ UNCHANGED <<fileVars, flock, held, want, handle, waits>>

(* The metadata is written over the previous holder's and the descriptor   *)
(* becomes the entry of _HELD.                                             *)
EnterHeld(t) ==
  LET r == Target(t) IN
  /\ pc[t] = "meta"
  /\ meta' = [meta EXCEPT ![fd[t]] = Home[t]]
  /\ held' = [held EXCEPT ![Home[t]][r] = [fd |-> fd[t], references |-> 1]]
  /\ fd' = [fd EXCEPT ![t] = None]
  /\ mutex' = [mutex EXCEPT ![Home[t]] = None]
  /\ Acquired(t, r)
  /\ UNCHANGED <<dir, path, shared, flock, waits, blamed>>

----------------------------------------------------------------------------
(* Leaving a round without the resource *)

(* Mutant: the busy error leaves reserve without its finally clause. *)
GiveUp_NoRollback(t) ==
  /\ pc[t] = "retry" /\ ~waits[t]
  /\ pc' = [pc EXCEPT ![t] = "idle"]
  /\ UNCHANGED <<fileVars, flock, mutex, held, want, handle, fd, waits, blamed>>

(* The mutex-free end of a round: "timeout is None or remaining <= 0"      *)
(* raises the busy error, otherwise the thread sleeps and tries again.     *)
GiveUp(t) ==
  /\ pc[t] = "retry" /\ ~waits[t]
  /\ pc' = [pc EXCEPT ![t] = "release"]
  /\ UNCHANGED <<fileVars, flock, mutex, held, want, handle, fd, waits, blamed>>

(* Mutant: the deadline is not looked at before another round. *)
Retry_Forever(t) ==
  /\ pc[t] = "retry"
  /\ pc' = [pc EXCEPT ![t] = "lock"]
  /\ UNCHANGED <<fileVars, flock, mutex, held, want, handle, fd, waits, blamed>>

Retry(t) ==
  /\ pc[t] = "retry" /\ waits[t]
  /\ pc' = [pc EXCEPT ![t] = "lock"]
  /\ UNCHANGED <<fileVars, flock, mutex, held, want, handle, fd, waits, blamed>>

(* Mutant: the descriptor of a failed acquisition is not closed. *)
SetupFails_LeaksDescriptor(t) ==
  /\ pc[t] \in InMutex \ {"inspect"}
  /\ mutex' = [mutex EXCEPT ![Home[t]] = None]
  /\ fd' = [fd EXCEPT ![t] = None]
  /\ pc' = [pc EXCEPT ![t] = "release"]
  /\ UNCHANGED <<fileVars, flock, held, want, handle, waits, blamed>>

(* Any other OSError under _MUTEX (a full disk, a directory removed, a     *)
(* file that is not regular): the temporary file is unlinked, the          *)
(* descriptor closed, which drops a lock it has just taken, and            *)
(* ReservationSetupError raised.  A failed metadata write leaves the old   *)
(* record, the new one or an unreadable one.                               *)
SetupFails(t) ==
  /\ pc[t] \in InMutex \ {"inspect"}
  /\ IF pc[t] = "meta"
       THEN /\ flock' = [flock EXCEPT ![fd[t]] = None]
            /\ \E name \in {meta[fd[t]], Home[t], None} : meta' = [meta EXCEPT ![fd[t]] = name]
       ELSE UNCHANGED <<flock, meta>>
  /\ fd' = [fd EXCEPT ![t] = None]
  /\ mutex' = [mutex EXCEPT ![Home[t]] = None]
  /\ pc' = [pc EXCEPT ![t] = "release"]
  /\ UNCHANGED <<dir, path, shared, held, want, handle, waits, blamed>>

(* The directory cannot be made or used. *)
DirectoryFails(t) ==
  /\ pc[t] = "mkdir"
  /\ pc' = [pc EXCEPT ![t] = "release"]
  /\ UNCHANGED <<fileVars, flock, mutex, held, want, handle, fd, waits, blamed>>

----------------------------------------------------------------------------
(* Giving the resource back *)

Leave(t) ==
  /\ pc[t] = "body"
  /\ pc' = [pc EXCEPT ![t] = "release"]
  /\ UNCHANGED <<fileVars, flock, mutex, held, want, handle, fd, waits, blamed>>

(* Closing the last reference's descriptor drops the lock; the file stays. *)
Dereference(p, r) ==
  LET last == held[p][r].references = 1 IN
  /\ held' = [held EXCEPT ![p][r] = IF last THEN NotHeld
                                     ELSE [fd |-> @.fd, references |-> @.references - 1]]
  /\ flock' = IF last THEN [flock EXCEPT ![held[p][r].fd] = None] ELSE flock

(* Mutant: the lock file is removed with its last reference. *)
Release_Unlinks(t) ==
  LET r == Greatest(Live(t)) IN
  /\ pc[t] = "release"
  /\ Live(t) # {}
  /\ mutex[Home[t]] = None
  /\ Dereference(Home[t], r)
  /\ path' = IF held'[Home[t]][r] = NotHeld THEN [path EXCEPT ![r] = None] ELSE path
  /\ handle' = [handle EXCEPT ![t][r] = "released"]
  /\ UNCHANGED <<dir, shared, meta, mutex, pc, want, fd, waits, blamed>>

(* Reservation.release on a live handle: the last resource first, as the   *)
(* finally clause of reserve does.                                         *)
Release(t) ==
  LET r == Greatest(Live(t)) IN
  /\ pc[t] = "release"
  /\ Live(t) # {}
  /\ mutex[Home[t]] = None
  /\ Dereference(Home[t], r)
  /\ handle' = [handle EXCEPT ![t][r] = "released"]
  /\ UNCHANGED <<fileVars, mutex, pc, want, fd, waits, blamed>>

Return(t) ==
  /\ pc[t] = "release"
  /\ Live(t) = {}
  /\ pc' = [pc EXCEPT ![t] = "idle"]
  /\ want' = [want EXCEPT ![t] = {}]
  /\ waits' = [waits EXCEPT ![t] = FALSE]
  /\ UNCHANGED <<fileVars, flock, mutex, held, handle, fd, blamed>>

(* Mutant: release without the _released flag. *)
ReleaseAgain_NoFlag(t, r) ==
  /\ pc[t] = "idle"
  /\ handle[t][r] = "released"
  /\ mutex[Home[t]] = None
  /\ held' = [held EXCEPT ![Home[t]][r].references = @ - 1]
  /\ handle' = [handle EXCEPT ![t][r] = "none"]
  /\ UNCHANGED <<fileVars, flock, mutex, pc, want, fd, waits, blamed>>

(* release() on a handle that was released before (a device closed twice): *)
(* the _released flag turns it into nothing; the object is dropped.        *)
ReleaseAgain(t, r) ==
  /\ pc[t] = "idle"
  /\ handle[t][r] = "released"
  /\ mutex[Home[t]] = None
  /\ handle' = [handle EXCEPT ![t][r] = "none"]
  /\ UNCHANGED <<fileVars, flock, mutex, held, pc, want, fd, waits, blamed>>

(* A process dies (SIGKILL included) and a new one takes its place.  The   *)
(* kernel closes its descriptors; files, and metadata that now names a     *)
(* dead pid, stay.                                                         *)
Crash(p) ==
  LET dead(t) == Home[t] = p IN
  /\ flock' = [i \in Inode |-> IF flock[i] = p THEN None ELSE flock[i]]
  /\ meta' = [i \in Inode |-> IF meta[i] = p THEN None ELSE meta[i]]
  /\ mutex' = [mutex EXCEPT ![p] = None]
  /\ held' = [held EXCEPT ![p] = [r \in Resource |-> NotHeld]]
  /\ pc' = [t \in Thread |-> IF dead(t) THEN "idle" ELSE pc[t]]
  /\ want' = [t \in Thread |-> IF dead(t) THEN {} ELSE want[t]]
  /\ handle' = [t \in Thread |-> IF dead(t) THEN [r \in Resource |-> "none"] ELSE handle[t]]
  /\ fd' = [t \in Thread |-> IF dead(t) THEN None ELSE fd[t]]
  /\ waits' = [t \in Thread |-> IF dead(t) THEN FALSE ELSE waits[t]]
  /\ blamed' = [t \in Thread |-> IF dead(t) \/ blamed[t] = p THEN None ELSE blamed[t]]
  /\ UNCHANGED <<dir, path, shared>>

----------------------------------------------------------------------------

(* What a thread does once it has called: each of these is a step the      *)
(* operating system runs eventually.                                       *)
Progress(t) ==
  \/ PublishDirectory(t)
  \/ Share(t) \/ OpenExisting(t) \/ MakeTemp(t) \/ ShareMode(t) \/ Link(t) \/ Reopen(t)
  \/ LockFile(t) \/ LockRefused(t) \/ ReadHolder(t) \/ EnterHeld(t)
  \/ GiveUp(t) \/ Retry(t) \/ Release(t) \/ Return(t)

(* Errors of the file system, at any time and never owed. *)
Faults(t) == DirectoryFails(t) \/ SetupFails(t)

Next ==
  \/ \E t \in Thread :
       \/ \E R \in (SUBSET Resource) \ {{}}, w \in BOOLEAN : Call(t, R, w)
       \/ Progress(t) \/ Faults(t) \/ Leave(t) \/ Expire(t)
       \/ \E r \in Resource : ReleaseAgain(t, r)
  \/ \E p \in Proc : Crash(p)

Spec == Init /\ [][Next]_vars

(* Threads run and time passes; nobody owes a call, a Leave or a crash.    *)
Fairness == \A t \in Thread : WF_vars(Progress(t)) /\ WF_vars(Expire(t))

FairSpec == Spec /\ Fairness

----------------------------------------------------------------------------
(* Properties *)

TypeOK ==
  /\ dir \in BOOLEAN
  /\ path \in [Resource -> Inode \cup {None}]
  /\ shared \in SUBSET Inode
  /\ meta \in [Inode -> Proc \cup {None}]
  /\ flock \in [Inode -> Proc \cup {None}]
  /\ mutex \in [Proc -> Thread \cup {None}]
  /\ held \in [Proc -> [Resource -> [fd : Inode \cup {None}, references : Nat]]]
  /\ pc \in [Thread -> Unlocked \cup InMutex]
  /\ want \in [Thread -> SUBSET Resource]
  /\ handle \in [Thread -> [Resource -> {"none", "live", "released"}]]
  /\ fd \in [Thread -> Inode \cup {None}]
  /\ waits \in [Thread -> BOOLEAN]
  /\ blamed \in [Thread -> Proc \cup {None}]

(* A resource is in use by the threads of one process at a time: what the  *)
(* flock on a file everyone finds under the same name is for.              *)
MutualExclusion ==
  \A t, u \in Thread, r \in Resource :
    r \in Live(t) \cap Live(u) => Home[t] = Home[u]

(* The reference count of a process is the number of live handles of its   *)
(* threads: no release is lost, none counted twice (_released).            *)
ReferencesCountHandles ==
  \A p \in Proc, r \in Resource :
    held[p][r].references = Cardinality({t \in Thread : Home[t] = p /\ r \in Live(t)})

(* A lock file under its public name already has mode 0666, whoever made   *)
(* it and whatever its umask ("publishing only after chmod").              *)
PublishedIsShared == \A r \in Resource : path[r] # None => path[r] \in shared

(* The kernel lock is held exactly for an entry of _HELD or by the thread  *)
(* about to make one: a failed or abandoned acquisition keeps no lock.     *)
LocksAccounted ==
  \A i \in Inode :
    flock[i] # None <=>
      \/ \E p \in Proc, r \in Resource : held[p][r].references > 0 /\ held[p][r].fd = i
      \/ \E t \in Thread : pc[t] = "meta" /\ fd[t] = i

(* What the lock files promise, taken together: one process to a resource, *)
(* exact reference counts, a public name only for a file everyone may      *)
(* open, and no kernel lock that nobody will give back.                    *)
Safety ==
  /\ TypeOK
  /\ MutualExclusion
  /\ ReferencesCountHandles
  /\ PublishedIsShared
  /\ LocksAccounted

(* A reserve that raised gave back everything it had acquired. *)
RaisedHoldsNothing == \A t \in Thread : pc[t] = "idle" => Live(t) = {}

(* Lexical order: two waiting calls never hold what the other waits for.   *)
NoDeadlyEmbrace ==
  \A t, u \in Thread :
    (pc[t] \in Acquiring /\ pc[u] \in Acquiring) =>
      ~(Target(t) \in Live(u) /\ Target(u) \in Live(t))

(* "Never unlink: waiters must continue to lock the same inode": the inode *)
(* a name stands for never changes.                                        *)
NameKeepsInode == [][\A r \in Resource : path[r] # None => path'[r] = path[r]]_path

(* The class docstring of ResourceBusyError says the resource "is held by  *)
(* another process": the process it names is not the one that asked.       *)
BlamesAnotherProcess == \A t \in Thread : blamed[t] # Home[t]

(* Every call returns or reaches its body, whatever the peers hold; on the *)
(* way it leaves _MUTEX, so that a contended acquisition never blocks the  *)
(* other threads of its process for good.                                  *)
EveryCallEnds == \A t \in Thread : pc[t] \in Acquiring ~> pc[t] \notin Acquiring

(* Reservations implement the abstract lock. *)
Users == [r \in Resource |-> {t \in Thread : r \in Live(t)}]
Lock == INSTANCE ResourceLock WITH users <- Users
LockSpec == Lock!Spec
=============================================================================
