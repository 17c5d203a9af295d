------------------------- MODULE ReservationProofs -------------------------
(***************************************************************************)
(* The inductive invariant of Reservation and what follows from it, for    *)
(* every number of processes, threads, resources and inodes.               *)
(***************************************************************************)
EXTENDS Reservation, FiniteSetTheorems, TLAPS

(* The threads of p with a live handle on r. *)
UsersOf(p, r) == {t \in Thread : Home[t] = p /\ handle[t][r] = "live"}

(* A call in progress still wants something, nothing it already has, and   *)
(* nothing that sorts before what it has; an idle thread has nothing.      *)
CallsOrdered ==
  \A t \in Thread :
    /\ pc[t] \in Acquiring => want[t] # {}
    /\ pc[t] = "idle" => \A r \in Resource : handle[t][r] # "live"
    /\ pc[t] \in Acquiring =>
         \A r \in want[t], s \in Resource : handle[t][s] = "live" => s < r

(* Exactly the thread inside _MUTEX owns it, and its process has no entry  *)
(* for the resource it is acquiring.                                       *)
MutexGuards ==
  \A t \in Thread :
    /\ pc[t] \in InMutex => mutex[Home[t]] = t
    /\ mutex[Home[t]] = t => pc[t] \in InMutex
    /\ pc[t] \in InMutex => held[Home[t]][Target(t)].references = 0

(* The descriptors of acquisitions in progress. *)
DescriptorsKnown ==
  \A t \in Thread :
    /\ pc[t] \in {"flock", "inspect", "meta"} =>
         path[Target(t)] # None /\ fd[t] = path[Target(t)]
    /\ pc[t] = "meta" => flock[fd[t]] = Home[t]
    /\ pc[t] \in {"chmod", "link", "flock", "inspect", "meta"} => fd[t] \in Inode
    /\ pc[t] \in {"chmod", "link"} =>
         /\ \A r \in Resource : path[r] # fd[t]
         /\ \A u \in Thread : u # t => fd[u] # fd[t]
    /\ pc[t] = "link" => fd[t] \in shared
    /\ pc[t] \in Unlocked \cup {"mkstemp", "reopen"} => fd[t] = None

(* An entry of _HELD holds the kernel lock of the published file. *)
EntriesLocked ==
  \A p \in Proc, r \in Resource :
    IF held[p][r].references > 0
      THEN path[r] # None /\ held[p][r].fd = path[r] /\ flock[path[r]] = p
      ELSE held[p][r].fd = None

(* A file has one name. *)
NamesDistinct ==
  \A r, s \in Resource : path[r] = path[s] /\ path[r] # None => r = s

CountsRight ==
  \A p \in Proc, r \in Resource : held[p][r].references = Cardinality(UsersOf(p, r))

IInv ==
  /\ TypeOK
  /\ CallsOrdered
  /\ MutexGuards
  /\ DescriptorsKnown
  /\ EntriesLocked
  /\ NamesDistinct
  /\ PublishedIsShared
  /\ CountsRight

----------------------------------------------------------------------------

(* The next resource of a call that still wants something is the first. *)
LEMMA TargetIsLeast ==
  ASSUME TypeOK, NEW t \in Thread, want[t] # {}
  PROVE  Target(t) \in want[t] /\ \A s \in want[t] : Target(t) <= s
<1>1. want[t] \in SUBSET Resource
  BY DEF TypeOK
<1>2. \E r \in want[t] : \A s \in want[t] : r <= s
  BY <1>1, ResourceAssumption
<1>3. QED
  BY <1>2 DEF Target, Least

(* The next resource of a call is one of the resources. *)
LEMMA TargetInResource ==
  ASSUME IInv, NEW t \in Thread, pc[t] \in Acquiring
  PROVE  want[t] # {} /\ Target(t) \in want[t] /\ Target(t) \in Resource
BY TargetIsLeast DEF IInv, TypeOK, CallsOrdered

(* It is a new one, and sorts before the rest. *)
LEMMA TargetIsNew ==
  ASSUME IInv, NEW t \in Thread, pc[t] \in Acquiring
  PROVE  /\ handle[t][Target(t)] # "live"
         /\ \A s \in want[t] \ {Target(t)} : Target(t) < s
<1>1. want[t] \in SUBSET Resource /\ Target(t) \in want[t] /\ Target(t) \in Resource
  BY TargetInResource DEF IInv, TypeOK
<1>2. \A s \in want[t] : Target(t) <= s
  BY <1>1, TargetIsLeast DEF IInv
<1>3. \A r \in want[t], s \in Resource : handle[t][s] = "live" => s < r
  BY DEF IInv, CallsOrdered
<1>4. Target(t) \in Nat /\ \A s \in want[t] : s \in Nat
  BY <1>1, ResourceAssumption
<1>5. ~(Target(t) < Target(t))
  BY <1>4
<1>6. QED
  BY <1>1, <1>2, <1>3, <1>4, <1>5

(* Taking it keeps the calls ordered. *)
LEMMA AcquiredOrdered ==
  ASSUME IInv, NEW t \in Thread, pc[t] \in Acquiring, Acquired(t, Target(t))
  PROVE  CallsOrdered'
<1> DEFINE r == Target(t)
<1>1. r \in want[t] /\ r \in Resource /\ want[t] \in SUBSET Resource
  BY TargetInResource DEF IInv, TypeOK
<1>2. /\ \A s \in want[t] \ {r} : r < s
      /\ \A x \in want[t], s \in Resource : handle[t][s] = "live" => s < x
  BY TargetIsNew DEF IInv, CallsOrdered
<1> HIDE DEF r
<1>3. Acquired(t, r)
  BY DEF r
<1>4. QED
  BY <1>1, <1>2, <1>3 DEF IInv, TypeOK, CallsOrdered, Acquired, Acquiring, InMutex

(* The resource Release gives back is one the thread has. *)
LEMMA GreatestIsLive ==
  ASSUME NEW t \in Thread, Live(t) # {}
  PROVE  Greatest(Live(t)) \in Resource /\ handle[t][Greatest(Live(t))] = "live"
<1>1. \E r \in Live(t) : \A s \in Live(t) : s <= r
  BY ResourceAssumption DEF Live
<1>2. Greatest(Live(t)) \in Live(t)
  BY <1>1 DEF Greatest
<1>3. QED
  BY <1>2 DEF Live

(* Steps that leave the entries and the live handles alone keep counts. *)
LEMMA CountsKept ==
  ASSUME CountsRight, UNCHANGED held,
         \A t \in Thread, r \in Resource : handle'[t][r] = "live" <=> handle[t][r] = "live"
  PROVE  CountsRight'
<1>1. \A p \in Proc, r \in Resource : UsersOf(p, r)' = UsersOf(p, r)
  BY DEF UsersOf
<1>2. QED
  BY <1>1 DEF CountsRight

(* A live handle is counted: its entry has a reference. *)
LEMMA LiveCounted ==
  ASSUME IInv, NEW t \in Thread, NEW r \in Resource, handle[t][r] = "live"
  PROVE  held[Home[t]][r].references > 0
<1>1. Home[t] \in Proc /\ held[Home[t]][r].references \in Nat
  BY ThreadAssumption DEF IInv, TypeOK
<1>2. UsersOf(Home[t], r) \in SUBSET Thread /\ UsersOf(Home[t], r) # {}
  BY DEF UsersOf
<1>3. IsFiniteSet(UsersOf(Home[t], r))
  BY <1>2, ThreadAssumption, FS_Subset
<1>4. Cardinality(UsersOf(Home[t], r)) # 0
  BY <1>2, <1>3, FS_EmptySet
<1>5. QED
  BY <1>1, <1>4 DEF IInv, CountsRight

(* One more live handle of t on r, and one more reference. *)
LEMMA CountsUp ==
  ASSUME IInv, NEW t \in Thread, NEW r \in Resource, handle[t][r] # "live",
         handle' = [handle EXCEPT ![t][r] = "live"],
         held'[Home[t]][r].references = held[Home[t]][r].references + 1,
         \A p \in Proc, s \in Resource :
           p # Home[t] \/ s # r => held'[p][s].references = held[p][s].references
  PROVE  CountsRight'
<1> DEFINE U == UsersOf(Home[t], r)
<1>1. U' = U \cup {t} /\ t \notin U /\ U \in SUBSET Thread
  BY DEF UsersOf, IInv, TypeOK
<1>2. Cardinality(U') = Cardinality(U) + 1
  <2>1. IsFiniteSet(U)
    BY <1>1, ThreadAssumption, FS_Subset
  <2> HIDE DEF U
  <2>2. QED
    BY <2>1, <1>1, FS_AddElement
<1>3. \A p \in Proc, s \in Resource :
        p # Home[t] \/ s # r => UsersOf(p, s)' = UsersOf(p, s)
  BY DEF UsersOf, IInv, TypeOK
<1>4. QED
  BY <1>2, <1>3, ThreadAssumption DEF IInv, CountsRight

(* One live handle less, and one reference less. *)
LEMMA CountsDown ==
  ASSUME IInv, NEW t \in Thread, NEW r \in Resource, handle[t][r] = "live",
         handle' = [handle EXCEPT ![t][r] = "released"],
         held'[Home[t]][r].references = held[Home[t]][r].references - 1,
         \A p \in Proc, s \in Resource :
           p # Home[t] \/ s # r => held'[p][s].references = held[p][s].references
  PROVE  CountsRight'
<1> DEFINE U == UsersOf(Home[t], r)
<1>1. U' = U \ {t} /\ t \in U /\ U \in SUBSET Thread
  BY DEF UsersOf, IInv, TypeOK
<1>2. Cardinality(U') = Cardinality(U) - 1
  <2>1. IsFiniteSet(U)
    BY <1>1, ThreadAssumption, FS_Subset
  <2> HIDE DEF U
  <2>2. QED
    BY <2>1, <1>1, FS_RemoveElement
<1>3. \A p \in Proc, s \in Resource :
        p # Home[t] \/ s # r => UsersOf(p, s)' = UsersOf(p, s)
  BY DEF UsersOf, IInv, TypeOK
<1>4. QED
  BY <1>2, <1>3, ThreadAssumption DEF IInv, CountsRight

LEMMA InitInv == Init => IInv
<1> SUFFICES ASSUME Init PROVE IInv
  OBVIOUS
<1>1. TypeOK
  BY ThreadAssumption DEF Init, TypeOK, NotHeld, Unlocked, InMutex
<1>2. CallsOrdered /\ MutexGuards /\ DescriptorsKnown
  BY NoneAssumption, ThreadAssumption
  DEF Init, CallsOrdered, MutexGuards, DescriptorsKnown, Acquiring, InMutex, Unlocked, NotHeld
<1>3. EntriesLocked /\ NamesDistinct /\ PublishedIsShared
  BY DEF Init, EntriesLocked, NamesDistinct, PublishedIsShared, NotHeld
<1>4. CountsRight
  <2>1. \A p \in Proc, r \in Resource : UsersOf(p, r) = {}
    BY DEF Init, UsersOf
  <2>2. QED
    BY <2>1, FS_EmptySet DEF Init, CountsRight, NotHeld
<1>5. QED
  BY <1>1, <1>2, <1>3, <1>4 DEF IInv

LEMMA CallInv ==
  ASSUME IInv, NEW t \in Thread, NEW R \in (SUBSET Resource) \ {{}}, NEW w \in BOOLEAN, Call(t, R, w)
  PROVE  IInv'
<1> USE ThreadAssumption, NoneAssumption DEF Call, fileVars
<1>b. \A u \in Thread : u # t => Target(u)' = Target(u)
  BY DEF IInv, TypeOK, Target
<1>1. TypeOK'
  BY DEF IInv, TypeOK, InMutex, Unlocked
<1>2. CallsOrdered'
  BY DEF IInv, TypeOK, CallsOrdered, Acquiring, InMutex
<1>3. MutexGuards'
  BY <1>b DEF IInv, TypeOK, MutexGuards, InMutex
<1>4. DescriptorsKnown'
  BY <1>b DEF IInv, TypeOK, DescriptorsKnown, Unlocked
<1>5. EntriesLocked'
  BY DEF IInv, TypeOK, EntriesLocked, DescriptorsKnown
<1>6. NamesDistinct' /\ PublishedIsShared'
  BY DEF IInv, TypeOK, NamesDistinct, PublishedIsShared
<1>7. CountsRight'
  <2>1. \A u \in Thread, r \in Resource : handle'[u][r] = "live" <=> handle[u][r] = "live"
    BY DEF IInv, TypeOK, CallsOrdered
  <2>2. QED
    BY <2>1, CountsKept DEF IInv
<1>8. QED
  BY <1>1, <1>2, <1>3, <1>4, <1>5, <1>6, <1>7 DEF IInv

LEMMA PublishDirectoryInv ==
  ASSUME IInv, NEW t \in Thread, PublishDirectory(t)
  PROVE  IInv'
<1> USE ThreadAssumption, NoneAssumption DEF PublishDirectory, fileVars
<1>b. \A u \in Thread : Target(u)' = Target(u)
  BY DEF Target
<1>1. TypeOK'
  BY DEF IInv, TypeOK, InMutex, Unlocked
<1>2. CallsOrdered'
  BY DEF IInv, TypeOK, CallsOrdered, Acquiring, InMutex
<1>3. MutexGuards'
  BY <1>b DEF IInv, TypeOK, MutexGuards, InMutex
<1>4. DescriptorsKnown'
  BY <1>b DEF IInv, TypeOK, DescriptorsKnown, Unlocked
<1>5. EntriesLocked'
  BY DEF IInv, TypeOK, EntriesLocked, DescriptorsKnown
<1>6. NamesDistinct' /\ PublishedIsShared'
  BY DEF IInv, TypeOK, NamesDistinct, PublishedIsShared
<1>7. CountsRight'
  BY CountsKept DEF IInv
<1>8. QED
  BY <1>1, <1>2, <1>3, <1>4, <1>5, <1>6, <1>7 DEF IInv

LEMMA ExpireInv ==
  ASSUME IInv, NEW t \in Thread, Expire(t)
  PROVE  IInv'
<1> USE ThreadAssumption, NoneAssumption DEF Expire, fileVars
<1>b. \A u \in Thread : Target(u)' = Target(u)
  BY DEF Target
<1>1. TypeOK'
  BY DEF IInv, TypeOK, InMutex, Unlocked
<1>2. CallsOrdered'
  BY DEF IInv, TypeOK, CallsOrdered, Acquiring, InMutex
<1>3. MutexGuards'
  BY <1>b DEF IInv, TypeOK, MutexGuards, InMutex
<1>4. DescriptorsKnown'
  BY <1>b DEF IInv, TypeOK, DescriptorsKnown, Unlocked
<1>5. EntriesLocked'
  BY DEF IInv, TypeOK, EntriesLocked, DescriptorsKnown
<1>6. NamesDistinct' /\ PublishedIsShared'
  BY DEF IInv, TypeOK, NamesDistinct, PublishedIsShared
<1>7. CountsRight'
  BY CountsKept DEF IInv
<1>8. QED
  BY <1>1, <1>2, <1>3, <1>4, <1>5, <1>6, <1>7 DEF IInv

LEMMA ShareInv ==
  ASSUME IInv, NEW t \in Thread, Share(t)
  PROVE  IInv'
<1> USE ThreadAssumption, NoneAssumption
<1> DEFINE p == Home[t]
           r == Target(t)
<1>a. want[t] # {} /\ r \in want[t] /\ r \in Resource /\ p \in Proc
  BY TargetInResource DEF Share, Acquiring
<1>b. \A u \in Thread : u # t => Target(u)' = Target(u)
  BY DEF Share, Acquired, IInv, TypeOK, Target
<1> HIDE DEF p, r
<1>d. /\ pc[t] = "lock" /\ mutex[p] = None
      /\ held[p][r].references > 0
      /\ held' = [held EXCEPT ![p][r] = [fd |-> @.fd, references |-> @.references + 1]]
      /\ handle' = [handle EXCEPT ![t][r] = "live"]
      /\ want' = [want EXCEPT ![t] = @ \ {r}]
      /\ pc' = [pc EXCEPT ![t] = IF want[t] = {r} THEN "body" ELSE "lock"]
      /\ UNCHANGED <<fileVars, flock, mutex, fd, waits, blamed>>
  BY DEF Share, Acquired, p, r
<1>e. /\ held[p][r] \in [fd : Inode \cup {None}, references : Nat]
      /\ held'[p][r] = [fd |-> held[p][r].fd, references |-> held[p][r].references + 1]
      /\ \A q \in Proc, s \in Resource : q # p \/ s # r => held'[q][s] = held[q][s]
      /\ held' \in [Proc -> [Resource -> [fd : Inode \cup {None}, references : Nat]]]
  <2> DEFINE Entry == [fd : Inode \cup {None}, references : Nat]
             e == [fd |-> held[p][r].fd, references |-> held[p][r].references + 1]
  <2>1. held \in [Proc -> [Resource -> Entry]] /\ held[p][r] \in Entry
    BY <1>a DEF IInv, TypeOK
  <2>2. e \in Entry
    BY <2>1
  <2>3. held' = [held EXCEPT ![p] = [held[p] EXCEPT ![r] = e]]
    BY <1>d
  <2> HIDE DEF e, Entry
  <2>4. /\ held'[p][r] = e
        /\ \A q \in Proc, s \in Resource : q # p \/ s # r => held'[q][s] = held[q][s]
        /\ held' \in [Proc -> [Resource -> Entry]]
    BY <1>a, <2>1, <2>2, <2>3
  <2>5. QED
    BY <2>1, <2>4 DEF e, Entry
<1>1. TypeOK'
  BY <1>a, <1>d, <1>e DEF IInv, TypeOK, Unlocked, fileVars
<1>2. CallsOrdered'
  BY AcquiredOrdered DEF Share, Acquiring
<1>3. MutexGuards'
  BY <1>a, <1>b, <1>d, <1>e DEF IInv, TypeOK, MutexGuards, InMutex
<1>4. DescriptorsKnown'
  BY <1>b, <1>d DEF IInv, TypeOK, DescriptorsKnown, Unlocked, fileVars
<1>5. EntriesLocked'
  BY <1>a, <1>d, <1>e DEF IInv, EntriesLocked, fileVars
<1>6. NamesDistinct' /\ PublishedIsShared'
  BY <1>d DEF IInv, NamesDistinct, PublishedIsShared, fileVars
<1>7. CountsRight'
  <2>1. handle[t][r] # "live"
    BY <1>d, TargetIsNew DEF Acquiring, r
  <2>2. /\ held'[p][r].references = held[p][r].references + 1
        /\ \A q \in Proc, s \in Resource :
             q # p \/ s # r => held'[q][s].references = held[q][s].references
    BY <1>e
  <2>3. QED
    BY <1>a, <1>d, <2>1, <2>2, CountsUp DEF p
<1>8. QED
  BY <1>1, <1>2, <1>3, <1>4, <1>5, <1>6, <1>7 DEF IInv

LEMMA OpenExistingInv ==
  ASSUME IInv, NEW t \in Thread, OpenExisting(t)
  PROVE  IInv'
<1> USE ThreadAssumption, NoneAssumption DEF OpenExisting, fileVars
<1>a. want[t] # {} /\ Target(t) \in want[t] /\ Target(t) \in Resource
  BY TargetInResource DEF Acquiring, InMutex
<1>b. \A u \in Thread : Target(u)' = Target(u)
  BY DEF Target
<1>1. TypeOK'
  BY <1>a DEF IInv, TypeOK, InMutex, Unlocked
<1>2. CallsOrdered'
  BY DEF IInv, TypeOK, CallsOrdered, Acquiring, InMutex
<1>3. MutexGuards'
  <2>1. \A u \in Thread : u # t => pc'[u] = pc[u] /\ (Home[u] = Home[t] => pc[u] \notin InMutex)
    BY DEF IInv, TypeOK, MutexGuards
  <2>2. pc'[t] \in InMutex /\ mutex'[Home[t]] = t
    BY DEF IInv, TypeOK, InMutex
  <2>3. \A u \in Thread : Home[u] # Home[t] => mutex'[Home[u]] = mutex[Home[u]]
    BY DEF IInv, TypeOK
  <2>4. held'[Home[t]][Target(t)].references = 0
    OBVIOUS
  <2>5. QED
    BY <1>b, <2>1, <2>2, <2>3, <2>4 DEF IInv, MutexGuards
<1>4. DescriptorsKnown'
  BY <1>a, <1>b DEF IInv, TypeOK, DescriptorsKnown, Unlocked, Unused
<1>5. EntriesLocked'
  BY DEF IInv, TypeOK, EntriesLocked, DescriptorsKnown
<1>6. NamesDistinct' /\ PublishedIsShared'
  BY DEF IInv, TypeOK, NamesDistinct, PublishedIsShared
<1>7. CountsRight'
  BY CountsKept DEF IInv
<1>8. QED
  BY <1>1, <1>2, <1>3, <1>4, <1>5, <1>6, <1>7 DEF IInv

LEMMA MakeTempInv ==
  ASSUME IInv, NEW t \in Thread, MakeTemp(t)
  PROVE  IInv'
<1> USE ThreadAssumption, NoneAssumption DEF MakeTemp, fileVars
<1>a. want[t] # {} /\ Target(t) \in want[t] /\ Target(t) \in Resource
  BY TargetInResource DEF Acquiring, InMutex
<1>b. \A u \in Thread : Target(u)' = Target(u)
  BY DEF Target
<1>1. TypeOK'
  BY DEF IInv, TypeOK, InMutex, Unlocked
<1>2. CallsOrdered'
  BY DEF IInv, TypeOK, CallsOrdered, Acquiring, InMutex
<1>3. MutexGuards'
  BY <1>b DEF IInv, TypeOK, MutexGuards, InMutex
<1>4. DescriptorsKnown'
  BY <1>a, <1>b DEF IInv, TypeOK, DescriptorsKnown, Unlocked, Unused
<1>5. EntriesLocked'
  BY DEF IInv, TypeOK, EntriesLocked, DescriptorsKnown
<1>6. NamesDistinct' /\ PublishedIsShared'
  BY DEF IInv, TypeOK, NamesDistinct, PublishedIsShared, Unused
<1>7. CountsRight'
  BY CountsKept DEF IInv
<1>8. QED
  BY <1>1, <1>2, <1>3, <1>4, <1>5, <1>6, <1>7 DEF IInv

LEMMA ShareModeInv ==
  ASSUME IInv, NEW t \in Thread, ShareMode(t)
  PROVE  IInv'
<1> USE ThreadAssumption, NoneAssumption DEF ShareMode, fileVars
<1>a. want[t] # {} /\ Target(t) \in want[t] /\ Target(t) \in Resource
  BY TargetInResource DEF Acquiring, InMutex
<1>b. \A u \in Thread : Target(u)' = Target(u)
  BY DEF Target
<1>1. TypeOK'
  BY <1>a DEF IInv, TypeOK, DescriptorsKnown, InMutex, Unlocked
<1>2. CallsOrdered'
  BY DEF IInv, TypeOK, CallsOrdered, Acquiring, InMutex
<1>3. MutexGuards'
  BY <1>b DEF IInv, TypeOK, MutexGuards, InMutex
<1>4. DescriptorsKnown'
  BY <1>b DEF IInv, TypeOK, DescriptorsKnown, Unlocked
<1>5. EntriesLocked'
  BY DEF IInv, TypeOK, EntriesLocked, DescriptorsKnown
<1>6. NamesDistinct' /\ PublishedIsShared'
  BY DEF IInv, TypeOK, NamesDistinct, PublishedIsShared
<1>7. CountsRight'
  BY CountsKept DEF IInv
<1>8. QED
  BY <1>1, <1>2, <1>3, <1>4, <1>5, <1>6, <1>7 DEF IInv

LEMMA LinkInv ==
  ASSUME IInv, NEW t \in Thread, Link(t)
  PROVE  IInv'
<1> USE ThreadAssumption, NoneAssumption DEF Link, fileVars
<1>a. want[t] # {} /\ Target(t) \in want[t] /\ Target(t) \in Resource
  BY TargetInResource DEF Acquiring, InMutex
<1>b. \A u \in Thread : Target(u)' = Target(u)
  BY DEF Target
<1>1. TypeOK'
  BY DEF IInv, TypeOK, InMutex, Unlocked
<1>2. CallsOrdered'
  BY DEF IInv, TypeOK, CallsOrdered, Acquiring, InMutex
<1>3. MutexGuards'
  BY <1>b DEF IInv, TypeOK, MutexGuards, InMutex
<1>4. DescriptorsKnown'
  BY <1>a, <1>b DEF IInv, TypeOK, DescriptorsKnown, Unlocked, Unused
<1>5. EntriesLocked'
  BY DEF IInv, TypeOK, EntriesLocked, DescriptorsKnown
<1>6. NamesDistinct' /\ PublishedIsShared'
  BY <1>a DEF IInv, TypeOK, NamesDistinct, PublishedIsShared, DescriptorsKnown
<1>7. CountsRight'
  BY CountsKept DEF IInv
<1>8. QED
  BY <1>1, <1>2, <1>3, <1>4, <1>5, <1>6, <1>7 DEF IInv

LEMMA ReopenInv ==
  ASSUME IInv, NEW t \in Thread, Reopen(t)
  PROVE  IInv'
<1> USE ThreadAssumption, NoneAssumption DEF Reopen, fileVars
<1>a. want[t] # {} /\ Target(t) \in want[t] /\ Target(t) \in Resource
  BY TargetInResource DEF Acquiring, InMutex
<1>b. \A u \in Thread : Target(u)' = Target(u)
  BY DEF Target
<1>1. TypeOK'
  BY <1>a DEF IInv, TypeOK, InMutex, Unlocked
<1>2. CallsOrdered'
  BY DEF IInv, TypeOK, CallsOrdered, Acquiring, InMutex
<1>3. MutexGuards'
  BY <1>b DEF IInv, TypeOK, MutexGuards, InMutex
<1>4. DescriptorsKnown'
  BY <1>a, <1>b DEF IInv, TypeOK, DescriptorsKnown, Unlocked, Unused
<1>5. EntriesLocked'
  BY DEF IInv, TypeOK, EntriesLocked, DescriptorsKnown
<1>6. NamesDistinct' /\ PublishedIsShared'
  BY DEF IInv, TypeOK, NamesDistinct, PublishedIsShared
<1>7. CountsRight'
  BY CountsKept DEF IInv
<1>8. QED
  BY <1>1, <1>2, <1>3, <1>4, <1>5, <1>6, <1>7 DEF IInv

LEMMA LockFileInv ==
  ASSUME IInv, NEW t \in Thread, LockFile(t)
  PROVE  IInv'
<1> USE ThreadAssumption, NoneAssumption DEF LockFile, fileVars
<1>a. want[t] # {} /\ Target(t) \in want[t] /\ Target(t) \in Resource
  BY TargetInResource DEF Acquiring, InMutex
<1>b. \A u \in Thread : Target(u)' = Target(u)
  BY DEF Target
<1>c. fd[t] \in Inode
  BY DEF IInv, DescriptorsKnown
<1>1. TypeOK'
  BY DEF IInv, TypeOK, InMutex, Unlocked
<1>2. CallsOrdered'
  BY DEF IInv, TypeOK, CallsOrdered, Acquiring, InMutex
<1>3. MutexGuards'
  BY <1>b DEF IInv, TypeOK, MutexGuards, InMutex
<1>4. DescriptorsKnown'
  <2>1. \A u \in Thread : u # t /\ pc[u] = "meta" => fd[u] # fd[t] /\ fd[u] \in Inode
    BY DEF IInv, DescriptorsKnown
  <2>2. \A u \in Thread : pc'[u] = "meta" => flock'[fd[u]] = Home[u]
    BY <1>c, <2>1 DEF IInv, TypeOK, DescriptorsKnown
  <2>3. QED
    BY <1>b, <2>2 DEF IInv, TypeOK, DescriptorsKnown, Unlocked
<1>5. EntriesLocked'
  BY DEF IInv, TypeOK, EntriesLocked, DescriptorsKnown
<1>6. NamesDistinct' /\ PublishedIsShared'
  BY DEF IInv, TypeOK, NamesDistinct, PublishedIsShared
<1>7. CountsRight'
  BY CountsKept DEF IInv
<1>8. QED
  BY <1>1, <1>2, <1>3, <1>4, <1>5, <1>6, <1>7 DEF IInv

LEMMA LockRefusedInv ==
  ASSUME IInv, NEW t \in Thread, LockRefused(t)
  PROVE  IInv'
<1> USE ThreadAssumption, NoneAssumption DEF LockRefused, fileVars
<1>b. \A u \in Thread : Target(u)' = Target(u)
  BY DEF Target
<1>1. TypeOK'
  BY DEF IInv, TypeOK, InMutex, Unlocked
<1>2. CallsOrdered'
  BY DEF IInv, TypeOK, CallsOrdered, Acquiring, InMutex
<1>3. MutexGuards'
  BY <1>b DEF IInv, TypeOK, MutexGuards, InMutex
<1>4. DescriptorsKnown'
  BY <1>b DEF IInv, TypeOK, DescriptorsKnown, Unlocked
<1>5. EntriesLocked'
  BY DEF IInv, TypeOK, EntriesLocked, DescriptorsKnown
<1>6. NamesDistinct' /\ PublishedIsShared'
  BY DEF IInv, TypeOK, NamesDistinct, PublishedIsShared
<1>7. CountsRight'
  BY CountsKept DEF IInv
<1>8. QED
  BY <1>1, <1>2, <1>3, <1>4, <1>5, <1>6, <1>7 DEF IInv

LEMMA ReadHolderInv ==
  ASSUME IInv, NEW t \in Thread, ReadHolder(t)
  PROVE  IInv'
<1> USE ThreadAssumption, NoneAssumption DEF ReadHolder, fileVars
<1>a. want[t] # {} /\ Target(t) \in want[t] /\ Target(t) \in Resource
  BY TargetInResource DEF Acquiring, InMutex
<1>b. \A u \in Thread : Target(u)' = Target(u)
  BY DEF Target
<1>c. fd[t] \in Inode
  BY DEF IInv, DescriptorsKnown
<1>1. TypeOK'
  <2>1. meta[fd[t]] \in Proc \cup {None}
    BY <1>c DEF IInv, TypeOK
  <2>2. blamed' \in [Thread -> Proc \cup {None}]
    BY <2>1 DEF IInv, TypeOK
  <2>3. QED
    BY <2>2 DEF IInv, TypeOK, InMutex, Unlocked
<1>2. CallsOrdered'
  BY DEF IInv, TypeOK, CallsOrdered, Acquiring, InMutex
<1>3. MutexGuards'
  BY <1>b DEF IInv, TypeOK, MutexGuards, InMutex
<1>4. DescriptorsKnown'
  BY <1>b DEF IInv, TypeOK, DescriptorsKnown, Unlocked
<1>5. EntriesLocked'
  BY DEF IInv, TypeOK, EntriesLocked, DescriptorsKnown
<1>6. NamesDistinct' /\ PublishedIsShared'
  BY DEF IInv, TypeOK, NamesDistinct, PublishedIsShared
<1>7. CountsRight'
  BY CountsKept DEF IInv
<1>8. QED
  BY <1>1, <1>2, <1>3, <1>4, <1>5, <1>6, <1>7 DEF IInv

LEMMA EnterHeldInv ==
  ASSUME IInv, NEW t \in Thread, EnterHeld(t)
  PROVE  IInv'
<1> USE ThreadAssumption, NoneAssumption
<1> DEFINE p == Home[t]
           r == Target(t)
<1>a. want[t] # {} /\ r \in want[t] /\ r \in Resource /\ p \in Proc
  BY TargetInResource DEF EnterHeld, Acquiring, InMutex
<1>b. \A u \in Thread : u # t => Target(u)' = Target(u)
  BY DEF EnterHeld, Acquired, IInv, TypeOK, Target
<1>c. /\ fd[t] \in Inode /\ fd[t] = path[r] /\ path[r] # None /\ flock[fd[t]] = p
      /\ held[p][r].references = 0 /\ mutex[p] = t
  BY DEF EnterHeld, IInv, DescriptorsKnown, MutexGuards, InMutex
<1> HIDE DEF p, r
<1>d. /\ pc[t] = "meta"
      /\ meta' = [meta EXCEPT ![fd[t]] = p]
      /\ held' = [held EXCEPT ![p][r] = [fd |-> fd[t], references |-> 1]]
      /\ fd' = [fd EXCEPT ![t] = None]
      /\ mutex' = [mutex EXCEPT ![p] = None]
      /\ handle' = [handle EXCEPT ![t][r] = "live"]
      /\ want' = [want EXCEPT ![t] = @ \ {r}]
      /\ pc' = [pc EXCEPT ![t] = IF want[t] = {r} THEN "body" ELSE "lock"]
      /\ UNCHANGED <<dir, path, shared, flock, waits, blamed>>
  BY DEF EnterHeld, Acquired, p, r
<1>e. /\ held'[p][r] = [fd |-> fd[t], references |-> 1]
      /\ \A q \in Proc, s \in Resource : q # p \/ s # r => held'[q][s] = held[q][s]
      /\ held' \in [Proc -> [Resource -> [fd : Inode \cup {None}, references : Nat]]]
  BY <1>a, <1>c, <1>d DEF IInv, TypeOK
<1>1. TypeOK'
  BY <1>a, <1>d, <1>e DEF IInv, TypeOK, Unlocked
<1>2. CallsOrdered'
  BY AcquiredOrdered DEF EnterHeld, Acquiring, InMutex
<1>3. MutexGuards'
  BY <1>a, <1>b, <1>c, <1>d, <1>e DEF IInv, TypeOK, MutexGuards, InMutex, p
<1>4. DescriptorsKnown'
  BY <1>b, <1>d DEF IInv, TypeOK, DescriptorsKnown, Unlocked
<1>5. EntriesLocked'
  BY <1>a, <1>c, <1>d, <1>e DEF IInv, EntriesLocked
<1>6. NamesDistinct' /\ PublishedIsShared'
  BY <1>d DEF IInv, NamesDistinct, PublishedIsShared
<1>7. CountsRight'
  <2>1. handle[t][r] # "live"
    BY <1>d, TargetIsNew DEF Acquiring, InMutex, r
  <2>2. /\ held'[p][r].references = held[p][r].references + 1
        /\ \A q \in Proc, s \in Resource :
             q # p \/ s # r => held'[q][s].references = held[q][s].references
    BY <1>c, <1>e
  <2>3. QED
    BY <1>a, <1>d, <2>1, <2>2, CountsUp DEF p
<1>8. QED
  BY <1>1, <1>2, <1>3, <1>4, <1>5, <1>6, <1>7 DEF IInv

LEMMA GiveUpInv ==
  ASSUME IInv, NEW t \in Thread, GiveUp(t)
  PROVE  IInv'
<1> USE ThreadAssumption, NoneAssumption DEF GiveUp, fileVars
<1>b. \A u \in Thread : Target(u)' = Target(u)
  BY DEF Target
<1>1. TypeOK'
  BY DEF IInv, TypeOK, InMutex, Unlocked
<1>2. CallsOrdered'
  BY DEF IInv, TypeOK, CallsOrdered, Acquiring, InMutex
<1>3. MutexGuards'
  BY <1>b DEF IInv, TypeOK, MutexGuards, InMutex
<1>4. DescriptorsKnown'
  BY <1>b DEF IInv, TypeOK, DescriptorsKnown, Unlocked
<1>5. EntriesLocked'
  BY DEF IInv, TypeOK, EntriesLocked, DescriptorsKnown
<1>6. NamesDistinct' /\ PublishedIsShared'
  BY DEF IInv, TypeOK, NamesDistinct, PublishedIsShared
<1>7. CountsRight'
  BY CountsKept DEF IInv
<1>8. QED
  BY <1>1, <1>2, <1>3, <1>4, <1>5, <1>6, <1>7 DEF IInv

LEMMA RetryInv ==
  ASSUME IInv, NEW t \in Thread, Retry(t)
  PROVE  IInv'
<1> USE ThreadAssumption, NoneAssumption DEF Retry, fileVars
<1>b. \A u \in Thread : Target(u)' = Target(u)
  BY DEF Target
<1>1. TypeOK'
  BY DEF IInv, TypeOK, InMutex, Unlocked
<1>2. CallsOrdered'
  BY DEF IInv, TypeOK, CallsOrdered, Acquiring, InMutex
<1>3. MutexGuards'
  BY <1>b DEF IInv, TypeOK, MutexGuards, InMutex
<1>4. DescriptorsKnown'
  BY <1>b DEF IInv, TypeOK, DescriptorsKnown, Unlocked
<1>5. EntriesLocked'
  BY DEF IInv, TypeOK, EntriesLocked, DescriptorsKnown
<1>6. NamesDistinct' /\ PublishedIsShared'
  BY DEF IInv, TypeOK, NamesDistinct, PublishedIsShared
<1>7. CountsRight'
  BY CountsKept DEF IInv
<1>8. QED
  BY <1>1, <1>2, <1>3, <1>4, <1>5, <1>6, <1>7 DEF IInv

LEMMA SetupFailsInv ==
  ASSUME IInv, NEW t \in Thread, SetupFails(t)
  PROVE  IInv'
<1> USE ThreadAssumption, NoneAssumption DEF SetupFails, fileVars
<1>a. want[t] # {} /\ Target(t) \in want[t] /\ Target(t) \in Resource
  BY TargetInResource DEF Acquiring, InMutex
<1>b. \A u \in Thread : Target(u)' = Target(u)
  BY DEF Target
<1>c. pc[t] = "meta" => fd[t] \in Inode
  BY DEF IInv, DescriptorsKnown
<1>1. TypeOK'
  <2>1. CASE pc[t] = "meta"
    <3>1. meta[fd[t]] \in Proc \cup {None} /\ Home[t] \in Proc
      BY <1>c, <2>1 DEF IInv, TypeOK
    <3>2. meta' \in [Inode -> Proc \cup {None}] /\ flock' \in [Inode -> Proc \cup {None}]
      BY <2>1, <3>1 DEF IInv, TypeOK
    <3>3. QED
      BY <3>2 DEF IInv, TypeOK, InMutex, Unlocked
  <2>2. CASE pc[t] # "meta"
    BY <2>2 DEF IInv, TypeOK, InMutex, Unlocked
  <2>3. QED
    BY <2>1, <2>2
<1>2. CallsOrdered'
  BY DEF IInv, TypeOK, CallsOrdered, Acquiring, InMutex
<1>3. MutexGuards'
  BY <1>b DEF IInv, TypeOK, MutexGuards, InMutex
<1>4. DescriptorsKnown'
  <2>1. \A u \in Thread : u # t /\ pc[u] = "meta" /\ pc[t] = "meta" => fd[u] # fd[t]
    <3>1. SUFFICES ASSUME NEW u \in Thread, u # t, pc[u] = "meta", pc[t] = "meta", fd[u] = fd[t]
                   PROVE  FALSE
      OBVIOUS
    <3>2. Home[u] = Home[t]
      BY <3>1 DEF IInv, DescriptorsKnown
    <3>3. QED
      BY <3>1, <3>2 DEF IInv, MutexGuards, InMutex
  <2>2. \A u \in Thread : u # t /\ pc[u] = "meta" => flock'[fd[u]] = flock[fd[u]]
    BY <1>c, <2>1 DEF IInv, TypeOK, DescriptorsKnown
  <2>3. QED
    BY <1>b, <2>2 DEF IInv, TypeOK, DescriptorsKnown, Unlocked, InMutex
<1>5. EntriesLocked'
  <2>1. ASSUME NEW p \in Proc, NEW r \in Resource, held[p][r].references > 0, pc[t] = "meta"
        PROVE  fd[t] # path[r]
    <3>1. SUFFICES ASSUME fd[t] = path[r] PROVE FALSE
      OBVIOUS
    <3>2. path[r] = path[Target(t)] /\ path[r] # None /\ flock[path[r]] = Home[t]
      BY <2>1, <3>1 DEF IInv, DescriptorsKnown
    <3>3. r = Target(t) /\ p = Home[t]
      BY <1>a, <2>1, <3>2 DEF IInv, NamesDistinct, EntriesLocked
    <3>4. QED
      BY <2>1, <3>3 DEF IInv, MutexGuards, InMutex
  <2>2. QED
    BY <1>c, <2>1 DEF IInv, TypeOK, EntriesLocked
<1>6. NamesDistinct' /\ PublishedIsShared'
  BY DEF IInv, TypeOK, NamesDistinct, PublishedIsShared
<1>7. CountsRight'
  BY CountsKept DEF IInv
<1>8. QED
  BY <1>1, <1>2, <1>3, <1>4, <1>5, <1>6, <1>7 DEF IInv

LEMMA DirectoryFailsInv ==
  ASSUME IInv, NEW t \in Thread, DirectoryFails(t)
  PROVE  IInv'
<1> USE ThreadAssumption, NoneAssumption DEF DirectoryFails, fileVars
<1>b. \A u \in Thread : Target(u)' = Target(u)
  BY DEF Target
<1>1. TypeOK'
  BY DEF IInv, TypeOK, InMutex, Unlocked
<1>2. CallsOrdered'
  BY DEF IInv, TypeOK, CallsOrdered, Acquiring, InMutex
<1>3. MutexGuards'
  BY <1>b DEF IInv, TypeOK, MutexGuards, InMutex
<1>4. DescriptorsKnown'
  BY <1>b DEF IInv, TypeOK, DescriptorsKnown, Unlocked
<1>5. EntriesLocked'
  BY DEF IInv, TypeOK, EntriesLocked, DescriptorsKnown
<1>6. NamesDistinct' /\ PublishedIsShared'
  BY DEF IInv, TypeOK, NamesDistinct, PublishedIsShared
<1>7. CountsRight'
  BY CountsKept DEF IInv
<1>8. QED
  BY <1>1, <1>2, <1>3, <1>4, <1>5, <1>6, <1>7 DEF IInv

LEMMA LeaveInv ==
  ASSUME IInv, NEW t \in Thread, Leave(t)
  PROVE  IInv'
<1> USE ThreadAssumption, NoneAssumption DEF Leave, fileVars
<1>b. \A u \in Thread : Target(u)' = Target(u)
  BY DEF Target
<1>1. TypeOK'
  BY DEF IInv, TypeOK, InMutex, Unlocked
<1>2. CallsOrdered'
  BY DEF IInv, TypeOK, CallsOrdered, Acquiring, InMutex
<1>3. MutexGuards'
  BY <1>b DEF IInv, TypeOK, MutexGuards, InMutex
<1>4. DescriptorsKnown'
  BY <1>b DEF IInv, TypeOK, DescriptorsKnown, Unlocked
<1>5. EntriesLocked'
  BY DEF IInv, TypeOK, EntriesLocked, DescriptorsKnown
<1>6. NamesDistinct' /\ PublishedIsShared'
  BY DEF IInv, TypeOK, NamesDistinct, PublishedIsShared
<1>7. CountsRight'
  BY CountsKept DEF IInv
<1>8. QED
  BY <1>1, <1>2, <1>3, <1>4, <1>5, <1>6, <1>7 DEF IInv

LEMMA ReleaseInv ==
  ASSUME IInv, NEW t \in Thread, Release(t)
  PROVE  IInv'
<1> USE ThreadAssumption, NoneAssumption
<1> DEFINE p == Home[t]
           r == Greatest(Live(t))
           last == held[p][r].references = 1
           Entry == [fd : Inode \cup {None}, references : Nat]
<1>a. r \in Resource /\ handle[t][r] = "live" /\ p \in Proc
  BY GreatestIsLive DEF Release
<1>b. \A u \in Thread : Target(u)' = Target(u)
  BY DEF Release, Target
<1>c. /\ held[p][r].references > 0
      /\ held[p][r].fd = path[r] /\ path[r] # None /\ flock[path[r]] = p
  BY <1>a, LiveCounted DEF IInv, EntriesLocked
<1> HIDE DEF p, r
<1>d. /\ held' = [held EXCEPT ![p][r] =
                    IF last THEN NotHeld ELSE [fd |-> @.fd, references |-> @.references - 1]]
      /\ flock' = IF last THEN [flock EXCEPT ![held[p][r].fd] = None] ELSE flock
      /\ handle' = [handle EXCEPT ![t][r] = "released"]
      /\ pc[t] = "release" /\ mutex[p] = None
      /\ UNCHANGED <<fileVars, mutex, pc, want, fd, waits, blamed>>
  BY DEF Release, Dereference, p, r
<1>e. /\ held'[p][r] \in Entry
      /\ held'[p][r].references = held[p][r].references - 1
      /\ held'[p][r].fd = IF last THEN None ELSE path[r]
      /\ \A q \in Proc, s \in Resource : q # p \/ s # r => held'[q][s] = held[q][s]
      /\ held' \in [Proc -> [Resource -> Entry]]
  <2> DEFINE e == IF last THEN NotHeld ELSE [fd |-> held[p][r].fd, references |-> held[p][r].references - 1]
  <2>1. held \in [Proc -> [Resource -> Entry]] /\ held[p][r] \in Entry
    BY <1>a DEF IInv, TypeOK
  <2>2. e \in Entry /\ e.references = held[p][r].references - 1 /\ e.fd = IF last THEN None ELSE path[r]
    BY <1>c, <2>1 DEF NotHeld
  <2>3. held' = [held EXCEPT ![p] = [held[p] EXCEPT ![r] = e]]
    BY <1>d
  <2> HIDE DEF e, Entry
  <2>4. /\ held'[p][r] = e
        /\ \A q \in Proc, s \in Resource : q # p \/ s # r => held'[q][s] = held[q][s]
        /\ held' \in [Proc -> [Resource -> Entry]]
    BY <1>a, <2>1, <2>2, <2>3
  <2>5. QED
    BY <2>2, <2>4
<1>f. path[r] \in Inode /\ flock' = IF last THEN [flock EXCEPT ![path[r]] = None] ELSE flock
  BY <1>a, <1>c, <1>d DEF IInv, TypeOK
<1>g. \A u \in Thread : Home[u] = p => pc[u] \notin InMutex
  BY <1>d DEF IInv, MutexGuards
<1>1. TypeOK'
  <2>1. flock' \in [Inode -> Proc \cup {None}] /\ handle' \in [Thread -> [Resource -> {"none", "live", "released"}]]
    BY <1>a, <1>d, <1>f DEF IInv, TypeOK
  <2>2. QED
    BY <1>d, <1>e, <2>1 DEF IInv, TypeOK, fileVars
<1>2. CallsOrdered'
  BY <1>a, <1>d DEF IInv, TypeOK, CallsOrdered, Acquiring, InMutex
<1>3. MutexGuards'
  <2>1. \A u \in Thread : Home[u] # p => held'[Home[u]] = held[Home[u]]
    BY <1>a, <1>d DEF IInv, TypeOK
  <2>2. QED
    BY <1>b, <1>d, <1>g, <2>1 DEF IInv, MutexGuards
<1>4. DescriptorsKnown'
  <2>1. \A u \in Thread : pc[u] = "meta" => fd[u] \in Inode /\ flock[fd[u]] = Home[u] /\ Home[u] # p
    BY <1>g DEF IInv, DescriptorsKnown, InMutex
  <2>2. \A u \in Thread : pc[u] = "meta" => flock'[fd[u]] = Home[u]
    BY <1>c, <1>f, <2>1 DEF IInv, TypeOK
  <2>3. QED
    BY <1>b, <1>d, <2>2 DEF IInv, DescriptorsKnown, fileVars
<1>5. EntriesLocked'
  <2>1. ASSUME NEW q \in Proc, NEW s \in Resource, q # p \/ s # r
        PROVE  held[q][s].references > 0 => flock'[path[s]] = q
    <3>1. held[q][s].references > 0 => path[s] # None /\ path[s] \in Inode /\ flock[path[s]] = q
      BY DEF IInv, TypeOK, EntriesLocked
    <3>2. held[q][s].references > 0 => path[s] # path[r]
      BY <1>a, <1>c, <2>1, <3>1 DEF IInv, NamesDistinct
    <3>3. QED
      BY <1>f, <3>1, <3>2 DEF IInv, TypeOK
  <2>2. held'[p][r].references > 0 => ~last /\ flock'[path[r]] = p
    BY <1>a, <1>c, <1>e, <1>f DEF IInv, TypeOK
  <2>3. last <=> ~(held'[p][r].references > 0)
    BY <1>a, <1>c, <1>e DEF IInv, TypeOK
  <2>4. QED
    BY <1>a, <1>c, <1>d, <1>e, <2>1, <2>2, <2>3 DEF IInv, EntriesLocked, fileVars
<1>6. NamesDistinct' /\ PublishedIsShared'
  BY <1>d DEF IInv, NamesDistinct, PublishedIsShared, fileVars
<1>7. CountsRight'
  <2>1. \A q \in Proc, s \in Resource :
          q # Home[t] \/ s # r => held'[q][s].references = held[q][s].references
    BY <1>e DEF p
  <2>2. held'[Home[t]][r].references = held[Home[t]][r].references - 1
    BY <1>e DEF p
  <2>3. handle' = [handle EXCEPT ![t][r] = "released"]
    BY <1>d
  <2>4. QED
    BY <1>a, <2>1, <2>2, <2>3, CountsDown
<1>8. QED
  BY <1>1, <1>2, <1>3, <1>4, <1>5, <1>6, <1>7 DEF IInv

LEMMA ReturnInv ==
  ASSUME IInv, NEW t \in Thread, Return(t)
  PROVE  IInv'
<1> USE ThreadAssumption, NoneAssumption DEF Return, fileVars
<1>b. \A u \in Thread : u # t => Target(u)' = Target(u)
  BY DEF IInv, TypeOK, Target
<1>1. TypeOK'
  BY DEF IInv, TypeOK, InMutex, Unlocked
<1>2. CallsOrdered'
  BY DEF IInv, TypeOK, CallsOrdered, Live, Acquiring, InMutex
<1>3. MutexGuards'
  BY <1>b DEF IInv, TypeOK, MutexGuards, InMutex
<1>4. DescriptorsKnown'
  BY <1>b DEF IInv, TypeOK, DescriptorsKnown, Unlocked
<1>5. EntriesLocked'
  BY DEF IInv, TypeOK, EntriesLocked, DescriptorsKnown
<1>6. NamesDistinct' /\ PublishedIsShared'
  BY DEF IInv, TypeOK, NamesDistinct, PublishedIsShared
<1>7. CountsRight'
  BY CountsKept DEF IInv
<1>8. QED
  BY <1>1, <1>2, <1>3, <1>4, <1>5, <1>6, <1>7 DEF IInv

LEMMA ReleaseAgainInv ==
  ASSUME IInv, NEW t \in Thread, NEW r \in Resource, ReleaseAgain(t, r)
  PROVE  IInv'
<1> USE ThreadAssumption, NoneAssumption DEF ReleaseAgain, fileVars
<1>b. \A u \in Thread : Target(u)' = Target(u)
  BY DEF Target
<1>1. TypeOK'
  BY DEF IInv, TypeOK, InMutex, Unlocked
<1>2. CallsOrdered'
  BY DEF IInv, TypeOK, CallsOrdered, Acquiring, InMutex
<1>3. MutexGuards'
  BY <1>b DEF IInv, TypeOK, MutexGuards, InMutex
<1>4. DescriptorsKnown'
  BY <1>b DEF IInv, TypeOK, DescriptorsKnown, Unlocked
<1>5. EntriesLocked'
  BY DEF IInv, TypeOK, EntriesLocked, DescriptorsKnown
<1>6. NamesDistinct' /\ PublishedIsShared'
  BY DEF IInv, TypeOK, NamesDistinct, PublishedIsShared
<1>7. CountsRight'
  BY CountsKept DEF IInv, TypeOK
<1>8. QED
  BY <1>1, <1>2, <1>3, <1>4, <1>5, <1>6, <1>7 DEF IInv

LEMMA CrashInv ==
  ASSUME IInv, NEW p \in Proc, Crash(p)
  PROVE  IInv'
<1> USE ThreadAssumption, NoneAssumption
<1>a. /\ \A t \in Thread : Home[t] = p =>
           /\ pc'[t] = "idle" /\ want'[t] = {} /\ fd'[t] = None
           /\ \A r \in Resource : handle'[t][r] = "none"
      /\ \A t \in Thread : Home[t] # p =>
           /\ pc'[t] = pc[t] /\ want'[t] = want[t] /\ fd'[t] = fd[t]
           /\ handle'[t] = handle[t]
      /\ \A q \in Proc : q # p => held'[q] = held[q] /\ mutex'[q] = mutex[q]
      /\ \A r \in Resource : held'[p][r] = NotHeld
      /\ mutex'[p] = None
      /\ \A i \in Inode : flock'[i] = IF flock[i] = p THEN None ELSE flock[i]
      /\ UNCHANGED <<path, shared>>
  BY DEF Crash, IInv, TypeOK
<1>b. \A t \in Thread : Home[t] # p => Target(t)' = Target(t)
  BY <1>a DEF Target
<1>1. TypeOK'
  BY DEF Crash, IInv, TypeOK, Unlocked, NotHeld
<1>2. CallsOrdered'
  <2>1. "idle" \notin Acquiring
    BY DEF Acquiring, InMutex
  <2>2. QED
    BY <1>a, <2>1 DEF IInv, CallsOrdered
<1>3. MutexGuards'
  <2>1. "idle" \notin InMutex
    BY DEF InMutex
  <2>2. QED
    BY <1>a, <1>b, <2>1 DEF IInv, MutexGuards
<1>4. DescriptorsKnown'
  <2>1. ASSUME NEW t \in Thread, pc'[t] = "meta"
        PROVE  flock'[fd'[t]] = Home[t]
    BY <1>a, <2>1 DEF IInv, DescriptorsKnown
  <2>2. \A t \in Thread : Home[t] = p => pc'[t] = "idle" /\ fd'[t] = None
    BY <1>a
  <2>3. QED
    BY <1>a, <1>b, <2>1, <2>2 DEF IInv, DescriptorsKnown, Unlocked
<1>5. EntriesLocked'
  <2>1. \A r \in Resource : held'[p][r].references = 0 /\ held'[p][r].fd = None
    BY <1>a DEF NotHeld
  <2>2. ASSUME NEW q \in Proc, NEW r \in Resource, q # p
        PROVE  held[q][r].references > 0 => flock'[path[r]] = q
    <3>1. held[q][r].references > 0 => path[r] \in Inode /\ flock[path[r]] = q
      BY DEF IInv, TypeOK, EntriesLocked
    <3>2. QED
      BY <1>a, <2>2, <3>1
  <2>3. QED
    BY <1>a, <2>1, <2>2 DEF IInv, EntriesLocked
<1>6. NamesDistinct' /\ PublishedIsShared'
  BY <1>a DEF IInv, NamesDistinct, PublishedIsShared
<1>7. CountsRight'
  <2>1. \A r \in Resource : UsersOf(p, r)' = {}
    BY <1>a DEF UsersOf
  <2>2. \A q \in Proc, r \in Resource : q # p => UsersOf(q, r)' = UsersOf(q, r)
    BY <1>a DEF UsersOf
  <2>3. \A r \in Resource : held'[p][r].references = 0
    BY <1>a DEF NotHeld
  <2>4. \A q \in Proc, r \in Resource : q # p => held'[q][r] = held[q][r]
    BY <1>a
  <2>5. \A r \in Resource : held'[p][r].references = Cardinality(UsersOf(p, r)')
    BY <2>1, <2>3, FS_EmptySet
  <2>6. \A q \in Proc, r \in Resource :
          q # p => held'[q][r].references = Cardinality(UsersOf(q, r)')
    BY <2>2, <2>4 DEF IInv, CountsRight
  <2>7. QED
    BY <2>5, <2>6 DEF CountsRight
<1>8. QED
  BY <1>1, <1>2, <1>3, <1>4, <1>5, <1>6, <1>7 DEF IInv

LEMMA StepInv == IInv /\ [Next]_vars => IInv'
<1> SUFFICES ASSUME IInv, [Next]_vars PROVE IInv'
  OBVIOUS
<1>1. CASE UNCHANGED vars
  <2>1. UNCHANGED <<fileVars, flock, mutex, held, callVars>>
    BY <1>1 DEF vars
  <2>2. CountsRight'
    BY <2>1, CountsKept DEF IInv, callVars
  <2>3. \A t \in Thread : Target(t)' = Target(t)
    BY <2>1 DEF Target, callVars
  <2>4. QED
    BY <2>1, <2>2, <2>3 DEF IInv, TypeOK, CallsOrdered, MutexGuards, DescriptorsKnown, EntriesLocked,
       NamesDistinct, PublishedIsShared, fileVars, callVars
<1>2. ASSUME NEW t \in Thread, NEW R \in (SUBSET Resource) \ {{}}, NEW w \in BOOLEAN, Call(t, R, w)
      PROVE  IInv'
  BY <1>2, CallInv
<1>3. ASSUME NEW t \in Thread, Progress(t) \/ Faults(t)
      PROVE  IInv'
  BY <1>3, PublishDirectoryInv, DirectoryFailsInv, ShareInv, OpenExistingInv, MakeTempInv,
     ShareModeInv, LinkInv, ReopenInv, LockFileInv, LockRefusedInv, ReadHolderInv, EnterHeldInv,
     SetupFailsInv, GiveUpInv, RetryInv, ReleaseInv, ReturnInv DEF Progress, Faults
<1>4. ASSUME NEW t \in Thread, Leave(t) \/ Expire(t)
      PROVE  IInv'
  BY <1>4, LeaveInv, ExpireInv
<1>5. ASSUME NEW t \in Thread, NEW r \in Resource, ReleaseAgain(t, r)
      PROVE  IInv'
  BY <1>5, ReleaseAgainInv
<1>6. ASSUME NEW p \in Proc, Crash(p)
      PROVE  IInv'
  BY <1>6, CrashInv
<1>7. QED
  BY <1>1, <1>2, <1>3, <1>4, <1>5, <1>6 DEF Next

THEOREM Invariance == Spec => []IInv
BY InitInv, StepInv, PTL DEF Spec

----------------------------------------------------------------------------
(* What the invariant means for the users of a reservation *)

(* Two threads with a live handle on one resource run in one process: both *)
(* their processes hold the kernel lock of the one published file.         *)
LEMMA UsersShareHome ==
  ASSUME IInv, NEW t \in Thread, NEW u \in Thread, NEW r \in Resource,
         handle[t][r] = "live", handle[u][r] = "live"
  PROVE  Home[t] = Home[u]
<1>1. Home[t] \in Proc /\ Home[u] \in Proc
  BY ThreadAssumption
<1>2. held[Home[t]][r].references > 0 /\ held[Home[u]][r].references > 0
  BY LiveCounted
<1>3. QED
  BY <1>1, <1>2 DEF IInv, EntriesLocked

(* reservation.py keeps every variable in its range. *)
THEOREM TypeCorrect == Spec => []TypeOK
<1>1. IInv => TypeOK
  BY DEF IInv
<1>2. QED
  BY <1>1, Invariance, PTL

(* A resource is used by the threads of one process at a time. *)
THEOREM Exclusion == Spec => []MutualExclusion
<1>1. IInv => MutualExclusion
  BY UsersShareHome DEF MutualExclusion, Live
<1>2. QED
  BY <1>1, Invariance, PTL

(* The reference count of a process counts the live handles, so that the   *)
(* lock is dropped with the last one and never before.                     *)
THEOREM CountsAreExact == Spec => []ReferencesCountHandles
<1>1. ASSUME IInv PROVE ReferencesCountHandles
  <2>1. \A p \in Proc, r \in Resource :
          {t \in Thread : Home[t] = p /\ r \in Live(t)} = UsersOf(p, r)
    BY DEF Live, UsersOf
  <2>2. QED
    BY <1>1, <2>1 DEF IInv, CountsRight, ReferencesCountHandles
<1>2. QED
  BY <1>1, Invariance, PTL

(* A call that is over, by return or by error, has nothing. *)
THEOREM NothingLeftBehind == Spec => []RaisedHoldsNothing
<1>1. IInv => RaisedHoldsNothing
  BY DEF IInv, CallsOrdered, RaisedHoldsNothing, Live
<1>2. QED
  BY <1>1, Invariance, PTL

(* Lexical order: two calls never wait for what the other one has. *)
THEOREM NoEmbrace == Spec => []NoDeadlyEmbrace
<1>1. ASSUME IInv PROVE NoDeadlyEmbrace
  <2>1. SUFFICES ASSUME NEW t \in Thread, NEW u \in Thread,
                        pc[t] \in Acquiring, pc[u] \in Acquiring,
                        Target(t) \in Live(u), Target(u) \in Live(t)
                 PROVE  FALSE
    BY DEF NoDeadlyEmbrace
  <2>2. Target(t) \in want[t] /\ Target(u) \in want[u] /\ Target(t) \in Nat /\ Target(u) \in Nat
    BY <1>1, <2>1, TargetInResource, ResourceAssumption
  <2>3. Target(u) < Target(t) /\ Target(t) < Target(u)
    BY <1>1, <2>1, <2>2 DEF IInv, CallsOrdered, Live
  <2>4. QED
    BY <2>2, <2>3
<1>2. QED
  BY <1>1, Invariance, PTL

(* A locked inode is locked for an entry of _HELD or for the thread that   *)
(* is about to make one.                                                   *)
LocksOwed ==
  \A i \in Inode : flock[i] # None =>
    \/ \E p \in Proc, r \in Resource : held[p][r].references > 0 /\ held[p][r].fd = i
    \/ \E t \in Thread : pc[t] = "meta" /\ fd[t] = i

(* Steps of a thread that is not writing metadata, and that touch neither  *)
(* the entries nor the locks, keep every lock owed.                        *)
LEMMA LocksOwedKept ==
  ASSUME IInv, LocksOwed, NEW t \in Thread, pc[t] # "meta", UNCHANGED <<held, flock>>,
         \A u \in Thread : u # t => pc'[u] = pc[u] /\ fd'[u] = fd[u]
  PROVE  LocksOwed'
BY DEF LocksOwed

LEMMA EnterHeldOwed ==
  ASSUME IInv, LocksOwed, NEW t \in Thread, EnterHeld(t)
  PROVE  LocksOwed'
<1> DEFINE q == Home[t]
           s == Target(t)
<1>1. q \in Proc /\ s \in Resource /\ held[q][s].references = 0 /\ pc[t] = "meta"
  BY ThreadAssumption, TargetInResource DEF IInv, MutexGuards, EnterHeld, Acquiring, InMutex
<1>2. held' = [held EXCEPT ![q][s] = [fd |-> fd[t], references |-> 1]]
  BY DEF EnterHeld
<1> HIDE DEF q, s
<1>3. /\ held'[q][s].references = 1 /\ held'[q][s].fd = fd[t]
      /\ \A p \in Proc, r \in Resource : p # q \/ r # s => held'[p][r] = held[p][r]
  BY <1>1, <1>2 DEF IInv, TypeOK
<1>4. \A u \in Thread : u # t => pc'[u] = pc[u] /\ fd'[u] = fd[u]
  BY DEF EnterHeld, Acquired, IInv, TypeOK
<1>5. flock' = flock
  BY DEF EnterHeld
<1>6. ASSUME NEW i \in Inode, flock[i] # None
      PROVE  \/ \E p \in Proc, r \in Resource : held'[p][r].references > 0 /\ held'[p][r].fd = i
             \/ \E u \in Thread : pc'[u] = "meta" /\ fd'[u] = i
  <2>1. CASE i = fd[t]
    BY <1>1, <1>3, <2>1
  <2>2. CASE \E p \in Proc, r \in Resource : held[p][r].references > 0 /\ held[p][r].fd = i
    <3>1. PICK p \in Proc, r \in Resource : held[p][r].references > 0 /\ held[p][r].fd = i
      BY <2>2
    <3>2. p # q \/ r # s
      BY <1>1, <3>1
    <3>3. held'[p][r] = held[p][r]
      BY <1>3, <3>2
    <3>4. QED
      BY <3>1, <3>3
  <2>3. CASE i # fd[t] /\ \E u \in Thread : pc[u] = "meta" /\ fd[u] = i
    BY <1>4, <2>3
  <2>4. QED
    BY <1>6, <2>1, <2>2, <2>3 DEF LocksOwed
<1>7. QED
  BY <1>5, <1>6 DEF LocksOwed

LEMMA ReleaseOwed ==
  ASSUME IInv, LocksOwed, NEW t \in Thread, Release(t)
  PROVE  LocksOwed'
<1> DEFINE q == Home[t]
           s == Greatest(Live(t))
<1>1. q \in Proc /\ s \in Resource /\ held[q][s].references > 0 /\ held[q][s].references \in Nat
  BY ThreadAssumption, GreatestIsLive, LiveCounted DEF Release, IInv, TypeOK
<1>2. Dereference(q, s) /\ pc' = pc /\ fd' = fd
  BY DEF Release
<1> HIDE DEF q, s
<1>3. \A p \in Proc, r \in Resource : p # q \/ r # s => held'[p][r] = held[p][r]
  BY <1>1, <1>2 DEF Dereference, IInv, TypeOK
<1>4. ASSUME NEW i \in Inode, flock'[i] # None
      PROVE  \/ \E p \in Proc, r \in Resource : held'[p][r].references > 0 /\ held'[p][r].fd = i
             \/ \E u \in Thread : pc'[u] = "meta" /\ fd'[u] = i
  <2>1. flock[i] # None
    BY <1>1, <1>2, <1>4 DEF Dereference, IInv, TypeOK
  <2>2. CASE \E u \in Thread : pc[u] = "meta" /\ fd[u] = i
    BY <1>2, <2>2
  <2>3. CASE \E p \in Proc, r \in Resource : held[p][r].references > 0 /\ held[p][r].fd = i
    <3>1. PICK p \in Proc, r \in Resource : held[p][r].references > 0 /\ held[p][r].fd = i
      BY <2>3
    <3>2. CASE p # q \/ r # s
      BY <1>3, <3>1, <3>2
    <3>3. CASE p = q /\ r = s
      <4>1. held[q][s].references # 1
        BY <1>1, <1>2, <1>4, <3>1, <3>3 DEF Dereference, IInv, TypeOK
      <4>2. held'[q][s] = [fd |-> i, references |-> held[q][s].references - 1]
        BY <1>1, <1>2, <3>1, <3>3, <4>1 DEF Dereference, IInv, TypeOK
      <4>3. held'[q][s].references > 0 /\ held'[q][s].fd = i
        BY <1>1, <4>1, <4>2
      <4>4. QED
        BY <1>1, <4>3
    <3>4. QED
      BY <3>2, <3>3
  <2>4. QED
    BY <2>1, <2>2, <2>3 DEF LocksOwed
<1>5. QED
  BY <1>4 DEF LocksOwed

LEMMA CrashOwed ==
  ASSUME IInv, LocksOwed, NEW q \in Proc, Crash(q)
  PROVE  LocksOwed'
<1> SUFFICES ASSUME NEW i \in Inode, flock'[i] # None
             PROVE  \/ \E p \in Proc, r \in Resource : held'[p][r].references > 0 /\ held'[p][r].fd = i
                    \/ \E u \in Thread : pc'[u] = "meta" /\ fd'[u] = i
  BY DEF LocksOwed
<1>1. flock[i] # None /\ flock[i] # q
  BY DEF Crash
<1>2. CASE \E u \in Thread : pc[u] = "meta" /\ fd[u] = i
  <2>1. PICK u \in Thread : pc[u] = "meta" /\ fd[u] = i
    BY <1>2
  <2>2. Home[u] # q
    BY <1>1, <2>1 DEF IInv, DescriptorsKnown
  <2>3. QED
    BY <2>1, <2>2 DEF Crash
<1>3. CASE \E p \in Proc, r \in Resource : held[p][r].references > 0 /\ held[p][r].fd = i
  <2>1. PICK p \in Proc, r \in Resource : held[p][r].references > 0 /\ held[p][r].fd = i
    BY <1>3
  <2>2. p # q
    BY <1>1, <2>1 DEF IInv, EntriesLocked
  <2>3. held'[p][r] = held[p][r]
    BY <2>1, <2>2 DEF Crash, IInv, TypeOK
  <2>4. QED
    BY <2>1, <2>3
<1>4. QED
  BY <1>1, <1>2, <1>3 DEF LocksOwed

LEMMA OwedStep == IInv /\ LocksOwed /\ [Next]_vars => LocksOwed'
<1> SUFFICES ASSUME IInv, LocksOwed, [Next]_vars PROVE LocksOwed'
  OBVIOUS
<1>1. CASE UNCHANGED vars
  BY <1>1 DEF LocksOwed, vars, callVars
<1>2. ASSUME NEW t \in Thread, LockFile(t) PROVE LocksOwed'
  BY <1>2 DEF LockFile, LocksOwed, IInv, TypeOK
<1>3. ASSUME NEW t \in Thread, SetupFails(t) PROVE LocksOwed'
  <2>1. CASE pc[t] = "meta"
    <3>1. /\ held' = held
          /\ \A u \in Thread : u # t => pc'[u] = pc[u] /\ fd'[u] = fd[u]
          /\ flock' = [flock EXCEPT ![fd[t]] = None]
      BY <1>3, <2>1 DEF SetupFails, IInv, TypeOK
    <3>2. fd[t] \in Inode
      BY <2>1 DEF IInv, DescriptorsKnown
    <3>3. ASSUME NEW i \in Inode, flock'[i] # None
          PROVE  \/ \E p \in Proc, r \in Resource : held'[p][r].references > 0 /\ held'[p][r].fd = i
                 \/ \E u \in Thread : pc'[u] = "meta" /\ fd'[u] = i
      <4>1. i # fd[t] /\ flock[i] # None
        BY <3>1, <3>2, <3>3 DEF IInv, TypeOK
      <4>2. \/ \E p \in Proc, r \in Resource : held[p][r].references > 0 /\ held[p][r].fd = i
            \/ \E u \in Thread : u # t /\ pc[u] = "meta" /\ fd[u] = i
        BY <4>1 DEF LocksOwed
      <4>3. QED
        BY <3>1, <4>2
    <3>4. QED
      BY <3>3 DEF LocksOwed
  <2>2. CASE pc[t] # "meta"
    <3>1. /\ UNCHANGED <<held, flock>>
          /\ \A u \in Thread : u # t => pc'[u] = pc[u] /\ fd'[u] = fd[u]
      BY <1>3, <2>2 DEF SetupFails, IInv, TypeOK
    <3>2. QED
      BY <2>2, <3>1, LocksOwedKept
  <2>3. QED
    BY <2>1, <2>2
<1>4. ASSUME NEW t \in Thread, Share(t) PROVE LocksOwed'
  <2> DEFINE s == Target(t)
  <2>1. s \in Resource /\ Home[t] \in Proc /\ pc[t] # "meta"
    BY <1>4, TargetInResource, ThreadAssumption DEF Share, Acquiring
  <2>2. /\ held' = [held EXCEPT ![Home[t]][s] = [fd |-> @.fd, references |-> @.references + 1]]
        /\ held[Home[t]][s].references > 0
        /\ UNCHANGED <<flock, fd>>
        /\ \A u \in Thread : u # t => pc'[u] = pc[u]
    BY <1>4 DEF Share, Acquired, IInv, TypeOK
  <2> HIDE DEF s
  <2>3. \A p \in Proc, r \in Resource :
          held[p][r].references > 0 => held'[p][r].references > 0 /\ held'[p][r].fd = held[p][r].fd
    BY <2>1, <2>2 DEF IInv, TypeOK
  <2>4. QED
    BY <2>1, <2>2, <2>3 DEF LocksOwed
<1>5. ASSUME NEW t \in Thread,
             \/ \E R \in (SUBSET Resource) \ {{}}, w \in BOOLEAN : Call(t, R, w)
             \/ \E r \in Resource : ReleaseAgain(t, r)
             \/ PublishDirectory(t) \/ Expire(t) \/ OpenExisting(t) \/ MakeTemp(t) \/ ShareMode(t)
             \/ Link(t) \/ Reopen(t) \/ LockRefused(t) \/ ReadHolder(t) \/ GiveUp(t) \/ Retry(t)
             \/ DirectoryFails(t) \/ Leave(t) \/ Return(t)
      PROVE  LocksOwed'
  <2>1. UNCHANGED <<held, flock>>
    BY <1>5 DEF Call, PublishDirectory, Expire, OpenExisting, MakeTemp, ShareMode, Link, Reopen,
       LockRefused, ReadHolder, GiveUp, Retry, DirectoryFails, Leave, Return, ReleaseAgain, fileVars
  <2>2. \A u \in Thread : u # t => pc'[u] = pc[u] /\ fd'[u] = fd[u]
    BY <1>5 DEF Call, PublishDirectory, Expire, OpenExisting, MakeTemp, ShareMode, Link, Reopen,
       LockRefused, ReadHolder, GiveUp, Retry, DirectoryFails, Leave, Return, ReleaseAgain, IInv, TypeOK
  <2>3. pc[t] # "meta" \/ (pc' = pc /\ fd' = fd)
    BY <1>5 DEF Call, PublishDirectory, Expire, OpenExisting, MakeTemp, ShareMode, Link, Reopen,
       LockRefused, ReadHolder, GiveUp, Retry, DirectoryFails, Leave, Return, ReleaseAgain
  <2>4. QED
    BY <2>1, <2>2, <2>3, LocksOwedKept DEF LocksOwed
<1>6. QED
  BY <1>1, <1>2, <1>3, <1>4, <1>5, EnterHeldOwed, ReleaseOwed, CrashOwed DEF Next, Progress, Faults

(* The kernel lock of a file is held exactly for an entry of _HELD or by   *)
(* the thread about to make one: no failed acquisition and no lost process *)
(* leaves a resource locked for good.                                      *)
THEOREM NoLockIsLeft == Spec => []LocksAccounted
<1>1. Init => LocksOwed
  BY DEF Init, LocksOwed
<1>2. ASSUME IInv, LocksOwed PROVE LocksAccounted
  <2>1. ASSUME NEW p \in Proc, NEW r \in Resource, held[p][r].references > 0
        PROVE  flock[held[p][r].fd] # None
    BY <1>2, <2>1, NoneAssumption DEF IInv, EntriesLocked
  <2>2. ASSUME NEW t \in Thread, pc[t] = "meta"
        PROVE  flock[fd[t]] # None
    BY <1>2, <2>2, ThreadAssumption, NoneAssumption DEF IInv, DescriptorsKnown
  <2>3. QED
    BY <1>2, <2>1, <2>2 DEF LocksOwed, LocksAccounted
<1>3. QED
  BY <1>1, <1>2, OwedStep, Invariance, PTL DEF Spec

(* The safety property of the run, for every number of processes, threads, *)
(* resources and inodes.                                                   *)
THEOREM Safe == Spec => []Safety
<1>1. IInv => PublishedIsShared
  BY DEF IInv
<1>2. QED
  BY <1>1, Invariance, TypeCorrect, Exclusion, CountsAreExact, NoLockIsLeft, PTL DEF Safety

(* The inode a lock file's name stands for never changes: waiters and      *)
(* holders meet on the same lock.                                          *)
THEOREM NamesStay == Spec => NameKeepsInode
<1>1. [Next]_vars => [\A r \in Resource : path[r] # None => path'[r] = path[r]]_path
  <2> SUFFICES ASSUME [Next]_vars, NEW r \in Resource, path[r] # None PROVE path'[r] = path[r]
    OBVIOUS
  <2>1. ASSUME NEW t \in Thread, Link(t) PROVE path'[r] = path[r]
    BY <2>1 DEF Link
  <2>2. QED
    BY <2>1 DEF Next, Progress, Faults, vars, fileVars, Call, PublishDirectory, Expire, Share, OpenExisting,
       MakeTemp, ShareMode, Reopen, LockFile, LockRefused, ReadHolder, EnterHeld, GiveUp, Retry,
       SetupFails, DirectoryFails, Leave, Release, Return, ReleaseAgain, Crash
<1>2. QED
  BY <1>1, PTL DEF Spec, NameKeepsInode

----------------------------------------------------------------------------
(* Reservation implements ResourceLock *)

(* Steps that change no live handle are stutters of the abstract lock. *)
LEMMA HandlesKept ==
  ASSUME \A t \in Thread, r \in Resource : handle'[t][r] = "live" <=> handle[t][r] = "live"
  PROVE  Users' = Users
BY DEF Users, Live

LEMMA AcquiredIsGrab ==
  ASSUME IInv, NEW t \in Thread, pc[t] \in Acquiring, Acquired(t, Target(t)),
         flock[path[Target(t)]] = Home[t]
  PROVE  Lock!Grab(t, Target(t))
<1> DEFINE r == Target(t)
<1>1. r \in Resource /\ handle[t][r] # "live"
  BY TargetInResource, TargetIsNew
<1> HIDE DEF r
<1>2. handle' = [handle EXCEPT ![t][r] = "live"]
  BY DEF Acquired, r
<1>3. /\ handle'[t][r] = "live"
      /\ \A u \in Thread, s \in Resource : u # t \/ s # r => handle'[u][s] = handle[u][s]
  BY <1>1, <1>2 DEF IInv, TypeOK
<1>4. \A u \in Users[r] : Home[u] = Home[t]
  <2>1. ASSUME NEW u \in Users[r] PROVE Home[u] = Home[t]
    <3>1. u \in Thread /\ handle[u][r] = "live"
      BY <1>1, <2>1 DEF Users, Live
    <3>2. held[Home[u]][r].references > 0 /\ Home[u] \in Proc
      BY <1>1, <3>1, LiveCounted, ThreadAssumption
    <3>3. QED
      BY <1>1, <3>2 DEF IInv, EntriesLocked, r
  <2>2. QED
    BY <2>1
<1>5. Users' = [Users EXCEPT ![r] = @ \cup {t}] /\ t \notin Users[r]
  <2>1. Users'[r] = Users[r] \cup {t} /\ t \notin Users[r]
    BY <1>1, <1>3 DEF Users, Live
  <2>2. \A s \in Resource : s # r => Users'[s] = Users[s]
    BY <1>1, <1>3 DEF Users, Live
  <2>3. Users = [s \in Resource |-> Users[s]] /\ Users' = [s \in Resource |-> Users'[s]]
    BY DEF Users
  <2>4. QED
    BY <1>1, <2>1, <2>2, <2>3
<1>6. QED
  BY <1>4, <1>5 DEF Lock!Grab, r

LEMMA ReleaseIsDrop ==
  ASSUME IInv, NEW t \in Thread, Release(t)
  PROVE  Lock!Drop(t, Greatest(Live(t)))
<1> DEFINE r == Greatest(Live(t))
<1>1. r \in Resource /\ handle[t][r] = "live"
  BY GreatestIsLive DEF Release
<1> HIDE DEF r
<1>2. handle' = [handle EXCEPT ![t][r] = "released"]
  BY DEF Release, r
<1>3. /\ handle'[t][r] # "live"
      /\ \A u \in Thread, s \in Resource : u # t \/ s # r => handle'[u][s] = handle[u][s]
  BY <1>1, <1>2 DEF IInv, TypeOK
<1>4. Users' = [Users EXCEPT ![r] = @ \ {t}] /\ t \in Users[r]
  <2>1. Users'[r] = Users[r] \ {t} /\ t \in Users[r]
    BY <1>1, <1>3 DEF Users, Live
  <2>2. \A s \in Resource : s # r => Users'[s] = Users[s]
    BY <1>1, <1>3 DEF Users, Live
  <2>3. Users = [s \in Resource |-> Users[s]] /\ Users' = [s \in Resource |-> Users'[s]]
    BY DEF Users
  <2>4. QED
    BY <1>1, <2>1, <2>2, <2>3
<1>5. QED
  BY <1>4 DEF Lock!Drop, r

LEMMA CrashIsDie ==
  ASSUME IInv, NEW p \in Proc, Crash(p)
  PROVE  Lock!Die(p)
<1>1. \A t \in Thread, r \in Resource :
        handle'[t][r] = "live" <=> handle[t][r] = "live" /\ Home[t] # p
  BY DEF Crash, IInv, TypeOK
<1>2. QED
  BY <1>1 DEF Users, Live, Lock!Die

(* Every step of reservation.py is a step of the abstract lock or none. *)
THEOREM Implements == Spec => LockSpec
<1>1. Init => Lock!Init
  BY DEF Init, Lock!Init, Users, Live
<1>2. ASSUME IInv, [Next]_vars PROVE [Lock!Next]_Users
  <2>1. ASSUME NEW t \in Thread, NEW R \in (SUBSET Resource) \ {{}}, NEW w \in BOOLEAN, Call(t, R, w)
        PROVE  Users' = Users
    <3>1. \A u \in Thread, r \in Resource : handle'[u][r] = "live" <=> handle[u][r] = "live"
      BY <1>2, <2>1 DEF Call, IInv, TypeOK, CallsOrdered
    <3>2. QED
      BY <3>1, HandlesKept
  <2>2. ASSUME NEW t \in Thread, Share(t) \/ EnterHeld(t)
        PROVE  Lock!Next
    <3>1. pc[t] \in Acquiring /\ Acquired(t, Target(t))
      BY <2>2 DEF Share, EnterHeld, Acquiring, InMutex
    <3>2. Target(t) \in Resource /\ Home[t] \in Proc
      BY <1>2, <3>1, TargetInResource, ThreadAssumption
    <3>3. flock[path[Target(t)]] = Home[t]
      <4>1. CASE Share(t)
        BY <1>2, <3>2, <4>1 DEF Share, IInv, EntriesLocked
      <4>2. CASE EnterHeld(t)
        BY <1>2, <4>2 DEF EnterHeld, IInv, DescriptorsKnown
      <4>3. QED
        BY <2>2, <4>1, <4>2
    <3>4. Lock!Grab(t, Target(t))
      BY <1>2, <3>1, <3>3, AcquiredIsGrab
    <3>5. QED
      BY <3>2, <3>4 DEF Lock!Next
  <2>3. ASSUME NEW t \in Thread, Release(t)
        PROVE  Lock!Next
    <3>1. Lock!Drop(t, Greatest(Live(t))) /\ Greatest(Live(t)) \in Resource
      BY <1>2, <2>3, ReleaseIsDrop, GreatestIsLive DEF Release
    <3>2. QED
      BY <3>1 DEF Lock!Next
  <2>4. ASSUME NEW t \in Thread, NEW r \in Resource, ReleaseAgain(t, r)
        PROVE  Users' = Users
    <3>1. \A u \in Thread, s \in Resource : handle'[u][s] = "live" <=> handle[u][s] = "live"
      BY <1>2, <2>4 DEF ReleaseAgain, IInv, TypeOK
    <3>2. QED
      BY <3>1, HandlesKept
  <2>5. ASSUME NEW p \in Proc, Crash(p)
        PROVE  Lock!Next
    BY <1>2, <2>5, CrashIsDie DEF Lock!Next
  <2>6. ASSUME UNCHANGED handle
        PROVE  Users' = Users
    BY <2>6, HandlesKept
  <2>7. ASSUME NEW t \in Thread, Progress(t) \/ Faults(t) \/ Leave(t) \/ Expire(t)
        PROVE  Lock!Next \/ Users' = Users
    BY <2>2, <2>3, <2>6, <2>7 DEF Progress, Faults, PublishDirectory, Expire, OpenExisting, MakeTemp, ShareMode,
       Link, Reopen, LockFile, LockRefused, ReadHolder, GiveUp, Retry, SetupFails, DirectoryFails, Leave, Return
  <2>8. QED
    BY <1>2, <2>1, <2>4, <2>5, <2>6, <2>7 DEF Next, vars, callVars
<1>3. QED
  BY <1>1, <1>2, Invariance, PTL DEF Spec, LockSpec, Lock!Spec
=============================================================================
