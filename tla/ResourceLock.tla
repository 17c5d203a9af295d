---------------------------- MODULE ResourceLock ----------------------------
(***************************************************************************)
(* What a reservation promises, without files, inodes or retries: a        *)
(* logical hardware resource is used by any number of threads of ONE       *)
(* process at a time.  Reservation.tla implements this module.             *)
(***************************************************************************)

CONSTANTS
  Thread,    (* the threads that may reserve                              *)
  Proc,      (* the processes they run in                                 *)
  Home,      (* Home[t] is the process of thread t                        *)
  Resource   (* the logical resources                                     *)

VARIABLE users     (* users[r] is the set of threads using resource r     *)

TypeOK == users \in [Resource -> SUBSET Thread]

Init == users = [r \in Resource |-> {}]

Grab(t, r) ==
  /\ t \notin users[r]
  /\ \A u \in users[r] : Home[u] = Home[t]
  /\ users' = [users EXCEPT ![r] = @ \cup {t}]

Drop(t, r) ==
  /\ t \in users[r]
  /\ users' = [users EXCEPT ![r] = @ \ {t}]

(* The death of a process drops everything its threads use.               *)
Die(p) ==
  users' = [r \in Resource |-> {u \in users[r] : Home[u] # p}]

Next ==
  \/ \E t \in Thread, r \in Resource : Grab(t, r) \/ Drop(t, r)
  \/ \E p \in Proc : Die(p)

Spec == Init /\ [][Next]_users
=============================================================================
