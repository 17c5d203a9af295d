--------------------------- MODULE MCReservation ---------------------------
(* Instances of Reservation for TLC. *)
EXTENDS Reservation, TLC

CONSTANTS p1, p2, t1, t2, t3, i1, i2, i3

(* Two threads share process p1, the third is a process of its own. *)
HomeShared == (t1 :> p1) @@ (t2 :> p1) @@ (t3 :> p2)

(* One thread in each of two processes. *)
HomeAlone == (t1 :> p1) @@ (t3 :> p2)

Inodes == Permutations(Inode)
=============================================================================
