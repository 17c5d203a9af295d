------------------------------- MODULE MCServos -------------------------------
(* A small instance of Servos.                                             *)
EXTENDS Servos, TLC

CONSTANTS m1, m2, a, b

\* Two bytes of current beside one of temperature.
Table == ("current" :> <<1, 2>>) @@ ("temperature" :> <<4, 1>>)

\* The motors of the registers, in bus order.
Order == <<m1, m2>>

\* Either leg may be the arm of a wave.
Arms == [mo \in {"idle", "nod", "wave", "stretch", "dance"} |-> IF mo = "wave" THEN {{a}, {b}} ELSE {{}}]

\* Limits with room on one side only, and with the joint outside them.
Windows == {<<-2, 40>>, <<3, 9>>}

\* Legs are alike; motors are not, they have a bus order.
Symmetry == Permutations({a, b})
==============================================================================
