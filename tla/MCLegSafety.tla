----------------------------- MODULE MCLegSafety -----------------------------
(* LegSafety with leg motors that may be the arm of a wave (wave_leg), and *)
(* currents on both sides of both thresholds.                              *)
EXTENDS LegSafety

CONSTANTS a, b

Arms == [mo \in Motion |-> IF mo = "wave" THEN {{a}, {b}} ELSE {{}}]

Currents == {0, 700, 1200}

(* Every axis answers, or none does.                                       *)
Complete ==
  {[current |-> c, low |-> l, home |-> h] :
     c \in [Motor -> Currents], l \in BOOLEAN, h \in {{}, {a}, {a, b}}}
Nothing == [current |-> <<>>, low |-> FALSE, home |-> {}]

(* An axis is missing. *)
Partial ==
  {[current |-> c, low |-> l, home |-> {}] : c \in [{b} -> Currents] \cup [{a} -> Currents], l \in BOOLEAN}

AllSweeps == Complete \cup Partial \cup {Nothing}
=============================================================================
