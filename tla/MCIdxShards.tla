----------------------------- MODULE MCIdxShards -----------------------------
(* IdxShards on a four-slot clock: two slots on the first UTC day, so that a *)
(* straggler can go back to it, and one on each of the next two.             *)
EXTENDS IdxShards

MCSlots == 0..3
MCDays == 0..2
MCDayOf == [t \in MCSlots |-> IF t = 0 THEN 0 ELSE t - 1]

Symmetry == Permutations(Files)
=============================================================================
