------------------------------ MODULE MCHealIdx ------------------------------
(* Two slots a day on the first two days, one on the third; the first day is *)
(* over when the model starts. Slots 0 and 1 share a bin.                    *)
EXTENDS HealIdx

MCSlots == 0..4
MCDays == 0..2
MCDayOf == [t \in MCSlots |-> t \div 2]
MCBin == [t \in MCSlots |-> IF t = 1 THEN 0 ELSE t]
MCSeeds == SUBSET (({"own"} \X (0..2)) \cup {<<"foreign", 0>>})
=============================================================================
