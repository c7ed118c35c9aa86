------------------------------ MODULE MC_Cosim -------------------------------
(* Programs of two instructions and their exit; a register of each kind,     *)
(* fcsr of two one-bit parts, mscratch, and mcause, which the replay refuses *)
EXTENDS Cosim

SomeRegs == {X1, F1, V1}
SomeFields == {"fcsr", "mscratch"}
SomeNames == {"fcsr", "fflags", "frm", "mscratch", "mcause"}
SomePcs == {0, 4, 8, 12, 16, 20, 24, 28, 40, 44, 48, 52}
TwoValues == [f \in Whole |-> 2]
AllListed == {"fcsr", "vtype", "vl", "vcsr", "vstart", "mstatus", "mstatush", "mtvec",
              "mtval", "mepc", "mie", "mscratch"}
=============================================================================
