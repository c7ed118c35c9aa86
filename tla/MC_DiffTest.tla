---------------------------- MODULE MC_DiffTest ----------------------------
(* DiffTest with an X and a V register, fcsr of two one-bit parts, mepc, and *)
(* the names that are refused: mcause, which the shadow state does not have, *)
(* and mtval, which it has.                                                  *)
EXTENDS DiffTest

SomeFields == {"fcsr", "mepc", "mtval"}
SomeNames == {"fcsr", "fflags", "frm", "mepc", "mcause", "mtval"}
TwoValues == [f \in Whole |-> 2]
=============================================================================
