-------------------------- MODULE MC_VectorConfig --------------------------
(* VectorConfig with registers of 64 bits.  Every group boundary scales     *)
(* with VLEN, so 64 is enough for elements of 8, 16 and 32 bits to share a  *)
(* register in every proportion.                                            *)
EXTENDS VectorConfig

SomeAvls == {0, 3, 31, 300}
SomeRegs == {0, 1, 2, 4, 6, 28, 31}
SomeFields == {1, 3}
=============================================================================
