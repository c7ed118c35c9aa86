---------------------------- MODULE MC_VectorMem ----------------------------
(* VectorMem with three elements, two fields and seven addresses.          *)
EXTENDS VectorMem

\* The data groups hold offsets, so that any of them can be an index operand.
SomeContents == [s \in Slots |-> IF s[1] = 0 THEN 2 * s[2] ELSE 4 - s[2]]
SomeIndex == [i \in Elems |-> (5 * i) % 4]
SomeMemory == [a \in Addrs |-> 10 + a]
SomeMapped == {{}, {0, 1, 2}, {1, 3, 5}, Addrs}
\* Address 6 stands for what no handler repairs.
SomeRepairable == Addrs \ {6}
SomeVStarts == {0, 1, 3, 4}

Inst(op, mode, nf, vl, active, stride, overlap) ==
  [op |-> op, mode |-> mode, nf |-> nf, vl |-> vl, active |-> active, base |-> 0,
   stride |-> stride, overlap |-> overlap]

All == {0, 1, 2}

AllInsts ==
  {Inst(op, mode, nf, 3, active, stride, None) :
     op \in {"load", "store"}, mode \in {"unit", "indexed"}, nf \in {1, 2},
     active \in {All, {0, 2}}, stride \in {0}}
  \cup {Inst(op, "strided", nf, 3, All, stride, None) :
          op \in {"load", "store"}, nf \in {1, 2}, stride \in {0, 1, 6}}
  \cup {Inst(op, "indexed", nf, 3, All, 0, overlap) :
          op \in {"load", "store"}, nf \in {1, 2}, overlap \in {0}}
  \cup {Inst(op, "indexed", 2, 3, All, 0, 1) : op \in {"load", "store"}}
  \cup {Inst(op, "whole", 1, 2, {}, 0, None) : op \in {"load", "store"}}
  \cup {Inst(op, "mask", 1, 9, {}, 0, None) : op \in {"load", "store"}}
=============================================================================
