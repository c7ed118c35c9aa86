------------------------------- MODULE MC_Bus -------------------------------
(* Eight addresses, bytes of one bit and words of two bytes. *)
EXTENDS Bus

Block(base, length) == [base |-> base, length |-> length]
Exit(offset) == [name |-> "exit", offset |-> offset]
Config(sram, mmio, regs, checked) ==
  [sram |-> sram, mmio |-> mmio, regs |-> regs, checked |-> checked]

\* The layouts of the blocks: touching, apart in the other order, overlapping
\* in both orders, ending at the end of the address space, and empty; then the
\* lists of registers: none, unknown, two at two offsets and two at one.
SomeLayouts ==
  {<<Block(0, 4), Block(4, 3)>>, <<Block(4, 3), Block(0, 3)>>, <<Block(2, 4), Block(4, 2)>>,
   <<Block(4, 2), Block(0, 5)>>, <<Block(4, 4), Block(0, 2)>>, <<Block(0, 2), Block(6, 2)>>,
   <<Block(0, 4), Block(1, 0)>>}
SomeRegs == {<<>>, <<[name |-> "other", offset |-> 0]>>, <<Exit(0), Exit(2)>>,
             <<Exit(2), Exit(2)>>}

SomeConfigs ==
  {Config(l[1], l[2], <<Exit(0)>>, FALSE) : l \in SomeLayouts}
  \cup {Config(l[1], l[2], <<Exit(0)>>, TRUE) : l \in {x \in SomeLayouts : x[1].base + x[1].length = 8
                                                                       \/ x[2].base + x[2].length = 8}}
  \cup {Config(Block(0, 3), Block(4, 3), regs, TRUE) : regs \in SomeRegs}

Segment(addr, data) == [addr |-> addr, data |-> data]
SomeImages == {<<Segment(0, <<1, 1, 0>>), Segment(4, <<0, 0>>)>>, <<Segment(4, <<1, 0>>)>>}
=============================================================================
