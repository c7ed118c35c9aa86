----------------------------- MODULE MC_Pokedex -----------------------------
(* x0, an X and a V register, a CSR that traps write and one that they do    *)
(* not, 17 addresses with a memory of six and an exit register at 8; a       *)
(* client that asks for the first and the last register of each kind.        *)
EXTENDS GdbStub

SomeLayout == [sram |-> [base |-> 0, length |-> 6], mmio |-> [base |-> 8, length |-> 8],
               regs |-> <<[name |-> "exit", offset |-> 0]>>, checked |-> TRUE]

\* Memory, the exit register by word and by halfword, a hole in its block.
SomeAccesses == {[addr |-> 0, n |-> 4], [addr |-> 8, n |-> 4], [addr |-> 8, n |-> 2],
                 [addr |-> 12, n |-> 4]}
SomeIds == {0, 31, 32, 33, 64, 66, 68, 3170, 4161, 4162, 4193, 5000}
=============================================================================
