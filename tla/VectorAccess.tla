---------------------------- MODULE VectorAccess ----------------------------
(***************************************************************************)
(* What a vector load or store promises the program that executes it: seen *)
(* between the instruction before it and the one after it, all its active  *)
(* elements are transferred at once, however often it trapped in between.  *)
(***************************************************************************)
CONSTANTS
  IsLoad(_),             \* does this access load?  It stores otherwise.
  LoadResult(_, _, _),   \* registers after a load, from access, registers, memory
  StoreResult(_, _, _)   \* memory after a store, likewise

VARIABLES
  access,    \* the instruction, as it was issued; it never changes
  regs, memory,
  retired

vars == <<access, regs, memory, retired>>

Init == retired = FALSE

Load ==
  /\ IsLoad(access)
  /\ regs' = LoadResult(access, regs, memory)
  /\ UNCHANGED memory

Store ==
  /\ ~IsLoad(access)
  /\ memory' = StoreResult(access, regs, memory)
  /\ UNCHANGED regs

Transfer ==
  /\ ~retired
  /\ retired' = TRUE
  /\ UNCHANGED access
  /\ Load \/ Store

Spec == Init /\ [][Transfer]_vars
=============================================================================
