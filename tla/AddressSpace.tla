---------------------------- MODULE AddressSpace ----------------------------
(***************************************************************************)
(* The address space of simulator/src/bus as functions: the two blocks of  *)
(* a configuration, the device an address decodes to, and how a device     *)
(* answers an access.                                                      *)
(*                                                                         *)
(* A configuration is a record                                             *)
(*   [sram: [base, length], mmio: [base, length], regs: sequence of        *)
(*    [name, offset], checked: does the build check for overflow]          *)
(***************************************************************************)
EXTENDS WordOps

CONSTANT AddrSpace  \* number of addresses, 2^32

ASSUME AddressAssumption == AddrSpace \in Nat \ {0}

Addrs == 0 .. AddrSpace - 1

Blocks == [base: Addrs, length: Addrs]

\* The range base..(base + length) of u32: the sum leaves the address space,
\* and wraps where the build does not check it.
Overflows(block) == block.base + block.length >= AddrSpace
End(block) == (block.base + block.length) % AddrSpace
Holds(block, addr) == block.base <= addr /\ addr < End(block)

\* The ranges are sorted by their starts, the SRAM before an MMIO block that
\* starts where it does, and a range that begins before the end of the one
\* before it is refused.
\* Mutant: it is refused when it begins before the other begins.
OverlapByStart(config) ==
  IF config.mmio.base < config.sram.base
  THEN config.sram.base < config.mmio.base
  ELSE config.mmio.base < config.sram.base

Overlap(config) ==
  IF config.mmio.base < config.sram.base
  THEN config.sram.base < End(config.mmio)
  ELSE config.mmio.base < End(config.sram)

\* try_build_from: registers have known names, and there is one.
RegsRefused(config) ==
  \/ \E i \in DOMAIN config.regs : config.regs[i].name # "exit"
  \/ config.regs = <<>>

\* The first block that contains the address
Decode(config, addr) ==
  IF Holds(config.sram, addr) THEN "sram"
  ELSE IF Holds(config.mmio, addr) THEN "mmio"
  ELSE "none"

\* A slice of the memory: the end of the slice is a u32 that must not wrap,
\* for then either the sum or the slice panics.
SramAnswer(config, offset, n) ==
  IF offset >= config.sram.length THEN "error"
  ELSE IF offset + n >= AddrSpace THEN "panic"
  ELSE IF offset + n > config.sram.length THEN "error"
  ELSE "ok"

\* The registers that a binary search for the offset may find
RegsAt(config, offset) == {i \in DOMAIN config.regs : config.regs[i].offset = offset}

\* A register is there to be written: load panics.
MmioReadAnswer(config, offset) ==
  IF RegsAt(config, offset) = {} THEN "error" ELSE "panic"

\* Anything but a word is refused by a panic, before the register is looked up.
MmioWriteAnswer(config, offset, n) ==
  IF n # WordBytes THEN "panic"
  ELSE IF RegsAt(config, offset) = {} THEN "error"
  ELSE "ok"

\* Bus::read and Bus::write of n bytes
ReadAnswer(config, addr, n) ==
  IF Decode(config, addr) = "sram" THEN SramAnswer(config, addr - config.sram.base, n)
  ELSE IF Decode(config, addr) = "mmio" THEN MmioReadAnswer(config, addr - config.mmio.base)
  ELSE "error"

WriteAnswer(config, addr, n) ==
  IF Decode(config, addr) = "sram" THEN SramAnswer(config, addr - config.sram.base, n)
  ELSE IF Decode(config, addr) = "mmio" THEN MmioWriteAnswer(config, addr - config.mmio.base, n)
  ELSE "error"

\* Bus::debugger_read: how many bytes it finds, the registers having none.
DebuggerCount(config, addr, n) ==
  IF Decode(config, addr) # "sram" \/ addr - config.sram.base >= config.sram.length THEN 0
  ELSE IF addr - config.sram.base + n > config.sram.length
       THEN config.sram.length - (addr - config.sram.base)
  ELSE n
=============================================================================
