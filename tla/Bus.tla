-------------------------------- MODULE Bus ---------------------------------
(***************************************************************************)
(* The bus of `pokedex run`: built from a configuration, filled from an    *)
(* ELF image, and then read and written by the model through the memory    *)
(* callbacks, and looked at by the debugger.                               *)
(***************************************************************************)
EXTENDS AddressSpace

CONSTANTS
  Configs,  \* configuration files, and whether the build checks for overflow
  Images    \* ELF files: sequences of loaded segments [addr, data]

ASSUME ConfigAssumption ==
  /\ Configs \subseteq [sram: Blocks, mmio: Blocks,
                        regs: Seq([name: {"exit", "other"}, offset: Addrs]),
                        checked: BOOLEAN]
  /\ Images \subseteq Seq([addr: Addrs, data: Seq(Bytes)])

VARIABLES
  phase,    \* where the program is
  config, image,
  mem,      \* the bytes of NaiveMemory, by offset
  cells,    \* the AtomicU64 of every exit register
  reply,    \* what the bus did last: [op, addr, status, data]
  stored    \* history: the code last taken by an exit register

vars == <<phase, config, image, mem, cells, reply, stored>>

None == -1
Sizes == {n \in 1 .. WordBytes : WordBytes % n = 0}   \* of loads and stores
Statuses == {"ok", "error", "panic"}
NoReply == [op |-> "none", addr |-> 0, status |-> "ok", data |-> <<>>]
Phases == {"config", "load", "run", "bad_config", "bad_image", "panicked"}

\* The values of a cell: 0, or a code under the flag 1 << 32.
RawCodes == {0} \cup {WordRange + v : v \in Word}

TypeOK ==
  /\ phase \in Phases
  /\ config \in Configs
  /\ image \in Seq([addr: Addrs, data: Seq(Bytes)])
  /\ mem \in [0 .. config.sram.length - 1 -> Bytes]
  /\ cells \in [DOMAIN config.regs -> RawCodes]
  /\ reply \in [op: {"none", "read", "write", "amo", "look"}, addr: Addrs,
                status: Statuses, data: Seq(Bytes)]
  /\ stored \in Word \cup {None}

Init ==
  /\ phase = "config"
  /\ config \in Configs
  /\ image \in Images
  /\ mem = [o \in 0 .. config.sram.length - 1 |-> 0]
  /\ cells = [i \in DOMAIN config.regs |-> 0]
  /\ reply = NoReply
  /\ stored = None

-----------------------------------------------------------------------------
(* The configuration *)

\* load_from_config_str: the range of the SRAM, the registers, the range of
\* the MMIO block and the overlap are looked at in this order.
LoadConfig ==
  /\ phase = "config"
  /\ phase' = IF config.checked /\ Overflows(config.sram) THEN "panicked"
              ELSE IF RegsRefused(config) THEN "bad_config"
              ELSE IF config.checked /\ Overflows(config.mmio) THEN "panicked"
              ELSE IF Overlap(config) THEN "bad_config"
              ELSE "load"
  /\ UNCHANGED <<config, image, mem, cells, reply, stored>>

\* The last exit register of the configuration is the one that is asked.
exit_state == cells[Len(config.regs)]
TryGetExitCode == IF exit_state = 0 THEN None ELSE exit_state % WordRange

-----------------------------------------------------------------------------
(* Devices *)

\* The bytes of the memory from this offset on
MemBytes(offset, n) == [i \in 1 .. n |-> mem[offset + i - 1]]

\* copy_from_slice into the memory
PutBytes(offset, data) ==
  mem' = [o \in DOMAIN mem |->
            IF o \in offset .. offset + Len(data) - 1 THEN data[o - offset + 1] ELSE mem[o]]

\* MmioRegs::store: the flag tells a code of zero from no code.
\* Mutant: the code alone.
StoreNoFlag(i, v) == cells' = [cells EXCEPT ![i] = v]
Store(i, v) == cells' = [cells EXCEPT ![i] = WordRange + v]

\* do_bus_write of the device that the address decodes to, if it accepts.
\* Mutant: the part of the data that fits is written before the refusal.
DoWriteClipped(addr, data) ==
  IF Decode(config, addr) = "sram"
  THEN /\ PutBytes(addr - config.sram.base, data)
       /\ UNCHANGED <<cells, stored>>
  ELSE UNCHANGED <<mem, cells, stored>>

DoWrite(addr, data) ==
  IF WriteAnswer(config, addr, Len(data)) # "ok" THEN UNCHANGED <<mem, cells, stored>>
  ELSE IF Decode(config, addr) = "sram"
  THEN /\ PutBytes(addr - config.sram.base, data)
       /\ UNCHANGED <<cells, stored>>
  ELSE \E i \in RegsAt(config, addr - config.mmio.base) : \E v \in Word :
         /\ data = LeBytes(v, WordBytes)
         /\ Store(i, v)
         /\ stored' = v
         /\ UNCHANGED mem

Answer(op, addr, status, data) ==
  reply' = [op |-> op, addr |-> addr, status |-> status, data |-> data]

\* A panic in a callback aborts the process, one in load_elf unwinds.
After(status) == phase' = IF status = "panic" THEN "panicked" ELSE phase

-----------------------------------------------------------------------------
(* The image *)

\* load_elf: a segment is one write, and a refusal ends the program.
LoadSegment ==
  /\ phase = "load" /\ image # <<>>
  /\ LET segment == Head(image)
         status == WriteAnswer(config, segment.addr, Len(segment.data)) IN
     /\ DoWrite(segment.addr, segment.data)
     /\ Answer("write", segment.addr, status, segment.data)
     /\ phase' = IF status = "ok" THEN phase
                 ELSE IF status = "error" THEN "bad_image" ELSE "panicked"
  /\ image' = Tail(image)
  /\ UNCHANGED config

\* A file of another machine is refused before its segments are read.
NotRiscV ==
  /\ phase = "load"
  /\ phase' = "bad_image"
  /\ UNCHANGED <<config, image, mem, cells, reply, stored>>

Start ==
  /\ phase = "load" /\ image = <<>>
  /\ phase' = "run"
  /\ UNCHANGED <<config, image, mem, cells, reply, stored>>

-----------------------------------------------------------------------------
(* The callbacks: the model aligns what it asks for *)

\* inst_fetch_2, read_mem_u8, _u16, _u32
ReadMem(addr, n) ==
  LET status == ReadAnswer(config, addr, n) IN
  /\ phase = "run" /\ addr % n = 0
  /\ Answer("read", addr, status,
            IF status = "ok" THEN MemBytes(addr - config.sram.base, n) ELSE <<>>)
  /\ After(status)
  /\ UNCHANGED <<config, image, mem, cells, stored>>

\* write_mem_u8, _u16, _u32
WriteMem(addr, n, v) ==
  LET status == WriteAnswer(config, addr, n) IN
  /\ phase = "run" /\ addr % n = 0
  /\ DoWrite(addr, LeBytes(v, n))
  /\ Answer("write", addr, status, LeBytes(v, n))
  /\ After(status)
  /\ UNCHANGED <<config, image>>

\* amo_mem_u32: a read, and a write of what the operation makes of it.
AmoMem(addr, op, core) ==
  LET status == ReadAnswer(config, addr, WordBytes)
      bytes == MemBytes(addr - config.sram.base, WordBytes) IN
  /\ phase = "run" /\ addr % WordBytes = 0
  /\ IF status = "ok"
     THEN \E old, new \in Word :
            /\ LeBytes(old, WordBytes) = bytes
            /\ DoArith(op, old, core, new)
            /\ DoWrite(addr, LeBytes(new, WordBytes))
            /\ Answer("amo", addr, WriteAnswer(config, addr, WordBytes), bytes)
     ELSE /\ Answer("amo", addr, status, <<>>)
          /\ UNCHANGED <<mem, cells, stored>>
  /\ After(status)
  /\ UNCHANGED <<config, image>>

\* debugger_read, by the gdb stub
DebuggerRead(addr, n) ==
  /\ phase = "run"
  /\ Answer("look", addr, "ok",
            IF DebuggerCount(config, addr, n) = 0 THEN <<>>
            ELSE MemBytes(addr - config.sram.base, DebuggerCount(config, addr, n)))
  /\ UNCHANGED <<phase, config, image, mem, cells, stored>>

Read == \E addr \in Addrs, n \in Sizes : ReadMem(addr, n)
Write == \E addr \in Addrs, n \in Sizes : \E v \in 0 .. ByteRange ^ n - 1 : WriteMem(addr, n, v)
Amo == \E addr \in Addrs, op \in AtomicOps, core \in Word : AmoMem(addr, op, core)
Look == \E addr, n \in Addrs : DebuggerRead(addr, n)

Next == LoadConfig \/ NotRiscV \/ LoadSegment \/ Start \/ Read \/ Write \/ Amo \/ Look

Spec == Init /\ [][Next]_vars

-----------------------------------------------------------------------------
(* Properties *)

\* A block of the configuration as numbers, not as u32
Covers(block, addr) == block.base <= addr /\ addr < block.base + block.length

Accepted == phase \in {"load", "run", "bad_image"}

\* A configuration that was accepted means what it says: no address is in both
\* blocks, an address is decoded to a block only if it is in it, and an address
\* of a block that ends in the address space is decoded to that block.  One
\* that was refused could not mean that.
DecodedAsConfigured ==
  /\ Accepted =>
       \A addr \in Addrs :
         /\ Decode(config, addr) = "sram" => Covers(config.sram, addr)
         /\ Decode(config, addr) = "mmio" => Covers(config.mmio, addr)
         /\ Covers(config.sram, addr) /\ ~Overflows(config.sram)
              => Decode(config, addr) = "sram"
         /\ Covers(config.mmio, addr) /\ ~Overflows(config.mmio)
              => Decode(config, addr) = "mmio"
  /\ phase = "bad_config" =>
       \/ RegsRefused(config)
       \/ Overflows(config.sram) \/ Overflows(config.mmio)
       \/ \E block, other \in {config.sram, config.mmio} :
            Covers(block, other.base) /\ (block # other \/ config.sram = config.mmio)
       \/ config.sram.base = config.mmio.base

\* A program with one exit register ends with the code that was last stored in
\* it, zero or not, by the image or by the program, and does not end before.
ExitSeen == Accepted /\ Len(config.regs) = 1 => TryGetExitCode = stored

\* The byte behind every address of the SRAM block, once there is a memory
Flattened ==
  IF phase = "config" THEN <<>>
  ELSE [a \in {x \in Addrs : Holds(config.sram, x)} |-> mem[a - config.sram.base]]

Flat == INSTANCE FlatMemory WITH flat <- Flattened

\* The bus is a byte array to its master: reads return what was written, a
\* write is whole or does nothing, an AMO is atomic, registers are apart.
BusIsFlatMemory == Flat!Spec
=============================================================================
