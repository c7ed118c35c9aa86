----------------------------- MODULE BusProofs ------------------------------
(***************************************************************************)
(* The configuration, the exit code and the bytes of the bus, for every    *)
(* size of the address space, every configuration and every image.         *)
(***************************************************************************)
EXTENDS Bus, TLAPS

\* What LoadConfig has found out, and what the last exit register holds.
ConfigInv ==
  /\ config \in Configs
  /\ Accepted => ~RegsRefused(config) /\ ~Overlap(config)
  /\ phase = "bad_config" => RegsRefused(config) \/ Overlap(config)

CellOf(code) == [i \in DOMAIN config.regs |-> IF code = None THEN 0 ELSE WordRange + code]

CellInv ==
  Len(config.regs) = 1 => stored \in Word \cup {None} /\ cells = CellOf(stored)

-----------------------------------------------------------------------------
(* Arithmetic of u32 *)

LEMMA Modulo ==
  ASSUME NEW a \in Nat \ {0}, NEW x \in Nat
  PROVE  /\ x % a \in Nat /\ x % a <= x
         /\ x < a => x % a = x
  OBVIOUS

LEMMA CodeOfCell ==
  ASSUME NEW w \in Nat \ {0}, NEW v \in 0 .. w - 1
  PROVE  w + v # 0 /\ (w + v) % w = v
  OBVIOUS

\* The end of a block's range is never beyond the block, and is its end
\* unless the sum leaves the address space.
LEMMA EndOfBlock ==
  ASSUME NEW block \in Blocks
  PROVE  /\ block.base \in Addrs /\ block.length \in Addrs /\ End(block) \in Nat
         /\ End(block) <= block.base + block.length
         /\ ~Overflows(block) => End(block) = block.base + block.length
<1>1. block.base \in Nat /\ block.length \in Nat
  BY AddressAssumption DEF Blocks, Addrs
<1>2. block.base + block.length \in Nat
  BY <1>1
<1>3. QED
  BY <1>1, <1>2, Modulo, AddressAssumption DEF End, Overflows, Blocks, Addrs

LEMMA WordRangeIsNat == WordRange \in Nat \ {0}
  BY ByteAssumption, RangeAssumption DEF WordRange

-----------------------------------------------------------------------------
(* The configuration *)

LEMMA BlocksOfConfig ==
  ASSUME NEW c \in Configs
  PROVE  c.sram \in Blocks /\ c.mmio \in Blocks /\ c.regs \in Seq([name: {"exit", "other"}, offset: Addrs])
  BY ConfigAssumption

\* Blocks that do not overlap are decoded as configured.
LEMMA AcceptedIsDecoded ==
  ASSUME config \in Configs, ~Overlap(config), NEW addr \in Addrs
  PROVE  /\ Decode(config, addr) = "sram" => Covers(config.sram, addr)
         /\ Decode(config, addr) = "mmio" => Covers(config.mmio, addr)
         /\ Covers(config.sram, addr) /\ ~Overflows(config.sram)
              => Decode(config, addr) = "sram"
         /\ Covers(config.mmio, addr) /\ ~Overflows(config.mmio)
              => Decode(config, addr) = "mmio"
<1> DEFINE s == config.sram
           m == config.mmio
<1>1. s \in Blocks /\ m \in Blocks
  BY BlocksOfConfig
<1>2. /\ s.base \in Nat /\ s.length \in Nat /\ End(s) \in Nat
      /\ End(s) <= s.base + s.length
      /\ ~Overflows(s) => End(s) = s.base + s.length
  BY <1>1, EndOfBlock, AddressAssumption DEF Addrs
<1>3. /\ m.base \in Nat /\ m.length \in Nat /\ End(m) \in Nat
      /\ End(m) <= m.base + m.length
      /\ ~Overflows(m) => End(m) = m.base + m.length
  BY <1>1, EndOfBlock, AddressAssumption DEF Addrs
<1>4. addr \in Nat
  BY AddressAssumption DEF Addrs
<1>5. Holds(s, addr) => Covers(s, addr)
  BY <1>2, <1>4 DEF Holds, Covers
<1>6. Holds(m, addr) => Covers(m, addr)
  BY <1>3, <1>4 DEF Holds, Covers
<1>7. Covers(s, addr) /\ ~Overflows(s) => Holds(s, addr)
  BY <1>2, <1>4 DEF Holds, Covers
<1>8. Covers(m, addr) /\ ~Overflows(m) => Holds(m, addr) /\ ~Holds(s, addr)
  BY <1>2, <1>3, <1>4 DEF Holds, Covers, Overlap
<1>9. QED
  BY <1>5, <1>6, <1>7, <1>8 DEF Decode

\* An overlap that is reported is one, but for blocks that leave the space.
LEMMA RefusedOverlaps ==
  ASSUME config \in Configs, Overlap(config), ~Overflows(config.sram),
         ~Overflows(config.mmio)
  PROVE  \/ \E block, other \in {config.sram, config.mmio} :
              Covers(block, other.base) /\ (block # other \/ config.sram = config.mmio)
         \/ config.sram.base = config.mmio.base
<1> DEFINE s == config.sram
           m == config.mmio
<1>1. s \in Blocks /\ m \in Blocks
  BY BlocksOfConfig
<1>2. /\ s.base \in Nat /\ m.base \in Nat
      /\ End(s) = s.base + s.length /\ End(m) = m.base + m.length
  BY <1>1, EndOfBlock, AddressAssumption DEF Addrs
<1>3. CASE m.base < s.base
  <2>1. Covers(m, s.base) /\ m # s
    BY <1>2, <1>3 DEF Overlap, Covers
  <2>2. QED
    BY <2>1
<1>4. CASE ~(m.base < s.base)
  <2>1. Covers(s, m.base)
    BY <1>2, <1>4 DEF Overlap, Covers
  <2>2. QED
    BY <2>1
<1>5. QED
  BY <1>3, <1>4

LEMMA ConfigInit == Init => ConfigInv
  BY DEF Init, ConfigInv, Accepted

LEMMA ConfigKept == ConfigInv /\ [Next]_vars => ConfigInv'
<1> SUFFICES ASSUME ConfigInv, [Next]_vars
             PROVE  ConfigInv'
  OBVIOUS
<1> USE DEF ConfigInv, Accepted
<1>1. CASE LoadConfig
  BY <1>1 DEF LoadConfig
<1>2. CASE NotRiscV \/ LoadSegment \/ Start
  BY <1>2 DEF NotRiscV, LoadSegment, Start
<1>3. CASE Read \/ Write \/ Amo \/ Look
  BY <1>3 DEF Read, Write, Amo, Look, ReadMem, WriteMem, AmoMem, DebuggerRead, After
<1>4. CASE UNCHANGED vars
  BY <1>4 DEF vars
<1>5. QED
  BY <1>1, <1>2, <1>3, <1>4 DEF Next

-----------------------------------------------------------------------------
(* The exit code *)

LEMMA CellInit == Init => CellInv
  BY DEF Init, CellInv, CellOf, None

\* A write leaves the register, or stores a code under the flag.
LEMMA WriteKeepsCell ==
  ASSUME ConfigInv, CellInv, NEW addr, NEW data, DoWrite(addr, data), config' = config
  PROVE  CellInv'
<1>1. CASE UNCHANGED <<cells, stored>>
  BY <1>1 DEF CellInv, CellOf
<1>2. ASSUME NEW i \in RegsAt(config, addr - config.mmio.base), NEW v \in Word,
             Store(i, v), stored' = v, Len(config.regs) = 1
      PROVE  CellInv'
  <2>1. config.regs \in Seq([name: {"exit", "other"}, offset: Addrs])
    BY BlocksOfConfig DEF ConfigInv
  <2>2. DOMAIN config.regs = {i}
    BY <1>2, <2>1 DEF RegsAt
  <2>3. v # None
    BY WordRangeIsNat DEF None, Word
  <2>4. cells' = [j \in DOMAIN config.regs |-> WordRange + v]
    BY <1>2, <2>2 DEF Store, CellInv, CellOf
  <2>5. QED
    BY <1>2, <2>3, <2>4 DEF CellInv, CellOf
<1>3. QED
  BY <1>1, <1>2 DEF DoWrite, PutBytes, CellInv

LEMMA CellKept == ConfigInv /\ CellInv /\ [Next]_vars => CellInv'
<1> SUFFICES ASSUME ConfigInv, CellInv, [Next]_vars
             PROVE  CellInv'
  OBVIOUS
<1>1. CASE UNCHANGED <<config, cells, stored>>
  BY <1>1 DEF CellInv, CellOf
<1>2. CASE LoadSegment
  BY <1>2, WriteKeepsCell DEF LoadSegment
<1>3. CASE Write
  BY <1>3, WriteKeepsCell DEF Write, WriteMem
<1>4. CASE Amo
  BY <1>1, <1>4, WriteKeepsCell DEF Amo, AmoMem
<1>5. CASE LoadConfig \/ NotRiscV \/ Start \/ Read \/ Look \/ UNCHANGED vars
  BY <1>1, <1>5 DEF LoadConfig, NotRiscV, Start, Read, Look, ReadMem, DebuggerRead, vars
<1>6. QED
  BY <1>2, <1>3, <1>4, <1>5 DEF Next

-----------------------------------------------------------------------------
(* Types *)

LEMMA LeBytesType ==
  ASSUME NEW n \in 1 .. WordBytes, NEW v \in Nat
  PROVE  LeBytes(v, n) \in Seq(Bytes) /\ Len(LeBytes(v, n)) = n
<1>1. ASSUME NEW i \in 1 .. n
      PROVE  (v \div ByteRange ^ (i - 1)) % ByteRange \in Bytes
  <2>1. i - 1 \in 0 .. WordBytes
    BY ByteAssumption
  <2>2. ByteRange ^ (i - 1) \in Nat \ {0}
    BY <2>1, RangeAssumption
  <2>3. v \div ByteRange ^ (i - 1) \in Int
    BY <2>2
  <2>4. QED
    BY <2>3, ByteAssumption DEF Bytes
<1>2. n \in Nat
  BY ByteAssumption
<1>3. LeBytes(v, n) \in [1 .. n -> Bytes]
  BY <1>1 DEF LeBytes
<1>4. QED
  BY <1>2, <1>3

\* The slice of the memory that an access reads
LEMMA MemBytesType ==
  ASSUME TypeOK, NEW offset \in Nat, NEW n \in Nat, offset + n <= config.sram.length
  PROVE  MemBytes(offset, n) \in Seq(Bytes) /\ Len(MemBytes(offset, n)) = n
<1>1. config.sram.length \in Nat
  BY BlocksOfConfig, AddressAssumption DEF TypeOK, Blocks, Addrs
<1>2. ASSUME NEW i \in 1 .. n
      PROVE  mem[offset + i - 1] \in Bytes
  <2>1. offset + i - 1 \in 0 .. config.sram.length - 1
    BY <1>1
  <2>2. mem \in [0 .. config.sram.length - 1 -> Bytes]
    BY DEF TypeOK
  <2>3. QED
    BY <2>1, <2>2
<1>3. MemBytes(offset, n) \in [1 .. n -> Bytes]
  BY <1>2 DEF MemBytes
<1>4. QED
  BY <1>3

\* An address that is decoded to the memory has an offset in it, and the
\* block of such an address does not leave the space.
LEMMA HeldOffsets ==
  ASSUME TypeOK, NEW a \in Addrs, Holds(config.sram, a)
  PROVE  /\ config.sram.base \in Nat /\ config.sram.length \in Nat
         /\ a - config.sram.base \in 0 .. config.sram.length - 1
         /\ End(config.sram) = config.sram.base + config.sram.length
         /\ config.sram.base + config.sram.length < AddrSpace
<1> DEFINE s == config.sram
<1>1. /\ s \in Blocks /\ s.base \in Nat /\ s.length \in Nat /\ a \in Nat
      /\ s.base < AddrSpace /\ s.length < AddrSpace
  BY BlocksOfConfig, AddressAssumption DEF TypeOK, Blocks, Addrs
<1>2. ~(s.base + s.length >= AddrSpace)
  <2>1. SUFFICES ASSUME s.base + s.length >= AddrSpace
                 PROVE  FALSE
    OBVIOUS
  <2>2. s.base + s.length - AddrSpace \in 0 .. AddrSpace - 1
    BY <1>1, <2>1, AddressAssumption
  <2>3. (AddrSpace + (s.base + s.length - AddrSpace)) % AddrSpace = s.base + s.length - AddrSpace
    BY <2>2, CodeOfCell, AddressAssumption
  <2>4. AddrSpace + (s.base + s.length - AddrSpace) = s.base + s.length
    BY <1>1, AddressAssumption
  <2>5. End(s) = s.base + s.length - AddrSpace
    BY <2>3, <2>4 DEF End
  <2>6. QED
    BY <1>1, <2>5, AddressAssumption DEF Holds
<1>3. End(s) = s.base + s.length
  BY <1>1, <1>2, EndOfBlock DEF Overflows
<1>4. QED
  BY <1>1, <1>2, <1>3, AddressAssumption DEF Holds

\* A write that the bus accepts leaves the types.
LEMMA WriteKeepsTypes ==
  ASSUME TypeOK, NEW addr \in Addrs, NEW data \in Seq(Bytes), DoWrite(addr, data),
         config' = config
  PROVE  /\ mem' \in [0 .. config.sram.length - 1 -> Bytes]
         /\ cells' \in [DOMAIN config.regs -> RawCodes]
         /\ stored' \in Word \cup {None}
<1>1. CASE UNCHANGED <<mem, cells, stored>>
  BY <1>1 DEF TypeOK
<1>2. CASE PutBytes(addr - config.sram.base, data) /\ UNCHANGED <<cells, stored>>
            /\ Decode(config, addr) = "sram"
  <2>1. addr - config.sram.base \in Nat
    BY <1>2, HeldOffsets, BlocksOfConfig, AddressAssumption DEF Decode
  <2>2. ASSUME NEW o \in DOMAIN mem,
               o \in addr - config.sram.base .. addr - config.sram.base + Len(data) - 1
        PROVE  data[o - (addr - config.sram.base) + 1] \in Bytes
    BY <2>1, <2>2 DEF TypeOK
  <2>3. mem' \in [DOMAIN mem -> Bytes]
    BY <1>2, <2>2 DEF PutBytes, TypeOK
  <2>4. QED
    BY <1>2, <2>3 DEF TypeOK
<1>3. ASSUME NEW i \in RegsAt(config, addr - config.mmio.base), NEW v \in Word,
             Store(i, v), stored' = v, UNCHANGED mem
      PROVE  /\ mem' \in [0 .. config.sram.length - 1 -> Bytes]
             /\ cells' \in [DOMAIN config.regs -> RawCodes]
             /\ stored' \in Word \cup {None}
  BY <1>3 DEF TypeOK, Store, RegsAt, RawCodes
<1>4. QED
  BY <1>1, <1>2, <1>3 DEF DoWrite

LEMMA TypeInit == Init => TypeOK
<1> SUFFICES ASSUME Init
             PROVE  TypeOK
  OBVIOUS
<1>1. 0 \in Bytes /\ 0 \in Addrs /\ <<>> \in Seq(Bytes)
  BY ByteAssumption, AddressAssumption DEF Bytes, Addrs
<1>2. image \in Seq([addr: Addrs, data: Seq(Bytes)])
  BY ConfigAssumption DEF Init
<1>3. QED
  BY <1>1, <1>2 DEF Init, TypeOK, Phases, NoReply, Statuses, RawCodes

LEMMA Answers ==
  ASSUME TypeOK, NEW addr, NEW n
  PROVE  ReadAnswer(config, addr, n) \in Statuses /\ WriteAnswer(config, addr, n) \in Statuses
  BY DEF ReadAnswer, WriteAnswer, SramAnswer, MmioReadAnswer, MmioWriteAnswer, Statuses

\* What a read that succeeds has read
LEMMA ReadOk ==
  ASSUME TypeOK, NEW addr \in Addrs, NEW n \in Nat, ReadAnswer(config, addr, n) = "ok"
  PROVE  /\ Holds(config.sram, addr) /\ Decode(config, addr) = "sram"
         /\ addr - config.sram.base \in Nat
         /\ addr - config.sram.base + n <= config.sram.length
<1>1. Decode(config, addr) = "sram" /\ SramAnswer(config, addr - config.sram.base, n) = "ok"
  BY DEF ReadAnswer, MmioReadAnswer
<1>2. Holds(config.sram, addr)
  BY <1>1 DEF Decode
<1>3. addr - config.sram.base \in Nat /\ config.sram.length \in Nat
  BY <1>2, HeldOffsets
<1>4. QED
  BY <1>1, <1>2, <1>3 DEF SramAnswer

\* What the debugger is given is in the memory.
LEMMA LookOk ==
  ASSUME TypeOK, NEW addr \in Addrs, NEW n \in Addrs, DebuggerCount(config, addr, n) # 0
  PROVE  /\ Holds(config.sram, addr)
         /\ addr - config.sram.base \in Nat
         /\ DebuggerCount(config, addr, n) \in Nat
         /\ addr - config.sram.base + DebuggerCount(config, addr, n) <= config.sram.length
<1>1. Decode(config, addr) = "sram" /\ addr - config.sram.base < config.sram.length
  BY HeldOffsets DEF DebuggerCount, Decode
<1>2. Holds(config.sram, addr)
  BY <1>1 DEF Decode
<1>3. /\ addr - config.sram.base \in 0 .. config.sram.length - 1
      /\ config.sram.length \in Nat /\ n \in Nat
  BY <1>2, HeldOffsets, AddressAssumption DEF Addrs
<1>4. QED
  BY <1>1, <1>2, <1>3 DEF DebuggerCount

LEMMA TypeKept == TypeOK /\ [Next]_vars => TypeOK'
<1> SUFFICES ASSUME TypeOK, [Next]_vars
             PROVE  TypeOK'
  OBVIOUS
<1>1. CASE LoadConfig
  BY <1>1 DEF LoadConfig, TypeOK, Phases
<1>2. CASE NotRiscV \/ Start
  BY <1>2 DEF NotRiscV, Start, TypeOK, Phases
<1>3. CASE LoadSegment
  <2>1. PICK segment : /\ segment = Head(image) /\ DoWrite(segment.addr, segment.data)
          /\ Answer("write", segment.addr, WriteAnswer(config, segment.addr, Len(segment.data)),
                    segment.data)
    BY <1>3 DEF LoadSegment
  <2>2. segment \in [addr: Addrs, data: Seq(Bytes)]
        /\ image' \in Seq([addr: Addrs, data: Seq(Bytes)])
    <3> DEFINE Segments == [addr: Addrs, data: Seq(Bytes)]
    <3>1. image \in Seq(Segments) /\ image # <<>> /\ image' = Tail(image)
          /\ segment = Head(image)
      BY <1>3, <2>1 DEF LoadSegment, TypeOK
    <3> HIDE DEF Segments
    <3>2. Head(image) \in Segments /\ Tail(image) \in Seq(Segments)
      BY <3>1
    <3>3. QED
      BY <3>1, <3>2 DEF Segments
  <2>3. config' = config /\ phase' \in Phases
    BY <1>3 DEF LoadSegment, TypeOK, Phases
  <2>4. reply' \in [op: {"none", "read", "write", "amo", "look"}, addr: Addrs,
                    status: Statuses, data: Seq(Bytes)]
    BY <2>1, <2>2, Answers DEF Answer
  <2>5. QED
    BY <2>1, <2>2, <2>3, <2>4, WriteKeepsTypes DEF TypeOK
<1>4. ASSUME NEW addr \in Addrs, NEW n \in Sizes, ReadMem(addr, n)
      PROVE  TypeOK'
  <2>1. n \in Nat
    BY ByteAssumption DEF Sizes
  <2>2. ReadAnswer(config, addr, n) = "ok" => MemBytes(addr - config.sram.base, n) \in Seq(Bytes)
    BY <2>1, ReadOk, MemBytesType
  <2>3. reply' \in [op: {"none", "read", "write", "amo", "look"}, addr: Addrs,
                    status: Statuses, data: Seq(Bytes)]
    BY <1>4, <2>2, Answers DEF ReadMem, Answer
  <2>4. QED
    BY <1>4, <2>3 DEF ReadMem, After, TypeOK, Phases
<1>5. ASSUME NEW addr \in Addrs, NEW n \in Sizes, NEW v \in 0 .. ByteRange ^ n - 1,
             WriteMem(addr, n, v)
      PROVE  TypeOK'
  <2>1. n \in 1 .. WordBytes /\ v \in Nat
    BY ByteAssumption, RangeAssumption DEF Sizes
  <2>2. LeBytes(v, n) \in Seq(Bytes)
    BY <2>1, LeBytesType
  <2>3. reply' \in [op: {"none", "read", "write", "amo", "look"}, addr: Addrs,
                    status: Statuses, data: Seq(Bytes)]
    BY <1>5, <2>2, Answers DEF WriteMem, Answer
  <2>4. config' = config /\ image' = image /\ phase' \in Phases
    BY <1>5 DEF WriteMem, After, TypeOK, Phases
  <2>5. QED
    BY <1>5, <2>2, <2>3, <2>4, WriteKeepsTypes DEF WriteMem, TypeOK
<1>6. ASSUME NEW addr \in Addrs, NEW op \in AtomicOps, NEW core \in Word,
             AmoMem(addr, op, core)
      PROVE  TypeOK'
  <2> DEFINE bytes == MemBytes(addr - config.sram.base, WordBytes)
  <2>1. config' = config /\ image' = image /\ phase' \in Phases
    BY <1>6 DEF AmoMem, After, TypeOK, Phases
  <2>2. CASE ReadAnswer(config, addr, WordBytes) = "ok"
    <3>1. PICK new \in Word :
            /\ DoWrite(addr, LeBytes(new, WordBytes))
            /\ Answer("amo", addr, WriteAnswer(config, addr, WordBytes), bytes)
      BY <1>6, <2>2 DEF AmoMem
    <3>2. LeBytes(new, WordBytes) \in Seq(Bytes)
      BY LeBytesType, ByteAssumption, WordRangeIsNat DEF Word
    <3>3. bytes \in Seq(Bytes)
      BY <2>2, ByteAssumption, ReadOk, MemBytesType
    <3>4. reply' \in [op: {"none", "read", "write", "amo", "look"}, addr: Addrs,
                      status: Statuses, data: Seq(Bytes)]
      BY <3>1, <3>3, Answers DEF Answer
    <3>5. QED
      BY <2>1, <3>1, <3>2, <3>4, WriteKeepsTypes DEF TypeOK
  <2>3. CASE ReadAnswer(config, addr, WordBytes) # "ok"
    <3>1. Answer("amo", addr, ReadAnswer(config, addr, WordBytes), <<>>)
          /\ UNCHANGED <<mem, cells, stored>>
      BY <1>6, <2>3 DEF AmoMem
    <3>2. <<>> \in Seq(Bytes)
      OBVIOUS
    <3>3. reply' \in [op: {"none", "read", "write", "amo", "look"}, addr: Addrs,
                      status: Statuses, data: Seq(Bytes)]
      BY <3>1, <3>2, Answers DEF Answer
    <3>4. QED
      BY <2>1, <3>1, <3>3 DEF TypeOK
  <2>4. QED
    BY <2>2, <2>3
<1>7. ASSUME NEW addr \in Addrs, NEW n \in Addrs, DebuggerRead(addr, n)
      PROVE  TypeOK'
  <2>1. DebuggerCount(config, addr, n) # 0 =>
          MemBytes(addr - config.sram.base, DebuggerCount(config, addr, n)) \in Seq(Bytes)
    BY LookOk, MemBytesType
  <2>2. <<>> \in Seq(Bytes)
    OBVIOUS
  <2>3. reply' \in [op: {"none", "read", "write", "amo", "look"}, addr: Addrs,
                    status: Statuses, data: Seq(Bytes)]
    BY <1>7, <2>1, <2>2 DEF DebuggerRead, Answer, Statuses
  <2>4. QED
    BY <1>7, <2>3 DEF DebuggerRead, TypeOK
<1>8. CASE UNCHANGED vars
  BY <1>8 DEF vars, TypeOK
<1>9. QED
  BY <1>1, <1>2, <1>3, <1>4, <1>5, <1>6, <1>7, <1>8 DEF Next, Read, Write, Amo, Look

-----------------------------------------------------------------------------
(* The bus as a byte array *)

\* Before the configuration is read, the memory is all zeros.
ZeroInv == phase = "config" => mem = [o \in 0 .. config.sram.length - 1 |-> 0]

LEMMA ZeroInit == Init => ZeroInv
  BY DEF Init, ZeroInv

LEMMA ZeroKept == ZeroInv /\ [Next]_vars => ZeroInv'
<1> SUFFICES ASSUME ZeroInv, [Next]_vars
             PROVE  ZeroInv'
  OBVIOUS
<1> USE DEF ZeroInv
<1>1. CASE LoadConfig \/ NotRiscV \/ LoadSegment \/ Start
  BY <1>1 DEF LoadConfig, NotRiscV, LoadSegment, Start
<1>2. CASE Read \/ Write \/ Amo \/ Look
  BY <1>2 DEF Read, Write, Amo, Look, ReadMem, WriteMem, AmoMem, DebuggerRead, After
<1>3. CASE UNCHANGED vars
  BY <1>3 DEF vars
<1>4. QED
  BY <1>1, <1>2, <1>3 DEF Next

Held == {a \in Addrs : Holds(config.sram, a)}

\* The bytes that an access to the memory touches are all in it.
LEMMA SpanHeld ==
  ASSUME TypeOK, NEW addr \in Addrs, NEW n \in Nat, Holds(config.sram, addr),
         addr - config.sram.base + n <= config.sram.length
  PROVE  \A i \in 1 .. n : addr + i - 1 \in Held
<1>1. /\ config.sram.base \in Nat /\ config.sram.length \in Nat /\ addr \in Nat
      /\ config.sram.base <= addr
      /\ End(config.sram) = config.sram.base + config.sram.length
      /\ config.sram.base + config.sram.length < AddrSpace
  BY HeldOffsets, AddressAssumption DEF Addrs, Holds
<1>2. QED
  BY <1>1, AddressAssumption DEF Held, Addrs, Holds

\* The bytes that the bus returns are those of the array.
LEMMA BytesOfArray ==
  ASSUME TypeOK, phase # "config", NEW addr \in Addrs, NEW n \in Nat,
         Holds(config.sram, addr), addr - config.sram.base + n <= config.sram.length,
         NEW data, data = MemBytes(addr - config.sram.base, n)
  PROVE  /\ DOMAIN data = 1 .. n
         /\ \A i \in 1 .. n : addr + i - 1 \in DOMAIN Flattened
                              /\ data[i] = Flattened[addr + i - 1]
<1>1. \A i \in 1 .. n : addr + i - 1 \in Held
  BY SpanHeld
<1>2. addr \in Nat /\ config.sram.base \in Nat
  BY HeldOffsets, AddressAssumption DEF Addrs
<1>3. \A i \in 1 .. n : (addr + i - 1) - config.sram.base = (addr - config.sram.base) + i - 1
  BY <1>2
<1>4. DOMAIN Flattened = Held
  BY DEF Flattened, Held
<1>5. \A a \in Held : Flattened[a] = mem[a - config.sram.base]
  BY DEF Flattened, Held
<1>6. DOMAIN data = 1 .. n
  BY DEF MemBytes
<1>7. ASSUME NEW i \in 1 .. n
      PROVE  data[i] = Flattened[addr + i - 1]
  <2>1. data[i] = mem[addr - config.sram.base + i - 1]
    BY DEF MemBytes
  <2>2. Flattened[addr + i - 1] = mem[(addr + i - 1) - config.sram.base]
    BY <1>1, <1>5
  <2>3. (addr + i - 1) - config.sram.base = (addr - config.sram.base) + i - 1
    BY <1>3
  <2>4. QED
    BY <2>1, <2>2, <2>3
<1>8. QED
  BY <1>1, <1>4, <1>6, <1>7

\* A write to the memory is the same write to the array.
LEMMA PutInArray ==
  ASSUME TypeOK, phase # "config", phase' # "config", config' = config,
         NEW addr \in Addrs, NEW data, Len(data) \in Nat, Holds(config.sram, addr),
         PutBytes(addr - config.sram.base, data)
  PROVE  Flattened' = [a \in DOMAIN Flattened |->
                         IF a \in Flat!Span(addr, Len(data)) THEN data[a - addr + 1]
                         ELSE Flattened[a]]
<1>1. addr \in Nat /\ config.sram.base \in Nat
  BY HeldOffsets, AddressAssumption DEF Addrs
<1>2. DOMAIN Flattened = Held /\ \A a \in Held : Flattened[a] = mem[a - config.sram.base]
  BY DEF Flattened, Held
<1>3. Flattened' = [a \in Held |-> mem'[a - config.sram.base]]
  BY DEF Flattened, Held
<1>4. ASSUME NEW a \in Held
      PROVE  mem'[a - config.sram.base] =
               IF a \in Flat!Span(addr, Len(data)) THEN data[a - addr + 1] ELSE Flattened[a]
  <2>1. a \in Nat /\ a - config.sram.base \in DOMAIN mem
    <3>1. a \in Addrs /\ Holds(config.sram, a)
      BY DEF Held
    <3>2. a - config.sram.base \in 0 .. config.sram.length - 1
      BY <3>1, HeldOffsets
    <3>3. a \in Nat
      BY <3>1, AddressAssumption DEF Addrs
    <3>4. DOMAIN mem = 0 .. config.sram.length - 1
      BY DEF TypeOK
    <3>5. QED
      BY <3>2, <3>3, <3>4
  <2>2. a \in Flat!Span(addr, Len(data)) <=>
          a - config.sram.base \in addr - config.sram.base
                                   .. addr - config.sram.base + Len(data) - 1
    <3>1. ASSUME a - config.sram.base \in addr - config.sram.base
                                        .. addr - config.sram.base + Len(data) - 1
          PROVE  a \in Flat!Span(addr, Len(data))
      <4>1. a - addr + 1 \in 1 .. Len(data) /\ a = addr + (a - addr + 1) - 1
        BY <1>1, <2>1, <3>1
      <4>2. QED
        BY <4>1 DEF Flat!Span
    <3>2. ASSUME a \in Flat!Span(addr, Len(data))
          PROVE  a - config.sram.base \in addr - config.sram.base
                                        .. addr - config.sram.base + Len(data) - 1
      BY <1>1, <2>1, <3>2 DEF Flat!Span
    <3>3. QED
      BY <3>1, <3>2
  <2>3. a - config.sram.base - (addr - config.sram.base) + 1 = a - addr + 1
    BY <1>1, <2>1
  <2>4. QED
    BY <1>2, <2>1, <2>2, <2>3 DEF PutBytes
<1>5. QED
  BY <1>2, <1>3, <1>4

LEMMA FlatUnchanged ==
  ASSUME phase # "config", phase' # "config", UNCHANGED <<config, mem>>
  PROVE  Flattened' = Flattened
  BY DEF Flattened

\* A write through the bus, refused, taken by a register or by the memory
LEMMA WriteIsFlat ==
  ASSUME TypeOK, phase # "config", phase' # "config", config' = config,
         NEW addr \in Addrs, NEW data \in Seq(Bytes), DoWrite(addr, data),
         Answer("write", addr, WriteAnswer(config, addr, Len(data)), data)
  PROVE  Flat!Write
<1>1. /\ reply'.op = "write" /\ reply'.addr = addr /\ reply'.data = data
      /\ reply'.status = WriteAnswer(config, addr, Len(data))
  BY DEF Answer
<1>2. DOMAIN Flattened = Held
  BY DEF Flattened, Held
<1>3. addr \in Held <=> Decode(config, addr) = "sram"
  BY DEF Held, Decode
<1>4. CASE reply'.status = "ok" /\ addr \in Held
  <2>1. /\ Holds(config.sram, addr)
        /\ SramAnswer(config, addr - config.sram.base, Len(data)) = "ok"
        /\ PutBytes(addr - config.sram.base, data)
    BY <1>1, <1>3, <1>4 DEF WriteAnswer, DoWrite, Held
  <2>2. addr - config.sram.base \in Nat /\ config.sram.length \in Nat
    BY <2>1, HeldOffsets
  <2>3. addr - config.sram.base + Len(data) <= config.sram.length
    BY <2>1, <2>2 DEF SramAnswer
  <2>4. Flat!Span(addr, Len(data)) \subseteq Held
    BY <2>1, <2>3, SpanHeld DEF Flat!Span
  <2>5. QED
    BY <1>1, <1>2, <1>4, <2>1, <2>4, PutInArray DEF Flat!Write
<1>5. CASE ~(reply'.status = "ok" /\ addr \in Held)
  <2>1. mem' = mem
    BY <1>1, <1>3, <1>5 DEF DoWrite
  <2>2. QED
    BY <1>1, <1>2, <1>5, <2>1, FlatUnchanged DEF Flat!Write
<1>6. QED
  BY <1>4, <1>5

\* Nothing comes between the read and the write of an atomic operation.
LEMMA AmoIsFlat ==
  ASSUME TypeOK, phase = "run", phase' # "config", NEW addr \in Addrs,
         NEW op \in AtomicOps, NEW core \in Word, AmoMem(addr, op, core)
  PROVE  Flat!AmoRefused \/ \E old, new \in Flat!Word : Flat!Amo(old, new)
<1> DEFINE bytes == MemBytes(addr - config.sram.base, WordBytes)
<1>1. CASE ReadAnswer(config, addr, WordBytes) # "ok"
  <2>1. reply'.op = "amo" /\ reply'.status # "ok" /\ UNCHANGED <<config, mem>>
    BY <1>1 DEF AmoMem, Answer
  <2>2. QED
    BY <2>1, FlatUnchanged DEF Flat!AmoRefused
<1>2. CASE ReadAnswer(config, addr, WordBytes) = "ok"
  <2>1. PICK old \in Word, new \in Word :
          /\ LeBytes(old, WordBytes) = bytes
          /\ DoWrite(addr, LeBytes(new, WordBytes))
          /\ Answer("amo", addr, WriteAnswer(config, addr, WordBytes), bytes)
          /\ config' = config
    BY <1>2 DEF AmoMem
  <2>2. /\ Holds(config.sram, addr) /\ Decode(config, addr) = "sram"
        /\ addr - config.sram.base \in Nat
        /\ addr - config.sram.base + WordBytes <= config.sram.length
    BY <1>2, ByteAssumption, ReadOk
  <2>3. WriteAnswer(config, addr, WordBytes) = "ok"
    BY <1>2, <2>2 DEF ReadAnswer, WriteAnswer
  <2>4. LeBytes(new, WordBytes) \in Seq(Bytes) /\ Len(LeBytes(new, WordBytes)) = WordBytes
    BY LeBytesType, ByteAssumption, WordRangeIsNat DEF Word
  <2>5. PutBytes(addr - config.sram.base, LeBytes(new, WordBytes))
    BY <2>1, <2>2, <2>3, <2>4 DEF DoWrite
  <2>6. Flattened' = [a \in DOMAIN Flattened |->
                        IF a \in Flat!Span(addr, WordBytes) THEN LeBytes(new, WordBytes)[a - addr + 1]
                        ELSE Flattened[a]]
    BY <2>1, <2>2, <2>4, <2>5, ByteAssumption, PutInArray
  <2>7. /\ \A i \in 1 .. WordBytes : addr + i - 1 \in DOMAIN Flattened
                                     /\ bytes[i] = Flattened[addr + i - 1]
    BY <2>2, ByteAssumption, BytesOfArray
  <2>8. Flat!Span(addr, WordBytes) \subseteq DOMAIN Flattened
    BY <2>7 DEF Flat!Span
  <2>9. /\ reply'.op = "amo" /\ reply'.addr = addr /\ reply'.status = "ok"
        /\ reply'.data = bytes
    BY <2>1, <2>3 DEF Answer
  <2>10. Flat!LeBytes(old, WordBytes) = LeBytes(old, WordBytes)
         /\ Flat!LeBytes(new, WordBytes) = LeBytes(new, WordBytes) /\ Flat!Word = Word
    BY DEF Flat!LeBytes, LeBytes, Flat!Word, Word, Flat!WordRange, WordRange
  <2>11. Flat!Amo(old, new)
    BY <2>1, <2>6, <2>7, <2>8, <2>9, <2>10 DEF Flat!Amo
  <2>12. QED
    BY <2>1, <2>10, <2>11
<1>3. QED
  BY <1>1, <1>2

\* Every step of the bus is a step of the array, or none.
LEMMA StepIsFlat ==
  ASSUME TypeOK, TypeOK', ZeroInv, [Next]_vars
  PROVE  [Flat!Next]_(Flat!vars)
<1> USE DEF Flat!vars
<1>1. CASE LoadConfig
  <2>1. phase' # "config" /\ Flattened = <<>> /\ UNCHANGED <<config, mem, reply>>
        /\ mem = [o \in 0 .. config.sram.length - 1 |-> 0]
    BY <1>1 DEF LoadConfig, Flattened, ZeroInv
  <2>2. Flattened' = [a \in Held |-> mem[a - config.sram.base]]
    BY <2>1 DEF Flattened, Held
  <2>3. \A a \in Held : mem[a - config.sram.base] = 0
    BY <2>1, HeldOffsets DEF Held
  <2>4. Flattened' = [a \in DOMAIN Flattened' |-> 0] /\ DOMAIN Flattened' \subseteq Addrs
    BY <2>2, <2>3 DEF Held
  <2>5. Flat!Appear
    BY <2>1, <2>4 DEF Flat!Appear
  <2>6. QED
    BY <2>5 DEF Flat!Next
<1>2. CASE NotRiscV \/ Start
  BY <1>2, FlatUnchanged DEF NotRiscV, Start
<1>3. CASE LoadSegment
  <2>1. PICK segment : /\ segment = Head(image) /\ DoWrite(segment.addr, segment.data)
          /\ Answer("write", segment.addr, WriteAnswer(config, segment.addr, Len(segment.data)),
                    segment.data)
    BY <1>3 DEF LoadSegment
  <2>2. segment \in [addr: Addrs, data: Seq(Bytes)]
    <3> DEFINE Segments == [addr: Addrs, data: Seq(Bytes)]
    <3>1. image \in Seq(Segments) /\ image # <<>> /\ segment = Head(image)
      BY <1>3, <2>1 DEF LoadSegment, TypeOK
    <3> HIDE DEF Segments
    <3>2. Head(image) \in Segments
      BY <3>1
    <3>3. QED
      BY <3>1, <3>2 DEF Segments
  <2>3. phase # "config" /\ phase' # "config" /\ config' = config
    BY <1>3 DEF LoadSegment
  <2>4. Flat!Write
    BY <2>1, <2>2, <2>3, WriteIsFlat
  <2>5. QED
    BY <2>4 DEF Flat!Next
<1>4. ASSUME NEW addr \in Addrs, NEW n \in Sizes, ReadMem(addr, n)
      PROVE  Flat!Read
  <2>1. /\ phase # "config" /\ phase' # "config" /\ UNCHANGED <<config, mem>>
        /\ reply'.op = "read" /\ reply'.addr = addr
        /\ reply'.status = ReadAnswer(config, addr, n)
        /\ reply'.status = "ok" => reply'.data = MemBytes(addr - config.sram.base, n)
    BY <1>4 DEF ReadMem, Answer, After
  <2>2. n \in Nat
    BY ByteAssumption DEF Sizes
  <2>3. reply'.status = "ok" =>
          \A i \in DOMAIN reply'.data : /\ addr + i - 1 \in DOMAIN Flattened
                                        /\ reply'.data[i] = Flattened[addr + i - 1]
    <3>1. SUFFICES ASSUME reply'.status = "ok"
                   PROVE  \A i \in DOMAIN reply'.data :
                            /\ addr + i - 1 \in DOMAIN Flattened
                            /\ reply'.data[i] = Flattened[addr + i - 1]
      OBVIOUS
    <3>2. Holds(config.sram, addr) /\ addr - config.sram.base + n <= config.sram.length
      BY <2>1, <2>2, <3>1, ReadOk
    <3>3. reply'.data = MemBytes(addr - config.sram.base, n)
      BY <2>1, <3>1
    <3>4. QED
      BY <2>1, <2>2, <3>2, <3>3, BytesOfArray
  <2>4. QED
    BY <2>1, <2>3, FlatUnchanged DEF Flat!Read
<1>5. ASSUME NEW addr \in Addrs, NEW n \in Sizes, NEW v \in 0 .. ByteRange ^ n - 1,
             WriteMem(addr, n, v)
      PROVE  Flat!Write
  <2>1. n \in 1 .. WordBytes /\ v \in Nat
    BY ByteAssumption, RangeAssumption DEF Sizes
  <2>2. LeBytes(v, n) \in Seq(Bytes) /\ Len(LeBytes(v, n)) = n
    BY <2>1, LeBytesType
  <2>3. /\ phase # "config" /\ phase' # "config" /\ config' = config
        /\ DoWrite(addr, LeBytes(v, n))
        /\ Answer("write", addr, WriteAnswer(config, addr, n), LeBytes(v, n))
    BY <1>5 DEF WriteMem, After
  <2>4. QED
    BY <2>2, <2>3, WriteIsFlat
<1>6. ASSUME NEW addr \in Addrs, NEW op \in AtomicOps, NEW core \in Word,
             AmoMem(addr, op, core)
      PROVE  Flat!Next
  <2>1. phase = "run" /\ phase' # "config"
    BY <1>6 DEF AmoMem, After
  <2>2. QED
    BY <1>6, <2>1, AmoIsFlat DEF Flat!Next
<1>7. ASSUME NEW addr \in Addrs, NEW n \in Addrs, DebuggerRead(addr, n)
      PROVE  Flat!Read
  <2> DEFINE count == DebuggerCount(config, addr, n)
  <2>1. /\ phase # "config" /\ phase' # "config" /\ UNCHANGED <<config, mem>>
        /\ reply'.op = "look" /\ reply'.addr = addr
        /\ reply'.data = IF count = 0 THEN <<>> ELSE MemBytes(addr - config.sram.base, count)
    BY <1>7 DEF DebuggerRead, Answer
  <2>2. \A i \in DOMAIN reply'.data : /\ addr + i - 1 \in DOMAIN Flattened
                                      /\ reply'.data[i] = Flattened[addr + i - 1]
    <3>1. CASE count = 0
      BY <2>1, <3>1
    <3>2. CASE count # 0
      <4> HIDE DEF count
      <4>1. count \in Nat /\ Holds(config.sram, addr)
            /\ addr - config.sram.base + count <= config.sram.length
        BY <3>2, LookOk DEF count
      <4>2. QED
        BY <2>1, <3>2, <4>1, BytesOfArray
    <3>3. QED
      BY <3>1, <3>2
  <2>3. QED
    BY <2>1, <2>2, FlatUnchanged DEF Flat!Read
<1>8. CASE UNCHANGED vars
  BY <1>8 DEF vars, Flattened
<1>9. QED
  BY <1>1, <1>2, <1>3, <1>4, <1>5, <1>6, <1>7, <1>8
  DEF Next, Read, Write, Amo, Look, Flat!Next

-----------------------------------------------------------------------------
(* Theorems *)

\* A configuration that was accepted means what it says, and one that was
\* refused could not, whatever the blocks and the size of the space.
THEOREM AcceptedMeansIt == Spec => []DecodedAsConfigured
<1>1. ConfigInv => DecodedAsConfigured
  <2> SUFFICES ASSUME ConfigInv
               PROVE  DecodedAsConfigured
    OBVIOUS
  <2>1. Accepted => \A addr \in Addrs :
          /\ Decode(config, addr) = "sram" => Covers(config.sram, addr)
          /\ Decode(config, addr) = "mmio" => Covers(config.mmio, addr)
          /\ Covers(config.sram, addr) /\ ~Overflows(config.sram)
               => Decode(config, addr) = "sram"
          /\ Covers(config.mmio, addr) /\ ~Overflows(config.mmio)
               => Decode(config, addr) = "mmio"
    BY AcceptedIsDecoded DEF ConfigInv
  <2>2. phase = "bad_config" =>
          \/ RegsRefused(config)
          \/ Overflows(config.sram) \/ Overflows(config.mmio)
          \/ \E block, other \in {config.sram, config.mmio} :
               Covers(block, other.base) /\ (block # other \/ config.sram = config.mmio)
          \/ config.sram.base = config.mmio.base
    BY RefusedOverlaps DEF ConfigInv
  <2>3. QED
    BY <2>1, <2>2 DEF DecodedAsConfigured
<1>2. QED
  BY <1>1, ConfigInit, ConfigKept, PTL DEF Spec

\* The code with which the program ends is the last one stored, for words of
\* any size: the flag tells a zero from none.
THEOREM ExitIsSeen == Spec => []ExitSeen
<1>1. CellInv => ExitSeen
  <2> SUFFICES ASSUME CellInv, Len(config.regs) = 1, Accepted
               PROVE  TryGetExitCode = stored
    BY DEF ExitSeen
  <2>1. DOMAIN config.regs = 1 .. 1
    OBVIOUS
  <2>2. exit_state = IF stored = None THEN 0 ELSE WordRange + stored
    BY <2>1 DEF exit_state, CellInv, CellOf
  <2>3. stored # None => WordRange + stored # 0 /\ (WordRange + stored) % WordRange = stored
    BY CodeOfCell, WordRangeIsNat DEF CellInv, Word
  <2>4. QED
    BY <2>2, <2>3 DEF TryGetExitCode
<1>2. QED
  BY <1>1, ConfigInit, ConfigKept, CellInit, CellKept, PTL DEF Spec

\* The bus, its memory and its replies keep their types.
THEOREM TypeCorrect == Spec => []TypeOK
  BY TypeInit, TypeKept, PTL DEF Spec

\* The bus implements an array of bytes for its master, for every layout of
\* blocks, overflowing or not: its offsets, bounds and refusals together
\* neither lose, nor shift, nor clip a byte.
THEOREM ImplementsFlatMemory == Spec => BusIsFlatMemory
<1>1. Init => Flat!Init
  BY DEF Init, Flat!Init, Flattened, NoReply
<1>2. TypeOK /\ TypeOK' /\ ZeroInv /\ [Next]_vars => [Flat!Next]_(Flat!vars)
  BY StepIsFlat
<1>3. QED
  BY <1>1, <1>2, TypeInit, TypeKept, ZeroInit, ZeroKept, PTL DEF Spec, BusIsFlatMemory, Flat!Spec
=============================================================================
