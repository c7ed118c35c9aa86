------------------------------ MODULE WordOps -------------------------------
(* Little-endian words and AtomicOp::do_arith_u32. *)
EXTENDS Integers, Sequences

CONSTANTS
  ByteRange,  \* values of a byte: 256, a power of two
  WordBytes   \* bytes of a u32, 4

ASSUME ByteAssumption == ByteRange \in Nat \ {0, 1} /\ WordBytes \in Nat \ {0}

Bytes == 0 .. ByteRange - 1
WordRange == ByteRange ^ WordBytes
Word == 0 .. WordRange - 1

\* to_le_bytes of an integer of n bytes
LeBytes(v, n) == [i \in 1 .. n |-> (v \div ByteRange ^ (i - 1)) % ByteRange]

\* What the proofs need of powers, which their arithmetic does not have
ASSUME RangeAssumption == \A n \in 0 .. WordBytes : ByteRange ^ n \in Nat \ {0}

Signed(v) == IF v < WordRange \div 2 THEN v ELSE v - WordRange
Bit(v, i) == (v \div 2 ^ i) % 2
BitOf(op, a, b) ==
  IF op = "and" THEN a * b
  ELSE IF op = "or" THEN a + b - a * b
  ELSE (a + b) % 2

AtomicOps == {"swap", "add", "and", "or", "xor", "min", "minu", "max", "maxu"}

\* result is what do_arith_u32 stores for this value in memory and this operand.
DoArith(op, mem, core, result) ==
  \/ op = "swap" /\ result = core
  \/ op = "add" /\ result = (mem + core) % WordRange
  \/ /\ op \in {"and", "or", "xor"}
     /\ \A i \in 0 .. WordRange : 2 ^ i < WordRange =>
          Bit(result, i) = BitOf(op, Bit(mem, i), Bit(core, i))
  \/ op = "min" /\ result = IF Signed(mem) < Signed(core) THEN mem ELSE core
  \/ op = "max" /\ result = IF Signed(mem) > Signed(core) THEN mem ELSE core
  \/ op = "minu" /\ result = IF mem < core THEN mem ELSE core
  \/ op = "maxu" /\ result = IF mem > core THEN mem ELSE core
=============================================================================
