---------------------------- MODULE VectorConfig ----------------------------
(***************************************************************************)
(* vtype, vl and the register groups that vector instructions address.     *)
(*                                                                         *)
(* An instruction is reduced to its shape: the widths of its destination   *)
(* and of its vector sources, which source elements an iteration of its     *)
(* loop reads, and the checks it makes before the loop.  The loop itself   *)
(* runs within one step; what matters of it is that iteration i writes     *)
(* destination element i before iteration i + 1 reads its sources.         *)
(*                                                                         *)
(* The vector unit is taken to be enabled (mstatus.VS, module ExtContext   *)
(* of the plan) and vstart to be zero (module VectorMem has the rest).     *)
(***************************************************************************)
EXTENDS Integers

CONSTANTS
  VLEN,    \* bits in a vector register, 256 in the code
  ELEN,    \* widest element, 32 in the code
  Avls,    \* application vector lengths that vset{i}vl{i} is given
  Regs,    \* vector registers that instructions name
  Fields   \* numbers of fields of segment accesses (1: not a segment)

ASSUME LengthAssumption == /\ VLEN \in Nat \ {0} /\ VLEN % ELEN = 0
                           /\ ELEN \in {32, 64}
ASSUME OperandAssumption == /\ Avls \subseteq Nat
                            /\ Regs \subseteq 0 .. 31
                            /\ Fields \subseteq 1 .. 8

VARIABLES
  vtype,  \* VTYPE without its agnostic bits
  vl,     \* VL
  group,  \* the registers the last vector instruction went through
  halt    \* "none", or what stopped the process

vars == <<vtype, vl, group, halt>>

Sews == {8, 16, 32, 64}
Lmuls == -3 .. 3

VtypeIll == [ill |-> TRUE, sew |-> 8, lmul |-> 0]
\* resetVectorState is never called: VTYPE starts as zeroed storage.
VtypeZero == [ill |-> FALSE, sew |-> 0, lmul |-> 0]

\* The mask register is read one bit per element.
MaskSource == [reg |-> 0, width |-> 1, regs |-> 1, reads |-> "element"]
NoGroup == [shape |-> "none", dst |-> 0, width |-> 1, regs |-> 1, nf |-> 1,
            sources |-> {}]

\* The templates, by what they have in common
Shapes ==
  {"elementwise", "slide_down", "slide_up", "gather", "gather16", "widen",
   "widen_accumulate", "widen_wide", "narrow", "extend", "compare", "carry_out",
   "mask_to_mask", "iota", "compress", "load", "load_indexed"}

-----------------------------------------------------------------------------
(* vtype arithmetic *)

\* The bits of a vtype operand; "reserved" says that a bit above 7 is set (then
\* the other fields are not looked at).
VtypeBits == [reserved : {FALSE}, vsew : 0 .. 7, vlmul : 0 .. 7]
             \cup {[reserved |-> TRUE, vsew |-> 0, vlmul |-> 0]}

VTYPE_from_bits(b) ==
  LET sew == 8 * 2 ^ b.vsew
      lmul == IF b.vlmul < 4 THEN b.vlmul ELSE b.vlmul - 8
  IN IF b.reserved \/ b.vsew > 3 \/ b.vlmul = 4
        \/ (lmul < 0 /\ sew * 2 ^ (-lmul) > ELEN)
     THEN VtypeIll
     ELSE [ill |-> FALSE, sew |-> sew, lmul |-> lmul]

mul_lmul(x, lmul) == IF lmul >= 0 THEN x * 2 ^ lmul ELSE x \div 2 ^ (-lmul)

compute_vlmax(vt) == mul_lmul(VLEN \div vt.sew, vt.lmul)

log2_sew(sew) == CHOOSE n \in 3 .. 6 : 2 ^ n = sew

getAlign(vt) == IF vt.lmul > 0 THEN 2 ^ vt.lmul ELSE 1

\* Register count and validity, as getAlignWiden returns them.
getAlignWiden(vt) ==
  [regs |-> IF vt.lmul < 0 THEN 1 ELSE IF vt.lmul = 3 THEN 8 ELSE 2 ^ (vt.lmul + 1),
   valid |-> vt.lmul # 3]

getAlignNarrow2(vt) == IF vt.lmul <= 1 THEN 1 ELSE 2 ^ (vt.lmul - 1)
getAlignNarrow4(vt) == IF vt.lmul <= 2 THEN 1 ELSE 2 ^ (vt.lmul - 2)

\* Mutant of getEewAlign: a fractional multiplier is taken for an overflow.
getEewAlignNoFraction(vt, eew) ==
  LET log2_emul == vt.lmul + log2_sew(eew) - log2_sew(vt.sew)
  IN [regs |-> IF log2_emul \in 1 .. 3 THEN 2 ^ log2_emul ELSE 1,
      valid |-> log2_emul \in 0 .. 3]

getEewAlign(vt, eew) ==
  LET log2_emul == vt.lmul + log2_sew(eew) - log2_sew(vt.sew)
  IN [regs |-> IF log2_emul \in 1 .. 3 THEN 2 ^ log2_emul ELSE 1,
      valid |-> log2_emul \in -3 .. 3]

-----------------------------------------------------------------------------
(* vsetvl, vsetvli, vsetivli *)

TypeOK ==
  /\ vtype \in [ill : BOOLEAN, sew : Sews \cup {0}, lmul : Lmuls]
  /\ vl \in 0 .. VLEN
  /\ group.shape \in Shapes \cup {"none"}
  /\ group.dst \in 0 .. 31 /\ group.regs \in 1 .. 8 /\ group.nf \in 1 .. 8
  /\ halt \in {"none", "vtype_unset", "todo"}

Init ==
  /\ vtype = VtypeZero
  /\ vl = 0
  /\ group = NoGroup
  /\ halt = "none"

Configure(vt, n) == vtype' = vt /\ vl' = n /\ UNCHANGED halt

\* Mutant of KeepVl: the new vtype is accepted whatever its VLMAX.
KeepVlUnchecked(new) ==
  IF ~vtype.ill /\ vtype.sew # 0
  THEN Configure(new, vl)
  ELSE Configure(VtypeIll, 0)

\* rd = rs1 = x0: vl stays, provided that VLMAX does.  Before the first vset
\* the VLMAX getter divides by the zero in the unset vtype.
KeepVl(new) ==
  IF ~vtype.ill /\ vtype.sew = 0
  THEN halt' = "vtype_unset" /\ UNCHANGED <<vtype, vl>>
  ELSE IF ~vtype.ill /\ compute_vlmax(vtype) = compute_vlmax(new)
  THEN Configure(new, vl)
  ELSE Configure(VtypeIll, 0)

\* Mutant of SetVl: vl is the requested length.
SetVlUnbounded(new, avl) == Configure(new, avl)

SetVl(new, avl) ==
  Configure(new, IF avl < compute_vlmax(new) THEN avl ELSE compute_vlmax(new))

\* vsetvli and vsetvl: keep vl, take VLMAX (rs1 = x0), or take rs1.
Vsetvl ==
  \E bits \in VtypeBits :
    LET new == VTYPE_from_bits(bits) IN
    /\ halt = "none"
    /\ group' = NoGroup
    /\ \/ new.ill /\ Configure(VtypeIll, 0)
       \/ ~new.ill /\ KeepVl(new)
       \/ ~new.ill /\ Configure(new, compute_vlmax(new))
       \/ ~new.ill /\ \E avl \in Avls : SetVl(new, avl)

\* vsetivli has no keep form; its length is a 5-bit immediate.
Vsetivli ==
  \E bits \in VtypeBits, avl \in Avls \cap 0 .. 31 :
    LET new == VTYPE_from_bits(bits) IN
    /\ halt = "none"
    /\ group' = NoGroup
    /\ IF new.ill THEN Configure(VtypeIll, 0) ELSE SetVl(new, avl)

-----------------------------------------------------------------------------
(* Register groups *)

\* The checks that vector instructions share.  Bound: of the instructions that
\* run under one vtype and vl only the first is recorded.  None of them changes
\* vtype or vl, so another would find the state this one did.
Ready == halt = "none" /\ ~vtype.ill /\ group = NoGroup

\* vm = 0 reads v0; every check of "overlap with mask" is this one.
MaskFree(masked, vd) == masked => vd # 0

Aligned(reg, regs) == reg % regs = 0

Disjoint(a, aregs, b, bregs) == a + aregs <= b \/ b + bregs <= a

Source(reg, width, regs, reads) ==
  [reg |-> reg, width |-> width, regs |-> regs, reads |-> reads]

\* What a legal instruction of a shape goes through; a width of 64 has only
\* a Todo() behind it, and an unset vtype fits no case of the element width or
\* of __log2_sew.
Perform(shape, vd, width, regs, nf, sources, masked) ==
  IF vtype.sew = 0 \/ width = 64 \/ \E s \in sources : s.width = 64
  THEN /\ halt' = IF vtype.sew = 0 THEN "vtype_unset" ELSE "todo"
       /\ UNCHANGED <<vtype, vl, group>>
  ELSE /\ group' = [shape |-> shape, dst |-> vd, width |-> width, regs |-> regs, nf |-> nf,
                    sources |-> sources \cup (IF masked THEN {MaskSource} ELSE {})]
       /\ UNCHANGED <<vtype, vl, halt>>

\* What the templates with operands of SEW check first.  Where an instruction
\* has two vector sources under the same check, one stands for both.
SameWidth(vd, vs, masked) ==
  /\ Ready
  /\ MaskFree(masked, vd)
  /\ Aligned(vd, getAlign(vtype)) /\ Aligned(vs, getAlign(vtype))

PerformSame(shape, vd, vs, reads, masked) ==
  LET regs == getAlign(vtype) IN
  Perform(shape, vd, vtype.sew, regs, 1, {Source(vs, vtype.sew, regs, reads)}, masked)

\* vadd.vv and the other element-wise instructions may run in place.
Elementwise ==
  \E vd, vs \in Regs, masked \in BOOLEAN :
    SameWidth(vd, vs, masked) /\ PerformSame("elementwise", vd, vs, "element", masked)

\* So may vslidedown and vslide1down.
SlideDown ==
  \E vd, vs \in Regs, masked \in BOOLEAN :
    SameWidth(vd, vs, masked) /\ PerformSame("slide_down", vd, vs, "ahead", masked)

\* vslideup and vslide1up may not, nor may vrgather.
SlideUp ==
  \E vd, vs \in Regs, masked \in BOOLEAN :
    /\ SameWidth(vd, vs, masked)
    /\ vd # vs
    /\ PerformSame("slide_up", vd, vs, "behind", masked)

Gather ==
  \E vd, vs \in Regs, masked \in BOOLEAN :
    /\ SameWidth(vd, vs, masked)
    /\ vd # vs
    /\ PerformSame("gather", vd, vs, "any", masked)

\* vrgatherei16.vv seen from its index operand.  There is no check of vd
\* against the mask.
Gather16 ==
  \E vd, vs1 \in Regs, masked \in BOOLEAN :
    LET regs == getAlign(vtype)
        index == getEewAlign(vtype, 16) IN
    /\ Ready
    /\ vtype.sew # 0 => /\ index.valid
                       /\ Aligned(vd, regs) /\ Aligned(vs1, index.regs)
                       /\ Disjoint(vd, regs, vs1, index.regs)
    /\ Perform("gather16", vd, vtype.sew, regs, 1,
               {Source(vs1, 16, index.regs, "element")}, masked)

\* The checks of the templates with a destination of 2 * SEW.
ToWide(vd, masked) ==
  /\ Ready
  /\ vtype.sew < 64 /\ getAlignWiden(vtype).valid
  /\ MaskFree(masked, vd)
  /\ Aligned(vd, getAlignWiden(vtype).regs)

\* Mutant of Widen: an overlap of the lowest part is let through.
WidenAnyOverlap ==
  \E vd, vs \in Regs, masked \in BOOLEAN :
    /\ ToWide(vd, masked) /\ Aligned(vs, getAlign(vtype))
    /\ Perform("widen", vd, 2 * vtype.sew, getAlignWiden(vtype).regs, 1,
               {Source(vs, vtype.sew, getAlign(vtype), "element")}, masked)

\* vwadd.vv: only an equal register number counts as an illegal overlap.
Widen ==
  \E vd, vs \in Regs, masked \in BOOLEAN :
    /\ ToWide(vd, masked)
    /\ Aligned(vs, getAlign(vtype))
    /\ vd # vs
    /\ Perform("widen", vd, 2 * vtype.sew, getAlignWiden(vtype).regs, 1,
               {Source(vs, vtype.sew, getAlign(vtype), "element")}, masked)

\* vwmacc.vv reads its destination as well, and refuses every overlap.
WidenAccumulate ==
  \E vd, vs \in Regs, masked \in BOOLEAN :
    LET wide == getAlignWiden(vtype).regs IN
    /\ ToWide(vd, masked)
    /\ Aligned(vs, getAlign(vtype))
    /\ ~(vd <= vs /\ vs < vd + wide)
    /\ Perform("widen_accumulate", vd, 2 * vtype.sew, wide, 1,
               {Source(vs, vtype.sew, getAlign(vtype), "element"),
                Source(vd, 2 * vtype.sew, wide, "element")}, masked)

\* vwadd.wv: one source is as wide as the destination, which it may be.
WidenWide ==
  \E vd, vs2, vs1 \in Regs, masked \in BOOLEAN :
    LET wide == getAlignWiden(vtype).regs IN
    /\ ToWide(vd, masked)
    /\ Aligned(vs2, wide) /\ Aligned(vs1, getAlign(vtype))
    /\ vd # vs1
    /\ ~(vs2 <= vs1 /\ vs1 < vs2 + wide)
    /\ Perform("widen_wide", vd, 2 * vtype.sew, wide, 1,
               {Source(vs2, 2 * vtype.sew, wide, "element"),
                Source(vs1, vtype.sew, getAlign(vtype), "element")}, masked)

Narrow ==
  \E vd, vs2 \in Regs, masked \in BOOLEAN :
    LET regs == getAlign(vtype)
        wide == getAlignWiden(vtype) IN
    /\ Ready
    /\ vtype.sew < 64 /\ wide.valid
    /\ MaskFree(masked, vd)
    /\ Aligned(vd, regs) /\ Aligned(vs2, wide.regs)
    /\ ~(vs2 < vd /\ vd < vs2 + wide.regs)
    /\ Perform("narrow", vd, vtype.sew, regs, 1,
               {Source(vs2, 2 * vtype.sew, wide.regs, "element")}, masked)

\* vsext.vf2, vzext.vf2
Extend2 ==
  \E vd, vs2 \in Regs, masked \in BOOLEAN :
    LET regs == getAlign(vtype)
        half == getAlignNarrow2(vtype) IN
    /\ Ready /\ vtype.sew >= 16
    /\ MaskFree(masked, vd)
    /\ Aligned(vd, regs) /\ Aligned(vs2, half)
    /\ vd # vs2
    /\ Perform("extend", vd, vtype.sew, regs, 1,
               {Source(vs2, vtype.sew \div 2, half, "element")}, masked)

\* vsext.vf4, vzext.vf4: an overlap is legal at the top of the group only.
Extend4 ==
  \E vd, vs2 \in Regs, masked \in BOOLEAN :
    LET regs == getAlign(vtype)
        quarter == getAlignNarrow4(vtype) IN
    /\ Ready /\ vtype.sew >= 32
    /\ MaskFree(masked, vd)
    /\ Aligned(vd, regs) /\ Aligned(vs2, quarter)
    /\ (vd <= vs2 /\ vs2 < vd + regs) => (regs >= 4 /\ vs2 + quarter = vd + regs)
    /\ Perform("extend", vd, vtype.sew, regs, 1,
               {Source(vs2, vtype.sew \div 4, quarter, "element")}, masked)

\* The destination of a comparison or a carry-out is one register of bits; it
\* may be the first register of a source, and v0.
ToMask(vd, vs) ==
  /\ Ready
  /\ Aligned(vs, getAlign(vtype))
  /\ ~(vd > vs /\ vd < vs + getAlign(vtype))

\* vmseq.vv and the other comparisons
Compare ==
  \E vd, vs \in Regs, masked \in BOOLEAN :
    /\ ToMask(vd, vs)
    /\ Perform("compare", vd, 1, 1, 1,
               {Source(vs, vtype.sew, getAlign(vtype), "element")}, masked)

\* vmadc.vv and vmadc.vvm, whose mask is a carry that every element reads
CarryOut ==
  \E vd, vs \in Regs, carries \in BOOLEAN :
    /\ ToMask(vd, vs)
    /\ Perform("carry_out", vd, 1, 1, 1,
               {Source(vs, vtype.sew, getAlign(vtype), "element")}, carries)

\* vmsbf.m, vmsif.m, vmsof.m
MaskToMask ==
  \E vd, vs \in Regs, masked \in BOOLEAN :
    /\ Ready
    /\ MaskFree(masked, vd)
    /\ vd # vs
    /\ UNCHANGED <<vtype, vl, halt>>
    /\ group' = [shape |-> "mask_to_mask", dst |-> vd, width |-> 1, regs |-> 1, nf |-> 1,
                 sources |-> {Source(vs, 1, 1, "element")}
                             \cup (IF masked THEN {MaskSource} ELSE {})]

\* viota.m
Iota ==
  \E vd, vs \in Regs, masked \in BOOLEAN :
    LET regs == getAlign(vtype) IN
    /\ Ready
    /\ MaskFree(masked, vd)
    /\ Aligned(vd, regs)
    /\ ~(vd <= vs /\ vs < vd + regs)
    /\ Perform("iota", vd, vtype.sew, regs, 1, {Source(vs, 1, 1, "element")}, masked)

\* vcompress.vm reads v[vs1] as a mask.  It packs: the element an iteration
\* writes is never after the one it reads.
Compress ==
  \E vd, vs2, vs1 \in Regs :
    LET regs == getAlign(vtype) IN
    /\ Ready
    /\ Aligned(vd, regs) /\ Aligned(vs2, regs)
    /\ vd # vs2
    /\ ~(vd <= vs1 /\ vs1 < vd + regs)
    /\ Perform("compress", vd, vtype.sew, regs, 1,
               {Source(vs2, vtype.sew, regs, "element"), Source(vs1, 1, 1, "element")}, FALSE)

\* Mutant of SegmentFits: the fields may reach past register 31.
SegmentFitsAnywhere(vd, regs, nf) == nf > 1 => regs * nf <= 8

SegmentFits(vd, regs, nf) == nf > 1 => regs * nf <= 8 /\ vd + regs * nf <= 32

\* Unit-stride and strided loads, with or without fields, seen from the mask.
Load ==
  \E vd \in Regs, eew \in {8, 16, 32}, nf \in Fields :
    LET emul == getEewAlign(vtype, eew) IN
    /\ Ready
    /\ vd # 0
    /\ vtype.sew # 0 =>
         /\ emul.valid /\ Aligned(vd, emul.regs)
         /\ SegmentFits(vd, emul.regs, nf)
    /\ Perform("load", vd, eew, emul.regs, nf, {}, TRUE)

\* Indexed loads: data of SEW, indices of their own width.
LoadIndexed ==
  \E vd, vs2 \in Regs, eewi \in {8, 16, 32}, nf \in Fields, masked \in BOOLEAN :
    LET regs == getAlign(vtype)
        index == getEewAlign(vtype, eewi) IN
    /\ Ready
    /\ MaskFree(masked, vd)
    /\ vtype.sew # 0 =>
         /\ index.valid
         /\ Aligned(vd, regs) /\ Aligned(vs2, index.regs)
         /\ SegmentFits(vd, regs, nf)
         /\ vtype.sew # eewi => Disjoint(vd, regs * nf, vs2, index.regs)
    /\ Perform("load_indexed", vd, vtype.sew, regs, nf,
               {Source(vs2, eewi, index.regs, "element")}, masked)

Next ==
  \/ Vsetvl \/ Vsetivli
  \/ Elementwise \/ SlideDown \/ SlideUp \/ Gather \/ Gather16
  \/ Widen \/ WidenAccumulate \/ WidenWide \/ Narrow \/ Extend2 \/ Extend4
  \/ Compare \/ CarryOut \/ MaskToMask \/ Iota \/ Compress
  \/ Load \/ LoadIndexed

Spec == Init /\ [][Next]_vars

-----------------------------------------------------------------------------
(* Properties *)

\* vl never exceeds VLMAX, whatever sequence of vset instructions led there:
\* the keep form (rd = rs1 = x0) is the one that leaves an old vl under a new
\* vtype (vsetvl.asl, vsetvli.asl).
VlInRange ==
  IF vtype.ill \/ vtype.sew = 0 THEN vl = 0 ELSE vl <= compute_vlmax(vtype)

\* getEewAlign adds logarithms; the reference is EMUL = EEW / SEW * LMUL as a
\* fraction: it is valid from 1/8 to 8, and a group has EMUL registers or one.
EewAlignExact ==
  (~vtype.ill /\ vtype.sew # 0) =>
    \A eew \in Sews :
      LET num == eew * (IF vtype.lmul >= 0 THEN 2 ^ vtype.lmul ELSE 1)
          den == vtype.sew * (IF vtype.lmul < 0 THEN 2 ^ (-vtype.lmul) ELSE 1)
          emul == getEewAlign(vtype, eew)
      IN /\ emul.valid <=> (num <= 8 * den /\ den <= 8 * num)
         /\ emul.valid => emul.regs = (IF num <= den THEN 1 ELSE num \div den)

\* The vl elements of every operand of every accepted instruction lie inside
\* the register group whose alignment was checked, and the destination fields
\* inside the 32 registers, which is what logWrite_VREG_elmul asserts: no
\* element access reaches another register of the concatenated __VRF.
GroupsHoldVl ==
  /\ vl * group.width <= group.regs * VLEN
  /\ group.dst + group.nf * group.regs <= 32
  /\ \A s \in group.sources : /\ vl * s.width <= s.regs * VLEN
                              /\ s.reg + s.regs <= 32

\* Destination element i of field j shares a bit with element e of source s.
Clobbers(i, s, e) ==
  \E j \in 0 .. group.nf - 1 :
    LET first == (group.dst + j * group.regs) * VLEN + i * group.width
        from == s.reg * VLEN + e * s.width
    IN first < from + s.width /\ from < first + group.width

\* The source elements that iteration k of the loop may read.
ReadAt(s, k) ==
  CASE s.reads = "element" -> {k}
    [] s.reads = "ahead" -> k .. compute_vlmax(vtype) - 1
    [] s.reads = "behind" -> 0 .. k
    [] s.reads = "any" -> 0 .. compute_vlmax(vtype) - 1

\* Executing the elements one after the other is the same as reading every
\* source first: no iteration overwrites a source or mask element that a later
\* iteration reads ("vd overlap with mask", "illegally overlapped" and
\* "legal overlap" in the templates).
SequentialIsParallel ==
  \A s \in group.sources : \A k \in 1 .. vl - 1 : \A e \in ReadAt(s, k) :
    \A i \in 0 .. k - 1 : ~Clobbers(i, s, e)

\* The same for every shape but a masked vrgatherei16.vv.
OverlapSafe ==
  ~(group.shape = "gather16" /\ MaskSource \in group.sources) => SequentialIsParallel
=============================================================================
