------------------------ MODULE VectorConfigProofs -------------------------
(***************************************************************************)
(* Proofs about VectorConfig, for every register length, every set of      *)
(* registers and lengths, and every number of fields.                      *)
(*                                                                         *)
(* The argument is one about operands: an operand of a given width and     *)
(* number of registers holds VLMAX elements (Fits), and a source lies so   *)
(* to the destination that no iteration of the loop reaches what a later   *)
(* one reads (Clear).  Both are kept for the instruction that was accepted *)
(* last, and both are what the alignment and overlap checks establish.     *)
(***************************************************************************)
EXTENDS VectorConfig, TLAPS

\* LMUL in eighths, so that the fractions are numbers
Eighths(lmul) ==
  CASE lmul = -3 -> 1 [] lmul = -2 -> 2 [] lmul = -1 -> 4 [] lmul = 0 -> 8
    [] lmul = 1 -> 16 [] lmul = 2 -> 32 [] lmul = 3 -> 64

\* The elements that an operand may have to hold; before the first vset vl is 0.
Capacity == IF vtype.sew = 0 THEN 0 ELSE compute_vlmax(vtype)

Fits(width, regs) == Capacity * width <= regs * VLEN

Widths == {1, 8, 16, 32}
Counts == {1, 2, 4, 8}

\* A vtype is as vset leaves it, or was never set.
VtypeInv ==
  /\ vtype \in [ill : BOOLEAN, sew : Sews \cup {0}, lmul : Lmuls]
  /\ vl \in Nat
  /\ VlInRange

\* Where a source may lie: apart from the destination; at a field of it, with
\* elements no narrower; or, narrower, at its upper end.
Apart(s, dst, regs, nf) == Disjoint(dst, nf * regs, s.reg, s.regs)

AtField(s, dst, width, regs, nf) ==
  /\ s.reads \in {"element", "ahead"}
  /\ \/ s.reg = dst /\ nf = 1 /\ width <= s.width
     \/ s.width = width /\ s.regs = regs /\ \E j \in 0 .. nf - 1 : s.reg = dst + j * regs

AtTop(s, dst, width, regs, nf) ==
  /\ s.reads = "element" /\ nf = 1
  /\ s.reg + s.regs = dst + regs
  /\ s.width <= width /\ s.width * regs = width * s.regs

Clear(s, dst, width, regs, nf) ==
  \/ Apart(s, dst, regs, nf)
  \/ AtField(s, dst, width, regs, nf)
  \/ AtTop(s, dst, width, regs, nf)

Operand(s) ==
  /\ s.reg \in 0 .. 31 /\ s.width \in Widths /\ s.regs \in Counts
  /\ s.reads \in {"element", "ahead", "behind", "any"}
  /\ s.reads # "element" => vtype.sew # 0
  /\ s.reg + s.regs <= 32
  /\ Fits(s.width, s.regs)

\* What the checks of an instruction establish; a masked vrgatherei16.vv is let
\* through with its destination over the mask.
Legal(shape, dst, width, regs, nf, sources) ==
  /\ shape \in Shapes
  /\ dst \in 0 .. 31 /\ width \in Widths /\ regs \in Counts /\ nf \in 1 .. 8
  /\ dst + nf * regs <= 32
  /\ Fits(width, regs)
  /\ \A s \in sources :
       /\ Operand(s)
       /\ \/ Clear(s, dst, width, regs, nf)
          \/ shape = "gather16" /\ MaskSource \in sources

\* The instruction that was accepted last
GroupInv ==
  \/ group = NoGroup
  \/ /\ ~vtype.ill
     /\ Legal(group.shape, group.dst, group.width, group.regs, group.nf, group.sources)

HaltInv == halt \in {"none", "vtype_unset", "todo"}

Inv == VtypeInv /\ GroupInv /\ HaltInv

-----------------------------------------------------------------------------
(* Arithmetic of vtype *)

LEMMA LengthType == VLEN \in Nat /\ VLEN > 0
BY LengthAssumption

LEMMA ElementWidth ==
  ASSUME NEW n \in 0 .. 3
  PROVE  8 * 2 ^ n \in Sews
<1>1. n = 0 \/ n = 1 \/ n = 2 \/ n = 3
  OBVIOUS
<1>2. CASE n = 0
  BY <1>2 DEF Sews
<1>3. CASE n = 1
  BY <1>3 DEF Sews
<1>4. CASE n = 2
  BY <1>4 DEF Sews
<1>5. CASE n = 3
  BY <1>5 DEF Sews
<1>6. QED
  BY <1>1, <1>2, <1>3, <1>4, <1>5

LEMMA EighthsType == \A lmul \in Lmuls : Eighths(lmul) \in {1, 2, 4, 8, 16, 32, 64}
BY DEF Lmuls, Eighths

\* What vset makes of its operand: an ill vtype, or one that is well formed.
LEMMA VtypeOfBits ==
  ASSUME NEW b \in VtypeBits
  PROVE  \/ VTYPE_from_bits(b) = VtypeIll
         \/ VTYPE_from_bits(b) \in [ill : {FALSE}, sew : Sews, lmul : Lmuls]
<1> DEFINE lmul == IF b.vlmul < 4 THEN b.vlmul ELSE b.vlmul - 8
<1>1. CASE b.reserved \/ b.vsew > 3 \/ b.vlmul = 4
  BY <1>1 DEF VTYPE_from_bits
<1>2. CASE ~(b.reserved \/ b.vsew > 3 \/ b.vlmul = 4)
  <2>1. b.vsew \in 0 .. 3 /\ b.vlmul \in 0 .. 7 /\ b.vlmul # 4
    <3>1. b.vsew \in 0 .. 7 /\ b.vlmul \in 0 .. 7
      <4>1. CASE b \in [reserved : {FALSE}, vsew : 0 .. 7, vlmul : 0 .. 7]
        BY <4>1
      <4>2. CASE b = [reserved |-> TRUE, vsew |-> 0, vlmul |-> 0]
        BY <4>2
      <4>3. QED
        BY <4>1, <4>2 DEF VtypeBits
    <3>2. QED
      BY <1>2, <3>1
  <2>2. 8 * 2 ^ b.vsew \in Sews
    BY <2>1, ElementWidth
  <2>3. lmul \in Lmuls
    BY <2>1 DEF Lmuls
  <2>4. \/ VTYPE_from_bits(b) = VtypeIll
        \/ VTYPE_from_bits(b) = [ill |-> FALSE, sew |-> 8 * 2 ^ b.vsew, lmul |-> lmul]
    BY DEF VTYPE_from_bits
  <2> HIDE DEF lmul
  <2> DEFINE sew == 8 * 2 ^ b.vsew
  <2>5. sew \in Sews
    BY <2>2
  <2> HIDE DEF sew
  <2>6. [ill |-> FALSE, sew |-> sew, lmul |-> lmul] \in [ill : {FALSE}, sew : Sews, lmul : Lmuls]
    BY <2>3, <2>5
  <2>7. QED
    BY <2>4, <2>6 DEF sew
<1>3. QED
  BY <1>1, <1>2

\* VLMAX is VLEN * LMUL / SEW, rounded down.
LEMMA Vlmax ==
  ASSUME NEW vt, vt.sew \in Sews, vt.lmul \in Lmuls
  PROVE  /\ compute_vlmax(vt) \in 0 .. VLEN
         /\ 8 * vt.sew * compute_vlmax(vt) <= VLEN * Eighths(vt.lmul)
<1> DEFINE whole == VLEN \div vt.sew
<1>1. whole \in Nat /\ vt.sew * whole <= VLEN /\ 8 * whole <= VLEN
  BY LengthType DEF Sews
<1> HIDE DEF whole
<1>2. compute_vlmax(vt) = IF vt.lmul >= 0 THEN whole * 2 ^ vt.lmul ELSE whole \div 2 ^ (-vt.lmul)
  BY DEF compute_vlmax, mul_lmul, whole
<1>3. CASE vt.lmul = 0
  BY <1>1, <1>2, <1>3, LengthType DEF Eighths, Sews
<1>4. CASE vt.lmul = 1
  BY <1>1, <1>2, <1>4, LengthType DEF Eighths, Sews
<1>5. CASE vt.lmul = 2
  BY <1>1, <1>2, <1>5, LengthType DEF Eighths, Sews
<1>6. CASE vt.lmul = 3
  BY <1>1, <1>2, <1>6, LengthType DEF Eighths, Sews
<1>7. CASE vt.lmul < 0
  <2> DEFINE k == -vt.lmul
  <2>1. k \in {1, 2, 3} /\ vt.lmul = -k
    BY <1>7 DEF Lmuls
  <2>2. compute_vlmax(vt) = whole \div 2 ^ k
    BY <1>2, <1>7 DEF Lmuls
  <2> HIDE DEF k
  <2>3. CASE k = 1
    BY <1>1, <2>1, <2>2, <2>3, LengthType DEF Eighths, Sews
  <2>4. CASE k = 2
    BY <1>1, <2>1, <2>2, <2>4, LengthType DEF Eighths, Sews
  <2>5. CASE k = 3
    BY <1>1, <2>1, <2>2, <2>5, LengthType DEF Eighths, Sews
  <2>6. QED
    BY <2>1, <2>3, <2>4, <2>5
<1>8. QED
  BY <1>3, <1>4, <1>5, <1>6, <1>7 DEF Lmuls

\* Register counts, in eighths
LEMMA Aligns ==
  ASSUME NEW vt, vt.lmul \in Lmuls, NEW e, e = Eighths(vt.lmul)
  PROVE  /\ getAlign(vt) = IF e <= 8 THEN 1 ELSE e \div 8
         /\ getAlignWiden(vt).regs = IF e <= 4 THEN 1 ELSE IF e = 64 THEN 8 ELSE e \div 4
         /\ getAlignNarrow2(vt) = IF e <= 16 THEN 1 ELSE e \div 16
         /\ getAlignNarrow4(vt) = IF e <= 32 THEN 1 ELSE e \div 32
<1>1. CASE vt.lmul = 0
  BY <1>1 DEF getAlign, getAlignWiden, getAlignNarrow2, getAlignNarrow4, Eighths
<1>2. CASE vt.lmul = 1
  BY <1>2 DEF getAlign, getAlignWiden, getAlignNarrow2, getAlignNarrow4, Eighths
<1>3. CASE vt.lmul = 2
  BY <1>3 DEF getAlign, getAlignWiden, getAlignNarrow2, getAlignNarrow4, Eighths
<1>4. CASE vt.lmul = 3
  BY <1>4 DEF getAlign, getAlignWiden, getAlignNarrow2, getAlignNarrow4, Eighths
<1>5. CASE vt.lmul \in {-3, -2, -1}
  BY <1>5 DEF getAlign, getAlignWiden, getAlignNarrow2, getAlignNarrow4, Eighths
<1>6. QED
  BY <1>1, <1>2, <1>3, <1>4, <1>5 DEF Lmuls

LEMMA WideValid ==
  ASSUME NEW vt, vt.lmul \in Lmuls
  PROVE  getAlignWiden(vt).valid <=> Eighths(vt.lmul) < 64
<1>1. getAlignWiden(vt).valid <=> vt.lmul # 3
  BY Zenon DEF getAlignWiden
<1>2. vt.lmul # 3 <=> Eighths(vt.lmul) < 64
  BY DEF Lmuls, Eighths
<1>3. QED
  BY <1>1, <1>2

LEMMA LogOfWidth ==
  /\ log2_sew(8) = 3 /\ log2_sew(16) = 4 /\ log2_sew(32) = 5 /\ log2_sew(64) = 6
<1>1. 2 ^ 3 = 8 /\ 2 ^ 4 = 16 /\ 2 ^ 5 = 32 /\ 2 ^ 6 = 64
  OBVIOUS
<1>2. ASSUME NEW n \in 3 .. 6
      PROVE  2 ^ n = IF n = 3 THEN 8 ELSE IF n = 4 THEN 16 ELSE IF n = 5 THEN 32 ELSE 64
  <2>1. CASE n = 3
    BY <2>1
  <2>2. CASE n = 4
    BY <2>2
  <2>3. CASE n = 5
    BY <2>3
  <2>4. CASE n = 6
    BY <2>4
  <2>5. QED
    BY <2>1, <2>2, <2>3, <2>4
<1> DEFINE pow(n) == 2 ^ n
<1>3. \A n \in 3 .. 6 : pow(n) = IF n = 3 THEN 8 ELSE IF n = 4 THEN 16 ELSE IF n = 5 THEN 32 ELSE 64
  BY <1>2
<1>4. \A sew : log2_sew(sew) = CHOOSE n \in 3 .. 6 : pow(n) = sew
  BY DEF log2_sew
<1> HIDE DEF pow
<1>5. QED
  BY <1>3, <1>4

\* getEewAlign, which adds logarithms, is EMUL = EEW / SEW * LMUL in fractions.
LEMMA EewAligns ==
  ASSUME NEW vt, vt.sew \in Sews, vt.lmul \in Lmuls, NEW eew \in Sews,
         NEW e, e = Eighths(vt.lmul)
  PROVE  /\ getEewAlign(vt, eew).valid <=> (eew * e <= 64 * vt.sew /\ vt.sew <= eew * e)
         /\ getEewAlign(vt, eew).valid =>
              getEewAlign(vt, eew).regs =
                IF eew * e <= 8 * vt.sew THEN 1 ELSE (eew * e) \div (8 * vt.sew)
<1> DEFINE log(w) == IF w = 8 THEN 3 ELSE IF w = 16 THEN 4 ELSE IF w = 32 THEN 5 ELSE 6
           d == vt.lmul + log(eew) - log(vt.sew)
<1>1. vt.lmul + log2_sew(eew) - log2_sew(vt.sew) = d
  BY LogOfWidth DEF Sews
<1>2. getEewAlign(vt, eew).valid <=> d \in -3 .. 3
  <2> HIDE DEF d
  <2>1. QED
    BY <1>1, Zenon DEF getEewAlign
<1>3. getEewAlign(vt, eew).regs = IF d = 1 THEN 2 ELSE IF d = 2 THEN 4 ELSE IF d = 3 THEN 8 ELSE 1
  <2>1. d \in Int
    BY DEF Lmuls
  <2> HIDE DEF d
  <2>2. getEewAlign(vt, eew).regs = IF d \in 1 .. 3 THEN 2 ^ d ELSE 1
    BY <1>1, Zenon DEF getEewAlign
  <2>3. CASE d = 1
    BY <2>2, <2>3
  <2>4. CASE d = 2
    BY <2>2, <2>4
  <2>5. CASE d = 3
    BY <2>2, <2>5
  <2>6. QED
    BY <2>1, <2>2, <2>3, <2>4, <2>5
<1>4. /\ d \in -3 .. 3 <=> (eew * e <= 64 * vt.sew /\ vt.sew <= eew * e)
      /\ d \in -3 .. 3 =>
           (IF d = 1 THEN 2 ELSE IF d = 2 THEN 4 ELSE IF d = 3 THEN 8 ELSE 1) =
             IF eew * e <= 8 * vt.sew THEN 1 ELSE (eew * e) \div (8 * vt.sew)
  <2>1. CASE vt.lmul = -3
    BY <2>1 DEF Sews, Eighths
  <2>2. CASE vt.lmul = -2
    BY <2>2 DEF Sews, Eighths
  <2>3. CASE vt.lmul = -1
    BY <2>3 DEF Sews, Eighths
  <2>4. CASE vt.lmul = 0
    BY <2>4 DEF Sews, Eighths
  <2>5. CASE vt.lmul = 1
    BY <2>5 DEF Sews, Eighths
  <2>6. CASE vt.lmul = 2
    BY <2>6 DEF Sews, Eighths
  <2>7. CASE vt.lmul = 3
    BY <2>7 DEF Sews, Eighths
  <2>8. QED
    BY <2>1, <2>2, <2>3, <2>4, <2>5, <2>6, <2>7 DEF Lmuls
<1>5. QED
  BY <1>2, <1>3, <1>4

-----------------------------------------------------------------------------
(* Operands *)

LEMMA Scale ==
  ASSUME NEW a \in Nat, NEW b \in Nat, NEW c \in Nat, a <= b
  PROVE  c * a <= c * b
OBVIOUS

LEMMA CapacityType ==
  ASSUME VtypeInv
  PROVE  /\ Capacity \in 0 .. VLEN
         /\ vtype.sew # 0 => 8 * vtype.sew * Capacity <= VLEN * Eighths(vtype.lmul)
<1>1. vtype.sew \in Sews \cup {0} /\ vtype.lmul \in Lmuls
  BY DEF VtypeInv
<1>2. QED
  BY <1>1, Vlmax, LengthType DEF Capacity

\* An operand holds VLMAX elements if its width is to SEW at most as its
\* registers are to LMUL.
LEMMA FitsByRatio ==
  ASSUME VtypeInv, NEW width \in Widths, NEW regs \in Counts,
         vtype.sew # 0 => width * Eighths(vtype.lmul) <= 8 * vtype.sew * regs
  PROVE  Fits(width, regs)
<1> DEFINE e == Eighths(vtype.lmul)
<1>1. vtype.sew \in Sews \cup {0} /\ vtype.lmul \in Lmuls
  BY DEF VtypeInv
<1>2. e \in Nat
  BY <1>1, EighthsType
<1>3. CASE vtype.sew = 0
  BY <1>3, LengthType DEF Fits, Capacity, Counts, Widths
<1>4. CASE vtype.sew # 0
  <2>1. 8 * vtype.sew * Capacity <= VLEN * e /\ Capacity \in Nat
    BY <1>4, CapacityType, LengthType
  <2> HIDE DEF e
  <2>2. width * (8 * vtype.sew * Capacity) <= width * (VLEN * e)
    BY <1>1, <1>2, <2>1, LengthType, Scale DEF Widths, Sews
  <2>3. VLEN * (width * e) <= VLEN * (8 * vtype.sew * regs)
    BY <1>1, <1>2, <1>4, LengthType, Scale DEF Widths, Sews, Counts, e
  <2>4. width * (VLEN * e) = VLEN * (width * e)
    BY <1>2, LengthType DEF Widths
  <2>5. width * (8 * vtype.sew * Capacity) <= VLEN * (8 * vtype.sew * regs)
    BY <1>1, <1>2, <2>1, <2>2, <2>3, <2>4, LengthType DEF Widths, Sews, Counts
  <2>6. Capacity * width <= regs * VLEN
    <3>1. vtype.sew \in {8, 16, 32, 64}
      BY <1>1, <1>4 DEF Sews
    <3>2. Capacity * width \in Nat /\ width * Capacity = Capacity * width
          /\ VLEN * regs \in Nat /\ VLEN * regs = regs * VLEN
      BY <2>1, LengthType DEF Widths, Counts
    <3>3. width * (8 * vtype.sew * Capacity) = 8 * vtype.sew * (width * Capacity)
          /\ VLEN * (8 * vtype.sew * regs) = 8 * vtype.sew * (VLEN * regs)
      BY <3>1, <2>1, LengthType DEF Widths, Counts
    <3>4. QED
      BY <2>5, <3>1, <3>2, <3>3
  <2>7. QED
    BY <2>6 DEF Fits
<1>5. QED
  BY <1>3, <1>4

LEMMA MaskOperand ==
  ASSUME VtypeInv
  PROVE  Operand(MaskSource)
<1>1. Fits(1, 1)
  BY CapacityType, LengthType DEF Fits
<1>2. QED
  BY <1>1 DEF Operand, MaskSource, Widths, Counts

\* A destination other than v0 is apart from the mask; a mask that is written
\* to v0 replaces it bit by bit.
LEMMA MaskClear ==
  /\ \A dst \in 1 .. 31 : \A width, regs, nf : Clear(MaskSource, dst, width, regs, nf)
  /\ \A dst \in 0 .. 31 : Clear(MaskSource, dst, 1, 1, 1)
BY DEF Clear, Apart, AtField, Disjoint, MaskSource

\* Groups of aligned registers do not leave the register file, and of two one
\* lies in the other or apart from it.
LEMMA AlignedGroups ==
  ASSUME NEW a \in 0 .. 31, NEW p \in Counts, Aligned(a, p),
         NEW b \in 0 .. 31, NEW q \in Counts, Aligned(b, q)
  PROVE  /\ a + p <= 32 /\ b + q <= 32
         /\ \/ Disjoint(a, p, b, q)
            \/ a <= b /\ b + q <= a + p
            \/ b <= a /\ a + p <= b + q
<1> USE DEF Counts, Aligned, Disjoint
<1>1. CASE p = 1
  BY <1>1
<1>2. CASE p = 2
  BY <1>2
<1>3. CASE p = 4
  BY <1>3
<1>4. CASE p = 8
  BY <1>4
<1>5. QED
  BY <1>1, <1>2, <1>3, <1>4

-----------------------------------------------------------------------------
(* What the checks establish *)

LEMMA AcceptedKeeps ==
  ASSUME Inv, Ready, NEW shape, NEW vd, NEW width, NEW regs, NEW nf, NEW sources,
         NEW masked \in BOOLEAN, NEW all, all = sources \cup (IF masked THEN {MaskSource} ELSE {}),
         UNCHANGED <<vtype, vl, halt>>,
         group' = [shape |-> shape, dst |-> vd, width |-> width, regs |-> regs, nf |-> nf,
                   sources |-> all],
         masked /\ shape # "gather16" => Clear(MaskSource, vd, width, regs, nf),
         Legal(shape, vd, width, regs, nf, sources)
  PROVE  Inv'
<1>1. VtypeInv /\ ~vtype.ill
  BY DEF Inv, Ready
<1>2. ASSUME masked
      PROVE  /\ Operand(MaskSource)
             /\ \/ Clear(MaskSource, vd, width, regs, nf)
                \/ shape = "gather16" /\ MaskSource \in all
  BY <1>1, <1>2, MaskOperand
<1>3. Legal(shape, vd, width, regs, nf, all)
  BY <1>2 DEF Legal
<1>4. Capacity' = Capacity
  BY DEF Capacity, compute_vlmax, mul_lmul
<1>5. \A s : Operand(s)' <=> Operand(s)
  BY <1>4 DEF Operand, Fits
<1>6. GroupInv'
  BY <1>1, <1>3, <1>4, <1>5 DEF GroupInv, Legal, Fits
<1>7. VtypeInv' /\ HaltInv'
  BY <1>1 DEF Inv, VtypeInv, VlInRange, HaltInv
<1>8. QED
  BY <1>6, <1>7 DEF Inv

LEMMA PerformKeeps ==
  ASSUME Inv, Ready, NEW shape, NEW vd, NEW width, NEW regs, NEW nf, NEW sources,
         NEW masked \in BOOLEAN,
         Perform(shape, vd, width, regs, nf, sources, masked),
         masked /\ shape # "gather16" => Clear(MaskSource, vd, width, regs, nf),
         vtype.sew \in Sews /\ width # 64 /\ (\A s \in sources : s.width # 64)
           => Legal(shape, vd, width, regs, nf, sources)
  PROVE  Inv'
<1>1. vtype.sew \in Sews \cup {0} /\ VtypeInv
  BY DEF Inv, VtypeInv
<1>2. CASE vtype.sew = 0 \/ width = 64 \/ \E s \in sources : s.width = 64
  <2>1. UNCHANGED <<vtype, vl, group>> /\ HaltInv'
    BY <1>2 DEF Perform, HaltInv
  <2>2. GroupInv' /\ VtypeInv'
    BY <1>1, <2>1 DEF Ready, GroupInv, VtypeInv, VlInRange
  <2>3. QED
    BY <2>1, <2>2 DEF Inv
<1>3. CASE ~(vtype.sew = 0 \/ width = 64 \/ \E s \in sources : s.width = 64)
  <2>1. Legal(shape, vd, width, regs, nf, sources)
    BY <1>1, <1>3
  <2>2. /\ UNCHANGED <<vtype, vl, halt>>
        /\ group' = [shape |-> shape, dst |-> vd, width |-> width, regs |-> regs, nf |-> nf,
                     sources |-> sources \cup (IF masked THEN {MaskSource} ELSE {})]
    BY <1>3 DEF Perform
  <2>3. QED
    BY <2>1, <2>2, AcceptedKeeps
<1>4. QED
  BY <1>2, <1>3

\* The register counts of the checks against LMUL, and against one another
LEMMA CountRatios ==
  ASSUME NEW vt, vt.lmul \in Lmuls, NEW e, e = Eighths(vt.lmul),
         NEW regs, regs = getAlign(vt), NEW wide, wide = getAlignWiden(vt).regs,
         NEW half, half = getAlignNarrow2(vt), NEW quarter, quarter = getAlignNarrow4(vt)
  PROVE  /\ regs \in Counts /\ e <= 8 * regs
         /\ half \in Counts /\ e <= 16 * half /\ (regs = 2 * half \/ (regs = 1 /\ half = 1))
         /\ quarter \in Counts /\ e <= 32 * quarter
         /\ regs = 4 * quarter \/ (regs \in {1, 2} /\ quarter = 1)
         /\ getAlignWiden(vt).valid =>
              /\ wide \in Counts /\ 2 * e <= 8 * wide
              /\ wide = 2 * regs \/ (wide = 1 /\ regs = 1)
<1>1. e \in {1, 2, 4, 8, 16, 32, 64}
  BY EighthsType
<1>2. /\ regs = IF e <= 8 THEN 1 ELSE e \div 8
      /\ wide = IF e <= 4 THEN 1 ELSE IF e = 64 THEN 8 ELSE e \div 4
      /\ half = IF e <= 16 THEN 1 ELSE e \div 16
      /\ quarter = IF e <= 32 THEN 1 ELSE e \div 32
  BY Aligns
<1>3. getAlignWiden(vt).valid <=> e < 64
  BY WideValid
<1>4. /\ regs \in Counts /\ e <= 8 * regs
      /\ half \in Counts /\ e <= 16 * half /\ (regs = 2 * half \/ (regs = 1 /\ half = 1))
      /\ quarter \in Counts /\ e <= 32 * quarter
      /\ regs = 4 * quarter \/ (regs \in {1, 2} /\ quarter = 1)
  BY <1>1, <1>2 DEF Counts
<1>5. e < 64 => /\ wide \in Counts /\ 2 * e <= 8 * wide
                /\ wide = 2 * regs \/ (wide = 1 /\ regs = 1)
  BY <1>1, <1>2 DEF Counts
<1>6. QED
  BY <1>3, <1>4, <1>5, Zenon

LEMMA EewRatios ==
  ASSUME NEW vt, vt.sew \in Sews, vt.lmul \in Lmuls, NEW eew \in Sews, getEewAlign(vt, eew).valid,
         NEW regs, regs = getEewAlign(vt, eew).regs
  PROVE  /\ regs \in Counts
         /\ eew * Eighths(vt.lmul) <= 8 * vt.sew * regs
         /\ eew = vt.sew => regs = getAlign(vt)
<1> DEFINE e == Eighths(vt.lmul)
<1>1. e \in {1, 2, 4, 8, 16, 32, 64}
  BY EighthsType
<1>2. /\ eew * e <= 64 * vt.sew /\ vt.sew <= eew * e
      /\ regs = IF eew * e <= 8 * vt.sew THEN 1 ELSE (eew * e) \div (8 * vt.sew)
  BY EewAligns
<1>3. getAlign(vt) = IF e <= 8 THEN 1 ELSE e \div 8
  BY Aligns
<1> HIDE DEF e
<1>4. /\ regs \in Counts
      /\ eew * e <= 8 * vt.sew * regs
      /\ eew = vt.sew => regs = IF e <= 8 THEN 1 ELSE e \div 8
  <2> USE DEF Sews, Counts
  <2>1. CASE vt.sew = 8
    BY <1>1, <1>2, <2>1
  <2>2. CASE vt.sew = 16
    BY <1>1, <1>2, <2>2
  <2>3. CASE vt.sew = 32
    BY <1>1, <1>2, <2>3
  <2>4. CASE vt.sew = 64
    BY <1>1, <1>2, <2>4
  <2>5. QED
    BY <2>1, <2>2, <2>3, <2>4
<1>5. QED
  BY <1>3, <1>4 DEF e

\* The vtype under which an instruction is performed
LEMMA Setting ==
  ASSUME Inv, Ready
  PROVE  VtypeInv /\ vtype.sew \in Sews \cup {0} /\ vtype.lmul \in Lmuls
BY DEF Inv, VtypeInv

LEMMA AlignedOperand ==
  ASSUME VtypeInv, NEW reg \in 0 .. 31, NEW width \in Widths, NEW regs \in Counts,
         Aligned(reg, regs),
         vtype.sew # 0 => width * Eighths(vtype.lmul) <= 8 * vtype.sew * regs,
         NEW reads \in {"element", "ahead", "behind", "any"},
         reads # "element" => vtype.sew # 0
  PROVE  Operand(Source(reg, width, regs, reads)) /\ reg + regs <= 32
<1>1. Fits(width, regs)
  BY FitsByRatio
<1>2. reg + regs <= 32
  BY AlignedGroups
<1>3. QED
  BY <1>1, <1>2 DEF Operand, Source

\* The destination of an accepted instruction without fields
LEMMA LegalOne ==
  ASSUME VtypeInv, NEW shape \in Shapes, NEW vd \in 0 .. 31, NEW width \in Widths,
         NEW regs \in Counts, Aligned(vd, regs),
         vtype.sew # 0 => width * Eighths(vtype.lmul) <= 8 * vtype.sew * regs,
         NEW sources, \A s \in sources : Operand(s) /\ Clear(s, vd, width, regs, 1)
  PROVE  Legal(shape, vd, width, regs, 1, sources)
<1>1. Fits(width, regs)
  BY FitsByRatio
<1>2. vd + regs <= 32
  BY AlignedGroups
<1>3. vd + 1 * regs <= 32
  BY <1>2 DEF Counts
<1>4. QED
  BY <1>1, <1>3 DEF Legal

LEMMA SameWidthLegal ==
  ASSUME Inv, Ready, vtype.sew \in {8, 16, 32}, NEW shape \in Shapes,
         NEW vd \in 0 .. 31, NEW vs \in 0 .. 31, NEW regs, regs = getAlign(vtype),
         Aligned(vd, regs), Aligned(vs, regs),
         NEW reads \in {"element", "ahead", "behind", "any"},
         vd # vs \/ reads \in {"element", "ahead"}
  PROVE  Legal(shape, vd, vtype.sew, regs, 1, {Source(vs, vtype.sew, regs, reads)})
<1> DEFINE s == Source(vs, vtype.sew, regs, reads)
<1>1. VtypeInv /\ vtype.lmul \in Lmuls
  BY Setting
<1>2. regs \in Counts /\ vtype.sew * Eighths(vtype.lmul) <= 8 * vtype.sew * regs
  BY <1>1, CountRatios, EighthsType DEF Counts
<1>3. Operand(s)
  <2>1. vtype.sew \in Widths
    BY <1>1 DEF Widths
  <2>2. QED
    BY <1>1, <1>2, <2>1, AlignedOperand
<1>4. vd = vs \/ Disjoint(vd, regs, vs, regs)
  BY <1>2, AlignedGroups DEF Counts, Disjoint
<1>5. Clear(s, vd, vtype.sew, regs, 1)
  <2>1. s.reg = vs /\ s.width = vtype.sew /\ s.regs = regs /\ s.reads = reads
    BY DEF Source
  <2>2. 1 * regs = regs
    BY <1>2 DEF Counts
  <2> HIDE DEF s
  <2>3. CASE vd = vs
    <3>1. vtype.sew <= vtype.sew
      OBVIOUS
    <3>2. QED
      BY <2>1, <2>3, <3>1 DEF Clear, AtField
  <2>4. CASE Disjoint(vd, regs, vs, regs)
    BY <2>1, <2>2, <2>4 DEF Clear, Apart
  <2>5. QED
    BY <1>4, <2>3, <2>4
<1> HIDE DEF s
<1>6. Legal(shape, vd, vtype.sew, regs, 1, {s})
  BY <1>1, <1>2, <1>3, <1>5, LegalOne DEF Widths
<1>7. QED
  BY <1>6 DEF s

\* A source of the same shape as the destination
LEMMA EqualClear ==
  ASSUME NEW vd \in 0 .. 31, NEW vs \in 0 .. 31, NEW regs \in Counts,
         Aligned(vd, regs), Aligned(vs, regs), NEW width \in Widths,
         NEW reads \in {"element", "ahead"}
  PROVE  Clear(Source(vs, width, regs, reads), vd, width, regs, 1)
<1>1. CASE vd = vs
  BY <1>1 DEF Clear, AtField, Source, Widths
<1>2. CASE vd # vs
  BY <1>2, AlignedGroups DEF Clear, Apart, Disjoint, Source, Counts
<1>3. QED
  BY <1>1, <1>2

\* A source half as wide, in another register: apart, or at the upper end
LEMMA HalfClear ==
  ASSUME NEW vd \in 0 .. 31, NEW vs \in 0 .. 31, NEW regs \in Counts, NEW half \in Counts,
         regs = 2 * half \/ (regs = 1 /\ half = 1),
         Aligned(vd, regs), Aligned(vs, half), vd # vs, NEW width \in {8, 16, 32}
  PROVE  Clear(Source(vs, width, half, "element"), vd, 2 * width, regs, 1)
<1> DEFINE s == Source(vs, width, half, "element")
<1>1. s.reg = vs /\ s.width = width /\ s.regs = half /\ s.reads = "element"
  BY DEF Source
<1>2. Disjoint(vd, regs, vs, half) \/ (vs + half = vd + regs /\ regs = 2 * half)
  BY DEF Aligned, Disjoint, Counts
<1>3. width <= 2 * width /\ (regs = 2 * half => width * regs = (2 * width) * half)
  BY DEF Counts
<1>4. 1 * regs = regs
  BY DEF Counts
<1> HIDE DEF s
<1>5. QED
  BY <1>1, <1>2, <1>3, <1>4 DEF s, Clear, Apart, AtTop

\* A source that begins at the destination or lies apart from it, and is no
\* narrower
LEMMA LowerClear ==
  ASSUME NEW vd \in 0 .. 31, NEW vs \in 0 .. 31, NEW regs \in Counts, NEW n \in Counts,
         vd = vs \/ Disjoint(vd, regs, vs, n), NEW width \in Widths, NEW w \in Nat, width <= w
  PROVE  Clear(Source(vs, w, n, "element"), vd, width, regs, 1)
<1>1. 1 * regs = regs
  BY DEF Counts
<1>2. QED
  BY <1>1 DEF Clear, Apart, AtField, Source

-----------------------------------------------------------------------------
(* One lemma per instruction shape *)

LEMMA MaskFreeClear ==
  ASSUME NEW vd \in 0 .. 31, NEW masked \in BOOLEAN, MaskFree(masked, vd), NEW width, NEW regs, NEW nf
  PROVE  masked => Clear(MaskSource, vd, width, regs, nf)
BY MaskClear DEF MaskFree

LEMMA SameWidthKeeps ==
  ASSUME Inv, NEW shape \in Shapes, NEW vd \in Regs, NEW vs \in Regs, NEW masked \in BOOLEAN,
         SameWidth(vd, vs, masked), NEW reads \in {"element", "ahead", "behind", "any"},
         vd # vs \/ reads \in {"element", "ahead"},
         PerformSame(shape, vd, vs, reads, masked)
  PROVE  Inv'
<1> DEFINE regs == getAlign(vtype)
           sources == {Source(vs, vtype.sew, regs, reads)}
<1>1. /\ Ready /\ vd \in 0 .. 31 /\ vs \in 0 .. 31
      /\ Aligned(vd, regs) /\ Aligned(vs, regs) /\ MaskFree(masked, vd)
  BY OperandAssumption DEF SameWidth
<1>2. Perform(shape, vd, vtype.sew, regs, 1, sources, masked)
  BY DEF PerformSame
<1>3. ASSUME vtype.sew \in Sews, vtype.sew # 64
      PROVE  Legal(shape, vd, vtype.sew, regs, 1, sources)
  BY <1>1, <1>3, SameWidthLegal DEF Sews
<1>4. masked => Clear(MaskSource, vd, vtype.sew, regs, 1)
  BY <1>1, MaskFreeClear
<1> HIDE DEF regs, sources
<1>5. QED
  BY <1>1, <1>2, <1>3, <1>4, PerformKeeps

LEMMA SameWidthShapesKeep ==
  ASSUME Inv, Elementwise \/ SlideDown \/ SlideUp \/ Gather
  PROVE  Inv'
<1>1. CASE Elementwise
  <2>1. PICK vd \in Regs, vs \in Regs, masked \in BOOLEAN :
          SameWidth(vd, vs, masked) /\ PerformSame("elementwise", vd, vs, "element", masked)
    BY <1>1 DEF Elementwise
  <2>2. QED
    BY <2>1, SameWidthKeeps DEF Shapes
<1>2. CASE SlideDown
  <2>1. PICK vd \in Regs, vs \in Regs, masked \in BOOLEAN :
          SameWidth(vd, vs, masked) /\ PerformSame("slide_down", vd, vs, "ahead", masked)
    BY <1>2 DEF SlideDown
  <2>2. QED
    BY <2>1, SameWidthKeeps DEF Shapes
<1>3. CASE SlideUp
  <2>1. PICK vd \in Regs, vs \in Regs, masked \in BOOLEAN :
          SameWidth(vd, vs, masked) /\ vd # vs /\ PerformSame("slide_up", vd, vs, "behind", masked)
    BY <1>3 DEF SlideUp
  <2>2. QED
    BY <2>1, SameWidthKeeps DEF Shapes
<1>4. CASE Gather
  <2>1. PICK vd \in Regs, vs \in Regs, masked \in BOOLEAN :
          SameWidth(vd, vs, masked) /\ vd # vs /\ PerformSame("gather", vd, vs, "any", masked)
    BY <1>4 DEF Gather
  <2>2. QED
    BY <2>1, SameWidthKeeps DEF Shapes
<1>5. QED
  BY <1>1, <1>2, <1>3, <1>4

LEMMA Gather16Keeps == Inv /\ Gather16 => Inv'
<1> SUFFICES ASSUME Inv, NEW vd \in Regs, NEW vs1 \in Regs, NEW masked \in BOOLEAN,
                    NEW regs, regs = getAlign(vtype), NEW index, index = getEewAlign(vtype, 16),
                    Ready,
                    vtype.sew # 0 => /\ index.valid
                                     /\ Aligned(vd, regs) /\ Aligned(vs1, index.regs)
                                     /\ Disjoint(vd, regs, vs1, index.regs),
                    Perform("gather16", vd, vtype.sew, regs, 1,
                            {Source(vs1, 16, index.regs, "element")}, masked)
             PROVE  Inv'
  BY DEF Gather16
<1>1. vd \in 0 .. 31 /\ vs1 \in 0 .. 31 /\ VtypeInv /\ vtype.lmul \in Lmuls
  BY OperandAssumption, Setting
<1> DEFINE s == Source(vs1, 16, index.regs, "element")
<1>2. ASSUME vtype.sew \in Sews, vtype.sew # 64
      PROVE  Legal("gather16", vd, vtype.sew, regs, 1, {s})
  <2>1. regs \in Counts /\ vtype.sew * Eighths(vtype.lmul) <= 8 * vtype.sew * regs
    BY <1>1, <1>2, CountRatios, EighthsType DEF Counts, Sews
  <2>2. index.valid /\ Aligned(vd, regs) /\ Aligned(vs1, index.regs)
        /\ Disjoint(vd, regs, vs1, index.regs)
    BY <1>2 DEF Sews
  <2>3. index.regs \in Counts /\ 16 * Eighths(vtype.lmul) <= 8 * vtype.sew * index.regs
    BY <1>1, <1>2, <2>2, EewRatios DEF Sews
  <2>4. Operand(s)
    BY <1>1, <2>2, <2>3, AlignedOperand DEF Widths
  <2>5. Clear(s, vd, vtype.sew, regs, 1)
    BY <2>1, <2>2 DEF Clear, Apart, Source, Disjoint, Counts
  <2> HIDE DEF s
  <2>6. \A t \in {s} : Operand(t) /\ Clear(t, vd, vtype.sew, regs, 1)
    BY <2>4, <2>5
  <2>7. "gather16" \in Shapes /\ vtype.sew \in Widths
    BY <1>2 DEF Shapes, Widths, Sews
  <2>8. QED
    BY <1>1, <2>1, <2>2, <2>6, <2>7, LegalOne
<1> HIDE DEF s
<1>3. QED
  BY <1>2, PerformKeeps DEF s

\* What the templates with a destination of 2 * SEW have checked
LEMMA WideSetting ==
  ASSUME Inv, NEW vd \in Regs, NEW masked \in BOOLEAN, ToWide(vd, masked),
         NEW regs, regs = getAlign(vtype), NEW wide, wide = getAlignWiden(vtype).regs
  PROVE  /\ VtypeInv /\ Ready /\ vd \in 0 .. 31 /\ Aligned(vd, wide)
         /\ \A width : masked => Clear(MaskSource, vd, width, wide, 1)
         /\ regs \in Counts /\ wide \in Counts
         /\ wide = 2 * regs \/ (wide = 1 /\ regs = 1)
         /\ vtype.sew * Eighths(vtype.lmul) <= 8 * vtype.sew * regs
         /\ (2 * vtype.sew) * Eighths(vtype.lmul) <= 8 * vtype.sew * wide
<1>1. /\ Ready /\ Aligned(vd, wide) /\ vd \in 0 .. 31 /\ MaskFree(masked, vd)
      /\ getAlignWiden(vtype).valid
  BY OperandAssumption DEF ToWide
<1>2. VtypeInv /\ vtype.sew \in {0, 8, 16, 32, 64} /\ vtype.lmul \in Lmuls
  BY <1>1, Setting DEF Sews
<1>3. /\ regs \in Counts /\ Eighths(vtype.lmul) <= 8 * regs
      /\ wide \in Counts /\ 2 * Eighths(vtype.lmul) <= 8 * wide
      /\ wide = 2 * regs \/ (wide = 1 /\ regs = 1)
  BY <1>1, <1>2, CountRatios
<1>4. /\ vtype.sew * Eighths(vtype.lmul) <= 8 * vtype.sew * regs
      /\ (2 * vtype.sew) * Eighths(vtype.lmul) <= 8 * vtype.sew * wide
  BY <1>2, <1>3, EighthsType DEF Counts
<1>5. QED
  BY <1>1, <1>2, <1>3, <1>4, MaskFreeClear

\* A destination of 2 * SEW with sources that are legal for it
LEMMA WideKeeps ==
  ASSUME Inv, NEW shape \in Shapes, NEW vd \in Regs, NEW masked \in BOOLEAN, ToWide(vd, masked),
         NEW wide, wide = getAlignWiden(vtype).regs, NEW sources,
         Perform(shape, vd, 2 * vtype.sew, wide, 1, sources, masked),
         vtype.sew \in {8, 16} =>
           \A s \in sources : Operand(s) /\ Clear(s, vd, 2 * vtype.sew, wide, 1)
  PROVE  Inv'
<1>1. /\ VtypeInv /\ Ready /\ vd \in 0 .. 31 /\ Aligned(vd, wide) /\ wide \in Counts
      /\ masked => Clear(MaskSource, vd, 2 * vtype.sew, wide, 1)
      /\ (2 * vtype.sew) * Eighths(vtype.lmul) <= 8 * vtype.sew * wide
  BY WideSetting
<1>2. vtype.sew < 64
  BY DEF ToWide
<1>3. ASSUME vtype.sew \in Sews, 2 * vtype.sew # 64
      PROVE  Legal(shape, vd, 2 * vtype.sew, wide, 1, sources)
  <2>1. vtype.sew \in {8, 16}
    BY <1>2, <1>3 DEF Sews
  <2>2. 2 * vtype.sew \in Widths
    BY <2>1 DEF Widths
  <2> DEFINE width == 2 * vtype.sew
  <2> HIDE DEF width
  <2>3. QED
    BY <1>1, <2>1, <2>2, LegalOne DEF width
<1>4. QED
  BY <1>1, <1>3, PerformKeeps

LEMMA WidenKeeps == Inv /\ Widen => Inv'
<1> SUFFICES ASSUME Inv, Widen PROVE Inv'
  OBVIOUS
<1> DEFINE wide == getAlignWiden(vtype).regs
           regs == getAlign(vtype)
           source(vs) == Source(vs, vtype.sew, regs, "element")
<1>1. PICK vd \in Regs, vs \in Regs, masked \in BOOLEAN :
        /\ ToWide(vd, masked) /\ Aligned(vs, regs) /\ vd # vs
        /\ Perform("widen", vd, 2 * vtype.sew, wide, 1, {source(vs)}, masked)
  BY DEF Widen
<1>2. ASSUME vtype.sew \in {8, 16}
      PROVE  Operand(source(vs)) /\ Clear(source(vs), vd, 2 * vtype.sew, wide, 1)
  <2>1. /\ VtypeInv /\ vd \in 0 .. 31 /\ vs \in 0 .. 31 /\ Aligned(vd, wide)
        /\ regs \in Counts /\ wide \in Counts
        /\ wide = 2 * regs \/ (wide = 1 /\ regs = 1)
        /\ vtype.sew * Eighths(vtype.lmul) <= 8 * vtype.sew * regs
    BY <1>1, WideSetting, OperandAssumption
  <2> HIDE DEF wide, regs
  <2>2. Operand(source(vs))
    BY <1>1, <1>2, <2>1, AlignedOperand DEF Widths
  <2>3. Clear(source(vs), vd, 2 * vtype.sew, wide, 1)
    BY <1>1, <1>2, <2>1, HalfClear
  <2>4. QED
    BY <2>2, <2>3
<1> HIDE DEF source
<1>3. QED
  BY <1>1, <1>2, WideKeeps DEF Shapes

LEMMA WidenAccumulateKeeps == Inv /\ WidenAccumulate => Inv'
<1> SUFFICES ASSUME Inv, WidenAccumulate PROVE Inv'
  OBVIOUS
<1> DEFINE wide == getAlignWiden(vtype).regs
           regs == getAlign(vtype)
           factor(vs) == Source(vs, vtype.sew, regs, "element")
           addend(vd) == Source(vd, 2 * vtype.sew, wide, "element")
<1>1. PICK vd \in Regs, vs \in Regs, masked \in BOOLEAN :
        /\ ToWide(vd, masked) /\ Aligned(vs, regs)
        /\ ~(vd <= vs /\ vs < vd + wide)
        /\ Perform("widen_accumulate", vd, 2 * vtype.sew, wide, 1, {factor(vs), addend(vd)}, masked)
  BY DEF WidenAccumulate
<1>2. ASSUME vtype.sew \in {8, 16}
      PROVE  /\ Operand(factor(vs)) /\ Clear(factor(vs), vd, 2 * vtype.sew, wide, 1)
             /\ Operand(addend(vd)) /\ Clear(addend(vd), vd, 2 * vtype.sew, wide, 1)
  <2>1. /\ VtypeInv /\ vd \in 0 .. 31 /\ vs \in 0 .. 31 /\ Aligned(vd, wide)
        /\ regs \in Counts /\ wide \in Counts
        /\ wide = 2 * regs \/ (wide = 1 /\ regs = 1)
        /\ vtype.sew * Eighths(vtype.lmul) <= 8 * vtype.sew * regs
        /\ (2 * vtype.sew) * Eighths(vtype.lmul) <= 8 * vtype.sew * wide
    BY <1>1, WideSetting, OperandAssumption
  <2> DEFINE width == 2 * vtype.sew
  <2>2. width \in Widths /\ vtype.sew \in Widths
    BY <1>2 DEF Widths
  <2>3. vd # vs
    BY <1>1, <2>1 DEF Counts
  <2> HIDE DEF wide, regs
  <2>4. Operand(factor(vs)) /\ Clear(factor(vs), vd, 2 * vtype.sew, wide, 1)
    BY <1>1, <1>2, <2>1, <2>2, <2>3, AlignedOperand, HalfClear
  <2> HIDE DEF width
  <2>5. Operand(Source(vd, width, wide, "element")) /\ Clear(Source(vd, width, wide, "element"), vd, width, wide, 1)
    <3>1. vtype.sew # 0 => width * Eighths(vtype.lmul) <= 8 * vtype.sew * wide
      BY <2>1 DEF width
    <3>2. QED
      BY <2>1, <2>2, <3>1, AlignedOperand, EqualClear
  <2>6. QED
    BY <2>4, <2>5 DEF width
<1> HIDE DEF factor, addend
<1>3. QED
  BY <1>1, <1>2, WideKeeps DEF Shapes

LEMMA WidenWideKeeps == Inv /\ WidenWide => Inv'
<1> SUFFICES ASSUME Inv, WidenWide PROVE Inv'
  OBVIOUS
<1> DEFINE wide == getAlignWiden(vtype).regs
           regs == getAlign(vtype)
           narrow(vs1) == Source(vs1, vtype.sew, regs, "element")
           equal(vs2) == Source(vs2, 2 * vtype.sew, wide, "element")
<1>1. PICK vd \in Regs, vs2 \in Regs, vs1 \in Regs, masked \in BOOLEAN :
        /\ ToWide(vd, masked) /\ Aligned(vs2, wide) /\ Aligned(vs1, regs)
        /\ vd # vs1
        /\ Perform("widen_wide", vd, 2 * vtype.sew, wide, 1, {equal(vs2), narrow(vs1)}, masked)
  BY DEF WidenWide
<1>2. ASSUME vtype.sew \in {8, 16}
      PROVE  /\ Operand(narrow(vs1)) /\ Clear(narrow(vs1), vd, 2 * vtype.sew, wide, 1)
             /\ Operand(equal(vs2)) /\ Clear(equal(vs2), vd, 2 * vtype.sew, wide, 1)
  <2>1. /\ VtypeInv /\ vd \in 0 .. 31 /\ vs1 \in 0 .. 31 /\ vs2 \in 0 .. 31 /\ Aligned(vd, wide)
        /\ regs \in Counts /\ wide \in Counts
        /\ wide = 2 * regs \/ (wide = 1 /\ regs = 1)
        /\ vtype.sew * Eighths(vtype.lmul) <= 8 * vtype.sew * regs
        /\ (2 * vtype.sew) * Eighths(vtype.lmul) <= 8 * vtype.sew * wide
    BY <1>1, WideSetting, OperandAssumption
  <2> DEFINE width == 2 * vtype.sew
  <2>2. width \in Widths /\ vtype.sew \in Widths
    BY <1>2 DEF Widths
  <2> HIDE DEF wide, regs
  <2>3. Operand(narrow(vs1)) /\ Clear(narrow(vs1), vd, 2 * vtype.sew, wide, 1)
    BY <1>1, <1>2, <2>1, <2>2, AlignedOperand, HalfClear
  <2> HIDE DEF width
  <2>4. Operand(Source(vs2, width, wide, "element")) /\ Clear(Source(vs2, width, wide, "element"), vd, width, wide, 1)
    <3>1. vtype.sew # 0 => width * Eighths(vtype.lmul) <= 8 * vtype.sew * wide
      BY <2>1 DEF width
    <3>2. QED
      BY <1>1, <2>1, <2>2, <3>1, AlignedOperand, EqualClear
  <2>5. QED
    BY <2>3, <2>4 DEF width
<1> HIDE DEF narrow, equal
<1>3. QED
  BY <1>1, <1>2, WideKeeps DEF Shapes

\* A destination of SEW with sources that are legal for it
LEMMA SewKeeps ==
  ASSUME Inv, Ready, NEW shape \in Shapes, NEW vd \in Regs, NEW masked \in BOOLEAN,
         NEW regs, regs = getAlign(vtype), Aligned(vd, regs), NEW sources,
         Perform(shape, vd, vtype.sew, regs, 1, sources, masked), MaskFree(masked, vd),
         vtype.sew \in {8, 16, 32} /\ (\A s \in sources : s.width # 64) =>
           \A s \in sources : Operand(s) /\ Clear(s, vd, vtype.sew, regs, 1)
  PROVE  Inv'
<1>1. VtypeInv /\ vtype.lmul \in Lmuls /\ vd \in 0 .. 31
  BY Setting, OperandAssumption
<1>2. masked => Clear(MaskSource, vd, vtype.sew, regs, 1)
  BY <1>1, MaskFreeClear
<1>3. ASSUME vtype.sew \in Sews, vtype.sew # 64, \A s \in sources : s.width # 64
      PROVE  Legal(shape, vd, vtype.sew, regs, 1, sources)
  <2>1. vtype.sew \in {8, 16, 32} /\ vtype.sew \in Widths
    BY <1>3 DEF Sews, Widths
  <2>2. regs \in Counts /\ vtype.sew * Eighths(vtype.lmul) <= 8 * vtype.sew * regs
    BY <1>1, <2>1, CountRatios, EighthsType DEF Counts
  <2>3. QED
    BY <1>1, <1>3, <2>1, <2>2, LegalOne
<1>4. QED
  BY <1>2, <1>3, PerformKeeps

LEMMA NarrowKeeps == Inv /\ Narrow => Inv'
<1> SUFFICES ASSUME Inv, Narrow PROVE Inv'
  OBVIOUS
<1> DEFINE wide == getAlignWiden(vtype).regs
           regs == getAlign(vtype)
           source(vs2) == Source(vs2, 2 * vtype.sew, wide, "element")
<1>1. PICK vd \in Regs, vs2 \in Regs, masked \in BOOLEAN :
        /\ Ready /\ getAlignWiden(vtype).valid /\ MaskFree(masked, vd)
        /\ Aligned(vd, regs) /\ Aligned(vs2, wide)
        /\ ~(vs2 < vd /\ vd < vs2 + wide)
        /\ Perform("narrow", vd, vtype.sew, regs, 1, {source(vs2)}, masked)
  BY DEF Narrow
<1>2. ASSUME vtype.sew \in {8, 16, 32}, source(vs2).width # 64
      PROVE  Operand(source(vs2)) /\ Clear(source(vs2), vd, vtype.sew, regs, 1)
  <2>1. VtypeInv /\ vtype.lmul \in Lmuls /\ vd \in 0 .. 31 /\ vs2 \in 0 .. 31
    BY <1>1, Setting, OperandAssumption
  <2>2. /\ regs \in Counts /\ wide \in Counts /\ 2 * Eighths(vtype.lmul) <= 8 * wide
        /\ wide = 2 * regs \/ (wide = 1 /\ regs = 1)
    BY <1>1, <2>1, CountRatios
  <2> DEFINE width == 2 * vtype.sew
  <2>3. /\ width \in Widths /\ vtype.sew \in Widths /\ vtype.sew <= width /\ width \in Nat
        /\ width * Eighths(vtype.lmul) <= 8 * vtype.sew * wide
    BY <1>2, <2>1, <2>2, EighthsType DEF Widths, Source, Counts
  <2> HIDE DEF wide, regs, width
  <2>4. vd = vs2 \/ Disjoint(vd, regs, vs2, wide)
    BY <1>1, <2>1, <2>2 DEF Disjoint, Counts, Aligned
  <2>5. /\ Operand(Source(vs2, width, wide, "element"))
        /\ Clear(Source(vs2, width, wide, "element"), vd, vtype.sew, regs, 1)
    BY <1>1, <2>1, <2>2, <2>3, <2>4, AlignedOperand, LowerClear
  <2>6. QED
    BY <2>5 DEF width
<1> HIDE DEF source
<1>3. QED
  BY <1>1, <1>2, SewKeeps DEF Shapes

LEMMA Extend2Keeps == Inv /\ Extend2 => Inv'
<1> SUFFICES ASSUME Inv, Extend2 PROVE Inv'
  OBVIOUS
<1> DEFINE half == getAlignNarrow2(vtype)
           regs == getAlign(vtype)
           source(vs2) == Source(vs2, vtype.sew \div 2, half, "element")
<1>1. PICK vd \in Regs, vs2 \in Regs, masked \in BOOLEAN :
        /\ Ready /\ vtype.sew >= 16 /\ MaskFree(masked, vd)
        /\ Aligned(vd, regs) /\ Aligned(vs2, half)
        /\ vd # vs2
        /\ Perform("extend", vd, vtype.sew, regs, 1, {source(vs2)}, masked)
  BY DEF Extend2
<1>2. ASSUME vtype.sew \in {8, 16, 32}
      PROVE  Operand(source(vs2)) /\ Clear(source(vs2), vd, vtype.sew, regs, 1)
  <2>1. VtypeInv /\ vtype.lmul \in Lmuls /\ vd \in 0 .. 31 /\ vs2 \in 0 .. 31
    BY <1>1, Setting, OperandAssumption
  <2>2. /\ regs \in Counts /\ half \in Counts /\ Eighths(vtype.lmul) <= 16 * half
        /\ regs = 2 * half \/ (regs = 1 /\ half = 1)
    BY <2>1, CountRatios
  <2> DEFINE width == vtype.sew \div 2
  <2>3. /\ width \in Widths /\ width \in {8, 16, 32} /\ vtype.sew = 2 * width
        /\ width * Eighths(vtype.lmul) <= 8 * vtype.sew * half
    BY <1>1, <1>2, <2>1, <2>2, EighthsType DEF Widths, Counts
  <2> HIDE DEF half, regs, width
  <2>4. Operand(Source(vs2, width, half, "element"))
    BY <1>1, <2>1, <2>2, <2>3, AlignedOperand
  <2>5. Clear(Source(vs2, width, half, "element"), vd, 2 * width, regs, 1)
    BY <1>1, <2>1, <2>2, <2>3, HalfClear
  <2>6. QED
    BY <2>3, <2>4, <2>5 DEF width
<1> HIDE DEF source
<1>3. QED
  BY <1>1, <1>2, SewKeeps DEF Shapes

LEMMA Extend4Keeps == Inv /\ Extend4 => Inv'
<1> SUFFICES ASSUME Inv, Extend4 PROVE Inv'
  OBVIOUS
<1> DEFINE quarter == getAlignNarrow4(vtype)
           regs == getAlign(vtype)
           source(vs2) == Source(vs2, vtype.sew \div 4, quarter, "element")
<1>1. PICK vd \in Regs, vs2 \in Regs, masked \in BOOLEAN :
        /\ Ready /\ vtype.sew >= 32 /\ MaskFree(masked, vd)
        /\ Aligned(vd, regs) /\ Aligned(vs2, quarter)
        /\ (vd <= vs2 /\ vs2 < vd + regs) => (regs >= 4 /\ vs2 + quarter = vd + regs)
        /\ Perform("extend", vd, vtype.sew, regs, 1, {source(vs2)}, masked)
  BY DEF Extend4
<1>2. ASSUME vtype.sew \in {8, 16, 32}
      PROVE  Operand(source(vs2)) /\ Clear(source(vs2), vd, vtype.sew, regs, 1)
  <2>1. VtypeInv /\ vtype.lmul \in Lmuls /\ vd \in 0 .. 31 /\ vs2 \in 0 .. 31
    BY <1>1, Setting, OperandAssumption
  <2>2. /\ regs \in Counts /\ quarter \in Counts /\ Eighths(vtype.lmul) <= 32 * quarter
        /\ regs = 4 * quarter \/ (regs \in {1, 2} /\ quarter = 1)
    BY <2>1, CountRatios
  <2> DEFINE width == vtype.sew \div 4
  <2>3. /\ width \in Widths /\ width = 8 /\ vtype.sew = 32
        /\ width * Eighths(vtype.lmul) <= 8 * vtype.sew * quarter
    BY <1>1, <1>2, <2>1, <2>2, EighthsType DEF Widths, Counts
  <2> HIDE DEF quarter, regs, width
  <2>4. Operand(Source(vs2, width, quarter, "element"))
    BY <1>1, <2>1, <2>2, <2>3, AlignedOperand
  <2>5. Disjoint(vd, regs, vs2, quarter) \/ (vs2 + quarter = vd + regs /\ regs = 4 * quarter)
    BY <1>1, <2>1, <2>2 DEF Disjoint, Counts, Aligned
  <2>6. Clear(Source(vs2, width, quarter, "element"), vd, 32, regs, 1)
    BY <2>2, <2>3, <2>5 DEF Clear, Apart, AtTop, Source, Counts
  <2>7. QED
    BY <2>3, <2>4, <2>6 DEF width
<1> HIDE DEF source
<1>3. QED
  BY <1>1, <1>2, SewKeeps DEF Shapes

\* A destination of one bit per element, which may be v0 even under the mask
LEMMA ToMaskKeeps ==
  ASSUME Inv, NEW shape \in Shapes, NEW vd \in Regs, NEW vs \in Regs, NEW masked \in BOOLEAN,
         ToMask(vd, vs), NEW regs, regs = getAlign(vtype),
         Perform(shape, vd, 1, 1, 1, {Source(vs, vtype.sew, regs, "element")}, masked)
  PROVE  Inv'
<1> DEFINE s == Source(vs, vtype.sew, regs, "element")
<1>1. VtypeInv /\ Ready /\ vtype.lmul \in Lmuls /\ vd \in 0 .. 31 /\ vs \in 0 .. 31
  BY Setting, OperandAssumption DEF ToMask
<1>2. masked => Clear(MaskSource, vd, 1, 1, 1)
  BY <1>1, MaskClear
<1>3. ASSUME vtype.sew \in Sews, s.width # 64
      PROVE  Legal(shape, vd, 1, 1, 1, {s})
  <2>1. vtype.sew \in {8, 16, 32} /\ vtype.sew \in Widths /\ 1 <= vtype.sew /\ vtype.sew \in Nat
    BY <1>3 DEF Sews, Widths, Source
  <2>2. regs \in Counts /\ vtype.sew * Eighths(vtype.lmul) <= 8 * vtype.sew * regs
        /\ Eighths(vtype.lmul) <= 64
    BY <1>1, <2>1, CountRatios, EighthsType DEF Counts
  <2>3. 1 * Eighths(vtype.lmul) <= 8 * vtype.sew * 1 /\ Aligned(vd, 1) /\ 1 \in Counts /\ 1 \in Widths
    BY <1>1, <2>1, <2>2, EighthsType DEF Aligned, Counts, Widths
  <2>4. Operand(s)
    BY <1>1, <2>1, <2>2, AlignedOperand DEF ToMask
  <2>5. vd = vs \/ Disjoint(vd, 1, vs, regs)
    BY <1>1, <2>2 DEF ToMask, Disjoint, Counts
  <2>6. Clear(s, vd, 1, 1, 1)
    BY <1>1, <2>1, <2>2, <2>3, <2>5, LowerClear
  <2>7. \A t \in {s} : Operand(t) /\ Clear(t, vd, 1, 1, 1)
    BY <2>4, <2>6
  <2> HIDE DEF s
  <2>8. QED
    BY <1>1, <2>3, <2>7, LegalOne
<1> HIDE DEF s
<1>4. QED
  BY <1>1, <1>2, <1>3, PerformKeeps DEF s

LEMMA ToMaskShapesKeep ==
  ASSUME Inv, Compare \/ CarryOut
  PROVE  Inv'
<1>1. CASE Compare
  <2>1. PICK vd \in Regs, vs \in Regs, masked \in BOOLEAN :
          /\ ToMask(vd, vs)
          /\ Perform("compare", vd, 1, 1, 1,
                     {Source(vs, vtype.sew, getAlign(vtype), "element")}, masked)
    BY <1>1 DEF Compare
  <2>2. QED
    BY <2>1, ToMaskKeeps DEF Shapes
<1>2. CASE CarryOut
  <2>1. PICK vd \in Regs, vs \in Regs, carries \in BOOLEAN :
          /\ ToMask(vd, vs)
          /\ Perform("carry_out", vd, 1, 1, 1,
                     {Source(vs, vtype.sew, getAlign(vtype), "element")}, carries)
    BY <1>2 DEF CarryOut
  <2>2. QED
    BY <2>1, ToMaskKeeps DEF Shapes
<1>3. QED
  BY <1>1, <1>2

\* A source that is one register of bits
LEMMA BitsOperand ==
  ASSUME VtypeInv, NEW vs \in 0 .. 31
  PROVE  Operand(Source(vs, 1, 1, "element"))
<1>1. Fits(1, 1)
  BY CapacityType, LengthType DEF Fits
<1>2. QED
  BY <1>1 DEF Operand, Source, Widths, Counts

LEMMA BitsClear ==
  ASSUME NEW vd \in 0 .. 31, NEW vs \in 0 .. 31, NEW regs \in Counts, NEW width,
         ~(vd <= vs /\ vs < vd + regs)
  PROVE  Clear(Source(vs, 1, 1, "element"), vd, width, regs, 1)
<1>1. Disjoint(vd, 1 * regs, vs, 1)
  BY DEF Disjoint, Counts
<1>2. QED
  BY <1>1 DEF Clear, Apart, Source

LEMMA MaskToMaskKeeps == Inv /\ MaskToMask => Inv'
<1> SUFFICES ASSUME Inv, MaskToMask PROVE Inv'
  OBVIOUS
<1> DEFINE source(vs) == Source(vs, 1, 1, "element")
<1>1. PICK vd \in Regs, vs \in Regs, masked \in BOOLEAN :
        /\ Ready /\ MaskFree(masked, vd) /\ vd # vs
        /\ UNCHANGED <<vtype, vl, halt>>
        /\ group' = [shape |-> "mask_to_mask", dst |-> vd, width |-> 1, regs |-> 1, nf |-> 1,
                     sources |-> {source(vs)} \cup (IF masked THEN {MaskSource} ELSE {})]
  BY DEF MaskToMask
<1>2. VtypeInv /\ vd \in 0 .. 31 /\ vs \in 0 .. 31
  BY <1>1, Setting, OperandAssumption
<1>3. 1 \in Counts /\ 1 \in Widths /\ Fits(1, 1) /\ vd + 1 * 1 <= 32
  BY <1>2, CapacityType, LengthType DEF Counts, Widths, Fits
<1>4. Operand(source(vs)) /\ Clear(source(vs), vd, 1, 1, 1)
  <2>1. Operand(source(vs))
    BY <1>2, BitsOperand
  <2>2. ~(vd <= vs /\ vs < vd + 1)
    BY <1>1, <1>2
  <2>3. Clear(source(vs), vd, 1, 1, 1)
    BY <1>2, <1>3, <2>2, BitsClear
  <2>4. QED
    BY <2>1, <2>3
<1> HIDE DEF source
<1>5. Legal("mask_to_mask", vd, 1, 1, 1, {source(vs)})
  BY <1>2, <1>3, <1>4 DEF Legal, Shapes
<1>6. masked => Clear(MaskSource, vd, 1, 1, 1)
  BY <1>1, <1>2, MaskFreeClear
<1>7. QED
  BY <1>1, <1>5, <1>6, AcceptedKeeps

LEMMA IotaKeeps == Inv /\ Iota => Inv'
<1> SUFFICES ASSUME Inv, Iota PROVE Inv'
  OBVIOUS
<1> DEFINE regs == getAlign(vtype)
           source(vs) == Source(vs, 1, 1, "element")
<1>1. PICK vd \in Regs, vs \in Regs, masked \in BOOLEAN :
        /\ Ready /\ MaskFree(masked, vd) /\ Aligned(vd, regs)
        /\ ~(vd <= vs /\ vs < vd + regs)
        /\ Perform("iota", vd, vtype.sew, regs, 1, {source(vs)}, masked)
  BY DEF Iota
<1>2. VtypeInv /\ vd \in 0 .. 31 /\ vs \in 0 .. 31 /\ regs \in Counts
  BY <1>1, Setting, OperandAssumption, CountRatios
<1>3. Operand(source(vs)) /\ Clear(source(vs), vd, vtype.sew, regs, 1)
  BY <1>1, <1>2, BitsOperand, BitsClear
<1> HIDE DEF source
<1>4. QED
  BY <1>1, <1>3, SewKeeps DEF Shapes

LEMMA CompressKeeps == Inv /\ Compress => Inv'
<1> SUFFICES ASSUME Inv, Compress PROVE Inv'
  OBVIOUS
<1> DEFINE regs == getAlign(vtype)
           bits(vs1) == Source(vs1, 1, 1, "element")
           source(vs2) == Source(vs2, vtype.sew, regs, "element")
<1>1. PICK vd \in Regs, vs2 \in Regs, vs1 \in Regs :
        /\ Ready /\ Aligned(vd, regs) /\ Aligned(vs2, regs) /\ vd # vs2
        /\ ~(vd <= vs1 /\ vs1 < vd + regs)
        /\ Perform("compress", vd, vtype.sew, regs, 1, {source(vs2), bits(vs1)}, FALSE)
  BY DEF Compress
<1>2. /\ VtypeInv /\ vd \in 0 .. 31 /\ vs1 \in 0 .. 31 /\ vs2 \in 0 .. 31
      /\ regs \in Counts /\ Eighths(vtype.lmul) <= 8 * regs /\ vtype.lmul \in Lmuls
  BY <1>1, Setting, OperandAssumption, CountRatios
<1>3. Operand(bits(vs1)) /\ Clear(bits(vs1), vd, vtype.sew, regs, 1)
  BY <1>1, <1>2, BitsOperand, BitsClear
<1>4. ASSUME vtype.sew \in {8, 16, 32}
      PROVE  Operand(source(vs2)) /\ Clear(source(vs2), vd, vtype.sew, regs, 1)
  <2>1. vtype.sew \in Widths /\ vtype.sew * Eighths(vtype.lmul) <= 8 * vtype.sew * regs
    BY <1>2, <1>4, EighthsType DEF Widths, Counts
  <2>2. QED
    BY <1>1, <1>2, <2>1, AlignedOperand, EqualClear
<1> HIDE DEF bits, source
<1>5. MaskFree(FALSE, vd)
  BY DEF MaskFree
<1>6. ASSUME vtype.sew \in {8, 16, 32}
      PROVE  \A s \in {source(vs2), bits(vs1)} : Operand(s) /\ Clear(s, vd, vtype.sew, regs, 1)
  BY <1>3, <1>4, <1>6
<1>7. "compress" \in Shapes
  BY DEF Shapes
<1> DEFINE sources == {source(vs2), bits(vs1)}
<1> HIDE DEF sources
<1>8. QED
  BY <1>1, <1>5, <1>6, <1>7, SewKeeps DEF sources

LEMMA SegmentRoom ==
  ASSUME NEW vd \in 0 .. 31, NEW regs \in Counts, Aligned(vd, regs), NEW nf \in 1 .. 8,
         SegmentFits(vd, regs, nf)
  PROVE  vd + nf * regs <= 32
<1>1. CASE nf = 1
  <2>1. vd + regs <= 32
    BY AlignedGroups
  <2>2. QED
    BY <1>1, <2>1 DEF Counts
<1>2. CASE nf # 1
  BY <1>2 DEF SegmentFits, Counts
<1>3. QED
  BY <1>1, <1>2

LEMMA LoadKeeps == Inv /\ Load => Inv'
<1> SUFFICES ASSUME Inv, Load PROVE Inv'
  OBVIOUS
<1>1. PICK vd \in Regs, eew \in {8, 16, 32}, nf \in Fields :
        LET emul == getEewAlign(vtype, eew) IN
        /\ Ready /\ vd # 0
        /\ vtype.sew # 0 => /\ emul.valid /\ Aligned(vd, emul.regs)
                            /\ SegmentFits(vd, emul.regs, nf)
        /\ Perform("load", vd, eew, emul.regs, nf, {}, TRUE)
  BY DEF Load
<1> DEFINE regs == getEewAlign(vtype, eew).regs
<1>2. VtypeInv /\ vtype.lmul \in Lmuls /\ vd \in 1 .. 31 /\ vd \in 0 .. 31 /\ nf \in 1 .. 8
  BY <1>1, Setting, OperandAssumption
<1>3. ASSUME vtype.sew \in Sews
      PROVE  Legal("load", vd, eew, regs, nf, {})
  <2>1. getEewAlign(vtype, eew).valid /\ Aligned(vd, regs) /\ SegmentFits(vd, regs, nf)
    BY <1>1, <1>3 DEF Sews
  <2>2. regs \in Counts /\ eew * Eighths(vtype.lmul) <= 8 * vtype.sew * regs
    BY <1>2, <1>3, <2>1, EewRatios DEF Sews
  <2> HIDE DEF regs
  <2>3. vd + nf * regs <= 32
    BY <1>2, <2>1, <2>2, SegmentRoom
  <2>4. Fits(eew, regs) /\ eew \in Widths
    BY <1>2, <2>2, FitsByRatio DEF Widths
  <2>5. QED
    BY <1>2, <2>2, <2>3, <2>4 DEF Legal, Shapes
<1>4. Clear(MaskSource, vd, eew, regs, nf)
  BY <1>2, MaskClear
<1>5. Ready /\ Perform("load", vd, eew, regs, nf, {}, TRUE)
  BY <1>1
<1> HIDE DEF regs
<1>6. QED
  BY <1>3, <1>4, <1>5, PerformKeeps

\* Indices of the width of the data may be a field of it.
LEMMA FieldClear ==
  ASSUME NEW vd \in 0 .. 31, NEW vs \in 0 .. 31, NEW regs \in Counts, NEW nf \in 1 .. 8,
         Aligned(vd, regs), Aligned(vs, regs), NEW width
  PROVE  Clear(Source(vs, width, regs, "element"), vd, width, regs, nf)
<1> DEFINE s == Source(vs, width, regs, "element")
<1>1. s.reg = vs /\ s.width = width /\ s.regs = regs /\ s.reads = "element"
  BY DEF Source
<1>2. CASE Disjoint(vd, nf * regs, vs, regs)
  BY <1>1, <1>2 DEF Clear, Apart
<1>3. CASE ~Disjoint(vd, nf * regs, vs, regs)
  <2> DEFINE j == (vs - vd) \div regs
  <2>1. j \in 0 .. nf - 1 /\ vs = vd + j * regs
    <3> USE DEF Counts, Aligned, Disjoint
    <3>1. CASE regs = 1
      BY <1>3, <3>1
    <3>2. CASE regs = 2
      BY <1>3, <3>2
    <3>3. CASE regs = 4
      BY <1>3, <3>3
    <3>4. CASE regs = 8
      BY <1>3, <3>4
    <3>5. QED
      BY <3>1, <3>2, <3>3, <3>4
  <2> HIDE DEF j, s
  <2>2. Clear(s, vd, width, regs, nf)
    BY <1>1, <2>1 DEF Clear, AtField
  <2>3. QED
    BY <2>2 DEF s
<1>4. QED
  BY <1>2, <1>3

LEMMA LoadIndexedKeeps == Inv /\ LoadIndexed => Inv'
<1> SUFFICES ASSUME Inv, LoadIndexed PROVE Inv'
  OBVIOUS
<1> DEFINE regs == getAlign(vtype)
           iregs(eewi) == getEewAlign(vtype, eewi).regs
           source(vs2, eewi) == Source(vs2, eewi, iregs(eewi), "element")
<1>0. PICK vd \in Regs, vs2 \in Regs, eewi \in {8, 16, 32}, nf \in Fields, masked \in BOOLEAN :
        LET group_regs == getAlign(vtype)
            index == getEewAlign(vtype, eewi) IN
        /\ Ready
        /\ MaskFree(masked, vd)
        /\ vtype.sew # 0 =>
             /\ index.valid
             /\ Aligned(vd, group_regs) /\ Aligned(vs2, index.regs)
             /\ SegmentFits(vd, group_regs, nf)
             /\ vtype.sew # eewi => Disjoint(vd, group_regs * nf, vs2, index.regs)
        /\ Perform("load_indexed", vd, vtype.sew, group_regs, nf,
                   {Source(vs2, eewi, index.regs, "element")}, masked)
  BY Zenon DEF LoadIndexed
<1>1. /\ Ready /\ MaskFree(masked, vd)
      /\ vtype.sew # 0 =>
           /\ getEewAlign(vtype, eewi).valid
           /\ Aligned(vd, regs) /\ Aligned(vs2, iregs(eewi))
           /\ SegmentFits(vd, regs, nf)
           /\ vtype.sew # eewi => Disjoint(vd, regs * nf, vs2, iregs(eewi))
      /\ Perform("load_indexed", vd, vtype.sew, regs, nf, {source(vs2, eewi)}, masked)
  BY <1>0
<1>2. /\ VtypeInv /\ vtype.lmul \in Lmuls /\ nf \in 1 .. 8
      /\ vd \in 0 .. 31 /\ vs2 \in 0 .. 31
      /\ regs \in Counts /\ Eighths(vtype.lmul) <= 8 * regs
  BY <1>1, Setting, OperandAssumption, CountRatios
<1>3. ASSUME vtype.sew \in Sews, vtype.sew # 64
      PROVE  Legal("load_indexed", vd, vtype.sew, regs, nf, {source(vs2, eewi)})
  <2>1. /\ getEewAlign(vtype, eewi).valid
        /\ Aligned(vd, regs) /\ Aligned(vs2, iregs(eewi)) /\ SegmentFits(vd, regs, nf)
        /\ vtype.sew # eewi => Disjoint(vd, regs * nf, vs2, iregs(eewi))
    BY <1>1, <1>3 DEF Sews
  <2>2. /\ iregs(eewi) \in Counts
        /\ eewi * Eighths(vtype.lmul) <= 8 * vtype.sew * iregs(eewi)
        /\ eewi = vtype.sew => iregs(eewi) = regs
    BY <1>2, <1>3, <2>1, EewRatios DEF Sews
  <2> HIDE DEF regs, iregs
  <2>3. vd + nf * regs <= 32
    BY <1>2, <2>1, SegmentRoom
  <2>4. vtype.sew \in Widths /\ vtype.sew * Eighths(vtype.lmul) <= 8 * vtype.sew * regs
    BY <1>2, <1>3, EighthsType DEF Widths, Sews, Counts
  <2>5. Fits(vtype.sew, regs)
    BY <1>2, <2>4, FitsByRatio
  <2>6. Operand(source(vs2, eewi))
    BY <1>2, <2>1, <2>2, AlignedOperand DEF Widths
  <2>7. Clear(source(vs2, eewi), vd, vtype.sew, regs, nf)
    <3>1. CASE vtype.sew = eewi
      <4>1. iregs(eewi) = regs
        BY <2>2, <3>1
      <4>2. source(vs2, eewi) = Source(vs2, vtype.sew, regs, "element")
        BY <3>1, <4>1
      <4>3. QED
        BY <1>2, <2>1, <4>1, <4>2, FieldClear
    <3>2. CASE vtype.sew # eewi
      BY <1>2, <2>1, <2>2, <3>2 DEF Clear, Apart, Source, Disjoint, Counts
    <3>3. QED
      BY <3>1, <3>2
  <2> HIDE DEF source
  <2>8. QED
    BY <1>2, <2>3, <2>4, <2>5, <2>6, <2>7 DEF Legal, Shapes
<1>4. masked => Clear(MaskSource, vd, vtype.sew, regs, nf)
  BY <1>1, <1>2, MaskFreeClear
<1> HIDE DEF regs, source
<1>5. QED
  BY <1>1, <1>3, <1>4, PerformKeeps

-----------------------------------------------------------------------------
(* vset *)

LEMMA IllKeeps ==
  ASSUME Inv, group' = NoGroup, Configure(VtypeIll, 0)
  PROVE  Inv'
BY DEF Inv, VtypeInv, VlInRange, GroupInv, HaltInv, Configure, VtypeIll, Sews, Lmuls

LEMMA ConfigureKeeps ==
  ASSUME Inv, group' = NoGroup, NEW new \in [ill : {FALSE}, sew : Sews, lmul : Lmuls],
         NEW n \in Nat, n <= compute_vlmax(new), Configure(new, n)
  PROVE  Inv'
<1>1. vtype' = new /\ vl' = n /\ UNCHANGED halt
  BY DEF Configure
<1>2. new \in [ill : BOOLEAN, sew : Sews \cup {0}, lmul : Lmuls]
  OBVIOUS
<1>3. VlInRange'
  <2>1. new.sew # 0
    BY DEF Sews
  <2>2. new.ill \in {FALSE}
    BY Zenon
  <2>3. ~new.ill
    BY <2>2, Zenon
  <2>4. QED
    BY <1>1, <2>1, <2>3 DEF VlInRange
<1>4. QED
  BY <1>1, <1>2, <1>3 DEF Inv, VtypeInv, GroupInv, HaltInv

LEMMA SetVlKeeps ==
  ASSUME Inv, group' = NoGroup, NEW new \in [ill : {FALSE}, sew : Sews, lmul : Lmuls],
         NEW avl \in Avls, SetVl(new, avl)
  PROVE  Inv'
<1> DEFINE n == IF avl < compute_vlmax(new) THEN avl ELSE compute_vlmax(new)
<1>1. compute_vlmax(new) \in Nat /\ avl \in Nat
  BY Vlmax, OperandAssumption, LengthType
<1>2. n \in Nat /\ n <= compute_vlmax(new)
  BY <1>1
<1>3. Configure(new, n)
  BY DEF SetVl
<1> HIDE DEF n
<1>4. QED
  BY <1>2, <1>3, ConfigureKeeps

LEMMA KeepVlKeeps ==
  ASSUME Inv, group' = NoGroup, NEW new \in [ill : {FALSE}, sew : Sews, lmul : Lmuls], KeepVl(new)
  PROVE  Inv'
<1>1. CASE ~vtype.ill /\ vtype.sew = 0
  BY <1>1 DEF KeepVl, Inv, VtypeInv, VlInRange, GroupInv, HaltInv
<1>2. CASE ~vtype.ill /\ vtype.sew # 0 /\ compute_vlmax(vtype) = compute_vlmax(new)
  <2>1. Configure(new, vl) /\ vl \in Nat /\ vl <= compute_vlmax(new)
    BY <1>2 DEF KeepVl, Inv, VtypeInv, VlInRange
  <2>2. QED
    BY <2>1, ConfigureKeeps
<1>3. CASE Configure(VtypeIll, 0)
  BY <1>3, IllKeeps
<1>4. QED
  BY <1>1, <1>2, <1>3 DEF KeepVl

LEMMA VsetKeeps ==
  ASSUME Inv, Vsetvl \/ Vsetivli
  PROVE  Inv'
<1> DEFINE WellFormed == [ill : {FALSE}, sew : Sews, lmul : Lmuls]
<1>1. ASSUME NEW bits \in VtypeBits, ~VTYPE_from_bits(bits).ill
      PROVE  VTYPE_from_bits(bits) \in WellFormed
  <2>1. VTYPE_from_bits(bits) # VtypeIll
    <3>1. VtypeIll.ill
      BY DEF VtypeIll
    <3>2. QED
      BY <1>1, <3>1
  <2>2. QED
    BY <2>1, VtypeOfBits
<1>2. CASE Vsetvl
  <2>1. PICK bits \in VtypeBits :
          LET new == VTYPE_from_bits(bits) IN
          /\ group' = NoGroup
          /\ \/ new.ill /\ Configure(VtypeIll, 0)
             \/ ~new.ill /\ KeepVl(new)
             \/ ~new.ill /\ Configure(new, compute_vlmax(new))
             \/ ~new.ill /\ \E avl \in Avls : SetVl(new, avl)
    BY <1>2 DEF Vsetvl
  <2> DEFINE new == VTYPE_from_bits(bits)
  <2>2. new.ill \/ new \in WellFormed
    BY <1>1
  <2>3. new \in WellFormed => compute_vlmax(new) \in Nat /\ compute_vlmax(new) <= compute_vlmax(new)
    BY Vlmax, LengthType
  <2> HIDE DEF new
  <2>4. QED
    BY <2>1, <2>2, <2>3, IllKeeps, KeepVlKeeps, ConfigureKeeps, SetVlKeeps DEF new
<1>3. CASE Vsetivli
  <2>1. PICK bits \in VtypeBits, avl \in Avls \cap 0 .. 31 :
          /\ group' = NoGroup
          /\ IF VTYPE_from_bits(bits).ill THEN Configure(VtypeIll, 0)
             ELSE SetVl(VTYPE_from_bits(bits), avl)
    BY <1>3 DEF Vsetivli
  <2>2. QED
    BY <1>1, <2>1, IllKeeps, SetVlKeeps
<1>4. QED
  BY <1>2, <1>3

-----------------------------------------------------------------------------
(* The invariant *)

LEMMA InvInit == Init => Inv
BY DEF Init, Inv, VtypeInv, VlInRange, GroupInv, HaltInv, VtypeZero, Sews, Lmuls

LEMMA InvNext == Inv /\ [Next]_vars => Inv'
<1> SUFFICES ASSUME Inv, [Next]_vars
             PROVE  Inv'
  OBVIOUS
<1>1. CASE Vsetvl \/ Vsetivli
  BY <1>1, VsetKeeps
<1>2. CASE Elementwise \/ SlideDown \/ SlideUp \/ Gather
  BY <1>2, SameWidthShapesKeep
<1>3. CASE Gather16
  BY <1>3, Gather16Keeps
<1>4. CASE Widen \/ WidenAccumulate \/ WidenWide
  BY <1>4, WidenKeeps, WidenAccumulateKeeps, WidenWideKeeps
<1>5. CASE Narrow \/ Extend2 \/ Extend4
  BY <1>5, NarrowKeeps, Extend2Keeps, Extend4Keeps
<1>6. CASE Compare \/ CarryOut
  BY <1>6, ToMaskShapesKeep
<1>7. CASE MaskToMask \/ Iota \/ Compress
  BY <1>7, MaskToMaskKeeps, IotaKeeps, CompressKeeps
<1>8. CASE Load \/ LoadIndexed
  BY <1>8, LoadKeeps, LoadIndexedKeeps
<1>9. CASE UNCHANGED vars
  BY <1>9 DEF vars, Inv, VtypeInv, VlInRange, GroupInv, HaltInv, Legal, Operand, Fits,
              Capacity, compute_vlmax, mul_lmul
<1>10. QED
  BY <1>1, <1>2, <1>3, <1>4, <1>5, <1>6, <1>7, <1>8, <1>9 DEF Next

LEMMA Invariance == Spec => []Inv
BY InvInit, InvNext, PTL DEF Spec

LEMMA VlBounded ==
  ASSUME VtypeInv
  PROVE  vl \in 0 .. VLEN /\ (~vtype.ill => vl <= Capacity)
<1>1. CASE vtype.ill \/ vtype.sew = 0
  BY <1>1, LengthType DEF VtypeInv, VlInRange, Capacity
<1>2. CASE ~(vtype.ill \/ vtype.sew = 0)
  BY <1>2, CapacityType, LengthType DEF VtypeInv, VlInRange, Capacity
<1>3. QED
  BY <1>1, <1>2

\* Every reachable state is well typed; vl is at most VLEN although LMUL may be 8.
THEOREM TypeCorrect == Spec => []TypeOK
<1>1. Inv => TypeOK
  <2> SUFFICES ASSUME Inv PROVE TypeOK
    OBVIOUS
  <2>1. vl \in 0 .. VLEN
    BY VlBounded DEF Inv
  <2>2. /\ group.shape \in Shapes \cup {"none"}
        /\ group.dst \in 0 .. 31 /\ group.regs \in 1 .. 8 /\ group.nf \in 1 .. 8
    BY DEF Inv, GroupInv, Legal, NoGroup, Counts
  <2>3. QED
    BY <2>1, <2>2 DEF Inv, VtypeInv, HaltInv, TypeOK
<1>2. QED
  BY <1>1, Invariance, PTL

\* vl is never above the VLMAX of the vtype it is used with, whichever form of
\* vset was used before and whatever vtype it kept vl under.
THEOREM VlStaysInRange == Spec => []VlInRange
<1>1. Inv => VlInRange
  BY DEF Inv, VtypeInv
<1>2. QED
  BY <1>1, Invariance, PTL

Quotient(a, b) == a \div b

\* A fraction in eighths and the same fraction expanded by c
LEMMA SameFraction ==
  ASSUME NEW a \in Nat, NEW num \in Nat, NEW sew \in Sews, NEW den \in Nat,
         NEW c \in {1, 2, 4, 8}, c * a = 8 * num, c * sew = den
  PROVE  /\ a <= 64 * sew <=> num <= 8 * den
         /\ sew <= a <=> den <= 8 * num
         /\ a <= 8 * sew <=> num <= den
         /\ Quotient(a, 8 * sew) = Quotient(num, den)
<1>1. /\ a <= 64 * sew <=> num <= 8 * den
      /\ sew <= a <=> den <= 8 * num
      /\ a <= 8 * sew <=> num <= den
  <2>1. CASE c = 1
    BY <2>1 DEF Sews
  <2>2. CASE c = 2
    BY <2>2 DEF Sews
  <2>3. CASE c = 4
    BY <2>3 DEF Sews
  <2>4. CASE c = 8
    BY <2>4 DEF Sews
  <2>5. QED
    BY <2>1, <2>2, <2>3, <2>4
<1>2. ASSUME NEW w \in {8, 16, 32, 64}, sew = w
      PROVE  Quotient(a, 8 * sew) = Quotient(num, den)
  <2>1. CASE w = 8
    BY <1>2, <2>1 DEF Quotient
  <2>2. CASE w = 16
    BY <1>2, <2>2 DEF Quotient
  <2>3. CASE w = 32
    BY <1>2, <2>3 DEF Quotient
  <2>4. CASE w = 64
    BY <1>2, <2>4 DEF Quotient
  <2>5. QED
    BY <2>1, <2>2, <2>3, <2>4
<1>3. QED
  BY <1>1, <1>2 DEF Sews

\* The logarithms of getEewAlign give EEW / SEW * LMUL for every vtype that
\* vset can leave behind.
THEOREM EewAlignIsExact == Spec => []EewAlignExact
<1> DEFINE Num(eew) == eew * (IF vtype.lmul >= 0 THEN 2 ^ vtype.lmul ELSE 1)
           Den == vtype.sew * (IF vtype.lmul < 0 THEN 2 ^ (-vtype.lmul) ELSE 1)
           Exact(eew) ==
             /\ getEewAlign(vtype, eew).valid <=> (Num(eew) <= 8 * Den /\ Den <= 8 * Num(eew))
             /\ getEewAlign(vtype, eew).valid =>
                  getEewAlign(vtype, eew).regs =
                    (IF Num(eew) <= Den THEN 1 ELSE Num(eew) \div Den)
<1>1. ASSUME Inv, vtype.sew # 0, NEW eew \in Sews
      PROVE  Exact(eew)
  <2> DEFINE e == Eighths(vtype.lmul)
             a == eew * e
             num == Num(eew)
             den == Den
  <2>1. vtype.sew \in Sews /\ vtype.lmul \in Lmuls
    BY <1>1 DEF Inv, VtypeInv
  <2>2. /\ getEewAlign(vtype, eew).valid <=> (a <= 64 * vtype.sew /\ vtype.sew <= a)
        /\ getEewAlign(vtype, eew).valid =>
             getEewAlign(vtype, eew).regs =
               IF a <= 8 * vtype.sew THEN 1 ELSE Quotient(a, 8 * vtype.sew)
    BY <2>1, EewAligns DEF Quotient
  <2>3. /\ a \in Nat /\ num \in Nat /\ den \in Nat
        /\ \E c \in {1, 2, 4, 8} : c * a = 8 * num /\ c * vtype.sew = den
    <3>1. CASE vtype.lmul = 0
      BY <2>1, <3>1 DEF Sews, Eighths
    <3>2. CASE vtype.lmul = 1
      BY <2>1, <3>2 DEF Sews, Eighths
    <3>3. CASE vtype.lmul = 2
      BY <2>1, <3>3 DEF Sews, Eighths
    <3>4. CASE vtype.lmul = 3
      BY <2>1, <3>4 DEF Sews, Eighths
    <3>5. CASE vtype.lmul < 0
      <4> DEFINE k == -vtype.lmul
      <4>1. k \in {1, 2, 3} /\ vtype.lmul = -k
        BY <2>1, <3>5 DEF Lmuls
      <4>2. num = eew /\ den = vtype.sew * 2 ^ k
        BY <2>1, <3>5 DEF Lmuls, Sews
      <4> HIDE DEF k, num, den
      <4>3. CASE k = 1
        <5>1. a = 4 * eew /\ den = 2 * vtype.sew
          BY <2>1, <4>1, <4>2, <4>3 DEF Eighths, Sews
        <5>2. 2 * a = 8 * num /\ 2 * vtype.sew = den
          BY <2>1, <4>2, <5>1 DEF Sews
        <5>3. QED
          BY <2>1, <4>2, <5>1, <5>2 DEF Sews
      <4>4. CASE k = 2
        <5>1. a = 2 * eew /\ den = 4 * vtype.sew
          BY <2>1, <4>1, <4>2, <4>4 DEF Eighths, Sews
        <5>2. 4 * a = 8 * num /\ 4 * vtype.sew = den
          BY <2>1, <4>2, <5>1 DEF Sews
        <5>3. QED
          BY <2>1, <4>2, <5>1, <5>2 DEF Sews
      <4>5. CASE k = 3
        <5>1. a = eew /\ den = 8 * vtype.sew
          BY <2>1, <4>1, <4>2, <4>5 DEF Eighths, Sews
        <5>2. 8 * a = 8 * num /\ 8 * vtype.sew = den
          BY <2>1, <4>2, <5>1 DEF Sews
        <5>3. QED
          BY <2>1, <4>2, <5>1, <5>2 DEF Sews
      <4>6. QED
        BY <4>1, <4>3, <4>4, <4>5
    <3>6. QED
      BY <2>1, <3>1, <3>2, <3>3, <3>4, <3>5 DEF Lmuls
  <2> HIDE DEF a, num, den
  <2>4. /\ a <= 64 * vtype.sew <=> num <= 8 * den
        /\ vtype.sew <= a <=> den <= 8 * num
        /\ a <= 8 * vtype.sew <=> num <= den
        /\ Quotient(a, 8 * vtype.sew) = Quotient(num, den)
    <3>1. PICK c \in {1, 2, 4, 8} : c * a = 8 * num /\ c * vtype.sew = den
      BY <2>3
    <3>2. a \in Nat /\ num \in Nat /\ den \in Nat /\ vtype.sew \in Sews
      BY <2>1, <2>3
    <3> DEFINE sew == vtype.sew
    <3>3. sew \in Sews /\ c * sew = den
      BY <3>1, <3>2
    <3> HIDE DEF sew
    <3>4. /\ a <= 64 * sew <=> num <= 8 * den
          /\ sew <= a <=> den <= 8 * num
          /\ a <= 8 * sew <=> num <= den
          /\ Quotient(a, 8 * sew) = Quotient(num, den)
      BY <3>1, <3>2, <3>3, SameFraction
    <3>5. QED
      BY <3>4 DEF sew
  <2>5. /\ getEewAlign(vtype, eew).valid <=> (num <= 8 * den /\ den <= 8 * num)
        /\ getEewAlign(vtype, eew).valid =>
             getEewAlign(vtype, eew).regs = (IF num <= den THEN 1 ELSE Quotient(num, den))
    BY <2>2, <2>4, Zenon
  <2>6. QED
    BY <2>5 DEF num, den, Quotient
<1>2. Inv => EewAlignExact
  <2>1. ASSUME Inv, ~vtype.ill, vtype.sew # 0
        PROVE  \A eew \in Sews : Exact(eew)
    BY <1>1, <2>1
  <2>2. (\A eew \in Sews : Exact(eew)) => EewAlignExact
    BY Zenon DEF EewAlignExact
  <2>3. QED
    BY <2>1, <2>2, Zenon DEF EewAlignExact
<1>3. QED
  BY <1>2, Invariance, PTL

\* Every operand of every instruction that passes the checks holds vl elements
\* and lies within the register file.
THEOREM GroupsAlwaysHoldVl == Spec => []GroupsHoldVl
<1>1. Inv => GroupsHoldVl
  <2> SUFFICES ASSUME Inv PROVE GroupsHoldVl
    OBVIOUS
  <2>1. VtypeInv /\ vl \in 0 .. VLEN /\ (~vtype.ill => vl <= Capacity) /\ Capacity \in Nat
    BY VlBounded, CapacityType, LengthType DEF Inv
  <2>2. CASE group = NoGroup
    BY <2>1, <2>2, LengthType DEF GroupsHoldVl, NoGroup
  <2>3. CASE group # NoGroup
    <3>1. /\ vl <= Capacity /\ vl \in Nat
          /\ Legal(group.shape, group.dst, group.width, group.regs, group.nf, group.sources)
      BY <2>1, <2>3 DEF Inv, GroupInv
    <3>2. ASSUME NEW width \in Widths, NEW regs \in Counts, Fits(width, regs)
          PROVE  vl * width <= regs * VLEN
      <4>1. vl * width <= Capacity * width
        BY <2>1, <3>1 DEF Widths
      <4>2. QED
        BY <2>1, <3>1, <3>2, <4>1, LengthType DEF Fits, Widths, Counts
    <3>3. QED
      BY <3>1, <3>2 DEF Legal, Operand, GroupsHoldVl
  <2>4. QED
    BY <2>2, <2>3
<1>2. QED
  BY <1>1, Invariance, PTL

-----------------------------------------------------------------------------
(* Element after element is all at once *)

\* An element of registers that end before others begin ends before any of
\* their elements begins.
LEMMA RegistersBelow ==
  ASSUME NEW x \in Nat, NEW y \in Nat, NEW regs \in Nat, NEW width \in Nat, NEW i \in Nat,
         NEW n \in Nat, NEW below \in Nat, i + 1 <= n, n * width <= regs * VLEN, x + regs <= y
  PROVE  x * VLEN + i * width + width <= y * VLEN + below
<1>1. i * width + width <= n * width
  <2>1. (i + 1) * width <= n * width
    BY Scale
  <2>2. (i + 1) * width = i * width + width
    OBVIOUS
  <2>3. QED
    BY <2>1, <2>2
<1>2. x * VLEN + regs * VLEN <= y * VLEN
  <2>1. (x + regs) * VLEN <= y * VLEN
    BY LengthType, Scale
  <2>2. (x + regs) * VLEN = x * VLEN + regs * VLEN
    BY LengthType
  <2>3. QED
    BY <2>1, <2>2
<1>3. /\ x * VLEN \in Nat /\ y * VLEN \in Nat /\ regs * VLEN \in Nat
      /\ i * width \in Nat /\ n * width \in Nat
  BY LengthType
<1>4. QED
  BY <1>1, <1>2, <1>3

\* Of registers that begin together, an element ends before a later one of
\* elements no narrower begins.
LEMMA ElementBelow ==
  ASSUME NEW i \in Nat, NEW e \in Nat, i + 1 <= e, NEW width \in Nat, NEW wider \in Nat,
         width <= wider
  PROVE  i * width + width <= e * wider
<1>1. (i + 1) * width <= e * width /\ e * width <= e * wider
  BY Scale
<1>2. (i + 1) * width = i * width + width
  OBVIOUS
<1>3. e * width \in Nat /\ e * wider \in Nat /\ i * width \in Nat
  OBVIOUS
<1>4. QED
  BY <1>1, <1>2, <1>3

\* At the upper end of a wide group a narrow one is written only after it is
\* read: a and b are the bits of the elements before the one that is read.
LEMMA UpperEnd ==
  ASSUME NEW regs \in Counts, NEW part \in Counts, part <= regs, NEW a \in Nat, NEW b \in Nat,
         regs * b = part * a, a <= regs * VLEN
  PROVE  a <= (regs - part) * VLEN + b
<1> USE LengthType DEF Counts
<1>1. CASE regs = 1
  BY <1>1
<1>2. CASE regs = 2
  BY <1>2
<1>3. CASE regs = 4
  BY <1>3
<1>4. CASE regs = 8
  BY <1>4
<1>5. QED
  BY <1>1, <1>2, <1>3, <1>4

LEMMA UpperEndBelow ==
  ASSUME NEW dst \in Nat, NEW reg \in Nat, NEW regs \in Counts, NEW part \in Counts,
         reg + part = dst + regs, NEW width \in Widths, NEW narrow \in Widths, narrow <= width,
         narrow * regs = width * part,
         NEW n \in Nat, NEW i \in Nat, NEW e \in Nat, i + 1 <= e, e <= n,
         n * width <= regs * VLEN
  PROVE  dst * VLEN + i * width + width <= reg * VLEN + e * narrow
<1> DEFINE a == e * width
           b == e * narrow
<1>1. width \in Nat /\ narrow \in Nat /\ regs \in Nat /\ part \in Nat /\ VLEN \in Nat
  BY LengthType DEF Widths, Counts
<1>2. part <= regs
  BY DEF Widths, Counts
<1>3. a \in Nat /\ b \in Nat
  BY <1>1
<1>4. regs * b = part * a
  <2>1. regs * b = e * (narrow * regs) /\ part * a = e * (width * part)
    BY <1>1
  <2>2. QED
    BY <2>1
<1>5. a <= regs * VLEN
  <2>1. a <= n * width
    BY <1>1, Scale
  <2>2. n * width \in Nat /\ regs * VLEN \in Nat
    BY <1>1
  <2>3. QED
    BY <1>3, <2>1, <2>2
<1>6. i * width + width <= a
  BY <1>1, ElementBelow
<1>7. reg * VLEN = dst * VLEN + (regs - part) * VLEN
  <2>1. reg = dst + (regs - part)
    BY <1>1
  <2>2. QED
    BY <1>1, <2>1
<1> HIDE DEF a, b
<1>8. a <= (regs - part) * VLEN + b
  BY <1>2, <1>3, <1>4, <1>5, UpperEnd
<1>9. (regs - part) * VLEN \in Nat /\ dst * VLEN \in Nat /\ i * width \in Nat
  BY <1>1, <1>2
<1>10. dst * VLEN + i * width + width <= reg * VLEN + b
  BY <1>1, <1>3, <1>6, <1>7, <1>8, <1>9
<1>11. QED
  BY <1>10 DEF b

\* When element e of a source is read in iteration k, destination element i of
\* an iteration before it ends below the source element or begins above it.
LEMMA ClearIsUntouched ==
  ASSUME NEW dst \in 0 .. 31, NEW width \in Widths, NEW regs \in Counts, NEW nf \in 1 .. 8,
         NEW s, s.reg \in 0 .. 31, s.width \in Widths, s.regs \in Counts,
         NEW n \in Nat, n * width <= regs * VLEN, n * s.width <= s.regs * VLEN,
         NEW i \in Nat, NEW k \in Nat, NEW e \in Nat, i < k, k < n, e < n,
         s.reads \in {"element", "ahead"} => k <= e,
         s.reads = "element" => k = e,
         NEW j \in 0 .. nf - 1, Clear(s, dst, width, regs, nf),
         NEW x, x = dst + j * regs
  PROVE  \/ x * VLEN + i * width + width <= s.reg * VLEN + e * s.width
         \/ s.reg * VLEN + e * s.width + s.width <= x * VLEN + i * width
<1>1. /\ width \in Nat /\ s.width \in Nat /\ regs \in Nat /\ s.regs \in Nat /\ s.reg \in Nat
      /\ x \in Nat /\ VLEN \in Nat /\ i + 1 <= n /\ e + 1 <= n
      /\ i * width \in Nat /\ e * s.width \in Nat
  BY LengthType DEF Widths, Counts
<1>2. dst <= x /\ x + regs <= dst + nf * regs
  BY DEF Counts
<1>3. ASSUME x + regs <= s.reg
      PROVE  x * VLEN + i * width + width <= s.reg * VLEN + e * s.width
  BY <1>1, <1>3, RegistersBelow
<1>4. ASSUME s.reg + s.regs <= x
      PROVE  s.reg * VLEN + e * s.width + s.width <= x * VLEN + i * width
  BY <1>1, <1>4, RegistersBelow
<1>5. ASSUME s.reg = x, width <= s.width, k <= e
      PROVE  x * VLEN + i * width + width <= s.reg * VLEN + e * s.width
  <2>1. i * width + width <= e * s.width
    <3>1. i + 1 <= e
      BY <1>5
    <3>2. QED
      BY <1>1, <1>5, <3>1, ElementBelow
  <2>2. x * VLEN \in Nat
    BY <1>1
  <2>3. QED
    BY <1>1, <1>5, <2>1, <2>2
<1>6. CASE Apart(s, dst, regs, nf)
  <2>1. dst + nf * regs <= s.reg \/ s.reg + s.regs <= dst
    BY <1>6 DEF Apart, Disjoint
  <2>2. x + regs <= s.reg \/ s.reg + s.regs <= x
    <3>1. nf * regs \in Nat
      BY <1>1
    <3>2. QED
      BY <1>1, <1>2, <2>1, <3>1
  <2>3. QED
    BY <1>3, <1>4, <2>2
<1>7. CASE AtField(s, dst, width, regs, nf)
  <2>1. k <= e
    BY <1>7 DEF AtField
  <2>2. CASE s.reg = dst /\ nf = 1 /\ width <= s.width
    <3>1. s.reg = x
      BY <1>1, <2>2
    <3>2. QED
      BY <1>5, <2>1, <2>2, <3>1
  <2>3. CASE s.width = width /\ s.regs = regs /\ \E f \in 0 .. nf - 1 : s.reg = dst + f * regs
    <3>1. PICK f \in 0 .. nf - 1 : s.reg = dst + f * regs
      BY <2>3
    <3>2. \/ s.reg = x
          \/ x + regs <= s.reg
          \/ s.reg + s.regs <= x
      BY <2>3, <3>1 DEF Counts
    <3>3. width <= s.width
      BY <1>1, <2>3
    <3>4. QED
      BY <1>3, <1>4, <1>5, <2>1, <3>2, <3>3
  <2>4. QED
    BY <1>7, <2>2, <2>3 DEF AtField
<1>8. CASE AtTop(s, dst, width, regs, nf)
  <2>1. /\ k = e /\ j = 0
        /\ s.reg + s.regs = dst + regs
        /\ s.width <= width /\ s.width * regs = width * s.regs
    BY <1>8 DEF AtTop
  <2>2. x = dst /\ i + 1 <= e /\ e <= n
    BY <1>1, <2>1
  <2>3. QED
    BY <1>1, <2>1, <2>2, UpperEndBelow, ZenonT(60)
<1>9. QED
  BY <1>6, <1>7, <1>8 DEF Clear

\* No loop of an accepted instruction overwrites an element that it has still
\* to read, but for a masked vrgatherei16.vv: what the templates call a legal
\* overlap gives the result of reading every source first.
THEOREM OverlapsAreSafe == Spec => []OverlapSafe
<1>1. Inv => OverlapSafe
  <2> SUFFICES ASSUME Inv, ~(group.shape = "gather16" /\ MaskSource \in group.sources),
                      NEW s \in group.sources, NEW k \in 1 .. vl - 1, NEW e \in ReadAt(s, k),
                      NEW i \in 0 .. k - 1, NEW j \in 0 .. group.nf - 1
               PROVE  LET first == (group.dst + j * group.regs) * VLEN + i * group.width
                          from == s.reg * VLEN + e * s.width
                      IN ~(first < from + s.width /\ from < first + group.width)
    BY DEF OverlapSafe, SequentialIsParallel, Clobbers
  <2>1. group # NoGroup
    BY DEF NoGroup
  <2>2. /\ ~vtype.ill
        /\ Legal(group.shape, group.dst, group.width, group.regs, group.nf, group.sources)
    BY <2>1 DEF Inv, GroupInv
  <2>3. vl \in Nat /\ vl <= Capacity /\ Capacity \in Nat
    BY <2>2, VlBounded, CapacityType, LengthType DEF Inv
  <2>4. Operand(s) /\ Clear(s, group.dst, group.width, group.regs, group.nf)
    BY <2>2 DEF Legal
  <2>5. /\ e \in Nat /\ e < Capacity
        /\ s.reads \in {"element", "ahead"} => k <= e
        /\ s.reads = "element" => k = e
    <3>1. CASE s.reads = "element"
      BY <2>3, <3>1 DEF ReadAt
    <3>2. CASE s.reads # "element"
      <4>1. Capacity = compute_vlmax(vtype) /\ s.reads \in {"ahead", "behind", "any"}
        BY <2>4, <3>2 DEF Operand, Capacity
      <4>2. ReadAt(s, k) = IF s.reads = "ahead" THEN k .. Capacity - 1
                           ELSE IF s.reads = "behind" THEN 0 .. k ELSE 0 .. Capacity - 1
        BY <4>1 DEF ReadAt
      <4>3. QED
        BY <2>3, <3>2, <4>1, <4>2
    <3>3. QED
      BY <3>1, <3>2
  <2>6. /\ group.dst \in 0 .. 31 /\ group.width \in Widths /\ group.regs \in Counts
        /\ group.nf \in 1 .. 8 /\ Capacity * group.width <= group.regs * VLEN
    BY <2>2 DEF Legal, Fits
  <2>7. /\ s.reg \in 0 .. 31 /\ s.width \in Widths /\ s.regs \in Counts
        /\ Capacity * s.width <= s.regs * VLEN
    BY <2>4 DEF Operand, Fits
  <2>8. i \in Nat /\ k \in Nat /\ i < k /\ k < Capacity
    BY <2>3
  <2> DEFINE first == (group.dst + j * group.regs) * VLEN + i * group.width
             from == s.reg * VLEN + e * s.width
  <2>9. /\ first \in Nat /\ from \in Nat
        /\ group.width \in Nat /\ s.width \in Nat
    BY <2>5, <2>6, <2>7, <2>8, LengthType, SMTT(30) DEF Widths, Counts
  <2> HIDE DEF Capacity
  <2>10. first + group.width <= from \/ from + s.width <= first
    BY <2>3, <2>4, <2>5, <2>6, <2>7, <2>8, ClearIsUntouched
  <2> HIDE DEF first, from
  <2>11. ~(first < from + s.width /\ from < first + group.width)
    BY <2>9, <2>10
  <2>12. QED
    BY <2>11 DEF first, from
<1>2. QED
  BY <1>1, Invariance, PTL
=============================================================================
