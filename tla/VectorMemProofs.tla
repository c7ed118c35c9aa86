-------------------------- MODULE VectorMemProofs ---------------------------
(***************************************************************************)
(* Proofs about VectorMem, for every address space, every size of the      *)
(* register groups, every instruction and every guest handler.             *)
(*                                                                         *)
(* The invariant follows one access from its issue to its retirement.  The *)
(* position in the loop, or vstart between two attempts, divides what was  *)
(* transferred from what was not (PassInv); from that the contents of      *)
(* registers and memory are known at every point (DataInv), however often  *)
(* the elements of a segment were transferred again.                       *)
(***************************************************************************)
EXTENDS VectorMem, TLAPS

\* The access, in the form in which VectorAccess knows it
Issue == [inst |-> inst, from |-> issued]
Addr(s) == AddressIn(Issue, Contents, s)

Running == phase \in {"fetch", "loop", "trap"}

\* Where the loop is, or will resume
Row == IF phase = "loop" THEN idx ELSE vstart
Col == IF phase = "loop" THEN field ELSE 0
Passed(s) == s[2] < Row \/ (s[2] = Row /\ s[1] < Col)

\* What a step has changed so far is known from its beginning.
RecordInv ==
  /\ phase = "loop" => /\ vstart = before.vstart /\ dirty = before.dirty
                       /\ inst.op = "store" => group = before.group
  /\ ConservativeOtherwise

\* Behind the position everything was transferred; ahead of it nothing, but
\* for fields of the element it is at, the last one excepted.
PassInv ==
  /\ served \subseteq Targets(Issue)
  /\ Running =>
       /\ issued <= Row
       /\ \A s \in Targets(Issue) : Passed(s) => s \in served
       /\ \A s \in served : s[2] < Row \/ (s[2] = Row /\ s[1] + 1 < inst.nf)
  /\ phase = "loop" /\ field > 0 =>
       field < inst.nf /\ idx < Evl(inst) /\ idx \in Active(inst)

\* An address holds what it held at issue, or what one of its writers stored,
\* which no writer behind the position comes after.
Settled(x) ==
  \/ mem[x] = Memory[x] /\ \A s \in served : Addr(s) # x
  \/ \E s \in served :
       /\ Addr(s) = x /\ mem[x] = Contents[s]
       /\ \A t \in served : Addr(t) = x /\ Passed(t) /\ t # s => After(s, t)

LoadInv ==
  /\ mem = Memory
  /\ \A s \in Slots : group[s] = IF s \in served THEN Memory[Addr(s)] ELSE Contents[s]

StoreInv ==
  /\ group = Contents
  /\ \A x \in Addrs : Settled(x)

DataInv ==
  Running /\ ~OverwritesIndex(inst) =>
    /\ phase = "loop" /\ field > 0 => offset = OffsetOf(inst, Contents, idx)
    /\ inst.op = "load" => LoadInv
    /\ inst.op = "store" => StoreInv

Inv == TypeOK /\ RecordInv /\ PassInv /\ DataInv

-----------------------------------------------------------------------------
(* Lengths, offsets and addresses *)

LEMMA InstFacts ==
  ASSUME TypeOK
  PROVE  /\ inst.op \in {"load", "store"}
         /\ inst.mode \in {"unit", "strided", "indexed", "whole", "mask"}
         /\ inst.nf \in 1 .. MaxNf /\ inst.vl \in 0 .. 8 * MaxVl
         /\ inst.base \in Nat /\ inst.stride \in Nat
         /\ inst.overlap \in {None} \cup 0 .. MaxNf - 1
         /\ Active(inst) \subseteq Elems
         /\ Evl(inst) \in 0 .. MaxVl
<1>1. inst \in InstType /\ (inst.mode # "mask" => inst.vl <= MaxVl)
  BY InstAssumption DEF TypeOK
<1>2. /\ inst.op \in {"load", "store"}
      /\ inst.mode \in {"unit", "strided", "indexed", "whole", "mask"}
      /\ inst.nf \in 1 .. MaxNf /\ inst.vl \in 0 .. 8 * MaxVl
      /\ inst.base \in Nat /\ inst.stride \in Nat
      /\ inst.overlap \in {None} \cup 0 .. MaxNf - 1
      /\ inst.active \subseteq Elems
  BY <1>1 DEF InstType
<1>3. Active(inst) \subseteq Elems
  BY <1>2 DEF Active
<1>4. Evl(inst) \in 0 .. MaxVl
  BY <1>1, <1>2, SpaceAssumption DEF Evl
<1>5. QED
  BY <1>2, <1>3, <1>4

LEMMA OffsetType ==
  ASSUME TypeOK, NEW g \in [Slots -> Nat], NEW i \in Elems
  PROVE  OffsetOf(inst, g, i) \in Nat
<1>1. i \in Nat
  BY DEF Elems
<1>2. CASE inst.mode = "strided"
  BY <1>1, <1>2, InstFacts DEF OffsetOf
<1>3. CASE inst.mode = "indexed"
  <2>1. OffsetOf(inst, g, i) = IF inst.overlap = None THEN Index[i] ELSE g[<<inst.overlap, i>>]
    BY <1>3 DEF OffsetOf
  <2>2. Index[i] \in Nat
    BY DataAssumption
  <2>3. inst.overlap # None => <<inst.overlap, i>> \in Slots
    BY InstFacts DEF Slots
  <2>4. QED
    BY <2>1, <2>2, <2>3
<1>4. CASE inst.mode \notin {"strided", "indexed"}
  BY <1>1, <1>4, InstFacts DEF OffsetOf
<1>5. QED
  BY <1>2, <1>3, <1>4

LEMMA AddressType ==
  ASSUME TypeOK, NEW off \in Nat, NEW j \in Nat
  PROVE  Address(inst, off, j) \in Addrs
BY InstFacts, SpaceAssumption DEF Address, Addrs

\* The element that the loop is about to transfer
LEMMA HereFacts ==
  ASSUME TypeOK, AtElement
  PROVE  /\ idx \in Elems /\ field \in Nat /\ <<field, idx>> \in Slots
         /\ Offset \in Nat /\ Here \in Addrs
<1>1. idx \in Elems /\ field \in 0 .. MaxNf - 1 /\ offset \in Nat
  BY InstFacts, SpaceAssumption DEF TypeOK, AtElement, Elems
<1>2. group \in [Slots -> Nat]
  BY DEF TypeOK
<1>3. Offset \in Nat
  BY <1>1, <1>2, OffsetType DEF Offset
<1>4. field \in Nat
  BY <1>1, SpaceAssumption
<1>5. Here \in Addrs
  BY <1>3, <1>4, AddressType DEF Here
<1>6. QED
  BY <1>1, <1>3, <1>4, <1>5 DEF Slots

LEMMA TargetFacts ==
  \A s : s \in Targets(Issue) <=>
           /\ s \in Slots /\ s[1] < inst.nf
           /\ s[2] \in Elems /\ issued <= s[2] /\ s[2] < Evl(inst) /\ s[2] \in Active(inst)
BY DEF Targets, Body, Issue

-----------------------------------------------------------------------------
(* Types *)

LEMMA TypeInit == Init => TypeOK
<1> SUFFICES ASSUME Init PROVE TypeOK
  OBVIOUS
<1>1. group \in [Slots -> Nat] /\ mem \in [Addrs -> Nat] /\ reachable \subseteq Addrs
  BY DataAssumption DEF Init
<1>2. vstart \in Nat /\ issued \in VStarts
  BY InstAssumption DEF Init
<1>3. QED
  BY <1>1, <1>2, SpaceAssumption DEF Init, TypeOK

LEMMA TypeNext == TypeOK /\ [Next]_vars => TypeOK'
<1> SUFFICES ASSUME TypeOK, [Next]_vars PROVE TypeOK'
  OBVIOUS
<1>1. CASE Begin
  <2>1. idx' \in 0 .. MaxVl /\ field' \in 0 .. MaxNf - 1
    BY <1>1, InstFacts, SpaceAssumption DEF Begin, TypeOK
  <2>2. before' \in [group : [Slots -> Nat], vstart : Nat, dirty : BOOLEAN]
    BY <1>1 DEF Begin, TypeOK
  <2>3. QED
    BY <1>1, <2>1, <2>2 DEF Begin, TypeOK, registers
<1>2. CASE Refuse
  <2>1. before' \in [group : [Slots -> Nat], vstart : Nat, dirty : BOOLEAN]
    BY <1>2 DEF Refuse, TypeOK
  <2>2. QED
    BY <1>2, <2>1 DEF Refuse, TypeOK, registers, loopVars
<1>3. CASE Skip
  <2>1. idx' \in 0 .. MaxVl
    BY <1>3, HereFacts, SpaceAssumption DEF Skip, Elems
  <2>2. QED
    BY <1>3, <2>1 DEF Skip, TypeOK, registers
<1>4. CASE Transfer
  <2>1. /\ AtElement /\ Advance
        /\ UNCHANGED <<inst, phase, reachable, vstart, dirty, log, issued, before>>
    BY <1>4 DEF Transfer
  <2>2. /\ idx' \in 0 .. MaxVl /\ field' \in 0 .. MaxNf - 1 /\ offset' \in Nat
        /\ served' \subseteq Slots
    BY <2>1, HereFacts, InstFacts, SpaceAssumption DEF Advance, TypeOK, Elems
  <2>3. group' \in [Slots -> Nat] /\ mem' \in [Addrs -> Nat]
    <3>1. mem[Here] \in Nat /\ group[<<field, idx>>] \in Nat
      BY <2>1, HereFacts DEF TypeOK
    <3>2. QED
      BY <1>4, <3>1 DEF Transfer, TypeOK
  <2>4. QED
    BY <2>1, <2>2, <2>3 DEF TypeOK
<1>5. CASE Fault
  <2>1. vstart' \in Nat
    BY <1>5, HereFacts DEF Fault, Elems
  <2>2. QED
    BY <1>5, <2>1 DEF Fault, TypeOK, loopVars
<1>6. CASE Retire
  BY <1>6 DEF Retire, TypeOK, loopVars
<1>7. CASE Handler
  <2>1. phase' \in {"fetch", "killed"} /\ UNCHANGED <<inst, loopVars, registers, mem, log, issued, before, served>>
    BY <1>7 DEF Handler
  <2>2. reachable' \subseteq Addrs
    BY <1>7, DataAssumption DEF Handler, TypeOK
  <2>3. QED
    BY <2>1, <2>2 DEF TypeOK, loopVars, registers
<1>8. CASE UNCHANGED vars
  BY <1>8 DEF vars, TypeOK
<1>9. QED
  BY <1>1, <1>2, <1>3, <1>4, <1>5, <1>6, <1>7, <1>8 DEF Next, Step

-----------------------------------------------------------------------------
(* The record of a step *)

LEMMA RecordNext == TypeOK /\ RecordInv /\ [Next]_vars => RecordInv'
<1> SUFFICES ASSUME TypeOK, RecordInv, [Next]_vars PROVE RecordInv'
  OBVIOUS
<1>1. CASE Begin
  BY <1>1 DEF Begin, registers, RecordInv, ConservativeOtherwise,
              RecordConservative, StepEnded
<1>2. CASE Refuse
  BY <1>2 DEF Refuse, registers, RecordInv, ConservativeOtherwise,
              RecordConservative, StepEnded
<1>3. CASE Skip
  BY <1>3 DEF Skip, registers, AtElement, RecordInv, ConservativeOtherwise,
              RecordConservative, StepEnded
<1>4. CASE Transfer
  BY <1>4 DEF Transfer, AtElement, RecordInv, ConservativeOtherwise,
              RecordConservative, StepEnded
<1>5. CASE Fault
  BY <1>5, InstFacts DEF Fault, AtElement, LogsOnFault, RecordInv, ConservativeOtherwise,
              RecordConservative, StepEnded
<1>6. CASE Retire
  <2>1. /\ phase' = "retired" /\ group' = group /\ before' = before /\ inst' = inst
        /\ vstart = before.vstart /\ dirty = before.dirty
        /\ inst.op = "store" => group = before.group
    BY <1>6 DEF Retire, RecordInv
  <2>2. vstart' # before.vstart => "vstart" \in log'
    BY <1>6, <2>1 DEF Retire
  <2>3. inst.op = "load" => "vreg" \in log' /\ "mstatus" \in log'
    BY <1>6 DEF Retire
  <2>4. inst.op = "store" => dirty' = dirty
    <3>1. dirty' = (dirty \/ inst.op = "load") /\ dirty \in BOOLEAN
      BY <1>6 DEF Retire, TypeOK
    <3>2. QED
      BY <3>1, Zenon
  <2>5. inst.op = "load" \/ inst.op = "store"
    BY InstFacts
  <2>6. QED
    BY <2>1, <2>2, <2>3, <2>4, <2>5 DEF RecordInv, ConservativeOtherwise,
              RecordConservative, StepEnded
<1>7. CASE Handler
  BY <1>7 DEF Handler, registers, RecordInv, ConservativeOtherwise,
              RecordConservative, StepEnded
<1>8. CASE UNCHANGED vars
  BY <1>8 DEF vars, RecordInv, ConservativeOtherwise,
              RecordConservative, StepEnded
<1>9. QED
  BY <1>1, <1>2, <1>3, <1>4, <1>5, <1>6, <1>7, <1>8 DEF Next, Step

-----------------------------------------------------------------------------
(* What was transferred *)

\* The loop begins where the instruction resumes.
LEMMA PassBegin == TypeOK /\ PassInv /\ Begin => PassInv'
<1> SUFFICES ASSUME TypeOK, PassInv, Begin PROVE PassInv'
  OBVIOUS
<1>1. /\ Row' = Row /\ Col' = Col /\ Running /\ Running'
      /\ inst' = inst /\ issued' = issued /\ served' = served /\ field' = 0
  BY DEF Begin, Row, Col, Running, registers
<1>2. Targets(Issue)' = Targets(Issue)
  BY <1>1 DEF Targets, Body, Issue, Evl, Active
<1>3. QED
  BY <1>1, <1>2 DEF PassInv, Passed

LEMMA PassSkip == TypeOK /\ PassInv /\ Skip => PassInv'
<1> SUFFICES ASSUME TypeOK, PassInv, Skip PROVE PassInv'
  OBVIOUS
<1>1. /\ Row = idx /\ Row' = idx + 1 /\ Running /\ Running' /\ phase = "loop"
      /\ idx \notin Active(inst) /\ idx \in Nat
      /\ inst' = inst /\ issued' = issued /\ served' = served /\ field' = field
  BY HereFacts DEF Skip, AtElement, Row, Running, registers, Elems
<1>2. field = 0
  BY <1>1 DEF PassInv, TypeOK
<1>3. Col = 0 /\ Col' = 0
  BY <1>1, <1>2 DEF Col
<1>4. Targets(Issue)' = Targets(Issue)
  BY <1>1 DEF Targets, Body, Issue, Evl, Active
<1>5. ASSUME NEW s \in Targets(Issue), Passed(s)'
      PROVE  s \in served
  <2>1. s[2] \in Nat /\ s[2] # idx /\ s[1] \in Nat
    BY <1>1, <1>5, TargetFacts, SpaceAssumption DEF Slots, Elems
  <2>2. s[2] < idx
    BY <1>1, <1>3, <1>5, <2>1 DEF Passed
  <2>3. Passed(s)
    BY <1>1, <2>2 DEF Passed
  <2>4. QED
    BY <1>1, <1>5, <2>3 DEF PassInv
<1>6. ASSUME NEW s \in served
      PROVE  s[2] < idx + 1
  <2>1. s[2] \in Nat /\ (s[2] < idx \/ s[2] = idx)
    BY <1>1, TargetFacts DEF PassInv, Elems
  <2>2. QED
    BY <1>1, <2>1
<1>7. issued <= idx + 1
  BY <1>1, InstAssumption DEF PassInv, TypeOK
<1>8. QED
  BY <1>1, <1>2, <1>4, <1>5, <1>6, <1>7 DEF PassInv

LEMMA PassTransfer == TypeOK /\ PassInv /\ Transfer => PassInv'
<1> SUFFICES ASSUME TypeOK, PassInv, Transfer PROVE PassInv'
  OBVIOUS
<1> DEFINE here == <<field, idx>>
<1>1. /\ phase = "loop" /\ phase' = "loop" /\ AtElement /\ Advance
      /\ idx \in Active(inst) /\ idx < Evl(inst)
      /\ inst' = inst /\ issued' = issued
  BY DEF Transfer, AtElement
<1>2. /\ idx \in Elems /\ idx \in Nat /\ field \in Nat /\ here \in Slots
      /\ inst.nf \in Nat /\ inst.nf >= 1 /\ Evl(inst) \in Nat
  BY <1>1, HereFacts, InstFacts, SpaceAssumption DEF Elems
<1>3. /\ Row = idx /\ Col = field /\ Row' = idx' /\ Col' = field'
      /\ Running /\ Running' /\ served' = served \cup {here}
  BY <1>1 DEF Row, Col, Running, Advance
<1>4. Targets(Issue)' = Targets(Issue)
  BY <1>1 DEF Targets, Body, Issue, Evl, Active
<1>5. issued <= idx /\ issued \in Nat /\ field < inst.nf
  BY <1>1, <1>2, <1>3, InstAssumption DEF PassInv, TypeOK
<1>6. here \in Targets(Issue)
  BY <1>1, <1>2, <1>5, TargetFacts
<1>7. \A s \in Targets(Issue) : s[1] \in Nat /\ s[2] \in Nat /\ s[1] < inst.nf
                                /\ (s[1] = field /\ s[2] = idx => s = here)
  BY TargetFacts, SpaceAssumption DEF Slots, Elems
<1>8. here[1] = field /\ here[2] = idx
  OBVIOUS
<1> HIDE DEF here
<1>9. CASE field + 1 < inst.nf
  <2>1. field' = field + 1 /\ idx' = idx
    BY <1>1, <1>9 DEF Advance
  <2>2. ASSUME NEW s \in Targets(Issue), Passed(s)'
        PROVE  s \in served'
    <3>1. s[2] < idx \/ (s[2] = idx /\ s[1] < field + 1)
      BY <1>3, <2>1, <2>2 DEF Passed
    <3>2. Passed(s) \/ s = here
      BY <1>2, <1>3, <1>7, <3>1 DEF Passed
    <3>3. QED
      BY <1>3, <3>2 DEF PassInv
  <2>3. \A s \in served' : s[2] < idx \/ (s[2] = idx /\ s[1] + 1 < inst.nf)
    BY <1>3, <1>8, <1>9 DEF PassInv
  <2>4. QED
    BY <1>1, <1>3, <1>4, <1>5, <1>6, <1>9, <2>1, <2>2, <2>3 DEF PassInv, Evl, Active
<1>10. CASE ~(field + 1 < inst.nf)
  <2>1. field' = 0 /\ idx' = idx + 1
    BY <1>1, <1>10 DEF Advance
  <2>2. ASSUME NEW s \in Targets(Issue), Passed(s)'
        PROVE  s \in served'
    <3>1. s[2] < idx + 1
      BY <1>2, <1>3, <1>7, <2>1, <2>2 DEF Passed
    <3>2. Passed(s) \/ s = here
      BY <1>2, <1>3, <1>5, <1>7, <1>10, <3>1 DEF Passed
    <3>3. QED
      BY <1>3, <3>2 DEF PassInv
  <2>3. ASSUME NEW s \in served'
        PROVE  s[2] < idx + 1
    <3>1. CASE s = here
      BY <1>2, <1>8, <3>1
    <3>2. CASE s \in served
      <4>1. s[2] \in Nat /\ (s[2] < idx \/ s[2] = idx)
        BY <1>3, <1>7, <3>2 DEF PassInv
      <4>2. QED
        BY <1>2, <4>1
    <3>3. QED
      BY <1>3, <3>1, <3>2
  <2>4. issued <= idx + 1
    BY <1>2, <1>5
  <2>5. QED
    BY <1>1, <1>3, <1>4, <1>6, <2>1, <2>2, <2>3, <2>4 DEF PassInv
<1>11. QED
  BY <1>9, <1>10

\* The element that faults is the one to resume from.
LEMMA PassFault == TypeOK /\ PassInv /\ Fault => PassInv'
<1> SUFFICES ASSUME TypeOK, PassInv, Fault PROVE PassInv'
  OBVIOUS
<1>1. /\ Row = idx /\ Row' = idx /\ Col = field /\ Col' = 0 /\ Running /\ Running'
      /\ phase' = "trap" /\ field \in Nat
      /\ inst' = inst /\ issued' = issued /\ served' = served
  BY HereFacts DEF Fault, AtElement, Row, Col, Running, loopVars
<1>2. Targets(Issue)' = Targets(Issue)
  BY <1>1 DEF Targets, Body, Issue, Evl, Active
<1>3. ASSUME NEW s \in Targets(Issue), Passed(s)'
      PROVE  Passed(s)
  <2>1. s[1] \in Nat
    BY TargetFacts, SpaceAssumption DEF Slots
  <2>2. QED
    BY <1>1, <1>3, <2>1 DEF Passed
<1>4. QED
  BY <1>1, <1>2, <1>3 DEF PassInv

LEMMA PassEnd ==
  ASSUME TypeOK, PassInv, phase' \notin {"fetch", "loop", "trap"},
         UNCHANGED <<inst, issued, served>>
  PROVE  PassInv'
<1>1. ~Running' /\ phase' # "loop"
  BY DEF Running
<1>2. Targets(Issue)' = Targets(Issue)
  BY DEF Targets, Body, Issue, Evl, Active
<1>3. QED
  BY <1>1, <1>2 DEF PassInv

LEMMA PassNext == TypeOK /\ PassInv /\ [Next]_vars => PassInv'
<1> SUFFICES ASSUME TypeOK, PassInv, [Next]_vars PROVE PassInv'
  OBVIOUS
<1>1. CASE Refuse
  BY <1>1, PassEnd DEF Refuse
<1>2. CASE Retire
  BY <1>2, PassEnd DEF Retire
<1>3. CASE Handler
  <2>1. /\ phase = "trap" /\ UNCHANGED <<inst, vstart, issued, served>>
        /\ phase' \in {"fetch", "killed"}
    BY <1>3 DEF Handler, registers
  <2>2. CASE phase' = "killed"
    BY <2>1, <2>2, PassEnd
  <2>3. CASE phase' = "fetch"
    <3>1. Row' = Row /\ Col' = Col /\ Running /\ Running'
      BY <2>1, <2>3 DEF Row, Col, Running
    <3>2. Targets(Issue)' = Targets(Issue)
      BY <2>1 DEF Targets, Body, Issue, Evl, Active
    <3>3. QED
      BY <2>1, <2>3, <3>1, <3>2 DEF PassInv, Passed
  <2>4. QED
    BY <2>1, <2>2, <2>3
<1>4. CASE UNCHANGED vars
  BY <1>4 DEF vars, PassInv, Running, Row, Col, Passed, Targets, Body, Issue, Evl, Active
<1>5. QED
  BY <1>1, <1>2, <1>3, <1>4, PassBegin, PassSkip, PassTransfer, PassFault DEF Next, Step

-----------------------------------------------------------------------------
(* What registers and memory hold *)

\* Only what is at the position is passed by a transfer; by the rest of the
\* loop, nothing of the access is.
LEMMA PassedByTransfer ==
  ASSUME TypeOK, PassInv, Transfer, NEW s \in Targets(Issue), Passed(s)'
  PROVE  \/ s = <<field, idx>>
         \/ Passed(s) /\ After(<<field, idx>>, s)
<1>1. /\ Row = idx /\ Col = field /\ Row' = idx' /\ Col' = field' /\ Advance
      /\ idx \in Nat /\ field \in Nat /\ inst.nf \in Nat
  BY HereFacts, InstFacts, SpaceAssumption DEF Transfer, AtElement, Row, Col, Elems
<1>2. /\ s \in Slots /\ s[1] < inst.nf /\ s[1] \in Nat /\ s[2] \in Nat
  BY TargetFacts, SpaceAssumption DEF Slots, Elems
<1>3. s[2] < idx \/ (s[2] = idx /\ s[1] <= field)
  <2>1. CASE field + 1 < inst.nf
    <3>1. field' = field + 1 /\ idx' = idx
      BY <1>1, <2>1 DEF Advance
    <3>2. QED
      BY <1>1, <1>2, <3>1 DEF Passed
  <2>2. CASE ~(field + 1 < inst.nf)
    <3>1. field' = 0 /\ idx' = idx + 1
      BY <1>1, <2>2 DEF Advance
    <3>2. s[2] < idx + 1 /\ s[1] < field + 1
      BY <1>1, <1>2, <2>2, <3>1 DEF Passed
    <3>3. QED
      BY <1>1, <1>2, <3>2
  <2>3. QED
    BY <2>1, <2>2
<1>4. s[2] < idx \/ (s[2] = idx /\ s[1] < field) \/ s = <<field, idx>>
  BY <1>1, <1>2, <1>3 DEF Slots
<1>5. QED
  BY <1>1, <1>4 DEF Passed, After

LEMMA PassedBySkip ==
  ASSUME TypeOK, PassInv, Skip, NEW s \in Targets(Issue), Passed(s)'
  PROVE  Passed(s)
<1>1. /\ Row = idx /\ Row' = idx + 1 /\ idx \notin Active(inst) /\ idx \in Nat
      /\ phase = "loop" /\ field' = field
  BY HereFacts DEF Skip, AtElement, Row, Elems
<1>2. field = 0 /\ Col' = 0
  BY <1>1 DEF PassInv, TypeOK, Col
<1>3. s[2] \in Nat /\ s[2] # idx /\ s[1] \in Nat
  BY <1>1, TargetFacts, SpaceAssumption DEF Slots, Elems
<1>4. QED
  BY <1>1, <1>2, <1>3 DEF Passed

\* As long as the index operand holds what it held at issue, the address is
\* the one that the access was issued for.
LEMMA AddressAsIssued ==
  ASSUME TypeOK, PassInv, DataInv, AtElement, ~OverwritesIndex(inst)
  PROVE  Offset = OffsetOf(inst, Contents, idx) /\ Here = Addr(<<field, idx>>)
<1>1. /\ phase = "loop" /\ Running /\ Row = idx /\ idx \in Elems /\ field \in Nat
  BY HereFacts DEF AtElement, Running, Row
<1>2. ASSUME field # 0
      PROVE  Offset = OffsetOf(inst, Contents, idx)
  BY <1>1, <1>2 DEF DataInv, Offset
<1>3. ASSUME field = 0
      PROVE  Offset = OffsetOf(inst, Contents, idx)
  <2>1. Offset = OffsetOf(inst, group, idx)
    BY <1>3 DEF Offset
  <2>2. CASE inst.mode = "indexed" /\ inst.overlap # None
    <3> DEFINE slot == <<inst.overlap, idx>>
    <3>1. slot \in Slots /\ slot[1] = inst.overlap /\ slot[2] = idx
      BY <1>1, <2>2, InstFacts DEF Slots
    <3>2. group[slot] = Contents[slot]
      <4>1. CASE inst.op = "store"
        BY <1>1, <4>1 DEF DataInv, StoreInv
      <4>2. CASE inst.op = "load"
        <5>1. inst.overlap + 1 >= inst.nf
          BY <2>2, <4>2, InstFacts DEF OverwritesIndex
        <5>2. slot \notin served
          BY <1>1, <2>2, <3>1, <5>1, InstFacts, SpaceAssumption DEF PassInv, Elems
        <5>3. QED
          BY <1>1, <3>1, <4>2, <5>2 DEF DataInv, LoadInv
      <4>3. QED
        BY <4>1, <4>2, InstFacts
    <3>3. QED
      BY <2>1, <2>2, <3>2 DEF OffsetOf
  <2>3. CASE ~(inst.mode = "indexed" /\ inst.overlap # None)
    BY <2>1, <2>3 DEF OffsetOf
  <2>4. QED
    BY <2>2, <2>3
<1>4. Offset = OffsetOf(inst, Contents, idx)
  BY <1>2, <1>3
<1>5. QED
  BY <1>4 DEF Here, Addr, AddressIn, Issue

\* A step that transfers nothing passes nothing.
LEMMA DataKept ==
  ASSUME DataInv, Running, UNCHANGED <<inst, issued, served, group, mem>>,
         \A s \in served : Passed(s)' => Passed(s),
         phase' = "loop" /\ field' > 0 =>
           phase = "loop" /\ field' = field /\ idx' = idx /\ offset' = offset
  PROVE  DataInv'
<1> SUFFICES ASSUME ~OverwritesIndex(inst)
             PROVE  /\ phase' = "loop" /\ field' > 0 => offset' = OffsetOf(inst, Contents, idx')
                    /\ inst.op = "load" => LoadInv'
                    /\ inst.op = "store" => StoreInv'
  BY DEF DataInv, OverwritesIndex, OffsetOf
<1>1. \A s : Addr(s)' = Addr(s)
  BY DEF Addr, AddressIn, Issue, Address, OffsetOf
<1>2. /\ phase = "loop" /\ field > 0 => offset = OffsetOf(inst, Contents, idx)
      /\ inst.op = "load" => LoadInv
      /\ inst.op = "store" => StoreInv
  BY DEF DataInv
<1>3. inst.op = "load" => LoadInv'
  BY <1>1, <1>2 DEF LoadInv
<1>4. inst.op = "store" => StoreInv'
  <2>1. ASSUME NEW x \in Addrs, Settled(x)
        PROVE  Settled(x)'
    BY <1>1, <2>1 DEF Settled, After
  <2>2. QED
    BY <1>2, <2>1 DEF StoreInv
<1>5. QED
  BY <1>2, <1>3, <1>4

LEMMA DataTransfer == TypeOK /\ PassInv /\ DataInv /\ Transfer => DataInv'
<1> SUFFICES ASSUME TypeOK, PassInv, DataInv, Transfer, ~OverwritesIndex(inst),
                    NEW here, here = <<field, idx>>
             PROVE  /\ field' > 0 => offset' = OffsetOf(inst, Contents, idx')
                    /\ inst.op = "load" => LoadInv'
                    /\ inst.op = "store" => StoreInv'
  BY DEF DataInv, OverwritesIndex, OffsetOf, Transfer
<1>1. /\ AtElement /\ Advance /\ Running /\ inst' = inst /\ issued' = issued
      /\ served' = served \cup {here}
  BY DEF Transfer, AtElement, Advance, Running
<1>2. here \in Slots /\ Here \in Addrs /\ field \in Nat
  BY <1>1, HereFacts
<1>3. Offset = OffsetOf(inst, Contents, idx) /\ Here = Addr(here)
  BY <1>1, AddressAsIssued
<1>4. \A s : Addr(s)' = Addr(s)
  BY <1>1 DEF Addr, AddressIn, Issue, Address, OffsetOf
<1>5. /\ inst.op = "load" => LoadInv
      /\ inst.op = "store" => StoreInv
  BY <1>1 DEF DataInv
<1>6. field' > 0 => offset' = OffsetOf(inst, Contents, idx')
  BY <1>1, <1>3 DEF Advance
<1>7. ASSUME inst.op = "load"
      PROVE  LoadInv'
  <2>1. group' = [group EXCEPT ![here] = mem[Here]] /\ mem' = mem
    BY <1>7 DEF Transfer
  <2>2. LoadInv /\ group \in [Slots -> Nat]
    BY <1>5, <1>7 DEF TypeOK
  <2>3. \A s \in Slots : group'[s] = IF s \in served' THEN Memory[Addr(s)] ELSE Contents[s]
    BY <1>1, <1>2, <1>3, <2>1, <2>2 DEF LoadInv
  <2>4. QED
    BY <1>4, <2>1, <2>2, <2>3 DEF LoadInv
<1>8. ASSUME inst.op = "store"
      PROVE  StoreInv'
  <2>1. StoreInv /\ mem \in [Addrs -> Nat]
    BY <1>5, <1>8 DEF TypeOK
  <2>2. mem' = [mem EXCEPT ![Here] = Contents[here]] /\ group' = Contents
    BY <1>8, <2>1 DEF Transfer, StoreInv
  <2>3. \A t \in served : Passed(t)' => t = here \/ (Passed(t) /\ After(here, t))
    BY PassedByTransfer DEF PassInv
  <2>4. ASSUME NEW x \in Addrs
        PROVE  Settled(x)'
    <3>1. CASE x = Here
      <4>1. here \in served' /\ Addr(here)' = x /\ mem'[x] = Contents[here]
        BY <1>1, <1>2, <1>3, <1>4, <2>1, <2>2, <3>1
      <4>2. \A t \in served' : Addr(t)' = x /\ Passed(t)' /\ t # here => After(here, t)
        BY <1>1, <2>3
      <4>3. QED
        BY <4>1, <4>2 DEF Settled, After
    <3>2. CASE x # Here
      <4>1. mem'[x] = mem[x] /\ Addr(here) # x
        BY <1>2, <1>3, <2>1, <2>2, <3>2
      <4>2. CASE mem[x] = Memory[x] /\ \A s \in served : Addr(s) # x
        BY <1>1, <1>4, <4>1, <4>2 DEF Settled
      <4>3. CASE \E s \in served :
                   /\ Addr(s) = x /\ mem[x] = Contents[s]
                   /\ \A t \in served : Addr(t) = x /\ Passed(t) /\ t # s => After(s, t)
        <5>1. PICK s \in served :
                /\ Addr(s) = x /\ mem[x] = Contents[s]
                /\ \A t \in served : Addr(t) = x /\ Passed(t) /\ t # s => After(s, t)
          BY <4>3
        <5>2. s \in served' /\ Addr(s)' = x /\ mem'[x] = Contents[s]
          BY <1>1, <1>4, <4>1, <5>1
        <5>3. \A t \in served' : Addr(t)' = x /\ Passed(t)' /\ t # s => After(s, t)
          BY <1>1, <1>4, <2>3, <4>1, <5>1
        <5>4. QED
          BY <5>2, <5>3 DEF Settled, After
      <4>4. QED
        BY <2>1, <4>2, <4>3 DEF StoreInv, Settled
    <3>3. QED
      BY <3>1, <3>2
  <2>5. QED
    BY <2>2, <2>4 DEF StoreInv
<1>9. QED
  BY <1>6, <1>7, <1>8

LEMMA DataNext == TypeOK /\ PassInv /\ DataInv /\ [Next]_vars => DataInv'
<1> SUFFICES ASSUME TypeOK, PassInv, DataInv, [Next]_vars PROVE DataInv'
  OBVIOUS
<1>1. CASE Begin
  <2>1. /\ Running /\ Row' = Row /\ Col' = Col /\ field' = 0
        /\ UNCHANGED <<inst, issued, served, group, mem>>
    BY <1>1 DEF Begin, Row, Col, Running, registers
  <2>2. QED
    BY <2>1, DataKept DEF Passed
<1>2. CASE Skip
  <2>1. /\ Running /\ UNCHANGED <<inst, issued, served, group, mem>>
        /\ field' = field /\ phase = "loop"
    BY <1>2 DEF Skip, AtElement, Running, registers
  <2>2. field' = 0
    BY <1>2, <2>1 DEF PassInv, Skip, TypeOK
  <2>3. \A s \in served : Passed(s)' => Passed(s)
    BY <1>2, PassedBySkip DEF PassInv
  <2>4. QED
    BY <2>1, <2>2, <2>3, DataKept
<1>3. CASE Fault
  <2>1. /\ Running /\ UNCHANGED <<inst, issued, served, group, mem>> /\ phase' = "trap"
        /\ Row' = Row /\ Col' = 0 /\ Col = field /\ field \in Nat
    BY <1>3, HereFacts DEF Fault, AtElement, Running, Row, Col
  <2>2. ASSUME NEW s \in served, Passed(s)'
        PROVE  Passed(s)
    <3>1. s[1] \in Nat
      BY TargetFacts, SpaceAssumption DEF PassInv, Slots
    <3>2. QED
      BY <2>1, <2>2, <3>1 DEF Passed
  <2>3. QED
    BY <2>1, <2>2, DataKept
<1>4. CASE Refuse \/ Retire \/ (Handler /\ phase' = "killed")
  BY <1>4 DEF Refuse, Retire, DataInv, Running
<1>5. CASE Handler /\ phase' # "killed"
  <2>1. /\ Running /\ UNCHANGED <<inst, issued, served, group, mem>> /\ phase' = "fetch"
        /\ Row' = Row /\ Col' = Col
    BY <1>5 DEF Handler, Running, Row, Col, registers
  <2>2. QED
    BY <2>1, DataKept DEF Passed
<1>6. CASE UNCHANGED vars
  <2>1. CASE Running
    <3>1. UNCHANGED <<phase, field, idx, offset, inst, issued, served, group, mem>>
          /\ Row' = Row /\ Col' = Col
      BY <1>6 DEF vars, Row, Col
    <3>2. QED
      BY <2>1, <3>1, DataKept DEF Passed
  <2>2. CASE ~Running
    BY <1>6, <2>2 DEF vars, Running, DataInv
  <2>3. QED
    BY <2>1, <2>2
<1>7. QED
  BY <1>1, <1>2, <1>3, <1>4, <1>5, <1>6, DataTransfer DEF Next, Step

-----------------------------------------------------------------------------
(* The invariant *)

LEMMA InvInit == Init => Inv
<1> SUFFICES ASSUME Init PROVE Inv
  OBVIOUS
<1>1. TypeOK
  BY TypeInit
<1>2. RecordInv
  BY DEF Init, RecordInv, ConservativeOtherwise, RecordConservative, StepEnded
<1>3. /\ phase = "fetch" /\ served = {} /\ Row = vstart /\ Col = 0 /\ issued = vstart
      /\ vstart \in Nat
  BY <1>1 DEF Init, Row, Col, TypeOK
<1>4. PassInv
  <2>1. \A s \in Targets(Issue) : ~Passed(s)
    BY <1>3, TargetFacts, SpaceAssumption DEF Passed, Slots, Elems
  <2>2. QED
    BY <1>3, <2>1 DEF PassInv
<1>5. DataInv
  BY <1>3 DEF Init, DataInv, LoadInv, StoreInv, Settled
<1>6. QED
  BY <1>1, <1>2, <1>4, <1>5 DEF Inv

LEMMA InvNext == Inv /\ [Next]_vars => Inv'
BY TypeNext, RecordNext, PassNext, DataNext DEF Inv

LEMMA Invariance == Spec => []Inv
BY InvInit, InvNext, PTL DEF Spec

\* Every reachable state is well typed: the loop and its resumptions stay in
\* the register groups, in memory and below the number of fields.
THEOREM TypeCorrect == Spec => []TypeOK
<1>1. Inv => TypeOK
  BY DEF Inv
<1>2. QED
  BY <1>1, Invariance, PTL

\* What a step of a vector access has changed when it ends, by a fault or not,
\* is in the trace buffer, but for the strided load without fields.
THEOREM RecordIsConservative == Spec => []ConservativeOtherwise
<1>1. Inv => ConservativeOtherwise
  BY DEF Inv, RecordInv
<1>2. QED
  BY <1>1, Invariance, PTL

\* However often an access without fields faults and is resumed, no element of
\* it is transferred twice.
THEOREM ElementsServedOnce == Spec => ServedOnce
<1>1. Inv /\ [Next]_vars =>
        [\A s \in Slots : inst.nf = 1 /\ s \in served => ~(Transfer /\ s = <<field, idx>>)]_vars
  <2> SUFFICES ASSUME Inv, Transfer, inst.nf = 1, <<field, idx>> \in served
               PROVE  FALSE
    BY Zenon
  <2>1. Row = idx /\ Running /\ idx \in Nat /\ field \in Nat
    BY HereFacts DEF Inv, Transfer, AtElement, Row, Running, Elems
  <2>2. idx < idx \/ field + 1 < 1
    BY <2>1 DEF Inv, PassInv
  <2>3. QED
    BY <2>1, <2>2
<1>2. QED
  BY <1>1, Invariance, PTL DEF Spec, ServedOnce

-----------------------------------------------------------------------------
(* The access as the program sees it *)

\* At the end of the loop everything was transferred.
LEMMA AllServed ==
  ASSUME Inv, Retire
  PROVE  served = Targets(Issue) /\ \A s \in Targets(Issue) : Passed(s)
<1>1. Running /\ Row = idx /\ idx >= Evl(inst) /\ idx \in Nat /\ Evl(inst) \in Nat
  BY InstFacts, SpaceAssumption DEF Inv, TypeOK, Retire, Running, Row
<1>2. ASSUME NEW s \in Targets(Issue)
      PROVE  Passed(s)
  <2>1. s[2] \in Nat /\ s[2] < Evl(inst)
    BY TargetFacts DEF Elems
  <2>2. QED
    BY <1>1, <2>1 DEF Passed
<1>3. QED
  BY <1>1, <1>2 DEF Inv, PassInv

LEMMA LoadedAll ==
  ASSUME Inv, Retire, ~OverwritesIndex(inst), inst.op = "load"
  PROVE  group = LoadResult(Issue, Contents, Memory) /\ mem = Memory
<1>1. LoadInv /\ group \in [Slots -> Nat]
  BY DEF Inv, DataInv, TypeOK, Retire, Running
<1>2. served = Targets(Issue)
  BY AllServed
<1>3. group = [s \in Slots |-> IF s \in Targets(Issue) THEN Memory[Addr(s)] ELSE Contents[s]]
  BY <1>1, <1>2 DEF LoadInv
<1>4. QED
  BY <1>1, <1>3 DEF LoadResult, LoadInv, Addr

LEMMA StoredAll ==
  ASSUME Inv, Retire, ~OverwritesIndex(inst), inst.op = "store"
  PROVE  mem = StoreResult(Issue, Contents, Memory) /\ group = Contents
<1>1. StoreInv /\ mem \in [Addrs -> Nat]
  BY DEF Inv, DataInv, TypeOK, Retire, Running
<1>2. served = Targets(Issue) /\ \A s \in Targets(Issue) : Passed(s)
  BY AllServed
<1> DEFINE Writers(x) == {s \in Targets(Issue) : AddressIn(Issue, Contents, s) = x}
           Last(x) == CHOOSE s \in Writers(x) : \A t \in Writers(x) \ {s} : After(s, t)
<1>3. ASSUME NEW x \in Addrs
      PROVE  mem[x] = IF Writers(x) = {} THEN Memory[x]
                      ELSE Contents[Last(x)]
  <2>1. Settled(x)
    BY <1>1 DEF StoreInv
  <2>2. CASE mem[x] = Memory[x] /\ \A s \in served : Addr(s) # x
    <3>1. Writers(x) = {}
      BY <1>2, <2>2 DEF Addr
    <3>2. QED
      BY <2>2, <3>1
  <2>3. CASE \E s \in served :
               /\ Addr(s) = x /\ mem[x] = Contents[s]
               /\ \A t \in served : Addr(t) = x /\ Passed(t) /\ t # s => After(s, t)
    <3>1. PICK s \in served :
            /\ Addr(s) = x /\ mem[x] = Contents[s]
            /\ \A t \in served : Addr(t) = x /\ Passed(t) /\ t # s => After(s, t)
      BY <2>3
    <3>2. s \in Writers(x) /\ \A t \in Writers(x) \ {s} : After(s, t)
      BY <1>2, <3>1 DEF Addr
    <3>3. Last(x) \in Writers(x) /\ \A t \in Writers(x) \ {Last(x)} : After(Last(x), t)
      BY <3>2
    <3>4. Last(x) = s
      <4>1. CASE Last(x) # s
        <5>1. After(s, Last(x)) /\ After(Last(x), s)
          BY <3>2, <3>3, <4>1
        <5>2. /\ s[1] \in Nat /\ s[2] \in Nat
              /\ Last(x)[1] \in Nat /\ Last(x)[2] \in Nat
          BY <3>2, <3>3, TargetFacts, SpaceAssumption DEF Slots, Elems
        <5> HIDE DEF Last
        <5>3. QED
          BY <5>1, <5>2 DEF After
      <4>2. QED
        BY <4>1
    <3> HIDE DEF Last
    <3>5. QED
      BY <3>1, <3>2, <3>4
  <2>4. QED
    BY <2>1, <2>2, <2>3 DEF Settled
<1> HIDE DEF Last
<1>4. mem = [x \in Addrs |-> IF Writers(x) = {} THEN Memory[x]
                           ELSE Contents[Last(x)]]
  BY <1>1, <1>3
<1>5. QED
  BY <1>1, <1>4 DEF StoreResult, StoreInv, Last

\* A vector access is atomic, faults, handlers and resumptions included, but
\* for the indexed segment load that overwrites its own index operand.
THEOREM AccessIsAtomic == Spec => AtomicOtherwise
<1>1. Init => Access!Init
  BY DEF Init, Access!Init
<1>2. Inv /\ [Next]_vars => [OverwritesIndex(inst) \/ Access!Transfer]_(Access!vars)
  <2> SUFFICES ASSUME Inv, [Next]_vars, ~OverwritesIndex(inst)
               PROVE  Access!Transfer \/ UNCHANGED Access!vars
    OBVIOUS
  <2>1. CASE Retire
    <3>1. /\ phase # "retired" /\ phase' = "retired" /\ inst' = inst /\ issued' = issued
          /\ group' = group /\ mem' = mem
      BY <2>1 DEF Retire
    <3>2. inst.op \in {"load", "store"}
      BY InstFacts DEF Inv
    <3>3. CASE inst.op = "load"
      <4>1. group = LoadResult(Issue, Contents, Memory) /\ mem = Memory
        BY <2>1, <3>3, LoadedAll
      <4>2. Access!Load
        BY <3>1, <3>3, <4>1 DEF Access!Load, IsLoad, Issue
      <4>3. QED
        BY <3>1, <4>2 DEF Access!Transfer
    <3>4. CASE inst.op = "store"
      <4>1. mem = StoreResult(Issue, Contents, Memory) /\ group = Contents
        BY <2>1, <3>4, StoredAll
      <4>2. Access!Store
        BY <3>1, <3>4, <4>1 DEF Access!Store, IsLoad, Issue
      <4>3. QED
        BY <3>1, <4>2 DEF Access!Transfer
    <3>5. QED
      BY <3>2, <3>3, <3>4
  <2>2. CASE Begin \/ Refuse \/ Skip \/ Transfer \/ Fault \/ Handler
    <3>1. /\ phase # "retired" /\ phase' # "retired" /\ inst' = inst /\ issued' = issued
      BY <2>2 DEF Begin, Refuse, Skip, Transfer, Fault, Handler, AtElement
    <3>2. QED
      BY <3>1 DEF Access!vars
  <2>3. CASE UNCHANGED vars
    BY <2>3 DEF vars, Access!vars
  <2>4. QED
    BY <2>1, <2>2, <2>3 DEF Next, Step
<1>3. QED
  BY <1>1, <1>2, Invariance, PTL DEF Spec, AtomicOtherwise
=============================================================================
