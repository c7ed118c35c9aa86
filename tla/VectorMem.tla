----------------------------- MODULE VectorMem -----------------------------
(***************************************************************************)
(* A vector load or store from its issue to its retirement: the element    *)
(* loop of rv_vmem, the memory faults that leave it with vstart at the     *)
(* faulting element, the guest's handler, and the resumption from vstart.  *)
(*                                                                         *)
(* Registers and memory are counted in elements.  The destination and the  *)
(* index operand are of one element width, which is the only case in which *)
(* the code lets them overlap, and then they are the same registers or     *)
(* none in common (module VectorConfig has the widths).  Alignment faults  *)
(* are addresses that no handler repairs.                                  *)
(***************************************************************************)
EXTENDS Integers

CONSTANTS
  Space,       \* size of the address space in elements; addresses wrap
  MaxVl,       \* elements of a register group
  MaxNf,       \* fields of a segment
  Insts,       \* the instructions a behaviour may be about
  VStarts,     \* values of vstart an instruction is issued with
  Contents,    \* the data register groups at issue
  Index,       \* the index register group, when it is not a data group
  Memory,      \* memory at issue
  Mapped,      \* sets of addresses that are accessible at issue
  Repairable   \* addresses that the guest's handler can make accessible

Addrs == 0 .. Space - 1
Elems == 0 .. MaxVl - 1
Slots == (0 .. MaxNf - 1) \X Elems    \* an element of a field
None == -1                            \* no overlap

InstType ==
  [op : {"load", "store"},
   mode : {"unit", "strided", "indexed", "whole", "mask"},
   nf : 1 .. MaxNf,
   vl : 0 .. 8 * MaxVl,      \* VL; for "whole" the length of the registers
   active : SUBSET Elems,    \* v0, or everything when unmasked
   base : Nat,
   stride : Nat,
   overlap : {None} \cup 0 .. MaxNf - 1]  \* the field that is the index operand

ASSUME SpaceAssumption == Space \in Nat \ {0} /\ MaxVl \in Nat /\ MaxNf \in Nat \ {0}
ASSUME InstAssumption ==
  /\ Insts \subseteq InstType
  /\ VStarts \subseteq Nat
  /\ \A inst \in Insts : inst.mode # "mask" => inst.vl <= MaxVl
ASSUME DataAssumption ==
  /\ Contents \in [Slots -> Nat]
  /\ Index \in [Elems -> Nat]
  /\ Memory \in [Addrs -> Nat]
  /\ Mapped \subseteq SUBSET Addrs
  /\ Repairable \subseteq Addrs

VARIABLES
  inst,       \* the instruction
  phase,      \* "fetch", "loop", "trap", or how it ended
  idx,        \* the loop counters
  field,
  offset,     \* the segment's offset, read once per element
  group,      \* data registers
  mem,        \* memory
  reachable,  \* the addresses that do not fault
  vstart,     \* VSTART
  dirty,      \* mstatus.VS = '11'
  log,        \* what this step put in the trace buffer
  issued,     \* history: vstart when the program issued the instruction
  before,     \* history: registers at the beginning of this step
  served      \* history: the accesses made for this instruction

vars == <<inst, phase, idx, field, offset, group, mem, reachable, vstart, dirty,
          log, issued, before, served>>
loopVars == <<idx, field, offset>>
registers == <<group, vstart, dirty>>

\* The trip count of the loop; vlm.v and vsm.v count bytes of mask.
Evl(k) == IF k.mode = "mask" THEN (k.vl + 7) \div 8 ELSE k.vl
Active(k) == IF k.mode \in {"whole", "mask"} THEN Elems ELSE k.active

\* The offset of element i when the data registers hold g.
OffsetOf(k, g, i) ==
  CASE k.mode = "strided" -> i * k.stride
    [] k.mode = "indexed" -> IF k.overlap = None THEN Index[i] ELSE g[<<k.overlap, i>>]
    [] OTHER -> i * k.nf

Address(k, off, j) == (k.base + off + j) % Space

TypeOK ==
  /\ inst \in Insts
  /\ phase \in {"fetch", "loop", "trap", "retired", "illegal", "killed"}
  /\ idx \in 0 .. MaxVl
  /\ field \in 0 .. MaxNf - 1
  /\ offset \in Nat
  /\ group \in [Slots -> Nat]
  /\ mem \in [Addrs -> Nat]
  /\ reachable \subseteq Addrs
  /\ vstart \in Nat
  /\ dirty \in BOOLEAN
  /\ log \subseteq {"vreg", "vstart", "mstatus"}
  /\ issued \in VStarts
  /\ before \in [group : [Slots -> Nat], vstart : Nat, dirty : BOOLEAN]
  /\ served \subseteq Slots

Init ==
  /\ inst \in Insts
  /\ phase = "fetch"
  /\ idx = 0 /\ field = 0 /\ offset = 0
  /\ group = Contents
  /\ mem = Memory
  /\ reachable \in Mapped
  /\ vstart \in VStarts
  /\ dirty \in BOOLEAN
  /\ log = {}
  /\ issued = vstart
  /\ before = [group |-> group, vstart |-> vstart, dirty |-> dirty]
  /\ served = {}

-----------------------------------------------------------------------------
(* The instruction: Execute_VLE8_V and its relatives *)

Begin ==
  /\ phase = "fetch"
  /\ vstart <= Evl(inst)
  /\ phase' = "loop"
  /\ idx' = vstart /\ field' = 0 /\ UNCHANGED offset
  /\ log' = {}
  /\ before' = [group |-> group, vstart |-> vstart, dirty |-> dirty]
  /\ UNCHANGED <<inst, registers, mem, reachable, issued, served>>

Refuse ==
  /\ phase = "fetch"
  /\ vstart > Evl(inst)
  /\ phase' = "illegal"
  /\ log' = {}
  /\ before' = [group |-> group, vstart |-> vstart, dirty |-> dirty]
  /\ UNCHANGED <<inst, loopVars, registers, mem, reachable, issued, served>>

AtElement == phase = "loop" /\ idx < Evl(inst)

\* An inactive element
Skip ==
  /\ AtElement
  /\ idx \notin Active(inst)
  /\ idx' = idx + 1
  /\ UNCHANGED <<inst, phase, field, offset, registers, mem, reachable, log,
                 issued, before, served>>

Offset == IF field = 0 THEN OffsetOf(inst, group, idx) ELSE offset
Here == Address(inst, Offset, field)

\* Mutant of Advance: the loop over the fields runs once more.
AdvanceOneMore ==
  /\ offset' = Offset
  /\ IF field < inst.nf
     THEN field' = field + 1 /\ UNCHANGED idx
     ELSE field' = 0 /\ idx' = idx + 1
  /\ served' = served \cup {<<field, idx>>}

Advance ==
  /\ offset' = Offset
  /\ IF field + 1 < inst.nf
     THEN field' = field + 1 /\ UNCHANGED idx
     ELSE field' = 0 /\ idx' = idx + 1
  /\ served' = served \cup {<<field, idx>>}

Transfer ==
  /\ AtElement
  /\ idx \in Active(inst)
  /\ Here \in reachable
  /\ Advance
  /\ IF inst.op = "load"
     THEN group' = [group EXCEPT ![<<field, idx>>] = mem[Here]] /\ UNCHANGED mem
     ELSE mem' = [mem EXCEPT ![Here] = group[<<field, idx>>]] /\ UNCHANGED group
  /\ UNCHANGED <<inst, phase, reachable, vstart, dirty, log, issued, before>>

\* Every load template but that of the strided load without fields logs its
\* destination before it returns a fault.
LogsOnFault(k) == k.op = "load" /\ ~(k.mode = "strided" /\ k.nf = 1)

\* Mutants of Fault: vstart is not written; it names the next element; the
\* registers loaded so far are not logged.
FaultForgetsElement ==
  /\ AtElement /\ idx \in Active(inst) /\ Here \notin reachable
  /\ phase' = "trap" /\ log' = IF LogsOnFault(inst) THEN {"vreg"} ELSE {}
  /\ UNCHANGED <<inst, loopVars, registers, mem, reachable, issued, before, served>>

FaultSkipsElement ==
  /\ AtElement /\ idx \in Active(inst) /\ Here \notin reachable
  /\ vstart' = idx + 1
  /\ phase' = "trap" /\ log' = {"vstart"} \cup (IF LogsOnFault(inst) THEN {"vreg"} ELSE {})
  /\ UNCHANGED <<inst, loopVars, group, dirty, mem, reachable, issued, before, served>>

FaultLogsNothing ==
  /\ AtElement /\ idx \in Active(inst) /\ Here \notin reachable
  /\ vstart' = idx
  /\ phase' = "trap" /\ log' = {"vstart"}
  /\ UNCHANGED <<inst, loopVars, group, dirty, mem, reachable, issued, before, served>>

\* The access fails: vectorInterrupt(idx), and the step raises the exception.
Fault ==
  /\ AtElement
  /\ idx \in Active(inst)
  /\ Here \notin reachable
  /\ vstart' = idx
  /\ log' = {"vstart"} \cup (IF LogsOnFault(inst) THEN {"vreg"} ELSE {})
  /\ phase' = "trap"
  /\ UNCHANGED <<inst, loopVars, group, dirty, mem, reachable, issued, before, served>>

\* logWrite_VREG and makeDirty_VS for a load, and clear_VSTART.
Retire ==
  /\ phase = "loop"
  /\ idx >= Evl(inst)
  /\ phase' = "retired"
  /\ vstart' = 0
  /\ dirty' = (dirty \/ inst.op = "load")
  /\ log' = (IF inst.op = "load" THEN {"vreg", "mstatus"} ELSE {})
            \cup (IF vstart # 0 THEN {"vstart"} ELSE {})
  /\ UNCHANGED <<inst, loopVars, group, mem, reachable, issued, before, served>>

\* The guest's handler makes the faulting address accessible, perhaps at the
\* expense of another one, and returns to the instruction with mret; or it
\* cannot, and gives the program up.
Handler ==
  /\ phase = "trap"
  /\ \/ /\ Here \in Repairable
        /\ \/ reachable' = reachable \cup {Here}
           \/ \E victim \in reachable : reachable' = (reachable \cup {Here}) \ {victim}
        /\ phase' = "fetch"
     \/ /\ Here \notin Repairable
        /\ phase' = "killed"
        /\ UNCHANGED reachable
  /\ UNCHANGED <<inst, loopVars, registers, mem, log, issued, before, served>>

Step == Begin \/ Refuse \/ Skip \/ Transfer \/ Fault \/ Retire
Next == Step \/ Handler

\* The run loop keeps stepping the hart, and the guest's handler returns.
Fairness == WF_vars(Step) /\ WF_vars(Handler)

Spec == Init /\ [][Next]_vars /\ Fairness

-----------------------------------------------------------------------------
(* Properties *)

\* An access is an instruction and the vstart it was issued with.
\* The elements it is to transfer:
Body(a) == {i \in Elems : a.from <= i /\ i < Evl(a.inst) /\ i \in Active(a.inst)}
Targets(a) == {s \in Slots : s[1] < a.inst.nf /\ s[2] \in Body(a)}
AddressIn(a, g, s) == Address(a.inst, OffsetOf(a.inst, g, s[2]), s[1])

IsLoad(a) == a.inst.op = "load"

LoadResult(a, g, m) ==
  [s \in Slots |-> IF s \in Targets(a) THEN m[AddressIn(a, g, s)] ELSE g[s]]

\* In element order, the last store to an address stays.
After(s, t) == t[2] < s[2] \/ (t[2] = s[2] /\ t[1] < s[1])
StoreResult(a, g, m) ==
  [x \in Addrs |->
    LET writers == {s \in Targets(a) : AddressIn(a, g, s) = x} IN
    IF writers = {} THEN m[x]
    ELSE g[CHOOSE s \in writers : \A t \in writers \ {s} : After(s, t)]]

\* The data groups and memory as the program sees them before and after.
Access == INSTANCE VectorAccess WITH
  access <- [inst |-> inst, from |-> issued],
  regs <- IF phase = "retired" THEN group ELSE Contents,
  memory <- IF phase = "retired" THEN mem ELSE Memory,
  retired <- phase = "retired",
  IsLoad <- IsLoad,
  LoadResult <- LoadResult,
  StoreResult <- StoreResult

\* An indexed segment load whose index operand is a field that is written
\* before another field of the same element is read.
OverwritesIndex(k) ==
  k.op = "load" /\ k.mode = "indexed" /\ k.overlap # None /\ k.overlap + 1 < k.nf

\* "this instruction supports non-zero vstart" and "overlap with sew == eewi
\* is always legal" (vloxei.asl.j2): however often the access faults and is
\* resumed, the program sees it happen once and completely.
ResumedIsAtomic == Access!Spec

\* The same where the load does not overwrite its own index operand: a load
\* that retires has loaded all its active elements and left memory alone, a
\* store has stored all of them and left the registers alone.
AtomicOtherwise ==
  Access!Init /\ [][OverwritesIndex(inst) \/ Access!Transfer]_(Access!vars)

\* An access without fields transfers no element twice, so that a device
\* behind the bus sees each of its elements once: the resumption starts at
\* the element that faulted, not before it (vectorInterrupt).
ServedOnce ==
  [][\A s \in Slots : inst.nf = 1 /\ s \in served =>
       ~(Transfer /\ s = <<field, idx>>)]_vars

StepEnded == phase \in {"trap", "retired", "illegal"}

\* "Record which registers may be written during step_trace. The record is
\* conservative" (pokedex_interface.h): at the end of a step, what differs
\* from its beginning is in the trace buffer.
RecordConservative ==
  StepEnded => /\ group # before.group => "vreg" \in log
               /\ vstart # before.vstart => "vstart" \in log
               /\ dirty # before.dirty => "mstatus" \in log

\* The same for every access but the strided load without fields.
ConservativeOtherwise ==
  ~(inst.op = "load" /\ inst.mode = "strided" /\ inst.nf = 1) => RecordConservative

\* An access without fields comes to an end even if the handler makes room
\* for each address by taking another one away: a resumption never repeats
\* what it has behind it (vstart, and the loop that starts from it).
Ends == phase \in {"retired", "illegal", "killed"}
ProgressUnderEviction == inst.nf = 1 => <>Ends
=============================================================================
