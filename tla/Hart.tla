-------------------------------- MODULE Hart --------------------------------
(***************************************************************************)
(* The control part of the ASL hart: one Step() of step.asl per action.    *)
(* A step either takes an interrupt, faults while fetching one of the two  *)
(* halves of the instruction at pc, or executes that instruction, which    *)
(* retires, jumps or raises an exception.                                  *)
(*                                                                         *)
(* Register and memory contents are data: an instruction word, a source    *)
(* register and the result of a CSR read are chosen nondeterministically   *)
(* from constant sets.  What is kept of a register write is that it        *)
(* happened, in the trace record that the FFI hooks fill.  The vector and  *)
(* floating-point fields of mstatus are in module ExtContext.              *)
(***************************************************************************)
EXTENDS Integers

CONSTANTS
  XBytes,     \* size of the address space, 2^32 in the code; addresses wrap
  ResetPcs,   \* initial program counters
  Fetchable,  \* halfword addresses where inst_fetch_2 succeeds
  Words,      \* register values a program hands to jumps and CSR writes
  Offsets,    \* branch and jump offsets, always even
  DataAddrs,  \* effective addresses of loads, stores and AMOs
  Readable,   \* data addresses where a read succeeds
  Writable,   \* data addresses where a write succeeds
  BadInsts,   \* illegal instruction words
  IrqLines    \* the line states {} .. {"MTIP", "MEIP"} the platform can show

Addrs == 0 .. XBytes - 1

ASSUME XBytesAssumption == XBytes \in Nat /\ XBytes > 3 /\ XBytes % 4 = 0
ASSUME CodeAssumption == /\ ResetPcs \subseteq {a \in Addrs : a % 2 = 0}
                         /\ Fetchable \subseteq Addrs
                         /\ Words \subseteq Addrs
                         /\ \A o \in Offsets : o \in Int /\ o % 2 = 0
ASSUME DataAssumption == /\ DataAddrs \subseteq Addrs
                         /\ Readable \subseteq Addrs
                         /\ Writable \subseteq Addrs
                         /\ BadInsts \subseteq Addrs
ASSUME IrqAssumption == IrqLines \subseteq SUBSET {"MTIP", "MEIP"}

VARIABLES
  pc,      \* __PC
  mepc,    \* __MEPC
  mcause,  \* MCAUSE: interrupt bit and code
  mtval,   \* MTVAL
  mtvec,   \* MTVEC_BASE (as a byte address) and MTVEC_MODE
  mie,     \* MSTATUS_MIE
  mpie,    \* MSTATUS_MPIE
  enabled, \* the lines whose bit is set in the mie CSR (MTIE, MEIE)
  trace,   \* what the last step left in the trace buffer
  halt,    \* "none", or the assertion that stopped the process
  frame    \* history: the context the innermost trap interrupted, while
           \* mepc and mstatus still are as the trap left them

vars == <<pc, mepc, mcause, mtval, mtvec, mie, mpie, enabled, trace, halt, frame>>
trapVars == <<mepc, mcause, mtval, mie, mpie, frame>>

NoFrame == [valid |-> FALSE, pc |-> 0, mie |-> FALSE]
Frame(p, ie) == [valid |-> TRUE, pc |-> p, mie |-> ie]

\* x0 and one representative of x1..x31: a write to x0 is not a write.
RegIdx == {0, 1}
WriteX(rd) == {rd} \ {0}

CsrNames == {"mstatus", "mie", "mtvec", "mscratch", "mepc", "mcause",
             "mip", "mhartid", "absent"}
ReadOnlyCsrs == {"mhartid"}
\* The registers that WriteCSR accepts and leaves alone (mip, misa, mstatush).
IgnoredCsrs == {"mip"}

Xcpt == [fetch |-> 1, illegal |-> 2, breakpoint |-> 3, misalignedLoad |-> 4,
         loadAccess |-> 5, misalignedStore |-> 6, storeAccess |-> 7, ecall |-> 11]
Intr == [MTIP |-> 7, MEIP |-> 11]

CommitCodes == {"INST_COMMIT", "C_COMMIT"}
TrapCodes == {"FETCH_XCPT", "INST_XCPT", "C_XCPT", "INTERRUPT"}
InstKinds == {"none", "alu", "jump", "load", "store", "amo", "lrsc", "system",
              "illegal", "mret", "csr"}

TypeOK ==
  /\ pc \in Addrs
  /\ mepc \in Addrs
  /\ mcause \in [interrupt : BOOLEAN, code : Nat]
  /\ mtval \in Addrs
  /\ mtvec \in [base : Addrs, vectored : BOOLEAN]
  /\ mie \in BOOLEAN
  /\ mpie \in BOOLEAN
  /\ enabled \subseteq {"MTIP", "MEIP"}
  /\ trace \in [code : CommitCodes \cup TrapCodes \cup {"NONE"}, inst : InstKinds,
                xregs : SUBSET RegIdx, csrs : SUBSET CsrNames]
  /\ halt \in {"none", "odd_pc", "lr_sc"}
  /\ frame \in [valid : BOOLEAN, pc : Addrs, mie : BOOLEAN]

\* ASL_ResetState followed by the write of the initial pc (model_reset).
Init ==
  /\ pc \in ResetPcs
  /\ mepc = 0
  /\ mcause = [interrupt |-> FALSE, code |-> 0]
  /\ mtval = 0
  /\ mtvec = [base |-> 0, vectored |-> TRUE]
  /\ mie = FALSE
  /\ mpie = FALSE
  /\ enabled = {}
  /\ trace = [code |-> "NONE", inst |-> "none", xregs |-> {}, csrs |-> {}]
  /\ halt = "none"
  /\ frame = NoFrame

-----------------------------------------------------------------------------
(* Traps *)

Log(code, inst, xregs, csrs) ==
  trace' = [code |-> code, inst |-> inst, xregs |-> xregs, csrs |-> csrs]

\* Mutants of EnterTrap: the enable is cleared before it is saved; it stays set.
EnterTrapSavesCleared(cause) ==
  /\ mepc' = pc /\ mcause' = cause /\ mpie' = FALSE /\ mie' = FALSE
  /\ frame' = Frame(pc, mie) /\ UNCHANGED <<mtvec, enabled, halt>>

EnterTrapKeepsEnable(cause) ==
  /\ mepc' = pc /\ mcause' = cause /\ mpie' = mie /\ mie' = mie
  /\ frame' = Frame(pc, mie) /\ UNCHANGED <<mtvec, enabled, halt>>

\* What TrapInterrupt and handleException have in common.  Neither calls an
\* FFI hook: the trap's own CSR writes leave no record.
EnterTrap(cause) ==
  /\ mepc' = pc
  /\ mcause' = cause
  /\ mpie' = mie
  /\ mie' = FALSE
  /\ frame' = Frame(pc, mie)
  /\ UNCHANGED <<mtvec, enabled, halt>>

\* handleException: the trap value is the instruction for an illegal
\* instruction, the faulting address for memory, and zero otherwise; the
\* handler is always at the base, whatever the mode.
Raise(code, inst, cause, tval) ==
  /\ EnterTrap([interrupt |-> FALSE, code |-> cause])
  /\ mtval' = tval
  /\ pc' = mtvec.base
  /\ Log(code, inst, {}, {})

\* Mutant of TrapInterrupt: the vector does not wrap around the address space.
TrapInterruptNoWrap(line) ==
  /\ EnterTrap([interrupt |-> TRUE, code |-> Intr[line]])
  /\ pc' = IF mtvec.vectored THEN mtvec.base + 4 * Intr[line] ELSE mtvec.base
  /\ Log("INTERRUPT", "none", {}, {})
  /\ UNCHANGED mtval

\* TrapInterrupt: mtval is left alone, and the vectored mode applies.
TrapInterrupt(line) ==
  /\ EnterTrap([interrupt |-> TRUE, code |-> Intr[line]])
  /\ pc' = IF mtvec.vectored THEN (mtvec.base + 4 * Intr[line]) % XBytes ELSE mtvec.base
  /\ Log("INTERRUPT", "none", {}, {})
  /\ UNCHANGED mtval

\* CheckInterrupt: the timer line is looked at first.
Taken(lines) ==
  IF ~mie THEN {}
  ELSE IF "MTIP" \in lines \cap enabled THEN {"MTIP"}
  ELSE lines \cap enabled

TakeInterrupt ==
  /\ halt = "none"
  /\ \E lines \in IrqLines : \E line \in Taken(lines) : TrapInterrupt(line)

\* The guard of every other step: this step's CheckInterrupt found nothing.
NoInterrupt ==
  /\ halt = "none"
  /\ \E lines \in IrqLines : Taken(lines) = {}

Half(n) == (pc + n) % XBytes

\* Mutant of FetchFault: either half blames the address of the instruction.
FetchFaultBlamesPc ==
  /\ NoInterrupt
  /\ ~(Half(0) \in Fetchable /\ Half(2) \in Fetchable)
  /\ Raise("FETCH_XCPT", "none", Xcpt.fetch, pc)

FetchFault ==
  /\ NoInterrupt
  /\ \/ /\ Half(0) \notin Fetchable
        /\ Raise("FETCH_XCPT", "none", Xcpt.fetch, pc)
     \/ /\ Half(0) \in Fetchable
        /\ Half(2) \notin Fetchable
        /\ Raise("FETCH_XCPT", "none", Xcpt.fetch, Half(2))

-----------------------------------------------------------------------------
(* Executing the fetched instruction, of 2 or 4 bytes *)

Fetched(len) ==
  /\ NoInterrupt
  /\ Half(0) \in Fetchable
  /\ len = 4 => Half(2) \in Fetchable

CommitCode(len) == IF len = 4 THEN "INST_COMMIT" ELSE "C_COMMIT"
XcptCode(len) == IF len = 4 THEN "INST_XCPT" ELSE "C_XCPT"

\* The setter PC[]: an odd address fails its assertion, which ends the process.
SetPC(target) ==
  IF target % 2 = 0
  THEN pc' = target /\ UNCHANGED halt
  ELSE halt' = "odd_pc" /\ UNCHANGED pc

Retire(len, inst, xregs, csrs) ==
  /\ SetPC(Half(len))
  /\ Log(CommitCode(len), inst, xregs, csrs)

\* A jump; with an odd target the process ends before the step is recorded.
Jump(len, target, xregs) ==
  /\ SetPC(target)
  /\ IF target % 2 = 0 THEN Log(CommitCode(len), "jump", xregs, {}) ELSE UNCHANGED trace
  /\ UNCHANGED <<trapVars, mtvec, enabled>>

\* Register arithmetic, lui, auipc, fences, wfi, moves and compressed forms.
Alu ==
  \E len \in {2, 4}, rd \in RegIdx :
    /\ Fetched(len)
    /\ Retire(len, "alu", WriteX(rd), {})
    /\ UNCHANGED <<trapVars, mtvec, enabled>>

\* beq .. bgeu, c.beqz, c.bnez: not taken they fall through.
Branch ==
  \E len \in {2, 4}, off \in Offsets :
    /\ Fetched(len)
    /\ \/ Jump(len, (pc + off) % XBytes, {})
       \/ Jump(len, Half(len), {})

\* jal links rd, c.jal links x1, c.j links nothing (as rd = 0).
Jal ==
  \E len \in {2, 4}, off \in Offsets, rd \in RegIdx :
    /\ Fetched(len)
    /\ Jump(len, (pc + off) % XBytes, WriteX(rd))

\* jalr clears the least significant bit of its target.
Jalr ==
  \E target \in Words, rd \in RegIdx :
    /\ Fetched(4)
    /\ Jump(4, target - (target % 2), WriteX(rd))

\* c.jr and c.jalr assign X[rs1] to PC as it is.
CJumpRegister ==
  \E target \in Words, rd \in RegIdx :
    /\ Fetched(2)
    /\ Jump(2, target, WriteX(rd))

\* ReadMemory: width bytes, misalignment first, then the bus.
Load ==
  \E len \in {2, 4}, width \in {1, 2, 4}, addr \in DataAddrs, rd \in RegIdx :
    /\ Fetched(len)
    /\ len = 2 => width = 4
    /\ \/ /\ addr % width # 0
          /\ Raise(XcptCode(len), "load", Xcpt.misalignedLoad, addr)
       \/ /\ addr % width = 0
          /\ addr \notin Readable
          /\ Raise(XcptCode(len), "load", Xcpt.loadAccess, addr)
       \/ /\ addr % width = 0
          /\ addr \in Readable
          /\ Retire(len, "load", WriteX(rd), {})
          /\ UNCHANGED <<trapVars, mtvec, enabled>>

\* Mutant of Store: a failed write is reported as a load access fault.
StoreWrongCause ==
  \E addr \in DataAddrs \ Writable :
    Fetched(4) /\ Raise("INST_XCPT", "store", Xcpt.loadAccess, addr)

\* WriteMemory, likewise.
Store ==
  \E len \in {2, 4}, width \in {1, 2, 4}, addr \in DataAddrs :
    /\ Fetched(len)
    /\ len = 2 => width = 4
    /\ \/ /\ addr % width # 0
          /\ Raise(XcptCode(len), "store", Xcpt.misalignedStore, addr)
       \/ /\ addr % width = 0
          /\ addr \notin Writable
          /\ Raise(XcptCode(len), "store", Xcpt.storeAccess, addr)
       \/ /\ addr % width = 0
          /\ addr \in Writable
          /\ Retire(len, "store", {}, {})
          /\ UNCHANGED <<trapVars, mtvec, enabled>>

\* amoswap.w .. amominu.w: a misaligned AMO is an access fault.
Amo ==
  \E addr \in DataAddrs, rd \in RegIdx :
    /\ Fetched(4)
    /\ \/ /\ addr % 4 # 0 \/ addr \notin Readable \cap Writable
          /\ Raise("INST_XCPT", "amo", Xcpt.storeAccess, addr)
       \/ /\ addr % 4 = 0
          /\ addr \in Readable \cap Writable
          /\ Retire(4, "amo", WriteX(rd), {})
          /\ UNCHANGED <<trapVars, mtvec, enabled>>

\* lr.w and sc.w: aligned ones reach an FFI function that only asserts FALSE.
LrSc ==
  \E addr \in DataAddrs, cause \in {Xcpt.loadAccess, Xcpt.storeAccess} :
    /\ Fetched(4)
    /\ \/ addr % 4 # 0 /\ Raise("INST_XCPT", "lrsc", cause, addr)
       \/ /\ addr % 4 = 0
          /\ halt' = "lr_sc"
          /\ UNCHANGED <<pc, trapVars, mtvec, enabled, trace>>

\* ecall and (c.)ebreak
Environment ==
  \/ Fetched(4) /\ Raise("INST_XCPT", "system", Xcpt.ecall, 0)
  \/ \E len \in {2, 4} : Fetched(len) /\ Raise(XcptCode(len), "system", Xcpt.breakpoint, 0)

Illegal ==
  \E len \in {2, 4}, inst \in BadInsts :
    /\ Fetched(len)
    /\ Raise(XcptCode(len), "illegal", Xcpt.illegal, inst)

\* Mutant of Mret: MPIE is set before it is copied to MIE.
MretSetsFirst ==
  /\ Fetched(4) /\ SetPC(mepc) /\ mie' = TRUE /\ mpie' = TRUE /\ frame' = NoFrame
  /\ Log("INST_COMMIT", "mret", {}, {"mstatus"})
  /\ UNCHANGED <<mepc, mcause, mtval, mtvec, enabled>>

Mret ==
  /\ Fetched(4)
  /\ SetPC(mepc)
  /\ mie' = mpie
  /\ mpie' = TRUE
  /\ frame' = NoFrame
  /\ Log("INST_COMMIT", "mret", {}, {"mstatus"})
  /\ UNCHANGED <<mepc, mcause, mtval, mtvec, enabled>>

-----------------------------------------------------------------------------
(* Zicsr.  csrrw and csrrwi always write and read when rd # x0; csrrs and  *)
(* csrrc (and the immediate forms) always read and write when rs1 # x0.    *)

CsrForms == [reads : BOOLEAN, writes : BOOLEAN, rd : RegIdx]
LegalForm(f) == \/ f.writes /\ (f.reads <=> f.rd # 0)
                \/ f.reads

\* ReadCSR and WriteCSR fall to their otherwise branch.
CsrIllegal(csr, f) ==
  \/ f.reads /\ csr = "absent"
  \/ f.writes /\ csr \in {"absent"} \cup ReadOnlyCsrs

\* Mutant of CsrRefused: rd is written before the write of the CSR is refused.
CsrRefusedAfterRead ==
  \E csr \in CsrNames, f \in CsrForms, inst \in BadInsts :
    /\ Fetched(4) /\ LegalForm(f) /\ CsrIllegal(csr, f)
    /\ EnterTrap([interrupt |-> FALSE, code |-> Xcpt.illegal])
    /\ mtval' = inst /\ pc' = mtvec.base
    /\ Log("INST_XCPT", "csr", IF csr = "absent" THEN {} ELSE WriteX(f.rd), {})

CsrRefused ==
  \E csr \in CsrNames, f \in CsrForms, inst \in BadInsts :
    /\ Fetched(4)
    /\ LegalForm(f)
    /\ CsrIllegal(csr, f)
    /\ Raise("INST_XCPT", "csr", Xcpt.illegal, inst)

\* A read, or a write that WriteCSR accepts and ignores.
CsrRead ==
  \E csr \in CsrNames, f \in CsrForms :
    /\ Fetched(4)
    /\ LegalForm(f)
    /\ ~CsrIllegal(csr, f)
    /\ f.writes => csr \in IgnoredCsrs
    /\ Retire(4, "csr", WriteX(f.rd), {})
    /\ UNCHANGED <<trapVars, mtvec, enabled>>

\* What the instruction does around Write_<csr>.
CsrWrite(logged) ==
  \E rd \in RegIdx : Fetched(4) /\ Retire(4, "csr", WriteX(rd), logged)

\* MPP keeps its only value, M; VS and FS are in module ExtContext.
WriteMstatus ==
  /\ CsrWrite({"mstatus"})
  /\ mie' \in BOOLEAN
  /\ mpie' \in BOOLEAN
  /\ frame' = NoFrame
  /\ UNCHANGED <<mepc, mcause, mtval, mtvec, enabled>>

\* Mutant of WriteMie: the FFI hook is not called.
WriteMieUnlogged ==
  CsrWrite({}) /\ enabled' \in SUBSET {"MTIP", "MEIP"} /\ UNCHANGED <<trapVars, mtvec>>

WriteMie ==
  /\ CsrWrite({"mie"})
  /\ enabled' \in SUBSET {"MTIP", "MEIP"}
  /\ UNCHANGED <<trapVars, mtvec>>

\* A value with bit 1 set names no supported mode: the write is dropped.
WriteMtvec ==
  \E value \in Words :
    /\ \/ /\ value % 4 < 2
          /\ mtvec' = [base |-> value - (value % 4), vectored |-> value % 2 = 1]
          /\ CsrWrite({"mtvec"})
       \/ /\ value % 4 >= 2
          /\ CsrWrite({})
          /\ UNCHANGED mtvec
    /\ UNCHANGED <<trapVars, enabled>>

\* Mutant of WriteMepc: bit 0 is kept.
WriteMepcUnmasked ==
  \E value \in Words :
    /\ CsrWrite({"mepc"}) /\ mepc' = value /\ frame' = NoFrame
    /\ UNCHANGED <<mcause, mtval, mie, mpie, mtvec, enabled>>

\* Bit 0 is masked.
WriteMepc ==
  \E value \in Words :
    /\ CsrWrite({"mepc"})
    /\ mepc' = value - (value % 2)
    /\ frame' = NoFrame
    /\ UNCHANGED <<mcause, mtval, mie, mpie, mtvec, enabled>>

\* The whole register is written.
WriteMcause ==
  \E value \in Words, interrupt \in BOOLEAN :
    /\ CsrWrite({"mcause"})
    /\ mcause' = [interrupt |-> interrupt, code |-> value]
    /\ UNCHANGED <<mepc, mtval, mie, mpie, frame, mtvec, enabled>>

\* The scratch register's value plays no part in control.
WriteMscratch == CsrWrite({"mscratch"}) /\ UNCHANGED <<trapVars, mtvec, enabled>>

WriteCsr == \/ WriteMstatus \/ WriteMie \/ WriteMtvec
            \/ WriteMepc \/ WriteMcause \/ WriteMscratch

-----------------------------------------------------------------------------

Next ==
  \/ TakeInterrupt
  \/ FetchFault
  \/ Alu
  \/ Branch
  \/ Jal
  \/ Jalr
  \/ CJumpRegister
  \/ Load
  \/ Store
  \/ Amo
  \/ LrSc
  \/ Environment
  \/ Illegal
  \/ Mret
  \/ CsrRefused
  \/ CsrRead
  \/ WriteCsr

Spec == Init /\ [][Next]_vars

-----------------------------------------------------------------------------
(* Properties *)

\* The step ended in a trap (and not the process in an assertion).
TrapStep == trace'.code \in TrapCodes /\ halt' = "none"

\* No route into the program counter (traps, vectored entry, mret of a value
\* software put in mepc, jumps through registers, wrap-around) leaves an odd
\* address in it or in mepc: the PC and MEPC setters of states.asl assert so.
PcAligned == pc % 2 = 0 /\ mepc % 2 = 0

\* From a trap until software writes mepc or mstatus or executes mret, the
\* trap CSRs still hold the interrupted context and no interrupt is enabled,
\* whatever the handler executes meanwhile (TrapInterrupt, handleException).
FrameKept ==
  frame.valid => /\ mepc = frame.pc
                 /\ mpie = frame.mie
                 /\ ~mie

\* mret out of a handler that left mepc and mstatus alone resumes exactly the
\* interrupted context: pc and the interrupt enable (Execute_MRET).
MretResumes ==
  [][(trace'.inst = "mret" /\ halt' = "none" /\ frame.valid) =>
        pc' = frame.pc /\ mie' = frame.mie]_vars

\* A handler is not interrupted before it writes mstatus or returns.
HandlerNotInterrupted ==
  [][frame.valid /\ TrapStep => trace'.code # "INTERRUPT"]_vars

\* Traps are precise: mepc is the instruction that did not execute, no
\* register is written, and the configuration CSRs are untouched.
PreciseTrap ==
  [][TrapStep => /\ mepc' = pc
                 /\ trace'.xregs = {}
                 /\ UNCHANGED <<mtvec, enabled>>]_vars

\* After a fetch fault mtval names a halfword of the instruction at mepc that
\* cannot be fetched, and the first such halfword (step.asl, LSH before MSH).
FetchFaultBlamed ==
  trace.code = "FETCH_XCPT" =>
    /\ mtval \notin Fetchable
    /\ \/ mtval = mepc
       \/ mtval = (mepc + 2) % XBytes /\ mepc \in Fetchable

\* After a memory exception the cause, the address in mtval and the bus agree.
MemoryFaultBlamed ==
  (trace.code \in {"INST_XCPT", "C_XCPT"} /\ trace.inst \in {"load", "store", "amo"}) =>
    \/ mcause.code = Xcpt.misalignedLoad /\ mtval % 4 # 0 /\ trace.inst = "load"
    \/ mcause.code = Xcpt.misalignedStore /\ mtval % 4 # 0 /\ trace.inst = "store"
    \/ mcause.code = Xcpt.loadAccess /\ mtval \notin Readable /\ trace.inst = "load"
    \/ mcause.code = Xcpt.storeAccess
         /\ \/ trace.inst = "store" /\ mtval \notin Writable
            \/ trace.inst = "amo" /\ (mtval % 4 # 0 \/ mtval \notin Readable \cap Writable)

ChangedCsrs ==
  {c \in CsrNames :
     \/ c = "mstatus" /\ <<mie, mpie>>' # <<mie, mpie>>
     \/ c = "mie" /\ enabled' # enabled
     \/ c = "mtvec" /\ mtvec' # mtvec
     \/ c = "mepc" /\ mepc' # mepc
     \/ c = "mcause" /\ mcause' # mcause}

\* When an instruction commits, every CSR it changed is in the trace record,
\* which pokedex_interface.h calls conservative.  Traps record none of theirs.
CommitTraced ==
  [][trace'.code \in CommitCodes => ChangedCsrs \subseteq trace'.csrs]_vars

\* The PC setter's assertion (states.asl) is never the end of the process.
PcAssertionHolds == halt # "odd_pc"

=============================================================================
