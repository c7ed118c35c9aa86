----------------------------- MODULE HartProofs -----------------------------
(* The invariants of Hart, for every address space and every program.       *)
EXTENDS Hart, TLAPS

MtvecAligned == mtvec.base % 4 = 0

\* The inductive invariant: an address that becomes the program counter comes
\* from mtvec or mepc, so these stay aligned with it.
HartInv == TypeOK /\ PcAligned /\ MtvecAligned /\ FrameKept

-----------------------------------------------------------------------------
(* Address arithmetic *)

\* Wrapping around the address space keeps an address in it.
LEMMA WrapInRange ==
  ASSUME NEW v \in Int
  PROVE  v % XBytes \in Addrs
BY XBytesAssumption DEF Addrs

\* The address space has an even size, so wrapping keeps addresses even.
LEMMA WrapKeepsEven ==
  ASSUME NEW v \in Int, v % 2 = 0
  PROVE  (v % XBytes) % 2 = 0
<1> DEFINE k == XBytes \div 2
<1> DEFINE j == v \div 2
<1> DEFINE q == v \div XBytes
<1>1. k \in Int /\ j \in Int /\ q \in Int
  BY XBytesAssumption
<1>2. XBytes = 2 * k
  BY XBytesAssumption
<1>3. v = 2 * j
  OBVIOUS
<1>4. v % XBytes = v - XBytes * q
  BY XBytesAssumption
<1> HIDE DEF k, j, q
<1>5. v % XBytes = 2 * (j - k * q)
  <2>1. XBytes * q = 2 * (k * q)
    BY <1>1, <1>2
  <2>2. k * q \in Int
    BY <1>1
  <2>3. QED
    BY <1>1, <1>3, <1>4, <2>1, <2>2
<1>6. j - k * q \in Int
  BY <1>1
<1>7. QED
  BY <1>5, <1>6

\* Clearing bit 0, as jalr and Write_MEPC do, gives an even address.
LEMMA ClearBit0 ==
  ASSUME NEW v \in Addrs
  PROVE  v - (v % 2) \in Addrs /\ (v - (v % 2)) % 2 = 0
BY XBytesAssumption DEF Addrs

\* Clearing the mode bits, as Write_MTVEC does, gives a multiple of four.
LEMMA ClearMode ==
  ASSUME NEW v \in Addrs
  PROVE  v - (v % 4) \in Addrs /\ (v - (v % 4)) % 4 = 0
BY XBytesAssumption DEF Addrs

\* A trap handler, at the base or at a vector, is at an even address.
LEMMA HandlerAligned ==
  ASSUME NEW base \in Addrs, base % 4 = 0, NEW n \in Nat
  PROVE  /\ base % 2 = 0
         /\ (base + 4 * n) % XBytes \in Addrs
         /\ ((base + 4 * n) % XBytes) % 2 = 0
<1>1. base \in Int /\ base + 4 * n \in Int
  BY DEF Addrs
<1>2. base % 2 = 0 /\ (base + 4 * n) % 2 = 0
  BY <1>1
<1>3. QED
  BY <1>1, <1>2, WrapInRange, WrapKeepsEven

\* The next instruction is at an even address.
LEMMA HalfAligned ==
  ASSUME TypeOK, NEW n \in {2, 4}
  PROVE  /\ Half(n) \in Addrs
         /\ pc % 2 = 0 => Half(n) % 2 = 0
<1>1. pc \in Int /\ pc + n \in Int
  BY DEF TypeOK, Addrs
<1>2. pc % 2 = 0 => (pc + n) % 2 = 0
  BY <1>1
<1>3. QED
  BY <1>1, <1>2, WrapInRange, WrapKeepsEven DEF Half

-----------------------------------------------------------------------------
(* The three shapes of a step *)

\* An exception or a fetch fault keeps the invariant.
LEMMA RaiseKeepsInv ==
  ASSUME HartInv, NEW code \in TrapCodes, NEW inst \in InstKinds,
         NEW cause \in Nat, NEW tval \in Addrs, Raise(code, inst, cause, tval)
  PROVE  HartInv'
<1>1. TypeOK'
  BY DEF HartInv, TypeOK, Raise, EnterTrap, Log, Frame
<1>2. PcAligned' /\ MtvecAligned'
  <2>1. mtvec.base \in Addrs /\ mtvec.base % 4 = 0
    BY DEF HartInv, TypeOK, MtvecAligned
  <2>2. mtvec.base % 2 = 0
    BY <2>1, HandlerAligned, 0 \in Nat
  <2>3. QED
    BY <2>1, <2>2 DEF HartInv, PcAligned, MtvecAligned, Raise, EnterTrap
<1>3. FrameKept'
  BY DEF HartInv, TypeOK, FrameKept, Raise, EnterTrap, Frame
<1>4. QED
  BY <1>1, <1>2, <1>3 DEF HartInv

\* Moving to another instruction keeps the invariant; an odd target stops
\* the process instead of reaching pc.
LEMMA SetPCKeepsInv ==
  ASSUME HartInv, NEW target \in Addrs, SetPC(target),
         UNCHANGED <<trapVars, mtvec, enabled>>,
         trace' \in [code : CommitCodes \cup TrapCodes \cup {"NONE"}, inst : InstKinds,
                     xregs : SUBSET RegIdx, csrs : SUBSET CsrNames]
  PROVE  HartInv'
<1>1. TypeOK'
  BY DEF HartInv, TypeOK, SetPC, trapVars
<1>2. PcAligned' /\ MtvecAligned' /\ FrameKept'
  BY DEF HartInv, PcAligned, MtvecAligned, FrameKept, SetPC, trapVars
<1>3. QED
  BY <1>1, <1>2 DEF HartInv

\* So does a jump.
LEMMA JumpKeepsInv ==
  ASSUME HartInv, NEW len \in {2, 4}, NEW target \in Addrs,
         NEW rd \in RegIdx, Jump(len, target, WriteX(rd)) \/ Jump(len, target, {})
  PROVE  HartInv'
<1>1. UNCHANGED <<trapVars, mtvec, enabled>> /\ SetPC(target)
  BY DEF Jump
<1>2. trace' \in [code : CommitCodes \cup TrapCodes \cup {"NONE"}, inst : InstKinds,
                  xregs : SUBSET RegIdx, csrs : SUBSET CsrNames]
  BY DEF Jump, HartInv, TypeOK, Log, CommitCode, CommitCodes, InstKinds, WriteX
<1>3. QED
  BY <1>1, <1>2, SetPCKeepsInv

\* So does an instruction that retires without touching a CSR.
LEMMA RetireKeepsInv ==
  ASSUME HartInv, NEW len \in {2, 4}, NEW inst \in InstKinds,
         NEW xregs \in SUBSET RegIdx, Retire(len, inst, xregs, {}),
         UNCHANGED <<trapVars, mtvec, enabled>>
  PROVE  HartInv'
<1>1. Half(len) \in Addrs /\ SetPC(Half(len))
  BY HalfAligned DEF HartInv, Retire
<1>2. trace' \in [code : CommitCodes \cup TrapCodes \cup {"NONE"}, inst : InstKinds,
                  xregs : SUBSET RegIdx, csrs : SUBSET CsrNames]
  BY DEF Retire, Log, CommitCode, CommitCodes
<1>3. QED
  BY <1>1, <1>2, SetPCKeepsInv

\* What every CSR write does besides the write itself.
LEMMA CsrWriteRetires ==
  ASSUME HartInv, NEW logged \in SUBSET CsrNames, CsrWrite(logged)
  PROVE  /\ pc' \in Addrs /\ pc' % 2 = 0
         /\ halt' = halt
         /\ trace' \in [code : CommitCodes \cup TrapCodes \cup {"NONE"}, inst : InstKinds,
                        xregs : SUBSET RegIdx, csrs : SUBSET CsrNames]
<1>1. PICK rd \in RegIdx : Retire(4, "csr", WriteX(rd), logged)
  BY DEF CsrWrite
<1>2. Half(4) \in Addrs /\ Half(4) % 2 = 0
  BY HalfAligned DEF HartInv, PcAligned
<1>3. QED
  BY <1>1, <1>2 DEF Retire, SetPC, Log, CommitCode, CommitCodes, WriteX, InstKinds

-----------------------------------------------------------------------------
(* Every write of a CSR keeps the invariant. *)

LEMMA WriteCsrKeepsInv ==
  ASSUME HartInv, WriteCsr
  PROVE  HartInv'
<1>1. CASE WriteMstatus
  <2>1. /\ CsrWrite({"mstatus"}) /\ {"mstatus"} \in SUBSET CsrNames
        /\ mie' \in BOOLEAN /\ mpie' \in BOOLEAN /\ frame' = NoFrame
        /\ UNCHANGED <<mepc, mcause, mtval, mtvec, enabled>>
    BY <1>1 DEF WriteMstatus, CsrNames
  <2>2. TypeOK'
    BY <2>1, CsrWriteRetires, XBytesAssumption DEF HartInv, TypeOK, NoFrame, Addrs
  <2>3. PcAligned' /\ MtvecAligned' /\ FrameKept'
    BY <2>1, CsrWriteRetires DEF HartInv, PcAligned, MtvecAligned, FrameKept, NoFrame
  <2>4. QED
    BY <2>2, <2>3 DEF HartInv
<1>2. CASE WriteMie
  <2>1. /\ CsrWrite({"mie"}) /\ {"mie"} \in SUBSET CsrNames
        /\ enabled' \subseteq {"MTIP", "MEIP"}
        /\ UNCHANGED <<mepc, mcause, mtval, mie, mpie, frame, mtvec>>
    BY <1>2 DEF WriteMie, CsrNames, trapVars
  <2>2. TypeOK'
    BY <2>1, CsrWriteRetires DEF HartInv, TypeOK
  <2>3. PcAligned' /\ MtvecAligned' /\ FrameKept'
    BY <2>1, CsrWriteRetires DEF HartInv, PcAligned, MtvecAligned, FrameKept
  <2>4. QED
    BY <2>2, <2>3 DEF HartInv
<1>3. CASE WriteMtvec
  <2>1. PICK value \in Words :
          /\ \/ /\ mtvec' = [base |-> value - (value % 4), vectored |-> value % 2 = 1]
                /\ CsrWrite({"mtvec"})
             \/ CsrWrite({}) /\ UNCHANGED mtvec
          /\ UNCHANGED <<mepc, mcause, mtval, mie, mpie, frame, enabled>>
    BY <1>3 DEF WriteMtvec, trapVars
  <2>2. {"mtvec"} \in SUBSET CsrNames /\ {} \in SUBSET CsrNames
    BY DEF CsrNames
  <2>3. value - (value % 4) \in Addrs /\ (value - (value % 4)) % 4 = 0
    BY CodeAssumption, ClearMode
  <2>4. TypeOK'
    <3>1. mtvec' \in [base : Addrs, vectored : BOOLEAN]
      <4> DEFINE mode == value % 2 = 1
      <4>1. mode \in BOOLEAN
        OBVIOUS
      <4>2. mtvec' = [base |-> value - (value % 4), vectored |-> mode] \/ mtvec' = mtvec
        BY <2>1
      <4> HIDE DEF mode
      <4>3. QED
        BY <2>3, <4>1, <4>2 DEF HartInv, TypeOK
    <3>2. CsrWrite({"mtvec"}) \/ CsrWrite({})
      BY <2>1
    <3>3. QED
      BY <2>1, <2>2, <3>1, <3>2, CsrWriteRetires DEF HartInv, TypeOK
  <2>5. PcAligned' /\ MtvecAligned' /\ FrameKept'
    BY <2>1, <2>2, <2>3, CsrWriteRetires DEF HartInv, PcAligned, MtvecAligned, FrameKept
  <2>6. QED
    BY <2>4, <2>5 DEF HartInv
<1>4. CASE WriteMepc
  <2>1. PICK value \in Words :
          /\ CsrWrite({"mepc"})
          /\ mepc' = value - (value % 2)
          /\ frame' = NoFrame
          /\ UNCHANGED <<mcause, mtval, mie, mpie, mtvec, enabled>>
    BY <1>4 DEF WriteMepc
  <2>2. {"mepc"} \in SUBSET CsrNames
    BY DEF CsrNames
  <2>3. value - (value % 2) \in Addrs /\ (value - (value % 2)) % 2 = 0
    BY CodeAssumption, ClearBit0
  <2>4. TypeOK'
    BY <2>1, <2>2, <2>3, CsrWriteRetires, XBytesAssumption
    DEF HartInv, TypeOK, NoFrame, Addrs
  <2>5. PcAligned' /\ MtvecAligned' /\ FrameKept'
    BY <2>1, <2>2, <2>3, CsrWriteRetires
    DEF HartInv, PcAligned, MtvecAligned, FrameKept, NoFrame
  <2>6. QED
    BY <2>4, <2>5 DEF HartInv
<1>5. CASE WriteMcause
  <2>1. PICK value \in Words, interrupt \in BOOLEAN :
          /\ CsrWrite({"mcause"})
          /\ mcause' = [interrupt |-> interrupt, code |-> value]
          /\ UNCHANGED <<mepc, mtval, mie, mpie, frame, mtvec, enabled>>
    BY <1>5 DEF WriteMcause
  <2>2. {"mcause"} \in SUBSET CsrNames /\ value \in Nat
    BY CodeAssumption DEF CsrNames, Addrs
  <2>3. TypeOK'
    BY <2>1, <2>2, CsrWriteRetires DEF HartInv, TypeOK
  <2>4. PcAligned' /\ MtvecAligned' /\ FrameKept'
    BY <2>1, <2>2, CsrWriteRetires DEF HartInv, PcAligned, MtvecAligned, FrameKept
  <2>5. QED
    BY <2>3, <2>4 DEF HartInv
<1>6. CASE WriteMscratch
  <2>1. /\ CsrWrite({"mscratch"}) /\ {"mscratch"} \in SUBSET CsrNames
        /\ UNCHANGED <<mepc, mcause, mtval, mie, mpie, frame, mtvec, enabled>>
    BY <1>6 DEF WriteMscratch, CsrNames, trapVars
  <2>2. TypeOK'
    BY <2>1, CsrWriteRetires DEF HartInv, TypeOK
  <2>3. PcAligned' /\ MtvecAligned' /\ FrameKept'
    BY <2>1, CsrWriteRetires DEF HartInv, PcAligned, MtvecAligned, FrameKept
  <2>4. QED
    BY <2>2, <2>3 DEF HartInv
<1>7. QED
  BY <1>1, <1>2, <1>3, <1>4, <1>5, <1>6 DEF WriteCsr

-----------------------------------------------------------------------------
(* The other actions *)

LEMMA TrapsKeepInv ==
  ASSUME HartInv, TakeInterrupt \/ FetchFault
  PROVE  HartInv'
<1>1. CASE TakeInterrupt
  <2>1. PICK line \in {"MTIP", "MEIP"} : TrapInterrupt(line)
    <3>1. PICK lines \in IrqLines : \E line \in Taken(lines) : TrapInterrupt(line)
      BY <1>1 DEF TakeInterrupt
    <3>2. Taken(lines) \subseteq {"MTIP", "MEIP"}
      BY IrqAssumption DEF Taken
    <3>3. QED
      BY <3>1, <3>2
  <2>2. Intr[line] \in Nat
    BY DEF Intr
  <2>3. mtvec.base \in Addrs /\ mtvec.base % 4 = 0
    BY DEF HartInv, TypeOK, MtvecAligned
  <2>4. pc' \in Addrs /\ pc' % 2 = 0
    <3>1. mtvec.base % 2 = 0 /\ (mtvec.base + 4 * Intr[line]) % XBytes \in Addrs
          /\ ((mtvec.base + 4 * Intr[line]) % XBytes) % 2 = 0
      BY <2>2, <2>3, HandlerAligned
    <3>2. QED
      BY <2>1, <2>3, <3>1 DEF TrapInterrupt
  <2>5. TypeOK'
    BY <2>1, <2>2, <2>4
    DEF HartInv, TypeOK, TrapInterrupt, EnterTrap, Log, Frame, TrapCodes, InstKinds
  <2>6. PcAligned' /\ MtvecAligned' /\ FrameKept'
    BY <2>1, <2>4
    DEF HartInv, TypeOK, PcAligned, MtvecAligned, FrameKept, TrapInterrupt, EnterTrap, Frame
  <2>7. QED
    BY <2>5, <2>6 DEF HartInv
<1>2. CASE FetchFault
  <2>1. pc \in Addrs /\ Half(2) \in Addrs
    BY HalfAligned DEF HartInv, TypeOK
  <2>2. "FETCH_XCPT" \in TrapCodes /\ "none" \in InstKinds /\ Xcpt.fetch \in Nat
    BY DEF TrapCodes, InstKinds, Xcpt
  <2>3. QED
    BY <1>2, <2>1, <2>2, RaiseKeepsInv DEF FetchFault
<1>3. QED
  BY <1>1, <1>2

LEMMA JumpsKeepInv ==
  ASSUME HartInv, Alu \/ Branch \/ Jal \/ Jalr \/ CJumpRegister
  PROVE  HartInv'
<1>1. 4 \in {2, 4} /\ 2 \in {2, 4} /\ 0 \in RegIdx
  BY DEF RegIdx
<1>2. CASE Alu
  <2>1. PICK len \in {2, 4}, rd \in RegIdx :
          Retire(len, "alu", WriteX(rd), {}) /\ UNCHANGED <<trapVars, mtvec, enabled>>
    BY <1>2 DEF Alu
  <2>2. "alu" \in InstKinds /\ WriteX(rd) \in SUBSET RegIdx
    BY DEF InstKinds, WriteX
  <2>3. QED
    BY <2>1, <2>2, RetireKeepsInv
<1>3. ASSUME NEW off \in Offsets
      PROVE  (pc + off) % XBytes \in Addrs
  <2>1. pc + off \in Int
    BY CodeAssumption DEF HartInv, TypeOK, Addrs
  <2>2. QED
    BY <2>1, WrapInRange
<1>4. CASE Branch
  <2>1. PICK len \in {2, 4}, off \in Offsets :
          Jump(len, (pc + off) % XBytes, {}) \/ Jump(len, Half(len), {})
    BY <1>4 DEF Branch
  <2>2. Half(len) \in Addrs
    BY HalfAligned DEF HartInv
  <2>3. QED
    BY <1>1, <1>3, <2>1, <2>2, JumpKeepsInv
<1>5. CASE Jal
  <2>1. PICK len \in {2, 4}, off \in Offsets, rd \in RegIdx :
          Jump(len, (pc + off) % XBytes, WriteX(rd))
    BY <1>5 DEF Jal
  <2>2. QED
    BY <1>3, <2>1, JumpKeepsInv
<1>6. CASE Jalr
  <2>1. PICK target \in Words, rd \in RegIdx : Jump(4, target - (target % 2), WriteX(rd))
    BY <1>6 DEF Jalr
  <2>2. target - (target % 2) \in Addrs
    BY CodeAssumption, ClearBit0
  <2>3. QED
    BY <1>1, <2>1, <2>2, JumpKeepsInv
<1>7. CASE CJumpRegister
  <2>1. PICK target \in Words, rd \in RegIdx : Jump(2, target, WriteX(rd))
    BY <1>7 DEF CJumpRegister
  <2>2. QED
    BY <1>1, <2>1, CodeAssumption, JumpKeepsInv
<1>8. QED
  BY <1>2, <1>4, <1>5, <1>6, <1>7

LEMMA MemoryKeepsInv ==
  ASSUME HartInv, Load \/ Store \/ Amo \/ LrSc
  PROVE  HartInv'
<1>1. /\ \A len \in {2, 4} : XcptCode(len) \in TrapCodes
      /\ {"load", "store", "amo", "lrsc"} \subseteq InstKinds
      /\ {Xcpt.misalignedLoad, Xcpt.misalignedStore, Xcpt.loadAccess, Xcpt.storeAccess} \subseteq Nat
      /\ "INST_XCPT" \in TrapCodes
  BY DEF XcptCode, TrapCodes, InstKinds, Xcpt
<1>2. \A rd \in RegIdx : WriteX(rd) \in SUBSET RegIdx
  BY DEF WriteX
<1>3. DataAddrs \subseteq Addrs
  BY DataAssumption
<1>4. CASE Load
  <2>1. PICK len \in {2, 4}, addr \in DataAddrs, rd \in RegIdx :
          \/ Raise(XcptCode(len), "load", Xcpt.misalignedLoad, addr)
          \/ Raise(XcptCode(len), "load", Xcpt.loadAccess, addr)
          \/ Retire(len, "load", WriteX(rd), {}) /\ UNCHANGED <<trapVars, mtvec, enabled>>
    BY <1>4 DEF Load
  <2>2. QED
    BY <1>1, <1>2, <1>3, <2>1, RaiseKeepsInv, RetireKeepsInv
<1>5. CASE Store
  <2>1. PICK len \in {2, 4}, addr \in DataAddrs :
          \/ Raise(XcptCode(len), "store", Xcpt.misalignedStore, addr)
          \/ Raise(XcptCode(len), "store", Xcpt.storeAccess, addr)
          \/ Retire(len, "store", {}, {}) /\ UNCHANGED <<trapVars, mtvec, enabled>>
    BY <1>5 DEF Store
  <2>2. QED
    BY <1>1, <1>3, <2>1, RaiseKeepsInv, RetireKeepsInv
<1>6. CASE Amo
  <2>1. PICK addr \in DataAddrs, rd \in RegIdx :
          \/ Raise("INST_XCPT", "amo", Xcpt.storeAccess, addr)
          \/ Retire(4, "amo", WriteX(rd), {}) /\ UNCHANGED <<trapVars, mtvec, enabled>>
    BY <1>6 DEF Amo
  <2>2. QED
    BY <1>1, <1>2, <1>3, <2>1, RaiseKeepsInv, RetireKeepsInv
<1>7. CASE LrSc
  <2>1. PICK addr \in DataAddrs, cause \in {Xcpt.loadAccess, Xcpt.storeAccess} :
          \/ Raise("INST_XCPT", "lrsc", cause, addr)
          \/ halt' = "lr_sc" /\ UNCHANGED <<pc, trapVars, mtvec, enabled, trace>>
    BY <1>7 DEF LrSc
  <2>2. CASE Raise("INST_XCPT", "lrsc", cause, addr)
    BY <1>1, <1>3, <2>2, RaiseKeepsInv
  <2>3. CASE halt' = "lr_sc" /\ UNCHANGED <<pc, trapVars, mtvec, enabled, trace>>
    BY <2>3 DEF HartInv, TypeOK, PcAligned, MtvecAligned, FrameKept, trapVars
  <2>4. QED
    BY <2>1, <2>2, <2>3
<1>8. QED
  BY <1>4, <1>5, <1>6, <1>7

LEMMA SystemKeepsInv ==
  ASSUME HartInv, Environment \/ Illegal \/ CsrRefused \/ CsrRead
  PROVE  HartInv'
<1>1. /\ \A len \in {2, 4} : XcptCode(len) \in TrapCodes
      /\ {"system", "illegal", "csr"} \subseteq InstKinds
      /\ {Xcpt.ecall, Xcpt.breakpoint, Xcpt.illegal} \subseteq Nat
      /\ "INST_XCPT" \in TrapCodes
  BY DEF XcptCode, TrapCodes, InstKinds, Xcpt
<1>2. BadInsts \subseteq Addrs /\ 0 \in Addrs
  BY DataAssumption, XBytesAssumption DEF Addrs
<1>3. CASE Environment
  BY <1>1, <1>2, <1>3, RaiseKeepsInv DEF Environment
<1>4. CASE Illegal
  BY <1>1, <1>2, <1>4, RaiseKeepsInv DEF Illegal
<1>5. CASE CsrRefused
  BY <1>1, <1>2, <1>5, RaiseKeepsInv DEF CsrRefused
<1>6. CASE CsrRead
  <2>1. PICK f \in CsrForms :
          Retire(4, "csr", WriteX(f.rd), {}) /\ UNCHANGED <<trapVars, mtvec, enabled>>
    BY <1>6 DEF CsrRead
  <2>2. WriteX(f.rd) \in SUBSET RegIdx
    BY DEF CsrForms, WriteX
  <2>3. QED
    BY <1>1, <2>1, <2>2, RetireKeepsInv
<1>7. QED
  BY <1>3, <1>4, <1>5, <1>6

LEMMA MretKeepsInv ==
  ASSUME HartInv, Mret
  PROVE  HartInv'
<1>1. /\ pc' = mepc /\ UNCHANGED halt
  BY DEF Mret, SetPC, HartInv, PcAligned
<1>2. TypeOK'
  BY <1>1, XBytesAssumption
  DEF HartInv, TypeOK, Mret, Log, NoFrame, Addrs, CommitCodes, InstKinds, CsrNames
<1>3. PcAligned' /\ MtvecAligned' /\ FrameKept'
  BY <1>1 DEF HartInv, PcAligned, MtvecAligned, FrameKept, Mret, NoFrame
<1>4. QED
  BY <1>2, <1>3 DEF HartInv

-----------------------------------------------------------------------------
(* The theorems *)

LEMMA InitEstablishesInv == Init => HartInv
<1> SUFFICES ASSUME Init PROVE HartInv
  OBVIOUS
<1>1. 0 \in Addrs /\ ResetPcs \subseteq {a \in Addrs : a % 2 = 0}
  BY XBytesAssumption, CodeAssumption DEF Addrs
<1>2. TypeOK
  BY <1>1 DEF Init, TypeOK, NoFrame, InstKinds
<1>3. PcAligned /\ MtvecAligned /\ FrameKept
  BY <1>1 DEF Init, PcAligned, MtvecAligned, FrameKept, NoFrame
<1>4. QED
  BY <1>2, <1>3 DEF HartInv

LEMMA NextKeepsInv == HartInv /\ [Next]_vars => HartInv'
<1> SUFFICES ASSUME HartInv, [Next]_vars PROVE HartInv'
  OBVIOUS
<1>1. CASE TakeInterrupt \/ FetchFault
  BY <1>1, TrapsKeepInv
<1>2. CASE Alu \/ Branch \/ Jal \/ Jalr \/ CJumpRegister
  BY <1>2, JumpsKeepInv
<1>3. CASE Load \/ Store \/ Amo \/ LrSc
  BY <1>3, MemoryKeepsInv
<1>4. CASE Environment \/ Illegal \/ CsrRefused \/ CsrRead
  BY <1>4, SystemKeepsInv
<1>5. CASE Mret
  BY <1>5, MretKeepsInv
<1>6. CASE WriteCsr
  BY <1>6, WriteCsrKeepsInv
<1>7. CASE UNCHANGED vars
  BY <1>7 DEF HartInv, TypeOK, PcAligned, MtvecAligned, FrameKept, vars
<1>8. QED
  BY <1>1, <1>2, <1>3, <1>4, <1>5, <1>6, <1>7 DEF Next

LEMMA InvariantHolds == Spec => []HartInv
BY InitEstablishesInv, NextKeepsInv, PTL DEF Spec

\* The state of the hart is always well typed (Hart!TypeOK).
THEOREM TypeCorrect == Spec => []TypeOK
<1>1. HartInv => TypeOK
  BY DEF HartInv
<1>2. QED
  BY <1>1, InvariantHolds, PTL

\* pc and mepc are always even: of all the writes to PC only c.jr and c.jalr
\* can offer an odd address, and that one ends the process (Hart!PcAligned).
THEOREM AlwaysAligned == Spec => []PcAligned
<1>1. HartInv => PcAligned
  BY DEF HartInv
<1>2. QED
  BY <1>1, InvariantHolds, PTL

\* While software leaves mepc and mstatus alone the trap CSRs hold the
\* interrupted context and interrupts stay disabled (Hart!FrameKept).
THEOREM ContextKept == Spec => []FrameKept
<1>1. HartInv => FrameKept
  BY DEF HartInv
<1>2. QED
  BY <1>1, InvariantHolds, PTL

\* mret from such a handler resumes the interrupted context (Hart!MretResumes).
THEOREM MretResumesContext == Spec => MretResumes
<1>1. ASSUME HartInv, Next, trace'.inst = "mret", halt' = "none", frame.valid
      PROVE  pc' = frame.pc /\ mie' = frame.mie
  <2>1. CASE Mret
    <3>1. mepc = frame.pc /\ mpie = frame.mie /\ mepc % 2 = 0
      BY <1>1 DEF HartInv, FrameKept, PcAligned
    <3>2. QED
      BY <2>1, <3>1 DEF Mret, SetPC
  <2>2. CASE TakeInterrupt \/ FetchFault
    <3>1. trace'.inst = "none"
      <4>1. ASSUME NEW line, TrapInterrupt(line) PROVE trace'.inst = "none"
        BY <4>1 DEF TrapInterrupt, Log
      <4>2. ASSUME NEW tval, Raise("FETCH_XCPT", "none", Xcpt.fetch, tval)
            PROVE  trace'.inst = "none"
        BY <4>2 DEF Raise, Log
      <4>3. QED
        BY <2>2, <4>1, <4>2 DEF TakeInterrupt, FetchFault
    <3>2. QED
      BY <1>1, <3>1
  <2>3. CASE Alu \/ Branch \/ Jal \/ Jalr \/ CJumpRegister
    BY <1>1, <2>3 DEF Alu, Branch, Jal, Jalr, CJumpRegister, Jump, SetPC, Retire, Log
  <2>4. CASE Load \/ Store \/ Amo \/ LrSc
    BY <1>1, <2>4 DEF Load, Store, Amo, LrSc, Raise, Retire, Log
  <2>5. CASE Environment \/ Illegal \/ CsrRefused \/ CsrRead
    BY <1>1, <2>5 DEF Environment, Illegal, CsrRefused, CsrRead, Raise, Retire, Log
  <2>6. CASE WriteCsr
    BY <1>1, <2>6 DEF WriteCsr, WriteMstatus, WriteMie, WriteMtvec, WriteMepc,
                      WriteMcause, WriteMscratch, CsrWrite, Retire, Log
  <2>7. QED
    BY <1>1, <2>1, <2>2, <2>3, <2>4, <2>5, <2>6 DEF Next
<1>2. HartInv /\ [Next]_vars =>
        [(trace'.inst = "mret" /\ halt' = "none" /\ frame.valid) =>
           pc' = frame.pc /\ mie' = frame.mie]_vars
  BY <1>1
<1>3. QED
  BY <1>2, InvariantHolds, PTL DEF Spec, MretResumes

\* A handler is not interrupted before it writes mstatus or returns
\* (Hart!HandlerNotInterrupted): the interrupt enable is down all that time.
THEOREM HandlerRunsAlone == Spec => HandlerNotInterrupted
<1>1. ASSUME HartInv, Next, frame.valid, TrapStep
      PROVE  trace'.code # "INTERRUPT"
  <2>1. ~mie /\ halt' = "none"
    BY <1>1 DEF HartInv, FrameKept, TrapStep
  <2>2. ~TakeInterrupt
    BY <2>1 DEF TakeInterrupt, Taken
  <2>3. CASE FetchFault
    BY <2>3 DEF FetchFault, Raise, Log
  <2>4. CASE Alu \/ Branch \/ Jal \/ Jalr \/ CJumpRegister
    BY <2>1, <2>4 DEF Alu, Branch, Jal, Jalr, CJumpRegister, Jump, SetPC, Retire, Log, CommitCode
  <2>5. CASE Load \/ Store \/ Amo \/ LrSc
    BY <2>1, <2>5 DEF Load, Store, Amo, LrSc, Raise, Retire, Log, CommitCode, XcptCode
  <2>6. CASE Environment \/ Illegal \/ CsrRefused \/ CsrRead
    BY <2>6 DEF Environment, Illegal, CsrRefused, CsrRead, Raise, Retire, Log, CommitCode, XcptCode
  <2>7. CASE WriteCsr
    BY <2>7 DEF WriteCsr, WriteMstatus, WriteMie, WriteMtvec, WriteMepc,
                WriteMcause, WriteMscratch, CsrWrite, Retire, Log, CommitCode
  <2>8. CASE Mret
    BY <2>8 DEF Mret, Log
  <2>9. QED
    BY <1>1, <2>2, <2>3, <2>4, <2>5, <2>6, <2>7, <2>8 DEF Next
<1>2. HartInv /\ [Next]_vars => [frame.valid /\ TrapStep => trace'.code # "INTERRUPT"]_vars
  BY <1>1
<1>3. QED
  BY <1>2, InvariantHolds, PTL DEF Spec, HandlerNotInterrupted

-----------------------------------------------------------------------------
(* What a step leaves behind *)

\* A step ends in a trap, commits, or stops the process.
Trapped ==
  /\ trace'.code \in TrapCodes /\ trace'.xregs = {}
  /\ mepc' = pc /\ UNCHANGED <<mtvec, enabled>>

Committed == trace'.code \in CommitCodes /\ ChangedCsrs \subseteq trace'.csrs

Stopped == halt' # "none" /\ UNCHANGED <<trace, trapVars, mtvec, enabled>>

Blamed == FetchFaultBlamed /\ MemoryFaultBlamed

LEMMA RaiseShape ==
  ASSUME NEW code \in TrapCodes, NEW inst, NEW cause, NEW tval, Raise(code, inst, cause, tval)
  PROVE  /\ Trapped
         /\ trace'.code = code /\ trace'.inst = inst
         /\ mcause'.code = cause /\ mtval' = tval /\ mepc' = pc
BY DEF Raise, EnterTrap, Log, Trapped

\* An exception of an instruction that is no memory access blames nothing.
LEMMA OtherRaise ==
  ASSUME NEW code \in {"INST_XCPT", "C_XCPT"}, NEW inst \in {"system", "illegal", "csr", "lrsc"},
         NEW cause, NEW tval, Raise(code, inst, cause, tval)
  PROVE  Trapped /\ Blamed'
<1>1. Trapped /\ trace'.code = code /\ trace'.inst = inst
  BY RaiseShape DEF TrapCodes
<1>2. QED
  BY <1>1 DEF Blamed, FetchFaultBlamed, MemoryFaultBlamed

LEMMA UntouchedCsrs ==
  ASSUME UNCHANGED <<trapVars, mtvec, enabled>>
  PROVE  ChangedCsrs = {}
BY DEF ChangedCsrs, trapVars

LEMMA RetireShape ==
  ASSUME NEW len, NEW inst, NEW xregs, NEW csrs, Retire(len, inst, xregs, csrs)
  PROVE  trace'.code \in CommitCodes /\ trace'.csrs = csrs
BY DEF Retire, Log, CommitCode, CommitCodes

LEMMA JumpShape ==
  ASSUME NEW len, NEW target, NEW xregs, Jump(len, target, xregs)
  PROVE  Committed \/ Stopped
<1>1. UNCHANGED <<trapVars, mtvec, enabled>>
  BY DEF Jump
<1>2. CASE target % 2 = 0
  <2>1. trace'.code \in CommitCodes /\ trace'.csrs = {}
    BY <1>2 DEF Jump, Log, CommitCode, CommitCodes
  <2>2. QED
    BY <1>1, <2>1, UntouchedCsrs DEF Committed
<1>3. CASE target % 2 # 0
  BY <1>1, <1>3 DEF Jump, SetPC, Stopped
<1>4. QED
  BY <1>2, <1>3

\* A half of the instruction that cannot be fetched, the first if both cannot
LEMMA FetchShape ==
  ASSUME TypeOK, FetchFault
  PROVE  Trapped /\ Blamed'
<1>1. Half(0) = pc
  <2>1. pc \in Nat /\ pc < XBytes /\ pc + 0 = pc
    BY XBytesAssumption DEF TypeOK, Addrs
  <2>2. pc % XBytes = pc
    BY <2>1, XBytesAssumption
  <2>3. QED
    BY <2>1, <2>2 DEF Half
<1>2. PICK half \in {Half(0), Half(2)} :
        /\ half \notin Fetchable /\ (half = Half(0) \/ Half(0) \in Fetchable)
        /\ Raise("FETCH_XCPT", "none", Xcpt.fetch, half)
  BY <1>1 DEF FetchFault
<1>3. Trapped /\ trace'.code = "FETCH_XCPT" /\ mtval' = half /\ mepc' = pc
  BY <1>2, RaiseShape DEF TrapCodes
<1>4. FetchFaultBlamed'
  BY <1>1, <1>2, <1>3 DEF FetchFaultBlamed, Half
<1>5. MemoryFaultBlamed'
  BY <1>3 DEF MemoryFaultBlamed
<1>6. QED
  BY <1>3, <1>4, <1>5 DEF Blamed

\* The exceptions of loads, stores and AMOs, each with what it checks
LEMMA MemoryRaise ==
  ASSUME NEW code \in {"INST_XCPT", "C_XCPT"}, NEW inst \in {"load", "store", "amo"},
         NEW cause, NEW addr, Raise(code, inst, cause, addr),
         \/ cause = Xcpt.misalignedLoad /\ addr % 4 # 0 /\ inst = "load"
         \/ cause = Xcpt.misalignedStore /\ addr % 4 # 0 /\ inst = "store"
         \/ cause = Xcpt.loadAccess /\ addr \notin Readable /\ inst = "load"
         \/ cause = Xcpt.storeAccess
              /\ \/ inst = "store" /\ addr \notin Writable
                 \/ inst = "amo" /\ (addr % 4 # 0 \/ addr \notin Readable \cap Writable)
  PROVE  Trapped /\ Blamed'
<1>1. /\ Trapped /\ trace'.code = code /\ trace'.inst = inst
      /\ mcause'.code = cause /\ mtval' = addr
  BY RaiseShape DEF TrapCodes
<1>2. FetchFaultBlamed'
  BY <1>1 DEF FetchFaultBlamed
<1>3. MemoryFaultBlamed'
  BY <1>1 DEF MemoryFaultBlamed
<1>4. QED
  BY <1>1, <1>2, <1>3 DEF Blamed

\* An address that is not a multiple of a width is not one of four.
LEMMA Misaligned ==
  ASSUME NEW addr \in DataAddrs, NEW width \in {1, 2, 4}, addr % width # 0
  PROVE  addr % 4 # 0
<1>1. addr \in Int
  BY DataAssumption DEF Addrs
<1>2. QED
  BY <1>1

LEMMA MemoryShape ==
  ASSUME Load \/ Store \/ Amo
  PROVE  (Trapped /\ Blamed') \/ Committed
<1>1. CASE Load
  <2>1. PICK len \in {2, 4}, width \in {1, 2, 4}, addr \in DataAddrs, rd \in RegIdx :
          \/ addr % width # 0 /\ Raise(XcptCode(len), "load", Xcpt.misalignedLoad, addr)
          \/ addr \notin Readable /\ Raise(XcptCode(len), "load", Xcpt.loadAccess, addr)
          \/ Retire(len, "load", WriteX(rd), {}) /\ UNCHANGED <<trapVars, mtvec, enabled>>
    BY <1>1 DEF Load
  <2>2. XcptCode(len) \in {"INST_XCPT", "C_XCPT"}
    BY DEF XcptCode
  <2>3. QED
    BY <2>1, <2>2, MemoryRaise, Misaligned, RetireShape, UntouchedCsrs DEF Committed
<1>2. CASE Store
  <2>1. PICK len \in {2, 4}, width \in {1, 2, 4}, addr \in DataAddrs :
          \/ addr % width # 0 /\ Raise(XcptCode(len), "store", Xcpt.misalignedStore, addr)
          \/ addr \notin Writable /\ Raise(XcptCode(len), "store", Xcpt.storeAccess, addr)
          \/ Retire(len, "store", {}, {}) /\ UNCHANGED <<trapVars, mtvec, enabled>>
    BY <1>2 DEF Store
  <2>2. XcptCode(len) \in {"INST_XCPT", "C_XCPT"}
    BY DEF XcptCode
  <2>3. QED
    BY <2>1, <2>2, MemoryRaise, Misaligned, RetireShape, UntouchedCsrs DEF Committed
<1>3. CASE Amo
  BY <1>3, MemoryRaise, RetireShape, UntouchedCsrs DEF Amo, Committed
<1>4. QED
  BY <1>1, <1>2, <1>3

LEMMA CsrWriteShape ==
  ASSUME NEW logged, CsrWrite(logged)
  PROVE  trace'.code \in CommitCodes /\ trace'.csrs = logged
BY RetireShape DEF CsrWrite

\* Each write of a CSR reports the one that it changes.
LEMMA WriteCsrShape == ASSUME WriteCsr PROVE Committed
<1> USE DEF Committed, ChangedCsrs, trapVars
<1>1. CASE WriteMstatus
  BY <1>1, CsrWriteShape DEF WriteMstatus
<1>2. CASE WriteMie
  BY <1>2, CsrWriteShape DEF WriteMie
<1>3. CASE WriteMtvec
  BY <1>3, CsrWriteShape DEF WriteMtvec
<1>4. CASE WriteMepc
  BY <1>4, CsrWriteShape DEF WriteMepc
<1>5. CASE WriteMcause
  BY <1>5, CsrWriteShape DEF WriteMcause
<1>6. CASE WriteMscratch
  BY <1>6, CsrWriteShape DEF WriteMscratch
<1>7. QED
  BY <1>1, <1>2, <1>3, <1>4, <1>5, <1>6 DEF WriteCsr

LEMMA StepShape ==
  ASSUME TypeOK, Next
  PROVE  (Trapped /\ Blamed') \/ Committed \/ Stopped
<1>1. CASE TakeInterrupt
  <2>1. PICK line : TrapInterrupt(line)
    BY <1>1 DEF TakeInterrupt
  <2>2. Trapped /\ trace'.code = "INTERRUPT"
    BY <2>1 DEF TrapInterrupt, EnterTrap, Log, Trapped, TrapCodes
  <2>3. QED
    BY <2>2 DEF Blamed, FetchFaultBlamed, MemoryFaultBlamed
<1>2. CASE FetchFault
  BY <1>2, FetchShape
<1>3. CASE Alu
  BY <1>3, RetireShape, UntouchedCsrs DEF Alu, Committed
<1>4. CASE Branch \/ Jal \/ Jalr \/ CJumpRegister
  BY <1>4, JumpShape DEF Branch, Jal, Jalr, CJumpRegister
<1>5. CASE Load \/ Store \/ Amo
  BY <1>5, MemoryShape
<1>6. CASE LrSc
  <2>1. ASSUME NEW addr, NEW cause, Raise("INST_XCPT", "lrsc", cause, addr)
        PROVE  Trapped /\ Blamed'
    BY <2>1, OtherRaise
  <2>2. QED
    BY <1>6, <2>1 DEF LrSc, Stopped
<1>7. CASE Environment
  BY <1>7, OtherRaise DEF Environment, XcptCode
<1>8. CASE Illegal
  BY <1>8, OtherRaise DEF Illegal, XcptCode
<1>9. CASE Mret
  <2>1. trace'.code \in CommitCodes /\ trace'.csrs = {"mstatus"}
    BY <1>9 DEF Mret, Log, CommitCodes
  <2>2. ChangedCsrs \subseteq {"mstatus"}
    BY <1>9 DEF Mret, ChangedCsrs
  <2>3. QED
    BY <2>1, <2>2 DEF Committed
<1>10. CASE CsrRefused
  BY <1>10, OtherRaise DEF CsrRefused
<1>11. CASE CsrRead
  BY <1>11, RetireShape, UntouchedCsrs DEF CsrRead, Committed
<1>12. CASE WriteCsr
  BY <1>12, WriteCsrShape
<1>13. QED
  BY <1>1, <1>2, <1>3, <1>4, <1>5, <1>6, <1>7, <1>8, <1>9, <1>10, <1>11, <1>12 DEF Next

LEMMA BlamedKept == TypeOK /\ Blamed /\ [Next]_vars => Blamed'
<1> SUFFICES ASSUME TypeOK, Blamed, [Next]_vars
             PROVE  Blamed'
  OBVIOUS
<1>1. CASE Committed
  BY <1>1 DEF Committed, CommitCodes, Blamed, FetchFaultBlamed, MemoryFaultBlamed
<1>2. CASE Stopped
  BY <1>2 DEF Stopped, trapVars, Blamed, FetchFaultBlamed, MemoryFaultBlamed
<1>3. CASE UNCHANGED vars
  BY <1>3 DEF vars, Blamed, FetchFaultBlamed, MemoryFaultBlamed
<1>4. QED
  BY <1>1, <1>2, <1>3, StepShape

LEMMA BlamedHolds == Spec => []Blamed
<1>1. Init => Blamed
  BY DEF Init, Blamed, FetchFaultBlamed, MemoryFaultBlamed
<1>2. QED
  BY <1>1, BlamedKept, TypeCorrect, PTL DEF Spec

\* After a fetch fault mtval names the first half of the instruction at mepc
\* that cannot be fetched, also where the two halves wrap around the space.
THEOREM FetchFaultsAreBlamed == Spec => []FetchFaultBlamed
<1>1. Blamed => FetchFaultBlamed
  BY DEF Blamed
<1>2. QED
  BY <1>1, BlamedHolds, PTL

\* After an exception of a load, a store or an AMO, the cause, the address in
\* mtval and what the bus refuses agree.
THEOREM MemoryFaultsAreBlamed == Spec => []MemoryFaultBlamed
<1>1. Blamed => MemoryFaultBlamed
  BY DEF Blamed
<1>2. QED
  BY <1>1, BlamedHolds, PTL

\* A step that traps writes no register and no configuration, and saves the
\* instruction it did not execute.
THEOREM TrapsArePrecise == Spec => PreciseTrap
<1>1. TypeOK /\ [Next]_vars =>
        [TrapStep => /\ mepc' = pc
                     /\ trace'.xregs = {}
                     /\ UNCHANGED <<mtvec, enabled>>]_vars
  <2> SUFFICES ASSUME TypeOK, Next, TrapStep
               PROVE  mepc' = pc /\ trace'.xregs = {} /\ UNCHANGED <<mtvec, enabled>>
    OBVIOUS
  <2>1. CASE Trapped
    BY <2>1 DEF Trapped
  <2>2. CASE Committed
    BY <2>2 DEF Committed, CommitCodes, TrapStep, TrapCodes
  <2>3. CASE Stopped
    BY <2>3 DEF Stopped, TrapStep
  <2>4. QED
    BY <2>1, <2>2, <2>3, StepShape
<1>2. QED
  BY <1>1, TypeCorrect, PTL DEF Spec, PreciseTrap

\* An instruction that commits has reported every CSR that it changed.
THEOREM CommitsAreTraced == Spec => CommitTraced
<1>1. TypeOK /\ [Next]_vars =>
        [trace'.code \in CommitCodes => ChangedCsrs \subseteq trace'.csrs]_vars
  <2> SUFFICES ASSUME TypeOK, Next, trace'.code \in CommitCodes
               PROVE  ChangedCsrs \subseteq trace'.csrs
    OBVIOUS
  <2>1. CASE Trapped
    BY <2>1 DEF Trapped, CommitCodes, TrapCodes
  <2>2. CASE Committed
    BY <2>2 DEF Committed
  <2>3. CASE Stopped
    BY <2>3, UntouchedCsrs DEF Stopped
  <2>4. QED
    BY <2>1, <2>2, <2>3, StepShape
<1>2. QED
  BY <1>1, TypeCorrect, PTL DEF Spec, CommitTraced
=============================================================================
