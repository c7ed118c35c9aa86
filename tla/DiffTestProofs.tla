--------------------------- MODULE DiffTestProofs ---------------------------
(* The properties of DiffTest, for every pair of logs, any registers, values *)
(* and fields.                                                               *)
EXTENDS DiffTest, TLAPS

\* No round has been judged other than "go on".
Undecided == phase \notin {"report", "failed"} => report = "none"

\* Spike's log ends in the round that is the last one.
ExitsAreLast ==
  /\ exit[1] \in {None, MaxCode}
  /\ phase \in {"start", "reset1", "reset2", "step1", "write1"} => exit[1] = None
  /\ phase \in {"start", "reset1", "reset2", "step1", "write1", "step2", "write2"}
       => exit[2] = None

SkipsLeft == phase \in {"start", "reset1"} => skipped < MaxSkip

\* The inductive invariant of TypeOK and of the exit codes
ControlInv == TypeOK /\ Undecided /\ ExitsAreLast /\ SkipsLeft

\* Registers that neither entry of the round has written are equal: what the
\* comparison leaves out.
UnmarkedAgree ==
  /\ phase \in {"start", "reset1", "reset2", "step1"} =>
       /\ pc[1] = pc[2] /\ regs[1] = regs[2] /\ csr[1] = csr[2]
       /\ mask[1] = {} /\ mask[2] = {}
  /\ phase \in {"write1", "step2"} => mask[2] = {}
  /\ phase \in {"write1", "step2", "write2", "judge"} =>
       \A r \in Regs : r \notin mask[1] \cup mask[2] => regs[1][r] = regs[2][r]

-----------------------------------------------------------------------------
(* CSRs *)

\* A product of naturals, and a quotient, are naturals.
LEMMA Products ==
  ASSUME NEW a \in Nat, NEW b \in Nat
  PROVE  a * b \in Nat
OBVIOUS

LEMMA Quotients ==
  ASSUME NEW a \in Nat, NEW b \in Nat \ {0}
  PROVE  a \div b \in Nat /\ a % b \in Nat
OBVIOUS

\* A write of a part of a CSR leaves a natural number.
LEMMA MergedNat ==
  ASSUME NEW name, NEW old \in Nat, NEW v \in Nat
  PROVE  Merged(name, old, v) \in Nat
<1> DEFINE low == LowRange[FieldOf(name)]
<1>1. CASE name \in Low
  <2>1. FieldOf(name) \in Whole
    BY <1>1 DEF FieldOf, Low, Whole
  <2>2. low \in Nat \ {0}
    BY <2>1, CsrAssumption
  <2> HIDE DEF low
  <2>3. old \div low \in Nat
    BY <2>2, Quotients
  <2>4. (old \div low) * low \in Nat
    BY <2>2, <2>3, Products
  <2>5. name \notin High
    BY <1>1 DEF Low, High
  <2>6. Merged(name, old, v) = (old \div low) * low + v
    BY <1>1, <2>5 DEF Merged, low
  <2>7. QED
    BY <2>4, <2>6
<1>2. CASE name \in High
  <2>1. FieldOf(name) \in Whole
    BY <1>2 DEF FieldOf, High, Whole
  <2>2. low \in Nat \ {0}
    BY <2>1, CsrAssumption
  <2>3. name \notin Low
    BY <1>2 DEF Low, High
  <2> HIDE DEF low
  <2>4. old % low \in Nat
    BY <2>2, Quotients
  <2>5. v * low \in Nat
    BY <2>2, Products
  <2>6. Merged(name, old, v) = (old % low) + v * low
    BY <1>2, <2>3 DEF Merged, low
  <2>7. QED
    BY <2>4, <2>5, <2>6
<1>3. CASE name \notin Low /\ name \notin High
  BY <1>3 DEF Merged
<1>4. QED
  BY <1>1, <1>2, <1>3

-----------------------------------------------------------------------------
(* Types and exit codes *)

LEMMA ControlInit == Init => ControlInv
BY ValueAssumption
   DEF Init, ControlInv, TypeOK, Undecided, ExitsAreLast, SkipsLeft, Phases, Sources, None

\* The steps of the reset and of run_diff change no shadow state.
LEMMA ControlFail == ControlInv /\ Fail => ControlInv'
BY DEF Fail, states, ControlInv, TypeOK, Undecided, ExitsAreLast, SkipsLeft, Phases

LEMMA ControlReset ==
  ASSUME ControlInv,
         GetResetPc \/ SkipBootRom \/ ResetSpike \/ SpikeEndsInReset \/ ResetPokedex
  PROVE  ControlInv'
<1>1. CASE GetResetPc
  <2>1. CASE Fail
    BY <2>1, ControlFail
  <2>2. CASE ~Fail
    BY <1>1, <2>2, ValueAssumption
       DEF GetResetPc, states, ControlInv, TypeOK, Undecided, ExitsAreLast, SkipsLeft, Phases
  <2>3. QED
    BY <2>1, <2>2
<1>2. CASE SkipBootRom
  BY <1>2, ValueAssumption
     DEF SkipBootRom, states, ControlInv, TypeOK, Undecided, ExitsAreLast, SkipsLeft, Phases
<1>3. CASE ResetSpike
  BY <1>3, ValueAssumption
     DEF ResetSpike, states, ControlInv, TypeOK, Undecided, ExitsAreLast, SkipsLeft, Phases
<1>4. CASE SpikeEndsInReset
  BY <1>4, ControlFail DEF SpikeEndsInReset
<1>5. CASE ResetPokedex
  BY <1>5
     DEF ResetPokedex, states, ControlInv, TypeOK, Undecided, ExitsAreLast, SkipsLeft, Phases
<1>6. QED
  BY <1>1, <1>2, <1>3, <1>4, <1>5

LEMMA ControlBegin ==
  ASSUME ControlInv, NEW s \in Sources, NEW p \in Pcs, BeginCommit(s, p)
  PROVE  ControlInv'
<1>1. p \in Nat
  BY ValueAssumption
<1>2. /\ pc' = [pc EXCEPT ![s] = p]
      /\ mask' = [mask EXCEPT ![s] = {}]
      /\ head' = None \/ head' = head
      /\ phase = Stepping(s) /\ phase' = Writing(s)
      /\ UNCHANGED <<resetPc, skipped, regs, csr, exit, report>>
  BY DEF BeginCommit
<1>3. pc' \in [Sources -> Nat] /\ mask' \in [Sources -> SUBSET Regs]
  BY <1>1, <1>2 DEF ControlInv, TypeOK
<1>4. TypeOK'
  BY <1>2, <1>3 DEF Writing, ControlInv, TypeOK, Phases
<1>5. QED
  BY <1>2, <1>4
     DEF Stepping, Writing, ControlInv, Undecided, ExitsAreLast, SkipsLeft, Sources

LEMMA ControlWriteReg ==
  ASSUME ControlInv, NEW s \in Sources, NEW r \in Regs, NEW v \in Values,
         WriteReg(s, r, v)
  PROVE  ControlInv'
BY DEF WriteReg, Writing, Sources, ControlInv, TypeOK, Undecided, ExitsAreLast,
       SkipsLeft, Phases

LEMMA ControlWriteCsr ==
  ASSUME ControlInv, NEW s \in Sources, NEW name \in Names, NEW v \in CsrValues,
         WriteCsr(s, name, v)
  PROVE  ControlInv'
<1>1. CASE ~Accepted(name, v)
  BY <1>1, ControlFail DEF WriteCsr
<1>2. CASE Accepted(name, v)
  <2> DEFINE f == FieldOf(name)
  <2>1. f \in Fields
    BY <1>2 DEF Accepted
  <2>2. csr[s][f] \in Nat /\ v \in Nat
    BY <2>1, ValueAssumption DEF ControlInv, TypeOK
  <2>3. Merged(name, csr[s][f], v) \in Nat
    BY <2>2, MergedNat
  <2>4. csr' = [csr EXCEPT ![s][f] = Merged(name, csr[s][f], v)]
    BY <1>2, Zenon DEF WriteCsr
  <2> HIDE DEF f
  <2>5. csr' \in [Sources -> [Fields -> Nat]]
    BY <2>1, <2>3, <2>4 DEF ControlInv, TypeOK
  <2>6. UNCHANGED <<phase, resetPc, skipped, head, pc, regs, mask, exit, report>>
    BY <1>2 DEF WriteCsr
  <2>7. QED
    BY <2>5, <2>6 DEF ControlInv, TypeOK, Undecided, ExitsAreLast, SkipsLeft
<1>3. QED
  BY <1>1, <1>2

LEMMA ControlEnd ==
  ASSUME ControlInv, NEW s \in Sources, EndCommit(s)
  PROVE  ControlInv'
BY DEF EndCommit, Writing, After, Sources, states, ControlInv, TypeOK, Undecided,
       ExitsAreLast, SkipsLeft, Phases

LEMMA ControlEnds ==
  ASSUME ControlInv,
         SpikeEnds \/ (\E code \in Codes : PokedexExits(code)) \/ PokedexLogBroken
  PROVE  ControlInv'
<1>1. CASE SpikeEnds
  BY <1>1
     DEF SpikeEnds, states, Sources, ControlInv, TypeOK, Undecided, ExitsAreLast,
         SkipsLeft, Phases
<1>2. ASSUME NEW code \in Codes, PokedexExits(code) PROVE ControlInv'
  BY <1>2
     DEF PokedexExits, states, Sources, ControlInv, TypeOK, Undecided, ExitsAreLast,
         SkipsLeft, Phases
<1>3. CASE PokedexLogBroken
  BY <1>3, ControlFail DEF PokedexLogBroken
<1>4. QED
  BY <1>1, <1>2, <1>3

LEMMA ControlJudge ==
  ASSUME ControlInv, JudgeRunning \/ JudgeExit
  PROVE  ControlInv'
<1>1. CASE JudgeRunning
  BY <1>1
     DEF JudgeRunning, states, Sources, ControlInv, TypeOK, Undecided, ExitsAreLast,
         SkipsLeft, Phases
<1>2. CASE JudgeExit
  BY <1>2
     DEF JudgeExit, states, Sources, ControlInv, TypeOK, Undecided, ExitsAreLast,
         SkipsLeft, Phases
<1>3. QED
  BY <1>1, <1>2

LEMMA ControlStep == ControlInv /\ [Next]_vars => ControlInv'
<1> SUFFICES ASSUME ControlInv, [Next]_vars PROVE ControlInv'
  OBVIOUS
<1>1. ASSUME NEW s \in Sources, DiffStep(s) PROVE ControlInv'
  BY <1>1, ControlBegin, ControlWriteReg, ControlWriteCsr, ControlEnd DEF DiffStep
<1>2. CASE UNCHANGED vars
  BY <1>2
     DEF vars, ControlInv, TypeOK, Undecided, ExitsAreLast, SkipsLeft
<1>3. QED
  BY <1>1, <1>2, ControlReset, ControlEnds, ControlJudge DEF Next, Sources

LEMMA ControlInvariant == Spec => []ControlInv
<1>1. QED
  BY ControlInit, ControlStep, PTL DEF Spec

\* Every reachable state of the replay is well typed, whatever the logs hold.
THEOREM TypeCorrect == Spec => []TypeOK
<1>1. ControlInv => TypeOK
  BY DEF ControlInv
<1>2. QED
  BY <1>1, ControlInvariant, PTL

-----------------------------------------------------------------------------
(* What the comparison leaves out *)

LEMMA AgreeInit == Init => UnmarkedAgree
BY DEF Init, UnmarkedAgree, Sources

LEMMA AgreeBegin ==
  ASSUME ControlInv, UnmarkedAgree, NEW s \in Sources, NEW p \in Pcs, BeginCommit(s, p)
  PROVE  UnmarkedAgree'
BY DEF BeginCommit, Stepping, Writing, Sources, ControlInv, TypeOK, UnmarkedAgree

\* A register that is written is marked.
LEMMA AgreeWriteReg ==
  ASSUME ControlInv, UnmarkedAgree, NEW s \in Sources, NEW r \in Regs, NEW v \in Values,
         WriteReg(s, r, v)
  PROVE  UnmarkedAgree'
<1>1. /\ phase = Writing(s) /\ phase' = phase
      /\ regs' = [regs EXCEPT ![s][r] = v]
      /\ mask' = [mask EXCEPT ![s] = mask[s] \cup {r}]
  BY DEF WriteReg
<1>2. phase' \in {"write1", "write2"}
  BY <1>1 DEF Writing
<1>3. ASSUME NEW q \in Regs, q \notin mask'[1] \cup mask'[2]
      PROVE  regs'[1][q] = regs'[2][q]
  <2>1. q # r /\ q \notin mask[1] \cup mask[2]
    BY <1>1, <1>3 DEF Sources, ControlInv, TypeOK
  <2>2. regs[1][q] = regs[2][q]
    BY <1>1, <1>2, <2>1 DEF UnmarkedAgree
  <2>3. \A t \in Sources : regs'[t][q] = regs[t][q]
    BY <1>1, <2>1 DEF ControlInv, TypeOK
  <2>4. QED
    BY <2>2, <2>3 DEF Sources
<1>4. phase' = "write1" => mask'[2] = {}
  BY <1>1 DEF Writing, Sources, UnmarkedAgree, ControlInv, TypeOK
<1>5. QED
  BY <1>2, <1>3, <1>4 DEF UnmarkedAgree

LEMMA AgreeFail == UnmarkedAgree /\ phase' = "failed" => UnmarkedAgree'
BY DEF UnmarkedAgree

LEMMA AgreeWriteCsr ==
  ASSUME UnmarkedAgree, NEW s \in Sources, NEW name \in Names, NEW v \in CsrValues,
         WriteCsr(s, name, v)
  PROVE  UnmarkedAgree'
<1>1. CASE ~Accepted(name, v)
  BY <1>1, AgreeFail DEF WriteCsr, Fail
<1>2. CASE Accepted(name, v)
  BY <1>2 DEF WriteCsr, Writing, UnmarkedAgree
<1>3. QED
  BY <1>1, <1>2

LEMMA AgreeEnd ==
  ASSUME UnmarkedAgree, NEW s \in Sources, EndCommit(s)
  PROVE  UnmarkedAgree'
BY DEF EndCommit, Writing, After, Sources, states, UnmarkedAgree

\* The comparison of the written registers decides for all of them.
LEMMA ComparisonExact ==
  ASSUME ControlInv, UnmarkedAgree, phase = "judge"
  PROVE  compare(combine(mask[1], mask[2]))
           <=> pc[1] = pc[2] /\ regs[1] = regs[2] /\ csr[1] = csr[2]
<1>1. ASSUME \A r \in mask[1] \cup mask[2] : regs[1][r] = regs[2][r]
      PROVE  regs[1] = regs[2]
  <2>1. \A r \in Regs : regs[1][r] = regs[2][r]
    BY <1>1 DEF UnmarkedAgree
  <2>2. regs[1] \in [Regs -> Values] /\ regs[2] \in [Regs -> Values]
    BY DEF ControlInv, TypeOK, Sources
  <2>3. QED
    BY <2>1, <2>2
<1>2. QED
  BY <1>1 DEF compare, combine

LEMMA AgreeJudgeRunning ==
  ASSUME ControlInv, UnmarkedAgree, JudgeRunning
  PROVE  UnmarkedAgree'
<1>1. CASE compare(combine(mask[1], mask[2]))
  BY <1>1, ComparisonExact DEF JudgeRunning, states, Sources, UnmarkedAgree
<1>2. CASE ~compare(combine(mask[1], mask[2]))
  BY <1>2 DEF JudgeRunning, UnmarkedAgree
<1>3. QED
  BY <1>1, <1>2

LEMMA AgreeReset ==
  ASSUME ControlInv, UnmarkedAgree,
         GetResetPc \/ SkipBootRom \/ ResetSpike \/ SpikeEndsInReset \/ ResetPokedex
  PROVE  UnmarkedAgree'
<1>1. UNCHANGED states /\ UNCHANGED mask
  BY DEF GetResetPc, SkipBootRom, ResetSpike, SpikeEndsInReset, ResetPokedex, Fail
<1>2. /\ phase \in {"start", "reset1", "reset2"}
      /\ phase' \in {"reset1", "reset2", "step1", "failed"}
  BY DEF GetResetPc, SkipBootRom, ResetSpike, SpikeEndsInReset, ResetPokedex, Fail
<1>3. QED
  BY <1>1, <1>2 DEF states, UnmarkedAgree

LEMMA AgreeEnds ==
  ASSUME UnmarkedAgree,
         SpikeEnds \/ (\E code \in Codes : PokedexExits(code)) \/ PokedexLogBroken
  PROVE  UnmarkedAgree'
<1>1. CASE SpikeEnds
  BY <1>1 DEF SpikeEnds, states, UnmarkedAgree
<1>2. CASE \E code \in Codes : PokedexExits(code)
  BY <1>2 DEF PokedexExits, states, UnmarkedAgree
<1>3. CASE PokedexLogBroken
  BY <1>3, AgreeFail DEF PokedexLogBroken, Fail
<1>4. QED
  BY <1>1, <1>2, <1>3

LEMMA AgreeStep == ControlInv /\ UnmarkedAgree /\ [Next]_vars => UnmarkedAgree'
<1> SUFFICES ASSUME ControlInv, UnmarkedAgree, [Next]_vars PROVE UnmarkedAgree'
  OBVIOUS
<1>1. ASSUME NEW s \in Sources, DiffStep(s) PROVE UnmarkedAgree'
  BY <1>1, AgreeBegin, AgreeWriteReg, AgreeWriteCsr, AgreeEnd DEF DiffStep
<1>2. CASE JudgeExit
  BY <1>2 DEF JudgeExit, UnmarkedAgree
<1>3. CASE UNCHANGED vars
  BY <1>3 DEF vars, UnmarkedAgree
<1>4. QED
  BY <1>1, <1>2, <1>3, AgreeReset, AgreeEnds, AgreeJudgeRunning DEF Next, Sources

LEMMA AgreeInvariant == Spec => [](ControlInv /\ UnmarkedAgree)
<1>1. QED
  BY ControlInvariant, AgreeInit, AgreeStep, PTL DEF Spec

-----------------------------------------------------------------------------
(* The replay implements the comparison of whole states *)

LEMMA LockInit == Init => Lock!Init
BY DEF Init, Sources, Turn, Lock!Init

\* A run that fails has no verdict.
LEMMA LockFail ==
  ASSUME ControlInv, UNCHANGED <<states, exit>>, phase \notin {"report", "failed"},
         phase' = "failed"
  PROVE  Lock!Next
BY DEF ControlInv, Undecided, states, Turn, Lock!Next, Lock!Abort

\* Up to the first round nothing is seen.
LEMMA LockReset ==
  ASSUME ControlInv,
         GetResetPc \/ SkipBootRom \/ ResetSpike \/ SpikeEndsInReset \/ ResetPokedex
  PROVE  [Lock!Next]_(Lock!vars)
<1>1. /\ UNCHANGED <<states, exit, report>>
      /\ phase \in {"start", "reset1", "reset2"}
      /\ phase' \in {"reset1", "reset2", "step1", "failed"}
  BY DEF GetResetPc, SkipBootRom, ResetSpike, SpikeEndsInReset, ResetPokedex, Fail
<1>2. CASE phase' = "failed"
  BY <1>1, <1>2, LockFail
<1>3. CASE phase' # "failed"
  BY <1>1, <1>3 DEF states, Turn, Lock!vars
<1>4. QED
  BY <1>2, <1>3

\* A step of one entry moves its machine and leaves the other alone.
LEMMA LockMove ==
  ASSUME ControlInv, NEW s \in Sources, NEW t \in Sources \ {s},
         phase \in {Stepping(s), Writing(s)},
         phase' \in {Stepping(s), Writing(s), After(s)},
         pc'[t] = pc[t], regs'[t] = regs[t], csr'[t] = csr[t],
         UNCHANGED <<exit, report>>
  PROVE  Lock!Next
<1>1. CASE s = 1
  <2>1. t = 2
    BY <1>1 DEF Sources
  <2>2. exit[1] = None
    BY <1>1 DEF ControlInv, ExitsAreLast, Stepping, Writing
  <2>3. Lock!MoveLeft
    BY <1>1, <2>1, <2>2 DEF Stepping, Writing, After, Turn, Lock!MoveLeft
  <2>4. QED
    BY <1>1, <2>3 DEF ControlInv, Undecided, Stepping, Writing, Lock!Next
<1>2. CASE s = 2
  <2>1. t = 1
    BY <1>2 DEF Sources
  <2>2. exit[2] = None
    BY <1>2 DEF ControlInv, ExitsAreLast, Stepping, Writing
  <2>3. Lock!MoveRight
    BY <1>2, <2>1, <2>2 DEF Stepping, Writing, After, Turn, Lock!MoveRight
  <2>4. QED
    BY <1>2, <2>3 DEF ControlInv, Undecided, Stepping, Writing, Lock!Next
<1>3. QED
  BY <1>1, <1>2 DEF Sources

LEMMA LockDiffStep ==
  ASSUME ControlInv, NEW s \in Sources, DiffStep(s)
  PROVE  Lock!Next
<1>1. PICK t \in Sources \ {s} : TRUE
  BY DEF Sources
<1>2. ASSUME NEW p \in Pcs, BeginCommit(s, p) PROVE Lock!Next
  <2>1. /\ phase = Stepping(s) /\ phase' = Writing(s)
        /\ pc'[t] = pc[t] /\ UNCHANGED <<regs, csr, exit, report>>
    BY <1>1, <1>2 DEF BeginCommit, ControlInv, TypeOK
  <2>2. QED
    BY <1>1, <2>1, LockMove
<1>3. ASSUME NEW r \in Regs, NEW v \in Values, WriteReg(s, r, v) PROVE Lock!Next
  <2>1. /\ phase = Writing(s) /\ phase' = phase
        /\ regs'[t] = regs[t] /\ UNCHANGED <<pc, csr, exit, report>>
    BY <1>1, <1>3 DEF WriteReg, ControlInv, TypeOK
  <2>2. QED
    BY <1>1, <2>1, LockMove
<1>4. ASSUME NEW name \in Names, NEW v \in CsrValues, WriteCsr(s, name, v)
      PROVE  Lock!Next
  <2>1. CASE ~Accepted(name, v)
    <3>1. phase = Writing(s) /\ Fail
      BY <1>4, <2>1 DEF WriteCsr
    <3>2. QED
      BY <3>1, LockFail DEF Fail, Writing
  <2>2. CASE Accepted(name, v)
    <3>1. /\ phase = Writing(s) /\ phase' = phase
          /\ csr'[t] = csr[t] /\ UNCHANGED <<pc, regs, exit, report>>
      BY <1>1, <1>4, <2>2 DEF WriteCsr, ControlInv, TypeOK
    <3>2. QED
      BY <1>1, <3>1, LockMove
  <2>3. QED
    BY <2>1, <2>2
<1>5. CASE EndCommit(s)
  <2>1. phase = Writing(s) /\ phase' = After(s) /\ UNCHANGED <<pc, regs, csr, exit, report>>
    BY <1>5 DEF EndCommit, states
  <2>2. QED
    BY <1>1, <2>1, LockMove
<1>6. QED
  BY <1>2, <1>3, <1>4, <1>5 DEF DiffStep

\* A log that ends moves no machine.
LEMMA LockEnds ==
  ASSUME ControlInv,
         SpikeEnds \/ (\E code \in Codes : PokedexExits(code)) \/ PokedexLogBroken
  PROVE  Lock!Next
<1>1. CASE SpikeEnds
  <2>1. exit'[2] = exit[2] /\ phase = "step1" /\ phase' = "step2" /\ UNCHANGED <<states, report>>
    BY <1>1 DEF SpikeEnds, ControlInv, TypeOK, Sources
  <2>2. QED
    BY <2>1 DEF ControlInv, Undecided, states, Turn, Lock!Next, Lock!MoveLeft
<1>2. ASSUME NEW code \in Codes, PokedexExits(code) PROVE Lock!Next
  <2>1. exit'[1] = exit[1] /\ phase = "step2" /\ phase' = "judge" /\ UNCHANGED <<states, report>>
    BY <1>2 DEF PokedexExits, ControlInv, TypeOK, Sources
  <2>2. QED
    BY <2>1 DEF ControlInv, Undecided, states, Turn, Lock!Next, Lock!MoveRight
<1>3. CASE PokedexLogBroken
  BY <1>3, LockFail DEF PokedexLogBroken, Fail
<1>4. QED
  BY <1>1, <1>2, <1>3

\* A round is judged as the comparison of the whole states judges it.
LEMMA LockJudge ==
  ASSUME ControlInv, UnmarkedAgree, JudgeRunning \/ JudgeExit
  PROVE  Lock!Judge /\ Lock!Next
<1>1. report = "none" /\ phase = "judge"
  BY DEF ControlInv, Undecided, JudgeRunning, JudgeExit
<1>2. CASE JudgeRunning
  <2>1. exit[1] = None /\ exit[2] = None /\ UNCHANGED <<states, exit>>
    BY <1>2 DEF JudgeRunning, Sources
  <2>2. CASE compare(combine(mask[1], mask[2]))
    <3>1. phase' = "step1" /\ report' = "none"
      BY <1>1, <1>2, <2>2 DEF JudgeRunning
    <3>2. pc[1] = pc[2] /\ regs[1] = regs[2] /\ csr[1] = csr[2]
      BY <1>1, <2>2, ComparisonExact
    <3>3. QED
      BY <1>1, <2>1, <3>1, <3>2 DEF states, Turn, Lock!Judge, Lock!Next
  <2>3. CASE ~compare(combine(mask[1], mask[2]))
    <3>1. phase' = "report" /\ report' = "different"
      BY <1>2, <2>3 DEF JudgeRunning
    <3>2. ~(pc[1] = pc[2] /\ regs[1] = regs[2] /\ csr[1] = csr[2])
      BY <1>1, <2>3, ComparisonExact
    <3>3. QED
      BY <1>1, <2>1, <3>1, <3>2 DEF states, Turn, Lock!Judge, Lock!Next
  <2>4. QED
    BY <2>2, <2>3
<1>3. CASE JudgeExit
  <2>1. exit[1] # None \/ exit[2] # None
    BY <1>3 DEF JudgeExit, Sources
  <2>2. /\ UNCHANGED <<states, exit>> /\ phase' = "report"
        /\ report' = IF is_same(exit[1], exit[2]) THEN "same" ELSE "different"
    BY <1>3 DEF JudgeExit
  <2>3. QED
    BY <1>1, <2>1, <2>2 DEF states, Turn, Lock!Judge, Lock!Next
<1>4. QED
  BY <1>2, <1>3

LEMMA LockStep == ControlInv /\ UnmarkedAgree /\ [Next]_vars => [Lock!Next]_(Lock!vars)
<1> SUFFICES ASSUME ControlInv, UnmarkedAgree, [Next]_vars PROVE [Lock!Next]_(Lock!vars)
  OBVIOUS
<1>1. CASE UNCHANGED vars
  BY <1>1 DEF vars, Turn, Lock!vars
<1>2. QED
  BY <1>1, LockReset, LockDiffStep, LockEnds, LockJudge DEF Next, Sources

\* Comparing only the registers that a round has written is as good as
\* comparing the whole states in every round (replay.rs:61-63), for any logs.
THEOREM ReplayComparesWholeStates == Spec => ComparesWholeStates
<1>1. QED
  BY AgreeInvariant, LockInit, LockStep, PTL DEF Spec, ComparesWholeStates, Lock!Spec

-----------------------------------------------------------------------------
(* The verdict *)

\* Under the policy that run_subcommand chooses, "same" is said only of a run
\* that exited with 0, or of one whose code is that of Spike's ended log.
THEOREM SameOnlyOnSuccess ==
  ASSUME Policy = "SuccessSource2"
  PROVE  Spec => []SameMeansSuccess
<1> DEFINE Verdict == SameMeansSuccess /\ (report = "same" => phase = "report")
<1>1. Init => Verdict
  BY DEF Init, SameMeansSuccess
<1>2. ControlInv /\ Verdict /\ [Next]_vars => Verdict'
  <2> SUFFICES ASSUME ControlInv, Verdict, [Next]_vars PROVE Verdict'
    OBVIOUS
  <2>1. CASE JudgeExit
    <3>1. is_same(exit[1], exit[2]) =>
            exit[2] = 0 \/ (exit[1] = MaxCode /\ exit[2] = MaxCode)
      BY <2>1 DEF JudgeExit, is_same, Sources, ControlInv, ExitsAreLast, None
    <3>2. QED
      BY <2>1, <3>1 DEF JudgeExit, SameMeansSuccess
  <2>2. CASE report' = "same" /\ ~JudgeExit /\ phase = "report"
    BY <2>2 DEF Next, DiffStep, GetResetPc, SkipBootRom, ResetSpike, SpikeEndsInReset,
         ResetPokedex, BeginCommit, WriteReg, WriteCsr, EndCommit, SpikeEnds,
         PokedexExits, PokedexLogBroken, JudgeRunning, Stepping, Writing, vars,
         SameMeansSuccess
  <2>3. CASE report' = "same" /\ ~JudgeExit /\ phase # "report"
    <3>1. report # "same"
      BY <2>3
    <3>2. report' = report \/ report' = "different"
      BY <2>3 DEF Next, DiffStep, GetResetPc, SkipBootRom, ResetSpike, SpikeEndsInReset,
         ResetPokedex, BeginCommit, WriteReg, WriteCsr, EndCommit, SpikeEnds,
         PokedexExits, PokedexLogBroken, JudgeRunning, Fail, vars
    <3>3. QED
      BY <2>3, <3>1, <3>2
  <2>4. CASE report' # "same"
    BY <2>4 DEF SameMeansSuccess
  <2>5. QED
    BY <2>1, <2>2, <2>3, <2>4
<1>3. Verdict => SameMeansSuccess
  OBVIOUS
<1> HIDE DEF Verdict
<1>4. QED
  BY <1>1, <1>2, <1>3, ControlInvariant, PTL DEF Spec
=============================================================================
