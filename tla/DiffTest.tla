------------------------------ MODULE DiffTest ------------------------------
(***************************************************************************)
(* `pokedex difftest`: the commit log of Spike (source 1) and the log of   *)
(* Pokedex (source 2) are replayed on two shadow states in lockstep.       *)
(*                                                                         *)
(* The logs are read once and in order, so an entry is chosen when it is   *)
(* read; an entry's writes are applied one after another.  A register is   *)
(* an X, F or V register; its value is data.                               *)
(***************************************************************************)
EXTENDS Integers

CONSTANTS
  Regs,       \* registers that the shadow states hold
  Values,     \* their values
  CsrValues,  \* values that are written to CSRs
  Pcs,        \* program counters in the logs
  Codes,      \* exit codes in the Pokedex log
  MaxCode,    \* u32::MAX
  MaxSkip,    \* MAX_SKIP, 16 in the code: entries of Spike's boot ROM
  Fields,     \* the fields of CsrState
  Names,      \* the CSR names in the logs
  LowRange,   \* number of values of fflags (2^5) and of vxsat (2), by whole CSR
  HighRange,  \* number of values of frm (2^3) and of vxrm (2^2)
  Policy      \* the SamePolicy

None == -1    \* no exit code, no pc

\* fcsr holds frm above fflags, and vcsr holds vxrm above vxsat.
Low == {"fflags", "vxsat"}
High == {"frm", "vxrm"}
Whole == {"fcsr", "vcsr"}

\* The field of CsrState that a name stands for
FieldOf(name) ==
  CASE name \in {"fflags", "frm"} -> "fcsr"
    [] name \in {"vxsat", "vxrm"} -> "vcsr"
    [] OTHER -> name

ASSUME ValueAssumption == /\ Values \subseteq Nat /\ 0 \in Values
                          /\ CsrValues \subseteq Nat
                          /\ Pcs \subseteq Nat
                          /\ Codes \subseteq Nat
                          /\ MaxCode \in Nat
                          /\ MaxSkip \in Nat \ {0}
ASSUME CsrAssumption == /\ LowRange \in [Whole -> Nat \ {0}]
                        /\ HighRange \in [Whole -> Nat \ {0}]
ASSUME PolicyAssumption == Policy \in {"Strict", "SuccessSource1", "SuccessSource2"}

Sources == {1, 2}

VARIABLES
  phase,     \* where run_diff is
  resetPc,   \* expected_pc of the resets
  skipped,   \* entries of source 1 skipped by diff_reset
  head,      \* pc of the entry of source 1 that was looked at and not consumed
  pc, regs, csr,   \* the shadow states, one of each per source
  mask,      \* the DiffRecord of each source
  exit,      \* the exit code of each source
  report     \* is_same of the DiffReport

vars == <<phase, resetPc, skipped, head, pc, regs, csr, mask, exit, report>>
states == <<pc, regs, csr>>

Phases == {"start", "reset1", "reset2", "step1", "write1", "step2", "write2",
           "judge", "report", "failed"}

TypeOK ==
  /\ phase \in Phases
  /\ resetPc \in Pcs \cup {None}
  /\ skipped \in 0 .. MaxSkip
  /\ head \in Pcs \cup {None}
  /\ pc \in [Sources -> Nat]
  /\ regs \in [Sources -> [Regs -> Values]]
  /\ csr \in [Sources -> [Fields -> Nat]]
  /\ mask \in [Sources -> SUBSET Regs]
  /\ exit \in [Sources -> Codes \cup {MaxCode, None}]
  /\ report \in {"none", "same", "different"}

\* Two CpuState::new(): the defaults of CsrState are data.
Init ==
  /\ phase = "start"
  /\ resetPc = None
  /\ skipped = 0
  /\ head = None
  /\ pc = [s \in Sources |-> 0]
  /\ regs = [s \in Sources |-> [r \in Regs |-> 0]]
  /\ csr = [s \in Sources |-> [f \in Fields |-> 0]]
  /\ mask = [s \in Sources |-> {}]
  /\ exit = [s \in Sources |-> None]
  /\ report = "none"

\* An error is returned, or a panic unwinds: there is no report.
Fail == phase' = "failed" /\ UNCHANGED <<resetPc, skipped, head, states, mask, exit, report>>

-----------------------------------------------------------------------------
(* Reset *)

\* The log of Pokedex starts with its reset pc, or get_reset_pc panics.
GetResetPc ==
  /\ phase = "start"
  /\ \/ /\ resetPc' \in Pcs
        /\ phase' = "reset1"
        /\ UNCHANGED <<skipped, head, states, mask, exit, report>>
     \/ Fail

\* Mutant of SkipBootRom: one entry too many.
SkipBootRomOneMore ==
  /\ phase = "reset1"
  /\ skipped' = skipped + 1
  /\ phase' = IF skipped = MaxSkip THEN "failed" ELSE phase
  /\ UNCHANGED <<resetPc, head, states, mask, exit, report>>

\* diff_reset of Spike's log: it begins in the boot ROM, so entries are
\* skipped until the one at the reset pc, which stays to be read.
SkipBootRom ==
  /\ phase = "reset1"
  /\ skipped' = skipped + 1
  /\ phase' = IF skipped + 1 = MaxSkip THEN "failed" ELSE phase
  /\ UNCHANGED <<resetPc, head, states, mask, exit, report>>

ResetSpike ==
  /\ phase = "reset1"
  /\ head' = resetPc
  /\ skipped' = 0
  /\ phase' = "reset2"
  /\ UNCHANGED <<resetPc, states, mask, exit, report>>

SpikeEndsInReset == phase = "reset1" /\ Fail

\* diff_reset of the Pokedex log finds the entry get_reset_pc has found.
ResetPokedex ==
  /\ phase = "reset2"
  /\ phase' = "step1"
  /\ resetPc' = None
  /\ UNCHANGED <<skipped, head, states, mask, exit, report>>

-----------------------------------------------------------------------------
(* diff_step *)

Stepping(s) == IF s = 1 THEN "step1" ELSE "step2"
Writing(s) == IF s = 1 THEN "write1" ELSE "write2"
After(s) == IF s = 1 THEN "step2" ELSE "judge"

\* A commit entry: its pc first, then its writes.
BeginCommit(s, p) ==
  /\ phase = Stepping(s)
  /\ s = 1 /\ head # None => p = head
  /\ phase' = Writing(s)
  /\ pc' = [pc EXCEPT ![s] = p]
  /\ mask' = [mask EXCEPT ![s] = {}]
  /\ head' = IF s = 1 THEN None ELSE head
  /\ UNCHANGED <<resetPc, skipped, regs, csr, exit, report>>

\* Mutant of WriteReg: the register is not entered in the DiffRecord.
WriteRegUnmarked(s, r, v) ==
  /\ phase = Writing(s)
  /\ regs' = [regs EXCEPT ![s][r] = v]
  /\ UNCHANGED <<phase, resetPc, skipped, head, pc, csr, mask, exit, report>>

\* write_gpr, write_fpr, write_vreg
WriteReg(s, r, v) ==
  /\ phase = Writing(s)
  /\ regs' = [regs EXCEPT ![s][r] = v]
  /\ mask' = [mask EXCEPT ![s] = @ \cup {r}]
  /\ UNCHANGED <<phase, resetPc, skipped, head, pc, csr, exit, report>>

\* Bits outside of the register are refused, and so is a name without an arm in
\* write_csr: one that CsrState does not have, as mcause, and mtval, which it has.
Accepted(name, v) ==
  /\ FieldOf(name) \in Fields \ {"mtval"}
  /\ name \in Low => v < LowRange[FieldOf(name)]
  /\ name \in High => v < HighRange[FieldOf(name)]
  /\ name \in Whole => v < LowRange[name] * HighRange[name]

\* The new value of the field: a write of a part keeps the other part.
Merged(name, old, v) ==
  LET low == LowRange[FieldOf(name)] IN
  CASE name \in Low -> (old \div low) * low + v
    [] name \in High -> (old % low) + v * low
    [] OTHER -> v

WriteCsr(s, name, v) ==
  /\ phase = Writing(s)
  /\ IF ~Accepted(name, v)
     THEN Fail
     ELSE /\ csr' = [csr EXCEPT ![s][FieldOf(name)] = Merged(name, @, v)]
          /\ UNCHANGED <<phase, resetPc, skipped, head, pc, regs, mask, exit, report>>

EndCommit(s) ==
  /\ phase = Writing(s)
  /\ phase' = After(s)
  /\ UNCHANGED <<resetPc, skipped, head, states, mask, exit, report>>

\* Spike's log is at its end.
SpikeEnds ==
  /\ phase = "step1"
  /\ head = None
  /\ exit' = [exit EXCEPT ![1] = MaxCode]
  /\ phase' = "step2"
  /\ UNCHANGED <<resetPc, skipped, head, states, mask, report>>

PokedexExits(code) ==
  /\ phase = "step2"
  /\ exit' = [exit EXCEPT ![2] = code]
  /\ phase' = "judge"
  /\ UNCHANGED <<resetPc, skipped, head, states, mask, report>>

\* The log ends without an exit entry, or another entry follows the reset.
PokedexLogBroken == phase = "step2" /\ Fail

-----------------------------------------------------------------------------
(* run_diff *)

combine(a, b) == a \cup b

compare(record) ==
  /\ pc[1] = pc[2]
  /\ \A r \in record : regs[1][r] = regs[2][r]
  /\ csr[1] = csr[2]

\* Mutant of is_same: an exit code 0 of either source will do.
is_same_any(exit1, exit2) == exit1 = exit2 \/ exit2 # None

is_same(exit1, exit2) ==
  \/ exit1 = exit2
  \/ Policy = "SuccessSource1" /\ exit1 = 0
  \/ Policy = "SuccessSource2" /\ exit2 = 0

JudgeRunning ==
  /\ phase = "judge"
  /\ \A s \in Sources : exit[s] = None
  /\ IF compare(combine(mask[1], mask[2]))
     THEN phase' = "step1" /\ UNCHANGED report
     ELSE phase' = "report" /\ report' = "different"
  /\ mask' = [s \in Sources |-> {}]
  /\ UNCHANGED <<resetPc, skipped, head, states, exit>>

JudgeExit ==
  /\ phase = "judge"
  /\ \E s \in Sources : exit[s] # None
  /\ phase' = "report"
  /\ report' = IF is_same(exit[1], exit[2]) THEN "same" ELSE "different"
  /\ UNCHANGED <<resetPc, skipped, head, states, mask, exit>>

DiffStep(s) ==
  \/ \E p \in Pcs : BeginCommit(s, p)
  \/ \E r \in Regs, v \in Values : WriteReg(s, r, v)
  \/ \E name \in Names, v \in CsrValues : WriteCsr(s, name, v)
  \/ EndCommit(s)

Next ==
  \/ GetResetPc \/ SkipBootRom \/ ResetSpike \/ SpikeEndsInReset \/ ResetPokedex
  \/ DiffStep(1) \/ DiffStep(2)
  \/ SpikeEnds \/ (\E code \in Codes : PokedexExits(code)) \/ PokedexLogBroken
  \/ JudgeRunning \/ JudgeExit

Spec == Init /\ [][Next]_vars

-----------------------------------------------------------------------------
(* Properties *)

Turn ==
  CASE phase \in {"step2", "write2"} -> "right"
    [] phase = "judge" -> "judge"
    [] OTHER -> "left"

Lock == INSTANCE Lockstep WITH
  left <- <<pc[1], regs[1], csr[1]>>, right <- <<pc[2], regs[2], csr[2]>>,
  leftExit <- exit[1], rightExit <- exit[2],
  turn <- Turn, verdict <- IF phase = "failed" THEN "aborted" ELSE report,
  SameExit <- is_same

\* "The record is conservative, which means if the mask is spurious set, the
\* comparison may be slower but still correct" (replay.rs:61-63): comparing
\* only the registers that the two entries of a round have written is as good
\* as comparing the whole states, in every round.
ComparesWholeStates == Lock!Spec

\* "allow source 2 exit early, provided with exit code 0" (mod.rs:154): a log
\* of Spike that ends first, an exit with another code, and a run that never
\* exits are not reported as the same.  The one exception is an exit code
\* that happens to be the u32::MAX of a log that ended in that very round.
SameMeansSuccess ==
  report = "same" => exit[2] = 0 \/ (exit[1] = MaxCode /\ exit[2] = MaxCode)
=============================================================================
