------------------------------- MODULE Cosim --------------------------------
(***************************************************************************)
(* The differential test end to end: Spike and Pokedex run one program,    *)
(* each writes its commit log, a log may end early or in the middle of a   *)
(* line, Pokedex may be wrong about an instruction, and `pokedex difftest` *)
(* parses both logs and replays them (DiffTest).                           *)
(*                                                                         *)
(* The machines are external: Spike's output is what the parser and the    *)
(* comments of spike.rs expect of it, and an instruction is its kind.      *)
(***************************************************************************)
EXTENDS DiffTest, SpikeLog

CONSTANTS
  MaxInsts,   \* bound: instructions of the program, of which the last is its exit
  TrapPc,     \* where the program has its trap handler
  ListedCsrs  \* the diff_csr! lines of pretty_print_diff

\* The registers are x1, f1 and v1, by their kinds; no instruction of the
\* program writes f1.
X1 == "x"
F1 == "f"
V1 == "v"

ASSUME CosimAssumption ==
  /\ Regs = {X1, F1, V1} /\ Fields = {"fcsr", "mscratch"} /\ {0, 1} \subseteq Values
  /\ MaxInsts \in Nat

VARIABLES
  stage,     \* "run" of both machines, "parse" of the logs, "replay"
  hart,      \* the architectural state of Spike (1) and Pokedex (2)
  ended,     \* what ended Pokedex: "no", an exit, or "crash"
  gold,      \* the commits that Spike prints
  text,      \* Spike's log
  parsed,    \* what backend_from_log makes of it
  dut,       \* the entries of the Pokedex log
  torn,      \* does the Pokedex log end within a line?
  at,        \* index of each log
  next,      \* index of the next write of the entry
  touched,   \* history: registers and CSRs that each machine has written
  differ,    \* history: was a register or CSR ever different, once both wrote it?
  causes     \* history: what could make the verdict "different"

runVars == <<hart, ended, gold, dut, touched, differ>>
logVars == <<text, parsed, torn>>
cosimVars == <<vars, stage, runVars, logVars, at, next, causes>>

-----------------------------------------------------------------------------
(* The program and the two machines *)

BootPc == 0
ResetPc == 4

\* The handler lies behind all that the program reaches without a trap: one
\* that is entered at the address of the instruction that has trapped leaves
\* no trace in either log.
ASSUME HandlerAssumption == TrapPc \in Nat /\ TrapPc > ResetPc + 8 * MaxInsts

Inst(op, v) == [op |-> op, v |-> v]
Insts ==
  {Inst(op, 0) : op \in {"nop", "jump", "li", "vmv", "load", "amo", "mcause", "ecall", "exit"}}
  \cup {Inst(op, 1) : op \in {"li", "vli", "fflags", "frm", "mscratch", "exit"}}

Fcsr(h) == h.frm * LowRange["fcsr"] + h.fflags

\* What an instruction does to the state
Execute(h, i) ==
  [h EXCEPT
    !.pc = IF i.op = "ecall" THEN TrapPc ELSE IF i.op = "jump" THEN @ + 8
           ELSE IF i.op = "spin" THEN @ ELSE @ + 4,
    !.x1 = IF i.op = "li" THEN i.v ELSE IF i.op \in {"load", "amo"} THEN 1 ELSE @,
    !.v1 = IF i.op = "vli" THEN i.v ELSE IF i.op = "vmv" THEN h.x1 ELSE @,
    !.fflags = IF i.op = "fflags" THEN i.v ELSE @,
    !.frm = IF i.op = "frm" THEN i.v ELSE @,
    !.mscratch = IF i.op = "mscratch" THEN i.v ELSE @,
    !.done = i.op \in {"exit", "spin"}]

\* What it writes, by the names of the shadow state
Touches(i) ==
  CASE i.op \in {"li", "load", "amo"} -> {X1}
    [] i.op \in {"vli", "vmv"} -> {V1}
    [] i.op \in {"fflags", "frm"} -> {"fcsr"}
    [] i.op = "mscratch" -> {"mscratch"}
    [] OTHER -> {}

ValueOf(h, name) ==
  CASE name = X1 -> h.x1
    [] name = V1 -> h.v1
    [] name = "fcsr" -> Fcsr(h)
    [] name = "mscratch" -> h.mscratch

XWrite(h) == Modification("x", 1, "", h.x1)
VWrite(h) == Modification("v", 1, "", h.v1)
CsrWrite(number, name, bits) == Modification("csr", number, name, bits)

\* What Pokedex logs of it: fcsr as a whole
DutWrites(h, i) ==
  CASE i.op \in {"li", "load", "amo"} -> <<XWrite(h)>>
    [] i.op \in {"vli", "vmv"} -> <<VWrite(h)>>
    [] i.op \in {"fflags", "frm"} -> <<CsrWrite(3, "fcsr", Fcsr(h))>>
    [] i.op = "mscratch" -> <<CsrWrite(832, "mscratch", h.mscratch)>>
    [] i.op = "mcause" -> <<CsrWrite(834, "mcause", 0)>>
    [] OTHER -> <<>>

\* What Spike logs: the part of fcsr, the vector context, memory accesses
GoldMods(h, i) ==
  CASE i.op = "fflags" -> <<CsrWrite(1, "fflags", h.fflags)>>
    [] i.op = "frm" -> <<CsrWrite(2, "frm", h.frm)>>
    [] i.op \in {"vli", "vmv"} -> <<Modification("ctx", 0, "", 8), VWrite(h)>>
    [] i.op = "load" -> <<XWrite(h), Modification("load", 64, "", 0)>>
    [] i.op = "amo" -> <<XWrite(h), Modification("load", 64, "", 0),
                         Modification("store", 64, "", 1)>>
    [] i.op = "exit" -> <<Modification("store", 128, "", i.v)>>
    [] OTHER -> DutWrites(h, i)

Commit(p, mods) == [pc |-> p, inst |-> 1, mods |-> mods]
Entry(kind, p, mods, code) == [kind |-> kind, pc |-> p, mods |-> mods, code |-> code]

\* Spike has run its boot ROM, which leaves a value in a register.
CosimInit ==
  /\ Init
  /\ stage = "run"
  /\ hart = [m \in Sources |->
       [pc |-> ResetPc, x1 |-> IF m = 1 THEN 1 ELSE 0, v1 |-> 0,
        fflags |-> 0, frm |-> 0, mscratch |-> 0, done |-> FALSE]]
  /\ ended = "no"
  /\ gold = <<Commit(BootPc, <<Modification("x", 1, "", 1)>>)>>
  /\ dut = <<Entry("reset", ResetPc, <<>>, 0)>>
  /\ text = <<>> /\ parsed = <<>> /\ torn = FALSE
  /\ at = [m \in Sources |-> 1] /\ next = 1
  /\ touched = [m \in Sources |-> {}]
  /\ differ = FALSE /\ causes = {}

\* One thing goes wrong in a run.
Faultless == causes \cap {"fault", "crash", "cut"} = {}

\* The causes that are not faults: Spike does not log a trapped instruction,
\* Pokedex does; the replay refuses mcause; the boot ROM's values are read.
CausesOf(i) ==
  (IF i.op = "ecall" THEN {"trap"} ELSE {})
  \cup (IF i.op = "mcause" THEN {"csr"} ELSE {})
  \cup (IF i.op = "vmv" /\ X1 \notin touched[1] \cap touched[2] THEN {"boot rom"} ELSE {})

GoldLogs(h, i) == IF i.op = "ecall" THEN <<>> ELSE <<Commit(hart[1].pc, GoldMods(h, i))>>
DutLogs(h, i) ==
  <<Entry("commit", hart[2].pc, DutWrites(h, i), 0)>>
  \o (IF i.op = "exit" THEN <<Entry("exit", 0, <<>>, i.v)>> ELSE <<>>)

Program == IF hart[1].done THEN {Inst("spin", 0)} ELSE Insts

\* Spike executes i, and Pokedex j.
Step(i, j) ==
  /\ stage = "run" /\ ended = "no" /\ Len(dut) <= MaxInsts
  /\ Len(dut) = MaxInsts => i.op \in {"exit", "spin"}
  /\ i = j \/ Faultless
  /\ LET g == Execute(hart[1], i)
         d == Execute(hart[2], j)
         names1 == touched[1] \cup Touches(i)
         names2 == touched[2] \cup Touches(j)
     IN
     /\ hart' = [m \in Sources |-> IF m = 1 THEN g ELSE d]
     /\ touched' = [m \in Sources |-> IF m = 1 THEN names1 ELSE names2]
     /\ differ' = (\/ differ
                   \/ hart[1].pc # hart[2].pc
                   \/ \E name \in names1 \cap names2 : ValueOf(g, name) # ValueOf(d, name))
     /\ gold' = gold \o GoldLogs(g, i)
     /\ dut' = dut \o DutLogs(d, j)
  /\ ended' = IF j.op = "exit" THEN "exit" ELSE "no"
  /\ causes' = causes \cup CausesOf(i) \cup (IF i = j THEN {} ELSE {"fault"})
                 \cup (IF j.op = "exit" /\ j.v # 0 THEN {"code"} ELSE {})
  /\ UNCHANGED <<vars, stage, logVars, at, next>>

\* Spike does not know of the exit register and runs on.
RunOn(i) ==
  /\ stage = "run" /\ ended # "no" /\ Len(gold) < Len(dut)
  /\ LET g == Execute(hart[1], i) IN
     /\ hart' = [hart EXCEPT ![1] = g]
     /\ gold' = gold \o GoldLogs(g, i)
     /\ GoldLogs(g, i) # <<>>
  /\ UNCHANGED <<vars, stage, ended, dut, touched, differ, logVars, at, next, causes>>

\* Pokedex panics, aborts or is killed: what its BufWriter holds is lost.
Crash ==
  /\ stage = "run" /\ ended = "no" /\ Faultless
  /\ ended' = "crash"
  /\ \E n \in 0 .. Len(dut) : dut' = SubSeq(dut, 1, n)
  /\ torn' \in BOOLEAN
  /\ causes' = causes \cup {"crash"}
  /\ UNCHANGED <<vars, stage, hart, gold, text, parsed, touched, differ, at, next>>

Lines == [k \in DOMAIN gold |-> PrintLine(gold[k])]

\* Spike is stopped, at a line or within one.
StopSpike ==
  /\ stage = "run" /\ ended # "no"
  /\ stage' = "parse"
  /\ \/ text' = Lines /\ UNCHANGED causes
     \/ /\ Faultless
        /\ \E n \in DOMAIN gold :
             \/ text' = SubSeq(Lines, 1, n - 1)
             \/ \E line \in LineCuts(Lines[n]) \ {<<>>} :
                  text' = SubSeq(Lines, 1, n - 1) \o <<line>>
        /\ causes' = causes \cup {"cut"}
  /\ UNCHANGED <<vars, runVars, parsed, torn, at, next>>

-----------------------------------------------------------------------------
(* pokedex difftest *)

\* Both backend_from_log, and get_reset_pc of the entries
Load ==
  /\ stage = "parse"
  /\ stage' = "replay"
  /\ IF torn \/ \E k \in DOMAIN text : Refused(text[k])
     THEN Fail /\ UNCHANGED parsed
     ELSE /\ parsed' = [k \in DOMAIN text |-> Parse(text[k])]
          /\ IF dut = <<>> THEN Fail ELSE GetResetPc /\ resetPc' = dut[1].pc
  /\ UNCHANGED <<runVars, text, torn, at, next, causes>>

Has(s) == at[s] \in (IF s = 1 THEN DOMAIN parsed ELSE DOMAIN dut)
Current(s) == IF s = 1 THEN parsed[at[1]] ELSE dut[at[2]]
Move(s) == at' = [at EXCEPT ![s] = @ + 1]

ReplayReset ==
  \/ Has(1) /\ Current(1).pc # resetPc /\ SkipBootRom /\ Move(1) /\ UNCHANGED next
  \/ Has(1) /\ Current(1).pc = resetPc /\ ResetSpike /\ UNCHANGED <<at, next>>
  \/ ~Has(1) /\ SpikeEndsInReset /\ UNCHANGED <<at, next>>
  \/ ResetPokedex /\ Move(2) /\ UNCHANGED next

\* One write: x0, and a vector register of another length, fail an assertion;
\* contexts and memory accesses are not replayed.
ReplayWrite(s, m) ==
  CASE m.kind \in {"x", "f", "v"} ->
         IF m.idx = 1 /\ m.name = "" THEN WriteReg(s, m.kind, m.bits) ELSE Fail
    [] m.kind = "csr" -> WriteCsr(s, m.name, m.bits)
    [] OTHER -> UNCHANGED vars

ReplayCommit(s) ==
  \/ /\ Has(s)
     /\ s = 2 => Current(s).kind = "commit"
     /\ BeginCommit(s, Current(s).pc)
     /\ next' = 1
     /\ UNCHANGED at
  \/ /\ phase = Writing(s)
     /\ next \in DOMAIN Current(s).mods
     /\ ReplayWrite(s, Current(s).mods[next])
     /\ next' = next + 1
     /\ UNCHANGED at
  \/ /\ phase = Writing(s)
     /\ next \notin DOMAIN Current(s).mods
     /\ EndCommit(s)
     /\ Move(s)
     /\ UNCHANGED next

ReplayEnd ==
  /\ \/ ~Has(1) /\ SpikeEnds
     \/ Has(2) /\ Current(2).kind = "exit" /\ PokedexExits(Current(2).code)
     \/ ~Has(2) /\ PokedexLogBroken
  /\ UNCHANGED <<at, next>>

Judge == (JudgeRunning \/ JudgeExit) /\ UNCHANGED <<at, next>>

Replay ==
  /\ stage = "replay"
  /\ ReplayReset \/ (\E s \in Sources : ReplayCommit(s)) \/ ReplayEnd \/ Judge
  /\ UNCHANGED <<stage, runVars, logVars, causes>>

CosimNext ==
  \/ \E i \in Program, j \in Insts \cup {Inst("spin", 0)} : Step(i, j)
  \/ \E i \in Program : RunOn(i)
  \/ Crash \/ StopSpike \/ Load \/ Replay

CosimSpec == CosimInit /\ [][CosimNext]_cosimVars

-----------------------------------------------------------------------------
(* The report *)

\* Mutant of DiffNotes: the CSRs are left out.
DiffNotesWithoutCsrs ==
  {r \in Regs : regs[1][r] # regs[2][r]}

\* pretty_print_diff: what the notes name, besides the pc
DiffNotes ==
  {r \in Regs : regs[1][r] # regs[2][r]}
  \cup {f \in ListedCsrs \cap Fields : csr[1][f] # csr[2][f]}

-----------------------------------------------------------------------------
(* Properties *)

\* The verdict against the machines.  "same": Pokedex has exited with code 0,
\* no instruction trapped, and no register that both machines wrote ever had
\* two values, nor did their pcs part.  Anything else has a cause: a wrong
\* instruction, a trap, a CSR the replay refuses, a value of the boot ROM, a
\* log that is cut short, an exit code.  mod.rs:61-141
VerdictTrue ==
  /\ report = "same" =>
       /\ ended = "exit" /\ exit[2] = 0
       /\ ~differ /\ "trap" \notin causes
  /\ phase \in {"report", "failed"} /\ report # "same" => causes # {}

\* A line of Spike's log that ends early is refused, or it is read as the
\* commit it was to be without some of its last writes, and only the last
\* one read may have another value.  spike.rs:334-610 stops at the end of the
\* tokens wherever it is.
CutKeepsPrefix ==
  LET n == Len(text) IN
  n > 0 /\ ~Refused(text[n]) =>
    LET read == Parse(text[n])
        was == gold[n]
    IN /\ read.pc = was.pc /\ read.inst = was.inst
       /\ Len(read.mods) <= Len(was.mods)
       /\ \A k \in DOMAIN read.mods :
            \/ read.mods[k] = was.mods[k]
            \/ k = Len(read.mods) /\ text[n] # PrintLine(was)

\* "must match CsrState fields" (replay.rs:214): when the states compare
\* unequal and the pcs are equal, the notes name a register or a CSR.
DifferenceExplained ==
  report = "different" /\ exit = [s \in Sources |-> None] /\ pc[1] = pc[2]
    => DiffNotes # {}
=============================================================================
