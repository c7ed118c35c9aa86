----------------------------- MODULE Simulator ------------------------------
(***************************************************************************)
(* The process of `pokedex run`: start-up, the run loop, one step of the   *)
(* model through the C interface with its trace buffer and its memory      *)
(* callbacks, the tracers, and every way the process ends.                 *)
(*                                                                         *)
(* What an instruction does is the subject of Hart and VectorMem.  Here it *)
(* is any short sequence of register writes, CSR writes and accesses, as   *)
(* they arrive at the interface.  The step and the start-up are shared     *)
(* with `pokedex debug`, whose own actions are in GdbStub.                 *)
(***************************************************************************)
EXTENDS AddressSpace, Functions

CONSTANTS
  Regs,        \* X, F and V registers: reported by a bit of a mask
  X0,          \* the one of them that is always zero
  VecRegs,     \* those of them that are vector registers
  Csrs,        \* CSRs: reported by their numbers, in order
  TrapCsrs,    \* those that a trap writes without reporting
  Named,       \* CSRs that name_of_csr knows
  Values,      \* of registers
  Pcs,         \* program counters
  Codes,       \* what programs store into the exit register
  Layout,      \* the configuration of the address space
  Accesses,    \* what loads and stores ask for: [addr, n]
  MaxOps,      \* bound: writes and accesses of one instruction
  MaxCsrWrite  \* POKEDEX_MAX_CSR_WRITE, 16

None == -1

ASSUME RegAssumption ==
  /\ VecRegs \subseteq Regs /\ X0 \in Regs \ VecRegs /\ TrapCsrs \subseteq Csrs /\ Regs \cap Csrs = {}
  /\ 0 \in Values /\ Codes \subseteq Nat
  /\ Pcs \subseteq {a \in Addrs : a % 2 = 0}
  /\ MaxOps \in Nat /\ MaxCsrWrite \in Nat
\* Every CSR that is reported has a name, and no instruction reports as many
\* as the limit: vset{i}vl{i} is first with four.
ASSUME HookAssumption == Csrs \subseteq Named /\ MaxOps < MaxCsrWrite

State == Regs \cup Csrs

VARIABLES
  driver,    \* "run" or "debug"
  tracer,    \* "json", "stdout" or "none"
  at,        \* where the process is
  outcome,   \* how it ended
  pc, regs,  \* the model: X, F and V registers and CSRs
  tb,        \* its trace buffer
  status,    \* what model_step_trace has returned
  ops,       \* writes and accesses of the current instruction
  exit,      \* try_get_exit_code of the bus
  tail,      \* the last entry of the log
  shadow,    \* the registers as the log tells them
  silent,    \* history: changed without a report since they were last reported
  durable    \* is the whole log written to its file?

model == <<pc, regs, tb, status, ops>>
log == <<tail, shadow, durable>>
vars == <<driver, tracer, at, outcome, model, exit, log, silent>>

Startup == {"model", "bus", "tracer", "create", "elf", "reset"}
Points == Startup \cup {"check", "fetch", "execute", "returned", "trace", "flush", "over"}
                 \cup {"connect", "stub", "poll", "exited"}   \* of GdbStub
Outcomes == {"running", "success", "failure", "error", "panic", "abort", "assert",
             "c_assert"}
Traps == {"FETCH_XCPT", "INST_EXCEPTION"}
StepCodes == Traps \cup {"INST_COMMIT"}

TraceBuffers == [valid: BOOLEAN, written: SUBSET Regs, csrs: Seq(Csrs),
                 code: StepCodes \cup {"none"}]
Cleared == [valid |-> FALSE, written |-> {}, csrs |-> <<>>, code |-> "none"]

TypeOK ==
  /\ driver \in {"run", "debug"} /\ tracer \in {"json", "stdout", "none"}
  /\ at \in Points /\ outcome \in Outcomes
  /\ pc \in Pcs /\ regs \in [State -> Values]
  /\ tb \in TraceBuffers /\ status \in StepCodes \cup {"none"} /\ ops \in 0 .. MaxOps
  /\ exit \in Codes \cup {None}
  /\ tail \in {"none", "reset", "commit", "exit"}
  /\ shadow \in [State -> Values] /\ silent \subseteq State /\ durable \in BOOLEAN

ResetRegs == [r \in State |-> 0]

Start ==
  /\ tracer \in {"json", "stdout", "none"}
  /\ driver = "debug" => tracer = "none"
  /\ at = "model" /\ outcome = "running"
  /\ pc \in Pcs /\ regs = ResetRegs /\ tb = Cleared /\ status = "none" /\ ops = 0
  /\ exit = None
  /\ tail = "none" /\ shadow = ResetRegs /\ silent = {} /\ durable = TRUE

Init == driver = "run" /\ Start

\* The process ends.  All but an abort drop the tracer and with it flush its
\* BufWriter; an abort leaves as much of the log as had been written by then.
Finish(how) ==
  /\ at' = "over" /\ outcome' = how
  /\ durable' = (durable \/ how \notin {"abort", "c_assert"})

-----------------------------------------------------------------------------
(* Start-up: each step succeeds, returns an error, or panics *)

Proceed(from, to, failures) ==
  /\ at = from
  /\ \/ at' = to /\ UNCHANGED <<outcome, durable>>
     \/ \E how \in failures : Finish(how)
  /\ UNCHANGED <<driver, tracer, model, tail, shadow, silent>>

\* get_loader: no library named, or one that does not load or match
LoadModel == Proceed("model", "bus", {"error", "panic"}) /\ UNCHANGED exit

\* The configuration of `debug` is built in.
LoadBus ==
  /\ Proceed("bus", IF driver = "run" THEN "tracer" ELSE "create",
             IF driver = "run" THEN {"error", "panic"} ELSE {})
  /\ UNCHANGED exit

OpenTracer ==
  /\ Proceed("tracer", "create", IF tracer = "json" THEN {"error"} ELSE {})
  /\ UNCHANGED exit

\* ModelHandle::new panics when creation fails or the description is refused.
CreateModel == Proceed("create", "elf", {"panic"}) /\ UNCHANGED exit

\* The image may store into the exit register before the program starts.
LoadElf ==
  /\ Proceed("elf", "reset", {"error", "panic"})
  /\ exit' \in Codes \cup {None}

\* A line goes into the BufWriter, or to the terminal.
Write(entry) ==
  IF tracer = "none" THEN UNCHANGED <<tail, durable>>
  ELSE tail' = entry /\ durable' = (tracer = "stdout")

\* model_reset, and trace_reset where there is a tracer
Reset(next) ==
  /\ at = "reset"
  /\ at' = next
  /\ pc' \in Pcs /\ regs' = ResetRegs
  /\ tb' = [tb EXCEPT !.valid = FALSE]
  /\ shadow' = ResetRegs /\ silent' = {}
  /\ UNCHANGED <<driver, tracer, outcome, status, ops, exit>>

ResetAndTrace == driver = "run" /\ Reset("check") /\ Write("reset")

-----------------------------------------------------------------------------
(* The C interface *)

\* model_step_trace up to ASL_Step
\* Mutant: without the memset, the trace buffer is as the last step left it.
BeginStepNoMemset ==
  /\ tb' = [tb EXCEPT !.valid = TRUE, !.code = "none"]
  /\ status' = "none" /\ ops' = 0
  /\ at' = "fetch"
  /\ UNCHANGED <<driver, tracer, outcome, pc, regs, exit, log, silent>>

BeginStep ==
  /\ tb' = [Cleared EXCEPT !.valid = TRUE]
  /\ status' = "none" /\ ops' = 0
  /\ at' = "fetch"
  /\ UNCHANGED <<driver, tracer, outcome, pc, regs, exit, log, silent>>

\* A panic of a callback cannot leave the C code, and an assertion of the C
\* code does not try to.
Abort ==
  /\ Finish("abort")
  /\ UNCHANGED <<driver, tracer, model, exit, tail, shadow, silent>>

\* ASL_Step returns, and its code goes to the trace buffer and to the caller.
Return(code, written, csrs) ==
  /\ at' = "returned"
  /\ tb' = [tb EXCEPT !.written = written, !.csrs = csrs, !.code = code]
  /\ status' = code
  /\ UNCHANGED <<driver, tracer, outcome, ops, exit, log>>

\* A trap changes trap CSRs, and with them registers that the record does not
\* name, which a vector access wrote before it failed.
TakeTrap(code, others) ==
  /\ \E changed \in [TrapCsrs \cup others -> Values] :
       regs' = [r \in State |-> IF r \in DOMAIN changed THEN changed[r] ELSE regs[r]]
  /\ silent' = silent \cup TrapCsrs \cup others
  /\ pc' \in Pcs
  /\ Return(code, tb.written, tb.csrs)

\* Two halves are fetched, or one for a compressed instruction.
FetchAnswer(n) ==
  LET first == ReadAnswer(Layout, pc, 2) IN
  IF first # "ok" \/ n = 2 THEN first ELSE ReadAnswer(Layout, (pc + 2) % AddrSpace, 2)

Fetch ==
  /\ at = "fetch"
  /\ \E n \in {2, 4} :
       \/ /\ FetchAnswer(n) = "ok"
          /\ at' = "execute"
          /\ UNCHANGED <<driver, tracer, outcome, model, exit, log, silent>>
       \/ FetchAnswer(n) = "error" /\ TakeTrap("FETCH_XCPT", {})
       \/ FetchAnswer(n) = "panic" /\ Abort

\* The next operation of the instruction
Operation == at = "execute" /\ ops < MaxOps

Done ==
  /\ ops' = ops + 1
  /\ UNCHANGED <<driver, tracer, at, outcome, pc, regs, tb, status, exit, log, silent>>

\* Two hooks: a bit of a mask, or a place in the list of CSRs.  Their
\* assertions abort.  The setter of X leaves x0 alone and does not report it.
WriteReg(r, v) ==
  /\ Operation
  /\ IF r = X0 THEN Done
     ELSE IF tb.valid
     THEN /\ regs' = [regs EXCEPT ![r] = v]
          /\ tb' = [tb EXCEPT !.written = @ \cup {r}]
          /\ ops' = ops + 1
          /\ UNCHANGED <<driver, tracer, at, outcome, pc, status, exit, log, silent>>
     ELSE /\ Finish("c_assert")
          /\ UNCHANGED <<driver, tracer, model, exit, tail, shadow, silent>>

WriteCsr(c, v) ==
  /\ Operation
  /\ IF tb.valid /\ Len(tb.csrs) < MaxCsrWrite
     THEN /\ regs' = [regs EXCEPT ![c] = v]
          /\ tb' = [tb EXCEPT !.csrs = Append(@, c)]
          /\ ops' = ops + 1
          /\ UNCHANGED <<driver, tracer, at, outcome, pc, status, exit, log, silent>>
     ELSE /\ Finish("c_assert")
          /\ UNCHANGED <<driver, tracer, model, exit, tail, shadow, silent>>

\* A callback answers 0 or 1, or does not return.
Answered(answer) == IF answer = "panic" THEN Abort ELSE Done

Load(a) == Operation /\ Answered(ReadAnswer(Layout, a.addr, a.n))

\* Mutant: the exit code is taken with its flag.
StoreWithFlag(a, code) ==
  /\ Operation
  /\ WriteAnswer(Layout, a.addr, a.n) = "ok" /\ Decode(Layout, a.addr) = "mmio"
  /\ exit' = WordRange + code /\ ops' = ops + 1
  /\ UNCHANGED <<driver, tracer, at, outcome, pc, regs, tb, status, log, silent>>

\* A store into the exit register is seen by the run loop, after the step.
Store(a, code) ==
  LET answer == WriteAnswer(Layout, a.addr, a.n) IN
  /\ Operation
  /\ IF answer = "ok" /\ Decode(Layout, a.addr) = "mmio"
     THEN /\ exit' = code /\ ops' = ops + 1
          /\ UNCHANGED <<driver, tracer, at, outcome, pc, regs, tb, status, log, silent>>
     ELSE Answered(answer)

\* An AMO reads before it writes: the exit register is never reached.
Amo(a) ==
  /\ Operation /\ a.n = WordBytes
  /\ LET read == ReadAnswer(Layout, a.addr, a.n) IN
     Answered(IF read = "ok" THEN WriteAnswer(Layout, a.addr, a.n) ELSE read)

\* LR and SC, 64-bit elements and other holes of the model
Unsupported == Operation /\ Abort

Retire ==
  /\ at = "execute"
  /\ pc' \in Pcs
  /\ Return("INST_COMMIT", tb.written, tb.csrs)
  /\ UNCHANGED <<regs, silent>>

Raise ==
  /\ at = "execute"
  /\ \E partial \in SUBSET VecRegs : TakeTrap("INST_EXCEPTION", partial)

-----------------------------------------------------------------------------
(* ModelHandle::step_trace, the tracers and the run loop *)

\* The assertions about the record of the step: it has the code that was
\* returned, no change of x0, and room for its CSRs.
RecordRefused == tb.code # status \/ X0 \in tb.written \/ Len(tb.csrs) >= MaxCsrWrite

StepTrace ==
  /\ at = "returned" /\ driver = "run"
  /\ IF RecordRefused THEN Finish("assert")
     ELSE at' = "trace" /\ UNCHANGED <<outcome, durable>>
  /\ UNCHANGED <<driver, tracer, model, exit, tail, shadow, silent>>

\* The registers and CSRs that the record names
Reported == tb.written \cup Range(tb.csrs)

\* Values are read from the model when the entry is written, after the step.
\* Mutant: the entry has no CSRs.
EntryWithoutCsrs == [r \in State |-> IF r \in tb.written THEN regs[r] ELSE shadow[r]]
Entry == [r \in State |-> IF r \in Reported THEN regs[r] ELSE shadow[r]]

\* A step without an instruction leaves no entry, and must have no changes.
TraceStep ==
  /\ at = "trace"
  /\ IF tracer # "none" /\ IF status = "FETCH_XCPT" THEN Reported # {}
                           ELSE \E c \in Range(tb.csrs) : c \notin Named
     THEN Finish("assert") /\ UNCHANGED <<tail, shadow, silent>>
     ELSE /\ at' = "check"
          /\ IF status = "FETCH_XCPT" \/ tracer = "none"
             THEN UNCHANGED <<log, silent>>
             ELSE Write("commit") /\ shadow' = Entry /\ silent' = silent \ Reported
          /\ UNCHANGED outcome
  /\ UNCHANGED <<driver, tracer, model, exit>>

\* The top of the loop
\* Mutant: a code of zero counts as none.
LoopOnZero == at = "check" /\ exit \in {None, 0} /\ BeginStep
Loop == at = "check" /\ exit = None /\ BeginStep

\* Mutant: the process leaves the loop without an entry.
LeaveLoopUntraced ==
  /\ at = "check" /\ exit # None
  /\ at' = "flush"
  /\ UNCHANGED <<driver, tracer, outcome, model, exit, log, silent>>

LeaveLoop ==
  /\ at = "check" /\ exit # None
  /\ at' = "flush" /\ Write("exit")
  /\ UNCHANGED <<driver, tracer, outcome, model, exit, shadow, silent>>

Flush ==
  /\ at = "flush"
  /\ Finish(IF exit = 0 THEN "success" ELSE "failure")
  /\ UNCHANGED <<driver, tracer, model, exit, tail, shadow, silent>>

Setup == LoadModel \/ LoadBus \/ OpenTracer \/ CreateModel \/ LoadElf

Execute ==
  \/ \E r \in Regs, v \in Values : WriteReg(r, v)
  \/ \E c \in Csrs, v \in Values : WriteCsr(c, v)
  \/ \E a \in Accesses : Load(a)
  \/ \E a \in Accesses, code \in Codes : Store(a, code)
  \/ \E a \in Accesses : Amo(a)
  \/ Unsupported \/ Retire \/ Raise

RunLoop == ResetAndTrace \/ Loop \/ StepTrace \/ TraceStep \/ LeaveLoop \/ Flush

Next == Setup \/ RunLoop \/ Fetch \/ Execute

Spec == Init /\ [][Next]_vars

-----------------------------------------------------------------------------
(* Properties *)

\* Between two steps the log tells every register as it is, except those that
\* a trap has changed since they were last reported.
LogIsFaithful ==
  at = "check" /\ tracer # "none" =>
    \A r \in State \ silent : shadow[r] = regs[r]

\* The log ends with an exit entry, and is whole, when the program has ended
\* the process and only then, and the exit status says whether its code was 0.
ExitEntryTrue ==
  /\ outcome \in {"success", "failure"} /\ driver = "run" =>
       /\ exit # None /\ (outcome = "success" <=> exit = 0)
       /\ tracer # "none" => tail = "exit" /\ durable
  /\ tail = "exit" => outcome \in {"running", "success", "failure"}

\* No step makes a record that the C code, the handle or the tracers assert
\* not to happen: with another code than the step's, with a change of x0, too
\* long, with changes but no instruction, with a CSR that has no name, or
\* outside a step.
AssertsHold == outcome \notin {"assert", "c_assert"}
=============================================================================
