--------------------------- MODULE PokedexProofs ----------------------------
(***************************************************************************)
(* The invariants of the process, run or debugged, for every set of        *)
(* registers, values and programs, every layout, and every limit of the    *)
(* record that no instruction reaches.                                     *)
(***************************************************************************)
EXTENDS GdbStub, TLAPS

InStep == {"fetch", "execute", "returned", "trace"}

\* Who is where: the tracers belong to `run`, the stub to `debug`.
DriverInv ==
  /\ driver = "debug" => tracer = "none"
  /\ at \in {"connect", "stub", "poll", "exited"} => driver = "debug"
  /\ at \in {"check", "trace", "flush"} => driver = "run"

\* The record of the step: empty at its start, never longer than the
\* instruction has operations, and empty after a fetch that failed; without
\* x0, and with the code that was returned.
RecordInv ==
  /\ at = "fetch" => tb.written = {} /\ tb.csrs = <<>>
  /\ at \in {"fetch", "execute"} => tb.valid
  /\ at \in InStep => Len(tb.csrs) <= ops
  /\ at \in InStep => X0 \notin tb.written
  /\ at \in {"returned", "trace"} => tb.code = status
  /\ at \in {"returned", "trace"} /\ status = "FETCH_XCPT"
       => tb.written = {} /\ tb.csrs = <<>>

\* During a step the log lags behind by what the record names.
FaithInv ==
  tracer # "none" =>
    /\ at = "check" => \A r \in State \ silent : shadow[r] = regs[r]
    /\ at \in InStep => \A r \in State \ (silent \cup Reported) : shadow[r] = regs[r]

\* The process is over when it has an outcome, and leaves the loop with an
\* exit code and its entry.
EndInv ==
  /\ at = "over" <=> outcome # "running"
  /\ at = "flush" => exit # None /\ (tracer # "none" => tail = "exit")
  /\ tail = "exit" => at \in {"flush", "over"}
  /\ ExitEntryTrue
  /\ AssertsHold

Inv == TypeOK /\ DriverInv /\ RecordInv /\ FaithInv /\ EndInv

-----------------------------------------------------------------------------
(* Lemmas *)

\* What the record names are registers and CSRs, and its CSRs have names.
LEMMA ReportedIsState ==
  ASSUME TypeOK
  PROVE  /\ Reported \subseteq State
         /\ \A c \in Range(tb.csrs) : c \in Named
         /\ tb.csrs = <<>> => Range(tb.csrs) = {}
<1>1. tb.csrs \in Seq(Csrs) /\ tb.written \subseteq Regs
  BY DEF TypeOK, TraceBuffers
<1>2. Range(tb.csrs) \subseteq Csrs
  BY <1>1 DEF Range
<1>3. tb.csrs = <<>> => Range(tb.csrs) = {}
  BY DEF Range
<1>4. QED
  BY <1>1, <1>2, <1>3, HookAssumption DEF Reported, State

\* The record is never full.
LEMMA RecordNotFull ==
  ASSUME TypeOK, RecordInv, at \in InStep
  PROVE  Len(tb.csrs) < MaxCsrWrite
<1>1. Len(tb.csrs) \in Nat /\ ops \in 0 .. MaxOps
  BY DEF TypeOK, TraceBuffers
<1>2. QED
  BY <1>1, HookAssumption, RegAssumption DEF RecordInv

LEMMA InitInv == SessionInit => Inv
<1> SUFFICES ASSUME SessionInit
             PROVE  Inv
  OBVIOUS
<1> USE DEF SessionInit, Start
<1>1. TypeOK
  BY RegAssumption DEF TypeOK, Points, Startup, Outcomes, ResetRegs, State, TraceBuffers,
                       Cleared, StepCodes, Traps
<1>2. DriverInv /\ RecordInv /\ FaithInv
  BY DEF DriverInv, RecordInv, FaithInv, InStep
<1>3. EndInv
  BY DEF EndInv, ExitEntryTrue, AssertsHold
<1>4. QED
  BY <1>1, <1>2, <1>3 DEF Inv

\* The end of the process, but for the end of the run loop
LEMMA FinishKeeps ==
  ASSUME Inv, NEW how \in {"error", "panic", "abort", "success"}, Finish(how),
         at \notin {"over", "flush"}, how = "success" => driver = "debug",
         UNCHANGED <<driver, tracer, model, tail, shadow, silent>>,
         exit' \in Codes \cup {None}
  PROVE  Inv'
<1> USE DEF Finish, model
<1>1. TypeOK'
  BY DEF Inv, TypeOK, Points, Outcomes
<1>2. DriverInv' /\ RecordInv' /\ FaithInv'
  BY DEF Inv, DriverInv, RecordInv, FaithInv, InStep
<1>3. EndInv'
  BY DEF Inv, EndInv, ExitEntryTrue, AssertsHold
<1>4. QED
  BY <1>1, <1>2, <1>3 DEF Inv

-----------------------------------------------------------------------------
(* Start-up *)

LEMMA ProceedKeeps ==
  ASSUME Inv, NEW from \in Startup, NEW to \in Startup, to # "over",
         NEW failures \in SUBSET {"error", "panic"}, Proceed(from, to, failures),
         exit' \in Codes \cup {None}
  PROVE  Inv'
<1>1. ASSUME at' = to, UNCHANGED <<outcome, durable>>
      PROVE  Inv'
  <2> USE <1>1 DEF Proceed, model, Startup
  <2>1. TypeOK'
    BY DEF Inv, TypeOK, Points
  <2>2. DriverInv' /\ RecordInv' /\ FaithInv'
    BY DEF Inv, DriverInv, RecordInv, FaithInv, InStep
  <2>3. EndInv'
    BY DEF Inv, EndInv, ExitEntryTrue, AssertsHold
  <2>4. QED
    BY <2>1, <2>2, <2>3 DEF Inv
<1>2. ASSUME NEW how \in failures, Finish(how)
      PROVE  Inv'
  BY <1>2, FinishKeeps DEF Proceed, Startup
<1>3. QED
  BY <1>1, <1>2 DEF Proceed

LEMMA SetupKeeps == ASSUME Inv, Setup PROVE Inv'
<1> USE DEF Startup
<1>1. exit \in Codes \cup {None}
  BY DEF Inv, TypeOK
<1>2. CASE LoadModel
  BY <1>1, <1>2, ProceedKeeps DEF LoadModel
<1>3. CASE LoadBus
  <2>1. CASE driver = "run"
    BY <1>1, <1>3, <2>1, ProceedKeeps DEF LoadBus
  <2>2. CASE driver # "run"
    BY <1>1, <1>3, <2>2, ProceedKeeps DEF LoadBus
  <2>3. QED
    BY <2>1, <2>2
<1>4. CASE OpenTracer
  <2>1. CASE tracer = "json"
    BY <1>1, <1>4, <2>1, ProceedKeeps DEF OpenTracer
  <2>2. CASE tracer # "json"
    BY <1>1, <1>4, <2>2, ProceedKeeps DEF OpenTracer
  <2>3. QED
    BY <2>1, <2>2
<1>5. CASE CreateModel
  BY <1>1, <1>5, ProceedKeeps DEF CreateModel
<1>6. CASE LoadElf
  BY <1>6, ProceedKeeps DEF LoadElf
<1>7. QED
  BY <1>2, <1>3, <1>4, <1>5, <1>6 DEF Setup

\* The reset of the model, for the run loop or for the debugger
LEMMA ResetKeeps ==
  ASSUME Inv, ResetAndTrace \/ ResetForDebug
  PROVE  Inv'
<1> USE DEF ResetAndTrace, ResetForDebug, Reset, Write
<1>1. TypeOK'
  <2>1. tb' \in TraceBuffers
    BY DEF Inv, TypeOK, TraceBuffers
  <2>2. ResetRegs \in [State -> Values]
    BY RegAssumption DEF ResetRegs
  <2>3. QED
    BY <2>1, <2>2 DEF Inv, TypeOK, Points
<1>2. DriverInv' /\ RecordInv' /\ FaithInv'
  BY DEF Inv, DriverInv, RecordInv, FaithInv, InStep
<1>3. EndInv'
  BY DEF Inv, EndInv, ExitEntryTrue, AssertsHold
<1>4. QED
  BY <1>1, <1>2, <1>3 DEF Inv

-----------------------------------------------------------------------------
(* A step of the model *)

LEMMA BeginKeeps ==
  ASSUME Inv, BeginStep, at \in {"check", "poll"}, exit = None
  PROVE  Inv'
<1> USE DEF BeginStep, log
<1>1. tb' = [valid |-> TRUE, written |-> {}, csrs |-> <<>>, code |-> "none"]
  BY DEF Cleared
<1>2. TypeOK'
  <2>1. tb' \in TraceBuffers
    <3> HIDE DEF BeginStep
    <3>1. <<>> \in Seq(Csrs) /\ {} \in SUBSET Regs
      OBVIOUS
    <3>2. QED
      BY <1>1, <3>1 DEF TraceBuffers
  <2>2. ops' \in 0 .. MaxOps
    BY RegAssumption
  <2>3. QED
    BY <2>1, <2>2 DEF Inv, TypeOK, Points
<1>3. DriverInv'
  BY DEF Inv, DriverInv
<1>4. RecordInv'
  BY <1>1 DEF Inv, RecordInv, InStep
<1>5. FaithInv'
  BY DEF Inv, FaithInv, DriverInv, InStep
<1>6. EndInv'
  BY DEF Inv, EndInv, ExitEntryTrue, AssertsHold
<1>7. QED
  BY <1>2, <1>3, <1>4, <1>5, <1>6 DEF Inv

\* A callback that panics ends the process.
LEMMA AbortKeeps == ASSUME Inv, Abort, at \in InStep PROVE Inv'
<1>1. exit' \in Codes \cup {None}
  BY DEF Inv, TypeOK, Abort
<1>2. QED
  BY <1>1, FinishKeeps DEF Abort, InStep

\* Whatever a trap changes is counted as changed without a report.
LEMMA TrapKeeps ==
  ASSUME Inv, NEW code \in Traps, NEW others \in SUBSET VecRegs, TakeTrap(code, others),
         at \in {"fetch", "execute"}, code = "FETCH_XCPT" => at = "fetch"
  PROVE  Inv'
<1> USE DEF TakeTrap, Return, log
<1>1. PICK changed \in [TrapCsrs \cup others -> Values] :
        regs' = [r \in State |-> IF r \in DOMAIN changed THEN changed[r] ELSE regs[r]]
  OBVIOUS
<1>2. TrapCsrs \cup others \subseteq State
  BY RegAssumption DEF State
<1>3. tb \in TraceBuffers
  BY DEF Inv, TypeOK
<1>4. tb' = [valid |-> tb.valid, written |-> tb.written, csrs |-> tb.csrs, code |-> code]
  BY <1>3 DEF TraceBuffers
<1>5. TypeOK'
  <2>1. tb' \in TraceBuffers
    BY <1>3, <1>4 DEF TraceBuffers, StepCodes
  <2>2. regs' \in [State -> Values]
    BY <1>1 DEF Inv, TypeOK
  <2>3. silent' \subseteq State
    BY <1>2 DEF Inv, TypeOK
  <2>4. QED
    BY <2>1, <2>2, <2>3 DEF Inv, TypeOK, Points, StepCodes
<1>6. DriverInv'
  BY DEF Inv, DriverInv
<1>7. RecordInv'
  BY <1>4 DEF Inv, RecordInv, InStep
<1>8. FaithInv'
  <2>1. Reported' = Reported
    BY <1>4 DEF Reported, Range
  <2>2. \A r \in State \ silent' : regs'[r] = regs[r]
    BY <1>1
  <2>3. QED
    BY <2>1, <2>2 DEF Inv, FaithInv, InStep
<1>9. EndInv'
  BY DEF Inv, EndInv, ExitEntryTrue, AssertsHold
<1>10. QED
  BY <1>5, <1>6, <1>7, <1>8, <1>9 DEF Inv

LEMMA FetchKeeps == ASSUME Inv, Fetch PROVE Inv'
<1>1. PICK n \in {2, 4} :
        \/ /\ FetchAnswer(n) = "ok" /\ at = "fetch"
           /\ at' = "execute"
           /\ UNCHANGED <<driver, tracer, outcome, model, exit, log, silent>>
        \/ FetchAnswer(n) = "error" /\ at = "fetch" /\ TakeTrap("FETCH_XCPT", {})
        \/ FetchAnswer(n) = "panic" /\ at = "fetch" /\ Abort
  BY DEF Fetch
<1>2. CASE /\ at = "fetch" /\ at' = "execute"
           /\ UNCHANGED <<driver, tracer, outcome, model, exit, log, silent>>
  <2> USE <1>2 DEF model, log
  <2>1. TypeOK'
    BY DEF Inv, TypeOK, Points
  <2>2. DriverInv' /\ RecordInv'
    BY DEF Inv, DriverInv, RecordInv, InStep
  <2>3. FaithInv'
    BY DEF Inv, FaithInv, InStep, Reported
  <2>4. EndInv'
    BY DEF Inv, EndInv, ExitEntryTrue, AssertsHold
  <2>5. QED
    BY <2>1, <2>2, <2>3, <2>4 DEF Inv
<1>3. CASE at = "fetch" /\ TakeTrap("FETCH_XCPT", {})
  BY <1>3, TrapKeeps DEF Traps
<1>4. CASE at = "fetch" /\ Abort
  BY <1>4, AbortKeeps DEF InStep
<1>5. QED
  BY <1>1, <1>2, <1>3, <1>4

-----------------------------------------------------------------------------
(* The operations of an instruction *)

\* An operation that leaves the registers and the record
LEMMA OperationKeeps ==
  ASSUME Inv, Operation, ops' = ops + 1, exit' \in Codes \cup {None},
         UNCHANGED <<driver, tracer, at, outcome, pc, regs, tb, status, log, silent>>
  PROVE  Inv'
<1> USE DEF Operation, log
<1>1. TypeOK'
  BY RegAssumption DEF Inv, TypeOK
<1>2. DriverInv'
  BY DEF Inv, DriverInv
<1>3. RecordInv'
  <2>1. Len(tb.csrs) \in Nat /\ ops \in Nat
    BY RegAssumption DEF Inv, TypeOK, TraceBuffers
  <2>2. QED
    BY <2>1 DEF Inv, RecordInv, InStep
<1>4. FaithInv'
  BY DEF Inv, FaithInv, InStep, Reported
<1>5. EndInv'
  BY DEF Inv, EndInv, ExitEntryTrue, AssertsHold
<1>6. QED
  BY <1>1, <1>2, <1>3, <1>4, <1>5 DEF Inv

LEMMA AnsweredKeeps ==
  ASSUME Inv, NEW reply, Operation, Answered(reply)
  PROVE  Inv'
<1>1. CASE reply = "panic"
  BY <1>1, AbortKeeps DEF Answered, Operation, InStep
<1>2. CASE reply # "panic"
  <2>1. exit' \in Codes \cup {None}
    BY <1>2 DEF Answered, Done, Inv, TypeOK
  <2>2. QED
    BY <1>2, <2>1, OperationKeeps DEF Answered, Done
<1>3. QED
  BY <1>1, <1>2

LEMMA WriteRegKeeps ==
  ASSUME Inv, NEW r \in Regs \ {X0}, NEW v \in Values, WriteReg(r, v)
  PROVE  Inv'
<1> USE DEF Operation, log
<1>1. /\ at = "execute" /\ ops < MaxOps
      /\ regs' = [regs EXCEPT ![r] = v] /\ ops' = ops + 1
      /\ tb' = [tb EXCEPT !.written = @ \cup {r}]
      /\ UNCHANGED <<driver, tracer, at, outcome, pc, status, exit, log, silent>>
  BY DEF WriteReg, Inv, RecordInv
<1>2. tb \in TraceBuffers /\ regs \in [State -> Values] /\ r \in State
  BY DEF Inv, TypeOK, State
<1>3. /\ tb'.valid = tb.valid /\ tb'.written = tb.written \cup {r}
      /\ tb'.csrs = tb.csrs /\ tb'.code = tb.code /\ tb' \in TraceBuffers
  BY <1>1, <1>2 DEF TraceBuffers
<1>4. TypeOK'
  <2>1. regs' \in [State -> Values]
    BY <1>1, <1>2
  <2>2. ops' \in 0 .. MaxOps
    BY <1>1, RegAssumption DEF Inv, TypeOK
  <2>3. QED
    BY <1>1, <1>3, <2>1, <2>2 DEF Inv, TypeOK
<1>5. DriverInv'
  BY <1>1 DEF Inv, DriverInv
<1>6. RecordInv'
  <2>1. Len(tb.csrs) \in Nat /\ ops \in Nat
    BY RegAssumption DEF Inv, TypeOK, TraceBuffers
  <2>2. QED
    BY <1>1, <1>3, <2>1 DEF Inv, RecordInv, InStep
<1>7. FaithInv'
  <2>1. Reported' = Reported \cup {r}
    BY <1>3 DEF Reported, Range
  <2>2. \A q \in State \ {r} : regs'[q] = regs[q]
    BY <1>1, <1>2
  <2>3. QED
    BY <1>1, <2>1, <2>2 DEF Inv, FaithInv, InStep
<1>8. EndInv'
  BY <1>1 DEF Inv, EndInv, ExitEntryTrue, AssertsHold
<1>9. QED
  BY <1>4, <1>5, <1>6, <1>7, <1>8 DEF Inv

LEMMA WriteCsrKeeps ==
  ASSUME Inv, NEW c \in Csrs, NEW v \in Values, WriteCsr(c, v)
  PROVE  Inv'
<1> USE DEF Operation, log
<1>1. Len(tb.csrs) < MaxCsrWrite
  BY RecordNotFull DEF WriteCsr, Inv, InStep
<1>2. /\ at = "execute" /\ ops < MaxOps
      /\ regs' = [regs EXCEPT ![c] = v] /\ ops' = ops + 1
      /\ tb' = [tb EXCEPT !.csrs = Append(@, c)]
      /\ UNCHANGED <<driver, tracer, at, outcome, pc, status, exit, log, silent>>
  BY <1>1 DEF WriteCsr, Inv, RecordInv
<1>3. tb \in TraceBuffers /\ regs \in [State -> Values] /\ c \in State
  BY DEF Inv, TypeOK, State
<1>4. /\ tb'.valid = tb.valid /\ tb'.written = tb.written
      /\ tb'.csrs = Append(tb.csrs, c) /\ tb'.code = tb.code
  BY <1>2, <1>3 DEF TraceBuffers
<1>5. tb.csrs \in Seq(Csrs) /\ Len(tb.csrs) \in Nat
  BY <1>3 DEF TraceBuffers
<1>6. tb'.csrs \in Seq(Csrs) /\ Len(tb'.csrs) = Len(tb.csrs) + 1
  BY <1>4, <1>5
<1>7. TypeOK'
  <2>1. regs' \in [State -> Values]
    BY <1>2, <1>3
  <2>2. ops' \in 0 .. MaxOps
    BY <1>2, RegAssumption DEF Inv, TypeOK
  <2>3. tb' \in TraceBuffers
    <3>1. tb' = [valid |-> tb.valid, written |-> tb.written, csrs |-> tb'.csrs,
                 code |-> tb.code]
      BY <1>2, <1>3, <1>4 DEF TraceBuffers
    <3>2. tb.valid \in BOOLEAN /\ tb.written \in SUBSET Regs
          /\ tb.code \in StepCodes \cup {"none"}
      BY <1>3 DEF TraceBuffers
    <3>3. QED
      BY <1>6, <3>1, <3>2 DEF TraceBuffers
  <2>4. QED
    BY <1>2, <2>1, <2>2, <2>3 DEF Inv, TypeOK
<1>8. DriverInv'
  BY <1>2 DEF Inv, DriverInv
<1>9. RecordInv'
  <2>1. ops \in Nat
    BY RegAssumption DEF Inv, TypeOK
  <2>2. QED
    BY <1>2, <1>4, <1>5, <1>6, <2>1 DEF Inv, RecordInv, InStep
<1>10. FaithInv'
  <2>1. Reported' \subseteq Reported \cup {c}
    <3>1. Range(tb.csrs)' \subseteq Range(tb.csrs) \cup {c}
      BY <1>4, <1>5 DEF Range
    <3>2. QED
      BY <1>4, <3>1 DEF Reported
  <2>2. Reported \cup {c} \subseteq Reported'
    <3>1. \A i \in 1 .. Len(tb.csrs) : tb'.csrs[i] = tb.csrs[i]
      BY <1>4, <1>5
    <3>2. tb'.csrs[Len(tb.csrs) + 1] = c
      BY <1>4, <1>5
    <3>3. /\ DOMAIN tb.csrs = 1 .. Len(tb.csrs)
          /\ DOMAIN tb'.csrs = 1 .. Len(tb.csrs) + 1
      BY <1>5, <1>6
    <3>4. Range(tb.csrs) \cup {c} \subseteq Range(tb.csrs)'
      BY <1>5, <3>1, <3>2, <3>3 DEF Range
    <3>5. QED
      BY <1>4, <3>4 DEF Reported
  <2>3. \A q \in State \ {c} : regs'[q] = regs[q]
    BY <1>2, <1>3
  <2>4. QED
    BY <1>2, <2>1, <2>2, <2>3 DEF Inv, FaithInv, InStep
<1>11. EndInv'
  BY <1>2 DEF Inv, EndInv, ExitEntryTrue, AssertsHold
<1>12. QED
  BY <1>7, <1>8, <1>9, <1>10, <1>11 DEF Inv

LEMMA ExecuteKeeps == ASSUME Inv, Execute PROVE Inv'
<1>1. ASSUME NEW r \in Regs, NEW v \in Values, WriteReg(r, v)
      PROVE  Inv'
  <2>1. CASE r = X0
    <3>1. Operation /\ Done
      BY <1>1, <2>1 DEF WriteReg
    <3>2. exit' \in Codes \cup {None}
      BY <3>1 DEF Done, Inv, TypeOK
    <3>3. QED
      BY <3>1, <3>2, OperationKeeps DEF Done
  <2>2. CASE r # X0
    BY <1>1, <2>2, WriteRegKeeps
  <2>3. QED
    BY <2>1, <2>2
<1>2. CASE \E c \in Csrs, v \in Values : WriteCsr(c, v)
  BY <1>2, WriteCsrKeeps
<1>3. CASE \E a \in Accesses : Load(a)
  BY <1>3, AnsweredKeeps DEF Load
<1>4. ASSUME NEW a \in Accesses, NEW code \in Codes, Store(a, code)
      PROVE  Inv'
  <2>1. CASE WriteAnswer(Layout, a.addr, a.n) = "ok" /\ Decode(Layout, a.addr) = "mmio"
    BY <1>4, <2>1, OperationKeeps DEF Store
  <2>2. CASE ~(WriteAnswer(Layout, a.addr, a.n) = "ok" /\ Decode(Layout, a.addr) = "mmio")
    BY <1>4, <2>2, AnsweredKeeps DEF Store
  <2>3. QED
    BY <2>1, <2>2
<1>5. CASE \E a \in Accesses : Amo(a)
  BY <1>5, AnsweredKeeps DEF Amo
<1>6. CASE Unsupported
  BY <1>6, AbortKeeps DEF Unsupported, Operation, InStep
<1>7. CASE Retire
  <2> USE <1>7 DEF Retire, Return, log
  <2>1. tb \in TraceBuffers
    BY DEF Inv, TypeOK
  <2>2. tb' = [valid |-> tb.valid, written |-> tb.written, csrs |-> tb.csrs,
               code |-> "INST_COMMIT"]
    BY <2>1 DEF TraceBuffers
  <2>3. TypeOK'
    <3>1. tb' \in TraceBuffers
      BY <2>1, <2>2 DEF TraceBuffers, StepCodes
    <3>2. QED
      BY <3>1 DEF Inv, TypeOK, Points, StepCodes
  <2>4. DriverInv' /\ RecordInv'
    BY <2>2 DEF Inv, DriverInv, RecordInv, InStep
  <2>5. FaithInv'
    <3>1. Reported' = Reported
      BY <2>2 DEF Reported, Range
    <3>2. QED
      BY <3>1 DEF Inv, FaithInv, InStep
  <2>6. EndInv'
    BY DEF Inv, EndInv, ExitEntryTrue, AssertsHold
  <2>7. QED
    BY <2>3, <2>4, <2>5, <2>6 DEF Inv
<1>8. CASE Raise
  BY <1>8, TrapKeeps DEF Raise, Traps
<1>9. QED
  BY <1>1, <1>2, <1>3, <1>4, <1>5, <1>6, <1>7, <1>8 DEF Execute

-----------------------------------------------------------------------------
(* The run loop *)

LEMMA StepTraceKeeps == ASSUME Inv, StepTrace PROVE Inv'
<1> USE DEF model
<1>1. ~RecordRefused
  <2>1. Len(tb.csrs) < MaxCsrWrite
    BY RecordNotFull DEF StepTrace, Inv, InStep
  <2>2. tb.code = status /\ X0 \notin tb.written
    BY DEF StepTrace, Inv, RecordInv, InStep
  <2>3. Len(tb.csrs) \in Nat
    BY DEF Inv, TypeOK, TraceBuffers
  <2>4. QED
    BY <2>1, <2>2, <2>3, RegAssumption DEF RecordRefused
<1>2. /\ at = "returned" /\ driver = "run" /\ at' = "trace"
      /\ UNCHANGED <<outcome, durable, driver, tracer, model, exit, tail, shadow, silent>>
  BY <1>1 DEF StepTrace
<1>3. TypeOK'
  BY <1>2 DEF Inv, TypeOK, Points
<1>4. DriverInv' /\ RecordInv'
  BY <1>2 DEF Inv, DriverInv, RecordInv, InStep
<1>5. FaithInv'
  BY <1>2 DEF Inv, FaithInv, InStep, Reported
<1>6. EndInv'
  BY <1>2 DEF Inv, EndInv, ExitEntryTrue, AssertsHold
<1>7. QED
  BY <1>3, <1>4, <1>5, <1>6 DEF Inv

\* The entry brings the log up to date with what the record names; a step
\* without an instruction has nothing to bring.
LEMMA TraceStepKeeps == ASSUME Inv, TraceStep PROVE Inv'
<1> USE DEF model, log
<1>1. status = "FETCH_XCPT" => Reported = {}
  BY ReportedIsState DEF TraceStep, Inv, RecordInv, Reported
<1>2. \A c \in Range(tb.csrs) : c \in Named
  BY ReportedIsState DEF Inv
<1>3. Reported \subseteq State
  BY ReportedIsState DEF Inv
<1>4. /\ at = "trace" /\ at' = "check"
      /\ UNCHANGED <<driver, tracer, model, exit, outcome>>
      /\ IF status = "FETCH_XCPT" \/ tracer = "none"
         THEN UNCHANGED <<log, silent>>
         ELSE Write("commit") /\ shadow' = Entry /\ silent' = silent \ Reported
  BY <1>1, <1>2 DEF TraceStep
<1>5. TypeOK'
  <2>1. Entry \in [State -> Values]
    BY DEF Entry, Inv, TypeOK
  <2>2. CASE status = "FETCH_XCPT" \/ tracer = "none"
    BY <1>4, <2>2 DEF Inv, TypeOK, Points
  <2>3. CASE ~(status = "FETCH_XCPT" \/ tracer = "none")
    BY <1>4, <2>1, <2>3 DEF Inv, TypeOK, Points, Write
  <2>4. QED
    BY <2>2, <2>3
<1>6. DriverInv' /\ RecordInv'
  BY <1>4 DEF Inv, DriverInv, RecordInv, InStep
<1>7. FaithInv'
  <2>1. CASE tracer = "none"
    BY <1>4, <2>1 DEF FaithInv
  <2>2. CASE tracer # "none" /\ status = "FETCH_XCPT"
    BY <1>1, <1>4, <2>2 DEF Inv, FaithInv, InStep
  <2>3. CASE tracer # "none" /\ status # "FETCH_XCPT"
    <3>1. \A r \in State : shadow'[r] = IF r \in Reported THEN regs[r] ELSE shadow[r]
      BY <1>4, <2>3 DEF Entry
    <3>2. QED
      BY <1>4, <2>3, <3>1 DEF Inv, FaithInv, InStep
  <2>4. QED
    BY <2>1, <2>2, <2>3
<1>8. EndInv'
  BY <1>4 DEF Inv, EndInv, ExitEntryTrue, AssertsHold, Write
<1>9. QED
  BY <1>5, <1>6, <1>7, <1>8 DEF Inv

LEMMA LeaveLoopKeeps == ASSUME Inv, LeaveLoop PROVE Inv'
<1> USE DEF LeaveLoop, model, Write
<1>1. TypeOK'
  BY DEF Inv, TypeOK, Points
<1>2. DriverInv' /\ RecordInv' /\ FaithInv'
  BY DEF Inv, DriverInv, RecordInv, FaithInv, InStep
<1>3. EndInv'
  BY DEF Inv, EndInv, ExitEntryTrue, AssertsHold
<1>4. QED
  BY <1>1, <1>2, <1>3 DEF Inv

LEMMA FlushKeeps == ASSUME Inv, Flush PROVE Inv'
<1> USE DEF Flush, Finish, model
<1>1. TypeOK'
  BY DEF Inv, TypeOK, Points, Outcomes
<1>2. DriverInv' /\ RecordInv' /\ FaithInv'
  BY DEF Inv, DriverInv, RecordInv, FaithInv, InStep
<1>3. EndInv'
  BY RegAssumption DEF Inv, EndInv, ExitEntryTrue, AssertsHold
<1>4. QED
  BY <1>1, <1>2, <1>3 DEF Inv

LEMMA RunLoopKeeps == ASSUME Inv, RunLoop PROVE Inv'
<1>1. CASE Loop
  BY <1>1, BeginKeeps DEF Loop
<1>2. QED
  BY <1>1, ResetKeeps, StepTraceKeeps, TraceStepKeeps, LeaveLoopKeeps, FlushKeeps
  DEF RunLoop

-----------------------------------------------------------------------------
(* The debugging session *)

\* A step that goes from one place of the stub to another
LEMMA StubKeeps ==
  ASSUME Inv, driver = "debug", at' \in {"connect", "stub", "poll", "exited"},
         at \notin {"over", "flush"},
         UNCHANGED <<driver, tracer, outcome, model, exit, log, silent>>
  PROVE  Inv'
<1> USE DEF model, log
<1>1. TypeOK'
  BY DEF Inv, TypeOK, Points
<1>2. DriverInv' /\ RecordInv' /\ FaithInv'
  BY DEF Inv, DriverInv, RecordInv, FaithInv, InStep
<1>3. EndInv'
  BY DEF Inv, EndInv, ExitEntryTrue, AssertsHold
<1>4. QED
  BY <1>1, <1>2, <1>3 DEF Inv

LEMMA EndSessionKeeps ==
  ASSUME Inv, EndSession, at \in {"stub", "exited"}
  PROVE  Inv'
<1>1. exit' \in Codes \cup {None} /\ driver = "debug"
  BY DEF EndSession, Inv, TypeOK, DriverInv
<1>2. QED
  BY <1>1, FinishKeeps DEF EndSession

LEMMA ClientKeeps == ASSUME Inv, Client PROVE Inv'
<1> USE DEF log
<1>1. exit \in Codes \cup {None}
  BY DEF Inv, TypeOK
<1>2. CASE Connect
  BY <1>1, <1>2, StubKeeps, FinishKeeps DEF Connect, Inv, DriverInv
<1>3. CASE \E addr \in Pcs : AddBreakpoint(addr)
  BY <1>3, StubKeeps DEF AddBreakpoint, Command, Inv, DriverInv
<1>4. CASE \E addr \in Pcs : RemoveBreakpoint(addr)
  BY <1>4, StubKeeps DEF RemoveBreakpoint, Command, Inv, DriverInv
<1>5. ASSUME NEW id \in ClientIds, ReadRegister(id)
      PROVE  Inv'
  <2>1. CASE FromRawId(id).kind = "priv"
    BY <1>1, <1>5, <2>1, FinishKeeps DEF ReadRegister, Command
  <2>2. CASE FromRawId(id).kind # "priv"
    BY <1>5, <2>2, StubKeeps DEF ReadRegister, Command, Inv, DriverInv
  <2>3. QED
    BY <2>1, <2>2
<1>6. CASE Resume
  BY <1>6, StubKeeps DEF Resume, Command, Inv, DriverInv
<1>7. CASE Leave
  BY <1>7, EndSessionKeeps DEF Leave
<1>8. QED
  BY <1>2, <1>3, <1>4, <1>5, <1>6, <1>7 DEF Client

LEMMA PollKeeps == ASSUME Inv, Poll PROVE Inv'
<1>1. driver = "debug"
  BY DEF Poll, Inv, DriverInv
<1>2. CASE exit # None
  BY <1>1, <1>2, StubKeeps DEF Poll, Polled
<1>3. CASE exit = None /\ pc \in breakpoints
  BY <1>1, <1>3, StubKeeps DEF Poll, Polled
<1>4. CASE exit = None /\ pc \notin breakpoints
  BY <1>4, BeginKeeps DEF Poll
<1>5. QED
  BY <1>2, <1>3, <1>4

LEMMA StepOneKeeps == ASSUME Inv, StepOne PROVE Inv'
<1>1. CASE status \in Traps
  BY <1>1, FinishKeeps DEF StepOne, Inv, TypeOK
<1>2. CASE status \notin Traps
  BY <1>2, StubKeeps DEF StepOne, log
<1>3. QED
  BY <1>1, <1>2

\* Inv is inductive.
THEOREM InvInductive == Inv /\ [SessionNext]_allVars => Inv'
<1> SUFFICES ASSUME Inv, [SessionNext]_allVars
             PROVE  Inv'
  OBVIOUS
<1>1. CASE Client
  BY <1>1, ClientKeeps
<1>2. CASE ResetForDebug
  BY <1>2, ResetKeeps
<1>3. CASE Poll
  BY <1>3, PollKeeps
<1>4. CASE StepOne
  BY <1>4, StepOneKeeps
<1>5. CASE ProgramExited
  BY <1>5, EndSessionKeeps DEF ProgramExited
<1>6. CASE Simulate
  BY <1>6, SetupKeeps, RunLoopKeeps, FetchKeeps, ExecuteKeeps DEF Simulate
<1>7. CASE UNCHANGED allVars
  BY <1>7 DEF allVars, vars, model, log, Inv, TypeOK, DriverInv, RecordInv, FaithInv,
              EndInv, ExitEntryTrue, AssertsHold, Reported
<1>8. QED
  BY <1>1, <1>2, <1>3, <1>4, <1>5, <1>6, <1>7 DEF SessionNext, Process

-----------------------------------------------------------------------------
(* What the client is told *)

\* A stop is reported while the client is waited for, or when it is gone.
StopInv ==
  /\ StopReasonTrue
  /\ stop.kind = "SwBreak" => at \in {"stub", "over"}
  /\ stop.kind = "Exited" => at \in {"exited", "over"}

\* The program runs only between a resumption and a stop.
LEMMA SimulateLeavesStops ==
  ASSUME Inv, Simulate
  PROVE  /\ at \notin {"connect", "stub", "poll", "exited", "over"}
         /\ driver = "debug" /\ at' \in {"poll", "fetch", "execute", "returned"}
              => at \in {"fetch", "execute", "returned"}
         /\ driver' = driver /\ UNCHANGED session
<1> USE DEF log, model, Finish, DriverInv, Inv
<1>1. CASE Setup
  BY <1>1 DEF Simulate, Setup, LoadModel, LoadBus, OpenTracer, CreateModel, LoadElf, Proceed
<1>2. CASE RunLoop
  BY <1>2 DEF Simulate, RunLoop, ResetAndTrace, Reset, Loop, BeginStep, StepTrace, TraceStep,
              LeaveLoop, Flush
<1>3. CASE Fetch
  BY <1>3 DEF Simulate, Fetch, TakeTrap, Return, Abort
<1>4. CASE Execute
  <2>1. at = "execute" /\ driver' = driver
    BY <1>4 DEF Execute, WriteReg, WriteCsr, Done, Load, Store, Amo, Answered, Unsupported,
                Retire, Raise, TakeTrap, Return, Abort, Operation
  <2>2. QED
    BY <2>1 DEF Simulate
<1>5. QED
  BY <1>1, <1>2, <1>3, <1>4 DEF Simulate

LEMMA StopInvKept ==
  ASSUME Inv, StopInv, [SessionNext]_allVars
  PROVE  StopInv'
<1> USE DEF StopInv, StopReasonTrue, session, log, model
<1>1. CASE Connect
  BY <1>1 DEF Connect, Finish
<1>2. ASSUME NEW addr \in Pcs, AddBreakpoint(addr) \/ RemoveBreakpoint(addr)
      PROVE  StopInv'
  BY <1>2 DEF AddBreakpoint, RemoveBreakpoint, Command, Running
<1>3. ASSUME NEW id \in ClientIds, ReadRegister(id)
      PROVE  StopInv'
  BY <1>3 DEF ReadRegister, Command, Finish
<1>4. CASE Resume
  BY <1>4 DEF Resume, Command, Running
<1>5. CASE Leave \/ ProgramExited
  BY <1>5 DEF Leave, ProgramExited, EndSession, Finish
<1>6. CASE ResetForDebug
  BY <1>6 DEF ResetForDebug, Reset
<1>7. CASE Poll
  <2>1. CASE exit # None
    BY <1>7, <2>1 DEF Poll, Polled
  <2>2. CASE exit = None /\ pc \in breakpoints
    BY <1>7, <2>2 DEF Poll, Polled
  <2>3. CASE exit = None /\ pc \notin breakpoints
    BY <1>7, <2>3 DEF Poll, BeginStep
  <2>4. QED
    BY <2>1, <2>2, <2>3
<1>8. CASE StepOne
  BY <1>8 DEF StepOne, Finish
<1>9. CASE Simulate
  BY <1>9, SimulateLeavesStops
<1>10. CASE UNCHANGED allVars
  BY <1>10 DEF allVars, vars
<1>11. QED
  BY <1>1, <1>2, <1>3, <1>4, <1>5, <1>6, <1>7, <1>8, <1>9, <1>10
  DEF SessionNext, Client, Process

\* The numbers of the registers and what is announced agree, number by number.
LEMMA NumbersAgree ==
  ASSUME NEW id, NEW r \in TargetXml, r.regnum = id
  PROVE  /\ r.kind = FromRawId(id).kind /\ r.idx = FromRawId(id).idx
         /\ r.bitsize = 8 * FromRawId(id).bytes
<1> USE DEF TargetXml, Announce, FromRawId, VLEN
<1>1. CASE r \in {Announce("X", i, i, 32) : i \in 0 .. 31}
  BY <1>1
<1>2. CASE r = Announce("pc", 0, 32, 32)
  BY <1>2
<1>3. CASE r \in {Announce("F", i, 33 + i, 32) : i \in 0 .. 31}
  BY <1>3
<1>4. CASE r \in {Announce("csr", c, 65 + c, 32) :
                    c \in {1, 2, 3} \cup {8, 9, 10, 15} \cup {3104, 3105, 3106}}
  BY <1>4
<1>5. CASE r \in {Announce("V", i, 4162 + i, VLEN) : i \in 0 .. 31}
  BY <1>5
<1>6. QED
  BY <1>1, <1>2, <1>3, <1>4, <1>5

LEMMA AnswerKept ==
  ASSUME AnswerTrue, [SessionNext]_allVars
  PROVE  AnswerTrue'
<1>1. ASSUME NEW id \in ClientIds, ReadRegister(id), FromRawId(id).kind # "priv"
      PROVE  AnswerTrue'
  <2>1. answer' = [id |-> id, kind |-> FromRawId(id).kind,
                   idx |-> FromRawId(id).idx, bytes |-> FromRawId(id).bytes]
    BY <1>1 DEF ReadRegister
  <2>2. QED
    BY <2>1, NumbersAgree, SMTT(20) DEF AnswerTrue
<1>2. CASE answer' \in {answer, NoAnswer}
  BY <1>2 DEF AnswerTrue
<1>3. CASE Client
  BY <1>1, <1>2, <1>3 DEF Client, Connect, AddBreakpoint, RemoveBreakpoint, ReadRegister,
                          Resume, Leave, EndSession, session
<1>4. CASE Process
  BY <1>2, <1>4 DEF Process, ResetForDebug, Poll, Polled, StepOne, ProgramExited,
                    EndSession, Simulate, session
<1>5. CASE UNCHANGED allVars
  BY <1>2, <1>5 DEF allVars, session
<1>6. QED
  BY <1>3, <1>4, <1>5 DEF SessionNext

-----------------------------------------------------------------------------
(* Theorems *)

\* The variables keep their types, over any sequence of steps of the process
\* and its client: a trap, an abort or an error in between included.
THEOREM TypeCorrect == SessionSpec => []TypeOK
<1>1. Inv => TypeOK
  BY DEF Inv
<1>2. QED
  BY <1>1, InitInv, InvInductive, PTL DEF SessionSpec

\* Between two steps the log of `pokedex run` tells every register and CSR as
\* it is, except those that a trap has changed since their last report: what
\* the hooks report by mask and list, and the tracer reads after the step, is
\* all that an instruction changes.
THEOREM LogFaithful == SessionSpec => []LogIsFaithful
<1>1. Inv => LogIsFaithful
  BY DEF Inv, FaithInv, LogIsFaithful
<1>2. QED
  BY <1>1, InitInv, InvInductive, PTL DEF SessionSpec

\* The process reports success or failure only for a program that has stored
\* into the exit register, by its code, with the whole log ending in the exit
\* entry; and no other log ends so.
THEOREM ExitEntryIsTrue == SessionSpec => []ExitEntryTrue
<1>1. Inv => ExitEntryTrue
  BY DEF Inv, EndInv
<1>2. QED
  BY <1>1, InitInv, InvInductive, PTL DEF SessionSpec

\* No assertion about a record is reached, in the C code, in the handle or in
\* a tracer, when no instruction reports as many CSRs as the record holds: the
\* record has the code that was returned, and x0 is never among its changes.
THEOREM AssertionsHold == SessionSpec => []AssertsHold
<1>1. Inv => AssertsHold
  BY DEF Inv, EndInv
<1>2. QED
  BY <1>1, InitInv, InvInductive, PTL DEF SessionSpec

\* A stop at a breakpoint is reported before the instruction there, no
\* breakpoint is run over, and an exit is reported with the program's code.
THEOREM StopsAreTrue == SessionSpec => []StopReasonTrue
<1>1. SessionInit => StopInv
  BY DEF SessionInit, Start, StopInv, StopReasonTrue, Running
<1>2. Inv /\ StopInv /\ [SessionNext]_allVars => StopInv'
  BY StopInvKept
<1>3. StopInv => StopReasonTrue
  BY DEF StopInv
<1>4. QED
  BY <1>1, <1>2, <1>3, InitInv, InvInductive, PTL DEF SessionSpec

\* A register that was announced is the one that is answered, in its size,
\* for every number a client may ask for.
THEOREM AnswersAreTrue == SessionSpec => []AnswerTrue
<1>1. SessionInit => AnswerTrue
  BY DEF SessionInit, AnswerTrue
<1>2. AnswerTrue /\ [SessionNext]_allVars => AnswerTrue'
  BY AnswerKept
<1>3. QED
  BY <1>1, <1>2, PTL DEF SessionSpec
=============================================================================
