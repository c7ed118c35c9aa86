# Pokedex in TLA+

Pokedex is a RISC-V (RV32IMAFC + Zve32f) instruction-set simulator. The
architecture is written in ASL (`src/model`), with most instructions generated
from Jinja templates, compiled to C behind a small interface
(`src/model/csrc/pokedex_interface.c`) and driven by a Rust program
(`src/simulator`) that owns the bus, the run loop, the tracers, the
differential test and a gdb stub.

This directory holds TLA+ modules translated from that code, the TLC
configurations that check them on small instances, and proofs for TLAPS.
`PROJECT.json` maps every definition to its lines, and lists the runs, the
mutants that show that each property can fail, the findings and the hazards.

## The system

| component | state | operations | interacts through |
|---|---|---|---|
| hart: step, fetch, interrupts, exceptions (`model/handwritten/{step,trap,states,exception,memory,external}.asl`) | `PC`, `X`, `MEPC MCAUSE MTVAL MTVEC MSCRATCH`, `MIE MPIE`, `MTIE MEIE` | `Step` = `CheckInterrupt`, two half fetches, decode and execute, `handleException`; `ASL_ResetState` | FFI calls out: fetch, read, write, AMO, LR/SC, interrupt lines, log hooks |
| machine CSRs (`model/csr`, `csr_dispatch.asl.j2`, `rv_zicsr`) | the CSRs | `Read_*`, `Write_*`, csrrw/s/c and their immediate forms | called by the CSR instructions, write the trace hooks |
| scalar instructions (`rv_im_zifencei`, `rv_c`, `rv_a`, `rv_priv`) | none of their own | one `Execute_*` each | registers, `PC`, memory |
| vector configuration and groups (`states_v.asl`, `rv_v`) | `VTYPE`, `VL`, `__VRF` | `vset{i}vl{i}`; operand checks and element loops | `V0_MASK`, `VRF_*`, `mstatus.VS` |
| vector loads and stores (`rv_vmem`) | `VSTART`, the loop in progress | loops that stop at a fault and are resumed | bus; guest trap handler; trace hooks |
| floating point (`rv_f`, `rv_cf`, `rv_vf`, `states_fp.asl`) | `F`, `FCSR`, `mstatus.FS` | softfloat calls, accrued flags | trace hooks |
| C interface (`pokedex_interface.c`) | instance flag, callback vtable, trace buffer | create, destroy, reset, step_trace, hooks | Rust below, ASL above |
| simulator (`simulator/src/model`, `simulator/src/pokedex`) | model handle, step status, exit flag, tracer | run loop, callbacks, StdoutTracer / JsonFileTracer | C interface, bus |
| bus and devices (`simulator/src/bus`) | SRAM, exit register | decode, bounded read and write | callbacks of the simulator |
| differential test (`simulator/src/difftest`) | two replayed CPU states and their logs | parsers of both logs, `run_diff`, `diff_step`, `update_state`, `pretty_print_diff` | JSON log of Pokedex, text log of Spike |
| gdb stub (`simulator/src/gdb`) | breakpoints | poll, step, resume, register and memory reads | simulator, bus, gdb client through the gdbstub crate |
| arithmetic, generators, build, tests | none at run time | | |

One process runs the whole system on one thread, so its difficulty is not in
threads. It is in what one step leaves behind for a later one:

* a trap saves a context that software must be able to return to, whatever the
  handler does and whichever interrupt line rises meanwhile;
* an instruction that fails half way (the second half of a fetch, the write of a
  CSR instruction that has already read, the fourth element of a vector load)
  must leave no partial effect, or leave one that its resumption completes;
* `vtype` and `vl` are set by one instruction and trusted by all later ones;
* an element loop reads and writes one register file, so an overlap of operands
  makes one iteration see another's result;
* the trace buffer that the logs and the differential test are built from is
  filled by hook calls spread over two hundred templates, and its values are read only
  after the step;
* the process can end at almost any point (an error, a panic of a callback, which C
  code turns into an abort, an assertion in C), and what it leaves is the first part of a log;
* a differential test trusts two logs written by programs that do not know of each other,
  and that end when and where each of them happens to.

What makes each component correct is stated by the properties below; the
complete list of hazards, with those that no property covers yet, is in
`PROJECT.json`.

## The modules

### Hart: one step of the machine

`Hart.tla` has one action per outcome of `Step()`: `TakeInterrupt`,
`FetchFault`, and one per class of instruction (`Alu`, `Branch`, `Jal`, `Jalr`,
`CJumpRegister`, `Load`, `Store`, `Amo`, `LrSc`, `Environment` for ecall and
ebreak, `Illegal`, `Mret`, `CsrRead`, `CsrWrite`). Every action is a whole step: the
interrupt check comes first (`NoInterrupt`), then both half fetches
(`Fetched`), then the instruction, and, when it fails, `handleException`
(`Raise`). The trap CSRs are variables of their own; the values of general
registers are data, so a register that is used as an address or a CSR
operand is drawn from a small set, and the record only says whether a register
other than x0 is written. `trace` is the trace buffer of the last step.
`halt` says why the process stopped: the assertion of the PC setter, or the
`assert(false)` behind LR and SC in the C interface. `frame` is a history variable: what the
last trap interrupted, valid until software writes one of the CSRs that hold it or
returns.

The interrupt lines are read through the FFI at each step. The shipped C stub
never raises them; the lines are the environment at that boundary, and the model
lets any set of `IrqLines` be raised at each step.

### VectorConfig: vtype, vl and register groups

`VectorConfig.tla` has `VTYPE_from_bits`, VLMAX, the four alignment functions of
`states_v.asl`, the vset instructions, and sixteen families of vector
templates with the checks each makes. An instruction that passes its checks leaves in
`group` the registers its loop goes through: destination, element width,
group size, and for each source which elements an iteration reads
(`reads`: its own, an earlier or a later one, any). `halt` records a `Todo()` (64-bit
elements) and the arithmetic on a VTYPE that was never set: `resetVectorState` has no caller, so
VTYPE starts as zeroed storage, which is neither ill nor a legal vtype.

### VectorMem and VectorAccess: loads and stores that fault

`VectorAccess.tla` is the abstract specification: an access happens once, completely,
between the instruction before and the one after. `VectorMem.tla` is the code: `Begin` or `Refuse` (the
vstart check), `Skip`, `Transfer`, `Fault` (`vectorInterrupt`) and `Retire` are the
steps of the element loop, for unit-stride, strided, indexed, whole-register and
mask accesses, with and without fields. `Handler` is the guest's trap handler, which is
not in the repository: it makes the faulting address accessible, perhaps by
taking another one away, and returns to the instruction, or gives the program
up. The refinement `Access` hides the registers and the memory until the
instruction retires, which is what the program that is not the handler sees. `IsLoad` says which
of the two transfers it is: a load loads all its active elements and leaves the memory, a store stores all of its
own and leaves the registers, and an access that retires without its transfer is no step of `VectorAccess`.

### DiffTest and Lockstep: the differential test

`DiffTest.tla` is `pokedex difftest` over two logs: `GetResetPc`, `SkipBootRom` and the resets, then
rounds of `diff_step`, first Spike's (source 1) and then Pokedex's (source 2). An
entry is `BeginCommit` (its pc), any number of `WriteReg` and `WriteCsr` (its writes, one by one)
and `EndCommit`; since a log is read once and in order, an entry is chosen
when it is read. `JudgeRunning` compares and `JudgeExit` ends the
run; errors and panics, which both end it without a report, are `phase = "failed"`.
X, F and V registers are one set `Regs`; the code keeps a bitmap for each and treats them
alike. CSRs keep the parts of `fcsr` and `vcsr` and the names
that `write_csr` refuses: those that `CsrState` does not have, and `mtval`, which it has without an arm to write it.

`Lockstep.tla` is what a differential test promises: two machines move in turn and their
whole states are compared in every round. `DiffTest` compares registers that the two
entries of the round have written, so that it implements `Lockstep` is
a claim about all earlier rounds.

What the logs contain is the environment of this module; `Cosim` below supplies it.

### SpikeLog and Cosim: the differential test end to end

`SpikeLog.tla` is `spike.rs`: a line of Spike's log is a sequence of words, `Kind` is the tokenizer,
and `Parse`, `ParseMods` and their parts are the recursive descent, which ends where the tokens end.
`PrintLine` is Spike's printer, external, as the parser and its tests expect it, and `LineCuts`
the pieces of a line that remain when Spike is killed while it prints.

`Cosim.tla` composes the two. `Step` lets two machines execute one program, each with its own
log: what Spike and Pokedex put into it differs (`GoldMods`, `DutWrites`: `fflags` and `frm` against
the whole `fcsr`, vector contexts, memory accesses, and no line at all for an instruction that
trapped). In a run one thing may go wrong: Pokedex executes one instruction wrongly (`Step` with `i # j`),
its process ends and loses what its `BufWriter` held (`Crash`), or Spike's log is cut, at a line or within one
(`StopSpike`). Then both logs are loaded and the actions of `DiffTest` replay them entry by entry. The
machines are external and an instruction is its kind (none writes an F register, so `F1` stays as it is);
the parsers, the replay and the report are the code. `TrapPc`, where the program has its trap handler, is a constant that lies
behind all that the program reaches without a trap (`HandlerAssumption`): a handler entered at the address of the instruction
that has trapped would leave no trace in either log.

### ExtInsts and ExtContext: floating-point and vector state over all templates

`ExtInsts.tla` has one line for each template of `rv_f`, `rv_cf`, `rv_v`, `rv_vf` and
`rv_vmem` and for each write of an fcsr, vcsr or vstart register: what it needs (`FS`, `VS`, a
legal `vtype`, `vstart = 0`, a valid rounding mode) and which functions of the model it
calls, one set for each way it ends, one for each way it faults, and one for each way it is found to be
illegal after it has changed something. `ExtContext.tla` says
what each of those functions changes (`Writes`), reports to the trace buffer (`Logs`) and
makes dirty, and runs the templates in any order: `Retire`, `Fault` (a vector access that stops
at an element), `IllegalAfter` (`vfwcvt_f_x_v`), `Refuse`, and `Write_MSTATUS`, with which software sets both statuses.
`unsaved` is a history variable: the parts that changed since software
wrote a status other than Dirty, and with it said that it holds a copy. This is
the contract that a lazy context switch of an operating system rests on, and
it depends on two hundred places that each call the right function.

Four parts do not keep it, and `LazySwitchKeepsState` names them: `vtype` and `vl` (`vsetvl` and
`vsetvli` do not make VS dirty, `vsetivli` does), `vstart` (`Write_VSTART` makes FS dirty
instead of VS, and turns FS on, while its header asks for FS and its guard for VS; a store that faults
makes nothing dirty), the elements a load transferred before it faulted, and those that `vfwcvt.f.x(u).v`
wrote (`"stray"`): with 16-bit elements its loop writes the destination and then
returns `IllegalInstruction()` (`vfwcvt_f_x_v.asl.j2:73`), behind which `logWrite_VREG_elmul` and `makeDirty_VS` are
never reached; with 8 and 64 bits it is refused and with 32 it is a `Todo()`, so it never retires. No line of the
repository promises the four, so they are listed here and not as findings. `RecordComplete`, which a line does
promise, excludes two templates by name (`Unlogged`), in steps that trap: `vlse`, the finding of
`vector_mem_strided`, and `vfwcvt_f_x_v`, whose elements are missing from the record in the same way. The build modelled is the one with `rv_f` and Zve32f
(`states_fp.asl`), the default of the tests; `non_fp_compact.asl` replaces these functions in builds
without floating point.

### WordOps, AddressSpace, FlatMemory and Bus: the bus

`AddressSpace.tla` has the functions of `simulator/src/bus`: which ranges a configuration's blocks are
(sums of `u32`, which panic or wrap, as the build was made), when two of them overlap, which device an
address decodes to, and how that device answers: data, an error, or a panic. `WordOps.tla` has little-endian words
and the nine atomic operations. `Bus.tla` has the state: the bytes of the memory, the cells of the exit registers,
and one action for each thing the program asks: `LoadConfig` (the checks in their order),
`LoadSegment` (a segment of the ELF file is one write), `ReadMem`, `WriteMem`,
`AmoMem` (a read and then a write) and `DebuggerRead`. `FlatMemory.tla` is what a bus promises its
master: an array of bytes whose writes are whole or do nothing. The refinement `BusIsFlatMemory` maps the memory's
offsets back to addresses.

### Simulator: the process and the C interface

`Simulator.tla` is `pokedex run` from its start to its end: five steps of start-up, each of which can fail, the
reset, and the loop (`Loop`, `LeaveLoop`, `Flush`). A step of the model is spread over actions, since the C code calls
back: `BeginStep` (`model_step_trace` up to `ASL_Step`), `Fetch`, then any sequence of the operations that arrive at
the interface (`WriteReg` and `WriteCsr` are the hooks, `Load`, `Store`, `Amo` the callbacks, `Unsupported` the
callbacks that are not implemented), `Retire` or `Raise`, and after it `StepTrace` (the assertions of the handle) and
`TraceStep` (the tracer, which reads the values of the registers that the record names). What an
instruction computes is the subject of `Hart`; here the values are any. `status` is the code that
`model_step_trace` has returned, which the handle compares with that of the record, and `X0` the register whose setter
neither writes nor reports. `Finish` says how the
process ends and whether the log is whole on disk: an abort does not flush the `BufWriter`. `shadow` is what
a reader of the log takes the registers to be, and `silent` is a history variable: what traps have changed
since it was last reported, for a trap writes CSRs that its record does not name (`handleException` calls
no hook), and a vector access that faults may leave registers behind.

### GdbStub: a debugging session

`GdbStub.tla` extends `Simulator` with `pokedex debug`: the same model and the same step under `Poll`
(`poll`: the exit code, then the breakpoints, then a step) and `StepOne`, which panics on a program that traps.
The client is external; it adds and removes breakpoints, reads registers, resumes, and leaves,
as it likes. `FromRawId` and `TargetXml` are the two tables of register numbers. `ran` is a history
variable: where instructions began since the client resumed. `SessionSpec`
covers both drivers and states the fairness of the process.

## The runs

| run | shows |
|---|---|
| `hart` (`Hart.cfg`) | `PcAligned`; `FrameKept`: the trap CSRs hold the interrupted context until software overwrites it or returns; `MretResumes`: `mret` goes back to it; `HandlerNotInterrupted`: no interrupt is taken before the handler re-enables them; `PreciseTrap`: a step that raises changes nothing else; `FetchFaultBlamed` and `MemoryFaultBlamed`: cause and `mtval` agree on what failed; `CommitTraced`: a committed instruction records what it changed |
| `hart_odd_pc` (violation) | `c.jr`/`c.jalr` to an odd address end the process in the PC setter's assertion |
| `vector_config` | `VlInRange`: vl never exceeds the VLMAX of the vtype it is used with; `EewAlignExact`: EMUL by logarithms is EEW/SEW x LMUL; `GroupsHoldVl`: a group that passes the checks lies within the register file and holds vl elements; `OverlapSafe`: an overlap that passes the checks does not make an iteration read a result of an earlier one |
| `vector_config_masked_gather` (violation) | a masked `vrgatherei16.vv` may overwrite the mask it is reading |
| `vector_mem` | `AtomicOtherwise`: refinement of `VectorAccess`: an access that retires has transferred all its elements and nothing else; `ServedOnce`: an access without fields transfers no element twice; `ProgressUnderEviction`: it ends although each repair may undo another one; `ConservativeOtherwise`: the record of each step names what the step changed |
| `vector_mem_index_overlap` (violation) | an indexed segment load that overwrites its own index operand resumes at the wrong address |
| `vector_mem_strided` (violation) | a strided load without fields does not record the registers it loaded before a fault |
| `difftest` (`DiffTest.cfg`) | `ComparesWholeStates`: refinement of `Lockstep`; `SameMeansSuccess`: a run that did not exit with 0 is not reported as the same, with the one exception its comment names |
| `ext_context` (`ExtContext.cfg`) | `RecordComplete`: what a step changes of the extensions and of mstatus is in its record, the elements that two templates leave behind in a trap excepted; `LazySwitchKeepsState`: what changed since software saved it is under a Dirty status, four parts excepted; `OffIsOff`: an extension that is off does not change and is not turned on but by software, one CSR excepted |
| `bus` (`Bus.cfg`) | `DecodedAsConfigured`: an accepted configuration means what it says and one that was refused could not; `ExitSeen`: the exit code is the one last stored, zero included, by the image or the program; `BusIsFlatMemory`: refinement of `FlatMemory` |
| `pokedex` (`Pokedex.cfg`, both drivers) | `LogIsFaithful`: between steps the log tells every register as it is, those a trap has changed excepted; `ExitEntryTrue`: success, failure and the exit entry mean that the program stored its code; `AssertsHold`: no assertion about a record is reached: its code, x0, its length, a change without an instruction; `StopReasonTrue`: no breakpoint is run over, and stops are reported as they are; `AnswerTrue`: announced registers are answered as announced; `ExitEnds`: a store into the exit register ends the process |
| `cosim` (`Cosim.cfg`) | `VerdictTrue`: "same" is said only of a Pokedex that exited with 0 and never differed from Spike in what both wrote, and anything else has a cause; `CutKeepsPrefix`: a cut line is refused or read as the commit without its last writes, of which only one may have another value; `DifferenceExplained`: the notes of a difference name a register or a CSR |

The violation runs are disagreements between the code and a line of
the repository; `findings` in `PROJECT.json` quotes both. Where a passing
property excludes such a case (`AtomicOtherwise`, `ConservativeOtherwise`, `RecordComplete`,
`OverlapSafe`) its comment names the excluded case, and the violation run shows it is
the reason.

### Bounds

* **Hart**: an address space of 32 bytes that wraps. The program is at 0 and 2, the
  values it writes make 16 a handler base, whose vector for the timer wraps to 12 and whose
  vector for the external line is a hole, so are the halfwords after 2 and 18, where
  the second half of a fetch fails. One data address is good and one is misaligned and
  unmapped. The code compares addresses and adds at most 4 * 11 to one,
  so a larger space adds no behaviour.
* **VectorConfig**: VLEN is 64 instead of 256, since every group boundary scales with it and
  64 bits still hold elements of 8, 16 and 32 bits in every proportion; ELEN is the code's. Every
  vtype operand; registers at both ends of the file and at multiples of 1, 2 and 4;
  lengths of none, few, the largest immediate and more than any VLMAX. One
  instruction is recorded per vtype and vl, as instructions change neither.
* **VectorMem**: three elements, two fields, seven addresses. Three elements are the fewest with one before, one at and one
  after a fault; two fields the fewest that can fault in the middle of a segment;
  strides 0 and 6 make elements share an address and wrap; one address is
  never repaired.
* **DiffTest**: two registers, so that one can differ while the other is written; two values
  and two pcs; a CSR of two one-bit parts, one without parts and two names that the
  replay refuses; three entries may be skipped instead of 16. The logs are
  of any length. `MaxCode` is also a code that the program can exit with.
* **Bus**: eight addresses, bytes of one bit, words of two bytes: every offset is at or next to a boundary, a word can
  lie across the end of the memory, and all words and all operands of the atomic operations are enumerated. The layouts are
  touching, apart in both orders, overlapping in both orders, empty, and ending where the address space does, the
  last with and without overflow checks; the register lists are none, unknown, one, two, and two at one offset.
* **Pokedex**: x0, another X and a V register, a CSR that traps write and one they do not; 17 addresses with a memory of
  six bytes, so that the second half of a fetch at 4 fails, and the exit register at 8, where a fetch panics. Two operations an
  instruction, and a record of three CSRs instead of 16, keep the distance of the code: `vset{i}vl{i}` reports
  four and the others fewer. Codes are 0 and 5, with an exit byte of five values, so that a code that is not zero
  is reported to the client as zero, as 256 is.
* **Cosim**: programs of two instructions and an exit, since no kind of entry depends on more than the one
  before it; one boot-ROM entry, one-bit parts of `fcsr`, numbers in base 2 of 8 and 16 digits where the parser counts them.
* **ExtContext**: all templates. `vstart` is zero or not, which is all that any need or call
  distinguishes.

### Deadlock and fairness

`ext_context` checks for deadlock: some instruction or exception is always possible.
`CHECK_DEADLOCK FALSE` is said of every other run: the process ends in an assertion or a
`Todo()` (`halt`), the model of one vector access ends when the access does, and the
differential test ends with its report, the process ends, a bus that panicked or was refused is not used again.
Liveness is stated twice. In `VectorMem`, under weak fairness of `Step` (the run loop of
`simulator/src/pokedex/mod.rs` calls it until the program exits) and of `Handler`
(the guest's handler terminates; without that no access that faults can end). In `GdbStub`, under weak fairness
of `Process`: the one thread of the program runs. Nothing is assumed of the client, so `ExitEnds` is also met
where the program waits for it. `DiffTest`, `Cosim` and `Bus` state no liveness.

## The proofs

`HartProofs.tla` proves for every value of the constants that satisfies the
module's assumptions:

* `TypeCorrect` `Spec => []TypeOK`, `AlwaysAligned` `Spec => []PcAligned`,
  `ContextKept` `Spec => []FrameKept`;
* `MretResumesContext` (`MretResumes`) and `HandlerRunsAlone` (`HandlerNotInterrupted`);
* `FetchFaultsAreBlamed`, `MemoryFaultsAreBlamed`, `TrapsArePrecise` (`PreciseTrap`) and `CommitsAreTraced` (`CommitTraced`).

The inductive invariant is `HartInv`: types, even `pc`, `mepc` and vector base, and the
link between `frame` and the trap CSRs. Alignment alone is not inductive: `pc` comes back from
`mepc`, which must be even too, and from `mtvec`, whose base must be a multiple of
four. `FrameKept` alone is not inductive either: that the enable is off while a frame is valid and
untouched is what keeps an interrupt from overwriting it. One lemma per action shows
that it preserves the invariant. The last four theorems rest on one lemma, `StepShape`: every step is `Trapped` and
blames what failed, or `Committed` with all it changed in its record, or `Stopped`. The two invariants among them are
then inductive together with the types: a commit removes the code that they speak of, a stop leaves all as it was.
The assumptions are those of
`Hart.tla`: the space is a multiple of four bytes, and what the environment supplies
lies in it.

`DiffTestProofs.tla` proves for every pair of logs, every set of registers, values and CSR
fields:

* `TypeCorrect` `Spec => []TypeOK`;
* `ReplayComparesWholeStates` `Spec => ComparesWholeStates`, the refinement. The invariant is
  `UnmarkedAgree`: a register that neither entry of this round has written is equal in both
  shadow states, and between rounds everything is. Together with
  `ControlInv` (types, and that a log that has ended ended in this very round)
  it makes `ComparisonExact` true, the lemma the judgement rests on: the
  comparison of the written registers holds just when the states are equal. Every action is then
  a move of one machine, a judgement or a stutter (`LockReset`, `LockDiffStep`, `LockEnds`, `LockJudge`);
* `SameOnlyOnSuccess` `Spec => []SameMeansSuccess` under the policy that `run_subcommand` passes.

`ExtContextProofs.tla` proves every property of `ExtContext`: `TypeCorrect`, `RecordIsComplete`,
`LazySwitchIsSafe` and `OffStaysOff`. The argument is a rule about the calls of one template
(`Obeys`: what the calls change is `Reported` by one of them, `Dirtied` by one of them, and
`Guarded` by what the template needs), six lemmas that every template obeys it, and proofs that
use only the rule. In a step that traps the rule asks less, and of the two templates in `Unlogged` no log. A new template
is covered when it obeys the rule. `LazySwitchKeepsState` is
inductive in the form of its two halves `KeepsF` and `KeepsV`; the other two need no invariant.

`PokedexProofs.tla` proves the invariants of `Simulator` and `GdbStub` for every layout of the address space, every set of
registers, CSRs, values and codes, and every limit of the record that no instruction reaches
(`HookAssumption`), from `SessionSpec`, so for both drivers at once:

* `TypeCorrect`, `LogFaithful` (`LogIsFaithful`), `ExitEntryIsTrue`, `AssertionsHold`, `StopsAreTrue` and `AnswersAreTrue`.

The inductive invariant `Inv` has five parts. `LogIsFaithful` speaks of the moment between two steps; what carries
it there is `FaithInv`: within a step the log lags behind by exactly the registers that the record names or that a
trap has changed. `AssertsHold` needs `RecordInv`: the list of CSRs is never longer than the operations done, and is
empty where a fetch failed; it names no x0 and has the code that was returned. That no instruction reports as many
CSRs as fit, and that all of them have names, are assumptions (`HookAssumption`), which the templates justify. `EndInv` ties the outcome and the exit entry to the end of the loop, and `DriverInv` keeps the
two drivers to their own places: an exit entry can only be written by `run`. `StopInv` adds where a stop reason can
stand; `AnswersAreTrue` rests on `NumbersAgree`, a comparison of the two tables of numbers for every id.

`BusProofs.tla` proves every property of `Bus`, for every size of the address space, word size, configuration and image:

* `TypeCorrect`, `AcceptedMeansIt` (`DecodedAsConfigured`), `ExitIsSeen` (`ExitSeen`), and the refinement
  `ImplementsFlatMemory` `Spec => BusIsFlatMemory`.

The arithmetic is in three lemmas about `%` (`Modulo`, `CodeOfCell`, `EndOfBlock`) and in `HeldOffsets`: an address that is
decoded to the memory has an offset in it, and its block does not leave the space, so that no sum of the bounds
checks wraps. `PutInArray` and `BytesOfArray` carry writes and reads from offsets to addresses. `ConfigInv` remembers what
`LoadConfig` found out, `CellInv` what the exit register holds. `RangeAssumption` (a power of a positive number is
positive) is arithmetic that the prover lacks; TLC evaluates it on every run.

`VectorConfigProofs.tla` proves every property of `VectorConfig`, for every VLEN that is a multiple of ELEN (32 or 64),
every set of registers, lengths and numbers of fields:

* `TypeCorrect`, `VlStaysInRange` (`VlInRange`), `EewAlignIsExact` (`EewAlignExact`),
  `GroupsAlwaysHoldVl` (`GroupsHoldVl`) and `OverlapsAreSafe` (`OverlapSafe`).

The inductive invariant is `VtypeInv /\ GroupInv /\ HaltInv`. Neither of the last two properties is inductive: they
speak of `vl`, which a later `vset` changes, and of elements, which the checks of the code do not mention.
What the checks establish, and what stays true until the next instruction, is `Legal`: each operand has room for
VLMAX elements (`Fits`), and each source lies apart from the destination, at a field of it with elements no narrower,
or, narrower, at its upper end (`Clear`). One lemma per family of templates shows that its checks give `Legal`.
`ClearIsUntouched` is then the argument about bits: where a source is `Clear`, element `k` of it lies beyond
whatever iterations before `k` have written. `Eighths` turns LMUL with its fractions into a number, so that the
alignment functions become products of numbers that are small or VLEN.

`VectorMemProofs.tla` proves the safety properties of `VectorMem`, for every address space, mapping, instruction and
guest handler, so for any number of faults:

* `TypeCorrect`, `RecordIsConservative` (`ConservativeOtherwise`), `ElementsServedOnce` (`ServedOnce`), and the
  refinement `AccessIsAtomic` `Spec => AtomicOtherwise`.

The inductive invariant is about a position: the loop counters, or `vstart` and the first field while the access is
interrupted. Everything behind it has been transferred, and nothing ahead of it but fields of the element it stands at,
the last field excepted (`PassInv`): a segment is started again after a fault in its middle. The contents follow
(`DataInv`). A loaded slot has what memory has at its address, which stays the same address as long as the
index operand is not overwritten. A stored address is `Settled`: several elements may store there, and it holds the value of one of them that
no transferred one behind the position comes after; when the position is at the end that is the last writer, as
`VectorAccess` says. Every step but `Retire` is a stutter of `VectorAccess`, and `Retire` is the whole access.

`CosimProofs.tla` proves the three properties of `Cosim`, for programs of any length, runs with at most one fault (as the
model has them), and logs that are cut anywhere:

* `DifferencesAreExplained` `CosimSpec => []DifferenceExplained`, when `ListedCsrs` has every field of the
  state, which the comment at `replay.rs:214` demands of the list. The invariant is the shape of the shadow
  states and that there is no report before the judgement; the replay is a sequence of the actions of `DiffTest`
  (`ReplayCases`);
* `CutLinesKeepPrefix` `CosimSpec => []CutKeepsPrefix`, in every base;
* `SameOnlyAfterExit`, the first part of `VerdictTrue`, which needs the policy and `MaxCode` only: an exit code comes from an
  exit entry, and that is only there if the program has exited (`ExitInv`), also in a log that was cut;
* `VerdictIsTrue` `CosimSpec => []VerdictTrue`, if the policy is the one that `run_subcommand` passes, `MaxCode`, the code
  that stands for the end of Spike's log, is none that the program can exit with (`u32::MAX` against 0 and 1), more than
  one entry of the boot ROM may be skipped (16), and both parts of `fcsr` have more than one value (32 and 8).

*The parser.* The recursion of `ParseMods` and of `FlattenSeq` is a recursive function over a range of numbers, which TLA+ defines as
"the function such that", so first such a function has to be there (`ParserIsDefined`, `FlatIsDefined`), and then what it
computes is shown from the end of the line to its beginning (`ReadsStep`). The induction theorems of the library take an
operator as a parameter and cannot be used; `SetInduction` says the same of sets of numbers, and follows from the fact that `<` is well
founded. The argument is about positions: every modification of a commit begins at a known word of its line
(`Layout`); one whose words are all there is read as it was printed (`ParseWhole`); the one that the line ends in is read, if at all, as
one modification of its sort, and nothing is found in what is left of it (`ParseCut`), since no piece of a number is
taken for the head of a modification. So a line that is not refused is read as a prefix (`CutLineRead`), and a
whole line is never refused and is read as its commit (`WholeRead`).

*The verdict.* `VerdictTrue` compares the machines, of which the replay only sees what they logged. The invariant
`VerdictInv` says that there are two sequences of shadow states, `G` and `D`, that connect the two (`RunTraces`): one is what the
replay makes of each entry of Spike's whole log, the other of that of Pokedex, and their last elements are what the machines hold. It has three parts.

* `RunTells`: a run that ends is calm (nothing that both had written ever differed, and nothing trapped), or some round of the
  replay tells the machines apart: by the pcs, by what was written, or because Spike has run out of the entries
  that Pokedex has. `NewDifference` is its heart: a difference that is new is of a register that this very round has
  written, so the mask of the round has it. That is not inductive without `Ahead`, for a fault by which Spike has logged less.
* `ReplayFacts`: where the replay is, phase by phase, and that each round that has passed compared those elements of the two traces.
  An entry of Spike that was cut is the exception, and it is the last one. A report of "same" has passed every round, so nothing has told, and the run was calm.
* `Clean` and `NotWrong`: without a cause the two traces are equal and every write is one that the replay takes, so that no step
  of it fails or finds a difference (`ReplayClean`). `Booted` says that the boot ROM ends where the replay looks for the reset vector.

The proof needs `HandlerAssumption`: the trap handler is not at an address that the program reaches by itself. With the handler at
the very instruction that traps, nothing in either log would tell. While the handler's address was fixed the theorem held for short programs only, and the address is a constant since then.

TLC has checked the parts of `VerdictInv` as invariants of the instance of `cosim`, with the traces computed from the logs, before they were proved.

Model-checked only:

* `ExitEnds` and `ProgressUnderEviction`: liveness, out of the prover's reach;
* the four properties of the violation runs, which do not hold.

## Not modelled

* What instructions compute (arithmetic, softfloat): pure functions on words.
* The interrupt lines are never raised by the shipped C stub, and the statistics that the simulator declares are not counted;
  the process has one model, so that a second one is refused is not modelled. Single steps are not offered to the client.
* The JSON text of Pokedex's log: serde writes and reads it; a cut within a line is refused (`torn`).
* Spike, the gdbstub crate and the client: external, and modelled by what the code expects of them.
* Vector reductions, whose single write follows the loop, and element arithmetic.
* Generators, build and documents.

## Hazards without a property

* `resetVectorState` has no caller (`states_v.asl:23`); the model stops there with `halt = "vtype_unset"`, and no line says
  what the vector state after a reset is.
* A second exit register (`bus/mod.rs:263`) takes stores that nobody reads; no line says what two of them mean.
* The poll loop of the stub cannot be interrupted by the client (`gdb/run.rs:65`), as its own comment says.

Also seen: `vfwcvt.f.x(u).v` with 16-bit elements writes vector registers and is then found to be illegal
(`vfwcvt_f_x_v.asl.j2:73`), so its record misses them, against "The record is conservative"
(`pokedex_interface.h:168-169`), as that of the strided load does. `RecordComplete` and
`LazySwitchKeepsState` name it. And promised by no line: `vtype` accepts 64-bit elements, whose use ends in `Todo()`.

## Plan

Done: the hart, the extensions, vector configuration, vector memory, the differential test with its producers, the
process, the bus, the debugger, and proofs of every safety property, action property and refinement that the passing runs
check. Left, in this order:

1. `Cosim` with two faults in a run, where a second one may hide the first.
2. Instructions that write an F register or several registers at once, with marks of all of them.
