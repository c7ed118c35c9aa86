------------------------------ MODULE GdbStub -------------------------------
(***************************************************************************)
(* `pokedex debug`: the same process and the same steps of the model as    *)
(* Simulator, driven by a gdb client.  The client and the gdbstub crate    *)
(* that speaks with it are external: between two stops the client asks     *)
(* for what it likes.  Registers and memory cannot be written, and what    *)
(* the client reads of memory is Bus!DebuggerRead.                         *)
(***************************************************************************)
EXTENDS Simulator

CONSTANTS
  ClientIds,  \* register numbers that the client asks for
  CodeRange   \* values of the u8 of an exit report, 256

VARIABLES
  breakpoints,
  stop,     \* what the client was told last
  ran,      \* history: where instructions began since the client resumed
  answer    \* the register that the client was given last

session == <<breakpoints, stop, ran, answer>>
allVars == <<vars, session>>

NoAnswer == [id |-> None, kind |-> "none", idx |-> 0, bytes |-> 0]
Running == [kind |-> "none", code |-> 0]

SessionInit ==
  /\ driver \in {"run", "debug"} /\ Start
  /\ breakpoints = {} /\ stop = Running /\ ran = {} /\ answer = NoAnswer

VLEN == 256

-----------------------------------------------------------------------------
(* Registers *)

\* RiscvRegId::from_raw_id
\* Mutant: vector registers begin where the privilege level is.
FromRawIdOffByOne(id) ==
  IF id >= 4161 /\ id <= 4192 THEN [kind |-> "V", idx |-> id - 4161, bytes |-> VLEN \div 8]
  ELSE [kind |-> "X", idx |-> id, bytes |-> 4]

FromRawId(id) ==
  IF id <= 31 THEN [kind |-> "X", idx |-> id, bytes |-> 4]
  ELSE IF id = 32 THEN [kind |-> "pc", idx |-> 0, bytes |-> 4]
  ELSE IF id <= 64 THEN [kind |-> "F", idx |-> id - 33, bytes |-> 4]
  ELSE IF id <= 4160 THEN [kind |-> "csr", idx |-> id - 65, bytes |-> 4]
  ELSE IF id = 4161 THEN [kind |-> "priv", idx |-> 0, bytes |-> 1]
  ELSE IF id <= 4193 THEN [kind |-> "V", idx |-> id - 4162, bytes |-> VLEN \div 8]
  ELSE [kind |-> "none", idx |-> 0, bytes |-> 0]

Announce(kind, idx, regnum, bitsize) ==
  [kind |-> kind, idx |-> idx, regnum |-> regnum, bitsize |-> bitsize]

\* print_target_xml of xlen 32, flen 32 and vlen 256, which run_subcommand
\* announces whatever the model is
TargetXml ==
  {Announce("X", i, i, 32) : i \in 0 .. 31} \cup {Announce("pc", 0, 32, 32)}
  \cup {Announce("F", i, 33 + i, 32) : i \in 0 .. 31}
  \cup {Announce("csr", c, 65 + c, 32) :
          c \in {1, 2, 3} \cup {8, 9, 10, 15} \cup {3104, 3105, 3106}}
  \cup {Announce("V", i, 4162 + i, VLEN) : i \in 0 .. 31}

-----------------------------------------------------------------------------
(* The session *)

ResetForDebug == driver = "debug" /\ Reset("connect") /\ UNCHANGED <<tail, durable, session>>

\* bind and accept
Connect ==
  /\ at = "connect"
  /\ \/ at' = "stub" /\ UNCHANGED <<outcome, durable>>
     \/ Finish("error")
  /\ UNCHANGED <<driver, tracer, model, exit, tail, shadow, silent, session>>

Command == at = "stub" /\ UNCHANGED <<driver, tracer, model, exit, tail, shadow, silent>>

AddBreakpoint(addr) ==
  /\ Command
  /\ breakpoints' = breakpoints \cup {addr} /\ stop' = Running /\ answer' = NoAnswer
  /\ UNCHANGED <<at, outcome, durable, ran>>

RemoveBreakpoint(addr) ==
  /\ Command
  /\ breakpoints' = breakpoints \ {addr} /\ stop' = Running /\ answer' = NoAnswer
  /\ UNCHANGED <<at, outcome, durable, ran>>

\* The privilege level, which is not announced, is not implemented.
ReadRegister(id) ==
  /\ Command
  /\ IF FromRawId(id).kind = "priv" THEN Finish("panic") /\ UNCHANGED session
     ELSE /\ answer' = [id |-> id, kind |-> FromRawId(id).kind,
                        idx |-> FromRawId(id).idx, bytes |-> FromRawId(id).bytes]
          /\ UNCHANGED <<at, outcome, durable, breakpoints, stop, ran>>

Resume ==
  /\ Command
  /\ at' = "poll" /\ stop' = Running /\ ran' = {} /\ answer' = NoAnswer
  /\ UNCHANGED <<outcome, durable, breakpoints>>

Polled(to, reason) ==
  /\ at' = to /\ stop' = reason
  /\ UNCHANGED <<driver, tracer, outcome, model, exit, log, silent, breakpoints, ran, answer>>

\* One round of the loop of poll: the end is looked for before the
\* breakpoints, and both before a step.
\* Mutant: a breakpoint does not count where the client resumed.
PollStepsFirst ==
  /\ at = "poll"
  /\ IF exit # None THEN Polled("exited", [kind |-> "Exited", code |-> exit % CodeRange])
     ELSE IF pc \in breakpoints /\ ran # {}
     THEN Polled("stub", [kind |-> "SwBreak", code |-> 0])
     ELSE /\ BeginStep
          /\ ran' = ran \cup {pc}
          /\ UNCHANGED <<breakpoints, stop, answer>>

Poll ==
  /\ at = "poll"
  /\ IF exit # None THEN Polled("exited", [kind |-> "Exited", code |-> exit % CodeRange])
     ELSE IF pc \in breakpoints THEN Polled("stub", [kind |-> "SwBreak", code |-> 0])
     ELSE /\ BeginStep
          /\ ran' = ran \cup {pc}
          /\ UNCHANGED <<breakpoints, stop, answer>>

\* gdb_step_one: a program that traps ends the session with a panic.
StepOne ==
  /\ at = "returned" /\ driver = "debug"
  /\ IF status \in Traps THEN Finish("panic")
     ELSE at' = "poll" /\ UNCHANGED <<outcome, durable>>
  /\ UNCHANGED <<driver, tracer, model, exit, tail, shadow, silent, session>>

\* The session is over: run_gdb has no code for one that ends well, while a
\* broken connection is a normal end.
EndSession ==
  /\ \E how \in {"panic", "success"} : Finish(how)
  /\ UNCHANGED <<driver, tracer, model, exit, tail, shadow, silent, session>>

\* The program has exited.
ProgramExited == at = "exited" /\ EndSession

\* The client detaches, kills the program or is gone.
Leave == at = "stub" /\ EndSession

Client ==
  \/ Connect
  \/ \E addr \in Pcs : AddBreakpoint(addr)
  \/ \E addr \in Pcs : RemoveBreakpoint(addr)
  \/ \E id \in ClientIds : ReadRegister(id)
  \/ Resume \/ Leave

Simulate == (Setup \/ RunLoop \/ Fetch \/ Execute) /\ UNCHANGED session

\* Everything but what the client does
Process == ResetForDebug \/ Poll \/ StepOne \/ ProgramExited \/ Simulate

SessionNext == Client \/ Process

\* The process runs; the client need not do anything.
SessionSpec == SessionInit /\ [][SessionNext]_allVars /\ WF_allVars(Process)

-----------------------------------------------------------------------------
(* Properties *)

\* The client is told that the program has stopped at a breakpoint only when
\* it has, before the instruction there and before its end; no breakpoint has
\* been run over; an exit is reported with the program's code, as a byte.
StopReasonTrue ==
  /\ stop.kind = "SwBreak" => pc \in breakpoints /\ exit = None
  /\ driver = "debug" /\ at \in {"poll", "fetch", "execute", "returned"}
       => ran \cap breakpoints = {}
  /\ stop.kind = "Exited" => exit # None /\ stop.code = exit % CodeRange

\* A register that was announced to the client is the one it is given, with
\* the size that was announced.
AnswerTrue ==
  answer # NoAnswer =>
    \A r \in TargetXml : r.regnum = answer.id =>
      /\ r.kind = answer.kind /\ r.idx = answer.idx
      /\ r.bitsize = 8 * answer.bytes

\* A program that stores into the exit register ends the process, or in a
\* debugging session comes to where the client is waited for.
ExitEnds == exit # None ~> at = "over" \/ at \in {"connect", "stub"}
=============================================================================
