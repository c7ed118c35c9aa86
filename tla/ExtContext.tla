----------------------------- MODULE ExtContext -----------------------------
(***************************************************************************)
(* mstatus.FS and mstatus.VS: whether an extension is enabled, and whether *)
(* its state has changed since software saved it.  Software that switches  *)
(* contexts saves a dirty extension only, and the differential test sees   *)
(* only what a step logs, so every instruction has to say what it changes. *)
(*                                                                         *)
(* The values of the registers are data.  unsaved is a history variable:   *)
(* the parts that have changed since software wrote a status other than    *)
(* Dirty for them, which is how it says that it holds a copy.              *)
(***************************************************************************)
EXTENDS Integers, ExtInsts

CONSTANT LastElem    \* VLEN - 1, the largest vstart
ASSUME LastElemAssumption == LastElem \in Nat \ {0}

Status == {"Off", "Initial", "Clean", "Dirty"}

\* "loaded" is v as a load leaves it that has faulted, "stray" is v as an
\* instruction leaves it that is then found to be illegal.
FParts == {"f", "fcsr"}
VParts == {"v", "loaded", "stray", "vtype", "vcsr", "vstart"}
Parts == FParts \cup VParts

VARIABLES
  FS, VS,     \* MSTATUS_FS, MSTATUS_VS
  vtype,      \* of VTYPE: never set, ill or legal
  vstart,     \* VSTART
  frmValid,   \* does FRM hold a rounding mode?
  unsaved,
  step        \* what the last step was, of which template, wrote and logged

vars == <<FS, VS, vtype, vstart, frmValid, unsaved, step>>

\* A step that is not the work of a template
NoInst == Template({}, {}, {}, {})

TypeOK ==
  /\ FS \in Status /\ VS \in Status
  /\ vtype \in {"unset", "ill", "legal"}
  /\ vstart \in 0 .. LastElem
  /\ frmValid \in BOOLEAN
  /\ unsaved \subseteq Parts
  /\ step \in [kind : {"reset", "retired", "fault", "illegal", "refused", "mstatus"},
               inst : Templates \cup {NoInst},
               wrote : SUBSET (Parts \cup {"mstatus"}),
               logged : SUBSET (Parts \cup {"mstatus"})]

Init ==
  /\ FS = "Off" /\ VS = "Off"
  /\ vtype = "unset"
  /\ vstart = 0
  /\ frmValid = TRUE
  /\ unsaved = {}
  /\ step = [kind |-> "reset", inst |-> NoInst, wrote |-> {}, logged |-> {}]

-----------------------------------------------------------------------------
(* Calls *)

\* The state that a call changes; flags: does the result raise a flag?
Writes(call, flags) ==
  CASE call = "F" -> {"f"}
    [] call = "VRF" -> {"v"}
    [] call = "VTYPE" -> {"vtype"}
    [] call \in {"VXSAT", "VXRM"} -> {"vcsr"}
    [] call \in {"FFLAGS", "FRM"} -> {"fcsr"}
    [] call = "accureFFlags" -> IF flags THEN {"fcsr"} ELSE {}
    [] call \in {"VSTART", "vectorInterrupt"} -> {"vstart"}
    [] call = "clear_VSTART" -> IF vstart # 0 THEN {"vstart"} ELSE {}
    [] OTHER -> {}

\* What it reports through the hooks of the C interface
Logs(call, flags) ==
  CASE call = "F" -> {"f", "mstatus"}
    [] call \in {"logWrite_VREG_elmul", "logWrite_VREG_1"} -> {"v"}
    [] call = "logWrite_VTYPE_VL" -> {"vtype"}
    [] call = "logWrite_VCSR" -> {"vcsr"}
    [] call = "logWrite_FCSR" -> {"fcsr"}
    [] call = "accureFFlags" -> IF flags THEN {"fcsr"} ELSE {}
    [] call \in {"logWrite_VSTART", "vectorInterrupt"} -> {"vstart"}
    [] call = "clear_VSTART" -> IF vstart # 0 THEN {"vstart"} ELSE {}
    [] call \in {"makeDirty_FS", "makeDirty_VS", "makeDirty_FS_VS"} -> {"mstatus"}
    [] OTHER -> {}

\* The calls that set FS, and VS, to Dirty
DirtiesFS == {"F", "makeDirty_FS", "makeDirty_FS_VS"}
DirtiesVS == {"makeDirty_VS", "makeDirty_FS_VS"}

\* Mutant of NextVstart: the element after the one that faulted.
NextVstartAfter(calls) ==
  CASE calls \cap {"VSTART", "vectorInterrupt"} # {} -> 1 .. LastElem + 1
    [] "clear_VSTART" \in calls -> {0}
    [] OTHER -> {vstart}

NextVstart(calls) ==
  CASE calls \cap {"VSTART", "vectorInterrupt"} # {} -> 0 .. LastElem
    [] "clear_VSTART" \in calls -> {0}
    [] OTHER -> {vstart}

\* How v is counted as unsaved after a step that wrote it
Leaves(kind) ==
  CASE kind = "fault" -> "loaded"
    [] kind = "illegal" -> "stray"
    [] OTHER -> "v"

Perform(t, kind, calls) == \E flags \in BOOLEAN :
  LET wrote == UNION {Writes(c, flags) : c \in calls} IN
  /\ FS' = IF calls \cap DirtiesFS # {} THEN "Dirty" ELSE FS
  /\ VS' = IF calls \cap DirtiesVS # {} THEN "Dirty" ELSE VS
  /\ vtype' \in IF "VTYPE" \in calls THEN {"ill", "legal"} ELSE {vtype}
  /\ vstart' \in NextVstart(calls)
  /\ frmValid' \in IF "FRM" \in calls THEN BOOLEAN ELSE {frmValid}
  /\ unsaved' = unsaved \cup (wrote \ {"v"})
                         \cup (IF "v" \in wrote THEN {Leaves(kind)} ELSE {})
  /\ step' = [kind |-> kind, inst |-> t,
              wrote |-> wrote \cup (IF FS' # FS \/ VS' # VS THEN {"mstatus"} ELSE {}),
              logged |-> UNION {Logs(c, flags) : c \in calls}]

-----------------------------------------------------------------------------
(* Steps *)

Met(need) ==
  CASE need = "FS" -> FS # "Off"
    [] need = "VS" -> VS # "Off"
    [] need = "vtype" -> vtype = "legal"
    [] need = "vstart" -> vstart = 0
    [] need = "frm" -> frmValid

Ready(t) == \A need \in t.needs : Met(need)

Retire(t) == Ready(t) /\ \E calls \in t.ends : Perform(t, "retired", calls)

\* A vector access faults at an element, which goes to vstart.
Fault(t) == Ready(t) /\ \E calls \in t.faults : Perform(t, "fault", calls)

\* Something is changed, and then the instruction is found to be illegal.
IllegalAfter(t) == Ready(t) /\ \E calls \in t.illegals : Perform(t, "illegal", calls)

\* A need is not met, or operands or an address are refused: an exception.
\* (With a vtype that was never set the process stops, see VectorConfig.)
Refuse ==
  /\ step' = [kind |-> "refused", inst |-> NoInst, wrote |-> {}, logged |-> {}]
  /\ UNCHANGED <<FS, VS, vtype, vstart, frmValid, unsaved>>

\* Software writes both fields.  With a status other than Dirty it answers for
\* a copy of what has been reported to it.
Write_MSTATUS(fs, vs) ==
  /\ FS' = fs /\ VS' = vs
  /\ unsaved' = {p \in unsaved : IF p \in FParts THEN fs = "Dirty" ELSE vs = "Dirty"}
  /\ step' = [kind |-> "mstatus", inst |-> NoInst,
              wrote |-> {"mstatus"}, logged |-> {"mstatus"}]
  /\ UNCHANGED <<vtype, vstart, frmValid>>

Next ==
  \/ \E t \in Templates : Retire(t) \/ Fault(t) \/ IllegalAfter(t)
  \/ Refuse
  \/ \E fs, vs \in Status : Write_MSTATUS(fs, vs)

Spec == Init /\ [][Next]_vars

-----------------------------------------------------------------------------
(* Properties *)

\* Two templates leave a trap with vector elements that they have not logged:
\* the strided load without fields (vlse.asl.j2:53) and the widening conversion
\* of integers, whose loop ends in IllegalInstruction() (vfwcvt_f_x_v.asl.j2:73).
Unlogged == {vlse, vfwcvt_f_x_v}

\* "Record which registers may be written during step_trace. The record is
\* conservative" (pokedex_interface.h:168): whatever a step changes of the
\* extensions and of mstatus is logged by it, traps included, over all
\* templates and whatever was executed before; and where it is not, it is the
\* elements of v, in a step that trapped, of one of two templates.
RecordComplete ==
  \/ step.wrote \subseteq step.logged
  \/ /\ step.wrote \ step.logged = {"v"}
     /\ step.kind # "retired"
     /\ step.inst \in Unlogged

\* What a context switch that saves dirty extensions only would lose
Lost ==
  unsaved \cap ((IF FS = "Dirty" THEN {} ELSE FParts)
                \cup (IF VS = "Dirty" THEN {} ELSE VParts))

\* Registers, flags and vcsr that retired instructions have changed are never
\* lost, whatever the templates executed and the statuses software wrote
\* between them.  The code does not keep that of vtype (vsetvl and vsetvli do
\* not call makeDirty_VS, vsetivli does), of vstart (Write_VSTART makes FS
\* dirty, stores nothing), of the elements that a load transferred before its
\* fault, and of those that vfwcvt wrote before it is found to be illegal.
LazySwitchKeepsState == Lost \subseteq {"vtype", "vstart", "loaded", "stray"}

\* While an extension is off its state does not change, and it is software
\* that turns it on; instructions that use both extensions check both.  One
\* write is not so: Write_VSTART checks VS and turns FS on.
OffIsOff ==
  [][/\ FS = "Off" => step'.wrote \cap FParts = {}
     /\ VS = "Off" => step'.wrote \cap VParts = {}
     /\ VS = "Off" /\ VS' # "Off" => step'.kind = "mstatus"
     /\ FS = "Off" /\ FS' # "Off" =>
          step'.kind = "mstatus" \/ step'.wrote \cap VParts = {"vstart"}]_vars
=============================================================================
