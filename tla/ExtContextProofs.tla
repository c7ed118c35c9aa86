-------------------------- MODULE ExtContextProofs --------------------------
(* The properties of ExtContext.  What a template must do to keep them is a  *)
(* rule about its calls, which every template of the repository obeys.       *)
EXTENDS ExtContext, TLAPS

\* The calls that change a part of an extension, apart from vstart
FCalls == {"F", "accureFFlags", "FFLAGS", "FRM"}
VCalls == {"VRF", "VTYPE", "VXSAT", "VXRM"}

\* What the calls change is reported by one of them.
Reported(calls) ==
  /\ "VTYPE" \in calls => "logWrite_VTYPE_VL" \in calls
  /\ calls \cap {"VXSAT", "VXRM"} # {} => "logWrite_VCSR" \in calls
  /\ calls \cap {"FFLAGS", "FRM"} # {} => "logWrite_FCSR" \in calls
  /\ "VSTART" \in calls => "logWrite_VSTART" \in calls

\* What they change is made dirty, vtype excepted.
Dirtied(calls) ==
  /\ calls \cap FCalls # {} => calls \cap DirtiesFS # {}
  /\ calls \cap (VCalls \ {"VTYPE"}) # {} => calls \cap DirtiesVS # {}

\* What they change is enabled; only a write of vstart turns FS on.
Guarded(needs, calls) ==
  /\ calls \cap FCalls # {} => "FS" \in needs
  /\ calls \cap (VCalls \cup DirtiesVS \cup {"VSTART", "vectorInterrupt", "clear_VSTART"}) # {}
       => "VS" \in needs
  /\ calls \cap DirtiesFS # {} /\ "FS" \notin needs =>
       "VSTART" \in calls /\ calls \cap VCalls = {}

Obeys(t) ==
  /\ \A calls \in t.ends :
       /\ Reported(calls) /\ Dirtied(calls) /\ Guarded(t.needs, calls)
       /\ "VRF" \in calls => calls \cap {"logWrite_VREG_elmul", "logWrite_VREG_1"} # {}
  /\ \A calls \in t.faults :
       /\ Guarded(t.needs, calls)
       /\ calls \subseteq {"VRF", "logWrite_VREG_elmul", "logWrite_VREG_1", "vectorInterrupt"}
       /\ "VRF" \in calls =>
            t \in Unlogged \/ calls \cap {"logWrite_VREG_elmul", "logWrite_VREG_1"} # {}
  /\ \A calls \in t.illegals :
       Guarded(t.needs, calls) /\ calls = {"VRF"} /\ t \in Unlogged

-----------------------------------------------------------------------------
(* Every template obeys the rules *)

LEMMA FpTemplatesObey == \A t \in FpTemplates : Obeys(t)
BY DEF FpTemplates, fadd_s, fclass_s, fcvt_s_w, fcvt_w_s, feq_s, flw, fmadd_s,
       fmin_s, fmv_w_x, fmv_x_w, fsgnj_s, fsqrt_s, fsw, Fp, OnlyVS, Mem, Vec,
       VecFp, FpResult, FpMove, FpFlags, Group, Single, Saturating, FpGroup,
       FpSingle, Template, Inst, Reduction, Access, Faulted, Obeys, Reported, Dirtied,
       Guarded, FCalls, VCalls, DirtiesFS, DirtiesVS

LEMMA CompressedFpTemplatesObey == \A t \in CompressedFpTemplates : Obeys(t)
BY DEF CompressedFpTemplates, c_flw, c_flwsp, c_fsw, c_fswsp, Fp, OnlyVS, Mem,
       Vec, VecFp, FpResult, FpMove, FpFlags, Group, Single, Saturating,
       FpGroup, FpSingle, Template, Inst, Reduction, Access, Faulted, Obeys, Reported,
       Dirtied, Guarded, FCalls, VCalls, DirtiesFS, DirtiesVS

LEMMA VecTemplatesObey == \A t \in VecTemplates : Obeys(t)
BY SMTT(30) DEF VecTemplates, vadc_vim, vadc_vvm, vadc_vxm, vadd_vi, vadd_vv, vadd_vx,
       vcompress_vm, vcpop_m, vfirst_m, vid_v, viota_m, vmacc_vv, vmacc_vx,
       vmadc_vim, vmadc_vvm, vmadc_vxm, vmand_mm, vmerge_vim, vmerge_vvm,
       vmerge_vxm, vmsbf_m, vmseq_vi, vmseq_vv, vmseq_vx, vmv1r_v, vmv_s_x,
       vmv_v_i, vmv_v_v, vmv_v_x, vmv_x_s, vnclip_wi, vnclip_wv, vnclip_wx,
       vnsrl_wi, vnsrl_wv, vnsrl_wx, vredsum_vs, vrgather_vi, vrgather_vv,
       vrgather_vx, vrgatherei16_vv, vsadd_vi, vsadd_vv, vsadd_vx, vsetivli,
       vsetvl, vsetvli, vsext_vf2, vsext_vf4, vslide1down_vx, vslide1up_vx,
       vslidedown_vi, vslidedown_vx, vslideup_vi, vslideup_vx, vsmul_vv,
       vsmul_vx, vssrl_vi, vssrl_vv, vssrl_vx, vwadd_vv, vwadd_vx, vwadd_wv,
       vwadd_wx, vwmacc_vv, vwmacc_vx, vwredsum_vs, Fp, OnlyVS, Mem, Vec,
       VecFp, FpResult, FpMove, FpFlags, Group, Single, Saturating, FpGroup,
       FpSingle, Template, Inst, Reduction, Access, Faulted, Obeys, Reported, Dirtied,
       Guarded, FCalls, VCalls, DirtiesFS, DirtiesVS

LEMMA VecFpTemplatesObey == \A t \in VecFpTemplates : Obeys(t)
BY DEF VecFpTemplates, vfadd_vf, vfadd_vv, vfclass_v, vfcvt_f_x_v,
       vfcvt_x_f_v, vfmacc_vf, vfmacc_vv, vfmerge_vfm, vfmin_vf, vfmin_vv,
       vfmv_f_s, vfmv_s_f, vfmv_v_f, vfncvt_x_f_w, vfredosum_vs, vfredusum_vs,
       vfsgnj_vf, vfsgnj_vv, vfslide1down_vf, vfslide1up_vf, vfsqrt_v,
       vfwcvt_f_x_v, vmfeq_vv, vmfeq_vx, Fp, OnlyVS, Mem, Vec, VecFp,
       FpResult, FpMove, FpFlags, Group, Single, Saturating, FpGroup,
       FpSingle, Template, Inst, Reduction, Access, Faulted, Obeys, Reported, Dirtied,
       Guarded, FCalls, VCalls, DirtiesFS, DirtiesVS, Unlogged

LEMMA AccessTemplatesObey == \A t \in AccessTemplates : Obeys(t)
BY DEF AccessTemplates, vle, vlm_v, vloxei, vlr, vlse, vse, vsm_v, vsoxei,
       vsr, vsse, Fp, OnlyVS, Mem, Vec, VecFp, FpResult, FpMove, FpFlags,
       Group, Single, Saturating, FpGroup, FpSingle, Template, Inst, Reduction,
       Access, Faulted, Obeys, Reported, Dirtied, Guarded, FCalls, VCalls,
       DirtiesFS, DirtiesVS, Unlogged

LEMMA CsrWritesObey == \A t \in CsrWrites : Obeys(t)
BY DEF CsrWrites, Write_FFLAGS, Write_FRM, Write_FCSR, Write_VXSAT,
       Write_VXRM, Write_VCSR, Write_VSTART, Fp, OnlyVS, Mem, Vec, VecFp,
       FpResult, FpMove, FpFlags, Group, Single, Saturating, FpGroup,
       FpSingle, Template, Inst, Reduction, Access, Faulted, Obeys, Reported, Dirtied,
       Guarded, FCalls, VCalls, DirtiesFS, DirtiesVS

LEMMA TemplatesObey == \A t \in Templates : Obeys(t)
BY FpTemplatesObey, CompressedFpTemplatesObey, VecTemplatesObey, VecFpTemplatesObey,
   AccessTemplatesObey, CsrWritesObey DEF Templates

-----------------------------------------------------------------------------
(* What a call changes, call by call *)

LEMMA WritesOf ==
  ASSUME NEW c, NEW flags \in BOOLEAN
  PROVE  /\ Writes(c, flags) \subseteq Parts \ {"loaded", "stray"}
         /\ "f" \in Writes(c, flags) => c = "F"
         /\ "v" \in Writes(c, flags) => c = "VRF"
         /\ "vtype" \in Writes(c, flags) => c = "VTYPE"
         /\ "vcsr" \in Writes(c, flags) => c \in {"VXSAT", "VXRM"}
         /\ "fcsr" \in Writes(c, flags) =>
              c \in {"FFLAGS", "FRM"} \/ (c = "accureFFlags" /\ flags)
         /\ "vstart" \in Writes(c, flags) =>
              c \in {"VSTART", "vectorInterrupt"} \/ (c = "clear_VSTART" /\ vstart # 0)
BY DEF Writes, Parts, FParts, VParts

LEMMA LogsOf ==
  ASSUME NEW flags \in BOOLEAN
  PROVE  /\ {"f", "mstatus"} \subseteq Logs("F", flags)
         /\ "v" \in Logs("logWrite_VREG_elmul", flags)
         /\ "v" \in Logs("logWrite_VREG_1", flags)
         /\ "vtype" \in Logs("logWrite_VTYPE_VL", flags)
         /\ "vcsr" \in Logs("logWrite_VCSR", flags)
         /\ "fcsr" \in Logs("logWrite_FCSR", flags)
         /\ flags => "fcsr" \in Logs("accureFFlags", flags)
         /\ "vstart" \in Logs("logWrite_VSTART", flags)
         /\ "vstart" \in Logs("vectorInterrupt", flags)
         /\ vstart # 0 => "vstart" \in Logs("clear_VSTART", flags)
         /\ \A c \in DirtiesFS \cup DirtiesVS : "mstatus" \in Logs(c, flags)
BY DEF Logs, DirtiesFS, DirtiesVS

\* What a set of calls writes and logs together
Written(calls, flags) == UNION {Writes(c, flags) : c \in calls}
Logged(calls, flags) == UNION {Logs(c, flags) : c \in calls}

LEMMA WrittenIsLogged ==
  ASSUME NEW t, Obeys(t), NEW calls \in t.ends, NEW flags \in BOOLEAN
  PROVE  Written(calls, flags) \subseteq Logged(calls, flags)
<1> SUFFICES ASSUME NEW c \in calls, NEW p \in Writes(c, flags)
             PROVE  \E d \in calls : p \in Logs(d, flags)
  BY DEF Written, Logged
<1>1. /\ Reported(calls)
      /\ "VRF" \in calls => calls \cap {"logWrite_VREG_elmul", "logWrite_VREG_1"} # {}
  BY DEF Obeys
<1>2. p \in {"f", "fcsr", "v", "vtype", "vcsr", "vstart"}
  BY WritesOf DEF Parts, FParts, VParts
<1>3. CASE p = "f"
  BY <1>3, WritesOf, LogsOf
<1>4. CASE p = "fcsr"
  BY <1>1, <1>4, WritesOf, LogsOf DEF Reported
<1>5. CASE p = "v"
  BY <1>1, <1>5, WritesOf, LogsOf DEF Reported
<1>6. CASE p = "vtype"
  BY <1>1, <1>6, WritesOf, LogsOf DEF Reported
<1>7. CASE p = "vcsr"
  BY <1>1, <1>7, WritesOf, LogsOf DEF Reported
<1>8. CASE p = "vstart"
  BY <1>1, <1>8, WritesOf, LogsOf DEF Reported
<1> QED  BY <1>2, <1>3, <1>4, <1>5, <1>6, <1>7, <1>8

\* A trap leaves vstart, which it logs, and elements of the destination, which
\* only two templates do not log.
LEMMA TrapWritten ==
  ASSUME NEW t, Obeys(t), NEW calls \in t.faults \cup t.illegals, NEW flags \in BOOLEAN
  PROVE  /\ Written(calls, flags) \subseteq {"v", "vstart"}
         /\ Written(calls, flags) \subseteq Logged(calls, flags) \cup {"v"}
         /\ "v" \in Written(calls, flags) \ Logged(calls, flags) => t \in Unlogged
<1>1. /\ calls \subseteq {"VRF", "logWrite_VREG_elmul", "logWrite_VREG_1", "vectorInterrupt"}
      /\ "VRF" \in calls =>
           t \in Unlogged \/ calls \cap {"logWrite_VREG_elmul", "logWrite_VREG_1"} # {}
  BY DEF Obeys
<1>2. ASSUME NEW c \in calls, NEW p \in Writes(c, flags)
      PROVE  /\ p \in {"v", "vstart"}
             /\ p = "vstart" => \E d \in calls : p \in Logs(d, flags)
             /\ p = "v" => t \in Unlogged \/ \E d \in calls : p \in Logs(d, flags)
  <2>1. p \in {"f", "fcsr", "v", "vtype", "vcsr", "vstart"}
    BY WritesOf DEF Parts, FParts, VParts
  <2>2. p \in {"v", "vstart"}
    BY <1>1, <2>1, WritesOf
  <2>3. ASSUME p = "vstart" PROVE c = "vectorInterrupt"
    BY <1>1, <2>3, WritesOf
  <2>4. ASSUME p = "v" PROVE c = "VRF"
    BY <2>4, WritesOf
  <2> QED  BY <1>1, <2>2, <2>3, <2>4, LogsOf
<1> QED  BY <1>2 DEF Written, Logged

\* The status of an extension changes by a call that reports it.
LEMMA StatusIsLogged ==
  ASSUME NEW calls, NEW flags \in BOOLEAN,
         calls \cap (DirtiesFS \cup DirtiesVS) # {}
  PROVE  "mstatus" \in Logged(calls, flags)
BY LogsOf DEF Logged

-----------------------------------------------------------------------------
(* The record is complete *)

\* What a step changes, of the extensions or of mstatus, is in its record, for
\* all sequences of the templates and every VLEN (pokedex_interface.h:168); the
\* one thing that a record may lack is the elements that vlse or vfwcvt.f.x(u).v
\* wrote in a step that trapped.
THEOREM RecordIsComplete == Spec => []RecordComplete
<1>1. Init => RecordComplete
  BY DEF Init, RecordComplete
<1>2. RecordComplete /\ [Next]_vars => RecordComplete'
  <2> SUFFICES ASSUME RecordComplete, [Next]_vars PROVE RecordComplete'
    OBVIOUS
  <2>1. ASSUME NEW t \in Templates, Retire(t) PROVE RecordComplete'
    <3>1. PICK calls \in t.ends, flags \in BOOLEAN :
            /\ FS' = IF calls \cap DirtiesFS # {} THEN "Dirty" ELSE FS
            /\ VS' = IF calls \cap DirtiesVS # {} THEN "Dirty" ELSE VS
            /\ step' = [kind |-> "retired", inst |-> t,
                        wrote |-> Written(calls, flags)
                                  \cup (IF FS' # FS \/ VS' # VS THEN {"mstatus"} ELSE {}),
                        logged |-> Logged(calls, flags)]
      BY <2>1 DEF Retire, Perform, Written, Logged
    <3>2. FS' # FS \/ VS' # VS => "mstatus" \in Logged(calls, flags)
      BY <3>1, StatusIsLogged
    <3>3. Written(calls, flags) \subseteq Logged(calls, flags)
      BY TemplatesObey, WrittenIsLogged
    <3> QED  BY <3>1, <3>2, <3>3 DEF RecordComplete
  <2>2. ASSUME NEW t \in Templates, Fault(t) \/ IllegalAfter(t) PROVE RecordComplete'
    <3>1. PICK kind \in {"fault", "illegal"}, calls \in t.faults \cup t.illegals :
            Perform(t, kind, calls)
      BY <2>2 DEF Fault, IllegalAfter
    <3>2. PICK flags \in BOOLEAN :
            /\ FS' = IF calls \cap DirtiesFS # {} THEN "Dirty" ELSE FS
            /\ VS' = IF calls \cap DirtiesVS # {} THEN "Dirty" ELSE VS
            /\ step' = [kind |-> kind, inst |-> t,
                        wrote |-> Written(calls, flags)
                                  \cup (IF FS' # FS \/ VS' # VS THEN {"mstatus"} ELSE {}),
                        logged |-> Logged(calls, flags)]
      BY <3>1 DEF Perform, Written, Logged
    <3>3. FS' # FS \/ VS' # VS => "mstatus" \in Logged(calls, flags)
      BY <3>2, StatusIsLogged
    <3>4. /\ Written(calls, flags) \subseteq Logged(calls, flags) \cup {"v"}
          /\ "v" \in Written(calls, flags) \ Logged(calls, flags) => t \in Unlogged
      BY TemplatesObey, TrapWritten
    <3>5. /\ step'.kind # "retired" /\ step'.inst = t
          /\ step'.logged = Logged(calls, flags)
          /\ step'.wrote \subseteq Written(calls, flags) \cup {"mstatus"}
          /\ "mstatus" \in step'.wrote \ Written(calls, flags) =>
               "mstatus" \in Logged(calls, flags)
      BY <3>2, <3>3
    <3>6. step'.wrote \subseteq step'.logged \cup {"v"}
      BY <3>4, <3>5
    <3>7. "v" \in step'.wrote \ step'.logged => t \in Unlogged
      BY <3>4, <3>5
    <3> QED  BY <3>5, <3>6, <3>7 DEF RecordComplete
  <2>3. CASE Refuse
    BY <2>3 DEF Refuse, RecordComplete
  <2>4. ASSUME NEW fs \in Status, NEW vs \in Status, Write_MSTATUS(fs, vs)
        PROVE  RecordComplete'
    BY <2>4 DEF Write_MSTATUS, RecordComplete
  <2>5. CASE UNCHANGED vars
    BY <2>5 DEF vars, RecordComplete
  <2> QED  BY <2>1, <2>2, <2>3, <2>4, <2>5 DEF Next
<1> QED  BY <1>1, <1>2, PTL DEF Spec

-----------------------------------------------------------------------------
(* A lazy context switch loses nothing *)

\* The two halves of LazySwitchKeepsState
KeepsF == unsaved \cap FParts # {} => FS = "Dirty"
KeepsV == unsaved \cap {"v", "vcsr"} # {} => VS = "Dirty"

LEMMA Halves == LazySwitchKeepsState <=> KeepsF /\ KeepsV
BY DEF LazySwitchKeepsState, Lost, KeepsF, KeepsV, FParts, VParts

LEMMA HalvesNext == LazySwitchKeepsState' <=> KeepsF' /\ KeepsV'
BY DEF LazySwitchKeepsState, Lost, KeepsF, KeepsV, FParts, VParts

LEMMA WrittenIsDirty ==
  ASSUME NEW t, Obeys(t), NEW calls \in t.ends, NEW flags \in BOOLEAN
  PROVE  /\ Written(calls, flags) \cap FParts # {} => calls \cap DirtiesFS # {}
         /\ Written(calls, flags) \cap {"v", "vcsr"} # {} => calls \cap DirtiesVS # {}
<1>1. Dirtied(calls)
  BY DEF Obeys
<1>2. ASSUME Written(calls, flags) \cap FParts # {} PROVE calls \cap FCalls # {}
  <2>1. PICK c \in calls : \E p \in FParts : p \in Writes(c, flags)
    BY <1>2 DEF Written
  <2> QED  BY <2>1, WritesOf DEF FParts, FCalls
<1>3. ASSUME Written(calls, flags) \cap {"v", "vcsr"} # {}
      PROVE  calls \cap (VCalls \ {"VTYPE"}) # {}
  <2>1. PICK c \in calls : \E p \in {"v", "vcsr"} : p \in Writes(c, flags)
    BY <1>3 DEF Written
  <2>2. c \in {"VRF", "VXSAT", "VXRM"}
    BY <2>1, WritesOf
  <2> QED  BY <2>2 DEF VCalls
<1> QED  BY <1>1, <1>2, <1>3 DEF Dirtied

\* Registers, flags and vcsr that retired instructions changed are under a
\* status that says so, until software writes another one; what a fault, or
\* vfwcvt.f.x(u).v, left in v is not.
THEOREM LazySwitchIsSafe == Spec => []LazySwitchKeepsState
<1>1. Init => LazySwitchKeepsState
  BY DEF Init, LazySwitchKeepsState, Lost
<1>2. LazySwitchKeepsState /\ [Next]_vars => LazySwitchKeepsState'
  <2> SUFFICES ASSUME KeepsF, KeepsV, [Next]_vars PROVE KeepsF' /\ KeepsV'
    BY Halves, HalvesNext
  <2>1. ASSUME NEW t \in Templates, Retire(t) PROVE KeepsF' /\ KeepsV'
    <3>1. PICK calls \in t.ends, flags \in BOOLEAN :
            /\ FS' = IF calls \cap DirtiesFS # {} THEN "Dirty" ELSE FS
            /\ VS' = IF calls \cap DirtiesVS # {} THEN "Dirty" ELSE VS
            /\ unsaved' = unsaved \cup (Written(calls, flags) \ {"v"})
                                  \cup (IF "v" \in Written(calls, flags) THEN {"v"} ELSE {})
      BY <2>1 DEF Retire, Perform, Written, Leaves
    <3>2. /\ Written(calls, flags) \cap FParts # {} => calls \cap DirtiesFS # {}
          /\ Written(calls, flags) \cap {"v", "vcsr"} # {} => calls \cap DirtiesVS # {}
      BY TemplatesObey, WrittenIsDirty
    <3>3. KeepsF'
      BY <3>1, <3>2 DEF KeepsF
    <3>4. KeepsV'
      BY <3>1, <3>2 DEF KeepsV
    <3> QED  BY <3>3, <3>4
  <2>2. ASSUME NEW t \in Templates, Fault(t) \/ IllegalAfter(t) PROVE KeepsF' /\ KeepsV'
    <3>1. PICK calls \in t.faults \cup t.illegals, flags \in BOOLEAN,
               left \in {"loaded", "stray"} :
            /\ FS' = IF calls \cap DirtiesFS # {} THEN "Dirty" ELSE FS
            /\ VS' = IF calls \cap DirtiesVS # {} THEN "Dirty" ELSE VS
            /\ unsaved' = unsaved \cup (Written(calls, flags) \ {"v"})
                                  \cup (IF "v" \in Written(calls, flags) THEN {left} ELSE {})
      <4>1. CASE Fault(t)
        BY <4>1 DEF Fault, Perform, Written, Leaves
      <4>2. CASE IllegalAfter(t)
        BY <4>2 DEF IllegalAfter, Perform, Written, Leaves
      <4> QED  BY <2>2, <4>1, <4>2
    <3>2. Written(calls, flags) \subseteq {"v", "vstart"}
      BY TemplatesObey, TrapWritten
    <3>3. unsaved' \subseteq unsaved \cup {"loaded", "stray", "vstart"}
      BY <3>1, <3>2
    <3>4. KeepsF'
      BY <3>1, <3>3 DEF KeepsF, FParts
    <3>5. KeepsV'
      BY <3>1, <3>3 DEF KeepsV
    <3> QED  BY <3>4, <3>5
  <2>3. CASE Refuse
    BY <2>3 DEF Refuse, KeepsF, KeepsV
  <2>4. ASSUME NEW fs \in Status, NEW vs \in Status, Write_MSTATUS(fs, vs)
        PROVE  KeepsF' /\ KeepsV'
    BY <2>4 DEF Write_MSTATUS, KeepsF, KeepsV, FParts
  <2>5. CASE UNCHANGED vars
    BY <2>5 DEF vars, KeepsF, KeepsV
  <2> QED  BY <2>1, <2>2, <2>3, <2>4, <2>5 DEF Next
<1> QED  BY <1>1, <1>2, PTL DEF Spec

-----------------------------------------------------------------------------
(* What is off does not change *)

\* The calls that change a part of the vector extension, and its status
VSCalls == VCalls \cup DirtiesVS \cup {"VSTART", "vectorInterrupt", "clear_VSTART"}

LEMMA WrittenBy ==
  ASSUME NEW calls, NEW flags \in BOOLEAN
  PROVE  /\ calls \cap FCalls = {} => Written(calls, flags) \cap FParts = {}
         /\ calls \cap VSCalls = {} => Written(calls, flags) \cap VParts = {}
         /\ calls \cap VCalls = {} => Written(calls, flags) \cap VParts \subseteq {"vstart"}
         /\ "VSTART" \in calls => "vstart" \in Written(calls, flags)
<1>1. ASSUME NEW c \in calls, NEW p \in Writes(c, flags) \cap FParts
      PROVE  c \in FCalls
  BY WritesOf DEF FParts, FCalls
<1>2. ASSUME NEW c \in calls, NEW p \in Writes(c, flags) \cap VParts, p # "vstart"
      PROVE  c \in VCalls
  BY <1>2, WritesOf DEF VParts, VCalls
<1>3. ASSUME NEW c \in calls, "vstart" \in Writes(c, flags)
      PROVE  c \in VSCalls
  BY <1>3, WritesOf DEF VSCalls
<1>4. "vstart" \in Writes("VSTART", flags)
  BY DEF Writes
<1>5. VCalls \subseteq VSCalls
  BY DEF VSCalls
<1>6. calls \cap FCalls = {} => Written(calls, flags) \cap FParts = {}
  BY <1>1 DEF Written
<1>7. calls \cap VSCalls = {} => Written(calls, flags) \cap VParts = {}
  BY <1>2, <1>3, <1>5 DEF Written
<1>8. calls \cap VCalls = {} => Written(calls, flags) \cap VParts \subseteq {"vstart"}
  BY <1>2 DEF Written
<1>9. "VSTART" \in calls => "vstart" \in Written(calls, flags)
  BY <1>4 DEF Written
<1> QED  BY <1>6, <1>7, <1>8, <1>9

\* The action of OffIsOff
OffStep ==
  /\ FS = "Off" => step'.wrote \cap FParts = {}
  /\ VS = "Off" => step'.wrote \cap VParts = {}
  /\ VS = "Off" /\ VS' # "Off" => step'.kind = "mstatus"
  /\ FS = "Off" /\ FS' # "Off" =>
       step'.kind = "mstatus" \/ step'.wrote \cap VParts = {"vstart"}

LEMMA PerformIsOff ==
  ASSUME NEW t, Ready(t), NEW kind, NEW calls, Guarded(t.needs, calls), Perform(t, kind, calls)
  PROVE  OffStep
<1>1. PICK flags \in BOOLEAN :
        /\ FS' = IF calls \cap DirtiesFS # {} THEN "Dirty" ELSE FS
        /\ VS' = IF calls \cap DirtiesVS # {} THEN "Dirty" ELSE VS
        /\ step'.wrote = Written(calls, flags)
                         \cup (IF FS' # FS \/ VS' # VS THEN {"mstatus"} ELSE {})
  BY DEF Perform, Written
<1>2. /\ step'.wrote \cap FParts = Written(calls, flags) \cap FParts
      /\ step'.wrote \cap VParts = Written(calls, flags) \cap VParts
  BY <1>1 DEF FParts, VParts
<1>3. FS = "Off" => "FS" \notin t.needs
  BY DEF Ready, Met
<1>4. VS = "Off" => "VS" \notin t.needs
  BY DEF Ready, Met
<1>5. FS = "Off" => calls \cap FCalls = {}
  BY <1>3 DEF Guarded
<1>6. VS = "Off" => calls \cap VSCalls = {}
  BY <1>4 DEF Guarded, VSCalls
<1>7. FS = "Off" /\ FS' # "Off" => "VSTART" \in calls /\ calls \cap VCalls = {}
  BY <1>1, <1>3 DEF Guarded
<1>8. VS = "Off" => VS' = "Off"
  BY <1>1, <1>6 DEF VSCalls
<1>9. FS = "Off" => step'.wrote \cap FParts = {}
  BY <1>2, <1>5, WrittenBy
<1>10. VS = "Off" => step'.wrote \cap VParts = {}
  BY <1>2, <1>6, WrittenBy
<1>11. FS = "Off" /\ FS' # "Off" => step'.wrote \cap VParts = {"vstart"}
  <2> SUFFICES ASSUME FS = "Off", FS' # "Off"
               PROVE  Written(calls, flags) \cap VParts = {"vstart"}
    BY <1>2
  <2>1. Written(calls, flags) \cap VParts \subseteq {"vstart"}
    BY <1>7, WrittenBy
  <2>2. "vstart" \in Written(calls, flags)
    BY <1>7, WrittenBy
  <2> QED  BY <2>1, <2>2 DEF VParts
<1> QED  BY <1>8, <1>9, <1>10, <1>11 DEF OffStep

\* An extension that is off does not change, and no instruction turns it on,
\* but for the write of vstart that turns FS on (urw_008_vstart.asl:39).
THEOREM OffStaysOff == Spec => OffIsOff
<1>1. ASSUME [Next]_vars PROVE [OffStep]_vars
  <2>1. ASSUME NEW t \in Templates, Retire(t) PROVE OffStep
    <3>1. PICK calls \in t.ends : Perform(t, "retired", calls)
      BY <2>1 DEF Retire
    <3>2. Ready(t) /\ Guarded(t.needs, calls)
      BY <2>1, TemplatesObey DEF Retire, Obeys
    <3> QED  BY <3>1, <3>2, PerformIsOff
  <2>2. ASSUME NEW t \in Templates, Fault(t) \/ IllegalAfter(t) PROVE OffStep
    <3>1. PICK kind \in {"fault", "illegal"}, calls \in t.faults \cup t.illegals :
            Perform(t, kind, calls)
      BY <2>2 DEF Fault, IllegalAfter
    <3>2. Ready(t) /\ Guarded(t.needs, calls)
      BY <2>2, TemplatesObey DEF Fault, IllegalAfter, Obeys
    <3> QED  BY <3>1, <3>2, PerformIsOff
  <2>3. CASE Refuse
    BY <2>3 DEF Refuse, OffStep
  <2>4. ASSUME NEW fs \in Status, NEW vs \in Status, Write_MSTATUS(fs, vs)
        PROVE  OffStep
    BY <2>4 DEF Write_MSTATUS, OffStep, FParts, VParts
  <2> QED  BY <1>1, <2>1, <2>2, <2>3, <2>4 DEF Next
<1>2. [OffStep]_vars =>
        [/\ FS = "Off" => step'.wrote \cap FParts = {}
         /\ VS = "Off" => step'.wrote \cap VParts = {}
         /\ VS = "Off" /\ VS' # "Off" => step'.kind = "mstatus"
         /\ FS = "Off" /\ FS' # "Off" =>
              step'.kind = "mstatus" \/ step'.wrote \cap VParts = {"vstart"}]_vars
  BY DEF OffStep
<1> QED  BY <1>1, <1>2, PTL DEF Spec, OffIsOff

-----------------------------------------------------------------------------
(* Types *)

LEMMA CallTypes ==
  ASSUME NEW calls, NEW flags \in BOOLEAN
  PROVE  /\ Written(calls, flags) \subseteq Parts
         /\ Logged(calls, flags) \subseteq Parts \cup {"mstatus"}
<1>1. \A c : Writes(c, flags) \subseteq Parts
  BY WritesOf
<1>2. \A c : Logs(c, flags) \subseteq Parts \cup {"mstatus"}
  BY DEF Logs, Parts, FParts, VParts
<1> QED  BY <1>1, <1>2 DEF Written, Logged

LEMMA PerformTypes ==
  ASSUME TypeOK, NEW t \in Templates, NEW kind \in {"retired", "fault", "illegal"},
         NEW calls, Perform(t, kind, calls)
  PROVE  TypeOK'
<1>1. PICK flags \in BOOLEAN :
        /\ FS' = IF calls \cap DirtiesFS # {} THEN "Dirty" ELSE FS
        /\ VS' = IF calls \cap DirtiesVS # {} THEN "Dirty" ELSE VS
        /\ vtype' \in IF "VTYPE" \in calls THEN {"ill", "legal"} ELSE {vtype}
        /\ vstart' \in NextVstart(calls)
        /\ frmValid' \in IF "FRM" \in calls THEN BOOLEAN ELSE {frmValid}
        /\ unsaved' \subseteq unsaved \cup Written(calls, flags) \cup {"loaded", "stray"}
        /\ step' = [kind |-> kind, inst |-> t,
                    wrote |-> Written(calls, flags)
                              \cup (IF FS' # FS \/ VS' # VS THEN {"mstatus"} ELSE {}),
                    logged |-> Logged(calls, flags)]
  BY DEF Perform, Written, Logged, Leaves
<1>2. FS' \in Status /\ VS' \in Status
  BY <1>1 DEF TypeOK, Status
<1>3. vtype' \in {"unset", "ill", "legal"} /\ frmValid' \in BOOLEAN
  BY <1>1 DEF TypeOK
<1>4. vstart' \in 0 .. LastElem
  BY <1>1, LastElemAssumption DEF NextVstart, TypeOK
<1>5. unsaved' \subseteq Parts
  BY <1>1, CallTypes DEF TypeOK, Parts, VParts
<1>6. step' \in [kind : {"reset", "retired", "fault", "illegal", "refused", "mstatus"},
                 inst : Templates \cup {NoInst},
                 wrote : SUBSET (Parts \cup {"mstatus"}),
                 logged : SUBSET (Parts \cup {"mstatus"})]
  BY <1>1, CallTypes
<1> QED  BY <1>2, <1>3, <1>4, <1>5, <1>6 DEF TypeOK

\* The statuses, vstart and the record of a step stay within their types.
THEOREM TypeCorrect == Spec => []TypeOK
<1>1. Init => TypeOK
  BY LastElemAssumption DEF Init, TypeOK, Status
<1>2. TypeOK /\ [Next]_vars => TypeOK'
  <2> SUFFICES ASSUME TypeOK, [Next]_vars PROVE TypeOK'
    OBVIOUS
  <2>1. ASSUME NEW t \in Templates, Retire(t) PROVE TypeOK'
    BY <2>1, PerformTypes DEF Retire
  <2>2. ASSUME NEW t \in Templates, Fault(t) PROVE TypeOK'
    BY <2>2, PerformTypes DEF Fault
  <2>6. ASSUME NEW t \in Templates, IllegalAfter(t) PROVE TypeOK'
    BY <2>6, PerformTypes DEF IllegalAfter
  <2>3. CASE Refuse
    BY <2>3 DEF Refuse, TypeOK
  <2>4. ASSUME NEW fs \in Status, NEW vs \in Status, Write_MSTATUS(fs, vs)
        PROVE  TypeOK'
    BY <2>4 DEF Write_MSTATUS, TypeOK
  <2>5. CASE UNCHANGED vars
    BY <2>5 DEF vars, TypeOK
  <2> QED  BY <2>1, <2>2, <2>3, <2>4, <2>5, <2>6 DEF Next
<1> QED  BY <1>1, <1>2, PTL DEF Spec
=============================================================================
