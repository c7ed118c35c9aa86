------------------------------ MODULE ExtInsts ------------------------------
(***************************************************************************)
(* What the templates of the floating-point and vector instructions do to  *)
(* the state of the two extensions.  A template, named as its file, is     *)
(* made of what it needs and of the functions it calls; these calls        *)
(* commute, so they form a set.  There is one set for each way to retire,  *)
(* one for each way to fault, and one for each way to be found illegal     *)
(* after something was changed.  Operand checks and results are data.      *)
(***************************************************************************)

\* Needs: isEnabled_FS, isEnabled_VS, a vtype that is not ill, vstart = 0, a
\* valid FRM.  Scalar instructions may name a rounding mode of their own.
Fp == {"FS"}
OnlyVS == {"VS"}
Mem == {"VS", "vtype"}
Vec == {"VS", "vtype", "vstart"}
VecFp == {"VS", "vtype", "vstart", "FS", "frm"}

\* "F" is the setter of F, "VRF", "VXSAT" and "VTYPE" are assignments.
FpResult == {"F", "accureFFlags", "makeDirty_FS"}
FpMove == {"F", "makeDirty_FS"}
FpFlags == {"accureFFlags", "makeDirty_FS"}
Group == {"VRF", "logWrite_VREG_elmul", "makeDirty_VS", "clear_VSTART"}
Single == {"VRF", "logWrite_VREG_1", "makeDirty_VS", "clear_VSTART"}
Saturating == Group \cup {"VXSAT", "logWrite_VCSR"}
FpGroup ==
  {"VRF", "logWrite_VREG_elmul", "accureFFlags", "makeDirty_FS_VS", "clear_VSTART"}
FpSingle ==
  {"VRF", "logWrite_VREG_1", "accureFFlags", "makeDirty_FS_VS", "clear_VSTART"}

Template(needs, ends, faults, illegals) ==
  [needs |-> needs, ends |-> ends, faults |-> faults, illegals |-> illegals]

Inst(needs, calls) == Template(needs, {calls}, {}, {})

\* Reductions do less when vl = 0.
Reduction(needs, calls, empty) == Template(needs, {calls, empty}, {}, {})

Access(needs, calls, faults) == Template(needs, {calls}, faults, {})

\* A load that faults after some of its elements
Faulted(log) == {"VRF", log, "vectorInterrupt"}

-----------------------------------------------------------------------------
(* Scalar floating point: rv_f *)

fadd_s == Inst(Fp, FpResult)
fclass_s == Inst(Fp, {})
fcvt_s_w == Inst(Fp, FpResult)
fcvt_w_s == Inst(Fp, FpFlags)
feq_s == Inst(Fp, FpFlags)
flw == Inst(Fp, FpMove)
fmadd_s == Inst(Fp, FpResult)
fmin_s == Inst(Fp, FpResult)
fmv_w_x == Inst(Fp, FpMove)
fmv_x_w == Inst(Fp, {})
fsgnj_s == Inst(Fp, FpMove)
fsqrt_s == Inst(Fp, FpResult)
fsw == Inst(Fp, {})

-----------------------------------------------------------------------------
(* Compressed loads and stores: rv_cf *)

c_flw == Inst(Fp, FpMove)
c_flwsp == Inst(Fp, FpMove)
c_fsw == Inst(Fp, {})
c_fswsp == Inst(Fp, {})

-----------------------------------------------------------------------------
(* Integer vector: rv_v *)

vadc_vim == Inst(Vec, Group)
vadc_vvm == Inst(Vec, Group)
vadc_vxm == Inst(Vec, Group)
vadd_vi == Inst(Vec, Group)
vadd_vv == Inst(Vec, Group)
vadd_vx == Inst(Vec, Group)
vcompress_vm == Inst(Vec, Group)
vcpop_m == Inst(Vec, {"clear_VSTART"})
vfirst_m == Inst(Vec, {"clear_VSTART"})
vid_v == Inst(Vec, Group)
viota_m == Inst(Vec, Group)
vmacc_vv == Inst(Vec, Group)
vmacc_vx == Inst(Vec, Group)
vmadc_vim == Inst(Vec, Single)
vmadc_vvm == Inst(Vec, Single)
vmadc_vxm == Inst(Vec, Single)
vmand_mm == Inst(Vec, Single)
vmerge_vim == Inst(Vec, Group)
vmerge_vvm == Inst(Vec, Group)
vmerge_vxm == Inst(Vec, Group)
vmsbf_m == Inst(Vec, Single)
vmseq_vi == Inst(Vec, Single)
vmseq_vv == Inst(Vec, Single)
vmseq_vx == Inst(Vec, Single)
vmv1r_v == Inst(Vec, Group)
vmv_s_x == Inst(Vec, Single)
vmv_v_i == Inst(Vec, Group)
vmv_v_v == Inst(Vec, Group)
vmv_v_x == Inst(Vec, Group)
vmv_x_s == Inst(Vec, {"clear_VSTART"})
\* Mutant of vnclip_wi: VXSAT is set and not logged.
vnclip_wi_unlogged ==
  Inst(Vec, {"VRF", "VXSAT", "logWrite_VREG_elmul", "makeDirty_VS", "clear_VSTART"})

vnclip_wi == Inst(Vec, Saturating)
vnclip_wv == Inst(Vec, Saturating)
vnclip_wx == Inst(Vec, Saturating)
vnsrl_wi == Inst(Vec, Group)
vnsrl_wv == Inst(Vec, Group)
vnsrl_wx == Inst(Vec, Group)
vredsum_vs == Reduction(Vec, Single, {"clear_VSTART"})
vrgather_vi == Inst(Vec, Group)
vrgather_vv == Inst(Vec, Group)
vrgather_vx == Inst(Vec, Group)
vrgatherei16_vv == Inst(Vec, Group)
vsadd_vi == Inst(Vec, Saturating)
vsadd_vv == Inst(Vec, Saturating)
vsadd_vx == Inst(Vec, Saturating)
vsetivli == Inst(OnlyVS, {"VTYPE", "logWrite_VTYPE_VL", "makeDirty_VS", "clear_VSTART"})
vsetvl == Inst(OnlyVS, {"VTYPE", "logWrite_VTYPE_VL", "clear_VSTART"})
vsetvli == Inst(OnlyVS, {"VTYPE", "logWrite_VTYPE_VL", "clear_VSTART"})
vsext_vf2 == Inst(Vec, Group)
vsext_vf4 == Inst(Vec, Group)
vslide1down_vx == Inst(Vec, Group)
vslide1up_vx == Inst(Vec, Group)
vslidedown_vi == Inst(Vec, Group)
vslidedown_vx == Inst(Vec, Group)
vslideup_vi == Inst(Vec, Group)
vslideup_vx == Inst(Vec, Group)
vsmul_vv == Inst(Vec, Saturating)
vsmul_vx == Inst(Vec, Saturating)
vssrl_vi == Inst(Vec, Group)
vssrl_vv == Inst(Vec, Group)
vssrl_vx == Inst(Vec, Group)
vwadd_vv == Inst(Vec, Group)
vwadd_vx == Inst(Vec, Group)
vwadd_wv == Inst(Vec, Group)
vwadd_wx == Inst(Vec, Group)
vwmacc_vv == Inst(Vec, Group)
vwmacc_vx == Inst(Vec, Group)
vwredsum_vs == Reduction(Vec, Single, {"makeDirty_VS", "clear_VSTART"})

-----------------------------------------------------------------------------
(* Floating-point vector: rv_vf *)

vfadd_vf == Inst(VecFp, FpGroup)
\* Mutant of vfadd_vv: only the flags make their extension dirty.
vfadd_vv_clean ==
  Inst(VecFp, {"VRF", "logWrite_VREG_elmul", "accureFFlags", "makeDirty_FS", "clear_VSTART"})

vfadd_vv == Inst(VecFp, FpGroup)
vfclass_v == Inst(VecFp, Group)
vfcvt_f_x_v == Inst(VecFp, FpGroup)
vfcvt_x_f_v == Inst(VecFp, FpGroup)
vfmacc_vf == Inst(VecFp, FpGroup)
vfmacc_vv == Inst(VecFp, FpGroup)
vfmerge_vfm == Inst(VecFp, Group)
vfmin_vf == Inst(VecFp, FpGroup)
vfmin_vv == Inst(VecFp, FpGroup)
\* Mutant of vfmv_f_s: an integer move by its other operand, without the check of FS.
vfmv_f_s_unchecked == Inst(Vec, {"F", "makeDirty_FS", "clear_VSTART"})

vfmv_f_s == Inst(VecFp, {"F", "makeDirty_FS", "clear_VSTART"})
vfmv_s_f == Inst(VecFp, Single)
vfmv_v_f == Inst(VecFp, Group)
vfncvt_x_f_w == Inst(VecFp, FpGroup)
vfredosum_vs == Reduction(VecFp, FpSingle, {"clear_VSTART"})
vfredusum_vs == Reduction(VecFp, FpSingle, {"clear_VSTART"})
vfsgnj_vf == Inst(VecFp, Group)
vfsgnj_vv == Inst(VecFp, Group)
vfslide1down_vf == Inst(VecFp, Group)
vfslide1up_vf == Inst(VecFp, Group)
vfsqrt_v == Inst(VecFp, FpGroup)
\* Of its widths 8 and 64 bits are refused, 32 bits is a Todo(), and 16 bits
\* returns IllegalInstruction() behind the loop that writes vd.
vfwcvt_f_x_v == Template(VecFp, {}, {}, {{"VRF"}})
vmfeq_vv == Inst(VecFp, FpSingle)
vmfeq_vx == Inst(VecFp, FpSingle)

-----------------------------------------------------------------------------
(* Vector loads and stores: rv_vmem *)

vle == Access(Mem, Group, {Faulted("logWrite_VREG_elmul")})
vlm_v == Access(Mem, Single, {Faulted("logWrite_VREG_1")})
vloxei == Access(Mem, Group, {Faulted("logWrite_VREG_elmul")})
vlr == Access(OnlyVS, Group, {Faulted("logWrite_VREG_elmul")})
vlse == Access(Mem, Group, {{"VRF", "vectorInterrupt"}, Faulted("logWrite_VREG_elmul")})
vse == Access(Mem, {"clear_VSTART"}, {{"vectorInterrupt"}})
vsm_v == Access(Mem, {"clear_VSTART"}, {{"vectorInterrupt"}})
vsoxei == Access(Mem, {"clear_VSTART"}, {{"vectorInterrupt"}})
vsr == Access(OnlyVS, {"clear_VSTART"}, {{"vectorInterrupt"}})
vsse == Access(Mem, {"clear_VSTART"}, {{"vectorInterrupt"}})

FpTemplates ==
  {fadd_s, fclass_s, fcvt_s_w, fcvt_w_s, feq_s, flw, fmadd_s, fmin_s,
   fmv_w_x, fmv_x_w, fsgnj_s, fsqrt_s, fsw}

CompressedFpTemplates ==
  {c_flw, c_flwsp, c_fsw, c_fswsp}

VecTemplates ==
  {vadc_vim, vadc_vvm, vadc_vxm, vadd_vi, vadd_vv, vadd_vx, vcompress_vm,
   vcpop_m, vfirst_m, vid_v, viota_m, vmacc_vv, vmacc_vx, vmadc_vim,
   vmadc_vvm, vmadc_vxm, vmand_mm, vmerge_vim, vmerge_vvm, vmerge_vxm,
   vmsbf_m, vmseq_vi, vmseq_vv, vmseq_vx, vmv1r_v, vmv_s_x, vmv_v_i,
   vmv_v_v, vmv_v_x, vmv_x_s, vnclip_wi, vnclip_wv, vnclip_wx, vnsrl_wi,
   vnsrl_wv, vnsrl_wx, vredsum_vs, vrgather_vi, vrgather_vv, vrgather_vx,
   vrgatherei16_vv, vsadd_vi, vsadd_vv, vsadd_vx, vsetivli, vsetvl, vsetvli,
   vsext_vf2, vsext_vf4, vslide1down_vx, vslide1up_vx, vslidedown_vi,
   vslidedown_vx, vslideup_vi, vslideup_vx, vsmul_vv, vsmul_vx, vssrl_vi,
   vssrl_vv, vssrl_vx, vwadd_vv, vwadd_vx, vwadd_wv, vwadd_wx, vwmacc_vv,
   vwmacc_vx, vwredsum_vs}

VecFpTemplates ==
  {vfadd_vf, vfadd_vv, vfclass_v, vfcvt_f_x_v, vfcvt_x_f_v, vfmacc_vf,
   vfmacc_vv, vfmerge_vfm, vfmin_vf, vfmin_vv, vfmv_f_s, vfmv_s_f, vfmv_v_f,
   vfncvt_x_f_w, vfredosum_vs, vfredusum_vs, vfsgnj_vf, vfsgnj_vv,
   vfslide1down_vf, vfslide1up_vf, vfsqrt_v, vfwcvt_f_x_v, vmfeq_vv,
   vmfeq_vx}

AccessTemplates ==
  {vle, vlm_v, vloxei, vlr, vlse, vse, vsm_v, vsoxei, vsr, vsse}

-----------------------------------------------------------------------------
(* Writes of the CSRs of the extensions *)

Write_FFLAGS == Inst({"FS"}, {"FFLAGS", "logWrite_FCSR", "makeDirty_FS"})
Write_FRM == Inst({"FS"}, {"FRM", "logWrite_FCSR", "makeDirty_FS"})
Write_FCSR == Inst({"FS"}, {"FRM", "FFLAGS", "logWrite_FCSR", "makeDirty_FS"})
Write_VXSAT == Inst({"VS"}, {"VXSAT", "logWrite_VCSR", "makeDirty_VS"})
Write_VXRM == Inst({"VS"}, {"VXRM", "logWrite_VCSR", "makeDirty_VS"})
Write_VCSR == Inst({"VS"}, {"VXRM", "VXSAT", "logWrite_VCSR", "makeDirty_VS"})
Write_VSTART == Inst({"VS"}, {"VSTART", "logWrite_VSTART", "makeDirty_FS"})

CsrWrites ==
  {Write_FFLAGS, Write_FRM, Write_FCSR, Write_VXSAT, Write_VXRM, Write_VCSR, Write_VSTART}

Templates ==
  UNION {FpTemplates, CompressedFpTemplates, VecTemplates, VecFpTemplates,
         AccessTemplates, CsrWrites}
=============================================================================
