------------------------- MODULE MKxAPI_Refinement -------------------------
(***************************************************************************)
(* Proof that the host API model implements HandleMirror (the refinement   *)
(* mapping is the instance HM of MKxAPI: the indication path is the wire  *)
(* up), and the coherence of the handle that follows from it.             *)
(***************************************************************************)
EXTENDS MKxAPI_Proofs

\* The steps of the model as steps of HandleMirror, stuttering first
AbsStep == UNCHANGED HM!avars \/ HM!Next

-----------------------------------------------------------------------------
(* Steps that leave the device, the handle and the wire up alone *)

LEMMA DispatchStutters ==
    ASSUME NEW t, NEW op, NEW h, NEW paramOk, NEW m, Dispatch(t, op, h, paramOk, m)
    PROVE  UNCHANGED HM!avars
BY DEF Dispatch, HM!avars

LEMMA StackCallStutters ==
    ASSUME NEW t \in Threads, StackCall(t)
    PROVE  UNCHANGED HM!avars
<1>. PICK h \in HandleArgs, ptr \in PtrArgs, radio \in RadioArgs :
          \/ MKx_Config(t, h, radio, ptr)
          \/ \E p \in Pkts : MKx_TxReq(t, h, p)
          \/ MKx_TxFlush(t, h)
          \/ MKx_GetTSFReq(t, h)
          \/ MKx_SetTSF(t, h)
          \/ MKx_GPIOReq(t, h)
          \/ MKx_VersionReq(t, h)
          \/ MKx_GetAuxADC(t, h)
          \/ MKx_GetStats(t, h, radio, ptr)
          \/ MKx_SetAuxADCCfg(t, h, ptr)
          \/ MKx_GetAuxADCCfg(t, h, ptr)
          \/ MKx_SetTemp(t, h, ptr)
          \/ MKx_GetTemp(t, h, ptr)
          \/ MKx_SetCalibration(t, h, ptr)
          \/ MKx_GetCalibration(t, h, ptr)
    BY DEF StackCall
<1>1. CASE \/ MKx_Config(t, h, radio, ptr)
           \/ MKx_SetTSF(t, h) \/ MKx_GPIOReq(t, h) \/ MKx_VersionReq(t, h)
           \/ MKx_TxFlush(t, h)
           \/ MKx_SetAuxADCCfg(t, h, ptr) \/ MKx_SetTemp(t, h, ptr)
           \/ MKx_SetCalibration(t, h, ptr)
    BY <1>1, DispatchStutters
       DEF MKx_Config, MKx_SetTSF, MKx_GPIOReq, MKx_VersionReq, MKx_TxFlush,
           MKx_SetAuxADCCfg, MKx_SetTemp, MKx_SetCalibration
<1>2. CASE \E p \in Pkts : MKx_TxReq(t, h, p)
    BY <1>2 DEF MKx_TxReq, HM!avars
<1>3. CASE MKx_GetTSFReq(t, h) \/ MKx_GetAuxADC(t, h) \/ MKx_GetStats(t, h, radio, ptr)
    BY <1>3 DEF MKx_GetTSFReq, MKx_GetAuxADC, MKx_GetStats, HM!avars
<1>4. CASE MKx_GetAuxADCCfg(t, h, ptr) \/ MKx_GetTemp(t, h, ptr)
           \/ MKx_GetCalibration(t, h, ptr)
    BY <1>4 DEF MKx_GetAuxADCCfg, MKx_GetTemp, MKx_GetCalibration, Getter_Send, HM!avars
<1>. QED
    BY <1>1, <1>2, <1>3, <1>4

-----------------------------------------------------------------------------
(* Steps of the device and the LLC as steps of HandleMirror *)

LEMMA DeviceRxRefines ==
    ASSUME TypeOK, DeviceRx
    PROVE  AbsStep
<1>. DEFINE m == Head(down)
<1>1. m \in DownMsgs
    BY DEF DeviceRx, TypeOK
<1>2. CASE /\ m.kind \in SetItems /\ m.val \in ItemVals
           /\ dev' = [dev EXCEPT ![m.kind] = m.val]
           /\ up' = Append(up, [kind |-> m.kind, val |-> m.val])
    <2>1. HM!Update(m.kind, m.val)
        BY <1>2 DEF DeviceRx, HM!Update
    <2>. QED
        BY <1>2, <2>1 DEF AbsStep, HM!Next, Items
<1>3. CASE /\ m.kind \in SetItems /\ dev' = dev
           /\ up' = Append(up, [kind |-> m.kind, val |-> dev[m.kind]])
    <2>1. HM!Report(m.kind)
        BY <1>3 DEF DeviceRx, HM!Report
    <2>. QED
        BY <1>3, <2>1 DEF AbsStep, HM!Next, Items
<1>4. CASE m.kind \in {"GetTSF", "GPIO", "APIVersion"}
    <2>1. HM!Event(m.kind, 0)
        BY <1>4 DEF DeviceRx, HM!Event, Items, SetItems, MeasuredItems
    <2>2. m.kind \in UpKinds /\ 0 \in ItemVals
        BY <1>4, BoundsAssumption DEF UpKinds, ItemVals, Vals
    <2>. QED
        BY <2>1, <2>2 DEF AbsStep, HM!Next
<1>5. CASE m.kind \in {"SetTSF", "FlushQ"}
    BY <1>5 DEF DeviceRx, AbsStep, HM!avars, SetItems, Fills, FillQuery, FillBogus
<1>. QED
    BY <1>1, <1>2, <1>3, <1>4, <1>5 DEF DeviceRx

LEMMA DeviceMeasureRefines ==
    ASSUME TypeOK, NEW i \in MeasuredItems, DeviceMeasure(i)
    PROVE  AbsStep
<1>1. HM!Update(i, Fresh) /\ Fresh \in ItemVals
    BY BoundsAssumption DEF DeviceMeasure, HM!Update, Fresh, ItemVals, Vals, TypeOK
<1>. QED
    BY <1>1 DEF AbsStep, HM!Next, Items

LEMMA DeviceReceiveRefines ==
    ASSUME TypeOK, DeviceReceive
    PROVE  AbsStep
<1>1. HM!Event("RxPkt", 0) /\ 0 \in ItemVals /\ "RxPkt" \in UpKinds
    BY BoundsAssumption
       DEF DeviceReceive, HM!Event, Items, SetItems, MeasuredItems, ItemVals, Vals, UpKinds
<1>. QED
    BY <1>1 DEF AbsStep, HM!Next

LEMMA LlcRxRefines ==
    ASSUME TypeOK, LlcRx
    PROVE  AbsStep
<1>1. HM!Deliver
    BY DEF LlcRx, HM!Deliver, Items, SetItems, MeasuredItems
<1>. QED
    BY <1>1 DEF AbsStep, HM!Next

LEMMA RxAllocRefines ==
    ASSUME TypeOK, RxAlloc
    PROVE  AbsStep
<1>1. HM!Deliver
    BY DEF RxAlloc, HM!Deliver, Items, SetItems, MeasuredItems
<1>. QED
    BY <1>1 DEF AbsStep, HM!Next

-----------------------------------------------------------------------------

\* Every step of the model is a step of HandleMirror or leaves its view alone
LEMMA NextRefines == TypeOK /\ [Next]_vars => [AbsStep]_HM!avars
<1>. SUFFICES ASSUME TypeOK, [Next]_vars PROVE [AbsStep]_HM!avars
    OBVIOUS
<1>1. CASE \E t \in Threads : StackCall(t)
    BY <1>1, StackCallStutters
<1>2. CASE \E t \in Threads : Getter_Copy(t)
    BY <1>2 DEF Getter_Copy, HM!avars
<1>3. CASE \E p \in Pkts : StackAlloc(p) \/ DeviceTransmit(p) \/ TxCnf(p) \/ RxInd(p)
    BY <1>3 DEF StackAlloc, DeviceTransmit, TxCnf, RxInd, HM!avars
<1>4. CASE DeviceRx
    BY <1>4, DeviceRxRefines
<1>5. CASE \E i \in MeasuredItems : DeviceMeasure(i)
    BY <1>5, DeviceMeasureRefines
<1>6. CASE DeviceReceive
    BY <1>6, DeviceReceiveRefines
<1>7. CASE LlcRx
    BY <1>7, LlcRxRefines
<1>8. CASE RxAlloc
    BY <1>8, RxAllocRefines
<1>9. CASE UNCHANGED vars
    BY <1>9 DEF vars, HM!avars
<1>. QED
    BY <1>1, <1>2, <1>3, <1>4, <1>5, <1>6, <1>7, <1>8, <1>9 DEF Next

(***************************************************************************)
(* The wrappers, the LLC and the device implement HandleMirror, for all    *)
(* threads, buffers and bounds: MKx_Init's handle is a copy of the device, *)
(* every device step that changes an item echoes it up the wire, every    *)
(* query is answered with the current value and the LLC's receive path    *)
(* delivers the indications in order.                                     *)
(***************************************************************************)
THEOREM Refinement == Spec => HandleMirrorRefined
<1>1. Init => HM!Init
    BY BoundsAssumption DEF Init, HM!Init, ItemVals, Vals
<1>2. TypeOK /\ [Next]_vars => [AbsStep]_HM!avars
    BY NextRefines
<1>. QED
    BY <1>1, <1>2, TypeCorrect, PTL DEF Spec, HandleMirrorRefined, AbsStep

(***************************************************************************)
(* Coherence of the handle, for all threads, buffers and bounds: once the  *)
(* device has processed every request and the LLC has delivered every     *)
(* indication, each item of the handle's State/Config equals the device's. *)
(* It is the Mirror invariant of HandleMirror, carried over by Refinement. *)
(***************************************************************************)
THEOREM HandleCoherent == Spec => []HandleCoherence
<1>1. Spec => HM!Spec
    <2>1. [AbsStep]_HM!avars <=> [HM!Next]_HM!avars
        BY DEF AbsStep
    <2>. QED
        BY Refinement, <2>1, PTL DEF HandleMirrorRefined, HM!Spec, AbsStep
<1>2. HM!Spec => []HM!Mirror
    BY HM!MirrorInvariant
<1>3. TypeOK /\ HM!Mirror => HandleCoherence
    <2>. SUFFICES ASSUME TypeOK, HM!Mirror, down = << >>, up = << >>
                  PROVE  hnd = dev
        BY DEF HandleCoherence
    <2>1. \A i \in Items : hnd[i] = dev[i]
        BY DEF HM!Mirror, HM!ItemMirrored, HM!LastOf
    <2>. QED
        BY <2>1 DEF TypeOK
<1>. QED
    BY <1>1, <1>2, <1>3, TypeCorrect, PTL

=============================================================================
