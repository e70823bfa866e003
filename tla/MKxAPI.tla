------------------------------- MODULE MKxAPI -------------------------------
(***************************************************************************)
(* The host side of the LLC API of llc-api.h: the static INLINE wrappers   *)
(* MKx_* that a stack calls on an MKx handle, the LLC and the SAF5x00      *)
(* device behind the function pointers pMKx->API.Functions, and the        *)
(* callbacks pMKx->API.Callbacks through which the LLC answers.            *)
(*                                                                         *)
(* The wrappers are modelled from their code (r17.1 and r16, selected by   *)
(* Rev).  The LLC and the device are not part of this repository; their   *)
(* behaviour is the contract stated in the comments of the function types  *)
(* fMKx_*: a request is sent on the wire to the device, the device applies *)
(* it and answers, and the LLC delivers the answer by updating the         *)
(* read-only State/Config of the handle or by invoking a callback.         *)
(*                                                                         *)
(* Data is abstracted to what the properties tell apart: a configuration   *)
(* or measurement is a number, fresh for every new value, so that a value  *)
(* identifies the moment it was produced.                                  *)
(***************************************************************************)
EXTENDS Integers, Sequences, FiniteSets

CONSTANTS
    Rev,        \* API revision of the header: "r16" or "r17.1"
    Threads,    \* stack threads calling the MKx_* wrappers concurrently
    Pkts,       \* transmit buffers (skbs) of the stack
    MaxOps,     \* bound on the operations that send to or change the device
    MaxQueue    \* bound on the messages in flight in each direction

ASSUME RevAssumption == Rev \in {"r16", "r17.1"}
ASSUME BoundsAssumption == MaxOps \in Nat /\ MaxQueue \in Nat \ {0}

(***************************************************************************)
(* Return codes of eMKxStatus used by the wrappers.  A failure of the LLC  *)
(* function itself is abstracted to MKXSTATUS_FAILURE_INTERNAL_ERROR.      *)
(***************************************************************************)
MKXSTATUS_SUCCESS == 0
MKXSTATUS_FAILURE_INTERNAL_ERROR == -257
MKXSTATUS_FAILURE_INVALID_HANDLE == -258
MKXSTATUS_FAILURE_INVALID_PARAM == -261
StatusCodes == {MKXSTATUS_SUCCESS, MKXSTATUS_FAILURE_INTERNAL_ERROR,
                MKXSTATUS_FAILURE_INVALID_HANDLE, MKXSTATUS_FAILURE_INVALID_PARAM}

\* tMKxRadio: MKX_RADIO_A = 0, MKX_RADIO_B = 1, MKX_RADIO_MAX = 1; 2 is out of range
MKX_RADIO_MAX == 1
RadioArgs == 0 .. MKX_RADIO_MAX + 1
RadioItem == [r \in 0 .. MKX_RADIO_MAX |-> IF r = 0 THEN "RadioA" ELSE "RadioB"]
StatsItem == [r \in 0 .. MKX_RADIO_MAX |-> IF r = 0 THEN "StatsA" ELSE "StatsB"]

\* A handle argument: NULL, a handle whose Magic is not MKX_API_MAGIC, or a valid one
HandleArgs == {"null", "badmagic", "ok"}
\* A pointer argument (pConfig, pCfg, pTemp, pCalib, pStats)
PtrArgs == {"null", "ok"}

(***************************************************************************)
(* Items of the handle: pMKx->Config.Radio[], Config.Calibration,          *)
(* Config.AuxADC (set by the stack, echoed by the device), State.Temp (set *)
(* by the stack or measured), State.Stats[] and State.AuxADC (measured).   *)
(***************************************************************************)
SetItems == {"RadioA", "RadioB", "Calib", "AuxADCCfg", "Temp"}
MeasuredItems == {"Temp", "StatsA", "StatsB", "AuxADC"}
Items == SetItems \cup MeasuredItems

(***************************************************************************)
(* The content a getter writes into its request before sending it.         *)
(* MKx_GetAuxADCCfg fills with 0xFF: the register reads -1U, which the     *)
(* contract of fMKx_AuxADCCfg makes a query (no change, reply with the     *)
(* current configuration).  MKx_GetTemp and MKx_GetCalibration fill with   *)
(* 0x80, which no contract makes a query: fMKx_Temp delivers measurements  *)
(* (accepted when the sensor source is manual) and fMKx_Calibration only   *)
(* leaves the settings unchanged for -1U.                                  *)
(***************************************************************************)
FillQuery == -1
FillBogus == -2
Fills == {FillQuery, FillBogus}
GetterFill == [op \in {"GetAuxADCCfg", "GetTemp", "GetCalibration"} |->
                 IF op = "GetAuxADCCfg" THEN FillQuery ELSE FillBogus]

\* Fresh values of settings and measurements, and what an item can hold
Vals == 0 .. MaxOps
ItemVals == Vals \cup {FillBogus}

\* Messages on the wire (MKXIF_* types); val is the data of a data message
DownKinds == SetItems \cup {"GetTSF", "SetTSF", "FlushQ", "GPIO", "APIVersion"}
UpKinds == Items \cup {"GetTSF", "GPIO", "APIVersion", "RxPkt"}
DownMsgs == [kind : DownKinds, val : ItemVals \cup Fills]
UpMsgs == [kind : UpKinds, val : ItemVals]

Ops == {"none", "Config", "TxReq", "TxFlush", "GetTSFReq", "SetTSF", "GPIOReq",
        "VersionReq", "GetAuxADC", "GetStats", "SetAuxADCCfg", "GetAuxADCCfg",
        "SetTemp", "GetTemp", "SetCalibration", "GetCalibration"}
GetterItem == [op \in {"GetAuxADCCfg", "GetTemp", "GetCalibration"} |->
                 CASE op = "GetAuxADCCfg" -> "AuxADCCfg"
                   [] op = "GetTemp" -> "Temp"
                   [] op = "GetCalibration" -> "Calib"]

VARIABLES
    dev,       \* the device's current value of each item
    hnd,       \* the handle's copy: pMKx->State / pMKx->Config
    down,      \* messages host -> device, in order (USB bulk endpoint)
    up,        \* messages device -> host, in order
    thr,       \* per stack thread: idle, or a getter between its request and its copy
    ret,       \* per stack thread: the value the last wrapper call returned
    pktStack,  \* per buffer: "free", "held" by the stack, or "lent" to the LLC
    pktLlc,    \* per buffer in the LLC: "none", "queued", "done" (TxEvent due), "rx"
    tsfAwait,  \* GetTSFReq calls that returned success and await GetTSFInd
    ops        \* operations performed so far (bounded by MaxOps)

vars == <<dev, hnd, down, up, thr, ret, pktStack, pktLlc, tsfAwait, ops>>

ThreadRec == [pc : {"idle", "copy"}, op : Ops, seen : ItemVals]
Idle == [pc |-> "idle", op |-> "none", seen |-> 0]

TypeOK ==
    /\ dev \in [Items -> ItemVals]
    /\ hnd \in [Items -> ItemVals]
    /\ down \in Seq(DownMsgs)
    /\ up \in Seq(UpMsgs)
    /\ thr \in [Threads -> ThreadRec]
    /\ ret \in [Threads -> StatusCodes]
    /\ pktStack \in [Pkts -> {"free", "held", "lent"}]
    /\ pktLlc \in [Pkts -> {"none", "queued", "done", "rx"}]
    /\ tsfAwait \in Nat
    /\ ops \in 0 .. MaxOps

\* MKx_Init: the handle holds the configuration read from the device
Init ==
    /\ dev = [i \in Items |-> 0]
    /\ hnd = [i \in Items |-> 0]
    /\ down = << >>
    /\ up = << >>
    /\ thr = [t \in Threads |-> Idle]
    /\ ret = [t \in Threads |-> MKXSTATUS_SUCCESS]
    /\ pktStack = [p \in Pkts |-> "free"]
    /\ pktLlc = [p \in Pkts |-> "none"]
    /\ tsfAwait = 0
    /\ ops = 0

-----------------------------------------------------------------------------
(* Helpers shared by the wrappers *)

\* The two handle checks every wrapper starts with: NULL, then Magic
HandleValid(h) == h = "ok"

\* A wrapper call that returns without a step in progress
Returned(t, code) ==
    /\ ret' = [ret EXCEPT ![t] = code]
    /\ UNCHANGED thr

\* The LLC function sends a message on the wire (it blocks until sent)
Send(m) ==
    /\ down' = Append(down, m)
    /\ ops' = ops + 1

CanSend == Len(down) < MaxQueue /\ ops < MaxOps

\* The data of a new configuration or measurement: a value not used before
Fresh == ops + 1

\* A wrapper whose only effect, past its checks, is Functions.X sending m.
\* extraOk are the parameter checks after the handle checks (INVALID_PARAM).
Dispatch(t, op, h, paramOk, m) ==
    /\ thr[t].pc = "idle"
    /\ \/ /\ ~HandleValid(h)
          /\ Returned(t, MKXSTATUS_FAILURE_INVALID_HANDLE)
          /\ UNCHANGED <<down, ops>>
       \/ /\ HandleValid(h) /\ ~paramOk
          /\ Returned(t, MKXSTATUS_FAILURE_INVALID_PARAM)
          /\ UNCHANGED <<down, ops>>
       \/ /\ HandleValid(h) /\ paramOk
          /\ CanSend
          /\ \/ Send(m) /\ Returned(t, MKXSTATUS_SUCCESS)
             \/ /\ Returned(t, MKXSTATUS_FAILURE_INTERNAL_ERROR)
                /\ UNCHANGED <<down, ops>>
    /\ UNCHANGED <<dev, hnd, up, pktStack, pktLlc, tsfAwait>>

-----------------------------------------------------------------------------
(* The wrappers *)

\* MKx_Config: checks handle, Radio <= MKX_RADIO_MAX, pConfig; Functions.Config
MKx_Config(t, h, radio, ptr) ==
    Dispatch(t, "Config", h, radio <= MKX_RADIO_MAX /\ ptr = "ok",
             [kind |-> RadioItem[IF radio <= MKX_RADIO_MAX THEN radio ELSE 0],
              val |-> Fresh])

\* MKx_SetTSF, MKx_GPIOReq (r17.1), MKx_VersionReq (r17.1): handle checks only
MKx_SetTSF(t, h) == Dispatch(t, "SetTSF", h, TRUE, [kind |-> "SetTSF", val |-> 0])
MKx_GPIOReq(t, h) ==
    Rev = "r17.1" /\ Dispatch(t, "GPIOReq", h, TRUE, [kind |-> "GPIO", val |-> 0])
MKx_VersionReq(t, h) ==
    Rev = "r17.1" /\ Dispatch(t, "VersionReq", h, TRUE, [kind |-> "APIVersion", val |-> 0])

\* MKx_TxFlush: handle checks only (RadioID, ChannelID, TxQueue are not checked)
MKx_TxFlush(t, h) == Dispatch(t, "TxFlush", h, TRUE, [kind |-> "FlushQ", val |-> 0])

\* MKx_SetAuxADCCfg, MKx_SetTemp, MKx_SetCalibration: handle checks, pointer check
MKx_SetAuxADCCfg(t, h, ptr) ==
    Dispatch(t, "SetAuxADCCfg", h, ptr = "ok", [kind |-> "AuxADCCfg", val |-> Fresh])
MKx_SetTemp(t, h, ptr) ==
    Dispatch(t, "SetTemp", h, ptr = "ok", [kind |-> "Temp", val |-> Fresh])
MKx_SetCalibration(t, h, ptr) ==
    Dispatch(t, "SetCalibration", h, ptr = "ok", [kind |-> "Calib", val |-> Fresh])

\* Fault: the r16 handle check, returning 0 for a NULL or bad handle
GetTSFReq_SuccessOnBadHandle(t, h) ==
    /\ thr[t].pc = "idle"
    /\ \/ /\ ~HandleValid(h) /\ ops < MaxOps
          /\ Returned(t, MKXSTATUS_SUCCESS)
          /\ tsfAwait' = tsfAwait + 1 /\ ops' = ops + 1
          /\ UNCHANGED down
       \/ /\ HandleValid(h) /\ CanSend
          /\ Send([kind |-> "GetTSF", val |-> 0])
          /\ Returned(t, MKXSTATUS_SUCCESS)
          /\ tsfAwait' = tsfAwait + 1
    /\ UNCHANGED <<dev, hnd, up, pktStack, pktLlc>>

(***************************************************************************)
(* MKx_GetTSFReq.  r17.1 returns MKXSTATUS_FAILURE_INVALID_HANDLE on a     *)
(* NULL or bad handle; r16 returns 0 (MKXSTATUS_SUCCESS) there.  The stack *)
(* then waits for the GetTSFInd callback of every request that succeeded.  *)
(***************************************************************************)
MKx_GetTSFReq(t, h) ==
    /\ thr[t].pc = "idle"
    /\ \/ /\ ~HandleValid(h) /\ Rev = "r16"
          /\ ops < MaxOps
          /\ Returned(t, MKXSTATUS_SUCCESS)
          /\ tsfAwait' = tsfAwait + 1
          /\ ops' = ops + 1
          /\ UNCHANGED down
       \/ /\ ~HandleValid(h) /\ Rev = "r17.1"
          /\ Returned(t, MKXSTATUS_FAILURE_INVALID_HANDLE)
          /\ UNCHANGED <<down, ops, tsfAwait>>
       \/ /\ HandleValid(h)
          /\ CanSend
          /\ \/ /\ Send([kind |-> "GetTSF", val |-> 0])
                /\ Returned(t, MKXSTATUS_SUCCESS)
                /\ tsfAwait' = tsfAwait + 1
             \/ /\ Returned(t, MKXSTATUS_FAILURE_INTERNAL_ERROR)
                /\ UNCHANGED <<down, ops, tsfAwait>>
    /\ UNCHANGED <<dev, hnd, up, pktStack, pktLlc>>

\* Fault: the LLC queues the packet and still reports a failure
TxReq_QueuedOnError(t, h, p) ==
    /\ thr[t].pc = "idle"
    /\ pktStack[p] = "held"
    /\ HandleValid(h) /\ ops < MaxOps
    /\ Returned(t, MKXSTATUS_FAILURE_INTERNAL_ERROR)
    /\ pktStack' = [pktStack EXCEPT ![p] = "free"]
    /\ pktLlc' = [pktLlc EXCEPT ![p] = "queued"]
    /\ ops' = ops + 1
    /\ UNCHANGED <<dev, hnd, down, up, tsfAwait>>

(***************************************************************************)
(* MKx_TxReq: handle checks, then Functions.TxReq.  The LLC accepts the    *)
(* packet (SUCCESS, it keeps pTxPkt/pPriv until TxCnf) or rejects it; on a *)
(* failure the buffer stays with the stack, which frees it.                *)
(***************************************************************************)
MKx_TxReq(t, h, p) ==
    /\ thr[t].pc = "idle"
    /\ pktStack[p] = "held"
    /\ \/ /\ ~HandleValid(h)
          /\ Returned(t, MKXSTATUS_FAILURE_INVALID_HANDLE)
          /\ pktStack' = [pktStack EXCEPT ![p] = "free"]
          /\ UNCHANGED <<pktLlc, ops>>
       \/ /\ HandleValid(h)
          /\ ops < MaxOps
          /\ \/ /\ Returned(t, MKXSTATUS_SUCCESS)
                /\ pktStack' = [pktStack EXCEPT ![p] = "lent"]
                /\ pktLlc' = [pktLlc EXCEPT ![p] = "queued"]
                /\ ops' = ops + 1
             \/ /\ Returned(t, MKXSTATUS_FAILURE_INTERNAL_ERROR)
                /\ pktStack' = [pktStack EXCEPT ![p] = "free"]
                /\ UNCHANGED <<pktLlc, ops>>
    /\ UNCHANGED <<dev, hnd, down, up, tsfAwait>>

\* MKx_GetStats: handle checks, Radio, pStats; memcpy of State.Stats[Radio]
MKx_GetStats(t, h, radio, ptr) ==
    /\ thr[t].pc = "idle"
    /\ \/ /\ ~HandleValid(h)
          /\ Returned(t, MKXSTATUS_FAILURE_INVALID_HANDLE)
       \/ /\ HandleValid(h) /\ (radio > MKX_RADIO_MAX \/ ptr = "null")
          /\ Returned(t, MKXSTATUS_FAILURE_INVALID_PARAM)
       \/ /\ HandleValid(h) /\ radio <= MKX_RADIO_MAX /\ ptr = "ok"
          /\ Returned(t, MKXSTATUS_SUCCESS)
    /\ UNCHANGED <<dev, hnd, down, up, pktStack, pktLlc, tsfAwait, ops>>

\* MKx_GetAuxADC: handle checks only (pAuxADCData is not checked); memcpy State.AuxADC
MKx_GetAuxADC(t, h) ==
    /\ thr[t].pc = "idle"
    /\ \/ /\ ~HandleValid(h)
          /\ Returned(t, MKXSTATUS_FAILURE_INVALID_HANDLE)
       \/ /\ HandleValid(h)
          /\ Returned(t, MKXSTATUS_SUCCESS)
    /\ UNCHANGED <<dev, hnd, down, up, pktStack, pktLlc, tsfAwait, ops>>

(***************************************************************************)
(* MKx_GetAuxADCCfg, MKx_GetTemp, MKx_GetCalibration.  After the checks,   *)
(* the data of the caller's message is filled with a bogus pattern (memset *)
(* 0xFF / 0x80) and sent with Functions.X, whose result is ignored; then   *)
(* the handle's copy is memcpy'd into the caller's message and             *)
(* MKXSTATUS_SUCCESS returned.  The send and the copy are two steps: the   *)
(* LLC and the device run between them.  seen records the device's value  *)
(* of the item when the request was made.                                  *)
(***************************************************************************)
Getter_Send(t, op, h, ptr) ==
    LET item == GetterItem[op] IN
    /\ thr[t].pc = "idle"
    /\ \/ /\ ~HandleValid(h)
          /\ Returned(t, MKXSTATUS_FAILURE_INVALID_HANDLE)
          /\ UNCHANGED <<down, ops>>
       \/ /\ HandleValid(h) /\ ptr = "null"
          /\ Returned(t, MKXSTATUS_FAILURE_INVALID_PARAM)
          /\ UNCHANGED <<down, ops>>
       \/ /\ HandleValid(h) /\ ptr = "ok"
          /\ CanSend
          /\ \/ Send([kind |-> item, val |-> GetterFill[op]])
             \/ UNCHANGED <<down, ops>>   \* (void)Functions.X failed
          /\ thr' = [thr EXCEPT ![t] = [pc |-> "copy", op |-> op, seen |-> dev[item]]]
          /\ UNCHANGED ret
    /\ UNCHANGED <<dev, hnd, up, pktStack, pktLlc, tsfAwait>>

Getter_Copy(t) ==
    /\ thr[t].pc = "copy"
    /\ thr' = [thr EXCEPT ![t] = Idle]
    /\ ret' = [ret EXCEPT ![t] = MKXSTATUS_SUCCESS]
    /\ UNCHANGED <<dev, hnd, down, up, pktStack, pktLlc, tsfAwait, ops>>

MKx_GetAuxADCCfg(t, h, ptr) == Getter_Send(t, "GetAuxADCCfg", h, ptr)
MKx_GetTemp(t, h, ptr) == Getter_Send(t, "GetTemp", h, ptr)
MKx_GetCalibration(t, h, ptr) == Getter_Send(t, "GetCalibration", h, ptr)

-----------------------------------------------------------------------------
(* The stack's own buffer handling (the skb example of fMKx_TxReq/TxCnf) *)

StackAlloc(p) ==
    /\ pktStack[p] = "free"
    /\ pktStack' = [pktStack EXCEPT ![p] = "held"]
    /\ UNCHANGED <<dev, hnd, down, up, thr, ret, pktLlc, tsfAwait, ops>>

-----------------------------------------------------------------------------
(* The device (SAF5x00) *)

(***************************************************************************)
(* tMKxCalibrationData starts with uint32_t Version, which must be         *)
(* CALIBRATION_VERSION (3U); otherwise the device refuses the data        *)
(* (MKXSTATUS_FAILURE_INVALID_CALIBRATION_VERSION) and keeps its settings. *)
(* The 0x80 fill of MKx_GetCalibration makes Version 0x80808080, so it is  *)
(* refused.  tMKxTempData has no such field: a 0x80-filled MKxTemp is      *)
(* accepted when SensorSource is MKX_TEMP_SOURCE_MANUAL, and refused      *)
(* otherwise.  A refused fill is answered with the current setting.      *)
(***************************************************************************)
CalibVersionOk(m) == m.kind = "Calib" => m.val # FillBogus

\* Fault: a flush discards the queued packets without a TxEvent
DeviceRx_FlushDrops ==
    /\ down # << >>
    /\ Len(up) < MaxQueue
    /\ down' = Tail(down)
    /\ LET m == Head(down) IN
       \/ /\ m.kind \in SetItems /\ m.val \in ItemVals
          /\ CalibVersionOk(m)
          /\ dev' = [dev EXCEPT ![m.kind] = m.val]
          /\ up' = Append(up, [kind |-> m.kind, val |-> m.val])
          /\ UNCHANGED pktLlc
       \/ /\ m.kind \in SetItems /\ m.val \in Fills
          /\ up' = Append(up, [kind |-> m.kind, val |-> dev[m.kind]])
          /\ UNCHANGED <<dev, pktLlc>>
       \/ /\ m.kind \in {"GetTSF", "GPIO", "APIVersion"}
          /\ up' = Append(up, [kind |-> m.kind, val |-> 0])
          /\ UNCHANGED <<dev, pktLlc>>
       \/ /\ m.kind = "SetTSF"
          /\ UNCHANGED <<dev, up, pktLlc>>
       \/ /\ m.kind = "FlushQ"
          /\ pktLlc' = [p \in Pkts |-> IF pktLlc[p] = "queued" THEN "none" ELSE pktLlc[p]]
          /\ UNCHANGED <<dev, up>>
    /\ UNCHANGED <<hnd, thr, ret, pktStack, tsfAwait, ops>>

\* The device takes the next message off the wire and answers it
DeviceRx ==
    /\ down # << >>
    /\ Len(up) < MaxQueue
    /\ down' = Tail(down)
    /\ LET m == Head(down) IN
       \/ /\ m.kind \in SetItems /\ m.val \in ItemVals  \* a setting: apply, echo
          /\ CalibVersionOk(m)
          /\ dev' = [dev EXCEPT ![m.kind] = m.val]
          /\ up' = Append(up, [kind |-> m.kind, val |-> m.val])
          /\ UNCHANGED pktLlc
       \/ /\ m.kind \in SetItems /\ m.val \in Fills     \* a query, or a refused fill: report
          /\ up' = Append(up, [kind |-> m.kind, val |-> dev[m.kind]])
          /\ UNCHANGED <<dev, pktLlc>>
       \/ /\ m.kind \in {"GetTSF", "GPIO", "APIVersion"}
          /\ up' = Append(up, [kind |-> m.kind, val |-> 0])
          /\ UNCHANGED <<dev, pktLlc>>
       \/ /\ m.kind = "SetTSF"
          /\ UNCHANGED <<dev, up, pktLlc>>
       \/ /\ m.kind = "FlushQ"                      \* queued packets are retired
          /\ pktLlc' = [p \in Pkts |-> IF pktLlc[p] = "queued" THEN "done" ELSE pktLlc[p]]
          /\ UNCHANGED <<dev, up>>
    /\ UNCHANGED <<hnd, thr, ret, pktStack, tsfAwait, ops>>

\* The device measures a new value and indicates it (stats every 50ms, temp, ADC)
DeviceMeasure(i) ==
    /\ ops < MaxOps
    /\ Len(up) < MaxQueue
    /\ dev' = [dev EXCEPT ![i] = Fresh]
    /\ up' = Append(up, [kind |-> i, val |-> Fresh])
    /\ ops' = ops + 1
    /\ UNCHANGED <<hnd, down, thr, ret, pktStack, pktLlc, tsfAwait>>

\* The device transmits (or retires) a queued packet: its TxEvent is due
DeviceTransmit(p) ==
    /\ pktLlc[p] = "queued"
    /\ pktLlc' = [pktLlc EXCEPT ![p] = "done"]
    /\ UNCHANGED <<dev, hnd, down, up, thr, ret, pktStack, tsfAwait, ops>>

\* The device receives a frame off the air and sends it up (MKXIF_RXPACKET)
DeviceReceive ==
    /\ ops < MaxOps
    /\ Len(up) < MaxQueue
    /\ up' = Append(up, [kind |-> "RxPkt", val |-> 0])
    /\ ops' = ops + 1
    /\ UNCHANGED <<dev, hnd, down, thr, ret, pktStack, pktLlc, tsfAwait>>

-----------------------------------------------------------------------------
(* The LLC's receive path *)

(***************************************************************************)
(* A received packet: the LLC calls RxAlloc, in which the stack allocates *)
(* a buffer (alloc_skb with GFP_ATOMIC) or fails with *ppBuf == NULL; the  *)
(* LLC then fills the buffer, or drops the frame when there is none.      *)
(***************************************************************************)
RxAlloc ==
    /\ up # << >>
    /\ Head(up).kind = "RxPkt"
    /\ up' = Tail(up)
    /\ \/ \E p \in Pkts :
             /\ pktStack[p] = "free"
             /\ pktStack' = [pktStack EXCEPT ![p] = "lent"]
             /\ pktLlc' = [pktLlc EXCEPT ![p] = "rx"]
       \/ UNCHANGED <<pktStack, pktLlc>>
    /\ UNCHANGED <<dev, hnd, down, thr, ret, tsfAwait, ops>>

\* RxInd callback with the filled buffer; the stack consumes and frees it
RxInd(p) ==
    /\ pktLlc[p] = "rx"
    /\ pktLlc' = [pktLlc EXCEPT ![p] = "none"]
    /\ pktStack' = [pktStack EXCEPT ![p] = "free"]
    /\ UNCHANGED <<dev, hnd, down, up, thr, ret, tsfAwait, ops>>

\* Fault: indications delivered out of order (a datagram transport)
LlcRx_AnyOrder ==
    \E k \in 1 .. Len(up) :
       /\ up' = SubSeq(up, 1, k - 1) \o SubSeq(up, k + 1, Len(up))
       /\ LET m == up[k] IN
          \/ /\ m.kind \in Items
             /\ hnd' = [hnd EXCEPT ![m.kind] = m.val]
             /\ UNCHANGED tsfAwait
          \/ /\ m.kind = "GetTSF"
             /\ tsfAwait' = tsfAwait - 1
             /\ UNCHANGED hnd
          \/ /\ m.kind \in {"GPIO", "APIVersion"}
             /\ UNCHANGED <<hnd, tsfAwait>>
       /\ UNCHANGED <<dev, down, thr, ret, pktStack, pktLlc, ops>>

\* Fault: every callback other than a State/Config update counted as GetTSFInd
LlcRx_AllIndAsTSF ==
    /\ up # << >>
    /\ up' = Tail(up)
    /\ LET m == Head(up) IN
       \/ /\ m.kind \in Items
          /\ hnd' = [hnd EXCEPT ![m.kind] = m.val]
          /\ UNCHANGED tsfAwait
       \/ /\ m.kind \notin Items
          /\ tsfAwait' = tsfAwait - 1
          /\ UNCHANGED hnd
    /\ UNCHANGED <<dev, down, thr, ret, pktStack, pktLlc, ops>>

\* An indication updates the handle's State/Config, or invokes a callback
LlcRx ==
    /\ up # << >>
    /\ up' = Tail(up)
    /\ LET m == Head(up) IN
       \/ /\ m.kind \in Items
          /\ hnd' = [hnd EXCEPT ![m.kind] = m.val]
          /\ UNCHANGED tsfAwait
       \/ /\ m.kind = "GetTSF"                     \* GetTSFInd
          /\ tsfAwait' = tsfAwait - 1
          /\ UNCHANGED hnd
       \/ /\ m.kind \in {"GPIO", "APIVersion"}      \* GPIOInd, the version reply
          /\ UNCHANGED <<hnd, tsfAwait>>
    /\ UNCHANGED <<dev, down, thr, ret, pktStack, pktLlc, ops>>

\* TxCnf callback with the TxEvent of a packet; the stack frees pPriv
TxCnf(p) ==
    /\ pktLlc[p] = "done"
    /\ pktLlc' = [pktLlc EXCEPT ![p] = "none"]
    /\ pktStack' = [pktStack EXCEPT ![p] = "free"]
    /\ UNCHANGED <<dev, hnd, down, up, thr, ret, tsfAwait, ops>>

-----------------------------------------------------------------------------

StackCall(t) ==
    \E h \in HandleArgs, ptr \in PtrArgs, radio \in RadioArgs :
        \/ MKx_Config(t, h, radio, ptr)
        \/ \E p \in Pkts : MKx_TxReq(t, h, p)
        \/ MKx_TxFlush(t, h)
        \/ MKx_GetTSFReq(t, h)
        \/ MKx_SetTSF(t, h)
        \/ MKx_GPIOReq(t, h)
        \/ MKx_VersionReq(t, h)
        \/ MKx_GetAuxADC(t, h)
        \/ MKx_GetStats(t, h, radio, ptr)
        \/ MKx_SetAuxADCCfg(t, h, ptr)
        \/ MKx_GetAuxADCCfg(t, h, ptr)
        \/ MKx_SetTemp(t, h, ptr)
        \/ MKx_GetTemp(t, h, ptr)
        \/ MKx_SetCalibration(t, h, ptr)
        \/ MKx_GetCalibration(t, h, ptr)

Next ==
    \/ \E t \in Threads : StackCall(t) \/ Getter_Copy(t)
    \/ \E p \in Pkts : StackAlloc(p) \/ DeviceTransmit(p) \/ TxCnf(p) \/ RxInd(p)
    \/ DeviceRx
    \/ \E i \in MeasuredItems : DeviceMeasure(i)
    \/ DeviceReceive
    \/ LlcRx
    \/ RxAlloc

(***************************************************************************)
(* Fairness: the device keeps processing what it was sent and keeps        *)
(* transmitting, and the LLC's receive path keeps delivering (USB/SPI      *)
(* completion handlers); the stack is not obliged to call anything.        *)
(***************************************************************************)
Fairness ==
    /\ WF_vars(DeviceRx)
    /\ WF_vars(LlcRx)
    /\ WF_vars(RxAlloc)
    /\ \A p \in Pkts : WF_vars(DeviceTransmit(p)) /\ WF_vars(TxCnf(p)) /\ WF_vars(RxInd(p))

Spec == Init /\ [][Next]_vars
FairSpec == Spec /\ Fairness

-----------------------------------------------------------------------------
(***************************************************************************)
(* The abstract view of the handle's State/Config (HandleMirror): the      *)
(* device's items, the handle's copy, and the indication path, which is   *)
(* the wire up.  Requests on the wire down, threads and buffers are hidden.*)
(***************************************************************************)
HM == INSTANCE HandleMirror WITH Kinds <- UpKinds, Vals <- ItemVals, chan <- up

-----------------------------------------------------------------------------
(* Properties *)

(***************************************************************************)
(* The wrappers, the LLC and the device together implement HandleMirror:   *)
(* every step of the device that changes an item echoes it up, every query *)
(* reply carries the device's current value, the LLC delivers the         *)
(* indications in order (fMKx_NotifInd and the State/Config updates,      *)
(* RxAlloc for received frames).  This is HM!Spec, with the stuttering    *)
(* case of a step written first.                                          *)
(***************************************************************************)
HandleMirrorRefined == HM!Init /\ [][UNCHANGED HM!avars \/ HM!Next]_HM!avars

(***************************************************************************)
(* The handle's State/Config is coherent with the device: once every       *)
(* request the wrappers sent has been processed and every indication has   *)
(* been delivered, each item of the handle equals the device's value.  It  *)
(* rests on the wire keeping the order of the requests and of the          *)
(* indications, and on the LLC applying every indication it receives.     *)
(***************************************************************************)
HandleCoherence ==
    (down = << >> /\ up = << >>) => hnd = dev

(***************************************************************************)
(* Ownership of a packet buffer is never shared: the stack counts a       *)
(* buffer as lent (MKx_TxReq returned MKXSTATUS_SUCCESS and TxCnf has not  *)
(* run, or RxAlloc gave it and RxInd has not run) exactly when the LLC or *)
(* the device holds it.  A violation is a double free (the stack frees    *)
(* what the LLC still transmits or fills) or a leak.                      *)
(***************************************************************************)
OwnershipConsistent ==
    \A p \in Pkts : (pktStack[p] = "lent") <=> (pktLlc[p] # "none")

(***************************************************************************)
(* The comments of MKx_GetTemp and MKx_GetCalibration say the request is   *)
(* sent "so that the MKx replies with internal measurements": the value a  *)
(* getter copies out of the handle should be at least as recent as the    *)
(* device's value when the getter was called (values grow with time).     *)
(***************************************************************************)
GetterFresh ==
    [][\A t \in Threads :
          (thr[t].pc = "copy" /\ thr'[t].pc = "idle")
          => hnd[GetterItem[thr[t].op]] >= thr[t].seen]_vars

(***************************************************************************)
(* A getter only reads: MKx_GetTemp calls its request a bogus MKX_IF_TEMP  *)
(* message sent "so that the MKx replies with internal measurements", so   *)
(* the device never holds a getter's fill pattern (TempPAAnt1 = TempPAAnt2 *)
(* = 0x8080) as a setting.  The device takes an MKxTemp as a setting when  *)
(* its SensorSource is MKX_TEMP_SOURCE_MANUAL.                             *)
(***************************************************************************)
GetterLeavesSettings ==
    \A i \in SetItems : dev[i] # FillBogus

(***************************************************************************)
(* Every MKx_GetTSFReq that returned success is answered: the number of    *)
(* calls awaiting the GetTSFInd callback eventually drops below any level  *)
(* it reaches.  A stack waiting on GetTSFInd after a success never hangs.  *)
(***************************************************************************)
AcceptedTSFReqAnswered ==
    \A n \in 1 .. MaxOps : (tsfAwait >= n) ~> (tsfAwait < n)

(***************************************************************************)
(* Every buffer lent to the LLC is eventually given back: a transmit      *)
(* buffer of MKx_TxReq through TxCnf, also when the queue is flushed with  *)
(* MKx_TxFlush, and a receive buffer of RxAlloc through RxInd.            *)
(***************************************************************************)
PacketEventuallyReturned ==
    \A p \in Pkts : (pktStack[p] = "lent") ~> (pktStack[p] = "free")

=============================================================================
