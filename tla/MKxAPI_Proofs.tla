--------------------------- MODULE MKxAPI_Proofs ---------------------------
(***************************************************************************)
(* Proofs about the host API model MKxAPI, for every value of the          *)
(* constants: type correctness and the ownership of transmit buffers.     *)
(*                                                                         *)
(* TypeOK is not inductive by itself: LlcRx decrements tsfAwait when a     *)
(* GetTSF answer is delivered, which keeps tsfAwait a natural only because *)
(* every GetTSF request or answer on the wire was counted in tsfAwait by   *)
(* the MKx_GetTSFReq call that sent it.  The inductive invariant IInv adds *)
(* that count.                                                             *)
(***************************************************************************)
EXTENDS MKxAPI, FiniteSetTheorems, TLAPS

\* The positions of the GetTSF messages in a sequence on the wire, and their number
TSFPos(s) == {i \in 1 .. Len(s) : s[i].kind = "GetTSF"}
TSFCount(s) == Cardinality(TSFPos(s))

\* A GetTSF message in s adds one to the count, any other message nothing
IsTSF(m) == IF m.kind = "GetTSF" THEN 1 ELSE 0

-----------------------------------------------------------------------------
(* Lemmas on the number of GetTSF messages of a sequence *)

\* The count is a natural number
LEMMA TSFCountType ==
    ASSUME NEW S, NEW s \in Seq(S)
    PROVE  /\ IsFiniteSet(TSFPos(s))
           /\ TSFCount(s) \in Nat
<1>1. IsFiniteSet(1 .. Len(s))
    BY FS_Interval
<1>2. TSFPos(s) \in SUBSET (1 .. Len(s))
    BY DEF TSFPos
<1>3. IsFiniteSet(TSFPos(s))
    BY <1>1, <1>2, FS_Subset
<1>. QED
    BY <1>3, FS_CardinalityType DEF TSFCount

\* Sending m at the end of s adds IsTSF(m) to the count
LEMMA TSFCountAppend ==
    ASSUME NEW S, NEW s \in Seq(S), NEW m \in S
    PROVE  TSFCount(Append(s, m)) = TSFCount(s) + IsTSF(m)
<1>1. IsFiniteSet(TSFPos(s)) /\ TSFCount(s) \in Nat
    BY TSFCountType
<1>2. CASE m.kind = "GetTSF"
    <2>1. TSFPos(Append(s, m)) = TSFPos(s) \cup {Len(s) + 1}
        BY <1>2 DEF TSFPos
    <2>2. Len(s) + 1 \notin TSFPos(s)
        BY DEF TSFPos
    <2>. QED
        BY <1>1, <1>2, <2>1, <2>2, FS_AddElement DEF TSFCount, IsTSF
<1>3. CASE m.kind # "GetTSF"
    <2>1. TSFPos(Append(s, m)) = TSFPos(s)
        BY <1>3 DEF TSFPos
    <2>. QED
        BY <1>1, <1>3, <2>1 DEF TSFCount, IsTSF
<1>. QED
    BY <1>2, <1>3

\* Taking the head off a non-empty s removes IsTSF(Head(s)) from the count
LEMMA TSFCountTail ==
    ASSUME NEW S, NEW s \in Seq(S), s # << >>
    PROVE  TSFCount(s) = TSFCount(Tail(s)) + IsTSF(Head(s))
<1>. DEFINE T == TSFPos(Tail(s))
            R == TSFPos(s) \ {1}
<1>0. Tail(s) \in Seq(S)
    OBVIOUS
<1>1. IsFiniteSet(TSFPos(s)) /\ IsFiniteSet(T)
    BY <1>0, TSFCountType
<1>2. ExistsBijection(T, R)
    <2>. DEFINE f == [i \in T |-> i + 1]
    <2>1. f \in Bijection(T, R)
        <3>1. \A i \in T : f[i] \in R
            BY DEF TSFPos
        <3>2. \A j \in R : \E i \in T : f[i] = j
            <4>. SUFFICES ASSUME NEW j \in R PROVE \E i \in T : f[i] = j
                OBVIOUS
            <4>1. j - 1 \in T /\ f[j - 1] = j
                BY DEF TSFPos
            <4>. QED
                BY <4>1
        <3>3. \A i, k \in T : f[i] = f[k] => i = k
            BY DEF TSFPos
        <3>. QED
            BY <3>1, <3>2, <3>3 DEF Bijection, Injection, Surjection, IsInjective
    <2>. QED
        BY <2>1 DEF ExistsBijection
<1>3. Cardinality(R) = Cardinality(T)
    BY <1>1, <1>2, FS_Bijection
<1>4. Cardinality(TSFPos(s)) = Cardinality(R) + IsTSF(Head(s))
    <2>1. (1 \in TSFPos(s)) <=> Head(s).kind = "GetTSF"
        BY DEF TSFPos
    <2>2. IsFiniteSet(R) /\ Cardinality(R) \in Nat
        BY <1>1, FS_RemoveElement, FS_CardinalityType
    <2>3. CASE 1 \in TSFPos(s)
        <3>1. TSFPos(s) = R \cup {1} /\ 1 \notin R
            BY <2>3
        <3>. QED
            BY <2>1, <2>2, <2>3, <3>1, FS_AddElement DEF IsTSF
    <2>4. CASE 1 \notin TSFPos(s)
        <3>1. TSFPos(s) = R
            BY <2>4
        <3>. QED
            BY <2>1, <2>2, <2>4, <3>1 DEF IsTSF
    <2>. QED
        BY <2>3, <2>4
<1>. QED
    BY <1>3, <1>4 DEF TSFCount

-----------------------------------------------------------------------------
(* The inductive invariant *)

\* The GetTSF requests and answers on the wire are all counted in tsfAwait
TSFCounted == tsfAwait >= TSFCount(down) + TSFCount(up)

IInv == TypeOK /\ OwnershipConsistent /\ TSFCounted

\* Facts every step uses: the count of a wire that a step appends to or takes from
LEMMA WireCounts ==
    ASSUME TypeOK
    PROVE  /\ TSFCount(down) \in Nat /\ TSFCount(up) \in Nat
           /\ \A m \in DownMsgs : TSFCount(Append(down, m)) = TSFCount(down) + IsTSF(m)
           /\ \A m \in UpMsgs : TSFCount(Append(up, m)) = TSFCount(up) + IsTSF(m)
           /\ down # << >> => TSFCount(down) = TSFCount(Tail(down)) + IsTSF(Head(down))
           /\ up # << >> => TSFCount(up) = TSFCount(Tail(up)) + IsTSF(Head(up))
BY TSFCountType, TSFCountAppend, TSFCountTail DEF TypeOK

\* The initial states satisfy the invariant
LEMMA InitIInv == Init => IInv
<1>. SUFFICES ASSUME Init PROVE IInv
    OBVIOUS
<1>1. TypeOK
    BY BoundsAssumption DEF Init, TypeOK, Idle, ThreadRec, ItemVals, Vals, Ops, StatusCodes
<1>2. OwnershipConsistent
    BY DEF Init, OwnershipConsistent
<1>3. TSFCount(<< >>) = 0
    BY FS_EmptySet DEF TSFCount, TSFPos
<1>. QED
    BY <1>1, <1>2, <1>3 DEF Init, IInv, TSFCounted

\* A step in which a wrapper returns code c and changes nothing else
RetOnly(t, c) ==
    /\ ret' = [ret EXCEPT ![t] = c]
    /\ UNCHANGED <<dev, hnd, down, up, thr, pktStack, pktLlc, tsfAwait, ops>>

LEMMA RetOnlyIInv ==
    ASSUME IInv, NEW t \in Threads, NEW c \in StatusCodes, RetOnly(t, c)
    PROVE  IInv'
BY DEF IInv, RetOnly, TypeOK, OwnershipConsistent, TSFCounted

\* A step in which a wrapper sends m, other than a GetTSF request, and returns success
SendOnly(t, m) ==
    /\ down' = Append(down, m)
    /\ ops' = ops + 1
    /\ ret' = [ret EXCEPT ![t] = MKXSTATUS_SUCCESS]
    /\ UNCHANGED <<dev, hnd, up, thr, pktStack, pktLlc, tsfAwait>>

LEMMA SendOnlyIInv ==
    ASSUME IInv, NEW t \in Threads, NEW m \in DownMsgs, m.kind # "GetTSF",
           ops < MaxOps, SendOnly(t, m)
    PROVE  IInv'
<1>. USE DEF IInv, SendOnly
<1>1. TypeOK'
    BY BoundsAssumption DEF TypeOK, StatusCodes
<1>2. OwnershipConsistent'
    BY DEF OwnershipConsistent
<1>3. TSFCounted'
    BY WireCounts DEF TSFCounted, IsTSF
<1>. QED
    BY <1>1, <1>2, <1>3

\* A wrapper that only dispatches one request other than GetTSF
LEMMA DispatchIInv ==
    ASSUME IInv, NEW t \in Threads, NEW op, NEW h, NEW paramOk,
           NEW m, ops < MaxOps => m \in DownMsgs, m.kind # "GetTSF",
           Dispatch(t, op, h, paramOk, m)
    PROVE  IInv'
<1>1. CASE CanSend /\ Send(m) /\ Returned(t, MKXSTATUS_SUCCESS)
    <2>1. SendOnly(t, m) /\ ops < MaxOps
        BY <1>1 DEF Dispatch, Send, Returned, SendOnly, CanSend
    <2>. QED
        BY <2>1, SendOnlyIInv
<1>2. CASE ~(CanSend /\ Send(m) /\ Returned(t, MKXSTATUS_SUCCESS))
    <2>1. \E c \in StatusCodes : RetOnly(t, c)
        BY <1>2 DEF Dispatch, Returned, RetOnly, StatusCodes
    <2>. QED
        BY <2>1, RetOnlyIInv
<1>. QED
    BY <1>1, <1>2

\* The wrappers that only dispatch a request
LEMMA DispatchersIInv ==
    ASSUME IInv, NEW t \in Threads, NEW h \in HandleArgs, NEW ptr \in PtrArgs,
           NEW radio \in RadioArgs,
           \/ MKx_Config(t, h, radio, ptr)
           \/ MKx_SetTSF(t, h) \/ MKx_GPIOReq(t, h) \/ MKx_VersionReq(t, h)
           \/ MKx_TxFlush(t, h)
           \/ MKx_SetAuxADCCfg(t, h, ptr) \/ MKx_SetTemp(t, h, ptr)
           \/ MKx_SetCalibration(t, h, ptr)
    PROVE  IInv'
<1>1. ops < MaxOps => Fresh \in Vals
    BY BoundsAssumption DEF IInv, TypeOK, Fresh, ItemVals, Vals
<1>2. CASE MKx_Config(t, h, radio, ptr)
    <2>. DEFINE P == radio <= MKX_RADIO_MAX /\ ptr = "ok"
                m == [kind |-> RadioItem[IF radio <= MKX_RADIO_MAX THEN radio ELSE 0],
                      val |-> Fresh]
    <2>1. Dispatch(t, "Config", h, P, m)
        BY <1>2 DEF MKx_Config
    <2>2. ops < MaxOps => m \in DownMsgs
        BY <1>1 DEF ItemVals, Vals, RadioArgs, RadioItem, MKX_RADIO_MAX, DownMsgs, DownKinds, SetItems
    <2>3. m.kind # "GetTSF"
        BY DEF RadioArgs, RadioItem, MKX_RADIO_MAX
    <2>. QED
        BY <2>1, <2>2, <2>3, DispatchIInv
<1>3. /\ [kind |-> "SetTSF", val |-> 0] \in DownMsgs
      /\ [kind |-> "GPIO", val |-> 0] \in DownMsgs
      /\ [kind |-> "APIVersion", val |-> 0] \in DownMsgs
      /\ [kind |-> "FlushQ", val |-> 0] \in DownMsgs
    BY BoundsAssumption DEF DownMsgs, DownKinds, ItemVals, Vals
<1>4. CASE MKx_SetTSF(t, h)
    <2>. DEFINE m == [kind |-> "SetTSF", val |-> 0]
    <2>1. Dispatch(t, "SetTSF", h, TRUE, m)
        BY <1>4 DEF MKx_SetTSF
    <2>2. m \in DownMsgs /\ m.kind # "GetTSF"
        BY <1>3
    <2>. QED
        BY <2>1, <2>2, DispatchIInv
<1>5. CASE MKx_GPIOReq(t, h)
    <2>. DEFINE m == [kind |-> "GPIO", val |-> 0]
    <2>1. Dispatch(t, "GPIOReq", h, TRUE, m)
        BY <1>5 DEF MKx_GPIOReq
    <2>2. m \in DownMsgs /\ m.kind # "GetTSF"
        BY <1>3
    <2>. QED
        BY <2>1, <2>2, DispatchIInv
<1>6. CASE MKx_VersionReq(t, h)
    <2>. DEFINE m == [kind |-> "APIVersion", val |-> 0]
    <2>1. Dispatch(t, "VersionReq", h, TRUE, m)
        BY <1>6 DEF MKx_VersionReq
    <2>2. m \in DownMsgs /\ m.kind # "GetTSF"
        BY <1>3
    <2>. QED
        BY <2>1, <2>2, DispatchIInv
<1>7. CASE MKx_TxFlush(t, h)
    <2>. DEFINE m == [kind |-> "FlushQ", val |-> 0]
    <2>1. Dispatch(t, "TxFlush", h, TRUE, m)
        BY <1>7 DEF MKx_TxFlush
    <2>2. m \in DownMsgs /\ m.kind # "GetTSF"
        BY <1>3
    <2>. QED
        BY <2>1, <2>2, DispatchIInv
<1>8. \A k \in {"AuxADCCfg", "Temp", "Calib"} :
        ops < MaxOps => [kind |-> k, val |-> Fresh] \in DownMsgs
    BY <1>1 DEF ItemVals, Vals, DownMsgs, DownKinds, SetItems
<1>9. CASE MKx_SetAuxADCCfg(t, h, ptr)
    BY <1>8, <1>9, DispatchIInv DEF MKx_SetAuxADCCfg
<1>10. CASE MKx_SetTemp(t, h, ptr)
    BY <1>8, <1>10, DispatchIInv DEF MKx_SetTemp
<1>11. CASE MKx_SetCalibration(t, h, ptr)
    BY <1>8, <1>11, DispatchIInv DEF MKx_SetCalibration
<1>. QED
    BY <1>2, <1>4, <1>5, <1>6, <1>7, <1>9, <1>10, <1>11

\* MKx_GetStats and MKx_GetAuxADC only return a code
LEMMA ReadersIInv ==
    ASSUME IInv, NEW t \in Threads, NEW h \in HandleArgs, NEW ptr \in PtrArgs,
           NEW radio \in RadioArgs,
           MKx_GetStats(t, h, radio, ptr) \/ MKx_GetAuxADC(t, h)
    PROVE  IInv'
<1>1. \E c \in StatusCodes : RetOnly(t, c)
    BY DEF MKx_GetStats, MKx_GetAuxADC, Returned, RetOnly, StatusCodes
<1>. QED
    BY <1>1, RetOnlyIInv

\* MKx_GetTSFReq counts every success in tsfAwait, sent or not
LEMMA GetTSFReqIInv ==
    ASSUME IInv, NEW t \in Threads, NEW h \in HandleArgs, MKx_GetTSFReq(t, h)
    PROVE  IInv'
<1>. DEFINE m == [kind |-> "GetTSF", val |-> 0]
<1>1. m \in DownMsgs /\ IsTSF(m) = 1
    BY BoundsAssumption DEF DownMsgs, DownKinds, ItemVals, Vals, IsTSF
<1>2. TypeOK /\ TSFCounted /\ OwnershipConsistent
    BY DEF IInv
<1>3. CASE ~HandleValid(h) /\ Rev = "r16" /\ ops < MaxOps
           /\ Returned(t, MKXSTATUS_SUCCESS) /\ tsfAwait' = tsfAwait + 1
           /\ ops' = ops + 1 /\ UNCHANGED down
           /\ UNCHANGED <<dev, hnd, up, pktStack, pktLlc>>
    <2>1. TypeOK'
        BY <1>2, <1>3, BoundsAssumption DEF TypeOK, Returned, StatusCodes
    <2>2. TSFCounted'
        <3>1. TSFCount(down') = TSFCount(down) /\ TSFCount(up') = TSFCount(up)
            BY <1>3
        <3>. QED
            BY <1>2, <1>3, <3>1, WireCounts DEF TSFCounted, TypeOK
    <2>. QED
        BY <1>2, <1>3, <2>1, <2>2 DEF IInv, OwnershipConsistent
<1>4. CASE HandleValid(h) /\ CanSend /\ Send(m)
           /\ Returned(t, MKXSTATUS_SUCCESS) /\ tsfAwait' = tsfAwait + 1
           /\ UNCHANGED <<dev, hnd, up, pktStack, pktLlc>>
    <2>1. TypeOK'
        BY <1>1, <1>2, <1>4, BoundsAssumption DEF TypeOK, Returned, Send, CanSend, StatusCodes
    <2>2. TSFCounted'
        <3>1. TSFCount(down') = TSFCount(down) + 1 /\ TSFCount(up') = TSFCount(up)
            BY <1>1, <1>2, <1>4, WireCounts DEF Send
        <3>. QED
            BY <1>2, <1>4, <3>1, WireCounts DEF TSFCounted, TypeOK
    <2>. QED
        BY <1>2, <1>4, <2>1, <2>2 DEF IInv, OwnershipConsistent
<1>5. CASE \E c \in StatusCodes : RetOnly(t, c)
    BY <1>5, RetOnlyIInv
<1>. QED
    BY <1>3, <1>4, <1>5 DEF MKx_GetTSFReq, Returned, RetOnly, StatusCodes

\* MKx_TxReq lends the buffer exactly when the LLC queues it
LEMMA TxReqIInv ==
    ASSUME IInv, NEW t \in Threads, NEW h \in HandleArgs, NEW p \in Pkts,
           MKx_TxReq(t, h, p)
    PROVE  IInv'
<1>. USE DEF IInv
<1>1. TypeOK'
    <2>1. ret' \in [Threads -> StatusCodes] /\ UNCHANGED <<dev, hnd, down, up, thr, tsfAwait>>
        BY DEF MKx_TxReq, Returned, TypeOK, StatusCodes
    <2>2. pktStack' \in [Pkts -> {"free", "held", "lent"}]
        BY DEF MKx_TxReq, TypeOK
    <2>3. pktLlc' \in [Pkts -> {"none", "queued", "done", "rx"}]
        BY DEF MKx_TxReq, TypeOK
    <2>4. ops' \in 0 .. MaxOps
        BY BoundsAssumption DEF MKx_TxReq, TypeOK
    <2>. QED
        BY <2>1, <2>2, <2>3, <2>4 DEF TypeOK
<1>2. OwnershipConsistent'
    BY DEF MKx_TxReq, OwnershipConsistent, TypeOK
<1>3. TSFCounted'
    <2>1. TSFCount(down') = TSFCount(down) /\ TSFCount(up') = TSFCount(up)
        BY DEF MKx_TxReq
    <2>. QED
        BY <2>1 DEF MKx_TxReq, TSFCounted
<1>. QED
    BY <1>1, <1>2, <1>3

\* The two steps of MKx_GetTemp, MKx_GetCalibration and MKx_GetAuxADCCfg
LEMMA GetterIInv ==
    ASSUME IInv, NEW t \in Threads, NEW h \in HandleArgs, NEW ptr \in PtrArgs,
           \/ \E op \in DOMAIN GetterItem : Getter_Send(t, op, h, ptr)
           \/ Getter_Copy(t)
    PROVE  IInv'
<1>. USE DEF IInv
<1>1. CASE \E op \in DOMAIN GetterItem : Getter_Send(t, op, h, ptr)
    <2>. PICK op \in DOMAIN GetterItem : Getter_Send(t, op, h, ptr)
        BY <1>1
    <2>. DEFINE item == GetterItem[op]
                m == [kind |-> item, val |-> GetterFill[op]]
    <2>1. item \in SetItems /\ m \in DownMsgs /\ IsTSF(m) = 0
        BY DEF ItemVals, Vals, GetterItem, GetterFill, Fills, SetItems, DownMsgs, DownKinds, IsTSF
    <2>2. CASE thr' = thr
        <3>1. thr[t].pc = "idle" /\ thr \in [Threads -> ThreadRec]
            BY DEF Getter_Send, TypeOK
        <3>2. ~(thr' = [thr EXCEPT ![t] = [pc |-> "copy", op |-> op, seen |-> dev[item]]])
            BY <2>2, <3>1
        <3>3. \E c \in StatusCodes : RetOnly(t, c)
            BY <3>2 DEF Getter_Send, Returned, RetOnly, StatusCodes
        <3>. QED
            BY <3>3, RetOnlyIInv
    <2>3. CASE thr' # thr
        <3>1. /\ CanSend
              /\ thr' = [thr EXCEPT ![t] = [pc |-> "copy", op |-> op, seen |-> dev[item]]]
              /\ \/ Send(m)
                 \/ UNCHANGED <<down, ops>>
              /\ UNCHANGED <<dev, hnd, up, ret, pktStack, pktLlc, tsfAwait>>
            BY <2>3 DEF Getter_Send, Returned
        <3>2. [pc |-> "copy", op |-> op, seen |-> dev[item]] \in ThreadRec
            BY <2>1 DEF ItemVals, Vals, TypeOK, ThreadRec, Ops, GetterItem, Items
        <3>3. /\ down' \in Seq(DownMsgs) /\ ops' \in 0 .. MaxOps
              /\ TSFCount(down') = TSFCount(down)
            <4>1. CASE Send(m)
                BY <2>1, <3>1, <4>1, WireCounts, BoundsAssumption DEF Send, CanSend, TypeOK
            <4>2. CASE UNCHANGED <<down, ops>>
                BY <4>2 DEF TypeOK
            <4>. QED
                BY <3>1, <4>1, <4>2
        <3>4. TypeOK'
            BY <3>1, <3>2, <3>3 DEF TypeOK
        <3>5. TSFCounted'
            <4>1. TSFCount(up') = TSFCount(up)
                BY <3>1
            <4>. QED
                BY <3>1, <3>3, <4>1 DEF TSFCounted
        <3>. QED
            BY <3>1, <3>4, <3>5 DEF OwnershipConsistent
    <2>. QED
        BY <2>2, <2>3
<1>2. CASE Getter_Copy(t)
    <2>1. TypeOK'
        BY <1>2, BoundsAssumption DEF Getter_Copy, TypeOK, Idle, ThreadRec, Ops, ItemVals, Vals,
           StatusCodes
    <2>2. TSFCount(down') = TSFCount(down) /\ TSFCount(up') = TSFCount(up)
        BY <1>2 DEF Getter_Copy
    <2>. QED
        BY <1>2, <2>1, <2>2 DEF Getter_Copy, OwnershipConsistent, TSFCounted
<1>. QED
    BY <1>1, <1>2

\* The stack takes a free buffer
LEMMA StackAllocIInv ==
    ASSUME IInv, NEW p \in Pkts, StackAlloc(p)
    PROVE  IInv'
<1>. USE DEF IInv
<1>1. TSFCount(down') = TSFCount(down) /\ TSFCount(up') = TSFCount(up)
    BY DEF StackAlloc
<1>. QED
    BY <1>1 DEF StackAlloc, TypeOK, OwnershipConsistent, TSFCounted

\* The device transmits a queued buffer, and TxCnf returns a done one
LEMMA TxEventIInv ==
    ASSUME IInv, NEW p \in Pkts, DeviceTransmit(p) \/ TxCnf(p) \/ RxInd(p)
    PROVE  IInv'
<1>. USE DEF IInv
<1>1. TSFCount(down') = TSFCount(down) /\ TSFCount(up') = TSFCount(up)
    BY DEF DeviceTransmit, TxCnf, RxInd
<1>. QED
    BY <1>1 DEF DeviceTransmit, TxCnf, RxInd, TypeOK, OwnershipConsistent, TSFCounted

\* The device answers the request at the head of the wire
LEMMA DeviceRxIInv ==
    ASSUME IInv, DeviceRx
    PROVE  IInv'
<1>. USE DEF IInv
<1>. DEFINE m == Head(down)
<1>1. down # << >> /\ m \in DownMsgs /\ down' = Tail(down) /\ Tail(down) \in Seq(DownMsgs)
    BY DEF DeviceRx, TypeOK
<1>2. TSFCount(down) = TSFCount(Tail(down)) + IsTSF(m) /\ TSFCount(up) \in Nat
      /\ TSFCount(Tail(down)) \in Nat
    BY <1>1, WireCounts, TSFCountType
<1>3. UNCHANGED <<hnd, thr, ret, pktStack, tsfAwait, ops>>
    BY DEF DeviceRx
<1>4. \A r \in UpMsgs : TSFCount(Append(up, r)) = TSFCount(up) + IsTSF(r)
    BY WireCounts
<1>5. CASE /\ m.kind \in SetItems /\ m.val \in ItemVals
           /\ dev' = [dev EXCEPT ![m.kind] = m.val]
           /\ up' = Append(up, [kind |-> m.kind, val |-> m.val])
           /\ UNCHANGED pktLlc
    <2>. DEFINE r == [kind |-> m.kind, val |-> m.val]
    <2>1. r \in UpMsgs /\ IsTSF(r) = 0 /\ IsTSF(m) = 0
        BY <1>5 DEF ItemVals, Vals, UpMsgs, UpKinds, Items, SetItems, IsTSF
    <2>2. TypeOK'
        BY <1>1, <1>3, <1>5, <2>1 DEF TypeOK, Items, SetItems
    <2>. QED
        BY <1>1, <1>2, <1>3, <1>4, <1>5, <2>1, <2>2 DEF OwnershipConsistent, TSFCounted
<1>6. CASE /\ m.kind \in SetItems /\ m.val \in Fills
           /\ up' = Append(up, [kind |-> m.kind, val |-> dev[m.kind]])
           /\ UNCHANGED <<dev, pktLlc>>
    <2>. DEFINE r == [kind |-> m.kind, val |-> dev[m.kind]]
    <2>1. r \in UpMsgs /\ IsTSF(r) = 0 /\ IsTSF(m) = 0
        BY <1>6 DEF ItemVals, Vals, TypeOK, UpMsgs, UpKinds, Items, SetItems, IsTSF
    <2>2. TypeOK'
        BY <1>1, <1>3, <1>6, <2>1 DEF TypeOK
    <2>. QED
        BY <1>1, <1>2, <1>3, <1>4, <1>6, <2>1, <2>2 DEF OwnershipConsistent, TSFCounted
<1>7. CASE /\ m.kind \in {"GetTSF", "GPIO", "APIVersion"}
           /\ up' = Append(up, [kind |-> m.kind, val |-> 0])
           /\ UNCHANGED <<dev, pktLlc>>
    <2>. DEFINE r == [kind |-> m.kind, val |-> 0]
    <2>1. up' = Append(up, r) /\ UNCHANGED <<dev, pktLlc>>
        BY <1>7
    <2>2. r \in UpMsgs /\ IsTSF(r) = IsTSF(m)
        BY <1>7, BoundsAssumption DEF UpMsgs, UpKinds, ItemVals, Vals, IsTSF
    <2>3. TypeOK'
        BY <1>1, <1>3, <2>1, <2>2 DEF TypeOK
    <2>4. TSFCount(up') = TSFCount(up) + IsTSF(m) /\ TSFCount(down') = TSFCount(Tail(down))
        BY <1>1, <1>4, <2>1, <2>2
    <2>5. TSFCounted'
        BY <1>2, <1>3, <2>4 DEF TSFCounted, TypeOK, IsTSF
    <2>. QED
        BY <1>3, <2>1, <2>3, <2>5 DEF OwnershipConsistent
<1>8. CASE m.kind = "SetTSF" /\ UNCHANGED <<dev, up, pktLlc>>
    <2>1. UNCHANGED <<dev, up, pktLlc>> /\ IsTSF(m) = 0
        BY <1>8 DEF IsTSF
    <2>. QED
        BY <1>1, <1>2, <1>3, <2>1 DEF TypeOK, OwnershipConsistent, TSFCounted
<1>9. CASE /\ m.kind = "FlushQ"
           /\ pktLlc' = [q \in Pkts |-> IF pktLlc[q] = "queued" THEN "done" ELSE pktLlc[q]]
           /\ UNCHANGED <<dev, up>>
    <2>1. /\ pktLlc' = [q \in Pkts |-> IF pktLlc[q] = "queued" THEN "done" ELSE pktLlc[q]]
          /\ UNCHANGED <<dev, up>> /\ IsTSF(m) = 0
        BY <1>9 DEF IsTSF
    <2>. QED
        BY <1>1, <1>2, <1>3, <2>1 DEF TypeOK, OwnershipConsistent, TSFCounted
<1>. QED
    BY <1>5, <1>6, <1>7, <1>8, <1>9 DEF DeviceRx

\* The device measures a new value and indicates it
LEMMA DeviceMeasureIInv ==
    ASSUME IInv, NEW i \in MeasuredItems, DeviceMeasure(i)
    PROVE  IInv'
<1>. USE DEF IInv
<1>. DEFINE r == [kind |-> i, val |-> Fresh]
<1>1. Fresh \in Vals /\ r \in UpMsgs /\ IsTSF(r) = 0
    BY BoundsAssumption DEF DeviceMeasure, TypeOK, Fresh, ItemVals, Vals, UpMsgs, UpKinds,
       Items, MeasuredItems, IsTSF
<1>2. TSFCount(up') = TSFCount(up) /\ TSFCount(down') = TSFCount(down)
    BY <1>1, WireCounts DEF DeviceMeasure
<1>3. TypeOK'
    BY <1>1, BoundsAssumption DEF DeviceMeasure, TypeOK, Items, ItemVals
<1>. QED
    BY <1>2, <1>3 DEF DeviceMeasure, OwnershipConsistent, TSFCounted

\* The device sends a received frame up
LEMMA DeviceReceiveIInv ==
    ASSUME IInv, DeviceReceive
    PROVE  IInv'
<1>. USE DEF IInv
<1>. DEFINE r == [kind |-> "RxPkt", val |-> 0]
<1>1. r \in UpMsgs /\ IsTSF(r) = 0
    BY BoundsAssumption DEF UpMsgs, UpKinds, ItemVals, Vals, IsTSF
<1>2. TSFCount(up') = TSFCount(up) /\ TSFCount(down') = TSFCount(down)
    BY <1>1, WireCounts DEF DeviceReceive
<1>3. TypeOK'
    BY <1>1, BoundsAssumption DEF DeviceReceive, TypeOK
<1>. QED
    BY <1>2, <1>3 DEF DeviceReceive, OwnershipConsistent, TSFCounted

\* The LLC takes a received frame off the wire into a buffer of RxAlloc, or drops it
LEMMA RxAllocIInv ==
    ASSUME IInv, RxAlloc
    PROVE  IInv'
<1>. USE DEF IInv
<1>. DEFINE m == Head(up)
<1>1. up # << >> /\ m \in UpMsgs /\ up' = Tail(up) /\ Tail(up) \in Seq(UpMsgs)
      /\ m.kind = "RxPkt"
    BY DEF RxAlloc, TypeOK
<1>2. IsTSF(m) = 0
    BY <1>1 DEF IsTSF
<1>4. UNCHANGED <<dev, hnd, down, thr, ret, tsfAwait, ops>>
    BY DEF RxAlloc
<1>3. TSFCount(up') = TSFCount(up) /\ TSFCount(down') = TSFCount(down)
    <2>0. TSFCount(up) = TSFCount(Tail(up)) + IsTSF(m) /\ TSFCount(Tail(up)) \in Nat
        BY <1>1, WireCounts, TSFCountType
    <2>1. TSFCount(up) = TSFCount(Tail(up)) /\ TSFCount(Tail(up)) \in Nat
        BY <2>0, <1>2
    <2>2. TSFCount(up') = TSFCount(Tail(up))
        BY <1>1
    <2>3. TSFCount(down') = TSFCount(down)
        BY <1>4
    <2>. QED
        BY <2>1, <2>2, <2>3
<1>5. CASE \E p \in Pkts :
             /\ pktStack[p] = "free"
             /\ pktStack' = [pktStack EXCEPT ![p] = "lent"]
             /\ pktLlc' = [pktLlc EXCEPT ![p] = "rx"]
    <2>. PICK p \in Pkts : /\ pktStack[p] = "free"
                          /\ pktStack' = [pktStack EXCEPT ![p] = "lent"]
                          /\ pktLlc' = [pktLlc EXCEPT ![p] = "rx"]
        BY <1>5
    <2>. QED
        BY <1>1, <1>3, <1>4 DEF TypeOK, OwnershipConsistent, TSFCounted
<1>6. CASE UNCHANGED <<pktStack, pktLlc>>
    BY <1>1, <1>3, <1>4, <1>6 DEF TypeOK, OwnershipConsistent, TSFCounted
<1>. QED
    BY <1>5, <1>6 DEF RxAlloc

\* The LLC delivers the indication at the head of the wire
LEMMA LlcRxIInv ==
    ASSUME IInv, LlcRx
    PROVE  IInv'
<1>. USE DEF IInv
<1>. DEFINE m == Head(up)
<1>1. up # << >> /\ m \in UpMsgs /\ up' = Tail(up) /\ Tail(up) \in Seq(UpMsgs)
    BY DEF LlcRx, TypeOK
<1>2. /\ TSFCount(up) = TSFCount(Tail(up)) + IsTSF(m)
      /\ TSFCount(down) \in Nat /\ TSFCount(Tail(up)) \in Nat
    BY <1>1, WireCounts, TSFCountType
<1>3. UNCHANGED <<dev, down, thr, ret, pktStack, pktLlc, ops>>
    BY DEF LlcRx
<1>4. CASE m.kind \in Items
    <2>1. hnd' = [hnd EXCEPT ![m.kind] = m.val] /\ UNCHANGED tsfAwait /\ IsTSF(m) = 0
        BY <1>4 DEF LlcRx, Items, SetItems, MeasuredItems, IsTSF
    <2>2. TypeOK'
        BY <1>1, <1>3, <2>1 DEF ItemVals, Vals, TypeOK, UpMsgs
    <2>. QED
        BY <1>1, <1>2, <1>3, <2>1, <2>2 DEF OwnershipConsistent, TSFCounted, TypeOK
<1>5. CASE m.kind = "GetTSF"
    <2>1. tsfAwait' = tsfAwait - 1 /\ UNCHANGED hnd /\ IsTSF(m) = 1
        BY <1>5 DEF LlcRx, IsTSF, Items, SetItems, MeasuredItems
    <2>2. tsfAwait' \in Nat /\ TSFCounted'
        BY <1>1, <1>2, <1>3, <2>1 DEF TSFCounted, TypeOK
    <2>. QED
        BY <1>1, <1>3, <2>1, <2>2 DEF TypeOK, OwnershipConsistent
<1>6. CASE m.kind \in {"GPIO", "APIVersion"}
    <2>1. UNCHANGED <<hnd, tsfAwait>> /\ IsTSF(m) = 0
        BY <1>6 DEF LlcRx, IsTSF, Items, SetItems, MeasuredItems
    <2>. QED
        BY <1>1, <1>2, <1>3, <2>1 DEF TypeOK, OwnershipConsistent, TSFCounted
<1>7. m.kind \in Items \/ m.kind = "GetTSF" \/ m.kind \in {"GPIO", "APIVersion"}
    BY DEF LlcRx
<1>. QED
    BY <1>4, <1>5, <1>6, <1>7

-----------------------------------------------------------------------------
(* The invariant is inductive, and the theorems *)

\* Every step of Next, and a stuttering step, preserves IInv
LEMMA NextIInv == IInv /\ [Next]_vars => IInv'
<1>. SUFFICES ASSUME IInv, [Next]_vars PROVE IInv'
    OBVIOUS
<1>1. CASE \E t \in Threads : StackCall(t)
    <2>. PICK t \in Threads : StackCall(t)
        BY <1>1
    <2>. PICK h \in HandleArgs, ptr \in PtrArgs, radio \in RadioArgs :
              \/ MKx_Config(t, h, radio, ptr)
              \/ \E p \in Pkts : MKx_TxReq(t, h, p)
              \/ MKx_TxFlush(t, h)
              \/ MKx_GetTSFReq(t, h)
              \/ MKx_SetTSF(t, h)
              \/ MKx_GPIOReq(t, h)
              \/ MKx_VersionReq(t, h)
              \/ MKx_GetAuxADC(t, h)
              \/ MKx_GetStats(t, h, radio, ptr)
              \/ MKx_SetAuxADCCfg(t, h, ptr)
              \/ MKx_GetAuxADCCfg(t, h, ptr)
              \/ MKx_SetTemp(t, h, ptr)
              \/ MKx_GetTemp(t, h, ptr)
              \/ MKx_SetCalibration(t, h, ptr)
              \/ MKx_GetCalibration(t, h, ptr)
        BY DEF StackCall
    <2>1. CASE \E p \in Pkts : MKx_TxReq(t, h, p)
        BY <2>1, TxReqIInv
    <2>2. CASE MKx_GetTSFReq(t, h)
        BY <2>2, GetTSFReqIInv
    <2>3. CASE MKx_GetAuxADC(t, h) \/ MKx_GetStats(t, h, radio, ptr)
        BY <2>3, ReadersIInv
    <2>4. CASE MKx_GetAuxADCCfg(t, h, ptr) \/ MKx_GetTemp(t, h, ptr)
               \/ MKx_GetCalibration(t, h, ptr)
        <3>1. \E op \in DOMAIN GetterItem : Getter_Send(t, op, h, ptr)
            BY <2>4 DEF MKx_GetAuxADCCfg, MKx_GetTemp, MKx_GetCalibration, GetterItem
        <3>. QED
            BY <3>1, GetterIInv
    <2>5. CASE \/ MKx_Config(t, h, radio, ptr)
               \/ MKx_SetTSF(t, h) \/ MKx_GPIOReq(t, h) \/ MKx_VersionReq(t, h)
               \/ MKx_TxFlush(t, h)
               \/ MKx_SetAuxADCCfg(t, h, ptr) \/ MKx_SetTemp(t, h, ptr)
               \/ MKx_SetCalibration(t, h, ptr)
        BY <2>5, DispatchersIInv
    <2>. QED
        BY <2>1, <2>2, <2>3, <2>4, <2>5
<1>2. CASE \E t \in Threads : Getter_Copy(t)
    <2>. PICK t \in Threads : Getter_Copy(t)
        BY <1>2
    <2>. QED
        BY GetterIInv, "ok" \in PtrArgs, "ok" \in HandleArgs DEF PtrArgs, HandleArgs
<1>3. CASE \E p \in Pkts : StackAlloc(p) \/ DeviceTransmit(p) \/ TxCnf(p) \/ RxInd(p)
    BY <1>3, StackAllocIInv, TxEventIInv
<1>4. CASE DeviceRx
    BY <1>4, DeviceRxIInv
<1>5. CASE \E i \in MeasuredItems : DeviceMeasure(i)
    BY <1>5, DeviceMeasureIInv
<1>6. CASE LlcRx
    BY <1>6, LlcRxIInv
<1>8. CASE DeviceReceive
    BY <1>8, DeviceReceiveIInv
<1>9. CASE RxAlloc
    BY <1>9, RxAllocIInv
<1>7. CASE UNCHANGED vars
    <2>1. TSFCount(down') = TSFCount(down) /\ TSFCount(up') = TSFCount(up)
        BY <1>7 DEF vars
    <2>. QED
        BY <1>7, <2>1 DEF vars, IInv, TypeOK, OwnershipConsistent, TSFCounted
<1>. QED
    BY <1>1, <1>2, <1>3, <1>4, <1>5, <1>6, <1>7, <1>8, <1>9 DEF Next

\* IInv holds in every reachable state
LEMMA SpecIInv == Spec => []IInv
BY InitIInv, NextIInv, PTL DEF Spec

(***************************************************************************)
(* Type correctness of the host API model, for all threads, buffers and    *)
(* bounds: the handle, the wires, the return codes of the MKx_* wrappers   *)
(* and the counter of GetTSFReq calls awaiting GetTSFInd keep their types; *)
(* in particular a GetTSFInd callback never finds that counter at zero.    *)
(***************************************************************************)
THEOREM TypeCorrect == Spec => []TypeOK
BY SpecIInv, PTL DEF IInv

(***************************************************************************)
(* Ownership of packet buffers, for all threads, buffers and bounds: a     *)
(* buffer is lent to the LLC (by MKx_TxReq, or by the stack's RxAlloc)     *)
(* exactly while the LLC or the device holds it: through MKx_TxFlush and  *)
(* until the TxCnf callback, or until the RxInd callback.                 *)
(***************************************************************************)
THEOREM BuffersOwned == Spec => []OwnershipConsistent
BY SpecIInv, PTL DEF IInv

=============================================================================
