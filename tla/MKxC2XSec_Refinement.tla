------------------------ MODULE MKxC2XSec_Refinement ------------------------
(***************************************************************************)
(* Proofs about what the stack makes of a C2X response: that it decodes    *)
(* with the layout of its own command, and that the exchange as a whole    *)
(* implements the request/verdict service C2XService.  Both rest on the   *)
(* invariants of MKxC2XSec_Proofs (pairing by USN, fields carried).       *)
(***************************************************************************)
EXTENDS MKxC2XSec_Proofs

-----------------------------------------------------------------------------
(* The LR the applet sends and the layout the stack decodes with *)

\* MKXC2XSEC_RSP_*_LR equals sizeof(tMKxC2XSecRspHdr) plus the packed
\* response structure, for every instruction and curve
LEMMA LRAgrees ==
    ASSUME NEW ins \in Insts, NEW cid \in CIDs
    PROVE  RspLR(ins, cid) = RspHdrSize + RspPayloadSize(ins, Width(cid))
BY DEF RspLR, RspPayloadSize, Insts, CIDs, MKXC2XSEC_INST_COUNT, MKXC2XSEC_CID_COUNT,
       Width, RspHdrSize, VerResSize, PairSize,
       MKXC2XSEC_INST_VERIFY_MESSAGE, MKXC2XSEC_INST_DECOMPRESS_PUBLIC_KEY,
       MKXC2XSEC_INST_RECONSTRUCT_PUBLIC_KEY,
       MKXC2XSEC_INST_DECOMPRESS_AND_VERIFY_MESSAGE, MKXC2XSEC_CID_BRAINPOOL384R1

\* Only a command with a defined instruction and curve can succeed
LEMMA SuccessSupported ==
    ASSUME NEW m, NEW ec \in Outcomes(m), ec = MKXC2XSEC_SUCCESS
    PROVE  m.ins \in Insts /\ m.cid \in CIDs
BY DEF Outcomes, MKXC2XSEC_SUCCESS, MKXC2XSEC_INS_NOT_SUPPORTED,
       MKXC2XSEC_CURVEID_INVALID, MKXC2XSEC_INVALID_LENGTH

\* The applet's answer to a command decodes with that command's layout
LEMMA AnswerDecodes ==
    ASSUME NEW m, NEW c, m.ins = c.ins, m.cid = c.cid, NEW ec \in Outcomes(m)
    PROVE  Decodes([seq |-> 0, id |-> 0, usn |-> 0, ins |-> m.ins, ec |-> ec,
                    lr |-> RspLen(m, ec)], c)
<1>1. CASE ec = MKXC2XSEC_SUCCESS
    <2>1. m.ins \in Insts /\ m.cid \in CIDs
        BY <1>1, SuccessSupported
    <2>2. RspLR(m.ins, m.cid) = RspHdrSize + RspPayloadSize(m.ins, Width(m.cid))
        BY <2>1, LRAgrees
    <2>. QED
        BY <1>1, <2>2 DEF Decodes, RspLen
<1>2. CASE ec # MKXC2XSEC_SUCCESS
    BY <1>2 DEF Decodes, RspLen, RspHdrSize
<1>. QED
    BY <1>1, <1>2

-----------------------------------------------------------------------------
(* The inductive invariant of the decoding theorem *)

\* Every response in flight decodes with the command it belongs to
RspsDecode == \A r \in Elems(rspWire) : Decodes(r, cmds[r.id])

DInv == RspsDecode /\ ResponsesDecode

LEMMA InitDInv == Init => DInv
BY DEF Init, DInv, RspsDecode, ResponsesDecode, Elems

LEMMA NextDInv == PInv /\ CInv /\ DInv /\ [Next]_c2xvars => DInv'
<1>. SUFFICES ASSUME PInv, CInv, DInv, [Next]_c2xvars PROVE DInv'
    OBVIOUS
<1>0. TypeOK /\ FlightsOwned /\ FlightsDistinct /\ CmdsCarried /\ RspsDecode
      /\ ResponsesDecode
    BY DEF PInv, CInv, DInv
<1>1. ASSUME NEW u \in USNs, NEW ins \in InsArgs, NEW cid \in CidArgs,
             C2XSec_CommandReq(u, ins, cid)
      PROVE  DInv'
    <2>1. /\ Len(cmds') = Len(cmds) + 1
          /\ \A k \in 1 .. Len(cmds) : cmds'[k] = cmds[k]
          /\ UNCHANGED <<rspWire, done>>
        BY <1>0, <1>1 DEF C2XSec_CommandReq, TypeOK
    <2>2. \A r \in Elems(rspWire) : r.id \in 1 .. Len(cmds)
        BY <1>0, FlightTyped DEF FlightsOwned, InFlight
    <2>. QED
        BY <1>0, <2>1, <2>2 DEF DInv, RspsDecode, ResponsesDecode
<1>2. CASE DeviceRxCmd
    BY <1>0, <1>2 DEF DeviceRxCmd, DInv, RspsDecode, ResponsesDecode
<1>3. ASSUME NEW m \in accel, DeviceRsp(m)
      PROVE  DInv'
    <2>1. PICK ec \in Outcomes(m) :
              rspWire' = Append(rspWire, [seq |-> devTxSeq, id |-> m.id, usn |-> m.usn,
                                          ins |-> m.ins, ec |-> ec, lr |-> RspLen(m, ec)])
        BY <1>3 DEF DeviceRsp
    <2>. DEFINE r == [seq |-> devTxSeq, id |-> m.id, usn |-> m.usn,
                      ins |-> m.ins, ec |-> ec, lr |-> RspLen(m, ec)]
    <2>2. UNCHANGED <<cmds, done>>
        BY <1>3 DEF DeviceRsp
    <2>3. Elems(rspWire') = Elems(rspWire) \cup {r}
        BY <1>0, <2>1, ElemsAppend DEF TypeOK
    <2>4. m.ins = cmds[m.id].ins /\ m.cid = cmds[m.id].cid
        BY <1>0 DEF CmdsCarried
    <2>5. Decodes(r, cmds[m.id])
        <3>1. Decodes([seq |-> 0, id |-> 0, usn |-> 0, ins |-> m.ins, ec |-> ec,
                       lr |-> RspLen(m, ec)], cmds[m.id])
            BY <2>4, AnswerDecodes
        <3>. QED
            BY <3>1 DEF Decodes
    <2>. QED
        BY <1>0, <2>2, <2>3, <2>5 DEF DInv, RspsDecode, ResponsesDecode
<1>4. CASE C2XSec_ResponseInd
    <2>. DEFINE r == Head(rspWire)
    <2>1. /\ rspWire # << >> /\ rspWire' = Tail(rspWire)
          /\ UNCHANGED cmds
        BY <1>4 DEF C2XSec_ResponseInd
    <2>2. r \in Elems(rspWire) /\ Elems(rspWire) = Elems(Tail(rspWire)) \cup {r}
        BY <1>0, <2>1, TailElems DEF TypeOK, FlightsDistinct
    <2>3. outst[r.usn] = r.id /\ r.id \in 1 .. MaxCmds
        BY <1>0, <2>2, FlightTyped DEF FlightsOwned, InFlight
    <2>4. done' = [done EXCEPT ![r.id] = [ec |-> r.ec, ok |-> Decodes(r, cmds[r.id]),
                                          from |-> r.id]]
        BY <1>4, <2>3 DEF C2XSec_ResponseInd
    <2>5. Decodes(r, cmds[r.id])
        BY <1>0, <2>2 DEF RspsDecode
    <2>. QED
        BY <1>0, <2>1, <2>2, <2>4, <2>5 DEF DInv, RspsDecode, ResponsesDecode, TypeOK
<1>5. CASE Lose
    <2>1. Elems(rspWire') \subseteq Elems(rspWire) /\ UNCHANGED <<cmds, done>>
        <3>1. CASE \E k \in 1 .. Len(rspWire) : rspWire' = Drop(rspWire, k)
            BY <1>0, <1>5, <3>1, DropElems DEF TypeOK, FlightsDistinct, Lose
        <3>2. CASE rspWire' = rspWire
            BY <1>5, <3>2 DEF Lose
        <3>. QED
            BY <1>5, <3>1, <3>2 DEF Lose, Drop
    <2>. QED
        BY <1>0, <2>1 DEF DInv, RspsDecode, ResponsesDecode
<1>6. CASE UNCHANGED c2xvars
    BY <1>0, <1>6 DEF c2xvars, DInv, RspsDecode, ResponsesDecode
<1>. QED
    BY <1>1, <1>2, <1>3, <1>4, <1>5, <1>6 DEF Next

(***************************************************************************)
(* For every set of USNs and every number of commands, with or without     *)
(* loss and whatever order the applet answers in, every response          *)
(* C2XSecRsp hands the stack decodes with the layout the stack selects by *)
(* the INS and CurveID of the command of that USN: the applet's LenRsp    *)
(* (MKXC2XSEC_RSP_*_LR, or 8 on an error) equals sizeof of that response  *)
(* structure (LRAgrees), a success is possible only for a defined INS and *)
(* curve, and the pairing of C2XResponsesPaired takes the response to the *)
(* command that caused it.                                                *)
(***************************************************************************)
THEOREM C2XResponsesDecode == C2XSpec => []ResponsesDecode
<1>1. Init => PInv /\ CInv /\ DInv
    BY InitPInv, InitCInv, InitDInv
<1>2. PInv /\ CInv /\ DInv /\ [Next]_c2xvars => PInv' /\ CInv' /\ DInv'
    BY NextPInv, NextCInv, NextDInv
<1>3. DInv => ResponsesDecode
    BY DEF DInv
<1>. QED
    BY <1>1, <1>2, <1>3, PTL DEF C2XSpec

-----------------------------------------------------------------------------
(* The refinement of C2XService *)

\* The stack's requests as the service sees them (the refinement mapping)
Proj(s) == [n \in 1 .. Len(s) |-> ReqOf(s[n])]

LEMMA ProjAppend ==
    ASSUME NEW S, NEW s \in Seq(S), NEW c
    PROVE  Proj(Append(s, c)) = Append(Proj(s), ReqOf(c))
BY DEF Proj

\* The verdicts C2XService allows depend on the instruction and curve only
LEMMA VerdictsOf ==
    ASSUME NEW a, NEW b, a.ins = b.ins, a.cid = b.cid
    PROVE  SVC!Verdicts(a) = SVC!Verdicts(b)
BY DEF SVC!Verdicts

\* The service and the exchange share the layout of C2XSecLayout
LEMMA SVCLayout ==
    /\ SVC!Insts = Insts /\ SVC!CIDs = CIDs
    /\ SVC!MKXC2XSEC_INS_NOT_SUPPORTED = MKXC2XSEC_INS_NOT_SUPPORTED
    /\ SVC!MKXC2XSEC_CURVEID_INVALID = MKXC2XSEC_CURVEID_INVALID
    /\ SVC!MKXC2XSEC_SUCCESS = MKXC2XSEC_SUCCESS
    /\ SVC!MKXC2XSEC_WRONG_DATA = MKXC2XSEC_WRONG_DATA
    /\ SVC!MKXC2XSEC_NO_PRECISE_DIAGNOSIS = MKXC2XSEC_NO_PRECISE_DIAGNOSIS
BY DEF SVC!Insts, Insts, SVC!CIDs, CIDs, SVC!MKXC2XSEC_INST_COUNT, MKXC2XSEC_INST_COUNT,
       SVC!MKXC2XSEC_CID_COUNT, MKXC2XSEC_CID_COUNT,
       SVC!MKXC2XSEC_INS_NOT_SUPPORTED, MKXC2XSEC_INS_NOT_SUPPORTED,
       SVC!MKXC2XSEC_CURVEID_INVALID, MKXC2XSEC_CURVEID_INVALID,
       SVC!MKXC2XSEC_SUCCESS, MKXC2XSEC_SUCCESS,
       SVC!MKXC2XSEC_WRONG_DATA, MKXC2XSEC_WRONG_DATA,
       SVC!MKXC2XSEC_NO_PRECISE_DIAGNOSIS, MKXC2XSEC_NO_PRECISE_DIAGNOSIS

\* The applet's checks of a command the stack built give the verdicts of
\* C2XService: LC is never wrong (LCAgrees)
LEMMA OutcomesVerdicts ==
    ASSUME NEW m, m.lc = BuildLC(m.ins, m.cid)
    PROVE  Outcomes(m) = SVC!Verdicts(m)
<1>1. CASE m.ins \in Insts /\ m.cid \in CIDs
    <2>1. m.lc = CmdLC(m.ins, m.cid)
        BY <1>1, LCAgrees
    <2>. QED
        BY <1>1, <2>1, SVCLayout DEF Outcomes, SVC!Verdicts
<1>2. CASE ~(m.ins \in Insts /\ m.cid \in CIDs)
    BY <1>2, SVCLayout DEF Outcomes, SVC!Verdicts
<1>. QED
    BY <1>1, <1>2

\* Every response in flight carries a verdict fit for its command
RspsVerdict == \A r \in Elems(rspWire) : r.ec \in SVC!Verdicts(cmds[r.id])

LEMMA InitVerdict == Init => RspsVerdict
BY DEF Init, RspsVerdict, Elems

LEMMA NextVerdict == PInv /\ CInv /\ RspsVerdict /\ [Next]_c2xvars => RspsVerdict'
<1>. SUFFICES ASSUME PInv, CInv, RspsVerdict, [Next]_c2xvars PROVE RspsVerdict'
    OBVIOUS
<1>0. TypeOK /\ FlightsOwned /\ FlightsDistinct /\ CmdsBuilt /\ CmdsCarried
    BY DEF PInv, CInv
<1>1. ASSUME NEW u \in USNs, NEW ins \in InsArgs, NEW cid \in CidArgs,
             C2XSec_CommandReq(u, ins, cid)
      PROVE  RspsVerdict'
    <2>1. /\ \A k \in 1 .. Len(cmds) : cmds'[k] = cmds[k]
          /\ UNCHANGED rspWire
        BY <1>0, <1>1 DEF C2XSec_CommandReq, TypeOK
    <2>2. \A r \in Elems(rspWire) : r.id \in 1 .. Len(cmds)
        BY <1>0, FlightTyped DEF FlightsOwned, InFlight
    <2>. QED
        BY <2>1, <2>2 DEF RspsVerdict
<1>2. CASE DeviceRxCmd
    BY <1>2 DEF DeviceRxCmd, RspsVerdict
<1>3. ASSUME NEW m \in accel, DeviceRsp(m)
      PROVE  RspsVerdict'
    <2>1. PICK ec \in Outcomes(m) :
              rspWire' = Append(rspWire, [seq |-> devTxSeq, id |-> m.id, usn |-> m.usn,
                                          ins |-> m.ins, ec |-> ec, lr |-> RspLen(m, ec)])
        BY <1>3 DEF DeviceRsp
    <2>. DEFINE r == [seq |-> devTxSeq, id |-> m.id, usn |-> m.usn,
                      ins |-> m.ins, ec |-> ec, lr |-> RspLen(m, ec)]
    <2>2. UNCHANGED cmds
        BY <1>3 DEF DeviceRsp
    <2>3. Elems(rspWire') = Elems(rspWire) \cup {r}
        BY <1>0, <2>1, ElemsAppend DEF TypeOK
    <2>4. m.id \in 1 .. Len(cmds) /\ m.ins = cmds[m.id].ins /\ m.cid = cmds[m.id].cid
          /\ m.lc = BuildLC(m.ins, m.cid)
        <3>1. m.id \in 1 .. Len(cmds)
            BY <1>0, FlightTyped DEF FlightsOwned, InFlight
        <3>. QED
            BY <1>0, <3>1 DEF CmdsCarried, CmdsBuilt
    <2>5. ec \in SVC!Verdicts(cmds[m.id])
        BY <2>4, OutcomesVerdicts, VerdictsOf
    <2>. QED
        BY <2>2, <2>3, <2>5 DEF RspsVerdict
<1>4. CASE C2XSec_ResponseInd
    <2>1. /\ rspWire # << >> /\ rspWire' = Tail(rspWire)
          /\ UNCHANGED cmds
        BY <1>4 DEF C2XSec_ResponseInd
    <2>2. Elems(rspWire) = Elems(Tail(rspWire)) \cup {Head(rspWire)}
        BY <1>0, <2>1, TailElems DEF TypeOK, FlightsDistinct
    <2>. QED
        BY <2>1, <2>2 DEF RspsVerdict
<1>5. CASE Lose
    <2>1. Elems(rspWire') \subseteq Elems(rspWire) /\ UNCHANGED cmds
        <3>1. CASE \E k \in 1 .. Len(rspWire) : rspWire' = Drop(rspWire, k)
            BY <1>0, <1>5, <3>1, DropElems DEF TypeOK, FlightsDistinct, Lose
        <3>2. CASE rspWire' = rspWire
            BY <1>5, <3>2 DEF Lose
        <3>. QED
            BY <1>5, <3>1, <3>2 DEF Lose, Drop
    <2>. QED
        BY <2>1 DEF RspsVerdict
<1>6. CASE UNCHANGED c2xvars
    BY <1>6 DEF c2xvars, RspsVerdict
<1>. QED
    BY <1>1, <1>2, <1>3, <1>4, <1>5, <1>6 DEF Next

\* The steps that leave the stack's view alone
LEMMA ViewStutters ==
    ASSUME UNCHANGED <<cmds, outst, done>>
    PROVE  UNCHANGED SVC!svars
BY DEF SVC!svars

LEMMA CommandReqIssues ==
    ASSUME TypeOK, NEW u \in USNs, NEW ins \in InsArgs, NEW cid \in CidArgs,
           C2XSec_CommandReq(u, ins, cid)
    PROVE  SVC!Issue(u, ins, cid)
<1>. DEFINE c == [usn |-> u, ins |-> ins, cid |-> cid, lc |-> BuildLC(ins, cid)]
<1>. HIDE DEF c
<1>1. /\ Len(cmds) < MaxCmds /\ outst[u] = 0
      /\ cmds' = Append(cmds, c)
      /\ outst' = [outst EXCEPT ![u] = Len(cmds) + 1]
      /\ UNCHANGED done
    BY DEF C2XSec_CommandReq, c
<1>2. Proj(cmds') = Append(Proj(cmds), [usn |-> u, ins |-> ins, cid |-> cid])
    <2>1. Proj(Append(cmds, c)) = Append(Proj(cmds), ReqOf(c))
        BY ProjAppend DEF TypeOK
    <2>2. ReqOf(c) = [usn |-> u, ins |-> ins, cid |-> cid]
        BY DEF ReqOf, c
    <2>. QED
        BY <1>1, <2>1, <2>2
<1>3. Len(Proj(cmds)) = Len(cmds)
    BY DEF Proj, TypeOK
<1>. QED
    BY <1>1, <1>2, <1>3 DEF SVC!Issue, Proj

LEMMA ResponseIndCompletes ==
    ASSUME PInv, DInv, RspsVerdict, C2XSec_ResponseInd
    PROVE  [SVC!Next]_SVC!svars
<1>. DEFINE r == Head(rspWire)
<1>0. TypeOK /\ FlightsOwned /\ FlightsDistinct /\ RspsDecode
    BY DEF PInv, DInv
<1>1. /\ rspWire # << >> /\ UNCHANGED cmds
    BY DEF C2XSec_ResponseInd
<1>2. r \in Elems(rspWire)
    BY <1>0, <1>1, TailElems DEF TypeOK, FlightsDistinct
<1>3. /\ outst[r.usn] = r.id /\ r.id \in 1 .. MaxCmds /\ r.usn \in USNs
      /\ r.id <= Len(cmds)
    BY <1>0, <1>2, FlightTyped DEF FlightsOwned, InFlight
<1>4. /\ outst' = [outst EXCEPT ![r.usn] = 0]
      /\ done' = [done EXCEPT ![r.id] = [ec |-> r.ec, ok |-> Decodes(r, cmds[r.id]),
                                         from |-> r.id]]
    BY <1>3 DEF C2XSec_ResponseInd
<1>5. Decodes(r, cmds[r.id]) /\ r.ec \in SVC!Verdicts(cmds[r.id])
    BY <1>0, <1>2 DEF RspsDecode, RspsVerdict
<1>6. Proj(cmds)[r.id] = ReqOf(cmds[r.id])
    BY <1>3 DEF Proj
<1>7. r.ec \in SVC!Verdicts(Proj(cmds)[r.id])
    <2>1. ReqOf(cmds[r.id]).ins = cmds[r.id].ins /\ ReqOf(cmds[r.id]).cid = cmds[r.id].cid
        BY DEF ReqOf
    <2>. QED
        BY <1>5, <1>6, <2>1, VerdictsOf
<1>8. SVC!Complete(r.usn)
    <2>1. outst[r.usn] # 0
        BY <1>3
    <2>2. done' = [done EXCEPT ![outst[r.usn]] = [ec |-> r.ec, ok |-> TRUE,
                                                from |-> outst[r.usn]]]
        BY <1>3, <1>4, <1>5
    <2>3. \E ec \in SVC!Verdicts(Proj(cmds)[outst[r.usn]]) :
              done' = [done EXCEPT ![outst[r.usn]] = [ec |-> ec, ok |-> TRUE,
                                                    from |-> outst[r.usn]]]
        BY <1>3, <1>7, <2>2
    <2>4. UNCHANGED Proj(cmds)
        BY <1>1
    <2>. QED
        BY <1>4, <2>1, <2>3, <2>4 DEF SVC!Complete, Proj
<1>. QED
    BY <1>3, <1>8 DEF SVC!Next

\* Every step of the exchange is a step of C2XService or leaves its view alone
LEMMA NextRefinesService ==
    PInv /\ DInv /\ RspsVerdict /\ [Next]_c2xvars => [SVC!Next]_SVC!svars
<1>. SUFFICES ASSUME PInv, DInv, RspsVerdict, [Next]_c2xvars
              PROVE  [SVC!Next]_SVC!svars
    OBVIOUS
<1>1. ASSUME NEW u \in USNs, NEW ins \in InsArgs, NEW cid \in CidArgs,
             C2XSec_CommandReq(u, ins, cid)
      PROVE  [SVC!Next]_SVC!svars
    <2>1. SVC!Issue(u, ins, cid)
        BY <1>1, CommandReqIssues DEF PInv
    <2>. QED
        BY <2>1 DEF SVC!Next
<1>2. CASE DeviceRxCmd \/ (\E m \in accel : DeviceRsp(m)) \/ Lose \/ UNCHANGED c2xvars
    <2>1. UNCHANGED <<cmds, outst, done>>
        BY <1>2 DEF DeviceRxCmd, DeviceRsp, Lose, c2xvars
    <2>. QED
        BY <2>1, ViewStutters
<1>3. CASE C2XSec_ResponseInd
    BY <1>3, ResponseIndCompletes
<1>. QED
    BY <1>1, <1>2, <1>3 DEF Next

(***************************************************************************)
(* For every set of USNs and every number of commands, with or without     *)
(* loss and whatever order the applet answers in, the C2X exchange        *)
(* implements C2XService: hiding the wires, the applet's queue and the    *)
(* Seq numbers, the stack issues commands under free USNs, and C2XSecRsp  *)
(* completes the command its USN awaits at most once, with an ErrorCode   *)
(* that rejects the framing only of an undefined INS or CurveID, and a    *)
(* payload the stack decodes with that command's layout.                  *)
(***************************************************************************)
THEOREM C2XRefinement == C2XSpec => C2XServiceRefined
<1>1. Init => SVC!Init
    <2>1. Proj(<< >>) = << >>
        BY DEF Proj
    <2>. QED
        BY <2>1 DEF Init, SVC!Init, Proj, Pending, SVC!Pending
<1>2. Init => PInv /\ CInv /\ DInv /\ RspsVerdict
    BY InitPInv, InitCInv, InitDInv, InitVerdict
<1>3. PInv /\ CInv /\ DInv /\ RspsVerdict /\ [Next]_c2xvars
          => PInv' /\ CInv' /\ DInv' /\ RspsVerdict'
    BY NextPInv, NextCInv, NextDInv, NextVerdict
<1>4. PInv /\ DInv /\ RspsVerdict /\ [Next]_c2xvars => [SVC!Next]_SVC!svars
    BY NextRefinesService
<1>. QED
    BY <1>1, <1>2, <1>3, <1>4, PTL DEF C2XSpec, C2XServiceRefined, SVC!Spec, Proj

=============================================================================
