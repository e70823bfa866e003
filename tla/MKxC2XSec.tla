------------------------------ MODULE MKxC2XSec ------------------------------
(***************************************************************************)
(* The C2X security interface of r17.1 llc-api.h: the stack builds a       *)
(* command APDU (tMKxC2XSecCmdHdr and its payload), hands it to            *)
(* pMKx->API.Functions.C2XSecCmd (fC2XSec_CommandReq), which sends it to   *)
(* the SAF5x00 in an MKXIF_C2XSEC message; the security applet checks it  *)
(* and answers with a response APDU (tMKxC2XSecRspHdr and its payload),    *)
(* which the LLC delivers to the callback pMKx->API.Callbacks.C2XSecRsp   *)
(* (fC2XSec_ResponseInd).  The stack pairs a response with its command by *)
(* the USN and decodes its payload with the command's INS and CurveID.    *)
(*                                                                         *)
(* The applet is not in this repository: its checks are the error codes  *)
(* eMKxC2XSecErrorCode and SAF_ERROR_C2XSEC_*, in the order the header     *)
(* lists them, and its answer the response layout the header documents.   *)
(* Each message carries the Seq of tMKxIFMsg, which "is used for          *)
(* detecting missing messages".  The transport keeps order; with Lossy it *)
(* may also lose messages (the UDP sockets of LLCRemote).                 *)
(***************************************************************************)
EXTENDS C2XSecLayout, Integers, Sequences, FiniteSets

CONSTANTS
    USNs,     \* the tMKxC2XSecUSN values the stack uses
    InsArgs,  \* INS values the stack may send (MKXC2XSEC_INST_COUNT is unsupported)
    CidArgs,  \* CurveID values the stack may send (MKXC2XSEC_CID_COUNT is invalid)
    MaxCmds,  \* bound on the commands the stack issues
    Lossy     \* the transport may lose messages

ASSUME C2XAssumption ==
    /\ MaxCmds \in Nat
    /\ Lossy \in BOOLEAN
    /\ InsArgs \subseteq Nat /\ CidArgs \subseteq Nat

\* tMKxIFMsg.Seq is a uint16_t
SeqMod == 65536

VARIABLES
    cmds,     \* the commands the stack issued, in order (cmds[n] is command n)
    outst,    \* per USN: the command awaiting its response, or 0
    cmdWire,  \* MKXIF_C2XSEC commands host -> device, in order
    accel,    \* commands the applet accepted and has not answered yet
    rspWire,  \* MKXIF_C2XSEC responses device -> host, in order
    txSeq,    \* Seq of the next message the host sends
    devRxSeq, \* Seq the device expects next
    devTxSeq, \* Seq of the next message the device sends
    rxSeq,    \* Seq the host expects next
    gaps,     \* the sides whose Seq check found a missing message
    done      \* per command: Pending, or how its response was taken

c2xvars == <<cmds, outst, cmdWire, accel, rspWire, txSeq, devRxSeq, devTxSeq,
             rxSeq, gaps, done>>

Cmd == [usn : USNs, ins : InsArgs, cid : CidArgs, lc : Nat]
\* A message on the wire; id names the command it belongs to (not on the wire)
CmdMsg == [seq : 0 .. SeqMod - 1, id : 1 .. MaxCmds, usn : USNs, ins : InsArgs,
           cid : CidArgs, lc : Nat]
RspMsg == [seq : 0 .. SeqMod - 1, id : 1 .. MaxCmds, usn : USNs, ins : InsArgs,
           ec : ErrorCodes, lr : Nat]
\* The stack's result for a command: the ErrorCode, whether the response
\* decoded with the command's layout, and the command the response was for
Result == [ec : ErrorCodes, ok : BOOLEAN, from : 1 .. MaxCmds]
\* A command whose response the stack has not taken yet
Pending == [ec |-> -1, ok |-> FALSE, from |-> 0]

TypeOK ==
    /\ cmds \in Seq(Cmd) /\ Len(cmds) <= MaxCmds
    /\ outst \in [USNs -> 0 .. MaxCmds]
    /\ cmdWire \in Seq(CmdMsg)
    /\ accel \subseteq CmdMsg
    /\ rspWire \in Seq(RspMsg)
    /\ {txSeq, devRxSeq, devTxSeq, rxSeq} \subseteq 0 .. SeqMod - 1
    /\ gaps \subseteq {"host", "device"}
    /\ done \in [1 .. MaxCmds -> {Pending} \cup Result]

Init ==
    /\ cmds = << >>
    /\ outst = [u \in USNs |-> 0]
    /\ cmdWire = << >>
    /\ accel = {}
    /\ rspWire = << >>
    /\ txSeq = 0 /\ devRxSeq = 0 /\ devTxSeq = 0 /\ rxSeq = 0
    /\ gaps = {}
    /\ done = [n \in 1 .. MaxCmds |-> Pending]

-----------------------------------------------------------------------------
(* The stack's codec *)

\* LC of the command the stack builds: sizeof(tMKxC2XSecCmdHdr) plus the
\* sizeof of the instruction's payload structure for the curve's width
BuildLC(ins, cid) ==
    CmdHdrSize + (IF ins \in Insts THEN CmdPayloadSize(ins, Width(cid)) ELSE 0)

\* The stack's check of a response against the command of the same USN:
\* same INS, and LenRsp the response header plus the payload structure of
\* the command's INS and CurveID, or the header alone on an error
Decodes(r, c) ==
    /\ r.ins = c.ins
    /\ r.lr = RspHdrSize + (IF r.ec = MKXC2XSEC_SUCCESS
                             THEN RspPayloadSize(c.ins, Width(c.cid)) ELSE 0)

\* The receiver's Seq check: a message whose Seq is not the one expected
\* shows that messages went missing
SeqChecked(side, expected, m) ==
    gaps' = IF m.seq = expected THEN gaps ELSE gaps \cup {side}

-----------------------------------------------------------------------------
(* Actions *)

\* Mutant: the stack takes a USN without checking it is free
C2XSec_CommandReq_ReusesUSN(u, ins, cid) ==
    /\ Len(cmds) < MaxCmds
    /\ LET n == Len(cmds) + 1
           c == [usn |-> u, ins |-> ins, cid |-> cid, lc |-> BuildLC(ins, cid)]
       IN /\ cmds' = Append(cmds, c)
          /\ outst' = [outst EXCEPT ![u] = n]
          /\ cmdWire' = Append(cmdWire, [seq |-> txSeq, id |-> n, usn |-> u,
                                         ins |-> ins, cid |-> cid, lc |-> c.lc])
    /\ txSeq' = (txSeq + 1) % SeqMod
    /\ UNCHANGED <<accel, rspWire, devRxSeq, devTxSeq, rxSeq, gaps, done>>

(***************************************************************************)
(* The stack issues a command under a USN none of its commands awaiting a  *)
(* response uses, and Functions.C2XSecCmd sends it on the wire (it blocks  *)
(* until the buffer is sent).                                             *)
(***************************************************************************)
C2XSec_CommandReq(u, ins, cid) ==
    /\ Len(cmds) < MaxCmds
    /\ outst[u] = 0
    /\ LET n == Len(cmds) + 1
           c == [usn |-> u, ins |-> ins, cid |-> cid, lc |-> BuildLC(ins, cid)]
       IN /\ cmds' = Append(cmds, c)
          /\ outst' = [outst EXCEPT ![u] = n]
          /\ cmdWire' = Append(cmdWire, [seq |-> txSeq, id |-> n, usn |-> u,
                                         ins |-> ins, cid |-> cid, lc |-> c.lc])
    /\ txSeq' = (txSeq + 1) % SeqMod
    /\ UNCHANGED <<accel, rspWire, devRxSeq, devTxSeq, rxSeq, gaps, done>>

\* Mutant: the device drops a command with an unknown INS without answering
DeviceRxCmd_DropsUnsupported ==
    /\ cmdWire # << >>
    /\ LET m == Head(cmdWire) IN
       /\ cmdWire' = Tail(cmdWire)
       /\ SeqChecked("device", devRxSeq, m)
       /\ devRxSeq' = (m.seq + 1) % SeqMod
       /\ accel' = IF m.ins \in Insts THEN accel \cup {m} ELSE accel
    /\ UNCHANGED <<cmds, outst, rspWire, txSeq, devTxSeq, rxSeq, done>>

\* The device takes the next command off the wire and the applet queues it
DeviceRxCmd ==
    /\ cmdWire # << >>
    /\ LET m == Head(cmdWire) IN
       /\ cmdWire' = Tail(cmdWire)
       /\ SeqChecked("device", devRxSeq, m)
       /\ devRxSeq' = (m.seq + 1) % SeqMod
       /\ accel' = accel \cup {m}
    /\ UNCHANGED <<cmds, outst, rspWire, txSeq, devTxSeq, rxSeq, done>>

(***************************************************************************)
(* The applet's checks of a command, in the order of SAF_ERROR_C2XSEC_*:   *)
(* the instruction, the curve, then LC against MKXC2XSEC_CMD_*_LC.  A      *)
(* well-formed command succeeds, or fails on its data or on an accelerator *)
(* fault (the SAF_ERROR_C2XSEC_*_TIMEOUT codes).                          *)
(***************************************************************************)
Outcomes(m) ==
    IF m.ins \notin Insts THEN {MKXC2XSEC_INS_NOT_SUPPORTED}
    ELSE IF m.cid \notin CIDs THEN {MKXC2XSEC_CURVEID_INVALID}
    ELSE IF m.lc # CmdLC(m.ins, m.cid) THEN {MKXC2XSEC_INVALID_LENGTH}
    ELSE {MKXC2XSEC_SUCCESS, MKXC2XSEC_WRONG_DATA, MKXC2XSEC_NO_PRECISE_DIAGNOSIS}

\* LenRsp: the MKXC2XSEC_RSP_*_LR of the instruction, or 8 on an error
RspLen(m, ec) == IF ec = MKXC2XSEC_SUCCESS THEN RspLR(m.ins, m.cid) ELSE RspHdrSize

\* The applet answers one of the commands it holds, in any order
DeviceRsp(m) ==
    /\ m \in accel
    /\ \E ec \in Outcomes(m) :
          rspWire' = Append(rspWire, [seq |-> devTxSeq, id |-> m.id, usn |-> m.usn,
                                      ins |-> m.ins, ec |-> ec, lr |-> RspLen(m, ec)])
    /\ accel' = accel \ {m}
    /\ devTxSeq' = (devTxSeq + 1) % SeqMod
    /\ UNCHANGED <<cmds, outst, cmdWire, txSeq, devRxSeq, rxSeq, gaps, done>>

\* Mutant: the stack completes the command but leaves its USN taken
C2XSec_ResponseInd_KeepsUSN ==
    /\ rspWire # << >>
    /\ LET r == Head(rspWire) IN
       /\ rspWire' = Tail(rspWire)
       /\ SeqChecked("host", rxSeq, r)
       /\ rxSeq' = (r.seq + 1) % SeqMod
       /\ \/ /\ outst[r.usn] = 0
             /\ UNCHANGED <<outst, done>>
          \/ /\ outst[r.usn] # 0
             /\ UNCHANGED outst
             /\ done' = [done EXCEPT ![outst[r.usn]] =
                           [ec |-> r.ec, ok |-> Decodes(r, cmds[outst[r.usn]]),
                            from |-> r.id]]
    /\ UNCHANGED <<cmds, cmdWire, accel, txSeq, devRxSeq, devTxSeq>>

(***************************************************************************)
(* The LLC receives the next response and calls C2XSecRsp.  The stack     *)
(* looks the USN up: a response for no awaiting command is dropped;       *)
(* otherwise the command is completed with the response's ErrorCode and   *)
(* the outcome of decoding it, and its USN is free again.                *)
(***************************************************************************)
C2XSec_ResponseInd ==
    /\ rspWire # << >>
    /\ LET r == Head(rspWire) IN
       /\ rspWire' = Tail(rspWire)
       /\ SeqChecked("host", rxSeq, r)
       /\ rxSeq' = (r.seq + 1) % SeqMod
       /\ \/ /\ outst[r.usn] = 0
             /\ UNCHANGED <<outst, done>>
          \/ /\ outst[r.usn] # 0
             /\ outst' = [outst EXCEPT ![r.usn] = 0]
             /\ done' = [done EXCEPT ![outst[r.usn]] =
                           [ec |-> r.ec, ok |-> Decodes(r, cmds[outst[r.usn]]),
                            from |-> r.id]]
    /\ UNCHANGED <<cmds, cmdWire, accel, txSeq, devRxSeq, devTxSeq>>

\* The UDP transport loses a message in either direction
Lose ==
    /\ Lossy
    /\ \/ \E k \in 1 .. Len(cmdWire) :
             /\ cmdWire' = SubSeq(cmdWire, 1, k - 1) \o SubSeq(cmdWire, k + 1, Len(cmdWire))
             /\ UNCHANGED rspWire
       \/ \E k \in 1 .. Len(rspWire) :
             /\ rspWire' = SubSeq(rspWire, 1, k - 1) \o SubSeq(rspWire, k + 1, Len(rspWire))
             /\ UNCHANGED cmdWire
    /\ UNCHANGED <<cmds, outst, accel, txSeq, devRxSeq, devTxSeq, rxSeq, gaps, done>>

Next ==
    \/ \E u \in USNs, ins \in InsArgs, cid \in CidArgs : C2XSec_CommandReq(u, ins, cid)
    \/ DeviceRxCmd
    \/ \E m \in accel : DeviceRsp(m)
    \/ C2XSec_ResponseInd
    \/ Lose

(***************************************************************************)
(* Fairness: the device keeps reading its wire, the applet answers every   *)
(* command it accepted, and the LLC keeps delivering responses; the stack *)
(* is not obliged to issue commands.                                      *)
(***************************************************************************)
C2XFairness ==
    /\ WF_c2xvars(DeviceRxCmd)
    /\ \A n \in 1 .. MaxCmds : WF_c2xvars(\E m \in accel : m.id = n /\ DeviceRsp(m))
    /\ WF_c2xvars(C2XSec_ResponseInd)

C2XSpec == Init /\ [][Next]_c2xvars
C2XFairSpec == C2XSpec /\ C2XFairness

-----------------------------------------------------------------------------
(* The abstract view: the request/verdict service of C2XService *)

\* The request a command carries, without the LC the stack computed
ReqOf(c) == [usn |-> c.usn, ins |-> c.ins, cid |-> c.cid]

SVC == INSTANCE C2XService WITH cmds <- [n \in 1 .. Len(cmds) |-> ReqOf(cmds[n])]

-----------------------------------------------------------------------------
(* Properties *)

(***************************************************************************)
(* The stack pairs every response with the command that caused it: the     *)
(* applet may answer the commands it holds in any order, and the USN is    *)
(* all that ties a response to its command, so a USN must never name two  *)
(* commands awaiting a response at once.                                  *)
(***************************************************************************)
ResponsePaired ==
    \A n \in 1 .. MaxCmds : done[n] # Pending => done[n].from = n

(***************************************************************************)
(* Every response decodes with the layout of its own command: the applet's *)
(* LenRsp (MKXC2XSEC_RSP_*_LR, or 8 on an error) equals the size of the   *)
(* response structure the stack selects by the INS and CurveID of the     *)
(* command it pairs the response with.                                    *)
(***************************************************************************)
ResponsesDecode ==
    \A n \in 1 .. MaxCmds : done[n] # Pending => done[n].ok

(***************************************************************************)
(* The applet rejects a command's framing (INS_NOT_SUPPORTED,              *)
(* CURVEID_INVALID or INVALID_LENGTH) exactly when the stack used an       *)
(* instruction or a curve the API does not define: the LC the stack       *)
(* computes with sizeof of the payload structures always equals the      *)
(* MKXC2XSEC_CMD_*_LC the applet checks it against.                       *)
(***************************************************************************)
FramingRejectedOnlyIfUnsupported ==
    \A n \in 1 .. MaxCmds :
        done[n] # Pending =>
            (done[n].ec \in {MKXC2XSEC_INS_NOT_SUPPORTED, MKXC2XSEC_CURVEID_INVALID,
                             MKXC2XSEC_INVALID_LENGTH}
             <=> (cmds[n].ins \notin Insts \/ cmds[n].cid \notin CIDs))

(***************************************************************************)
(* Every command the stack issues is answered through C2XSecRsp, also an   *)
(* unsupported or malformed one, as long as the transport loses nothing.  *)
(***************************************************************************)
CommandAnswered ==
    \A n \in 1 .. MaxCmds : (Len(cmds) >= n) ~> (done[n] # Pending)

(***************************************************************************)
(* tMKxIFMsg says the Seq "is used for detecting missing messages": a      *)
(* command is answered, or the loss of its command or response is         *)
(* noticed by a Seq check.                                                *)
(***************************************************************************)
LossNoticed ==
    \A n \in 1 .. MaxCmds : (Len(cmds) >= n) ~> (done[n] # Pending \/ gaps # {})

(***************************************************************************)
(* The exchange implements C2XService: hiding the wires, the applet's      *)
(* queue and the Seq numbers, every step is the stack issuing a command   *)
(* under a free USN, the callback completing the command its USN awaits   *)
(* once, with a verdict fit for that command and a decodable payload, and *)
(* freeing the USN, or a step that leaves the stack's view alone.         *)
(***************************************************************************)
C2XServiceRefined == SVC!Spec

=============================================================================
