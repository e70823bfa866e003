----------------------------- MODULE C2XService -----------------------------
(***************************************************************************)
(* What the C2X security interface of r17.1 promises the stack, without    *)
(* the transport, the Seq numbers or the applet's queue: the stack issues  *)
(* a command under a USN no command awaiting an answer uses               *)
(* (fC2XSec_CommandReq), and each command is completed at most once, by   *)
(* the callback for its USN (fC2XSec_ResponseInd), with an ErrorCode that  *)
(* depends only on whether the instruction and the curve are defined, and *)
(* a payload the stack can decode.  A command may also never complete.   *)
(***************************************************************************)
EXTENDS C2XSecLayout, Integers, Sequences

CONSTANTS
    USNs,     \* the tMKxC2XSecUSN values the stack uses
    InsArgs,  \* INS values the stack may send
    CidArgs,  \* CurveID values the stack may send
    MaxCmds   \* bound on the commands the stack issues

VARIABLES
    cmds,     \* the requests the stack issued, in order
    outst,    \* per USN: the request awaiting its answer, or 0
    done      \* per request: Pending, or its verdict

svars == <<cmds, outst, done>>

\* A request: its USN, instruction and curve
Request == [usn : USNs, ins : InsArgs, cid : CidArgs]
\* A verdict: the ErrorCode, whether the payload decoded, the request answered
Verdict == [ec : ErrorCodes, ok : BOOLEAN, from : 1 .. MaxCmds]
Pending == [ec |-> -1, ok |-> FALSE, from |-> 0]

\* The ErrorCodes eMKxC2XSecErrorCode allows for a request built by the
\* stack: a framing error only for an undefined instruction or curve
Verdicts(c) ==
    IF c.ins \notin Insts THEN {MKXC2XSEC_INS_NOT_SUPPORTED}
    ELSE IF c.cid \notin CIDs THEN {MKXC2XSEC_CURVEID_INVALID}
    ELSE {MKXC2XSEC_SUCCESS, MKXC2XSEC_WRONG_DATA, MKXC2XSEC_NO_PRECISE_DIAGNOSIS}

Init ==
    /\ cmds = << >>
    /\ outst = [u \in USNs |-> 0]
    /\ done = [n \in 1 .. MaxCmds |-> Pending]

\* The stack issues a request under a free USN
Issue(u, ins, cid) ==
    /\ Len(cmds) < MaxCmds
    /\ outst[u] = 0
    /\ cmds' = Append(cmds, [usn |-> u, ins |-> ins, cid |-> cid])
    /\ outst' = [outst EXCEPT ![u] = Len(cmds) + 1]
    /\ UNCHANGED done

\* The request awaiting under USN u gets its verdict, and u is free again
Complete(u) ==
    /\ outst[u] # 0
    /\ \E ec \in Verdicts(cmds[outst[u]]) :
          done' = [done EXCEPT ![outst[u]] = [ec |-> ec, ok |-> TRUE, from |-> outst[u]]]
    /\ outst' = [outst EXCEPT ![u] = 0]
    /\ UNCHANGED cmds

Next ==
    \/ \E u \in USNs, ins \in InsArgs, cid \in CidArgs : Issue(u, ins, cid)
    \/ \E u \in USNs : Complete(u)

Spec == Init /\ [][Next]_svars

=============================================================================
