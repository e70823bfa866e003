--------------------------- MODULE MKxC2XSec_Proofs ---------------------------
(***************************************************************************)
(* Proof that the stack pairs every C2X response with its own command, for *)
(* every set of USNs, every bound on the commands, with or without loss.  *)
(***************************************************************************)
EXTENDS MKxC2XSec, SequenceTheorems, TLAPS

\* The messages of a wire
Elems(s) == {s[i] : i \in 1 .. Len(s)}

\* No two messages of a wire belong to the same command
Distinct(s) == \A i, j \in 1 .. Len(s) : i # j => s[i].id # s[j].id

\* No message of A belongs to the same command as a message of B
Apart(A, B) == \A a \in A, b \in B : a.id # b.id

\* A wire with the message at position k lost (the form Lose uses)
Drop(s, k) == SubSeq(s, 1, k - 1) \o SubSeq(s, k + 1, Len(s))

-----------------------------------------------------------------------------
(* Lemmas on the wires *)

LEMMA ElemsAppend ==
    ASSUME NEW S, NEW s \in Seq(S), NEW e
    PROVE  Elems(Append(s, e)) = Elems(s) \cup {e}
<1>1. Len(Append(s, e)) = Len(s) + 1 /\ Append(s, e)[Len(s) + 1] = e
      /\ \A i \in 1 .. Len(s) : Append(s, e)[i] = s[i]
    OBVIOUS
<1>. QED
    BY <1>1 DEF Elems

LEMMA AppendElems ==
    ASSUME NEW S, NEW s \in Seq(S), NEW e \in S,
           Distinct(s), \A x \in Elems(s) : x.id # e.id
    PROVE  /\ Append(s, e) \in Seq(S)
           /\ Elems(Append(s, e)) = Elems(s) \cup {e}
           /\ Distinct(Append(s, e))
BY DEF Elems, Distinct

LEMMA TailElems ==
    ASSUME NEW S, NEW s \in Seq(S), s # << >>, Distinct(s)
    PROVE  /\ Tail(s) \in Seq(S)
           /\ Head(s) \in Elems(s)
           /\ Elems(s) = Elems(Tail(s)) \cup {Head(s)}
           /\ Distinct(Tail(s))
           /\ \A x \in Elems(Tail(s)) : x.id # Head(s).id
<1>1. /\ Tail(s) \in Seq(S)
      /\ Len(Tail(s)) = Len(s) - 1
      /\ \A i \in 1 .. Len(Tail(s)) : Tail(s)[i] = s[i + 1]
    BY HeadTailProperties
<1>2. Elems(s) = Elems(Tail(s)) \cup {Head(s)}
    <2>1. ASSUME NEW i \in 1 .. Len(s) PROVE s[i] \in Elems(Tail(s)) \cup {Head(s)}
        <3>1. CASE i = 1
            BY <3>1 DEF Elems
        <3>2. CASE i > 1
            <4>1. i - 1 \in 1 .. Len(Tail(s)) /\ Tail(s)[i - 1] = s[i]
                BY <1>1, <3>2
            <4>. QED
                BY <4>1 DEF Elems
        <3>. QED
            BY <3>1, <3>2
    <2>2. Elems(Tail(s)) \cup {Head(s)} \subseteq Elems(s)
        BY <1>1 DEF Elems
    <2>. QED
        BY <2>1, <2>2 DEF Elems
<1>. QED
    BY <1>1, <1>2 DEF Distinct, Elems

LEMMA DropElems ==
    ASSUME NEW S, NEW s \in Seq(S), NEW k \in 1 .. Len(s), Distinct(s)
    PROVE  /\ Drop(s, k) \in Seq(S)
           /\ Elems(Drop(s, k)) \subseteq Elems(s)
           /\ Distinct(Drop(s, k))
<1>. DEFINE a == SubSeq(s, 1, k - 1)
            b == SubSeq(s, k + 1, Len(s))
<1>. HIDE DEF a, b
<1>1. /\ a \in Seq(S) /\ Len(a) = k - 1
      /\ \A i \in 1 .. k - 1 : a[i] = s[i]
    BY SubSeqProperties DEF a
<1>2. /\ b \in Seq(S) /\ Len(b) = Len(s) - k
      /\ \A i \in 1 .. Len(s) - k : b[i] = s[k + i]
    BY SubSeqProperties DEF b
<1>3. /\ a \o b \in Seq(S) /\ Len(a \o b) = Len(s) - 1
      /\ \A i \in 1 .. Len(s) - 1 : (a \o b)[i] = IF i < k THEN s[i] ELSE s[i + 1]
    <2>1. /\ a \o b \in Seq(S) /\ Len(a \o b) = Len(a) + Len(b)
          /\ \A i \in 1 .. Len(a) + Len(b) :
                (a \o b)[i] = IF i <= Len(a) THEN a[i] ELSE b[i - Len(a)]
        BY Zenon, <1>1, <1>2, ConcatProperties
    <2>2. Len(a) + Len(b) = Len(s) - 1
        BY <1>1, <1>2
    <2>3. ASSUME NEW i \in 1 .. Len(s) - 1
          PROVE  (a \o b)[i] = IF i < k THEN s[i] ELSE s[i + 1]
        <3>1. CASE i < k
            BY <3>1, <1>1, <2>1, <2>2
        <3>2. CASE i >= k
            <4>1. i - Len(a) \in 1 .. Len(s) - k /\ k + (i - Len(a)) = i + 1
                BY <3>2, <1>1
            <4>2. (a \o b)[i] = b[i - Len(a)]
                BY <3>2, <1>1, <2>1, <2>2
            <4>3. b[i - Len(a)] = s[i + 1]
                BY Zenon, <4>1, <1>2
            <4>. QED
                BY <3>2, <4>2, <4>3
        <3>3. i < k \/ i >= k
            OBVIOUS
        <3>. QED
            BY Zenon, <3>1, <3>2, <3>3
    <2>. QED
        BY <2>1, <2>2, <2>3
<1>4. Elems(a \o b) \subseteq Elems(s)
    <2>. SUFFICES ASSUME NEW i \in 1 .. Len(s) - 1 PROVE (a \o b)[i] \in Elems(s)
        BY <1>3 DEF Elems
    <2>1. (IF i < k THEN i ELSE i + 1) \in 1 .. Len(s)
        OBVIOUS
    <2>2. (a \o b)[i] = s[IF i < k THEN i ELSE i + 1]
        BY <1>3
    <2>. QED
        BY <2>1, <2>2 DEF Elems
<1>5. Distinct(a \o b)
    <2>. SUFFICES ASSUME NEW i \in 1 .. Len(s) - 1, NEW j \in 1 .. Len(s) - 1, i # j
                  PROVE  (a \o b)[i].id # (a \o b)[j].id
        BY <1>3 DEF Distinct
    <2>1. /\ (IF i < k THEN i ELSE i + 1) \in 1 .. Len(s)
          /\ (IF j < k THEN j ELSE j + 1) \in 1 .. Len(s)
          /\ (IF i < k THEN i ELSE i + 1) # (IF j < k THEN j ELSE j + 1)
        OBVIOUS
    <2>. QED
        BY <1>3, <2>1 DEF Distinct
<1>. QED
    BY <1>3, <1>4, <1>5 DEF Drop, a, b

-----------------------------------------------------------------------------
(* The inductive invariant *)

\* The messages on the wires and in the applet
InFlight == Elems(cmdWire) \cup accel \cup Elems(rspWire)

\* A message in flight belongs to an issued command, the one its USN awaits
FlightsOwned ==
    \A m \in InFlight : m.id <= Len(cmds) /\ outst[m.usn] = m.id

\* At most one message of each command is in flight
FlightsDistinct ==
    /\ Distinct(cmdWire) /\ Distinct(rspWire)
    /\ \A m1, m2 \in accel : m1.id = m2.id => m1 = m2
    /\ Apart(Elems(cmdWire), accel)
    /\ Apart(Elems(cmdWire), Elems(rspWire))
    /\ Apart(accel, Elems(rspWire))

PInv == TypeOK /\ FlightsOwned /\ FlightsDistinct /\ ResponsePaired

-----------------------------------------------------------------------------
(* The codec's lengths are numbers *)

LEMMA BuildLCNat ==
    ASSUME NEW ins \in Nat, NEW cid \in Nat
    PROVE  BuildLC(ins, cid) \in Nat
BY DEF BuildLC, CmdPayloadSize, Insts, MKXC2XSEC_INST_COUNT, Width, CmdHdrSize,
       VSOHSize, DPKSize, REPKSize, DPKVSOHSize, PairSize, CompPubKeySize,
       MKXC2XSEC_INST_VERIFY_MESSAGE, MKXC2XSEC_INST_DECOMPRESS_PUBLIC_KEY,
       MKXC2XSEC_INST_RECONSTRUCT_PUBLIC_KEY,
       MKXC2XSEC_INST_DECOMPRESS_AND_VERIFY_MESSAGE

LEMMA RspLenNat ==
    ASSUME NEW m \in CmdMsg, NEW ec \in Outcomes(m)
    PROVE  ec \in ErrorCodes /\ RspLen(m, ec) \in Nat
<1>1. ec \in ErrorCodes
    BY DEF Outcomes, ErrorCodes, MKXC2XSEC_SUCCESS, MKXC2XSEC_INS_NOT_SUPPORTED,
           MKXC2XSEC_INVALID_LENGTH, MKXC2XSEC_CURVEID_INVALID,
           MKXC2XSEC_WRONG_DATA, MKXC2XSEC_NO_PRECISE_DIAGNOSIS
<1>2. ec = MKXC2XSEC_SUCCESS => m.ins \in Insts
    BY DEF Outcomes, MKXC2XSEC_SUCCESS, MKXC2XSEC_INS_NOT_SUPPORTED,
           MKXC2XSEC_INVALID_LENGTH, MKXC2XSEC_CURVEID_INVALID
<1>3. m.ins \in Insts => RspLR(m.ins, m.cid) \in Nat
    BY DEF RspLR, Insts, MKXC2XSEC_INST_COUNT,
           MKXC2XSEC_INST_VERIFY_MESSAGE, MKXC2XSEC_INST_DECOMPRESS_PUBLIC_KEY,
           MKXC2XSEC_INST_RECONSTRUCT_PUBLIC_KEY,
           MKXC2XSEC_INST_DECOMPRESS_AND_VERIFY_MESSAGE
<1>. QED
    BY <1>1, <1>2, <1>3 DEF RspLen, RspHdrSize

-----------------------------------------------------------------------------
(* One lemma per action *)

\* A Seq counter incremented modulo 2^16 stays a uint16_t
LEMMA SeqNext ==
    ASSUME NEW x \in Int
    PROVE  (x + 1) % SeqMod \in 0 .. SeqMod - 1
<1>1. SeqMod \in Nat \ {0}
    BY DEF SeqMod
<1>2. \A y \in Int, m \in Nat \ {0} : y % m \in 0 .. m - 1
    OBVIOUS
<1>. QED
    BY <1>1, <1>2

LEMMA InitPInv == Init => PInv
BY C2XAssumption
   DEF Init, PInv, TypeOK, FlightsOwned, FlightsDistinct, ResponsePaired, InFlight,
       Elems, Distinct, Apart, Pending, Result, SeqMod

\* The messages of typed wires are typed, and their commands are numbered from 1
LEMMA FlightTyped ==
    ASSUME TypeOK
    PROVE  /\ Elems(cmdWire) \subseteq CmdMsg /\ accel \subseteq CmdMsg
           /\ Elems(rspWire) \subseteq RspMsg
           /\ \A m \in InFlight : m.id \in 1 .. MaxCmds /\ m.usn \in USNs
<1>1. Elems(cmdWire) \subseteq CmdMsg /\ Elems(rspWire) \subseteq RspMsg
    BY DEF TypeOK, Elems
<1>2. accel \subseteq CmdMsg
    BY DEF TypeOK
<1>3. \A m \in CmdMsg \cup RspMsg : m.id \in 1 .. MaxCmds /\ m.usn \in USNs
    BY DEF CmdMsg, RspMsg
<1>. QED
    BY <1>1, <1>2, <1>3 DEF InFlight

LEMMA CommandReqPInv ==
    ASSUME PInv, NEW u \in USNs, NEW ins \in InsArgs, NEW cid \in CidArgs,
           C2XSec_CommandReq(u, ins, cid)
    PROVE  PInv'
<1>. DEFINE n == Len(cmds) + 1
            c == [usn |-> u, ins |-> ins, cid |-> cid, lc |-> BuildLC(ins, cid)]
            e == [seq |-> txSeq, id |-> n, usn |-> u, ins |-> ins, cid |-> cid,
                  lc |-> BuildLC(ins, cid)]
<1>. HIDE DEF c, e
<1>0. TypeOK /\ FlightsOwned /\ FlightsDistinct /\ ResponsePaired /\ MaxCmds \in Nat
    BY C2XAssumption DEF PInv
<1>1. /\ cmds' = Append(cmds, c)
      /\ outst' = [outst EXCEPT ![u] = n]
      /\ cmdWire' = Append(cmdWire, e)
      /\ txSeq' = (txSeq + 1) % SeqMod
      /\ Len(cmds) < MaxCmds /\ outst[u] = 0
      /\ UNCHANGED <<accel, rspWire, devRxSeq, devTxSeq, rxSeq, gaps, done>>
    BY DEF C2XSec_CommandReq, c, e
<1>2. BuildLC(ins, cid) \in Nat /\ n \in 1 .. MaxCmds
    <2>1. ins \in Nat /\ cid \in Nat
        BY C2XAssumption
    <2>2. Len(cmds) \in Nat
        BY <1>0 DEF TypeOK
    <2>3. BuildLC(ins, cid) \in Nat
        BY <2>1, BuildLCNat
    <2>4. MaxCmds \in Nat
        BY C2XAssumption
    <2>. QED
        BY <1>1, <2>2, <2>3, <2>4
<1>3. e \in CmdMsg /\ c \in Cmd /\ e.id = n /\ e.usn = u
    BY <1>0, <1>2 DEF TypeOK, CmdMsg, Cmd, c, e
<1>4. \A x \in InFlight : x.id # n /\ x.usn # u
    <2>. SUFFICES ASSUME NEW x \in InFlight PROVE x.id # n /\ x.usn # u
        OBVIOUS
    <2>1. x.id \in 1 .. MaxCmds /\ x.id <= Len(cmds) /\ outst[x.usn] = x.id
        BY <1>0, FlightTyped DEF FlightsOwned
    <2>. QED
        BY <1>1, <2>1
<1>5. /\ cmdWire' \in Seq(CmdMsg)
      /\ Elems(cmdWire') = Elems(cmdWire) \cup {e}
      /\ Distinct(cmdWire')
    <2>1. \A x \in Elems(cmdWire) : x.id # e.id
        BY <1>3, <1>4 DEF InFlight
    <2>. QED
        BY <1>0, <1>1, <1>3, <2>1, AppendElems DEF TypeOK, FlightsDistinct
<1>6. TypeOK'
    <2>1. cmds' \in Seq(Cmd) /\ Len(cmds') <= MaxCmds
        BY <1>0, <1>1, <1>3 DEF TypeOK
    <2>2. outst' \in [USNs -> 0 .. MaxCmds]
        BY <1>0, <1>1, <1>2 DEF TypeOK
    <2>3. txSeq' \in 0 .. SeqMod - 1
        BY <1>0, <1>1, SeqNext DEF TypeOK
    <2>. QED
        BY <1>0, <1>1, <1>5, <2>1, <2>2, <2>3 DEF TypeOK
<1>7. FlightsOwned'
    <2>1. InFlight' = InFlight \cup {e}
        BY <1>1, <1>5 DEF InFlight
    <2>2. outst'[u] = n /\ \A x \in InFlight : outst'[x.usn] = outst[x.usn]
        BY <1>0, <1>1, <1>4 DEF TypeOK
    <2>3. Len(cmds') = n
        BY <1>0, <1>1 DEF TypeOK
    <2>4. \A x \in InFlight : x.id <= Len(cmds) /\ outst[x.usn] = x.id
        BY <1>0 DEF FlightsOwned
    <2>5. Len(cmds) \in Nat
        BY <1>0 DEF TypeOK
    <2>. QED
        BY <1>0, <1>3, <2>1, <2>2, <2>3, <2>4, <2>5, FlightTyped DEF FlightsOwned
<1>8. FlightsDistinct'
    <2>1. \A a \in accel \cup Elems(rspWire) : a.id # e.id
        BY <1>3, <1>4 DEF InFlight
    <2>2. Apart(Elems(cmdWire'), accel') /\ Apart(Elems(cmdWire'), Elems(rspWire'))
        BY <1>0, <1>1, <1>5, <2>1 DEF FlightsDistinct, Apart
    <2>. QED
        BY <1>0, <1>1, <1>5, <2>2 DEF FlightsDistinct
<1>. QED
    BY <1>1, <1>6, <1>7, <1>8, <1>0 DEF PInv, ResponsePaired

LEMMA DeviceRxCmdPInv ==
    ASSUME PInv, DeviceRxCmd
    PROVE  PInv'
<1>. DEFINE h == Head(cmdWire)
<1>0. TypeOK /\ FlightsOwned /\ FlightsDistinct /\ ResponsePaired
    BY DEF PInv
<1>1. /\ cmdWire # << >>
      /\ cmdWire' = Tail(cmdWire)
      /\ accel' = accel \cup {h}
      /\ devRxSeq' = (h.seq + 1) % SeqMod
      /\ gaps' \subseteq gaps \cup {"device"}
      /\ UNCHANGED <<cmds, outst, rspWire, txSeq, devTxSeq, rxSeq, done>>
    BY DEF DeviceRxCmd, SeqChecked
<1>2. /\ Tail(cmdWire) \in Seq(CmdMsg)
      /\ h \in Elems(cmdWire)
      /\ Elems(cmdWire) = Elems(Tail(cmdWire)) \cup {h}
      /\ Distinct(Tail(cmdWire))
      /\ \A x \in Elems(Tail(cmdWire)) : x.id # h.id
    BY <1>0, <1>1, TailElems DEF TypeOK, FlightsDistinct
<1>3. InFlight' = InFlight
    BY <1>1, <1>2 DEF InFlight
<1>4. TypeOK'
    <2>1. h \in CmdMsg
        BY <1>0, <1>2, FlightTyped
    <2>2. devRxSeq' \in 0 .. SeqMod - 1
        BY <1>1, <2>1, SeqNext DEF CmdMsg
    <2>. QED
        BY <1>0, <1>1, <1>2, <2>1, <2>2 DEF TypeOK
<1>5. FlightsOwned'
    BY <1>0, <1>1, <1>3 DEF FlightsOwned
<1>6. FlightsDistinct'
    <2>1. \A a \in accel \cup Elems(rspWire) : a.id # h.id
        BY <1>0, <1>2 DEF FlightsDistinct, Apart
    <2>2. \A m1, m2 \in accel' : m1.id = m2.id => m1 = m2
        BY <1>0, <1>1, <2>1 DEF FlightsDistinct
    <2>3. Apart(Elems(cmdWire'), accel')
        BY <1>0, <1>1, <1>2 DEF FlightsDistinct, Apart
    <2>4. Apart(accel', Elems(rspWire'))
        BY <1>0, <1>1, <2>1 DEF FlightsDistinct, Apart
    <2>5. Apart(Elems(cmdWire'), Elems(rspWire'))
        BY <1>0, <1>1, <1>2 DEF FlightsDistinct, Apart
    <2>. QED
        BY <1>0, <1>1, <1>2, <2>2, <2>3, <2>4, <2>5 DEF FlightsDistinct
<1>. QED
    BY <1>1, <1>4, <1>5, <1>6, <1>0 DEF PInv, ResponsePaired

LEMMA DeviceRspPInv ==
    ASSUME PInv, NEW m \in accel, DeviceRsp(m)
    PROVE  PInv'
<1>0. TypeOK /\ FlightsOwned /\ FlightsDistinct /\ ResponsePaired
    BY DEF PInv
<1>1. PICK ec \in Outcomes(m) :
          rspWire' = Append(rspWire, [seq |-> devTxSeq, id |-> m.id, usn |-> m.usn,
                                      ins |-> m.ins, ec |-> ec, lr |-> RspLen(m, ec)])
    BY DEF DeviceRsp
<1>. DEFINE r == [seq |-> devTxSeq, id |-> m.id, usn |-> m.usn,
                  ins |-> m.ins, ec |-> ec, lr |-> RspLen(m, ec)]
<1>2. /\ accel' = accel \ {m}
      /\ devTxSeq' = (devTxSeq + 1) % SeqMod
      /\ UNCHANGED <<cmds, outst, cmdWire, txSeq, devRxSeq, rxSeq, gaps, done>>
    BY DEF DeviceRsp
<1>3. m \in CmdMsg /\ r \in RspMsg
    <2>1. m \in CmdMsg
        BY <1>0 DEF TypeOK
    <2>2. ec \in ErrorCodes /\ RspLen(m, ec) \in Nat
        BY <2>1, RspLenNat
    <2>. QED
        BY <1>0, <2>1, <2>2 DEF TypeOK, CmdMsg, RspMsg
<1>4. /\ rspWire' \in Seq(RspMsg)
      /\ Elems(rspWire') = Elems(rspWire) \cup {r}
      /\ Distinct(rspWire')
    <2>1. \A x \in Elems(rspWire) : x.id # r.id
        BY <1>0 DEF FlightsDistinct, Apart
    <2>. QED
        BY <1>0, <1>1, <1>3, <2>1, AppendElems DEF TypeOK, FlightsDistinct
<1>5. TypeOK'
    <2>1. devTxSeq' \in 0 .. SeqMod - 1
        BY <1>0, <1>2, SeqNext DEF TypeOK
    <2>. QED
        BY <1>0, <1>2, <1>4, <2>1 DEF TypeOK
<1>6. FlightsOwned'
    <2>1. InFlight' \subseteq InFlight \cup {r}
        BY <1>2, <1>4 DEF InFlight
    <2>2. r.id <= Len(cmds) /\ outst[r.usn] = r.id
        BY <1>0 DEF FlightsOwned, InFlight
    <2>. QED
        BY <1>0, <1>2, <2>1, <2>2 DEF FlightsOwned
<1>7. FlightsDistinct'
    <2>1. \A a \in accel' : a.id # r.id
        BY <1>0, <1>2 DEF FlightsDistinct
    <2>2. \A x \in Elems(cmdWire) : x.id # r.id
        BY <1>0 DEF FlightsDistinct, Apart
    <2>3. Apart(Elems(cmdWire'), Elems(rspWire')) /\ Apart(accel', Elems(rspWire'))
        BY <1>0, <1>2, <1>4, <2>1, <2>2 DEF FlightsDistinct, Apart
    <2>4. Apart(Elems(cmdWire'), accel')
        BY <1>0, <1>2 DEF FlightsDistinct, Apart
    <2>. QED
        BY <1>0, <1>2, <1>4, <2>3, <2>4 DEF FlightsDistinct
<1>. QED
    BY <1>2, <1>5, <1>6, <1>7, <1>0 DEF PInv, ResponsePaired

LEMMA ResponseIndPInv ==
    ASSUME PInv, C2XSec_ResponseInd
    PROVE  PInv'
<1>. DEFINE r == Head(rspWire)
<1>0. TypeOK /\ FlightsOwned /\ FlightsDistinct /\ ResponsePaired
    BY DEF PInv
<1>1. /\ rspWire # << >>
      /\ rspWire' = Tail(rspWire)
      /\ rxSeq' = (r.seq + 1) % SeqMod
      /\ gaps' \subseteq gaps \cup {"host"}
      /\ UNCHANGED <<cmds, cmdWire, accel, txSeq, devRxSeq, devTxSeq>>
    BY DEF C2XSec_ResponseInd, SeqChecked
<1>2. /\ Tail(rspWire) \in Seq(RspMsg)
      /\ r \in Elems(rspWire)
      /\ Elems(rspWire) = Elems(Tail(rspWire)) \cup {r}
      /\ Distinct(Tail(rspWire))
      /\ \A x \in Elems(Tail(rspWire)) : x.id # r.id
    BY <1>0, <1>1, TailElems DEF TypeOK, FlightsDistinct
<1>3. /\ r \in RspMsg
      /\ outst[r.usn] = r.id /\ r.id \in 1 .. MaxCmds /\ r.usn \in USNs
    BY <1>0, <1>2, FlightTyped DEF FlightsOwned, InFlight
\* The stack finds the USN awaited, by the command the response is for
<1>4. /\ outst' = [outst EXCEPT ![r.usn] = 0]
      /\ done' = [done EXCEPT ![r.id] = [ec |-> r.ec, ok |-> Decodes(r, cmds[r.id]),
                                         from |-> r.id]]
    BY <1>3 DEF C2XSec_ResponseInd
<1>5. \A x \in Elems(cmdWire) \cup accel \cup Elems(Tail(rspWire)) :
          x.id # r.id /\ x.usn # r.usn
    <2>1. \A x \in Elems(cmdWire) \cup accel : x.id # r.id
        BY <1>0, <1>2 DEF FlightsDistinct, Apart
    <2>2. \A x \in Elems(cmdWire) \cup accel \cup Elems(Tail(rspWire)) :
              outst[x.usn] = x.id
        BY <1>0, <1>2 DEF FlightsOwned, InFlight
    <2>. QED
        BY <1>2, <1>3, <2>1, <2>2
<1>6. TypeOK'
    <2>1. rxSeq' \in 0 .. SeqMod - 1
        BY <1>1, <1>3, SeqNext DEF RspMsg
    <2>2. [ec |-> r.ec, ok |-> Decodes(r, cmds[r.id]), from |-> r.id] \in Result
        BY <1>3 DEF RspMsg, Result, Decodes
    <2>3. done' \in [1 .. MaxCmds -> {Pending} \cup Result]
        BY <1>0, <1>3, <1>4, <2>2 DEF TypeOK
    <2>4. outst' \in [USNs -> 0 .. MaxCmds]
        BY <1>0, <1>3, <1>4, C2XAssumption DEF TypeOK
    <2>. QED
        BY <1>0, <1>1, <1>2, <2>1, <2>3, <2>4 DEF TypeOK
<1>7. FlightsOwned'
    <2>1. InFlight' = Elems(cmdWire) \cup accel \cup Elems(Tail(rspWire))
        BY <1>1 DEF InFlight
    <2>2. \A x \in InFlight' : outst'[x.usn] = outst[x.usn]
        BY <1>0, <1>3, <1>4, <1>5, <2>1 DEF TypeOK
    <2>. QED
        BY <1>0, <1>1, <1>2, <2>1, <2>2 DEF FlightsOwned, InFlight
<1>8. FlightsDistinct'
    BY <1>0, <1>1, <1>2 DEF FlightsDistinct, Apart
<1>9. ResponsePaired'
    BY <1>0, <1>3, <1>4 DEF ResponsePaired, TypeOK
<1>. QED
    BY <1>6, <1>7, <1>8, <1>9 DEF PInv

LEMMA LosePInv ==
    ASSUME PInv, Lose
    PROVE  PInv'
<1>0. TypeOK /\ FlightsOwned /\ FlightsDistinct /\ ResponsePaired
    BY DEF PInv
<1>1. UNCHANGED <<cmds, outst, accel, txSeq, devRxSeq, devTxSeq, rxSeq, gaps, done>>
    BY DEF Lose
<1>2. CASE \E k \in 1 .. Len(cmdWire) : cmdWire' = Drop(cmdWire, k) /\ rspWire' = rspWire
    <2>1. PICK k \in 1 .. Len(cmdWire) : cmdWire' = Drop(cmdWire, k) /\ rspWire' = rspWire
        BY <1>2
    <2>2. /\ cmdWire' \in Seq(CmdMsg)
          /\ Elems(cmdWire') \subseteq Elems(cmdWire)
          /\ Distinct(cmdWire')
        BY <1>0, <2>1, DropElems DEF TypeOK, FlightsDistinct
    <2>. QED
        BY <1>0, <1>1, <2>1, <2>2
           DEF PInv, TypeOK, FlightsOwned, FlightsDistinct, ResponsePaired, InFlight, Apart
<1>3. CASE \E k \in 1 .. Len(rspWire) : rspWire' = Drop(rspWire, k) /\ cmdWire' = cmdWire
    <2>1. PICK k \in 1 .. Len(rspWire) : rspWire' = Drop(rspWire, k) /\ cmdWire' = cmdWire
        BY <1>3
    <2>2. /\ rspWire' \in Seq(RspMsg)
          /\ Elems(rspWire') \subseteq Elems(rspWire)
          /\ Distinct(rspWire')
        BY <1>0, <2>1, DropElems DEF TypeOK, FlightsDistinct
    <2>. QED
        BY <1>0, <1>1, <2>1, <2>2
           DEF PInv, TypeOK, FlightsOwned, FlightsDistinct, ResponsePaired, InFlight, Apart
<1>. QED
    BY <1>2, <1>3 DEF Lose, Drop

LEMMA NextPInv == PInv /\ [Next]_c2xvars => PInv'
<1>. SUFFICES ASSUME PInv, [Next]_c2xvars PROVE PInv'
    OBVIOUS
<1>1. CASE \E u \in USNs, ins \in InsArgs, cid \in CidArgs : C2XSec_CommandReq(u, ins, cid)
    BY <1>1, CommandReqPInv
<1>2. CASE DeviceRxCmd
    BY <1>2, DeviceRxCmdPInv
<1>3. CASE \E m \in accel : DeviceRsp(m)
    BY <1>3, DeviceRspPInv
<1>4. CASE C2XSec_ResponseInd
    BY <1>4, ResponseIndPInv
<1>5. CASE Lose
    BY <1>5, LosePInv
<1>6. CASE UNCHANGED c2xvars
    BY <1>6 DEF c2xvars, PInv, TypeOK, FlightsOwned, FlightsDistinct, ResponsePaired,
                InFlight, Apart, Elems, Distinct
<1>. QED
    BY <1>1, <1>2, <1>3, <1>4, <1>5, <1>6 DEF Next

-----------------------------------------------------------------------------

(***************************************************************************)
(* For every set of USNs and every number of commands, whether or not the  *)
(* transport loses messages and in whatever order the applet answers, the *)
(* response C2XSecRsp hands the stack for a USN is the one caused by the  *)
(* command the stack issued under that USN.  It rests on the stack taking *)
(* only a free USN: then each message in flight belongs to the command its *)
(* USN awaits, and no two messages in flight belong to the same command.  *)
(***************************************************************************)
THEOREM C2XResponsesPaired == C2XSpec => []ResponsePaired
<1>1. Init => PInv
    BY InitPInv
<1>2. PInv /\ [Next]_c2xvars => PInv'
    BY NextPInv
<1>3. PInv => ResponsePaired
    BY DEF PInv
<1>. QED
    BY <1>1, <1>2, <1>3, PTL DEF C2XSpec

-----------------------------------------------------------------------------
(* The LC the stack builds and the LC the applet expects *)

\* The error codes that reject a command's framing
Framing == {MKXC2XSEC_INS_NOT_SUPPORTED, MKXC2XSEC_CURVEID_INVALID,
            MKXC2XSEC_INVALID_LENGTH}

\* A command with an instruction or a curve the API does not define
Unsupported(c) == c.ins \notin Insts \/ c.cid \notin CIDs

\* sizeof of header and payload equals MKXC2XSEC_CMD_*_LC for every
\* instruction and curve
LEMMA LCAgrees ==
    ASSUME NEW ins \in Insts, NEW cid \in CIDs
    PROVE  BuildLC(ins, cid) = CmdLC(ins, cid)
BY DEF BuildLC, CmdLC, CmdLC256, CmdLC384, CmdPayloadSize, Insts, CIDs,
       MKXC2XSEC_INST_COUNT, MKXC2XSEC_CID_COUNT, Width, CmdHdrSize,
       VSOHSize, DPKSize, REPKSize, DPKVSOHSize, PairSize, CompPubKeySize,
       MKXC2XSEC_INST_VERIFY_MESSAGE, MKXC2XSEC_INST_DECOMPRESS_PUBLIC_KEY,
       MKXC2XSEC_INST_RECONSTRUCT_PUBLIC_KEY,
       MKXC2XSEC_INST_DECOMPRESS_AND_VERIFY_MESSAGE, MKXC2XSEC_CID_BRAINPOOL384R1

\* The applet rejects the framing of a command the stack built exactly when
\* its instruction or curve is unsupported
LEMMA OutcomesFraming ==
    ASSUME NEW m, m.lc = BuildLC(m.ins, m.cid), NEW ec \in Outcomes(m)
    PROVE  ec \in Framing <=> Unsupported(m)
<1>1. CASE Unsupported(m)
    BY <1>1 DEF Outcomes, Framing, Unsupported
<1>2. CASE ~Unsupported(m)
    <2>1. m.lc = CmdLC(m.ins, m.cid)
        BY <1>2, LCAgrees DEF Unsupported
    <2>2. ec \in {MKXC2XSEC_SUCCESS, MKXC2XSEC_WRONG_DATA, MKXC2XSEC_NO_PRECISE_DIAGNOSIS}
        BY <1>2, <2>1 DEF Outcomes, Unsupported
    <2>. QED
        BY <1>2, <2>2 DEF Framing, Unsupported, MKXC2XSEC_SUCCESS, MKXC2XSEC_WRONG_DATA,
                          MKXC2XSEC_NO_PRECISE_DIAGNOSIS, MKXC2XSEC_INS_NOT_SUPPORTED,
                          MKXC2XSEC_CURVEID_INVALID, MKXC2XSEC_INVALID_LENGTH
<1>. QED
    BY <1>1, <1>2

-----------------------------------------------------------------------------
(* The inductive invariant of the framing theorem *)

\* Every command carries the LC the stack computed for it
CmdsBuilt == \A n \in 1 .. Len(cmds) : cmds[n].lc = BuildLC(cmds[n].ins, cmds[n].cid)

\* A command message carries the fields of its command
CmdsCarried ==
    \A m \in Elems(cmdWire) \cup accel :
        m.ins = cmds[m.id].ins /\ m.cid = cmds[m.id].cid /\ m.lc = cmds[m.id].lc

\* A response rejects the framing exactly of an unsupported command
RspsCarried ==
    \A r \in Elems(rspWire) : r.ec \in Framing <=> Unsupported(cmds[r.id])

\* Only issued commands are completed
DoneIssued == \A n \in 1 .. MaxCmds : done[n] # Pending => n <= Len(cmds)

CInv == /\ CmdsBuilt /\ CmdsCarried /\ RspsCarried /\ DoneIssued
        /\ FramingRejectedOnlyIfUnsupported

LEMMA InitCInv == Init => CInv
BY DEF Init, CInv, CmdsBuilt, CmdsCarried, RspsCarried, DoneIssued,
       FramingRejectedOnlyIfUnsupported, Elems

LEMMA CommandReqCInv ==
    ASSUME PInv, CInv, NEW u \in USNs, NEW ins \in InsArgs, NEW cid \in CidArgs,
           C2XSec_CommandReq(u, ins, cid)
    PROVE  CInv'
<1>. DEFINE n == Len(cmds) + 1
            c == [usn |-> u, ins |-> ins, cid |-> cid, lc |-> BuildLC(ins, cid)]
            e == [seq |-> txSeq, id |-> n, usn |-> u, ins |-> ins, cid |-> cid,
                  lc |-> BuildLC(ins, cid)]
<1>. HIDE DEF c, e
<1>0. /\ TypeOK /\ FlightsOwned /\ MaxCmds \in Nat
      /\ CmdsBuilt /\ CmdsCarried /\ RspsCarried /\ DoneIssued
      /\ FramingRejectedOnlyIfUnsupported
    BY C2XAssumption DEF PInv, CInv
<1>1. /\ cmds' = Append(cmds, c)
      /\ cmdWire' = Append(cmdWire, e)
      /\ UNCHANGED <<accel, rspWire, done>>
    BY DEF C2XSec_CommandReq, c, e
<1>2. /\ Len(cmds') = n /\ cmds'[n] = c
      /\ \A k \in 1 .. Len(cmds) : cmds'[k] = cmds[k]
    BY <1>0, <1>1 DEF TypeOK
<1>3. \A x \in InFlight : x.id \in 1 .. Len(cmds)
    BY <1>0, FlightTyped DEF FlightsOwned
<1>4. Elems(cmdWire') = Elems(cmdWire) \cup {e}
    BY <1>0, <1>1, ElemsAppend DEF TypeOK
<1>5. CmdsBuilt'
    BY <1>0, <1>2 DEF CmdsBuilt, c
<1>6. CmdsCarried'
    <2>1. e.ins = cmds'[e.id].ins /\ e.cid = cmds'[e.id].cid /\ e.lc = cmds'[e.id].lc
        BY <1>2 DEF c, e
    <2>. QED
        BY <1>0, <1>1, <1>2, <1>3, <1>4, <2>1 DEF CmdsCarried, InFlight
<1>7. RspsCarried'
    BY <1>0, <1>1, <1>2, <1>3 DEF RspsCarried, InFlight
<1>8. DoneIssued' /\ FramingRejectedOnlyIfUnsupported'
    BY <1>0, <1>1, <1>2 DEF DoneIssued, FramingRejectedOnlyIfUnsupported
<1>. QED
    BY <1>5, <1>6, <1>7, <1>8 DEF CInv

LEMMA DeviceRxCmdCInv ==
    ASSUME PInv, CInv, DeviceRxCmd
    PROVE  CInv'
<1>1. /\ Elems(cmdWire') \cup accel' = Elems(cmdWire) \cup accel
      /\ UNCHANGED <<cmds, rspWire, done>>
    <2>1. /\ cmdWire # << >> /\ cmdWire' = Tail(cmdWire)
          /\ accel' = accel \cup {Head(cmdWire)}
          /\ UNCHANGED <<cmds, rspWire, done>>
        BY DEF DeviceRxCmd
    <2>2. Elems(cmdWire) = Elems(Tail(cmdWire)) \cup {Head(cmdWire)}
        BY <2>1, TailElems DEF PInv, TypeOK, FlightsDistinct
    <2>. QED
        BY <2>1, <2>2
<1>. QED
    BY <1>1 DEF CInv, CmdsBuilt, CmdsCarried, RspsCarried, DoneIssued,
                FramingRejectedOnlyIfUnsupported

LEMMA DeviceRspCInv ==
    ASSUME PInv, CInv, NEW m \in accel, DeviceRsp(m)
    PROVE  CInv'
<1>0. /\ TypeOK /\ FlightsOwned
      /\ CmdsBuilt /\ CmdsCarried /\ RspsCarried /\ DoneIssued
      /\ FramingRejectedOnlyIfUnsupported
    BY DEF PInv, CInv
<1>1. PICK ec \in Outcomes(m) :
          rspWire' = Append(rspWire, [seq |-> devTxSeq, id |-> m.id, usn |-> m.usn,
                                      ins |-> m.ins, ec |-> ec, lr |-> RspLen(m, ec)])
    BY DEF DeviceRsp
<1>. DEFINE r == [seq |-> devTxSeq, id |-> m.id, usn |-> m.usn,
                  ins |-> m.ins, ec |-> ec, lr |-> RspLen(m, ec)]
<1>2. /\ accel' = accel \ {m}
      /\ UNCHANGED <<cmds, cmdWire, done>>
    BY DEF DeviceRsp
<1>3. Elems(rspWire') = Elems(rspWire) \cup {r}
    BY <1>0, <1>1, ElemsAppend DEF TypeOK
<1>4. m.id \in 1 .. Len(cmds) /\ m.ins = cmds[m.id].ins /\ m.cid = cmds[m.id].cid
      /\ m.lc = BuildLC(m.ins, m.cid)
    <2>1. m.id \in 1 .. Len(cmds)
        BY <1>0, FlightTyped DEF FlightsOwned, InFlight
    <2>2. m.ins = cmds[m.id].ins /\ m.cid = cmds[m.id].cid /\ m.lc = cmds[m.id].lc
        BY <1>0 DEF CmdsCarried
    <2>. QED
        BY <1>0, <2>1, <2>2 DEF CmdsBuilt
<1>5. ec \in Framing <=> Unsupported(cmds[m.id])
    <2>1. ec \in Framing <=> Unsupported(m)
        BY <1>4, OutcomesFraming
    <2>. QED
        BY <1>4, <2>1 DEF Unsupported
<1>6. RspsCarried'
    BY <1>0, <1>2, <1>3, <1>5 DEF RspsCarried
<1>. QED
    BY <1>0, <1>2, <1>6
       DEF CInv, CmdsBuilt, CmdsCarried, DoneIssued, FramingRejectedOnlyIfUnsupported

LEMMA ResponseIndCInv ==
    ASSUME PInv, CInv, C2XSec_ResponseInd
    PROVE  CInv'
<1>. DEFINE r == Head(rspWire)
<1>0. /\ TypeOK /\ FlightsOwned /\ FlightsDistinct
      /\ CmdsBuilt /\ CmdsCarried /\ RspsCarried /\ DoneIssued
      /\ FramingRejectedOnlyIfUnsupported
    BY DEF PInv, CInv
<1>1. /\ rspWire # << >> /\ rspWire' = Tail(rspWire)
      /\ UNCHANGED <<cmds, cmdWire, accel>>
    BY DEF C2XSec_ResponseInd
<1>2. r \in Elems(rspWire) /\ Elems(rspWire) = Elems(Tail(rspWire)) \cup {r}
    BY <1>0, <1>1, TailElems DEF TypeOK, FlightsDistinct
<1>3. outst[r.usn] = r.id /\ r.id \in 1 .. MaxCmds /\ r.id <= Len(cmds)
    BY <1>0, <1>2, FlightTyped DEF FlightsOwned, InFlight
<1>4. done' = [done EXCEPT ![r.id] = [ec |-> r.ec, ok |-> Decodes(r, cmds[r.id]),
                                      from |-> r.id]]
    BY <1>3 DEF C2XSec_ResponseInd
<1>5. r.ec \in Framing <=> Unsupported(cmds[r.id])
    BY <1>0, <1>2 DEF RspsCarried
<1>6. DoneIssued' /\ FramingRejectedOnlyIfUnsupported'
    BY <1>0, <1>1, <1>3, <1>4, <1>5
       DEF TypeOK, DoneIssued, FramingRejectedOnlyIfUnsupported, Framing, Unsupported
<1>. QED
    BY <1>0, <1>1, <1>2, <1>6 DEF CInv, CmdsBuilt, CmdsCarried, RspsCarried

LEMMA LoseCInv ==
    ASSUME PInv, CInv, Lose
    PROVE  CInv'
<1>0. TypeOK /\ FlightsDistinct /\ CInv
    BY DEF PInv
<1>1. UNCHANGED <<cmds, accel, done>>
    BY DEF Lose
<1>2. CASE \E k \in 1 .. Len(cmdWire) : cmdWire' = Drop(cmdWire, k) /\ rspWire' = rspWire
    <2>1. PICK k \in 1 .. Len(cmdWire) : cmdWire' = Drop(cmdWire, k) /\ rspWire' = rspWire
        BY <1>2
    <2>2. Elems(cmdWire') \subseteq Elems(cmdWire)
        BY <1>0, <2>1, DropElems DEF TypeOK, FlightsDistinct
    <2>. QED
        BY <1>0, <1>1, <2>1, <2>2
           DEF CInv, CmdsBuilt, CmdsCarried, RspsCarried, DoneIssued,
               FramingRejectedOnlyIfUnsupported
<1>3. CASE \E k \in 1 .. Len(rspWire) : rspWire' = Drop(rspWire, k) /\ cmdWire' = cmdWire
    <2>1. PICK k \in 1 .. Len(rspWire) : rspWire' = Drop(rspWire, k) /\ cmdWire' = cmdWire
        BY <1>3
    <2>2. Elems(rspWire') \subseteq Elems(rspWire)
        BY <1>0, <2>1, DropElems DEF TypeOK, FlightsDistinct
    <2>. QED
        BY <1>0, <1>1, <2>1, <2>2
           DEF CInv, CmdsBuilt, CmdsCarried, RspsCarried, DoneIssued,
               FramingRejectedOnlyIfUnsupported
<1>. QED
    BY <1>2, <1>3 DEF Lose, Drop

LEMMA NextCInv == PInv /\ CInv /\ [Next]_c2xvars => CInv'
<1>. SUFFICES ASSUME PInv, CInv, [Next]_c2xvars PROVE CInv'
    OBVIOUS
<1>1. CASE \E u \in USNs, ins \in InsArgs, cid \in CidArgs : C2XSec_CommandReq(u, ins, cid)
    BY <1>1, CommandReqCInv
<1>2. CASE DeviceRxCmd
    BY <1>2, DeviceRxCmdCInv
<1>3. CASE \E m \in accel : DeviceRsp(m)
    BY <1>3, DeviceRspCInv
<1>4. CASE C2XSec_ResponseInd
    BY <1>4, ResponseIndCInv
<1>5. CASE Lose
    BY <1>5, LoseCInv
<1>6. CASE UNCHANGED c2xvars
    BY <1>6 DEF c2xvars, CInv, CmdsBuilt, CmdsCarried, RspsCarried, DoneIssued,
                FramingRejectedOnlyIfUnsupported, Elems
<1>. QED
    BY <1>1, <1>2, <1>3, <1>4, <1>5, <1>6 DEF Next

(***************************************************************************)
(* For every set of USNs and every number of commands, with or without     *)
(* loss: the applet rejects the framing of a command (INS_NOT_SUPPORTED,  *)
(* CURVEID_INVALID, INVALID_LENGTH) exactly when the stack used an        *)
(* instruction or a curve the API does not define.  The LC the stack      *)
(* computes as sizeof of tMKxC2XSecCmdHdr and the packed payload structure *)
(* equals every MKXC2XSEC_CMD_*_LC constant (LCAgrees), and the pairing   *)
(* of C2XResponsesPaired takes each verdict to its own command.           *)
(***************************************************************************)
THEOREM C2XFramingSound == C2XSpec => []FramingRejectedOnlyIfUnsupported
<1>1. Init => PInv /\ CInv
    BY InitPInv, InitCInv
<1>2. PInv /\ CInv /\ [Next]_c2xvars => PInv' /\ CInv'
    BY NextPInv, NextCInv
<1>3. CInv => FramingRejectedOnlyIfUnsupported
    BY DEF CInv
<1>. QED
    BY <1>1, <1>2, <1>3, PTL DEF C2XSpec

=============================================================================
