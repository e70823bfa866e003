---------------------------- MODULE C2XSecLayout ----------------------------
(***************************************************************************)
(* The C2X security APDU of r17.1 llc-api.h as numbers: the enumerations   *)
(* of instructions, curves and error codes, the byte sizes of the packed   *)
(* command and response structures (each one the sum of its members, as    *)
(* sizeof computes it for __attribute__((__packed__))), and the LC and LR  *)
(* constants the header defines for them.  The payload bytes themselves   *)
(* (keys, hashes, signatures) are opaque to the API and not modelled.     *)
(***************************************************************************)
EXTENDS Naturals

\* eMKxC2XSecInst
MKXC2XSEC_INST_VERIFY_MESSAGE == 0
MKXC2XSEC_INST_DECOMPRESS_PUBLIC_KEY == 1
MKXC2XSEC_INST_RECONSTRUCT_PUBLIC_KEY == 2
MKXC2XSEC_INST_DECOMPRESS_AND_VERIFY_MESSAGE == 3
MKXC2XSEC_INST_COUNT == 4
Insts == 0 .. MKXC2XSEC_INST_COUNT - 1

\* eMKxC2XSecCurveID
MKXC2XSEC_CID_NIST256 == 0
MKXC2XSEC_CID_BRAINPOOL256R1 == 1
MKXC2XSEC_CID_BRAINPOOL384R1 == 2
MKXC2XSEC_CID_COUNT == 3
CIDs == 0 .. MKXC2XSEC_CID_COUNT - 1

\* eMKxC2XSecErrorCode
MKXC2XSEC_SUCCESS == 0
MKXC2XSEC_INS_NOT_SUPPORTED == 1
MKXC2XSEC_INVALID_LENGTH == 2
MKXC2XSEC_CURVEID_INVALID == 3
MKXC2XSEC_WRONG_DATA == 4
MKXC2XSEC_NO_PRECISE_DIAGNOSIS == 5
ErrorCodes == 0 .. 5

-----------------------------------------------------------------------------
(* sizeof of the packed structures, in bytes *)

\* tMKxC2XSecCoord/Hash/Sig256 are uint8_t[32], the 384 bit ones uint8_t[48]
Width(cid) == IF cid = MKXC2XSEC_CID_BRAINPOOL384R1 THEN 48 ELSE 32

\* tMKxC2XSecCmdHdr and tMKxC2XSecRspHdr: four uint16_t, then Data[]
CmdHdrSize == 2 + 2 + 2 + 2
RspHdrSize == 2 + 2 + 2 + 2

\* tMKxC2XSecPair: X, Y; tMKxC2XSecCompPubKey: X, Ybit
PairSize(w) == w + w
CompPubKeySize(w) == w + 1

\* tMKxC2XSecVSOH: PubKey, E, R, S
VSOHSize(w) == PairSize(w) + w + w + w
\* tMKxC2XSecDPKVSOH: CompPubKey, Padding[3], E, R, S
DPKVSOHSize(w) == CompPubKeySize(w) + 3 + w + w + w
\* Mutant: tMKxC2XSecDPK without its Padding[3]
DPKSize_NoPadding(w) == CompPubKeySize(w)
\* tMKxC2XSecDPK: CompPubKey, Padding[3]
DPKSize(w) == CompPubKeySize(w) + 3
\* tMKxC2XSecREPK: hvij, RVij, Spca
REPKSize(w) == w + PairSize(w) + PairSize(w)

\* tMKxC2XSecVerRes is uint32_t
VerResSize == 4

\* The command payload an instruction carries
CmdPayloadSize(ins, w) ==
    CASE ins = MKXC2XSEC_INST_VERIFY_MESSAGE -> VSOHSize(w)
      [] ins = MKXC2XSEC_INST_DECOMPRESS_PUBLIC_KEY -> DPKSize(w)
      [] ins = MKXC2XSEC_INST_RECONSTRUCT_PUBLIC_KEY -> REPKSize(w)
      [] ins = MKXC2XSEC_INST_DECOMPRESS_AND_VERIFY_MESSAGE -> DPKVSOHSize(w)

\* Mutant: tMKxC2XSecVerifyPK*Rsp taken as the public key alone
RspPayloadSize_NoVerRes(ins, w) ==
    CASE ins = MKXC2XSEC_INST_VERIFY_MESSAGE -> VerResSize
      [] ins = MKXC2XSEC_INST_DECOMPRESS_PUBLIC_KEY -> PairSize(w)
      [] ins = MKXC2XSEC_INST_RECONSTRUCT_PUBLIC_KEY -> PairSize(w)
      [] ins = MKXC2XSEC_INST_DECOMPRESS_AND_VERIFY_MESSAGE -> PairSize(w)

\* The response payload of an instruction: tMKxC2XSecVerifyRsp,
\* tMKxC2XSecPubKey256/384Rsp or tMKxC2XSecVerifyPK256/384Rsp
RspPayloadSize(ins, w) ==
    CASE ins = MKXC2XSEC_INST_VERIFY_MESSAGE -> VerResSize
      [] ins = MKXC2XSEC_INST_DECOMPRESS_PUBLIC_KEY -> PairSize(w)
      [] ins = MKXC2XSEC_INST_RECONSTRUCT_PUBLIC_KEY -> PairSize(w)
      [] ins = MKXC2XSEC_INST_DECOMPRESS_AND_VERIFY_MESSAGE -> VerResSize + PairSize(w)

-----------------------------------------------------------------------------
(* The C2X length definitions: MKXC2XSEC_CMD_*_LC and MKXC2XSEC_RSP_*_LR *)

\* LC of a command by instruction, for the 256 and the 384 bit curves
CmdLC256 == [i \in Insts |-> CASE i = MKXC2XSEC_INST_VERIFY_MESSAGE -> 168
                               [] i = MKXC2XSEC_INST_DECOMPRESS_PUBLIC_KEY -> 44
                               [] i = MKXC2XSEC_INST_RECONSTRUCT_PUBLIC_KEY -> 168
                               [] i = MKXC2XSEC_INST_DECOMPRESS_AND_VERIFY_MESSAGE -> 140]
CmdLC384 == [i \in Insts |-> CASE i = MKXC2XSEC_INST_VERIFY_MESSAGE -> 248
                               [] i = MKXC2XSEC_INST_DECOMPRESS_PUBLIC_KEY -> 60
                               [] i = MKXC2XSEC_INST_RECONSTRUCT_PUBLIC_KEY -> 248
                               [] i = MKXC2XSEC_INST_DECOMPRESS_AND_VERIFY_MESSAGE -> 204]
CmdLC(ins, cid) == IF Width(cid) = 48 THEN CmdLC384[ins] ELSE CmdLC256[ins]

\* LR of a successful response: RSP_VER_LR, RSP_PK256/384_LR, RSP_VERPK256/384_LR
RspLR(ins, cid) ==
    CASE ins = MKXC2XSEC_INST_VERIFY_MESSAGE -> 12
      [] ins \in {MKXC2XSEC_INST_DECOMPRESS_PUBLIC_KEY,
                  MKXC2XSEC_INST_RECONSTRUCT_PUBLIC_KEY} ->
            IF Width(cid) = 48 THEN 104 ELSE 72
      [] ins = MKXC2XSEC_INST_DECOMPRESS_AND_VERIFY_MESSAGE ->
            IF Width(cid) = 48 THEN 108 ELSE 76

=============================================================================
