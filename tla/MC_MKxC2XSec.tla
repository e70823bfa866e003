---------------------------- MODULE MC_MKxC2XSec ----------------------------
(* Model-checking instance of MKxC2XSec: two USNs, so that two commands    *)
(* await their responses at once and the applet can answer them in either *)
(* order, and a USN is reused once its command is complete.               *)
EXTENDS MKxC2XSec, TLC

CONSTANTS u1, u2

MC_USNs == {u1, u2}
\* every instruction and the unsupported MKXC2XSEC_INST_COUNT
MC_InsArgs == 0 .. MKXC2XSEC_INST_COUNT
\* a 256 bit curve, the 384 bit curve, and the invalid MKXC2XSEC_CID_COUNT
MC_CidArgs == {MKXC2XSEC_CID_NIST256, MKXC2XSEC_CID_BRAINPOOL384R1, MKXC2XSEC_CID_COUNT}

USNSymm == Permutations(MC_USNs)
=============================================================================
