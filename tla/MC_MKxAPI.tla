----------------------------- MODULE MC_MKxAPI -----------------------------
(* Model-checking instance of MKxAPI: one stack thread and one buffer,     *)
(* with bounds chosen so that requests and indications overlap on the     *)
(* wire.  Two threads or two buffers exceed the time a run is given; the  *)
(* TLAPS proofs of MKxAPI_Proofs and MKxAPI_Refinement cover any number.   *)
EXTENDS MKxAPI, TLC

CONSTANTS t1, p1

MC_Thread1 == {t1}
MC_Pkts == {p1}
=============================================================================
