------------------------------- MODULE MCAuth -------------------------------
(* Instances of Auth for TLC.                                              *)
EXTENDS Auth, TLC

CONSTANTS r1, r2, r3, s1, s2, s3

AuthSymmetry == Permutations(Request) \cup Permutations(Session)
=============================================================================
