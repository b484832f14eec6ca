----------------------------- MODULE MCBrowser -----------------------------
(* Instances of Browser for TLC.                                           *)
EXTENDS Browser, TLC

CONSTANTS t1, k1, k2, s1, s2, s3

\* Neither a property nor a fairness condition names a session, so its liveness
\* is the same for all renamings of sessions.
SessionSymmetry == Permutations(Session)
=============================================================================
