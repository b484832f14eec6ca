--------------------------- MODULE MCAuthProgress ---------------------------
(***************************************************************************)
(* Two requests of Auth for TLC that are fair, in behaviours in which they *)
(* overlap and in behaviours in which they come one after the other.  The  *)
(* latter keep more promises, and need one challenge more to break them.   *)
(***************************************************************************)
EXTENDS MCAuth

VARIABLE alone      \* requests come one after the other

\* Bound: when requests overlap, they have one challenge less.
CodesInUse == Cardinality({c \in CodeId : Taken(c)}) + Cardinality({r \in Request : At(r, "code")})

Busy == {r \in Request : ~At(r, "idle")}

\* No property and no fairness condition names a session, so that liveness is
\* the same for all renamings of sessions.
SessionSymmetry == Permutations(Session)

MCInit == Init /\ alone \in BOOLEAN
MCNext == /\ Next /\ UNCHANGED alone
          /\ IF alone THEN Busy' \subseteq {r1} ELSE CodesInUse' < MaxCodes
MCSpec == MCInit /\ [][MCNext]_<<vars, alone>> /\ \A r \in Request : SF_vars(Continue(r))

\* Only the newest code of a kind can be used.
SerialOneLiveCode == alone => OneLiveCode

\* Only the current password opens a session.
SerialCurrentPassword == alone => CurrentPassword

\* The reuse of a token ends its family.
SerialReuseEndsFamily == [][alone => \A r \in Request : EndsFamily(r)]_vars
=============================================================================
