------------------------------ MODULE Families ------------------------------
(***************************************************************************)
(* What the session service promises one user: a family of refresh tokens  *)
(* begins with a sign-in of a verified user, lives through any number of   *)
(* rotations, and once it has ended it never lives again; a new password   *)
(* ends every family there is.  Module Auth implements this.               *)
(***************************************************************************)
EXTENDS Integers

CONSTANT Family

VARIABLES
    password,   \* how many passwords the user has had, 0 before registration
    verified,   \* the e-mail address is confirmed
    family      \* the state of each family

vars == <<password, verified, family>>

In(state) == {f \in Family : family[f] = state}

Init == password = 0 /\ verified = FALSE /\ family = [f \in Family |-> "none"]

Register == password = 0 /\ password' = 1 /\ UNCHANGED <<verified, family>>

Verify == password # 0 /\ verified' = TRUE /\ UNCHANGED <<password, family>>

Begin == /\ verified
         /\ \E f \in In("none") : family' = [family EXCEPT ![f] = "live"]
         /\ UNCHANGED <<password, verified>>

End == /\ \E F \in SUBSET In("live") :
             family' = [f \in Family |-> IF f \in F THEN "ended" ELSE family[f]]
       /\ UNCHANGED <<password, verified>>

ChangePassword ==
    /\ password # 0
    /\ password' = password + 1
    /\ family' = [f \in Family |-> IF f \in In("live") THEN "ended" ELSE family[f]]
    /\ UNCHANGED verified

Next == Register \/ Verify \/ Begin \/ End \/ ChangePassword

Spec == Init /\ [][Next]_vars
=============================================================================
