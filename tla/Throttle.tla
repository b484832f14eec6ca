------------------------------ MODULE Throttle ------------------------------
(***************************************************************************)
(* Sign-in attempts for one e-mail address (services/auth.rs, login_user). *)
(*                                                                         *)
(* A sign-in asks whether the address is locked, verifies the password and *)
(* then records the failure or deletes the record, each in a statement of  *)
(* its own: sign-ins that passed the first statement go on although the    *)
(* address is locked meanwhile.  An address nobody registered is treated   *)
(* as one whose password is always wrong.                                  *)
(*                                                                         *)
(* Whether a password is right is a free choice, and so is the end of a    *)
(* lockout.  guesses is observed by the properties only.                   *)
(***************************************************************************)
EXTENDS Integers, FiniteSets

CONSTANTS
    Request,        \* sign-ins that may run at once
    MaxFailed,      \* LOGIN_MAX_FAILED_ATTEMPTS
    None

ThrottleAssumption ==
    /\ IsFiniteSet(Request)
    /\ MaxFailed \in Nat \ {0}
    /\ None \notin [failed : Nat, locked : {"no", "active", "over"}]

VARIABLES
    attempts,   \* row of auth_login_attempts, locked_until against the clock
    pc,         \* per sign-in, its next statement
    guesses     \* wrong passwords answered since the row was deleted or a
                \* lockout was over

vars == <<attempts, pc, guesses>>

AttemptsRow == [failed : Nat, locked : {"no", "active", "over"}]

Locked == attempts # None /\ attempts.locked = "active"

Init ==
    /\ attempts = None
    /\ pc = [r \in Request |-> "idle"]
    /\ guesses = 0

\* ensure_login_not_throttled; a locked address is refused at once.
EnsureNotThrottled(r) ==
    /\ pc[r] = "idle" /\ ~Locked
    /\ pc' = [pc EXCEPT ![r] = "verify"]
    /\ UNCHANGED <<attempts, guesses>>

\* verify_secret, then ensure_user_email_verified: a right password of an
\* address that is not verified is refused and leaves the record alone.
Verify(r) ==
    /\ pc[r] = "verify"
    /\ \E next \in {"wrong", "right", "idle"} : pc' = [pc EXCEPT ![r] = next]
    /\ UNCHANGED <<attempts, guesses>>

\* Faulty variant: compares with > instead of >=.
ReachedLate(n) == n > MaxFailed

Reached(n) == n >= MaxFailed

\* Faulty variant: once the lockout is over the old count goes on, and the
\* next failure locks the address again.
FailedGoesOn(row) == IF row = None THEN 1 ELSE row.failed + 1

\* Faulty variant: the first failure is inserted with the default of the column.
FailedFromZero(row) == IF row = None \/ row.locked = "over" THEN 0 ELSE row.failed + 1

\* failed_attempts after one more failure; it starts again after a lockout.
Failed(row) == IF row = None \/ row.locked = "over" THEN 1 ELSE row.failed + 1

\* One INSERT ... ON CONFLICT DO UPDATE, which reads the row it has locked.
Record(row) ==
    [failed |-> Failed(row),
     locked |-> IF (row # None /\ row.locked = "active") \/ Reached(Failed(row))
                THEN "active" ELSE "no"]

\* record_failed_login_attempt, then the answer "Invalid credentials".
RecordFailed(r) ==
    /\ pc[r] = "wrong"
    /\ attempts' = Record(attempts)
    /\ guesses' = guesses + 1
    /\ pc' = [pc EXCEPT ![r] = "idle"]

\* clear_failed_login_attempts; the session follows (module Auth).
ClearFailed(r) ==
    /\ pc[r] = "right"
    /\ attempts' = None
    /\ guesses' = 0
    /\ pc' = [pc EXCEPT ![r] = "idle"]

\* The process dies, or the database refuses a statement.
Fail(r) ==
    /\ pc[r] # "idle"
    /\ pc' = [pc EXCEPT ![r] = "idle"]
    /\ UNCHANGED <<attempts, guesses>>

\* LOGIN_LOCKOUT_MINUTES have passed.
LockoutOver ==
    /\ Locked
    /\ attempts' = [attempts EXCEPT !.locked = "over"]
    /\ guesses' = 0
    /\ UNCHANGED pc

Next ==
    \/ LockoutOver
    \/ \E r \in Request : \/ EnsureNotThrottled(r) \/ Verify(r)
                          \/ RecordFailed(r) \/ ClearFailed(r) \/ Fail(r)

Spec == Init /\ [][Next]_vars

-----------------------------------------------------------------------------
(* Properties.                                                             *)

\* The row and the sign-ins are well formed, and a row always counts a failure.
TypeOK ==
    /\ attempts \in AttemptsRow \cup {None}
    /\ attempts # None => attempts.failed > 0
    /\ pc \in [Request -> {"idle", "verify", "wrong", "right"}]
    /\ guesses \in Nat

\* Sign-ins that passed ensure_login_not_throttled and may still guess.
Passed == {r \in Request : pc[r] \in {"verify", "wrong"}}

\* Nobody escapes the lockout, and nobody is locked out early: the address is
\* locked exactly while MaxFailed wrong passwords or more were answered since the
\* last lockout or sign-in, in whatever order the statements of the sign-ins ran.
\* The throttle is late by no more than the sign-ins that run at once: one wrong
\* password per request after the first MaxFailed - 1 (login_user).
LockedOut ==
    /\ Locked <=> guesses >= MaxFailed
    /\ guesses < MaxFailed + Cardinality(Request)
=============================================================================
