-------------------------------- MODULE Auth --------------------------------
(***************************************************************************)
(* Refresh sessions and e-mail challenges of one user (services/auth.rs).  *)
(*                                                                         *)
(* A request runs alone in its task and meets the others only in           *)
(* PostgreSQL, at READ COMMITTED.  An action is one SQL statement together *)
(* with the statements after it that can no longer wait: rows a            *)
(* transaction has locked are its own until it commits, and what it wrote  *)
(* is seen by nobody before.  So a transaction is its locks, kept in the   *)
(* record of its request, and its writes appear with its last action.      *)
(*   - SELECT ... FOR UPDATE waits for the lock of the row and reads what  *)
(*     was committed last.                                                 *)
(*   - An UPDATE of several rows finds them in a snapshot (`todo'), then   *)
(*     locks one after the other and looks again whether the row matches;  *)
(*     rows committed after the snapshot are not found.                    *)
(*   - An INSERT locks the user's row FOR KEY SHARE through its foreign    *)
(*     key: it waits for FOR UPDATE, and no two inserts wait for each      *)
(*     other.                                                              *)
(*   - A wait that can never end costs one of the transactions its life.   *)
(*                                                                         *)
(* Whether a session or code is past its expires_at, whether a token's     *)
(* secret or a code is right, and when a cooldown ends are free choices.   *)
(* origin, wrong and accepted are observed by the properties only.         *)
(***************************************************************************)
EXTENDS Integers, FiniteSets

CONSTANTS
    Request,        \* request handlers that may run at once
    Session,        \* ids of rows of refresh_sessions
    MaxCodes,       \* bound on the rows of email_challenges
    MaxPasswords,   \* bound on the passwords the user has had
    MaxAttempts,    \* PASSWORD_CODE_MAX_ATTEMPTS
    Endpoint,       \* the endpoints in use
    Dies,           \* whether a request may die in the middle
    None

CodeId  == 1 .. MaxCodes
Purpose == {"verify", "reset", "change"}

ASSUME AuthAssumption ==
    /\ MaxCodes \in Nat /\ MaxPasswords \in Nat \ {0} /\ MaxAttempts \in Nat \ {0}
    /\ None \notin Session /\ None \notin CodeId
    /\ None \notin [password : Nat, verified : BOOLEAN]
    /\ None \notin [revoked : BOOLEAN, replacedBy : Session \cup {None}]
    /\ None \notin [purpose : Purpose, used : BOOLEAN, revoked : BOOLEAN,
                    failed : 0 .. MaxAttempts, recent : BOOLEAN]
    /\ None \notin [parent : Session \cup {None}, root : Session, born : Nat, won : Nat]

VARIABLES
    user,       \* row of users: number of its password, email_verified_at
    sessions,   \* table refresh_sessions
    codes,      \* table email_challenges, ids in the order of created_at
    request,    \* per request: next statement, locks and locals
    origin,     \* per session: the session rotated into it, the first of its
                \* family, the password when that began, and the one that won
                \* it, 0 for a link
    wrong,      \* per challenge, wrong codes that were answered
    accepted    \* per challenge, how often it was accepted

vars == <<user, sessions, codes, request, origin, wrong, accepted>>

SessionRow == [revoked : BOOLEAN, replacedBy : Session \cup {None}]
CodeRow    == [purpose : Purpose, used : BOOLEAN, revoked : BOOLEAN,
               failed : 0 .. MaxAttempts, recent : BOOLEAN]
Origin     == [parent : Session \cup {None}, root : Session, born : Nat, won : Nat]

Statement == {"idle", "issue", "rotate", "reuse", "reuseRows", "verify", "code", "begun",
              "codeRows", "insertCode", "confirm", "attempt", "wrong", "right", "rightRows"}

Local == [pc : Statement,
          user : BOOLEAN,               \* holds the user FOR UPDATE
          session : SUBSET Session,     \* rows of refresh_sessions it has locked
          code : SUBSET CodeId,         \* rows of email_challenges it has locked
          todo : SUBSET (Session \cup CodeId),  \* rows left of an UPDATE's snapshot
          purpose : Purpose,
          own : Session \cup CodeId \cup {None}, \* the row it was called for
          won : Nat]                    \* the password the caller proved, if any

Idle == [pc |-> "idle", user |-> FALSE, session |-> {}, code |-> {}, todo |-> {},
         purpose |-> "verify", own |-> None, won |-> 0]

LiveSessions == {s \in Session : sessions[s] # None /\ ~sessions[s].revoked}
Active(c)    == codes[c] # None /\ ~codes[c].used /\ ~codes[c].revoked

\* Faulty variant: compares with > instead of >=.
ExhaustedLate(n) == n > MaxAttempts

\* failed_attempts >= max_attempts
Exhausted(n) == n >= MaxAttempts

-----------------------------------------------------------------------------
(* Row locks.                                                              *)

\* Faulty variants: the rows are read without FOR UPDATE.
UserUnlocked(r)       == TRUE
SessionUnlocked(r, s) == TRUE
CodeUnlocked(r, c)    == TRUE

UserFree(r)       == \A q \in Request \ {r} : ~request[q].user
SessionFree(r, s) == \A q \in Request \ {r} : s \notin request[q].session
CodeFree(r, c)    == \A q \in Request \ {r} : c \notin request[q].code

Latest(c, C) == c \in C /\ \A d \in C : d <= c

\* q holds a row that the next statement of r asks for.
WaitsFor(r, q) ==
    /\ q # r
    /\ \/ request[r].pc \in {"issue", "rotate", "verify", "insertCode"} /\ request[q].user
       \/ request[r].pc \in {"reuseRows", "rightRows"} /\ request[r].todo \cap request[q].session # {}
       \/ request[r].pc = "codeRows" /\ request[r].todo \cap request[q].code # {}
       \/ request[r].pc = "attempt" /\ \E c \in request[q].code : Latest(c, request[r].todo)

\* A circle of requests, each waiting for another one of it.
Deadlocked(r) ==
    \E D \in SUBSET Request : /\ r \in D
                              /\ \A q \in D : \E p \in D : WaitsFor(q, p)
                              /\ \A q \in D : \E p \in D : WaitsFor(p, q)

Become(r, local) == request' = [request EXCEPT ![r] = local]
At(r, pc)        == request[r].pc = pc

\* Faulty variant: the handler answers and leaves its transaction open.
ReturnUncommitted(r) == Become(r, [request[r] EXCEPT !.pc = "idle"])

\* COMMIT or ROLLBACK and the answer: all locks are released.
Return(r) == Become(r, Idle)

Init ==
    /\ user = None
    /\ sessions = [s \in Session |-> None]
    /\ codes = [c \in CodeId |-> None]
    /\ request = [r \in Request |-> Idle]
    /\ origin = [s \in Session |-> None]
    /\ wrong = [c \in CodeId |-> 0]
    /\ accepted = [c \in CodeId |-> 0]

Calls(r, endpoint) == At(r, "idle") /\ user # None /\ endpoint \in Endpoint

\* Bound: a request starts only if the id it may need is left.
SessionsLeft ==
    Cardinality({q \in Request : \/ request[q].pc \in {"issue", "rotate", "verify"}
                                 \/ request[q].purpose = "change" /\ ~At(q, "idle")})
    < Cardinality({s \in Session : sessions[s] = None})

\* The id of a challenge, like created_at, is given when its transaction begins.
Reserved(c) == \E q \in Request : request[q].pc \in {"begun", "codeRows", "insertCode"}
                                  /\ request[q].own = c
Taken(c)    == codes[c] # None \/ Reserved(c)

CodesLeft ==
    Cardinality({q \in Request : At(q, "code")})
    < Cardinality({c \in CodeId : \A d \in CodeId : Taken(d) => d < c})

-----------------------------------------------------------------------------
(* Registration, sign-in and e-mail verification.                          *)

NewCode(purpose) ==
    [purpose |-> purpose, used |-> FALSE, revoked |-> FALSE, failed |-> 0, recent |-> TRUE]

\* One transaction inserts the user, the cash account and the first
\* challenge.  A second registration waits for the unique e-mail address and
\* is refused, which changes nothing.
Register ==
    /\ user = None
    /\ user' = [password |-> 1, verified |-> FALSE]
    /\ codes' = [codes EXCEPT ![1] = NewCode("verify")]
    /\ UNCHANGED <<sessions, request, origin, wrong, accepted>>

\* A right password of a verified user; everything else is refused and
\* changes nothing here (module Throttle has the count of failures).
Login(r) ==
    /\ Calls(r, "login") /\ user.verified /\ SessionsLeft
    /\ Become(r, [Idle EXCEPT !.pc = "issue", !.won = user.password])
    /\ UNCHANGED <<user, sessions, codes, origin, wrong, accepted>>

NewSession == [revoked |-> FALSE, replacedBy |-> None]

\* create_refresh_session, a transaction of its own.
Issue(r) ==
    /\ At(r, "issue") /\ UserFree(r)
    /\ \E s \in Session :
          /\ sessions[s] = None
          /\ sessions' = [sessions EXCEPT ![s] = NewSession]
          /\ origin' = [origin EXCEPT ![s] = [parent |-> None, root |-> s,
                                              born |-> user.password, won |-> request[r].won]]
    /\ Return(r)
    /\ UNCHANGED <<user, codes, wrong, accepted>>

\* The link of an e-mail.  A challenge that is used, revoked or expired is
\* revoked; a wrong secret rolls back and changes nothing.
VerifyEmail(r) ==
    /\ Calls(r, "verify")
    /\ \E c \in CodeId, expired \in BOOLEAN :
          /\ codes[c] # None /\ codes[c].purpose = "verify" /\ CodeFree(r, c)
          /\ IF ~Active(c) \/ expired
               THEN /\ codes' = [codes EXCEPT ![c].revoked = TRUE]
                    /\ UNCHANGED request
               ELSE /\ SessionsLeft
                    /\ Become(r, [Idle EXCEPT !.pc = "verify", !.code = {c}, !.own = c])
                    /\ UNCHANGED codes
    /\ UNCHANGED <<user, sessions, origin, wrong, accepted>>

\* Marks challenge and user, commits; the session comes in a transaction of
\* its own.
VerifyUser(r) ==
    LET c == request[r].own IN
    /\ At(r, "verify") /\ UserFree(r)
    /\ user' = [user EXCEPT !.verified = TRUE]
    /\ codes' = [codes EXCEPT ![c].used = TRUE]
    /\ accepted' = [accepted EXCEPT ![c] = @ + 1]
    /\ Become(r, [Idle EXCEPT !.pc = "issue"])
    /\ UNCHANGED <<sessions, origin, wrong>>

-----------------------------------------------------------------------------
(* refresh_session and logout_session.                                     *)

Revoked(row, by) == [row EXCEPT !.revoked = TRUE,
                                !.replacedBy = IF @ = None THEN by ELSE @]

AllRevoked(S) == [s \in Session |-> IF s \in S THEN Revoked(sessions[s], None) ELSE sessions[s]]

\* Locks the session of the token.  A rotated one whose secret is right is a
\* reuse.  Other revoked and expired ones are revoked; a wrong secret changes
\* nothing.
Refresh(r) ==
    /\ Calls(r, "refresh")
    /\ \E s \in Session, expired, valid \in BOOLEAN :
          /\ sessions[s] # None /\ SessionFree(r, s)
          /\ IF sessions[s].revoked \/ expired
               THEN IF sessions[s].revoked /\ sessions[s].replacedBy # None /\ valid
                      THEN /\ Become(r, [Idle EXCEPT !.pc = "reuse", !.session = {s}, !.own = s])
                           /\ UNCHANGED sessions
                      ELSE /\ sessions' = [sessions EXCEPT ![s] = Revoked(@, None)]
                           /\ UNCHANGED request
               ELSE /\ valid /\ SessionsLeft
                    /\ Become(r, [Idle EXCEPT !.pc = "rotate", !.session = {s}, !.own = s])
                    /\ UNCHANGED sessions
    /\ UNCHANGED <<user, codes, origin, wrong, accepted>>

\* Locks the user, inserts the replacement, revokes the session, commits.
Rotate(r) ==
    LET s == request[r].own IN
    /\ At(r, "rotate") /\ UserFree(r)
    /\ \E new \in Session :
          /\ sessions[new] = None
          /\ sessions' = [sessions EXCEPT ![new] = NewSession, ![s] = Revoked(@, new)]
          /\ origin' = [origin EXCEPT ![new] = [origin[s] EXCEPT !.parent = s]]
    /\ Return(r)
    /\ UNCHANGED <<user, codes, wrong, accepted>>

\* revoke_all_refresh_sessions_for_user: the snapshot of the UPDATE, then one
\* row after the other.  A row that still matches is locked, and revoked with
\* the commit.
RevokeAll(r) ==
    /\ request[r].pc \in {"reuse", "right"}
    /\ Become(r, [request[r] EXCEPT !.pc = IF @ = "reuse" THEN "reuseRows" ELSE "rightRows",
                                    !.todo = LiveSessions])
    /\ UNCHANGED <<user, sessions, codes, origin, wrong, accepted>>

RevokeAllRow(r) ==
    /\ request[r].pc \in {"reuseRows", "rightRows"}
    /\ \E s \in request[r].todo :
          /\ SessionFree(r, s)
          /\ Become(r, [request[r] EXCEPT !.todo = @ \ {s},
                                          !.session = IF s \in LiveSessions THEN @ \cup {s} ELSE @])
    /\ UNCHANGED <<user, sessions, codes, origin, wrong, accepted>>

\* Faulty variant: a reuse revokes the session that was presented, no other.
ReuseCommitOne(r) ==
    /\ At(r, "reuseRows") /\ request[r].todo = {}
    /\ sessions' = AllRevoked({request[r].own})
    /\ Return(r)
    /\ UNCHANGED <<user, codes, origin, wrong, accepted>>

ReuseCommit(r) ==
    /\ At(r, "reuseRows") /\ request[r].todo = {}
    /\ sessions' = AllRevoked(request[r].session)
    /\ Return(r)
    /\ UNCHANGED <<user, codes, origin, wrong, accepted>>

Logout(r) ==
    /\ Calls(r, "logout")
    /\ \E s \in Session : /\ sessions[s] # None /\ SessionFree(r, s)
                          /\ sessions' = AllRevoked({s})
    /\ UNCHANGED <<user, codes, request, origin, wrong, accepted>>

-----------------------------------------------------------------------------
(* Asking for a code: prepare_verification_email,                          *)
(* request_password_reset_code and request_password_change_code.           *)

\* The cooldown ends for every challenge there is.
Elapse ==
    /\ \E c \in CodeId : codes[c] # None /\ codes[c].recent
    /\ codes' = [c \in CodeId |-> IF codes[c] = None THEN None
                                  ELSE [codes[c] EXCEPT !.recent = FALSE]]
    /\ UNCHANGED <<user, sessions, request, origin, wrong, accepted>>

\* Looks for a recent challenge, outside the transaction that follows.
RequestCode(r) ==
    /\ \E p \in Purpose :
          /\ Calls(r, p)
          /\ p = "verify" => ~user.verified
          /\ p = "change" => user.verified
          /\ \A c \in CodeId : codes[c] # None /\ codes[c].purpose = p => ~codes[c].recent
          /\ CodesLeft
          /\ Become(r, [Idle EXCEPT !.pc = "code", !.purpose = p])
    /\ UNCHANGED <<user, sessions, codes, origin, wrong, accepted>>

\* Faulty variant: forgets codes that were tried before.
UntriedCodes(purpose) ==
    {c \in CodeId : Active(c) /\ codes[c].purpose = purpose /\ codes[c].failed = 0}

ActiveCodes(purpose) == {c \in CodeId : Active(c) /\ codes[c].purpose = purpose}

RequestCodeBegin(r) ==
    /\ At(r, "code")
    /\ \E c \in CodeId :
          /\ \A d \in CodeId : Taken(d) => d < c
          /\ c = 1 \/ Taken(c - 1)
          /\ Become(r, [request[r] EXCEPT !.pc = "begun", !.own = c])
    /\ UNCHANGED <<user, sessions, codes, origin, wrong, accepted>>

\* revoke_active_email_challenges: the snapshot of the UPDATE, then its rows.
RevokeCodes(r) ==
    /\ At(r, "begun")
    /\ Become(r, [request[r] EXCEPT !.pc = "codeRows", !.todo = ActiveCodes(request[r].purpose)])
    /\ UNCHANGED <<user, sessions, codes, origin, wrong, accepted>>

RevokeCodesRow(r) ==
    /\ At(r, "codeRows")
    /\ \E c \in request[r].todo :
          /\ CodeFree(r, c)
          /\ Become(r, [request[r] EXCEPT !.todo = @ \ {c},
                                          !.code = IF Active(c) THEN @ \cup {c} ELSE @])
    /\ UNCHANGED <<user, sessions, codes, origin, wrong, accepted>>

RevokeCodesDone(r) ==
    /\ At(r, "codeRows") /\ request[r].todo = {}
    /\ Become(r, [request[r] EXCEPT !.pc = "insertCode"])
    /\ UNCHANGED <<user, sessions, codes, origin, wrong, accepted>>

RequestCodeInsert(r) ==
    /\ At(r, "insertCode") /\ UserFree(r)
    /\ codes' = [c \in CodeId |->
                   IF c = request[r].own THEN NewCode(request[r].purpose)
                   ELSE IF c \in request[r].code THEN [codes[c] EXCEPT !.revoked = TRUE]
                   ELSE codes[c]]
    /\ Return(r)
    /\ UNCHANGED <<user, sessions, origin, wrong, accepted>>

-----------------------------------------------------------------------------
(* confirm_password_reset and confirm_password_change.                     *)

\* Locks the user; the snapshot of find_active_email_challenge_for_update.
Confirm(r) ==
    /\ \E p \in {"reset", "change"} :
          /\ Calls(r, p) /\ UserFree(r)
          /\ user.password < MaxPasswords
          /\ p = "change" => user.verified /\ SessionsLeft
          /\ Become(r, [Idle EXCEPT !.pc = "confirm", !.user = TRUE, !.purpose = p])
    /\ UNCHANGED <<user, sessions, codes, origin, wrong, accepted>>

ConfirmSelect(r) ==
    /\ At(r, "confirm")
    /\ LET todo == ActiveCodes(request[r].purpose) IN
       IF todo = {} THEN Return(r)
       ELSE Become(r, [request[r] EXCEPT !.pc = "attempt", !.todo = todo])
    /\ UNCHANGED <<user, sessions, codes, origin, wrong, accepted>>

\* Locks the latest challenge of the snapshot; one that is no longer active is
\* passed over.  An expired or exhausted one is revoked; otherwise the code is
\* compared with it.
Attempt(r) ==
    /\ At(r, "attempt")
    /\ \E c \in request[r].todo :
          /\ Latest(c, request[r].todo) /\ CodeFree(r, c)
          /\ \/ /\ ~Active(c)
                /\ IF request[r].todo = {c} THEN Return(r)
                   ELSE Become(r, [request[r] EXCEPT !.todo = @ \ {c}])
                /\ UNCHANGED codes
             \/ /\ Active(c)
                /\ \E expired \in BOOLEAN :
                     IF expired \/ Exhausted(codes[c].failed)
                       THEN /\ codes' = [codes EXCEPT ![c].revoked = TRUE]
                            /\ Return(r)
                       ELSE /\ \E pc \in {"wrong", "right"} :
                                 Become(r, [request[r] EXCEPT !.pc = pc, !.todo = {},
                                                              !.code = {c}, !.own = c])
                            /\ UNCHANGED codes
    /\ UNCHANGED <<user, sessions, origin, wrong, accepted>>

\* Faulty variant: answers before the commit, as verify_email_token does for a
\* wrong secret; the failed attempt is rolled back.
WrongCodeRolledBack(r) ==
    /\ At(r, "wrong")
    /\ wrong' = [wrong EXCEPT ![request[r].own] = @ + 1]
    /\ Return(r)
    /\ UNCHANGED <<user, sessions, codes, origin, accepted>>

\* record_email_challenge_failed_attempt; commits before it answers.
WrongCode(r) ==
    LET c == request[r].own
        n == codes[c].failed + 1 IN
    /\ At(r, "wrong")
    /\ codes' = [codes EXCEPT ![c].failed = n, ![c].revoked = @ \/ Exhausted(n)]
    /\ wrong' = [wrong EXCEPT ![c] = @ + 1]
    /\ Return(r)
    /\ UNCHANGED <<user, sessions, origin, accepted>>

\* Faulty variant: the sessions are left as they are.
ConfirmCommitKeeps(r) ==
    LET c == request[r].own IN
    /\ At(r, "rightRows") /\ request[r].todo = {}
    /\ user' = [user EXCEPT !.password = @ + 1]
    /\ codes' = [codes EXCEPT ![c].used = TRUE]
    /\ accepted' = [accepted EXCEPT ![c] = @ + 1]
    /\ Become(r, IF request[r].purpose = "reset" THEN Idle
                 ELSE [Idle EXCEPT !.pc = "issue", !.purpose = "change",
                                   !.won = user.password + 1])
    /\ UNCHANGED <<sessions, origin, wrong>>

\* The password, the challenge and the sessions, in one commit; a change
\* signs the caller in again, in a transaction of its own.
ConfirmCommit(r) ==
    LET c == request[r].own IN
    /\ At(r, "rightRows") /\ request[r].todo = {}
    /\ user' = [user EXCEPT !.password = @ + 1]
    /\ codes' = [codes EXCEPT ![c].used = TRUE]
    /\ accepted' = [accepted EXCEPT ![c] = @ + 1]
    /\ sessions' = AllRevoked(request[r].session)
    /\ Become(r, IF request[r].purpose = "reset" THEN Idle
                 ELSE [Idle EXCEPT !.pc = "issue", !.purpose = "change",
                                   !.won = user.password + 1])
    /\ UNCHANGED <<origin, wrong>>

-----------------------------------------------------------------------------
(* The database takes back what an open transaction did.                   *)

\* PostgreSQL ends one transaction of a deadlock; the request answers 500.
Victim(r) ==
    /\ Deadlocked(r) /\ Return(r)
    /\ UNCHANGED <<user, sessions, codes, origin, wrong, accepted>>

\* The process dies, or the connection is lost.
Crash(r) ==
    /\ Dies /\ ~At(r, "idle") /\ Return(r)
    /\ UNCHANGED <<user, sessions, codes, origin, wrong, accepted>>

SessionStep(r) == Login(r) \/ Issue(r) \/ Refresh(r) \/ Rotate(r) \/ RevokeAll(r)
                  \/ RevokeAllRow(r) \/ ReuseCommit(r) \/ Logout(r)
CodeStep(r)    == VerifyEmail(r) \/ VerifyUser(r) \/ RequestCode(r) \/ RequestCodeBegin(r)
                  \/ RevokeCodes(r) \/ RevokeCodesRow(r) \/ RevokeCodesDone(r) \/ RequestCodeInsert(r)
ConfirmStep(r) == Confirm(r) \/ ConfirmSelect(r) \/ Attempt(r) \/ WrongCode(r)
                  \/ ConfirmCommit(r)

Next ==
    \/ Register \/ Elapse
    \/ \E r \in Request : SessionStep(r) \/ CodeStep(r) \/ ConfirmStep(r) \/ Victim(r) \/ Crash(r)

\* A request that was called goes on: the server polls its task, and PostgreSQL
\* ends a deadlock and gives a row's lock to those who wait for it in turn, so
\* that none is passed over for ever (strong fairness).  Nobody has to call
\* anything.
Continue(r) == ~At(r, "idle") /\ (SessionStep(r) \/ CodeStep(r) \/ ConfirmStep(r) \/ Victim(r))

Spec     == Init /\ [][Next]_vars
FairSpec == Spec /\ \A r \in Request : SF_vars(Continue(r))

-----------------------------------------------------------------------------
(* Properties.                                                             *)

\* The rows of users, refresh_sessions and email_challenges and the locals of
\* every request are well formed; a challenge never counts more than
\* max_attempts failures, and no two transactions hold one row.
TypeOK ==
    /\ user \in [password : 1 .. MaxPasswords, verified : BOOLEAN] \cup {None}
    /\ sessions \in [Session -> SessionRow \cup {None}]
    /\ codes \in [CodeId -> CodeRow \cup {None}]
    /\ request \in [Request -> Local]
    /\ origin \in [Session -> Origin \cup {None}]
    /\ wrong \in [CodeId -> Nat]
    /\ accepted \in [CodeId -> Nat]
    /\ \A q, r \in Request : q # r =>
          /\ ~(request[q].user /\ request[r].user)
          /\ request[q].session \cap request[r].session = {}
          /\ request[q].code \cap request[r].code = {}

\* A refresh token is exchanged at most once (refresh_session): no two
\* sessions replace the same one, however its rotations race.
NoFork ==
    \A s, t \in Session :
        /\ origin[s] # None /\ origin[t] # None
        /\ origin[s].parent # None /\ origin[s].parent = origin[t].parent
        => s = t

\* A family that began before the password changed has no live session after
\* it (confirm_password_reset, confirm_password_change), although rotations,
\* sign-ins, sign-outs and reuse detection run through the same rows.
ResetEndsSessions == \A s \in LiveSessions : origin[s].born = user.password

\* No challenge answers more wrong codes than max_attempts.
GuessesBounded == \A c \in CodeId : wrong[c] <= MaxAttempts

\* A challenge is accepted only while it is neither used nor revoked: one link
\* or code never works twice, nor after a newer one has replaced it.
AcceptedWhileActive == [][\A c \in CodeId : accepted'[c] # accepted[c] => Active(c)]_vars

\* The sessions implement families of refresh tokens that never come back.
Registered == user # None
Members(f) == {s \in Session : origin[s] # None /\ origin[s].root = f}
FamilyState ==
    [f \in Session |-> IF Members(f) = {} THEN "none"
                       ELSE IF Members(f) \cap LiveSessions # {} THEN "live" ELSE "ended"]
Abstract == INSTANCE Families WITH
    Family <- Session, family <- FamilyState,
    password <- IF Registered THEN user.password ELSE 0,
    verified <- Registered /\ user.verified
ImplementsFamilies == Abstract!Spec

\* "Only the latest code remains active": asking for a code revokes the codes
\* asked for before (create_password_code_challenge).
OneLiveCode ==
    \A c, d \in CodeId : Active(c) /\ Active(d) /\ codes[c].purpose = codes[d].purpose => c = d

\* A live session that a password won was won by the current one: an old
\* password works no longer once a reset or change has committed.
CurrentPassword == \A s \in LiveSessions : origin[s].won \in {0, user.password}

\* When the reuse of a rotated token is detected, the session that replaced it
\* and all that followed are dead (refresh_session).
EndsFamily(r) ==
    ReuseCommit(r) => \A s \in LiveSessions' : origin'[s].root # origin[request[r].own].root
ReuseEndsFamily == [][\A r \in Request : EndsFamily(r)]_vars

\* Every request is answered: no two of them wait for each other for ever.
RequestsEnd == \A r \in Request : ~At(r, "idle") ~> At(r, "idle")
=============================================================================
