----------------------------- MODULE AuthProofs -----------------------------
(* Refresh sessions and e-mail challenges, for any number of requests,     *)
(* sessions and challenges.                                                *)
EXTENDS Auth, TLAPS

-----------------------------------------------------------------------------
(* The inductive invariant.                                                *)

Confirming == {"confirm", "attempt", "wrong", "right", "rightRows"}
Proving    == {"verify", "wrong", "right", "rightRows"}
Asking     == {"begun", "codeRows", "insertCode"}

\* What a request with locals l may rely on from one statement to the next:
\* rows it has locked stay as it found them, and while it holds the user no
\* session begins.
Relies(l) ==
    /\ user = None \/ l.pc = "idle" => l = Idle
    /\ l.pc \in Confirming => l.user /\ user # None /\ user.password < MaxPasswords
    /\ l.pc = "rotate" => l.own \in LiveSessions /\ l.session = {l.own}
    /\ l.pc \in Proving => l.own \in CodeId /\ l.code = {l.own} /\ Active(l.own)
    /\ l.pc = "wrong" => codes[l.own].failed < MaxAttempts
    /\ l.pc \in Asking => l.own \in CodeId /\ codes[l.own] = None
    /\ l.pc \in {"codeRows", "attempt"} => l.todo \subseteq CodeId
    /\ l.pc = "rightRows" => LiveSessions \subseteq l.todo \cup l.session
    /\ \A s \in l.session : sessions[s] # None
    /\ \A c \in l.code : codes[c] # None

Reliable == \A r \in Request : Relies(request[r])

\* No two requests insert the same challenge.
IdsApart ==
    \A q, r \in Request :
        q # r /\ request[q].pc \in Asking /\ request[r].pc \in Asking
        => request[q].own # request[r].own

\* Without a user there are no rows.
UserFirst ==
    user = None => /\ \A s \in Session : sessions[s] = None
                   /\ \A c \in CodeId : codes[c] = None

\* Every session has its origin, and one that was rotated is revoked.
Lineage ==
    \A s \in Session :
        /\ sessions[s] = None <=> origin[s] = None
        /\ origin[s] # None /\ origin[s].parent # None =>
              sessions[origin[s].parent] # None /\ sessions[origin[s].parent].revoked

\* failed_attempts is the number of wrong codes that were answered.
Counted == \A c \in CodeId : wrong[c] = IF codes[c] = None THEN 0 ELSE codes[c].failed

\* l takes no row that another request holds, and no other challenge's id.
Apart(r, l) ==
    \A q \in Request \ {r} :
        /\ ~(request[q].user /\ l.user)
        /\ request[q].session \cap l.session = {}
        /\ request[q].code \cap l.code = {}
        /\ request[q].pc \in Asking /\ l.pc \in Asking => request[q].own # l.own

\* Nothing is written but what the properties observe of it.
Reads == UNCHANGED <<user, sessions, codes, origin, wrong>> /\ accepted' \in [CodeId -> Nat]

AuthInv == /\ TypeOK /\ Reliable /\ IdsApart /\ UserFirst /\ Lineage /\ Counted
           /\ NoFork /\ ResetEndsSessions
-----------------------------------------------------------------------------
(* Steps.                                                                  *)

\* Idle relies on nothing and holds nothing.
LEMMA IdleRelies == Idle \in Local /\ Relies(Idle)
BY AuthAssumption DEF Idle, Local, Statement, Purpose, Relies, Confirming, Proving, Asking

LEMMA InvInit == Init => AuthInv
<1> SUFFICES ASSUME Init PROVE AuthInv
  OBVIOUS
<1>1. /\ \A r \in Request : request[r] = Idle
      /\ LiveSessions = {}
  BY DEF Init, LiveSessions
<1>2. TypeOK
  BY <1>1, IdleRelies DEF Init, TypeOK, Idle
<1>3. Reliable /\ IdsApart
  BY <1>1, IdleRelies DEF Reliable, IdsApart, Idle, Asking
<1>4. UserFirst /\ Lineage /\ Counted /\ NoFork /\ ResetEndsSessions
  BY <1>1 DEF Init, UserFirst, Lineage, Counted, NoFork, ResetEndsSessions
<1> QED BY <1>2, <1>3, <1>4 DEF AuthInv

\* A request that only reads, locks and waits keeps the invariant if its locals
\* hold what they rely on and take no row of another request.
LEMMA LocalStep ==
    ASSUME AuthInv, NEW r \in Request, NEW l \in Local, Become(r, l), Relies(l), Apart(r, l), Reads
    PROVE  AuthInv'
<1>1. request' = [request EXCEPT ![r] = l] /\ request \in [Request -> Local]
  BY DEF Become, AuthInv, TypeOK
<1>2. \A q \in Request : request'[q] = IF q = r THEN l ELSE request[q]
  BY <1>1
<1>3. TypeOK'
  <2>1. request' \in [Request -> Local]
    BY <1>1
  <2>2. \A p, q \in Request : p # q =>
          /\ ~(request'[p].user /\ request'[q].user)
          /\ request'[p].session \cap request'[q].session = {}
          /\ request'[p].code \cap request'[q].code = {}
    BY <1>2 DEF AuthInv, TypeOK, Apart
  <2> QED BY <2>1, <2>2 DEF AuthInv, TypeOK, Reads
<1>4. Reliable'
  <2>1. \A q \in Request : Relies(request'[q])
    BY <1>2 DEF AuthInv, Reliable
  <2> QED BY <2>1 DEF Reliable, Relies, LiveSessions, Active, Reads
<1>5. IdsApart'
  BY <1>2 DEF AuthInv, IdsApart, Apart
<1>6. (UserFirst /\ Lineage /\ Counted /\ NoFork /\ ResetEndsSessions)'
  BY DEF AuthInv, UserFirst, Lineage, Counted, NoFork, ResetEndsSessions, LiveSessions, Reads
<1> QED BY <1>3, <1>4, <1>5, <1>6 DEF AuthInv

-----------------------------------------------------------------------------
(* Actions that only read, lock and wait.                                  *)

\* A request that ends without a write: its locals are Idle again.
LEMMA ReturnStep ==
    ASSUME AuthInv, NEW r \in Request, Return(r),
           UNCHANGED <<user, sessions, codes, origin, wrong, accepted>>
    PROVE  AuthInv'
<1>1. Apart(r, Idle)
  BY DEF Apart, Idle, Asking
<1>2. Reads
  BY DEF Reads, AuthInv, TypeOK
<1> QED BY <1>1, <1>2, IdleRelies, LocalStep DEF Return

\* A request that takes no row in this statement.
LEMMA SameApart ==
    ASSUME AuthInv, NEW r \in Request, NEW l,
           l.user = request[r].user, l.session = request[r].session, l.code = request[r].code,
           l.pc \in Asking => request[r].pc \in Asking /\ l.own = request[r].own
    PROVE  Apart(r, l)
BY DEF Apart, AuthInv, TypeOK, IdsApart

LEMMA LoginStep == ASSUME AuthInv, NEW r \in Request, Login(r) PROVE AuthInv'
<1> DEFINE l == [Idle EXCEPT !.pc = "issue", !.won = user.password]
<1>1. user # None /\ user.password \in Nat
  BY DEF Login, Calls, AuthInv, TypeOK
<1>2. l \in Local /\ l.pc = "issue" /\ l.user = FALSE /\ l.session = {} /\ l.code = {}
  BY <1>1, IdleRelies DEF Idle, Local, Statement
<1>3. Relies(l)
  BY <1>1, <1>2 DEF Relies, Confirming, Proving, Asking
<1>7. Become(r, l)
  BY DEF Login
<1>8. Apart(r, l)
  BY <1>2 DEF Apart, Asking
<1>9. Reads
  BY DEF Login, Reads, AuthInv, TypeOK
<1> QED BY <1>2, <1>3, <1>7, <1>8, <1>9, LocalStep

LEMMA RevokeAllStep == ASSUME AuthInv, NEW r \in Request, RevokeAll(r) PROVE AuthInv'
<1> DEFINE k == request[r]
           l == [k EXCEPT !.pc = IF @ = "reuse" THEN "reuseRows" ELSE "rightRows",
                          !.todo = LiveSessions]
<1>1. k \in Local /\ Relies(k) /\ k.pc \in {"reuse", "right"}
  BY DEF RevokeAll, AuthInv, TypeOK, Reliable
<1>2. /\ l \in Local /\ l.user = k.user /\ l.session = k.session /\ l.code = k.code
      /\ l.own = k.own /\ l.todo = LiveSessions
      /\ l.pc = IF k.pc = "reuse" THEN "reuseRows" ELSE "rightRows"
  BY <1>1 DEF Local, Statement, LiveSessions
<1>3. Relies(l)
  BY <1>1, <1>2 DEF Relies, Confirming, Proving, Asking, Idle
<1>7. Become(r, l)
  BY DEF RevokeAll
<1>4. l.pc \notin Asking
  BY <1>1, <1>2 DEF Asking
<1>8. Apart(r, l)
  BY <1>2, <1>4, SameApart
<1>9. Reads
  BY DEF RevokeAll, Reads, AuthInv, TypeOK
<1> QED BY <1>2, <1>3, <1>7, <1>8, <1>9, LocalStep

LEMMA RevokeAllRowStep == ASSUME AuthInv, NEW r \in Request, RevokeAllRow(r) PROVE AuthInv'
<1> DEFINE k == request[r]
<1>1. k \in Local /\ Relies(k) /\ k.pc \in {"reuseRows", "rightRows"}
  BY DEF RevokeAllRow, AuthInv, TypeOK, Reliable
<1>2. PICK s \in k.todo :
         /\ SessionFree(r, s)
         /\ Become(r, [k EXCEPT !.todo = @ \ {s},
                                !.session = IF s \in LiveSessions THEN @ \cup {s} ELSE @])
  BY DEF RevokeAllRow
<1> DEFINE l == [k EXCEPT !.todo = @ \ {s},
                          !.session = IF s \in LiveSessions THEN @ \cup {s} ELSE @]
<1>3. /\ l \in Local /\ l.user = k.user /\ l.code = k.code /\ l.own = k.own /\ l.pc = k.pc
      /\ l.todo = k.todo \ {s}
      /\ l.session = IF s \in LiveSessions THEN k.session \cup {s} ELSE k.session
  BY <1>1 DEF Local, LiveSessions
<1>4. Relies(l)
  BY <1>1, <1>3 DEF Relies, Confirming, Proving, Asking, Idle, LiveSessions
<1>5. \A q \in Request \ {r} : request[q].session \cap l.session = {}
  BY <1>2, <1>3 DEF SessionFree, AuthInv, TypeOK
<1>7. Become(r, l)
  BY <1>2
<1>8. Apart(r, l)
  BY <1>1, <1>3, <1>5 DEF Apart, AuthInv, TypeOK, Asking
<1>9. Reads
  BY DEF RevokeAllRow, Reads, AuthInv, TypeOK
<1> QED BY <1>3, <1>4, <1>7, <1>8, <1>9, LocalStep

LEMMA RequestCodeStep == ASSUME AuthInv, NEW r \in Request, RequestCode(r) PROVE AuthInv'
<1>1. PICK p \in Purpose : /\ Calls(r, p)
                           /\ Become(r, [Idle EXCEPT !.pc = "code", !.purpose = p])
  BY DEF RequestCode
<1> DEFINE l == [Idle EXCEPT !.pc = "code", !.purpose = p]
<1>2. l \in Local /\ l.pc = "code" /\ l.user = FALSE /\ l.session = {} /\ l.code = {}
  BY <1>1, IdleRelies DEF Idle, Local, Statement
<1>3. Relies(l)
  BY <1>1, <1>2 DEF Relies, Confirming, Proving, Asking, Calls
<1>7. Become(r, l)
  BY <1>1
<1>8. Apart(r, l)
  BY <1>2 DEF Apart, Asking
<1>9. Reads
  BY DEF RequestCode, Reads, AuthInv, TypeOK
<1> QED BY <1>2, <1>3, <1>7, <1>8, <1>9, LocalStep

LEMMA RequestCodeBeginStep ==
    ASSUME AuthInv, NEW r \in Request, RequestCodeBegin(r) PROVE AuthInv'
<1> DEFINE k == request[r]
<1>1. k \in Local /\ Relies(k) /\ k.pc = "code" /\ At(r, "code")
  BY DEF RequestCodeBegin, AuthInv, TypeOK, Reliable, At
<1>2. PICK c \in CodeId : /\ \A d \in CodeId : Taken(d) => d < c
                          /\ Become(r, [k EXCEPT !.pc = "begun", !.own = c])
  BY DEF RequestCodeBegin
<1> DEFINE l == [k EXCEPT !.pc = "begun", !.own = c]
<1>3. /\ l \in Local /\ l.user = k.user /\ l.session = k.session /\ l.code = k.code
      /\ l.own = c /\ l.pc = "begun"
  BY <1>1 DEF Local, Statement
<1>4. ~Taken(c)
  BY <1>2 DEF CodeId
<1>5. Relies(l)
  BY <1>1, <1>3, <1>4 DEF Relies, Confirming, Proving, Asking, Idle, Taken
<1>6. \A q \in Request : request[q].pc \in Asking => request[q].own # c
  BY <1>4 DEF Taken, Reserved, Asking
<1>7. Become(r, l)
  BY <1>2
<1>8. Apart(r, l)
  BY <1>3, <1>6 DEF Apart, AuthInv, TypeOK
<1>9. Reads
  BY DEF RequestCodeBegin, Reads, AuthInv, TypeOK
<1> QED BY <1>3, <1>5, <1>7, <1>8, <1>9, LocalStep

LEMMA RevokeCodesStep == ASSUME AuthInv, NEW r \in Request, RevokeCodes(r) PROVE AuthInv'
<1> DEFINE k == request[r]
           l == [k EXCEPT !.pc = "codeRows", !.todo = ActiveCodes(k.purpose)]
<1>1. k \in Local /\ Relies(k) /\ k.pc = "begun"
  BY DEF RevokeCodes, AuthInv, TypeOK, Reliable, At
<1>2. /\ l \in Local /\ l.user = k.user /\ l.session = k.session /\ l.code = k.code
      /\ l.own = k.own /\ l.pc = "codeRows" /\ l.todo \subseteq CodeId
  BY <1>1 DEF Local, Statement, ActiveCodes
<1>3. Relies(l)
  BY <1>1, <1>2 DEF Relies, Confirming, Proving, Asking, Idle
<1>7. Become(r, l)
  BY DEF RevokeCodes
<1>8. Apart(r, l)
  BY <1>1, <1>2, SameApart DEF Asking
<1>9. Reads
  BY DEF RevokeCodes, Reads, AuthInv, TypeOK
<1> QED BY <1>2, <1>3, <1>7, <1>8, <1>9, LocalStep

LEMMA RevokeCodesRowStep == ASSUME AuthInv, NEW r \in Request, RevokeCodesRow(r) PROVE AuthInv'
<1> DEFINE k == request[r]
<1>1. k \in Local /\ Relies(k) /\ k.pc = "codeRows"
  BY DEF RevokeCodesRow, AuthInv, TypeOK, Reliable, At
<1>2. PICK c \in k.todo :
         /\ CodeFree(r, c)
         /\ Become(r, [k EXCEPT !.todo = @ \ {c}, !.code = IF Active(c) THEN @ \cup {c} ELSE @])
  BY DEF RevokeCodesRow
<1> DEFINE l == [k EXCEPT !.todo = @ \ {c}, !.code = IF Active(c) THEN @ \cup {c} ELSE @]
<1>3. c \in CodeId
  BY <1>1 DEF Relies
<1>4. /\ l \in Local /\ l.user = k.user /\ l.session = k.session /\ l.own = k.own
      /\ l.pc = "codeRows" /\ l.todo = k.todo \ {c}
      /\ l.code = IF Active(c) THEN k.code \cup {c} ELSE k.code
  BY <1>1, <1>3 DEF Local
<1>5. Relies(l)
  BY <1>1, <1>3, <1>4 DEF Relies, Confirming, Proving, Asking, Idle, Active
<1>6. \A q \in Request \ {r} : /\ request[q].code \cap l.code = {}
                               /\ request[q].pc \in Asking => request[q].own # l.own
  BY <1>1, <1>2, <1>4 DEF CodeFree, AuthInv, TypeOK, IdsApart, Asking
<1>7. Become(r, l)
  BY <1>2
<1>8. Apart(r, l)
  BY <1>4, <1>6 DEF Apart, AuthInv, TypeOK
<1>9. Reads
  BY DEF RevokeCodesRow, Reads, AuthInv, TypeOK
<1> QED BY <1>4, <1>5, <1>7, <1>8, <1>9, LocalStep

LEMMA RevokeCodesDoneStep == ASSUME AuthInv, NEW r \in Request, RevokeCodesDone(r) PROVE AuthInv'
<1> DEFINE k == request[r]
           l == [k EXCEPT !.pc = "insertCode"]
<1>1. k \in Local /\ Relies(k) /\ k.pc = "codeRows"
  BY DEF RevokeCodesDone, AuthInv, TypeOK, Reliable, At
<1>2. /\ l \in Local /\ l.user = k.user /\ l.session = k.session /\ l.code = k.code
      /\ l.own = k.own /\ l.pc = "insertCode"
  BY <1>1 DEF Local, Statement
<1>3. Relies(l)
  BY <1>1, <1>2 DEF Relies, Confirming, Proving, Asking, Idle
<1>7. Become(r, l)
  BY DEF RevokeCodesDone
<1>8. Apart(r, l)
  BY <1>1, <1>2, SameApart DEF Asking
<1>9. Reads
  BY DEF RevokeCodesDone, Reads, AuthInv, TypeOK
<1> QED BY <1>2, <1>3, <1>7, <1>8, <1>9, LocalStep

LEMMA ConfirmStart == ASSUME AuthInv, NEW r \in Request, Confirm(r) PROVE AuthInv'
<1>1. PICK p \in {"reset", "change"} :
         /\ Calls(r, p) /\ UserFree(r) /\ user.password < MaxPasswords
         /\ Become(r, [Idle EXCEPT !.pc = "confirm", !.user = TRUE, !.purpose = p])
  BY DEF Confirm
<1> DEFINE l == [Idle EXCEPT !.pc = "confirm", !.user = TRUE, !.purpose = p]
<1>2. l \in Local /\ l.pc = "confirm" /\ l.user = TRUE /\ l.session = {} /\ l.code = {}
  BY <1>1, IdleRelies DEF Idle, Local, Statement, Purpose
<1>3. Relies(l)
  BY <1>1, <1>2 DEF Relies, Confirming, Proving, Asking, Calls
<1>4. \A q \in Request \ {r} : ~request[q].user
  BY <1>1 DEF UserFree
<1>7. Become(r, l)
  BY <1>1
<1>8. Apart(r, l)
  BY <1>2, <1>4 DEF Apart, Asking
<1>9. Reads
  BY DEF Confirm, Reads, AuthInv, TypeOK
<1> QED BY <1>2, <1>3, <1>7, <1>8, <1>9, LocalStep

LEMMA ConfirmSelectStep == ASSUME AuthInv, NEW r \in Request, ConfirmSelect(r) PROVE AuthInv'
<1> DEFINE k == request[r]
           l == [k EXCEPT !.pc = "attempt", !.todo = ActiveCodes(k.purpose)]
<1>1. k \in Local /\ Relies(k) /\ k.pc = "confirm"
  BY DEF ConfirmSelect, AuthInv, TypeOK, Reliable, At
<1>2. /\ l \in Local /\ l.user = k.user /\ l.session = k.session /\ l.code = k.code
      /\ l.pc = "attempt" /\ l.todo \subseteq CodeId
  BY <1>1 DEF Local, Statement, ActiveCodes
<1>3. Relies(l)
  BY <1>1, <1>2 DEF Relies, Confirming, Proving, Asking, Idle
<1>4. CASE Return(r)
  BY <1>4, ReturnStep DEF ConfirmSelect
<1>8. Apart(r, l)
  BY <1>2, SameApart DEF Asking
<1>9. Reads
  BY DEF ConfirmSelect, Reads, AuthInv, TypeOK
<1>5. CASE Become(r, l)
  BY <1>2, <1>3, <1>5, <1>8, <1>9, LocalStep
<1> QED BY <1>4, <1>5 DEF ConfirmSelect

\* A link that is still active; a revoked one is written (CodeWrite below).
LEMMA AttemptStep ==
    ASSUME AuthInv, NEW r \in Request, Attempt(r), UNCHANGED codes PROVE AuthInv'
<1> DEFINE k == request[r]
<1>1. k \in Local /\ Relies(k) /\ k.pc = "attempt"
  BY DEF Attempt, AuthInv, TypeOK, Reliable, At
<1>9. Reads
  BY DEF Attempt, Reads, AuthInv, TypeOK
<1>2. CASE Return(r)
  BY <1>2, <1>9, ReturnStep DEF Attempt
<1>3. CASE \E c \in k.todo : Become(r, [k EXCEPT !.todo = @ \ {c}])
  <2>1. PICK c \in k.todo : Become(r, [k EXCEPT !.todo = @ \ {c}])
    BY <1>3
  <2> DEFINE l == [k EXCEPT !.todo = @ \ {c}]
  <2>2. /\ l \in Local /\ l.user = k.user /\ l.session = k.session /\ l.code = k.code
        /\ l.own = k.own /\ l.pc = "attempt" /\ l.todo \subseteq k.todo
    BY <1>1 DEF Local
  <2>3. Relies(l)
    BY <1>1, <2>2 DEF Relies, Confirming, Proving, Asking, Idle
  <2>4. Apart(r, l)
    BY <2>2, SameApart DEF Asking
  <2>5. Become(r, l)
    BY <2>1
  <2> QED BY <1>9, <2>2, <2>3, <2>4, <2>5, LocalStep
<1>4. CASE \E c \in k.todo, pc \in {"wrong", "right"} :
              /\ CodeFree(r, c) /\ Active(c) /\ ~Exhausted(codes[c].failed)
              /\ Become(r, [k EXCEPT !.pc = pc, !.todo = {}, !.code = {c}, !.own = c])
  <2>1. PICK c \in k.todo, pc \in {"wrong", "right"} :
              /\ CodeFree(r, c) /\ Active(c) /\ ~Exhausted(codes[c].failed)
              /\ Become(r, [k EXCEPT !.pc = pc, !.todo = {}, !.code = {c}, !.own = c])
    BY <1>4
  <2> DEFINE l == [k EXCEPT !.pc = pc, !.todo = {}, !.code = {c}, !.own = c]
  <2>2. c \in CodeId
    BY <1>1 DEF Relies
  <2>3. codes[c] \in CodeRow /\ codes[c].failed < MaxAttempts
    BY <2>1, <2>2, AuthAssumption DEF Active, AuthInv, TypeOK, Exhausted, CodeRow
  <2>4. /\ l \in Local /\ l.user = k.user /\ l.session = k.session /\ l.code = {c}
        /\ l.own = c /\ l.pc = pc
    BY <1>1, <2>2 DEF Local, Statement
  <2>5. Relies(l)
    BY <1>1, <2>1, <2>2, <2>3, <2>4 DEF Relies, Confirming, Proving, Asking, Active
  <2>6. Apart(r, l)
    BY <2>1, <2>4 DEF Apart, CodeFree, Asking, AuthInv, TypeOK
  <2>7. Become(r, l)
    BY <2>1
  <2> QED BY <1>9, <2>4, <2>5, <2>6, <2>7, LocalStep
<1> QED
  <2>1. PICK c \in k.todo :
          /\ CodeFree(r, c)
          /\ \/ /\ ~Active(c)
                /\ IF k.todo = {c} THEN Return(r)
                   ELSE Become(r, [k EXCEPT !.todo = @ \ {c}])
             \/ /\ Active(c)
                /\ \E expired \in BOOLEAN :
                     IF expired \/ Exhausted(codes[c].failed)
                       THEN Return(r)
                       ELSE \E pc \in {"wrong", "right"} :
                              Become(r, [k EXCEPT !.pc = pc, !.todo = {}, !.code = {c}, !.own = c])
    BY DEF Attempt
  <2> QED BY <1>2, <1>3, <1>4, <2>1

LEMMA VerifyEmailStep ==
    ASSUME AuthInv, NEW r \in Request, VerifyEmail(r), UNCHANGED codes PROVE AuthInv'
<1>1. \/ UNCHANGED request
      \/ \E c \in CodeId : /\ CodeFree(r, c) /\ Active(c)
                           /\ Become(r, [Idle EXCEPT !.pc = "verify", !.code = {c}, !.own = c])
  BY DEF VerifyEmail
<1>2. request[r] = Idle /\ user # None
  BY DEF VerifyEmail, Calls, At, AuthInv, Reliable, Relies
<1>3. CASE UNCHANGED request
  <2>1. request' = [request EXCEPT ![r] = Idle]
    BY <1>2, <1>3 DEF AuthInv, TypeOK
  <2> QED BY <2>1, ReturnStep DEF Return, Become, VerifyEmail
<1>4. CASE \E c \in CodeId :
              /\ CodeFree(r, c) /\ Active(c)
              /\ Become(r, [Idle EXCEPT !.pc = "verify", !.code = {c}, !.own = c])
  <2>1. PICK c \in CodeId :
              /\ CodeFree(r, c) /\ Active(c)
              /\ Become(r, [Idle EXCEPT !.pc = "verify", !.code = {c}, !.own = c])
    BY <1>4
  <2> DEFINE l == [Idle EXCEPT !.pc = "verify", !.code = {c}, !.own = c]
  <2>2. /\ l \in Local /\ l.pc = "verify" /\ l.user = FALSE /\ l.session = {}
        /\ l.code = {c} /\ l.own = c
    BY IdleRelies DEF Idle, Local, Statement
  <2>3. Relies(l)
    BY <1>2, <2>1, <2>2 DEF Relies, Confirming, Proving, Asking, Active
  <2>4. Apart(r, l)
    BY <2>1, <2>2 DEF Apart, CodeFree, Asking
  <2>5. Become(r, l)
    BY <2>1
  <2>6. Reads
    BY DEF VerifyEmail, Reads, AuthInv, TypeOK
  <2> QED BY <2>2, <2>3, <2>4, <2>5, <2>6, LocalStep
<1> QED BY <1>1, <1>3, <1>4

LEMMA RefreshStep ==
    ASSUME AuthInv, NEW r \in Request, Refresh(r), UNCHANGED sessions PROVE AuthInv'
<1>1. \/ UNCHANGED request
      \/ \E s \in Session, pc \in {"reuse", "rotate"} :
            /\ sessions[s] # None /\ SessionFree(r, s)
            /\ pc = "rotate" => s \in LiveSessions
            /\ Become(r, [Idle EXCEPT !.pc = pc, !.session = {s}, !.own = s])
  BY DEF Refresh, LiveSessions
<1>2. request[r] = Idle /\ user # None
  BY DEF Refresh, Calls, At, AuthInv, Reliable, Relies
<1>3. CASE UNCHANGED request
  <2>1. request' = [request EXCEPT ![r] = Idle]
    BY <1>2, <1>3 DEF AuthInv, TypeOK
  <2> QED BY <2>1, ReturnStep DEF Return, Become, Refresh
<1>4. ASSUME NEW s \in Session, NEW pc \in {"reuse", "rotate"},
             sessions[s] # None, SessionFree(r, s), pc = "rotate" => s \in LiveSessions,
             Become(r, [Idle EXCEPT !.pc = pc, !.session = {s}, !.own = s])
      PROVE  AuthInv'
  <2> DEFINE l == [Idle EXCEPT !.pc = pc, !.session = {s}, !.own = s]
  <2>2. /\ l \in Local /\ l.pc = pc /\ l.user = FALSE /\ l.session = {s}
        /\ l.code = {} /\ l.own = s
    BY IdleRelies DEF Idle, Local, Statement
  <2>3. Relies(l)
    BY <1>2, <1>4, <2>2 DEF Relies, Confirming, Proving, Asking
  <2>4. Apart(r, l)
    BY <1>4, <2>2 DEF Apart, SessionFree, Asking
  <2>5. Become(r, l)
    BY <1>4
  <2>6. Reads
    BY DEF Refresh, Reads, AuthInv, TypeOK
  <2> QED BY <2>2, <2>3, <2>4, <2>5, <2>6, LocalStep
<1> QED BY <1>1, <1>3, <1>4

-----------------------------------------------------------------------------
(* Actions that write.                                                     *)

\* What the rows of the tables are, in TypeOK.
Rows == /\ user \in [password : 1 .. MaxPasswords, verified : BOOLEAN]
        /\ sessions \in [Session -> SessionRow \cup {None}]
        /\ codes \in [CodeId -> CodeRow \cup {None}]
        /\ origin \in [Session -> Origin \cup {None}]
        /\ wrong \in [CodeId -> Nat]
        /\ accepted \in [CodeId -> Nat]

\* The commit leaves request q everything q relies on.
Leaves(q) ==
    LET l == request[q] IN
    /\ l.user => user' = user /\ \A s \in Session : sessions[s] = None => sessions'[s] = None
    /\ \A s \in Session : sessions[s] # None /\ sessions[s].revoked => sessions'[s].revoked
    /\ \A s \in l.session : sessions'[s] = sessions[s]
    /\ \A c \in l.code : codes'[c] = codes[c]
    /\ l.pc \in Asking => codes'[l.own] = None

LEMMA StillRelies ==
    ASSUME AuthInv, Rows, Rows', NEW q \in Request, request'[q] = request[q], Leaves(q)
    PROVE  Relies(request[q])'
<1> DEFINE l == request[q]
<1>1. l \in Local /\ Relies(l) /\ user # None /\ user' # None
  BY AuthAssumption DEF AuthInv, TypeOK, Reliable, Rows
<1>2. l.pc \in Confirming => l.user /\ user' # None /\ user'.password < MaxPasswords
  BY <1>1 DEF Relies, Leaves
<1>3. l.pc = "rotate" => l.own \in LiveSessions' /\ l.session = {l.own}
  BY <1>1 DEF Relies, Leaves, LiveSessions
<1>4. l.pc \in Proving => l.own \in CodeId /\ l.code = {l.own} /\ Active(l.own)'
                          /\ codes'[l.own] = codes[l.own]
  BY <1>1 DEF Relies, Leaves, Active
<1>5. l.pc = "wrong" => codes'[l.own].failed < MaxAttempts
  BY <1>1, <1>4 DEF Relies, Proving
<1>6. l.pc \in Asking => l.own \in CodeId /\ codes'[l.own] = None
  BY <1>1 DEF Relies, Leaves
<1>7. l.pc \in {"codeRows", "attempt"} => l.todo \subseteq CodeId
  BY <1>1 DEF Relies
<1>8. l.pc = "rightRows" => LiveSessions' \subseteq l.todo \cup l.session
  <2>1. l.pc = "rightRows" => l.user /\ LiveSessions \subseteq l.todo \cup l.session
    BY <1>1 DEF Relies, Confirming
  <2>2. l.user => LiveSessions' \subseteq LiveSessions
    BY DEF Leaves, LiveSessions
  <2> QED BY <2>1, <2>2
<1>9. \A s \in l.session : sessions'[s] # None
  BY <1>1 DEF Relies, Leaves
<1>10. \A c \in l.code : codes'[c] # None
  BY <1>1 DEF Relies, Leaves
<1>11. l.pc = "idle" => l = Idle
  BY <1>1 DEF Relies
<1> QED BY <1>1, <1>2, <1>3, <1>4, <1>5, <1>6, <1>7, <1>8, <1>9, <1>10, <1>11 DEF Relies

\* A request that commits: it ends, or goes on to issue a session.
LEMMA WriteStep ==
    ASSUME AuthInv, Rows, Rows', NEW r \in Request, NEW l \in Local, Become(r, l),
           l = Idle \/ l.pc = "issue", ~l.user, l.session = {}, l.code = {},
           \A q \in Request \ {r} : Leaves(q),
           (Lineage /\ Counted /\ NoFork /\ ResetEndsSessions)'
    PROVE  AuthInv'
<1>1. request' = [request EXCEPT ![r] = l] /\ request \in [Request -> Local]
  BY DEF Become, AuthInv, TypeOK
<1>2. \A q \in Request : request'[q] = IF q = r THEN l ELSE request[q]
  BY <1>1
<1>3. TypeOK'
  <2>1. request' \in [Request -> Local]
    BY <1>1
  <2>2. \A p, q \in Request : p # q =>
          /\ ~(request'[p].user /\ request'[q].user)
          /\ request'[p].session \cap request'[q].session = {}
          /\ request'[p].code \cap request'[q].code = {}
    BY <1>2 DEF AuthInv, TypeOK
  <2> QED BY <2>1, <2>2 DEF Rows, TypeOK
<1>4. user' # None
  BY AuthAssumption DEF Rows
<1>5. Reliable'
  <2>1. ASSUME NEW q \in Request, q # r PROVE Relies(request[q])'
    BY <1>2, <2>1, StillRelies
  <2>2. request'[r] = l
    BY <1>2
  <2>3. Relies(request[r])'
    <3>1. l = Idle => l.pc = "idle"
      BY DEF Idle
    <3> QED BY <1>4, <2>2, <3>1 DEF Relies, Confirming, Proving, Asking
  <2> QED BY <2>1, <2>3 DEF Reliable
<1>6. IdsApart'
  <2>1. l.pc \notin Asking
    BY DEF Asking, Idle
  <2> QED BY <1>2, <2>1 DEF AuthInv, IdsApart
<1> QED BY <1>3, <1>4, <1>5, <1>6 DEF AuthInv, UserFirst

\* With a user, the rows are those of TypeOK.
LEMMA RowsOfUser == ASSUME AuthInv, user # None PROVE Rows
BY DEF AuthInv, TypeOK, Rows

\* A commit that ends sessions and begins none.
LEMMA EndSessions ==
    ASSUME AuthInv, NEW S \in SUBSET Session, \A s \in S : sessions[s] # None,
           sessions' = AllRevoked(S)
    PROVE  /\ sessions' \in [Session -> SessionRow \cup {None}]
           /\ \A s \in Session : sessions'[s] = None <=> sessions[s] = None
           /\ \A s \in Session \ S : sessions'[s] = sessions[s]
           /\ \A s \in Session : sessions[s] # None /\ sessions[s].revoked => sessions'[s].revoked
           /\ LiveSessions' = LiveSessions \ S
<1>1. \A s \in Session : sessions'[s] = IF s \in S THEN Revoked(sessions[s], None) ELSE sessions[s]
  BY DEF AllRevoked
<1>2. \A s \in S : /\ Revoked(sessions[s], None) \in SessionRow
                    /\ Revoked(sessions[s], None).revoked
  BY DEF Revoked, SessionRow, AuthInv, TypeOK
<1>3. None \notin SessionRow
  BY AuthAssumption DEF SessionRow
<1>4. sessions' \in [Session -> SessionRow \cup {None}]
  BY <1>1, <1>2 DEF AllRevoked, AuthInv, TypeOK
<1>5. LiveSessions' = LiveSessions \ S
  BY <1>1, <1>2, <1>3 DEF LiveSessions
<1> QED BY <1>1, <1>2, <1>3, <1>4, <1>5

LEMMA RevokeStep ==
    ASSUME AuthInv, NEW r \in Request, NEW S \in SUBSET Session, user # None,
           \A s \in S : sessions[s] # None /\ \A q \in Request \ {r} : s \notin request[q].session,
           sessions' = AllRevoked(S), Become(r, Idle),
           UNCHANGED <<user, codes, origin, wrong, accepted>>
    PROVE  AuthInv'
<1>1. /\ sessions' \in [Session -> SessionRow \cup {None}]
      /\ \A s \in Session : sessions'[s] = None <=> sessions[s] = None
      /\ \A s \in Session \ S : sessions'[s] = sessions[s]
      /\ \A s \in Session : sessions[s] # None /\ sessions[s].revoked => sessions'[s].revoked
      /\ LiveSessions' = LiveSessions \ S
  BY EndSessions
<1>2. Rows /\ Rows'
  BY <1>1, RowsOfUser DEF Rows
<1>3. \A q \in Request \ {r} : Leaves(q)
  <2> SUFFICES ASSUME NEW q \in Request \ {r} PROVE Leaves(q)
    OBVIOUS
  <2>1. Relies(request[q]) /\ request[q] \in Local
    BY DEF AuthInv, Reliable, TypeOK
  <2>2. \A s \in request[q].session : s \in Session \ S
    BY <2>1 DEF Local
  <2> QED BY <1>1, <2>1, <2>2 DEF Leaves, Relies
<1>4. Lineage' /\ Counted' /\ NoFork' /\ ResetEndsSessions'
  <2>1. Lineage'
    BY <1>1 DEF AuthInv, Lineage, TypeOK, Origin
  <2>2. Counted' /\ NoFork'
    BY DEF AuthInv, Counted, NoFork
  <2>3. ResetEndsSessions'
    BY <1>1 DEF AuthInv, ResetEndsSessions
  <2> QED BY <2>1, <2>2, <2>3
<1> QED BY <1>2, <1>3, <1>4, IdleRelies, WriteStep DEF Idle

LEMMA RefreshAny == ASSUME AuthInv, NEW r \in Request, Refresh(r) PROVE AuthInv'
<1>1. CASE UNCHANGED sessions
  BY <1>1, RefreshStep
<1>2. CASE \E s \in Session :
              /\ sessions[s] # None /\ SessionFree(r, s)
              /\ sessions' = [sessions EXCEPT ![s] = Revoked(@, None)]
              /\ UNCHANGED request
  <2>1. PICK s \in Session : /\ sessions[s] # None /\ SessionFree(r, s)
                             /\ sessions' = [sessions EXCEPT ![s] = Revoked(@, None)]
    BY <1>2
  <2>2. request[r] = Idle /\ user # None
    BY DEF Refresh, Calls, At, AuthInv, Reliable, Relies
  <2>3. Become(r, Idle)
    BY <1>2, <2>2 DEF Become, AuthInv, TypeOK
  <2>4. sessions' = AllRevoked({s})
    BY <2>1 DEF AllRevoked, AuthInv, TypeOK
  <2> QED BY <2>1, <2>2, <2>3, <2>4, RevokeStep DEF Refresh, SessionFree
<1> QED BY <1>1, <1>2 DEF Refresh

LEMMA LogoutStep == ASSUME AuthInv, NEW r \in Request, Logout(r) PROVE AuthInv'
<1>1. PICK s \in Session : sessions[s] # None /\ SessionFree(r, s) /\ sessions' = AllRevoked({s})
  BY DEF Logout
<1>2. request[r] = Idle /\ user # None
  BY DEF Logout, Calls, At, AuthInv, Reliable, Relies
<1>3. Become(r, Idle)
  BY <1>2 DEF Logout, Become, AuthInv, TypeOK
<1> QED BY <1>1, <1>2, <1>3, RevokeStep DEF Logout, SessionFree

LEMMA ReuseCommitStep == ASSUME AuthInv, NEW r \in Request, ReuseCommit(r) PROVE AuthInv'
<1> DEFINE S == request[r].session
<1>1. request[r] \in Local /\ Relies(request[r]) /\ request[r].pc = "reuseRows"
  BY DEF ReuseCommit, At, AuthInv, TypeOK, Reliable
<1>2. user # None
  BY <1>1 DEF Relies, Idle
<1>3. S \in SUBSET Session
  BY <1>1 DEF Local
<1>4. \A s \in S : sessions[s] # None /\ \A q \in Request \ {r} : s \notin request[q].session
  BY <1>1 DEF Relies, AuthInv, TypeOK
<1> QED BY <1>2, <1>3, <1>4, RevokeStep DEF ReuseCommit, Return

\* The table with a new session, and with the one it replaces revoked.
Inserted(new, old) == [s \in Session |-> IF s = new THEN NewSession
                                         ELSE IF s = old THEN Revoked(sessions[s], new)
                                         ELSE sessions[s]]
Noted(new, row) == [origin EXCEPT ![new] = row]

LEMMA InsertStep ==
    ASSUME AuthInv, NEW r \in Request, Become(r, Idle), user # None, UserFree(r),
           NEW new \in Session, sessions[new] = None,
           NEW old \in Session \cup {None}, NEW row \in Origin,
           old # None => /\ old \in LiveSessions
                         /\ \A q \in Request \ {r} : old \notin request[q].session,
           sessions' = Inserted(new, old),
           origin' = Noted(new, row), row.parent = old, row.born = user.password,
           UNCHANGED <<user, codes, wrong, accepted>>
    PROVE  AuthInv'
<1> USE DEF Inserted, Noted
<1>1. old # None => /\ Revoked(sessions[old], new).revoked
                    /\ Revoked(sessions[old], new) \in SessionRow
  <2>1. old # None => sessions[old] \in SessionRow
    BY DEF LiveSessions, AuthInv, TypeOK
  <2> QED BY <2>1 DEF Revoked, SessionRow
<1>2. NewSession \in SessionRow /\ ~NewSession.revoked
  BY DEF NewSession, SessionRow
<1>3. None \notin SessionRow /\ None \notin Session /\ old # new
  BY AuthAssumption DEF SessionRow, LiveSessions
<1>4. sessions' \in [Session -> SessionRow \cup {None}]
  <2>1. \A s \in Session : sessions'[s] \in SessionRow \cup {None}
    BY <1>1, <1>2, <1>3 DEF AuthInv, TypeOK
  <2> QED BY <2>1
<1>5. origin' \in [Session -> Origin \cup {None}]
  BY DEF AuthInv, TypeOK
<1>6. Rows /\ Rows'
  BY <1>4, <1>5, RowsOfUser DEF Rows
<1>7. \A q \in Request \ {r} : Leaves(q)
  <2> SUFFICES ASSUME NEW q \in Request \ {r} PROVE Leaves(q)
    OBVIOUS
  <2>1. Relies(request[q]) /\ request[q] \in Local /\ ~request[q].user
    BY DEF AuthInv, Reliable, TypeOK, UserFree
  <2>2. \A s \in request[q].session : s \in Session /\ s # new /\ s # old
    BY <2>1, <1>3 DEF Local, Relies
  <2>3. \A s \in Session : sessions[s] # None /\ sessions[s].revoked => sessions'[s] = sessions[s]
    BY <1>3 DEF LiveSessions
  <2>4. \A s \in request[q].session : sessions'[s] = sessions[s]
    BY <2>2
  <2>5. \A c \in request[q].code : codes'[c] = codes[c]
    OBVIOUS
  <2>6. request[q].pc \in Asking => codes'[request[q].own] = None
    BY <2>1 DEF Relies
  <2> QED BY <2>1, <2>3, <2>4, <2>5, <2>6 DEF Leaves
<1>8. \A s \in Session : origin'[s] = IF s = new THEN row ELSE origin[s]
  BY DEF AuthInv, TypeOK
<1>9. origin[new] = None /\ row # None
  BY AuthAssumption DEF AuthInv, Lineage, Origin
<1>10. Lineage'
  <2>1. \A s \in Session : sessions'[s] = None <=> origin'[s] = None
    BY <1>1, <1>2, <1>3, <1>8, <1>9 DEF AuthInv, Lineage, LiveSessions
  <2>2. \A s \in Session : sessions[s] # None /\ sessions[s].revoked
                            => sessions'[s] # None /\ sessions'[s].revoked
    BY <1>3 DEF LiveSessions
  <2>3. old # None => sessions'[old] # None /\ sessions'[old].revoked
    BY <1>1, <1>3 DEF LiveSessions
  <2>4. \A s \in Session : origin[s] # None => origin[s].parent \in Session \cup {None}
    BY DEF AuthInv, TypeOK, Origin
  <2> QED BY <1>3, <1>8, <1>9, <2>1, <2>2, <2>3, <2>4 DEF AuthInv, Lineage
<1>11. NoFork'
  BY <1>3, <1>8, <1>9 DEF AuthInv, NoFork, Lineage, LiveSessions
<1>12. ResetEndsSessions'
  <2>1. LiveSessions' \subseteq LiveSessions \cup {new}
    BY <1>1, <1>2, <1>3 DEF LiveSessions
  <2> QED BY <2>1, <1>8 DEF AuthInv, ResetEndsSessions, LiveSessions
<1>13. Counted'
  BY DEF AuthInv, Counted
<1> QED BY <1>6, <1>7, <1>10, <1>11, <1>12, <1>13, IdleRelies, WriteStep DEF Idle

LEMMA IssueStep == ASSUME AuthInv, NEW r \in Request, Issue(r) PROVE AuthInv'
<1>1. PICK s \in Session :
         /\ sessions[s] = None
         /\ sessions' = [sessions EXCEPT ![s] = NewSession]
         /\ origin' = [origin EXCEPT ![s] = [parent |-> None, root |-> s,
                                            born |-> user.password, won |-> request[r].won]]
  BY DEF Issue
<1>2. request[r] \in Local /\ Relies(request[r]) /\ request[r].pc = "issue"
  BY DEF Issue, At, AuthInv, TypeOK, Reliable
<1>3. user # None
  BY <1>2 DEF Relies, Idle
<1> DEFINE row == [parent |-> None, root |-> s, born |-> user.password, won |-> request[r].won]
<1>4. row \in Origin /\ row.parent = None /\ row.born = user.password
  BY <1>2, <1>3 DEF Origin, Local, AuthInv, TypeOK
<1>5. sessions' = Inserted(s, None)
  BY <1>1, AuthAssumption DEF Inserted, AuthInv, TypeOK
<1>6. origin' = [origin EXCEPT ![s] = row]
  BY <1>1
<1>7. UserFree(r) /\ Become(r, Idle) /\ UNCHANGED <<user, codes, wrong, accepted>>
  BY DEF Issue, Return
<1>8. PICK w \in Origin : w.parent = None /\ w.born = user.password /\ origin' = Noted(s, w)
  BY <1>4, <1>6 DEF Noted
<1>9. None \in Session \cup {None}
  OBVIOUS
<1> QED BY <1>1, <1>3, <1>5, <1>7, <1>8, <1>9, InsertStep

LEMMA RotateStep == ASSUME AuthInv, NEW r \in Request, Rotate(r) PROVE AuthInv'
<1> DEFINE old == request[r].own
<1>1. PICK new \in Session :
         /\ sessions[new] = None
         /\ sessions' = [sessions EXCEPT ![new] = NewSession, ![old] = Revoked(@, new)]
         /\ origin' = [origin EXCEPT ![new] = [origin[old] EXCEPT !.parent = old]]
  BY DEF Rotate
<1>2. request[r] \in Local /\ Relies(request[r]) /\ request[r].pc = "rotate"
  BY DEF Rotate, At, AuthInv, TypeOK, Reliable
<1>3. user # None
  BY <1>2 DEF Relies, Idle
<1>4. old \in LiveSessions /\ request[r].session = {old}
  BY <1>2 DEF Relies
<1>5. \A q \in Request \ {r} : old \notin request[q].session
  BY <1>4 DEF AuthInv, TypeOK
<1>6. origin[old] \in Origin /\ origin[old].born = user.password /\ old \in Session
  BY <1>4 DEF LiveSessions, AuthInv, TypeOK, Lineage, ResetEndsSessions
<1> DEFINE row == [origin[old] EXCEPT !.parent = old]
<1>7. row \in Origin /\ row.parent = old /\ row.born = user.password
  BY <1>6 DEF Origin
<1>8. new # old
  BY <1>1, <1>4 DEF LiveSessions
<1>9. sessions' = Inserted(new, old)
  BY <1>1, <1>8 DEF Inserted, AuthInv, TypeOK
<1>10. origin' = [origin EXCEPT ![new] = row]
  BY <1>1
<1>11. UserFree(r) /\ Become(r, Idle) /\ UNCHANGED <<user, codes, wrong, accepted>>
  BY DEF Rotate, Return
<1>12. PICK t \in Session, w \in Origin :
          /\ t \in LiveSessions /\ \A q \in Request \ {r} : t \notin request[q].session
          /\ sessions' = Inserted(new, t)
          /\ w.parent = t /\ w.born = user.password /\ origin' = Noted(new, w)
  <2> HIDE DEF row
  <2> QED BY <1>4, <1>5, <1>6, <1>7, <1>9, <1>10 DEF Noted
<1>13. t \in Session \cup {None}
  OBVIOUS
<1> QED BY <1>1, <1>3, <1>11, <1>12, <1>13, InsertStep

\* A commit that writes challenges, and the user's verified flag.
LEMMA CodeWrite ==
    ASSUME AuthInv, NEW r \in Request, NEW l \in Local, Become(r, l),
           l = Idle \/ l.pc = "issue", ~l.user, l.session = {}, l.code = {},
           user # None, user' \in [password : 1 .. MaxPasswords, verified : BOOLEAN],
           user'.password = user.password,
           user' = user \/ UserFree(r),
           codes' \in [CodeId -> CodeRow \cup {None}],
           wrong' \in [CodeId -> Nat], accepted' \in [CodeId -> Nat],
           \A q \in Request \ {r} :
              /\ \A c \in request[q].code : codes'[c] = codes[c]
              /\ request[q].pc \in Asking => codes'[request[q].own] = None,
           Counted', UNCHANGED <<sessions, origin>>
    PROVE  AuthInv'
<1>1. Rows /\ Rows'
  BY RowsOfUser DEF Rows
<1>2. \A q \in Request \ {r} : Leaves(q)
  BY DEF Leaves, UserFree
<1>3. Lineage' /\ NoFork' /\ ResetEndsSessions'
  BY DEF AuthInv, Lineage, NoFork, ResetEndsSessions, LiveSessions
<1> QED BY <1>1, <1>2, <1>3, WriteStep

LEMMA RevokedRow ==
    ASSUME NEW row \in CodeRow
    PROVE  LET revoked == [row EXCEPT !.revoked = TRUE]
           IN  revoked \in CodeRow /\ revoked.failed = row.failed
BY DEF CodeRow

\* A write that leaves the counts of wrong codes alone.
LEMMA CountedKept ==
    ASSUME Counted, UNCHANGED wrong,
           \A d \in CodeId : /\ codes'[d] = None <=> codes[d] = None
                             /\ codes[d] # None => codes'[d].failed = codes[d].failed
    PROVE  Counted'
BY DEF Counted

\* A challenge found active but expired or exhausted, or followed by its
\* link again, is revoked.
LEMMA CodeRevoked ==
    ASSUME AuthInv, NEW r \in Request, Become(r, Idle), user # None,
           NEW c \in CodeId, codes[c] # None, CodeFree(r, c),
           codes' = [codes EXCEPT ![c].revoked = TRUE],
           UNCHANGED <<user, sessions, origin, wrong, accepted>>
    PROVE  AuthInv'
<1>1. codes' \in [CodeId -> CodeRow \cup {None}]
  <2>1. [codes[c] EXCEPT !.revoked = TRUE] \in CodeRow
    BY DEF CodeRow, AuthInv, TypeOK
  <2> QED BY <2>1 DEF AuthInv, TypeOK
<1>2. \A d \in CodeId : codes'[d] = IF d = c THEN [codes[c] EXCEPT !.revoked = TRUE] ELSE codes[d]
  BY DEF AuthInv, TypeOK
<1>3. \A q \in Request \ {r} :
         /\ \A d \in request[q].code : codes'[d] = codes[d]
         /\ request[q].pc \in Asking => codes'[request[q].own] = None
  <2> SUFFICES ASSUME NEW q \in Request \ {r}
               PROVE  /\ \A d \in request[q].code : codes'[d] = codes[d]
                      /\ request[q].pc \in Asking => codes'[request[q].own] = None
    OBVIOUS
  <2>1. Relies(request[q]) /\ request[q] \in Local
    BY DEF AuthInv, Reliable, TypeOK
  <2> QED BY <1>2, <2>1 DEF CodeFree, Relies, Local
<1>4. Counted'
  <2>1. codes[c] \in CodeRow /\ Counted
    BY DEF AuthInv, TypeOK
  <2>2. codes'[c] = [codes[c] EXCEPT !.revoked = TRUE]
    BY <1>2
  <2>3. codes'[c].failed = codes[c].failed /\ codes'[c] \in CodeRow
    BY <2>1, <2>2, RevokedRow
  <2>4. codes'[c] # None
    BY <2>3, AuthAssumption DEF CodeRow
  <2>5. \A d \in CodeId : /\ codes'[d] = None <=> codes[d] = None
                          /\ codes[d] # None => codes'[d].failed = codes[d].failed
    BY <1>2, <2>3, <2>4
  <2> QED BY <2>1, <2>5, CountedKept
<1>5. /\ user' \in [password : 1 .. MaxPasswords, verified : BOOLEAN]
      /\ wrong' \in [CodeId -> Nat] /\ accepted' \in [CodeId -> Nat]
  BY DEF AuthInv, TypeOK
<1>6. Idle \in Local /\ ~Idle.user /\ Idle.session = {} /\ Idle.code = {}
  BY IdleRelies DEF Idle
<1> QED BY <1>1, <1>3, <1>4, <1>5, <1>6, CodeWrite

LEMMA VerifyEmailAny == ASSUME AuthInv, NEW r \in Request, VerifyEmail(r) PROVE AuthInv'
<1>1. CASE UNCHANGED codes
  BY <1>1, VerifyEmailStep
<1>2. CASE \E c \in CodeId : /\ codes[c] # None /\ CodeFree(r, c)
                            /\ codes' = [codes EXCEPT ![c].revoked = TRUE]
                            /\ UNCHANGED request
  <2>1. PICK c \in CodeId : /\ codes[c] # None /\ CodeFree(r, c)
                            /\ codes' = [codes EXCEPT ![c].revoked = TRUE]
    BY <1>2
  <2>2. request[r] = Idle /\ user # None
    BY DEF VerifyEmail, Calls, At, AuthInv, Reliable, Relies
  <2>3. Become(r, Idle)
    BY <1>2, <2>2 DEF Become, AuthInv, TypeOK
  <2>4. UNCHANGED <<user, sessions, origin, wrong, accepted>>
    BY DEF VerifyEmail
  <2> QED BY <2>1, <2>2, <2>3, <2>4, CodeRevoked
<1> QED BY <1>1, <1>2 DEF VerifyEmail

LEMMA AttemptAny == ASSUME AuthInv, NEW r \in Request, Attempt(r) PROVE AuthInv'
<1>1. CASE UNCHANGED codes
  BY <1>1, AttemptStep
<1>2. CASE \E c \in request[r].todo :
              /\ CodeFree(r, c) /\ Active(c)
              /\ codes' = [codes EXCEPT ![c].revoked = TRUE] /\ Return(r)
  <2>1. PICK c \in request[r].todo :
              /\ CodeFree(r, c) /\ Active(c)
              /\ codes' = [codes EXCEPT ![c].revoked = TRUE] /\ Return(r)
    BY <1>2
  <2>2. request[r] \in Local /\ Relies(request[r]) /\ request[r].pc = "attempt"
    BY DEF Attempt, At, AuthInv, TypeOK, Reliable
  <2>3. user # None /\ c \in CodeId
    BY <2>2 DEF Relies, Idle
  <2>4. UNCHANGED <<user, sessions, origin, wrong, accepted>>
    BY DEF Attempt
  <2> QED BY <2>1, <2>3, <2>4, CodeRevoked DEF Return, Active
<1> QED BY <1>1, <1>2 DEF Attempt

\* The others hold neither c nor its id.
LEMMA OwnApart ==
    ASSUME AuthInv, NEW r \in Request, NEW q \in Request \ {r}, request[r].pc \in Proving
    PROVE  /\ request[r].own \in CodeId /\ Active(request[r].own)
           /\ request[r].own \notin request[q].code
           /\ request[q].code \subseteq CodeId
           /\ request[q].pc \in Asking => /\ request[q].own \in CodeId
                                         /\ request[q].own # request[r].own
                                         /\ codes[request[q].own] = None
<1>1. Relies(request[r]) /\ Relies(request[q]) /\ request[q] \in Local
  BY DEF AuthInv, Reliable, TypeOK
<1>2. request[r].own \in CodeId /\ request[r].code = {request[r].own} /\ Active(request[r].own)
  BY <1>1 DEF Relies
<1> QED BY <1>1, <1>2 DEF Relies, Local, Active, AuthInv, TypeOK

LEMMA VerifyUserStep == ASSUME AuthInv, NEW r \in Request, VerifyUser(r) PROVE AuthInv'
<1> DEFINE l == [Idle EXCEPT !.pc = "issue"]
<1>1. request[r] \in Local /\ Relies(request[r]) /\ request[r].pc = "verify"
  BY DEF VerifyUser, At, AuthInv, TypeOK, Reliable
<1>2. PICK c \in CodeId : c = request[r].own /\ Active(c)
  BY <1>1 DEF Relies, Proving
<1>3. user # None
  BY <1>1 DEF Relies, Idle
<1>4. l \in Local /\ l.pc = "issue" /\ ~l.user /\ l.session = {} /\ l.code = {}
  BY IdleRelies DEF Idle, Local, Statement
<1>5. Become(r, l) /\ UserFree(r)
  BY DEF VerifyUser
<1>6. /\ user' \in [password : 1 .. MaxPasswords, verified : BOOLEAN]
      /\ user'.password = user.password
  BY <1>3 DEF VerifyUser, AuthInv, TypeOK
<1>7. \A d \in CodeId : codes'[d] = IF d = c THEN [codes[c] EXCEPT !.used = TRUE] ELSE codes[d]
  BY <1>2 DEF VerifyUser, AuthInv, TypeOK
<1>8. codes[c] \in CodeRow
  BY <1>2 DEF Active, AuthInv, TypeOK
<1>9. codes'[c] \in CodeRow /\ codes'[c].failed = codes[c].failed
  BY <1>7, <1>8 DEF CodeRow
<1>10. codes' \in [CodeId -> CodeRow \cup {None}]
  <2>1. codes' = [codes EXCEPT ![c].used = TRUE]
    BY <1>2 DEF VerifyUser
  <2> QED BY <1>9, <2>1 DEF AuthInv, TypeOK
<1>11. wrong' \in [CodeId -> Nat] /\ accepted' \in [CodeId -> Nat]
  BY <1>2 DEF VerifyUser, AuthInv, TypeOK
<1>12. \A q \in Request \ {r} :
          /\ \A d \in request[q].code : codes'[d] = codes[d]
          /\ request[q].pc \in Asking => codes'[request[q].own] = None
  BY <1>1, <1>2, <1>7, OwnApart DEF Proving
<1>13. Counted'
  <2>1. codes[c] # None /\ codes'[c] # None
    BY <1>2, <1>9, AuthAssumption DEF Active, CodeRow
  <2>2. \A d \in CodeId : /\ codes'[d] = None <=> codes[d] = None
                          /\ codes[d] # None => codes'[d].failed = codes[d].failed
    BY <1>7, <1>9, <2>1
  <2>3. Counted /\ UNCHANGED wrong
    BY DEF VerifyUser, AuthInv
  <2> QED BY <2>2, <2>3, CountedKept
<1>14. UNCHANGED <<sessions, origin>>
  BY DEF VerifyUser
<1> QED BY <1>3, <1>4, <1>5, <1>6, <1>10, <1>11, <1>12, <1>13, <1>14, CodeWrite

LEMMA WrongCodeStep == ASSUME AuthInv, NEW r \in Request, WrongCode(r) PROVE AuthInv'
<1>1. request[r] \in Local /\ Relies(request[r]) /\ request[r].pc = "wrong"
  BY DEF WrongCode, At, AuthInv, TypeOK, Reliable
<1>2. PICK c \in CodeId : c = request[r].own /\ Active(c) /\ codes[c].failed < MaxAttempts
  BY <1>1 DEF Relies, Proving
<1>3. user # None
  BY <1>1 DEF Relies, Idle
<1>4. codes[c] \in CodeRow
  BY <1>2 DEF Active, AuthInv, TypeOK
<1> DEFINE row == [codes[c] EXCEPT !.failed = codes[c].failed + 1,
                                   !.revoked = @ \/ Exhausted(codes[c].failed + 1)]
<1>5. \A d \in CodeId : codes'[d] = IF d = c THEN row ELSE codes[d]
  BY <1>2, <1>4 DEF WrongCode, AuthInv, TypeOK, CodeRow
<1>6. row \in CodeRow /\ row.failed = codes[c].failed + 1
  <2>1. codes[c].failed + 1 \in 0 .. MaxAttempts
    BY <1>2, <1>4, AuthAssumption DEF CodeRow
  <2>2. (codes[c].revoked \/ Exhausted(codes[c].failed + 1)) \in BOOLEAN
    BY Zenon
  <2> DEFINE n == codes[c].failed + 1
             b == codes[c].revoked \/ Exhausted(n)
  <2>3. [codes[c] EXCEPT !.failed = n, !.revoked = b] = row
    BY <1>4 DEF CodeRow
  <2> HIDE DEF n, b, row
  <2>4. n \in 0 .. MaxAttempts /\ b \in BOOLEAN
    BY <2>1, <2>2 DEF n, b
  <2>5. row \in CodeRow /\ row.failed = n
    BY <1>4, <2>3, <2>4 DEF CodeRow
  <2> QED BY <2>5 DEF n
<1>7. codes' \in [CodeId -> CodeRow \cup {None}]
  <2>1. codes' = [d \in CodeId |-> codes'[d]]
    BY <1>2 DEF WrongCode, AuthInv, TypeOK
  <2> HIDE DEF row
  <2>2. \A d \in CodeId : codes'[d] \in CodeRow \cup {None}
    BY <1>5, <1>6 DEF AuthInv, TypeOK
  <2> QED BY <2>1, <2>2
<1>8. wrong' = [wrong EXCEPT ![c] = @ + 1]
  BY <1>2 DEF WrongCode
<1>9. /\ wrong' \in [CodeId -> Nat] /\ accepted' \in [CodeId -> Nat]
      /\ user' \in [password : 1 .. MaxPasswords, verified : BOOLEAN] /\ user' = user
  BY <1>3, <1>8 DEF WrongCode, AuthInv, TypeOK
<1>10. \A q \in Request \ {r} :
          /\ \A d \in request[q].code : codes'[d] = codes[d]
          /\ request[q].pc \in Asking => codes'[request[q].own] = None
  <2> HIDE DEF row
  <2> QED BY <1>1, <1>2, <1>5, OwnApart DEF Proving
<1>11. Counted'
  <2>1. codes[c] # None /\ row # None
    BY <1>2, <1>6, AuthAssumption DEF Active, CodeRow
  <2> HIDE DEF row
  <2>2. \A d \in CodeId : wrong'[d] = IF d = c THEN wrong[c] + 1 ELSE wrong[d]
    BY <1>8 DEF AuthInv, TypeOK
  <2> QED BY <1>5, <1>6, <2>1, <2>2 DEF AuthInv, Counted
<1>12. UNCHANGED <<sessions, origin>> /\ Become(r, Idle)
  BY DEF WrongCode, Return
<1>13. Idle \in Local /\ ~Idle.user /\ Idle.session = {} /\ Idle.code = {}
  BY IdleRelies DEF Idle
<1> QED BY <1>3, <1>7, <1>9, <1>10, <1>11, <1>12, <1>13, CodeWrite

LEMMA RequestCodeInsertStep ==
    ASSUME AuthInv, NEW r \in Request, RequestCodeInsert(r) PROVE AuthInv'
<1>1. request[r] \in Local /\ Relies(request[r]) /\ request[r].pc = "insertCode"
  BY DEF RequestCodeInsert, At, AuthInv, TypeOK, Reliable
<1>2. PICK c \in CodeId : c = request[r].own /\ codes[c] = None
  BY <1>1 DEF Relies, Asking
<1>3. user # None
  BY <1>1 DEF Relies, Idle
<1>4. PICK K \in SUBSET CodeId : K = request[r].code /\ \A d \in K : codes[d] # None
  BY <1>1 DEF Local, Relies
<1>5. NewCode(request[r].purpose) \in CodeRow /\ NewCode(request[r].purpose).failed = 0
  BY <1>1, AuthAssumption DEF Local, NewCode, CodeRow
<1>6. \A d \in K : /\ [codes[d] EXCEPT !.revoked = TRUE] \in CodeRow
                    /\ [codes[d] EXCEPT !.revoked = TRUE].failed = codes[d].failed
  <2>1. \A d \in K : codes[d] \in CodeRow
    BY <1>4 DEF AuthInv, TypeOK
  <2> QED BY <2>1 DEF CodeRow
<1>7. \A d \in CodeId : codes'[d] = IF d = c THEN NewCode(request[r].purpose)
                                     ELSE IF d \in K THEN [codes[d] EXCEPT !.revoked = TRUE]
                                     ELSE codes[d]
  BY <1>2, <1>4 DEF RequestCodeInsert
<1>8. codes' \in [CodeId -> CodeRow \cup {None}]
  <2>1. codes' = [d \in CodeId |-> codes'[d]]
    BY DEF RequestCodeInsert
  <2>2. \A d \in CodeId : codes'[d] \in CodeRow \cup {None}
    BY <1>5, <1>6, <1>7 DEF AuthInv, TypeOK
  <2> QED BY <2>1, <2>2
<1>9. /\ wrong' \in [CodeId -> Nat] /\ accepted' \in [CodeId -> Nat]
      /\ user' \in [password : 1 .. MaxPasswords, verified : BOOLEAN] /\ user' = user
  BY <1>3 DEF RequestCodeInsert, AuthInv, TypeOK
<1>10. \A q \in Request \ {r} :
          /\ \A d \in request[q].code : codes'[d] = codes[d]
          /\ request[q].pc \in Asking => codes'[request[q].own] = None
  <2> SUFFICES ASSUME NEW q \in Request \ {r}
               PROVE  /\ \A d \in request[q].code : codes'[d] = codes[d]
                      /\ request[q].pc \in Asking => codes'[request[q].own] = None
    OBVIOUS
  <2>1. request[q] \in Local /\ Relies(request[q])
    BY DEF AuthInv, TypeOK, Reliable
  <2>2. request[q].code \cap K = {} /\ request[q].code \subseteq CodeId
    BY <1>4, <2>1 DEF AuthInv, TypeOK, Local
  <2>3. \A d \in request[q].code : d # c /\ d \notin K
    BY <1>2, <2>1, <2>2 DEF Relies
  <2>4. request[q].pc \in Asking => /\ request[q].own \in CodeId /\ request[q].own # c
                                   /\ codes[request[q].own] = None
    BY <1>1, <1>2, <2>1 DEF AuthInv, IdsApart, Asking, Relies
  <2> QED BY <1>4, <1>7, <2>2, <2>3, <2>4
<1>11. Counted'
  <2>1. None \notin CodeRow
    BY AuthAssumption DEF CodeRow
  <2> QED BY <1>2, <1>4, <1>5, <1>6, <1>7, <2>1 DEF RequestCodeInsert, AuthInv, Counted
<1>12. UNCHANGED <<sessions, origin>> /\ Become(r, Idle)
  BY DEF RequestCodeInsert, Return
<1>13. Idle \in Local /\ ~Idle.user /\ Idle.session = {} /\ Idle.code = {}
  BY IdleRelies DEF Idle
<1> QED BY <1>3, <1>8, <1>9, <1>10, <1>11, <1>12, <1>13, CodeWrite

LEMMA ConfirmCommitStep == ASSUME AuthInv, NEW r \in Request, ConfirmCommit(r) PROVE AuthInv'
<1> DEFINE S == request[r].session
<1>1. /\ request[r] \in Local /\ Relies(request[r]) /\ request[r].pc = "rightRows"
      /\ request[r].todo = {}
  BY DEF ConfirmCommit, At, AuthInv, TypeOK, Reliable
<1>2. PICK c \in CodeId : c = request[r].own /\ Active(c)
  BY <1>1 DEF Relies, Proving
<1>3. user # None /\ request[r].user /\ user.password < MaxPasswords
  BY <1>1 DEF Relies, Confirming
<1>4. S \in SUBSET Session /\ (\A s \in S : sessions[s] # None) /\ LiveSessions \subseteq S
  BY <1>1 DEF Local, Relies
<1>5. /\ sessions' \in [Session -> SessionRow \cup {None}]
      /\ \A s \in Session : sessions'[s] = None <=> sessions[s] = None
      /\ \A s \in Session \ S : sessions'[s] = sessions[s]
      /\ \A s \in Session : sessions[s] # None /\ sessions[s].revoked => sessions'[s].revoked
      /\ LiveSessions' = LiveSessions \ S
  BY <1>4, EndSessions DEF ConfirmCommit
<1>6. user' \in [password : 1 .. MaxPasswords, verified : BOOLEAN]
  <2>1. user \in [password : 1 .. MaxPasswords, verified : BOOLEAN]
    BY <1>3 DEF AuthInv, TypeOK
  <2>2. user.password + 1 \in 1 .. MaxPasswords
    BY <1>3, <2>1, AuthAssumption
  <2> QED BY <2>1, <2>2 DEF ConfirmCommit
<1>7. codes[c] \in CodeRow
  BY <1>2 DEF Active, AuthInv, TypeOK
<1>8. \A d \in CodeId : codes'[d] = IF d = c THEN [codes[c] EXCEPT !.used = TRUE] ELSE codes[d]
  BY <1>2 DEF ConfirmCommit, AuthInv, TypeOK
<1>9. codes'[c] \in CodeRow /\ codes'[c].failed = codes[c].failed
  BY <1>7, <1>8 DEF CodeRow
<1>10. codes' \in [CodeId -> CodeRow \cup {None}]
  <2>1. codes' = [codes EXCEPT ![c].used = TRUE]
    BY <1>2 DEF ConfirmCommit
  <2> QED BY <1>9, <2>1 DEF AuthInv, TypeOK
<1>11. accepted' \in [CodeId -> Nat]
  BY <1>2 DEF ConfirmCommit, AuthInv, TypeOK
<1>12. Rows /\ Rows'
  BY <1>3, <1>5, <1>6, <1>10, <1>11, RowsOfUser DEF Rows, ConfirmCommit
<1>13. \A q \in Request \ {r} : Leaves(q)
  <2> SUFFICES ASSUME NEW q \in Request \ {r} PROVE Leaves(q)
    OBVIOUS
  <2>1. ~request[q].user
    BY <1>3 DEF AuthInv, TypeOK
  <2>2. request[q] \in Local /\ request[q].session \subseteq Session \ S
    BY DEF AuthInv, TypeOK, Local
  <2>3. /\ \A d \in request[q].code : codes'[d] = codes[d]
        /\ request[q].pc \in Asking => codes'[request[q].own] = None
    BY <1>1, <1>2, <1>8, OwnApart DEF Proving
  <2> QED BY <1>5, <2>1, <2>2, <2>3 DEF Leaves
<1>14. Lineage' /\ NoFork'
  BY <1>5 DEF ConfirmCommit, AuthInv, Lineage, NoFork, TypeOK, Origin
<1>15. ResetEndsSessions'
  BY <1>4, <1>5 DEF ResetEndsSessions
<1>16. Counted'
  <2>1. codes[c] # None /\ codes'[c] # None
    BY <1>2, <1>9, AuthAssumption DEF Active, CodeRow
  <2> QED BY <1>8, <1>9, <2>1 DEF ConfirmCommit, AuthInv, Counted
<1>17. PICK l \in Local : /\ Become(r, l) /\ (l = Idle \/ l.pc = "issue")
                          /\ ~l.user /\ l.session = {} /\ l.code = {}
  <2> DEFINE i == [Idle EXCEPT !.pc = "issue", !.purpose = "change", !.won = user.password + 1]
  <2>1. user.password + 1 \in Nat
    BY <1>3 DEF AuthInv, TypeOK
  <2>2. i \in Local /\ i.pc = "issue" /\ ~i.user /\ i.session = {} /\ i.code = {}
    BY <2>1, IdleRelies DEF Idle, Local, Statement, Purpose
  <2>3. ~Idle.user /\ Idle.session = {} /\ Idle.code = {}
    BY DEF Idle
  <2>4. CASE request[r].purpose = "reset"
    <3>1. Become(r, Idle)
      BY <2>4 DEF ConfirmCommit
    <3> QED BY <2>3, <3>1, IdleRelies
  <2>5. CASE request[r].purpose # "reset"
    <3>1. Become(r, i)
      BY <2>5 DEF ConfirmCommit
    <3> HIDE DEF i
    <3> QED BY <2>2, <3>1
  <2> QED BY <2>4, <2>5
<1> QED BY <1>12, <1>13, <1>14, <1>15, <1>16, <1>17, WriteStep

LEMMA RegisterStep == ASSUME AuthInv, Register PROVE AuthInv'
<1>1. user = None /\ \A r \in Request : request[r] = Idle
  BY DEF Register, AuthInv, Reliable, Relies
<1>2. user' = [password |-> 1, verified |-> FALSE] /\ user' # None
  <2>1. [password |-> 1, verified |-> FALSE] \in [password : Nat, verified : BOOLEAN]
    OBVIOUS
  <2> QED BY <2>1, AuthAssumption DEF Register
<1>3. NewCode("verify") \in CodeRow /\ NewCode("verify").failed = 0
  BY AuthAssumption DEF NewCode, CodeRow, Purpose
<1>4. codes' = [codes EXCEPT ![1] = NewCode("verify")]
  BY DEF Register
<1>5. TypeOK'
  <2>1. user' \in [password : 1 .. MaxPasswords, verified : BOOLEAN] \cup {None}
    BY <1>2, AuthAssumption
  <2>2. codes' \in [CodeId -> CodeRow \cup {None}]
    BY <1>3, <1>4 DEF AuthInv, TypeOK
  <2> QED BY <2>1, <2>2 DEF Register, AuthInv, TypeOK
<1>6. Reliable' /\ IdsApart'
  <2>1. \A r \in Request : request'[r] = Idle
    BY <1>1 DEF Register
  <2>2. /\ Idle.pc = "idle" /\ Idle.session = {} /\ Idle.code = {}
    BY DEF Idle
  <2>3. Reliable'
    BY <2>1, <2>2 DEF Reliable, Relies, Confirming, Proving, Asking
  <2>4. IdsApart'
    BY <2>1, <2>2 DEF IdsApart, Asking
  <2> QED BY <2>3, <2>4
<1>7. Counted'
  <2>1. NewCode("verify") # None
    BY <1>3, AuthAssumption DEF CodeRow
  <2> QED BY <1>1, <1>3, <1>4, <2>1 DEF Register, AuthInv, TypeOK, Counted, UserFirst
<1>8. (UserFirst /\ Lineage /\ NoFork /\ ResetEndsSessions)'
  BY <1>1, <1>2 DEF Register, AuthInv, UserFirst, Lineage, NoFork, ResetEndsSessions, LiveSessions
<1> QED BY <1>5, <1>6, <1>7, <1>8 DEF AuthInv

LEMMA ElapseStep == ASSUME AuthInv, Elapse PROVE AuthInv'
<1>1. \A c \in CodeId : codes'[c] = IF codes[c] = None THEN None
                                    ELSE [codes[c] EXCEPT !.recent = FALSE]
  BY DEF Elapse
<1>2. \A c \in CodeId : codes[c] # None =>
         /\ codes'[c] \in CodeRow
         /\ codes'[c].used = codes[c].used /\ codes'[c].revoked = codes[c].revoked
         /\ codes'[c].failed = codes[c].failed
  <2>1. \A c \in CodeId : codes[c] # None => codes[c] \in CodeRow
    BY DEF AuthInv, TypeOK
  <2> QED BY <1>1, <2>1 DEF CodeRow
<1>3. \A c \in CodeId : codes'[c] = None <=> codes[c] = None
  BY <1>1, <1>2, AuthAssumption DEF CodeRow
<1>4. TypeOK'
  <2>1. codes' = [c \in CodeId |-> codes'[c]]
    BY DEF Elapse
  <2>2. codes' \in [CodeId -> CodeRow \cup {None}]
    BY <1>1, <1>2, <2>1
  <2> QED BY <2>2 DEF Elapse, AuthInv, TypeOK
<1>5. Reliable'
  <2> SUFFICES ASSUME NEW q \in Request PROVE Relies(request[q])'
    BY DEF Reliable
  <2>1. request[q] \in Local /\ Relies(request[q]) /\ request'[q] = request[q]
    BY DEF Elapse, AuthInv, TypeOK, Reliable
  <2>2. \A c \in request[q].code : codes'[c] # None
    BY <1>3, <2>1 DEF Local, Relies
  <2>3. \A c \in CodeId : Active(c) => Active(c)'
    BY <1>2, <1>3 DEF Active
  <2> QED BY <1>2, <1>3, <2>1, <2>2, <2>3
          DEF Elapse, Relies, LiveSessions, Confirming, Proving, Asking, Active
<1>6. Counted'
  BY <1>2, <1>3 DEF Elapse, AuthInv, Counted
<1>7. (IdsApart /\ UserFirst /\ Lineage /\ NoFork /\ ResetEndsSessions)'
  BY <1>3 DEF Elapse, AuthInv, IdsApart, UserFirst, Lineage, NoFork, ResetEndsSessions, LiveSessions
<1> QED BY <1>4, <1>5, <1>6, <1>7 DEF AuthInv

-----------------------------------------------------------------------------
(* The theorems.                                                           *)

LEMMA InvNext == AuthInv /\ [Next]_vars => AuthInv'
<1> SUFFICES ASSUME AuthInv, [Next]_vars PROVE AuthInv'
  OBVIOUS
<1>1. CASE Register
  BY <1>1, RegisterStep
<1>2. CASE Elapse
  BY <1>2, ElapseStep
<1>3. ASSUME NEW r \in Request, SessionStep(r) PROVE AuthInv'
  BY <1>3, LoginStep, IssueStep, RefreshAny, RotateStep, RevokeAllStep, RevokeAllRowStep,
     ReuseCommitStep, LogoutStep DEF SessionStep
<1>4. ASSUME NEW r \in Request, CodeStep(r) PROVE AuthInv'
  BY <1>4, VerifyEmailAny, VerifyUserStep, RequestCodeStep, RequestCodeBeginStep,
     RevokeCodesStep, RevokeCodesRowStep, RevokeCodesDoneStep, RequestCodeInsertStep DEF CodeStep
<1>5. ASSUME NEW r \in Request, ConfirmStep(r) PROVE AuthInv'
  BY <1>5, ConfirmStart, ConfirmSelectStep, AttemptAny, WrongCodeStep, ConfirmCommitStep
  DEF ConfirmStep
<1>6. ASSUME NEW r \in Request, Victim(r) \/ Crash(r) PROVE AuthInv'
  BY <1>6, ReturnStep DEF Victim, Crash
<1>7. CASE UNCHANGED vars
  <2> USE <1>7 DEF vars
  <2>1. TypeOK' /\ IdsApart' /\ UserFirst' /\ Lineage'
    BY DEF AuthInv, TypeOK, IdsApart, UserFirst, Lineage
  <2>2. Reliable'
    BY DEF AuthInv, Reliable, Relies, LiveSessions, Active
  <2>3. Counted' /\ NoFork' /\ ResetEndsSessions'
    BY DEF AuthInv, Counted, NoFork, ResetEndsSessions, LiveSessions
  <2> QED BY <2>1, <2>2, <2>3 DEF AuthInv
<1> QED BY <1>1, <1>2, <1>3, <1>4, <1>5, <1>6, <1>7 DEF Next

\* Every behaviour keeps the inductive invariant.
THEOREM AuthInvariant == Spec => []AuthInv
BY InvInit, InvNext, PTL DEF Spec

\* The rows and the locals of every request are well formed, and no two
\* transactions hold one row (TypeOK), for any number of requests, sessions
\* and challenges and any max_attempts.
THEOREM AuthWellTyped == Spec => []TypeOK
<1>1. AuthInv => TypeOK
  BY DEF AuthInv
<1> QED BY <1>1, AuthInvariant, PTL

\* A refresh token is exchanged at most once (NoFork): refresh_session locks
\* the session and finds it revoked the second time.
THEOREM TokensExchangedOnce == Spec => []NoFork
<1>1. AuthInv => NoFork
  BY DEF AuthInv
<1> QED BY <1>1, AuthInvariant, PTL

\* A new password leaves no session of before alive (ResetEndsSessions): the
\* user's row is locked while the sessions are revoked, so that no rotation
\* that has locked its session can insert another one.
THEOREM ResetsEndSessions == Spec => []ResetEndsSessions
<1>1. AuthInv => ResetEndsSessions
  BY DEF AuthInv
<1> QED BY <1>1, AuthInvariant, PTL

\* No challenge answers more wrong codes than max_attempts (GuessesBounded).
THEOREM GuessesAreBounded == Spec => []GuessesBounded
<1>1. AuthInv => GuessesBounded
  BY AuthAssumption DEF AuthInv, Counted, TypeOK, GuessesBounded, CodeRow
<1> QED BY <1>1, AuthInvariant, PTL

\* A challenge is accepted only while it is active (AcceptedWhileActive): its
\* row stays locked from the statement that found it so to the commit.
THEOREM ChallengesAcceptedOnce == Spec => AcceptedWhileActive
<1>1. AuthInv /\ [Next]_vars =>
        [\A c \in CodeId : accepted'[c] # accepted[c] => Active(c)]_vars
  <2> SUFFICES ASSUME AuthInv, Next PROVE \A c \in CodeId : accepted'[c] # accepted[c] => Active(c)
    OBVIOUS
  <2>1. ASSUME NEW r \in Request, VerifyUser(r) \/ ConfirmCommit(r)
        PROVE  \A c \in CodeId : accepted'[c] # accepted[c] => Active(c)
    <3>1. Relies(request[r]) /\ request[r].pc \in Proving
      BY <2>1 DEF VerifyUser, ConfirmCommit, At, Proving, AuthInv, Reliable
    <3>2. Active(request[r].own)
      BY <3>1 DEF Relies
    <3>3. accepted' = [accepted EXCEPT ![request[r].own] = @ + 1]
      BY <2>1 DEF VerifyUser, ConfirmCommit
    <3> QED BY <3>2, <3>3 DEF AuthInv, TypeOK
  <2>2. CASE accepted' = accepted
    BY <2>2
  <2>3. ASSUME NEW r \in Request, SessionStep(r) PROVE accepted' = accepted
    BY <2>3 DEF SessionStep, Login, Issue, Refresh, Rotate, RevokeAll, RevokeAllRow,
                ReuseCommit, Logout
  <2>4. ASSUME NEW r \in Request, CodeStep(r) PROVE accepted' = accepted \/ VerifyUser(r)
    BY <2>4 DEF CodeStep, VerifyEmail, RequestCode, RequestCodeBegin, RevokeCodes,
                RevokeCodesRow, RevokeCodesDone, RequestCodeInsert
  <2>5. ASSUME NEW r \in Request, ConfirmStep(r) PROVE accepted' = accepted \/ ConfirmCommit(r)
    BY <2>5 DEF ConfirmStep, Confirm, ConfirmSelect, Attempt, WrongCode
  <2>6. ASSUME NEW r \in Request, Victim(r) \/ Crash(r) PROVE accepted' = accepted
    BY <2>6 DEF Victim, Crash
  <2>7. Register \/ Elapse => accepted' = accepted
    BY DEF Register, Elapse
  <2> QED BY <2>1, <2>2, <2>3, <2>4, <2>5, <2>6, <2>7 DEF Next
<1> QED BY <1>1, AuthInvariant, PTL DEF Spec, AcceptedWhileActive


-----------------------------------------------------------------------------
(* The sessions of module Auth implement the families of module Families,  *)
(* for any number of requests, sessions and challenges.                    *)

-----------------------------------------------------------------------------
(* The inductive invariant.                                                *)

\* Only a verified user is about to be signed in.
Signs(l) == l.pc = "issue" \/ (l.pc \in Confirming /\ l.purpose # "reset")

VerifiedFirst == \A r \in Request : Signs(request[r]) => user.verified = TRUE

\* The first session of a family is of that family itself.
Rooted ==
    \A s \in Session : origin[s] # None =>
        /\ origin[origin[s].root] # None
        /\ origin[origin[s].root].root = origin[s].root

FamilyInv == AuthInv /\ VerifiedFirst /\ Rooted

LEMMA FamilyInit == Init => FamilyInv
<1>1. Init => VerifiedFirst /\ Rooted
  BY DEF Init, VerifiedFirst, Signs, Confirming, Idle, Rooted
<1> QED BY <1>1, InvInit DEF FamilyInv

-----------------------------------------------------------------------------
(* Steps on the families.                                                  *)

\* What is read of the sessions in the proofs below.
LEMMA SessionFacts ==
    ASSUME FamilyInv
    PROVE  /\ \A s \in Session : sessions[s] = None <=> origin[s] = None
           /\ \A s \in Session : origin[s] # None => origin[s].root \in Session
           /\ LiveSessions \subseteq {s \in Session : origin[s] # None}
           /\ origin \in [Session -> Origin \cup {None}]
           /\ sessions \in [Session -> SessionRow \cup {None}]
<1>1. \A s \in Session : sessions[s] = None <=> origin[s] = None
  BY DEF FamilyInv, AuthInv, Lineage
<1>2. \A s \in Session : origin[s] # None => origin[s].root \in Session
  BY DEF FamilyInv, AuthInv, TypeOK, Origin
<1> QED BY <1>1, <1>2 DEF LiveSessions, FamilyInv, AuthInv, TypeOK

\* A step that touches neither the user nor a session.
LEMMA FamiliesStutter == UNCHANGED <<user, sessions, origin>> => UNCHANGED Abstract!vars
BY DEF Abstract!vars, Registered, FamilyState, Members, LiveSessions

LEMMA FamilyRegister == ASSUME FamilyInv, Register PROVE Abstract!Register
<1>1. user = None /\ user' = [password |-> 1, verified |-> FALSE]
  BY DEF Register
<1>2. [password |-> 1, verified |-> FALSE] # None
  <2>1. [password |-> 1, verified |-> FALSE] \in [password : Nat, verified : BOOLEAN]
    OBVIOUS
  <2> QED BY <2>1, AuthAssumption
<1>3. FamilyState' = FamilyState
  BY DEF Register, FamilyState, Members, LiveSessions
<1> QED BY <1>1, <1>2, <1>3 DEF Abstract!Register, Registered

\* The link of an e-mail verifies the user.
LEMMA FamilyVerify ==
    ASSUME FamilyInv, NEW r \in Request, VerifyUser(r) PROVE Abstract!Verify
<1>1. user # None /\ user \in [password : 1 .. MaxPasswords, verified : BOOLEAN]
  <2>1. Relies(request[r]) /\ request[r].pc = "verify"
    BY DEF VerifyUser, At, FamilyInv, AuthInv, Reliable
  <2> QED BY <2>1 DEF Relies, Idle, FamilyInv, AuthInv, TypeOK
<1>2. user' = [user EXCEPT !.verified = TRUE]
  BY DEF VerifyUser
<1>3. /\ user' \in [password : Nat, verified : BOOLEAN]
      /\ user'.verified = TRUE /\ user'.password = user.password /\ user.password # 0
  <2>1. 1 .. MaxPasswords \subseteq Nat \ {0}
    BY AuthAssumption
  <2>2. user \in [password : Nat \ {0}, verified : BOOLEAN]
    BY <1>1, <2>1
  <2> QED BY <1>2, <2>2
<1>4. user' # None
  BY <1>3, AuthAssumption
<1>5. FamilyState' = FamilyState
  BY DEF VerifyUser, FamilyState, Members, LiveSessions
<1> QED BY <1>1, <1>3, <1>4, <1>5 DEF Abstract!Verify, Registered

\* A sign-in begins a family that was none before.
LEMMA FamilyBegin ==
    ASSUME FamilyInv, NEW r \in Request, Issue(r) PROVE Abstract!Begin
<1>1. PICK s \in Session :
         /\ sessions[s] = None
         /\ sessions' = [sessions EXCEPT ![s] = NewSession]
         /\ origin' = [origin EXCEPT ![s] = [parent |-> None, root |-> s,
                                            born |-> user.password, won |-> request[r].won]]
  BY DEF Issue
<1>2. user # None /\ user.verified = TRUE /\ UNCHANGED user
  <2>1. Relies(request[r]) /\ request[r].pc = "issue"
    BY DEF Issue, At, FamilyInv, AuthInv, Reliable
  <2>2. user # None
    BY <2>1 DEF Relies, Idle
  <2> QED BY <2>1, <2>2 DEF Issue, FamilyInv, VerifiedFirst, Signs
<1> DEFINE row == [parent |-> None, root |-> s, born |-> user.password, won |-> request[r].won]
<1>3. row # None /\ NewSession # None /\ ~NewSession.revoked
  <2>1. row \in Origin
    BY <1>2 DEF Origin, FamilyInv, AuthInv, TypeOK, Local
  <2>2. NewSession \in SessionRow /\ ~NewSession.revoked
    BY DEF NewSession, SessionRow
  <2>3. None \notin Origin /\ None \notin SessionRow
    BY AuthAssumption DEF Origin, SessionRow
  <2> QED BY <2>1, <2>2, <2>3
<1>4. origin[s] = None
  BY <1>1, SessionFacts
<1>5. \A t \in Session : origin'[t] = IF t = s THEN row ELSE origin[t]
  BY <1>1, SessionFacts
<1>6. row.root = s
  OBVIOUS
<1> HIDE DEF row
<1>7. LiveSessions' = LiveSessions \cup {s}
  BY <1>1, <1>3, SessionFacts DEF LiveSessions
<1>8. Members(s) = {} /\ Members(s)' = {s}
  <2>1. \A t \in Session : origin[t] # None => origin[t].root # s
    BY <1>4 DEF FamilyInv, Rooted
  <2> QED BY <1>3, <1>4, <1>5, <1>6, <2>1 DEF Members
<1>9. \A f \in Session \ {s} : Members(f)' = Members(f) /\ s \notin Members(f)
  BY <1>4, <1>5, <1>6 DEF Members
<1>10. FamilyState' = [FamilyState EXCEPT ![s] = "live"]
  BY <1>7, <1>8, <1>9 DEF FamilyState
<1>11. FamilyState[s] = "none"
  BY <1>8 DEF FamilyState
<1> QED BY <1>2, <1>10, <1>11 DEF Abstract!Begin, Abstract!In, Registered

\* A rotation leaves its family alive, and every other one as it was.
LEMMA FamilyRotate ==
    ASSUME FamilyInv, NEW r \in Request, Rotate(r) PROVE UNCHANGED Abstract!vars
<1> DEFINE old == request[r].own
<1>1. PICK new \in Session :
         /\ sessions[new] = None
         /\ sessions' = [sessions EXCEPT ![new] = NewSession, ![old] = Revoked(@, new)]
         /\ origin' = [origin EXCEPT ![new] = [origin[old] EXCEPT !.parent = old]]
  BY DEF Rotate
<1>2. old \in LiveSessions
  BY DEF Rotate, At, FamilyInv, AuthInv, Reliable, Relies
<1>3. origin[old] \in Origin /\ old \in Session /\ new # old /\ origin[new] = None
  BY <1>1, <1>2, SessionFacts DEF LiveSessions
<1> DEFINE row == [origin[old] EXCEPT !.parent = old]
<1>4. row \in Origin /\ row.root = origin[old].root /\ row # None
  <2>1. row \in Origin /\ row.root = origin[old].root
    BY <1>3 DEF Origin
  <2> QED BY <2>1, AuthAssumption DEF Origin
<1>5. \A t \in Session : origin'[t] = IF t = new THEN row ELSE origin[t]
  BY <1>1, SessionFacts
<1> HIDE DEF row
<1>6. LiveSessions' = (LiveSessions \ {old}) \cup {new}
  <2>1. NewSession # None /\ ~NewSession.revoked
    <3>1. NewSession \in SessionRow /\ ~NewSession.revoked
      BY DEF NewSession, SessionRow
    <3>2. None \notin SessionRow
      BY AuthAssumption DEF SessionRow
    <3> QED BY <3>1, <3>2
  <2>2. Revoked(sessions[old], new).revoked
    <3>1. sessions[old] \in SessionRow
      BY <1>2, SessionFacts DEF LiveSessions
    <3> QED BY <3>1 DEF Revoked, SessionRow
  <2>3. \A t \in Session : sessions'[t] = IF t = new THEN NewSession
                                          ELSE IF t = old THEN Revoked(sessions[old], new)
                                          ELSE sessions[t]
    BY <1>1, <1>3, SessionFacts
  <2> QED BY <1>3, <2>1, <2>2, <2>3 DEF LiveSessions
<1>7. PICK g \in Session : g = origin[old].root
  BY <1>3 DEF Origin
<1>8. Members(g)' = Members(g) \cup {new} /\ old \in Members(g)
  <2>1. origin[old] # None
    BY <1>2, SessionFacts
  <2> QED BY <1>3, <1>4, <1>5, <1>7, <2>1 DEF Members
<1>9. \A f \in Session \ {g} : Members(f)' = Members(f) /\ old \notin Members(f) /\ new \notin Members(f)
  BY <1>3, <1>4, <1>5, <1>7 DEF Members
<1>10. FamilyState' = FamilyState
  <2>1. \A f \in Session \ {g} : /\ Members(f)' = {} <=> Members(f) = {}
                                 /\ Members(f)' \cap LiveSessions' = {} <=> Members(f) \cap LiveSessions = {}
    BY <1>6, <1>9
  <2>2. /\ Members(g) # {} /\ Members(g) \cap LiveSessions # {}
        /\ Members(g)' # {} /\ Members(g)' \cap LiveSessions' # {}
    BY <1>2, <1>6, <1>8
  <2> QED BY <2>1, <2>2 DEF FamilyState
<1>11. UNCHANGED user
  BY DEF Rotate
<1> QED BY <1>10, <1>11 DEF Abstract!vars, Registered

\* Sessions that end, and none begins, end the families they were the last of.
LEMMA FamilyEnd ==
    ASSUME FamilyInv, NEW S \in SUBSET Session, \A s \in S : sessions[s] # None,
           sessions' = AllRevoked(S), UNCHANGED <<user, origin>>
    PROVE  Abstract!End
<1>1. LiveSessions' = LiveSessions \ S
  BY EndSessions DEF FamilyInv
<1>2. \A f \in Session : Members(f)' = Members(f)
  BY DEF Members
<1> DEFINE F == {f \in Session : FamilyState[f] = "live" /\ Members(f) \cap LiveSessions' = {}}
<1>3. F \in SUBSET Abstract!In("live")
  BY DEF Abstract!In
<1>4. FamilyState' = [f \in Session |-> IF f \in F THEN "ended" ELSE FamilyState[f]]
  BY <1>1, <1>2 DEF FamilyState
<1> QED BY <1>3, <1>4 DEF Abstract!End, Registered

\* A new password ends every family.
LEMMA FamilyChangePassword ==
    ASSUME FamilyInv, NEW r \in Request, ConfirmCommit(r) PROVE Abstract!ChangePassword
<1> DEFINE S == request[r].session
<1>1. /\ request[r] \in Local /\ Relies(request[r]) /\ request[r].pc = "rightRows"
      /\ request[r].todo = {}
  BY DEF ConfirmCommit, At, FamilyInv, AuthInv, TypeOK, Reliable
<1>2. S \in SUBSET Session /\ (\A s \in S : sessions[s] # None) /\ LiveSessions \subseteq S
  BY <1>1 DEF Local, Relies
<1>3. LiveSessions' = {}
  BY <1>2, EndSessions DEF FamilyInv, ConfirmCommit
<1>4. \A f \in Session : Members(f)' = Members(f)
  BY DEF Members, ConfirmCommit
<1>5. FamilyState' = [f \in Session |-> IF f \in Abstract!In("live") THEN "ended"
                                        ELSE FamilyState[f]]
  BY <1>3, <1>4 DEF FamilyState, Abstract!In
<1>6. user # None /\ user \in [password : 1 .. MaxPasswords, verified : BOOLEAN]
  BY <1>1 DEF Relies, Confirming, FamilyInv, AuthInv, TypeOK
<1>7. user' = [user EXCEPT !.password = @ + 1]
  BY DEF ConfirmCommit
<1>8. /\ user' \in [password : Nat, verified : BOOLEAN]
      /\ user'.password = user.password + 1 /\ user.password # 0
      /\ user'.verified = user.verified
  BY <1>6, <1>7
<1>9. user' # None
  BY <1>8, AuthAssumption
<1> QED BY <1>5, <1>6, <1>8, <1>9 DEF Abstract!ChangePassword, Registered

-----------------------------------------------------------------------------
(* The invariant is kept.                                                  *)

\* The locals a request has after a step do not sign in an unverified user.
Allows(r) ==
    \/ UNCHANGED request
    \/ \E l : Become(r, l) /\ (Signs(l) => user'.verified = TRUE)

LEMMA IdleAllows == ASSUME NEW r \in Request, Return(r) PROVE Allows(r)
<1>1. ~Signs(Idle)
  BY DEF Signs, Idle, Confirming
<1> QED BY <1>1 DEF Return, Allows

LEMMA VerifiedStep ==
    ASSUME FamilyInv, NEW r \in Request, Allows(r),
           user # None /\ user.verified = TRUE => user'.verified = TRUE
    PROVE  VerifiedFirst'
<1> SUFFICES ASSUME NEW q \in Request, Signs(request'[q]) PROVE user'.verified = TRUE
  BY DEF VerifiedFirst, Signs
<1>1. CASE request'[q] = request[q]
  <2>1. Signs(request[q])
    BY <1>1
  <2>2. user # None
    BY <2>1 DEF Signs, Confirming, Idle, FamilyInv, AuthInv, Reliable, Relies
  <2> QED BY <2>1, <2>2 DEF FamilyInv, VerifiedFirst
<1>2. CASE request'[q] # request[q]
  <2>1. PICK l : Become(r, l) /\ (Signs(l) => user'.verified = TRUE)
    BY <1>2 DEF Allows
  <2>2. request'[q] = l
    BY <1>2, <2>1 DEF Become, FamilyInv, AuthInv, TypeOK
  <2> QED BY <2>1, <2>2
<1> QED BY <1>1, <1>2

\* Statements that go on in the middle of a request keep its purpose.
LEMMA GoesOn ==
    ASSUME FamilyInv, NEW r \in Request, NEW l, Become(r, l), l.purpose = request[r].purpose,
           l.pc # "issue", l.pc \in Confirming => request[r].pc \in Confirming,
           UNCHANGED user
    PROVE  Allows(r)
BY DEF Allows, Signs, FamilyInv, VerifiedFirst

LEMMA SessionAllows ==
    ASSUME FamilyInv, NEW r \in Request, SessionStep(r) PROVE Allows(r) /\ UNCHANGED user
<1> DEFINE k == request[r]
<1>0. k \in Local
  BY DEF FamilyInv, AuthInv, TypeOK
<1>1. CASE Login(r)
  BY <1>1 DEF Login, Allows
<1>2. CASE Issue(r) \/ Rotate(r) \/ ReuseCommit(r)
  BY <1>2, IdleAllows DEF Issue, Rotate, ReuseCommit
<1>3. CASE Refresh(r)
  <2>1. ASSUME NEW pc \in {"reuse", "rotate"}, NEW s \in Session,
               Become(r, [Idle EXCEPT !.pc = pc, !.session = {s}, !.own = s])
        PROVE  Allows(r)
    <3>1. ~Signs([Idle EXCEPT !.pc = pc, !.session = {s}, !.own = s])
      BY DEF Signs, Confirming, Idle
    <3> QED BY <2>1, <3>1 DEF Allows
  <2>2. UNCHANGED request => Allows(r)
    BY DEF Allows
  <2> QED BY <1>3, <2>1, <2>2 DEF Refresh
<1>4. CASE RevokeAll(r)
  <2> DEFINE l == [k EXCEPT !.pc = IF @ = "reuse" THEN "reuseRows" ELSE "rightRows",
                            !.todo = LiveSessions]
  <2>1. Become(r, l) /\ k.pc \in {"reuse", "right"} /\ UNCHANGED user
    BY <1>4 DEF RevokeAll
  <2>2. /\ l.purpose = k.purpose /\ l.pc \in {"reuseRows", "rightRows"}
        /\ l.pc = "rightRows" => k.pc = "right"
    BY <1>0, <2>1 DEF Local
  <2> HIDE DEF l
  <2> QED BY <2>1, <2>2, GoesOn DEF Confirming
<1>5. CASE RevokeAllRow(r)
  <2>1. PICK s \in k.todo :
          Become(r, [k EXCEPT !.todo = @ \ {s},
                              !.session = IF s \in LiveSessions THEN @ \cup {s} ELSE @])
    BY <1>5 DEF RevokeAllRow
  <2> DEFINE l == [k EXCEPT !.todo = @ \ {s},
                            !.session = IF s \in LiveSessions THEN @ \cup {s} ELSE @]
  <2>2. l.purpose = k.purpose /\ l.pc = k.pc /\ k.pc \in {"reuseRows", "rightRows"}
    BY <1>0, <1>5 DEF Local, RevokeAllRow
  <2>3. Become(r, l) /\ UNCHANGED user
    BY <1>5, <2>1 DEF RevokeAllRow
  <2> HIDE DEF l
  <2> QED BY <2>2, <2>3, GoesOn
<1>6. CASE Logout(r)
  BY <1>6 DEF Logout, Allows
<1> QED BY <1>1, <1>2, <1>3, <1>4, <1>5, <1>6
        DEF SessionStep, Login, Issue, Rotate, ReuseCommit, Refresh, RevokeAll, RevokeAllRow, Logout

LEMMA CodeAllows ==
    ASSUME FamilyInv, NEW r \in Request, CodeStep(r)
    PROVE  Allows(r) /\ (UNCHANGED user \/ VerifyUser(r))
<1> DEFINE k == request[r]
<1>0. k \in Local
  BY DEF FamilyInv, AuthInv, TypeOK
<1>1. CASE VerifyEmail(r)
  <2>1. ASSUME NEW c, Become(r, [Idle EXCEPT !.pc = "verify", !.code = {c}, !.own = c])
        PROVE  Allows(r)
    <3>1. ~Signs([Idle EXCEPT !.pc = "verify", !.code = {c}, !.own = c])
      BY DEF Signs, Confirming, Idle
    <3> QED BY <2>1, <3>1 DEF Allows
  <2>2. UNCHANGED request => Allows(r)
    BY DEF Allows
  <2> QED BY <1>1, <2>1, <2>2 DEF VerifyEmail
<1>2. CASE VerifyUser(r)
  <2>1. user'.verified = TRUE
    <3>1. user # None
      BY <1>2 DEF VerifyUser, At, FamilyInv, AuthInv, Reliable, Relies, Idle
    <3> QED BY <1>2, <3>1 DEF VerifyUser, FamilyInv, AuthInv, TypeOK
  <2> QED BY <1>2, <2>1 DEF VerifyUser, Allows
<1>3. CASE RequestCode(r)
  <2>1. PICK p \in Purpose : Become(r, [Idle EXCEPT !.pc = "code", !.purpose = p])
    BY <1>3 DEF RequestCode
  <2>2. ~Signs([Idle EXCEPT !.pc = "code", !.purpose = p])
    BY DEF Signs, Confirming, Idle
  <2> QED BY <1>3, <2>1, <2>2 DEF Allows, RequestCode
<1>4. CASE RequestCodeBegin(r) \/ RevokeCodes(r) \/ RevokeCodesRow(r) \/ RevokeCodesDone(r)
  <2>1. \E l : Become(r, l) /\ l.pc \in Asking
    <3>1. CASE RequestCodeBegin(r)
      <4>1. PICK c \in CodeId : Become(r, [k EXCEPT !.pc = "begun", !.own = c])
        BY <3>1 DEF RequestCodeBegin
      <4>2. [k EXCEPT !.pc = "begun", !.own = c].pc \in Asking
        BY <1>0 DEF Local, Asking
      <4> QED BY <4>1, <4>2
    <3>2. CASE RevokeCodes(r)
      <4>1. [k EXCEPT !.pc = "codeRows", !.todo = ActiveCodes(k.purpose)].pc \in Asking
        BY <1>0 DEF Local, Asking
      <4> QED BY <3>2, <4>1 DEF RevokeCodes
    <3>3. CASE RevokeCodesRow(r)
      <4>1. PICK c \in k.todo :
              Become(r, [k EXCEPT !.todo = @ \ {c}, !.code = IF Active(c) THEN @ \cup {c} ELSE @])
        BY <3>3 DEF RevokeCodesRow
      <4>2. [k EXCEPT !.todo = @ \ {c}, !.code = IF Active(c) THEN @ \cup {c} ELSE @].pc \in Asking
        BY <1>0, <3>3 DEF RevokeCodesRow, At, Local, Asking
      <4> QED BY <4>1, <4>2
    <3>4. CASE RevokeCodesDone(r)
      <4>1. [k EXCEPT !.pc = "insertCode"].pc \in Asking
        BY <1>0 DEF Local, Asking
      <4> QED BY <3>4, <4>1 DEF RevokeCodesDone
    <3> QED BY <1>4, <3>1, <3>2, <3>3, <3>4
  <2>2. \A l : l.pc \in Asking => ~Signs(l)
    BY DEF Signs, Asking, Confirming
  <2> QED BY <1>4, <2>1, <2>2
          DEF Allows, RequestCodeBegin, RevokeCodes, RevokeCodesRow, RevokeCodesDone
<1>5. CASE RequestCodeInsert(r)
  BY <1>5, IdleAllows DEF RequestCodeInsert
<1> QED BY <1>1, <1>2, <1>3, <1>4, <1>5
        DEF CodeStep, VerifyEmail, RequestCode, RequestCodeBegin, RevokeCodes, RevokeCodesRow,
            RevokeCodesDone, RequestCodeInsert

LEMMA ConfirmAllows ==
    ASSUME FamilyInv, NEW r \in Request, ConfirmStep(r)
    PROVE  Allows(r) /\ (UNCHANGED user \/ ConfirmCommit(r))
<1> DEFINE k == request[r]
<1>0. k \in Local
  BY DEF FamilyInv, AuthInv, TypeOK
<1>1. CASE Confirm(r)
  <2>1. PICK p \in {"reset", "change"} :
           /\ p = "change" => user.verified
           /\ Become(r, [Idle EXCEPT !.pc = "confirm", !.user = TRUE, !.purpose = p])
    BY <1>1 DEF Confirm
  <2> DEFINE l == [Idle EXCEPT !.pc = "confirm", !.user = TRUE, !.purpose = p]
  <2>2. user # None /\ user.verified \in BOOLEAN /\ UNCHANGED user
    BY <1>1 DEF Confirm, Calls, FamilyInv, AuthInv, TypeOK
  <2>3. Signs(l) => user'.verified = TRUE
    BY <2>1, <2>2 DEF Signs, Idle
  <2> QED BY <2>1, <2>2, <2>3 DEF Allows
<1>2. CASE ConfirmSelect(r)
  <2> DEFINE l == [k EXCEPT !.pc = "attempt", !.todo = ActiveCodes(k.purpose)]
  <2>1. Return(r) \/ Become(r, l)
    BY <1>2 DEF ConfirmSelect
  <2>2. l.purpose = k.purpose /\ l.pc = "attempt" /\ k.pc = "confirm" /\ UNCHANGED user
    BY <1>0, <1>2 DEF Local, ConfirmSelect, At
  <2> HIDE DEF l
  <2> QED BY <2>1, <2>2, IdleAllows, GoesOn DEF Confirming
<1>3. CASE Attempt(r)
  <2>1. PICK c \in k.todo :
          \/ Return(r)
          \/ Become(r, [k EXCEPT !.todo = @ \ {c}])
          \/ \E pc \in {"wrong", "right"} :
                Become(r, [k EXCEPT !.pc = pc, !.todo = {}, !.code = {c}, !.own = c])
    BY <1>3 DEF Attempt
  <2>2. k.pc = "attempt" /\ UNCHANGED user
    BY <1>3 DEF Attempt, At
  <2>3. ASSUME NEW l, Become(r, l), l.purpose = k.purpose, l.pc \in {"attempt", "wrong", "right"}
        PROVE  Allows(r)
    BY <2>2, <2>3, GoesOn DEF Confirming
  <2>4. CASE Become(r, [k EXCEPT !.todo = @ \ {c}])
    <3> DEFINE l == [k EXCEPT !.todo = @ \ {c}]
    <3>1. Become(r, l) /\ l.purpose = k.purpose /\ l.pc = "attempt"
      BY <1>0, <2>2, <2>4 DEF Local
    <3> HIDE DEF l
    <3> QED BY <2>2, <2>3, <3>1
  <2>5. ASSUME NEW pc \in {"wrong", "right"},
               Become(r, [k EXCEPT !.pc = pc, !.todo = {}, !.code = {c}, !.own = c])
        PROVE  Allows(r)
    <3> DEFINE l == [k EXCEPT !.pc = pc, !.todo = {}, !.code = {c}, !.own = c]
    <3>1. Become(r, l) /\ l.purpose = k.purpose /\ l.pc = pc
      BY <1>0, <2>5 DEF Local
    <3> HIDE DEF l
    <3> QED BY <2>3, <3>1
  <2> QED BY <2>1, <2>2, <2>4, <2>5, IdleAllows
<1>4. CASE WrongCode(r)
  BY <1>4, IdleAllows DEF WrongCode
<1>5. CASE ConfirmCommit(r)
  <2>1. k.pc = "rightRows" /\ user # None
    BY <1>5 DEF ConfirmCommit, At, FamilyInv, AuthInv, Reliable, Relies, Idle
  <2>2. k.purpose # "reset" => user.verified = TRUE
    BY <2>1 DEF FamilyInv, VerifiedFirst, Signs, Confirming
  <2>3. user'.verified = user.verified
    BY <1>5, <2>1 DEF ConfirmCommit, FamilyInv, AuthInv, TypeOK
  <2>4. CASE k.purpose = "reset"
    <3>1. Return(r)
      BY <1>5, <2>4 DEF ConfirmCommit, Return
    <3> QED BY <1>5, <3>1, IdleAllows
  <2>5. CASE k.purpose # "reset"
    BY <1>5, <2>2, <2>3, <2>5 DEF ConfirmCommit, Allows
  <2> QED BY <1>5, <2>4, <2>5
<1> QED BY <1>1, <1>2, <1>3, <1>4, <1>5
        DEF ConfirmStep, Confirm, ConfirmSelect, Attempt, WrongCode

\* Only Issue and Rotate give a session its origin.
LEMMA RootedKept ==
    ASSUME FamilyInv, [Next]_vars PROVE Rooted'
<1>1. CASE UNCHANGED origin
  BY <1>1 DEF FamilyInv, Rooted
<1>2. ASSUME NEW s \in Session, NEW row \in Origin, origin[s] = None,
             origin' = [origin EXCEPT ![s] = row],
             row.root = s \/ \E t \in Session : origin[t] # None /\ row.root = origin[t].root
      PROVE  Rooted'
  <2>1. \A t \in Session : origin'[t] = IF t = s THEN row ELSE origin[t]
    BY <1>2 DEF FamilyInv, AuthInv, TypeOK
  <2>2. row # None
    BY AuthAssumption DEF Origin
  <2>3. \A t \in Session : origin[t] # None => origin[t].root \in Session /\ origin[t].root # s
    BY <1>2, SessionFacts DEF FamilyInv, Rooted
  <2> QED BY <1>2, <2>1, <2>2, <2>3 DEF FamilyInv, Rooted
<1>3. ASSUME NEW r \in Request, Issue(r) PROVE Rooted'
  <2>1. PICK s \in Session :
           /\ sessions[s] = None
           /\ origin' = [origin EXCEPT ![s] = [parent |-> None, root |-> s,
                                              born |-> user.password, won |-> request[r].won]]
    BY <1>3 DEF Issue
  <2> DEFINE row == [parent |-> None, root |-> s, born |-> user.password, won |-> request[r].won]
  <2>2. user # None
    BY <1>3 DEF Issue, At, FamilyInv, AuthInv, Reliable, Relies, Idle
  <2>3. row \in Origin /\ row.root = s
    BY <2>2 DEF Origin, FamilyInv, AuthInv, TypeOK, Local
  <2>4. origin[s] = None /\ origin' = [origin EXCEPT ![s] = row]
    BY <2>1, SessionFacts
  <2> HIDE DEF row
  <2> QED BY <1>2, <2>3, <2>4
<1>4. ASSUME NEW r \in Request, Rotate(r) PROVE Rooted'
  <2> DEFINE old == request[r].own
             row == [origin[old] EXCEPT !.parent = old]
  <2>1. PICK new \in Session : sessions[new] = None /\ origin' = [origin EXCEPT ![new] = row]
    BY <1>4 DEF Rotate
  <2>2. old \in LiveSessions
    BY <1>4 DEF Rotate, At, FamilyInv, AuthInv, Reliable, Relies
  <2>3. old \in Session /\ origin[old] # None /\ origin[old] \in Origin
    BY <2>2, SessionFacts
  <2>4. row \in Origin /\ row.root = origin[old].root
    BY <2>3 DEF Origin
  <2>5. origin[new] = None
    BY <2>1, SessionFacts
  <2> HIDE DEF row
  <2> QED BY <1>2, <2>1, <2>3, <2>4, <2>5
<1>5. UNCHANGED origin \/ \E r \in Request : Issue(r) \/ Rotate(r)
  BY DEF Next, vars, SessionStep, CodeStep, ConfirmStep, Register, Elapse, Login, Refresh,
         RevokeAll, RevokeAllRow, ReuseCommit, Logout, VerifyEmail, VerifyUser, RequestCode,
         RequestCodeBegin, RevokeCodes, RevokeCodesRow, RevokeCodesDone, RequestCodeInsert,
         Confirm, ConfirmSelect, Attempt, WrongCode, ConfirmCommit, Victim, Crash
<1> QED BY <1>1, <1>3, <1>4, <1>5

LEMMA VerifiedKept ==
    ASSUME FamilyInv, [Next]_vars PROVE VerifiedFirst'
<1>1. ASSUME UNCHANGED request, user = None \/ UNCHANGED user PROVE VerifiedFirst'
  BY <1>1 DEF VerifiedFirst, Signs, Confirming, Idle, FamilyInv, AuthInv, Reliable, Relies
<1>2. Register \/ Elapse \/ UNCHANGED vars => VerifiedFirst'
  BY <1>1 DEF Register, Elapse, vars
<1>3. ASSUME NEW r \in Request, SessionStep(r) PROVE VerifiedFirst'
  BY <1>3, SessionAllows, VerifiedStep
<1>4. ASSUME NEW r \in Request, VerifyUser(r) \/ ConfirmCommit(r)
      PROVE  user # None /\ user.verified = TRUE => user'.verified = TRUE
  BY <1>4 DEF VerifyUser, ConfirmCommit, FamilyInv, AuthInv, TypeOK
<1>5. ASSUME NEW r \in Request, CodeStep(r) \/ ConfirmStep(r) PROVE VerifiedFirst'
  BY <1>4, <1>5, CodeAllows, ConfirmAllows, VerifiedStep
<1>6. ASSUME NEW r \in Request, Victim(r) \/ Crash(r) PROVE VerifiedFirst'
  BY <1>6, IdleAllows, VerifiedStep DEF Victim, Crash
<1> QED BY <1>2, <1>3, <1>5, <1>6 DEF Next

LEMMA FamilyInvNext == FamilyInv /\ [Next]_vars => FamilyInv'
BY InvNext, RootedKept, VerifiedKept DEF FamilyInv

-----------------------------------------------------------------------------
(* The refinement.                                                         *)

LEMMA FamiliesInit == Init => Abstract!Init
BY DEF Init, Abstract!Init, Registered, FamilyState, Members

\* What the statements of a sign-in, a refresh and a sign-out do to the families.
LEMMA FamilySessionStep ==
    ASSUME FamilyInv, NEW r \in Request, SessionStep(r) PROVE [Abstract!Next]_(Abstract!vars)
<1>1. CASE Issue(r)
  BY <1>1, FamilyBegin DEF Abstract!Next
<1>2. CASE Rotate(r)
  BY <1>2, FamilyRotate
<1>3. CASE Refresh(r)
  <2>1. CASE UNCHANGED sessions
    BY <1>3, <2>1, FamiliesStutter DEF Refresh
  <2>2. CASE ~UNCHANGED sessions
    <3>1. PICK s \in Session : /\ sessions[s] # None
                               /\ sessions' = [sessions EXCEPT ![s] = Revoked(@, None)]
      BY <1>3, <2>2 DEF Refresh
    <3>2. sessions' = AllRevoked({s})
      BY <3>1 DEF AllRevoked, FamilyInv, AuthInv, TypeOK
    <3> QED BY <1>3, <3>1, <3>2, FamilyEnd DEF Refresh, Abstract!Next
  <2> QED BY <2>1, <2>2
<1>4. CASE Logout(r)
  <2>1. PICK s \in Session : sessions[s] # None /\ sessions' = AllRevoked({s})
    BY <1>4 DEF Logout
  <2> QED BY <1>4, <2>1, FamilyEnd DEF Logout, Abstract!Next
<1>5. CASE ReuseCommit(r)
  <2>1. request[r] \in Local /\ Relies(request[r])
    BY DEF FamilyInv, AuthInv, TypeOK, Reliable
  <2>2. /\ request[r].session \in SUBSET Session
        /\ \A s \in request[r].session : sessions[s] # None
    BY <2>1 DEF Local, Relies
  <2> QED BY <1>5, <2>2, FamilyEnd DEF ReuseCommit, Abstract!Next
<1>6. CASE Login(r) \/ RevokeAll(r) \/ RevokeAllRow(r)
  BY <1>6, FamiliesStutter DEF Login, RevokeAll, RevokeAllRow
<1> QED BY <1>1, <1>2, <1>3, <1>4, <1>5, <1>6 DEF SessionStep

LEMMA FamiliesNext == FamilyInv /\ [Next]_vars => [Abstract!Next]_(Abstract!vars)
<1> SUFFICES ASSUME FamilyInv, [Next]_vars PROVE [Abstract!Next]_(Abstract!vars)
  OBVIOUS
<1>1. CASE Register
  BY <1>1, FamilyRegister DEF Abstract!Next
<1>2. CASE Elapse \/ UNCHANGED vars
  BY <1>2, FamiliesStutter DEF Elapse, vars
<1>3. ASSUME NEW r \in Request, SessionStep(r) PROVE [Abstract!Next]_(Abstract!vars)
  BY <1>3, FamilySessionStep
<1>4. ASSUME NEW r \in Request, CodeStep(r) PROVE [Abstract!Next]_(Abstract!vars)
  <2>1. VerifyUser(r) \/ UNCHANGED <<user, sessions, origin>>
    BY <1>4 DEF CodeStep, VerifyEmail, RequestCode, RequestCodeBegin, RevokeCodes,
                RevokeCodesRow, RevokeCodesDone, RequestCodeInsert
  <2> QED BY <2>1, FamilyVerify, FamiliesStutter DEF Abstract!Next
<1>5. ASSUME NEW r \in Request, ConfirmStep(r) PROVE [Abstract!Next]_(Abstract!vars)
  <2>1. ConfirmCommit(r) \/ UNCHANGED <<user, sessions, origin>>
    BY <1>5 DEF ConfirmStep, Confirm, ConfirmSelect, Attempt, WrongCode
  <2> QED BY <2>1, FamilyChangePassword, FamiliesStutter DEF Abstract!Next
<1>6. ASSUME NEW r \in Request, Victim(r) \/ Crash(r) PROVE [Abstract!Next]_(Abstract!vars)
  BY <1>6, FamiliesStutter DEF Victim, Crash
<1> QED BY <1>1, <1>2, <1>3, <1>4, <1>5, <1>6 DEF Next

\* The sessions implement families of refresh tokens (ImplementsFamilies):
\* whatever interleaves, deadlocks or dies, a family begins with a sign-in of a
\* verified user, never lives again once it has ended, and ends with the
\* password it began under.
THEOREM SessionsImplementFamilies == Spec => ImplementsFamilies
BY FamilyInit, FamilyInvNext, FamiliesInit, FamiliesNext, PTL
   DEF Spec, ImplementsFamilies, Abstract!Spec
=============================================================================
