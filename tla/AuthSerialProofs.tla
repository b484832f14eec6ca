-------------------------- MODULE AuthSerialProofs --------------------------
(* What Auth keeps when two of its requests do not meet at the wrong place.*)
(*                                                                         *)
(* Three promises of services/auth.rs hold only as long as certain         *)
(* requests do not overlap.  Each theorem names the overlap that has to be *)
(* excluded and allows every other one; requests one after the other, as   *)
(* the behaviours with `alone' of MCAuthProgress have them, exclude all    *)
(* three.                                                                  *)
EXTENDS AuthProofs, MCAuthProgress

-----------------------------------------------------------------------------
(* Where a request comes from.                                             *)

\* An action of r writes the locals of r and of no other request.
LEMMA OthersKept ==
    ASSUME AuthInv, NEW r \in Request, NEW q \in Request \ {r},
           SessionStep(r) \/ CodeStep(r) \/ ConfirmStep(r) \/ Victim(r) \/ Crash(r)
    PROVE  request'[q] = request[q]
<1>1. ASSUME NEW l, Become(r, l) PROVE request'[q] = request[q]
  BY <1>1 DEF Become, AuthInv, TypeOK
<1>2. CASE SessionStep(r)
  BY <1>1, <1>2 DEF SessionStep, Login, Issue, Refresh, Rotate, RevokeAll, RevokeAllRow,
                    ReuseCommit, Logout, Return
<1>3. CASE CodeStep(r)
  BY <1>1, <1>3 DEF CodeStep, VerifyEmail, VerifyUser, RequestCode, RequestCodeBegin,
                    RevokeCodes, RevokeCodesRow, RevokeCodesDone, RequestCodeInsert, Return
<1>4. CASE ConfirmStep(r)
  BY <1>1, <1>4 DEF ConfirmStep, Confirm, ConfirmSelect, Attempt, WrongCode, ConfirmCommit,
                    Return
<1>5. CASE Victim(r) \/ Crash(r)
  BY <1>1, <1>5 DEF Victim, Crash, Return
<1> QED BY <1>2, <1>3, <1>4, <1>5

LEMMA ReturnsIdle ==
    ASSUME AuthInv, NEW r \in Request, Return(r) PROVE request'[r] = Idle
BY DEF Return, Become, AuthInv, TypeOK

LEMMA BecomesLocal ==
    ASSUME AuthInv, NEW r \in Request, NEW l, Become(r, l) PROVE request'[r] = l
BY DEF Become, AuthInv, TypeOK

\* Which statement may follow which.
LEMMA SessionTargets ==
    ASSUME AuthInv, NEW r \in Request, SessionStep(r), request'[r] # request[r]
    PROVE  \/ request'[r].pc \in {"idle", "rotate", "rightRows"}
           \/ Login(r) /\ request'[r].pc = "issue"
           \/ Refresh(r) /\ request'[r].pc = "reuse"
           \/ (RevokeAll(r) \/ RevokeAllRow(r)) /\ request'[r].pc = "reuseRows"
<1>t. request[r] \in Local /\ Idle.pc = "idle"
  BY DEF AuthInv, TypeOK, Idle
<1>1. CASE Login(r)
  <2>1. request'[r] = [Idle EXCEPT !.pc = "issue", !.won = user.password]
    BY <1>1, BecomesLocal DEF Login
  <2> QED BY <1>1, <2>1 DEF Idle
<1>2. CASE Issue(r) \/ Rotate(r) \/ ReuseCommit(r)
  BY <1>2, <1>t, ReturnsIdle DEF Issue, Rotate, ReuseCommit
<1>3. CASE Refresh(r)
  <2>1. ASSUME NEW pc \in {"reuse", "rotate"}, NEW s \in Session,
               Become(r, [Idle EXCEPT !.pc = pc, !.session = {s}, !.own = s])
        PROVE  request'[r].pc = pc
    <3>1. request'[r] = [Idle EXCEPT !.pc = pc, !.session = {s}, !.own = s]
      BY <2>1, BecomesLocal
    <3> QED BY <3>1 DEF Idle
  <2> QED BY <1>3, <2>1 DEF Refresh
<1>4. CASE RevokeAll(r)
  <2> DEFINE l == [request[r] EXCEPT !.pc = IF @ = "reuse" THEN "reuseRows" ELSE "rightRows",
                                     !.todo = LiveSessions]
  <2>1. request'[r] = l
    BY <1>4, BecomesLocal DEF RevokeAll
  <2> QED BY <1>4, <2>1, <1>t DEF Local
<1>5. CASE RevokeAllRow(r)
  <2>1. PICK s \in request[r].todo :
          Become(r, [request[r] EXCEPT !.todo = @ \ {s},
                              !.session = IF s \in LiveSessions THEN @ \cup {s} ELSE @])
    BY <1>5 DEF RevokeAllRow
  <2> DEFINE q == request[r]
  <2>2. request'[r] = [q EXCEPT !.todo = @ \ {s},
                                !.session = IF s \in LiveSessions THEN @ \cup {s} ELSE @]
    BY <2>1, BecomesLocal
  <2>3. q \in Local
    BY <1>t
  <2> HIDE DEF q
  <2>4. request'[r].pc = q.pc
    BY <2>2, <2>3 DEF Local
  <2> QED BY <1>5, <2>4 DEF RevokeAllRow, q
<1>6. CASE Logout(r)
  BY <1>6 DEF Logout
<1> QED BY <1>1, <1>2, <1>3, <1>4, <1>5, <1>6 DEF SessionStep

LEMMA CodeTargets ==
    ASSUME AuthInv, NEW r \in Request, CodeStep(r), request'[r] # request[r]
    PROVE  \/ request'[r].pc \in {"idle", "verify", "code", "begun"}
           \/ VerifyUser(r) /\ request'[r].pc = "issue"
           \/ (RevokeCodes(r) \/ RevokeCodesRow(r)) /\ request'[r].pc = "codeRows"
           \/ RevokeCodesDone(r) /\ request'[r].pc = "insertCode"
<1>t. request[r] \in Local /\ Idle.pc = "idle"
  BY DEF AuthInv, TypeOK, Idle
<1>1. CASE VerifyEmail(r)
  <2>1. PICK c \in CodeId :
           \/ UNCHANGED request
           \/ Become(r, [Idle EXCEPT !.pc = "verify", !.code = {c}, !.own = c])
    BY <1>1 DEF VerifyEmail
  <2>2. request'[r] = [Idle EXCEPT !.pc = "verify", !.code = {c}, !.own = c]
    BY <2>1, BecomesLocal
  <2> QED BY <2>2 DEF Idle
<1>2. CASE VerifyUser(r)
  <2>1. request'[r] = [Idle EXCEPT !.pc = "issue"]
    BY <1>2, BecomesLocal DEF VerifyUser
  <2> QED BY <1>2, <2>1 DEF Idle
<1>3. CASE RequestCode(r)
  <2>1. PICK p \in Purpose : Become(r, [Idle EXCEPT !.pc = "code", !.purpose = p])
    BY <1>3 DEF RequestCode
  <2>2. request'[r] = [Idle EXCEPT !.pc = "code", !.purpose = p]
    BY <2>1, BecomesLocal
  <2> QED BY <2>2 DEF Idle
<1>4. CASE RequestCodeBegin(r)
  <2>1. PICK c \in CodeId : Become(r, [request[r] EXCEPT !.pc = "begun", !.own = c])
    BY <1>4 DEF RequestCodeBegin
  <2> DEFINE q == request[r]
  <2>2. request'[r] = [q EXCEPT !.pc = "begun", !.own = c]
    BY <2>1, BecomesLocal
  <2>3. q \in Local
    BY <1>t
  <2> HIDE DEF q
  <2>4. request'[r].pc = "begun"
    BY <2>2, <2>3 DEF Local
  <2> QED BY <2>4
<1>5. CASE RevokeCodes(r)
  <2> DEFINE q == request[r]
  <2>2. request'[r] = [q EXCEPT !.pc = "codeRows", !.todo = ActiveCodes(q.purpose)]
    BY <1>5, BecomesLocal DEF RevokeCodes
  <2>3. q \in Local
    BY <1>t
  <2> HIDE DEF q
  <2>4. request'[r].pc = "codeRows"
    BY <2>2, <2>3 DEF Local
  <2> QED BY <1>5, <2>4
<1>6. CASE RevokeCodesRow(r)
  <2>1. PICK c \in request[r].todo :
          Become(r, [request[r] EXCEPT !.todo = @ \ {c},
                                       !.code = IF Active(c) THEN @ \cup {c} ELSE @])
    BY <1>6 DEF RevokeCodesRow
  <2> DEFINE q == request[r]
  <2>2. request'[r] = [q EXCEPT !.todo = @ \ {c},
                                !.code = IF Active(c) THEN @ \cup {c} ELSE @]
    BY <2>1, BecomesLocal
  <2>3. q \in Local
    BY <1>t
  <2> HIDE DEF q
  <2>4. request'[r].pc = q.pc
    BY <2>2, <2>3 DEF Local
  <2> QED BY <1>6, <2>4 DEF RevokeCodesRow, At, q
<1>7. CASE RevokeCodesDone(r)
  BY <1>7, <1>t, BecomesLocal DEF RevokeCodesDone, Local
<1>8. CASE RequestCodeInsert(r)
  BY <1>8, <1>t, ReturnsIdle DEF RequestCodeInsert
<1> QED BY <1>1, <1>2, <1>3, <1>4, <1>5, <1>6, <1>7, <1>8 DEF CodeStep

LEMMA ConfirmTargets ==
    ASSUME AuthInv, NEW r \in Request, ConfirmStep(r), request'[r] # request[r]
    PROVE  \/ request'[r].pc \in {"idle", "confirm", "attempt", "wrong", "right"}
           \/ ConfirmCommit(r) /\ request'[r].pc = "issue"
<1>t. request[r] \in Local /\ Idle.pc = "idle"
  BY DEF AuthInv, TypeOK, Idle
<1>1. CASE Confirm(r)
  <2>1. PICK p \in {"reset", "change"} :
           Become(r, [Idle EXCEPT !.pc = "confirm", !.user = TRUE, !.purpose = p])
    BY <1>1 DEF Confirm
  <2>2. request'[r] = [Idle EXCEPT !.pc = "confirm", !.user = TRUE, !.purpose = p]
    BY <2>1, BecomesLocal
  <2> QED BY <2>2 DEF Idle
<1>2. CASE ConfirmSelect(r)
  <2>1. Return(r) \/ Become(r, [request[r] EXCEPT !.pc = "attempt",
                                   !.todo = ActiveCodes(request[r].purpose)])
    BY <1>2 DEF ConfirmSelect
  <2> QED BY <2>1, <1>t, ReturnsIdle, BecomesLocal DEF Local
<1>3. CASE Attempt(r)
  <2>1. At(r, "attempt")
    BY <1>3 DEF Attempt
  <2>2. PICK c \in request[r].todo :
           \/ Return(r)
           \/ Become(r, [request[r] EXCEPT !.todo = @ \ {c}])
           \/ \E pc \in {"wrong", "right"} :
                 Become(r, [request[r] EXCEPT !.pc = pc, !.todo = {}, !.code = {c}, !.own = c])
    BY <1>3 DEF Attempt
  <2>3. CASE Become(r, [request[r] EXCEPT !.todo = @ \ {c}])
    <3>1. request'[r].pc = request[r].pc
      BY <2>3, <1>t, BecomesLocal DEF Local
    <3> QED BY <2>1, <3>1 DEF At
  <2>4. CASE \E pc \in {"wrong", "right"} :
                Become(r, [request[r] EXCEPT !.pc = pc, !.todo = {}, !.code = {c}, !.own = c])
    <3>1. PICK pc \in {"wrong", "right"} :
             Become(r, [request[r] EXCEPT !.pc = pc, !.todo = {}, !.code = {c}, !.own = c])
      BY <2>4
    <3> DEFINE l == [request[r] EXCEPT !.pc = pc, !.todo = {}, !.code = {c}, !.own = c]
    <3>2. l.pc = pc
      BY <1>t DEF Local
    <3>3. request'[r] = l
      BY <3>1, BecomesLocal
    <3> QED BY <3>2, <3>3
  <2>5. CASE Return(r)
    BY <2>5, <1>t, ReturnsIdle
  <2> QED BY <2>2, <2>3, <2>4, <2>5
<1>4. CASE WrongCode(r)
  BY <1>4, <1>t, ReturnsIdle DEF WrongCode
<1>5. CASE ConfirmCommit(r)
  <2>1. request'[r] = IF request[r].purpose = "reset" THEN Idle
                      ELSE [Idle EXCEPT !.pc = "issue", !.purpose = "change",
                                        !.won = user.password + 1]
    BY <1>5, BecomesLocal DEF ConfirmCommit
  <2> QED BY <1>5, <2>1 DEF Idle
<1> QED BY <1>1, <1>2, <1>3, <1>4, <1>5 DEF ConfirmStep

\* What a request did that is now at one of these statements and was not, or
\* was with other locals.
LEMMA Arrivals ==
    ASSUME AuthInv, Next, NEW q \in Request, request'[q] # request[q]
    PROVE  /\ request'[q].pc = "codeRows" => RevokeCodes(q) \/ RevokeCodesRow(q)
           /\ request'[q].pc = "insertCode" => RevokeCodesDone(q)
           /\ request'[q].pc = "issue" => Login(q) \/ VerifyUser(q) \/ ConfirmCommit(q)
           /\ request'[q].pc = "reuse" => Refresh(q)
           /\ request'[q].pc = "reuseRows" => RevokeAll(q) \/ RevokeAllRow(q)
<1>1. ~Register /\ ~Elapse
  BY DEF Register, Elapse
<1>2. SessionStep(q) \/ CodeStep(q) \/ ConfirmStep(q) \/ Victim(q) \/ Crash(q)
  BY <1>1, OthersKept DEF Next
<1>3. CASE Victim(q) \/ Crash(q)
  BY <1>3, ReturnsIdle DEF Victim, Crash, Idle
<1> QED BY <1>2, <1>3, SessionTargets, CodeTargets, ConfirmTargets
-----------------------------------------------------------------------------
(* Asking for a code.                                                      *)

\* What asking for a code knows of the codes it revokes: from its snapshot on
\* it has, or will have, every active code of its kind.
AskKnows(l) ==
    /\ l.pc = "codeRows" => ActiveCodes(l.purpose) \subseteq l.todo \cup l.code
    /\ l.pc = "insertCode" => ActiveCodes(l.purpose) \subseteq l.code

AskInv == AuthInv /\ OneLiveCode /\ \A r \in Request : AskKnows(request[r])

\* The overlap: from the snapshot of its UPDATE to its INSERT, a request for a
\* code does not see the code that another one of the same kind inserts.
AskingApart ==
    \A q, r \in Request :
        /\ q # r
        /\ request[q].pc \in {"codeRows", "insertCode"}
        /\ request[r].pc \in {"codeRows", "insertCode"}
        => request[q].purpose # request[r].purpose

\* Codes end; only asking for one makes another active.
LEMMA CodesOnlyEnd ==
    ASSUME AuthInv, Next, ~Register, \A r \in Request : ~RequestCodeInsert(r)
    PROVE  \A p \in Purpose : ActiveCodes(p)' \subseteq ActiveCodes(p)
<1> SUFFICES ASSUME NEW c \in CodeId, Active(c)'
             PROVE  Active(c) /\ codes'[c].purpose = codes[c].purpose
  BY DEF ActiveCodes
<1>t. codes \in [CodeId -> CodeRow \cup {None}] /\ None \notin CodeRow
  BY AuthAssumption DEF AuthInv, TypeOK, CodeRow
<1>1. CASE UNCHANGED codes
  BY <1>1 DEF Active
<1>2. CASE Elapse
  BY <1>2, <1>t DEF Elapse, Active, CodeRow
<1>3. ASSUME NEW d \in CodeId, codes[d] # None,
             codes' = [codes EXCEPT ![d].revoked = TRUE] \/ codes' = [codes EXCEPT ![d].used = TRUE]
      PROVE  Active(c) /\ codes'[c].purpose = codes[c].purpose
  BY <1>3, <1>t DEF Active, CodeRow
<1>4. ASSUME NEW r \in Request, WrongCode(r)
      PROVE  Active(c) /\ codes'[c].purpose = codes[c].purpose
  <2> DEFINE d == request[r].own
             n == codes[d].failed + 1
  <2>1. d \in CodeId /\ Active(d)
    BY <1>4 DEF WrongCode, At, AuthInv, Reliable, Relies, Proving
  <2>2. codes[d] \in CodeRow
    BY <2>1, <1>t DEF Active
  <2>3. codes' = [codes EXCEPT ![d].failed = n, ![d].revoked = @ \/ Exhausted(n)]
    BY <1>4 DEF WrongCode
  <2>4. c # d => codes'[c] = codes[c]
    BY <2>1, <2>3, <1>t
  <2>5. codes'[d].purpose = codes[d].purpose
    BY <2>1, <2>2, <2>3, <1>t DEF CodeRow
  <2> QED BY <2>1, <2>4, <2>5 DEF Active
<1>5. ASSUME NEW r \in Request, VerifyEmail(r) \/ Attempt(r)
      PROVE  Active(c) /\ codes'[c].purpose = codes[c].purpose
  <2>1. ASSUME Attempt(r) PROVE request[r].todo \subseteq CodeId
    BY <2>1 DEF Attempt, At, AuthInv, Reliable, Relies
  <2> QED BY <1>1, <1>3, <1>5, <2>1 DEF VerifyEmail, Attempt, Active
<1>6. ASSUME NEW r \in Request, VerifyUser(r) \/ ConfirmCommit(r)
      PROVE  Active(c) /\ codes'[c].purpose = codes[c].purpose
  <2>1. request[r].own \in CodeId /\ Active(request[r].own)
    BY <1>6 DEF VerifyUser, ConfirmCommit, At, AuthInv, Reliable, Relies, Proving
  <2> QED BY <1>3, <1>6, <2>1 DEF VerifyUser, ConfirmCommit, Active
<1>7. \/ UNCHANGED codes \/ Elapse
      \/ \E r \in Request : \/ WrongCode(r) \/ VerifyEmail(r) \/ Attempt(r)
                            \/ VerifyUser(r) \/ ConfirmCommit(r)
  BY DEF Next, SessionStep, CodeStep, ConfirmStep, Login, Issue, Refresh, Rotate, RevokeAll,
         RevokeAllRow, ReuseCommit, Logout, RequestCode, RequestCodeBegin, RevokeCodes,
         RevokeCodesRow, RevokeCodesDone, Confirm, ConfirmSelect, Victim, Crash
<1> QED BY <1>1, <1>2, <1>4, <1>5, <1>6, <1>7

\* The commit of a new code leaves no other code of its kind active.
LEMMA InsertLeavesOne ==
    ASSUME AskInv, NEW r \in Request, RequestCodeInsert(r)
    PROVE  \A p \in Purpose : \A c \in ActiveCodes(p)' :
              IF p = request[r].purpose THEN c = request[r].own ELSE c \in ActiveCodes(p)
<1> DEFINE k == request[r]
<1>1. /\ k \in Local /\ AskKnows(k) /\ k.pc = "insertCode"
      /\ \A d \in k.code : d \in CodeId /\ codes[d] # None
  BY DEF AskInv, AuthInv, TypeOK, Reliable, Relies, RequestCodeInsert, At, Local
<1>t. codes \in [CodeId -> CodeRow \cup {None}] /\ None \notin CodeRow
  BY AuthAssumption DEF AskInv, AuthInv, TypeOK, CodeRow
<1>2. ASSUME NEW c \in CodeId, c # k.own, Active(c)'
      PROVE  c \notin k.code /\ codes'[c] = codes[c]
  <2>1. codes'[c] = IF c \in k.code THEN [codes[c] EXCEPT !.revoked = TRUE] ELSE codes[c]
    BY <1>2 DEF RequestCodeInsert
  <2>2. c \in k.code => codes'[c].revoked
    BY <1>1, <1>t, <2>1 DEF CodeRow
  <2> QED BY <1>2, <2>1, <2>2 DEF Active
<1>3. k.own \in CodeId => codes'[k.own].purpose = k.purpose
  BY DEF RequestCodeInsert, NewCode
<1>4. \A c \in CodeId : c # k.own /\ Active(c)' => Active(c)
  BY <1>2 DEF Active
<1>5. ASSUME NEW p \in Purpose, NEW c \in ActiveCodes(p)'
      PROVE  IF p = k.purpose THEN c = k.own ELSE c \in ActiveCodes(p)
  <2>1. c \in CodeId /\ Active(c)' /\ codes'[c].purpose = p
    BY DEF ActiveCodes
  <2>2. CASE c = k.own
    BY <1>3, <2>1, <2>2
  <2>3. CASE c # k.own
    <3>1. c \in ActiveCodes(p) /\ c \notin k.code
      BY <1>2, <1>4, <2>1, <2>3 DEF ActiveCodes
    <3>2. p # k.purpose
      BY <1>1, <3>1 DEF AskKnows
    <3> QED BY <3>1, <3>2
  <2> QED BY <2>2, <2>3
<1> QED BY <1>5

\* OneLiveCode, of the codes of each kind.
LEMMA OneOfAKind ==
    ASSUME AuthInv', \A p \in Purpose : \A c, d \in ActiveCodes(p)' : c = d PROVE OneLiveCode'
<1> SUFFICES ASSUME NEW c \in CodeId, NEW d \in CodeId, Active(c)', Active(d)',
                    codes'[c].purpose = codes'[d].purpose
             PROVE  c = d
  BY DEF OneLiveCode
<1>1. PICK p \in Purpose : p = codes'[c].purpose
  BY DEF AuthInv, TypeOK, CodeRow, Active
<1>2. c \in ActiveCodes(p)' /\ d \in ActiveCodes(p)'
  BY <1>1 DEF ActiveCodes
<1> QED BY <1>2

LEMMA AskStep == ASSUME AskInv, AskingApart, Next PROVE AskInv'
<1>i. AuthInv /\ AuthInv'
  BY InvNext DEF AskInv
<1>t. \A q \in Request : request[q] \in Local /\ request[q].purpose \in Purpose
  BY <1>i DEF AuthInv, TypeOK, Local
<1>1. CASE Register
  <2>1. \A q \in Request : request'[q].pc = "idle"
    BY <1>1, <1>i DEF Register, AuthInv, Reliable, Relies, Idle
  <2>2. codes' = [codes EXCEPT ![1] = NewCode("verify")] /\ \A c \in CodeId : codes[c] = None
    BY <1>1, <1>i DEF Register, AuthInv, UserFirst
  <2>3. \A c \in CodeId : Active(c)' => c = 1
    BY <2>2, <1>i DEF Active, AuthInv, TypeOK
  <2> QED BY <1>i, <2>1, <2>3 DEF AskInv, AskKnows, OneLiveCode
<1>2. ASSUME NEW r \in Request, RequestCodeInsert(r) PROVE AskInv'
  <2> DEFINE k == request[r]
  <2>1. \A p \in Purpose : \A c \in ActiveCodes(p)' :
           IF p = k.purpose THEN c = k.own ELSE c \in ActiveCodes(p)
    BY <1>2, InsertLeavesOne
  <2>2. OneLiveCode'
    <3>1. \A p \in Purpose : \A c, d \in ActiveCodes(p) : c = d
      BY DEF AskInv, OneLiveCode, ActiveCodes
    <3>2. \A p \in Purpose : \A c, d \in ActiveCodes(p)' : c = d
      BY <2>1, <3>1
    <3> QED BY <1>i, <3>2, OneOfAKind
  <2>3. ASSUME NEW q \in Request PROVE AskKnows(request[q])'
    <3>1. CASE q = r
      BY <1>2, <1>i, <3>1, ReturnsIdle DEF RequestCodeInsert, Idle, AskKnows
    <3>2. CASE q # r
      <4>1. request'[q] = request[q]
        BY <1>2, <1>i, <3>2, OthersKept DEF CodeStep
      <4>2. request[r].pc = "insertCode"
        BY <1>2 DEF RequestCodeInsert, At
      <4>3. request[q].pc \in {"codeRows", "insertCode"} => request[q].purpose # k.purpose
        BY <3>2, <4>2 DEF AskingApart
      <4> QED BY <1>t, <2>1, <4>1, <4>3 DEF AskInv, AskKnows
    <3> QED BY <3>1, <3>2
  <2> QED BY <1>i, <2>2, <2>3 DEF AskInv
<1>3. CASE ~Register /\ \A r \in Request : ~RequestCodeInsert(r)
  <2>1. \A p \in Purpose : ActiveCodes(p)' \subseteq ActiveCodes(p)
    BY <1>3, <1>i, CodesOnlyEnd
  <2>2. OneLiveCode'
    <3>1. \A p \in Purpose : \A c, d \in ActiveCodes(p) : c = d
      BY DEF AskInv, OneLiveCode, ActiveCodes
    <3>2. \A p \in Purpose : \A c, d \in ActiveCodes(p)' : c = d
      BY <2>1, <3>1
    <3> QED BY <1>i, <3>2, OneOfAKind
  <2>3. ASSUME NEW q \in Request PROVE AskKnows(request[q])'
    <3> DEFINE k == request[q]
    <3>1. CASE request'[q] = k
      BY <1>t, <2>1, <3>1 DEF AskInv, AskKnows
    <3>2. CASE request'[q] # k /\ request'[q].pc = "codeRows"
      <4>1. CASE RevokeCodes(q)
        <5>1. /\ request'[q].purpose = k.purpose
              /\ request'[q].todo = ActiveCodes(k.purpose)
          BY <1>i, <1>t, <4>1, BecomesLocal DEF RevokeCodes, Local
        <5> QED BY <1>t, <2>1, <3>2, <5>1 DEF AskKnows
      <4>2. CASE RevokeCodesRow(q)
        <5>1. PICK c \in k.todo :
                Become(q, [k EXCEPT !.todo = @ \ {c},
                                    !.code = IF Active(c) THEN @ \cup {c} ELSE @])
          BY <4>2 DEF RevokeCodesRow
        <5>2. /\ request'[q].purpose = k.purpose
              /\ request'[q].todo = k.todo \ {c}
              /\ request'[q].code = IF Active(c) THEN k.code \cup {c} ELSE k.code
          BY <1>i, <1>t, <5>1, BecomesLocal DEF Local
        <5>3. ActiveCodes(k.purpose) \subseteq k.todo \cup k.code
          BY <4>2 DEF AskInv, AskKnows, RevokeCodesRow, At
        <5>4. \A d \in ActiveCodes(k.purpose) : Active(d)
          BY DEF ActiveCodes
        <5> QED BY <1>t, <2>1, <3>2, <5>2, <5>3, <5>4 DEF AskKnows
      <4> QED BY <1>i, <3>2, <4>1, <4>2, Arrivals
    <3>3. CASE request'[q] # k /\ request'[q].pc = "insertCode"
      <4>1. RevokeCodesDone(q)
        BY <1>i, <3>3, Arrivals
      <4>2. request'[q].purpose = k.purpose /\ request'[q].code = k.code
        BY <1>i, <1>t, <4>1, BecomesLocal DEF RevokeCodesDone, Local
      <4>3. ActiveCodes(k.purpose) \subseteq k.code
        BY <4>1 DEF AskInv, AskKnows, RevokeCodesDone, At
      <4> QED BY <1>t, <2>1, <3>3, <4>2, <4>3 DEF AskKnows
    <3>4. CASE request'[q].pc \notin {"codeRows", "insertCode"}
      BY <3>4 DEF AskKnows
    <3> QED BY <3>1, <3>2, <3>3, <3>4
  <2> QED BY <1>i, <2>2, <2>3 DEF AskInv
<1> QED BY <1>1, <1>2, <1>3

LEMMA AskInit == Init => AskInv
<1>1. Init => \A r \in Request : request[r].pc = "idle"
  BY DEF Init, Idle
<1>2. Init => \A c \in CodeId : ~Active(c)
  BY DEF Init, Active
<1> QED BY <1>1, <1>2, InvInit DEF AskInv, AskKnows, OneLiveCode

LEMMA AskStutter == AskInv /\ UNCHANGED vars => AskInv'
<1> SUFFICES ASSUME AskInv, UNCHANGED vars PROVE AskInv'
  OBVIOUS
<1>1. AuthInv'
  BY InvNext DEF AskInv
<1> QED BY <1>1 DEF AskInv, vars, OneLiveCode, AskKnows, ActiveCodes, Active

\* Only the newest code of a kind can be used (OneLiveCode): asking for a code
\* revokes all there are (revoke_active_email_challenges), as long as no two
\* requests for the same kind are between that and their insert.
THEOREM OneCodeRemains == Spec /\ []AskingApart => []OneLiveCode
<1>1. AskInv /\ AskingApart /\ [Next]_vars => AskInv'
  BY AskStep, AskStutter
<1>2. AskInv => OneLiveCode
  BY DEF AskInv
<1> QED BY <1>1, <1>2, AskInit, PTL DEF Spec
-----------------------------------------------------------------------------
(* Which sessions begin.                                                   *)

\* A session keeps its origin; a session that a step begins was issued, or
\* takes its family and its password from the live one it replaces.
LEMMA SessionsBegin ==
    ASSUME AuthInv, Next
    PROVE  /\ \A s \in Session : sessions[s] # None =>
                 sessions'[s] # None /\ origin'[s] = origin[s]
           /\ \A s \in LiveSessions' \ LiveSessions :
                 /\ sessions[s] = None
                 /\ \/ \E r \in Request : /\ Issue(r)
                                          /\ origin'[s].root = s
                                          /\ origin'[s].won = request[r].won
                    \/ \E r \in Request : /\ Rotate(r)
                                          /\ request[r].own \in LiveSessions
                                          /\ origin'[s].root = origin[request[r].own].root
                                          /\ origin'[s].won = origin[request[r].own].won
<1>t. /\ sessions \in [Session -> SessionRow \cup {None}] /\ None \notin SessionRow
      /\ origin \in [Session -> Origin \cup {None}]
      /\ \A s \in Session : sessions[s] = None <=> origin[s] = None
  BY AuthAssumption DEF AuthInv, TypeOK, SessionRow, Lineage
<1>1. CASE UNCHANGED <<sessions, origin>>
  BY <1>1 DEF LiveSessions
<1>2. ASSUME NEW S \in SUBSET Session, \A s \in S : sessions[s] # None,
             sessions' = AllRevoked(S), UNCHANGED origin
      PROVE  /\ \A s \in Session : sessions[s] # None =>
                   sessions'[s] # None /\ origin'[s] = origin[s]
             /\ LiveSessions' \subseteq LiveSessions
  BY <1>2, EndSessions
<1>3. ASSUME NEW r \in Request, Refresh(r)
      PROVE  \/ UNCHANGED <<sessions, origin>>
             \/ \E s \in Session : /\ sessions[s] # None /\ sessions' = AllRevoked({s})
                                   /\ UNCHANGED origin
  BY <1>3, <1>t DEF Refresh, AllRevoked
<1>4. ASSUME NEW r \in Request, ReuseCommit(r) \/ ConfirmCommit(r)
      PROVE  /\ request[r].session \in SUBSET Session
             /\ \A s \in request[r].session : sessions[s] # None
             /\ sessions' = AllRevoked(request[r].session) /\ UNCHANGED origin
  BY <1>4 DEF ReuseCommit, ConfirmCommit, AuthInv, TypeOK, Reliable, Relies, Local
<1>5. ASSUME NEW r \in Request, Logout(r)
      PROVE  \E s \in Session : /\ sessions[s] # None /\ sessions' = AllRevoked({s})
                                /\ UNCHANGED origin
  BY <1>5 DEF Logout
<1>6. ASSUME NEW r \in Request, Issue(r)
      PROVE  \E s \in Session : /\ sessions[s] = None
                                /\ \A t \in Session \ {s} : sessions'[t] = sessions[t]
                                                            /\ origin'[t] = origin[t]
                                /\ origin'[s].root = s /\ origin'[s].won = request[r].won
  <2>1. PICK s \in Session :
          /\ sessions[s] = None
          /\ sessions' = [sessions EXCEPT ![s] = NewSession]
          /\ origin' = [origin EXCEPT ![s] = [parent |-> None, root |-> s,
                                              born |-> user.password, won |-> request[r].won]]
    BY <1>6 DEF Issue
  <2> QED BY <2>1, <1>t
<1>7. ASSUME NEW r \in Request, Rotate(r)
      PROVE  /\ request[r].own \in LiveSessions
             /\ \E s \in Session :
                   /\ sessions[s] = None
                   /\ \A t \in Session \ {s} :
                         /\ origin'[t] = origin[t]
                         /\ sessions[t] # None => sessions'[t] # None
                         /\ t \in LiveSessions' => t \in LiveSessions
                   /\ origin'[s].root = origin[request[r].own].root
                   /\ origin'[s].won = origin[request[r].own].won
  <2> DEFINE o == request[r].own
  <2>1. o \in LiveSessions
    BY <1>7 DEF Rotate, At, AuthInv, Reliable, Relies
  <2>2. o \in Session /\ sessions[o] \in SessionRow /\ origin[o] \in Origin
    BY <2>1, <1>t DEF LiveSessions
  <2>3. PICK s \in Session :
          /\ sessions[s] = None
          /\ sessions' = [sessions EXCEPT ![s] = NewSession, ![o] = Revoked(@, s)]
          /\ origin' = [origin EXCEPT ![s] = [origin[o] EXCEPT !.parent = o]]
    BY <1>7 DEF Rotate
  <2>4. Revoked(sessions[o], s) \in SessionRow /\ Revoked(sessions[o], s).revoked
    BY <2>2 DEF Revoked, SessionRow
  <2>5. o # s
    BY <2>2, <2>3, <1>t
  <2>6. sessions'[o] = Revoked(sessions[o], s)
        /\ \A t \in Session \ {s, o} : sessions'[t] = sessions[t]
    BY <2>2, <2>3, <2>5, <1>t
  <2>7. \A t \in Session \ {s} : origin'[t] = origin[t]
    BY <2>3, <1>t
  <2>8. origin'[s] = [origin[o] EXCEPT !.parent = o]
    BY <2>3, <1>t
  <2>9. origin'[s].root = origin[o].root /\ origin'[s].won = origin[o].won
    BY <2>2, <2>8 DEF Origin
  <2>10. \A t \in Session \ {s} : /\ sessions[t] # None => sessions'[t] # None
                                  /\ t \in LiveSessions' => t \in LiveSessions
    BY <2>4, <2>6, <1>t DEF LiveSessions
  <2> QED BY <2>1, <2>3, <2>7, <2>9, <2>10
<1>8. \/ UNCHANGED <<sessions, origin>>
      \/ \E r \in Request : \/ Refresh(r) \/ ReuseCommit(r) \/ ConfirmCommit(r) \/ Logout(r)
                            \/ Issue(r) \/ Rotate(r)
  <2>1. ASSUME NEW r \in Request, SessionStep(r)
        PROVE  \/ UNCHANGED <<sessions, origin>>
               \/ Refresh(r) \/ ReuseCommit(r) \/ Logout(r) \/ Issue(r) \/ Rotate(r)
    BY <2>1 DEF SessionStep, Login, RevokeAll, RevokeAllRow
  <2>2. ASSUME NEW r \in Request, CodeStep(r) PROVE UNCHANGED <<sessions, origin>>
    BY <2>2 DEF CodeStep, VerifyEmail, VerifyUser, RequestCode, RequestCodeBegin, RevokeCodes,
                RevokeCodesRow, RevokeCodesDone, RequestCodeInsert
  <2>3. ASSUME NEW r \in Request, ConfirmStep(r)
        PROVE  UNCHANGED <<sessions, origin>> \/ ConfirmCommit(r)
    BY <2>3 DEF ConfirmStep, Confirm, ConfirmSelect, Attempt, WrongCode
  <2>4. ASSUME NEW r \in Request, Victim(r) \/ Crash(r) PROVE UNCHANGED <<sessions, origin>>
    BY <2>4 DEF Victim, Crash
  <2>5. Register \/ Elapse => UNCHANGED <<sessions, origin>>
    BY DEF Register, Elapse
  <2> QED BY <2>1, <2>2, <2>3, <2>4, <2>5 DEF Next
<1>9. CASE \E r \in Request : Refresh(r) \/ ReuseCommit(r) \/ ConfirmCommit(r) \/ Logout(r)
  <2>1. \/ UNCHANGED <<sessions, origin>>
        \/ \E S \in SUBSET Session : /\ \A s \in S : sessions[s] # None
                                     /\ sessions' = AllRevoked(S) /\ UNCHANGED origin
    <3>1. ASSUME NEW s \in Session, sessions[s] # None PROVE {s} \in SUBSET Session
      OBVIOUS
    <3>2. CASE \E r \in Request : Refresh(r) \/ Logout(r)
      BY <1>3, <1>5, <3>1, <3>2
    <3>3. CASE \E r \in Request : ReuseCommit(r) \/ ConfirmCommit(r)
      BY <1>4, <3>3
    <3> QED BY <1>9, <3>2, <3>3
  <2>2. CASE \E S \in SUBSET Session : /\ \A s \in S : sessions[s] # None
                                      /\ sessions' = AllRevoked(S) /\ UNCHANGED origin
    BY <1>2, <2>2
  <2> QED BY <1>1, <2>1, <2>2
<1>10. ASSUME NEW r \in Request, Issue(r)
       PROVE  /\ \A s \in Session : sessions[s] # None =>
                    sessions'[s] # None /\ origin'[s] = origin[s]
              /\ \A s \in LiveSessions' \ LiveSessions :
                    /\ sessions[s] = None
                    /\ origin'[s].root = s /\ origin'[s].won = request[r].won
  BY <1>6, <1>10 DEF LiveSessions
<1>11. ASSUME NEW r \in Request, Rotate(r)
       PROVE  /\ \A s \in Session : sessions[s] # None =>
                    sessions'[s] # None /\ origin'[s] = origin[s]
              /\ \A s \in LiveSessions' \ LiveSessions :
                    /\ sessions[s] = None
                    /\ request[r].own \in LiveSessions
                    /\ origin'[s].root = origin[request[r].own].root
                    /\ origin'[s].won = origin[request[r].own].won
  BY <1>7, <1>11 DEF LiveSessions
<1> QED BY <1>1, <1>8, <1>9, <1>10, <1>11

-----------------------------------------------------------------------------
(* Signing in.                                                             *)

\* The sessions there are, and the one a sign-in is about to begin, were won
\* by the current password or by a link.
Wins(l) == l.pc = "issue" => l.won \in {0, user.password}

CurrentInv == AuthInv /\ CurrentPassword /\ \A r \in Request : Wins(request[r])

\* The overlap: login reads the password outside any transaction, so that it
\* can be changed before create_refresh_session begins the session.
SignInsApart ==
    \A q, r \in Request : At(q, "issue") /\ request[q].won # 0 => ~At(r, "rightRows")

LEMMA CurrentStep == ASSUME CurrentInv, SignInsApart, Next PROVE CurrentInv'
<1>i. AuthInv /\ AuthInv'
  BY InvNext DEF CurrentInv
<1>s. /\ \A s \in Session : sessions[s] # None => sessions'[s] # None /\ origin'[s] = origin[s]
      /\ \A s \in LiveSessions : s \in Session /\ sessions[s] # None
      /\ \A s \in LiveSessions' : s \in Session
  BY <1>i, SessionsBegin DEF LiveSessions
<1>1. CASE Register
  <2>1. \A q \in Request : request'[q].pc = "idle"
    BY <1>1, <1>i DEF Register, AuthInv, Reliable, Relies, Idle
  <2>2. LiveSessions' = {}
    BY <1>1, <1>i DEF Register, AuthInv, UserFirst, LiveSessions
  <2> QED BY <1>i, <2>1, <2>2 DEF CurrentInv, CurrentPassword, Wins
<1>2. ASSUME NEW r \in Request, ConfirmCommit(r) PROVE CurrentInv'
  <2> DEFINE k == request[r]
  <2>1. /\ k \in Local /\ LiveSessions \subseteq k.session /\ At(r, "rightRows")
        /\ \A s \in k.session : sessions[s] # None
    BY <1>2, <1>i DEF ConfirmCommit, At, AuthInv, TypeOK, Reliable, Relies
  <2>2. LiveSessions' = LiveSessions \ k.session
    BY <1>2, <1>i, <2>1, EndSessions DEF ConfirmCommit, Local
  <2>3. CurrentPassword'
    BY <2>1, <2>2 DEF CurrentPassword
  <2>4. user # None /\ user.password \in Nat /\ user' = [user EXCEPT !.password = @ + 1]
    BY <1>2, <1>i, <2>1 DEF ConfirmCommit, At, AuthInv, TypeOK, Reliable, Relies, Confirming
  <2>5. user'.password = user.password + 1
    BY <2>4, <1>i DEF AuthInv, TypeOK
  <2>6. ASSUME NEW q \in Request PROVE Wins(request[q])'
    <3>1. CASE q = r
      <4>1. request'[r] = IF k.purpose = "reset" THEN Idle
                          ELSE [Idle EXCEPT !.pc = "issue", !.purpose = "change",
                                            !.won = user.password + 1]
        BY <1>2, <1>i, BecomesLocal DEF ConfirmCommit
      <4> QED BY <3>1, <4>1, <2>5 DEF Wins, Idle
    <3>2. CASE q # r
      <4>1. request'[q] = request[q]
        BY <1>2, <1>i, <3>2, OthersKept DEF ConfirmStep
      <4>2. request[q].pc = "issue" => request[q].won = 0
        BY <2>1 DEF SignInsApart, At
      <4> QED BY <4>1, <4>2 DEF Wins
    <3> QED BY <3>1, <3>2
  <2> QED BY <1>i, <2>3, <2>6 DEF CurrentInv
<1>3. CASE ~Register /\ \A r \in Request : ~ConfirmCommit(r)
  <2>1. user # None => user' # None /\ user'.password = user.password
    <3>1. CASE UNCHANGED user
      BY <3>1
    <3>2. CASE \E r \in Request : VerifyUser(r)
      <4>1. user' = [user EXCEPT !.verified = TRUE]
        BY <3>2 DEF VerifyUser
      <4>2. user # None => user \in [password : Nat, verified : BOOLEAN]
        BY <1>i, AuthAssumption DEF AuthInv, TypeOK
      <4>3. user # None => /\ user' \in [password : Nat, verified : BOOLEAN]
                           /\ user'.password = user.password
        BY <4>1, <4>2
      <4> QED BY <4>3, AuthAssumption
    <3>3. UNCHANGED user \/ \E r \in Request : VerifyUser(r)
      <4>1. ASSUME NEW r \in Request, SessionStep(r) PROVE UNCHANGED user
        BY <4>1 DEF SessionStep, Login, Issue, Refresh, Rotate, RevokeAll, RevokeAllRow,
                    ReuseCommit, Logout
      <4>2. ASSUME NEW r \in Request, CodeStep(r) PROVE UNCHANGED user \/ VerifyUser(r)
        BY <4>2 DEF CodeStep, VerifyEmail, RequestCode, RequestCodeBegin, RevokeCodes,
                    RevokeCodesRow, RevokeCodesDone, RequestCodeInsert
      <4>3. ASSUME NEW r \in Request, ConfirmStep(r) PROVE UNCHANGED user \/ ConfirmCommit(r)
        BY <4>3 DEF ConfirmStep, Confirm, ConfirmSelect, Attempt, WrongCode
      <4>4. ASSUME NEW r \in Request, Victim(r) \/ Crash(r) PROVE UNCHANGED user
        BY <4>4 DEF Victim, Crash
      <4>5. Elapse => UNCHANGED user
        BY DEF Elapse
      <4> QED BY <1>3, <4>1, <4>2, <4>3, <4>4, <4>5 DEF Next
    <3> QED BY <3>1, <3>2, <3>3
  <2>2. \A r \in Request : request[r].pc # "idle" => user # None
    BY <1>i DEF AuthInv, Reliable, Relies, Idle
  <2>3. \A s \in LiveSessions : user # None
    BY <1>i, <1>s DEF AuthInv, UserFirst
  <2>4. ASSUME NEW s \in LiveSessions' PROVE origin'[s].won \in {0, user'.password}
    <3>1. CASE s \in LiveSessions
      BY <1>s, <2>1, <2>3, <3>1 DEF CurrentInv, CurrentPassword
    <3>2. ASSUME NEW r \in Request, Issue(r), origin'[s].won = request[r].won
          PROVE  origin'[s].won \in {0, user'.password}
      BY <2>1, <2>2, <3>2 DEF Issue, At, CurrentInv, Wins
    <3>3. ASSUME NEW r \in Request, request[r].own \in LiveSessions,
                 origin'[s].won = origin[request[r].own].won
          PROVE  origin'[s].won \in {0, user'.password}
      BY <2>1, <2>3, <3>3 DEF CurrentInv, CurrentPassword
    <3> QED BY <1>i, <3>1, <3>2, <3>3, SessionsBegin
  <2>5. ASSUME NEW q \in Request PROVE Wins(request[q])'
    <3>1. CASE request'[q] = request[q]
      BY <2>1, <2>2, <3>1 DEF CurrentInv, Wins
    <3>2. CASE request'[q] # request[q] /\ request'[q].pc = "issue"
      <4>1. CASE Login(q)
        <5>1. request'[q].won = user.password /\ user # None
          BY <1>i, <4>1, BecomesLocal DEF Login, Calls, Idle
        <5> QED BY <2>1, <5>1 DEF Wins
      <4>2. CASE VerifyUser(q)
        <5>1. request'[q].won = 0
          BY <1>i, <4>2, BecomesLocal DEF VerifyUser, Idle
        <5> QED BY <5>1 DEF Wins
      <4> QED BY <1>3, <1>i, <3>2, <4>1, <4>2, Arrivals
    <3>3. CASE request'[q].pc # "issue"
      BY <3>3 DEF Wins
    <3> QED BY <3>1, <3>2, <3>3
  <2> QED BY <1>i, <2>4, <2>5 DEF CurrentInv, CurrentPassword
<1> QED BY <1>1, <1>2, <1>3

LEMMA CurrentInit == Init => CurrentInv
<1>1. Init => \A r \in Request : request[r].pc = "idle"
  BY DEF Init, Idle
<1>2. Init => LiveSessions = {}
  BY DEF Init, LiveSessions
<1> QED BY <1>1, <1>2, InvInit DEF CurrentInv, Wins, CurrentPassword

LEMMA CurrentStutter == CurrentInv /\ UNCHANGED vars => CurrentInv'
<1> SUFFICES ASSUME CurrentInv, UNCHANGED vars PROVE CurrentInv'
  OBVIOUS
<1>1. AuthInv'
  BY InvNext DEF CurrentInv
<1> QED BY <1>1 DEF CurrentInv, vars, Wins, CurrentPassword, LiveSessions

\* Only the current password opens a session (CurrentPassword), as long as no
\* sign-in is between the check of its password and its session when a new
\* password commits.
THEOREM CurrentPasswordOpens == Spec /\ []SignInsApart => []CurrentPassword
<1>1. CurrentInv /\ SignInsApart /\ [Next]_vars => CurrentInv'
  BY CurrentStep, CurrentStutter
<1>2. CurrentInv => CurrentPassword
  BY DEF CurrentInv
<1> QED BY <1>1, <1>2, CurrentInit, PTL DEF Spec
-----------------------------------------------------------------------------
(* A token presented twice.                                                *)

\* A request that has detected a reuse has the session that was presented, and
\* from its snapshot on every live session of the family, or will have it.
ReuseKnows(l) ==
    /\ l.pc \in {"reuse", "reuseRows"} => l.own \in l.session
    /\ l.pc = "reuseRows" =>
          \A s \in LiveSessions : origin[s].root = origin[l.own].root => s \in l.todo \cup l.session

ReuseInv == FamilyInv /\ \A r \in Request : ReuseKnows(request[r])

\* The overlap: a rotation that has locked its session before the reuse takes
\* its snapshot, and inserts the replacement after it.
RotationsApart ==
    \A q, r \in Request :
        At(q, "reuseRows") /\ At(r, "rotate")
        => origin[request[r].own].root # origin[request[q].own].root

LEMMA ReuseStep == ASSUME ReuseInv, RotationsApart, Next PROVE ReuseInv'
<1>i. FamilyInv /\ FamilyInv' /\ AuthInv
  BY FamilyInvNext DEF ReuseInv, FamilyInv
<1>s. /\ \A s \in Session : sessions[s] # None => sessions'[s] # None /\ origin'[s] = origin[s]
      /\ \A s \in LiveSessions : s \in Session /\ sessions[s] # None
      /\ \A s \in LiveSessions' : s \in Session
  BY <1>i, SessionsBegin DEF LiveSessions
<1>l. \A q \in Request : /\ request[q] \in Local /\ ReuseKnows(request[q])
                         /\ \A s \in request[q].session : s \in Session /\ sessions[s] # None
  BY <1>i DEF ReuseInv, AuthInv, TypeOK, Reliable, Relies, Local
<1>1. ASSUME NEW q \in Request, request[q].pc = "reuseRows", NEW s \in LiveSessions',
             origin'[s].root = origin'[request[q].own].root
      PROVE  s \in request[q].todo \cup request[q].session
  <2> DEFINE k == request[q]
  <2>1. k.own \in Session /\ sessions[k.own] # None /\ origin'[k.own] = origin[k.own]
    BY <1>1, <1>l, <1>s DEF ReuseKnows
  <2>2. CASE s \in LiveSessions
    BY <1>1, <1>l, <1>s, <2>1, <2>2 DEF ReuseKnows
  <2>3. ASSUME sessions[s] = None, origin'[s].root = s PROVE FALSE
    <3>1. origin[k.own] # None /\ origin[origin[k.own].root] # None
      BY <1>i, <2>1 DEF AuthInv, Lineage, FamilyInv, Rooted
    <3> QED BY <1>1, <1>i, <1>s, <2>1, <2>3, <3>1 DEF AuthInv, Lineage
  <2>4. ASSUME NEW r \in Request, Rotate(r), request[r].own \in LiveSessions,
               origin'[s].root = origin[request[r].own].root
        PROVE  FALSE
    BY <1>1, <2>1, <2>4 DEF RotationsApart, At, Rotate
  <2> QED BY <1>i, <1>1, <2>2, <2>3, <2>4, SessionsBegin
<1>2. ASSUME NEW q \in Request PROVE ReuseKnows(request[q])'
  <2> DEFINE k == request[q]
  <2>1. CASE request'[q] = k
    BY <1>1, <1>l, <2>1 DEF ReuseKnows
  <2>2. CASE Refresh(q) /\ request'[q] # k
    <3>1. \E s \in Session, pc \in {"reuse", "rotate"} :
             request'[q] = [Idle EXCEPT !.pc = pc, !.session = {s}, !.own = s]
      BY <1>i, <2>2, BecomesLocal DEF Refresh
    <3> QED BY <3>1 DEF ReuseKnows, Idle
  <2>3. CASE RevokeAll(q)
    <3>1. /\ request'[q].own = k.own /\ request'[q].session = k.session
          /\ request'[q].todo = LiveSessions
          /\ request'[q].pc = IF k.pc = "reuse" THEN "reuseRows" ELSE "rightRows"
      <4>1. request'[q] = [k EXCEPT !.pc = IF @ = "reuse" THEN "reuseRows" ELSE "rightRows",
                                    !.todo = LiveSessions]
        BY <1>i, <2>3, BecomesLocal DEF RevokeAll
      <4>2. k \in Local
        BY <1>l
      <4> HIDE DEF k
      <4> QED BY <4>1, <4>2 DEF Local
    <3>2. LiveSessions' = LiveSessions
      BY <2>3 DEF RevokeAll, LiveSessions
    <3> QED BY <1>l, <3>1, <3>2 DEF ReuseKnows
  <2>4. CASE RevokeAllRow(q)
    <3>1. PICK s \in k.todo :
            Become(q, [k EXCEPT !.todo = @ \ {s},
                                !.session = IF s \in LiveSessions THEN @ \cup {s} ELSE @])
      BY <2>4 DEF RevokeAllRow
    <3>2. /\ request'[q].own = k.own /\ request'[q].pc = k.pc
          /\ request'[q].todo = k.todo \ {s}
          /\ request'[q].session = IF s \in LiveSessions THEN k.session \cup {s} ELSE k.session
      BY <1>i, <1>l, <3>1, BecomesLocal DEF Local
    <3>3. LiveSessions' = LiveSessions
      BY <2>4 DEF RevokeAllRow, LiveSessions
    <3> QED BY <1>1, <1>l, <3>2, <3>3 DEF ReuseKnows
  <2>5. CASE request'[q].pc \notin {"reuse", "reuseRows"}
    BY <2>5 DEF ReuseKnows
  <2> QED BY <1>i, <2>1, <2>2, <2>3, <2>4, <2>5, Arrivals
<1> QED BY <1>i, <1>2 DEF ReuseInv

LEMMA ReuseInit == Init => ReuseInv
<1>1. Init => \A r \in Request : request[r].pc = "idle"
  BY DEF Init, Idle
<1> QED BY <1>1, FamilyInit DEF ReuseInv, ReuseKnows

LEMMA ReuseStutter == ReuseInv /\ UNCHANGED vars => ReuseInv'
<1> SUFFICES ASSUME ReuseInv, UNCHANGED vars PROVE ReuseInv'
  OBVIOUS
<1>1. FamilyInv'
  BY FamilyInvNext DEF ReuseInv
<1> QED BY <1>1 DEF ReuseInv, vars, ReuseKnows, LiveSessions

LEMMA FamilyEnds == ASSUME ReuseInv, NEW r \in Request PROVE EndsFamily(r)
<1> SUFFICES ASSUME ReuseCommit(r), NEW s \in LiveSessions'
             PROVE  origin'[s].root # origin[request[r].own].root
  BY DEF EndsFamily
<1>1. /\ ReuseKnows(request[r]) /\ request[r] \in Local
      /\ request[r].pc = "reuseRows" /\ request[r].todo = {}
      /\ \A t \in request[r].session : sessions[t] # None
  BY DEF ReuseInv, FamilyInv, AuthInv, TypeOK, Reliable, Relies, ReuseCommit, At
<1>2. LiveSessions' = LiveSessions \ request[r].session /\ origin' = origin
  BY <1>1, EndSessions DEF ReuseInv, FamilyInv, ReuseCommit, Local
<1> QED BY <1>1, <1>2 DEF ReuseKnows

\* When the reuse of a rotated token is detected, all that followed it are dead
\* (ReuseEndsFamily), as long as no rotation in the family is under way between
\* the snapshot of the revocation and its commit.
THEOREM ReusedFamiliesEnd == Spec /\ []RotationsApart => ReuseEndsFamily
<1>1. ReuseInv /\ RotationsApart /\ [Next]_vars => ReuseInv'
  BY ReuseStep, ReuseStutter
<1>2. ReuseInv /\ [Next]_vars => [\A r \in Request : EndsFamily(r)]_vars
  BY FamilyEnds
<1> QED BY <1>1, <1>2, ReuseInit, PTL DEF Spec, ReuseEndsFamily

-----------------------------------------------------------------------------
(* Requests that come one after the other, the behaviours of MCAuthProgress  *)
(* with `alone'.                                                           *)

\* Only r1 is ever on its way, so that none of the overlaps happens.
Overlaps == ~AskingApart \/ ~SignInsApart \/ ~RotationsApart

LEMMA AloneApart == MCSpec => [](alone => ~Overlaps)
<1>1. MCInit => ~Overlaps
  BY DEF MCInit, Init, Idle, At, Overlaps, AskingApart, SignInsApart, RotationsApart
<1>2. MCNext => (alone => ~Overlaps)'
  BY DEF MCNext, Busy, At, Overlaps, AskingApart, SignInsApart, RotationsApart
<1>3. (alone => ~Overlaps) /\ UNCHANGED <<vars, alone>> => (alone => ~Overlaps)'
  BY DEF vars, At, Overlaps, AskingApart, SignInsApart, RotationsApart
<1> QED BY <1>1, <1>2, <1>3, PTL DEF MCSpec

\* The flag never changes, and hiding it leaves a behaviour of Auth.
LEMMA AloneForever == MCSpec => Spec /\ ([]alone \/ []~alone)
<1>1. MCInit => Init
  BY DEF MCInit
<1>2. [MCNext]_<<vars, alone>> => [Next]_vars
  BY DEF MCNext, vars
<1>3. [MCNext]_<<vars, alone>> => (alone' <=> alone)
  BY DEF MCNext
<1> QED BY <1>1, <1>2, <1>3, PTL DEF MCSpec, Spec

\* Requests one after the other leave one code of a kind that can be used
\* (SerialOneLiveCode), for any number of challenges and sessions.
THEOREM SerialCodesReplaced == MCSpec => []SerialOneLiveCode
<1>1. ~Overlaps => AskingApart
  BY DEF Overlaps
<1>2. SerialOneLiveCode <=> (alone => OneLiveCode)
  BY DEF SerialOneLiveCode
<1> QED BY <1>1, <1>2, AloneApart, AloneForever, OneCodeRemains, PTL

\* Requests one after the other open no session with an old password
\* (SerialCurrentPassword).
THEOREM SerialPasswordsCurrent == MCSpec => []SerialCurrentPassword
<1>1. ~Overlaps => SignInsApart
  BY DEF Overlaps
<1>2. SerialCurrentPassword <=> (alone => CurrentPassword)
  BY DEF SerialCurrentPassword
<1> QED BY <1>1, <1>2, AloneApart, AloneForever, CurrentPasswordOpens, PTL

\* With requests one after the other, the reuse of a token ends its family
\* (SerialReuseEndsFamily).
THEOREM SerialReusedFamiliesEnd == MCSpec => SerialReuseEndsFamily
<1>1. ~Overlaps => RotationsApart
  BY DEF Overlaps
<1>2. alone /\ [\A r \in Request : EndsFamily(r)]_vars
        => [alone => \A r \in Request : EndsFamily(r)]_vars
  OBVIOUS
<1>3. ~alone => [alone => \A r \in Request : EndsFamily(r)]_vars
  OBVIOUS
<1> QED BY <1>1, <1>2, <1>3, AloneApart, AloneForever, ReusedFamiliesEnd, PTL
        DEF SerialReuseEndsFamily, ReuseEndsFamily
=============================================================================
