--------------------------- MODULE ImportsProofs ---------------------------
(* The types of Imports, and what it promises about transactions, about    *)
(* the decisions of the user and about the flag of the connection, for any *)
(* mailbox, any accounts and any number of requests and syncs.             *)
EXTENDS Imports, FiniteSetTheorems, TLAPS

-----------------------------------------------------------------------------
(* Invariants.                                                             *)

\* Whatever a parser could read has a merchant.
MerchantsKnown == \A m \in Recorded : Parsed(m) => imports[m].merchant \in Merchant

\* What a task knows of its locals where it uses them; R are the messages that
\* have an import.
Prepared(q, R) ==
    /\ q.pc = "approve.commit" =>
          /\ q.id \in R /\ Parsed(q.id) /\ q.account \in Account
          /\ q.original \in Merchant /\ q.merchant \in Merchant
    /\ \/ q.pc = "approve_ready.next"
       \/ q.pc = "approve.commit" /\ q.then = "approve_ready.next"
       => q.queue \subseteq R
    /\ q.pc \in {"link.update", "link.card", "link.default"} => q.id \in R /\ q.account \in Account
    /\ q.pc \in {"recompute.predict", "recompute.write"} =>
          \A m \in q.queue : q.rows[m] \in Row /\ q.rows[m].merchant \in Merchant
    /\ q.pc = "recompute.write" => q.id \in Message /\ q.predicted \in Prediction
    /\ q.pc = "delete_account.delete" => q.account \in Account
    /\ q.pc \in {"sync.process", "sync.insert"} => q.id \in Message
    /\ q.pc = "sync.insert" /\ Parsed(q.id) => q.predicted \in Prediction
    /\ q.pc = "sync.approve" => q.id \in R /\ Parsed(q.id) /\ q.predicted \in Prediction

TablesOK ==
    /\ imports \in [Message -> Row \cup {None}]
    /\ posted \in [Message -> Nat]
    /\ accounts \subseteq Account
    /\ active \subseteq Account
    /\ learned \in [alias : [Merchant -> Merchant \cup {None}],
                    category : SUBSET Merchant,
                    card : [Card -> Account \cup {None}],
                    default : Account \cup {None}]
    /\ connection \in [syncing : BOOLEAN, auto : BOOLEAN] \cup {None}
    /\ MerchantsKnown

BoundsOK == today \in 0 .. MaxDay /\ failures \in 0 .. MaxFailures /\ deaths \in 0 .. MaxDeaths

TypeInv ==
    /\ TablesOK
    /\ BoundsOK
    /\ task \in [Task -> Locals]
    /\ \A t \in Task : Prepared(task[t], Recorded)

LEMMA TypeInvTypes == TypeInv => TypeOK
BY DEF TypeInv, TypeOK, TablesOK, BoundsOK

-----------------------------------------------------------------------------
(* Locals.                                                                 *)

LEMMA IdleLocals == Idle \in Locals /\ \A R : Prepared(Idle, R)
BY DEF Idle, Locals, Prepared, Step

\* The locals of a task one at a time.
LEMMA Fields ==
    ASSUME NEW q \in Locals
    PROVE  /\ \A v \in Step : [q EXCEPT !.pc = v] \in Locals
           /\ \A v \in {"idle", "recompute.read", "approve_ready.next", "sync.next"} :
                 [q EXCEPT !.then = v] \in Locals
           /\ \A v \in Message \cup {None} : [q EXCEPT !.id = v] \in Locals
           /\ \A v \in Account \cup {None} : [q EXCEPT !.account = v] \in Locals
           /\ \A v \in Merchant \cup {None} : [q EXCEPT !.original = v] \in Locals
           /\ \A v \in Merchant \cup {None} : [q EXCEPT !.merchant = v] \in Locals
           /\ \A v \in BOOLEAN : [q EXCEPT !.ready = v] \in Locals
           /\ \A v \in BOOLEAN : [q EXCEPT !.unique = v] \in Locals
           /\ \A v \in SUBSET Message : [q EXCEPT !.queue = v] \in Locals
           /\ \A v \in [Message -> Row \cup {None}] : [q EXCEPT !.rows = v] \in Locals
           /\ \A v \in Prediction \cup {None} : [q EXCEPT !.predicted = v] \in Locals
           /\ \A v \in BOOLEAN : [q EXCEPT !.auto = v] \in Locals
BY DEF Locals

LEMMA PreparedGrows ==
    ASSUME NEW q, NEW R, NEW Q, Prepared(q, R), R \subseteq Q PROVE Prepared(q, Q)
BY DEF Prepared

\* A step of task t keeps the types if the tables and its new record are well
\* formed and no import disappears.
LEMMA SetTask ==
    ASSUME TypeInv, TablesOK', BoundsOK', Recorded \subseteq Recorded',
           NEW t \in Task, NEW q \in Locals, Prepared(q, Recorded'), Become(t, q)
    PROVE  TypeInv'
<1>1. task' = [task EXCEPT ![t] = q]
  BY DEF Become
<1>2. task' \in [Task -> Locals]
  BY <1>1 DEF TypeInv
<1>3. ASSUME NEW u \in Task PROVE Prepared(task[u], Recorded)'
  <2>1. CASE u = t
    BY <2>1, <1>1 DEF TypeInv, Prepared, Parsed
  <2>2. CASE u # t
    <3>1. task'[u] = task[u] /\ Prepared(task[u], Recorded)
      BY <1>1, <2>2 DEF TypeInv
    <3>2. Prepared(task[u], Recorded')
      BY <3>1, PreparedGrows
    <3> QED BY <3>1, <3>2 DEF Prepared, Parsed
  <2> QED BY <2>1, <2>2
<1> QED BY <1>2, <1>3 DEF TypeInv

LEMMA SameTables ==
    ASSUME TypeInv, UNCHANGED tables PROVE TablesOK' /\ Recorded' = Recorded
BY DEF TypeInv, TablesOK, tables, MerchantsKnown, Recorded, Parsed

LEMMA SameBounds ==
    ASSUME TypeInv, UNCHANGED outside PROVE BoundsOK'
BY DEF TypeInv, BoundsOK, outside

LEMMA LocalsOf == ASSUME TypeInv, NEW t \in Task
                  PROVE task[t] \in Locals /\ Prepared(task[t], Recorded)
BY DEF TypeInv

LEMMA Returns ==
    ASSUME TypeInv, TablesOK', BoundsOK', Recorded \subseteq Recorded',
           NEW t \in Task, Return(t)
    PROVE  TypeInv'
<1>1. Become(t, Idle)
  BY DEF Return
<1> QED BY <1>1, IdleLocals, SetTask

LEMMA RecordedRows ==
    ASSUME TypeInv, NEW m \in Recorded PROVE m \in Message /\ imports[m] \in Row
BY DEF TypeInv, TablesOK, Recorded

\* A row is inserted or changed.
LEMMA RowWritten ==
    ASSUME TypeInv, NEW m \in Message, NEW row \in Row, Parsed(m) => row.merchant \in Merchant,
           imports' = [imports EXCEPT ![m] = row]
    PROVE  /\ imports' \in [Message -> Row \cup {None}]
           /\ Recorded' = Recorded \cup {m}
           /\ MerchantsKnown'
<1>1. imports' \in [Message -> Row \cup {None}]
  BY DEF TypeInv, TablesOK
<1>2. \A n \in Message : imports'[n] = IF n = m THEN row ELSE imports[n]
  BY DEF TypeInv, TablesOK
<1>3. Recorded' = Recorded \cup {m}
  BY <1>2, MailAssumption DEF Recorded
<1>4. MerchantsKnown'
  BY <1>2, <1>3 DEF MerchantsKnown, TypeInv, TablesOK, Recorded, Parsed
<1> QED BY <1>1, <1>3, <1>4

LEMMA RowChanged ==
    ASSUME TypeInv, NEW m \in Recorded, NEW row \in Row, Parsed(m) => row.merchant \in Merchant,
           imports' = [imports EXCEPT ![m] = row]
    PROVE  /\ imports' \in [Message -> Row \cup {None}]
           /\ Recorded' = Recorded
           /\ MerchantsKnown'
<1>1. m \in Message
  BY RecordedRows
<1>2. /\ imports' \in [Message -> Row \cup {None}]
      /\ Recorded' = Recorded \cup {m}
      /\ MerchantsKnown'
  BY ONLY TypeInv, <1>1, row \in Row, Parsed(m) => row.merchant \in Merchant,
     imports' = [imports EXCEPT ![m] = row], RowWritten
<1> QED BY <1>2

\* A step that only changes what its task knows.
LEMMA TaskOnly ==
    ASSUME TypeInv, UNCHANGED <<tables, outside>>, NEW t \in Task, NEW q \in Locals,
           Prepared(q, Recorded), Become(t, q)
    PROVE  TypeInv'
<1>1. TablesOK' /\ Recorded' = Recorded /\ BoundsOK'
  BY SameTables, SameBounds
<1> QED BY <1>1, SetTask

-----------------------------------------------------------------------------
(* Predictions.                                                            *)

LEMMA SuggestionTypes ==
    ASSUME TypeInv, NEW m \in Message, NEW kept \in accounts \cup {None}
    PROVE  Suggestion(m, kept).account \in Account \cup {None}
<1>1. accounts \subseteq Account /\ learned.default \in Account \cup {None}
  BY DEF TypeInv, TablesOK
<1>2. Mapped(m) \in Account \cup {None}
  BY MailAssumption DEF Mapped, TypeInv, TablesOK
<1>3. Cardinality(accounts) = 1 => (CHOOSE a \in accounts : TRUE) \in accounts
  <2>1. Cardinality(accounts) = 1 => accounts # {}
    BY FS_EmptySet
  <2> QED BY <2>1
<1> QED BY <1>1, <1>2, <1>3 DEF Suggestion

LEMMA ResolveTypes ==
    ASSUME TypeInv, NEW merchant \in Merchant PROVE Resolve(merchant) \in Merchant
BY DEF Resolve, Known, TypeInv, TablesOK

LEMMA PredictTypes ==
    ASSUME TypeInv, NEW m \in Message, NEW merchant \in Merchant,
           NEW kept \in accounts \cup {None}
    PROVE  Predict(m, merchant, kept) \in Prediction
<1> DEFINE score == 10 + Points(CardOf[m] # None, 10, 0) + Points(Known(merchant), 10, 0)
                    + Points(Resolve(merchant) \in learned.category, 10, 4)
                    + Suggestion(m, kept).score
<1> HIDE DEF score
<1>1. Predict(m, merchant, kept) =
         [merchant |-> Resolve(merchant), account |-> Suggestion(m, kept).account,
          confirmed |-> kept # None,
          ready |-> Suggestion(m, kept).account # None /\ score >= 60]
  BY DEF Predict, score
<1>2. (Suggestion(m, kept).account # None /\ score >= 60) \in BOOLEAN
  OBVIOUS
<1> QED BY <1>1, <1>2, SuggestionTypes, ResolveTypes DEF Prediction

-----------------------------------------------------------------------------
(* Approval.                                                               *)

\* What the checks of an approval establish.
LEMMA ApprovingTypes ==
    ASSUME TypeInv, NEW q \in Locals, NEW m \in Recorded, NEW account \in Account \cup {None},
           NEW rename \in Merchant \cup {None},
           NEW then \in {"recompute.read", "approve_ready.next", "sync.next"},
           Approvable(m, account),
           then = "approve_ready.next" => q.queue \subseteq Recorded
    PROVE  /\ Approving(q, m, account, rename, then) \in Locals
           /\ Prepared(Approving(q, m, account, rename, then), Recorded)
<1> DEFINE p == Approving(q, m, account, rename, then)
           merchant == IF rename # None THEN rename ELSE imports[m].merchant
<1>1. m \in Message /\ imports[m].merchant \in Merchant /\ Parsed(m)
  BY RecordedRows DEF Approvable, TypeInv, TablesOK, MerchantsKnown
<1>2. Chosen(m, account) \in Account
  BY DEF Approvable, TypeInv, TablesOK
<1>3. merchant \in Merchant
  BY <1>1
<1>4. p = [q EXCEPT !.pc = "approve.commit", !.then = then, !.id = m,
                    !.account = Chosen(m, account), !.original = imports[m].merchant,
                    !.merchant = merchant]
  BY DEF Approving
<1> HIDE DEF merchant, p
<1>5. p \in Locals
  BY <1>1, <1>2, <1>3, <1>4 DEF Locals, Step
<1>6. /\ p.pc = "approve.commit" /\ p.id = m /\ p.account = Chosen(m, account)
      /\ p.original = imports[m].merchant /\ p.merchant = merchant
      /\ p.then = then /\ p.queue = q.queue
  BY <1>4 DEF Locals
<1>7. Prepared(p, Recorded)
  BY <1>1, <1>2, <1>3, <1>6 DEF Prepared
<1> QED BY <1>5, <1>7 DEF p

LEMMA LearnTypes ==
    ASSUME TypeInv, NEW original \in Merchant, NEW merchant \in Merchant,
           NEW card \in Card \cup {None}, NEW a \in Account
    PROVE  Learn(original, merchant, card, a)
              \in [alias : [Merchant -> Merchant \cup {None}], category : SUBSET Merchant,
                   card : [Card -> Account \cup {None}], default : Account \cup {None}]
<1> DEFINE alias == IF original = merchant THEN learned.alias
                    ELSE [learned.alias EXCEPT ![original] = merchant]
           cards == IF card = None THEN learned.card ELSE [learned.card EXCEPT ![card] = a]
<1>1. alias \in [Merchant -> Merchant \cup {None}]
  BY DEF TypeInv, TablesOK
<1>2. cards \in [Card -> Account \cup {None}]
  BY DEF TypeInv, TablesOK
<1>3. learned.category \cup {merchant} \in SUBSET Merchant
  BY DEF TypeInv, TablesOK
<1>4. Learn(original, merchant, card, a) =
         [alias |-> alias, category |-> learned.category \cup {merchant},
          card |-> cards, default |-> a]
  BY DEF Learn
<1> HIDE DEF alias, cards
<1> QED BY <1>1, <1>2, <1>3, <1>4

LEMMA ApproveCommitTypes ==
    ASSUME TypeInv, NEW t \in Task, ApproveCommit(t) PROVE TypeInv'
<1> DEFINE q == task[t]
           m == q.id
           row == [imports[m] EXCEPT !.status = "imported", !.merchant = q.merchant,
                                     !.account = q.account, !.confirmed = TRUE, !.ready = TRUE]
           p == [q EXCEPT !.pc = q.then]
<1>1. /\ q \in Locals /\ Prepared(q, Recorded) /\ q.pc = "approve.commit"
      /\ m \in Recorded /\ m \in Message /\ imports[m] \in Row /\ Parsed(m)
      /\ q.account \in Account /\ q.original \in Merchant /\ q.merchant \in Merchant
  BY LocalsOf, RecordedRows DEF ApproveCommit, At, Prepared
<1>a. q.then \in {"idle", "recompute.read", "approve_ready.next", "sync.next"}
  BY <1>1 DEF Locals
<1>b. p \in Locals
  BY <1>1, <1>a, Fields DEF Step
<1>c. p.pc = q.then /\ p.then = q.then /\ p.queue = q.queue
  BY <1>1 DEF Locals
<1>d. Prepared(p, Recorded)
  BY <1>1, <1>a, <1>c DEF Prepared
<1>2. p \in Locals /\ Prepared(p, Recorded)
  BY <1>b, <1>d
<1>3. BoundsOK'
  BY SameBounds DEF ApproveCommit
<1> HIDE DEF p
<1>4. CASE q.account \in accounts
  <2>1. /\ posted' = [posted EXCEPT ![m] = @ + 1]
        /\ imports' = [imports EXCEPT ![m] = row]
        /\ active' = active \cup {q.account}
        /\ learned' = Learn(q.original, q.merchant, CardOf[m], q.account)
        /\ Become(t, p) /\ UNCHANGED <<accounts, connection>>
    BY <1>4 DEF ApproveCommit, p
  <2>2. row \in Row /\ row.merchant = q.merchant
    BY <1>1 DEF Row, Status
  <2>3. learned' \in [alias : [Merchant -> Merchant \cup {None}], category : SUBSET Merchant,
                      card : [Card -> Account \cup {None}], default : Account \cup {None}]
    BY <1>1, <2>1, LearnTypes, MailAssumption
  <2> HIDE DEF row
  <2>4. /\ posted' \in [Message -> Nat]
        /\ accounts' \subseteq Account /\ active' \subseteq Account
        /\ connection' \in [syncing : BOOLEAN, auto : BOOLEAN] \cup {None}
    BY <1>1, <2>1 DEF TypeInv, TablesOK
  <2>5. /\ Recorded' = Recorded /\ MerchantsKnown'
        /\ imports' \in [Message -> Row \cup {None}]
    BY <1>1, <2>1, <2>2, RowChanged
  <2>7. TablesOK'
    BY <2>3, <2>4, <2>5 DEF TablesOK
  <2> QED BY <1>2, <1>3, <2>1, <2>5, <2>7, SetTask
<1>5. CASE q.account \notin accounts
  <2>1. UNCHANGED tables
    BY <1>5 DEF ApproveCommit, tables
  <2>2. CASE q.then = "recompute.read"
    BY <1>3, <1>5, <2>1, <2>2, Returns, SameTables DEF ApproveCommit, Return
  <2>3. CASE q.then # "recompute.read"
    <3>1. Become(t, p)
      BY <1>5, <2>3 DEF ApproveCommit, p
    <3> QED BY <1>2, <1>3, <2>1, <3>1, SetTask, SameTables
  <2> QED BY <2>2, <2>3
<1> QED BY <1>4, <1>5

-----------------------------------------------------------------------------
(* Review.                                                                 *)

LEMMA ApproveTypes ==
    ASSUME TypeInv, NEW r \in Request, Approve(r) PROVE TypeInv'
<1>1. PICK m \in Recorded, account \in accounts \cup {None}, rename \in Renames \cup {None} :
         /\ Approvable(m, account)
         /\ Become(r, Approving(Idle, m, account, rename, "recompute.read"))
  BY DEF Approve
<1>2. account \in Account \cup {None} /\ rename \in Merchant \cup {None}
  BY MailAssumption DEF TypeInv, TablesOK
<1>3. /\ Approving(Idle, m, account, rename, "recompute.read") \in Locals
      /\ Prepared(Approving(Idle, m, account, rename, "recompute.read"), Recorded)
  BY <1>1, <1>2, IdleLocals, ApprovingTypes
<1>4. r \in Task /\ UNCHANGED <<tables, outside>>
  BY DEF Task, Approve
<1> QED BY <1>1, <1>3, <1>4, TaskOnly

LEMMA ReadyRecorded == Ready \subseteq Recorded /\ Recorded \subseteq Message
BY DEF Ready, Pending, Recorded

LEMMA ApproveReadyTypes ==
    ASSUME TypeInv, NEW r \in Request, ApproveReady(r) PROVE TypeInv'
<1> DEFINE q == [Idle EXCEPT !.pc = "approve_ready.next", !.queue = Ready]
<1>1. q \in Locals /\ Prepared(q, Recorded)
  BY IdleLocals, ReadyRecorded DEF Idle, Locals, Step, Prepared
<1>2. r \in Task /\ UNCHANGED <<tables, outside>> /\ Become(r, q)
  BY DEF Task, ApproveReady
<1> QED BY <1>1, <1>2, TaskOnly

LEMMA ApproveReadyNextTypes ==
    ASSUME TypeInv, NEW r \in Request, ApproveReadyNext(r) PROVE TypeInv'
<1> DEFINE q == task[r]
<1>1. /\ r \in Task /\ UNCHANGED <<tables, outside>> /\ q \in Locals
      /\ q.pc = "approve_ready.next" /\ q.queue \subseteq Recorded
  BY LocalsOf DEF Task, ApproveReadyNext, At, Prepared
<1>2. CASE q.queue = {} /\ Become(r, [q EXCEPT !.pc = "recompute.read"])
  <2>1. [q EXCEPT !.pc = "recompute.read"] \in Locals
    BY <1>1, Fields DEF Step
  <2>2. Prepared([q EXCEPT !.pc = "recompute.read"], Recorded)
    BY <1>1 DEF Prepared, Locals
  <2> QED BY <1>1, <1>2, <2>1, <2>2, TaskOnly
<1>3. ASSUME NEW m \in q.queue,
             Become(r, IF Approvable(m, None)
                       THEN Approving([q EXCEPT !.queue = q.queue \ {m}], m, None, None,
                                      "approve_ready.next")
                       ELSE [q EXCEPT !.queue = q.queue \ {m}])
      PROVE  TypeInv'
  <2> DEFINE rest == [q EXCEPT !.queue = q.queue \ {m}]
  <2>1. rest \in Locals /\ rest.queue \subseteq Recorded
    BY <1>1, ReadyRecorded DEF Locals
  <2>2. Prepared(rest, Recorded)
    BY <1>1, <2>1 DEF Prepared, Locals
  <2> HIDE DEF rest
  <2>3. CASE Approvable(m, None)
    <3>1. /\ Approving(rest, m, None, None, "approve_ready.next") \in Locals
          /\ Prepared(Approving(rest, m, None, None, "approve_ready.next"), Recorded)
      BY <1>1, <2>1, <2>3, ApprovingTypes
    <3> QED BY <1>1, <1>3, <2>3, <3>1, TaskOnly DEF rest
  <2>4. CASE ~Approvable(m, None)
    BY <1>1, <1>3, <2>1, <2>2, <2>4, TaskOnly DEF rest
  <2> QED BY <2>3, <2>4
<1> QED BY <1>2, <1>3 DEF ApproveReadyNext

LEMMA RejectTypes ==
    ASSUME TypeInv, NEW r \in Request, Reject(r) PROVE TypeInv'
<1>1. PICK m \in Recorded : imports' = [imports EXCEPT ![m].status = "ignored"]
  BY DEF Reject
<1> DEFINE row == [imports[m] EXCEPT !.status = "ignored"]
<1>2. m \in Message /\ imports[m] \in Row
  BY RecordedRows
<1>3. row \in Row /\ (Parsed(m) => row.merchant \in Merchant)
  BY <1>2 DEF Row, Status, TypeInv, TablesOK, MerchantsKnown
<1>4. imports' = [imports EXCEPT ![m] = row]
  BY <1>1
<1> HIDE DEF row
<1>5. /\ imports' \in [Message -> Row \cup {None}] /\ Recorded' = Recorded /\ MerchantsKnown'
  BY <1>3, <1>4, RowChanged
<1>6. UNCHANGED <<posted, accounts, active, learned, connection, task, outside>>
  BY DEF Reject
<1>7. TablesOK' /\ BoundsOK'
  BY <1>5, <1>6, SameBounds DEF TypeInv, TablesOK
<1> QED BY <1>5, <1>6, <1>7 DEF TypeInv, Prepared, Parsed

LEMMA LinkTypes ==
    ASSUME TypeInv, NEW r \in Request, Link(r) PROVE TypeInv'
<1>1. PICK m \in Recorded, a \in accounts :
         Become(r, [Idle EXCEPT !.pc = "link.update", !.id = m, !.account = a,
                                !.ready = m \in Pending])
  BY DEF Link
<1> DEFINE ready == m \in Pending
           q == [Idle EXCEPT !.pc = "link.update", !.id = m, !.account = a, !.ready = ready]
<1>2. m \in Message /\ a \in Account /\ ready \in BOOLEAN
  BY RecordedRows DEF TypeInv, TablesOK
<1> HIDE DEF ready
<1>3. q \in Locals
  BY <1>2, IdleLocals DEF Locals, Step
<1>4. q.pc = "link.update" /\ q.then = "idle" /\ q.id = m /\ q.account = a
  BY DEF Idle
<1>5. Prepared(q, Recorded)
  BY <1>2, <1>4 DEF Prepared
<1>6. r \in Task /\ UNCHANGED <<tables, outside>> /\ Become(r, q)
  BY <1>1 DEF Task, Link, ready
<1> QED BY <1>3, <1>5, <1>6, TaskOnly

\* The next statement of a link.
LEMMA LinkGoesOn ==
    ASSUME TypeInv, NEW q \in Locals, Prepared(q, Recorded),
           q.pc \in {"link.update", "link.card"}, NEW pc \in {"link.card", "link.default"}
    PROVE  [q EXCEPT !.pc = pc] \in Locals /\ Prepared([q EXCEPT !.pc = pc], Recorded)
<1> DEFINE p == [q EXCEPT !.pc = pc]
<1>1. p \in Locals
  BY Fields DEF Step
<1>2. p.pc = pc /\ p.then = q.then /\ p.id = q.id /\ p.account = q.account /\ p.queue = q.queue
  BY DEF Locals
<1>3. Prepared(p, Recorded)
  BY <1>2 DEF Prepared
<1> QED BY <1>1, <1>3

LEMMA LinkUpdateTypes ==
    ASSUME TypeInv, NEW r \in Request, LinkUpdate(r) PROVE TypeInv'
<1> DEFINE q == task[r]
           m == q.id
           row == [imports[m] EXCEPT !.account = q.account, !.confirmed = TRUE, !.ready = q.ready]
           pc == IF CardOf[m] # None THEN "link.card" ELSE "link.default"
           p == [q EXCEPT !.pc = pc]
<1>1. /\ r \in Task /\ q \in Locals /\ Prepared(q, Recorded) /\ q.pc = "link.update"
      /\ m \in Recorded /\ q.account \in Account /\ imports[m] \in Row /\ m \in Message
  BY LocalsOf, RecordedRows DEF Task, LinkUpdate, At, Prepared
<1>2. UNCHANGED <<posted, accounts, active, learned, connection>> /\ BoundsOK'
  BY SameBounds DEF LinkUpdate
<1>3. CASE q.account \in accounts
  <2>1. imports' = [imports EXCEPT ![m] = row] /\ Become(r, p)
    BY <1>3 DEF LinkUpdate
  <2>2. q.ready \in BOOLEAN
    BY <1>1 DEF Locals
  <2>3. row \in Row /\ row.merchant = imports[m].merchant
    BY <1>1, <2>2 DEF Row
  <2>4. Parsed(m) => row.merchant \in Merchant
    BY <1>1, <2>3 DEF TypeInv, TablesOK, MerchantsKnown
  <2> HIDE DEF row
  <2>5. imports' \in [Message -> Row \cup {None}] /\ Recorded' = Recorded /\ MerchantsKnown'
    BY <1>1, <2>1, <2>3, <2>4, RowChanged
  <2>6. TablesOK'
    BY <1>2, <2>5 DEF TypeInv, TablesOK
  <2>7. p \in Locals /\ Prepared(p, Recorded)
    BY <1>1, LinkGoesOn
  <2> QED BY <1>1, <1>2, <2>1, <2>5, <2>6, <2>7, SetTask
<1>4. CASE q.account \notin accounts
  BY <1>1, <1>2, <1>4, SameTables, Returns DEF LinkUpdate, tables
<1> QED BY <1>3, <1>4

\* Only what was learned changes.
LEMMA LearnedTables ==
    ASSUME TypeInv, UNCHANGED <<imports, posted, accounts, active, connection>>,
           learned' \in [alias : [Merchant -> Merchant \cup {None}], category : SUBSET Merchant,
                         card : [Card -> Account \cup {None}], default : Account \cup {None}]
    PROVE  TablesOK' /\ Recorded' = Recorded
BY DEF TypeInv, TablesOK, MerchantsKnown, Recorded, Parsed

LEMMA LinkCardTypes ==
    ASSUME TypeInv, NEW r \in Request, LinkCard(r) PROVE TypeInv'
<1> DEFINE q == task[r]
           p == [q EXCEPT !.pc = "link.default"]
<1>1. /\ r \in Task /\ q \in Locals /\ Prepared(q, Recorded) /\ q.pc = "link.card"
      /\ q.account \in Account
  BY LocalsOf DEF Task, LinkCard, At, Prepared
<1>2. UNCHANGED <<imports, posted, accounts, active, connection>> /\ BoundsOK'
  BY SameBounds DEF LinkCard
<1>3. CASE q.account \in accounts
  <2>1. learned' = [learned EXCEPT !.card[CardOf[q.id]] = q.account] /\ Become(r, p)
    BY <1>3 DEF LinkCard
  <2>2. TablesOK' /\ Recorded' = Recorded
    BY <1>1, <1>2, <2>1, LearnedTables DEF TypeInv, TablesOK
  <2>3. p \in Locals /\ Prepared(p, Recorded)
    BY <1>1, LinkGoesOn
  <2> QED BY <1>1, <1>2, <2>1, <2>2, <2>3, SetTask
<1>4. CASE q.account \notin accounts
  BY <1>1, <1>2, <1>4, SameTables, Returns DEF LinkCard, tables
<1> QED BY <1>3, <1>4

LEMMA LinkDefaultTypes ==
    ASSUME TypeInv, NEW r \in Request, LinkDefault(r) PROVE TypeInv'
<1>1. /\ r \in Task /\ task[r].account \in Account
  BY LocalsOf DEF Task, LinkDefault, At, Prepared
<1>2. UNCHANGED <<imports, posted, accounts, active, connection>> /\ BoundsOK' /\ Return(r)
  BY SameBounds DEF LinkDefault
<1>3. TablesOK' /\ Recorded' = Recorded
  BY <1>1, <1>2, LearnedTables DEF LinkDefault, TypeInv, TablesOK
<1> QED BY <1>1, <1>2, <1>3, Returns

-----------------------------------------------------------------------------
(* Recomputation.                                                          *)

LEMMA RecomputeReadTypes ==
    ASSUME TypeInv, NEW r \in Request, RecomputeRead(r) PROVE TypeInv'
<1> DEFINE todo == {m \in Pending : Parsed(m)}
           rows == [m \in Message |-> IF m \in todo THEN imports[m] ELSE None]
           q == [Idle EXCEPT !.pc = "recompute.predict", !.queue = todo, !.rows = rows]
<1>1. /\ r \in Task /\ UNCHANGED <<tables, outside>>
      /\ Become(r, IF todo = {} THEN Idle ELSE q)
  BY DEF Task, RecomputeRead
<1>2. /\ todo \subseteq Message
      /\ \A m \in todo : m \in Recorded /\ imports[m] \in Row /\ imports[m].merchant \in Merchant
  BY RecordedRows DEF Pending, Recorded, TypeInv, TablesOK, MerchantsKnown
<1>3. rows \in [Message -> Row \cup {None}] /\ \A m \in todo : rows[m] = imports[m]
  BY <1>2
<1> HIDE DEF todo, rows
<1>4. q \in Locals
  BY <1>2, <1>3, IdleLocals DEF Locals, Step
<1>5. q.pc = "recompute.predict" /\ q.then = "idle" /\ q.queue = todo /\ q.rows = rows
  BY DEF Idle
<1>6. Prepared(q, Recorded)
  BY <1>2, <1>3, <1>5 DEF Prepared
<1> HIDE DEF q
<1> QED BY <1>1, <1>4, <1>6, IdleLocals, TaskOnly

LEMMA KeptTypes ==
    ASSUME NEW row \in Row PROVE Kept(row) \in Account \cup {None}
BY DEF Kept, Row

LEMMA RecomputePredictTypes ==
    ASSUME TypeInv, NEW r \in Request, RecomputePredict(r) PROVE TypeInv'
<1> DEFINE q == task[r]
<1>1. /\ r \in Task /\ UNCHANGED <<tables, outside>> /\ q \in Locals /\ Prepared(q, Recorded)
      /\ q.pc = "recompute.predict"
  BY LocalsOf DEF Task, RecomputePredict, At
<1>2. PICK m \in q.queue :
         LET row == q.rows[m] IN
         Become(r, IF Kept(row) \in accounts \cup {None}
                   THEN [q EXCEPT !.pc = "recompute.write", !.id = m, !.queue = q.queue \ {m},
                                  !.predicted = Predict(m, row.merchant, Kept(row))]
                   ELSE Idle)
  BY DEF RecomputePredict
<1> DEFINE row == q.rows[m]
           predicted == Predict(m, row.merchant, Kept(row))
           p == [q EXCEPT !.pc = "recompute.write", !.id = m, !.queue = q.queue \ {m},
                          !.predicted = predicted]
<1>3. m \in Message /\ row \in Row /\ row.merchant \in Merchant
  BY <1>1 DEF Prepared, Locals
<1>4. CASE Kept(row) \in accounts \cup {None}
  <2>1. predicted \in Prediction
    BY <1>3, <1>4, PredictTypes
  <2>2. Become(r, p)
    BY <1>2, <1>4
  <2> HIDE DEF predicted
  <2>3. p \in Locals
    BY <1>1, <1>3, <2>1 DEF Locals, Step
  <2>4. /\ p.pc = "recompute.write" /\ p.id = m /\ p.queue = q.queue \ {m} /\ p.rows = q.rows
        /\ p.predicted = predicted /\ p.then = q.then
    BY <1>1 DEF Locals
  <2>5. Prepared(p, Recorded)
    BY <1>1, <1>3, <2>1, <2>4 DEF Prepared
  <2> HIDE DEF p
  <2> QED BY <1>1, <2>2, <2>3, <2>5, TaskOnly
<1>5. CASE Kept(row) \notin accounts \cup {None}
  BY <1>1, <1>2, <1>5, IdleLocals, TaskOnly
<1> QED BY <1>4, <1>5

LEMMA RecomputeWriteTypes ==
    ASSUME TypeInv, NEW r \in Request, RecomputeWrite(r) PROVE TypeInv'
<1> DEFINE q == task[r]
           p == q.predicted
           row == [imports[q.id] EXCEPT !.merchant = p.merchant, !.account = p.account,
                                        !.confirmed = p.confirmed, !.ready = p.ready]
           more == [q EXCEPT !.pc = "recompute.predict", !.id = None, !.predicted = None]
           next == IF q.queue = {} THEN Idle ELSE more
<1>1. /\ r \in Task /\ q \in Locals /\ Prepared(q, Recorded) /\ q.pc = "recompute.write"
      /\ p \in Prediction /\ q.id \in Message
  BY LocalsOf DEF Task, RecomputeWrite, At, Prepared
<1>2. UNCHANGED <<posted, accounts, active, learned, connection>> /\ BoundsOK'
  BY SameBounds DEF RecomputeWrite
<1>3. more \in Locals
  BY <1>1 DEF Locals, Step
<1>4. /\ more.pc = "recompute.predict" /\ more.then = q.then /\ more.queue = q.queue
      /\ more.rows = q.rows
  BY <1>1 DEF Locals
<1>5. Prepared(more, Recorded)
  BY <1>1, <1>4 DEF Prepared
<1> HIDE DEF more
<1>6. next \in Locals /\ Prepared(next, Recorded)
  BY <1>3, <1>5, IdleLocals
<1>7. CASE UNCHANGED imports /\ (Become(r, next) \/ Return(r))
  BY <1>1, <1>2, <1>6, <1>7, SameTables, SetTask, Returns DEF tables
<1>8. CASE q.id \in Pending /\ imports' = [imports EXCEPT ![q.id] = row] /\ Become(r, next)
  <2>1. q.id \in Recorded /\ imports[q.id] \in Row
    BY <1>8, RecordedRows DEF Pending
  <2>2. row \in Row /\ row.merchant \in Merchant
    BY <1>1, <2>1 DEF Row, Prediction
  <2> HIDE DEF row
  <2>3. imports' \in [Message -> Row \cup {None}] /\ Recorded' = Recorded /\ MerchantsKnown'
    BY <1>8, <2>1, <2>2, RowChanged
  <2>4. TablesOK'
    BY <1>2, <2>3 DEF TypeInv, TablesOK
  <2> QED BY <1>1, <1>2, <1>6, <1>8, <2>3, <2>4, SetTask
<1> QED BY <1>7, <1>8 DEF RecomputeWrite, more

-----------------------------------------------------------------------------
(* Accounts and the connection.                                            *)

LEMMA DeleteAccountTypes ==
    ASSUME TypeInv, NEW r \in Request, DeleteAccount(r) PROVE TypeInv'
<1>1. PICK a \in accounts : Become(r, [Idle EXCEPT !.pc = "delete_account.delete", !.account = a])
  BY DEF DeleteAccount
<1> DEFINE q == [Idle EXCEPT !.pc = "delete_account.delete", !.account = a]
<1>2. a \in Account
  BY DEF TypeInv, TablesOK
<1>3. q \in Locals
  BY <1>2, IdleLocals DEF Locals, Step
<1>4. q.pc = "delete_account.delete" /\ q.then = "idle" /\ q.account = a
  BY DEF Idle
<1>5. Prepared(q, Recorded)
  BY <1>2, <1>4 DEF Prepared
<1>6. r \in Task /\ UNCHANGED <<tables, outside>>
  BY DEF Task, DeleteAccount
<1> QED BY <1>1, <1>3, <1>5, <1>6, TaskOnly

LEMMA DeleteAccountDeleteTypes ==
    ASSUME TypeInv, NEW r \in Request, DeleteAccountDelete(r) PROVE TypeInv'
<1> DEFINE a == task[r].account
<1>1. /\ r \in Task /\ UNCHANGED <<posted, connection>> /\ BoundsOK' /\ Return(r)
      /\ accounts' = accounts \ {a} /\ active' = active \ {a}
  BY SameBounds DEF Task, DeleteAccountDelete
<1>2. imports' = [m \in Message |-> IF m \in Recorded /\ imports[m].account = a
                                   THEN [imports[m] EXCEPT !.account = None] ELSE imports[m]]
  BY DEF DeleteAccountDelete
<1>3. ASSUME NEW m \in Recorded
      PROVE  /\ [imports[m] EXCEPT !.account = None] \in Row
             /\ [imports[m] EXCEPT !.account = None].merchant = imports[m].merchant
  BY RecordedRows DEF Row
<1>4. imports' \in [Message -> Row \cup {None}]
  BY <1>2, <1>3 DEF TypeInv, TablesOK
<1>5. Recorded' = Recorded
  BY <1>2, <1>3, MailAssumption DEF Recorded
<1>6. MerchantsKnown'
  BY <1>2, <1>3, <1>5, ReadyRecorded DEF MerchantsKnown, TypeInv, TablesOK, Parsed
<1>7. learned' \in [alias : [Merchant -> Merchant \cup {None}], category : SUBSET Merchant,
                    card : [Card -> Account \cup {None}], default : Account \cup {None}]
  BY DEF DeleteAccountDelete, TypeInv, TablesOK
<1>8. TablesOK'
  BY <1>1, <1>4, <1>6, <1>7 DEF TypeInv, TablesOK
<1> QED BY <1>1, <1>5, <1>8, Returns

\* Only the connection changes.
LEMMA ConnectionTables ==
    ASSUME TypeInv, UNCHANGED <<imports, posted, accounts, active, learned>>,
           connection' \in [syncing : BOOLEAN, auto : BOOLEAN] \cup {None}
    PROVE  TablesOK' /\ Recorded' = Recorded
BY DEF TypeInv, TablesOK, MerchantsKnown, Recorded, Parsed

LEMMA SameTasks ==
    ASSUME TypeInv, TablesOK', BoundsOK', Recorded' = Recorded, UNCHANGED task PROVE TypeInv'
BY DEF TypeInv, Prepared, Parsed

LEMMA UserTypes ==
    ASSUME TypeInv, Connect \/ UpdatePreferences \/ Disconnect PROVE TypeInv'
<1>1. UNCHANGED <<imports, posted, accounts, active, learned, task>> /\ BoundsOK'
  BY SameBounds DEF Connect, UpdatePreferences, Disconnect
<1> DEFINE Connection == [syncing : BOOLEAN, auto : BOOLEAN] \cup {None}
<1>a. connection \in Connection
  BY DEF TypeInv, TablesOK
<1>b. ASSUME Connect PROVE connection' \in Connection
  BY <1>b DEF Connect
<1>c. ASSUME UpdatePreferences PROVE connection' \in Connection
  <2>1. PICK auto \in AutoApprove : connection' = [connection EXCEPT !.auto = auto]
    BY <1>c DEF UpdatePreferences
  <2>2. auto \in BOOLEAN /\ connection \in [syncing : BOOLEAN, auto : BOOLEAN]
    BY <1>a, <1>c, TaskAssumption DEF UpdatePreferences
  <2> QED BY <2>1, <2>2
<1>d. ASSUME Disconnect PROVE connection' \in Connection
  BY <1>d DEF Disconnect
<1>2. connection' \in Connection
  BY <1>b, <1>c, <1>d
<1> QED BY <1>1, <1>2, ConnectionTables, SameTasks

-----------------------------------------------------------------------------
(* Syncs.                                                                  *)

SyncTask(s) == s \in Task /\ task[s] \in Locals /\ Prepared(task[s], Recorded)

LEMMA SyncTasks == ASSUME TypeInv, NEW s \in Sync PROVE SyncTask(s)
BY LocalsOf DEF Task, SyncTask

\* A step of a sync that only changes its locals, or returns.
LEMMA SyncOnly ==
    ASSUME TypeInv, NEW s \in Sync, UNCHANGED <<tables>>, BoundsOK',
           NEW q \in Locals, Prepared(q, Recorded), Become(s, q)
    PROVE  TypeInv'
BY SameTables, SetTask, SyncTasks DEF SyncTask, tables

LEMMA SyncLoadTypes ==
    ASSUME TypeInv, NEW s \in Sync, SyncLoad(s) PROVE TypeInv'
<1> DEFINE q == [Idle EXCEPT !.pc = "sync.mark", !.auto = connection.auto]
<1>1. UNCHANGED tables /\ BoundsOK' /\ Become(s, q)
  BY SameBounds DEF SyncLoad
<1>2. connection.auto \in BOOLEAN
  BY DEF SyncLoad, TypeInv, TablesOK
<1>3. q \in Locals
  BY <1>2, IdleLocals DEF Locals, Step
<1>4. q.pc = "sync.mark"
  BY DEF Idle
<1>5. Prepared(q, Recorded)
  BY <1>4 DEF Prepared
<1> QED BY <1>1, <1>3, <1>5, SyncOnly

LEMMA SyncMarkTypes ==
    ASSUME TypeInv, NEW s \in Sync, SyncMark(s) PROVE TypeInv'
<1> DEFINE q == [task[s] EXCEPT !.pc = "sync.token"]
<1>1. UNCHANGED <<imports, posted, accounts, active, learned>> /\ BoundsOK' /\ s \in Task
  BY SameBounds, SyncTasks DEF SyncMark, SyncTask
<1>2. CASE connection # None /\ ~connection.syncing
  <2>1. connection' = [connection EXCEPT !.syncing = TRUE] /\ Become(s, q)
    BY <1>2 DEF SyncMark
  <2>2. connection' \in [syncing : BOOLEAN, auto : BOOLEAN]
    BY <1>2, <2>1 DEF TypeInv, TablesOK
  <2>3. TablesOK' /\ Recorded' = Recorded
    BY <1>1, <2>2, ConnectionTables
  <2>4. q \in Locals /\ q.pc = "sync.token"
    BY SyncTasks DEF SyncTask, Locals, Step
  <2>5. Prepared(q, Recorded)
    BY <2>4 DEF Prepared
  <2> QED BY <1>1, <2>1, <2>3, <2>4, <2>5, SetTask
<1>3. CASE ~(connection # None /\ ~connection.syncing)
  <2>1. UNCHANGED tables /\ Return(s)
    BY <1>1, <1>3 DEF SyncMark, tables
  <2> QED BY <1>1, <2>1, SameTables, Returns
<1> QED BY <1>2, <1>3

\* Where a sync goes without taking anything along.
LEMMA GoesTo ==
    ASSUME TypeInv, NEW s \in Sync, NEW pc \in {"sync.reload", "sync.list", "sync.finish"}
    PROVE  /\ [task[s] EXCEPT !.pc = pc] \in Locals
           /\ \A R : Prepared([task[s] EXCEPT !.pc = pc], R)
<1> DEFINE p == [task[s] EXCEPT !.pc = pc]
<1>1. p \in Locals /\ p.pc = pc
  BY SyncTasks DEF SyncTask, Locals, Step
<1> HIDE DEF p
<1>2. \A R : Prepared(p, R)
  BY <1>1 DEF Prepared
<1> QED BY <1>1, <1>2 DEF p

LEMMA SyncTokenTypes ==
    ASSUME TypeInv, NEW s \in Sync, SyncToken(s) PROVE TypeInv'
<1> DEFINE q == task[s]
           expired == [q EXCEPT !.pc = "sync.upsert", !.auto = connection.auto]
<1>1. UNCHANGED tables /\ BoundsOK' /\ q \in Locals
  BY SameBounds, SyncTasks DEF SyncToken, SyncTask
<1>2. CASE connection # None /\ Become(s, expired)
  <2>1. connection.auto \in BOOLEAN
    BY <1>2 DEF TypeInv, TablesOK
  <2>2. expired \in Locals /\ expired.pc = "sync.upsert"
    BY <1>1, <2>1 DEF Locals, Step
  <2>3. Prepared(expired, Recorded)
    BY <2>2 DEF Prepared
  <2> QED BY <1>1, <1>2, <2>2, <2>3, SyncOnly
<1>3. ASSUME NEW pc \in {"sync.list", "sync.finish"}, Become(s, [q EXCEPT !.pc = pc])
      PROVE  TypeInv'
  BY <1>1, <1>3, GoesTo, SyncOnly
<1> QED BY <1>2, <1>3 DEF SyncToken

LEMMA SyncUpsertTypes ==
    ASSUME TypeInv, NEW s \in Sync, SyncUpsert(s) PROVE TypeInv'
<1> DEFINE q == task[s]
           p == [q EXCEPT !.pc = "sync.reload"]
<1>1. /\ UNCHANGED <<imports, posted, accounts, active, learned>> /\ BoundsOK'
      /\ s \in Task /\ q \in Locals /\ Become(s, p)
  BY SameBounds, SyncTasks DEF SyncUpsert, SyncTask
<1>2. q.auto \in BOOLEAN
  BY <1>1 DEF Locals
<1>3. connection' \in [syncing : BOOLEAN, auto : BOOLEAN]
  BY <1>2 DEF SyncUpsert, TypeInv, TablesOK
<1>4. TablesOK' /\ Recorded' = Recorded
  BY <1>1, <1>3, ConnectionTables
<1>5. p \in Locals /\ Prepared(p, Recorded)
  BY GoesTo
<1> QED BY <1>1, <1>4, <1>5, SetTask

LEMMA SyncReloadTypes ==
    ASSUME TypeInv, NEW s \in Sync, SyncReload(s) PROVE TypeInv'
<1> DEFINE q == task[s]
           found == [q EXCEPT !.pc = "sync.list", !.auto = connection.auto]
<1>1. UNCHANGED tables /\ BoundsOK' /\ q \in Locals
  BY SameBounds, SyncTasks DEF SyncReload, SyncTask
<1>2. CASE connection # None /\ Become(s, found)
  <2>1. connection.auto \in BOOLEAN
    BY <1>2 DEF TypeInv, TablesOK
  <2>2. found \in Locals /\ found.pc = "sync.list"
    BY <1>1, <2>1 DEF Locals, Step
  <2>3. Prepared(found, Recorded)
    BY <2>2 DEF Prepared
  <2> QED BY <1>1, <1>2, <2>2, <2>3, SyncOnly
<1>3. CASE Become(s, [q EXCEPT !.pc = "sync.finish"])
  BY <1>1, <1>3, GoesTo, SyncOnly
<1> QED BY <1>2, <1>3 DEF SyncReload

LEMMA SyncListTypes ==
    ASSUME TypeInv, NEW s \in Sync, SyncList(s) PROVE TypeInv'
<1> DEFINE q == task[s]
           p == [q EXCEPT !.pc = "sync.next", !.queue = Listed]
<1>1. UNCHANGED tables /\ BoundsOK' /\ q \in Locals /\ Become(s, p)
  BY SameBounds, SyncTasks DEF SyncList, SyncTask
<1>2. Listed \in SUBSET Message
  BY DEF Listed, Recent
<1>3. p \in Locals /\ p.pc = "sync.next"
  BY <1>1, <1>2 DEF Locals, Step
<1>4. Prepared(p, Recorded)
  BY <1>3 DEF Prepared
<1> QED BY <1>1, <1>3, <1>4, SyncOnly

\* An error takes a sync straight to mark_sync_finished.
LEMMA FailedTypes ==
    /\ [Idle EXCEPT !.pc = "sync.finish"] \in Locals
    /\ [Idle EXCEPT !.pc = "sync.finish"].pc = "sync.finish"
    /\ [Idle EXCEPT !.pc = "sync.finish"].auto = FALSE
    /\ \A R : Prepared([Idle EXCEPT !.pc = "sync.finish"], R)
<1> DEFINE p == [Idle EXCEPT !.pc = "sync.finish"]
<1>1. p \in Locals
  BY IdleLocals DEF Locals, Step
<1>2. p.pc = "sync.finish" /\ p.auto = FALSE
  BY DEF Idle
<1> HIDE DEF p
<1>3. \A R : Prepared(p, R)
  BY <1>2 DEF Prepared
<1> QED BY <1>1, <1>2, <1>3 DEF p

LEMMA SyncFailsTypes ==
    ASSUME TypeInv, NEW s \in Sync, SyncFails(s) PROVE TypeInv'
<1>1. UNCHANGED tables /\ Become(s, [Idle EXCEPT !.pc = "sync.finish"])
  BY DEF SyncFails
<1>2. BoundsOK'
  BY TaskAssumption DEF SyncFails, TypeInv, BoundsOK
<1> QED BY <1>1, <1>2, FailedTypes, SyncOnly

LEMMA SyncNextTypes ==
    ASSUME TypeInv, NEW s \in Sync, SyncNext(s) PROVE TypeInv'
<1> DEFINE q == task[s]
<1>1. UNCHANGED tables /\ BoundsOK' /\ q \in Locals
  BY SameBounds, SyncTasks DEF SyncNext, SyncTask
<1>2. CASE Become(s, [q EXCEPT !.pc = "sync.finish"])
  BY <1>1, <1>2, GoesTo, SyncOnly
<1>3. ASSUME NEW m \in q.queue,
             Become(s, [q EXCEPT !.queue = q.queue \ {m},
                                 !.pc = IF m \in Recorded THEN "sync.next" ELSE "sync.process",
                                 !.id = IF m \in Recorded THEN None ELSE m])
      PROVE  TypeInv'
  <2> DEFINE pc == IF m \in Recorded THEN "sync.next" ELSE "sync.process"
             id == IF m \in Recorded THEN None ELSE m
             p == [q EXCEPT !.queue = q.queue \ {m}, !.pc = pc, !.id = id]
  <2>1. m \in Message
    BY <1>1 DEF Locals
  <2>a. pc \in Step /\ id \in Message \cup {None} /\ q.queue \ {m} \in SUBSET Message
    BY <1>1, <2>1 DEF Locals, Step
  <2>b. pc \in {"sync.next", "sync.process"} /\ (pc = "sync.process" => id \in Message)
    BY <2>1
  <2>c. Become(s, p)
    BY <1>3
  <2> HIDE DEF pc, id
  <2>2. p \in Locals
    BY <1>1, <2>a DEF Locals
  <2>3. p.pc = pc /\ p.id = id
    BY <1>1 DEF Locals
  <2>4. Prepared(p, Recorded)
    BY <2>b, <2>3 DEF Prepared
  <2> HIDE DEF p
  <2> QED BY <1>1, <2>c, <2>2, <2>4, SyncOnly
<1> QED BY <1>2, <1>3 DEF SyncNext

LEMMA NextMessageTypes ==
    ASSUME NEW q \in Locals
    PROVE  /\ NextMessage(q) \in Locals /\ NextMessage(q).pc = "sync.next"
           /\ \A R : Prepared(NextMessage(q), R)
<1>1. NextMessage(q) \in Locals /\ NextMessage(q).pc = "sync.next"
  BY DEF NextMessage, Locals, Step
<1>2. \A R : Prepared(NextMessage(q), R)
  BY <1>1 DEF Prepared
<1> QED BY <1>1, <1>2

LEMMA SyncFetchFailsTypes ==
    ASSUME TypeInv, NEW s \in Sync, SyncFetchFails(s) PROVE TypeInv'
<1> DEFINE p == [task[s] EXCEPT !.pc = "sync.next", !.id = None]
<1>1. UNCHANGED tables /\ Become(s, p)
  BY DEF SyncFetchFails
<1>2. BoundsOK'
  BY TaskAssumption DEF SyncFetchFails, TypeInv, BoundsOK
<1>3. p \in Locals /\ p.pc = "sync.next"
  <2> DEFINE q == task[s]
  <2>1. q \in Locals
    BY SyncTasks DEF SyncTask
  <2> HIDE DEF q
  <2>2. [q EXCEPT !.pc = "sync.next", !.id = None] \in Locals
    BY <2>1 DEF Locals, Step
  <2>3. [q EXCEPT !.pc = "sync.next", !.id = None].pc = "sync.next"
    BY <2>1 DEF Locals
  <2> QED BY <2>2, <2>3 DEF q
<1>4. Prepared(p, Recorded)
  BY <1>3 DEF Prepared
<1> QED BY <1>1, <1>2, <1>3, <1>4, SyncOnly

LEMMA SyncProcessTypes ==
    ASSUME TypeInv, NEW s \in Sync, SyncProcess(s) PROVE TypeInv'
<1> DEFINE q == task[s]
           m == q.id
           predicted == Predict(m, MerchantOf[Reports[m]], None)
           unique == ~HashExists(HashOf(m, predicted.merchant))
           read == [q EXCEPT !.pc = "sync.insert", !.predicted = predicted, !.unique = unique]
           unread == [q EXCEPT !.pc = "sync.insert"]
<1>1. /\ UNCHANGED tables /\ BoundsOK' /\ q \in Locals /\ m \in Message
      /\ Become(s, IF Parsed(m) THEN read ELSE unread)
  BY SameBounds, SyncTasks DEF SyncProcess, SyncTask, At, Prepared
<1>2. CASE Parsed(m)
  <2>1. predicted \in Prediction
    BY <1>1, <1>2, PredictTypes, MailAssumption DEF Parsed
  <2>2. unique \in BOOLEAN
    OBVIOUS
  <2> HIDE DEF predicted, unique
  <2>3. read \in Locals
    BY <1>1, <2>1, <2>2 DEF Locals, Step
  <2>4. read.pc = "sync.insert" /\ read.id = m /\ read.predicted = predicted
    BY <1>1 DEF Locals
  <2> HIDE DEF read
  <2>5. Prepared(read, Recorded)
    BY <1>1, <2>1, <2>4 DEF Prepared
  <2> QED BY <1>1, <1>2, <2>3, <2>5, SyncOnly
<1>3. CASE ~Parsed(m)
  <2>1. unread \in Locals /\ unread.pc = "sync.insert" /\ unread.id = m
    BY <1>1 DEF Locals, Step
  <2>2. Prepared(unread, Recorded)
    BY <1>1, <1>3, <2>1 DEF Prepared
  <2> HIDE DEF unread
  <2> QED BY <1>1, <1>3, <2>1, <2>2, SyncOnly
<1> QED BY <1>2, <1>3

LEMMA InsertedRowTypes ==
    ASSUME NEW q \in Locals, Parsed(q.id) => q.predicted \in Prediction, q.id \in Message
    PROVE  /\ InsertedRow(q) \in Row
           /\ Parsed(q.id) => InsertedRow(q).merchant \in Merchant
<1>1. CASE ~Parsed(q.id)
  BY <1>1 DEF InsertedRow, Unreadable, Row, Status
<1>2. CASE Parsed(q.id)
  <2>1. /\ q.predicted.merchant \in Merchant /\ q.predicted.account \in Account \cup {None}
        /\ q.predicted.ready \in BOOLEAN
    BY <1>2 DEF Prediction
  <2>2. HashOf(q.id, q.predicted.merchant) \in Hash
    BY <1>2, <2>1, MailAssumption DEF HashOf, Hash, Parsed
  <2>3. ASSUME NEW status \in Status, NEW h \in Hash \cup {None}
        PROVE  /\ Received(status, q.predicted, h) \in Row
               /\ Received(status, q.predicted, h).merchant \in Merchant
    BY <2>1 DEF Received, Row
  <2> QED BY <1>2, <2>2, <2>3 DEF InsertedRow, Status
<1> QED BY <1>1, <1>2

LEMMA SyncInsertTypes ==
    ASSUME TypeInv, NEW s \in Sync, SyncInsert(s) PROVE TypeInv'
<1> DEFINE q == task[s]
           m == q.id
           row == InsertedRow(q)
           approve == [q EXCEPT !.pc = "sync.approve", !.unique = FALSE]
           failed == [Idle EXCEPT !.pc = "sync.finish"]
<1>1. /\ s \in Task /\ q \in Locals /\ m \in Message /\ (Parsed(m) => q.predicted \in Prediction)
      /\ UNCHANGED <<posted, accounts, active, learned, connection>> /\ BoundsOK'
  BY SameBounds, SyncTasks DEF SyncInsert, SyncTask, At, Prepared
<1>2. row \in Row /\ (Parsed(m) => row.merchant \in Merchant)
  BY <1>1, InsertedRowTypes
<1>3. CASE Fits(m, row)
  <2>1. imports' = [imports EXCEPT ![m] = row] /\ Become(s, AfterInsert(q, row))
    BY <1>3 DEF SyncInsert
  <2>2. row.status = "pending_review" => Parsed(m)
    BY DEF InsertedRow, Unreadable
  <2> HIDE DEF row
  <2>3. /\ imports' \in [Message -> Row \cup {None}] /\ Recorded' = Recorded \cup {m}
        /\ MerchantsKnown'
    BY <1>1, <1>2, <2>1, RowWritten
  <2>4. TablesOK'
    BY <1>1, <2>3 DEF TypeInv, TablesOK
  <2>5. CASE q.auto /\ row.status = "pending_review" /\ row.ready
    <3>1. approve \in Locals
      BY <1>1 DEF Locals, Step
    <3>2. approve.pc = "sync.approve" /\ approve.id = m /\ approve.predicted = q.predicted
      BY <1>1 DEF Locals
    <3>3. m \in Recorded' /\ Parsed(m) /\ q.predicted \in Prediction
      BY <1>1, <2>2, <2>3, <2>5
    <3> HIDE DEF approve
    <3>4. Prepared(approve, Recorded')
      BY <3>2, <3>3 DEF Prepared
    <3>5. Become(s, approve)
      BY <2>1, <2>5 DEF AfterInsert, approve
    <3> QED BY <1>1, <2>3, <2>4, <3>1, <3>4, <3>5, SetTask
  <2>6. CASE ~(q.auto /\ row.status = "pending_review" /\ row.ready)
    <3>1. Become(s, NextMessage(q))
      BY <2>1, <2>6 DEF AfterInsert
    <3> QED BY <1>1, <2>3, <2>4, <3>1, NextMessageTypes, SetTask
  <2> QED BY <2>5, <2>6
<1>4. CASE ~Fits(m, row)
  <2>1. UNCHANGED tables /\ Become(s, failed)
    BY <1>1, <1>4 DEF SyncInsert, tables
  <2> QED BY <1>1, <2>1, FailedTypes, SyncOnly
<1> QED BY <1>3, <1>4

LEMMA SyncApproveTypes ==
    ASSUME TypeInv, NEW s \in Sync, SyncApprove(s) PROVE TypeInv'
<1> DEFINE q == task[s]
           p == q.predicted
           rest == NextMessage(q)
           next == Approving(rest, q.id, p.account, p.merchant, "sync.next")
<1>1. /\ q \in Locals /\ q.id \in Recorded /\ p \in Prediction
      /\ UNCHANGED tables /\ BoundsOK'
  BY SameBounds, SyncTasks DEF SyncApprove, SyncTask, At, Prepared
<1>2. rest \in Locals /\ Prepared(rest, Recorded)
  BY <1>1, NextMessageTypes
<1>3. p.account \in Account \cup {None} /\ p.merchant \in Merchant \cup {None}
  BY <1>1 DEF Prediction
<1>4. CASE Approvable(q.id, p.account)
  <2> HIDE DEF rest
  <2>1. next \in Locals /\ Prepared(next, Recorded)
    BY <1>1, <1>2, <1>3, <1>4, ApprovingTypes
  <2>2. Become(s, next)
    BY <1>4 DEF SyncApprove, rest
  <2> QED BY <1>1, <2>1, <2>2, SyncOnly
<1>5. CASE ~Approvable(q.id, p.account)
  <2>1. Become(s, rest)
    BY <1>5 DEF SyncApprove
  <2> QED BY <1>1, <1>2, <2>1, SyncOnly
<1> QED BY <1>4, <1>5

LEMMA SyncFinishTypes ==
    ASSUME TypeInv, NEW s \in Sync, SyncFinish(s) PROVE TypeInv'
<1>1. /\ UNCHANGED <<imports, posted, accounts, active, learned>> /\ BoundsOK' /\ Return(s)
      /\ s \in Task
  BY SameBounds, SyncTasks DEF SyncFinish, SyncTask
<1>2. connection' \in [syncing : BOOLEAN, auto : BOOLEAN] \cup {None}
  BY DEF SyncFinish, TypeInv, TablesOK
<1> QED BY <1>1, <1>2, ConnectionTables, Returns

LEMMA CrashTypes ==
    ASSUME TypeInv, (\E r \in Request : CrashRequest(r)) \/ (\E s \in Sync : CrashSync(s))
    PROVE  TypeInv'
<1>1. ASSUME NEW r \in Request, CrashRequest(r) PROVE TypeInv'
  <2>1. r \in Task /\ UNCHANGED tables /\ BoundsOK' /\ Return(r)
    BY <1>1, SameBounds DEF CrashRequest, Task
  <2> QED BY <2>1, SameTables, Returns
<1>2. ASSUME NEW s \in Sync, CrashSync(s) PROVE TypeInv'
  <2>1. s \in Task /\ UNCHANGED tables /\ Return(s)
    BY <1>2 DEF CrashSync, Task
  <2>2. BoundsOK'
    BY <1>2, TaskAssumption DEF CrashSync, TypeInv, BoundsOK
  <2> QED BY <2>1, <2>2, SameTables, Returns
<1> QED BY <1>1, <1>2

-----------------------------------------------------------------------------
(* The specification.                                                      *)

LEMMA TypeInit == Init => TypeInv
<1> SUFFICES ASSUME Init PROVE TypeInv
  OBVIOUS
<1>1. Recorded = {}
  BY DEF Init, Recorded
<1>2. TablesOK
  BY <1>1 DEF Init, TablesOK, MerchantsKnown
<1>3. BoundsOK
  BY TaskAssumption, ListingAssumption DEF Init, BoundsOK
<1>4. task \in [Task -> Locals] /\ \A t \in Task : Prepared(task[t], Recorded)
  BY IdleLocals DEF Init
<1> QED BY <1>2, <1>3, <1>4 DEF TypeInv

LEMMA TypeStep == TypeInv /\ [Next]_vars => TypeInv'
<1> SUFFICES ASSUME TypeInv, [Next]_vars PROVE TypeInv'
  OBVIOUS
<1>1. CASE UNCHANGED vars
  <2>1. UNCHANGED <<tables, outside, task>>
    BY <1>1 DEF vars, tables, outside
  <2> QED BY <2>1, SameTables, SameBounds, SameTasks
<1>2. ASSUME NEW r \in Request, RequestStep(r) PROVE TypeInv'
  <2>1. r \in Task
    BY DEF Task
  <2> QED
    BY <1>2, <2>1, ApproveTypes, ApproveReadyTypes, ApproveReadyNextTypes, ApproveCommitTypes,
       RejectTypes, LinkTypes, LinkUpdateTypes, LinkCardTypes, LinkDefaultTypes,
       RecomputeReadTypes, RecomputePredictTypes, RecomputeWriteTypes,
       DeleteAccountTypes, DeleteAccountDeleteTypes DEF RequestStep
<1>3. ASSUME NEW s \in Sync, SyncStep(s) \/ SyncFails(s) \/ SyncFetchFails(s) PROVE TypeInv'
  <2>1. s \in Task
    BY DEF Task
  <2> QED
    BY <1>3, <2>1, SyncLoadTypes, SyncMarkTypes, SyncTokenTypes, SyncUpsertTypes,
       SyncReloadTypes, SyncListTypes, SyncFailsTypes, SyncNextTypes, SyncFetchFailsTypes, SyncProcessTypes,
       SyncInsertTypes, SyncApproveTypes, ApproveCommitTypes, SyncFinishTypes DEF SyncStep
<1>4. CASE Connect \/ UpdatePreferences \/ Disconnect
  BY <1>4, UserTypes
<1>5. CASE (\E r \in Request : CrashRequest(r)) \/ (\E s \in Sync : CrashSync(s))
  BY <1>5, CrashTypes
<1>6. CASE Tomorrow
  <2>1. UNCHANGED <<tables, task>>
    BY <1>6 DEF Tomorrow
  <2>2. BoundsOK'
    BY <1>6, ListingAssumption DEF Tomorrow, TypeInv, BoundsOK
  <2> QED BY <2>1, <2>2, SameTables, SameTasks
<1> QED BY <1>1, <1>2, <1>3, <1>4, <1>5, <1>6 DEF Next

\* The inductive invariant of the types.
THEOREM TypeInvariant == Spec => []TypeInv
BY TypeInit, TypeStep, PTL DEF Spec

\* Every import, every learned rule and the locals of every request and sync
\* are well formed: nothing that no parser could read is ever approved.
THEOREM ImportsWellTyped == Spec => []TypeOK
<1>1. TypeInv => TypeOK
  BY TypeInvTypes
<1> QED BY <1>1, TypeInvariant, PTL

-----------------------------------------------------------------------------
(* What a step does to the imports and their transactions.                 *)

KeepEffect ==
    /\ posted' = posted /\ Recorded' = Recorded
    /\ \A n \in Recorded : /\ imports'[n].status = imports[n].status
                           /\ imports'[n].hash = imports[n].hash

RejectEffect(m) ==
    /\ m \in Recorded
    /\ posted' = posted /\ Recorded' = Recorded
    /\ \A n \in Recorded : /\ imports'[n].status = IF n = m THEN "ignored" ELSE imports[n].status
                           /\ imports'[n].hash = imports[n].hash

ApproveEffect(t) ==
    LET m == task[t].id IN
    /\ At(t, "approve.commit") /\ m \in Recorded
    /\ posted' = [posted EXCEPT ![m] = @ + 1] /\ Recorded' = Recorded
    /\ \A n \in Recorded : /\ imports'[n].status = IF n = m THEN "imported" ELSE imports[n].status
                           /\ imports'[n].hash = imports[n].hash

InsertEffect(s) ==
    LET m == task[s].id
        row == InsertedRow(task[s])
    IN
    /\ At(s, "sync.insert") /\ m \in Message \ Recorded /\ ~HashUsed(row.hash)
    /\ posted' = posted /\ Recorded' = Recorded \cup {m}
    /\ imports'[m] = row
    /\ \A n \in Recorded : imports'[n] = imports[n]

\* Writing one row that exists already.
LEMMA RowWrite ==
    ASSUME TypeInv, NEW m \in Recorded, NEW row \in Row, imports' = [imports EXCEPT ![m] = row]
    PROVE  /\ Recorded' = Recorded
           /\ imports'[m] = row
           /\ \A n \in Recorded : n # m => imports'[n] = imports[n]
<1>1. m \in Message /\ \A n \in Message : imports'[n] = IF n = m THEN row ELSE imports[n]
  BY RecordedRows DEF TypeInv, TablesOK
<1>2. Recorded' = Recorded
  BY <1>1, MailAssumption DEF Recorded
<1> QED BY <1>1, <1>2, ReadyRecorded

LEMMA SameRows == ASSUME UNCHANGED <<imports, posted>> PROVE KeepEffect
BY DEF KeepEffect, Recorded

LEMMA CommitEffect ==
    ASSUME TypeInv, NEW t \in Task, ApproveCommit(t) PROVE KeepEffect \/ ApproveEffect(t)
<1> DEFINE q == task[t]
           m == q.id
           row == [imports[m] EXCEPT !.status = "imported", !.merchant = q.merchant,
                                     !.account = q.account, !.confirmed = TRUE, !.ready = TRUE]
<1>1. /\ At(t, "approve.commit") /\ m \in Recorded /\ imports[m] \in Row
      /\ q.account \in Account /\ q.merchant \in Merchant
  BY LocalsOf, RecordedRows DEF ApproveCommit, At, Prepared
<1>2. CASE q.account \in accounts
  <2>1. /\ posted' = [posted EXCEPT ![m] = @ + 1]
        /\ imports' = [imports EXCEPT ![m] = row]
    BY <1>2 DEF ApproveCommit
  <2>2. row \in Row /\ row.status = "imported" /\ row.hash = imports[m].hash
    BY <1>1 DEF Row, Status
  <2> HIDE DEF row
  <2>3. /\ Recorded' = Recorded /\ imports'[m] = row
        /\ \A n \in Recorded : n # m => imports'[n] = imports[n]
    BY <1>1, <2>1, <2>2, RowWrite
  <2> QED BY <1>1, <2>1, <2>2, <2>3 DEF ApproveEffect
<1>3. CASE q.account \notin accounts
  BY <1>3, SameRows DEF ApproveCommit
<1> QED BY <1>2, <1>3

LEMMA RejectsOne ==
    ASSUME TypeInv, NEW r \in Request, Reject(r) PROVE \E m \in Recorded : RejectEffect(m)
<1>1. PICK m \in Recorded : imports' = [imports EXCEPT ![m].status = "ignored"]
  BY DEF Reject
<1> DEFINE row == [imports[m] EXCEPT !.status = "ignored"]
<1>2. row \in Row /\ row.status = "ignored" /\ row.hash = imports[m].hash
  BY RecordedRows DEF Row, Status
<1>3. imports' = [imports EXCEPT ![m] = row]
  BY <1>1
<1> HIDE DEF row
<1>4. /\ Recorded' = Recorded /\ imports'[m] = row
      /\ \A n \in Recorded : n # m => imports'[n] = imports[n]
  BY <1>2, <1>3, RowWrite
<1>5. RejectEffect(m)
  BY <1>2, <1>4 DEF RejectEffect, Reject
<1> QED BY <1>5

LEMMA LinkKeeps ==
    ASSUME TypeInv, NEW r \in Request, LinkUpdate(r) PROVE KeepEffect
<1> DEFINE q == task[r]
           m == q.id
           row == [imports[m] EXCEPT !.account = q.account, !.confirmed = TRUE, !.ready = q.ready]
<1>1. /\ q \in Locals /\ m \in Recorded /\ imports[m] \in Row /\ q.account \in Account
      /\ posted' = posted
  BY LocalsOf, RecordedRows DEF LinkUpdate, At, Prepared, Task
<1>2. CASE q.account \in accounts
  <2>1. imports' = [imports EXCEPT ![m] = row]
    BY <1>2 DEF LinkUpdate
  <2>2. q.ready \in BOOLEAN
    BY <1>1 DEF Locals
  <2>3. row \in Row /\ row.status = imports[m].status /\ row.hash = imports[m].hash
    BY <1>1, <2>2 DEF Row
  <2> HIDE DEF row
  <2>4. /\ Recorded' = Recorded /\ imports'[m] = row
        /\ \A n \in Recorded : n # m => imports'[n] = imports[n]
    BY <1>1, <2>1, <2>3, RowWrite
  <2> QED BY <1>1, <2>3, <2>4 DEF KeepEffect
<1>3. CASE q.account \notin accounts
  BY <1>3, SameRows DEF LinkUpdate
<1> QED BY <1>2, <1>3

LEMMA RecomputeKeeps ==
    ASSUME TypeInv, NEW r \in Request, RecomputeWrite(r) PROVE KeepEffect
<1> DEFINE q == task[r]
           m == q.id
           p == q.predicted
           row == [imports[m] EXCEPT !.merchant = p.merchant, !.account = p.account,
                                     !.confirmed = p.confirmed, !.ready = p.ready]
<1>1. p \in Prediction /\ posted' = posted
  BY LocalsOf DEF RecomputeWrite, At, Prepared, Task
<1>2. CASE UNCHANGED imports
  BY <1>1, <1>2, SameRows
<1>3. CASE m \in Pending /\ imports' = [imports EXCEPT ![m] = row]
  <2>1. m \in Recorded /\ imports[m] \in Row
    BY <1>3, RecordedRows DEF Pending
  <2>2. row \in Row /\ row.status = imports[m].status /\ row.hash = imports[m].hash
    BY <1>1, <2>1 DEF Row, Prediction
  <2> HIDE DEF row
  <2>3. /\ Recorded' = Recorded /\ imports'[m] = row
        /\ \A n \in Recorded : n # m => imports'[n] = imports[n]
    BY <1>3, <2>1, <2>2, RowWrite
  <2> QED BY <1>1, <2>2, <2>3 DEF KeepEffect
<1> QED BY <1>2, <1>3 DEF RecomputeWrite

LEMMA DeletionKeeps ==
    ASSUME TypeInv, NEW r \in Request, DeleteAccountDelete(r) PROVE KeepEffect
<1> DEFINE a == task[r].account
<1>1. imports' = [m \in Message |-> IF m \in Recorded /\ imports[m].account = a
                                   THEN [imports[m] EXCEPT !.account = None] ELSE imports[m]]
  BY DEF DeleteAccountDelete
<1>2. ASSUME NEW m \in Recorded
      PROVE  LET row == [imports[m] EXCEPT !.account = None] IN
             row \in Row /\ row.status = imports[m].status /\ row.hash = imports[m].hash
  BY RecordedRows DEF Row
<1>3. Recorded' = Recorded
  BY <1>1, <1>2, MailAssumption DEF Recorded
<1>4. \A m \in Recorded : /\ imports'[m].status = imports[m].status
                          /\ imports'[m].hash = imports[m].hash
  BY <1>1, <1>2, ReadyRecorded
<1> QED BY <1>3, <1>4 DEF KeepEffect, DeleteAccountDelete

LEMMA InsertsOne ==
    ASSUME TypeInv, NEW s \in Sync, SyncInsert(s) PROVE KeepEffect \/ InsertEffect(s)
<1> DEFINE q == task[s]
           m == q.id
           row == InsertedRow(q)
<1>1. q \in Locals /\ m \in Message /\ (Parsed(m) => q.predicted \in Prediction)
  BY SyncTasks DEF SyncInsert, SyncTask, At, Prepared
<1>2. row \in Row
  BY <1>1, InsertedRowTypes
<1>3. CASE Fits(m, row)
  <2>1. imports' = [imports EXCEPT ![m] = row] /\ posted' = posted
    BY <1>3 DEF SyncInsert
  <2>2. m \notin Recorded /\ ~HashUsed(row.hash)
    BY <1>3 DEF Fits
  <2>3. \A n \in Message : imports'[n] = IF n = m THEN row ELSE imports[n]
    BY <1>1, <2>1 DEF TypeInv, TablesOK
  <2>4. Recorded' = Recorded \cup {m}
    BY <1>1, <1>2, <2>3, MailAssumption DEF Recorded
  <2> QED BY <1>1, <2>1, <2>2, <2>3, <2>4, ReadyRecorded DEF InsertEffect, SyncInsert
<1>4. CASE ~Fits(m, row)
  BY <1>4, SameRows DEF SyncInsert
<1> QED BY <1>3, <1>4

LEMMA Effects ==
    ASSUME TypeInv, [Next]_vars
    PROVE  \/ KeepEffect
           \/ \E r \in Request, m \in Recorded : Reject(r) /\ RejectEffect(m)
           \/ \E t \in Task : ApproveCommit(t) /\ ApproveEffect(t)
           \/ \E s \in Sync : InsertEffect(s)
<1>1. CASE UNCHANGED <<imports, posted>>
  BY <1>1, SameRows
<1>2. ASSUME NEW r \in Request, RequestStep(r)
      PROVE  \/ KeepEffect \/ \E m \in Recorded : Reject(r) /\ RejectEffect(m)
             \/ ApproveCommit(r) /\ ApproveEffect(r)
  <2>1. r \in Task
    BY DEF Task
  <2>2. CASE ApproveCommit(r)
    BY <2>1, <2>2, CommitEffect
  <2>3. CASE Reject(r) \/ LinkUpdate(r) \/ RecomputeWrite(r) \/ DeleteAccountDelete(r)
    BY <2>3, RejectsOne, LinkKeeps, RecomputeKeeps, DeletionKeeps
  <2>4. CASE \/ Approve(r) \/ ApproveReady(r) \/ ApproveReadyNext(r) \/ Link(r)
             \/ LinkCard(r) \/ LinkDefault(r) \/ RecomputeRead(r) \/ RecomputePredict(r)
             \/ DeleteAccount(r)
    BY <2>4, SameRows DEF Approve, ApproveReady, ApproveReadyNext, Link, LinkCard, LinkDefault,
       RecomputeRead, RecomputePredict, DeleteAccount, tables
  <2> QED BY <1>2, <2>2, <2>3, <2>4 DEF RequestStep
<1>3. ASSUME NEW s \in Sync, SyncStep(s) \/ SyncFails(s) \/ SyncFetchFails(s)
      PROVE  KeepEffect \/ (ApproveCommit(s) /\ ApproveEffect(s)) \/ InsertEffect(s)
  <2>1. s \in Task
    BY DEF Task
  <2>2. CASE ApproveCommit(s) \/ SyncInsert(s)
    BY <2>1, <2>2, CommitEffect, InsertsOne
  <2>3. CASE \/ SyncLoad(s) \/ SyncMark(s) \/ SyncToken(s) \/ SyncUpsert(s) \/ SyncReload(s)
             \/ SyncList(s) \/ SyncNext(s)
             \/ SyncProcess(s) \/ SyncApprove(s) \/ SyncFinish(s) \/ SyncFails(s)
             \/ SyncFetchFails(s)
    BY <2>3, SameRows DEF SyncLoad, SyncMark, SyncToken, SyncUpsert, SyncReload, SyncList,
       SyncNext, SyncProcess,
       SyncApprove, SyncFinish, SyncFails, SyncFetchFails, tables
  <2> QED BY <1>3, <2>2, <2>3 DEF SyncStep
<1>4. CASE \/ Connect \/ UpdatePreferences \/ Disconnect \/ Tomorrow
           \/ \E r \in Request : CrashRequest(r)
           \/ \E s \in Sync : CrashSync(s)
  BY <1>1, <1>4 DEF Connect, UpdatePreferences, Disconnect, Tomorrow, CrashRequest, CrashSync,
     tables
<1>5. CASE UNCHANGED vars
  BY <1>1, <1>5 DEF vars
<1> QED
  <2>1. Request \subseteq Task /\ Sync \subseteq Task
    BY DEF Task
  <2> QED BY <1>2, <1>3, <1>4, <1>5, <2>1 DEF Next

-----------------------------------------------------------------------------
(* An approval is atomic.                                                  *)

LEMMA InsertedStatus ==
    ASSUME NEW q PROVE InsertedRow(q).status \in {"pending_review", "ignored", "failed"}
BY DEF InsertedRow, Unreadable, Received

LEMMA AtomicStep ==
    ASSUME TypeInv, ApprovalAtomic, [Next]_vars PROVE ApprovalAtomic'
<1> SUFFICES ASSUME NEW n \in Message
             PROVE  /\ posted'[n] > 0 => /\ n \in Recorded'
                                        /\ imports'[n].status \in {"imported", "ignored"}
                    /\ n \in Recorded' /\ imports'[n].status = "imported" => posted'[n] > 0
  BY DEF ApprovalAtomic
<1>1. /\ posted[n] \in Nat
      /\ posted[n] > 0 => n \in Recorded /\ imports[n].status \in {"imported", "ignored"}
      /\ n \in Recorded /\ imports[n].status = "imported" => posted[n] > 0
  BY DEF ApprovalAtomic, TypeInv, TablesOK
<1>2. CASE KeepEffect
  BY <1>1, <1>2 DEF KeepEffect
<1>3. ASSUME NEW m \in Recorded, RejectEffect(m)
      PROVE  /\ posted'[n] > 0 => /\ n \in Recorded'
                                 /\ imports'[n].status \in {"imported", "ignored"}
             /\ n \in Recorded' /\ imports'[n].status = "imported" => posted'[n] > 0
  BY <1>1, <1>3 DEF RejectEffect
<1>4. ASSUME NEW t \in Task, ApproveEffect(t)
      PROVE  /\ posted'[n] > 0 => /\ n \in Recorded'
                                 /\ imports'[n].status \in {"imported", "ignored"}
             /\ n \in Recorded' /\ imports'[n].status = "imported" => posted'[n] > 0
  <2>1. posted'[n] = IF n = task[t].id THEN posted[n] + 1 ELSE posted[n]
    BY <1>4 DEF ApproveEffect, TypeInv, TablesOK
  <2> QED BY <1>1, <1>4, <2>1 DEF ApproveEffect
<1>5. ASSUME NEW s \in Sync, InsertEffect(s)
      PROVE  /\ posted'[n] > 0 => /\ n \in Recorded'
                                 /\ imports'[n].status \in {"imported", "ignored"}
             /\ n \in Recorded' /\ imports'[n].status = "imported" => posted'[n] > 0
  BY <1>1, <1>5, InsertedStatus DEF InsertEffect
<1> QED BY <1>2, <1>3, <1>4, <1>5, Effects

\* Whatever interleaves and whoever dies, an imported import has its
\* transaction, and a transaction belongs to an import that was decided.
THEOREM ApprovalsAreAtomic == Spec => []ApprovalAtomic
<1>1. Init => ApprovalAtomic
  BY DEF Init, ApprovalAtomic, Recorded
<1>2. TypeInv /\ ApprovalAtomic /\ [Next]_vars => ApprovalAtomic'
  BY AtomicStep
<1> QED BY <1>1, <1>2, TypeInvariant, PTL DEF Spec

-----------------------------------------------------------------------------
(* A charge is posted once.                                                *)

\* The hash of a row has the bank's name of the merchant in it unless that
\* merchant was renamed; a row without one is never decided again.
HashedRow(m) ==
    /\ imports[m].hash # None =>
          /\ Parsed(m)
          /\ imports[m].hash = HashOf(m, MerchantOf[Reports[m]]) \/ Renamed(m)
    /\ imports[m].hash = None => imports[m].status \in {"ignored", "failed"} /\ posted[m] = 0
    /\ imports[m].status = "failed" => ~Parsed(m)

HashedTask(q) ==
    /\ q.pc = "approve.commit" => imports[q.id].hash # None
    /\ q.pc = "sync.insert" /\ Parsed(q.id) =>
          q.predicted.merchant = MerchantOf[Reports[q.id]] \/ Renamed(q.id)

RowHashes   == \A m \in Recorded : HashedRow(m)
HashesDiffer == \A m, n \in Recorded :
                   m # n /\ imports[m].hash # None => imports[m].hash # imports[n].hash
TaskHashes  == \A t \in Task : HashedTask(task[t])

HashInv == RowHashes /\ HashesDiffer /\ TaskHashes

\* A rename is never forgotten.
LEMMA RenamesStay ==
    ASSUME TypeInv, [Next]_vars, NEW m \in Message, Parsed(m), Renamed(m)
    PROVE  Renamed(m)'
<1> DEFINE x == MerchantOf[Reports[m]]
<1>1. x \in Merchant /\ learned.alias[x] # None
  BY MailAssumption DEF Parsed, Renamed
<1>2. CASE UNCHANGED learned
  BY <1>2 DEF Renamed
<1>3. ASSUME NEW t \in Task, ApproveCommit(t) PROVE learned'.alias[x] # None
  <2>1. task[t].merchant \in Merchant
    BY <1>3, LocalsOf DEF ApproveCommit, At, Prepared
  <2>2. CASE UNCHANGED learned
    BY <1>1, <2>2
  <2>3. CASE learned' = Learn(task[t].original, task[t].merchant, CardOf[task[t].id],
                             task[t].account)
    <3>1. learned'.alias = IF task[t].original = task[t].merchant THEN learned.alias
                           ELSE [learned.alias EXCEPT ![task[t].original] = task[t].merchant]
      BY <2>3 DEF Learn
    <3> QED BY <1>1, <2>1, <3>1, MailAssumption DEF TypeInv, TablesOK
  <2> QED BY <1>3, <2>2, <2>3 DEF ApproveCommit
<1>4. ASSUME NEW r \in Request, LinkCard(r) \/ LinkDefault(r) \/ DeleteAccountDelete(r)
      PROVE  learned'.alias = learned.alias
  BY <1>4 DEF LinkCard, LinkDefault, DeleteAccountDelete, TypeInv, TablesOK
<1>5. ASSUME NEW r \in Request, RequestStep(r) PROVE Renamed(m)'
  <2>1. r \in Task
    BY DEF Task
  <2>2. CASE ApproveCommit(r)
    BY <1>3, <2>1, <2>2 DEF Renamed
  <2>3. CASE LinkCard(r) \/ LinkDefault(r) \/ DeleteAccountDelete(r)
    BY <1>1, <1>4, <2>3 DEF Renamed
  <2>4. CASE \/ Approve(r) \/ ApproveReady(r) \/ ApproveReadyNext(r) \/ Link(r) \/ Reject(r)
             \/ LinkUpdate(r) \/ RecomputeRead(r) \/ RecomputePredict(r) \/ RecomputeWrite(r)
             \/ DeleteAccount(r)
    BY <1>2, <2>4 DEF Approve, ApproveReady, ApproveReadyNext, Link, Reject, LinkUpdate,
       RecomputeRead, RecomputePredict, RecomputeWrite, DeleteAccount, tables
  <2> QED BY <1>5, <2>2, <2>3, <2>4 DEF RequestStep
<1>6. ASSUME NEW s \in Sync, SyncStep(s) \/ SyncFails(s) \/ SyncFetchFails(s)
      PROVE  Renamed(m)'
  <2>1. s \in Task
    BY DEF Task
  <2>2. CASE ApproveCommit(s)
    BY <1>3, <2>1, <2>2 DEF Renamed
  <2>3. CASE \/ SyncLoad(s) \/ SyncMark(s) \/ SyncToken(s) \/ SyncUpsert(s) \/ SyncReload(s)
             \/ SyncList(s) \/ SyncNext(s)
             \/ SyncProcess(s) \/ SyncInsert(s) \/ SyncApprove(s) \/ SyncFinish(s)
             \/ SyncFails(s) \/ SyncFetchFails(s)
    BY <1>2, <2>3 DEF SyncLoad, SyncMark, SyncToken, SyncUpsert, SyncReload, SyncList,
       SyncNext, SyncProcess,
       SyncInsert, SyncApprove, SyncFinish, SyncFails, SyncFetchFails, tables
  <2> QED BY <1>6, <2>2, <2>3 DEF SyncStep
<1>7. CASE \/ Connect \/ UpdatePreferences \/ Disconnect \/ Tomorrow \/ UNCHANGED vars
           \/ \E r \in Request : CrashRequest(r)
           \/ \E s \in Sync : CrashSync(s)
  BY <1>2, <1>7 DEF Connect, UpdatePreferences, Disconnect, Tomorrow,
     CrashRequest, CrashSync, tables, vars
<1> QED BY <1>5, <1>6, <1>7 DEF Next

\* How the locals of a task change, as far as the properties below look.
Recomputing(q) == q.pc \in {"recompute.predict", "recompute.write"}

Elsewhere(t) == task'[t].pc \notin {"approve.commit", "sync.insert"} /\ ~Recomputing(task'[t])

Recomputes(t) ==
    /\ t \in Request /\ task'[t].pc \notin {"approve.commit", "sync.insert"}
    /\ RecomputeRead(t) \/ RecomputePredict(t) \/ RecomputeWrite(t)

Checked(t) ==
    /\ UNCHANGED imports
    /\ task'[t].id \in Recorded /\ \E account : Approvable(task'[t].id, account)
    /\ task'[t].pc = "approve.commit"

Predicted(t) ==
    LET m == task[t].id IN
    /\ UNCHANGED <<imports, learned>>
    /\ m \in Message /\ task'[t].id = m
    /\ task'[t].pc = "sync.insert"
    /\ Parsed(m) => task'[t].predicted = Predict(m, MerchantOf[Reports[m]], None)

Moves(t) == /\ Elsewhere(t) \/ Recomputes(t) \/ Checked(t) \/ Predicted(t)
            /\ \A u \in Task : u # t => task'[u] = task[u]

LEMMA MoveElsewhere ==
    ASSUME TypeInv, NEW t \in Task, NEW q, Become(t, q),
           q.pc \notin {"approve.commit", "sync.insert"}, ~Recomputing(q)
    PROVE  Moves(t) /\ Elsewhere(t)
BY DEF TypeInv, Become, Moves, Elsewhere

LEMMA MoveRecomputes ==
    ASSUME TypeInv, NEW r \in Request, NEW q, Become(r, q),
           q.pc \notin {"approve.commit", "sync.insert"},
           RecomputeRead(r) \/ RecomputePredict(r) \/ RecomputeWrite(r)
    PROVE  Moves(r)
BY DEF TypeInv, Become, Moves, Recomputes, Task

LEMMA MoveChecked ==
    ASSUME TypeInv, NEW t \in Task, NEW q \in Locals, NEW m \in Recorded, NEW account, NEW rename,
           NEW then, Approvable(m, account), UNCHANGED imports,
           Become(t, Approving(q, m, account, rename, then))
    PROVE  Moves(t)
<1> DEFINE p == Approving(q, m, account, rename, then)
<1>1. p.pc = "approve.commit" /\ p.id = m
  BY DEF Approving, Locals
<1> HIDE DEF p
<1>2. task'[t] = p /\ \A u \in Task : u # t => task'[u] = task[u]
  BY DEF TypeInv, Become, p
<1> QED BY <1>1, <1>2 DEF Moves, Checked

LEMMA IdleElsewhere == Idle.pc = "idle" /\ ~Recomputing(Idle)
BY DEF Idle, Recomputing

LEMMA CommitMoves ==
    ASSUME TypeInv, NEW t \in Task, ApproveCommit(t) PROVE Moves(t) /\ Elsewhere(t)
<1> DEFINE p == [task[t] EXCEPT !.pc = task[t].then]
<1>1. task[t] \in Locals
  BY LocalsOf
<1>2. p.pc \notin {"approve.commit", "sync.insert"} /\ ~Recomputing(p)
  BY <1>1 DEF Locals, Recomputing
<1> HIDE DEF p
<1>3. Become(t, p) \/ Become(t, Idle)
  BY DEF ApproveCommit, p
<1> QED BY <1>2, <1>3, IdleElsewhere, MoveElsewhere

LEMMA RequestMoves ==
    ASSUME TypeInv, NEW r \in Request, RequestStep(r) PROVE Moves(r) \/ UNCHANGED task
<1>1. r \in Task /\ task[r] \in Locals
  BY LocalsOf DEF Task
<1>2. CASE Approve(r)
  <2>1. PICK m \in Recorded, account \in accounts \cup {None}, rename \in Renames \cup {None} :
           /\ Approvable(m, account)
           /\ Become(r, Approving(Idle, m, account, rename, "recompute.read"))
    BY <1>2 DEF Approve
  <2> QED BY <1>1, <1>2, <2>1, IdleLocals, MoveChecked DEF Approve, tables
<1>3. CASE ApproveReady(r)
  <2>1. Become(r, [Idle EXCEPT !.pc = "approve_ready.next", !.queue = Ready])
    BY <1>3 DEF ApproveReady
  <2>2. [Idle EXCEPT !.pc = "approve_ready.next", !.queue = Ready].pc = "approve_ready.next"
    BY DEF Idle
  <2> QED BY <1>1, <2>1, <2>2, MoveElsewhere DEF Recomputing
<1>4. CASE ApproveReadyNext(r)
  <2> DEFINE q == task[r]
  <2>0. At(r, "approve_ready.next") /\ q.queue \subseteq Recorded /\ UNCHANGED imports
    BY <1>1, <1>4, LocalsOf DEF ApproveReadyNext, At, Prepared, tables
  <2>1. CASE Become(r, [q EXCEPT !.pc = "recompute.read"])
    <3>1. [q EXCEPT !.pc = "recompute.read"].pc = "recompute.read"
      BY <1>1 DEF Locals
    <3> QED BY <1>1, <2>1, <3>1, MoveElsewhere DEF Recomputing
  <2>2. ASSUME NEW m \in q.queue,
               Become(r, IF Approvable(m, None)
                         THEN Approving([q EXCEPT !.queue = q.queue \ {m}], m, None, None,
                                        "approve_ready.next")
                         ELSE [q EXCEPT !.queue = q.queue \ {m}])
        PROVE  Moves(r)
    <3> DEFINE rest == [q EXCEPT !.queue = q.queue \ {m}]
    <3>1. rest \in Locals /\ rest.pc = "approve_ready.next"
      BY <1>1, <2>0, ReadyRecorded DEF Locals, At
    <3> HIDE DEF rest
    <3>2. CASE Approvable(m, None)
      <4>1. Become(r, Approving(rest, m, None, None, "approve_ready.next"))
        BY <2>2, <3>2 DEF rest
      <4> QED BY <1>1, <2>0, <3>1, <3>2, <4>1, MoveChecked
    <3>3. CASE ~Approvable(m, None)
      <4>1. Become(r, rest)
        BY <2>2, <3>3 DEF rest
      <4> QED BY <1>1, <3>1, <4>1, MoveElsewhere DEF Recomputing
    <3> QED BY <3>2, <3>3
  <2> QED BY <1>4, <2>1, <2>2 DEF ApproveReadyNext
<1>5. CASE ApproveCommit(r)
  BY <1>1, <1>5, CommitMoves
<1>6. CASE Link(r) \/ DeleteAccount(r)
  <2>1. ASSUME NEW m, NEW a, NEW b, Become(r, [Idle EXCEPT !.pc = "link.update", !.id = m,
                                                        !.account = a, !.ready = b])
        PROVE  Moves(r)
    <3>1. [Idle EXCEPT !.pc = "link.update", !.id = m, !.account = a, !.ready = b].pc
             = "link.update"
      BY DEF Idle
    <3> QED BY <1>1, <2>1, <3>1, MoveElsewhere DEF Recomputing
  <2>2. ASSUME NEW a, Become(r, [Idle EXCEPT !.pc = "delete_account.delete", !.account = a])
        PROVE  Moves(r)
    <3>1. [Idle EXCEPT !.pc = "delete_account.delete", !.account = a].pc = "delete_account.delete"
      BY DEF Idle
    <3> QED BY <1>1, <2>2, <3>1, MoveElsewhere DEF Recomputing
  <2> QED BY <1>6, <2>1, <2>2 DEF Link, DeleteAccount
<1>7. CASE LinkUpdate(r) \/ LinkCard(r)
  <2>1. ASSUME NEW pc \in {"link.card", "link.default"}, Become(r, [task[r] EXCEPT !.pc = pc])
        PROVE  Moves(r)
    <3>1. [task[r] EXCEPT !.pc = pc].pc = pc
      BY <1>1 DEF Locals
    <3> QED BY <1>1, <2>1, <3>1, MoveElsewhere DEF Recomputing
  <2>2. CASE Return(r)
    BY <1>1, <2>2, IdleElsewhere, MoveElsewhere DEF Return, Recomputing
  <2> QED BY <1>7, <2>1, <2>2 DEF LinkUpdate, LinkCard
<1>8. CASE LinkDefault(r) \/ DeleteAccountDelete(r)
  BY <1>1, <1>8, IdleElsewhere, MoveElsewhere DEF LinkDefault, DeleteAccountDelete, Return, Recomputing
<1>9. CASE Reject(r)
  BY <1>9 DEF Reject
<1>10. CASE RecomputeRead(r)
  <2>1. ASSUME NEW todo, NEW rows,
               Become(r, [Idle EXCEPT !.pc = "recompute.predict", !.queue = todo, !.rows = rows])
        PROVE  Moves(r)
    <3>1. [Idle EXCEPT !.pc = "recompute.predict", !.queue = todo, !.rows = rows].pc
             = "recompute.predict"
      BY DEF Idle
    <3> QED BY <1>10, <2>1, <3>1, MoveRecomputes
  <2>2. CASE Become(r, Idle)
    BY <1>10, <2>2, IdleElsewhere, MoveRecomputes
  <2> QED BY <1>10, <2>1, <2>2 DEF RecomputeRead
<1>11. CASE RecomputePredict(r)
  <2>1. ASSUME NEW m, NEW queue, NEW p,
               Become(r, [task[r] EXCEPT !.pc = "recompute.write", !.id = m, !.queue = queue,
                                         !.predicted = p])
        PROVE  Moves(r)
    <3>1. [task[r] EXCEPT !.pc = "recompute.write", !.id = m, !.queue = queue,
                          !.predicted = p].pc = "recompute.write"
      BY <1>1 DEF Locals
    <3> QED BY <1>11, <2>1, <3>1, MoveRecomputes
  <2>2. CASE Become(r, Idle)
    BY <1>11, <2>2, IdleElsewhere, MoveRecomputes
  <2> QED BY <1>11, <2>1, <2>2 DEF RecomputePredict
<1>12. CASE RecomputeWrite(r)
  <2> DEFINE more == [task[r] EXCEPT !.pc = "recompute.predict", !.id = None, !.predicted = None]
  <2>1. more.pc = "recompute.predict"
    BY <1>1 DEF Locals
  <2> HIDE DEF more
  <2>2. Become(r, more) \/ Become(r, Idle)
    BY <1>12 DEF RecomputeWrite, Return, more
  <2> QED BY <1>12, <2>1, <2>2, IdleElsewhere, MoveRecomputes
<1> QED BY <1>2, <1>3, <1>4, <1>5, <1>6, <1>7, <1>8, <1>9, <1>10, <1>11, <1>12 DEF RequestStep

LEMMA SyncMoves ==
    ASSUME TypeInv, NEW s \in Sync, SyncStep(s) \/ SyncFails(s) \/ SyncFetchFails(s)
    PROVE  Moves(s)
<1> DEFINE q == task[s]
<1>1. s \in Task /\ q \in Locals
  BY LocalsOf DEF Task
<1>2. ASSUME NEW pc \in {"sync.finish", "sync.token", "sync.reload", "sync.list"},
             Become(s, [q EXCEPT !.pc = pc])
      PROVE  Moves(s)
  <2>1. [q EXCEPT !.pc = pc].pc = pc
    BY <1>1 DEF Locals
  <2> QED BY <1>1, <1>2, <2>1, MoveElsewhere DEF Recomputing
<1>3. CASE Return(s)
  BY <1>1, <1>3, IdleElsewhere, MoveElsewhere DEF Return, Recomputing
<1>4. CASE SyncLoad(s)
  <2>1. Become(s, [Idle EXCEPT !.pc = "sync.mark", !.auto = connection.auto])
    BY <1>4 DEF SyncLoad
  <2>2. [Idle EXCEPT !.pc = "sync.mark", !.auto = connection.auto].pc = "sync.mark"
    BY DEF Idle
  <2> QED BY <1>1, <2>1, <2>2, MoveElsewhere DEF Recomputing
<1>5. CASE SyncMark(s) \/ SyncUpsert(s) \/ SyncFinish(s)
  BY <1>2, <1>3, <1>5 DEF SyncMark, SyncUpsert, SyncFinish
<1>6. CASE SyncToken(s) \/ SyncReload(s)
  <2>1. ASSUME NEW pc \in {"sync.upsert", "sync.list"},
               Become(s, [q EXCEPT !.pc = pc, !.auto = connection.auto])
        PROVE  Moves(s)
    <3>1. [q EXCEPT !.pc = pc, !.auto = connection.auto].pc = pc
      BY <1>1 DEF Locals
    <3> QED BY <1>1, <2>1, <3>1, MoveElsewhere DEF Recomputing
  <2> QED BY <1>2, <1>6, <2>1 DEF SyncToken, SyncReload
<1>7. CASE SyncList(s) \/ SyncFails(s)
  <2>1. CASE Become(s, [q EXCEPT !.pc = "sync.next", !.queue = Listed])
    <3>1. [q EXCEPT !.pc = "sync.next", !.queue = Listed].pc = "sync.next"
      BY <1>1 DEF Locals
    <3> QED BY <1>1, <2>1, <3>1, MoveElsewhere DEF Recomputing
  <2>2. CASE Become(s, [Idle EXCEPT !.pc = "sync.finish"])
    BY <1>1, <2>2, FailedTypes, MoveElsewhere DEF Recomputing
  <2> QED BY <1>7, <2>1, <2>2 DEF SyncList, SyncFails
<1>8. CASE SyncNext(s)
  <2>1. ASSUME NEW queue, NEW pc \in {"sync.next", "sync.process"}, NEW id,
               Become(s, [q EXCEPT !.queue = queue, !.pc = pc, !.id = id])
        PROVE  Moves(s)
    <3>1. [q EXCEPT !.queue = queue, !.pc = pc, !.id = id].pc = pc
      BY <1>1 DEF Locals
    <3> QED BY <1>1, <2>1, <3>1, MoveElsewhere DEF Recomputing
  <2>2. CASE Become(s, [q EXCEPT !.pc = "sync.finish"])
    BY <1>2, <2>2
  <2>3. ASSUME NEW m \in q.queue,
               Become(s, [q EXCEPT !.queue = q.queue \ {m},
                                   !.pc = IF m \in Recorded THEN "sync.next" ELSE "sync.process",
                                   !.id = IF m \in Recorded THEN None ELSE m])
        PROVE  Moves(s)
    BY <2>1, <2>3
  <2> QED BY <1>8, <2>2, <2>3 DEF SyncNext
<1>9. CASE SyncFetchFails(s)
  <2>1. Become(s, [q EXCEPT !.pc = "sync.next", !.id = None])
    BY <1>9 DEF SyncFetchFails
  <2>2. [q EXCEPT !.pc = "sync.next", !.id = None].pc = "sync.next"
    BY <1>1 DEF Locals
  <2> QED BY <1>1, <2>1, <2>2, MoveElsewhere DEF Recomputing
<1>10. CASE SyncProcess(s)
  <2> DEFINE m == q.id
             predicted == Predict(m, MerchantOf[Reports[m]], None)
             unique == ~HashExists(HashOf(m, predicted.merchant))
             read == [q EXCEPT !.pc = "sync.insert", !.predicted = predicted, !.unique = unique]
             unread == [q EXCEPT !.pc = "sync.insert"]
  <2>1. /\ m \in Message /\ UNCHANGED <<imports, learned>>
        /\ Become(s, IF Parsed(m) THEN read ELSE unread)
    BY <1>1, <1>10, LocalsOf DEF SyncProcess, At, Prepared, tables
  <2> HIDE DEF predicted, unique
  <2>2. /\ read.pc = "sync.insert" /\ read.id = m /\ read.predicted = predicted
        /\ unread.pc = "sync.insert" /\ unread.id = m
    BY <1>1 DEF Locals
  <2> HIDE DEF read, unread
  <2>3. /\ task'[s] = IF Parsed(m) THEN read ELSE unread
        /\ \A u \in Task : u # s => task'[u] = task[u]
    BY <1>1, <2>1 DEF TypeInv, Become
  <2>4. Parsed(m) => task'[s].predicted = predicted
    BY <2>2, <2>3
  <2>5. task'[s].pc = "sync.insert" /\ task'[s].id = m
    BY <2>2, <2>3
  <2> QED BY <2>1, <2>3, <2>4, <2>5 DEF Moves, Predicted, predicted
<1>11. CASE SyncInsert(s)
  <2>1. NextMessage(q).pc = "sync.next"
    BY <1>1, NextMessageTypes
  <2>2. [q EXCEPT !.pc = "sync.approve", !.unique = FALSE].pc = "sync.approve"
    BY <1>1 DEF Locals
  <2>3. \/ Become(s, NextMessage(q)) \/ Become(s, [q EXCEPT !.pc = "sync.approve", !.unique = FALSE])
        \/ Become(s, [Idle EXCEPT !.pc = "sync.finish"])
    BY <1>11 DEF SyncInsert, AfterInsert
  <2> QED BY <1>1, <2>1, <2>2, <2>3, FailedTypes, MoveElsewhere DEF Recomputing
<1>12. CASE SyncApprove(s)
  <2> DEFINE rest == NextMessage(q)
             p == q.predicted
  <2>1. q.id \in Recorded /\ UNCHANGED imports
    BY <1>1, <1>12, LocalsOf DEF SyncApprove, At, Prepared, tables
  <2>2. rest \in Locals /\ rest.pc = "sync.next"
    BY <1>1, NextMessageTypes
  <2> HIDE DEF rest
  <2>3. CASE Approvable(q.id, p.account)
    <3>1. Become(s, Approving(rest, q.id, p.account, p.merchant, "sync.next"))
      BY <1>12, <2>3 DEF SyncApprove, rest
    <3> QED BY <1>1, <2>1, <2>2, <2>3, <3>1, MoveChecked
  <2>4. CASE ~Approvable(q.id, p.account)
    <3>1. Become(s, rest)
      BY <1>12, <2>4 DEF SyncApprove, rest
    <3> QED BY <1>1, <2>2, <3>1, MoveElsewhere DEF Recomputing
  <2> QED BY <2>3, <2>4
<1>13. CASE ApproveCommit(s)
  BY <1>1, <1>13, CommitMoves
<1> QED BY <1>3, <1>4, <1>5, <1>6, <1>7, <1>8, <1>9, <1>10, <1>11, <1>12, <1>13 DEF SyncStep

LEMMA AllMoves ==
    ASSUME TypeInv, [Next]_vars PROVE UNCHANGED task \/ \E t \in Task : Moves(t)
<1>1. Request \subseteq Task /\ Sync \subseteq Task
  BY DEF Task
<1>2. ASSUME NEW t \in Task, Return(t) PROVE Moves(t)
  BY <1>2, IdleElsewhere, MoveElsewhere DEF Return
<1>3. ASSUME NEW r \in Request, RequestStep(r) \/ CrashRequest(r)
      PROVE  UNCHANGED task \/ Moves(r)
  BY <1>1, <1>2, <1>3, RequestMoves DEF CrashRequest
<1>4. ASSUME NEW s \in Sync, SyncStep(s) \/ SyncFails(s) \/ SyncFetchFails(s) \/ CrashSync(s)
      PROVE  Moves(s)
  BY <1>1, <1>2, <1>4, SyncMoves DEF CrashSync
<1>5. CASE Connect \/ UpdatePreferences \/ Disconnect \/ Tomorrow \/ UNCHANGED vars
  BY <1>5 DEF Connect, UpdatePreferences, Disconnect, Tomorrow, vars
<1> QED BY <1>1, <1>3, <1>4, <1>5 DEF Next

LEMMA PredictedMerchant ==
    ASSUME NEW m \in Message
    PROVE  LET p == Predict(m, MerchantOf[Reports[m]], None)
           IN  p.merchant = MerchantOf[Reports[m]] \/ Renamed(m)
BY DEF Predict, Resolve, Known, Renamed

\* The row a sync is about to insert.
LEMMA InsertedHash ==
    ASSUME TypeInv, NEW s \in Sync, HashedTask(task[s]), At(s, "sync.insert")
    PROVE  LET m == task[s].id
               row == InsertedRow(task[s])
           IN  /\ row.hash # None =>
                     /\ Parsed(m)
                     /\ row.hash = HashOf(m, MerchantOf[Reports[m]]) \/ Renamed(m)
               /\ row.hash = None => row.status \in {"ignored", "failed"}
               /\ row.status = "failed" => ~Parsed(m)
<1> DEFINE q == task[s]
           m == q.id
           p == q.predicted
<1>1. m \in Message /\ (Parsed(m) => p \in Prediction)
  BY SyncTasks DEF SyncTask, At, Prepared
<1>2. CASE ~Parsed(m)
  BY <1>2 DEF InsertedRow, Unreadable
<1>3. CASE Parsed(m)
  <2>1. p.merchant \in Merchant /\ Reports[m] \in Charge
    BY <1>1, <1>3, MailAssumption DEF Prediction, Parsed
  <2>2. HashOf(m, p.merchant) # None
    BY <2>1, MailAssumption DEF HashOf, Hash
  <2>3. p.merchant = MerchantOf[Reports[m]] \/ Renamed(m)
    BY <1>3 DEF HashedTask, At
  <2> QED BY <1>3, <2>2, <2>3 DEF InsertedRow, Received
<1> QED BY <1>2, <1>3

LEMMA RowHashesStep ==
    ASSUME TypeInv, ApprovalAtomic, HashInv, [Next]_vars
    PROVE  RowHashes' /\ HashesDiffer'
<1>1. ASSUME NEW n \in Recorded PROVE n \in Message /\ HashedRow(n) /\ posted[n] \in Nat
  BY RecordedRows DEF HashInv, RowHashes, TypeInv, TablesOK
<1>2. ASSUME NEW n \in Recorded, Parsed(n), Renamed(n) PROVE Renamed(n)'
  BY <1>1, <1>2, RenamesStay
<1>3. CASE KeepEffect
  <2>1. RowHashes'
    BY <1>1, <1>2, <1>3 DEF KeepEffect, RowHashes, HashedRow, Parsed, HashOf
  <2>2. HashesDiffer'
    BY <1>3 DEF KeepEffect, HashInv, HashesDiffer
  <2> QED BY <2>1, <2>2
<1>4. ASSUME NEW m \in Recorded, RejectEffect(m) PROVE RowHashes' /\ HashesDiffer'
  <2>1. RowHashes'
    BY <1>1, <1>2, <1>4 DEF RejectEffect, RowHashes, HashedRow, Parsed, HashOf
  <2>2. HashesDiffer'
    BY <1>4 DEF RejectEffect, HashInv, HashesDiffer
  <2> QED BY <2>1, <2>2
<1>5. ASSUME NEW t \in Task, ApproveEffect(t) PROVE RowHashes' /\ HashesDiffer'
  <2>1. imports[task[t].id].hash # None
    BY <1>5 DEF ApproveEffect, At, HashInv, TaskHashes, HashedTask
  <2>2. \A n \in Recorded : n # task[t].id => posted'[n] = posted[n]
    BY <1>1, <1>5 DEF ApproveEffect, TypeInv, TablesOK
  <2>3. RowHashes'
    BY <1>1, <1>2, <1>5, <2>1, <2>2 DEF ApproveEffect, RowHashes, HashedRow, Parsed, HashOf
  <2>4. HashesDiffer'
    BY <1>5 DEF ApproveEffect, HashInv, HashesDiffer
  <2> QED BY <2>3, <2>4
<1>6. ASSUME NEW s \in Sync, InsertEffect(s) PROVE RowHashes' /\ HashesDiffer'
  <2>0. PICK m \in Message : m = task[s].id
    BY <1>6 DEF InsertEffect
  <2> DEFINE row == InsertedRow(task[s])
  <2>1. /\ m \in Message \ Recorded /\ Recorded' = Recorded \cup {m} /\ imports'[m] = row
        /\ posted' = posted /\ ~HashUsed(row.hash) /\ At(s, "sync.insert")
        /\ \A n \in Recorded : imports'[n] = imports[n]
    BY <1>6, <2>0 DEF InsertEffect
  <2>2. HashedTask(task[s])
    BY DEF HashInv, TaskHashes, Task
  <2>3. /\ row.hash # None =>
              /\ Parsed(m)
              /\ row.hash = HashOf(m, MerchantOf[Reports[m]]) \/ Renamed(m)
        /\ row.hash = None => row.status \in {"ignored", "failed"}
        /\ row.status = "failed" => ~Parsed(m)
    BY <2>0, <2>1, <2>2, InsertedHash
  <2>4. posted[m] = 0
    BY <2>1 DEF ApprovalAtomic, TypeInv, TablesOK
  <2>5. Parsed(m) /\ Renamed(m) => Renamed(m)'
    BY <2>1, RenamesStay
  <2> HIDE DEF row
  <2>6. HashedRow(m)'
    BY <2>1, <2>3, <2>4, <2>5 DEF HashedRow, Parsed, HashOf
  <2>7. ASSUME NEW n \in Recorded PROVE HashedRow(n)'
    BY <1>1, <1>2, <2>1 DEF HashedRow, Parsed, HashOf
  <2>8. RowHashes'
    BY <2>1, <2>6, <2>7 DEF RowHashes
  <2>9. HashesDiffer'
    BY <2>1 DEF HashUsed, HashInv, HashesDiffer
  <2> QED BY <2>8, <2>9
<1> QED BY <1>3, <1>4, <1>5, <1>6, Effects

LEMMA TaskHashesStep ==
    ASSUME TypeInv, HashInv, [Next]_vars PROVE TaskHashes'
<1> SUFFICES ASSUME NEW u \in Task PROVE HashedTask(task[u])'
  BY DEF TaskHashes
<1>1. ASSUME task'[u] = task[u] PROVE HashedTask(task[u])'
  <2>1. task[u] \in Locals /\ Prepared(task[u], Recorded) /\ HashedTask(task[u])
    BY LocalsOf DEF HashInv, TaskHashes
  <2>2. \A n \in Recorded : imports'[n].hash = imports[n].hash
    BY Effects DEF KeepEffect, RejectEffect, ApproveEffect, InsertEffect
  <2>3. task[u].pc = "approve.commit" => imports'[task[u].id].hash # None
    BY <2>1, <2>2 DEF Prepared, HashedTask
  <2>4. ASSUME NEW m \in Message, m = task[u].id, task[u].pc = "sync.insert", Parsed(m)
        PROVE  task[u].predicted.merchant = MerchantOf[Reports[m]] \/ Renamed(m)'
    BY <2>1, <2>4, RenamesStay DEF HashedTask
  <2>5. task[u].pc = "sync.insert" => task[u].id \in Message
    BY <2>1 DEF Prepared
  <2> QED BY <1>1, <2>3, <2>4, <2>5 DEF HashedTask, Parsed, Renamed
<1>2. ASSUME NEW t \in Task, Moves(t) PROVE HashedTask(task[u])'
  <2>1. CASE u # t
    BY <1>1, <1>2, <2>1 DEF Moves
  <2>2. CASE u = t /\ (Elsewhere(t) \/ Recomputes(t))
    BY <2>2 DEF Elsewhere, Recomputes, HashedTask
  <2>3. CASE u = t /\ Checked(t)
    <3>0. PICK m \in Recorded : m = task'[t].id
      BY <2>3 DEF Checked
    <3>1. /\ m \in Recorded /\ HashedRow(m) /\ imports' = imports /\ imports[m] \in Row
          /\ imports[m].status \notin {"imported", "ignored"} /\ Parsed(m)
      BY <2>3, <3>0, RecordedRows DEF Checked, Approvable, HashInv, RowHashes
    <3>2. imports'[m].hash # None
      BY <3>1 DEF HashedRow
    <3> QED BY <2>3, <3>0, <3>2 DEF Checked, HashedTask
  <2>4. CASE u = t /\ Predicted(t)
    <3>0. PICK m \in Message : m = task[t].id
      BY <2>4 DEF Predicted
    <3>1. m \in Message /\ task'[t].id = m /\ task'[t].pc = "sync.insert" /\ learned' = learned
      BY <2>4, <3>0 DEF Predicted
    <3>2. Parsed(m) => task'[t].predicted.merchant = MerchantOf[Reports[m]] \/ Renamed(m)
      BY <2>4, <3>0, <3>1, PredictedMerchant DEF Predicted
    <3> QED BY <2>4, <3>1, <3>2 DEF HashedTask, Parsed, Renamed
  <2> QED BY <1>2, <2>1, <2>2, <2>3, <2>4 DEF Moves
<1> QED BY <1>1, <1>2, AllMoves

LEMMA HashInit == Init => HashInv
<1> SUFFICES ASSUME Init PROVE HashInv
  OBVIOUS
<1>1. Recorded = {} /\ \A t \in Task : task[t] = Idle
  BY DEF Init, Recorded
<1>2. HashedTask(Idle)
  BY DEF HashedTask, Idle
<1> QED BY <1>1, <1>2 DEF HashInv, RowHashes, HashesDiffer, TaskHashes

LEMMA OneHashOneCharge ==
    ASSUME TypeInv, ApprovalAtomic, HashInv PROVE NoDuplicateCharge
<1> SUFFICES ASSUME NEW m \in Message, NEW n \in Message, m # n, posted[m] > 0, posted[n] > 0,
                    Reports[m] = Reports[n], ~Renamed(m)
             PROVE  FALSE
  BY DEF NoDuplicateCharge
<1>1. m \in Recorded /\ n \in Recorded /\ ~Renamed(n)
  BY DEF ApprovalAtomic, Renamed
<1>2. HashedRow(m) /\ HashedRow(n)
  BY <1>1 DEF HashInv, RowHashes
<1>3. imports[m].hash # None /\ imports[n].hash # None
  BY <1>2 DEF HashedRow, TypeInv, TablesOK
<1>4. imports[m].hash = imports[n].hash
  BY <1>1, <1>2, <1>3 DEF HashedRow, HashOf
<1> QED BY <1>1, <1>3, <1>4 DEF HashInv, HashesDiffer

\* Two e-mails about one charge never both become transactions, unless its
\* merchant was renamed, whatever syncs and requests run side by side.
THEOREM ChargesPostedOnce == Spec => []NoDuplicateCharge
<1> DEFINE Inv == ApprovalAtomic /\ HashInv
<1>1. Init => Inv
  BY HashInit DEF Init, ApprovalAtomic, Recorded
<1>2. TypeInv /\ Inv /\ [Next]_vars => Inv'
  BY AtomicStep, RowHashesStep, TaskHashesStep DEF HashInv
<1>3. TypeInv /\ Inv => NoDuplicateCharge
  BY OneHashOneCharge
<1> HIDE DEF Inv
<1> QED BY <1>1, <1>2, <1>3, TypeInvariant, PTL DEF Spec

-----------------------------------------------------------------------------
(* The flag of the connection.                                             *)

\* A sync goes on with its mailbox after an approval.
SyncsGoOn == \A s \in Sync : At(s, "approve.commit") => task[s].then = "sync.next"

\* What a step of sync s does to its own program counter.
SyncMoved(s) ==
    /\ Syncing(s) => Syncing(s)' \/ SyncFinish(s)
    /\ At(s, "approve.commit")' => task'[s].then = "sync.next"

LEMMA SyncBecomes ==
    ASSUME TypeInv, NEW s \in Sync, NEW q, Become(s, q)
    PROVE  task'[s] = q /\ \A u \in Sync : u # s => task'[u] = task[u]
BY DEF TypeInv, Become, Task

LEMMA SyncFlag ==
    ASSUME TypeInv, SyncsGoOn, NEW s \in Sync, SyncStep(s) \/ SyncFails(s) \/ SyncFetchFails(s)
    PROVE  SyncMoved(s) /\ \A u \in Sync : u # s => task'[u] = task[u]
<1> DEFINE q == task[s]
           Others == \A u \in Sync : u # s => task'[u] = task[u]
<1>1. q \in Locals
  BY SyncTasks DEF SyncTask
<1>2. ASSUME NEW p, Become(s, p), p.pc \notin {"idle", "sync.mark", "approve.commit"}
      PROVE  SyncMoved(s) /\ Others
  BY <1>2, SyncBecomes DEF SyncMoved, Syncing, At
<1>3. ASSUME NEW p, Become(s, p), p.pc \in {"idle", "sync.mark"}, ~Syncing(s)
      PROVE  SyncMoved(s) /\ Others
  BY <1>3, SyncBecomes DEF SyncMoved, At
<1>4. CASE SyncLoad(s)
  <2>1. Become(s, [Idle EXCEPT !.pc = "sync.mark", !.auto = connection.auto]) /\ ~Syncing(s)
    BY <1>4, IdleElsewhere DEF SyncLoad, Syncing
  <2>2. [Idle EXCEPT !.pc = "sync.mark", !.auto = connection.auto].pc = "sync.mark"
    BY DEF Idle
  <2> QED BY <1>3, <2>1, <2>2
<1>5. CASE SyncMark(s)
  <2>1. ~Syncing(s)
    BY <1>5 DEF SyncMark, At, Syncing
  <2>2. [q EXCEPT !.pc = "sync.token"].pc = "sync.token"
    BY <1>1 DEF Locals
  <2> QED BY <1>2, <1>3, <1>5, <2>1, <2>2, IdleElsewhere DEF SyncMark, Return
<1>6. CASE SyncToken(s) \/ SyncUpsert(s) \/ SyncReload(s)
  <2>1. /\ [q EXCEPT !.pc = "sync.upsert", !.auto = connection.auto].pc = "sync.upsert"
        /\ [q EXCEPT !.pc = "sync.list", !.auto = connection.auto].pc = "sync.list"
        /\ \A pc \in {"sync.reload", "sync.list", "sync.finish"} : [q EXCEPT !.pc = pc].pc = pc
    BY <1>1 DEF Locals
  <2> QED BY <1>2, <1>6, <2>1 DEF SyncToken, SyncUpsert, SyncReload
<1>7. CASE SyncList(s) \/ SyncFails(s)
  <2>1. [q EXCEPT !.pc = "sync.next", !.queue = Listed].pc = "sync.next"
    BY <1>1 DEF Locals
  <2> QED BY <1>2, <1>7, <2>1, FailedTypes DEF SyncList, SyncFails
<1>8. CASE SyncNext(s)
  <2>1. ASSUME NEW queue, NEW pc \in {"sync.next", "sync.process"}, NEW id,
               Become(s, [q EXCEPT !.queue = queue, !.pc = pc, !.id = id])
        PROVE  SyncMoved(s) /\ Others
    <3>1. [q EXCEPT !.queue = queue, !.pc = pc, !.id = id].pc = pc
      BY <1>1 DEF Locals
    <3> QED BY <1>2, <2>1, <3>1
  <2>2. ASSUME NEW m \in q.queue,
               Become(s, [q EXCEPT !.queue = q.queue \ {m},
                                   !.pc = IF m \in Recorded THEN "sync.next" ELSE "sync.process",
                                   !.id = IF m \in Recorded THEN None ELSE m])
        PROVE  SyncMoved(s) /\ Others
    BY <2>1, <2>2
  <2>3. CASE Become(s, [q EXCEPT !.pc = "sync.finish"])
    <3>1. [q EXCEPT !.pc = "sync.finish"].pc = "sync.finish"
      BY <1>1 DEF Locals
    <3> QED BY <1>2, <2>3, <3>1
  <2> QED BY <1>8, <2>2, <2>3 DEF SyncNext
<1>9. CASE SyncFetchFails(s)
  <2>1. [q EXCEPT !.pc = "sync.next", !.id = None].pc = "sync.next"
    BY <1>1 DEF Locals
  <2> QED BY <1>2, <1>9, <2>1 DEF SyncFetchFails
<1>10. CASE SyncProcess(s)
  <2>1. ASSUME NEW predicted, NEW unique,
               \/ Become(s, [q EXCEPT !.pc = "sync.insert", !.predicted = predicted,
                                     !.unique = unique])
               \/ Become(s, [q EXCEPT !.pc = "sync.insert"])
        PROVE  SyncMoved(s) /\ Others
    <3>1. /\ [q EXCEPT !.pc = "sync.insert", !.predicted = predicted,
                       !.unique = unique].pc = "sync.insert"
          /\ [q EXCEPT !.pc = "sync.insert"].pc = "sync.insert"
      BY <1>1 DEF Locals
    <3> QED BY <1>2, <2>1, <3>1
  <2> QED BY <1>10, <2>1 DEF SyncProcess
<1>11. CASE SyncInsert(s)
  <2>1. /\ NextMessage(q).pc = "sync.next"
        /\ [q EXCEPT !.pc = "sync.approve", !.unique = FALSE].pc = "sync.approve"
    BY <1>1, NextMessageTypes DEF Locals
  <2>2. \/ Become(s, NextMessage(q)) \/ Become(s, [q EXCEPT !.pc = "sync.approve", !.unique = FALSE])
        \/ Become(s, [Idle EXCEPT !.pc = "sync.finish"])
    BY <1>11 DEF SyncInsert, AfterInsert
  <2> QED BY <1>2, <2>1, <2>2, FailedTypes
<1>12. CASE SyncApprove(s)
  <2> DEFINE rest == NextMessage(q)
             p == Approving(rest, q.id, q.predicted.account, q.predicted.merchant, "sync.next")
  <2>1. rest \in Locals /\ rest.pc = "sync.next"
    BY <1>1, NextMessageTypes
  <2> HIDE DEF rest
  <2>2. p.pc = "approve.commit" /\ p.then = "sync.next"
    BY <2>1 DEF Approving, Locals
  <2> HIDE DEF p
  <2>3. Become(s, p) \/ Become(s, rest)
    BY <1>12 DEF SyncApprove, rest, p
  <2>4. CASE Become(s, p)
    BY <2>2, <2>4, SyncBecomes DEF SyncMoved, Syncing, At
  <2> QED BY <1>2, <2>1, <2>3, <2>4
<1>13. CASE ApproveCommit(s)
  <2>1. q.then = "sync.next"
    BY <1>13 DEF SyncsGoOn, ApproveCommit
  <2>2. [q EXCEPT !.pc = q.then].pc = "sync.next"
    BY <1>1, <2>1 DEF Locals
  <2>3. Become(s, [q EXCEPT !.pc = q.then])
    BY <1>13, <2>1 DEF ApproveCommit
  <2> QED BY <1>2, <2>2, <2>3
<1>14. CASE SyncFinish(s)
  <2>1. Become(s, Idle)
    BY <1>14 DEF SyncFinish, Return
  <2> QED BY <1>14, <2>1, SyncBecomes, IdleElsewhere DEF SyncMoved, At
<1> QED BY <1>4, <1>5, <1>6, <1>7, <1>8, <1>9, <1>10, <1>11, <1>12, <1>13, <1>14 DEF SyncStep

FlagInv == SyncsGoOn /\ FlagReleased

\* Requests do not touch the syncs.
LEMMA RequestsElsewhere ==
    ASSUME TypeInv, NEW r \in Request, RequestStep(r) \/ CrashRequest(r)
    PROVE  UNCHANGED <<connection, deaths>> /\ \A s \in Sync : task'[s] = task[s]
<1>1. r \notin Sync
  BY TaskAssumption
<1>2. UNCHANGED <<connection, deaths>>
  BY DEF RequestStep, CrashRequest, Approve, ApproveReady, ApproveReadyNext, ApproveCommit, Reject,
     Link, LinkUpdate, LinkCard, LinkDefault, RecomputeRead, RecomputePredict, RecomputeWrite,
     DeleteAccount, DeleteAccountDelete, tables, outside
<1>3. UNCHANGED task \/ Moves(r)
  <2>1. CASE RequestStep(r)
    BY <2>1, RequestMoves
  <2>2. CASE CrashRequest(r)
    BY <2>2, IdleElsewhere, MoveElsewhere DEF CrashRequest, Return, Task
  <2> QED BY <2>1, <2>2
<1> QED BY <1>1, <1>2, <1>3 DEF Moves, Task

LEMMA FlagStep ==
    ASSUME TypeInv, FlagInv, [Next]_vars PROVE FlagInv'
<1>1. ASSUME \A s \in Sync : task'[s] = task[s], deaths' = deaths,
             connection' # None /\ connection'.syncing => connection # None /\ connection.syncing
      PROVE  FlagInv'
  BY <1>1 DEF FlagInv, SyncsGoOn, FlagReleased, Syncing, At
<1>2. ASSUME NEW r \in Request, RequestStep(r) \/ CrashRequest(r) PROVE FlagInv'
  BY <1>1, <1>2, RequestsElsewhere
<1>3. CASE Connect \/ UpdatePreferences \/ Disconnect \/ Tomorrow
  <2>1. task' = task /\ deaths' = deaths
    BY <1>3 DEF Connect, UpdatePreferences, Disconnect, Tomorrow, outside
  <2>2. connection' # None /\ connection'.syncing => connection # None /\ connection.syncing
    BY <1>3 DEF Connect, UpdatePreferences, Disconnect, Tomorrow, tables, TypeInv, TablesOK
  <2> QED BY <1>1, <2>1, <2>2
<1>4. CASE UNCHANGED vars
  BY <1>1, <1>4 DEF vars
<1>5. ASSUME NEW s \in Sync, SyncStep(s) \/ SyncFails(s) \/ SyncFetchFails(s) PROVE FlagInv'
  <2>1. SyncMoved(s) /\ \A u \in Sync : u # s => task'[u] = task[u]
    BY <1>5, SyncFlag DEF FlagInv
  <2>2. SyncsGoOn'
    BY <2>1 DEF FlagInv, SyncsGoOn, SyncMoved, At
  <2>3. deaths' = deaths
    BY <1>5 DEF SyncStep, SyncFails, SyncFetchFails, SyncLoad, SyncMark, SyncToken, SyncUpsert,
       SyncReload, SyncList, SyncNext, SyncProcess, SyncInsert, SyncApprove, ApproveCommit,
       SyncFinish, outside
  <2>4. CASE SyncFinish(s)
    BY <2>2, <2>4 DEF FlagInv, FlagReleased, SyncFinish, TypeInv, TablesOK
  <2>5. CASE SyncMark(s) /\ ~SyncFinish(s)
    <3>1. CASE connection # None /\ ~connection.syncing
      <4>1. Become(s, [task[s] EXCEPT !.pc = "sync.token"])
        BY <2>5, <3>1 DEF SyncMark
      <4>2. [task[s] EXCEPT !.pc = "sync.token"].pc = "sync.token"
        BY SyncTasks DEF SyncTask, Locals
      <4>3. Syncing(s)'
        BY <4>1, <4>2, SyncBecomes DEF Syncing
      <4> QED BY <2>2, <4>3 DEF FlagInv, FlagReleased
    <3>2. CASE ~(connection # None /\ ~connection.syncing)
      <4>1. connection' = connection
        BY <2>5, <3>2 DEF SyncMark
      <4> QED BY <2>1, <2>2, <2>3, <2>5, <4>1 DEF FlagInv, FlagReleased, SyncMoved, Syncing
    <3> QED BY <3>1, <3>2
  <2>6. CASE ~SyncMark(s) /\ ~SyncFinish(s)
    <3>1. connection' # None /\ connection'.syncing => connection # None /\ connection.syncing
      <4>1. CASE SyncUpsert(s)
        BY <4>1 DEF SyncUpsert
      <4>2. CASE \/ SyncLoad(s) \/ SyncToken(s) \/ SyncReload(s) \/ SyncList(s)
                 \/ SyncNext(s) \/ SyncProcess(s) \/ SyncInsert(s) \/ SyncApprove(s)
                 \/ ApproveCommit(s) \/ SyncFails(s) \/ SyncFetchFails(s)
        BY <4>2 DEF SyncLoad, SyncToken, SyncReload, SyncList, SyncNext, SyncProcess,
           SyncInsert, SyncApprove, ApproveCommit, SyncFails, SyncFetchFails, tables
      <4> QED BY <1>5, <2>6, <4>1, <4>2 DEF SyncStep
    <3> QED BY <2>1, <2>2, <2>3, <2>6, <3>1 DEF FlagInv, FlagReleased, SyncMoved, Syncing
  <2> QED BY <2>4, <2>5, <2>6
<1>6. ASSUME NEW s \in Sync, CrashSync(s) PROVE FlagInv'
  <2>1. deaths' # 0 /\ Become(s, Idle)
    BY <1>6 DEF CrashSync, Return, TypeInv, BoundsOK
  <2>2. SyncsGoOn'
    BY <2>1, SyncBecomes, IdleElsewhere DEF FlagInv, SyncsGoOn, At
  <2> QED BY <2>1, <2>2 DEF FlagInv, FlagReleased
<1> QED BY <1>2, <1>3, <1>4, <1>5, <1>6 DEF Next

\* As long as no sync has died, the flag of the connection belongs to a sync
\* that runs, however many syncs overlap and however they end.
THEOREM FlagBelongsToSync == Spec => []FlagReleased
<1>1. Init => FlagInv
  BY IdleElsewhere DEF Init, FlagInv, SyncsGoOn, FlagReleased, At, Task
<1>2. TypeInv /\ FlagInv /\ [Next]_vars => FlagInv'
  BY FlagStep
<1>3. FlagInv => FlagReleased
  BY DEF FlagInv
<1> QED BY <1>1, <1>2, <1>3, TypeInvariant, PTL DEF Spec

-----------------------------------------------------------------------------
(* One transaction for an e-mail.                                          *)

\* No two approvals of one import overlap.
ApprovalsApart ==
    \A t, u \in Task :
       t # u /\ At(t, "approve.commit") /\ At(u, "approve.commit") => task[t].id # task[u].id

\* What is about to be approved has no transaction yet.
Unposted == \A t \in Task : At(t, "approve.commit") => posted[task[t].id] = 0

LEMMA PostedBy ==
    ASSUME TypeInv, [Next]_vars
    PROVE  \/ posted' = posted
           \/ \E t \in Task : /\ ApproveCommit(t) /\ At(t, "approve.commit") /\ task[t].id \in Recorded
                              /\ posted' = [posted EXCEPT ![task[t].id] = @ + 1]
BY Effects DEF KeepEffect, RejectEffect, ApproveEffect, InsertEffect

LEMMA PostedOnceStep ==
    ASSUME TypeInv, ApprovalAtomic, ApprovalsApart, PostedOnce, Unposted, [Next]_vars
    PROVE  PostedOnce' /\ Unposted'
<1>1. ASSUME NEW t \in Task, Checked(t) PROVE posted[task'[t].id] = 0
  BY <1>1, ReadyRecorded DEF Checked, Approvable, ApprovalAtomic, TypeInv, TablesOK
<1>2. CASE posted' = posted
  <2>1. PostedOnce'
    BY <1>2 DEF PostedOnce
  <2>2. ASSUME NEW t \in Task, task'[t] = task[t], At(t, "approve.commit")'
        PROVE  posted'[task'[t].id] = 0
    BY <1>2, <2>2 DEF Unposted, At
  <2>3. ASSUME NEW t \in Task, Moves(t), NEW u \in Task, At(u, "approve.commit")'
        PROVE  posted'[task'[u].id] = 0
    <3>1. CASE u # t
      BY <2>2, <2>3, <3>1 DEF Moves
    <3>2. CASE u = t
      BY <1>1, <1>2, <2>3, <3>2 DEF Moves, Elsewhere, Recomputes, Predicted, At
    <3> QED BY <3>1, <3>2
  <2> QED BY <2>1, <2>2, <2>3, AllMoves DEF Unposted
<1>3. ASSUME NEW t \in Task, ApproveCommit(t), At(t, "approve.commit"), task[t].id \in Recorded,
             posted' = [posted EXCEPT ![task[t].id] = @ + 1]
      PROVE  PostedOnce' /\ Unposted'
  <2> DEFINE m == task[t].id
  <2>1. m \in Message /\ posted[m] = 0
    BY <1>3, ReadyRecorded DEF Unposted
  <2>2. \A n \in Message : posted'[n] = IF n = m THEN 1 ELSE posted[n]
    BY <1>3, <2>1 DEF TypeInv, TablesOK
  <2>3. PostedOnce'
    BY <2>2 DEF PostedOnce
  <2>4. Elsewhere(t) /\ \A u \in Task : u # t => task'[u] = task[u]
    BY <1>3, CommitMoves DEF Moves
  <2>5. ASSUME NEW u \in Task, At(u, "approve.commit")' PROVE posted'[task'[u].id] = 0
    <3>1. u # t /\ task'[u] = task[u]
      BY <2>4, <2>5 DEF Elsewhere, At
    <3>2. At(u, "approve.commit") /\ task[u].id # m
      BY <1>3, <2>5, <3>1 DEF ApprovalsApart, At
    <3>3. task[u].id \in Message /\ posted[task[u].id] = 0
      BY <3>2, LocalsOf, ReadyRecorded DEF Unposted, Prepared, At
    <3> QED BY <2>2, <3>1, <3>2, <3>3
  <2> QED BY <2>3, <2>5 DEF Unposted
<1> QED BY <1>2, <1>3, PostedBy

LEMMA PostedInit == Init => PostedOnce /\ Unposted
BY IdleElsewhere DEF Init, PostedOnce, Unposted, At, Task

\* As long as no two approvals of one import overlap, whichever tasks they run
\* in, no e-mail becomes two transactions.
THEOREM OneTransactionEach == Spec /\ []ApprovalsApart => []PostedOnce
<1>1. Init => PostedOnce /\ Unposted
  BY PostedInit
<1>2. TypeInv /\ ApprovalAtomic /\ ApprovalsApart /\ (PostedOnce /\ Unposted) /\ [Next]_vars
         => (PostedOnce /\ Unposted)'
  BY PostedOnceStep
<1> QED BY <1>1, <1>2, TypeInvariant, ApprovalsAreAtomic, PTL DEF Spec

-----------------------------------------------------------------------------
(* What the user decided.                                                  *)

\* No import is rejected between the checks of its approval and the commit.
NotRejectedMeanwhile ==
    \A t \in Task : At(t, "approve.commit") => imports[task[t].id].status # "ignored"

\* No account is linked while predictions are recomputed.
LinksApart ==
    \A q, r \in Request : ~(At(q, "link.update") /\ Recomputing(task[r]))

\* The account "Confirmed by you", among those that still exist.
Confirmed(row, A) == IF row.confirmed /\ row.account \in A THEN row.account ELSE None

\* x, a row as it was read or a prediction, knows what the user confirmed for m.
Knows(x, m) ==
    m \in Recorded /\ (m \in Pending => Confirmed(x, accounts) = Confirmed(imports[m], accounts))

RecomputeKnows(q) ==
    /\ Recomputing(q) => \A m \in q.queue : Knows(q.rows[m], m)
    /\ q.pc = "recompute.write" => Knows(q.predicted, q.id)

RecomputesKnow == \A r \in Request : RecomputeKnows(task[r])

\* What is left of a confirmed account after a step.
Remaining(c) == IF c \in accounts' THEN c ELSE None

LEMMA ConfirmedLater ==
    ASSUME TypeInv, accounts' \subseteq accounts, NEW x
    PROVE  Confirmed(x, accounts') = Remaining(Confirmed(x, accounts))
BY MailAssumption DEF Confirmed, Remaining, TypeInv, TablesOK

\* A step leaves what the user confirmed for import n as it is, unless it links
\* the import or writes a prediction to it.
Steady(n) ==
    /\ accounts' \subseteq accounts /\ n \in Recorded'
    /\ n \in Pending' =>
          /\ n \in Pending
          /\ \/ Confirmed(imports'[n], accounts') = Remaining(Confirmed(imports[n], accounts))
             \/ \E r \in Request : At(r, "link.update") /\ task[r].id = n
             \/ \E r \in Request :
                   /\ At(r, "recompute.write") /\ task[r].id = n /\ accounts' = accounts
                   /\ Confirmed(imports'[n], accounts') = Confirmed(task[r].predicted, accounts)

LEMMA SameRowSteady ==
    ASSUME TypeInv, NEW n \in Recorded, imports'[n] = imports[n], accounts' = accounts
    PROVE  Steady(n)
BY ConfirmedLater, RecordedRows, MailAssumption DEF Steady, Recorded, Pending, Confirmed, Remaining

LEMMA OtherRowsSteady ==
    ASSUME TypeInv, NEW n \in Recorded, NEW m \in Recorded, NEW row,
           imports' = [imports EXCEPT ![m] = row], accounts' = accounts, n # m
    PROVE  Steady(n)
BY SameRowSteady, RecordedRows DEF TypeInv, TablesOK

LEMMA DecidedSteady ==
    ASSUME TypeInv, NEW n \in Recorded, NEW row \in Row, row.status # "pending_review",
           imports' = [imports EXCEPT ![n] = row], accounts' = accounts
    PROVE  Steady(n)
<1>1. n \in Message /\ imports'[n] = row
  BY RecordedRows DEF TypeInv, TablesOK
<1> QED BY <1>1, MailAssumption DEF Steady, Recorded, Pending

LEMMA CommitSteady ==
    ASSUME TypeInv, NEW t \in Task, ApproveCommit(t), NEW n \in Recorded PROVE Steady(n)
<1> DEFINE q == task[t]
           m == q.id
           row == [imports[m] EXCEPT !.status = "imported", !.merchant = q.merchant,
                                     !.account = q.account, !.confirmed = TRUE, !.ready = TRUE]
<1>1. /\ m \in Recorded /\ imports[m] \in Row /\ q.account \in Account /\ q.merchant \in Merchant
      /\ accounts' = accounts
  BY LocalsOf, RecordedRows DEF ApproveCommit, At, Prepared
<1>2. row \in Row /\ row.status = "imported"
  BY <1>1 DEF Row, Status
<1>3. UNCHANGED imports \/ imports' = [imports EXCEPT ![m] = row]
  BY DEF ApproveCommit
<1> HIDE DEF row
<1> QED BY <1>1, <1>2, <1>3, SameRowSteady, OtherRowsSteady, DecidedSteady

LEMMA RejectSteady ==
    ASSUME TypeInv, NEW r \in Request, Reject(r), NEW n \in Recorded PROVE Steady(n)
<1>1. PICK m \in Recorded : imports' = [imports EXCEPT ![m].status = "ignored"]
  BY DEF Reject
<1> DEFINE row == [imports[m] EXCEPT !.status = "ignored"]
<1>2. row \in Row /\ row.status = "ignored"
  BY RecordedRows DEF Row, Status
<1>3. imports' = [imports EXCEPT ![m] = row] /\ accounts' = accounts
  BY <1>1 DEF Reject
<1> HIDE DEF row
<1> QED BY <1>2, <1>3, OtherRowsSteady, DecidedSteady

LEMMA LinkSteady ==
    ASSUME TypeInv, NEW r \in Request, LinkUpdate(r), NEW n \in Recorded PROVE Steady(n)
<1> DEFINE q == task[r]
           m == q.id
           row == [imports[m] EXCEPT !.account = q.account, !.confirmed = TRUE, !.ready = q.ready]
<1>1. /\ At(r, "link.update") /\ m \in Recorded /\ imports[m] \in Row /\ accounts' = accounts
      /\ UNCHANGED imports \/ imports' = [imports EXCEPT ![m] = row]
  BY LocalsOf, RecordedRows DEF LinkUpdate, At, Prepared, Task
<1>2. row.status = imports[m].status
  BY <1>1 DEF Row
<1> HIDE DEF row
<1>3. CASE imports' = [imports EXCEPT ![m] = row] /\ n = m
  <2>1. n \in Message /\ imports'[n] = row
    BY <1>3, RecordedRows DEF TypeInv, TablesOK
  <2>2. n \in Recorded'
    BY <1>1, <1>3, LinkKeeps DEF KeepEffect
  <2> QED BY <1>1, <1>2, <1>3, <2>1, <2>2 DEF Steady, Pending
<1> QED BY <1>1, <1>3, SameRowSteady, OtherRowsSteady

LEMMA WriteSteady ==
    ASSUME TypeInv, NEW r \in Request, RecomputeWrite(r), NEW n \in Recorded PROVE Steady(n)
<1> DEFINE m == task[r].id
           p == task[r].predicted
           row == [imports[m] EXCEPT !.merchant = p.merchant, !.account = p.account,
                                     !.confirmed = p.confirmed, !.ready = p.ready]
<1>1. /\ At(r, "recompute.write") /\ p \in Prediction /\ accounts' = accounts
      /\ UNCHANGED imports \/ (m \in Pending /\ imports' = [imports EXCEPT ![m] = row])
  BY LocalsOf DEF RecomputeWrite, At, Prepared, Task
<1>2. CASE m \in Pending /\ imports' = [imports EXCEPT ![m] = row] /\ n = m
  <2>1. imports[m] \in Row /\ n \in Message /\ imports'[n] = row
    BY <1>2, RecordedRows DEF TypeInv, TablesOK
  <2>2. row.account = p.account /\ row.confirmed = p.confirmed
    BY <1>1, <2>1 DEF Row, Prediction
  <2> HIDE DEF row
  <2>3. Confirmed(imports'[n], accounts') = Confirmed(p, accounts)
    BY <1>1, <2>1, <2>2 DEF Confirmed
  <2>4. n \in Recorded'
    BY <1>2, RecomputeKeeps DEF KeepEffect
  <2> QED BY <1>1, <1>2, <2>3, <2>4 DEF Steady
<1>3. CASE m \in Pending /\ imports' = [imports EXCEPT ![m] = row] /\ n # m
  BY <1>1, <1>3, OtherRowsSteady DEF Pending
<1> QED BY <1>1, <1>2, <1>3, SameRowSteady

LEMMA DeletionSteady ==
    ASSUME TypeInv, NEW r \in Request, DeleteAccountDelete(r), NEW n \in Recorded PROVE Steady(n)
<1> DEFINE a == task[r].account
           row == [imports[n] EXCEPT !.account = None]
<1>1. n \in Message /\ imports[n] \in Row /\ accounts' = accounts \ {a}
  BY RecordedRows DEF DeleteAccountDelete
<1>2. imports'[n] = IF imports[n].account = a THEN row ELSE imports[n]
  BY <1>1 DEF DeleteAccountDelete
<1>3. row.status = imports[n].status /\ row.confirmed = imports[n].confirmed /\ row.account = None
  BY <1>1 DEF Row
<1> HIDE DEF row
<1>4. n \in Recorded'
  BY DeletionKeeps DEF KeepEffect
<1>5. imports'[n].status = imports[n].status
  BY <1>2, <1>3
<1>6. Confirmed(imports'[n], accounts') = Remaining(Confirmed(imports[n], accounts))
  BY <1>1, <1>2, <1>3, MailAssumption DEF Confirmed, Remaining, TypeInv, TablesOK
<1> QED BY <1>1, <1>4, <1>5, <1>6 DEF Steady, Pending

LEMMA InsertSteady ==
    ASSUME TypeInv, NEW s \in Sync, SyncInsert(s), NEW n \in Recorded PROVE Steady(n)
<1>1. accounts' = accounts
  BY DEF SyncInsert
<1>2. imports'[n] = imports[n]
  BY RecordedRows DEF SyncInsert, Fits, TypeInv, TablesOK
<1> QED BY <1>1, <1>2, SameRowSteady

LEMMA Steadies ==
    ASSUME TypeInv, [Next]_vars, NEW n \in Recorded PROVE Steady(n)
<1>1. CASE UNCHANGED <<imports, accounts>>
  BY <1>1, SameRowSteady
<1>2. ASSUME NEW r \in Request, RequestStep(r) PROVE Steady(n)
  <2>1. r \in Task
    BY DEF Task
  <2>2. CASE \/ ApproveCommit(r) \/ Reject(r) \/ LinkUpdate(r) \/ RecomputeWrite(r)
             \/ DeleteAccountDelete(r)
    BY <2>1, <2>2, CommitSteady, RejectSteady, LinkSteady, WriteSteady, DeletionSteady
  <2>3. CASE \/ Approve(r) \/ ApproveReady(r) \/ ApproveReadyNext(r) \/ Link(r)
             \/ LinkCard(r) \/ LinkDefault(r) \/ RecomputeRead(r) \/ RecomputePredict(r)
             \/ DeleteAccount(r)
    BY <1>1, <2>3 DEF Approve, ApproveReady, ApproveReadyNext, Link, LinkCard, LinkDefault,
       RecomputeRead, RecomputePredict, DeleteAccount, tables
  <2> QED BY <1>2, <2>2, <2>3 DEF RequestStep
<1>3. ASSUME NEW s \in Sync, SyncStep(s) \/ SyncFails(s) \/ SyncFetchFails(s) PROVE Steady(n)
  <2>1. s \in Task
    BY DEF Task
  <2>2. CASE ApproveCommit(s) \/ SyncInsert(s)
    BY <2>1, <2>2, CommitSteady, InsertSteady
  <2>3. CASE \/ SyncLoad(s) \/ SyncMark(s) \/ SyncToken(s) \/ SyncUpsert(s) \/ SyncReload(s)
             \/ SyncList(s) \/ SyncNext(s)
             \/ SyncProcess(s) \/ SyncApprove(s) \/ SyncFinish(s) \/ SyncFails(s)
             \/ SyncFetchFails(s)
    BY <1>1, <2>3 DEF SyncLoad, SyncMark, SyncToken, SyncUpsert, SyncReload, SyncList,
       SyncNext, SyncProcess,
       SyncApprove, SyncFinish, SyncFails, SyncFetchFails, tables
  <2> QED BY <1>3, <2>2, <2>3 DEF SyncStep
<1>4. CASE \/ Connect \/ UpdatePreferences \/ Disconnect \/ Tomorrow \/ UNCHANGED vars
           \/ \E r \in Request : CrashRequest(r)
           \/ \E s \in Sync : CrashSync(s)
  BY <1>1, <1>4 DEF Connect, UpdatePreferences, Disconnect, Tomorrow,
     CrashRequest, CrashSync, tables, vars
<1> QED BY <1>2, <1>3, <1>4 DEF Next

-----------------------------------------------------------------------------
(* Predictions know what was confirmed.                                    *)

LEMMA PredictKnows ==
    ASSUME TypeInv, NEW m, NEW row \in Row, Kept(row) \in accounts \cup {None}
    PROVE  Confirmed(Predict(m, row.merchant, Kept(row)), accounts) = Confirmed(row, accounts)
<1> DEFINE p == Predict(m, row.merchant, Kept(row))
<1>1. p.confirmed = (Kept(row) # None) /\ p.account = Suggestion(m, Kept(row)).account
  BY DEF Predict
<1>2. Kept(row) # None => Suggestion(m, Kept(row)).account = Kept(row)
  BY DEF Suggestion
<1> HIDE DEF p
<1>3. None \notin accounts
  BY MailAssumption DEF TypeInv, TablesOK
<1> QED BY <1>1, <1>2, <1>3 DEF Confirmed, Kept, p

\* What a recomputation knows stays true while no account is linked.
LEMMA StillKnows ==
    ASSUME TypeInv, [Next]_vars, NEW x, NEW m, Knows(x, m),
           \A q \in Request : ~At(q, "link.update"), RecomputesKnow
    PROVE  Knows(x, m)'
<1>1. m \in Recorded /\ Steady(m)
  BY Steadies DEF Knows
<1>2. CASE m \notin Pending'
  BY <1>1, <1>2 DEF Knows, Steady
<1>3. CASE m \in Pending'
  <2>1. /\ m \in Pending /\ m \in Recorded' /\ accounts' \subseteq accounts
        /\ Confirmed(x, accounts) = Confirmed(imports[m], accounts)
    BY <1>1, <1>3 DEF Steady, Knows
  <2>2. Confirmed(imports'[m], accounts') = Remaining(Confirmed(imports[m], accounts))
    <3>1. ASSUME NEW r \in Request, At(r, "recompute.write"), task[r].id = m, accounts' = accounts,
                 Confirmed(imports'[m], accounts') = Confirmed(task[r].predicted, accounts)
          PROVE  Confirmed(imports'[m], accounts') = Remaining(Confirmed(imports[m], accounts))
      <4>1. Confirmed(task[r].predicted, accounts) = Confirmed(imports[m], accounts)
        BY <2>1, <3>1 DEF RecomputesKnow, RecomputeKnows, Knows, At
      <4> QED BY <3>1, <4>1 DEF Remaining, Confirmed
    <3> QED BY <1>1, <1>3, <3>1 DEF Steady
  <2>3. Confirmed(x, accounts') = Remaining(Confirmed(x, accounts))
    BY <2>1, ConfirmedLater
  <2> QED BY <2>1, <2>2, <2>3 DEF Knows
<1> QED BY <1>2, <1>3

LEMMA ReadKnows ==
    ASSUME TypeInv, NEW r \in Request, RecomputeRead(r) PROVE RecomputeKnows(task[r])'
<1> DEFINE todo == {m \in Pending : Parsed(m)}
           rows == [m \in Message |-> IF m \in todo THEN imports[m] ELSE None]
           q == [Idle EXCEPT !.pc = "recompute.predict", !.queue = todo, !.rows = rows]
<1>1. /\ task'[r] = (IF todo = {} THEN Idle ELSE q) /\ UNCHANGED <<imports, accounts>>
  BY DEF RecomputeRead, Become, TypeInv, Task, tables
<1>2. \A m \in todo : m \in Recorded /\ rows[m] = imports[m]
  BY ReadyRecorded DEF Pending
<1> HIDE DEF todo, rows
<1>3. q.pc = "recompute.predict" /\ q.queue = todo /\ q.rows = rows
  BY DEF Idle
<1> HIDE DEF q
<1>4. \A m \in todo : m \in Recorded'
  BY <1>1, <1>2 DEF Recorded
<1>5. \A m, x : m \in todo /\ x = rows[m] => Knows(x, m)'
  BY <1>1, <1>2, <1>4 DEF Knows, Confirmed, Pending, Recorded
<1>6. CASE todo = {}
  BY <1>1, <1>6, IdleElsewhere DEF RecomputeKnows
<1>7. CASE todo # {}
  <2>1. task'[r] = q
    BY <1>1, <1>7
  <2>2. \A m \in todo : Knows(task[r].rows[m], m)'
    BY <1>3, <1>5, <2>1 DEF Knows
  <2> QED BY <1>3, <2>1, <2>2 DEF RecomputeKnows
<1> QED BY <1>6, <1>7

LEMMA PredictionKnows ==
    ASSUME TypeInv, NEW r \in Request, RecomputeKnows(task[r]), RecomputePredict(r)
    PROVE  RecomputeKnows(task[r])'
<1> DEFINE q == task[r]
<1>1. /\ r \in Task /\ q \in Locals /\ Prepared(q, Recorded) /\ q.pc = "recompute.predict"
      /\ UNCHANGED <<imports, accounts>>
  BY LocalsOf DEF Task, RecomputePredict, At, tables
<1>2. PICK m \in q.queue :
         LET row == q.rows[m] IN
         Become(r, IF Kept(row) \in accounts \cup {None}
                   THEN [q EXCEPT !.pc = "recompute.write", !.id = m, !.queue = q.queue \ {m},
                                  !.predicted = Predict(m, row.merchant, Kept(row))]
                   ELSE Idle)
  BY DEF RecomputePredict
<1> DEFINE row == q.rows[m]
           predicted == Predict(m, row.merchant, Kept(row))
           p == [q EXCEPT !.pc = "recompute.write", !.id = m, !.queue = q.queue \ {m},
                          !.predicted = predicted]
<1>3. row \in Row /\ \A n \in q.queue : Knows(q.rows[n], n)
  BY <1>1 DEF Prepared, RecomputeKnows, Recomputing
<1>4. \A x, n : Knows(x, n) => Knows(x, n)'
  BY <1>1 DEF Knows, Pending, Recorded
<1>5. CASE Kept(row) \in accounts \cup {None}
  <2>1. Knows(predicted, m)
    BY <1>3, <1>5, PredictKnows DEF Knows
  <2>2. task'[r] = p
    BY <1>1, <1>2, <1>5 DEF Become, TypeInv
  <2> HIDE DEF predicted
  <2>3. /\ p.id = m /\ p.queue = q.queue \ {m} /\ p.rows = q.rows /\ p.predicted = predicted
    BY <1>1 DEF Locals
  <2> HIDE DEF p
  <2> QED BY <1>3, <1>4, <2>1, <2>2, <2>3 DEF RecomputeKnows
<1>6. CASE Kept(row) \notin accounts \cup {None}
  <2>1. task'[r] = Idle
    BY <1>1, <1>2, <1>6 DEF Become, TypeInv
  <2> QED BY <2>1, IdleElsewhere DEF RecomputeKnows
<1> QED BY <1>5, <1>6

LEMMA WriteKnows ==
    ASSUME TypeInv, [Next]_vars, RecomputesKnow, NEW r \in Request, RecomputeWrite(r),
           \A q \in Request : ~At(q, "link.update")
    PROVE  RecomputeKnows(task[r])'
<1> DEFINE q == task[r]
           more == [q EXCEPT !.pc = "recompute.predict", !.id = None, !.predicted = None]
<1>1. r \in Task /\ q \in Locals /\ q.pc = "recompute.write"
  BY LocalsOf DEF Task, RecomputeWrite, At
<1>2. ASSUME NEW m \in q.queue, NEW x, x = q.rows[m] PROVE Knows(x, m)'
  <2>1. Knows(x, m)
    BY <1>1, <1>2 DEF RecomputesKnow, RecomputeKnows, Recomputing
  <2> QED BY <2>1, StillKnows
<1>3. more.pc = "recompute.predict" /\ more.queue = q.queue /\ more.rows = q.rows
  BY <1>1 DEF Locals
<1> HIDE DEF more
<1>4. task'[r] = more \/ task'[r] = Idle
  BY <1>1 DEF RecomputeWrite, Become, Return, TypeInv, more
<1>5. CASE task'[r] = more
  <2>1. \A m \in q.queue : Knows(q.rows[m], m)'
    BY <1>2, <1>3, <1>5 DEF Knows
  <2> QED BY <1>3, <1>5, <2>1 DEF RecomputeKnows
<1>6. CASE task'[r] = Idle
  BY <1>6, IdleElsewhere DEF RecomputeKnows
<1> QED BY <1>4, <1>5, <1>6

LEMMA RecomputesKnowStep ==
    ASSUME TypeInv, LinksApart, RecomputesKnow, [Next]_vars PROVE RecomputesKnow'
<1> SUFFICES ASSUME NEW r \in Request PROVE RecomputeKnows(task[r])'
  BY DEF RecomputesKnow
<1>0. r \in Task /\ RecomputeKnows(task[r])
  BY DEF Task, RecomputesKnow
<1>1. CASE task'[r] = task[r]
  <2>1. CASE ~Recomputing(task[r])
    BY <1>1, <2>1 DEF RecomputeKnows, Recomputing
  <2>2. CASE Recomputing(task[r])
    <3>1. \A q \in Request : ~At(q, "link.update")
      BY <2>2 DEF LinksApart
    <3>2. ASSUME NEW x, NEW m, Knows(x, m) PROVE Knows(x, m)'
      BY <3>1, <3>2, StillKnows
    <3>3. \A m \in task'[r].queue : Knows(task[r].rows[m], m)'
      BY <1>0, <1>1, <2>2, <3>2 DEF RecomputeKnows, Knows
    <3>4. task'[r].pc = "recompute.write" => Knows(task[r].predicted, task[r].id)'
      BY <1>0, <1>1, <3>2 DEF RecomputeKnows, Knows
    <3> QED BY <3>3, <3>4 DEF RecomputeKnows
  <2> QED BY <2>1, <2>2
<1>2. CASE Elsewhere(r) \/ Checked(r) \/ Predicted(r)
  BY <1>2 DEF Elsewhere, Checked, Predicted, RecomputeKnows, Recomputing
<1>3. CASE Recomputes(r)
  <2>1. CASE RecomputeRead(r)
    BY <2>1, ReadKnows
  <2>2. CASE RecomputePredict(r)
    BY <1>0, <2>2, PredictionKnows
  <2>3. CASE RecomputeWrite(r)
    <3>1. \A q \in Request : ~At(q, "link.update")
      BY <2>3 DEF LinksApart, RecomputeWrite, At, Recomputing
    <3> QED BY <2>3, <3>1, WriteKnows
  <2> QED BY <1>3, <2>1, <2>2, <2>3 DEF Recomputes
<1> QED BY <1>0, <1>1, <1>2, <1>3, AllMoves DEF Moves

LEMMA KnowInit == Init => RecomputesKnow
BY IdleElsewhere DEF Init, RecomputesKnow, RecomputeKnows, Task

LEMMA RejectionStep ==
    ASSUME TypeInv, NotRejectedMeanwhile, [Next]_vars, NEW m \in Message PROVE RejectionKept(m)
<1> SUFFICES ASSUME m \in Recorded, imports[m].status = "ignored"
             PROVE  imports'[m].status = "ignored" /\ posted'[m] = posted[m]
  BY DEF RejectionKept
<1>1. ASSUME NEW t \in Task, ApproveEffect(t)
      PROVE  imports'[m].status = "ignored" /\ posted'[m] = posted[m]
  <2>1. m # task[t].id
    BY <1>1 DEF NotRejectedMeanwhile, ApproveEffect
  <2> QED BY <1>1, <2>1 DEF ApproveEffect, TypeInv, TablesOK
<1> QED BY <1>1, Effects DEF KeepEffect, RejectEffect, InsertEffect

LEMMA ConfirmationStep ==
    ASSUME TypeInv, RecomputesKnow, [Next]_vars, NEW m \in Message PROVE ConfirmationKept(m)
<1> SUFFICES ASSUME m \in Pending, imports[m].confirmed, m \in Pending',
                    imports[m].account \in accounts',
                    ~\E r \in Request : At(r, "link.update") /\ task[r].id = m
             PROVE  imports'[m].account = imports[m].account /\ imports'[m].confirmed
  BY DEF ConfirmationKept
<1>1. m \in Recorded /\ Steady(m)
  BY Steadies DEF Pending
<1>2. imports[m].account \in accounts /\ imports[m].account # None
  BY <1>1, MailAssumption DEF Steady, TypeInv, TablesOK
<1>3. Confirmed(imports[m], accounts) = imports[m].account
  BY <1>2 DEF Confirmed
<1>4. Confirmed(imports'[m], accounts') = imports[m].account
  <2>1. CASE Confirmed(imports'[m], accounts') = Remaining(Confirmed(imports[m], accounts))
    BY <1>3, <2>1 DEF Remaining
  <2>2. ASSUME NEW r \in Request, At(r, "recompute.write"), task[r].id = m,
               Confirmed(imports'[m], accounts') = Confirmed(task[r].predicted, accounts)
        PROVE  Confirmed(imports'[m], accounts') = imports[m].account
    BY <1>3, <2>2 DEF RecomputesKnow, RecomputeKnows, Knows, At
  <2> QED BY <1>1, <2>1, <2>2 DEF Steady
<1> QED BY <1>2, <1>4 DEF Confirmed

\* As long as no import is rejected while its approval is under way and no
\* account is linked while predictions are recomputed, what the user decided is
\* kept: these two overlaps are the only ways to lose a decision.
THEOREM DecisionsAreKept == Spec /\ []NotRejectedMeanwhile /\ []LinksApart => DecisionsKept
<1>1. Init => RecomputesKnow
  BY KnowInit
<1>2. TypeInv /\ LinksApart /\ RecomputesKnow /\ [Next]_vars => RecomputesKnow'
  BY RecomputesKnowStep
<1>3. TypeInv /\ RecomputesKnow /\ NotRejectedMeanwhile /\ [Next]_vars
         => [\A m \in Message : RejectionKept(m) /\ ConfirmationKept(m)]_vars
  BY RejectionStep, ConfirmationStep
<1> QED BY <1>1, <1>2, <1>3, TypeInvariant, PTL DEF Spec, DecisionsKept

-----------------------------------------------------------------------------
(* One reviewer.                                                           *)

\* A sync that leaves the approval to the user.
Leaves(q) == q.auto = FALSE /\ q.pc \notin {"sync.approve", "approve.commit"}

SyncsLeave ==
    /\ connection # None => connection.auto = FALSE
    /\ \A s \in Sync : Leaves(task[s])

LEMMA IdleLeaves == Leaves(Idle)
BY DEF Leaves, Idle

LEMMA SyncLeaves ==
    ASSUME TypeInv, SyncsLeave, NEW s \in Sync, SyncStep(s) \/ SyncFails(s) \/ SyncFetchFails(s)
    PROVE  SyncsLeave'
<1> DEFINE q == task[s]
           Manual == connection' # None => connection'.auto = FALSE
<1>1. /\ q \in Locals /\ Leaves(q) /\ (connection # None => connection.auto = FALSE)
      /\ connection \in [syncing : BOOLEAN, auto : BOOLEAN] \cup {None}
  BY SyncTasks DEF SyncTask, SyncsLeave, TypeInv, TablesOK
<1>2. ASSUME NEW p, Become(s, p), p.auto = FALSE, p.pc \notin {"sync.approve", "approve.commit"},
             Manual
      PROVE  SyncsLeave'
  BY <1>2, SyncBecomes DEF SyncsLeave, Leaves
<1>3. CASE Return(s) /\ Manual
  BY <1>2, <1>3, IdleLeaves DEF Return, Leaves
<1>4. CASE SyncLoad(s)
  <2> DEFINE p == [Idle EXCEPT !.pc = "sync.mark", !.auto = connection.auto]
  <2>1. p.pc = "sync.mark" /\ p.auto = FALSE
    BY <1>1, <1>4 DEF SyncLoad, Idle
  <2>2. Become(s, p) /\ Manual
    BY <1>1, <1>4 DEF SyncLoad, tables
  <2> HIDE DEF p
  <2> QED BY <1>2, <2>1, <2>2
<1>5. CASE SyncMark(s)
  <2>1. [q EXCEPT !.pc = "sync.token"].pc = "sync.token" /\ [q EXCEPT !.pc = "sync.token"].auto = FALSE
    BY <1>1 DEF Locals, Leaves
  <2>2. Manual
    BY <1>1, <1>5 DEF SyncMark
  <2> QED BY <1>2, <1>3, <1>5, <2>1, <2>2 DEF SyncMark
<1>a. ASSUME NEW pc \in {"sync.reload", "sync.list", "sync.finish"},
             Become(s, [q EXCEPT !.pc = pc]), Manual
      PROVE  SyncsLeave'
  <2>1. [q EXCEPT !.pc = pc].pc = pc /\ [q EXCEPT !.pc = pc].auto = FALSE
    BY <1>1 DEF Locals, Leaves
  <2> QED BY <1>2, <1>a, <2>1
<1>b. ASSUME NEW pc \in {"sync.upsert", "sync.list"}, connection # None,
             Become(s, [q EXCEPT !.pc = pc, !.auto = connection.auto]), Manual
      PROVE  SyncsLeave'
  <2> DEFINE p == [q EXCEPT !.pc = pc, !.auto = connection.auto]
  <2>1. p.pc = pc /\ p.auto = FALSE
    BY <1>1, <1>b DEF Locals
  <2> HIDE DEF p
  <2> QED BY <1>2, <1>b, <2>1 DEF p
<1>6. CASE SyncToken(s) \/ SyncReload(s)
  <2>1. Manual
    BY <1>1, <1>6 DEF SyncToken, SyncReload, tables
  <2> QED BY <1>a, <1>b, <1>6, <2>1 DEF SyncToken, SyncReload
<1>7. CASE SyncUpsert(s) \/ SyncList(s) \/ SyncFails(s)
  <2>1. CASE SyncUpsert(s)
    <3>1. Manual
      BY <1>1, <2>1 DEF SyncUpsert, Leaves
    <3> QED BY <1>a, <2>1, <3>1 DEF SyncUpsert
  <2>2. CASE SyncList(s)
    <3> DEFINE p == [q EXCEPT !.pc = "sync.next", !.queue = Listed]
    <3>1. p.pc = "sync.next" /\ p.auto = FALSE
      BY <1>1 DEF Locals, Leaves
    <3>2. Become(s, p) /\ Manual
      BY <1>1, <2>2 DEF SyncList, tables
    <3> HIDE DEF p
    <3> QED BY <1>2, <3>1, <3>2
  <2>3. CASE SyncFails(s)
    <3>1. Manual
      BY <1>1, <2>3 DEF SyncFails, tables
    <3> QED BY <1>2, <2>3, <3>1, FailedTypes DEF SyncFails
  <2> QED BY <1>7, <2>1, <2>2, <2>3
<1>8. CASE SyncNext(s)
  <2>0. Manual
    BY <1>1, <1>8 DEF SyncNext, tables
  <2>1. ASSUME NEW queue, NEW pc \in {"sync.next", "sync.process"}, NEW id,
               Become(s, [q EXCEPT !.queue = queue, !.pc = pc, !.id = id])
        PROVE  SyncsLeave'
    <3> DEFINE p == [q EXCEPT !.queue = queue, !.pc = pc, !.id = id]
    <3>1. p.pc = pc /\ p.auto = FALSE
      BY <1>1 DEF Locals, Leaves
    <3> HIDE DEF p
    <3> QED BY <1>2, <2>0, <2>1, <3>1 DEF p
  <2>2. ASSUME NEW m \in q.queue,
               Become(s, [q EXCEPT !.queue = q.queue \ {m},
                                   !.pc = IF m \in Recorded THEN "sync.next" ELSE "sync.process",
                                   !.id = IF m \in Recorded THEN None ELSE m])
        PROVE  SyncsLeave'
    BY <2>1, <2>2
  <2>3. CASE Become(s, [q EXCEPT !.pc = "sync.finish"])
    <3>1. [q EXCEPT !.pc = "sync.finish"].pc = "sync.finish"
          /\ [q EXCEPT !.pc = "sync.finish"].auto = FALSE
      BY <1>1 DEF Locals, Leaves
    <3> QED BY <1>2, <2>0, <2>3, <3>1
  <2> QED BY <1>8, <2>2, <2>3 DEF SyncNext
<1>9. CASE SyncFetchFails(s)
  <2> DEFINE p == [q EXCEPT !.pc = "sync.next", !.id = None]
  <2>1. p.pc = "sync.next" /\ p.auto = FALSE
    BY <1>1 DEF Locals, Leaves
  <2>2. Become(s, p) /\ Manual
    BY <1>1, <1>9 DEF SyncFetchFails, tables
  <2> HIDE DEF p
  <2> QED BY <1>2, <2>1, <2>2
<1>10. CASE SyncProcess(s)
  <2>0. Manual
    BY <1>1, <1>10 DEF SyncProcess, tables
  <2>1. ASSUME NEW predicted, NEW unique,
               \/ Become(s, [q EXCEPT !.pc = "sync.insert", !.predicted = predicted,
                                     !.unique = unique])
               \/ Become(s, [q EXCEPT !.pc = "sync.insert"])
        PROVE  SyncsLeave'
    <3> DEFINE a == [q EXCEPT !.pc = "sync.insert", !.predicted = predicted, !.unique = unique]
               b == [q EXCEPT !.pc = "sync.insert"]
    <3>1. a.pc = "sync.insert" /\ a.auto = FALSE /\ b.pc = "sync.insert" /\ b.auto = FALSE
      BY <1>1 DEF Locals, Leaves
    <3> HIDE DEF a, b
    <3> QED BY <1>2, <2>0, <2>1, <3>1 DEF a, b
  <2> QED BY <1>10, <2>1 DEF SyncProcess
<1>11. CASE SyncInsert(s)
  <2> DEFINE p == [Idle EXCEPT !.pc = "sync.finish"]
  <2>0. Manual
    BY <1>1, <1>11 DEF SyncInsert
  <2>1. Become(s, NextMessage(q)) \/ Become(s, p)
    BY <1>1, <1>11 DEF SyncInsert, AfterInsert, Leaves
  <2>2. /\ NextMessage(q).pc = "sync.next" /\ NextMessage(q).auto = FALSE
        /\ p.pc = "sync.finish" /\ p.auto = FALSE
    BY <1>1 DEF NextMessage, Locals, Leaves, Idle
  <2> QED BY <1>2, <2>0, <2>1, <2>2
<1>12. CASE SyncApprove(s) \/ ApproveCommit(s)
  BY <1>1, <1>12 DEF SyncApprove, ApproveCommit, At, Leaves
<1>13. CASE SyncFinish(s)
  <2>1. Manual
    BY <1>1, <1>13 DEF SyncFinish
  <2> QED BY <1>3, <1>13, <2>1 DEF SyncFinish
<1> QED BY <1>4, <1>5, <1>6, <1>7, <1>8, <1>9, <1>10, <1>11, <1>12, <1>13 DEF SyncStep

LEMMA SyncsLeaveStep ==
    ASSUME TRUE \notin AutoApprove, TypeInv, SyncsLeave, [Next]_vars PROVE SyncsLeave'
<1>1. ASSUME \A s \in Sync : task'[s] = task[s], connection' = connection PROVE SyncsLeave'
  BY <1>1 DEF SyncsLeave, Leaves
<1>2. ASSUME NEW r \in Request, RequestStep(r) \/ CrashRequest(r) PROVE SyncsLeave'
  BY <1>1, <1>2, RequestsElsewhere
<1>3. CASE Connect \/ UpdatePreferences \/ Disconnect \/ Tomorrow
  <2>1. task' = task
    BY <1>3 DEF Connect, UpdatePreferences, Disconnect, Tomorrow
  <2>2. connection' # None => connection'.auto = FALSE
    <3>1. CASE UpdatePreferences
      <4>1. PICK auto \in AutoApprove : connection' = [connection EXCEPT !.auto = auto]
        BY <3>1 DEF UpdatePreferences
      <4>2. auto = FALSE /\ connection \in [syncing : BOOLEAN, auto : BOOLEAN]
        BY <3>1, TaskAssumption DEF UpdatePreferences, TypeInv, TablesOK
      <4> QED BY <4>1, <4>2
    <3>2. CASE Connect \/ Disconnect \/ Tomorrow
      BY <3>2 DEF Connect, Disconnect, Tomorrow, SyncsLeave, tables
    <3> QED BY <1>3, <3>1, <3>2
  <2> QED BY <2>1, <2>2 DEF SyncsLeave, Leaves
<1>4. CASE UNCHANGED vars
  BY <1>1, <1>4 DEF vars
<1>5. ASSUME NEW s \in Sync, CrashSync(s) PROVE SyncsLeave'
  BY <1>5, SyncBecomes, IdleLeaves DEF CrashSync, Return, SyncsLeave, Leaves, tables
<1> QED BY <1>2, <1>3, <1>4, <1>5, SyncLeaves DEF Next

OneReviewer == \A q, r \in Request : q = r

\* With one reviewer nothing happens to an import between the checks of its
\* approval and the commit.
LEMMA ReviewStep ==
    ASSUME OneReviewer, TypeInv, SyncsLeave, NotRejectedMeanwhile, [Next]_vars
    PROVE  NotRejectedMeanwhile'
<1> SUFFICES ASSUME NEW u \in Task, At(u, "approve.commit")'
             PROVE  imports'[task'[u].id].status # "ignored"
  BY DEF NotRejectedMeanwhile
<1>1. CASE task'[u] = task[u]
  <2>1. At(u, "approve.commit") /\ task[u].id \in Recorded /\ imports[task[u].id].status # "ignored"
    BY <1>1, LocalsOf DEF At, Prepared, NotRejectedMeanwhile
  <2>2. u \in Request
    BY <2>1 DEF SyncsLeave, Leaves, At, Task
  <2>3. ASSUME NEW r \in Request, Reject(r) PROVE FALSE
    BY <2>1, <2>2, <2>3, IdleElsewhere DEF Reject, Calls, At, OneReviewer
  <2> QED BY <1>1, <2>1, <2>3, Effects DEF KeepEffect, ApproveEffect, InsertEffect
<1>2. CASE Checked(u)
  BY <1>2 DEF Checked, Approvable
<1>3. CASE Elsewhere(u) \/ Recomputes(u) \/ Predicted(u)
  BY <1>3 DEF Elsewhere, Recomputes, Predicted, At
<1> QED BY <1>1, <1>2, <1>3, AllMoves DEF Moves

\* One reviewer at a time, next to any number of syncs that leave the approval
\* to the user: no e-mail becomes two transactions, and what the user decided is
\* kept, whatever dies or fails.
THEOREM OneReviewerKeeps ==
    ASSUME OneReviewer, TRUE \notin AutoApprove
    PROVE  Spec => []PostedOnce /\ DecisionsKept
<1> DEFINE Inv == SyncsLeave /\ NotRejectedMeanwhile
<1>1. Init => Inv
  BY IdleElsewhere, IdleLeaves DEF Init, SyncsLeave, NotRejectedMeanwhile, At, Task
<1>2. TypeInv /\ Inv /\ [Next]_vars => Inv'
  BY SyncsLeaveStep, ReviewStep
<1>3. Inv => ApprovalsApart
  BY DEF SyncsLeave, Leaves, ApprovalsApart, OneReviewer, At, Task
<1>4. LinksApart
  BY DEF LinksApart, OneReviewer, At, Recomputing
<1>5. Inv => NotRejectedMeanwhile
  OBVIOUS
<1> HIDE DEF Inv
<1> QED BY <1>1, <1>2, <1>3, <1>4, <1>5, TypeInvariant, OneTransactionEach, DecisionsAreKept,
           PTL DEF Spec
=============================================================================
