------------------------------ MODULE Imports ------------------------------
(***************************************************************************)
(* Bank alert e-mails on their way to transactions                         *)
(* (services/gmail_sync_service.rs).                                       *)
(*                                                                         *)
(* While Gmail is connected, a sync turns each e-mail of the mailbox into  *)
(* one row of email_transaction_imports, with a prediction made from what  *)
(* the user approved before.  The user approves, rejects or links the      *)
(* rows; a row that is ready may be approved by the sync itself.  Only the *)
(* INSERT of a transaction and the change of its import share an SQL       *)
(* transaction: everything else is a statement of its own.                 *)
(*                                                                         *)
(* The e-mails come from one bank in one currency, in which all accounts   *)
(* are kept.  An e-mail reports a charge (amount, time and merchant) on a  *)
(* card, or cannot be parsed.  Time passes, and a sync only asks Gmail for *)
(* the newest e-mails of the last 30 days, so many at most.                *)
(***************************************************************************)
EXTENDS Integers, FiniteSets

CONSTANTS
    Message,          \* e-mails in the mailbox
    Charge,
    Sent,             \* the day a message was sent; Gmail lists the latest first
    Window,           \* newer_than:30d
    MaxPerRun,        \* max_sync_messages_per_run
    MaxDay,           \* bound on the days that pass
    Reports,          \* the charge a message reports, None if no parser reads it
    Card,
    CardOf,           \* the card a message names, None if it names none
    Merchant,
    MerchantOf,       \* the merchant of a charge, as the bank writes it
    Renames,          \* merchant names a client may send on approval
    Account,
    Request,          \* tasks that serve requests
    Sync,             \* tasks that run a sync
    Endpoints,        \* the endpoints the clients call (bounds the run)
    AutoApprove,      \* settings of auto_approve_ready_imports
    MaxFailures,      \* bound on calls of Google and statements that fail
    MaxDeaths,        \* bound on syncs that die
    None

Task   == Request \cup Sync
Status == {"pending_review", "imported", "ignored", "failed"}
Hash   == Charge \X Merchant

Row == [status : Status,
        merchant : Merchant \cup {None},      \* in parsed_transaction
        hash : Hash \cup {None},
        account : Account \cup {None},        \* matched_account_id
        confirmed : BOOLEAN,                  \* account_match_reason is "Confirmed by you"
        ready : BOOLEAN]

Prediction == [merchant : Merchant, account : Account \cup {None},
               confirmed : BOOLEAN, ready : BOOLEAN]

ASSUME MailAssumption ==
    /\ Reports \in [Message -> Charge \cup {None}] /\ None \notin Charge
    /\ CardOf \in [Message -> Card \cup {None}] /\ None \notin Card
    /\ MerchantOf \in [Charge -> Merchant] /\ None \notin Merchant
    /\ Renames \subseteq Merchant /\ None \notin Account /\ None \notin Message
    /\ None \notin Row /\ None \notin Prediction /\ None \notin Hash
    /\ Account # {} /\ IsFiniteSet(Account)

ASSUME ListingAssumption ==
    /\ Sent \in [Message -> Nat]
    /\ \A m, n \in Message : Sent[m] = Sent[n] => m = n
    /\ Window \in Nat /\ MaxPerRun \in Nat /\ MaxDay \in Nat

ASSUME TaskAssumption ==
    /\ Request \cap Sync = {} /\ AutoApprove \subseteq BOOLEAN
    /\ MaxFailures \in Nat /\ MaxDeaths \in Nat

VARIABLES
    imports,      \* table email_transaction_imports, by message
    posted,       \* how many transactions were made from each import
    accounts,     \* the user's accounts
    active,       \* those that transactions refer to
    learned,      \* alias and category rules, card mappings, bank default
    connection,   \* the row of gmail_connections, None if there is none
    task,         \* what each task is doing
    today,
    failures, deaths

tables == <<imports, posted, accounts, active, learned, connection>>
outside == <<today, failures, deaths>>
vars   == <<imports, posted, accounts, active, learned, connection, task,
            today, failures, deaths>>

-----------------------------------------------------------------------------
(* Tasks.                                                                  *)

Step == {"idle", "approve.commit", "approve_ready.next",
         "recompute.read", "recompute.predict", "recompute.write",
         "link.update", "link.card", "link.default", "delete_account.delete",
         "sync.mark", "sync.token", "sync.upsert", "sync.reload", "sync.list",
         "sync.next", "sync.process", "sync.insert", "sync.approve", "sync.finish"}

Locals == [pc : Step,
           then : {"idle", "recompute.read", "approve_ready.next", "sync.next"},
           id : Message \cup {None},
           account : Account \cup {None},
           original : Merchant \cup {None},
           merchant : Merchant \cup {None},
           ready : BOOLEAN,                    \* ready_to_approve of a link
           unique : BOOLEAN,                   \* no import had the hash
           queue : SUBSET Message,
           rows : [Message -> Row \cup {None}],
           predicted : Prediction \cup {None},
           auto : BOOLEAN]

Idle == [pc |-> "idle", then |-> "idle", id |-> None, account |-> None,
         original |-> None, merchant |-> None, ready |-> FALSE,
         unique |-> FALSE, queue |-> {},
         rows |-> [m \in Message |-> None], predicted |-> None, auto |-> FALSE]

Calls(r, endpoint) == task[r] = Idle /\ endpoint \in Endpoints
At(t, pc)          == task[t].pc = pc
Become(t, q)       == task' = [task EXCEPT ![t] = q]
Return(t)          == Become(t, Idle)

Recorded  == {m \in Message : imports[m] # None}
Pending   == {m \in Recorded : imports[m].status = "pending_review"}
Parsed(m) == Reports[m] # None
Ready     == {m \in Pending : imports[m].ready}

-----------------------------------------------------------------------------
(* Prediction.                                                             *)

Known(merchant)  == learned.alias[merchant] # None
Resolve(merchant) == IF Known(merchant) THEN learned.alias[merchant] ELSE merchant

Mapped(m) == IF CardOf[m] = None THEN None ELSE learned.card[CardOf[m]]

\* resolve_account_suggestion with its score; an account the user confirmed
\* comes first.
Suggestion(m, kept) ==
    IF kept # None THEN [account |-> kept, score |-> 70]
    ELSE IF Mapped(m) # None THEN [account |-> Mapped(m), score |-> 70]
    ELSE IF learned.default # None THEN [account |-> learned.default, score |-> 45]
    ELSE IF Cardinality(accounts) = 1
         THEN [account |-> CHOOSE a \in accounts : TRUE, score |-> 35]
         ELSE [account |-> None, score |-> 0]

Points(condition, yes, no) == IF condition THEN yes ELSE no

\* predict_import_resolution for a message whose merchant is stored as given.
Predict(m, merchant, kept) ==
    LET label == Resolve(merchant)
        found == Suggestion(m, kept)
        score == 10 + Points(CardOf[m] # None, 10, 0) + Points(Known(merchant), 10, 0)
                    + Points(label \in learned.category, 10, 4) + found.score
    IN [merchant |-> label, account |-> found.account, confirmed |-> kept # None,
        ready |-> found.account # None /\ score >= 60]

\* build_transaction_hash
HashOf(m, merchant) == <<Reports[m], merchant>>

\* Faulty variant: only approved imports count.
HashApproved(h) == \E m \in Recorded : imports[m].hash = h /\ imports[m].status = "imported"

\* import_hash_exists
HashExists(h) == \E m \in Recorded : imports[m].hash = h

\* Faulty variant: an index that is not unique.
NeverUsed(h) == FALSE

\* The unique index on (user_id, transaction_hash); NULLs do not conflict.
HashUsed(h) == h # None /\ \E m \in Recorded : imports[m].hash = h

-----------------------------------------------------------------------------
\* The user has accounts and connects a mailbox.
Init ==
    /\ imports = [m \in Message |-> None]
    /\ posted = [m \in Message |-> 0]
    /\ accounts \in SUBSET Account \ {{}}
    /\ active = {}
    /\ learned = [alias |-> [x \in Merchant |-> None], category |-> {},
                  card |-> [c \in Card |-> None], default |-> None]
    /\ connection = None
    /\ task = [t \in Task |-> Idle]
    /\ today = 0 /\ failures = 0 /\ deaths = 0

-----------------------------------------------------------------------------
(* approve_import_internal                                                 *)

Chosen(m, account) == IF account # None THEN account ELSE imports[m].account

\* Faulty variant: an imported import is approved again.
ApprovableAgain(m, account) ==
    imports[m].status # "ignored" /\ Parsed(m) /\ Chosen(m, account) \in accounts

\* Faulty variant: a rejected import can be approved.
ApprovableIgnored(m, account) ==
    imports[m].status # "imported" /\ Parsed(m) /\ Chosen(m, account) \in accounts

\* Faulty variant: a message that was never parsed can be approved.
ApprovableUnparsed(m, account) ==
    imports[m].status \notin {"imported", "ignored"} /\ Chosen(m, account) \in accounts

\* What the handler refuses, or answers without doing anything.
Approvable(m, account) ==
    /\ imports[m].status \notin {"imported", "ignored"}
    /\ Parsed(m)
    /\ Chosen(m, account) \in accounts

\* get_import_for_user and the checks.
Approving(q, m, account, rename, then) ==
    [q EXCEPT !.pc = "approve.commit", !.then = then, !.id = m,
              !.account = Chosen(m, account),
              !.original = imports[m].merchant,
              !.merchant = IF rename # None THEN rename ELSE imports[m].merchant]

\* The four kinds of rules one approval saves; an alias only for a new name.
Learn(original, merchant, card, a) ==
    [alias |-> IF original = merchant THEN learned.alias
               ELSE [learned.alias EXCEPT ![original] = merchant],
     category |-> learned.category \cup {merchant},
     card |-> IF card = None THEN learned.card ELSE [learned.card EXCEPT ![card] = a],
     default |-> a]

\* Faulty variant: the transaction is committed without its import.
ApproveCommitTransaction(t) ==
    LET q == task[t]
        m == q.id
    IN
    /\ At(t, "approve.commit")
    /\ IF q.account \in accounts
       THEN /\ posted' = [posted EXCEPT ![m] = @ + 1]
            /\ active' = active \cup {q.account}
            /\ Become(t, [q EXCEPT !.pc = q.then])
       ELSE /\ UNCHANGED <<posted, active>>
            /\ Become(t, IF q.then = "recompute.read" THEN Idle
                         ELSE [q EXCEPT !.pc = q.then])
    /\ UNCHANGED <<imports, accounts, learned, connection, outside>>

\* One SQL transaction.  Its INSERT fails on the foreign key when the account
\* is gone; the UPDATE of the import has no condition on its status.
ApproveCommit(t) ==
    LET q == task[t]
        m == q.id
    IN
    /\ At(t, "approve.commit")
    /\ IF q.account \in accounts
       THEN /\ posted' = [posted EXCEPT ![m] = @ + 1]
            /\ imports' = [imports EXCEPT ![m] =
                  [@ EXCEPT !.status = "imported", !.merchant = q.merchant,
                            !.account = q.account, !.confirmed = TRUE, !.ready = TRUE]]
            /\ active' = active \cup {q.account}
            /\ learned' = Learn(q.original, q.merchant, CardOf[m], q.account)
            /\ Become(t, [q EXCEPT !.pc = q.then])
       ELSE /\ UNCHANGED <<imports, posted, active, learned>>
            /\ Become(t, IF q.then = "recompute.read" THEN Idle
                         ELSE [q EXCEPT !.pc = q.then])
    /\ UNCHANGED <<accounts, connection, outside>>

-----------------------------------------------------------------------------
(* Review by the user.                                                     *)

Approve(r) ==
    /\ Calls(r, "approve_import")
    /\ \E m \in Recorded, account \in accounts \cup {None}, rename \in Renames \cup {None} :
          /\ Approvable(m, account)
          /\ Become(r, Approving(Idle, m, account, rename, "recompute.read"))
    /\ UNCHANGED <<tables, outside>>

\* approve_ready_imports
ApproveReady(r) ==
    /\ Calls(r, "approve_ready_imports")
    /\ Become(r, [Idle EXCEPT !.pc = "approve_ready.next", !.queue = Ready])
    /\ UNCHANGED <<tables, outside>>

\* An import that cannot be approved any more is logged and passed over.
ApproveReadyNext(r) ==
    LET q == task[r] IN
    /\ At(r, "approve_ready.next")
    /\ \/ \E m \in q.queue :
             LET rest == [q EXCEPT !.queue = q.queue \ {m}] IN
             Become(r, IF Approvable(m, None)
                       THEN Approving(rest, m, None, None, "approve_ready.next")
                       ELSE rest)
       \/ /\ q.queue = {}
          /\ Become(r, [q EXCEPT !.pc = "recompute.read"])
    /\ UNCHANGED <<tables, outside>>

\* One UPDATE without a condition on the status.
Reject(r) ==
    /\ Calls(r, "reject_import")
    /\ \E m \in Recorded : imports' = [imports EXCEPT ![m].status = "ignored"]
    /\ UNCHANGED <<posted, accounts, active, learned, connection, task, outside>>

\* link_import_account: the import and the account are read first.
Link(r) ==
    /\ Calls(r, "link_import_account")
    /\ \E m \in Recorded, a \in accounts :
          /\ Parsed(m)
          /\ Become(r, [Idle EXCEPT !.pc = "link.update", !.id = m, !.account = a,
                                    !.ready = m \in Pending])
    /\ UNCHANGED <<tables, outside>>

LinkUpdate(r) ==
    LET q == task[r] IN
    /\ At(r, "link.update")
    /\ IF q.account \in accounts
       THEN /\ imports' = [imports EXCEPT ![q.id] =
                  [@ EXCEPT !.account = q.account, !.confirmed = TRUE, !.ready = q.ready]]
            /\ Become(r, [q EXCEPT !.pc = IF CardOf[q.id] # None THEN "link.card"
                                                                 ELSE "link.default"])
       ELSE UNCHANGED imports /\ Return(r)
    /\ UNCHANGED <<posted, accounts, active, learned, connection, outside>>

LinkCard(r) ==
    LET q == task[r] IN
    /\ At(r, "link.card")
    /\ IF q.account \in accounts
       THEN /\ learned' = [learned EXCEPT !.card[CardOf[q.id]] = q.account]
            /\ Become(r, [q EXCEPT !.pc = "link.default"])
       ELSE UNCHANGED learned /\ Return(r)
    /\ UNCHANGED <<imports, posted, accounts, active, connection, outside>>

LinkDefault(r) ==
    /\ At(r, "link.default")
    /\ learned' = IF task[r].account \in accounts
                  THEN [learned EXCEPT !.default = task[r].account]
                  ELSE learned
    /\ Return(r)
    /\ UNCHANGED <<imports, posted, accounts, active, connection, outside>>

-----------------------------------------------------------------------------
(* recompute_pending_import_predictions                                    *)

RecomputeRead(r) ==
    LET todo == {m \in Pending : Parsed(m)} IN
    /\ At(r, "recompute.read")
    /\ Become(r, IF todo = {} THEN Idle
                 ELSE [Idle EXCEPT !.pc = "recompute.predict", !.queue = todo,
                          !.rows = [m \in Message |-> IF m \in todo THEN imports[m]
                                                                    ELSE None]])
    /\ UNCHANGED <<tables, outside>>

\* Faulty variant: every prediction starts from scratch.
KeptNever(row) == None

\* The account the user confirmed, as the row was read.
Kept(row) == IF row.confirmed THEN row.account ELSE None

\* A confirmed account that is gone ends the request with an error.
RecomputePredict(r) ==
    LET q == task[r] IN
    /\ At(r, "recompute.predict")
    /\ \E m \in q.queue :
          LET row == q.rows[m] IN
          Become(r, IF Kept(row) \in accounts \cup {None}
                    THEN [q EXCEPT !.pc = "recompute.write", !.id = m,
                                   !.queue = q.queue \ {m},
                                   !.predicted = Predict(m, row.merchant, Kept(row))]
                    ELSE Idle)
    /\ UNCHANGED <<tables, outside>>

\* UPDATE ... WHERE status = 'pending_review'
RecomputeWrite(r) ==
    LET q == task[r]
        p == q.predicted
        next == IF q.queue = {} THEN Idle
                ELSE [q EXCEPT !.pc = "recompute.predict", !.id = None, !.predicted = None]
    IN
    /\ At(r, "recompute.write")
    /\ \/ /\ q.id \notin Pending
          /\ UNCHANGED imports
          /\ Become(r, next)
       \/ /\ q.id \in Pending
          /\ p.account \in accounts \cup {None}
          /\ imports' = [imports EXCEPT ![q.id] =
                [@ EXCEPT !.merchant = p.merchant, !.account = p.account,
                          !.confirmed = p.confirmed, !.ready = p.ready]]
          /\ Become(r, next)
       \/ /\ q.id \in Pending
          /\ p.account \notin accounts \cup {None}
          /\ UNCHANGED imports
          /\ Return(r)
    /\ UNCHANGED <<posted, accounts, active, learned, connection, outside>>

-----------------------------------------------------------------------------
(* delete_account of accounts.rs: the check and the DELETE.  Imports are no *)
(* activity; matched_account_id is ON DELETE SET NULL, the learned accounts *)
(* are ON DELETE CASCADE.                                                   *)

DeleteAccount(r) ==
    /\ Calls(r, "delete_account")
    /\ Cardinality(accounts) > 1
    /\ \E a \in accounts \ active :
          Become(r, [Idle EXCEPT !.pc = "delete_account.delete", !.account = a])
    /\ UNCHANGED <<tables, outside>>

DeleteAccountDelete(r) ==
    LET a == task[r].account IN
    /\ At(r, "delete_account.delete")
    /\ accounts' = accounts \ {a}
    /\ active' = active \ {a}
    /\ imports' = [m \in Message |->
          IF m \in Recorded /\ imports[m].account = a
          THEN [imports[m] EXCEPT !.account = None] ELSE imports[m]]
    /\ learned' = [learned EXCEPT
          !.card = [c \in Card |-> IF learned.card[c] = a THEN None ELSE learned.card[c]],
          !.default = IF @ = a THEN None ELSE @]
    /\ Return(r)
    /\ UNCHANGED <<posted, connection, outside>>

-----------------------------------------------------------------------------
(* The connection.                                                         *)

\* handle_google_callback: ON CONFLICT keeps the flag and the setting, so only
\* a new row matters here.
Connect ==
    /\ "google_callback" \in Endpoints
    /\ connection = None
    /\ connection' = [syncing |-> FALSE, auto |-> FALSE]
    /\ UNCHANGED <<imports, posted, accounts, active, learned, task, outside>>

\* update_gmail_preferences
UpdatePreferences ==
    /\ "update_gmail_preferences" \in Endpoints
    /\ connection # None
    /\ \E auto \in AutoApprove : connection' = [connection EXCEPT !.auto = auto]
    /\ UNCHANGED <<imports, posted, accounts, active, learned, task, outside>>

\* disconnect_google_connection
Disconnect ==
    /\ "disconnect" \in Endpoints
    /\ connection # None
    /\ connection' = None
    /\ UNCHANGED <<imports, posted, accounts, active, learned, task, outside>>

-----------------------------------------------------------------------------
(* sync_user_connection, started by run_worker, by trigger_manual_sync and *)
(* by the callback.                                                        *)

\* get_connection_for_user
SyncLoad(s) ==
    /\ task[s] = Idle
    /\ connection # None
    /\ Become(s, [Idle EXCEPT !.pc = "sync.mark", !.auto = connection.auto])
    /\ UNCHANGED <<tables, outside>>

\* mark_sync_started: UPDATE ... WHERE sync_in_progress = FALSE
SyncMark(s) ==
    /\ At(s, "sync.mark")
    /\ IF connection # None /\ ~connection.syncing
       THEN /\ connection' = [connection EXCEPT !.syncing = TRUE]
            /\ Become(s, [task[s] EXCEPT !.pc = "sync.token"])
       ELSE UNCHANGED connection /\ Return(s)
    /\ UNCHANGED <<imports, posted, accounts, active, learned, outside>>

\* ensure_valid_access_token: a token that expired is refreshed at Google, and
\* upsert_gmail_connection first reads the row that keeps the refresh token.
SyncToken(s) ==
    LET q == task[s] IN
    /\ At(s, "sync.token")
    /\ \/ Become(s, [q EXCEPT !.pc = "sync.list"])
       \/ /\ connection # None
          /\ Become(s, [q EXCEPT !.pc = "sync.upsert", !.auto = connection.auto])
       \/ connection = None /\ Become(s, [q EXCEPT !.pc = "sync.finish"])
    /\ UNCHANGED <<tables, outside>>

\* INSERT ... ON CONFLICT DO UPDATE
SyncUpsert(s) ==
    /\ At(s, "sync.upsert")
    /\ connection' = IF connection = None THEN [syncing |-> FALSE, auto |-> task[s].auto]
                                          ELSE connection
    /\ Become(s, [task[s] EXCEPT !.pc = "sync.reload"])
    /\ UNCHANGED <<imports, posted, accounts, active, learned, outside>>

\* get_connection_for_user again; a row that is gone by now is an error.
SyncReload(s) ==
    LET q == task[s] IN
    /\ At(s, "sync.reload")
    /\ \/ /\ connection # None
          /\ Become(s, [q EXCEPT !.pc = "sync.list", !.auto = connection.auto])
       \/ connection = None /\ Become(s, [q EXCEPT !.pc = "sync.finish"])
    /\ UNCHANGED <<tables, outside>>

Recent == {m \in Message : Sent[m] <= today /\ today < Sent[m] + Window}

\* What list_candidate_messages returns: the query has newer_than:30d, the list
\* starts at the first page every time and stops at max_sync_messages_per_run,
\* messages that have their import included.
Listed == {m \in Recent : Cardinality({n \in Recent : Sent[n] > Sent[m]}) < MaxPerRun}

SyncList(s) ==
    /\ At(s, "sync.list")
    /\ Become(s, [task[s] EXCEPT !.pc = "sync.next", !.queue = Listed])
    /\ UNCHANGED <<tables, outside>>

\* Where the block that sync_user_connection awaits may leave with an error.
MayFail == {"sync.token", "sync.upsert", "sync.reload", "sync.list", "sync.next",
            "sync.process", "sync.insert"}

\* Faulty variant: an error leaves the function without mark_sync_finished.
SyncFailsReturns(s) ==
    /\ task[s].pc \in MayFail
    /\ failures < MaxFailures
    /\ failures' = failures + 1
    /\ Return(s)
    /\ UNCHANGED <<tables, today, deaths>>

\* Google refuses the token or the list, or a statement of the sync fails.
SyncFails(s) ==
    /\ task[s].pc \in MayFail
    /\ failures < MaxFailures
    /\ failures' = failures + 1
    /\ Become(s, [Idle EXCEPT !.pc = "sync.finish"])
    /\ UNCHANGED <<tables, today, deaths>>

\* import_exists, then fetch_gmail_message.
SyncNext(s) ==
    LET q == task[s] IN
    /\ At(s, "sync.next")
    /\ \/ \E m \in q.queue :
             Become(s, [q EXCEPT !.queue = q.queue \ {m},
                                 !.pc = IF m \in Recorded THEN "sync.next" ELSE "sync.process",
                                 !.id = IF m \in Recorded THEN None ELSE m])
       \/ q.queue = {} /\ Become(s, [q EXCEPT !.pc = "sync.finish"])
    /\ UNCHANGED <<tables, outside>>

\* A message that cannot be fetched is left to a later sync.
SyncFetchFails(s) ==
    /\ At(s, "sync.process")
    /\ failures < MaxFailures
    /\ failures' = failures + 1
    /\ Become(s, [task[s] EXCEPT !.pc = "sync.next", !.id = None])
    /\ UNCHANGED <<tables, today, deaths>>

\* The parser, the prediction and import_hash_exists.
SyncProcess(s) ==
    LET q == task[s]
        p == Predict(q.id, MerchantOf[Reports[q.id]], None)
    IN
    /\ At(s, "sync.process")
    /\ Become(s, IF Parsed(q.id)
                 THEN [q EXCEPT !.pc = "sync.insert", !.predicted = p,
                                !.unique = ~HashExists(HashOf(q.id, p.merchant))]
                 ELSE [q EXCEPT !.pc = "sync.insert"])
    /\ UNCHANGED <<tables, outside>>

Received(status, p, h) == [status |-> status, merchant |-> p.merchant, hash |-> h,
                           account |-> p.account, confirmed |-> FALSE, ready |-> p.ready]

Unreadable == [status |-> "failed", merchant |-> None, hash |-> None,
               account |-> None, confirmed |-> FALSE, ready |-> FALSE]

InsertedRow(q) ==
    IF ~Parsed(q.id) THEN Unreadable
    ELSE IF q.unique THEN Received("pending_review", q.predicted, HashOf(q.id, q.predicted.merchant))
    ELSE Received("ignored", q.predicted, None)

Fits(m, row) == /\ m \notin Recorded
                /\ ~HashUsed(row.hash)
                /\ row.account \in accounts \cup {None}

NextMessage(q) == [q EXCEPT !.pc = "sync.next", !.id = None, !.unique = FALSE,
                            !.predicted = None]

AfterInsert(q, row) ==
    IF q.auto /\ row.status = "pending_review" /\ row.ready
    THEN [q EXCEPT !.pc = "sync.approve", !.unique = FALSE]
    ELSE NextMessage(q)

\* insert_import_record.  A duplicate is kept as an ignored import without a
\* hash.  A unique key or a foreign key that fails ends the whole sync.
SyncInsert(s) ==
    LET q == task[s]
        row == InsertedRow(q)
    IN
    /\ At(s, "sync.insert")
    /\ IF Fits(q.id, row)
       THEN imports' = [imports EXCEPT ![q.id] = row] /\ Become(s, AfterInsert(q, row))
       ELSE UNCHANGED imports /\ Become(s, [Idle EXCEPT !.pc = "sync.finish"])
    /\ UNCHANGED <<posted, accounts, active, learned, connection, outside>>

\* The sync approves a ready import with what it predicted.  A refusal is
\* noted in the import and the sync goes on.
SyncApprove(s) ==
    LET q == task[s]
        p == q.predicted
        rest == NextMessage(q)
    IN
    /\ At(s, "sync.approve")
    /\ Become(s, IF Approvable(q.id, p.account)
                 THEN Approving(rest, q.id, p.account, p.merchant, "sync.next")
                 ELSE rest)
    /\ UNCHANGED <<tables, outside>>

\* mark_sync_finished: whatever row there is by now.
SyncFinish(s) ==
    /\ At(s, "sync.finish")
    /\ connection' = IF connection = None THEN None ELSE [connection EXCEPT !.syncing = FALSE]
    /\ Return(s)
    /\ UNCHANGED <<imports, posted, accounts, active, learned, outside>>

-----------------------------------------------------------------------------
\* The process dies in the middle of a request or a sync; a sync whose
\* mark_sync_finished fails stops in the same way.
CrashRequest(r) ==
    /\ task[r] # Idle
    /\ Return(r)
    /\ UNCHANGED <<tables, outside>>

CrashSync(s) ==
    /\ task[s] # Idle
    /\ deaths < MaxDeaths
    /\ deaths' = deaths + 1
    /\ Return(s)
    /\ UNCHANGED <<tables, today, failures>>

\* A day passes: e-mails sent that day are there, old ones are no longer recent.
Tomorrow ==
    /\ today < MaxDay
    /\ today' = today + 1
    /\ UNCHANGED <<tables, task, failures, deaths>>

RequestStep(r) ==
    \/ Approve(r) \/ ApproveReady(r) \/ ApproveReadyNext(r) \/ ApproveCommit(r)
    \/ Reject(r)
    \/ Link(r) \/ LinkUpdate(r) \/ LinkCard(r) \/ LinkDefault(r)
    \/ RecomputeRead(r) \/ RecomputePredict(r) \/ RecomputeWrite(r)
    \/ DeleteAccount(r) \/ DeleteAccountDelete(r)

SyncStep(s) ==
    \/ SyncLoad(s) \/ SyncMark(s)
    \/ SyncToken(s) \/ SyncUpsert(s) \/ SyncReload(s) \/ SyncList(s)
    \/ SyncNext(s) \/ SyncProcess(s) \/ SyncInsert(s) \/ SyncApprove(s) \/ ApproveCommit(s)
    \/ SyncFinish(s)

Next ==
    \/ \E r \in Request : RequestStep(r) \/ CrashRequest(r)
    \/ \E s \in Sync : SyncStep(s) \/ SyncFails(s) \/ SyncFetchFails(s) \/ CrashSync(s)
    \/ Connect \/ UpdatePreferences \/ Disconnect \/ Tomorrow

\* run_worker starts a sync again and again; users do as they please.
Fairness == \A s \in Sync : WF_vars(SyncStep(s))

Spec == Init /\ [][Next]_vars /\ Fairness

-----------------------------------------------------------------------------
(* Properties.                                                             *)

TypeOK ==
    /\ imports \in [Message -> Row \cup {None}]
    /\ posted \in [Message -> Nat]
    /\ accounts \subseteq Account
    /\ active \subseteq Account
    /\ learned \in [alias : [Merchant -> Merchant \cup {None}],
                    category : SUBSET Merchant,
                    card : [Card -> Account \cup {None}],
                    default : Account \cup {None}]
    /\ task \in [Task -> Locals]
    /\ connection \in [syncing : BOOLEAN, auto : BOOLEAN] \cup {None}
    /\ today \in 0 .. MaxDay
    /\ failures \in 0 .. MaxFailures /\ deaths \in 0 .. MaxDeaths

\* The transaction and the status of its import come together, whoever dies
\* and whoever else reviews it: an imported import has its transaction, and no
\* transaction belongs to an import that is still to be decided or that failed.
ApprovalAtomic ==
    \A m \in Message :
       /\ posted[m] > 0 => m \in Recorded /\ imports[m].status \in {"imported", "ignored"}
       /\ m \in Recorded /\ imports[m].status = "imported" => posted[m] > 0

Renamed(m) == learned.alias[MerchantOf[Reports[m]]] # None

\* "Duplicate transaction hash matched a prior import"
\* (gmail_sync_service.rs): two e-mails about one charge never both become
\* transactions, whatever syncs run side by side, unless a renamed merchant
\* changed the hash in between.
NoDuplicateCharge ==
    \A m, n \in Message :
       m # n /\ posted[m] > 0 /\ posted[n] > 0 /\ Reports[m] = Reports[n] => Renamed(m)

\* An e-mail becomes one transaction: an import that is imported is not
\* approved again (gmail_sync_service.rs:1748).
PostedOnce == \A m \in Message : posted[m] <= 1

RejectionKept(m) ==
    m \in Recorded /\ imports[m].status = "ignored" =>
       imports'[m].status = "ignored" /\ posted'[m] = posted[m]

ConfirmationKept(m) ==
    m \in Pending /\ imports[m].confirmed /\ m \in Pending' =>
       \/ imports'[m].account = imports[m].account /\ imports'[m].confirmed
       \/ imports[m].account \notin accounts'
       \/ \E r \in Request : At(r, "link.update") /\ task[r].id = m

\* What the user decided is kept.  "Ignored imports cannot be approved"
\* (gmail_sync_service.rs:1753): a rejection is final and posts nothing any more.
\* An account "Confirmed by you" is not replaced by a prediction while the
\* import waits: only another link, or the loss of the account, changes it.
DecisionsKept == [][\A m \in Message : RejectionKept(m) /\ ConfirmationKept(m)]_vars

\* "Ready imports already have an account match" (en.json,
\* importsPage.reviewDescription).
ReadyHasAccount == \A m \in Ready : imports[m].account # None

Syncing(s) == task[s].pc \notin {"idle", "sync.mark"}

\* The flag that keeps other syncs away belongs to a sync that runs, whichever
\* way a sync ends and whatever the user connects in between; only the death of
\* a sync may leave it set.
FlagReleased ==
    connection # None /\ connection.syncing /\ deaths = 0 => \E s \in Sync : Syncing(s)

\* "Google connection removed" (handlers/integrations.rs): once the user has
\* disconnected Gmail, only the user connects it again.
DisconnectStays == [][connection = None => connection' = None \/ Connect]_vars

\* While Gmail stays connected, a bank alert on the list of a sync gets its
\* import in the end, although calls and statements fail, duplicates arrive and
\* users decide at any time: unless it leaves the list first, because it gets
\* older than 30 days or newer messages take its place.  A sync that dies stops
\* all later ones and is excluded here.
AlertRecorded ==
    <>[](connection # None) =>
       \A m \in Message : m \in Listed ~> (m \in Recorded \cup (Message \ Listed) \/ deaths > 0)
=============================================================================
