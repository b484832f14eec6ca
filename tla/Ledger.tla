------------------------------- MODULE Ledger -------------------------------
(***************************************************************************)
(* The money book of one user: accounts, transactions, transfers and the   *)
(* reference a recurring rule holds on an account                          *)
(* (services/accounts.rs, transactions.rs, transfers.rs, recurring.rs and  *)
(* the foreign keys of migrations/0001_initial.sql).                       *)
(*                                                                         *)
(* Every query of these services filters on user_id, so one user is enough.*)
(* A request runs in one Rocket task and sends its SQL statements one by   *)
(* one.  Most handlers run them outside a transaction, on PostgreSQL's     *)
(* READ COMMITTED default: each statement is atomic, other requests run    *)
(* between two statements.  A request is therefore a record with a program *)
(* counter, and each statement that reads state the handler uses later, or *)
(* writes, is one action.                                                  *)
(*                                                                         *)
(* Ids are issued in order and never used again, as UUIDs are not; the     *)
(* order of account ids is the order of accounts.created_at.               *)
(***************************************************************************)
EXTENDS Integers, FiniteSets

CONSTANTS
    Request,          \* tasks that serve a request at the same time
    Endpoints,        \* the endpoints the clients call (bounds the run)
    Currency,
    Cent,             \* parts of a cent: the unit of the amounts clients send
    RateUnit,         \* the unit of Rate
    Rate,             \* Rate[c, d] / RateUnit of d for one c, 0 if unknown
    Amount,           \* amounts a client may send, in 1 / Cent of a cent
    MaxAccounts, MaxTransactions, MaxTransfers, MaxRules,   \* bounds on ids
    None              \* a row that does not exist

AccountType == {"cash", "bank_account"}   \* credit_card and loan: as a bank account
EntryType   == {"income", "expense"}

AccountId     == 1 .. MaxAccounts
TransactionId == 1 .. MaxTransactions
TransferId    == 1 .. MaxTransfers
RuleId        == 1 .. MaxRules
NULL          == 0                        \* an SQL NULL in an id column

AccountRow     == [type : AccountType, currency : Currency]
TransactionRow == [account : AccountId \cup {NULL},
                   transfer : TransferId \cup {NULL},
                   type : EntryType, amount : Nat \ {0}]
TransferRow    == [from : AccountId, to : AccountId, amount : Nat \ {0}]

ASSUME BoundsAssumption ==
    /\ MaxAccounts \in Nat \ {0} /\ MaxTransactions \in Nat
    /\ MaxTransfers \in Nat /\ MaxRules \in Nat

\* ensure_positive_amount accepts any positive Decimal, also parts of a cent.
ASSUME MoneyAssumption ==
    /\ Cent \in Nat \ {0} /\ RateUnit \in Nat \ {0}
    /\ Amount \subseteq Nat \ {0}
    /\ Rate \in [Currency \X Currency -> Nat]
    /\ Currency # {}

ASSUME NoneAssumption ==
    /\ None \notin AccountRow /\ None \notin TransactionRow
    /\ None \notin TransferRow /\ None \notin AccountId

VARIABLES
    accounts,       \* table accounts, by id
    transactions,   \* table transactions
    transfers,      \* table transfers
    rules,          \* account_id of each row of recurring_transactions
    issued,         \* how many ids each table has handed out
    request         \* what each task is doing

tables == <<accounts, transactions, transfers, rules, issued>>
vars   == <<accounts, transactions, transfers, rules, issued, request>>

-----------------------------------------------------------------------------
(* Requests.                                                               *)

Step == {"idle",
         "update_account.count_cash", "update_account.update",
         "delete_account.count", "delete_account.count_cash",
         "delete_account.dependencies", "delete_account.delete",
         "create_transaction.insert",
         "update_transaction.resolve", "update_transaction.update",
         "delete_transaction.delete",
         "create_transfer.insert", "create_transfer.mirror",
         "create_recurring.insert",
         "update_recurring.account", "update_recurring.update"}

Locals == [pc : Step,
           id : Nat,                           \* the row named in the URL
           account : AccountId \cup {NULL},    \* account_id, from_account_id
           to : AccountId \cup {NULL},         \* to_account_id
           type : AccountType \cup EntryType \cup {None},
           currency : Currency \cup {None},
           amount : Nat,                       \* in the unit of Amount
           received : Nat]                     \* destination_amount, likewise

Idle == [pc |-> "idle", id |-> 0, account |-> NULL, to |-> NULL,
         type |-> None, currency |-> None, amount |-> 0, received |-> 0]

Calls(r, endpoint) == request[r] = Idle /\ endpoint \in Endpoints
At(r, pc)          == request[r].pc = pc
Goto(r, pc)        == request' = [request EXCEPT ![r].pc = pc]
Return(r)          == request' = [request EXCEPT ![r] = Idle]

\* A check that lets the handler go on to pc, or ends it with an error.
Ensure(r, ok, pc) == /\ IF ok THEN Goto(r, pc) ELSE Return(r)
                     /\ UNCHANGED tables

-----------------------------------------------------------------------------
(* Queries.                                                                *)

LiveAccounts     == {a \in AccountId : accounts[a] # None}
CashAccounts     == {a \in LiveAccounts : accounts[a].type = "cash"}
LiveTransactions == {x \in TransactionId : transactions[x] # None}
LiveTransfers    == {t \in TransferId : transfers[t] # None}
LiveRules        == {k \in RuleId : rules[k] # None}

\* Faulty variant: the last cash account passes as well.
EnsureOneCashAccount == Cardinality(CashAccounts) >= 1

EnsureMultipleAccounts     == Cardinality(LiveAccounts) > 1
EnsureMultipleCashAccounts == Cardinality(CashAccounts) > 1

InTransactions(a) == \E x \in LiveTransactions : transactions[x].account = a
InTransfers(a)    == \E t \in LiveTransfers : a \in {transfers[t].from, transfers[t].to}
InRules(a)        == \E k \in LiveRules : rules[k] = a

\* Faulty variant: the check forgets the table transactions.
HasTransferOrRule(a) == InTransfers(a) \/ InRules(a)

HasDependencies(a) == InTransactions(a) \/ InTransfers(a) \/ InRules(a)

\* The account of the payload if it exists, else the oldest cash account;
\* the empty set when the handler answers with an error.
ResolveAccount(given) ==
    IF given # NULL THEN {given} \cap LiveAccounts
    ELSE {a \in CashAccounts : \A b \in CashAccounts : a <= b}

\* Decimal::round_dp rounds half to even.
RoundHalfEven(n, d) ==
    LET q == n \div d
        r == n % d
    IN IF 2 * r > d \/ (2 * r = d /\ q % 2 = 1) THEN q + 1 ELSE q

\* What NUMERIC(14, 2) keeps of an amount, in cents: half a cent goes up.
Stored(n) == (2 * n + Cent) \div (2 * Cent)

\* Faulty variant: a column without its CHECK.
Unchecked(n) == TRUE

\* CHECK (amount > 0), evaluated on what the column keeps.
Storable(n) == Stored(n) > 0

\* Faulty variant: the rate of the opposite direction.
DestinationAmountInverse(amount, c, d) ==
    IF c = d THEN amount ELSE Cent * RoundHalfEven(amount * Rate[d, c], Cent * RateUnit)

\* The amount as it was sent, not as the column keeps it, is converted, and
\* convert_transfer_amount rounds to whole cents.
DestinationAmount(amount, c, d) ==
    IF c = d THEN amount ELSE Cent * RoundHalfEven(amount * Rate[c, d], Cent * RateUnit)

\* The amounts a row can hold.
StoredAmount ==
    {Stored(n) : n \in Amount \cup {DestinationAmount(m, c, d) : m \in Amount, c, d \in Currency}}
        \ {0}

\* Faulty variant: transfers refer to accounts without a foreign key.
NotShared(a) == FALSE

\* Rows an open transaction holds FOR KEY SHARE: the accounts that its INSERT
\* INTO transfers refers to.  A DELETE of one of them waits.
KeyShared(a) == \E r \in Request : /\ At(r, "create_transfer.mirror")
                                   /\ a \in {request[r].account, request[r].to}

\* ON DELETE RESTRICT of transfers and recurring_transactions.
Restricted(a) == InTransfers(a) \/ InRules(a)

-----------------------------------------------------------------------------
(* register_user leaves the user with one cash account and no activity.    *)

Init ==
    /\ \E c \in Currency :
          accounts = [a \in AccountId |-> IF a = 1 THEN [type |-> "cash", currency |-> c]
                                                   ELSE None]
    /\ transactions = [x \in TransactionId |-> None]
    /\ transfers = [t \in TransferId |-> None]
    /\ rules = [k \in RuleId |-> None]
    /\ issued = [accounts |-> 1, transactions |-> 0, transfers |-> 0, rules |-> 0]
    /\ request = [r \in Request |-> Idle]

-----------------------------------------------------------------------------
(* accounts.rs                                                             *)

CreateAccount(r) ==
    /\ Calls(r, "create_account")
    /\ issued.accounts < MaxAccounts
    /\ \E type \in AccountType, c \in Currency :
          accounts' = [accounts EXCEPT ![issued.accounts + 1] =
                          [type |-> type, currency |-> c]]
    /\ issued' = [issued EXCEPT !.accounts = @ + 1]
    /\ UNCHANGED <<transactions, transfers, rules, request>>

\* get_account_row; only a conversion away from cash needs the count.
UpdateAccount(r) ==
    /\ Calls(r, "update_account")
    /\ \E a \in LiveAccounts, type \in AccountType, c \in Currency :
          request' = [request EXCEPT ![r] =
              [Idle EXCEPT !.pc = IF accounts[a].type = "cash" /\ type # "cash"
                                  THEN "update_account.count_cash"
                                  ELSE "update_account.update",
                           !.id = a, !.type = type, !.currency = c]]
    /\ UNCHANGED tables

UpdateAccountCountCash(r) ==
    /\ At(r, "update_account.count_cash")
    /\ Ensure(r, EnsureMultipleCashAccounts, "update_account.update")

UpdateAccountWrite(r) ==
    /\ At(r, "update_account.update")
    /\ LET a == request[r].id IN
       accounts' = IF a \in LiveAccounts
                   THEN [accounts EXCEPT ![a] = [type |-> request[r].type,
                                                 currency |-> request[r].currency]]
                   ELSE accounts
    /\ Return(r)
    /\ UNCHANGED <<transactions, transfers, rules, issued>>

DeleteAccount(r) ==
    /\ Calls(r, "delete_account")
    /\ \E a \in LiveAccounts :
          request' = [request EXCEPT ![r] =
              [Idle EXCEPT !.pc = "delete_account.count", !.id = a,
                           !.type = accounts[a].type]]
    /\ UNCHANGED tables

DeleteAccountCount(r) ==
    /\ At(r, "delete_account.count")
    /\ Ensure(r, EnsureMultipleAccounts,
              IF request[r].type = "cash" THEN "delete_account.count_cash"
                                          ELSE "delete_account.dependencies")

DeleteAccountCountCash(r) ==
    /\ At(r, "delete_account.count_cash")
    /\ Ensure(r, EnsureMultipleCashAccounts, "delete_account.dependencies")

DeleteAccountDependencies(r) ==
    /\ At(r, "delete_account.dependencies")
    /\ Ensure(r, ~HasDependencies(request[r].id), "delete_account.delete")

\* The DELETE waits for rows locked by an open transfer, fails on a RESTRICT
\* reference and sets account_id of the account's transactions to NULL.
DeleteAccountDelete(r) ==
    LET a == request[r].id IN
    /\ At(r, "delete_account.delete")
    /\ ~KeyShared(a)
    /\ IF Restricted(a)
       THEN UNCHANGED <<accounts, transactions>>
       ELSE /\ accounts' = [accounts EXCEPT ![a] = None]
            /\ transactions' = [x \in TransactionId |->
                   IF x \in LiveTransactions /\ transactions[x].account = a
                   THEN [transactions[x] EXCEPT !.account = NULL]
                   ELSE transactions[x]]
    /\ Return(r)
    /\ UNCHANGED <<transfers, rules, issued>>

-----------------------------------------------------------------------------
(* transactions.rs                                                         *)

CreateTransaction(r) ==
    /\ Calls(r, "create_transaction")
    /\ \E given \in AccountId \cup {NULL}, type \in EntryType, amount \in Amount :
       \E a \in ResolveAccount(given) :
          request' = [request EXCEPT ![r] =
              [Idle EXCEPT !.pc = "create_transaction.insert", !.account = a,
                           !.type = type, !.amount = amount]]
    /\ UNCHANGED tables

\* The INSERT fails on the foreign key when the account is gone by now, and on
\* the CHECK when the amount rounds to nothing.
CreateTransactionInsert(r) ==
    LET q == request[r] IN
    /\ At(r, "create_transaction.insert")
    /\ issued.transactions < MaxTransactions
    /\ IF q.account \in LiveAccounts /\ Storable(q.amount)
       THEN /\ transactions' = [transactions EXCEPT ![issued.transactions + 1] =
                   [account |-> q.account, transfer |-> NULL,
                    type |-> q.type, amount |-> Stored(q.amount)]]
            /\ issued' = [issued EXCEPT !.transactions = @ + 1]
       ELSE UNCHANGED <<transactions, issued>>
    /\ Return(r)
    /\ UNCHANGED <<accounts, transfers, rules>>

\* Faulty variant: an edit does not look at transfer_id.
EditableAlways(x) == TRUE

\* find_transaction, and the refusal of entries that belong to a transfer.
Editable(x) == transactions[x].transfer = NULL

UpdateTransaction(r) ==
    /\ Calls(r, "update_transaction")
    /\ \E x \in LiveTransactions, given \in AccountId \cup {NULL},
          type \in EntryType, amount \in Amount :
          /\ Editable(x)
          /\ request' = [request EXCEPT ![r] =
                [Idle EXCEPT !.pc = "update_transaction.resolve", !.id = x,
                             !.account = given, !.type = type, !.amount = amount]]
    /\ UNCHANGED tables

UpdateTransactionResolve(r) ==
    /\ At(r, "update_transaction.resolve")
    /\ LET found == ResolveAccount(request[r].account) IN
       \/ /\ found = {}
          /\ Return(r)
       \/ \E a \in found :
             request' = [request EXCEPT ![r].pc = "update_transaction.update",
                                        ![r].account = a]
    /\ UNCHANGED tables

UpdateTransactionWrite(r) ==
    LET q == request[r] IN
    /\ At(r, "update_transaction.update")
    /\ transactions' =
          IF q.id \in LiveTransactions /\ q.account \in LiveAccounts /\ Storable(q.amount)
          THEN [transactions EXCEPT ![q.id] =
                   [@ EXCEPT !.account = q.account, !.type = q.type,
                             !.amount = Stored(q.amount)]]
          ELSE transactions
    /\ Return(r)
    /\ UNCHANGED <<accounts, transfers, rules, issued>>

DeleteTransaction(r) ==
    /\ Calls(r, "delete_transaction")
    /\ \E x \in LiveTransactions :
          /\ Editable(x)
          /\ request' = [request EXCEPT ![r] =
                [Idle EXCEPT !.pc = "delete_transaction.delete", !.id = x]]
    /\ UNCHANGED tables

DeleteTransactionDelete(r) ==
    /\ At(r, "delete_transaction.delete")
    /\ transactions' = [transactions EXCEPT ![request[r].id] = None]
    /\ Return(r)
    /\ UNCHANGED <<accounts, transfers, rules, issued>>

-----------------------------------------------------------------------------
(* transfers.rs                                                            *)

\* get_transfer_accounts and the conversion: both currencies are read here,
\* the rate may be fetched over the network before the transaction begins.
\* A missing rate or an amount that converts to nothing ends the request.
CreateTransfer(r) ==
    /\ Calls(r, "create_transfer")
    /\ \E a, b \in LiveAccounts, amount \in Amount :
          LET received == DestinationAmount(amount, accounts[a].currency, accounts[b].currency) IN
          /\ a # b
          /\ received > 0
          /\ request' = [request EXCEPT ![r] =
                [Idle EXCEPT !.pc = "create_transfer.insert", !.account = a, !.to = b,
                             !.amount = amount, !.received = received]]
    /\ UNCHANGED tables

\* BEGIN and the INSERT INTO transfers, not committed yet: the CHECK and the
\* foreign keys hold, and both account rows stay locked FOR KEY SHARE.
CreateTransferInsert(r) ==
    /\ At(r, "create_transfer.insert")
    /\ Ensure(r, /\ {request[r].account, request[r].to} \subseteq LiveAccounts
                 /\ Storable(request[r].amount),
              "create_transfer.mirror")

\* The INSERT of the two mirror rows and the COMMIT that shows all three.  Its
\* CHECKs cannot fail: the first amount passed one just now, the second is the
\* same or a positive number of whole cents.
CreateTransferCommit(r) ==
    LET q == request[r]
        t == issued.transfers + 1
        out == issued.transactions + 1
        in == issued.transactions + 2
    IN
    /\ At(r, "create_transfer.mirror")
    /\ issued.transfers < MaxTransfers
    /\ issued.transactions + 2 <= MaxTransactions
    /\ transfers' = [transfers EXCEPT ![t] =
          [from |-> q.account, to |-> q.to, amount |-> Stored(q.amount)]]
    /\ transactions' = [transactions EXCEPT
          ![out] = [account |-> q.account, transfer |-> t, type |-> "expense",
                    amount |-> Stored(q.amount)],
          ![in]  = [account |-> q.to, transfer |-> t, type |-> "income",
                    amount |-> Stored(q.received)]]
    /\ issued' = [issued EXCEPT !.transfers = @ + 1, !.transactions = @ + 2]
    /\ Return(r)
    /\ UNCHANGED <<accounts, rules>>

\* Faulty variant: the rows of a removed transfer stay behind.
DeleteTransferOnly(r) ==
    /\ Calls(r, "delete_transfer")
    /\ \E t \in LiveTransfers : transfers' = [transfers EXCEPT ![t] = None]
    /\ UNCHANGED <<accounts, transactions, rules, issued, request>>

\* Faulty variant: transfer_id ON DELETE SET NULL, both rows turn into plain ones.
DeleteTransferSetNull(r) ==
    /\ Calls(r, "delete_transfer")
    /\ \E t \in LiveTransfers :
          /\ transfers' = [transfers EXCEPT ![t] = None]
          /\ transactions' = [x \in TransactionId |->
                IF x \in LiveTransactions /\ transactions[x].transfer = t
                THEN [transactions[x] EXCEPT !.transfer = NULL] ELSE transactions[x]]
    /\ UNCHANGED <<accounts, rules, issued, request>>

\* One DELETE; transactions.transfer_id is ON DELETE CASCADE.
DeleteTransfer(r) ==
    /\ Calls(r, "delete_transfer")
    /\ \E t \in LiveTransfers :
          /\ transfers' = [transfers EXCEPT ![t] = None]
          /\ transactions' = [x \in TransactionId |->
                IF x \in LiveTransactions /\ transactions[x].transfer = t
                THEN None ELSE transactions[x]]
    /\ UNCHANGED <<accounts, rules, issued, request>>

-----------------------------------------------------------------------------
(* recurring.rs, as far as it touches accounts and transactions (the       *)
(* schedule itself is in module Recurring).                                *)

CreateRecurring(r) ==
    /\ Calls(r, "create_recurring")
    /\ \E a \in LiveAccounts, amount \in Amount :
          request' = [request EXCEPT ![r] =
              [Idle EXCEPT !.pc = "create_recurring.insert", !.account = a,
                           !.amount = amount]]
    /\ UNCHANGED tables

CreateRecurringInsert(r) ==
    /\ At(r, "create_recurring.insert")
    /\ issued.rules < MaxRules
    /\ IF request[r].account \in LiveAccounts /\ Storable(request[r].amount)
       THEN /\ rules' = [rules EXCEPT ![issued.rules + 1] = request[r].account]
            /\ issued' = [issued EXCEPT !.rules = @ + 1]
       ELSE UNCHANGED <<rules, issued>>
    /\ Return(r)
    /\ UNCHANGED <<accounts, transactions, transfers>>

UpdateRecurring(r) ==
    /\ Calls(r, "update_recurring")
    /\ \E k \in LiveRules, a \in AccountId, amount \in Amount :
          request' = [request EXCEPT ![r] =
              [Idle EXCEPT !.pc = "update_recurring.account", !.id = k, !.account = a,
                           !.amount = amount]]
    /\ UNCHANGED tables

UpdateRecurringAccount(r) ==
    /\ At(r, "update_recurring.account")
    /\ Ensure(r, request[r].account \in LiveAccounts, "update_recurring.update")

UpdateRecurringWrite(r) ==
    LET q == request[r] IN
    /\ At(r, "update_recurring.update")
    /\ rules' = IF q.id \in LiveRules /\ q.account \in LiveAccounts /\ Storable(q.amount)
                THEN [rules EXCEPT ![q.id] = q.account]
                ELSE rules
    /\ Return(r)
    /\ UNCHANGED <<accounts, transactions, transfers, issued>>

DeleteRecurring(r) ==
    /\ Calls(r, "delete_recurring")
    /\ \E k \in LiveRules : rules' = [rules EXCEPT ![k] = None]
    /\ UNCHANGED <<accounts, transactions, transfers, issued, request>>

\* process_due_transactions on one due rule, whose row keeps an amount that
\* passed the CHECK.  The worker's transaction holds the rule row, hence the
\* account cannot go before the commit.
Materialize ==
    /\ "worker" \in Endpoints
    /\ issued.transactions < MaxTransactions
    /\ \E k \in LiveRules, type \in EntryType, amount \in Amount :
          /\ Storable(amount)
          /\ transactions' = [transactions EXCEPT ![issued.transactions + 1] =
                [account |-> rules[k], transfer |-> NULL, type |-> type,
                 amount |-> Stored(amount)]]
    /\ issued' = [issued EXCEPT !.transactions = @ + 1]
    /\ UNCHANGED <<accounts, transfers, rules, request>>

-----------------------------------------------------------------------------
\* The process dies, or the pool drops the connection: statements that ran
\* outside a transaction stay, an open transaction rolls back.
Crash(r) ==
    /\ request[r] # Idle
    /\ Return(r)
    /\ UNCHANGED tables

AccountStep(r) ==
    \/ CreateAccount(r)
    \/ UpdateAccount(r) \/ UpdateAccountCountCash(r) \/ UpdateAccountWrite(r)
    \/ DeleteAccount(r) \/ DeleteAccountCount(r) \/ DeleteAccountCountCash(r)
    \/ DeleteAccountDependencies(r) \/ DeleteAccountDelete(r)

TransactionStep(r) ==
    \/ CreateTransaction(r) \/ CreateTransactionInsert(r)
    \/ UpdateTransaction(r) \/ UpdateTransactionResolve(r) \/ UpdateTransactionWrite(r)
    \/ DeleteTransaction(r) \/ DeleteTransactionDelete(r)

TransferStep(r) ==
    \/ CreateTransfer(r) \/ CreateTransferInsert(r) \/ CreateTransferCommit(r)
    \/ DeleteTransfer(r)

RecurringStep(r) ==
    \/ CreateRecurring(r) \/ CreateRecurringInsert(r)
    \/ UpdateRecurring(r) \/ UpdateRecurringAccount(r) \/ UpdateRecurringWrite(r)
    \/ DeleteRecurring(r)

Next ==
    \/ \E r \in Request :
          AccountStep(r) \/ TransactionStep(r) \/ TransferStep(r) \/ RecurringStep(r)
          \/ Crash(r)
    \/ Materialize

Spec == Init /\ [][Next]_vars

-----------------------------------------------------------------------------
(* Properties.                                                             *)

\* Every table row and every request has the shape the code gives it; in
\* particular each stored amount is positive, also one that was converted or
\* rounded.
TypeOK ==
    /\ accounts \in [AccountId -> AccountRow \cup {None}]
    /\ transactions \in [TransactionId -> TransactionRow \cup {None}]
    /\ transfers \in [TransferId -> TransferRow \cup {None}]
    /\ rules \in [RuleId -> AccountId \cup {None}]
    /\ issued \in [accounts : 0 .. MaxAccounts, transactions : 0 .. MaxTransactions,
                   transfers : 0 .. MaxTransfers, rules : 0 .. MaxRules]
    /\ request \in [Request -> Locals]

\* n and m differ by half of d at most.
Close(n, m, d) == 2 * n <= 2 * m + d /\ 2 * m <= 2 * n + d

Mirrors(t) == {x \in LiveTransactions : transactions[x].transfer = t}

\* "Transfers are stored in transfers and mirrored into transactions"
\* (backend/README.md): a transfer has exactly one expense row on its source
\* account with its amount and one income row on its destination account,
\* and no row outlives its transfer, whatever requests run in between.
TransferMirrored ==
    /\ \A t \in TransferId : t \notin LiveTransfers => Mirrors(t) = {}
    /\ \A t \in LiveTransfers : \E out, in \in TransactionId :
          /\ Mirrors(t) = {out, in}
          /\ out # in
          /\ /\ transactions[out].account = transfers[t].from
             /\ transactions[out].type = "expense"
             /\ transactions[out].amount = transfers[t].amount
          /\ /\ transactions[in].account = transfers[t].to
             /\ transactions[in].type = "income"

\* The account deletion that checks, then deletes in a later statement never
\* leaves a transfer or a recurring rule pointing at a missing account, nor a
\* transfer with the same account on both sides.
ReferencesExist ==
    /\ \A t \in LiveTransfers : /\ transfers[t].from \in LiveAccounts
                                /\ transfers[t].to \in LiveAccounts
                                /\ transfers[t].from # transfers[t].to
    /\ \A k \in LiveRules : rules[k] \in LiveAccounts
    /\ \A x \in LiveTransactions :
          transactions[x].account \in LiveAccounts \cup {NULL}

\* Rows of a transfer are "managed through the transfers endpoint"
\* (transactions.rs): no step changes one, and one disappears only in the step
\* that removes its transfer, even when an edit was already under way.
MirrorsFixed ==
    [][\A t \in LiveTransfers :
          t \in LiveTransfers' => /\ Mirrors(t)' = Mirrors(t)
                                  /\ \A x \in Mirrors(t) : transactions'[x] = transactions[x]
      ]_vars

\* "At least one cash account must remain available" (accounts.rs): create a
\* transaction without an account needs one.
CashAccountRemains == CashAccounts # {}

\* "Accounts with activity cannot be deleted" (accounts.rs): no row of
\* transactions loses its account.
ActivityKeepsAccount == \A x \in LiveTransactions : transactions[x].account # NULL

\* A committed transfer pays out what it takes in.  Within one currency that is
\* the same amount.  Across currencies the row keeps the amount sent to the
\* nearest cent but the amount sent is converted (transfers.rs), so what is paid
\* out is the stored amount at the rate of the currencies both accounts have when
\* the rows appear, off by half a cent and by half a cent at that rate at most.
TransferValue(t) ==
    \A in \in Mirrors(t) :
       LET c == accounts[transfers[t].from].currency
           d == accounts[transfers[t].to].currency
           paid == transactions[in].amount
           sent == transfers[t].amount
       IN transactions[in].type = "income" =>
             IF c = d THEN paid = sent
                      ELSE Close(RateUnit * paid, sent * Rate[c, d], RateUnit + Rate[c, d])

TransfersKeepValue ==
    [][\A t \in TransferId : (t \notin LiveTransfers /\ t \in LiveTransfers')
                                => TransferValue(t)']_vars

\* With one request at a time the tables behave as the book of entries the
\* user is promised: see module Book.
BookOfEntries == INSTANCE Book WITH EntryId <- TransactionId, Value <- StoredAmount,
                                    open <- LiveAccounts, entries <- transactions

ImplementsBook == BookOfEntries!Spec
=============================================================================
