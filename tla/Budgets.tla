------------------------------ MODULE Budgets -------------------------------
(***************************************************************************)
(* Budgets and monthly summaries of one user (services/budgets.rs and      *)
(* the summaries of services/transactions.rs).                             *)
(*                                                                         *)
(* Every operation is one statement, except that an update or a deletion   *)
(* reads the budget in a statement of its own; nothing is decided from     *)
(* what was read.  So an action is a request.  Two names of a category are *)
(* the same text, or the same text but for upper and lower case: `Lower'   *)
(* maps a name to LOWER(category).  Days are counted from the first day of *)
(* the first month.                                                        *)
(***************************************************************************)
EXTENDS Integers, FiniteSetsExt

CONSTANTS
    Transaction,    \* ids of rows of transactions
    Budget,         \* ids of rows of budgets
    Category,       \* names the user gives, numbers
    Lower,          \* LOWER
    MonthLength,    \* days of a month
    Months,         \* bound on the months in use
    Amount,         \* amounts of transactions
    None

Day == 0 .. (MonthLength * Months - 1)

\* A table has finitely many rows, and they hold finitely many names.
BudgetsAssumption ==
    /\ IsFiniteSet(Transaction) /\ IsFiniteSet(Category)
    /\ Category \subseteq Nat /\ Amount \subseteq Nat \ {0}
    /\ Lower \in [Category -> Category] /\ \A c \in Category : Lower[Lower[c]] = Lower[c]
    /\ MonthLength \in Nat \ {0} /\ Months \in Nat \ {0}

VARIABLES
    transactions,   \* rows of transactions
    budgets         \* rows of budgets

vars == <<transactions, budgets>>

\* An income and the row of a transfer count nowhere below.
TransactionRow == [kind : {"expense", "other"}, category : Category,
                   amount : Amount, date : Day]
BudgetRow      == [category : Category, month : {d \in Day : d % MonthLength = 0}]

Init ==
    /\ transactions = [t \in Transaction |-> None]
    /\ budgets = [b \in Budget |-> None]

\* normalize_month: the first day of the month.
NormalizeMonth(date) == (date \div MonthLength) * MonthLength

\* A transaction is created, edited or deleted, or one of a transfer (module
\* Ledger has how).
SetTransaction(t) ==
    /\ \E row \in TransactionRow \cup {None} : transactions' = [transactions EXCEPT ![t] = row]
    /\ UNCHANGED budgets

\* UNIQUE (user_id, category, month)
Unique(b, row) == \A a \in Budget \ {b} : budgets[a] # row

\* Refused when the unique key is violated.
CreateBudget(b) ==
    /\ budgets[b] = None
    /\ \E c \in Category, date \in Day :
          LET row == [category |-> c, month |-> NormalizeMonth(date)] IN
          Unique(b, row) /\ budgets' = [budgets EXCEPT ![b] = row]
    /\ UNCHANGED transactions

UpdateBudget(b) ==
    /\ budgets[b] # None
    /\ \E c \in Category, date \in Day :
          LET row == [category |-> c, month |-> NormalizeMonth(date)] IN
          Unique(b, row) /\ budgets' = [budgets EXCEPT ![b] = row]
    /\ UNCHANGED transactions

DeleteBudget(b) ==
    /\ budgets[b] # None
    /\ budgets' = [budgets EXCEPT ![b] = None]
    /\ UNCHANGED transactions

Next ==
    \/ \E t \in Transaction : SetTransaction(t)
    \/ \E b \in Budget : CreateBudget(b) \/ UpdateBudget(b) \/ DeleteBudget(b)

Spec == Init /\ [][Next]_vars

-----------------------------------------------------------------------------
(* What is read from the tables.                                           *)

Total(T) == MapThenSumSet(LAMBDA t : transactions[t].amount, T)

\* date >= month AND date < month + INTERVAL '1 month'
Within(t, month) == transactions[t].date \in month .. (month + MonthLength - 1)

\* transfer_id IS NULL AND type = 'expense'
Expenses == {t \in Transaction : transactions[t] # None /\ transactions[t].kind = "expense"}

\* Faulty variant: counts the names that are the same text.
SpentOnExactly(c, month) ==
    {t \in Expenses : Within(t, month) /\ transactions[t].category = c}

\* LOWER(t.category) = LOWER(b.category), and the window of list_budgets.
SpentOn(c, month) ==
    {t \in Expenses : Within(t, month) /\ Lower[transactions[t].category] = Lower[c]}

\* spent_amount
Spent(b) == Total(SpentOn(budgets[b].category, budgets[b].month))

\* monthly_summary: expense_total
MonthlyExpenses(date) == Total({t \in Expenses : Within(t, NormalizeMonth(date))})

\* category_summary: total of the group of one name.
CategoryTotal(c, date) ==
    Total({t \in Expenses : Within(t, NormalizeMonth(date)) /\ transactions[t].category = c})

-----------------------------------------------------------------------------
(* Properties.                                                             *)

\* Transactions and budgets are well formed; a budget is for a whole month.
TypeOK ==
    /\ transactions \in [Transaction -> TransactionRow \cup {None}]
    /\ budgets \in [Budget -> BudgetRow \cup {None}]

MonthOf(date) == date \div MonthLength
Exists(b)     == budgets[b] # None

\* The budget page and the reports agree: a budget has spent what the category
\* summary says of its month, all spellings together, and the categories add
\* up to the monthly summary; each expense is in exactly one month
\* (list_budgets, monthly_summary, category_summary).
SummariesAgree ==
    /\ \A b \in {b \in Budget : Exists(b)} :
          LET spellings == {c \in Category : Lower[c] = Lower[budgets[b].category]} IN
          Spent(b) = MapThenSumSet(LAMBDA c : CategoryTotal(c, budgets[b].month), spellings)
    /\ \A date \in Day :
          /\ MonthlyExpenses(date) = MapThenSumSet(LAMBDA c : CategoryTotal(c, date), Category)
          /\ MonthlyExpenses(date)
                = Total({t \in Expenses : MonthOf(transactions[t].date) = MonthOf(date)})
=============================================================================
