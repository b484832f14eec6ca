---------------------------- MODULE LedgerProofs ----------------------------
(* Theorems about Ledger, for any number of concurrent requests, any       *)
(* bounds, currencies and rates.                                           *)
EXTENDS Ledger, FiniteSetTheorems, TLAPS

-----------------------------------------------------------------------------
(* Rounding.                                                               *)

LEMMA ProductNat ==
    ASSUME NEW m \in Nat, NEW n \in Nat PROVE m * n \in Nat
OBVIOUS

LEMMA ProductPositive ==
    ASSUME NEW m \in Nat \ {0}, NEW n \in Nat \ {0} PROVE m * n \in Nat \ {0}
<1>1. m * n = m * (n - 1) + m
  OBVIOUS
<1>2. m * (n - 1) \in Nat
  BY ProductNat
<1> QED BY <1>1, <1>2

LEMMA ProductZero ==
    ASSUME NEW m \in Nat PROVE m * 0 = 0
OBVIOUS

\* What \div and % compute.
LEMMA Quotient ==
    ASSUME NEW n \in Int, NEW d \in Int, d > 0
    PROVE  n = d * (n \div d) + (n % d)
BY SMT

LEMMA QuotientNat ==
    ASSUME NEW d \in Nat \ {0}, NEW q \in Int, NEW r \in Nat, r < d, d * q + r \in Nat
    PROVE  q \in Nat
<1>1. CASE q < 0
  <2>1. d * (0 - q) >= d
    BY <1>1
  <2>2. d * q + d * (0 - q) = 0
    OBVIOUS
  <2> QED BY <2>1, <2>2
<1> QED BY <1>1

LEMMA Division ==
    ASSUME NEW n \in Nat, NEW d \in Nat \ {0}
    PROVE  /\ n \div d \in Nat /\ n % d \in Nat /\ n % d < d
           /\ n = d * (n \div d) + (n % d)
<1>1. n % d \in Nat /\ n % d < d /\ n \div d \in Int
  OBVIOUS
<1>2. n \in Int /\ d \in Int /\ d > 0
  OBVIOUS
<1>3. n = d * (n \div d) + (n % d)
  BY <1>2, Quotient
<1>4. n \div d \in Nat
  BY <1>1, <1>3, QuotientNat
<1> QED BY <1>1, <1>3, <1>4

LEMMA DivisionUnique ==
    ASSUME NEW d \in Nat \ {0}, NEW p \in Nat, NEW q \in Nat, NEW r \in Nat, NEW k \in Nat,
           d * p + r = d * q + k, r < d, k < d
    PROVE  p = q
<1>1. d * p - d * q = d * (p - q)
  OBVIOUS
<1>2. CASE p > q
  <2>1. d * (p - q) >= d
    BY <1>2
  <2> QED BY <1>1, <2>1
<1>3. CASE p < q
  <2>1. d * (q - p) >= d
    BY <1>3
  <2>2. d * q - d * p = d * (q - p)
    OBVIOUS
  <2> QED BY <2>2, <2>1
<1> QED BY <1>2, <1>3

\* round_dp never yields a negative amount and is off by half a unit at most.
LEMMA RoundHalfEvenNat ==
    ASSUME NEW n \in Nat, NEW d \in Nat \ {0}
    PROVE  /\ RoundHalfEven(n, d) \in Nat
           /\ Close(d * RoundHalfEven(n, d), n, d)
<1> DEFINE q == n \div d
           m == n % d
<1>1. q \in Nat /\ m \in Nat /\ m < d /\ n = d * q + m
  BY Division
<1>2. RoundHalfEven(n, d) = IF 2 * m > d \/ (2 * m = d /\ q % 2 = 1) THEN q + 1 ELSE q
  BY DEF RoundHalfEven
<1> HIDE DEF q, m
<1>3. d * (q + 1) = d * q + d
  BY <1>1
<1>4. CASE RoundHalfEven(n, d) = q + 1 /\ 2 * m >= d
  <2>1. d * RoundHalfEven(n, d) - n = d - m
    BY <1>1, <1>3, <1>4
  <2> QED BY <1>1, <1>4, <2>1 DEF Close
<1>5. CASE RoundHalfEven(n, d) = q /\ 2 * m <= d
  <2>1. d * RoundHalfEven(n, d) - n = 0 - m
    BY <1>1, <1>5
  <2> QED BY <1>1, <1>5, <2>1 DEF Close
<1> QED BY <1>1, <1>2, <1>4, <1>5

\* So is what a NUMERIC(14, 2) column keeps, in whole cents.
LEMMA StoredNat ==
    ASSUME NEW n \in Nat
    PROVE  /\ Stored(n) \in Nat
           /\ Close(Cent * Stored(n), n, Cent)
<1> DEFINE q == (2 * n + Cent) \div (2 * Cent)
           m == (2 * n + Cent) % (2 * Cent)
<1>1. 2 * n + Cent \in Nat /\ 2 * Cent \in Nat \ {0} /\ Cent \in Nat \ {0}
  BY MoneyAssumption
<1>2. q \in Nat /\ m \in Nat /\ m < 2 * Cent /\ 2 * n + Cent = (2 * Cent) * q + m
  BY <1>1, Division
<1>3. Stored(n) = q
  BY DEF Stored
<1> HIDE DEF q, m
<1>4. (2 * Cent) * q = 2 * (Cent * q)
  BY <1>1, <1>2
<1>5. 2 * (Cent * q - n) = Cent - m
  BY <1>1, <1>2, <1>4
<1> QED BY <1>1, <1>2, <1>3, <1>5 DEF Close

\* An amount in whole cents is kept as it is.
LEMMA StoredCents ==
    ASSUME NEW k \in Nat PROVE Stored(Cent * k) = k
<1> DEFINE n == Cent * k
           q == (2 * n + Cent) \div (2 * Cent)
           m == (2 * n + Cent) % (2 * Cent)
<1>1. Cent \in Nat \ {0} /\ 2 * Cent \in Nat \ {0} /\ n \in Nat /\ 2 * n + Cent \in Nat
  BY MoneyAssumption, ProductNat
<1>2. q \in Nat /\ m \in Nat /\ m < 2 * Cent /\ 2 * n + Cent = (2 * Cent) * q + m
  BY <1>1, Division
<1>3. 2 * n = (2 * Cent) * k
  BY <1>1
<1>4. Stored(n) = q
  BY DEF Stored
<1> HIDE DEF n, q, m
<1>5. (2 * Cent) * k + Cent = (2 * Cent) * q + m
  BY <1>1, <1>2, <1>3
<1>6. q = k
  BY <1>1, <1>2, <1>5, DivisionUnique
<1> QED BY <1>4, <1>6 DEF n

LEMMA StorableNat ==
    ASSUME NEW n \in Nat, Storable(n) PROVE Stored(n) \in Nat \ {0}
BY StoredNat DEF Storable

\* The CHECK on the amount received holds if the one on the amount sent does.
LEMMA DestinationAmountNat ==
    ASSUME NEW n \in Amount, NEW c \in Currency, NEW d \in Currency
    PROVE  /\ DestinationAmount(n, c, d) \in Nat
           /\ DestinationAmount(n, c, d) > 0 /\ Storable(n) => Storable(DestinationAmount(n, c, d))
<1>1. n \in Nat /\ Rate[c, d] \in Nat /\ Cent \in Nat \ {0} /\ RateUnit \in Nat \ {0}
  BY MoneyAssumption
<1>2. CASE c = d
  BY <1>1, <1>2 DEF DestinationAmount
<1>3. CASE c # d
  <2> DEFINE k == RoundHalfEven(n * Rate[c, d], Cent * RateUnit)
  <2>1. n * Rate[c, d] \in Nat /\ Cent * RateUnit \in Nat \ {0}
    BY <1>1, ProductNat, ProductPositive
  <2>2. k \in Nat
    BY <2>1, RoundHalfEvenNat
  <2>3. DestinationAmount(n, c, d) = Cent * k
    BY <1>3 DEF DestinationAmount
  <2> HIDE DEF k
  <2>4. Cent * k \in Nat
    BY <1>1, <2>2, ProductNat
  <2>5. Stored(Cent * k) = k
    BY <2>2, StoredCents
  <2>6. k = 0 => Cent * k = 0
    BY <1>1, ProductZero
  <2>7. Storable(DestinationAmount(n, c, d)) <=> k > 0
    BY <2>3, <2>5 DEF Storable
  <2> QED BY <2>2, <2>3, <2>4, <2>6, <2>7
<1> QED BY <1>2, <1>3

\* Close and multiplication.
LEMMA Monotone ==
    ASSUME NEW i \in Nat, NEW j \in Nat, NEW k \in Nat, i <= j PROVE k * i <= k * j
<1>1. k * j = k * i + k * (j - i)
  OBVIOUS
<1>2. k * (j - i) \in Nat
  BY ProductNat
<1> QED BY <1>1, <1>2

LEMMA MonotoneStrict ==
    ASSUME NEW i \in Nat, NEW j \in Nat, NEW k \in Nat \ {0}, k * i <= k * j PROVE i <= j
<1>1. CASE j + 1 <= i
  <2>1. k * (j + 1) <= k * i
    BY <1>1, Monotone
  <2>2. k * (j + 1) = k * j + k
    OBVIOUS
  <2> QED BY <2>1, <2>2
<1> QED BY <1>1

LEMMA CloseProduct ==
    ASSUME NEW x \in Nat, NEW y \in Nat, NEW z \in Nat, NEW k \in Nat
    PROVE  /\ k * (2 * x) = 2 * (k * x)
           /\ k * (2 * y + z) = 2 * (k * y) + k * z
OBVIOUS

LEMMA CloseTimes ==
    ASSUME NEW x \in Nat, NEW y \in Nat, NEW z \in Nat, NEW k \in Nat, Close(x, y, z)
    PROVE  Close(k * x, k * y, k * z)
<1>1. k * (2 * x) <= k * (2 * y + z) /\ k * (2 * y) <= k * (2 * x + z)
  BY Monotone DEF Close
<1> QED BY <1>1, CloseProduct DEF Close

LEMMA CloseDivide ==
    ASSUME NEW x \in Nat, NEW y \in Nat, NEW z \in Nat, NEW k \in Nat \ {0},
           Close(k * x, k * y, k * z)
    PROVE  Close(x, y, z)
<1>1. k * (2 * x) <= k * (2 * y + z) /\ k * (2 * y) <= k * (2 * x + z)
  BY CloseProduct DEF Close
<1> QED BY <1>1, MonotoneStrict DEF Close

LEMMA CloseAdd ==
    ASSUME NEW x \in Nat, NEW y \in Nat, NEW w \in Nat, NEW z \in Nat, NEW u \in Nat,
           Close(x, y, z), Close(w, y, u)
    PROVE  Close(x, w, z + u)
BY DEF Close

\* What is paid out of a transfer, against what its row says it took in.
LEMMA ConvertedClose ==
    ASSUME NEW n \in Amount, NEW c \in Currency, NEW d \in Currency, c # d
    PROVE  Close(RateUnit * Stored(DestinationAmount(n, c, d)), Stored(n) * Rate[c, d],
                 RateUnit + Rate[c, d])
<1> DEFINE rate == Rate[c, d]
           unit == Cent * RateUnit
           exact == n * rate
           paid == RoundHalfEven(exact, unit)
           sent == Stored(n)
<1>1. n \in Nat /\ rate \in Nat /\ Cent \in Nat \ {0} /\ RateUnit \in Nat \ {0}
  BY MoneyAssumption
<1>2. exact \in Nat /\ unit \in Nat \ {0}
  BY <1>1, ProductNat, ProductPositive
<1>3. paid \in Nat /\ Close(unit * paid, exact, unit)
  BY <1>2, RoundHalfEvenNat
<1>4. sent \in Nat /\ Close(Cent * sent, n, Cent)
  BY <1>1, StoredNat
<1>5. Stored(DestinationAmount(n, c, d)) = paid
  BY <1>3, StoredCents DEF DestinationAmount
<1> HIDE DEF rate, paid, sent
<1>6. Close(rate * (Cent * sent), rate * n, rate * Cent)
  BY <1>1, <1>4, CloseTimes, ProductNat
<1>7. /\ rate * n = exact
      /\ rate * (Cent * sent) = Cent * (sent * rate)
      /\ unit * paid = Cent * (RateUnit * paid)
      /\ unit + rate * Cent = Cent * (RateUnit + rate)
  BY <1>1, <1>3, <1>4
<1>8. /\ sent * rate \in Nat /\ RateUnit * paid \in Nat /\ RateUnit + rate \in Nat
      /\ unit * paid \in Nat /\ rate * (Cent * sent) \in Nat /\ rate * Cent \in Nat
  BY <1>1, <1>2, <1>3, <1>4, ProductNat
<1> HIDE DEF exact, unit
<1>9. Close(unit * paid, rate * (Cent * sent), unit + rate * Cent)
  BY <1>2, <1>3, <1>6, <1>7, <1>8, CloseAdd
<1>10. Close(Cent * (RateUnit * paid), Cent * (sent * rate), Cent * (RateUnit + rate))
  BY <1>7, <1>9
<1>11. Close(RateUnit * paid, sent * rate, RateUnit + rate)
  BY <1>1, <1>8, <1>10, CloseDivide
<1> QED BY <1>5, <1>11 DEF rate, sent

-----------------------------------------------------------------------------
(* Types.                                                                  *)

\* What each step knows of the parameters its request carries.
LocalsOK(q) ==
    /\ q.pc \in {"update_account.count_cash", "update_account.update"} =>
          q.id \in AccountId /\ q.type \in AccountType /\ q.currency \in Currency
    /\ q.pc \in {"delete_account.count", "delete_account.count_cash",
                 "delete_account.dependencies", "delete_account.delete"} =>
          q.id \in AccountId
    /\ q.pc = "create_transaction.insert" =>
          q.account \in AccountId /\ q.type \in EntryType /\ q.amount > 0
    /\ q.pc \in {"update_transaction.resolve", "update_transaction.update"} =>
          q.id \in TransactionId /\ q.type \in EntryType /\ q.amount > 0
    /\ q.pc = "delete_transaction.delete" => q.id \in TransactionId
    /\ q.pc \in {"create_transfer.insert", "create_transfer.mirror"} =>
          /\ q.account \in AccountId /\ q.to \in AccountId /\ q.account # q.to
          /\ q.amount > 0 /\ q.received > 0
    /\ q.pc = "create_transfer.insert" => (Storable(q.amount) => Storable(q.received))
    /\ q.pc = "create_transfer.mirror" => Storable(q.amount) /\ Storable(q.received)
    /\ q.pc \in {"update_recurring.account", "update_recurring.update"} => q.id \in RuleId

TypeInv == TypeOK /\ \A r \in Request : LocalsOK(request[r])

TablesOK ==
    /\ accounts \in [AccountId -> AccountRow \cup {None}]
    /\ transactions \in [TransactionId -> TransactionRow \cup {None}]
    /\ transfers \in [TransferId -> TransferRow \cup {None}]
    /\ rules \in [RuleId -> AccountId \cup {None}]
    /\ issued \in [accounts : 0 .. MaxAccounts, transactions : 0 .. MaxTransactions,
                   transfers : 0 .. MaxTransfers, rules : 0 .. MaxRules]

\* A step of request r keeps the types if its new record is well formed.
LEMMA SetRequest ==
    ASSUME TypeInv, TablesOK', NEW r \in Request, NEW q \in Locals, LocalsOK(q),
           request' = [request EXCEPT ![r] = q]
    PROVE  TypeInv'
BY DEF TypeInv, TypeOK, TablesOK, LocalsOK

LEMMA SameRequests ==
    ASSUME TypeInv, TablesOK', UNCHANGED request PROVE TypeInv'
BY DEF TypeInv, TypeOK, TablesOK, LocalsOK

LEMMA IdleOK == Idle \in Locals /\ LocalsOK(Idle)
BY DEF Idle, Locals, LocalsOK, Step, NULL

\* The parameters of a request one at a time.
LEMMA Fields ==
    ASSUME NEW q \in Locals
    PROVE  /\ \A v \in Step : [q EXCEPT !.pc = v] \in Locals
           /\ \A v \in Nat : [q EXCEPT !.id = v] \in Locals
           /\ \A v \in AccountId \cup {NULL} : [q EXCEPT !.account = v] \in Locals
           /\ \A v \in AccountId \cup {NULL} : [q EXCEPT !.to = v] \in Locals
           /\ \A v \in AccountType \cup EntryType : [q EXCEPT !.type = v] \in Locals
           /\ \A v \in Currency : [q EXCEPT !.currency = v] \in Locals
           /\ \A v \in Nat : [q EXCEPT !.amount = v] \in Locals
           /\ \A v \in Nat : [q EXCEPT !.received = v] \in Locals
BY DEF Locals

LEMMA IdsNat == AccountId \subseteq Nat /\ TransactionId \subseteq Nat /\ RuleId \subseteq Nat
BY BoundsAssumption DEF AccountId, TransactionId, RuleId

LEMMA ReturnTypes ==
    ASSUME TypeInv, TablesOK', NEW r \in Request, Return(r)
    PROVE  TypeInv'
BY SetRequest, IdleOK DEF Return

LEMMA GotoTypes ==
    ASSUME TypeInv, TablesOK', NEW r \in Request, NEW pc \in Step, Goto(r, pc),
           LocalsOK([request[r] EXCEPT !.pc = pc])
    PROVE  TypeInv'
<1> DEFINE q == [request[r] EXCEPT !.pc = pc]
<1>1. request[r] \in Locals
  BY DEF TypeInv, TypeOK
<1>2. q \in Locals
  BY <1>1 DEF Locals
<1>3. request' = [request EXCEPT ![r] = q]
  BY <1>1 DEF Goto, TypeInv, TypeOK
<1> QED BY <1>2, <1>3, SetRequest

LEMMA TablesUnchanged ==
    ASSUME TypeInv, UNCHANGED tables PROVE TablesOK'
BY DEF TypeInv, TypeOK, TablesOK, tables

LEMMA EnsureTypes ==
    ASSUME TypeInv, NEW r \in Request, NEW ok, NEW pc \in Step,
           Ensure(r, ok, pc), ok => LocalsOK([request[r] EXCEPT !.pc = pc])
    PROVE  TypeInv'
BY TablesUnchanged, ReturnTypes, GotoTypes DEF Ensure

-----------------------------------------------------------------------------
(* Every step keeps the types.                                             *)

LEMMA AccountTypes ==
    ASSUME TypeInv, NEW r \in Request, AccountStep(r)
    PROVE  TypeInv'
<1>q. request[r] \in Locals /\ LocalsOK(request[r])
  BY DEF TypeInv, TypeOK
<1>1. CASE CreateAccount(r)
  <2>1. accounts' \in [AccountId -> AccountRow \cup {None}]
    <3>1. PICK type \in AccountType, c \in Currency :
             accounts' = [accounts EXCEPT ![issued.accounts + 1] =
                             [type |-> type, currency |-> c]]
      BY <1>1 DEF CreateAccount
    <3>2. [type |-> type, currency |-> c] \in AccountRow
      BY DEF AccountRow
    <3> QED BY <3>1, <3>2 DEF TypeInv, TypeOK
  <2>2. issued' \in [accounts : 0 .. MaxAccounts, transactions : 0 .. MaxTransactions,
                     transfers : 0 .. MaxTransfers, rules : 0 .. MaxRules]
    BY <1>1, BoundsAssumption DEF CreateAccount, TypeInv, TypeOK
  <2>3. TablesOK'
    BY <1>1, <2>1, <2>2 DEF CreateAccount, TypeInv, TypeOK, TablesOK
  <2> QED BY <2>3, <1>1, SameRequests DEF CreateAccount
<1>2. CASE UpdateAccount(r)
  <2>1. PICK a \in LiveAccounts, type \in AccountType, c \in Currency :
           request' = [request EXCEPT ![r] =
              [Idle EXCEPT !.pc = IF accounts[a].type = "cash" /\ type # "cash"
                                  THEN "update_account.count_cash"
                                  ELSE "update_account.update",
                           !.id = a, !.type = type, !.currency = c]]
    BY <1>2 DEF UpdateAccount
  <2>2. TablesOK'
    BY <1>2, TablesUnchanged DEF UpdateAccount
  <2> DEFINE pc == IF accounts[a].type = "cash" /\ type # "cash"
                   THEN "update_account.count_cash" ELSE "update_account.update"
             q == [Idle EXCEPT !.pc = pc, !.id = a, !.type = type, !.currency = c]
  <2>3. pc \in Step /\ pc \in {"update_account.count_cash", "update_account.update"}
    BY DEF Step
  <2> HIDE DEF pc
  <2>4. q \in Locals
    BY <2>3, IdleOK, Fields, IdsNat DEF LiveAccounts
  <2>5. LocalsOK(q)
    BY <2>3 DEF Idle, LocalsOK, LiveAccounts
  <2>6. request' = [request EXCEPT ![r] = q]
    BY <2>1 DEF pc
  <2> QED BY <2>2, <2>4, <2>5, <2>6, SetRequest
<1>3. CASE UpdateAccountCountCash(r)
  BY <1>3, <1>q, EnsureTypes DEF UpdateAccountCountCash, At, LocalsOK, Step, Locals
<1>4. CASE UpdateAccountWrite(r)
  <2>1. TablesOK'
    BY <1>4, <1>q DEF UpdateAccountWrite, At, LocalsOK, TypeInv, TypeOK, TablesOK, AccountRow
  <2> QED BY <2>1, <1>4, ReturnTypes DEF UpdateAccountWrite
<1>5. CASE DeleteAccount(r)
  <2>1. PICK a \in LiveAccounts :
           request' = [request EXCEPT ![r] =
              [Idle EXCEPT !.pc = "delete_account.count", !.id = a, !.type = accounts[a].type]]
    BY <1>5 DEF DeleteAccount
  <2>2. TablesOK'
    BY <1>5, TablesUnchanged DEF DeleteAccount
  <2>3. accounts[a].type \in AccountType
    BY DEF TypeInv, TypeOK, LiveAccounts, AccountRow
  <2> DEFINE q == [Idle EXCEPT !.pc = "delete_account.count", !.id = a,
                               !.type = accounts[a].type]
  <2>4. q \in Locals
    <3>1. "delete_account.count" \in Step
      BY DEF Step
    <3> QED BY <2>3, <3>1, IdleOK, Fields, IdsNat DEF LiveAccounts
  <2>5. LocalsOK(q)
    BY DEF Idle, LocalsOK, LiveAccounts
  <2> QED BY <2>1, <2>2, <2>4, <2>5, SetRequest
<1>6. CASE DeleteAccountCount(r)
  BY <1>6, <1>q, EnsureTypes DEF DeleteAccountCount, At, LocalsOK, Step, Locals
<1>7. CASE DeleteAccountCountCash(r)
  BY <1>7, <1>q, EnsureTypes DEF DeleteAccountCountCash, At, LocalsOK, Step, Locals
<1>8. CASE DeleteAccountDependencies(r)
  BY <1>8, <1>q, EnsureTypes DEF DeleteAccountDependencies, At, LocalsOK, Step, Locals
<1>9. CASE DeleteAccountDelete(r)
  <2>1. TablesOK'
    BY <1>9, <1>q DEF DeleteAccountDelete, At, TypeInv, TypeOK, TablesOK, LiveTransactions,
                      TransactionRow
  <2> QED BY <2>1, <1>9, ReturnTypes DEF DeleteAccountDelete
<1> QED
  BY <1>1, <1>2, <1>3, <1>4, <1>5, <1>6, <1>7, <1>8, <1>9 DEF AccountStep

LEMMA NewTransaction ==
    ASSUME TypeInv, issued.transactions < MaxTransactions,
           NEW a \in AccountId, NEW type \in EntryType, NEW n \in Nat \ {0},
           transactions' = [transactions EXCEPT ![issued.transactions + 1] =
               [account |-> a, transfer |-> NULL, type |-> type, amount |-> n]],
           issued' = [issued EXCEPT !.transactions = @ + 1],
           UNCHANGED <<accounts, transfers, rules>>
    PROVE  TablesOK'
<1>1. [account |-> a, transfer |-> NULL, type |-> type, amount |-> n] \in TransactionRow
  BY DEF TransactionRow
<1>2. issued' \in [accounts : 0 .. MaxAccounts, transactions : 0 .. MaxTransactions,
                   transfers : 0 .. MaxTransfers, rules : 0 .. MaxRules]
  BY BoundsAssumption DEF TypeInv, TypeOK
<1> QED BY <1>1, <1>2 DEF TypeInv, TypeOK, TablesOK

LEMMA ResolveTypes ==
    ASSUME NEW given, NEW a \in ResolveAccount(given)
    PROVE  a \in AccountId
BY DEF ResolveAccount, LiveAccounts, CashAccounts

LEMMA TransactionTypes ==
    ASSUME TypeInv, NEW r \in Request, TransactionStep(r)
    PROVE  TypeInv'
<1>q. request[r] \in Locals /\ LocalsOK(request[r])
  BY DEF TypeInv, TypeOK
<1>a. \A n \in Amount : n \in Nat /\ n > 0
  BY MoneyAssumption
<1>1. CASE CreateTransaction(r)
  <2>1. PICK given \in AccountId \cup {NULL}, type \in EntryType, amount \in Amount :
        \E a \in ResolveAccount(given) :
           request' = [request EXCEPT ![r] =
              [Idle EXCEPT !.pc = "create_transaction.insert", !.account = a,
                           !.type = type, !.amount = amount]]
    BY <1>1 DEF CreateTransaction
  <2>2. PICK a \in ResolveAccount(given) :
           request' = [request EXCEPT ![r] =
              [Idle EXCEPT !.pc = "create_transaction.insert", !.account = a,
                           !.type = type, !.amount = amount]]
    BY <2>1
  <2> DEFINE q == [Idle EXCEPT !.pc = "create_transaction.insert", !.account = a,
                               !.type = type, !.amount = amount]
  <2>3. a \in AccountId
    BY ResolveTypes
  <2>4. q \in Locals
    <3>1. "create_transaction.insert" \in Step
      BY DEF Step
    <3> QED BY <2>3, <3>1, <1>a, IdleOK, Fields
  <2>5. LocalsOK(q)
    BY <2>3, <1>a DEF Idle, LocalsOK
  <2>6. TablesOK'
    BY <1>1, TablesUnchanged DEF CreateTransaction
  <2> QED BY <2>2, <2>4, <2>5, <2>6, SetRequest
<1>2. CASE CreateTransactionInsert(r)
  <2>1. CASE request[r].account \in LiveAccounts /\ Storable(request[r].amount)
    <3>1. request[r].account \in AccountId /\ request[r].type \in EntryType
          /\ Stored(request[r].amount) \in Nat \ {0}
      <4>1. request[r].amount \in Nat
        BY <1>q DEF Locals
      <4>2. request[r].account \in AccountId /\ request[r].type \in EntryType
        BY <1>2, <1>q DEF CreateTransactionInsert, At, LocalsOK
      <4> QED BY <2>1, <4>1, <4>2, StorableNat
    <3>2. TablesOK'
      BY <1>2, <2>1, <3>1, NewTransaction DEF CreateTransactionInsert
    <3> QED BY <1>2, <3>2, ReturnTypes DEF CreateTransactionInsert
  <2>2. CASE ~(request[r].account \in LiveAccounts /\ Storable(request[r].amount))
    <3>1. TablesOK'
      BY <1>2, <2>2, TablesUnchanged DEF CreateTransactionInsert, tables
    <3> QED BY <1>2, <3>1, ReturnTypes DEF CreateTransactionInsert
  <2> QED BY <2>1, <2>2
<1>3. CASE UpdateTransaction(r)
  <2>1. PICK x \in LiveTransactions, given \in AccountId \cup {NULL},
             type \in EntryType, amount \in Amount :
          request' = [request EXCEPT ![r] =
             [Idle EXCEPT !.pc = "update_transaction.resolve", !.id = x,
                          !.account = given, !.type = type, !.amount = amount]]
    BY <1>3 DEF UpdateTransaction
  <2> DEFINE q == [Idle EXCEPT !.pc = "update_transaction.resolve", !.id = x,
                               !.account = given, !.type = type, !.amount = amount]
  <2>2. x \in TransactionId
    BY DEF LiveTransactions
  <2>3. q \in Locals
    <3>1. "update_transaction.resolve" \in Step
      BY DEF Step
    <3> QED BY <2>2, <3>1, <1>a, IdleOK, Fields, IdsNat
  <2>4. LocalsOK(q)
    BY <2>2, <1>a DEF Idle, LocalsOK
  <2>5. TablesOK'
    BY <1>3, TablesUnchanged DEF UpdateTransaction
  <2> QED BY <2>1, <2>3, <2>4, <2>5, SetRequest
<1>4. CASE UpdateTransactionResolve(r)
  <2>1. TablesOK'
    BY <1>4, TablesUnchanged DEF UpdateTransactionResolve
  <2>2. CASE Return(r)
    BY <2>1, <2>2, ReturnTypes
  <2>3. CASE \E a \in ResolveAccount(request[r].account) :
                request' = [request EXCEPT ![r].pc = "update_transaction.update",
                                           ![r].account = a]
    <3>1. PICK a \in ResolveAccount(request[r].account) :
                request' = [request EXCEPT ![r].pc = "update_transaction.update",
                                           ![r].account = a]
      BY <2>3
    <3> DEFINE q == [request[r] EXCEPT !.pc = "update_transaction.update", !.account = a]
    <3>2. q \in Locals
      <4>1. "update_transaction.update" \in Step
        BY DEF Step
      <4> QED BY <4>1, <1>q, Fields, ResolveTypes
    <3>3. LocalsOK(q)
      BY <1>4, <1>q DEF UpdateTransactionResolve, At, LocalsOK, Locals
    <3>4. request' = [request EXCEPT ![r] = q]
      BY <3>1
    <3> QED BY <2>1, <3>2, <3>3, <3>4, SetRequest
  <2> QED BY <1>4, <2>2, <2>3 DEF UpdateTransactionResolve
<1>5. CASE UpdateTransactionWrite(r)
  <2>1. CASE /\ request[r].id \in LiveTransactions /\ request[r].account \in LiveAccounts
             /\ Storable(request[r].amount)
    <3> DEFINE e == [transactions[request[r].id] EXCEPT !.account = request[r].account,
                          !.type = request[r].type, !.amount = Stored(request[r].amount)]
    <3>1. transactions[request[r].id] \in TransactionRow
      BY <2>1 DEF TypeInv, TypeOK, LiveTransactions
    <3>2. /\ request[r].account \in AccountId
          /\ request[r].type \in EntryType /\ Stored(request[r].amount) \in Nat \ {0}
      <4>1. request[r].amount \in Nat
        BY <1>q DEF Locals
      <4>2. request[r].account \in AccountId /\ request[r].type \in EntryType
        BY <1>5, <2>1, <1>q DEF UpdateTransactionWrite, At, LocalsOK, LiveAccounts
      <4> QED BY <2>1, <4>1, <4>2, StorableNat
    <3>3. e \in TransactionRow
      <4> DEFINE e1 == [transactions[request[r].id] EXCEPT !.account = request[r].account]
                 e2 == [e1 EXCEPT !.type = request[r].type]
      <4>1. e1 \in TransactionRow
        BY <3>1, <3>2 DEF TransactionRow
      <4>2. e2 \in TransactionRow
        BY <4>1, <3>2 DEF TransactionRow
      <4>3. [e2 EXCEPT !.amount = Stored(request[r].amount)] \in TransactionRow
        BY <4>2, <3>2 DEF TransactionRow
      <4> QED BY <4>3
    <3>4. transactions' = [transactions EXCEPT ![request[r].id] = e]
      BY <1>5, <2>1 DEF UpdateTransactionWrite
    <3>5. TablesOK'
      BY <1>5, <3>3, <3>4 DEF UpdateTransactionWrite, TypeInv, TypeOK, TablesOK
    <3> QED BY <1>5, <3>5, ReturnTypes DEF UpdateTransactionWrite
  <2>2. CASE ~(/\ request[r].id \in LiveTransactions /\ request[r].account \in LiveAccounts
               /\ Storable(request[r].amount))
    <3>1. UNCHANGED tables
      BY <1>5, <2>2 DEF UpdateTransactionWrite, tables
    <3> QED BY <1>5, <3>1, TablesUnchanged, ReturnTypes DEF UpdateTransactionWrite
  <2> QED BY <2>1, <2>2
<1>6. CASE DeleteTransaction(r)
  <2>1. PICK x \in LiveTransactions :
          request' = [request EXCEPT ![r] =
             [Idle EXCEPT !.pc = "delete_transaction.delete", !.id = x]]
    BY <1>6 DEF DeleteTransaction
  <2> DEFINE q == [Idle EXCEPT !.pc = "delete_transaction.delete", !.id = x]
  <2>2. x \in TransactionId
    BY DEF LiveTransactions
  <2>3. q \in Locals
    <3>1. "delete_transaction.delete" \in Step
      BY DEF Step
    <3> QED BY <2>2, <3>1, IdleOK, Fields, IdsNat
  <2>4. LocalsOK(q)
    BY <2>2 DEF Idle, LocalsOK
  <2>5. TablesOK'
    BY <1>6, TablesUnchanged DEF DeleteTransaction
  <2> QED BY <2>1, <2>3, <2>4, <2>5, SetRequest
<1>7. CASE DeleteTransactionDelete(r)
  <2>1. TablesOK'
    BY <1>7 DEF DeleteTransactionDelete, TypeInv, TypeOK, TablesOK
  <2> QED BY <1>7, <2>1, ReturnTypes DEF DeleteTransactionDelete
<1> QED
  BY <1>1, <1>2, <1>3, <1>4, <1>5, <1>6, <1>7 DEF TransactionStep

\* Both amounts of an open transfer pass the CHECKs.
LEMMA CommitAmounts ==
    ASSUME NEW q \in Locals, LocalsOK(q), q.pc = "create_transfer.mirror"
    PROVE  /\ q.account \in AccountId /\ q.to \in AccountId
           /\ Stored(q.amount) \in Nat \ {0} /\ Stored(q.received) \in Nat \ {0}
<1>1. q.amount \in Nat /\ q.received \in Nat
  BY DEF Locals
<1>2. Storable(q.amount) /\ Storable(q.received)
  BY DEF LocalsOK
<1>3. q.account \in AccountId /\ q.to \in AccountId
  BY DEF LocalsOK
<1> QED BY <1>1, <1>2, <1>3, StorableNat

LEMMA TransferTypes ==
    ASSUME TypeInv, NEW r \in Request, TransferStep(r)
    PROVE  TypeInv'
<1>q. request[r] \in Locals /\ LocalsOK(request[r])
  BY DEF TypeInv, TypeOK
<1>a. \A n \in Amount : n \in Nat /\ n > 0
  BY MoneyAssumption
<1>1. CASE CreateTransfer(r)
  <2>1. PICK a \in LiveAccounts, b \in LiveAccounts, amount \in Amount :
          /\ a # b
          /\ DestinationAmount(amount, accounts[a].currency, accounts[b].currency) > 0
          /\ request' = [request EXCEPT ![r] =
                [Idle EXCEPT !.pc = "create_transfer.insert", !.account = a, !.to = b,
                             !.amount = amount,
                             !.received = DestinationAmount(amount, accounts[a].currency,
                                                            accounts[b].currency)]]
    BY <1>1 DEF CreateTransfer
  <2> DEFINE received == DestinationAmount(amount, accounts[a].currency, accounts[b].currency)
             q == [Idle EXCEPT !.pc = "create_transfer.insert", !.account = a, !.to = b,
                               !.amount = amount, !.received = received]
  <2>2. a \in AccountId /\ b \in AccountId
    BY DEF LiveAccounts
  <2>3. received \in Nat /\ (received > 0 /\ Storable(amount) => Storable(received))
    <3>1. accounts[a].currency \in Currency /\ accounts[b].currency \in Currency
      BY <2>2 DEF LiveAccounts, TypeInv, TypeOK, AccountRow
    <3> QED BY <3>1, DestinationAmountNat
  <2>4. received > 0 /\ request' = [request EXCEPT ![r] = q]
    BY <2>1
  <2> HIDE DEF received
  <2>5. q \in Locals
    <3>1. "create_transfer.insert" \in Step
      BY DEF Step
    <3> QED BY <2>2, <2>3, <3>1, <1>a, IdleOK, Fields
  <2>6. LocalsOK(q)
    BY <2>1, <2>2, <2>3, <2>4, <1>a DEF Idle, LocalsOK
  <2>7. TablesOK'
    BY <1>1, TablesUnchanged DEF CreateTransfer
  <2> QED BY <2>4, <2>5, <2>6, <2>7, SetRequest
<1>2. CASE CreateTransferInsert(r)
  BY <1>2, <1>q, EnsureTypes DEF CreateTransferInsert, At, LocalsOK, Step, Locals
<1>3. CASE CreateTransferCommit(r)
  <2> DEFINE q == request[r]
             t == issued.transfers + 1
             out == issued.transactions + 1
             in == issued.transactions + 2
             paid == [account |-> q.account, transfer |-> t, type |-> "expense",
                      amount |-> Stored(q.amount)]
             got == [account |-> q.to, transfer |-> t, type |-> "income",
                     amount |-> Stored(q.received)]
  <2>1. /\ q.account \in AccountId /\ q.to \in AccountId
        /\ Stored(q.amount) \in Nat \ {0} /\ Stored(q.received) \in Nat \ {0}
    BY <1>3, <1>q, CommitAmounts DEF CreateTransferCommit, At
  <2>2. t \in TransferId
    BY <1>3, BoundsAssumption DEF CreateTransferCommit, TypeInv, TypeOK, TransferId
  <2>3. paid \in TransactionRow /\ got \in TransactionRow
    BY <2>1, <2>2 DEF TransactionRow, EntryType
  <2>4. [from |-> q.account, to |-> q.to, amount |-> Stored(q.amount)] \in TransferRow
    BY <2>1 DEF TransferRow
  <2>5. /\ transfers' = [transfers EXCEPT ![t] =
                            [from |-> q.account, to |-> q.to, amount |-> Stored(q.amount)]]
        /\ transactions' = [transactions EXCEPT ![out] = paid, ![in] = got]
        /\ UNCHANGED <<accounts, rules>>
    BY <1>3 DEF CreateTransferCommit
  <2> HIDE DEF paid, got
  <2>6. issued' \in [accounts : 0 .. MaxAccounts, transactions : 0 .. MaxTransactions,
                     transfers : 0 .. MaxTransfers, rules : 0 .. MaxRules]
    <3> DEFINE i1 == [issued EXCEPT !.transfers = @ + 1]
    <3>1. i1 \in [accounts : 0 .. MaxAccounts, transactions : 0 .. MaxTransactions,
                  transfers : 0 .. MaxTransfers, rules : 0 .. MaxRules]
          /\ i1.transactions = issued.transactions
      BY <1>3, BoundsAssumption DEF CreateTransferCommit, TypeInv, TypeOK
    <3>2. issued' = [i1 EXCEPT !.transactions = @ + 2]
      BY <1>3 DEF CreateTransferCommit
    <3> HIDE DEF i1
    <3>3. issued.transactions + 2 <= MaxTransactions
      BY <1>3 DEF CreateTransferCommit
    <3> QED BY <3>1, <3>2, <3>3, BoundsAssumption
  <2>7. TablesOK'
    BY <2>3, <2>4, <2>5, <2>6 DEF TypeInv, TypeOK, TablesOK
  <2> QED BY <1>3, <2>7, ReturnTypes DEF CreateTransferCommit
<1>4. CASE DeleteTransfer(r)
  <2>1. TablesOK'
    BY <1>4 DEF DeleteTransfer, TypeInv, TypeOK, TablesOK
  <2> QED BY <1>4, <2>1, SameRequests DEF DeleteTransfer
<1> QED
  BY <1>1, <1>2, <1>3, <1>4 DEF TransferStep

LEMMA RecurringTypes ==
    ASSUME TypeInv, NEW r \in Request, RecurringStep(r)
    PROVE  TypeInv'
<1>q. request[r] \in Locals /\ LocalsOK(request[r])
  BY DEF TypeInv, TypeOK
<1>a. Amount \subseteq Nat
  BY MoneyAssumption
<1>1. CASE CreateRecurring(r)
  <2>1. PICK a \in LiveAccounts, amount \in Amount :
          request' = [request EXCEPT ![r] =
             [Idle EXCEPT !.pc = "create_recurring.insert", !.account = a,
                          !.amount = amount]]
    BY <1>1 DEF CreateRecurring
  <2> DEFINE q == [Idle EXCEPT !.pc = "create_recurring.insert", !.account = a,
                               !.amount = amount]
  <2>2. q \in Locals
    <3>1. "create_recurring.insert" \in Step
      BY DEF Step
    <3> QED BY <3>1, <1>a, IdleOK, Fields DEF LiveAccounts
  <2>3. LocalsOK(q)
    BY DEF Idle, LocalsOK
  <2>4. TablesOK'
    BY <1>1, TablesUnchanged DEF CreateRecurring
  <2> QED BY <2>1, <2>2, <2>3, <2>4, SetRequest
<1>2. CASE CreateRecurringInsert(r)
  <2>1. rules' \in [RuleId -> AccountId \cup {None}]
    BY <1>2 DEF CreateRecurringInsert, TypeInv, TypeOK, LiveAccounts
  <2>2. issued' \in [accounts : 0 .. MaxAccounts, transactions : 0 .. MaxTransactions,
                     transfers : 0 .. MaxTransfers, rules : 0 .. MaxRules]
    BY <1>2, BoundsAssumption DEF CreateRecurringInsert, TypeInv, TypeOK
  <2>3. TablesOK'
    BY <1>2, <2>1, <2>2 DEF CreateRecurringInsert, TypeInv, TypeOK, TablesOK
  <2> QED BY <1>2, <2>3, ReturnTypes DEF CreateRecurringInsert
<1>3. CASE UpdateRecurring(r)
  <2>1. PICK k \in LiveRules, a \in AccountId, amount \in Amount :
          request' = [request EXCEPT ![r] =
             [Idle EXCEPT !.pc = "update_recurring.account", !.id = k, !.account = a,
                          !.amount = amount]]
    BY <1>3 DEF UpdateRecurring
  <2> DEFINE q == [Idle EXCEPT !.pc = "update_recurring.account", !.id = k, !.account = a,
                               !.amount = amount]
  <2>2. q \in Locals
    <3>1. "update_recurring.account" \in Step
      BY DEF Step
    <3> QED BY <3>1, <1>a, IdleOK, Fields, IdsNat DEF LiveRules
  <2>3. LocalsOK(q)
    BY DEF Idle, LocalsOK, LiveRules
  <2>4. TablesOK'
    BY <1>3, TablesUnchanged DEF UpdateRecurring
  <2> QED BY <2>1, <2>2, <2>3, <2>4, SetRequest
<1>4. CASE UpdateRecurringAccount(r)
  BY <1>4, <1>q, EnsureTypes DEF UpdateRecurringAccount, At, LocalsOK, Step, Locals
<1>5. CASE UpdateRecurringWrite(r)
  <2>1. TablesOK'
    BY <1>5 DEF UpdateRecurringWrite, TypeInv, TypeOK, TablesOK, LiveAccounts
  <2> QED BY <1>5, <2>1, ReturnTypes DEF UpdateRecurringWrite
<1>6. CASE DeleteRecurring(r)
  <2>1. TablesOK'
    BY <1>6 DEF DeleteRecurring, TypeInv, TypeOK, TablesOK
  <2> QED BY <1>6, <2>1, SameRequests DEF DeleteRecurring
<1> QED
  BY <1>1, <1>2, <1>3, <1>4, <1>5, <1>6 DEF RecurringStep

LEMMA MaterializeTypes ==
    ASSUME TypeInv, Materialize PROVE TypeInv'
<1>1. PICK k \in LiveRules, type \in EntryType, amount \in Amount :
         /\ Storable(amount)
         /\ transactions' = [transactions EXCEPT ![issued.transactions + 1] =
               [account |-> rules[k], transfer |-> NULL, type |-> type,
                amount |-> Stored(amount)]]
  BY DEF Materialize
<1>2. rules[k] \in AccountId /\ Stored(amount) \in Nat \ {0}
  <2>1. amount \in Nat
    BY MoneyAssumption
  <2> QED BY <1>1, <2>1, StorableNat DEF LiveRules, TypeInv, TypeOK
<1>3. TablesOK'
  BY <1>1, <1>2, NewTransaction DEF Materialize
<1> QED BY <1>3, SameRequests DEF Materialize

LEMMA TypeStep ==
    ASSUME TypeInv, [Next]_vars PROVE TypeInv'
<1>1. ASSUME NEW r \in Request, AccountStep(r) PROVE TypeInv'
  BY <1>1, AccountTypes
<1>2. ASSUME NEW r \in Request, TransactionStep(r) PROVE TypeInv'
  BY <1>2, TransactionTypes
<1>3. ASSUME NEW r \in Request, TransferStep(r) PROVE TypeInv'
  BY <1>3, TransferTypes
<1>4. ASSUME NEW r \in Request, RecurringStep(r) PROVE TypeInv'
  BY <1>4, RecurringTypes
<1>5. ASSUME NEW r \in Request, Crash(r) PROVE TypeInv'
  BY <1>5, TablesUnchanged, ReturnTypes DEF Crash
<1>6. CASE Materialize
  BY <1>6, MaterializeTypes
<1>7. CASE UNCHANGED vars
  <2>1. UNCHANGED tables /\ UNCHANGED request
    BY <1>7 DEF vars, tables
  <2> QED BY <2>1, TablesUnchanged, SameRequests
<1> QED BY <1>1, <1>2, <1>3, <1>4, <1>5, <1>6, <1>7 DEF Next

LEMMA TypeInit == Init => TypeInv
BY IdleOK, BoundsAssumption DEF Init, TypeInv, TypeOK, AccountRow, AccountType, AccountId

\* Every reachable state is well typed: each table row has the shape its
\* handler gives it and every stored amount is positive.
THEOREM TypeCorrect == Spec => []TypeOK
<1>1. TypeInv /\ [Next]_vars => TypeInv'
  BY TypeStep
<1>2. TypeInv => TypeOK
  BY DEF TypeInv
<1> QED BY TypeInit, <1>1, <1>2, PTL DEF Spec

-----------------------------------------------------------------------------
(* The links between the tables of Ledger: transfers and their mirror rows,*)
(* and the accounts that transfers and rules refer to.                     *)

-----------------------------------------------------------------------------
(* The inductive invariant.                                                *)

PlainOrNone(e) == e = None \/ e.transfer = NULL

\* Ids that were not handed out name no row.
Fresh == /\ \A x \in TransactionId : x > issued.transactions => transactions[x] = None
         /\ \A t \in TransferId : t > issued.transfers => transfers[t] = None

\* An edit or a removal that passed the check on transfer_id still names a
\* plain row or a removed one: transfer_id never changes and no id comes back.
EditsPlain ==
    \A r \in Request :
       request[r].pc \in {"update_transaction.resolve", "update_transaction.update",
                          "delete_transaction.delete"} =>
          /\ request[r].id <= issued.transactions
          /\ PlainOrNone(transactions[request[r].id])

\* The two accounts of an open transfer stay: their rows are locked.
LocksHeld ==
    \A r \in Request :
       At(r, "create_transfer.mirror") =>
          request[r].account \in LiveAccounts /\ request[r].to \in LiveAccounts

LinkInv == /\ TypeInv /\ Fresh /\ EditsPlain /\ LocksHeld
           /\ TransferMirrored /\ ReferencesExist

-----------------------------------------------------------------------------
(* What a step may do to the tables.                                       *)

WriterOf(r) ==
    \/ CreateAccount(r) \/ UpdateAccountWrite(r) \/ DeleteAccountDelete(r)
    \/ CreateTransactionInsert(r) \/ UpdateTransactionWrite(r) \/ DeleteTransactionDelete(r)
    \/ CreateTransferCommit(r) \/ DeleteTransfer(r)
    \/ CreateRecurringInsert(r) \/ UpdateRecurringWrite(r) \/ DeleteRecurring(r)

LEMMA Writers ==
    ASSUME Next
    PROVE  UNCHANGED tables \/ Materialize \/ \E r \in Request : WriterOf(r)
BY DEF Next, WriterOf, AccountStep, TransactionStep, TransferStep, RecurringStep, Crash,
       UpdateAccount, UpdateAccountCountCash, DeleteAccount, DeleteAccountCount,
       DeleteAccountCountCash, DeleteAccountDependencies, CreateTransaction,
       UpdateTransaction, UpdateTransactionResolve, DeleteTransaction, CreateTransfer,
       CreateTransferInsert, CreateRecurring, UpdateRecurring, UpdateRecurringAccount, Ensure

\* A row without a transfer keeps having none.
PlainStays == \A x \in TransactionId :
                 x <= issued.transactions /\ PlainOrNone(transactions[x])
                    => PlainOrNone(transactions'[x])

LEMMA TransactionsStep ==
    ASSUME LinkInv, Next
    PROVE  PlainStays /\ issued.transactions <= issued'.transactions /\ Fresh'
<1> USE DEF PlainStays, PlainOrNone, Fresh
<1>t. /\ transactions \in [TransactionId -> TransactionRow \cup {None}]
      /\ transfers \in [TransferId -> TransferRow \cup {None}]
      /\ issued \in [accounts : 0 .. MaxAccounts, transactions : 0 .. MaxTransactions,
                     transfers : 0 .. MaxTransfers, rules : 0 .. MaxRules]
      /\ issued.transactions \in Nat /\ issued.transfers \in Nat
      /\ TransactionId \subseteq Nat /\ TransferId \subseteq Nat
      /\ Fresh
  BY BoundsAssumption DEF LinkInv, TypeInv, TypeOK, TransactionId, TransferId
<1>1. CASE UNCHANGED tables
  BY <1>1, <1>t DEF tables
<1>2. CASE Materialize
  BY <1>2, <1>t DEF Materialize
<1>3. ASSUME NEW r \in Request, WriterOf(r)
      PROVE  PlainStays /\ issued.transactions <= issued'.transactions /\ Fresh'
  <2>1. CASE CreateAccount(r)
    BY <2>1, <1>t DEF CreateAccount
  <2>2. CASE UpdateAccountWrite(r)
    BY <2>2, <1>t DEF UpdateAccountWrite
  <2>3. CASE DeleteAccountDelete(r)
    BY <2>3, <1>t DEF DeleteAccountDelete, LiveTransactions, TransactionRow
  <2>4. CASE CreateTransactionInsert(r)
    BY <2>4, <1>t DEF CreateTransactionInsert
  <2>5. CASE UpdateTransactionWrite(r)
    <3>1. CASE /\ request[r].id \in LiveTransactions /\ request[r].account \in LiveAccounts
               /\ Storable(request[r].amount)
      <4> DEFINE x == request[r].id
                 e == [transactions[x] EXCEPT !.account = request[r].account,
                                              !.type = request[r].type,
                                              !.amount = Stored(request[r].amount)]
      <4>1. x \in TransactionId /\ transactions[x] # None
        BY <3>1 DEF LiveTransactions
      <4>2. transactions[x] \in TransactionRow
        BY <4>1, <1>t
      <4>3. e.transfer = transactions[x].transfer
        BY <4>2 DEF TransactionRow
      <4>4. transactions' = [transactions EXCEPT ![x] = e] /\ UNCHANGED <<transfers, issued>>
        BY <2>5, <3>1 DEF UpdateTransactionWrite
      <4> HIDE DEF e
      <4> QED BY <4>1, <4>3, <4>4, <1>t
    <3> QED BY <3>1, <2>5, <1>t DEF UpdateTransactionWrite
  <2>6. CASE DeleteTransactionDelete(r)
    BY <2>6, <1>t DEF DeleteTransactionDelete
  <2>7. CASE CreateTransferCommit(r)
    BY <2>7, <1>t DEF CreateTransferCommit
  <2>8. CASE DeleteTransfer(r)
    BY <2>8, <1>t DEF DeleteTransfer
  <2>9. CASE CreateRecurringInsert(r)
    BY <2>9, <1>t DEF CreateRecurringInsert
  <2>10. CASE UpdateRecurringWrite(r)
    BY <2>10, <1>t DEF UpdateRecurringWrite
  <2>11. CASE DeleteRecurring(r)
    BY <2>11, <1>t DEF DeleteRecurring
  <2> QED BY <1>3, <2>1, <2>2, <2>3, <2>4, <2>5, <2>6, <2>7, <2>8, <2>9, <2>10, <2>11
          DEF WriterOf
<1> QED BY <1>1, <1>2, <1>3, Writers

-----------------------------------------------------------------------------
(* Mirror rows.                                                            *)

\* The link between the tables does not depend on plain rows.
LEMMA PlainRowsIrrelevant ==
    ASSUME TransferMirrored, UNCHANGED transfers,
           \A x \in TransactionId :
              \/ transactions'[x] = transactions[x]
              \/ PlainOrNone(transactions[x]) /\ PlainOrNone(transactions'[x])
    PROVE  /\ TransferMirrored'
           /\ \A t \in LiveTransfers : Mirrors(t)' = Mirrors(t)
           /\ \A t \in LiveTransfers : \A x \in Mirrors(t) : transactions'[x] = transactions[x]
<1>1. ASSUME NEW t \in TransferId
      PROVE  /\ Mirrors(t)' = Mirrors(t)
             /\ \A x \in Mirrors(t) : transactions'[x] = transactions[x]
  <2>1. t # NULL
    BY DEF TransferId, NULL
  <2>2. ASSUME NEW x \in TransactionId
        PROVE  /\ x \in Mirrors(t)' <=> x \in Mirrors(t)
               /\ x \in Mirrors(t) => transactions'[x] = transactions[x]
    BY <2>1 DEF PlainOrNone, Mirrors, LiveTransactions
  <2>3. Mirrors(t) \subseteq TransactionId /\ Mirrors(t)' \subseteq TransactionId
    BY DEF Mirrors, LiveTransactions
  <2> QED BY <2>2, <2>3
<1>2. LiveTransfers' = LiveTransfers /\ LiveTransfers \subseteq TransferId
  BY DEF LiveTransfers
<1>3. ASSUME NEW t \in TransferId, t \notin LiveTransfers' PROVE Mirrors(t)' = {}
  BY <1>1, <1>2, <1>3 DEF TransferMirrored
<1>4. ASSUME NEW t \in LiveTransfers'
      PROVE  \E out, in \in TransactionId :
                /\ Mirrors(t)' = {out, in}
                /\ out # in
                /\ /\ transactions'[out].account = transfers'[t].from
                   /\ transactions'[out].type = "expense"
                   /\ transactions'[out].amount = transfers'[t].amount
                /\ /\ transactions'[in].account = transfers'[t].to
                   /\ transactions'[in].type = "income"
  <2>1. t \in TransferId /\ t \in LiveTransfers
    BY <1>2
  <2>2. PICK out \in TransactionId, in \in TransactionId :
                /\ Mirrors(t) = {out, in}
                /\ out # in
                /\ /\ transactions[out].account = transfers[t].from
                   /\ transactions[out].type = "expense"
                   /\ transactions[out].amount = transfers[t].amount
                /\ /\ transactions[in].account = transfers[t].to
                   /\ transactions[in].type = "income"
    BY <2>1 DEF TransferMirrored
  <2>3. Mirrors(t)' = {out, in}
        /\ transactions'[out] = transactions[out] /\ transactions'[in] = transactions[in]
    BY <2>1, <2>2, <1>1
  <2> QED BY <2>2, <2>3
<1>5. TransferMirrored'
  BY <1>3, <1>4 DEF TransferMirrored
<1> QED BY <1>1, <1>2, <1>5

\* No live row belongs to a transfer whose id was not handed out.
LEMMA NoMirrorsYet ==
    ASSUME LinkInv, NEW t \in TransferId, t > issued.transfers
    PROVE  Mirrors(t) = {}
BY DEF LinkInv, Fresh, LiveTransfers, TransferMirrored

LEMMA CommitMirrors ==
    ASSUME LinkInv, NEW r \in Request, CreateTransferCommit(r)
    PROVE  /\ TransferMirrored'
           /\ \A t \in LiveTransfers : Mirrors(t)' = Mirrors(t)
           /\ \A t \in LiveTransfers : \A x \in Mirrors(t) : transactions'[x] = transactions[x]
<1>1. /\ issued.transactions \in Nat /\ issued.transfers \in Nat
      /\ TransactionId \subseteq Nat /\ TransferId \subseteq Nat
      /\ transactions \in [TransactionId -> TransactionRow \cup {None}]
      /\ transfers \in [TransferId -> TransferRow \cup {None}]
  BY BoundsAssumption DEF LinkInv, TypeInv, TypeOK, TransactionId, TransferId
<1>a. issued.transfers < MaxTransfers /\ issued.transactions + 2 <= MaxTransactions
  BY DEF CreateTransferCommit
<1>b. MaxTransfers \in Nat /\ MaxTransactions \in Nat
  BY BoundsAssumption
<1>c. /\ issued.transfers + 1 \in TransferId
      /\ issued.transactions + 1 \in TransactionId
      /\ issued.transactions + 2 \in TransactionId
  BY <1>1, <1>a, <1>b DEF TransactionId, TransferId
<1>0. PICK t0 \in TransferId, x0 \in TransactionId, y0 \in TransactionId :
         /\ t0 = issued.transfers + 1
         /\ x0 = issued.transactions + 1
         /\ y0 = issued.transactions + 2
  BY <1>c
<1> DEFINE q == request[r]
           paid == [account |-> q.account, transfer |-> t0, type |-> "expense",
                    amount |-> Stored(q.amount)]
           got == [account |-> q.to, transfer |-> t0, type |-> "income",
                   amount |-> Stored(q.received)]
           new == [from |-> q.account, to |-> q.to, amount |-> Stored(q.amount)]
<1>2. /\ x0 # y0 /\ t0 > issued.transfers
      /\ transactions[x0] = None /\ transactions[y0] = None /\ transfers[t0] = None
  BY <1>0, <1>1 DEF LinkInv, Fresh
<1>3. /\ transfers' = [transfers EXCEPT ![t0] = new]
      /\ transactions' = [transactions EXCEPT ![x0] = paid, ![y0] = got]
  BY <1>0 DEF CreateTransferCommit
<1>4. /\ transactions'[x0] = paid /\ transactions'[y0] = got
      /\ \A x \in TransactionId \ {x0, y0} : transactions'[x] = transactions[x]
      /\ transfers'[t0] = new
      /\ \A t \in TransferId \ {t0} : transfers'[t] = transfers[t]
  BY <1>1, <1>2, <1>3
<1>5. paid # None /\ got # None /\ new # None
  <2>1. /\ q.account \in AccountId /\ q.to \in AccountId
        /\ Stored(q.amount) \in Nat \ {0} /\ Stored(q.received) \in Nat \ {0}
    <3>1. q \in Locals /\ LocalsOK(q) /\ q.pc = "create_transfer.mirror"
      BY DEF LinkInv, TypeInv, TypeOK, CreateTransferCommit, At
    <3> QED BY <3>1, CommitAmounts
  <2>2. paid \in TransactionRow /\ got \in TransactionRow /\ new \in TransferRow
    BY <2>1, <1>2 DEF TransactionRow, TransferRow, EntryType
  <2> QED BY <2>2, NoneAssumption
<1>6. paid.transfer = t0 /\ got.transfer = t0
  OBVIOUS
<1>7. Mirrors(t0)' = {x0, y0}
  <2>1. \A x \in TransactionId : ~(transactions[x] # None /\ transactions[x].transfer = t0)
    BY <1>2, NoMirrorsYet DEF Mirrors, LiveTransactions
  <2> HIDE DEF paid, got
  <2>2. \A x \in TransactionId :
           (transactions'[x] # None /\ transactions'[x].transfer = t0) <=> x \in {x0, y0}
    BY <1>2, <1>4, <1>5, <1>6, <2>1
  <2> QED BY <1>2, <2>2 DEF Mirrors, LiveTransactions
<1>8. ASSUME NEW t \in TransferId \ {t0}
      PROVE  Mirrors(t)' = Mirrors(t)
  <2> HIDE DEF paid, got
  <2> QED BY <1>2, <1>4, <1>6 DEF Mirrors, LiveTransactions
<1>9. ASSUME NEW t \in TransferId
      PROVE  \A x \in Mirrors(t) : transactions'[x] = transactions[x]
  <2> HIDE DEF paid, got
  <2> QED BY <1>2, <1>4 DEF Mirrors, LiveTransactions
<1>10. t0 \notin LiveTransfers /\ LiveTransfers' = LiveTransfers \cup {t0}
  <2> HIDE DEF new
  <2> QED BY <1>2, <1>4, <1>5 DEF LiveTransfers
<1>11. ASSUME NEW t \in TransferId, t \notin LiveTransfers' PROVE Mirrors(t)' = {}
  BY <1>8, <1>10, <1>11 DEF TransferMirrored, LinkInv
<1>12. ASSUME NEW t \in LiveTransfers'
       PROVE  \E out, in \in TransactionId :
                /\ Mirrors(t)' = {out, in}
                /\ out # in
                /\ /\ transactions'[out].account = transfers'[t].from
                   /\ transactions'[out].type = "expense"
                   /\ transactions'[out].amount = transfers'[t].amount
                /\ /\ transactions'[in].account = transfers'[t].to
                   /\ transactions'[in].type = "income"
  <2>1. CASE t = t0
    <3>1. /\ transactions'[x0].account = transfers'[t0].from
          /\ transactions'[x0].type = "expense"
          /\ transactions'[x0].amount = transfers'[t0].amount
          /\ transactions'[y0].account = transfers'[t0].to
          /\ transactions'[y0].type = "income"
      BY <1>4
    <3> QED BY <3>1, <2>1, <1>2, <1>7
  <2>2. CASE t # t0
    <3>1. t \in LiveTransfers /\ t \in TransferId \ {t0}
      BY <2>2, <1>10 DEF LiveTransfers
    <3>2. PICK out \in TransactionId, in \in TransactionId :
                /\ Mirrors(t) = {out, in}
                /\ out # in
                /\ /\ transactions[out].account = transfers[t].from
                   /\ transactions[out].type = "expense"
                   /\ transactions[out].amount = transfers[t].amount
                /\ /\ transactions[in].account = transfers[t].to
                   /\ transactions[in].type = "income"
      BY <3>1 DEF TransferMirrored, LinkInv
    <3>3. /\ Mirrors(t)' = {out, in} /\ transfers'[t] = transfers[t]
          /\ transactions'[out] = transactions[out] /\ transactions'[in] = transactions[in]
      BY <3>1, <3>2, <1>4, <1>8, <1>9
    <3> QED BY <3>2, <3>3
  <2> QED BY <2>1, <2>2
<1>13. TransferMirrored'
  BY <1>11, <1>12 DEF TransferMirrored
<1> QED BY <1>8, <1>9, <1>10, <1>13 DEF LiveTransfers

LEMMA DeleteMirrors ==
    ASSUME LinkInv, NEW r \in Request, DeleteTransfer(r)
    PROVE  /\ TransferMirrored'
           /\ \A t \in LiveTransfers : t \in LiveTransfers' =>
                 /\ Mirrors(t)' = Mirrors(t)
                 /\ \A x \in Mirrors(t) : transactions'[x] = transactions[x]
<1>1. PICK t0 \in LiveTransfers :
         /\ transfers' = [transfers EXCEPT ![t0] = None]
         /\ transactions' = [x \in TransactionId |->
               IF x \in LiveTransactions /\ transactions[x].transfer = t0
               THEN None ELSE transactions[x]]
  BY DEF DeleteTransfer
<1>2. /\ transactions \in [TransactionId -> TransactionRow \cup {None}]
      /\ transfers \in [TransferId -> TransferRow \cup {None}]
  BY DEF LinkInv, TypeInv, TypeOK
<1>3. LiveTransfers' = LiveTransfers \ {t0} /\ LiveTransfers \subseteq TransferId
  BY <1>1, <1>2 DEF LiveTransfers
<1>4. Mirrors(t0)' = {}
  BY <1>1 DEF Mirrors, LiveTransactions
<1>5. ASSUME NEW t \in TransferId \ {t0}
      PROVE  /\ Mirrors(t)' = Mirrors(t)
             /\ \A x \in Mirrors(t) : transactions'[x] = transactions[x]
  BY <1>1 DEF Mirrors, LiveTransactions
<1>6. ASSUME NEW t \in TransferId, t \notin LiveTransfers' PROVE Mirrors(t)' = {}
  BY <1>3, <1>4, <1>5, <1>6 DEF TransferMirrored, LinkInv
<1>7. ASSUME NEW t \in LiveTransfers'
      PROVE  \E out, in \in TransactionId :
                /\ Mirrors(t)' = {out, in}
                /\ out # in
                /\ /\ transactions'[out].account = transfers'[t].from
                   /\ transactions'[out].type = "expense"
                   /\ transactions'[out].amount = transfers'[t].amount
                /\ /\ transactions'[in].account = transfers'[t].to
                   /\ transactions'[in].type = "income"
  <2>1. t \in LiveTransfers /\ t \in TransferId \ {t0} /\ transfers'[t] = transfers[t]
    BY <1>1, <1>2, <1>3
  <2>2. PICK out \in TransactionId, in \in TransactionId :
                /\ Mirrors(t) = {out, in}
                /\ out # in
                /\ /\ transactions[out].account = transfers[t].from
                   /\ transactions[out].type = "expense"
                   /\ transactions[out].amount = transfers[t].amount
                /\ /\ transactions[in].account = transfers[t].to
                   /\ transactions[in].type = "income"
    BY <2>1 DEF TransferMirrored, LinkInv
  <2>3. /\ Mirrors(t)' = {out, in}
        /\ transactions'[out] = transactions[out] /\ transactions'[in] = transactions[in]
    BY <2>1, <2>2, <1>5
  <2> QED BY <2>1, <2>2, <2>3
<1> QED BY <1>3, <1>5, <1>6, <1>7 DEF TransferMirrored

\* The DELETE of an account leaves the rows of every transfer alone, because it
\* fails when a transfer refers to the account.
LEMMA DeleteAccountPlain ==
    ASSUME LinkInv, NEW r \in Request, DeleteAccountDelete(r), NEW x \in TransactionId
    PROVE  \/ transactions'[x] = transactions[x]
           \/ PlainOrNone(transactions[x]) /\ PlainOrNone(transactions'[x])
<1> DEFINE a == request[r].id
<1>1. CASE Restricted(a)
  BY <1>1 DEF DeleteAccountDelete
<1>2. CASE ~Restricted(a)
  <2>1. transactions' = [y \in TransactionId |->
           IF y \in LiveTransactions /\ transactions[y].account = a
           THEN [transactions[y] EXCEPT !.account = NULL]
           ELSE transactions[y]]
    BY <1>2 DEF DeleteAccountDelete
  <2>2. CASE x \in LiveTransactions /\ transactions[x].account = a
    <3>1. transactions[x] \in TransactionRow
      BY <2>2 DEF LiveTransactions, LinkInv, TypeInv, TypeOK
    <3>2. transactions'[x].transfer = transactions[x].transfer
      BY <2>1, <2>2, <3>1 DEF TransactionRow
    <3>3. transactions[x].transfer = NULL
      <4> SUFFICES ASSUME transactions[x].transfer # NULL PROVE FALSE
        OBVIOUS
      <4> DEFINE t == transactions[x].transfer
      <4>1. t \in TransferId /\ x \in Mirrors(t)
        BY <2>2, <3>1 DEF TransactionRow, Mirrors
      <4>2. t \in LiveTransfers
        BY <4>1 DEF LinkInv, TransferMirrored
      <4>3. a \in {transfers[t].from, transfers[t].to}
        BY <2>2, <4>1, <4>2 DEF LinkInv, TransferMirrored
      <4> QED BY <1>2, <4>2, <4>3 DEF Restricted, InTransfers
    <3> QED BY <3>2, <3>3 DEF PlainOrNone
  <2>3. CASE ~(x \in LiveTransactions /\ transactions[x].account = a)
    BY <2>1, <2>3
  <2> QED BY <2>2, <2>3
<1> QED BY <1>1, <1>2

LEMMA MirrorsStep ==
    ASSUME LinkInv, Next
    PROVE  /\ TransferMirrored'
           /\ \A t \in LiveTransfers : t \in LiveTransfers' =>
                 /\ Mirrors(t)' = Mirrors(t)
                 /\ \A x \in Mirrors(t) : transactions'[x] = transactions[x]
<1>t. /\ transactions \in [TransactionId -> TransactionRow \cup {None}]
      /\ issued.transactions \in Nat /\ TransactionId \subseteq Nat
      /\ TransferMirrored /\ Fresh /\ EditsPlain
  BY BoundsAssumption DEF LinkInv, TypeInv, TypeOK, TransactionId
<1>1. CASE UNCHANGED tables
  BY <1>1, <1>t, PlainRowsIrrelevant DEF tables
<1>2. CASE Materialize
  <2>1. \A x \in TransactionId :
           \/ transactions'[x] = transactions[x]
           \/ PlainOrNone(transactions[x]) /\ PlainOrNone(transactions'[x])
    BY <1>2, <1>t DEF Materialize, PlainOrNone, Fresh
  <2> QED BY <1>2, <1>t, <2>1, PlainRowsIrrelevant DEF Materialize
<1>3. ASSUME NEW r \in Request, WriterOf(r)
      PROVE  /\ TransferMirrored'
             /\ \A t \in LiveTransfers : t \in LiveTransfers' =>
                   /\ Mirrors(t)' = Mirrors(t)
                   /\ \A x \in Mirrors(t) : transactions'[x] = transactions[x]
  <2>1. CASE CreateAccount(r)
    BY <2>1, <1>t, PlainRowsIrrelevant DEF CreateAccount
  <2>2. CASE UpdateAccountWrite(r)
    BY <2>2, <1>t, PlainRowsIrrelevant DEF UpdateAccountWrite
  <2>3. CASE DeleteAccountDelete(r)
    BY <2>3, <1>t, DeleteAccountPlain, PlainRowsIrrelevant DEF DeleteAccountDelete
  <2>4. CASE CreateTransactionInsert(r)
    <3>1. \A x \in TransactionId :
             \/ transactions'[x] = transactions[x]
             \/ PlainOrNone(transactions[x]) /\ PlainOrNone(transactions'[x])
      BY <2>4, <1>t DEF CreateTransactionInsert, PlainOrNone, Fresh
    <3> QED BY <2>4, <1>t, <3>1, PlainRowsIrrelevant DEF CreateTransactionInsert
  <2>5. CASE UpdateTransactionWrite(r)
    <3> DEFINE x0 == request[r].id
    <3>1. PlainOrNone(transactions[x0]) /\ x0 <= issued.transactions
      BY <2>5, <1>t DEF UpdateTransactionWrite, At, EditsPlain
    <3>2. \A x \in TransactionId \ {x0} : transactions'[x] = transactions[x]
      BY <2>5, <1>t DEF UpdateTransactionWrite
    <3>3. x0 \in TransactionId => PlainOrNone(transactions'[x0])
      BY <3>1, <2>5, TransactionsStep DEF PlainStays
    <3>4. \A x \in TransactionId :
             \/ transactions'[x] = transactions[x]
             \/ PlainOrNone(transactions[x]) /\ PlainOrNone(transactions'[x])
      BY <3>1, <3>2, <3>3
    <3> QED BY <2>5, <1>t, <3>4, PlainRowsIrrelevant DEF UpdateTransactionWrite
  <2>6. CASE DeleteTransactionDelete(r)
    <3>1. \A x \in TransactionId :
             \/ transactions'[x] = transactions[x]
             \/ PlainOrNone(transactions[x]) /\ PlainOrNone(transactions'[x])
      BY <2>6, <1>t DEF DeleteTransactionDelete, At, EditsPlain, PlainOrNone
    <3> QED BY <2>6, <1>t, <3>1, PlainRowsIrrelevant DEF DeleteTransactionDelete
  <2>7. CASE CreateTransferCommit(r)
    BY <2>7, CommitMirrors
  <2>8. CASE DeleteTransfer(r)
    BY <2>8, DeleteMirrors
  <2>9. CASE CreateRecurringInsert(r)
    BY <2>9, <1>t, PlainRowsIrrelevant DEF CreateRecurringInsert
  <2>10. CASE UpdateRecurringWrite(r)
    BY <2>10, <1>t, PlainRowsIrrelevant DEF UpdateRecurringWrite
  <2>11. CASE DeleteRecurring(r)
    BY <2>11, <1>t, PlainRowsIrrelevant DEF DeleteRecurring
  <2> QED BY <1>3, <2>1, <2>2, <2>3, <2>4, <2>5, <2>6, <2>7, <2>8, <2>9, <2>10, <2>11
          DEF WriterOf
<1> QED BY <1>1, <1>2, <1>3, Writers

-----------------------------------------------------------------------------
(* References to accounts.                                                 *)

\* The only account a step removes has no transfer, no rule and no open lock.
LEMMA AccountsStay ==
    ASSUME LinkInv, Next, NEW a \in LiveAccounts, a \notin LiveAccounts'
    PROVE  ~Restricted(a) /\ ~KeyShared(a)
           /\ UNCHANGED <<transfers, rules>>
           /\ \A x \in TransactionId : transactions'[x] # None => transactions'[x].account # a
<1>t. /\ accounts \in [AccountId -> AccountRow \cup {None}]
      /\ transactions \in [TransactionId -> TransactionRow \cup {None}]
      /\ a \in AccountId /\ a # NULL
      /\ issued.accounts \in Nat
      /\ \A r \in Request : request[r] \in Locals /\ LocalsOK(request[r])
  BY BoundsAssumption DEF LinkInv, TypeInv, TypeOK, LiveAccounts, AccountId, NULL
<1>1. CASE UNCHANGED tables
  BY <1>1 DEF tables, LiveAccounts
<1>2. CASE Materialize
  BY <1>2 DEF Materialize, LiveAccounts
<1>3. ASSUME NEW r \in Request, WriterOf(r)
      PROVE  ~Restricted(a) /\ ~KeyShared(a)
             /\ UNCHANGED <<transfers, rules>>
             /\ \A x \in TransactionId : transactions'[x] # None => transactions'[x].account # a
  <2>1. CASE CreateAccount(r)
    <3>1. PICK type \in AccountType, c \in Currency :
             accounts' = [accounts EXCEPT ![issued.accounts + 1] =
                             [type |-> type, currency |-> c]]
      BY <2>1 DEF CreateAccount
    <3>2. [type |-> type, currency |-> c] # None
      BY NoneAssumption DEF AccountRow
    <3> QED BY <3>1, <3>2, <1>t DEF LiveAccounts
  <2>2. CASE UpdateAccountWrite(r)
    <3>1. [type |-> request[r].type, currency |-> request[r].currency] # None
      BY <2>2, <1>t, NoneAssumption DEF UpdateAccountWrite, At, LocalsOK, AccountRow
    <3> QED BY <2>2, <3>1, <1>t DEF UpdateAccountWrite, LiveAccounts
  <2>3. CASE DeleteAccountDelete(r)
    <3>1. request[r].id = a /\ ~Restricted(a) /\ ~KeyShared(a)
      BY <2>3, <1>t DEF DeleteAccountDelete, LiveAccounts
    <3>2. transactions' = [x \in TransactionId |->
             IF x \in LiveTransactions /\ transactions[x].account = a
             THEN [transactions[x] EXCEPT !.account = NULL]
             ELSE transactions[x]]
      BY <2>3, <3>1 DEF DeleteAccountDelete
    <3>3. ASSUME NEW x \in TransactionId, transactions'[x] # None
          PROVE  transactions'[x].account # a
      <4>1. CASE x \in LiveTransactions /\ transactions[x].account = a
        <5>1. transactions[x] \in TransactionRow
          BY <4>1, <1>t DEF LiveTransactions
        <5> QED BY <3>2, <4>1, <5>1, <1>t DEF TransactionRow
      <4>2. CASE ~(x \in LiveTransactions /\ transactions[x].account = a)
        BY <3>2, <3>3, <4>2 DEF LiveTransactions
      <4> QED BY <4>1, <4>2
    <3> QED BY <2>3, <3>1, <3>3 DEF DeleteAccountDelete
  <2>4. CASE UNCHANGED accounts
    BY <2>4 DEF LiveAccounts
  <2> QED BY <1>3, <2>1, <2>2, <2>3, <2>4
          DEF WriterOf, CreateTransactionInsert, UpdateTransactionWrite,
              DeleteTransactionDelete, CreateTransferCommit, DeleteTransfer,
              CreateRecurringInsert, UpdateRecurringWrite, DeleteRecurring
<1> QED BY <1>1, <1>2, <1>3, Writers

\* A row that a step writes refers to accounts that exist when it is written.
LEMMA TransfersRefer ==
    ASSUME LinkInv, Next, NEW t \in LiveTransfers'
    PROVE  /\ transfers'[t].from \in LiveAccounts /\ transfers'[t].to \in LiveAccounts
           /\ transfers'[t].from # transfers'[t].to
           /\ UNCHANGED transfers => t \in LiveTransfers
<1>t. /\ transfers \in [TransferId -> TransferRow \cup {None}]
      /\ t \in TransferId /\ transfers'[t] # None
      /\ \A r \in Request : request[r] \in Locals /\ LocalsOK(request[r])
      /\ ReferencesExist /\ LocksHeld
  BY DEF LinkInv, TypeInv, TypeOK, LiveTransfers
<1>1. CASE transfers'[t] = transfers[t]
  BY <1>1, <1>t DEF LiveTransfers, ReferencesExist
<1>2. CASE transfers'[t] # transfers[t]
  <2>1. \E r \in Request : CreateTransferCommit(r) \/ DeleteTransfer(r)
    BY <1>2, Writers
       DEF tables, Materialize, WriterOf, CreateAccount, UpdateAccountWrite,
           DeleteAccountDelete, CreateTransactionInsert, UpdateTransactionWrite,
           DeleteTransactionDelete, CreateRecurringInsert, UpdateRecurringWrite,
           DeleteRecurring
  <2>2. ASSUME NEW r \in Request, DeleteTransfer(r) PROVE FALSE
    BY <2>2, <1>t, <1>2 DEF DeleteTransfer
  <2>3. PICK r \in Request : CreateTransferCommit(r)
    BY <2>1, <2>2
  <2>4. transfers'[t] = [from |-> request[r].account, to |-> request[r].to,
                         amount |-> Stored(request[r].amount)]
    BY <2>3, <1>2, <1>t DEF CreateTransferCommit
  <2>5. /\ request[r].account \in LiveAccounts /\ request[r].to \in LiveAccounts
        /\ request[r].account # request[r].to
    BY <2>3, <1>t DEF CreateTransferCommit, At, LocksHeld, LocalsOK
  <2> QED BY <1>2, <2>4, <2>5
<1> QED BY <1>1, <1>2

LEMMA RulesRefer ==
    ASSUME LinkInv, Next, NEW k \in LiveRules'
    PROVE  rules'[k] \in LiveAccounts
<1>t. rules \in [RuleId -> AccountId \cup {None}] /\ ReferencesExist
      /\ k \in RuleId /\ rules'[k] # None
  BY DEF LinkInv, TypeInv, TypeOK, LiveRules
<1>1. CASE rules'[k] = rules[k]
  BY <1>1, <1>t DEF LiveRules, ReferencesExist
<1>2. CASE rules'[k] # rules[k]
  <2>1. \E r \in Request : CreateRecurringInsert(r) \/ UpdateRecurringWrite(r)
                           \/ DeleteRecurring(r)
    BY <1>2, Writers
       DEF tables, Materialize, WriterOf, CreateAccount, UpdateAccountWrite,
           DeleteAccountDelete, CreateTransactionInsert, UpdateTransactionWrite,
           DeleteTransactionDelete, CreateTransferCommit, DeleteTransfer
  <2> QED BY <2>1, <1>t, <1>2
          DEF CreateRecurringInsert, UpdateRecurringWrite, DeleteRecurring
<1> QED BY <1>1, <1>2

LEMMA RowsRefer ==
    ASSUME LinkInv, Next, NEW x \in LiveTransactions'
    PROVE  transactions'[x].account \in LiveAccounts \cup {NULL}
<1>t. /\ transactions \in [TransactionId -> TransactionRow \cup {None}]
      /\ x \in TransactionId /\ transactions'[x] # None
      /\ ReferencesExist /\ LocksHeld
  BY DEF LinkInv, TypeInv, TypeOK, LiveTransactions
<1>1. CASE transactions'[x] = transactions[x]
  BY <1>1, <1>t DEF LiveTransactions, ReferencesExist
<1>2. CASE transactions'[x] # transactions[x]
  <2>1. CASE Materialize
    <3>1. \E k \in LiveRules : transactions'[x].account = rules[k]
      BY <2>1, <1>2, <1>t DEF Materialize
    <3> QED BY <3>1, <1>t DEF ReferencesExist
  <2>2. ASSUME NEW r \in Request, WriterOf(r)
        PROVE  transactions'[x].account \in LiveAccounts \cup {NULL}
    <3>1. CASE DeleteAccountDelete(r)
      <4>1. transactions[x] \in TransactionRow
            /\ transactions'[x] = [transactions[x] EXCEPT !.account = NULL]
        BY <3>1, <1>2, <1>t DEF DeleteAccountDelete, LiveTransactions
      <4> QED BY <4>1 DEF TransactionRow
    <3>2. CASE CreateTransactionInsert(r)
      BY <3>2, <1>2, <1>t DEF CreateTransactionInsert
    <3>3. CASE UpdateTransactionWrite(r)
      <4> DEFINE q == request[r]
                 e == [transactions[q.id] EXCEPT !.account = q.account, !.type = q.type,
                                                 !.amount = Stored(q.amount)]
      <4>1. /\ x = q.id /\ x \in LiveTransactions /\ q.account \in LiveAccounts
            /\ transactions'[x] = e
        BY <3>3, <1>2, <1>t DEF UpdateTransactionWrite
      <4>2. transactions[x] \in TransactionRow
        BY <4>1, <1>t DEF LiveTransactions
      <4>3. e.account = q.account
        BY <4>1, <4>2 DEF TransactionRow
      <4> QED BY <4>1, <4>3
    <3>4. CASE DeleteTransactionDelete(r)
      BY <3>4, <1>2, <1>t DEF DeleteTransactionDelete
    <3>5. CASE CreateTransferCommit(r)
      <4>1. /\ request[r].account \in LiveAccounts /\ request[r].to \in LiveAccounts
        BY <3>5, <1>t DEF CreateTransferCommit, At, LocksHeld
      <4>2. transactions'[x].account \in {request[r].account, request[r].to}
        BY <3>5, <1>2, <1>t DEF CreateTransferCommit
      <4> QED BY <4>1, <4>2
    <3>6. CASE DeleteTransfer(r)
      BY <3>6, <1>2, <1>t DEF DeleteTransfer
    <3> QED BY <2>2, <3>1, <3>2, <3>3, <3>4, <3>5, <3>6, <1>2
            DEF WriterOf, CreateAccount, UpdateAccountWrite, CreateRecurringInsert,
                UpdateRecurringWrite, DeleteRecurring
  <2> QED BY <2>1, <2>2, <1>2, Writers DEF tables
<1> QED BY <1>1, <1>2

LEMMA ReferencesStep ==
    ASSUME LinkInv, Next PROVE ReferencesExist'
<1>1. ASSUME NEW t \in LiveTransfers'
      PROVE  /\ transfers'[t].from \in LiveAccounts' /\ transfers'[t].to \in LiveAccounts'
             /\ transfers'[t].from # transfers'[t].to
  <2>1. ASSUME NEW a \in {transfers'[t].from, transfers'[t].to} PROVE a \in LiveAccounts'
    <3> SUFFICES ASSUME a \notin LiveAccounts' PROVE FALSE
      OBVIOUS
    <3>1. a \in LiveAccounts
      BY TransfersRefer
    <3>2. ~InTransfers(a) /\ UNCHANGED transfers
      BY <3>1, AccountsStay DEF Restricted
    <3> QED BY <3>2, TransfersRefer DEF InTransfers
  <2> QED BY <2>1, TransfersRefer
<1>2. ASSUME NEW k \in LiveRules' PROVE rules'[k] \in LiveAccounts'
  <2> SUFFICES ASSUME rules'[k] \notin LiveAccounts' PROVE FALSE
    OBVIOUS
  <2>1. rules'[k] \in LiveAccounts
    BY RulesRefer
  <2>2. ~InRules(rules'[k]) /\ UNCHANGED rules
    BY <2>1, AccountsStay DEF Restricted
  <2> QED BY <2>2 DEF InRules, LiveRules
<1>3. ASSUME NEW x \in LiveTransactions'
      PROVE  transactions'[x].account \in LiveAccounts' \cup {NULL}
  <2> SUFFICES ASSUME transactions'[x].account \notin LiveAccounts' \cup {NULL} PROVE FALSE
    OBVIOUS
  <2>1. transactions'[x].account \in LiveAccounts
    BY RowsRefer
  <2> QED BY <2>1, AccountsStay DEF LiveTransactions
<1> QED BY <1>1, <1>2, <1>3 DEF ReferencesExist

-----------------------------------------------------------------------------
(* What requests remember.                                                 *)

\* A step of one request leaves the other requests alone.
LEMMA OwnRequest ==
    ASSUME TypeInv, Next, NEW r \in Request
    PROVE  \/ request'[r] = request[r]
           \/ AccountStep(r) \/ TransactionStep(r) \/ TransferStep(r) \/ RecurringStep(r)
           \/ Crash(r)
<1>t. request \in [Request -> Locals]
  BY DEF TypeInv, TypeOK
<1>1. CASE Materialize
  BY <1>1 DEF Materialize
<1>2. ASSUME NEW p \in Request, p # r,
             AccountStep(p) \/ TransactionStep(p) \/ TransferStep(p) \/ RecurringStep(p)
                \/ Crash(p)
      PROVE  request'[r] = request[r]
  <2> USE <1>t, <1>2 DEF Ensure, Goto, Return
  <2>1. CASE AccountStep(p)
    BY <2>1 DEF AccountStep, CreateAccount, UpdateAccount, UpdateAccountCountCash,
                UpdateAccountWrite, DeleteAccount, DeleteAccountCount,
                DeleteAccountCountCash, DeleteAccountDependencies, DeleteAccountDelete
  <2>2. CASE TransactionStep(p)
    BY <2>2 DEF TransactionStep, CreateTransaction, CreateTransactionInsert,
                UpdateTransaction, UpdateTransactionResolve, UpdateTransactionWrite,
                DeleteTransaction, DeleteTransactionDelete
  <2>3. CASE TransferStep(p)
    BY <2>3 DEF TransferStep, CreateTransfer, CreateTransferInsert, CreateTransferCommit,
                DeleteTransfer
  <2>4. CASE RecurringStep(p)
    BY <2>4 DEF RecurringStep, CreateRecurring, CreateRecurringInsert, UpdateRecurring,
                UpdateRecurringAccount, UpdateRecurringWrite, DeleteRecurring
  <2>5. CASE Crash(p)
    BY <2>5 DEF Crash
  <2> QED BY <2>1, <2>2, <2>3, <2>4, <2>5
<1> QED BY <1>1, <1>2 DEF Next

\* A request that ends is idle again.
LEMMA NextPc ==
    ASSUME TypeInv, NEW r \in Request, Return(r)
    PROVE  request'[r] = Idle
BY DEF TypeInv, TypeOK, Return

LEMMA AccountPc ==
    ASSUME TypeInv, NEW r \in Request, AccountStep(r)
    PROVE  request'[r].pc \in {"idle", "update_account.count_cash", "update_account.update",
              "delete_account.count", "delete_account.count_cash",
              "delete_account.dependencies", "delete_account.delete"}
<1>t. request \in [Request -> Locals] /\ request[r] \in Locals /\ Idle.pc = "idle"
  BY DEF TypeInv, TypeOK, Idle
<1>1. CASE CreateAccount(r)
  BY <1>1, <1>t DEF CreateAccount, Calls
<1>2. CASE UpdateAccount(r)
  BY <1>2, <1>t DEF UpdateAccount, Idle
<1>3. CASE UpdateAccountCountCash(r)
  BY <1>3, <1>t DEF UpdateAccountCountCash, Ensure, Goto, Return, Locals
<1>4. CASE UpdateAccountWrite(r)
  BY <1>4, <1>t, NextPc DEF UpdateAccountWrite
<1>5. CASE DeleteAccount(r)
  BY <1>5, <1>t DEF DeleteAccount, Idle
<1>6. CASE DeleteAccountCount(r)
  BY <1>6, <1>t DEF DeleteAccountCount, Ensure, Goto, Return, Locals
<1>7. CASE DeleteAccountCountCash(r)
  BY <1>7, <1>t DEF DeleteAccountCountCash, Ensure, Goto, Return, Locals
<1>8. CASE DeleteAccountDependencies(r)
  BY <1>8, <1>t DEF DeleteAccountDependencies, Ensure, Goto, Return, Locals
<1>9. CASE DeleteAccountDelete(r)
  BY <1>9, <1>t, NextPc DEF DeleteAccountDelete
<1> QED BY <1>1, <1>2, <1>3, <1>4, <1>5, <1>6, <1>7, <1>8, <1>9 DEF AccountStep

LEMMA TransactionPc ==
    ASSUME TypeInv, NEW r \in Request, TransactionStep(r)
    PROVE  \/ request'[r].pc \in {"idle", "create_transaction.insert"}
           \/ UpdateTransaction(r) /\ request'[r].pc = "update_transaction.resolve"
           \/ UpdateTransactionResolve(r) /\ request'[r].pc = "update_transaction.update"
              /\ request'[r].id = request[r].id
           \/ DeleteTransaction(r) /\ request'[r].pc = "delete_transaction.delete"
<1>t. request \in [Request -> Locals] /\ request[r] \in Locals /\ Idle.pc = "idle"
  BY DEF TypeInv, TypeOK, Idle
<1>1. CASE CreateTransaction(r)
  BY <1>1, <1>t DEF CreateTransaction, Idle
<1>2. CASE CreateTransactionInsert(r)
  BY <1>2, <1>t, NextPc DEF CreateTransactionInsert
<1>3. CASE UpdateTransaction(r)
  BY <1>3, <1>t DEF UpdateTransaction, Idle
<1>4. CASE UpdateTransactionResolve(r)
  <2>1. CASE Return(r)
    BY <2>1, <1>t, NextPc
  <2>2. CASE \E a \in ResolveAccount(request[r].account) :
                request' = [request EXCEPT ![r].pc = "update_transaction.update",
                                           ![r].account = a]
    BY <2>2, <1>4, <1>t DEF Locals
  <2> QED BY <1>4, <2>1, <2>2 DEF UpdateTransactionResolve
<1>5. CASE UpdateTransactionWrite(r)
  BY <1>5, <1>t, NextPc DEF UpdateTransactionWrite
<1>6. CASE DeleteTransaction(r)
  BY <1>6, <1>t DEF DeleteTransaction, Idle
<1>7. CASE DeleteTransactionDelete(r)
  BY <1>7, <1>t, NextPc DEF DeleteTransactionDelete
<1> QED BY <1>1, <1>2, <1>3, <1>4, <1>5, <1>6, <1>7 DEF TransactionStep

LEMMA TransferPc ==
    ASSUME TypeInv, NEW r \in Request, TransferStep(r) \/ RecurringStep(r) \/ Crash(r)
    PROVE  \/ request'[r].pc \in {"idle", "create_transfer.insert", "create_recurring.insert",
                                  "update_recurring.account", "update_recurring.update"}
           \/ CreateTransferInsert(r) /\ request'[r].pc = "create_transfer.mirror"
<1>t. request \in [Request -> Locals] /\ request[r] \in Locals /\ Idle.pc = "idle"
  BY DEF TypeInv, TypeOK, Idle
<1>1. CASE CreateTransfer(r)
  BY <1>1, <1>t DEF CreateTransfer, Idle
<1>2. CASE CreateTransferInsert(r)
  BY <1>2, <1>t DEF CreateTransferInsert, Ensure, Goto, Return, Locals
<1>3. CASE CreateTransferCommit(r)
  BY <1>3, <1>t, NextPc DEF CreateTransferCommit
<1>4. CASE DeleteTransfer(r) \/ DeleteRecurring(r)
  BY <1>4, <1>t DEF DeleteTransfer, DeleteRecurring, Calls
<1>5. CASE CreateRecurring(r)
  BY <1>5, <1>t DEF CreateRecurring, Idle
<1>6. CASE CreateRecurringInsert(r)
  BY <1>6, <1>t, NextPc DEF CreateRecurringInsert
<1>7. CASE UpdateRecurring(r)
  BY <1>7, <1>t DEF UpdateRecurring, Idle
<1>8. CASE UpdateRecurringAccount(r)
  BY <1>8, <1>t DEF UpdateRecurringAccount, Ensure, Goto, Return, Locals
<1>9. CASE UpdateRecurringWrite(r)
  BY <1>9, <1>t, NextPc DEF UpdateRecurringWrite
<1>10. CASE Crash(r)
  BY <1>10, <1>t, NextPc DEF Crash
<1> QED BY <1>1, <1>2, <1>3, <1>4, <1>5, <1>6, <1>7, <1>8, <1>9, <1>10
        DEF TransferStep, RecurringStep

LEMMA LocksStep ==
    ASSUME LinkInv, Next PROVE LocksHeld'
<1>1. SUFFICES ASSUME NEW r \in Request, At(r, "create_transfer.mirror")',
                      NEW a \in {request'[r].account, request'[r].to}
               PROVE  a \in LiveAccounts'
  BY DEF LocksHeld
<1>t. TypeInv /\ request \in [Request -> Locals] /\ request[r] \in Locals
  BY DEF LinkInv, TypeInv, TypeOK
<1>2. CASE request'[r] = request[r]
  <2>1. At(r, "create_transfer.mirror") /\ a \in {request[r].account, request[r].to}
    BY <1>1, <1>2 DEF At
  <2>2. a \in LiveAccounts /\ KeyShared(a)
    BY <2>1 DEF LinkInv, LocksHeld, KeyShared
  <2> QED BY <2>2, AccountsStay
<1>3. CASE request'[r] # request[r]
  <2>1. CreateTransferInsert(r)
    BY <1>1, <1>3, <1>t, OwnRequest, AccountPc, TransactionPc, TransferPc DEF At
  <2>2. request'[r] = [request[r] EXCEPT !.pc = "create_transfer.mirror"]
        /\ {request[r].account, request[r].to} \subseteq LiveAccounts /\ UNCHANGED accounts
    BY <2>1, <1>1, <1>t DEF CreateTransferInsert, Ensure, Goto, Return, Idle, At, tables
  <2> QED BY <1>1, <2>2, <1>t DEF LiveAccounts, Locals
<1> QED BY <1>2, <1>3

LEMMA EditsStep ==
    ASSUME LinkInv, Next PROVE EditsPlain'
<1> DEFINE Edits == {"update_transaction.resolve", "update_transaction.update",
                     "delete_transaction.delete"}
<1>1. SUFFICES ASSUME NEW r \in Request, request'[r].pc \in Edits
               PROVE  /\ request'[r].id <= issued'.transactions
                      /\ PlainOrNone(transactions'[request'[r].id])
  BY DEF EditsPlain, PlainOrNone
<1>t. /\ TypeInv /\ TypeInv' /\ request[r] \in Locals /\ request \in [Request -> Locals]
      /\ issued.transactions \in Nat /\ issued'.transactions \in Nat
      /\ TransactionId \subseteq Nat
  <2>1. TypeInv'
    BY TypeStep DEF LinkInv
  <2> QED BY <2>1, BoundsAssumption DEF LinkInv, TypeInv, TypeOK, TransactionId
<1>i. request'[r].id \in TransactionId
  BY <1>1, <1>t DEF TypeInv, LocalsOK
<1>m. issued.transactions <= issued'.transactions /\ PlainStays
  BY TransactionsStep
<1>2. SUFFICES /\ request'[r].id <= issued.transactions
               /\ PlainOrNone(transactions[request'[r].id])
  <2> SUFFICES ASSUME request'[r].id <= issued.transactions,
                      PlainOrNone(transactions[request'[r].id])
               PROVE  /\ request'[r].id <= issued'.transactions
                      /\ PlainOrNone(transactions'[request'[r].id])
    OBVIOUS
  <2>1. request'[r].id \in Nat
    BY <1>i, <1>t
  <2>2. request'[r].id <= issued'.transactions
    BY <1>m, <1>t, <2>1
  <2> QED BY <1>i, <1>m, <2>2 DEF PlainStays
<1>3. CASE request'[r] = request[r]
  BY <1>1, <1>3 DEF LinkInv, EditsPlain
<1>4. CASE request'[r] # request[r]
  <2>1. \/ UpdateTransaction(r)
        \/ UpdateTransactionResolve(r) /\ request'[r].id = request[r].id
        \/ DeleteTransaction(r)
    BY <1>1, <1>4, <1>t, OwnRequest, AccountPc, TransactionPc, TransferPc
  <2>2. CASE UpdateTransaction(r) \/ DeleteTransaction(r)
    <3>1. PICK x \in LiveTransactions : Editable(x) /\ request'[r].id = x
      BY <2>2, <1>t DEF UpdateTransaction, DeleteTransaction, Idle
    <3>2. x <= issued.transactions
      BY <3>1, <1>t DEF LinkInv, Fresh, LiveTransactions
    <3> QED BY <3>1, <3>2 DEF Editable, PlainOrNone
  <2>3. CASE UpdateTransactionResolve(r) /\ request'[r].id = request[r].id
    BY <2>3 DEF UpdateTransactionResolve, At, LinkInv, EditsPlain
  <2> QED BY <2>1, <2>2, <2>3
<1> QED BY <1>3, <1>4

-----------------------------------------------------------------------------
(* The theorems.                                                           *)

LEMMA LinkInit == Init => LinkInv
<1> SUFFICES ASSUME Init PROVE LinkInv
  OBVIOUS
<1>1. TypeInv
  BY TypeInit
<1>2. /\ LiveTransactions = {} /\ LiveTransfers = {} /\ LiveRules = {}
      /\ Fresh /\ \A r \in Request : request[r].pc = "idle"
  BY DEF Init, LiveTransactions, LiveTransfers, LiveRules, Fresh, Idle
<1>3. TransferMirrored /\ ReferencesExist
  BY <1>2 DEF TransferMirrored, ReferencesExist, Mirrors
<1> QED BY <1>1, <1>2, <1>3 DEF LinkInv, EditsPlain, LocksHeld, At

LEMMA LinkStep ==
    ASSUME LinkInv, [Next]_vars PROVE LinkInv'
<1>1. CASE Next
  <2>1. TypeInv'
    BY <1>1, TypeStep DEF LinkInv
  <2>2. Fresh' /\ TransferMirrored' /\ ReferencesExist'
    BY <1>1, TransactionsStep, MirrorsStep, ReferencesStep
  <2> QED BY <1>1, <2>1, <2>2, EditsStep, LocksStep DEF LinkInv
<1>2. CASE UNCHANGED vars
  BY <1>2 DEF vars, LinkInv, TypeInv, TypeOK, LocalsOK, Fresh, EditsPlain, PlainOrNone, At,
              LocksHeld, TransferMirrored, ReferencesExist, Mirrors, LiveAccounts,
              LiveTransactions, LiveTransfers, LiveRules
<1> QED BY <1>1, <1>2

\* Whatever requests run at the same time and wherever one of them dies, a
\* committed transfer has exactly its expense and its income row in
\* transactions, and no such row is left without its transfer.
THEOREM TransfersMirrored == Spec => []TransferMirrored
<1>1. LinkInv => TransferMirrored
  BY DEF LinkInv
<1> QED BY LinkInit, LinkStep, <1>1, PTL DEF Spec

\* delete_account checks and deletes in separate statements; the row locks of
\* an open transfer and the foreign keys are enough for no transfer, rule or
\* transaction to point at a missing account.
THEOREM ReferencesHold == Spec => []ReferencesExist
<1>1. LinkInv => ReferencesExist
  BY DEF LinkInv
<1> QED BY LinkInit, LinkStep, <1>1, PTL DEF Spec

\* The check of transfer_id that update_transaction and delete_transaction make
\* before their last statement protects the rows of transfers, although other
\* requests run between the check and that statement.
THEOREM MirrorsAreFixed == Spec => MirrorsFixed
<1>1. LinkInv /\ [Next]_vars =>
         [\A t \in LiveTransfers :
             t \in LiveTransfers' =>
                /\ Mirrors(t)' = Mirrors(t)
                /\ \A x \in Mirrors(t) : transactions'[x] = transactions[x]]_vars
  BY MirrorsStep
<1> QED BY LinkInit, LinkStep, <1>1, PTL DEF Spec, MirrorsFixed

-----------------------------------------------------------------------------
(* What remains when an account is edited or deleted alone.                *)
(*                                                                         *)
(* update_account and delete_account check in one statement and write in a *)
(* later one, without a transaction: run side by side they can remove the  *)
(* last cash account (run CashAccountRace).  The theorems that follow show *)
(* that these are the only gaps: a cash account remains when no two edits  *)
(* or deletions of accounts overlap (OneEdit), and all the rest holds when *)
(* nothing else is under way between the first and the last statement of   *)
(* one (EditsAlone).  Every other request may interleave with every other  *)
(* one, the worker posts at any time and any request may die.              *)

Editing == {"update_account.count_cash", "update_account.update",
            "delete_account.count", "delete_account.count_cash",
            "delete_account.dependencies", "delete_account.delete"}

\* No two requests edit or delete accounts at the same time.
OneEdit ==
    \A q, r \in Request : q # r /\ request[q].pc \in Editing => request[r].pc \notin Editing

\* No other request is under way while an account is edited or deleted.
EditsAlone ==
    \A q, r \in Request : q # r /\ request[q].pc \in Editing => At(r, "idle")

-----------------------------------------------------------------------------
(* The inductive invariant.                                                *)

OtherCash(a) == \E b \in CashAccounts : b # a

\* The count that an edit or a deletion took still holds.
CashKnown(q) ==
    /\ q.pc = "update_account.update" => q.type = "cash" \/ OtherCash(q.id)
    /\ q.pc \in {"delete_account.count", "delete_account.count_cash"} =>
          q.id \in LiveAccounts /\ accounts[q.id].type = q.type
    /\ q.pc \in {"delete_account.dependencies", "delete_account.delete"} =>
          OtherCash(q.id)

FreshAccounts == \A a \in AccountId : a > issued.accounts => accounts[a] = None

CashInv == /\ LinkInv /\ FreshAccounts /\ CashAccountRemains
           /\ \A r \in Request : CashKnown(request[r])

\* The account that is about to go still has no rows.
RowsKnown(q) == q.pc = "delete_account.delete" => ~HasDependencies(q.id)

\* A request that will write amounts writes amounts a client may send, a
\* transfer the amount at the rate of the currencies its accounts have now.
AmountsKnown(q) ==
    /\ q.pc \in {"create_transaction.insert", "update_transaction.resolve",
                 "update_transaction.update"} => q.amount \in Amount
    /\ q.pc \in {"create_transfer.insert", "create_transfer.mirror"} =>
          /\ q.account \in LiveAccounts /\ q.to \in LiveAccounts
          /\ q.amount \in Amount
          /\ q.received = DestinationAmount(q.amount, accounts[q.account].currency,
                                            accounts[q.to].currency)

SerialInv == /\ CashInv /\ ActivityKeepsAccount
             /\ \A r \in Request : RowsKnown(request[r]) /\ AmountsKnown(request[r])

-----------------------------------------------------------------------------
(* Counting.                                                               *)

LEMMA CashFinite == IsFiniteSet(CashAccounts)
<1>1. CashAccounts \subseteq 1 .. MaxAccounts /\ IsFiniteSet(1 .. MaxAccounts)
  BY FS_Interval, BoundsAssumption DEF CashAccounts, LiveAccounts, AccountId
<1> QED BY <1>1, FS_Subset

\* Two cash accounts: one of them is another one than a.
LEMMA AnotherCash ==
    ASSUME EnsureMultipleCashAccounts, NEW a PROVE OtherCash(a)
<1> SUFFICES ASSUME ~OtherCash(a) PROVE FALSE
  OBVIOUS
<1>1. CashAccounts \subseteq {a}
  BY DEF OtherCash
<1>2. IsFiniteSet({a}) /\ Cardinality({a}) = 1
  BY FS_Singleton
<1>3. Cardinality(CashAccounts) <= 1
  BY <1>1, <1>2, FS_Subset
<1>4. Cardinality(CashAccounts) \in Nat
  BY CashFinite, FS_CardinalityType
<1> QED BY <1>3, <1>4 DEF EnsureMultipleCashAccounts

-----------------------------------------------------------------------------
(* What other requests may do meanwhile.                                   *)

\* The account a new row gets was no account before.
LEMMA NewAccount ==
    ASSUME CashInv, NEW p \in Request, CreateAccount(p)
    PROVE  /\ \A a \in LiveAccounts : accounts'[a] = accounts[a]
           /\ issued.accounts + 1 \in AccountId \ LiveAccounts
           /\ LiveAccounts' = LiveAccounts \cup {issued.accounts + 1}
<1>1. /\ accounts \in [AccountId -> AccountRow \cup {None}]
      /\ issued.accounts \in 0 .. MaxAccounts /\ issued.accounts < MaxAccounts
  BY DEF CashInv, LinkInv, TypeInv, TypeOK, CreateAccount
<1>2. issued.accounts + 1 \in AccountId /\ issued.accounts + 1 > issued.accounts
  BY <1>1, BoundsAssumption DEF AccountId
<1>3. accounts[issued.accounts + 1] = None
  BY <1>2 DEF CashInv, FreshAccounts
<1>4. PICK row \in AccountRow :
         accounts' = [accounts EXCEPT ![issued.accounts + 1] = row]
  BY DEF CreateAccount, AccountRow
<1> QED BY <1>1, <1>2, <1>3, <1>4, NoneAssumption DEF LiveAccounts

\* While a request is under way and does not move itself, no account that
\* exists changes: edits run alone and new accounts are new rows.
LEMMA AccountsQuiet ==
    ASSUME CashInv, Next, NEW r \in Request, ~At(r, "idle"), request'[r] = request[r],
           \A p \in Request : p # r => request[p].pc \notin Editing
    PROVE  \A a \in LiveAccounts : accounts'[a] = accounts[a]
<1>t. TypeInv /\ request[r] # Idle
  BY DEF CashInv, LinkInv, At, Idle
<1>1. ASSUME NEW p \in Request, UpdateAccountWrite(p) \/ DeleteAccountDelete(p)
      PROVE  FALSE
  <2>1. p # r
    BY <1>1, <1>t, NextPc DEF UpdateAccountWrite, DeleteAccountDelete
  <2>2. request[p].pc \in Editing
    BY <1>1 DEF UpdateAccountWrite, DeleteAccountDelete, At, Editing
  <2> QED BY <2>1, <2>2
<1>2. \/ UNCHANGED accounts
      \/ \E p \in Request : CreateAccount(p)
  BY <1>1, Writers
     DEF tables, Materialize, WriterOf, CreateTransactionInsert, UpdateTransactionWrite,
         DeleteTransactionDelete, CreateTransferCommit, DeleteTransfer,
         CreateRecurringInsert, UpdateRecurringWrite, DeleteRecurring
<1> QED BY <1>2, NewAccount

\* While an account is edited or deleted no row comes to refer to an account
\* that no row refers to: the worker posts on accounts of rules only.
LEMMA DependenciesQuiet ==
    ASSUME SerialInv, EditsAlone, Next, NEW r \in Request,
           request[r].pc \in Editing, request'[r] = request[r],
           NEW a \in AccountId, ~HasDependencies(a)
    PROVE  ~HasDependencies(a)'
<1>t. /\ TypeInv /\ request[r] # Idle
      /\ transactions \in [TransactionId -> TransactionRow \cup {None}]
      /\ transfers \in [TransferId -> TransferRow \cup {None}]
      /\ rules \in [RuleId -> AccountId \cup {None}]
  BY DEF SerialInv, CashInv, LinkInv, TypeInv, TypeOK, Editing, Idle
<1> USE DEF HasDependencies, InTransactions, InTransfers, InRules,
            LiveTransactions, LiveTransfers, LiveRules
<1>1. ASSUME NEW p \in Request, WriterOf(p)
      PROVE  CreateAccount(p) \/ DeleteTransfer(p) \/ DeleteRecurring(p)
  <2> SUFFICES ASSUME ~(CreateAccount(p) \/ DeleteTransfer(p) \/ DeleteRecurring(p))
               PROVE  FALSE
    OBVIOUS
  <2>1. Return(p) /\ ~At(p, "idle")
    BY <1>1 DEF WriterOf, UpdateAccountWrite, DeleteAccountDelete, CreateTransactionInsert,
                UpdateTransactionWrite, DeleteTransactionDelete, CreateTransferCommit,
                CreateRecurringInsert, UpdateRecurringWrite, At
  <2>2. p # r
    BY <2>1, <1>t, NextPc
  <2> QED BY <2>1, <2>2 DEF EditsAlone
<1>2. CASE UNCHANGED tables
  BY <1>2 DEF tables
<1>3. CASE Materialize
  <2>1. PICK k \in LiveRules, type \in EntryType, amount \in Amount :
           transactions' = [transactions EXCEPT ![issued.transactions + 1] =
              [account |-> rules[k], transfer |-> NULL, type |-> type,
               amount |-> Stored(amount)]]
    BY <1>3 DEF Materialize
  <2>2. rules[k] # a
    OBVIOUS
  <2>3. UNCHANGED <<transfers, rules>>
    BY <1>3 DEF Materialize
  <2> QED BY <2>1, <2>2, <2>3, <1>t
<1>4. ASSUME NEW p \in Request, CreateAccount(p) PROVE ~HasDependencies(a)'
  BY <1>4 DEF CreateAccount
<1>5. ASSUME NEW p \in Request, DeleteTransfer(p) PROVE ~HasDependencies(a)'
  <2>1. \A x \in TransactionId : transactions'[x] \in {transactions[x], None}
    BY <1>5 DEF DeleteTransfer
  <2>2. \A t \in TransferId : transfers'[t] \in {transfers[t], None}
    BY <1>5, <1>t DEF DeleteTransfer
  <2>3. UNCHANGED rules
    BY <1>5 DEF DeleteTransfer
  <2> QED BY <2>1, <2>2, <2>3
<1>6. ASSUME NEW p \in Request, DeleteRecurring(p) PROVE ~HasDependencies(a)'
  BY <1>6, <1>t DEF DeleteRecurring
<1> QED BY <1>1, <1>2, <1>3, <1>4, <1>5, <1>6, Writers

-----------------------------------------------------------------------------
(* The steps of an edit or a deletion.                                     *)

LEMMA FreshAccountsStep ==
    ASSUME CashInv, Next PROVE FreshAccounts'
<1>t. /\ accounts \in [AccountId -> AccountRow \cup {None}]
      /\ issued \in [accounts : 0 .. MaxAccounts, transactions : 0 .. MaxTransactions,
                     transfers : 0 .. MaxTransfers, rules : 0 .. MaxRules]
      /\ issued.accounts \in Nat /\ AccountId \subseteq Nat
      /\ \A r \in Request : request[r] \in Locals /\ LocalsOK(request[r])
      /\ FreshAccounts
  BY BoundsAssumption DEF CashInv, LinkInv, TypeInv, TypeOK, AccountId
<1>1. ASSUME UNCHANGED accounts, issued'.accounts = issued.accounts PROVE FreshAccounts'
  BY <1>1, <1>t DEF FreshAccounts
<1>2. ASSUME NEW r \in Request, CreateAccount(r) PROVE FreshAccounts'
  BY <1>2, <1>t DEF CreateAccount, FreshAccounts
<1>3. ASSUME NEW r \in Request, UpdateAccountWrite(r) PROVE FreshAccounts'
  BY <1>3, <1>t DEF UpdateAccountWrite, FreshAccounts, LiveAccounts
<1>4. ASSUME NEW r \in Request, DeleteAccountDelete(r) PROVE FreshAccounts'
  BY <1>4, <1>t DEF DeleteAccountDelete, FreshAccounts
<1> QED BY <1>1, <1>2, <1>3, <1>4, <1>t, Writers
        DEF tables, Materialize, WriterOf, CreateTransactionInsert, UpdateTransactionWrite,
            DeleteTransactionDelete, CreateTransferCommit, DeleteTransfer,
            CreateRecurringInsert, UpdateRecurringWrite, DeleteRecurring

\* OtherCash survives a step that leaves the accounts of before alone.
LEMMA OtherCashStays ==
    ASSUME NEW a, OtherCash(a), \A b \in LiveAccounts : accounts'[b] = accounts[b]
    PROVE  OtherCash(a)'
BY DEF OtherCash, CashAccounts, LiveAccounts

\* A request that is inside an edit after a step of its own took a step of
\* accounts.rs.
LEMMA EditingIsAccountStep ==
    ASSUME TypeInv, Next, NEW r \in Request, request'[r] # request[r],
           request'[r].pc \in Editing
    PROVE  AccountStep(r)
BY OwnRequest, TransactionPc, TransferPc DEF Editing

LEMMA CashAdvances ==
    ASSUME CashInv, NEW r \in Request, AccountStep(r), request'[r] # request[r]
    PROVE  CashKnown(request[r])'
<1>t. /\ TypeInv /\ request \in [Request -> Locals] /\ request[r] \in Locals
      /\ CashAccounts # {} /\ CashKnown(request[r])
  BY DEF CashInv, LinkInv, TypeInv, TypeOK, CashAccountRemains
<1>e. ASSUME request'[r] = Idle PROVE CashKnown(request[r])'
  BY <1>e DEF CashKnown, Idle
<1>1. CASE UpdateAccount(r)
  <2>1. PICK a \in LiveAccounts, type \in AccountType, c \in Currency :
           request' = [request EXCEPT ![r] =
              [Idle EXCEPT !.pc = IF accounts[a].type = "cash" /\ type # "cash"
                                  THEN "update_account.count_cash"
                                  ELSE "update_account.update",
                           !.id = a, !.type = type, !.currency = c]]
    BY <1>1 DEF UpdateAccount
  <2> DEFINE pc == IF accounts[a].type = "cash" /\ type # "cash"
                   THEN "update_account.count_cash" ELSE "update_account.update"
  <2>2. request'[r].pc = pc /\ request'[r].id = a /\ request'[r].type = type
    BY <2>1, <1>t DEF Idle
  <2>3. UNCHANGED accounts
    BY <1>1 DEF UpdateAccount, tables
  <2>4. accounts[a].type # "cash" => OtherCash(a)
    BY <1>t DEF OtherCash, CashAccounts
  <2>5. OtherCash(a)' <=> OtherCash(a)
    BY <2>3 DEF OtherCash, CashAccounts, LiveAccounts
  <2> QED BY <2>2, <2>4, <2>5 DEF CashKnown
<1>2. CASE UpdateAccountCountCash(r)
  <2>1. CASE EnsureMultipleCashAccounts
    <3>1. request'[r] = [request[r] EXCEPT !.pc = "update_account.update"]
          /\ UNCHANGED accounts
      BY <1>2, <1>t, <2>1 DEF UpdateAccountCountCash, Ensure, Goto, tables
    <3>2. OtherCash(request[r].id)'
      BY <2>1, <3>1, <1>t, AnotherCash
         DEF OtherCash, CashAccounts, LiveAccounts, Locals
    <3> QED BY <3>1, <3>2, <1>t DEF CashKnown, Locals
  <2>2. CASE ~EnsureMultipleCashAccounts
    BY <1>2, <1>t, <1>e, <2>2, NextPc DEF UpdateAccountCountCash, Ensure
  <2> QED BY <2>1, <2>2
<1>3. CASE UpdateAccountWrite(r) \/ DeleteAccountDelete(r)
  BY <1>3, <1>t, <1>e, NextPc DEF UpdateAccountWrite, DeleteAccountDelete
<1>4. CASE DeleteAccount(r)
  <2>1. PICK a \in LiveAccounts :
           request' = [request EXCEPT ![r] =
              [Idle EXCEPT !.pc = "delete_account.count", !.id = a,
                           !.type = accounts[a].type]]
    BY <1>4 DEF DeleteAccount
  <2>2. request'[r].pc = "delete_account.count" /\ request'[r].id = a
        /\ request'[r].type = accounts[a].type
    BY <2>1, <1>t DEF Idle
  <2>3. UNCHANGED accounts
    BY <1>4 DEF DeleteAccount, tables
  <2> QED BY <2>2, <2>3 DEF CashKnown, LiveAccounts
<1>5. CASE DeleteAccountCount(r)
  <2> DEFINE pc == IF request[r].type = "cash" THEN "delete_account.count_cash"
                                               ELSE "delete_account.dependencies"
  <2>1. CASE EnsureMultipleAccounts
    <3>1. request'[r] = [request[r] EXCEPT !.pc = pc] /\ UNCHANGED accounts
      BY <1>5, <1>t, <2>1 DEF DeleteAccountCount, Ensure, Goto, tables
    <3>2. request'[r].pc = pc /\ request'[r].id = request[r].id
          /\ request'[r].type = request[r].type
      BY <3>1, <1>t DEF Locals
    <3>3. request[r].id \in LiveAccounts /\ accounts[request[r].id].type = request[r].type
      BY <1>5, <1>t DEF DeleteAccountCount, At, CashKnown
    <3>4. request[r].type # "cash" => OtherCash(request[r].id)
      BY <3>3, <1>t DEF OtherCash, CashAccounts
    <3>5. /\ LiveAccounts' = LiveAccounts
          /\ request[r].type # "cash" => \E b \in CashAccounts' : b # request'[r].id
      BY <3>1, <3>2, <3>4 DEF OtherCash, CashAccounts, LiveAccounts
    <3> QED BY <3>1, <3>2, <3>3, <3>5 DEF CashKnown, OtherCash
  <2>2. CASE ~EnsureMultipleAccounts
    BY <1>5, <1>t, <1>e, <2>2, NextPc DEF DeleteAccountCount, Ensure
  <2> QED BY <2>1, <2>2
<1>6. CASE DeleteAccountCountCash(r)
  <2>1. CASE EnsureMultipleCashAccounts
    <3>1. request'[r] = [request[r] EXCEPT !.pc = "delete_account.dependencies"]
          /\ UNCHANGED accounts
      BY <1>6, <1>t, <2>1 DEF DeleteAccountCountCash, Ensure, Goto, tables
    <3>2. request'[r].pc = "delete_account.dependencies" /\ request'[r].id = request[r].id
      BY <3>1, <1>t DEF Locals
    <3>3. OtherCash(request[r].id)
      BY <2>1, AnotherCash
    <3>4. \E b \in CashAccounts' : b # request'[r].id
      BY <3>1, <3>2, <3>3 DEF OtherCash, CashAccounts, LiveAccounts
    <3> QED BY <3>2, <3>4 DEF CashKnown, OtherCash
  <2>2. CASE ~EnsureMultipleCashAccounts
    BY <1>6, <1>t, <1>e, <2>2, NextPc DEF DeleteAccountCountCash, Ensure
  <2> QED BY <2>1, <2>2
<1>7. CASE DeleteAccountDependencies(r)
  <2>1. CASE ~HasDependencies(request[r].id)
    <3>1. request'[r] = [request[r] EXCEPT !.pc = "delete_account.delete"]
          /\ UNCHANGED tables
      BY <1>7, <1>t, <2>1 DEF DeleteAccountDependencies, Ensure, Goto
    <3>2. request'[r].pc = "delete_account.delete" /\ request'[r].id = request[r].id
      BY <3>1, <1>t DEF Locals
    <3>3. OtherCash(request[r].id)
      BY <1>7, <1>t DEF DeleteAccountDependencies, At, CashKnown
    <3>4. \E b \in CashAccounts' : b # request'[r].id
      BY <3>1, <3>2, <3>3 DEF OtherCash, CashAccounts, LiveAccounts, tables
    <3> QED BY <3>2, <3>4 DEF CashKnown, OtherCash
  <2>2. CASE HasDependencies(request[r].id)
    BY <1>7, <1>t, <1>e, <2>2, NextPc DEF DeleteAccountDependencies, Ensure
  <2> QED BY <2>1, <2>2
<1>8. CASE CreateAccount(r)
  BY <1>8 DEF CreateAccount
<1> QED BY <1>1, <1>2, <1>3, <1>4, <1>5, <1>6, <1>7, <1>8 DEF AccountStep

LEMMA CashKnownStep ==
    ASSUME CashInv, OneEdit, Next, NEW r \in Request
    PROVE  CashKnown(request[r])'
<1>t. TypeInv /\ CashKnown(request[r])
  BY DEF CashInv, LinkInv
<1>1. CASE request'[r].pc \notin Editing
  BY <1>1 DEF CashKnown, Editing
<1>2. CASE request'[r].pc \in Editing /\ request'[r] # request[r]
  BY <1>2, <1>t, EditingIsAccountStep, CashAdvances
<1>3. CASE request'[r].pc \in Editing /\ request'[r] = request[r]
  <2> DEFINE q == request[r]
  <2>1. q.pc \in Editing /\ ~At(r, "idle") /\ request'[r] = q
    BY <1>3 DEF Editing, At
  <2>2. \A a \in LiveAccounts : accounts'[a] = accounts[a]
    BY <2>1, AccountsQuiet DEF OneEdit
  <2>3. OtherCash(q.id) => \E b \in CashAccounts' : b # q.id
    BY <2>2 DEF OtherCash, CashAccounts, LiveAccounts
  <2>4. q.id \in LiveAccounts => q.id \in LiveAccounts' /\ accounts'[q.id] = accounts[q.id]
    BY <2>2 DEF LiveAccounts
  <2> QED BY <2>1, <2>3, <2>4, <1>t DEF CashKnown, OtherCash
<1> QED BY <1>1, <1>2, <1>3

LEMMA RowsKnownStep ==
    ASSUME SerialInv, EditsAlone, Next, NEW r \in Request
    PROVE  RowsKnown(request[r])'
<1>t. /\ TypeInv /\ RowsKnown(request[r])
      /\ request \in [Request -> Locals] /\ request[r] \in Locals
  BY DEF SerialInv, CashInv, LinkInv, TypeInv, TypeOK
<1>1. SUFFICES ASSUME request'[r].pc = "delete_account.delete"
               PROVE  ~HasDependencies(request[r].id)'
  BY DEF RowsKnown
<1>2. CASE request'[r] # request[r]
  <2>1. AccountStep(r)
    BY <1>1, <1>2, <1>t, EditingIsAccountStep DEF Editing
  <2>2. DeleteAccountDependencies(r)
    <3> USE <1>1, <1>2, <1>t
    <3>1. ~(CreateAccount(r) \/ UpdateAccountWrite(r) \/ DeleteAccountDelete(r))
      BY NextPc DEF CreateAccount, UpdateAccountWrite, DeleteAccountDelete, Idle
    <3>2. ~UpdateAccount(r) /\ ~DeleteAccount(r)
      <4>1. ASSUME UpdateAccount(r) PROVE FALSE
        BY <4>1 DEF UpdateAccount, Idle
      <4>2. ASSUME DeleteAccount(r) PROVE FALSE
        BY <4>2 DEF DeleteAccount, Idle
      <4> QED BY <4>1, <4>2
    <3>3. ~UpdateAccountCountCash(r)
      BY DEF UpdateAccountCountCash, Ensure, Goto, Return, Locals, Idle
    <3>4. ~(DeleteAccountCount(r) \/ DeleteAccountCountCash(r))
      BY DEF DeleteAccountCount, DeleteAccountCountCash, Ensure, Goto, Return, Locals, Idle
    <3> QED BY <2>1, <3>1, <3>2, <3>3, <3>4 DEF AccountStep
  <2>3. CASE ~HasDependencies(request[r].id)
    <3>1. request'[r] = [request[r] EXCEPT !.pc = "delete_account.delete"]
          /\ UNCHANGED tables
      BY <2>2, <1>t, <2>3 DEF DeleteAccountDependencies, Ensure, Goto
    <3>2. request'[r].id = request[r].id
      BY <3>1, <1>t DEF Locals
    <3> QED BY <2>3, <3>1, <3>2
            DEF HasDependencies, InTransactions, InTransfers, InRules, LiveTransactions,
                LiveTransfers, LiveRules, tables
  <2>4. CASE HasDependencies(request[r].id)
    BY <2>2, <1>1, <1>t, <2>4, NextPc DEF DeleteAccountDependencies, Ensure, Idle
  <2> QED BY <2>3, <2>4
<1>3. CASE request'[r] = request[r]
  <2>1. request[r].pc \in Editing /\ ~HasDependencies(request[r].id)
    BY <1>1, <1>3, <1>t DEF Editing, RowsKnown
  <2>2. PICK a \in AccountId : a = request[r].id
    BY <2>1, <1>1, <1>3, <1>t DEF TypeInv, LocalsOK
  <2>3. ~HasDependencies(a)'
    BY <1>3, <2>1, <2>2, DependenciesQuiet
  <2> QED BY <1>3, <2>2, <2>3 DEF HasDependencies, InTransactions, InTransfers, InRules
<1> QED BY <1>2, <1>3

-----------------------------------------------------------------------------
(* The amounts that requests are about to write.                           *)

LEMMA WritesAmount ==
    ASSUME SerialInv, Next, NEW r \in Request,
           request'[r].pc \in {"create_transaction.insert", "update_transaction.resolve",
                               "update_transaction.update"}
    PROVE  request'[r].amount \in Amount
<1>t. /\ TypeInv /\ request \in [Request -> Locals] /\ request[r] \in Locals
      /\ AmountsKnown(request[r]) /\ Idle.pc = "idle"
  BY DEF SerialInv, CashInv, LinkInv, TypeInv, TypeOK, Idle
<1>1. CASE request'[r] = request[r]
  BY <1>1, <1>t DEF AmountsKnown
<1>2. CASE request'[r] # request[r]
  <2>1. TransactionStep(r)
    BY <1>2, <1>t, OwnRequest, AccountPc, TransferPc
  <2>2. CASE CreateTransaction(r)
    BY <2>2, <1>t DEF CreateTransaction, Idle
  <2>3. CASE UpdateTransaction(r)
    BY <2>3, <1>t DEF UpdateTransaction, Idle
  <2>4. CASE UpdateTransactionResolve(r)
    <3>1. request[r].amount \in Amount
      BY <2>4, <1>t DEF UpdateTransactionResolve, At, AmountsKnown
    <3>2. CASE Return(r)
      BY <3>2, <1>t, NextPc
    <3>3. CASE \E a \in ResolveAccount(request[r].account) :
                  request' = [request EXCEPT ![r].pc = "update_transaction.update",
                                             ![r].account = a]
      BY <3>1, <3>3, <1>t DEF Locals
    <3> QED BY <2>4, <3>2, <3>3 DEF UpdateTransactionResolve
  <2>5. CASE DeleteTransaction(r)
    BY <2>5, <1>t DEF DeleteTransaction, Idle
  <2>6. CASE CreateTransactionInsert(r) \/ UpdateTransactionWrite(r)
             \/ DeleteTransactionDelete(r)
    BY <2>6, <1>t, NextPc
       DEF CreateTransactionInsert, UpdateTransactionWrite, DeleteTransactionDelete
  <2> QED BY <2>1, <2>2, <2>3, <2>4, <2>5, <2>6 DEF TransactionStep
<1> QED BY <1>1, <1>2

\* The price of a transfer, computed before its transaction begins, is still
\* the price when the transaction commits.
TransferKnown(q) ==
    /\ q.account \in LiveAccounts /\ q.to \in LiveAccounts
    /\ q.amount \in Amount
    /\ q.received = DestinationAmount(q.amount, accounts[q.account].currency,
                                      accounts[q.to].currency)

LEMMA TransferKnownKept ==
    ASSUME NEW q, TransferKnown(q), \A a \in LiveAccounts : accounts'[a] = accounts[a]
    PROVE  TransferKnown(q)'
<1>1. q.account \in LiveAccounts' /\ q.to \in LiveAccounts'
  BY DEF TransferKnown, LiveAccounts
<1>2. q.received = DestinationAmount(q.amount, accounts'[q.account].currency,
                                     accounts'[q.to].currency)
  BY DEF TransferKnown
<1> QED BY <1>1, <1>2 DEF TransferKnown, DestinationAmount

LEMMA TransferKnownStep ==
    ASSUME SerialInv, EditsAlone, Next, NEW r \in Request,
           request'[r].pc \in {"create_transfer.insert", "create_transfer.mirror"}
    PROVE  TransferKnown(request[r])'
<1>t. /\ TypeInv /\ request \in [Request -> Locals] /\ request[r] \in Locals
      /\ AmountsKnown(request[r]) /\ Idle.pc = "idle"
  BY DEF SerialInv, CashInv, LinkInv, TypeInv, TypeOK, Idle
<1>1. CASE request'[r] = request[r]
  <2>1. TransferKnown(request[r]) /\ ~At(r, "idle")
    BY <1>1, <1>t DEF AmountsKnown, TransferKnown, At
  <2>2. \A a \in LiveAccounts : accounts'[a] = accounts[a]
    BY <1>1, <2>1, AccountsQuiet DEF EditsAlone, At, SerialInv
  <2> QED BY <1>1, <2>1, <2>2, TransferKnownKept
<1>2. CASE request'[r] # request[r]
  <2>1. TransferStep(r) \/ RecurringStep(r) \/ Crash(r)
    BY <1>2, <1>t, OwnRequest, AccountPc, TransactionPc
  <2>2. CASE CreateTransfer(r)
    <3>1. PICK a \in LiveAccounts, b \in LiveAccounts, amount \in Amount :
             request' = [request EXCEPT ![r] =
                [Idle EXCEPT !.pc = "create_transfer.insert", !.account = a, !.to = b,
                             !.amount = amount,
                             !.received = DestinationAmount(amount, accounts[a].currency,
                                                            accounts[b].currency)]]
      BY <2>2 DEF CreateTransfer
    <3>2. UNCHANGED accounts
      BY <2>2 DEF CreateTransfer, tables
    <3>3. /\ request'[r].account = a /\ request'[r].to = b /\ request'[r].amount = amount
          /\ request'[r].received = DestinationAmount(amount, accounts[a].currency,
                                                      accounts[b].currency)
      BY <3>1, <1>t DEF Idle
    <3> QED BY <3>2, <3>3 DEF TransferKnown, LiveAccounts, DestinationAmount
  <2>3. CASE CreateTransferInsert(r)
    <3>1. TransferKnown(request[r])
      BY <2>3, <1>t DEF CreateTransferInsert, At, AmountsKnown, TransferKnown
    <3>2. UNCHANGED accounts
      BY <2>3 DEF CreateTransferInsert, Ensure, tables
    <3>3. request'[r] = Idle \/ request'[r] = [request[r] EXCEPT !.pc = "create_transfer.mirror"]
      BY <2>3, <1>t DEF CreateTransferInsert, Ensure, Goto, Return
    <3>4. request'[r] = [request[r] EXCEPT !.pc = "create_transfer.mirror"]
      BY <3>3, <1>t
    <3>5. /\ request'[r].account = request[r].account /\ request'[r].to = request[r].to
          /\ request'[r].amount = request[r].amount
          /\ request'[r].received = request[r].received
      BY <3>4, <1>t DEF Locals
    <3> QED BY <3>1, <3>2, <3>5 DEF TransferKnown, LiveAccounts, DestinationAmount
  <2>4. CASE CreateTransferCommit(r) \/ Crash(r)
    BY <2>4, <1>t, NextPc DEF CreateTransferCommit, Crash
  <2>5. CASE DeleteTransfer(r)
    BY <2>5, <1>2 DEF DeleteTransfer
  <2>6. CASE RecurringStep(r)
    <3>1. CASE CreateRecurringInsert(r) \/ UpdateRecurringWrite(r)
      BY <3>1, <1>t, NextPc DEF CreateRecurringInsert, UpdateRecurringWrite
    <3>2. CASE CreateRecurring(r)
      BY <3>2, <1>t DEF CreateRecurring, Idle
    <3>3. CASE UpdateRecurring(r)
      BY <3>3, <1>t DEF UpdateRecurring, Idle
    <3>4. CASE UpdateRecurringAccount(r)
      BY <3>4, <1>t DEF UpdateRecurringAccount, Ensure, Goto, Return, Locals
    <3>5. CASE DeleteRecurring(r)
      BY <3>5, <1>2 DEF DeleteRecurring
    <3> QED BY <2>6, <3>1, <3>2, <3>3, <3>4, <3>5 DEF RecurringStep
  <2> QED BY <2>1, <2>2, <2>3, <2>4, <2>5, <2>6 DEF TransferStep
<1> QED BY <1>1, <1>2

LEMMA AmountsKnownStep ==
    ASSUME SerialInv, EditsAlone, Next, NEW r \in Request
    PROVE  AmountsKnown(request[r])'
<1>1. request'[r].pc \in {"create_transaction.insert", "update_transaction.resolve",
                          "update_transaction.update"} => request'[r].amount \in Amount
  BY WritesAmount
<1>2. request'[r].pc \in {"create_transfer.insert", "create_transfer.mirror"} =>
         TransferKnown(request[r])'
  BY TransferKnownStep
<1> QED BY <1>1, <1>2 DEF AmountsKnown, TransferKnown

-----------------------------------------------------------------------------
(* The invariant.                                                          *)

LEMMA CashStep ==
    ASSUME CashInv, Next PROVE CashAccountRemains'
<1>t. /\ TypeInv /\ CashAccounts # {}
      /\ accounts \in [AccountId -> AccountRow \cup {None}]
      /\ \A r \in Request : LocalsOK(request[r]) /\ CashKnown(request[r])
  BY DEF CashInv, LinkInv, TypeInv, TypeOK, CashAccountRemains
<1> USE DEF CashAccountRemains, CashAccounts, LiveAccounts
<1>1. CASE UNCHANGED accounts
  BY <1>1, <1>t
<1>2. ASSUME NEW r \in Request, CreateAccount(r) PROVE CashAccountRemains'
  BY <1>2, <1>t, NewAccount
<1>3. ASSUME NEW r \in Request, UpdateAccountWrite(r) PROVE CashAccountRemains'
  <2> DEFINE a == request[r].id
             row == [type |-> request[r].type, currency |-> request[r].currency]
  <2>1. /\ a \in AccountId /\ row \in AccountRow
        /\ request[r].type = "cash" \/ OtherCash(a)
    BY <1>3, <1>t DEF UpdateAccountWrite, At, LocalsOK, CashKnown, AccountRow
  <2>2. accounts' = IF a \in LiveAccounts THEN [accounts EXCEPT ![a] = row] ELSE accounts
    BY <1>3 DEF UpdateAccountWrite
  <2>3. row # None /\ row.type = request[r].type
    BY <2>1, NoneAssumption
  <2> HIDE DEF row
  <2>4. CASE a \notin LiveAccounts
    BY <2>2, <2>4, <1>1
  <2>5. CASE a \in LiveAccounts /\ request[r].type = "cash"
    <3>1. accounts'[a] = row
      BY <2>1, <2>2, <2>5, <1>t
    <3> QED BY <2>1, <2>3, <2>5, <3>1
  <2>6. CASE a \in LiveAccounts /\ OtherCash(a)
    <3>1. PICK b \in CashAccounts : b # a
      BY <2>6 DEF OtherCash
    <3>2. accounts'[b] = accounts[b]
      BY <3>1, <2>2, <1>t
    <3> QED BY <3>1, <3>2
  <2> QED BY <2>1, <2>4, <2>5, <2>6
<1>4. ASSUME NEW r \in Request, DeleteAccountDelete(r) PROVE CashAccountRemains'
  <2>1. OtherCash(request[r].id)
    BY <1>4, <1>t DEF DeleteAccountDelete, At, CashKnown
  <2>2. PICK b \in CashAccounts : b # request[r].id
    BY <2>1 DEF OtherCash
  <2>3. accounts'[b] = accounts[b]
    BY <1>4, <2>2, <1>t DEF DeleteAccountDelete
  <2> QED BY <2>2, <2>3
<1> QED BY <1>1, <1>2, <1>3, <1>4, Writers
        DEF tables, Materialize, WriterOf, CreateTransactionInsert, UpdateTransactionWrite,
            DeleteTransactionDelete, CreateTransferCommit, DeleteTransfer,
            CreateRecurringInsert, UpdateRecurringWrite, DeleteRecurring

\* The deletion finds no row of the account, so ON DELETE SET NULL changes none.
LEMMA DeletionLeavesRows ==
    ASSUME SerialInv, NEW r \in Request, DeleteAccountDelete(r)
    PROVE  UNCHANGED transactions
<1>1. ~HasDependencies(request[r].id)
  BY DEF SerialInv, RowsKnown, DeleteAccountDelete, At
<1>2. \A x \in LiveTransactions : transactions[x].account # request[r].id
  BY <1>1 DEF HasDependencies, InTransactions
<1>3. transactions \in [TransactionId -> TransactionRow \cup {None}]
  BY DEF SerialInv, CashInv, LinkInv, TypeInv, TypeOK
<1>4. CASE ~Restricted(request[r].id)
  <2>1. transactions' = [x \in TransactionId |->
                 IF x \in LiveTransactions /\ transactions[x].account = request[r].id
                 THEN [transactions[x] EXCEPT !.account = NULL]
                 ELSE transactions[x]]
    BY <1>4 DEF DeleteAccountDelete
  <2>2. \A x \in TransactionId : transactions'[x] = transactions[x]
    BY <2>1, <1>2
  <2> QED BY <2>1, <2>2, <1>3
<1> QED BY <1>4 DEF DeleteAccountDelete

LEMMA ActivityStep ==
    ASSUME SerialInv, Next PROVE ActivityKeepsAccount'
<1>t. /\ transactions \in [TransactionId -> TransactionRow \cup {None}]
      /\ ActivityKeepsAccount /\ ReferencesExist /\ LocksHeld
      /\ \A r \in Request : request[r] \in Locals /\ LocalsOK(request[r])
      /\ NULL \notin AccountId
      /\ TransactionId \subseteq Nat
  BY BoundsAssumption
     DEF SerialInv, CashInv, LinkInv, TypeInv, TypeOK, AccountId, TransactionId, NULL
<1>1. SUFFICES ASSUME NEW x \in TransactionId, transactions'[x] # None,
                      transactions'[x] # transactions[x]
               PROVE  transactions'[x].account # NULL
  <2> SUFFICES ASSUME NEW x \in LiveTransactions' PROVE transactions'[x].account # NULL
    BY DEF ActivityKeepsAccount
  <2>1. x \in TransactionId /\ transactions'[x] # None
    BY DEF LiveTransactions
  <2>2. CASE transactions'[x] = transactions[x]
    BY <2>1, <2>2, <1>t DEF ActivityKeepsAccount, LiveTransactions
  <2>3. CASE transactions'[x] # transactions[x]
    BY <2>1, <2>3
  <2> QED BY <2>2, <2>3
<1>2. CASE Materialize
  <2>1. PICK k \in LiveRules : transactions'[x].account = rules[k]
    BY <1>1, <1>2, <1>t DEF Materialize
  <2> QED BY <2>1, <1>t DEF ReferencesExist, LiveAccounts
<1>3. ASSUME NEW r \in Request, CreateTransactionInsert(r)
      PROVE  transactions'[x].account # NULL
  <2>1. /\ request[r].account \in LiveAccounts
        /\ transactions'[x] = [account |-> request[r].account, transfer |-> NULL,
                               type |-> request[r].type,
                               amount |-> Stored(request[r].amount)]
    BY <1>1, <1>3, <1>t DEF CreateTransactionInsert
  <2> QED BY <2>1, <1>t DEF LiveAccounts
<1>4. ASSUME NEW r \in Request, UpdateTransactionWrite(r)
      PROVE  transactions'[x].account # NULL
  <2> DEFINE q == request[r]
             e == [transactions[q.id] EXCEPT !.account = q.account, !.type = q.type,
                                             !.amount = Stored(q.amount)]
  <2>1. /\ x = q.id /\ x \in LiveTransactions /\ q.account \in LiveAccounts
        /\ transactions'[x] = e
    BY <1>1, <1>4, <1>t DEF UpdateTransactionWrite
  <2>2. transactions[x] \in TransactionRow
    BY <2>1, <1>t DEF LiveTransactions
  <2>3. e.account = q.account
    BY <2>1, <2>2 DEF TransactionRow
  <2> QED BY <2>1, <2>3, <1>t DEF LiveAccounts
<1>5. ASSUME NEW r \in Request, CreateTransferCommit(r)
      PROVE  transactions'[x].account # NULL
  <2>1. transactions'[x].account \in {request[r].account, request[r].to}
    BY <1>1, <1>5, <1>t DEF CreateTransferCommit
  <2> QED BY <2>1, <1>5, <1>t DEF CreateTransferCommit, At, LocalsOK
<1>6. ASSUME NEW r \in Request,
             DeleteAccountDelete(r) \/ DeleteTransactionDelete(r) \/ DeleteTransfer(r)
      PROVE  FALSE
  BY <1>1, <1>6, <1>t, DeletionLeavesRows DEF DeleteTransactionDelete, DeleteTransfer
<1> QED BY <1>1, <1>2, <1>3, <1>4, <1>5, <1>6, Writers
        DEF tables, WriterOf, CreateAccount, UpdateAccountWrite, CreateRecurringInsert,
            UpdateRecurringWrite, DeleteRecurring

LEMMA SerialInit == Init => SerialInv
<1> SUFFICES ASSUME Init PROVE SerialInv
  OBVIOUS
<1>1. 1 \in AccountId /\ AccountId \subseteq Nat
  BY BoundsAssumption DEF AccountId
<1>2. PICK c \in Currency :
         accounts = [a \in AccountId |-> IF a = 1 THEN [type |-> "cash", currency |-> c]
                                                  ELSE None]
  BY DEF Init
<1>3. [type |-> "cash", currency |-> c] # None
  BY NoneAssumption DEF AccountRow, AccountType
<1>4. 1 \in CashAccounts
  BY <1>1, <1>2, <1>3 DEF CashAccounts, LiveAccounts
<1>5. FreshAccounts /\ LiveTransactions = {} /\ \A r \in Request : request[r].pc = "idle"
  BY <1>1, <1>2 DEF Init, FreshAccounts, LiveTransactions, Idle
<1> QED BY <1>4, <1>5, LinkInit
        DEF SerialInv, CashInv, CashAccountRemains, ActivityKeepsAccount, CashKnown,
            RowsKnown, AmountsKnown

LEMMA CashInvStep ==
    ASSUME CashInv, OneEdit, [Next]_vars PROVE CashInv'
<1>1. LinkInv'
  BY LinkStep DEF CashInv
<1>2. CASE Next
  <2>1. FreshAccounts' /\ CashAccountRemains'
    BY <1>2, FreshAccountsStep, CashStep
  <2>2. \A r \in Request : CashKnown(request[r])'
    BY <1>2, CashKnownStep
  <2> QED BY <1>1, <2>1, <2>2 DEF CashInv
<1>3. CASE UNCHANGED vars
  <2>1. UNCHANGED <<accounts, issued, request>>
    BY <1>3 DEF vars
  <2>2. FreshAccounts' /\ CashAccountRemains' /\ \A r \in Request : CashKnown(request[r])'
    BY <2>1 DEF CashInv, FreshAccounts, CashAccountRemains, CashKnown, OtherCash,
                CashAccounts, LiveAccounts
  <2> QED BY <1>1, <2>2 DEF CashInv
<1> QED BY <1>2, <1>3

LEMMA AloneIsOne == EditsAlone => OneEdit
BY DEF EditsAlone, OneEdit, At, Editing

LEMMA SerialStep ==
    ASSUME SerialInv, EditsAlone, [Next]_vars PROVE SerialInv'
<1>1. CashInv'
  BY CashInvStep, AloneIsOne DEF SerialInv
<1>2. CASE Next
  <2>1. ActivityKeepsAccount'
    BY <1>2, ActivityStep
  <2>2. \A r \in Request : RowsKnown(request[r])' /\ AmountsKnown(request[r])'
    BY <1>2, RowsKnownStep, AmountsKnownStep
  <2> QED BY <1>1, <2>1, <2>2 DEF SerialInv
<1>3. CASE UNCHANGED vars
  <2>1. UNCHANGED <<accounts, transactions, transfers, rules, request>>
    BY <1>3 DEF vars
  <2>2. ActivityKeepsAccount'
    BY <2>1 DEF SerialInv, ActivityKeepsAccount, LiveTransactions
  <2>3. \A r \in Request : RowsKnown(request[r])' /\ AmountsKnown(request[r])'
    BY <2>1 DEF SerialInv, RowsKnown, AmountsKnown, LiveAccounts, HasDependencies,
                InTransactions, InTransfers, InRules, LiveTransactions, LiveTransfers,
                LiveRules, DestinationAmount
  <2> QED BY <1>1, <2>2, <2>3 DEF SerialInv
<1> QED BY <1>2, <1>3

-----------------------------------------------------------------------------
(* The value of a transfer.                                                *)

LEMMA ValueStep ==
    ASSUME SerialInv, Next, NEW t \in TransferId,
           t \notin LiveTransfers, t \in LiveTransfers'
    PROVE  TransferValue(t)'
<1>t. /\ LinkInv
      /\ transactions \in [TransactionId -> TransactionRow \cup {None}]
      /\ transfers \in [TransferId -> TransferRow \cup {None}]
      /\ accounts \in [AccountId -> AccountRow \cup {None}]
      /\ issued.transfers \in Nat
      /\ t \in Nat /\ transfers[t] = None /\ transfers'[t] # None
      /\ \A r \in Request : request[r] \in Locals /\ AmountsKnown(request[r])
  BY BoundsAssumption DEF SerialInv, CashInv, LinkInv, TypeInv, TypeOK, TransferId, LiveTransfers
<1>1. PICK r \in Request : CreateTransferCommit(r)
  <2>1. ASSUME NEW p \in Request, DeleteTransfer(p) PROVE FALSE
    BY <2>1, <1>t DEF DeleteTransfer
  <2> QED BY <2>1, <1>t, Writers
          DEF tables, Materialize, WriterOf, CreateAccount, UpdateAccountWrite,
              DeleteAccountDelete, CreateTransactionInsert, UpdateTransactionWrite,
              DeleteTransactionDelete, CreateRecurringInsert, UpdateRecurringWrite,
              DeleteRecurring
<1> DEFINE q == request[r]
           x0 == issued.transactions + 1
           y0 == issued.transactions + 2
           paid == [account |-> q.account, transfer |-> t, type |-> "expense",
                    amount |-> Stored(q.amount)]
           got == [account |-> q.to, transfer |-> t, type |-> "income",
                   amount |-> Stored(q.received)]
<1>2. /\ t = issued.transfers + 1
      /\ transfers'[t] = [from |-> q.account, to |-> q.to, amount |-> Stored(q.amount)]
      /\ UNCHANGED accounts
  BY <1>1, <1>t DEF CreateTransferCommit
<1>3. transactions' = [transactions EXCEPT ![x0] = paid, ![y0] = got]
  BY <1>1, <1>2 DEF CreateTransferCommit
<1>4. \A x \in TransactionId : transactions[x] = None \/ transactions[x].transfer # t
  BY <1>2, <1>t, NoMirrorsYet DEF Mirrors, LiveTransactions
<1>5. ASSUME NEW in \in Mirrors(t)', transactions'[in].type = "income"
      PROVE  transactions'[in].amount = Stored(q.received)
  <2>1. in \in TransactionId /\ transactions'[in] # None /\ transactions'[in].transfer = t
    BY DEF Mirrors, LiveTransactions
  <2>2. transactions'[in] \in {paid, got}
    BY <2>1, <1>3, <1>4, <1>t
  <2> QED BY <2>2, <1>5
<1>6. /\ q.account \in LiveAccounts /\ q.to \in LiveAccounts /\ q.amount \in Amount
      /\ q.received = DestinationAmount(q.amount, accounts[q.account].currency,
                                        accounts[q.to].currency)
  BY <1>1, <1>t DEF CreateTransferCommit, At, AmountsKnown
<1> DEFINE c == accounts[q.account].currency
           d == accounts[q.to].currency
<1>7. c \in Currency /\ d \in Currency
  <2>1. accounts[q.account] \in AccountRow /\ accounts[q.to] \in AccountRow
    BY <1>6, <1>t DEF LiveAccounts
  <2> HIDE DEF q
  <2> QED BY <2>1 DEF AccountRow
<1>8. /\ accounts'[transfers'[t].from].currency = c
      /\ accounts'[transfers'[t].to].currency = d
      /\ transfers'[t].amount = Stored(q.amount)
  <2>1. /\ transfers'[t].from = q.account /\ transfers'[t].to = q.to
        /\ transfers'[t].amount = Stored(q.amount) /\ accounts' = accounts
    BY <1>2
  <2> HIDE DEF q
  <2> QED BY <2>1
<1> HIDE DEF q, c, d
<1> DEFINE sent == Stored(q.amount)
           come == Stored(q.received)
<1>9. IF c = d THEN come = sent
               ELSE Close(RateUnit * come, sent * Rate[c, d], RateUnit + Rate[c, d])
  <2>1. q.received = DestinationAmount(q.amount, c, d)
    BY <1>6 DEF c, d
  <2>2. CASE c = d
    BY <2>1, <2>2 DEF DestinationAmount
  <2>3. CASE c # d
    BY <1>6, <1>7, <2>1, <2>3, ConvertedClose
  <2> QED BY <2>2, <2>3
<1> HIDE DEF sent, come
<1>10. transfers'[t].amount = sent
  BY <1>8 DEF sent
<1>11. ASSUME NEW in \in Mirrors(t)', transactions'[in].type = "income"
       PROVE  IF c = d THEN transactions'[in].amount = transfers'[t].amount
                       ELSE Close(RateUnit * transactions'[in].amount,
                                  transfers'[t].amount * Rate[c, d],
                                  RateUnit + Rate[c, d])
  <2>1. transactions'[in].amount = come
    BY <1>5, <1>11 DEF come
  <2> QED BY <1>9, <1>10, <2>1, Zenon
<1> QED BY <1>8, <1>11, Zenon DEF TransferValue

-----------------------------------------------------------------------------
(* Every step is a step of the book of entries, or none of its business.   *)

LEMMA AmountStored ==
    ASSUME NEW n \in Amount, Storable(n) PROVE Stored(n) \in StoredAmount
<1>1. Stored(n) # 0
  BY MoneyAssumption, StoredNat DEF Storable
<1> QED BY <1>1 DEF StoredAmount

LEMMA ReceivedStored ==
    ASSUME NEW n \in Amount, NEW c \in Currency, NEW d \in Currency,
           Storable(DestinationAmount(n, c, d))
    PROVE  Stored(DestinationAmount(n, c, d)) \in StoredAmount
<1>1. Stored(DestinationAmount(n, c, d)) # 0
  BY DestinationAmountNat, StoredNat DEF Storable
<1> QED BY <1>1 DEF StoredAmount

\* The UPDATE of a plain row replaces all of it.
PlainRow(a, type, n) == [account |-> a, transfer |-> NULL, type |-> type, amount |-> n]
Amended(row, a, type, n) == [row EXCEPT !.account = a, !.type = type, !.amount = n]

LEMMA AmendedRow ==
    ASSUME NEW row \in TransactionRow, row.transfer = NULL,
           NEW a \in AccountId, NEW type \in EntryType, NEW n \in Nat \ {0}
    PROVE  Amended(row, a, type, n) = PlainRow(a, type, n)
<1> DEFINE e1 == [row EXCEPT !.account = a]
           e2 == [e1 EXCEPT !.type = type]
           e3 == [e2 EXCEPT !.amount = n]
           w == [account |-> a, transfer |-> NULL, type |-> type, amount |-> n]
<1>1. e1 \in TransactionRow /\ e1.account = a /\ e1.transfer = NULL
  BY DEF TransactionRow
<1>2. e2 \in TransactionRow /\ e2.account = a /\ e2.transfer = NULL /\ e2.type = type
  <2> HIDE DEF e1
  <2> QED BY <1>1 DEF TransactionRow
<1>3. /\ e3 \in TransactionRow /\ e3.account = a /\ e3.transfer = NULL
      /\ e3.type = type /\ e3.amount = n
  <2> HIDE DEF e2
  <2> QED BY <1>2 DEF TransactionRow
<1>4. w \in TransactionRow
  BY DEF TransactionRow
<1>5. e3 = w
  <2> HIDE DEF e3
  <2> QED BY <1>3, <1>4 DEF TransactionRow
<1> QED BY <1>5, Zenon DEF Amended, PlainRow

\* A row that does not belong to a transfer is posted or amended.
LEMMA BookWrites ==
    ASSUME NEW x \in TransactionId, NEW a \in LiveAccounts, NEW type \in EntryType,
           NEW n \in StoredAmount,
           x \in LiveTransactions => transactions[x].transfer = NULL,
           transactions' = [transactions EXCEPT ![x] =
               [account |-> a, transfer |-> NULL, type |-> type, amount |-> n]],
           UNCHANGED accounts
    PROVE  BookOfEntries!Write
<1>1. type \in {"income", "expense"}
  BY DEF EntryType
<1>2. UNCHANGED LiveAccounts
  BY DEF LiveAccounts
<1> QED BY <1>1, <1>2
        DEF BookOfEntries!Write, BookOfEntries!Recorded, BookOfEntries!Entry,
            LiveTransactions

LEMMA BookStep ==
    ASSUME SerialInv, Next
    PROVE  BookOfEntries!Next \/ UNCHANGED <<LiveAccounts, transactions>>
<1>t. /\ LinkInv /\ TypeInv /\ ReferencesExist /\ Fresh /\ EditsPlain
      /\ accounts \in [AccountId -> AccountRow \cup {None}]
      /\ transactions \in [TransactionId -> TransactionRow \cup {None}]
      /\ issued.transactions \in Nat /\ issued.transfers \in Nat
      /\ \A r \in Request : /\ request[r] \in Locals /\ LocalsOK(request[r])
                            /\ AmountsKnown(request[r]) /\ RowsKnown(request[r])
  BY DEF SerialInv, CashInv, LinkInv, TypeInv, TypeOK
<1>f. issued.transactions < MaxTransactions =>
         /\ issued.transactions + 1 \in TransactionId
         /\ issued.transactions + 1 \notin LiveTransactions
  BY <1>t, BoundsAssumption DEF TransactionId, Fresh, LiveTransactions
<1>1. CASE UNCHANGED <<accounts, transactions>>
  BY <1>1 DEF LiveAccounts
<1>2. CASE Materialize
  <2>1. PICK k \in LiveRules, type \in EntryType, amount \in Amount :
           /\ Storable(amount)
           /\ transactions' = [transactions EXCEPT ![issued.transactions + 1] =
                 [account |-> rules[k], transfer |-> NULL, type |-> type,
                  amount |-> Stored(amount)]]
    BY <1>2 DEF Materialize
  <2>2. rules[k] \in LiveAccounts
    BY <1>t DEF ReferencesExist
  <2>3. issued.transactions < MaxTransactions /\ UNCHANGED accounts
    BY <1>2 DEF Materialize
  <2> QED BY <2>1, <2>2, <2>3, <1>f, AmountStored, BookWrites DEF BookOfEntries!Next
<1>3. ASSUME NEW r \in Request, CreateAccount(r) PROVE BookOfEntries!Open
  BY <1>3, NewAccount DEF BookOfEntries!Open, CreateAccount, SerialInv
<1>4. ASSUME NEW r \in Request, UpdateAccountWrite(r)
      PROVE  UNCHANGED <<LiveAccounts, transactions>>
  <2> DEFINE a == request[r].id
             row == [type |-> request[r].type, currency |-> request[r].currency]
  <2>1. row # None
    BY <1>4, <1>t, NoneAssumption DEF UpdateAccountWrite, At, LocalsOK, AccountRow
  <2>2. accounts' = IF a \in LiveAccounts THEN [accounts EXCEPT ![a] = row] ELSE accounts
    BY <1>4 DEF UpdateAccountWrite
  <2> HIDE DEF row
  <2>3. LiveAccounts' = LiveAccounts
    BY <2>1, <2>2, <1>t DEF LiveAccounts
  <2> QED BY <2>3, <1>4 DEF UpdateAccountWrite
<1>5. ASSUME NEW r \in Request, DeleteAccountDelete(r)
      PROVE  BookOfEntries!Close \/ UNCHANGED <<LiveAccounts, transactions>>
  <2> DEFINE a == request[r].id
  <2>1. ~HasDependencies(a)
    BY <1>5, <1>t DEF DeleteAccountDelete, At, RowsKnown
  <2>2. accounts' = [accounts EXCEPT ![a] = None] /\ UNCHANGED transactions
    BY <1>5, <2>1, DeletionLeavesRows DEF DeleteAccountDelete, HasDependencies, Restricted
  <2>3. LiveAccounts' = LiveAccounts \ {a}
    BY <2>2, <1>t DEF LiveAccounts
  <2>4. LiveAccounts' # {}
    BY <1>5, CashStep DEF SerialInv, CashAccountRemains, CashAccounts
  <2>5. BookOfEntries!On(a) = {}
    BY <2>1 DEF BookOfEntries!On, BookOfEntries!Recorded, HasDependencies, InTransactions,
                LiveTransactions
  <2>6. CASE a \in LiveAccounts
    BY <2>2, <2>3, <2>4, <2>5, <2>6 DEF BookOfEntries!Close
  <2>7. CASE a \notin LiveAccounts
    BY <2>2, <2>3, <2>7
  <2> QED BY <2>6, <2>7
<1>6. ASSUME NEW r \in Request, CreateTransactionInsert(r)
      PROVE  BookOfEntries!Write \/ UNCHANGED <<LiveAccounts, transactions>>
  <2> DEFINE q == request[r]
  <2>1. UNCHANGED accounts /\ issued.transactions < MaxTransactions
    BY <1>6 DEF CreateTransactionInsert
  <2>2. q.type \in EntryType /\ q.amount \in Amount
    BY <1>6, <1>t DEF CreateTransactionInsert, At, LocalsOK, AmountsKnown
  <2>3. CASE q.account \in LiveAccounts /\ Storable(q.amount)
    <3>1. Stored(q.amount) \in StoredAmount
      BY <2>2, <2>3, AmountStored
    <3> QED BY <1>6, <2>1, <2>2, <2>3, <3>1, <1>f, BookWrites DEF CreateTransactionInsert
  <2>4. CASE ~(q.account \in LiveAccounts /\ Storable(q.amount))
    BY <1>6, <2>1, <2>4 DEF CreateTransactionInsert, LiveAccounts
  <2> QED BY <2>3, <2>4
<1>7. ASSUME NEW r \in Request, UpdateTransactionWrite(r)
      PROVE  BookOfEntries!Write \/ UNCHANGED <<LiveAccounts, transactions>>
  <2> DEFINE q == request[r]
             e == [transactions[q.id] EXCEPT !.account = q.account, !.type = q.type,
                                             !.amount = Stored(q.amount)]
             w == [account |-> q.account, transfer |-> NULL, type |-> q.type,
                   amount |-> Stored(q.amount)]
  <2>1. UNCHANGED accounts
    BY <1>7 DEF UpdateTransactionWrite
  <2>2. q.id \in TransactionId /\ q.type \in EntryType /\ q.amount \in Amount
    BY <1>7, <1>t DEF UpdateTransactionWrite, At, LocalsOK, AmountsKnown
  <2>3. CASE q.id \in LiveTransactions /\ q.account \in LiveAccounts /\ Storable(q.amount)
    <3>1. transactions[q.id].transfer = NULL
      BY <1>7, <2>3, <1>t
         DEF UpdateTransactionWrite, At, EditsPlain, PlainOrNone, LiveTransactions
    <3>2. transactions[q.id] \in TransactionRow
      BY <2>3, <1>t DEF LiveTransactions
    <3>3. e = w
      <4>1. q.account \in AccountId /\ q.amount \in Nat
        BY <2>2, <2>3, MoneyAssumption DEF LiveAccounts
      <4>2. Stored(q.amount) \in Nat \ {0}
        BY <2>3, <4>1, StorableNat
      <4> HIDE DEF q
      <4>3. Amended(transactions[q.id], q.account, q.type, Stored(q.amount))
               = PlainRow(q.account, q.type, Stored(q.amount))
        BY <3>1, <3>2, <2>2, <4>1, <4>2, AmendedRow
      <4> QED BY <4>3, Zenon DEF Amended, PlainRow
    <3>4. transactions' = [transactions EXCEPT ![q.id] = w]
      BY <1>7, <2>3, <3>3 DEF UpdateTransactionWrite
    <3>5. Stored(q.amount) \in StoredAmount
      BY <2>2, <2>3, AmountStored
    <3> QED BY <2>1, <2>2, <2>3, <3>1, <3>4, <3>5, BookWrites
  <2>4. CASE ~(q.id \in LiveTransactions /\ q.account \in LiveAccounts
               /\ Storable(q.amount))
    BY <1>7, <2>1, <2>4 DEF UpdateTransactionWrite, LiveAccounts
  <2> QED BY <2>3, <2>4
<1>8. ASSUME NEW r \in Request, DeleteTransactionDelete(r)
      PROVE  BookOfEntries!Remove \/ UNCHANGED <<LiveAccounts, transactions>>
  <2> DEFINE x == request[r].id
  <2>1. /\ x \in TransactionId /\ PlainOrNone(transactions[x])
        /\ transactions' = [transactions EXCEPT ![x] = None] /\ UNCHANGED LiveAccounts
    BY <1>8, <1>t DEF DeleteTransactionDelete, At, LocalsOK, EditsPlain, LiveAccounts
  <2>2. CASE transactions[x] = None
    BY <2>1, <2>2, <1>t
  <2>3. CASE transactions[x] # None
    BY <2>1, <2>3 DEF BookOfEntries!Remove, BookOfEntries!Recorded, PlainOrNone
  <2> QED BY <2>2, <2>3
<1>9. ASSUME NEW r \in Request, CreateTransferCommit(r) PROVE BookOfEntries!Move
  <2> DEFINE q == request[r]
             t == issued.transfers + 1
             out == issued.transactions + 1
             in == issued.transactions + 2
  <2>1. issued.transfers < MaxTransfers /\ issued.transactions + 2 <= MaxTransactions
    BY <1>9 DEF CreateTransferCommit
  <2>2. t \in TransferId /\ t > issued.transfers
    BY <2>1, <1>t, BoundsAssumption DEF TransferId
  <2>3. /\ out \in TransactionId /\ in \in TransactionId /\ out # in
        /\ transactions[out] = None /\ transactions[in] = None
    BY <2>1, <1>t, BoundsAssumption DEF TransactionId, Fresh
  <2>4. /\ q.account \in LiveAccounts /\ q.to \in LiveAccounts /\ q.account # q.to
        /\ q.amount \in Amount /\ Storable(q.amount) /\ Storable(q.received)
        /\ q.received = DestinationAmount(q.amount, accounts[q.account].currency,
                                          accounts[q.to].currency)
    BY <1>9, <1>t DEF CreateTransferCommit, At, LocalsOK, AmountsKnown
  <2>5. Stored(q.amount) \in StoredAmount /\ Stored(q.received) \in StoredAmount
    <3>1. accounts[q.account].currency \in Currency /\ accounts[q.to].currency \in Currency
      BY <2>4, <1>t DEF LiveAccounts, AccountRow
    <3> QED BY <2>4, <3>1, AmountStored, ReceivedStored
  <2>6. BookOfEntries!Moved(t) = {}
    BY <2>2, <1>t, NoMirrorsYet
       DEF Mirrors, LiveTransactions, BookOfEntries!Moved, BookOfEntries!Recorded
  <2>7. /\ out \in TransactionId \ BookOfEntries!Recorded
        /\ in \in TransactionId \ BookOfEntries!Recorded
    BY <2>3 DEF BookOfEntries!Recorded
  <2>8. transactions' = [transactions EXCEPT
              ![out] = BookOfEntries!Entry(q.account, t, "expense", Stored(q.amount)),
              ![in] = BookOfEntries!Entry(q.to, t, "income", Stored(q.received))]
    BY <1>9 DEF CreateTransferCommit, BookOfEntries!Entry
  <2>9. UNCHANGED LiveAccounts
    BY <1>9 DEF CreateTransferCommit, LiveAccounts
  <2> HIDE DEF q, t, out, in
  <2> QED BY <2>2, <2>3, <2>4, <2>5, <2>6, <2>7, <2>8, <2>9 DEF BookOfEntries!Move
<1>10. ASSUME NEW r \in Request, DeleteTransfer(r) PROVE BookOfEntries!Cancel
  <2>1. PICK t \in LiveTransfers :
           transactions' = [x \in TransactionId |->
              IF x \in LiveTransactions /\ transactions[x].transfer = t
              THEN None ELSE transactions[x]]
    BY <1>10 DEF DeleteTransfer
  <2>2. BookOfEntries!Moved(t) = Mirrors(t)
    BY DEF Mirrors, LiveTransactions, BookOfEntries!Moved, BookOfEntries!Recorded
  <2>3. Mirrors(t) # {} /\ t \in TransferId
    BY <1>t DEF LinkInv, TransferMirrored, LiveTransfers
  <2>4. transactions' = [x \in TransactionId |->
              IF x \in BookOfEntries!Moved(t) THEN None ELSE transactions[x]]
    BY <2>1, <2>2 DEF Mirrors
  <2>5. UNCHANGED LiveAccounts
    BY <1>10 DEF DeleteTransfer, LiveAccounts
  <2> QED BY <2>2, <2>3, <2>4, <2>5 DEF BookOfEntries!Cancel
<1> QED BY <1>1, <1>2, <1>3, <1>4, <1>5, <1>6, <1>7, <1>8, <1>9, <1>10, Writers
        DEF BookOfEntries!Next, tables, WriterOf, CreateRecurringInsert,
            UpdateRecurringWrite, DeleteRecurring

-----------------------------------------------------------------------------
(* The theorems.                                                           *)

\* "At least one cash account must remain available": the counts that
\* update_account and delete_account take in a statement of their own are
\* enough as long as no two edits or deletions of accounts overlap, whatever
\* else runs at the same time.
THEOREM CashRemains == Spec /\ []OneEdit => []CashAccountRemains
<1>1. Init => CashInv
  BY SerialInit DEF SerialInv
<1>2. CashInv => CashAccountRemains
  BY DEF CashInv
<1> QED BY <1>1, <1>2, CashInvStep, PTL DEF Spec

\* "Accounts with activity cannot be deleted": has_dependencies, asked before
\* the DELETE, is still right when the DELETE runs, so that ON DELETE SET NULL
\* never takes the account from a transaction.
THEOREM ActivityRemains == Spec /\ []EditsAlone => []ActivityKeepsAccount
<1>1. SerialInv => ActivityKeepsAccount
  BY DEF SerialInv
<1> QED BY SerialInit, SerialStep, <1>1, PTL DEF Spec

\* The amount converted before the transaction of create_transfer begins is
\* still the amount sent at the rate of both accounts' currencies when the rows
\* appear, however long the conversion took.  The transfer keeps the amount
\* sent rounded to cents, whatever fraction of a cent the client sent: within
\* one currency both rows keep the same, across currencies what is paid out is
\* the kept amount at the rate, off by at most half a cent and by half a cent
\* of the source currency at that rate.
THEOREM TransfersPayOut == Spec /\ []EditsAlone => TransfersKeepValue
<1>1. SerialInv /\ [Next]_vars =>
         [\A t \in TransferId : (t \notin LiveTransfers /\ t \in LiveTransfers')
                                   => TransferValue(t)']_vars
  BY ValueStep
<1> QED BY SerialInit, SerialStep, <1>1, PTL DEF Spec, TransfersKeepValue

\* The statements of the handlers, the worker and a dying process, as long as
\* accounts are edited alone, add up to the book of entries the user is
\* promised: every step is one entry of Book or invisible to it.
THEOREM LedgerImplementsBook == Spec /\ []EditsAlone => ImplementsBook
<1>1. Init => BookOfEntries!Init
  <2> SUFFICES ASSUME Init PROVE BookOfEntries!Init
    OBVIOUS
  <2>1. CashAccounts # {}
    BY SerialInit DEF SerialInv, CashInv, CashAccountRemains
  <2> QED BY <2>1 DEF Init, BookOfEntries!Init, CashAccounts
<1>2. SerialInv /\ [Next]_vars => [BookOfEntries!Next]_(BookOfEntries!vars)
  <2> SUFFICES ASSUME SerialInv, [Next]_vars
               PROVE  BookOfEntries!Next \/ UNCHANGED <<LiveAccounts, transactions>>
    BY DEF BookOfEntries!vars
  <2>1. CASE Next
    BY <2>1, BookStep
  <2>2. CASE UNCHANGED vars
    BY <2>2 DEF vars, LiveAccounts
  <2> QED BY <2>1, <2>2
<1> QED BY SerialInit, SerialStep, <1>1, <1>2, PTL
        DEF Spec, ImplementsBook, BookOfEntries!Spec

\* What the run LedgerSerial checks on its bounds: with one request at a time
\* nothing is left to assume, neither of the accounts' edits nor of the amounts
\* sent, which need not be whole cents.
THEOREM OneRequestAtATime ==
    ASSUME \A q, r \in Request : q = r
    PROVE  Spec => /\ []CashAccountRemains /\ []ActivityKeepsAccount
                   /\ TransfersKeepValue /\ ImplementsBook
<1>1. EditsAlone /\ OneEdit
  BY DEF EditsAlone, OneEdit
<1> QED BY <1>1, CashRemains, ActivityRemains, TransfersPayOut, LedgerImplementsBook, PTL
=============================================================================
