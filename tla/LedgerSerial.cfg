\* One request at a time, every endpoint, accounts in two currencies.
\* Amounts of 0.25 cents, which no column keeps, and of 1.25 cents.
SPECIFICATION Spec
CONSTANTS
    r1 = r1
    r2 = r2
    usd = usd
    dop = dop
    None = None
    Request = {r1}
    Endpoints <- AllEndpoints
    Currency = {usd, dop}
    Cent = 4
    RateUnit = 100
    Rate <- MCRate
    Amount = {1, 5}
    MaxAccounts = 3
    MaxTransactions = 2
    MaxTransfers = 1
    MaxRules = 1
INVARIANTS TypeOK CashAccountRemains ActivityKeepsAccount
PROPERTIES ImplementsBook TransfersKeepValue
