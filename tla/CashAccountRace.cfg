\* Two tasks interleave statement by statement: is a cash account always left?
SPECIFICATION Spec
CONSTANTS
    r1 = r1
    r2 = r2
    usd = usd
    dop = dop
    None = None
    Request = {r1, r2}
    Endpoints <- AllEndpoints
    Currency = {usd}
    Cent = 4
    RateUnit = 100
    Rate <- MCRate
    Amount = {4}
    MaxAccounts = 3
    MaxTransactions = 3
    MaxTransfers = 1
    MaxRules = 1
INVARIANT CashAccountRemains
