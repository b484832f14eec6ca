\* Two tasks interleave statement by statement, every endpoint that creates or
\* removes a row another row refers to.
\* With every id handed out and every row deleted no client call is left: the
\* bounds stop the run, not the program.
SPECIFICATION Spec
CONSTANTS
    r1 = r1
    r2 = r2
    usd = usd
    dop = dop
    None = None
    Request = {r1, r2}
    Endpoints <- ReferenceEndpoints
    Currency = {usd}
    Cent = 4
    RateUnit = 100
    Rate <- MCRate
    Amount = {4}
    MaxAccounts = 2
    MaxTransactions = 3
    MaxTransfers = 1
    MaxRules = 1
CHECK_DEADLOCK FALSE
SYMMETRY TaskSymmetry
INVARIANTS TransferMirrored ReferencesExist
PROPERTIES MirrorsFixed
