\* Two syncs that may approve by themselves next to a request.
SPECIFICATION Spec
CONSTANTS
    r1 = r1
    r2 = r2
    s1 = s1
    s2 = s2
    m1 = m1
    m2 = m2
    m3 = m3
    coffee = coffee
    lunch = lunch
    visa = visa
    raw = raw
    name = name
    a1 = a1
    a2 = a2
    None = None
    Message = {m1, m2}
    Sent <- MCSent
    Window = 3
    MaxPerRun = 2
    MaxDay = 2
    Charge = {coffee}
    Reports <- MCReports
    Card = {visa}
    CardOf <- MCCardOf
    Merchant = {raw, name}
    MerchantOf <- MCMerchantOf
    Renames = {name}
    Account = {a1}
    Request = {r1}
    Sync = {s1, s2}
    Endpoints <- ConcurrentEndpoints
    AutoApprove = {TRUE, FALSE}
    MaxFailures = 1
    MaxDeaths = 0
SYMMETRY SyncSymmetry
INVARIANTS ApprovalAtomic NoDuplicateCharge FlagReleased
