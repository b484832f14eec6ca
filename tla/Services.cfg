\* Overlapping requests of the small services, and servers that start together.
SPECIFICATION Spec
CONSTANTS
    x1 = x1
    x2 = x2
    x3 = x3
    y1 = y1
    y2 = y2
    b1 = b1
    b2 = b2
    w = w
    None = None
    \* Three sign-ins at once against a limit of three failures.
    SignIn = {x1, x2, x3}
    MaxFailed = 3
    \* Two saves at once of two rates for one pair of currencies, both ways.
    Saver = {x1, x2}
    Worker = w
    Rate = {y1, y2}
    Currency = {1, 2}
    Quoted = {}
    Endpoint = {"replace"}
    Dies = TRUE
    \* Two budgets and two transactions over two months of two days.
    Transaction = {y1, y2}
    Budget = {b1, b2}
    Category = {1, 2, 3}
    Lower <- Spelling
    MonthLength = 2
    Months = 2
    Amount = {1, 3}
    \* Three instances start together; 27 calls follow the first one.
    Server = {x1, x2, x3}
    SeedCalls = 27
INVARIANTS TypeOK LockedOut SavesReplace SummariesAgree SeededOnce
SYMMETRY ServicesSymmetry
