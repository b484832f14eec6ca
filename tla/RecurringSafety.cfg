\* Two workers, failing cycles and a form that goes stale: what gets posted, and that all of it is.
SPECIFICATION Spec
CONSTANTS
    w1 = w1
    w2 = w2
    c1 = c1
    None = None
    Worker = {w1, w2}
    Client = {c1}
    Frequency = {"daily", "weekly", "monthly"}
    LastDay = 5
    Week = 2
    Months = 4
    MonthStart <- MCMonthStart
    StartDate = {1, 3}
    MaxRules = 1
    MaxEdits = 1
    MaxFailures = 1
INVARIANTS TypeOK NoDoublePosting Unbroken NothingEarly
PROPERTIES DueIsPosted
