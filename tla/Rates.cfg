\* The user saves, reads and transfers while the worker refreshes; nothing starves it.
SPECIFICATION FairSpec
CONSTANTS
    r1 = r1
    w = w
    low = low
    high = high
    None = None
    Currency = {1, 2}
    Rate = {low, high}
    Quoted <- AllQuoted
    Request = {r1}
    Worker = w
    Endpoint = {"replace", "list", "resolve", "worker"}
    Dies = TRUE
INVARIANTS ListAgrees
PROPERTIES StaleRefreshed
SYMMETRY RateSymmetry
