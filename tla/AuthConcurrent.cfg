\* Three requests of any kind interleave statement by statement and may die.
SPECIFICATION Spec
CONSTANTS
    r1 = r1
    r2 = r2
    r3 = r3
    s1 = s1
    s2 = s2
    s3 = s3
    None = None
    Request = {r1, r2, r3}
    Session = {s1, s2, s3}
    MaxCodes = 2
    MaxPasswords = 2
    MaxAttempts = 2
    Endpoint = {"login", "refresh", "logout", "verify", "reset", "change"}
    Dies = TRUE
INVARIANTS TypeOK NoFork ResetEndsSessions GuessesBounded
PROPERTIES ImplementsFamilies AcceptedWhileActive
SYMMETRY AuthSymmetry
