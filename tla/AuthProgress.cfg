\* Two requests, which overlap or come one after the other; every one is answered.
SPECIFICATION MCSpec
CONSTANTS
    r1 = r1
    r2 = r2
    r3 = r3
    s1 = s1
    s2 = s2
    s3 = s3
    None = None
    Request = {r1, r2}
    Session = {s1, s2, s3}
    MaxCodes = 3
    MaxPasswords = 2
    MaxAttempts = 2
    Endpoint = {"login", "refresh", "logout", "verify", "reset", "change"}
    Dies = FALSE
INVARIANTS SerialOneLiveCode SerialCurrentPassword
PROPERTIES RequestsEnd SerialReuseEndsFamily
SYMMETRY SessionSymmetry
