\* One tab whose calls, refreshes, sign-ins and sign-outs overlap and may be lost.
SPECIFICATION FairSpec
CONSTANTS
    t1 = t1
    k1 = k1
    k2 = k2
    s1 = s1
    s2 = s2
    s3 = s3
    None = None
    Tab = {t1}
    Call = {k1, k2}
    Session = {s1, s2, s3}
INVARIANTS TypeOK NeverReused
PROPERTIES CallsEnd
SYMMETRY SessionSymmetry
