SPECIFICATION Spec
CONSTANTS
    None = None
    t1 = t1
    t2 = t2
    t3 = t3
    s1 = s1
    s2 = s2
    Browsers = {b1}
    Trips = {t1, t2}
    States = {s1, s2}
    Requests = {r1}
    Pods = {p1}
    StateOf <- TwoUi
    Shared = TRUE
    Strict = TRUE
\* The model stops when every trip is used up.
CHECK_DEADLOCK FALSE
INVARIANT KeptVerifierIsUsable
