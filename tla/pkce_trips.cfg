SPECIFICATION Spec
CONSTANTS
    None = None
    t1 = t1
    t2 = t2
    t3 = t3
    s1 = s1
    s2 = s2
    Browsers = {b1, b2}
    Trips = {t1, t2, t3}
    States = {s1, s2}
    Requests = {r1, r2}
    Pods = {p1}
    StateOf <- CliAndUi
    Shared = FALSE
    Strict = FALSE
\* The model stops when every trip is used up.
CHECK_DEADLOCK FALSE
SYMMETRY Symmetry
INVARIANTS TypeOK OwnBrowser VerifierKept OneLogin OwnVerifier
PROPERTY KeepsSignOn
