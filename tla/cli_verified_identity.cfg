SPECIFICATION Spec
CONSTANTS
    None = None
    Logins = {l1}
    Browsers = {b1, b2}
    Posts = {p1}
    Ips = {i1}
    Users = {u1, u2}
    Teams = {t1}
    Aliased = TRUE
    MaxAttempts = 1
    MaxTokens = 2
\* The model stops when every login, browser trip and token is used up.
CHECK_DEADLOCK FALSE
INVARIANTS VerifiedIdentity
