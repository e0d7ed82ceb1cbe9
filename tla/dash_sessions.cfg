SPECIFICATION Spec
CONSTANTS
    None = None
    Keep = Keep
    Blank = Blank
    Dummy = Dummy
    Headers = FALSE
    Browsers = {b1, b2}
    Requests = {r1, r2}
    Tokens = {t1, t2}
    States = {s1}
    Tickets = {}
SYMMETRY Symmetry
INVARIANTS TypeOK SsoSessionRedeemed OwnLogin ProfileMatchesToken
PROPERTY KeepsDesk
