SPECIFICATION Spec
CONSTANTS
    None = None
    Keep = Keep
    Blank = Blank
    Dummy = Dummy
    Headers = TRUE
    Browsers = {b1}
    Requests = {r1, r2}
    Tokens = {t1}
    States = {}
    Tickets = {k1, k2}
SYMMETRY Symmetry
INVARIANT TicketOpensOnce
PROPERTIES TicketDiesWithSession KeepsDesk
