SPECIFICATION Spec
CONSTANTS
    None = None
    Keep = Keep
    Blank = Blank
    Dummy = Dummy
    Headers = FALSE
    Browsers = {b1}
    Requests = {r1}
    Tokens = {t1}
    States = {}
    Tickets = {}
SYMMETRY Symmetry
PROPERTY RetryInvalidates
