SPECIFICATION LiveSpec
CONSTANTS
    Calls = {c1, c2}
    TTL = 2
    Life = 3
    FetchLimit = 1
    MaxTime = 3
    MaxKey = 2
    NoReceipt = NoReceipt
    NoEntry = NoEntry
    NoCall = NoCall
INVARIANTS OncePerDirective ToldAsReported
PROPERTIES StartIsAuthorised CallsEnd
CHECK_DEADLOCK FALSE
