\* Two sessions, two concurrent closeSession calls; one call fails to write to
\* the child it spawned.  Every command spawns; one server is not in the registry.
SPECIFICATION FairSpec
CONSTANTS
    s1 = s1  s2 = s2  a = a  b = b
    c1 = c1  c2 = c2  c3 = c3  d1 = d1  d2 = d2  h1 = h1  h2 = h2  h3 = h3
    None = None
    Sessions <- TwoSessions
    Servers <- TwoServers
    Calls <- TwoCalls
    ListCalls <- NoCalls
    UntimedCalls <- NoCalls
    UnserialisableCalls <- SecondCall
    UnknownServers <- SecondServer
    UnspawnableServers <- NoServers
    Closers <- TwoClosers
    Handles <- TwoHandles
    MaxLines = 1
INVARIANTS CacheIsExact CloseIsScoped
PROPERTIES TimedCallSettles CloseSessionReturns
CHECK_DEADLOCK FALSE
