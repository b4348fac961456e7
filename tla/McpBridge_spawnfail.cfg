\* The one server's command cannot be spawned.
SPECIFICATION FairSpec
CONSTANTS
    s1 = s1  s2 = s2  a = a  b = b
    c1 = c1  c2 = c2  c3 = c3  d1 = d1  d2 = d2  h1 = h1  h2 = h2  h3 = h3
    None = None
    Sessions <- OneSession
    Servers <- OneServer
    Calls <- TwoCalls
    ListCalls <- NoCalls
    UntimedCalls <- NoCalls
    UnserialisableCalls <- NoCalls
    UnknownServers <- NoServers
    UnspawnableServers <- OneServer
    Closers <- OneCloser
    Handles <- TwoHandles
    MaxLines = 1
PROPERTIES CloseSessionReturns
CHECK_DEADLOCK FALSE
