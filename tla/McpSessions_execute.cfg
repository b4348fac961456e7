\* Two servers, executes only: a call lands while the DELETE waits.
SPECIFICATION SystemSpec
CONSTANTS
    s1 = s1  s2 = s2  a = a  b = b
    c1 = c1  c2 = c2  c3 = c3  c4 = c4  d1 = d1  d2 = d2  h1 = h1  h2 = h2  h3 = h3
    l1 = l1  l2 = l2  None = None  MaxLines = 1
    Sessions <- OneSession
    Servers <- TwoServers
    Calls <- TwoCalls
    ListCalls <- NoCalls
    UntimedCalls <- NoCalls
    UnserialisableCalls <- NoCalls
    UnknownServers <- NoServers
    UnspawnableServers <- NoServers
    Closers <- OneCloser
    Handles <- TwoHandles
    ExecuteCalls <- TwoCalls
    Loops <- NoLoops
SYMMETRY HandleSymmetry
PROPERTIES ChildrenGoneAt204
CHECK_DEADLOCK FALSE
