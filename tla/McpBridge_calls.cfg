\* One key: three calls share a child or a respawned one.
\* One call has no timer, one goes through listTools.
SPECIFICATION Spec
CONSTANTS
    s1 = s1  s2 = s2  a = a  b = b
    c1 = c1  c2 = c2  c3 = c3  d1 = d1  d2 = d2  h1 = h1  h2 = h2  h3 = h3
    None = None
    Sessions <- OneSession
    Servers <- OneServer
    Calls <- ThreeCalls
    ListCalls <- LastCall
    UntimedCalls <- FirstCall
    UnserialisableCalls <- NoCalls
    UnknownServers <- NoServers
    UnspawnableServers <- NoServers
    Closers <- OneCloser
    Handles <- TwoHandles
    MaxLines = 1
SYMMETRY HandleSymmetry
INVARIANTS NoLostCall ReplyIsOwn
PROPERTIES SettledOnce OldestTakesTheBlame
CHECK_DEADLOCK FALSE
