\* One execute, one chat loop that lists and calls, one DELETE.
SPECIFICATION SystemSpec
CONSTANTS
    s1 = s1  s2 = s2  a = a  b = b
    c1 = c1  c2 = c2  c3 = c3  c4 = c4  d1 = d1  d2 = d2  h1 = h1  h2 = h2  h3 = h3
    l1 = l1  l2 = l2  None = None  MaxLines = 1
    Sessions <- OneSession
    Servers <- OneServer
    Calls <- ThreeCalls
    ListCalls <- LastCall
    UntimedCalls <- NoCalls
    UnserialisableCalls <- NoCalls
    UnknownServers <- NoServers
    UnspawnableServers <- NoServers
    Closers <- TwoClosers
    Handles <- TwoHandles
    ExecuteCalls <- FirstCall
    Loops <- OneLoop
SYMMETRY HandleSymmetry
INVARIANTS QuietCloseLeavesNoChild DeleteAnswersCalls
CHECK_DEADLOCK FALSE
