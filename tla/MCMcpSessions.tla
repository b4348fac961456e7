--------------------------- MODULE MCMcpSessions ---------------------------
(* Model values and symmetry for the runs of McpSessions.                  *)
EXTENDS McpSessions, TLC

CONSTANTS s1, s2, a, b, c1, c2, c3, c4, d1, d2, h1, h2, h3, l1, l2

OneSession == {s1}
TwoServers == {a, b}
OneServer == {a}
TwoCalls == {c1, c2}
ThreeCalls == {c1, c2, c3}
FourCalls == {c1, c2, c3, c4}
FirstCall == {c1}
LastCall == {c3}
ListTwo == {c3, c4}
NoCalls == {}
NoServers == {}
NoLoops == {}
OneLoop == {l1}
OneCloser == {d1}
TwoClosers == {d1, d2}
TwoHandles == {h1, h2}
ThreeHandles == {h1, h2, h3}

HandleSymmetry == Permutations(Handles)
=============================================================================
