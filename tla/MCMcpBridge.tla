---------------------------- MODULE MCMcpBridge ----------------------------
(* Model values and symmetry for the runs of McpBridge.                    *)
EXTENDS McpBridge, TLC

CONSTANTS s1, s2, a, b, c1, c2, c3, d1, d2, h1, h2, h3

OneSession == {s1}
TwoSessions == {s1, s2}
OneServer == {a}
TwoServers == {a, b}
TwoCalls == {c1, c2}
ThreeCalls == {c1, c2, c3}
FirstCall == {c1}
LastCall == {c3}
SecondCall == {c2}
NoCalls == {}
NoServers == {}
SecondServer == {b}
OneCloser == {d1}
TwoClosers == {d1, d2}
TwoHandles == {h1, h2}

HandleSymmetry == Permutations(Handles)
=============================================================================
