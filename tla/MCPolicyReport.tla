--------------------------- MODULE MCPolicyReport ---------------------------
(* Four events, one of them cluster-wide, of three priorities.             *)
EXTENDS PolicyReport

CONSTANTS e1, e2, e3, e4, o1

MCEvents == {e1, e2, e3, e4}
MCClusterwide == {e4}
MCPriority == [e \in MCEvents |-> CASE e = e1 -> 5 [] e = e2 -> 4 [] OTHER -> 3]
NoOlder == << >>
OneOlder == <<o1>>
MostEvents == MCEvents \ {e3}
TwoUnchecked == {e3, e4}
=============================================================================
