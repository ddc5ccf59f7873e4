-------------------------- MODULE MCDomainControl --------------------------
(* Values for the constants of DomainControl. *)
EXTENDS DomainControl, TLC

CONSTANTS c1, s1, p1, p2, q1, q2

TwoHosts == {c1, s1}
OneHost == {c1}
TheSubdomain == {s1}
NoSubdomain == {}
TwoProxies == {p1, p2}
OneProxy == {p1}
TwoRequests == {q1, q2}

Symmetry == Permutations(Proxy) \cup Permutations(Request)
=============================================================================
