-------------------------- MODULE MCScheduledJobs --------------------------
(* Values for the constants of ScheduledJobs. *)
EXTENDS ScheduledJobs, TLC

CONSTANTS j1, p1, p2, m1, k1, k2, k3

OneJob == {j1}
OnePoller == {p1}
TwoPollers == {p1, p2}
OneManual == {m1}
NoManual == {}
TwoChats == {k1, k2}
ThreeChats == {k1, k2, k3}

Symmetry == Permutations(Job) \cup Permutations(Poller) \cup Permutations(Chat)
=============================================================================
