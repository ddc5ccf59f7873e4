---------------------------- MODULE MCChatRuns ----------------------------
(* Values for the constants of ChatRuns. *)
EXTENDS ChatRuns, TLC

CONSTANTS r1, r2, r3, c1, c2, q1, q2, s1, s2

OneRun == {r1}
TwoRuns == {r1, r2}
ThreeRuns == {r1, r2, r3}
OneChat == {c1}
TwoChats == {c1, c2}
OneRequest == {q1}
TwoRequests == {q1, q2}
NoStreams == {}
OneStream == {s1}
TwoStreams == {s1, s2}

Symmetry == Permutations(Run) \cup Permutations(Request) \cup Permutations(Stream)
\* Where all chats are the Studio's, they are interchangeable too.
StudioSymmetry == Symmetry \cup Permutations(Chat)

\* For the count of queued rows.  No executor writes one, so what it does after
\* its first await does not matter; a stale row and a reconciled one leave the
\* active rows by the same write as a lost and a stopped one.
BeforeTheLoop ==
  /\ \A r \in Run : age[r] = 0 /\ exec[r] \in {"none", "scheduled", "marked"}
  /\ \A q \in Request : req[q].pc # "seen"
=============================================================================
