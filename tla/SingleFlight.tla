---------------------------- MODULE SingleFlight ----------------------------
(***************************************************************************)
(* What a map of promises promises to those who call for the value of a    *)
(* key at once: one of them works it out and the others follow; all get    *)
(* the one answer in the same step, or all are turned away; and nobody     *)
(* follows a key that no one works on.  ScheduledJobs implements this      *)
(* specification.                                                          *)
(***************************************************************************)
CONSTANTS Caller, Key, NoKey, Answer, NoAnswer

VARIABLE
  call  \* call[c]: whether c is "out", leads or follows, which key, and what
        \* it was given and has not used yet

Out(a) == [role |-> "out", key |-> NoKey, answer |-> a]
Leading(k) == [role |-> "lead", key |-> k, answer |-> NoAnswer]
Following(k) == [role |-> "follow", key |-> k, answer |-> NoAnswer]

Init == call = [c \in Caller |-> Out(NoAnswer)]

Led(k) == \E c \in Caller : call[c] = Leading(k)

Enter(c, k) ==
  /\ call[c] = Out(NoAnswer)
  /\ call' = [call EXCEPT ![c] = IF Led(k) THEN Following(k) ELSE Leading(k)]

\* The answer NoAnswer stands for a call that failed.
Settle(k, a) ==
  /\ Led(k)
  /\ call' = [c \in Caller |-> IF call[c].key = k THEN Out(a) ELSE call[c]]

Use(c) ==
  /\ call[c].role = "out"
  /\ call' = [call EXCEPT ![c] = Out(NoAnswer)]

\* The process restarts.
Reset == call' = [c \in Caller |-> Out(NoAnswer)]

Next ==
  \/ \E c \in Caller, k \in Key : Enter(c, k)
  \/ \E k \in Key, a \in Answer \cup {NoAnswer} : Settle(k, a)
  \/ \E c \in Caller : Use(c)
  \/ Reset

Spec == Init /\ [][Next]_call
=============================================================================
