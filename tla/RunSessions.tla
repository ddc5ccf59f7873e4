----------------------------- MODULE RunSessions -----------------------------
(***************************************************************************)
(* What the registry of nova-cloud promises to those who watch a run,      *)
(* whatever starts, stops, reconciles or fails it: a run is live at most   *)
(* once, also across restarts of the process; all who watch it are told of *)
(* its end at once, nobody joins it later; and as long as an ended session *)
(* is remembered it knows how the run ended.  ChatRuns implements this     *)
(* specification.                                                          *)
(***************************************************************************)
CONSTANTS Run, Stream, NoRun, Outcome

VARIABLES
  phase,     \* phase[r]: "unborn", "live", "ended" or "over"
  tuned,     \* tuned[s]: the run whose chunks stream s gets
  outcome    \* outcome[r]: how the session of r ended, as far as it is kept

vars == <<phase, tuned, outcome>>

Init ==
  /\ phase = [r \in Run |-> "unborn"]
  /\ tuned = [s \in Stream |-> NoRun]
  /\ outcome = [r \in Run |-> "none"]

Open(r) ==
  /\ phase[r] = "unborn"
  /\ phase' = [phase EXCEPT ![r] = "live"]
  /\ UNCHANGED <<tuned, outcome>>

\* The request that made the row failed before it registered the run.
Abandon(r) ==
  /\ phase[r] = "unborn"
  /\ phase' = [phase EXCEPT ![r] = "over"]
  /\ UNCHANGED <<tuned, outcome>>

End(r, final) ==
  /\ phase[r] = "live"
  /\ phase' = [phase EXCEPT ![r] = "ended"]
  /\ tuned' = [s \in Stream |-> IF tuned[s] = r THEN NoRun ELSE tuned[s]]
  /\ outcome' = [outcome EXCEPT ![r] = final]

\* A second end, of an executor that was stopped, say, is only recorded.
EndAgain(r, final) ==
  /\ phase[r] = "ended"
  /\ outcome' = [outcome EXCEPT ![r] = final]
  /\ UNCHANGED <<phase, tuned>>

Forget(r) ==
  /\ phase[r] = "ended"
  /\ phase' = [phase EXCEPT ![r] = "over"]
  /\ outcome' = [outcome EXCEPT ![r] = "none"]
  /\ UNCHANGED tuned

Tune(s, r) ==
  /\ tuned[s] = NoRun /\ phase[r] = "live"
  /\ tuned' = [tuned EXCEPT ![s] = r]
  /\ UNCHANGED <<phase, outcome>>

Leave(s) ==
  /\ tuned' = [tuned EXCEPT ![s] = NoRun]
  /\ UNCHANGED <<phase, outcome>>

\* A restart ends whatever has begun, and no run of before is live again.
Restart ==
  /\ phase' \in [Run -> {"unborn", "over"}]
  /\ \A r \in Run : phase'[r] = "unborn" => phase[r] = "unborn"
  /\ tuned' = [s \in Stream |-> NoRun]
  /\ outcome' = [r \in Run |-> "none"]

Next ==
  \/ \E r \in Run : Open(r) \/ Abandon(r) \/ Forget(r)
  \/ \E r \in Run, final \in Outcome : End(r, final) \/ EndAgain(r, final)
  \/ \E s \in Stream : Leave(s) \/ \E r \in Run : Tune(s, r)
  \/ Restart

Spec == Init /\ [][Next]_vars
=============================================================================
