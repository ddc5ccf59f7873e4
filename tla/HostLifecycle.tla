--------------------------- MODULE HostLifecycle ---------------------------
(***************************************************************************)
(* What nova-domain-control promises about a host, whatever the number of  *)
(* requests that work on its row at once: a host of the service's own base *)
(* domain is active as long as it is claimed; any other host is claimed as *)
(* pending, and a claim is verified or active only when its owner has been *)
(* seen to publish the TXT record the service asked for with that claim.   *)
(* A claim made while a verification of an earlier one is under way is     *)
(* contested: the service may take the earlier owner's proof for it.       *)
(* DomainControl implements this specification.                            *)
(***************************************************************************)
CONSTANTS Host, Subdomain, Number

VARIABLES
  stage,     \* stage[h]: the status of the claim on h, "absent" without one
  claim,     \* claim[h]: its number, 0 without one
  asked,     \* asked[h]: claims on h whose verification is under way
  proved,    \* proved[h]: claims on h whose own token was seen in the DNS
  contested  \* contested[h]: claims made while an earlier one was verified

vars == <<stage, claim, asked, proved, contested>>

Custom == Host \ Subdomain
Claimed == {"pending", "verified", "active"}

Init ==
  /\ stage = [h \in Host |-> "absent"]
  /\ claim = [h \in Host |-> 0]
  /\ asked = [h \in Host |-> {}]
  /\ proved = [h \in Host |-> {}]
  /\ contested = [h \in Host |-> {}]

\* A new claim owes nothing to the proofs of earlier ones.
Claim(h, n) ==
  /\ stage[h] = "absent"
  /\ n \notin proved[h] \cup contested[h]
  /\ stage' = [stage EXCEPT ![h] = IF h \in Subdomain THEN "active" ELSE "pending"]
  /\ claim' = [claim EXCEPT ![h] = n]
  /\ contested' = IF asked[h] = {} THEN contested
                  ELSE [contested EXCEPT ![h] = @ \cup {n}]
  /\ UNCHANGED <<asked, proved>>

Ask(h) ==
  /\ h \in Custom
  /\ stage[h] # "absent"
  /\ asked' = [asked EXCEPT ![h] = @ \cup {claim[h]}]
  /\ UNCHANGED <<stage, claim, proved, contested>>

Prove(h) ==
  /\ \E n \in asked[h] : proved' = [proved EXCEPT ![h] = @ \cup {n}]
  /\ UNCHANGED <<stage, claim, asked, contested>>

\* Verifications of h come to their end.
Answer(h) ==
  \E left \in SUBSET asked[h] : asked' = [asked EXCEPT ![h] = left]

GiveUp(h) ==
  /\ Answer(h)
  /\ UNCHANGED <<stage, claim, proved, contested>>

\* A claim that was proved, or is contested, may be given any status, also a
\* lower one.
Move(h) ==
  /\ h \in Custom
  /\ claim[h] \in proved[h] \cup contested[h]
  /\ stage[h] # "absent"
  /\ \E st \in Claimed : stage' = [stage EXCEPT ![h] = st]
  /\ Answer(h)
  /\ UNCHANGED <<claim, proved, contested>>

Release(h) ==
  /\ stage' = [stage EXCEPT ![h] = "absent"]
  /\ claim' = [claim EXCEPT ![h] = 0]
  /\ UNCHANGED <<asked, proved, contested>>

Next ==
  \E h \in Host :
    \/ \E n \in Number : Claim(h, n)
    \/ Ask(h) \/ Prove(h) \/ GiveUp(h) \/ Move(h) \/ Release(h)

Spec == Init /\ [][Next]_vars
=============================================================================
