----------------------------- MODULE StudioFeed -----------------------------
(***************************************************************************)
(* What the event stream of nova-cloud promises a page: it is sent some of *)
(* the published events, none of them twice and none after a later one,    *)
(* and nothing that was sent is taken back before the page is loaded anew. *)
(* How far the stream has read, what it remembers and when it polls is not *)
(* part of the promise.  StudioEvents implements this specification.       *)
(***************************************************************************)
EXTENDS Naturals, Sequences

CONSTANT Reader

VARIABLES
  stamps,     \* the time of each event, in the order the events were made
  published,  \* those that can be read
  inbox       \* inbox[p]: the events reader p has been sent

vars == <<stamps, published, inbox>>

Event == DOMAIN stamps

Init ==
  /\ stamps = <<>>
  /\ published = {}
  /\ inbox = [p \in Reader |-> <<>>]

Make ==
  /\ Len(stamps') = Len(stamps) + 1
  /\ \A e \in Event : stamps'[e] = stamps[e]
  /\ UNCHANGED <<published, inbox>>

\* Events are published in any order, or never.
Publish(e) ==
  /\ published' = published \cup {e}
  /\ UNCHANGED <<stamps, inbox>>

Deliver(p, e) ==
  /\ e \in published
  /\ \A i \in DOMAIN inbox[p] : inbox[p][i] # e /\ stamps[inbox[p][i]] <= stamps[e]
  /\ inbox' = [inbox EXCEPT ![p] = Append(@, e)]
  /\ UNCHANGED <<stamps, published>>

Reload(p) ==
  /\ inbox' = [inbox EXCEPT ![p] = <<>>]
  /\ UNCHANGED <<stamps, published>>

Next ==
  \/ Make
  \/ \E e \in Event : Publish(e)
  \/ \E p \in Reader : Reload(p) \/ \E e \in Event : Deliver(p, e)

Spec == Init /\ [][Next]_vars
=============================================================================
