---------------------------- MODULE EioContract ----------------------------
(***************************************************************************)
(* What eio.h promises the caller, with no threads, queues or counters: a  *)
(* request is performed at most once, its callback runs at most once, after *)
(* it was performed and never when it is cancelled, and a group is told of *)
(* after its members.                                                      *)
(***************************************************************************)
CONSTANTS Plain, Groups, None

VARIABLES
  phase,     \* "new", "live" (the caller holds it), "freed"
  dropped,   \* cancelled
  parent,    \* the group a request was added to
  outcome,   \* what the execution returned
  told       \* how often the callback ran

vars == <<phase, dropped, parent, outcome, told>>

Reqs == Plain \cup Groups

Members(g) == {r \in Reqs : parent[r] = g}

Init ==
  /\ phase   = [r \in Reqs |-> "new"]
  /\ dropped = [r \in Reqs |-> FALSE]
  /\ parent  = [r \in Reqs |-> None]
  /\ outcome = [r \in Reqs |-> "none"]
  /\ told    = [r \in Reqs |-> 0]

Accept(r) ==
  /\ phase[r] = "new"
  /\ phase' = [phase EXCEPT ![r] = "live"]
  /\ UNCHANGED <<dropped, parent, outcome, told>>

Drop(S) ==
  /\ \A r \in S : phase[r] = "live"
  /\ dropped' = [r \in Reqs |-> dropped[r] \/ r \in S]
  /\ UNCHANGED <<phase, parent, outcome, told>>

Join(g, r) ==
  /\ phase[g] = "live" /\ phase[r] = "live"
  /\ told[g] = 0 /\ told[r] = 0
  /\ parent[r] = None
  /\ parent' = [parent EXCEPT ![r] = g]
  /\ UNCHANGED <<phase, dropped, outcome, told>>

Perform(r) ==
  /\ phase[r] = "live" /\ outcome[r] = "none"
  /\ outcome' = [outcome EXCEPT ![r] = IF dropped[r] THEN "ECANCELED" ELSE "done"]
  /\ UNCHANGED <<phase, dropped, parent, told>>

\* The end of a request, as far as others wait for it.
Settled(r) == told[r] = 1 \/ dropped[r]

Tell(r) ==
  /\ phase[r] = "live" /\ ~dropped[r] /\ told[r] = 0
  /\ r \in Plain => outcome[r] # "none"
  /\ \A m \in Members(r) : Settled(m)
  /\ told' = [told EXCEPT ![r] = 1]
  /\ UNCHANGED <<phase, dropped, parent, outcome>>

\* A member and the groups it completes are destroyed together.
Destroy(S) ==
  /\ \A r \in S : /\ phase[r] = "live" /\ Settled(r)
                  /\ r \in Plain => outcome[r] # "none"
                  /\ \A m \in Members(r) : m \in S \/ phase[m] = "freed"
  /\ phase' = [r \in Reqs |-> IF r \in S THEN "freed" ELSE phase[r]]
  /\ UNCHANGED <<dropped, parent, outcome, told>>

Next ==
  \/ \E r \in Reqs : Accept(r) \/ Perform(r) \/ Tell(r)
  \/ \E r \in Reqs, g \in Groups : Join(g, r)
  \/ \E S \in SUBSET Reqs : Drop(S) \/ Destroy(S)

Spec == Init /\ [][Next]_vars
=============================================================================
