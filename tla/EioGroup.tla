------------------------------ MODULE EioGroup ------------------------------
(***************************************************************************)
(* A group of libeio/eio.c with a feeder: while fewer members are under way*)
(* than the limit, the feeder is called to add some, until it adds none.   *)
(* One thread of the user polls; workers only execute. (How groups hold    *)
(* each other and are cancelled without a feeder is EtpPool's.)            *)
(***************************************************************************)
EXTENDS Integers, Sequences

CONSTANTS
  Work,     \* how many requests the feeder can make
  Batch,    \* how many it makes at most when it is called
  Limits,   \* what the user passes as limit
  MaxOwn,   \* a bound: how many members the user adds himself
  MaxSets   \* a bound: how often the user changes the limit

VARIABLES
  phase,        \* of the group: "queued", "delayed", "finished"
  size, limit,  \* grp->size, grp->int2
  feed, added,  \* grp->feed is set; ETP_FLAG_GROUPADD
  cancelled,
  trying,       \* grp_try_feed runs: "no", "dec" (from grp_dec), "user"
  left,         \* what the feeder has still to make
  own, sets,    \* what the user did so far
  waiting,      \* members that no worker has executed
  results,      \* the queue of results at the group's priority: it and members
  low           \* results of a lower priority

groupVars == <<phase, size, limit, feed, added, cancelled, trying, left, own, sets,
               waiting, results, low>>

\* eio_grp submits at once, and a group goes right to the results. The result
\* of a member that was made before may be ahead of it.
Init ==
  /\ phase = "queued" /\ size \in {0, 1} /\ limit = 0 /\ feed = FALSE /\ added = (size = 1)
  /\ cancelled = FALSE /\ trying = "no" /\ left = Work /\ own = 0 /\ sets = 0
  /\ waiting = 0 /\ low = 0
  /\ results = IF size = 1 THEN <<"member", "group">> ELSE <<"group">>

\* eio_grp_add of k members that were submitted.
Add(k) ==
  /\ size' = size + k /\ waiting' = waiting + k
  /\ added' = (added \/ k > 0)

----------------------------------------------------------------------------
\* grp_try_feed. A round calls the feeder, and only one that added something
\* is followed by another; the feeder may cancel its group.
Done(t) == IF t = "dec" THEN "fed dec" ELSE "fed user"
HungryAlways == size < limit
Hungry == size < limit /\ ~cancelled
Round ==
  /\ trying \in {"dec", "user"} /\ Hungry
  /\ \E k \in 0 .. Batch :
       /\ feed /\ left > 0 <=> k > 0
       /\ k <= left /\ left' = left - k
       /\ size' = size + k /\ waiting' = waiting + k
       /\ added' = (k > 0)
       /\ cancelled' \in IF feed THEN {cancelled, TRUE} ELSE {cancelled}
       /\ feed' = (feed /\ k > 0)
       /\ trying' = IF k = 0 THEN Done(trying) ELSE trying
  /\ UNCHANGED <<phase, limit, own, sets, results, low>>
Fed ==
  /\ trying \in {"dec", "user"} /\ ~Hungry
  /\ trying' = Done(trying)
  /\ UNCHANGED <<phase, size, limit, feed, added, cancelled, left, own, sets, waiting, results, low>>

\* The end of grp_dec: a group whose result was put off, and that has no
\* members any more, is finished there.
LastGoneEarly == size = 0
LastGoneNever == FALSE
LastGone == size = 0 /\ phase = "delayed"
FedReturn ==
  /\ trying \in {"fed dec", "fed user"} /\ trying' = "no"
  /\ phase' = IF trying = "fed dec" /\ LastGone THEN "finished" ELSE phase
  /\ UNCHANGED <<size, limit, feed, added, cancelled, left, own, sets, waiting, results, low>>

----------------------------------------------------------------------------
\* What the user does between polls, and in callbacks.
CanAdd == phase # "finished" /\ own < MaxOwn
Idle == trying = "no" /\ phase # "finished"

UserAdds ==
  /\ Idle /\ CanAdd /\ Add(1) /\ own' = own + 1
  /\ UNCHANGED <<phase, limit, feed, cancelled, trying, left, sets, results, low>>
\* eio_grp_feed, and eio_grp_limit.
SetFeed ==
  /\ Idle /\ sets < MaxSets /\ sets' = sets + 1
  /\ limit' \in Limits /\ feed' \in {feed, TRUE} /\ trying' = "user"
  /\ UNCHANGED <<phase, size, added, cancelled, left, own, waiting, results, low>>
UserCancels ==
  /\ Idle /\ ~cancelled /\ cancelled' = TRUE
  /\ UNCHANGED <<phase, size, limit, feed, added, trying, left, own, sets, waiting, results, low>>

\* A worker executes a member (a cancelled one returns at once).
Work1 ==
  /\ waiting > 0 /\ waiting' = waiting - 1
  /\ \/ results' = Append(results, "member") /\ UNCHANGED low
     \/ low' = low + 1 /\ UNCHANGED results
  /\ UNCHANGED <<phase, size, limit, feed, added, cancelled, trying, left, own, sets>>

\* etp_poll: the first result of the highest priority. A group that has members
\* is put off.
PollGroup ==
  /\ trying = "no" /\ results # <<>> /\ Head(results) = "group"
  /\ results' = Tail(results)
  /\ phase' = IF size > 0 THEN "delayed" ELSE "finished"
  /\ UNCHANGED <<size, limit, feed, added, cancelled, trying, left, own, sets, waiting, low>>

\* The member's callback runs, which may add another one, and grp_dec follows.
PollMember ==
  /\ trying = "no"
  /\ \/ results # <<>> /\ Head(results) = "member" /\ results' = Tail(results) /\ UNCHANGED low
     \/ results = <<>> /\ low > 0 /\ low' = low - 1 /\ UNCHANGED results
  /\ \/ size' = size - 1 /\ UNCHANGED <<own, added, waiting>>
     \/ /\ CanAdd /\ own' = own + 1 /\ added' = TRUE
        /\ size' = size /\ waiting' = waiting + 1
  /\ trying' = "dec"
  /\ UNCHANGED <<phase, limit, feed, cancelled, left, sets>>

PollStep == Round \/ Fed \/ FedReturn \/ PollGroup \/ PollMember
Next == PollStep \/ Work1 \/ UserAdds \/ SetFeed \/ UserCancels

\* The user polls until nothing is pending, and threads execute what is queued.
Spec == Init /\ [][Next]_groupVars /\ WF_groupVars(PollStep) /\ WF_groupVars(Work1)

----------------------------------------------------------------------------
\* libeio/eio.c: a cancelled group is fed no more; and a group finishes once,
\* without members, and not before the feeder had nothing left, unless it was
\* cancelled, or its limit allows none to run.
FedStep ==
  /\ cancelled => left' = left
  /\ phase' = "finished" /\ phase # "finished" =>
       /\ size' = 0 /\ waiting' = 0 /\ low' = 0 /\ results' = <<>>
       /\ feed' => cancelled' \/ limit' <= 0
  /\ phase = "finished" => UNCHANGED <<phase, size, left>>
GroupFed == [][FedStep]_groupVars

\* libeio/eio.c: and it does finish.
GroupEnds == <>(phase = "finished")
=============================================================================
