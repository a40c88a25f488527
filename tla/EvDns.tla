-------------------------------- MODULE EvDns --------------------------------
(***************************************************************************)
(* libevent_sample/dns/ev_dns.c: main asks for every name it was given and *)
(* then runs the event loop, which the last answer ends. An answer may     *)
(* come before evdns_getaddrinfo returns (a number, a name in a file).     *)
(*                                                                         *)
(* event_base_loopexit is an event of its own: when it comes before the    *)
(* loop runs, it ends the loop at once.                                    *)
(***************************************************************************)
EXTENDS Integers

CONSTANT Names   \* how many

VARIABLES
  pc,         \* "ask", "dispatch", "over", "exit" (of a failure)
  i,          \* the next name
  n_pending_requests,
  asked,      \* requests whose answer is to come
  answered,
  exit,       \* the loop was told to end
  early       \* it was when names were left (a history)

evVars == <<pc, i, n_pending_requests, asked, answered, exit, early>>

\* call_back for the name k, when n requests are pending: is it the last?
\* (Mutant: compared before it is counted down.)
IsLastLate(n) == n = 0
IsLast(n) == n - 1 = 0

CallBack(k, n) ==
  /\ answered' = answered \cup {k}
  /\ n_pending_requests' = n - 1
  /\ exit' = (exit \/ IsLast(n))
  /\ early' = (early \/ (IsLast(n) /\ i < Names))

Ask ==
  /\ pc = "ask" /\ i <= Names
  /\ i' = i + 1
  /\ \/ CallBack(i, n_pending_requests + 1) /\ UNCHANGED asked
     \/ /\ asked' = asked \cup {i} /\ n_pending_requests' = n_pending_requests + 1
        /\ UNCHANGED <<answered, exit, early>>
  /\ UNCHANGED pc

\* malloc or strdup, or before that the bases, gave nothing.
Fails ==
  /\ pc = "ask" /\ i <= Names
  /\ pc' = "exit"
  /\ UNCHANGED <<i, n_pending_requests, asked, answered, exit, early>>

Dispatch ==
  /\ pc = "ask" /\ i > Names
  /\ pc' = IF n_pending_requests # 0 THEN "dispatch" ELSE "over"
  /\ UNCHANGED <<i, n_pending_requests, asked, answered, exit, early>>

Answer(k) ==
  /\ pc = "dispatch" /\ k \in asked
  /\ asked' = asked \ {k}
  /\ CallBack(k, n_pending_requests)
  /\ UNCHANGED <<pc, i>>

LoopEnds ==
  /\ pc = "dispatch" /\ exit
  /\ pc' = "over"
  /\ UNCHANGED <<i, n_pending_requests, asked, answered, exit, early>>

Init ==
  /\ pc = "ask" /\ i = 1 /\ n_pending_requests = 0
  /\ asked = {} /\ answered = {} /\ exit = FALSE /\ early = FALSE

Next == Ask \/ Fails \/ Dispatch \/ LoopEnds \/ \E k \in 1 .. Names : Answer(k)

----------------------------------------------------------------------------
\* The program ended and every name was answered; unless an answer that came at
\* once, with none pending, had ended the loop before the last name.
Done == pc = "exit" \/ (pc = "over" /\ (answered = 1 .. Names \/ early))
=============================================================================
