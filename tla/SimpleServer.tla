---------------------------- MODULE SimpleServer ----------------------------
(***************************************************************************)
(* simplest_netcommu: server.c takes one client after the other, reads     *)
(* once, answers once and leaves the connection open; client.c connects,   *)
(* writes, reads and ends. Both block. SIGINT interrupts what blocks, but  *)
(* one that comes between the look at stop and accept is seen only after   *)
(* the next client.                                                        *)
(***************************************************************************)
EXTENDS Naturals, FiniteSets

CONSTANTS
  Client,
  Nobody,   \* none of the clients
  MaxFds    \* connections the server can hold

VARIABLES
  pc,       \* the server: "bind", "top", "accept", "blocked", "read", "write", "over"
  stop,
  with,     \* the client the server is busy with, or Nobody
  held,     \* clients whose connection is open in the server
  cpc,      \* each client: "none", "connect", "write", "read", "over"
  queued,   \* connections that wait for accept
  request,  \* clients that wrote and were not read
  reply     \* clients that were answered

simpleVars == <<pc, stop, with, held, cpc, queued, request, reply>>

----------------------------------------------------------------------------
(* server.c.                                                               *)

\* Everything before the loop; each call may fail.
Bind ==
  /\ pc = "bind"
  /\ pc' \in {"top", "over"}
  /\ UNCHANGED <<stop, with, held, cpc, queued, request, reply>>

Top ==
  /\ pc = "top"
  /\ pc' = IF stop THEN "over" ELSE "accept"
  /\ UNCHANGED <<stop, with, held, cpc, queued, request, reply>>

\* accept waits for a client; without a descriptor it fails.
Accept ==
  /\ pc \in {"accept", "blocked"}
  /\ IF queued = {}
     THEN /\ pc = "accept" /\ pc' = "blocked"
          /\ UNCHANGED <<with, held, queued>>
     ELSE IF Cardinality(held) = MaxFds
     THEN pc' = "top" /\ UNCHANGED <<with, held, queued>>
     ELSE \E c \in queued :
            /\ with' = c /\ held' = held \cup {c} /\ queued' = queued \ {c}
            /\ pc' = "read"
  /\ UNCHANGED <<stop, cpc, request, reply>>

Gone(c) == cpc[c] = "over"

\* What is done with a connection that gave nothing (mutant: it is kept).
Keep(c) == held
CloseIt(c) == held \ {c}

\* read: the request, or the end of a client that went.
Read ==
  /\ pc = "read"
  /\ \/ /\ with \in request
        /\ request' = request \ {with} /\ pc' = "write"
        /\ UNCHANGED <<with, held>>
     \/ /\ with \notin request /\ Gone(with)
        /\ held' = CloseIt(with) /\ with' = Nobody /\ pc' = "top"
        /\ UNCHANGED request
  /\ UNCHANGED <<stop, cpc, queued, reply>>

\* write; it fails for a client that went. After it the connection stays.
Write ==
  /\ pc = "write"
  /\ \/ reply' = reply \cup {with} /\ UNCHANGED held
     \/ Gone(with) /\ held' = CloseIt(with) /\ UNCHANGED reply
  /\ with' = Nobody /\ pc' = "top"
  /\ UNCHANGED <<stop, cpc, queued, request>>

\* set_stop. What blocks fails with EINTR; what is about to block does not.
Signal ==
  /\ pc \notin {"bind", "over"} /\ ~stop
  /\ stop' = TRUE
  /\ \/ pc = "blocked" /\ pc' = "top" /\ UNCHANGED <<with, held>>
     \/ /\ pc = "read" /\ with \notin request /\ ~Gone(with)
        /\ pc' = "top" /\ with' = Nobody /\ held' = CloseIt(with)
     \/ pc # "blocked" /\ UNCHANGED <<pc, with, held>>
  /\ UNCHANGED <<cpc, queued, request, reply>>

----------------------------------------------------------------------------
(* client.c. It may die anywhere.                                          *)

Start(c) ==
  /\ cpc[c] = "none" /\ cpc' = [cpc EXCEPT ![c] = "connect"]
  /\ UNCHANGED <<pc, stop, with, held, queued, request, reply>>

\* connect; it fails when nobody listens.
Connect(c) ==
  /\ cpc[c] = "connect"
  /\ \/ /\ pc \notin {"bind", "over"}
        /\ cpc' = [cpc EXCEPT ![c] = "write"] /\ queued' = queued \cup {c}
     \/ pc \in {"bind", "over"} /\ cpc' = [cpc EXCEPT ![c] = "over"] /\ UNCHANGED queued
  /\ UNCHANGED <<pc, stop, with, held, request, reply>>

WriteRequest(c) ==
  /\ cpc[c] = "write"
  /\ cpc' = [cpc EXCEPT ![c] = "read"] /\ request' = request \cup {c}
  /\ UNCHANGED <<pc, stop, with, held, queued, reply>>

\* read gives the reply, or the end when the server closed or is over.
ReadReply(c) ==
  /\ cpc[c] = "read"
  /\ c \in reply \/ pc = "over" \/ (c \notin queued /\ c \notin held)
  /\ cpc' = [cpc EXCEPT ![c] = "over"]
  /\ UNCHANGED <<pc, stop, with, held, queued, request, reply>>

Die(c) ==
  /\ cpc[c] \in {"connect", "write", "read"}
  /\ cpc' = [cpc EXCEPT ![c] = "over"]
  /\ UNCHANGED <<pc, stop, with, held, queued, request, reply>>

Init ==
  /\ pc = "bind" /\ stop = FALSE /\ with = Nobody /\ held = {}
  /\ cpc = [c \in Client |-> "none"] /\ queued = {} /\ request = {} /\ reply = {}

Server == Bind \/ Top \/ Accept \/ Read \/ Write
Runs(c) == Connect(c) \/ WriteRequest(c) \/ ReadReply(c)

Next == Server \/ Signal \/ \E c \in Client : Start(c) \/ Runs(c) \/ Die(c)

----------------------------------------------------------------------------
\* A client that runs comes to its end, one after the other: unless so many
\* were served that the server has no descriptor left for it.
Running(c) == cpc[c] \in {"connect", "write", "read"}
Ended(c) == cpc[c] = "over" \/ Cardinality(reply) = MaxFds
=============================================================================
