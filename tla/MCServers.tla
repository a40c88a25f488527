----------------------------- MODULE MCServers -----------------------------
(* An instance for TLC of the two servers on epoll, with the same clients: *)
(* server says which one a behaviour is about.                             *)
EXTENDS Sockets

CONSTANTS SetSize, Procs, NoProc, Size

ASSUME ServersAssumption ==
  /\ SetSize \in Nat \ {0, 1} /\ Fd = 0 .. SetSize - 1
  /\ Procs = {"accept", "read", "send"} /\ NoProc \notin Procs
  /\ None \notin Clients
  /\ MaxMessages \in Nat /\ Size \in Nat \ {0}

VARIABLES
  server,                        \* "pubsub", "simple"
  el, fired, running,            \* of PubsubServer
  batch, recvd, patient, stop,   \* of EpollServer
  pc                             \* of either

Pubsub == INSTANCE PubsubServer
Simple == INSTANCE EpollServer

pubsubOnly == <<el, fired, running>>
simpleOnly == <<batch, recvd, patient, stop>>

Init ==
  \/ /\ server = "pubsub" /\ Pubsub!Init
     /\ batch = <<>> /\ recvd = 0 /\ patient = FALSE /\ stop = FALSE
  \/ /\ server = "simple" /\ Simple!Init
     /\ patient \/ ~leaving   \* a bound: not both at once
     /\ el = Pubsub!NewLoop /\ fired = <<>> /\ running = TRUE

Next ==
  /\ \/ server = "pubsub" /\ Pubsub!Next /\ UNCHANGED simpleOnly
     \/ server = "simple" /\ Simple!Next /\ UNCHANGED pubsubOnly
  /\ UNCHANGED server

vars == <<k, sockets, manners, pubsubOnly, simpleOnly, pc, server>>

\* The thread of the server goes on while it has something to do; clients need
\* not do anything, and nobody has to stop it.
ServerStep ==
  \/ server = "pubsub" /\ Pubsub!Server /\ UNCHANGED <<manners, running, simpleOnly, server>>
  \/ server = "simple" /\ Simple!Server /\ UNCHANGED <<manners, patient, stop, pubsubOnly, server>>

Spec == Init /\ [][Next]_vars
FairSpec == Spec /\ WF_vars(ServerStep)

----------------------------------------------------------------------------
\* pubsub/main.c: one handler on a client's descriptor, the right one; and
\* while clients stay, events[], the kernel and maxfd agree on it.
OneHandler == Pubsub!OneHandler /\ Pubsub!ServingAgrees

\* epoll_server.c: the sockets block, yet the server does not, nor does it read
\* beyond its buffer: when recv_req reads there is something to read, and one
\* read takes all of it. (Of patient clients, with messages below the buffer.)
OneRead == patient /\ pc = "recv" => recvd = 0 /\ Simple!CanRead

\* Both: with state of the right types, the handler that is called is the one
\* that belongs to what its descriptor is in the middle of.
HandledRight ==
  /\ server = "pubsub" => Pubsub!TypeOK /\ OneHandler
  /\ server = "simple" => Simple!TypeOK /\ OneRead

Waits(c, n) == \/ server = "pubsub" /\ Pubsub!QueryWaits(c, n)
               \/ server = "simple" /\ n = 0 /\ Simple!MessageWaits(c)

\* Both: every message of a client that stays is read and answered; in
\* pubsub/main.c what one read takes gets one answer, which is said of queries
\* that wait before the first answer and between the first and the second (a
\* bound; those behind it are read and owed an answer in the same way). No edge is
\* lost between the handlers of a descriptor, nor between read and EPOLL_CTL_MOD.
Answered ==
  \A c \in Clients, n \in {0, 1} :
    Waits(c, n) ~> IF server = "pubsub" THEN Pubsub!QueryServed(c, n)
                                        ELSE Simple!MessageServed(c)

\* pubsub/main.c: SIGINT stops the server, also when it comes between the look
\* at stop and the wait: no event need come, the 5 second timer ends the wait.
Stops == ~running ~> pc = "stopped"

\* epoll_server.c: the connection of a client that went away is closed in the
\* end, although errors of read are ignored and a failed write closes nothing.
GoneIsClosed ==
  \A c \in Clients : server = "simple" /\ Simple!Gone(c) ~> Simple!Closed(c)
=============================================================================
