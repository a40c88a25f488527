---------------------------- MODULE EpollServer ----------------------------
(***************************************************************************)
(* The server of epoll/simplest_sample: edge triggered, one thread, with   *)
(* sockets that stay blocking, because set_nonblocking sets the flag with  *)
(* F_SETFD. A message is one unit of Sockets; Size units fill the buffer   *)
(* of recv_req. Clients read, so that a write does not block.              *)
(***************************************************************************)
EXTENDS Sockets

CONSTANT Size   \* MAX_BUF_SIZE

VARIABLES
  batch,    \* what epoll_wait reported and event_loop did not look at yet
  pc,       \* "top" (in epoll_wait), "next", "recv", "out", "stopped"
  recvd,    \* of the running recv_req
  patient,  \* clients wait for an answer before they send again
  stop

vars == <<k, sockets, manners, batch, pc, recvd, patient, stop>>

Init ==
  /\ k = Watch(Open(NoKernel, ListenFd), ListenFd, {"in"}, {})
  /\ SocketsInit
  /\ batch = <<>> /\ pc = "top" /\ recvd = 0
  /\ patient \in BOOLEAN /\ stop = FALSE

Due == {f \in k.ready : Reports(k, f, Level(f)) # {}}

Poll ==
  /\ pc = "top" /\ Due # {}
  /\ \E order \in SetToSeqs(Due) :
       batch' = [n \in DOMAIN order |->
                  [fd |-> order[n], events |-> Reports(k, order[n], Level(order[n]))]]
  /\ k' = [k EXCEPT !.ready = {}]
  /\ pc' = "next"
  /\ UNCHANGED <<sockets, recvd>>

Now == Head(batch)
Client == conn[Now.fd]

\* What event_loop does after it looked at EPOLLIN.
AfterIn ==
  /\ recvd' = 0
  /\ IF "out" \in Now.events THEN pc' = "out" /\ UNCHANGED batch
                             ELSE pc' = "next" /\ batch' = Tail(batch)

----------------------------------------------------------------------------
(* accept_conn: one connection for an event.                               *)

InAccept == pc = "next" /\ batch # <<>> /\ Now.fd = ListenFd

Accept ==
  /\ InAccept
  /\ \E f \in Fd : /\ Accepts(f)
                   /\ k' = Watch(Open(k, f), f, {"in"}, LevelOf(Head(backlog)))
  /\ AfterIn

\* accept fails, for want of a descriptor.
AcceptFails ==
  /\ InAccept
  /\ backlog # <<>> /\ Cardinality(k.open) = limit
  /\ AfterIn
  /\ UNCHANGED <<k, sockets>>

----------------------------------------------------------------------------
(* recv_req                                                                *)

Recv ==
  /\ pc = "next" /\ batch # <<>> /\ Now.fd # ListenFd /\ "in" \in Now.events
  /\ pc' = "recv"
  /\ UNCHANGED <<k, sockets, batch, recvd>>

\* EPOLL_CTL_MOD; its result is not looked at. (A mutant forgets it.)
ModifyNot(f, events, level) == k
Modify(f, events, level) == IF CanMod(k, f) THEN Watch(k, f, events, level) ELSE k

\* The events asked for after a request and after a response.
AfterRecv == {"in", "out"}
AfterSend == {"in"}

\* "recv finish"; and a mutant that reads until there is an error.
FinishedNever(n) == FALSE
Finished(n) == n < Size

CanRead == unread[Client] > 0 \/ phase[Client] \in {"shut", "reset", "dead"}

Read ==
  /\ pc = "recv" /\ unread[Client] > 0
  /\ LET n == IF unread[Client] < Size THEN unread[Client] ELSE Size
     IN  /\ Reads(Client, n)
         /\ IF Finished(n)
            THEN /\ k' = Modify(Now.fd, AfterRecv, LevelIn(unread[Client] - n, phase[Client]))
                 /\ AfterIn
            ELSE recvd' = recvd + n /\ UNCHANGED <<k, pc, batch>>

\* Every error is taken for EAGAIN: "errno = EAGAIN" assigns.
ReadError ==
  /\ pc = "recv" /\ phase[Client] = "reset"
  /\ Fails(Client)
  /\ k' = Modify(Now.fd, AfterRecv, LevelIn(unread[Client], "dead"))
  /\ AfterIn

\* The end: removed, closed, and then modified, which fails.
ReadEnd ==
  /\ pc = "recv" /\ unread[Client] = 0 /\ phase[Client] \in {"shut", "dead"}
  /\ k' = Close(k, Now.fd) /\ Forgets(Now.fd)
  /\ AfterIn

----------------------------------------------------------------------------
(* send_resp, also for a descriptor that recv_req has just closed.         *)

InSend == \/ pc = "out"
          \/ pc = "next" /\ batch # <<>> /\ "in" \notin Now.events

SendDone == pc' = "next" /\ batch' = Tail(batch) /\ UNCHANGED recvd

Send_resp ==
  /\ InSend /\ "out" \in Now.events
  /\ Client # None /\ phase[Client] \notin {"reset", "dead"}
  /\ Writes(Client)
  /\ k' = Modify(Now.fd, AfterSend, LevelOf(Client))
  /\ SendDone

SendFails ==
  /\ InSend /\ "out" \in Now.events
  /\ \/ Client = None /\ UNCHANGED sockets
     \/ Client # None /\ phase[Client] \in {"shut", "reset", "dead"} /\ Fails(Client)
  /\ SendDone
  /\ UNCHANGED k

----------------------------------------------------------------------------
Around ==
  /\ pc = "next" /\ batch = <<>>
  /\ pc' = IF stop THEN "stopped" ELSE "top"
  /\ UNCHANGED <<k, sockets, batch, recvd>>

\* SIGINT or SIGTERM: it ends a wait that has begun, in epoll_wait or in
\* read, and goes unnoticed just before.
Signal ==
  /\ ~stop /\ stop' = TRUE
  /\ \/ UNCHANGED <<k, pc, batch, recvd>>
     \/ pc = "top" /\ Due = {} /\ pc' = "next" /\ UNCHANGED <<k, batch, recvd>>
     \/ /\ pc = "recv" /\ ~CanRead
        /\ k' = Modify(Now.fd, AfterRecv, LevelOf(Client)) /\ AfterIn
  /\ UNCHANGED <<sockets, manners, patient>>

Server ==
  \/ Poll \/ Around
  \/ Accept \/ AcceptFails
  \/ Recv \/ Read \/ ReadError \/ ReadEnd
  \/ Send_resp \/ SendFails

Clientele ==
  /\ \E c \in Clients :
       \/ Connect(c)
       \/ (patient => sent[c] = answers[c]) /\ Send(c)
       \/ Leave(c)
  /\ UNCHANGED <<batch, pc, recvd>>

Next == \/ (Server \/ Clientele) /\ UNCHANGED <<manners, patient, stop>>
        \/ Signal

Spec == Init /\ [][Next]_vars

\* The server's thread goes on while it can; clients and signals need not come.
FairSpec == Spec /\ WF_vars(Server /\ UNCHANGED <<manners, patient, stop>>)

----------------------------------------------------------------------------
TypeOK ==
  /\ k \in Kernels /\ SocketsTypeOK
  /\ batch \in Seq([fd : Fd, events : SUBSET {"in", "out", "err"}])
  /\ pc \in {"top", "next", "recv", "out", "stopped"}
  /\ recvd \in Nat
  /\ patient \in BOOLEAN /\ stop \in BOOLEAN

\* The sockets block, yet the server does not, nor does it read beyond its
\* buffer: when recv_req reads there is something to read, and one read takes
\* all of it. (Of patient clients, whose messages are shorter than the buffer.)
OneRead == patient /\ pc = "recv" => recvd = 0 /\ CanRead

\* A message of a client that stays waits, and is read and answered.
MessageWaits(c) == patient /\ ~leaving /\ unread[c] > 0
MessageServed(c) == (unread[c] = 0 /\ answers[c] = sent[c]) \/ stop

\* A client went away, and its connection is closed.
Gone(c) == patient /\ phase[c] \in {"shut", "reset", "dead"} /\ (\E f \in Fd : conn[f] = c)
Closed(c) == (\A f \in Fd : conn[f] # c) \/ stop
=============================================================================
