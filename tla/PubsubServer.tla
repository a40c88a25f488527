---------------------------- MODULE PubsubServer ----------------------------
(***************************************************************************)
(* The server of pubsub/main.c on the event loop of Ae: it accepts, reads  *)
(* a query, answers it and reads again, one descriptor at a time. Clients  *)
(* connect, send, close and reset when they like.                          *)
(*                                                                         *)
(* A message is at most one read of 128 bytes; a read may take several.    *)
(* The 5 second timer does nothing but end a call of epoll_wait. Clients   *)
(* read: an answer always fits into the socket's buffer.                   *)
(***************************************************************************)
EXTENDS Ae, Sockets

VARIABLE running   \* not told to stop

vars == <<el, k, fired, pc, sockets, manners, running>>

Listening == Create([el |-> NewLoop, k |-> Open(NoKernel, ListenFd)],
                    ListenFd, {AE_READABLE}, "accept", {})

Init ==
  /\ el = Listening.el /\ k = Listening.k /\ fired = <<>> /\ pc = "top"
  /\ SocketsInit
  /\ running = TRUE

----------------------------------------------------------------------------
(* The handlers. Each runs when the loop has called it, and returns to it. *)

In(p) == \/ pc = "inR" /\ el.rproc[Now.fd] = p
         \/ pc = "inW" /\ el.wproc[Now.fd] = p

\* accept_conn_from_client: one connection, however many wait. When the
\* event cannot be registered the connection stays open and is forgotten.
AcceptConn ==
  /\ In("accept")
  /\ \E f \in Fd : /\ Accepts(f)
                   /\ Becomes(Create([el |-> el, k |-> Open(k, f)], f, {AE_READABLE}, "read",
                                     LevelOf(Head(backlog))))

\* accept fails: nothing waits, or the process may not open another
\* descriptor, and the connection goes on waiting.
AcceptFails ==
  /\ In("accept")
  /\ backlog = <<>> \/ Cardinality(k.open) = limit
  /\ UNCHANGED <<el, k, sockets>>

CloseConn(f) == k' = Close(k, f) /\ Forgets(f) /\ UNCHANGED el

\* Hands the descriptor from one handler to the other.
\* (Mutants: it registers without unregistering; it forgets to register.)
SwitchAdds(f, from, to, p) == Becomes(Create(State, f, to, p, Level(f)))
SwitchDrops(f, from, to, p) == Becomes(Delete(State, f, from, Level(f)))
Switch(f, from, to, p) ==
  Becomes(Create(Delete(State, f, from, Level(f)), f, to, p, Level(f)))

\* read_query_from_client, when read returns bytes, nothing, and an error.
\* At the end of the stream and on an error it closes without unregistering.
ReadQuery ==
  /\ In("read") /\ conn[Now.fd] # None
  /\ LET f == Now.fd
         c == conn[f]
     IN  /\ phase[c] # "reset"
         /\ \E n \in 1 .. unread[c] : Reads(c, n)
         /\ Switch(f, {AE_READABLE}, {AE_WRITABLE}, "send")

ReadEnd ==
  /\ In("read") /\ conn[Now.fd] # None
  /\ LET c == conn[Now.fd]
     IN  phase[c] = "reset" \/ (phase[c] = "shut" /\ unread[c] = 0)
  /\ CloseConn(Now.fd)

\* send_resp_to_client. After a failed write the descriptor is closed, and
\* registered all the same, which fails.
SendResp ==
  /\ In("send") /\ conn[Now.fd] # None
  /\ phase[conn[Now.fd]] # "reset"
  /\ Writes(conn[Now.fd])
  /\ Switch(Now.fd, {AE_WRITABLE}, {AE_READABLE}, "read")

SendFails ==
  /\ In("send") /\ conn[Now.fd] # None
  /\ phase[conn[Now.fd]] \in {"shut", "reset"}
  /\ LET f == Now.fd
         d == Delete([el |-> el, k |-> Close(k, f)], f, {AE_WRITABLE}, {})
     IN  /\ Becomes(Create(d, f, {AE_READABLE}, "read", {}))
         /\ Forgets(f)

\* The handler returns in the same step as its last call.
Returns ==
  LET both == /\ pc = "inR"
              /\ AE_WRITABLE \in el'.mask[Now.fd] \cap Now.mask
              /\ el'.wproc[Now.fd] # el'.rproc[Now.fd]
  IN  IF both THEN pc' = "inW" /\ UNCHANGED fired ELSE pc' = "next" /\ fired' = Tail(fired)

Handler ==
  /\ \/ AcceptConn \/ AcceptFails
     \/ ReadQuery \/ ReadEnd
     \/ SendResp \/ SendFails
  /\ Returns

\* aeMain looks at stop between two calls of aeProcessEvents; the timer
\* makes each call end.
Loop ==
  /\ \/ Poll(Levels)
     \/ PollEmpty(Levels)
     \/ pc = "next" /\ (CallRead \/ CallWrite \/ Handled)
     \/ Around(~running)
  /\ UNCHANGED sockets

----------------------------------------------------------------------------
Client == /\ \E c \in Clients : Connect(c) \/ Send(c) \/ Leave(c)
          /\ UNCHANGED <<el, fired, pc>>

\* sigterm_handler, also in the middle of everything else.
Sigint ==
  /\ running /\ running' = FALSE
  /\ UNCHANGED <<el, k, fired, pc, sockets, manners>>

Server == Loop \/ Handler

Next ==
  \/ Server /\ UNCHANGED <<manners, running>>
  \/ Client /\ UNCHANGED <<manners, running>>
  \/ Sigint

Spec == Init /\ [][Next]_vars

\* The server's thread goes on while it has something to do. Clients need
\* not do anything, and nobody has to stop the server.
FairSpec == Spec /\ WF_vars(Server /\ UNCHANGED <<manners, running>>)

----------------------------------------------------------------------------
TypeOK ==
  /\ AeTypeOK
  /\ SocketsTypeOK
  /\ running \in BOOLEAN

\* While a client is there, exactly one of the two handlers is registered on
\* its descriptor, and the write handler only when it is owed an answer.
OneHandler ==
  \A f \in Fd \ {ListenFd} : conn[f] # None /\ k.watched[f] # {} =>
    /\ Cardinality(el.mask[f]) = 1
    /\ AE_WRITABLE \in el.mask[f] => answers[conn[f]] < read[conn[f]]

\* While clients stay, the loop and the kernel agree. (They do not when a
\* client leaves: its descriptor is closed and stays in events[].)
ServingAgrees == ~leaving => InterestAgrees /\ MaxfdRight

\* A query of a client that stays waits when n answers were written to it. It
\* is read, and one answer more is written; or the server was told to stop.
\* (For every n: when that answer is the one to an earlier query, the query
\* still waits for n + 1.)
QueryWaits(c, n) == unread[c] > 0 /\ answers[c] = n /\ ~leaving
QueryServed(c, n) == (unread[c] = 0 /\ answers[c] > n) \/ ~running
=============================================================================
