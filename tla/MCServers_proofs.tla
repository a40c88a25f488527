--------------------------- MODULE MCServers_proofs ---------------------------
(* Theorems of MCServers: the two servers on epoll, for any number of clients, *)
(* descriptors and messages.                                                    *)
EXTENDS MCServers, FiniteSetTheorems, TLAPS

----------------------------------------------------------------------------
(* The invariant: what holds of the sockets under either server.             *)

Left == {"shut", "reset", "dead"}

\* The kernel watches open descriptors, and only they have a client.
WatchedOpen ==
  /\ ListenFd \in k.open /\ conn[ListenFd] = None
  /\ \A f \in Fd : k.watched[f] # {} \/ conn[f] # None => f \in k.open

\* A client is on one descriptor, or once in the backlog, or not there.
Waiting(c) == \E n \in DOMAIN backlog : backlog[n] = c
OnePlace ==
  /\ \A f, g \in Fd : conn[f] = conn[g] /\ conn[f] # None => f = g
  /\ \A m, n \in DOMAIN backlog : backlog[m] = backlog[n] => m = n
  /\ \A c \in Clients : Waiting(c) => \A f \in Fd : conn[f] # c
  /\ \A c \in Clients : phase[c] = "new" => ~Waiting(c) /\ \A f \in Fd : conn[f] # c

\* No message is read twice, and none answered that was not read.
Messages ==
  /\ \A c \in Clients : read[c] + unread[c] <= sent[c]
  /\ AnswersQueries

Stay == ~leaving => \A c \in Clients : phase[c] \notin Left

SocketsInv ==
  /\ SocketsTypeOK /\ k \in Kernels
  /\ WatchedOpen /\ OnePlace /\ Messages /\ Stay

----------------------------------------------------------------------------
(* The pubsub server.                                                        *)

Owed(f) == answers[conn[f]] < read[conn[f]]
R == Pubsub!AE_READABLE
W == Pubsub!AE_WRITABLE
Flags == SUBSET {R, W}
Loops == [mask : [Fd -> Flags], rproc : [Fd -> Procs \cup {NoProc}],
          wproc : [Fd -> Procs \cup {NoProc}],
          maxfd : -1 .. SetSize - 1, setsize : 1 .. SetSize]

PubsubTypes ==
  /\ el \in Loops /\ fired \in Seq([fd : Fd, mask : Flags])
  /\ pc \in {"setup", "top", "next", "inR", "inW", "stopped"} /\ running \in BOOLEAN

\* The listening socket is read by accept, the others are read and written by
\* the handlers of clients.
ProcsOf(l) ==
  /\ l.setsize = SetSize /\ l.mask[ListenFd] = {R} /\ l.rproc[ListenFd] = "accept"
  /\ \A f \in Fd : l.wproc[f] \in {NoProc, "send"} /\ (W \in l.mask[f] => l.wproc[f] = "send")
  /\ \A f \in Fd \ {ListenFd} :
       l.rproc[f] \in {NoProc, "read"} /\ (R \in l.mask[f] => l.rproc[f] = "read")
ProcsRight == ProcsOf(el) /\ k.watched[ListenFd] = {"in"}

\* What is watched of a client's descriptor says what its next handler does.
Stage(f) ==
  /\ conn[f] # None
  /\ \/ el.mask[f] = {R} /\ k.watched[f] = {"in"}
     \/ el.mask[f] = {W} /\ k.watched[f] = {"out"} /\ Owed(f)
Stages == \A f \in Fd \ {ListenFd} : k.watched[f] # {} => Stage(f)

\* A descriptor that was reported is watched until its handler has run.
Current == fired[1].fd
FiredWatched ==
  /\ \A m, n \in DOMAIN fired : fired[m].fd = fired[n].fd => m = n
  /\ \A n \in DOMAIN fired : k.watched[fired[n].fd] # {}
  /\ pc = "inR" => fired # <<>> /\ R \in el.mask[Current]
  /\ pc = "inW" => fired # <<>> /\ W \in el.mask[Current]

PubsubInv ==
  /\ SocketsInv /\ PubsubTypes
  /\ ProcsRight /\ Stages /\ FiredWatched /\ Pubsub!ServingAgrees

----------------------------------------------------------------------------
(* The epoll server.                                                         *)

HasIn(c) == unread[c] > 0 \/ phase[c] \in Left
Events == SUBSET {"in", "out", "err"}

SimpleTypes ==
  /\ batch \in Seq([fd : Fd, events : Events])
  /\ pc \in {"top", "next", "recv", "out", "stopped"}
  /\ recvd \in Nat /\ patient \in BOOLEAN /\ stop \in BOOLEAN

\* Every connection is watched; for writing too when it is owed an answer, or
\* when an error was taken for an answer.
Watched(f) ==
  /\ k.watched[f] # {} <=> conn[f] # None
  /\ "out" \in k.watched[f] => Owed(f) \/ phase[conn[f]] = "dead"
Watching == k.watched[ListenFd] = {"in"} /\ \A f \in Fd \ {ListenFd} : Watched(f)

\* What was reported of a descriptor is still true when event_loop comes to it.
Whole(f, e) ==
  /\ f = ListenFd => "out" \notin e
  /\ f # ListenFd => /\ conn[f] # None
                     /\ "out" \in e => "out" \in k.watched[f]
                     /\ "in" \in e => HasIn(conn[f])
BatchRight ==
  /\ \A m, n \in DOMAIN batch : batch[m].fd = batch[n].fd => m = n
  /\ \A n \in DOMAIN batch :
       (n = 1 => pc \notin {"recv", "out"}) => Whole(batch[n].fd, batch[n].events)

\* It has not been taken from the first of them yet, or recv_req has read. After
\* a closed descriptor send_resp is called all the same.
First == batch[1].fd
Receiving ==
  /\ pc \in {"recv", "out"} => batch # <<>> /\ First # ListenFd
  /\ pc = "recv" => /\ conn[First] # None /\ "in" \in batch[1].events
                    /\ "out" \in batch[1].events => "out" \in k.watched[First]
                    /\ recvd = 0 => HasIn(conn[First])
  /\ pc = "out" => (conn[First] # None => "out" \in k.watched[First])
  /\ recvd > 0 => pc = "recv" /\ Owed(First)

\* A patient client has one message under way at most.
Patience == patient => \A c \in Clients : sent[c] <= answers[c] + 1

\* recv_req does not wait (of patient clients with messages below the buffer).
ReadsOnce == patient /\ Size > 1 => recvd = 0

SimpleInv ==
  /\ SocketsInv /\ SimpleTypes
  /\ Watching /\ BatchRight /\ Receiving /\ Patience /\ ReadsOnce

----------------------------------------------------------------------------
SInv ==
  /\ server \in {"pubsub", "simple"}
  /\ server = "pubsub" => PubsubInv
  /\ server = "simple" => SimpleInv

----------------------------------------------------------------------------
(* The sockets.                                                              *)

LEMMA SocketsTypes ==
  ASSUME SocketsTypeOK
  PROVE  /\ backlog \in Seq(Clients) /\ conn \in [Fd -> Clients \cup {None}]
         /\ phase \in [Clients -> {"new", "waiting", "open", "shut", "reset", "dead"}]
         /\ sent \in [Clients -> Nat] /\ unread \in [Clients -> Nat]
         /\ read \in [Clients -> Nat] /\ answers \in [Clients -> Nat]
         /\ leaving \in BOOLEAN /\ limit \in 2 .. Cardinality(Fd)
         /\ \A c \in Clients : /\ sent[c] \in Nat /\ unread[c] \in Nat
                               /\ read[c] \in Nat /\ answers[c] \in Nat
         /\ \A f \in Fd : conn[f] # None => conn[f] \in Clients
         /\ ListenFd \in Fd
BY ServersAssumption DEF SocketsTypeOK, ListenFd

\* Whoever has done something of the kernel's, only open descriptors are
\* watched and the listening socket is open.
KernelRight(opened, closed) ==
  /\ k' \in Kernels /\ ListenFd \notin closed
  /\ k'.open = (k.open \cup opened) \ closed
  /\ \A f \in Fd : k'.watched[f] # {} => f \in k'.open

LEMMA EdgeKeeps ==
  ASSUME k \in Kernels, NEW f \in Fd, NEW lv, k' = Edge(k, f, lv)
  PROVE  k' \in Kernels /\ k'.open = k.open /\ k'.watched = k.watched
BY DEF Edge, Kernels

LEMMA TouchesKeeps ==
  ASSUME k \in Kernels, NEW c \in Clients, NEW lv, Touches(c, lv)
  PROVE  k' \in Kernels /\ k'.open = k.open /\ k'.watched = k.watched
<1>1. CASE \E f \in Fd : conn[f] = c
  <2> DEFINE g == CHOOSE f \in Fd : conn[f] = c
  <2>1. g \in Fd
    BY <1>1
  <2>2. k' = Edge(k, g, lv)
    BY <1>1 DEF Touches
  <2>3. QED BY <2>1, <2>2, EdgeKeeps
<1>2. CASE ~ \E f \in Fd : conn[f] = c
  BY <1>2 DEF Touches
<1>3. QED BY <1>1, <1>2

\* What a step of a client leaves as it was.
Going ==
  /\ k' \in Kernels /\ k'.open = k.open /\ k'.watched = k.watched
  /\ UNCHANGED <<conn, read, answers>>
  /\ \A c \in Clients : /\ HasIn(c) => HasIn(c)'
                        /\ phase[c] \in Left => phase'[c] = phase[c]

LEMMA ConnectKeeps ==
  ASSUME SocketsInv, NEW c \in Clients, Connect(c), UNCHANGED manners
  PROVE  SocketsInv' /\ Going
<1>1. /\ phase[c] = "new" /\ phase' = [phase EXCEPT ![c] = "waiting"]
      /\ backlog' = Append(backlog, c) /\ k' = Edge(k, ListenFd, {"in"})
      /\ UNCHANGED <<conn, sent, unread, read, answers, leaving, limit>>
  BY DEF Connect, manners
<1>2. SocketsTypeOK /\ k \in Kernels /\ WatchedOpen /\ OnePlace /\ Messages /\ Stay
  BY DEF SocketsInv
<1>3. k' \in Kernels /\ k'.open = k.open /\ k'.watched = k.watched
  BY <1>1, <1>2, EdgeKeeps, SocketsTypes
<1>4. SocketsTypeOK'
  BY <1>1, <1>2, SocketsTypes DEF SocketsTypeOK
<1>5. WatchedOpen' /\ Messages' /\ Stay'
  BY <1>1, <1>2, <1>3, SocketsTypes DEF WatchedOpen, Messages, AnswersQueries, Stay, Left
<1>6. OnePlace'
  <2>1. /\ Len(backlog') = Len(backlog) + 1 /\ backlog'[Len(backlog) + 1] = c
        /\ \A n \in 1 .. Len(backlog) : backlog'[n] = backlog[n]
        /\ DOMAIN backlog = 1 .. Len(backlog) /\ DOMAIN backlog' = 1 .. Len(backlog) + 1
        /\ Len(backlog) \in Nat
    BY <1>1, <1>2, SocketsTypes
  <2>2. \A m \in 1 .. Len(backlog) : backlog[m] # c
    BY <1>1, <1>2, <2>1 DEF OnePlace, Waiting
  <2>3. \A m, n \in DOMAIN backlog' : backlog'[m] = backlog'[n] => m = n
    BY <1>2, <2>1, <2>2 DEF OnePlace
  <2>4. \A d \in Clients : Waiting(d)' => Waiting(d) \/ d = c
    BY <2>1 DEF Waiting
  <2>5. \A d \in Clients : phase'[d] = "new" => phase[d] = "new" /\ d # c
    BY <1>1, <1>2, SocketsTypes
  <2>6. QED BY <1>1, <1>2, <2>3, <2>4, <2>5 DEF OnePlace
<1>7. \A d \in Clients : /\ HasIn(d) => HasIn(d)'
                         /\ phase[d] \in Left => phase'[d] = phase[d]
  BY <1>1, <1>2, SocketsTypes DEF HasIn, Left
<1>8. QED BY <1>1, <1>2, <1>3, <1>4, <1>5, <1>6, <1>7 DEF SocketsInv, Going

\* A client that is there: not new before, and not new after.
LEMMA PlacesStay ==
  ASSUME OnePlace, UNCHANGED <<backlog, conn>>,
         \A c \in Clients : phase'[c] = "new" => phase[c] = "new"
  PROVE  OnePlace'
BY DEF OnePlace, Waiting

\* Send, but for the bound on what all of them send.
Sends(c) ==
  /\ phase[c] \in {"waiting", "open"}
  /\ sent' = [sent EXCEPT ![c] = @ + 1] /\ unread' = [unread EXCEPT ![c] = @ + 1]
  /\ Touches(c, {"in", "out"})
  /\ UNCHANGED <<backlog, conn, phase, read, answers>>

LEMMA SendKeeps ==
  ASSUME SocketsInv, NEW c \in Clients, Sends(c), UNCHANGED manners
  PROVE  SocketsInv' /\ Going
<1>1. /\ sent' = [sent EXCEPT ![c] = @ + 1] /\ unread' = [unread EXCEPT ![c] = @ + 1]
      /\ Touches(c, {"in", "out"})
      /\ UNCHANGED <<backlog, conn, phase, read, answers, leaving, limit>>
  BY DEF Sends, manners
<1>2. SocketsTypeOK /\ k \in Kernels /\ WatchedOpen /\ OnePlace /\ Messages /\ Stay
  BY DEF SocketsInv
<1>3. k' \in Kernels /\ k'.open = k.open /\ k'.watched = k.watched
  BY <1>1, <1>2, TouchesKeeps
<1>4. SocketsTypeOK'
  BY <1>1, <1>2, SocketsTypes DEF SocketsTypeOK
<1>5. WatchedOpen' /\ Stay'
  BY <1>1, <1>2, <1>3 DEF WatchedOpen, Stay
<1>6. Messages'
  BY <1>1, <1>2, SocketsTypes DEF Messages, AnswersQueries
<1>7. OnePlace'
  BY <1>1, <1>2, PlacesStay
<1>8. \A d \in Clients : HasIn(d) => HasIn(d)'
  BY <1>1, <1>2, SocketsTypes DEF HasIn
<1>9. QED BY <1>1, <1>2, <1>3, <1>4, <1>5, <1>6, <1>7, <1>8 DEF SocketsInv, Going

LEMMA LeaveKeeps ==
  ASSUME SocketsInv, NEW c \in Clients, Leave(c), UNCHANGED manners
  PROVE  SocketsInv' /\ Going
<1>1. /\ leaving /\ phase[c] \in {"waiting", "open"}
      /\ UNCHANGED <<backlog, conn, sent, read, answers, leaving, limit>>
  BY DEF Leave, manners
<1>2. SocketsTypeOK /\ k \in Kernels /\ WatchedOpen /\ OnePlace /\ Messages /\ Stay
  BY DEF SocketsInv
<1>3. PICK p \in {"shut", "reset"} : phase' = [phase EXCEPT ![c] = p]
  BY DEF Leave
<1>4. k' \in Kernels /\ k'.open = k.open /\ k'.watched = k.watched
  BY <1>2, TouchesKeeps DEF Leave
<1>5. unread' = unread \/ (phase'[c] = "reset" /\ unread' = [unread EXCEPT ![c] = 0])
  BY <1>2, SocketsTypes DEF Leave
<1>6. unread' \in [Clients -> Nat] /\ \A d \in Clients : unread'[d] \in Nat /\ unread'[d] <= unread[d]
  <2>1. CASE unread' = unread
    BY <1>2, <2>1, SocketsTypes
  <2>2. CASE unread' = [unread EXCEPT ![c] = 0]
    BY <1>2, <2>2, SocketsTypes
  <2>3. QED BY <1>5, <2>1, <2>2
<1>13. SocketsTypeOK'
  BY <1>1, <1>2, <1>3, <1>6, SocketsTypes DEF SocketsTypeOK
<1>7. WatchedOpen' /\ Stay'
  BY <1>1, <1>2, <1>4 DEF WatchedOpen, Stay
<1>8. Messages'
  BY <1>1, <1>2, <1>6, SocketsTypes DEF Messages, AnswersQueries
<1>9. \A d \in Clients : phase'[d] = IF d = c THEN p ELSE phase[d]
  BY <1>2, <1>3, SocketsTypes
<1>10. OnePlace'
  BY <1>1, <1>2, <1>9, PlacesStay
<1>11. \A d \in Clients : /\ HasIn(d) => HasIn(d)'
                          /\ phase[d] \in Left => phase'[d] = phase[d]
  BY <1>1, <1>2, <1>5, <1>9, SocketsTypes DEF HasIn, Left
<1>12. QED BY <1>1, <1>2, <1>4, <1>13, <1>7, <1>8, <1>10, <1>11 DEF SocketsInv, Going

\* accept, but for the limit on descriptors.
Takes(f) ==
  /\ backlog # <<>> /\ f \notin k.open
  /\ conn' = [conn EXCEPT ![f] = Head(backlog)]
  /\ phase' = [phase EXCEPT ![Head(backlog)] = IF @ = "waiting" THEN "open" ELSE @]
  /\ backlog' = Tail(backlog)
  /\ UNCHANGED <<sent, unread, read, answers>>

\* The client goes from the backlog to a descriptor that was free.
LEMMA AcceptKeeps ==
  ASSUME SocketsInv, NEW f \in Fd, Takes(f), UNCHANGED manners, KernelRight({f}, {})
  PROVE  /\ SocketsInv'
         /\ f \notin k.open /\ f # ListenFd /\ conn[f] = None /\ k.watched[f] = {}
         /\ conn'[f] # None /\ \A g \in Fd : g # f => conn'[g] = conn[g]
         /\ UNCHANGED <<read, answers, unread, sent>>
         /\ \A c \in Clients : /\ HasIn(c) => HasIn(c)'
                               /\ phase[c] \in Left => phase'[c] = phase[c]
<1> DEFINE h == Head(backlog)
<1>1. SocketsTypeOK /\ k \in Kernels /\ WatchedOpen /\ OnePlace /\ Messages /\ Stay
  BY DEF SocketsInv
<1>2. /\ backlog # <<>> /\ f \notin k.open /\ conn' = [conn EXCEPT ![f] = h]
      /\ phase' = [phase EXCEPT ![h] = IF @ = "waiting" THEN "open" ELSE @]
      /\ backlog' = Tail(backlog)
      /\ UNCHANGED <<sent, unread, read, answers, leaving, limit>>
  BY DEF Takes, manners
<1>3. /\ h \in Clients /\ h = backlog[1] /\ Len(backlog) \in Nat \ {0}
      /\ backlog' \in Seq(Clients) /\ Len(backlog') = Len(backlog) - 1
      /\ DOMAIN backlog = 1 .. Len(backlog) /\ DOMAIN backlog' = 1 .. Len(backlog) - 1
      /\ \A n \in 1 .. Len(backlog) - 1 : backlog'[n] = backlog[n + 1]
  BY <1>1, <1>2, SocketsTypes
<1> HIDE DEF h
<1>4. f # ListenFd /\ conn[f] = None /\ k.watched[f] = {} /\ h # None
  BY <1>1, <1>2, <1>3, ServersAssumption DEF WatchedOpen
<1>5. conn'[f] = h /\ \A g \in Fd : g # f => conn'[g] = conn[g]
  BY <1>1, <1>2, SocketsTypes
<1>6. \A c \in Clients : phase'[c] = IF c = h /\ phase[c] = "waiting" THEN "open" ELSE phase[c]
  BY <1>1, <1>2, <1>3, SocketsTypes
<1>7. SocketsTypeOK'
  <2>1. phase' \in [Clients -> {"new", "waiting", "open", "shut", "reset", "dead"}]
    BY <1>1, <1>2, <1>3, SocketsTypes
  <2>2. conn' \in [Fd -> Clients \cup {None}]
    BY <1>1, <1>2, <1>3, SocketsTypes
  <2>3. QED BY <1>1, <1>2, <1>3, <2>1, <2>2, SocketsTypes DEF SocketsTypeOK
<1>8. WatchedOpen'
  BY <1>1, <1>4, <1>5, SocketsTypes DEF WatchedOpen, KernelRight
<1>9. Messages' /\ Stay'
  BY <1>1, <1>2, <1>6 DEF Messages, AnswersQueries, Stay, Left
<1>10. OnePlace'
  <2>1. \A d \in Clients : Waiting(d)' => Waiting(d) /\ d # h
    <3>1. SUFFICES ASSUME NEW d \in Clients, NEW n \in 1 .. Len(backlog) - 1, backlog'[n] = d
                   PROVE  Waiting(d) /\ d # h
      BY <1>3 DEF Waiting
    <3>2. n + 1 \in 1 .. Len(backlog) /\ backlog[n + 1] = d /\ n + 1 # 1 /\ 1 \in 1 .. Len(backlog)
      BY <1>3, <3>1
    <3>3. QED BY <1>1, <1>3, <3>2 DEF Waiting, OnePlace
  <2>2. \A m, n \in DOMAIN backlog' : backlog'[m] = backlog'[n] => m = n
    <3>1. SUFFICES ASSUME NEW m \in 1 .. Len(backlog) - 1, NEW n \in 1 .. Len(backlog) - 1,
                          backlog'[m] = backlog'[n]
                   PROVE  m = n
      BY <1>3
    <3>2. m + 1 \in DOMAIN backlog /\ n + 1 \in DOMAIN backlog /\ backlog[m + 1] = backlog[n + 1]
      BY <1>3, <3>1
    <3>3. m + 1 = n + 1
      BY <1>1, <3>2 DEF OnePlace
    <3>4. QED BY <3>3
  <2>3. Waiting(h)
    BY <1>3 DEF Waiting
  <2>4. \A g \in Fd : conn[g] # h
    BY <1>1, <1>3, <2>3 DEF OnePlace
  <2>5. phase[h] # "new"
    BY <1>1, <1>3, <2>3 DEF OnePlace
  <2>6. \A e, g \in Fd : conn'[e] = conn'[g] /\ conn'[e] # None => e = g
    BY <1>1, <1>5, <2>4 DEF OnePlace
  <2>7. \A c \in Clients : Waiting(c)' => \A g \in Fd : conn'[g] # c
    BY <1>1, <1>5, <2>1 DEF OnePlace
  <2>8. \A c \in Clients : phase'[c] = "new" => ~Waiting(c)' /\ \A g \in Fd : conn'[g] # c
    BY <1>1, <1>5, <1>6, <2>1, <2>5 DEF OnePlace
  <2>9. QED BY <2>2, <2>6, <2>7, <2>8 DEF OnePlace, Waiting
<1>11. \A c \in Clients : /\ HasIn(c) => HasIn(c)'
                          /\ phase[c] \in Left => phase'[c] = phase[c]
  BY <1>1, <1>2, <1>6 DEF HasIn, Left
<1>12. k' \in Kernels
  BY DEF KernelRight
<1>13. QED BY <1>2, <1>4, <1>5, <1>7, <1>8, <1>9, <1>10, <1>11, <1>12, <1>3 DEF SocketsInv

\* read: the messages it takes are no longer unread.
LEMMA ReadsKeeps ==
  ASSUME SocketsInv, NEW c \in Clients, NEW n \in 1 .. unread[c], Reads(c, n),
         UNCHANGED manners, KernelRight({}, {})
  PROVE  /\ SocketsInv'
         /\ UNCHANGED <<conn, phase, answers, sent>>
         /\ answers[c] < read'[c]
         /\ \A d \in Clients \ {c} : read'[d] = read[d] /\ unread'[d] = unread[d]
<1>1. /\ unread' = [unread EXCEPT ![c] = @ - n] /\ read' = [read EXCEPT ![c] = @ + n]
      /\ UNCHANGED <<backlog, conn, phase, sent, answers, leaving, limit>>
  BY DEF Reads, manners
<1>2. SocketsTypeOK /\ k \in Kernels /\ WatchedOpen /\ OnePlace /\ Messages /\ Stay
  BY DEF SocketsInv
<1>3. n \in Nat /\ n >= 1 /\ unread[c] - n \in Nat /\ read[c] + n \in Nat
  BY <1>2, SocketsTypes
<1>4. SocketsTypeOK'
  BY <1>1, <1>2, <1>3, SocketsTypes DEF SocketsTypeOK
<1>5. /\ unread'[c] = unread[c] - n /\ read'[c] = read[c] + n
      /\ \A d \in Clients \ {c} : read'[d] = read[d] /\ unread'[d] = unread[d]
  BY <1>1, <1>2, SocketsTypes
<1>6. answers[c] < read'[c]
  BY <1>2, <1>3, <1>5, SocketsTypes DEF Messages, AnswersQueries
<1>7. Messages'
  <2>1. ASSUME NEW d \in Clients
        PROVE  read'[d] + unread'[d] <= sent'[d] /\ answers'[d] <= read'[d]
    <3>1. CASE d = c
      BY <1>1, <1>2, <1>3, <1>5, <1>6, <3>1, SocketsTypes DEF Messages, AnswersQueries
    <3>2. CASE d # c
      BY <1>1, <1>2, <1>5, <3>2 DEF Messages, AnswersQueries
    <3>3. QED BY <3>1, <3>2
  <2>2. QED BY <2>1 DEF Messages, AnswersQueries
<1>8. WatchedOpen' /\ Stay' /\ k' \in Kernels
  BY <1>1, <1>2 DEF WatchedOpen, Stay, KernelRight
<1>9. OnePlace'
  BY <1>1, <1>2, PlacesStay
<1>10. QED BY <1>1, <1>4, <1>5, <1>6, <1>7, <1>8, <1>9 DEF SocketsInv

\* write, to a client whose message was read.
LEMMA WritesKeeps ==
  ASSUME SocketsInv, NEW c \in Clients, Writes(c), answers[c] < read[c],
         UNCHANGED manners, KernelRight({}, {})
  PROVE  /\ SocketsInv'
         /\ UNCHANGED <<conn, phase, read, unread, sent>>
         /\ answers'[c] = answers[c] + 1
         /\ \A d \in Clients \ {c} : answers'[d] = answers[d]
<1>1. /\ answers' = [answers EXCEPT ![c] = @ + 1]
      /\ UNCHANGED <<backlog, conn, phase, sent, unread, read, leaving, limit>>
  BY DEF Writes, manners
<1>2. SocketsTypeOK /\ k \in Kernels /\ WatchedOpen /\ OnePlace /\ Messages /\ Stay
  BY DEF SocketsInv
<1>3. SocketsTypeOK'
  BY <1>1, <1>2, SocketsTypes DEF SocketsTypeOK
<1>4. answers'[c] = answers[c] + 1 /\ \A d \in Clients \ {c} : answers'[d] = answers[d]
  BY <1>1, <1>2, SocketsTypes
<1>5. Messages'
  BY <1>1, <1>2, <1>4, SocketsTypes DEF Messages, AnswersQueries
<1>6. WatchedOpen' /\ Stay' /\ k' \in Kernels
  BY <1>1, <1>2 DEF WatchedOpen, Stay, KernelRight
<1>7. OnePlace'
  BY <1>1, <1>2, PlacesStay
<1>8. QED BY <1>1, <1>3, <1>4, <1>5, <1>6, <1>7 DEF SocketsInv

\* A call that fails because of a reset, now or earlier.
LEMMA FailsKeeps ==
  ASSUME SocketsInv, NEW c \in Clients, Fails(c), UNCHANGED manners, KernelRight({}, {})
  PROVE  /\ SocketsInv'
         /\ UNCHANGED <<conn, read, unread, answers, sent>>
         /\ \A d \in Clients : phase'[d] = IF d = c /\ phase[d] = "reset" THEN "dead" ELSE phase[d]
<1>1. /\ phase' = [phase EXCEPT ![c] = IF @ = "reset" THEN "dead" ELSE @]
      /\ UNCHANGED <<backlog, conn, sent, unread, read, answers, leaving, limit>>
  BY DEF Fails, manners
<1>2. SocketsTypeOK /\ k \in Kernels /\ WatchedOpen /\ OnePlace /\ Messages /\ Stay
  BY DEF SocketsInv
<1>3. SocketsTypeOK'
  BY <1>1, <1>2, SocketsTypes DEF SocketsTypeOK
<1>4. \A d \in Clients : phase'[d] = IF d = c /\ phase[d] = "reset" THEN "dead" ELSE phase[d]
  BY <1>1, <1>2, SocketsTypes
<1>5. WatchedOpen' /\ Messages' /\ k' \in Kernels
  BY <1>1, <1>2 DEF WatchedOpen, Messages, AnswersQueries, KernelRight
<1>6. Stay'
  BY <1>1, <1>2, <1>4 DEF Stay, Left
<1>7. OnePlace'
  BY <1>1, <1>2, <1>4, PlacesStay
<1>8. QED BY <1>1, <1>3, <1>4, <1>5, <1>6, <1>7 DEF SocketsInv

\* close of a client's descriptor.
LEMMA ForgetsKeeps ==
  ASSUME SocketsInv, NEW f \in Fd, f # ListenFd, Forgets(f),
         UNCHANGED manners, KernelRight({}, {f})
  PROVE  /\ SocketsInv'
         /\ conn'[f] = None /\ k'.watched[f] = {}
         /\ \A g \in Fd \ {f} : conn'[g] = conn[g]
         /\ UNCHANGED <<phase, read, unread, answers, sent>>
<1>1. /\ conn' = [conn EXCEPT ![f] = None]
      /\ UNCHANGED <<backlog, phase, sent, unread, read, answers, leaving, limit>>
  BY DEF Forgets, manners
<1>2. SocketsTypeOK /\ k \in Kernels /\ WatchedOpen /\ OnePlace /\ Messages /\ Stay
  BY DEF SocketsInv
<1>3. SocketsTypeOK'
  BY <1>1, <1>2, SocketsTypes DEF SocketsTypeOK
<1>4. conn'[f] = None /\ \A g \in Fd \ {f} : conn'[g] = conn[g]
  BY <1>1, <1>2, SocketsTypes
<1>5. WatchedOpen' /\ k' \in Kernels /\ k'.watched[f] = {}
  BY <1>2, <1>4, SocketsTypes DEF WatchedOpen, KernelRight
<1>6. Messages' /\ Stay'
  BY <1>1, <1>2 DEF Messages, AnswersQueries, Stay
<1>7. OnePlace'
  BY <1>1, <1>2, <1>4, ServersAssumption DEF OnePlace, Waiting
<1>8. QED BY <1>1, <1>3, <1>4, <1>5, <1>6, <1>7 DEF SocketsInv

\* Nothing but the kernel changes.
LEMMA SocketsSame ==
  ASSUME SocketsInv, UNCHANGED <<sockets, manners>>, KernelRight({}, {})
  PROVE  SocketsInv' /\ UNCHANGED <<backlog, conn, phase, sent, unread, read, answers>>
<1>1. UNCHANGED <<backlog, conn, phase, sent, unread, read, answers, leaving, limit>>
  BY DEF sockets, manners
<1>2. SocketsTypeOK'
  BY <1>1 DEF SocketsTypeOK, SocketsInv
<1>3. WatchedOpen' /\ k' \in Kernels
  BY <1>1 DEF WatchedOpen, KernelRight, SocketsInv
<1>4. OnePlace' /\ Messages' /\ Stay'
  BY <1>1 DEF SocketsInv, OnePlace, Waiting, Messages, AnswersQueries, Stay
<1>5. QED BY <1>1, <1>2, <1>3, <1>4 DEF SocketsInv

LEMMA InitSockets ==
  ASSUME SocketsInit, k \in Kernels, k.open = {ListenFd},
         \A f \in Fd : k.watched[f] # {} => f = ListenFd
  PROVE  SocketsInv
<1>1. Cardinality(Fd) = SetSize /\ SetSize \in Nat \ {0, 1}
  <2>1. 0 \in Int /\ SetSize - 1 \in Int /\ 0 <= SetSize - 1 /\ SetSize - 1 - 0 + 1 = SetSize
    BY ServersAssumption
  <2>2. Cardinality(0 .. SetSize - 1) = SetSize
    BY <2>1, FS_Interval
  <2>3. QED BY <2>2, ServersAssumption
<1>2. SocketsTypeOK
  BY <1>1 DEF SocketsInit, SocketsTypeOK
<1>3. WatchedOpen
  BY <1>2, SocketsTypes DEF SocketsInit, WatchedOpen
<1>4. OnePlace
  BY <1>2, SocketsTypes, ServersAssumption DEF SocketsInit, OnePlace, Waiting
<1>5. Messages /\ Stay
  BY DEF SocketsInit, Messages, AnswersQueries, Stay, Left
<1>6. QED BY <1>2, <1>3, <1>4, <1>5 DEF SocketsInv

----------------------------------------------------------------------------
(* The epoll server: epoll and the batch.                                    *)

LEMMA SimpleWatch ==
  ASSUME NEW e \in Kernels, NEW f \in Fd, NEW events \in SUBSET {"in", "out"}, NEW lv
  PROVE  /\ Simple!Watch(e, f, events, lv) \in Kernels
         /\ Simple!Watch(e, f, events, lv).open = e.open
         /\ Simple!Watch(e, f, events, lv).watched = [e.watched EXCEPT ![f] = events]
<1> DEFINE w == [e EXCEPT !.watched[f] = events]
<1>1. w \in Kernels /\ w.open = e.open /\ w.watched = [e.watched EXCEPT ![f] = events]
  BY DEF Kernels
<1>2. Simple!Watch(e, f, events, lv) =
        [w EXCEPT !.ready = IF Simple!Reports(w, f, lv) # {} THEN @ \cup {f} ELSE @ \ {f}]
  BY DEF Simple!Watch
<1> HIDE DEF w
<1>3. QED BY <1>1, <1>2 DEF Kernels

\* EPOLL_CTL_MOD of a descriptor that is watched.
LEMMA ModifyIs ==
  ASSUME SocketsInv, NEW f \in Fd, k.watched[f] # {}, NEW events \in SUBSET {"in", "out"},
         events # {}, NEW lv, k' = Simple!Modify(f, events, lv)
  PROVE  /\ KernelRight({}, {}) /\ k'.watched[f] = events
         /\ \A g \in Fd \ {f} : k'.watched[g] = k.watched[g]
<1>1. k \in Kernels /\ WatchedOpen /\ f \in k.open
  BY DEF SocketsInv, WatchedOpen
<1>2. k' = Simple!Watch(k, f, events, lv)
  BY <1>1 DEF Simple!Modify, Simple!CanMod
<1>3. k' \in Kernels /\ k'.open = k.open /\ k'.watched = [k.watched EXCEPT ![f] = events]
  BY <1>1, <1>2, SimpleWatch
<1>4. k'.watched[f] = events /\ \A g \in Fd \ {f} : k'.watched[g] = k.watched[g]
  BY <1>1, <1>3 DEF Kernels
<1>5. QED BY <1>1, <1>3, <1>4 DEF KernelRight, WatchedOpen

LEMMA SeqParts ==
  ASSUME NEW S, NEW s \in Seq(S), s # <<>>
  PROVE  /\ Head(s) = s[1] /\ s[1] \in S
         /\ DOMAIN s = 1 .. Len(s) /\ Len(s) \in Nat \ {0}
         /\ \A n \in DOMAIN s : s[n] \in S
OBVIOUS

LEMMA SimpleNow ==
  ASSUME SimpleTypes, batch # <<>>
  PROVE  /\ Simple!Now = batch[1] /\ Simple!Now.fd = First /\ Simple!Client = conn[First]
         /\ First \in Fd /\ batch[1].events \in Events
         /\ DOMAIN batch = 1 .. Len(batch) /\ Len(batch) \in Nat \ {0} /\ 1 \in DOMAIN batch
         /\ \A n \in DOMAIN batch : batch[n].fd \in Fd /\ batch[n].events \in Events
<1> DEFINE S == [fd : Fd, events : Events]
<1>1. batch \in Seq(S)
  BY DEF SimpleTypes
<1> HIDE DEF S
<1>2. /\ Head(batch) = batch[1] /\ batch[1] \in S
      /\ DOMAIN batch = 1 .. Len(batch) /\ Len(batch) \in Nat \ {0}
      /\ \A n \in DOMAIN batch : batch[n] \in S
  BY <1>1, SeqParts
<1> USE DEF S
<1>3. QED BY <1>2 DEF Simple!Now, Simple!Client, First

\* A step on one descriptor does not touch what is said of another.
Untouched(f) ==
  /\ conn'[f] = conn[f] /\ k'.watched[f] = k.watched[f]
  /\ \A c \in Clients :
       c = conn[f] => /\ read'[c] = read[c] /\ answers'[c] = answers[c]
                      /\ HasIn(c) => HasIn(c)'
                      /\ phase[c] = "dead" => phase'[c] = "dead"

LEMMA UntouchedStill ==
  ASSUME SocketsInv, NEW f \in Fd, f # ListenFd => Untouched(f) \/ conn[f] = None
  PROVE  /\ \A e \in Events : Whole(f, e) => Whole(f, e)'
         /\ Untouched(f) /\ Watched(f) => Watched(f)'
<1>1. SocketsTypeOK /\ \A g \in Fd : conn[g] # None => conn[g] \in Clients
  BY SocketsTypes DEF SocketsInv
<1>2. ASSUME Untouched(f), conn[f] # None
      PROVE  /\ HasIn(conn[f]) => HasIn(conn[f])'
             /\ Owed(f) => Owed(f)'
             /\ phase[conn[f]] = "dead" => phase'[conn'[f]] = "dead"
  <2>1. PICK c \in Clients : c = conn[f] /\ conn'[f] = c
    BY <1>1, <1>2 DEF Untouched
  <2>2. /\ read'[c] = read[c] /\ answers'[c] = answers[c] /\ (HasIn(c) => HasIn(c)')
        /\ phase[c] = "dead" => phase'[c] = "dead"
    BY <1>2, <2>1 DEF Untouched
  <2>3. HasIn(conn[f]) => HasIn(conn[f])'
    BY <2>1, <2>2 DEF HasIn
  <2>4. QED BY <2>1, <2>2, <2>3 DEF Owed
<1>3. Untouched(f) => conn'[f] = conn[f] /\ k'.watched[f] = k.watched[f]
  BY DEF Untouched
<1>4. ASSUME NEW e \in Events, Whole(f, e)
      PROVE  Whole(f, e)'
  BY <1>2, <1>3, <1>4 DEF Whole
<1>5. Untouched(f) /\ Watched(f) => Watched(f)'
  BY <1>2, <1>3 DEF Watched
<1>6. QED BY <1>4, <1>5

\* What is left of the batch is right when no other descriptor is touched.
LEMMA BatchKeeps ==
  ASSUME SocketsInv, SimpleTypes, BatchRight, batch # <<>>,
         \A f \in Fd \ {ListenFd} : f # First => Untouched(f) \/ conn[f] = None,
         \/ batch' = Tail(batch)
         \/ batch' = batch /\ (pc' \notin {"recv", "out"} => Whole(First, batch[1].events)')
  PROVE  BatchRight'
<1>1. /\ First \in Fd /\ DOMAIN batch = 1 .. Len(batch) /\ Len(batch) \in Nat \ {0}
      /\ 1 \in DOMAIN batch
      /\ \A n \in DOMAIN batch : batch[n].fd \in Fd /\ batch[n].events \in Events
  BY SimpleNow
<1>2. \A n \in DOMAIN batch : n # 1 => batch[n].fd # First
  BY <1>1 DEF BatchRight, First
<1>3. ASSUME NEW f \in Fd, NEW e \in Events, f # First, Whole(f, e)
      PROVE  Whole(f, e)'
  BY <1>3, UntouchedStill
<1>4. ASSUME NEW n \in DOMAIN batch, NEW f \in Fd, NEW e \in Events, n # 1,
             f = batch[n].fd, e = batch[n].events
      PROVE  Whole(f, e)'
  BY <1>2, <1>3, <1>4 DEF BatchRight
<1>5. CASE batch' = Tail(batch)
  <2>1. /\ DOMAIN batch' = 1 .. Len(batch) - 1
        /\ \A n \in 1 .. Len(batch) - 1 : n + 1 \in DOMAIN batch /\ n + 1 # 1 /\ batch'[n] = batch[n + 1]
    <3>1. batch \in Seq([fd : Fd, events : Events])
      BY DEF SimpleTypes
    <3>2. QED BY <1>1, <1>5, <3>1
  <2>2. ASSUME NEW m \in DOMAIN batch', NEW n \in DOMAIN batch', batch'[m].fd = batch'[n].fd
        PROVE  m = n
    <3>1. m + 1 = n + 1
      BY <2>1, <2>2 DEF BatchRight
    <3>2. m \in Int /\ n \in Int
      BY <1>1, <2>1
    <3>3. QED BY <3>1, <3>2
  <2>3. ASSUME NEW n \in DOMAIN batch'
        PROVE  Whole(batch[n].fd, batch[n].events)'
    <3> DEFINE f == batch[n + 1].fd
               e == batch[n + 1].events
    <3>1. n + 1 \in DOMAIN batch /\ n + 1 # 1 /\ f \in Fd /\ e \in Events
      BY <1>1, <2>1
    <3>2. batch'[n].fd = f /\ batch'[n].events = e
      BY <2>1
    <3>3. PICK g \in Fd, d \in Events : g = f /\ d = e
      BY <3>1
    <3> HIDE DEF f, e
    <3>4. Whole(g, d)'
      BY <1>4, <3>1, <3>3 DEF f, e
    <3>5. QED BY <3>2, <3>3, <3>4 DEF Whole
  <2>4. QED BY <2>2, <2>3 DEF BatchRight
<1>6. CASE batch' = batch /\ (pc' \notin {"recv", "out"} => Whole(First, batch[1].events)')
  <2>1. ASSUME NEW n \in DOMAIN batch', n = 1 => pc' \notin {"recv", "out"}
        PROVE  Whole(batch[n].fd, batch[n].events)'
    <3>1. CASE n = 1
      BY <1>6, <2>1, <3>1 DEF First
    <3>2. CASE n # 1
      <4>1. PICK g \in Fd, d \in Events : g = batch[n].fd /\ d = batch[n].events
        BY <1>1, <1>6
      <4>2. Whole(g, d)'
        BY <1>4, <1>6, <3>2, <4>1
      <4>3. QED BY <1>6, <4>1, <4>2 DEF Whole
    <3>3. QED BY <3>1, <3>2
  <2>2. \A m, n \in DOMAIN batch' : batch'[m].fd = batch'[n].fd => m = n
    BY <1>6 DEF BatchRight
  <2>3. QED BY <2>1, <2>2 DEF BatchRight
<1>7. QED BY <1>5, <1>6

----------------------------------------------------------------------------
(* The epoll server: its steps.                                              *)

SimpleRest == UNCHANGED <<manners, patient, stop>>

LEMMA SameClients ==
  ASSUME NEW c \in Clients
  PROVE  /\ Simple!Connect(c) => Connect(c)
         /\ Simple!Send(c) => Sends(c)
         /\ Simple!Leave(c) => Leave(c)
         /\ Pubsub!Connect(c) => Connect(c)
         /\ Pubsub!Send(c) => Sends(c)
         /\ Pubsub!Leave(c) => Leave(c)
<1>1. /\ \A e, f, lv : Simple!Edge(e, f, lv) = Edge(e, f, lv)
      /\ \A e, f, lv : Pubsub!Edge(e, f, lv) = Edge(e, f, lv)
  BY DEF Simple!Edge, Pubsub!Edge, Edge, Simple!Reports, Pubsub!Reports, Reports
<1>2. Simple!ListenFd = ListenFd /\ Pubsub!ListenFd = ListenFd
  BY DEF Simple!ListenFd, Pubsub!ListenFd, ListenFd
<1>3. /\ \A lv : Simple!Touches(c, lv) => Touches(c, lv)
      /\ \A lv : Pubsub!Touches(c, lv) => Touches(c, lv)
  BY <1>1 DEF Simple!Touches, Pubsub!Touches, Touches
<1>4. (Simple!Connect(c) => Connect(c)) /\ (Pubsub!Connect(c) => Connect(c))
  BY <1>1, <1>2 DEF Simple!Connect, Pubsub!Connect, Connect
<1>5. (Simple!Send(c) => Sends(c)) /\ (Pubsub!Send(c) => Sends(c))
  BY <1>3 DEF Simple!Send, Pubsub!Send, Sends
<1>6. (Simple!Leave(c) => Leave(c)) /\ (Pubsub!Leave(c) => Leave(c))
  BY <1>3 DEF Simple!Leave, Pubsub!Leave, Leave
<1>7. QED BY <1>4, <1>5, <1>6

LEMMA ClientsKeep ==
  ASSUME SocketsInv, NEW c \in Clients, Connect(c) \/ Sends(c) \/ Leave(c), UNCHANGED manners
  PROVE  SocketsInv' /\ Going
BY ConnectKeeps, SendKeeps, LeaveKeeps

LEMMA ClienteleKeeps ==
  ASSUME SimpleInv, Simple!Clientele, SimpleRest
  PROVE  SimpleInv'
<1>1. /\ SocketsInv /\ SimpleTypes /\ Watching /\ BatchRight /\ Receiving /\ Patience /\ ReadsOnce
      /\ SocketsTypeOK /\ OnePlace
  BY DEF SimpleInv, SocketsInv
<1>2. UNCHANGED <<batch, pc, recvd, patient, stop, manners>>
  BY DEF Simple!Clientele, SimpleRest
<1>3. PICK c \in Clients : \/ Simple!Connect(c)
                           \/ (patient => sent[c] = answers[c]) /\ Simple!Send(c)
                           \/ Simple!Leave(c)
  BY DEF Simple!Clientele
<1>4. Connect(c) \/ (Sends(c) /\ (patient => sent[c] = answers[c])) \/ Leave(c)
  BY <1>3, SameClients
<1>5. SocketsInv' /\ Going
  BY <1>1, <1>2, <1>4, ClientsKeep
<1>6. /\ UNCHANGED <<conn, read, answers>> /\ k'.watched = k.watched
      /\ \A d \in Clients : /\ HasIn(d) => HasIn(d)'
                            /\ phase[d] \in Left => phase'[d] = phase[d]
  BY <1>5 DEF Going
<1>7. \A f \in Fd : Untouched(f)
  BY <1>6 DEF Untouched, Left
<1>8. SimpleTypes'
  BY <1>1, <1>2 DEF SimpleTypes
<1>9. Watching'
  <2>1. \A f \in Fd \ {ListenFd} : Watched(f)'
    BY <1>1, <1>7, UntouchedStill DEF Watching
  <2>2. QED BY <1>1, <1>6, <2>1 DEF Watching
<1>10. BatchRight'
  <2>1. CASE batch = <<>>
    BY <1>2, <2>1 DEF BatchRight
  <2>2. CASE batch # <<>>
    <3>1. First \in Fd /\ batch[1].events \in Events /\ 1 \in DOMAIN batch
      BY <1>1, <2>2, SimpleNow
    <3>2. ASSUME pc' \notin {"recv", "out"}
          PROVE  Whole(First, batch[1].events)'
      <4>1. PICK f \in Fd, e \in Events : f = First /\ e = batch[1].events
        BY <3>1
      <4>2. Whole(f, e)
        BY <1>1, <1>2, <3>1, <3>2, <4>1 DEF BatchRight, First
      <4>3. Whole(f, e)'
        BY <1>1, <1>7, <4>2, UntouchedStill
      <4>4. QED BY <1>2, <4>1, <4>3 DEF Whole, First
    <3>3. QED BY <1>1, <1>2, <1>7, <2>2, <3>2, BatchKeeps
  <2>3. QED BY <2>1, <2>2
<1>11. Receiving'
  <2>1. ASSUME pc = "recv", recvd = 0
        PROVE  HasIn(conn[First])'
    <3>1. First \in Fd /\ conn[First] # None /\ HasIn(conn[First])
      BY <1>1, <2>1, SimpleNow DEF Receiving
    <3>2. PICK d \in Clients : d = conn[First]
      BY <1>1, <3>1, SocketsTypes
    <3>3. HasIn(d)'
      BY <1>6, <3>1, <3>2
    <3>4. QED BY <1>2, <1>6, <3>2, <3>3 DEF HasIn, First
  <2>2. First' = First /\ (Owed(First) => Owed(First)')
    BY <1>2, <1>6 DEF First, Owed
  <2>3. QED BY <1>1, <1>2, <1>6, <2>1, <2>2 DEF Receiving
<1>12. Patience'
  <2>1. CASE Sends(c) /\ (patient => sent[c] = answers[c])
    <3>1. ASSUME NEW d \in Clients, patient
          PROVE  sent'[d] <= answers'[d] + 1
      <4>1. sent'[d] = IF d = c THEN sent[d] + 1 ELSE sent[d]
        BY <1>1, <2>1, SocketsTypes DEF Sends
      <4>2. sent[d] \in Nat /\ answers[d] \in Nat /\ sent[d] <= answers[d] + 1
        BY <1>1, <3>1, SocketsTypes DEF Patience
      <4>3. QED BY <1>6, <2>1, <3>1, <4>1, <4>2
    <3>2. QED BY <1>2, <3>1 DEF Patience
  <2>2. CASE Connect(c) \/ Leave(c)
    <3>1. sent' = sent
      BY <2>2 DEF Connect, Leave
    <3>2. QED BY <1>1, <1>2, <1>6, <3>1 DEF Patience
  <2>3. QED BY <1>4, <2>1, <2>2
<1>13. ReadsOnce'
  BY <1>1, <1>2 DEF ReadsOnce
<1>14. QED BY <1>5, <1>8, <1>9, <1>10, <1>11, <1>12, <1>13 DEF SimpleInv

\* The server is in a client's handler, or between two: what is left to say
\* when a step has touched no descriptor but the first of the batch.
LEMMA AfterStep ==
  ASSUME SimpleInv, SocketsInv', SimpleTypes', UNCHANGED patient, batch # <<>>,
         \A f \in Fd \ {ListenFd} : f # First => Untouched(f) \/ (conn[f] = None /\ Watched(f)'),
         k'.watched[ListenFd] = k.watched[ListenFd],
         \A f \in Fd : f = First /\ f # ListenFd => Watched(f)',
         \/ batch' = Tail(batch) /\ pc' = "next" /\ recvd' = 0
         \/ /\ batch' = batch
            /\ pc' \in {"recv", "out"} /\ Receiving' /\ (pc' = "out" => recvd' = 0),
         patient => \A c \in Clients : sent'[c] <= answers'[c] + 1,
         patient /\ Size > 1 => recvd' = 0
  PROVE  SimpleInv'
<1>1. SocketsInv /\ SimpleTypes /\ Watching /\ BatchRight /\ Receiving /\ Patience
  BY DEF SimpleInv
<1>2. BatchRight'
  BY <1>1, BatchKeeps
<1>3. Watching'
  <2>1. ASSUME NEW f \in Fd \ {ListenFd}
        PROVE  Watched(f)'
    <3>1. CASE f = First
      BY <3>1
    <3>2. CASE f # First
      BY <1>1, <3>2, UntouchedStill DEF Watching
    <3>3. QED BY <3>1, <3>2
  <2>2. QED BY <1>1, <2>1 DEF Watching
<1>4. Receiving'
  BY DEF Receiving
<1>5. Patience' /\ ReadsOnce'
  BY DEF Patience, ReadsOnce
<1>6. QED BY <1>2, <1>3, <1>4, <1>5 DEF SimpleInv

\* AfterIn and SendDone leave the batch in one of two ways.
LEMMA AfterInIs ==
  ASSUME SimpleTypes, batch # <<>>, Simple!AfterIn
  PROVE  /\ recvd' = 0
         /\ \/ "out" \in batch[1].events /\ pc' = "out" /\ batch' = batch
            \/ "out" \notin batch[1].events /\ pc' = "next" /\ batch' = Tail(batch)
BY SimpleNow DEF Simple!AfterIn

LEMMA TypesAfter ==
  ASSUME SimpleTypes, batch # <<>>, batch' = batch \/ batch' = Tail(batch),
         pc' \in {"next", "recv", "out"}, recvd' \in Nat, patient' \in BOOLEAN, stop' \in BOOLEAN
  PROVE  SimpleTypes'
<1> DEFINE S == [fd : Fd, events : Events]
<1>1. batch \in Seq(S)
  BY DEF SimpleTypes
<1> HIDE DEF S
<1>2. batch' \in Seq(S)
  BY <1>1
<1>3. QED BY <1>2 DEF SimpleTypes, S

LEMMA KernelSame ==
  ASSUME SocketsInv, UNCHANGED k
  PROVE  KernelRight({}, {})
BY DEF SocketsInv, WatchedOpen, KernelRight

\* A step for the client of one descriptor touches no other descriptor.
LEMMA OthersUntouched ==
  ASSUME SocketsInv, NEW g \in Fd, NEW c, c = conn[g], c # None,
         \A f \in Fd \ {g} : conn'[f] = conn[f] /\ k'.watched[f] = k.watched[f],
         \A d \in Clients \ {c} : /\ read'[d] = read[d] /\ answers'[d] = answers[d]
                                  /\ unread'[d] = unread[d] /\ phase'[d] = phase[d]
  PROVE  \A f \in Fd : f # g => Untouched(f)
<1>1. ASSUME NEW f \in Fd, f # g, NEW d \in Clients, d = conn[f]
      PROVE  /\ read'[d] = read[d] /\ answers'[d] = answers[d]
             /\ HasIn(d) => HasIn(d)'
             /\ phase[d] = "dead" => phase'[d] = "dead"
  <2>1. d # None
    BY ServersAssumption
  <2>2. d # c
    BY <1>1, <2>1 DEF SocketsInv, OnePlace
  <2>3. QED BY <2>2 DEF HasIn
<1>2. QED BY <1>1 DEF Untouched

\* Where the server is in recv_req or in send_resp.
LEMMA InClient ==
  ASSUME SimpleInv, batch # <<>>, First # ListenFd, conn[First] # None
  PROVE  /\ First \in Fd /\ Simple!Now.fd = First /\ Simple!Now = batch[1]
         /\ Simple!Client = conn[First] /\ conn[First] \in Clients
         /\ k.watched[First] # {} /\ k.watched[ListenFd] = {"in"} /\ ListenFd \in Fd
<1>1. SimpleTypes /\ SocketsTypeOK /\ Watching
  BY DEF SimpleInv, SocketsInv
<1>2. QED BY <1>1, SimpleNow, SocketsTypes DEF Watching, Watched

LEMMA ReadKeeps ==
  ASSUME SimpleInv, Simple!Read, SimpleRest
  PROVE  SimpleInv'
<1>1. /\ SocketsInv /\ SimpleTypes /\ Receiving /\ SocketsTypeOK /\ Messages
      /\ pc = "recv" /\ batch # <<>> /\ First # ListenFd /\ conn[First] # None
      /\ UNCHANGED <<manners, patient, stop>>
  BY DEF SimpleInv, SocketsInv, Simple!Read, Receiving, SimpleRest
<1>2. /\ First \in Fd /\ Simple!Now.fd = First /\ Simple!Now = batch[1]
      /\ Simple!Client = conn[First] /\ conn[First] \in Clients
      /\ k.watched[First] # {} /\ k.watched[ListenFd] = {"in"} /\ ListenFd \in Fd
  BY <1>1, InClient
<1>3. PICK c \in Clients, g \in Fd : c = conn[First] /\ g = First
  BY <1>2
<1> DEFINE n == IF unread[c] < Size THEN unread[c] ELSE Size
<1>4. /\ unread[c] > 0 /\ Reads(c, n)
      /\ \/ /\ n < Size
            /\ k' = Simple!Modify(g, {"in", "out"}, Simple!LevelIn(unread[c] - n, phase[c]))
            /\ Simple!AfterIn
         \/ /\ ~(n < Size) /\ recvd' = recvd + n /\ UNCHANGED <<k, pc, batch>>
  BY <1>2, <1>3 DEF Simple!Read, Simple!Reads, Reads, Simple!Finished, Simple!AfterRecv
<1>5. n \in 1 .. unread[c] /\ n \in Nat /\ unread[c] \in Nat /\ Size \in Nat
  BY <1>1, <1>4, SocketsTypes, ServersAssumption
<1> HIDE DEF n
<1>6. /\ KernelRight({}, {})
      /\ \A f \in Fd \ {g} : k'.watched[f] = k.watched[f]
      /\ k'.watched[g] # {}
      /\ n < Size => k'.watched[g] = {"in", "out"}
      /\ ~(n < Size) => k' = k
  <2>1. k.watched[g] # {}
    BY <1>2, <1>3
  <2>2. CASE n < Size
    <3>1. k' = Simple!Modify(g, {"in", "out"}, Simple!LevelIn(unread[c] - n, phase[c]))
      BY <1>4, <2>2
    <3>2. /\ KernelRight({}, {}) /\ k'.watched[g] = {"in", "out"}
          /\ \A f \in Fd \ {g} : k'.watched[f] = k.watched[f]
      BY <1>1, <2>1, <3>1, ModifyIs
    <3>3. QED BY <2>2, <3>2
  <2>3. CASE ~(n < Size)
    BY <1>1, <1>4, <2>1, <2>3, KernelSame
  <2>4. QED BY <2>2, <2>3
<1>7. /\ SocketsInv' /\ UNCHANGED <<conn, phase, answers, sent>>
      /\ answers[c] < read'[c]
      /\ \A d \in Clients \ {c} : read'[d] = read[d] /\ unread'[d] = unread[d]
  BY <1>1, <1>4, <1>5, <1>6, ReadsKeeps
<1>8. \A f \in Fd \ {ListenFd} : f # First => Untouched(f)
  BY <1>1, <1>3, <1>6, <1>7, OthersUntouched
<1>9. Owed(First)' \/ batch' # batch
  BY <1>3, <1>7 DEF Owed, First
<1>10. \A f \in Fd : f = First /\ f # ListenFd => Watched(f)'
  BY <1>1, <1>3, <1>6, <1>7 DEF Watched, Owed
<1>11. k'.watched[ListenFd] = k.watched[ListenFd]
  BY <1>1, <1>2, <1>3, <1>6
<1>12. patient => \A d \in Clients : sent'[d] <= answers'[d] + 1
  BY <1>7 DEF SimpleInv, Patience
<1>13. CASE n < Size
  <2>1. /\ recvd' = 0
        /\ \/ "out" \in batch[1].events /\ pc' = "out" /\ batch' = batch
           \/ "out" \notin batch[1].events /\ pc' = "next" /\ batch' = Tail(batch)
    BY <1>1, <1>4, <1>13, AfterInIs
  <2>2. SimpleTypes'
    BY <1>1, <2>1, TypesAfter DEF SimpleTypes
  <2>3. pc' = "out" => Receiving'
    BY <1>1, <1>3, <1>6, <1>13, <2>1 DEF Receiving, First
  <2>4. QED BY <1>1, <1>7, <1>8, <1>10, <1>11, <1>12, <2>1, <2>2, <2>3, AfterStep
<1>14. CASE ~(n < Size)
  <2>1. recvd' = recvd + n /\ UNCHANGED <<k, pc, batch>> /\ recvd' > 0
    BY <1>1, <1>4, <1>5, <1>14 DEF SimpleTypes
  <2>2. SimpleTypes'
    BY <1>1, <1>5, <2>1 DEF SimpleTypes
  <2>3. Receiving'
    BY <1>1, <1>7, <1>9, <2>1 DEF Receiving, First
  <2>4. ~(patient /\ Size > 1)
    <3>1. SUFFICES ASSUME patient, Size > 1 PROVE FALSE
      OBVIOUS
    <3>2. unread[c] > 1
      BY <1>5, <1>14, <3>1
    <3>3. /\ sent[c] <= answers[c] + 1 /\ read[c] + unread[c] <= sent[c] /\ answers[c] <= read[c]
          /\ sent[c] \in Nat /\ answers[c] \in Nat /\ read[c] \in Nat
      BY <1>1, <3>1, SocketsTypes DEF SimpleInv, Patience, Messages, AnswersQueries
    <3>4. QED BY <1>5, <3>2, <3>3
  <2>5. QED BY <1>1, <1>7, <1>8, <1>10, <1>11, <1>12, <2>1, <2>2, <2>3, <2>4, AfterStep
<1>15. QED BY <1>13, <1>14

LEMMA ReadErrorKeeps ==
  ASSUME SimpleInv, Simple!ReadError, SimpleRest
  PROVE  SimpleInv'
<1>1. /\ SocketsInv /\ SimpleTypes /\ Receiving /\ SocketsTypeOK
      /\ pc = "recv" /\ batch # <<>> /\ First # ListenFd /\ conn[First] # None
      /\ UNCHANGED <<manners, patient, stop>>
  BY DEF SimpleInv, SocketsInv, Simple!ReadError, Receiving, SimpleRest
<1>2. /\ First \in Fd /\ Simple!Now.fd = First /\ Simple!Now = batch[1]
      /\ Simple!Client = conn[First] /\ conn[First] \in Clients
      /\ k.watched[First] # {} /\ k.watched[ListenFd] = {"in"} /\ ListenFd \in Fd
  BY <1>1, InClient
<1>3. PICK c \in Clients, g \in Fd : c = conn[First] /\ g = First
  BY <1>2
<1>4. /\ phase[c] = "reset" /\ Fails(c)
      /\ k' = Simple!Modify(g, {"in", "out"}, Simple!LevelIn(unread[c], "dead"))
      /\ Simple!AfterIn
  BY <1>2, <1>3 DEF Simple!ReadError, Simple!Fails, Fails, Simple!AfterRecv
<1>5. /\ KernelRight({}, {}) /\ k'.watched[g] = {"in", "out"}
      /\ \A f \in Fd \ {g} : k'.watched[f] = k.watched[f]
  <2>1. PICK lv \in {Simple!LevelIn(unread[c], "dead")}, ev \in SUBSET {"in", "out"} :
          ev = {"in", "out"} /\ k' = Simple!Modify(g, ev, lv)
    BY <1>4
  <2>2. SocketsInv /\ k.watched[g] # {} /\ ev # {}
    BY <1>1, <1>2, <1>3, <2>1
  <2>3. /\ KernelRight({}, {}) /\ k'.watched[g] = ev
        /\ \A f \in Fd \ {g} : k'.watched[f] = k.watched[f]
    BY <2>1, <2>2, ModifyIs
  <2>4. QED BY <2>1, <2>3
<1>6. /\ SocketsInv' /\ UNCHANGED <<conn, read, unread, answers, sent>>
      /\ \A d \in Clients : phase'[d] = IF d = c /\ phase[d] = "reset" THEN "dead" ELSE phase[d]
  BY <1>1, <1>4, <1>5, FailsKeeps
<1>7. \A f \in Fd \ {ListenFd} : f # First => Untouched(f)
  BY <1>1, <1>3, <1>5, <1>6, OthersUntouched
<1>8. \A f \in Fd : f = First /\ f # ListenFd => Watched(f)'
  BY <1>1, <1>3, <1>4, <1>5, <1>6 DEF Watched
<1>9. /\ recvd' = 0
      /\ \/ "out" \in batch[1].events /\ pc' = "out" /\ batch' = batch
         \/ "out" \notin batch[1].events /\ pc' = "next" /\ batch' = Tail(batch)
  BY <1>1, <1>4, AfterInIs
<1>10. SimpleTypes'
  BY <1>1, <1>9, TypesAfter DEF SimpleTypes
<1>11. pc' = "out" => Receiving'
  BY <1>1, <1>3, <1>5, <1>9 DEF Receiving, First
<1>12. k'.watched[ListenFd] = k.watched[ListenFd]
  BY <1>1, <1>2, <1>3, <1>5
<1>13. patient => \A d \in Clients : sent'[d] <= answers'[d] + 1
  BY <1>6 DEF SimpleInv, Patience
<1>14. QED BY <1>1, <1>6, <1>7, <1>8, <1>9, <1>10, <1>11, <1>12, <1>13, AfterStep

LEMMA CloseIs ==
  ASSUME SocketsInv, NEW f \in Fd, f # ListenFd, k' = Simple!Close(k, f)
  PROVE  /\ KernelRight({}, {f}) /\ k'.watched[f] = {}
         /\ \A g \in Fd \ {f} : k'.watched[g] = k.watched[g]
<1>1. k \in Kernels /\ WatchedOpen
  BY DEF SocketsInv
<1>2. /\ k' \in Kernels /\ k'.open = k.open \ {f} /\ k'.watched = [k.watched EXCEPT ![f] = {}]
  BY <1>1 DEF Simple!Close, Simple!Unwatch, Kernels
<1>3. k'.watched[f] = {} /\ \A g \in Fd \ {f} : k'.watched[g] = k.watched[g]
  BY <1>1, <1>2 DEF Kernels
<1>4. QED BY <1>1, <1>2, <1>3 DEF KernelRight, WatchedOpen

LEMMA ReadEndKeeps ==
  ASSUME SimpleInv, Simple!ReadEnd, SimpleRest
  PROVE  SimpleInv'
<1>1. /\ SocketsInv /\ SimpleTypes /\ Receiving /\ SocketsTypeOK
      /\ pc = "recv" /\ batch # <<>> /\ First # ListenFd /\ conn[First] # None
      /\ UNCHANGED <<manners, patient, stop>>
  BY DEF SimpleInv, SocketsInv, Simple!ReadEnd, Receiving, SimpleRest
<1>2. /\ First \in Fd /\ Simple!Now.fd = First /\ Simple!Now = batch[1]
      /\ Simple!Client = conn[First] /\ conn[First] \in Clients
      /\ k.watched[First] # {} /\ k.watched[ListenFd] = {"in"} /\ ListenFd \in Fd
  BY <1>1, InClient
<1>3. PICK c \in Clients, g \in Fd : c = conn[First] /\ g = First
  BY <1>2
<1>4. k' = Simple!Close(k, g) /\ Forgets(g) /\ Simple!AfterIn
  BY <1>2, <1>3 DEF Simple!ReadEnd, Simple!Forgets, Forgets
<1>5. /\ KernelRight({}, {g}) /\ k'.watched[g] = {}
      /\ \A f \in Fd \ {g} : k'.watched[f] = k.watched[f]
  BY <1>1, <1>3, <1>4, CloseIs
<1>6. /\ SocketsInv' /\ conn'[g] = None /\ \A f \in Fd \ {g} : conn'[f] = conn[f]
      /\ UNCHANGED <<phase, read, unread, answers, sent>>
  BY <1>1, <1>3, <1>4, <1>5, ForgetsKeeps
<1>7. \A f \in Fd \ {ListenFd} : f # First => Untouched(f)
  BY <1>1, <1>3, <1>5, <1>6, OthersUntouched
<1>8. \A f \in Fd : f = First /\ f # ListenFd => Watched(f)'
  BY <1>3, <1>5, <1>6 DEF Watched
<1>9. /\ recvd' = 0
      /\ \/ "out" \in batch[1].events /\ pc' = "out" /\ batch' = batch
         \/ "out" \notin batch[1].events /\ pc' = "next" /\ batch' = Tail(batch)
  BY <1>1, <1>4, AfterInIs
<1>10. SimpleTypes'
  BY <1>1, <1>9, TypesAfter DEF SimpleTypes
<1>11. pc' = "out" => Receiving'
  BY <1>1, <1>3, <1>6, <1>9 DEF Receiving, First
<1>12. k'.watched[ListenFd] = k.watched[ListenFd]
  BY <1>1, <1>2, <1>3, <1>5
<1>13. patient => \A d \in Clients : sent'[d] <= answers'[d] + 1
  BY <1>6 DEF SimpleInv, Patience
<1>14. QED BY <1>1, <1>6, <1>7, <1>8, <1>9, <1>10, <1>11, <1>12, <1>13, AfterStep

\* Where send_resp is called: after recv_req, or at once.
LEMMA InSendIs ==
  ASSUME SimpleInv, Simple!InSend, "out" \in Simple!Now.events
  PROVE  /\ batch # <<>> /\ pc # "recv" /\ recvd = 0 /\ First # ListenFd
         /\ First \in Fd /\ Simple!Now.fd = First /\ Simple!Client = conn[First]
         /\ conn[First] # None => "out" \in k.watched[First]
<1>1. SimpleTypes /\ BatchRight /\ Receiving
  BY DEF SimpleInv
<1>2. batch # <<>> /\ pc \in {"next", "out"}
  BY <1>1 DEF Simple!InSend, Receiving
<1>3. /\ First \in Fd /\ Simple!Now.fd = First /\ Simple!Client = conn[First]
      /\ 1 \in DOMAIN batch /\ "out" \in batch[1].events
  BY <1>1, <1>2, SimpleNow
<1>4. recvd = 0
  BY <1>1, <1>2 DEF Receiving, SimpleTypes
<1>5. First # ListenFd /\ (conn[First] # None => "out" \in k.watched[First])
  BY <1>1, <1>2, <1>3 DEF Receiving, BatchRight, Whole, First
<1>6. QED BY <1>2, <1>3, <1>4, <1>5

LEMMA SendRespKeeps ==
  ASSUME SimpleInv, Simple!Send_resp, SimpleRest
  PROVE  SimpleInv'
<1>1. /\ SocketsInv /\ SimpleTypes /\ Watching /\ SocketsTypeOK
      /\ UNCHANGED <<manners, patient, stop>>
  BY DEF SimpleInv, SocketsInv, SimpleRest
<1>2. /\ batch # <<>> /\ recvd = 0 /\ First # ListenFd
      /\ First \in Fd /\ Simple!Now.fd = First /\ Simple!Client = conn[First]
      /\ conn[First] # None /\ "out" \in k.watched[First]
  BY InSendIs DEF Simple!Send_resp
<1>3. PICK c \in Clients, g \in Fd : c = conn[First] /\ g = First
  BY <1>1, <1>2, SocketsTypes
<1>4. /\ phase[c] \notin {"reset", "dead"} /\ Writes(c)
      /\ k' = Simple!Modify(g, {"in"}, Simple!LevelOf(c))
      /\ pc' = "next" /\ batch' = Tail(batch) /\ recvd' = 0
  BY <1>2, <1>3 DEF Simple!Send_resp, Simple!Writes, Writes, Simple!AfterSend, Simple!SendDone
<1>5. answers[c] < read[c]
  BY <1>1, <1>2, <1>3, <1>4 DEF Watching, Watched, Owed
<1>6. /\ KernelRight({}, {}) /\ k'.watched[g] = {"in"}
      /\ \A f \in Fd \ {g} : k'.watched[f] = k.watched[f]
  <2>1. PICK lv \in {Simple!LevelOf(c)}, ev \in SUBSET {"in", "out"} :
          ev = {"in"} /\ k' = Simple!Modify(g, ev, lv)
    BY <1>4
  <2>2. SocketsInv /\ k.watched[g] # {} /\ ev # {}
    BY <1>1, <1>2, <1>3, <2>1
  <2>3. /\ KernelRight({}, {}) /\ k'.watched[g] = ev
        /\ \A f \in Fd \ {g} : k'.watched[f] = k.watched[f]
    BY <2>1, <2>2, ModifyIs
  <2>4. QED BY <2>1, <2>3
<1>7. /\ SocketsInv' /\ UNCHANGED <<conn, phase, read, unread, sent>>
      /\ answers'[c] = answers[c] + 1 /\ \A d \in Clients \ {c} : answers'[d] = answers[d]
  BY <1>1, <1>4, <1>5, <1>6, WritesKeeps
<1>8. \A f \in Fd \ {ListenFd} : f # First => Untouched(f)
  BY <1>1, <1>2, <1>3, <1>6, <1>7, OthersUntouched
<1>9. \A f \in Fd : f = First /\ f # ListenFd => Watched(f)'
  <2>1. k'.watched[g] # {} /\ "out" \notin k'.watched[g] /\ conn'[g] # None
    BY <1>2, <1>3, <1>6, <1>7
  <2>2. SUFFICES ASSUME NEW f \in Fd, f = g
                 PROVE  Watched(f)'
    BY <1>3
  <2>3. QED BY <2>1, <2>2 DEF Watched
<1>10. SimpleTypes'
  BY <1>1, <1>2, <1>4, TypesAfter DEF SimpleTypes
<1>11. k'.watched[ListenFd] = k.watched[ListenFd]
  BY <1>1, <1>2, <1>3, <1>6, SocketsTypes
<1>12. ASSUME patient, NEW d \in Clients
       PROVE  sent'[d] <= answers'[d] + 1
  <2>1. sent[d] <= answers[d] + 1 /\ sent[d] \in Nat /\ answers[d] \in Nat
    BY <1>1, <1>12, SocketsTypes DEF SimpleInv, Patience
  <2>2. answers'[d] = answers[d] \/ answers'[d] = answers[d] + 1
    BY <1>7
  <2>3. QED BY <1>7, <2>1, <2>2
<1>13. QED BY <1>1, <1>2, <1>4, <1>7, <1>8, <1>9, <1>10, <1>11, <1>12, AfterStep

LEMMA SendFailsKeeps ==
  ASSUME SimpleInv, Simple!SendFails, SimpleRest
  PROVE  SimpleInv'
<1>1. /\ SocketsInv /\ SimpleTypes /\ Watching /\ SocketsTypeOK
      /\ UNCHANGED <<manners, patient, stop, k>>
  BY DEF SimpleInv, SocketsInv, SimpleRest, Simple!SendFails
<1>2. /\ batch # <<>> /\ recvd = 0 /\ First # ListenFd
      /\ First \in Fd /\ Simple!Client = conn[First]
  BY InSendIs DEF Simple!SendFails
<1>3. pc' = "next" /\ batch' = Tail(batch) /\ recvd' = 0
  BY <1>2 DEF Simple!SendFails, Simple!SendDone
<1>4. KernelRight({}, {}) /\ k'.watched = k.watched
  BY <1>1, KernelSame
<1>5. SimpleTypes'
  BY <1>1, <1>2, <1>3, TypesAfter DEF SimpleTypes
<1>6. CASE conn[First] = None
  <2>1. UNCHANGED sockets
    BY <1>2, <1>6 DEF Simple!SendFails, Simple!sockets, sockets
  <2>2. SocketsInv' /\ UNCHANGED <<backlog, conn, phase, sent, unread, read, answers>>
    BY <1>1, <1>4, <2>1, SocketsSame
  <2>3. \A f \in Fd : Untouched(f)
    BY <1>4, <2>2 DEF Untouched, HasIn
  <2>4. \A f \in Fd : f = First /\ f # ListenFd => Watched(f)'
    BY <1>1, <1>4, <2>2 DEF Watching, Watched, Owed
  <2>5. patient => \A d \in Clients : sent'[d] <= answers'[d] + 1
    BY <2>2 DEF SimpleInv, Patience
  <2>6. QED BY <1>1, <1>2, <1>3, <1>4, <1>5, <2>2, <2>3, <2>4, <2>5, AfterStep
<1>7. CASE conn[First] # None
  <2>1. PICK c \in Clients, g \in Fd : c = conn[First] /\ g = First
    BY <1>1, <1>2, <1>7, SocketsTypes
  <2>2. Fails(c)
    BY <1>2, <1>7, <2>1 DEF Simple!SendFails, Simple!Fails, Fails
  <2>3. /\ SocketsInv' /\ UNCHANGED <<conn, read, unread, answers, sent>>
        /\ \A d \in Clients : phase'[d] = IF d = c /\ phase[d] = "reset" THEN "dead" ELSE phase[d]
    BY <1>1, <1>4, <2>2, FailsKeeps
  <2>4. \A f \in Fd \ {ListenFd} : f # First => Untouched(f)
    BY <1>1, <1>4, <1>7, <2>1, <2>3, OthersUntouched
  <2>5. \A f \in Fd : f = First /\ f # ListenFd => Watched(f)'
    BY <1>1, <1>4, <2>1, <2>3 DEF Watching, Watched, Owed
  <2>6. patient => \A d \in Clients : sent'[d] <= answers'[d] + 1
    BY <2>3 DEF SimpleInv, Patience
  <2>7. QED BY <1>1, <1>2, <1>3, <1>4, <1>5, <2>3, <2>4, <2>5, <2>6, AfterStep
<1>8. QED BY <1>6, <1>7

LEMMA RecvKeeps ==
  ASSUME SimpleInv, Simple!Recv, SimpleRest
  PROVE  SimpleInv'
<1>1. /\ SocketsInv /\ SimpleTypes /\ Watching /\ BatchRight /\ Receiving
      /\ pc = "next" /\ batch # <<>> /\ pc' = "recv"
      /\ UNCHANGED <<k, batch, recvd, patient, stop, manners>>
      /\ UNCHANGED sockets
  BY DEF SimpleInv, SimpleRest, Simple!Recv, Simple!sockets, sockets
<1>2. /\ First \in Fd /\ First # ListenFd /\ "in" \in batch[1].events /\ 1 \in DOMAIN batch
  BY <1>1, SimpleNow DEF Simple!Recv, Simple!ListenFd, ListenFd
<1>3. SocketsInv' /\ UNCHANGED <<backlog, conn, phase, sent, unread, read, answers>>
  BY <1>1, KernelSame, SocketsSame
<1>4. /\ conn[First] # None /\ HasIn(conn[First])
      /\ "out" \in batch[1].events => "out" \in k.watched[First]
  BY <1>1, <1>2 DEF BatchRight, Whole, First
<1>5. recvd = 0
  BY <1>1 DEF Receiving, SimpleTypes
<1>6. Receiving'
  BY <1>1, <1>2, <1>3, <1>4, <1>5 DEF Receiving, First, HasIn
<1>7. \A f \in Fd : Untouched(f)
  BY <1>1, <1>3 DEF Untouched, HasIn
<1>8. \A f \in Fd : f = First /\ f # ListenFd => Watched(f)'
  BY <1>1, <1>3 DEF Watching, Watched, Owed
<1>9. SimpleTypes'
  BY <1>1 DEF SimpleTypes
<1>10. patient => \A d \in Clients : sent'[d] <= answers'[d] + 1
  BY <1>3 DEF SimpleInv, Patience
<1>11. QED BY <1>1, <1>3, <1>5, <1>6, <1>7, <1>8, <1>9, <1>10, AfterStep

\* Where accept_conn is called: of the listening socket only reading is asked.
LEMMA InAcceptIs ==
  ASSUME SimpleInv, Simple!InAccept, Simple!AfterIn
  PROVE  /\ batch # <<>> /\ First = ListenFd
         /\ pc' = "next" /\ batch' = Tail(batch) /\ recvd' = 0
<1>1. SimpleTypes /\ BatchRight /\ batch # <<>> /\ pc = "next"
  BY DEF SimpleInv, Simple!InAccept
<1>2. First = ListenFd /\ 1 \in DOMAIN batch
  BY <1>1, SimpleNow DEF Simple!InAccept, Simple!ListenFd, ListenFd
<1>3. "out" \notin batch[1].events
  BY <1>1, <1>2 DEF BatchRight, Whole, First
<1>4. QED BY <1>1, <1>2, <1>3, AfterInIs

LEMMA AcceptFailsKeeps ==
  ASSUME SimpleInv, Simple!AcceptFails, SimpleRest
  PROVE  SimpleInv'
<1>1. /\ SocketsInv /\ SimpleTypes /\ Watching
      /\ UNCHANGED <<k, patient, stop, manners>> /\ UNCHANGED sockets
  BY DEF SimpleInv, SimpleRest, Simple!AcceptFails, Simple!sockets, sockets
<1>2. /\ batch # <<>> /\ First = ListenFd
      /\ pc' = "next" /\ batch' = Tail(batch) /\ recvd' = 0
  BY InAcceptIs DEF Simple!AcceptFails
<1>3. SocketsInv' /\ UNCHANGED <<backlog, conn, phase, sent, unread, read, answers>>
  BY <1>1, KernelSame, SocketsSame
<1>4. \A f \in Fd : Untouched(f)
  BY <1>1, <1>3 DEF Untouched, HasIn
<1>5. SimpleTypes'
  BY <1>1, <1>2, TypesAfter DEF SimpleTypes
<1>6. patient => \A d \in Clients : sent'[d] <= answers'[d] + 1
  BY <1>3 DEF SimpleInv, Patience
<1>7. QED BY <1>1, <1>2, <1>3, <1>4, <1>5, <1>6, AfterStep

LEMMA AcceptConnKeeps ==
  ASSUME SimpleInv, Simple!Accept, SimpleRest
  PROVE  SimpleInv'
<1>1. /\ SocketsInv /\ SimpleTypes /\ Watching /\ SocketsTypeOK /\ WatchedOpen /\ k \in Kernels
      /\ UNCHANGED <<patient, stop, manners>>
  BY DEF SimpleInv, SocketsInv, SimpleRest
<1>2. /\ batch # <<>> /\ First = ListenFd
      /\ pc' = "next" /\ batch' = Tail(batch) /\ recvd' = 0
  BY InAcceptIs DEF Simple!Accept
<1>3. PICK g \in Fd : /\ Takes(g)
                      /\ k' = Simple!Watch(Simple!Open(k, g), g, {"in"}, Simple!LevelOf(Head(backlog)))
  BY DEF Simple!Accept, Simple!Accepts, Simple!IsLowestFree, Takes
<1>4. /\ k' \in Kernels /\ k'.open = k.open \cup {g}
      /\ k'.watched = [k.watched EXCEPT ![g] = {"in"}]
  <2>1. /\ Simple!Open(k, g) \in Kernels /\ Simple!Open(k, g).open = k.open \cup {g}
        /\ Simple!Open(k, g).watched = k.watched
    BY <1>1 DEF Simple!Open, Kernels
  <2>2. PICK e \in Kernels : e = Simple!Open(k, g)
    BY <2>1
  <2>3. PICK ev \in SUBSET {"in", "out"}, lv \in {Simple!LevelOf(Head(backlog))} :
          ev = {"in"} /\ k' = Simple!Watch(e, g, ev, lv)
    BY <1>3, <2>2
  <2>4. e.open = k.open \cup {g} /\ e.watched = k.watched
    BY <2>1, <2>2
  <2>5. k' \in Kernels /\ k'.open = e.open /\ k'.watched = [e.watched EXCEPT ![g] = ev]
    BY <2>3, SimpleWatch
  <2>6. QED BY <2>3, <2>4, <2>5
<1>5. k'.watched[g] = {"in"} /\ \A f \in Fd \ {g} : k'.watched[f] = k.watched[f]
  BY <1>1, <1>4 DEF Kernels
<1>6. KernelRight({g}, {})
  BY <1>1, <1>4, <1>5 DEF KernelRight, WatchedOpen
<1>7. /\ SocketsInv' /\ g # ListenFd /\ conn[g] = None
      /\ conn'[g] # None /\ \A f \in Fd : f # g => conn'[f] = conn[f]
      /\ UNCHANGED <<read, answers, unread, sent>>
      /\ \A c \in Clients : /\ HasIn(c) => HasIn(c)'
                            /\ phase[c] \in Left => phase'[c] = phase[c]
  BY <1>1, <1>3, <1>6, AcceptKeeps
<1>8. \A f \in Fd : f # g => Untouched(f)
  BY <1>5, <1>7 DEF Untouched, Left
<1>9. Watched(g)'
  BY <1>5, <1>7 DEF Watched
<1>10. SimpleTypes'
  BY <1>1, <1>2, TypesAfter DEF SimpleTypes
<1>11. patient => \A d \in Clients : sent'[d] <= answers'[d] + 1
  BY <1>7 DEF SimpleInv, Patience
<1>12. k'.watched[ListenFd] = k.watched[ListenFd]
  BY <1>1, <1>5, <1>7, SocketsTypes
<1>13. \A f \in Fd \ {ListenFd} : f # First => Untouched(f) \/ (conn[f] = None /\ Watched(f)')
  BY <1>7, <1>8, <1>9
<1>14. QED BY <1>1, <1>2, <1>7, <1>10, <1>11, <1>12, <1>13, AfterStep

LEMMA SameOrders ==
  /\ \A S : Simple!Cardinality(S) = Cardinality(S) /\ Pubsub!Cardinality(S) = Cardinality(S)
  /\ \A S : Simple!SetToSeqs(S) = SetToSeqs(S) /\ Pubsub!SetToSeqs(S) = SetToSeqs(S)
<1>1. \A S : Simple!Cardinality(S) = Cardinality(S)
  BY DEF Simple!Cardinality, Cardinality
<1>2. \A S : Pubsub!Cardinality(S) = Cardinality(S)
  BY DEF Pubsub!Cardinality, Cardinality
<1>3. \A S : Simple!SetToSeqs(S) = SetToSeqs(S)
  BY <1>1 DEF Simple!SetToSeqs, SetToSeqs
<1>4. \A S : Pubsub!SetToSeqs(S) = SetToSeqs(S)
  BY <1>2 DEF Pubsub!SetToSeqs, SetToSeqs
<1>5. QED BY <1>1, <1>2, <1>3, <1>4

LEMMA OrderIs ==
  ASSUME NEW S \in SUBSET Fd, NEW order \in SetToSeqs(S)
  PROVE  /\ DOMAIN order = 1 .. Cardinality(S) /\ Cardinality(S) \in Nat
         /\ \A n \in DOMAIN order : order[n] \in S
         /\ \A m, n \in DOMAIN order : order[m] = order[n] => m = n
<1>1. IsFiniteSet(Fd)
  BY FS_Interval, ServersAssumption
<1>2. Cardinality(S) \in Nat
  BY <1>1, FS_Subset, FS_CardinalityType
<1>3. /\ order \in [1 .. Cardinality(S) -> S]
      /\ \A i, j \in 1 .. Cardinality(S) : i # j => order[i] # order[j]
  BY DEF SetToSeqs
<1>4. QED BY <1>2, <1>3

LEMMA IsSeq ==
  ASSUME NEW S, NEW n \in Nat, NEW s, DOMAIN s = 1 .. n, s = [i \in 1 .. n |-> s[i]],
         \A i \in 1 .. n : s[i] \in S
  PROVE  s \in Seq(S)
<1>1. s \in [1 .. n -> S]
  OBVIOUS
<1>2. QED BY <1>1

\* What epoll_wait says of a descriptor.
LEMMA ReportIs ==
  ASSUME SimpleInv, NEW f \in Fd, NEW e, e = Simple!Reports(k, f, Simple!Level(f)), e # {}
  PROVE  e \in Events /\ Whole(f, e)
<1>1. /\ k \in Kernels /\ Watching /\ SocketsTypeOK
  BY DEF SimpleInv, SocketsInv
<1>2. k.watched[f] # {} /\ e = (k.watched[f] \cup {"err"}) \cap Simple!Level(f)
  BY DEF Simple!Reports
<1>3. k.watched[f] \in SUBSET {"in", "out"}
  BY <1>1 DEF Kernels
<1>4. e \in Events /\ ("out" \in e => "out" \in k.watched[f])
  BY <1>2, <1>3 DEF Events
<1>5. CASE f = ListenFd
  BY <1>1, <1>4, <1>5 DEF Watching, Whole
<1>6. CASE f # ListenFd
  <2>1. conn[f] # None
    BY <1>1, <1>2, <1>6 DEF Watching, Watched
  <2>2. Simple!Level(f) = Simple!LevelIn(unread[conn[f]], phase[conn[f]])
    BY <1>6, <2>1 DEF Simple!Level, Simple!LevelOf, Simple!ListenFd, ListenFd
  <2>3. "in" \in Simple!Level(f) => HasIn(conn[f])
    BY <2>2 DEF Simple!LevelIn, HasIn, Left
  <2>4. QED BY <1>2, <1>4, <1>6, <2>1, <2>3 DEF Whole
<1>7. QED BY <1>5, <1>6

LEMMA PollKeeps ==
  ASSUME SimpleInv, Simple!Poll, SimpleRest
  PROVE  SimpleInv'
<1>1. /\ SocketsInv /\ SimpleTypes /\ Watching /\ Receiving /\ SocketsTypeOK /\ k \in Kernels
      /\ WatchedOpen /\ pc = "top" /\ pc' = "next" /\ recvd' = recvd /\ k' = [k EXCEPT !.ready = {}]
      /\ UNCHANGED <<patient, stop, manners>> /\ UNCHANGED sockets
  BY DEF SimpleInv, SocketsInv, SimpleRest, Simple!Poll, Simple!sockets, sockets
<1> DEFINE Report(f) == Simple!Reports(k, f, Simple!Level(f))
           D == Simple!Due
<1>2. D \in SUBSET Fd /\ \A f \in D : Report(f) # {}
  BY <1>1 DEF Simple!Due, Kernels
<1>3. PICK order \in SetToSeqs(D) :
        batch' = [n \in DOMAIN order |-> [fd |-> order[n], events |-> Report(order[n])]]
  BY SameOrders DEF Simple!Poll
<1>4. \A f \in D : Report(f) \in Events /\ Whole(f, Report(f))
  BY <1>2, ReportIs
<1> HIDE DEF Report, D
<1>5. /\ DOMAIN order = 1 .. Cardinality(D) /\ Cardinality(D) \in Nat
      /\ \A n \in DOMAIN order : order[n] \in D
      /\ \A m, n \in DOMAIN order : order[m] = order[n] => m = n
  BY <1>2, <1>3, OrderIs
<1>6. /\ k' \in Kernels /\ k'.watched = k.watched /\ KernelRight({}, {})
  BY <1>1 DEF Kernels, KernelRight, WatchedOpen
<1>7. SocketsInv' /\ UNCHANGED <<backlog, conn, phase, sent, unread, read, answers>>
  BY <1>1, <1>6, SocketsSame
<1>8. /\ DOMAIN batch' = DOMAIN order
      /\ \A n \in DOMAIN order : /\ batch'[n].fd = order[n] /\ batch'[n].events = Report(order[n])
                                 /\ batch'[n] = [fd |-> order[n], events |-> Report(order[n])]
  BY <1>3
<1>9. SimpleTypes'
  <2>1. \A n \in 1 .. Cardinality(D) : batch'[n] \in [fd : Fd, events : Events]
    BY <1>2, <1>4, <1>5, <1>8
  <2>2. batch' = [n \in 1 .. Cardinality(D) |-> batch'[n]]
    BY <1>3, <1>5
  <2>3. batch' \in Seq([fd : Fd, events : Events])
    BY <1>5, <1>8, <2>1, <2>2, IsSeq
  <2>4. QED BY <1>1, <2>3 DEF SimpleTypes
<1>10. BatchRight'
  <2>1. ASSUME NEW n \in DOMAIN batch'
        PROVE  Whole(batch[n].fd, batch[n].events)'
    <3>1. Whole(order[n], Report(order[n]))
      BY <1>4, <1>5, <1>8
    <3>2. QED BY <1>6, <1>7, <1>8, <3>1 DEF Whole, HasIn
  <2>2. \A m, n \in DOMAIN batch' : batch'[m].fd = batch'[n].fd => m = n
    BY <1>5, <1>8
  <2>3. QED BY <2>1, <2>2 DEF BatchRight
<1>11. Watching'
  BY <1>1, <1>6, <1>7 DEF Watching, Watched, Owed
<1>12. Receiving' /\ ReadsOnce'
  <2>1. recvd' = 0
    BY <1>1 DEF Receiving, SimpleTypes
  <2>2. QED BY <1>1, <2>1 DEF Receiving, ReadsOnce
<1>13. Patience'
  BY <1>1, <1>7 DEF SimpleInv, Patience
<1>14. QED BY <1>7, <1>9, <1>10, <1>11, <1>12, <1>13 DEF SimpleInv

\* The state is what it was, but for a place where the batch is not looked at.
LEMMA AtRest ==
  ASSUME SimpleInv, UNCHANGED <<k, batch, recvd, patient>>, UNCHANGED <<sockets, manners>>,
         stop' \in BOOLEAN, pc' = pc \/ {pc, pc'} \subseteq {"top", "next", "stopped"}
  PROVE  SimpleInv'
<1>1. SocketsInv /\ SimpleTypes /\ Watching /\ BatchRight /\ Receiving /\ Patience /\ ReadsOnce
  BY DEF SimpleInv
<1>2. SocketsInv' /\ UNCHANGED <<backlog, conn, phase, sent, unread, read, answers>>
  BY <1>1, KernelSame, SocketsSame
<1>3. pc' \in {"recv", "out"} \/ pc \in {"recv", "out"} => pc' = pc
  OBVIOUS
<1>4. SimpleTypes'
  BY <1>1, <1>3 DEF SimpleTypes
<1>5. Watching'
  BY <1>1, <1>2 DEF Watching, Watched, Owed
<1>6. BatchRight'
  BY <1>1, <1>2, <1>3 DEF BatchRight, Whole, HasIn
<1>7. Receiving'
  BY <1>1, <1>2, <1>3 DEF Receiving, First, HasIn, Owed
<1>8. Patience' /\ ReadsOnce'
  BY <1>1, <1>2 DEF Patience, ReadsOnce
<1>9. QED BY <1>2, <1>4, <1>5, <1>6, <1>7, <1>8 DEF SimpleInv

\* A signal ends a read that waits: only one that comes after another in the
\* same recv_req.
LEMMA SignalKeeps ==
  ASSUME SimpleInv, Simple!Signal
  PROVE  SimpleInv'
<1>1. /\ SocketsInv /\ SimpleTypes /\ Receiving /\ SocketsTypeOK
      /\ UNCHANGED <<patient, manners>> /\ UNCHANGED sockets /\ stop' = TRUE
  BY DEF SimpleInv, SocketsInv, Simple!Signal, Simple!sockets, sockets, Simple!manners, manners
<1>2. CASE UNCHANGED <<k, pc, batch, recvd>>
  BY <1>1, <1>2, AtRest
<1>3. CASE pc = "top" /\ pc' = "next" /\ UNCHANGED <<k, batch, recvd>>
  BY <1>1, <1>3, AtRest
<1>4. CASE /\ pc = "recv" /\ ~Simple!CanRead
           /\ k' = Simple!Modify(Simple!Now.fd, Simple!AfterRecv, Simple!LevelOf(Simple!Client))
           /\ Simple!AfterIn
  <2>1. batch # <<>> /\ First # ListenFd /\ conn[First] # None
    BY <1>1, <1>4 DEF Receiving
  <2>2. /\ First \in Fd /\ Simple!Now.fd = First /\ Simple!Client = conn[First]
        /\ conn[First] \in Clients /\ k.watched[First] # {} /\ k.watched[ListenFd] = {"in"}
        /\ ListenFd \in Fd
    BY <2>1, InClient
  <2>3. PICK g \in Fd, c \in Clients : g = First /\ c = conn[First]
    BY <2>2
  <2>4. ~HasIn(c)
    BY <1>4, <2>2, <2>3 DEF Simple!CanRead, HasIn, Left
  <2>5. Owed(First)
    BY <1>1, <1>4, <2>3, <2>4 DEF Receiving, SimpleTypes
  <2>6. k' = Simple!Modify(g, {"in", "out"}, Simple!LevelOf(c))
    BY <1>4, <2>2, <2>3 DEF Simple!AfterRecv
  <2>7. PICK lv \in {Simple!LevelOf(c)} : k' = Simple!Modify(g, {"in", "out"}, lv)
    BY <2>6
  <2>8. /\ KernelRight({}, {}) /\ k'.watched[g] = {"in", "out"}
        /\ \A f \in Fd \ {g} : k'.watched[f] = k.watched[f]
    BY <1>1, <2>2, <2>3, <2>7, ModifyIs
  <2>9. SocketsInv' /\ UNCHANGED <<backlog, conn, phase, sent, unread, read, answers>>
    BY <1>1, <2>8, SocketsSame
  <2>10. \A f \in Fd \ {ListenFd} : f # First => Untouched(f)
    BY <1>1, <2>1, <2>3, <2>8, <2>9, OthersUntouched
  <2>11. \A f \in Fd : f = First /\ f # ListenFd => Watched(f)'
    BY <2>1, <2>3, <2>5, <2>8, <2>9 DEF Watched, Owed
  <2>12. /\ recvd' = 0
         /\ \/ "out" \in batch[1].events /\ pc' = "out" /\ batch' = batch
            \/ "out" \notin batch[1].events /\ pc' = "next" /\ batch' = Tail(batch)
    BY <1>1, <1>4, <2>1, AfterInIs
  <2>13. SimpleTypes'
    BY <1>1, <2>1, <2>12, TypesAfter DEF SimpleTypes
  <2>14. pc' = "out" => Receiving'
    BY <2>1, <2>3, <2>8, <2>9, <2>12 DEF Receiving, First
  <2>15. k'.watched[ListenFd] = k.watched[ListenFd]
    BY <2>1, <2>2, <2>3, <2>8
  <2>16. patient => \A d \in Clients : sent'[d] <= answers'[d] + 1
    BY <2>9 DEF SimpleInv, Patience
  <2>17. QED BY <1>1, <2>1, <2>9, <2>10, <2>11, <2>12, <2>13, <2>14, <2>15, <2>16, AfterStep
<1>5. QED BY <1>2, <1>3, <1>4 DEF Simple!Signal

LEMMA SimpleKeeps ==
  ASSUME SimpleInv, Simple!Next
  PROVE  SimpleInv'
<1>1. SimpleTypes
  BY DEF SimpleInv
<1>2. CASE Simple!Server /\ UNCHANGED <<manners, patient, stop>>
  <2>1. SimpleRest
    BY <1>2 DEF SimpleRest
  <2>2. CASE Simple!Poll
    BY <2>1, <2>2, PollKeeps
  <2>3. CASE Simple!Around
    <3>1. UNCHANGED sockets
      BY <2>3 DEF Simple!Around, Simple!sockets, sockets
    <3>2. QED BY <1>1, <2>1, <2>3, <3>1, AtRest DEF Simple!Around, SimpleRest, SimpleTypes
  <2>4. CASE Simple!Accept
    BY <2>1, <2>4, AcceptConnKeeps
  <2>5. CASE Simple!AcceptFails
    BY <2>1, <2>5, AcceptFailsKeeps
  <2>6. CASE Simple!Recv
    BY <2>1, <2>6, RecvKeeps
  <2>7. CASE Simple!Read
    BY <2>1, <2>7, ReadKeeps
  <2>8. CASE Simple!ReadError
    BY <2>1, <2>8, ReadErrorKeeps
  <2>9. CASE Simple!ReadEnd
    BY <2>1, <2>9, ReadEndKeeps
  <2>10. CASE Simple!Send_resp
    BY <2>1, <2>10, SendRespKeeps
  <2>11. CASE Simple!SendFails
    BY <2>1, <2>11, SendFailsKeeps
  <2>12. QED
    BY <1>2, <2>2, <2>3, <2>4, <2>5, <2>6, <2>7, <2>8, <2>9, <2>10, <2>11 DEF Simple!Server
<1>3. CASE Simple!Clientele /\ UNCHANGED <<manners, patient, stop>>
  BY <1>3, ClienteleKeeps DEF SimpleRest
<1>4. CASE Simple!Signal
  BY <1>4, SignalKeeps
<1>5. QED BY <1>2, <1>3, <1>4 DEF Simple!Next, Simple!manners, manners

LEMMA SimpleInit ==
  ASSUME Simple!Init
  PROVE  SimpleInv
<1>1. /\ batch = <<>> /\ pc = "top" /\ recvd = 0 /\ patient \in BOOLEAN /\ stop = FALSE
      /\ k = Simple!Watch(Simple!Open(Simple!NoKernel, ListenFd), ListenFd, {"in"}, {})
  BY DEF Simple!Init, Simple!ListenFd, ListenFd
<1>2. SocketsInit
  BY SameOrders DEF Simple!Init, Simple!SocketsInit, SocketsInit
<1>3. ListenFd \in Fd
  BY ServersAssumption DEF ListenFd
<1>4. PICK e \in Kernels, ev \in SUBSET {"in", "out"}, lv \in {{}} :
        /\ e = Simple!Open(Simple!NoKernel, ListenFd) /\ ev = {"in"}
        /\ k = Simple!Watch(e, ListenFd, ev, lv)
        /\ e.open = {ListenFd} /\ e.watched = [f \in Fd |-> {}]
  <2> DEFINE d == Simple!Open(Simple!NoKernel, ListenFd)
  <2>1. d = [open |-> {ListenFd}, watched |-> [f \in Fd |-> {}], ready |-> {}]
    BY DEF Simple!Open, Simple!NoKernel
  <2>2. d \in Kernels /\ d.open = {ListenFd} /\ d.watched = [f \in Fd |-> {}]
    BY <1>3, <2>1 DEF Kernels
  <2> HIDE DEF d
  <2>3. k = Simple!Watch(d, ListenFd, {"in"}, {})
    BY <1>1 DEF d
  <2>4. QED BY <2>2, <2>3 DEF d
<1>5. /\ k \in Kernels /\ k.open = e.open /\ k.watched = [e.watched EXCEPT ![ListenFd] = ev]
  <2>1. PICK f \in Fd : f = ListenFd
    BY <1>3
  <2>2. k = Simple!Watch(e, f, ev, lv)
    BY <1>4, <2>1
  <2>3. k \in Kernels /\ k.open = e.open /\ k.watched = [e.watched EXCEPT ![f] = ev]
    BY <2>2, SimpleWatch
  <2>4. QED BY <2>1, <2>3
<1>6. k.watched[ListenFd] = {"in"} /\ \A f \in Fd \ {ListenFd} : k.watched[f] = {}
  BY <1>3, <1>4, <1>5
<1>7. SocketsInv
  BY <1>2, <1>4, <1>5, <1>6, InitSockets
<1>8. SimpleTypes
  <2>1. \A S : <<>> \in Seq(S)
    OBVIOUS
  <2>2. batch \in Seq([fd : Fd, events : Events])
    BY <1>1, <2>1
  <2>3. QED BY <1>1, <2>2 DEF SimpleTypes
<1>9. Watching
  BY <1>2, <1>6 DEF Watching, Watched, SocketsInit
<1>10. BatchRight /\ Receiving /\ ReadsOnce
  BY <1>1 DEF BatchRight, Receiving, ReadsOnce
<1>11. Patience
  BY <1>2 DEF Patience, SocketsInit
<1>12. QED BY <1>7, <1>8, <1>9, <1>10, <1>11 DEF SimpleInv

----------------------------------------------------------------------------
(* The pubsub server: the highest descriptor that is registered.             *)

\* A set of natural numbers that has members has a least one.
LEMMA LeastNumber ==
  ASSUME NEW S, S \subseteq Nat, S # {}
  PROVE  \E x \in S : \A y \in S : x <= y
<1> DEFINE Less == OpToRel(<, Nat)
<1>1. IsWellFoundedOn(Less, Nat)
  BY NatLessThanWellFounded
<1>2. \A x, y \in Nat : x < y => <<x, y>> \in Less
  BY DEF OpToRel
<1> HIDE DEF Less
<1>3. PICK x \in S : \A y \in S : <<y, x>> \notin Less
  BY <1>1, WFMin
<1>4. ASSUME NEW y \in S
      PROVE  x <= y
  <2>1. ~(y < x)
    BY <1>2, <1>3, <1>4
  <2>2. x \in Nat /\ y \in Nat
    BY <1>3, <1>4
  <2>3. QED BY <2>1, <2>2
<1>5. QED BY <1>3, <1>4

\* A set of integers below a bound that has members has a greatest one.
LEMMA Greatest ==
  ASSUME NEW S, NEW b \in Int, S \subseteq Int, S # {}, \A x \in S : x <= b
  PROVE  Max(S) \in S /\ \A y \in S : y <= Max(S)
<1> DEFINE T == {b - x : x \in S}
<1>1. T \subseteq Nat /\ T # {}
  <2>1. ASSUME NEW x \in S
        PROVE  b - x \in Nat
    <3>1. x \in Int /\ x <= b
      BY <2>1
    <3>2. QED BY <3>1
  <2>2. QED BY <2>1
<1> HIDE DEF T
<1>2. PICK t \in T : \A u \in T : t <= u
  BY <1>1, LeastNumber
<1>3. PICK x \in S : t = b - x
  BY <1>2 DEF T
<1>4. ASSUME NEW y \in S
      PROVE  x >= y
  <2>1. b - x <= b - y
    BY <1>2, <1>3, <1>4 DEF T
  <2>2. x \in Int /\ y \in Int
    BY <1>3, <1>4
  <2>3. QED BY <2>1, <2>2
<1>5. \E z \in S : \A y \in S : z >= y
  BY <1>3, <1>4
<1>6. Max(S) \in S /\ \A y \in S : Max(S) >= y
  BY <1>5 DEF Max
<1>7. QED BY <1>6

Used(mask) == {f \in Fd : mask[f] # {}}

\* What aeDeleteFileEvent searches for is the highest that is used, or -1.
LEMMA HighestIs ==
  ASSUME NEW mask
  PROVE  /\ Pubsub!HighestUsed(mask) \in -1 .. SetSize - 1
         /\ Pubsub!HighestUsed(mask) = -1 \/ Pubsub!HighestUsed(mask) \in Used(mask)
         /\ \A f \in Used(mask) : f <= Pubsub!HighestUsed(mask)
<1> DEFINE S == {-1} \cup Used(mask)
<1>1. SetSize \in Nat /\ S \subseteq -1 .. SetSize - 1 /\ S # {}
  BY ServersAssumption DEF Used
<1>2. Pubsub!HighestUsed(mask) = Max(S)
  BY DEF Pubsub!HighestUsed, Used, Pubsub!Max, Max
<1> HIDE DEF S
<1>3. Max(S) \in S /\ \A y \in S : y <= Max(S)
  <2>1. S \subseteq Int /\ SetSize - 1 \in Int /\ \A x \in S : x <= SetSize - 1
    BY <1>1
  <2>2. QED BY <1>1, <2>1, Greatest
<1>4. Max(S) \in -1 .. SetSize - 1
  BY <1>1, <1>3
<1>5. QED BY <1>2, <1>3, <1>4 DEF S

\* It is the only such number.
LEMMA HighestOnly ==
  ASSUME NEW mask, NEW h \in Int, h = -1 \/ h \in Used(mask), \A f \in Used(mask) : f <= h
  PROVE  Pubsub!HighestUsed(mask) = h
<1>1. /\ Pubsub!HighestUsed(mask) \in Int
      /\ Pubsub!HighestUsed(mask) = -1 \/ Pubsub!HighestUsed(mask) \in Used(mask)
      /\ \A f \in Used(mask) : f <= Pubsub!HighestUsed(mask)
  BY HighestIs, ServersAssumption
<1>2. \A f \in Used(mask) : f \in Nat
  BY ServersAssumption DEF Used
<1>3. QED BY <1>1, <1>2

----------------------------------------------------------------------------
(* The pubsub server: aeCreateFileEvent and aeDeleteFileEvent.               *)

LEMMA PubsubWatch ==
  ASSUME NEW e \in Kernels, NEW f \in Fd, NEW events \in SUBSET {"in", "out"}, NEW lv
  PROVE  /\ Pubsub!Watch(e, f, events, lv) \in Kernels
         /\ Pubsub!Watch(e, f, events, lv).open = e.open
         /\ Pubsub!Watch(e, f, events, lv).watched = [e.watched EXCEPT ![f] = events]
<1> DEFINE w == [e EXCEPT !.watched[f] = events]
<1>1. w \in Kernels /\ w.open = e.open /\ w.watched = [e.watched EXCEPT ![f] = events]
  BY DEF Kernels
<1>2. Pubsub!Watch(e, f, events, lv) =
        [w EXCEPT !.ready = IF Pubsub!Reports(w, f, lv) # {} THEN @ \cup {f} ELSE @ \ {f}]
  BY DEF Pubsub!Watch
<1> HIDE DEF w
<1>3. QED BY <1>1, <1>2 DEF Kernels

\* What the kernel watches for one flag.
Kind(x) == IF x = W THEN {"out"} ELSE {"in"}

\* What they give the loop and the kernel.
Created(l, e, f, x, p, s) ==
  /\ s.el \in Loops /\ s.el.setsize = SetSize
  /\ s.el.mask = [l.mask EXCEPT ![f] = {x}]
  /\ s.el.rproc = (IF x = R THEN [l.rproc EXCEPT ![f] = p] ELSE l.rproc)
  /\ s.el.wproc = (IF x = W THEN [l.wproc EXCEPT ![f] = p] ELSE l.wproc)
  /\ s.el.maxfd = (IF f > l.maxfd THEN f ELSE l.maxfd)
  /\ s.k \in Kernels /\ s.k.open = e.open
  /\ s.k.watched = [e.watched EXCEPT ![f] = Kind(x)]

Deleted(l, e, f, s) ==
  /\ s = [el |-> s.el, k |-> s.k] /\ s.el \in Loops /\ s.el.setsize = SetSize
  /\ s.el.mask = [l.mask EXCEPT ![f] = {}]
  /\ s.el.rproc = l.rproc /\ s.el.wproc = l.wproc
  /\ s.el.maxfd = (IF f = l.maxfd THEN Pubsub!HighestUsed(s.el.mask) ELSE l.maxfd)
  /\ s.k \in Kernels /\ s.k.open = e.open
  /\ s.k.watched = [e.watched EXCEPT ![f] = {}]

\* Nothing was registered of an open descriptor.
LEMMA CreateIs ==
  ASSUME NEW l \in Loops, NEW e \in Kernels, NEW f \in Fd, NEW x \in {R, W}, NEW p \in Procs,
         NEW lv, NEW s, s = Pubsub!Create([el |-> l, k |-> e], f, {x}, p, lv),
         l.setsize = SetSize, l.mask[f] = {}, f \in e.open, e.watched[f] = {}
  PROVE  Created(l, e, f, x, p, s)
<1> DEFINE st == [el |-> l, k |-> e]
<1>1. st.el = l /\ st.k = e
  OBVIOUS
<1>2. ~(f >= SetSize) /\ Pubsub!AddOp(st, f)
  BY <1>1, ServersAssumption DEF Pubsub!AddOp, Pubsub!CanAdd
<1>3. {x} \cup l.mask[f] = {x} /\ (R \in {x} <=> x = R) /\ (W \in {x} <=> x = W) /\ R # W
  BY DEF R, W, Pubsub!AE_READABLE, Pubsub!AE_WRITABLE
<1>4. s = [el |-> [l EXCEPT !.mask[f] = {x},
                            !.rproc[f] = IF x = R THEN p ELSE @,
                            !.wproc[f] = IF x = W THEN p ELSE @,
                            !.maxfd = IF f > @ THEN f ELSE @],
           k  |-> Pubsub!Watch(e, f, Pubsub!ToEpoll({x}), lv)]
  BY <1>1, <1>2, <1>3 DEF Pubsub!Create, R, W
<1>5. Pubsub!ToEpoll({x}) = Kind(x) /\ Kind(x) \in SUBSET {"in", "out"}
  BY <1>3 DEF Pubsub!ToEpoll, Kind, R, W
<1>6. /\ s.k \in Kernels /\ s.k.open = e.open
      /\ s.k.watched = [e.watched EXCEPT ![f] = Kind(x)]
  <2>1. PICK ev \in SUBSET {"in", "out"} : ev = Kind(x)
    BY <1>5
  <2>2. s.k = Pubsub!Watch(e, f, ev, lv)
    BY <1>4, <1>5, <2>1
  <2>3. s.k \in Kernels /\ s.k.open = e.open /\ s.k.watched = [e.watched EXCEPT ![f] = ev]
    BY <2>2, PubsubWatch
  <2>4. QED BY <2>1, <2>3
<1> DEFINE b == IF x = R THEN p ELSE l.rproc[f]
           c == IF x = W THEN p ELSE l.wproc[f]
           d == IF f > l.maxfd THEN f ELSE l.maxfd
<1>7. /\ {x} \in Flags /\ b \in Procs \cup {NoProc} /\ c \in Procs \cup {NoProc}
      /\ d \in -1 .. SetSize - 1
  <2>1. {x} \in Flags
    BY DEF Flags
  <2>2. b \in Procs \cup {NoProc} /\ c \in Procs \cup {NoProc}
    BY DEF Loops
  <2>3. d \in -1 .. SetSize - 1
    BY ServersAssumption DEF Loops
  <2>4. QED BY <2>1, <2>2, <2>3
<1>8. s.el = [l EXCEPT !.mask = [l.mask EXCEPT ![f] = {x}], !.rproc = [l.rproc EXCEPT ![f] = b],
                       !.wproc = [l.wproc EXCEPT ![f] = c], !.maxfd = d]
  BY <1>4
<1> HIDE DEF b, c, d
<1>9. /\ s.el \in Loops /\ s.el.setsize = l.setsize /\ s.el.maxfd = d
      /\ s.el.mask = [l.mask EXCEPT ![f] = {x}]
      /\ s.el.rproc = [l.rproc EXCEPT ![f] = b] /\ s.el.wproc = [l.wproc EXCEPT ![f] = c]
  <2> DEFINE mask == [l.mask EXCEPT ![f] = {x}]
             rproc == [l.rproc EXCEPT ![f] = b]
             wproc == [l.wproc EXCEPT ![f] = c]
  <2>1. s.el = [l EXCEPT !.mask = mask, !.rproc = rproc, !.wproc = wproc, !.maxfd = d]
    BY <1>8
  <2>2. /\ mask \in [Fd -> Flags]
        /\ rproc \in [Fd -> Procs \cup {NoProc}] /\ wproc \in [Fd -> Procs \cup {NoProc}]
    BY <1>7 DEF Loops
  <2> HIDE DEF mask, rproc, wproc
  <2>3. /\ s.el \in Loops /\ s.el.setsize = l.setsize /\ s.el.maxfd = d
        /\ s.el.mask = mask /\ s.el.rproc = rproc /\ s.el.wproc = wproc
    BY <1>7, <2>1, <2>2 DEF Loops
  <2>4. QED BY <2>3 DEF mask, rproc, wproc
<1>10. [l.rproc EXCEPT ![f] = l.rproc[f]] = l.rproc /\ [l.wproc EXCEPT ![f] = l.wproc[f]] = l.wproc
  BY DEF Loops
<1>11. /\ s.el.rproc = (IF x = R THEN [l.rproc EXCEPT ![f] = p] ELSE l.rproc)
       /\ s.el.wproc = (IF x = W THEN [l.wproc EXCEPT ![f] = p] ELSE l.wproc)
  BY <1>9, <1>10 DEF b, c
<1>12. QED BY <1>6, <1>9, <1>11 DEF d, Created

\* events[] and the kernel do not agree on the descriptor, or it is closed.
LEMMA CreateFails ==
  ASSUME NEW l, NEW e, NEW f, NEW m, NEW p, NEW lv,
         f \notin e.open \/ (l.mask[f] # {} /\ e.watched[f] = {})
  PROVE  Pubsub!Create([el |-> l, k |-> e], f, m, p, lv) = [el |-> l, k |-> e]
<1>1. ~Pubsub!AddOp([el |-> l, k |-> e], f)
  BY DEF Pubsub!AddOp, Pubsub!CanAdd, Pubsub!CanMod
<1>2. QED BY <1>1 DEF Pubsub!Create

\* The only flag of a descriptor goes.
LEMMA DeleteIs ==
  ASSUME NEW l \in Loops, NEW e \in Kernels, NEW f \in Fd, NEW x \in {R, W}, NEW lv,
         NEW s, s = Pubsub!Delete([el |-> l, k |-> e], f, {x}, lv),
         l.setsize = SetSize, l.mask[f] = {x}, e.watched[f] # {} => f \in e.open
  PROVE  Deleted(l, e, f, s)
<1> DEFINE st == [el |-> l, k |-> e]
           mask == [l.mask EXCEPT ![f] = {}]
           h == Pubsub!HighestUsed(mask)
<1>1. st.el = l /\ st.k = e /\ l.mask[f] \ {x} = {}
  OBVIOUS
<1>2. ~(f >= SetSize)
  BY ServersAssumption
<1>3. /\ s = [el |-> [l EXCEPT !.mask = mask, !.maxfd = IF f = @ THEN h ELSE @],
              k  |-> IF ~Pubsub!CanMod(e, f) THEN e ELSE Pubsub!Unwatch(e, f)]
  BY <1>1, <1>2 DEF Pubsub!Delete
<1>4. h \in -1 .. SetSize - 1
  BY HighestIs
<1> HIDE DEF h
<1>5. /\ s.k \in Kernels /\ s.k.open = e.open
      /\ s.k.watched = [e.watched EXCEPT ![f] = {}]
  <2>1. CASE Pubsub!CanMod(e, f)
    <3>1. s.k = [e EXCEPT !.watched = [@ EXCEPT ![f] = {}], !.ready = @ \ {f}]
      BY <1>3, <2>1 DEF Pubsub!Unwatch
    <3>2. [e.watched EXCEPT ![f] = {}] \in [Fd -> SUBSET {"in", "out"}]
      BY DEF Kernels
    <3>3. PICK w \in [Fd -> SUBSET {"in", "out"}] : w = [e.watched EXCEPT ![f] = {}]
      BY <3>2
    <3>4. s.k = [e EXCEPT !.watched = w, !.ready = @ \ {f}]
      BY <3>1, <3>3
    <3>5. s.k \in Kernels /\ s.k.open = e.open /\ s.k.watched = w
      BY <3>4 DEF Kernels
    <3>6. QED BY <3>3, <3>5
  <2>2. CASE ~Pubsub!CanMod(e, f)
    <3>1. e.watched[f] = {} /\ s.k = e
      BY <1>3, <2>2 DEF Pubsub!CanMod
    <3>2. QED BY <3>1 DEF Kernels
  <2>3. QED BY <2>1, <2>2
<1>6. s.el = [l EXCEPT !.mask = mask, !.maxfd = IF f = @ THEN h ELSE @]
  BY <1>3
<1>7. /\ s.el.setsize = SetSize /\ s.el.mask = mask
      /\ s.el.rproc = l.rproc /\ s.el.wproc = l.wproc
      /\ s.el.maxfd = (IF f = l.maxfd THEN h ELSE l.maxfd)
  BY <1>6 DEF Loops
<1>8. s.el \in Loops
  <2>1. mask \in [Fd -> Flags]
    BY DEF Loops, Flags
  <2>2. QED BY <1>4, <1>6, <2>1 DEF Loops
<1>9. s = [el |-> s.el, k |-> s.k]
  BY <1>3
<1>10. QED BY <1>5, <1>7, <1>8, <1>9 DEF h, Deleted


----------------------------------------------------------------------------
(* The pubsub server: what was reported.                                     *)

LEMMA PubsubNow ==
  ASSUME PubsubTypes, fired # <<>>
  PROVE  /\ Pubsub!Now = fired[1] /\ Pubsub!Now.fd = Current /\ Current \in Fd
         /\ DOMAIN fired = 1 .. Len(fired) /\ Len(fired) \in Nat \ {0} /\ 1 \in DOMAIN fired
         /\ \A n \in DOMAIN fired : fired[n].fd \in Fd
<1> DEFINE S == [fd : Fd, mask : Flags]
<1>1. fired \in Seq(S)
  BY DEF PubsubTypes
<1> HIDE DEF S
<1>2. /\ Head(fired) = fired[1] /\ fired[1] \in S
      /\ DOMAIN fired = 1 .. Len(fired) /\ Len(fired) \in Nat \ {0}
      /\ \A n \in DOMAIN fired : fired[n] \in S
  BY <1>1, SeqParts
<1> USE DEF S
<1>3. QED BY <1>2 DEF Pubsub!Now, Current

LEMMA TailParts ==
  ASSUME NEW S, NEW s \in Seq(S), s # <<>>
  PROVE  /\ Tail(s) \in Seq(S) /\ DOMAIN Tail(s) = 1 .. Len(s) - 1
         /\ \A n \in 1 .. Len(s) - 1 : n + 1 \in DOMAIN s /\ n + 1 # 1 /\ Tail(s)[n] = s[n + 1]
OBVIOUS

\* A handler that runs belongs to what is registered of the descriptor.
LEMMA InIs ==
  ASSUME PubsubInv, NEW p, Pubsub!In(p)
  PROVE  /\ pc \in {"inR", "inW"} /\ fired # <<>> /\ Current \in Fd /\ Pubsub!Now.fd = Current
         /\ k.watched[Current] # {}
         /\ p = "accept" => pc = "inR" /\ Current = ListenFd
         /\ p = "read" => /\ pc = "inR" /\ Current # ListenFd /\ conn[Current] # None
                          /\ el.mask[Current] = {R}
         /\ p = "send" => /\ pc = "inW" /\ Current # ListenFd /\ conn[Current] # None
                          /\ el.mask[Current] = {W} /\ Owed(Current)
<1>1. /\ SocketsInv /\ PubsubTypes /\ ProcsOf(el) /\ Stages /\ FiredWatched
  BY DEF PubsubInv, ProcsRight
<1>2. /\ pc = "inR" \/ pc = "inW"
      /\ pc = "inR" => fired # <<>> /\ R \in el.mask[Current]
      /\ pc = "inW" => fired # <<>> /\ W \in el.mask[Current]
  BY <1>1 DEF Pubsub!In, FiredWatched
<1>3. Pubsub!Now.fd = Current /\ Current \in Fd /\ k.watched[Current] # {}
  BY <1>1, <1>2, PubsubNow DEF FiredWatched, Current
<1>4. R # W
  BY DEF R, W, Pubsub!AE_READABLE, Pubsub!AE_WRITABLE
<1>5. NoProc \notin {"accept", "read", "send"}
  BY ServersAssumption
<1>6. CASE pc = "inR"
  <2>1. el.rproc[Current] = p
    BY <1>3, <1>6 DEF Pubsub!In
  <2>2. CASE Current = ListenFd
    BY <1>1, <1>2, <1>3, <1>6, <2>1, <2>2 DEF ProcsOf
  <2>3. CASE Current # ListenFd
    <3>1. p = "read"
      BY <1>1, <1>2, <1>3, <1>6, <2>1, <2>3 DEF ProcsOf
    <3>2. Stage(Current)
      BY <1>1, <1>3, <2>3 DEF Stages
    <3>3. QED BY <1>2, <1>3, <1>4, <1>6, <2>3, <3>1, <3>2 DEF Stage
  <2>4. QED BY <2>2, <2>3
<1>7. CASE pc = "inW"
  <2>1. el.wproc[Current] = p /\ p = "send"
    BY <1>1, <1>2, <1>3, <1>7 DEF Pubsub!In, ProcsOf
  <2>2. Current # ListenFd
    BY <1>1, <1>2, <1>4, <1>7 DEF ProcsOf
  <2>3. Stage(Current)
    BY <1>1, <1>3, <2>2 DEF Stages
  <2>4. QED BY <1>2, <1>3, <1>4, <1>7, <2>1, <2>2, <2>3 DEF Stage
<1>8. QED BY <1>2, <1>6, <1>7

----------------------------------------------------------------------------
(* The pubsub server: what its steps have in common.                         *)

PubsubRest == UNCHANGED <<manners, running>>

\* A step on one descriptor does not touch what is said of another.
Calm(f) ==
  /\ conn'[f] = conn[f] /\ el'.mask[f] = el.mask[f] /\ k'.watched[f] = k.watched[f]
  /\ \A c \in Clients : c = conn[f] => read'[c] = read[c] /\ answers'[c] = answers[c]

LEMMA CalmStill ==
  ASSUME SocketsInv, NEW f \in Fd, Calm(f), Stage(f)
  PROVE  Stage(f)'
<1>1. PICK c \in Clients : c = conn[f] /\ conn'[f] = c
  BY SocketsTypes DEF SocketsInv, Calm, Stage
<1>2. read'[c] = read[c] /\ answers'[c] = answers[c]
  BY <1>1 DEF Calm
<1>3. Owed(f) => Owed(f)'
  BY <1>1, <1>2 DEF Owed
<1>4. QED BY <1>3 DEF Calm, Stage

\* What is left of what was reported is watched still.
LEMMA FiredTail ==
  ASSUME PubsubTypes, FiredWatched, fired # <<>>, fired' = Tail(fired), pc' = "next",
         \A f \in Fd : f # Current /\ k.watched[f] # {} => k'.watched[f] # {}
  PROVE  FiredWatched' /\ fired' \in Seq([fd : Fd, mask : Flags])
<1> DEFINE S == [fd : Fd, mask : Flags]
<1>1. fired \in Seq(S)
  BY DEF PubsubTypes
<1> HIDE DEF S
<1>2. /\ fired' \in Seq(S) /\ DOMAIN fired' = 1 .. Len(fired) - 1
      /\ \A n \in 1 .. Len(fired) - 1 : n + 1 \in DOMAIN fired /\ n + 1 # 1 /\ fired'[n] = fired[n + 1]
  BY <1>1, TailParts
<1>3. /\ DOMAIN fired = 1 .. Len(fired) /\ Len(fired) \in Nat \ {0} /\ 1 \in DOMAIN fired
      /\ \A n \in DOMAIN fired : fired[n].fd \in Fd
  BY PubsubNow
<1>4. ASSUME NEW m \in DOMAIN fired', NEW n \in DOMAIN fired', fired'[m].fd = fired'[n].fd
      PROVE  m = n
  <2>1. m + 1 = n + 1
    BY <1>2, <1>4 DEF FiredWatched
  <2>2. m \in Int /\ n \in Int
    BY <1>2, <1>3
  <2>3. QED BY <2>1, <2>2
<1>5. ASSUME NEW n \in DOMAIN fired'
      PROVE  k'.watched[fired'[n].fd] # {}
  <2>1. n + 1 \in DOMAIN fired /\ n + 1 # 1 /\ fired'[n] = fired[n + 1]
    BY <1>2
  <2>2. fired[n + 1].fd # Current /\ k.watched[fired[n + 1].fd] # {}
    BY <1>3, <2>1 DEF FiredWatched, Current
  <2>3. QED BY <1>3, <2>1, <2>2
<1>6. QED BY <1>2, <1>4, <1>5 DEF FiredWatched, S

\* A handler has done its work and returns.
LEMMA AfterHandler ==
  ASSUME PubsubInv, fired # <<>>, pc \in {"inR", "inW"}, PubsubRest, Pubsub!Returns,
         SocketsInv', el' \in Loops, ProcsRight', Pubsub!ServingAgrees',
         \A f \in Fd \ {ListenFd} :
           f # Current => Calm(f) \/ (k.watched[f] = {} /\ (k'.watched[f] # {} => Stage(f)')),
         \A f \in Fd \ {ListenFd} : f = Current /\ k'.watched[f] # {} => Stage(f)',
         pc = "inR" /\ W \in el'.mask[Current] => k'.watched[Current] # {}
  PROVE  PubsubInv'
<1>1. /\ SocketsInv /\ PubsubTypes /\ ProcsRight /\ Stages /\ FiredWatched
  BY DEF PubsubInv
<1>2. /\ Current \in Fd /\ Pubsub!Now.fd = Current /\ ListenFd \in Fd
  BY <1>1, PubsubNow, SocketsTypes DEF SocketsInv
<1>3. Stages'
  <2>1. SUFFICES ASSUME NEW f \in Fd \ {ListenFd}, k'.watched[f] # {}
                 PROVE  Stage(f)'
    BY DEF Stages
  <2>2. CASE f = Current
    BY <2>1, <2>2
  <2>3. CASE f # Current /\ Calm(f)
    <3>1. k.watched[f] # {}
      BY <2>1, <2>3 DEF Calm
    <3>2. QED BY <1>1, <2>3, <3>1, CalmStill DEF Stages
  <2>4. CASE f # Current /\ ~Calm(f)
    BY <2>1, <2>4
  <2>5. QED BY <2>2, <2>3, <2>4
<1>4. \A f \in Fd : f # Current /\ k.watched[f] # {} => k'.watched[f] # {}
  BY DEF Calm, ProcsRight
<1>5. \/ /\ pc = "inR" /\ pc' = "inW" /\ fired' = fired /\ W \in el'.mask[Current]
      \/ pc' = "next" /\ fired' = Tail(fired)
  BY <1>2 DEF Pubsub!Returns, W
<1>6. CASE pc' = "next" /\ fired' = Tail(fired)
  <2>1. FiredWatched' /\ fired' \in Seq([fd : Fd, mask : Flags])
    BY <1>1, <1>4, <1>6, FiredTail
  <2>2. PubsubTypes'
    BY <1>1, <1>6, <2>1 DEF PubsubTypes, PubsubRest
  <2>3. QED BY <1>3, <2>1, <2>2 DEF PubsubInv
<1>7. CASE pc = "inR" /\ pc' = "inW" /\ fired' = fired /\ W \in el'.mask[Current]
  <2>1. \A n \in DOMAIN fired : fired[n].fd \in Fd
    BY <1>1, PubsubNow
  <2>2. \A f \in Fd : k.watched[f] # {} => k'.watched[f] # {}
    BY <1>4, <1>7
  <2>3. Current' = Current
    BY <1>7 DEF Current
  <2>4. \A n \in DOMAIN fired : k'.watched[fired[n].fd] # {}
    BY <1>1, <2>1, <2>2 DEF FiredWatched
  <2>5. FiredWatched'
    BY <1>1, <1>7, <2>3, <2>4 DEF FiredWatched
  <2>6. PubsubTypes'
    BY <1>1, <1>7 DEF PubsubTypes, PubsubRest
  <2>7. QED BY <1>3, <2>5, <2>6 DEF PubsubInv
<1>8. QED BY <1>5, <1>6, <1>7

\* No handler has run.
LEMMA AfterLoop ==
  ASSUME PubsubInv, SocketsInv', el' = el, k'.watched = k.watched,
         UNCHANGED <<conn, read, answers, leaving>>, PubsubTypes', FiredWatched'
  PROVE  PubsubInv'
<1>1. /\ SocketsInv /\ PubsubTypes /\ ProcsRight /\ Stages /\ Pubsub!ServingAgrees
  BY DEF PubsubInv
<1>2. ProcsRight'
  BY <1>1 DEF ProcsRight, ProcsOf
<1>3. Stages'
  BY <1>1 DEF Stages, Stage, Owed
<1>4. Pubsub!ServingAgrees'
  BY <1>1 DEF Pubsub!ServingAgrees, Pubsub!InterestAgrees, Pubsub!MaxfdRight
<1>5. QED BY <1>2, <1>3, <1>4 DEF PubsubInv


----------------------------------------------------------------------------
(* The pubsub server: its handlers.                                          *)

LEMMA FlagsAre ==
  /\ R # W /\ Pubsub!AE_READABLE = R /\ Pubsub!AE_WRITABLE = W
  /\ \A m \in Flags : R \notin m /\ W \notin m => m = {}
BY DEF R, W, Pubsub!AE_READABLE, Pubsub!AE_WRITABLE, Flags

LEMMA MaxfdCreate ==
  ASSUME el \in Loops, Pubsub!MaxfdRight, NEW f \in Fd, NEW x,
         el'.mask = [el.mask EXCEPT ![f] = {x}],
         el'.maxfd = (IF f > el.maxfd THEN f ELSE el.maxfd)
  PROVE  Pubsub!MaxfdRight'
<1> DEFINE h == IF f > el.maxfd THEN f ELSE el.maxfd
<1>1. /\ el.maxfd \in Int /\ f \in Int /\ Used(el'.mask) = Used(el.mask) \cup {f}
      /\ \A g \in Used(el.mask) : g \in Int
  BY ServersAssumption DEF Loops, Used
<1>2. /\ el.maxfd = -1 \/ el.maxfd \in Used(el.mask)
      /\ \A g \in Used(el.mask) : g <= el.maxfd
  BY HighestIs DEF Pubsub!MaxfdRight
<1>3. /\ h \in Int /\ (h = -1 \/ h \in Used(el'.mask)) /\ \A g \in Used(el'.mask) : g <= h
  BY <1>1, <1>2
<1> HIDE DEF h
<1>4. Pubsub!HighestUsed(el'.mask) = h
  BY <1>3, HighestOnly
<1>5. QED BY <1>4 DEF h, Pubsub!MaxfdRight

\* One descriptor has changed, and has one flag.
LEMMA ServingStill ==
  ASSUME el \in Loops, el' \in Loops, k \in Kernels, k' \in Kernels,
         Pubsub!ServingAgrees, leaving' = leaving,
         NEW f \in Fd, NEW x \in {R, W}, el'.mask[f] = {x}, k'.watched[f] = Kind(x),
         \A g \in Fd \ {f} : el'.mask[g] = el.mask[g] /\ k'.watched[g] = k.watched[g],
         Pubsub!MaxfdRight => Pubsub!MaxfdRight'
  PROVE  Pubsub!ServingAgrees'
<1>1. CASE leaving
  BY <1>1 DEF Pubsub!ServingAgrees
<1>2. CASE ~leaving
  <2>1. Pubsub!InterestAgrees'
    <3>1. ASSUME NEW g \in Fd
          PROVE  k'.watched[g] = (IF R \in el'.mask[g] THEN {"in"} ELSE {}) \cup
                                 (IF W \in el'.mask[g] THEN {"out"} ELSE {})
      <4>1. CASE g = f
        <5>1. CASE x = R
          BY <4>1, <5>1, FlagsAre DEF Kind
        <5>2. CASE x = W
          BY <4>1, <5>2, FlagsAre DEF Kind
        <5>3. QED BY <5>1, <5>2
      <4>2. CASE g # f
        BY <1>2, <4>2 DEF Pubsub!ServingAgrees, Pubsub!InterestAgrees, R, W
      <4>3. QED BY <4>1, <4>2
    <3>2. QED BY <3>1 DEF Pubsub!InterestAgrees, R, W
  <2>2. QED BY <1>2, <2>1 DEF Pubsub!ServingAgrees
<1>3. QED BY <1>1, <1>2

\* A client's descriptor has one flag now, and its handler.
Registers(f, x, p) ==
  /\ x = R => p = "read"
  /\ x = W => p = "send"
  /\ el'.setsize = SetSize /\ el'.mask = [el.mask EXCEPT ![f] = {x}]
  /\ el'.rproc = (IF x = R THEN [el.rproc EXCEPT ![f] = p] ELSE el.rproc)
  /\ el'.wproc = (IF x = W THEN [el.wproc EXCEPT ![f] = p] ELSE el.wproc)
  /\ k'.watched = [k.watched EXCEPT ![f] = Kind(x)]

LEMMA ProcsStill ==
  ASSUME el \in Loops, el' \in Loops, k \in Kernels, ProcsRight,
         NEW f \in Fd \ {ListenFd}, NEW x \in {R, W}, NEW p \in Procs, Registers(f, x, p)
  PROVE  ProcsRight'
<1>1. ListenFd \in Fd /\ k'.watched[ListenFd] = {"in"}
  BY ServersAssumption DEF ProcsRight, Kernels, ListenFd, Registers
<1>2. CASE x = R
  <2>1. /\ el'.wproc = el.wproc /\ el'.rproc[f] = "read" /\ el'.mask[f] = {R}
        /\ \A g \in Fd \ {f} : el'.rproc[g] = el.rproc[g] /\ el'.mask[g] = el.mask[g]
    BY <1>2, FlagsAre DEF Loops, Registers
  <2>2. ProcsOf(el')
    BY <1>1, <2>1, FlagsAre DEF ProcsRight, ProcsOf, Registers
  <2>3. QED BY <1>1, <2>2 DEF ProcsRight, ProcsOf
<1>3. CASE x = W
  <2>1. /\ el'.rproc = el.rproc /\ el'.wproc[f] = "send" /\ el'.mask[f] = {W}
        /\ \A g \in Fd \ {f} : el'.wproc[g] = el.wproc[g] /\ el'.mask[g] = el.mask[g]
    BY <1>3, FlagsAre DEF Loops, Registers
  <2>2. ProcsOf(el')
    BY <1>1, <2>1, FlagsAre DEF ProcsRight, ProcsOf, Registers
  <2>3. QED BY <1>1, <2>2 DEF ProcsRight, ProcsOf
<1>4. QED BY <1>2, <1>3

\* From one handler to the other.
LEMMA SwitchIs ==
  ASSUME PubsubInv, leaving' = leaving, NEW f \in Fd \ {ListenFd},
         NEW x \in {R, W}, NEW y \in {R, W}, x # y,
         NEW p \in Procs, y = R => p = "read", y = W => p = "send",
         el.mask[f] = {x}, k.watched[f] # {}, Pubsub!Switch(f, {x}, {y}, p)
  PROVE  /\ el' \in Loops /\ KernelRight({}, {}) /\ ProcsRight' /\ Pubsub!ServingAgrees'
         /\ el'.mask[f] = {y} /\ k'.watched[f] = Kind(y)
         /\ \A g \in Fd \ {f} : el'.mask[g] = el.mask[g] /\ k'.watched[g] = k.watched[g]
<1>1. /\ el \in Loops /\ k \in Kernels /\ WatchedOpen /\ ProcsRight /\ Pubsub!ServingAgrees
      /\ el.setsize = SetSize /\ f \in k.open
  BY DEF PubsubInv, PubsubTypes, SocketsInv, ProcsRight, ProcsOf, WatchedOpen
<1>2. PICK lv \in {Pubsub!Level(f)}, l1 \in Loops, e1 \in Kernels :
        /\ l1 = el /\ e1 = k
        /\ Pubsub!Becomes(Pubsub!Create(Pubsub!Delete([el |-> l1, k |-> e1], f, {x}, lv),
                                        f, {y}, p, lv))
  BY <1>1 DEF Pubsub!Switch, Pubsub!State
<1>3. PICK d : d = Pubsub!Delete([el |-> l1, k |-> e1], f, {x}, lv)
  OBVIOUS
<1>4. PICK l \in Loops, e \in Kernels :
        /\ d = [el |-> l, k |-> e] /\ l.setsize = SetSize
        /\ l.mask = [el.mask EXCEPT ![f] = {}] /\ l.rproc = el.rproc /\ l.wproc = el.wproc
        /\ l.maxfd = (IF f = el.maxfd THEN Pubsub!HighestUsed(l.mask) ELSE el.maxfd)
        /\ e.open = k.open /\ e.watched = [k.watched EXCEPT ![f] = {}]
  <2>1. f \in Fd /\ l1.setsize = SetSize /\ l1.mask[f] = {x} /\ (e1.watched[f] # {} => f \in e1.open)
    BY <1>1, <1>2
  <2>2. Deleted(l1, e1, f, d)
    BY <1>3, <2>1, DeleteIs
  <2>3. QED BY <1>2, <2>2 DEF Deleted
<1>5. l.mask[f] = {} /\ e.watched[f] = {} /\ f \in e.open
  BY <1>1, <1>4 DEF Loops, Kernels
<1>6. PICK s : s = Pubsub!Create([el |-> l, k |-> e], f, {y}, p, lv) /\ el' = s.el /\ k' = s.k
  BY <1>2, <1>3, <1>4 DEF Pubsub!Becomes
<1>7. /\ el' \in Loops /\ el'.setsize = SetSize
      /\ el'.mask = [l.mask EXCEPT ![f] = {y}]
      /\ el'.rproc = (IF y = R THEN [l.rproc EXCEPT ![f] = p] ELSE l.rproc)
      /\ el'.wproc = (IF y = W THEN [l.wproc EXCEPT ![f] = p] ELSE l.wproc)
      /\ el'.maxfd = (IF f > l.maxfd THEN f ELSE l.maxfd)
      /\ k' \in Kernels /\ k'.open = e.open
      /\ k'.watched = [e.watched EXCEPT ![f] = Kind(y)]
  <2>1. f \in Fd /\ l.setsize = SetSize
    BY <1>4
  <2>2. s = Pubsub!Create([el |-> l, k |-> e], f, {y}, p, lv)
    BY <1>6
  <2>3. Created(l, e, f, y, p, s)
    BY <1>5, <2>1, <2>2, CreateIs
  <2>4. QED BY <1>6, <2>3 DEF Created
<1>8. /\ el'.mask = [el.mask EXCEPT ![f] = {y}] /\ k'.watched = [k.watched EXCEPT ![f] = Kind(y)]
  <2>1. el.mask \in [Fd -> Flags] /\ k.watched \in [Fd -> SUBSET {"in", "out"}]
    BY <1>1 DEF Loops, Kernels
  <2>2. PICK m \in [Fd -> Flags], w \in [Fd -> SUBSET {"in", "out"}] :
          m = el.mask /\ w = k.watched
    BY <2>1
  <2>3. l.mask = [m EXCEPT ![f] = {}] /\ e.watched = [w EXCEPT ![f] = {}]
    BY <1>4, <2>2
  <2>4. /\ el'.mask = [m EXCEPT ![f] = {y}]
        /\ k'.watched = [w EXCEPT ![f] = Kind(y)]
    BY <1>7, <2>3
  <2>5. QED BY <2>2, <2>4
<1>9. /\ el'.mask[f] = {y} /\ k'.watched[f] = Kind(y)
      /\ \A g \in Fd \ {f} : el'.mask[g] = el.mask[g] /\ k'.watched[g] = k.watched[g]
  <2>1. PICK m \in [Fd -> Flags], w \in [Fd -> SUBSET {"in", "out"}] :
          m = el.mask /\ w = k.watched
    BY <1>1 DEF Loops, Kernels
  <2>2. el'.mask = [m EXCEPT ![f] = {y}] /\ k'.watched = [w EXCEPT ![f] = Kind(y)]
    BY <1>8, <2>1
  <2>3. /\ el'.mask[f] = {y} /\ k'.watched[f] = Kind(y)
        /\ \A g \in Fd \ {f} : el'.mask[g] = m[g] /\ k'.watched[g] = w[g]
    BY <2>2
  <2>4. QED BY <2>1, <2>3
<1>10. ProcsRight'
  <2>1. Registers(f, y, p)
    BY <1>4, <1>7, <1>8 DEF Registers
  <2>2. QED BY <1>1, <1>7, <2>1, ProcsStill
<1>11. KernelRight({}, {})
  BY <1>1, <1>4, <1>7, <1>9 DEF KernelRight, WatchedOpen
<1>12. Pubsub!MaxfdRight => Pubsub!MaxfdRight'
  <2>1. SUFFICES ASSUME Pubsub!MaxfdRight
                 PROVE  Pubsub!MaxfdRight'
    OBVIOUS
  <2>2. /\ el.maxfd \in Int /\ f \in Int /\ f \in Used(el.mask)
        /\ Used(l.mask) \subseteq Used(el.mask) /\ f \notin Used(l.mask)
    <3>1. el.maxfd \in Int /\ f \in Int
      BY <1>1, ServersAssumption DEF Loops
    <3>2. el.mask \in [Fd -> Flags]
      BY <1>1 DEF Loops
    <3>3. QED BY <1>4, <3>1, <3>2 DEF Used
  <2>3. \A g \in Used(el.mask) : g <= el.maxfd
    BY HighestIs, <2>1 DEF Pubsub!MaxfdRight
  <2>4. /\ Pubsub!HighestUsed(l.mask) \in -1 .. SetSize - 1
        /\ Pubsub!HighestUsed(l.mask) = -1 \/ Pubsub!HighestUsed(l.mask) \in Used(l.mask)
    BY HighestIs
  <2>5. el'.maxfd = (IF f > el.maxfd THEN f ELSE el.maxfd)
    <3>1. CASE f = el.maxfd
      <4>1. Pubsub!HighestUsed(l.mask) \in Int /\ Pubsub!HighestUsed(l.mask) < f
        BY <2>2, <2>3, <2>4, <3>1, ServersAssumption
      <4>2. QED BY <1>4, <1>7, <2>2, <3>1, <4>1
    <3>2. CASE f # el.maxfd
      BY <1>4, <1>7, <3>2
    <3>3. QED BY <3>1, <3>2
  <2>6. QED BY <1>1, <1>8, <2>1, <2>5, MaxfdCreate
<1>13. Pubsub!ServingAgrees'
  BY <1>1, <1>7, <1>9, <1>12, ServingStill
<1>14. QED BY <1>7, <1>9, <1>10, <1>11, <1>13


LEMMA PubsubParts ==
  ASSUME PubsubInv
  PROVE  /\ SocketsInv /\ SocketsTypeOK /\ OnePlace /\ WatchedOpen /\ Stay /\ k \in Kernels
         /\ PubsubTypes /\ el \in Loops /\ ProcsRight /\ ProcsOf(el) /\ el.setsize = SetSize
         /\ el.mask[ListenFd] = {R} /\ k.watched[ListenFd] = {"in"}
         /\ Stages /\ FiredWatched /\ Pubsub!ServingAgrees /\ ListenFd \in Fd
BY SocketsTypes DEF PubsubInv, SocketsInv, PubsubTypes, ProcsRight, ProcsOf

LEMMA ReadQueryKeeps ==
  ASSUME PubsubInv, Pubsub!ReadQuery, Pubsub!Returns, PubsubRest
  PROVE  PubsubInv'
<1>1. /\ SocketsInv /\ SocketsTypeOK /\ OnePlace
  BY PubsubParts
<1>2. /\ pc = "inR" /\ fired # <<>> /\ Current \in Fd /\ Current # ListenFd
      /\ Pubsub!Now.fd = Current /\ conn[Current] # None /\ el.mask[Current] = {R}
      /\ k.watched[Current] # {}
  <2>1. Pubsub!In("read")
    BY DEF Pubsub!ReadQuery
  <2>2. QED BY <2>1, InIs
<1>3. PICK f \in Fd \ {ListenFd}, c \in Clients : f = Current /\ c = conn[f]
  BY <1>1, <1>2, SocketsTypes
<1>4. /\ \E n \in 1 .. unread[c] : Reads(c, n)
      /\ Pubsub!Switch(f, {R}, {W}, "send")
  BY <1>2, <1>3 DEF Pubsub!ReadQuery, Pubsub!Reads, Reads, R, W
<1>5. UNCHANGED manners /\ leaving' = leaving
  BY DEF PubsubRest, manners
<1>6. /\ el' \in Loops /\ KernelRight({}, {}) /\ ProcsRight' /\ Pubsub!ServingAgrees'
      /\ el'.mask[f] = {W} /\ k'.watched[f] = Kind(W)
      /\ \A g \in Fd \ {f} : el'.mask[g] = el.mask[g] /\ k'.watched[g] = k.watched[g]
  <2>1. PICK x \in {R, W}, y \in {R, W}, p \in Procs : x = R /\ y = W /\ p = "send"
    BY ServersAssumption
  <2>2. /\ x # y /\ (y = R => p = "read") /\ (y = W => p = "send")
        /\ el.mask[f] = {x} /\ k.watched[f] # {} /\ Pubsub!Switch(f, {x}, {y}, p)
    BY <1>2, <1>3, <1>4, <2>1, FlagsAre
  <2>3. /\ el' \in Loops /\ KernelRight({}, {}) /\ ProcsRight' /\ Pubsub!ServingAgrees'
        /\ el'.mask[f] = {y} /\ k'.watched[f] = Kind(y)
        /\ \A g \in Fd \ {f} : el'.mask[g] = el.mask[g] /\ k'.watched[g] = k.watched[g]
    BY <1>5, <2>2, SwitchIs
  <2>4. QED BY <2>1, <2>3
<1>7. PICK n \in 1 .. unread[c] : Reads(c, n)
  BY <1>4
<1>8. /\ SocketsInv' /\ UNCHANGED <<conn, phase, answers, sent>> /\ answers[c] < read'[c]
      /\ \A d \in Clients \ {c} : read'[d] = read[d] /\ unread'[d] = unread[d]
  BY <1>1, <1>5, <1>6, <1>7, ReadsKeeps
<1>9. Stage(f)'
  BY <1>2, <1>3, <1>6, <1>8 DEF Stage, Owed, Kind
<1>10. \A g \in Fd \ {ListenFd} : g # Current => Calm(g)
  <2>1. SUFFICES ASSUME NEW g \in Fd \ {ListenFd}, g # f
                 PROVE  Calm(g)
    BY <1>3
  <2>2. \A d \in Clients : d = conn[g] => d # c
    BY <1>1, <1>2, <1>3, <2>1, ServersAssumption DEF OnePlace
  <2>3. QED BY <1>6, <1>8, <2>1, <2>2 DEF Calm
<1>11. k'.watched[Current] # {}
  BY <1>3, <1>6 DEF Kind
<1>12. \A g \in Fd \ {ListenFd} : g = Current /\ k'.watched[g] # {} => Stage(g)'
  <2>1. SUFFICES ASSUME NEW g \in Fd \ {ListenFd}, g = f
                 PROVE  Stage(g)'
    BY <1>3
  <2>2. QED BY <1>9, <2>1
<1>13. QED BY <1>2, <1>6, <1>8, <1>10, <1>11, <1>12, AfterHandler

LEMMA PubsubSendRespKeeps ==
  ASSUME PubsubInv, Pubsub!SendResp, Pubsub!Returns, PubsubRest
  PROVE  PubsubInv'
<1>1. /\ SocketsInv /\ SocketsTypeOK /\ OnePlace
  BY PubsubParts
<1>2. /\ pc = "inW" /\ fired # <<>> /\ Current \in Fd /\ Current # ListenFd
      /\ Pubsub!Now.fd = Current /\ conn[Current] # None /\ el.mask[Current] = {W}
      /\ k.watched[Current] # {} /\ Owed(Current)
  <2>1. Pubsub!In("send")
    BY DEF Pubsub!SendResp
  <2>2. QED BY <2>1, InIs
<1>3. PICK f \in Fd \ {ListenFd}, c \in Clients : f = Current /\ c = conn[f]
  BY <1>1, <1>2, SocketsTypes
<1>4. Writes(c) /\ Pubsub!Switch(f, {W}, {R}, "read") /\ answers[c] < read[c]
  BY <1>2, <1>3 DEF Pubsub!SendResp, Pubsub!Writes, Writes, R, W, Owed
<1>5. UNCHANGED manners /\ leaving' = leaving
  BY DEF PubsubRest, manners
<1>6. /\ el' \in Loops /\ KernelRight({}, {}) /\ ProcsRight' /\ Pubsub!ServingAgrees'
      /\ el'.mask[f] = {R} /\ k'.watched[f] = Kind(R)
      /\ \A g \in Fd \ {f} : el'.mask[g] = el.mask[g] /\ k'.watched[g] = k.watched[g]
  <2>1. PICK x \in {R, W}, y \in {R, W}, p \in Procs : x = W /\ y = R /\ p = "read"
    BY ServersAssumption
  <2>2. /\ x # y /\ (y = R => p = "read") /\ (y = W => p = "send")
        /\ el.mask[f] = {x} /\ k.watched[f] # {} /\ Pubsub!Switch(f, {x}, {y}, p)
    BY <1>2, <1>3, <1>4, <2>1, FlagsAre
  <2>3. /\ el' \in Loops /\ KernelRight({}, {}) /\ ProcsRight' /\ Pubsub!ServingAgrees'
        /\ el'.mask[f] = {y} /\ k'.watched[f] = Kind(y)
        /\ \A g \in Fd \ {f} : el'.mask[g] = el.mask[g] /\ k'.watched[g] = k.watched[g]
    BY <1>5, <2>2, SwitchIs
  <2>4. QED BY <2>1, <2>3
<1>8. /\ SocketsInv' /\ UNCHANGED <<conn, phase, read, unread, sent>>
      /\ \A d \in Clients \ {c} : answers'[d] = answers[d]
  BY <1>1, <1>4, <1>5, <1>6, WritesKeeps
<1>9. Stage(f)'
  BY <1>2, <1>3, <1>6, <1>8, FlagsAre DEF Stage, Kind
<1>10. \A g \in Fd \ {ListenFd} : g # Current => Calm(g)
  <2>1. SUFFICES ASSUME NEW g \in Fd \ {ListenFd}, g # f
                 PROVE  Calm(g)
    BY <1>3
  <2>2. \A d \in Clients : d = conn[g] => d # c
    BY <1>1, <1>2, <1>3, <2>1, ServersAssumption DEF OnePlace
  <2>3. QED BY <1>6, <1>8, <2>1, <2>2 DEF Calm
<1>12. \A g \in Fd \ {ListenFd} : g = Current /\ k'.watched[g] # {} => Stage(g)'
  <2>1. SUFFICES ASSUME NEW g \in Fd \ {ListenFd}, g = f
                 PROVE  Stage(g)'
    BY <1>3
  <2>2. QED BY <1>9, <2>1
<1>13. QED BY <1>2, <1>6, <1>8, <1>10, <1>12, AfterHandler

LEMMA PubsubCloses ==
  ASSUME NEW e \in Kernels, NEW f \in Fd
  PROVE  /\ Pubsub!Close(e, f) \in Kernels /\ Pubsub!Close(e, f).open = e.open \ {f}
         /\ Pubsub!Close(e, f).watched = [e.watched EXCEPT ![f] = {}]
<1> DEFINE u == Pubsub!Unwatch(e, f)
<1>1. u = [e EXCEPT !.watched = [@ EXCEPT ![f] = {}], !.ready = @ \ {f}]
  BY DEF Pubsub!Unwatch
<1>2. [e.watched EXCEPT ![f] = {}] \in [Fd -> SUBSET {"in", "out"}]
  BY DEF Kernels
<1>3. u \in Kernels /\ u.open = e.open /\ u.watched = [e.watched EXCEPT ![f] = {}]
  BY <1>1, <1>2 DEF Kernels
<1>4. Pubsub!Close(e, f) = [u EXCEPT !.open = @ \ {f}]
  BY DEF Pubsub!Close
<1> HIDE DEF u
<1>5. QED BY <1>3, <1>4 DEF Kernels

\* The connection is closed, and what is registered of it is not looked at.
LEMMA AfterClose ==
  ASSUME PubsubInv, NEW f \in Fd \ {ListenFd}, f = Current, conn[f] # None,
         phase[conn[f]] \in Left, pc \in {"inR", "inW"}, fired # <<>>,
         Forgets(f), Pubsub!Returns, PubsubRest,
         el' \in Loops, ProcsOf(el'), \A g \in Fd \ {f} : el'.mask[g] = el.mask[g],
         pc = "inR" => W \notin el'.mask[f],
         k' \in Kernels, k'.open = k.open \ {f}, k'.watched = [k.watched EXCEPT ![f] = {}]
  PROVE  PubsubInv'
<1>1. /\ SocketsInv /\ SocketsTypeOK /\ OnePlace /\ WatchedOpen /\ Stay /\ k \in Kernels
      /\ k.watched[ListenFd] = {"in"} /\ ListenFd \in Fd
  BY PubsubParts
<1>2. /\ k'.watched[f] = {} /\ \A g \in Fd \ {f} : k'.watched[g] = k.watched[g]
  BY <1>1 DEF Kernels
<1>3. KernelRight({}, {f})
  BY <1>1, <1>2 DEF KernelRight, WatchedOpen
<1>4. leaving /\ leaving' = leaving /\ UNCHANGED manners
  <2>1. conn[f] \in Clients
    BY <1>1, SocketsTypes
  <2>2. QED BY <1>1, <2>1 DEF Stay, PubsubRest, manners
<1>5. /\ SocketsInv' /\ \A g \in Fd \ {f} : conn'[g] = conn[g]
      /\ UNCHANGED <<phase, read, unread, answers, sent>>
  BY <1>1, <1>3, <1>4, ForgetsKeeps
<1>6. Pubsub!ServingAgrees'
  BY <1>4 DEF Pubsub!ServingAgrees
<1>7. ProcsRight'
  BY <1>1, <1>2 DEF ProcsRight, ProcsOf
<1>8. \A g \in Fd \ {ListenFd} : g # Current => Calm(g)
  BY <1>2, <1>5 DEF Calm
<1>9. \A g \in Fd \ {ListenFd} : g = Current /\ k'.watched[g] # {} => Stage(g)'
  <2>1. \A g \in Fd \ {ListenFd} : ~(g = Current /\ k'.watched[g] # {})
    BY <1>2
  <2>2. QED BY <2>1
<1>10. pc = "inR" /\ W \in el'.mask[Current] => k'.watched[Current] # {}
  OBVIOUS
<1>11. QED BY <1>5, <1>6, <1>7, <1>8, <1>9, <1>10, AfterHandler

LEMMA PubsubReadEndKeeps ==
  ASSUME PubsubInv, Pubsub!ReadEnd, Pubsub!Returns, PubsubRest
  PROVE  PubsubInv'
<1>1. /\ k \in Kernels /\ el \in Loops /\ ProcsOf(el)
  BY PubsubParts
<1>2. /\ pc = "inR" /\ fired # <<>> /\ Current \in Fd /\ Current # ListenFd
      /\ Pubsub!Now.fd = Current /\ conn[Current] # None /\ el.mask[Current] = {R}
  <2>1. Pubsub!In("read")
    BY DEF Pubsub!ReadEnd
  <2>2. QED BY <2>1, InIs
<1>3. PICK f \in Fd \ {ListenFd} : f = Current
  BY <1>2
<1>4. phase[conn[f]] \in Left
  BY <1>2, <1>3 DEF Pubsub!ReadEnd, Left
<1>5. Forgets(f) /\ k' = Pubsub!Close(k, f) /\ el' = el
  BY <1>2, <1>3 DEF Pubsub!ReadEnd, Pubsub!CloseConn, Pubsub!Forgets, Forgets
<1>6. k' \in Kernels /\ k'.open = k.open \ {f} /\ k'.watched = [k.watched EXCEPT ![f] = {}]
  BY <1>1, <1>5, PubsubCloses
<1>7. el' \in Loops /\ ProcsOf(el')
  BY <1>1, <1>5 DEF ProcsOf
<1>8. QED BY <1>2, <1>3, <1>4, <1>5, <1>6, <1>7, FlagsAre, AfterClose

LEMMA PubsubSendFailsKeeps ==
  ASSUME PubsubInv, Pubsub!SendFails, Pubsub!Returns, PubsubRest
  PROVE  PubsubInv'
<1>1. /\ k \in Kernels /\ el \in Loops /\ ProcsOf(el) /\ el.setsize = SetSize
  BY PubsubParts
<1>2. /\ pc = "inW" /\ fired # <<>> /\ Current \in Fd /\ Current # ListenFd
      /\ Pubsub!Now.fd = Current /\ conn[Current] # None /\ el.mask[Current] = {W}
  <2>1. Pubsub!In("send")
    BY DEF Pubsub!SendFails
  <2>2. QED BY <2>1, InIs
<1>3. PICK f \in Fd \ {ListenFd} : f = Current
  BY <1>2
<1>4. phase[conn[f]] \in Left
  BY <1>2, <1>3 DEF Pubsub!SendFails, Left
<1>5. PICK lv \in {{}}, l \in Loops, e \in Kernels :
        /\ l = el /\ e = Pubsub!Close(k, f)
        /\ e.open = k.open \ {f} /\ e.watched = [k.watched EXCEPT ![f] = {}]
        /\ Forgets(f)
        /\ Pubsub!Becomes(Pubsub!Create(Pubsub!Delete([el |-> l, k |-> e], f, {W}, lv),
                                        f, {R}, "read", lv))
  <2>1. /\ Forgets(f)
        /\ Pubsub!Becomes(Pubsub!Create(
             Pubsub!Delete([el |-> el, k |-> Pubsub!Close(k, f)], f, {W}, {}), f, {R}, "read", {}))
    BY <1>2, <1>3 DEF Pubsub!SendFails, Pubsub!Forgets, Forgets, R, W
  <2>2. QED BY <1>1, <2>1, PubsubCloses
<1>6. PICK d : d = Pubsub!Delete([el |-> l, k |-> e], f, {W}, lv)
  OBVIOUS
<1>7. Deleted(l, e, f, d)
  <2>1. f \in Fd /\ l.setsize = SetSize /\ l.mask[f] = {W} /\ (e.watched[f] # {} => f \in e.open)
    BY <1>1, <1>2, <1>3, <1>5 DEF Kernels
  <2>2. PICK x \in {R, W} : x = W
    OBVIOUS
  <2>3. d = Pubsub!Delete([el |-> l, k |-> e], f, {x}, lv) /\ l.mask[f] = {x}
    BY <1>6, <2>1, <2>2
  <2>4. QED BY <2>1, <2>3, DeleteIs
<1>8. /\ d = [el |-> d.el, k |-> d.k] /\ d.el \in Loops /\ d.el.setsize = SetSize
      /\ d.el.mask = [l.mask EXCEPT ![f] = {}] /\ d.el.rproc = l.rproc /\ d.el.wproc = l.wproc
      /\ d.k \in Kernels /\ d.k.open = e.open /\ d.k.watched = [e.watched EXCEPT ![f] = {}]
  BY <1>7 DEF Deleted
<1>9. Pubsub!Create(d, f, {R}, "read", lv) = d
  <2>1. f \notin d.k.open
    BY <1>5, <1>8
  <2>2. Pubsub!Create([el |-> d.el, k |-> d.k], f, {R}, "read", lv) = [el |-> d.el, k |-> d.k]
    BY <2>1, CreateFails
  <2>3. QED BY <1>8, <2>2
<1>10. el' = d.el /\ k' = d.k
  BY <1>5, <1>6, <1>9 DEF Pubsub!Becomes
<1>11. /\ k' \in Kernels /\ k'.open = k.open \ {f} /\ k'.watched = [k.watched EXCEPT ![f] = {}]
  <2>1. PICK w \in [Fd -> SUBSET {"in", "out"}] : w = k.watched
    BY <1>1 DEF Kernels
  <2>2. [[w EXCEPT ![f] = {}] EXCEPT ![f] = {}] = [w EXCEPT ![f] = {}]
    OBVIOUS
  <2>3. QED BY <1>5, <1>8, <1>10, <2>1, <2>2
<1>12. el' \in Loops /\ \A g \in Fd \ {f} : el'.mask[g] = el.mask[g]
  BY <1>1, <1>5, <1>8, <1>10 DEF Loops
<1>13. ProcsOf(el')
  <2>1. el'.mask[f] = {} /\ el'.rproc = el.rproc /\ el'.wproc = el.wproc /\ el'.setsize = SetSize
    BY <1>1, <1>5, <1>8, <1>10 DEF Loops
  <2>2. \A g \in Fd : el'.mask[g] \subseteq el.mask[g]
    BY <1>12, <2>1
  <2>3. el'.mask[ListenFd] = {R}
    BY <1>1, <1>12, SocketsTypes, PubsubParts
  <2>4. QED BY <1>1, <2>1, <2>2, <2>3 DEF ProcsOf
<1>14. QED BY <1>2, <1>3, <1>4, <1>5, <1>11, <1>12, <1>13, AfterClose


\* The connection is registered, or, when events[] still has its descriptor
\* from one that was closed, forgotten.
LEMMA PubsubAcceptKeeps ==
  ASSUME PubsubInv, Pubsub!AcceptConn, Pubsub!Returns, PubsubRest
  PROVE  PubsubInv'
<1>1. /\ SocketsInv /\ SocketsTypeOK /\ WatchedOpen /\ k \in Kernels /\ el \in Loops
      /\ el.setsize = SetSize /\ el.mask[ListenFd] = {R} /\ k.watched[ListenFd] = {"in"}
      /\ ListenFd \in Fd /\ ProcsRight /\ ProcsOf(el) /\ Pubsub!ServingAgrees
  BY PubsubParts
<1>2. pc = "inR" /\ fired # <<>> /\ Current = ListenFd
  <2>1. Pubsub!In("accept")
    BY DEF Pubsub!AcceptConn
  <2>2. QED BY <2>1, InIs
<1>3. PICK f \in Fd, lv \in {Pubsub!LevelOf(Head(backlog))}, l \in Loops, e \in Kernels :
        /\ l = el /\ e.open = k.open \cup {f} /\ e.watched = k.watched /\ Takes(f)
        /\ Pubsub!Becomes(Pubsub!Create([el |-> l, k |-> e], f, {R}, "read", lv))
  <2>1. PICK f \in Fd :
          /\ Takes(f)
          /\ Pubsub!Becomes(Pubsub!Create([el |-> el, k |-> Pubsub!Open(k, f)], f, {R}, "read",
                                          Pubsub!LevelOf(Head(backlog))))
    BY DEF Pubsub!AcceptConn, Pubsub!Accepts, Pubsub!IsLowestFree, Takes, R
  <2>2. /\ Pubsub!Open(k, f) \in Kernels /\ Pubsub!Open(k, f).open = k.open \cup {f}
        /\ Pubsub!Open(k, f).watched = k.watched
    BY <1>1 DEF Pubsub!Open, Kernels
  <2>3. QED BY <1>1, <2>1, <2>2
<1>4. f \notin k.open /\ f # ListenFd /\ conn[f] = None /\ k.watched[f] = {}
  BY <1>1, <1>3 DEF Takes, WatchedOpen
<1>5. UNCHANGED manners /\ leaving' = leaving
  BY DEF PubsubRest, manners
<1>6. /\ el' \in Loops /\ k' \in Kernels /\ k'.open = k.open \cup {f}
      /\ ProcsRight' /\ Pubsub!ServingAgrees'
      /\ \A g \in Fd \ {f} : el'.mask[g] = el.mask[g] /\ k'.watched[g] = k.watched[g]
      /\ k'.watched[f] # {} => el'.mask[f] = {R} /\ k'.watched[f] = {"in"}
  <2>1. CASE el.mask[f] = {}
    <3>1. PICK x \in {R, W}, p \in Procs : x = R /\ p = "read"
      BY ServersAssumption
    <3>2. PICK s : s = Pubsub!Create([el |-> l, k |-> e], f, {x}, p, lv)
      OBVIOUS
    <3>3. l.setsize = SetSize /\ l.mask[f] = {} /\ f \in e.open /\ e.watched[f] = {}
      BY <1>1, <1>3, <1>4, <2>1
    <3>4. Created(l, e, f, x, p, s)
      BY <3>2, <3>3, CreateIs
    <3>5. el' = s.el /\ k' = s.k
      BY <1>3, <3>1, <3>2 DEF Pubsub!Becomes
    <3>6. /\ el' \in Loops /\ el'.setsize = SetSize
          /\ el'.mask = [el.mask EXCEPT ![f] = {x}]
          /\ el'.rproc = (IF x = R THEN [el.rproc EXCEPT ![f] = p] ELSE el.rproc)
          /\ el'.wproc = (IF x = W THEN [el.wproc EXCEPT ![f] = p] ELSE el.wproc)
          /\ el'.maxfd = (IF f > el.maxfd THEN f ELSE el.maxfd)
          /\ k' \in Kernels /\ k'.open = k.open \cup {f}
          /\ k'.watched = [k.watched EXCEPT ![f] = Kind(x)]
      BY <1>3, <3>4, <3>5 DEF Created
    <3>7. /\ el'.mask[f] = {x} /\ k'.watched[f] = Kind(x)
          /\ \A g \in Fd \ {f} : el'.mask[g] = el.mask[g] /\ k'.watched[g] = k.watched[g]
      BY <1>1, <3>6 DEF Loops, Kernels
    <3>8. ProcsRight'
      <4>1. Registers(f, x, p)
        BY <3>1, <3>6, FlagsAre DEF Registers
      <4>2. QED BY <1>1, <1>4, <3>6, <4>1, ProcsStill
    <3>9. Pubsub!MaxfdRight => Pubsub!MaxfdRight'
      BY <1>1, <3>6, MaxfdCreate
    <3>10. Pubsub!ServingAgrees'
      BY <1>1, <1>5, <3>6, <3>7, <3>9, ServingStill
    <3>11. QED BY <3>1, <3>6, <3>7, <3>8, <3>10, FlagsAre DEF Kind
  <2>2. CASE el.mask[f] # {}
    <3>1. Pubsub!Create([el |-> l, k |-> e], f, {R}, "read", lv) = [el |-> l, k |-> e]
      BY <1>3, <1>4, <2>2, CreateFails
    <3>2. el' = el /\ k' = e
      BY <1>3, <3>1 DEF Pubsub!Becomes
    <3>3. leaving
      <4>1. SUFFICES ASSUME ~leaving PROVE FALSE
        OBVIOUS
      <4>2. k.watched[f] = (IF R \in el.mask[f] THEN {"in"} ELSE {}) \cup
                           (IF W \in el.mask[f] THEN {"out"} ELSE {})
        BY <1>1, <4>1 DEF Pubsub!ServingAgrees, Pubsub!InterestAgrees, R, W
      <4>3. R \notin el.mask[f] /\ W \notin el.mask[f] /\ el.mask[f] \in Flags
        BY <1>1, <1>4, <4>2 DEF Loops
      <4>4. QED BY <2>2, <4>3, FlagsAre
    <3>4. Pubsub!ServingAgrees'
      BY <1>5, <3>3 DEF Pubsub!ServingAgrees
    <3>5. ProcsRight'
      BY <1>1, <1>3, <3>2 DEF ProcsRight, ProcsOf
    <3>6. QED BY <1>1, <1>3, <1>4, <3>2, <3>4, <3>5
  <2>3. QED BY <2>1, <2>2
<1>7. KernelRight({f}, {})
  BY <1>1, <1>6 DEF KernelRight, WatchedOpen
<1>8. /\ SocketsInv' /\ conn'[f] # None /\ \A g \in Fd : g # f => conn'[g] = conn[g]
      /\ UNCHANGED <<read, answers, unread, sent>>
  BY <1>1, <1>3, <1>5, <1>7, AcceptKeeps
<1>9. \A g \in Fd \ {ListenFd} : g # f => Calm(g)
  BY <1>6, <1>8 DEF Calm
<1>10. k'.watched[f] # {} => Stage(f)'
  BY <1>6, <1>8 DEF Stage
<1>11. \A g \in Fd \ {ListenFd} :
         g # Current => Calm(g) \/ (k.watched[g] = {} /\ (k'.watched[g] # {} => Stage(g)'))
  <2>1. SUFFICES ASSUME NEW g \in Fd \ {ListenFd}, g = f
                 PROVE  k.watched[g] = {} /\ (k'.watched[g] # {} => Stage(g)')
    BY <1>9
  <2>2. QED BY <1>4, <1>10, <2>1
<1>12. \A g \in Fd \ {ListenFd} : g = Current /\ k'.watched[g] # {} => Stage(g)'
  BY <1>2
<1>13. pc = "inR" /\ W \in el'.mask[Current] => k'.watched[Current] # {}
  BY <1>1, <1>2, <1>4, <1>6
<1>14. QED BY <1>2, <1>6, <1>8, <1>11, <1>12, <1>13, AfterHandler

LEMMA PubsubAcceptFailsKeeps ==
  ASSUME PubsubInv, Pubsub!AcceptFails, Pubsub!Returns, PubsubRest
  PROVE  PubsubInv'
<1>1. /\ SocketsInv /\ k \in Kernels /\ el \in Loops /\ k.watched[ListenFd] = {"in"}
      /\ ProcsRight /\ Pubsub!ServingAgrees
  BY PubsubParts
<1>2. pc = "inR" /\ fired # <<>> /\ Current = ListenFd
  <2>1. Pubsub!In("accept")
    BY DEF Pubsub!AcceptFails
  <2>2. QED BY <2>1, InIs
<1>3. UNCHANGED <<el, k, sockets, manners>> /\ leaving' = leaving
  BY DEF PubsubRest, manners, Pubsub!AcceptFails, Pubsub!sockets, sockets
<1>4. SocketsInv' /\ UNCHANGED <<backlog, conn, phase, sent, unread, read, answers>>
  BY <1>1, <1>3, KernelSame, SocketsSame
<1>5. el' \in Loops /\ ProcsRight'
  BY <1>1, <1>3 DEF ProcsRight, ProcsOf
<1>6. Pubsub!ServingAgrees'
  BY <1>1, <1>3 DEF Pubsub!ServingAgrees, Pubsub!InterestAgrees, Pubsub!MaxfdRight
<1>7. \A g \in Fd \ {ListenFd} : Calm(g)
  BY <1>3, <1>4 DEF Calm
<1>8. \A g \in Fd \ {ListenFd} : g = Current /\ k'.watched[g] # {} => Stage(g)'
  BY <1>2
<1>9. k'.watched[Current] # {}
  BY <1>1, <1>2, <1>3
<1>10. QED BY <1>2, <1>4, <1>5, <1>6, <1>7, <1>8, <1>9, AfterHandler

----------------------------------------------------------------------------
(* The pubsub server: the loop, and everyone else.                           *)

LEMMA PubsubPollKeeps ==
  ASSUME PubsubInv, Pubsub!Poll(Pubsub!Levels), UNCHANGED sockets, PubsubRest
  PROVE  PubsubInv'
<1>1. /\ SocketsInv /\ PubsubTypes /\ WatchedOpen /\ k \in Kernels
      /\ pc' = "next" /\ el' = el /\ k' = [k EXCEPT !.ready = {}] /\ UNCHANGED manners
  BY PubsubParts DEF Pubsub!Poll, PubsubRest
<1> DEFINE lv == Pubsub!Levels
           D == Pubsub!Due(lv)
           Report(f) == Pubsub!FromEpoll(Pubsub!Reports(k, f, lv[f]))
<1>2. D \in SUBSET Fd /\ \A f \in D : k.watched[f] # {}
  BY <1>1 DEF Pubsub!Due, Pubsub!Reports, Kernels
<1>3. PICK order \in SetToSeqs(D) :
        fired' = [n \in DOMAIN order |-> [fd |-> order[n], mask |-> Report(order[n])]]
  BY SameOrders DEF Pubsub!Poll
<1>4. \A f : Report(f) \in Flags
  BY DEF Pubsub!FromEpoll, Flags, R, W
<1> HIDE DEF lv, D, Report
<1>5. /\ DOMAIN order = 1 .. Cardinality(D) /\ Cardinality(D) \in Nat
      /\ \A n \in DOMAIN order : order[n] \in D
      /\ \A m, n \in DOMAIN order : order[m] = order[n] => m = n
  BY <1>2, <1>3, OrderIs
<1>6. /\ k' \in Kernels /\ k'.watched = k.watched /\ KernelRight({}, {})
  BY <1>1 DEF Kernels, KernelRight, WatchedOpen
<1>7. SocketsInv' /\ UNCHANGED <<backlog, conn, phase, sent, unread, read, answers>>
  BY <1>1, <1>6, SocketsSame
<1>8. /\ DOMAIN fired' = DOMAIN order
      /\ \A n \in DOMAIN order : /\ fired'[n].fd = order[n]
                                 /\ fired'[n] = [fd |-> order[n], mask |-> Report(order[n])]
  BY <1>3
<1>9. PubsubTypes'
  <2>1. \A n \in 1 .. Cardinality(D) : fired'[n] \in [fd : Fd, mask : Flags]
    BY <1>2, <1>4, <1>5, <1>8
  <2>2. fired' = [n \in 1 .. Cardinality(D) |-> fired'[n]]
    BY <1>3, <1>5
  <2>3. fired' \in Seq([fd : Fd, mask : Flags])
    BY <1>5, <1>8, <2>1, <2>2, IsSeq
  <2>4. QED BY <1>1, <2>3 DEF PubsubTypes, PubsubRest
<1>10. FiredWatched'
  <2>1. \A m, n \in DOMAIN fired' : fired'[m].fd = fired'[n].fd => m = n
    BY <1>5, <1>8
  <2>2. \A n \in DOMAIN fired' : k'.watched[fired'[n].fd] # {}
    BY <1>2, <1>5, <1>6, <1>8
  <2>3. QED BY <1>1, <2>1, <2>2 DEF FiredWatched
<1>11. leaving' = leaving
  BY <1>1 DEF manners
<1>12. QED BY <1>1, <1>6, <1>7, <1>9, <1>10, <1>11, AfterLoop

\* Neither a handler nor the kernel has done anything.
LEMMA PubsubQuiet ==
  ASSUME PubsubInv, UNCHANGED <<el, k>>, UNCHANGED sockets, UNCHANGED manners,
         PubsubTypes', FiredWatched'
  PROVE  PubsubInv'
<1>1. SocketsInv /\ k'.watched = k.watched /\ leaving' = leaving
  BY PubsubParts DEF manners
<1>2. SocketsInv' /\ UNCHANGED <<backlog, conn, phase, sent, unread, read, answers>>
  BY <1>1, KernelSame, SocketsSame
<1>3. QED BY <1>1, <1>2, AfterLoop

LEMMA PubsubLoopKeeps ==
  ASSUME PubsubInv, Pubsub!Loop, PubsubRest
  PROVE  PubsubInv'
<1>1. /\ PubsubTypes /\ FiredWatched /\ UNCHANGED sockets /\ UNCHANGED manners /\ running' = running
      /\ k \in Kernels /\ ProcsRight
  BY PubsubParts DEF Pubsub!Loop, Pubsub!sockets, sockets, PubsubRest
<1>2. CASE Pubsub!Poll(Pubsub!Levels)
  BY <1>1, <1>2, PubsubPollKeeps
<1>3. CASE UNCHANGED <<el, k, fired>> /\ pc' \in {"next", "top", "stopped"}
  <2>1. PubsubTypes'
    BY <1>1, <1>3 DEF PubsubTypes
  <2>2. FiredWatched'
    BY <1>1, <1>3 DEF FiredWatched
  <2>3. QED BY <1>1, <1>3, <2>1, <2>2, PubsubQuiet
<1>4. CASE pc = "next" /\ Pubsub!CallRead
  <2>1. /\ fired # <<>> /\ R \in el.mask[Current] /\ pc' = "inR" /\ UNCHANGED <<el, k, fired>>
    BY <1>1, <1>4, PubsubNow DEF Pubsub!CallRead, Pubsub!Wants, R
  <2>2. PubsubTypes'
    BY <1>1, <2>1 DEF PubsubTypes
  <2>3. FiredWatched'
    BY <1>1, <2>1 DEF FiredWatched, Current
  <2>4. QED BY <1>1, <2>1, <2>2, <2>3, PubsubQuiet
<1>5. CASE pc = "next" /\ Pubsub!CallWrite
  <2>1. /\ fired # <<>> /\ W \in el.mask[Current] /\ pc' = "inW" /\ UNCHANGED <<el, k, fired>>
    BY <1>1, <1>5, PubsubNow DEF Pubsub!CallWrite, Pubsub!Wants, W
  <2>2. PubsubTypes'
    BY <1>1, <2>1 DEF PubsubTypes
  <2>3. FiredWatched'
    BY <1>1, <2>1 DEF FiredWatched, Current
  <2>4. QED BY <1>1, <2>1, <2>2, <2>3, PubsubQuiet
<1>6. CASE pc = "next" /\ Pubsub!Handled
  <2>1. fired # <<>> /\ pc' = "next" /\ fired' = Tail(fired) /\ UNCHANGED <<el, k>>
    BY <1>6 DEF Pubsub!Handled
  <2>2. FiredWatched' /\ fired' \in Seq([fd : Fd, mask : Flags])
    BY <1>1, <2>1, FiredTail
  <2>3. PubsubTypes'
    BY <1>1, <2>1, <2>2 DEF PubsubTypes
  <2>4. QED BY <1>1, <2>1, <2>2, <2>3, PubsubQuiet
<1>7. Pubsub!PollEmpty(Pubsub!Levels) => UNCHANGED <<el, k, fired>> /\ pc' \in {"next", "top", "stopped"}
  BY DEF Pubsub!PollEmpty
<1>8. Pubsub!Around(~running) => UNCHANGED <<el, k, fired>> /\ pc' \in {"next", "top", "stopped"}
  BY DEF Pubsub!Around
<1>9. QED BY <1>2, <1>3, <1>4, <1>5, <1>6, <1>7, <1>8 DEF Pubsub!Loop

LEMMA PubsubClientKeeps ==
  ASSUME PubsubInv, Pubsub!Client, PubsubRest
  PROVE  PubsubInv'
<1>1. /\ SocketsInv /\ PubsubTypes /\ FiredWatched
      /\ UNCHANGED <<el, fired, pc, running, manners>> /\ leaving' = leaving
  BY PubsubParts DEF Pubsub!Client, PubsubRest, manners
<1>2. PICK c \in Clients : Pubsub!Connect(c) \/ Pubsub!Send(c) \/ Pubsub!Leave(c)
  BY DEF Pubsub!Client
<1>3. Connect(c) \/ Sends(c) \/ Leave(c)
  BY <1>2, SameClients
<1>4. SocketsInv' /\ k'.watched = k.watched /\ UNCHANGED <<conn, read, answers>>
  BY <1>1, <1>3, ClientsKeep DEF Going
<1>5. PubsubTypes' /\ FiredWatched'
  BY <1>1, <1>4 DEF PubsubTypes, FiredWatched, Current
<1>6. QED BY <1>1, <1>4, <1>5, AfterLoop

LEMMA PubsubKeeps ==
  ASSUME PubsubInv, Pubsub!Next
  PROVE  PubsubInv'
<1>1. CASE Pubsub!Server /\ UNCHANGED <<manners, running>>
  <2>1. PubsubRest
    BY <1>1 DEF PubsubRest
  <2>2. CASE Pubsub!Loop
    BY <2>1, <2>2, PubsubLoopKeeps
  <2>3. CASE Pubsub!Handler
    <3>1. Pubsub!Returns
      BY <2>3 DEF Pubsub!Handler
    <3>2. CASE Pubsub!AcceptConn
      BY <2>1, <3>1, <3>2, PubsubAcceptKeeps
    <3>3. CASE Pubsub!AcceptFails
      BY <2>1, <3>1, <3>3, PubsubAcceptFailsKeeps
    <3>4. CASE Pubsub!ReadQuery
      BY <2>1, <3>1, <3>4, ReadQueryKeeps
    <3>5. CASE Pubsub!ReadEnd
      BY <2>1, <3>1, <3>5, PubsubReadEndKeeps
    <3>6. CASE Pubsub!SendResp
      BY <2>1, <3>1, <3>6, PubsubSendRespKeeps
    <3>7. CASE Pubsub!SendFails
      BY <2>1, <3>1, <3>7, PubsubSendFailsKeeps
    <3>8. QED BY <2>3, <3>2, <3>3, <3>4, <3>5, <3>6, <3>7 DEF Pubsub!Handler
  <2>4. QED BY <1>1, <2>2, <2>3 DEF Pubsub!Server
<1>2. CASE Pubsub!Client /\ UNCHANGED <<manners, running>>
  BY <1>2, PubsubClientKeeps DEF PubsubRest
<1>3. CASE Pubsub!Sigint
  <2>1. UNCHANGED <<el, k, fired, pc>> /\ UNCHANGED sockets /\ UNCHANGED manners /\ running' = FALSE
    BY <1>3 DEF Pubsub!Sigint, Pubsub!sockets, sockets, Pubsub!manners, manners
  <2>2. PubsubTypes' /\ FiredWatched'
    BY <2>1, PubsubParts DEF PubsubTypes, FiredWatched, Current
  <2>3. QED BY <2>1, <2>2, PubsubQuiet
<1>4. QED BY <1>1, <1>2, <1>3 DEF Pubsub!Next, Pubsub!manners, manners

LEMMA PubsubInit ==
  ASSUME Pubsub!Init
  PROVE  PubsubInv
<1> DEFINE l == Pubsub!NewLoop
           e == Pubsub!Open(Pubsub!NoKernel, ListenFd)
<1>1. /\ fired = <<>> /\ pc = "top" /\ running = TRUE
      /\ \E s : /\ s = Pubsub!Create([el |-> l, k |-> e], ListenFd, {R}, "accept", {})
                /\ el = s.el /\ k = s.k
  BY DEF Pubsub!Init, Pubsub!Listening, Pubsub!ListenFd, ListenFd, R
<1>2. SocketsInit
  BY SameOrders DEF Pubsub!Init, Pubsub!SocketsInit, SocketsInit
<1>3. ListenFd \in Fd /\ SetSize \in Nat \ {0, 1}
  BY ServersAssumption DEF ListenFd
<1>4. /\ l = [mask |-> [f \in Fd |-> {}], rproc |-> [f \in Fd |-> NoProc],
              wproc |-> [f \in Fd |-> NoProc], maxfd |-> -1, setsize |-> SetSize]
      /\ e = [open |-> {ListenFd}, watched |-> [f \in Fd |-> {}], ready |-> {}]
  <2>1. l = [mask |-> [f \in Fd |-> {}], rproc |-> [f \in Fd |-> NoProc],
             wproc |-> [f \in Fd |-> NoProc], maxfd |-> -1, setsize |-> SetSize]
    BY DEF Pubsub!NewLoop
  <2>2. e = [open |-> {ListenFd}, watched |-> [f \in Fd |-> {}], ready |-> {}]
    BY DEF Pubsub!Open, Pubsub!NoKernel
  <2>3. QED BY <2>1, <2>2
<1>5. l \in Loops
  <2>1. /\ [f \in Fd |-> {}] \in [Fd -> Flags]
        /\ [f \in Fd |-> NoProc] \in [Fd -> Procs \cup {NoProc}]
    BY DEF Flags
  <2>2. -1 \in -1 .. SetSize - 1 /\ SetSize \in 1 .. SetSize
    BY <1>3
  <2>3. QED BY <1>4, <2>1, <2>2 DEF Loops
<1>6. e \in Kernels
  BY <1>3, <1>4 DEF Kernels
<1>7. /\ l.setsize = SetSize /\ l.mask = [f \in Fd |-> {}] /\ l.rproc = [f \in Fd |-> NoProc]
      /\ l.wproc = [f \in Fd |-> NoProc] /\ l.maxfd = -1
      /\ e.open = {ListenFd} /\ e.watched = [f \in Fd |-> {}]
  BY <1>4
<1> HIDE DEF l, e
<1>8. PICK f \in Fd, x \in {R, W}, p \in Procs, lv \in {{}} : f = ListenFd /\ x = R /\ p = "accept"
  BY <1>3, ServersAssumption
<1>9. PICK s : s = Pubsub!Create([el |-> l, k |-> e], f, {x}, p, lv) /\ el = s.el /\ k = s.k
  BY <1>1, <1>8
<1>10. Created(l, e, f, x, p, s)
  <2>1. l.setsize = SetSize /\ l.mask[f] = {} /\ f \in e.open /\ e.watched[f] = {}
    BY <1>7, <1>9, <1>8
  <2>2. s = Pubsub!Create([el |-> l, k |-> e], f, {x}, p, lv)
    BY <1>9, <1>8
  <2>3. QED BY <1>5, <1>6, <2>1, <2>2, CreateIs
<1>11. /\ el \in Loops /\ el.setsize = SetSize
       /\ el.mask = [l.mask EXCEPT ![f] = {R}] /\ el.rproc = [l.rproc EXCEPT ![f] = p]
       /\ el.wproc = l.wproc /\ el.maxfd = (IF f > -1 THEN f ELSE -1)
       /\ k \in Kernels /\ k.open = {ListenFd} /\ k.watched = [e.watched EXCEPT ![f] = {"in"}]
  BY <1>7, <1>9, <1>8, <1>10, FlagsAre DEF Created, Kind
<1>12. /\ el.mask[ListenFd] = {R} /\ el.rproc[ListenFd] = "accept" /\ el.maxfd = ListenFd
       /\ k.watched[ListenFd] = {"in"} /\ \A g \in Fd : el.wproc[g] = NoProc
       /\ \A g \in Fd \ {ListenFd} : /\ el.mask[g] = {} /\ el.rproc[g] = NoProc
                                     /\ k.watched[g] = {}
  <2>1. /\ el.mask = [g \in Fd |-> IF g = f THEN {R} ELSE {}]
        /\ el.rproc = [g \in Fd |-> IF g = f THEN p ELSE NoProc]
        /\ el.wproc = [g \in Fd |-> NoProc]
        /\ k.watched = [g \in Fd |-> IF g = f THEN {"in"} ELSE {}]
    <3>1. PICK m \in [Fd -> SUBSET {}], r \in [Fd -> {NoProc}] :
            m = [g \in Fd |-> {}] /\ r = [g \in Fd |-> NoProc]
      OBVIOUS
    <3>2. /\ el.mask = [m EXCEPT ![f] = {R}] /\ el.rproc = [r EXCEPT ![f] = p] /\ el.wproc = r
          /\ k.watched = [m EXCEPT ![f] = {"in"}]
      BY <1>7, <1>11, <3>1
    <3>3. /\ [m EXCEPT ![f] = {R}] = [g \in Fd |-> IF g = f THEN {R} ELSE {}]
          /\ [r EXCEPT ![f] = p] = [g \in Fd |-> IF g = f THEN p ELSE NoProc]
          /\ [m EXCEPT ![f] = {"in"}] = [g \in Fd |-> IF g = f THEN {"in"} ELSE {}]
      BY <3>1
    <3>4. QED BY <3>1, <3>2, <3>3
  <2>2. el.maxfd = f
    BY <1>9, <1>8, <1>11 DEF ListenFd
  <2>3. QED BY <1>3, <1>9, <1>8, <2>1, <2>2
<1>13. SocketsInv
  BY <1>2, <1>11, <1>12, InitSockets
<1>14. PubsubTypes
  <2>1. \A S : <<>> \in Seq(S)
    OBVIOUS
  <2>2. fired \in Seq([fd : Fd, mask : Flags])
    BY <1>1, <2>1
  <2>3. QED BY <1>1, <1>11, <2>2 DEF PubsubTypes
<1>15. ProcsRight /\ Stages
  BY <1>11, <1>12, FlagsAre DEF ProcsRight, ProcsOf, Stages
<1>16. FiredWatched
  BY <1>1 DEF FiredWatched
<1>17. Pubsub!ServingAgrees
  <2>1. ASSUME NEW g \in Fd
        PROVE  k.watched[g] = (IF R \in el.mask[g] THEN {"in"} ELSE {}) \cup
                              (IF W \in el.mask[g] THEN {"out"} ELSE {})
    BY <1>12, FlagsAre
  <2>2. Pubsub!InterestAgrees
    BY <2>1 DEF Pubsub!InterestAgrees, R, W
  <2>3. Used(el.mask) = {ListenFd} /\ ListenFd \in Int
    BY <1>3, <1>12 DEF Used, ListenFd
  <2>4. Pubsub!HighestUsed(el.mask) = ListenFd
    BY <2>3, HighestOnly DEF ListenFd
  <2>5. QED BY <1>12, <2>2, <2>4 DEF Pubsub!ServingAgrees, Pubsub!MaxfdRight
<1>18. QED BY <1>13, <1>14, <1>15, <1>16, <1>17 DEF PubsubInv


----------------------------------------------------------------------------
(* Both servers.                                                             *)

LEMMA ServersInit == Init => SInv
<1>1. CASE server = "pubsub" /\ Pubsub!Init
  BY <1>1, PubsubInit DEF SInv
<1>2. CASE server = "simple" /\ Simple!Init
  BY <1>2, SimpleInit DEF SInv
<1>3. QED BY <1>1, <1>2 DEF Init

LEMMA ServersSame ==
  ASSUME SInv, UNCHANGED vars
  PROVE  SInv'
<1>1. /\ UNCHANGED <<k, pc, server, el, fired, running, batch, recvd, patient, stop>>
      /\ UNCHANGED sockets /\ UNCHANGED manners
  BY DEF vars, pubsubOnly, simpleOnly
<1>2. CASE server = "pubsub"
  <2>1. PubsubInv
    BY <1>2 DEF SInv
  <2>2. PubsubTypes' /\ FiredWatched'
    BY <1>1, <2>1, PubsubParts DEF PubsubTypes, FiredWatched, Current
  <2>3. PubsubInv'
    BY <1>1, <2>1, <2>2, PubsubQuiet
  <2>4. QED BY <1>1, <1>2, <2>3 DEF SInv
<1>3. CASE server = "simple"
  <2>1. SimpleInv /\ stop' \in BOOLEAN
    BY <1>1, <1>3 DEF SInv, SimpleInv, SimpleTypes
  <2>2. SimpleInv'
    BY <1>1, <2>1, AtRest
  <2>3. QED BY <1>1, <1>3, <2>2 DEF SInv
<1>4. QED BY <1>2, <1>3 DEF SInv

LEMMA ServersKeep == SInv /\ [Next]_vars => SInv'
<1>1. SUFFICES ASSUME SInv, [Next]_vars
               PROVE  SInv'
  OBVIOUS
<1>2. CASE server = "pubsub" /\ Pubsub!Next /\ server' = server
  BY <1>1, <1>2, PubsubKeeps DEF SInv
<1>3. CASE server = "simple" /\ Simple!Next /\ server' = server
  BY <1>1, <1>3, SimpleKeeps DEF SInv
<1>4. CASE UNCHANGED vars
  BY <1>1, <1>4, ServersSame
<1>5. QED BY <1>1, <1>2, <1>3, <1>4 DEF Next

LEMMA SocketsTyped ==
  ASSUME SocketsTypeOK, k \in Kernels
  PROVE  /\ Simple!SocketsTypeOK /\ k \in Simple!Kernels
         /\ Pubsub!SocketsTypeOK /\ k \in Pubsub!Kernels
BY SameOrders DEF SocketsTypeOK, Simple!SocketsTypeOK, Pubsub!SocketsTypeOK,
                  Kernels, Simple!Kernels, Pubsub!Kernels

LEMMA PubsubRight ==
  ASSUME PubsubInv
  PROVE  Pubsub!TypeOK /\ OneHandler
<1>1. /\ SocketsTypeOK /\ k \in Kernels /\ PubsubTypes /\ Stages /\ Pubsub!ServingAgrees
  BY PubsubParts
<1>2. Flags = Pubsub!Masks
  BY DEF Flags, Pubsub!Masks, R, W
<1>3. Pubsub!AeTypeOK
  BY <1>1, <1>2, SocketsTyped DEF PubsubTypes, Loops, Pubsub!AeTypeOK
<1>4. Pubsub!TypeOK
  BY <1>1, <1>3, SocketsTyped DEF PubsubTypes, Pubsub!TypeOK
<1>5. Pubsub!OneHandler
  <2>1. SUFFICES ASSUME NEW f \in Fd \ {ListenFd}, conn[f] # None, k.watched[f] # {}
                 PROVE  /\ Pubsub!Cardinality(el.mask[f]) = 1
                        /\ W \in el.mask[f] => answers[conn[f]] < read[conn[f]]
    BY DEF Pubsub!OneHandler, Pubsub!ListenFd, ListenFd, W
  <2>2. Stage(f)
    BY <1>1, <2>1 DEF Stages
  <2>3. PICK x \in {R, W} : el.mask[f] = {x}
    BY <2>2 DEF Stage
  <2>4. Cardinality({x}) = 1
    BY FS_Singleton
  <2>5. Pubsub!Cardinality(el.mask[f]) = 1
    BY <2>3, <2>4, SameOrders
  <2>6. W \in el.mask[f] => answers[conn[f]] < read[conn[f]]
    BY <2>2, FlagsAre DEF Stage, Owed
  <2>7. QED BY <2>5, <2>6
<1>6. QED BY <1>1, <1>4, <1>5 DEF OneHandler

LEMMA SimpleRight ==
  ASSUME SimpleInv, Size > 1
  PROVE  Simple!TypeOK /\ OneRead
<1>1. /\ SocketsTypeOK /\ k \in Kernels /\ SimpleTypes /\ Receiving /\ ReadsOnce
  BY DEF SimpleInv, SocketsInv
<1>2. Simple!TypeOK
  BY <1>1, SocketsTyped DEF SimpleTypes, Events, Simple!TypeOK
<1>3. ASSUME patient, pc = "recv"
      PROVE  recvd = 0 /\ Simple!CanRead
  <2>1. recvd = 0
    BY <1>1, <1>3 DEF ReadsOnce
  <2>2. batch # <<>> /\ First # ListenFd /\ conn[First] # None /\ HasIn(conn[First])
    BY <1>1, <1>3, <2>1 DEF Receiving
  <2>3. Simple!Client = conn[First]
    BY <2>2, InClient
  <2>4. QED BY <2>1, <2>2, <2>3 DEF Simple!CanRead, HasIn, Left
<1>4. QED BY <1>2, <1>3 DEF OneRead

----------------------------------------------------------------------------
(* The theorems.                                                             *)

\* Whatever clients do, neither server answers more than it has read of them:
\* of pubsub/main.c because the write handler is registered of a descriptor
\* only while its client is owed an answer, and what events[] keeps of one that
\* was closed is not watched; of epoll_server.c because EPOLLOUT is watched only
\* after a read.
THEOREM AnswersQueriesCorrect == Spec => []AnswersQueries
<1>1. SInv => AnswersQueries
  BY DEF SInv, PubsubInv, SimpleInv, SocketsInv, Messages
<1>2. QED BY <1>1, ServersInit, ServersKeep, PTL DEF Spec

\* The handler that is called belongs to what its descriptor is in the middle
\* of, events[] agrees with the kernel while clients stay, and recv_req reads
\* once and does not wait, of patient clients with messages below its buffer.
THEOREM HandledRightCorrect ==
  ASSUME Size > 1
  PROVE  Spec => []HandledRight
<1>1. SInv => HandledRight
  BY PubsubRight, SimpleRight DEF SInv, HandledRight
<1>2. QED BY <1>1, ServersInit, ServersKeep, PTL DEF Spec
=============================================================================
