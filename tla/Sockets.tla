------------------------------ MODULE Sockets ------------------------------
(***************************************************************************)
(* Clients of a server with one listening socket, as the kernel shows them *)
(* to it: they connect, send, shut their side down and reset when they     *)
(* like. What they send is counted in units of a read.                     *)
(***************************************************************************)
EXTENDS Epoll, SequencesExt

CONSTANTS
  Clients,
  None,
  MaxMessages   \* how many messages the clients send in all

VARIABLES
  backlog,  \* connections waiting on the listening socket
  conn,     \* the client behind a descriptor
  phase,    \* of a client: "new", "waiting", "open", "shut", "reset", and
            \* "dead" when the server was told of the reset
  sent,     \* messages it sent
  unread,   \* those the server did not read yet
  read,     \* those the server read
  answers,  \* answers written to it
  leaving,  \* clients close and reset their connection, and connect at once
  limit     \* how many descriptors the server may have open

sockets == <<backlog, conn, phase, sent, unread, read, answers>>
manners == <<leaving, limit>>

ListenFd == 0

SocketsInit ==
  /\ backlog = <<>> /\ conn = [f \in Fd |-> None]
  /\ phase = [c \in Clients |-> "new"]
  /\ sent = [c \in Clients |-> 0] /\ unread = [c \in Clients |-> 0]
  /\ read = [c \in Clients |-> 0] /\ answers = [c \in Clients |-> 0]
  /\ leaving \in BOOLEAN
  /\ limit \in IF leaving THEN 2 .. Cardinality(Fd) ELSE {Cardinality(Fd)}

\* What is true of a connection with u units unread whose client is in phase
\* p, of the connection of c, and of a descriptor.
LevelIn(u, p) ==
  {"out"} \cup (IF u > 0 \/ p \in {"shut", "reset", "dead"} THEN {"in"} ELSE {})
          \cup (IF p = "reset" THEN {"err"} ELSE {})
LevelOf(c) == LevelIn(unread[c], phase[c])
Level(f) ==
  IF f = ListenFd THEN (IF backlog # <<>> THEN {"in"} ELSE {})
  ELSE IF conn[f] = None THEN {} ELSE LevelOf(conn[f])
Levels == [f \in Fd |-> Level(f)]

\* The sum of what the clients sent.
AllSent == MapThenSumSet(LAMBDA d : sent[d], Clients)

Connect(c) ==
  /\ phase[c] = "new"
  /\ leaving \/ backlog = <<>>
  /\ phase' = [phase EXCEPT ![c] = "waiting"]
  /\ backlog' = Append(backlog, c)
  /\ k' = Edge(k, ListenFd, {"in"})
  /\ UNCHANGED <<conn, sent, unread, read, answers>>

\* The descriptor of the client's connection sees an edge, if it is accepted.
Touches(c, levels) ==
  k' = IF \E f \in Fd : conn[f] = c
       THEN LET f == CHOOSE g \in Fd : conn[g] = c IN Edge(k, f, levels)
       ELSE k

Send(c) ==
  /\ phase[c] \in {"waiting", "open"} /\ AllSent < MaxMessages
  /\ sent' = [sent EXCEPT ![c] = @ + 1] /\ unread' = [unread EXCEPT ![c] = @ + 1]
  /\ Touches(c, {"in", "out"})
  /\ UNCHANGED <<backlog, conn, phase, read, answers>>

\* What was sent is still there after a shutdown, but not after a reset.
Leave(c) ==
  /\ leaving /\ phase[c] \in {"waiting", "open"}
  /\ \/ phase' = [phase EXCEPT ![c] = "shut"] /\ Touches(c, {"in", "out"}) /\ UNCHANGED unread
     \/ /\ phase' = [phase EXCEPT ![c] = "reset"] /\ Touches(c, {"in", "out", "err"})
        /\ unread' = [unread EXCEPT ![c] = 0]
  /\ UNCHANGED <<backlog, conn, sent, read, answers>>

\* The server takes the first connection that waits, on the lowest descriptor.
Accepts(f) ==
  /\ backlog # <<>> /\ Cardinality(k.open) < limit /\ IsLowestFree(k, f)
  /\ conn' = [conn EXCEPT ![f] = Head(backlog)]
  /\ phase' = [phase EXCEPT ![Head(backlog)] = IF @ = "waiting" THEN "open" ELSE @]
  /\ backlog' = Tail(backlog)
  /\ UNCHANGED <<sent, unread, read, answers>>

Reads(c, n) ==
  /\ unread' = [unread EXCEPT ![c] = @ - n]
  /\ read' = [read EXCEPT ![c] = @ + n]
  /\ UNCHANGED <<backlog, conn, phase, sent, answers>>

Writes(c) ==
  /\ answers' = [answers EXCEPT ![c] = @ + 1]
  /\ UNCHANGED <<backlog, conn, phase, sent, unread, read>>

\* A call on the connection fails because of the reset, or of an earlier one.
Fails(c) ==
  /\ phase' = [phase EXCEPT ![c] = IF @ = "reset" THEN "dead" ELSE @]
  /\ UNCHANGED <<backlog, conn, sent, unread, read, answers>>

Forgets(f) ==
  /\ conn' = [conn EXCEPT ![f] = None]
  /\ UNCHANGED <<backlog, phase, sent, unread, read, answers>>

SocketsTypeOK ==
  /\ backlog \in Seq(Clients)
  /\ conn \in [Fd -> Clients \cup {None}]
  /\ phase \in [Clients -> {"new", "waiting", "open", "shut", "reset", "dead"}]
  /\ sent \in [Clients -> Nat] /\ unread \in [Clients -> Nat]
  /\ read \in [Clients -> Nat] /\ answers \in [Clients -> Nat]
  /\ leaving \in BOOLEAN /\ limit \in 2 .. Cardinality(Fd)

\* A client gets at most one answer for a message that was read, also when it
\* was read in parts, when reading and writing are possible together, and when
\* its descriptor belonged to another client before: both servers keep their
\* place in the exchange in what they watch of the descriptor, and nowhere else.
AnswersQueries == \A c \in Clients : answers[c] <= read[c]
=============================================================================
