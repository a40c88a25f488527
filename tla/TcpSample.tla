----------------------------- MODULE TcpSample -----------------------------
(***************************************************************************)
(* libevent_sample/tcp/server.cpp: a server on libevent that reads what    *)
(* its clients send. Each client has an event of its own on its            *)
(* descriptor. When the client ends, the event is deleted and the          *)
(* descriptor closed; when recv fails, the descriptor only is closed.      *)
(*                                                                         *)
(* libevent tells the kernel of a descriptor's first event; the kernel     *)
(* forgets a descriptor that is closed. So a client whose descriptor still *)
(* has an event of a former one is never watched.                          *)
(***************************************************************************)
EXTENDS Naturals, FiniteSetsExt

CONSTANT Client

Fds == 1 .. Cardinality(Client)

VARIABLES
  pc,       \* "setup", "loop", "over"
  conn,     \* of each client: "away", "queued", "open", "closed"
  end,      \* how it ended: "not", "close", "reset"
  unread,   \* something it sent was not read
  fd,       \* its descriptor
  events,   \* of each descriptor, how many events libevent has
  watched,  \* descriptors the kernel watches
  spoiled   \* descriptors that had no event when they were given to a client, or
            \* kept the one of a client that was reset (a history)

tcpVars == <<pc, conn, end, unread, fd, events, watched, spoiled>>

Free == Fds \ {fd[c] : c \in {d \in Client : conn[d] = "open"}}

----------------------------------------------------------------------------
\* main up to the dispatch; each call may fail.
Setup ==
  /\ pc = "setup" /\ pc' \in {"loop", "over"}
  /\ UNCHANGED <<conn, end, unread, fd, events, watched, spoiled>>

\* event_add
AddEvent(f) ==
  /\ events' = [events EXCEPT ![f] = @ + 1]
  /\ watched' = IF events[f] = 0 THEN watched \cup {f} ELSE watched

\* on_accept; without memory for an event the descriptor stays open unwatched.
\* (That accept fails changes nothing: it is tried again.)
OnAccept(c) ==
  /\ pc = "loop" /\ conn[c] = "queued"
  /\ LET f == Min(Free)
     IN  /\ fd' = [fd EXCEPT ![c] = f]
         /\ \/ AddEvent(f) /\ UNCHANGED spoiled
            \/ UNCHANGED <<events, watched>> /\ spoiled' = spoiled \cup {f}
  /\ conn' = [conn EXCEPT ![c] = "open"]
  /\ UNCHANGED <<pc, end, unread>>

\* libevent calls on_read.
Called(c) == pc = "loop" /\ conn[c] = "open" /\ fd[c] \in watched

Recv(c) ==
  /\ Called(c) /\ unread[c]
  /\ unread' = [unread EXCEPT ![c] = FALSE]
  /\ UNCHANGED <<pc, conn, end, fd, events, watched, spoiled>>

Closes(c) == conn' = [conn EXCEPT ![c] = "closed"] /\ watched' = watched \ {fd[c]}

\* event_del (mutant: left to close).
DelNothing(f) == events
DelEvent(f) == [events EXCEPT ![f] = @ - 1]

RecvEnd(c) ==
  /\ Called(c) /\ ~unread[c] /\ end[c] = "close"
  /\ Closes(c)
  /\ events' = DelEvent(fd[c])
  /\ UNCHANGED <<pc, end, unread, fd, spoiled>>

RecvFails(c) ==
  /\ Called(c) /\ ~unread[c] /\ end[c] = "reset"
  /\ Closes(c)
  /\ spoiled' = spoiled \cup {fd[c]}
  /\ UNCHANGED <<pc, end, unread, fd, events>>

----------------------------------------------------------------------------
Connect(c) ==
  /\ pc = "loop" /\ conn[c] = "away" /\ conn' = [conn EXCEPT ![c] = "queued"]
  /\ UNCHANGED <<pc, end, unread, fd, events, watched, spoiled>>

Send(c) ==
  /\ conn[c] \in {"queued", "open"} /\ end[c] = "not" /\ ~unread[c]
  /\ unread' = [unread EXCEPT ![c] = TRUE]
  /\ UNCHANGED <<pc, conn, end, fd, events, watched, spoiled>>

Leave(c) ==
  /\ conn[c] \in {"queued", "open"} /\ end[c] = "not"
  /\ end' \in {[end EXCEPT ![c] = how] : how \in {"close", "reset"}}
  /\ UNCHANGED <<pc, conn, unread, fd, events, watched, spoiled>>

Init ==
  /\ pc = "setup" /\ conn = [c \in Client |-> "away"] /\ end = [c \in Client |-> "not"]
  /\ unread = [c \in Client |-> FALSE] /\ fd = [c \in Client |-> 0]
  /\ events = [f \in Fds |-> 0] /\ watched = {} /\ spoiled = {}

\* Each turn of the loop calls the event of every client that has one to come.
Serves(c) == OnAccept(c) \/ Recv(c) \/ RecvEnd(c) \/ RecvFails(c)

Next == Setup \/ \E c \in Client : Serves(c) \/ Connect(c) \/ Send(c) \/ Leave(c)

----------------------------------------------------------------------------
\* Each client is read, and closed when it ended, although another may never
\* stop sending: unless there was no memory for its event, or its descriptor
\* has the event of a client before it that was reset.
Waits(c) == conn[c] \in {"queued", "open"} /\ (unread[c] \/ end[c] # "not")
WasRead(c) ==
  \/ IF end[c] = "not" THEN conn[c] = "open" /\ ~unread[c] ELSE conn[c] = "closed"
  \/ fd[c] \in spoiled
=============================================================================
