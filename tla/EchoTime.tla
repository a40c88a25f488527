------------------------------ MODULE EchoTime ------------------------------
(***************************************************************************)
(* libev/echo_time/server.c: a server on libev that answers each message   *)
(* with the time. There is one watcher for reading and one for writing, in *)
(* global variables, for all clients: accepting a client takes the watcher *)
(* of the one before, which libev still lists under the old descriptor.    *)
(*                                                                         *)
(* set_nonblocking sets a flag of the descriptor, not of the file: sockets *)
(* block. A client is known by the descriptor accept gives it.             *)
(***************************************************************************)
EXTENDS Naturals, FiniteSets

CONSTANTS Client, NoFd, MaxSent

VARIABLES
  conn,       \* of each client: "away", "queued", "open", "closed"
  unread,     \* messages it sent that were not read
  sent,
  answers,    \* the messages among them that were read when it was last answered
  shut,       \* it closed its end
  watch,      \* of "read" and "write": the watcher's fd, and whether it is active
  listed,     \* of each descriptor: the watchers libev lists under it
  pc,         \* "loop", "read", "over"
  shared      \* a watcher was initialised while active (a history)

echoVars == <<conn, unread, sent, answers, shut, watch, listed, pc, shared>>
clientVars == <<conn, unread, sent, answers, shut>>

\* ev_io_stop of the watchers in stopped, then ev_io_init and ev_io_start of w
\* for f. A watcher that was active keeps its place on the list of the old
\* descriptor; one that is not active is stopped already.
OffLists(stopped) ==
  [f \in Client |-> listed[f] \ {w \in stopped : watch[w].active /\ watch[w].fd = f}]

Starts(stopped, w, f) ==
  /\ listed' = [OffLists(stopped) EXCEPT ![f] = @ \cup {w}]
  /\ watch' = [v \in {"read", "write"} |->
                 [fd |-> IF v = w THEN f ELSE watch[v].fd,
                  active |-> v = w \/ (watch[v].active /\ v \notin stopped)]]
  /\ shared' = (shared \/ (watch[w].active /\ w \notin stopped))

----------------------------------------------------------------------------
\* server_accept; accept may fail for a client that went away.
Accept(c) ==
  /\ pc = "loop" /\ conn[c] = "queued"
  /\ conn' = [conn EXCEPT ![c] = "open"]
  /\ Starts({}, "read", c)
  /\ UNCHANGED <<unread, sent, answers, shut, pc>>

AcceptFails(c) ==
  /\ pc = "loop" /\ conn[c] = "queued" /\ shut[c]
  /\ conn' = [conn EXCEPT ![c] = "closed"]
  /\ UNCHANGED <<unread, sent, answers, shut, watch, listed, pc, shared>>

\* libev calls server_in for an event of f; it reads what read_w is for.
Readable(f) == conn[f] = "open" /\ (unread[f] > 0 \/ shut[f])
ServerIn(f) ==
  /\ pc = "loop" /\ "read" \in listed[f] /\ Readable(f)
  /\ pc' = "read"
  /\ UNCHANGED <<clientVars, watch, listed, shared>>

In == watch["read"].fd

\* One message or several; then the watcher for writing is next.
ReadMsg ==
  /\ pc = "read" /\ conn[In] = "open" /\ unread[In] > 0
  /\ unread' = [unread EXCEPT ![In] = 0]
  /\ Starts({"read"}, "write", In)
  /\ pc' = "loop"
  /\ UNCHANGED <<conn, sent, answers, shut>>

\* (Mutant: it is not closed.)
AfterEndOpen == "open"
AfterEnd == "closed"

ReadEnd ==
  /\ pc = "read" /\ conn[In] = "open" /\ unread[In] = 0 /\ shut[In]
  /\ listed' = OffLists({"read"}) /\ watch' = [watch EXCEPT !["read"].active = FALSE]
  /\ conn' = [conn EXCEPT ![In] = AfterEnd]
  /\ pc' = "loop"
  /\ UNCHANGED <<unread, sent, answers, shut, shared>>

\* Of a descriptor that was closed: read_w stays as it is.
ReadFails ==
  /\ pc = "read" /\ conn[In] = "closed"
  /\ pc' = "loop"
  /\ UNCHANGED <<clientVars, watch, listed, shared>>

\* server_out: write, whether it fails or not, and read_w is next. One answer
\* is for all that was read; what came in since waits for the next.
Out == watch["write"].fd

Writable(f) == pc = "loop" /\ "write" \in listed[f] /\ conn[f] = "open"

ServerOut(f) ==
  /\ Writable(f)
  /\ answers' = IF conn[Out] = "open"
                THEN [answers EXCEPT ![Out] = sent[Out] - unread[Out]] ELSE answers
  /\ Starts({"write"}, "read", Out)
  /\ UNCHANGED <<conn, unread, sent, shut, pc>>

\* The write raises SIGPIPE, of a client that went away and whose kernel said
\* so already; sig_init does not ignore the signal, and it ends the server.
SigPipe(f) ==
  /\ Writable(f) /\ conn[Out] = "open" /\ shut[Out]
  /\ pc' = "over"
  /\ UNCHANGED <<clientVars, watch, listed, shared>>

\* sig_handler takes a second argument no signal handler is given, and calls it.
Sigint == pc # "over" /\ pc' = "over" /\ UNCHANGED <<clientVars, watch, listed, shared>>

----------------------------------------------------------------------------
Connect(c) ==
  /\ conn[c] = "away" /\ conn' = [conn EXCEPT ![c] = "queued"]
  /\ UNCHANGED <<unread, sent, answers, shut, watch, listed, pc, shared>>

Send(c) ==
  /\ conn[c] \in {"queued", "open"} /\ ~shut[c] /\ sent[c] < MaxSent
  /\ unread' = [unread EXCEPT ![c] = @ + 1] /\ sent' = [sent EXCEPT ![c] = @ + 1]
  /\ UNCHANGED <<conn, answers, shut, watch, listed, pc, shared>>

Shut(c) ==
  /\ conn[c] \in {"queued", "open"} /\ ~shut[c]
  /\ shut' = [shut EXCEPT ![c] = TRUE]
  /\ UNCHANGED <<conn, unread, sent, answers, watch, listed, pc, shared>>

Init ==
  /\ conn = [c \in Client |-> "away"] /\ unread = [c \in Client |-> 0]
  /\ sent = unread /\ answers = unread /\ shut = [c \in Client |-> FALSE]
  /\ watch = [w \in {"read", "write"} |-> [fd |-> NoFd, active |-> FALSE]]
  /\ listed = [c \in Client |-> {}] /\ pc = "loop" /\ shared = FALSE

Server ==
  \/ ReadMsg \/ ReadEnd \/ ReadFails
  \/ \E c \in Client : Accept(c) \/ AcceptFails(c) \/ ServerIn(c) \/ ServerOut(c)
                      \/ SigPipe(c)

Next == Server \/ Sigint \/ \E c \in Client : Connect(c) \/ Send(c) \/ Shut(c)

----------------------------------------------------------------------------
\* As long as no client took the watcher of another, and no signal ended the
\* server (SIGINT, or SIGPIPE of a write to a client that went away), all that
\* a client sent is read and answered, and its connection closed when it went
\* away.
Waits(c) == conn[c] = "open" /\ (unread[c] > 0 \/ shut[c])
Served(c) ==
  \/ IF shut[c] THEN conn[c] = "closed" ELSE answers[c] = sent[c]
  \/ shared \/ pc = "over"
=============================================================================
