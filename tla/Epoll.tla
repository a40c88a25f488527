------------------------------- MODULE Epoll -------------------------------
(***************************************************************************)
(* The part of Linux epoll that the servers of the repository use, edge    *)
(* triggered: which descriptors are open, what is watched of each, and     *)
(* which wait to be reported. What is true of a descriptor (its level) is  *)
(* a subset of {"in", "out", "err"} and belongs to the module that uses    *)
(* this one. Errors are reported whether or not they are watched.          *)
(***************************************************************************)
EXTENDS Integers

CONSTANT Fd

VARIABLE k   \* the kernel: open descriptors, what is watched, what is ready

NoKernel == [open |-> {}, watched |-> [f \in Fd |-> {}], ready |-> {}]

Kernels == [open : SUBSET Fd, watched : [Fd -> SUBSET {"in", "out"}], ready : SUBSET Fd]

\* What epoll_wait would say of a descriptor.
Reports(e, f, level) == IF e.watched[f] = {} THEN {} ELSE (e.watched[f] \cup {"err"}) \cap level

\* EPOLL_CTL_ADD, MOD and DEL: when they succeed, and what they do then.
CanAdd(e, f) == f \in e.open /\ e.watched[f] = {}
CanMod(e, f) == f \in e.open /\ e.watched[f] # {}

Watch(e, f, events, level) ==
  LET w == [e EXCEPT !.watched[f] = events]
  IN  [w EXCEPT !.ready = IF Reports(w, f, level) # {} THEN @ \cup {f} ELSE @ \ {f}]

Unwatch(e, f) == [e EXCEPT !.watched[f] = {}, !.ready = @ \ {f}]

\* The level of f has risen to the one given: an edge.
Edge(e, f, level) ==
  IF Reports(e, f, level) # {} THEN [e EXCEPT !.ready = @ \cup {f}] ELSE e

Open(e, f)  == [e EXCEPT !.open = @ \cup {f}]
Close(e, f) == [Unwatch(e, f) EXCEPT !.open = @ \ {f}]

\* accept and socket hand out the lowest descriptor that is free.
IsLowestFree(e, f) == f \notin e.open /\ \A g \in Fd : g < f => g \in e.open
=============================================================================
