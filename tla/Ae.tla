--------------------------------- MODULE Ae ---------------------------------
(***************************************************************************)
(* The file events of the event loop in pubsub/ae.c and ae_epoll.c: what a *)
(* program registers, what the kernel is told of it, and the part of       *)
(* aeProcessEvents that polls and calls handlers. Time events are AeTime.  *)
(*                                                                         *)
(* The operators of the API take and give the pair [el, k] of the loop and *)
(* the kernel, so that a handler can make several calls in one step.       *)
(***************************************************************************)
EXTENDS Integers, SequencesExt, Epoll

CONSTANTS
  SetSize,   \* setsize of aeCreateEventLoop, and the largest ever set
  Procs,     \* the handlers a program registers
  NoProc

ASSUME AeAssumption ==
  /\ SetSize \in Nat \ {0} /\ Fd = 0 .. SetSize - 1 /\ NoProc \notin Procs

VARIABLES
  el,     \* the event loop: mask, rproc and wproc of events[], and maxfd
  fired,  \* what aeApiPoll reported and is not handled yet
  pc      \* "setup", "top" (in epoll_wait), "next", "inR", "inW", "stopped"

AE_READABLE == "R"
AE_WRITABLE == "W"
Masks == SUBSET {AE_READABLE, AE_WRITABLE}

\* aeApiAddEvent and aeApiDelEvent assign ee.events once for each flag, so
\* that EPOLLOUT replaces EPOLLIN. (The first operator is a mutant.)
ToEpollIn(m) == IF m # {} THEN {"in"} ELSE {}
ToEpoll(m) == IF AE_WRITABLE \in m THEN {"out"}
              ELSE IF AE_READABLE \in m THEN {"in"} ELSE {}

\* A mutant: the bits of epoll handed on as they are.
FromEpollRaw(r) == r

\* aeApiPoll: errors count as writable.
FromEpoll(r) == (IF "in" \in r THEN {AE_READABLE} ELSE {}) \cup
                (IF r \cap {"out", "err"} # {} THEN {AE_WRITABLE} ELSE {})

NewLoop == [mask |-> [f \in Fd |-> {}], rproc |-> [f \in Fd |-> NoProc],
            wproc |-> [f \in Fd |-> NoProc], maxfd |-> -1, setsize |-> SetSize]

\* aeApiAddEvent fails when the kernel does not know what events[] says.
AddOp(s, f) == IF s.el.mask[f] = {} THEN CanAdd(s.k, f) ELSE CanMod(s.k, f)

\* aeCreateFileEvent
Create(s, f, m, p, level) ==
  LET all == m \cup s.el.mask[f]
  IN  IF f >= s.el.setsize \/ ~AddOp(s, f) THEN s
      ELSE [el |-> [s.el EXCEPT
                     !.mask[f] = all,
                     !.rproc[f] = IF AE_READABLE \in m THEN p ELSE @,
                     !.wproc[f] = IF AE_WRITABLE \in m THEN p ELSE @,
                     !.maxfd = IF f > @ THEN f ELSE @],
            k  |-> Watch(s.k, f, ToEpoll(all), level)]

HighestUsed(mask) == Max({-1} \cup {f \in Fd : mask[f] # {}})

\* aeDeleteFileEvent; the result of epoll_ctl is not looked at.
Delete(s, f, m, level) ==
  IF f >= s.el.setsize \/ s.el.mask[f] = {} THEN s
  ELSE LET rest == s.el.mask[f] \ m
           mask == [s.el.mask EXCEPT ![f] = rest]
       IN  [el |-> [s.el EXCEPT
                     !.mask = mask,
                     !.maxfd = IF f = @ /\ rest = {} THEN HighestUsed(mask) ELSE @],
            k  |-> IF ~CanMod(s.k, f) THEN s.k
                   ELSE IF rest # {} THEN Watch(s.k, f, ToEpoll(rest), level)
                   ELSE Unwatch(s.k, f)]

\* aeResizeSetSize. Its loop clears from maxfd on, that entry included.
Resize(s, n) ==
  IF n = s.el.setsize \/ s.el.maxfd >= n THEN s
  ELSE [s EXCEPT !.el.mask = [f \in Fd |-> IF f < s.el.maxfd THEN @[f] ELSE {}],
                 !.el.setsize = n]

State == [el |-> el, k |-> k]
Becomes(s) == el' = s.el /\ k' = s.k

----------------------------------------------------------------------------
(* aeMain and the file events of aeProcessEvents.                          *)

Due(level) == {f \in k.ready : Reports(k, f, level[f]) # {}}

\* epoll_wait reports the ready descriptors in some order; aeApiPoll copies.
Poll(level) ==
  /\ pc = "top"
  /\ Due(level) # {}
  /\ \E order \in SetToSeqs(Due(level)) :
       fired' = [n \in DOMAIN order |->
                  [fd |-> order[n], mask |-> FromEpoll(Reports(k, order[n], level[order[n]]))]]
  /\ k' = [k EXCEPT !.ready = {}]
  /\ pc' = "next"
  /\ UNCHANGED el

\* epoll_wait comes back without a file event, for a timer or a signal.
\* (A mutant: there is no timer.)
PollEmptyNever(level) == FALSE
PollEmpty(level) ==
  /\ pc = "top"
  /\ Due(level) = {}
  /\ pc' = "next"
  /\ UNCHANGED <<el, k, fired>>

Now == Head(fired)
\* A mutant: the second handler is in an else.
WantsRead(m) == m = AE_READABLE /\ m \in el.mask[Now.fd] /\ m \in Now.mask
Wants(m) == m \in el.mask[Now.fd] /\ m \in Now.mask

CallRead ==
  /\ pc = "next" /\ fired # <<>>
  /\ Wants(AE_READABLE)
  /\ pc' = "inR"
  /\ UNCHANGED <<el, k, fired>>

\* The write handler runs after the read handler unless it is the same one.
CallWrite ==
  /\ fired # <<>>
  /\ \/ pc = "next" /\ ~Wants(AE_READABLE)
     \/ pc = "inR" /\ el.wproc[Now.fd] # el.rproc[Now.fd]
  /\ Wants(AE_WRITABLE)
  /\ pc' = "inW"
  /\ UNCHANGED <<el, k, fired>>

Handled ==
  /\ fired # <<>>
  /\ \/ pc = "next" /\ ~Wants(AE_READABLE) /\ ~Wants(AE_WRITABLE)
     \/ pc = "inR" /\ (Wants(AE_WRITABLE) => el.wproc[Now.fd] = el.rproc[Now.fd])
     \/ pc = "inW"
  /\ pc' = "next" /\ fired' = Tail(fired)
  /\ UNCHANGED <<el, k>>

\* Around, unless aeStop was called.
Around(stop) ==
  /\ pc = "next" /\ fired = <<>>
  /\ pc' = IF stop THEN "stopped" ELSE "top"
  /\ UNCHANGED <<el, k, fired>>

----------------------------------------------------------------------------
AeTypeOK ==
  /\ el \in [mask : [Fd -> Masks], rproc : [Fd -> Procs \cup {NoProc}],
             wproc : [Fd -> Procs \cup {NoProc}],
             maxfd : -1 .. SetSize - 1, setsize : 1 .. SetSize]
  /\ k \in Kernels
  /\ fired \in Seq([fd : Fd, mask : Masks])
  /\ pc \in {"setup", "top", "next", "inR", "inW", "stopped"}

\* events[] holds the "Registered events" (ae.h): the kernel watches exactly
\* what it says, and nothing stays registered of a descriptor that is closed.
InterestAgrees ==
  \A f \in Fd : k.watched[f] = (IF AE_READABLE \in el.mask[f] THEN {"in"} ELSE {}) \cup
                               (IF AE_WRITABLE \in el.mask[f] THEN {"out"} ELSE {})

\* maxfd decides whether the loop polls at all and how far it may shrink.
MaxfdRight == el.maxfd = HighestUsed(el.mask)

\* Nothing is registered above maxfd, whatever the program did: what
\* aeResizeSetSize gives up holds no handler.
MaxfdCovers == \A f \in Fd : el.mask[f] # {} => f <= el.maxfd
=============================================================================
