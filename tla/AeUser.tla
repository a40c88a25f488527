------------------------------- MODULE AeUser -------------------------------
(***************************************************************************)
(* Any program on the event loop of pubsub/ae.c: handlers that register,   *)
(* unregister, open, close and read descriptors in every order, also those *)
(* of events that were reported and not handled yet.                       *)
(***************************************************************************)
EXTENDS Ae

VARIABLES
  tidy,   \* how the program behaves, see Tidy
  level,  \* what is true of each descriptor
  seen    \* the flags whose handler ran since the last edge (a history)

vars == <<el, k, fired, pc, tidy, level, seen>>

\* A tidy program unregisters a descriptor before it closes it, registers one
\* kind of event at a time and never resizes; others do as they like.
Tidy(keeps) == tidy => keeps

Init ==
  /\ el = NewLoop /\ k = NoKernel /\ fired = <<>> /\ pc = "setup"
  /\ tidy \in BOOLEAN
  /\ level = [f \in Fd |-> {}] /\ seen = [f \in Fd |-> {}]

\* Code of the program runs before aeMain and inside a handler.
InProgram == pc \in {"setup", "inR", "inW"}

Register(f, m, p) ==
  /\ InProgram /\ m # {}
  /\ Tidy(Cardinality(m) = 1 /\ el.mask[f] \subseteq m)
  /\ Becomes(Create(State, f, m, p, level[f]))
  /\ seen' = [seen EXCEPT ![f] = IF f < el.setsize /\ AddOp(State, f) THEN {} ELSE @]
  /\ UNCHANGED <<fired, pc, tidy, level>>

Unregister(f, m) ==
  /\ InProgram /\ m # {}
  /\ Becomes(Delete(State, f, m, level[f]))
  /\ seen' = [seen EXCEPT ![f] = {}]
  /\ UNCHANGED <<fired, pc, tidy, level>>

OpenFd(f) ==
  /\ InProgram /\ IsLowestFree(k, f)
  /\ k' = Open(k, f)
  /\ level' = [level EXCEPT ![f] = {"out"}] /\ seen' = [seen EXCEPT ![f] = {}]
  /\ UNCHANGED <<el, fired, pc, tidy>>

CloseFd(f) ==
  /\ InProgram /\ f \in k.open
  /\ Tidy(el.mask[f] = {})
  /\ k' = Close(k, f)
  /\ level' = [level EXCEPT ![f] = {}] /\ seen' = [seen EXCEPT ![f] = {}]
  /\ UNCHANGED <<el, fired, pc, tidy>>

\* Reads until EAGAIN, or writes until it.
Use(f, e) ==
  /\ InProgram /\ e \in level[f]
  /\ level' = [level EXCEPT ![f] = @ \ {e}]
  /\ UNCHANGED <<el, k, fired, pc, tidy, seen>>

\* With maxfd = -1 aeResizeSetSize writes before the array; that is left out.
ResizeSet(n) ==
  /\ ~tidy /\ InProgram /\ el.maxfd # -1
  /\ Becomes(Resize(State, n))
  /\ UNCHANGED <<fired, pc, tidy, level, seen>>

Start ==
  /\ pc = "setup" /\ pc' = "top"
  /\ UNCHANGED <<el, k, fired, tidy, level, seen>>

\* The other side sends, or makes room.
Arrive(f, e) ==
  /\ f \in k.open /\ e \notin level[f]
  /\ level' = [level EXCEPT ![f] = @ \cup {e}]
  /\ k' = Edge(k, f, level'[f])
  /\ seen' = [seen EXCEPT ![f] = @ \ FromEpoll({e})]
  /\ UNCHANGED <<el, fired, pc, tidy>>

Called(m) == seen' = [seen EXCEPT ![Now.fd] = @ \cup m]

Loop ==
  \/ (Poll(level) \/ PollEmpty(level) \/ Handled \/ Around(FALSE)) /\ UNCHANGED seen
  \/ CallRead /\ Called({AE_READABLE} \cup
       (IF el.rproc[Now.fd] = el.wproc[Now.fd] THEN Now.mask ELSE {}))
  \/ CallWrite /\ Called({AE_WRITABLE})

Next ==
  \/ \E f \in Fd, m \in Masks : Unregister(f, m) \/ \E p \in Procs : Register(f, m, p)
  \/ \E f \in Fd : OpenFd(f) \/ CloseFd(f)
  \/ \E f \in Fd, e \in {"in", "out"} : Use(f, e) \/ Arrive(f, e)
  \/ \E n \in 1 .. SetSize : ResizeSet(n)
  \/ Start
  \/ Loop /\ UNCHANGED <<tidy, level>>

Spec == Init /\ [][Next]_vars

----------------------------------------------------------------------------
TypeOK ==
  /\ AeTypeOK /\ tidy \in BOOLEAN
  /\ level \in [Fd -> SUBSET {"in", "out"}] /\ seen \in [Fd -> Masks]

\* Nothing is registered above maxfd, whatever the program does, or the loop
\* might not poll; a tidy one finds the loop, the kernel and maxfd in
\* agreement. (Each of the three things that tidiness forbids breaks that:
\* see README.md.)
Agreement == MaxfdCovers /\ Tidy(InterestAgrees /\ MaxfdRight)

\* Edges are reported once: whatever is ready and registered is reported by
\* the next poll, or is in fired and will be handled, or its handler has run
\* since. Registering and unregistering between the two must not lose it.
NoMissedEdge ==
  Tidy(\A f \in Fd : \A m \in el.mask[f] \cap FromEpoll(level[f]) :
         \/ f \in k.ready
         \/ m \in seen[f]
         \/ \E n \in DOMAIN fired : fired[n].fd = f /\ m \in fired[n].mask)
=============================================================================
