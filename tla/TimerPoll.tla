----------------------------- MODULE TimerPoll -----------------------------
(***************************************************************************)
(* utils/timerfd: a map of timers on descriptors, one thread that adds,    *)
(* changes and deletes timers, and one in run() that waits for them on an  *)
(* edge-triggered epoll and calls their callbacks. There is no lock.       *)
(*                                                                         *)
(* A timer is known by its descriptor. Callers are as main.cc is: timers   *)
(* are made before the first is added, are added once, live as long as     *)
(* run(), and are not used after they were deleted or stopped.             *)
(***************************************************************************)
EXTENDS Naturals, Sequences, SequencesExt

CONSTANTS
  Timer,    \* descriptors of the timers; 0 is the one of timer()
  Repeats   \* those that repeat

VARIABLES
  open,       \* descriptors
  armed, expired,    \* the kernel's timers: set, and over and not yet read
  watched, ready,    \* epoll: the timers it watches, those with an edge
  timers_map, \* from descriptors to copies of the timers
  todo,       \* what the call of the first thread still has to do
  about,      \* for which timer
  changed,    \* timer_modify_internal was called (a bound: once)
  active,
  events,     \* what epoll_wait gave and run() has not handled
  pc,         \* run(): "wait", "next", "read", "call", "over"
  raced       \* the map was changed while it was used (a history)

kernelVars == <<open, armed, expired, watched, ready>>
callVars == <<timers_map, todo, about, changed, active>>
runVars == <<events, pc, raced>>
timerVars == <<kernelVars, callVars, runVars>>

\* The copy constructor and operator=: the descriptor is shared.
Copied(t) == [timer_id |-> t, repeat |-> t \in Repeats]

\* close, also by ~timer.
Closes(f) ==
  /\ open' = open \ {f} /\ armed' = armed \ {f} /\ expired' = expired \ {f}
  /\ watched' = watched \ {f} /\ ready' = ready \ {f}

\* timerfd_settime, of a descriptor that is open.
Starts(t) ==
  /\ armed' = armed \cup ({t} \cap open) /\ expired' = expired \ {t}
  /\ UNCHANGED <<open, watched, ready>>

----------------------------------------------------------------------------
(* The first thread.                                                       *)

\* What the calls do one after the other. A change of the map has a beginning
\* and an end. (Mutant: the timer runs before run() can find it.)
AddStartsFirst == <<"watch", "start", "insert", "inserted">>
AddSteps == <<"insert", "inserted", "watch", "start">>
DelSteps == <<"unwatch", "erase", "erased">>

Changing == todo # <<>> /\ Head(todo) \in {"inserted", "erased"}

Begin(t, steps) ==
  /\ todo = <<>>
  /\ todo' = steps /\ about' = t
  /\ UNCHANGED <<kernelVars, timers_map, changed, active, runVars>>

Add(t) == t \in open /\ t \notin DOMAIN timers_map /\ Begin(t, AddSteps)
Del(t) == t \in open /\ t \in DOMAIN timers_map /\ Begin(t, DelSteps)

Does(step) ==
  /\ todo # <<>> /\ Head(todo) = step
  /\ todo' = Tail(todo)
  /\ UNCHANGED <<about, changed, active, runVars>>

StartChange ==
  /\ Does("insert") \/ Does("erase")
  /\ UNCHANGED <<kernelVars, timers_map>>

\* timers_map[id] = ptimer: operator[] may make timers that are timer() and
\* destroys them, which closes descriptor 0.
Insert ==
  /\ Does("inserted")
  /\ timers_map' = [t \in DOMAIN timers_map \cup {about} |->
                      IF t = about THEN Copied(t) ELSE timers_map[t]]
  /\ open' \in {open, open \ {0}}
  /\ UNCHANGED <<armed, expired, watched, ready>>

\* EPOLL_CTL_ADD with EPOLLET reports what is over already.
Watch ==
  /\ Does("watch")
  /\ watched' = watched \cup {about} /\ ready' = ready \cup ({about} \cap expired)
  /\ UNCHANGED <<open, armed, expired, timers_map>>

Start == Does("start") /\ Starts(about) /\ UNCHANGED timers_map

Unwatch ==
  /\ Does("unwatch")
  /\ watched' = watched \ {about} /\ ready' = ready \ {about}
  /\ UNCHANGED <<open, armed, expired, timers_map>>

\* The copy that is erased closes the descriptor of the timer it was made of.
Erase ==
  /\ Does("erased")
  /\ Closes(timers_map[about].timer_id)
  /\ timers_map' = [t \in DOMAIN timers_map \ {about} |-> timers_map[t]]

Call == StartChange \/ Insert \/ Watch \/ Start \/ Unwatch \/ Erase

Modify(t) ==
  /\ todo = <<>> /\ t \in open /\ ~changed
  /\ changed' = TRUE
  /\ Starts(t)
  /\ UNCHANGED <<timers_map, todo, about, active, runVars>>

Stop(t) ==
  /\ todo = <<>> /\ t \in open
  /\ Closes(t)
  /\ UNCHANGED <<callVars, runVars>>

Deactive ==
  /\ todo = <<>> /\ active
  /\ active' = FALSE
  /\ UNCHANGED <<kernelVars, timers_map, todo, about, changed, runVars>>

----------------------------------------------------------------------------
\* The time of a timer is over.
Expire(t) ==
  /\ t \in armed
  /\ armed' = IF t \in Repeats THEN armed ELSE armed \ {t}
  /\ expired' = expired \cup {t} /\ ready' = ready \cup ({t} \cap watched)
  /\ UNCHANGED <<open, watched, callVars, runVars>>

----------------------------------------------------------------------------
(* run().                                                                  *)

\* epoll_wait leaves out what is no longer readable.
Wait ==
  /\ pc = "wait" /\ ready \cap expired # {}
  /\ events' \in SetToSeqs(ready \cap expired)
  /\ ready' = {}
  /\ pc' = "next"
  /\ UNCHANGED <<open, armed, expired, watched, callVars, raced>>

\* An event of a timer that was deleted meanwhile is dropped. A search while
\* the map is changed finds the timer or not.
Find ==
  /\ pc = "next" /\ events # <<>>
  /\ raced' = (raced \/ Changing)
  /\ \E found \in BOOLEAN :
       /\ ~Changing => found = (Head(events) \in DOMAIN timers_map)
       /\ pc' = IF found THEN "read" ELSE "next"
       /\ events' = IF found THEN events ELSE Tail(events)
  /\ UNCHANGED <<kernelVars, callVars>>

\* Until there is nothing to read.
Read ==
  /\ pc = "read"
  /\ pc' = "call"
  /\ expired' = expired \ {Head(events)}
  /\ UNCHANGED <<open, armed, watched, ready, callVars, events, raced>>

\* The callback, with the copy the iterator points to.
Callback ==
  /\ pc = "call"
  /\ raced' = (raced \/ Head(events) \notin DOMAIN timers_map)
  /\ events' = Tail(events) /\ pc' = "next"
  /\ UNCHANGED <<kernelVars, callVars>>

RoundDone ==
  /\ pc = "next" /\ events = <<>>
  /\ pc' = IF active THEN "wait" ELSE "over"
  /\ UNCHANGED <<kernelVars, callVars, events, raced>>

Run == Wait \/ Find \/ Read \/ Callback \/ RoundDone

----------------------------------------------------------------------------
Init ==
  /\ open = Timer \cup {0}
  /\ armed = {} /\ expired = {} /\ watched = {} /\ ready = {}
  /\ timers_map = [t \in {} |-> 0] /\ todo = <<>> /\ about = 0
  /\ changed = FALSE /\ active = TRUE
  /\ events = <<>> /\ pc = "next" /\ raced = FALSE

User == (\E t \in Timer : Add(t) \/ Del(t) \/ Modify(t) \/ Stop(t)) \/ Deactive

Next == User \/ Call \/ (\E t \in Timer : Expire(t)) \/ Run

----------------------------------------------------------------------------
\* A timer is over, of those run() can find.
Over(t) == t \in expired /\ t \in DOMAIN timers_map

\* It is called; or it was deleted or stopped, run() was told to end, or the
\* map was changed while run() used it.
Called(t) ==
  \/ pc = "call" /\ Head(events) = t
  \/ t \notin DOMAIN timers_map \/ t \notin open \/ ~active \/ raced
=============================================================================
