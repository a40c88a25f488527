------------------------------- MODULE AeTime -------------------------------
(***************************************************************************)
(* The time events of the event loop in pubsub/ae.c: the list of timers,   *)
(* how long aeProcessEvents sleeps, and processTimeEvents, which calls     *)
(* handlers that create and delete timers, themselves included.            *)
(*                                                                         *)
(* The clock counts milliseconds; a second has K of them. It goes on at    *)
(* every step and may be set back.                                         *)
(***************************************************************************)
EXTENDS Integers, Sequences, SequencesExt

CONSTANTS
  K,           \* milliseconds in a second
  HalfInt,     \* an int has the values -HalfInt .. HalfInt - 1
  MaxClock,    \* the clock is followed to here
  MaxTimers,   \* how many timers are ever created
  Durations,   \* given to aeCreateTimeEvent and returned by handlers
  SelfDelete,  \* a handler may delete the timer it is called for
  MaySetBack   \* the clock is set back once

ASSUME TimeAssumption ==
  /\ K \in Nat \ {0} /\ MaxClock \in Nat /\ K <= MaxClock /\ HalfInt \in Nat \ {0}
  /\ MaxTimers \in Nat /\ Durations \subseteq Nat
  /\ SelfDelete \in BOOLEAN /\ MaySetBack \in BOOLEAN

VARIABLES
  clock,
  quick,     \* a pass over the timers takes less than a millisecond
  timers,    \* the list, head first: id, when_sec, when_ms
  nextId,    \* timeEventNextId
  lastTime,  \* the second of the last pass
  pc,        \* "setup", "program", "top", "asleep", "scan", "call"
  te,        \* the timer the scan points to, by its id, or None
  maxId,     \* the newest timer this pass may call
  left,      \* how long epoll_wait still sleeps, or Forever
  due,       \* the time each timer of the list was set to (a history)
  setBack,   \* the clock was set back (a history)
  wild       \* freed memory was used (a history)

vars == <<clock, quick, timers, nextId, lastTime, pc, te, maxId, left, due, setBack, wild>>

Ids == 0 .. MaxTimers - 1
None == -1
Forever == -1
NoMore == -1           \* AE_NOMORE

\* aeGetTime
Sec == clock \div K
Ms  == clock % K

\* aeAddMillisecondsToNow; the first is a mutant without the carry.
WhenFlat(d) == <<Sec + (d \div K), Ms + (d % K)>>
When(d) == LET ms == Ms + (d % K)
               sec == Sec + (d \div K)
           IN  IF ms >= K THEN <<sec + 1, ms - K>> ELSE <<sec, ms>>

Live == {timers[n].id : n \in DOMAIN timers}
At(id) == CHOOSE n \in DOMAIN timers : timers[n].id = id
HeadId == IF timers = <<>> THEN None ELSE Head(timers).id
After(id) == IF At(id) = Len(timers) THEN None ELSE timers[At(id) + 1].id

Earlier(a, b) == a.sec < b.sec \/ (a.sec = b.sec /\ a.ms < b.ms)

\* aeSearchNearestTimer: the first of the earliest.
Nearest == CHOOSE t \in ToSet(timers) :
             /\ \A u \in ToSet(timers) : ~Earlier(u, t)
             /\ \A n \in DOMAIN timers : n < At(t.id) => Earlier(t, timers[n])

----------------------------------------------------------------------------
(* What the program may do: before aeMain, in file and in time handlers.   *)

InProgram == pc \in {"setup", "program", "call"}

CreateTimer(d) ==
  /\ InProgram /\ nextId < MaxTimers
  /\ timers' = <<[id |-> nextId, sec |-> When(d)[1], ms |-> When(d)[2]]>> \o timers
  /\ nextId' = nextId + 1
  /\ due' = [due EXCEPT ![nextId] = clock + d]
  /\ UNCHANGED <<clock, quick, lastTime, pc, te, maxId, left, setBack, wild>>

Without(id) == IF id \in Live THEN RemoveAt(timers, At(id)) ELSE timers

\* aeDeleteTimeEvent; an unknown id is an error and changes nothing.
DeleteTimer(id) ==
  /\ InProgram
  /\ pc = "call" /\ id = te => SelfDelete
  /\ timers' = Without(id) /\ due' = [due EXCEPT ![id] = 0]
  /\ UNCHANGED <<clock, quick, nextId, lastTime, pc, te, maxId, left, setBack, wild>>

\* aeMain starts.
SetupDone ==
  /\ pc = "setup"
  /\ pc' = "top"
  /\ UNCHANGED <<clock, quick, timers, nextId, lastTime, te, maxId, left, due, setBack, wild>>

\* The file handlers of this round are done; processTimeEvents begins. A
\* clock that was set back makes every timer due.
ProgramDone ==
  /\ pc = "program"
  /\ timers' = [n \in DOMAIN timers |->
                  IF Sec < lastTime THEN [timers[n] EXCEPT !.sec = 0] ELSE timers[n]]
  /\ lastTime' = Sec
  /\ te' = HeadId /\ maxId' = nextId - 1
  /\ pc' = "scan"
  /\ UNCHANGED <<clock, quick, nextId, left, due, setBack, wild>>

----------------------------------------------------------------------------
(* The sleep.                                                              *)

\* A mutant: a negative number of seconds is handed to epoll_wait.
ClampNot(n) == n
Clamp(n) == IF n < 0 THEN 0 ELSE n

\* tv in milliseconds, from the time the nearest timer is set to.
SleepFor(t) ==
  LET borrow == t.ms < Ms
      ms  == IF borrow THEN t.ms + K - Ms ELSE t.ms - Ms
      sec == IF borrow THEN t.sec - Sec - 1 ELSE t.sec - Sec
      all == Clamp(sec) * K + Clamp(ms)
  IN  IF all < 0 THEN Forever ELSE all

\* aeApiPoll makes an int of it, which may be negative then, and epoll_wait
\* sleeps without end.
Narrowed(n) == ((n + HalfInt) % (2 * HalfInt)) - HalfInt
Timeout(n) == IF Narrowed(n) < 0 THEN Forever ELSE Narrowed(n)

Sleep ==
  /\ pc = "top"
  /\ left' = IF timers = <<>> THEN Forever ELSE Timeout(SleepFor(Nearest))
  /\ pc' = "asleep"
  /\ UNCHANGED <<clock, quick, timers, nextId, lastTime, te, maxId, due, setBack, wild>>

\* For a file event, or because the time is over.
Woken ==
  /\ pc = "asleep"
  /\ pc' = "program" /\ left' = Forever
  /\ UNCHANGED <<clock, quick, timers, nextId, lastTime, te, maxId, due, setBack, wild>>

----------------------------------------------------------------------------
(* processTimeEvents.                                                      *)

\* A mutant: over as soon as the millisecond is reached.
DueAt(t) == Sec > t.sec \/ (Sec = t.sec /\ Ms >= t.ms)
Due(t) == Sec > t.sec \/ (Sec = t.sec /\ Ms > t.ms)

\* Where te is freed memory, its next is anything: the scan ends.
Scan ==
  /\ pc = "scan" /\ te # None
  /\ wild' = (wild \/ te \notin Live)
  /\ IF te \in Live /\ te <= maxId /\ Due(timers[At(te)])
     THEN pc' = "call" /\ UNCHANGED te
     ELSE te' = (IF te \in Live THEN After(te) ELSE None) /\ UNCHANGED pc
  /\ UNCHANGED <<clock, quick, timers, nextId, lastTime, maxId, left, due, setBack>>

PassDone ==
  /\ pc = "scan" /\ te = None
  /\ pc' = "top" /\ maxId' = None
  /\ UNCHANGED <<clock, quick, timers, nextId, lastTime, te, left, due, setBack, wild>>

\* Where the scan goes on after a handler, which may have changed the list.
\* (The first is a mutant: it goes on from the timer it called.)
Stay(id) == id
GoOn(id) == HeadId'

\* The handler returns retval: the timer is set again, or deleted by its id.
\* Set again, te is written to, whether or not the handler deleted it.
Return(retval) ==
  /\ pc = "call"
  /\ IF retval = NoMore
     THEN /\ timers' = Without(te) /\ due' = [due EXCEPT ![te] = 0]
          /\ UNCHANGED wild
     ELSE IF te \in Live
     THEN /\ timers' = [timers EXCEPT ![At(te)].sec = When(retval)[1],
                                      ![At(te)].ms  = When(retval)[2]]
          /\ due' = [due EXCEPT ![te] = clock + retval]
          /\ UNCHANGED wild
     ELSE wild' = TRUE /\ UNCHANGED <<timers, due>>
  /\ te' = GoOn(te)
  /\ pc' = "scan"
  /\ UNCHANGED <<clock, quick, nextId, lastTime, maxId, left, setBack>>

----------------------------------------------------------------------------
(* Time.                                                                   *)

Tick ==
  /\ quick => pc \in {"setup", "program", "asleep"}
  /\ clock < MaxClock \/ (pc = "asleep" /\ left > 0)
  /\ clock' = IF clock < MaxClock THEN clock + 1 ELSE clock
  /\ left' = IF pc = "asleep" /\ left > 0 THEN left - 1 ELSE left
  /\ UNCHANGED <<quick, timers, nextId, lastTime, pc, te, maxId, due, setBack, wild>>

\* To a time that is still after the epoch's first second.
SetBack ==
  /\ MaySetBack /\ ~setBack
  /\ \E t \in K .. clock - 1 : clock' = t
  /\ setBack' = TRUE
  /\ UNCHANGED <<quick, timers, nextId, lastTime, pc, te, maxId, left, due, wild>>

Init ==
  /\ clock = K /\ quick \in BOOLEAN /\ timers = <<>> /\ nextId = 0 /\ lastTime = Sec
  /\ pc = "setup" /\ te = None /\ maxId = None /\ left = Forever
  /\ due = [id \in Ids |-> 0] /\ setBack = FALSE /\ wild = FALSE

Program == (\E d \in Durations : CreateTimer(d)) \/ (\E id \in Ids : DeleteTimer(id))

Returned == \E retval \in Durations \cup {NoMore} : Return(retval)

Loop == SetupDone \/ ProgramDone \/ Sleep \/ Scan \/ PassDone \/ Returned

Next == Program \/ Loop \/ Woken \/ Tick \/ SetBack

Spec == Init /\ [][Next]_vars

----------------------------------------------------------------------------
TypeOK ==
  /\ clock \in K .. MaxClock /\ quick \in BOOLEAN
  /\ timers \in Seq([id : Ids, sec : Nat, ms : 0 .. K - 1])
  /\ nextId \in 0 .. MaxTimers /\ maxId \in Ids \cup {None}
  /\ lastTime \in 0 .. MaxClock
  /\ pc \in {"setup", "program", "top", "asleep", "scan", "call"}
  /\ te \in Ids \cup {None}
  /\ left \in Nat \cup {Forever}
  /\ due \in [Ids -> Nat] /\ setBack \in BOOLEAN /\ wild \in BOOLEAN

\* "restart from list head after process an event, cauz list may be changed":
\* whatever handlers create and delete, no timer is used after it was freed.
NoUseAfterFree == ~wild

\* A timer is called when its time is over, through the carries between
\* seconds and milliseconds, however often it was set; unless the clock was
\* set back, which makes all timers due on purpose.
NeverEarly == pc = "scan" /\ pc' = "call" /\ ~setBack => due[te] < clock

\* aeProcessEvents does not sleep long past a timer. (Nor should it at all:
\* but the seconds and the milliseconds left are clamped each for itself, so
\* that it sleeps while a timer is over, though for less than a second.) This
\* is of the timers that are over before an int has no more milliseconds, 24
\* days: with none but later ones the timeout may become negative.
Fits(id) == Clamp(due[id] - clock) + K <= HalfInt
OversleepsUnderASecond ==
  pc = "top" /\ pc' = "asleep" =>
    \A id \in Live : ~setBack /\ Fits(id) => left' \in 0 .. Clamp(due[id] - clock) + K - 1

\* No timer is called early, and none is slept past by a second that an int can
\* wait for.
OnTime == [][NeverEarly /\ OversleepsUnderASecond]_vars

\* A pass over the timers ends, also when handlers ask to be called again at
\* once and create timers that are due at once. (Of a quick pass only: the
\* scan starts again after each call, so a timer that is over again when its
\* handler returns is called in the same pass, for ever.)
PassEnds == quick /\ pc = "scan" ~> pc = "top"

\* Every timer is called or deleted, also when the clock is set back, and
\* every pass ends: of the timers that are set to a time the clock comes to,
\* and that an int can wait for wherever the clock is set back to.
Comes(id) == id \in Live /\ due[id] < MaxClock /\ due[id] <= HalfInt
Fires ==
  /\ PassEnds
  /\ \A id \in Ids : quick /\ Comes(id) ~> ~Comes(id)
=============================================================================
