---------------------------- MODULE XthreadDemo ----------------------------
(***************************************************************************)
(* utils/thread: xthread_demo.c starts a thread with xthread_create and    *)
(* waits on a condition until the thread has counted. xthread_create gives *)
(* 1 for a thread and 0 for none; main looks for less than 0.              *)
(***************************************************************************)
EXTENDS Naturals

VARIABLES
  mutex,      \* who holds it: "free", "main", "proc"
  waiting,    \* main is in pthread_cond_wait, not yet woken
  count,
  at,         \* main: "create", "lock", "check", "wait", "unlock", "over"
  proc        \* the thread: "none", "lock", "count", "signal", "unlock", "ended"

demoVars == <<mutex, waiting, count, at, proc>>

Lock(who) == mutex = "free" /\ mutex' = who
Unlock(who) == mutex = who /\ mutex' = "free"

----------------------------------------------------------------------------
Create ==
  /\ at = "create" /\ at' = "lock"
  /\ proc' \in {"none", "lock"}
  /\ UNCHANGED <<mutex, waiting, count>>

MainLock ==
  /\ at = "lock" /\ Lock("main") /\ at' = "check"
  /\ UNCHANGED <<waiting, count, proc>>

\* while (count == 0): the wait gives the mutex up.
Check ==
  /\ at = "check"
  /\ IF count = 0
     THEN at' = "wait" /\ waiting' = TRUE /\ Unlock("main")
     ELSE at' = "unlock" /\ UNCHANGED <<waiting, mutex>>
  /\ UNCHANGED <<count, proc>>

\* pthread_cond_wait may also return for nothing.
Spurious ==
  /\ waiting /\ waiting' = FALSE
  /\ UNCHANGED <<mutex, count, at, proc>>

\* It returns with the mutex.
Woken ==
  /\ at = "wait" /\ ~waiting /\ Lock("main") /\ at' = "check"
  /\ UNCHANGED <<waiting, count, proc>>

MainUnlock ==
  /\ at = "unlock" /\ Unlock("main") /\ at' = "over"
  /\ UNCHANGED <<waiting, count, proc>>

Main == Create \/ MainLock \/ Check \/ Woken \/ MainUnlock

----------------------------------------------------------------------------
ProcLock ==
  /\ proc = "lock" /\ Lock("proc") /\ proc' = "count"
  /\ UNCHANGED <<waiting, count, at>>

Count ==
  /\ proc = "count" /\ count' = count + 1 /\ proc' = "signal"
  /\ UNCHANGED <<mutex, waiting, at>>

\* (Mutant: nobody is woken.)
WokenNot == waiting
WokenOne == FALSE

Signal ==
  /\ proc = "signal" /\ waiting' = WokenOne /\ proc' = "unlock"
  /\ UNCHANGED <<mutex, count, at>>

ProcUnlock ==
  /\ proc = "unlock" /\ Unlock("proc") /\ proc' = "ended"
  /\ UNCHANGED <<waiting, count, at>>

\* The end of main ends the thread too.
TestProc == at # "over" /\ (ProcLock \/ Count \/ Signal \/ ProcUnlock)

----------------------------------------------------------------------------
Init ==
  /\ mutex = "free" /\ waiting = FALSE /\ count = 0
  /\ at = "create" /\ proc = "none"

Next == Main \/ TestProc \/ Spurious

----------------------------------------------------------------------------
\* Whoever takes the mutex first, main sees the count and ends; unless there was
\* no thread, which main does not notice: it waits for ever.
Ends == at = "over" \/ (at # "create" /\ proc = "none")
=============================================================================
