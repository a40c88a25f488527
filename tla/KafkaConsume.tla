---------------------------- MODULE KafkaConsume ----------------------------
(***************************************************************************)
(* kafka/src/kafka_consume.cpp and kafka_helper.cpp: a thread for each     *)
(* partition puts the messages it fetches into containers, each under a    *)
(* lock of its own; one more thread empties the containers that are full;  *)
(* main starts them all, waits for SIGINT and takes everything down.       *)
(*                                                                         *)
(* A critical section is one step: whoever else wants the lock waits.      *)
(* What the code leaves undefined (a handle destroyed twice or used after  *)
(* it, a join of no thread) kills the program or has no effect.            *)
(***************************************************************************)
EXTENDS Naturals, FiniteSets, SequencesExt

CONSTANTS
  Partitions,   \* how many
  BatchSize,    \* batch_size
  Threshold,    \* a container with more is emptied
  MaxOffset,    \* messages a partition has
  EmptyAt       \* where in a partition are messages without a payload

ASSUME KafkaAssumption ==
  /\ Partitions \in Nat \ {0} /\ BatchSize \in Nat \ {0}
  /\ Threshold \in Nat /\ MaxOffset \in Nat

Part == 1 .. Partitions
Message == Part \X (1 .. MaxOffset)
IsEmpty(m) == m[2] \in EmptyAt

VARIABLES
  g_stop,
  main,      \* "init", "start", "consumers", "wait", "release", "destroy",
             \* "delete", "join", "joinProcess", "locks", "over"
  i,         \* of main's loops
  releases,  \* calls of release() so far
  crashed,
  handler,   \* g_kfkhandler is not NULL
  handle,    \* of each helper: "null", "open", "destroyed"
  threads,   \* m_cthread is not NULL
  lock,      \* g_lock: "none", "ready", "gone"
  cpc,       \* of each consumer: "none", "start", "check", "fetch", "push", "ended"
  ppc,       \* the process thread: "none", "check", "scan", "store", "ended"
  index,     \* its loop
  offset,    \* of each partition, the messages fetched
  batch,     \* of each consumer, what it still has to put away
  g_msgs,    \* the containers
  tpMsg,     \* what the process thread took out
  stored

mainVars == <<main, i, releases, handler, handle, threads, lock>>
consVars == <<cpc, offset, batch>>
procVars == <<ppc, index, tpMsg, stored>>
kafkaVars == <<g_stop, crashed, g_msgs, mainVars, consVars, procVars>>

Undefined == crashed' \in BOOLEAN

\* while (!g_stop) (mutant: while (true)).
GoesOnAlways == TRUE
GoesOn == ~g_stop

\* The end of main's loops over the partitions.
LastRound(k) == k = Partitions

----------------------------------------------------------------------------
(* Consumer p: consume() and msg_consume().                                *)

\* A helper is used: the pointer, then the handle in it.
UseHandle(p) ==
  \/ ~handler /\ crashed' = TRUE
  \/ handler /\ handle[p] = "open" /\ UNCHANGED crashed
  \/ handler /\ handle[p] # "open" /\ Undefined

ConsumeStart(p) ==
  /\ cpc[p] = "start"
  /\ UseHandle(p)
  /\ \E result \in {"check", "ended"} : cpc' = [cpc EXCEPT ![p] = result]
  /\ UNCHANGED <<g_stop, g_msgs, offset, batch, mainVars, procVars>>

CheckStop(p) ==
  /\ cpc[p] = "check"
  /\ cpc' = [cpc EXCEPT ![p] = IF GoesOn THEN "fetch" ELSE "ended"]
  /\ UNCHANGED <<g_stop, crashed, g_msgs, offset, batch, mainVars, procVars>>

\* rd_kafka_consume_batch: up to batch_size messages, or none in a second; a
\* handle that is no longer open gives none.
Fetch(p) ==
  /\ cpc[p] = "fetch"
  /\ UseHandle(p)
  /\ \E k \in 0 .. BatchSize :
       /\ offset[p] + k <= MaxOffset
       /\ k > 0 => handler /\ handle[p] = "open"
       /\ offset' = [offset EXCEPT ![p] = @ + k]
       /\ batch' = [batch EXCEPT ![p] = [j \in 1 .. k |-> <<p, offset[p] + j>>]]
       /\ cpc' = [cpc EXCEPT ![p] = IF k = 0 THEN "check" ELSE "push"]
  /\ UNCHANGED <<g_stop, g_msgs, mainVars, procVars>>

\* consume_callback: a message of size 0 is thrown away; another is put into
\* any container, whatever the partition.
Push(p) ==
  /\ cpc[p] = "push"
  /\ IF IsEmpty(Head(batch[p])) THEN UNCHANGED g_msgs
     ELSE \E c \in Part : g_msgs' = [g_msgs EXCEPT ![c] = @ \cup {Head(batch[p])}]
  /\ batch' = [batch EXCEPT ![p] = Tail(@)]
  /\ cpc' = [cpc EXCEPT ![p] = IF Len(batch[p]) = 1 THEN "check" ELSE "push"]
  /\ UNCHANGED <<g_stop, crashed, offset, mainVars, procVars>>

----------------------------------------------------------------------------
(* The process thread: Process().                                          *)

ProcessCheck ==
  /\ ppc = "check"
  /\ ppc' = IF GoesOn THEN "scan" ELSE "ended"
  /\ index' = 1
  /\ UNCHANGED <<g_stop, crashed, g_msgs, tpMsg, stored, mainVars, consVars>>

\* The loop over the containers (mutant: it leaves the last one out).
LastButOne == Partitions - 1
LastIndex == Partitions

Onwards(c) == IF c < LastIndex THEN "scan" ELSE "check"

\* swap and clear (mutant: a copy).
KeepsAll(c) == g_msgs[c]
KeepsNone(c) == {}

ScanContainer ==
  /\ ppc = "scan"
  /\ IF Cardinality(g_msgs[index]) > Threshold
     THEN /\ tpMsg' = g_msgs[index] /\ ppc' = "store"
          /\ g_msgs' = [g_msgs EXCEPT ![index] = KeepsNone(index)]
          /\ UNCHANGED index
     ELSE /\ ppc' = Onwards(index) /\ index' = index + 1
          /\ UNCHANGED <<tpMsg, g_msgs>>
  /\ UNCHANGED <<g_stop, crashed, stored, mainVars, consVars>>

StoreData ==
  /\ ppc = "store"
  /\ \E m \in tpMsg : tpMsg' = tpMsg \ {m} /\ stored' = stored \cup {m}
  /\ IF Cardinality(tpMsg) = 1
     THEN ppc' = Onwards(index) /\ index' = index + 1
     ELSE UNCHANGED <<ppc, index>>
  /\ UNCHANGED <<g_stop, crashed, g_msgs, mainVars, consVars>>

----------------------------------------------------------------------------
(* main(): init(), start(), release().                                     *)

InitOk ==
  /\ main = "init"
  /\ main' = "start" /\ handler' = TRUE /\ threads' = TRUE /\ lock' = "ready"
  /\ handle' = [p \in Part |-> "open"]
  /\ UNCHANGED <<g_stop, crashed, g_msgs, i, releases, consVars, procVars>>

\* No log or no configuration: goto err.
ConfigFails ==
  /\ main = "init"
  /\ main' = "release" /\ releases' = 1
  /\ UNCHANGED <<g_stop, crashed, g_msgs, i, handler, handle, threads, lock, consVars, procVars>>

\* rd_kafka_new failed for the helper p, or it has no broker and no topic:
\* goto err.
InitFails(p) ==
  /\ main = "init"
  /\ main' = "release" /\ handler' = TRUE /\ releases' = 1
  /\ handle' = [q \in Part |-> IF q < p THEN "open" ELSE "null"]
  /\ UNCHANGED <<g_stop, crashed, g_msgs, i, threads, lock, consVars, procVars>>

StartProcess ==
  /\ main = "start"
  /\ \/ ppc' = "check" /\ main' = "consumers" /\ i' = 1
     \/ UNCHANGED <<ppc, i>> /\ main' = "release"
  /\ UNCHANGED <<g_stop, crashed, g_msgs, releases, handler, handle, threads, lock,
                 index, tpMsg, stored, consVars>>

\* One consumer a second; start() returns when it cannot create one.
StartConsumer ==
  /\ main = "consumers"
  /\ \/ /\ cpc' = [cpc EXCEPT ![i] = "start"]
        /\ main' = IF LastRound(i) THEN "wait" ELSE "consumers"
        /\ i' = i + 1
     \/ main' = "release" /\ UNCHANGED <<cpc, i>>
  /\ UNCHANGED <<g_stop, crashed, g_msgs, releases, handler, handle, threads, lock,
                 offset, batch, procVars>>

Sigint ==
  /\ main \in {"start", "consumers", "wait"} /\ ~g_stop
  /\ g_stop' = TRUE
  /\ UNCHANGED <<crashed, g_msgs, mainVars, consVars, procVars>>

StartReturns ==
  /\ main = "wait" /\ g_stop
  /\ main' = "release"
  /\ UNCHANGED <<g_stop, crashed, g_msgs, i, releases, handler, handle, threads, lock,
                 consVars, procVars>>

Release ==
  /\ main = "release"
  /\ g_stop' = TRUE /\ i' = 1
  /\ main' = IF handler THEN "destroy" ELSE IF threads THEN "join" ELSE "joinProcess"
  /\ UNCHANGED <<crashed, g_msgs, releases, handler, handle, threads, lock, consVars, procVars>>

\* consume_destroy(i), of a helper that may not have been opened.
DestroyHandle ==
  /\ main = "destroy"
  /\ IF handle[i] = "open" THEN UNCHANGED crashed ELSE Undefined
  /\ handle' = [handle EXCEPT ![i] = "destroyed"]
  /\ i' = i + 1 /\ main' = IF LastRound(i) THEN "delete" ELSE "destroy"
  /\ UNCHANGED <<g_stop, g_msgs, releases, handler, threads, lock, consVars, procVars>>

\* The destructor of each helper destroys the handle again.
DeleteHandlers ==
  /\ main = "delete"
  /\ Undefined
  /\ handler' = FALSE /\ i' = 1
  /\ main' = IF threads THEN "join" ELSE "joinProcess"
  /\ UNCHANGED <<g_stop, g_msgs, releases, handle, threads, lock, consVars, procVars>>

\* pthread_join of consumer p, who may never have been created (mutant: the
\* thread is not waited for).
DetachedConsumer(p) == TRUE
EndedConsumer(p) == cpc[p] \in {"ended", "none"}

JoinConsumer ==
  /\ main = "join"
  /\ EndedConsumer(i)
  /\ IF cpc[i] = "none" THEN Undefined ELSE UNCHANGED crashed
  /\ i' = i + 1
  /\ IF LastRound(i) THEN main' = "joinProcess" /\ threads' = FALSE
                       ELSE UNCHANGED <<main, threads>>
  /\ UNCHANGED <<g_stop, g_msgs, releases, handler, handle, lock, consVars, procVars>>

\* pthread_join of a thread that was joined before, or never created.
JoinProcess ==
  /\ main = "joinProcess"
  /\ ppc \in {"ended", "none"}
  /\ IF releases = 0 /\ ppc = "ended" THEN UNCHANGED crashed ELSE Undefined
  /\ main' = "locks"
  /\ UNCHANGED <<g_stop, g_msgs, i, releases, handler, handle, threads, lock, consVars, procVars>>

\* The locks go; main falls through to err and calls release() again.
DestroyLocks ==
  /\ main = "locks"
  /\ lock' = IF lock = "ready" THEN "gone" ELSE lock
  /\ releases' = releases + 1
  /\ main' = IF releases = 0 THEN "release" ELSE "over"
  /\ UNCHANGED <<g_stop, crashed, g_msgs, i, handler, handle, threads, consVars, procVars>>

----------------------------------------------------------------------------
KafkaInit ==
  /\ g_stop = FALSE /\ crashed = FALSE /\ main = "init" /\ i = 1 /\ releases = 0
  /\ handler = FALSE /\ handle = [p \in Part |-> "null"]
  /\ threads = FALSE /\ lock = "none"
  /\ cpc = [p \in Part |-> "none"] /\ ppc = "none" /\ index = 1
  /\ offset = [p \in Part |-> 0] /\ batch = [p \in Part |-> <<>>]
  /\ g_msgs = [p \in Part |-> {}] /\ tpMsg = {} /\ stored = {}

Consumer(p) == ConsumeStart(p) \/ CheckStop(p) \/ Fetch(p) \/ Push(p)
Process == ProcessCheck \/ ScanContainer \/ StoreData
Main ==
  \/ InitOk \/ ConfigFails \/ (\E p \in Part : InitFails(p)) \/ StartProcess \/ StartConsumer \/ StartReturns
  \/ Release \/ DestroyHandle \/ DeleteHandlers \/ JoinConsumer \/ JoinProcess \/ DestroyLocks

KafkaNext == ~crashed /\ (Main \/ Sigint \/ Process \/ \E p \in Part : Consumer(p))

KafkaSpec == KafkaInit /\ [][KafkaNext]_kafkaVars

----------------------------------------------------------------------------
Places ==
  {ToSet(batch[p]) : p \in Part} \cup {g_msgs[p] : p \in Part} \cup {tpMsg, stored}

\* Between two locks and five threads a message with a payload is never lost,
\* doubled or left in two places, also while everything is taken down around
\* it; one without is in the batch it came with or nowhere.
Conserved ==
  /\ {m \in UNION Places : ~IsEmpty(m)} =
       {m \in Message : ~IsEmpty(m) /\ m[2] <= offset[m[1]]}
  /\ \A m \in tpMsg \cup stored \cup UNION {g_msgs[p] : p \in Part} : ~IsEmpty(m)
  /\ \A p, q \in Part :
       /\ ToSet(batch[p]) \cap g_msgs[q] = {}
       /\ p # q => g_msgs[p] \cap g_msgs[q] = {}
       /\ (g_msgs[p] \cup ToSet(batch[p])) \cap (tpMsg \cup stored) = {}
  /\ tpMsg \cap stored = {}

\* release() destroys the locks when no thread that takes them is left, also
\* when it follows a start() that failed half way.
LocksOutlive ==
  /\ lock # "ready" => /\ ppc \in {"none", "ended"}
                       /\ \A p \in Part : cpc[p] \in {"none", "ended"}
  /\ lock = "gone" => \A p \in Part : batch[p] = <<>>

\* A container that is full is emptied while the program runs.
Full(p) == Cardinality(g_msgs[p]) > Threshold
Emptied(p) == g_msgs[p] = {} \/ g_stop

\* After SIGINT, or a failed start, the program ends: nobody waits for ever.
Stopped == main = "over" \/ crashed
=============================================================================
