------------------------ MODULE KafkaConsume_proofs ------------------------
(***************************************************************************)
(* Proofs about KafkaConsume, for every number of partitions, whatever the *)
(* sizes of batches and containers.                                        *)
(***************************************************************************)
EXTENDS KafkaConsume, SequenceTheorems, FiniteSetTheorems, TLAPS

\* A thread that was not created yet, or has ended.
Idle == {"none", "ended"}

\* The types of the variables the order of creation and joining depends on.
Types ==
  /\ main \in {"init", "start", "consumers", "wait", "release", "destroy", "delete", "join",
               "joinProcess", "locks", "over"}
  /\ i \in Nat /\ releases \in Nat
  /\ handler \in BOOLEAN /\ threads \in BOOLEAN
  /\ lock \in {"none", "ready", "gone"}
  /\ cpc \in [Part -> {"none", "start", "check", "fetch", "push", "ended"}]
  /\ ppc \in {"none", "check", "scan", "store", "ended"}
  /\ batch \in [Part -> Seq(Part \X Nat)]
  /\ offset \in [Part -> Nat]

\* A thread runs between its creation and its join, and m_cthread is there for
\* as long as a consumer may run; start() has yet to create those from i on,
\* and release() has joined those before i.
Joined ==
  /\ main = "init" => lock = "none"
  /\ main \in {"start", "consumers", "wait"} => threads
  /\ main \in {"consumers", "destroy", "join"} => i \in Part
  /\ main \in {"init", "start"} => \A q \in Part : cpc[q] = "none"
  /\ main = "consumers" => \A q \in i .. Partitions : cpc[q] = "none"
  /\ main = "join" => threads /\ \A q \in 1 .. i - 1 : cpc[q] \in Idle
  /\ main \in {"joinProcess", "locks", "over"} => ~threads
  /\ threads => lock = "ready"
  /\ ~threads => \A p \in Part : cpc[p] \in Idle
  /\ main = "locks" \/ lock # "ready" => ppc \in Idle
  /\ \A p \in Part : cpc[p] = "push" <=> batch[p] # <<>>

LocksInv == Types /\ Joined

USE KafkaAssumption

----------------------------------------------------------------------------
\* Before init() there are no threads and no locks.
LEMMA LocksInit ==
  ASSUME KafkaInit
  PROVE  LocksInv
<1>1. batch \in [Part -> Seq(Part \X Nat)]
  BY DEF KafkaInit
<1>2. offset \in [Part -> Nat]
  BY DEF KafkaInit
<1>3. cpc \in [Part -> {"none", "start", "check", "fetch", "push", "ended"}]
  BY DEF KafkaInit
<1>4. Types
  BY <1>1, <1>2, <1>3 DEF KafkaInit, Types
<1>5. Joined
  BY DEF KafkaInit, Joined, Idle, Part
<1> QED
  BY <1>4, <1>5 DEF LocksInv

----------------------------------------------------------------------------
(* The threads.                                                            *)

\* A consumer moves itself alone, between the states it runs in, and leaves
\* the loop of consume_callback with nothing in its batch.
LEMMA ConsumerMoves ==
  ASSUME LocksInv, NEW p \in Part, cpc[p] \notin Idle,
         NEW pc \in {"check", "fetch", "push", "ended"}, cpc' = [cpc EXCEPT ![p] = pc],
         NEW rest \in Seq(Part \X Nat), batch' = [batch EXCEPT ![p] = rest],
         pc = "push" <=> rest # <<>>,
         offset' \in [Part -> Nat], UNCHANGED mainVars, UNCHANGED ppc
  PROVE  LocksInv'
<1>1. cpc' \in [Part -> {"none", "start", "check", "fetch", "push", "ended"}]
  BY DEF LocksInv, Types
<1>2. batch' \in [Part -> Seq(Part \X Nat)]
  BY DEF LocksInv, Types
<1>3. Types'
  BY <1>1, <1>2 DEF LocksInv, Types, mainVars
<1>4. \A q \in Part : q # p => cpc'[q] = cpc[q] /\ batch'[q] = batch[q]
  BY DEF LocksInv, Types
<1>5. cpc'[p] = pc /\ batch'[p] = rest
  BY DEF LocksInv, Types
<1>6. threads
  BY DEF LocksInv, Joined
<1>7. \A q \in Part : cpc[q] \in Idle => cpc'[q] \in Idle
  BY <1>4
<1>8. main = "join" => \A q \in 1 .. i - 1 : cpc'[q] \in Idle
  <2>1. main = "join" => 1 .. i - 1 \subseteq Part
    BY DEF LocksInv, Types, Joined, Part
  <2> QED
    BY <1>7, <2>1 DEF LocksInv, Joined
<1>9. \A q \in Part : cpc'[q] = "push" <=> batch'[q] # <<>>
  BY <1>4, <1>5 DEF LocksInv, Joined
<1>10. \A q \in Part : cpc[q] = "none" => cpc'[q] = "none"
  BY <1>4 DEF Idle
<1>11. main = "consumers" => \A q \in i .. Partitions : cpc'[q] = "none"
  <2>1. main = "consumers" => i .. Partitions \subseteq Part
    BY DEF LocksInv, Types, Joined, Part
  <2> QED
    BY <1>10, <2>1 DEF LocksInv, Joined
<1>12. main \in {"init", "start"} => \A q \in Part : cpc'[q] = "none"
  BY <1>10 DEF LocksInv, Joined
<1> QED
  BY <1>3, <1>6, <1>8, <1>9, <1>11, <1>12 DEF LocksInv, Joined, mainVars

\* consume() and msg_consume(), by each of their steps.
LEMMA ConsumerKeeps ==
  ASSUME LocksInv, NEW p \in Part, Consumer(p)
  PROVE  LocksInv'
<1>1. CASE ConsumeStart(p)
  <2>1. batch' = [batch EXCEPT ![p] = <<>>]
    BY <1>1 DEF ConsumeStart, LocksInv, Types, Joined, consVars
  <2>2. PICK result \in {"check", "ended"} : cpc' = [cpc EXCEPT ![p] = result]
    BY <1>1 DEF ConsumeStart
  <2>3. cpc[p] \notin Idle /\ UNCHANGED mainVars /\ UNCHANGED ppc
    BY <1>1 DEF ConsumeStart, procVars, Idle
  <2>4. offset' \in [Part -> Nat]
    BY <1>1 DEF ConsumeStart, consVars, LocksInv, Types
  <2>5. <<>> \in Seq(Part \X Nat)
    OBVIOUS
  <2> QED
    BY <1>1, <2>1, <2>2, <2>3, <2>4, <2>5, ConsumerMoves
<1>2. CASE CheckStop(p)
  <2>1. batch' = [batch EXCEPT ![p] = <<>>]
    BY <1>2 DEF CheckStop, LocksInv, Types, Joined, consVars
  <2>2. PICK result \in {"fetch", "ended"} : cpc' = [cpc EXCEPT ![p] = result]
    BY <1>2 DEF CheckStop
  <2>3. cpc[p] \notin Idle /\ UNCHANGED mainVars /\ UNCHANGED ppc
    BY <1>2 DEF CheckStop, procVars, Idle
  <2>4. offset' \in [Part -> Nat]
    BY <1>2 DEF CheckStop, consVars, LocksInv, Types
  <2>5. <<>> \in Seq(Part \X Nat)
    OBVIOUS
  <2> QED
    BY <1>2, <2>1, <2>2, <2>3, <2>4, <2>5, ConsumerMoves
<1>3. CASE Fetch(p)
  <2>1. PICK k \in 0 .. BatchSize :
          /\ offset' = [offset EXCEPT ![p] = @ + k]
          /\ batch' = [batch EXCEPT ![p] = [j \in 1 .. k |-> <<p, offset[p] + j>>]]
          /\ cpc' = [cpc EXCEPT ![p] = IF k = 0 THEN "check" ELSE "push"]
    BY <1>3 DEF Fetch
  <2> DEFINE rest == [j \in 1 .. k |-> <<p, offset[p] + j>>]
  <2>2. k \in Nat /\ offset[p] \in Nat
    BY DEF LocksInv, Types
  <2>3. rest \in Seq(Part \X Nat)
    BY <2>2
  <2>4. k = 0 <=> rest = <<>>
    BY <2>2
  <2>5. offset' \in [Part -> Nat]
    BY <2>1, <2>2 DEF LocksInv, Types
  <2>6. cpc[p] \notin Idle /\ UNCHANGED mainVars /\ UNCHANGED ppc
    BY <1>3 DEF Fetch, procVars, Idle
  <2> HIDE DEF rest
  <2>7. batch' = [batch EXCEPT ![p] = rest]
    BY <2>1 DEF rest
  <2>8. CASE k = 0
    BY <2>1, <2>3, <2>4, <2>5, <2>6, <2>7, <2>8, ConsumerMoves
  <2>9. CASE k # 0
    BY <2>1, <2>3, <2>4, <2>5, <2>6, <2>7, <2>9, ConsumerMoves
  <2> QED
    BY <2>8, <2>9
<1>4. CASE Push(p)
  <2> DEFINE rest == Tail(batch[p])
  <2>1. batch[p] \in Seq(Part \X Nat) /\ batch[p] # <<>>
    BY <1>4 DEF LocksInv, Types, Joined, Push
  <2>2. rest \in Seq(Part \X Nat) /\ (Len(batch[p]) = 1 <=> rest = <<>>)
    <3>1. rest \in Seq(Part \X Nat) /\ Len(rest) = Len(batch[p]) - 1
      BY <2>1, HeadTailProperties
    <3>2. Len(batch[p]) \in Nat
      BY <2>1, LenProperties
    <3> HIDE DEF rest
    <3>3. rest # <<>> => Len(rest) \in Nat \ {0}
      BY <3>1, EmptySeq
    <3>4. rest = <<>> => Len(rest) = 0
      BY EmptySeq
    <3> QED
      BY <3>1, <3>2, <3>3, <3>4
  <2>3. batch' = [batch EXCEPT ![p] = rest]
    BY <1>4 DEF Push
  <2>4. cpc[p] \notin Idle /\ UNCHANGED mainVars /\ UNCHANGED ppc
    BY <1>4 DEF Push, procVars, Idle
  <2>5. offset' \in [Part -> Nat]
    BY <1>4 DEF Push, LocksInv, Types
  <2> HIDE DEF rest
  <2>6. CASE Len(batch[p]) = 1
    <3>1. cpc' = [cpc EXCEPT ![p] = "check"]
      BY <1>4, <2>6 DEF Push
    <3> QED
      BY <2>2, <2>3, <2>4, <2>5, <2>6, <3>1, ConsumerMoves
  <2>7. CASE Len(batch[p]) # 1
    <3>1. cpc' = [cpc EXCEPT ![p] = "push"]
      BY <1>4, <2>7 DEF Push
    <3> QED
      BY <2>2, <2>3, <2>4, <2>5, <2>7, <3>1, ConsumerMoves
  <2> QED
    BY <2>6, <2>7
<1> QED
  BY <1>1, <1>2, <1>3, <1>4 DEF Consumer

----------------------------------------------------------------------------
(* main.                                                                   *)

\* Nothing of the threads changes, but for what main does to them.
MainStill == UNCHANGED <<cpc, ppc, batch, offset>>

\* init(), with each of its failures, comes before every thread.
LEMMA OpeningKeeps ==
  ASSUME LocksInv,
         InitOk \/ ConfigFails \/ \E p \in Part : InitFails(p)
  PROVE  LocksInv'
<1>1. MainStill
  BY DEF MainStill, InitOk, ConfigFails, InitFails, consVars, procVars
<1> DEFINE Opened ==
      /\ main = "init" /\ main' \in {"start", "release"} /\ i' = i /\ releases' \in Nat
      /\ handler' \in BOOLEAN /\ threads' \in BOOLEAN /\ lock' \in {"none", "ready"}
<1>2. Opened
  <2>1. CASE InitOk
    BY <2>1 DEF LocksInv, Types, InitOk
  <2>2. CASE ConfigFails
    BY <2>2 DEF LocksInv, Types, Joined, ConfigFails
  <2>3. ASSUME NEW p \in Part, InitFails(p) PROVE Opened
    BY <2>3 DEF LocksInv, Types, Joined, InitFails
  <2> QED
    BY <2>1, <2>2, <2>3
<1>3. Types'
  BY <1>1, <1>2 DEF MainStill, LocksInv, Types
<1>4. Joined'
  BY <1>1 DEF MainStill, LocksInv, Types, Joined, InitOk, ConfigFails, InitFails
<1> QED
  BY <1>3, <1>4 DEF LocksInv

\* start() creates threads when the locks are there, in the order of i.
LEMMA StartingKeeps ==
  ASSUME LocksInv,
         StartProcess \/ StartConsumer \/ StartReturns
  PROVE  LocksInv'
<1>1. CASE StartProcess
  <2>1. UNCHANGED <<cpc, batch, offset>>
    BY <1>1 DEF StartProcess, consVars
  <2>2. Types'
    BY <1>1, <2>1 DEF StartProcess, LocksInv, Types
  <2>3. Joined'
    BY <1>1, <2>1 DEF StartProcess, LocksInv, Types, Joined, Part
  <2> QED
    BY <2>2, <2>3 DEF LocksInv
<1>2. CASE StartConsumer
  <2>1. cpc' = cpc \/ cpc' = [cpc EXCEPT ![i] = "start"]
    BY <1>2 DEF StartConsumer
  <2>2. i \in Part /\ threads /\ lock = "ready"
    BY <1>2 DEF StartConsumer, LocksInv, Joined
  <2>3. UNCHANGED <<ppc, batch, offset>>
    BY <1>2 DEF StartConsumer, procVars
  <2>4. cpc[i] = "none" /\ i \in Nat /\ i' \in Nat
    BY <1>2, <2>2 DEF StartConsumer, LocksInv, Types, Joined, Part
  <2>5. Types'
    BY <1>2, <2>1, <2>2, <2>3, <2>4 DEF StartConsumer, LocksInv, Types
  <2>6. \A q \in Part : q # i => cpc'[q] = cpc[q]
    BY <2>1, <2>2 DEF LocksInv, Types
  <2>7. \A q \in Part : cpc'[q] = "push" <=> batch'[q] # <<>>
    BY <2>1, <2>2, <2>3, <2>4 DEF LocksInv, Types, Joined
  <2>8. main' = "consumers" => i' \in Part /\ \A q \in i' .. Partitions : cpc'[q] = "none"
    BY <1>2, <2>2, <2>4, <2>6 DEF StartConsumer, LastRound, LocksInv, Joined, Part
  <2>9. main' \in {"consumers", "wait", "release"} /\ UNCHANGED <<threads, lock>>
    BY <1>2 DEF StartConsumer
  <2> QED
    BY <2>2, <2>3, <2>5, <2>7, <2>8, <2>9 DEF LocksInv, Joined
<1>3. CASE StartReturns
  <2>1. MainStill
    BY <1>3 DEF MainStill, StartReturns, consVars, procVars
  <2>2. Types'
    BY <1>3, <2>1 DEF MainStill, StartReturns, LocksInv, Types
  <2>3. Joined'
    BY <1>3, <2>1 DEF MainStill, StartReturns, LocksInv, Types, Joined
  <2> QED
    BY <2>2, <2>3 DEF LocksInv
<1> QED
  BY <1>1, <1>2, <1>3

\* release() joins what it finds running before it destroys the locks.
LEMMA ReleasingKeeps ==
  ASSUME LocksInv,
         Release \/ DestroyHandle \/ DeleteHandlers \/ JoinConsumer \/ JoinProcess \/ DestroyLocks
  PROVE  LocksInv'
<1>1. MainStill
  BY DEF MainStill, Release, DestroyHandle, DeleteHandlers, JoinConsumer, JoinProcess,
         DestroyLocks, consVars, procVars
<1>2. CASE Release
  <2>1. Types'
    BY <1>1, <1>2 DEF MainStill, Release, LocksInv, Types
  <2> QED
    BY <1>1, <1>2, <2>1 DEF MainStill, Release, LocksInv, Types, Joined, Part
<1>3. CASE DestroyHandle
  <2>1. Types'
    BY <1>1, <1>3 DEF MainStill, DestroyHandle, LocksInv, Types
  <2> QED
    BY <1>1, <1>3, <2>1 DEF MainStill, DestroyHandle, LastRound, LocksInv, Types, Joined, Part
<1>4. CASE DeleteHandlers
  <2>1. Types'
    BY <1>1, <1>4 DEF MainStill, DeleteHandlers, LocksInv, Types
  <2> QED
    BY <1>1, <1>4, <2>1 DEF MainStill, DeleteHandlers, LocksInv, Types, Joined, Part
<1>5. CASE JoinConsumer
  <2>1. /\ main = "join" /\ threads /\ i \in Part /\ i' = i + 1 /\ cpc[i] \in Idle
        /\ UNCHANGED <<releases, handler, lock>>
    BY <1>5 DEF JoinConsumer, EndedConsumer, Idle, LocksInv, Joined
  <2>2. \A q \in 1 .. i : cpc[q] \in Idle
    BY <2>1 DEF LocksInv, Joined, Part
  <2>3. CASE i = Partitions
    <3>1. main' = "joinProcess" /\ threads' = FALSE
      BY <1>5, <2>3 DEF JoinConsumer, LastRound
    <3>2. i' \in Nat
      BY <2>1 DEF Part
    <3>3. Types'
      BY <1>1, <2>1, <3>1, <3>2 DEF MainStill, LocksInv, Types
    <3>4. \A q \in Part : cpc'[q] \in Idle
      BY <1>1, <2>2, <2>3 DEF MainStill, Part
    <3>5. lock' = "ready" /\ \A q \in Part : cpc'[q] = "push" <=> batch'[q] # <<>>
      BY <1>1, <2>1 DEF MainStill, LocksInv, Joined
    <3> QED
      BY <3>1, <3>3, <3>4, <3>5 DEF LocksInv, Joined
  <2>4. CASE i # Partitions
    <3>1. main' = "join" /\ threads' = threads
      BY <1>5, <2>1, <2>4 DEF JoinConsumer, LastRound
    <3>2. i \in Nat /\ i + 1 \in Part /\ (i + 1) - 1 = i
      BY <2>1, <2>4 DEF Part
    <3>3. Types'
      BY <1>1, <2>1, <3>1, <3>2 DEF MainStill, LocksInv, Types
    <3> QED
      BY <1>1, <2>1, <2>2, <3>1, <3>2, <3>3 DEF MainStill, LocksInv, Joined
  <2> QED
    BY <2>3, <2>4
<1>6. CASE JoinProcess
  <2>1. Types'
    BY <1>1, <1>6 DEF MainStill, JoinProcess, LocksInv, Types
  <2> QED
    BY <1>1, <1>6, <2>1 DEF MainStill, JoinProcess, Idle, LocksInv, Types, Joined
<1>7. CASE DestroyLocks
  <2>1. main' \in {"release", "over"} /\ lock' \in {"none", "gone"} /\ releases' \in Nat
    BY <1>7 DEF DestroyLocks, LocksInv, Types
  <2>2. UNCHANGED <<i, handler, threads>>
    BY <1>7 DEF DestroyLocks
  <2>3. Types'
    BY <1>1, <2>1, <2>2 DEF MainStill, LocksInv, Types
  <2>4. ~threads /\ ppc \in Idle
    BY <1>7 DEF DestroyLocks, LocksInv, Joined
  <2> QED
    BY <1>1, <2>1, <2>2, <2>3, <2>4 DEF MainStill, LocksInv, Joined
<1> QED
  BY <1>2, <1>3, <1>4, <1>5, <1>6, <1>7

\* The process thread moves itself alone, and SIGINT only sets a flag.
LEMMA ProcessKeeps ==
  ASSUME LocksInv, Process \/ Sigint \/ UNCHANGED kafkaVars
  PROVE  LocksInv'
<1>1. UNCHANGED mainVars /\ UNCHANGED consVars
  BY DEF Process, ProcessCheck, ScanContainer, StoreData, Sigint, kafkaVars
<1>2. ppc' = ppc \/ (ppc \notin Idle /\ ppc' \in {"check", "scan", "store", "ended"})
  BY DEF Process, ProcessCheck, ScanContainer, StoreData, Sigint, kafkaVars, Onwards, Idle, procVars
<1>3. Types'
  BY <1>1, <1>2 DEF mainVars, consVars, LocksInv, Types
<1>4. Joined'
  BY <1>1, <1>2 DEF mainVars, consVars, LocksInv, Types, Joined
<1> QED
  BY <1>3, <1>4 DEF LocksInv

\* release() destroys the locks when no thread that takes them is left, and no
\* consumer has messages to put away: whatever failed before.
THEOREM LocksOutliveCorrect == KafkaSpec => []LocksOutlive
<1>1. KafkaInit => LocksInv
  BY LocksInit
<1>2. LocksInv /\ [KafkaNext]_kafkaVars => LocksInv'
  BY ConsumerKeeps, OpeningKeeps, StartingKeeps, ReleasingKeeps, ProcessKeeps DEF KafkaNext, Main
<1>3. LocksInv => LocksOutlive
  BY DEF LocksInv, Types, Joined, LocksOutlive, Idle
<1> QED
  BY <1>1, <1>2, <1>3, PTL DEF KafkaSpec

----------------------------------------------------------------------------
(* The messages.                                                           *)

\* How many messages of a partition have left their batch, and which were put
\* away then: those with a payload.
PutCount(p) == offset[p] - Len(batch[p])
PutAway == {m \in Message : ~IsEmpty(m) /\ m[2] <= PutCount(m[1])}

\* A batch holds the messages after those, in their order.
InOrder == \A p \in Part :
  /\ PutCount(p) \in Nat /\ offset[p] <= MaxOffset
  /\ \A j \in 1 .. Len(batch[p]) : batch[p][j] = <<p, PutCount(p) + j>>

\* What is put away is in one container, or taken out, or stored; the process
\* thread has something taken out only while it stores.
InOnePlace ==
  /\ g_msgs \in [Part -> SUBSET Message] /\ tpMsg \subseteq Message /\ stored \subseteq Message
  /\ \A m \in Message : m \in PutAway <=> (\E p \in Part : m \in g_msgs[p]) \/ m \in tpMsg \/ m \in stored
  /\ \A p, q \in Part : p # q => g_msgs[p] \cap g_msgs[q] = {}
  /\ \A p \in Part : g_msgs[p] \cap (tpMsg \cup stored) = {}
  /\ tpMsg \cap stored = {}
  /\ ppc # "store" => tpMsg = {}
  /\ ppc \in {"scan", "store"} => index \in Part

\* start() comes before the process thread.
Unstarted == main \in {"init", "start"} => ppc = "none"

MsgsInv == LocksInv /\ InOrder /\ InOnePlace /\ Unstarted

\* The messages of a batch, empty or not.
LEMMA BatchHolds ==
  ASSUME LocksInv, InOrder, NEW p \in Part, NEW m
  PROVE  m \in ToSet(batch[p]) <=> \E n \in 1 .. MaxOffset :
                                     m = <<p, n>> /\ PutCount(p) < n /\ n <= offset[p]
<1> DEFINE len == Len(batch[p])
           d == PutCount(p)
<1>1. batch[p] \in Seq(Part \X Nat) /\ offset[p] \in Nat
  BY DEF LocksInv, Types
<1>2. len \in Nat /\ DOMAIN batch[p] = 1 .. len
  BY <1>1, LenProperties
<1>3. d \in Nat /\ offset[p] = d + len /\ offset[p] <= MaxOffset
  BY <1>1, <1>2 DEF InOrder, PutCount
<1>4. \A j \in 1 .. len : batch[p][j] = <<p, d + j>>
  BY DEF InOrder
<1> HIDE DEF len, d
<1>5. m \in ToSet(batch[p]) <=> \E j \in 1 .. len : m = <<p, d + j>>
  BY <1>2, <1>4 DEF ToSet
<1>6. ASSUME NEW j \in 1 .. len
      PROVE  d + j \in 1 .. MaxOffset /\ d < d + j /\ d + j <= offset[p]
  BY <1>2, <1>3
<1>7. ASSUME NEW n \in 1 .. MaxOffset, d < n, n <= offset[p]
      PROVE  n - d \in 1 .. len /\ d + (n - d) = n
  BY <1>2, <1>3, <1>7
<1> QED
  BY <1>5, <1>6, <1>7 DEF d

\* The batches, the containers and the store hold what was fetched, each once.
LEMMA ConservedFollows == ASSUME MsgsInv PROVE Conserved
<1> USE DEF MsgsInv
<1> DEFINE Empty(m) == IsEmpty(m)
<1>0. \A m : m \in PutAway => m \in Message /\ ~Empty(m)
  BY DEF PutAway
<1>1. \A p \in Part : \A m : m \in ToSet(batch[p]) => m \in Message /\ m \notin PutAway
  <2>1. ASSUME NEW p \in Part, NEW m \in ToSet(batch[p]) PROVE m \in Message /\ m \notin PutAway
    <3>1. PICK n \in 1 .. MaxOffset : m = <<p, n>> /\ PutCount(p) < n
      BY BatchHolds
    <3>2. PutCount(p) \in Nat
      BY DEF InOrder
    <3> QED
      BY <3>1, <3>2 DEF Message, PutAway
  <2> QED
    BY <2>1
<1>2. ASSUME NEW m \in Message, ~Empty(m)
      PROVE  m[2] <= offset[m[1]] <=> m \in PutAway \/ \E p \in Part : m \in ToSet(batch[p])
  <2>1. PICK p \in Part, n \in 1 .. MaxOffset : m = <<p, n>>
    BY DEF Message
  <2>2. PutCount(p) \in Nat /\ offset[p] \in Nat /\ PutCount(p) <= offset[p]
    <3>1. batch[p] \in Seq(Part \X Nat) /\ offset[p] \in Nat
      BY DEF LocksInv, Types
    <3>2. Len(batch[p]) \in Nat
      BY <3>1, LenProperties
    <3> QED
      BY <3>1, <3>2 DEF InOrder, PutCount
  <2>3. m \in PutAway <=> n <= PutCount(p)
    BY <1>2, <2>1 DEF PutAway
  <2>4. (\E q \in Part : m \in ToSet(batch[q])) <=> PutCount(p) < n /\ n <= offset[p]
    BY <2>1, BatchHolds
  <2> QED
    BY <2>1, <2>2, <2>3, <2>4
<1> HIDE DEF Empty
<1>3. {m \in UNION Places : ~Empty(m)} = {m \in Message : ~Empty(m) /\ m[2] <= offset[m[1]]}
  <2>1. ASSUME NEW m
        PROVE  m \in UNION Places <=> \/ \E p \in Part : m \in ToSet(batch[p])
                                      \/ \E p \in Part : m \in g_msgs[p]
                                      \/ m \in tpMsg \/ m \in stored
    BY DEF Places
  <2>2. ASSUME NEW m PROVE m \in UNION Places => m \in Message
    BY <1>1, <2>1 DEF InOnePlace
  <2>3. ASSUME NEW m \in Message
        PROVE  m \in UNION Places <=> m \in PutAway \/ \E p \in Part : m \in ToSet(batch[p])
    BY <2>1 DEF InOnePlace
  <2> QED
    BY <1>2, <2>2, <2>3
<1>e. \A m \in tpMsg \cup stored \cup UNION {g_msgs[p] : p \in Part} : ~Empty(m)
  BY <1>0 DEF InOnePlace
<1>4. ASSUME NEW p \in Part, NEW q \in Part
      PROVE  /\ ToSet(batch[p]) \cap g_msgs[q] = {}
             /\ p # q => g_msgs[p] \cap g_msgs[q] = {}
             /\ (g_msgs[p] \cup ToSet(batch[p])) \cap (tpMsg \cup stored) = {}
  BY <1>1 DEF InOnePlace
<1>5. tpMsg \cap stored = {}
  BY DEF InOnePlace
<1> QED
  BY <1>3, <1>e, <1>4, <1>5 DEF Conserved, Empty

\* There are finitely many messages.
LEMMA MessageFinite == ASSUME NEW S, S \subseteq Message PROVE IsFiniteSet(S)
<1>1. IsFiniteSet(Part) /\ IsFiniteSet(1 .. MaxOffset)
  BY FS_Interval DEF Part
<1>2. IsFiniteSet(Message)
  BY <1>1, FS_Product DEF Message
<1> QED
  BY <1>2, FS_Subset

\* A step of main, or one that leaves the messages alone.
LEMMA MsgsFrame ==
  ASSUME InOrder, InOnePlace, UNCHANGED <<batch, offset, g_msgs, tpMsg, stored>>,
         ppc' = "store" <=> ppc = "store", ppc' \in {"scan", "store"} => index' \in Part
  PROVE  InOrder' /\ InOnePlace'
<1>1. \A p \in Part : PutCount(p)' = PutCount(p)
  BY DEF PutCount
<1>2. PutAway' = PutAway
  BY DEF PutAway, PutCount
<1>3. InOrder'
  BY <1>1 DEF InOrder
<1>4. InOnePlace'
  BY <1>2 DEF InOnePlace
<1> QED
  BY <1>3, <1>4

\* A batch is fetched behind what is put away.
LEMMA FetchKeepsMsgs ==
  ASSUME MsgsInv, NEW p \in Part, Fetch(p)
  PROVE  InOrder' /\ InOnePlace'
<1> USE DEF MsgsInv
<1>1. PICK k \in 0 .. BatchSize :
        /\ offset[p] + k <= MaxOffset
        /\ offset' = [offset EXCEPT ![p] = @ + k]
        /\ batch' = [batch EXCEPT ![p] = [j \in 1 .. k |-> <<p, offset[p] + j>>]]
  BY DEF Fetch
<1>2. /\ cpc[p] = "fetch" /\ UNCHANGED <<g_msgs, tpMsg, stored, ppc, index>>
      /\ offset \in [Part -> Nat] /\ batch \in [Part -> Seq(Part \X Nat)]
  BY DEF Fetch, procVars, LocksInv, Types
<1>3. batch[p] = <<>> /\ k \in Nat
  BY <1>2 DEF LocksInv, Joined
<1>4. PutCount(p) = offset[p]
  BY <1>2, <1>3 DEF PutCount
<1>5. batch'[p] = [j \in 1 .. k |-> <<p, offset[p] + j>>] /\ offset'[p] = offset[p] + k
  BY <1>1, <1>2
<1>6. Len(batch'[p]) = k
  BY <1>3, <1>5
<1>7. \A q \in Part : q # p => batch'[q] = batch[q] /\ offset'[q] = offset[q]
  BY <1>1, <1>2
<1>8. \A q \in Part : PutCount(q)' = PutCount(q)
  <2>1. ASSUME NEW q \in Part, q # p PROVE PutCount(q)' = PutCount(q)
    BY <1>7, <2>1 DEF PutCount
  <2>2. ASSUME NEW q \in Part, q = p PROVE PutCount(q)' = PutCount(q)
    <3>1. PutCount(q)' = offset'[p] - Len(batch'[p])
      BY <2>2 DEF PutCount
    <3>2. offset[p] \in Nat
      BY <1>2
    <3> QED
      BY <1>3, <1>4, <1>5, <1>6, <2>2, <3>1, <3>2
  <2> QED
    BY <2>1, <2>2
<1>9. InOrder'
  <2>1. ASSUME NEW q \in Part
        PROVE  \A j \in 1 .. Len(batch'[q]) : batch'[q][j] = <<q, PutCount(q)' + j>>
    <3>1. CASE q # p
      BY <1>7, <1>8, <3>1 DEF InOrder
    <3>2. CASE q = p
      BY <1>4, <1>5, <1>6, <1>8, <3>2
    <3> QED
      BY <3>1, <3>2
  <2>2. ASSUME NEW q \in Part PROVE PutCount(q)' \in Nat /\ offset'[q] <= MaxOffset
    BY <1>1, <1>5, <1>7, <1>8 DEF InOrder
  <2> QED
    BY <2>1, <2>2 DEF InOrder
<1>10. PutAway' = PutAway
  BY <1>8 DEF PutAway, Message
<1>11. InOnePlace'
  BY <1>2, <1>10 DEF InOnePlace
<1> QED
  BY <1>9, <1>11

\* A message leaves its batch, for one container or, if it is empty, for none.
LEMMA PushKeepsMsgs ==
  ASSUME MsgsInv, NEW p \in Part, Push(p)
  PROVE  InOrder' /\ InOnePlace'
<1> USE DEF MsgsInv
<1> DEFINE s == batch[p]
           n == Len(s)
           d == PutCount(p)
           h == <<p, d + 1>>
<1>1. PICK c \in Part : g_msgs' = IF IsEmpty(Head(s)) THEN g_msgs
                                    ELSE [g_msgs EXCEPT ![c] = @ \cup {Head(s)}]
  <2>1. 1 \in Part
    BY DEF Part
  <2>2. IF IsEmpty(Head(s)) THEN g_msgs' = g_msgs
        ELSE \E c \in Part : g_msgs' = [g_msgs EXCEPT ![c] = @ \cup {Head(s)}]
    BY DEF Push
  <2> QED
    BY <2>1, <2>2
<1>2. /\ cpc[p] = "push" /\ batch' = [batch EXCEPT ![p] = Tail(s)]
      /\ UNCHANGED <<tpMsg, stored, ppc, index, offset>>
      /\ offset \in [Part -> Nat] /\ batch \in [Part -> Seq(Part \X Nat)]
  BY DEF Push, procVars, LocksInv, Types
<1>3. s \in Seq(Part \X Nat) /\ s # <<>>
  BY <1>2 DEF LocksInv, Joined
<1>4. /\ n \in Nat \ {0} /\ Tail(s) \in Seq(Part \X Nat) /\ Len(Tail(s)) = n - 1
      /\ \A j \in 1 .. n - 1 : Tail(s)[j] = s[j + 1]
      /\ Head(s) = s[1]
  BY <1>3, EmptySeq, LenProperties, HeadTailProperties
<1>5. d \in Nat /\ offset[p] = d + n /\ offset[p] <= MaxOffset /\ \A j \in 1 .. n : s[j] = <<p, d + j>>
  <2>1. d \in Nat /\ offset[p] <= MaxOffset /\ \A j \in 1 .. n : s[j] = <<p, d + j>>
    BY DEF InOrder
  <2>2. d = offset[p] - n /\ offset[p] \in Nat
    BY <1>2 DEF PutCount
  <2> HIDE DEF n, d
  <2>3. offset[p] = d + n
    <3>1. n \in Int /\ d \in Int /\ d = offset[p] - n /\ offset[p] \in Int
      BY <1>4, <2>1, <2>2
    <3> QED
      BY <3>1
  <2> QED
    BY <2>1, <2>3
<1>6. Head(s) = h
  BY <1>4, <1>5
<1>7. h \in Message /\ h \notin PutAway
  BY <1>4, <1>5 DEF Message, PutAway
<1>8. batch'[p] = Tail(s) /\ \A q \in Part : q # p => batch'[q] = batch[q]
  BY <1>2
<1>9. (\A q \in Part : q # p => PutCount(q)' = PutCount(q)) /\ offset'[p] - Len(batch'[p]) = d + 1
  BY <1>2, <1>4, <1>5, <1>8 DEF PutCount
<1>a. \A q \in Part : q = p => PutCount(q)' = d + 1
  BY <1>9 DEF PutCount
<1> HIDE DEF n, d
<1>10. InOrder'
  <2>1. ASSUME NEW q \in Part, q # p
        PROVE  /\ PutCount(q)' \in Nat /\ offset'[q] <= MaxOffset
               /\ \A j \in 1 .. Len(batch'[q]) : batch'[q][j] = <<q, PutCount(q)' + j>>
    BY <1>2, <1>8, <1>9, <2>1 DEF InOrder
  <2>2. \A j \in 1 .. n - 1 : j + 1 \in 1 .. n /\ d + (j + 1) = (d + 1) + j
    BY <1>4, <1>5
  <2>3. \A j \in 1 .. Len(batch'[p]) : batch'[p][j] = <<p, (d + 1) + j>>
    BY <1>4, <1>5, <1>8, <2>2
  <2>4. ASSUME NEW q \in Part, q = p
        PROVE  /\ PutCount(q)' \in Nat /\ offset'[q] <= MaxOffset
               /\ \A j \in 1 .. Len(batch'[q]) : batch'[q][j] = <<q, PutCount(q)' + j>>
    <3>1. PutCount(q)' = d + 1 /\ offset'[q] = offset[p] /\ batch'[q] = batch'[p]
      BY <1>2, <1>a, <2>4
    <3> QED
      BY <1>5, <2>3, <2>4, <3>1
  <2> QED
    BY <2>1, <2>4 DEF InOrder
<1>11. \A m \in Message : m \in PutAway' <=> m \in PutAway \/ (m = h /\ ~IsEmpty(h))
  <2>1. ASSUME NEW m \in Message
        PROVE  m \in PutAway' <=> m \in PutAway \/ (m = h /\ ~IsEmpty(h))
    <3>1. PICK q \in Part, k \in 1 .. MaxOffset : m = <<q, k>>
      BY DEF Message
    <3>2. m \in PutAway <=> ~IsEmpty(m) /\ k <= PutCount(q)
      BY <3>1 DEF PutAway
    <3>3. m \in PutAway' <=> ~IsEmpty(m) /\ k <= PutCount(q)'
      BY <3>1 DEF PutAway
    <3>4. CASE q = p
      BY <1>5, <1>a, <3>1, <3>2, <3>3, <3>4 DEF d
    <3>5. CASE q # p
      BY <1>9, <3>1, <3>2, <3>3, <3>5
    <3> QED
      BY <3>4, <3>5
  <2> QED
    BY <2>1
<1> HIDE DEF h
<1>12. g_msgs \in [Part -> SUBSET Message]
  BY DEF InOnePlace
<1>e. CASE IsEmpty(h)
  <2>1. g_msgs' = g_msgs /\ \A m \in Message : m \in PutAway' <=> m \in PutAway
    BY <1>1, <1>6, <1>11, <1>e
  <2> QED
    BY <1>2, <1>10, <2>1 DEF InOnePlace
<1>f. CASE ~IsEmpty(h)
  <2>1. /\ g_msgs' \in [Part -> SUBSET Message]
        /\ \A q \in Part : \A m : m \in g_msgs'[q] <=> m \in g_msgs[q] \/ (q = c /\ m = h)
    BY <1>1, <1>6, <1>7, <1>12, <1>f
  <2>2. h \notin tpMsg /\ h \notin stored /\ \A q \in Part : h \notin g_msgs[q]
    BY <1>7 DEF InOnePlace
  <2>3. \A m \in Message : m \in PutAway' <=> (\E q \in Part : m \in g_msgs'[q]) \/ m \in tpMsg' \/ m \in stored'
    BY <1>2, <1>11, <1>f, <2>1 DEF InOnePlace
  <2>4. \A q, r \in Part : q # r => g_msgs'[q] \cap g_msgs'[r] = {}
    BY <2>1, <2>2 DEF InOnePlace
  <2>5. \A q \in Part : g_msgs'[q] \cap (tpMsg' \cup stored') = {}
    BY <1>2, <2>1, <2>2 DEF InOnePlace
  <2>6. InOnePlace'
    BY <1>2, <2>1, <2>3, <2>4, <2>5 DEF InOnePlace
  <2> QED
    BY <1>10, <2>6
<1> QED
  BY <1>e, <1>f

\* A container is taken out whole, and then stored message by message.
LEMMA ProcessKeepsMsgs ==
  ASSUME MsgsInv, Process
  PROVE  InOrder' /\ InOnePlace'
<1> USE DEF MsgsInv
<1>1. UNCHANGED <<batch, offset>>
  BY DEF Process, ProcessCheck, ScanContainer, StoreData, consVars
<1>2. InOrder'
  BY <1>1 DEF InOrder, PutCount
<1>3. PutAway' = PutAway
  BY <1>1 DEF PutAway, PutCount
<1>4. \A c \in Part : Onwards(c) \in {"scan", "check"} /\ (Onwards(c) = "scan" => c + 1 \in Part)
  BY DEF Onwards, LastIndex, Part
<1>5. CASE ProcessCheck
  BY <1>1, <1>5, MsgsFrame DEF ProcessCheck, Part
<1>6. CASE ScanContainer
  <2>1. /\ ppc = "scan" /\ index \in Part /\ tpMsg = {} /\ UNCHANGED stored
        /\ g_msgs \in [Part -> SUBSET Message]
    BY <1>6 DEF ScanContainer, InOnePlace
  <2>2. CASE Cardinality(g_msgs[index]) > Threshold
    <3>1. /\ tpMsg' = g_msgs[index] /\ ppc' = "store" /\ index' = index
          /\ g_msgs' = [g_msgs EXCEPT ![index] = {}]
      BY <1>6, <2>2 DEF ScanContainer, KeepsNone
    <3>2. /\ g_msgs' \in [Part -> SUBSET Message]
          /\ \A q \in Part : g_msgs'[q] = IF q = index THEN {} ELSE g_msgs[q]
      BY <2>1, <3>1
    <3>3. \A m \in Message : m \in PutAway' <=> (\E q \in Part : m \in g_msgs'[q]) \/ m \in tpMsg' \/ m \in stored'
      BY <1>3, <2>1, <3>1, <3>2 DEF InOnePlace
    <3>4. /\ \A q, r \in Part : q # r => g_msgs'[q] \cap g_msgs'[r] = {}
          /\ \A q \in Part : g_msgs'[q] \cap (tpMsg' \cup stored') = {}
          /\ tpMsg' \cap stored' = {} /\ tpMsg' \subseteq Message /\ stored' \subseteq Message
      BY <2>1, <3>1, <3>2 DEF InOnePlace
    <3> QED
      BY <1>2, <2>1, <3>1, <3>2, <3>3, <3>4 DEF InOnePlace
  <2>3. CASE ~(Cardinality(g_msgs[index]) > Threshold)
    BY <1>1, <1>4, <1>6, <2>1, <2>3, MsgsFrame DEF ScanContainer
  <2> QED
    BY <2>2, <2>3
<1>7. CASE StoreData
  <2>1. PICK x \in tpMsg : tpMsg' = tpMsg \ {x} /\ stored' = stored \cup {x}
    BY <1>7 DEF StoreData
  <2>2. ppc = "store" /\ index \in Part /\ UNCHANGED g_msgs /\ tpMsg \subseteq Message
    BY <1>7 DEF StoreData, InOnePlace
  <2>3. Cardinality(tpMsg) = 1 => tpMsg' = {}
    <3>1. IsFiniteSet(tpMsg)
      BY <2>2, MessageFinite
    <3>2. IsFiniteSet(tpMsg') /\ Cardinality(tpMsg') = Cardinality(tpMsg) - 1
      BY <2>1, <3>1, FS_RemoveElement
    <3> QED
      BY <3>2, FS_EmptySet
  <2>4. /\ ppc' # "store" => tpMsg' = {}
        /\ ppc' \in {"scan", "store"} => index' \in Part
    BY <1>4, <1>7, <2>2, <2>3 DEF StoreData
  <2>5. x \in Message /\ x \notin stored /\ \A q \in Part : x \notin g_msgs[q]
    BY <2>1, <2>2 DEF InOnePlace
  <2>6. \A m : m \in tpMsg \/ m \in stored <=> m \in tpMsg' \/ m \in stored'
    BY <2>1
  <2>7. \A m \in Message : m \in PutAway' <=> (\E q \in Part : m \in g_msgs'[q]) \/ m \in tpMsg' \/ m \in stored'
    BY <1>3, <2>2, <2>6 DEF InOnePlace
  <2> QED
    BY <1>2, <2>1, <2>2, <2>4, <2>5, <2>6, <2>7 DEF InOnePlace
<1> QED
  BY <1>5, <1>6, <1>7 DEF Process

\* Every step; main puts no message anywhere.
LEMMA MsgsStep == MsgsInv /\ [KafkaNext]_kafkaVars => MsgsInv'
<1> SUFFICES ASSUME MsgsInv, [KafkaNext]_kafkaVars PROVE MsgsInv'
  OBVIOUS
<1> USE DEF MsgsInv
<1>1. LocksInv'
  BY ConsumerKeeps, OpeningKeeps, StartingKeeps, ReleasingKeeps, ProcessKeeps DEF KafkaNext, Main
<1>2. ASSUME NEW p \in Part, ConsumeStart(p) \/ CheckStop(p) PROVE InOrder' /\ InOnePlace'
  BY <1>2, MsgsFrame DEF ConsumeStart, CheckStop, procVars, InOnePlace
<1>3. ASSUME Main PROVE InOrder' /\ InOnePlace'
  <2>1. UNCHANGED <<batch, offset, g_msgs, tpMsg, stored, index>>
    <3>1. CASE InitOk \/ ConfigFails \/ \E p \in Part : InitFails(p)
      BY <3>1 DEF InitOk, ConfigFails, InitFails, consVars, procVars
    <3>2. CASE StartProcess \/ StartConsumer \/ StartReturns
      BY <3>2 DEF StartProcess, StartConsumer, StartReturns, consVars, procVars
    <3>3. CASE Release \/ DestroyHandle \/ DeleteHandlers
      BY <3>3 DEF Release, DestroyHandle, DeleteHandlers, consVars, procVars
    <3>4. CASE JoinConsumer \/ JoinProcess \/ DestroyLocks
      BY <3>4 DEF JoinConsumer, JoinProcess, DestroyLocks, consVars, procVars
    <3> QED
      BY <1>3, <3>1, <3>2, <3>3, <3>4 DEF Main
  <2>2. ppc' = ppc \/ (ppc = "none" /\ ppc' = "check")
    <3>1. CASE StartProcess
      BY <3>1 DEF StartProcess, Unstarted
    <3>2. CASE InitOk \/ ConfigFails \/ \E p \in Part : InitFails(p)
      BY <3>2 DEF InitOk, ConfigFails, InitFails, procVars
    <3>3. CASE StartConsumer \/ StartReturns \/ Release \/ DestroyHandle \/ DeleteHandlers
      BY <3>3 DEF StartConsumer, StartReturns, Release, DestroyHandle, DeleteHandlers, procVars
    <3>4. CASE JoinConsumer \/ JoinProcess \/ DestroyLocks
      BY <3>4 DEF JoinConsumer, JoinProcess, DestroyLocks, procVars
    <3> QED
      BY <1>3, <3>1, <3>2, <3>3, <3>4 DEF Main
  <2> QED
    BY <2>1, <2>2, MsgsFrame DEF InOnePlace
<1>4. ASSUME Sigint \/ UNCHANGED kafkaVars PROVE InOrder' /\ InOnePlace'
  BY <1>4, MsgsFrame DEF Sigint, kafkaVars, consVars, procVars, InOnePlace
<1>5. InOrder' /\ InOnePlace'
  BY <1>2, <1>3, <1>4, FetchKeepsMsgs, PushKeepsMsgs, ProcessKeepsMsgs DEF KafkaNext, Consumer
<1>6. Unstarted'
  <2>1. CASE Main
    <3>1. CASE InitOk
      BY <3>1 DEF InitOk, procVars, Unstarted
    <3>2. CASE ~InitOk
      <4>1. main' \notin {"init", "start"}
        BY <2>1, <3>2 DEF Main, ConfigFails, InitFails, StartProcess, StartConsumer, StartReturns,
             Release, DestroyHandle, DeleteHandlers, JoinConsumer, JoinProcess, DestroyLocks
      <4> QED
        BY <4>1 DEF Unstarted
    <3> QED
      BY <3>1, <3>2
  <2>2. CASE Process
    BY <2>2 DEF Process, ProcessCheck, ScanContainer, StoreData, mainVars, Unstarted
  <2>3. CASE Sigint \/ UNCHANGED kafkaVars
    BY <2>3 DEF Sigint, kafkaVars, mainVars, procVars, Unstarted
  <2>4. ASSUME NEW p \in Part, Consumer(p) PROVE Unstarted'
    BY <2>4 DEF Consumer, ConsumeStart, CheckStop, Fetch, Push, mainVars, procVars, Unstarted
  <2> QED
    BY <2>1, <2>2, <2>3, <2>4 DEF KafkaNext
<1> QED
  BY <1>1, <1>5, <1>6

\* At first nothing is fetched.
LEMMA MsgsInit == KafkaInit => MsgsInv
<1> SUFFICES ASSUME KafkaInit PROVE MsgsInv
  OBVIOUS
<1>1. LocksInv
  BY LocksInit
<1>2. \A p \in Part : Len(batch[p]) = 0 /\ PutCount(p) = 0 /\ offset[p] = 0
  BY DEF KafkaInit, PutCount
<1>3. InOrder
  BY <1>2 DEF InOrder
<1>4. PutAway = {}
  <2>1. ASSUME NEW m \in Message PROVE ~(m[2] <= PutCount(m[1]))
    BY <1>2 DEF Message
  <2> QED
    BY <2>1 DEF PutAway
<1>5. InOnePlace
  BY <1>4 DEF KafkaInit, InOnePlace
<1> QED
  BY <1>1, <1>3, <1>5 DEF MsgsInv, Unstarted, KafkaInit

\* No message a consumer fetched is lost, doubled or in two places, on its way
\* from the batch through a container to the store, for every number of
\* partitions and every size, also while SIGINT and release() take the program
\* down around the threads.
THEOREM ConservedCorrect == KafkaSpec => []Conserved
BY MsgsInit, MsgsStep, ConservedFollows, PTL DEF KafkaSpec
=============================================================================
