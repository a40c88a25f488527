----------------------------- MODULE QueueAlloc -----------------------------
(***************************************************************************)
(* How data_structure/queue.c makes and frees a ring buffer: the size is   *)
(* rounded up to a power of two by a loop over the bits (fls), the memory  *)
(* is taken in two parts, and either may be refused.                       *)
(* utils/roundup_pow_of_2.c has the same rounding on its own.              *)
(*                                                                         *)
(* An int has Bits bits and an unsigned long twice as many.                *)
(***************************************************************************)
EXTENDS Integers

CONSTANTS
  Bits,       \* of int and unsigned int
  AllocArgs,  \* sizes given to queue_alloc
  RoundArgs   \* values given to roundup_pow_of_two itself

\* 1UL << k.
Pow2[k \in 0 .. 2 * Bits] == IF k = 0 THEN 1 ELSE 2 * Pow2[k - 1]

IntSpan  == Pow2[Bits]
LongSpan == Pow2[2 * Bits]

VARIABLES
  pc,        \* "idle", "loop", "malloc", "init", "done"
  asked,     \* the argument of the call
  direct,    \* roundup_pow_of_two was called, not queue_alloc
  i,         \* of the loop in fls, an int
  position,  \* likewise
  high,      \* fls64 looks at the upper half
  size,      \* the rounded size
  memory,    \* what malloc gave and nobody freed: "buffer", "queue"
  ok         \* the call succeeded

vars == <<pc, asked, direct, i, position, high, size, memory, ok>>

\* The unsigned value u as an int.
AsInt(u) == IF u < IntSpan \div 2 THEN u ELSE u - IntSpan

PowersOfTwo == {Pow2[k] : k \in 0 .. 2 * Bits - 1}
IsPowerOf2(n) == n \in PowersOfTwo         \* n != 0 && (n & (n - 1)) == 0

\* The loop counts on for ever when it does not end; it is followed to here.
MaxPosition == 2 * Bits + 1

Half(n) == n \div 2                        \* n >> 1 keeps the sign of an int

\* x - 1 is an unsigned long. (Mutant: the - 1 is missing.)
Same(n) == n
Before(n) == (n - 1) % LongSpan

\* roundup_pow_of_two(n): which half of n - 1 fls is given.
StartRound(n) ==
  LET x == Before(n)
      h == x \div IntSpan
      f == AsInt(IF h # 0 THEN h ELSE x % IntSpan)
  IN  /\ high' = (h # 0)
      /\ i' = Half(f)
      /\ position' = IF f # 0 THEN 0 ELSE -1
      /\ pc' = "loop"

\* One queue at a time: a call comes when the last queue was freed.
Round(n) ==
  /\ pc = "idle" /\ memory = {}
  /\ n \in RoundArgs
  /\ asked' = n /\ direct' = TRUE /\ size' = 0 /\ ok' = FALSE
  /\ StartRound(n)
  /\ UNCHANGED memory

Alloc(n) ==
  /\ pc = "idle" /\ memory = {}
  /\ n \in AllocArgs
  /\ asked' = n /\ direct' = FALSE /\ ok' = FALSE
  /\ IF IsPowerOf2(n)
     THEN pc' = "malloc" /\ size' = n /\ UNCHANGED <<i, position, high>>
     ELSE StartRound(n) /\ size' = 0
  /\ UNCHANGED memory

Shift ==
  /\ pc = "loop" /\ i # 0
  /\ i' = Half(i)
  /\ position' = IF position < MaxPosition THEN position + 1 ELSE position
  /\ UNCHANGED <<pc, asked, direct, high, size, memory, ok>>

\* fls returns, and 1UL << a is stored, by queue_alloc in an unsigned int.
Rounded ==
  /\ pc = "loop" /\ i = 0
  /\ LET a == position + 1 + (IF high THEN Bits ELSE 0)
     IN  size' = IF direct THEN Pow2[a] ELSE Pow2[a] % IntSpan
  /\ pc' = IF direct THEN "done" ELSE "malloc"
  /\ ok' = direct
  /\ UNCHANGED <<asked, direct, i, position, high, memory>>

\* malloc(size), and malloc(sizeof(struct queue)) in queue_init.
Malloc ==
  /\ pc = "malloc"
  /\ \/ pc' = "init" /\ memory' = memory \cup {"buffer"}
     \/ pc' = "done" /\ UNCHANGED memory
  /\ UNCHANGED <<asked, direct, i, position, high, size, ok>>

\* What queue_alloc gives back when queue_init had no memory.
GiveBack == {"buffer"}

QueueInit ==
  /\ pc = "init"
  /\ \/ memory' = memory \cup {"queue"} /\ ok' = TRUE
     \/ memory' = memory \ GiveBack /\ UNCHANGED ok
  /\ pc' = "done"
  /\ UNCHANGED <<asked, direct, i, position, high, size>>

Return ==
  /\ pc = "done"
  /\ pc' = "idle" /\ asked' = 0 /\ size' = 0 /\ ok' = FALSE
  /\ i' = 0 /\ position' = 0 /\ high' = FALSE /\ direct' = FALSE
  /\ UNCHANGED memory

\* queue_free, by the caller who got a queue.
Free ==
  /\ pc = "idle" /\ "queue" \in memory
  /\ memory' = {}
  /\ UNCHANGED <<pc, asked, direct, i, position, high, size, ok>>

----------------------------------------------------------------------------
Init ==
  /\ pc = "idle" /\ asked = 0 /\ direct = FALSE /\ i = 0 /\ position = 0
  /\ high = FALSE /\ size = 0 /\ memory = {} /\ ok = FALSE

Call == (\E n \in RoundArgs : Round(n)) \/ (\E n \in AllocArgs : Alloc(n))
Inside == Shift \/ Rounded \/ Malloc \/ QueueInit \/ Return

Next == Call \/ Inside \/ Free

Spec == Init /\ [][Next]_vars

----------------------------------------------------------------------------
TypeOK ==
  /\ pc \in {"idle", "loop", "malloc", "init", "done"}
  /\ asked \in 0 .. LongSpan - 1 /\ direct \in BOOLEAN
  /\ i \in -(IntSpan \div 2) .. IntSpan \div 2 - 1
  /\ position \in -1 .. MaxPosition /\ high \in BOOLEAN
  /\ size \in 0 .. LongSpan - 1
  /\ memory \subseteq {"buffer", "queue"} /\ ok \in BOOLEAN

\* "The size will be rounded-up to a power of 2": the smallest that is not
\* below what was asked for, found in no more rounds than an int has bits.
\* Queue relies on it: its indices wrap.
RoundsUp ==
  /\ pc = "loop" => position < Bits
  /\ pc \in {"malloc", "init"} \/ (pc = "done" /\ ok) =>
       /\ size \in PowersOfTwo
       /\ asked <= size
       /\ \A p \in PowersOfTwo : p < size => p < asked

\* queue_alloc gives both parts or none, and every path frees what it took.
BothOrNone == pc \in {"idle", "done"} => memory \in {{}, {"buffer", "queue"}}

\* queue.c: whatever the sign of the half that fls is given, and wherever
\* memory runs out, the caller has a buffer of the right size or none at all.
Allocates == RoundsUp /\ BothOrNone
=============================================================================
