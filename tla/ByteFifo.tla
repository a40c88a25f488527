------------------------------ MODULE ByteFifo ------------------------------
(***************************************************************************)
(* What the comments of queue.c promise one reader and one writer: bytes   *)
(* come out in the order they went in, none lost, none invented; a call    *)
(* takes as many as were asked for and there was room, or data, for.       *)
(***************************************************************************)
EXTENDS Integers, Sequences

CONSTANTS
  Byte,      \* the values of a byte
  Capacity,  \* how many fit
  MaxLen,    \* the longest request of a caller
  Idle       \* no call is running

VARIABLES
  q,        \* the bytes inside
  putting,  \* the bytes the running call of the writer will add, or Idle
  getting,  \* how many bytes the running call of the reader will take, or Idle
  got       \* what the reader's last call returned

vars == <<q, putting, getting, got>>

Smaller(a, b) == IF a < b THEN a ELSE b

Init == q = <<>> /\ putting = Idle /\ getting = Idle /\ got = <<>>

Put(data) ==
  /\ putting = Idle
  /\ putting' = SubSeq(data, 1, Smaller(Len(data), Capacity - Len(q)))
  /\ UNCHANGED <<q, getting, got>>

PutDone ==
  /\ putting # Idle
  /\ q' = q \o putting /\ putting' = Idle
  /\ UNCHANGED <<getting, got>>

Get(n) ==
  /\ getting = Idle
  /\ getting' = Smaller(n, Len(q))
  /\ UNCHANGED <<q, putting, got>>

GetDone ==
  /\ getting # Idle
  /\ got' = SubSeq(q, 1, getting)
  /\ q' = SubSeq(q, getting + 1, Len(q))
  /\ getting' = Idle
  /\ UNCHANGED putting

Clear ==
  /\ putting = Idle /\ getting = Idle
  /\ q' = <<>>
  /\ UNCHANGED <<putting, getting, got>>

Next ==
  \/ \E n \in 0 .. MaxLen : Get(n) \/ \E data \in [1 .. n -> Byte] : Put(data)
  \/ PutDone \/ GetDone \/ Clear

Spec == Init /\ [][Next]_vars
=============================================================================
