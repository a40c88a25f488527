------------------------------- MODULE Queue -------------------------------
(***************************************************************************)
(* The ring buffer of data_structure/queue.h and queue.c: a writer that    *)
(* calls _queue_in and a reader that calls _queue_out on one buffer, with  *)
(* no lock between them, or one thread that calls the wrappers queue_in,   *)
(* queue_out and queue_reset.                                              *)
(*                                                                         *)
(* in and out are unsigned and never reduced: they wrap at W, and so do    *)
(* the differences the code takes. A call is split where the other thread  *)
(* can tell: it reads the other's index, copies, and publishes its own.    *)
(***************************************************************************)
EXTENDS Integers, Sequences

CONSTANTS
  W,        \* unsigned int wraps here
  Size,     \* fifo->size
  Byte,     \* the values of a byte
  Junk,     \* the byte found beyond the end of a caller's data
  MaxLen,   \* the longest request of a caller
  Idle      \* no call is running (of ByteFifo)

\* What a caller may hand to _queue_in.
Requests == UNION {[1 .. n -> Byte] : n \in 0 .. MaxLen}

ASSUME QueueAssumption ==
  /\ W \in Nat /\ Size \in Nat \ {0} /\ MaxLen \in Nat
  /\ Size < W
  /\ MaxLen < W
  /\ Junk \in Byte
  /\ Idle \notin Requests /\ Idle \notin Nat

\* Both are powers of two.
ASSUME WholeBuffers == W % Size = 0

VARIABLES
  shared,   \* two threads on _queue_in and _queue_out; else one on the wrappers
  rereads,  \* the build evaluates the operands of min again
  in, out,  \* the two indices
  buffer,   \* the memory
  wpc,      \* where the writer is: "idle", "reread", "copy", "wrap", "publish"
  wdata,    \* the caller's data
  wlen,     \* len, as _queue_in has it now
  rpc,      \* where the reader is, likewise
  rwant,    \* the size of the caller's buffer
  rlen,     \* len, as _queue_out has it now
  rdata,    \* what the running call has copied
  got       \* what the last _queue_out gave

writer == <<wpc, wdata, wlen>>
reader == <<rpc, rwant, rlen, rdata, got>>
vars == <<shared, rereads, in, out, buffer, writer, reader>>

\* (Mutants: an index wider than the lengths, and below indices taken as
\* reduced, and a reset each time.)
PlusFlat(a, b) == a + b

\* Unsigned addition and subtraction of values below W.
Plus(a, b)  == IF a + b < W THEN a + b ELSE a + b - W
Minus(a, b) == IF b <= a THEN a - b ELSE a - b + W

Smaller(a, b) == IF a < b THEN a ELSE b

Offset(i) == i % Size                      \* i & (size - 1): Size is a power of two
ToEnd(i, len) == Smaller(len, Size - Offset(i))   \* l, the part before the end

Used == Minus(in, out)
FreeReduced == IF in < out THEN out - in ELSE Size - (in - out)
Free == Plus(Minus(Size, in), out)         \* size - in + out

----------------------------------------------------------------------------
(* _queue_in. The macro min compares len with an expression and, if len is *)
(* not smaller, evaluates the expression again for its value.              *)

InBegin(data) ==
  /\ wpc = "idle"
  /\ ~shared => rpc = "idle"
  /\ wdata' = data
  /\ IF rereads /\ ~(Len(data) < Free)
     THEN wpc' = "reread" /\ wlen' = Len(data)
     ELSE wpc' = "copy" /\ wlen' = Smaller(Len(data), Free)
  /\ UNCHANGED <<in, out, buffer, reader>>

InReread ==
  /\ wpc = "reread"
  /\ wpc' = "copy" /\ wlen' = Free
  /\ UNCHANGED <<in, out, buffer, wdata, reader>>

\* The i-th byte of the caller's data, or what lies behind it.
Given(i) == IF i <= Len(wdata) THEN wdata[i] ELSE Junk

\* What memcpy(buffer + at, data + skip, n) leaves.
Stored(at, skip, n) ==
  [j \in 0 .. Size - 1 |-> IF at <= j /\ j < at + n THEN Given(skip + j - at + 1)
                                                    ELSE buffer[j]]

InCopy ==
  /\ wpc = "copy"
  /\ buffer' = Stored(Offset(in), 0, ToEnd(in, wlen))
  /\ wpc' = "wrap"
  /\ UNCHANGED <<in, out, wdata, wlen, reader>>

InWrap ==
  /\ wpc = "wrap"
  /\ LET l == ToEnd(in, wlen) IN buffer' = Stored(0, l, wlen - l)
  /\ wpc' = "publish"
  /\ UNCHANGED <<in, out, wdata, wlen, reader>>

InPublish ==
  /\ wpc = "publish"
  /\ in' = Plus(in, wlen)
  /\ wpc' = "idle" /\ wdata' = <<>> /\ wlen' = 0
  /\ UNCHANGED <<out, buffer, reader>>

----------------------------------------------------------------------------
(* _queue_out, and the reset that queue_out adds behind it.                *)

OutBegin(n) ==
  /\ rpc = "idle"
  /\ ~shared => wpc = "idle"
  /\ rwant' = n
  /\ IF rereads /\ ~(n < Used)
     THEN rpc' = "reread" /\ rlen' = n
     ELSE rpc' = "copy" /\ rlen' = Smaller(n, Used)
  /\ UNCHANGED <<in, out, buffer, writer, rdata, got>>

OutReread ==
  /\ rpc = "reread"
  /\ rpc' = "copy" /\ rlen' = Used
  /\ UNCHANGED <<in, out, buffer, writer, rwant, rdata, got>>

\* memcpy(.., buffer + at, n)
Fetched(at, n) == [i \in 1 .. n |-> buffer[at + i - 1]]

OutCopy ==
  /\ rpc = "copy"
  /\ rdata' = Fetched(Offset(out), ToEnd(out, rlen))
  /\ rpc' = "wrap"
  /\ UNCHANGED <<in, out, buffer, writer, rwant, rlen, got>>

OutWrap ==
  /\ rpc = "wrap"
  /\ rdata' = rdata \o Fetched(0, rlen - ToEnd(out, rlen))
  /\ rpc' = "publish"
  /\ UNCHANGED <<in, out, buffer, writer, rwant, rlen, got>>

\* queue_out sets both indices back when it empties the buffer.
SetBackAlways(o) == ~shared
SetBack(o) == ~shared /\ in = o

OutPublish ==
  /\ rpc = "publish"
  /\ LET o == Plus(out, rlen) IN
       IF SetBack(o) THEN in' = 0 /\ out' = 0 ELSE out' = o /\ UNCHANGED in
  /\ rpc' = "idle" /\ rwant' = 0 /\ rlen' = 0
  /\ got' = rdata /\ rdata' = <<>>
  /\ UNCHANGED <<buffer, writer>>

Reset ==
  /\ ~shared /\ wpc = "idle" /\ rpc = "idle"
  /\ in' = 0 /\ out' = 0
  /\ UNCHANGED <<buffer, writer, reader>>

----------------------------------------------------------------------------
Init ==
  /\ shared \in BOOLEAN /\ rereads \in BOOLEAN
  /\ in = 0 /\ out = 0
  /\ buffer \in [0 .. Size - 1 -> {Junk}]
  /\ wpc = "idle" /\ wdata = <<>> /\ wlen = 0
  /\ rpc = "idle" /\ rwant = 0 /\ rlen = 0 /\ rdata = <<>> /\ got = <<>>

QueueIn  == (\E data \in Requests : InBegin(data)) \/ InReread \/ InCopy \/ InWrap \/ InPublish
QueueOut == (\E n \in 0 .. MaxLen : OutBegin(n)) \/ OutReread \/ OutCopy \/ OutWrap \/ OutPublish

Next == (QueueIn \/ QueueOut \/ Reset) /\ UNCHANGED <<shared, rereads>>

Spec == Init /\ [][Next]_vars

----------------------------------------------------------------------------
Places == {"idle", "reread", "copy", "wrap", "publish"}

\* Types: the indices are unsigned int, and so are the lengths.
TypeOK ==
  /\ shared \in BOOLEAN /\ rereads \in BOOLEAN
  /\ in \in 0 .. W - 1 /\ out \in 0 .. W - 1
  /\ buffer \in [0 .. Size - 1 -> Byte]
  /\ wpc \in Places /\ rpc \in Places
  /\ wdata \in Seq(Byte) /\ Len(wdata) \in 0 .. MaxLen
  /\ wlen \in 0 .. W - 1 /\ rlen \in 0 .. W - 1
  /\ rwant \in 0 .. MaxLen
  /\ rdata \in Seq(Byte) /\ got \in Seq(Byte)

\* What the writer is about to publish, and the reader to release.
Pending == IF wpc \in {"copy", "wrap", "publish"} THEN wlen ELSE 0
Leaving == IF rpc \in {"copy", "wrap", "publish"} THEN rlen ELSE 0

\* The writer never copies over what the reader has not released, and the
\* reader never copies what the writer has not published: _queue_in and
\* _queue_out each measure against an index that the other moves meanwhile.
NoOverrun ==
  /\ Used + Pending <= Size
  /\ Leaving <= Used

\* The comment above both functions: "This function copies at most @len
\* bytes", whatever the other thread does meanwhile.
AtMostAsked ==
  /\ Pending <= Len(wdata)
  /\ Leaving <= rwant

Fifo == INSTANCE ByteFifo WITH
  Capacity <- Size,
  q <- [i \in 1 .. Used |-> buffer[Offset(Plus(out, i - 1))]],
  putting <- IF wpc = "idle" THEN Idle ELSE SubSeq(wdata, 1, wlen),
  getting <- IF rpc = "idle" THEN Idle ELSE rlen,
  got <- got

\* Bytes come out as they went in: the two indices and the memory implement
\* the queue that the comments of queue.c describe, in a build that evaluates
\* the operands of min once.
KeepsFifo == Fifo!Init /\ [][rereads \/ Fifo!Next]_(Fifo!vars)
=============================================================================
