---------------------------- MODULE Queue_proofs ----------------------------
(* Theorems of Queue, for every size of buffer and every width of index.  *)
EXTENDS Queue, TLAPS

\* The arithmetic of unsigned values stays below W.
LEMMA UnsignedType ==
  ASSUME NEW a \in 0 .. W - 1, NEW b \in 0 .. W - 1
  PROVE  Plus(a, b) \in 0 .. W - 1 /\ Minus(a, b) \in 0 .. W - 1
BY QueueAssumption DEF Plus, Minus

\* The writer's expression size - in + out is the room left, though each of
\* its two steps may wrap.
LEMMA FreeIsRoom ==
  ASSUME in \in 0 .. W - 1, out \in 0 .. W - 1, Used <= Size
  PROVE  Free = Size - Used /\ Used \in 0 .. Size
BY QueueAssumption DEF Free, Used, Plus, Minus

\* Publishing moves the distance between the indices by what is published.
LEMMA PublishMoves ==
  ASSUME NEW i \in 0 .. W - 1, NEW o \in 0 .. W - 1, NEW n \in Nat
  PROVE  /\ Minus(i, o) + n < W => Minus(Plus(i, n), o) = Minus(i, o) + n
         /\ n <= Minus(i, o) => Minus(i, Plus(o, n)) = Minus(i, o) - n
BY QueueAssumption DEF Plus, Minus

LEMMA OffsetType ==
  ASSUME NEW i \in 0 .. W - 1
  PROVE  Offset(i) \in 0 .. Size - 1
BY QueueAssumption DEF Offset

LEMMA ToEndType ==
  ASSUME NEW i \in 0 .. W - 1, NEW n \in 0 .. Size
  PROVE  /\ ToEnd(i, n) \in 0 .. n
         /\ Offset(i) + ToEnd(i, n) <= Size
BY QueueAssumption, OffsetType DEF ToEnd, Smaller

----------------------------------------------------------------------------
\* The copies move bytes inside the memory only, so what is copied is bytes.
LEMMA StoredType ==
  ASSUME buffer \in [0 .. Size - 1 -> Byte], wdata \in Seq(Byte),
         NEW at \in Nat, NEW skip \in Nat, NEW n \in Nat
  PROVE  Stored(at, skip, n) \in [0 .. Size - 1 -> Byte]
<1>1. ASSUME NEW i \in Nat \ {0}
      PROVE  Given(i) \in Byte
  BY <1>1, QueueAssumption DEF Given
<1>2. ASSUME NEW j \in 0 .. Size - 1
      PROVE  (IF at <= j /\ j < at + n THEN Given(skip + j - at + 1)
                                       ELSE buffer[j]) \in Byte
  <2>1. CASE at <= j /\ j < at + n
    <3>1. skip + j - at + 1 \in Nat \ {0}
      BY <2>1, <1>2, QueueAssumption
    <3>2. QED BY <1>1, <2>1, <3>1
  <2>2. CASE ~(at <= j /\ j < at + n)
    BY <2>2, <1>2
  <2>3. QED BY <2>1, <2>2
<1>3. QED BY <1>2 DEF Stored

LEMMA FetchedType ==
  ASSUME buffer \in [0 .. Size - 1 -> Byte],
         NEW at \in Nat, NEW n \in Nat, at + n <= Size
  PROVE  Fetched(at, n) \in Seq(Byte)
<1>1. ASSUME NEW i \in 1 .. n
      PROVE  buffer[at + i - 1] \in Byte
  <2>1. at + i - 1 \in 0 .. Size - 1
    BY <1>1, QueueAssumption
  <2>2. QED BY <2>1
<1>2. Fetched(at, n) \in [1 .. n -> Byte]
  BY <1>1 DEF Fetched
<1>3. QED BY <1>2

\* The invariant: a length that is in use is within what its thread may touch.
IInv == TypeOK /\ NoOverrun

\* Both hold of an empty buffer before anybody calls.
THEOREM InitIInv == Init => IInv
<1>1. SUFFICES ASSUME Init PROVE IInv
  OBVIOUS
<1>2. Used = 0
  BY <1>1, QueueAssumption DEF Init, Used, Minus
<1>3. NoOverrun
  BY <1>1, <1>2, QueueAssumption DEF Init, NoOverrun, Pending, Leaving
<1>4. TypeOK
  BY <1>1, QueueAssumption DEF Init, TypeOK, Places
<1>5. QED BY <1>3, <1>4 DEF IInv

LEMMA RequestType ==
  ASSUME NEW data \in Requests
  PROVE  data \in Seq(Byte) /\ Len(data) \in 0 .. MaxLen
<1>1. PICK n \in 0 .. MaxLen : data \in [1 .. n -> Byte]
  BY DEF Requests
<1>2. QED BY <1>1, QueueAssumption

\* What NoOverrun depends on.
LEMMA NoOverrunFrame ==
  ASSUME NoOverrun, UNCHANGED <<in, out>>, Pending' = Pending, Leaving' = Leaving
  PROVE  NoOverrun'
BY DEF NoOverrun, Used

LEMMA Bounds ==
  ASSUME TypeOK, NoOverrun
  PROVE  /\ Used \in 0 .. Size /\ Pending \in 0 .. Size /\ Leaving \in 0 .. Size
         /\ Free = Size - Used
<1>1. Used \in 0 .. W - 1
  BY UnsignedType DEF TypeOK, Used
<1>2. Pending \in 0 .. W - 1 /\ Leaving \in 0 .. W - 1
  BY QueueAssumption DEF TypeOK, Pending, Leaving
<1>3. Used \in 0 .. Size /\ Pending \in 0 .. Size /\ Leaving \in 0 .. Size
  BY <1>1, <1>2, QueueAssumption DEF NoOverrun
<1>4. Free = Size - Used
  BY <1>3, FreeIsRoom DEF TypeOK
<1>5. QED BY <1>3, <1>4

LEMMA InBeginKeeps ==
  ASSUME IInv, NEW data \in Seq(Byte), Len(data) \in 0 .. MaxLen, InBegin(data),
         UNCHANGED <<shared, rereads>>
  PROVE  IInv'
<1>1. TypeOK /\ NoOverrun
  BY DEF IInv
<1>2. Free = Size - Used /\ Used \in 0 .. Size /\ Leaving <= Used
  BY <1>1, Bounds DEF NoOverrun
<1>3. wlen' \in 0 .. W - 1 /\ (wpc' = "copy" => wlen' <= Free) /\ wpc' \in {"copy", "reread"}
  BY <1>1, <1>2, QueueAssumption DEF InBegin, Smaller
<1>4. Leaving' = Leaving /\ Used' = Used
  BY DEF InBegin, Leaving, Used, reader
<1>5. ASSUME NEW n \in Int, n <= Free
      PROVE  Used + n <= Size
  BY <1>2, <1>5, QueueAssumption
<1>6. Pending' \in Int /\ Pending' <= Free
  BY <1>2, <1>3, QueueAssumption DEF Pending
<1>7. Used + Pending' <= Size
  BY <1>5, <1>6
<1>8. NoOverrun'
  BY <1>2, <1>4, <1>7 DEF NoOverrun
<1>9. TypeOK'
  BY <1>1, <1>3 DEF InBegin, TypeOK, Places, reader
<1>10. QED BY <1>8, <1>9 DEF IInv

LEMMA InRereadKeeps ==
  ASSUME IInv, InReread, UNCHANGED <<shared, rereads>>
  PROVE  IInv'
<1>1. TypeOK /\ NoOverrun
  BY DEF IInv
<1>2. Free = Size - Used /\ Used \in 0 .. Size
  BY <1>1, Bounds
<1>3. Pending' = Free /\ Leaving' = Leaving /\ Used' = Used
  BY <1>1 DEF InReread, Pending, Leaving, Used, reader
<1>4. NoOverrun'
  BY <1>1, <1>2, <1>3, QueueAssumption DEF NoOverrun
<1>5. TypeOK'
  BY <1>1, <1>2, QueueAssumption DEF InReread, TypeOK, Places, reader
<1>6. QED BY <1>4, <1>5 DEF IInv

LEMMA InCopyKeeps ==
  ASSUME IInv, InCopy, UNCHANGED <<shared, rereads>>
  PROVE  IInv'
<1>1. TypeOK /\ NoOverrun
  BY DEF IInv
<1>2. wlen \in 0 .. Size
  BY <1>1, Bounds DEF Pending, InCopy
<1>3. Offset(in) \in Nat /\ ToEnd(in, wlen) \in 0 .. wlen
  BY <1>1, <1>2, OffsetType, ToEndType DEF TypeOK
<1>4. buffer' \in [0 .. Size - 1 -> Byte]
  <2>1. Stored(Offset(in), 0, ToEnd(in, wlen)) \in [0 .. Size - 1 -> Byte]
    <3>1. buffer \in [0 .. Size - 1 -> Byte] /\ wdata \in Seq(Byte) /\ ToEnd(in, wlen) \in Nat
      BY <1>1, <1>2, <1>3 DEF TypeOK
    <3>2. QED BY <3>1, <1>3, StoredType
  <2>2. QED BY <2>1 DEF InCopy
<1>5. TypeOK'
  BY <1>1, <1>4 DEF InCopy, TypeOK, Places, reader
<1>6. Pending' = Pending /\ Leaving' = Leaving
  BY DEF InCopy, Pending, Leaving, reader
<1>7. QED BY <1>1, <1>5, <1>6, NoOverrunFrame DEF IInv, InCopy

LEMMA InWrapKeeps ==
  ASSUME IInv, InWrap, UNCHANGED <<shared, rereads>>
  PROVE  IInv'
<1>1. TypeOK /\ NoOverrun
  BY DEF IInv
<1>2. wlen \in 0 .. Size
  BY <1>1, Bounds DEF Pending, InWrap
<1>3. Offset(in) \in Nat /\ ToEnd(in, wlen) \in 0 .. wlen
  BY <1>1, <1>2, OffsetType, ToEndType DEF TypeOK
<1>4. buffer' \in [0 .. Size - 1 -> Byte]
  <2>1. Stored(0, ToEnd(in, wlen), wlen - ToEnd(in, wlen)) \in [0 .. Size - 1 -> Byte]
    <3>1. /\ buffer \in [0 .. Size - 1 -> Byte] /\ wdata \in Seq(Byte)
          /\ ToEnd(in, wlen) \in Nat /\ wlen - ToEnd(in, wlen) \in Nat
      BY <1>1, <1>2, <1>3 DEF TypeOK
    <3>2. QED BY <3>1, StoredType
  <2>2. QED BY <2>1 DEF InWrap
<1>5. TypeOK'
  BY <1>1, <1>4 DEF InWrap, TypeOK, Places, reader
<1>6. Pending' = Pending /\ Leaving' = Leaving
  BY DEF InWrap, Pending, Leaving, reader
<1>7. QED BY <1>1, <1>5, <1>6, NoOverrunFrame DEF IInv, InWrap

LEMMA InPublishKeeps ==
  ASSUME IInv, InPublish, UNCHANGED <<shared, rereads>>
  PROVE  IInv'
<1>1. TypeOK /\ NoOverrun
  BY DEF IInv
<1>2. Used \in 0 .. W - 1 /\ wlen \in 0 .. W - 1 /\ Used + wlen <= Size
  BY <1>1, UnsignedType DEF TypeOK, NoOverrun, Pending, InPublish, Used
<1>3. Used' = Used + wlen
  BY <1>1, <1>2, PublishMoves, QueueAssumption DEF InPublish, Used, TypeOK
<1>4. Pending' = 0 /\ Leaving' = Leaving
  BY DEF InPublish, Pending, Leaving, reader
<1>5. Leaving \in 0 .. W - 1
  BY <1>1, QueueAssumption DEF TypeOK, Leaving
<1>6. NoOverrun'
  BY <1>1, <1>2, <1>3, <1>4, <1>5, QueueAssumption DEF NoOverrun
<1>7. in' \in 0 .. W - 1
  BY <1>1, UnsignedType DEF InPublish, TypeOK
<1>8. TypeOK'
  BY <1>1, <1>7, QueueAssumption DEF InPublish, TypeOK, Places, reader
<1>9. QED BY <1>6, <1>8 DEF IInv

LEMMA OutBeginKeeps ==
  ASSUME IInv, NEW n \in 0 .. MaxLen, OutBegin(n), UNCHANGED <<shared, rereads>>
  PROVE  IInv'
<1>1. TypeOK /\ NoOverrun
  BY DEF IInv
<1>2. Used \in 0 .. W - 1
  BY <1>1, UnsignedType DEF TypeOK, Used
<1>3. Leaving' \in 0 .. Used /\ Pending' = Pending /\ Used' = Used
  BY <1>1, <1>2, QueueAssumption DEF OutBegin, Pending, Leaving, Smaller, Used, writer
<1>4. NoOverrun'
  BY <1>1, <1>2, <1>3, QueueAssumption DEF NoOverrun
<1>5. rlen' \in 0 .. W - 1
  BY <1>1, <1>2, QueueAssumption DEF OutBegin, Smaller
<1>6. TypeOK'
  BY <1>1, <1>5 DEF OutBegin, TypeOK, Places, writer
<1>7. QED BY <1>4, <1>6 DEF IInv

LEMMA OutRereadKeeps ==
  ASSUME IInv, OutReread, UNCHANGED <<shared, rereads>>
  PROVE  IInv'
<1>1. TypeOK /\ NoOverrun
  BY DEF IInv
<1>2. Used \in 0 .. W - 1
  BY <1>1, UnsignedType DEF TypeOK, Used
<1>3. Leaving' = Used /\ Pending' = Pending /\ Used' = Used
  BY <1>1 DEF OutReread, Pending, Leaving, Used, writer
<1>4. NoOverrun'
  BY <1>1, <1>2, <1>3, QueueAssumption DEF NoOverrun
<1>5. TypeOK'
  BY <1>1, <1>2 DEF OutReread, TypeOK, Places, writer
<1>6. QED BY <1>4, <1>5 DEF IInv

LEMMA OutCopyKeeps ==
  ASSUME IInv, OutCopy, UNCHANGED <<shared, rereads>>
  PROVE  IInv'
<1>1. TypeOK /\ NoOverrun
  BY DEF IInv
<1>2. rlen \in 0 .. Size
  BY <1>1, Bounds DEF Leaving, OutCopy
<1>3. /\ Offset(out) \in 0 .. Size - 1 /\ ToEnd(out, rlen) \in 0 .. rlen
      /\ Offset(out) + ToEnd(out, rlen) <= Size
  BY <1>1, <1>2, OffsetType, ToEndType DEF TypeOK
<1>4. Fetched(Offset(out), ToEnd(out, rlen)) \in Seq(Byte)
  BY <1>1, <1>2, <1>3, FetchedType, QueueAssumption DEF TypeOK
<1>5. rdata' \in Seq(Byte)
  BY <1>1, <1>4 DEF OutCopy, TypeOK
<1>6. TypeOK'
  BY <1>1, <1>5 DEF OutCopy, TypeOK, Places, writer
<1>7. Pending' = Pending /\ Leaving' = Leaving
  BY DEF OutCopy, Pending, Leaving, writer
<1>8. QED BY <1>1, <1>6, <1>7, NoOverrunFrame DEF IInv, OutCopy

LEMMA OutWrapKeeps ==
  ASSUME IInv, OutWrap, UNCHANGED <<shared, rereads>>
  PROVE  IInv'
<1>1. TypeOK /\ NoOverrun
  BY DEF IInv
<1>2. rlen \in 0 .. Size
  BY <1>1, Bounds DEF Leaving, OutWrap
<1>3. /\ Offset(out) \in 0 .. Size - 1 /\ ToEnd(out, rlen) \in 0 .. rlen
      /\ Offset(out) + ToEnd(out, rlen) <= Size
  BY <1>1, <1>2, OffsetType, ToEndType DEF TypeOK
<1>4. Fetched(0, rlen - ToEnd(out, rlen)) \in Seq(Byte)
  BY <1>1, <1>2, <1>3, FetchedType, QueueAssumption DEF TypeOK
<1>5. rdata' \in Seq(Byte)
  BY <1>1, <1>4 DEF OutWrap, TypeOK
<1>6. TypeOK'
  BY <1>1, <1>5 DEF OutWrap, TypeOK, Places, writer
<1>7. Pending' = Pending /\ Leaving' = Leaving
  BY DEF OutWrap, Pending, Leaving, writer
<1>8. QED BY <1>1, <1>6, <1>7, NoOverrunFrame DEF IInv, OutWrap

LEMMA OutPublishKeeps ==
  ASSUME IInv, OutPublish, UNCHANGED <<shared, rereads>>
  PROVE  IInv'
<1>1. TypeOK /\ NoOverrun
  BY DEF IInv
<1> DEFINE o == Plus(out, rlen)
<1>2. Used \in 0 .. W - 1 /\ rlen \in 0 .. W - 1 /\ rlen <= Used /\ o \in 0 .. W - 1
  BY <1>1, UnsignedType DEF TypeOK, NoOverrun, Leaving, OutPublish, Used
<1>3. Minus(in, o) = Used - rlen
  BY <1>1, <1>2, PublishMoves DEF Used, TypeOK
<1>4. Used' = Used - rlen
  <2>1. CASE SetBack(o)
    <3>1. Minus(in, o) = 0 /\ Minus(0, 0) = 0
      BY <2>1, <1>1 DEF SetBack, Minus, TypeOK
    <3>2. in' = 0 /\ out' = 0
      BY <2>1 DEF OutPublish
    <3>3. QED BY <3>1, <3>2, <1>3 DEF Used
  <2>2. CASE ~SetBack(o)
    BY <2>2, <1>3 DEF OutPublish, Used
  <2>3. QED BY <2>1, <2>2
<1>5. Leaving' = 0 /\ Pending' = Pending
  BY DEF OutPublish, Pending, Leaving, writer
<1>6. Pending \in 0 .. W - 1
  BY <1>1, QueueAssumption DEF TypeOK, Pending
<1>7. NoOverrun'
  BY <1>1, <1>2, <1>4, <1>5, <1>6, QueueAssumption DEF NoOverrun
<1>8. in' \in 0 .. W - 1 /\ out' \in 0 .. W - 1
  BY <1>1, <1>2, QueueAssumption DEF OutPublish, TypeOK
<1>9. TypeOK'
  BY <1>1, <1>8, QueueAssumption DEF OutPublish, TypeOK, Places, writer
<1>10. QED BY <1>7, <1>9 DEF IInv

LEMMA ResetKeeps ==
  ASSUME IInv, Reset, UNCHANGED <<shared, rereads>>
  PROVE  IInv'
<1>1. TypeOK /\ NoOverrun
  BY DEF IInv
<1>2. Used' = 0 /\ Pending' = 0 /\ Leaving' = 0
  BY DEF Reset, Used, Minus, Pending, Leaving, writer, reader
<1>3. NoOverrun'
  BY <1>2, QueueAssumption DEF NoOverrun
<1>4. TypeOK'
  BY <1>1, QueueAssumption DEF Reset, TypeOK, Places, writer, reader
<1>5. QED BY <1>3, <1>4 DEF IInv

\* Every step of either thread keeps both: what one measured the other can only
\* make larger.
THEOREM StepIInv == IInv /\ [Next]_vars => IInv'
<1>1. SUFFICES ASSUME IInv, [Next]_vars PROVE IInv'
  OBVIOUS
<1>2. CASE QueueIn /\ UNCHANGED <<shared, rereads>>
  BY <1>1, <1>2, RequestType, InBeginKeeps, InRereadKeeps, InCopyKeeps, InWrapKeeps, InPublishKeeps
     DEF QueueIn
<1>3. CASE QueueOut /\ UNCHANGED <<shared, rereads>>
  BY <1>1, <1>3, OutBeginKeeps, OutRereadKeeps, OutCopyKeeps, OutWrapKeeps,
     OutPublishKeeps DEF QueueOut
<1>4. CASE Reset /\ UNCHANGED <<shared, rereads>>
  BY <1>1, <1>4, ResetKeeps
<1>5. CASE UNCHANGED vars
  <2>1. TypeOK'
    BY <1>1, <1>5 DEF IInv, TypeOK, vars, writer, reader
  <2>2. NoOverrun'
    BY <1>1, <1>5 DEF IInv, NoOverrun, Used, Pending, Leaving, vars, writer, reader
  <2>3. QED BY <2>1, <2>2 DEF IInv
<1>6. QED BY <1>1, <1>2, <1>3, <1>4, <1>5 DEF Next

\* Every length and index of the ring buffer has its type, whatever the two
\* threads do: _queue_in and _queue_out never leave unsigned int.
THEOREM TypeCorrect == Spec => []TypeOK
<1>1. IInv => TypeOK
  BY DEF IInv
<1>2. QED BY InitIInv, StepIInv, <1>1, PTL DEF Spec

\* For every size below the width of the index and both ways to compile min:
\* _queue_in writes only room, and _queue_out reads only published bytes.
THEOREM NoOverrunCorrect == Spec => []NoOverrun
<1>1. IInv => NoOverrun
  BY DEF IInv
<1>2. QED BY InitIInv, StepIInv, <1>1, PTL DEF Spec

----------------------------------------------------------------------------
\* In a build that evaluates min once, no call is where it would read again.
ReadsOnce == wpc # "reread" /\ rpc # "reread"
AsksOnce == ~rereads => AtMostAsked /\ ReadsOnce

LEMMA StepOnce ==
  ASSUME TypeOK, AsksOnce, Next
  PROVE  AsksOnce'
<1> SUFFICES ASSUME ~rereads PROVE AtMostAsked' /\ ReadsOnce'
  BY DEF Next, AsksOnce
<1> AtMostAsked /\ ReadsOnce
  BY DEF AsksOnce
<1>2. ASSUME NEW data \in Requests, InBegin(data)
      PROVE  AtMostAsked' /\ ReadsOnce'
  <2>1. Len(data) \in Nat
    BY RequestType
  <2>2. Free \in 0 .. W - 1
    <3>1. in \in 0 .. W - 1 /\ out \in 0 .. W - 1 /\ Size \in 0 .. W - 1
      BY QueueAssumption DEF TypeOK
    <3>2. Minus(Size, in) \in 0 .. W - 1
      BY <3>1, UnsignedType
    <3>3. QED BY <3>1, <3>2, UnsignedType DEF Free
  <2>3. Smaller(Len(data), Free) <= Len(data)
    BY <2>1, <2>2, QueueAssumption DEF Smaller
  <2>4. wpc' = "copy" /\ wdata' = data /\ wlen' <= Len(data) /\ UNCHANGED reader
    BY <1>2, <2>3 DEF InBegin
  <2>5. QED BY <2>4 DEF AtMostAsked, ReadsOnce, Pending, Leaving, reader
<1>3. ASSUME NEW n \in 0 .. MaxLen, OutBegin(n)
      PROVE  AtMostAsked' /\ ReadsOnce'
  <2>1. Used \in 0 .. W - 1
    BY UnsignedType DEF TypeOK, Used
  <2>2. Smaller(n, Used) <= n
    BY <2>1, QueueAssumption DEF Smaller
  <2>3. rpc' = "copy" /\ rwant' = n /\ rlen' <= n /\ UNCHANGED writer
    BY <1>3, <2>2 DEF OutBegin
  <2>4. QED BY <2>3 DEF AtMostAsked, ReadsOnce, Pending, Leaving, writer
<1>4. CASE InReread \/ OutReread
  BY <1>4 DEF ReadsOnce, InReread, OutReread
<1>5. CASE InCopy \/ InWrap
  BY <1>5 DEF InCopy, InWrap, AtMostAsked, ReadsOnce, Pending, Leaving, reader
<1>6. CASE OutCopy \/ OutWrap
  BY <1>6 DEF OutCopy, OutWrap, AtMostAsked, ReadsOnce, Pending, Leaving, writer
<1>7. CASE InPublish
  BY <1>7 DEF InPublish, AtMostAsked, ReadsOnce, Pending, Leaving, reader
<1>8. CASE OutPublish
  BY <1>8 DEF OutPublish, AtMostAsked, ReadsOnce, Pending, Leaving, writer
<1>9. CASE Reset
  BY <1>9 DEF Reset, AtMostAsked, ReadsOnce, Pending, Leaving, reader, writer
<1>10. QED
  BY <1>2, <1>3, <1>4, <1>5, <1>6, <1>7, <1>8, <1>9 DEF Next, QueueIn, QueueOut

\* A build that evaluates min once copies "at most @len bytes" with both
\* threads at work, as the comments of _queue_in and _queue_out say.
THEOREM AtMostAskedCorrect == Spec => [](~rereads => AtMostAsked)
<1>1. Init => AsksOnce
  BY DEF Init, AsksOnce, AtMostAsked, ReadsOnce, Pending, Leaving
<1>2. TypeOK /\ AsksOnce /\ [Next]_vars => AsksOnce'
  <2>1. SUFFICES ASSUME TypeOK, AsksOnce, UNCHANGED vars PROVE AsksOnce'
    BY StepOnce
  <2>2. QED
    BY <2>1 DEF vars, AsksOnce, AtMostAsked, ReadsOnce, Pending, Leaving, reader, writer
<1>3. AsksOnce => (~rereads => AtMostAsked)
  BY DEF AsksOnce
<1>4. QED BY <1>1, <1>2, <1>3, TypeCorrect, PTL DEF Spec

----------------------------------------------------------------------------
(* The two indices and the memory implement a queue of bytes.              *)

\* The place of the n-th byte from index x, and the bytes in their order.
At(x, n) == Offset(Plus(x, n))
Held == [i \in 1 .. Used |-> buffer[Offset(Plus(out, i - 1))]]

\* What the writer has copied stands where the reader will look for it.
Written ==
  wpc \in {"wrap", "publish"} =>
    \A i \in 0 .. (IF wpc = "wrap" THEN ToEnd(in, wlen) ELSE wlen) - 1 :
      buffer[At(in, i)] = wdata[i + 1]

\* What the reader has copied is what stands first.
Taken ==
  rpc \in {"wrap", "publish"} =>
    rdata = [i \in 1 .. (IF rpc = "wrap" THEN ToEnd(out, rlen) ELSE rlen) |-> Held[i]]

OneAtATime == ~shared => wpc = "idle" \/ rpc = "idle"

\* Division by the size, as the lemmas below need it: a remainder in range is
\* the remainder.
LEMMA Remainder ==
  ASSUME NEW a \in Nat, NEW d \in Nat, NEW r \in 0 .. Size - 1, a = Size * d + r
  PROVE  a % Size = r
<1> DEFINE e == a \div Size
           s == a % Size
<1>1. Size \in Nat \ {0}
  BY QueueAssumption
<1>2. e \in Nat /\ s \in 0 .. Size - 1 /\ a = Size * e + s
  BY <1>1
<1> HIDE DEF e, s
<1>3. Size * e + s = Size * d + r
  BY <1>2
<1>4. ~(e < d)
  <2>1. SUFFICES ASSUME e < d PROVE FALSE
    OBVIOUS
  <2>2. Size * (e + 1) <= Size * d
    BY <2>1, <1>1, <1>2
  <2>3. Size * (e + 1) = Size * e + Size
    BY <1>1, <1>2
  <2>4. QED BY <2>2, <2>3, <1>1, <1>2, <1>3
<1>5. ~(d < e)
  <2>1. SUFFICES ASSUME d < e PROVE FALSE
    OBVIOUS
  <2>2. Size * (d + 1) <= Size * e
    BY <2>1, <1>1, <1>2
  <2>3. Size * (d + 1) = Size * d + Size
    BY <1>1
  <2>4. QED BY <2>2, <2>3, <1>1, <1>2, <1>3
<1>6. e = d
  BY <1>4, <1>5, <1>2
<1>7. s = r
  BY <1>6, <1>3, <1>1, <1>2
<1>8. QED BY <1>7 DEF s

\* The offset of a sum goes around at the end of the memory, also where the
\* index wraps: W is a number of whole buffers.
LEMMA OffsetSum ==
  ASSUME NEW x \in 0 .. W - 1, NEW n \in 0 .. Size - 1
  PROVE  At(x, n) = IF Offset(x) + n < Size THEN Offset(x) + n ELSE Offset(x) + n - Size
<1> DEFINE d == x \div Size
           r == x % Size
           m == W \div Size
<1>1. Size \in Nat \ {0} /\ W \in Nat /\ Size < W
  BY QueueAssumption
<1>2. d \in Nat /\ r \in 0 .. Size - 1 /\ x = Size * d + r
  BY <1>1
<1>3. m \in Nat /\ W = Size * m
  BY <1>1, WholeBuffers
<1>4. Offset(x) = r
  BY DEF Offset
<1> DEFINE y == IF r + n < Size THEN r + n ELSE r + n - Size
           c == IF r + n < Size THEN d ELSE d + 1
<1> HIDE DEF d, r, m
<1>5. y \in 0 .. Size - 1 /\ c \in Nat
  BY <1>1, <1>2
<1>6. x + n = Size * c + y
  <2>1. Size * (d + 1) = Size * d + Size
    BY <1>1, <1>2
  <2>2. QED BY <2>1, <1>1, <1>2
<1> HIDE DEF y, c
<1>7. CASE x + n < W
  <2>1. (x + n) % Size = y
    <3>1. x + n \in Nat
      BY <1>1
    <3>2. QED BY <3>1, <1>5, <1>6, Remainder
  <2>2. Plus(x, n) = x + n
    BY <1>7 DEF Plus
  <2>3. QED BY <2>1, <2>2, <1>4 DEF At, Offset, y
<1>8. CASE ~(x + n < W)
  <2>1. c \in Nat /\ m \in Nat /\ ~(c < m)
    <3>1. SUFFICES ASSUME c < m PROVE FALSE
      BY <1>3, <1>5
    <3>2. Size * (c + 1) <= Size * m
      BY <3>1, <1>1, <1>3, <1>5
    <3>3. Size * (c + 1) = Size * c + Size
      BY <1>1, <1>5
    <3>4. QED BY <3>2, <3>3, <1>1, <1>3, <1>5, <1>6, <1>8
  <2>2. c - m \in Nat /\ Size * (c - m) = Size * c - Size * m
    BY <2>1, <1>1
  <2>3. x + n - W \in Nat /\ x + n - W = Size * (c - m) + y
    BY <2>2, <1>1, <1>3, <1>5, <1>6, <1>8
  <2>4. (x + n - W) % Size = y
    BY <2>2, <2>3, <1>5, Remainder
  <2>5. Plus(x, n) = x + n - W
    BY <1>8 DEF Plus
  <2>6. QED BY <2>4, <2>5, <1>4 DEF At, Offset, y
<1>9. QED BY <1>7, <1>8, <1>1

\* Steps along the ring add up.
LEMMA PlusSum ==
  ASSUME NEW x \in 0 .. W - 1, NEW a \in Nat, NEW b \in Nat, a + b < W
  PROVE  /\ Plus(x, a) \in 0 .. W - 1
         /\ Plus(Plus(x, a), b) = Plus(x, a + b)
BY QueueAssumption DEF Plus

LEMMA InIsAhead ==
  ASSUME in \in 0 .. W - 1, out \in 0 .. W - 1
  PROVE  in = Plus(out, Used)
BY QueueAssumption DEF Plus, Minus, Used

\* The byte at in + b is the (Used + b)-th from out.
LEMMA AheadOf ==
  ASSUME in \in 0 .. W - 1, out \in 0 .. W - 1, NEW b \in Nat, Used + b < Size
  PROVE  At(in, b) = At(out, Used + b)
<1>1. Used \in 0 .. W - 1 /\ Used + b < W
  BY UnsignedType, QueueAssumption DEF Used
<1>2. QED BY <1>1, InIsAhead, PlusSum DEF At

----------------------------------------------------------------------------
\* The lengths in the code's own terms, while nothing overruns.
LEMMA Lengths ==
  ASSUME TypeOK, NoOverrun
  PROVE  /\ Used \in 0 .. Size /\ Used <= W - 1
         /\ wpc \in {"copy", "wrap", "publish"} => wlen \in 0 .. Size - Used
         /\ rpc \in {"copy", "wrap", "publish"} => rlen \in 0 .. Used
BY Bounds, QueueAssumption DEF NoOverrun, Pending, Leaving, TypeOK

\* Where the writer copies, no byte of the queue stands.
LEMMA Elsewhere ==
  ASSUME TypeOK, NoOverrun, wpc \in {"copy", "wrap", "publish"},
         NEW a \in 0 .. Used - 1
  PROVE  /\ At(out, a) \in 0 .. Size - 1
         /\ ~(Offset(in) <= At(out, a) /\ At(out, a) < Offset(in) + ToEnd(in, wlen))
         /\ ~(At(out, a) < wlen - ToEnd(in, wlen))
<1>1. /\ Used \in 0 .. Size /\ wlen \in 0 .. Size - Used /\ Size \in Nat \ {0}
      /\ in \in 0 .. W - 1 /\ out \in 0 .. W - 1
  BY Lengths, QueueAssumption DEF TypeOK
<1>2. Offset(in) \in 0 .. Size - 1 /\ Offset(out) \in 0 .. Size - 1
  BY <1>1, OffsetType
<1>3. At(out, a) = IF Offset(out) + a < Size THEN Offset(out) + a ELSE Offset(out) + a - Size
  BY <1>1, OffsetSum
<1>4. At(out, a) \in 0 .. Size - 1
  BY <1>1, <1>2, <1>3
<1>5. ToEnd(in, wlen) = IF wlen < Size - Offset(in) THEN wlen ELSE Size - Offset(in)
  BY DEF ToEnd, Smaller
<1>6. CASE Used = Size
  <2>1. wlen = 0
    BY <1>1, <1>6
  <2>2. ToEnd(in, wlen) = 0
    BY <2>1, <1>5, <1>2, <1>1
  <2>3. QED BY <2>1, <2>2, <1>1, <1>2, <1>4
<1>7. CASE Used # Size
  <2>1. Offset(in) = IF Offset(out) + Used < Size THEN Offset(out) + Used
                     ELSE Offset(out) + Used - Size
    <3>1. Used \in 0 .. Size - 1
      BY <1>1, <1>7
    <3>2. Offset(in) = At(out, Used)
      BY <1>1, InIsAhead DEF At
    <3>3. QED BY <3>1, <3>2, <1>1, OffsetSum
  <2> HIDE DEF NoOverrun
  <2>2. QED BY <2>1, <1>1, <1>2, <1>3, <1>4, <1>5
<1>8. QED BY <1>6, <1>7

\* A copy of the writer leaves every byte of the queue.
LEMMA CopyLeaves ==
  ASSUME TypeOK, NoOverrun, InCopy \/ InWrap
  PROVE  Held' = Held
<1>1. wpc \in {"copy", "wrap", "publish"} /\ in' = in /\ out' = out /\ Used' = Used
  BY DEF InCopy, InWrap, Used
<1>2. ASSUME NEW a \in 0 .. Used - 1
      PROVE  buffer'[At(out, a)] = buffer[At(out, a)]
  <2>1. At(out, a) \in 0 .. Size - 1
    BY <1>1, Elsewhere
  <2>2. CASE InCopy
    <3>1. buffer' = Stored(Offset(in), 0, ToEnd(in, wlen))
      BY <2>2 DEF InCopy
    <3>2. QED BY <3>1, <2>1, <1>1, Elsewhere DEF Stored
  <2>3. CASE InWrap
    <3>1. buffer' = Stored(0, ToEnd(in, wlen), wlen - ToEnd(in, wlen))
      BY <2>3 DEF InWrap
    <3>2. ~(At(out, a) < 0 + (wlen - ToEnd(in, wlen)))
      <4>1. in \in 0 .. W - 1 /\ wlen \in 0 .. Size
        BY <1>1, Lengths, QueueAssumption DEF TypeOK
      <4>2. ToEnd(in, wlen) \in 0 .. wlen
        BY <4>1, ToEndType
      <4>3. 0 + (wlen - ToEnd(in, wlen)) = wlen - ToEnd(in, wlen)
        BY <4>1, <4>2, QueueAssumption
      <4>4. QED BY <4>3, <1>1, Elsewhere
    <3>3. QED BY <3>1, <3>2, <2>1 DEF Stored
  <2>4. QED BY <2>2, <2>3
<1>3. ASSUME NEW i \in 1 .. Used
      PROVE  buffer'[Offset(Plus(out, i - 1))] = buffer[Offset(Plus(out, i - 1))]
  <2>1. i - 1 \in 0 .. Used - 1
    BY <1>3, Lengths, QueueAssumption
  <2>2. QED BY <2>1, <1>2 DEF At
<1>4. QED BY <1>1, <1>3 DEF Held

\* The first copy writes the data up to the end of the memory.
LEMMA CopyWrites ==
  ASSUME TypeOK, NoOverrun, InCopy, wlen <= Len(wdata)
  PROVE  Written'
<1>1. /\ in \in 0 .. W - 1 /\ wlen \in 0 .. Size /\ Size \in Nat \ {0} /\ Len(wdata) \in Nat
  BY Lengths, QueueAssumption DEF TypeOK, InCopy
<1>2. /\ Offset(in) \in 0 .. Size - 1 /\ ToEnd(in, wlen) \in 0 .. wlen
      /\ Offset(in) + ToEnd(in, wlen) <= Size
  BY <1>1, OffsetType, ToEndType
<1>3. ASSUME NEW i \in 0 .. ToEnd(in, wlen) - 1
      PROVE  buffer'[At(in, i)] = wdata[i + 1]
  <2>1. i \in 0 .. Size - 1 /\ Offset(in) + i < Size
    BY <1>1, <1>2, <1>3
  <2>2. At(in, i) = Offset(in) + i
    BY <2>1, <1>1, OffsetSum
  <2>3. At(in, i) \in 0 .. Size - 1 /\ Offset(in) <= At(in, i)
        /\ At(in, i) < Offset(in) + ToEnd(in, wlen) /\ 0 + At(in, i) - Offset(in) + 1 = i + 1
    BY <2>1, <2>2, <1>1, <1>2, <1>3
  <2>4. buffer'[At(in, i)] = Given(i + 1)
    BY <2>3 DEF InCopy, Stored
  <2>5. QED BY <2>4, <1>1, <1>2, <1>3 DEF Given
<1>4. in' = in /\ wdata' = wdata /\ wlen' = wlen /\ wpc' = "wrap"
  BY DEF InCopy
<1>5. QED BY <1>3, <1>4 DEF Written

\* The second copy writes the rest at the start of the memory.
LEMMA WrapWrites ==
  ASSUME TypeOK, NoOverrun, InWrap, Written, wlen <= Len(wdata)
  PROVE  Written'
<1>1. /\ in \in 0 .. W - 1 /\ wlen \in 0 .. Size /\ Size \in Nat \ {0} /\ Len(wdata) \in Nat
  BY Lengths, QueueAssumption DEF TypeOK, InWrap
<1> DEFINE l == ToEnd(in, wlen)
<1>2. Offset(in) \in 0 .. Size - 1 /\ l \in 0 .. wlen /\ Offset(in) + l <= Size
  BY <1>1, OffsetType, ToEndType
<1>3. l = IF wlen < Size - Offset(in) THEN wlen ELSE Size - Offset(in)
  BY DEF ToEnd, Smaller
<1>4. /\ in' = in /\ wdata' = wdata /\ wlen' = wlen /\ wpc' = "publish"
      /\ buffer' = Stored(0, l, wlen - l)
  BY DEF InWrap
<1>5. \A i \in 0 .. l - 1 : buffer[At(in, i)] = wdata[i + 1]
  BY DEF Written, InWrap
<1> HIDE DEF l
<1>6. ASSUME NEW i \in 0 .. wlen - 1
      PROVE  buffer'[At(in, i)] = wdata[i + 1]
  <2>1. i \in 0 .. Size - 1
    BY <1>1, <1>6
  <2>2. At(in, i) = IF Offset(in) + i < Size THEN Offset(in) + i ELSE Offset(in) + i - Size
    BY <2>1, <1>1, OffsetSum
  <2>3. CASE i < l
    <3>0. wlen - l <= Offset(in)
      BY <1>1, <1>2, <1>3
    <3>1. At(in, i) \in 0 .. Size - 1 /\ ~(At(in, i) < 0 + (wlen - l))
      <4>1. At(in, i) = Offset(in) + i /\ Offset(in) + i < Size
        BY <2>1, <2>2, <2>3, <1>1, <1>2
      <4>2. QED BY <4>1, <3>0, <2>1, <1>1, <1>2
    <3>2. buffer'[At(in, i)] = buffer[At(in, i)]
      BY <3>1, <1>4 DEF Stored
    <3>3. i \in 0 .. l - 1
      BY <2>3, <1>1, <1>2, <1>6
    <3>4. QED BY <3>2, <3>3, <1>5
  <2>4. CASE ~(i < l)
    <3>1. At(in, i) = i - l
      BY <2>1, <2>2, <2>4, <1>1, <1>2, <1>3, <1>6
    <3>2. /\ At(in, i) \in 0 .. Size - 1 /\ 0 <= At(in, i) /\ At(in, i) < 0 + (wlen - l)
          /\ l + At(in, i) - 0 + 1 = i + 1
      BY <3>1, <2>1, <2>4, <1>1, <1>2, <1>6
    <3>3. buffer'[At(in, i)] = Given(i + 1)
      BY <3>2, <1>4 DEF Stored
    <3>4. QED BY <3>3, <1>1, <1>6 DEF Given
  <2>5. QED BY <2>3, <2>4
<1>7. QED BY <1>4, <1>6 DEF Written

----------------------------------------------------------------------------
LEMMA HeldIs ==
  ASSUME TypeOK, NoOverrun
  PROVE  /\ Held \in Seq(Byte) /\ Len(Held) = Used /\ DOMAIN Held = 1 .. Used
         /\ \A i \in 1 .. Used : Held[i] = buffer[At(out, i - 1)]
<1>1. Used \in 0 .. Size /\ out \in 0 .. W - 1 /\ Size \in Nat
  BY Lengths, QueueAssumption DEF TypeOK
<1>2. ASSUME NEW i \in 1 .. Used
      PROVE  buffer[Offset(Plus(out, i - 1))] \in Byte
  <2>1. i - 1 \in 0 .. W - 1
    BY <1>1, <1>2, Lengths, QueueAssumption
  <2>2. Offset(Plus(out, i - 1)) \in 0 .. Size - 1
    BY <1>1, <2>1, UnsignedType, OffsetType
  <2>3. QED BY <2>2 DEF TypeOK
<1>3. Held \in [1 .. Used -> Byte]
  BY <1>2 DEF Held
<1>4. Held \in Seq(Byte) /\ Len(Held) = Used /\ DOMAIN Held = 1 .. Used
  BY <1>1, <1>3
<1>5. \A i \in 1 .. Used : Held[i] = buffer[At(out, i - 1)]
  BY DEF Held, At
<1>6. QED BY <1>4, <1>5

LEMMA Joined ==
  ASSUME NEW s \in Seq(Byte), NEW t \in Seq(Byte),
         NEW m, NEW n, m = Len(s), n = Len(t)
  PROVE  /\ s \o t \in Seq(Byte) /\ Len(s \o t) = m + n
         /\ \A i \in 1 .. m + n : (s \o t)[i] = IF i <= m THEN s[i] ELSE t[i - m]
OBVIOUS

LEMMA Appended ==
  ASSUME NEW s \in Seq(Byte), NEW t \in Seq(Byte),
         NEW m, m = Len(s), NEW n \in 0 .. Len(t)
  PROVE  /\ s \o SubSeq(t, 1, n) \in Seq(Byte) /\ Len(s \o SubSeq(t, 1, n)) = m + n
         /\ \A i \in 1 .. m + n :
              (s \o SubSeq(t, 1, n))[i] = IF i <= m THEN s[i] ELSE t[i - m]
<1> DEFINE u == SubSeq(t, 1, n)
<1>1. u \in Seq(Byte) /\ Len(u) = n /\ \A j \in 1 .. n : u[j] = t[j]
  OBVIOUS
<1> HIDE DEF u
<1>2. /\ s \o u \in Seq(Byte) /\ Len(s \o u) = m + n
      /\ \A i \in 1 .. m + n : (s \o u)[i] = IF i <= m THEN s[i] ELSE u[i - m]
  BY <1>1, Joined
<1>3. m \in Nat
  OBVIOUS
<1>4. ASSUME NEW i \in 1 .. m + n, ~(i <= m)
      PROVE  u[i - m] = t[i - m]
  <2>1. i - m \in 1 .. n
    BY <1>3, <1>4
  <2>2. QED BY <2>1, <1>1
<1>5. QED BY <1>2, <1>4 DEF u

\* When the writer publishes, its bytes stand behind the others.
LEMMA PublishAppends ==
  ASSUME TypeOK, NoOverrun, InPublish, Written, wlen <= Len(wdata)
  PROVE  /\ Held' = Held \o SubSeq(wdata, 1, wlen)
         /\ \A i \in 1 .. Used : Held'[i] = Held[i]
<1>1. /\ Used \in 0 .. Size /\ wlen \in 0 .. Size - Used /\ Size \in Nat \ {0} /\ Size < W
      /\ in \in 0 .. W - 1 /\ out \in 0 .. W - 1 /\ wlen \in 0 .. Len(wdata)
  BY Lengths, QueueAssumption DEF TypeOK, InPublish
<1>2. Used' = Used + wlen
  <2>1. wlen \in Nat /\ Used + wlen < W
    BY <1>1, QueueAssumption
  <2>2. Minus(in, out) + wlen < W
    BY <2>1 DEF Used
  <2>3. QED BY <2>1, <2>2, <1>1, PublishMoves DEF InPublish, Used
<1>3. \A i \in 0 .. wlen - 1 : buffer[At(in, i)] = wdata[i + 1]
  BY DEF Written, InPublish
<1>4. Held \in Seq(Byte) /\ Len(Held) = Used /\ \A i \in 1 .. Used : Held[i] = buffer[At(out, i - 1)]
  BY HeldIs
<1>5. Held' = [i \in 1 .. Used + wlen |-> buffer[At(out, i - 1)]]
  <2>1. Held' = [i \in 1 .. Used' |-> buffer'[Offset(Plus(out', i - 1))]]
    BY DEF Held
  <2>2. QED BY <2>1, <1>2 DEF InPublish, At
<1>6. ASSUME NEW i \in 1 .. Used + wlen, ~(i <= Used)
      PROVE  buffer[At(out, i - 1)] = wdata[i - Used]
  <2> DEFINE b == i - Used - 1
  <2>1. b \in 0 .. wlen - 1 /\ Used + b = i - 1 /\ b + 1 = i - Used /\ Used + b < Size /\ b \in Nat
    BY <1>1, <1>6
  <2> HIDE DEF b
  <2>2. At(in, b) = At(out, i - 1)
    BY <2>1, <1>1, AheadOf
  <2>3. QED BY <2>1, <2>2, <1>3
<1>7. Held' = [i \in 1 .. Used + wlen |-> IF i <= Used THEN Held[i] ELSE wdata[i - Used]]
  <2>1. ASSUME NEW i \in 1 .. Used + wlen
        PROVE  buffer[At(out, i - 1)] = IF i <= Used THEN Held[i] ELSE wdata[i - Used]
    <3>1. CASE i <= Used
      <4>1. i \in 1 .. Used
        BY <3>1, <1>1
      <4>2. QED BY <4>1, <3>1, <1>4
    <3>2. QED BY <3>1, <1>6
  <2>2. QED BY <2>1, <1>5
<1>8. wdata \in Seq(Byte)
  BY DEF TypeOK
<1>9. Held' = Held \o SubSeq(wdata, 1, wlen)
  <2> DEFINE t == Held \o SubSeq(wdata, 1, wlen)
  <2>1. /\ t \in Seq(Byte) /\ Len(t) = Used + wlen
        /\ \A i \in 1 .. Used + wlen : t[i] = IF i <= Used THEN Held[i] ELSE wdata[i - Used]
    <3>1. Held \in Seq(Byte) /\ Used = Len(Held)
      BY <1>1, <1>4
    <3>2. wdata \in Seq(Byte) /\ wlen \in 0 .. Len(wdata)
      BY <1>1, <1>8
    <3>3. QED BY <3>1, <3>2, Appended
  <2> HIDE DEF t
  <2>2. t = [i \in 1 .. Used + wlen |-> t[i]]
    BY <2>1, <1>1
  <2>3. t = [i \in 1 .. Used + wlen |-> IF i <= Used THEN Held[i] ELSE wdata[i - Used]]
    BY <2>1, <2>2
  <2>4. QED BY <2>3, <1>7 DEF t
<1>10. \A i \in 1 .. Used : i \in 1 .. Used + wlen /\ i <= Used
  BY <1>1
<1>11. QED BY <1>7, <1>9, <1>10

\* The reader's first copy takes the bytes up to the end of the memory.
LEMMA CopyTakes ==
  ASSUME TypeOK, NoOverrun, OutCopy, Held' = Held
  PROVE  Taken'
<1>1. /\ Used \in 0 .. Size /\ rlen \in 0 .. Used /\ Size \in Nat \ {0}
      /\ out \in 0 .. W - 1 /\ rlen \in 0 .. Size
  BY Lengths, QueueAssumption DEF TypeOK, OutCopy
<1> DEFINE l == ToEnd(out, rlen)
<1>2. Offset(out) \in 0 .. Size - 1 /\ l \in 0 .. rlen /\ Offset(out) + l <= Size
  BY <1>1, OffsetType, ToEndType
<1>3. rdata' = [i \in 1 .. l |-> buffer[Offset(out) + i - 1]] /\ rpc' = "wrap"
      /\ out' = out /\ rlen' = rlen
  BY DEF OutCopy, Fetched
<1>4. \A i \in 1 .. Used : Held[i] = buffer[At(out, i - 1)]
  BY HeldIs
<1>5. ToEnd(out', rlen') = l
  BY <1>3
<1> HIDE DEF l
<1>6. ASSUME NEW i \in 1 .. l
      PROVE  buffer[Offset(out) + i - 1] = Held[i]
  <2>1. i - 1 \in 0 .. Size - 1 /\ Offset(out) + (i - 1) < Size /\ i \in 1 .. Used
        /\ Offset(out) + (i - 1) = Offset(out) + i - 1
    BY <1>1, <1>2, <1>6
  <2>2. At(out, i - 1) = Offset(out) + (i - 1)
    BY <2>1, <1>1, OffsetSum
  <2>3. QED BY <2>1, <2>2, <1>4
<1>7. rdata' = [i \in 1 .. l |-> Held'[i]]
  BY <1>3, <1>6
<1>8. QED BY <1>3, <1>5, <1>7 DEF Taken

\* The second takes the rest from the start of it.
LEMMA WrapTakes ==
  ASSUME TypeOK, NoOverrun, OutWrap, Taken, Held' = Held
  PROVE  Taken'
<1>1. /\ Used \in 0 .. Size /\ rlen \in 0 .. Used /\ Size \in Nat \ {0}
      /\ out \in 0 .. W - 1 /\ rlen \in 0 .. Size
  BY Lengths, QueueAssumption DEF TypeOK, OutWrap
<1> DEFINE l == ToEnd(out, rlen)
           rest == Fetched(0, rlen - l)
<1>2. Offset(out) \in 0 .. Size - 1 /\ l \in 0 .. rlen /\ Offset(out) + l <= Size
  BY <1>1, OffsetType, ToEndType
<1>3. l = IF rlen < Size - Offset(out) THEN rlen ELSE Size - Offset(out)
  BY DEF ToEnd, Smaller
<1>4. rdata = [i \in 1 .. l |-> Held[i]] /\ rdata \in Seq(Byte)
  BY DEF Taken, OutWrap, TypeOK
<1>5. rdata' = rdata \o rest /\ rpc' = "publish" /\ rlen' = rlen
  BY DEF OutWrap
<1>6. \A i \in 1 .. Used : Held[i] = buffer[At(out, i - 1)]
  BY HeldIs
<1>7. rest = [i \in 1 .. rlen - l |-> buffer[0 + i - 1]] /\ rest \in Seq(Byte)
  <2>1. rlen - l \in Nat /\ 0 + (rlen - l) <= Size
    BY <1>1, <1>2
  <2>2. QED BY <2>1, FetchedType DEF TypeOK, Fetched
<1> HIDE DEF l, rest
<1>8. Len(rdata) = l /\ Len(rest) = rlen - l
  BY <1>1, <1>2, <1>4, <1>7
<1>9. rdata \o rest = [i \in 1 .. rlen |-> IF i <= l THEN rdata[i] ELSE rest[i - l]]
  <2> DEFINE t == rdata \o rest
  <2>1. l + (rlen - l) = rlen
    BY <1>1, <1>2
  <2>2. /\ t \in Seq(Byte) /\ Len(t) = rlen
        /\ \A i \in 1 .. rlen : t[i] = IF i <= l THEN rdata[i] ELSE rest[i - l]
    <3>1. rdata \in Seq(Byte) /\ rest \in Seq(Byte)
      BY <1>4, <1>7
    <3>2. /\ t \in Seq(Byte) /\ Len(t) = l + (rlen - l)
          /\ \A i \in 1 .. l + (rlen - l) : t[i] = IF i <= l THEN rdata[i] ELSE rest[i - l]
      BY <3>1, <1>8, Joined
    <3> HIDE DEF t
    <3>3. QED BY <3>2, <2>1
  <2> HIDE DEF t
  <2>3. t = [i \in 1 .. rlen |-> t[i]]
    BY <2>2, <1>1
  <2>4. t = [i \in 1 .. rlen |-> IF i <= l THEN rdata[i] ELSE rest[i - l]]
    BY <2>2, <2>3
  <2>5. QED BY <2>4 DEF t
<1>10. ASSUME NEW i \in 1 .. rlen
       PROVE  (IF i <= l THEN rdata[i] ELSE rest[i - l]) = Held[i]
  <2>1. CASE i <= l
    <3>1. i \in 1 .. l
      BY <2>1, <1>2, <1>10
    <3>2. QED BY <3>1, <2>1, <1>4
  <2>2. CASE ~(i <= l)
    <3>1. i - l \in 1 .. rlen - l /\ i \in 1 .. Used /\ i - 1 \in 0 .. Size - 1
          /\ 0 + (i - l) - 1 = i - l - 1 /\ l = Size - Offset(out)
      BY <2>2, <1>1, <1>2, <1>3, <1>10
    <3>2. rest[i - l] = buffer[i - l - 1]
      BY <3>1, <1>7
    <3>3. At(out, i - 1) = IF Offset(out) + (i - 1) < Size THEN Offset(out) + (i - 1)
                           ELSE Offset(out) + (i - 1) - Size
      BY <3>1, <1>1, OffsetSum
    <3>4. At(out, i - 1) = i - l - 1
      BY <3>1, <3>3, <2>2, <1>1, <1>2, <1>10
    <3>5. QED BY <3>1, <3>2, <3>4, <2>2, <1>6
  <2>3. QED BY <2>1, <2>2
<1>11. rdata' = [i \in 1 .. rlen |-> Held'[i]]
  BY <1>5, <1>9, <1>10
<1>12. QED BY <1>5, <1>11 DEF Taken

\* When the reader releases, its bytes are gone from the front.
LEMMA ReleaseDrops ==
  ASSUME TypeOK, NoOverrun, OutPublish, Taken
  PROVE  /\ got' = SubSeq(Held, 1, rlen)
         /\ Held' = SubSeq(Held, rlen + 1, Len(Held))
<1>1. /\ Used \in 0 .. Size /\ rlen \in 0 .. Used /\ Size \in Nat \ {0} /\ Size < W
      /\ in \in 0 .. W - 1 /\ out \in 0 .. W - 1
  BY Lengths, QueueAssumption DEF TypeOK, OutPublish
<1>2. Held \in Seq(Byte) /\ Len(Held) = Used /\ \A i \in 1 .. Used : Held[i] = buffer[At(out, i - 1)]
  BY HeldIs
<1>3. got' = [i \in 1 .. rlen |-> Held[i]]
  BY DEF Taken, OutPublish
<1>4. got' = SubSeq(Held, 1, rlen)
  <2>1. SubSeq(Held, 1, rlen) = [i \in 1 .. rlen |-> Held[i]]
    BY <1>1, <1>2
  <2>2. QED BY <2>1, <1>3
<1>5. SubSeq(Held, rlen + 1, Len(Held)) = [i \in 1 .. Used - rlen |-> Held[rlen + i]]
  BY <1>1, <1>2
<1> DEFINE o == Plus(out, rlen)
<1>6. Minus(in, o) = Used - rlen
  BY <1>1, PublishMoves DEF Used
<1>7. CASE SetBack(o)
  <2>1. Minus(in, o) = 0
    BY <1>7, <1>1 DEF SetBack, Minus
  <2>2. in' = 0 /\ out' = 0
    BY <1>7 DEF OutPublish
  <2>3. Used' = 0
    BY <2>2 DEF Used, Minus
  <2>4. Held' = [i \in 1 .. 0 |-> buffer'[Offset(Plus(out', i - 1))]]
    BY <2>3 DEF Held
  <2>5. [i \in 1 .. Used - rlen |-> Held[rlen + i]] = [i \in 1 .. 0 |-> Held[rlen + i]]
    BY <2>1, <1>6
  <2>6. [i \in 1 .. 0 |-> buffer'[Offset(Plus(out', i - 1))]] = [i \in 1 .. 0 |-> Held[rlen + i]]
    OBVIOUS
  <2>7. QED BY <2>4, <2>5, <2>6, <1>4, <1>5
<1>8. CASE ~SetBack(o)
  <2>1. in' = in /\ out' = o /\ buffer' = buffer
    BY <1>8 DEF OutPublish
  <2>2. Used' = Used - rlen
    BY <2>1, <1>6 DEF Used
  <2>3. Held' = [i \in 1 .. Used - rlen |-> buffer[Offset(Plus(o, i - 1))]]
    BY <2>1, <2>2 DEF Held
  <2>4. ASSUME NEW i \in 1 .. Used - rlen
        PROVE  buffer[Offset(Plus(o, i - 1))] = Held[rlen + i]
    <3>0. Used \in Int /\ rlen \in Int /\ W \in Int /\ Used < W /\ rlen >= 0 /\ i \in Int
          /\ 1 <= i /\ i <= Used - rlen
      BY <2>4, <1>1, QueueAssumption
    <3>1. /\ i - 1 \in Nat /\ rlen \in Nat /\ rlen + (i - 1) < W /\ rlen + i \in 1 .. Used
          /\ rlen + i - 1 = rlen + (i - 1)
      BY <3>0
    <3>2. Plus(o, i - 1) = Plus(out, rlen + (i - 1))
      BY <3>1, <1>1, PlusSum
    <3>3. Held[rlen + i] = buffer[At(out, rlen + i - 1)]
      BY <3>1, <1>2
    <3>4. QED BY <3>1, <3>2, <3>3 DEF At
  <2>5. QED BY <2>3, <2>4, <1>4, <1>5
<1>9. QED BY <1>7, <1>8

----------------------------------------------------------------------------
(* The refinement of ByteFifo: the two calls that run, as it sees them, and *)
(* what makes each of its steps.                                           *)

Putting == IF wpc = "idle" THEN Idle ELSE SubSeq(wdata, 1, wlen)
Getting == IF rpc = "idle" THEN Idle ELSE rlen

LEMMA FifoPut ==
  ASSUME NEW n \in 0 .. MaxLen, NEW data \in [1 .. n -> Byte],
         Putting = Idle, Putting' = SubSeq(data, 1, Smaller(Len(data), Size - Len(Held))),
         Held' = Held, Getting' = Getting, got' = got
  PROVE  Fifo!Next
<1>1. Fifo!Put(data)
  BY DEF Fifo!Put, Fifo!Smaller, Smaller, Putting, Held, Getting
<1>2. QED BY <1>1 DEF Fifo!Next

LEMMA FifoPutDone ==
  ASSUME Putting # Idle, Held' = Held \o Putting, Putting' = Idle,
         Getting' = Getting, got' = got
  PROVE  Fifo!Next
<1>1. Fifo!PutDone
  BY DEF Fifo!PutDone, Putting, Held, Getting
<1>2. QED BY <1>1 DEF Fifo!Next

LEMMA FifoGet ==
  ASSUME NEW n \in 0 .. MaxLen, Getting = Idle, Getting' = Smaller(n, Len(Held)),
         Held' = Held, Putting' = Putting, got' = got
  PROVE  Fifo!Next
<1>1. Fifo!Get(n)
  BY DEF Fifo!Get, Fifo!Smaller, Smaller, Putting, Held, Getting
<1>2. QED BY <1>1 DEF Fifo!Next

LEMMA FifoGetDone ==
  ASSUME Getting # Idle, got' = SubSeq(Held, 1, Getting),
         Held' = SubSeq(Held, Getting + 1, Len(Held)), Getting' = Idle, Putting' = Putting
  PROVE  Fifo!Next
<1>1. Fifo!GetDone
  BY DEF Fifo!GetDone, Putting, Held, Getting
<1>2. QED BY <1>1 DEF Fifo!Next

LEMMA FifoClear ==
  ASSUME Putting = Idle, Getting = Idle, Held' = <<>>, UNCHANGED <<Putting, Getting, got>>
  PROVE  Fifo!Next
<1>1. Fifo!Clear
  BY DEF Fifo!Clear, Putting, Held, Getting
<1>2. QED BY <1>1 DEF Fifo!Next

LEMMA FifoSame ==
  ASSUME Held' = Held, Putting' = Putting, Getting' = Getting, got' = got
  PROVE  UNCHANGED Fifo!vars
BY DEF Fifo!vars, Held, Putting, Getting

\* What tells the running calls apart from none.
LEMMA Running ==
  ASSUME TypeOK, ~rereads, AsksOnce
  PROVE  /\ wpc # "idle" => wpc \in {"copy", "wrap", "publish"} /\ wlen <= Len(wdata)
                            /\ Putting # Idle
         /\ rpc # "idle" => rpc \in {"copy", "wrap", "publish"} /\ Getting # Idle
<1>1. ReadsOnce /\ AtMostAsked
  BY DEF AsksOnce
<1>2. /\ wpc # "idle" => wpc \in {"copy", "wrap", "publish"} /\ wlen <= Len(wdata)
      /\ rpc # "idle" => rpc \in {"copy", "wrap", "publish"}
  BY <1>1 DEF ReadsOnce, AtMostAsked, Pending, TypeOK, Places
<1>3. rpc # "idle" => Getting # Idle
  <2>1. rlen \in Nat
    BY QueueAssumption DEF TypeOK
  <2>2. QED BY <2>1, QueueAssumption DEF Getting
<1>4. ASSUME wpc # "idle"
      PROVE  SubSeq(wdata, 1, wlen) \in Requests
  <2>1. wlen \in 0 .. MaxLen /\ wdata \in Seq(Byte) /\ wlen <= Len(wdata)
    BY <1>2, <1>4, QueueAssumption DEF TypeOK
  <2>2. SubSeq(wdata, 1, wlen) \in [1 .. wlen -> Byte]
    <3> DEFINE u == SubSeq(wdata, 1, wlen)
    <3>1. wlen \in 0 .. Len(wdata)
      BY <2>1, QueueAssumption
    <3>2. u \in Seq(Byte) /\ Len(u) = wlen
      BY <2>1, <3>1
    <3> HIDE DEF u
    <3>3. u \in [1 .. wlen -> Byte]
      BY <3>2
    <3>4. QED BY <3>3 DEF u
  <2>3. QED BY <2>1, <2>2 DEF Requests
<1>5. wpc # "idle" => Putting # Idle
  BY <1>4, QueueAssumption DEF Putting
<1>6. QED BY <1>2, <1>3, <1>5

\* A step of one thread and what it leaves to the other.
LEMMA WriterApart ==
  ASSUME UNCHANGED writer, in' = in, buffer' = buffer, Written
  PROVE  Written' /\ Putting' = Putting
BY DEF Written, Putting, writer, At

LEMMA ReaderApart ==
  ASSUME TypeOK, NoOverrun, UNCHANGED reader, out' = out, Taken,
         \A i \in 1 .. Used : Held'[i] = Held[i]
  PROVE  Taken' /\ Getting' = Getting /\ got' = got
<1>1. Getting' = Getting /\ got' = got
  BY DEF Getting, reader
<1>2. ASSUME rpc \in {"wrap", "publish"}
      PROVE  rdata' = [i \in 1 .. (IF rpc = "wrap" THEN ToEnd(out, rlen) ELSE rlen) |-> Held'[i]]
  <2> DEFINE n == IF rpc = "wrap" THEN ToEnd(out, rlen) ELSE rlen
  <2>1. out \in 0 .. W - 1 /\ rlen \in 0 .. Used /\ rlen \in 0 .. Size /\ Used \in 0 .. Size
    BY <1>2, Lengths, QueueAssumption DEF TypeOK
  <2>2. n \in 0 .. Used
    BY <2>1, ToEndType, QueueAssumption
  <2>3. rdata' = [i \in 1 .. n |-> Held[i]]
    BY <1>2 DEF Taken, reader
  <2> HIDE DEF n
  <2>4. \A i \in 1 .. n : Held'[i] = Held[i]
    BY <2>1, <2>2
  <2>5. rdata' = [i \in 1 .. n |-> Held'[i]]
    BY <2>3, <2>4
  <2>6. QED BY <2>5 DEF n
<1>3. QED BY <1>1, <1>2 DEF Taken, reader

\* What the two threads have done so far is what their calls have to do.
Exact == OneAtATime /\ Written /\ Taken

LEMMA InBeginPuts ==
  ASSUME TypeOK, NoOverrun, ~rereads, Exact, UNCHANGED <<shared, rereads>>,
         NEW data \in Requests, InBegin(data)
  PROVE  Exact' /\ Fifo!Next
<1>1. /\ wpc = "idle" /\ wpc' = "copy" /\ wdata' = data /\ wlen' = Smaller(Len(data), Free)
      /\ in' = in /\ out' = out /\ buffer' = buffer /\ UNCHANGED reader
      /\ ~shared => rpc = "idle"
  BY DEF InBegin
<1>2. Held' = Held
  BY <1>1 DEF Held, Used
<1>3. Taken' /\ Getting' = Getting /\ got' = got
  BY <1>1, <1>2, ReaderApart DEF Exact
<1>4. Written' /\ OneAtATime'
  BY <1>1 DEF Written, OneAtATime, reader
<1>5. PICK n \in 0 .. MaxLen : data \in [1 .. n -> Byte]
  BY DEF Requests
<1>6. Len(Held) = Used /\ Free = Size - Used
  BY HeldIs, Bounds
<1>7. Putting = Idle /\ Putting' = SubSeq(data, 1, Smaller(Len(data), Size - Len(Held)))
  BY <1>1, <1>6 DEF Putting
<1>8. Fifo!Next
  BY <1>2, <1>3, <1>5, <1>7, FifoPut
<1>9. QED BY <1>3, <1>4, <1>8 DEF Exact

LEMMA InCopiesStutter ==
  ASSUME TypeOK, NoOverrun, AsksOnce, ~rereads, Exact, UNCHANGED <<shared, rereads>>,
         InCopy \/ InWrap
  PROVE  Exact' /\ UNCHANGED Fifo!vars
<1>1. /\ wpc # "idle" /\ wpc' # "idle" /\ wdata' = wdata /\ wlen' = wlen
      /\ in' = in /\ out' = out /\ UNCHANGED reader
  BY DEF InCopy, InWrap
<1>2. Held' = Held
  BY CopyLeaves
<1>3. Taken' /\ Getting' = Getting /\ got' = got
  BY <1>1, <1>2, ReaderApart DEF Exact
<1>4. wlen <= Len(wdata)
  BY <1>1, Running
<1>5. Written'
  BY <1>4, CopyWrites, WrapWrites DEF Exact
<1>6. OneAtATime'
  BY <1>1 DEF Exact, OneAtATime, reader
<1>7. Putting' = Putting
  BY <1>1 DEF Putting
<1>8. UNCHANGED Fifo!vars
  BY <1>2, <1>3, <1>7, FifoSame
<1>9. QED BY <1>3, <1>5, <1>6, <1>8 DEF Exact

LEMMA InPublishPuts ==
  ASSUME TypeOK, NoOverrun, AsksOnce, ~rereads, Exact, UNCHANGED <<shared, rereads>>,
         InPublish
  PROVE  Exact' /\ Fifo!Next
<1>1. wpc = "publish" /\ wpc' = "idle" /\ out' = out /\ buffer' = buffer /\ UNCHANGED reader
  BY DEF InPublish
<1>2. wlen <= Len(wdata) /\ Putting # Idle
  BY <1>1, Running
<1>3. Held' = Held \o SubSeq(wdata, 1, wlen) /\ \A i \in 1 .. Used : Held'[i] = Held[i]
  BY <1>2, PublishAppends DEF Exact
<1>4. Taken' /\ Getting' = Getting /\ got' = got
  BY <1>1, <1>3, ReaderApart DEF Exact
<1>5. Written' /\ OneAtATime'
  BY <1>1 DEF Written, OneAtATime
<1>6. Putting = SubSeq(wdata, 1, wlen) /\ Putting' = Idle
  BY <1>1 DEF Putting
<1>7. Fifo!Next
  BY <1>2, <1>3, <1>4, <1>6, FifoPutDone
<1>8. QED BY <1>4, <1>5, <1>7 DEF Exact

LEMMA OutBeginGets ==
  ASSUME TypeOK, NoOverrun, ~rereads, Exact, UNCHANGED <<shared, rereads>>,
         NEW n \in 0 .. MaxLen, OutBegin(n)
  PROVE  Exact' /\ Fifo!Next
<1>1. /\ rpc = "idle" /\ rpc' = "copy" /\ rlen' = Smaller(n, Used)
      /\ in' = in /\ out' = out /\ buffer' = buffer /\ UNCHANGED writer /\ got' = got
      /\ ~shared => wpc = "idle"
  BY DEF OutBegin
<1>2. Held' = Held
  BY <1>1 DEF Held, Used
<1>3. Written' /\ Putting' = Putting
  BY <1>1, WriterApart DEF Exact
<1>4. Taken' /\ OneAtATime'
  BY <1>1 DEF Taken, OneAtATime, writer
<1>5. Getting = Idle /\ Getting' = Smaller(n, Len(Held))
  BY <1>1, HeldIs DEF Getting
<1>6. Fifo!Next
  BY <1>1, <1>2, <1>3, <1>5, FifoGet
<1>7. QED BY <1>3, <1>4, <1>6 DEF Exact

LEMMA OutCopiesStutter ==
  ASSUME TypeOK, NoOverrun, ~rereads, Exact, UNCHANGED <<shared, rereads>>,
         OutCopy \/ OutWrap
  PROVE  Exact' /\ UNCHANGED Fifo!vars
<1>1. /\ rpc # "idle" /\ rpc' # "idle" /\ rlen' = rlen /\ got' = got
      /\ in' = in /\ out' = out /\ buffer' = buffer /\ UNCHANGED writer
  BY DEF OutCopy, OutWrap
<1>2. Held' = Held
  BY <1>1 DEF Held, Used
<1>3. Written' /\ Putting' = Putting
  BY <1>1, WriterApart DEF Exact
<1>4. Taken'
  BY <1>2, CopyTakes, WrapTakes DEF Exact
<1>5. OneAtATime'
  BY <1>1 DEF Exact, OneAtATime, writer
<1>6. Getting' = Getting
  BY <1>1 DEF Getting
<1>7. UNCHANGED Fifo!vars
  BY <1>1, <1>2, <1>3, <1>6, FifoSame
<1>8. QED BY <1>3, <1>4, <1>5, <1>7 DEF Exact

LEMMA OutPublishGets ==
  ASSUME TypeOK, NoOverrun, AsksOnce, ~rereads, Exact, UNCHANGED <<shared, rereads>>,
         OutPublish
  PROVE  Exact' /\ Fifo!Next
<1>1. rpc = "publish" /\ rpc' = "idle" /\ buffer' = buffer /\ UNCHANGED writer
  BY DEF OutPublish
<1>2. Getting # Idle
  BY <1>1, Running
<1>3. got' = SubSeq(Held, 1, rlen) /\ Held' = SubSeq(Held, rlen + 1, Len(Held))
  BY ReleaseDrops DEF Exact
<1>4. Written' /\ Putting' = Putting
  <2>1. CASE wpc = "idle"
    BY <2>1, <1>1 DEF Written, Putting, writer
  <2>2. CASE wpc # "idle"
    <3>1. in' = in
      BY <2>2, <1>1 DEF Exact, OneAtATime, OutPublish, SetBack
    <3>2. QED BY <3>1, <1>1, WriterApart DEF Exact
  <2>3. QED BY <2>1, <2>2
<1>5. Taken' /\ OneAtATime'
  BY <1>1 DEF Taken, OneAtATime
<1>6. Getting = rlen /\ Getting' = Idle
  BY <1>1 DEF Getting
<1>7. Fifo!Next
  BY <1>2, <1>3, <1>4, <1>6, FifoGetDone
<1>8. QED BY <1>4, <1>5, <1>7 DEF Exact

LEMMA ResetClears ==
  ASSUME TypeOK, NoOverrun, Exact, Reset
  PROVE  Exact' /\ Fifo!Next
<1>1. wpc = "idle" /\ rpc = "idle" /\ in' = 0 /\ out' = 0 /\ UNCHANGED <<writer, reader>>
  BY DEF Reset
<1>2. wpc' = "idle" /\ rpc' = "idle" /\ got' = got
  BY <1>1 DEF writer, reader
<1>3. Used' = 0
  BY <1>1 DEF Used, Minus
<1>4. Held' = <<>>
  BY <1>3 DEF Held
<1>5. Putting = Idle /\ Getting = Idle /\ Putting' = Idle /\ Getting' = Idle
  BY <1>1, <1>2 DEF Putting, Getting
<1>6. Fifo!Next
  BY <1>2, <1>4, <1>5, FifoClear
<1>7. QED BY <1>2, <1>6 DEF Exact, OneAtATime, Written, Taken

\* Every step of the two threads is a step of the queue of bytes, or none.
LEMMA StepFifo ==
  ASSUME TypeOK, NoOverrun, AsksOnce, ~rereads, Exact, Next
  PROVE  Exact' /\ (Fifo!Next \/ UNCHANGED Fifo!vars)
<1>1. UNCHANGED <<shared, rereads>>
  BY DEF Next
<1>2. ASSUME NEW data \in Requests, InBegin(data)
      PROVE  Exact' /\ Fifo!Next
  BY <1>1, <1>2, InBeginPuts
<1>3. ASSUME NEW n \in 0 .. MaxLen, OutBegin(n)
      PROVE  Exact' /\ Fifo!Next
  BY <1>1, <1>3, OutBeginGets
<1>4. ~InReread /\ ~OutReread
  BY DEF AsksOnce, ReadsOnce, InReread, OutReread
<1>5. QED
  BY <1>1, <1>2, <1>3, <1>4, InCopiesStutter, InPublishPuts, OutCopiesStutter,
     OutPublishGets, ResetClears DEF Next, QueueIn, QueueOut

\* For every size of memory that divides the span of the indices, two threads
\* without a lock on _queue_in and _queue_out, or one thread on the wrappers
\* that set the indices back, keep a first-in-first-out queue of bytes, in a
\* build that evaluates the operands of min once.
THEOREM KeepsFifoCorrect == Spec => KeepsFifo
<1> DEFINE FInv == IInv /\ AsksOnce /\ (~rereads => Exact)
<1>1. Init => Fifo!Init
  <2>1. SUFFICES ASSUME Init PROVE Fifo!Init
    OBVIOUS
  <2>2. Used = 0
    BY <2>1 DEF Init, Used, Minus
  <2>3. Held = <<>>
    BY <2>2 DEF Held
  <2>4. Putting = Idle /\ Getting = Idle /\ got = <<>>
    BY <2>1 DEF Init, Putting, Getting
  <2>5. QED BY <2>3, <2>4 DEF Fifo!Init, Held, Putting, Getting
<1>2. Init => FInv
  <2>1. Init => AsksOnce
    BY DEF Init, AsksOnce, AtMostAsked, ReadsOnce, Pending, Leaving
  <2>2. Init => Exact
    BY DEF Init, Exact, OneAtATime, Written, Taken
  <2>3. QED BY <2>1, <2>2, InitIInv
<1>3. FInv /\ [Next]_vars => FInv' /\ [rereads \/ Fifo!Next]_(Fifo!vars)
  <2>1. SUFFICES ASSUME FInv, [Next]_vars
                 PROVE  FInv' /\ [rereads \/ Fifo!Next]_(Fifo!vars)
    OBVIOUS
  <2>2. TypeOK /\ NoOverrun /\ AsksOnce /\ (~rereads => Exact)
    BY <2>1 DEF IInv
  <2>3. IInv'
    BY <2>1, StepIInv
  <2>4. CASE UNCHANGED vars
    <3>1. UNCHANGED <<Used, shared, rereads, in, out, buffer, wpc, wdata, wlen, rpc, rwant, rlen,
                      rdata, got>>
      BY <2>4 DEF vars, writer, reader, Used
    <3>2. AsksOnce'
      BY <3>1, <2>2 DEF AsksOnce, AtMostAsked, ReadsOnce, Pending, Leaving
    <3>3. Held' = Held
      BY <3>1 DEF Held
    <3>4. ~rereads => Exact'
      BY <3>1, <3>3, <2>2 DEF Exact, OneAtATime, Written, Taken, At
    <3>5. Putting' = Putting /\ Getting' = Getting /\ got' = got
      BY <3>1 DEF Putting, Getting
    <3>6. UNCHANGED Fifo!vars
      BY <3>3, <3>5, FifoSame
    <3>7. QED BY <2>3, <3>1, <3>2, <3>4, <3>6
  <2>5. CASE Next
    <3>1. AsksOnce'
      BY <2>2, <2>5, StepOnce
    <3>2. CASE rereads
      BY <3>1, <3>2, <2>3, <2>5 DEF Next
    <3>3. CASE ~rereads
      <4>1. Exact' /\ (Fifo!Next \/ UNCHANGED Fifo!vars)
        BY <3>3, <2>2, <2>5, StepFifo
      <4>2. QED BY <4>1, <3>1, <2>3
    <3>4. QED BY <3>2, <3>3
  <2>6. QED BY <2>1, <2>4, <2>5
<1> HIDE DEF FInv
<1>4. QED BY <1>1, <1>2, <1>3, PTL DEF Spec, KeepsFifo
=============================================================================
