---------------------------- MODULE EioSendfile ----------------------------
(***************************************************************************)
(* eio__sendfile of libeio/eio.c on Linux: sendfile again and again as     *)
(* long as it copies very much at once, and pread and write through a      *)
(* buffer when the kernel cannot do it. Either may copy less than asked,   *)
(* nothing at the end of the file, or fail, also after some bytes.         *)
(***************************************************************************)
EXTENDS Integers

CONSTANTS
  Asked,    \* what callers ask for, in bytes
  Lazy,     \* what sendfile can copy in one go, it is said: 128 MB
  BufSize   \* EIO_BUFSIZE

ASSUME SendfileAssumption == Asked \subseteq Nat /\ Lazy \in Nat /\ BufSize \in Nat \ {0}

VARIABLES
  pc,              \* "kernel", "read", "write", "done"
  asked,
  offset, count,   \* where to go on (from 0), and how much is left
  written, res,
  cnt,             \* bytes in eio_buf
  arrived,         \* bytes that ofd has got (a history)
  straight         \* and each lot followed the one before (a history)

fileVars == <<pc, asked, offset, count, written, res, cnt, arrived, straight>>

Init ==
  /\ pc = "kernel" /\ asked \in Asked /\ offset = 0 /\ count = asked
  /\ written = 0 /\ res = 0 /\ cnt = 0 /\ arrived = 0 /\ straight = TRUE

\* n bytes go from offset to ofd.
Sends(n) ==
  /\ arrived' = arrived + n
  /\ straight' = (straight /\ offset = arrived)

Return(r) == pc' = "done" /\ res' = r

Nothing ==
  /\ pc = "kernel" /\ asked = 0 /\ Return(0)
  /\ UNCHANGED <<asked, offset, count, written, cnt, arrived, straight>>

\* sendfile copies n bytes; after a lot of them it is asked for the rest.
KernelCopies(n) ==
  /\ pc = "kernel" /\ asked # 0 /\ n <= count
  /\ Sends(n)
  /\ written' = written + n
  /\ IF n <= Lazy
     THEN Return(written + n) /\ UNCHANGED <<offset, count>>
     ELSE /\ offset' = offset + n /\ count' = count - n
          /\ IF count = n THEN Return(written + n) ELSE UNCHANGED <<pc, res>>
  /\ UNCHANGED <<asked, cnt>>

\* sendfile fails: because it cannot do it at all, or for another reason. There
\* may be no memory for the buffer.
Emulate == (pc' = "read" /\ res' = 0) \/ Return(-1)
KernelFails(unable) ==
  /\ pc = "kernel" /\ asked # 0
  /\ CASE written > 0 -> Return(written)
       [] written = 0 /\ unable -> Emulate
       [] OTHER -> Return(-1)
  /\ UNCHANGED <<asked, offset, count, written, cnt, arrived, straight>>

\* An error or the end of the file; bytes that were copied count for more.
GiveUp(n) == Return(IF n < 0 /\ res = 0 THEN -1 ELSE res)

Read(n) ==
  /\ pc = "read" /\ count > 0 /\ n <= count /\ n <= BufSize
  /\ IF n <= 0 THEN GiveUp(n) /\ UNCHANGED cnt
     ELSE pc' = "write" /\ cnt' = n /\ UNCHANGED res
  /\ UNCHANGED <<asked, offset, count, written, arrived, straight>>

\* A mutant goes on behind what was read.
AdvancedByRead(n) == offset' = offset + cnt /\ count' = count - cnt
Advanced(n) == offset' = offset + n /\ count' = count - n

Write(n) ==
  /\ pc = "write" /\ n <= cnt
  /\ IF n <= 0 THEN GiveUp(n) /\ UNCHANGED <<offset, count, arrived, straight>>
     ELSE /\ Sends(n) /\ Advanced(n)
          /\ res' = res + n /\ pc' = "read"
  /\ UNCHANGED <<asked, written, cnt>>

Enough ==
  /\ pc = "read" /\ count = 0 /\ Return(res)
  /\ UNCHANGED <<asked, offset, count, written, cnt, arrived, straight>>

Next ==
  \/ Nothing \/ Enough
  \/ \E n \in 0 .. count : KernelCopies(n)
  \/ \E unable \in BOOLEAN : KernelFails(unable)
  \/ \E n \in -1 .. count : Read(n)
  \/ \E n \in -1 .. cnt : Write(n)

Spec == Init /\ [][Next]_fileVars

----------------------------------------------------------------------------
\* libeio/eio.c, eio__sendfile: the bytes arrive in their order and without a
\* gap, whichever way they went and however little each call did; the result is
\* their number, and only if there is none at all it may be an error.
CopiesInOrder ==
  /\ straight /\ arrived <= asked
  /\ pc = "done" => res = arrived \/ (res = -1 /\ arrived = 0)

\* What makes it so: the three counters agree wherever the call goes on.
SendfileInv ==
  /\ asked \in Nat /\ offset \in Nat /\ count \in Nat /\ arrived \in Nat
  /\ straight \in BOOLEAN /\ written \in Nat /\ cnt \in Nat /\ res \in Int
  /\ pc \in {"kernel", "read", "write", "done"}
  /\ CopiesInOrder
  /\ pc # "done" => offset = arrived /\ count + arrived = asked
  /\ pc = "kernel" => written = arrived
  /\ pc \in {"read", "write"} => res = arrived
  /\ pc = "write" => cnt <= count
=============================================================================
