----------------------------- MODULE EioMemory -----------------------------
(***************************************************************************)
(* The requests of libeio/eio.c on the caller's memory: msync, mlock and   *)
(* mtouch widen it to whole pages; mtouch then touches them one by one.    *)
(***************************************************************************)
EXTENDS Integers, FiniteSets

CONSTANTS
  Word,    \* 2^w: addresses and lengths are below it
  Page,    \* eio_pagesize (), a power of two
  Regions  \* addr and len as callers may give them

VARIABLES
  given, flags,   \* the arguments
  call,           \* "msync", "mlock", "mtouch"
  mem, len,       \* what eio_page_align made of them
  addr, touched,  \* of eio__mtouch
  cancelled,
  pc              \* "called", "aligned", "done"

memVars == <<given, flags, call, mem, len, addr, touched, cancelled, pc>>

\* MS_ASYNC, MS_INVALIDATE, MS_SYNC have the values of EIO's. The flag that is
\* none of them stands for every other bit.
Known == {"async", "invalidate", "sync"}

Init ==
  /\ given \in Regions /\ call \in {"msync", "mlock", "mtouch"}
  /\ flags \in IF call = "msync" THEN {{}, {"sync", "other"}} ELSE {{}}
  /\ mem = 0 /\ len = 0 /\ addr = 0 /\ touched = {} /\ cancelled = FALSE /\ pc = "called"

\* eio_page_align, whose mask is Page - 1. A mutant does not add to the length
\* what the address lost.
Down(x) == x - (x % Page)
AlignedFrom(g) == [mem |-> Down(g.addr), len |-> Down((g.len + Page - 1) % Word)]
Aligned(g) ==
  [mem |-> Down(g.addr), len |-> Down((g.len + (g.addr % Page) + Page - 1) % Word)]

\* msync takes the flags it knows: they are always translated, as it is
\* EIO_MS_ASYNC that is compared with MS_SYNC.
Align ==
  /\ pc = "called" /\ pc' = IF call = "mtouch" THEN "aligned" ELSE "done"
  /\ mem' = Aligned(given).mem /\ len' = Aligned(given).len /\ addr' = mem'
  /\ flags' = flags \cap Known
  /\ UNCHANGED <<given, call, touched, cancelled>>

\* The do loop of eio__mtouch, entered if there is anything. It goes on while
\* addr, which has become that of the next page, is below len, not below end.
Touch ==
  /\ pc = "aligned"
  /\ IF addr = mem /\ touched = {} /\ ~(addr < mem + len)
     THEN pc' = "done" /\ UNCHANGED <<addr, touched>>
     ELSE /\ touched' = touched \cup {addr} /\ addr' = addr + Page
          /\ pc' = IF addr' < len /\ ~cancelled THEN "aligned" ELSE "done"
  /\ UNCHANGED <<given, flags, call, mem, len, cancelled>>

Cancel ==
  /\ pc = "aligned" /\ ~cancelled /\ cancelled' = TRUE
  /\ UNCHANGED <<given, flags, call, mem, len, addr, touched, pc>>

Next == Align \/ Touch \/ Cancel
Spec == Init /\ [][Next]_memVars /\ WF_memVars(Align \/ Touch)

----------------------------------------------------------------------------
\* libeio/eio.c: what the kernel gets are whole pages, the fewest that hold the
\* caller's memory, unless that runs past the last address; mtouch touches no
\* other page, at least one, and from a low address on every one. (At any
\* other address one is all it touches: addr is compared with the length.)
WholePages ==
  pc # "called" /\ given.addr + given.len + Page <= Word =>
    /\ mem % Page = 0 /\ len % Page = 0
    /\ mem <= given.addr /\ given.addr + given.len <= mem + len
    /\ given.len > 0 => mem + Page > given.addr /\ mem + len < given.addr + given.len + Page
    /\ \A a \in touched : a % Page = 0 /\ mem <= a /\ a < mem + len
    /\ pc = "done" /\ call = "mtouch" /\ given.len > 0 => touched # {}
    /\ pc = "done" /\ call = "mtouch" /\ ~cancelled /\ given.addr < Page =>
         len = Page * Cardinality(touched)
=============================================================================
