---------------------------- MODULE MCContainers ----------------------------
(* An instance for TLC of the data structures, each in turn: part says     *)
(* which one a behaviour is about. The ring buffer is made by QueueAlloc;   *)
(* one thread uses each of the others.                                     *)
EXTENDS Queue, FiniteSets

CONSTANTS
  Bits, AllocArgs, RoundArgs,            \* of QueueAlloc
  MaxNodes, Value,                       \* of AdList
  Heads, Entries, Nil,                   \* of LinkList
  Width, MaxElems, FirstSizes, ElemSize, Item   \* of NcArray

VARIABLES
  part,
  pc, asked, direct, i, position, high, size, memory, ok,   \* of QueueAlloc
  made, hdr, node, used, iter, due,                         \* of AdList
  next, prev, spliced, pos, n, over, left,                  \* of LinkList
  array, there, each                                        \* of NcArray

Alloc == INSTANCE QueueAlloc
AList == INSTANCE AdList
List == INSTANCE LinkList
Array == INSTANCE NcArray

\* A caller of queue_alloc gives an unsigned int that is not zero, one of
\* roundup_pow_of_two a long; and fls, which would never end on a negative int,
\* is given none. Heads and entries of list.h are different objects. An array of
\* Width bits holds so little that its room can double, and that the place of an
\* element in bytes can be told.
ASSUME ContainersAssumption ==
  /\ Bits \in Nat \ {0}
  /\ AllocArgs \subseteq 1 .. Alloc!IntSpan - 1 /\ RoundArgs \subseteq 1 .. Alloc!LongSpan
  /\ \A r \in AllocArgs \cup RoundArgs :
       LET h == (r - 1) \div Alloc!IntSpan
       IN  (IF h # 0 THEN h ELSE r - 1) < Alloc!IntSpan \div 2
  /\ MaxNodes \in Nat
  /\ IsFiniteSet(Heads) /\ IsFiniteSet(Entries) /\ Heads \cap Entries = {}
  /\ Nil \notin Heads \cup Entries
  /\ MaxElems \in Nat /\ ElemSize \in Nat \ {0} /\ Array!Span \in Nat
  /\ 2 * MaxElems <= Array!Span /\ ElemSize * MaxElems <= Array!Span
  /\ FirstSizes \subseteq 1 .. Array!Span - 1

allocVars == <<pc, asked, direct, i, position, high, size, memory, ok>>
alistVars == <<made, hdr, node, used, iter, due>>
listVars == <<next, prev, spliced, pos, n, over, left>>
arrayVars == <<array, there, each>>

CInit ==
  /\ part \in {"queue", "alloc", "alist", "list", "array"}
  /\ Init /\ (part # "queue" => shared /\ ~rereads)
  /\ Alloc!Init /\ AList!AInit /\ List!RInit /\ Array!NInit

\* A build that evaluates the operands of min again is about the indices: one
\* value of byte will do.
QueueNext == Next /\ (rereads => \A b \in DOMAIN wdata' : wdata'[b] = Junk)

CNext ==
  /\ \/ part = "queue" /\ QueueNext /\ UNCHANGED <<allocVars, alistVars, listVars, arrayVars>>
     \/ part = "alloc" /\ Alloc!Next /\ UNCHANGED <<vars, alistVars, listVars, arrayVars>>
     \/ part = "alist" /\ AList!ANext /\ UNCHANGED <<vars, allocVars, listVars, arrayVars>>
     \/ part = "list" /\ List!RNext /\ UNCHANGED <<vars, allocVars, alistVars, arrayVars>>
     \/ part = "array" /\ Array!NNext /\ UNCHANGED <<vars, allocVars, alistVars, listVars>>
  /\ UNCHANGED part

cvars == <<vars, allocVars, alistVars, listVars, arrayVars, part>>

CSpec == CInit /\ [][CNext]_cvars

\* Sizes a caller of queue_alloc in the repository may give: not zero, not
\* above the largest int plus one; and longs whose halves fls64 handles.
SmallSizes == 1 .. 8
SmallLongs == (1 .. 8) \cup (17 .. 128)

----------------------------------------------------------------------------
\* queue.c and nc_array.c: whatever was asked for, and wherever memory runs
\* out, there is room for all that is counted, or nothing is held at all.
InRoom ==
  /\ part = "alloc" => Alloc!Allocates
  /\ part = "array" => Array!InRoom

\* adlist.c and list.h: links forward and backward agree on every list, the
\* counts with them, and no node is on two lists or lost from all.
Linked ==
  /\ part = "alist" => AList!Linked
  /\ part = "list" => List!Rings

\* listNext and list_for_each_safe: what the body may do with the entry it was
\* given leaves every other entry that was found to come, in order.
GoesOverAll ==
  /\ part = "alist" => AList!IteratesAll
  /\ part = "list" => List!GoesOverAll

\* adlist.c: a list is the sequence its calls make of it, and "the original
\* list ... is never modified" by listDup. list.h: entries stand where they
\* were put, also after a list was moved or spliced into another. nc_array.c:
\* growing moves no element, popping and swapping lose none, and sorting gives
\* the same elements, none before a greater one.
KeepsContents ==
  [][/\ part = "alist" => AList!OrderKept
     /\ part = "list" => List!PlacesKept
     /\ part = "array" => Array!StackKept]_<<alistVars, listVars, arrayVars>>
=============================================================================
