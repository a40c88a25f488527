----------------------------- MODULE EioReaddir -----------------------------
(***************************************************************************)
(* eio__scandir of libeio/eio.c: a worker reads a directory into two       *)
(* buffers that grow, one of entries and one of names, guesses which       *)
(* entries are directories, and sorts: a radix sort that leaves short runs *)
(* alone, and an insertion sort over everything.                           *)
(***************************************************************************)
EXTENDS Integers, Sequences, SequencesExt, FiniteSetsExt

CONSTANTS
  Found,       \* what readdir may return: [name, len, type, inode]
  MaxFound,    \* how many entries a directory has at most
  Wanted,      \* flags a caller gives: sets of "DENTS", "DIRS_FIRST", "STAT_ORDER"
  NamesAlloc, DentAlloc,  \* first sizes of the buffers: 4064 and 128
  Cutoff, Fast,           \* EIO_SORT_CUTOFF and EIO_SORT_FAST
  Bits                    \* of an inode, which is not zero

VARIABLES
  flags, dirp, dents,
  namesoffs, namesalloc, dentalloc,
  seen,        \* what readdir returned, without . and .. (a history)
  result,      \* req->result, or Going or Crashed
  stopped      \* the request is cancelled

dirVars == <<flags, dirp, dents, namesoffs, namesalloc, dentalloc, seen, result, stopped>>
buffers == <<dents, namesoffs, namesalloc, dentalloc, seen>>

Going == -2
Crashed == -3

----------------------------------------------------------------------------
\* Sorting

\* eio_dent_cmp
Before(a, b) == a.score < b.score \/ (a.score = b.score /\ a.inode < b.inode)

\* An entry as the radix sort sees it: the bits of the inode below the score's.
Set(d, bit) == ((d.score * 2 ^ Bits + d.inode) \div 2 ^ bit) % 2 = 1

\* The bits worth a look, lowest first: those some inode has, then the score's.
Tests(scoreBits) ==
  SelectSeq([n \in 1 .. Bits |-> n - 1],
            LAMBDA b : \E d \in ToSet(seen) : (d.inode \div 2 ^ b) % 2 = 1)
  \o [n \in 1 .. scoreBits |-> Bits + n - 1]

\* Entries of low to the front, the others to the back, from both ends: what is
\* before a is low, what is at b or behind it is not.
Split(all, low) ==
  LET split[s \in Seq(ToSet(all)), a \in Nat, b \in Nat] ==
        CASE a = b -> [s |-> s, cut |-> a]
          [] s[a] \in low -> split[s, a + 1, b]
          [] s[b - 1] \in low -> split[[s EXCEPT ![a] = s[b - 1], ![b - 1] = s[a]], a + 1, b - 1]
          [] OTHER -> split[s, a, b - 1]
  IN  split[all, 1, Len(all) + 1]

\* The highest bit first, then either part by the bits below; short parts are
\* left for the insertion sort.
RadixSort(all, bits) ==
  LET sort[s \in Seq(ToSet(all)), k \in 0 .. Len(bits)] ==
        IF Len(s) < Cutoff \/ k = 0 THEN s
        ELSE LET p == Split(s, {d \in ToSet(s) : ~Set(d, bits[k])})
             IN  sort[SubSeq(p.s, 1, p.cut - 1), k - 1] \o sort[SubSeq(p.s, p.cut, Len(s)), k - 1]
  IN  sort[all, Len(bits)]

\* The least entry is put first to stop the loops below; of many entries it is
\* among the first few. A mutant trusts the radix sort alone.
FirstLooked(s) == IF Len(s) > Fast THEN 1 ELSE Len(s)
Looked(s) == IF Len(s) > Fast THEN Cutoff + 1 ELSE Len(s)
LeastFirst(s) ==
  LET m == CHOOSE i \in 1 .. Looked(s) : \A j \in 1 .. Looked(s) : ~Before(s[j], s[i])
  IN  [s EXCEPT ![1] = s[m], ![m] = s[1]]

\* Behind the last that is not greater; there is one, or the entry is lost
\* before the array.
Inserted(done, d) ==
  LET below == {j \in DOMAIN done : ~Before(d, done[j])}
  IN  IF below = {} THEN done ELSE InsertAt(done, Max(below) + 1, d)

\* eio_dent_sort
Sorted(s, scoreBits) ==
  IF Len(s) <= 1 THEN s
  ELSE LET run == LeastFirst(IF Len(s) <= Fast THEN s ELSE RadixSort(s, Tests(scoreBits)))
       IN  FoldLeft(Inserted, <<Head(run)>>, Tail(run))

\* How eio__scandir orders what it read. If every type is known, directories go
\* to the front and only they are sorted.
Ordered(s) ==
  LET scoreBits == IF "DIRS_FIRST" \in flags THEN 3 ELSE 0
      p == Split(s, {d \in ToSet(s) : d.type = "DIR"})
  IN  CASE "STAT_ORDER" \in flags -> Sorted(s, scoreBits)
        [] "DIRS_FIRST" \notin flags -> s
        [] "FOUND_UNKNOWN" \in flags -> Sorted(s, scoreBits)
        [] OTHER -> Sorted(SubSeq(p.s, 1, p.cut - 1), 0) \o SubSeq(p.s, p.cut, Len(s))

\* How likely a directory: a leading dot, and names without a dot, short first.
Guess(e) ==
  CASE e.name = "hidden" -> 1
    [] e.name = "dotted" -> 7
    [] e.len <= 2 -> 4 - e.len
    [] e.len <= 4 -> 4
    [] e.len <= 7 -> 5
    [] OTHER -> 6
Score(e) == CASE "DIRS_FIRST" \notin flags -> 7
              [] e.type = "UNKNOWN" -> Guess(e)
              [] e.type = "DIR" -> 0
              [] OTHER -> 7

----------------------------------------------------------------------------
Init ==
  /\ flags \in Wanted /\ dirp = "none"
  /\ dents = <<>> /\ namesoffs = 0 /\ namesalloc = NamesAlloc /\ dentalloc = DentAlloc
  /\ seen = <<>> /\ result = Going /\ stopped = FALSE

\* The directory may not open, and there may be no memory: then it stays open.
Open ==
  /\ dirp = "none" /\ result = Going
  /\ flags' = IF "DENTS" \in flags THEN flags ELSE flags \ {"DIRS_FIRST", "STAT_ORDER"}
  /\ \/ dirp' = "open" /\ result' \in {Going, -1}
     \/ dirp' = "none" /\ result' = -1
  /\ UNCHANGED <<buffers, stopped>>

Reading == dirp = "open" /\ result = Going

\* A mutant grows once, however much is missing.
GrownOnce(size, need) == IF need > size THEN 2 * size ELSE size
Grown(size, need) ==
  LET grown[n \in Nat] == IF need > n THEN grown[2 * n] ELSE n
  IN  grown[size]

\* readdir returns e. realloc may fail: without room for names the copy goes
\* through a null pointer, without room for entries reading ends.
Entry(e) ==
  /\ Reading /\ Len(seen) < MaxFound
  /\ IF e.name = "special"
     THEN /\ result' = IF stopped THEN -1 ELSE Going
          /\ UNCHANGED <<flags, buffers>>
     ELSE /\ namesalloc' = Grown(namesalloc, namesoffs + e.len)
          /\ LET full == "DENTS" \in flags /\ Len(dents) = dentalloc IN
             \/ /\ namesalloc' # namesalloc /\ result' = Crashed
                /\ UNCHANGED <<flags, dents, namesoffs, dentalloc, seen>>
             \/ /\ full /\ result' = -1
                /\ UNCHANGED <<flags, dents, namesoffs, dentalloc, seen>>
             \/ /\ flags' = IF "DENTS" \in flags /\ e.type = "UNKNOWN"
                            THEN flags \cup {"FOUND_UNKNOWN"} ELSE flags
                /\ dents' = IF "DENTS" \notin flags THEN <<>>
                            ELSE Append(dents, [nameofs |-> namesoffs, namelen |-> e.len - 1,
                              type |-> e.type, inode |-> e.inode, score |-> Score(e)])
                /\ dentalloc' = IF full THEN 2 * dentalloc ELSE dentalloc
                /\ namesoffs' = namesoffs + e.len
                /\ seen' = Append(seen, e)
                /\ result' = IF stopped THEN -1 ELSE Going
  /\ UNCHANGED <<dirp, stopped>>

\* readdir returns nothing: an error, or the end.
ReadError ==
  /\ Reading /\ dirp' = "closed" /\ result' = -1
  /\ UNCHANGED <<flags, buffers, stopped>>

Done ==
  /\ Reading /\ dirp' = "closed" /\ result' = Len(seen)
  /\ dents' = Ordered(dents)
  /\ UNCHANGED <<flags, namesoffs, namesalloc, dentalloc, seen, stopped>>

Cancel ==
  /\ result = Going /\ ~stopped /\ stopped' = TRUE
  /\ UNCHANGED <<flags, dirp, buffers, result>>

Next == Open \/ (\E e \in Found : Entry(e)) \/ ReadError \/ Done \/ Cancel

Spec == Init /\ [][Next]_dirVars

----------------------------------------------------------------------------
\* Where the name of the n-th entry read begins in the names.
NameAt(n) == FoldLeft(LAMBDA sum, e : sum + e.len, 0, SubSeq(seen, 1, n - 1))

\* libeio/eio.c, eio__scandir and eio_dent_sort: nothing is written behind the
\* buffers; what is returned is every entry once, with its own name; and they
\* come in the order asked for: by score and inode, or directories first and by
\* inode. (Both sorts, the scaled limits between them, and the sentinel.) The
\* directory is closed when there is a result.
Listing ==
  /\ result # Crashed => namesoffs <= namesalloc /\ Len(dents) <= dentalloc
  /\ result >= 0 =>
       /\ dirp = "closed"
       /\ "DENTS" \in flags =>
            /\ Len(dents) = Len(seen)
            /\ \A n \in DOMAIN seen : \E d \in ToSet(dents) :
                 d.nameofs = NameAt(n) /\ d.inode = seen[n].inode /\ d.type = seen[n].type
       /\ "STAT_ORDER" \in flags \/ {"DIRS_FIRST", "FOUND_UNKNOWN"} \subseteq flags =>
            \A j \in DOMAIN dents : \A i \in 1 .. j : ~Before(dents[j], dents[i])
       /\ "DIRS_FIRST" \in flags =>
            \A j \in DOMAIN dents : dents[j].type = "DIR" => \A i \in 1 .. j :
              dents[i].type = "DIR" /\ dents[i].inode <= dents[j].inode
=============================================================================
