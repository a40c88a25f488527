------------------------------ MODULE LinkList ------------------------------
(***************************************************************************)
(* data_structure/list.h: entries linked in a ring through a head that is  *)
(* one of them. Nothing counts or owns the entries: what is safe is a rule *)
(* the callers keep, stated here as the guards named "May".                *)
(***************************************************************************)
EXTENDS Naturals, SequencesExt

CONSTANTS Heads, Entries, Nil

Link == Heads \cup Entries

VARIABLES
  next, prev,  \* of each element
  spliced,     \* heads that list_splice emptied and nobody initialised since
  pos, n,      \* of list_for_each_safe, or Nil
  over,        \* the head it goes over, or Nil
  left         \* the entries it found and has not come to

rvars == <<next, prev, spliced, pos, n, over, left>>

\* From x on to the head h, without it. A ring has at most all the elements.
Ring(x, h) ==
  LET at[i \in 1 .. Cardinality(Link) + 1] ==
        IF i = 1 THEN x
        ELSE IF at[i - 1] \in {h, Nil} THEN h ELSE next[at[i - 1]]
  IN  SubSeq(at, 1, Cardinality({i \in DOMAIN at : at[i] # h}))

On(h) == IF h \in spliced THEN <<>> ELSE Ring(next[h], h)

Listed(e) == \E h \in Heads \ spliced : Contains(On(h), e)

\* next and prev of some elements.
With(f, g) == [e \in Link |-> IF e \in DOMAIN g THEN g[e] ELSE f[e]]

----------------------------------------------------------------------------
\* __list_add(p, b, a); a may be b. (Mutant: the entry after is not told.)
LinksForward(p, b, a) ==
  /\ next' = With(With(next, [e \in {p} |-> a]), [e \in {b} |-> p])
  /\ prev' = With(prev, [e \in {p} |-> b])
Links(p, b, a) ==
  /\ next' = With(With(next, [e \in {p} |-> a]), [e \in {b} |-> p])
  /\ prev' = With(With(prev, [e \in {a} |-> p]), [e \in {p} |-> b])

\* __list_del of the entry p, whose own links are then set to x.
Unlinks(p, x) ==
  /\ prev' = With(With(prev, [e \in {next[p]} |-> prev[p]]), [e \in {p} |-> x])
  /\ next' = With(With(next, [e \in {prev[p]} |-> next[p]]), [e \in {p} |-> x])

\* Callers add what is in no list, to a list that stands.
MayAdd(p, at) == ~Listed(p) /\ (at \in Heads \ spliced \/ Listed(at))

\* Callers take out what is in a list; list_for_each_safe has fetched n
\* already, so inside it only pos may go.
MayDel(p) == Listed(p) /\ (over # Nil /\ Contains(On(over), p) => p = pos)

ListAdd(p, at) ==
  /\ MayAdd(p, at)
  /\ Links(p, at, next[at])
  /\ UNCHANGED <<spliced, pos, n, over, left>>

ListAddTail(p, at) ==
  /\ MayAdd(p, at)
  /\ Links(p, prev[at], at)
  /\ UNCHANGED <<spliced, pos, n, over, left>>

ListDel(p) ==
  /\ MayDel(p)
  /\ Unlinks(p, Nil)
  /\ UNCHANGED <<spliced, pos, n, over, left>>

\* Also CListHead::ResetList and the destructor of CListObject.
ListDelInit(p) ==
  /\ MayDel(p)
  /\ Unlinks(p, p)
  /\ UNCHANGED <<spliced, pos, n, over, left>>

\* What __list_del left, and then list_add with the links as they are now.
Without(f, p, to) == With(f, [e \in {to} |-> f[p]])

ListMove(p, h) ==
  /\ MayDel(p) /\ h \in Heads \ spliced
  /\ LET nxt == Without(next, p, prev[p])
         prv == Without(prev, p, next[p])
     IN  /\ next' = With(With(nxt, [e \in {p} |-> nxt[h]]), [e \in {h} |-> p])
         /\ prev' = With(With(prv, [e \in {nxt[h]} |-> p]), [e \in {p} |-> h])
  /\ UNCHANGED <<spliced, pos, n, over, left>>

\* A caller who moves pos to the end of the list it goes over never ends.
ListMoveTail(p, h) ==
  /\ MayDel(p) /\ h \in Heads \ spliced /\ h # over
  /\ LET nxt == Without(next, p, prev[p])
         prv == Without(prev, p, next[p])
     IN  /\ next' = With(With(nxt, [e \in {p} |-> h]), [e \in {prv[h]} |-> p])
         /\ prev' = With(With(prv, [e \in {h} |-> p]), [e \in {p} |-> prv[h]])
  /\ UNCHANGED <<spliced, pos, n, over, left>>

\* __list_splice: what hangs on l goes between h and the entry after it.
JoinsIn(l, h) ==
  /\ next' = With(With(next, [e \in {h} |-> next[l]]), [e \in {prev[l]} |-> next[h]])
  /\ prev' = With(With(prev, [e \in {next[l]} |-> h]), [e \in {next[h]} |-> prev[l]])

MaySplice(l, h) ==
  /\ l \in Heads \ spliced /\ h \in Heads \ spliced /\ l # h
  /\ next[l] # l
  /\ over \notin {l, h}

ListSplice(l, h) ==
  /\ MaySplice(l, h)
  /\ JoinsIn(l, h)
  /\ spliced' = spliced \cup {l}
  /\ UNCHANGED <<pos, n, over, left>>

ListSpliceInit(l, h) ==
  /\ MaySplice(l, h)
  /\ next' = With(With(With(next, [e \in {h} |-> next[l]]), [e \in {prev[l]} |-> next[h]]),
                  [e \in {l} |-> l])
  /\ prev' = With(With(With(prev, [e \in {next[l]} |-> h]), [e \in {next[h]} |-> prev[l]]),
                  [e \in {l} |-> l])
  /\ UNCHANGED <<spliced, pos, n, over, left>>

\* INIT_LIST_HEAD of a head whose entries are in another list.
InitListHead(h) ==
  /\ h \in spliced
  /\ next' = [next EXCEPT ![h] = h] /\ prev' = [prev EXCEPT ![h] = h]
  /\ spliced' = spliced \ {h}
  /\ UNCHANGED <<pos, n, over, left>>

\* CListHead::FreeList: every entry is reset, from the front.
FreeList(h) ==
  /\ h \in Heads \ spliced /\ next[h] # h /\ h # over
  /\ LET gone == ToSet(On(h)) \cup {h}
     IN  /\ next' = With(next, [e \in gone |-> e])
         /\ prev' = With(prev, [e \in gone |-> e])
  /\ UNCHANGED <<spliced, pos, n, over, left>>

----------------------------------------------------------------------------
\* list_for_each_safe: n is fetched before the body runs (mutant: n is pos).
FetchLate(p) == p
Fetch(p) == next[p]

ForEach(h) ==
  /\ over = Nil /\ h \in Heads \ spliced /\ next[h] # h
  /\ over' = h /\ pos' = next[h] /\ n' = Fetch(next[h])
  /\ left' = Tail(On(h))
  /\ UNCHANGED <<next, prev, spliced>>

ForEachNext ==
  /\ over # Nil /\ n # over
  /\ pos' = n /\ n' = Fetch(n)
  /\ left' = IF left # <<>> /\ Head(left) = n THEN Tail(left) ELSE left
  /\ UNCHANGED <<next, prev, spliced, over>>

\* pos is the head, or the body breaks off.
ForEachEnds ==
  /\ over # Nil
  /\ over' = Nil /\ pos' = Nil /\ n' = Nil /\ left' = <<>>
  /\ UNCHANGED <<next, prev, spliced>>

----------------------------------------------------------------------------
RInit ==
  /\ next = [e \in Link |-> IF e \in Heads THEN e ELSE Nil]
  /\ prev = [e \in Link |-> IF e \in Heads THEN e ELSE Nil]
  /\ spliced = {} /\ pos = Nil /\ n = Nil /\ over = Nil /\ left = <<>>

RNext ==
  \/ \E p \in Entries : \/ \E at \in Link \ {p} : ListAdd(p, at) \/ ListAddTail(p, at)
                        \/ ListDel(p) \/ ListDelInit(p)
                        \/ \E h \in Heads : ListMove(p, h) \/ ListMoveTail(p, h)
  \/ \E l, h \in Heads : ListSplice(l, h) \/ ListSpliceInit(l, h)
  \/ \E h \in Heads : InitListHead(h) \/ FreeList(h) \/ ForEach(h)
  \/ ForEachNext \/ ForEachEnds

RSpec == RInit /\ [][RNext]_rvars

----------------------------------------------------------------------------
RTypeOK ==
  /\ next \in [Link -> Link \cup {Nil}] /\ prev \in [Link -> Link \cup {Nil}]
  /\ spliced \subseteq Heads
  /\ pos \in Entries \cup {Nil} /\ n \in Link \cup {Nil}
  /\ over \in Heads \cup {Nil} /\ left \in Seq(Entries)

\* Forward and backward links are each other's inverse all around every list,
\* an entry hangs on one head at most, and no head hangs on another.
Rings ==
  /\ \A h \in Heads \ spliced : \A e \in ToSet(On(h)) \cup {h} :
       /\ next[e] \in Link /\ prev[next[e]] = e
       /\ prev[e] \in Link /\ next[prev[e]] = e
       /\ e # h => e \in Entries
  /\ \A g, h \in Heads : g # h => ToSet(On(g)) \cap ToSet(On(h)) = {}

\* The entries of s are among those of t, in the same order.
LiesIn(s, t) ==
  \E place \in [DOMAIN s -> DOMAIN t] :
    \A i \in DOMAIN s : /\ t[place[i]] = s[i]
                        /\ \A j \in DOMAIN s : i < j => place[i] < place[j]

\* "Safe against removal of list entry": whatever the body does with pos, and
\* whatever it adds, the loop still comes, in order, to every entry it found.
GoesOverAll ==
  over # Nil => LiesIn(left, Ring(n, over))

\* What each call does to the order of the entries, as its comment says.
PlacesKept ==
  /\ \A p \in Entries, h \in Heads :
       /\ ListAdd(p, h) => On(h)' = <<p>> \o On(h)
       /\ ListAddTail(p, h) => On(h)' = Append(On(h), p)
       /\ ListMove(p, h) => On(h)' = <<p>> \o Remove(On(h), p)
       /\ ListMoveTail(p, h) => On(h)' = Append(Remove(On(h), p), p)
       /\ ListDel(p) \/ ListDelInit(p) => On(h)' = Remove(On(h), p)
       /\ ListMove(p, h) \/ ListMoveTail(p, h) =>
            \A g \in Heads \ {h} : On(g)' = Remove(On(g), p)
  /\ \A l, h \in Heads :
       ListSplice(l, h) \/ ListSpliceInit(l, h) =>
         On(h)' = On(l) \o On(h) /\ On(l)' = <<>>
=============================================================================
