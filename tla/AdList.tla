------------------------------- MODULE AdList -------------------------------
(***************************************************************************)
(* data_structure/alist/adlist.c: a list linked both ways, with a header   *)
(* that counts its nodes, and an iterator its user may hold while it       *)
(* changes the list. Two lists, so that one may be the copy of the other.  *)
(*                                                                         *)
(* When malloc gives nothing the functions leave everything as it was:     *)
(* such a call is a step that changes nothing. listDup and listSearchKey   *)
(* make an iterator for themselves (adlist.c:252, :289) and use it without *)
(* a look: when malloc refuses that one the program crashes, which is left *)
(* out. The user's dup, free and match methods see values only and are     *)
(* left out too.                                                           *)
(***************************************************************************)
EXTENDS Integers, SequencesExt

CONSTANTS
  MaxNodes,  \* nodes malloc can give
  Value

Null  == 0
Node  == 1 .. MaxNodes
Lists == {"orig", "copy"}

VARIABLES
  made,   \* the lists that exist
  hdr,    \* of each list: head, tail, len
  node,   \* of each node: prev, next, value
  used,   \* the nodes malloc gave
  iter,   \* of the list "orig": next, towards ("next" or "prev"), current
  due     \* the nodes the iterator still has to return of those it found

lvars == <<made, hdr, node, used, iter, due>>

Blank  == [prev |-> Null, next |-> Null, value |-> Null]
NoList == [head |-> Null, tail |-> Null, len |-> 0]
NoIter == [next |-> Null, towards |-> "none", current |-> Null]

\* malloc(sizeof(*node)), of the nodes that are free.
NewNode == Min(Node \ used)

\* nodes with one field of node n changed; n may be NULL where the code asks.
Put(nodes, n, field, m) == IF n = Null THEN nodes ELSE [nodes EXCEPT ![n][field] = m]

\* The len nodes that a walk from n meets.
Walk(n, field, k) ==
  LET at[i \in 1 .. k] == IF i = 1 THEN n
                          ELSE IF at[i - 1] = Null THEN Null ELSE node[at[i - 1]][field]
  IN  [i \in 1 .. k |-> at[i]]

Nodes(l)  == Walk(hdr[l].head, "next", hdr[l].len)
Values(l) == LET ns == Nodes(l) IN [i \in DOMAIN ns |-> IF ns[i] = Null THEN Null ELSE node[ns[i]].value]
Within(n, l) == n \in ToSet(Nodes(l))

Iterating == iter.towards # "none"

----------------------------------------------------------------------------
ListCreate(l) ==
  /\ l \notin made
  /\ made' = made \cup {l} /\ hdr' = [hdr EXCEPT ![l] = NoList]
  /\ UNCHANGED <<node, used, iter, due>>

ListRelease(l) ==
  /\ l \in made /\ (l = "orig" => ~Iterating)
  /\ made' = made \ {l} /\ hdr' = [hdr EXCEPT ![l] = NoList]
  /\ used' = used \ ToSet(Nodes(l))
  /\ node' = [n \in Node |-> IF Within(n, l) THEN Blank ELSE node[n]]
  /\ UNCHANGED <<iter, due>>

AddNodeHead(l, v) ==
  /\ l \in made /\ used # Node
  /\ LET n == NewNode
         h == hdr[l]
         q == IF h.len = 0 THEN Null ELSE h.head
         new == [prev |-> Null, next |-> q, value |-> v]
     IN  /\ used' = used \cup {n}
         /\ node' = Put([node EXCEPT ![n] = new], q, "prev", n)
         /\ hdr' = [hdr EXCEPT ![l] = [head |-> n, len |-> h.len + 1,
                                       tail |-> IF h.len = 0 THEN n ELSE h.tail]]
  /\ UNCHANGED <<made, iter, due>>

AddNodeTail(l, v) ==
  /\ l \in made /\ used # Node
  /\ LET n == NewNode
         h == hdr[l]
         p == IF h.len = 0 THEN Null ELSE h.tail
         new == [prev |-> p, next |-> Null, value |-> v]
     IN  /\ used' = used \cup {n}
         /\ node' = Put([node EXCEPT ![n] = new], p, "next", n)
         /\ hdr' = [hdr EXCEPT ![l] = [tail |-> n, len |-> h.len + 1,
                                       head |-> IF h.len = 0 THEN n ELSE h.head]]
  /\ UNCHANGED <<made, iter, due>>

\* The header after node n came in beside old.
Ends(h, old, n, after) ==
  [head |-> IF ~after /\ h.head = old THEN n ELSE h.head,
   tail |-> IF after /\ h.tail = old THEN n ELSE h.tail,
   len  |-> h.len + 1]

InsertNode(l, old, v, after) ==
  /\ Within(old, l) /\ used # Node
  /\ LET n == NewNode
         p == IF after THEN old ELSE node[old].prev
         q == IF after THEN node[old].next ELSE old
         new == [prev |-> p, next |-> q, value |-> v]
     IN  /\ used' = used \cup {n}
         /\ node' = Put(Put([node EXCEPT ![n] = new], p, "next", n), q, "prev", n)
         /\ hdr' = [hdr EXCEPT ![l] = Ends(@, old, n, after)]
  /\ UNCHANGED <<made, iter, due>>

\* The caller's rule: while it iterates, only the element it was given.
MayRemove(l, n) == Iterating /\ l = "orig" => n = iter.current

DelNode(l, n) ==
  /\ Within(n, l) /\ MayRemove(l, n)
  /\ LET p == node[n].prev
         q == node[n].next
     IN  /\ node' = [Put(Put(node, p, "next", q), q, "prev", p) EXCEPT ![n] = Blank]
         /\ hdr' = [hdr EXCEPT ![l] = [head |-> IF p = Null THEN q ELSE @.head,
                                       tail |-> IF q = Null THEN p ELSE @.tail,
                                       len  |-> @.len - 1]]
  /\ used' = used \ {n}
  /\ iter' = IF iter.current = n THEN [iter EXCEPT !.current = Null] ELSE iter
  /\ UNCHANGED <<made, due>>

\* The old head's prev after the tail went before it (mutant: forgotten).
LinkBackNot(h, t) == Null
LinkBack(h, t) == t

ListRotate(l) ==
  /\ l \in made /\ hdr[l].len > 1 /\ (l = "orig" => ~Iterating)
  /\ LET h == hdr[l].head
         t == hdr[l].tail
         p == node[t].prev
     IN  /\ hdr' = [hdr EXCEPT ![l].tail = p, ![l].head = t]
         /\ node' = LET detached == Put(node, p, "next", Null)
                        joined == Put(detached, h, "prev", LinkBack(h, t))
                    IN  Put(Put(joined, t, "prev", Null), t, "next", h)
  /\ UNCHANGED <<made, used, iter, due>>

\* A new node for each of orig's; too few give the copy back and NULL.
ListDup ==
  /\ "orig" \in made /\ "copy" \notin made /\ ~Iterating
  /\ Cardinality(Node \ used) >= hdr["orig"].len
  /\ LET k == hdr["orig"].len
         new == SubSeq(SetToSeq(Node \ used), 1, k)
         Nth(i) == IF i \in 1 .. k THEN new[i] ELSE Null
     IN  /\ made' = Lists
         /\ used' = used \cup ToSet(new)
         /\ hdr' = [hdr EXCEPT !["copy"] = [head |-> Nth(1), tail |-> Nth(k), len |-> k]]
         /\ node' = [n \in Node |->
              IF n \notin ToSet(new) THEN node[n]
              ELSE LET i == CHOOSE j \in 1 .. k : new[j] = n
                   IN  [prev |-> Nth(i - 1), next |-> Nth(i + 1),
                        value |-> Values("orig")[i]]]
  /\ UNCHANGED <<iter, due>>

----------------------------------------------------------------------------
\* listGetIterator, listRewind (towards the tail), listRewindTail.
GetIterator(towards) ==
  /\ "orig" \in made /\ ~Iterating
  /\ LET first == IF towards = "next" THEN hdr["orig"].head ELSE hdr["orig"].tail
     IN  iter' = [next |-> first, towards |-> towards, current |-> Null]
  /\ due' = IF towards = "next" THEN Nodes("orig") ELSE Reverse(Nodes("orig"))
  /\ UNCHANGED <<made, hdr, node, used>>

\* Where the iterator goes (mutant: it waits on the node it returns).
StayOn(n, towards) == n
Ahead(n, towards) == node[n][towards]

ListNext ==
  /\ Iterating /\ iter.next # Null
  /\ LET n == iter.next
     IN  /\ iter' = [iter EXCEPT !.next = Ahead(n, iter.towards), !.current = n]
         /\ due' = IF due # <<>> /\ Head(due) = n THEN Tail(due) ELSE due
  /\ UNCHANGED <<made, hdr, node, used>>

\* listNext gives NULL, or the user stops; listReleaseIterator.
ReleaseIterator ==
  /\ Iterating
  /\ iter' = NoIter /\ due' = <<>>
  /\ UNCHANGED <<made, hdr, node, used>>

----------------------------------------------------------------------------
\* listIndex: the walk from the tail counts -1 first.
StepsBack(i) == -i - 1

ListIndex(l, i) ==
  LET steps == IF i < 0 THEN StepsBack(i) ELSE i
      path == IF i < 0 THEN Walk(hdr[l].tail, "prev", steps + 1)
                       ELSE Walk(hdr[l].head, "next", steps + 1)
  IN  path[steps + 1]

\* listSearchKey: the first node, from the head, whose value is the key.
SearchKey(l, key) ==
  LET from[n \in Node \cup {Null}] ==
        IF n = Null \/ node[n].value = key THEN n ELSE from[node[n].next]
  IN  from[hdr[l].head]

----------------------------------------------------------------------------
AInit ==
  /\ made = {} /\ hdr = [l \in Lists |-> NoList]
  /\ node = [n \in Node |-> Blank] /\ used = {}
  /\ iter = NoIter /\ due = <<>>

ListCall(l) ==
  \/ ListCreate(l) \/ ListRelease(l) \/ ListRotate(l)
  \/ \E v \in Value : AddNodeHead(l, v) \/ AddNodeTail(l, v)
  \/ \E n \in used : DelNode(l, n)
  \/ \E n \in used, v \in Value, after \in BOOLEAN : InsertNode(l, n, v, after)

Iteration == (\E d \in {"next", "prev"} : GetIterator(d)) \/ ListNext \/ ReleaseIterator

ANext == (\E l \in Lists : ListCall(l)) \/ ListDup \/ Iteration

ASpec == AInit /\ [][ANext]_lvars

----------------------------------------------------------------------------
Pointer == Node \cup {Null}

ATypeOK ==
  /\ made \subseteq Lists
  /\ hdr \in [Lists -> [head : Pointer, tail : Pointer, len : 0 .. MaxNodes]]
  /\ node \in [Node -> [prev : Pointer, next : Pointer, value : Value \cup {Null}]]
  /\ used \subseteq Node
  /\ iter \in [next : Pointer, towards : {"none", "next", "prev"}, current : Pointer]
  /\ due \in Seq(Node)

LinksAgree ==
  /\ \A l \in made :
       /\ Walk(hdr[l].tail, "prev", hdr[l].len) = Reverse(Nodes(l))
       /\ IsInjective(Nodes(l))
       /\ Walk(hdr[l].head, "next", hdr[l].len + 1)[hdr[l].len + 1] = Null
       /\ hdr[l].len = 0 <=> hdr[l].tail = Null
  /\ ToSet(Nodes("orig")) \cap ToSet(Nodes("copy")) = {}
  /\ used = ToSet(Nodes("orig")) \cup ToSet(Nodes("copy"))

LooksUp ==
  \A l \in made :
    LET k == hdr[l].len
    IN  /\ \A i \in 0 .. k - 1 :
             ListIndex(l, i) = Nodes(l)[i + 1] /\ ListIndex(l, i - k) = Nodes(l)[i + 1]
        /\ ListIndex(l, k) = Null /\ ListIndex(l, -k - 1) = Null
        /\ \A v \in Value :
             LET n == SearchKey(l, v)
             IN  IF \E i \in 1 .. k : Values(l)[i] = v
                 THEN \E i \in 1 .. k : /\ Nodes(l)[i] = n /\ Values(l)[i] = v
                                        /\ \A j \in 1 .. i - 1 : Values(l)[j] # v
                 ELSE n = Null

\* Read from the tail a list is its reverse, both walks end after len nodes,
\* no node is in two lists, and none was lost: listRelease, which counts, and
\* listNext, which looks for NULL, meet the same nodes. So a node is found by
\* its place from either end, NULL out of range, and by value the first.
Linked == LinksAgree /\ LooksUp

\* The elements of s are among those of t, in the same order.
LiesIn(s, t) ==
  \E place \in [DOMAIN s -> DOMAIN t] :
    \A i \in DOMAIN s : /\ t[place[i]] = s[i]
                        /\ \A j \in DOMAIN s : i < j => place[i] < place[j]

\* "It's valid to remove the currently returned element": whatever is added
\* or removed by that rule, the iterator still has before it, in order, each
\* node of the list it was made for, and never a freed one.
IteratesAll ==
  Iterating =>
    /\ LiesIn(due, Walk(iter.next, iter.towards, MaxNodes))
    /\ iter.next # Null => Within(iter.next, "orig")

\* What each call does to the sequence of values: to its own list what its
\* comment says, and nothing to the other.
OrderKept ==
  /\ \A l \in Lists :
       LET was == Values(l)
           is == Values(l)'
       IN  /\ hdr'[l].len = hdr[l].len + 1 =>
                /\ \A v \in Value : /\ AddNodeHead(l, v) => is = <<v>> \o was
                                    /\ AddNodeTail(l, v) => is = Append(was, v)
                /\ \A i \in DOMAIN was, v \in Value, after \in BOOLEAN :
                     InsertNode(l, Nodes(l)[i], v, after) =>
                       is = InsertAt(was, IF after THEN i + 1 ELSE i, v)
           /\ hdr'[l].len = hdr[l].len - 1 =>
                \A i \in DOMAIN was : DelNode(l, Nodes(l)[i]) => is = RemoveAt(was, i)
           /\ ListRotate(l) => is = <<Last(was)>> \o Front(was)
           /\ was # is => UNCHANGED Values(CHOOSE m \in Lists : m # l)
  /\ ListDup => Values("copy")' = Values("orig") /\ UNCHANGED Values("orig")
  /\ Iteration => UNCHANGED <<Values("orig"), Values("copy")>>
=============================================================================
