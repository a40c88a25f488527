------------------------------- MODULE NcArray ------------------------------
(***************************************************************************)
(* data_structure/nc_array.c: an array used as a stack that grows by       *)
(* doubling, counted in uint32_t; two of them, for array_swap.             *)
(*                                                                         *)
(* A uint32_t has Width bits. Callers keep at most MaxElems elements in    *)
(* all. When malloc or realloc gives nothing, everything stays as it was.  *)
(***************************************************************************)
EXTENDS Integers, SequencesExt

CONSTANTS
  Width, MaxElems,
  FirstSizes,  \* the n of array_create
  ElemSize,    \* bytes of an element
  Item

Arrays == {"a", "b"}
Span   == 2 ^ Width
NoArray   == [nelem |-> 0, nalloc |-> 0, block |-> <<>>]

VARIABLES
  array,   \* of each: nelem, nalloc, and block, all that elem points to
  there,   \* the arrays that were created
  each     \* array_each: the array, the next index, the nelem it read; or NoEach

avars == <<array, there, each>>

NoEach == [of |-> "none", i |-> 0, nelem |-> 0]

Get(x, i) == array[x].block[i + 1]
Elems(x)  == SubSeq(array[x].block, 1, array[x].nelem)

\* Fresh memory holds anything; one value of it is enough.
Unset(k) == [i \in 1 .. k |-> CHOOSE e \in Item : TRUE]

----------------------------------------------------------------------------
\* array_create, array_init.
Create(x, k) ==
  /\ x \notin there /\ k # 0
  /\ there' = there \cup {x}
  /\ array' = [array EXCEPT ![x] = [nelem |-> 0, nalloc |-> k, block |-> Unset(k)]]
  /\ UNCHANGED each

\* array_destroy, array_deinit: assert(a->nelem == 0).
Destroy(x) ==
  /\ x \in there /\ array[x].nelem = 0
  /\ there' = there \ {x} /\ array' = [array EXCEPT ![x] = NoArray]
  /\ UNCHANGED each

\* The full array's new block (mutant: what was in it is not kept).
GrownBlank(a) == [a EXCEPT !.block = Unset(2 * a.nalloc), !.nalloc = (2 * @) % Span]
Grown(a) ==
  LET room == 2 * a.nalloc                    \* realloc, in a size_t
  IN  [a EXCEPT !.block = [i \in 1 .. room |->
                             IF i <= Len(@) THEN @[i] ELSE Unset(1)[1]],
                !.nalloc = (2 * @) % Span]    \* in a uint32_t

\* array_push, and the caller stores e where it points.
Store(a, e) == [a EXCEPT !.block = [@ EXCEPT ![a.nelem + 1] = e],
                         !.nelem = (@ + 1) % Span]

Push(x, e) ==
  /\ x \in there /\ array["a"].nelem + array["b"].nelem < MaxElems
  /\ LET a == array[x]
     IN  array' = [array EXCEPT ![x] =
           Store(IF a.nelem = a.nalloc THEN Grown(a) ELSE a, e)]
  /\ UNCHANGED <<there, each>>

\* array_pop, outside array_each, whose index the assertions would stop.
Pop(x) ==
  /\ x \in there /\ array[x].nelem # 0 /\ each.of = "none"
  /\ array' = [array EXCEPT ![x].nelem = @ - 1]
  /\ UNCHANGED <<there, each>>

Swap ==
  /\ there = Arrays /\ each.of = "none"
  /\ array' = [x \in Arrays |-> array[CHOOSE y \in Arrays : y # x]]
  /\ UNCHANGED <<there, each>>

\* qsort of the first nelem elements.
Sort(x) ==
  /\ x \in there /\ array[x].nelem # 0 /\ each.of = "none"
  /\ LET k == array[x].nelem
         s == SortSeq(SubSeq(Elems(x), 1, k), LAMBDA d, e : d < e)
     IN  array' = [array EXCEPT ![x].block =
           [i \in DOMAIN @ |-> IF i <= k THEN s[i] ELSE @[i]]]
  /\ UNCHANGED <<there, each>>

----------------------------------------------------------------------------
\* array_each reads nelem once (mutant: the room of the array); func may push.
ReadAlloc(x) == array[x].nalloc
ReadNelem(x) == array[x].nelem

Each(x) ==
  /\ x \in there /\ array[x].nelem # 0 /\ each.of = "none"
  /\ each' = [of |-> x, i |-> 0, nelem |-> ReadNelem(x)]
  /\ UNCHANGED <<array, there>>

\* func gets the element at i and changes it; a status of its own ends the loop.
Func(e) ==
  /\ each.of # "none" /\ each.i < each.nelem
  /\ array' = [array EXCEPT ![each.of].block[each.i + 1] = e]
  /\ each' \in {[each EXCEPT !.i = @ + 1], NoEach}
  /\ UNCHANGED there

EachEnds ==
  /\ each.of # "none" /\ each.i = each.nelem
  /\ each' = NoEach
  /\ UNCHANGED <<array, there>>

\* array_idx of the element at i: the offset is cut to a uint32_t.
Offset(i) == (ElemSize * i) % Span
Idx(i) == Offset(i) \div ElemSize

----------------------------------------------------------------------------
NInit == array = [x \in Arrays |-> NoArray] /\ there = {} /\ each = NoEach

NNext ==
  \/ \E x \in Arrays : \/ \E k \in FirstSizes : Create(x, k)
                       \/ Destroy(x) \/ Pop(x) \/ Sort(x) \/ Each(x)
                       \/ \E e \in Item : Push(x, e)
  \/ \E e \in Item : Func(e)
  \/ Swap \/ EachEnds

NSpec == NInit /\ [][NNext]_avars

----------------------------------------------------------------------------
NTypeOK ==
  /\ there \subseteq Arrays
  /\ \A x \in Arrays :
       /\ array[x].nelem \in 0 .. Span - 1 /\ array[x].nalloc \in 0 .. Span - 1
       /\ array[x].block \in Seq(Item)
  /\ each \in [of : Arrays \cup {"none"}, i : 0 .. Span - 1, nelem : 0 .. Span - 1]

\* The elements an array counts are inside its memory, and so is every one that
\* array_each will ask for, whatever func pushed; array_idx finds each back.
InRoom ==
  \A x \in there :
    /\ array[x].nelem <= Len(array[x].block)
    /\ each.of = x => each.nelem <= array[x].nelem
    /\ \A i \in 0 .. array[x].nelem - 1 : Idx(i) = i

\* What each call does to the elements: those of a stack that can be sorted.
StackKept ==
  /\ \A x \in Arrays, e \in Item : Push(x, e) => Elems(x)' = Append(Elems(x), e)
  /\ \A x \in Arrays :
       /\ Pop(x) => Elems(x)' = Front(Elems(x))
       /\ Sort(x) =>
            /\ \A i, j \in 1 .. array[x].nelem : i < j => Elems(x)'[i] <= Elems(x)'[j]
            /\ \A e \in Item : Len(SelectSeq(Elems(x)', LAMBDA d : d = e))
                                 = Len(SelectSeq(Elems(x), LAMBDA d : d = e))
  /\ Swap => Elems("a")' = Elems("b") /\ Elems("b")' = Elems("a")
=============================================================================
