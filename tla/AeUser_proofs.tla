---------------------------- MODULE AeUser_proofs ----------------------------
(* Theorems of AeUser: what any program may do with the event loop of      *)
(* pubsub/ae.c, for every number of descriptors and every set of handlers. *)
EXTENDS AeUser, FiniteSetTheorems, TLAPS

----------------------------------------------------------------------------
(* The search for the highest descriptor that is registered.               *)

\* A set of natural numbers that has members has a least one.
LEMMA LeastNumber ==
  ASSUME NEW S, S \subseteq Nat, S # {}
  PROVE  \E x \in S : \A y \in S : x <= y
<1> DEFINE R == OpToRel(<, Nat)
<1>1. IsWellFoundedOn(R, Nat)
  BY NatLessThanWellFounded
<1>2. \A x, y \in Nat : x < y => <<x, y>> \in R
  BY DEF OpToRel
<1> HIDE DEF R
<1>3. PICK x \in S : \A y \in S : <<y, x>> \notin R
  BY <1>1, WFMin
<1>4. ASSUME NEW y \in S
      PROVE  x <= y
  <2>1. ~(y < x)
    BY <1>2, <1>3, <1>4
  <2>2. x \in Nat /\ y \in Nat
    BY <1>3, <1>4
  <2>3. QED BY <2>1, <2>2
<1>5. QED BY <1>3, <1>4

\* A set of integers below a bound that has members has a greatest one.
LEMMA Greatest ==
  ASSUME NEW S, NEW b \in Int, S \subseteq Int, S # {}, \A x \in S : x <= b
  PROVE  Max(S) \in S /\ \A y \in S : y <= Max(S)
<1> DEFINE T == {b - x : x \in S}
<1>1. T \subseteq Nat /\ T # {}
  <2>1. ASSUME NEW x \in S
        PROVE  b - x \in Nat
    <3>1. x \in Int /\ x <= b
      BY <2>1
    <3>2. QED BY <3>1
  <2>2. QED BY <2>1
<1> HIDE DEF T
<1>2. PICK t \in T : \A u \in T : t <= u
  BY <1>1, LeastNumber
<1>3. PICK x \in S : t = b - x
  BY <1>2 DEF T
<1>4. ASSUME NEW y \in S
      PROVE  x >= y
  <2>1. b - x <= b - y
    BY <1>2, <1>3, <1>4 DEF T
  <2>2. x \in Int /\ y \in Int
    BY <1>3, <1>4
  <2>3. QED BY <2>1, <2>2
<1>5. \E z \in S : \A y \in S : z >= y
  BY <1>3, <1>4
<1>6. Max(S) \in S /\ \A y \in S : Max(S) >= y
  BY <1>5 DEF Max
<1>7. QED BY <1>6

Used(mask) == {f \in Fd : mask[f] # {}}

\* What aeDeleteFileEvent searches for is the highest that is used, or -1.
LEMMA HighestIs ==
  ASSUME NEW mask
  PROVE  /\ HighestUsed(mask) \in -1 .. SetSize - 1
         /\ HighestUsed(mask) = -1 \/ HighestUsed(mask) \in Used(mask)
         /\ \A f \in Used(mask) : f <= HighestUsed(mask)
<1> DEFINE S == {-1} \cup Used(mask)
<1>1. SetSize \in Nat /\ S \subseteq -1 .. SetSize - 1 /\ S # {}
  BY AeAssumption DEF Used
<1>2. HighestUsed(mask) = Max(S)
  BY DEF HighestUsed, Used
<1> HIDE DEF S
<1>3. Max(S) \in S /\ \A y \in S : y <= Max(S)
  <2>1. S \subseteq Int /\ SetSize - 1 \in Int /\ \A x \in S : x <= SetSize - 1
    BY <1>1
  <2>2. QED BY <1>1, <2>1, Greatest
<1>4. Max(S) \in -1 .. SetSize - 1
  BY <1>1, <1>3
<1>5. QED BY <1>2, <1>3, <1>4 DEF S

\* It is the only such number.
LEMMA HighestOnly ==
  ASSUME NEW mask, NEW h \in Int, h = -1 \/ h \in Used(mask), \A f \in Used(mask) : f <= h
  PROVE  HighestUsed(mask) = h
<1>1. /\ HighestUsed(mask) \in Int
      /\ HighestUsed(mask) = -1 \/ HighestUsed(mask) \in Used(mask)
      /\ \A f \in Used(mask) : f <= HighestUsed(mask)
  BY HighestIs, AeAssumption
<1>2. \A f \in Used(mask) : f \in Nat
  BY AeAssumption DEF Used
<1>3. QED BY <1>1, <1>2

----------------------------------------------------------------------------
(* The invariant.                                                          *)

\* The kernel watches open descriptors only.
WatchedOpen == \A f \in Fd : k.watched[f] # {} => f \in k.open

\* Nothing is left to handle when the loop polls.
AllHandled == pc \in {"setup", "top"} => fired = <<>>

\* A tidy program has one kind of event at a time.
OneKind == \A f \in Fd : el.mask[f] \in {{}, {AE_READABLE}, {AE_WRITABLE}}

\* The event is with the kernel, or behind the one that is handled now, or its
\* handler ran: what NoMissedEdge says, and not of the event whose handler is
\* running, which will be gone from fired when it returns.
Reported(f, m, n) == fired[n].fd = f /\ m \in fired[n].mask /\ (n = 1 => pc = "next")
Known(f, m) == f \in k.ready \/ m \in seen[f] \/ \E n \in DOMAIN fired : Reported(f, m, n)
AllKnown == \A f \in Fd : \A m \in el.mask[f] \cap FromEpoll(level[f]) : Known(f, m)

TidyInv ==
  /\ el.setsize = SetSize
  /\ OneKind /\ InterestAgrees /\ MaxfdRight /\ AllKnown

AInv == TypeOK /\ MaxfdCovers /\ WatchedOpen /\ AllHandled /\ Tidy(TidyInv)

----------------------------------------------------------------------------
(* Flags of the loop and of epoll.                                         *)

LEMMA MasksAre ==
  ASSUME NEW m \in Masks
  PROVE  m \in {{}, {AE_READABLE}, {AE_WRITABLE}, {AE_READABLE, AE_WRITABLE}}
BY DEF Masks, AE_READABLE, AE_WRITABLE

LEMMA OneFlag ==
  ASSUME NEW m \in Masks, Cardinality(m) = 1
  PROVE  m = {AE_READABLE} \/ m = {AE_WRITABLE}
<1>1. Cardinality({}) = 0
  BY FS_EmptySet
<1>2. Cardinality({AE_READABLE, AE_WRITABLE}) = 2
  <2>1. IsFiniteSet({AE_READABLE}) /\ Cardinality({AE_READABLE}) = 1
    BY FS_Singleton
  <2>2. Cardinality({AE_READABLE} \cup {AE_WRITABLE}) = 1 + 1
    <3>1. AE_WRITABLE \notin {AE_READABLE}
      BY DEF AE_READABLE, AE_WRITABLE
    <3>2. QED BY <2>1, <3>1, FS_AddElement
  <2>3. {AE_READABLE} \cup {AE_WRITABLE} = {AE_READABLE, AE_WRITABLE}
    OBVIOUS
  <2>4. QED BY <2>2, <2>3
<1>3. m # {} /\ m # {AE_READABLE, AE_WRITABLE}
  BY <1>1, <1>2
<1>4. QED BY <1>3, MasksAre

\* What InterestAgrees wants the kernel to watch for a mask.
Interest(m) == (IF AE_READABLE \in m THEN {"in"} ELSE {}) \cup
               (IF AE_WRITABLE \in m THEN {"out"} ELSE {})

LEMMA OneKindExact ==
  ASSUME NEW m \in {{}, {AE_READABLE}, {AE_WRITABLE}}
  PROVE  ToEpoll(m) = Interest(m)
BY DEF ToEpoll, Interest, AE_READABLE, AE_WRITABLE

LEMMA FlagsType ==
  /\ \A m : ToEpoll(m) \in SUBSET {"in", "out"}
  /\ \A r : FromEpoll(r) \in Masks
BY DEF ToEpoll, FromEpoll, Masks

\* An event that is ready and of interest is what epoll_wait would report.
LEMMA InterestReports ==
  ASSUME NEW mask \in Masks, NEW l \in SUBSET {"in", "out"},
         NEW m \in mask \cap FromEpoll(l)
  PROVE  /\ Interest(mask) # {}
         /\ (Interest(mask) \cup {"err"}) \cap l # {}
         /\ m \in FromEpoll((Interest(mask) \cup {"err"}) \cap l)
<1>1. m = AE_READABLE \/ m = AE_WRITABLE
  BY DEF Masks
<1>2. CASE m = AE_READABLE
  <2>1. "in" \in Interest(mask) /\ "in" \in l
    BY <1>2 DEF Interest, FromEpoll, AE_READABLE, AE_WRITABLE
  <2>2. QED BY <1>2, <2>1 DEF FromEpoll
<1>3. CASE m = AE_WRITABLE
  <2>1. "out" \in Interest(mask) /\ "out" \in l
    BY <1>3 DEF Interest, FromEpoll, AE_READABLE, AE_WRITABLE
  <2>2. QED BY <1>3, <2>1 DEF FromEpoll
<1>4. QED BY <1>1, <1>2, <1>3

----------------------------------------------------------------------------
(* The calls to epoll.                                                     *)

Fields ==
  /\ el.mask \in [Fd -> Masks] /\ el.maxfd \in -1 .. SetSize - 1 /\ el.setsize \in 1 .. SetSize
  /\ k.open \in SUBSET Fd /\ k.watched \in [Fd -> SUBSET {"in", "out"}] /\ k.ready \in SUBSET Fd
  /\ level \in [Fd -> SUBSET {"in", "out"}] /\ seen \in [Fd -> Masks]
  /\ \A f \in Fd : el.mask[f] \in Masks /\ level[f] \in SUBSET {"in", "out"}

LEMMA FieldsType ==
  ASSUME TypeOK
  PROVE  Fields
BY DEF TypeOK, AeTypeOK, Kernels, Fields

\* What Watch, Unwatch and Edge change.
Watches(f, events, lv) ==
  /\ k'.open = k.open
  /\ k'.watched = [k.watched EXCEPT ![f] = events]
  /\ k'.ready = IF events # {} /\ (events \cup {"err"}) \cap lv # {}
                THEN k.ready \cup {f} ELSE k.ready \ {f}

LEMMA WatchIs ==
  ASSUME k \in Kernels, NEW f \in Fd, NEW events \in SUBSET {"in", "out"}, NEW lv,
         k' = Watch(k, f, events, lv)
  PROVE  k' \in Kernels /\ Watches(f, events, lv)
<1> DEFINE w == [k EXCEPT !.watched[f] = events]
<1>1. w \in Kernels /\ w.open = k.open /\ w.ready = k.ready
      /\ w.watched = [k.watched EXCEPT ![f] = events] /\ w.watched[f] = events
  BY DEF Kernels
<1>2. k' = [w EXCEPT !.ready = IF Reports(w, f, lv) # {} THEN @ \cup {f} ELSE @ \ {f}]
  BY DEF Watch
<1> HIDE DEF w
<1>3. Reports(w, f, lv) # {} <=> events # {} /\ (events \cup {"err"}) \cap lv # {}
  BY <1>1 DEF Reports
<1>4. /\ k'.open = w.open /\ k'.watched = w.watched
      /\ k'.ready = IF Reports(w, f, lv) # {} THEN w.ready \cup {f} ELSE w.ready \ {f}
      /\ k' \in Kernels
  BY <1>1, <1>2 DEF Kernels
<1>5. QED BY <1>1, <1>3, <1>4 DEF Watches

LEMMA UnwatchIs ==
  ASSUME k \in Kernels, NEW f \in Fd, k' = Unwatch(k, f)
  PROVE  /\ k' \in Kernels /\ k'.open = k.open
         /\ k'.watched = [k.watched EXCEPT ![f] = {}] /\ k'.ready = k.ready \ {f}
BY DEF Unwatch, Kernels

LEMMA EdgeIs ==
  ASSUME k \in Kernels, NEW f \in Fd, NEW lv, k' = Edge(k, f, lv)
  PROVE  /\ k' \in Kernels /\ k'.open = k.open /\ k'.watched = k.watched
         /\ k'.ready = IF k.watched[f] # {} /\ (k.watched[f] \cup {"err"}) \cap lv # {}
                       THEN k.ready \cup {f} ELSE k.ready
<1>1. Reports(k, f, lv) # {} <=> k.watched[f] # {} /\ (k.watched[f] \cup {"err"}) \cap lv # {}
  BY DEF Reports
<1>2. CASE Reports(k, f, lv) # {}
  BY <1>1, <1>2 DEF Edge, Kernels
<1>3. CASE ~(Reports(k, f, lv) # {})
  BY <1>1, <1>3 DEF Edge, Kernels
<1>4. QED BY <1>2, <1>3

\* Events of the other descriptors stay known.
LEMMA KnownStill ==
  ASSUME NEW g \in Fd, \A m \in el.mask[g] \cap FromEpoll(level[g]) : Known(g, m),
         fired' = fired, pc' = pc, el'.mask[g] = el.mask[g], level'[g] \subseteq level[g],
         g \in k.ready => g \in k'.ready, seen[g] \subseteq seen'[g]
  PROVE  \A m \in el'.mask[g] \cap FromEpoll(level'[g]) : Known(g, m)'
<1>1. FromEpoll(level'[g]) \subseteq FromEpoll(level[g])
  BY DEF FromEpoll
<1>2. ASSUME NEW m \in el'.mask[g] \cap FromEpoll(level'[g])
      PROVE  Known(g, m)'
  <2>1. Known(g, m)
    BY <1>1, <1>2
  <2>2. \A n \in DOMAIN fired : Reported(g, m, n) => Reported(g, m, n)'
    BY DEF Reported
  <2>3. QED BY <2>1, <2>2 DEF Known
<1>3. QED BY <1>2

----------------------------------------------------------------------------
(* The steps of the program.                                               *)

LEMMA InitKeeps == Init => AInv
<1>1. SUFFICES ASSUME Init PROVE AInv
  OBVIOUS
<1>2. /\ el.mask = [f \in Fd |-> {}] /\ el.maxfd = -1 /\ el.setsize = SetSize
      /\ el.rproc = [f \in Fd |-> NoProc] /\ el.wproc = [f \in Fd |-> NoProc]
      /\ el = NewLoop /\ k.open = {} /\ k.watched = [f \in Fd |-> {}] /\ k.ready = {}
  BY <1>1 DEF Init, NewLoop, NoKernel
<1>3. AeTypeOK
  <2>1. el \in [mask : [Fd -> Masks], rproc : [Fd -> Procs \cup {NoProc}],
                wproc : [Fd -> Procs \cup {NoProc}],
                maxfd : -1 .. SetSize - 1, setsize : 1 .. SetSize]
    BY <1>1, AeAssumption DEF Init, NewLoop, Masks
  <2>2. k \in Kernels
    BY <1>1 DEF Init, NoKernel, Kernels
  <2>3. QED BY <1>1, <2>1, <2>2 DEF Init, AeTypeOK
<1>4. TypeOK
  BY <1>1, <1>3 DEF Init, TypeOK, Masks
<1>5. MaxfdCovers /\ WatchedOpen /\ AllHandled
  BY <1>1, <1>2 DEF MaxfdCovers, WatchedOpen, AllHandled, Init
<1>6. MaxfdRight
  <2>1. Used(el.mask) = {}
    BY <1>2 DEF Used
  <2>2. QED BY <1>2, <2>1, HighestOnly DEF MaxfdRight
<1>7. InterestAgrees /\ OneKind /\ AllKnown
  BY <1>2 DEF InterestAgrees, OneKind, AllKnown
<1>8. QED BY <1>2, <1>4, <1>5, <1>6, <1>7 DEF AInv, Tidy, TidyInv

LEMMA SameKeeps ==
  ASSUME AInv, UNCHANGED vars
  PROVE  AInv'
<1>1. UNCHANGED <<el, k, fired, pc, tidy, level, seen>>
  BY DEF vars
<1>2. TypeOK' /\ MaxfdCovers' /\ WatchedOpen' /\ AllHandled'
  BY <1>1 DEF AInv, TypeOK, AeTypeOK, MaxfdCovers, WatchedOpen, AllHandled
<1>3. TidyInv => TidyInv'
  BY <1>1 DEF TidyInv, OneKind, InterestAgrees, MaxfdRight, AllKnown, Known, Reported
<1>4. QED BY <1>1, <1>2, <1>3 DEF AInv, Tidy

\* aeCreateFileEvent, when it does something.
LEMMA CreateIs ==
  ASSUME TypeOK, NEW f \in Fd, NEW m \in Masks, NEW p \in Procs,
         f < el.setsize, AddOp(State, f), Becomes(Create(State, f, m, p, level[f]))
  PROVE  /\ el' \in [mask : [Fd -> Masks], rproc : [Fd -> Procs \cup {NoProc}],
                     wproc : [Fd -> Procs \cup {NoProc}],
                     maxfd : -1 .. SetSize - 1, setsize : 1 .. SetSize]
         /\ el'.mask = [el.mask EXCEPT ![f] = m \cup el.mask[f]]
         /\ el'.maxfd = (IF f > el.maxfd THEN f ELSE el.maxfd) /\ el'.setsize = el.setsize
         /\ k' \in Kernels /\ Watches(f, ToEpoll(m \cup el.mask[f]), level[f])
<1> DEFINE all == m \cup el.mask[f]
<1>1. /\ el \in [mask : [Fd -> Masks], rproc : [Fd -> Procs \cup {NoProc}],
                 wproc : [Fd -> Procs \cup {NoProc}],
                 maxfd : -1 .. SetSize - 1, setsize : 1 .. SetSize]
      /\ k \in Kernels
  BY DEF TypeOK, AeTypeOK
<1>2. f \in 0 .. SetSize - 1 /\ f \in Int /\ el.setsize \in Int /\ SetSize \in Nat
  BY <1>1, AeAssumption
<1>3. /\ el' = [el EXCEPT !.mask[f] = all,
                          !.rproc[f] = IF AE_READABLE \in m THEN p ELSE @,
                          !.wproc[f] = IF AE_WRITABLE \in m THEN p ELSE @,
                          !.maxfd = IF f > @ THEN f ELSE @]
      /\ k' = Watch(k, f, ToEpoll(all), level[f])
  <2>1. ~(f >= el.setsize \/ ~AddOp(State, f))
    BY <1>2
  <2>2. State.el = el /\ State.k = k
    BY DEF State
  <2>3. QED BY <2>1, <2>2 DEF Create, Becomes
<1>4. all \in Masks
  BY <1>1 DEF Masks
<1>5. (IF f > el.maxfd THEN f ELSE el.maxfd) \in -1 .. SetSize - 1
  BY <1>1, <1>2
<1>6. k' \in Kernels /\ Watches(f, ToEpoll(all), level[f])
  BY <1>1, <1>3, FlagsType, WatchIs
<1> HIDE DEF all
<1>7. QED BY <1>1, <1>3, <1>4, <1>5, <1>6 DEF all

LEMMA RegisterKeeps ==
  ASSUME AInv, NEW f \in Fd, NEW m \in Masks, NEW p \in Procs, Register(f, m, p)
  PROVE  AInv'
<1>1. TypeOK /\ Fields /\ MaxfdCovers /\ WatchedOpen /\ AllHandled
  BY FieldsType DEF AInv
<1>2. /\ m # {} /\ Becomes(Create(State, f, m, p, level[f]))
      /\ tidy => Cardinality(m) = 1 /\ el.mask[f] \subseteq m
      /\ fired' = fired /\ pc' = pc /\ tidy' = tidy /\ level' = level
  BY DEF Register, Tidy
<1>3. CASE ~(f < el.setsize /\ AddOp(State, f))
  <2>1. f \in Int /\ el.setsize \in Int
    BY <1>1, AeAssumption DEF Fields
  <2>2. el' = el /\ k' = k
    BY <1>2, <1>3, <2>1 DEF Create, Becomes, State
  <2>3. seen' = seen
    BY <1>1, <1>3 DEF Register, Fields
  <2>4. QED BY <1>2, <2>2, <2>3, SameKeeps DEF vars
<1>4. CASE f < el.setsize /\ AddOp(State, f)
  <2> DEFINE all == m \cup el.mask[f]
  <2>1. /\ el' \in [mask : [Fd -> Masks], rproc : [Fd -> Procs \cup {NoProc}],
                    wproc : [Fd -> Procs \cup {NoProc}],
                    maxfd : -1 .. SetSize - 1, setsize : 1 .. SetSize]
        /\ el'.mask = [el.mask EXCEPT ![f] = all]
        /\ el'.maxfd = (IF f > el.maxfd THEN f ELSE el.maxfd) /\ el'.setsize = el.setsize
        /\ k' \in Kernels /\ Watches(f, ToEpoll(all), level[f])
    BY <1>1, <1>2, <1>4, CreateIs
  <2>2. seen' = [seen EXCEPT ![f] = {}]
    BY <1>4 DEF Register
  <2>3. all # {} /\ all \in Masks
    BY <1>1, <1>2 DEF Fields, Masks
  <2> HIDE DEF all
  <2>4. TypeOK'
    <3>1. AeTypeOK'
      BY <1>1, <1>2, <2>1 DEF TypeOK, AeTypeOK
    <3>2. QED BY <1>1, <1>2, <2>2, <3>1 DEF TypeOK, Masks
  <2>5. el'.mask[f] = all /\ \A g \in Fd : g # f => el'.mask[g] = el.mask[g]
    BY <1>1, <2>1 DEF Fields
  <2>6. f \in Int /\ el.maxfd \in Int /\ f >= 0 /\ Fd \subseteq Int
    BY <1>1, AeAssumption DEF Fields
  <2>7. MaxfdCovers'
    BY <1>1, <2>1, <2>5, <2>6 DEF MaxfdCovers
  <2>8. k'.watched[f] = ToEpoll(all) /\ \A g \in Fd : g # f => k'.watched[g] = k.watched[g]
    BY <1>1, <2>1 DEF Fields, Watches
  <2>9. WatchedOpen'
    <3>1. f \in k.open
      BY <1>4 DEF AddOp, CanAdd, CanMod, State
    <3>2. QED BY <1>1, <2>1, <2>8, <3>1 DEF WatchedOpen, Watches
  <2>10. AllHandled'
    BY <1>1, <1>2 DEF AllHandled
  <2>11. ASSUME TidyInv, tidy
         PROVE  TidyInv'
    <3>1. all = {AE_READABLE} \/ all = {AE_WRITABLE}
      BY <1>2, <2>11, OneFlag DEF all
    <3>2. OneKind'
      BY <2>5, <2>11, <3>1 DEF TidyInv, OneKind
    <3>3. ToEpoll(all) = Interest(all)
      BY <3>1, OneKindExact
    <3>4. InterestAgrees'
      BY <2>5, <2>8, <2>11, <3>3 DEF TidyInv, InterestAgrees, Interest
    <3>5. MaxfdRight'
      <4>1. el.maxfd = HighestUsed(el.mask)
        BY <2>11 DEF TidyInv, MaxfdRight
      <4>2. el.maxfd = -1 \/ el.maxfd \in Used(el.mask)
        BY <4>1, HighestIs
      <4>3. el'.maxfd \in Int /\ (el'.maxfd = -1 \/ el'.maxfd \in Used(el'.mask))
        <5>1. f \in Used(el'.mask) /\ Used(el.mask) \subseteq Used(el'.mask)
          BY <2>3, <2>5 DEF Used
        <5>2. QED BY <2>1, <2>6, <4>2, <5>1
      <4>4. \A g \in Used(el'.mask) : g <= el'.maxfd
        BY <2>7 DEF MaxfdCovers, Used
      <4>5. QED BY <4>3, <4>4, HighestOnly DEF MaxfdRight
    <3>6. AllKnown'
      <4>1. ASSUME NEW g \in Fd, g # f
            PROVE  \A q \in el'.mask[g] \cap FromEpoll(level'[g]) : Known(g, q)'
        <5>1. \A q \in el.mask[g] \cap FromEpoll(level[g]) : Known(g, q)
          BY <2>11 DEF TidyInv, AllKnown
        <5>2. /\ el'.mask[g] = el.mask[g] /\ level'[g] \subseteq level[g]
              /\ g \in k.ready => g \in k'.ready
              /\ seen[g] \subseteq seen'[g]
          BY <1>1, <1>2, <2>1, <2>2, <2>5, <4>1 DEF Watches, Fields
        <5>3. QED BY <1>2, <5>1, <5>2, KnownStill
      <4>2. ASSUME NEW q \in el'.mask[f] \cap FromEpoll(level'[f])
            PROVE  Known(f, q)'
        <5>1. q \in all \cap FromEpoll(level[f]) /\ level[f] \in SUBSET {"in", "out"}
          BY <1>1, <1>2, <2>5, <4>2 DEF Fields
        <5>2. Interest(all) # {} /\ (Interest(all) \cup {"err"}) \cap level[f] # {}
          BY <2>3, <5>1, InterestReports
        <5>3. f \in k'.ready
          BY <2>1, <3>3, <5>2 DEF Watches
        <5>4. QED BY <5>3 DEF Known
      <4>3. QED BY <4>1, <4>2 DEF AllKnown
    <3>7. QED BY <2>1, <2>11, <3>2, <3>4, <3>5, <3>6 DEF TidyInv
  <2>12. QED BY <1>2, <2>4, <2>7, <2>9, <2>10, <2>11 DEF AInv, Tidy
<1>5. QED BY <1>3, <1>4

\* aeDeleteFileEvent, when it does something.
LEMMA DeleteIs ==
  ASSUME TypeOK, NEW f \in Fd, NEW m, f < el.setsize, el.mask[f] # {},
         Becomes(Delete(State, f, m, level[f])), WatchedOpen
  PROVE  /\ el' \in [mask : [Fd -> Masks], rproc : [Fd -> Procs \cup {NoProc}],
                     wproc : [Fd -> Procs \cup {NoProc}],
                     maxfd : -1 .. SetSize - 1, setsize : 1 .. SetSize]
         /\ el'.mask = [el.mask EXCEPT ![f] = @ \ m] /\ el'.setsize = el.setsize
         /\ el'.maxfd = IF f = el.maxfd /\ el.mask[f] \ m = {} THEN HighestUsed(el'.mask)
                        ELSE el.maxfd
         /\ k' \in Kernels /\ k'.open = k.open
         /\ \A g \in Fd : g # f => /\ k'.watched[g] = k.watched[g]
                                   /\ g \in k'.ready <=> g \in k.ready
         /\ k.watched[f] = {} => k' = k
         /\ k.watched[f] # {} => k'.watched[f] = ToEpoll(el.mask[f] \ m)
         /\ k.watched[f] # {} /\ el.mask[f] \ m # {} => Watches(f, ToEpoll(el.mask[f] \ m), level[f])
<1> DEFINE rest == el.mask[f] \ m
           mask == [el.mask EXCEPT ![f] = rest]
<1>1. /\ el \in [mask : [Fd -> Masks], rproc : [Fd -> Procs \cup {NoProc}],
                 wproc : [Fd -> Procs \cup {NoProc}],
                 maxfd : -1 .. SetSize - 1, setsize : 1 .. SetSize]
      /\ k \in Kernels /\ Fields
  BY FieldsType DEF TypeOK, AeTypeOK
<1>2. f \in Int /\ el.setsize \in Int
  BY <1>1, AeAssumption
<1>3. /\ el' = [el EXCEPT !.mask = mask,
                          !.maxfd = IF f = @ /\ rest = {} THEN HighestUsed(mask) ELSE @]
      /\ k' = IF ~CanMod(k, f) THEN k
              ELSE IF rest # {} THEN Watch(k, f, ToEpoll(rest), level[f])
              ELSE Unwatch(k, f)
  <2>1. ~(f >= el.setsize \/ el.mask[f] = {})
    BY <1>2
  <2>2. State.el = el /\ State.k = k
    BY DEF State
  <2>3. QED BY <2>1, <2>2 DEF Delete, Becomes
<1>4. rest \in Masks /\ mask \in [Fd -> Masks] /\ mask = [el.mask EXCEPT ![f] = @ \ m]
  BY <1>1 DEF Fields, Masks
<1>5. HighestUsed(mask) \in -1 .. SetSize - 1
  BY HighestIs
<1> HIDE DEF mask
<1>6. /\ el' \in [mask : [Fd -> Masks], rproc : [Fd -> Procs \cup {NoProc}],
                  wproc : [Fd -> Procs \cup {NoProc}],
                  maxfd : -1 .. SetSize - 1, setsize : 1 .. SetSize]
      /\ el'.mask = mask /\ el'.setsize = el.setsize
      /\ el'.maxfd = IF f = el.maxfd /\ rest = {} THEN HighestUsed(el'.mask) ELSE el.maxfd
  BY <1>1, <1>3, <1>4, <1>5
<1>7. CanMod(k, f) <=> k.watched[f] # {}
  BY DEF CanMod, WatchedOpen
<1>8. CASE k.watched[f] = {}
  <2>1. k' = k
    BY <1>3, <1>7, <1>8
  <2>2. QED BY <2>1, <1>1, <1>4, <1>6, <1>8
<1>9. CASE k.watched[f] # {} /\ rest # {}
  <2>1. k' \in Kernels /\ Watches(f, ToEpoll(rest), level[f])
    BY <1>1, <1>3, <1>7, <1>9, FlagsType, WatchIs
  <2>2. QED BY <2>1, <1>1, <1>4, <1>6, <1>9 DEF Watches, Fields
<1>10. CASE k.watched[f] # {} /\ rest = {}
  <2>1. k' \in Kernels /\ k'.open = k.open
        /\ k'.watched = [k.watched EXCEPT ![f] = {}] /\ k'.ready = k.ready \ {f}
    BY <1>1, <1>3, <1>7, <1>10, UnwatchIs
  <2>2. ToEpoll(rest) = {}
    BY <1>10 DEF ToEpoll
  <2>3. QED BY <2>1, <2>2, <1>1, <1>4, <1>6, <1>10 DEF Fields
<1>11. QED BY <1>8, <1>9, <1>10

LEMMA UnregisterKeeps ==
  ASSUME AInv, NEW f \in Fd, NEW m \in Masks, Unregister(f, m)
  PROVE  AInv'
<1>1. TypeOK /\ Fields /\ MaxfdCovers /\ WatchedOpen /\ AllHandled
  BY FieldsType DEF AInv
<1>2. /\ Becomes(Delete(State, f, m, level[f])) /\ seen' = [seen EXCEPT ![f] = {}]
      /\ fired' = fired /\ pc' = pc /\ tidy' = tidy /\ level' = level
  BY DEF Unregister
<1>3. f \in Int /\ el.setsize \in Int /\ SetSize \in Int /\ f < SetSize /\ Fd \subseteq Int
      /\ el.maxfd \in Int
  BY <1>1, AeAssumption DEF Fields
<1>4. CASE ~(f < el.setsize /\ el.mask[f] # {})
  <2>1. el' = el /\ k' = k
    BY <1>2, <1>3, <1>4 DEF Delete, Becomes, State
  <2>2. TypeOK' /\ MaxfdCovers' /\ WatchedOpen' /\ AllHandled'
    BY <1>1, <1>2, <2>1 DEF TypeOK, AeTypeOK, MaxfdCovers, WatchedOpen, AllHandled, Masks
  <2>3. ASSUME TidyInv
        PROVE  TidyInv'
    <3>1. el.setsize' = SetSize /\ OneKind' /\ InterestAgrees' /\ MaxfdRight'
      BY <2>1, <2>3 DEF TidyInv, OneKind, InterestAgrees, MaxfdRight
    <3>2. ASSUME NEW g \in Fd
          PROVE  \A q \in el'.mask[g] \cap FromEpoll(level'[g]) : Known(g, q)'
      <4>1. CASE g = f
        BY <1>3, <1>4, <2>1, <2>3, <4>1 DEF TidyInv
      <4>2. CASE g # f
        <5>1. \A q \in el.mask[g] \cap FromEpoll(level[g]) : Known(g, q)
          BY <2>3 DEF TidyInv, AllKnown
        <5>2. seen[g] \subseteq seen'[g]
          BY <1>1, <1>2, <4>2 DEF Fields
        <5>3. QED BY <1>2, <2>1, <5>1, <5>2, KnownStill
      <4>3. QED BY <4>1, <4>2
    <3>3. QED BY <3>1, <3>2 DEF TidyInv, AllKnown
  <2>4. QED BY <1>2, <2>2, <2>3 DEF AInv, Tidy
<1>5. CASE f < el.setsize /\ el.mask[f] # {}
  <2> DEFINE rest == el.mask[f] \ m
  <2>1. /\ el' \in [mask : [Fd -> Masks], rproc : [Fd -> Procs \cup {NoProc}],
                    wproc : [Fd -> Procs \cup {NoProc}],
                    maxfd : -1 .. SetSize - 1, setsize : 1 .. SetSize]
        /\ el'.mask = [el.mask EXCEPT ![f] = @ \ m] /\ el'.setsize = el.setsize
        /\ el'.maxfd = IF f = el.maxfd /\ rest = {} THEN HighestUsed(el'.mask)
                       ELSE el.maxfd
        /\ k' \in Kernels /\ k'.open = k.open
        /\ \A g \in Fd : g # f => /\ k'.watched[g] = k.watched[g]
                                  /\ g \in k'.ready <=> g \in k.ready
        /\ k.watched[f] = {} => k' = k
        /\ k.watched[f] # {} => k'.watched[f] = ToEpoll(rest)
        /\ k.watched[f] # {} /\ rest # {} => Watches(f, ToEpoll(rest), level[f])
    BY <1>1, <1>2, <1>5, DeleteIs
  <2>2. el'.mask[f] = rest /\ \A g \in Fd : g # f => el'.mask[g] = el.mask[g]
    BY <1>1, <2>1 DEF Fields
  <2>3. rest \in Masks
    BY <1>1 DEF Fields, Masks
  <2>4. TypeOK'
    <3>1. AeTypeOK'
      BY <1>1, <1>2, <2>1 DEF TypeOK, AeTypeOK
    <3>2. QED BY <1>1, <1>2, <3>1 DEF TypeOK, Masks
  <2> HIDE DEF rest
  <2>5. MaxfdCovers'
    <3>1. CASE f = el.maxfd /\ rest = {}
      <4>1. \A g \in Used(el'.mask) : g <= HighestUsed(el'.mask)
        BY HighestIs
      <4>2. QED BY <2>1, <3>1, <4>1 DEF MaxfdCovers, Used
    <3>2. CASE ~(f = el.maxfd /\ rest = {})
      <4>1. \A g \in Fd : el'.mask[g] # {} => el.mask[g] # {}
        BY <1>5, <2>2
      <4>2. QED BY <1>1, <2>1, <3>2, <4>1 DEF MaxfdCovers
    <3>3. QED BY <3>1, <3>2
  <2>6. WatchedOpen'
    BY <1>1, <2>1 DEF WatchedOpen
  <2>7. AllHandled'
    BY <1>1, <1>2 DEF AllHandled
  <2>8. ASSUME TidyInv
        PROVE  TidyInv'
    <3>1. el.mask[f] \in {{AE_READABLE}, {AE_WRITABLE}} /\ rest \in {{}, el.mask[f]}
      BY <1>5, <2>8 DEF TidyInv, OneKind, rest
    <3>2. rest \in {{}, {AE_READABLE}, {AE_WRITABLE}}
      BY <3>1
    <3>3. OneKind'
      BY <2>2, <2>8, <3>2 DEF TidyInv, OneKind
    <3>4. k.watched[f] # {} /\ ToEpoll(rest) = Interest(rest)
      BY <2>8, <3>1, <3>2, OneKindExact DEF TidyInv, InterestAgrees
    <3>5. InterestAgrees'
      BY <2>1, <2>2, <2>8, <3>4 DEF TidyInv, InterestAgrees, Interest
    <3>6. MaxfdRight'
      <4>1. CASE f = el.maxfd /\ rest = {}
        BY <2>1, <4>1 DEF MaxfdRight
      <4>2. CASE ~(f = el.maxfd /\ rest = {})
        <5>1. el.maxfd = HighestUsed(el.mask) /\ el'.maxfd = el.maxfd
          BY <2>1, <2>8, <4>2 DEF TidyInv, MaxfdRight
        <5>2. /\ el.maxfd = -1 \/ el.maxfd \in Used(el.mask)
              /\ \A g \in Used(el.mask) : g <= el.maxfd
          BY <5>1, HighestIs
        <5>3. Used(el'.mask) \subseteq Used(el.mask)
          BY <1>5, <2>2 DEF Used
        <5>4. el.maxfd = -1 \/ el.maxfd \in Used(el'.mask)
          BY <2>2, <4>2, <5>2 DEF Used
        <5>5. QED BY <1>3, <5>1, <5>2, <5>3, <5>4, HighestOnly DEF MaxfdRight
      <4>3. QED BY <4>1, <4>2
    <3>7. AllKnown'
      <4>1. ASSUME NEW g \in Fd, g # f
            PROVE  \A q \in el'.mask[g] \cap FromEpoll(level'[g]) : Known(g, q)'
        <5>1. \A q \in el.mask[g] \cap FromEpoll(level[g]) : Known(g, q)
          BY <2>8 DEF TidyInv, AllKnown
        <5>2. seen[g] \subseteq seen'[g]
          BY <1>1, <1>2, <4>1 DEF Fields
        <5>3. QED BY <1>2, <2>1, <2>2, <4>1, <5>1, <5>2, KnownStill
      <4>2. ASSUME NEW q \in el'.mask[f] \cap FromEpoll(level'[f])
            PROVE  Known(f, q)'
        <5>1. q \in rest \cap FromEpoll(level[f]) /\ level[f] \in SUBSET {"in", "out"}
          BY <1>1, <1>2, <2>2, <4>2 DEF Fields
        <5>2. Interest(rest) # {} /\ (Interest(rest) \cup {"err"}) \cap level[f] # {}
          BY <2>3, <5>1, InterestReports
        <5>3. f \in k'.ready
          BY <2>1, <3>4, <5>1, <5>2 DEF Watches
        <5>4. QED BY <5>3 DEF Known
      <4>3. QED BY <4>1, <4>2 DEF AllKnown
    <3>8. QED BY <2>1, <2>8, <3>3, <3>5, <3>6, <3>7 DEF TidyInv
  <2>9. QED BY <1>2, <2>4, <2>5, <2>6, <2>7, <2>8 DEF AInv, Tidy
<1>6. QED BY <1>4, <1>5

\* Steps that leave the loop alone leave what is said of it.
LEMMA LoopAlone ==
  ASSUME MaxfdCovers, el' = el
  PROVE  /\ MaxfdCovers'
         /\ OneKind => OneKind'
         /\ MaxfdRight => MaxfdRight'
         /\ InterestAgrees /\ k'.watched = k.watched => InterestAgrees'
BY DEF MaxfdCovers, OneKind, MaxfdRight, InterestAgrees

LEMMA OpenFdKeeps ==
  ASSUME AInv, NEW f \in Fd, OpenFd(f)
  PROVE  AInv'
<1>1. TypeOK /\ Fields /\ MaxfdCovers /\ WatchedOpen /\ AllHandled /\ k \in Kernels
  BY FieldsType DEF AInv, TypeOK, AeTypeOK
<1>2. /\ f \notin k.open /\ k' = Open(k, f)
      /\ level' = [level EXCEPT ![f] = {"out"}] /\ seen' = [seen EXCEPT ![f] = {}]
      /\ el' = el /\ fired' = fired /\ pc' = pc /\ tidy' = tidy
  BY DEF OpenFd, IsLowestFree
<1>3. k' \in Kernels /\ k'.open = k.open \cup {f} /\ k'.watched = k.watched /\ k'.ready = k.ready
  BY <1>1, <1>2 DEF Open, Kernels
<1>4. TypeOK'
  BY <1>1, <1>2, <1>3 DEF TypeOK, AeTypeOK, Masks
<1>5. MaxfdCovers' /\ WatchedOpen' /\ AllHandled'
  BY <1>1, <1>2, <1>3, LoopAlone DEF WatchedOpen, AllHandled
<1>6. ASSUME TidyInv
      PROVE  TidyInv'
  <2>1. el.mask[f] = {}
    <3>1. k.watched[f] = {}
      BY <1>1, <1>2 DEF WatchedOpen
    <3>2. Interest(el.mask[f]) = {}
      BY <3>1, <1>6 DEF TidyInv, InterestAgrees, Interest
    <3>3. QED BY <3>2, <1>1, <1>6 DEF TidyInv, OneKind, Interest
  <2>2. ASSUME NEW g \in Fd
        PROVE  \A q \in el'.mask[g] \cap FromEpoll(level'[g]) : Known(g, q)'
    <3>1. CASE g = f
      BY <1>2, <2>1, <3>1
    <3>2. CASE g # f
      <4>1. \A q \in el.mask[g] \cap FromEpoll(level[g]) : Known(g, q)
        BY <1>6 DEF TidyInv, AllKnown
      <4>2. seen[g] \subseteq seen'[g] /\ level'[g] \subseteq level[g]
        BY <1>1, <1>2, <3>2 DEF Fields
      <4>3. QED BY <1>2, <1>3, <4>1, <4>2, KnownStill
    <3>3. QED BY <3>1, <3>2
  <2>3. QED BY <1>1, <1>2, <1>3, <1>6, <2>2, LoopAlone DEF TidyInv, AllKnown
<1>7. QED BY <1>2, <1>4, <1>5, <1>6 DEF AInv, Tidy

LEMMA CloseFdKeeps ==
  ASSUME AInv, NEW f \in Fd, CloseFd(f)
  PROVE  AInv'
<1>1. TypeOK /\ Fields /\ MaxfdCovers /\ WatchedOpen /\ AllHandled /\ k \in Kernels
  BY FieldsType DEF AInv, TypeOK, AeTypeOK
<1>2. /\ tidy => el.mask[f] = {}
      /\ k' = Close(k, f)
      /\ level' = [level EXCEPT ![f] = {}] /\ seen' = [seen EXCEPT ![f] = {}]
      /\ el' = el /\ fired' = fired /\ pc' = pc /\ tidy' = tidy
  BY DEF CloseFd, Tidy
<1>3. k' \in Kernels /\ k'.open = k.open \ {f}
      /\ k'.watched = [k.watched EXCEPT ![f] = {}] /\ k'.ready = k.ready \ {f}
  BY <1>1, <1>2 DEF Close, Unwatch, Kernels
<1>4. TypeOK'
  BY <1>1, <1>2, <1>3 DEF TypeOK, AeTypeOK, Masks
<1>5. MaxfdCovers' /\ WatchedOpen' /\ AllHandled'
  BY <1>1, <1>2, <1>3, LoopAlone DEF WatchedOpen, AllHandled, Fields
<1>6. ASSUME TidyInv, tidy
      PROVE  TidyInv'
  <2>1. el.mask[f] = {}
    BY <1>2, <1>6
  <2>2. InterestAgrees'
    BY <1>1, <1>2, <1>3, <1>6, <2>1 DEF TidyInv, InterestAgrees, Fields
  <2>3. ASSUME NEW g \in Fd
        PROVE  \A q \in el'.mask[g] \cap FromEpoll(level'[g]) : Known(g, q)'
    <3>1. CASE g = f
      BY <1>2, <2>1, <3>1
    <3>2. CASE g # f
      <4>1. \A q \in el.mask[g] \cap FromEpoll(level[g]) : Known(g, q)
        BY <1>6 DEF TidyInv, AllKnown
      <4>2. seen[g] \subseteq seen'[g] /\ level'[g] \subseteq level[g]
        BY <1>1, <1>2, <3>2 DEF Fields
      <4>3. QED BY <1>2, <1>3, <3>2, <4>1, <4>2, KnownStill
    <3>3. QED BY <3>1, <3>2
  <2>4. QED BY <1>1, <1>2, <1>6, <2>2, <2>3, LoopAlone DEF TidyInv, AllKnown
<1>7. QED BY <1>2, <1>4, <1>5, <1>6 DEF AInv, Tidy

LEMMA UseKeeps ==
  ASSUME AInv, NEW f \in Fd, NEW e, Use(f, e)
  PROVE  AInv'
<1>1. TypeOK /\ Fields /\ MaxfdCovers /\ WatchedOpen /\ AllHandled
  BY FieldsType DEF AInv
<1>2. /\ level' = [level EXCEPT ![f] = @ \ {e}] /\ seen' = seen
      /\ el' = el /\ k' = k /\ fired' = fired /\ pc' = pc /\ tidy' = tidy
  BY DEF Use
<1>3. TypeOK'
  BY <1>1, <1>2 DEF TypeOK, AeTypeOK, Masks
<1>4. MaxfdCovers' /\ WatchedOpen' /\ AllHandled'
  BY <1>1, <1>2, LoopAlone DEF WatchedOpen, AllHandled
<1>5. ASSUME TidyInv
      PROVE  TidyInv'
  <2>1. ASSUME NEW g \in Fd
        PROVE  \A q \in el'.mask[g] \cap FromEpoll(level'[g]) : Known(g, q)'
    <3>1. \A q \in el.mask[g] \cap FromEpoll(level[g]) : Known(g, q)
      BY <1>5 DEF TidyInv, AllKnown
    <3>2. level'[g] \subseteq level[g]
      BY <1>1, <1>2 DEF Fields
    <3>3. QED BY <1>2, <3>1, <3>2, KnownStill
  <2>2. QED BY <1>1, <1>2, <1>5, <2>1, LoopAlone DEF TidyInv, AllKnown
<1>6. QED BY <1>2, <1>3, <1>4, <1>5 DEF AInv, Tidy

\* Resizing only clears; what it clears a tidy program does not ask for.
LEMMA ResizeSetKeeps ==
  ASSUME AInv, NEW n \in 1 .. SetSize, ResizeSet(n)
  PROVE  AInv'
<1>1. TypeOK /\ MaxfdCovers /\ WatchedOpen /\ AllHandled
  BY DEF AInv
<1>2. /\ ~tidy /\ Becomes(Resize(State, n))
      /\ fired' = fired /\ pc' = pc /\ tidy' = tidy /\ level' = level /\ seen' = seen
  BY DEF ResizeSet
<1>3. CASE n = el.setsize \/ el.maxfd >= n
  <2>1. el' = el /\ k' = k
    BY <1>2, <1>3 DEF Resize, Becomes, State
  <2>2. QED BY <1>2, <2>1, SameKeeps DEF vars
<1>4. CASE ~(n = el.setsize \/ el.maxfd >= n)
  <2>1. /\ el' = [el EXCEPT !.mask = [f \in Fd |-> IF f < el.maxfd THEN el.mask[f] ELSE {}],
                            !.setsize = n]
        /\ k' = k
    BY <1>2, <1>4 DEF Resize, Becomes, State
  <2>2. [f \in Fd |-> IF f < el.maxfd THEN el.mask[f] ELSE {}] \in [Fd -> Masks]
    BY <1>1 DEF TypeOK, AeTypeOK, Masks
  <2>3. /\ el' \in [mask : [Fd -> Masks], rproc : [Fd -> Procs \cup {NoProc}],
                    wproc : [Fd -> Procs \cup {NoProc}],
                    maxfd : -1 .. SetSize - 1, setsize : 1 .. SetSize]
        /\ el'.mask = [f \in Fd |-> IF f < el.maxfd THEN el.mask[f] ELSE {}]
        /\ el'.maxfd = el.maxfd
    BY <1>1, <2>1, <2>2 DEF TypeOK, AeTypeOK
  <2>4. TypeOK'
    BY <1>1, <1>2, <2>1, <2>3 DEF TypeOK, AeTypeOK
  <2>5. MaxfdCovers' /\ WatchedOpen' /\ AllHandled'
    BY <1>1, <1>2, <2>1, <2>3 DEF MaxfdCovers, WatchedOpen, AllHandled
  <2>6. QED BY <1>2, <2>4, <2>5 DEF AInv, Tidy
<1>5. QED BY <1>3, <1>4

LEMMA StartKeeps ==
  ASSUME AInv, Start
  PROVE  AInv'
<1>1. TypeOK /\ MaxfdCovers /\ WatchedOpen /\ AllHandled
  BY DEF AInv
<1>2. /\ pc = "setup" /\ pc' = "top" /\ el' = el /\ k' = k /\ fired' = fired
      /\ tidy' = tidy /\ level' = level /\ seen' = seen
  BY DEF Start
<1>3. TypeOK' /\ MaxfdCovers' /\ WatchedOpen' /\ AllHandled'
  BY <1>1, <1>2, LoopAlone DEF TypeOK, AeTypeOK, WatchedOpen, AllHandled
<1>4. ASSUME TidyInv
      PROVE  TidyInv'
  <2>1. fired = <<>>
    BY <1>1, <1>2 DEF AllHandled
  <2>2. \A g \in Fd : \A q : Known(g, q) => Known(g, q)'
    BY <1>2, <2>1 DEF Known, Reported
  <2>3. AllKnown'
    BY <1>2, <1>4, <2>2 DEF TidyInv, AllKnown
  <2>4. QED BY <1>1, <1>2, <1>4, <2>3, LoopAlone DEF TidyInv
<1>5. QED BY <1>2, <1>3, <1>4 DEF AInv, Tidy

\* An edge makes ready whatever is watched for.
LEMMA ArriveKeeps ==
  ASSUME AInv, NEW f \in Fd, NEW e \in {"in", "out"}, Arrive(f, e)
  PROVE  AInv'
<1>1. TypeOK /\ Fields /\ MaxfdCovers /\ WatchedOpen /\ AllHandled /\ k \in Kernels
  BY FieldsType DEF AInv, TypeOK, AeTypeOK
<1>2. /\ level' = [level EXCEPT ![f] = @ \cup {e}] /\ k' = Edge(k, f, level'[f])
      /\ seen' = [seen EXCEPT ![f] = @ \ FromEpoll({e})]
      /\ el' = el /\ fired' = fired /\ pc' = pc /\ tidy' = tidy
  BY DEF Arrive
<1>3. /\ k' \in Kernels /\ k'.open = k.open /\ k'.watched = k.watched
      /\ k'.ready = IF k.watched[f] # {} /\ (k.watched[f] \cup {"err"}) \cap level'[f] # {}
                    THEN k.ready \cup {f} ELSE k.ready
  BY <1>1, <1>2, EdgeIs
<1>4. level' \in [Fd -> SUBSET {"in", "out"}] /\ seen' \in [Fd -> Masks]
  BY <1>1, <1>2 DEF Fields, Masks
<1>5. TypeOK'
  BY <1>1, <1>2, <1>3, <1>4 DEF TypeOK, AeTypeOK
<1>6. MaxfdCovers' /\ WatchedOpen' /\ AllHandled'
  BY <1>1, <1>2, <1>3, LoopAlone DEF WatchedOpen, AllHandled
<1>7. ASSUME TidyInv
      PROVE  TidyInv'
  <2>1. ASSUME NEW q \in el'.mask[f] \cap FromEpoll(level'[f])
        PROVE  Known(f, q)'
    <3>1. k.watched[f] = Interest(el.mask[f])
      BY <1>7 DEF TidyInv, InterestAgrees, Interest
    <3>2. el.mask[f] \in Masks /\ level'[f] \in SUBSET {"in", "out"} /\ q \in el.mask[f]
      BY <1>1, <1>2, <1>4, <2>1 DEF Fields
    <3>3. Interest(el.mask[f]) # {} /\ (Interest(el.mask[f]) \cup {"err"}) \cap level'[f] # {}
      BY <2>1, <3>2, InterestReports
    <3>4. f \in k'.ready
      BY <1>3, <3>1, <3>3
    <3>5. QED BY <3>4 DEF Known
  <2>2. ASSUME NEW g \in Fd, g # f
        PROVE  \A q \in el'.mask[g] \cap FromEpoll(level'[g]) : Known(g, q)'
    <3>1. \A q \in el.mask[g] \cap FromEpoll(level[g]) : Known(g, q)
      BY <1>7 DEF TidyInv, AllKnown
    <3>2. /\ seen[g] \subseteq seen'[g] /\ level'[g] \subseteq level[g]
          /\ g \in k.ready => g \in k'.ready
      BY <1>1, <1>2, <1>3, <2>2 DEF Fields
    <3>3. QED BY <1>2, <3>1, <3>2, KnownStill
  <2>3. AllKnown'
    BY <2>1, <2>2 DEF AllKnown
  <2>4. QED BY <1>1, <1>2, <1>3, <1>7, <2>3, LoopAlone DEF TidyInv
<1>8. QED BY <1>2, <1>5, <1>6, <1>7 DEF AInv, Tidy

----------------------------------------------------------------------------
(* The steps of the loop.                                                  *)

LEMMA HeadIs ==
  ASSUME NEW S, NEW s \in Seq(S), s # <<>>
  PROVE  Head(s) \in S /\ Head(s) = s[1]
OBVIOUS

LEMMA IsSeq ==
  ASSUME NEW S, NEW n \in Nat, NEW s \in [1 .. n -> S]
  PROVE  s \in Seq(S)
OBVIOUS

\* epoll_wait reports every descriptor that is due, in whatever order.
LEMMA OrderCovers ==
  ASSUME NEW S \in SUBSET Fd, NEW order \in SetToSeqs(S)
  PROVE  /\ DOMAIN order = 1 .. Cardinality(S) /\ Cardinality(S) \in Nat
         /\ order \in [1 .. Cardinality(S) -> S]
         /\ \A f \in S : \E n \in DOMAIN order : order[n] = f
<1> DEFINE D == 1 .. Cardinality(S)
<1>1. IsFiniteSet(Fd)
  BY FS_Interval, AeAssumption
<1>2. IsFiniteSet(S) /\ Cardinality(S) \in Nat
  BY <1>1, FS_Subset, FS_CardinalityType
<1>3. order \in [D -> S] /\ \A i, j \in D : i # j => order[i] # order[j]
  BY DEF SetToSeqs
<1>4. Cardinality(D) = Cardinality(S)
  BY <1>2, FS_Interval
<1> HIDE DEF D
<1>5. order \in Injection(D, S)
  BY <1>3 DEF Injection, IsInjective
<1>6. order \in Surjection(D, S)
  BY <1>2, <1>4, <1>5, FS_Injection
<1>7. \A f \in S : \E n \in D : order[n] = f
  BY <1>6 DEF Surjection
<1>8. DOMAIN order = D
  BY <1>3
<1>9. QED BY <1>2, <1>3, <1>7, <1>8 DEF D

LEMMA PollKeeps ==
  ASSUME AInv, Poll(level), UNCHANGED <<tidy, level, seen>>
  PROVE  AInv'
<1>1. TypeOK /\ Fields /\ MaxfdCovers /\ WatchedOpen /\ AllHandled /\ k \in Kernels
  BY FieldsType DEF AInv, TypeOK, AeTypeOK
<1> DEFINE Report(f) == [fd |-> f, mask |-> FromEpoll(Reports(k, f, level[f]))]
<1>2. PICK order \in SetToSeqs(Due(level)) :
        fired' = [n \in DOMAIN order |-> Report(order[n])]
  BY DEF Poll
<1>3. pc = "top" /\ pc' = "next" /\ el' = el /\ k' = [k EXCEPT !.ready = {}]
  BY DEF Poll
<1>4. Due(level) \in SUBSET Fd
  BY <1>1 DEF Due, Fields
<1>5. /\ DOMAIN order = 1 .. Cardinality(Due(level)) /\ Cardinality(Due(level)) \in Nat
      /\ order \in [1 .. Cardinality(Due(level)) -> Due(level)]
      /\ \A f \in Due(level) : \E n \in DOMAIN order : order[n] = f
  BY <1>2, <1>4, OrderCovers
<1>6. k' \in Kernels /\ k'.open = k.open /\ k'.watched = k.watched
  BY <1>1, <1>3 DEF Kernels
<1>7. fired' \in Seq([fd : Fd, mask : Masks])
  <2>1. \A f \in Fd : Report(f) \in [fd : Fd, mask : Masks]
    BY FlagsType
  <2> HIDE DEF Report
  <2>2. \A n \in DOMAIN order : order[n] \in Fd
    BY <1>4, <1>5
  <2>3. fired' \in [1 .. Cardinality(Due(level)) -> [fd : Fd, mask : Masks]]
    BY <1>2, <1>5, <2>1, <2>2
  <2>4. QED BY <1>5, <2>3, IsSeq
<1>8. TypeOK'
  BY <1>1, <1>3, <1>6, <1>7 DEF TypeOK, AeTypeOK
<1>9. MaxfdCovers' /\ WatchedOpen' /\ AllHandled'
  BY <1>1, <1>3, <1>6, LoopAlone DEF WatchedOpen, AllHandled
<1>10. ASSUME TidyInv
       PROVE  TidyInv'
  <2>1. ASSUME NEW f \in Fd, NEW q \in el.mask[f] \cap FromEpoll(level[f])
        PROVE  Known(f, q)'
    <3>1. f \in k.ready \/ q \in seen[f]
      <4>1. Known(f, q) /\ fired = <<>>
        BY <1>1, <1>3, <1>10, <2>1 DEF TidyInv, AllKnown, AllHandled
      <4>2. QED BY <4>1 DEF Known
    <3>2. CASE f \in k.ready
      <4>1. k.watched[f] = Interest(el.mask[f])
        BY <1>10 DEF TidyInv, InterestAgrees, Interest
      <4>2. /\ k.watched[f] # {} /\ (k.watched[f] \cup {"err"}) \cap level[f] # {}
            /\ q \in FromEpoll((k.watched[f] \cup {"err"}) \cap level[f])
        BY <1>1, <2>1, <4>1, InterestReports DEF Fields
      <4>3. f \in Due(level) /\ q \in FromEpoll(Reports(k, f, level[f]))
        BY <3>2, <4>2 DEF Due, Reports
      <4>4. PICK n \in DOMAIN order : order[n] = f
        BY <1>5, <4>3
      <4>5. n \in DOMAIN fired' /\ fired'[n] = Report(f)
        BY <1>2, <4>4
      <4>6. Reported(f, q, n)'
        BY <1>3, <4>3, <4>5 DEF Reported
      <4>7. QED BY <4>5, <4>6 DEF Known
    <3>3. QED BY <3>1, <3>2 DEF Known
  <2>2. AllKnown'
    BY <1>3, <2>1 DEF AllKnown
  <2>3. QED BY <1>1, <1>3, <1>6, <1>10, <2>2, LoopAlone DEF TidyInv
<1>11. QED BY <1>8, <1>9, <1>10 DEF AInv, Tidy

\* Going around, or back from epoll_wait with nothing.
LEMMA AroundKeeps ==
  ASSUME AInv, PollEmpty(level) \/ Around(FALSE), UNCHANGED <<tidy, level, seen>>
  PROVE  AInv'
<1>1. TypeOK /\ MaxfdCovers /\ WatchedOpen /\ AllHandled
  BY DEF AInv
<1>2. fired = <<>> /\ fired' = fired /\ pc' \in {"top", "next"} /\ el' = el /\ k' = k
  BY <1>1 DEF PollEmpty, Around, AllHandled
<1>3. TypeOK' /\ MaxfdCovers' /\ WatchedOpen' /\ AllHandled'
  BY <1>1, <1>2, LoopAlone DEF TypeOK, AeTypeOK, WatchedOpen, AllHandled
<1>4. ASSUME TidyInv
      PROVE  TidyInv'
  <2>1. \A g \in Fd : \A q : Known(g, q) => Known(g, q)'
    BY <1>2 DEF Known, Reported
  <2>2. AllKnown'
    BY <1>2, <1>4, <2>1 DEF TidyInv, AllKnown
  <2>3. QED BY <1>1, <1>2, <1>4, <2>2, LoopAlone DEF TidyInv
<1>5. QED BY <1>3, <1>4 DEF AInv, Tidy

LEMMA NowType ==
  ASSUME TypeOK, fired # <<>>
  PROVE  Now \in [fd : Fd, mask : Masks] /\ Now = fired[1]
<1>1. fired \in Seq([fd : Fd, mask : Masks])
  BY DEF TypeOK, AeTypeOK
<1>2. QED BY <1>1, HeadIs DEF Now

\* A handler is called: it is the handler of the one event that is registered.
LEMMA CallKeeps ==
  ASSUME AInv, NEW m \in Masks, NEW q \in m, fired # <<>>, Wants(q),
         pc' \in {"inR", "inW"}, Called(m), UNCHANGED <<el, k, fired, tidy, level>>
  PROVE  AInv'
<1>1. TypeOK /\ Fields /\ MaxfdCovers /\ WatchedOpen /\ AllHandled
  BY FieldsType DEF AInv
<1>2. Now.fd \in Fd /\ Now = fired[1]
  BY <1>1, NowType
<1>3. seen' = [seen EXCEPT ![Now.fd] = @ \cup m] /\ seen' \in [Fd -> Masks]
  BY <1>1, <1>2 DEF Called, Fields, Masks
<1>4. TypeOK'
  BY <1>1, <1>3 DEF TypeOK, AeTypeOK
<1>5. MaxfdCovers' /\ WatchedOpen' /\ AllHandled'
  BY <1>1, LoopAlone DEF WatchedOpen, AllHandled
<1>6. ASSUME TidyInv
      PROVE  TidyInv'
  <2>1. el.mask[Now.fd] = {q}
    BY <1>2, <1>6 DEF TidyInv, OneKind, Wants
  <2>2. ASSUME NEW g \in Fd, NEW r \in el.mask[g] \cap FromEpoll(level[g])
        PROVE  Known(g, r)'
    <3>1. CASE g = Now.fd
      <4>1. r \in seen'[g]
        BY <1>1, <1>2, <1>3, <2>1, <2>2, <3>1 DEF Fields
      <4>2. QED BY <4>1 DEF Known
    <3>2. CASE g # Now.fd
      <4>1. Known(g, r) /\ seen'[g] = seen[g]
        BY <1>1, <1>2, <1>3, <1>6, <2>2, <3>2 DEF TidyInv, AllKnown, Fields
      <4>2. \A n \in DOMAIN fired : Reported(g, r, n) => Reported(g, r, n)'
        BY <1>2, <3>2 DEF Reported
      <4>3. QED BY <4>1, <4>2 DEF Known
    <3>3. QED BY <3>1, <3>2
  <2>3. AllKnown'
    BY <2>2 DEF AllKnown
  <2>4. QED BY <1>1, <1>6, <2>3, LoopAlone DEF TidyInv
<1>7. QED BY <1>4, <1>5, <1>6 DEF AInv, Tidy

\* An event is done with: its handlers ran, or nobody wants it.
LEMMA HandledKeeps ==
  ASSUME AInv, Handled, UNCHANGED <<tidy, level, seen>>
  PROVE  AInv'
<1>1. TypeOK /\ Fields /\ MaxfdCovers /\ WatchedOpen /\ AllHandled
  BY FieldsType DEF AInv
<1>2. /\ fired # <<>> /\ fired' = Tail(fired) /\ pc' = "next" /\ el' = el /\ k' = k
      /\ pc = "next" => ~Wants(AE_READABLE) /\ ~Wants(AE_WRITABLE)
  BY DEF Handled
<1>3. /\ fired' \in Seq([fd : Fd, mask : Masks]) /\ Len(fired) \in Nat \ {0}
      /\ DOMAIN fired = 1 .. Len(fired) /\ DOMAIN fired' = 1 .. Len(fired) - 1
      /\ \A n \in 1 .. Len(fired) - 1 : fired'[n] = fired[n + 1]
  BY <1>1, <1>2 DEF TypeOK, AeTypeOK
<1>4. TypeOK'
  BY <1>1, <1>2, <1>3 DEF TypeOK, AeTypeOK
<1>5. MaxfdCovers' /\ WatchedOpen' /\ AllHandled'
  BY <1>1, <1>2, LoopAlone DEF WatchedOpen, AllHandled
<1>6. ASSUME TidyInv
      PROVE  TidyInv'
  <2>1. ASSUME NEW g \in Fd, NEW q \in el.mask[g] \cap FromEpoll(level[g])
        PROVE  Known(g, q)'
    <3>1. Known(g, q)
      BY <1>6, <2>1 DEF TidyInv, AllKnown
    <3>2. ASSUME NEW n \in DOMAIN fired, Reported(g, q, n)
          PROVE  Known(g, q)'
      <4>1. n # 1
        <5>1. SUFFICES ASSUME n = 1 PROVE FALSE
          OBVIOUS
        <5>2. pc = "next" /\ Now.fd = g /\ q \in Now.mask
          BY <1>1, <1>2, <3>2, <5>1, NowType DEF Reported
        <5>3. q = AE_READABLE \/ q = AE_WRITABLE
          BY <1>1, <2>1 DEF Fields, Masks
        <5>4. QED BY <1>2, <2>1, <5>2, <5>3 DEF Wants
      <4>2. n - 1 \in DOMAIN fired' /\ fired'[n - 1] = fired[n]
        BY <1>3, <3>2, <4>1
      <4>3. Reported(g, q, n - 1)'
        BY <1>2, <3>2, <4>2 DEF Reported
      <4>4. QED BY <4>2, <4>3 DEF Known
    <3>3. QED BY <1>2, <3>1, <3>2 DEF Known
  <2>2. AllKnown'
    BY <1>2, <2>1 DEF AllKnown
  <2>3. QED BY <1>1, <1>2, <1>6, <2>2, LoopAlone DEF TidyInv
<1>7. QED BY <1>4, <1>5, <1>6 DEF AInv, Tidy

\* Every step of the loop and of the program keeps the invariant.
THEOREM StepKeeps == AInv /\ [Next]_vars => AInv'
<1>1. SUFFICES ASSUME AInv, [Next]_vars PROVE AInv'
  OBVIOUS
<1>2. CASE UNCHANGED vars
  BY <1>1, <1>2, SameKeeps
<1>3. ASSUME Loop, UNCHANGED <<tidy, level>>
      PROVE  AInv'
  <2>1. CASE Poll(level) /\ UNCHANGED seen
    BY <1>1, <1>3, <2>1, PollKeeps
  <2>2. CASE (PollEmpty(level) \/ Around(FALSE)) /\ UNCHANGED seen
    BY <1>1, <1>3, <2>2, AroundKeeps
  <2>3. CASE Handled /\ UNCHANGED seen
    BY <1>1, <1>3, <2>3, HandledKeeps
  <2>4. ASSUME CallRead, Called({AE_READABLE} \cup
                 (IF el.rproc[Now.fd] = el.wproc[Now.fd] THEN Now.mask ELSE {}))
        PROVE  AInv'
    <3> DEFINE m == {AE_READABLE} \cup
                    (IF el.rproc[Now.fd] = el.wproc[Now.fd] THEN Now.mask ELSE {})
    <3>1. fired # <<>> /\ Wants(AE_READABLE) /\ pc' = "inR" /\ UNCHANGED <<el, k, fired>>
      BY <2>4 DEF CallRead
    <3>2. m \in Masks /\ AE_READABLE \in m
      BY <1>1, <3>1, NowType DEF AInv, Masks
    <3> HIDE DEF m
    <3>3. Called(m)
      BY <2>4 DEF m
    <3>4. QED BY <1>1, <1>3, <3>1, <3>2, <3>3, CallKeeps
  <2>5. ASSUME CallWrite, Called({AE_WRITABLE})
        PROVE  AInv'
    <3>1. fired # <<>> /\ Wants(AE_WRITABLE) /\ pc' = "inW" /\ UNCHANGED <<el, k, fired>>
      BY <2>5 DEF CallWrite
    <3>2. {AE_WRITABLE} \in Masks /\ AE_WRITABLE \in {AE_WRITABLE}
      BY DEF Masks
    <3>3. QED BY <1>1, <1>3, <2>5, <3>1, <3>2, CallKeeps
  <2>6. QED BY <1>3, <2>1, <2>2, <2>3, <2>4, <2>5 DEF Loop
<1>4. QED
  BY <1>1, <1>2, <1>3, RegisterKeeps, UnregisterKeeps, OpenFdKeeps, CloseFdKeeps, UseKeeps,
     ArriveKeeps, ResizeSetKeeps, StartKeeps DEF Next

\* Whatever a program registers, closes or resizes, and in whatever order
\* events arrive, the loop's state has its types.
THEOREM TypeCorrect == Spec => []TypeOK
<1>1. AInv => TypeOK
  BY DEF AInv
<1>2. QED BY InitKeeps, StepKeeps, <1>1, PTL DEF Spec

\* Whatever a program does, nothing is registered above maxfd; one that
\* unregisters before it closes, registers one kind of event at a time and
\* does not resize finds events[], the kernel and maxfd in agreement.
THEOREM AgreementCorrect == Spec => []Agreement
<1>1. AInv => Agreement
  BY DEF AInv, Agreement, Tidy, TidyInv
<1>2. QED BY InitKeeps, StepKeeps, <1>1, PTL DEF Spec

\* No edge is lost on such a program: what is registered and true of a
\* descriptor is with the kernel, in fired, or its handler has run since.
THEOREM NoMissedEdgeCorrect == Spec => []NoMissedEdge
<1>1. AInv => NoMissedEdge
  <2>1. SUFFICES ASSUME AInv, tidy, NEW f \in Fd, NEW m \in el.mask[f] \cap FromEpoll(level[f])
                 PROVE  \/ f \in k.ready
                        \/ m \in seen[f]
                        \/ \E n \in DOMAIN fired : fired[n].fd = f /\ m \in fired[n].mask
    BY DEF NoMissedEdge, Tidy
  <2>2. Known(f, m)
    BY <2>1 DEF AInv, Tidy, TidyInv, AllKnown
  <2>3. QED BY <2>2 DEF Known, Reported
<1>2. QED BY InitKeeps, StepKeeps, <1>1, PTL DEF Spec
=============================================================================
