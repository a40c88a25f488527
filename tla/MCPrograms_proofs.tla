-------------------------- MODULE MCPrograms_proofs --------------------------
(* Theorems of the programs in MCPrograms. *)
EXTENDS MCPrograms, FiniteSetTheorems, NaturalsInduction, WellFoundedInduction, TLAPS

----------------------------------------------------------------------------
(* Numbers.                                                                 *)

LEMMA LeastNumber ==
  ASSUME NEW S, S \subseteq Nat, S # {}
  PROVE  \E x \in S : \A y \in S : x <= y
<1> DEFINE R == OpToRel(<, Nat)
<1>1. IsWellFoundedOn(R, Nat)
  BY NatLessThanWellFounded
<1>2. \A x, y \in Nat : x < y => <<x, y>> \in R
  BY DEF OpToRel
<1> HIDE DEF R
<1>3. PICK x \in S : \A y \in S : <<y, x>> \notin R
  BY <1>1, WFMin
<1>4. ASSUME NEW y \in S
      PROVE  x <= y
  <2>1. ~(y < x)
    BY <1>2, <1>3, <1>4
  <2>2. x \in Nat /\ y \in Nat
    BY <1>3, <1>4
  <2>3. QED BY <2>1, <2>2
<1>5. QED BY <1>3, <1>4

\* A set of integers below a bound that has members has a greatest one.
LEMMA GreatestNumber ==
  ASSUME NEW S, NEW b \in Int, S \subseteq Int, S # {}, \A x \in S : x <= b
  PROVE  \E x \in S : \A y \in S : y <= x
<1> DEFINE T == {b - x : x \in S}
<1>1. T \subseteq Nat /\ T # {}
  <2>1. ASSUME NEW x \in S
        PROVE  b - x \in Nat
    <3>1. x \in Int /\ x <= b
      BY <2>1
    <3>2. QED BY <3>1
  <2>2. QED BY <2>1
<1> HIDE DEF T
<1>2. PICK t0 \in T : \A u \in T : t0 <= u
  BY <1>1, LeastNumber
<1>3. PICK x \in S : t0 = b - x
  BY <1>2 DEF T
<1>4. ASSUME NEW y \in S
      PROVE  y <= x
  <2>1. b - x <= b - y
    BY <1>2, <1>3, <1>4 DEF T
  <2>2. x \in Int /\ y \in Int
    BY <1>3, <1>4
  <2>3. QED BY <2>1, <2>2
<1>5. QED BY <1>3, <1>4

\* A number up to m that is not m is less.
LEMMA BelowLast ==
  ASSUME NEW m \in Nat, NEW n \in 1 .. m, n # m
  PROVE  n \in Nat /\ n < m
OBVIOUS

\* What two lists make when one is put behind the other.
LEMMA JoinedIs ==
  ASSUME NEW T, NEW u \in Seq(T), NEW v \in Seq(T)
  PROVE  u \o v \in Seq(T) /\ Len(u \o v) = Len(u) + Len(v)
OBVIOUS

----------------------------------------------------------------------------
(* Log files that roll over by size.                                        *)

\* The backups, by number, and those that are there.
Numbers == 1 .. max
There(k) == file[k] # Size!Absent
Lo(k) == file[k][1]
Hi(k) == file[k][Len(file[k])]
Length(k) == Len(file[k])

\* The first record of the current file, or the next one that is written.
Base == IF There(0) THEN written + 1 - Length(0) ELSE written + 1

SizeTypes ==
  /\ max \in Nat \ {0} /\ append \in BOOLEAN
  /\ file \in [0 .. max -> Seq(Nat)]
  /\ sizeFd \in BOOLEAN /\ rolling \in {"start", "log", "size", "shift", "reopen"}
  /\ written \in Nat /\ crashes \in Nat /\ failures \in Nat
  /\ rolling = "shift" => shift \in Numbers

\* Each file is a run of records, and the current one the last run.
RunFrom(s, first) == \A p \in 1 .. Len(s) : s[p] = first + p - 1
Runs ==
  /\ \A k \in Numbers : There(k) => /\ Len(file[k]) > 0 /\ Lo(k) >= 1
                                    /\ RunFrom(file[k], Lo(k)) /\ Hi(k) < Base
  /\ There(0) => Base >= 1 /\ RunFrom(file[0], Base)
  /\ \A j, k \in Numbers : There(j) /\ There(k) /\ j < k => Hi(k) < Lo(j)

\* From the first record of a file on there is every one.
InBackup(r) == \E k \in Numbers : There(k) /\ Lo(k) <= r /\ r <= Hi(k)
NoGap == \A k \in Numbers : There(k) => \A r \in Lo(k) .. Base - 1 : InBackup(r)

\* Every backup is as long as it should be, so that a file with n - 1 others
\* after it begins n times that before the current one.
Newer(k) == {j \in 1 .. k : There(j)}
Filled == \A k \in Numbers : There(k) => Lo(k) + MaxSize * Cardinality(Newer(k)) <= Base

\* Backups that are missing below one that is there, but for the one that the
\* roll over has made room in: a crash makes one such, and so does nothing else.
Room == IF rolling = "shift" THEN {shift} ELSE {}
Missing == {k \in Numbers : ~There(k)} \ Room
Holes == {k \in Missing : \E m \in Numbers : k < m /\ There(m)}
Lost == \E r \in 1 .. Base - 1 : ~InBackup(r)
FewHoles ==
  /\ Cardinality(Holes) <= crashes
  /\ Lost => Cardinality(Missing) <= crashes

\* Where the roll over is, and how long the current file may be.
Cap == MaxSize + crashes + failures
Rolling ==
  /\ rolling = "shift" => There(0) /\ Length(0) >= MaxSize
  /\ sizeFd => There(0)
  /\ rolling \in {"start", "shift", "reopen"} => ~sizeFd
  /\ rolling \in {"start", "reopen"} /\ There(0) => Length(0) < Cap
  /\ rolling = "log" /\ sizeFd => Length(0) < Cap
  /\ \A k \in 0 .. max : Length(k) <= Cap

\* A file's worth of the newest records: it is in the current file or in the
\* one before, whatever fails.
Recent ==
  \/ Base = 1
  \/ There(0) /\ Length(0) >= MaxSize
  \/ There(1) /\ Hi(1) = Base - 1 /\ Lo(1) + MaxSize <= Base

\* The roll over has made room, if nothing fails.
Made == rolling = "shift" => ~There(shift)
Whole == NoGap /\ Filled /\ FewHoles /\ Made

SizeInv ==
  /\ SizeTypes
  /\ append => Runs /\ Rolling /\ Recent
  /\ append /\ failures = 0 => Whole

\* Where a file begins and ends, and what it has in between.
LEMMA FileParts ==
  ASSUME SizeTypes, NEW n \in 0 .. max
  PROVE  /\ file[n] \in Seq(Nat) /\ Length(n) \in Nat
         /\ \A p \in 1 .. Length(n) : file[n][p] \in Nat
<1>1. file[n] \in Seq(Nat)
  BY DEF SizeTypes
<1>2. \A s \in Seq(Nat) : Len(s) \in Nat /\ \A p \in 1 .. Len(s) : s[p] \in Nat
  OBVIOUS
<1>3. QED BY <1>1, <1>2 DEF Length

LEMMA BaseIs ==
  ASSUME SizeTypes
  PROVE  /\ Base \in Int /\ Base <= written + 1
         /\ There(0) => Base = written + 1 - Length(0)
         /\ ~There(0) => Base = written + 1
<1>1. written \in Nat /\ 0 \in 0 .. max
  BY DEF SizeTypes
<1>2. Length(0) \in Nat
  BY <1>1, FileParts
<1>3. QED BY <1>1, <1>2 DEF Base

LEMMA CapIs ==
  ASSUME SizeTypes
  PROVE  Cap \in Nat /\ 1 <= Cap /\ MaxSize <= Cap /\ MaxSize \in Nat \ {0}
BY LogsAssumption DEF SizeTypes, Cap

LEMMA NumbersFinite ==
  ASSUME SizeTypes
  PROVE  /\ \A S : S \subseteq Numbers => IsFiniteSet(S) /\ Cardinality(S) \in Nat
         /\ Cardinality(Numbers) = max
<1>1. max \in Nat
  BY DEF SizeTypes
<1>2. IsFiniteSet(Numbers) /\ Cardinality(Numbers) = max
  BY <1>1, FS_Interval DEF Numbers
<1>3. ASSUME NEW S, S \subseteq Numbers
      PROVE  IsFiniteSet(S) /\ Cardinality(S) \in Nat
  BY <1>2, <1>3, FS_Subset, FS_CardinalityType
<1>4. QED BY <1>2, <1>3

\* One thing for another leaves as many.
LEMMA Swapped ==
  ASSUME NEW S, IsFiniteSet(S), NEW a \in S, NEW b, b \notin S \ {a}
  PROVE  Cardinality((S \ {a}) \cup {b}) = Cardinality(S)
<1>1. IsFiniteSet(S \ {a}) /\ Cardinality(S \ {a}) = Cardinality(S) - 1
  BY FS_RemoveElement
<1>2. Cardinality((S \ {a}) \cup {b}) = Cardinality(S \ {a}) + 1
  BY <1>1, FS_AddElement
<1>3. Cardinality(S) \in Nat
  BY FS_CardinalityType
<1>4. QED BY <1>1, <1>2, <1>3

----------------------------------------------------------------------------
(* Each step keeps it.                                                      *)

LEMMA SizeInit == Size!Init => SizeInv
<1> SUFFICES ASSUME Size!Init PROVE SizeInv
  OBVIOUS
<1>1. max \in Nat \ {0}
  BY LogsAssumption DEF Size!Init
<1>2. file = [n \in 0 .. max |-> Size!Absent]
  BY DEF Size!Init
<1>3. Size!Absent \in Seq(Nat) /\ Len(Size!Absent) = 1
  BY DEF Size!Absent
<1>4. SizeTypes
  BY <1>1, <1>2, <1>3 DEF Size!Init, SizeTypes
<1>5. \A n \in 0 .. max : ~There(n) /\ Length(n) = 1
  BY <1>2, <1>3 DEF There, Length
<1>6. Base = 1
  BY <1>1, <1>4, <1>5, BaseIs DEF Size!Init
<1>7. Runs /\ NoGap /\ Filled /\ Made /\ Recent
  BY <1>1, <1>5, <1>6 DEF Runs, NoGap, Filled, Numbers, Made, Recent, Size!Init
<1>8. FewHoles
  <2>1. Holes = {}
    BY <1>1, <1>5 DEF Holes, Numbers
  <2>2. ~Lost
    BY <1>6 DEF Lost
  <2>3. QED BY <2>1, <2>2, FS_EmptySet DEF FewHoles, Size!Init
<1>9. Rolling
  BY <1>1, <1>4, <1>5, CapIs DEF Size!Init, Rolling, There
<1>10. QED BY <1>4, <1>7, <1>8, <1>9 DEF SizeInv, Whole

\* A step that leaves the backups alone, and the record that comes after them.
LEMMA RunsSame ==
  ASSUME SizeInv, append, max' = max, Base' = Base, \A n \in Numbers : file'[n] = file[n],
         (There(0) => Base >= 1 /\ RunFrom(file[0], Base))'
  PROVE  Runs' /\ (failures = 0 => (NoGap /\ Filled)') /\ (Lost' <=> Lost)
<1>1. Numbers' = Numbers
  BY DEF Numbers
<1>2. \A n \in Numbers : There(n)' = There(n) /\ Lo(n)' = Lo(n) /\ Hi(n)' = Hi(n)
  BY DEF There, Lo, Hi
<1>3. Runs'
  BY <1>1, <1>2 DEF SizeInv, Runs, RunFrom
<1>4. \A r : InBackup(r)' = InBackup(r)
  BY <1>1, <1>2 DEF InBackup
<1>5. failures = 0 => NoGap'
  BY <1>1, <1>2, <1>4 DEF SizeInv, Whole, NoGap
<1>6. \A n \in Numbers : Newer(n)' = Newer(n)
  <2>1. SUFFICES ASSUME NEW n \in Numbers PROVE Newer(n)' = Newer(n)
    OBVIOUS
  <2>2. \A j \in 1 .. n : file'[j] = file[j]
    BY DEF Numbers, SizeInv, SizeTypes
  <2>3. QED BY <2>2 DEF Newer, There
<1>7. failures = 0 => Filled'
  BY <1>1, <1>2, <1>6 DEF SizeInv, Whole, Filled
<1>8. Lost' <=> Lost
  BY <1>4 DEF Lost
<1>9. QED BY <1>3, <1>5, <1>7, <1>8

LEMMA BackupsSame ==
  ASSUME SizeInv, append, max' = max, Base' = Base, \A n \in Numbers : file'[n] = file[n],
         (There(0) => Base >= 1 /\ RunFrom(file[0], Base))',
         crashes' = crashes, Room' = Room
  PROVE  Runs' /\ (failures = 0 => (NoGap /\ Filled /\ FewHoles)')
<1>1. Numbers' = Numbers /\ \A n \in Numbers : There(n)' = There(n)
  BY DEF Numbers, There
<1>2. Missing' = Missing
  BY <1>1 DEF Missing
<1>3. Holes' = Holes
  BY <1>1, <1>2 DEF Holes
<1>4. Runs' /\ (failures = 0 => (NoGap /\ Filled)') /\ (Lost' <=> Lost)
  BY RunsSame
<1>5. failures = 0 => FewHoles'
  BY <1>2, <1>3, <1>4 DEF SizeInv, Whole, FewHoles
<1>6. QED BY <1>4, <1>5

LEMMA RecentSame ==
  ASSUME Recent, Base' = Base, file'[1] = file[1],
         There(0) /\ Length(0) >= MaxSize => (There(0) /\ Length(0) >= MaxSize)'
  PROVE  Recent'
BY DEF Recent, There, Lo, Hi

\* What is refused leaves the files alone and is counted.
LEMMA FailKeeps ==
  ASSUME SizeInv, failures' = failures + 1, max' = max, append' = append, crashes' = crashes,
         written' = written, file' = file, sizeFd' = FALSE,
         rolling' \in {"shift", "reopen"}, rolling' = "shift" => shift' \in Numbers,
         append => There(0) /\ Length(0) >= MaxSize
  PROVE  SizeInv'
<1>1. SizeTypes /\ failures' \in Nat /\ failures' # 0 /\ 0 \in 0 .. max
  BY DEF SizeInv, SizeTypes
<1>2. Numbers' = Numbers
  BY DEF Numbers
<1>3. SizeTypes'
  <2>1. max' \in Nat \ {0} /\ append' \in BOOLEAN /\ file' \in [0 .. max' -> Seq(Nat)]
    BY <1>1 DEF SizeTypes
  <2>2. written' \in Nat /\ crashes' \in Nat /\ sizeFd' \in BOOLEAN
    BY <1>1 DEF SizeTypes
  <2>3. QED BY <1>1, <1>2, <2>1, <2>2 DEF SizeTypes
<1>4. ASSUME append
      PROVE  (Runs /\ Rolling /\ Recent)'
  <2>1. Runs /\ Rolling /\ Recent
    BY <1>4 DEF SizeInv
  <2>2. /\ \A n : There(n)' = There(n) /\ Length(n)' = Length(n) /\ file'[n] = file[n]
        /\ Base' = Base /\ RunFrom(file[0], Base)' = RunFrom(file[0], Base)
    BY DEF There, Length, Base, RunFrom
  <2>3. Runs' /\ Recent'
    BY <1>4, <2>1, <2>2, RunsSame, RecentSame DEF Runs
  <2>4. Cap' = Cap + 1 /\ Cap \in Nat
    BY <1>1, CapIs DEF Cap, SizeTypes
  <2>5. \A n \in 0 .. max : Length(n) \in Nat /\ Length(n) <= Cap
    BY <1>1, <2>1, FileParts DEF Rolling
  <2>6. Length(0) < Cap' /\ \A n \in 0 .. max : Length(n) <= Cap'
    BY <1>1, <2>4, <2>5
  <2>7. Rolling'
    BY <1>4, <2>2, <2>6 DEF Rolling
  <2>8. QED BY <2>3, <2>7
<1>5. QED BY <1>1, <1>3, <1>4 DEF SizeInv

LEMMA OpenKeeps ==
  ASSUME SizeInv, Size!Open
  PROVE  SizeInv'
<1>1. /\ SizeTypes /\ max' = max /\ append' = append /\ written' = written /\ crashes' = crashes
      /\ failures' = failures /\ Cap' = Cap /\ Cap \in Nat /\ 1 <= Cap
  BY CapIs DEF SizeInv, Size!Open, Cap
<1>2. 0 \in 0 .. max /\ file[0] \in Seq(Nat) /\ <<>> \in Seq(Nat)
  BY <1>1, FileParts DEF SizeTypes
<1>3. Size!Opened \in [0 .. max -> Seq(Nat)]
  BY <1>1, <1>2 DEF Size!Opened, SizeTypes
<1>4. file' \in [0 .. max -> Seq(Nat)]
  BY <1>1, <1>3 DEF Size!Open, SizeTypes
<1>5. SizeTypes'
  BY <1>1, <1>4 DEF SizeTypes, Size!Open
<1>6. ASSUME append
      PROVE  (Runs /\ Rolling /\ Recent)' /\ (failures = 0 => Whole')
  <2>1. Runs /\ Rolling /\ Recent
    BY <1>6 DEF SizeInv
  <2>2. 1 \in Numbers /\ \A n \in Numbers : file'[n] = file[n]
    BY <1>1 DEF Size!Open, Size!Opened, Numbers, SizeTypes
  <2>3. rolling \in {"start", "reopen"} /\ rolling' = "log" /\ Room' = Room
    BY DEF Size!Open, Room
  <2>4. CASE file' = file
    <3>1. /\ \A n : There(n)' = There(n) /\ Length(n)' = Length(n)
          /\ Base' = Base /\ RunFrom(file[0], Base)' = RunFrom(file[0], Base)
      BY <1>1, <2>4 DEF There, Length, Base, RunFrom
    <3>2. Runs' /\ (failures = 0 => (NoGap /\ Filled /\ FewHoles)')
      BY <1>1, <1>6, <2>1, <2>2, <2>3, <3>1, BackupsSame DEF Runs
    <3>3. sizeFd' = FALSE \/ (There(0) /\ Length(0) < Cap)
      <4>1. sizeFd' = FALSE \/ file' = Size!Opened
        BY DEF Size!Open
      <4>2. file' = Size!Opened => There(0)
        BY <1>1, <1>2, <1>6, <2>4 DEF Size!Opened, There, Size!Absent, SizeTypes
      <4>3. There(0) => Length(0) < Cap
        BY <2>1, <2>3 DEF Rolling
      <4>4. QED BY <4>1, <4>2, <4>3
    <3>4. Rolling'
      BY <1>1, <2>1, <2>3, <2>4, <3>1, <3>3 DEF Rolling
    <3>5. Recent' /\ Made'
      BY <2>1, <2>2, <2>3, <3>1, RecentSame DEF Made
    <3>6. QED BY <3>2, <3>4, <3>5 DEF Whole
  <2>5. CASE file' # file
    <3>1. file' = Size!Opened
      BY <2>5 DEF Size!Open
    <3>2. ~There(0) /\ file'[0] = <<>>
      BY <1>1, <1>2, <1>6, <2>5, <3>1 DEF Size!Opened, There, SizeTypes
    <3>3. There(0)' /\ Length(0)' = 0
      BY <3>2 DEF There, Length, Size!Absent
    <3>4. Base' = written + 1 /\ Base = written + 1
      BY <1>1, <3>2, <3>3 DEF Base, SizeTypes
    <3>5. (Base >= 1 /\ RunFrom(file[0], Base))'
      BY <1>1, <3>2, <3>4 DEF RunFrom, SizeTypes
    <3>6. Runs' /\ (failures = 0 => (NoGap /\ Filled /\ FewHoles)')
      BY <1>1, <1>6, <2>1, <2>2, <2>3, <3>4, <3>5, BackupsSame
    <3>7. 0 < Cap
      BY <1>1
    <3>8. \A n \in 0 .. max : Length(n)' <= Cap
      <4>1. 0 <= Cap
        BY <1>1
      <4>2. \A n \in Numbers : Length(n)' = Length(n)
        BY <2>2 DEF Length
      <4>3. \A n \in 0 .. max : n = 0 \/ n \in Numbers
        BY <1>1 DEF Numbers, SizeTypes
      <4>4. QED BY <2>1, <3>3, <4>1, <4>2, <4>3 DEF Rolling
    <3>9. Rolling'
      BY <1>1, <2>3, <3>3, <3>7, <3>8 DEF Rolling
    <3>10. Recent' /\ Made'
      BY <2>1, <2>2, <2>3, <3>2, <3>4, RecentSame DEF Made
    <3>11. QED BY <3>6, <3>9, <3>10 DEF Whole
  <2>6. QED BY <2>4, <2>5
<1>7. QED BY <1>1, <1>5, <1>6 DEF SizeInv

LEMMA Appended ==
  ASSUME NEW s \in Seq(Nat), NEW x \in Nat
  PROVE  /\ Append(s, x) \in Seq(Nat) /\ Len(Append(s, x)) = Len(s) + 1 /\ Len(s) \in Nat
         /\ Append(s, x)[Len(s) + 1] = x
         /\ \A p \in 1 .. Len(s) : Append(s, x)[p] = s[p]
OBVIOUS

LEMMA LogKeeps ==
  ASSUME SizeInv, Size!Log
  PROVE  SizeInv'
<1>1. /\ SizeTypes /\ max' = max /\ append' = append /\ crashes' = crashes /\ sizeFd' = sizeFd
      /\ rolling = "log" /\ rolling' = "size" /\ Room' = Room
      /\ failures' = failures /\ Cap' = Cap /\ Cap \in Nat /\ Made'
  BY CapIs DEF SizeInv, Size!Log, Room, Cap, Made
<1>2. 0 \in 0 .. max /\ file[0] \in Seq(Nat) /\ Length(0) \in Nat /\ written + 1 \in Nat
  BY <1>1, FileParts DEF SizeTypes
<1>3. CASE written' = written /\ file' = file
  <2>1. SizeTypes'
    BY <1>1, <1>3 DEF SizeTypes
  <2>2. ASSUME append
        PROVE  (Runs /\ Rolling /\ Recent)' /\ (failures = 0 => Whole')
    <3>1. Runs /\ Rolling /\ Recent
      BY <2>2 DEF SizeInv
    <3>2. /\ \A n : There(n)' = There(n) /\ Length(n)' = Length(n) /\ file'[n] = file[n]
          /\ Base' = Base /\ RunFrom(file[0], Base)' = RunFrom(file[0], Base)
      BY <1>3 DEF There, Length, Base, RunFrom
    <3>3. Runs' /\ (failures = 0 => (NoGap /\ Filled /\ FewHoles)')
      BY <1>1, <2>2, <3>1, <3>2, BackupsSame DEF Runs
    <3>4. Rolling' /\ Recent'
      BY <1>1, <3>1, <3>2, RecentSame DEF Rolling
    <3>5. QED BY <1>1, <3>3, <3>4 DEF Whole
  <2>3. QED BY <1>1, <2>1, <2>2 DEF SizeInv
<1>4. CASE /\ sizeFd /\ written' = written + 1
           /\ file' = [file EXCEPT ![0] = Append(@, written + 1)]
  <2>1. /\ file'[0] \in Seq(Nat) /\ Length(0)' = Length(0) + 1
        /\ file'[0][Length(0) + 1] = written + 1
        /\ \A p \in 1 .. Length(0) : file'[0][p] = file[0][p]
    BY <1>1, <1>2, <1>4, Appended DEF SizeTypes, Length
  <2>2. \A n \in Numbers : file'[n] = file[n]
    BY <1>1, <1>4 DEF SizeTypes, Numbers
  <2>3. file' \in [0 .. max -> Seq(Nat)]
    BY <1>1, <1>4, <2>1 DEF SizeTypes
  <2>4. SizeTypes'
    BY <1>1, <1>2, <1>4, <2>3 DEF SizeTypes
  <2>5. There(0)'
    <3>1. file'[0] # <<0>>
      <4>1. <<0>>[1] = 0 /\ Len(<<0>>) = 1
        OBVIOUS
      <4>2. file'[0] = <<0>> => Length(0) = 0 /\ written + 1 = 0
        BY <1>2, <2>1, <4>1 DEF Length
      <4>3. QED BY <1>1, <4>2 DEF SizeTypes
    <3>2. QED BY <3>1 DEF There, Size!Absent
  <2>6. ASSUME append
        PROVE  (Runs /\ Rolling /\ Recent)' /\ (failures = 0 => Whole')
    <3>1. Runs /\ Rolling /\ Recent
      BY <2>6 DEF SizeInv
    <3>2. There(0) /\ Length(0) < Cap
      BY <1>1, <1>4, <3>1 DEF Rolling
    <3>3. Base = written + 1 - Length(0)
      BY <3>2 DEF Base
    <3>4. Base' = (written + 1) + 1 - (Length(0) + 1)
      <4>1. Base' = written' + 1 - Length(0)'
        BY <2>5 DEF Base
      <4>2. QED BY <1>4, <2>1, <4>1
    <3>5. Base' = Base
      BY <1>1, <1>2, <3>3, <3>4 DEF SizeTypes
    <3>6. Base >= 1 /\ \A p \in 1 .. Length(0) : file[0][p] = Base + p - 1
      BY <3>1, <3>2 DEF Runs, RunFrom, Length
    <3>7. RunFrom(file[0], Base)'
      <4>1. SUFFICES ASSUME NEW p \in 1 .. Length(0) + 1
                     PROVE  file'[0][p] = Base + p - 1
        BY <2>1, <3>5 DEF RunFrom, Length
      <4>2. CASE p = Length(0) + 1
        BY <1>1, <1>2, <2>1, <3>3, <4>2 DEF SizeTypes
      <4>3. CASE p # Length(0) + 1
        <5>1. p \in 1 .. Length(0)
          BY <1>2, <4>3
        <5>2. QED BY <2>1, <3>6, <5>1
      <4>4. QED BY <4>2, <4>3
    <3>8. Runs' /\ (failures = 0 => (NoGap /\ Filled /\ FewHoles)')
      BY <1>1, <2>2, <2>6, <3>5, <3>6, <3>7, BackupsSame
    <3>9. \A n \in 0 .. max : Length(n)' <= Cap
      <4>1. Length(0)' <= Cap
        BY <1>1, <1>2, <2>1, <3>2
      <4>2. \A n \in Numbers : Length(n)' = Length(n)
        BY <2>2 DEF Length
      <4>3. \A n \in 0 .. max : n = 0 \/ n \in Numbers
        BY <1>1 DEF Numbers, SizeTypes
      <4>4. QED BY <3>1, <4>1, <4>2, <4>3 DEF Rolling
    <3>10. Rolling'
      BY <1>1, <2>5, <3>9 DEF Rolling
    <3>11. Recent'
      <4>1. file'[1] = file[1]
        BY <1>1, <2>2 DEF Numbers, SizeTypes
      <4>2. Length(0) >= MaxSize => Length(0)' >= MaxSize
        BY <1>1, <1>2, <2>1, CapIs
      <4>3. QED BY <2>5, <3>1, <3>5, <4>1, <4>2, RecentSame
    <3>12. QED BY <1>1, <3>8, <3>10, <3>11 DEF Whole
  <2>7. QED BY <1>1, <2>4, <2>6 DEF SizeInv
<1>5. QED BY <1>3, <1>4 DEF Size!Log

LEMMA EndsAre ==
  ASSUME SizeTypes, Runs, NEW n \in Numbers, There(n)
  PROVE  /\ Lo(n) \in Nat /\ Hi(n) \in Nat /\ Length(n) \in Nat \ {0}
         /\ Hi(n) = Lo(n) + Length(n) - 1
<1>1. n \in 0 .. max
  BY DEF Numbers, SizeTypes
<1>2. Length(n) \in Nat /\ \A p \in 1 .. Length(n) : file[n][p] \in Nat
  BY <1>1, FileParts
<1>3. Length(n) > 0 /\ \A p \in 1 .. Length(n) : file[n][p] = Lo(n) + p - 1
  BY DEF Runs, RunFrom, Length
<1>4. 1 \in 1 .. Length(n) /\ Length(n) \in 1 .. Length(n)
  BY <1>2, <1>3
<1>5. Lo(n) \in Nat /\ Hi(n) \in Nat
  BY <1>2, <1>4 DEF Lo, Hi, Length
<1>6. Hi(n) = Lo(n) + Length(n) - 1
  BY <1>3, <1>4 DEF Hi, Length
<1>7. QED BY <1>2, <1>3, <1>5, <1>6

\* What is missing is one of the backups, and so is a hole.
LEMMA MissingFinite ==
  ASSUME SizeTypes
  PROVE  /\ IsFiniteSet(Missing) /\ Cardinality(Missing) \in Nat
         /\ IsFiniteSet(Holes) /\ Cardinality(Holes) \in Nat
<1>1. Missing \subseteq Numbers /\ Holes \subseteq Numbers
  BY DEF Missing, Holes
<1>2. QED BY <1>1, NumbersFinite

LEMMA MeasureKeeps ==
  ASSUME SizeInv, Size!Measure, failures' = failures
  PROVE  SizeInv'
<1>1. /\ SizeTypes /\ max' = max /\ append' = append /\ crashes' = crashes /\ written' = written
      /\ rolling = "size" /\ Room = {}
      /\ Cap' = Cap /\ Cap \in Nat /\ 1 <= Cap /\ MaxSize <= Cap
  BY CapIs DEF SizeInv, Size!Measure, Room, Cap
<1>2. 0 \in 0 .. max /\ Length(0) \in Nat /\ max \in Numbers /\ max # 0 /\ max \in Nat
  BY <1>1, FileParts DEF SizeTypes, Numbers
<1>3. CASE /\ ~(sizeFd /\ Length(0) >= MaxSize)
           /\ rolling' = "log" /\ file' = file /\ sizeFd' = sizeFd
  <2>1. SizeTypes'
    BY <1>1, <1>3 DEF SizeTypes
  <2>2. ASSUME append
        PROVE  (Runs /\ Rolling /\ Recent)' /\ (failures = 0 => Whole')
    <3>1. Runs /\ Rolling /\ Recent
      BY <2>2 DEF SizeInv
    <3>2. /\ \A n : There(n)' = There(n) /\ Length(n)' = Length(n) /\ file'[n] = file[n]
          /\ Base' = Base /\ RunFrom(file[0], Base)' = RunFrom(file[0], Base) /\ Room' = Room
      BY <1>1, <1>3 DEF There, Length, Base, RunFrom, Room
    <3>3. Runs' /\ (failures = 0 => (NoGap /\ Filled /\ FewHoles)')
      BY <1>1, <2>2, <3>1, <3>2, BackupsSame DEF Runs
    <3>4. sizeFd => Length(0) < Cap
      BY <1>1, <1>2, <1>3, LogsAssumption
    <3>5. Rolling' /\ Recent' /\ Made'
      BY <1>1, <1>3, <3>1, <3>2, <3>4, RecentSame DEF Rolling, Made
    <3>6. QED BY <3>3, <3>5 DEF Whole
  <2>3. QED BY <1>1, <2>1, <2>2 DEF SizeInv
<1>4. CASE /\ sizeFd /\ Length(0) >= MaxSize
           /\ rolling' = "shift" /\ sizeFd' = FALSE /\ shift' = max
           /\ file' = [file EXCEPT ![max] = Size!Absent]
  <2>1. Size!Absent \in Seq(Nat) /\ Len(Size!Absent) = 1
    BY DEF Size!Absent
  <2>2. file' \in [0 .. max -> Seq(Nat)]
    BY <1>1, <1>4, <2>1 DEF SizeTypes
  <2>3. SizeTypes'
    BY <1>1, <1>2, <1>4, <2>2 DEF SizeTypes, Numbers
  <2>4. /\ \A n \in 0 .. max : n # max => file'[n] = file[n]
        /\ file'[max] = Size!Absent
    BY <1>1, <1>2, <1>4 DEF SizeTypes
  <2>5. /\ Numbers' = Numbers /\ \A n \in Numbers : n # max => file'[n] = file[n]
        /\ \A n \in 0 .. max : n = 0 \/ n \in Numbers
        /\ \A n \in Numbers : n <= max /\ n \in Nat
    BY <1>1, <2>4 DEF Numbers, SizeTypes
  <2>6. /\ \A n \in Numbers : n = max => ~There(n)' /\ Length(n)' = 1
        /\ file'[0] = file[0] /\ (There(0)' <=> There(0)) /\ Length(0)' = Length(0)
    BY <1>2, <2>1, <2>4 DEF There, Length
  <2>7. \A n \in Numbers : n # max => (There(n)' <=> There(n)) /\ Lo(n)' = Lo(n) /\ Hi(n)' = Hi(n)
                                      /\ Length(n)' = Length(n)
    BY <2>5 DEF There, Lo, Hi, Length
  <2>8. ASSUME append
        PROVE  (Runs /\ Rolling /\ Recent)'
    <3>1. Runs /\ Rolling /\ There(0)
      BY <1>4, <2>8 DEF SizeInv, Rolling
    <3>2. Base' = Base
      BY <1>1, <2>6, <3>1 DEF Base
    <3>3. Runs'
      BY <2>5, <2>6, <2>7, <3>1, <3>2 DEF Runs, RunFrom, Length
    <3>4. \A n \in 0 .. max : Length(n)' <= Cap
      BY <1>1, <2>5, <2>6, <2>7, <3>1 DEF Rolling
    <3>5. There(0)' /\ Length(0)' >= MaxSize
      BY <1>4, <2>6, <3>1
    <3>6. Rolling' /\ Recent'
      BY <1>1, <1>4, <3>4, <3>5 DEF Rolling, Recent
    <3>7. QED BY <3>3, <3>6
  <2>9. ASSUME append, failures = 0
        PROVE  Whole'
    <3>1. Runs /\ NoGap /\ Filled /\ FewHoles /\ Rolling /\ There(0)
      BY <1>4, <2>9 DEF SizeInv, Rolling, Whole
    <3>2. Base' = Base /\ Base \in Int
      BY <1>1, <2>6, <3>1, BaseIs DEF Base
    <3>4. NoGap'
      <4>1. SUFFICES ASSUME NEW n \in Numbers, There(n)', NEW r \in Lo(n) .. Base - 1
                     PROVE  InBackup(r)'
        BY <2>5, <2>6, <2>7, <3>2 DEF NoGap
      <4>2. n # max /\ There(n) /\ n < max
        <5>1. n # max /\ There(n)
          BY <2>6, <2>7, <4>1
        <5>2. n \in Nat /\ n <= max /\ max \in Nat
          BY <1>2, <2>5
        <5>3. QED BY <5>1, <5>2
      <4>3. PICK m \in Numbers : There(m) /\ Lo(m) <= r /\ r <= Hi(m)
        BY <3>1, <4>1, <4>2 DEF NoGap, InBackup
      <4>4. m # max
        <5>1. SUFFICES ASSUME m = max PROVE FALSE
          OBVIOUS
        <5>2. Hi(max) < Lo(n)
          BY <3>1, <4>2, <4>3, <5>1 DEF Runs
        <5>3. Lo(n) \in Nat /\ Hi(max) \in Nat /\ Lo(n) <= r /\ r \in Int /\ r <= Hi(max)
          BY <1>1, <3>1, <3>2, <4>1, <4>2, <4>3, <5>1, EndsAre
        <5>4. QED BY <5>2, <5>3
      <4>5. QED BY <2>5, <2>7, <4>3, <4>4 DEF InBackup
    <3>5. Filled'
      <4>1. SUFFICES ASSUME NEW n \in Numbers, There(n)'
                     PROVE  Lo(n)' + MaxSize * Cardinality(Newer(n)') <= Base
        BY <2>5, <3>2 DEF Filled
      <4>2. n # max /\ There(n) /\ Lo(n)' = Lo(n)
        BY <2>6, <2>7, <4>1
      <4>3. Newer(n)' = Newer(n)
        <5>1. \A j \in 1 .. n : j \in Numbers /\ j # max
          <6>1. n \in Nat /\ n < max /\ max \in Nat
            BY <1>2, <4>1, <4>2, BelowLast DEF Numbers
          <6>2. QED BY <6>1 DEF Numbers
        <5>2. \A j \in 1 .. n : There(j)' <=> There(j)
          BY <2>7, <5>1
        <5>3. QED BY <5>2 DEF Newer
      <4>4. QED BY <3>1, <4>2, <4>3 DEF Filled
    <3>6. Missing' = Missing \ {max}
      <4>1. Room' = {max}
        BY <1>4 DEF Room
      <4>2. QED BY <1>1, <2>5, <2>7, <4>1 DEF Missing
    <3>7. Holes' \subseteq Holes
      BY <2>5, <2>6, <2>7, <3>6 DEF Holes
    <3>8. IsFiniteSet(Missing) /\ IsFiniteSet(Holes) /\ crashes \in Nat
      BY <1>1, MissingFinite DEF SizeTypes
    <3>9. Cardinality(Holes') <= crashes
      <4>1. Cardinality(Holes') <= Cardinality(Holes)
        BY <3>7, <3>8, FS_Subset
      <4>2. Cardinality(Holes') \in Nat
        BY <3>7, <3>8, FS_Subset, FS_CardinalityType
      <4>3. QED BY <1>1, <3>1, <3>8, <4>1, <4>2, MissingFinite DEF FewHoles
    <3>10. ASSUME Lost'
           PROVE  Cardinality(Missing') <= crashes
      <4>1. CASE There(max)
        <5>1. Missing' \subseteq Holes
          <6>1. \A n \in Missing' : n \in Missing /\ n \in Numbers /\ n # max
            BY <3>6 DEF Missing
          <6>2. \A n \in Missing' : n < max
            BY <1>2, <6>1, BelowLast DEF Numbers
          <6>3. QED BY <1>2, <4>1, <6>1, <6>2 DEF Holes
        <5>2. Cardinality(Missing') <= Cardinality(Holes) /\ Cardinality(Missing') \in Nat
          BY <3>8, <5>1, FS_Subset, FS_CardinalityType
        <5>3. QED BY <1>1, <3>1, <3>8, <5>2, MissingFinite DEF FewHoles
      <4>2. CASE ~There(max)
        <5>1. \A r : InBackup(r)' <=> InBackup(r)
          BY <2>5, <2>6, <2>7, <4>2 DEF InBackup
        <5>2. Lost
          BY <3>2, <3>10, <5>1 DEF Lost
        <5>3. Cardinality(Missing') <= Cardinality(Missing) /\ Cardinality(Missing') \in Nat
          BY <3>6, <3>8, FS_Subset, FS_CardinalityType
        <5>4. QED BY <1>1, <3>1, <3>8, <5>2, <5>3, MissingFinite DEF FewHoles
      <4>3. QED BY <4>1, <4>2
    <3>11. FewHoles'
      BY <1>1, <3>9, <3>10 DEF FewHoles
    <3>12. Made'
      BY <1>2, <1>4, <2>6 DEF Made
    <3>13. QED BY <3>4, <3>5, <3>11, <3>12 DEF Whole
  <2>10. QED BY <1>1, <2>3, <2>8, <2>9 DEF SizeInv
<1>5. QED
  <2>1. failures' # failures + 1
    BY <1>1 DEF SizeTypes
  <2>2. QED BY <1>3, <1>4, <2>1 DEF Size!Measure, Size!Unlink, Size!Refused, Length

LEMMA MeasureFails ==
  ASSUME SizeInv, Size!Measure, failures' # failures
  PROVE  SizeInv'
<1>1. /\ SizeTypes /\ max' = max /\ append' = append /\ crashes' = crashes /\ written' = written
      /\ rolling' = "shift" /\ sizeFd' = FALSE /\ shift' = max /\ sizeFd /\ Length(0) >= MaxSize
      /\ failures' = failures + 1 /\ file' = file
  BY DEF SizeInv, Size!Measure, Size!Unlink, Size!Refused, Length
<1>2. append => There(0)
  BY <1>1 DEF SizeInv, Rolling
<1>3. max \in Numbers
  BY <1>1 DEF SizeTypes, Numbers
<1>4. QED BY <1>1, <1>2, <1>3, FailKeeps

\* The name above is given to the file of the one below, if there is one.
LEMMA ShiftKeeps ==
  ASSUME SizeInv, Size!Shift, failures' = failures
  PROVE  SizeInv'
<1>1. /\ SizeTypes /\ max' = max /\ append' = append /\ crashes' = crashes /\ written' = written
      /\ sizeFd' = sizeFd /\ rolling = "shift" /\ rolling' = "shift" /\ shift' = shift - 1
      /\ shift > 1 /\ Cap' = Cap /\ Cap \in Nat /\ 1 <= Cap
  BY CapIs DEF SizeInv, Size!Shift, Cap
<1>2. PICK a \in Numbers, b \in Numbers : /\ b = shift /\ a = shift - 1 /\ a < b /\ shift' = a
                                          /\ a \in Nat /\ b \in Nat /\ a + 1 = b
  BY <1>1 DEF Numbers, SizeTypes
<1>3. Room = {b} /\ Room' = {a} /\ Numbers' = Numbers
  BY <1>1, <1>2 DEF Room, Numbers
<1>4. /\ a \in 0 .. max /\ b \in 0 .. max /\ 0 \in 0 .. max /\ a # b /\ a # 0 /\ b # 0
      /\ \A n \in 0 .. max : n = 0 \/ n \in Numbers
      /\ \A n \in Numbers : n \in Nat
  BY <1>1, <1>2 DEF Numbers, SizeTypes
<1>5. file' = IF There(a) THEN [file EXCEPT ![a] = Size!Absent, ![b] = file[a]] ELSE file
  <2>1. Size!Rename(a, b) /\ failures' # failures + 1
    BY <1>1, <1>2 DEF Size!Shift, Size!Given, SizeTypes
  <2>2. QED BY <2>1 DEF Size!Rename, Size!Refused, There
<1>6. CASE ~There(a)
  <2>1. file' = file
    BY <1>5, <1>6
  <2>2. SizeTypes'
    BY <1>1, <1>2, <1>3, <2>1 DEF SizeTypes
  <2> /\ \A n : There(n)' = There(n) /\ Length(n)' = Length(n) /\ file'[n] = file[n]
      /\ Base' = Base /\ RunFrom(file[0], Base)' = RunFrom(file[0], Base)
    BY <1>1, <2>1 DEF There, Length, Base, RunFrom
  <2>3. ASSUME append
        PROVE  (Runs /\ Rolling /\ Recent)' /\ (failures = 0 => (NoGap /\ Filled)')
               /\ (Lost' <=> Lost)
    <3>1. Runs /\ Rolling /\ Recent
      BY <2>3 DEF SizeInv
    <3>2. Runs' /\ (failures = 0 => (NoGap /\ Filled)') /\ (Lost' <=> Lost)
      BY <1>1, <2>3, <3>1, RunsSame DEF Runs
    <3>3. Rolling' /\ Recent'
      BY <1>1, <3>1, RecentSame DEF Rolling
    <3>4. QED BY <3>2, <3>3
  <2>4. ASSUME append, failures = 0
        PROVE  Whole'
    <3>1. FewHoles /\ ~There(b)
      BY <1>1, <1>2, <2>4 DEF SizeInv, Whole, Made
    <3>2. \A n : There(n)' = There(n)
      OBVIOUS
    <3>3. (NoGap /\ Filled)' /\ (Lost' <=> Lost)
      BY <2>3, <2>4
    <3>4. a \in Missing /\ b \notin Missing /\ Missing' = (Missing \ {a}) \cup {b}
      BY <1>2, <1>3, <1>4, <1>6, <3>1, <3>2 DEF Missing
    <3>5. Cardinality(Missing') = Cardinality(Missing)
      BY <1>1, <3>4, MissingFinite, Swapped
    <3>6. Cardinality(Holes') <= Cardinality(Holes)
      <4>1. IsFiniteSet(Holes) /\ Cardinality(Holes) \in Nat
        BY <1>1, MissingFinite
      <4>2. CASE b \in Holes'
        <5>1. PICK m \in Numbers : b < m /\ There(m)
          BY <1>3, <3>2, <4>2 DEF Holes
        <5>2. a \in Holes
          <6>1. a < m
            BY <1>2, <1>4, <5>1
          <6>2. QED BY <1>2, <3>4, <5>1, <6>1 DEF Holes
        <5>3. b \notin Holes
          BY <3>4 DEF Holes
        <5>4. Holes' \subseteq (Holes \ {a}) \cup {b}
          BY <1>3, <3>2, <3>4 DEF Holes
        <5>5. /\ Cardinality((Holes \ {a}) \cup {b}) = Cardinality(Holes)
              /\ IsFiniteSet((Holes \ {a}) \cup {b})
          <6>1. IsFiniteSet(Holes \ {a})
            BY <4>1, FS_RemoveElement
          <6>2. IsFiniteSet((Holes \ {a}) \cup {b})
            BY <6>1, FS_AddElement
          <6>3. Cardinality((Holes \ {a}) \cup {b}) = Cardinality(Holes)
            BY <4>1, <5>2, <5>3, Swapped
          <6>4. QED BY <6>2, <6>3
        <5>6. QED BY <5>4, <5>5, FS_Subset
      <4>3. CASE b \notin Holes'
        <5>1. Holes' \subseteq Holes
          BY <1>3, <3>2, <3>4, <4>3 DEF Holes
        <5>2. QED BY <4>1, <5>1, FS_Subset
      <4>4. QED BY <4>2, <4>3
    <3>7. FewHoles'
      <4>1. Cardinality(Holes') \in Nat /\ Cardinality(Holes) \in Nat /\ crashes \in Nat
        <5>1. Holes' \subseteq Numbers
          BY <1>3 DEF Holes, Missing
        <5>2. QED BY <1>1, <5>1, NumbersFinite, MissingFinite DEF SizeTypes
      <4>2. QED BY <1>1, <3>1, <3>3, <3>5, <3>6, <4>1 DEF FewHoles
    <3>8. Made'
      BY <1>2, <1>6, <3>2 DEF Made
    <3>9. QED BY <3>3, <3>7, <3>8 DEF Whole
  <2>5. QED BY <1>1, <2>2, <2>3, <2>4 DEF SizeInv
<1>7. CASE There(a)
  <2>1. file' = [file EXCEPT ![a] = Size!Absent, ![b] = file[a]]
    BY <1>5, <1>7
  <2>2. Size!Absent \in Seq(Nat) /\ Len(Size!Absent) = 1
    BY DEF Size!Absent
  <2>3. /\ \A n \in 0 .. max : n # a /\ n # b => file'[n] = file[n]
        /\ file'[a] = Size!Absent /\ file'[b] = file[a] /\ file' \in [0 .. max -> Seq(Nat)]
    BY <1>1, <1>4, <2>1, <2>2 DEF SizeTypes
  <2>4. SizeTypes'
    BY <1>1, <1>2, <1>3, <2>3 DEF SizeTypes
  <2>5. /\ ~There(a)' /\ There(b)' /\ Lo(b)' = Lo(a) /\ Hi(b)' = Hi(a)
        /\ Length(a)' = 1 /\ Length(b)' = Length(a) /\ file'[b] = file[a]
        /\ file'[0] = file[0] /\ (There(0)' <=> There(0)) /\ Length(0)' = Length(0)
    BY <1>4, <1>7, <2>2, <2>3 DEF There, Lo, Hi, Length
  <2>6. \A n \in Numbers : n # a /\ n # b =>
          /\ There(n)' <=> There(n)
          /\ Lo(n)' = Lo(n) /\ Hi(n)' = Hi(n) /\ Length(n)' = Length(n) /\ file'[n] = file[n]
    <3>1. \A n \in Numbers : n # a /\ n # b => file'[n] = file[n]
      BY <1>1, <2>3 DEF Numbers, SizeTypes
    <3>2. QED BY <3>1 DEF There, Lo, Hi, Length
  <2>7. ASSUME append
        PROVE  (Runs /\ Rolling /\ Recent)' /\ (failures = 0 => Whole')
    <3>1. /\ Runs /\ Rolling
          /\ failures = 0 => NoGap /\ Filled /\ FewHoles /\ ~There(b)
      BY <1>1, <1>2, <2>7 DEF SizeInv, Whole, Made
    <3>2. Base' = Base /\ Base \in Int
      BY <1>1, <2>5, BaseIs DEF Base
    <3> DEFINE From(n) == IF n = b THEN a ELSE n
    <3>3. ASSUME NEW n \in Numbers, There(n)'
          PROVE  /\ From(n) \in Numbers /\ There(From(n)) /\ n # a
                 /\ Lo(n)' = Lo(From(n)) /\ Hi(n)' = Hi(From(n)) /\ file'[n] = file[From(n)]
      <4>1. n # a
        BY <2>5, <3>3
      <4>2. QED BY <1>7, <2>5, <2>6, <3>3, <4>1
    <3>4. \A j, n \in Numbers : j < n /\ j # a /\ n # a => From(j) < From(n)
      BY <1>2, <1>4
    <3>5. Runs'
      <4>1. ASSUME NEW n \in Numbers, There(n)'
            PROVE  /\ Len(file'[n]) > 0 /\ Lo(n)' >= 1
                   /\ RunFrom(file'[n], Lo(n)') /\ Hi(n)' < Base'
        <5> DEFINE m == From(n)
        <5>1. /\ m \in Numbers /\ There(m)
              /\ Lo(n)' = Lo(m) /\ Hi(n)' = Hi(m) /\ file'[n] = file[m]
          BY <3>3, <4>1
        <5> HIDE DEF m
        <5>2. QED BY <3>1, <3>2, <5>1 DEF Runs, RunFrom
      <4>2. ASSUME NEW j \in Numbers, NEW n \in Numbers, There(j)', There(n)', j < n
            PROVE  Hi(n)' < Lo(j)'
        <5>1. /\ From(j) \in Numbers /\ There(From(j)) /\ Lo(j)' = Lo(From(j)) /\ j # a
              /\ From(n) \in Numbers /\ There(From(n)) /\ Hi(n)' = Hi(From(n)) /\ n # a
          BY <3>3, <4>2
        <5>2. From(j) < From(n)
          BY <3>4, <4>2, <5>1
        <5>3. Hi(From(n)) < Lo(From(j))
          BY <3>1, <5>1, <5>2 DEF Runs
        <5>4. QED BY <5>1, <5>3
      <4>3. (There(0) => Base >= 1 /\ RunFrom(file[0], Base))'
        BY <2>5, <3>1, <3>2 DEF Runs, RunFrom
      <4>4. QED BY <1>3, <4>1, <4>2, <4>3 DEF Runs, RunFrom
    <3>6. failures = 0 => \A r : InBackup(r)' <=> InBackup(r)
      <4>1. SUFFICES ASSUME failures = 0, NEW r PROVE InBackup(r)' <=> InBackup(r)
        OBVIOUS
      <4>2. ASSUME InBackup(r)'
            PROVE  InBackup(r)
        <5>1. PICK n \in Numbers : There(n)' /\ Lo(n)' <= r /\ r <= Hi(n)'
          BY <1>3, <4>2 DEF InBackup
        <5>2. QED BY <3>3, <5>1 DEF InBackup
      <4>3. ASSUME InBackup(r)
            PROVE  InBackup(r)'
        <5>1. PICK n \in Numbers : There(n) /\ Lo(n) <= r /\ r <= Hi(n)
          BY <4>3 DEF InBackup
        <5>2. \E m \in Numbers : There(m)' /\ Lo(m)' <= r /\ r <= Hi(m)'
          <6>1. CASE n = a
            BY <1>4, <2>5, <5>1, <6>1
          <6>2. CASE n # a
            BY <2>6, <3>1, <4>1, <5>1, <6>2
          <6>3. QED BY <6>1, <6>2
        <5>3. QED BY <1>3, <5>2 DEF InBackup
      <4>4. QED BY <4>2, <4>3
    <3>7. failures = 0 => NoGap'
      <4>1. SUFFICES ASSUME failures = 0,
                            NEW n \in Numbers, There(n)', NEW r \in Lo(n)' .. Base - 1
                     PROVE  InBackup(r)
        BY <1>3, <3>2, <3>6 DEF NoGap
      <4>2. From(n) \in Numbers /\ There(From(n)) /\ Lo(n)' = Lo(From(n))
        BY <3>3, <4>1
      <4>3. QED BY <3>1, <4>1, <4>2 DEF NoGap
    <3>8. failures = 0 => Filled'
      <4>1. SUFFICES ASSUME failures = 0, NEW n \in Numbers, There(n)'
                     PROVE  Lo(n)' + MaxSize * Cardinality(Newer(n)') <= Base
        BY <1>3, <3>2 DEF Filled
      <4>2. From(n) \in Numbers /\ There(From(n)) /\ n # a /\ Lo(n)' = Lo(From(n))
        BY <3>3, <4>1
      <4>3. Cardinality(Newer(n)') = Cardinality(Newer(From(n)))
        <5>1. \A j \in 1 .. n : j \in Numbers
          BY <1>1, <1>4, <4>1 DEF Numbers, SizeTypes
        <5>2. CASE n < a
          <6>1. \A j \in 1 .. n : There(j)' <=> There(j)
            BY <1>2, <1>4, <2>6, <4>1, <5>1, <5>2
          <6>2. Newer(n)' = Newer(n) /\ n # b
            BY <1>2, <1>4, <4>1, <5>2, <6>1 DEF Newer
          <6>3. QED BY <6>2
        <5>3. CASE n > a
          <6>1. n >= b /\ n \in Nat
            BY <1>2, <1>4, <4>1, <5>3
          <6>2. a \in Newer(From(n)) /\ b \notin Newer(From(n))
            BY <1>2, <1>4, <1>7, <3>1, <4>1, <6>1 DEF Newer
          <6>3. Newer(n)' = (Newer(From(n)) \ {a}) \cup {b}
            BY <1>2, <1>4, <2>5, <2>6, <4>1, <5>1, <6>1 DEF Newer
          <6>4. Newer(From(n)) \subseteq Numbers
            BY <1>2, <5>1, <6>1 DEF Newer
          <6>5. IsFiniteSet(Newer(From(n)))
            BY <1>1, <6>4, NumbersFinite
          <6>6. QED BY <6>2, <6>3, <6>5, Swapped
        <5>4. n < a \/ n > a
          BY <1>2, <1>4, <4>1, <4>2
        <5>5. QED BY <5>2, <5>3, <5>4
      <4>4. Lo(From(n)) + MaxSize * Cardinality(Newer(From(n))) <= Base
        <5> HIDE DEF From
        <5>1. QED BY <3>1, <4>1, <4>2 DEF Filled
      <4>5. QED BY <4>2, <4>3, <4>4
    <3>9. Missing' = Missing
      BY <1>3, <1>4, <1>7, <2>5, <2>6 DEF Missing
    <3>10. Holes' \subseteq Holes
      <4>1. SUFFICES ASSUME NEW n \in Missing, NEW m \in Numbers, n < m, There(m)'
                     PROVE  n \in Holes
        BY <1>3, <3>9 DEF Holes
      <4>2. From(m) \in Numbers /\ There(From(m)) /\ n # a /\ n \in Numbers
        BY <1>7, <3>3, <4>1 DEF Missing
      <4>3. n < From(m)
        BY <1>2, <1>4, <4>1, <4>2
      <4>4. QED BY <4>1, <4>2, <4>3 DEF Holes
    <3>11. failures = 0 => FewHoles'
      <4>1. failures = 0 => (Lost' <=> Lost)
        BY <3>2, <3>6 DEF Lost
      <4>2. /\ IsFiniteSet(Holes) /\ Cardinality(Holes) \in Nat /\ crashes \in Nat
            /\ Cardinality(Holes') \in Nat /\ Cardinality(Holes') <= Cardinality(Holes)
        BY <1>1, <3>10, MissingFinite, FS_Subset, FS_CardinalityType DEF SizeTypes
      <4>3. QED BY <1>1, <3>1, <3>9, <4>1, <4>2 DEF FewHoles
    <3>12. \A n \in 0 .. max : Length(n)' <= Cap
      BY <1>1, <1>4, <2>5, <2>6, <3>1 DEF Rolling
    <3>13. There(0)' /\ Length(0)' >= MaxSize
      BY <1>1, <2>5, <3>1 DEF Rolling
    <3>14. Rolling' /\ Recent'
      BY <1>1, <3>1, <3>12, <3>13 DEF Rolling, Recent
    <3>15. Made'
      BY <1>2, <2>5 DEF Made
    <3>16. QED BY <3>5, <3>7, <3>8, <3>11, <3>14, <3>15 DEF Whole
  <2>8. QED BY <1>1, <2>4, <2>7 DEF SizeInv
<1>8. QED BY <1>6, <1>7

LEMMA ShiftFails ==
  ASSUME SizeInv, Size!Shift, failures' # failures
  PROVE  SizeInv'
<1>1. /\ SizeTypes /\ max' = max /\ append' = append /\ crashes' = crashes /\ written' = written
      /\ rolling = "shift" /\ rolling' = "shift" /\ sizeFd' = sizeFd /\ shift' = shift - 1
      /\ shift > 1 /\ failures' = failures + 1 /\ file' = file
  BY DEF SizeInv, Size!Shift, Size!Rename, Size!Refused
<1>2. append => There(0) /\ Length(0) >= MaxSize
  BY <1>1 DEF SizeInv, Rolling
<1>3. shift' \in Numbers
  BY <1>1 DEF SizeTypes, Numbers
<1>4. CASE append
  <2>1. sizeFd = FALSE
    BY <1>1, <1>4 DEF SizeInv, Rolling, SizeTypes
  <2>2. QED BY <1>1, <1>2, <1>3, <2>1, FailKeeps
<1>5. CASE ~append
  <2>1. SizeTypes'
    BY <1>1, <1>3 DEF SizeTypes, Numbers
  <2>2. QED BY <1>1, <1>5, <2>1 DEF SizeInv
<1>6. QED BY <1>4, <1>5

LEMMA OneMore ==
  ASSUME NEW m \in Nat, NEW c \in Nat
  PROVE  m * (c + 1) = m * c + m /\ m * c \in Nat
OBVIOUS

LEMMA CurrentKeeps ==
  ASSUME SizeInv, Size!Current, failures' = failures
  PROVE  SizeInv'
<1>1. /\ SizeTypes /\ max' = max /\ append' = append /\ crashes' = crashes /\ written' = written
      /\ sizeFd' = sizeFd /\ rolling = "shift" /\ rolling' = "reopen" /\ shift = 1
      /\ file' = IF There(0) THEN [file EXCEPT ![0] = Size!Absent, ![1] = file[0]] ELSE file
      /\ Cap' = Cap /\ Cap \in Nat /\ 1 <= Cap
  <2>1. SizeTypes /\ failures' # failures + 1
    BY DEF SizeInv, SizeTypes
  <2>2. QED BY <2>1, CapIs DEF SizeInv, Size!Current, Size!Rename, Size!Refused, There, Cap
<1>2. Room = {1} /\ Room' = {} /\ Numbers' = Numbers
  BY <1>1 DEF Room, Numbers
<1>3. /\ 0 \in 0 .. max /\ 1 \in 0 .. max /\ 1 \in Numbers /\ written \in Nat /\ crashes \in Nat
      /\ \A n \in 0 .. max : n = 0 \/ n \in Numbers
      /\ \A n \in Numbers : n \in Nat /\ n # 0 /\ n >= 1
  BY <1>1 DEF Numbers, SizeTypes
<1>4. CASE ~There(0)
  <2>1. file' = file /\ ~append
    BY <1>1, <1>4 DEF SizeInv, Rolling
  <2>2. QED BY <1>1, <2>1 DEF SizeInv, SizeTypes
<1>5. CASE There(0)
  <2>1. file' = [file EXCEPT ![0] = Size!Absent, ![1] = file[0]]
    BY <1>1, <1>5
  <2>2. Size!Absent \in Seq(Nat) /\ Len(Size!Absent) = 1
    BY DEF Size!Absent
  <2>3. /\ \A n \in 0 .. max : n # 0 /\ n # 1 => file'[n] = file[n]
        /\ file'[0] = Size!Absent /\ file'[1] = file[0] /\ file' \in [0 .. max -> Seq(Nat)]
    BY <1>1, <1>3, <2>1, <2>2 DEF SizeTypes
  <2>4. SizeTypes'
    BY <1>1, <2>3 DEF SizeTypes
  <2>5. ~There(0)' /\ There(1)' /\ Length(0)' = 1 /\ Length(1)' = Length(0)
    BY <1>5, <2>2, <2>3 DEF There, Length
  <2>6. \A n \in Numbers : n # 1 =>
          /\ There(n)' <=> There(n)
          /\ Lo(n)' = Lo(n) /\ Hi(n)' = Hi(n) /\ Length(n)' = Length(n) /\ file'[n] = file[n]
    <3>1. \A n \in Numbers : n # 1 => file'[n] = file[n]
      BY <1>1, <2>3 DEF Numbers, SizeTypes
    <3>2. QED BY <3>1 DEF There, Lo, Hi, Length
  <2>7. ASSUME append
        PROVE  (Runs /\ Rolling /\ Recent)' /\ (failures = 0 => Whole')
    <3>1. /\ Runs /\ Rolling
          /\ failures = 0 => NoGap /\ Filled /\ FewHoles /\ ~There(1)
      BY <1>1, <2>7 DEF SizeInv, Whole, Made
    <3>2. Length(0) >= MaxSize /\ Length(0) \in Nat /\ MaxSize \in Nat \ {0}
      BY <1>1, <1>3, <3>1, FileParts, LogsAssumption DEF Rolling
    <3>3. Base' = written + 1 /\ Base = written + 1 - Length(0) /\ Base \in Nat /\ Base >= 1
      BY <1>1, <1>3, <1>5, <2>5, <3>1, <3>2 DEF Base, Runs
    <3>4. \A p \in 1 .. Length(0) : file[0][p] = Base + p - 1
      BY <1>5, <3>1 DEF Runs, RunFrom, Length
    <3>5. 1 \in 1 .. Length(0) /\ Length(0) \in 1 .. Length(0)
      BY <3>2
    <3>6. Lo(1)' = Base
      <4>1. file[0][1] = Base
        BY <3>3, <3>4, <3>5
      <4>2. QED BY <2>3, <4>1 DEF Lo
    <3>7. Hi(1)' = written
      <4>1. file[0][Length(0)] = written
        BY <1>3, <3>2, <3>3, <3>4, <3>5
      <4>2. QED BY <2>3, <4>1 DEF Hi, Length
    <3>8. Base + MaxSize <= written + 1 /\ Base < written + 1
      BY <1>3, <3>2, <3>3
    <3>9. \A n \in Numbers : There(n)' /\ n # 1 => There(n) /\ Hi(n)' < Base /\ Hi(n)' \in Nat
      BY <1>1, <2>6, <3>1, EndsAre DEF Runs
    <3>10. Runs'
      <4>1. ASSUME NEW n \in Numbers, There(n)'
            PROVE  /\ Len(file'[n]) > 0 /\ Lo(n)' >= 1
                   /\ RunFrom(file'[n], Lo(n)') /\ Hi(n)' < Base'
        <5>1. CASE n = 1
          <6>1. Len(file'[1]) = Length(0) /\ Length(0) > 0
            BY <2>3, <3>2 DEF Length
          <6>2. RunFrom(file'[1], Base)
            BY <2>3, <3>4 DEF RunFrom, Length
          <6>3. QED BY <1>3, <3>3, <3>6, <3>7, <5>1, <6>1, <6>2
        <5>2. CASE n # 1
          <6>1. /\ Len(file[n]) > 0 /\ Lo(n) >= 1 /\ RunFrom(file[n], Lo(n)) /\ Hi(n) < Base
                /\ file'[n] = file[n] /\ Lo(n)' = Lo(n) /\ Hi(n)' = Hi(n) /\ Hi(n) \in Nat
            BY <1>1, <2>6, <3>1, <3>9, <4>1, <5>2, EndsAre DEF Runs
          <6>2. Hi(n) < written + 1
            BY <1>3, <3>3, <3>8, <6>1
          <6>3. QED BY <3>3, <6>1, <6>2
        <5>3. QED BY <5>1, <5>2
      <4>2. ASSUME NEW j \in Numbers, NEW n \in Numbers, There(j)', There(n)', j < n
            PROVE  Hi(n)' < Lo(j)'
        <5>1. n # 1
          BY <1>3, <4>2
        <5>2. CASE j = 1
          BY <3>6, <3>9, <4>2, <5>1, <5>2
        <5>3. CASE j # 1
          BY <2>6, <3>1, <4>2, <5>1, <5>3 DEF Runs
        <5>4. QED BY <5>2, <5>3
      <4>3. QED BY <1>2, <2>5, <4>1, <4>2 DEF Runs
    <3>11. ASSUME failures = 0, NEW r, InBackup(r)
           PROVE  InBackup(r)'
      BY <1>2, <2>6, <3>1, <3>11 DEF InBackup
    <3>12. ASSUME NEW r \in Base .. written
           PROVE  InBackup(r)'
      BY <1>2, <1>3, <2>5, <3>6, <3>7, <3>12 DEF InBackup
    <3>13. failures = 0 => NoGap'
      <4>1. SUFFICES ASSUME failures = 0, NEW n \in Numbers, There(n)', NEW r \in Lo(n)' .. written
                     PROVE  InBackup(r)'
        <5>1. Base' - 1 = written
          BY <1>3, <3>3
        <5>2. QED BY <1>2, <5>1 DEF NoGap
      <4>2. CASE r >= Base
        <5>1. r \in Base .. written
          BY <3>3, <4>1, <4>2
        <5>2. QED BY <3>12, <5>1
      <4>3. CASE ~(r >= Base)
        <5>1. n # 1
          BY <3>6, <4>1, <4>3
        <5>2. There(n) /\ Lo(n)' = Lo(n)
          BY <2>6, <4>1, <5>1
        <5>3. r \in Lo(n) .. Base - 1
          BY <3>3, <4>1, <4>3, <5>2
        <5>4. QED BY <3>1, <3>11, <4>1, <5>2, <5>3 DEF NoGap
      <4>4. QED BY <4>2, <4>3
    <3>14. failures = 0 => Filled'
      <4>1. SUFFICES ASSUME failures = 0, NEW n \in Numbers, There(n)'
                     PROVE  Lo(n)' + MaxSize * Cardinality(Newer(n)') <= written + 1
        BY <1>2, <3>3 DEF Filled
      <4>2. CASE n = 1
        <5>1. Newer(1)' = {1}
          BY <2>5 DEF Newer
        <5>2. Cardinality(Newer(n)') = 1
          BY <4>2, <5>1, FS_Singleton
        <5>3. MaxSize * 1 = MaxSize
          BY <3>2
        <5>4. QED BY <3>6, <3>8, <4>2, <5>2, <5>3
      <4>3. CASE n # 1
        <5>1. There(n) /\ Lo(n)' = Lo(n)
          BY <2>6, <4>1, <4>3
        <5>2. /\ Lo(n) + MaxSize * Cardinality(Newer(n)) <= Base
              /\ Newer(n) \subseteq Numbers /\ 1 \notin Newer(n)
          <6>1. Newer(n) \subseteq Numbers
            BY <1>1, <4>1 DEF Newer, Numbers, SizeTypes
          <6>2. QED BY <3>1, <4>1, <5>1, <6>1 DEF Filled, Newer
        <5>3. Newer(n)' = Newer(n) \cup {1}
          <6>1. \A j \in 1 .. n : j \in Numbers
            BY <1>1, <4>1 DEF Numbers, SizeTypes
          <6>2. 1 \in 1 .. n
            BY <1>3, <4>1
          <6>3. \A j \in 1 .. n : There(j)' <=> There(j) \/ j = 1
            BY <2>5, <2>6, <6>1
          <6>4. QED BY <6>2, <6>3 DEF Newer
        <5>4. /\ Cardinality(Newer(n)') = Cardinality(Newer(n)) + 1
              /\ Cardinality(Newer(n)) \in Nat
          BY <1>1, <5>2, <5>3, NumbersFinite, FS_AddElement
        <5>5. /\ MaxSize * Cardinality(Newer(n)') = MaxSize * Cardinality(Newer(n)) + MaxSize
              /\ MaxSize * Cardinality(Newer(n)) \in Nat
          BY <3>2, <5>4, OneMore
        <5>6. Lo(n) \in Nat
          BY <1>1, <3>1, <5>1, EndsAre
        <5>7. QED BY <1>3, <3>2, <3>3, <3>8, <5>1, <5>2, <5>5, <5>6
      <4>4. QED BY <4>2, <4>3
    <3>15. Missing' \subseteq Missing
      BY <1>2, <2>5, <2>6 DEF Missing
    <3>16. Holes' \subseteq Holes
      <4>1. \A n \in Missing, m \in Numbers : n < m /\ There(m)' => There(m)
        BY <1>3, <2>6 DEF Missing
      <4>2. QED BY <1>2, <3>15, <4>1 DEF Holes
    <3>17. failures = 0 => FewHoles'
      <4>1. failures = 0 /\ Lost' => Lost
        <5>1. SUFFICES ASSUME failures = 0, NEW r \in 1 .. written, ~InBackup(r)'
                       PROVE  Lost
          <6>1. Base' - 1 = written
            BY <1>3, <3>3
          <6>2. QED BY <6>1 DEF Lost
        <5>2. r \notin Base .. written /\ ~InBackup(r)
          BY <3>11, <3>12, <5>1
        <5>3. r \in 1 .. Base - 1
          BY <1>3, <3>3, <5>1, <5>2
        <5>4. QED BY <5>2, <5>3 DEF Lost
      <4>2. /\ IsFiniteSet(Holes) /\ Cardinality(Holes) \in Nat
            /\ Cardinality(Holes') \in Nat /\ Cardinality(Holes') <= Cardinality(Holes)
            /\ IsFiniteSet(Missing) /\ Cardinality(Missing) \in Nat
            /\ Cardinality(Missing') \in Nat /\ Cardinality(Missing') <= Cardinality(Missing)
        BY <1>1, <3>15, <3>16, MissingFinite, FS_Subset, FS_CardinalityType
      <4>3. QED BY <1>1, <1>3, <3>1, <4>1, <4>2 DEF FewHoles
    <3>18. \A n \in 0 .. max : Length(n)' <= Cap
      <4>1. \A n \in 0 .. max : Length(n) <= Cap
        BY <3>1 DEF Rolling
      <4>2. QED BY <1>1, <1>3, <2>5, <2>6, <4>1
    <3>19. Rolling'
      BY <1>1, <2>5, <3>1, <3>18 DEF Rolling
    <3>20. Recent'
      <4>1. Hi(1)' = Base' - 1 /\ Lo(1)' + MaxSize <= Base'
        BY <1>3, <3>3, <3>6, <3>7, <3>8
      <4>2. QED BY <2>5, <4>1 DEF Recent
    <3>21. Made'
      BY <1>1 DEF Made
    <3>22. QED BY <3>10, <3>13, <3>14, <3>17, <3>19, <3>20, <3>21 DEF Whole
  <2>8. QED BY <1>1, <2>4, <2>7 DEF SizeInv
<1>6. QED BY <1>4, <1>5

LEMMA CurrentFails ==
  ASSUME SizeInv, Size!Current, failures' # failures
  PROVE  SizeInv'
<1>1. /\ SizeTypes /\ max' = max /\ append' = append /\ crashes' = crashes /\ written' = written
      /\ rolling = "shift" /\ rolling' = "reopen" /\ sizeFd' = sizeFd
      /\ failures' = failures + 1 /\ file' = file
  BY DEF SizeInv, Size!Current, Size!Rename, Size!Refused
<1>2. append => There(0) /\ Length(0) >= MaxSize
  BY <1>1 DEF SizeInv, Rolling
<1>3. CASE append
  <2>1. sizeFd = FALSE
    BY <1>1, <1>3 DEF SizeInv, Rolling, SizeTypes
  <2>2. QED BY <1>1, <1>2, <2>1, FailKeeps
<1>4. CASE ~append
  <2>1. SizeTypes'
    BY <1>1 DEF SizeTypes
  <2>2. QED BY <1>1, <1>4, <2>1 DEF SizeInv
<1>5. QED BY <1>3, <1>4

LEMMA CrashKeeps ==
  ASSUME SizeInv, Size!Crash
  PROVE  SizeInv'
<1>1. /\ SizeTypes /\ max' = max /\ append' = append /\ written' = written /\ file' = file
      /\ crashes' = crashes + 1 /\ crashes \in Nat
      /\ rolling' = "start" /\ sizeFd' = FALSE /\ failures' = failures
      /\ Cap' = Cap + 1 /\ Cap \in Nat
  <2>1. SizeTypes /\ failures' = failures /\ crashes' = crashes + 1
    BY DEF SizeInv, Size!Crash
  <2>2. Cap' = Cap + 1 /\ Cap \in Nat
    BY <2>1, CapIs DEF Cap, SizeTypes
  <2>3. QED BY <2>1, <2>2 DEF SizeTypes, Size!Crash
<1>2. SizeTypes'
  <2>1. max' \in Nat \ {0} /\ append' \in BOOLEAN /\ file' \in [0 .. max' -> Seq(Nat)]
    BY <1>1 DEF SizeTypes
  <2>2. written' \in Nat /\ crashes' \in Nat /\ rolling' # "shift"
    BY <1>1 DEF SizeTypes
  <2>3. failures' \in Nat /\ sizeFd' \in BOOLEAN
    BY <1>1 DEF SizeTypes
  <2>4. QED BY <1>1, <2>1, <2>2, <2>3 DEF SizeTypes
<1>3. ASSUME append
      PROVE  (Runs /\ Rolling /\ Recent)' /\ (failures = 0 => Whole')
  <2>1. Runs /\ Rolling /\ Recent /\ (failures = 0 => FewHoles)
    BY <1>3 DEF SizeInv, Whole
  <2>2. /\ \A n : There(n)' = There(n) /\ Length(n)' = Length(n) /\ file'[n] = file[n]
        /\ Base' = Base /\ RunFrom(file[0], Base)' = RunFrom(file[0], Base)
        /\ Numbers' = Numbers /\ Room' = {}
    BY <1>1 DEF There, Length, Base, RunFrom, Numbers, Room
  <2>3. Runs' /\ (failures = 0 => (NoGap /\ Filled)') /\ (Lost' <=> Lost)
    BY <1>1, <1>3, <2>1, <2>2, RunsSame DEF Runs
  <2>4. \E x : Missing' \subseteq Missing \cup {x} /\ Holes' \subseteq Holes \cup {x}
    <3>1. Missing' \subseteq Missing \cup {shift}
      BY <2>2 DEF Missing, Room
    <3>2. Holes' \subseteq Holes \cup {shift}
      BY <2>2, <3>1 DEF Holes
    <3>3. QED BY <3>1, <3>2
  <2>5. ASSUME NEW S, NEW T, NEW x, IsFiniteSet(S), Cardinality(S) \in Nat,
               T \subseteq S \cup {x}
        PROVE  Cardinality(T) <= Cardinality(S) + 1 /\ Cardinality(T) \in Nat
    <3>1. IsFiniteSet(S \cup {x}) /\ Cardinality(S \cup {x}) <= Cardinality(S) + 1
      <4>1. /\ IsFiniteSet(S \cup {x})
            /\ \/ Cardinality(S \cup {x}) = Cardinality(S)
               \/ Cardinality(S \cup {x}) = Cardinality(S) + 1
        BY <2>5, FS_AddElement
      <4>2. QED BY <2>5, <4>1
    <3>2. Cardinality(S \cup {x}) \in Nat
      BY <3>1, FS_CardinalityType
    <3>3. Cardinality(T) <= Cardinality(S \cup {x}) /\ Cardinality(T) \in Nat
      BY <2>5, <3>1, FS_Subset, FS_CardinalityType
    <3>4. QED BY <2>5, <3>1, <3>2, <3>3
  <2>6. /\ Cardinality(Missing') <= Cardinality(Missing) + 1 /\ Cardinality(Missing') \in Nat
        /\ Cardinality(Holes') <= Cardinality(Holes) + 1 /\ Cardinality(Holes') \in Nat
    BY <1>1, <2>4, <2>5, MissingFinite
  <2>7. failures = 0 => FewHoles'
    BY <1>1, <2>1, <2>3, <2>6, MissingFinite DEF FewHoles
  <2>8. Rolling'
    <3>1. 0 \in 0 .. max
      BY <1>1 DEF SizeTypes
    <3>2. \A n \in 0 .. max : Length(n) \in Nat /\ Length(n) <= Cap
      BY <1>1, <2>1, FileParts DEF Rolling
    <3>3. \A n \in 0 .. max : Length(n)' < Cap' /\ Length(n)' <= Cap'
      BY <1>1, <2>2, <3>2
    <3>4. Length(0)' < Cap'
      BY <3>1, <3>3
    <3>5. QED BY <1>1, <3>3, <3>4 DEF Rolling
  <2>9. Recent' /\ Made'
    BY <1>1, <2>1, <2>2, RecentSame DEF Made
  <2>10. QED BY <2>3, <2>7, <2>8, <2>9 DEF Whole
<1>4. QED BY <1>1, <1>2, <1>3 DEF SizeInv

----------------------------------------------------------------------------
(* What it means for the records.                                           *)

LEMMA RecordsAre ==
  ASSUME SizeTypes, Runs, NEW n \in 0 .. max
  PROVE  /\ ~There(n) => Size!Records(n) = {}
         /\ There(n) /\ n # 0 => n \in Numbers /\ Size!Records(n) = Lo(n) .. Hi(n)
         /\ There(0) => Size!Records(0) = Base .. written
<1>1. /\ file[n] \in Seq(Nat) /\ DOMAIN file[n] = 1 .. Length(n)
      /\ 0 \in 0 .. max /\ Length(0) \in Nat /\ DOMAIN file[0] = 1 .. Length(0)
      /\ written \in Nat
  BY FileParts DEF SizeTypes, Length
<1>2. ASSUME ~There(n)
      PROVE  Size!Records(n) = {}
  <2>1. DOMAIN file[n] = {1} /\ file[n][1] = 0
    BY <1>2 DEF There, Size!Absent
  <2>2. QED BY <2>1 DEF Size!Records, Size!ToSet
<1>3. ASSUME There(0)
      PROVE  Size!Records(0) = Base .. written
  <2>1. /\ \A p \in 1 .. Length(0) : file[0][p] = Base + p - 1
        /\ Base = written + 1 - Length(0) /\ Base \in Nat /\ Base >= 1
    <3>1. Base = written + 1 - Length(0) /\ Base \in Int
      BY <1>3, BaseIs
    <3>2. Base >= 1 /\ RunFrom(file[0], Base)
      BY <1>3 DEF Runs
    <3>3. QED BY <3>1, <3>2 DEF RunFrom, Length
  <2>2. ASSUME NEW p \in 1 .. Length(0)
        PROVE  file[0][p] \in Base .. written /\ file[0][p] # 0
    BY <1>1, <2>1, <2>2, SMTT(30)
  <2>3. ASSUME NEW r \in Base .. written
        PROVE  \E p \in 1 .. Length(0) : file[0][p] = r
    <3>1. r - Base + 1 \in 1 .. Length(0) /\ Base + (r - Base + 1) - 1 = r
      BY <1>1, <2>1, <2>3, SMTT(30)
    <3>2. QED BY <2>1, <3>1
  <2>4. 0 \notin Base .. written
    BY <2>1
  <2>5. QED BY <1>1, <2>2, <2>3, <2>4 DEF Size!Records, Size!ToSet
<1>4. ASSUME There(n), n # 0
      PROVE  n \in Numbers /\ Size!Records(n) = Lo(n) .. Hi(n)
  <2>1. n \in Numbers
    BY <1>4 DEF Numbers, SizeTypes
  <2>2. /\ Lo(n) \in Nat /\ Hi(n) \in Nat /\ Length(n) \in Nat \ {0}
        /\ Hi(n) = Lo(n) + Length(n) - 1
    BY <1>4, <2>1, EndsAre
  <2>3. Lo(n) >= 1 /\ \A p \in 1 .. Length(n) : file[n][p] = Lo(n) + p - 1
    BY <1>4, <2>1 DEF Runs, RunFrom, Length
  <2>4. ASSUME NEW p \in 1 .. Length(n)
        PROVE  file[n][p] \in Lo(n) .. Hi(n) /\ file[n][p] # 0
    BY <2>2, <2>3, <2>4
  <2>5. ASSUME NEW r \in Lo(n) .. Hi(n)
        PROVE  \E p \in 1 .. Length(n) : file[n][p] = r
    <3>1. r - Lo(n) + 1 \in 1 .. Length(n) /\ Lo(n) + (r - Lo(n) + 1) - 1 = r
      BY <2>2, <2>5
    <3>2. QED BY <2>3, <3>1
  <2>6. 0 \notin Lo(n) .. Hi(n)
    BY <2>2, <2>3
  <2>7. Size!Records(n) = Lo(n) .. Hi(n)
    BY <1>1, <2>4, <2>5, <2>6 DEF Size!Records, Size!ToSet
  <2>8. QED BY <2>1, <2>7
<1>5. QED BY <1>2, <1>3, <1>4

LEMMA KeptAre ==
  ASSUME SizeTypes, Runs
  PROVE  /\ \A r \in Size!Kept : (r \in Int /\ InBackup(r)) \/ (There(0) /\ r \in Base .. written)
         /\ \A r \in Int : InBackup(r) => r \in Size!Kept
         /\ There(0) => \A r \in Base .. written : r \in Size!Kept
<1>1. DOMAIN file = 0 .. max /\ 0 \in 0 .. max /\ \A n \in Numbers : n \in 0 .. max /\ n # 0
  BY DEF SizeTypes, Numbers
<1>2. ASSUME NEW r \in Size!Kept
      PROVE  (r \in Int /\ InBackup(r)) \/ (There(0) /\ r \in Base .. written)
  <2>1. PICK n \in 0 .. max : r \in Size!Records(n)
    BY <1>1, <1>2 DEF Size!Kept
  <2>2. There(n)
    BY <2>1, RecordsAre
  <2>3. CASE n = 0
    BY <1>1, <2>1, <2>2, <2>3, RecordsAre
  <2>4. CASE n # 0
    <3>1. n \in Numbers /\ r \in Lo(n) .. Hi(n)
      BY <2>1, <2>2, <2>4, RecordsAre
    <3>2. Lo(n) \in Nat /\ Hi(n) \in Nat
      BY <2>2, <3>1, EndsAre
    <3>3. r \in Int /\ Lo(n) <= r /\ r <= Hi(n)
      BY <3>1, <3>2
    <3>4. QED BY <2>2, <3>1, <3>3 DEF InBackup
  <2>5. QED BY <2>3, <2>4
<1>3. ASSUME NEW r \in Int, InBackup(r)
      PROVE  r \in Size!Kept
  <2>1. PICK n \in Numbers : There(n) /\ Lo(n) <= r /\ r <= Hi(n)
    BY <1>3 DEF InBackup
  <2>2. Lo(n) \in Nat /\ Hi(n) \in Nat /\ n \in 0 .. max /\ n # 0
    BY <1>1, <2>1, EndsAre
  <2>3. r \in Lo(n) .. Hi(n)
    BY <1>3, <2>1, <2>2
  <2>4. r \in Size!Records(n)
    BY <2>1, <2>2, <2>3, RecordsAre
  <2>5. QED BY <1>1, <2>2, <2>4 DEF Size!Kept
<1>4. ASSUME There(0), NEW r \in Base .. written
      PROVE  r \in Size!Kept
  <2>1. r \in Size!Records(0)
    BY <1>1, <1>4, RecordsAre
  <2>2. QED BY <1>1, <2>1 DEF Size!Kept
<1>5. QED BY <1>2, <1>3, <1>4

\* A record that is lost is older than all that the files should hold.
LEMMA Apart ==
  ASSUME NEW S, NEW T, IsFiniteSet(S), IsFiniteSet(T), S \cap T = {}
  PROVE  Cardinality(S \cup T) = Cardinality(S) + Cardinality(T)
<1>1. Cardinality(S \cup T) = Cardinality(S) + Cardinality(T) - Cardinality(S \cap T)
  BY FS_Union
<1>2. Cardinality(S \cap T) = 0
  BY FS_EmptySet
<1>3. Cardinality(S) \in Nat /\ Cardinality(T) \in Nat
  BY FS_CardinalityType
<1>4. QED BY <1>1, <1>2, <1>3

LEMMA LostAreOld ==
  ASSUME SizeInv, append, failures = 0, NEW r \in 1 .. Base - 1, ~InBackup(r)
  PROVE  r <= written - (max - crashes) * MaxSize
<1>1. /\ SizeTypes /\ Runs /\ NoGap /\ Filled /\ FewHoles /\ Rolling /\ Base \in Int
      /\ max \in Nat /\ crashes \in Nat /\ written \in Nat /\ MaxSize \in Nat \ {0}
      /\ 0 \in 0 .. max /\ Made
  BY LogsAssumption, BaseIs DEF SizeInv, SizeTypes, Whole
<1> DEFINE Present == {n \in Numbers : There(n)}
           c == Cardinality(Present)
           one == IF rolling = "shift" THEN 1 ELSE 0
<1>2. Present \subseteq Numbers /\ IsFiniteSet(Present) /\ c \in Nat
  BY <1>1, NumbersFinite
<1>3. Cardinality(Missing) <= crashes /\ Cardinality(Missing) \in Nat
  BY <1>1, MissingFinite DEF FewHoles, Lost
<1>4. max = c + Cardinality(Missing) + one
  <2>1. CASE rolling = "shift"
    <3>1. Numbers = (Present \cup Missing) \cup {shift} /\ shift \notin Present \cup Missing
      BY <1>1, <2>1 DEF Missing, Room, Made, SizeTypes
    <3>2. IsFiniteSet(Present \cup Missing) /\ Cardinality(Present \cup Missing) \in Nat
      <4>1. Present \cup Missing \subseteq Numbers
        BY DEF Missing
      <4>2. QED BY <1>1, <4>1, NumbersFinite
    <3>3. Cardinality(Numbers) = Cardinality(Present \cup Missing) + 1
      BY <3>1, <3>2, FS_AddElement
    <3>4. Present \cap Missing = {}
      BY DEF Missing
    <3>5. Cardinality(Present \cup Missing) = c + Cardinality(Missing)
      <4>1. IsFiniteSet(Missing)
        BY <1>1, MissingFinite
      <4>2. QED BY <1>2, <3>4, <4>1, Apart
    <3>6. QED BY <1>1, <1>2, <1>3, <2>1, <3>3, <3>5, NumbersFinite
  <2>2. CASE rolling # "shift"
    <3>1. Numbers = Present \cup Missing /\ Present \cap Missing = {}
      BY <2>2 DEF Missing, Room
    <3>2. IsFiniteSet(Missing)
      BY <1>1, MissingFinite
    <3>3. Cardinality(Present \cup Missing) = c + Cardinality(Missing)
      BY <1>2, <3>1, <3>2, Apart
    <3>4. max = c + Cardinality(Missing)
      <4>1. Cardinality(Numbers) = max
        BY <1>1, NumbersFinite
      <4>2. QED BY <3>1, <3>3, <4>1
    <3>5. QED BY <1>1, <1>2, <1>3, <2>2, <3>4
  <2>3. QED BY <2>1, <2>2
<1>5. one \in {0, 1} /\ Base <= written + 1 - MaxSize * one
  <2>1. CASE rolling = "shift"
    <3>1. Base = written + 1 - Length(0) /\ Length(0) >= MaxSize /\ Length(0) \in Nat
      BY <1>1, <2>1, FileParts, BaseIs DEF Rolling
    <3>2. one = 1 /\ MaxSize * 1 = MaxSize
      BY <1>1, <2>1
    <3>3. QED BY <1>1, <3>1, <3>2
  <2>2. CASE rolling # "shift"
    <3>1. one = 0 /\ MaxSize * 0 = 0
      BY <1>1, <2>2
    <3>2. QED BY <1>1, <3>1, BaseIs
  <2>3. QED BY <2>1, <2>2
<1>6. r + MaxSize * c < Base
  <2>1. CASE Present = {}
    <3>1. c = 0 /\ MaxSize * 0 = 0
      BY <1>1, <2>1, FS_EmptySet
    <3>2. QED BY <1>1, <3>1
  <2>2. CASE Present # {}
    <3>1. \A n \in Present : n \in Int /\ n <= max
      BY <1>1 DEF Numbers
    <3>2. PICK top \in Present : \A n \in Present : n <= top
      <4>1. Present \subseteq Int /\ max \in Int
        BY <1>1, <3>1
      <4>2. QED BY <2>2, <3>1, <4>1, GreatestNumber
    <3>3. Newer(top) = Present
      BY <1>1, <3>1, <3>2 DEF Newer, Numbers
    <3>4. top \in Numbers /\ There(top) /\ Lo(top) + MaxSize * c <= Base
      BY <1>1, <3>2, <3>3 DEF Filled
    <3>5. Lo(top) \in Nat /\ MaxSize * c \in Nat
      BY <1>1, <1>2, <3>4, EndsAre, OneMore
    <3>6. r < Lo(top)
      <4>1. SUFFICES ASSUME r >= Lo(top) PROVE FALSE
        BY <1>1, <3>5
      <4>2. r \in Lo(top) .. Base - 1
        BY <1>1, <3>5, <4>1
      <4>3. QED BY <1>1, <3>4, <4>2 DEF NoGap
    <3>7. QED BY <1>1, <3>4, <3>5, <3>6
  <2>3. QED BY <2>1, <2>2
<1> HIDE DEF c, one
<1>7. max - crashes <= c + one
  BY <1>1, <1>2, <1>3, <1>4, <1>5
<1>8. (max - crashes) * MaxSize <= MaxSize * c + MaxSize * one
  <2>1. \A x, y \in Int, m \in Nat : x <= y => x * m <= y * m
    OBVIOUS
  <2>2. \A x \in Nat, y \in {0, 1}, m \in Nat : (x + y) * m = m * x + m * y
    OBVIOUS
  <2>3. max - crashes \in Int /\ c + one \in Int
    BY <1>1, <1>2, <1>5
  <2>4. (max - crashes) * MaxSize <= (c + one) * MaxSize
    BY <1>1, <1>7, <2>1, <2>3
  <2>5. QED BY <1>1, <1>2, <1>5, <2>2, <2>4
<1>9. QED
  <2>1. \A x, y \in Int : x * y \in Int
    OBVIOUS
  <2>2. /\ (max - crashes) * MaxSize \in Int /\ MaxSize * c \in Int /\ MaxSize * one \in Int
        /\ r \in Int
    BY <1>1, <1>2, <1>5, <2>1
  <2>3. QED BY <1>1, <1>5, <1>6, <1>8, <2>2

LEMMA NewestAreKept == SizeInv => Size!NewestKept
<1> SUFFICES ASSUME SizeInv, append PROVE Size!NewestKept
  BY DEF Size!NewestKept
<1>1. SizeTypes /\ Runs /\ Rolling /\ Recent /\ (failures = 0 => NoGap)
  BY DEF SizeInv, Whole
<1>2. /\ DOMAIN file = 0 .. max /\ written \in Nat /\ max \in Nat /\ Base \in Int /\ 0 \in 0 .. max
      /\ There(0) => Base = written + 1 - Length(0)
      /\ ~There(0) => Base = written + 1
  BY <1>1, BaseIs DEF SizeTypes
<1>3. ASSUME NEW n \in 0 .. max, NEW p \in 2 .. Len(file[n])
      PROVE  file[n][p] = file[n][p - 1] + 1
  <2>1. /\ Length(n) \in Nat /\ Length(n) # 1
        /\ p \in 1 .. Length(n) /\ p - 1 \in 1 .. Length(n)
    <3>1. Length(n) \in Nat /\ p \in 2 .. Length(n)
      BY <1>1, <1>3, FileParts DEF Length
    <3>2. QED BY <3>1
  <2>2. There(n)
    <3>1. Len(<<0>>) = 1
      OBVIOUS
    <3>2. QED BY <2>1, <3>1 DEF There, Size!Absent, Length
  <2>3. \E first \in Int : RunFrom(file[n], first)
    <3>1. CASE n = 0
      BY <1>1, <1>2, <2>2, <3>1 DEF Runs
    <3>2. CASE n # 0
      <4>1. n \in Numbers
        BY <1>2, <3>2 DEF Numbers
      <4>2. QED BY <1>1, <2>2, <4>1, EndsAre DEF Runs
    <3>3. QED BY <3>1, <3>2
  <2>4. PICK first \in Int : \A q \in 1 .. Length(n) : file[n][q] = first + q - 1
    BY <2>3 DEF RunFrom, Length
  <2>5. file[n][p] = first + p - 1 /\ file[n][p - 1] = first + (p - 1) - 1
    BY <2>1, <2>4
  <2>6. QED BY <2>1, <2>4, <2>5
<1>4. ASSUME NEW j \in 0 .. max, NEW n \in 0 .. max, j < n,
             NEW new \in Size!Records(j), NEW old \in Size!Records(n)
      PROVE  old < new
  <2>1. There(j) /\ There(n) /\ n # 0
    BY <1>1, <1>4, RecordsAre
  <2>2. n \in Numbers /\ old \in Lo(n) .. Hi(n) /\ Hi(n) < Base /\ Lo(n) \in Nat /\ Hi(n) \in Nat
    BY <1>1, <1>4, <2>1, RecordsAre, EndsAre DEF Runs
  <2>3. CASE j = 0
    <3>1. new \in Base .. written
      BY <1>1, <1>2, <1>4, <2>1, <2>3, RecordsAre
    <3>2. QED BY <1>2, <2>2, <3>1
  <2>4. CASE j # 0
    <3>1. j \in Numbers /\ new \in Lo(j) .. Hi(j) /\ Lo(j) \in Nat /\ Hi(j) \in Nat
      BY <1>1, <1>4, <2>1, <2>4, RecordsAre, EndsAre
    <3>2. Hi(n) < Lo(j)
      BY <1>1, <1>4, <2>1, <2>2, <3>1 DEF Runs
    <3>3. QED BY <2>2, <3>1, <3>2
  <2>5. QED BY <2>3, <2>4
<1>5. ASSUME NEW q \in Base .. written
      PROVE  q \in Size!Kept
  <2>1. There(0)
    BY <1>2, <1>5
  <2>2. QED BY <1>1, <1>5, <2>1, KeptAre
<1>6. ASSUME failures = 0, NEW r \in Size!Kept, NEW q \in r .. written
      PROVE  q \in Size!Kept
  <2>1. CASE There(0) /\ r \in Base .. written
    <3>1. q \in Base .. written
      BY <1>2, <1>6, <2>1
    <3>2. QED BY <1>5, <3>1
  <2>2. CASE r \in Int /\ InBackup(r)
    <3>1. PICK n \in Numbers : There(n) /\ Lo(n) <= r
      BY <2>2 DEF InBackup
    <3>2. Lo(n) \in Nat
      BY <1>1, <3>1, EndsAre
    <3>3. CASE q \in Base .. written
      BY <1>5, <3>3
    <3>4. CASE q \notin Base .. written
      <4>1. q \in Lo(n) .. Base - 1 /\ q \in Int
        BY <1>2, <1>6, <2>2, <3>1, <3>2, <3>4
      <4>2. InBackup(q)
        BY <1>1, <1>6, <3>1, <4>1 DEF NoGap
      <4>3. QED BY <1>1, <4>1, <4>2, KeptAre
    <3>5. QED BY <3>3, <3>4
  <2>3. QED BY <1>1, <1>6, <2>1, <2>2, KeptAre
<1>7. ASSUME failures = 0, NEW r \in 1 .. written, r > written - (max - crashes) * MaxSize
      PROVE  r \in Size!Kept
  <2>1. CASE r \in Base .. written
    BY <1>5, <2>1
  <2>2. CASE r \notin Base .. written
    <3>1. r \in 1 .. Base - 1 /\ r \in Int
      BY <1>2, <1>7, <2>2
    <3>2. InBackup(r)
      <4>1. SUFFICES ASSUME ~InBackup(r) PROVE FALSE
        OBVIOUS
      <4>2. r <= written - (max - crashes) * MaxSize
        BY <1>7, <3>1, <4>1, LostAreOld
      <4>3. written - (max - crashes) * MaxSize \in Int
        BY <1>1, <1>2, LogsAssumption DEF SizeTypes
      <4>4. QED BY <1>7, <3>1, <4>2, <4>3
    <3>3. QED BY <1>1, <3>1, <3>2, KeptAre
  <2>3. QED BY <2>1, <2>2
<1>8. \A n \in 0 .. max : Len(file[n]) <= MaxSize + crashes + failures
  BY <1>1 DEF Rolling, Length, Cap
<1>9. ASSUME NEW r \in 1 .. written, r > written - MaxSize
      PROVE  r \in Size!Kept
  <2>1. CASE r \in Base .. written
    BY <1>5, <2>1
  <2>2. CASE r \notin Base .. written
    <3>1. r \in Int /\ 1 <= r /\ r < Base /\ MaxSize \in Nat \ {0} /\ Length(0) \in Nat
      BY <1>1, <1>2, <1>9, <2>2, FileParts, LogsAssumption
    <3>2. Base # 1 /\ ~(There(0) /\ Length(0) >= MaxSize)
      BY <1>2, <1>9, <3>1
    <3>3. 1 \in Numbers /\ There(1) /\ Hi(1) = Base - 1 /\ Lo(1) + MaxSize <= Base
      BY <1>1, <3>2 DEF Recent, Numbers, SizeTypes
    <3>4. Lo(1) \in Nat
      BY <1>1, <3>3, EndsAre
    <3>5. Lo(1) <= r /\ r <= Hi(1)
      BY <1>2, <1>9, <3>1, <3>3, <3>4
    <3>6. QED BY <1>1, <3>1, <3>3, <3>5, KeptAre DEF InBackup
  <2>3. QED BY <2>1, <2>2
<1>10. QED BY <1>2, <1>3, <1>4, <1>6, <1>7, <1>8, <1>9 DEF Size!NewestKept

LEMMA SizeKeeps ==
  ASSUME SizeInv, [Size!Next]_sizeOf
  PROVE  SizeInv'
<1>1. CASE UNCHANGED sizeOf
  <2>1. SizeInv' = SizeInv
    BY <1>1 DEF sizeOf, SizeInv, SizeTypes, Runs, NoGap, Filled, FewHoles, Rolling, There, Lo, Hi,
                Length, Base, Numbers, RunFrom, InBackup, Newer, Missing, Room, Holes, Lost,
                Cap, Recent, Made, Whole
  <2>2. QED BY <2>1
<1>2. CASE Size!Next
  BY <1>2, OpenKeeps, LogKeeps, MeasureKeeps, MeasureFails, ShiftKeeps, ShiftFails,
     CurrentKeeps, CurrentFails, CrashKeeps DEF Size!Next
<1>3. QED BY <1>1, <1>2

----------------------------------------------------------------------------
(* Log files that roll over by day.                                         *)

Running == daily \in {"idle", "roll", "write"}

LogFiles == [records : SUBSET [logged : Nat, at : Nat], mtime : Nat]

DailyTypes ==
  /\ maxDaysToKeep \in Nat /\ had \subseteq Nat /\ appends \in BOOLEAN /\ now \in 0 .. MaxTime
  /\ daily # "start" => maxDaysToKeep \in had
  /\ current \in LogFiles /\ dated \in [Daily!Days -> LogFiles]
  /\ logs_time \in 0 .. Daily!Day(now) /\ t \in 0 .. now
  /\ dailyFd \in {"none", "current", "gone"}
  /\ daily \in {"start", "idle", "roll", "open", "scan", "write"}
  /\ records \subseteq [logged : Nat, at : Nat] /\ failed \in BOOLEAN /\ deaths \in Nat

\* A file was last written when its last record was, or it was made.
Dates ==
  /\ \A r \in current.records : r.logged <= r.at /\ r.at <= current.mtime
  /\ \A d \in Daily!Days : \A r \in dated[d].records :
       r.logged <= r.at /\ r.at <= dated[d].mtime
  /\ current = Daily!Absent \/ current.mtime <= now
  /\ dailyFd = "current" => current # Daily!Absent

\* A call takes less than a day, and is of the day of the file when it writes;
\* the file is new when it rolled over and the rename did not fail.
Calls ==
  /\ daily \notin {"start", "idle"} => now < t + PerDay
  /\ daily \in {"roll", "open", "scan"} => logs_time < Daily!Day(t)
  /\ daily = "write" => logs_time = Daily!Day(t)
  /\ ~failed /\ daily = "open" => current = Daily!Absent
  /\ ~failed /\ daily \in {"open", "scan"} => current.records = {}
  /\ ~failed /\ daily = "scan" => current = Daily!Absent \/ t <= current.mtime

\* A file that is gone was old, or none is kept for a day.
Gone == dailyFd = "gone" \/ lost # {} => failed \/ Daily!Brief

\* The day of the file that there is, or that a new one would have.
DayOfFile == IF current = Daily!Absent THEN Daily!Day(now) ELSE Daily!Day(current.mtime)

\* No file of a day that is over has the name that the current one gets.
NameFree ==
  \A d \in Daily!Days : dated[d].records # {} =>
    /\ d < DayOfFile
    /\ Running => d < logs_time
    /\ daily \in {"open", "scan"} => d <= logs_time

\* The day a file is of is that of its records, but for a day with each death,
\* and for a rename that failed.
DayRight ==
  \A r \in current.records :
    /\ daily # "start" => Daily!Day(r.logged) <= logs_time
    /\ ~failed /\ Running => /\ logs_time <= Daily!Day(r.logged) + deaths
                             /\ Daily!Day(current.mtime) <= logs_time + 1
    /\ ~failed /\ daily = "start" => Daily!Day(current.mtime) <= Daily!Day(r.logged) + deaths

\* DaysKept in parts.
StillThere ==
  appends => \A r \in records \ lost :
    \/ r \in current.records \/ \E d \in Daily!Days : r \in dated[d].records
    \/ Daily!Aged(r.at)
OfTheDay ==
  \A d \in Daily!Days : \A r \in dated[d].records :
    d >= Daily!Day(r.logged) /\ (failed \/ d <= Daily!Day(r.logged) + deaths)

DailyInv ==
  DailyTypes /\ Dates /\ Calls /\ Gone /\ NameFree /\ DayRight /\ StillThere /\ OfTheDay

LEMMA DaysAreKept == DailyInv => Daily!DaysKept
BY DEF DailyInv, Gone, StillThere, OfTheDay, Daily!DaysKept

LEMMA QuotientIs ==
  ASSUME NEW x \in Nat, NEW m \in Nat \ {0}
  PROVE  /\ x \div m \in Nat
         /\ m * (x \div m) <= x /\ x < m * (x \div m) + m
OBVIOUS

LEMMA RemainderIs ==
  ASSUME NEW x \in Nat, NEW y \in Nat, NEW m \in Nat \ {0}
  PROVE  (x * y) % m \in Nat
<1>1. x * y \in Nat
  OBVIOUS
<1>2. \A z \in Nat : z % m \in Nat
  OBVIOUS
<1>3. QED BY <1>1, <1>2

LEMMA DayIs ==
  ASSUME NEW x \in Nat
  PROVE  /\ Daily!Day(x) \in Nat
         /\ PerDay * Daily!Day(x) <= x /\ x < PerDay * Daily!Day(x) + PerDay
BY QuotientIs, LogsAssumption DEF Daily!Day

LEMMA Products ==
  ASSUME NEW m \in Nat, NEW x \in Int, NEW y \in Int, x <= y
  PROVE  m * x <= m * y /\ m * x \in Int /\ m * y \in Int /\ m * (x + 1) = m * x + m
OBVIOUS

\* Days come one after the other.
LEMMA DaysGoOn ==
  ASSUME NEW x \in Nat, NEW y \in Nat
  PROVE  /\ x <= y => Daily!Day(x) <= Daily!Day(y)
         /\ y < x + PerDay => Daily!Day(y) <= Daily!Day(x) + 1
<1> DEFINE a == Daily!Day(x)
           b == Daily!Day(y)
<1>1. /\ a \in Nat /\ PerDay * a <= x /\ x < PerDay * a + PerDay
      /\ b \in Nat /\ PerDay * b <= y /\ y < PerDay * b + PerDay
      /\ PerDay \in Nat \ {0}
  BY DayIs, LogsAssumption
<1> HIDE DEF a, b
<1>2. ASSUME x <= y, b < a
      PROVE  FALSE
  <2>1. b + 1 <= a
    BY <1>1, <1>2
  <2>2. PerDay * b + PerDay <= PerDay * a /\ PerDay * a \in Int /\ PerDay * b \in Int
    BY <1>1, <2>1, Products
  <2>3. QED BY <1>1, <1>2, <2>2
<1>3. ASSUME y < x + PerDay, a + 1 < b
      PROVE  FALSE
  <2>1. (a + 1) + 1 <= b /\ a + 1 \in Nat
    BY <1>1, <1>3
  <2>2. /\ PerDay * (a + 1) + PerDay <= PerDay * b /\ PerDay * b \in Int
        /\ PerDay * (a + 1) = PerDay * a + PerDay /\ PerDay * a \in Int
    BY <1>1, <2>1, Products
  <2>3. QED BY <1>1, <1>3, <2>2
<1>4. QED BY <1>1, <1>2, <1>3 DEF a, b

LEMMA DailyFacts ==
  ASSUME DailyTypes
  PROVE  /\ now \in Nat /\ now <= MaxTime /\ t \in Nat /\ t <= now /\ deaths \in Nat
         /\ logs_time \in Nat /\ logs_time <= Daily!Day(now) /\ Daily!Day(now) \in Daily!Days
         /\ logs_time \in Daily!Days /\ Daily!Days \subseteq Nat
         /\ Daily!Day(t) \in Nat /\ Daily!Day(t) <= Daily!Day(now)
         /\ current.mtime \in Nat /\ Daily!Day(current.mtime) \in Nat
         /\ \A r \in current.records : r.logged \in Nat /\ r.at \in Nat
         /\ \A d \in Daily!Days : dated[d] \in LogFiles /\ dated[d].mtime \in Nat
         /\ \A r \in records : r.logged \in Nat /\ r.at \in Nat
         /\ Daily!Keep \in Nat /\ (\A days \in had : Daily!KeepFor(days) \in Nat)
         /\ PerDay \in Nat \ {0} /\ MaxTime \in Nat
<1>1. /\ now \in Nat /\ now <= MaxTime /\ t \in Nat /\ t <= now /\ deaths \in Nat
      /\ MaxTime \in Nat /\ PerDay \in Nat \ {0}
  BY LogsAssumption DEF DailyTypes
<1>2. /\ Daily!Day(now) \in Nat /\ Daily!Day(t) \in Nat /\ Daily!Day(MaxTime) \in Nat
      /\ Daily!Day(now) <= Daily!Day(MaxTime) /\ Daily!Day(t) <= Daily!Day(now)
  BY <1>1, DayIs, DaysGoOn
<1>3. logs_time \in Nat /\ logs_time <= Daily!Day(now)
  BY <1>2 DEF DailyTypes
<1>4. /\ Daily!Days \subseteq Nat /\ logs_time \in Daily!Days /\ Daily!Day(now) \in Daily!Days
  BY <1>2, <1>3 DEF Daily!Days
<1>5. /\ current.mtime \in Nat /\ current.records \subseteq [logged : Nat, at : Nat]
      /\ \A d \in Daily!Days : dated[d] \in LogFiles /\ dated[d].mtime \in Nat
  BY DEF DailyTypes, LogFiles
<1>6. /\ Daily!Day(current.mtime) \in Nat
      /\ \A r \in current.records : r.logged \in Nat /\ r.at \in Nat
      /\ \A r \in records : r.logged \in Nat /\ r.at \in Nat
  BY <1>5, DayIs DEF DailyTypes
<1>7. Daily!Keep \in Nat /\ \A days \in had : Daily!KeepFor(days) \in Nat
  BY <1>1, LogsAssumption, RemainderIs DEF Daily!Keep, Daily!KeepFor, DailyTypes
<1>8. QED BY <1>1, <1>2, <1>3, <1>4, <1>5, <1>6, <1>7

LEMMA AbsentIs ==
  /\ Daily!Absent.records = {} /\ Daily!Absent.mtime = MaxTime + 1 /\ Daily!Absent \in LogFiles
  /\ Daily!Empty.records = {} /\ Daily!Empty.mtime = now
  /\ now \in Nat => Daily!Empty \in LogFiles
  /\ now \in Nat /\ now <= MaxTime => Daily!Empty # Daily!Absent
BY LogsAssumption DEF Daily!Absent, Daily!Empty, LogFiles

LEMMA OpenedIs ==
  ASSUME DailyTypes, Dates
  PROVE  /\ Daily!Opened \in LogFiles /\ Daily!Opened.records \subseteq current.records
         /\ Daily!Opened # Daily!Absent /\ Daily!Opened.mtime \in Nat /\ Daily!Opened.mtime <= now
         /\ DayOfFile \in Nat /\ DayOfFile <= Daily!Day(Daily!Opened.mtime)
         /\ Daily!Day(Daily!Opened.mtime) <= Daily!Day(now)
         /\ appends => Daily!Opened.records = current.records
         /\ Daily!Opened = current \/ (Daily!Opened.records = {} /\ Daily!Opened.mtime = now)
         /\ current = Daily!Absent => Daily!Opened.mtime = now /\ Daily!Opened.records = {}
<1>1. /\ now \in Nat /\ now <= MaxTime /\ current \in LogFiles /\ current.mtime \in Nat
      /\ Daily!Day(current.mtime) \in Nat /\ Daily!Day(now) \in Nat
      /\ current # Daily!Absent => Daily!Day(current.mtime) <= Daily!Day(now)
      /\ current # Daily!Absent => current.mtime <= now
  BY DailyFacts, DayIs, DaysGoOn DEF DailyTypes, Dates
<1>2. /\ Daily!Empty.records = {} /\ Daily!Empty.mtime = now /\ Daily!Empty \in LogFiles
      /\ Daily!Empty # Daily!Absent /\ Daily!Absent.records = {}
  BY <1>1, AbsentIs
<1>3. CASE appends /\ current # Daily!Absent
  <2>1. Daily!Opened = current
    BY <1>3 DEF Daily!Opened
  <2>2. QED BY <1>1, <1>3, <2>1 DEF DayOfFile
<1>4. CASE ~(appends /\ current # Daily!Absent)
  <2>1. Daily!Opened = Daily!Empty
    BY <1>4 DEF Daily!Opened
  <2>2. QED BY <1>1, <1>2, <1>4, <2>1 DEF DayOfFile
<1>5. QED BY <1>3, <1>4

LEMMA DailyInit == Daily!Init => DailyInv
<1> SUFFICES ASSUME Daily!Init PROVE DailyInv
  OBVIOUS
<1>1. /\ now = 0 /\ current = Daily!Absent /\ current.records = {} /\ logs_time = 0 /\ t = 0
      /\ daily = "start" /\ dailyFd = "none" /\ records = {} /\ lost = {} /\ deaths = 0
      /\ maxDaysToKeep = 0 /\ had = {} /\ appends \in BOOLEAN /\ failed = FALSE
      /\ dated = [d \in Daily!Days |-> Daily!Absent] /\ Daily!Absent \in LogFiles
  BY AbsentIs, LogsAssumption DEF Daily!Init
<1>2. \A d \in Daily!Days : dated[d].records = {}
  BY <1>1, AbsentIs
<1>3. DailyTypes
  <2>1. 0 \in 0 .. Daily!Day(0) /\ 0 \in 0 .. MaxTime /\ 0 \in Nat
    BY DayIs, LogsAssumption
  <2>2. dated \in [Daily!Days -> LogFiles]
    BY <1>1
  <2>3. now \in 0 .. MaxTime /\ logs_time \in 0 .. Daily!Day(now) /\ t \in 0 .. now
    BY <1>1, <2>1
  <2>4. QED BY <1>1, <2>1, <2>2, <2>3 DEF DailyTypes
<1>4. Dates /\ Calls /\ Gone
  BY <1>1, <1>2 DEF Dates, Calls, Gone
<1>5. NameFree /\ DayRight /\ StillThere /\ OfTheDay
  BY <1>1, <1>2 DEF NameFree, DayRight, StillThere, OfTheDay
<1>6. QED BY <1>3, <1>4, <1>5 DEF DailyInv

LEMMA ConstructKeeps ==
  ASSUME DailyInv, Daily!Construct
  PROVE  DailyInv'
<1>1. DailyTypes /\ Dates /\ Calls /\ Gone /\ NameFree /\ DayRight /\ StillThere /\ OfTheDay
  BY DEF DailyInv
<1>2. /\ daily = "start" /\ daily' = "idle" /\ current' = Daily!Opened /\ dailyFd' = "current"
      /\ logs_time' = Daily!Day(Daily!Opened.mtime) /\ now' = now /\ dated' = dated
      /\ t' = t /\ records' = records /\ deaths' = deaths /\ lost' = lost /\ failed' = failed
      /\ maxDaysToKeep' \in Nat /\ had' = had \cup {maxDaysToKeep'} /\ appends' = appends
  BY LogsAssumption DEF Daily!Construct
<1>3. /\ current' \in LogFiles /\ current'.records \subseteq current.records
      /\ current' # Daily!Absent /\ current'.mtime \in Nat /\ current'.mtime <= now
      /\ logs_time' = Daily!Day(current'.mtime) /\ DayOfFile <= logs_time'
      /\ logs_time' <= Daily!Day(now) /\ DayOfFile \in Nat
      /\ appends => current'.records = current.records
      /\ current' = current \/ current'.records = {}
  BY <1>1, <1>2, OpenedIs
<1>4. DayOfFile' = logs_time' /\ logs_time' \in Nat
  BY <1>2, <1>3, DayIs DEF DayOfFile
<1>5. DailyTypes'
  BY <1>1, <1>2, <1>3, <1>4, DailyFacts DEF DailyTypes
<1>6. Dates'
  BY <1>1, <1>2, <1>3 DEF Dates
<1>7. Calls' /\ Gone'
  BY <1>1, <1>2 DEF Calls, Gone, Daily!Aged, Daily!Brief
<1>8. NameFree'
  <2>1. ASSUME NEW d \in Daily!Days, dated[d].records # {}
        PROVE  d < logs_time'
    <3>1. d < DayOfFile /\ d \in Nat
      BY <1>1, <2>1, DailyFacts DEF NameFree
    <3>2. QED BY <1>3, <1>4, <3>1
  <2>2. QED BY <1>2, <1>4, <2>1 DEF NameFree
<1>9. DayRight'
  <2>1. SUFFICES ASSUME NEW r \in current'.records
                 PROVE  /\ Daily!Day(r.logged) <= logs_time'
                        /\ ~failed => logs_time' <= Daily!Day(r.logged) + deaths
                        /\ Daily!Day(current'.mtime) <= logs_time' + 1
    BY <1>2 DEF DayRight
  <2>2. r \in current.records /\ current' = current
    BY <1>3, <2>1
  <2>3. /\ r.logged \in Nat /\ r.at \in Nat /\ current.mtime \in Nat
        /\ r.logged <= current.mtime
    BY <1>1, <2>2, DailyFacts DEF Dates
  <2>4. Daily!Day(r.logged) <= Daily!Day(current.mtime)
    BY <2>3, DaysGoOn
  <2>5. ~failed => Daily!Day(current.mtime) <= Daily!Day(r.logged) + deaths
    BY <1>1, <1>2, <2>2 DEF DayRight
  <2>6. Daily!Day(current.mtime) <= Daily!Day(current.mtime) + 1
    BY <2>3, DayIs
  <2>7. QED BY <1>3, <2>2, <2>4, <2>5, <2>6
<1>10. StillThere' /\ OfTheDay'
  BY <1>1, <1>2, <1>3 DEF StillThere, OfTheDay, Daily!Aged, Daily!Brief
<1>11. QED BY <1>5, <1>6, <1>7, <1>8, <1>9, <1>10 DEF DailyInv

LEMMA LogCallKeeps ==
  ASSUME DailyInv, Daily!Log
  PROVE  DailyInv'
<1>1. DailyTypes /\ Dates /\ Calls /\ Gone /\ NameFree /\ DayRight /\ StillThere /\ OfTheDay
  BY DEF DailyInv
<1>2. /\ daily = "idle" /\ daily' = IF Daily!Day(now) # logs_time THEN "roll" ELSE "write"
      /\ current' = current /\ dailyFd' = dailyFd /\ logs_time' = logs_time /\ now' = now
      /\ dated' = dated /\ t' = now /\ records' = records /\ deaths' = deaths /\ lost' = lost
      /\ failed' = failed /\ maxDaysToKeep' = maxDaysToKeep /\ had' = had /\ appends' = appends
  BY DEF Daily!Log, Daily!options
<1>3. DailyTypes'
  BY <1>1, <1>2, DailyFacts DEF DailyTypes
<1>4. Dates' /\ Gone' /\ DayOfFile' = DayOfFile
  BY <1>1, <1>2 DEF Dates, Gone, DayOfFile, Daily!Aged, Daily!Brief
<1>5. Calls'
  BY <1>1, <1>2, DailyFacts DEF Calls
<1>6. NameFree' /\ DayRight'
  BY <1>1, <1>2, <1>4 DEF NameFree, DayRight, Running
<1>7. StillThere' /\ OfTheDay'
  BY <1>1, <1>2 DEF StillThere, OfTheDay, Daily!Aged, Daily!Brief
<1>8. QED BY <1>3, <1>4, <1>5, <1>6, <1>7 DEF DailyInv

\* The file is given the name of its day.
LEMMA RollKeeps ==
  ASSUME DailyInv, Daily!Roll,
         dated' = IF current = Daily!Absent THEN dated ELSE [dated EXCEPT ![logs_time] = current],
         current' = Daily!Absent, failed' = failed
  PROVE  DailyInv'
<1>1. DailyTypes /\ Dates /\ Calls /\ Gone /\ NameFree /\ DayRight /\ StillThere /\ OfTheDay
  BY DEF DailyInv
<1>2. /\ daily = "roll" /\ daily' = "open" /\ dailyFd' = "none"
      /\ logs_time' = logs_time /\ now' = now /\ t' = t /\ records' = records
      /\ deaths' = deaths /\ lost' = lost
      /\ maxDaysToKeep' = maxDaysToKeep /\ had' = had /\ appends' = appends
  BY DEF Daily!Roll, Daily!options
<1>3. /\ current \in LogFiles /\ logs_time \in Daily!Days /\ logs_time \in Nat
      /\ Daily!Days \subseteq Nat /\ deaths \in Nat
  BY <1>1, DailyFacts DEF DailyTypes
<1>4. \A d \in Daily!Days : dated[d].records # {} => d # logs_time /\ d <= logs_time
  BY <1>1, <1>2, <1>3 DEF NameFree, Running
<1>5. /\ \A d \in Daily!Days : d # logs_time => dated'[d] = dated[d]
      /\ current # Daily!Absent => dated'[logs_time] = current
      /\ current = Daily!Absent => dated' = dated
      /\ dated' \in [Daily!Days -> LogFiles]
  BY <1>1, <1>2, <1>3 DEF DailyTypes
<1>6. DailyTypes'
  BY <1>1, <1>2, <1>5, AbsentIs DEF DailyTypes
<1>7. \A d \in Daily!Days :
        dated'[d] = dated[d] \/ (d = logs_time /\ dated'[d] = current)
  BY <1>5
<1>8. Dates'
  BY <1>1, <1>2, <1>7, AbsentIs DEF Dates
<1>9. Calls' /\ Gone'
  BY <1>1, <1>2, AbsentIs DEF Calls, Gone, Daily!Aged, Daily!Brief
<1>10. NameFree'
  <2>1. DayOfFile' = Daily!Day(now) /\ logs_time < Daily!Day(t) /\ Daily!Day(t) <= Daily!Day(now)
        /\ Daily!Day(t) \in Nat /\ Daily!Day(now) \in Nat
    BY <1>1, <1>2, DailyFacts, DayIs DEF DayOfFile, Calls
  <2>2. ASSUME NEW d \in Daily!Days, dated'[d].records # {}
        PROVE  d <= logs_time /\ d < Daily!Day(now)
    <3>1. d <= logs_time /\ d \in Nat
      BY <1>3, <1>4, <1>7, <2>2
    <3>2. QED BY <1>3, <2>1, <3>1
  <2>3. QED BY <1>2, <2>1, <2>2 DEF NameFree, Running
<1>11. DayRight'
  BY <1>2, AbsentIs DEF DayRight
<1>12. StillThere'
  <2>1. ASSUME appends, NEW r \in records \ lost
        PROVE  \/ \E d \in Daily!Days : r \in dated'[d].records
               \/ Daily!Aged(r.at)
    <3>1. CASE r \in current.records
      <4>1. current # Daily!Absent
        BY <3>1, AbsentIs
      <4>2. QED BY <1>3, <1>5, <3>1, <4>1
    <3>2. CASE \E d \in Daily!Days : r \in dated[d].records
      <4>1. PICK d \in Daily!Days : r \in dated[d].records
        BY <3>2
      <4>2. dated'[d] = dated[d]
        BY <1>4, <1>5, <4>1
      <4>3. QED BY <4>1, <4>2
    <3>3. QED BY <1>1, <2>1, <3>1, <3>2 DEF StillThere
  <2>2. QED BY <1>2, <2>1 DEF StillThere, Daily!Aged, Daily!Brief
<1>13. OfTheDay'
  <2>1. ASSUME NEW d \in Daily!Days, NEW r \in dated'[d].records
        PROVE  d >= Daily!Day(r.logged) /\ (failed \/ d <= Daily!Day(r.logged) + deaths)
    <3>1. CASE d = logs_time /\ dated'[d] = current
      <4>1. r \in current.records /\ Daily!Day(r.logged) \in Nat
        BY <1>1, <2>1, <3>1, DailyFacts, DayIs
      <4>2. /\ Daily!Day(r.logged) <= logs_time
            /\ failed \/ logs_time <= Daily!Day(r.logged) + deaths
        BY <1>1, <1>2, <4>1 DEF DayRight, Running
      <4>3. QED BY <1>3, <3>1, <4>1, <4>2
    <3>2. CASE dated'[d] = dated[d]
      BY <1>1, <2>1, <3>2 DEF OfTheDay
    <3>3. QED BY <1>7, <3>1, <3>2
  <2>2. QED BY <1>2, <2>1 DEF OfTheDay
<1>14. QED BY <1>6, <1>8, <1>9, <1>10, <1>11, <1>12, <1>13 DEF DailyInv

\* The rename fails.
LEMMA RollFails ==
  ASSUME DailyInv, Daily!Roll, failed' = TRUE, dated' = dated, current' = current
  PROVE  DailyInv'
<1>1. DailyTypes /\ Dates /\ Calls /\ Gone /\ NameFree /\ DayRight /\ StillThere /\ OfTheDay
  BY DEF DailyInv
<1>2. /\ daily = "roll" /\ daily' = "open" /\ dailyFd' = "none"
      /\ logs_time' = logs_time /\ now' = now /\ t' = t /\ records' = records
      /\ deaths' = deaths /\ lost' = lost
      /\ maxDaysToKeep' = maxDaysToKeep /\ had' = had /\ appends' = appends
  BY DEF Daily!Roll, Daily!options
<1>3. DailyTypes'
  BY <1>1, <1>2 DEF DailyTypes
<1>4. Dates' /\ Calls' /\ Gone' /\ DayOfFile' = DayOfFile
  BY <1>1, <1>2 DEF Dates, Calls, Gone, DayOfFile
<1>5. NameFree'
  <2>1. ASSUME NEW d \in Daily!Days, dated[d].records # {}
        PROVE  d < DayOfFile /\ d <= logs_time
    <3>1. d < DayOfFile /\ d < logs_time /\ d \in Nat /\ logs_time \in Nat
      BY <1>1, <1>2, <2>1, DailyFacts DEF NameFree, Running
    <3>2. QED BY <3>1
  <2>2. QED BY <1>2, <1>4, <2>1 DEF NameFree, Running
<1>6. DayRight' /\ StillThere' /\ OfTheDay'
  BY <1>1, <1>2 DEF DayRight, Running, StillThere, OfTheDay, Daily!Aged, Daily!Brief
<1>7. QED BY <1>3, <1>4, <1>5, <1>6 DEF DailyInv

LEMMA ReopenKeeps ==
  ASSUME DailyInv, Daily!Reopen
  PROVE  DailyInv'
<1>1. DailyTypes /\ Dates /\ Calls /\ Gone /\ NameFree /\ DayRight /\ StillThere /\ OfTheDay
  BY DEF DailyInv
<1>2. /\ daily = "open" /\ daily' = "scan" /\ logs_time' = logs_time /\ now' = now
      /\ dated' = dated /\ t' = t /\ records' = records /\ deaths' = deaths /\ lost' = lost
      /\ failed' = failed /\ maxDaysToKeep' = maxDaysToKeep /\ had' = had /\ appends' = appends
      /\ \/ dailyFd' = "current" /\ current' = Daily!Opened
         \/ dailyFd' = "none" /\ current' = current
  BY DEF Daily!Reopen, Daily!options
<1>3. current \in LogFiles /\ now \in Nat /\ t \in Nat /\ t <= now /\ DayOfFile \in Nat
  BY <1>1, DailyFacts, OpenedIs DEF DailyTypes
<1>4. /\ current' \in LogFiles /\ current'.records \subseteq current.records
      /\ appends => current'.records = current.records
      /\ current' = current \/ (current'.records = {} /\ current'.mtime = now)
      /\ current = Daily!Absent => current' = current \/ current'.mtime = now
      /\ dailyFd' = "current" => current' # Daily!Absent
      /\ dailyFd' \in {"none", "current"}
  BY <1>1, <1>2, <1>3, OpenedIs
<1>5. DayOfFile <= DayOfFile' /\ DayOfFile' \in Nat
  <2>1. CASE current' = current
    BY <1>2, <1>3, <2>1 DEF DayOfFile
  <2>2. CASE current' = Daily!Opened
    <3>1. DayOfFile' = Daily!Day(Daily!Opened.mtime)
      BY <1>1, <2>2, OpenedIs DEF DayOfFile
    <3>2. QED BY <1>1, <3>1, OpenedIs, DayIs
  <2>3. QED BY <1>2, <2>1, <2>2
<1>6. DailyTypes'
  BY <1>1, <1>2, <1>4 DEF DailyTypes
<1>7. now <= now
  BY <1>1, DailyFacts
<1>8. Dates'
  BY <1>1, <1>2, <1>4, <1>7 DEF Dates
<1>9. Calls' /\ Gone'
  <2>1. ~failed => current = Daily!Absent /\ current.records = {}
    BY <1>1, <1>2 DEF Calls
  <2>2. ~failed => current'.records = {} /\ (current' = Daily!Absent \/ t <= current'.mtime)
    BY <1>3, <1>4, <2>1
  <2>3. Calls'
    BY <1>1, <1>2, <2>2 DEF Calls
  <2>4. QED BY <1>1, <1>2, <1>4, <2>3 DEF Gone, Daily!Aged, Daily!Brief
<1>10. NameFree'
  <2>1. ASSUME NEW d \in Daily!Days, dated[d].records # {}
        PROVE  d < DayOfFile' /\ d <= logs_time
    <3>1. d < DayOfFile /\ d <= logs_time /\ d \in Nat
      BY <1>1, <1>2, <2>1, DailyFacts DEF NameFree
    <3>2. QED BY <1>3, <1>5, <3>1
  <2>2. QED BY <1>2, <2>1 DEF NameFree, Running
<1>11. DayRight'
  BY <1>1, <1>2, <1>4 DEF DayRight, Running
<1>12. StillThere' /\ OfTheDay'
  BY <1>1, <1>2, <1>4 DEF StillThere, OfTheDay, Daily!Aged, Daily!Brief
<1>13. QED BY <1>6, <1>8, <1>9, <1>10, <1>11, <1>12 DEF DailyInv

LEMMA OldIs ==
  ASSUME DailyTypes, NEW fl \in LogFiles
  PROVE  /\ Daily!Left(fl) \in LogFiles /\ Daily!Left(fl).records \subseteq fl.records
         /\ \/ Daily!Left(fl) = fl
            \/ /\ Daily!Left(fl) = Daily!Absent /\ Daily!Absent.records = {}
               /\ fl.mtime + Daily!Keep < now
         /\ ~Daily!Old(Daily!Absent)
<1>1. /\ Daily!Absent \in LogFiles /\ Daily!Absent.records = {} /\ Daily!Absent.mtime = MaxTime + 1
      /\ now \in Nat /\ now <= MaxTime /\ MaxTime \in Nat /\ Daily!Keep \in Nat
  BY AbsentIs, DailyFacts
<1>2. ~Daily!Old(Daily!Absent)
  BY <1>1 DEF Daily!Old
<1>3. QED BY <1>1, <1>2 DEF Daily!Left, Daily!Old

\* What is deleted is old.
LEMMA ScanSees ==
  ASSUME DailyInv, Daily!Scan
  PROVE  /\ daily = "scan" /\ daily' = "write" /\ logs_time' = Daily!Day(t) /\ now' = now
         /\ t' = t /\ records' = records /\ deaths' = deaths /\ lost' = lost /\ failed' = failed
         /\ maxDaysToKeep' = maxDaysToKeep /\ had' = had /\ appends' = appends
         /\ dated' \in [Daily!Days -> LogFiles]
         /\ \A d \in Daily!Days :
              \/ dated'[d] = dated[d]
              \/ dated'[d].records = {} /\ dated[d].mtime + Daily!Keep < now
         /\ \/ current' = current /\ dailyFd' = dailyFd
            \/ /\ current' = Daily!Absent /\ current.mtime + Daily!Keep < now
               /\ current # Daily!Absent
               /\ dailyFd' = IF dailyFd = "current" THEN "gone" ELSE dailyFd
<1>1. DailyTypes /\ Dates /\ dated \in [Daily!Days -> LogFiles] /\ current \in LogFiles
  BY DEF DailyInv, DailyTypes
<1>2. /\ daily = "scan" /\ daily' = "write" /\ logs_time' = Daily!Day(t) /\ now' = now
      /\ t' = t /\ records' = records /\ deaths' = deaths /\ lost' = lost /\ failed' = failed
      /\ maxDaysToKeep' = maxDaysToKeep /\ had' = had /\ appends' = appends
      /\ \/ /\ dated' = [d \in Daily!Days |-> Daily!Left(dated[d])]
            /\ current' = Daily!Left(current)
            /\ dailyFd' = IF dailyFd = "current" /\ Daily!Old(current) THEN "gone" ELSE dailyFd
         \/ dated' = dated /\ current' = current /\ dailyFd' = dailyFd
  BY DEF Daily!Scan, Daily!options
<1>3. CASE dated' = dated /\ current' = current /\ dailyFd' = dailyFd
  BY <1>1, <1>2, <1>3
<1>4. CASE /\ dated' = [d \in Daily!Days |-> Daily!Left(dated[d])]
           /\ current' = Daily!Left(current)
           /\ dailyFd' = IF dailyFd = "current" /\ Daily!Old(current) THEN "gone" ELSE dailyFd
  <2>1. \A d \in Daily!Days :
          /\ Daily!Left(dated[d]) \in LogFiles
          /\ \/ Daily!Left(dated[d]) = dated[d]
             \/ Daily!Left(dated[d]).records = {} /\ dated[d].mtime + Daily!Keep < now
    BY <1>1, OldIs
  <2>2. CASE Daily!Old(current)
    <3>1. current # Daily!Absent /\ current' = Daily!Absent /\ current.mtime + Daily!Keep < now
      BY <1>1, <1>4, <2>2, OldIs DEF Daily!Left, Daily!Old
    <3>2. QED BY <1>2, <1>4, <2>1, <2>2, <3>1
  <2>3. CASE ~Daily!Old(current)
    <3>1. current' = current /\ dailyFd' = dailyFd
      BY <1>4, <2>3 DEF Daily!Left
    <3>2. QED BY <1>2, <1>4, <2>1, <3>1
  <2>4. QED BY <2>2, <2>3
<1>5. QED BY <1>2, <1>3, <1>4

LEMMA ScanKeeps ==
  ASSUME DailyInv, Daily!Scan
  PROVE  DailyInv'
<1>1. DailyTypes /\ Dates /\ Calls /\ Gone /\ NameFree /\ DayRight /\ StillThere /\ OfTheDay
  BY DEF DailyInv
<1>2. /\ daily = "scan" /\ daily' = "write" /\ logs_time' = Daily!Day(t) /\ now' = now
      /\ t' = t /\ records' = records /\ deaths' = deaths /\ lost' = lost /\ failed' = failed
      /\ maxDaysToKeep' = maxDaysToKeep /\ had' = had /\ appends' = appends
      /\ dated' \in [Daily!Days -> LogFiles]
  BY ScanSees
<1>3. \A d \in Daily!Days :
        \/ dated'[d] = dated[d]
        \/ dated'[d].records = {} /\ dated[d].mtime + Daily!Keep < now
  BY ScanSees
<1>4. \/ current' = current /\ dailyFd' = dailyFd
      \/ /\ current' = Daily!Absent /\ current.mtime + Daily!Keep < now /\ current # Daily!Absent
         /\ dailyFd' = IF dailyFd = "current" THEN "gone" ELSE dailyFd
  BY ScanSees
<1>5. /\ now \in Nat /\ t \in Nat /\ t <= now /\ Daily!Keep \in Nat /\ PerDay \in Nat
      /\ logs_time \in Nat /\ Daily!Day(t) \in Nat /\ Daily!Day(now) \in Nat
      /\ Daily!Day(t) <= Daily!Day(now) /\ current.mtime \in Nat
      /\ Daily!Days \subseteq Nat /\ (current.mtime <= now \/ current = Daily!Absent)
      /\ logs_time < Daily!Day(t) /\ now < t + PerDay /\ DayOfFile \in Nat
      /\ DayOfFile <= Daily!Day(now)
      /\ Daily!Absent.records = {} /\ Daily!Absent \in LogFiles
  <2>1. DayOfFile \in Nat /\ DayOfFile <= Daily!Day(now)
    <3>1. /\ DayOfFile \in Nat /\ DayOfFile <= Daily!Day(Daily!Opened.mtime)
          /\ Daily!Day(Daily!Opened.mtime) <= Daily!Day(now)
          /\ Daily!Day(Daily!Opened.mtime) \in Nat /\ Daily!Day(now) \in Nat
      BY <1>1, OpenedIs, DayIs, DailyFacts
    <3>2. QED BY <3>1
  <2>2. QED BY <1>1, <1>2, <2>1, DailyFacts, DayIs, AbsentIs DEF Dates, Calls
<1>6. DailyTypes'
  <2>1. logs_time' \in 0 .. Daily!Day(now)
    BY <1>2, <1>5
  <2>2. current' \in LogFiles /\ dailyFd' \in {"none", "current", "gone"}
    BY <1>1, <1>4, <1>5 DEF DailyTypes
  <2>3. QED BY <1>1, <1>2, <2>1, <2>2 DEF DailyTypes
<1>7. Dates'
  BY <1>1, <1>2, <1>3, <1>4, <1>5 DEF Dates
<1>8. Calls'
  BY <1>1, <1>2 DEF Calls
<1>9. Gone'
  <2>1. ASSUME dailyFd' = "gone", ~failed
        PROVE  Daily!Brief
    <3>1. CASE dailyFd = "gone"
      BY <1>1, <2>1, <3>1 DEF Gone
    <3>2. CASE dailyFd # "gone"
      <4>1. current # Daily!Absent /\ current.mtime + Daily!Keep < now
        BY <1>4, <2>1, <3>2
      <4>2. t <= current.mtime
        BY <1>1, <1>2, <2>1, <4>1 DEF Calls
      <4>3. Daily!Keep < PerDay
        BY <1>5, <4>1, <4>2
      <4>4. QED BY <1>1, <1>2, <4>3 DEF Daily!Brief, Daily!Keep, DailyTypes
    <3>3. QED BY <3>1, <3>2
  <2>2. QED BY <1>1, <1>2, <2>1 DEF Gone, Daily!Aged, Daily!Brief
<1>10. NameFree'
  <2>1. ASSUME NEW d \in Daily!Days, dated'[d].records # {}
        PROVE  d < logs_time' /\ d < DayOfFile'
    <3>1. dated[d].records # {}
      BY <1>3, <2>1
    <3>2. d <= logs_time /\ d < DayOfFile /\ d \in Nat
      BY <1>1, <1>2, <1>5, <2>1, <3>1 DEF NameFree
    <3>3. DayOfFile' = DayOfFile \/ DayOfFile' = Daily!Day(now)
      BY <1>2, <1>4 DEF DayOfFile
    <3>4. QED BY <1>2, <1>5, <3>2, <3>3
  <2>2. QED BY <1>2, <2>1 DEF NameFree
<1>11. DayRight'
  <2>1. SUFFICES ASSUME NEW r \in current'.records
                 PROVE  failed /\ Daily!Day(r.logged) <= logs_time'
    BY <1>2 DEF DayRight, Running
  <2>2. r \in current.records
    BY <1>4, <1>5, <2>1
  <2>3. Daily!Day(r.logged) <= logs_time /\ Daily!Day(r.logged) \in Nat
    BY <1>1, <1>2, <2>2, DailyFacts, DayIs DEF DayRight
  <2>4. failed
    BY <1>1, <1>2, <2>2 DEF Calls
  <2>5. QED BY <1>2, <1>5, <2>3, <2>4
<1>12. StillThere'
  <2>1. ASSUME NEW r \in records, NEW d \in Daily!Days, r \in dated[d].records
        PROVE  r \in dated'[d].records \/ Daily!Aged(r.at)
    <3>1. CASE dated'[d] = dated[d]
      BY <2>1, <3>1
    <3>2. CASE dated[d].mtime + Daily!Keep < now
      <4>1. r.at <= dated[d].mtime
        BY <1>1, <2>1 DEF Dates
      <4>2. r.at \in Nat /\ dated[d].mtime \in Nat
        BY <1>1, <2>1, DailyFacts
      <4>3. r.at + Daily!Keep < now
        BY <1>5, <3>2, <4>1, <4>2
      <4>4. QED BY <1>1, <1>2, <4>3 DEF Daily!Aged, Daily!Keep, DailyTypes
    <3>3. QED BY <1>3, <3>1, <3>2
  <2>2. ASSUME NEW r \in records, r \in current.records
        PROVE  r \in current'.records \/ Daily!Aged(r.at)
    <3>1. CASE current' = current
      BY <2>2, <3>1
    <3>2. CASE current.mtime + Daily!Keep < now
      <4>1. r.at <= current.mtime /\ r.at \in Nat
        BY <1>1, <2>2, DailyFacts DEF Dates
      <4>2. r.at + Daily!Keep < now
        BY <1>5, <3>2, <4>1
      <4>3. QED BY <1>1, <1>2, <4>2 DEF Daily!Aged, Daily!Keep, DailyTypes
    <3>3. QED BY <1>4, <3>1, <3>2
  <2>3. QED BY <1>1, <1>2, <2>1, <2>2 DEF StillThere, Daily!Aged, Daily!Brief
<1>13. OfTheDay'
  BY <1>1, <1>2, <1>3 DEF OfTheDay
<1>14. QED BY <1>6, <1>7, <1>8, <1>9, <1>10, <1>11, <1>12, <1>13 DEF DailyInv

LEMMA WriteKeeps ==
  ASSUME DailyInv, Daily!Write
  PROVE  DailyInv'
<1>1. DailyTypes /\ Dates /\ Calls /\ Gone /\ NameFree /\ DayRight /\ StillThere /\ OfTheDay
  BY DEF DailyInv
<1>2. /\ daily = "write" /\ daily' = "idle" /\ logs_time' = logs_time /\ now' = now
      /\ dated' = dated /\ t' = t /\ dailyFd' = dailyFd /\ deaths' = deaths /\ failed' = failed
      /\ maxDaysToKeep' = maxDaysToKeep /\ had' = had /\ appends' = appends
  BY DEF Daily!Write, Daily!options
<1>3. CASE current' = current /\ records' = records /\ lost' = lost
  <2>1. DailyTypes' /\ Dates' /\ Calls' /\ Gone' /\ DayOfFile' = DayOfFile
    BY <1>1, <1>2, <1>3 DEF DailyTypes, Dates, Calls, Gone, DayOfFile, Daily!Aged, Daily!Brief
  <2>2. NameFree' /\ DayRight' /\ StillThere' /\ OfTheDay'
    BY <1>1, <1>2, <1>3, <2>1 DEF NameFree, DayRight, Running, StillThere, OfTheDay, Daily!Aged, Daily!Brief
  <2>3. QED BY <2>1, <2>2 DEF DailyInv
<1>4. ASSUME NEW new, new = [logged |-> t, at |-> now], dailyFd = "current",
             current' = [records |-> current.records \cup {new}, mtime |-> now],
             records' = records \cup {new}, lost' = lost
      PROVE  DailyInv'
  <2>1. /\ new.logged = t /\ new.at = now /\ new \in [logged : Nat, at : Nat]
        /\ current'.records = current.records \cup {new} /\ current'.mtime = now
        /\ current' \in LogFiles
    BY <1>1, <1>4, DailyFacts DEF DailyTypes, LogFiles
  <2>2. /\ now \in Nat /\ t \in Nat /\ t <= now /\ now < t + PerDay /\ logs_time = Daily!Day(t)
        /\ current.mtime \in Nat /\ current.mtime <= now /\ deaths \in Nat /\ logs_time \in Nat
    BY <1>1, <1>2, <1>4, DailyFacts DEF Calls, Dates
  <2>3. DailyTypes'
    BY <1>1, <1>2, <1>4, <2>1 DEF DailyTypes
  <2>4. ASSUME NEW r \in current.records
        PROVE  r.logged <= r.at /\ r.at <= now
    BY <1>1, <2>2, <2>4, DailyFacts DEF Dates
  <2>5. current' # Daily!Absent
    BY <2>1, AbsentIs
  <2>6. Dates'
    BY <1>1, <1>2, <2>1, <2>2, <2>4, <2>5 DEF Dates
  <2>7. Calls' /\ Gone'
    BY <1>1, <1>2, <1>4, DailyFacts DEF Calls, Gone, Daily!Aged, Daily!Brief
  <2>8. DayOfFile' = Daily!Day(now) /\ Daily!Day(t) <= Daily!Day(now)
        /\ Daily!Day(now) <= Daily!Day(t) + 1 /\ Daily!Day(now) \in Nat
    BY <2>1, <2>2, <2>5, DaysGoOn, DayIs DEF DayOfFile
  <2>9. NameFree'
    <3>1. ASSUME NEW d \in Daily!Days, dated[d].records # {}
          PROVE  d < Daily!Day(now) /\ d < logs_time
      <4>1. d < logs_time /\ d \in Nat
        BY <1>1, <1>2, <3>1, DailyFacts DEF NameFree, Running
      <4>2. QED BY <2>2, <2>8, <4>1
    <3>2. QED BY <1>2, <2>8, <3>1 DEF NameFree, Running
  <2>10. DayRight'
    <3>1. SUFFICES ASSUME NEW r \in current.records \cup {new}
                   PROVE  /\ Daily!Day(r.logged) <= logs_time
                          /\ ~failed => logs_time <= Daily!Day(r.logged) + deaths
      BY <1>2, <2>1, <2>2, <2>8 DEF DayRight
    <3>2. CASE r = new
      BY <2>1, <2>2, <3>2
    <3>3. CASE r \in current.records
      BY <1>1, <1>2, <3>3 DEF DayRight, Running
    <3>4. QED BY <3>1, <3>2, <3>3
  <2>11. StillThere' /\ OfTheDay'
    BY <1>1, <1>2, <1>4, <2>1 DEF StillThere, OfTheDay, Daily!Aged, Daily!Brief
  <2>12. QED BY <2>3, <2>6, <2>7, <2>9, <2>10, <2>11 DEF DailyInv
<1>5. ASSUME NEW new, new = [logged |-> t, at |-> now], dailyFd = "gone",
             current' = current, records' = records \cup {new}, lost' = lost \cup {new}
      PROVE  DailyInv'
  <2>1. new \in [logged : Nat, at : Nat]
    BY <1>1, <1>5, DailyFacts
  <2>2. DailyTypes' /\ Dates' /\ Calls' /\ Gone' /\ DayOfFile' = DayOfFile
    BY <1>1, <1>2, <1>5, <2>1 DEF DailyTypes, Dates, Calls, Gone, DayOfFile, Daily!Aged, Daily!Brief
  <2>3. NameFree' /\ DayRight' /\ StillThere' /\ OfTheDay'
    BY <1>1, <1>2, <1>5, <2>2 DEF NameFree, DayRight, Running, StillThere, OfTheDay, Daily!Aged, Daily!Brief
  <2>4. QED BY <2>2, <2>3 DEF DailyInv
<1>6. dailyFd \in {"none", "current", "gone"}
  BY <1>1 DEF DailyTypes
<1>7. QED BY <1>3, <1>4, <1>5, <1>6 DEF Daily!Write

LEMMA DeathKeeps ==
  ASSUME DailyInv, Daily!Crash
  PROVE  DailyInv'
<1>1. DailyTypes /\ Dates /\ Calls /\ Gone /\ NameFree /\ DayRight /\ StillThere /\ OfTheDay
  BY DEF DailyInv
<1>2. /\ daily # "start" /\ daily' = "start" /\ dailyFd' = "none" /\ deaths' = deaths + 1
      /\ now' = now /\ current' = current /\ dated' = dated
      /\ logs_time' = 0 /\ t' = 0 /\ records' = records /\ lost' = lost
      /\ failed' = failed /\ maxDaysToKeep' = 0 /\ had' = had /\ appends' = appends
  BY DEF Daily!Crash
<1>3. deaths \in Nat /\ logs_time \in Nat /\ DayOfFile' = DayOfFile
  BY <1>1, <1>2, DailyFacts DEF DayOfFile
<1>4. DailyTypes' /\ Dates' /\ Calls' /\ Gone'
  <2>1. DailyTypes'
    <3>1. 0 \in 0 .. Daily!Day(now) /\ 0 \in 0 .. now /\ 0 \in Nat /\ deaths + 1 \in Nat
      BY <1>1, <1>3, DailyFacts, DayIs
    <3>2. QED BY <1>1, <1>2, <3>1 DEF DailyTypes
  <2>2. Dates'
    BY <1>1, <1>2 DEF Dates
  <2>3. Calls'
    BY <1>2 DEF Calls
  <2>4. Gone'
    BY <1>1, <1>2 DEF Gone, Daily!Brief
  <2>5. QED BY <2>1, <2>2, <2>3, <2>4
<1>5. NameFree'
  BY <1>1, <1>2, <1>3 DEF NameFree, Running
<1>6. DayRight'
  <2>1. SUFFICES ASSUME ~failed, NEW r \in current.records
                 PROVE  Daily!Day(current.mtime) <= Daily!Day(r.logged) + (deaths + 1)
    BY <1>2 DEF DayRight, Running
  <2>2. Running
    BY <1>1, <1>2, <2>1 DEF DailyTypes, Running, Calls
  <2>3. Daily!Day(current.mtime) <= logs_time + 1 /\ logs_time <= Daily!Day(r.logged) + deaths
    BY <1>1, <2>1, <2>2 DEF DayRight
  <2>4. Daily!Day(current.mtime) \in Nat /\ Daily!Day(r.logged) \in Nat
    BY <1>1, <2>1, DailyFacts, DayIs
  <2>5. QED BY <1>3, <2>3, <2>4
<1>7. StillThere'
  BY <1>1, <1>2 DEF StillThere, Daily!Aged, Daily!Brief
<1>8. OfTheDay'
  <2>1. ASSUME NEW d \in Daily!Days, NEW r \in dated[d].records
        PROVE  d >= Daily!Day(r.logged) /\ (failed \/ d <= Daily!Day(r.logged) + (deaths + 1))
    <3>1. d >= Daily!Day(r.logged) /\ (failed \/ d <= Daily!Day(r.logged) + deaths)
      BY <1>1, <2>1 DEF OfTheDay
    <3>2. r.logged \in Nat /\ d \in Nat
      BY <1>1, <2>1, DailyFacts DEF DailyTypes, LogFiles
    <3>3. Daily!Day(r.logged) \in Nat
      BY <3>2, DayIs
    <3>4. QED BY <1>3, <3>1, <3>2, <3>3
  <2>2. QED BY <1>2, <2>1 DEF OfTheDay
<1>9. QED BY <1>4, <1>5, <1>6, <1>7, <1>8 DEF DailyInv

LEMMA DayPassKeeps ==
  ASSUME DailyInv, Daily!Tick
  PROVE  DailyInv'
<1>1. DailyTypes /\ Dates /\ Calls /\ Gone /\ NameFree /\ DayRight /\ StillThere /\ OfTheDay
  BY DEF DailyInv
<1>2. /\ now < MaxTime /\ now' = now + 1
      /\ daily \notin {"start", "idle"} => now' < t + PerDay
      /\ current' = current /\ dated' = dated /\ logs_time' = logs_time /\ t' = t
      /\ dailyFd' = dailyFd /\ daily' = daily /\ records' = records /\ deaths' = deaths
      /\ lost' = lost /\ failed' = failed
      /\ maxDaysToKeep' = maxDaysToKeep /\ had' = had /\ appends' = appends
  BY DEF Daily!Tick, Daily!options
<1>3. /\ now \in Nat /\ now + 1 \in Nat /\ MaxTime \in Nat /\ now <= now + 1 /\ t <= now
      /\ Daily!Day(now) \in Nat /\ Daily!Day(now + 1) \in Nat
      /\ Daily!Day(now) <= Daily!Day(now + 1) /\ logs_time <= Daily!Day(now)
      /\ logs_time \in Nat /\ t \in Nat /\ Daily!Days \subseteq Nat /\ Daily!Keep \in Nat
      /\ Daily!Day(t) \in Nat
  BY <1>1, DailyFacts, DayIs, DaysGoOn
<1>4. DailyTypes'
  <2>1. now' \in 0 .. MaxTime
    BY <1>2, <1>3
  <2>2. logs_time' \in 0 .. Daily!Day(now') /\ t' \in 0 .. now'
    BY <1>2, <1>3
  <2>3. QED BY <1>1, <1>2, <2>1, <2>2 DEF DailyTypes
<1>5. Dates'
  BY <1>1, <1>2, <1>3, DailyFacts DEF Dates
<1>6. Calls' /\ Gone'
  BY <1>1, <1>2 DEF Calls, Gone, Daily!Aged, Daily!Brief
<1>7. DayOfFile <= DayOfFile' /\ DayOfFile \in Nat /\ DayOfFile' \in Nat
  BY <1>1, <1>2, <1>3, DailyFacts DEF DayOfFile
<1>8. NameFree'
  <2>1. ASSUME NEW d \in Daily!Days, dated[d].records # {}
        PROVE  d < DayOfFile'
    <3>1. d < DayOfFile /\ d \in Nat
      BY <1>1, <1>3, <2>1 DEF NameFree
    <3>2. QED BY <1>7, <3>1
  <2>2. QED BY <1>1, <1>2, <2>1 DEF NameFree, Running
<1>9. DayRight' /\ OfTheDay'
  BY <1>1, <1>2 DEF DayRight, Running, OfTheDay
<1>10. StillThere'
  <2>1. ASSUME NEW r \in records, Daily!Aged(r.at)
        PROVE  Daily!Aged(r.at)'
    <3>1. PICK days \in had : r.at + Daily!KeepFor(days) < now
      BY <2>1 DEF Daily!Aged
    <3>2. r.at \in Nat /\ Daily!KeepFor(days) \in Nat
      BY <1>1, <2>1, DailyFacts
    <3>3. r.at + Daily!KeepFor(days) < now + 1
      BY <1>3, <3>1, <3>2
    <3>4. QED BY <1>2, <3>3 DEF Daily!Aged
  <2>2. QED BY <1>1, <1>2, <2>1 DEF StillThere, Daily!Aged, Daily!Brief
<1>11. QED BY <1>4, <1>5, <1>6, <1>8, <1>9, <1>10 DEF DailyInv

LEMMA DailyKeeps ==
  ASSUME DailyInv, [Daily!Next]_dailyOf
  PROVE  DailyInv'
<1>1. CASE UNCHANGED dailyOf
  BY <1>1 DEF dailyOf, DailyInv, DailyTypes, Dates, Calls, Gone, NameFree, DayRight, DayOfFile,
              Running, StillThere, OfTheDay, Daily!Aged, Daily!Brief
<1>2. CASE Daily!Roll
  BY <1>2, RollKeeps, RollFails DEF Daily!Roll, Daily!DateOfLogs
<1>3. CASE Daily!Next /\ ~Daily!Roll
  BY <1>3, ConstructKeeps, LogCallKeeps, ReopenKeeps, ScanKeeps, WriteKeeps,
     DeathKeeps, DayPassKeeps DEF Daily!Next
<1>4. QED BY <1>1, <1>2, <1>3

----------------------------------------------------------------------------
(* Configuration files.                                                     *)

\* What a map holds for a key, and what the program would answer now if the
\* section it is reading was in the map.
Found(f, k) == IF k \in DOMAIN f THEN f[k] ELSE Config!None
View(s, k) ==
  IF s = cSectionName THEN Found(cSection, k)
  ELSE IF s \in DOMAIN m_contener THEN Found(m_contener[s], k) ELSE Config!None

Said(s, k) == IF Config!Says(s, k) = {} THEN Config!None ELSE lines[Config!Max(Config!Says(s, k))].value

\* The last section of all is the last of this name.
IsOpen(s) ==
  /\ Config!Begins(s) # {}
  /\ \A h \in Config!Max(Config!Begins(s)) + 1 .. Len(lines) : lines[h].kind # "section"

Reading == config \in {"usage", "instance", "load", "read", "last"}
ConfigInv ==
  /\ lines \in Seq(Config!Lines)
  /\ Reading => /\ m_iLoaded = 0
                /\ \A s \in Names : IsOpen(s) <=> s = cSectionName
                /\ \A s \in Names, k \in Items : View(s, k) = Said(s, k)
  /\ config \in {"usage", "instance", "load"} => lines = <<>>
  /\ ~Reading => Config!AsWritten

\* The greatest of some of the first n numbers, and what it is when it is known.
LEMMA MaxOf ==
  ASSUME NEW S, NEW n \in Nat, S \subseteq 1 .. n, S # {}
  PROVE  Config!Max(S) \in S /\ \A y \in S : y <= Config!Max(S)
<1>1. S \subseteq Int /\ n \in Int /\ \A x \in S : x <= n
  OBVIOUS
<1>2. \E x \in S : \A y \in S : y <= x
  BY <1>1, GreatestNumber
<1>3. \E x \in S : \A y \in S : x >= y
  BY <1>1, <1>2
<1>4. Config!Max(S) \in S /\ \A y \in S : Config!Max(S) >= y
  BY <1>3 DEF Config!Max
<1>5. QED BY <1>1, <1>4

LEMMA MaxOnly ==
  ASSUME NEW S, NEW n \in Nat, S \subseteq 1 .. n, NEW x \in S, \A y \in S : y <= x
  PROVE  Config!Max(S) = x
<1>1. Config!Max(S) \in S /\ x <= Config!Max(S)
  BY MaxOf
<1>2. Config!Max(S) <= x
  BY <1>1
<1>3. Config!Max(S) \in 1 .. n /\ x \in 1 .. n
  BY <1>1
<1>4. Config!Max(S) \in Int /\ x \in Int
  BY <1>3
<1>5. QED BY <1>1, <1>2, <1>4

LEMMA LinesAre ==
  ASSUME NEW l \in Config!Lines
  PROVE  /\ l.kind \in {"section", "item", "blank"}
         /\ l.kind = "section" => l.name \in Names \cup {""}
         /\ l.kind = "item" => l.name \in Items
BY DEF Config!Lines

LEMMA SaysIs ==
  ASSUME lines \in Seq(Config!Lines), NEW s
  PROVE  /\ Len(lines) \in Nat /\ DOMAIN lines = 1 .. Len(lines)
         /\ Config!Begins(s) \subseteq 1 .. Len(lines)
         /\ \A k : Config!Says(s, k) \subseteq 1 .. Len(lines)
         /\ Config!Begins(s) # {} =>
              Config!Max(Config!Begins(s)) \in 1 .. Len(lines)
<1>1. Len(lines) \in Nat /\ DOMAIN lines = 1 .. Len(lines)
  OBVIOUS
<1>2. Config!Begins(s) \subseteq 1 .. Len(lines)
  BY <1>1 DEF Config!Begins
<1>3. \A k : Config!Says(s, k) \subseteq 1 .. Len(lines)
  BY <1>1 DEF Config!Says
<1>4. QED BY <1>1, <1>2, <1>3, MaxOf

\* A line more.
LEMMA LineAdded ==
  ASSUME lines \in Seq(Config!Lines), NEW l \in Config!Lines, lines' = Append(lines, l)
  PROVE  /\ lines' \in Seq(Config!Lines) /\ Len(lines') = Len(lines) + 1 /\ Len(lines) \in Nat
         /\ DOMAIN lines = 1 .. Len(lines) /\ DOMAIN lines' = 1 .. Len(lines) + 1
         /\ lines'[Len(lines) + 1] = l
         /\ \A n \in 1 .. Len(lines) : lines'[n] = lines[n]
OBVIOUS

\* A line that begins no section of the name says something of it if the last
\* section is of that name and the line is an item.
LEMMA SaysMore ==
  ASSUME lines \in Seq(Config!Lines), NEW l \in Config!Lines, lines' = Append(lines, l),
         NEW s, ~(l.kind = "section" /\ l.name = s)
  PROVE  /\ IsOpen(s)' <=> (IsOpen(s) /\ l.kind # "section")
         /\ \A k : Config!Says(s, k)' =
              Config!Says(s, k) \cup
                {n \in {Len(lines) + 1} : IsOpen(s) /\ l.kind = "item" /\ l.name = k}
<1>0. PICK m : m = Len(lines) + 1
  OBVIOUS
<1>1. /\ lines' \in Seq(Config!Lines) /\ Len(lines') = m /\ Len(lines) \in Nat
      /\ DOMAIN lines = 1 .. Len(lines) /\ DOMAIN lines' = 1 .. m /\ m \in Nat
      /\ lines'[m] = l /\ \A n \in 1 .. Len(lines) : lines'[n] = lines[n]
      /\ \A n \in 1 .. m : n = m \/ n \in 1 .. Len(lines)
  BY <1>0, LineAdded
<1>2. Config!Begins(s)' = Config!Begins(s)
  <2>1. \A n \in 1 .. m : (lines'[n].kind = "section" /\ lines'[n].name = s)
                           <=> (n \in 1 .. Len(lines) /\ lines[n].kind = "section" /\ lines[n].name = s)
    BY <1>1
  <2>2. \A n \in 1 .. Len(lines) : n \in 1 .. m
    BY <1>1
  <2>3. QED BY <1>1, <2>1, <2>2 DEF Config!Begins
<1>3. CASE Config!Begins(s) = {}
  <2>1. ~IsOpen(s) /\ ~IsOpen(s)'
    BY <1>2, <1>3 DEF IsOpen
  <2>2. \A k : Config!Says(s, k) = {} /\ Config!Says(s, k)' = {}
    BY <1>2, <1>3 DEF Config!Says
  <2>3. QED BY <2>1, <2>2
<1>4. CASE Config!Begins(s) # {}
  <2>1. PICK b \in 1 .. Len(lines) : b = Config!Max(Config!Begins(s))
    BY <1>4, SaysIs
  <2>2. IsOpen(s) <=> \A h \in b + 1 .. Len(lines) : lines[h].kind # "section"
    BY <1>4, <2>1 DEF IsOpen
  <2>3. IsOpen(s)' <=> \A h \in b + 1 .. m : lines'[h].kind # "section"
    BY <1>1, <1>2, <1>4, <2>1 DEF IsOpen
  <2>4. \A h : h \in b + 1 .. m <=> h = m \/ h \in b + 1 .. Len(lines)
    BY <1>1, <2>1
  <2>5. \A h \in b + 1 .. Len(lines) : lines'[h] = lines[h]
    BY <1>1, <2>1
  <2>6. IsOpen(s)' <=> (IsOpen(s) /\ l.kind # "section")
    BY <1>1, <2>2, <2>3, <2>4, <2>5
  <2>7. ASSUME NEW n \in 1 .. Len(lines)
        PROVE  Config!Within(b, n)' <=> Config!Within(b, n)
    <3>1. \A h \in b + 1 .. n : lines'[h] = lines[h]
      BY <1>1, <2>1, <2>7
    <3>2. QED BY <2>1, <3>1 DEF Config!Within
  <2>8. Config!Within(b, m)' <=> (IsOpen(s) /\ l.kind # "section")
    <3>1. b < m
      BY <1>1, <2>1
    <3>2. Config!Within(b, m)' <=> \A h \in b + 1 .. m : lines'[h].kind # "section"
      BY <1>1, <2>1, <3>1 DEF Config!Within
    <3>3. QED BY <2>3, <2>6, <3>2
  <2>9. ASSUME NEW k
        PROVE  Config!Says(s, k)' =
                 Config!Says(s, k) \cup {n \in {m} : IsOpen(s) /\ l.kind = "item" /\ l.name = k}
    <3>1. Config!Says(s, k) = {n \in 1 .. Len(lines) : /\ Config!Within(b, n)
                                                      /\ lines[n].kind = "item" /\ lines[n].name = k}
      BY <1>1, <1>4, <2>1 DEF Config!Says
    <3>2. Config!Says(s, k)' = {n \in 1 .. m : /\ Config!Within(b, n)'
                                              /\ lines'[n].kind = "item" /\ lines'[n].name = k}
      BY <1>1, <1>2, <1>4, <2>1 DEF Config!Says
    <3>3. \A n \in 1 .. Len(lines) : n \in 1 .. m /\ n # m
      BY <1>1
    <3>4. \A n \in 1 .. m :
            (Config!Within(b, n)' /\ lines'[n].kind = "item" /\ lines'[n].name = k)
              <=> \/ n \in Config!Says(s, k)
                  \/ n = m /\ IsOpen(s) /\ l.kind = "item" /\ l.name = k
      BY <1>1, <2>7, <2>8, <3>1, <3>3
    <3>5. QED BY <1>1, <3>1, <3>2, <3>3, <3>4
  <2>10. QED BY <1>0, <2>6, <2>9
<1>5. QED BY <1>3, <1>4

\* A line that begins a section of the name: nothing was said in it yet.
LEMMA SaysAnew ==
  ASSUME lines \in Seq(Config!Lines), NEW l \in Config!Lines, lines' = Append(lines, l),
         NEW s, l.kind = "section", l.name = s
  PROVE  IsOpen(s)' /\ \A k : Config!Says(s, k)' = {}
<1>0. PICK m : m = Len(lines) + 1
  OBVIOUS
<1>1. /\ Len(lines') = m /\ m \in Nat /\ DOMAIN lines' = 1 .. m /\ m \in 1 .. m /\ lines'[m] = l
  BY <1>0, LineAdded
<1>2. Config!Begins(s)' \subseteq 1 .. m /\ m \in Config!Begins(s)'
  BY <1>1 DEF Config!Begins
<1>3. Config!Max(Config!Begins(s)') = m
  <2>1. \A y \in Config!Begins(s)' : y <= m
    BY <1>1, <1>2
  <2>2. QED BY <1>1, <1>2, <2>1, MaxOnly
<1>4. \A h \in m + 1 .. m : FALSE
  BY <1>1
<1>5. IsOpen(s)'
  BY <1>1, <1>2, <1>3, <1>4 DEF IsOpen
<1>6. ASSUME NEW k
      PROVE  Config!Says(s, k)' = {}
  <2>1. \A n \in 1 .. m : ~(m < n)
    BY <1>1
  <2>2. QED BY <1>1, <1>3, <2>1 DEF Config!Says, Config!Within
<1>7. QED BY <1>5, <1>6

\* The answer is the same as before, or the line just read.
LEMMA SaidSame ==
  ASSUME lines \in Seq(Config!Lines), NEW l \in Config!Lines, lines' = Append(lines, l),
         NEW s, NEW k, Config!Says(s, k)' = Config!Says(s, k)
  PROVE  Said(s, k)' = Said(s, k)
<1>1. CASE Config!Says(s, k) = {}
  BY <1>1 DEF Said
<1>2. CASE Config!Says(s, k) # {}
  <2>1. PICK c \in 1 .. Len(lines) : c = Config!Max(Config!Says(s, k))
    BY <1>2, SaysIs, MaxOf
  <2>2. lines'[c] = lines[c]
    BY <2>1, LineAdded
  <2>3. QED BY <1>2, <2>1, <2>2 DEF Said
<1>3. QED BY <1>1, <1>2

LEMMA SaidNow ==
  ASSUME lines \in Seq(Config!Lines), NEW l \in Config!Lines, lines' = Append(lines, l),
         NEW s, NEW k, Config!Says(s, k)' = Config!Says(s, k) \cup {Len(lines) + 1}
  PROVE  Said(s, k)' = l.value
<1>1. PICK m : m = Len(lines) + 1
  OBVIOUS
<1>2. /\ m \in Nat /\ m - 1 \in Nat /\ Len(lines) = m - 1 /\ lines'[m] = l
      /\ 1 .. Len(lines) \subseteq 1 .. m /\ m \in 1 .. m
  BY <1>1, LineAdded
<1>3. m \in Config!Says(s, k)' /\ Config!Says(s, k)' \subseteq 1 .. m
  BY <1>1, <1>2, SaysIs
<1>4. \A y \in Config!Says(s, k)' : y <= m
  BY <1>2, <1>3
<1>5. Config!Max(Config!Says(s, k)') = m
  BY <1>2, <1>3, <1>4, MaxOnly
<1>6. QED BY <1>2, <1>3, <1>5 DEF Said

\* What a map holds when something was put into it, and what the program would
\* answer is what it does answer once the section is in the map.
LEMMA PutIs ==
  ASSUME NEW f, NEW k, NEW v, NEW j
  PROVE  Found(Config!Put(f, k, v), j) = IF j = k THEN v ELSE Found(f, j)
<1>1. j \in DOMAIN Config!Put(f, k, v) <=> j = k \/ j \in DOMAIN f
  BY DEF Config!Put
<1>2. j = k => Config!Put(f, k, v)[j] = v
  BY DEF Config!Put
<1>3. j # k /\ j \in DOMAIN f => Config!Put(f, k, v)[j] = f[j]
  BY DEF Config!Put
<1>4. QED BY <1>1, <1>2, <1>3 DEF Found

Held(f, s, k) == IF s \in DOMAIN f THEN Found(f[s], k) ELSE Config!None

LEMMA StoredIs ==
  ASSUME NEW s \in Names, NEW k
  PROVE  Held(Config!Stored, s, k) = View(s, k)
<1>1. CASE cSectionName = ""
  <2>1. s # cSectionName /\ Config!Stored = m_contener
    BY <1>1, ProgramsAssumption DEF Config!Stored
  <2>2. QED BY <2>1 DEF Held, View
<1>2. CASE cSectionName # ""
  <2>1. Config!Stored = Config!Put(m_contener, cSectionName, cSection)
    BY <1>2 DEF Config!Stored
  <2>2. CASE s = cSectionName
    <3>1. s \in DOMAIN Config!Stored /\ Config!Stored[s] = cSection
      BY <2>1, <2>2 DEF Config!Put
    <3>2. QED BY <2>2, <3>1 DEF Held, View
  <2>3. CASE s # cSectionName
    <3>1. s \in DOMAIN Config!Stored <=> s \in DOMAIN m_contener
      BY <2>1, <2>3 DEF Config!Put
    <3>2. s \in DOMAIN m_contener => Config!Stored[s] = m_contener[s]
      BY <2>1, <2>3 DEF Config!Put
    <3>3. QED BY <2>3, <3>1, <3>2 DEF Held, View
  <2>4. QED BY <2>2, <2>3
<1>3. QED BY <1>1, <1>2

LEMMA GetIs ==
  ASSUME NEW s, NEW k
  PROVE  Config!Get(s, k) = Held(m_contener, s, k)
BY DEF Config!Get, Held, Found

\* The same invariant with the names of this module.
LEMMA WrittenIs ==
  Config!AsWritten
    <=> (m_iLoaded = 1 => \A s \in Names, k \in Items : Held(m_contener, s, k) = Said(s, k))
BY GetIs DEF Config!AsWritten, Said

LEMMA WrittenNext ==
  Config!AsWritten'
    <=> (m_iLoaded' = 1 => \A s \in Names, k \in Items : Held(m_contener, s, k)' = Said(s, k)')
<1>1. \A s, k : Config!Get(s, k)' = Held(m_contener, s, k)'
  BY DEF Config!Get, Held, Found
<1>2. QED BY <1>1 DEF Config!AsWritten, Said

LEMMA ConfigInit == Config!Init => ConfigInv
<1>1. SUFFICES ASSUME Config!Init
               PROVE  ConfigInv
  OBVIOUS
<1>2. config = "usage" /\ m_contener = Config!Nothing /\ m_iLoaded = 0
      /\ cSectionName = "" /\ lines = <<>>
  BY <1>1 DEF Config!Init
<1>3. \A s : Config!Begins(s) = {}
  <2>1. lines = <<>>
    BY <1>2
  <2>2. DOMAIN lines = {}
    BY <2>1
  <2>3. QED BY <2>2 DEF Config!Begins
<1>4. \A s \in Names : ~IsOpen(s) /\ s # cSectionName
  BY <1>2, <1>3, ProgramsAssumption DEF IsOpen
<1>5. \A s \in Names, k \in Items : View(s, k) = Said(s, k)
  <2>1. \A s : s \notin DOMAIN m_contener
    BY <1>2 DEF Config!Nothing
  <2>2. \A s, k : Config!Says(s, k) = {}
    BY <1>3 DEF Config!Says
  <2>3. QED BY <1>4, <2>1, <2>2 DEF View, Said
<1>6. lines \in Seq(Config!Lines)
  <2>1. lines = <<>>
    BY <1>2
  <2>2. QED BY <2>1
<1>7. QED BY <1>2, <1>4, <1>5, <1>6 DEF ConfigInv, Reading

\* A line that is read: l is appended to the lines, and no section is loaded.
LEMMA ReadsIs ==
  ASSUME ConfigInv, NEW l \in Config!Lines, Config!Reads(l)
  PROVE  /\ config = "read" /\ config' \in {"read", "last"} /\ m_iLoaded' = 0
         /\ lines \in Seq(Config!Lines) /\ lines' = Append(lines, l)
         /\ lines' \in Seq(Config!Lines)
         /\ \A s \in Names : IsOpen(s) <=> s = cSectionName
         /\ \A s \in Names, k \in Items : View(s, k) = Said(s, k)
<1>1. /\ config = "read" /\ config' \in {"read", "last"} /\ m_iLoaded' = m_iLoaded
      /\ lines' = Append(lines, l)
  BY DEF Config!Reads
<1>2. Reading
  BY <1>1 DEF Reading
<1>3. lines \in Seq(Config!Lines)
  BY DEF ConfigInv
<1>4. lines' \in Seq(Config!Lines)
  BY <1>1, <1>3, LineAdded
<1>5. QED BY <1>1, <1>2, <1>3, <1>4 DEF ConfigInv

\* What is to be shown of a step that goes on reading.
LEMMA StillReading ==
  ASSUME config' \in {"read", "last"}, m_iLoaded' = 0, lines' \in Seq(Config!Lines),
         \A s \in Names : IsOpen(s)' <=> s = cSectionName',
         \A s \in Names, k \in Items : View(s, k)' = Said(s, k)'
  PROVE  ConfigInv'
BY DEF ConfigInv, Reading

LEMMA SectionKeeps ==
  ASSUME ConfigInv, Config!Section
  PROVE  ConfigInv'
<1>1. PICK l \in Config!Lines :
        /\ l.kind = "section" /\ Config!Reads(l) /\ m_contener' = Config!Stored
        /\ cSectionName' = l.name /\ cSection' = Config!Cleared
  BY DEF Config!Section
<1>2. /\ config' \in {"read", "last"} /\ m_iLoaded' = 0
      /\ lines \in Seq(Config!Lines) /\ lines' = Append(lines, l) /\ lines' \in Seq(Config!Lines)
      /\ \A s \in Names : IsOpen(s) <=> s = cSectionName
      /\ \A s \in Names, k \in Items : View(s, k) = Said(s, k)
  BY <1>1, ReadsIs
<1>3. ASSUME NEW s \in Names, s = l.name
      PROVE  IsOpen(s)' /\ \A k \in Items : View(s, k)' = Said(s, k)'
  <2>1. IsOpen(s)' /\ \A k : Config!Says(s, k)' = {}
    BY <1>1, <1>2, <1>3, SaysAnew
  <2>2. \A k : Said(s, k)' = Config!None
    BY <2>1 DEF Said
  <2>3. \A k : Found(Config!Cleared, k) = Config!None
    BY DEF Found, Config!Cleared, Config!Nothing
  <2>4. \A k : View(s, k)' = Config!None
    BY <1>1, <1>3, <2>3 DEF View, Config!Cleared, Config!Nothing
  <2>5. QED BY <2>1, <2>2, <2>4
<1>4. ASSUME NEW s \in Names, s # l.name
      PROVE  ~IsOpen(s)' /\ \A k \in Items : View(s, k)' = Said(s, k)'
  <2>1. /\ ~IsOpen(s)'
        /\ \A k : Config!Says(s, k)' =
             Config!Says(s, k) \cup
               {n \in {Len(lines) + 1} : IsOpen(s) /\ l.kind = "item" /\ l.name = k}
    BY <1>1, <1>2, <1>4, SaysMore
  <2>2. ASSUME NEW k \in Items
        PROVE  View(s, k)' = Said(s, k)'
    <3>1. Config!Says(s, k)' = Config!Says(s, k)
      BY <1>1, <2>1
    <3>2. Said(s, k)' = Said(s, k)
      BY <1>2, <3>1, SaidSame
    <3>3. View(s, k)' = Held(Config!Stored, s, k)
      BY <1>1, <1>4 DEF View, Held
    <3>4. QED BY <1>2, <3>2, <3>3, StoredIs
  <2>3. QED BY <2>1, <2>2
<1>5. QED BY <1>1, <1>2, <1>3, <1>4, StillReading

LEMMA ItemKeeps ==
  ASSUME ConfigInv, Config!Item
  PROVE  ConfigInv'
<1>1. PICK l \in Config!Lines :
        /\ l.kind = "item" /\ Config!Reads(l) /\ m_contener' = m_contener
        /\ cSectionName' = cSectionName /\ cSection' = Config!Put(cSection, l.name, l.value)
  BY DEF Config!Item
<1>2. /\ config' \in {"read", "last"} /\ m_iLoaded' = 0
      /\ lines \in Seq(Config!Lines) /\ lines' = Append(lines, l) /\ lines' \in Seq(Config!Lines)
      /\ \A s \in Names : IsOpen(s) <=> s = cSectionName
      /\ \A s \in Names, k \in Items : View(s, k) = Said(s, k)
  BY <1>1, ReadsIs
<1>3. ASSUME NEW s \in Names
      PROVE  /\ IsOpen(s)' <=> IsOpen(s)
             /\ \A k : Config!Says(s, k)' =
                  Config!Says(s, k) \cup {n \in {Len(lines) + 1} : IsOpen(s) /\ l.name = k}
  <2>1. l.kind # "section"
    BY <1>1
  <2>2. /\ IsOpen(s)' <=> (IsOpen(s) /\ l.kind # "section")
        /\ \A k : Config!Says(s, k)' =
             Config!Says(s, k) \cup
               {n \in {Len(lines) + 1} : IsOpen(s) /\ l.kind = "item" /\ l.name = k}
    BY <1>2, <2>1, SaysMore
  <2>3. QED BY <1>1, <2>1, <2>2
<1>4. ASSUME NEW s \in Names, NEW k \in Items
      PROVE  View(s, k)' = Said(s, k)'
  <2>1. CASE s = cSectionName /\ k = l.name
    <3>1. Config!Says(s, k)' = Config!Says(s, k) \cup {Len(lines) + 1}
      BY <1>2, <1>3, <2>1
    <3>2. Said(s, k)' = l.value
      BY <1>2, <3>1, SaidNow
    <3>3. View(s, k)' = l.value
      <4>1. View(s, k)' = Found(Config!Put(cSection, l.name, l.value), k)
        BY <1>1, <2>1 DEF View, Found
      <4>2. QED BY <2>1, <4>1, PutIs
    <3>4. QED BY <3>2, <3>3
  <2>2. CASE ~(s = cSectionName /\ k = l.name)
    <3>1. Config!Says(s, k)' = Config!Says(s, k)
      <4>1. ~(IsOpen(s) /\ l.name = k)
        BY <1>2, <2>2
      <4>2. QED BY <1>3, <4>1
    <3>2. Said(s, k)' = Said(s, k)
      BY <1>2, <3>1, SaidSame
    <3>3. View(s, k)' = View(s, k)
      <4>1. CASE s = cSectionName
        <5>1. View(s, k)' = Found(Config!Put(cSection, l.name, l.value), k)
          BY <1>1, <4>1 DEF View, Found
        <5>2. QED BY <2>2, <4>1, <5>1, PutIs DEF View
      <4>2. CASE s # cSectionName
        BY <1>1, <4>2 DEF View, Found
      <4>3. QED BY <4>1, <4>2
    <3>4. QED BY <1>2, <3>2, <3>3
  <2>3. QED BY <2>1, <2>2
<1>5. QED BY <1>1, <1>2, <1>3, <1>4, StillReading

LEMMA BlankKeeps ==
  ASSUME ConfigInv, Config!Blank
  PROVE  ConfigInv'
<1>1. PICK l : l = [kind |-> "blank"]
  OBVIOUS
<1>2. /\ l \in Config!Lines /\ l.kind = "blank" /\ Config!Reads(l) /\ m_contener' = m_contener
      /\ cSectionName' = cSectionName /\ cSection' = cSection
  BY <1>1 DEF Config!Blank, Config!Lines
<1>3. /\ config' \in {"read", "last"} /\ m_iLoaded' = 0
      /\ lines \in Seq(Config!Lines) /\ lines' = Append(lines, l) /\ lines' \in Seq(Config!Lines)
      /\ \A s \in Names : IsOpen(s) <=> s = cSectionName
      /\ \A s \in Names, k \in Items : View(s, k) = Said(s, k)
  BY <1>2, ReadsIs
<1>4. ASSUME NEW s \in Names
      PROVE  (IsOpen(s)' <=> IsOpen(s)) /\ \A k : Config!Says(s, k)' = Config!Says(s, k)
  <2>1. l.kind # "section" /\ l.kind # "item"
    BY <1>2
  <2>2. /\ IsOpen(s)' <=> (IsOpen(s) /\ l.kind # "section")
        /\ \A k : Config!Says(s, k)' =
             Config!Says(s, k) \cup
               {n \in {Len(lines) + 1} : IsOpen(s) /\ l.kind = "item" /\ l.name = k}
    BY <1>2, <1>3, <2>1, SaysMore
  <2>3. QED BY <2>1, <2>2
<1>5. ASSUME NEW s \in Names, NEW k \in Items
      PROVE  View(s, k)' = Said(s, k)'
  <2>1. Said(s, k)' = Said(s, k)
    BY <1>2, <1>3, <1>4, SaidSame
  <2>2. View(s, k)' = View(s, k)
    BY <1>2 DEF View, Found
  <2>3. QED BY <1>3, <2>1, <2>2
<1>6. QED BY <1>2, <1>3, <1>4, <1>5, StillReading

\* Steps that read no line: what is said and open is as it was.
LEMMA SameLines ==
  ASSUME lines' = lines
  PROVE  /\ \A s, k : Said(s, k)' = Said(s, k)
         /\ \A s : IsOpen(s)' = IsOpen(s)
BY DEF Said, IsOpen, Config!Says, Config!Begins, Config!Within

LEMMA FileEndsKeeps ==
  ASSUME ConfigInv, Config!FileEnds
  PROVE  ConfigInv'
<1>1. /\ config \in {"read", "last"} /\ config' = "ask" /\ m_contener' = Config!Stored
      /\ lines' = lines
  BY DEF Config!FileEnds
<1>2. /\ lines \in Seq(Config!Lines)
      /\ \A s \in Names, k \in Items : View(s, k) = Said(s, k)
  BY <1>1 DEF ConfigInv, Reading
<1>3. ASSUME NEW s \in Names, NEW k \in Items
      PROVE  Held(m_contener, s, k)' = Said(s, k)'
  <2>1. Held(m_contener, s, k)' = Held(Config!Stored, s, k)
    BY <1>1 DEF Held, Found
  <2>2. QED BY <1>1, <1>2, <2>1, StoredIs, SameLines
<1>4. Config!AsWritten'
  BY <1>3, WrittenNext
<1>5. QED BY <1>1, <1>2, <1>4 DEF ConfigInv, Reading

LEMMA ConfigKeeps ==
  ASSUME ConfigInv, [Config!Next]_configOf
  PROVE  ConfigInv'
<1>1. ASSUME lines' = lines, m_contener' = m_contener, cSectionName' = cSectionName,
             cSection' = cSection, m_iLoaded' = m_iLoaded,
             \/ config' = config
             \/ Reading /\ config' \in {"instance", "load", "read"} /\ config # "read" /\ config # "last"
             \/ Reading /\ config' \in {"ask", "over"}
             \/ ~Reading /\ ~Reading'
      PROVE  ConfigInv'
  <2>1. /\ \A s, k : View(s, k)' = View(s, k) /\ Said(s, k)' = Said(s, k)
        /\ \A s : IsOpen(s)' = IsOpen(s)
    BY <1>1, SameLines DEF View, Found
  <2>2. \A s, k : Held(m_contener, s, k)' = Held(m_contener, s, k)
    BY <1>1 DEF Held, Found
  <2>3. ~Reading \/ m_iLoaded = 0 => Config!AsWritten
    BY WrittenIs DEF ConfigInv
  <2>4. Config!AsWritten => Config!AsWritten'
    <3>1. ASSUME m_iLoaded = 1 => \A s \in Names, k \in Items : Held(m_contener, s, k) = Said(s, k),
                 m_iLoaded' = 1, NEW s \in Names, NEW k \in Items
          PROVE  Held(m_contener, s, k)' = Said(s, k)'
      BY <1>1, <2>1, <2>2, <3>1
    <3>2. QED BY <3>1, WrittenIs, WrittenNext
  <2>5. QED BY <1>1, <2>1, <2>3, <2>4 DEF ConfigInv, Reading
<1>2. CASE UNCHANGED configOf
  BY <1>1, <1>2 DEF configOf
<1>3. CASE Config!Usage
  BY <1>1, <1>3 DEF Config!Usage, Reading
<1>4. CASE Config!Instance
  BY <1>1, <1>4 DEF Config!Instance, Reading
<1>5. CASE Config!Open
  BY <1>1, <1>5 DEF Config!Open, Reading
<1>6. CASE Config!Ask
  BY <1>1, <1>6 DEF Config!Ask, Reading
<1>7. CASE Config!Free
  <2>1. config' = "over" /\ lines' = lines /\ m_iLoaded' = 0
    BY <1>7 DEF Config!Free
  <2>2. Config!AsWritten'
    BY <2>1 DEF Config!AsWritten
  <2>3. QED BY <2>1, <2>2 DEF ConfigInv, Reading
<1>8. QED
  BY <1>2, <1>3, <1>4, <1>5, <1>6, <1>7, SectionKeeps, ItemKeeps, BlankKeeps, FileEndsKeeps
     DEF Config!Next

----------------------------------------------------------------------------
(* Timers of the event loop.                                                *)

\* The time that a timer is set to.
Time(x) == x.sec * K + x.ms

\* No two timers have the same id, and none has one still to be given.
Ordered ==
  /\ \A m, n \in DOMAIN timers : timers[m].id = timers[n].id => m = n
  /\ \A n \in DOMAIN timers : timers[n].id < nextId

\* Seconds and milliseconds are the time asked for.
SetTo ==
  ~setBack => /\ lastTime <= Sec
              /\ \A n \in DOMAIN timers : Time(timers[n]) = due[timers[n].id]

\* A pass points to a timer that there is, unless handlers delete their own.
Pointing ==
  /\ pc = "call" => te # None
  /\ ~SelfDelete => /\ pc \in {"scan", "call"} /\ te # None => te \in Live
                    /\ ~wild

TimersInv == TypeOK /\ Ordered /\ SetTo /\ Pointing

Timers == [id : Ids, sec : Nat, ms : 0 .. K - 1]

LEMMA Division ==
  ASSUME NEW x \in Nat, NEW m \in Nat \ {0}
  PROVE  x \div m \in Nat /\ x % m \in 0 .. m - 1 /\ x = (x \div m) * m + (x % m)
OBVIOUS

LEMMA Multiples ==
  ASSUME NEW m \in Int, NEW a \in Int, NEW b \in Int
  PROVE  /\ a * m \in Int /\ b * m \in Int
         /\ (a + b) * m = a * m + b * m /\ (a - b) * m = a * m - b * m
         /\ (a + 1) * m = a * m + m /\ (a - 1) * m = a * m - m
OBVIOUS

LEMMA MultiplesGrow ==
  ASSUME NEW m \in Nat, NEW a \in Int, NEW b \in Int, a <= b
  PROVE  a * m <= b * m /\ a * m \in Int /\ b * m \in Int
OBVIOUS

LEMMA ClockIs ==
  ASSUME TypeOK
  PROVE  Sec \in Nat /\ Ms \in 0 .. K - 1 /\ clock \in Nat /\ clock = Sec * K + Ms
<1>1. clock \in Nat /\ K \in Nat \ {0}
  BY TimeAssumption DEF TypeOK
<1>2. QED BY <1>1, Division DEF Sec, Ms

\* A timer set d milliseconds from now is set to now and d.
LEMMA WhenIs ==
  ASSUME TypeOK, NEW d \in Nat
  PROVE  /\ When(d)[1] \in Nat /\ When(d)[2] \in 0 .. K - 1
         /\ When(d)[1] * K + When(d)[2] = clock + d
<1>1. PICK q, r, s, m : q = d \div K /\ r = d % K /\ s = Sec /\ m = Ms
  OBVIOUS
<1>2. /\ q \in Nat /\ r \in 0 .. K - 1 /\ d = q * K + r
      /\ s \in Nat /\ m \in 0 .. K - 1 /\ clock = s * K + m /\ K \in Nat \ {0}
  BY <1>1, ClockIs, Division, TimeAssumption
<1>3. When(d) = IF m + r >= K THEN <<(s + q) + 1, (m + r) - K>> ELSE <<s + q, m + r>>
  BY <1>1 DEF When
<1>4. /\ (s + q) * K = s * K + q * K /\ s * K \in Int /\ q * K \in Int
      /\ ((s + q) + 1) * K = (s + q) * K + K
  BY <1>2, Multiples
<1>5. CASE m + r >= K
  <2>1. When(d)[1] = (s + q) + 1 /\ When(d)[2] = (m + r) - K
    BY <1>3, <1>5
  <2>2. When(d)[1] * K + When(d)[2] = ((s + q) * K + K) + ((m + r) - K)
    BY <1>4, <2>1
  <2>3. QED BY <1>2, <1>4, <1>5, <2>1, <2>2
<1>6. CASE m + r < K
  <2>1. When(d)[1] = s + q /\ When(d)[2] = m + r
    BY <1>2, <1>3, <1>6
  <2>2. When(d)[1] * K + When(d)[2] = (s + q) * K + (m + r)
    BY <2>1
  <2>3. QED BY <1>2, <1>4, <1>6, <2>1, <2>2
<1>7. m + r \in Int /\ K \in Int
  BY <1>2
<1>8. QED BY <1>5, <1>6, <1>7

LEMMA TimersAre ==
  ASSUME TypeOK
  PROVE  /\ timers \in Seq(Timers) /\ Len(timers) \in Nat /\ DOMAIN timers = 1 .. Len(timers)
         /\ \A n \in 1 .. Len(timers) : timers[n] \in Timers
         /\ due \in [Ids -> Nat] /\ K \in Nat \ {0}
<1>1. timers \in Seq(Timers) /\ due \in [Ids -> Nat] /\ K \in Nat \ {0}
  BY TimeAssumption DEF TypeOK, Timers
<1> HIDE DEF Timers
<1>2. QED BY <1>1

LEMMA AtIs ==
  ASSUME TypeOK, Ordered, NEW id \in Live
  PROVE  /\ At(id) \in 1 .. Len(timers) /\ timers[At(id)].id = id /\ id \in Ids
         /\ \A n \in 1 .. Len(timers) : n # At(id) => timers[n].id # id
<1>1. DOMAIN timers = 1 .. Len(timers) /\ \A n \in 1 .. Len(timers) : timers[n] \in Timers
  BY TimersAre
<1>2. \E n \in DOMAIN timers : timers[n].id = id
  BY DEF Live
<1>3. At(id) \in DOMAIN timers /\ timers[At(id)].id = id
  BY <1>2 DEF At
<1>4. timers[At(id)] \in Timers
  BY <1>1, <1>3
<1>5. QED BY <1>1, <1>3, <1>4 DEF Ordered, Timers

\* A list without one of its elements.
LEMMA RemovedIs ==
  ASSUME NEW T, NEW s \in Seq(T), NEW h \in 1 .. Len(s)
  PROVE  /\ RemoveAt(s, h) \in Seq(T) /\ Len(RemoveAt(s, h)) = Len(s) - 1
         /\ \A n \in 1 .. Len(s) - 1 : RemoveAt(s, h)[n] = s[IF n < h THEN n ELSE n + 1]
<1>1. PICK u, v : u = SubSeq(s, 1, h - 1) /\ v = SubSeq(s, h + 1, Len(s))
  OBVIOUS
<1>2. Len(s) \in Nat /\ h \in Nat /\ 1 <= h /\ h <= Len(s)
  OBVIOUS
<1>3. /\ u \in Seq(T) /\ Len(u) = h - 1
      /\ \A n \in 1 .. h - 1 : u[n] = s[n]
  BY <1>1, <1>2
<1>4. /\ v \in Seq(T) /\ Len(v) = Len(s) - h
      /\ \A n \in 1 .. Len(s) - h : v[n] = s[h + n]
  BY <1>1, <1>2
<1>5. RemoveAt(s, h) = u \o v
  BY <1>1 DEF RemoveAt
<1>6. u \o v \in Seq(T) /\ Len(u \o v) = Len(s) - 1
  <2>1. u \o v \in Seq(T) /\ Len(u \o v) = Len(u) + Len(v)
    BY <1>3, <1>4, JoinedIs
  <2>2. QED BY <1>2, <1>3, <1>4, <2>1
<1>7. ASSUME NEW n \in 1 .. Len(s) - 1
      PROVE  (u \o v)[n] = s[IF n < h THEN n ELSE n + 1]
  <2>1. n \in Nat /\ 1 <= n /\ n <= Len(s) - 1
    BY <1>2, <1>7
  <2>2. CASE n < h
    BY <1>2, <1>3, <1>4, <2>1, <2>2
  <2>3. CASE ~(n < h)
    <3>1. (u \o v)[n] = v[n - (h - 1)]
      BY <1>2, <1>3, <1>4, <2>1, <2>3
    <3>2. n - (h - 1) \in 1 .. Len(s) - h /\ h + (n - (h - 1)) = n + 1
      BY <1>2, <2>1, <2>3
    <3>3. QED BY <1>4, <2>3, <3>1, <3>2
  <2>4. QED BY <2>2, <2>3
<1>8. QED BY <1>5, <1>6, <1>7

LEMMA TimersInit == Init => TimersInv
<1>1. SUFFICES ASSUME Init
               PROVE  TimersInv
  OBVIOUS
<1>2. /\ clock = K /\ quick \in BOOLEAN /\ timers = <<>> /\ nextId = 0 /\ lastTime = Sec
      /\ pc = "setup" /\ te = None /\ maxId = None /\ left = Forever
      /\ due = [id \in Ids |-> 0] /\ setBack = FALSE /\ wild = FALSE
  BY <1>1 DEF Init
<1>3. K \in Nat \ {0} /\ MaxClock \in Nat /\ K <= MaxClock /\ MaxTimers \in Nat
  BY TimeAssumption
<1>4. timers = <<>>
  BY <1>2
<1>5. timers \in Seq([id : Ids, sec : Nat, ms : 0 .. K - 1]) /\ DOMAIN timers = {}
  BY <1>4
<1>6. Sec \in Nat /\ Sec <= MaxClock
  <2>1. Sec \in Nat /\ K * Sec <= K
    BY <1>2, <1>3, QuotientIs DEF Sec
  <2>2. 2 <= Sec => K * 2 <= K * Sec
    BY <1>3, <2>1, Products
  <2>3. Sec <= 1
    BY <1>3, <2>1, <2>2
  <2>4. QED BY <1>3, <2>1, <2>3
<1>7. clock \in K .. MaxClock
  BY <1>2, <1>3
<1>8. lastTime \in 0 .. MaxClock /\ lastTime <= Sec
  BY <1>2, <1>3, <1>6
<1>9. TypeOK
  <2>1. nextId \in 0 .. MaxTimers
    BY <1>2, <1>3
  <2>2. QED BY <1>2, <1>5, <1>7, <1>8, <2>1 DEF TypeOK
<1>10. QED BY <1>2, <1>5, <1>8, <1>9 DEF TimersInv, Ordered, SetTo, Pointing

\* A clock that goes on makes no second of the past one to come.
LEMMA SecondsGoOn ==
  ASSUME NEW x \in Nat, NEW y \in Nat, x <= y
  PROVE  x \div K <= y \div K
<1>1. PICK a, b : a = x \div K /\ b = y \div K
  OBVIOUS
<1>2. /\ a \in Nat /\ K * a <= x /\ x < K * a + K
      /\ b \in Nat /\ K * b <= y /\ y < K * b + K
      /\ K \in Nat \ {0}
  BY <1>1, QuotientIs, TimeAssumption
<1>3. ASSUME b < a
      PROVE  FALSE
  <2>1. b + 1 <= a
    BY <1>2, <1>3
  <2>2. K * b + K <= K * a /\ K * a \in Int /\ K * b \in Int
    BY <1>2, <2>1, Products
  <2>3. QED BY <1>2, <2>2
<1>4. QED BY <1>1, <1>2, <1>3

\* The second of now is one the clock is followed to.
LEMMA SecondIs ==
  ASSUME TypeOK
  PROVE  Sec \in 0 .. MaxClock
<1>1. clock \in Nat /\ clock <= MaxClock /\ K \in Nat \ {0} /\ MaxClock \in Nat
  BY TimeAssumption DEF TypeOK
<1>2. Sec \in Nat /\ K * Sec <= clock
  BY <1>1, QuotientIs DEF Sec
<1>3. Sec <= K * Sec /\ K * Sec \in Int
  <2>1. 1 * Sec <= K * Sec /\ 1 * Sec = Sec
    BY <1>1, <1>2, MultiplesGrow
  <2>2. QED BY <1>1, <1>2, <2>1
<1>4. QED BY <1>1, <1>2, <1>3

LEMMA CreateKeeps ==
  ASSUME TimersInv, NEW d \in Durations, CreateTimer(d)
  PROVE  TimersInv'
<1>1. TypeOK /\ Ordered /\ SetTo /\ Pointing
  BY DEF TimersInv
<1>2. PICK x : x = [id |-> nextId, sec |-> When(d)[1], ms |-> When(d)[2]]
  OBVIOUS
<1>3. /\ InProgram /\ nextId < MaxTimers /\ timers' = <<x>> \o timers /\ nextId' = nextId + 1
      /\ due' = [due EXCEPT ![nextId] = clock + d]
      /\ clock' = clock /\ quick' = quick /\ lastTime' = lastTime /\ pc' = pc /\ te' = te
      /\ maxId' = maxId /\ left' = left /\ setBack' = setBack /\ wild' = wild
  BY <1>2 DEF CreateTimer
<1>4. d \in Nat /\ nextId \in Ids /\ nextId + 1 \in 0 .. MaxTimers /\ nextId \in Nat
  BY <1>1, <1>3, TimeAssumption DEF TypeOK, Ids
<1>5. x \in Timers /\ Time(x) = clock + d /\ x.id = nextId
  BY <1>1, <1>2, <1>4, WhenIs DEF Timers, Time
<1>6. /\ timers \in Seq(Timers) /\ Len(timers) \in Nat /\ DOMAIN timers = 1 .. Len(timers)
      /\ \A n \in 1 .. Len(timers) : timers[n] \in Timers
      /\ due \in [Ids -> Nat]
  BY <1>1, TimersAre
<1>7. /\ timers' \in Seq(Timers) /\ DOMAIN timers' = 1 .. Len(timers) + 1
      /\ timers'[1] = x
      /\ \A n \in 1 .. Len(timers) + 1 : n # 1 => n - 1 \in 1 .. Len(timers) /\ timers'[n] = timers[n - 1]
  <2>1. <<x>> \in Seq(Timers) /\ Len(<<x>>) = 1 /\ <<x>>[1] = x
    BY <1>5
  <2>2. QED BY <1>3, <1>6, <2>1
<1>8. clock + d \in Nat
  BY <1>1, <1>4, ClockIs
<1>9. TypeOK'
  <2>1. due' \in [Ids -> Nat]
    BY <1>3, <1>6, <1>8
  <2>2. QED BY <1>1, <1>3, <1>4, <1>7, <2>1 DEF TypeOK, Timers
<1>10. Ordered'
  <2>1. ASSUME NEW n \in 1 .. Len(timers) + 1
        PROVE  /\ timers'[n].id < nextId + 1
               /\ timers'[n].id = nextId => n = 1
    <3>1. CASE n = 1
      BY <1>4, <1>5, <1>7, <3>1
    <3>2. CASE n # 1
      <4>1. n - 1 \in 1 .. Len(timers) /\ timers'[n] = timers[n - 1]
        BY <1>7, <3>2
      <4>2. timers[n - 1].id < nextId /\ timers[n - 1].id \in Ids
        BY <1>1, <1>6, <4>1 DEF Ordered, Timers
      <4>3. QED BY <1>4, <4>1, <4>2, TimeAssumption DEF Ids
    <3>3. QED BY <3>1, <3>2
  <2>2. ASSUME NEW m \in 1 .. Len(timers) + 1, NEW n \in 1 .. Len(timers) + 1,
               timers'[m].id = timers'[n].id
        PROVE  m = n
    <3>1. CASE m = 1 \/ n = 1
      BY <1>5, <1>7, <2>1, <2>2, <3>1
    <3>2. CASE m # 1 /\ n # 1
      <4>1. m - 1 \in 1 .. Len(timers) /\ n - 1 \in 1 .. Len(timers)
            /\ timers'[m] = timers[m - 1] /\ timers'[n] = timers[n - 1]
        BY <1>7, <3>2
      <4>2. m - 1 = n - 1
        BY <1>1, <1>6, <2>2, <4>1 DEF Ordered
      <4>3. m \in Int /\ n \in Int
        BY <1>6
      <4>4. QED BY <4>2, <4>3
    <3>3. QED BY <3>1, <3>2
  <2>3. QED BY <1>3, <1>7, <2>1, <2>2 DEF Ordered
<1>11. SetTo'
  <2>1. ASSUME ~setBack, NEW n \in 1 .. Len(timers) + 1
        PROVE  Time(timers'[n]) = due'[timers'[n].id]
    <3>1. CASE n = 1
      BY <1>3, <1>4, <1>5, <1>6, <1>7, <3>1
    <3>2. CASE n # 1
      <4>1. n - 1 \in 1 .. Len(timers) /\ timers'[n] = timers[n - 1]
        BY <1>7, <3>2
      <4>2. timers[n - 1].id \in Ids /\ timers[n - 1].id < nextId
        BY <1>1, <1>6, <4>1 DEF Ordered, Timers
      <4>3. timers[n - 1].id # nextId
        BY <1>4, <4>2, TimeAssumption DEF Ids
      <4>4. Time(timers[n - 1]) = due[timers[n - 1].id]
        BY <1>1, <1>6, <2>1, <4>1 DEF SetTo
      <4>5. QED BY <1>3, <1>6, <4>1, <4>2, <4>3, <4>4
    <3>3. QED BY <3>1, <3>2
  <2>2. Sec' = Sec
    BY <1>3 DEF Sec
  <2>3. \A n \in DOMAIN timers' : Time(timers[n])' = Time(timers'[n])
    BY DEF Time
  <2>4. QED BY <1>1, <1>3, <1>7, <2>1, <2>2 DEF SetTo, Time
<1>12. Live \subseteq Live'
  <2>1. ASSUME NEW n \in 1 .. Len(timers)
        PROVE  n + 1 \in DOMAIN timers' /\ timers'[n + 1].id = timers[n].id
    <3>1. n + 1 \in 1 .. Len(timers) + 1 /\ n + 1 # 1 /\ (n + 1) - 1 = n
      BY <1>6
    <3>2. QED BY <1>7, <3>1
  <2>2. QED BY <1>6, <2>1 DEF Live
<1>13. Pointing'
  BY <1>1, <1>3, <1>12 DEF Pointing
<1>14. QED BY <1>9, <1>10, <1>11, <1>13 DEF TimersInv

\* The list without the timer of an id: the others, in the same order.
LEMMA WithoutIs ==
  ASSUME TypeOK, Ordered, NEW id
  PROVE  /\ Without(id) \in Seq(Timers)
         /\ \A n \in DOMAIN Without(id) :
              \E m \in DOMAIN timers : Without(id)[n] = timers[m] /\ timers[m].id # id
         /\ \A m, n \in DOMAIN Without(id) : Without(id)[m].id = Without(id)[n].id => m = n
         /\ \A m \in DOMAIN timers :
              timers[m].id # id => \E n \in DOMAIN Without(id) : Without(id)[n] = timers[m]
<1>1. /\ timers \in Seq(Timers) /\ Len(timers) \in Nat /\ DOMAIN timers = 1 .. Len(timers)
      /\ \A m, n \in 1 .. Len(timers) : timers[m].id = timers[n].id => m = n
  BY TimersAre DEF Ordered
<1>2. CASE id \notin Live
  <2>1. Without(id) = timers /\ \A m \in DOMAIN timers : timers[m].id # id
    BY <1>2 DEF Without, Live
  <2>2. QED BY <1>1, <2>1
<1>3. CASE id \in Live
  <2>1. PICK h \in 1 .. Len(timers) :
          h = At(id) /\ timers[h].id = id /\ \A n \in 1 .. Len(timers) : n # h => timers[n].id # id
    BY <1>3, AtIs
  <2>2. PICK w : w = Without(id)
    OBVIOUS
  <2>3. w = RemoveAt(timers, h)
    BY <1>3, <2>1, <2>2 DEF Without
  <2>4. /\ w \in Seq(Timers) /\ Len(w) = Len(timers) - 1
        /\ \A n \in 1 .. Len(timers) - 1 : w[n] = timers[IF n < h THEN n ELSE n + 1]
    BY <1>1, <2>1, <2>3, RemovedIs
  <2>5. DOMAIN w = 1 .. Len(timers) - 1 /\ h \in Nat /\ 1 <= h /\ h <= Len(timers)
    BY <1>1, <2>1, <2>4
  <2>6. ASSUME NEW n \in 1 .. Len(timers) - 1
        PROVE  /\ n < h => w[n] = timers[n]
               /\ ~(n < h) => w[n] = timers[n + 1]
               /\ n \in 1 .. Len(timers) /\ n + 1 \in 1 .. Len(timers)
               /\ n < h => n # h
               /\ ~(n < h) => n + 1 # h
               /\ n \in Nat
    BY <1>1, <2>4, <2>5, <2>6
  <2>7. ASSUME NEW n \in 1 .. Len(timers) - 1
        PROVE  \E m \in 1 .. Len(timers) : w[n] = timers[m] /\ timers[m].id # id
    BY <2>1, <2>6, <2>7
  <2>8. ASSUME NEW m \in 1 .. Len(timers) - 1, NEW n \in 1 .. Len(timers) - 1,
               w[m].id = w[n].id
        PROVE  m = n
    <3>1. CASE m < h /\ n < h
      BY <1>1, <2>6, <2>8, <3>1
    <3>2. CASE ~(m < h) /\ ~(n < h)
      <4>1. m + 1 = n + 1
        BY <1>1, <2>6, <2>8, <3>2
      <4>2. QED BY <2>6, <4>1
    <3>3. CASE m < h /\ ~(n < h)
      <4>1. m = n + 1
        BY <1>1, <2>6, <2>8, <3>3
      <4>2. QED BY <2>5, <2>6, <3>3, <4>1
    <3>4. CASE ~(m < h) /\ n < h
      <4>1. m + 1 = n
        BY <1>1, <2>6, <2>8, <3>4
      <4>2. QED BY <2>5, <2>6, <3>4, <4>1
    <3>5. QED BY <3>1, <3>2, <3>3, <3>4
  <2>9. ASSUME NEW m \in 1 .. Len(timers), timers[m].id # id
        PROVE  \E n \in 1 .. Len(timers) - 1 : w[n] = timers[m]
    <3>1. m # h /\ m \in Nat /\ 1 <= m /\ m <= Len(timers)
      BY <1>1, <2>1, <2>9
    <3>2. CASE m < h
      <4>1. m \in 1 .. Len(timers) - 1
        BY <1>1, <2>5, <3>1, <3>2
      <4>2. QED BY <2>6, <3>2, <4>1
    <3>3. CASE h < m
      <4>1. m - 1 \in 1 .. Len(timers) - 1 /\ ~(m - 1 < h) /\ (m - 1) + 1 = m
        BY <1>1, <2>5, <3>1, <3>3
      <4>2. QED BY <2>6, <4>1
    <3>4. QED BY <2>5, <3>1, <3>2, <3>3
  <2>10. QED BY <1>1, <2>2, <2>4, <2>5, <2>7, <2>8, <2>9
<1>4. QED BY <1>2, <1>3

\* What deleting a timer leaves.
LEMMA DeletedIs ==
  ASSUME TimersInv, NEW id, timers' = Without(id), due' = [due EXCEPT ![id] = 0],
         nextId' = nextId, setBack' = setBack, lastTime' = lastTime, clock' = clock
  PROVE  /\ timers' \in Seq(Timers) /\ due' \in [Ids -> Nat]
         /\ Ordered' /\ SetTo' /\ \A x \in Live : x # id => x \in Live'
<1>1. TypeOK /\ Ordered /\ SetTo
  BY DEF TimersInv
<1>2. /\ DOMAIN timers = 1 .. Len(timers) /\ \A n \in 1 .. Len(timers) : timers[n] \in Timers
      /\ due \in [Ids -> Nat]
  BY <1>1, TimersAre
<1>3. /\ timers' \in Seq(Timers)
      /\ \A n \in DOMAIN timers' :
           \E m \in DOMAIN timers : timers'[n] = timers[m] /\ timers[m].id # id
      /\ \A m, n \in DOMAIN timers' : timers'[m].id = timers'[n].id => m = n
      /\ \A m \in DOMAIN timers :
           timers[m].id # id => \E n \in DOMAIN timers' : timers'[n] = timers[m]
  BY <1>1, WithoutIs
<1>4. due' \in [Ids -> Nat] /\ \A x \in Ids : x # id => due'[x] = due[x]
  BY <1>2
<1>5. Ordered'
  BY <1>1, <1>3 DEF Ordered
<1>6. SetTo'
  <2>1. ASSUME ~setBack, NEW n \in DOMAIN timers'
        PROVE  Time(timers'[n]) = due'[timers'[n].id]
    <3>1. PICK m \in DOMAIN timers : timers'[n] = timers[m] /\ timers[m].id # id
      BY <1>3
    <3>2. timers[m].id \in Ids
      BY <1>2, <3>1 DEF Timers
    <3>3. Time(timers[m]) = due[timers[m].id]
      BY <1>1, <2>1 DEF SetTo
    <3>4. QED BY <1>4, <3>1, <3>2, <3>3
  <2>2. Sec' = Sec
    BY DEF Sec
  <2>3. QED BY <1>1, <2>1, <2>2 DEF SetTo, Time
<1>7. ASSUME NEW x \in Live, x # id
      PROVE  x \in Live'
  <2>1. PICK m \in DOMAIN timers : timers[m].id = x
    BY <1>7 DEF Live
  <2>2. PICK n \in DOMAIN timers' : timers'[n] = timers[m]
    BY <1>3, <1>7, <2>1
  <2>3. QED BY <2>1, <2>2 DEF Live
<1>8. QED BY <1>3, <1>4, <1>5, <1>6, <1>7

LEMMA DeleteKeeps ==
  ASSUME TimersInv, NEW id \in Ids, DeleteTimer(id)
  PROVE  TimersInv'
<1>1. /\ InProgram /\ (pc = "call" /\ id = te => SelfDelete)
      /\ timers' = Without(id) /\ due' = [due EXCEPT ![id] = 0]
      /\ clock' = clock /\ quick' = quick /\ nextId' = nextId /\ lastTime' = lastTime /\ pc' = pc
      /\ te' = te /\ maxId' = maxId /\ left' = left /\ setBack' = setBack /\ wild' = wild
  BY DEF DeleteTimer
<1>2. /\ timers' \in Seq(Timers) /\ due' \in [Ids -> Nat]
      /\ Ordered' /\ SetTo' /\ \A x \in Live : x # id => x \in Live'
  BY <1>1, DeletedIs
<1>3. TypeOK'
  BY <1>1, <1>2 DEF TimersInv, TypeOK, Timers
<1>4. Pointing'
  BY <1>1, <1>2 DEF TimersInv, Pointing, InProgram
<1>5. QED BY <1>2, <1>3, <1>4 DEF TimersInv

LEMMA HeadIs ==
  ASSUME timers \in Seq(Timers)
  PROVE  HeadId \in Ids \cup {None} /\ (HeadId # None => HeadId \in Live)
<1>1. CASE timers = <<>>
  BY <1>1 DEF HeadId
<1>2. CASE timers # <<>>
  <2>1. 1 \in DOMAIN timers /\ Head(timers) = timers[1] /\ timers[1] \in Timers
    BY <1>2
  <2>2. HeadId = timers[1].id
    BY <1>2, <2>1 DEF HeadId
  <2>3. QED BY <2>1, <2>2 DEF Timers, Live
<1>3. QED BY <1>1, <1>2

LEMMA HeadNext ==
  ASSUME timers' \in Seq(Timers)
  PROVE  HeadId' \in Ids \cup {None} /\ (HeadId' # None => HeadId' \in Live')
<1>1. CASE timers' = <<>>
  BY <1>1 DEF HeadId
<1>2. CASE timers' # <<>>
  <2>1. 1 \in DOMAIN timers' /\ Head(timers') = timers'[1] /\ timers'[1] \in Timers
    BY <1>2
  <2>2. HeadId' = timers'[1].id
    BY <1>2, <2>1 DEF HeadId
  <2>3. QED BY <2>1, <2>2 DEF Timers, Live
<1>3. QED BY <1>1, <1>2

\* Timers that stay in their places.
LEMMA SameIds ==
  ASSUME Ordered, nextId' = nextId, DOMAIN timers' = DOMAIN timers,
         \A n \in DOMAIN timers : timers'[n].id = timers[n].id
  PROVE  Ordered' /\ Live' = Live
BY DEF Ordered, Live

LEMMA ListOf ==
  ASSUME NEW T, NEW n \in Nat, NEW f \in [1 .. n -> T]
  PROVE  f \in Seq(T)
OBVIOUS

\* The timer set again: the others are as they were.
LEMMA SetAgain ==
  ASSUME TimersInv, te \in Live, NEW d \in Nat,
         timers' = [timers EXCEPT ![At(te)].sec = When(d)[1], ![At(te)].ms = When(d)[2]],
         due' = [due EXCEPT ![te] = clock + d],
         nextId' = nextId, setBack' = setBack, lastTime' = lastTime, clock' = clock
  PROVE  /\ timers' \in Seq(Timers) /\ due' \in [Ids -> Nat]
         /\ Ordered' /\ SetTo' /\ Live' = Live
<1>1. TypeOK /\ Ordered /\ SetTo
  BY DEF TimersInv
<1>2. /\ timers \in Seq(Timers) /\ DOMAIN timers = 1 .. Len(timers) /\ Len(timers) \in Nat
      /\ \A n \in 1 .. Len(timers) : timers[n] \in Timers
      /\ due \in [Ids -> Nat]
  BY <1>1, TimersAre
<1>3. PICK h \in 1 .. Len(timers) :
        h = At(te) /\ timers[h].id = te /\ \A n \in 1 .. Len(timers) : n # h => timers[n].id # te
  BY <1>1, AtIs
<1>4. PICK sec, ms : sec = When(d)[1] /\ ms = When(d)[2]
  OBVIOUS
<1>5. sec \in Nat /\ ms \in 0 .. K - 1 /\ sec * K + ms = clock + d
  BY <1>1, <1>4, WhenIs
<1>6. clock + d \in Nat
  BY <1>1, ClockIs
<1>7. timers' = [timers EXCEPT ![h].sec = sec, ![h].ms = ms]
  BY <1>3, <1>4
<1>8. PICK x : x = [timers[h] EXCEPT !.sec = sec, !.ms = ms]
  OBVIOUS
<1>9. timers[h] \in Timers /\ timers[h].id = te
  BY <1>2, <1>3
<1>10. timers'[h] = x /\ x \in Timers /\ x.id = te /\ x.sec = sec /\ x.ms = ms
  <2>1. timers'[h] = [timers[h] EXCEPT !.sec = sec, !.ms = ms]
    BY <1>2, <1>3, <1>7
  <2>2. PICK y \in Timers : y = timers[h] /\ y.id = te
    BY <1>9
  <2>3. x = [y EXCEPT !.sec = sec, !.ms = ms]
    BY <1>8, <2>2
  <2>4. x \in Timers /\ x.id = te /\ x.sec = sec /\ x.ms = ms
    BY <1>5, <2>2, <2>3 DEF Timers
  <2>5. QED BY <1>8, <2>1, <2>4
<1>11. DOMAIN timers' = 1 .. Len(timers)
       /\ \A n \in 1 .. Len(timers) : n # h => timers'[n] = timers[n]
  BY <1>2, <1>7
<1>12. timers' \in Seq(Timers)
  <2>1. timers' \in [1 .. Len(timers) -> Timers]
    <3>1. \A n \in 1 .. Len(timers) : timers'[n] \in Timers
      BY <1>2, <1>10, <1>11
    <3>2. timers' = [n \in 1 .. Len(timers) |-> timers'[n]]
      BY <1>2, <1>7
    <3>3. QED BY <3>1, <3>2
  <2>2. QED BY <1>2, <2>1, ListOf
<1>13. due' \in [Ids -> Nat] /\ due'[te] = clock + d /\ \A y \in Ids : y # te => due'[y] = due[y]
  <2>1. te \in Ids
    BY <1>9 DEF Timers
  <2>2. QED BY <1>2, <1>6, <2>1
<1>14. Ordered' /\ Live' = Live
  <2>1. \A n \in 1 .. Len(timers) : timers'[n].id = timers[n].id
    BY <1>3, <1>10, <1>11
  <2>2. QED BY <1>1, <1>2, <1>11, <2>1, SameIds
<1>15. SetTo'
  <2>1. ASSUME ~setBack, NEW n \in 1 .. Len(timers)
        PROVE  Time(timers'[n]) = due'[timers'[n].id]
    <3>1. CASE n = h
      BY <1>5, <1>10, <1>13, <3>1 DEF Time
    <3>2. CASE n # h
      <4>1. timers'[n] = timers[n] /\ timers[n].id \in Ids /\ timers[n].id # te
        BY <1>2, <1>3, <1>11, <3>2 DEF Timers
      <4>2. QED BY <1>1, <1>2, <1>13, <2>1, <4>1 DEF SetTo
    <3>3. QED BY <3>1, <3>2
  <2>2. Sec' = Sec
    BY DEF Sec
  <2>3. QED BY <1>1, <1>11, <2>1, <2>2 DEF SetTo, Time
<1>16. QED BY <1>12, <1>13, <1>14, <1>15

LEMMA ReturnKeeps ==
  ASSUME TimersInv, NEW retval \in Durations \cup {NoMore}, Return(retval)
  PROVE  TimersInv'
<1>1. TypeOK /\ Ordered /\ SetTo /\ Pointing
  BY DEF TimersInv
<1>2. /\ pc = "call" /\ te' = HeadId' /\ pc' = "scan"
      /\ clock' = clock /\ quick' = quick /\ nextId' = nextId /\ lastTime' = lastTime
      /\ maxId' = maxId /\ left' = left /\ setBack' = setBack
  BY DEF Return, GoOn
<1>3. te # None
  BY <1>1, <1>2 DEF Pointing
<1>4. /\ timers' \in Seq(Timers) /\ due' \in [Ids -> Nat] /\ Ordered' /\ SetTo'
      /\ wild' \in BOOLEAN /\ (~SelfDelete => ~wild')
  <2>1. CASE retval = NoMore
    <3>1. timers' = Without(te) /\ due' = [due EXCEPT ![te] = 0] /\ wild' = wild
      BY <2>1 DEF Return
    <3>2. timers' \in Seq(Timers) /\ due' \in [Ids -> Nat] /\ Ordered' /\ SetTo'
      BY <1>2, <3>1, DeletedIs
    <3>3. QED BY <1>1, <3>1, <3>2 DEF TypeOK, Pointing
  <2>2. CASE retval # NoMore /\ te \in Live
    <3>1. /\ timers' = [timers EXCEPT ![At(te)].sec = When(retval)[1], ![At(te)].ms = When(retval)[2]]
          /\ due' = [due EXCEPT ![te] = clock + retval] /\ wild' = wild
      BY <2>2 DEF Return
    <3>2. retval \in Nat
      BY <2>2, TimeAssumption
    <3>3. timers' \in Seq(Timers) /\ due' \in [Ids -> Nat] /\ Ordered' /\ SetTo'
      BY <1>2, <2>2, <3>1, <3>2, SetAgain
    <3>4. QED BY <1>1, <3>1, <3>3 DEF TypeOK, Pointing
  <2>3. CASE retval # NoMore /\ te \notin Live
    <3>1. timers' = timers /\ due' = due /\ wild' = TRUE
      BY <2>3 DEF Return
    <3>2. SelfDelete
      BY <1>1, <1>2, <1>3, <2>3, TimeAssumption DEF Pointing
    <3>3. Ordered' /\ SetTo'
      BY <1>1, <1>2, <3>1 DEF Ordered, SetTo, Time, Sec
    <3>4. QED BY <1>1, <3>1, <3>2, <3>3, TimersAre
  <2>4. QED BY <2>1, <2>2, <2>3
<1>5. te' \in Ids \cup {None} /\ (te' # None => te' \in Live')
  BY <1>2, <1>4, HeadNext
<1>6. TypeOK'
  BY <1>1, <1>2, <1>4, <1>5 DEF TypeOK, Timers
<1>7. Pointing'
  BY <1>2, <1>4, <1>5 DEF Pointing
<1>8. QED BY <1>4, <1>6, <1>7 DEF TimersInv

LEMMA TimerScanKeeps ==
  ASSUME TimersInv, Scan
  PROVE  TimersInv'
<1>1. TypeOK /\ Ordered /\ SetTo /\ Pointing
  BY DEF TimersInv
<1>2. /\ pc = "scan" /\ te # None /\ wild' = (wild \/ te \notin Live)
      /\ clock' = clock /\ quick' = quick /\ timers' = timers /\ nextId' = nextId
      /\ lastTime' = lastTime /\ maxId' = maxId /\ left' = left /\ due' = due /\ setBack' = setBack
  BY DEF Scan
<1>3. \/ pc' = "call" /\ te' = te
      \/ pc' = pc /\ te \in Live /\ te' = After(te)
      \/ pc' = pc /\ te \notin Live /\ te' = None
  BY DEF Scan
<1>4. ASSUME te \in Live
      PROVE  After(te) \in Ids \cup {None} /\ (After(te) # None => After(te) \in Live)
  <2>1. At(te) \in 1 .. Len(timers) /\ Len(timers) \in Nat /\ DOMAIN timers = 1 .. Len(timers)
    BY <1>1, <1>4, AtIs, TimersAre
  <2>2. CASE At(te) = Len(timers)
    BY <2>2 DEF After
  <2>3. CASE At(te) # Len(timers)
    <3>1. At(te) + 1 \in 1 .. Len(timers)
      BY <2>1, <2>3
    <3>2. After(te) = timers[At(te) + 1].id
      BY <2>3 DEF After
    <3>3. timers[At(te) + 1] \in Timers
      BY <1>1, <3>1, TimersAre
    <3>4. QED BY <2>1, <3>1, <3>2, <3>3 DEF Timers, Live
  <2>4. QED BY <2>2, <2>3
<1>5. /\ te' \in Ids \cup {None} /\ pc' \in {"scan", "call"}
      /\ (pc' = "call" => te' # None)
      /\ (te \in Live /\ te' # None => te' \in Live)
  BY <1>1, <1>2, <1>3, <1>4 DEF TypeOK
<1>6. wild' \in BOOLEAN /\ Live' = Live
  BY <1>1, <1>2 DEF Live
<1>7. TypeOK'
  BY <1>1, <1>2, <1>5, <1>6 DEF TypeOK
<1>8. Ordered' /\ SetTo'
  BY <1>1, <1>2 DEF Ordered, SetTo, Time, Sec
<1>9. Pointing'
  BY <1>1, <1>2, <1>5, <1>6 DEF Pointing
<1>10. QED BY <1>7, <1>8, <1>9 DEF TimersInv

LEMMA ProgramDoneKeeps ==
  ASSUME TimersInv, ProgramDone
  PROVE  TimersInv'
<1>1. TypeOK /\ Ordered /\ SetTo /\ Pointing
  BY DEF TimersInv
<1>2. /\ pc = "program"
      /\ timers' = [n \in DOMAIN timers |->
                      IF Sec < lastTime THEN [timers[n] EXCEPT !.sec = 0] ELSE timers[n]]
      /\ lastTime' = Sec /\ te' = HeadId /\ maxId' = nextId - 1 /\ pc' = "scan"
      /\ clock' = clock /\ quick' = quick /\ nextId' = nextId /\ left' = left /\ due' = due
      /\ setBack' = setBack /\ wild' = wild
  BY DEF ProgramDone
<1>3. /\ timers \in Seq(Timers) /\ DOMAIN timers = 1 .. Len(timers) /\ Len(timers) \in Nat
      /\ \A n \in 1 .. Len(timers) : timers[n] \in Timers
  BY <1>1, TimersAre
<1>4. ASSUME NEW n \in 1 .. Len(timers)
      PROVE  timers'[n] \in Timers /\ timers'[n].id = timers[n].id
             /\ (Sec >= lastTime => timers'[n] = timers[n])
  <2>1. timers'[n] = IF Sec < lastTime THEN [timers[n] EXCEPT !.sec = 0] ELSE timers[n]
    BY <1>2, <1>3
  <2>2. timers[n] \in Timers
    BY <1>3
  <2>3. [timers[n] EXCEPT !.sec = 0] \in Timers /\ [timers[n] EXCEPT !.sec = 0].id = timers[n].id
    BY <2>2 DEF Timers
  <2>4. Sec \in Nat /\ lastTime \in Nat
    BY <1>1, ClockIs DEF TypeOK
  <2>5. QED BY <2>1, <2>2, <2>3, <2>4
<1>5. DOMAIN timers' = 1 .. Len(timers) /\ timers' \in Seq(Timers)
  <2>1. timers' = [n \in 1 .. Len(timers) |-> timers'[n]]
    BY <1>2, <1>3
  <2>2. timers' \in [1 .. Len(timers) -> Timers]
    BY <1>4, <2>1
  <2>3. QED BY <1>3, <2>2, ListOf
<1>6. Ordered' /\ Live' = Live
  BY <1>1, <1>2, <1>3, <1>4, <1>5, SameIds
<1>7. te' \in Ids \cup {None} /\ (te' # None => te' \in Live')
  BY <1>2, <1>3, <1>6, HeadIs
<1>8. maxId' \in Ids \cup {None} /\ lastTime' \in 0 .. MaxClock
  <2>1. nextId \in 0 .. MaxTimers /\ MaxTimers \in Nat
    BY <1>1, TimeAssumption DEF TypeOK
  <2>2. QED BY <1>1, <1>2, <2>1, SecondIs DEF Ids, None
<1>9. TypeOK'
  BY <1>1, <1>2, <1>5, <1>7, <1>8 DEF TypeOK, Timers
<1>10. SetTo'
  <2>1. Sec' = Sec /\ Sec \in Nat
    BY <1>1, <1>2, ClockIs DEF Sec
  <2>2. ~setBack => \A n \in 1 .. Len(timers) : timers'[n] = timers[n]
    BY <1>1, <1>4 DEF SetTo, TypeOK
  <2>3. ASSUME ~setBack, NEW n \in 1 .. Len(timers)
        PROVE  Time(timers'[n]) = due'[timers'[n].id]
    BY <1>1, <1>2, <1>3, <2>2, <2>3 DEF SetTo
  <2>4. QED BY <1>2, <1>5, <2>1, <2>3 DEF SetTo, Time
<1>11. Pointing'
  BY <1>1, <1>2, <1>7 DEF Pointing
<1>12. QED BY <1>6, <1>9, <1>10, <1>11 DEF TimersInv

\* The earlier of two timers is the one whose time is less.
LEMMA EarlierIs ==
  ASSUME NEW x \in Timers, NEW y \in Timers
  PROVE  Earlier(x, y) <=> Time(x) < Time(y)
<1>1. PICK a, b, c, d : a = x.sec /\ b = x.ms /\ c = y.sec /\ d = y.ms
  OBVIOUS
<1>2. a \in Nat /\ c \in Nat /\ b \in 0 .. K - 1 /\ d \in 0 .. K - 1 /\ K \in Nat \ {0}
  BY <1>1, TimeAssumption DEF Timers
<1>3. a * K \in Int /\ c * K \in Int
  BY <1>2, Multiples
<1>4. ASSUME a < c
      PROVE  a * K + b < c * K + d
  <2>1. (a + 1) * K <= c * K /\ (a + 1) * K = a * K + K
    <3>1. a + 1 <= c /\ a + 1 \in Int
      BY <1>2, <1>4
    <3>2. QED BY <1>2, <3>1, MultiplesGrow, Multiples
  <2>2. QED BY <1>2, <1>3, <2>1
<1>5. ASSUME c < a
      PROVE  c * K + d < a * K + b
  <2>1. (c + 1) * K <= a * K /\ (c + 1) * K = c * K + K
    <3>1. c + 1 <= a /\ c + 1 \in Int
      BY <1>2, <1>5
    <3>2. QED BY <1>2, <3>1, MultiplesGrow, Multiples
  <2>2. QED BY <1>2, <1>3, <2>1
<1>6. (a < c \/ (a = c /\ b < d)) <=> a * K + b < c * K + d
  BY <1>2, <1>3, <1>4, <1>5
<1>7. QED BY <1>1, <1>6 DEF Earlier, Time

LEMMA TimeIs ==
  ASSUME NEW x \in Timers
  PROVE  Time(x) \in Nat
<1>1. x.sec \in Nat /\ x.ms \in 0 .. K - 1 /\ K \in Nat
  BY TimeAssumption DEF Timers
<1>2. 0 * K <= x.sec * K /\ x.sec * K \in Int /\ 0 * K = 0
  BY <1>1, MultiplesGrow
<1>3. QED BY <1>1, <1>2 DEF Time

\* There is a first among the earliest timers, so Nearest is one of the list
\* and none is earlier.
LEMMA NearestIs ==
  ASSUME TypeOK, Ordered, timers # <<>>
  PROVE  /\ Nearest \in Timers
         /\ \A n \in DOMAIN timers : Time(Nearest) <= Time(timers[n])
         /\ \E n \in DOMAIN timers : Nearest = timers[n]
<1>1. /\ DOMAIN timers = 1 .. Len(timers) /\ Len(timers) \in Nat
      /\ \A n \in 1 .. Len(timers) : timers[n] \in Timers /\ Time(timers[n]) \in Nat
  BY TimersAre, TimeIs
<1>2. 1 \in DOMAIN timers
  <2>1. timers \in Seq(Timers)
    BY TimersAre
  <2>2. Len(timers) # 0
    BY <2>1
  <2>3. QED BY <1>1, <2>2
<1>3. ToSet(timers) = {timers[n] : n \in DOMAIN timers}
  BY DEF ToSet
<1>4. PICK m \in DOMAIN timers : \A n \in DOMAIN timers : Time(timers[m]) <= Time(timers[n])
  <2>1. PICK S : S = {Time(timers[n]) : n \in DOMAIN timers}
    OBVIOUS
  <2>2. S \subseteq Nat /\ S # {}
    BY <1>1, <1>2, <2>1
  <2>3. PICK x \in S : \A y \in S : x <= y
    BY <2>2, LeastNumber
  <2>4. QED BY <2>1, <2>3
<1>5. PICK h \in DOMAIN timers :
        /\ Time(timers[h]) = Time(timers[m])
        /\ \A n \in DOMAIN timers : Time(timers[n]) = Time(timers[m]) => h <= n
  <2>1. PICK S : S = {n \in DOMAIN timers : Time(timers[n]) = Time(timers[m])}
    OBVIOUS
  <2>2. S \subseteq Nat /\ S # {}
    BY <1>1, <1>4, <2>1
  <2>3. PICK x \in S : \A y \in S : x <= y
    BY <2>2, LeastNumber
  <2>4. QED BY <2>1, <2>3
<1>6. At(timers[h].id) = h
  <2>1. timers[h].id \in Live
    BY <1>5 DEF Live
  <2>2. QED BY <1>1, <1>5, <2>1, AtIs
<1>7. \A u \in ToSet(timers) : ~Earlier(u, timers[h])
  <2>1. ASSUME NEW n \in DOMAIN timers
        PROVE  ~Earlier(timers[n], timers[h])
    <3>1. Time(timers[h]) <= Time(timers[n]) /\ Time(timers[h]) \in Nat /\ Time(timers[n]) \in Nat
      BY <1>1, <1>4, <1>5, <2>1
    <3>2. QED BY <1>1, <1>5, <2>1, <3>1, EarlierIs
  <2>2. QED BY <1>3, <2>1
<1>8. ASSUME NEW n \in DOMAIN timers, n < At(timers[h].id)
      PROVE  Earlier(timers[h], timers[n])
  <2>1. n \in Nat /\ h \in Nat /\ n < h
    BY <1>1, <1>5, <1>6, <1>8
  <2>2. Time(timers[n]) # Time(timers[m])
    BY <1>5, <2>1
  <2>3. Time(timers[h]) < Time(timers[n])
    BY <1>1, <1>4, <1>5, <2>2
  <2>4. QED BY <1>1, <1>5, <2>3, EarlierIs
<1>9. \E x \in ToSet(timers) :
        /\ \A u \in ToSet(timers) : ~Earlier(u, x)
        /\ \A n \in DOMAIN timers : n < At(x.id) => Earlier(x, timers[n])
  BY <1>3, <1>5, <1>7, <1>8
<1>10. Nearest \in ToSet(timers) /\ \A u \in ToSet(timers) : ~Earlier(u, Nearest)
  BY <1>9 DEF Nearest
<1>11. PICK j \in DOMAIN timers : Nearest = timers[j]
  BY <1>3, <1>10
<1>12. ASSUME NEW n \in DOMAIN timers
       PROVE  Time(Nearest) <= Time(timers[n])
  <2>1. ~Earlier(timers[n], timers[j])
    BY <1>3, <1>10, <1>11, <1>12
  <2>2. ~(Time(timers[n]) < Time(timers[j]))
    BY <1>1, <1>11, <2>1, EarlierIs
  <2>3. Time(timers[n]) \in Nat /\ Time(timers[j]) \in Nat
    BY <1>1, <1>11
  <2>4. QED BY <1>11, <2>2, <2>3
<1>13. QED BY <1>1, <1>11, <1>12

LEMMA ClampIs ==
  ASSUME NEW x \in Int
  PROVE  /\ Clamp(x) \in Nat /\ x <= Clamp(x)
         /\ x >= 0 => Clamp(x) = x
         /\ x < 0 => Clamp(x) = 0
BY DEF Clamp

\* Seconds and milliseconds to go, each of them not below zero, are less than a
\* second more than the time to go.
LEMMA SleepSum ==
  ASSUME NEW e \in Int, NEW f \in 0 .. K - 1, NEW v \in Int, e * K + f = v
  PROVE  /\ Clamp(e) * K + Clamp(f) \in Nat
         /\ Clamp(e) * K + Clamp(f) <= Clamp(v) + (K - 1)
<1>1. K \in Nat \ {0} /\ f \in Nat /\ f <= K - 1 /\ Clamp(f) = f
  BY TimeAssumption, ClampIs
<1>2. Clamp(v) \in Nat /\ v <= Clamp(v)
  BY ClampIs
<1>3. CASE e >= 0
  <2>1. Clamp(e) = e
    BY <1>3, ClampIs
  <2>2. 0 * K <= e * K /\ e * K \in Int /\ 0 * K = 0
    BY <1>1, <1>3, MultiplesGrow
  <2>3. QED BY <1>1, <1>2, <2>1, <2>2
<1>4. CASE e < 0
  <2>1. Clamp(e) = 0 /\ 0 * K = 0
    BY <1>1, <1>4, ClampIs
  <2>2. Clamp(e) * K + Clamp(f) = f
    BY <1>1, <2>1
  <2>3. QED BY <1>1, <1>2, <2>2
<1>5. QED BY <1>3, <1>4

LEMMA SleepIs ==
  ASSUME TypeOK, NEW x \in Timers
  PROVE  SleepFor(x) \in Nat /\ SleepFor(x) <= Clamp(Time(x) - clock) + (K - 1)
<1>1. PICK a, b, s, m : a = x.sec /\ b = x.ms /\ s = Sec /\ m = Ms
  OBVIOUS
<1>2. /\ a \in Nat /\ b \in 0 .. K - 1 /\ s \in Nat /\ m \in 0 .. K - 1
      /\ clock \in Nat /\ clock = s * K + m /\ K \in Nat \ {0}
  BY <1>1, ClockIs, TimeAssumption DEF Timers
<1>3. /\ a * K \in Int /\ s * K \in Int /\ (a - s) * K = a * K - s * K
      /\ ((a - s) - 1) * K = (a - s) * K - K
  BY <1>2, Multiples
<1>4. Time(x) = a * K + b /\ Time(x) - clock \in Int
  BY <1>1, <1>2, <1>3 DEF Time
<1>5. CASE b < m
  <2>1. PICK e, f : e = (a - s) - 1 /\ f = b + (K - m)
    OBVIOUS
  <2>2. e \in Int /\ f \in 0 .. K - 1
    BY <1>2, <1>5, <2>1
  <2>3. e * K + f = Time(x) - clock
    <3>1. e * K = (a * K - s * K) - K
      BY <1>3, <2>1
    <3>2. QED BY <1>2, <1>3, <1>4, <2>1, <3>1
  <2>4. /\ Clamp(e) * K + Clamp(f) \in Nat
        /\ Clamp(e) * K + Clamp(f) <= Clamp(Time(x) - clock) + (K - 1)
    BY <1>4, <2>2, <2>3, SleepSum
  <2>5. SleepFor(x) = IF Clamp(e) * K + Clamp(f) < 0 THEN Forever
                      ELSE Clamp(e) * K + Clamp(f)
    BY <1>1, <1>5, <2>1 DEF SleepFor
  <2>6. QED BY <2>4, <2>5
<1>6. CASE ~(b < m)
  <2>1. PICK e, f : e = a - s /\ f = b - m
    OBVIOUS
  <2>2. e \in Int /\ f \in 0 .. K - 1
    BY <1>2, <1>6, <2>1
  <2>3. e * K + f = Time(x) - clock
    <3>1. e * K = a * K - s * K
      BY <1>3, <2>1
    <3>2. QED BY <1>2, <1>3, <1>4, <2>1, <3>1
  <2>4. /\ Clamp(e) * K + Clamp(f) \in Nat
        /\ Clamp(e) * K + Clamp(f) <= Clamp(Time(x) - clock) + (K - 1)
    BY <1>4, <2>2, <2>3, SleepSum
  <2>5. SleepFor(x) = IF Clamp(e) * K + Clamp(f) < 0 THEN Forever
                      ELSE Clamp(e) * K + Clamp(f)
    BY <1>1, <1>6, <2>1 DEF SleepFor
  <2>6. QED BY <2>4, <2>5
<1>7. QED BY <1>5, <1>6

\* A timeout that an int can hold is waited for.
LEMMA TimeoutIs ==
  ASSUME NEW n \in Nat
  PROVE  /\ Timeout(n) \in Nat \cup {Forever}
         /\ n < HalfInt => Timeout(n) = n
<1>1. PICK h, w : h = HalfInt /\ w = 2 * HalfInt
  OBVIOUS
<1>2. h \in Nat \ {0} /\ w \in Nat \ {0} /\ w = h + h /\ n + h \in Nat
  BY <1>1, TimeAssumption
<1>3. (n + h) % w \in 0 .. w - 1
  BY <1>2, Division
<1>4. Narrowed(n) = ((n + h) % w) - h
  BY <1>1 DEF Narrowed
<1>5. Narrowed(n) \in Int
  BY <1>2, <1>3, <1>4
<1>6. ASSUME n < h PROVE Narrowed(n) = n
  <2>1. n + h \in 0 .. w - 1
    BY <1>2, <1>6
  <2>2. (n + h) % w = n + h
    BY <1>2, <2>1
  <2>3. QED BY <1>2, <1>4, <2>2
<1>7. QED BY <1>1, <1>5, <1>6 DEF Timeout

\* Steps that change neither the list nor the clock nor what a pass points to.
LEMMA ListStays ==
  ASSUME TimersInv, timers' = timers, due' = due, nextId' = nextId, clock' = clock,
         lastTime' = lastTime, setBack' = setBack, te' = te, wild' = wild, quick' = quick,
         pc' \in {"setup", "program", "top", "asleep"} \/ pc' = pc,
         maxId' \in Ids \cup {None}, left' \in Nat \cup {Forever}
  PROVE  TimersInv'
<1>1. Sec' = Sec /\ Live' = Live
  BY DEF Sec, Live
<1>2. TypeOK' /\ Ordered' /\ SetTo'
  BY <1>1 DEF TimersInv, TypeOK, Ordered, SetTo, Time
<1>3. Pointing'
  BY <1>1 DEF TimersInv, Pointing
<1>4. QED BY <1>2, <1>3 DEF TimersInv

LEMMA SleepKeeps ==
  ASSUME TimersInv, Sleep
  PROVE  TimersInv'
<1>1. TypeOK /\ Ordered
  BY DEF TimersInv
<1>2. /\ pc' = "asleep" /\ left' = IF timers = <<>> THEN Forever ELSE Timeout(SleepFor(Nearest))
      /\ timers' = timers /\ due' = due /\ nextId' = nextId /\ clock' = clock
      /\ lastTime' = lastTime /\ setBack' = setBack /\ te' = te /\ wild' = wild /\ quick' = quick
      /\ maxId' = maxId
  BY DEF Sleep
<1>3. left' \in Nat \cup {Forever} /\ maxId' \in Ids \cup {None}
  BY <1>1, <1>2, NearestIs, SleepIs, TimeoutIs DEF TypeOK
<1>4. QED BY <1>2, <1>3, ListStays

LEMMA TimePasses ==
  ASSUME TimersInv, Tick
  PROVE  TimersInv'
<1>1. TypeOK /\ Ordered /\ SetTo /\ Pointing
  BY DEF TimersInv
<1>2. /\ clock' = IF clock < MaxClock THEN clock + 1 ELSE clock
      /\ left' = IF pc = "asleep" /\ left > 0 THEN left - 1 ELSE left
      /\ timers' = timers /\ due' = due /\ nextId' = nextId /\ pc' = pc /\ maxId' = maxId
      /\ lastTime' = lastTime /\ setBack' = setBack /\ te' = te /\ wild' = wild /\ quick' = quick
  BY DEF Tick
<1>3. K \in Nat /\ MaxClock \in Nat /\ clock \in K .. MaxClock
  BY <1>1, TimeAssumption DEF TypeOK
<1>4. clock' \in K .. MaxClock /\ clock \in Nat /\ clock' \in Nat /\ clock <= clock'
  BY <1>2, <1>3
<1>5. left' \in Nat \cup {Forever}
  <2>1. left \in Nat \cup {Forever}
    BY <1>1 DEF TypeOK
  <2>2. left > 0 /\ left \in Nat => left - 1 \in Nat
    OBVIOUS
  <2>3. left = Forever => ~(left > 0)
    BY DEF Forever
  <2>4. QED BY <1>2, <2>1, <2>2, <2>3
<1>6. TypeOK'
  BY <1>1, <1>2, <1>4, <1>5 DEF TypeOK
<1>7. SetTo'
  <2>1. Sec <= Sec'
    BY <1>4, SecondsGoOn DEF Sec
  <2>2. Sec \in Nat /\ Sec' \in Nat /\ lastTime \in Nat
    <3>1. K \in Nat \ {0} /\ lastTime \in Nat
      BY <1>1, TimeAssumption DEF TypeOK
    <3>2. Sec \in Nat /\ Sec' \in Nat
      BY <1>4, <3>1, QuotientIs DEF Sec
    <3>3. QED BY <3>1, <3>2
  <2>3. QED BY <1>1, <1>2, <2>1, <2>2 DEF SetTo, Time
<1>8. Ordered' /\ Pointing'
  BY <1>1, <1>2 DEF Ordered, Pointing, Live
<1>9. QED BY <1>6, <1>7, <1>8 DEF TimersInv

LEMMA SetBackKeeps ==
  ASSUME TimersInv, SetBack
  PROVE  TimersInv'
<1>1. TypeOK /\ Ordered /\ SetTo /\ Pointing
  BY DEF TimersInv
<1>2. /\ \E x \in K .. clock - 1 : clock' = x
      /\ setBack' = TRUE /\ left' = left
      /\ timers' = timers /\ due' = due /\ nextId' = nextId /\ pc' = pc /\ maxId' = maxId
      /\ lastTime' = lastTime /\ te' = te /\ wild' = wild /\ quick' = quick
  BY DEF SetBack
<1>3. clock' \in K .. MaxClock
  BY <1>1, <1>2, TimeAssumption DEF TypeOK
<1>4. TypeOK' /\ Ordered' /\ SetTo' /\ Pointing'
  BY <1>1, <1>2, <1>3 DEF TypeOK, Ordered, SetTo, Pointing, Live
<1>5. QED BY <1>4 DEF TimersInv

LEMMA TimersKeep ==
  ASSUME TimersInv, [Next]_vars
  PROVE  TimersInv'
<1>1. left \in Nat \cup {Forever} /\ maxId \in Ids \cup {None}
  BY DEF TimersInv, TypeOK
<1>2. CASE UNCHANGED vars
  BY <1>1, <1>2, ListStays DEF vars
<1>3. CASE Program
  BY <1>3, CreateKeeps, DeleteKeeps DEF Program
<1>4. CASE SetupDone \/ Woken \/ PassDone
  BY <1>1, <1>4, ListStays DEF SetupDone, Woken, PassDone
<1>5. CASE Returned
  BY <1>5, ReturnKeeps DEF Returned
<1>6. CASE ProgramDone \/ Sleep \/ Scan \/ Tick \/ SetBack
  BY <1>6, ProgramDoneKeeps, SleepKeeps, TimerScanKeeps, TimePasses, SetBackKeeps
<1>7. QED BY <1>2, <1>3, <1>4, <1>5, <1>6 DEF Next, Loop

\* Of the timers: what is called is over, and a sleep is over less than a second
\* after the first of them is.
LEMMA CalledInTime ==
  ASSUME TimersInv, Next
  PROVE  NeverEarly
<1>1. SUFFICES ASSUME pc = "scan", pc' = "call", ~setBack
               PROVE  due[te] < clock
  BY DEF NeverEarly
<1>2. TypeOK /\ Ordered /\ SetTo
  BY DEF TimersInv
<1>3. te \in Live /\ Due(timers[At(te)])
  BY <1>1 DEF Next, Program, CreateTimer, DeleteTimer, Loop, SetupDone, ProgramDone, Sleep, Scan,
              PassDone, Returned, Return, Woken, Tick, SetBack, InProgram
<1>4. PICK h \in 1 .. Len(timers) : h = At(te) /\ timers[h].id = te
  BY <1>2, <1>3, AtIs
<1>5. PICK x \in Timers : x = timers[h]
  BY <1>2, <1>4, TimersAre
<1>6. Time(x) = due[te]
  BY <1>1, <1>2, <1>4, <1>5, TimersAre DEF SetTo
<1>7. Time(x) < clock
  <2>1. PICK a, b, s, m : a = x.sec /\ b = x.ms /\ s = Sec /\ m = Ms
    OBVIOUS
  <2>2. /\ a \in Nat /\ b \in 0 .. K - 1 /\ s \in Nat /\ m \in 0 .. K - 1
        /\ clock = s * K + m /\ K \in Nat \ {0}
    BY <1>2, <2>1, ClockIs, TimeAssumption DEF Timers
  <2>3. s > a \/ (s = a /\ m > b)
    BY <1>3, <1>4, <1>5, <2>1 DEF Due
  <2>4. a * K \in Int /\ s * K \in Int
    BY <2>2, Multiples
  <2>5. CASE s > a
    <3>1. (a + 1) * K <= s * K /\ (a + 1) * K = a * K + K
      <4>1. a + 1 <= s /\ a + 1 \in Int
        BY <2>2, <2>5
      <4>2. QED BY <2>2, <4>1, MultiplesGrow, Multiples
    <3>2. a * K + b < s * K + m
      BY <2>2, <2>4, <3>1
    <3>3. QED BY <2>1, <2>2, <3>2 DEF Time
  <2>6. CASE s = a /\ m > b
    <3>1. a * K + b < s * K + m
      BY <2>2, <2>4, <2>6
    <3>2. QED BY <2>1, <2>2, <3>1 DEF Time
  <2>7. QED BY <2>3, <2>5, <2>6
<1>8. QED BY <1>6, <1>7

LEMMA WokenInTime ==
  ASSUME TimersInv, Next
  PROVE  OversleepsUnderASecond
<1>1. SUFFICES ASSUME pc = "top", pc' = "asleep", NEW id \in Live, ~setBack, Fits(id)
               PROVE  left' \in 0 .. Clamp(due[id] - clock) + K - 1
  BY DEF OversleepsUnderASecond
<1>2. TypeOK /\ Ordered /\ SetTo
  BY DEF TimersInv
<1>3. left' = IF timers = <<>> THEN Forever ELSE Timeout(SleepFor(Nearest))
  BY <1>1 DEF Next, Program, CreateTimer, DeleteTimer, Loop, SetupDone, ProgramDone, Sleep, Scan,
              PassDone, Returned, Return, Woken, Tick, SetBack, InProgram
<1>4. PICK n \in DOMAIN timers : timers[n].id = id
  BY <1>1 DEF Live
<1>5. timers # <<>>
  BY <1>4
<1>6. /\ Nearest \in Timers /\ Time(Nearest) <= Time(timers[n]) /\ Time(Nearest) \in Nat
      /\ timers[n] \in Timers /\ Time(timers[n]) \in Nat /\ Time(timers[n]) = due[id]
  BY <1>1, <1>2, <1>4, <1>5, NearestIs, TimeIs, TimersAre DEF SetTo
<1>7. /\ left' = Timeout(SleepFor(Nearest)) /\ SleepFor(Nearest) \in Nat
      /\ SleepFor(Nearest) <= Clamp(Time(Nearest) - clock) + (K - 1)
  BY <1>2, <1>3, <1>5, <1>6, SleepIs
<1>8. clock \in Nat /\ K \in Nat \ {0} /\ HalfInt \in Nat \ {0}
  BY <1>2, ClockIs, TimeAssumption
<1>9. Clamp(Time(Nearest) - clock) <= Clamp(due[id] - clock)
      /\ Clamp(Time(Nearest) - clock) \in Nat /\ Clamp(due[id] - clock) \in Nat
  BY <1>6, <1>8 DEF Clamp
<1>10. SleepFor(Nearest) < HalfInt
  BY <1>1, <1>7, <1>8, <1>9 DEF Fits
<1>11. left' = SleepFor(Nearest)
  BY <1>7, <1>10, TimeoutIs
<1>12. QED BY <1>7, <1>8, <1>9, <1>11

----------------------------------------------------------------------------
(* The programs.                                                            *)

PInv ==
  /\ part = "timers" => TimersInv
  /\ part = "size" => SizeInv
  /\ part = "daily" => DailyInv
  /\ part = "config" => ConfigInv

LEMMA ProgramsInit == PInit => PInv
BY TimersInit, SizeInit, DailyInit, ConfigInit DEF PInit, PInv

LEMMA StepsAre ==
  ASSUME [PNext]_pvars
  PROVE  /\ part' = part
         /\ part = "timers" => [Next]_vars
         /\ part # "timers" => UNCHANGED vars
         /\ part = "size" => [Size!Next]_sizeOf
         /\ part = "daily" => [Daily!Next]_dailyOf
         /\ part = "config" => [Config!Next]_configOf
<1>1. part' = part
  BY DEF PNext, pvars
<1>2. part = "timers" => [Next]_vars
  BY DEF PNext, pvars, timersOf
<1>3. part # "timers" => UNCHANGED vars
  BY DEF PNext, pvars, timersOf
<1>4. part = "size" => [Size!Next]_sizeOf
  BY DEF PNext, pvars, logsOf, sizeOf
<1>5. part = "daily" => [Daily!Next]_dailyOf
  BY DEF PNext, pvars, logsOf, dailyOf
<1>6. part = "config" => [Config!Next]_configOf
  BY DEF PNext, pvars, smallOf, configOf
<1>7. QED BY <1>1, <1>2, <1>3, <1>4, <1>5, <1>6

LEMMA ProgramsKeep ==
  ASSUME PInv, [PNext]_pvars
  PROVE  PInv'
BY StepsAre, TimersKeep, SizeKeeps, DailyKeeps, ConfigKeeps DEF PInv

\* utils/log: a roll over, and a death in the middle of it, costs no record that
\* is to be kept, nor its order, nor its day, and what it costs when the system
\* refuses to rename: for any size of a file, number of backups, number of days
\* (of which the product may wrap), length of a day, and however often the
\* program dies.
THEOREM LogsKeptCorrect == PSpec => []LogsKept
<1>1. PInv => LogsKept
  BY NewestAreKept, DaysAreKept DEF PInv, LogsKept
<1>2. QED BY <1>1, ProgramsInit, ProgramsKeep, PTL DEF PSpec

\* utils/config: whatever lines a file has, however many and in whatever order,
\* the items asked for are those of the file.
THEOREM AsWrittenCorrect == PSpec => []AsWritten
<1>1. PInv => AsWritten
  <2>1. SUFFICES ASSUME ConfigInv
                 PROVE  Config!AsWritten
    BY DEF PInv, AsWritten
  <2>2. CASE Reading
    BY <2>1, <2>2 DEF ConfigInv, Config!AsWritten
  <2>3. CASE ~Reading
    BY <2>1, <2>3 DEF ConfigInv
  <2>4. QED BY <2>2, <2>3
<1>2. QED BY <1>1, ProgramsInit, ProgramsKeep, PTL DEF PSpec

\* processTimeEvents: whatever timers handlers create and delete, as long as none
\* deletes its own, a pass uses no timer after it was freed.
THEOREM TimersSafeCorrect ==
  ASSUME SelfDelete = FALSE
  PROVE  PSpec => []TimersSafe
<1>1. PInv => TimersSafe
  BY DEF PInv, TimersSafe, TimersInv, Pointing, NoUseAfterFree
<1>2. QED BY <1>1, ProgramsInit, ProgramsKeep, PTL DEF PSpec

\* No timer is called early and none is slept past by a second that epoll_wait
\* can be told to wait for, for any length of a second and range of an int, any
\* number of timers and any time they are set to.
THEOREM OnTimeCorrect == PSpec => OnTime
<1>1. ASSUME PInv, [PNext]_pvars
      PROVE  [NeverEarly /\ OversleepsUnderASecond]_vars
  <2>1. CASE part = "timers"
    BY <1>1, <2>1, StepsAre, CalledInTime, WokenInTime DEF PInv
  <2>2. CASE part # "timers"
    BY <1>1, <2>2, StepsAre
  <2>3. QED BY <2>1, <2>2
<1>2. QED BY <1>1, ProgramsInit, ProgramsKeep, PTL DEF PSpec, OnTime

=============================================================================
