------------------------------ MODULE MyConfig ------------------------------
(***************************************************************************)
(* utils/config/my_config.cpp: a file of sections with items is read into  *)
(* a map of maps, a section at a time; a section goes into the map when    *)
(* the next begins or the file ends, in either of two ways. Then main asks *)
(* for items.                                                              *)
(*                                                                         *)
(* A line is what is left of it without blanks and comment. What is longer *)
(* than the buffer comes as several lines, so any line may follow any.     *)
(***************************************************************************)
EXTENDS Naturals, Sequences, FiniteSetsExt

CONSTANTS Names, Items, Values, MaxLines   \* of sections and items; values

None == "none"   \* NULL

Lines ==
  [kind : {"section"}, name : Names \cup {""}]
    \cup [kind : {"item"}, name : Items, value : Values \cup {""}]
    \cup [kind : {"blank"}]

VARIABLES
  pc,          \* "usage", "instance", "load", "read", "last", "ask", "free", "over", "died"
  ins,         \* the instance: "none", "made", "deleted"
  m_contener, m_iLoaded,
  cSectionName, cSection,
  text         \* the lines read (a history)

configVars == <<pc, ins, m_contener, m_iLoaded, cSectionName, cSection, text>>

Nothing == [k \in {} |-> ""]

\* map[k] = v
Put(f, k, v) == [j \in DOMAIN f \cup {k} |-> IF j = k THEN v ELSE f[j]]

----------------------------------------------------------------------------
Usage ==
  /\ pc = "usage" /\ pc' \in {"instance", "over"}
  /\ UNCHANGED <<ins, m_contener, m_iLoaded, cSectionName, cSection, text>>

Instance ==
  /\ pc = "instance"
  /\ ins' = "made" /\ pc' = "load"
  /\ UNCHANGED <<m_contener, m_iLoaded, cSectionName, cSection, text>>

\* fopen; when it fails main goes on.
Open ==
  /\ pc = "load" /\ pc' \in {"read", "ask"}
  /\ UNCHANGED <<ins, m_contener, m_iLoaded, cSectionName, cSection, text>>

\* m_contener[cSectionName] = cSection
Stored == IF cSectionName = "" THEN m_contener ELSE Put(m_contener, cSectionName, cSection)

\* A new section begins empty (mutant: with the items of the one before).
Carried == cSection
Cleared == Nothing

\* A line that the end of the file ends is the last.
Reads(l) ==
  /\ pc = "read" /\ Len(text) < MaxLines
  /\ text' = Append(text, l)
  /\ pc' \in {"read", "last"}
  /\ UNCHANGED <<ins, m_iLoaded>>

Section ==
  \E l \in Lines :
    /\ l.kind = "section" /\ Reads(l)
    /\ m_contener' = Stored
    /\ cSectionName' = l.name /\ cSection' = Cleared

\* Also before the first section and in one without a name: those are dropped.
Item ==
  \E l \in Lines :
    /\ l.kind = "item" /\ Reads(l)
    /\ cSection' = Put(cSection, l.name, l.value)
    /\ UNCHANGED <<m_contener, cSectionName>>

Blank == Reads([kind |-> "blank"]) /\ UNCHANGED <<m_contener, cSectionName, cSection>>

\* fgets gives nothing (or an error, which is taken for the end); or feof was
\* true after the last line.
FileEnds ==
  /\ pc \in {"read", "last"}
  /\ m_contener' = Stored /\ m_iLoaded' = 1
  /\ pc' = "ask"
  /\ UNCHANGED <<ins, cSectionName, cSection, text>>

\* getConfigStr, getConfigInt
Get(s, k) ==
  IF s \in DOMAIN m_contener /\ k \in DOMAIN m_contener[s] THEN m_contener[s][k] ELSE None

\* A string of NULL ends the program.
Ask ==
  /\ pc = "ask"
  /\ \E s \in Names, k \in Items : pc' = IF Get(s, k) = None THEN "died" ELSE "free"
  /\ UNCHANGED <<ins, m_contener, m_iLoaded, cSectionName, cSection, text>>

Free ==
  /\ pc = "free"
  /\ ins' = "deleted" /\ m_contener' = Nothing /\ m_iLoaded' = 0
  /\ pc' = "over"
  /\ UNCHANGED <<cSectionName, cSection, text>>

Init ==
  /\ pc = "usage" /\ ins = "none" /\ m_contener = Nothing /\ m_iLoaded = 0
  /\ cSectionName = "" /\ cSection = Nothing /\ text = <<>>

Next == Usage \/ Instance \/ Open \/ Section \/ Item \/ Blank \/ FileEnds \/ Ask \/ Free

----------------------------------------------------------------------------
(* What the file says: the last section of a name counts, and in it the    *)
(* last line of an item.                                                   *)

Begins(s) == {n \in DOMAIN text : text[n].kind = "section" /\ text[n].name = s}
Within(b, n) == b < n /\ \A h \in b + 1 .. n : text[h].kind # "section"
Says(s, k) ==
  {n \in DOMAIN text : /\ Begins(s) # {} /\ Within(Max(Begins(s)), n)
                       /\ text[n].kind = "item" /\ text[n].name = k}

\* However the file ends, and whatever comes twice, before the first section or
\* without a name, the items asked for are those of the file.
AsWritten ==
  m_iLoaded = 1 =>
    \A s \in Names, k \in Items :
      Get(s, k) = IF Says(s, k) = {} THEN None ELSE text[Max(Says(s, k))].value
=============================================================================
