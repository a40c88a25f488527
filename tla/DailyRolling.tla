---------------------------- MODULE DailyRolling ----------------------------
(***************************************************************************)
(* utils/log/log_daily_rolling.cpp: a log file that is renamed, when a     *)
(* record comes on a later day, to the day it was of; files that nobody    *)
(* wrote for a number of days are deleted. Time passes between any two     *)
(* calls, midnight also; the program may die anywhere and start again.     *)
(*                                                                         *)
(* A rename may fail, and nobody looks: the current file is opened again,  *)
(* old as it is. The files that are deleted are all those with the prefix, *)
(* the current one among them: then _fd writes to a file without a name,   *)
(* until the next roll over or start.                                      *)
(*                                                                         *)
(* No constructor sets _maxDaysToKeep: the parameter is dropped, and what  *)
(* the field has is what was in its memory, in each program anew.          *)
(***************************************************************************)
EXTENDS Naturals, FiniteSets

CONSTANTS
  PerDay,       \* units of time in a day
  MaxTime,      \* time is followed to here
  KeptDays,     \* values that may be in the memory of _maxDaysToKeep
  Word,         \* its product with a day is an unsigned of this many values
  MaxRecords,   \* bounds: records that are written, and crashes
  MaxCrashes

Day(t) == t \div PerDay
Days == 0 .. Day(MaxTime)

VARIABLES
  maxDaysToKeep,
  had,         \* the values it had in this program and those before (a history)
  append,
  now,
  current,     \* the file: its records and st_mtime, or Absent
  dated,       \* the files of days that are over
  logs_time,   \* the day of the current file
  t,           \* the time log() read
  fd,          \* _fd: "none", the "current" file, or one that is "gone"
  pc,          \* "start", "idle", "roll", "open", "scan", "write"
  written,     \* all records, each with the times it was logged and written
  lost,        \* those that were written to a file that was gone
  failed,      \* a rename failed
  crashes

options == <<maxDaysToKeep, had, append>>
dailyVars ==
  <<options, now, current, dated, logs_time, t, fd, pc, written, lost, failed, crashes>>

Absent == [records |-> {}, mtime |-> MaxTime + 1]
Empty == [records |-> {}, mtime |-> now]

\* open with _flags: the file is made, or kept, or (O_TRUNC) emptied.
Opened == IF append /\ current # Absent THEN current ELSE Empty

\* The constructor; assert ends the program when there is no file.
Construct ==
  /\ pc = "start"
  /\ current' = Opened /\ fd' = "current"
  /\ logs_time' = Day(Opened.mtime)
  /\ maxDaysToKeep' \in KeptDays /\ had' = had \cup {maxDaysToKeep'}
  /\ pc' = "idle"
  /\ UNCHANGED <<append, now, dated, t, written, lost, failed, crashes>>

Log ==
  /\ pc = "idle"
  /\ t' = now
  /\ pc' = IF Day(now) # logs_time THEN "roll" ELSE "write"
  /\ UNCHANGED <<options, now, current, dated, logs_time, fd, written, lost, failed, crashes>>

\* The day in the name (mutant: _logs_time = now comes first).
DateNow == Day(t)
DateOfLogs == logs_time

\* close and rename, over a file of that day if there is one.
Roll ==
  /\ pc = "roll"
  /\ fd' = "none"
  /\ \/ /\ dated' = IF current = Absent THEN dated ELSE [dated EXCEPT ![DateOfLogs] = current]
        /\ current' = Absent
        /\ UNCHANGED failed
     \/ /\ current # Absent
        /\ failed' = TRUE
        /\ UNCHANGED <<current, dated>>
  /\ pc' = "open"
  /\ UNCHANGED <<options, now, logs_time, t, written, lost, crashes>>

Reopen ==
  /\ pc = "open"
  /\ \/ fd' = "current" /\ current' = Opened
     \/ fd' = "none" /\ UNCHANGED current
  /\ pc' = "scan"
  /\ UNCHANGED <<options, now, dated, logs_time, t, written, lost, failed, crashes>>

\* _maxDaysToKeep * 24 * 60 * 60, which wraps.
KeepFor(days) == (days * PerDay) % Word
Keep == KeepFor(maxDaysToKeep)
Old(file) == file.mtime + Keep < now
Left(file) == IF Old(file) THEN Absent ELSE file

\* scandir, which may fail, and unlink. The files are looked for in the working
\* directory: of a log that is elsewhere nothing is ever deleted.
Scan ==
  /\ pc = "scan"
  /\ \/ /\ dated' = [d \in Days |-> Left(dated[d])]
        /\ current' = Left(current)
        /\ fd' = IF fd = "current" /\ Old(current) THEN "gone" ELSE fd
     \/ UNCHANGED <<dated, current, fd>>
  /\ logs_time' = Day(t)
  /\ pc' = "write"
  /\ UNCHANGED <<options, now, t, written, lost, failed, crashes>>

Write ==
  /\ pc = "write"
  /\ \/ /\ fd # "none" /\ Cardinality(written) < MaxRecords
        /\ LET r == [logged |-> t, at |-> now]
           IN  /\ written' = written \cup {r}
               /\ IF fd = "current"
                  THEN /\ current' = [records |-> current.records \cup {r}, mtime |-> now]
                       /\ UNCHANGED lost
                  ELSE lost' = lost \cup {r} /\ UNCHANGED current
     \/ UNCHANGED <<current, written, lost>>
  /\ pc' = "idle"
  /\ UNCHANGED <<options, now, dated, logs_time, t, fd, failed, crashes>>

\* The memory goes, the files stay.
Crash ==
  /\ pc # "start" /\ crashes < MaxCrashes
  /\ crashes' = crashes + 1
  /\ pc' = "start" /\ fd' = "none" /\ maxDaysToKeep' = 0 /\ logs_time' = 0 /\ t' = 0
  /\ UNCHANGED <<had, append, now, current, dated, written, lost, failed>>

\* A call of log() takes less than a day.
Tick ==
  /\ now < MaxTime /\ now' = now + 1
  /\ pc \notin {"start", "idle"} => now' < t + PerDay
  /\ UNCHANGED <<options, current, dated, logs_time, t, fd, pc, written, lost, failed, crashes>>

Init ==
  /\ maxDaysToKeep = 0 /\ had = {} /\ append \in BOOLEAN
  /\ now = 0 /\ current = Absent /\ dated = [d \in Days |-> Absent]
  /\ logs_time = 0 /\ t = 0 /\ fd = "none" /\ pc = "start" /\ written = {} /\ lost = {}
  /\ failed = FALSE /\ crashes = 0

Next == Construct \/ Log \/ Roll \/ Reopen \/ Scan \/ Write \/ Crash \/ Tick

----------------------------------------------------------------------------
\* Old by one of the values the field had.
Aged(at) == \E days \in had : at + KeepFor(days) < now
Brief == \E days \in had : KeepFor(days) < PerDay

\* A record stays until it is old, whatever is renamed over or deleted, but for
\* one that is written to a file that was deleted; which only happens when the
\* current file was old already as it was opened (a rename failed), or files
\* were kept for less than a day. (With append: else a program that starts, or
\* opens a file again that it could not rename, empties it on purpose.) And the
\* file of a day has the records of that day. (When a record of the day before
\* was written past midnight, and the program is started again before the next
\* roll over, st_mtime passes the whole file off as the later day's; and a file
\* that could not be renamed is passed off as one of a later day.)
DaysKept ==
  /\ append =>
       \A r \in written \ lost :
         \/ r \in current.records \/ \E d \in Days : r \in dated[d].records
         \/ Aged(r.at)
  /\ lost # {} => failed \/ Brief
  /\ \A d \in Days : \A r \in dated[d].records :
       d >= Day(r.logged) /\ (failed \/ d <= Day(r.logged) + crashes)
=============================================================================
