---------------------------- MODULE SizeRolling ----------------------------
(***************************************************************************)
(* utils/log/log_size_rolling.cpp: a log file that is renamed when it has  *)
(* grown to a size, with the older ones behind it in a chain. A roll over  *)
(* is several calls to the system; the program may die between any two of  *)
(* them and be started again. Writing, opening, removing and renaming may  *)
(* fail, and nobody looks: the roll over goes on.                          *)
(*                                                                         *)
(* A file is the sequence of its records, numbered as they were written.   *)
(***************************************************************************)
EXTENDS Integers, SequencesExt

CONSTANTS
  MaxSize,     \* max_file_size, in records
  Backups,     \* values given for max_backup_index
  MaxWritten,  \* a bound: records that are written
  MaxCrashes,
  MaxFailures  \* a bound: files that could not be removed or renamed

Absent == <<0>>   \* no such file

VARIABLES
  max,       \* _max_backup_index
  append,
  file,      \* by its index: 0 is the current one
  fd,        \* _fd is open
  pc,        \* "start", "log", "size", "shift", "current", "reopen"
  i,         \* of the loop
  written,   \* records written so far
  crashes,
  failed     \* times that a file could not be removed or renamed

sizeVars == <<max, append, file, fd, pc, i, written, crashes, failed>>

\* open with _flags: the file is made, or kept, or (O_TRUNC) emptied.
Opened == [file EXCEPT ![0] = IF append /\ @ # Absent THEN @ ELSE <<>>]

Open ==
  /\ pc \in {"start", "reopen"}
  /\ pc' = "log"
  /\ \/ fd' = TRUE /\ file' = Opened
     \/ fd' = FALSE /\ UNCHANGED file
  /\ UNCHANGED <<max, append, i, written, crashes, failed>>

\* _log; that write fails, nobody sees.
Log ==
  /\ pc = "log" /\ written < MaxWritten
  /\ pc' = "size"
  /\ \/ /\ fd
        /\ written' = written + 1 /\ file' = [file EXCEPT ![0] = Append(@, written + 1)]
     \/ UNCHANGED <<written, file>>
  /\ UNCHANGED <<max, append, fd, i, crashes, failed>>

\* A call for a file that is there is refused (EACCES, EROFS, ...).
Refused(k) ==
  /\ file[k] # Absent /\ failed < MaxFailures
  /\ failed' = failed + 1 /\ UNCHANGED file

\* lseek to the end; if that is far enough, the file is closed and the one
\* with the largest index removed.
Unlink(k) ==
  \/ file' = [file EXCEPT ![k] = Absent] /\ UNCHANGED failed
  \/ Refused(k)

Measure ==
  /\ pc = "size"
  /\ IF fd /\ Len(file[0]) >= MaxSize
     THEN pc' = "shift" /\ fd' = FALSE /\ Unlink(max) /\ i' = max
     ELSE pc' = "log" /\ UNCHANGED <<fd, file, i, failed>>
  /\ UNCHANGED <<max, append, written, crashes>>

Rename(a, b) ==
  \/ /\ file' = IF file[a] = Absent THEN file ELSE [file EXCEPT ![a] = Absent, ![b] = file[a]]
     /\ UNCHANGED failed
  \/ Refused(a)

\* Which name is given away in a round (mutant: from the newest on).
GivenFromNewest(k) == max + 2 - k
Given(k) == k

Shift ==
  /\ pc = "shift" /\ i > 1
  /\ Rename(Given(i) - 1, Given(i))
  /\ i' = i - 1
  /\ UNCHANGED <<max, append, fd, pc, written, crashes>>

Current ==
  /\ pc = "shift" /\ i = 1
  /\ Rename(0, 1)
  /\ pc' = "reopen"
  /\ UNCHANGED <<max, append, fd, i, written, crashes>>

\* The program dies; the next one starts with the files it left.
Crash ==
  /\ pc # "start" /\ crashes < MaxCrashes
  /\ crashes' = crashes + 1
  /\ pc' = "start" /\ fd' = FALSE /\ i' = 0
  /\ UNCHANGED <<max, append, file, written, failed>>

Init ==
  /\ \E b \in Backups : max = IF b > 0 THEN b ELSE 1
  /\ append \in BOOLEAN
  /\ file = [k \in 0 .. max |-> Absent] /\ fd = FALSE
  /\ pc = "start" /\ i = 0 /\ written = 0 /\ crashes = 0 /\ failed = 0

Next == Open \/ Log \/ Measure \/ Shift \/ Current \/ Crash

----------------------------------------------------------------------------
\* The records of a file, and those of all files.
Records(k) == ToSet(file[k]) \ {0}
Kept == UNION {Records(k) : k \in DOMAIN file}

\* The files hold the newest records, in order; the newest of a file's size are
\* never lost, and a file grows beyond its size by one record for a crash and
\* for a call that failed, no more. While no call has failed there is no gap
\* either, also when a crash left one among the files, and each crash costs one
\* file at most. (With append: else a program that starts empties the file on
\* purpose. A rename that fails costs more: the next one goes over a file that
\* should have been moved away.)
NewestKept ==
  append =>
    /\ \A k \in DOMAIN file : \A p \in 2 .. Len(file[k]) : file[k][p] = file[k][p - 1] + 1
    /\ \A j, k \in DOMAIN file : j < k => \A new \in Records(j), old \in Records(k) : old < new
    /\ \A r \in 1 .. written : r > written - MaxSize => r \in Kept
    /\ \A k \in DOMAIN file : Len(file[k]) <= MaxSize + crashes + failed
    /\ failed = 0 =>
         /\ \A r \in Kept : r .. written \subseteq Kept
         /\ \A r \in 1 .. written : r > written - (max - crashes) * MaxSize => r \in Kept
=============================================================================
