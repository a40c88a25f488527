------------------------------- MODULE EioOps -------------------------------
(***************************************************************************)
(* One request of libeio/eio.c from the wrapper that makes it to its       *)
(* destruction: what it allocates, what a worker does with it, and who     *)
(* frees what. The user may cancel it at any time. (Queues and threads are *)
(* EtpPool's; what readdir and realpath find is EioReaddir's and EioPath's.)*)
(***************************************************************************)
EXTENDS Integers, FiniteSets

VARIABLES
  phase,            \* "none", "sent", "executed", "gone"; "refused": 0 was returned
  type, wd,         \* req->wd: "cwd", "invalid" or a directory that is "open"
  int1, int2,       \* of a request that syncs: its descriptor, its flags
  ptr1, ptr2,       \* what they point to, or "null"
  free1, free2,     \* EIO_FLAG_PTR1_FREE and EIO_FLAG_PTR2_FREE
  result, errorno,
  dropped,          \* req->cancelled
  heap,             \* what was allocated and not freed
  opened,           \* it holds a descriptor or a directory for the callback
  told,             \* the callback was called, and had the result
  durable,          \* what of the written file is on the disk
  wild              \* something was freed that was not there

opVars == <<phase, type, wd, int1, int2, ptr1, ptr2, free1, free2, result, errorno,
            dropped, heap, opened, told, durable, wild>>

----------------------------------------------------------------------------
\* The types of request, by what their wrappers and eio_execute do.
TwoPaths == {"link", "symlink", "rename"}
OnePath == {"wd_open", "open", "utime", "truncate", "chown", "chmod", "mkdir", "readlink",
            "realpath", "stat", "lstat", "statvfs", "unlink", "rmdir", "readdir", "mknod"}
Syncs == {"sync", "fsync", "fdatasync", "syncfs", "sync_file_range"}
RangeFlags == {"WAIT_BEFORE", "WRITE", "WAIT_AFTER"}
CallersMemory == {"read", "write", "msync", "mtouch", "mlock"}
Plain == {"nop", "busy", "mlockall", "fallocate", "close", "readahead", "seek", "futime",
          "ftruncate", "fchmod", "fchown", "dup2", "sendfile", "custom", "wd_close"}
OwnBuffer == {"read", "stat", "lstat", "statvfs", "fstat", "fstatvfs", "readlink", "realpath"}
NeverFail == {"nop", "mtouch"}
Types == TwoPaths \cup OnePath \cup Syncs \cup CallersMemory \cup Plain \cup OwnBuffer

Init ==
  /\ phase = "none" /\ type \in Types /\ ptr1 = "null"
  /\ wd \in IF type = "wd_close" THEN {"open", "invalid", "cwd"} ELSE {"cwd"}
  /\ ptr2 \in CASE type = "read" -> {"null", "caller's"}
                [] type \in CallersMemory -> {"caller's"}
                [] OTHER -> {"null"}
  /\ int1 \in IF type \in Syncs \ {"sync"} THEN {"open", "closed", "negative"} ELSE {"open"}
  /\ int2 \in IF type = "sync_file_range" THEN SUBSET RangeFlags ELSE {{}}
  /\ free1 = FALSE /\ free2 = FALSE /\ result = 0 /\ errorno = "" /\ dropped = FALSE
  /\ heap = {} /\ opened = FALSE /\ told = FALSE /\ durable = {} /\ wild = FALSE

Frees(pieces) == heap' = heap \ pieces /\ wild' = (wild \/ ~(pieces \subseteq heap))

\* REQ, PATH and the second path: 0 is returned when there is no memory. The
\* request alone is freed then, not the first path if there was one.
Refuse(left) ==
  /\ phase' = "refused" /\ heap' = left
  /\ UNCHANGED <<ptr1, ptr2, free1, free2>>

Make ==
  /\ phase = "none"
  /\ \/ Refuse({})
     \/ type \in TwoPaths /\ Refuse({"path"})
     \/ /\ phase' = "sent"
        /\ free1' = (type \in OnePath \cup TwoPaths)
        /\ free2' = (type \in TwoPaths)
        /\ ptr1' = IF free1' THEN "path" ELSE ptr1
        /\ ptr2' = IF free2' THEN "new path" ELSE ptr2
        /\ heap' = {"req"} \cup (IF free1' THEN {ptr1'} ELSE {}) \cup (IF free2' THEN {ptr2'} ELSE {})
  /\ UNCHANGED <<type, wd, int1, int2, result, errorno, dropped, opened, told, durable, wild>>

----------------------------------------------------------------------------
\* What a worker does.

\* req->errorno is errno: of a call that succeeds, the one of a call before.
Answer(r, e) == result' = r /\ errorno' = IF r = 0 THEN "of another" ELSE e

\* Before anything else: a cancelled request, and one in no directory.
Shunned == dropped \/ wd = "invalid"
Shun ==
  /\ Answer(-1, IF dropped THEN "ECANCELED" ELSE "ENOENT")
  /\ UNCHANGED <<wd, ptr1, ptr2, free1, free2, heap, opened, durable, wild>>

\* Most calls succeed or fail and leave nothing behind.
Call ==
  /\ type \notin OwnBuffer \cup Syncs \cup {"wd_open", "wd_close", "open", "readdir"}
  /\ (Answer(0, "") \/ (type \notin NeverFail /\ Answer(-1, "of the call")))
  /\ UNCHANGED <<wd, ptr1, ptr2, free1, free2, heap, opened, durable, wild>>

\* ALLOC, unless there is a buffer; the flag is set before it is known that
\* there is memory. eio__realpath fails first.
Alloc ==
  IF ptr2 # "null" THEN Answer(0, "") /\ UNCHANGED <<ptr2, free2, heap>>
  ELSE /\ free2' = TRUE
       /\ \/ ptr2' = "buffer" /\ heap' = heap \cup {"buffer"} /\ Answer(0, "")
          \/ ptr2' = "buffer" /\ heap' = heap \cup {"buffer"} /\ type # "realpath"
             /\ Answer(-1, "of the call")
          \/ ptr2' = "null" /\ heap' = heap /\ Answer(-1, "ENOMEM")
CallWithBuffer ==
  /\ type \in OwnBuffer
  /\ \/ Alloc
     \/ type = "realpath" /\ Answer(-1, "of the call") /\ UNCHANGED <<ptr2, free2, heap>>
  /\ UNCHANGED <<wd, ptr1, free1, opened, durable, wild>>

\* The descriptor or the directory is for the callback.
OpenCall ==
  /\ type \in {"open", "wd_open"}
  /\ \/ Answer(0, "") /\ opened' = TRUE /\ UNCHANGED wd
     \/ /\ Answer(-1, "of the call") /\ UNCHANGED opened
        /\ wd' = IF type = "wd_open" THEN "invalid" ELSE wd
  /\ UNCHANGED <<ptr1, ptr2, free1, free2, heap, durable, wild>>
CloseWd ==
  /\ type = "wd_close" /\ Answer(0, "")
  /\ UNCHANGED <<wd, ptr1, ptr2, free1, free2, heap, opened, durable, wild>>

\* eio__scandir gives the path back itself, once the directory is open, and
\* puts its own buffers in its place; a mutant forgets the second flag.
FlagOne == free1' = TRUE /\ UNCHANGED free2
FlagBoth == free1' = TRUE /\ free2' = TRUE
Scandir ==
  /\ type = "readdir"
  /\ \/ Answer(-1, "of the call") /\ UNCHANGED <<ptr1, ptr2, free1, free2, heap, wild>>
     \/ /\ FlagBoth
        /\ \E dents, names \in BOOLEAN :
             /\ ptr1' = IF dents THEN "dents" ELSE "null"
             /\ ptr2' = IF names THEN "names" ELSE "null"
             /\ heap' = (heap \ {"path"}) \cup ({ptr1', ptr2'} \ {"null"})
             /\ (names /\ Answer(0, "")) \/ Answer(-1, "of the call")
        /\ wild' = (wild \/ (free1 /\ ptr1 \notin heap))
  /\ UNCHANGED <<wd, opened, durable>>

\* A call of the kernel that succeeds, on an open descriptor, puts so much on
\* the disk: the data, and the size and the blocks it takes to find it.
Whole == {"data", "size"}
Flush(what) ==
  \/ int1 = "open" /\ Answer(0, "") /\ durable' = durable \cup what
  \/ Answer(-1, "of the call") /\ UNCHANGED durable
NotThere == Answer(-1, "ENOSYS")

\* Where the kernel has no syncfs everything is synced, unless the descriptor
\* is negative, and the call fails all the same. (The first is a mutant: errno
\* is not looked at.)
SyncfsAlone == Flush(Whole) \/ (NotThere /\ UNCHANGED durable)
SyncfsCall ==
  \/ Flush(Whole)
  \/ NotThere /\ durable' = IF int1 = "negative" THEN durable ELSE Whole

\* sync_file_range writes the data alone, and only with all three flags is it
\* there when the call returns; with fewer it may not even have begun. Where
\* the kernel has no such call there is fdatasync, whatever the flags.
FileRangeCall ==
  \/ Flush(IF int2 = RangeFlags THEN {"data"} ELSE {})
  \/ Flush(Whole)
SyncCall ==
  /\ type \in Syncs
  /\ CASE type = "sync" -> Answer(0, "") /\ durable' = Whole
       [] type = "syncfs" -> SyncfsCall
       [] type = "sync_file_range" -> FileRangeCall
       [] OTHER -> Flush(Whole)
  /\ UNCHANGED <<wd, ptr1, ptr2, free1, free2, heap, opened, wild>>

Execute ==
  /\ phase = "sent" /\ phase' = "executed"
  /\ IF Shunned THEN Shun
     ELSE Call \/ CallWithBuffer \/ OpenCall \/ CloseWd \/ Scandir \/ SyncCall
  /\ UNCHANGED <<type, int1, int2, dropped, told>>

----------------------------------------------------------------------------
\* The user's thread: eio_cancel, and eio_finish with eio_destroy from the poll.
Cancel ==
  /\ phase \in {"sent", "executed"} /\ dropped' = TRUE
  /\ UNCHANGED <<phase, type, wd, int1, int2, ptr1, ptr2, free1, free2, result, errorno,
                 heap, opened, told, durable, wild>>

Finish ==
  /\ phase = "executed" /\ phase' = "gone"
  /\ told' = ~dropped
  /\ LET flagged == (IF free1 THEN {ptr1} ELSE {}) \cup (IF free2 THEN {ptr2} ELSE {})
     IN  Frees({"req"} \cup (flagged \ {"null"}))
  /\ UNCHANGED <<type, wd, int1, int2, ptr1, ptr2, free1, free2, result, errorno, dropped,
                 opened, durable>>

Next == Make \/ Execute \/ Cancel \/ Finish

Spec == Init /\ [][Next]_opVars

----------------------------------------------------------------------------
\* What a result says is on the disk: of sync_file_range the data alone, and
\* only with all its flags; of syncfs also where the kernel does not have it.
Stored ==
  /\ type \in Syncs \ {"sync_file_range"} /\ result = 0 => durable = Whole
  /\ type = "sync_file_range" /\ int2 = RangeFlags /\ result = 0 => "data" \in durable
  /\ type = "syncfs" /\ int1 # "negative" /\ result = -1 /\ errorno = "ENOSYS" => durable = Whole

\* libeio/eio.c: whatever a request allocated is freed once when it ends, what
\* the caller gave is not, also when it failed half way or was cancelled (but
\* for the first of two paths when there is no memory for the second); what it
\* opened reaches the callback, unless it was cancelled. The callback of one
\* that failed finds its own reason, and of one that synced there is on the disk
\* what its result says: all, of sync_file_range the data if it had all three
\* flags (with fewer nothing is promised), and of a syncfs the kernel does not
\* have everything too, unless its descriptor was negative.
FreedOnce ==
  /\ ~wild
  /\ phase = "gone" => heap = {}
  /\ phase = "refused" => heap = {} \/ (type \in TwoPaths /\ heap = {"path"})
  /\ phase = "gone" /\ opened /\ ~told => dropped
  /\ told /\ result = -1 => errorno \in {"of the call", "ENOENT", "ENOMEM", "ENOSYS"}
  /\ told => Stored
=============================================================================
