------------------------------- MODULE MCEio -------------------------------
(* An instance for TLC of what the requests of libeio do, each in turn:    *)
(* part says which one a behaviour is about.                               *)
EXTENDS EioSendfile, TLC

CONSTANTS
  PathMax, MaxLinks,                                        \* of EioPath
  MaxFound, NamesAlloc, DentAlloc, Cutoff, Fast, Bits,      \* of EioReaddir
  Work, Batch, Limits, MaxOwn, MaxSets,                     \* of EioGroup
  Word, Page                                                \* of EioMemory

ASSUME EioAssumption ==
  /\ Work \in Nat /\ Batch \in Nat /\ Limits \subseteq Int
  /\ Word \in Nat /\ Page \in Nat \ {0}

VARIABLES
  part,
  query, stale, rel, text, symlinks, errno, wd,             \* of EioPath
  flags, dirp, dents, namesoffs, namesalloc, dentalloc, seen, result, stopped,  \* of EioReaddir
  stage, type, dir, int1, int2, ptr1, ptr2, free1, free2, value, errorno,       \* of EioOps
  dropped, heap, opened, told, durable, wild,
  phase, size, limit, feed, added, cancelled, trying,       \* of EioGroup
  left, own, sets, waiting, results, low,
  call, hints, given, mem, len, addr, touched, halted, at   \* of EioMemory

----------------------------------------------------------------------------
\* A directory with files and links: to itself, to a link, relative, absolute
\* and to a directory above.
Dir == [kind |-> "dir", to |-> [abs |-> FALSE, parts |-> <<>>]]
File == [Dir EXCEPT !.kind = "file"]
To(a, p) == [kind |-> "link", to |-> [abs |-> a, parts |-> p]]
Tree ==
  (<<>> :> Dir) @@ (<<"d">> :> Dir) @@ (<<"d", "d">> :> Dir) @@ (<<"d", "f">> :> File)
  @@ (<<"d", "l">> :> To(TRUE, <<"d", "d", "..">>)) @@ (<<"l">> :> To(FALSE, <<".", "d", "l">>))
  @@ (<<"f">> :> To(FALSE, <<"f">>))
Paths == [abs : BOOLEAN, parts : UNION {[1 .. n -> {"d", "l", "f", ".", ".."}] : n \in 0 .. 3}]
WdAt == {<<>>, <<"d">>}

\* Entries of every kind of name and type, also such that only their inode or
\* only their score sorts them.
Named(n, l, t, i) == [name |-> n, len |-> l, type |-> t, inode |-> i]
Found ==
  {Named("special", 2, "DIR", 1), Named("plain", 2, "DIR", 3), Named("dotted", 4, "DIR", 1),
   Named("dotted", 3, "REG", 2), Named("hidden", 3, "UNKNOWN", 2), Named("plain", 2, "UNKNOWN", 1)}
Wanted == {{}, {"DENTS"}, {"DENTS", "DIRS_FIRST"}, {"DENTS", "STAT_ORDER"},
           {"DENTS", "DIRS_FIRST", "STAT_ORDER"}, {"DIRS_FIRST"}}

Regions == [addr : 0 .. Word - 1, len : 0 .. Word - 1]

Path == INSTANCE EioPath WITH Asked <- Paths, asked <- query, res <- text
Readdir == INSTANCE EioReaddir
Ops == INSTANCE EioOps WITH phase <- stage, wd <- dir, result <- value
Grp == INSTANCE EioGroup
Memory == INSTANCE EioMemory WITH flags <- hints, cancelled <- halted, pc <- at

----------------------------------------------------------------------------
NoFile == asked = 0 /\ pc = "" /\ offset = 0 /\ count = 0 /\ written = 0 /\ res = 0 /\ cnt = 0
          /\ arrived = 0 /\ straight = TRUE
NoPath == query = 0 /\ stale = 0 /\ rel = 0 /\ text = 0 /\ symlinks = 0 /\ errno = 0 /\ wd = 0
NoDir == flags = 0 /\ dirp = 0 /\ dents = 0 /\ namesoffs = 0 /\ namesalloc = 0 /\ dentalloc = 0
         /\ seen = 0 /\ result = 0 /\ stopped = 0
NoOp == stage = 0 /\ type = 0 /\ dir = 0 /\ int1 = 0 /\ int2 = 0 /\ ptr1 = 0 /\ ptr2 = 0 /\ free1 = 0 /\ free2 = 0
        /\ value = 0 /\ errorno = 0 /\ dropped = 0 /\ heap = 0 /\ opened = 0 /\ told = 0
        /\ durable = 0 /\ wild = 0
NoGroup == phase = 0 /\ size = 0 /\ limit = 0 /\ feed = 0 /\ added = 0 /\ cancelled = 0
           /\ trying = 0 /\ left = 0 /\ own = 0 /\ sets = 0 /\ waiting = 0 /\ results = 0 /\ low = 0
NoMemory == call = 0 /\ hints = 0 /\ given = 0 /\ mem = 0 /\ len = 0 /\ addr = 0 /\ touched = 0
            /\ halted = 0 /\ at = 0

EInit ==
  \/ part = "sendfile" /\ Init /\ NoPath /\ NoDir /\ NoOp /\ NoGroup /\ NoMemory
  \/ part = "path" /\ Path!Init /\ NoFile /\ NoDir /\ NoOp /\ NoGroup /\ NoMemory
  \/ part = "readdir" /\ Readdir!Init /\ NoFile /\ NoPath /\ NoOp /\ NoGroup /\ NoMemory
  \/ part = "op" /\ Ops!Init /\ NoFile /\ NoPath /\ NoDir /\ NoGroup /\ NoMemory
  \/ part = "group" /\ Grp!Init /\ NoFile /\ NoPath /\ NoDir /\ NoOp /\ NoMemory
  \/ part = "memory" /\ Memory!Init /\ NoFile /\ NoPath /\ NoDir /\ NoOp /\ NoGroup

pathOf == <<query, stale, rel, text, symlinks, errno, wd>>
dirOf == <<flags, dirp, dents, namesoffs, namesalloc, dentalloc, seen, result, stopped>>
opOf == <<stage, type, dir, int1, int2, ptr1, ptr2, free1, free2, value, errorno, dropped,
          heap, opened, told, durable, wild>>
groupOf == <<phase, size, limit, feed, added, cancelled, trying, left, own, sets, waiting,
             results, low>>
memoryOf == <<given, hints, call, mem, len, addr, touched, halted, at>>

ENext ==
  /\ \/ part = "sendfile" /\ Next /\ UNCHANGED <<pathOf, dirOf, opOf, groupOf, memoryOf>>
     \/ part = "path" /\ Path!Next /\ UNCHANGED <<fileVars, dirOf, opOf, groupOf, memoryOf>>
     \/ part = "readdir" /\ Readdir!Next /\ UNCHANGED <<fileVars, pathOf, opOf, groupOf, memoryOf>>
     \/ part = "op" /\ Ops!Next /\ UNCHANGED <<fileVars, pathOf, dirOf, groupOf, memoryOf>>
     \/ part = "group" /\ Grp!Next /\ UNCHANGED <<fileVars, pathOf, dirOf, opOf, memoryOf>>
     \/ part = "memory" /\ Memory!Next /\ UNCHANGED <<fileVars, pathOf, dirOf, opOf, groupOf>>
  /\ UNCHANGED part

evars == <<fileVars, pathOf, dirOf, opOf, groupOf, memoryOf, part>>

\* The user polls until nothing is pending, and threads execute what is queued.
ESpec ==
  /\ EInit /\ [][ENext]_evars
  /\ WF_groupOf(part = "group" /\ Grp!PollStep) /\ WF_groupOf(part = "group" /\ Grp!Work1)

----------------------------------------------------------------------------
(* Of each part what its module says. (CopiesInOrder is EioSendfile's.)    *)

\* eio__realpath finds what the kernel would find.
RealPath == part = "path" => Path!RealPath

\* eio__scandir lists every entry once, in the order that was asked for.
Listing == part = "readdir" => Readdir!Listing

\* A request, however it ends, frees what it holds, once, and nothing else.
FreedOnce == part = "op" => Ops!FreedOnce

\* msync and mlock get the pages of the caller's bytes and no other; mtouch
\* touches only those, at least one.
WholePages == part = "memory" => Memory!WholePages

\* eio.c:362 calls wd->str "actually, a 0-terminated canonical path".
CanonicalText == part = "path" => Path!CanonicalText

\* grp_try_feed and grp_dec: what a group may not do, and that it ends.
GroupFed == [][part = "group" => Grp!FedStep]_groupOf
GroupEnds == part = "group" ~> part = "group" /\ phase = "finished"
=============================================================================
