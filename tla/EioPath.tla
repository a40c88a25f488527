------------------------------ MODULE EioPath ------------------------------
(***************************************************************************)
(* eio__realpath of libeio/eio.c, which makes a path absolute and free of  *)
(* links one component at a time, and the working directories (eio_wd)     *)
(* that are opened with it.                                                *)
(*                                                                         *)
(* A path as text is a record: whether it begins with a slash, and its     *)
(* components; "" is [abs |-> FALSE, parts |-> <<>>]. Text that is being   *)
(* built in tmpbuf is the sequence of what follows each of its slashes.    *)
(***************************************************************************)
EXTENDS Integers, Sequences, SequencesExt, FiniteSets

CONSTANTS
  Tree,      \* what is at each absolute path: [kind, to]; to is where a link leads
  Asked,     \* the paths a caller gives
  WdAt,      \* where working directories are
  MaxLinks,  \* symlinks: SYMLOOP_MAX or 32
  PathMax    \* how many components a buffer holds

VARIABLES
  asked,     \* the arguments: path, and wd: its kind and where it is
  stale,     \* the byte of tmpbuf behind the first one is not zero
  rel,       \* what is still to do
  res,       \* the text so far, in tmpbuf
  symlinks,  \* how many links may still be followed
  errno,     \* "" until a result is there, "OK" or why there is none
  wd         \* the eio_wd that was made: where its fd is, and its str

pathVars == <<asked, stale, rel, res, symlinks, errno, wd>>

NoWd == [fd |-> <<>>, str |-> <<>>, state |-> "none"]

Links == {p \in DOMAIN Tree : Tree[p].kind = "link"}

\* The kernel sees no empty components.
Where(text) == SelectSeq(text, LAMBDA c : c # "")

----------------------------------------------------------------------------
\* What the kernel makes of components, from the directory d on; <<"?">> is
\* an error. Links nested deeper than there are links are a loop.
Lost == <<"?">>

Walk[d \in Seq(STRING), parts \in Seq(STRING), depth \in Nat] ==
  CASE d = Lost \/ parts = <<>> -> d
    [] depth > Cardinality(Links) \/ Tree[d].kind # "dir" -> Lost
    [] Head(parts) = "." -> Walk[d, Tail(parts), depth]
    [] Head(parts) = ".." -> Walk[IF d = <<>> THEN d ELSE Front(d), Tail(parts), depth]
    [] OTHER ->
         LET c == Append(d, Head(parts))
             at == CASE c \notin DOMAIN Tree -> Lost
                     [] c \in Links -> Walk[IF Tree[c].to.abs THEN <<>> ELSE d,
                                            Tree[c].to.parts, depth + 1]
                     [] OTHER -> c
         IN  Walk[at, Tail(parts), depth]

Kernel == Walk[IF asked.path.abs THEN <<>> ELSE asked.at, asked.path.parts, 0]

----------------------------------------------------------------------------
Init ==
  /\ asked \in [path : Asked, wd : {"cwd", "wd", "invalid"}, at : WdAt]
  /\ stale \in BOOLEAN
  /\ rel = asked.path.parts /\ res = <<"?">> /\ symlinks = MaxLinks
  /\ errno = "" /\ wd = NoWd

Fail(e) == errno' = e /\ UNCHANGED <<asked, stale, rel, res, symlinks, wd>>

Begun == res # <<"?">>

\* The text of wd->str is copied without its end: of the root's only the slash
\* is new, and the byte behind it is what an earlier request left in tmpbuf.
FromWd == IF asked.at = <<>> THEN IF stale THEN <<"">> ELSE <<>> ELSE asked.at

Begin ==
  /\ errno = "" /\ ~Begun
  /\ LET p == asked.path IN
     CASE ~p.abs /\ p.parts = <<>> -> Fail("ENOENT")
       [] ~p.abs /\ asked.wd = "invalid" -> Fail("ENOENT")
       [] OTHER ->
            /\ res' = CASE p.abs -> <<>>
                        [] asked.wd = "cwd" -> asked.at
                        [] OTHER -> FromWd
            /\ UNCHANGED <<asked, stale, rel, symlinks, errno, wd>>

Goes(to, left) == res' = to /\ rel' = left /\ UNCHANGED <<asked, stale, errno, wd>>

Dot == Head(rel) = "." /\ Goes(res, Tail(rel)) /\ UNCHANGED symlinks

\* Back up one component; a mutant leaves the root.
BackUp(text) == IF text = <<>> THEN <<>> ELSE Front(text)
DotDot == Head(rel) = ".." /\ Goes(BackUp(res), Tail(rel)) /\ UNCHANGED symlinks

\* An absolute link begins again at the root, another one stays where the link
\* is; the first is a mutant.
FollowedFrom(link, text) == text
Follow(link, text) == IF link.abs THEN <<>> ELSE text

Component ==
  LET text == Append(res, Head(rel))
      p == Where(text)
  IN  /\ Head(rel) \notin {".", ".."}
      /\ CASE Len(text) > PathMax -> Fail("ENAMETOOLONG")
           [] p \notin DOMAIN Tree -> Fail("ENOENT")
           [] p \notin Links -> Goes(text, Tail(rel)) /\ UNCHANGED symlinks
           [] OTHER ->
                LET link == Tree[p].to IN
                CASE Len(link.parts \o Tail(rel)) > PathMax -> Fail("ENAMETOOLONG")
                  [] symlinks = 1 -> Fail("ELOOP")
                  [] OTHER -> /\ symlinks' = symlinks - 1
                              /\ Goes(Follow(link, res), link.parts \o Tail(rel))

Step == errno = "" /\ Begun /\ rel # <<>> /\ (Dot \/ DotDot \/ Component)

End == errno = "" /\ Begun /\ rel = <<>> /\ Fail("OK")

\* eio__wd_open_sync: the same path once more, now to the kernel.
WdOpen ==
  /\ errno = "OK" /\ wd = NoWd /\ asked.wd # "invalid"
  /\ Kernel # Lost /\ Tree[Kernel].kind = "dir"
  /\ wd' = [fd |-> Kernel, str |-> res, state |-> "open"]
  /\ UNCHANGED <<asked, stale, rel, res, symlinks, errno>>

WdClose ==
  /\ wd.state = "open" /\ wd' = [wd EXCEPT !.state = "closed"]
  /\ UNCHANGED <<asked, stale, rel, res, symlinks, errno>>

Next == Begin \/ Step \/ End \/ WdOpen \/ WdClose

Spec == Init /\ [][Next]_pathVars

----------------------------------------------------------------------------
\* libeio/eio.c, eio__realpath: what comes out is a path that exists and has no
\* link in it, and the one the kernel takes the path for; a path the kernel can
\* follow fails only for its length or its links, and one whose links go round
\* for ever ends too. A working directory's descriptor and its text, which are
\* looked up one after the other, are the same directory.
RealPath ==
  /\ errno = "OK" =>
       /\ Where(res) \in DOMAIN Tree
       /\ \A n \in 0 .. Len(Where(res)) : SubSeq(Where(res), 1, n) \notin Links
       /\ Kernel # Lost => Where(res) = Kernel
  /\ errno = "ENOENT" /\ asked.wd # "invalid" /\ asked.path.parts # <<>> => Kernel = Lost
  /\ wd # NoWd => Where(wd.str) = wd.fd

\* eio.c:362 of eio_pwd.str: "actually, a 0-terminated canonical path". (The
\* text of <<"">> and of <<>> is a lone slash.)
CanonicalText == wd # NoWd /\ wd.str # <<"">> => wd.str = Where(wd.str)
=============================================================================
