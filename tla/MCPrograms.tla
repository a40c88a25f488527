----------------------------- MODULE MCPrograms -----------------------------
(* An instance for TLC of the programs that stand alone, each in turn: part *)
(* says which one a behaviour is about. ("timers" are those of the event    *)
(* loop, which this module extends, as it does the kafka consumer.)         *)
EXTENDS AeTime, KafkaConsume

CONSTANTS
  Timer, Repeats,                                    \* of TimerPoll
  MaxSize, Backups, MaxWritten, MaxCrashes, MaxFailures,      \* of SizeRolling
  PerDay, MaxTime, KeptDays, Word, MaxRecords, MaxDeaths,     \* of DailyRolling
  Hosts,                                             \* of EvDns
  Client, NoFd, MaxSent,                             \* of EchoTime and TcpSample; NoFd: no client
  Callers, MaxFds,                                   \* of SimpleServer
  Names, Items, Values, MaxLines                     \* of MyConfig

\* (A section without a name is dropped: nobody asks for it.)
ASSUME ProgramsAssumption ==
  /\ Timer \subseteq Callers /\ Client \subseteq Callers
  /\ "" \notin Names

\* A file that is full has something in it; a day has a unit of time, and a
\* word a value.
ASSUME LogsAssumption ==
  /\ MaxSize \in Nat \ {0} /\ Backups \subseteq Int
  /\ PerDay \in Nat \ {0} /\ MaxTime \in Nat
  /\ KeptDays \subseteq Nat /\ Word \in Nat \ {0}

\* Urls with a port, a path, and a colon in the path, or without; and with a
\* domain that is too long.
Urls == [port : {-1, 0, 8080}, path : BOOLEAN, colon : {-1, 0, 7}, long : BOOLEAN]

VARIABLES
  part,
  open, armed, expired, watched, ready, timers_map, todo, about,                \* Poll
  changed, active, events, run, raced,
  max, append, file, sizeFd, rolling, shift, written, crashes, failures,        \* Size
  maxDaysToKeep, had, appends, now, current, dated, logs_time, t, dailyFd,      \* Daily
  daily, records, lost, failed, deaths,
  surl_q, ourl_q, asker, tpc, o_url, ip,                                        \* Dns
  resolver, name, n_pending_requests, asked, answered, exit, early,             \* EvDns
  conn, unread, sent, answers, shut, watch, listed, echo, shared,               \* Echo
  simple, stop, with, held, caller, queued, request, reply,                     \* Simple
  tcp, tcpConn, end, tcpUnread, tcpFd, tcpEvents, tcpWatched, spoiled,          \* Tcp
  config, ins, m_contener, m_iLoaded, cSectionName, cSection, lines,            \* Config
  mutex, waiting, count, at, proc                                               \* Demo

Poll == INSTANCE TimerPoll WITH pc <- run
Size == INSTANCE SizeRolling WITH fd <- sizeFd, pc <- rolling, i <- shift, failed <- failures
Daily == INSTANCE DailyRolling WITH append <- appends, fd <- dailyFd, pc <- daily,
                                    written <- records, crashes <- deaths,
                                    MaxCrashes <- MaxDeaths
Dns == INSTANCE DnsQueue WITH Url <- Urls, pc <- asker
Resolve == INSTANCE EvDns WITH Names <- Hosts, pc <- resolver, i <- name
Echo == INSTANCE EchoTime WITH pc <- echo
Simple == INSTANCE SimpleServer WITH Client <- Callers, Nobody <- NoFd, pc <- simple, cpc <- caller
Tcp == INSTANCE TcpSample WITH pc <- tcp, conn <- tcpConn, unread <- tcpUnread, fd <- tcpFd,
                               events <- tcpEvents, watched <- tcpWatched
Config == INSTANCE MyConfig WITH pc <- config, text <- lines
Demo == INSTANCE XthreadDemo

----------------------------------------------------------------------------
pollOf == <<open, armed, expired, watched, ready, timers_map, todo, about,
            changed, active, events, run, raced>>
sizeOf == <<max, append, file, sizeFd, rolling, shift, written, crashes, failures>>
dailyOf == <<maxDaysToKeep, had, appends, now, current, dated, logs_time, t, dailyFd, daily,
             records, lost, failed, deaths>>
dnsOf == <<surl_q, ourl_q, asker, tpc, o_url, ip>>
evOf == <<resolver, name, n_pending_requests, asked, answered, exit, early>>
echoOf == <<conn, unread, sent, answers, shut, watch, listed, echo, shared>>
simpleOf == <<simple, stop, with, held, caller, queued, request, reply>>
tcpOf == <<tcp, tcpConn, end, tcpUnread, tcpFd, tcpEvents, tcpWatched, spoiled>>
configOf == <<config, ins, m_contener, m_iLoaded, cSectionName, cSection, lines>>
demoOf == <<mutex, waiting, count, at, proc>>

timersOf == <<vars, pollOf>>
logsOf == <<sizeOf, dailyOf>>
namesOf == <<dnsOf, evOf>>
serversOf == <<echoOf, simpleOf, tcpOf>>
smallOf == <<configOf, demoOf>>

NoTimers ==
  /\ clock = 0 /\ quick = FALSE /\ timers = <<>> /\ nextId = 0 /\ lastTime = 0 /\ pc = ""
  /\ te = 0 /\ maxId = 0 /\ left = 0 /\ due = <<>> /\ setBack = FALSE /\ wild = FALSE
NoPoll ==
  /\ open = 0 /\ armed = 0 /\ expired = 0 /\ watched = 0 /\ ready = 0
  /\ timers_map = 0 /\ todo = 0 /\ about = 0 /\ changed = 0 /\ active = 0 /\ events = 0
  /\ run = 0 /\ raced = 0
NoSize ==
  /\ max = 0 /\ append = 0 /\ file = 0 /\ sizeFd = 0 /\ rolling = 0 /\ shift = 0
  /\ written = 0 /\ crashes = 0 /\ failures = 0
NoDaily ==
  /\ maxDaysToKeep = 0 /\ had = 0 /\ appends = 0 /\ now = 0 /\ current = 0 /\ dated = 0
  /\ logs_time = 0 /\ t = 0 /\ dailyFd = 0 /\ daily = 0 /\ records = 0 /\ lost = 0 /\ failed = 0 /\ deaths = 0
NoDns == surl_q = 0 /\ ourl_q = 0 /\ asker = 0 /\ tpc = 0 /\ o_url = 0 /\ ip = 0
NoEv ==
  /\ resolver = 0 /\ name = 0 /\ n_pending_requests = 0 /\ asked = 0 /\ answered = 0
  /\ exit = 0 /\ early = 0
NoEcho ==
  /\ conn = 0 /\ unread = 0 /\ sent = 0 /\ answers = 0 /\ shut = 0 /\ watch = 0 /\ listed = 0
  /\ echo = 0 /\ shared = 0
NoSimple ==
  /\ simple = 0 /\ stop = 0 /\ with = 0 /\ held = 0 /\ caller = 0 /\ queued = 0 /\ request = 0
  /\ reply = 0
NoTcp ==
  /\ tcp = 0 /\ tcpConn = 0 /\ end = 0 /\ tcpUnread = 0 /\ tcpFd = 0 /\ tcpEvents = 0
  /\ tcpWatched = 0 /\ spoiled = 0
NoConfig ==
  /\ config = 0 /\ ins = 0 /\ m_contener = 0 /\ m_iLoaded = 0 /\ cSectionName = 0
  /\ cSection = 0 /\ lines = 0
NoDemo == mutex = 0 /\ waiting = 0 /\ count = 0 /\ at = 0 /\ proc = 0

Parts == {"timers", "kafka", "poll", "size", "daily", "dns", "resolve", "echo", "simple",
          "tcp", "config", "demo"}

PInit ==
  /\ part \in Parts
  /\ KafkaInit
  /\ IF part = "timers" THEN Init ELSE NoTimers
  /\ IF part = "poll" THEN Poll!Init ELSE NoPoll
  /\ IF part = "size" THEN Size!Init ELSE NoSize
  /\ IF part = "daily" THEN Daily!Init ELSE NoDaily
  /\ IF part = "dns" THEN Dns!Init ELSE NoDns
  /\ IF part = "resolve" THEN Resolve!Init ELSE NoEv
  /\ IF part = "echo" THEN Echo!Init ELSE NoEcho
  /\ IF part = "simple" THEN Simple!Init ELSE NoSimple
  /\ IF part = "tcp" THEN Tcp!Init ELSE NoTcp
  /\ IF part = "config" THEN Config!Init ELSE NoConfig
  /\ IF part = "demo" THEN Demo!Init ELSE NoDemo

PNext ==
  /\ \/ part = "timers" /\ Next /\ UNCHANGED <<kafkaVars, pollOf, logsOf, namesOf, serversOf, smallOf>>
     \/ part = "kafka" /\ KafkaNext /\ UNCHANGED <<timersOf, logsOf, namesOf, serversOf, smallOf>>
     \/ part = "poll" /\ Poll!Next /\ UNCHANGED <<vars, kafkaVars, logsOf, namesOf, serversOf, smallOf>>
     \/ part = "size" /\ Size!Next
        /\ UNCHANGED <<timersOf, kafkaVars, dailyOf, namesOf, serversOf, smallOf>>
     \/ part = "daily" /\ Daily!Next
        /\ UNCHANGED <<timersOf, kafkaVars, sizeOf, namesOf, serversOf, smallOf>>
     \/ part = "dns" /\ Dns!Next /\ UNCHANGED <<timersOf, kafkaVars, logsOf, evOf, serversOf, smallOf>>
     \/ part = "resolve" /\ Resolve!Next
        /\ UNCHANGED <<timersOf, kafkaVars, logsOf, dnsOf, serversOf, smallOf>>
     \/ part = "echo" /\ Echo!Next
        /\ UNCHANGED <<timersOf, kafkaVars, logsOf, namesOf, simpleOf, tcpOf, smallOf>>
     \/ part = "simple" /\ Simple!Next
        /\ UNCHANGED <<timersOf, kafkaVars, logsOf, namesOf, echoOf, tcpOf, smallOf>>
     \/ part = "tcp" /\ Tcp!Next
        /\ UNCHANGED <<timersOf, kafkaVars, logsOf, namesOf, echoOf, simpleOf, smallOf>>
     \/ part = "config" /\ Config!Next
        /\ UNCHANGED <<timersOf, kafkaVars, logsOf, namesOf, serversOf, demoOf>>
     \/ part = "demo" /\ Demo!Next
        /\ UNCHANGED <<timersOf, kafkaVars, logsOf, namesOf, serversOf, configOf>>
  /\ UNCHANGED part

pvars == <<timersOf, kafkaVars, logsOf, namesOf, serversOf, smallOf, part>>

\* Every thread of a program goes on, libraries and the kernel do what they were
\* asked for, and clients in the middle of a call go on; the others need not do
\* anything, and nobody has to send a signal. (SF: who wants a mutex that is
\* free again and again gets it; the clock goes on.)
FairTimers ==
  /\ WF_vars(part = "timers" /\ Loop) /\ SF_vars(part = "timers" /\ Tick)
  /\ WF_vars(part = "timers" /\ left = 0 /\ Woken)
FairKafka ==
  /\ WF_kafkaVars(part = "kafka" /\ ~crashed /\ Main)
  /\ WF_kafkaVars(part = "kafka" /\ ~crashed /\ Process)
  /\ \A p \in 1 .. Partitions : WF_kafkaVars(part = "kafka" /\ ~crashed /\ Consumer(p))
FairPoll ==
  /\ WF_pollOf(part = "poll" /\ Poll!Run) /\ WF_pollOf(part = "poll" /\ Poll!Call)
  /\ \A f \in Timer : WF_pollOf(part = "poll" /\ Poll!Expire(f))
FairNames ==
  /\ WF_dnsOf(part = "dns" /\ Dns!Main) /\ WF_dnsOf(part = "dns" /\ Dns!UrlParse)
  /\ WF_evOf(part = "resolve" /\ Resolve!Next)
FairServers ==
  /\ WF_echoOf(part = "echo" /\ Echo!Server) /\ WF_simpleOf(part = "simple" /\ Simple!Server)
  /\ \A c \in Callers : WF_simpleOf(part = "simple" /\ Simple!Runs(c))
  /\ \A c \in Client : WF_tcpOf(part = "tcp" /\ Tcp!Serves(c))
FairDemo ==
  /\ WF_demoOf(part = "demo" /\ Demo!Main) /\ SF_demoOf(part = "demo" /\ Demo!TestProc)

PSpec ==
  /\ PInit /\ [][PNext]_pvars
  /\ FairTimers /\ FairKafka /\ FairPoll /\ FairNames /\ FairServers /\ FairDemo

----------------------------------------------------------------------------
(* Of each part what its module says. (OnTime and Fires are AeTime's,      *)
(* Conserved and LocksOutlive KafkaConsume's.)                             *)

\* processTimeEvents: whatever handlers create and delete, no timer is used after
\* it was freed (and state keeps its types).
TimersSafe == part = "timers" => TypeOK /\ NoUseAfterFree

\* kafka: a container with more than the threshold is emptied.
Drained ==
  \A p \in 1 .. Partitions : part = "kafka" /\ Full(p) ~> part = "kafka" /\ Emptied(p)

\* kafka: after SIGINT, or a start that failed, the program ends.
Shutdown == part = "kafka" /\ g_stop ~> part = "kafka" /\ Stopped

\* utils/log: what a roll over renames and removes, and a crash in the middle of
\* it, costs no record that is to be kept, nor its order, nor its day; and what
\* it costs when the system refuses to.
LogsKept ==
  /\ part = "size" => Size!NewestKept
  /\ part = "daily" => Daily!DaysKept

\* utils/config: the items asked for are those of the file.
AsWritten == part = "config" => Config!AsWritten

\* Whoever waits is served in the end, by each program with its own exceptions:
\* a timer is called (timerfd), a url and a name are resolved (libevent dns),
\* a client is answered, read or let go (libev, libevent, the simplest server),
\* and a wait on a condition ends. n is a timer, a client or nobody special.
Waits(n) ==
  \/ part = "poll" /\ n \in Timer /\ Poll!Over(n)
  \/ part \in {"dns", "resolve", "demo"}
  \/ part = "echo" /\ n \in Client /\ Echo!Waits(n)
  \/ part = "simple" /\ n \in Callers /\ Simple!Running(n)
  \/ part = "tcp" /\ n \in Client /\ Tcp!Waits(n)

HasBeen(n) ==
  \/ part = "poll" /\ n \in Timer /\ Poll!Called(n)
  \/ part = "dns" /\ Dns!Done
  \/ part = "resolve" /\ Resolve!Done
  \/ part = "demo" /\ Demo!Ends
  \/ part = "echo" /\ n \in Client /\ Echo!Served(n)
  \/ part = "simple" /\ Simple!Ended(n)
  \/ part = "tcp" /\ n \in Client /\ Tcp!WasRead(n)

Served == \A n \in Callers : Waits(n) ~> HasBeen(n)
=============================================================================
