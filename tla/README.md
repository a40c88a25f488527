# Verification of code_library

This directory models the concurrent and stateful parts of the repository in
TLA+, checks the models with TLC and proves the central invariants with TLAPS.
The repository is a collection: an adapted libeio with a demo, a Redis-style
event loop with a server, several epoll / libev / libevent servers, a Kafka
consumer, timers on timerfd, a ring buffer and other containers, log files that
roll over, thrift and zmq samples, and small utilities. Most parts do not call
each other, so each is a component of its own with its own modules; those that
do (the event loop, its server, the sockets below) are composed.

## Inventory

| Component | State it keeps | Operations | What makes it hard | Correct when | Modules |
|---|---|---|---|---|---|
| libeio thread pool (`libeio/etp.c`, `demo.c`) | two priority queues, thread and request counts, workers, a pipe to the event loop | submit, poll, cancel, thread limits, worker loop with idle timeouts | three locks, counts read without a lock, a timeout racing a signal, QUIT requests | no request or wake-up is lost, counts mean what the code relies on, every request ends | `EtpPool` |
| libeio requests and groups (`libeio/eio.c`) | request fields, member lists, feeder and limit, the buffers of a worker | wrappers, execute, finish, group add / feed / limit / cancel; realpath, readdir, sendfile, memory | a group is finished by the poll or by its last member; callbacks re-enter; buffers that grow, partial results, cancellation in the middle | each callback runs once, groups after their members, cancelling reaches every level; a path, a listing, a copy is the right one; what a request holds is freed once | `EioContract`, `EtpPool` (life of a request); `EioOps`, `EioPath`, `EioReaddir`, `EioSendfile`, `EioMemory` (what it does); `EioGroup` (feeder) |
| ring buffer (`data_structure/queue.*`) | buffer, in, out | in, out, reset, alloc | unsigned wrap, one reader and one writer without a lock | a queue of bytes; neither side touches the other's bytes | `Queue`, `ByteFifo` |
| power-of-two rounding (`data_structure/queue.c`, `utils/roundup_pow_of_2.c`) | none | fls, roundup, two allocations | sign of the shifted value | smallest power not below the argument; both parts or none | `QueueAlloc` |
| array (`data_structure/nc_array.*`) | element count, capacity | push, pop, each, deinit | growth, width of the capacity, pushes while it is gone over | a stack; no access outside the memory | `NcArray` |
| linked lists (`data_structure/alist`, `list.h`) | nodes, iterators | add, delete, rotate, splice, iterate, dup | an iterator over a list that changes | both directions agree; iteration meets every element | `AdList`, `LinkList` |
| event loop (`pubsub/ae.c`, `ae_epoll.c`) | events per descriptor, fired list, timer list | create / delete file and time events, process events, resize | stale events of a closed descriptor, masks, timers that delete themselves, a clock that jumps | loop and kernel agree, no edge is lost, no timer early, lost or used after it was freed | `Epoll`, `Ae`, `AeUser`, `AeTime` |
| pubsub server (`pubsub/main.c`) | connections and their buffers | accept, read query, send response, stop signal | handlers swapped on a descriptor, closed descriptors that stay registered | every query of a client that stays is answered, to that client | `PubsubServer`, `Sockets` |
| epoll server (`epoll/simplest_sample`) | connections | accept, receive, send, stop signal | sockets that block, errors of read ignored, close within a round | the server never blocks in read, every message is answered | `EpollServer`, `Sockets` |
| Kafka consumer (`kafka/src`) | handlers, message containers, stop flag | consume threads, process thread, start, release | destroy before join, double release, messages left behind | no message lost between the threads, locks outlive users, the program ends | `KafkaConsume` |
| timers on timerfd (`utils/timerfd`) | map from descriptor to a copy of the timer, edges in epoll | add, delete, modify, stop, run | copies that share a descriptor, two threads without a lock, one edge for each time | a timer whose time is over is called | `TimerPoll` |
| log files (`utils/log`) | current file, size, date, files renamed before | open, log, roll over | cascade of renames, crashes in between, restarts, midnight between two calls, calls that fail unseen, a field nobody sets | the newest records survive in order; a day's file has the records of that day | `SizeRolling`, `DailyRolling` |
| libev echo server (`libev/echo_time`) | two watchers for all clients, libev's lists | accept, read, write callbacks, signal | a watcher is taken over while it is started; sockets block; SIGPIPE is not ignored | each message is answered, each client that left is closed, while no client takes another's watcher | `EchoTime` |
| libevent samples (`libevent_sample`) | URL queues, pending requests, an event for each client | put and take apart, resolve, accept, read, close | a signal before the wait, answers before the loop runs, an event left after close | a URL is taken out whichever thread comes first; all names are answered; each client is read | `DnsQueue`, `EvDns`, `TcpSample` |
| socket sample (`simplest_netcommu`) | one connection at a time, descriptors left open | accept, read, write, stop signal; the client | both sides block, SIGINT between the look and the call, clients that die | no client waits for ever | `SimpleServer` |
| daemon (`utils/my_daemonize.c`) | process, descriptors | double fork | a failure half way | | no |
| ini parser (`utils/config`) | sections and keys, the section being read | load, get, free | a section is stored when the next begins or the file ends, in two ways | what is asked for is what the file says last | `MyConfig` |
| threads demo (`utils/thread`) | a count with a mutex and a condition variable | create, wait, signal | the signal may come before the wait; waits end for nothing; a return value that is never negative | main ends | `XthreadDemo` |
| singletons, dlopen demo | an instance pointer; handles | instance; load, call | one thread each | | no |
| thrift services (`thrift`) | order queues | send order, handle request | mostly generated; a hand-written queue | | no |
| zmq samples, log4cpp sample, simple factory, scripts | none worth modelling | | | | no |

`PROJECT.json` lists the same components with their sources, and every hazard at
its line.

## Modules

    EioContract <-- refined by -- EtpPool <-- MCEtpPool (symmetry)
                                     ^------ EtpPool_proofs
    EioOps, EioPath, EioReaddir, EioSendfile, EioGroup, EioMemory <---- MCEio <-- MCEio_proofs
    ByteFifo    <-- refined by -- Queue <-----------------------------------\
                                     ^------ Queue_proofs                    |
    QueueAlloc, AdList, LinkList, NcArray <---------------------------- MCContainers <-- MCContainers_proofs
    Epoll <-- Ae <-- AeUser <-- MCAeUser
                        ^------ AeUser_proofs
    Epoll <-- Sockets <-- EpollServer ---\
    Ae + Sockets <------- PubsubServer ---+-- MCServers <-- MCServers_proofs
    AeTime <------------------------------------------------------------\
    KafkaConsume, TimerPoll, SizeRolling, DailyRolling, DnsQueue, EvDns, |
    EchoTime, SimpleServer, TcpSample, MyConfig, XthreadDemo <-- MCPrograms <-- MCPrograms_proofs
         ^------ KafkaConsume_proofs (of the first)

`MCEio`, `MCContainers` and `MCPrograms` check modules that do not interact in one
run each: their variable `part` says which one a behaviour is about, and what
belongs to the others stays as it is.

Operators whose comment says "mutant" stand for a plausible mistake beside the
definition they would replace; no specification uses them. A run with a mutant
in place finds the property violated, which shows that the property can be.

| Run | Instance | Question |
|---|---|---|
| `pool_threads` | 3 requests, up to 3 threads (wanted 2, max_idle 1), priorities 0 and 1, creation may fail, limits change once | is the thread machinery safe |
| `pool_groups` | 2 groups, a request, 1 thread, cancellation, callbacks that fail, polls that stop after one request | does it keep the contract of `eio.h` |
| `pool_live` | 2 requests, 3 thread slots, max_idle 2, limits between 1 and 2 | does every request end |
| `pool_idle_hang` | max_idle 1 with 2 threads | the same: no (finding) |
| `containers` | the ring: 4 bytes, indices modulo 8, calls of up to 2 bytes, in each of its three uses; 4 nodes, 2 values; 2 rings, 3 entries; 2 arrays, 4 elements of 2; ints of 4 bits | is the ring a queue; do the single-threaded structures keep their contents |
| `queue_reread` | the ring, calls of up to 3 bytes, `min` evaluated twice | at most len bytes: no (finding) |
| `ae` | 2 descriptors, any program | do loop and kernel agree |
| `ae_time_self` | a timer deletes itself | is freed memory left alone: no (finding) |
| `servers` | 2 clients, 3 descriptors, 3 messages | are clients answered, does the server stop |
| `eio` | trees of 6 paths with links, 5 entries in buffers for 2 and 3, up to 6 bytes through a buffer of 2, limits up to 2 | do the requests of libeio do what they stand for |
| `eio_root` | the same, asking for the text of a working directory | is it canonical: no (finding) |
| `programs` | timers: 2, seconds of 2 ms, a clock up to 6 ms set back once; an int of 4 bits; kafka: 2 partitions of 3 messages, one of them empty, batches of 2, threshold 1; the logs: 11 records, 2 crashes and 2 calls that fail (size), 3 days, a crash, a rename that fails, words of 8 (daily); the others: 2 timers, 2 or 3 clients, 3 names and one that is too long, 4 lines | is each program safe, and is whoever waits served |

## libeio: `EtpPool`, `EioContract`

`EtpPool` models `etp.c` whole, with the parts of `eio.c` it calls back into and
the event loop of `demo.c`. The main thread is one actor, every worker is one.

* A critical section is one action: `Take`, `GiveUp` and `Wait` are the three
  ways the section under `reqlock` in `etp_proc` ends, `Post` is the section
  under `reslock`, `Retire` and `Free` those under `wrklock`.
* A condition variable is a set of sleeping workers; `Signal` wakes any one of
  them, `Timeout` and `Spurious` wake one without a signal, and a woken worker
  has still to take the lock.
* What the code reads without a lock (`started`, `npending` in
  `etp_maybe_start_thread`, `started` in `etp_set_max_parallel`) is read in an
  action of its own; the two operands of the sum are read in either order.
* `eio_finish` is a chain of frames (`chain`): a member, the group it
  completes, that group's group. The finish callback is user code: all calls of
  the API are possible inside it.
* Unsigned counts wrap at `W`, the width of `unsigned int`; a priority is an
  index as in the code, computed with the wrap of `signed char`.

`EioContract` is what `eio.h` promises with none of that machinery; the pool is
checked, and proved, to implement it under the mapping `Contract` at the end of
`EtpPool` (`KeepsContract`).

What the environment may do: submit each request once, add a request to a group
while neither has finished, cancel what is still allocated, set the limits at
most `MaxTune` times, return values from `CbResults` out of callbacks. The
application calls `eio_poll` from the loop of `demo.c`, when the pipe is readable
and `eio_nreqs` is not zero.

Bounds: three requests are enough for one to be executed, one to be queued and
one to be submitted in a race window; two running threads are enough for one to
leave while another stays, and the third slot lets a thread start before an ended
one is freed. `W` = 16 is far above every count, so a wrap can only come from a
count that went below zero. Deadlock is not checked: the program waits for
ever when the application has nothing to do.

Fairness (`FairSpec`): every worker that can run runs, the library's own steps of
the main thread go on, callbacks return and the event loop polls when it can.
The application need not submit anything, and no timeout has to fire. In
`pool_live` thread creation does not fail: when it fails the code does not retry.

`pool_idle_hang` shows that a request can stay in `req_queue` for ever: a thread
that timed out has left `reqlock` and is still in `started`, so that
`etp_maybe_start_thread` starts no other. It needs `max_idle` below the number of
threads (the defaults are both 4, and then no wait is timed).

Met on the way, and left in the model as the code has them: QUIT requests lower
`nready` (`etp.c:379`), which they never raised, so `eio_nready` may be a huge
number where `eio.h:320` says "number of not-yet handled requests"; `started`
wraps when the limit is lowered below the threads that started (`etp.c:465`,
`:641`), against `eio.h:322`; `etp_poll` returns -1 also after it handled the last
request when a limit stopped it (`etp.c:524`), against `eio.h:303`; and a
priority above 123 becomes the lowest (`etp.c:561`).

## What requests of libeio do: `EioOps`, `EioPath`, `EioReaddir`, `EioSendfile`, `EioGroup`, `EioMemory`

`EtpPool` carries requests around; these say what a worker does with one.

* `EioOps` follows one request of each type from its wrapper to `eio_destroy`: which
  of path, second path, buffer and result it holds, what `eio_execute` allocates,
  replaces or opens, and what is freed. `FreedOnce` relates all of it, and says that the
  data of a request that synced are on the disk. What puts them there is what the code
  calls: without `syncfs`, `sync()` only for a descriptor that is not negative (`eio.c:605`);
  `sync_file_range` returns 0 for flags that flush nothing or wait for nothing
  (`eio.c:628-631`), and then nothing is claimed. The other
  exceptions it names are the code's: without memory for a second path the
  first is not freed, and what a cancelled `open` opened stays open.
* `EioPath` is `eio__realpath`, one component a step, with the loop's buffers as
  sequences, on a tree (`Tree` in `MCEio`) that has links to directories, files,
  nothing, upwards, absolute, and round in a circle. `RealPath` compares the result with
  `Walk`, the kernel's own resolution, defined beside it. `eio__wd_open_sync`
  resolves a path twice, once for the text and once for the descriptor.
  `eio_root` shows that the text of a directory below the root's may begin with
  two slashes: `eio.c:1046` looks at a byte that was not copied.
* `EioReaddir` is `eio__scandir`: two buffers that grow, entries with or without a
  type, errors, cancellation, and at the end both sorts, the radix sort as
  recursive functions over bits and the insertion sort with its sentinel.
  `Listing` compares with the order that was asked for. The limits are scaled:
  `EIO_SORT_CUTOFF` is `Cutoff`, `EIO_SORT_FAST` `Fast`.
* `EioSendfile` is `eio__sendfile` on Linux with its fallback through a buffer. Each
  call of the system may do less than asked.
* `EioGroup` adds the feeder to groups: `grp_try_feed`, called from `grp_dec`, `eio_grp_feed`
  and `eio_grp_limit`, with results that are put off while members are under way.
  `GroupFed` says that a group ends once and not before its feeder had nothing
  left (but for a limit of 0, which allows none to run), `GroupEnds` that it does end.
* `EioMemory`: `eio_page_align` and the loop of `eio__mtouch`. That loop compares an
  address with a length, so that of memory at any usual address only the first
  page is touched (`eio.c:939`); `WholePages` says what is true of it.

Bounds: five entries, above the scaled cutoff of three, make both sorts work and let
each buffer grow twice; six bytes through a buffer of two go round the copying loop
three times; trees have a link of every kind. Fairness is needed for groups only:
the user polls while something is pending, and workers execute what is queued.

## Ring buffer: `Queue`, `ByteFifo`, `QueueAlloc`

A call of `_queue_in` or `_queue_out` takes a step for each thing the other thread
can see: the length (which reads both indices), the copy up to the end of the
buffer, the copy at its start, and the new index. Two variables that are chosen at
the start and never change say who calls and what was built. `shared`: two
threads on `_queue_in` and `_queue_out`, which the comments allow without a lock,
or one thread on the wrappers `queue_in`, `queue_out` and `queue_reset`, of
which `queue_out` sets both indices back when the buffer is empty. `rereads`: a
build in which the macro `min` evaluates its second operand again for the value
(the makefiles pass `-g -Wall` without `-O`). Indices are unsigned of width `W` and
never reduced. `Idle` is the value `ByteFifo` has where no call runs.

`ByteFifo` is what the comments promise: bytes come out as they went in. `Fifo`, in
`Queue`, maps the two indices and the memory to its sequence, and `KeepsFifo` says
that each step is one of the abstract queue, in a build without rereads.
With them the promise "at most @len bytes" is broken (`queue_reread`); that neither
thread touches the other's bytes still holds, and is proved for both builds.

A buffer of 4 and indices modulo 8 wrap both ways within a few calls; calls of
up to 2 bytes start and end at every place of the buffer.

Memory is taken as sequentially consistent: nothing in the code keeps the
compiler or the processor from publishing an index before the bytes, and that is
outside of the model.

`QueueAlloc` follows the loop of `fls` bit by bit, which half `fls64` gives it, and
the two allocations with their failure. It is run for the sizes a caller may
give. Beyond them: `fls` shifts a signed int, so a value whose half has the
highest bit set is shifted for ever (`queue.c:16`, `:37`); such sizes are above
2 GB and are left out of `RoundArgs`.

## Lists and array: `AdList`, `LinkList`, `NcArray`

Each is a data structure that one thread uses, modelled link by link; TLC goes
through every legal sequence of calls up to the size of the instance, in
`MCContainers`, whose variable `part` says which structure a behaviour is about.

* `AdList`: nodes with `prev`, `next` and a value, headers with both ends and the
  count, two lists of which one is a copy (`listDup`), and an iterator held
  across other calls. While it is held the guard `MayRemove` allows what the
  comment of `listNext` allows. `due` is a history: the nodes the iterator
  has before it. Four nodes give every case of the links (empty, one, two, inner).
* `LinkList`: `next` and `prev` of heads and entries alike. The rules callers must
  keep (no second `list_del`, no use of a spliced head before it is initialised,
  not removing the fetched entry) are the guards.
* `NcArray`: `nelem`, `nalloc` and a block that `realloc` may refuse; `array_each`
  takes a step for each element, and its callback may push.

Left out: a malloc that refuses the iterator of `listDup` or `listSearchKey`, which use it all
the same and crash (`adlist.c:252`, `:289`); and the dup, free and match functions of a list's user. `listDup`'s way
out of a failed copy releases the copied nodes with the original's free
method (`adlist.c:262`) although without a dup method they share the values; and a
value that was copied is lost when `listAddNodeTail` fails (`:265`). A model of
owners is the next step of that module. Pointers kept across `array_push` are a
caller's matter; no caller is in the repository.

## Event loop: `Epoll`, `Ae`, `AeUser`, `AeTime`

`Epoll` is the kernel's side as the code uses it (external): watched events, which
descriptors are open, and which are due to be reported. With edge triggering a
descriptor is due when something new happened to it since it was reported, or
when its registration was added or modified while it was ready; closing it drops
the registration, and a new one gets the lowest free number.

`Ae` has `events[]` (`mask`, both handlers), `maxfd`, `setsize` and `fired`. The
functions `Create`, `Delete` and `Resize` are operators on the pair of loop and
kernel, so that a handler may call several. `aeMain` and `aeProcessEvents` are
the actions `Poll`, `PollEmpty`, `CallRead`, `CallWrite`, `Handled`, `Around`.

`AeUser` is any program on it: inside a handler, or before `aeMain`, it registers,
unregisters, opens, closes, reads and resizes in every order, while the other
side sends at any time. `Agreement` and `NoMissedEdge` are stated of tidy programs,
and each of the three things that tidiness forbids breaks them:

* both kinds on one descriptor: `aeApiAddEvent` assigns `ee.events` for
  `AE_WRITABLE` where it ORs the mask for `AE_READABLE` (`ae_epoll.c:59`), so that the
  read handler is never called although `ae.c:323-330` is written for both;
* closing without unregistering: `events[]` keeps the mask, and the next
  registration is an `EPOLL_CTL_MOD` that fails (`ae_epoll.c:53`). The pubsub
  server does this, see below;
* resizing: `aeResizeSetSize` clears masks from `maxfd` and not `maxfd + 1`
  (`ae.c:68`), and leaves `fired` at its old size (`ae.c:65`).

That nothing is registered above `maxfd` holds of every program. Both properties are
proved for any number of descriptors and handlers. Two descriptors
are enough for one to be fired before the other changes its registration, and
for `maxfd` to move.

`AeTime` has the list of timers, the time in seconds and milliseconds (a
second has `K` of them), the sleep of `aeProcessEvents` and the scan of
`processTimeEvents`. The clock goes on at any step and may be set back once.
Handlers create and delete timers and ask to be called again. In `programs` they
do not delete their own timer: when they do, it is written to after it
was freed (`ae_time_self`). `quick` says that a pass over the timers takes less than
a millisecond; the liveness properties are stated of that case, because a
timer that is over again when its handler returns is called in the same pass,
which then need not end (`ae.c:268`). A loop with a timer that is over may still
sleep, because the two parts of the time left are clamped each for itself
(`ae.c:305`), though for less than a second (`OnTime`). The time left is a long and
`epoll_wait` takes an int (`ae_epoll.c:89`): a timer that is nearest and 2^31 ms (24 days) or
more away may give a negative timeout, with which the loop sleeps until a file event
comes. `Sleep` narrows as the code does, an int goes from `-HalfInt` to `HalfInt - 1`, and
delays in the runs are on either side of it; `OnTime` and `Fires` are of timers an int can wait for.

Fairness there: the loop's thread goes on, handlers return, time passes, and
`epoll_wait` comes back when its time is over; no file event need wake it.

## Servers: `Sockets`, `PubsubServer`, `EpollServer`

`Sockets` is the clients and their connections (external): the backlog, what was
sent and not read, closing and resetting. `MCServers` runs either server with the
same clients.

`PubsubServer` adds the handlers of `pubsub/main.c` to `Ae`: accepting, reading until
the query ends, swapping the read handler for the write handler and back,
closing. `HandledRight` (`OneHandler` of this server) and `Answered` say that the swapping never leaves a descriptor
with both handlers, or none, or unwatched. `Answered` counts: a query that waits when its client
has had n answers is read and gets one more. The runs take n = 0 and 1, a first query and a later one. When clients leave, the server closes
the descriptor and leaves it in `events[]`; the next client on that number is
registered by a failing `EPOLL_CTL_MOD` and is never served (`main.c:107`).
`AnswersQueries` says that nobody is answered what another asked all the same, and
`Answered` is stated of clients that stay. It is also stated of clients that
connect one after the other: one connection is accepted for each edge
(`main.c:137`), so that of two clients that connect at once the second waits
until a third comes.

`EpollServer` is `event_loop` with `accept_conn`, `recv_req` and `send_resp`. Its
sockets block (`set_nonblocking` sets the flag with `F_SETFD`), yet `recv_req`
never waits: when clients wait for their answer before they send again (`patient`)
and send less than a buffer, there is one read for each message, and it finds
something (`HandledRight`, whose part for this server is `OneRead`). Errors of `read` close nothing, because `errno = EAGAIN`
assigns (`epoll_server.c:211`); the write that follows in the same round fails and
closes the connection (`GoneIsClosed`).

`AnswersQueries` and `HandledRight` are proved for any number of clients,
descriptors and messages. `MaxMessages` is a bound of the model, not of the program.

`Stops` is stated of the pubsub server, whose 5 second timer ends each wait; the
other server notices a signal that comes between the look at `stop` and
`epoll_wait` at its next event only. Two clients, three descriptors and three
messages let one client be served, leave, and be followed on its descriptor while
another is in the middle of a query.

Fairness: the server's thread goes on while it has something to do. Clients need
not do anything, and nobody has to stop it. Clients read what is sent to them, so
that a write never finds a full buffer (a write that fails with `EAGAIN` would
count as sent, `main.c:78`).

## Kafka consumer: `KafkaConsume`

A consumer for each partition, the process thread and main with the signal
handler. A critical section is one step, and so is one call of the library. The
start may fail at each of its places. A message without payload (which ones are, `Empty` says) is fetched, counted and
dropped before it is put anywhere (`kafka_consume.cpp:33`). What the library or POSIX leaves undefined
(a handle used after `consume_destroy`, destroyed twice, a thread joined twice or
never created) may kill the program or do nothing: `crashed`. The order of
`release()` and the second call that `main` makes of it (`kafka_consume.cpp:272`) are
modelled as they are, so such ends are reachable; `Shutdown` admits them, and
says that there is no end in which somebody waits for ever. `Conserved` is of the messages
that have a payload, the others are in their batch or nowhere; apart from that it
and `LocksOutlive` admit nothing.

A container is emptied only when it holds more than 1000 messages, and not at
the end (`:216`): `Drained` says the first, and what a container holds when
the program ends is fetched and not stored. Two partitions, batches of two and
a threshold of one let both consumers be between the two locks while the process
thread works on either container.

Fairness: each thread goes on while it can. `SIGINT` need not come.

## Timers on timerfd: `TimerPoll`

One thread adds, changes, stops and deletes timers, call by call and inside each
call step by step; the other is `run()`, with the edge-triggered epoll and the kernel's
timers between them. Nothing is locked, so a change of the map has a beginning and
an end, and a search or a use of the iterator in between is recorded in `raced`: after
that the program is undefined, and `Served` promises nothing. Without such a race
every timer that is over is called, because it is put into the map before it is
watched and watched before it runs.

Left as the code has it: the map holds copies, and `~timer` closes the descriptor
they share (`timer_poll.h:66`), so that erasing a timer closes its user's; `operator[]`
(in C++03) makes and destroys timers that are `timer()`, whose descriptor is 0: adding one may
close standard input; `timer_modify_internal` changes the user's copy and starts it
at once (`timer_poll.cc:56`).

## Log files: `SizeRolling`, `DailyRolling`

A file is its records, numbered. Each `close`, `rename`, `open` and `unlink` is a step, and the
program may die before any and start again, `MaxCrashes` (`MaxDeaths` of the daily log) times. Each of
them may fail, and the code looks at one result only, that of `open` in the constructor of the daily log.

`SizeRolling`: `NewestKept` says that the files, read from the oldest to the newest, have records in the
order they were written, and among them always the newest of a file's size. A rename that is refused
costs more than that file: the next one goes over it, and the current file is opened
again and grows. The size is exceeded by a record for each crash and for each call that failed
at most, so that in a directory that refuses renames the file
grows without bound. While no call has failed there is no gap among the records, and each
crash costs one file at most, because the rename over the newest backup happens although the chain was
moved already. All of it with `append`: without, a program
that starts empties the file on purpose. Eleven records over three
backups of two roll the chain past its end with both crashes and both failures inside.

`DailyRolling`: time passes between any two calls, over midnight also. `DaysKept` says that a record
stays until it is old and is found in the file of its day. What it has to name is what the code does:

* After a restart the day of the file is that of its last write, which may be the day after the
  records (`log_daily_rolling.cpp:46-76`). A file that could not be renamed (`:105`) is likewise opened
  again and passed off as a later day's (`failed`).
* The clean-up goes over all files with the prefix, the current one too (`:122-136`). When that is old,
  because its rename failed, or because files are kept for less than a day (`Brief`), it is deleted while it is
  open; what is written then is in no file (`lost`), until the next roll over.
* No constructor sets `_maxDaysToKeep`: the parameter is dropped (`:46-76`), and `:109` multiplies what was in the
  memory. `Construct` picks any of `KeptDays`, each time; and the product is an unsigned int, so that
  49711 days are less than one (`KeepFor`, modulo `Word`). A record is old (`Aged`) when it is by one of the values the
  field had.
* Files are looked up in the working directory but removed beside the log (`:124`, `:132`), so that of a
  log that is elsewhere nothing is deleted: `Scan` may do nothing, which is also what it does when `scandir`
  fails.

Three days of two units, values of one and four days and words of 8 (four days are none) let a file be old
while it is current, and be kept past a day.

## Small servers and samples

Each module has `Waits` and `Served` (or its like), and `Served` of `MCPrograms` says that who waits is
served in the end. What is excepted is in each module's own definition, and is
what the code does:

* `EchoTime` (`libev/echo_time`): one watcher for reading and one for writing, for all clients.
  Accepting a client takes the watcher of the one before while it is started (`server.c:123`);
  libev then still lists it under the old descriptor. `shared` records it, and `Served` is of
  clients that come while no other has a watcher. One answer is sent for what one `read` found, and
  a message that is not yet read is not counted as answered. A write to a client that reset the
  connection raises SIGPIPE, which `my_signal.c:11-16` does not ignore: the server ends, and `Served` is of servers that run.
* `DnsQueue` (`dns.cpp`): main puts one URL and signals once; the thread looks before it waits, so that
  either may come first. `signal` without the lock would do, too; without the signal
  it would not. The result of `evdns_resolve_ipv4` is ignored (`dns.cpp:95`): a name it refuses (a label of more than
  63 bytes) has no callback, `event_dispatch` does not return, and main waits for ever (`Refused`).
* `EvDns` (`ev_dns.c`): an answer that comes inside `evdns_getaddrinfo` while no other is pending takes
  `n_pending_requests` to 0 and asks the loop to end before it runs (`early`); names asked for
  later are then not answered. Otherwise all are. (`malloc (sizeof user_data)` has the size of a
  pointer, `ev_dns.c:85`; the memory that is written behind is not modelled.)
* `TcpSample` (`tcp/server.cpp`): an event for each client. When `recv` fails the descriptor is closed
  without `event_del` (`:39`), and the next client on it is never told to the kernel (`spoiled`).
* `SimpleServer` (`simplest_netcommu`): both programs, which block. An answered connection stays open
  (`server.c:170`), so that after as many as there are descriptors `accept` fails for ever; a
  SIGINT between the look at `stop` and `accept` is seen after the next client only.
* `XthreadDemo`: `xthread_create` gives 1 or 0 and main looks for less than 0: without the thread main
  waits for ever. With it main ends, whoever takes the mutex first.
* `MyConfig`: sections are stored when the next begins, at the end of the file, or after the last line when
  that has no newline; `AsWritten` compares what is asked for with what the file says
  last. main goes on after a file that did not open (`my_config.cpp:224`), and a missing
  string ends it.

What is excepted (`raced` in `TimerPoll`, `shared`, `early`, `spoiled`, and a server that was ended) is a
defect that `Served` does not catch; `PROJECT.json` says so of each of those hazards.

Fairness in `programs`: threads and loops go on, the kernel's timers expire, libraries answer, and a
client in the middle of a call goes on; clients need not begin, SIGINT need not come. Strong
fairness is assumed of two things: of the clock, and of a thread that wants a mutex
others take again and again (`XthreadDemo`, against wake-ups without end).

Bounds: two clients or timers let one be served while the other arrives, takes its
descriptor or its watcher; a third client of `SimpleServer` finds the server without a
descriptor; three names are one pending, one answered at once and one to come.

## Proofs

For every value of the constants that the named assumptions admit. Each module
first gives the invariant as named parts, then what a step does to each part, one
lemma for each action or kind of action, and then its theorems.

### The thread pool

One module, `EtpPool_proofs`, under `PoolAssumption`: a finite set
of threads, `W` > 1, priorities in order, distinct values; any number of threads,
requests and groups.

Of threads and wake-ups:

* `TypeCorrect`: the type invariant `TypeOK`, which is inductive as it
  stands because it also says what a place in the code implies (a worker in
  `exec` holds a request; inside a callback there is a frame).
* `PollTokenCorrect`: the pipe holds one byte exactly while results wait. It is
  inductive relative to `TypeOK`.
* `NoLostWakeupCorrect`: while a worker sleeps on `reqwait`, at least as many
  others are on their way to the queue as it holds requests. The obvious
  statement, that one is awake, is not inductive: a QUIT request takes a worker
  away. Counting is.

of where a request is:

* `OnePlaceCorrect`: a live request is in one place and a freed one in none. The
  property is a sum (of what queues, hands and frames hold), and a sum does not say
  what a step may assume of its parts. `PlaceInv` does: beside `TypeOK` and the sizes
  of the queues, which hands are empty where (`EmptyHands`), that the frames of
  `eio_finish` climb from a member to its group (`ChainOK`), and that the members of
  groups are trees (`TreeOK`), so that a frame's group is in no other place.
* `CountsAgreeCorrect`: each count is what it counts. Counts are unsigned, and
  `started` may pass below zero; the invariant (`ThreadCounts`)
  is stated modulo `W`, and the theorem has the hypothesis that there are fewer
  threads than `W`, without which two counts that agree modulo `W` may differ.
* `LeavesNothingCorrect`: when the event loop finds `nreqs` at zero and goes home, no
  request is in flight. A group that waits for its members is in no queue, so this
  needs that one below it is: groups have ranks (`Ranks`), a live group with
  members has a live member of a lower rank, and descending ends. The hypothesis is
  that fewer requests are live than `W`, because `nreqs` wraps as well; the part that
  needs none, that a group's size is the length of its list, is stated without it.

and of what the caller sees:

* `TakesHighestCorrect` and `CancelReachesAllCorrect`, action properties: a step takes
  the request with the highest priority queued (`Queued`: the lists hold each
  request under its own priority), and cancels a group with all below it.
* `KeepsContractCorrect`: the pool implements `EioContract`. Each action is mapped to a
  step of the contract or to none. What the mapping needs is `PlaceInv`, `Performed` (a
  result that waits was performed or cancelled), and `Told` (a callback runs once, and
  of a group after its members).

### The ring buffer

`Queue_proofs` (`QueueAssumption`: the buffer and the lengths are below `W`), for
any size, both uses and both builds:

* `TypeCorrect` and `NoOverrunCorrect`, from `IInv == TypeOK /\ NoOverrun`. The two need
  each other: that a new index stays in its range and that the copies stay
  inside the buffer follow from the room measured before, which the other
  thread can only increase.
* `AtMostAskedCorrect`: with `min` evaluated once, no call copies more than `len`.
  The run `queue_reread` shows that the assumption is needed.
* `KeepsFifoCorrect`: the ring implements `ByteFifo`, with two threads and no lock. The
  mapping is of the bytes between the indices; `Exact` adds those beside them: what
  the writer copied is in the memory but not yet counted, what the reader copied is
  what lies behind `out`. Here the assumption `WholeBuffers` is used, that `Size` divides
  `W`: without it the place of a byte jumps when an index wraps.

### The event loop

`AeUser_proofs` (`AeAssumption`: descriptors are `0 .. SetSize - 1`, there is at least one), for any
set of handlers and every program on the loop:

* `TypeCorrect`; `AgreementCorrect`, that nothing is registered above `maxfd`, whatever
  the program does, and of tidy programs that loop and kernel agree; and
  `NoMissedEdgeCorrect`, that an edge nobody has seen is due or about to be handled.
* All from `AInv`. What holds of every program is apart from what holds of tidy
  ones (`TidyInv`), so that a step that makes a program untidy has only the first to
  keep. `AllKnown` is the edges, and holds inside a round of events because
  `AllHandled` says that the rest of `fired` is still as the kernel gave it.
  `maxfd` is searched downwards by the code and is a `Max` in the model: that a
  greatest element exists is `Greatest`, from the well-foundedness of the naturals.

### The servers

`MCServers_proofs` (`ServersAssumption`: a listening descriptor and room for a client), for any
number of clients, descriptors and messages:

* `AnswersQueriesCorrect`: no client is answered more often than its messages were read,
  by either server, also when descriptors are used again for others.
* `HandledRightCorrect`: on each descriptor of the pubsub server there is one handler,
  the right one, and `recv_req` of the other does not block. Its hypothesis is
  `Size > 1`: a message, which is one unit, is shorter than the buffer, as the property says;
  one that fills the buffer makes `recv_req` read again, and wait.
* `SInv` is one invariant for both. `SocketsInv` is what the server does not decide:
  a client is on one descriptor or once in the backlog (`OnePlace`), and only open
  descriptors are watched. For the pubsub server `Stages` is the heart: what the kernel
  watches of a descriptor says which handler comes next, and while that is the
  write handler an answer is owed; `FiredWatched` carries it through a round, in which
  a handler never takes away what another event of the same round is about.
  For the epoll server, `BatchRight` says that what was reported is still true
  when its turn comes, though descriptors were closed before it; `Patience` and
  `Receiving` that there is one message to read and it is read at once.

### The requests of libeio

`MCEio_proofs` (`SendfileAssumption`: sizes are natural numbers, the buffer is not empty;
`EioAssumption`: a page is at least a byte, limits are integers, amounts are not negative).
`EInv` has an invariant for each part, and says of a part that is not the one
a behaviour is about nothing but that it stays; the theorems are of `ESpec`, which
the run checks.

* `FreedOnceCorrect`: nothing a request holds is freed twice, left over, or not its own, and what it was told
  to be on the disk is.
  `OpInv` says for each stage what the heap is: what the two pointers point to, of those
  with a flag, and the request (`Flagged`). It is this equation that each way through
  `eio_execute` has to keep, also those that set a flag before they know whether there
  is memory, and `eio__scandir`, which puts its own buffers under the request's flags.
  `Answered` carries what the callback is told from the worker to the poll.
* `GroupFedCorrect`, an action property: what a feeder may still make is in the step's
  own terms, but that nothing is left of a group that ends needs `GroupInv`: its size
  counts what waits, and the results of either priority (`Counted`), the group is among
  the results exactly once until it was polled (`OnceThere`), and between two tries of
  the feeder it has no room for more or nobody to ask (`Sated`). For any limits, also
  negative ones.
* `WholePagesCorrect`: any word, any page (a power of two is not needed), any region that
  does not run past the last address. `Whole` is what `eio_page_align` made, in multiples
  of a page; `Touched (n)` what n rounds of `eio__mtouch` did, from which the number
  of pages follows.
* `CopiesInOrderCorrect`, for every size of request, buffer and kernel limit. Inductive
  is `SendfileInv`: what was copied, what is left and the offset agree wherever the loop
  goes on, for each of its two ways.

### Log files, configuration and timers

`MCPrograms_proofs` is of four of the programs (`PInv` has an invariant for each):

* `LogsKeptCorrect` (`LogsAssumption`: a file has room for a record, a day has a unit of time),
  for any size, number of backups and records, and any number of deaths and refused calls at any step.
  `SizeInv` says of the size log where the newest record of each file is. Whatever fails, each
  file is a run of records (`Runs`), and a file's worth of the newest is in the current one or the one before
  (`Recent`). While no call has failed (`Whole`), what is older lies behind, and the files between are full
  (`Filled`). What a death costs is a set, the files that are missing (`Missing`), and
  what the proof counts is that each death adds one to it at most; between the steps of a
  roll over there is one more, the gap that moves down the chain (`Room`). `DailyInv` says of each
  day's file of the daily log that its records are of that day (`OfTheDay`), but for one day
  more for each restart and while no rename has failed; that nothing is renamed over a day that has its
  file (`NameFree`); when a file that is open can be old (`Gone`); and, in `Calls`, what
  a call of `log()` knows of the clock at each of its steps.
* `AsWrittenCorrect` (`ProgramsAssumption`: no section that is asked for has an empty
  name), for any names and a file of any length: `ConfigInv` compares, after each line,
  the section being read and those stored with what the lines so far say last.
* `TimersSafeCorrect`, with the hypothesis that no handler deletes its own timer
  (`SelfDelete = FALSE`; the run `ae_time_self` shows that it is needed): the scan's pointer is
  to a timer that lives. `TimersInv` has that as `Pointing`, with `Ordered`, that
  the list has each timer once, with an id below the next one.
* `OnTimeCorrect`, an action property, with nothing assumed of handlers: no timer is early, and none
  that an int can wait for is slept past by a second. `SetTo` says that what `te->when` holds, in seconds and
  milliseconds, is the time that was asked for, which the carries must not lose.

### The consumer

`KafkaConsume_proofs` (`KafkaAssumption`: there is a partition, and batches are not empty), for
any number of partitions and any size of batches and containers:

* `LocksOutliveCorrect`: when `release()` destroys the locks, no thread that takes them is
  left and no consumer has messages to put away. That alone is not inductive: `LocksInv`
  adds that a consumer runs only while `m_cthread` is there, that `m_cthread` is there
  only with the locks, which consumers `start()` has yet to create and which
  `release()` has joined, and that only the loop of `consume_callback` has a batch.
* `ConservedCorrect`: each message fetched that has a payload is in one place (an empty one in its batch or in none): a batch, a container, the hand of
  the process thread, or stored. `MsgsInv` adds to `LocksInv` that a batch is the last
  messages fetched, in order (`InOrder`), so that what is put away is a number, that places exclude each other (`InOnePlace`), and that a
  consumer that was not started has fetched nothing.

### The containers

`MCContainers_proofs` (`ContainersAssumption`) has an invariant for each of the structures one
thread uses (`CInv`); its theorems are of `CSpec`, which the run checks. What the assumption asks of
callers is what the code needs: `queue_alloc` is given an unsigned int that is not 0, and neither it nor
`roundup_pow_of_two` a number that leaves `fls` a negative half, for which its loop would never end;
heads and entries of `list.h` are different objects; an array begins with room for one element at
least, and is bounded (`MaxElems`) where its 32 bits still hold twice its elements and their bytes.

* `InRoomCorrect`, of rounding: any width of an int. Inside the loop of `fls`, `Halved` says that `i`
  is what is left of the half after `position + 1` halvings, in powers of two, so that when `i` is
  0 the half lies between two neighbours of them (`Rounds`). Of memory: `AllocInv` says which parts
  are held at each step.
* `InRoomCorrect`, of arrays: the count is at most the room, the room at most the block, also
  after a `realloc` that failed (`ArrayInv`); and what `array_each` read of the count stays below it.
* `LinkedCorrect`, of `adlist.c`: that a list can be walked is said of its links, which a call changes one
  at a time. `AListInv` has a witness instead: a sequence of nodes for each list (`Holds`), each node once
  and in one list, whose neighbours the links name (`Chain`), with the ends and the count in the
  header. For each call the proof gives the new sequence; that the walks of the code from
  either end, and the search by value, meet that sequence (`WalkForward`, `WalkBack`, `SearchKey`)
  is shown once.
* `LinkedCorrect`, of `list.h`: likewise a sequence of entries for each head (`RingInv`), which stands before
  the first and after the last (`Circle`); a head that was spliced into another has none. Putting in, taking
  out, splicing and emptying are a lemma each, so that `list_move` is two of them. That `Ring` stops is that
  a list has at most all entries.
* `GoesOverAllCorrect`, of both lists, from the same sequences. What was found and not come to is
  ahead: there is a map from it into the places of the sequence from the iterator's own on, in order
  (`Ahead`). For each of putting in, taking out and going on a lemma gives the map that is there
  after it (`ComesInserted`, `ComesRemoved`, `ComesNext`); an iterator that goes backwards has the
  same over the sequence backwards (`Way`). The rule for callers is used once: who removes
  an entry does not remove the one the iterator has its pointer to.

### What is only model-checked

Liveness, all of it, and what depends on fairness: out of the prover's reach. Induction
over data: that the sorts of `EioReaddir` sort (`Listing`), that `eio__realpath` is the
walk of the kernel (`RealPath`). Of the lists and arrays, what each call does to the order
(`KeepsContents`). The programs but those above:
their properties (`Served`, `Drained`, `Shutdown`, `Fires`) are liveness.

`TypeCorrect` of `Queue_proofs` and of `AeUser_proofs`, and `AtMostAskedCorrect`, are of definitions
that no passing run names; the runs check them in parts.

## Plan

What would come next, in this order.

1. Owners of values in `AdList` (dup, free and match); stores reordered in `Queue`; a full socket
   buffer in `Sockets`.
2. An abstract specification of the log files (the newest generations, in order) that both
   modules implement, and one of a server (a message is answered once) for the five of them.
3. The second close of a descriptor in `TimerPoll`, after the number was given to another file.
4. `Daemonize` (`my_daemonize.c:58`) and `Singleton` (`singleton.h:20`) used by two threads.

A theorem: the order of the lists and of `NcArray` (`KeepsContents`), from the invariants of
`MCContainers_proofs`.

## Not modelled, and why

* Formatting, parsing and tables: `my_log`, `priority_name_value`, `murmurhash`,
  `parse_cmdline_param` and the other small utilities. No state, nothing concurrent;
  tests reach all of them. (`my_log.c:84` uses the length `vsnprintf` wanted, not the
  one it wrote.)
* Generated code and demonstrations of libraries: thrift, zmq, log4cpp, the two libev
  watcher demos (`simple_server.c` waits for a key or a timeout), loading of modules, the simple factory. What they do is the
  library's. `my_vosserver.cpp` has a hand-written queue, whose loop would never
  end on an order of an unknown type (`:183`), but nothing calls it yet; and its usage
  text gives long options arguments that its table says they do not have.
* Start-up: failures of `malloc`, `socket`, `bind` before anything runs, except where
  they lead into a shutdown that is modelled (`KafkaConsume`). The error path of
  `aeCreateEventLoop` frees members it has not assigned (`ae.c:42`).
* The emulations of system calls in `eio.c` that are not built on Linux, and the calls
  it passes on as they are; `ecb.h` and `xthread.h` beyond what is used are macros for compilers.
