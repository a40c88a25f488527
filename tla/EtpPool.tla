------------------------------ MODULE EtpPool ------------------------------
(***************************************************************************)
(* The libeio thread pool: libeio/etp.c, with the parts of libeio/eio.c it *)
(* calls back into (eio_execute, eio_finish, grp_dec) and the event loop   *)
(* of libeio/demo.c that drives it.                                        *)
(*                                                                         *)
(* One main thread submits, polls, cancels and resizes; worker threads     *)
(* take requests off req_queue, execute them and push them on res_queue.   *)
(* A critical section (reqlock, reslock or wrklock) is one action.  What   *)
(* the code reads without a lock is read in an action of its own.          *)
(***************************************************************************)
EXTENDS Integers, Sequences, FiniteSets

CONSTANTS
  Plain,        \* requests a worker executes
  Groups,       \* requests of type ETP_TYPE_GROUP
  Quit,         \* the requests of type ETP_TYPE_QUIT, all alike
  None,
  Workers,      \* thread slots; a slot is used again after its thread ended
  PriMin, PriMax,   \* ETP_PRI_MIN, ETP_PRI_MAX
  RawPri,       \* the priorities callers pass, in or out of range
  W,            \* unsigned int counts modulo W
  InitWanted, InitMaxIdle,   \* 4 and 4 in etp_init
  PollTimed,    \* max_poll_time is set: a poll may stop after any result
  MayFail,      \* xthread_create may fail
  MayCancel,    \* the application calls eio_cancel and eio_grp_cancel
  CbResults,    \* what finish callbacks return
  ParallelTo,   \* arguments of eio_set_min_parallel and eio_set_max_parallel
  IdleTo,       \* arguments of eio_set_max_idle
  PollTo,       \* arguments of eio_set_max_poll_reqs
  MaxTune       \* bound: how often a setter is called

ASSUME PoolAssumption ==
  /\ IsFiniteSet(Workers)
  /\ Plain \cap Groups = {}
  /\ Quit \notin Plain \cup Groups
  /\ None \notin Plain \cup Groups \cup {Quit}
  /\ PriMin \in Int /\ PriMax \in Int /\ PriMin <= PriMax
  /\ RawPri \subseteq Int
  /\ W \in Nat /\ W > 1
  /\ InitWanted \in 0 .. W - 1 /\ InitMaxIdle \in 0 .. W - 1
  /\ ParallelTo \cup IdleTo \cup PollTo \subseteq 0 .. W - 1
  /\ MaxTune \in Nat
  /\ {PollTimed, MayFail, MayCancel} \subseteq BOOLEAN
  /\ 0 \in CbResults /\ CbResults \subseteq Int

VARIABLES
  reqq, resq,                \* etp_pool: req_queue, res_queue
  started, idle,             \* etp_pool: thread counts
  wanted, maxIdle, maxReqs,  \* etp_pool: wanted, max_idle, max_poll_reqs
  nreqs, nready, npending,   \* etp_pool: request counts
  tokens,                    \* bytes in the pipe between want_poll and done_poll
  wpc, cur, timedOut,        \* each worker: place in etp_proc, its req, ts.tv_sec = 1
  mpc, mret, seen,           \* main: place, where maybe_start returns to, its first read
  ctx, chain, acc,           \* main: in the application or a callback; eio_finish frames
  budget, pollret,           \* etp_poll: maxreqs, and the value it last returned
  tunes,                     \* bound on the setters
  life, pri, cancelled,      \* eio_req: allocated, pri, cancelled
  grp, kids, gsize, delayed, \* eio_req: grp, list from grp_first, size, ETP_FLAG_DELAYED
  result, called             \* eio_req: result; how often the finish callback ran

confVars == <<wanted, maxIdle, maxReqs>>
poolVars == <<reqq, resq, started, idle, confVars, nreqs, nready, npending, tokens>>
workVars == <<wpc, cur, timedOut>>
mainVars == <<mpc, mret, seen, ctx, chain, acc, budget, pollret, tunes>>
reqVars  == <<life, pri, cancelled, grp, kids, gsize, delayed, result, called>>
vars     == <<poolVars, workVars, mainVars, reqVars>>

Reqs  == Plain \cup Groups
Items == Plain \cup {Quit}
TopPri == PriMax - PriMin
Pri   == 0 .. TopPri

-----------------------------------------------------------------------------
(* Arithmetic on unsigned int, and the cast back to int.                   *)

Inc(n) == IF n = W - 1 THEN 0 ELSE n + 1
DecSigned(n) == n - 1
Dec(n) == IF n = 0 THEN W - 1 ELSE n - 1
AsInt(n) == IF 2 * n >= W THEN n - W ELSE n

(* etp_reqq: one list per priority and a size. *)

EmptyQ == [qs |-> [p \in Pri |-> <<>>], size |-> 0]

Push(q, item, p) ==
  [qs |-> [q.qs EXCEPT ![p] = Append(@, item)], size |-> q.size + 1]

\* p is the list reqq_shift takes from: the highest that holds something.
IsTopLow(q, p) == q.qs[p] # <<>> /\ \A h \in Pri : h < p => q.qs[h] = <<>>
IsTop(q, p)    == q.qs[p] # <<>> /\ \A h \in Pri : h > p => q.qs[h] = <<>>

PopOnlySize(q, p) == [q EXCEPT !.size = @ - 1]
Pop(q, p) ==
  [qs |-> [q.qs EXCEPT ![p] = Tail(@)], size |-> q.size - 1]

\* etp_submit: the priority relative to ETP_PRI_MIN, kept in a signed char,
\* then clamped.
SChar(n) == ((n + 128) % 256) - 128
Clamp(p) == LET c == SChar(p - PriMin)
            IN  IF c < 0 THEN 0 ELSE IF c > TopPri THEN TopPri ELSE c

-----------------------------------------------------------------------------
(* Places of the workers.                                                  *)

Waiting == {w \in Workers : wpc[w] \in {"wait", "timedwait"}}
Live    == {w \in Workers : wpc[w] # "dead"}

\* X_COND_SIGNAL (pool->reqwait) wakes one waiting worker, if there is one.
SignalLost == wpc' = wpc
Signal == \/ Waiting = {} /\ wpc' = wpc
          \/ \E w \in Waiting : wpc' = [wpc EXCEPT ![w] = "woken"]

\* Result r is appended to res_queue; want_poll runs when it was empty.
WantPollAlways(q) == TRUE
WantPoll(q) == q.size = 0
PushResult(r, p) ==
  /\ npending' = Inc(npending)
  /\ resq' = Push(resq, r, p)
  /\ tokens' = IF WantPoll(resq) THEN tokens + 1 ELSE tokens

-----------------------------------------------------------------------------
(* etp_proc.                                                               *)

\* The section under reqlock, from the top of the inner loop to a wait or an
\* unlock.  A worker that wakes decrements idle first.
Acquire(w) ==
  /\ wpc[w] \in {"lock", "woken"}
  /\ idle' = IF wpc[w] = "woken" THEN Dec(idle) ELSE idle

\* The queue gave a request: a QUIT one ends the thread.
Takes(w) == reqq.size # 0

Take(w) ==
  /\ Acquire(w)
  /\ Takes(w)
  /\ \E p \in Pri :
       /\ IsTop(reqq, p)
       /\ reqq' = Pop(reqq, p)
       /\ LET item == Head(reqq.qs[p]) IN
            IF item = Quit
            THEN /\ wpc' = [wpc EXCEPT ![w] = "free"]
                 /\ cur' = [cur EXCEPT ![w] = None]
            ELSE /\ wpc' = [wpc EXCEPT ![w] = "exec"]
                 /\ cur' = [cur EXCEPT ![w] = item]
  /\ nready' = Dec(nready)
  /\ timedOut' = [timedOut EXCEPT ![w] = FALSE]
  /\ UNCHANGED <<resq, started, confVars, nreqs, npending, tokens, mainVars, reqVars>>

\* No request, but timeout detected: quit.
GiveUp(w) ==
  /\ Acquire(w)
  /\ ~Takes(w) /\ timedOut[w]
  /\ wpc' = [wpc EXCEPT ![w] = "retire"]
  /\ UNCHANGED <<reqq, resq, started, confVars, nreqs, nready, npending, tokens,
                 cur, timedOut, mainVars, reqVars>>

\* No request: wait on reqwait, with a timeout when enough others are idle.
Wait(w) ==
  /\ wpc[w] \in {"lock", "woken"}
  /\ ~Takes(w) /\ ~timedOut[w]
  /\ LET n == IF wpc[w] = "woken" THEN Dec(idle) ELSE idle IN
       /\ idle' = Inc(n)
       /\ wpc' = [wpc EXCEPT ![w] = IF Inc(n) <= maxIdle THEN "wait" ELSE "timedwait"]
  /\ UNCHANGED <<reqq, resq, started, confVars, nreqs, nready, npending, tokens,
                 cur, timedOut, mainVars, reqVars>>

\* X_COND_TIMEDWAIT returns ETIMEDOUT; the worker has still to take reqlock.
Timeout(w) ==
  /\ wpc[w] = "timedwait"
  /\ wpc' = [wpc EXCEPT ![w] = "woken"]
  /\ timedOut' = [timedOut EXCEPT ![w] = TRUE]
  /\ UNCHANGED <<poolVars, cur, mainVars, reqVars>>

\* A condition variable may wake a thread without a signal.
Spurious(w) ==
  /\ w \in Waiting
  /\ wpc' = [wpc EXCEPT ![w] = "woken"]
  /\ UNCHANGED <<poolVars, cur, timedOut, mainVars, reqVars>>

\* --pool->started, by a thread that timed out or for a QUIT request.
UncountedNot == started
Uncounted == Dec(started)

\* The timed-out worker is no longer counted, under wrklock.
Retire(w) ==
  /\ wpc[w] = "retire"
  /\ started' = Uncounted
  /\ wpc' = [wpc EXCEPT ![w] = "free"]
  /\ UNCHANGED <<reqq, resq, idle, confVars, nreqs, nready, npending, tokens,
                 cur, timedOut, mainVars, reqVars>>

\* etp_worker_free under wrklock, and the thread ends.
Free(w) ==
  /\ wpc[w] = "free"
  /\ wpc' = [wpc EXCEPT ![w] = "dead"]
  /\ timedOut' = [timedOut EXCEPT ![w] = FALSE]
  /\ UNCHANGED <<poolVars, cur, mainVars, reqVars>>

\* eio_execute reads the cancelled flag without a lock, then does the work.
Execute(w) ==
  /\ wpc[w] = "exec"
  /\ result' = [result EXCEPT ![cur[w]] = IF cancelled[cur[w]] THEN "ECANCELED" ELSE "done"]
  /\ wpc' = [wpc EXCEPT ![w] = "post"]
  /\ UNCHANGED <<poolVars, cur, timedOut, mainVars, life, pri, cancelled, grp,
                 kids, gsize, delayed, called>>

\* The section under reslock.
Post(w) ==
  /\ wpc[w] = "post"
  /\ PushResult(cur[w], pri[cur[w]])
  /\ wpc' = [wpc EXCEPT ![w] = "lock"]
  /\ cur' = [cur EXCEPT ![w] = None]
  /\ UNCHANGED <<reqq, started, idle, confVars, nreqs, nready, timedOut, mainVars, reqVars>>

-----------------------------------------------------------------------------
(* etp_maybe_start_thread and etp_start_thread, on the main thread.  The   *)
(* counts are read without a lock, each when the expression reaches it;    *)
(* C leaves the order of the two operands open.                            *)

MaybeStart(back) == mpc' = "maybe" /\ mret' = back

EnoughThreads == started >= wanted

MaybeStartEnough ==
  /\ mpc = "maybe"
  /\ mpc' = IF EnoughThreads THEN mret ELSE "read"
  /\ UNCHANGED <<poolVars, workVars, mret, seen, ctx, chain, acc, budget,
                 pollret, tunes, reqVars>>

MaybeStartRead ==
  /\ mpc = "read"
  /\ \/ seen' = [of |-> "nthreads", val |-> started]
     \/ seen' = [of |-> "npending", val |-> npending]
  /\ mpc' = "decide"
  /\ UNCHANGED <<poolVars, workVars, mret, ctx, chain, acc, budget, pollret,
                 tunes, reqVars>>

Served == IF seen.of = "nthreads" THEN AsInt(seen.val) + AsInt(npending)
                                  ELSE AsInt(started) + AsInt(seen.val)

MaybeStartDecide ==
  /\ mpc = "decide"
  /\ mpc' = IF 0 <= Served - AsInt(nreqs) THEN mret ELSE "start"
  /\ UNCHANGED <<poolVars, workVars, mret, seen, ctx, chain, acc, budget,
                 pollret, tunes, reqVars>>

\* etp_start_thread under wrklock.  The bound on slots delays the start.
StartThread ==
  /\ mpc = "start"
  /\ \E w \in Workers :
       /\ wpc[w] = "dead"
       /\ wpc' = [wpc EXCEPT ![w] = "lock"]
  /\ started' = Inc(started)
  /\ mpc' = mret
  /\ UNCHANGED <<reqq, resq, idle, confVars, nreqs, nready, npending, tokens, cur,
                 timedOut, mret, seen, ctx, chain, acc, budget, pollret, tunes, reqVars>>

StartFails ==
  /\ MayFail
  /\ mpc = "start"
  /\ mpc' = mret
  /\ UNCHANGED <<poolVars, workVars, mret, seen, ctx, chain, acc, budget,
                 pollret, tunes, reqVars>>

-----------------------------------------------------------------------------
(* The application's calls, made from the event loop or from a finish      *)
(* callback.  A request is submitted once.                                 *)

InUser == mpc = "user"

New(r) == InUser /\ life[r] = "new" /\ life' = [life EXCEPT ![r] = "live"]

\* etp_submit, request branch: one section under reqlock, then maybe_start.
Submit(r) ==
  /\ r \in Plain /\ New(r)
  /\ \E p \in RawPri :
       /\ pri' = [pri EXCEPT ![r] = Clamp(p)]
       /\ reqq' = Push(reqq, r, Clamp(p))
  /\ nreqs' = Inc(nreqs)
  /\ nready' = Inc(nready)
  /\ Signal
  /\ MaybeStart("user")
  /\ UNCHANGED <<resq, started, idle, confVars, npending, tokens, cur, timedOut,
                 seen, ctx, chain, acc, budget, pollret, tunes,
                 cancelled, grp, kids, gsize, delayed, result, called>>

\* etp_submit, group branch: nreqs under reqlock, then the push under reslock.
\* No other thread looks at nreqs, so the two sections are one step.
SubmitGroup(g) ==
  /\ g \in Groups /\ New(g)
  /\ pri' = [pri EXCEPT ![g] = TopPri]
  /\ nreqs' = Inc(nreqs)
  /\ PushResult(g, TopPri)
  /\ UNCHANGED <<reqq, started, idle, confVars, nready, workVars, mainVars,
                 cancelled, grp, kids, gsize, delayed, result, called>>

Finishing(r) == \E i \in 1 .. Len(chain) : chain[i] = r

\* What etp_cancel reaches: r, and through grp_first the members of groups.
UnderFlat(r) == {r} \cup (IF r \in Groups THEN kids[r] ELSE {})
Under(r) ==
  {x \in Reqs : \A S \in SUBSET Reqs :
      (r \in S /\ \A g \in S \cap Groups : kids[g] \subseteq S) => x \in S}

\* eio_grp_add, for a request and a group that have not finished.
GrpAdd(g, r) ==
  /\ InUser
  /\ g \in Groups /\ r \in Reqs
  /\ life[g] = "live" /\ life[r] = "live"
  /\ ~Finishing(g) /\ ~Finishing(r)
  /\ grp[r] = None /\ g \notin Under(r)
  /\ grp' = [grp EXCEPT ![r] = g]
  /\ kids' = [kids EXCEPT ![g] = @ \cup {r}]
  /\ gsize' = [gsize EXCEPT ![g] = @ + 1]
  /\ UNCHANGED <<poolVars, workVars, mainVars, life, pri, cancelled, delayed,
                 result, called>>

CancelSet(S) ==
  /\ InUser /\ MayCancel
  /\ cancelled' = [x \in Reqs |-> cancelled[x] \/ x \in S]
  /\ cancelled' # cancelled
  /\ UNCHANGED <<poolVars, workVars, mainVars, life, pri, grp, kids, gsize,
                 delayed, result, called>>

Cancel(r) == life[r] = "live" /\ CancelSet(Under(r))

GrpCancel(g) ==
  life[g] = "live" /\ CancelSet(UNION {Under(r) : r \in kids[g]})

\* etp_set_min_parallel.
SetMinParallel(n) ==
  /\ InUser /\ tunes < MaxTune /\ wanted < n
  /\ wanted' = n
  /\ tunes' = tunes + 1
  /\ UNCHANGED <<reqq, resq, started, idle, maxIdle, maxReqs, nreqs, nready, npending, tokens, workVars,
                 mpc, mret, seen, ctx, chain, acc, budget, pollret, reqVars>>

\* etp_set_max_parallel lowers wanted, then ends threads one by one.
SetMaxParallel(n) ==
  /\ InUser /\ tunes < MaxTune
  /\ wanted' = IF wanted > n THEN n ELSE wanted
  /\ tunes' = tunes + 1
  /\ mpc' = "endcheck"
  /\ UNCHANGED <<reqq, resq, started, idle, maxIdle, maxReqs, nreqs, nready, npending,
                 tokens, workVars,
                 mret, seen, ctx, chain, acc, budget, pollret, reqVars>>

\* etp_set_max_idle and etp_set_max_poll_reqs.
SetMaxIdle(n) ==
  /\ InUser /\ tunes < MaxTune
  /\ maxIdle' = n
  /\ tunes' = tunes + 1
  /\ UNCHANGED <<reqq, resq, started, idle, wanted, maxReqs, nreqs, nready, npending,
                 tokens, workVars, mpc, mret, seen, ctx, chain, acc, budget, pollret, reqVars>>

SetMaxPollReqs(n) ==
  /\ InUser /\ tunes < MaxTune
  /\ maxReqs' = n
  /\ tunes' = tunes + 1
  /\ UNCHANGED <<reqq, resq, started, idle, wanted, maxIdle, nreqs, nready, npending,
                 tokens, workVars, mpc, mret, seen, ctx, chain, acc, budget, pollret, reqVars>>

EndCheck ==
  /\ mpc = "endcheck"
  /\ mpc' = IF started > wanted THEN "endpush" ELSE "user"
  /\ UNCHANGED <<poolVars, workVars, mret, seen, ctx, chain, acc, budget,
                 pollret, tunes, reqVars>>

\* etp_end_thread: the QUIT request under reqlock, the count under wrklock.
EndPush ==
  /\ mpc = "endpush"
  /\ reqq' = Push(reqq, Quit, TopPri)
  /\ Signal
  /\ mpc' = "enddec"
  /\ UNCHANGED <<resq, started, idle, confVars, nreqs, nready, npending, tokens, cur,
                 timedOut, mret, seen, ctx, chain, acc, budget, pollret, tunes, reqVars>>

EndDec ==
  /\ mpc = "enddec"
  /\ started' = Uncounted
  /\ mpc' = "endcheck"
  /\ UNCHANGED <<reqq, resq, idle, confVars, nreqs, nready, npending, tokens, workVars,
                 mret, seen, ctx, chain, acc, budget, pollret, tunes, reqVars>>

-----------------------------------------------------------------------------
(* event_loop of demo.c: while there are requests, wait for the pipe and   *)
(* call eio_poll.                                                          *)

PollBegin ==
  /\ InUser /\ ctx = "app"
  /\ nreqs # 0 /\ tokens > 0
  /\ budget' = maxReqs
  /\ MaybeStart("shift")
  /\ UNCHANGED <<poolVars, workVars, seen, ctx, chain, acc, pollret, tunes, reqVars>>

PollReturn(v) ==
  /\ pollret' = v
  /\ mpc' = "user"
  /\ ctx' = "app"

\* done_poll runs when the last result is taken, still under reslock.
DonePoll(q) == q.size = 1

PollShift ==
  /\ mpc = "shift"
  /\ resq.size # 0
  /\ \E p \in Pri :
       /\ IsTop(resq, p)
       /\ resq' = Pop(resq, p)
       /\ chain' = <<Head(resq.qs[p])>>
  /\ npending' = Dec(npending)
  /\ tokens' = IF DonePoll(resq) THEN tokens - 1 ELSE tokens
  /\ mpc' = "handle"
  /\ UNCHANGED <<reqq, started, idle, confVars, nreqs, nready, workVars, mret, seen,
                 ctx, acc, budget, pollret, tunes, reqVars>>

PollEmpty ==
  /\ mpc = "shift"
  /\ resq.size = 0
  /\ PollReturn(0)
  /\ UNCHANGED <<poolVars, workVars, mret, seen, chain, acc, budget, tunes, reqVars>>

\* eio_finish (r): the finish callback runs unless the request is cancelled.
BeginFinish(r) ==
  IF cancelled[r]
  THEN mpc' = "unlink" /\ UNCHANGED <<ctx, called>>
  ELSE mpc' = "user" /\ ctx' = "cb" /\ called' = [called EXCEPT ![r] = @ + 1]

\* The count under reqlock, then a group with members is put off and any
\* other request finished.
PutOffNever(r) == FALSE
PutOff(r) == r \in Groups /\ gsize[r] # 0

PollHandle ==
  /\ mpc = "handle"
  /\ nreqs' = Dec(nreqs)
  /\ acc' = 0
  /\ LET r == chain[1] IN
       IF PutOff(r)
       THEN /\ delayed' = [delayed EXCEPT ![r] = TRUE]
            /\ chain' = <<>>
            /\ MaybeStart("shift")
            /\ UNCHANGED <<ctx, called>>
       ELSE BeginFinish(r) /\ UNCHANGED <<delayed, chain, mret>>
  /\ UNCHANGED <<reqq, resq, started, idle, confVars, nready, npending, tokens, workVars,
                 seen, budget, pollret, tunes, life, pri, cancelled, grp, kids, gsize, result>>

\* The callback returns v; eio_finish keeps the first value that is not 0.
CbReturn ==
  /\ InUser /\ ctx = "cb"
  /\ \E v \in CbResults : acc' = IF acc = 0 THEN v ELSE acc
  /\ mpc' = "unlink"
  /\ ctx' = "app"
  /\ UNCHANGED <<poolVars, workVars, mret, seen, chain, budget, pollret, tunes, reqVars>>

\* grp_dec finishes the group with its last member, if the poll put it off.
LastNever(g) == FALSE
LastOfDelayed(g) == gsize[g] = 1 /\ delayed[g]

UnlinkedNot(list, r) == list
Unlinked(list, r) == list \ {r}

\* The rest of eio_finish for a member: unlink it, grp_dec its group, and
\* finish that when it is complete.
UnlinkMember ==
  /\ mpc = "unlink"
  /\ LET r == chain[Len(chain)]
         g == grp[r]
     IN  /\ g # None
         /\ kids' = [kids EXCEPT ![g] = Unlinked(@, r)]
         /\ gsize' = [gsize EXCEPT ![g] = @ - 1]
         /\ IF LastOfDelayed(g)
            THEN chain' = Append(chain, g) /\ BeginFinish(g)
            ELSE mpc' = "destroy" /\ UNCHANGED <<chain, ctx, called>>
  /\ UNCHANGED <<poolVars, workVars, mret, seen, acc, budget, pollret, tunes,
                 life, pri, cancelled, grp, delayed, result>>

UnlinkNone ==
  /\ mpc = "unlink"
  /\ grp[chain[Len(chain)]] = None
  /\ mpc' = "destroy"
  /\ UNCHANGED <<poolVars, workVars, mret, seen, ctx, chain, acc, budget, pollret,
                 tunes, reqVars>>

\* The nested eio_finish calls return, each destroying its request, and the
\* loop of etp_poll goes on or stops.
PollNext ==
  /\ mpc = "destroy"
  /\ life' = [r \in Reqs |-> IF Finishing(r) THEN "freed" ELSE life[r]]
  /\ chain' = <<>>
  /\ \/ acc # 0 /\ PollReturn(acc) /\ UNCHANGED <<mret, budget>>
     \/ acc = 0 /\ budget = 1 /\ PollReturn(-1) /\ budget' = 0 /\ UNCHANGED mret
     \/ acc = 0 /\ budget # 1 /\ PollTimed /\ PollReturn(-1)
        /\ budget' = (IF budget = 0 THEN 0 ELSE budget - 1) /\ UNCHANGED mret
     \/ acc = 0 /\ budget # 1 /\ MaybeStart("shift")
        /\ budget' = (IF budget = 0 THEN 0 ELSE budget - 1) /\ UNCHANGED <<ctx, pollret>>
  /\ UNCHANGED <<poolVars, workVars, seen, acc, tunes, pri, cancelled, grp, kids,
                 gsize, delayed, result, called>>

-----------------------------------------------------------------------------
Init ==
  /\ reqq = EmptyQ /\ resq = EmptyQ
  /\ started = 0 /\ idle = 0
  /\ wanted = InitWanted /\ maxIdle = InitMaxIdle /\ maxReqs = 0
  /\ nreqs = 0 /\ nready = 0 /\ npending = 0
  /\ tokens = 0
  /\ wpc = [w \in Workers |-> "dead"]
  /\ cur = [w \in Workers |-> None]
  /\ timedOut = [w \in Workers |-> FALSE]
  /\ mpc = "user" /\ mret = "user" /\ seen = [of |-> "nthreads", val |-> 0]
  /\ ctx = "app" /\ chain = <<>> /\ acc = 0
  /\ budget = 0 /\ pollret = 0 /\ tunes = 0
  /\ life = [r \in Reqs |-> "new"]
  /\ pri = [r \in Reqs |-> 0]
  /\ cancelled = [r \in Reqs |-> FALSE]
  /\ grp = [r \in Reqs |-> None]
  /\ kids = [g \in Groups |-> {}]
  /\ gsize = [g \in Groups |-> 0]
  /\ delayed = [g \in Groups |-> FALSE]
  /\ result = [r \in Reqs |-> "none"]
  /\ called = [r \in Reqs |-> 0]

Worker(w) == Take(w) \/ GiveUp(w) \/ Wait(w) \/ Retire(w) \/ Free(w)
             \/ Execute(w) \/ Post(w)

Clock(w) == Timeout(w) \/ Spurious(w)

User ==
  \/ \E r \in Plain : Submit(r)
  \/ \E g \in Groups : SubmitGroup(g) \/ GrpCancel(g)
  \/ \E g \in Groups, r \in Reqs : GrpAdd(g, r)
  \/ \E r \in Reqs : Cancel(r)
  \/ \E n \in ParallelTo : SetMinParallel(n) \/ SetMaxParallel(n)
  \/ \E n \in IdleTo : SetMaxIdle(n)
  \/ \E n \in PollTo : SetMaxPollReqs(n)

Inside ==
  \/ MaybeStartEnough \/ MaybeStartRead \/ MaybeStartDecide
  \/ StartThread \/ StartFails
  \/ EndCheck \/ EndPush \/ EndDec
  \/ PollShift \/ PollEmpty \/ PollHandle
  \/ UnlinkMember \/ UnlinkNone \/ PollNext

Next ==
  \/ \E w \in Workers : Worker(w) \/ Clock(w)
  \/ User \/ Inside \/ PollBegin \/ CbReturn

Spec == Init /\ [][Next]_vars

\* The scheduler runs every thread that can run; the event loop comes back
\* to poll, and callbacks return.
FairSpec ==
  /\ Spec
  /\ \A w \in Workers : WF_vars(Worker(w))
  /\ WF_vars(Inside) /\ WF_vars(PollBegin) /\ WF_vars(CbReturn)

-----------------------------------------------------------------------------
(* Properties.                                                             *)

Bounded(q, S) == q \in [qs : [Pri -> Seq(S)], size : Nat]

QueuesOK ==
  Bounded(reqq, Items) /\ Bounded(resq, Reqs) /\ tokens \in Int

CountsOK ==
  {started, idle, wanted, maxIdle, maxReqs, nreqs, nready, npending} \subseteq 0 .. W - 1

Places == {"dead", "lock", "wait", "timedwait", "woken", "retire", "free", "exec", "post"}

WorkersOK ==
  /\ wpc \in [Workers -> Places]
  /\ cur \in [Workers -> Plain \cup {None}]
  /\ \A w \in Workers : wpc[w] \in {"exec", "post"} => cur[w] \in Plain
  /\ timedOut \in [Workers -> BOOLEAN]

MainOK ==
  /\ mpc \in {"user", "maybe", "read", "decide", "start", "endcheck", "endpush",
              "enddec", "shift", "handle", "unlink", "destroy"}
  /\ mret \in {"user", "shift"}
  /\ seen \in [of : {"nthreads", "npending"}, val : 0 .. W - 1]
  /\ ctx \in {"app", "cb"}
  /\ chain \in Seq(Reqs)
  /\ (mpc \in {"handle", "unlink"} \/ ctx = "cb") => chain # <<>>
  /\ mpc \in {"shift", "handle", "unlink", "destroy"} => ctx = "app"
  /\ (mpc \in {"maybe", "read", "decide", "start"} /\ mret = "shift") => ctx = "app"
  /\ acc \in Int /\ budget \in 0 .. W - 1 /\ pollret \in Int /\ tunes \in Nat

RequestsOK ==
  /\ life \in [Reqs -> {"new", "live", "freed"}]
  /\ pri \in [Reqs -> Pri]
  /\ cancelled \in [Reqs -> BOOLEAN]
  /\ grp \in [Reqs -> Groups \cup {None}]
  /\ kids \in [Groups -> SUBSET Reqs]
  /\ gsize \in [Groups -> Int]
  /\ delayed \in [Groups -> BOOLEAN]
  /\ result \in [Reqs -> {"none", "done", "ECANCELED"}]
  /\ called \in [Reqs -> Nat]

\* The type of each variable, and what the places of the threads say of the
\* requests they hold.
TypeOK == QueuesOK /\ CountsOK /\ WorkersOK /\ MainOK /\ RequestsOK

\* The pipe holds one byte exactly while results wait (eio.h: want_poll "will
\* be called when results are available", done_poll "is called when the need
\* to poll is gone"), however pushes, polls that stop early and group
\* submissions interleave.
PollToken == tokens = IF resq.size = 0 THEN 0 ELSE 1

Where(q, x) ==
  UNION {{<<p, i>> : i \in {j \in DOMAIN q.qs[p] : q.qs[p][j] = x}} : p \in Pri}

\* The size of a queue is what its lists hold, and npending is the size of
\* res_queue.
SizesAgree ==
  /\ \A q \in {reqq, resq} :
       q.size = Cardinality(UNION {{<<p, i>> : i \in DOMAIN q.qs[p]} : p \in Pri})
  /\ npending = resq.size % W

PutAside(r) == r \in Groups /\ delayed[r] /\ ~Finishing(r)

\* An allocated request is in one place: a queue, a worker's hand, the frames
\* of eio_finish, or put off as a group with members.  None is lost, none is
\* in two places (a second eio_finish would be a double free), and a freed one
\* is in no place.
OnePlace ==
  \A r \in Reqs :
    Cardinality(Where(reqq, r)) + Cardinality(Where(resq, r))
      + Cardinality({w \in Workers : cur[w] = r})
      + (IF Finishing(r) \/ (life[r] = "live" /\ PutAside(r)) THEN 1 ELSE 0)
    = IF life[r] = "live" THEN 1 ELSE 0

\* The QUIT requests in req_queue.
Pills == Cardinality(Where(reqq, Quit))

\* What started counts, modulo the width of unsigned int: the threads that
\* have not set out to end, less the QUIT requests no thread has taken yet.
StartedCount ==
  started = (Cardinality({w \in Workers : wpc[w] \notin {"dead", "free"}}) - Pills
             + (IF mpc = "enddec" THEN 1 ELSE 0)) % W

\* idle counts the threads inside the wait on reqwait, woken ones included
\* until they hold reqlock again: the timeout rule of max_idle rests on it.
IdleCount ==
  idle = Cardinality({w \in Workers : wpc[w] \in {"wait", "timedwait", "woken"}})

\* The counts mean what the code makes of them, in every interleaving of the
\* locks they are changed under: reqq_shift never comes to its abort (), the
\* choice to start or to end a thread and the rule of max_idle rest on counts
\* of real threads, and started comes back from a wrap.
CountsAgree == SizesAgree /\ StartedCount /\ IdleCount

\* The workers that will come back to the queue without being signalled.
Awake == {w \in Workers : wpc[w] \in {"lock", "woken", "exec", "post"}}

\* No lost wake-up: while a worker sleeps on reqwait, at least as many others
\* are on their way to the queue as it holds requests: a signal that wakes a
\* worker whose request another one takes, a timeout or a QUIT request must not
\* leave a request to sleepers only.
NoLostWakeup == Waiting # {} => reqq.size <= Cardinality(Awake)

\* A worker takes the request of the highest priority in req_queue.
TakesHighest ==
  [][\A w \in Workers :
       (cur'[w] # cur[w] /\ cur'[w] # None) =>
         \A r \in Plain : Where(reqq, r) # {} => pri[r] <= pri[cur'[w]]]_vars

\* The member count of a group is the length of its list: grp_dec finishes
\* the group at zero. So when the event loop finds eio_nreqs() = 0 and leaves,
\* nothing is left behind: no request in flight and no group put off.
GroupSize == \A g \in Groups : gsize[g] = Cardinality(kids[g])
NoneLeft == (InUser /\ ctx = "app" /\ nreqs = 0) => \A r \in Reqs : life[r] # "live"
LeavesNothing == GroupSize /\ NoneLeft

\* eio_cancel of a group reaches its members at any depth (eio.h: "cancels all
\* sub requests").
CancelReachesAll ==
  [][\A g \in Groups : (cancelled'[g] /\ ~cancelled[g]) =>
        \A r \in kids[g] : cancelled'[r]]_vars

\* Every submitted request is finished and destroyed.
EveryRequestEnds == \A r \in Reqs : (life[r] = "live") ~> (life[r] = "freed")

\* What eio.h promises the caller, over the same requests.
Contract == INSTANCE EioContract WITH
  phase <- life, dropped <- cancelled, parent <- grp, outcome <- result,
  told <- called

\* The pool does what the header promises, whatever its threads, queues and
\* counts do: each of its steps is a step of the contract or changes nothing
\* the caller sees.
KeepsContract == Contract!Spec
=============================================================================
